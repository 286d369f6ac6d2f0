---------------------- MODULE SessionPersistenceProofs ----------------------
(***************************************************************************)
(* Type correctness of SessionPersistence, CountedOnce, HistoryBounded,    *)
(* RecordSurvives and AllCounted, for any number of sessions, players,     *)
(* enders, attempts and failures.                                          *)
(*                                                                         *)
(* CountedOnce is not inductive: UpdateStats adds to a counter whatever it *)
(* holds.  Unpaid supplies what is missing: a session that is active or    *)
(* still somebody's job has not been counted, and is the job of one ender  *)
(* at most.  The steps are first sorted into the five kinds below, and     *)
(* both invariants are shown for each kind.                                *)
(***************************************************************************)
EXTENDS SessionPersistence, FiniteSetTheorems, WellFoundedInduction, TLAPS

\* The places of persistSession, where an ender has a session in hand.
SessionPCs == PCs \ {"idle", "count3", "delete3"}

\* The places where his name is at hand too.
NamePCs == {"lookup", "create", "update"}

HasSession ==
    \A e \in Enders :
        /\ job[e].pc \in SessionPCs => job[e].ses \in Sessions
        /\ job[e].pc \in NamePCs => NameOf[job[e].ses] \in Players

\* The history is finite, so that its size is a number.
Shape == TypeOK /\ HasSession /\ IsFiniteSet(history)

Unpaid ==
    /\ \A s \in active : counted[s] = 0
    /\ \A s \in Sessions \ active : counted[s] \in {0, 1}
    /\ \A e \in Enders : job[e].ses # None =>
           job[e].ses \notin active /\ counted[job[e].ses] = 0
    /\ \A e, f \in Enders : job[e].ses # None /\ job[e].ses = job[f].ses => e = f

-----------------------------------------------------------------------------
(* The kinds of steps.                                                     *)

\* The places an ender with job j may go to.
Allowed(j, pc) ==
    /\ pc \in PCs
    /\ pc \in SessionPCs => j.pc \in SessionPCs
    /\ pc \in NamePCs => NameOf[j.ses] \in Players

\* The jobs with which it may go on.
After(j) ==
    {k \in Jobs : /\ k.ses = j.ses \/ k.ses = None
                  /\ k.pc \in SessionPCs => k.ses = j.ses
                  /\ Allowed(j, k.pc)}

\* Nothing about the players' totals.
Moves(e) ==
    /\ \E k \in After(job[e]) : job' = [job EXCEPT ![e] = k]
    /\ UNCHANGED <<active, counted>>

\* The session of e goes into the totals.
Pays(e) ==
    /\ job[e].ses \in Sessions
    /\ counted' = [counted EXCEPT ![job[e].ses] = @ + 1]
    /\ job' = [job EXCEPT ![e] = NoJob]
    /\ UNCHANGED active

\* e takes a session in hand, or drops it as anonymous.
Starts(e, s) ==
    /\ s \in active
    /\ active' = active \ {s}
    /\ UNCHANGED counted
    /\ \/ UNCHANGED job
       \/ job' = [job EXCEPT ![e] = [NoJob EXCEPT !.pc = "insert", !.ses = s]]

\* Totals are deleted, or nothing happens to them.
Erases ==
    /\ counted' \in [Sessions -> Nat]
    /\ \A s \in Sessions : counted'[s] \in {0, counted[s]}
    /\ UNCHANGED <<active, job>>

Tables ==
    /\ history' \subseteq Sessions
    /\ IsFiniteSet(history')
    /\ rows' \subseteq Players
    /\ limit' \in Limits
    /\ faults' \in 0 .. MaxFaults
    /\ erased' \subseteq Sessions \cup Players

Kinds ==
    \/ \E e \in Enders : Moves(e) \/ Pays(e)
    \/ \E e \in Enders, s \in Sessions : Starts(e, s)
    \/ Erases

-----------------------------------------------------------------------------
LEMMA NoJobType == NoJob \in Jobs /\ NoJob.ses = None /\ NoJob.pc = "idle"
  BY Constants DEF NoJob, Jobs, PCs

LEMMA NoJobAfter == ASSUME NEW j \in Jobs PROVE NoJob \in After(j)
  BY NoJobType DEF After, Allowed, SessionPCs, NamePCs, PCs

\* A job with another place, attempt and excess is a job.
LEMMA JobUpdate ==
  ASSUME NEW j \in Jobs, NEW pc \in PCs, NEW i \in 1 .. MaxRetries, NEW n \in Nat,
         Allowed(j, pc)
  PROVE  [j EXCEPT !.pc = pc, !.try = i, !.n = n] \in After(j)
  <1> DEFINE k == [j EXCEPT !.pc = pc, !.try = i, !.n = n]
  <1>1. k \in Jobs
    BY DEF Jobs
  <1>2. k.pc = pc /\ k.ses = j.ses
    BY DEF Jobs
  <1> QED
    BY <1>1, <1>2 DEF After

LEMMA JobRetry ==
  ASSUME NEW j \in Jobs, NEW pc \in PCs, NEW i \in 1 .. MaxRetries,
         Allowed(j, pc)
  PROVE  [j EXCEPT !.pc = pc, !.try = i] \in After(j)
  <1> DEFINE k == [j EXCEPT !.pc = pc, !.try = i]
  <1>1. k \in Jobs
    BY DEF Jobs
  <1>2. k.pc = pc /\ k.ses = j.ses
    BY DEF Jobs
  <1> QED
    BY <1>1, <1>2 DEF After

LEMMA JobTurn ==
  ASSUME NEW j \in Jobs, NEW pc \in PCs, NEW n \in Nat,
         Allowed(j, pc)
  PROVE  /\ [j EXCEPT !.pc = pc, !.n = n] \in After(j)
         /\ [j EXCEPT !.pc = pc] \in After(j)
  <1>1. /\ [j EXCEPT !.pc = pc, !.n = n] \in Jobs
        /\ [j EXCEPT !.pc = pc] \in Jobs
    BY DEF Jobs
  <1>2. /\ [j EXCEPT !.pc = pc, !.n = n].pc = pc
        /\ [j EXCEPT !.pc = pc, !.n = n].ses = j.ses
        /\ [j EXCEPT !.pc = pc].pc = pc
        /\ [j EXCEPT !.pc = pc].ses = j.ses
    BY DEF Jobs
  <1> QED
    BY <1>1, <1>2 DEF After

\* What Go, Continue and Retry make of a job.
LEMMA GoAfter ==
  ASSUME TypeOK, NEW e \in Enders, NEW pc \in PCs, Go(e, pc),
         Allowed(job[e], pc)
  PROVE  \E k \in After(job[e]) : job' = [job EXCEPT ![e] = k]
  <1>1. job[e] \in Jobs
    BY DEF TypeOK
  <1>2. 1 \in 1 .. MaxRetries
    BY Constants
  <1>3. [job[e] EXCEPT !.pc = pc, !.try = 1, !.n = 0] \in After(job[e])
    BY <1>1, <1>2, JobUpdate
  <1> QED
    BY <1>3 DEF Go

LEMMA DoneAfter ==
  ASSUME TypeOK, NEW e \in Enders, Done(e)
  PROVE  \E k \in After(job[e]) : job' = [job EXCEPT ![e] = k]
  <1>1. job[e] \in Jobs
    BY DEF TypeOK
  <1> QED
    BY <1>1, NoJobAfter DEF Done

LEMMA ContinueAfter ==
  ASSUME TypeOK, NEW e \in Enders, NEW pc \in PCs, Continue(e, pc),
         Allowed(job[e], pc)
  PROVE  \E k \in After(job[e]) : job' = [job EXCEPT ![e] = k]
  BY GoAfter, DoneAfter DEF Continue

LEMMA RetryAfter ==
  ASSUME TypeOK, NEW e \in Enders, NEW again \in PCs, NEW next \in PCs,
         Retry(e, again, next),
         Allowed(job[e], again), Allowed(job[e], next)
  PROVE  \E k \in After(job[e]) : job' = [job EXCEPT ![e] = k]
  <1>1. CASE job[e].try < MaxRetries
    <2>1. job[e] \in Jobs
      BY DEF TypeOK
    <2>2. job[e].try + 1 \in 1 .. MaxRetries
      BY <1>1, <2>1, Constants DEF Jobs
    <2>3. [job[e] EXCEPT !.pc = again, !.try = job[e].try + 1] \in After(job[e])
      BY <2>1, <2>2, JobRetry
    <2> QED
      BY <1>1, <2>3 DEF Retry
  <1>2. CASE ~(job[e].try < MaxRetries)
    BY <1>2, ContinueAfter DEF Retry
  <1> QED
    BY <1>1, <1>2

LEMMA FaultType == ASSUME TypeOK, Fault PROVE faults' \in 0 .. MaxFaults
  BY Constants DEF TypeOK, Fault

-----------------------------------------------------------------------------
(* Every step is of one of the kinds.                                      *)

LEMMA InsertKind ==
  ASSUME Shape, NEW e \in Enders, Insert(e)
  PROVE  Moves(e) /\ Tables
  <1>0. job[e] \in Jobs /\ job[e].pc = "insert" /\ job[e].ses \in Sessions
    BY DEF Shape, TypeOK, HasSession, SessionPCs, Insert, PCs
  <1>1. /\ Allowed(job[e], "insert")
        /\ Allowed(job[e], "count")
        /\ Allowed(job[e], "count2")
    BY <1>0 DEF PCs, Allowed, SessionPCs, NamePCs
  <1>2. \A pc \in {"insert", "count", "count2"} : pc \in PCs
    BY DEF PCs
  <1>3. [job[e] EXCEPT !.pc = "count"] \in After(job[e])
    BY <1>0, <1>1, <1>2, JobTurn
  <1>5. \E k \in After(job[e]) : job' = [job EXCEPT ![e] = k]
    <2>1. CASE Retry(e, "insert", "count2")
      BY <1>1, <1>2, <2>1, RetryAfter DEF Shape
    <2> QED
      BY <1>3, <2>1 DEF Insert
  <1>6. faults' \in 0 .. MaxFaults
    BY FaultType DEF Shape, TypeOK, Insert
  <1>7. history' \subseteq Sessions
    BY <1>0 DEF Insert, Shape, TypeOK
  <1>8. IsFiniteSet(history')
    BY FS_AddElement DEF Insert, Shape
  <1> QED
    BY <1>5, <1>6, <1>7, <1>8 DEF Moves, Tables, Insert, Shape, TypeOK

LEMMA CountKind ==
  ASSUME Shape, NEW e \in Enders, NEW at \in PCs, NEW del \in PCs,
         NEW again \in PCs, NEW next \in PCs,
         Allowed(job[e], del), Allowed(job[e], again), Allowed(job[e], next),
         Count(e, at, del, again, next)
  PROVE  Moves(e) /\ Tables
  <1>0. job[e] \in Jobs /\ job[e].pc = at
    BY DEF Shape, TypeOK, Count
  <1>1. Cardinality(history) \in Nat
    BY FS_CardinalityType DEF Shape
  <1>5. \E k \in After(job[e]) : job' = [job EXCEPT ![e] = k]
    <2>1. CASE /\ Cardinality(history) > limit
               /\ job' = [job EXCEPT ![e] = [@ EXCEPT !.pc = del,
                                          !.n = Cardinality(history) - limit]]
      <3>1. Cardinality(history) - limit \in Nat
        BY <1>1, <2>1, Constants DEF Shape, TypeOK
      <3>2. [job[e] EXCEPT !.pc = del, !.n = Cardinality(history) - limit]
               \in After(job[e])
        BY <1>0, <3>1, JobTurn
      <3> QED
        BY <2>1, <3>2
    <2>2. CASE Continue(e, next)
      BY <2>2, ContinueAfter DEF Shape
    <2>3. CASE Retry(e, again, next)
      BY <2>3, RetryAfter DEF Shape
    <2> QED
      BY <2>1, <2>2, <2>3 DEF Count
  <1>6. faults' \in 0 .. MaxFaults
    BY FaultType DEF Shape, TypeOK, Count
  <1> QED
    BY <1>5, <1>6 DEF Moves, Tables, Count, Shape, TypeOK

LEMMA DeleteOldestKind ==
  ASSUME Shape, NEW e \in Enders, NEW at \in PCs, NEW again \in PCs,
         NEW next \in PCs,
         Allowed(job[e], again), Allowed(job[e], next),
         DeleteOldest(e, at, again, next)
  PROVE  Moves(e) /\ Tables
  <1>0. job[e] \in Jobs /\ job[e].pc = at
    BY DEF Shape, TypeOK, DeleteOldest
  <1>3. \E k \in After(job[e]) : job' = [job EXCEPT ![e] = k]
    <2>1. CASE Continue(e, next)
      BY <2>1, ContinueAfter DEF Shape
    <2>2. CASE Retry(e, again, next)
      BY <2>2, RetryAfter DEF Shape
    <2> QED
      BY <2>1, <2>2 DEF DeleteOldest
  <1>4. faults' \in 0 .. MaxFaults
    BY FaultType DEF Shape, TypeOK, DeleteOldest
  <1>5. history' \subseteq history
    BY DEF DeleteOldest
  <1>6. IsFiniteSet(history')
    BY <1>5, FS_Subset DEF Shape
  <1>7. erased' \subseteq Sessions \cup Players
    <2>1. Oldest(job[e].n) \subseteq history
      BY DEF Oldest
    <2> QED
      BY <2>1 DEF DeleteOldest, Shape, TypeOK
  <1> QED
    BY <1>3, <1>4, <1>5, <1>6, <1>7 DEF Moves, Tables, DeleteOldest, Shape, TypeOK

LEMMA LookupKind ==
  ASSUME Shape, NEW e \in Enders, LookupPlayer(e)
  PROVE  Moves(e) /\ Tables
  <1>1. Allowed(job[e], "update") /\ Allowed(job[e], "create")
    BY DEF LookupPlayer, SessionPCs, NamePCs, PCs, Allowed, Shape, HasSession
  <1>2. \E pc \in {"update", "create"} : Go(e, pc)
    BY DEF LookupPlayer
  <1>3. \E k \in After(job[e]) : job' = [job EXCEPT ![e] = k]
    BY <1>1, <1>2, GoAfter DEF Shape, PCs
  <1>4. faults' \in 0 .. MaxFaults
    BY FaultType DEF Shape, TypeOK, LookupPlayer
  <1> QED
    BY <1>3, <1>4 DEF Moves, Tables, LookupPlayer, Shape, TypeOK

LEMMA CreatePlayerKind ==
  ASSUME Shape, NEW e \in Enders, CreatePlayer(e)
  PROVE  (Moves(e) \/ Pays(e)) /\ Tables
  <1>0. job[e].ses \in Sessions /\ NameOf[job[e].ses] \in Players
    BY DEF CreatePlayer, SessionPCs, NamePCs, PCs, Shape, HasSession
  <1>1. /\ Allowed(job[e], "create") /\ "create" \in PCs
        /\ Allowed(job[e], "idle") /\ "idle" \in PCs
    BY <1>0 DEF CreatePlayer, SessionPCs, NamePCs, PCs, Allowed
  <1>2. CASE Retry(e, "create", "idle") /\ UNCHANGED <<rows, counted>>
    <2>1. \E k \in After(job[e]) : job' = [job EXCEPT ![e] = k]
      BY <1>1, <1>2, RetryAfter DEF Shape
    <2> QED
      BY <1>2, <2>1, FaultType DEF Moves, Tables, CreatePlayer, Shape, TypeOK
  <1>3. CASE /\ NameOf[job[e].ses] \notin rows
             /\ rows' = rows \cup {NameOf[job[e].ses]}
             /\ counted' = [counted EXCEPT ![job[e].ses] = @ + 1]
             /\ Done(e)
             /\ UNCHANGED faults
    <2>1. Pays(e)
      BY <1>0, <1>3 DEF Pays, Done, CreatePlayer
    <2> QED
      BY <1>0, <1>3, <2>1 DEF Tables, CreatePlayer, Shape, TypeOK
  <1> QED
    BY <1>2, <1>3 DEF CreatePlayer

LEMMA UpdateStatsKind ==
  ASSUME Shape, NEW e \in Enders, UpdateStats(e)
  PROVE  (Moves(e) \/ Pays(e)) /\ Tables
  <1>0. job[e].ses \in Sessions /\ NameOf[job[e].ses] \in Players
    BY DEF UpdateStats, SessionPCs, NamePCs, PCs, Shape, HasSession
  <1>1. /\ Allowed(job[e], "update") /\ "update" \in PCs
        /\ Allowed(job[e], "idle") /\ "idle" \in PCs
    BY <1>0 DEF UpdateStats, SessionPCs, NamePCs, PCs, Allowed
  <1>2. CASE Retry(e, "update", "idle") /\ UNCHANGED counted
    <2>1. \E k \in After(job[e]) : job' = [job EXCEPT ![e] = k]
      BY <1>1, <1>2, RetryAfter DEF Shape
    <2> QED
      BY <1>2, <2>1, FaultType DEF Moves, Tables, UpdateStats, Shape, TypeOK
  <1>3. CASE /\ counted' = [counted EXCEPT ![job[e].ses] = @ + 1]
             /\ Done(e)
             /\ UNCHANGED faults
    <2>1. Pays(e)
      BY <1>0, <1>3 DEF Pays, Done, UpdateStats
    <2> QED
      BY <1>3, <2>1 DEF Tables, UpdateStats, Shape, TypeOK
  <1> QED
    BY <1>2, <1>3 DEF UpdateStats

LEMMA EnderStepKind ==
  ASSUME Shape, NEW e \in Enders, EnderStep(e)
  PROVE  (Moves(e) \/ Pays(e)) /\ Tables
  <1>0. job[e] \in Jobs
    BY DEF Shape, TypeOK
  <1>1. CASE Insert(e)
    BY <1>1, InsertKind
  <1>2. CASE Count(e, "count", "delete", "insert", "count2")
    <2>1. /\ Allowed(job[e], "delete") /\ Allowed(job[e], "insert")
          /\ Allowed(job[e], "count2")
      BY <1>2 DEF Count, Allowed, SessionPCs, NamePCs, PCs
    <2>2. {"count", "delete", "insert", "count2"} \subseteq PCs
      BY DEF PCs
    <2> QED
      BY <1>2, <2>1, <2>2, CountKind
  <1>3. CASE DeleteOldest(e, "delete", "insert", "count2")
    <2>1. Allowed(job[e], "insert") /\ Allowed(job[e], "count2")
      BY <1>3 DEF DeleteOldest, Allowed, SessionPCs, NamePCs, PCs
    <2>2. {"delete", "insert", "count2"} \subseteq PCs
      BY DEF PCs
    <2> QED
      BY <1>3, <2>1, <2>2, DeleteOldestKind
  <1>4. ASSUME job[e].pc \in {"count2", "delete2"}
        PROVE  /\ AfterRecord(e) \in PCs
               /\ Allowed(job[e], AfterRecord(e))
    <2>1. job[e].pc \in SessionPCs
      BY <1>4 DEF SessionPCs, PCs
    <2>2. job[e].ses \in Sessions
      BY <2>1 DEF Shape, HasSession
    <2>3. NameOf[job[e].ses] = Nobody \/ NameOf[job[e].ses] \in Players
      BY <2>2, Constants
    <2> QED
      BY <2>1, <2>3 DEF AfterRecord, Allowed, SessionPCs, NamePCs, PCs
  <1>5. CASE Count(e, "count2", "delete2", "count2", AfterRecord(e))
    <2>1. Allowed(job[e], "delete2") /\ Allowed(job[e], "count2")
      BY <1>5 DEF Count, Allowed, SessionPCs, NamePCs, PCs
    <2>2. {"count2", "delete2"} \subseteq PCs
      BY DEF PCs
    <2>3. AfterRecord(e) \in PCs /\ Allowed(job[e], AfterRecord(e))
      BY <1>4, <1>5 DEF Count
    <2> QED
      BY <1>5, <2>1, <2>2, <2>3, CountKind
  <1>6. CASE DeleteOldest(e, "delete2", "count2", AfterRecord(e))
    <2>1. Allowed(job[e], "count2")
      BY <1>6 DEF DeleteOldest, Allowed, SessionPCs, NamePCs, PCs
    <2>2. {"count2", "delete2"} \subseteq PCs
      BY DEF PCs
    <2>3. AfterRecord(e) \in PCs /\ Allowed(job[e], AfterRecord(e))
      BY <1>4, <1>6 DEF DeleteOldest
    <2> QED
      BY <1>6, <2>1, <2>2, <2>3, DeleteOldestKind
  <1>7. CASE Count(e, "count3", "delete3", "count3", "idle")
    <2>1. /\ Allowed(job[e], "delete3") /\ Allowed(job[e], "count3")
          /\ Allowed(job[e], "idle")
      BY DEF Allowed, SessionPCs, NamePCs, PCs
    <2>2. {"count3", "delete3", "idle"} \subseteq PCs
      BY DEF PCs
    <2> QED
      BY <1>7, <2>1, <2>2, CountKind
  <1>8. CASE DeleteOldest(e, "delete3", "count3", "idle")
    <2>1. Allowed(job[e], "count3") /\ Allowed(job[e], "idle")
      BY DEF Allowed, SessionPCs, NamePCs, PCs
    <2>2. {"count3", "delete3", "idle"} \subseteq PCs
      BY DEF PCs
    <2> QED
      BY <1>8, <2>1, <2>2, DeleteOldestKind
  <1> QED
    BY <1>1, <1>2, <1>3, <1>5, <1>6, <1>7, <1>8, LookupKind, CreatePlayerKind,
       UpdateStatsKind DEF EnderStep

LEMMA StepKinds ==
  ASSUME Shape, [Next]_vars
  PROVE  Kinds /\ Tables
  <1>1. CASE \E e \in Enders : EnderStep(e)
    BY <1>1, EnderStepKind DEF Kinds
  <1>2. ASSUME NEW e \in Enders, NEW s \in Sessions, Begin(e, s)
        PROVE  Kinds /\ Tables
    <2>1. Starts(e, s)
      BY <1>2 DEF Begin, Starts
    <2>2. Tables
      BY <1>2 DEF Begin, Tables, Shape, TypeOK
    <2> QED
      BY <2>1, <2>2 DEF Kinds
  <1>3. ASSUME NEW e \in Enders, NEW k \in Limits, SetMaxRecords(e, k)
        PROVE  Kinds /\ Tables
    <2> DEFINE j == [NoJob EXCEPT !.pc = "count3", !.try = MaxRetries]
    <2>0. MaxRetries \in 1 .. MaxRetries
      BY Constants
    <2>1. j \in Jobs /\ j.pc = "count3" /\ j.ses = None
      BY <2>0 DEF NoJob, Jobs, PCs
    <2>2. j \in After(job[e])
      BY <2>1 DEF After, Allowed, SessionPCs, NamePCs, PCs
    <2>3. Moves(e)
      BY <1>3, <2>2 DEF SetMaxRecords, Moves
    <2>4. Tables
      BY <1>3 DEF SetMaxRecords, Tables, Shape, TypeOK
    <2> QED
      BY <2>3, <2>4 DEF Kinds
  <1>4. ASSUME NEW p \in Players, DeletePlayer(p)
        PROVE  Kinds /\ Tables
    <2>1. /\ counted' \in [Sessions -> Nat]
          /\ \A s \in Sessions : counted'[s] \in {0, counted[s]}
      BY <1>4 DEF DeletePlayer, Shape, TypeOK
    <2>2. Erases
      BY <1>4, <2>1 DEF DeletePlayer, Erases
    <2>3. Tables
      BY <1>4 DEF DeletePlayer, Tables, Shape, TypeOK
    <2> QED
      BY <2>2, <2>3 DEF Kinds
  <1>5. ASSUME NEW out, DeleteHistory(out)
        PROVE  Kinds /\ Tables
    <2>1. Erases
      BY <1>5 DEF DeleteHistory, Erases, Shape, TypeOK
    <2>2. history' \subseteq history
      BY <1>5 DEF DeleteHistory
    <2>3. IsFiniteSet(history')
      BY <2>2, FS_Subset DEF Shape
    <2> QED
      BY <1>5, <2>1, <2>2, <2>3 DEF DeleteHistory, Kinds, Tables, Shape, TypeOK
  <1>6. CASE UNCHANGED vars
    BY <1>6 DEF vars, Kinds, Erases, Tables, Shape, TypeOK
  <1> QED
    BY <1>1, <1>2, <1>3, <1>4, <1>5, <1>6 DEF Next

-----------------------------------------------------------------------------
(* The invariants, kind by kind.                                           *)

LEMMA StartedJob ==
  ASSUME NEW s \in Sessions
  PROVE  /\ [NoJob EXCEPT !.pc = "insert", !.ses = s] \in Jobs
         /\ [NoJob EXCEPT !.pc = "insert", !.ses = s].pc = "insert"
         /\ [NoJob EXCEPT !.pc = "insert", !.ses = s].ses = s
  <1>1. 1 \in 1 .. MaxRetries
    BY Constants
  <1> QED
    BY <1>1 DEF NoJob, Jobs, PCs

LEMMA ShapeStep ==
  ASSUME Shape, [Next]_vars
  PROVE  Shape'
  <1>0. Kinds /\ Tables
    BY StepKinds
  <1>1. CASE \E e \in Enders : Moves(e)
    <2>0. PICK e \in Enders : Moves(e)
      BY <1>1
    <2>1. PICK k \in After(job[e]) :
            job' = [job EXCEPT ![e] = k] /\ UNCHANGED <<active, counted>>
      BY <2>0 DEF Moves
    <2>2. k \in Jobs /\ (k.pc \in SessionPCs => k.ses = job[e].ses)
          /\ Allowed(job[e], k.pc)
      BY DEF After
    <2>3. TypeOK'
      BY <1>0, <2>1, <2>2 DEF Shape, TypeOK, Tables
    <2>4. NamePCs \subseteq SessionPCs
      BY DEF NamePCs, SessionPCs, PCs
    <2>5. HasSession'
      BY <2>1, <2>2, <2>4 DEF Shape, TypeOK, HasSession, Allowed
    <2> QED
      BY <1>0, <2>3, <2>5 DEF Shape, Tables
  <1>2. CASE \E e \in Enders : Pays(e)
    <2>1. PICK e \in Enders : Pays(e)
      BY <1>2
    <2>2. TypeOK'
      BY <1>0, <2>1, NoJobType DEF Shape, TypeOK, Tables, Pays
    <2>3. "idle" \notin SessionPCs /\ "idle" \notin NamePCs
      BY DEF SessionPCs, NamePCs
    <2>4. HasSession'
      BY <2>1, <2>3, NoJobType DEF Shape, TypeOK, HasSession, Pays
    <2> QED
      BY <1>0, <2>2, <2>4 DEF Shape, Tables
  <1>3. CASE \E e \in Enders, s \in Sessions : Starts(e, s)
    <2>1. PICK e \in Enders, s \in Sessions : Starts(e, s)
      BY <1>3
    <2>2. TypeOK'
      BY <1>0, <2>1, StartedJob DEF Shape, TypeOK, Tables, Starts
    <2>3. "insert" \notin NamePCs
      BY DEF NamePCs
    <2>4. HasSession'
      <3>1. CASE UNCHANGED job
        BY <3>1 DEF Shape, HasSession
      <3>2. CASE job' = [job EXCEPT ![e] = [NoJob EXCEPT !.pc = "insert", !.ses = s]]
        <4>1. job'[e].pc = "insert" /\ job'[e].ses = s
          BY <3>2, StartedJob DEF Shape, TypeOK
        <4>2. \A f \in Enders \ {e} : job'[f] = job[f]
          BY <3>2 DEF Shape, TypeOK
        <4> QED
          BY <2>3, <4>1, <4>2 DEF Shape, HasSession
      <3> QED
        BY <2>1, <3>1, <3>2 DEF Starts
    <2> QED
      BY <1>0, <2>2, <2>4 DEF Shape, Tables
  <1>4. CASE Erases
    BY <1>0, <1>4 DEF Erases, Shape, TypeOK, HasSession, Tables
  <1> QED
    BY <1>0, <1>1, <1>2, <1>3, <1>4 DEF Kinds

LEMMA UnpaidStep ==
  ASSUME Shape, Unpaid, [Next]_vars
  PROVE  Unpaid'
  <1>0. Kinds /\ Tables
    BY StepKinds
  <1>1. CASE \E e \in Enders : Moves(e)
    <2>0. PICK e \in Enders : Moves(e)
      BY <1>1
    <2>1. PICK k \in After(job[e]) :
            job' = [job EXCEPT ![e] = k] /\ UNCHANGED <<active, counted>>
      BY <2>0 DEF Moves
    <2>2. k.ses = job[e].ses \/ k.ses = None
      BY DEF After
    <2>3. \A f \in Enders : job'[f].ses \in {job[f].ses, None}
      BY <2>1, <2>2 DEF Shape, TypeOK
    <2> QED
      BY <2>1, <2>3 DEF Unpaid
  <1>2. CASE \E e \in Enders : Pays(e)
    <2>1. PICK e \in Enders : Pays(e)
      BY <1>2
    <2>2. job'[e].ses = None /\ \A f \in Enders \ {e} : job'[f] = job[f]
      BY <2>1, NoJobType DEF Shape, TypeOK, Pays
    <2>3. job[e].ses \in Sessions \ active /\ counted[job[e].ses] = 0
      BY <2>1, Constants DEF Unpaid, Pays
    <2>4. /\ counted'[job[e].ses] = 1
          /\ \A s \in Sessions : s # job[e].ses => counted'[s] = counted[s]
      BY <2>1, <2>3 DEF Pays, Shape, TypeOK
    <2>5. \A f \in Enders \ {e} : job[f].ses # None =>
             job[f].ses \in Sessions /\ job[f].ses # job[e].ses
      BY <2>3, Constants DEF Unpaid, Shape, TypeOK, Jobs
    <2>6. \A s \in active' : counted'[s] = 0
      BY <2>1, <2>3, <2>4 DEF Unpaid, Pays, Shape, TypeOK
    <2>7. \A s \in Sessions \ active' : counted'[s] \in {0, 1}
      BY <2>1, <2>4 DEF Unpaid, Pays
    <2>8. \A f \in Enders : job'[f].ses # None =>
             job'[f].ses \notin active' /\ counted'[job'[f].ses] = 0
      BY <2>1, <2>2, <2>4, <2>5 DEF Unpaid, Pays
    <2>9. \A f, g \in Enders : job'[f].ses # None /\ job'[f].ses = job'[g].ses
             => f = g
      BY <2>2 DEF Unpaid
    <2> QED
      BY <2>6, <2>7, <2>8, <2>9 DEF Unpaid
  <1>3. CASE \E e \in Enders, s \in Sessions : Starts(e, s)
    <2>1. PICK e \in Enders, s \in Sessions : Starts(e, s)
      BY <1>3
    <2>2. CASE UNCHANGED job
      BY <2>1, <2>2 DEF Unpaid, Starts, Shape, TypeOK
    <2>3. CASE job' = [job EXCEPT ![e] = [NoJob EXCEPT !.pc = "insert", !.ses = s]]
      <3>1. job'[e].ses = s /\ \A f \in Enders \ {e} : job'[f] = job[f]
        BY <2>3, StartedJob DEF Shape, TypeOK
      <3>2. counted[s] = 0 /\ s \notin active'
            /\ \A f \in Enders : job[f].ses # s
        BY <2>1, Constants DEF Unpaid, Starts
      <3>3. \A f \in Enders : job'[f].ses # None =>
               job'[f].ses \notin active' /\ counted'[job'[f].ses] = 0
        BY <2>1, <3>1, <3>2 DEF Unpaid, Starts
      <3>4. \A f, g \in Enders : job'[f].ses # None /\ job'[f].ses = job'[g].ses
               => f = g
        BY <3>1, <3>2 DEF Unpaid
      <3> QED
        BY <2>1, <3>2, <3>3, <3>4 DEF Unpaid, Starts, Shape, TypeOK
    <2> QED
      BY <2>1, <2>2, <2>3 DEF Starts
  <1>4. CASE Erases
    BY <1>4, Constants DEF Erases, Unpaid, Shape, TypeOK, Jobs
  <1> QED
    BY <1>0, <1>1, <1>2, <1>3, <1>4 DEF Kinds

-----------------------------------------------------------------------------
LEMMA InitInv == Init => Shape /\ Unpaid
  <1> SUFFICES ASSUME Init PROVE Shape /\ Unpaid
    OBVIOUS
  <1>1. TypeOK
    BY NoJobType, Constants DEF Init, TypeOK
  <1>2. \A e \in Enders : job[e].ses = None /\ job[e].pc = "idle"
    BY NoJobType DEF Init
  <1>3. HasSession
    BY <1>2 DEF HasSession, SessionPCs, NamePCs
  <1>4. IsFiniteSet(history)
    BY FS_EmptySet DEF Init
  <1>5. Unpaid
    BY <1>2 DEF Init, Unpaid
  <1> QED
    BY <1>1, <1>3, <1>4, <1>5 DEF Shape

LEMMA Invariance == Spec => [](Shape /\ Unpaid)
  <1>1. Shape /\ Unpaid /\ [Next]_vars => (Shape /\ Unpaid)'
    BY ShapeStep, UnpaidStep
  <1> QED
    BY InitInv, <1>1, PTL DEF Spec

\* The state of persistSession and of the two tables keeps its type: RetryOperation
\* never makes more than maxRetries attempts.
THEOREM TypeCorrect == Spec => []TypeOK
  <1>1. Shape => TypeOK
    BY DEF Shape
  <1> QED
    BY Invariance, <1>1, PTL

\* However enders, retries, failures and operators interleave, the bytes and the
\* play time of a session go into the row of its player at most once.
THEOREM CountedOnceHolds == Spec => []CountedOnce
  <1>1. Shape /\ Unpaid => CountedOnce
    BY DEF Shape, TypeOK, Unpaid, CountedOnce
  <1> QED
    BY Invariance, <1>1, PTL

-----------------------------------------------------------------------------
(***************************************************************************)
(* What persistSession leaves behind.  HistoryBounded, RecordSurvives and  *)
(* AllCounted speak of moments when no ender is at work, so none of them   *)
(* is inductive.  Each is strengthened to every state by saying who still  *)
(* owes what the state lacks:                                              *)
(*   - Cleaned: rows beyond the limit are somebody's to delete, and he     *)
(*     will count first or knows of enough of them;                        *)
(*   - Recorded: a session without a record is about to be inserted, and   *)
(*     it took a failed statement to use up an attempt at that;            *)
(*   - Tallied: a session missing from its player's totals is on its way   *)
(*     there, and not by a CREATE that the existing row would refuse.      *)
(***************************************************************************)

\* The places from which an ender will still count the rows.
Counting == {"insert", "count", "delete", "count2", "count3"}

\* The places where the counting was done.
Deleting == {"delete2", "delete3"}

Covers(j, h, l) ==
    \/ j.pc \in Counting
    \/ j.pc \in Deleting /\ Cardinality(h) <= l + j.n

Cleaned ==
    faults = 0 => \/ Cardinality(history) <= limit
                  \/ \E e \in Enders : Covers(job[e], history, limit)

Inserts(j, s, f) == j.pc = "insert" /\ j.ses = s /\ j.try <= f + 1

Recorded ==
    faults < MaxRetries =>
        \A s \in Sessions \ active :
            \/ Anonymous(s)
            \/ s \in history \cup erased
            \/ \E e \in Enders : Inserts(job[e], s, faults)

\* The places from which an ender still goes on to update an existing row.
DuePCs == SessionPCs \ {"create"}

Tallied ==
    /\ KnownPlayers \ erased \subseteq rows
    /\ faults = 0 =>
         \A s \in Sessions \ active :
            NameOf[s] \in KnownPlayers \ erased =>
                \/ counted[s] = 1
                \/ \E e \in Enders : job[e].ses = s /\ job[e].pc \in DuePCs

Owed == Cleaned /\ Recorded /\ Tallied

\* The ender's next job.
Turns(e, k) == k \in Jobs /\ job' = [job EXCEPT ![e] = k]

Onto(e, k, pc) ==
    Turns(e, k) /\ k.pc = pc /\ (pc # "idle" => k.ses = job[e].ses)

-----------------------------------------------------------------------------
\* Deleting the n oldest rows of a table that has at most n too many leaves as
\* many as are allowed: the oldest row that stays has n older ones, all deleted.
LEMMA HasLeast ==
  ASSUME NEW T, T \subseteq Nat, T # {}
  PROVE  \E x \in T : \A y \in T : x <= y
  <1>1. \E x \in T : \A y \in T : ~ (<<y, x>> \in OpToRel(<, Nat))
    BY WFMin, NatLessThanWellFounded
  <1>2. ASSUME NEW x \in T, NEW y \in T, y < x
        PROVE  <<y, x>> \in OpToRel(<, Nat)
    <2>1. <<y, x>> \in Nat \X Nat
      BY <1>2
    <2>2. <<y, x>>[1] < <<y, x>>[2]
      BY <1>2
    <2>3. <<y, x>> \in {ss \in Nat \X Nat : ss[1] < ss[2]}
      BY <2>1, <2>2, Zenon
    <2> QED
      BY <2>3 DEF OpToRel
  <1>3. PICK x \in T : \A y \in T : ~ (<<y, x>> \in OpToRel(<, Nat))
    BY <1>1
  <1>4. \A y \in T : ~ (y < x)
    BY <1>2, <1>3
  <1> QED
    BY <1>4

LEMMA OldestLeave ==
  ASSUME history \subseteq Sessions, IsFiniteSet(history),
         NEW n \in Nat, NEW l \in Nat, Cardinality(history) <= l + n
  PROVE  Cardinality(history \ Oldest(n)) <= l
  <1> DEFINE rest == history \ Oldest(n)
  <1>1. CASE rest = {}
    BY <1>1, FS_EmptySet
  <1>2. CASE rest # {}
    <2>1. \E x \in {StartTime[z] : z \in rest} :
             \A y \in {StartTime[z] : z \in rest} : x <= y
      <3>1. {StartTime[z] : z \in rest} \subseteq Nat
        BY Constants
      <3>2. {StartTime[z] : z \in rest} # {}
        BY <1>2
      <3> QED
        BY <3>1, <3>2, HasLeast
    <2>2. PICK m \in rest : \A z \in rest : StartTime[m] <= StartTime[z]
      BY <2>1
    <2> DEFINE older == {z \in history : StartTime[z] < StartTime[m]}
    <2>3. IsFiniteSet(older) /\ older \subseteq history
      BY FS_Subset
    <2>4. Cardinality(older) \in Nat /\ Cardinality(history) \in Nat
      BY <2>3, FS_CardinalityType
    <2>5. ~ (Cardinality(older) < n)
      BY DEF Oldest
    <2>6. rest \subseteq history \ older
      BY <2>2, Constants
    <2>7. /\ IsFiniteSet(history \ older)
          /\ Cardinality(history \ older)
               = Cardinality(history) - Cardinality(history \cap older)
      BY FS_Difference
    <2>8. history \cap older = older
      BY <2>3
    <2>9. IsFiniteSet(rest) /\ Cardinality(rest) <= Cardinality(history \ older)
      BY <2>6, <2>7, FS_Subset
    <2>10. Cardinality(rest) \in Nat
      BY <2>9, FS_CardinalityType
    <2> HIDE DEF older, rest
    <2>11. Cardinality(rest) <= l
      BY <2>4, <2>5, <2>7, <2>8, <2>9, <2>10
    <2> QED
      BY <2>11 DEF rest
  <1> QED
    BY <1>1, <1>2

-----------------------------------------------------------------------------
(* The jobs that Go, Continue and Retry lead to.                           *)

LEMMA GoOnto ==
  ASSUME TypeOK, NEW e \in Enders, NEW pc \in PCs, Go(e, pc)
  PROVE  \E k : Onto(e, k, pc)
  <1> DEFINE k == [job[e] EXCEPT !.pc = pc, !.try = 1, !.n = 0]
  <1>1. job[e] \in Jobs /\ 1 \in 1 .. MaxRetries
    BY Constants DEF TypeOK
  <1>2. k \in Jobs /\ k.pc = pc /\ k.ses = job[e].ses
    BY <1>1 DEF Jobs
  <1>3. job' = [job EXCEPT ![e] = k]
    BY DEF Go
  <1> QED
    BY <1>2, <1>3 DEF Onto, Turns

LEMMA ContinueOnto ==
  ASSUME TypeOK, NEW e \in Enders, NEW pc \in PCs, Continue(e, pc)
  PROVE  \E k : Onto(e, k, pc)
  <1>1. CASE pc = "idle"
    BY <1>1, NoJobType DEF Continue, Done, Onto, Turns
  <1>2. CASE pc # "idle"
    BY <1>2, GoOnto DEF Continue
  <1> QED
    BY <1>1, <1>2

LEMMA RetryOnto ==
  ASSUME TypeOK, NEW e \in Enders, NEW again \in PCs, NEW next \in PCs,
         again # "idle", Retry(e, again, next)
  PROVE  \/ \E k : Onto(e, k, again) /\ k.try = job[e].try + 1
         \/ job[e].try = MaxRetries /\ \E k : Onto(e, k, next)
  <1>0. job[e] \in Jobs /\ job[e].try \in 1 .. MaxRetries /\ MaxRetries \in Nat
    BY Constants DEF TypeOK, Jobs
  <1>1. CASE job[e].try < MaxRetries
    <2> DEFINE k == [job[e] EXCEPT !.pc = again, !.try = job[e].try + 1]
    <2>1. job[e].try + 1 \in 1 .. MaxRetries
      BY <1>0, <1>1
    <2>2. k \in Jobs /\ k.pc = again /\ k.ses = job[e].ses /\ k.try = job[e].try + 1
      BY <1>0, <2>1 DEF Jobs
    <2>3. job' = [job EXCEPT ![e] = k]
      BY <1>1 DEF Retry
    <2> QED
      BY <2>2, <2>3 DEF Onto, Turns
  <1>2. CASE ~(job[e].try < MaxRetries)
    <2>1. job[e].try = MaxRetries
      BY <1>0, <1>2
    <2> QED
      BY <1>2, <2>1, ContinueOnto DEF Retry
  <1> QED
    BY <1>1, <1>2

LEMMA FaultCounts ==
  ASSUME TypeOK
  PROVE  /\ faults \in Nat /\ MaxRetries \in Nat /\ limit \in Nat
         /\ Fault => faults' = faults + 1 /\ faults' # 0
  BY Constants DEF TypeOK, Fault

-----------------------------------------------------------------------------
(* What a change of one job needs to keep each of the three.               *)

LEMMA CoversFewer ==
  ASSUME NEW j \in Jobs, NEW h, NEW g, IsFiniteSet(h), g \subseteq h,
         NEW l \in Nat, Covers(j, h, l)
  PROVE  Covers(j, g, l)
  <1>1. /\ Cardinality(g) <= Cardinality(h)
        /\ Cardinality(g) \in Nat /\ Cardinality(h) \in Nat
    BY FS_Subset, FS_CardinalityType
  <1>2. j.n \in Nat
    BY DEF Jobs
  <1> QED
    BY <1>1, <1>2 DEF Covers

LEMMA CleanedTurns ==
  ASSUME Shape, Cleaned, NEW e \in Enders, NEW k, Turns(e, k),
         faults' = 0 => faults = 0,
         faults' = 0 =>
            \/ k.pc \in Counting
            \/ Cardinality(history') <= limit'
            \/ Covers(k, history', limit')
            \/ /\ ~ Covers(job[e], history, limit)
               /\ history' \subseteq history
               /\ limit' = limit
  PROVE  Cleaned'
  <1>0. job'[e] = k /\ \A f \in Enders \ {e} : job'[f] = job[f]
    BY DEF Turns, Shape, TypeOK
  <1>1. SUFFICES ASSUME faults' = 0
        PROVE \/ Cardinality(history') <= limit'
              \/ \E f \in Enders : Covers(job'[f], history', limit')
    BY DEF Cleaned
  <1>2. CASE k.pc \in Counting
    BY <1>0, <1>2 DEF Covers
  <1>3. CASE Covers(k, history', limit')
    BY <1>0, <1>3
  <1>4. CASE /\ ~ Covers(job[e], history, limit)
             /\ history' \subseteq history
             /\ limit' = limit
    <2>0. IsFiniteSet(history) /\ limit \in Nat
      BY FaultCounts DEF Shape
    <2>1. CASE Cardinality(history) <= limit
      <3>1. /\ Cardinality(history') <= Cardinality(history)
            /\ Cardinality(history') \in Nat /\ Cardinality(history) \in Nat
        BY <1>4, <2>0, FS_Subset, FS_CardinalityType
      <3> QED
        BY <1>4, <2>0, <2>1, <3>1
    <2>2. CASE \E f \in Enders : Covers(job[f], history, limit)
      <3>1. PICK f \in Enders : Covers(job[f], history, limit)
        BY <2>2
      <3>2. f # e /\ job[f] \in Jobs
        BY <1>4, <3>1 DEF Shape, TypeOK
      <3>3. Covers(job[f], history', limit)
        BY <1>4, <2>0, <3>1, <3>2, CoversFewer
      <3> QED
        BY <1>0, <1>4, <3>2, <3>3
    <2> QED
      BY <1>1, <2>1, <2>2 DEF Cleaned
  <1> QED
    BY <1>1, <1>2, <1>3, <1>4

LEMMA RecordedTurns ==
  ASSUME Shape, Recorded, NEW e \in Enders, NEW k, Turns(e, k),
         UNCHANGED active, history \cup erased \subseteq history' \cup erased',
         faults' \in {faults, faults + 1},
         Inserts(job[e], job[e].ses, faults) =>
            \/ faults' >= MaxRetries
            \/ job[e].ses \in history' \cup erased'
            \/ Inserts(k, job[e].ses, faults')
  PROVE  Recorded'
  <1>0. job'[e] = k /\ \A f \in Enders \ {e} : job'[f] = job[f]
    BY DEF Turns, Shape, TypeOK
  <1>1. faults \in Nat /\ MaxRetries \in Nat
    BY FaultCounts DEF Shape
  <1>2. SUFFICES ASSUME faults' < MaxRetries, NEW s \in Sessions \ active
        PROVE \/ Anonymous(s)
              \/ s \in history' \cup erased'
              \/ \E f \in Enders : Inserts(job'[f], s, faults')
    BY DEF Recorded, Anonymous
  <1>3. faults < MaxRetries
    BY <1>1, <1>2
  <1>4. CASE \E f \in Enders : Inserts(job[f], s, faults)
    <2>1. PICK f \in Enders : Inserts(job[f], s, faults)
      BY <1>4
    <2>2. CASE f = e
      BY <1>0, <1>1, <1>2, <2>1, <2>2 DEF Inserts
    <2>3. CASE f # e
      <3>1. job[f].try \in Nat
        BY DEF Shape, TypeOK, Jobs
      <3> QED
        BY <1>0, <1>1, <2>1, <2>3, <3>1 DEF Inserts
    <2> QED
      BY <2>2, <2>3
  <1> QED
    BY <1>2, <1>3, <1>4 DEF Recorded

LEMMA TalliedTurns ==
  ASSUME Shape, Tallied, NEW e \in Enders, NEW k, Turns(e, k),
         UNCHANGED active, erased \subseteq erased',
         KnownPlayers \ erased' \subseteq rows',
         faults' = 0 => faults = 0,
         \A s \in Sessions : counted[s] = 1 => counted'[s] = 1,
         /\ faults' = 0
         /\ job[e].pc \in DuePCs
         /\ NameOf[job[e].ses] \in KnownPlayers \ erased'
         => \/ counted'[job[e].ses] = 1
            \/ k.ses = job[e].ses /\ k.pc \in DuePCs
  PROVE  Tallied'
  <1>0. job'[e] = k /\ \A f \in Enders \ {e} : job'[f] = job[f]
    BY DEF Turns, Shape, TypeOK
  <1>1. SUFFICES ASSUME faults' = 0, NEW s \in Sessions \ active,
                        NameOf[s] \in KnownPlayers \ erased'
        PROVE \/ counted'[s] = 1
              \/ \E f \in Enders : job'[f].ses = s /\ job'[f].pc \in DuePCs
    BY DEF Tallied
  <1>2. CASE counted[s] = 1
    BY <1>1, <1>2
  <1>3. CASE \E f \in Enders : job[f].ses = s /\ job[f].pc \in DuePCs
    BY <1>0, <1>1, <1>3
  <1> QED
    BY <1>1, <1>2, <1>3 DEF Tallied

-----------------------------------------------------------------------------
(* The actions.                                                            *)

\* Places that are told apart below.
LEMMA Places ==
  /\ "idle" \notin DuePCs /\ "create" \notin DuePCs
  /\ {"insert", "count", "delete", "count2", "delete2", "lookup", "update"}
       \subseteq DuePCs
  /\ DuePCs \subseteq SessionPCs
  /\ "count3" \notin DuePCs /\ "delete3" \notin DuePCs
  BY DEF DuePCs, SessionPCs, PCs

LEMMA InsertOwes ==
  ASSUME Shape, Unpaid, Owed, NEW e \in Enders, Insert(e)
  PROVE  Owed'
  <1>0. /\ TypeOK /\ job[e].pc = "insert" /\ job[e] \in Jobs
        /\ faults \in Nat /\ MaxRetries \in Nat
        /\ job[e].try \in Nat
    BY FaultCounts DEF Shape, TypeOK, Insert, Jobs
  <1>1. /\ UNCHANGED <<active, limit, rows, counted, erased>>
        /\ faults' \in {faults, faults + 1}
    BY FaultCounts, <1>0 DEF Insert
  <1>2. CASE /\ history' = history \cup {job[e].ses}
             /\ job' = [job EXCEPT ![e] = [job[e] EXCEPT !.pc = "count"]]
    <2> DEFINE k == [job[e] EXCEPT !.pc = "count"]
    <2>1. k \in Jobs /\ k.pc = "count" /\ k.ses = job[e].ses
      BY <1>0 DEF Jobs, PCs
    <2>2. Turns(e, k)
      BY <1>2, <2>1 DEF Turns
    <2> HIDE DEF k
    <2>3. Cleaned'
      BY <1>0, <1>1, <2>1, <2>2, CleanedTurns DEF Owed, Counting
    <2>4. Recorded'
      BY <1>1, <1>2, <2>2, RecordedTurns DEF Owed
    <2>5. Tallied'
      BY <1>0, <1>1, <2>1, <2>2, TalliedTurns, Places DEF Owed, Tallied
    <2> QED
      BY <2>3, <2>4, <2>5 DEF Owed
  <1>3. CASE /\ Retry(e, "insert", "count2") /\ UNCHANGED history
             /\ \/ job[e].ses \in history
                \/ Fault
    <2>1. PICK k : /\ Onto(e, k, "insert") \/ Onto(e, k, "count2")
                   /\ \/ k.pc = "insert" /\ k.try = job[e].try + 1
                      \/ job[e].try = MaxRetries
      <3>1. \/ \E k : Onto(e, k, "insert") /\ k.try = job[e].try + 1
            \/ job[e].try = MaxRetries /\ \E k : Onto(e, k, "count2")
        BY <1>0, <1>3, RetryOnto DEF PCs
      <3> QED
        BY <3>1 DEF Onto
    <2>2. /\ Turns(e, k) /\ k.ses = job[e].ses /\ k.pc \in {"insert", "count2"}
      BY <2>1 DEF Onto
    <2>3. Cleaned'
      BY <1>0, <1>1, <2>2, CleanedTurns DEF Owed, Counting
    <2>4. Recorded'
      <3>1. ASSUME Inserts(job[e], job[e].ses, faults), job[e].ses \notin history
            PROVE  faults' >= MaxRetries \/ Inserts(k, job[e].ses, faults')
        <4>1. faults' = faults + 1 /\ job[e].try <= faults + 1
          BY <1>3, <3>1, FaultCounts, <1>0 DEF Inserts
        <4>2. CASE k.pc = "insert" /\ k.try = job[e].try + 1
          BY <1>0, <2>2, <4>1, <4>2 DEF Inserts
        <4>3. CASE job[e].try = MaxRetries
          BY <1>0, <4>1, <4>3
        <4> QED
          BY <2>1, <4>2, <4>3
      <3> QED
        BY <1>1, <1>3, <2>2, <3>1, RecordedTurns DEF Owed
    <2>5. Tallied'
      BY <1>0, <1>1, <2>2, TalliedTurns, Places DEF Owed, Tallied
    <2> QED
      BY <2>3, <2>4, <2>5 DEF Owed
  <1> QED
    BY <1>2, <1>3 DEF Insert

\* A step of an ender that neither inserts nor counts: what remains to be shown
\* of it is who cleans up and who updates the totals.
LEMMA QuietRecorded ==
  ASSUME Shape, Recorded, NEW e \in Enders, NEW k, Turns(e, k),
         job[e].pc # "insert",
         UNCHANGED active, history \cup erased \subseteq history' \cup erased',
         faults' \in {faults, faults + 1}
  PROVE  Recorded'
  BY RecordedTurns DEF Inserts

LEMMA QuietTallied ==
  ASSUME Shape, Tallied, NEW e \in Enders, NEW k, Turns(e, k),
         UNCHANGED <<active, rows, counted>>, erased \subseteq erased',
         faults' \in {faults, faults + 1},
         faults' = 0 /\ job[e].pc \in DuePCs /\ NameOf[job[e].ses] \in Players
         => k.ses = job[e].ses /\ k.pc \in DuePCs
  PROVE  Tallied'
  <1>1. faults' = 0 => faults = 0
    BY FaultCounts DEF Shape
  <1>2. KnownPlayers \ erased' \subseteq rows'
    BY DEF Tallied
  <1>3. KnownPlayers \subseteq Players
    BY Constants
  <1> QED
    BY <1>1, <1>2, <1>3, TalliedTurns

\* The three Cleanups go on to a place that is idle only for a session without a
\* name, or after SetMaxRecords.
GoesOn(e, pc) ==
    /\ pc \in PCs
    /\ job[e].pc \in DuePCs /\ NameOf[job[e].ses] \in Players => pc \in DuePCs

LEMMA AfterRecordGoesOn ==
  ASSUME Shape, NEW e \in Enders, job[e].pc \in {"count2", "delete2"}
  PROVE  GoesOn(e, AfterRecord(e))
  <1>1. AfterRecord(e) \in PCs
    BY DEF AfterRecord, PCs
  <1>2. NameOf[job[e].ses] \in Players => AfterRecord(e) = "lookup"
    BY Constants DEF AfterRecord
  <1> QED
    BY <1>1, <1>2, Places DEF GoesOn

LEMMA CountOwes ==
  ASSUME Shape, Unpaid, Owed, NEW e \in Enders,
         NEW at \in {"count", "count2", "count3"},
         NEW del \in {"delete", "delete2", "delete3"},
         NEW again \in {"insert", "count2", "count3"},
         NEW next, Count(e, at, del, again, next),
         GoesOn(e, next), GoesOn(e, del)
  PROVE  Owed'
  <1>0. /\ TypeOK /\ job[e].pc = at /\ job[e] \in Jobs
        /\ faults \in Nat /\ limit \in Nat /\ IsFiniteSet(history)
        /\ Cardinality(history) \in Nat
    BY FaultCounts, FS_CardinalityType DEF Shape, TypeOK, Count, Jobs
  <1>1. /\ UNCHANGED <<active, history, limit, rows, counted, erased>>
        /\ faults' \in {faults, faults + 1}
        /\ Fault => faults' # 0
        /\ faults' = 0 => faults = 0
    BY FaultCounts, <1>0 DEF Count
  <1>2. job[e].pc # "insert"
    BY <1>0
  <1>3. CASE Cardinality(history) > limit /\ UNCHANGED faults /\
             job' = [job EXCEPT ![e] = [job[e] EXCEPT !.pc = del,
                                           !.n = Cardinality(history) - limit]]
    <2> DEFINE k == [job[e] EXCEPT !.pc = del, !.n = Cardinality(history) - limit]
    <2>0. Cardinality(history) - limit \in Nat /\ del \in PCs
      BY <1>0, <1>3 DEF PCs
    <2>1. /\ k \in Jobs /\ k.pc = del /\ k.ses = job[e].ses
          /\ k.n = Cardinality(history) - limit
      BY <1>0, <2>0 DEF Jobs
    <2>2. Turns(e, k)
      BY <1>3, <2>1 DEF Turns
    <2> HIDE DEF k
    <2>3. Cardinality(history) <= limit + k.n
      BY <1>0, <2>1
    <2>4. Covers(k, history', limit')
      BY <1>1, <2>1, <2>3 DEF Covers, Counting, Deleting
    <2>5. Cleaned'
      BY <1>1, <2>2, <2>4, CleanedTurns DEF Owed
    <2>6. Recorded'
      BY <1>1, <1>2, <2>2, QuietRecorded DEF Owed
    <2>7. Tallied'
      BY <1>1, <2>1, <2>2, QuietTallied DEF Owed, GoesOn
    <2> QED
      BY <2>5, <2>6, <2>7 DEF Owed
  <1>4. CASE Cardinality(history) <= limit /\ Continue(e, next) /\ UNCHANGED faults
    <2>1. PICK k : Onto(e, k, next)
      BY <1>0, <1>4, ContinueOnto DEF GoesOn
    <2>2. Turns(e, k) /\ k.pc = next /\ (next # "idle" => k.ses = job[e].ses)
      BY <2>1 DEF Onto
    <2>3. Cleaned'
      BY <1>1, <1>4, <2>2, CleanedTurns DEF Owed
    <2>4. Recorded'
      BY <1>1, <1>2, <2>2, QuietRecorded DEF Owed
    <2>5. Tallied'
      BY <1>1, <2>2, QuietTallied, Places DEF Owed, GoesOn
    <2> QED
      BY <2>3, <2>4, <2>5 DEF Owed
  <1>5. CASE Fault /\ Retry(e, again, next)
    <2>0. again \in PCs /\ again # "idle" /\ next \in PCs
      BY DEF PCs, GoesOn
    <2>1. PICK k : Turns(e, k)
      BY <1>0, <1>5, <2>0, RetryOnto DEF Onto
    <2>2. faults' # 0
      BY <1>1, <1>5
    <2>3. Cleaned'
      BY <2>2 DEF Cleaned
    <2>4. Recorded'
      BY <1>1, <1>2, <2>1, QuietRecorded DEF Owed
    <2>5. Tallied'
      BY <1>1, <2>1, <2>2, QuietTallied DEF Owed
    <2> QED
      BY <2>3, <2>4, <2>5 DEF Owed
  <1> QED
    BY <1>3, <1>4, <1>5 DEF Count

LEMMA DeleteOldestOwes ==
  ASSUME Shape, Unpaid, Owed, NEW e \in Enders,
         NEW at \in {"delete", "delete2", "delete3"},
         NEW again \in {"insert", "count2", "count3"},
         NEW next, DeleteOldest(e, at, again, next),
         GoesOn(e, next), at = "delete" => next = "count2"
  PROVE  Owed'
  <1>0. /\ TypeOK /\ job[e].pc = at /\ job[e] \in Jobs /\ job[e].n \in Nat
        /\ faults \in Nat /\ limit \in Nat
        /\ IsFiniteSet(history) /\ history \subseteq Sessions
    BY FaultCounts DEF Shape, TypeOK, DeleteOldest, Jobs
  <1>1. /\ UNCHANGED <<active, limit, rows, counted>>
        /\ faults' \in {faults, faults + 1}
        /\ Fault => faults' # 0
        /\ faults' = 0 => faults = 0
        /\ history \cup erased \subseteq history' \cup erased'
        /\ erased \subseteq erased'
    BY FaultCounts, <1>0 DEF DeleteOldest
  <1>2. job[e].pc # "insert"
    BY <1>0
  <1>3. CASE history' = history \ Oldest(job[e].n) /\ Continue(e, next)
    <2>1. PICK k : Onto(e, k, next)
      BY <1>0, <1>3, ContinueOnto DEF GoesOn
    <2>2. Turns(e, k) /\ k.pc = next /\ (next # "idle" => k.ses = job[e].ses)
      BY <2>1 DEF Onto
    <2>3. Cleaned'
      <3>1. CASE at = "delete"
        BY <1>1, <2>2, <3>1, CleanedTurns DEF Owed, Counting
      <3>2. CASE at # "delete" /\ Cardinality(history) <= limit + job[e].n
        <4>1. Cardinality(history') <= limit'
          BY <1>0, <1>1, <1>3, <3>2, OldestLeave
        <4> QED
          BY <1>1, <2>2, <4>1, CleanedTurns DEF Owed
      <3>3. CASE at # "delete" /\ ~(Cardinality(history) <= limit + job[e].n)
        <4>1. ~ Covers(job[e], history, limit)
          BY <1>0, <3>3 DEF Covers, Counting
        <4> QED
          BY <1>1, <1>3, <2>2, <4>1, CleanedTurns DEF Owed
      <3> QED
        BY <3>1, <3>2, <3>3
    <2>4. Recorded'
      BY <1>1, <1>2, <2>2, QuietRecorded DEF Owed
    <2>5. Tallied'
      BY <1>1, <2>2, QuietTallied, Places DEF Owed, GoesOn
    <2> QED
      BY <2>3, <2>4, <2>5 DEF Owed
  <1>4. CASE Fault /\ Retry(e, again, next)
    <2>0. again \in PCs /\ again # "idle" /\ next \in PCs
      BY DEF PCs, GoesOn
    <2>1. PICK k : Turns(e, k)
      BY <1>0, <1>4, <2>0, RetryOnto DEF Onto
    <2>2. faults' # 0
      BY <1>1, <1>4
    <2>3. Cleaned'
      BY <2>2 DEF Cleaned
    <2>4. Recorded'
      BY <1>1, <1>2, <2>1, QuietRecorded DEF Owed
    <2>5. Tallied'
      BY <1>1, <2>1, <2>2, QuietTallied DEF Owed
    <2> QED
      BY <2>3, <2>4, <2>5 DEF Owed
  <1> QED
    BY <1>3, <1>4 DEF DeleteOldest

\* A step on the players table does not disturb the history.
LEMMA PlayersCleaned ==
  ASSUME Shape, Cleaned, NEW e \in Enders, NEW k, Turns(e, k),
         job[e].pc \in NamePCs, UNCHANGED <<history, limit>>,
         faults' \in {faults, faults + 1}
  PROVE  Cleaned'
  <1>1. ~ Covers(job[e], history, limit)
    BY DEF Covers, NamePCs, Counting, Deleting
  <1>2. faults' = 0 => faults = 0
    BY FaultCounts DEF Shape
  <1> QED
    BY <1>1, <1>2, CleanedTurns

LEMMA LookupOwes ==
  ASSUME Shape, Unpaid, Owed, NEW e \in Enders, LookupPlayer(e)
  PROVE  Owed'
  <1>0. /\ TypeOK /\ job[e].pc = "lookup"
        /\ UNCHANGED <<active, history, limit, rows, counted, erased>>
        /\ faults' \in {faults, faults + 1}
        /\ faults' = 0 => faults = 0 /\ ~Fault
    BY FaultCounts DEF Shape, LookupPlayer, Fault
  <1>1. PICK pc \in {"update", "create"} :
           /\ Go(e, pc)
           /\ Fault \/ pc = IF NameOf[job[e].ses] \in rows THEN "update" ELSE "create"
    BY DEF LookupPlayer
  <1>2. PICK k : Onto(e, k, pc)
    BY <1>0, <1>1, GoOnto DEF PCs
  <1>3. Turns(e, k) /\ k.pc = pc /\ k.ses = job[e].ses
    BY <1>1, <1>2 DEF Onto
  <1>4. Cleaned'
    BY <1>0, <1>3, PlayersCleaned DEF Owed, NamePCs
  <1>5. Recorded'
    BY <1>0, <1>3, QuietRecorded DEF Owed
  <1>6. Tallied'
    <2>1. KnownPlayers \ erased' \subseteq rows'
      BY <1>0 DEF Owed, Tallied
    <2>2. faults' = 0 /\ NameOf[job[e].ses] \in KnownPlayers \ erased' =>
             k.pc = "update"
      BY <1>0, <1>1, <1>3, <2>1
    <2> QED
      BY <1>0, <1>3, <2>1, <2>2, Places, TalliedTurns DEF Owed
  <1> QED
    BY <1>4, <1>5, <1>6 DEF Owed

LEMMA CreatePlayerOwes ==
  ASSUME Shape, Unpaid, Owed, NEW e \in Enders, CreatePlayer(e)
  PROVE  Owed'
  <1>0. /\ TypeOK /\ job[e].pc = "create"
        /\ UNCHANGED <<active, history, limit, erased>>
        /\ faults' \in {faults, faults + 1}
        /\ faults' = 0 => faults = 0
    BY FaultCounts DEF Shape, CreatePlayer, Fault
  <1>1. PICK k : Turns(e, k)
    <2>1. CASE Done(e)
      BY <2>1, NoJobType DEF Done, Turns
    <2>2. CASE Retry(e, "create", "idle")
      BY <1>0, <2>2, RetryOnto DEF PCs, Onto
    <2> QED
      BY <2>1, <2>2 DEF CreatePlayer
  <1>2. Cleaned'
    BY <1>0, <1>1, PlayersCleaned DEF Owed, NamePCs
  <1>3. Recorded'
    BY <1>0, <1>1, QuietRecorded DEF Owed
  <1>4. Tallied'
    <2>1. KnownPlayers \ erased' \subseteq rows'
      BY <1>0 DEF Owed, Tallied, CreatePlayer
    <2>2. job[e].ses \in Sessions /\ counted[job[e].ses] = 0
      BY <1>0, Constants DEF Shape, HasSession, SessionPCs, PCs, Unpaid
    <2>3. \A s \in Sessions : counted[s] = 1 => counted'[s] = 1
      BY <2>2 DEF CreatePlayer, Shape, TypeOK
    <2> QED
      BY <1>0, <1>1, <2>1, <2>3, Places, TalliedTurns DEF Owed
  <1> QED
    BY <1>2, <1>3, <1>4 DEF Owed

LEMMA UpdateStatsOwes ==
  ASSUME Shape, Unpaid, Owed, NEW e \in Enders, UpdateStats(e)
  PROVE  Owed'
  <1>0. /\ TypeOK /\ job[e].pc = "update"
        /\ UNCHANGED <<active, history, limit, rows, erased>>
        /\ faults' \in {faults, faults + 1}
        /\ faults' = 0 => faults = 0 /\ ~Fault
    BY FaultCounts DEF Shape, UpdateStats, Fault
  <1>1. PICK k : Turns(e, k)
    <2>1. CASE Done(e)
      BY <2>1, NoJobType DEF Done, Turns
    <2>2. CASE Retry(e, "update", "idle")
      BY <1>0, <2>2, RetryOnto DEF PCs, Onto
    <2> QED
      BY <2>1, <2>2 DEF UpdateStats
  <1>2. Cleaned'
    BY <1>0, <1>1, PlayersCleaned DEF Owed, NamePCs
  <1>3. Recorded'
    BY <1>0, <1>1, QuietRecorded DEF Owed
  <1>4. Tallied'
    <2>1. KnownPlayers \ erased' \subseteq rows'
      BY <1>0 DEF Owed, Tallied
    <2>2. job[e].ses \in Sessions /\ counted[job[e].ses] = 0
      BY <1>0, Constants DEF Shape, HasSession, SessionPCs, PCs, Unpaid
    <2>3. \A s \in Sessions : counted[s] = 1 => counted'[s] = 1
      BY <2>2 DEF UpdateStats, Shape, TypeOK
    <2>4. faults' = 0 /\ NameOf[job[e].ses] \in KnownPlayers \ erased' =>
             counted'[job[e].ses] = 1
      <3>1. SUFFICES ASSUME faults' = 0,
                            NameOf[job[e].ses] \in KnownPlayers \ erased'
            PROVE  counted'[job[e].ses] = 1
        OBVIOUS
      <3>2. counted' = [counted EXCEPT ![job[e].ses] = counted[job[e].ses] + 1]
        BY <1>0, <2>1, <3>1 DEF UpdateStats
      <3> QED
        BY <2>2, <3>2 DEF Shape, TypeOK
    <2> QED
      BY <1>0, <1>1, <2>1, <2>3, <2>4, TalliedTurns DEF Owed
  <1> QED
    BY <1>2, <1>3, <1>4 DEF Owed

LEMMA EnderOwes ==
  ASSUME Shape, Unpaid, Owed, NEW e \in Enders, EnderStep(e)
  PROVE  Owed'
  <1>0. {"delete", "count2", "delete2", "delete3", "idle"} \subseteq PCs
    BY DEF PCs
  <1>1. CASE Count(e, "count", "delete", "insert", "count2")
    <2>1. GoesOn(e, "count2") /\ GoesOn(e, "delete")
      BY <1>0, Places DEF GoesOn
    <2> QED
      BY <1>1, <2>1, CountOwes
  <1>2. CASE DeleteOldest(e, "delete", "insert", "count2")
    <2>1. GoesOn(e, "count2")
      BY <1>0, Places DEF GoesOn
    <2> QED
      BY <1>2, <2>1, DeleteOldestOwes
  <1>3. CASE Count(e, "count2", "delete2", "count2", AfterRecord(e))
    <2>1. GoesOn(e, AfterRecord(e)) /\ GoesOn(e, "delete2")
      BY <1>0, <1>3, Places, AfterRecordGoesOn DEF GoesOn, Count
    <2> QED
      BY <1>3, <2>1, CountOwes
  <1>4. CASE DeleteOldest(e, "delete2", "count2", AfterRecord(e))
    <2>1. GoesOn(e, AfterRecord(e))
      BY <1>4, AfterRecordGoesOn DEF DeleteOldest
    <2> QED
      BY <1>4, <2>1, DeleteOldestOwes
  <1>5. CASE Count(e, "count3", "delete3", "count3", "idle")
    <2>1. GoesOn(e, "idle") /\ GoesOn(e, "delete3")
      BY <1>0, <1>5, Places DEF GoesOn, Count
    <2> QED
      BY <1>5, <2>1, CountOwes
  <1>6. CASE DeleteOldest(e, "delete3", "count3", "idle")
    <2>1. GoesOn(e, "idle")
      BY <1>0, <1>6, Places DEF GoesOn, DeleteOldest
    <2> QED
      BY <1>6, <2>1, DeleteOldestOwes
  <1> QED
    BY <1>1, <1>2, <1>3, <1>4, <1>5, <1>6, InsertOwes, LookupOwes,
       CreatePlayerOwes, UpdateStatsOwes DEF EnderStep

LEMMA BeginOwes ==
  ASSUME Shape, Unpaid, Owed, NEW e \in Enders, NEW s \in Sessions, Begin(e, s)
  PROVE  Owed'
  <1>0. /\ job[e].pc = "idle" /\ s \in active /\ active' = active \ {s}
        /\ UNCHANGED <<history, limit, rows, counted, faults, erased>>
        /\ faults \in Nat
    BY FaultCounts DEF Begin, Shape
  <1>1. CASE Anonymous(s)
    <2>1. UNCHANGED job
      BY <1>1 DEF Begin
    <2>2. NameOf[s] \notin KnownPlayers
      BY <1>1, Constants DEF Anonymous
    <2>3. Cleaned'
      BY <1>0, <2>1 DEF Owed, Cleaned
    <2>4. Recorded'
      BY <1>0, <1>1, <2>1 DEF Owed, Recorded, Anonymous
    <2>5. Tallied'
      BY <1>0, <2>1, <2>2 DEF Owed, Tallied
    <2> QED
      BY <2>3, <2>4, <2>5 DEF Owed
  <1>2. CASE ~ Anonymous(s)
    <2> DEFINE k == [NoJob EXCEPT !.pc = "insert", !.ses = s]
    <2>1. k \in Jobs /\ k.pc = "insert" /\ k.ses = s /\ k.try = 1
      BY StartedJob DEF NoJob
    <2>2. Turns(e, k)
      BY <1>2, <2>1 DEF Begin, Turns
    <2> HIDE DEF k
    <2>3. job'[e] = k /\ \A f \in Enders \ {e} : job'[f] = job[f]
      BY <2>2 DEF Turns, Shape, TypeOK
    <2>4. Cleaned'
      BY <1>0, <2>1, <2>2, CleanedTurns DEF Owed, Counting
    <2>5. Recorded'
      <3>1. Inserts(job'[e], s, faults')
        BY <1>0, <2>1, <2>3 DEF Inserts
      <3>2. \A f \in Enders, z \in Sessions :
               Inserts(job[f], z, faults) => Inserts(job'[f], z, faults')
        BY <1>0, <2>3 DEF Inserts
      <3> QED
        BY <1>0, <3>1, <3>2 DEF Owed, Recorded, Anonymous
    <2>6. Tallied'
      <3>1. job'[e].ses = s /\ job'[e].pc \in DuePCs
        BY <2>1, <2>3, Places
      <3>2. \A f \in Enders : job[f].pc \in DuePCs => job'[f] = job[f]
        BY <1>0, <2>3, Places
      <3> QED
        BY <1>0, <3>1, <3>2 DEF Owed, Tallied
    <2> QED
      BY <2>4, <2>5, <2>6 DEF Owed
  <1> QED
    BY <1>1, <1>2

LEMMA SetMaxRecordsOwes ==
  ASSUME Shape, Unpaid, Owed, NEW e \in Enders, NEW l \in Limits,
         SetMaxRecords(e, l)
  PROVE  Owed'
  <1> DEFINE k == [NoJob EXCEPT !.pc = "count3", !.try = MaxRetries]
  <1>0. MaxRetries \in 1 .. MaxRetries
    BY Constants
  <1>1. k \in Jobs /\ k.pc = "count3"
    BY <1>0, NoJobType DEF NoJob, Jobs, PCs
  <1>2. /\ Turns(e, k) /\ job[e].pc = "idle"
        /\ UNCHANGED <<active, history, rows, counted, faults, erased>>
    BY <1>1 DEF SetMaxRecords, Turns
  <1> HIDE DEF k
  <1>3. Cleaned'
    BY <1>1, <1>2, CleanedTurns DEF Owed, Counting
  <1>4. Recorded'
    BY <1>2, QuietRecorded DEF Owed
  <1>5. Tallied'
    BY <1>2, Places, QuietTallied DEF Owed
  <1> QED
    BY <1>3, <1>4, <1>5 DEF Owed

LEMMA DeletePlayerOwes ==
  ASSUME Shape, Unpaid, Owed, NEW p \in Players, DeletePlayer(p)
  PROVE  Owed'
  <1>0. /\ UNCHANGED <<active, history, limit, job, faults>>
        /\ rows' = rows \ {p} /\ erased' = erased \cup {p}
        /\ \A s \in Sessions : NameOf[s] # p => counted'[s] = counted[s]
    BY DEF DeletePlayer
  <1>1. Cleaned'
    BY <1>0 DEF Owed, Cleaned
  <1>2. Recorded'
    BY <1>0 DEF Owed, Recorded, Anonymous
  <1>3. Tallied'
    BY <1>0 DEF Owed, Tallied
  <1> QED
    BY <1>1, <1>2, <1>3 DEF Owed

LEMMA DeleteHistoryOwes ==
  ASSUME Shape, Unpaid, Owed, NEW out, DeleteHistory(out)
  PROVE  Owed'
  <1>0. /\ UNCHANGED <<active, limit, rows, counted, job, faults>>
        /\ history' = history \ out /\ erased' = erased \cup out
        /\ limit \in Nat /\ IsFiniteSet(history)
    BY FaultCounts DEF DeleteHistory, Shape
  <1>1. Cleaned'
    <2>1. /\ Cardinality(history') <= Cardinality(history)
          /\ Cardinality(history') \in Nat /\ Cardinality(history) \in Nat
      BY <1>0, FS_Subset, FS_CardinalityType
    <2>2. \A e \in Enders :
             Covers(job[e], history, limit) => Covers(job[e], history', limit)
      BY <1>0, CoversFewer DEF Shape, TypeOK
    <2>3. Cardinality(history) <= limit => Cardinality(history') <= limit
      BY <1>0, <2>1
    <2> QED
      BY <1>0, <2>2, <2>3 DEF Owed, Cleaned
  <1>2. Recorded'
    BY <1>0 DEF Owed, Recorded, Anonymous
  <1>3. Tallied'
    BY <1>0 DEF Owed, Tallied
  <1> QED
    BY <1>1, <1>2, <1>3 DEF Owed

LEMMA OwedStep ==
  ASSUME Shape, Unpaid, Owed, [Next]_vars
  PROVE  Owed'
  <1>1. CASE UNCHANGED vars
    <2>1. Cleaned'
      BY <1>1 DEF vars, Owed, Cleaned
    <2>2. Recorded'
      BY <1>1 DEF vars, Owed, Recorded, Anonymous
    <2>3. Tallied'
      BY <1>1 DEF vars, Owed, Tallied
    <2> QED
      BY <2>1, <2>2, <2>3 DEF Owed
  <1> QED
    BY <1>1, EnderOwes, BeginOwes, SetMaxRecordsOwes, DeletePlayerOwes,
       DeleteHistoryOwes DEF Next

LEMMA OwedInvariance == Spec => [](Shape /\ Unpaid /\ Owed)
  <1>1. Init => Shape /\ Unpaid /\ Owed
    <2> SUFFICES ASSUME Init PROVE Owed
      BY InitInv
    <2>1. Cleaned
      BY FS_EmptySet, Constants DEF Init, Cleaned
    <2>2. Recorded
      BY DEF Init, Recorded
    <2>3. Tallied
      BY DEF Init, Tallied
    <2> QED
      BY <2>1, <2>2, <2>3 DEF Owed
  <1>2. Shape /\ Unpaid /\ Owed /\ [Next]_vars => (Shape /\ Unpaid /\ Owed)'
    BY ShapeStep, UnpaidStep, OwedStep
  <1> QED
    BY <1>1, <1>2, PTL DEF Spec

-----------------------------------------------------------------------------
\* However inserts, cleanups, deletions and changes of max_session_records
\* interleave, the sessions table is within the limit once persistSession rests,
\* as long as no statement has failed.
THEOREM HistoryIsBounded == Spec => []HistoryBounded
  <1>1. Cleaned => HistoryBounded
    BY DEF Cleaned, Covers, Counting, Deleting, HistoryBounded, Quiescent
  <1> QED
    BY OwedInvariance, <1>1, PTL DEF Owed

\* With fewer failed statements than RetryOperation makes attempts, whatever the
\* number of attempts, no ended session of a known identity is without its record
\* unless somebody took the record away.
THEOREM RecordsSurvive == Spec => []RecordSurvives
  <1>1. Recorded => RecordSurvives
    BY DEF Recorded, Inserts, RecordSurvives, Quiescent
  <1> QED
    BY OwedInvariance, <1>1, PTL DEF Owed

\* The totals of a player whose row was there from the start, and was not deleted,
\* include each of his ended sessions once persistSession rests, as long as no
\* statement has failed.
THEOREM AllAreCounted == Spec => []AllCounted
  <1>1. Tallied => AllCounted
    BY Places DEF Tallied, AllCounted, Quiescent
  <1> QED
    BY OwedInvariance, <1>1, PTL DEF Owed
=============================================================================
