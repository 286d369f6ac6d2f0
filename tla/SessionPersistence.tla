------------------------- MODULE SessionPersistence -------------------------
(***************************************************************************)
(* persistSession (internal/proxy/proxy.go), the OnSessionEnd callback, on *)
(* the SQLite repositories of internal/db.  It runs in whichever goroutine *)
(* removed the session, so several run at once.  The database has a single *)
(* connection: one statement is atomic, a sequence of statements is not.   *)
(*                                                                         *)
(* A player's totals are sums over his sessions; what matters is which     *)
(* sessions they include and how often.  So counted[s] is the number of    *)
(* times the bytes and play time of session s went into the row of its     *)
(* player.  A statement may fail transiently, MaxFaults times in all.      *)
(***************************************************************************)
EXTENDS Integers, FiniteSets

CONSTANTS
    Enders,       \* goroutines that end sessions
    Sessions,     \* the sessions that will end
    Players,      \* display names
    Nobody,       \* the empty display name
    NameOf,       \* [Sessions -> Players \cup {Nobody}]
    HasUUID,      \* the sessions whose UUID is known
    StartTime,    \* [Sessions -> Nat], without ties
    KnownPlayers, \* players that have a row from earlier
    Limits,       \* values of SessionRepository.maxRecords in use
    FirstLimit,   \* the configured one
    MaxRetries,   \* ErrorHandler.maxRetries
    MaxFaults,    \* bound on transient database failures
    MayDelete,    \* may an operator delete players and history?
    None

ASSUME Constants ==
    /\ NameOf \in [Sessions -> Players \cup {Nobody}]
    /\ HasUUID \subseteq Sessions
    /\ StartTime \in [Sessions -> Nat]
    /\ KnownPlayers \subseteq Players
    /\ Nobody \notin Players
    /\ None \notin Sessions
    /\ Limits \subseteq Nat \ {0}
    /\ FirstLimit \in Limits
    /\ MaxRetries \in Nat \ {0}
    /\ MaxFaults \in Nat
    /\ MayDelete \in BOOLEAN

VARIABLES
    active,   \* sessions that have not ended
    history,  \* rows of the sessions table
    limit,    \* SessionRepository.maxRecords
    rows,     \* players that have a row in the players table
    counted,  \* [Sessions -> Nat]
    job,      \* what each ender is doing
    faults,   \* transient failures so far
    erased    \* sessions and players that had a row and lost it (history only)

vars == <<active, history, limit, rows, counted, job, faults, erased>>

\* pc: the statement to run next.  "insert", "count" and "delete" are
\* sessionRepo.Create; "count2" and "delete2" the Cleanup that follows it;
\* "count3" and "delete3" the Cleanup of SetMaxRecords.
PCs == {"idle", "insert", "count", "delete", "count2", "delete2", "count3",
        "delete3", "lookup", "create", "update"}

Jobs == [pc : PCs, ses : Sessions \cup {None}, try : 1 .. MaxRetries, n : Nat]

NoJob == [pc |-> "idle", ses |-> None, try |-> 1, n |-> 0]

TypeOK ==
    /\ active \subseteq Sessions
    /\ history \subseteq Sessions
    /\ limit \in Limits
    /\ rows \subseteq Players
    /\ counted \in [Sessions -> Nat]
    /\ job \in [Enders -> Jobs]
    /\ faults \in 0 .. MaxFaults
    /\ erased \subseteq Sessions \cup Players

Init ==
    /\ active = Sessions
    /\ history = {}
    /\ limit = FirstLimit
    /\ rows = KnownPlayers
    /\ counted = [s \in Sessions |-> 0]
    /\ job = [e \in Enders |-> NoJob]
    /\ faults = 0
    /\ erased = {}

-----------------------------------------------------------------------------
Go(e, pc) ==
    job' = [job EXCEPT ![e] = [@ EXCEPT !.pc = pc, !.try = 1, !.n = 0]]

Done(e) == job' = [job EXCEPT ![e] = NoJob]

Continue(e, pc) == IF pc = "idle" THEN Done(e) ELSE Go(e, pc)

\* Fault: the first error is final.
RetryNot(e, again, next) == Continue(e, next)

\* RetryOperation: run the operation again from its first statement, or, out
\* of attempts, log the error and continue with the next operation.
Retry(e, again, next) ==
    IF job[e].try < MaxRetries
    THEN job' = [job EXCEPT ![e] = [@ EXCEPT !.pc = again,
                                          !.try = job[e].try + 1]]
    ELSE Continue(e, next)

\* The database refuses the statement for a reason that has nothing to do
\* with its contents.
Fault == faults < MaxFaults /\ faults' = faults + 1

\* Update player stats only for a session with a display name.
AfterRecord(e) ==
    IF NameOf[job[e].ses] = Nobody THEN "idle" ELSE "lookup"

\* A session whose identity was never learned leaves no trace.
Anonymous(s) == NameOf[s] = Nobody /\ s \notin HasUUID

\* OnSessionEnd(session): the snapshot is taken.
Begin(e, s) ==
    /\ job[e].pc = "idle"
    /\ s \in active
    /\ active' = active \ {s}
    /\ job' = IF Anonymous(s) THEN job
              ELSE [job EXCEPT ![e] = [NoJob EXCEPT !.pc = "insert", !.ses = s]]
    /\ UNCHANGED <<history, limit, rows, counted, faults, erased>>

-----------------------------------------------------------------------------
(* sessionRepo.Create(record): INSERT, then Cleanup.                       *)

\* The id is the primary key: a retry after the row is in fails again.
Insert(e) ==
    /\ job[e].pc = "insert"
    /\ \/ /\ job[e].ses \notin history
          /\ history' = history \cup {job[e].ses}
          /\ job' = [job EXCEPT ![e] = [@ EXCEPT !.pc = "count"]]
          /\ UNCHANGED faults
       \/ /\ job[e].ses \in history
          /\ Retry(e, "insert", "count2")
          /\ UNCHANGED <<history, faults>>
       \/ Fault /\ Retry(e, "insert", "count2") /\ UNCHANGED history
    /\ UNCHANGED <<active, limit, rows, counted, erased>>

\* SELECT COUNT(*): Cleanup remembers how many rows were too many.
Count(e, at, del, again, next) ==
    /\ job[e].pc = at
    /\ \/ /\ Cardinality(history) > limit
          /\ job' = [job EXCEPT ![e] = [@ EXCEPT !.pc = del,
                                                 !.n = Cardinality(history) - limit]]
          /\ UNCHANGED faults
       \/ /\ Cardinality(history) <= limit
          /\ Continue(e, next)
          /\ UNCHANGED faults
       \/ Fault /\ Retry(e, again, next)
    /\ UNCHANGED <<active, history, limit, rows, counted, erased>>

\* The k rows with the smallest start_time.
Oldest(k) ==
    {s \in history :
        Cardinality({z \in history : StartTime[z] < StartTime[s]}) < k}

\* Fault: an off-by-one leaves one row too many.
DeleteOldestShort(e, at, again, next) ==
    /\ job[e].pc = at
    /\ history' = history \ Oldest(job[e].n - 1)
    /\ erased' = erased \cup Oldest(job[e].n - 1)
    /\ Continue(e, next)
    /\ UNCHANGED <<active, limit, rows, counted, faults>>

\* DELETE of that many oldest rows, however many there are now.
DeleteOldest(e, at, again, next) ==
    /\ job[e].pc = at
    /\ \/ /\ history' = history \ Oldest(job[e].n)
          /\ erased' = erased \cup Oldest(job[e].n)
          /\ Continue(e, next)
          /\ UNCHANGED faults
       \/ Fault /\ Retry(e, again, next) /\ UNCHANGED <<history, erased>>
    /\ UNCHANGED <<active, limit, rows, counted>>

-----------------------------------------------------------------------------
(* Player statistics.                                                      *)

\* Fault: the answer to the lookup is not looked at.
LookupPlayerAlways(e) ==
    /\ job[e].pc = "lookup"
    /\ Go(e, "create")
    /\ UNCHANGED <<active, history, limit, rows, counted, faults, erased>>

\* GetByDisplayName: not retried, and any error is taken for an absent row.
LookupPlayer(e) ==
    /\ job[e].pc = "lookup"
    /\ \/ /\ Go(e, IF NameOf[job[e].ses] \in rows THEN "update" ELSE "create")
          /\ UNCHANGED faults
       \/ Fault /\ Go(e, "create")
    /\ UNCHANGED <<active, history, limit, rows, counted, erased>>

\* INSERT INTO players: the display name is the primary key.
CreatePlayer(e) ==
    LET s == job[e].ses IN
    /\ job[e].pc = "create"
    /\ \/ /\ NameOf[s] \notin rows
          /\ rows' = rows \cup {NameOf[s]}
          /\ counted' = [counted EXCEPT ![s] = @ + 1]
          /\ Done(e)
          /\ UNCHANGED faults
       \/ /\ NameOf[s] \in rows
          /\ Retry(e, "create", "idle")
          /\ UNCHANGED <<rows, counted, faults>>
       \/ Fault /\ Retry(e, "create", "idle") /\ UNCHANGED <<rows, counted>>
    /\ UNCHANGED <<active, history, limit, erased>>

\* Fault: the statement is retried although it has taken effect.
UpdateStatsTwice(e) ==
    LET s == job[e].ses IN
    /\ job[e].pc = "update"
    /\ counted' = [counted EXCEPT ![s] = @ + 1]
    /\ \/ Done(e) /\ UNCHANGED faults
       \/ Fault /\ Retry(e, "update", "idle")
    /\ UNCHANGED <<active, history, limit, rows, erased>>

\* UPDATE players SET total_bytes = total_bytes + ?: an error if no row is left.
UpdateStats(e) ==
    LET s == job[e].ses IN
    /\ job[e].pc = "update"
    /\ \/ /\ NameOf[s] \in rows
          /\ counted' = [counted EXCEPT ![s] = @ + 1]
          /\ Done(e)
          /\ UNCHANGED faults
       \/ /\ NameOf[s] \notin rows
          /\ Retry(e, "update", "idle")
          /\ UNCHANGED <<counted, faults>>
       \/ Fault /\ Retry(e, "update", "idle") /\ UNCHANGED counted
    /\ UNCHANGED <<active, history, limit, rows, erased>>

-----------------------------------------------------------------------------
(* Operators, through the API.                                             *)

\* SetMaxRecords(k): the new limit, then a Cleanup that is not retried.
SetMaxRecords(e, k) ==
    /\ job[e].pc = "idle"
    /\ k # limit
    /\ limit' = k
    /\ job' = [job EXCEPT ![e] = [NoJob EXCEPT !.pc = "count3",
                                               !.try = MaxRetries]]
    /\ UNCHANGED <<active, history, rows, counted, faults, erased>>

\* DELETE /api/players/:name takes the totals with the row.
DeletePlayer(p) ==
    /\ MayDelete
    /\ p \in rows
    /\ rows' = rows \ {p}
    /\ erased' = erased \cup {p}
    /\ counted' = [s \in Sessions |-> IF NameOf[s] = p THEN 0 ELSE counted[s]]
    /\ UNCHANGED <<active, history, limit, job, faults>>

\* DeleteHistory(id); ClearHistory is the same for every row at once.
DeleteHistory(out) ==
    /\ MayDelete
    /\ out # {}
    /\ out \subseteq history
    /\ history' = history \ out
    /\ erased' = erased \cup out
    /\ UNCHANGED <<active, limit, rows, counted, job, faults>>

-----------------------------------------------------------------------------
EnderStep(e) ==
    \/ Insert(e)
    \/ Count(e, "count", "delete", "insert", "count2")
    \/ DeleteOldest(e, "delete", "insert", "count2")
    \/ Count(e, "count2", "delete2", "count2", AfterRecord(e))
    \/ DeleteOldest(e, "delete2", "count2", AfterRecord(e))
    \/ Count(e, "count3", "delete3", "count3", "idle")
    \/ DeleteOldest(e, "delete3", "count3", "idle")
    \/ LookupPlayer(e) \/ CreatePlayer(e) \/ UpdateStats(e)

Next ==
    \/ \E e \in Enders : EnderStep(e)
    \/ \E e \in Enders, s \in Sessions : Begin(e, s)
    \/ \E e \in Enders, k \in Limits : SetMaxRecords(e, k)
    \/ \E p \in Players : DeletePlayer(p)
    \/ \E s \in history : DeleteHistory({s})
    \/ DeleteHistory(history)

Spec == Init /\ [][Next]_vars

-----------------------------------------------------------------------------
(* Properties.                                                             *)

Quiescent == \A e \in Enders : job[e].pc = "idle"

\* However often RetryOperation runs the statements of persistSession, a
\* session goes into its player's totals at most once.
CountedOnce == \A s \in Sessions : counted[s] <= 1

\* When no statement has failed and no persistSession is running, the history is
\* within max_session_records: concurrent inserts, cleanups and changes of the
\* limit do not leave more rows behind.
HistoryBounded == Quiescent /\ faults = 0 => Cardinality(history) <= limit

\* As long as fewer statements fail than RetryOperation makes attempts, every
\* ended session of a known identity got its record, although a retry of Create
\* after a failed Cleanup finds the row there and fails for that: only a cleanup
\* or an operator may have taken it away again.
RecordSurvives ==
    Quiescent /\ faults < MaxRetries =>
        \A s \in Sessions \ active : Anonymous(s) \/ s \in history \cup erased

\* As long as no statement has failed, the totals of a player who had a row and
\* was not deleted include all his ended sessions.
AllCounted ==
    Quiescent /\ faults = 0 =>
        \A s \in Sessions \ active :
            NameOf[s] \in KnownPlayers \ erased => counted[s] = 1
=============================================================================
