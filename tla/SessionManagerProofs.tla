------------------------ MODULE SessionManagerProofs ------------------------
(***************************************************************************)
(* Proofs about SessionManager for every number of clients, workers,       *)
(* callers and sessions: type correctness, exactly-once custody, the       *)
(* single dial, and the refinement of SessionLife.                         *)
(***************************************************************************)
EXTENDS SessionManager, TLAPS

(***************************************************************************)
(* What a goroutine refers to exists: a worker past its first check knows  *)
(* its client, one past GetOrCreate has a session that was really created, *)
(* the sessions of a snapshot and those in the table were created too.     *)
(***************************************************************************)
RefersToBorn ==
    /\ \A w \in Workers :
         /\ wk[w].pc # "idle" => wk[w].addr \in Addrs
         /\ wk[w].pc \in {"lock", "setup", "forward", "fail"}
                => wk[w].ses \in SessionIDs /\ Born(wk[w].ses)
    /\ \A r \in Removers : \A s \in rm[r].scan : Born(s)
    /\ FiledUnderAddr

Shape == TypeOK /\ RefersToBorn

(***************************************************************************)
(* The records stay well typed under the updates the actions make.         *)
(***************************************************************************)

\* GetOrCreate hands a session to a worker.
LEMMA WorkerUpdate ==
    ASSUME NEW q \in WorkerStates, NEW s \in SessionIDs, NEW b \in BOOLEAN
    PROVE  [q EXCEPT !.pc = "lock", !.ses = s, !.new = b] \in WorkerStates
BY DEF WorkerStates

\* A worker moves on.
LEMMA WorkerMove ==
    ASSUME NEW q \in WorkerStates,
           NEW c \in {"create", "setup", "forward", "fail"}
    PROVE  [q EXCEPT !.pc = c] \in WorkerStates
BY DEF WorkerStates

\* GetOrCreate, SetPlayerInfo and SetDisconnectStatus on a session.
LEMMA InfoUpdate ==
    ASSUME NEW q \in Infos
    PROVE  /\ \A a \in Addrs, v \in Servers :
                 [q EXCEPT !.addr = a, !.server = v] \in Infos
           /\ \A n \in Names \cup {NoName} : [q EXCEPT !.name = n] \in Infos
           /\ \A b \in BOOLEAN : [q EXCEPT !.kicked = b] \in Infos
BY DEF Infos

\* The steps of a removal.
LEMMA RemovalUpdate ==
    ASSUME NEW q \in RemovalStates
    PROVE  /\ [q EXCEPT !.cur = None] \in RemovalStates
           /\ \A S \in SUBSET SessionIDs : [q EXCEPT !.pend = S] \in RemovalStates
           /\ \A S \in SUBSET SessionIDs : [q EXCEPT !.scan = S] \in RemovalStates
           /\ \A A \in SUBSET Addrs : [q EXCEPT !.addrs = A] \in RemovalStates
           /\ \A S \in SUBSET SessionIDs, n \in Names \cup {NoName} :
                 [q EXCEPT !.scan = S, !.who = n] \in RemovalStates
           /\ \A S \in SUBSET SessionIDs, n \in Names \cup {NoName},
                 A \in SUBSET Addrs :
                 [q EXCEPT !.scan = S, !.who = n, !.addrs = A] \in RemovalStates
           /\ \A S \in SUBSET SessionIDs, A \in SUBSET Addrs :
                 [q EXCEPT !.addrs = A, !.pend = S] \in RemovalStates
           /\ \A S \in SUBSET SessionIDs, s \in SessionIDs :
                 [q EXCEPT !.pend = S, !.cur = s] \in RemovalStates
BY DEF RemovalStates

\* The sessions in the table are sessions.
LEMMA EntriesType == TypeOK => Entries \subseteq SessionIDs
BY DEF TypeOK, Entries

\* A step of any action keeps every variable in its type.
LEMMA TypeStep == Shape /\ [Next]_vars => TypeOK'
<1> SUFFICES ASSUME Shape, [Next]_vars PROVE TypeOK'
  OBVIOUS
<1> USE Actors DEF TypeOK, Shape
<1>1. ASSUME NEW w \in Workers, NEW a \in Addrs, Receive(w, a) PROVE TypeOK'
  <2>1. wk' \in [Workers -> WorkerStates]
    BY <1>1 DEF Receive, Waiting, WorkerStates
  <2> QED BY <2>1, <1>1 DEF Receive
<1>2. ASSUME NEW w \in Workers, Lookup(w) PROVE TypeOK'
  <2>1. wk[w].addr \in Addrs
    BY <1>2 DEF Lookup, RefersToBorn
  <2>2. wk' \in [Workers -> WorkerStates]
    <3>1. CASE table[wk[w].addr] = None
      <4>1. wk' = [wk EXCEPT ![w].pc = "create"]
        BY <3>1, <1>2 DEF Lookup
      <4> QED BY <4>1, WorkerMove
    <3>2. CASE table[wk[w].addr] # None
      <4>1. table[wk[w].addr] \in SessionIDs
        BY <3>2, <2>1
      <4>2. GoOnWith(w, table[wk[w].addr], FALSE)
        BY <3>2, <1>2 DEF Lookup
      <4> QED BY <4>1, <4>2, WorkerUpdate DEF GoOnWith
    <3> QED BY <3>1, <3>2
  <2> QED BY <2>2, <1>2 DEF Lookup
<1>3. ASSUME NEW w \in Workers, FindAgain(w) PROVE TypeOK'
  <2>1. wk[w].addr \in Addrs
    BY <1>3 DEF FindAgain, RefersToBorn
  <2>2. wk' \in [Workers -> WorkerStates]
    <3>1. table[wk[w].addr] \in SessionIDs
      BY <2>1, <1>3 DEF FindAgain
    <3> QED BY <3>1, <1>3, WorkerUpdate DEF FindAgain, GoOnWith
  <2> QED BY <2>2, <1>3 DEF FindAgain
<1>4. ASSUME NEW w \in Workers, NEW s \in SessionIDs, Create(w, s) PROVE TypeOK'
  <2>1. wk[w].addr \in Addrs
    BY <1>4 DEF Create, RefersToBorn
  <2>2. wk' \in [Workers -> WorkerStates]
    BY <1>4, WorkerUpdate DEF Create, GoOnWith
  <2>3. info' \in [SessionIDs -> Infos]
    BY <2>1, <1>4, InfoUpdate DEF Create
  <2> QED BY <2>1, <2>2, <2>3, <1>4 DEF Create
<1>5. ASSUME NEW w \in Workers, LockForward(w) PROVE TypeOK'
  <2>1. wk' \in [Workers -> WorkerStates]
    BY <1>5, WorkerMove DEF LockForward
  <2> QED BY <2>1, <1>5 DEF LockForward
<1>6. ASSUME NEW w \in Workers, SetupRemote(w) PROVE TypeOK'
  <2>1. wk' \in [Workers -> WorkerStates]
    BY <1>6, WorkerMove DEF SetupRemote
  <2> QED BY <2>1, <1>6 DEF SetupRemote
<1>7. ASSUME NEW w \in Workers, SetupFails(w) PROVE TypeOK'
  <2>1. wk' \in [Workers -> WorkerStates]
    BY <1>7, WorkerMove DEF SetupFails
  <2>2. wk[w].addr \in Addrs /\ w \in Removers
    BY <1>7 DEF SetupFails, RefersToBorn, Removers
  <2>3. rm' \in [Removers -> RemovalStates]
    BY <2>2, <1>7, RemovalUpdate DEF SetupFails
  <2> QED BY <2>1, <2>3, <1>7 DEF SetupFails
<1>8. ASSUME NEW w \in Workers, NEW n \in Names \cup {NoName}, Forward(w, n)
      PROVE TypeOK'
  <2>1. wk' \in [Workers -> WorkerStates]
    BY <1>8 DEF Forward, Return, Waiting, WorkerStates
  <2>2. wk[w].ses \in SessionIDs
    BY <1>8 DEF Forward, RefersToBorn
  <2>3. info[wk[w].ses].name \in Names \cup {NoName}
    BY <2>2 DEF Infos
  <2>4. info' \in [SessionIDs -> Infos]
    <3>1. CASE conn[wk[w].ses] = "nil"
      BY <3>1, <1>8 DEF Forward
    <3>2. CASE conn[wk[w].ses] # "nil"
      <4>1. info' = Identified(wk[w].ses, n)
        BY <3>2, <1>8 DEF Forward
      <4> QED BY <4>1, <2>2, <2>3, InfoUpdate DEF Identified
    <3> QED BY <3>1, <3>2
  <2>5. age' \in [SessionIDs -> Nat]
    BY <1>8 DEF Forward
  <2>6. fwd' \in [SessionIDs -> Workers \cup {None}]
    BY <1>8 DEF Forward, Return
  <2> QED BY <2>1, <2>4, <2>5, <2>6, <1>8 DEF Forward
<1>9. ASSUME NEW w \in Workers, FailReturn(w) PROVE TypeOK'
  <2>1. wk' \in [Workers -> WorkerStates]
    BY <1>9 DEF FailReturn, Return, Waiting, WorkerStates
  <2> QED BY <2>1, <1>9 DEF FailReturn, Return
<1>10. ASSUME NEW s \in SessionIDs, NEW n \in Names \cup {NoName}, FromRemote(s, n)
       PROVE TypeOK'
  <2>1. info' \in [SessionIDs -> Infos]
    <3>1. info[s].name \in Names \cup {NoName}
      BY DEF Infos
    <3> QED BY <3>1, <1>10, InfoUpdate DEF FromRemote, Identified
  <2> QED BY <2>1, <1>10 DEF FromRemote
<1>11. ASSUME NEW s \in SessionIDs, ReceiverExit(s) PROVE TypeOK'
  BY <1>11 DEF ReceiverExit
<1>12. ASSUME NEW a \in Addrs, UpdateActivity(a) PROVE TypeOK'
  BY <1>12 DEF UpdateActivity
<1>13. ASSUME Tick PROVE TypeOK'
  BY <1>13 DEF Tick
<1>14. ASSUME NEW r \in Removers, CollectIdle(r) PROVE TypeOK'
  <2>1. rm' \in [Removers -> RemovalStates]
    BY <1>14, RemovalUpdate DEF CollectIdle
  <2> QED BY <2>1, <1>14 DEF CollectIdle
<1>15. ASSUME NEW r \in Callers, NEW s \in SessionIDs, RemoveByID(r, s) PROVE TypeOK'
  <2>1. rm' \in [Removers -> RemovalStates]
    BY <1>15, RemovalUpdate, ZenonT(60) DEF RemoveByID, Removers
  <2> QED BY <2>1, <1>15 DEF RemoveByID, Delete
<1>16. ASSUME NEW r \in Callers, NEW n \in Names, RemoveByPlayer(r, n) PROVE TypeOK'
  <2>1. rm' \in [Removers -> RemovalStates]
    BY <1>16, RemovalUpdate, EntriesType DEF RemoveByPlayer, Removers
  <2> QED BY <2>1, <1>16 DEF RemoveByPlayer, Delete
<1>17. ASSUME NEW r \in Callers, NEW n \in Names, KickPlayer(r, n) PROVE TypeOK'
  <2>1. rm' \in [Removers -> RemovalStates]
    BY <1>17, RemovalUpdate, EntriesType DEF KickPlayer, Removers
  <2> QED BY <2>1, <1>17 DEF KickPlayer
<1>18. ASSUME NEW r \in Removers, NEW s \in SessionIDs, ScanNext(r, s) PROVE TypeOK'
  <2>1. info[s].addr \in Addrs
    BY <1>18 DEF ScanNext, RefersToBorn, Born, Infos
  <2>2. rm' \in [Removers -> RemovalStates]
    <3>1. rm[r].scan \ {s} \in SUBSET SessionIDs
          /\ rm[r].who \in Names \cup {NoName}
      BY DEF RemovalStates
    <3>2. PICK n \in Names \cup {NoName}, A \in SUBSET Addrs :
            rm' = [rm EXCEPT ![r] = [@ EXCEPT !.scan = rm[r].scan \ {s},
                                              !.who = n, !.addrs = A]]
      BY <2>1, <3>1, <1>18, ZenonT(60) DEF ScanNext
    <3>3. rm[r] \in RemovalStates
      OBVIOUS
    <3>4. [rm[r] EXCEPT !.scan = rm[r].scan \ {s}, !.who = n, !.addrs = A]
            \in RemovalStates
      BY <3>1, <3>3, RemovalUpdate
    <3> QED BY <3>2, <3>4
  <2>3. info' \in [SessionIDs -> Infos]
    BY <1>18, InfoUpdate DEF ScanNext
  <2> QED BY <2>2, <2>3, <1>18 DEF ScanNext
<1>19. ASSUME NEW r \in Removers, NEW a \in Addrs, RemoveAddr(r, a) PROVE TypeOK'
  <2>1. rm' \in [Removers -> RemovalStates]
    <3>1. rm[r].addrs \ {a} \in SUBSET Addrs
      BY DEF RemovalStates
    <3>2. rm[r] \in RemovalStates /\ {table[a]} \ {None} \in SUBSET SessionIDs
      OBVIOUS
    <3>3. [rm[r] EXCEPT !.addrs = rm[r].addrs \ {a}, !.pend = {table[a]} \ {None}]
            \in RemovalStates
      BY <3>1, <3>2, RemovalUpdate
    <3> QED BY <3>3, <1>19 DEF RemoveAddr
  <2> QED BY <2>1, <1>19 DEF RemoveAddr, Delete
<1>20. ASSUME NEW r \in Removers, NEW s \in SessionIDs, CloseRemote(r, s) PROVE TypeOK'
  <2>1. rm' \in [Removers -> RemovalStates]
    <3>1. rm[r].pend \ {s} \in SUBSET SessionIDs
      BY DEF RemovalStates
    <3>2. rm[r] \in RemovalStates
      OBVIOUS
    <3>3. [rm[r] EXCEPT !.pend = rm[r].pend \ {s}, !.cur = s] \in RemovalStates
      BY <3>1, <3>2, RemovalUpdate
    <3> QED BY <3>3, <1>20 DEF CloseRemote
  <2> QED BY <2>1, <1>20 DEF CloseRemote
<1>21. ASSUME NEW r \in Removers, SessionEnd(r) PROVE TypeOK'
  <2>1. rm' \in [Removers -> RemovalStates]
    BY <1>21, SMTT(30) DEF SessionEnd, RemovalStates
  <2> QED BY <2>1, <1>21 DEF SessionEnd, RemovalStates
<1>22. ASSUME StopBegin \/ StopCleaned \/ StopReturn PROVE TypeOK'
  BY <1>22 DEF StopBegin, StopCleaned, StopReturn
<1>23. ASSUME NEW v \in Servers, StopListener(v) PROVE TypeOK'
  BY <1>23 DEF StopListener
<1>24. ASSUME StopSnapshot PROVE TypeOK'
  <2>1. rm' \in [Removers -> RemovalStates]
    BY <1>24, EntriesType, RemovalUpdate DEF StopSnapshot, Removers
  <2> QED BY <2>1, <1>24 DEF StopSnapshot
<1>25. ASSUME UNCHANGED vars PROVE TypeOK'
  BY <1>25 DEF vars
<1> HIDE DEF TypeOK, Shape
<1> QED
  BY <1>1, <1>2, <1>3, <1>4, <1>5, <1>6, <1>7, <1>8, <1>9, <1>10, <1>11, <1>12,
     <1>13, <1>14, <1>15, <1>16, <1>17, <1>18, <1>19, <1>20, <1>21, <1>22,
     <1>23, <1>24, <1>25
  DEF Next, WorkerStep, RemovalStep, StopStep

-----------------------------------------------------------------------------
(* The kinds of step, as far as custody of sessions is concerned.          *)

SameBorn == \A s \in SessionIDs : info'[s].addr = info[s].addr

SameHeld(q) == rm'[q].pend = rm[q].pend /\ rm'[q].cur = rm[q].cur

\* Nothing about custody changes.
Neutral ==
    /\ table' = table
    /\ ended' = ended
    /\ SameBorn
    /\ \A q \in Removers : SameHeld(q)

\* GetOrCreate files a new session.
Opens(a, s) ==
    /\ table[a] = None
    /\ ~Born(s)
    /\ table' = [table EXCEPT ![a] = s]
    /\ info'[s].addr = a
    /\ \A z \in SessionIDs \ {s} : info'[z].addr = info[z].addr
    /\ ended' = ended
    /\ \A q \in Removers : SameHeld(q)

\* A critical section takes sessions out of the table.
TakesOut(r, out) ==
    /\ out \subseteq Entries
    /\ rm[r].pend = {} /\ rm[r].cur = None
    /\ table' = [a \in Addrs |-> IF table[a] \in out THEN None ELSE table[a]]
    /\ rm'[r].pend = out /\ rm'[r].cur = None
    /\ \A q \in Removers \ {r} : SameHeld(q)
    /\ SameBorn
    /\ ended' = ended

\* A remover closes the socket of a session it took out.
Closes(r, s) ==
    /\ s \in rm[r].pend /\ rm[r].cur = None
    /\ rm'[r].pend = rm[r].pend \ {s} /\ rm'[r].cur = s
    /\ \A q \in Removers \ {r} : SameHeld(q)
    /\ table' = table
    /\ SameBorn
    /\ ended' = ended

\* A remover calls OnSessionEnd.
Ends(r) ==
    /\ rm[r].cur \in SessionIDs
    /\ ended' = [ended EXCEPT ![rm[r].cur] = @ + 1]
    /\ rm'[r].pend = rm[r].pend /\ rm'[r].cur = None
    /\ \A q \in Removers \ {r} : SameHeld(q)
    /\ table' = table
    /\ SameBorn

Kinds ==
    \/ Neutral
    \/ \E a \in Addrs, s \in SessionIDs : Opens(a, s)
    \/ \E r \in Removers, out \in SUBSET SessionIDs : TakesOut(r, out)
    \/ \E r \in Removers, s \in SessionIDs : Closes(r, s)
    \/ \E r \in Removers : Ends(r)

\* Every step of the specification is of one of these kinds.
LEMMA StepKinds == Shape /\ [Next]_vars => Kinds
<1> SUFFICES ASSUME Shape, [Next]_vars PROVE Kinds
  OBVIOUS
<1> USE Actors DEF TypeOK, Shape
<1>1. ASSUME UNCHANGED <<table, rm, ended, info>> PROVE Neutral
  BY <1>1 DEF Neutral, SameBorn, SameHeld
<1>2. ASSUME NEW w \in Workers, NEW s \in SessionIDs, Create(w, s)
      PROVE Opens(wk[w].addr, s) /\ wk[w].addr \in Addrs
  <2>1. wk[w].addr \in Addrs
    BY <1>2 DEF Create, RefersToBorn
  <2>2. info[s] \in Infos
    OBVIOUS
  <2>3. info'[s].addr = wk[w].addr
    BY <2>2, <1>2 DEF Create, Infos
  <2> QED BY <2>1, <2>3, <1>2 DEF Create, Opens, SameHeld
<1>3. ASSUME NEW r \in Removers, NEW out \in SUBSET SessionIDs,
             out \subseteq Entries, rm[r] = Quiet, Delete(out),
             rm' = [rm EXCEPT ![r].pend = out], UNCHANGED <<info, ended>>
      PROVE TakesOut(r, out)
  <2>1. rm[r].pend = {} /\ rm[r].cur = None
    BY <1>3 DEF Quiet
  <2>2. rm[r] \in RemovalStates
    OBVIOUS
  <2>3. rm'[r].pend = out /\ rm'[r].cur = None
    BY <2>1, <2>2, <1>3 DEF RemovalStates
  <2> QED BY <2>1, <2>3, <1>3 DEF TakesOut, Delete, SameHeld, SameBorn
<1>4. ASSUME NEW r \in Removers, NEW a \in Addrs, RemoveAddr(r, a)
      PROVE TakesOut(r, {table[a]} \ {None})
  <2>1. rm[r] \in RemovalStates
    OBVIOUS
  <2>2. rm'[r].pend = {table[a]} \ {None} /\ rm'[r].cur = None
    BY <2>1, <1>4 DEF RemoveAddr, RemovalStates
  <2>3. {table[a]} \ {None} \subseteq Entries
    BY DEF Entries
  <2> QED BY <2>2, <2>3, <1>4 DEF RemoveAddr, TakesOut, Delete, SameHeld, SameBorn
<1>5. ASSUME NEW r \in Removers, NEW s \in SessionIDs, CloseRemote(r, s)
      PROVE Closes(r, s)
  <2>1. rm[r] \in RemovalStates
    OBVIOUS
  <2>2. rm'[r].pend = rm[r].pend \ {s} /\ rm'[r].cur = s
    BY <2>1, <1>5 DEF CloseRemote, RemovalStates
  <2> QED BY <2>2, <1>5 DEF CloseRemote, Closes, SameHeld, SameBorn
<1>6. ASSUME NEW r \in Removers, SessionEnd(r) PROVE Ends(r)
  <2>1. rm[r] \in RemovalStates
    OBVIOUS
  <2>2. rm[r].cur \in SessionIDs
    BY <2>1, <1>6 DEF SessionEnd, RemovalStates
  <2>3. rm'[r].pend = rm[r].pend /\ rm'[r].cur = None
    BY <2>1, <1>6 DEF SessionEnd, RemovalStates
  <2> QED BY <2>2, <2>3, <1>6 DEF SessionEnd, Ends, SameHeld, SameBorn
<1>7. ASSUME NEW s \in SessionIDs, NEW n, info' = Identified(s, n),
             UNCHANGED <<table, rm, ended>>
      PROVE Neutral
  <2>1. \A z \in SessionIDs : info[z] \in Infos
    OBVIOUS
  <2>2. SameBorn
    BY <2>1, <1>7 DEF SameBorn, Identified, Infos
  <2> QED BY <2>2, <1>7 DEF Neutral, SameHeld
<1>8. ASSUME NEW r \in Removers, UNCHANGED <<table, info, ended>>,
             \/ \E A \in SUBSET Addrs : rm' = [rm EXCEPT ![r].addrs = A]
             \/ \E S \in SUBSET SessionIDs : rm' = [rm EXCEPT ![r].scan = S]
             \/ \E S \in SUBSET SessionIDs, n \in Names :
                   rm' = [rm EXCEPT ![r] = [@ EXCEPT !.scan = S, !.who = n]]
      PROVE Neutral
  <2>1. rm[r] \in RemovalStates
    OBVIOUS
  <2>2. SameHeld(r)
    <3>1. ASSUME NEW A \in SUBSET Addrs, rm' = [rm EXCEPT ![r].addrs = A]
          PROVE SameHeld(r)
      BY <2>1, <3>1 DEF RemovalStates, SameHeld
    <3>2. ASSUME NEW S \in SUBSET SessionIDs, rm' = [rm EXCEPT ![r].scan = S]
          PROVE SameHeld(r)
      BY <2>1, <3>2 DEF RemovalStates, SameHeld
    <3>3. ASSUME NEW S \in SUBSET SessionIDs, NEW n \in Names,
                 rm' = [rm EXCEPT ![r] = [@ EXCEPT !.scan = S, !.who = n]]
          PROVE SameHeld(r)
      BY <2>1, <3>3 DEF RemovalStates, SameHeld
    <3> QED BY <3>1, <3>2, <3>3, <1>8
  <2>3. \A q \in Removers \ {r} : SameHeld(q)
    BY <1>8 DEF SameHeld
  <2> QED BY <2>2, <2>3, <1>8 DEF Neutral, SameBorn
<1>9. ASSUME NEW r \in Removers, NEW s \in SessionIDs, ScanNext(r, s) PROVE Neutral
  <2>1. rm[r] \in RemovalStates /\ \A z \in SessionIDs : info[z] \in Infos
    OBVIOUS
  <2>2. SameHeld(r)
    BY <2>1, <1>9 DEF ScanNext, RemovalStates, SameHeld
  <2>3. \A q \in Removers \ {r} : SameHeld(q)
    BY <1>9 DEF ScanNext, SameHeld
  <2>4. SameBorn
    BY <2>1, <1>9 DEF ScanNext, SameBorn, Infos
  <2> QED BY <2>2, <2>3, <2>4, <1>9 DEF ScanNext, Neutral
<1>10. ASSUME NEW w \in Workers, WorkerStep(w) PROVE Kinds
  <2>1. CASE Lookup(w) \/ FindAgain(w) \/ LockForward(w) \/ SetupRemote(w)
             \/ FailReturn(w)
    BY <2>1, <1>1 DEF Lookup, FindAgain, LockForward, SetupRemote, FailReturn, Kinds
  <2>2. CASE SetupFails(w)
    <3>1. w \in Removers /\ {wk[w].addr} \in SUBSET Addrs
      BY <2>2 DEF SetupFails, RefersToBorn, Removers
    <3> QED BY <3>1, <2>2, <1>8 DEF SetupFails, Kinds
  <2>3. CASE \E s \in SessionIDs : Create(w, s)
    BY <2>3, <1>2 DEF Kinds
  <2>4. ASSUME NEW n \in Names \cup {NoName}, Forward(w, n) PROVE Kinds
    <3>1. wk[w].ses \in SessionIDs
      BY <2>4 DEF Forward, RefersToBorn
    <3>2. CASE conn[wk[w].ses] = "nil"
      BY <3>2, <2>4, <1>1 DEF Forward, Kinds
    <3>3. CASE conn[wk[w].ses] # "nil"
      BY <3>1, <3>3, <2>4, <1>7 DEF Forward, Kinds
    <3> QED BY <3>2, <3>3
  <2> QED BY <2>1, <2>2, <2>3, <2>4, <1>10 DEF WorkerStep
<1>11. ASSUME NEW r \in Removers, RemovalStep(r) PROVE Kinds
  <2>1. ASSUME NEW a \in Addrs, RemoveAddr(r, a) PROVE Kinds
    <3>1. {table[a]} \ {None} \in SUBSET SessionIDs
      OBVIOUS
    <3> QED BY <3>1, <2>1, <1>4 DEF Kinds
  <2> QED BY <2>1, <1>5, <1>6, <1>9, <1>11 DEF RemovalStep, Kinds
<1>12. ASSUME NEW r \in Removers, CollectIdle(r) PROVE Kinds
  BY <1>12, <1>8 DEF CollectIdle, Kinds
<1>13. ASSUME NEW r \in Callers, NEW s \in SessionIDs, RemoveByID(r, s) PROVE Kinds
  <2>1. r \in Removers
    BY DEF Removers
  <2> QED BY <2>1, <1>13, <1>3 DEF RemoveByID, Caller, Kinds
<1>14. ASSUME NEW r \in Callers, NEW n \in Names, RemoveByPlayer(r, n) PROVE Kinds
  <2> DEFINE out == {s \in Entries : info[s].name = n}
  <2>1. r \in Removers /\ out \subseteq Entries /\ out \in SUBSET SessionIDs
    BY EntriesType DEF Removers
  <2> QED BY <2>1, <1>14, <1>3 DEF RemoveByPlayer, Caller, Kinds
<1>15. ASSUME NEW r \in Callers, NEW n \in Names, KickPlayer(r, n) PROVE Kinds
  <2>1. r \in Removers /\ Entries \in SUBSET SessionIDs
    BY EntriesType DEF Removers
  <2> QED BY <2>1, <1>15, <1>8 DEF KickPlayer, Kinds
<1>16. ASSUME StopSnapshot PROVE Kinds
  <2>1. Stopper \in Removers /\ Entries \in SUBSET SessionIDs
    BY EntriesType DEF Removers
  <2> QED BY <2>1, <1>16, <1>8 DEF StopSnapshot, Kinds
<1>17. ASSUME \/ StopBegin \/ StopCleaned \/ StopReturn \/ Tick
              \/ \E v \in Servers : StopListener(v)
              \/ \E w \in Workers, a \in Addrs : Receive(w, a)
              \/ \E s \in SessionIDs : ReceiverExit(s)
              \/ \E a \in Addrs : UpdateActivity(a)
              \/ UNCHANGED vars
       PROVE Kinds
  BY <1>17, <1>1 DEF StopBegin, StopCleaned, StopReturn, Tick, StopListener,
     Receive, ReceiverExit, UpdateActivity, vars, Kinds
<1>18. ASSUME NEW s \in SessionIDs, NEW n \in Names \cup {NoName}, FromRemote(s, n)
       PROVE Kinds
  BY <1>18, <1>7 DEF FromRemote, Kinds
<1> HIDE DEF TypeOK, Shape
<1> QED
  BY <1>10, <1>11, <1>12, <1>13, <1>14, <1>15, <1>16, <1>17, <1>18 DEF Next, StopStep

-----------------------------------------------------------------------------
(* References and custody are preserved.                                   *)

\* No step un-creates a session.
LEMMA BornStays ==
    ASSUME Shape, Kinds, NEW s \in SessionIDs, Born(s)
    PROVE  info'[s].addr # None
BY Actors DEF Kinds, Neutral, Opens, TakesOut, Closes, Ends, SameBorn, Born

\* A session stays filed under its own address.
LEMMA FiledStep == Shape /\ Kinds => FiledUnderAddr'
<1> SUFFICES ASSUME Shape, Kinds, NEW a \in Addrs, table'[a] # None
             PROVE  info'[table'[a]].addr = a
  BY DEF FiledUnderAddr
<1> USE Actors DEF Shape, TypeOK, RefersToBorn, FiledUnderAddr
<1>1. CASE Neutral
  BY <1>1 DEF Neutral, SameBorn
<1>2. ASSUME NEW b \in Addrs, NEW s \in SessionIDs, Opens(b, s)
      PROVE info'[table'[a]].addr = a
  BY <1>2 DEF Opens, Born
<1>3. ASSUME NEW r \in Removers, NEW out \in SUBSET SessionIDs, TakesOut(r, out)
      PROVE info'[table'[a]].addr = a
  BY <1>3 DEF TakesOut, SameBorn
<1>4. ASSUME NEW r \in Removers, NEW s \in SessionIDs, Closes(r, s)
      PROVE info'[table'[a]].addr = a
  BY <1>4 DEF Closes, SameBorn
<1>5. ASSUME NEW r \in Removers, Ends(r) PROVE info'[table'[a]].addr = a
  BY <1>5 DEF Ends, SameBorn
<1> QED BY <1>1, <1>2, <1>3, <1>4, <1>5 DEF Kinds

\* Goroutines keep referring to sessions that exist.
LEMMA RefersStep == Shape /\ [Next]_vars => RefersToBorn'
<1> SUFFICES ASSUME Shape, [Next]_vars PROVE RefersToBorn'
  OBVIOUS
<1> USE Actors
<1>k. Kinds
  BY StepKinds
<1>b. \A s \in SessionIDs : Born(s) => info'[s].addr # None
  BY <1>k, BornStays
<1>f. FiledUnderAddr'
  BY <1>k, FiledStep
<1>e. \A s \in Entries : s \in SessionIDs /\ Born(s)
  BY DEF Entries, Shape, RefersToBorn, FiledUnderAddr, Born, TypeOK
<1>1. ASSUME NEW w \in Workers
      PROVE /\ wk'[w].pc # "idle" => wk'[w].addr \in Addrs
            /\ wk'[w].pc \in {"lock", "setup", "forward", "fail"}
                  => wk'[w].ses \in SessionIDs /\ info'[wk'[w].ses].addr # None
  <2> DEFINE G == /\ wk'[w].pc # "idle" => wk'[w].addr \in Addrs
                  /\ wk'[w].pc \in {"lock", "setup", "forward", "fail"}
                        => wk'[w].ses \in SessionIDs /\ info'[wk'[w].ses].addr # None
  <2>0. /\ wk \in [Workers -> WorkerStates]
        /\ wk[w].pc # "idle" => wk[w].addr \in Addrs
        /\ wk[w].pc \in {"lock", "setup", "forward", "fail"}
              => wk[w].ses \in SessionIDs /\ Born(wk[w].ses)
    BY DEF Shape, RefersToBorn, TypeOK
  <2>1. CASE wk'[w] = wk[w]
    BY <2>0, <2>1, <1>b
  <2>2. ASSUME NEW a \in Addrs, Receive(w, a) PROVE G
    BY <2>0, <2>2 DEF Receive, Waiting, WorkerStates
  <2>3. ASSUME Lookup(w) PROVE G
    <3>1. CASE table[wk[w].addr] = None
      <4>1. wk' = [wk EXCEPT ![w].pc = "create"]
        BY <3>1, <2>3 DEF Lookup
      <4>2. wk'[w].pc = "create" /\ wk'[w].addr = wk[w].addr
        BY <4>1, <2>0 DEF WorkerStates
      <4> QED BY <4>2, <2>0, <2>3 DEF Lookup
    <3>2. CASE table[wk[w].addr] # None
      <4>1. GoOnWith(w, table[wk[w].addr], FALSE) /\ wk[w].addr \in Addrs
        BY <3>2, <2>0, <2>3 DEF Lookup
      <4>2. wk'[w].addr = wk[w].addr /\ wk'[w].ses = table[wk[w].addr]
        BY <4>1, <2>0 DEF GoOnWith, WorkerStates
      <4>3. table[wk[w].addr] \in Entries
        BY <3>2, <4>1 DEF Entries
      <4> QED BY <4>1, <4>2, <4>3, <1>e, <1>b
    <3> QED BY <3>1, <3>2
  <2>4. ASSUME FindAgain(w) PROVE G
    <3>1. GoOnWith(w, table[wk[w].addr], FALSE) /\ wk[w].addr \in Addrs
      BY <2>0, <2>4 DEF FindAgain
    <3>2. wk'[w].addr = wk[w].addr /\ wk'[w].ses = table[wk[w].addr]
      BY <3>1, <2>0 DEF GoOnWith, WorkerStates
    <3>3. table[wk[w].addr] \in Entries
      BY <2>4, <3>1 DEF Entries, FindAgain
    <3> QED BY <3>1, <3>2, <3>3, <1>e, <1>b
  <2>5. ASSUME NEW s \in SessionIDs, Create(w, s) PROVE G
    <3>1. wk[w].addr \in Addrs
      BY <2>0, <2>5 DEF Create
    <3>2. wk'[w].addr = wk[w].addr /\ wk'[w].ses = s
      BY <2>5, <2>0 DEF Create, GoOnWith, WorkerStates
    <3>3. info[s] \in Infos /\ info \in [SessionIDs -> Infos]
      BY DEF Shape, TypeOK
    <3>4. info'[s].addr = wk[w].addr
      BY <2>5, <3>3 DEF Create, Infos
    <3> QED BY <3>1, <3>2, <3>4
  <2>6. ASSUME LockForward(w) \/ SetupRemote(w) \/ SetupFails(w) PROVE G
    <3>1. wk[w].ses \in SessionIDs /\ Born(wk[w].ses) /\ wk[w].addr \in Addrs
      BY <2>0, <2>6 DEF LockForward, SetupRemote, SetupFails
    <3>2. wk'[w].addr = wk[w].addr /\ wk'[w].ses = wk[w].ses
      BY <2>0, <2>6 DEF LockForward, SetupRemote, SetupFails, WorkerStates
    <3> QED BY <3>1, <3>2, <1>b
  <2>7. ASSUME wk' = [wk EXCEPT ![w] = Waiting] PROVE G
    BY <2>0, <2>7, SMTT(30) DEF Waiting
  <2>8. ASSUME NEW u \in Workers, u # w,
               WorkerStep(u) \/ \E a \in Addrs : Receive(u, a)
        PROVE wk'[w] = wk[w]
    BY <2>0, <2>8 DEF WorkerStep, Receive, Lookup, FindAgain, GoOnWith, LockForward,
       SetupRemote, SetupFails, FailReturn, Create, Forward, Return
  <2>9. CASE WorkerStep(w) \/ \E a \in Addrs : Receive(w, a)
    BY <2>9, <2>2, <2>3, <2>4, <2>5, <2>6, <2>7 DEF WorkerStep, Forward, FailReturn, Return
  <2>10. CASE UNCHANGED wk
    BY <2>10, <2>1, SMTT(30)
  <2>11. \/ \E u \in Workers : WorkerStep(u) \/ \E a \in Addrs : Receive(u, a)
         \/ UNCHANGED wk
    BY ZenonT(60) DEF Next, vars, StopStep, RemovalStep, ReceiverExit, FromRemote,
       UpdateActivity, Tick, CollectIdle, RemoveByID, RemoveByPlayer, KickPlayer,
       ScanNext, RemoveAddr, CloseRemote, SessionEnd, StopBegin, StopListener,
       StopSnapshot, StopCleaned, StopReturn
  <2> QED BY <2>1, <2>8, <2>9, <2>10, <2>11
<1>2. ASSUME NEW r \in Removers, NEW s \in rm'[r].scan
      PROVE info'[s].addr # None
  <2>0. rm \in [Removers -> RemovalStates] /\ rm[r] \in RemovalStates
    BY DEF Shape, TypeOK
  <2>1. ASSUME rm'[r].scan \subseteq rm[r].scan \cup Entries
        PROVE info'[s].addr # None
    <3>1. s \in SessionIDs /\ Born(s)
      BY <2>1, <2>0, <1>2, <1>e DEF Shape, RefersToBorn, RemovalStates
    <3> QED BY <3>1, <1>b
  <2>2. rm'[r].scan \subseteq rm[r].scan \cup Entries
    <3>1. CASE rm'[r] = rm[r]
      BY <3>1
    <3>2. ASSUME NEW n \in Names, KickPlayer(r, n) PROVE rm'[r].scan = Entries
      BY <3>2, <2>0 DEF KickPlayer, RemovalStates
    <3>3. ASSUME r = Stopper, StopSnapshot PROVE rm'[r].scan = Entries
      BY <3>3, <2>0 DEF StopSnapshot, RemovalStates
    <3>4. ASSUME NEW z \in SessionIDs, ScanNext(r, z)
          PROVE rm'[r].scan = rm[r].scan \ {z}
      BY <3>4, <2>0 DEF ScanNext, RemovalStates
    <3>5. ASSUME NEW a \in Addrs, RemoveAddr(r, a) PROVE rm'[r].scan = rm[r].scan
      BY <3>5, <2>0 DEF RemoveAddr, RemovalStates
    <3>6. ASSUME NEW z \in SessionIDs, CloseRemote(r, z)
          PROVE rm'[r].scan = rm[r].scan
      BY <3>6, <2>0 DEF CloseRemote, RemovalStates
    <3>7. ASSUME SessionEnd(r) PROVE rm'[r].scan = rm[r].scan
      BY <3>7, <2>0 DEF SessionEnd, RemovalStates
    <3>8. ASSUME CollectIdle(r) PROVE rm'[r].scan = rm[r].scan
      BY <3>8, <2>0 DEF CollectIdle, RemovalStates
    <3>9. ASSUME NEW z \in SessionIDs, RemoveByID(r, z)
          PROVE rm'[r].scan = rm[r].scan
      BY <3>9, <2>0 DEF RemoveByID, RemovalStates
    <3>10. ASSUME NEW n \in Names, RemoveByPlayer(r, n)
           PROVE rm'[r].scan = rm[r].scan
      BY <3>10, <2>0 DEF RemoveByPlayer, RemovalStates
    <3>11. ASSUME r \in Workers, SetupFails(r) PROVE rm'[r].scan = rm[r].scan
      BY <3>11, <2>0 DEF SetupFails, RemovalStates
    <3>12. ASSUME NEW q \in Removers, q # r,
                  \/ RemovalStep(q) \/ CollectIdle(q)
                  \/ \E z \in SessionIDs : RemoveByID(q, z)
                  \/ \E n \in Names : RemoveByPlayer(q, n) \/ KickPlayer(q, n)
                  \/ SetupFails(q)
                  \/ q = Stopper /\ StopSnapshot
           PROVE rm'[r] = rm[r]
      BY <3>12, <2>0, ZenonT(60) DEF RemovalStep, ScanNext, RemoveAddr, CloseRemote, SessionEnd,
         CollectIdle, RemoveByID, RemoveByPlayer, KickPlayer, SetupFails, StopSnapshot
    <3>13. CASE UNCHANGED rm
      BY <3>13, <3>1
    <3>14. \/ \E q \in Removers :
                \/ RemovalStep(q) \/ CollectIdle(q)
                \/ q \in Callers /\ \E z \in SessionIDs : RemoveByID(q, z)
                \/ q \in Callers /\ \E n \in Names : RemoveByPlayer(q, n) \/ KickPlayer(q, n)
                \/ q \in Workers /\ SetupFails(q)
                \/ q = Stopper /\ StopSnapshot
           \/ UNCHANGED rm
      BY DEF Next, vars, StopStep, WorkerStep, Receive, Lookup, FindAgain, LockForward,
         SetupRemote, FailReturn, Create, Forward, ReceiverExit, FromRemote,
         UpdateActivity, Tick, StopBegin, StopListener, StopCleaned, StopReturn, Removers
    <3> QED
      BY <3>1, <3>2, <3>3, <3>4, <3>5, <3>6, <3>7, <3>8, <3>9, <3>10, <3>11, <3>12,
         <3>13, <3>14 DEF RemovalStep
  <2> QED BY <2>1, <2>2
<1> QED BY <1>1, <1>2, <1>f DEF RefersToBorn, Born

\* The initial state: NewSessionManager starts empty.
LEMMA ShapeInit == Init => Shape
BY Actors DEF Init, Shape, TypeOK, RefersToBorn, FiledUnderAddr, Unborn, Waiting, Quiet,
   Infos, WorkerStates, RemovalStates

\* Every variable keeps its type in every behaviour of the session layer,
\* and no goroutine ever refers to a session that does not exist.
THEOREM TypeCorrect == Spec => []TypeOK
<1>1. Shape /\ [Next]_vars => Shape'
  BY TypeStep, RefersStep DEF Shape
<1>2. Shape => TypeOK
  BY DEF Shape
<1> QED BY <1>1, <1>2, ShapeInit, PTL DEF Spec

-----------------------------------------------------------------------------
(* Custody, part by part.                                                  *)

\* What r holds after the step.
HoldsNext(r, s) == s \in rm'[r].pend \/ rm'[r].cur = s

LiveNext(s) == \E a \in Addrs : table'[a] = s

\* How each kind of step changes who holds what.
LEMMA HoldsChange ==
    ASSUME Shape, Custody
    PROVE  /\ Neutral \/ (\E a \in Addrs, s \in SessionIDs : Opens(a, s))
                 => \A q \in Removers, s \in SessionIDs :
                        HoldsNext(q, s) <=> Holds(q, s)
           /\ \A r \in Removers, out \in SUBSET SessionIDs : TakesOut(r, out)
                 => \A q \in Removers, s \in SessionIDs :
                        HoldsNext(q, s) <=> IF q = r THEN s \in out ELSE Holds(q, s)
           /\ \A r \in Removers, z \in SessionIDs : Closes(r, z)
                 => \A q \in Removers, s \in SessionIDs :
                        HoldsNext(q, s) <=> Holds(q, s)
           /\ \A r \in Removers : Ends(r)
                 => \A q \in Removers, s \in SessionIDs :
                        HoldsNext(q, s) <=> Holds(q, s) /\ ~(q = r /\ s = rm[r].cur)
<1> USE Actors
<1>1. ASSUME Neutral \/ (\E a \in Addrs, s \in SessionIDs : Opens(a, s)),
             NEW q \in Removers, NEW s \in SessionIDs
      PROVE HoldsNext(q, s) <=> Holds(q, s)
  BY <1>1 DEF Neutral, Opens, SameHeld, HoldsNext, Holds
<1>2. ASSUME NEW r \in Removers, NEW out \in SUBSET SessionIDs, TakesOut(r, out),
             NEW q \in Removers, NEW s \in SessionIDs
      PROVE HoldsNext(q, s) <=> IF q = r THEN s \in out ELSE Holds(q, s)
  BY <1>2 DEF TakesOut, SameHeld, HoldsNext, Holds
<1>3. ASSUME NEW r \in Removers, NEW z \in SessionIDs, Closes(r, z),
             NEW q \in Removers, NEW s \in SessionIDs
      PROVE HoldsNext(q, s) <=> Holds(q, s)
  BY <1>3 DEF Closes, SameHeld, HoldsNext, Holds
<1>4. ASSUME NEW r \in Removers, Ends(r), NEW q \in Removers, NEW s \in SessionIDs
      PROVE HoldsNext(q, s) <=> Holds(q, s) /\ ~(q = r /\ s = rm[r].cur)
  <2>1. rm[r].cur \notin rm[r].pend
    BY DEF Custody, OneHolder
  <2> QED BY <1>4, <2>1 DEF Ends, SameHeld, HoldsNext, Holds
<1> QED BY <1>1, <1>2, <1>3, <1>4

\* How each kind of step changes which sessions are live.
LEMMA LiveChange ==
    ASSUME Shape
    PROVE  /\ Neutral \/ (\E r \in Removers : Ends(r))
                 \/ (\E r \in Removers, z \in SessionIDs : Closes(r, z))
                 => \A s \in SessionIDs : LiveNext(s) <=> Live(s)
           /\ \A a \in Addrs, z \in SessionIDs : Opens(a, z)
                 => \A s \in SessionIDs : LiveNext(s) <=> Live(s) \/ s = z
           /\ \A r \in Removers, out \in SUBSET SessionIDs : TakesOut(r, out)
                 => \A s \in SessionIDs : LiveNext(s) <=> Live(s) /\ s \notin out
<1> USE Actors DEF Shape, TypeOK
<1>1. ASSUME table' = table, NEW s \in SessionIDs PROVE LiveNext(s) <=> Live(s)
  BY <1>1 DEF LiveNext, Live
<1>2. ASSUME NEW a \in Addrs, NEW z \in SessionIDs, Opens(a, z), NEW s \in SessionIDs
      PROVE LiveNext(s) <=> Live(s) \/ s = z
  <2>1. table[a] = None /\ table' = [table EXCEPT ![a] = z]
    BY <1>2 DEF Opens
  <2>2. ASSUME Live(s) PROVE LiveNext(s)
    BY <2>1, <2>2 DEF LiveNext, Live
  <2>3. LiveNext(z)
    BY <2>1 DEF LiveNext
  <2>4. ASSUME LiveNext(s), s # z PROVE Live(s)
    BY <2>1, <2>4 DEF LiveNext, Live
  <2> QED BY <2>2, <2>3, <2>4
<1>3. ASSUME NEW r \in Removers, NEW out \in SUBSET SessionIDs, TakesOut(r, out),
             NEW s \in SessionIDs
      PROVE LiveNext(s) <=> Live(s) /\ s \notin out
  BY <1>3 DEF TakesOut, LiveNext, Live
<1> QED BY <1>1, <1>2, <1>3 DEF Neutral, Ends, Closes

\* How each kind of step changes which sessions were created.
LEMMA BornChange ==
    ASSUME Shape
    PROVE  /\ SameBorn => \A s \in SessionIDs : info'[s].addr # None <=> Born(s)
           /\ \A a \in Addrs, z \in SessionIDs : Opens(a, z)
                 => \A s \in SessionIDs : info'[s].addr # None <=> Born(s) \/ s = z
BY Actors DEF SameBorn, Opens, Born

\* Custody stays exact: one step per kind.
LEMMA CustodyStep == Shape /\ Custody /\ Kinds => Custody'
<1> SUFFICES ASSUME Shape, Custody, Kinds PROVE Custody'
  OBVIOUS
<1>f. FiledUnderAddr'
  BY FiledStep
<1> DEFINE Unheld(s) == \A r \in Removers : ~HoldsNext(r, s)
<1> DEFINE Goal(s) ==
      /\ \A r \in Removers : HoldsNext(r, s)
            => info'[s].addr # None /\ ~LiveNext(s) /\ ended'[s] = 0
      /\ \A r, q \in Removers : HoldsNext(r, s) /\ HoldsNext(q, s) => r = q
      /\ ended'[s] > 0 => ended'[s] = 1 /\ info'[s].addr # None /\ ~LiveNext(s)
      /\ info'[s].addr # None /\ ~LiveNext(s) /\ ended'[s] = 0
            => \E r \in Removers : HoldsNext(r, s)
<1>0. ASSUME NEW s \in SessionIDs
      PROVE /\ \A r \in Removers : Holds(r, s) => Born(s) /\ ~Live(s) /\ ended[s] = 0
            /\ \A r, q \in Removers : Holds(r, s) /\ Holds(q, s) => r = q
            /\ ended[s] > 0 => ended[s] = 1 /\ Born(s) /\ ~Live(s)
            /\ Born(s) /\ ~Live(s) /\ ended[s] = 0 => \E r \in Removers : Holds(r, s)
            /\ ended[s] \in Nat
            /\ Live(s) => Born(s)
  BY Actors DEF Custody, HeldIsRemoved, OneHolder, EndedOnce, NothingLost, Shape,
     TypeOK, FiledUnderAddr, Live, Born
<1>1. ASSUME Neutral, NEW s \in SessionIDs PROVE Goal(s)
  <2>1. ended' = ended /\ SameBorn
    BY <1>1 DEF Neutral
  <2> QED BY <2>1, <1>1, <1>0, HoldsChange, LiveChange, BornChange
<1>2. ASSUME NEW a \in Addrs, NEW z \in SessionIDs, Opens(a, z), NEW s \in SessionIDs
      PROVE Goal(s)
  <2>1. ended' = ended /\ ~Born(z)
    BY <1>2 DEF Opens
  <2>2. \A q \in Removers : HoldsNext(q, s) <=> Holds(q, s)
    BY <1>2, HoldsChange
  <2>3. LiveNext(s) <=> Live(s) \/ s = z
    BY <1>2, LiveChange
  <2>4. info'[s].addr # None <=> Born(s) \/ s = z
    BY <1>2, BornChange
  <2> QED BY <2>1, <2>2, <2>3, <2>4, <1>0
<1>3. ASSUME NEW p \in Removers, NEW out \in SUBSET SessionIDs, TakesOut(p, out),
             NEW s \in SessionIDs
      PROVE Goal(s)
  <2>1. ended' = ended /\ SameBorn /\ (s \in out => Live(s))
    BY <1>3 DEF TakesOut, Entries, Live
  <2>2. \A q \in Removers :
          HoldsNext(q, s) <=> IF q = p THEN s \in out ELSE Holds(q, s)
    BY <1>3, HoldsChange
  <2>3. LiveNext(s) <=> Live(s) /\ s \notin out
    BY <1>3, LiveChange
  <2>4. info'[s].addr # None <=> Born(s)
    BY <2>1, BornChange
  <2>5. ~Holds(p, s)
    BY <1>3, Actors DEF TakesOut, Holds
  <2> QED BY <2>1, <2>2, <2>3, <2>4, <2>5, <1>0
<1>4. ASSUME NEW p \in Removers, NEW z \in SessionIDs, Closes(p, z),
             NEW s \in SessionIDs
      PROVE Goal(s)
  <2>1. ended' = ended /\ SameBorn
    BY <1>4 DEF Closes
  <2>2. \A q \in Removers : HoldsNext(q, s) <=> Holds(q, s)
    BY <1>4, HoldsChange
  <2>3. LiveNext(s) <=> Live(s)
    BY <1>4, LiveChange
  <2>4. info'[s].addr # None <=> Born(s)
    BY <2>1, BornChange
  <2> QED BY <2>1, <2>2, <2>3, <2>4, <1>0
<1>5. ASSUME NEW p \in Removers, Ends(p), NEW s \in SessionIDs PROVE Goal(s)
  <2>1. SameBorn /\ rm[p].cur \in SessionIDs
        /\ ended' = [ended EXCEPT ![rm[p].cur] = @ + 1]
    BY <1>5 DEF Ends
  <2>2. \A q \in Removers :
          HoldsNext(q, s) <=> Holds(q, s) /\ ~(q = p /\ s = rm[p].cur)
    BY <1>5, HoldsChange
  <2>3. LiveNext(s) <=> Live(s)
    BY <1>5, LiveChange
  <2>4. info'[s].addr # None <=> Born(s)
    BY <2>1, BornChange
  <2>5. CASE s = rm[p].cur
    <3>1. Holds(p, s)
      BY <2>5 DEF Holds
    <3>2. ended[s] = 0 /\ Born(s) /\ ~Live(s) /\ \A q \in Removers : ~HoldsNext(q, s)
      BY <3>1, <2>2, <2>5, <1>0
    <3>3. ended'[s] = 1
      BY <3>2, <2>1, <2>5 DEF Shape, TypeOK
    <3> QED BY <3>2, <3>3, <2>3, <2>4
  <2>6. CASE s # rm[p].cur
    <3>1. ended'[s] = ended[s]
      BY <2>1, <2>6 DEF Shape, TypeOK
    <3>2. \A q \in Removers : HoldsNext(q, s) <=> Holds(q, s)
      BY <2>2, <2>6
    <3> QED BY <3>1, <3>2, <2>3, <2>4, <1>0
  <2> QED BY <2>5, <2>6
<1>6. \A s \in SessionIDs : Goal(s)
  BY <1>1, <1>2, <1>3, <1>4, <1>5 DEF Kinds
<1>7. \A r \in Removers : rm'[r].cur \notin rm'[r].pend
  <2>1. \A r \in Removers : rm[r].cur \notin rm[r].pend
    BY DEF Custody, OneHolder
  <2>2. \A r \in Removers : rm[r].pend \subseteq SessionIDs
    BY DEF Shape, TypeOK, RemovalStates
  <2> QED BY <2>1, <2>2, Actors DEF Kinds, Neutral, Opens, TakesOut, Closes, Ends, SameHeld
<1> QED
  BY <1>f, <1>6, <1>7 DEF Custody, HeldIsRemoved, OneHolder, EndedOnce, NothingLost,
     Holds, HoldsNext, Live, LiveNext, Born

\* Nothing is live, held or ended at the start.
LEMMA CustodyInit == Init => Custody
BY Actors DEF Init, Custody, FiledUnderAddr, HeldIsRemoved, OneHolder, EndedOnce,
   NothingLost, Holds, Live, Born, Unborn, Quiet

(***************************************************************************)
(* Exactly-once custody, for every number of clients, sessions, workers    *)
(* and removers: a session is in the table under its own address, or held  *)
(* by exactly one remover, or has been handed to OnSessionEnd once.        *)
(***************************************************************************)
THEOREM CustodyHolds == Spec => []Custody
<1>1. Shape /\ Custody /\ [Next]_vars => (Shape /\ Custody)'
  BY TypeStep, RefersStep, StepKinds, CustodyStep DEF Shape
<1>2. Init => Shape /\ Custody
  BY ShapeInit, CustodyInit
<1> QED BY <1>1, <1>2, PTL DEF Spec

-----------------------------------------------------------------------------
(* The manager implements SessionLife.                                     *)

Leaving == {s \in SessionIDs : \E r \in Removers : Holds(r, s)}

LeavingNext == {s \in SessionIDs : \E r \in Removers : HoldsNext(r, s)}

\* Every step of the manager is a step of SessionLife or leaves it unchanged.
LEMMA LifeStep ==
    Shape /\ Custody /\ Kinds => [Life!Next]_(Life!vars)
<1> SUFFICES ASSUME Shape, Custody, Kinds PROVE [Life!Next]_(Life!vars)
  OBVIOUS
<1>0. Leaving' = LeavingNext
  BY DEF Leaving, LeavingNext, Holds, HoldsNext
<1>1. ASSUME table' = table, ended' = ended, LeavingNext = Leaving
      PROVE UNCHANGED Life!vars
  BY <1>0, <1>1 DEF Life!vars, Leaving
<1>2. CASE Neutral
  <2>1. \A q \in Removers, s \in SessionIDs : HoldsNext(q, s) <=> Holds(q, s)
    BY <1>2, HoldsChange
  <2>2. LeavingNext = Leaving
    BY <2>1 DEF LeavingNext, Leaving
  <2> QED BY <2>2, <1>1, <1>2 DEF Neutral
<1>3. ASSUME NEW r \in Removers, NEW z \in SessionIDs, Closes(r, z)
      PROVE UNCHANGED Life!vars
  <2>1. \A q \in Removers, s \in SessionIDs : HoldsNext(q, s) <=> Holds(q, s)
    BY <1>3, HoldsChange
  <2>2. LeavingNext = Leaving
    BY <2>1 DEF LeavingNext, Leaving
  <2> QED BY <2>2, <1>1, <1>3 DEF Closes
<1>4. ASSUME NEW a \in Addrs, NEW s \in SessionIDs, Opens(a, s) PROVE Life!Open(a, s)
  <2>1. \A q \in Removers, z \in SessionIDs : HoldsNext(q, z) <=> Holds(q, z)
    BY <1>4, HoldsChange
  <2>2. Leaving' = Leaving
    BY <2>1, <1>0 DEF LeavingNext, Leaving
  <2>3. ~Born(s) /\ table[a] = None /\ table' = [table EXCEPT ![a] = s]
        /\ ended' = ended
    BY <1>4 DEF Opens
  <2>4. \A b \in Addrs : table[b] # s
    BY <2>3, Actors DEF Shape, RefersToBorn, FiledUnderAddr, Born
  <2>5. s \notin Leaving
    BY <2>3 DEF Leaving, Custody, HeldIsRemoved
  <2>6. ended[s] = 0
    BY <2>3 DEF Custody, EndedOnce, Shape, TypeOK
  <2> QED BY <2>2, <2>3, <2>4, <2>5, <2>6 DEF Life!Open, Life!Fresh, Leaving
<1>5. ASSUME NEW r \in Removers, NEW out \in SUBSET SessionIDs, TakesOut(r, out)
      PROVE Life!Leave(out)
  <2>1. \A q \in Removers, s \in SessionIDs :
          HoldsNext(q, s) <=> IF q = r THEN s \in out ELSE Holds(q, s)
    BY <1>5, HoldsChange
  <2>2. \A s \in SessionIDs : ~Holds(r, s)
    BY <1>5, Actors DEF TakesOut, Holds
  <2>3. LeavingNext = Leaving \cup out
    BY <2>1, <2>2 DEF LeavingNext, Leaving
  <2>4. Leaving' = Leaving \cup out
    BY <2>3, <1>0
  <2> QED BY <2>4, <1>5 DEF TakesOut, Entries, Life!Leave, Leaving
<1>6. ASSUME NEW r \in Removers, Ends(r) PROVE Life!Finish(rm[r].cur)
  <2>1. rm[r].cur \in SessionIDs /\ table' = table
        /\ ended' = [ended EXCEPT ![rm[r].cur] = @ + 1]
    BY <1>6 DEF Ends
  <2>2. Holds(r, rm[r].cur)
    BY DEF Holds
  <2>3. \A q \in Removers : Holds(q, rm[r].cur) => q = r
    BY <2>1, <2>2 DEF Custody, OneHolder
  <2>4. \A q \in Removers, s \in SessionIDs :
          HoldsNext(q, s) <=> Holds(q, s) /\ ~(q = r /\ s = rm[r].cur)
    BY <1>6, HoldsChange
  <2>5. LeavingNext = Leaving \ {rm[r].cur}
    BY <2>3, <2>4 DEF LeavingNext, Leaving
  <2>6. rm[r].cur \in Leaving
    BY <2>1, <2>2 DEF Leaving
  <2> QED BY <2>1, <2>5, <2>6, <1>0 DEF Life!Finish, Leaving
<1> QED
  <2>1. CASE \E r \in Removers : Ends(r)
    BY <2>1, <1>6 DEF Life!Next, Ends
  <2> QED BY <2>1, <1>2, <1>3, <1>4, <1>5 DEF Kinds, Life!Next

\* The initial states map to initial states.
LEMMA LifeInit == Init => Life!Init
BY Actors DEF Init, Life!Init, Holds, Quiet

(***************************************************************************)
(* The session manager, with its races between removers, implements        *)
(* SessionLife: addresses have one session at a time, and every session    *)
(* is opened, leaves and is finished at most once, in that order.          *)
(***************************************************************************)
THEOREM ImplementsLife == Spec => LifeSpec
<1>1. Shape /\ Custody /\ [Next]_vars => (Shape /\ Custody)'
  BY TypeStep, RefersStep, StepKinds, CustodyStep DEF Shape
<1>2. Init => Shape /\ Custody
  BY ShapeInit, CustodyInit
<1>3. Shape /\ Custody /\ [Next]_vars => [Life!Next]_(Life!vars)
  BY StepKinds, LifeStep
<1> QED BY <1>1, <1>2, <1>3, LifeInit, PTL DEF Spec, LifeSpec, Life!Spec

-----------------------------------------------------------------------------
(* Only one worker dials.                                                  *)

\* Worker w created its session and has not dialled yet.
Dialling(w) == wk[w].pc \in {"lock", "setup"} /\ wk[w].new

(***************************************************************************)
(* The strengthening of DialsOnce: a session that was never created or has *)
(* a worker about to dial has no socket, that worker is the only one, and  *)
(* nobody but a creator reaches the dial.                                  *)
(***************************************************************************)
DialInv ==
    /\ \A s \in SessionIDs : ~Born(s) => conn[s] = "nil"
    /\ \A w \in Workers : Dialling(w) => conn[wk[w].ses] = "nil"
    /\ \A w \in Workers : wk[w].pc = "setup" => wk[w].new
    /\ \A w, u \in Workers :
         Dialling(w) /\ Dialling(u) /\ wk[w].ses = wk[u].ses => w = u

\* No step makes a second worker dial or dials over a socket.
LEMMA DialStep == Shape /\ DialInv /\ [Next]_vars => DialInv'
<1> SUFFICES ASSUME Shape, DialInv, [Next]_vars PROVE DialInv'
  OBVIOUS
<1> USE Actors
<1>k. Kinds
  BY StepKinds
<1>b. \A s \in SessionIDs : Born(s) => info'[s].addr # None
  BY <1>k, BornStays
<1>t. /\ wk \in [Workers -> WorkerStates]
      /\ conn \in [SessionIDs -> {"nil", "open", "closed"}]
      /\ info \in [SessionIDs -> Infos]
  BY DEF Shape, TypeOK
<1>r. \A w \in Workers : wk[w].pc \in {"lock", "setup", "forward", "fail"}
         => wk[w].ses \in SessionIDs /\ Born(wk[w].ses)
  BY DEF Shape, RefersToBorn
\* A step that dials nothing new and only lets workers advance or give up.
<1>1. ASSUME conn' = conn,
             \A w \in Workers :
               \/ wk'[w] = wk[w]
               \/ wk'[w].pc \notin {"lock", "setup"}
               \/ wk'[w].pc = "lock" /\ ~wk'[w].new
               \/ /\ wk'[w].pc = "setup" /\ wk[w].pc = "lock"
                  /\ wk'[w].new /\ wk[w].new /\ wk'[w].ses = wk[w].ses
      PROVE DialInv'
  <2>1. \A w \in Workers : (Dialling(w))' => Dialling(w) /\ wk'[w].ses = wk[w].ses
    BY <1>1 DEF Dialling
  <2>2. \A w \in Workers : wk'[w].pc = "setup" => wk'[w].new
    BY <1>1 DEF DialInv
  <2>3. \A s \in SessionIDs : info'[s].addr = None => conn'[s] = "nil"
    BY <1>1, <1>b DEF DialInv
  <2> QED BY <2>1, <2>2, <2>3, <1>1 DEF DialInv, Born
<1>2. CASE UNCHANGED <<wk, conn>>
  BY <1>2, <1>1
<1>3. ASSUME NEW w \in Workers, NEW a \in Addrs, Receive(w, a) PROVE DialInv'
  BY <1>3, <1>1, <1>t DEF Receive, Waiting
<1>4. ASSUME NEW w \in Workers, Lookup(w) PROVE DialInv'
  <2>1. CASE table[wk[w].addr] = None
    <3>1. wk' = [wk EXCEPT ![w].pc = "create"] /\ conn' = conn
      BY <2>1, <1>4 DEF Lookup
    <3>2. wk'[w].pc = "create" /\ \A u \in Workers \ {w} : wk'[u] = wk[u]
      BY <3>1, <1>t DEF WorkerStates
    <3> QED BY <3>1, <3>2, <1>1
  <2>2. CASE table[wk[w].addr] # None
    <3>1. GoOnWith(w, table[wk[w].addr], FALSE) /\ conn' = conn
      BY <2>2, <1>4 DEF Lookup
    <3>2. wk'[w].pc = "lock" /\ ~wk'[w].new /\ \A u \in Workers \ {w} : wk'[u] = wk[u]
      BY <3>1, <1>t DEF GoOnWith, WorkerStates
    <3> QED BY <3>1, <3>2, <1>1
  <2> QED BY <2>1, <2>2
<1>5. ASSUME NEW w \in Workers, FindAgain(w) PROVE DialInv'
  <2>1. wk'[w].pc = "lock" /\ ~wk'[w].new /\ \A u \in Workers \ {w} : wk'[u] = wk[u]
    BY <1>5, <1>t DEF FindAgain, GoOnWith, WorkerStates
  <2> QED BY <2>1, <1>5, <1>1 DEF FindAgain
<1>6. ASSUME NEW w \in Workers, NEW s \in SessionIDs, Create(w, s) PROVE DialInv'
  <2>1. wk'[w].pc = "lock" /\ wk'[w].ses = s /\ \A u \in Workers \ {w} : wk'[u] = wk[u]
    BY <1>6, <1>t DEF Create, GoOnWith, WorkerStates
  <2>2. conn' = conn /\ conn[s] = "nil" /\ ~Born(s)
    BY <1>6 DEF Create, DialInv
  <2>3. \A u \in Workers \ {w} : (Dialling(u))' <=> Dialling(u)
    BY <2>1 DEF Dialling
  <2>4. \A u \in Workers : Dialling(u) => wk[u].ses # s
    BY <1>r, <2>2 DEF Dialling
  <2>5. \A z \in SessionIDs : info'[z].addr = None => conn'[z] = "nil"
    BY <2>2, <1>b DEF DialInv
  <2>6. \A u \in Workers : (Dialling(u))' => conn'[wk'[u].ses] = "nil"
    BY <2>1, <2>2, <2>3 DEF DialInv
  <2>7. \A u \in Workers : wk'[u].pc = "setup" => wk'[u].new
    BY <2>1 DEF DialInv
  <2>8. \A u, v \in Workers :
          (Dialling(u))' /\ (Dialling(v))' /\ wk'[u].ses = wk'[v].ses => u = v
    BY <2>1, <2>3, <2>4 DEF DialInv
  <2> QED BY <2>5, <2>6, <2>7, <2>8 DEF DialInv, Born
<1>7. ASSUME NEW w \in Workers, LockForward(w) PROVE DialInv'
  <2>1. /\ wk'[w].pc = IF wk[w].new THEN "setup" ELSE "forward"
        /\ wk'[w].new = wk[w].new /\ wk'[w].ses = wk[w].ses
        /\ \A u \in Workers \ {w} : wk'[u] = wk[u]
    BY <1>7, <1>t DEF LockForward, WorkerStates
  <2> QED BY <2>1, <1>7, <1>1 DEF LockForward
<1>8. ASSUME NEW w \in Workers, SetupRemote(w) PROVE DialInv'
  <2>1. wk[w].ses \in SessionIDs /\ Born(wk[w].ses) /\ Dialling(w)
    BY <1>8, <1>r DEF SetupRemote, DialInv, Dialling
  <2>2. wk'[w].pc = "forward" /\ \A u \in Workers \ {w} : wk'[u] = wk[u]
    BY <1>8, <1>t DEF SetupRemote, WorkerStates
  <2>3. \A z \in SessionIDs \ {wk[w].ses} : conn'[z] = conn[z]
    BY <1>8, <1>t DEF SetupRemote
  <2>4. \A u \in Workers : (Dialling(u))' => u # w /\ Dialling(u) /\ wk'[u].ses = wk[u].ses
    BY <2>2 DEF Dialling
  <2>5. \A u \in Workers : Dialling(u) /\ u # w => wk[u].ses # wk[w].ses
    BY <2>1 DEF DialInv
  <2>6. \A u \in Workers : (Dialling(u))' => conn'[wk'[u].ses] = "nil"
    BY <2>3, <2>4, <2>5, <1>r DEF DialInv, Dialling
  <2>7. \A z \in SessionIDs : info'[z].addr = None => conn'[z] = "nil"
    BY <2>1, <2>3, <1>b DEF DialInv
  <2>8. \A u \in Workers : wk'[u].pc = "setup" => wk'[u].new
    BY <2>2 DEF DialInv
  <2>9. \A u, v \in Workers :
          (Dialling(u))' /\ (Dialling(v))' /\ wk'[u].ses = wk'[v].ses => u = v
    BY <2>4 DEF DialInv
  <2> QED BY <2>6, <2>7, <2>8, <2>9 DEF DialInv, Born
<1>9. ASSUME NEW w \in Workers, SetupFails(w) PROVE DialInv'
  <2>1. wk'[w].pc = "fail" /\ \A u \in Workers \ {w} : wk'[u] = wk[u]
    BY <1>9, <1>t DEF SetupFails, WorkerStates
  <2> QED BY <2>1, <1>9, <1>1 DEF SetupFails
<1>10. ASSUME NEW w \in Workers, Return(w), conn' = conn PROVE DialInv'
  BY <1>10, <1>1, <1>t DEF Return, Waiting
<1>11. ASSUME NEW r \in Removers, NEW s \in SessionIDs, CloseRemote(r, s) PROVE DialInv'
  <2>1. wk' = wk /\ \A z \in SessionIDs : conn[z] = "nil" => conn'[z] = "nil"
    BY <1>11, <1>t DEF CloseRemote
  <2>2. \A z \in SessionIDs : info'[z].addr = None => conn'[z] = "nil"
    BY <2>1, <1>b DEF DialInv
  <2>3. \A u \in Workers : Dialling(u) => wk[u].ses \in SessionIDs
    BY <1>r DEF Dialling
  <2> QED BY <2>1, <2>2, <2>3 DEF DialInv, Dialling, Born
<1>12. CASE \/ UNCHANGED vars \/ Tick \/ StopBegin \/ StopStep
            \/ \E s \in SessionIDs : ReceiverExit(s)
            \/ \E s \in SessionIDs, n \in Names \cup {NoName} : FromRemote(s, n)
            \/ \E a \in Addrs : UpdateActivity(a)
            \/ \E r \in Removers : CollectIdle(r) \/ SessionEnd(r)
            \/ \E r \in Removers, s \in SessionIDs : ScanNext(r, s)
            \/ \E r \in Removers, a \in Addrs : RemoveAddr(r, a)
            \/ \E r \in Callers, s \in SessionIDs : RemoveByID(r, s)
            \/ \E r \in Callers, n \in Names : RemoveByPlayer(r, n) \/ KickPlayer(r, n)
  <2>1. UNCHANGED <<wk, conn>>
    BY <1>12 DEF vars, Tick, StopBegin, StopStep, StopSnapshot, StopCleaned, StopReturn,
       StopListener, ReceiverExit, FromRemote, UpdateActivity, CollectIdle, SessionEnd,
       ScanNext, RemoveAddr, RemoveByID, RemoveByPlayer, KickPlayer
  <2> QED BY <2>1, <1>2, SMTT(30)
<1> QED
  BY <1>3, <1>4, <1>5, <1>6, <1>7, <1>8, <1>9, <1>10, <1>11, <1>12
  DEF Next, WorkerStep, RemovalStep, Forward, FailReturn

\* For any number of workers, the worker that reaches setupRemoteConnection
\* is the session's creator, is alone, and finds RemoteConn nil.
THEOREM DialsOnceHolds == Spec => []DialsOnce
<1>1. Shape /\ DialInv /\ [Next]_vars => (Shape /\ DialInv)'
  BY TypeStep, RefersStep, DialStep DEF Shape
<1>2. Init => Shape /\ DialInv
  <2>1. Init => DialInv
    BY Actors DEF Init, DialInv, Dialling, Waiting
  <2> QED BY <2>1, ShapeInit
<1>3. DialInv => DialsOnce
  BY DEF DialInv, DialsOnce, Dialling
<1> QED BY <1>1, <1>2, <1>3, PTL DEF Spec
=============================================================================
