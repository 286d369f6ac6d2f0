--------------------------- MODULE SessionManager ---------------------------
(***************************************************************************)
(* internal/session.SessionManager together with everything that runs      *)
(* against it in transparent mode: the packet workers of the UDPListeners, *)
(* one receiveFromRemote goroutine per dialled session, the idle garbage   *)
(* collector, the API and KickPlayer callers, and ProxyServer.Stop.        *)
(*                                                                         *)
(* The table maps a client address to its live session.  Every removal is  *)
(* split where the code releases sm.mu: the session leaves the table under *)
(* the lock, then its RemoteConn is closed, then OnSessionEnd persists it. *)
(*                                                                         *)
(* Time is abstracted to the age of a live session's LastSeen, which Tick  *)
(* advances and traffic resets; it saturates one above every timeout, and  *)
(* is 0 once the session has left the table: nothing reads it from there.  *)
(* A packet that needs no session (ping, disabled server) changes nothing  *)
(* here and has no action.                                                 *)
(***************************************************************************)
EXTENDS Integers, FiniteSets

CONSTANTS
    Addrs,         \* client UDP addresses
    SessionIDs,    \* the uuids GetOrCreate may draw; also names the *Session
    Servers,       \* server ids, one UDPListener each
    Workers,       \* packet workers of all the listeners
    WorkerServer,  \* [Workers -> Servers]: the listener a worker belongs to
    Callers,       \* API handlers and other goroutines that remove sessions
    GC,            \* the GarbageCollectWithCancel goroutine
    Stopper,       \* the goroutine that runs ProxyServer.Stop
    StopAllowed,   \* is the proxy ever stopped in this instance?
    Names,         \* player display names, up to case
    NoName,        \* the empty display name
    None,          \* a nil session, worker or address
    DefaultIdle,   \* SessionManager.idleTimeout, in ticks
    ServerIdle     \* [Servers -> Nat]: the configured override, 0 for none

Removers == Workers \cup Callers \cup {GC, Stopper}

ASSUME Actors ==
    /\ Workers \cap Callers = {}
    /\ {GC, Stopper} \cap (Workers \cup Callers) = {}
    /\ GC # Stopper
    /\ None \notin Addrs \cup SessionIDs \cup Removers
    /\ NoName \notin Names
    /\ WorkerServer \in [Workers -> Servers]
    /\ StopAllowed \in BOOLEAN

ASSUME Timeouts == DefaultIdle \in Nat \ {0} /\ ServerIdle \in [Servers -> Nat]

VARIABLES
    table,   \* sm.sessions: [Addrs -> session or None]
    info,    \* the fields of a session set at creation or by SetPlayerInfo
    age,     \* time since Session.LastSeen of a live session
    conn,    \* Session.RemoteConn: "nil", "open" or "closed"
    recv,    \* is a receiveFromRemote goroutine running for the session?
    fwd,     \* Session.forwardMu: the worker that holds it
    wk,      \* what each packet worker is doing
    rm,      \* what each goroutine inside a removal still has to do
    ended,   \* number of OnSessionEnd calls made for a session
    closed,  \* UDPListener.closed of each server
    stop     \* progress of ProxyServer.Stop

vars == <<table, info, age, conn, recv, fwd, wk, rm, ended, closed, stop>>

-----------------------------------------------------------------------------
(* Session objects.                                                        *)

\* A session id that GetOrCreate has not drawn yet.
Unborn == [addr |-> None, server |-> None, name |-> NoName, kicked |-> FALSE]

Born(s) == info[s].addr # None

Live(s) == \E a \in Addrs : table[a] = s

\* Fault: a zero override is not replaced by the default.
IdleTimeoutNoFallback(s) == ServerIdle[info[s].server]

\* getIdleTimeout: the server's override when positive, else the default.
IdleTimeout(s) ==
    LET o == ServerIdle[info[s].server] IN IF o > 0 THEN o ELSE DefaultIdle

\* One tick beyond every timeout: a larger age is told apart by nothing.
MaxAge ==
    LET ts == {DefaultIdle} \cup {ServerIdle[v] : v \in Servers}
    IN  1 + CHOOSE m \in ts : \A t \in ts : t <= m

Idle(s) == IdleTimeout(s) > 0 /\ age[s] > IdleTimeout(s)

\* LoginExtracted is set by the first identity and guards all later ones.
Identified(s, n) ==
    [info EXCEPT ![s].name = IF @ = NoName THEN n ELSE @]

\* A remover with nothing left to do.
Quiet == [scan |-> {}, who |-> NoName, addrs |-> {}, pend |-> {}, cur |-> None]

\* A worker waiting for a packet.
Waiting == [pc |-> "idle", addr |-> None, ses |-> None, new |-> FALSE]

Infos == [addr : Addrs \cup {None}, server : Servers \cup {None},
          name : Names \cup {NoName}, kicked : BOOLEAN]

WorkerStates == [pc : {"idle", "lookup", "create", "lock", "setup", "forward",
                       "fail"},
                 addr : Addrs \cup {None},
                 ses : SessionIDs \cup {None},
                 new : BOOLEAN]

RemovalStates == [scan : SUBSET SessionIDs, who : Names \cup {NoName},
                  addrs : SUBSET Addrs, pend : SUBSET SessionIDs,
                  cur : SessionIDs \cup {None}]

TypeOK ==
    /\ table \in [Addrs -> SessionIDs \cup {None}]
    /\ info \in [SessionIDs -> Infos]
    /\ age \in [SessionIDs -> Nat]
    /\ conn \in [SessionIDs -> {"nil", "open", "closed"}]
    /\ recv \in [SessionIDs -> BOOLEAN]
    /\ fwd \in [SessionIDs -> Workers \cup {None}]
    /\ wk \in [Workers -> WorkerStates]
    /\ rm \in [Removers -> RemovalStates]
    /\ ended \in [SessionIDs -> Nat]
    /\ closed \in [Servers -> BOOLEAN]
    /\ stop \in {"running", "closing", "removing", "waiting", "stopped"}

Init ==
    /\ table = [a \in Addrs |-> None]
    /\ info = [s \in SessionIDs |-> Unborn]
    /\ age = [s \in SessionIDs |-> 0]
    /\ conn = [s \in SessionIDs |-> "nil"]
    /\ recv = [s \in SessionIDs |-> FALSE]
    /\ fwd = [s \in SessionIDs |-> None]
    /\ wk = [w \in Workers |-> Waiting]
    /\ rm = [r \in Removers |-> Quiet]
    /\ ended = [s \in SessionIDs |-> 0]
    /\ closed = [v \in Servers |-> FALSE]
    /\ stop = "running"

-----------------------------------------------------------------------------
(* UDPListener.handlePacket, one packet per worker at a time.              *)

\* The packet is taken off the socket and passes the closed check.
Receive(w, a) ==
    /\ wk[w].pc = "idle"
    /\ ~closed[WorkerServer[w]]
    /\ wk' = [wk EXCEPT ![w] = [Waiting EXCEPT !.pc = "lookup", !.addr = a]]
    /\ UNCHANGED <<table, info, age, conn, recv, fwd, rm, ended, closed, stop>>

\* The worker goes on with session s of its client, to take forwardMu next.
GoOnWith(w, s, isNew) ==
    wk' = [wk EXCEPT ![w] = [@ EXCEPT !.pc = "lock", !.ses = s, !.new = isNew]]

\* GetOrCreate, first look under the read lock.
Lookup(w) ==
    /\ wk[w].pc = "lookup"
    /\ LET s == table[wk[w].addr] IN
         IF s # None THEN GoOnWith(w, s, FALSE)
                     ELSE wk' = [wk EXCEPT ![w].pc = "create"]
    /\ UNCHANGED <<table, info, age, conn, recv, fwd, rm, ended, closed, stop>>

\* Fault: the worker that finds the session on its second look also dials.
FindAgainAsNew(w) ==
    /\ wk[w].pc = "create"
    /\ table[wk[w].addr] # None
    /\ GoOnWith(w, table[wk[w].addr], TRUE)
    /\ UNCHANGED <<table, info, age, conn, recv, fwd, rm, ended, closed, stop>>

\* GetOrCreate under the write lock: another worker may have been first.
FindAgain(w) ==
    /\ wk[w].pc = "create"
    /\ table[wk[w].addr] # None
    /\ GoOnWith(w, table[wk[w].addr], FALSE)
    /\ UNCHANGED <<table, info, age, conn, recv, fwd, rm, ended, closed, stop>>

\* Fault: no second look under the write lock.
CreateUnchecked(w, s) ==
    /\ wk[w].pc = "create"
    /\ ~Born(s)
    /\ table' = [table EXCEPT ![wk[w].addr] = s]
    /\ info' = [info EXCEPT ![s] = [@ EXCEPT !.addr = wk[w].addr,
                                             !.server = WorkerServer[w]]]
    /\ age' = [age EXCEPT ![s] = 0]
    /\ GoOnWith(w, s, TRUE)
    /\ UNCHANGED <<conn, recv, fwd, rm, ended, closed, stop>>

\* GetOrCreate stores a session with a uuid never used before.
Create(w, s) ==
    /\ wk[w].pc = "create"
    /\ table[wk[w].addr] = None
    /\ ~Born(s)
    /\ table' = [table EXCEPT ![wk[w].addr] = s]
    /\ info' = [info EXCEPT ![s] = [@ EXCEPT !.addr = wk[w].addr,
                                             !.server = WorkerServer[w]]]
    /\ age' = [age EXCEPT ![s] = 0]
    /\ GoOnWith(w, s, TRUE)
    /\ UNCHANGED <<conn, recv, fwd, rm, ended, closed, stop>>

\* sess.LockForward(): only the creator of the session dials.
LockForward(w) ==
    LET s == wk[w].ses IN
    /\ wk[w].pc = "lock"
    /\ fwd[s] = None
    /\ fwd' = [fwd EXCEPT ![s] = w]
    /\ wk' = [wk EXCEPT ![w].pc = IF wk[w].new THEN "setup" ELSE "forward"]
    /\ UNCHANGED <<table, info, age, conn, recv, rm, ended, closed, stop>>

\* setupRemoteConnection succeeds: the socket is stored in the session,
\* whether or not the session is still in the table, and a receiver starts.
SetupRemote(w) ==
    LET s == wk[w].ses IN
    /\ wk[w].pc = "setup"
    /\ conn' = [conn EXCEPT ![s] = "open"]
    /\ recv' = [recv EXCEPT ![s] = TRUE]
    /\ wk' = [wk EXCEPT ![w].pc = "forward"]
    /\ UNCHANGED <<table, info, age, fwd, rm, ended, closed, stop>>

\* setupRemoteConnection fails: handlePacket calls Remove(clientAddr).
SetupFails(w) ==
    /\ wk[w].pc = "setup"
    /\ wk' = [wk EXCEPT ![w].pc = "fail"]
    /\ rm' = [rm EXCEPT ![w].addrs = {wk[w].addr}]
    /\ UNCHANGED <<table, info, age, conn, recv, fwd, ended, closed, stop>>

\* Fault: an early return that skips UnlockForward.
ReturnLocked(w) == wk' = [wk EXCEPT ![w] = Waiting] /\ UNCHANGED fwd

\* handlePacket returns: the deferred UnlockForward runs.
Return(w) ==
    /\ fwd' = [fwd EXCEPT ![wk[w].ses] = None]
    /\ wk' = [wk EXCEPT ![w] = Waiting]

\* ForwardToRemote, with the identity n found in the packet, if any.  A
\* session whose RemoteConn is still nil drops the packet; a write to a
\* closed socket only fails.
Forward(w, n) ==
    LET s == wk[w].ses IN
    /\ wk[w].pc = "forward"
    /\ IF conn[s] = "nil"
       THEN UNCHANGED <<info, age>>
       ELSE age' = [age EXCEPT ![s] = 0] /\ info' = Identified(s, n)
    /\ Return(w)
    /\ UNCHANGED <<table, conn, recv, rm, ended, closed, stop>>

\* The failed worker returns once its Remove has returned.
FailReturn(w) ==
    /\ wk[w].pc = "fail"
    /\ rm[w] = Quiet
    /\ Return(w)
    /\ UNCHANGED <<table, info, age, conn, recv, rm, ended, closed, stop>>

-----------------------------------------------------------------------------
(* receiveFromRemote and the other sources of activity.                    *)

\* ForwardToClient: a packet from the remote server, with identity n if any.
FromRemote(s, n) ==
    /\ recv[s]
    /\ conn[s] = "open"
    /\ ~closed[info[s].server]
    /\ age' = [age EXCEPT ![s] = 0]
    /\ info' = Identified(s, n)
    /\ UNCHANGED <<table, conn, recv, fwd, wk, rm, ended, closed, stop>>

\* The receiver sees its listener or its socket closed.
ReceiverExit(s) ==
    /\ recv[s]
    /\ closed[info[s].server] \/ conn[s] = "closed"
    /\ recv' = [recv EXCEPT ![s] = FALSE]
    /\ UNCHANGED <<table, info, age, conn, fwd, wk, rm, ended, closed, stop>>

\* UpdateActivity(clientAddr).
UpdateActivity(a) ==
    /\ table[a] # None
    /\ age' = [age EXCEPT ![table[a]] = 0]
    /\ UNCHANGED <<table, info, conn, recv, fwd, wk, rm, ended, closed, stop>>

Tick ==
    /\ \E s \in SessionIDs : Live(s) /\ age[s] < MaxAge
    /\ age' = [s \in SessionIDs |->
                 IF Live(s) /\ age[s] < MaxAge THEN age[s] + 1 ELSE age[s]]
    /\ UNCHANGED <<table, info, conn, recv, fwd, wk, rm, ended, closed, stop>>

-----------------------------------------------------------------------------
(* Removal.  rm[r] holds what goroutine r has still to do, outermost loop  *)
(* first: sessions of a GetAllSessions snapshot to look at (scan), client  *)
(* addresses to Remove (addrs), sessions taken out of the table but not    *)
(* closed yet (pend), and the one closed but not yet persisted (cur).      *)

Entries == {table[a] : a \in Addrs} \ {None}

\* The sessions in out leave the table.
Delete(out) ==
    /\ table' = [a \in Addrs |-> IF table[a] \in out THEN None ELSE table[a]]
    /\ age' = [s \in SessionIDs |-> IF s \in out THEN 0 ELSE age[s]]

\* Callers of the removal operations: only while the process is not stopped.
Caller(r) == r \in Callers /\ rm[r] = Quiet /\ stop # "stopped"

\* Fault: the session found by its ID is not taken out of the map.
RemoveByIDNoDelete(r, s) ==
    /\ Caller(r)
    /\ s \in Entries
    /\ rm' = [rm EXCEPT ![r].pend = {s}]
    /\ UNCHANGED <<table, info, age, conn, recv, fwd, wk, ended, closed, stop>>

\* RemoveByID, from DELETE /api/sessions/:id.
RemoveByID(r, s) ==
    /\ Caller(r)
    /\ s \in Entries
    /\ Delete({s})
    /\ rm' = [rm EXCEPT ![r].pend = {s}]
    /\ UNCHANGED <<info, conn, recv, fwd, wk, ended, closed, stop>>

\* RemoveByPlayerName and RemoveByXUID, run when a player reconnects: every
\* session of the player leaves the table in one critical section.
RemoveByPlayer(r, n) ==
    LET out == {s \in Entries : info[s].name = n} IN
    /\ Caller(r)
    /\ out # {}
    /\ Delete(out)
    /\ rm' = [rm EXCEPT ![r].pend = out]
    /\ UNCHANGED <<info, conn, recv, fwd, wk, ended, closed, stop>>

\* cleanupIdleSessions, first pass: the addresses of the idle sessions are
\* collected under the read lock.  CleanupNow is the same for a caller.
CollectIdle(r) ==
    LET idle == {a \in Addrs : table[a] # None /\ Idle(table[a])} IN
    /\ \/ Caller(r)
       \/ r = GC /\ rm[r] = Quiet /\ stop = "running"
    /\ idle # {}
    /\ rm' = [rm EXCEPT ![r].addrs = idle]
    /\ UNCHANGED <<table, info, age, conn, recv, fwd, wk, ended, closed, stop>>

\* ProxyServer.KickPlayer takes a snapshot of all sessions.
KickPlayer(r, n) ==
    /\ Caller(r)
    /\ Entries # {}
    /\ rm' = [rm EXCEPT ![r] = [@ EXCEPT !.scan = Entries, !.who = n]]
    /\ UNCHANGED <<table, info, age, conn, recv, fwd, wk, ended, closed, stop>>

\* Fault: the session is marked as kicked but never removed.
ScanNextMarkOnly(r, s) ==
    /\ rm[r].addrs = {} /\ rm[r].pend = {} /\ rm[r].cur = None
    /\ s \in rm[r].scan
    /\ LET rest == rm[r].scan \ {s}
       IN  rm' = [rm EXCEPT ![r].scan = rest,
                            ![r].who = IF rest = {} THEN NoName ELSE @]
    /\ info' = [info EXCEPT ![s].kicked = @ \/ info[s].name = rm[r].who]
    /\ UNCHANGED <<table, age, conn, recv, fwd, wk, ended, closed, stop>>

\* One iteration over the snapshot.  KickPlayer marks the session and then
\* removes whatever is at its address; ProxyServer.Stop removes them all.
ScanNext(r, s) ==
    /\ rm[r].addrs = {} /\ rm[r].pend = {} /\ rm[r].cur = None
    /\ s \in rm[r].scan
    /\ LET hit == rm[r].who = NoName \/ info[s].name = rm[r].who
           rest == rm[r].scan \ {s}
       IN  /\ rm' = [rm EXCEPT ![r] =
                       [@ EXCEPT !.scan = rest,
                                 !.who = IF rest = {} THEN NoName ELSE rm[r].who,
                                 !.addrs = IF hit THEN {info[s].addr} ELSE {}]]
           /\ info' = [info EXCEPT ![s].kicked =
                         @ \/ (rm[r].who # NoName /\ hit)]
    /\ UNCHANGED <<table, age, conn, recv, fwd, wk, ended, closed, stop>>

\* Fault: no check that the address still has a session.
RemoveAddrUnchecked(r, a) ==
    /\ rm[r].pend = {} /\ rm[r].cur = None
    /\ a \in rm[r].addrs
    /\ rm' = [rm EXCEPT ![r].addrs = @ \ {a}, ![r].pend = {table[a]}]
    /\ Delete({table[a]} \ {None})
    /\ UNCHANGED <<info, conn, recv, fwd, wk, ended, closed, stop>>

\* Remove(clientAddr), critical section: whatever session is there goes.
RemoveAddr(r, a) ==
    /\ rm[r].pend = {} /\ rm[r].cur = None
    /\ a \in rm[r].addrs
    /\ rm' = [rm EXCEPT ![r] = [@ EXCEPT !.addrs = rm[r].addrs \ {a},
                                        !.pend = {table[a]} \ {None}]]
    /\ Delete({table[a]} \ {None})
    /\ UNCHANGED <<info, conn, recv, fwd, wk, ended, closed, stop>>

\* Fault: a session without RemoteConn returns early and is never persisted.
CloseRemoteEarlyReturn(r, s) ==
    /\ rm[r].cur = None
    /\ s \in rm[r].pend
    /\ conn' = [conn EXCEPT ![s] = IF @ = "open" THEN "closed" ELSE @]
    /\ rm' = [rm EXCEPT ![r].pend = @ \ {s},
                        ![r].cur = IF conn[s] = "nil" THEN None ELSE s]
    /\ UNCHANGED <<table, info, age, recv, fwd, wk, ended, closed, stop>>

\* After the lock is released: close the RemoteConn the session has by now.
CloseRemote(r, s) ==
    /\ rm[r].cur = None
    /\ s \in rm[r].pend
    /\ conn' = [conn EXCEPT ![s] = IF @ = "open" THEN "closed" ELSE @]
    /\ rm' = [rm EXCEPT ![r] = [@ EXCEPT !.pend = rm[r].pend \ {s}, !.cur = s]]
    /\ UNCHANGED <<table, info, age, recv, fwd, wk, ended, closed, stop>>

\* OnSessionEnd(session).
SessionEnd(r) ==
    /\ rm[r].cur # None
    /\ ended' = [ended EXCEPT ![rm[r].cur] = @ + 1]
    /\ rm' = [rm EXCEPT ![r].cur = None]
    /\ UNCHANGED <<table, info, age, conn, recv, fwd, wk, closed, stop>>

-----------------------------------------------------------------------------
(* ProxyServer.Stop.                                                       *)

StopBegin ==
    /\ StopAllowed
    /\ stop = "running"
    /\ stop' = "closing"
    /\ UNCHANGED <<table, info, age, conn, recv, fwd, wk, rm, ended, closed>>

StopListener(v) ==
    /\ stop = "closing"
    /\ ~closed[v]
    /\ closed' = [closed EXCEPT ![v] = TRUE]
    /\ UNCHANGED <<table, info, age, conn, recv, fwd, wk, rm, ended, stop>>

\* All listeners closed: snapshot the sessions to remove and persist.
StopSnapshot ==
    /\ stop = "closing"
    /\ \A v \in Servers : closed[v]
    /\ stop' = "removing"
    /\ rm' = [rm EXCEPT ![Stopper].scan = Entries]
    /\ UNCHANGED <<table, info, age, conn, recv, fwd, wk, ended, closed>>

\* The loop over the snapshot is over: only then wg.Wait().
StopCleaned ==
    /\ stop = "removing"
    /\ rm[Stopper] = Quiet
    /\ stop' = "waiting"
    /\ UNCHANGED <<table, info, age, conn, recv, fwd, wk, rm, ended, closed>>

\* wg.Wait() returns: the workers and the garbage collector have returned.
StopReturn ==
    /\ stop = "waiting"
    /\ \A w \in Workers : wk[w].pc = "idle"
    /\ rm[GC] = Quiet
    /\ stop' = "stopped"
    /\ UNCHANGED <<table, info, age, conn, recv, fwd, wk, rm, ended, closed>>

-----------------------------------------------------------------------------
WorkerStep(w) ==
    \/ Lookup(w) \/ FindAgain(w) \/ LockForward(w) \/ SetupRemote(w)
    \/ SetupFails(w) \/ FailReturn(w)
    \/ \E s \in SessionIDs : Create(w, s)
    \/ \E n \in Names \cup {NoName} : Forward(w, n)

RemovalStep(r) ==
    \/ \E s \in SessionIDs : ScanNext(r, s) \/ CloseRemote(r, s)
    \/ \E a \in Addrs : RemoveAddr(r, a)
    \/ SessionEnd(r)

StopStep ==
    \/ StopSnapshot \/ StopCleaned \/ StopReturn
    \/ \E v \in Servers : StopListener(v)

Next ==
    \/ \E w \in Workers : WorkerStep(w) \/ \E a \in Addrs : Receive(w, a)
    \/ \E s \in SessionIDs : ReceiverExit(s)
    \/ \E s \in SessionIDs, n \in Names \cup {NoName} : FromRemote(s, n)
    \/ \E a \in Addrs : UpdateActivity(a)
    \/ Tick
    \/ \E r \in Removers : RemovalStep(r) \/ CollectIdle(r)
    \/ \E r \in Callers, s \in SessionIDs : RemoveByID(r, s)
    \/ \E r \in Callers, n \in Names : RemoveByPlayer(r, n) \/ KickPlayer(r, n)
    \/ StopBegin
    \/ StopStep

Spec == Init /\ [][Next]_vars

(***************************************************************************)
(* Fairness.  Goroutines that can run do run, so each continues the call   *)
(* it is in; the garbage collector's ticker fires for ever; the clock      *)
(* advances.  Nothing obliges a client to send, a remote to answer, an     *)
(* operator to kick or to stop.                                            *)
(***************************************************************************)
FairSpec ==
    /\ Spec
    /\ \A w \in Workers : WF_vars(WorkerStep(w))
    /\ \A r \in Removers : WF_vars(RemovalStep(r))
    /\ \A s \in SessionIDs : WF_vars(ReceiverExit(s))
    /\ WF_vars(CollectIdle(GC))
    /\ WF_vars(Tick)
    /\ WF_vars(StopStep)

-----------------------------------------------------------------------------
(* Properties.                                                             *)

\* Goroutine r has session s out of the table and has yet to end it.
Holds(r, s) == s \in rm[r].pend \/ rm[r].cur = s

(***************************************************************************)
(* Exactly-once custody.  Removals race from the garbage collector, the    *)
(* API, KickPlayer, failing workers and Stop; still a session is, from its *)
(* creation on, in exactly one of three places: in the table, under its    *)
(* own address and not ended; in the hands of exactly one remover, not     *)
(* ended; or ended exactly once.  A session persisted twice would count    *)
(* its traffic and play time twice.                                        *)
(***************************************************************************)
FiledUnderAddr == \A a \in Addrs : table[a] # None => info[table[a]].addr = a

HeldIsRemoved ==
    \A r \in Removers, s \in SessionIDs :
        Holds(r, s) => Born(s) /\ ~Live(s) /\ ended[s] = 0

OneHolder ==
    /\ \A r, q \in Removers, s \in SessionIDs :
          Holds(r, s) /\ Holds(q, s) => r = q
    /\ \A r \in Removers : rm[r].cur \notin rm[r].pend

EndedOnce ==
    \A s \in SessionIDs :
        ended[s] > 0 => ended[s] = 1 /\ Born(s) /\ ~Live(s)

NothingLost ==
    \A s \in SessionIDs :
        Born(s) /\ ~Live(s) /\ ended[s] = 0 => \E r \in Removers : Holds(r, s)

Custody ==
    /\ FiledUnderAddr
    /\ HeldIsRemoved
    /\ OneHolder
    /\ EndedOnce
    /\ NothingLost

(***************************************************************************)
(* A worker about to run setupRemoteConnection finds RemoteConn nil: two   *)
(* workers handling packets of one client never both dial, so no socket    *)
(* and no receiver is overwritten and leaked by a second dial.             *)
(***************************************************************************)
DialsOnce == \A w \in Workers : wk[w].pc = "setup" => conn[wk[w].ses] = "nil"

(***************************************************************************)
(* Every session ends, and is known to have ended (OnSessionEnd), or stays *)
(* in the table because its client is heard from and nobody kicked it: a   *)
(* silent one is reaped, whether its server has an idle_timeout of its own *)
(* or not, a kicked one leaves, and a removal that has begun is completed. *)
(* After Stop has begun the collector may already have returned.           *)
(***************************************************************************)
SessionsEnd ==
    \A s \in SessionIDs :
        []<>(Born(s) =>
               \/ ended[s] > 0
               \/ Live(s) /\ ~info[s].kicked /\ (age[s] < MaxAge \/ stop # "running"))

\* ProxyServer.Stop returns: no worker, lock or removal makes it wait for
\* ever.  (In an instance that has run out of uuids a worker may be stuck.)
OutOfUUIDs ==
    (\A s \in SessionIDs : Born(s)) /\ \E w \in Workers : wk[w].pc = "create"

StopReturns == []<>(stop \in {"running", "stopped"} \/ OutOfUUIDs)

\* SessionLife states what the manager promises; the table, the removals
\* in progress and the OnSessionEnd calls implement it.
Life == INSTANCE SessionLife WITH
            live <- table,
            leaving <- {s \in SessionIDs : \E r \in Removers : Holds(r, s)},
            finished <- ended

LifeSpec == Life!Spec

(***************************************************************************)
(* What comments and docs say and the code does not keep.                  *)
(***************************************************************************)

\* "GarbageCollect removes sessions that have been idle longer than the idle
\* timeout": the collector takes no session out of the table that is not idle.
GCRemovesOnlyIdle ==
    [][\A a \in Addrs :
         (a \in rm[GC].addrs /\ a \notin rm'[GC].addrs /\ table[a] # None)
             => Idle(table[a])]_vars

\* "Close remote connection if exists": the socket of a session that has
\* ended does not stay open.
EndedReleasesSocket ==
    \A s \in SessionIDs : (ended[s] > 0) ~> (conn[s] # "open")
=============================================================================
