---------------------------- MODULE RawUDPClients ----------------------------
(***************************************************************************)
(* The client table of the raw UDP proxy (raw_udp_proxy.go) for one client *)
(* address: the Listen loop, one forwardResponses goroutine per client,    *)
(* the ticker of cleanupInactiveClients, the delayed removal of kicked     *)
(* clients, KickPlayer and Stop, on top of the session manager (of which   *)
(* only whether the address has a session, and with which name, is kept).  *)
(*                                                                         *)
(* A Login packet comes in the fragments Frags, each in a datagram of its  *)
(* own, in any order and repeatedly.  Upload bytes are counted in packets; *)
(* the download counters work alike and are left out.  The goroutine that  *)
(* took a client out of the table finalizes it; what is left to do is kept *)
(* in the client (fin, by).                                                *)
(***************************************************************************)
EXTENDS Integers, FiniteSets

CONSTANTS
    MaxClients,   \* rawUDPClientInfo objects
    Frags,        \* the fragments of a Login packet
    MaxSplits,    \* MaxSplitPacketsPerClient
    Silence,      \* ticks without a packet after which a client is inactive
    Loads         \* of which a behaviour has one: bounds of the clients made, of the
                  \* datagrams read, and of kicks, removals of the session by others and
                  \* Stop; the kinds of datagrams; and whether the Login is within the
                  \* limits of a split packet, has too many parts or too many bytes

ASSUME RawConstants ==
    /\ MaxClients \in Nat \ {0}
    /\ Frags # {}
    /\ Frags \cap {"offline", "frame", "other"} = {}
    /\ MaxSplits \in Nat \ {0}
    /\ Silence \in Nat \ {0}
    /\ Loads \subseteq [clients : 1 .. MaxClients, packets : Nat, outside : Nat,
                       kinds : SUBSET ({"offline", "frame", "other"} \cup Frags),
                       size : {"fits", "parts", "bytes"}]

Gens == 1 .. MaxClients

VARIABLES
    tab,      \* p.clients: the client of the address, 0 for none
    made,     \* clients made so far
    cl,       \* the clients
    lp,       \* the Listen loop: what it does, for which client and datagram
    kp,       \* the ticker goroutine
    api,      \* KickPlayer: the client it has marked, 0 for none
    stop,     \* Stop
    sess,     \* the session of the address
    recent,   \* recentlyKicked holds an entry younger than rawUDPKickCooldown
    quota,    \* the bounds
    got,      \* datagrams read so far
    outside   \* kicks, removals by others and Stop so far

rawVars == <<tab, made, cl, lp, kp, api, stop, sess, recent, quota, got,
           outside>>

RawClients ==
    [sock : {"none", "open", "closed"}, age : 0 .. Silence, login : BOOLEAN,
     made : BOOLEAN, kicked : BOOLEAN, kc : {"no", "due", "done"},
     split : SUBSET Frags, older : Nat, newer : Nat, lost : BOOLEAN, sent : SUBSET Frags, denied : BOOLEAN,
     up : Nat, synced : Nat, credit : Nat,
     fwd : {"none", "run", "exit", "done"},
     fin : {"no", "close", "credit", "drop", "done"}, by : {"", "L", "K", "F", "C"}]

\* split: the fragments in the Login's buffer, which is there while it has any; older and
\* newer: the buffers of other packets made before it and since.  lost: a fragment of the
\* Login was not kept, or dropped again; sent, denied, credit: histories of what went to the
\* target, of the verdict and of what was added to sessions.
NewClient ==
    [sock |-> "none", age |-> 0, login |-> FALSE, made |-> FALSE, kicked |-> FALSE,
     kc |-> "no", split |-> {}, older |-> 0, newer |-> 0, lost |-> FALSE, sent |-> {}, denied |-> FALSE,
     up |-> 0, synced |-> 0, credit |-> 0, fwd |-> "none", fin |-> "no", by |-> ""]

\* Datagrams that get past the first bytes: offline messages, reliable frames without
\* a Login, fragments of other packets, and those of the Login.
Kinds == {"offline", "frame", "other"} \cup Frags

Reliable(k) == k # "offline"

Verdicts == {"allowed", "blacklist", "whitelist", "auth_failed"}

LoopStates ==
    [pc : {"read", "dial", "open", "sess", "sync", "cas", "login", "check",
           "publish", "write", "off"},
     g : 0 .. MaxClients, kind : Kinds, tot : Nat, prev : Nat]

Reading == [pc |-> "read", g |-> 0, kind |-> "offline", tot |-> 0, prev |-> 0]

Waiting == [pc |-> "wait", g |-> 0]

RawTypeOK ==
    /\ tab \in 0 .. MaxClients
    /\ made \in 0 .. MaxClients
    /\ cl \in [Gens -> RawClients]
    /\ lp \in LoopStates
    /\ kp \in [pc : {"wait", "remove", "keep", "off"}, g : 0 .. MaxClients]
    /\ api \in 0 .. MaxClients
    /\ stop \in {"no", "range", "drop", "wait", "done"}
    /\ sess \in {"none", "anon", "named"}
    /\ recent \in BOOLEAN
    /\ quota \in Loads
    /\ got \in 0 .. quota.packets
    /\ outside \in 0 .. quota.outside

RawInit ==
    /\ tab = 0
    /\ made = 0
    /\ cl = [g \in Gens |-> NewClient]
    /\ lp = Reading
    /\ kp = Waiting
    /\ api = 0
    /\ stop = "no"
    /\ sess = "none"
    /\ recent = FALSE
    /\ quota \in Loads
    /\ got = 0
    /\ outside = 0

closed == stop # "no"

Goto(pc) == lp' = [lp EXCEPT !.pc = pc]

\* Every key has one client: clients made by this process for the address.
Here == cl[lp.g]

-----------------------------------------------------------------------------
(* Removal: the winner of LoadAndDelete or CompareAndDelete finalizes.     *)

\* finalizeClientRemoval is entered by goroutine who with client g.
Begin(g, who) ==
    /\ tab' = 0
    /\ cl' = [cl EXCEPT ![g] = [@ EXCEPT !.fin = "close", !.by = who]]

\* Goroutine who is inside finalizeClientRemoval.
Finalizing(who) == \E g \in Gens : cl[g].by = who

\* The kick is remembered again and the target connection closed.
RawCloseClient(g) ==
    /\ cl[g].fin = "close"
    /\ cl' = [cl EXCEPT ![g] = [@ EXCEPT !.sock = "closed", !.split = {},
                                         !.older = 0, !.newer = 0, !.age = 0,
                                         !.fin = "credit"]]
    /\ recent' = (recent \/ cl[g].kicked)
    /\ UNCHANGED <<tab, made, lp, kp, api, stop, sess, quota, got, outside>>

\* Bytes not yet in a session are added to the one there is.
CreditTail(g) ==
    /\ cl[g].fin = "credit"
    /\ cl' = [cl EXCEPT ![g] =
                IF sess = "none" THEN [@ EXCEPT !.fin = "drop"]
                ELSE [cl[g] EXCEPT !.fin = "drop", !.synced = cl[g].up,
                                   !.credit = @ + (cl[g].up - cl[g].synced)]]
    /\ UNCHANGED <<tab, made, lp, kp, api, stop, sess, recent, quota, got, outside>>

\* sessionMgr.Remove of the address.
DropSession(g) ==
    /\ cl[g].fin = "drop"
    /\ cl' = [cl EXCEPT ![g] = [@ EXCEPT !.fin = "done", !.by = ""]]
    /\ sess' = "none"
    /\ UNCHANGED <<tab, made, lp, kp, api, stop, recent, quota, got, outside>>

-----------------------------------------------------------------------------
(* The Listen loop.                                                        *)

\* The loop is not inside a removal and its read has returned a datagram.
LoopReady(pc) == lp.pc = pc /\ ~Finalizing("L")

Arrive == ~closed /\ got < quota.packets /\ LoopReady("read") /\ got' = got + 1

\* The client's disconnect notification.
ClientDisconnects ==
    /\ Arrive
    /\ tab # 0
    /\ Begin(tab, "L")
    /\ UNCHANGED <<made, lp, kp, api, stop, sess, recent, quota, outside>>

\* getOrCreateClient finds a client: a kicked one is only answered.
Known(k) ==
    /\ Arrive
    /\ k \in quota.kinds
    /\ tab # 0
    /\ IF cl[tab].kicked
       THEN UNCHANGED <<cl, lp>>
       ELSE /\ cl' = [cl EXCEPT ![tab] = [cl[tab] EXCEPT !.age = 0, !.up = @ + 1]]
            /\ lp' = [Reading EXCEPT !.pc = IF Reliable(k) THEN "sess" ELSE "sync",
                                     !.g = tab, !.kind = k]
    /\ UNCHANGED <<tab, made, kp, api, stop, sess, recent, quota, outside>>

\* It finds none: a client kicked a moment ago is answered and ignored.
Unknown(k) ==
    /\ Arrive
    /\ k \in quota.kinds
    /\ tab = 0
    /\ lp' = IF recent THEN lp ELSE [Reading EXCEPT !.pc = "dial", !.kind = k]
    /\ UNCHANGED <<tab, made, cl, kp, api, stop, sess, recent, quota, outside>>

\* dialThroughProxy: a node is selected, or there is none; direct needs none.
SelectTarget ==
    /\ lp.pc = "dial"
    /\ lp' \in {[lp EXCEPT !.pc = "open"], Reading}
    /\ UNCHANGED <<tab, made, cl, kp, api, stop, sess, recent, quota, got, outside>>

\* The dial fails or the client is stored and its forwarder started; the datagram then
\* counts like any other.
OpenTarget ==
    /\ lp.pc = "open"
    /\ \/ /\ lp' = Reading
          /\ UNCHANGED <<tab, made, cl>>
       \/ /\ made < quota.clients
          /\ made' = made + 1
          /\ tab' = made + 1
          /\ cl' = [cl EXCEPT ![made + 1] = [NewClient EXCEPT !.sock = "open",
                                                            !.fwd = "run", !.up = 1]]
          /\ lp' = [lp EXCEPT !.pc = IF Reliable(lp.kind) THEN "sess" ELSE "sync",
                              !.g = made + 1]
    /\ UNCHANGED <<kp, api, stop, sess, recent, quota, got, outside>>

\* ensureSession.
EnsureSession ==
    /\ lp.pc = "sess"
    /\ cl' = [cl EXCEPT ![lp.g] = [@ EXCEPT !.made = TRUE]]
    /\ sess' = IF ~Here.made /\ sess = "none" THEN "anon" ELSE sess
    /\ Goto("sync")
    /\ UNCHANGED <<tab, made, kp, api, stop, recent, quota, got, outside>>

\* syncBytesUpToSession: the two loads, when there is a session.
SyncRead ==
    /\ lp.pc = "sync"
    /\ lp' = IF sess = "none" THEN [lp EXCEPT !.pc = "login"]
             ELSE [lp EXCEPT !.pc = "cas", !.tot = Here.up, !.prev = Here.synced]
    /\ UNCHANGED <<tab, made, cl, kp, api, stop, sess, recent, quota, got, outside>>

\* Fault: stores the total without comparing.
SyncStore ==
    /\ lp.pc = "cas"
    /\ cl' = [cl EXCEPT ![lp.g] = [Here EXCEPT !.synced = lp.tot,
                                               !.credit = @ + (lp.tot - lp.prev)]]
    /\ Goto("login")
    /\ UNCHANGED <<tab, made, kp, api, stop, sess, recent, quota, got, outside>>

\* Fault: the difference is taken the wrong way round.
SyncNegative ==
    /\ lp.pc = "cas"
    /\ cl' = [cl EXCEPT ![lp.g] = [Here EXCEPT !.synced = lp.tot,
                                               !.credit = @ + (lp.prev - lp.tot)]]
    /\ Goto("login")
    /\ UNCHANGED <<tab, made, kp, api, stop, sess, recent, quota, got, outside>>

\* ... and the compare-and-swap, whose winner adds the difference.
SyncCAS ==
    /\ lp.pc = "cas"
    /\ cl' = IF lp.tot > lp.prev /\ Here.synced = lp.prev
             THEN [cl EXCEPT ![lp.g] = [Here EXCEPT !.synced = lp.tot,
                                                    !.credit = @ + (lp.tot - lp.prev)]]
             ELSE cl
    /\ Goto("login")
    /\ UNCHANGED <<tab, made, kp, api, stop, sess, recent, quota, got, outside>>

\* The buffers of split packets, for client c.
Buffers(c) == c.older + c.newer + (IF c.split = {} THEN 0 ELSE 1)

\* The n oldest go.
Dropped(c, n) ==
    IF n <= c.older THEN [c EXCEPT !.older = c.older - n]
    ELSE [c EXCEPT !.split = {}, !.lost = TRUE, !.older = (c.older + c.newer + 1) - n,
                   !.newer = 0]

\* The Login's goes.
BufferGone(c) == [c EXCEPT !.split = {}, !.older = c.older + c.newer, !.newer = 0]

\* At the limit a new one takes the place of those that are stale, or of the oldest.
Room(c) ==
    IF Buffers(c) < MaxSplits THEN {c} ELSE {Dropped(c, n) : n \in 1 .. Buffers(c)}

Made(c) == IF c.split = {} THEN Room(c) ELSE {c}

\* A fragment of another packet: one whose buffer is there, which may be complete or too
\* large with it, or a new one, which may have no other fragments.
Continued(c) ==
    {d \in {c, [c EXCEPT !.older = c.older - 1], [c EXCEPT !.newer = c.newer - 1]} :
        c.older + c.newer > 0 /\ d.older >= 0 /\ d.newer >= 0}

Begun(c) ==
    Room(c) \cup
    {IF d.split = {} THEN [d EXCEPT !.older = d.older + 1]
     ELSE [d EXCEPT !.newer = d.newer + 1] : d \in Room(c)}

\* A fragment of the Login is kept; in too many parts it is not, and the one that makes it
\* too large takes the others along.
Kept(c, k) ==
    IF quota.size = "parts" THEN {[c EXCEPT !.lost = TRUE]}
    ELSE {d \in {[e EXCEPT !.split = c.split \cup {k}] : e \in Made(c)} : d.split # Frags}
         \cup IF quota.size = "bytes" /\ c.split # {} /\ k \notin c.split
              THEN {[BufferGone(c) EXCEPT !.lost = TRUE]} ELSE {}

Complete ==
    /\ lp.kind \in Frags
    /\ ~Here.login
    /\ quota.size = "fits"
    /\ Here.split \cup {lp.kind} = Frags

\* handlePacketWithLoginCheck up to the Login: handleSplitPacket keeps the fragments until
\* all are there.
ParsePacket ==
    /\ lp.pc = "login"
    /\ ~Complete
    /\ \E d \in IF Here.login \/ lp.kind \in {"offline", "frame"} THEN {Here}
               ELSE IF lp.kind = "other" THEN Continued(Here) \cup Begun(Here)
               ELSE Kept(Here, lp.kind) :
          cl' = [cl EXCEPT ![lp.g] = d]
    /\ Goto("write")
    /\ UNCHANGED <<tab, made, kp, api, stop, sess, recent, quota, got, outside>>

\* The last fragment: the player is known and gets a session with a name.
LoginFound ==
    /\ lp.pc = "login"
    /\ Complete
    /\ \E d \in Made(Here) :
          cl' = [cl EXCEPT ![lp.g] = [BufferGone(d) EXCEPT !.login = TRUE, !.made = TRUE]]
    /\ sess' = "named"
    /\ Goto("check")
    /\ UNCHANGED <<tab, made, kp, api, stop, recent, quota, got, outside>>

\* The checks on the player: the datagrams of a refused one are acknowledged and
\* sendDisconnectToClient marks the client.
LoginCheck(verdict) ==
    /\ lp.pc = "check"
    /\ IF verdict = "allowed" THEN Goto("write") /\ UNCHANGED cl
       ELSE /\ Goto("publish")
            /\ cl' = [cl EXCEPT ![lp.g] = [@ EXCEPT !.kicked = TRUE, !.denied = TRUE]]
    /\ UNCHANGED <<tab, made, kp, api, stop, sess, recent, quota, got, outside>>

\* scheduleKickCleanup.
Schedule(g) ==
    cl' = [cl EXCEPT ![g] = [cl[g] EXCEPT !.kc = IF @ = "no" THEN "due" ELSE @]]

\* Fault: a kicked client's Login is forwarded all the same.
PublishForwards ==
    /\ lp.pc = "publish"
    /\ recent' = TRUE
    /\ Schedule(lp.g)
    /\ Goto("write")
    /\ UNCHANGED <<tab, made, kp, api, stop, sess, quota, got, outside>>

\* The rest of sendDisconnectToClient; the datagram is not forwarded.
PublishKick ==
    /\ lp.pc = "publish"
    /\ recent' = TRUE
    /\ Schedule(lp.g)
    /\ lp' = Reading
    /\ UNCHANGED <<tab, made, kp, api, stop, sess, quota, got, outside>>

\* The datagram goes to the target, or a recoverable error or a timeout drops it.  A
\* client kicked since then is passed over when its Login was being looked for.
Forward ==
    /\ lp.pc = "write"
    /\ Here.sock = "open"
    /\ lp' = Reading
    /\ \/ UNCHANGED cl
       \/ /\ ~Here.kicked \/ Here.login
          /\ cl' = [cl EXCEPT ![lp.g] =
                       [Here EXCEPT !.sent = @ \cup ({lp.kind} \cap Frags)]]
    /\ UNCHANGED <<tab, made, kp, api, stop, sess, recent, quota, got, outside>>

\* Any other error, as that of a closed socket, removes what the table has.
RawForwardFails ==
    /\ lp.pc = "write"
    /\ lp' = Reading
    /\ IF tab = 0 THEN UNCHANGED <<tab, cl>> ELSE Begin(tab, "L")
    /\ UNCHANGED <<made, kp, api, stop, sess, recent, quota, got, outside>>

\* The read fails on the closed listener: Listen returns.
ListenReturns ==
    /\ closed
    /\ LoopReady("read")
    /\ Goto("off")
    /\ UNCHANGED <<tab, made, cl, kp, api, stop, sess, recent, quota, got, outside>>

-----------------------------------------------------------------------------
(* forwardResponses of client g.                                           *)

\* A datagram of the target reaches the client, or is dropped.
Response(g) ==
    /\ cl[g].fwd = "run"
    /\ cl[g].sock = "open"
    /\ ~closed
    /\ ~cl[g].kicked
    /\ cl' = [cl EXCEPT ![g] = [@ EXCEPT !.age = 0]]
    /\ UNCHANGED <<tab, made, lp, kp, api, stop, sess, recent, quota, got, outside>>

\* The loop ends: shutdown, a kick, a closed or failing socket, silence, or the
\* server's disconnect notification.
ResponsesEnd(g) ==
    /\ cl[g].fwd = "run"
    /\ cl' = [cl EXCEPT ![g] = [@ EXCEPT !.fwd = "exit"]]
    /\ UNCHANGED <<tab, made, lp, kp, api, stop, sess, recent, quota, got, outside>>

\* Fault: a kicked client is left to whoever kicks it.
ExitLeavesKicked(g) ==
    /\ cl[g].fwd = "exit"
    /\ IF ~cl[g].kicked /\ tab = g
       THEN /\ tab' = 0
            /\ cl' = [cl EXCEPT ![g] = [@ EXCEPT !.fwd = "done", !.fin = "close",
                                                 !.by = "F"]]
       ELSE /\ cl' = [cl EXCEPT ![g] = [@ EXCEPT !.fwd = "done"]]
            /\ UNCHANGED tab
    /\ UNCHANGED <<made, lp, kp, api, stop, sess, recent, quota, got, outside>>

\* Fault: during shutdown the client is left to Stop.
ExitLeavesStop(g) ==
    /\ cl[g].fwd = "exit"
    /\ IF ~cl[g].kicked /\ tab = g /\ ~closed
       THEN /\ tab' = 0
            /\ cl' = [cl EXCEPT ![g] = [@ EXCEPT !.fwd = "done", !.fin = "close",
                                                 !.by = "F"]]
       ELSE /\ cl' = [cl EXCEPT ![g] =
                       [cl[g] EXCEPT !.fwd = "done",
                                     !.kc = IF cl[g].kicked /\ @ = "no" THEN "due" ELSE @]]
            /\ UNCHANGED tab
    /\ UNCHANGED <<made, lp, kp, api, stop, sess, recent, quota, got, outside>>

\* The deferred call: a kicked client is left to the delayed removal, another one is
\* removed if the table still has it.
ForwarderExit(g) ==
    /\ cl[g].fwd = "exit"
    /\ cl' = [cl EXCEPT ![g] =
                [cl[g] EXCEPT !.fwd = "done",
                              !.kc = IF cl[g].kicked /\ @ = "no" THEN "due" ELSE @,
                              !.fin = IF ~cl[g].kicked /\ tab = g THEN "close" ELSE @,
                              !.by = IF ~cl[g].kicked /\ tab = g THEN "F" ELSE @]]
    /\ tab' = IF ~cl[g].kicked /\ tab = g THEN 0 ELSE tab
    /\ UNCHANGED <<made, lp, kp, api, stop, sess, recent, quota, got, outside>>

\* The delayed removal of a kicked client; shutdown cancels it.
KickCleanup(g) ==
    /\ cl[g].kc = "due"
    /\ cl' = [cl EXCEPT ![g] =
                [cl[g] EXCEPT !.kc = "done",
                              !.fin = IF ~closed /\ tab = g THEN "close" ELSE @,
                              !.by = IF ~closed /\ tab = g THEN "C" ELSE @]]
    /\ tab' = IF ~closed /\ tab = g THEN 0 ELSE tab
    /\ UNCHANGED <<made, lp, kp, api, stop, sess, recent, quota, got, outside>>

-----------------------------------------------------------------------------
(* cleanupInactiveClients.                                                 *)

\* The ticker fires; the callback of Range reads lastSeen.
Scan ==
    /\ kp.pc = "wait"
    /\ ~Finalizing("K")
    /\ ~closed
    /\ tab # 0
    /\ kp' = [pc |-> IF cl[tab].age = Silence THEN "remove" ELSE "keep", g |-> tab]
    /\ UNCHANGED <<tab, made, cl, lp, api, stop, sess, recent, quota, got, outside>>

\* Fault: the ticker only looks.
ReapNothing ==
    /\ kp.pc = "remove"
    /\ kp' = Waiting
    /\ UNCHANGED <<tab, made, cl, lp, api, stop, sess, recent, quota, got, outside>>

\* An inactive client is removed, by key.
Reap ==
    /\ kp.pc = "remove"
    /\ kp' = Waiting
    /\ IF tab = 0 THEN UNCHANGED <<tab, cl>> ELSE Begin(tab, "K")
    /\ UNCHANGED <<made, lp, api, stop, sess, recent, quota, got, outside>>

\* Fault: a session removed by others is not made again.
KeepNameOnly ==
    /\ kp.pc = "keep"
    /\ kp' = Waiting
    /\ sess' = IF cl[kp.g].login /\ sess = "anon" THEN "named" ELSE sess
    /\ UNCHANGED <<tab, made, cl, lp, api, stop, recent, quota, got, outside>>

\* An active one may lose its oldest, stale buffers; its session gets the player's name, or is
\* made again when it is gone and the player known.
KeepAlive ==
    /\ kp.pc = "keep"
    /\ kp' = Waiting
    /\ \E n \in 0 .. Buffers(cl[kp.g]) :
         cl' = [cl EXCEPT ![kp.g] =
                  [Dropped(cl[kp.g], n) EXCEPT
                       !.made = cl[kp.g].made \/ (cl[kp.g].login /\ sess = "none")]]
    /\ sess' = IF cl[kp.g].login THEN "named" ELSE sess
    /\ UNCHANGED <<tab, made, lp, api, stop, recent, quota, got, outside>>

TickerReturns ==
    /\ closed
    /\ kp.pc = "wait"
    /\ ~Finalizing("K")
    /\ kp' = [kp EXCEPT !.pc = "off"]
    /\ UNCHANGED <<tab, made, cl, lp, api, stop, sess, recent, quota, got, outside>>

-----------------------------------------------------------------------------
(* KickPlayer, the session manager's other users, time.                    *)

\* KickPlayer finds the player and marks it.
KickPlayer ==
    /\ outside < quota.outside
    /\ outside' = outside + 1
    /\ api = 0
    /\ tab # 0
    /\ cl[tab].login
    /\ api' = tab
    /\ cl' = [cl EXCEPT ![tab] = [@ EXCEPT !.kicked = TRUE]]
    /\ UNCHANGED <<tab, made, lp, kp, stop, sess, recent, quota, got>>

KickPlayerRest ==
    /\ api # 0
    /\ api' = 0
    /\ recent' = TRUE
    /\ Schedule(api)
    /\ UNCHANGED <<tab, made, lp, kp, stop, sess, quota, got, outside>>

\* The session is removed by the API or by the session manager's collector.
SessionRemoved ==
    /\ outside < quota.outside
    /\ outside' = outside + 1
    /\ sess # "none"
    /\ sess' = "none"
    /\ UNCHANGED <<tab, made, cl, lp, kp, api, stop, recent, quota, got>>

Quiet ==
    /\ tab # 0
    /\ cl[tab].age < Silence
    /\ cl' = [cl EXCEPT ![tab] = [cl[tab] EXCEPT !.age = @ + 1]]
    /\ UNCHANGED <<tab, made, lp, kp, api, stop, sess, recent, quota, got, outside>>

CooldownEnds ==
    /\ recent
    /\ recent' = FALSE
    /\ UNCHANGED <<tab, made, cl, lp, kp, api, stop, sess, quota, got, outside>>

-----------------------------------------------------------------------------
(* Stop.                                                                   *)

RawStopBegins ==
    /\ outside < quota.outside
    /\ outside' = outside + 1
    /\ stop = "no"
    /\ stop' = "range"
    /\ UNCHANGED <<tab, made, cl, lp, kp, api, sess, recent, quota, got>>

\* Range closes the socket of what the table has ...
RawStopCloses ==
    /\ stop = "range"
    /\ stop' = IF tab = 0 THEN "wait" ELSE "drop"
    /\ cl' = IF tab = 0 THEN cl
             ELSE [cl EXCEPT ![tab] = [@ EXCEPT !.sock = "closed", !.split = {}, !.older = 0,
                                             !.newer = 0]]
    /\ UNCHANGED <<tab, made, lp, kp, api, sess, recent, quota, got, outside>>

\* ... and removes its session.
StopDrops ==
    /\ stop = "drop"
    /\ stop' = "wait"
    /\ sess' = "none"
    /\ UNCHANGED <<tab, made, cl, lp, kp, api, recent, quota, got, outside>>

\* wg.Wait.
StopReturnsRaw ==
    /\ stop = "wait"
    /\ kp.pc = "off"
    /\ \A g \in Gens : cl[g].fwd \in {"none", "done"} /\ cl[g].kc # "due"
                       /\ cl[g].by \notin {"F", "C"}
    /\ stop' = "done"
    /\ UNCHANGED <<tab, made, cl, lp, kp, api, sess, recent, quota, got, outside>>

-----------------------------------------------------------------------------
Loop ==
    \/ SelectTarget \/ OpenTarget \/ EnsureSession \/ SyncRead \/ SyncCAS
    \/ ParsePacket \/ LoginFound \/ (\E v \in Verdicts : LoginCheck(v))
    \/ PublishKick \/ Forward \/ RawForwardFails \/ ListenReturns

Client(g) ==
    \/ RawCloseClient(g) \/ CreditTail(g) \/ DropSession(g)
    \/ ForwarderExit(g) \/ KickCleanup(g)

Ticker == Scan \/ Reap \/ KeepAlive \/ TickerReturns

Stopping == RawStopCloses \/ StopDrops \/ StopReturnsRaw

RawNext ==
    \/ ClientDisconnects
    \/ \E k \in Kinds : Known(k) \/ Unknown(k)
    \/ Loop
    \/ \E g \in Gens : Client(g) \/ Response(g) \/ ResponsesEnd(g)
    \/ Ticker
    \/ KickPlayer \/ KickPlayerRest \/ SessionRemoved \/ Quiet \/ CooldownEnds
    \/ RawStopBegins \/ Stopping

\* The goroutines run; reads of a closed or silent socket return, so a forwarder whose
\* context is done ends.
RawFairness ==
    /\ WF_rawVars(Loop)
    /\ \A g \in Gens : WF_rawVars(Client(g) \/ (closed /\ ResponsesEnd(g)))
    /\ WF_rawVars(Ticker)
    /\ WF_rawVars(KickPlayerRest)
    /\ WF_rawVars(Stopping)

RawSpec == RawInit /\ [][RawNext]_rawVars /\ RawFairness

-----------------------------------------------------------------------------
(* Properties.                                                             *)

\* A client in the table has an open socket and somebody who will take it out: its
\* forwarder, or the delayed removal of a kicked client (or the one who is about to
\* schedule it); a socket that is open belongs to a client in the table or in the
\* hands of its finalizer.  So no datagram goes into a dead entry and no socket is
\* lost (getOrCreateClient, removeClientIfMatch, scheduleKickCleanup).
Attended ==
    \A g \in Gens :
        /\ tab = g /\ ~closed =>
             /\ cl[g].sock = "open"
             /\ cl[g].fin = "no"
             /\ \/ cl[g].fwd \in {"run", "exit"}
                \/ cl[g].kicked /\ cl[g].kc = "due"
        /\ cl[g].sock = "open" => tab = g \/ cl[g].fin = "close"

\* However the Listen loop and a finalizer overlap, no byte is added to a session
\* twice (syncBytesUpToSession: "CAS guards rare concurrent callers").
CreditOnce == \A g \in Gens : cl[g].credit <= cl[g].up

\* A player that a check refuses never gets a complete Login through to the target, in
\* whatever order and however often the fragments come and whatever other split packets
\* come between them, unless a fragment was not kept until the Login was complete: dropped
\* as stale, pushed out by newer split packets at MaxSplitPacketsPerClient, or over the
\* limits of parts and bytes.  It has been forwarded by then, and what is judged later is a
\* repetition (handlePacketWithLoginCheck, handleSplitPacket).
DeniedWithheld ==
    \A g \in Gens : cl[g].denied /\ ~cl[g].lost => ~(Frags \subseteq cl[g].sent)

\* A silent client does not stay in the table (cleanupInactiveClients).
SilentReaped == []<>(tab = 0 \/ cl[tab].age < Silence \/ closed)

\* A player who has logged in and stays is in the list of sessions, under its name,
\* again and again, whoever removes the session (the else branch of
\* cleanupInactiveClients).
LoggedInVisible == []<>(tab = 0 \/ ~cl[tab].login \/ sess = "named" \/ closed)

\* Stop returns, and the sockets of clients that were not kicked are closed for good,
\* those too that the Listen loop makes while Stop is on its way.
StopReleases ==
    (stop = "range") ~> [](/\ stop = "done"
                           /\ \A g \in Gens : cl[g].sock = "open" => cl[g].kicked)

\* The table of clients, their sockets and their goroutines agree at all times, and no
\* byte is credited twice.
RawInv == RawTypeOK /\ Attended /\ CreditOnce

\* What becomes of clients: the silent ones go, the ones that play are listed, and Stop
\* releases what it finds and what is made behind its back.
ClientsSettle == SilentReaped /\ LoggedInVisible /\ StopReleases
=============================================================================
