---------------------------- MODULE StreamProxies ----------------------------
(***************************************************************************)
(* The listeners that handle a connection in a goroutine of its own:       *)
(* passthrough_proxy.go, raknet_proxy.go, mitm_proxy.go (over the RakNet   *)
(* library) and plain_tcp_proxy.go.  A behaviour has one of them, its      *)
(* accept loop, a handler with two forwarding loops per connection, the    *)
(* refresh of the pong, KickPlayer and Stop.  One player connects, from    *)
(* the addresses Addrs; the session table has one entry per address.       *)
(* (A behaviour of the plain UDP proxy, PlainUDPClients, has none of it.)  *)
(*                                                                         *)
(* Stop comes from ProxyServer.Stop, which has cancelled the context, or   *)
(* from stopListener, which has not (load.scope).  The RakNet library      *)
(* answers for connections after the listener's socket is closed: they     *)
(* time out.  What is relayed is left out.                                 *)
(***************************************************************************)
EXTENDS Naturals, FiniteSets

CONSTANTS
    Addrs,       \* client addresses
    MaxConns,    \* connections
    MaxFails,    \* cap of the failures that lengthen the wait (5)
    StreamLoads  \* what a behaviour has: listener, kind of Stop, connections and their
                 \* addresses, kicks, pong refresh

Protos == {"passthrough", "raknet", "mitm", "tcp", "udp"}

ASSUME StreamConstants ==
    /\ MaxConns \in Nat \ {0}
    /\ MaxFails \in Nat \ {0}
    /\ StreamLoads \subseteq [proto : Protos, scope : {"server", "all"},
                              conns : 0 .. MaxConns, from : [1 .. MaxConns -> Addrs],
                              kicks : Nat, pong : BOOLEAN]

Ids == 1 .. MaxConns

VARIABLES
    load,       \* the listener and the bounds of this behaviour
    conn,       \* the connections
    active,     \* activeConns, or conns
    sessTab,    \* the session of each address, named after the connection it was made for
    players,    \* the sessions that know the player
    ctxDone,    \* the context of ProxyServer is cancelled
    socket,     \* the listener's socket is open
    listen,     \* the Listen goroutine runs
    halt,       \* Stop
    kicks,      \* KickPlayer: connections collected, and calls so far
    pong        \* the refresh goroutine: what it does and its consecutive failures

streamVars == <<load, conn, active, sessTab, players, ctxDone, socket, listen,
              halt, kicks, pong>>

proto == load.proto

\* sid: the session held; denied, login, left, kicked: histories: the verdict, the
\* Login went to the target, the handler went without removing its session, KickPlayer
\* closed it.  A handler that is done keeps only what properties need.
ConnStates ==
    [pc : {"none", "chan", "start", "hello", "dial", "greet", "session", "check",
           "spawn", "relay", "leave", "close", "done"},
     cli : {"none", "open", "closed"}, rem : {"none", "open", "half", "closed"},
     up : {"none", "run", "done"}, down : {"none", "run", "done"},
     named : BOOLEAN, sid : 0 .. MaxConns, denied : BOOLEAN, login : BOOLEAN,
     left : BOOLEAN, kicked : BOOLEAN]

StreamTypeOK ==
    /\ load \in StreamLoads
    /\ conn \in [Ids -> ConnStates]
    /\ active \subseteq Ids
    /\ sessTab \in [Addrs -> 0 .. MaxConns]
    /\ players \subseteq Ids
    /\ {ctxDone, socket, listen} \subseteq BOOLEAN
    /\ halt \in {"no", "close", "wait", "done"}
    /\ kicks \in [todo : SUBSET Ids, calls : 0 .. load.kicks]
    /\ pong \in [pc : {"off", "wait", "fetch"}, fails : 0 .. MaxFails]

StreamInit ==
    /\ load \in StreamLoads
    /\ conn = [c \in Ids |->
                 [pc |-> "none", cli |-> "none", rem |-> "none", up |-> "none",
                  down |-> "none", named |-> FALSE, sid |-> 0, denied |-> FALSE,
                  login |-> FALSE, left |-> FALSE, kicked |-> FALSE]]
    /\ active = {}
    /\ sessTab = [a \in Addrs |-> 0]
    /\ players = {}
    /\ ctxDone = FALSE
    /\ socket = TRUE
    /\ listen = TRUE
    /\ halt = "no"
    /\ kicks = [todo |-> {}, calls |-> 0]
    /\ pong = [pc |-> IF load.pong THEN "fetch" ELSE "off", fails |-> 0]

closing == halt # "no"

At(c, pc) == conn[c].pc = pc

addr(c) == load.from[c]

\* The handler of c returns: its deferred calls follow.
Leave(c) == conn' = [conn EXCEPT ![c].pc = "leave"]

\* ... on a path that does not call sessionMgr.Remove.
LeaveSession(c) ==
    conn' = [conn EXCEPT ![c] = [@ EXCEPT !.pc = "leave", !.left = (conn[c].sid # 0)]]

\* sessionMgr.GetOrCreate for the address of c: the session c gets.
SessionOf(c) ==
    IF sessTab[addr(c)] = 0 THEN c ELSE sessTab[addr(c)]

\* Fault: sessions are removed by name, and many have none.
RemoveByEmptyName(a) == sessTab' = [b \in Addrs |-> 0]

\* sessionMgr.Remove.
Remove(a) == sessTab' = [sessTab EXCEPT ![a] = 0]

-----------------------------------------------------------------------------
(* The accept loop.                                                        *)

\* The library has one connection per address.
Accept(c) ==
    /\ At(c, "none") /\ c <= load.conns
    /\ \A d \in Ids : d < c => ~At(d, "none")
    /\ socket /\ listen /\ ~closing
    /\ \A d \in Ids : addr(d) = addr(c) => conn[d].cli # "open"
    /\ conn' = [conn EXCEPT ![c] = [@ EXCEPT !.pc = "chan", !.cli = "open"]]
    /\ UNCHANGED <<load, active, sessTab, players, ctxDone, socket, listen, halt,
                   kicks, pong>>

\* The Listen loop starts the handler; in two of the listeners it gets the connection
\* from the accept goroutine over a channel.
Spawn(c) ==
    /\ At(c, "chan")
    /\ listen
    /\ conn' = [conn EXCEPT ![c].pc = "start"]
    /\ UNCHANGED <<load, active, sessTab, players, ctxDone, socket, listen, halt,
                   kicks, pong>>

\* The accept goroutine cannot hand the connection over any more.
NotTaken(c) ==
    /\ At(c, "chan")
    /\ proto \in {"passthrough", "raknet"}
    /\ ctxDone
    /\ conn' = [conn EXCEPT ![c] = [@ EXCEPT !.pc = "done", !.cli = "closed"]]
    /\ UNCHANGED <<load, active, sessTab, players, ctxDone, socket, listen, halt,
                   kicks, pong>>

\* With a channel only the context ends the loop; without one an error of Accept does
\* too, and a connection that was accepted is handled first. The MITM loop looks at the
\* context between two connections.
ListenEnds ==
    /\ listen
    /\ \/ /\ proto \in {"passthrough", "raknet"}
          /\ ctxDone
       \/ /\ proto \in {"mitm", "tcp"}
          /\ (closing /\ ~socket) \/ (proto = "mitm" /\ ctxDone)
          /\ \A c \in Ids : ~At(c, "chan")
    /\ listen' = FALSE
    /\ UNCHANGED <<load, conn, active, sessTab, players, ctxDone, socket, halt,
                   kicks, pong>>

-----------------------------------------------------------------------------
(* The handler of a connection: handleConnection, handleConn.              *)

\* RakNetProxy.activeConns is keyed by address, the other tables by connection.
SameEntry(c) ==
    {d \in Ids : IF proto = "raknet" THEN addr(d) = addr(c) ELSE d = c}

Register(c) ==
    /\ At(c, "start")
    /\ active' = (active \ SameEntry(c)) \cup {c}
    /\ conn' = [conn EXCEPT ![c].pc = "hello"]
    /\ UNCHANGED <<load, sessTab, players, ctxDone, socket, listen, halt, kicks, pong>>

\* The server is disabled, or (passthrough) the first packet does not come in time.
TurnedAway(c) ==
    /\ At(c, "hello")
    /\ proto # "tcp"
    /\ Leave(c)
    /\ UNCHANGED <<load, active, sessTab, players, ctxDone, socket, listen, halt,
                   kicks, pong>>

PassthroughHello(c) ==
    /\ At(c, "hello") /\ proto = "passthrough"
    /\ conn[c].cli = "open"
    /\ conn' = [conn EXCEPT ![c].pc = "dial"]
    /\ UNCHANGED <<load, active, sessTab, players, ctxDone, socket, listen, halt,
                   kicks, pong>>

RakNetHello(c) ==
    /\ At(c, "hello") /\ proto = "raknet"
    /\ conn' = [conn EXCEPT ![c] = [@ EXCEPT !.pc = "dial", !.sid = SessionOf(c)]]
    /\ sessTab' = [sessTab EXCEPT ![addr(c)] = SessionOf(c)]
    /\ UNCHANGED <<load, active, players, ctxDone, socket, listen, halt, kicks, pong>>

\* The library has done the login: the name is known, and checked before anything else.
MITMHello(c) ==
    /\ At(c, "hello") /\ proto = "mitm"
    /\ \/ /\ conn' = [conn EXCEPT ![c] = [@ EXCEPT !.pc = "dial", !.named = TRUE,
                                                   !.sid = SessionOf(c)]]
          /\ sessTab' = [sessTab EXCEPT ![addr(c)] = SessionOf(c)]
          /\ players' = players \cup {SessionOf(c)}
       \/ /\ conn' = [conn EXCEPT ![c] = [@ EXCEPT !.pc = "leave", !.named = TRUE,
                                                   !.denied = TRUE]]
          /\ UNCHANGED <<sessTab, players>>
    /\ UNCHANGED <<load, active, ctxDone, socket, listen, halt, kicks, pong>>

TCPHello(c) ==
    /\ At(c, "hello") /\ proto = "tcp"
    /\ conn' = [conn EXCEPT ![c].pc = "dial"]
    /\ UNCHANGED <<load, active, sessTab, players, ctxDone, socket, listen, halt,
                   kicks, pong>>

AfterDial ==
    [p \in Protos |-> CASE p = "passthrough" -> "greet"
                        [] p = "mitm" -> "spawn"
                        [] OTHER -> "relay"]

\* Every attempt has a timeout; none looks at the context.
Dial(c) ==
    /\ At(c, "dial")
    /\ conn' = [conn EXCEPT ![c] =
                  [conn[c] EXCEPT !.pc = AfterDial[proto], !.rem = "open",
                                  !.up = IF AfterDial[proto] = "relay" THEN "run" ELSE @,
                                  !.down = IF AfterDial[proto] = "relay" THEN "run" ELSE @]]
    /\ UNCHANGED <<load, active, sessTab, players, ctxDone, socket, listen, halt,
                   kicks, pong>>

\* RakNetProxy after three attempts, the others after one: no session is removed.
DialFails(c) ==
    /\ At(c, "dial")
    /\ LeaveSession(c)
    /\ UNCHANGED <<load, active, sessTab, players, ctxDone, socket, listen, halt,
                   kicks, pong>>

\* What a Login packet may hold: frame and lengths are as they should be; the request is
\* JSON, and so is the certificate in it; a chain with a name; the OIDC token and the
\* client data token, which may lack the name.
Logins ==
    [framed : BOOLEAN, outer : BOOLEAN, cert : BOOLEAN, chain : BOOLEAN,
     oidc : {"none", "nameless", "name"}, raw : BOOLEAN]

\* parseConnectionRequest: where the name comes from, "" when there is none.
ParseLogin(l) ==
    CASE ~l.framed -> ""
      [] l.framed /\ l.chain /\ (l.outer => l.cert) -> "chain"
      [] l.framed /\ l.outer /\ ~l.cert /\ l.oidc # "none" ->
           IF l.oidc = "name" THEN "oidc" ELSE ""
      [] l.framed /\ l.outer /\ l.cert /\ ~l.chain /\ l.oidc = "name" -> "oidc"
      [] OTHER -> IF l.raw THEN "raw" ELSE ""

\* NetworkSettings to and fro, then the Login packet of the client.  With a name in it,
\* the sessions of the player go, those of other addresses too.
Greet(c) ==
    /\ At(c, "greet")
    /\ {conn[c].cli, conn[c].rem} = {"open"}
    /\ \E named \in {ParseLogin(l) # "" : l \in Logins} :
         /\ conn' = [conn EXCEPT ![c] = [@ EXCEPT !.pc = "session", !.named = named]]
         /\ sessTab' = [a \in Addrs |-> IF named /\ sessTab[a] \in players THEN 0
                                        ELSE sessTab[a]]
    /\ UNCHANGED <<load, active, players, ctxDone, socket, listen, halt, kicks, pong>>

\* A read or a write failed; the client has ten seconds, the library ends a connection
\* to a target that is silent.
GreetFails(c) ==
    /\ At(c, "greet")
    /\ Leave(c)
    /\ UNCHANGED <<load, active, sessTab, players, ctxDone, socket, listen, halt,
                   kicks, pong>>

CreateSession(c) ==
    /\ At(c, "session")
    /\ conn' = [conn EXCEPT ![c] =
                  [@ EXCEPT !.sid = SessionOf(c), !.pc = "check"]]
    /\ sessTab' = [sessTab EXCEPT ![addr(c)] = SessionOf(c)]
    /\ players' = players \cup {s \in {SessionOf(c)} : conn[c].named}
    /\ UNCHANGED <<load, active, ctxDone, socket, listen, halt, kicks, pong>>

\* Fault: a refused player is only told so, and goes on to the target.
RefuseGoesOn(c) ==
    /\ At(c, "check")
    /\ conn[c].named
    /\ conn' = [conn EXCEPT ![c] = [@ EXCEPT !.denied = TRUE]]
    /\ UNCHANGED <<load, active, sessTab, players, ctxDone, socket, listen, halt,
                   kicks, pong>>

\* The access list or the external verifier refuses a player whose name is known: the
\* status is set, the reason is sent, the session is removed so that it is stored.
Refuse(c) ==
    /\ At(c, "check")
    /\ conn[c].named
    /\ conn' = [conn EXCEPT ![c] = [@ EXCEPT !.pc = "leave", !.denied = TRUE]]
    /\ Remove(addr(c))
    /\ UNCHANGED <<load, active, players, ctxDone, socket, listen, halt, kicks, pong>>

Relaying(c) == [conn[c] EXCEPT !.pc = "relay", !.up = "run", !.down = "run",
                               !.login = TRUE]

\* Nobody refuses, or there is no name to ask about.
SendLogin(c) ==
    /\ At(c, "check")
    /\ conn[c].rem = "open"
    /\ conn' = [conn EXCEPT ![c] = Relaying(c)]
    /\ UNCHANGED <<load, active, sessTab, players, ctxDone, socket, listen, halt,
                   kicks, pong>>

\* StartGame: the player appears in the world of the target.
StartGame(c) ==
    /\ At(c, "spawn")
    /\ conn[c].cli = "open"
    /\ conn' = [conn EXCEPT ![c] = Relaying(c)]
    /\ UNCHANGED <<load, active, sessTab, players, ctxDone, socket, listen, halt,
                   kicks, pong>>

\* The Login cannot be forwarded, StartGame fails: the session stays.
SpawnFails(c) ==
    /\ \/ At(c, "check")
       \/ At(c, "spawn")
    /\ LeaveSession(c)
    /\ UNCHANGED <<load, active, sessTab, players, ctxDone, socket, listen, halt,
                   kicks, pong>>

\* connCtx is derived from the context of Listen; the first loop to end cancels it.
Cancelled(c) == "done" \in {conn[c].up, conn[c].down} \/ ctxDone

Broken(c) == "closed" \in {conn[c].cli, conn[c].rem}

\* A forwarding loop returns and cancels connCtx; a loop of the MITM proxy that was
\* cancelled closes its source.
UpEnds(c) ==
    /\ At(c, "relay") /\ proto # "tcp"
    /\ conn[c].up = "run"
    /\ conn' = [conn EXCEPT ![c] =
                  [conn[c] EXCEPT
                     !.up = "done",
                     !.cli = IF proto = "mitm" /\ Cancelled(c) THEN "closed" ELSE @]]
    /\ UNCHANGED <<load, active, sessTab, players, ctxDone, socket, listen, halt,
                   kicks, pong>>

DownEnds(c) ==
    /\ At(c, "relay") /\ proto # "tcp"
    /\ conn[c].down = "run"
    /\ conn' = [conn EXCEPT ![c] =
                  [conn[c] EXCEPT
                     !.down = "done",
                     !.rem = IF proto = "mitm" /\ Cancelled(c) THEN "closed" ELSE @]]
    /\ UNCHANGED <<load, active, sessTab, players, ctxDone, socket, listen, halt,
                   kicks, pong>>

\* Fault: connCtx is cancelled only when the handler returns.
LoopDeaf(c) ==
    \/ (ctxDone \/ conn[c].cli = "closed") /\ UpEnds(c)
    \/ (ctxDone \/ conn[c].rem = "closed") /\ DownEnds(c)

\* A loop that reads from a closed connection, or sees the context at the next deadline,
\* ends.
LoopNotices(c) ==
    \/ (Cancelled(c) \/ conn[c].cli = "closed") /\ UpEnds(c)
    \/ (Cancelled(c) \/ conn[c].rem = "closed") /\ DownEnds(c)

\* A packet cannot be written.  A loop of the passthrough proxy also ends after 15 reads
\* that timed out, one of the RakNet proxy when the target sent a Disconnect packet.
LoopGivesUp(c) ==
    \/ (proto = "passthrough" \/ conn[c].rem = "closed") /\ UpEnds(c)
    \/ (proto \in {"passthrough", "raknet"} \/ conn[c].cli = "closed") /\ DownEnds(c)

\* Fault: the handler ends with its log line.
RelayForgets(c) ==
    /\ At(c, "relay") /\ proto # "tcp"
    /\ conn[c].up = "done" /\ conn[c].down = "done"
    /\ Leave(c)
    /\ UNCHANGED <<load, active, sessTab, players, ctxDone, socket, listen, halt,
                   kicks, pong>>

\* wg.Wait of the handler, and the removal of the session of the address; the MITM
\* proxy leaves it to the collector.
RelayEnds(c) ==
    /\ At(c, "relay") /\ proto # "tcp"
    /\ conn[c].up = "done" /\ conn[c].down = "done"
    /\ IF proto = "mitm"
         THEN LeaveSession(c) /\ UNCHANGED sessTab
         ELSE Leave(c) /\ Remove(addr(c))
    /\ UNCHANGED <<load, active, players, ctxDone, socket, listen, halt, kicks, pong>>

\* A packet with the player's name: the RakNet proxy learns it while it forwards.  A
\* refused player's connection is looked up by address and closed.
Identify(c) ==
    /\ At(c, "relay") /\ proto = "raknet"
    /\ "run" \in {conn[c].up, conn[c].down}
    /\ conn[c].sid \notin players
    /\ players' = players \cup {conn[c].sid}
    /\ \/ UNCHANGED conn
       \/ conn' = [d \in Ids |->
                     [conn[d] EXCEPT !.denied = @ \/ d = c,
                                     !.cli = IF d \in active \cap SameEntry(c)
                                               THEN "closed" ELSE @]]
    /\ UNCHANGED <<load, active, sessTab, ctxDone, socket, listen, halt, kicks, pong>>

\* relayStream: the copy to the target ends when the client is done, and passes the end on.
TCPUp(c) ==
    /\ At(c, "relay") /\ proto = "tcp"
    /\ conn[c].up = "run"
    /\ conn[c].cli = "closed"
    /\ conn' = [conn EXCEPT ![c] = [conn[c] EXCEPT !.up = "done",
                                                   !.rem = IF @ = "open" THEN "half" ELSE @]]
    /\ UNCHANGED <<load, active, sessTab, players, ctxDone, socket, listen, halt,
                   kicks, pong>>

\* The copy to the client is in the handler: it ends when the target is done.
TCPDown(c) ==
    /\ At(c, "relay") /\ proto = "tcp"
    /\ conn[c].rem = "closed"
    /\ conn' = [conn EXCEPT ![c] = [@ EXCEPT !.pc = "leave", !.down = "done"]]
    /\ UNCHANGED <<load, active, sessTab, players, ctxDone, socket, listen, halt,
                   kicks, pong>>

\* The target's data cannot be written to the client.
TCPWriteFails(c) ==
    /\ At(c, "relay") /\ proto = "tcp"
    /\ conn[c].cli = "closed"
    /\ conn' = [conn EXCEPT ![c] = [@ EXCEPT !.pc = "leave", !.down = "done"]]
    /\ UNCHANGED <<load, active, sessTab, players, ctxDone, socket, listen, halt,
                   kicks, pong>>

\* The deferred calls: close the target, cancel, leave the table, close the client.
Unregister(c) ==
    /\ At(c, "leave")
    /\ conn' = [conn EXCEPT ![c] = [conn[c] EXCEPT !.pc = "close",
                                                   !.rem = IF @ = "none" THEN @ ELSE "closed"]]
    /\ active' = active \ SameEntry(c)
    /\ UNCHANGED <<load, sessTab, players, ctxDone, socket, listen, halt, kicks, pong>>

CloseClient(c) ==
    /\ At(c, "close")
    /\ conn' = [conn EXCEPT ![c] =
                  [conn[c] EXCEPT !.pc = "done", !.cli = "closed", !.rem = "none",
                                  !.up = "none", !.down = "none", !.named = FALSE,
                                  !.denied = FALSE, !.login = FALSE,
                                  !.sid = IF conn[c].left THEN @ ELSE 0]]
    /\ UNCHANGED <<load, active, sessTab, players, ctxDone, socket, listen, halt,
                   kicks, pong>>

-----------------------------------------------------------------------------
(* The peers, and the library.                                             *)

ClientLeaves(c) ==
    /\ conn[c].cli = "open"
    /\ conn' = [conn EXCEPT ![c].cli = "closed"]
    /\ UNCHANGED <<load, active, sessTab, players, ctxDone, socket, listen, halt,
                   kicks, pong>>

TargetLeaves(c) ==
    /\ conn[c].rem \in {"open", "half"}
    /\ conn' = [conn EXCEPT ![c].rem = "closed"]
    /\ UNCHANGED <<load, active, sessTab, players, ctxDone, socket, listen, halt,
                   kicks, pong>>

\* Without the listener's socket the library hears no more of a client.
ClientTimesOut(c) ==
    /\ proto # "tcp"
    /\ ~socket
    /\ ClientLeaves(c)

-----------------------------------------------------------------------------
(* The pong shown in the server list: updatePongData, startPongRefresh.    *)

PongTick ==
    /\ pong.pc = "wait"
    /\ ~closing
    /\ active = {}
    /\ pong' = [pong EXCEPT !.pc = "fetch"]
    /\ UNCHANGED <<load, conn, active, sessTab, players, ctxDone, socket, listen, halt,
                   kicks>>

\* Fault: the failures are counted on.
PongUncapped ==
    /\ pong.pc = "fetch"
    /\ \E ok \in BOOLEAN :
         pong' = [pc |-> "wait",
                  fails |-> IF ok \/ proto = "raknet" \/ pong.fails > MaxFails THEN 0
                            ELSE pong.fails + 1]
    /\ UNCHANGED <<load, conn, active, sessTab, players, ctxDone, socket, listen, halt,
                   kicks>>

\* Failures in a row double the wait of the passthrough proxy.
PongFetched ==
    /\ pong.pc = "fetch"
    /\ \E ok \in BOOLEAN :
         pong' = [pc |-> "wait",
                  fails |-> IF ok \/ proto = "raknet" THEN 0
                            ELSE IF pong.fails = MaxFails THEN MaxFails
                            ELSE pong.fails + 1]
    /\ UNCHANGED <<load, conn, active, sessTab, players, ctxDone, socket, listen, halt,
                   kicks>>

\* Fault: the goroutine waits for the context of the whole server.
PongEndsWithServer ==
    /\ pong.pc = "wait"
    /\ ctxDone
    /\ pong' = [pong EXCEPT !.pc = "off"]
    /\ UNCHANGED <<load, conn, active, sessTab, players, ctxDone, socket, listen, halt,
                   kicks>>

PongEnds ==
    /\ pong.pc = "wait"
    /\ closing
    /\ pong' = [pong EXCEPT !.pc = "off"]
    /\ UNCHANGED <<load, conn, active, sessTab, players, ctxDone, socket, listen, halt,
                   kicks>>

-----------------------------------------------------------------------------
(* KickPlayer: connections are collected under the lock, closed without it. *)
(* A player's name is stored for it once the session exists.                 *)

KickCollect ==
    /\ proto \in {"passthrough", "mitm"}
    /\ kicks.calls < load.kicks
    /\ kicks.todo = {}
    /\ kicks' = [todo |-> {c \in active : conn[c].named /\ ~At(c, "session")}, calls |-> kicks.calls + 1]
    /\ UNCHANGED <<load, conn, active, sessTab, players, ctxDone, socket, listen, halt,
                   pong>>

\* Fault: the player is told to go, the connection stays.
KickTells(c) ==
    /\ c \in kicks.todo
    /\ conn' = [conn EXCEPT ![c].kicked = TRUE]
    /\ kicks' = [kicks EXCEPT !.todo = @ \ {c}]
    /\ UNCHANGED <<load, active, sessTab, players, ctxDone, socket, listen, halt, pong>>

KickClose(c) ==
    /\ c \in kicks.todo
    /\ conn' = [conn EXCEPT ![c] = [@ EXCEPT !.cli = "closed", !.kicked = TRUE]]
    /\ kicks' = [kicks EXCEPT !.todo = @ \ {c}]
    /\ UNCHANGED <<load, active, sessTab, players, ctxDone, socket, listen, halt, pong>>

-----------------------------------------------------------------------------
(* Stop.                                                                   *)

\* ProxyServer.Stop cancels the context before it stops the listeners.
CancelContext ==
    /\ load.scope = "all"
    /\ ~ctxDone
    /\ ctxDone' = TRUE
    /\ UNCHANGED <<load, conn, active, sessTab, players, socket, listen, halt, kicks,
                   pong>>

\* closed is set and the refresh cancelled; the TCP proxy closes its listener first.
StopBegins ==
    /\ ~closing
    /\ load.scope = "all" => ctxDone
    /\ halt' = "close"
    /\ socket' = (proto # "tcp")
    /\ UNCHANGED <<load, conn, active, sessTab, players, ctxDone, listen, kicks, pong>>

\* The connections in the table are closed (not by the RakNet proxy), then the listener.
StopCloses ==
    /\ halt = "close"
    /\ halt' = "wait"
    /\ socket' = FALSE
    /\ IF proto = "raknet"
         THEN UNCHANGED <<conn, active>>
         ELSE /\ conn' = [c \in Ids |-> IF c \in active
                                          THEN [conn[c] EXCEPT !.cli = "closed"]
                                          ELSE conn[c]]
              /\ active' = {}
    /\ UNCHANGED <<load, sessTab, players, ctxDone, listen, kicks, pong>>

\* A handler is counted by the wait group from Spawn on.
Handled(c) == conn[c].pc \notin {"none", "chan", "done"}

StreamStopReturns ==
    /\ halt = "wait"
    /\ \A c \in Ids : ~Handled(c)
    /\ pong.pc = "off"
    /\ halt' = "done"
    /\ UNCHANGED <<load, conn, active, sessTab, players, ctxDone, socket, listen, kicks,
                   pong>>

-----------------------------------------------------------------------------
HandlerStep(c) ==
    \/ Spawn(c) \/ Register(c) \/ PassthroughHello(c) \/ RakNetHello(c) \/ MITMHello(c)
    \/ TCPHello(c) \/ TurnedAway(c) \/ Dial(c) \/ DialFails(c) \/ Greet(c) \/ GreetFails(c)
    \/ CreateSession(c) \/ Refuse(c) \/ SendLogin(c)
    \/ StartGame(c) \/ SpawnFails(c) \/ LoopNotices(c) \/ RelayEnds(c) \/ TCPUp(c)
    \/ TCPDown(c) \/ Unregister(c) \/ CloseClient(c) \/ ClientTimesOut(c)

StreamNext ==
    \/ \E c \in Ids :
         \/ Accept(c)
         \/ HandlerStep(c)
         \/ NotTaken(c) \/ LoopGivesUp(c) \/ Identify(c) \/ TCPWriteFails(c)
         \/ ClientLeaves(c) \/ TargetLeaves(c)
         \/ KickClose(c)
    \/ ListenEnds \/ PongTick \/ PongFetched \/ PongEnds
    \/ KickCollect \/ CancelContext \/ StopBegins \/ StopCloses \/ StreamStopReturns

\* Goroutines run, dials and reads have timeouts, the library gives up on silent peers;
\* nobody has to connect, to disconnect, to kick or to stop.
StreamFairness ==
    /\ \A c \in Ids : WF_streamVars(HandlerStep(c) \/ KickClose(c))
    /\ WF_streamVars(PongFetched \/ PongEnds)
    /\ WF_streamVars(StopCloses \/ StreamStopReturns)

StreamSpec == StreamInit /\ [][StreamNext]_streamVars /\ StreamFairness

-----------------------------------------------------------------------------
(* Properties.                                                             *)

\* A player the access list or the verifier refused gets no Login through to the target
\* (passthrough, MITM); the RakNet proxy, which learns the name when it has forwarded,
\* closes the connection, unless another handler of the address has meanwhile replaced
\* or deleted its entry of activeConns (handleConnection, searchForPlayerInfo).
RefusedKeptOut ==
    \A c \in Ids : conn[c].denied =>
        IF proto = "raknet"
          THEN \/ conn[c].cli = "closed"
               \/ \E d \in Ids \ {c} : /\ addr(d) = addr(c)
                                       /\ conn[d].pc \notin {"none", "chan", "start"}
          ELSE ~conn[c].login

\* A session in the table has a handler that will remove it, or one that went on a path
\* that leaves it to the collector (handleConnection of the three RakNet listeners).
NoGhostSession ==
    \A a \in Addrs : sessTab[a] # 0 =>
        \E c \in Ids : /\ conn[c].sid = sessTab[a]
                       /\ conn[c].left \/ Handled(c)

\* A player who plays is listed, with the session its traffic is counted in, unless a
\* handler of the same address has ended meanwhile or the player logged in once more
\* (sessionMgr.Remove by address, RemoveByXUID).
PlayerListed ==
    \A c \in Ids :
        (At(c, "relay") /\ conn[c].sid # 0 /\ sessTab[addr(c)] # conn[c].sid) =>
            \E d \in Ids \ {c} :
                \/ addr(d) = addr(c) /\ conn[d].pc \in {"leave", "close", "done"}
                \/ proto = "passthrough" /\ (conn[d].named \/ At(d, "done"))

\* When one side of a connection goes, the handler lets go of the other; only the TCP
\* relay waits for the target (forwarding loops, relayStream).
BothSidesEnd ==
    []<>(\A c \in Ids : (Handled(c) /\ Broken(c)) =>
            proto = "tcp" /\ conn[c].rem \in {"open", "half"})

\* A player whom KickPlayer found is gone in the end.
KickedLeaves ==
    []<>(\A c \in Ids : conn[c].kicked => At(c, "done"))

\* Stop returns, unless it waits for the target of a TCP relay.
StopOnlyWaitsForTCP ==
    []<>(halt \in {"close", "wait"} =>
            \E c \in Ids : proto = "tcp" /\ At(c, "relay") /\ conn[c].rem # "closed")

\* The list of sessions and the connections agree, and whom a check refused does not play.
StreamInv == StreamTypeOK /\ RefusedKeptOut /\ NoGhostSession /\ PlayerListed

\* Connections come to an end: with one side goes the other, a kick is felt, and Stop
\* waits for nobody but the target of a TCP relay.
ConnectionsEnd == BothSidesEnd /\ KickedLeaves /\ StopOnlyWaitsForTCP
=============================================================================
