------------------------------ MODULE ProxyPorts ------------------------------
(***************************************************************************)
(* The local HTTP and SOCKS ports: ProxyPortConfigManager                  *)
(* (proxy_port_manager.go), the API requests that change it                *)
(* (proxy_port_handler.go), and ProxyPortManager with its listeners,       *)
(* connections and pool of dialers (proxy_ports.go).                       *)
(*                                                                         *)
(* A change that was saved is followed by ReloadProxyPorts, which reads    *)
(* the feature's flag, then calls stopListeners without waiting, then      *)
(* Start with that flag, each under m.mu; a change whose save fails stays  *)
(* in the map without a reload.  Stop holds m.mu while it waits for the    *)
(* connections of one listener after the other.  A listener is an object   *)
(* of its own (gen); connections outlive it.  What is relayed, and how     *)
(* HTTP and SOCKS write their messages, is left out.                       *)
(***************************************************************************)
EXTENDS Naturals, FiniteSets

CONSTANTS
    PortIds,     \* proxy ports
    PortAddrs,   \* listen addresses
    PortNodes,       \* proxy outbounds a port may dial through
    PortConns,   \* connections to the ports
    PortReqs,    \* requests
    MaxGen,      \* listeners made
    PortLoads    \* what a behaviour has

Types == {"http", "socks5", "socks4", "mixed"}

\* auth: a user or a password is configured.  direct: proxy_outbound is empty or "direct".
PortCfgs == [on : BOOLEAN, addr : PortAddrs, auth : BOOLEAN, type : Types, direct : BOOLEAN]

NoPort == [on |-> FALSE, type |-> "none"]

PortConfigs == [PortIds -> PortCfgs \cup {NoPort}]

PortOps == {"create", "bulk", "update", "delete", "toggle", "config", "outbound", "edit"}

ASSUME PortConstants ==
    /\ MaxGen \in Nat \ {0} /\ IsFiniteSet(PortIds)
    /\ PortLoads \subseteq
         [first : PortConfigs, ops : SUBSET PortOps, reqs : SUBSET PortReqs,
          conns : SUBSET PortConns, sends : SUBSET PortCfgs, faults : Nat, stop : BOOLEAN]

\* No two ports of m have one address.
Distinct(m) ==
    \A i, j \in PortIds : (i # j /\ m[i] # NoPort /\ m[j] # NoPort) => m[i].addr # m[j].addr

\* Load has accepted the file.
ASSUME FirstIsDistinct == \A l \in PortLoads : Distinct(l.first)

Gens == 1 .. MaxGen

VARIABLES
    pload,     \* the bounds of this behaviour
    ports,     \* m.ports of ProxyPortConfigManager
    pfile,     \* the ports as they were saved last
    feature,   \* ProxyPortsEnabled of the global configuration
    pheld,     \* ProxyPortsEnabled as a request has copied or read it
    ptable,    \* m.listeners of ProxyPortManager; 0: none
    gen,       \* the listeners made so far
    pool,      \* nodes with an open dialer in the pool
    pconn,     \* connections
    preq,      \* requests
    pstop,     \* ProxyPortManager.Stop
    pghost     \* histories

portVars == <<pload, ports, pfile, feature, pheld, ptable, gen, pool, pconn, preq, pstop, pghost>>

NoGen == [st |-> "none"]

\* replaced: closed by a Reload; closed: by Stop.  loop: the accept loop runs.
GenStates == [st : {"open", "replaced", "closed"}, id : PortIds, cfg : PortCfgs, loop : BOOLEAN]

\* A list of nodes may name "direct".
Candidates == PortNodes \cup {"direct"}

ConnRecs ==
    [pc : {"none", "hello", "dial", "get", "relay", "closed"}, g : 0 .. MaxGen,
     proto : {"none", "http", "connect", "socks5", "socks4"}, shown : BOOLEAN,
     tried : SUBSET Candidates, node : Candidates \cup {"none"}]

\* astray: a change was not followed by a reload, or a reload held an older flag; the next
\* reload repairs it.  refused: ports whose address could not be had.  left: when Stop closed the pool, a
\* connection of a listener replaced earlier was still there.  again: ports were started
\* after Stop.
PortsTypeOK ==
    /\ pload \in PortLoads
    /\ ports \in PortConfigs /\ pfile \in PortConfigs
    /\ feature \in BOOLEAN /\ pheld \in [PortReqs -> BOOLEAN]
    /\ ptable \in [PortIds -> 0 .. MaxGen]
    /\ gen \in [Gens -> GenStates \cup {NoGen}]
    /\ pool \subseteq PortNodes
    /\ pconn \in [PortConns -> ConnRecs]
    /\ preq \in [PortReqs -> {"idle", "store", "write", "reload", "stop", "start", "done"}]
    /\ pstop \in [pc : {"no", "next", "wait", "done"}, g : 0 .. MaxGen]
    /\ pghost \in [refused : SUBSET PortIds, faults : 0 .. pload.faults, left : BOOLEAN,
                   again : BOOLEAN, astray : BOOLEAN]
    /\ \A i, j \in PortIds : (i # j /\ ptable[i] # 0) => ptable[i] # ptable[j]

NoConn == [pc |-> "none", g |-> 0, proto |-> "none", shown |-> FALSE, tried |-> {},
           node |-> "none"]

Enabled(id) == ports[id] # NoPort /\ ports[id].on

\* newProxyPortListener, and Start of it: a copy of the configuration.
Opened(id) == [st |-> "open", id |-> id, cfg |-> ports[id], loop |-> TRUE]

\* The objects for the listeners of the ports in S, made one after the other.
Allocations(S, fresh) ==
    {f \in [S -> fresh] :
       /\ \A i, j \in S : i # j => f[i] # f[j]
       /\ \A i \in S, h \in fresh : h < f[i] => \E j \in S : f[j] = h}

Fresh == {g \in Gens : gen[g] = NoGen}

\* ProxyPortManager.Start has started the enabled ports.
PortsInit ==
    /\ pload \in PortLoads
    /\ ports = pload.first /\ pfile = pload.first
    /\ feature = TRUE /\ pheld = [r \in PortReqs |-> TRUE]
    /\ LET S == {id \in PortIds : Enabled(id)}
       IN  \E f \in Allocations(S, Gens) :
             /\ ptable = [id \in PortIds |-> IF id \in S THEN f[id] ELSE 0]
             /\ gen = [g \in Gens |-> IF \E i \in S : f[i] = g
                                      THEN Opened(CHOOSE i \in S : f[i] = g) ELSE NoGen]
    /\ pool = {}
    /\ pconn = [c \in PortConns |-> NoConn]
    /\ preq = [r \in PortReqs |-> "idle"]
    /\ pstop = [pc |-> "no", g |-> 0]
    /\ pghost = [refused |-> {}, faults |-> 0, left |-> FALSE, again |-> FALSE,
                 astray |-> FALSE]

\* m.mu is free.
Free == pstop.pc \in {"no", "done"}

connVars == <<pool, pconn>>

-----------------------------------------------------------------------------
(* ProxyPortConfigManager and the requests.                                *)

\* Validate after ApplyDefaults; what can be wrong with a port is left out but a type
\* nobody serves.
ValidatePort(cfg) == cfg.type \in Types

Unique(cfg, others) == \A id \in others : ports[id] # NoPort => ports[id].addr # cfg.addr

Begins(r) == preq[r] = "idle" /\ r \in pload.reqs

\* The map is changed, then saved; the handler reloads only after a save.
Changed(r, m) ==
    /\ Begins(r)
    /\ ports' = m
    /\ \/ /\ pfile' = m
          /\ preq' = [preq EXCEPT ![r] = "reload"]
          /\ UNCHANGED pghost
       \/ /\ pghost.faults < pload.faults
          /\ preq' = [preq EXCEPT ![r] = "done"]
          /\ pghost' = [pghost EXCEPT !.faults = @ + 1, !.astray = TRUE]
          /\ UNCHANGED pfile
    /\ UNCHANGED <<pload, feature, pheld, ptable, gen, connVars, pstop>>

\* createProxyPort: AddPort.
CreatePort(r, id, cfg) ==
    /\ "create" \in pload.ops
    /\ ValidatePort(cfg)
    /\ ports[id] = NoPort /\ Unique(cfg, PortIds)
    /\ Changed(r, [ports EXCEPT ![id] = cfg])

\* Fault: AddPorts compares the new ports with the old ones only.
AddPortsUnstaged(r, i, j, c, d) ==
    /\ "bulk" \in pload.ops /\ i # j
    /\ ports[i] = NoPort /\ ports[j] = NoPort
    /\ Unique(c, PortIds) /\ Unique(d, PortIds)
    /\ Changed(r, [ports EXCEPT ![i] = c, ![j] = d])

\* createProxyPortsBulk: AddPorts, all or none.
AddPorts(r, i, j, c, d) ==
    /\ "bulk" \in pload.ops /\ i # j
    /\ ValidatePort(c) /\ ValidatePort(d)
    /\ ports[i] = NoPort /\ ports[j] = NoPort
    /\ Unique(c, PortIds) /\ Unique(d, PortIds) /\ c.addr # d.addr
    /\ Changed(r, [ports EXCEPT ![i] = c, ![j] = d])

\* updateProxyPort: UpdatePort, which may give the port another id that is free.
UpdatePort(r, id, new, cfg) ==
    /\ "update" \in pload.ops
    /\ ValidatePort(cfg)
    /\ ports[id] # NoPort
    /\ new # id => ports[new] = NoPort
    /\ Unique(cfg, PortIds \ {id})
    /\ Changed(r, [ports EXCEPT ![id] = NoPort, ![new] = cfg])

\* deleteProxyPort: DeletePort.
DeletePort(r, id) ==
    /\ "delete" \in pload.ops /\ ports[id] # NoPort
    /\ Changed(r, [ports EXCEPT ![id] = NoPort])

\* The file was edited: Load, which refuses a file with an address twice, and onChange.
LoadPorts(r, id, cfg) ==
    LET m == [pfile EXCEPT ![id] = cfg]
    IN  /\ "edit" \in pload.ops /\ Begins(r)
        /\ ValidatePort(cfg) /\ Distinct(m)
        /\ ports' = m /\ pfile' = m
        /\ preq' = [preq EXCEPT ![r] = "reload"]
        /\ UNCHANGED <<pload, feature, pheld, ptable, gen, connVars, pstop, pghost>>

\* An outbound that an enabled port may use was changed: a reload alone.
OutboundChanged(r) ==
    /\ "outbound" \in pload.ops /\ Begins(r)
    /\ preq' = [preq EXCEPT ![r] = "reload"]
    /\ UNCHANGED <<pload, ports, pfile, feature, pheld, ptable, gen, connVars, pstop, pghost>>

\* updateConfig takes a copy of the whole configuration and changes in it what the request
\* names, the flag or something else.
CopyConfig(r, on) ==
    /\ Begins(r)
    /\ \/ /\ "toggle" \in pload.ops
          /\ preq' = [preq EXCEPT ![r] = "store"]
          /\ pheld' = [pheld EXCEPT ![r] = on]
       \/ /\ "config" \in pload.ops
          /\ preq' = [preq EXCEPT ![r] = "write"]
          /\ pheld' = [pheld EXCEPT ![r] = feature]
    /\ UNCHANGED <<pload, ports, pfile, feature, ptable, gen, connVars, pstop, pghost>>

\* The copy has been saved and becomes the configuration; a reload follows only when the
\* request named the flag.
StoreConfig(r) ==
    /\ preq[r] \in {"store", "write"}
    /\ feature' = pheld[r]
    /\ preq' = [preq EXCEPT ![r] = IF preq[r] = "store" THEN "reload" ELSE "done"]
    /\ pghost' = [pghost EXCEPT !.astray = @ \/ (preq[r] = "write" /\ pheld[r] # feature)]
    /\ UNCHANGED <<pload, ports, pfile, pheld, ptable, gen, connVars, pstop>>

-----------------------------------------------------------------------------
(* ProxyPortManager: Reload, Start, Stop.                                  *)

\* ReloadProxyPorts reads the flag.
ReadFlag(r) ==
    /\ preq[r] = "reload"
    /\ pheld' = [pheld EXCEPT ![r] = feature]
    /\ preq' = [preq EXCEPT ![r] = "stop"]
    /\ UNCHANGED <<pload, ports, pfile, feature, ptable, gen, connVars, pstop, pghost>>

\* StopWithWait: the context is cancelled and the socket closed.
ClosedGen(g, st) == [gen[g] EXCEPT !.st = st]

\* Fault: Reload leaves the listeners that are there.
ReloadPortsKeeps(r) ==
    /\ preq[r] = "stop" /\ Free
    /\ preq' = [preq EXCEPT ![r] = "start"]
    /\ UNCHANGED <<pload, ports, pfile, feature, pheld, ptable, gen, connVars, pstop, pghost>>

\* stopListeners(false, false): nobody waits for connections, the dialers stay.
ReloadPortsStops(r) ==
    /\ preq[r] = "stop" /\ Free
    /\ gen' = [g \in Gens |-> IF \E id \in PortIds : ptable[id] = g
                              THEN ClosedGen(g, "replaced") ELSE gen[g]]
    /\ ptable' = [id \in PortIds |-> 0]
    /\ preq' = [preq EXCEPT ![r] = "start"]
    /\ pghost' = [pghost EXCEPT !.astray = FALSE]
    /\ UNCHANGED <<pload, ports, pfile, feature, pheld, connVars, pstop>>

\* The table and the listeners once the ports in S are started.
TableWith(S) ==
    \E f \in Allocations(S, Fresh) :
      /\ ptable' = [id \in PortIds |-> IF id \in S THEN f[id] ELSE ptable[id]]
      /\ gen' = [g \in Gens |-> IF \E i \in S : f[i] = g
                                THEN Opened(CHOOSE i \in S : f[i] = g) ELSE gen[g]]

\* Start(enabled), with the flag as it was read: every enabled port without a listener
\* gets one, by what is configured now; another program may have taken an address.
StartPorts(r) ==
    LET todo == {id \in PortIds : pheld[r] /\ Enabled(id) /\ ptable[id] = 0}
    IN  /\ preq[r] = "start" /\ Free
        /\ \E no \in SUBSET todo :
             /\ Cardinality(no) + pghost.faults <= pload.faults
             /\ TableWith(todo \ no)
             /\ pghost' = [pghost EXCEPT !.refused = no, !.faults = @ + Cardinality(no),
                                         !.again = @ \/ pstop.pc = "done",
                                         !.astray = \/ pheld[r] # feature
                                                    \/ @ /\ \E id \in PortIds : ptable[id] # 0]
        /\ preq' = [preq EXCEPT ![r] = "done"]
        /\ UNCHANGED <<pload, ports, pfile, feature, pheld, connVars, pstop>>

\* ProxyServer.Stop.
StopPortsBegins ==
    /\ pload.stop /\ pstop.pc = "no"
    /\ pstop' = [pc |-> "next", g |-> 0]
    /\ UNCHANGED <<pload, ports, pfile, feature, pheld, ptable, gen, connVars, preq, pghost>>

\* stopListeners(true, true): the next listener is closed; the others still accept.
StopPortsNext ==
    /\ pstop.pc = "next"
    /\ \E id \in PortIds :
         /\ ptable[id] # 0
         /\ gen' = [gen EXCEPT ![ptable[id]] = ClosedGen(ptable[id], "closed")]
         /\ pstop' = [pc |-> "wait", g |-> ptable[id]]
         /\ UNCHANGED <<pload, ports, pfile, feature, pheld, ptable, connVars, preq, pghost>>

Handling(c) == pconn[c].pc \notin {"none", "closed"}

\* Fault: Stop does not wait.
StopPortsGoesOn ==
    /\ pstop.pc = "wait"
    /\ ptable' = [id \in PortIds |-> IF ptable[id] = pstop.g THEN 0 ELSE ptable[id]]
    /\ pstop' = [pc |-> "next", g |-> 0]
    /\ UNCHANGED <<pload, ports, pfile, feature, pheld, gen, connVars, preq, pghost>>

\* wg.Wait of the listener: the accept loop and the connections.
StopPortsWaited ==
    /\ pstop.pc = "wait"
    /\ ~gen[pstop.g].loop
    /\ \A c \in PortConns : Handling(c) => pconn[c].g # pstop.g
    /\ ptable' = [id \in PortIds |-> IF ptable[id] = pstop.g THEN 0 ELSE ptable[id]]
    /\ pstop' = [pc |-> "next", g |-> 0]
    /\ UNCHANGED <<pload, ports, pfile, feature, pheld, gen, connVars, preq, pghost>>

\* CloseAll.
StopPortsEnds ==
    /\ pstop.pc = "next" /\ \A id \in PortIds : ptable[id] = 0
    /\ pool' = {}
    /\ pstop' = [pc |-> "done", g |-> 0]
    /\ pghost' = [pghost EXCEPT !.left =
                    \E c \in PortConns : Handling(c) /\ gen[pconn[c].g].st = "replaced"]
    /\ UNCHANGED <<pload, ports, pfile, feature, pheld, ptable, gen, pconn, preq>>

-----------------------------------------------------------------------------
(* Connections.                                                            *)

ctl == <<pload, ports, pfile, feature, pheld, ptable, preq, pstop, pghost>>

cfgOf(c) == gen[pconn[c].g].cfg

GotoConn(c, rec) == pconn' = [pconn EXCEPT ![c] = rec]

\* handleConn returns: the connection and what it dialled are closed.
Done(c) == GotoConn(c, [NoConn EXCEPT !.pc = "closed"])

\* acceptLoop; isAllowed may turn the client away at once.
AcceptConn(c, g) ==
    /\ pconn[c].pc = "none" /\ c \in pload.conns
    /\ gen[g].st = "open" /\ gen[g].loop
    /\ \/ GotoConn(c, [NoConn EXCEPT !.pc = "hello", !.g = g])
       \/ Done(c)
    /\ UNCHANGED <<ctl, gen, pool>>

\* Fault: the loop takes the error of a closed listener for a temporary one.
AcceptRetries(g) == gen[g].st \in {"replaced", "closed"} /\ UNCHANGED portVars

AcceptEnds(g) ==
    /\ gen[g].st \in {"replaced", "closed"} /\ gen[g].loop
    /\ gen' = [gen EXCEPT ![g].loop = FALSE]
    /\ UNCHANGED <<ctl, connVars>>

\* handleMixed looks at the first byte; the other types expect their own protocol.
Speaks(type) ==
    CASE type = "mixed" -> {"http", "connect", "socks5", "socks4"}
      [] type = "http" -> {"http", "connect"}
      [] OTHER -> {type}

\* Fault: a client that offers no password is let in without one.
HelloTrusts(c, p, knows) ==
    /\ pconn[c].pc = "hello" /\ p \in Speaks(cfgOf(c).type)
    /\ GotoConn(c, [pconn[c] EXCEPT !.pc = "dial", !.proto = p, !.tried = {}, !.shown = knows])
    /\ UNCHANGED <<ctl, gen, pool>>

\* The handshake: handleHTTP asks for the password with each request (checkHTTPAuth),
\* handleSocks5Handshake once; handleSocks4 has none to ask for.
Hello(c, p, knows) ==
    /\ pconn[c].pc = "hello" /\ p \in Speaks(cfgOf(c).type)
    /\ IF cfgOf(c).auth /\ ~knows /\ p # "socks4" THEN Done(c)
       ELSE GotoConn(c, [pconn[c] EXCEPT !.pc = "dial", !.proto = p, !.tried = {}, !.shown = knows])
    /\ UNCHANGED <<ctl, gen, pool>>

\* The client goes, says something else, or says nothing until the deadline.
HelloEnds(c) ==
    /\ pconn[c].pc = "hello"
    /\ Done(c)
    /\ UNCHANGED <<ctl, gen, pool>>

\* dialOutbound without a node; it may fail.
DialDirect(c) ==
    /\ pconn[c].pc = "dial" /\ cfgOf(c).direct
    /\ GotoConn(c, [pconn[c] EXCEPT !.pc = "relay", !.node = "direct"]) \/ Done(c)
    /\ UNCHANGED <<ctl, gen, pool>>

\* dialOutbound: a node that was not tried is selected, and the pool gives its dialer.
\* No node may be left to select, or no attempt.
DialSelects(c) ==
    /\ pconn[c].pc = "dial" /\ ~cfgOf(c).direct
    /\ \/ Done(c)
       \/ \E n \in Candidates \ pconn[c].tried :
             GotoConn(c, [pconn[c] EXCEPT !.pc = "get", !.node = n])
    /\ UNCHANGED <<ctl, gen, pool>>

Retry(c) ==
    GotoConn(c, [pconn[c] EXCEPT !.pc = "dial", !.tried = @ \cup {pconn[c].node}, !.node = "none"])

\* Fault: a dialer is made for "direct" as for any node.
PoolGetAny(c) ==
    /\ pconn[c].pc = "get"
    /\ pool' = pool \cup {pconn[c].node}
    /\ GotoConn(c, [pconn[c] EXCEPT !.pc = "relay"])
    /\ UNCHANGED <<ctl, gen>>

\* proxyPortDialerPool.Get keeps a dialer it makes; it may fail to make one, and the
\* dial may fail.  "direct" is dialled without the pool.
PoolGet(c) ==
    LET n == pconn[c].node
    IN  /\ pconn[c].pc = "get"
        /\ \/ /\ pool' = pool \cup ({n} \ {"direct"})
              /\ GotoConn(c, [pconn[c] EXCEPT !.pc = "relay"]) \/ Retry(c)
           \/ n \notin pool /\ UNCHANGED pool /\ Retry(c)
        /\ UNCHANGED <<ctl, gen>>

\* One request and its answer were passed on: the next may follow on the connection.
HTTPAgain(c) ==
    /\ pconn[c].pc = "relay" /\ pconn[c].proto = "http"
    /\ GotoConn(c, [NoConn EXCEPT !.pc = "hello", !.g = pconn[c].g])
    /\ UNCHANGED <<ctl, gen, pool>>

\* The client or the target ends it.
RelayDone(c) ==
    /\ pconn[c].pc = "relay"
    /\ Done(c)
    /\ UNCHANGED <<ctl, gen, pool>>

-----------------------------------------------------------------------------

ReqStep(r) == StoreConfig(r) \/ ReadFlag(r) \/ ReloadPortsStops(r) \/ StartPorts(r)

StopStep == StopPortsNext \/ StopPortsWaited \/ StopPortsEnds

\* Dials and handshakes have deadlines.
ConnStep(c) == HelloEnds(c) \/ DialDirect(c) \/ DialSelects(c) \/ PoolGet(c)

PortsNext ==
    \/ \E r \in PortReqs :
         \/ ReqStep(r) \/ OutboundChanged(r)
         \/ \E on \in BOOLEAN : CopyConfig(r, on)
         \/ \E id \in PortIds :
              \/ DeletePort(r, id)
              \/ \E cfg \in pload.sends :
                   \/ CreatePort(r, id, cfg) \/ LoadPorts(r, id, cfg)
                   \/ \E new \in PortIds : UpdatePort(r, id, new, cfg)
                   \/ \E j \in PortIds, d \in pload.sends : AddPorts(r, id, j, cfg, d)
    \/ StopPortsBegins \/ StopStep
    \/ \E g \in Gens : AcceptEnds(g) \/ \E c \in PortConns : AcceptConn(c, g)
    \/ \E c \in PortConns :
         \/ ConnStep(c) \/ HTTPAgain(c) \/ RelayDone(c)
         \/ \E p \in {"http", "connect", "socks5", "socks4"}, knows \in BOOLEAN :
              Hello(c, p, knows)

\* Requests and Stop go on when the lock is free; handlers meet their deadlines.  Nobody
\* has to end a relay.
PortsFairness ==
    /\ WF_portVars((\E r \in PortReqs : ReqStep(r)) \/ StopStep)
    /\ WF_portVars(\E g \in Gens : AcceptEnds(g))
    /\ WF_portVars(\E c \in PortConns : ConnStep(c))

PortsSpec == PortsInit /\ [][PortsNext]_portVars /\ PortsFairness

-----------------------------------------------------------------------------

\* When no request is under way, the listeners are those of the enabled ports (none, with
\* the feature off) with the configuration of now, whatever the order of two requests and
\* their reloads; only a port whose address is taken has none.  Until the next reload they
\* may differ when a save failed, when updateConfig wrote back an older flag with another
\* setting, or when a reload started late with a flag it had read before it was changed.
PortsFollow ==
    (pstop.pc = "no" /\ ~pghost.astray /\ \A r \in PortReqs : preq[r] \in {"idle", "done"}) =>
      \A id \in PortIds \ pghost.refused :
        /\ (ptable[id] # 0) <=> (feature /\ Enabled(id))
        /\ ptable[id] # 0 => gen[ptable[id]].cfg = ports[id] /\ gen[ptable[id]].st = "open"

\* No two ports have one address, ports added together included (AddPorts stages them).
AddrsUnique == Distinct(ports)

\* Traffic passes through a port with a password only after the password was shown for it,
\* on each request of an HTTP connection that is kept; SOCKS4 clients are never asked.
AuthFirst ==
    \A c \in PortConns :
      pconn[c].pc \in {"dial", "get", "relay"} =>
        (cfgOf(c).auth => pconn[c].shown \/ pconn[c].proto = "socks4")

\* After Stop no dialer is left open in the pool, except by a connection of a listener
\* that an earlier Reload had replaced (nobody waits for those), or of one started since.
DialersClosed == (pstop.pc = "done" /\ ~pghost.left /\ ~pghost.again) => pool = {}

\* Stop returns, unless a relay, or an HTTP client that keeps asking, does not end: the
\* connections are not told.
PortsStopReturns ==
    []<>(pstop.pc \in {"no", "done"} \/ \E c \in PortConns : Handling(c) /\ pconn[c].pc = "relay")

\* Port listeners follow the configuration, connections their port's settings, and the
\* pool of dialers the manager's life.
PortsInv == PortsTypeOK /\ PortsFollow /\ AddrsUnique /\ AuthFirst /\ DialersClosed
===============================================================================
