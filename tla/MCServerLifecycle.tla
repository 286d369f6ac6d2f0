-------------------------- MODULE MCServerLifecycle --------------------------
(* Loads for ServerLifecycle and ProxyPorts.                                   *)
EXTENDS ServerLifecycle, ProxyPorts

CONSTANTS s1, s2, a1, a2, b1, hidden, r1, r2, p1, p2, x1, x2, n1, c1, c2, q1, q2

E(on, kind, speed, addr) ==
    [on |-> on, kind |-> kind, speed |-> speed, addr |-> addr, marks |-> {}]

C(x, y) == [id \in Servers |-> IF id = s1 THEN x ELSE y]

Two == C(E(TRUE, "udp", FALSE, a1), E(FALSE, "udp", TRUE, a2))
Both == C(E(TRUE, "both", FALSE, a1), NoEntry)
Marked == C([E(TRUE, "udp", FALSE, a1) EXCEPT !.marks = {b1}], NoEntry)
Speed == C(E(TRUE, "udp", TRUE, a1), NoEntry)

Load(first, ops, reqs, sends, edits, fs, stop, surv) ==
    [first |-> first, ops |-> ops, reqs |-> reqs, sends |-> sends, edits |-> edits,
     faults |-> fs, stop |-> stop, survives |-> surv]

On == E(TRUE, "udp", FALSE, a1)
Off == E(FALSE, "udp", FALSE, a1)
OnSpeed == E(TRUE, "udp", TRUE, a1)
OnBoth == E(TRUE, "both", FALSE, a2)
Wrong == E(TRUE, "both", TRUE, a2)

NoLife == Load(NoConfig, {}, {}, {}, {}, 0, FALSE, TRUE)

LifeLoads3 ==
    {NoLife,
     \* One request at a time against the watcher, with a fault.
     Load(Two, {"create", "update", "delete"}, {r1}, {On, OnBoth, OnSpeed, Wrong}, {}, 1, FALSE, TRUE),
     \* Two requests of one server.
     Load(Speed, {"update", "reload"}, {r1, r2}, {Off, OnSpeed}, {}, 0, FALSE, TRUE),
     \* Bans, while the watch is lost with the first save.
     Load(Marked, {"mark", "unmark", "update", "delete"}, {r1, r2}, {On}, {}, 0, FALSE, FALSE),
     \* Start and stop by hand, and Stop of the program.
     Load(Two, {"start", "stop", "reload", "delete"}, {r1, r2}, {}, {}, 0, TRUE, TRUE),
     \* Edits of the file, a fault and Stop.
     Load(Speed, {"reload", "start"}, {r1}, {}, {Both, Two, C(Wrong, NoEntry), NoConfig}, 1, TRUE, TRUE),
     Load(Both, {"start"}, {r1}, {}, {Speed}, 1, FALSE, TRUE)}

P(on, addr, auth, type, direct) ==
    [on |-> on, addr |-> addr, auth |-> auth, type |-> type, direct |-> direct]

CP(x, y) == [id \in PortIds |-> IF id = p1 THEN x ELSE y]

PLoad(first, ops, reqs, conns, sends, fs, stop) ==
    [first |-> first, ops |-> ops, reqs |-> reqs, conns |-> conns, sends |-> sends,
     faults |-> fs, stop |-> stop]

NoPorts == PLoad(CP(NoPort, NoPort), {}, {}, {}, {}, 0, FALSE)

Mixed == P(TRUE, x1, TRUE, "mixed", FALSE)
Http == P(TRUE, x1, FALSE, "http", TRUE)
Socks5 == P(TRUE, x2, TRUE, "socks5", FALSE)

PortLoads3 ==
    {NoPorts,
     \* Two requests and their reloads, one address taken by another program.
     PLoad(CP(Mixed, NoPort), {"update", "toggle", "delete"}, {q1, q2}, {}, {Http, Socks5}, 1, FALSE),
     PLoad(CP(Mixed, NoPort), {"toggle", "config", "outbound"}, {q1, q2}, {}, {}, 0, FALSE),
     PLoad(CP(NoPort, NoPort), {"create", "bulk"}, {q1, q2}, {}, {Http, P(FALSE, x2, TRUE, "mixed", FALSE)}, 0, FALSE),
     \* A connection, a reload under it, and Stop.
     PLoad(CP(Mixed, P(TRUE, x2, FALSE, "socks4", TRUE)), {"edit"}, {q1}, {c1}, {Http}, 0, TRUE),
     \* Two connections and Stop.
     PLoad(CP(Socks5, P(TRUE, x1, FALSE, "http", FALSE)), {}, {}, {c1, c2}, {}, 0, TRUE)}

\* The servers or the ports.
ManagersInit == LifeInit /\ PortsInit /\ (lload = NoLife \/ pload = NoPorts)

ManagersNext ==
    \/ LifeNext /\ UNCHANGED portVars
    \/ PortsNext /\ UNCHANGED lifeVars

ManagersSpec ==
    /\ ManagersInit
    /\ [][ManagersNext]_<<lifeVars, portVars>>
    /\ LifeFairness /\ PortsFairness

\* Both managers come to rest: reloads do not feed on themselves, and Stop of the ports
\* returns unless a relay lives on (Settles, PortsStopReturns).
ManagersSettle == Settles /\ PortsStopReturns
===============================================================================
