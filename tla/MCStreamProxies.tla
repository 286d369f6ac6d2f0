---------------------------- MODULE MCStreamProxies ----------------------------
EXTENDS StreamProxies, PlainUDPClients

CONSTANTS a1, a2

Load(p, s, n, f, k, r) ==
    [proto |-> p, scope |-> s, conns |-> n, from |-> f, kicks |-> k, pong |-> r]

\* A player comes back from the same address, or logs in on another device.
Again == <<a1, a1>>
Other == <<a1, a2>>

StreamLoads3 ==
    {Load("passthrough", "all", 2, Other, 0, FALSE),
     Load("passthrough", "server", 2, Again, 0, FALSE),
     Load("raknet", "all", 2, Again, 0, FALSE),
     Load("raknet", "server", 2, Again, 0, FALSE),
     Load("mitm", "all", 2, Again, 0, FALSE),
     Load("mitm", "server", 2, Other, 1, FALSE),
     Load("tcp", "all", 2, Other, 0, FALSE),
     Load("tcp", "server", 2, Other, 0, FALSE),
     Load("passthrough", "all", 1, Other, 1, TRUE),
     Load("passthrough", "server", 1, Other, 1, TRUE),
     Load("raknet", "all", 1, Other, 0, TRUE),
     Load("udp", "server", 0, Other, 0, FALSE)}

\* One kind of listener per behaviour: the other module stays in its initial state,
\* in which none of its fair actions is enabled.
ListenersInit == StreamInit /\ PlainInit

ListenersNext ==
    \/ proto # "udp" /\ StreamNext /\ UNCHANGED plainVars
    \/ proto = "udp" /\ PlainNext /\ UNCHANGED streamVars

ListenersSpec ==
    /\ ListenersInit
    /\ [][ListenersNext]_<<streamVars, plainVars>>
    /\ StreamFairness /\ PlainFairness

\* Connections and clients of every kind of listener end, and Stop returns
\* (ConnectionsEnd, PlainStopEnds).
ListenersEnd == ConnectionsEnd /\ PlainStopEnds
================================================================================
