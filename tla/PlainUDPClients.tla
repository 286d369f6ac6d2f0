--------------------------- MODULE PlainUDPClients ---------------------------
(***************************************************************************)
(* The client table of the plain UDP proxy (plain_udp_proxy.go) for one    *)
(* client address: the Listen loop, a forwardResponses goroutine for each  *)
(* client, and Stop.  Datagrams are left out; what counts is whether the   *)
(* socket of a client is closed once and its goroutine ends.               *)
(***************************************************************************)
EXTENDS Naturals

CONSTANTS
    MaxPlain,    \* plainUDPClient objects
    PlainReads   \* datagrams read from the client

ASSUME PlainConstants == MaxPlain \in Nat \ {0} /\ PlainReads \in Nat

PlainIds == 1 .. MaxPlain

VARIABLES
    entry,   \* p.clients: the client of the address, 0 for none
    plain,   \* the clients
    reader,  \* the Listen loop: what it does, for which client
    reads,   \* datagrams read so far
    closer   \* Stop, and the client it is at

plainVars == <<entry, plain, reader, reads, closer>>

\* idle: nothing came from either side for idleTimeout; keyed: history: Stop's
\* Delete(key) took this client out after it had closed another.
PlainStates ==
    [sock : {"none", "open", "closed"}, idle : BOOLEAN,
     fwd : {"none", "run", "exit", "done"}, keyed : BOOLEAN]

PlainTypeOK ==
    /\ entry \in 0 .. MaxPlain
    /\ plain \in [PlainIds -> PlainStates]
    /\ reader \in [pc : {"read", "find", "dial", "off"}, g : {0}] \cup [pc : {"write"}, g : PlainIds]
    /\ reads \in 0 .. PlainReads
    /\ closer \in [pc : {"no", "range", "delete", "wait", "done"}, g : 0 .. MaxPlain]

PlainInit ==
    /\ entry = 0
    /\ plain = [g \in PlainIds |-> [sock |-> "none", idle |-> FALSE, fwd |-> "none",
                                     keyed |-> FALSE]]
    /\ reader = [pc |-> "read", g |-> 0]
    /\ reads = 0
    /\ closer = [pc |-> "no", g |-> 0]

plainClosed == closer.pc # "no"

\* removeClientIfMatch: whoever takes the client out of the table closes its socket;
\* nobody else can find the client in between, and the two are one step.
RemoveIfMatch(g) ==
    /\ entry' = IF entry = g THEN 0 ELSE entry
    /\ plain' = [plain EXCEPT ![g] =
                   [plain[g] EXCEPT !.sock = IF entry = g THEN "closed" ELSE @]]

\* ReadFromUDP returns a datagram of the client.
PlainRead ==
    /\ reader.pc = "read"
    /\ ~plainClosed
    /\ reads < PlainReads
    /\ reads' = reads + 1
    /\ reader' = [pc |-> "find", g |-> 0]
    /\ UNCHANGED <<entry, plain, closer>>

\* Fault: the result of Load is not looked at.
FindUnchecked ==
    /\ reader.pc = "find"
    /\ reader' = [pc |-> "write", g |-> entry]
    /\ UNCHANGED <<entry, plain, reads, closer>>

\* The client may be known.
PlainFind ==
    /\ reader.pc = "find"
    /\ reader' = IF entry = 0 THEN [pc |-> "dial", g |-> 0] ELSE [pc |-> "write", g |-> entry]
    /\ UNCHANGED <<entry, plain, reads, closer>>

\* getOrCreateClient: the target is dialled, the client stored, its goroutine started.
PlainStore ==
    /\ reader.pc = "dial"
    /\ \E g \in PlainIds :
         /\ plain[g].sock = "none"
         /\ \A h \in PlainIds : h < g => plain[h].sock # "none"
         /\ entry' = g
         /\ plain' = [plain EXCEPT ![g] = [@ EXCEPT !.sock = "open", !.fwd = "run"]]
         /\ reader' = [pc |-> "write", g |-> g]
    /\ UNCHANGED <<reads, closer>>

PlainDialFails ==
    /\ reader.pc = "dial"
    /\ reader' = [pc |-> "read", g |-> 0]
    /\ UNCHANGED <<entry, plain, reads, closer>>

\* The datagram is written, or dropped for an error that passes.
PlainWrite ==
    /\ reader.pc = "write"
    /\ plain[reader.g].sock = "open"
    /\ plain' = [plain EXCEPT ![reader.g].idle = FALSE]
    /\ reader' = [pc |-> "read", g |-> 0]
    /\ UNCHANGED <<entry, reads, closer>>

\* Fault: the client is taken out of the table, its socket stays.
WriteFailsOpen ==
    /\ reader.pc = "write"
    /\ entry' = IF entry = reader.g THEN 0 ELSE entry
    /\ reader' = [pc |-> "read", g |-> 0]
    /\ UNCHANGED <<plain, reads, closer>>

\* The socket is broken or closed.
PlainWriteFails ==
    /\ reader.pc = "write"
    /\ RemoveIfMatch(reader.g)
    /\ reader' = [pc |-> "read", g |-> 0]
    /\ UNCHANGED <<reads, closer>>

\* The listener's socket is closed, or the context is done.
PlainListenEnds ==
    /\ reader.pc = "read"
    /\ plainClosed
    /\ reader' = [pc |-> "off", g |-> 0]
    /\ UNCHANGED <<entry, plain, reads, closer>>

\* A response of the target reaches the client.
PlainResponse(g) ==
    /\ plain[g].fwd = "run" /\ plain[g].sock = "open"
    /\ plain[g].idle
    /\ plain' = [plain EXCEPT ![g].idle = FALSE]
    /\ UNCHANGED <<entry, reader, reads, closer>>

\* idleTimeout passes.
PlainQuiet(g) ==
    /\ plain[g].sock = "open" /\ ~plain[g].idle
    /\ plain' = [plain EXCEPT ![g].idle = TRUE]
    /\ UNCHANGED <<entry, reader, reads, closer>>

\* Fault: only errors end the goroutine.
ForwardWaits(g) ==
    /\ plain[g].fwd = "run"
    /\ plain[g].sock = "closed"
    /\ plain' = [plain EXCEPT ![g].fwd = "exit"]
    /\ UNCHANGED <<entry, reader, reads, closer>>

\* A read timed out or failed and the proxy is closed, the client idle or the socket closed.
ForwardGivesUp(g) ==
    /\ plain[g].fwd = "run"
    /\ plainClosed \/ plain[g].idle \/ plain[g].sock = "closed"
    /\ plain' = [plain EXCEPT ![g].fwd = "exit"]
    /\ UNCHANGED <<entry, reader, reads, closer>>

\* The socket breaks: an error that does not pass.
ForwardFails(g) ==
    /\ plain[g].fwd = "run"
    /\ plain' = [plain EXCEPT ![g].fwd = "exit"]
    /\ UNCHANGED <<entry, reader, reads, closer>>

ForwardExit(g) ==
    /\ plain[g].fwd = "exit"
    /\ entry' = IF entry = g THEN 0 ELSE entry
    /\ plain' = [plain EXCEPT ![g] =
                   [plain[g] EXCEPT !.fwd = "done",
                                    !.sock = IF entry = g THEN "closed" ELSE @]]
    /\ UNCHANGED <<reader, reads, closer>>

\* Stop closes the listener and goes over the table,
PlainStop ==
    /\ ~plainClosed
    /\ closer' = [pc |-> "range", g |-> 0]
    /\ UNCHANGED <<entry, plain, reader, reads>>

\* closes the socket of the client it is given,
PlainStopCloses ==
    /\ closer.pc = "range"
    /\ closer' = [pc |-> IF entry = 0 THEN "wait" ELSE "delete", g |-> entry]
    /\ plain' = [g \in PlainIds |-> IF g = entry THEN [plain[g] EXCEPT !.sock = "closed"]
                                    ELSE plain[g]]
    /\ UNCHANGED <<entry, reader, reads>>

\* and deletes the key.
PlainStopDeletes ==
    /\ closer.pc = "delete"
    /\ entry' = 0
    /\ plain' = [g \in PlainIds |-> IF g = entry THEN [plain[g] EXCEPT !.keyed = (g # closer.g)]
                                    ELSE plain[g]]
    /\ closer' = [pc |-> "wait", g |-> 0]
    /\ UNCHANGED <<reader, reads>>

PlainStopReturns ==
    /\ closer.pc = "wait"
    /\ \A g \in PlainIds : plain[g].fwd \notin {"run", "exit"}
    /\ closer' = [pc |-> "done", g |-> 0]
    /\ UNCHANGED <<entry, plain, reader, reads>>

PlainReaderStep ==
    PlainFind \/ PlainStore \/ PlainDialFails \/ PlainWrite \/ PlainWriteFails
      \/ PlainListenEnds

PlainForwarderStep(g) == ForwardGivesUp(g) \/ ForwardExit(g)

PlainNext ==
    \/ PlainRead \/ PlainReaderStep
    \/ \E g \in PlainIds :
         PlainForwarderStep(g) \/ ForwardFails(g) \/ PlainResponse(g) \/ PlainQuiet(g)
    \/ PlainStop \/ PlainStopCloses \/ PlainStopDeletes \/ PlainStopReturns

PlainFairness ==
    /\ WF_plainVars(PlainReaderStep)
    /\ \A g \in PlainIds : WF_plainVars(PlainForwarderStep(g))
    /\ WF_plainVars(PlainStopCloses \/ PlainStopDeletes \/ PlainStopReturns)

PlainSpec == PlainInit /\ [][PlainNext]_plainVars /\ PlainFairness

-----------------------------------------------------------------------------
\* An open socket belongs to the client in the table or to one whose goroutine runs.
\* Only a client that Stop deleted by key while it had closed an earlier one is lost:
\* its goroutine finds no entry to remove and leaves the socket open
\* (removeClientIfMatch, Stop).
SocketOwned ==
    \A g \in PlainIds :
        plain[g].sock = "open" => g = entry \/ plain[g].keyed

\* A goroutine whose proxy is stopped, or whose client has gone, ends, and Stop returns
\* (forwardResponses).
PlainStopEnds == []<>(closer.pc \notin {"range", "delete", "wait"})

\* The table of the plain UDP proxy accounts for every open socket.
PlainInv == PlainTypeOK /\ SocketOwned
=============================================================================
