---------------------------- MODULE NodeSelection ----------------------------
(***************************************************************************)
(* How one server (or proxy port) gets its outbound node:                  *)
(* SelectOutboundWithFailoverForServer (outbound_manager.go), the load     *)
(* balancer, the failover loop of dialWithLoadBalancing (proxy_dialer.go)  *)
(* and the automatic switch of the ping worker (proxy.go), beside an       *)
(* operator who pins and bans nodes and nodes that fail and recover.       *)
(*                                                                         *)
(* The selection reads the bans, the manual flag, the best node, the pin   *)
(* and the nodes one after another under different locks; each read is a   *)
(* step.  The selector is a group or a list of nodes that support the sort *)
(* of the server; latencies are those of this server.                      *)
(***************************************************************************)
EXTENDS Integers, Sequences, FiniteSets

CONSTANTS
    Nodes,       \* the names in the selector, but for Direct
    Direct,      \* DirectNodeName
    Order,       \* the names in the selector, as a sequence without repetitions
    Strategies,  \* the strategies to look at
    Dialers,     \* goroutines that connect to the server
    Lats,        \* latencies in milliseconds, 0 for none
    MinGain,     \* autoSwitchMinLatencyGainMs
    GainShare,   \* 1 / autoSwitchMinRelativeGain
    MaxChanges,  \* bound on what operator, network and clock do
    None

Selector == {Order[i] : i \in 1 .. Len(Order)}

ASSUME Constants ==
    /\ Order \in Seq(Nodes \cup {Direct})
    /\ Nodes \subseteq Selector
    /\ Nodes # {}
    /\ Direct \notin Nodes
    /\ None \notin Nodes \cup {Direct}
    /\ Strategies \subseteq {"least-latency", "round-robin", "random",
                             "least-connections"}
    /\ Lats \subseteq Nat
    /\ 0 \in Lats
    /\ MinGain \in Nat \ {0}
    /\ GainShare \in Nat \ {0}
    /\ MaxChanges \in Nat

VARIABLES
    strategy,  \* load_balance of the server
    node,      \* the state of each node
    lat,       \* serverNodeLatency of this server
    pin,       \* serverSelectedNode
    manual,    \* serverManualNode
    bans,      \* the active AutoSelectBlockedNodes of the server
    rr,        \* roundRobinIndex of the selector
    last,      \* history: the last pick of selectRoundRobin and its nodes
    job,       \* what each dialer is doing
    sw,        \* what the ping worker is doing
    seen,      \* observedSelectedNode
    dwell,     \* lastSwitch is less than autoSwitchMinDwell ago
    changes    \* what operator, network and clock have done so far

vars == <<strategy, node, lat, pin, manual, bans, rr, last, job, sw, seen, dwell,
          changes>>

\* What dialers and the worker's reads leave alone, what a dial leaves alone, and
\* what only selectRoundRobin changes.
settings == <<strategy, lat, pin, manual, bans, changes>>

workerVars == <<sw, seen, dwell>>

turn == <<rr, last>>

\* "failed": unhealthy for less than 30 seconds; "out": deleted, disabled or
\* blocked for automatic selection.
NodeStates == {"ok", "failed", "out"}

\* tried: excludedNodes; blk, man, best, ms: what the selection has read; at: the
\* pin it has read, then the node it has selected.
NoJob == [pc |-> "idle", tried |-> {}, blk |-> {}, man |-> FALSE, best |-> None,
          ms |-> 0, at |-> None]

Jobs == [pc : {"idle", "bans", "manual", "best", "pin", "check", "select", "dial",
               "open"},
         tried : SUBSET Selector, blk : SUBSET Selector, man : BOOLEAN,
         best : Selector \cup {None}, ms : Lats, at : Selector \cup {None}]

Picks == [at : Selector \cup {None}, of : SUBSET Selector]

Switches == [pc : {"idle", "read", "set"}, best : Selector \cup {None}, ms : Lats]

NoSwitch == [pc |-> "idle", best |-> None, ms |-> 0]

TypeOK ==
    /\ strategy \in Strategies
    /\ node \in [Nodes -> NodeStates]
    /\ lat \in [Selector -> Lats]
    /\ pin \in Selector \cup {None}
    /\ manual \in BOOLEAN
    /\ bans \subseteq Selector
    /\ rr \in 0 .. Cardinality(Selector) - 1
    /\ last \in Picks
    /\ job \in [Dialers -> Jobs]
    /\ sw \in Switches
    /\ seen \in Selector \cup {None}
    /\ dwell \in BOOLEAN
    /\ changes \in 0 .. MaxChanges

\* The nodes may have been pinged before; only least-latency looks at the latencies.
Init ==
    /\ strategy \in Strategies
    /\ node = [n \in Nodes |-> "ok"]
    /\ lat \in [Selector -> IF strategy = "least-latency" THEN Lats ELSE {0}]
    /\ pin = None
    /\ manual = FALSE
    /\ bans = {}
    /\ rr = 0
    /\ last = [at |-> None, of |-> {}]
    /\ job = [d \in Dialers |-> NoJob]
    /\ sw = NoSwitch
    /\ seen = None
    /\ dwell = FALSE
    /\ changes = 0

-----------------------------------------------------------------------------
(* Candidates.                                                             *)

\* isSelectableOutboundLocked; "direct" always is.
Selectable(n) == n \in {Direct} \cup {m \in Nodes : node[m] = "ok"}

\* The names that GetBestNodeForServer compares.
Measured == {n \in Selector \ bans : Selectable(n) /\ lat[n] > 0}

Fastest(S) == {n \in S : \A m \in S : lat[n] <= lat[m]}

Before(m, n) ==
    \E i, j \in 1 .. Len(Order) : i < j /\ Order[i] = m /\ Order[j] = n

\* The place of n among S in the order of the selector, from 0.
Place(n, S) == Cardinality({m \in S : Before(m, n)})

First(S) == {n \in S : Place(n, S) = 0}

\* Enough faster to leave a node of latency p for one of latency b.
Gain(p, b) == p - b >= MinGain \/ (p > b /\ (p - b) * GainShare >= p)

\* Fault: the new latency and the old one are swapped.
PreferSwapped(p, b) == b > 0 /\ (p <= 0 \/ Gain(b, p))

\* shouldPreferBestNodeOverPinned.
Prefer(p, b) == b > 0 /\ (p <= 0 \/ Gain(p, b))

-----------------------------------------------------------------------------
(* SelectOutboundWithFailoverForServer, called by dialWithLoadBalancing.   *)

\* A connection wants to be dialled.
Begin(d) ==
    /\ job[d].pc = "idle"
    /\ job' = [job EXCEPT ![d] = [NoJob EXCEPT !.pc = "bans"]]
    /\ UNCHANGED <<node, turn, settings, workerVars>>

\* blockedNodesForServer.
ReadBans(d) ==
    /\ job[d].pc = "bans"
    /\ job' = [job EXCEPT ![d] = [@ EXCEPT !.pc = "manual", !.blk = bans]]
    /\ UNCHANGED <<node, turn, settings, workerVars>>

\* IsServerNodeManual; the best node matters for least-latency only.
ReadManual(d) ==
    LET next == IF strategy = "least-latency" THEN "best" ELSE "pin" IN
    /\ job[d].pc = "manual"
    /\ job' = [job EXCEPT ![d] = [@ EXCEPT !.pc = next, !.man = manual]]
    /\ UNCHANGED <<node, turn, settings, workerVars>>

\* GetBestNodeForServer; ties go to the order of a map.
ReadBest(d) ==
    /\ job[d].pc = "best"
    /\ \/ \E b \in Fastest(Measured) :
             job' = [job EXCEPT ![d] = [@ EXCEPT !.pc = "pin", !.best = b,
                                                 !.ms = lat[b]]]
       \/ /\ Measured = {}
          /\ job' = [job EXCEPT ![d] = [@ EXCEPT !.pc = "pin"]]
    /\ UNCHANGED <<node, turn, settings, workerVars>>

HonorPin(d) == job[d].man \/ strategy = "least-latency"

\* Fault: a ban does not count for a pin.
ReadPinBanned(d) ==
    /\ job[d].pc = "pin"
    /\ job' = [job EXCEPT ![d] =
                 IF HonorPin(d) /\ pin # None /\ pin \notin job[d].tried
                 THEN [@ EXCEPT !.pc = "check", !.at = pin]
                 ELSE [@ EXCEPT !.pc = "select"]]
    /\ UNCHANGED <<node, turn, settings, workerVars>>

\* Fault: a node that was tried is taken again if it is pinned.
ReadPinTried(d) ==
    /\ job[d].pc = "pin"
    /\ job' = [job EXCEPT ![d] =
                 IF HonorPin(d) /\ pin # None /\ pin \notin job[d].blk
                 THEN [@ EXCEPT !.pc = "check", !.at = pin]
                 ELSE [@ EXCEPT !.pc = "select"]]
    /\ UNCHANGED <<node, turn, settings, workerVars>>

\* GetServerSelectedNode: a manual pin counts for every strategy, an automatic
\* one for least-latency.
ReadPin(d) ==
    /\ job[d].pc = "pin"
    /\ job' = [job EXCEPT ![d] =
                 IF HonorPin(d) /\ pin \notin job[d].blk \cup job[d].tried \cup {None}
                 THEN [@ EXCEPT !.pc = "check", !.at = pin]
                 ELSE [@ EXCEPT !.pc = "select"]]
    /\ UNCHANGED <<node, turn, settings, workerVars>>

\* d has selected n.
Choose(d, n) ==
    job' = [job EXCEPT ![d] = [NoJob EXCEPT !.pc = "dial", !.tried = job[d].tried,
                                            !.at = n]]

\* The pinned node is used unless the best one is enough faster.
UsePinned(d) ==
    LET n == job[d].at
        b == job[d].best
        use == \/ job[d].man
               \/ b \in {None, n}
               \/ lat[n] > 0 /\ ~Prefer(lat[n], job[d].ms)
    IN  /\ job[d].pc = "check"
        /\ \/ /\ Selectable(n) /\ use
              /\ Choose(d, n)
           \/ /\ ~(Selectable(n) /\ use)
              /\ job' = [job EXCEPT ![d] = [@ EXCEPT !.pc = "select", !.at = None]]
        /\ UNCHANGED <<node, turn, settings, workerVars>>

\* healthyNodes of selectFromGroupForServer and selectFromNodeListForServer.
Healthy(d) == {n \in Selector \ (job[d].tried \cup bans) : Selectable(n)}

\* Connections through a node, which no other server uses; "direct" counts none.
Load(n) ==
    IF n = Direct THEN 0
    ELSE Cardinality({d \in Dialers : job[d].pc = "open" /\ job[d].at = n})

\* selectLeastLatencyForServer: without a latency of this server the global ones
\* decide, which are any.
LeastLatency(S) ==
    LET known == {n \in S : lat[n] > 0}
    IN  IF known = {} THEN S ELSE First(Fastest(known))

\* selectLeastConnections.
LeastConnections(S) == First({n \in S : \A m \in S : Load(n) <= Load(m)})

\* What the strategies without an index may select.
ByStrategy(S) ==
    CASE strategy = "least-latency" -> LeastLatency(S)
      [] strategy = "least-connections" -> LeastConnections(S)
      [] OTHER -> S

\* selectRoundRobin takes the node of this place.
Index(S) == IF rr >= Cardinality(S) THEN 0 ELSE rr

Take(d, S) ==
    \E n \in S :
        /\ Place(n, S) = Index(S)
        /\ Choose(d, n)
        /\ last' = [at |-> n, of |-> S]

\* Fault: the index is advanced without a look at the number of nodes.
RoundRobinRuns(d, S) == Take(d, S) /\ rr' = rr + 1

\* Fault: the index stays where it is.
RoundRobinStays(d, S) == Take(d, S) /\ UNCHANGED rr

\* selectRoundRobin, under the lock of the load balancer.
RoundRobin(d, S) == Take(d, S) /\ rr' = (Index(S) + 1) % Cardinality(S)

\* The nodes and, once more, the bans are read under m.mu.  An error ends the
\* dial: nothing is left to try.
Select(d) ==
    LET S == Healthy(d) IN
    /\ job[d].pc = "select"
    /\ \/ S = {} /\ job' = [job EXCEPT ![d] = NoJob] /\ UNCHANGED turn
       \/ /\ S # {}
          /\ Cardinality(S) = 1 \/ strategy # "round-robin"
          /\ \E n \in ByStrategy(S) : Choose(d, n)
          /\ UNCHANGED turn
       \/ /\ Cardinality(S) > 1 /\ strategy = "round-robin"
          /\ RoundRobin(d, S)
    /\ UNCHANGED <<node, settings, workerVars>>

\* The connection is there: the outbound manager marks the node healthy.
DialOK(d) ==
    LET n == job[d].at IN
    /\ job[d].pc = "dial"
    /\ job' = [job EXCEPT ![d] = [NoJob EXCEPT !.pc = "open", !.at = n]]
    /\ node' = IF n \in Nodes /\ node[n] = "failed"
               THEN [node EXCEPT ![n] = "ok"] ELSE node
    /\ UNCHANGED <<turn, settings, workerVars>>

\* The dial fails, which may mark the node unhealthy: exclude it and select again,
\* unless the caller's context is done.
DialFails(d) ==
    LET n == job[d].at IN
    /\ job[d].pc = "dial"
    /\ \/ job' = [job EXCEPT ![d] = [NoJob EXCEPT !.pc = "bans",
                                                  !.tried = job[d].tried \cup {n}]]
       \/ job' = [job EXCEPT ![d] = NoJob]
    /\ \/ UNCHANGED node
       \/ n \in Nodes /\ node[n] = "ok" /\ node' = [node EXCEPT ![n] = "failed"]
    /\ UNCHANGED <<turn, settings, workerVars>>

Disconnect(d) ==
    /\ job[d].pc = "open"
    /\ job' = [job EXCEPT ![d] = NoJob]
    /\ UNCHANGED <<node, turn, settings, workerVars>>

-----------------------------------------------------------------------------
(* maybeAutoSwitchServerNode, after the nodes were pinged.                 *)

SwitchBest ==
    /\ sw.pc = "idle"
    /\ strategy = "least-latency"
    /\ \E b \in Fastest(Measured) : sw' = [pc |-> "read", best |-> b, ms |-> lat[b]]
    /\ UNCHANGED <<node, turn, settings, job, seen, dwell>>

\* Read the pin, the sessions and the latency of the pinned node.  A pin that is
\* not the one observed before starts a new dwell time.
SwitchRead ==
    LET wait == IF seen # pin THEN pin # None ELSE dwell
        go == /\ pin # sw.best
              /\ \A d \in Dialers : job[d].pc # "open"
              /\ \/ pin = None
                 \/ lat[pin] = 0
                 \/ Gain(lat[pin], sw.ms) /\ ~wait
    IN  /\ sw.pc = "read"
        /\ sw' = IF go THEN [sw EXCEPT !.pc = "set"] ELSE NoSwitch
        /\ seen' = pin
        /\ dwell' = wait
        /\ UNCHANGED <<node, turn, settings, job>>

\* SetServerSelectedNode clears the manual flag.
SwitchSet ==
    /\ sw.pc = "set"
    /\ pin' = sw.best
    /\ manual' = FALSE
    /\ seen' = sw.best
    /\ dwell' = TRUE
    /\ sw' = NoSwitch
    /\ UNCHANGED <<strategy, node, lat, bans, turn, job, changes>>

-----------------------------------------------------------------------------
(* The operator, the network and time.                                     *)

Change == changes < MaxChanges /\ changes' = changes + 1

\* SwitchServerNode with a node pins it; without one, the best node or the result
\* of a selection, which may be outdated, becomes an automatic pin.
SwitchServerNode(n, man) ==
    /\ man => n \in Nodes
    /\ pin' = n
    /\ manual' = man
    /\ Change
    /\ UNCHANGED <<strategy, node, lat, bans, turn, job, workerVars>>

\* BlockServerNode and UnblockServerNode copy the server's entry, change the copy
\* and write it back.  Two requests at a time may lose one change, which leaves bans
\* that single requests reach as well.
BlockServerNode(n) ==
    /\ n \notin bans
    /\ bans' = bans \cup {n}
    /\ Change
    /\ UNCHANGED <<strategy, node, lat, pin, manual, turn, job, workerVars>>

\* UnblockServerNode, or the ban expires.
UnblockServerNode(n) ==
    /\ n \in bans
    /\ bans' = bans \ {n}
    /\ Change
    /\ UNCHANGED <<strategy, node, lat, pin, manual, turn, job, workerVars>>

\* setServerNodeLatencyAt; a sample may also expire.
SetServerNodeLatency(n, ms) ==
    /\ strategy = "least-latency"
    /\ lat[n] # ms
    /\ lat' = [lat EXCEPT ![n] = ms]
    /\ Change
    /\ UNCHANGED <<strategy, node, pin, manual, bans, turn, job, workerVars>>

\* Health checks, other servers' dials, edits and the passing of 30 seconds.
NodeChanges(n, s) ==
    /\ node[n] # s
    /\ node' = [node EXCEPT ![n] = s]
    /\ Change
    /\ UNCHANGED <<strategy, lat, pin, manual, bans, turn, job, workerVars>>

DwellPasses ==
    /\ dwell
    /\ dwell' = FALSE
    /\ Change
    /\ UNCHANGED <<strategy, node, lat, pin, manual, bans, turn, job, sw, seen>>

-----------------------------------------------------------------------------
Next ==
    \/ \E d \in Dialers :
          \/ Begin(d) \/ ReadBans(d) \/ ReadManual(d) \/ ReadBest(d) \/ ReadPin(d)
          \/ UsePinned(d) \/ Select(d) \/ DialOK(d) \/ DialFails(d) \/ Disconnect(d)
    \/ SwitchBest \/ SwitchRead \/ SwitchSet
    \/ \E n \in Selector, man \in BOOLEAN : SwitchServerNode(n, man)
    \/ \E n \in Selector : BlockServerNode(n) \/ UnblockServerNode(n)
    \/ \E n \in Selector, ms \in Lats : SetServerNodeLatency(n, ms)
    \/ \E n \in Nodes, s \in NodeStates : NodeChanges(n, s)
    \/ DwellPasses

Spec == Init /\ [][Next]_vars

-----------------------------------------------------------------------------
(* Properties.                                                             *)

\* d selects n in this step.
Chooses(d, n) ==
    job[d].pc \in {"check", "select"} /\ job'[d].pc = "dial" /\ job'[d].at = n

\* "A node banned for this server is never honored even when pinned": a node that
\* is banned when the selection begins and when it ends is not selected, whatever
\* is pinned, switched or measured in between.
BanRespected ==
    [][\A d \in Dialers, n \in Selector :
         Chooses(d, n) => n \notin job[d].blk \cap bans]_vars

\* A least-latency selection that no manual pin decides does not pass over the
\* best node it has seen for one so much slower that the automatic switch would
\* leave it, as long as the best node may still be selected and is as fast.
BestNotPassedOver ==
    [][\A d \in Dialers, n \in Selector :
         (/\ Chooses(d, n)
          /\ ~job[d].man
          /\ job[d].best \in Healthy(d)
          /\ lat[job[d].best] = job[d].ms)
             => lat[n] > 0 /\ ~Gain(lat[n], job[d].ms)]_vars

\* selectRoundRobin "selects nodes in sequential order, cycling through all
\* nodes": two picks in a row from the same nodes are never the same node,
\* whichever dialers make them.
RotationAdvances ==
    [][\A d \in Dialers, n \in Selector :
         (/\ Chooses(d, n) /\ job[d].pc = "select"
          /\ strategy = "round-robin"
          /\ Cardinality(Healthy(d)) > 1
          /\ Healthy(d) = last.of) => n # last.at]_vars

\* The failover loop ends: a dial never selects a node twice, however the pin is
\* moved, nodes recover and bans are lifted meanwhile.
NoNodeTwice ==
    [][\A d \in Dialers, n \in Selector :
         Chooses(d, n) => n \notin job[d].tried]_vars
=============================================================================
