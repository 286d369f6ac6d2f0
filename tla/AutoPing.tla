------------------------------ MODULE AutoPing ------------------------------
(* The latency probes of ProxyServer: the scheduler's rounds, the topology *)
(* worker's refreshes, the probes of a target's nodes under two limits of  *)
(* parallelism, the choice of the nodes to probe and the switch to a       *)
(* faster one. What they measure goes into the histories.                  *)
EXTENDS LatencyHistory

CONSTANTS
    Parallelism,        \* autoPingParallelism, of one target
    GlobalParallelism,  \* autoPingGlobalParallelism, of one round
    LatencyTTL,         \* serverNodeLatencyCacheTTL
    MinDwell,           \* autoSwitchMinDwell
    MinGain,            \* autoSwitchMinLatencyGainMs
    GainShare,          \* one over autoSwitchMinRelativeGain
    Day                 \* the length of a day

ASSUME PingConstants ==
    /\ Parallelism \in Nat \ {0} /\ GlobalParallelism \in Nat \ {0} /\ Day \in Nat \ {0}
    /\ LatencyTTL \in Nat /\ MinDwell \in Nat /\ MinGain \in Nat /\ GainShare \in Nat \ {0}

VARIABLES
    nodeNames,        \* what getServerNodeNames lists for a target when it is called next
    busy,             \* targets with active sessions or connections
    picked,           \* serverSelectedNode
    nodeLatency,      \* serverNodeLatency: the last measurement of a node for a target
    nodeHistory,      \* serverNodeHistory
    outboundHistory,  \* outboundHistory
    round,            \* the scheduler's round and the worker's refresh
    job,              \* pingAll... of a target in a round
    memo,             \* the scheduler's maps
    lastRun,          \* serverAutoPingLastRun, which the API shows
    bootPos,          \* autoPingBootstrapPos
    requests,         \* topologyRefreshSeq
    processed,        \* the worker's lastProcessed
    refreshed,        \* the requests there were when the last complete refresh began
    stopped,          \* p.ctx is cancelled
    fullAt,           \* when a full scan of the scheduler was completed last
    firstAt,          \* when the first round of a target was completed
    boots             \* the bootstrap scans of a target since they last covered all nodes

pingVars == <<nodeNames, busy, picked, nodeLatency, nodeHistory, outboundHistory, round, job, memo, lastRun,
              bootPos, requests, processed, refreshed, stopped, fullAt, firstAt, boots>>

AutoPingVars == <<historyVars, pingVars>>

Rounds == {"timer", "topology"}
None == -1
Never == -1

IdleRound == [pc |-> "idle", at |-> 0, due |-> {}, todo |-> {}, seq |-> 0,
              switch |-> [t \in Targets |-> Never], seen |-> [t \in Targets |-> None]]
NoBoots == [n |-> 0, nodes |-> {}]
NoJob == [pc |-> "idle", nodes |-> <<>>, probing |-> {}, full |-> FALSE]

-----------------------------------------------------------------------------
(* Which nodes. *)

\* getServerNodeNames, getProxyPortNodeNames, filterAutoPingNodeNames, dedupeNodeNames.
UsableNodes(t) ==
    LET named == plan.conf[t].nodes
    IN Selected(named, {i \in DOMAIN named : /\ named[i] \in plan.enabled \cup {Direct}
                                        /\ \A j \in 1..(i - 1) : named[j] # named[i]})

\* A group is listed in the order a range over the map of outbounds takes, another one
\* each time.
Listings(t) ==
    IF plan.conf[t].group
    THEN {ns \in [DOMAIN nodeNames[t] -> ToSet(nodeNames[t])] : ToSet(ns) = ToSet(nodeNames[t])}
    ELSE {nodeNames[t]}

\* GetServerNodeLatency: a failure or an old measurement is no latency.
GetServerNodeLatency(t, n) ==
    IF n # None /\ now - nodeLatency[t][n].at <= LatencyTTL THEN nodeLatency[t][n].lat ELSE 0

\* lookupAutoPingLatency: else the result of a test kept in the node's configuration.
lookupAutoPingLatency(t, n) ==
    IF GetServerNodeLatency(t, n) > 0 THEN GetServerNodeLatency(t, n)
    ELSE IF n = Direct THEN 0 ELSE plan.tested[n]

\* The nodes with a latency, but for the selected one, the fastest first.
Rivals(t) == {n \in ToSet(nodeNames[t]) \ {picked[t]} : lookupAutoPingLatency(t, n) > 0}

Ranked(t) ==
    LET of == [n \in AnyNode |-> lookupAutoPingLatency(t, n)]
        upTo(n) == {m \in Rivals(t) : of[m] < of[n] \/ (of[m] = of[n] /\ m <= n)}
    IN [k \in 1..Cardinality(Rivals(t)) |-> CHOOSE n \in Rivals(t) : Cardinality(upTo(n)) = k]

Top(t) == Max2(plan.conf[t].top, 1)

\* selectAutoPingTargetsForSelector: the selected node and the fastest others.
CurrentNode(t) == IF picked[t] \in ToSet(nodeNames[t]) THEN <<picked[t]>> ELSE <<>>

selectTargetsOfTop(t) ==
    CurrentNode(t) \o SubSeq(Ranked(t), 1, Min2(Top(t) - Len(CurrentNode(t)), Len(Ranked(t))))

selectTargets(t) ==
    LET limit == Top(t) + Len(CurrentNode(t))
    IN CurrentNode(t) \o SubSeq(Ranked(t), 1, Min2(limit - Len(CurrentNode(t)), Len(Ranked(t))))

\* nextAutoPingBootstrapTargets: the next few nodes in turn.
BootStart(t) == IF bootPos[t] >= Len(nodeNames[t]) THEN 0 ELSE bootPos[t]

Bootstrap(t) ==
    LET ns == nodeNames[t]
    IN IF Top(t) >= Len(ns) THEN ns
       ELSE [i \in 1..Top(t) |-> ns[((BootStart(t) + i - 1) % Len(ns)) + 1]]

NextBootPosStays(t) == bootPos[t]

NextBootPos(t) ==
    IF Top(t) >= Len(nodeNames[t]) THEN bootPos[t]
    ELSE (BootStart(t) + Top(t)) % Len(nodeNames[t])

\* shouldRunScheduledFullScan and shouldRunScheduledFullScanForProxyPort.
FullScanDue(t, at) ==
    LET c == plan.conf[t]
        scheduled == (at \div Day) * Day + c.hour
    IN CASE c.mode = "daily" -> at >= scheduled /\ memo.full[t] < scheduled
         [] c.mode = "interval" -> memo.full[t] # Never /\ at - memo.full[t] >= c.hours
         [] OTHER -> FALSE

-----------------------------------------------------------------------------
(* The ping of a target: pingAllNodesForServer, pingAllNodesForProxyPort.  *)

JobTo(r, t, j) == job' = [job EXCEPT ![r][t] = j]

PingKeeps == UNCHANGED <<historyVars, nodeNames, busy, picked, lastRun, requests, processed, refreshed, stopped>>

\* A target in use, one whose address does not resolve or one without a node is left.
PingAllSkips(r, t) ==
    /\ job[r][t].pc = "check"
    /\ t \in busy \/ nodeNames[t] = <<>> \/ plan.unresolved > 0
    /\ JobTo(r, t, [NoJob EXCEPT !.pc = "done"])
    /\ plan' = IF t \in busy \/ nodeNames[t] = <<>> THEN plan ELSE [plan EXCEPT !.unresolved = @ - 1]
    /\ UNCHANGED <<now, settings, there, up, cached, series, poll, deleting, served, late, began>>
    /\ UNCHANGED <<nodeNames, busy, picked, nodeLatency, nodeHistory, outboundHistory, round, memo, lastRun, bootPos,
                   requests, processed, refreshed, stopped, fullAt, firstAt, boots>>

\* A full scan, the candidates, or a bootstrap when there is neither a selected node
\* nor a latency.
PingAllChooses(r, t) ==
    LET full == r = "topology" \/ FullScanDue(t, round[r].at)
        few == IF Len(nodeNames[t]) <= 1 THEN nodeNames[t] ELSE selectTargets(t)
        boot == ~full /\ few = <<>>
        seen == IF boots[t].nodes = ToSet(nodeNames[t]) THEN NoBoots ELSE boots[t]
    IN /\ job[r][t].pc = "check"
       /\ t \notin busy /\ nodeNames[t] # <<>>
       /\ JobTo(r, t, [NoJob EXCEPT !.pc = "scan", !.full = full,
                           !.nodes = IF full THEN nodeNames[t] ELSE IF boot THEN Bootstrap(t) ELSE few])
       /\ bootPos' = IF boot THEN [bootPos EXCEPT ![t] = NextBootPos(t)] ELSE bootPos
       /\ boots' = IF boot THEN [boots EXCEPT ![t] = [n |-> seen.n + 1,
                                                          nodes |-> seen.nodes \cup ToSet(Bootstrap(t))]]
                   ELSE boots
       /\ PingKeeps
       /\ UNCHANGED <<nodeLatency, nodeHistory, outboundHistory, round, memo, fullAt, firstAt>>

Probing(r) == {p \in Targets \X AnyNode : p[2] \in job[r][p[1]].probing}

\* acquireAutoPingSlot: a place of the target's, then one of the round's.
AcquireSlot(r, t) ==
    LET j == job[r][t]
    IN /\ j.pc = "scan" /\ j.nodes # <<>>
       /\ Cardinality(j.probing) < Parallelism
       /\ Cardinality(Probing(r)) < GlobalParallelism
       /\ JobTo(r, t, [j EXCEPT !.nodes = Tail(@), !.probing = @ \cup {Head(j.nodes)}])
       /\ PingKeeps
       /\ UNCHANGED <<nodeLatency, nodeHistory, outboundHistory, round, memo, bootPos, fullAt, firstAt, boots>>

\* The context ends while the loop waits for a place: what is under way is awaited.
Abandon(r, t) ==
    /\ stopped /\ job[r][t].pc = "scan" /\ job[r][t].nodes # <<>>
    /\ JobTo(r, t, [job[r][t] EXCEPT !.nodes = <<>>])
    /\ PingKeeps
    /\ UNCHANGED <<nodeLatency, nodeHistory, outboundHistory, round, memo, bootPos, fullAt, firstAt, boots>>

\* releaseAutoPingSlot, deferred: after a failed probe as well.
ReleaseSlotOfSuccess(j, n, ms) == [j EXCEPT !.probing = IF ms > 0 THEN @ \ {n} ELSE @]

ReleaseSlot(j, n, ms) == [j EXCEPT !.probing = @ \ {n}]

\* recordAutoPingOutboundLatency: only for a node that is configured.
OutboundRecorded(t, n, x) ==
    IF n = Direct \/ n \notin plan.listed THEN outboundHistory
    ELSE [outboundHistory EXCEPT ![n] = HistoryAppend(@, x, coalesce(settings.gap, plan.conf[t].every))]

\* serverLatencyHistoryMinIntervalMs: the auto-ping interval of a server, not of a port.
NodeGap(t) ==
    IF t \in ServerIds /\ t \in there /\ plan.conf[t].auto THEN coalesce(settings.gap, plan.conf[t].every)
    ELSE settings.gap

\* probeServerThroughNode, probeProxyPortThroughNode and what they are recorded as.
Probe(r, t, n, ms) ==
    LET x == Sample(now, ms, ms > 0, "auto_ping", FALSE)
    IN /\ n \in job[r][t].probing
       /\ stopped => ms = Min(plan.lats)
       /\ nodeLatency' = [nodeLatency EXCEPT ![t][n] = [lat |-> ms, at |-> now]]
       /\ nodeHistory' = [nodeHistory EXCEPT ![t][n] = HistoryAppend(@, x, NodeGap(t))]
       /\ outboundHistory' = OutboundRecorded(t, n, x)
       /\ JobTo(r, t, ReleaseSlot(job[r][t], n, ms))
       /\ PingKeeps
       /\ UNCHANGED <<round, memo, bootPos, fullAt, firstAt, boots>>

PingAllEnds(r, t) ==
    /\ job[r][t].pc = "scan" /\ job[r][t].nodes = <<>> /\ job[r][t].probing = {}
    /\ JobTo(r, t, [NoJob EXCEPT !.pc = "done", !.full = job[r][t].full])
    /\ PingKeeps
    /\ UNCHANGED <<nodeLatency, nodeHistory, outboundHistory, round, memo, bootPos, fullAt, firstAt, boots>>

-----------------------------------------------------------------------------
(* The switch to a faster node: maybeAutoSwitchServerNode and ...ProxyPortNode. *)

KnownNodes(t) == {n \in ToSet(nodeNames[t]) : GetServerNodeLatency(t, n) > 0}

Fastest(t, names) ==
    CHOOSE n \in names : \A m \in names :
        \/ GetServerNodeLatency(t, n) < GetServerNodeLatency(t, m)
        \/ GetServerNodeLatency(t, n) = GetServerNodeLatency(t, m) /\ n <= m

\* GetBestNodeForServer: of the nodes that are not banned and can carry what is sorted
\* by. The only node of a port is its own best one, and has no latency.
OnlyNode(t) == ~plan.conf[t].group /\ Len(plan.conf[t].nodes) = 1

Best(t) ==
    LET names == (IF OnlyNode(t) THEN ToSet(nodeNames[t]) ELSE KnownNodes(t)) \ plan.conf[t].banned
    IN IF names = {} THEN None ELSE Fastest(t, names)

\* shouldAutoSwitchNode.
shouldAutoSwitchNode(t, lastSwitch, at) ==
    LET current == GetServerNodeLatency(t, picked[t])
        gain == current - GetServerNodeLatency(t, Best(t))
    IN /\ ~OnlyNode(t)
       /\ \/ picked[t] = None \/ current = 0
          \/ /\ gain > 0
             /\ gain >= MinGain \/ gain * GainShare >= current
             /\ lastSwitch = Never \/ at - lastSwitch >= MinDwell

\* [pick, switch, seen]: a selection the caller has not seen restarts the dwell time.
AutoSwitch(t, at, switch, seen) ==
    LET new == seen # picked[t]
        since == IF ~new THEN switch ELSE IF picked[t] = None THEN Never ELSE at
        same == [pick |-> picked[t], switch |-> since, seen |-> picked[t]]
    IN IF ~plan.conf[t].fastest \/ Best(t) = None
       THEN [pick |-> picked[t], switch |-> switch, seen |-> seen]
       ELSE IF Best(t) = picked[t] \/ t \in busy \/ ~shouldAutoSwitchNode(t, since, at) THEN same
       ELSE [pick |-> Best(t), switch |-> at, seen |-> Best(t)]

\* recordServerLatencyFromAutoPing: the selected node's latency, else the best one.
MeasuredFor(t, node) ==
    IF GetServerNodeLatency(t, node) > 0 THEN GetServerNodeLatency(t, node)
    ELSE IF KnownNodes(t) # {} THEN GetServerNodeLatency(t, Fastest(t, KnownNodes(t))) ELSE 0

-----------------------------------------------------------------------------
(* Rounds. *)

\* IsAutoPingEnabled; a port must also be enabled and not be a direct one.
Pinged(t) == t \in there /\ plan.conf[t].auto

Elapsed(t, last) == last = Never \/ now - last >= plan.conf[t].every

Launch(r, T) == job' = [job EXCEPT ![r] = [t \in Targets |-> IF t \in T THEN [NoJob EXCEPT !.pc = "check"] ELSE NoJob]]

\* startAutoPingScheduler, a tick: the passive pass, then the targets that are due.
TimerTick ==
    LET due == {t \in Targets : Pinged(t) /\ Elapsed(t, memo.run[t])}
        passive == {s \in ServerIds : s \in there /\ ~plan.conf[s].auto /\ Elapsed(s, memo.passive[s])}
    IN /\ round["timer"].pc = "idle" /\ ~stopped
       /\ due \cup passive # {}
       /\ Passive(passive, now)
       /\ memo' = [memo EXCEPT !.passive = [t \in Targets |-> IF t \in passive THEN now ELSE @[t]]]
       /\ round' = IF due = {} THEN round
                   ELSE [round EXCEPT !["timer"].pc = "pings", !["timer"].at = now, !["timer"].due = due]
       /\ IF due = {} THEN UNCHANGED job ELSE Launch("timer", due)
       /\ UNCHANGED <<plan, now, settings, there, up, cached, poll, deleting, served>>
       /\ UNCHANGED <<nodeNames, busy, picked, nodeLatency, nodeHistory, outboundHistory, lastRun, bootPos, requests,
                      processed, refreshed, stopped, fullAt, firstAt, boots>>

RoundComplete(r) == round[r].pc = "pings" /\ \A t \in round[r].due : job[r][t].pc = "done"

FullOnes == {t \in round["timer"].due : job["timer"][t].full}

FullMemoUnset(at) == memo.full

FullMemo(at) == [t \in Targets |-> IF t \in FullOnes THEN at ELSE memo.full[t]]

\* completedAt, and the full scans that were done.
TimerComplete ==
    /\ RoundComplete("timer")
    /\ round' = [round EXCEPT !["timer"].pc = "after", !["timer"].at = now, !["timer"].todo = round["timer"].due]
    /\ memo' = [memo EXCEPT !.full = FullMemo(now)]
    /\ fullAt' = [t \in Targets |-> IF t \in FullOnes THEN now ELSE fullAt[t]]
    /\ firstAt' = [t \in Targets |-> IF t \in round["timer"].due /\ firstAt[t] = Never THEN now ELSE firstAt[t]]
    /\ Launch("timer", {})
    /\ PingKeeps
    /\ UNCHANGED <<nodeLatency, nodeHistory, outboundHistory, bootPos, boots>>

\* Of one target after a round: the last run, the switch and the server's sample.
After(r, t, at, sw) ==
    /\ lastRun' = IF t \in ServerIds THEN [lastRun EXCEPT ![t] = at] ELSE lastRun
    /\ picked' = [picked EXCEPT ![t] = sw.pick]
    /\ IF t \in ServerIds
       THEN \E x \in {Sample(at, ms, ms > 0, "auto_ping", FALSE) : ms \in {MeasuredFor(t, sw.pick)}} :
               RecordServerLatency([s \in {t} |-> x])
       ELSE NothingRecorded
    /\ UNCHANGED <<plan, now, settings, there, up, cached, poll, deleting, served>>
    /\ UNCHANGED <<nodeNames, busy, nodeLatency, nodeHistory, outboundHistory, job, bootPos, requests, stopped, fullAt,
                   firstAt, boots>>

TimerAfter(t) ==
    LET at == round["timer"].at
        left == round["timer"].todo \ {t}
    IN /\ round["timer"].pc = "after" /\ t \in round["timer"].todo
       /\ round' = [round EXCEPT !["timer"] = IF left = {} THEN IdleRound ELSE [@ EXCEPT !.todo = left]]
       /\ \E sw \in {AutoSwitch(t, at, memo.switch[t], memo.seen[t])} :
             /\ memo' = [memo EXCEPT !.run[t] = at, !.switch[t] = sw.switch, !.seen[t] = sw.seen]
             /\ After("timer", t, at, sw)
       /\ UNCHANGED <<processed, refreshed>>

\* TriggerAutoLatencyRefresh; its signal only wakes the worker before its ticker does.
TriggerAutoLatencyRefresh ==
    /\ plan.triggers > 0
    /\ plan' = [plan EXCEPT !.triggers = @ - 1]
    /\ requests' = requests + 1
    /\ UNCHANGED <<now, settings, there, up, cached, series, poll, deleting, served, late, began>>
    /\ UNCHANGED <<nodeNames, busy, picked, nodeLatency, nodeHistory, outboundHistory, round, job, memo, lastRun, bootPos,
                   processed, refreshed, stopped, fullAt, firstAt, boots>>

\* startTopologyRefreshWorker, runAutoLatencyRefresh: not while anything is in use. Its
\* time is read when the probes have been started.
TopologyTick ==
    LET due == {t \in Targets : Pinged(t)}
    IN /\ round["topology"].pc = "idle" /\ ~stopped
       /\ requests # processed /\ busy = {}
       /\ round' = [round EXCEPT !["topology"] =
                       [IdleRound EXCEPT !.pc = "pings", !.at = now, !.due = due, !.seq = requests]]
       /\ Launch("topology", due)
       /\ PingKeeps
       /\ UNCHANGED <<nodeLatency, nodeHistory, outboundHistory, memo, bootPos, fullAt, firstAt, boots>>

\* The targets are read anew; the request that was read is the one that is done.
ProcessedLatest(seq) == requests

ProcessedNext(seq) == seq + 1

Processed(seq) == seq

TopologyComplete ==
    LET todo == {t \in Targets : Pinged(t)}
    IN /\ RoundComplete("topology")
       /\ round' = [round EXCEPT !["topology"] =
                       IF todo = {} THEN IdleRound ELSE [@ EXCEPT !.pc = "after", !.todo = todo]]
       /\ processed' = IF todo = {} THEN Processed(round["topology"].seq) ELSE processed
       /\ refreshed' = IF todo = {} THEN round["topology"].seq ELSE refreshed
       /\ Launch("topology", {})
       /\ UNCHANGED <<historyVars, nodeNames, busy, picked, lastRun, requests, stopped>>
       /\ UNCHANGED <<nodeLatency, nodeHistory, outboundHistory, memo, bootPos, fullAt, firstAt, boots>>

TopologyAfter(t) ==
    LET me == round["topology"]
        left == me.todo \ {t}
    IN /\ me.pc = "after" /\ t \in me.todo
       /\ round' = [round EXCEPT !["topology"] = IF left = {} THEN IdleRound ELSE [@ EXCEPT !.todo = left]]
       /\ processed' = IF left = {} THEN Processed(me.seq) ELSE processed
       /\ refreshed' = IF left = {} THEN me.seq ELSE refreshed
       /\ \E sw \in {AutoSwitch(t, me.at, me.switch[t], me.seen[t])} : After("topology", t, me.at, sw)
       /\ UNCHANGED memo

\* A goroutine that sees the cancelled context between two rounds ends.
Leave(r) ==
    /\ stopped /\ round[r].pc = "idle"
    /\ round' = [round EXCEPT ![r].pc = "gone"]
    /\ PingKeeps
    /\ UNCHANGED <<job, nodeLatency, nodeHistory, outboundHistory, memo, bootPos, fullAt, firstAt, boots>>

-----------------------------------------------------------------------------
(* What else happens. *)

\* Players come and go.
Sessions(t) ==
    /\ plan.sessions > 0 /\ t \in there
    /\ plan' = [plan EXCEPT !.sessions = @ - 1]
    /\ busy' = IF t \in busy THEN busy \ {t} ELSE busy \cup {t}
    /\ UNCHANGED <<now, settings, there, up, cached, series, poll, deleting, served, late, began>>
    /\ UNCHANGED <<nodeNames, picked, nodeLatency, nodeHistory, outboundHistory, round, job, memo, lastRun, bootPos,
                   requests, processed, refreshed, stopped, fullAt, firstAt, boots>>

\* An outbound is switched on or off, by a request or a subscription: the bootstrap scans
\* of the targets it belongs to are counted anew.
SwitchOutbound(n) ==
    /\ plan.switches > 0
    /\ plan' = [plan EXCEPT !.switches = @ - 1,
                            !.enabled = IF n \in @ THEN @ \ {n} ELSE @ \cup {n}]
    /\ nodeNames' = [t \in Targets |-> UsableNodes(t)']
    /\ boots' = [t \in Targets |-> IF nodeNames'[t] = nodeNames[t] THEN boots[t] ELSE NoBoots]
    /\ UNCHANGED <<now, settings, there, up, cached, series, poll, deleting, served, late, began>>
    /\ UNCHANGED <<busy, picked, nodeLatency, nodeHistory, outboundHistory, round, job, memo, lastRun, bootPos,
                   requests, processed, refreshed, stopped, fullAt, firstAt>>

\* The next range over the map of outbounds takes another order.
ReorderGroup(t) ==
    /\ plan.conf[t].group
    /\ \E ns \in Listings(t) \ {nodeNames[t]} : nodeNames' = [nodeNames EXCEPT ![t] = ns]
    /\ UNCHANGED historyVars
    /\ UNCHANGED <<busy, picked, nodeLatency, nodeHistory, outboundHistory, round, job, memo, lastRun, bootPos,
                   requests, processed, refreshed, stopped, fullAt, firstAt, boots>>

\* cleanupExpired...LatencyHistory of the outbound manager, each minute.
CleanupHistories ==
    LET cutoff == now - settings.retention
    IN /\ nodeHistory' = [t \in Targets |-> [n \in AnyNode |-> filtered(nodeHistory[t][n], cutoff)]]
       /\ outboundHistory' = [n \in Nodes |-> filtered(outboundHistory[n], cutoff)]
       /\ <<nodeHistory', outboundHistory'>> # <<nodeHistory, outboundHistory>>
       /\ PingKeeps
       /\ UNCHANGED <<nodeLatency, round, job, memo, bootPos, fullAt, firstAt, boots>>

StopPings ==
    /\ plan.stop /\ ~stopped
    /\ stopped' = TRUE
    /\ UNCHANGED <<historyVars, nodeNames, busy, picked, nodeLatency, nodeHistory, outboundHistory, round, job, memo,
                   lastRun, bootPos, requests, processed, refreshed, fullAt, firstAt, boots>>

AutoPingInit ==
    /\ HistoryInit
    /\ busy = {} /\ requests = 0 /\ processed = 0 /\ refreshed = 0 /\ stopped = FALSE
    /\ nodeNames = [t \in Targets |-> UsableNodes(t)]
    /\ picked = [t \in Targets |-> None]
    /\ nodeLatency = [t \in Targets |-> [n \in AnyNode |-> [lat |-> 0, at |-> 0]]]
    /\ nodeHistory = [t \in Targets |-> [n \in AnyNode |-> <<>>]]
    /\ outboundHistory = [n \in Nodes |-> <<>>]
    /\ round = [r \in Rounds |-> IdleRound]
    /\ job = [r \in Rounds |-> [t \in Targets |-> NoJob]]
    /\ memo = LET never == [t \in Targets |-> Never]
              IN [run |-> never, full |-> never, switch |-> never, passive |-> never,
                  seen |-> [t \in Targets |-> None]]
    /\ lastRun = [s \in ServerIds |-> Never]
    /\ bootPos = [t \in Targets |-> 0]
    /\ fullAt = [t \in Targets |-> Never] /\ firstAt = [t \in Targets |-> Never]
    /\ boots = [t \in Targets |-> NoBoots]

\* What a goroutine of the rounds does without waiting for anybody but the network.
RoundStep(r) ==
    \/ \E t \in Targets :
          \/ PingAllSkips(r, t) \/ PingAllChooses(r, t) \/ AcquireSlot(r, t) \/ Abandon(r, t)
          \/ PingAllEnds(r, t)
          \/ \E n \in AnyNode, ms \in plan.lats : Probe(r, t, n, ms)
          \/ r = "timer" /\ TimerAfter(t)
          \/ r = "topology" /\ TopologyAfter(t)
    \/ r = "timer" /\ (TimerTick \/ TimerComplete)
    \/ r = "topology" /\ (TopologyTick \/ TopologyComplete)
    \/ Leave(r)

AutoPingNext ==
    \/ HistoryNext /\ UNCHANGED pingVars
    \/ \E r \in Rounds : RoundStep(r)
    \/ TriggerAutoLatencyRefresh \/ CleanupHistories \/ StopPings
    \/ \E t \in Targets : Sessions(t) \/ ReorderGroup(t)
    \/ \E n \in Nodes : SwitchOutbound(n)

AutoPingSpec == AutoPingInit /\ [][AutoPingNext]_AutoPingVars

AutoPingFairness == \A r \in Rounds : WF_AutoPingVars(RoundStep(r))

-----------------------------------------------------------------------------
(* Properties. *)

AutoPingTypeOK ==
    /\ now \in 0..plan.until /\ there \subseteq Targets /\ up \subseteq ServerIds /\ busy \subseteq Targets
    /\ \A s \in ServerIds : \A i \in DOMAIN series[s] : series[s][i].at \in 0..now /\ series[s][i].lat \in Lats
    /\ picked \in [Targets -> AnyNode \cup {None}]
    /\ \A t \in Targets, n \in AnyNode : nodeLatency[t][n] \in [lat : Lats, at : 0..now]
    /\ \A r \in Rounds : round[r].pc \in {"idle", "pings", "after", "gone"} /\ round[r].due \subseteq Targets
    /\ \A r \in Rounds, t \in Targets : job[r][t].pc \in {"idle", "check", "scan", "done"}
    /\ processed \in 0..requests

\* Rounds and refreshes never have more probes under way than the two limits allow, and
\* the histories they fill never hold more than the storage limit before or after a
\* change of it.
ProbesLimited ==
    /\ \A r \in Rounds :
          /\ Cardinality(Probing(r)) <= GlobalParallelism
          /\ \A t \in Targets : Cardinality(job[r][t].probing) <= Parallelism
    /\ \A h \in {nodeHistory[t][n] : t \in Targets, n \in AnyNode} \cup {outboundHistory[n] : n \in Nodes} :
          Len(h) <= Max2(plan.settings.storage, plan.storage)

\* Bootstrap scans go round the nodes a target lists: once they had room for all of them,
\* all of them were scanned, however few a scan takes and wherever they stood before the
\* list changed. (Not so for a group, whose order is another one each time.)
BootstrapReachesAll ==
    \A t \in Targets :
        /\ ~plan.conf[t].group
        /\ boots[t].n * Top(t) >= Len(nodeNames[t])
        => boots[t].nodes = ToSet(nodeNames[t])

ScanStarts(r, t) == job[r][t].pc = "check" /\ job'[r][t].pc = "scan"

ComparesNodes(r, t) ==
    LET names == ToSet(nodeNames[t])
        others == {n \in names \ {picked[t]} : lookupAutoPingLatency(t, n) > 0}
        chosen == ToSet(job'[r][t].nodes)
    IN /\ chosen # {} /\ chosen \subseteq names
       /\ picked[t] \in names => picked[t] \in chosen
       /\ others # {} => \E n \in others \cap chosen : \A m \in others :
             lookupAutoPingLatency(t, n) <= lookupAutoPingLatency(t, m)

FullOnceADay(t) ==
    LET at == round["timer"].at
        scheduled == (at \div Day) * Day + plan.conf[t].hour
    IN job'["timer"][t].full <=> at >= scheduled /\ fullAt[t] < scheduled

\* A round that may probe but a few nodes of a target probes the selected one and the
\* fastest of the others, so that there is something to compare the selected node with.
ScanComparesNodes ==
    [][\A r \in Rounds, t \in Targets : ScanStarts(r, t) => ComparesNodes(r, t)]_AutoPingVars

\* A daily full scan that was completed after its time of the day is not done again
\* that day, and one that could not be done (the target was in use) is still due.
DailyScanOnce ==
    [][\A t \in Targets : ScanStarts("timer", t) /\ plan.conf[t].mode = "daily" => FullOnceADay(t)]_AutoPingVars

\* A target whose full scans are to be done at an interval gets one when the interval
\* has passed since its first round and since its last full scan.
IntervalScans ==
    [][\A t \in Targets :
          /\ ScanStarts("timer", t) /\ plan.conf[t].mode = "interval" /\ firstAt[t] # Never
          /\ round["timer"].at - Max2(firstAt[t], fullAt[t]) >= plan.conf[t].hours
          => job'["timer"][t].full]_AutoPingVars

\* The series of a deleted server comes back only through a ping or a round under way
\* when it was deleted.
DeletedHistoryGone ==
    [][HistoryGone(UNION {round[r].due : r \in Rounds})]_AutoPingVars

\* Every round ends: no probe, failed ones included, keeps its place in the limits for
\* good, and when the context has been cancelled both goroutines leave.
RoundsEnd ==
    /\ \A r \in Rounds : []<>(round[r].pc \in {"idle", "gone"})
    /\ []<>(stopped => \A r \in Rounds : round[r].pc = "gone")

\* A topology refresh that was asked for, also while another one was running, is done
\* once nothing is in use any more.
RequestsServed == []<>(busy # {} \/ stopped \/ refreshed = requests)

\* The histories hold what was measured, spaced and current, and the rounds keep to their
\* limits and leave no node out.
ProbesInv ==
    /\ AutoPingTypeOK
    /\ SeriesSpaced /\ NoEcho /\ ServedIsCurrent
    /\ ProbesLimited /\ BootstrapReachesAll

\* What a round may do: a scan compares nodes, a daily scan is done once a day, and nobody
\* writes the history of a deleted server but who had begun before.
ScansKept == ScanComparesNodes /\ DailyScanOnce /\ DeletedHistoryGone
=============================================================================
