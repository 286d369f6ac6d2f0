--------------------------- MODULE LatencyHistory ---------------------------
(* The latency histories: the series of a server the API keeps             *)
(* (serverLatencyHistoryStore), the histories of the nodes the outbound    *)
(* manager keeps, and the dashboard's pings, which write and read a series *)
(* in steps. The clock counts units of the shortest configured interval.   *)
EXTENDS Integers, Sequences, FiniteSets, SequencesExt, FiniteSetsExt

CONSTANTS
    ServerIds,     \* server ids
    Ports,         \* proxy port ids, which have node latencies but no series
    Nodes,         \* proxy outbounds, as numbers in the order of their names
    Direct,        \* the direct connection, which is not an outbound
    Lats,          \* what a measurement may give; 0 is a failure or no reading
    Polls,         \* dashboard requests that may ping at once
    PingPlans      \* configurations, what may happen in them and for how long

Targets == ServerIds \cup Ports
AnyNode == Nodes \cup {Direct}

ASSUME HistoryConstants ==
    /\ ServerIds \cap Ports = {} /\ Direct \in Nat \ Nodes /\ Nodes \subseteq Nat
    /\ Lats \subseteq Nat /\ 0 \in Lats

\* GlobalConfig: Validate refuses a limit, a gap or a retention that is not positive.
AllSettings == [gap : Nat \ {0}, retention : Nat \ {0}, storage : Nat \ {0}, render : Nat \ {0}]

\* The settings of a server or a port that the pings read.
Confs ==
    [auto : BOOLEAN, every : Nat, mode : STRING, hour : Nat, hours : Nat, top : Int, nodes : Seq(AnyNode),
     group : BOOLEAN, banned : SUBSET AnyNode, fastest : BOOLEAN]

Plans ==
    [conf : [Targets -> Confs], there : SUBSET Targets, settings : AllSettings, storage : Nat \ {0},
     enabled : SUBSET Nodes, listed : SUBSET Nodes, tested : [Nodes -> Nat], lats : SUBSET Lats, until : Nat,
     polls : Nat, reads : Nat, deletes : Nat, toggles : Nat, pongs : Nat, unresolved : Nat, triggers : Nat,
     sessions : Nat, switches : Nat, stop : BOOLEAN]

ASSUME PlansOK == PingPlans \subseteq Plans

VARIABLES
    plan,      \* what may still happen, and the configuration of the targets
    now,       \* the clock
    settings,  \* the global configuration of the histories
    there,     \* servers and ports in the configuration
    up,        \* servers whose listener runs
    cached,    \* the pong a listener keeps: its latency, and whether it has a MOTD
    series,    \* serverLatencyHistoryStore.series
    poll,      \* pings of the dashboard under way
    deleting,  \* servers deleted from the configuration whose series is not yet
    served,    \* the answer of the last history request, and whether its series was in order
    late,      \* servers whose series took a sample older than its newest one
    began      \* when the present series of a server began

historyVars == <<plan, now, settings, there, up, cached, series, poll, deleting, served, late, began>>

Min2(a, b) == IF a < b THEN a ELSE b
Max2(a, b) == IF a > b THEN a ELSE b

\* What stands at the places "I" of a list, in the order of the list.
Selected(list, I) == [k \in 1..Cardinality(I) |-> list[CHOOSE i \in I : Cardinality({j \in I : j <= i}) = k]]

-----------------------------------------------------------------------------
(* Samples. "echo" marks a latency that was read from the history itself.  *)

Sample(at, ms, on, src, echo) == [at |-> at, lat |-> ms, ok |-> on, src |-> src, echo |-> echo]

\* coalesceLatencyHistoryMinIntervalMs: an override only shortens the gap.
coalesce(gap, override) ==
    IF override <= 0 THEN gap
    ELSE IF gap <= 0 \/ override < gap THEN override ELSE gap

\* trimExpiredLocked: from the first sample that has not expired.
trimExpired(ss, cutoff) ==
    LET live == {i \in DOMAIN ss : ss[i].at >= cutoff}
    IN IF live = {} THEN <<>> ELSE SubSeq(ss, Min(live), Len(ss))

\* filtered: every sample that has not expired, wherever it stands.
filtered(ss, cutoff) == Selected(ss, {i \in DOMAIN ss : ss[i].at >= cutoff})

Newest(ss, n) == IF Len(ss) > n THEN SubSeq(ss, Len(ss) - n + 1, Len(ss)) ELSE ss

Limited(ss) == IF settings.storage > 0 THEN Newest(ss, settings.storage) ELSE ss

\* serverLatencyHistoryStore.Record: within the gap a sample replaces the newest.
RecordKeepsAll(ss, x, gap) ==
    LET live == trimExpired(ss, x.at - settings.retention)
    IN IF live = <<>> THEN <<x>> ELSE Limited(Append(live, x))

Record(ss, x, gap) ==
    LET live == trimExpired(ss, x.at - settings.retention)
    IN IF live = <<>> THEN <<x>>
       ELSE Limited(IF x.at - Last(live).at < gap THEN [live EXCEPT ![Len(live)] = x]
                    ELSE Append(live, x))

\* outboundLatencyHistory.append and serverNodeLatencyHistory.append, which are the same.
HistoryAppendUnlimited(ss, x, gap) ==
    LET live == filtered(ss, x.at - settings.retention)
    IN IF live # <<>> /\ gap > 0 /\ x.at - Last(live).at < gap
       THEN [live EXCEPT ![Len(live)] = x]
       ELSE Append(live, x)

HistoryAppend(ss, x, gap) ==
    LET live == filtered(ss, x.at - settings.retention)
    IN IF live # <<>> /\ gap > 0 /\ x.at - Last(live).at < gap
       THEN [live EXCEPT ![Len(live)] = x]
       ELSE Limited(Append(live, x))

\* clampHistoryLimit.
clampHistoryLimit(n) ==
    LET asked == IF n <= 0 THEN settings.render ELSE n
    IN Min2(asked, settings.storage)

\* latencyHistoryMinIntervalOverrideMs: the interval of an auto-pinged server, for
\* the samples of its auto pings.
Override(s, src) ==
    IF src = "auto_ping" /\ s \in there /\ plan.conf[s].auto THEN plan.conf[s].every ELSE 0

-----------------------------------------------------------------------------
(* Writing a series. *)

\* RecordServerLatency for a set of samples, at most one of a server.
RecordServerLatency(new) ==
    LET gap(s) == coalesce(settings.gap, Override(s, new[s].src))
        fresh(s) == trimExpired(series[s], new[s].at - settings.retention) = <<>>
    IN /\ series' = [s \in ServerIds |->
              IF s \in DOMAIN new THEN Record(series[s], new[s], gap(s)) ELSE series[s]]
       /\ late' = {s \in late : ~(s \in DOMAIN new /\ fresh(s))}
                  \cup {s \in DOMAIN new : ~fresh(s) /\ new[s].at < Last(series[s]).at}
       /\ began' = [s \in ServerIds |->
              IF s \in DOMAIN new /\ fresh(s) THEN new[s].at ELSE began[s]]

NothingRecorded == UNCHANGED <<series, late, began>>

\* GetServerLatencyInfoRaw.
Found(s) == s \in up /\ (cached[s].lat > 0 \/ cached[s].motd)

\* recordServerLatencyPassive for servers that are not auto-pinged.
Passive(S, at) ==
    LET seen == {s \in S : Found(s) /\ cached[s].lat > 0}
    IN RecordServerLatency([s \in seen |-> Sample(at, cached[s].lat, TRUE, "passive", FALSE)])

-----------------------------------------------------------------------------
(* The dashboard's pings. *)

Nothing == ""

\* "fall" when the last known latency may stand in, "was" whether the server was
\* configured when the ping began.
NoInfo == [srv |-> Nothing, lat |-> 0, online |-> FALSE, src |-> Nothing, fall |-> FALSE, was |-> FALSE]
IdlePoll == [pc |-> "idle", info |-> NoInfo]

Info(s, ms, on, src, fall) == [srv |-> s, lat |-> ms, online |-> on, src |-> src, fall |-> fall,
                                 was |-> s \in there]

Got(q, i) == poll' = [poll EXCEPT ![q] = [pc |-> "got", info |-> i]]

PollStarts(q) ==
    /\ poll[q].pc = "idle" /\ plan.polls > 0
    /\ plan' = [plan EXCEPT !.polls = @ - 1]
    /\ UNCHANGED <<now, settings, there, up, cached, series, deleting, served, late, began>>

\* buildServerPingFromConfig, for a server of the list the request was given.
PingFromConfig(q, s) ==
    /\ PollStarts(q)
    /\ s \in there
    /\ IF s \notin up THEN Got(q, Info(s, 0, FALSE, "stopped", FALSE))
       ELSE IF cached[s].lat > 0 THEN Got(q, Info(s, cached[s].lat, TRUE, "proxy", FALSE))
       ELSE IF cached[s].motd THEN Got(q, Info(s, 0, TRUE, "proxy", TRUE))
       ELSE poll' = [poll EXCEPT ![q] = [pc |-> "ping", info |-> Info(s, 0, FALSE, "direct", TRUE)]]

\* GetServerLatency of a listener without a good pong: it keeps -1 of a server that did not
\* answer, or a pong without a MOTD.
Unclear(q, s) == s \in up /\ \E on \in BOOLEAN : Got(q, Info(s, 0, on, "proxy", TRUE))

\* buildServerLatencyInfo, for an id that may no longer be configured.
LatencyInfoRecordsMissing(q, s) ==
    /\ PollStarts(q)
    /\ IF Found(s) THEN Got(q, Info(s, cached[s].lat, TRUE, "proxy", TRUE))
       ELSE \/ Unclear(q, s)
            \/ s \in there /\ poll' = [poll EXCEPT ![q] = [pc |-> "ping", info |-> Info(s, 0, FALSE, "direct", FALSE)]]
            \/ s \notin there /\ Got(q, Info(s, 0, FALSE, "direct", FALSE))

LatencyInfo(q, s) ==
    /\ PollStarts(q)
    /\ IF Found(s) THEN Got(q, Info(s, cached[s].lat, TRUE, "proxy", TRUE))
       ELSE \/ Unclear(q, s)
            \/ s \in there /\ poll' = [poll EXCEPT ![q] = [pc |-> "ping", info |-> Info(s, 0, FALSE, "direct", FALSE)]]
            \/ s \notin there /\ UNCHANGED poll

\* The direct ping answers, with or without a latency, or does not.
PingAnswered(q, ms, on) ==
    /\ poll[q].pc = "ping"
    /\ ms > 0 => on
    /\ Got(q, [poll[q].info EXCEPT !.lat = ms, !.online = on])
    /\ UNCHANGED <<plan, now, settings, there, up, cached, series, deleting, served, late, began>>

\* lastKnownServerLatency, in what History returns.
LastKnown(s) ==
    LET ss == trimExpired(series[s], now - settings.retention)
        seen == {i \in DOMAIN ss : ss[i].lat > 0}
    IN IF seen = {} THEN 0 ELSE ss[Max(seen)].lat

\* applyLastKnownLatency: [lat, echo].
applyLastKnownLatency(i) ==
    IF i.fall /\ i.online /\ i.lat <= 0 /\ LastKnown(i.srv) > 0
    THEN [lat |-> LastKnown(i.srv), echo |-> TRUE] ELSE [lat |-> i.lat, echo |-> FALSE]

\* recordServerLatencyInfo: no echo, and nothing online without a latency.
WorthRecordingAnything(i, v) == ~(i.online /\ v.lat <= 0)

WorthRecording(i, v) == ~v.echo /\ ~(i.online /\ v.lat <= 0)

PollRecords(q) ==
    LET i == poll[q].info
        v == applyLastKnownLatency(i)
    IN /\ poll[q].pc = "got"
       /\ poll' = [poll EXCEPT ![q] = IdlePoll]
       /\ IF WorthRecording(i, v)
          THEN RecordServerLatency([s \in {i.srv} |-> Sample(now, v.lat, i.online, i.src, v.echo)])
          ELSE /\ series' = IF i.fall /\ i.online /\ i.lat <= 0
                            THEN [series EXCEPT ![i.srv] = trimExpired(@, now - settings.retention)]
                            ELSE series
               /\ UNCHANGED <<late, began>>
       /\ UNCHANGED <<plan, now, settings, there, up, cached, deleting, served>>

-----------------------------------------------------------------------------
(* Requests. *)

\* Snapshot (limit > 0 is asked for) and History, which trim what they read.
SnapshotUntrimmed(s, n) ==
    /\ plan.reads > 0 /\ s \in there
    /\ plan' = [plan EXCEPT !.reads = @ - 1]
    /\ UNCHANGED series
    /\ served' = [at |-> now, cap |-> clampHistoryLimit(n), ordered |-> s \notin late,
                  list |-> Newest(series[s], clampHistoryLimit(n))]
    /\ UNCHANGED <<now, settings, there, up, cached, poll, deleting, late, began>>

Snapshot(s, n) ==
    LET ss == trimExpired(series[s], now - settings.retention)
    IN /\ plan.reads > 0 /\ s \in there
       /\ plan' = [plan EXCEPT !.reads = @ - 1]
       /\ series' = [series EXCEPT ![s] = ss]
       /\ served' = [at |-> now, cap |-> clampHistoryLimit(n), ordered |-> s \notin late,
                     list |-> Newest(ss, clampHistoryLimit(n))]
       /\ UNCHANGED <<now, settings, there, up, cached, poll, deleting, late, began>>

\* deleteServer: the listener and the entry go first, the series after them.
DeleteServerEntry(s) ==
    /\ plan.deletes > 0 /\ s \in there
    /\ plan' = [plan EXCEPT !.deletes = @ - 1]
    /\ there' = there \ {s} /\ up' = up \ {s}
    /\ deleting' = deleting \cup {s}
    /\ UNCHANGED <<now, settings, cached, series, poll, served, late, began>>

DeleteSeries(s) ==
    /\ s \in deleting
    /\ deleting' = deleting \ {s}
    /\ series' = [series EXCEPT ![s] = <<>>]
    /\ late' = late \ {s}
    /\ UNCHANGED <<plan, now, settings, there, up, cached, poll, served, began>>

\* The listener of a server is started or stopped.
Toggle(s) ==
    /\ plan.toggles > 0 /\ s \in there
    /\ plan' = [plan EXCEPT !.toggles = @ - 1]
    /\ up' = IF s \in up THEN up \ {s} ELSE up \cup {s}
    /\ cached' = [cached EXCEPT ![s] = [lat |-> 0, motd |-> FALSE]]
    /\ UNCHANGED <<now, settings, there, series, poll, deleting, served, late, began>>

\* A pong reaches the listener, or its latency refresher gets no answer.
Pong(s, ms, m) ==
    /\ plan.pongs > 0 /\ s \in up
    /\ ms > 0 => m
    /\ plan' = [plan EXCEPT !.pongs = @ - 1]
    /\ cached' = [cached EXCEPT ![s] = [lat |-> ms, motd |-> m]]
    /\ UNCHANGED <<now, settings, there, up, series, poll, deleting, served, late, began>>

\* updateConfig changes the storage limit while series are long.
Configure ==
    /\ plan.storage # settings.storage
    /\ settings' = [settings EXCEPT !.storage = plan.storage]
    /\ UNCHANGED <<plan, now, there, up, cached, series, poll, deleting, served, late, began>>

Tick ==
    /\ now < plan.until
    /\ now' = now + 1
    /\ UNCHANGED <<plan, settings, there, up, cached, series, poll, deleting, served, late, began>>

HistoryInit ==
    /\ plan \in PingPlans
    /\ now = 0
    /\ settings = plan.settings
    /\ there = plan.there
    /\ up = plan.there \cap ServerIds
    /\ cached = [s \in ServerIds |-> [lat |-> 0, motd |-> FALSE]]
    /\ series = [s \in ServerIds |-> <<>>]
    /\ poll = [q \in Polls |-> IdlePoll]
    /\ deleting = {} /\ late = {}
    /\ served = [at |-> 0, cap |-> 0, ordered |-> TRUE, list |-> <<>>]
    /\ began = [s \in ServerIds |-> 0]

HistoryNext ==
    \/ \E q \in Polls :
          \/ \E s \in ServerIds : PingFromConfig(q, s) \/ LatencyInfo(q, s)
          \/ \E ms \in plan.lats, on \in BOOLEAN : PingAnswered(q, ms, on)
          \/ PollRecords(q)
    \/ \E s \in ServerIds :
          \/ \E n \in {0, 1} : Snapshot(s, n)
          \/ DeleteServerEntry(s) \/ DeleteSeries(s) \/ Toggle(s)
          \/ \E ms \in plan.lats, m \in BOOLEAN : Pong(s, ms, m)
    \/ Configure \/ Tick

-----------------------------------------------------------------------------
(* Properties. *)

\* The samples of a series are never closer than the gap in force for its server, so
\* that polls cannot fill it, are in order unless one arrived late, and are never more
\* than the storage limit before or after a change of it.
SeriesSpaced ==
    \A s \in ServerIds :
        LET gap == Min2(settings.gap, IF plan.conf[s].auto THEN plan.conf[s].every ELSE settings.gap)
        IN /\ Len(series[s]) <= Max2(plan.settings.storage, plan.storage)
           /\ s \notin late => \A i \in 2..Len(series[s]) : series[s][i].at - series[s][i - 1].at >= gap

\* A latency the dashboard shows from the history because a ping gave none is never
\* recorded again as if it had been measured.
NoEcho == \A s \in ServerIds : \A i \in DOMAIN series[s] : ~series[s][i].echo

\* A history request gets no sample older than the retention, and no more of them than
\* it may have, whenever the samples arrived in order.
ServedIsCurrent ==
    /\ Len(served.list) <= served.cap
    /\ served.ordered =>
          \A i \in DOMAIN served.list : served.list[i].at >= served.at - settings.retention

\* The series of a deleted server comes back only through a ping, or a round of pings,
\* that was under way when the server was deleted ("inRounds": what the rounds ping).
HistoryGone(inRounds) ==
    \A s \in ServerIds :
        s \notin there /\ s \notin deleting /\ series[s] = <<>> /\ series'[s] # <<>> =>
            s \in inRounds \cup {poll[q].info.srv : q \in {p \in Polls : poll[p].info.was}}

\* A series that is written all the time holds more than one sample after two gaps
\* ("accrue a trend over time").
TrendAccrues ==
    \A s \in ServerIds :
        series[s] # <<>> /\ Last(series[s]).at - began[s] >= 2 * settings.gap => Len(series[s]) > 1
=============================================================================
