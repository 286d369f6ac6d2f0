------------------------------ MODULE MCProbes ------------------------------
EXTENDS AutoPing, BatchTests

VARIABLE
    which    \* the part of the probes a behaviour is about

probesVars == <<AutoPingVars, batchVars, which>>

Conf(auto, mode, top, nodes) ==
    [auto |-> auto, every |-> 1, mode |-> mode, hour |-> 1, hours |-> 2, top |-> top, nodes |-> nodes,
     group |-> FALSE, banned |-> {}, fastest |-> TRUE]

Group(mode, top, nodes) == [Conf(TRUE, mode, top, nodes) EXCEPT !.group = TRUE]

NoConf == Conf(FALSE, "", 1, <<>>)
Idle == [t \in Targets |-> NoConf]
Settings == [gap |-> 2, retention |-> 3, storage |-> 2, render |-> 1]

IdlePings ==
    [conf |-> Idle, there |-> {}, settings |-> Settings, storage |-> 2, enabled |-> Nodes, listed |-> Nodes,
     tested |-> [n \in Nodes |-> 0], lats |-> Lats, until |-> 3, polls |-> 0, reads |-> 0, deletes |-> 0,
     toggles |-> 0, pongs |-> 0, unresolved |-> 0, triggers |-> 0, sessions |-> 0,
     switches |-> 0, stop |-> FALSE]

One(t, c) == [IdlePings EXCEPT !.there = {t}, !.conf[t] = c]
Pair == [IdlePings EXCEPT !.there = {"s1", "p1"}, !.conf["s1"] = Conf(TRUE, "", 1, <<1, 2>>),
                          !.conf["p1"] = Conf(TRUE, "", 1, <<1>>)]
Plain == One("s1", NoConf)

\* Rounds of a server with few or all of its nodes, in each mode of full scans.
Scans ==
    {[One("s1", Conf(TRUE, "daily", 1, ns)) EXCEPT !.sessions = 2, !.lats = {0, 50}] :
        ns \in {<<1, 2>>, <<1, 1, Direct>>}}
    \cup {One("s1", Conf(TRUE, "", 1, <<1, 2>>)),
          [One("s1", Group("", 1, <<1>>)) EXCEPT !.settings.retention = 1],
          [One("s1", Conf(TRUE, "", 1, <<1, 2>>)) EXCEPT !.unresolved = 1, !.until = 2],
          [One("s1", Conf(TRUE, "", 1, <<1, 2, Direct>>)) EXCEPT !.lats = {0, 50}, !.until = 3],
          [One("s1", Conf(TRUE, "", 1, <<2, 1, Direct>>)) EXCEPT !.lats = {0, 50}, !.until = 2, !.switches = 2,
                                                               !.conf["s1"].banned = {1}],
          [One("s1", Group("daily", 1, <<1, 2>>)) EXCEPT !.lats = {0, 50}],
          [One("s1", Conf(TRUE, "daily", 1, <<1, 2>>)) EXCEPT !.tested[2] = 50, !.listed = {1}]}

\* Rounds and refreshes of a server and a port, and the end of the program.
Refreshes ==
    {[Pair EXCEPT !.triggers = 2, !.sessions = 1, !.lats = {50}, !.until = 0],
     [Pair EXCEPT !.triggers = 1, !.stop = TRUE, !.lats = {50}, !.until = 0],
     [One("s1", Group("", 1, <<1>>)) EXCEPT !.triggers = 1, !.stop = TRUE, !.lats = {0, 50}, !.until = 1]}

\* Series under dashboard pings, passive and auto-ping samples.
Dashboards ==
    {[Plain EXCEPT !.polls = 2, !.pongs = 2, !.toggles = 1, !.lats = {0, 50}, !.until = 2],
     [Plain EXCEPT !.polls = 2, !.pongs = 1, !.deletes = 1, !.lats = {0, 50}],
     [Plain EXCEPT !.polls = 2, !.pongs = 1, !.reads = 1, !.storage = 1, !.lats = {0, 50}, !.settings.gap = 1,
                !.settings.retention = 1, !.until = 2],
     [One("s1", Group("", 1, <<1>>)) EXCEPT !.polls = 1, !.deletes = 1, !.lats = {50}],
     [One("s1", Group("", 1, <<1>>)) EXCEPT !.polls = 1, !.triggers = 1, !.lats = {50}, !.until = 1]}

\* Full scans at an interval.
Intervals == {[One("s1", Conf(TRUE, "interval", 1, <<1, 2>>)) EXCEPT !.lats = {50}, !.until = 4]}

MCPingPlans == Scans \cup Refreshes \cup Dashboards \cup {IdlePings}
IntervalPlans == Intervals \cup {IdlePings}

Request(type, names, width, stream) ==
    [type |-> type, names |-> names, width |-> width, stream |-> stream]

Unsent == Request("udp", <<>>, 0, FALSE)

IdleBatches ==
    [reqs |-> [b \in Batches |-> Unsent], sent |-> {}, known |-> {"n1", "n2"}, sticky |-> {"n1"}, leaves |-> 0]

Single(r) == [IdleBatches EXCEPT !.reqs = [b \in Batches |-> IF b = "b1" THEN r ELSE Unsent], !.sent = {"b1"}]

MCTypeBudget == [y \in TestTypes |-> IF y = "udp" THEN 1 ELSE 2]

\* One request whose client may leave, then two requests that share the limiters.
MCBatchPlans ==
    {IdleBatches, Single(Unsent), Single(Request("icmp", <<"n1">>, 1, TRUE))}
    \cup {[Single(Request(y, <<"n1", "none", "n1", "n2">>, w, st)) EXCEPT !.leaves = 1] :
            y \in {"http", "udp"}, w \in {0, 1}, st \in BOOLEAN}
    \cup {[IdleBatches EXCEPT !.reqs = [b \in Batches |-> IF b = "b1" THEN Request("udp", <<"n1", "n2">>, 0, TRUE)
                                                          ELSE Request(y, <<"n2">>, 0, FALSE)],
                             !.sent = Batches, !.leaves = 1] : y \in {"udp", "tcp"}}

Init ==
    /\ AutoPingInit /\ BatchInit
    /\ which \in {"pings", "batches"}
    /\ which = "pings" <=> plan.there # {}
    /\ which = "pings" => order = IdleBatches

Next ==
    \/ which = "pings" /\ AutoPingNext /\ UNCHANGED <<batchVars, which>>
    \/ which = "batches" /\ BatchNext /\ UNCHANGED <<AutoPingVars, which>>

Spec == Init /\ [][Next]_probesVars /\ AutoPingFairness /\ BatchFairness

\* Rounds, requests for a refresh and batches of tests all come to an end (RoundsEnd,
\* RequestsServed, BatchEnds).
ProbesEnd == RoundsEnd /\ RequestsServed /\ BatchEnds
=============================================================================
