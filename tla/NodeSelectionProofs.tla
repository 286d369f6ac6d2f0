------------------------- MODULE NodeSelectionProofs -------------------------
(***************************************************************************)
(* Proofs about NodeSelection: its type invariant, and what a selection    *)
(* promises about bans, the best node, nodes that were tried and the turns *)
(* of round-robin, for any number of nodes, dialers and changes; and about *)
(* BatchTests, which mark the nodes: their permits and their answers, for  *)
(* any number of batches.                                                  *)
(*                                                                         *)
(* The promises are about single steps, but need to know what the earlier  *)
(* reads of the selection have left behind.  Reads says that: a pin that is*)
(* being checked was neither banned nor tried when it was read, and a best *)
(* node is only read for least-latency, with a latency.                    *)
(***************************************************************************)
EXTENDS NodeSelection, BatchTests, FiniteSetTheorems, WellFoundedInduction, TLAPS

Sound(j) ==
    /\ j.pc \in {"check", "dial"} => j.at \in Selector
    /\ j.pc = "check" => j.at \notin j.blk \cup j.tried
    /\ j.pc = "best" => strategy = "least-latency"
    /\ j.best # None => j.ms > 0 /\ strategy = "least-latency"

Reads == \A d \in Dialers : Sound(job[d])

IInv == TypeOK /\ Reads

-----------------------------------------------------------------------------
(* The selector and the records.                                           *)

LEMMA NamesInSelector ==
    /\ Selector \subseteq Nodes \cup {Direct}
    /\ Nodes \subseteq Selector
    /\ None \notin Selector
<1>1. \A i \in 1 .. Len(Order) : Order[i] \in Nodes \cup {Direct}
  BY Constants
<1> QED BY <1>1, Constants DEF Selector

LEMMA SelectorFinite == IsFiniteSet(Selector) /\ Cardinality(Selector) \in Nat \ {0}
<1>1. Len(Order) \in Nat
  BY Constants
<1>2. IsFiniteSet(1 .. Len(Order))
  BY <1>1, FS_Interval
<1> DEFINE f == [i \in 1 .. Len(Order) |-> Order[i]]
<1>3. Selector = {f[i] : i \in 1 .. Len(Order)}
  BY DEF Selector
<1>4. f \in Surjection(1 .. Len(Order), Selector)
  BY <1>3 DEF Surjection
<1>5. IsFiniteSet(Selector)
  BY <1>2, <1>4, FS_Surjection
<1>6. Selector # {}
  BY Constants
<1> QED BY <1>5, <1>6, FS_CardinalityType, FS_EmptySet

\* A part of the selector has no more names than the selector.
LEMMA PartSize ==
    ASSUME NEW S, S \subseteq Selector, S # {}
    PROVE  Cardinality(S) \in 1 .. Cardinality(Selector)
<1>1. IsFiniteSet(S) /\ Cardinality(S) <= Cardinality(Selector)
  BY SelectorFinite, FS_Subset
<1>2. Cardinality(S) \in Nat /\ Cardinality(S) # 0
  BY <1>1, FS_CardinalityType, FS_EmptySet
<1> QED BY <1>1, <1>2, SelectorFinite

LEMMA ZeroLat == 0 \in Lats /\ Lats \subseteq Nat
BY Constants

LEMMA NoJobSound == NoJob \in Jobs /\ Sound(NoJob)
BY ZeroLat DEF NoJob, Jobs, Sound

\* A step of one dialer keeps what is true of its job, if its new one is sound.
LEMMA OneJob ==
    ASSUME IInv, NEW d \in Dialers, NEW j \in Jobs, Sound(j),
           job' = [job EXCEPT ![d] = j], strategy' = strategy
    PROVE  job' \in [Dialers -> Jobs] /\ Reads'
<1>1. job' \in [Dialers -> Jobs]
  BY DEF IInv, TypeOK
<1>2. \A e \in Dialers : job'[e] = IF e = d THEN j ELSE job[e]
  BY DEF IInv, TypeOK
<1>3. \A e \in Dialers : Sound(job'[e])
  BY <1>2 DEF IInv, Reads
<1> QED BY <1>1, <1>3 DEF Reads, Sound

-----------------------------------------------------------------------------
(* Steps of a selection.                                                   *)

\* The job of d becomes a sound one.
Moves(d) == \E j \in Jobs : Sound(j) /\ job' = [job EXCEPT ![d] = j]

LEMMA JobIs == ASSUME IInv, NEW d \in Dialers PROVE job[d] \in Jobs /\ Sound(job[d])
BY DEF IInv, TypeOK, Reads

LEMMA BeginMoves == ASSUME IInv, NEW d \in Dialers, Begin(d) PROVE Moves(d)
<1> DEFINE j == [NoJob EXCEPT !.pc = "bans"]
<1>1. j \in Jobs /\ Sound(j)
  BY ZeroLat DEF NoJob, Jobs, Sound
<1> QED BY <1>1 DEF Begin, Moves

LEMMA ReadBansMoves == ASSUME IInv, NEW d \in Dialers, ReadBans(d) PROVE Moves(d)
<1> DEFINE j == [job[d] EXCEPT !.pc = "manual", !.blk = bans]
<1>1. j \in Jobs /\ Sound(j)
  BY JobIs DEF Jobs, Sound, IInv, TypeOK
<1>2. job' = [job EXCEPT ![d] = j]
  BY DEF ReadBans
<1> QED BY <1>1, <1>2 DEF Moves

LEMMA ReadManualMoves == ASSUME IInv, NEW d \in Dialers, ReadManual(d) PROVE Moves(d)
<1> DEFINE next == IF strategy = "least-latency" THEN "best" ELSE "pin"
           j == [job[d] EXCEPT !.pc = next, !.man = manual]
<1>1. j \in Jobs /\ Sound(j)
  BY JobIs DEF Jobs, Sound, IInv, TypeOK
<1>2. job' = [job EXCEPT ![d] = j]
  BY DEF ReadManual
<1> QED BY <1>1, <1>2 DEF Moves

LEMMA FastestMeasured ==
    ASSUME TypeOK, NEW b \in Fastest(Measured)
    PROVE  b \in Selector /\ lat[b] \in Lats /\ lat[b] > 0
BY DEF Fastest, Measured, TypeOK

LEMMA ReadBestMoves == ASSUME IInv, NEW d \in Dialers, ReadBest(d) PROVE Moves(d)
<1>0. strategy = "least-latency"
  BY JobIs DEF ReadBest, Sound
<1>1. CASE Measured = {} /\ job' = [job EXCEPT ![d] = [@ EXCEPT !.pc = "pin"]]
  <2> DEFINE j == [job[d] EXCEPT !.pc = "pin"]
  <2>1. j \in Jobs /\ Sound(j)
    BY JobIs DEF Jobs, Sound
  <2> QED BY <1>1, <2>1 DEF Moves
<1>2. CASE \E b \in Fastest(Measured) :
              job' = [job EXCEPT ![d] = [@ EXCEPT !.pc = "pin", !.best = b,
                                                  !.ms = lat[b]]]
  <2>1. PICK b \in Fastest(Measured) :
              job' = [job EXCEPT ![d] = [@ EXCEPT !.pc = "pin", !.best = b,
                                                  !.ms = lat[b]]]
    BY <1>2
  <2> DEFINE j == [job[d] EXCEPT !.pc = "pin", !.best = b, !.ms = lat[b]]
  <2>2. b \in Selector /\ lat[b] \in Lats /\ lat[b] > 0
    BY FastestMeasured DEF IInv
  <2>3. j \in Jobs /\ Sound(j)
    BY <1>0, <2>2, JobIs DEF Jobs, Sound
  <2> QED BY <2>1, <2>3 DEF Moves
<1> QED BY <1>1, <1>2 DEF ReadBest

LEMMA ReadPinMoves == ASSUME IInv, NEW d \in Dialers, ReadPin(d) PROVE Moves(d)
<1> DEFINE use == HonorPin(d) /\ pin \notin job[d].blk \cup job[d].tried \cup {None}
<1>1. CASE use
  <2> DEFINE j == [job[d] EXCEPT !.pc = "check", !.at = pin]
  <2>1. pin \in Selector /\ pin \notin job[d].blk \cup job[d].tried
    BY <1>1 DEF IInv, TypeOK
  <2>2. j \in Jobs /\ Sound(j)
    BY <2>1, JobIs DEF Jobs, Sound
  <2>3. job' = [job EXCEPT ![d] = j]
    BY <1>1 DEF ReadPin
  <2> QED BY <2>2, <2>3 DEF Moves
<1>2. CASE ~use
  <2> DEFINE j == [job[d] EXCEPT !.pc = "select"]
  <2>1. j \in Jobs /\ Sound(j)
    BY JobIs DEF Jobs, Sound
  <2>2. job' = [job EXCEPT ![d] = j]
    BY <1>2 DEF ReadPin
  <2> QED BY <2>1, <2>2 DEF Moves
<1> QED BY <1>1, <1>2

LEMMA ChooseMoves ==
    ASSUME IInv, NEW d \in Dialers, NEW n \in Selector, Choose(d, n)
    PROVE  Moves(d)
<1> DEFINE j == [NoJob EXCEPT !.pc = "dial", !.tried = job[d].tried, !.at = n]
<1>1. job[d].tried \in SUBSET Selector
  BY JobIs DEF Jobs
<1>2. j \in Jobs /\ Sound(j)
  BY <1>1, ZeroLat DEF NoJob, Jobs, Sound
<1> QED BY <1>2 DEF Choose, Moves

LEMMA UsePinnedMoves == ASSUME IInv, NEW d \in Dialers, UsePinned(d) PROVE Moves(d)
<1>1. CASE Choose(d, job[d].at)
  <2>1. job[d].at \in Selector
    BY JobIs DEF UsePinned, Sound
  <2> QED BY <1>1, <2>1, ChooseMoves
<1>2. CASE job' = [job EXCEPT ![d] = [@ EXCEPT !.pc = "select", !.at = None]]
  <2> DEFINE j == [job[d] EXCEPT !.pc = "select", !.at = None]
  <2>1. j \in Jobs /\ Sound(j)
    BY JobIs DEF Jobs, Sound
  <2> QED BY <1>2, <2>1 DEF Moves
<1> QED BY <1>1, <1>2 DEF UsePinned
LEMMA ByStrategyPart == \A S : ByStrategy(S) \subseteq S
<1> TAKE S
<1>1. LeastLatency(S) \subseteq S
  BY DEF LeastLatency, First, Fastest
<1>2. LeastConnections(S) \subseteq S
  BY DEF LeastConnections, First
<1> QED BY <1>1, <1>2 DEF ByStrategy

\* Whatever the strategy, a node of Healthy(d) is chosen.
LEMMA SelectPicks ==
    ASSUME NEW d, Select(d), Healthy(d) # {}
    PROVE  \/ \E n \in ByStrategy(Healthy(d)) : Choose(d, n) /\ UNCHANGED turn
           \/ strategy = "round-robin" /\ RoundRobin(d, Healthy(d))
BY DEF Select

LEMMA SelectChooses ==
    ASSUME NEW d, Select(d), Healthy(d) # {}
    PROVE  \E n \in Healthy(d) : Choose(d, n)
<1>1. CASE \E n \in ByStrategy(Healthy(d)) : Choose(d, n) /\ UNCHANGED turn
  BY <1>1, ByStrategyPart
<1>2. CASE RoundRobin(d, Healthy(d))
  BY <1>2 DEF RoundRobin, Take
<1> QED BY <1>1, <1>2, SelectPicks

LEMMA NoJobMoves ==
    ASSUME IInv, NEW d \in Dialers, job' = [job EXCEPT ![d] = NoJob]
    PROVE  Moves(d)
BY NoJobSound DEF Moves

LEMMA DialOKMoves == ASSUME IInv, NEW d \in Dialers, DialOK(d) PROVE Moves(d)
<1> DEFINE j == [NoJob EXCEPT !.pc = "open", !.at = job[d].at]
<1>1. job[d].at \in Selector \cup {None}
  BY JobIs DEF Jobs
<1>2. j \in Jobs /\ Sound(j)
  BY <1>1, ZeroLat DEF NoJob, Jobs, Sound
<1> QED BY <1>2 DEF DialOK, Moves
LEMMA DialFailsMoves == ASSUME IInv, NEW d \in Dialers, DialFails(d) PROVE Moves(d)
<1>1. CASE job' = [job EXCEPT ![d] = NoJob]
  BY <1>1, NoJobMoves
<1>2. CASE job' = [job EXCEPT ![d] = [NoJob EXCEPT !.pc = "bans",
                                         !.tried = job[d].tried \cup {job[d].at}]]
  <2> DEFINE j == [NoJob EXCEPT !.pc = "bans", !.tried = job[d].tried \cup {job[d].at}]
  <2>1. job[d].tried \cup {job[d].at} \in SUBSET Selector
    BY JobIs DEF Jobs, Sound, DialFails
  <2>2. j \in Jobs /\ Sound(j)
    BY <2>1, ZeroLat DEF NoJob, Jobs, Sound
  <2> QED BY <1>2, <2>2 DEF Moves
<1> QED BY <1>1, <1>2 DEF DialFails

LEMMA SelectMoves == ASSUME IInv, NEW d \in Dialers, Select(d) PROVE Moves(d)
<1>1. CASE Healthy(d) = {}
  <2>1. job' = [job EXCEPT ![d] = NoJob]
    <3>1. ByStrategy(Healthy(d)) = {}
      BY <1>1, ByStrategyPart
    <3>2. ~RoundRobin(d, Healthy(d))
      BY <1>1 DEF RoundRobin, Take
    <3> QED BY <1>1, <3>1, <3>2 DEF Select
  <2> QED BY <2>1, NoJobMoves
<1>2. CASE Healthy(d) # {}
  <2>1. PICK n \in Healthy(d) : Choose(d, n)
    BY <1>2, SelectChooses
  <2>2. n \in Selector
    BY DEF Healthy
  <2> QED BY <2>1, <2>2, ChooseMoves
<1> QED BY <1>1, <1>2

\* The index stays below the number of nodes.
LEMMA SelectTurns ==
    ASSUME IInv, NEW d \in Dialers, Select(d)
    PROVE  /\ rr' \in 0 .. Cardinality(Selector) - 1
           /\ last' \in Picks
<1> DEFINE S == Healthy(d)
<1>1. CASE UNCHANGED turn
  BY <1>1 DEF turn, IInv, TypeOK
<1>2. CASE RoundRobin(d, S)
  <2>1. PICK n \in S : last' = [at |-> n, of |-> S]
    BY <1>2 DEF RoundRobin, Take
  <2>2. S \subseteq Selector
    BY DEF Healthy
  <2>3. Cardinality(S) \in 1 .. Cardinality(Selector)
    BY <2>1, <2>2, PartSize
  <2>4. rr \in Nat
    BY DEF IInv, TypeOK
  <2>5. Index(S) + 1 \in Nat
    BY <2>4 DEF Index
  <2> HIDE DEF S
  <2>6. rr' = (Index(S) + 1) % Cardinality(S)
    BY <1>2 DEF RoundRobin
  <2>7. rr' \in 0 .. Cardinality(S) - 1
    BY <2>3, <2>5, <2>6, SelectorFinite
  <2>8. last' \in Picks
    BY <2>1, <2>2 DEF Picks
  <2> QED BY <2>3, <2>7, <2>8, SelectorFinite
<1>3. UNCHANGED turn \/ RoundRobin(d, S)
  BY DEF Select
<1> QED BY <1>1, <1>2, <1>3
-----------------------------------------------------------------------------
(* The invariant.                                                          *)

LEMMA InitIInv == ASSUME Init PROVE IInv
<1>1. rr \in 0 .. Cardinality(Selector) - 1
  BY SelectorFinite DEF Init
<1>2. job \in [Dialers -> Jobs] /\ \A d \in Dialers : Sound(job[d])
  BY NoJobSound DEF Init
<1>3. lat \in [Selector -> Lats]
  BY ZeroLat DEF Init
<1>4. last \in Picks /\ sw \in Switches
  BY ZeroLat DEF Init, Picks, Switches, NoSwitch
<1>5. changes \in 0 .. MaxChanges
  BY Constants DEF Init
<1>6. strategy \in Strategies /\ node \in [Nodes -> NodeStates]
  BY DEF Init, NodeStates
<1>7. pin \in Selector \cup {None} /\ bans \subseteq Selector /\ seen \in Selector \cup {None}
  BY DEF Init
<1>8. manual \in BOOLEAN /\ dwell \in BOOLEAN
  BY DEF Init
<1> QED BY <1>1, <1>2, <1>3, <1>4, <1>5, <1>6, <1>7, <1>8 DEF IInv, TypeOK, Reads

\* A dialer's step changes its job, perhaps the node and perhaps the turn.
LEMMA DialKeeps ==
    ASSUME IInv, NEW d \in Dialers, Moves(d), UNCHANGED <<settings, workerVars>>,
           node' \in [Nodes -> NodeStates],
           rr' \in 0 .. Cardinality(Selector) - 1, last' \in Picks
    PROVE  IInv'
<1>1. UNCHANGED <<strategy, lat, pin, manual, bans, changes, sw, seen, dwell>>
  BY DEF settings, workerVars
<1>2. PICK j \in Jobs : Sound(j) /\ job' = [job EXCEPT ![d] = j]
  BY DEF Moves
<1>3. job' \in [Dialers -> Jobs] /\ Reads'
  BY <1>1, <1>2, OneJob
<1>4. TypeOK'
  BY <1>1, <1>3 DEF IInv, TypeOK
<1> QED BY <1>3, <1>4 DEF IInv

\* The other steps leave the jobs and the strategy alone.
LEMMA OtherKeeps ==
    ASSUME IInv, TypeOK', UNCHANGED <<strategy, job>>
    PROVE  IInv'
<1>1. Reads'
  BY DEF IInv, Reads, Sound
<1> QED BY <1>1 DEF IInv

LEMMA DialerStep ==
    ASSUME IInv, NEW d \in Dialers,
           \/ Begin(d) \/ ReadBans(d) \/ ReadManual(d) \/ ReadBest(d) \/ ReadPin(d)
           \/ UsePinned(d) \/ Select(d) \/ DialOK(d) \/ DialFails(d) \/ Disconnect(d)
    PROVE  IInv'
<1>0. /\ node \in [Nodes -> NodeStates]
      /\ rr \in 0 .. Cardinality(Selector) - 1
      /\ last \in Picks
  BY DEF IInv, TypeOK
<1>1. ASSUME Moves(d), UNCHANGED <<node, turn, settings, workerVars>> PROVE IInv'
  BY <1>0, <1>1, DialKeeps DEF turn
<1>2. CASE Begin(d)
  BY <1>1, <1>2, BeginMoves DEF Begin
<1>3. CASE ReadBans(d)
  BY <1>1, <1>3, ReadBansMoves DEF ReadBans
<1>4. CASE ReadManual(d)
  BY <1>1, <1>4, ReadManualMoves DEF ReadManual
<1>5. CASE ReadBest(d)
  BY <1>1, <1>5, ReadBestMoves DEF ReadBest
<1>6. CASE ReadPin(d)
  BY <1>1, <1>6, ReadPinMoves, ZenonT(60) DEF ReadPin
<1>7. CASE UsePinned(d)
  BY <1>1, <1>7, UsePinnedMoves DEF UsePinned
<1>8. CASE Select(d)
  <2>1. UNCHANGED <<node, settings, workerVars>>
    BY <1>8 DEF Select
  <2> QED BY <1>0, <1>8, <2>1, SelectMoves, SelectTurns, DialKeeps
<1>9. CASE DialOK(d)
  <2>1. node' \in [Nodes -> NodeStates]
    BY <1>0, <1>9 DEF DialOK, NodeStates
  <2>2. UNCHANGED <<turn, settings, workerVars>>
    BY <1>9 DEF DialOK
  <2> QED BY <1>0, <1>9, <2>1, <2>2, DialOKMoves, DialKeeps DEF turn
<1>10. CASE DialFails(d)
  <2>1. node' \in [Nodes -> NodeStates]
    BY <1>0, <1>10 DEF DialFails, NodeStates
  <2>2. UNCHANGED <<turn, settings, workerVars>>
    BY <1>10 DEF DialFails
  <2> QED BY <1>0, <1>10, <2>1, <2>2, DialFailsMoves, DialKeeps DEF turn
<1>11. CASE Disconnect(d)
  BY <1>1, <1>11, NoJobMoves DEF Disconnect
<1> QED BY <1>2, <1>3, <1>4, <1>5, <1>6, <1>7, <1>8, <1>9, <1>10, <1>11

\* The ping worker.
LEMMA SwitchStep == ASSUME IInv, SwitchBest \/ SwitchRead \/ SwitchSet PROVE IInv'
<1>1. CASE SwitchBest
  <2>1. PICK b \in Fastest(Measured) : sw' = [pc |-> "read", best |-> b, ms |-> lat[b]]
    BY <1>1 DEF SwitchBest
  <2>2. b \in Selector /\ lat[b] \in Lats
    BY FastestMeasured DEF IInv
  <2>3. sw' \in Switches
    BY <2>1, <2>2 DEF Switches
  <2>4. UNCHANGED <<strategy, node, lat, pin, manual, bans, rr, last, job, seen, dwell,
                    changes>>
    BY <1>1 DEF SwitchBest, turn, settings
  <2>5. TypeOK'
    BY <2>3, <2>4 DEF IInv, TypeOK
  <2> QED BY <2>4, <2>5, OtherKeeps
<1>2. CASE SwitchRead
  <2>1. sw' \in Switches
    <3>1. NoSwitch \in Switches
      BY ZeroLat DEF NoSwitch, Switches
    <3>2. [sw EXCEPT !.pc = "set"] \in Switches
      BY DEF IInv, TypeOK, Switches
    <3> QED BY <1>2, <3>1, <3>2 DEF SwitchRead
  <2>2. seen' \in Selector \cup {None}
    BY <1>2 DEF SwitchRead, IInv, TypeOK
  <2>3. dwell' \in BOOLEAN
    BY <1>2 DEF SwitchRead, IInv, TypeOK
  <2>4. UNCHANGED <<strategy, node, lat, pin, manual, bans, rr, last, job, changes>>
    BY <1>2 DEF SwitchRead, turn, settings
  <2>5. TypeOK'
    BY <2>1, <2>2, <2>3, <2>4 DEF IInv, TypeOK
  <2> QED BY <2>4, <2>5, OtherKeeps
<1>3. CASE SwitchSet
  <2>1. sw.best \in Selector \cup {None}
    BY DEF IInv, TypeOK, Switches
  <2>2. sw' \in Switches
    BY <1>3, ZeroLat DEF SwitchSet, NoSwitch, Switches
  <2>3. UNCHANGED <<strategy, node, lat, bans, rr, last, job, changes>>
    BY <1>3 DEF SwitchSet, turn
  <2>4. pin' = sw.best /\ seen' = sw.best /\ manual' \in BOOLEAN /\ dwell' \in BOOLEAN
    BY <1>3 DEF SwitchSet
  <2>5. TypeOK'
    BY <2>1, <2>2, <2>3, <2>4 DEF IInv, TypeOK
  <2> QED BY <2>3, <2>5, OtherKeeps
<1> QED BY <1>1, <1>2, <1>3
LEMMA ChangeCounts == ASSUME TypeOK, Change PROVE changes' \in 0 .. MaxChanges
BY Constants DEF TypeOK, Change

\* The operator, the network and time.
LEMMA ChangeStep ==
    ASSUME IInv,
           \/ \E n \in Selector, man \in BOOLEAN : SwitchServerNode(n, man)
           \/ \E n \in Selector : BlockServerNode(n) \/ UnblockServerNode(n)
           \/ \E n \in Selector, ms \in Lats : SetServerNodeLatency(n, ms)
           \/ \E n \in Nodes, s \in NodeStates : NodeChanges(n, s)
           \/ DwellPasses
    PROVE  IInv'
<1> USE DEF workerVars, turn
<1>1. CASE \E n \in Selector, man \in BOOLEAN : SwitchServerNode(n, man)
  <2>1. pin' \in Selector /\ manual' \in BOOLEAN /\ Change
    BY <1>1 DEF SwitchServerNode
  <2>2. UNCHANGED <<strategy, node, lat, bans, rr, last, job, sw, seen, dwell>>
    BY <1>1 DEF SwitchServerNode
  <2>3. TypeOK'
    BY <2>1, <2>2, ChangeCounts DEF IInv, TypeOK
  <2> QED BY <2>2, <2>3, OtherKeeps
<1>2. CASE \E n \in Selector : BlockServerNode(n) \/ UnblockServerNode(n)
  <2>1. bans' \subseteq Selector /\ Change
    BY <1>2 DEF BlockServerNode, UnblockServerNode, IInv, TypeOK
  <2>2. UNCHANGED <<strategy, node, lat, pin, manual, rr, last, job, sw, seen, dwell>>
    BY <1>2 DEF BlockServerNode, UnblockServerNode
  <2>3. TypeOK'
    BY <2>1, <2>2, ChangeCounts DEF IInv, TypeOK
  <2> QED BY <2>2, <2>3, OtherKeeps
<1>3. CASE \E n \in Selector, ms \in Lats : SetServerNodeLatency(n, ms)
  <2>1. lat' \in [Selector -> Lats] /\ Change
    BY <1>3 DEF SetServerNodeLatency, IInv, TypeOK
  <2>2. UNCHANGED <<strategy, node, pin, manual, bans, rr, last, job, sw, seen, dwell>>
    BY <1>3 DEF SetServerNodeLatency
  <2>3. TypeOK'
    BY <2>1, <2>2, ChangeCounts DEF IInv, TypeOK
  <2> QED BY <2>2, <2>3, OtherKeeps
<1>4. CASE \E n \in Nodes, s \in NodeStates : NodeChanges(n, s)
  <2>1. node' \in [Nodes -> NodeStates] /\ Change
    BY <1>4 DEF NodeChanges, IInv, TypeOK
  <2>2. UNCHANGED <<strategy, lat, pin, manual, bans, rr, last, job, sw, seen, dwell>>
    BY <1>4 DEF NodeChanges
  <2>3. TypeOK'
    BY <2>1, <2>2, ChangeCounts DEF IInv, TypeOK
  <2> QED BY <2>2, <2>3, OtherKeeps
<1>5. CASE DwellPasses
  <2>1. dwell' \in BOOLEAN /\ Change
    BY <1>5 DEF DwellPasses
  <2>2. UNCHANGED <<strategy, node, lat, pin, manual, bans, rr, last, job, sw, seen>>
    BY <1>5 DEF DwellPasses
  <2>3. TypeOK'
    BY <2>1, <2>2, ChangeCounts DEF IInv, TypeOK
  <2> QED BY <2>2, <2>3, OtherKeeps
<1> QED BY <1>1, <1>2, <1>3, <1>4, <1>5

LEMMA StepIInv == ASSUME IInv, [Next]_vars PROVE IInv'
<1>1. CASE UNCHANGED vars
  BY <1>1 DEF vars, IInv, TypeOK, Reads, Sound
<1>2. CASE Next
  BY <1>2, DialerStep, SwitchStep, ChangeStep DEF Next
<1> QED BY <1>1, <1>2

LEMMA Invariance == Spec => []IInv
<1>1. Init => IInv
  BY InitIInv
<1>2. IInv /\ [Next]_vars => IInv'
  BY StepIInv
<1> QED BY <1>1, <1>2, PTL DEF Spec

(***************************************************************************)
(* Every variable of a server's selection keeps its type; the round-robin  *)
(* index stays below the number of names in the selector.                  *)
(***************************************************************************)
THEOREM TypeCorrect == Spec => []TypeOK
<1>1. IInv => TypeOK
  BY DEF IInv
<1> QED BY <1>1, Invariance, PTL

-----------------------------------------------------------------------------
(* What a selection promises.                                              *)

\* A node is chosen by UsePinned or by Select, of this dialer.
LEMMA Choosing ==
    ASSUME IInv, [Next]_vars, NEW d \in Dialers, NEW n \in Selector, Chooses(d, n)
    PROVE  \/ UsePinned(d) /\ Choose(d, job[d].at) /\ n = job[d].at
           \/ Select(d) /\ Choose(d, n) /\ n \in Healthy(d)
<1> DEFINE p == job[d].pc
<1>1. p \in {"check", "select"} /\ job'[d].pc = "dial" /\ job'[d].at = n /\ job'[d] # job[d]
  BY DEF Chooses
<1>2. \A e \in Dialers : Moves(e) => (e # d => job'[d] = job[d])
  BY DEF Moves, IInv, TypeOK
<1>3. ASSUME UNCHANGED job PROVE FALSE
  BY <1>1, <1>3
<1>4. PICK e \in Dialers :
         \/ Begin(e) \/ ReadBans(e) \/ ReadManual(e) \/ ReadBest(e) \/ ReadPin(e)
         \/ UsePinned(e) \/ Select(e) \/ DialOK(e) \/ DialFails(e) \/ Disconnect(e)
  BY <1>3 DEF Next, vars, SwitchBest, SwitchRead, SwitchSet, SwitchServerNode,
      BlockServerNode, UnblockServerNode, SetServerNodeLatency, NodeChanges, DwellPasses
<1>5. Moves(e)
  BY <1>4, BeginMoves, ReadBansMoves, ReadManualMoves, ReadBestMoves, ReadPinMoves,
     UsePinnedMoves, SelectMoves, DialOKMoves, DialFailsMoves, NoJobMoves DEF Disconnect
<1>6. e = d
  BY <1>1, <1>2, <1>5
<1>7. UsePinned(d) \/ Select(d)
  BY <1>1, <1>4, <1>6 DEF Begin, ReadBans, ReadManual, ReadBest, ReadPin, DialOK,
     DialFails, Disconnect
<1>8. \A m \in Selector : Choose(d, m) => m = n
  <2> TAKE m \in Selector
  <2> HAVE Choose(d, m)
  <2>1. job'[d] = [NoJob EXCEPT !.pc = "dial", !.tried = job[d].tried, !.at = m]
    BY DEF Choose, IInv, TypeOK
  <2>2. job'[d].at = m
    BY <2>1 DEF NoJob
  <2> QED BY <1>1, <2>2
<1>9. CASE UsePinned(d)
  <2>1. job[d].at \in Selector
    BY <1>9, JobIs DEF UsePinned, Sound
  <2>2. ASSUME job' = [job EXCEPT ![d] = [@ EXCEPT !.pc = "select", !.at = None]]
        PROVE  FALSE
    <3>1. job'[d].pc = "select"
      BY <2>2, JobIs DEF Jobs, IInv, TypeOK
    <3> QED BY <1>1, <3>1
  <2>3. Choose(d, job[d].at)
    BY <1>9, <2>2 DEF UsePinned
  <2> QED BY <1>8, <1>9, <2>1, <2>3
<1>10. CASE Select(d)
  <2>1. ASSUME job' = [job EXCEPT ![d] = NoJob] PROVE FALSE
    BY <1>1, <2>1 DEF NoJob, IInv, TypeOK
  <2>2. Healthy(d) # {}
    <3>1. SUFFICES ASSUME Healthy(d) = {} PROVE FALSE
      OBVIOUS
    <3>2. ByStrategy(Healthy(d)) = {}
      BY <3>1, ByStrategyPart
    <3>3. ~RoundRobin(d, Healthy(d))
      BY <3>1 DEF RoundRobin, Take
    <3> QED BY <1>10, <2>1, <3>1, <3>2, <3>3 DEF Select
  <2>3. PICK m \in Healthy(d) : Choose(d, m)
    BY <1>10, <2>2, SelectChooses
  <2>4. m = n
    BY <1>8, <2>3 DEF Healthy
  <2> QED BY <1>10, <2>3, <2>4
<1> QED BY <1>7, <1>9, <1>10

(***************************************************************************)
(* "A node banned for this server is never honored even when pinned", for  *)
(* bans that were there when the selection began and are when it ends.     *)
(***************************************************************************)
THEOREM BansHold == Spec => BanRespected
<1>1. ASSUME IInv, [Next]_vars, NEW d \in Dialers, NEW n \in Selector, Chooses(d, n)
      PROVE  n \notin job[d].blk \cap bans
  <2>1. CASE UsePinned(d) /\ n = job[d].at
    BY <1>1, <2>1, JobIs DEF UsePinned, Sound
  <2>2. CASE n \in Healthy(d)
    BY <2>2 DEF Healthy
  <2> QED BY <1>1, <2>1, <2>2, Choosing
<1>2. IInv /\ [Next]_vars =>
        [\A d \in Dialers, n \in Selector : Chooses(d, n) => n \notin job[d].blk \cap bans]_vars
  BY <1>1
<1> QED BY <1>2, Invariance, PTL DEF Spec, BanRespected

(***************************************************************************)
(* The failover of a dial selects no node a second time, which bounds the  *)
(* loop of dialWithLoadBalancing by the number of nodes.                   *)
(***************************************************************************)
THEOREM TriesOnce == Spec => NoNodeTwice
<1>1. ASSUME IInv, [Next]_vars, NEW d \in Dialers, NEW n \in Selector, Chooses(d, n)
      PROVE  n \notin job[d].tried
  <2>1. CASE UsePinned(d) /\ n = job[d].at
    BY <1>1, <2>1, JobIs DEF UsePinned, Sound
  <2>2. CASE n \in Healthy(d)
    BY <2>2 DEF Healthy
  <2> QED BY <1>1, <2>1, <2>2, Choosing
<1>2. IInv /\ [Next]_vars =>
        [\A d \in Dialers, n \in Selector : Chooses(d, n) => n \notin job[d].tried]_vars
  BY <1>1
<1> QED BY <1>2, Invariance, PTL DEF Spec, NoNodeTwice
\* Nobody leaves a node for one that is no faster.
LEMMA NoGain == ASSUME NEW p \in Nat, NEW b \in Nat, p <= b PROVE ~Gain(p, b)
BY Constants DEF Gain

\* What selectLeastLatencyForServer takes is measured, and as fast as any other.
LEMMA LeastLatencyBest ==
    ASSUME TypeOK, NEW S, S \subseteq Selector, NEW b \in S, lat[b] > 0,
           NEW n \in LeastLatency(S)
    PROVE  lat[n] > 0 /\ lat[n] <= lat[b]
<1> DEFINE known == {m \in S : lat[m] > 0}
<1>1. b \in known
  OBVIOUS
<1>2. n \in Fastest(known)
  BY <1>1 DEF LeastLatency, First
<1> QED BY <1>1, <1>2 DEF Fastest

(***************************************************************************)
(* A least-latency selection without a manual pin does not pass over the   *)
(* best node it has seen, as long as that may be selected and is as fast,  *)
(* for one so much slower that the automatic switch would leave it.        *)
(***************************************************************************)
THEOREM BestKept == Spec => BestNotPassedOver
<1>1. ASSUME IInv, [Next]_vars, NEW d \in Dialers, NEW n \in Selector, Chooses(d, n),
             ~job[d].man, job[d].best \in Healthy(d), lat[job[d].best] = job[d].ms
      PROVE  lat[n] > 0 /\ ~Gain(lat[n], job[d].ms)
  <2> DEFINE b == job[d].best
  <2>1. b \in Selector /\ b # None
    BY <1>1, NamesInSelector DEF Healthy
  <2>2. job[d].ms \in Nat /\ job[d].ms > 0 /\ strategy = "least-latency"
    BY <1>1, <2>1, JobIs, ZeroLat DEF Jobs, Sound
  <2>3. lat[n] \in Nat
    BY <1>1, ZeroLat DEF IInv, TypeOK
  <2>4. CASE UsePinned(d) /\ Choose(d, job[d].at) /\ n = job[d].at
    <3>1. CASE b = n
      BY <1>1, <2>2, <2>3, <3>1, NoGain
    <3>2. CASE b # n
      <4>1. ASSUME job' = [job EXCEPT ![d] = [@ EXCEPT !.pc = "select", !.at = None]]
            PROVE  FALSE
        <5>1. job'[d].pc = "select"
          BY <1>1, <4>1, JobIs DEF Jobs, IInv, TypeOK
        <5> QED BY <1>1, <5>1 DEF Chooses
      <4>2. lat[n] > 0 /\ ~Prefer(lat[n], job[d].ms)
        BY <1>1, <2>1, <2>4, <3>2, <4>1 DEF UsePinned
      <4> QED BY <2>2, <2>3, <4>2 DEF Prefer
    <3> QED BY <3>1, <3>2
  <2>5. CASE Select(d) /\ Choose(d, n) /\ n \in Healthy(d)
    <3>1. PICK m \in LeastLatency(Healthy(d)) : Choose(d, m)
      <4>1. Healthy(d) # {}
        BY <1>1
      <4> QED BY <2>2, <2>5, <4>1, SelectPicks DEF ByStrategy
    <3>2. m = n
      <4>1. /\ job'[d] = [NoJob EXCEPT !.pc = "dial", !.tried = job[d].tried, !.at = m]
            /\ job'[d] = [NoJob EXCEPT !.pc = "dial", !.tried = job[d].tried, !.at = n]
        BY <1>1, <2>5, <3>1 DEF Choose, IInv, TypeOK
      <4> QED BY <4>1 DEF NoJob
    <3>3. lat[n] > 0 /\ lat[n] <= job[d].ms
      <4>1. Healthy(d) \subseteq Selector
        BY DEF Healthy
      <4> QED BY <1>1, <2>2, <3>1, <3>2, <4>1, LeastLatencyBest DEF IInv
    <3> QED BY <2>2, <2>3, <3>3, NoGain
  <2> QED BY <1>1, <2>4, <2>5, Choosing
<1>2. IInv /\ [Next]_vars =>
        [\A d \in Dialers, n \in Selector :
           (/\ Chooses(d, n)
            /\ ~job[d].man
            /\ job[d].best \in Healthy(d)
            /\ lat[job[d].best] = job[d].ms)
               => lat[n] > 0 /\ ~Gain(lat[n], job[d].ms)]_vars
  BY <1>1
<1> QED BY <1>2, Invariance, PTL DEF Spec, BestNotPassedOver

-----------------------------------------------------------------------------
(* The round-robin index.                                                  *)

\* The index is not the place of the node taken last, among the nodes it was taken from.
Rotated ==
    Cardinality(last.of) > 1 => rr < Cardinality(last.of) /\ Place(last.at, last.of) # rr

\* Nothing but selectRoundRobin turns the index.
LEMMA OnlySelectTurns ==
    ASSUME [Next]_vars
    PROVE  UNCHANGED turn \/ \E d \in Dialers : RoundRobin(d, Healthy(d))
<1>1. CASE UNCHANGED vars
  BY <1>1 DEF vars, turn
<1>2. ASSUME NEW d \in Dialers, Select(d)
      PROVE  UNCHANGED turn \/ RoundRobin(d, Healthy(d))
  BY <1>2 DEF Select
<1>3. ASSUME NEW d \in Dialers,
             \/ Begin(d) \/ ReadBans(d) \/ ReadManual(d) \/ ReadBest(d) \/ ReadPin(d)
             \/ UsePinned(d) \/ DialOK(d) \/ DialFails(d) \/ Disconnect(d)
      PROVE  UNCHANGED turn
  BY <1>3 DEF Begin, ReadBans, ReadManual, ReadBest, ReadPin, UsePinned, DialOK, DialFails,
      Disconnect, turn
<1>4. CASE \/ SwitchBest \/ SwitchRead \/ SwitchSet
           \/ \E n \in Selector, man \in BOOLEAN : SwitchServerNode(n, man)
           \/ \E n \in Selector : BlockServerNode(n) \/ UnblockServerNode(n)
           \/ \E n \in Selector, ms \in Lats : SetServerNodeLatency(n, ms)
           \/ \E n \in Nodes, s \in NodeStates : NodeChanges(n, s)
           \/ DwellPasses
  BY <1>4 DEF SwitchBest, SwitchRead, SwitchSet, SwitchServerNode, BlockServerNode,
      UnblockServerNode, SetServerNodeLatency, NodeChanges, DwellPasses, turn
<1> QED BY <1>1, <1>2, <1>3, <1>4 DEF Next

\* One place further round is another place, when there are two.
LEMMA NextPlace ==
    ASSUME NEW c \in Nat, c > 1, NEW i \in 0 .. c - 1
    PROVE  (i + 1) % c \in 0 .. c - 1 /\ (i + 1) % c # i
<1>1. CASE i + 1 < c
  <2>1. (i + 1) % c = i + 1
    BY <1>1
  <2> QED BY <1>1, <2>1
<1>2. CASE i + 1 = c
  <2>1. (i + 1) % c = 0
    BY <1>2
  <2> QED BY <1>2, <2>1
<1> QED BY <1>1, <1>2

LEMMA RotatedStep ==
    ASSUME IInv, Rotated, [Next]_vars
    PROVE  Rotated'
<1>1. CASE UNCHANGED turn
  <2>1. rr' = rr /\ last' = last
    BY <1>1 DEF turn
  <2> QED BY <2>1 DEF Rotated, Place, Before
<1>2. ASSUME NEW d \in Dialers, RoundRobin(d, Healthy(d))
      PROVE  Rotated'
  <2>1. PICK S : S = Healthy(d)
    OBVIOUS
  <2>2. PICK n \in S : Place(n, S) = Index(S) /\ last' = [at |-> n, of |-> S]
    BY <1>2, <2>1 DEF RoundRobin, Take
  <2>3. Cardinality(S) \in 1 .. Cardinality(Selector) /\ Cardinality(Selector) \in Nat
    BY <2>1, <2>2, PartSize, SelectorFinite DEF Healthy
  <2>4. PICK c \in Nat : c = Cardinality(S)
    BY <2>3
  <2>5. rr \in Nat
    BY SelectorFinite DEF IInv, TypeOK
  <2>6. Index(S) \in 0 .. c - 1
    BY <2>3, <2>4, <2>5 DEF Index
  <2>7. rr' = (Index(S) + 1) % c
    BY <1>2, <2>1, <2>4 DEF RoundRobin
  <2>8. c > 1 => rr' \in 0 .. c - 1 /\ rr' # Index(S)
    BY <2>6, <2>7, NextPlace
  <2>9. last'.at = n /\ last'.of = S
    BY <2>2
  <2>10. Cardinality(last'.of) > 1 => rr' < Cardinality(last'.of) /\ Place(last'.at, last'.of) # rr'
    BY <2>2, <2>4, <2>8, <2>9
  <2> QED BY <2>10 DEF Rotated, Place, Before
<1> QED BY <1>1, <1>2, OnlySelectTurns

LEMMA StaysRotated == Spec => []Rotated
<1>1. Init => Rotated
  <2>1. Cardinality({}) = 0
    BY FS_EmptySet
  <2> QED BY <2>1 DEF Init, Rotated
<1> QED BY <1>1, Invariance, RotatedStep, PTL DEF Spec

(***************************************************************************)
(* selectRoundRobin cycles: two picks in a row from the same nodes differ, *)
(* whichever dialers make them and whatever happened to the nodes between. *)
(***************************************************************************)
THEOREM Rotates == Spec => RotationAdvances
<1>1. ASSUME IInv, Rotated, [Next]_vars, NEW d \in Dialers, NEW n \in Selector,
             Chooses(d, n), job[d].pc = "select", strategy = "round-robin",
             Cardinality(Healthy(d)) > 1, Healthy(d) = last.of
      PROVE  n # last.at
  <2>1. Select(d) /\ Choose(d, n)
    BY <1>1, Choosing DEF UsePinned
  <2>2. Healthy(d) # {} /\ Cardinality(Healthy(d)) # 1
    BY <1>1, FS_EmptySet
  <2>3. RoundRobin(d, Healthy(d))
    BY <1>1, <2>1, <2>2 DEF Select
  <2>4. PICK m \in Healthy(d) : Place(m, Healthy(d)) = Index(Healthy(d)) /\ Choose(d, m)
    BY <2>3 DEF RoundRobin, Take
  <2>5. job'[d] = [NoJob EXCEPT !.pc = "dial", !.tried = job[d].tried, !.at = m]
    BY <1>1, <2>4 DEF Choose, IInv, TypeOK
  <2>6. m = n
    BY <1>1, <2>5 DEF NoJob, Chooses
  <2>7. rr < Cardinality(last.of) /\ Place(last.at, last.of) # rr
    BY <1>1 DEF Rotated
  <2>8. Cardinality(last.of) \in Nat /\ rr \in Nat
    BY <1>1, <2>2, PartSize, SelectorFinite DEF Healthy, IInv, TypeOK
  <2>9. Index(last.of) = rr
    BY <2>7, <2>8 DEF Index
  <2> QED BY <1>1, <2>4, <2>6, <2>7, <2>9
<1>2. IInv /\ Rotated /\ [Next]_vars =>
        [\A d \in Dialers, n \in Selector :
           (/\ Chooses(d, n) /\ job[d].pc = "select"
            /\ strategy = "round-robin"
            /\ Cardinality(Healthy(d)) > 1
            /\ Healthy(d) = last.of) => n # last.at]_vars
  BY <1>1
<1> QED BY <1>2, Invariance, StaysRotated, PTL DEF Spec, RotationAdvances

\* A set of numbers that is not empty has a least one.
LEMMA HasLeast ==
  ASSUME NEW T, T \subseteq Nat, T # {}
  PROVE  \E x \in T : \A y \in T : x <= y
  <1>1. \E x \in T : \A y \in T : ~ (<<y, x>> \in OpToRel(<, Nat))
    BY WFMin, NatLessThanWellFounded
  <1>2. ASSUME NEW x \in T, NEW y \in T, y < x
        PROVE  <<y, x>> \in OpToRel(<, Nat)
    <2>1. <<y, x>> \in Nat \X Nat
      BY <1>2
    <2>2. <<y, x>>[1] < <<y, x>>[2]
      BY <1>2
    <2>3. <<y, x>> \in {ss \in Nat \X Nat : ss[1] < ss[2]}
      BY <2>1, <2>2, Zenon
    <2> QED
      BY <2>3 DEF OpToRel
  <1>3. PICK x \in T : \A y \in T : ~ (<<y, x>> \in OpToRel(<, Nat))
    BY <1>1
  <1>4. \A y \in T : ~ (y < x)
    BY <1>2, <1>3
  <1> QED
    BY <1>4

-----------------------------------------------------------------------------
(* Batch tests.                                                            *)
(*                                                                         *)
(* PermitsExact is inductive but for the start of a batch, which must not  *)
(* have workers yet. ResponseComplete is not: that the results of a batch  *)
(* are complete rests on where each of its jobs is (Placed), on none being *)
(* lost while the context lives (NoneLost), on the names being different,  *)
(* so that no other test of the batch overwrites a node's mark (Kept), and *)
(* on the counters agreeing with the items (Tallied).                      *)

\* A set of numbers that holds the first n + 1 of them when it holds the first n holds
\* all of them up to its bound.
LEMMA Climbs ==
  ASSUME NEW m \in Nat, NEW T, 0 \in T,
         \A n \in 0 .. m : n \in T /\ n < m => n + 1 \in T
  PROVE  \A n \in 0 .. m : n \in T
  <1> SUFFICES ASSUME {n \in 0 .. m : n \notin T} # {}
               PROVE  FALSE
    OBVIOUS
  <1>1. {n \in 0 .. m : n \notin T} \subseteq Nat
    OBVIOUS
  <1>2. PICK x \in {n \in 0 .. m : n \notin T} : \A y \in {n \in 0 .. m : n \notin T} : x <= y
    BY <1>1, HasLeast
  <1>3. x \in Nat /\ x # 0 /\ x <= m /\ x \notin T
    BY <1>2
  <1>4. x - 1 \in 0 .. m /\ x - 1 \in T /\ x - 1 < m
    BY <1>2, <1>3
  <1>5. (x - 1) + 1 \in T
    BY <1>4
  <1> QED
    BY <1>3, <1>5

-----------------------------------------------------------------------------
\* One more name of the request.
Taken(raw, before, i) ==
    IF raw[i] = Blank \/ raw[i] \in ToSet(before) THEN before ELSE Append(before, raw[i])

Alike(s) == \A i, j \in 1 .. Len(s) : s[i] = s[j] => i = j

LEMMA TakenSound ==
  ASSUME NEW raw \in Seq(TestNodes \cup {Blank}), NEW i \in 1 .. Len(raw),
         NEW s \in Seq(TestNodes), Alike(s)
  PROVE  Taken(raw, s, i) \in Seq(TestNodes) /\ Alike(Taken(raw, s, i))
  <1>1. CASE raw[i] = Blank \/ raw[i] \in ToSet(s)
    BY <1>1 DEF Taken
  <1>2. CASE raw[i] # Blank /\ raw[i] \notin ToSet(s)
    <2>1. raw[i] \in TestNodes
      BY <1>2
    <2>2. \A k \in 1 .. Len(s) : s[k] # raw[i]
      BY <1>2 DEF ToSet
    <2>3. Taken(raw, s, i) = Append(s, raw[i])
      BY <1>2 DEF Taken
    <2>4. Append(s, raw[i]) \in Seq(TestNodes)
      BY <2>1
    <2>5. Len(Append(s, raw[i])) = Len(s) + 1
      BY <2>1
    <2>6. \A k \in 1 .. Len(s) + 1 : Append(s, raw[i])[k] = IF k <= Len(s) THEN s[k] ELSE raw[i]
      BY <2>1
    <2> QED
      BY <2>2, <2>3, <2>4, <2>5, <2>6 DEF Alike
  <1> QED
    BY <1>1, <1>2

\* The names that are used: proxy outbounds, none of them twice.
LEMMA NamesSound ==
  ASSUME NEW raw \in Seq(TestNodes \cup {Blank})
  PROVE  Names(raw) \in Seq(TestNodes) /\ Alike(Names(raw))
  <1> DEFINE Top == Len(raw)
  <1>0. Top \in Nat
    OBVIOUS
  <1> DEFINE From(g, n) == g = [i \in 0 .. n |-> IF i = 0 THEN <<>> ELSE Taken(raw, g[i - 1], i)]
  <1> DEFINE Begun == {n \in 0 .. Top : \E g : From(g, n)}
  <1>1. 0 \in Begun
    <2>1. From([i \in 0 .. 0 |-> <<>>], 0)
      OBVIOUS
    <2>2. 0 \in 0 .. Top
      BY <1>0
    <2> HIDE DEF From, Top
    <2> QED
      BY <2>1, <2>2
  <1>2. ASSUME NEW n \in 0 .. Top, n \in Begun, n < Top
        PROVE  n + 1 \in Begun
    <2>1. PICK g : g = [i \in 0 .. n |-> IF i = 0 THEN <<>> ELSE Taken(raw, g[i - 1], i)]
      BY <1>2
    <2> DEFINE h == [i \in 0 .. n + 1 |-> IF i <= n THEN g[i] ELSE Taken(raw, g[n], n + 1)]
    <2>2. ASSUME NEW i \in 0 .. n + 1
          PROVE  h[i] = IF i = 0 THEN <<>> ELSE Taken(raw, h[i - 1], i)
      <3>1. CASE i = 0
        BY <3>1, <2>1
      <3>2. CASE i \in 1 .. n
        <4>1. h[i] = g[i] /\ h[i - 1] = g[i - 1]
          BY <3>2
        <4>2. g[i] = Taken(raw, g[i - 1], i)
          BY <2>1, <3>2
        <4> QED
          BY <3>2, <4>1, <4>2
      <3>3. CASE i = n + 1
        <4>1. h[i] = Taken(raw, g[n], n + 1) /\ h[i - 1] = g[n]
          BY <3>3
        <4> QED
          BY <3>3, <4>1
      <3> QED
        BY <3>1, <3>2, <3>3
    <2>3. h = [i \in 0 .. n + 1 |-> IF i = 0 THEN <<>> ELSE Taken(raw, h[i - 1], i)]
      <3> HIDE DEF h
      <3>1. h = [i \in 0 .. n + 1 |-> h[i]]
        BY DEF h
      <3> QED
        BY <2>2, <3>1
    <2>4. From(h, n + 1)
      BY <2>3
    <2>5. n + 1 \in 0 .. Top
      BY <1>0, <1>2
    <2> HIDE DEF From, Top, h
    <2> QED
      BY <2>4, <2>5
  <1>3. Top \in Begun
    <2> HIDE DEF Begun, Top
    <2>1. \A n \in 0 .. Top : n \in Begun
      BY <1>0, <1>1, <1>2, Climbs, SMTT(30)
    <2> QED
      BY <1>0, <2>1
  <1> DEFINE f == NamesUpTo(raw)
  <1>4. f = [i \in 0 .. Top |-> IF i = 0 THEN <<>> ELSE Taken(raw, f[i - 1], i)]
    BY <1>3 DEF NamesUpTo, Taken
  <1> DEFINE Fit == {n \in 0 .. Top : f[n] \in Seq(TestNodes) /\ Alike(f[n])}
  <1> HIDE DEF f
  <1>5. 0 \in Fit
    <2>1. f[0] = <<>>
      BY <1>0, <1>4
    <2>2. <<>> \in Seq(TestNodes) /\ Alike(<<>>)
      BY DEF Alike
    <2>3. f[0] \in Seq(TestNodes) /\ Alike(f[0])
      BY <2>1, <2>2, Zenon
    <2>4. 0 \in 0 .. Top
      BY <1>0
    <2> HIDE DEF Top
    <2> QED
      BY <2>3, <2>4, Zenon
  <1>6. ASSUME NEW n \in 0 .. Top, n \in Fit, n < Top
        PROVE  n + 1 \in Fit
    <2>1. f[n + 1] = Taken(raw, f[n], n + 1)
      BY <1>0, <1>4, <1>6
    <2>2. n + 1 \in 1 .. Len(raw)
      BY <1>6
    <2> QED
      BY <1>6, <2>1, <2>2, TakenSound
  <1>7. Top \in Fit
    <2> HIDE DEF Fit, Top
    <2>1. \A n \in 0 .. Top : n \in Fit
      BY <1>0, <1>5, <1>6, Climbs
    <2> QED
      BY <1>0, <2>1
  <1> QED
    BY <1>7 DEF Names, f

-----------------------------------------------------------------------------
(* The invariant of the batches.                                           *)

Marks == {"none", "ok", "bad"}
Verdict(ok) == IF ok THEN "ok" ELSE "bad"
Results == [idx : Nat, ok : BOOLEAN]

BatchRecs ==
    [pc : {"idle", "refused", "broken", "run", "error", "done"}, names : Seq(TestNodes), next : Nat,
     closed : BOOLEAN, results : Seq(Results), items : Seq(Marks), current : Nat, good : Nat,
     cancelled : BOOLEAN, left : BOOLEAN]

Busy == Testing \cup {"global", "type", "send"}
WorkerRecs == [pc : Busy \cup {"none", "wait", "gone"}, idx : Nat, ok : BOOLEAN]
Crews == [Slots -> WorkerRecs]

BatchTypeOK ==
    /\ order \in [reqs : [Batches -> BatchRequests], sent : SUBSET Batches, known : SUBSET TestNodes,
                  sticky : SUBSET TestNodes, leaves : Nat]
    /\ batch \in [Batches -> BatchRecs]
    /\ worker \in [Batches -> Crews]
    /\ global \in Int /\ typed \in [TestTypes -> Int] /\ opened \in [Batches -> Int]
    /\ mark \in [TestTypes -> [TestNodes -> Marks]]

\* Of a batch q and its workers v: before it runs nothing is under way.
Unbegun(q, v) ==
    /\ q.pc = "idle" => q.names = <<>>
    /\ q.pc = "run" => q.names # <<>>
    /\ q.names # <<>> => \E w \in Slots : v[w].pc # "none"
    /\ q.names = <<>> =>
          /\ \A w \in Slots : v[w].pc = "none"
          /\ q.next = 0 /\ q.results = <<>> /\ q.items = <<>> /\ q.current = 0 /\ q.good = 0 /\ ~q.closed

\* Every job is in one place: with a worker, in the results, or among the items.
Placed(q, v) ==
    /\ Alike(q.names) /\ q.next <= Len(q.names) /\ Len(q.items) = Len(q.names)
    /\ \A i \in 1 .. Len(q.items) : i > q.next => q.items[i] = "none"
    /\ \A w \in Slots : v[w].pc \in Busy =>
          /\ v[w].idx \in 1 .. q.next /\ q.items[v[w].idx] = "none"
          /\ \A u \in Slots : v[u].pc \in Busy /\ v[u].idx = v[w].idx => u = w
          /\ \A k \in 1 .. Len(q.results) : q.results[k].idx # v[w].idx
    /\ \A k \in 1 .. Len(q.results) :
          /\ q.results[k].idx \in 1 .. q.next /\ q.items[q.results[k].idx] = "none"
          /\ \A l \in 1 .. Len(q.results) : q.results[l].idx = q.results[k].idx => l = k

\* No job is lost unless the batch was cancelled, and its workers do not leave before
\* there is nothing more to do.
Nowhere(q, v, i) ==
    /\ q.items[i] = "none"
    /\ \A w \in Slots : ~(v[w].pc \in Busy /\ v[w].idx = i)
    /\ \A k \in 1 .. Len(q.results) : q.results[k].idx # i

NoneLost(q, v) ==
    ~q.cancelled =>
        /\ \A i \in 1 .. q.next : ~Nowhere(q, v, i)
        /\ (\E w \in Slots : v[w].pc = "gone") => q.closed
        /\ q.closed => q.next = Len(q.names)

Tallied(q) ==
    /\ q.current = Cardinality({i \in 1 .. Len(q.items) : q.items[i] # "none"})
    /\ q.good = Cardinality({i \in 1 .. Len(q.items) : q.items[i] = "ok"})

Settled(q, v) ==
    q.pc = "done" =>
        /\ q.current = Len(q.names) /\ q.results = <<>>
        /\ \A w \in Slots : v[w].pc \in {"none", "gone"}

Run(q, v) == Unbegun(q, v) /\ Placed(q, v) /\ NoneLost(q, v) /\ Tallied(q) /\ Settled(q, v)

\* What the marks of a type may stand for: 0 is the latency of a failure and of a success
\* within a millisecond.
Meant(y, m) ==
    [n \in TestNodes |-> {m[n]} \cup (IF m[n] = "bad" /\ y # "udp" THEN {"ok"} ELSE {})]

\* What is said of a node that is configured is what the configuration keeps (m).
Says(n, known, m, x) == n \in known => x \in m[n]

Kept(q, v, known, m) ==
    /\ \A i \in 1 .. Len(q.items) : q.items[i] # "none" => Says(q.names[i], known, m, q.items[i])
    /\ \A k \in 1 .. Len(q.results) :
          Says(q.names[q.results[k].idx], known, m, Verdict(q.results[k].ok))
    /\ \A w \in Slots : v[w].pc = "send" => Says(q.names[v[w].idx], known, m, Verdict(v[w].ok))

Alone(b) == \A c \in Batches \ {b} : Type(c) # Type(b)

BatchesRun ==
    \A b \in Batches :
        /\ Run(batch[b], worker[b])
        /\ batch[b].names # <<>> => Type(b) \in TestTypes
        /\ batch[b].names # <<>> /\ Alone(b) => Kept(batch[b], worker[b], order.known, Meant(Type(b), mark[Type(b)]))

BatchIInv == BatchTypeOK /\ PermitsExact /\ BatchesRun

-----------------------------------------------------------------------------
(* The permits.                                                            *)

Bit(p) == IF p THEN 1 ELSE 0

GlobalHeld == {u \in Workers : At(u, Testing \cup {"type"})}
TypeHeld(y) == {u \in Workers : At(u, Testing) /\ Type(u[1]) = y}
FreshHeld(b) == {w \in Slots : worker[b][w].pc = "freshPing"}

LEMMA OneMoves ==
  ASSUME NEW S, NEW T, NEW u, IsFiniteSet(S), T \ {u} = S \ {u}
  PROVE  /\ IsFiniteSet(T)
         /\ Cardinality(T) = Cardinality(S) + Bit(u \in T) - Bit(u \in S)
  <1>1. IsFiniteSet(S \ {u}) /\ Cardinality(S \ {u}) = IF u \in S THEN Cardinality(S) - 1 ELSE Cardinality(S)
    BY FS_RemoveElement
  <1>2. Cardinality(S) \in Nat /\ Cardinality(S \ {u}) \in Nat
    BY <1>1, FS_CardinalityType
  <1>3. CASE u \in T
    <2>1. T = (S \ {u}) \cup {u}
      BY <1>3
    <2>2. IsFiniteSet(T) /\ Cardinality(T) = Cardinality(S \ {u}) + 1
      BY <1>1, <2>1, FS_AddElement
    <2> QED
      BY <1>1, <1>2, <1>3, <2>2 DEF Bit
  <1>4. CASE u \notin T
    <2>1. T = S \ {u}
      BY <1>4
    <2> QED
      BY <1>1, <1>2, <1>4, <2>1 DEF Bit
  <1> QED
    BY <1>3, <1>4

LEMMA CrewsFinite == IsFiniteSet(Slots) /\ IsFiniteSet(Workers)
  <1>1. TypeBudget["tcp"] \in Nat /\ TypeBudget["http"] \in Nat /\ TypeBudget["udp"] \in Nat
    BY BatchConstants DEF TestTypes
  <1>2. Slots = (1 .. TypeBudget["tcp"] \cup 1 .. TypeBudget["http"]) \cup 1 .. TypeBudget["udp"]
    BY DEF Slots, TestTypes
  <1>3. IsFiniteSet(Slots)
    <2>1. \A n \in Nat : IsFiniteSet(1 .. n)
      BY FS_Interval
    <2>2. IsFiniteSet(1 .. TypeBudget["tcp"] \cup 1 .. TypeBudget["http"])
      BY <1>1, <2>1, FS_Union
    <2> QED
      BY <1>1, <1>2, <2>1, <2>2, FS_Union
  <1> QED
    BY <1>3, BatchConstants, FS_Product DEF Workers

LEMMA HeldFinite ==
  /\ IsFiniteSet(GlobalHeld)
  /\ \A y : IsFiniteSet(TypeHeld(y))
  /\ \A b : IsFiniteSet(FreshHeld(b))
  BY CrewsFinite, FS_Subset DEF GlobalHeld, TypeHeld, FreshHeld

LEMMA PermitsByHolders ==
  PermitsExact <=>
    /\ global = Cardinality(GlobalHeld) /\ global <= GlobalBudget
    /\ \A y \in TestTypes : typed[y] = Cardinality(TypeHeld(y)) /\ typed[y] <= TypeBudget[y]
    /\ \A b \in Batches : opened[b] = Cardinality(FreshHeld(b))
  BY DEF PermitsExact, GlobalHeld, TypeHeld, FreshHeld

LEMMA HeldMoves ==
  ASSUME BatchTypeOK, NEW b \in Batches, NEW w \in Slots, NEW new \in WorkerRecs,
         WorkerTo(b, w, new), order'.reqs = order.reqs
  PROVE  /\ Cardinality(GlobalHeld') = Cardinality(GlobalHeld)
               + Bit(new.pc \in Testing \cup {"type"}) - Bit(worker[b][w].pc \in Testing \cup {"type"})
         /\ \A y : Cardinality(TypeHeld(y)') = Cardinality(TypeHeld(y))
               + Bit(new.pc \in Testing /\ Type(b) = y) - Bit(worker[b][w].pc \in Testing /\ Type(b) = y)
         /\ \A c \in Batches : Cardinality(FreshHeld(c)') = Cardinality(FreshHeld(c))
               + Bit(c = b /\ new.pc = "freshPing") - Bit(c = b /\ worker[b][w].pc = "freshPing")
  <1> DEFINE u == <<b, w>>
  <1>1. u \in Workers /\ u[1] = b /\ u[2] = w
    BY DEF Workers
  <1>2. \A c \in Batches, x \in Slots :
           worker'[c][x] = IF c = b /\ x = w THEN new ELSE worker[c][x]
    BY DEF WorkerTo, BatchTypeOK, Crews
  <1>3. \A v \in Workers : v[1] \in Batches /\ v[2] \in Slots /\ (v # u => v[1] # b \/ v[2] # w)
    BY DEF Workers
  <1>4. \A c : Type(c)' = Type(c)
    BY DEF Type, Req
  <1> HIDE DEF u
  <1>5. Cardinality(GlobalHeld') = Cardinality(GlobalHeld)
           + Bit(new.pc \in Testing \cup {"type"}) - Bit(worker[b][w].pc \in Testing \cup {"type"})
    <2>1. GlobalHeld' \ {u} = GlobalHeld \ {u}
      BY <1>2, <1>3 DEF GlobalHeld, At
    <2>2. u \in GlobalHeld <=> worker[b][w].pc \in Testing \cup {"type"}
      BY <1>1 DEF GlobalHeld, At
    <2>3. u \in GlobalHeld' <=> new.pc \in Testing \cup {"type"}
      BY <1>1, <1>2 DEF GlobalHeld, At
    <2>4. Cardinality(GlobalHeld') = Cardinality(GlobalHeld) + Bit(u \in GlobalHeld') - Bit(u \in GlobalHeld)
      BY <2>1, HeldFinite, OneMoves
    <2> QED
      BY <2>2, <2>3, <2>4
  <1>6. ASSUME NEW y
        PROVE  Cardinality(TypeHeld(y)') = Cardinality(TypeHeld(y))
                 + Bit(new.pc \in Testing /\ Type(b) = y) - Bit(worker[b][w].pc \in Testing /\ Type(b) = y)
    <2>1. TypeHeld(y)' \ {u} = TypeHeld(y) \ {u}
      BY <1>2, <1>3, <1>4 DEF TypeHeld, At
    <2>2. u \in TypeHeld(y) <=> worker[b][w].pc \in Testing /\ Type(b) = y
      BY <1>1 DEF TypeHeld, At
    <2>3. u \in TypeHeld(y)' <=> new.pc \in Testing /\ Type(b) = y
      BY <1>1, <1>2, <1>4 DEF TypeHeld, At
    <2>4. Cardinality(TypeHeld(y)') = Cardinality(TypeHeld(y)) + Bit(u \in TypeHeld(y)') - Bit(u \in TypeHeld(y))
      BY <2>1, HeldFinite, OneMoves
    <2> QED
      BY <2>2, <2>3, <2>4
  <1>7. ASSUME NEW c \in Batches
        PROVE  Cardinality(FreshHeld(c)') = Cardinality(FreshHeld(c))
                 + Bit(c = b /\ new.pc = "freshPing") - Bit(c = b /\ worker[b][w].pc = "freshPing")
    <2>0. IsFiniteSet(FreshHeld(c)) /\ Cardinality(FreshHeld(c)) \in Nat
      BY HeldFinite, FS_CardinalityType
    <2>1. CASE c # b
      <3>1. FreshHeld(c)' = FreshHeld(c)
        BY <1>2, <2>1 DEF FreshHeld
      <3> QED
        BY <2>0, <2>1, <3>1 DEF Bit
    <2>2. CASE c = b
      <3>1. FreshHeld(b)' \ {w} = FreshHeld(b) \ {w}
        BY <1>2 DEF FreshHeld
      <3>2. w \in FreshHeld(b) <=> worker[b][w].pc = "freshPing"
        BY DEF FreshHeld
      <3>3. w \in FreshHeld(b)' <=> new.pc = "freshPing"
        BY <1>2 DEF FreshHeld
      <3>4. Cardinality(FreshHeld(b)') = Cardinality(FreshHeld(b)) + Bit(w \in FreshHeld(b)') - Bit(w \in FreshHeld(b))
        BY <2>0, <2>2, <3>1, OneMoves
      <3> QED
        BY <2>2, <3>2, <3>3, <3>4
    <2> QED
      BY <2>1, <2>2
  <1> QED
    BY <1>5, <1>6, <1>7

\* Permits follow a worker when tokens and outbounds do.
LEMMA PermitsFollow ==
  ASSUME BatchTypeOK, PermitsExact, NEW b \in Batches, NEW w \in Slots, NEW new \in WorkerRecs,
         WorkerTo(b, w, new), order'.reqs = order.reqs,
         global' = global + Bit(new.pc \in Testing \cup {"type"})
                          - Bit(worker[b][w].pc \in Testing \cup {"type"}),
         global' <= GlobalBudget,
         \A y \in TestTypes :
            /\ typed'[y] = typed[y] + Bit(new.pc \in Testing /\ Type(b) = y)
                                    - Bit(worker[b][w].pc \in Testing /\ Type(b) = y)
            /\ typed'[y] <= TypeBudget[y],
         \A c \in Batches : opened'[c] = opened[c] + Bit(c = b /\ new.pc = "freshPing")
                                                   - Bit(c = b /\ worker[b][w].pc = "freshPing")
  PROVE  PermitsExact'
  <1>1. /\ global' = Cardinality(GlobalHeld')
        /\ \A y \in TestTypes : typed'[y] = Cardinality(TypeHeld(y)')
        /\ \A c \in Batches : opened'[c] = Cardinality(FreshHeld(c)')
    BY HeldMoves, PermitsByHolders
  <1> QED
    BY <1>1 DEF PermitsExact, GlobalHeld, TypeHeld, FreshHeld

-----------------------------------------------------------------------------
(* One batch.  q, v: the batch and its workers before a step, r, x: after. *)

LEMMA RunBegins ==
  ASSUME NEW q \in BatchRecs, NEW v \in Crews, NEW r \in BatchRecs, NEW x \in Crews,
         Run(q, v), q.pc = "idle", r.pc = "run", r.names # <<>>, Alike(r.names),
         r.items = [i \in 1 .. Len(r.names) |-> "none"],
         r.next = q.next, r.closed = q.closed, r.results = q.results, r.current = q.current, r.good = q.good,
         \A w \in Slots : x[w].pc \in {"wait", "none"}, \E w \in Slots : x[w].pc = "wait"
  PROVE  Run(r, x)
  <1>1. q.next = 0 /\ q.results = <<>> /\ q.current = 0 /\ q.good = 0 /\ ~q.closed
    BY DEF Run, Unbegun
  <1>2. \A w \in Slots : x[w].pc \notin Busy /\ x[w].pc # "gone"
    BY DEF Busy, Testing
  <1>3. Len(r.items) = Len(r.names) /\ \A i \in 1 .. Len(r.items) : r.items[i] = "none"
    BY DEF BatchRecs
  <1>4. Tallied(r)
    <2>1. {i \in 1 .. Len(r.items) : r.items[i] # "none"} = {} /\ {i \in 1 .. Len(r.items) : r.items[i] = "ok"} = {}
      BY <1>3
    <2> QED
      BY <1>1, <2>1, FS_EmptySet DEF Tallied
  <1>5. Unbegun(r, x) /\ Settled(r, x)
    BY DEF Unbegun, Settled
  <1>6. Placed(r, x)
    BY <1>1, <1>2, <1>3 DEF Placed, BatchRecs
  <1>7. NoneLost(r, x)
    BY <1>1, <1>2 DEF NoneLost
  <1> QED
    BY <1>4, <1>5, <1>6, <1>7 DEF Run

\* Only the place, the client or the context of a batch changes.
LEMMA RunTurns ==
  ASSUME NEW q \in BatchRecs, NEW v \in Crews, NEW r \in BatchRecs, Run(q, v),
         r.names = q.names, r.items = q.items, r.next = q.next, r.closed = q.closed, r.results = q.results,
         r.current = q.current, r.good = q.good, q.cancelled => r.cancelled,
         r.pc \in {"idle", "run"} => q.pc = r.pc, r.pc # "done"
  PROVE  Run(r, v)
  <1>1. Unbegun(r, v) /\ Settled(r, v) /\ Tallied(r)
    BY DEF Run, Unbegun, Settled, Tallied
  <1>2. Placed(r, v)
    BY DEF Run, Placed
  <1>3. NoneLost(r, v)
    BY DEF Run, NoneLost, Nowhere, BatchRecs
  <1> QED
    BY <1>1, <1>2, <1>3 DEF Run

LEMMA RunCloses ==
  ASSUME NEW q \in BatchRecs, NEW v \in Crews, NEW r \in BatchRecs, Run(q, v),
         q.names # <<>>, q.next = Len(q.names) \/ q.cancelled,
         r.names = q.names, r.items = q.items, r.next = q.next, r.closed = TRUE, r.results = q.results,
         r.current = q.current, r.good = q.good, r.cancelled = q.cancelled, r.pc = q.pc
  PROVE  Run(r, v)
  <1>1. Unbegun(r, v) /\ Settled(r, v) /\ Tallied(r)
    BY DEF Run, Unbegun, Settled, Tallied
  <1>2. Placed(r, v)
    BY DEF Run, Placed
  <1>3. NoneLost(r, v)
    BY DEF Run, NoneLost, Nowhere, BatchRecs
  <1> QED
    BY <1>1, <1>2, <1>3 DEF Run

\* A batch that has a worker at work has begun and has not been answered.
LEMMA AtWork ==
  ASSUME NEW q \in BatchRecs, NEW v \in Crews, Run(q, v), NEW w \in Slots, v[w].pc \notin {"none", "gone"}
  PROVE  q.names # <<>> /\ q.pc # "done" /\ q.pc # "idle"
  BY DEF Run, Unbegun, Settled

LEMMA RunTakes ==
  ASSUME NEW q \in BatchRecs, NEW v \in Crews, NEW r \in BatchRecs, NEW x \in Crews, Run(q, v),
         NEW w \in Slots, v[w].pc = "wait", q.next < Len(q.names), ~q.closed,
         r.names = q.names, r.items = q.items, r.next = q.next + 1, r.closed = q.closed, r.results = q.results,
         r.current = q.current, r.good = q.good, r.cancelled = q.cancelled, r.pc = q.pc,
         x[w].pc \in Busy, x[w].idx = q.next + 1, \A u \in Slots \ {w} : x[u] = v[u]
  PROVE  Run(r, x)
  <1>0. v[w].pc \notin Busy /\ x[w].pc # "none"
    BY DEF Busy, Testing
  <1>1. Unbegun(r, x) /\ Settled(r, x) /\ Tallied(r)
    BY <1>0, AtWork DEF Run, Unbegun, Settled, Tallied
  <1>a. q.next \in Nat /\ Len(q.items) \in Nat /\ q.next + 1 \in 1 .. Len(q.items) /\ q.items[q.next + 1] = "none"
    BY DEF Run, Placed, BatchRecs
  <1>b. \A u \in Slots \ {w} : v[u].pc \in Busy => v[u].idx \in 1 .. q.next
    BY DEF Run, Placed
  <1>c. \A k \in 1 .. Len(q.results) : q.results[k].idx \in 1 .. q.next
    BY DEF Run, Placed
  <1>2. Placed(r, x)
    <2>1. ASSUME NEW u \in Slots, x[u].pc \in Busy
          PROVE  /\ x[u].idx \in 1 .. r.next /\ r.items[x[u].idx] = "none"
                 /\ \A t \in Slots : x[t].pc \in Busy /\ x[t].idx = x[u].idx => t = u
                 /\ \A k \in 1 .. Len(r.results) : r.results[k].idx # x[u].idx
      <3>1. CASE u = w
        BY <1>a, <1>b, <1>c, <3>1
      <3>2. CASE u # w
        BY <1>a, <1>b, <2>1, <3>2 DEF Run, Placed
      <3> QED
        BY <3>1, <3>2
    <2>2. \A k \in 1 .. Len(r.results) : r.results[k].idx \in 1 .. r.next
      BY <1>a, <1>c
    <2>3. \A i \in 1 .. Len(r.items) : i > r.next => r.items[i] = "none"
      BY <1>a DEF Run, Placed
    <2>4. r.next <= Len(r.names)
      BY <1>a DEF Run, Placed
    <2> QED
      BY <2>1, <2>2, <2>3, <2>4 DEF Run, Placed
  <1>3. NoneLost(r, x)
    <2>1. \A i \in 1 .. r.next : Nowhere(r, x, i) => i \in 1 .. q.next /\ Nowhere(q, v, i)
      <3> SUFFICES ASSUME NEW i \in 1 .. r.next, Nowhere(r, x, i)
                   PROVE  i \in 1 .. q.next /\ Nowhere(q, v, i)
        OBVIOUS
      <3>1. i # q.next + 1
        BY DEF Nowhere
      <3> QED
        BY <1>0, <1>a, <3>1 DEF Nowhere
    <2>2. x[w].pc # "gone"
      BY DEF Busy, Testing
    <2> QED
      BY <2>1, <2>2 DEF Run, NoneLost
  <1> QED
    BY <1>1, <1>2, <1>3 DEF Run

\* A worker goes on with its job.
LEMMA RunGoesOn ==
  ASSUME NEW q \in BatchRecs, NEW v \in Crews, NEW x \in Crews, Run(q, v),
         NEW w \in Slots, v[w].pc \in Busy, x[w].pc \in Busy, x[w].idx = v[w].idx,
         \A u \in Slots \ {w} : x[u] = v[u]
  PROVE  Run(q, x)
  <1>0. v[w].pc \notin {"none", "gone"} /\ x[w].pc \notin {"none", "gone"}
    BY DEF Busy, Testing
  <1>1. Unbegun(q, x) /\ Settled(q, x) /\ Tallied(q)
    BY <1>0, AtWork DEF Run, Unbegun, Settled, Tallied
  <1>2. Placed(q, x)
    BY DEF Run, Placed
  <1>3. NoneLost(q, x)
    BY <1>0 DEF Run, NoneLost, Nowhere
  <1> QED
    BY <1>1, <1>2, <1>3 DEF Run

LEMMA RunLeft ==
  ASSUME NEW q \in BatchRecs, NEW v \in Crews, NEW x \in Crews, Run(q, v),
         NEW w \in Slots, x[w].pc = "gone", \A u \in Slots \ {w} : x[u] = v[u],
         v[w].pc \notin {"none", "gone"},
         q.cancelled \/ (q.closed /\ v[w].pc = "wait")
  PROVE  Run(q, x)
  <1>0. x[w].pc \notin Busy /\ "wait" \notin Busy
    BY DEF Busy, Testing
  <1>1. Unbegun(q, x) /\ Settled(q, x) /\ Tallied(q)
    BY AtWork DEF Run, Unbegun, Settled, Tallied
  <1>2. Placed(q, x)
    BY <1>0 DEF Run, Placed
  <1>3. NoneLost(q, x)
    BY <1>0 DEF Run, NoneLost, Nowhere
  <1> QED
    BY <1>1, <1>2, <1>3 DEF Run

LEMMA RunSends ==
  ASSUME NEW q \in BatchRecs, NEW v \in Crews, NEW r \in BatchRecs, NEW x \in Crews, Run(q, v),
         NEW w \in Slots, v[w].pc \in Busy, NEW res \in Results, res.idx = v[w].idx,
         r.names = q.names, r.items = q.items, r.next = q.next, r.closed = q.closed,
         r.results = Append(q.results, res),
         r.current = q.current, r.good = q.good, r.cancelled = q.cancelled, r.pc = q.pc,
         x[w].pc = "wait", \A u \in Slots \ {w} : x[u] = v[u]
  PROVE  Run(r, x)
  <1>0. x[w].pc \notin Busy /\ v[w].pc \notin {"none", "gone"}
    BY DEF Busy, Testing
  <1>a. q.results \in Seq(Results)
    BY DEF BatchRecs
  <1>b. Len(r.results) = Len(q.results) + 1
    BY <1>a
  <1>c. \A k \in 1 .. Len(r.results) : r.results[k] = IF k <= Len(q.results) THEN q.results[k] ELSE res
    BY <1>a, <1>b
  <1>d. Len(q.results) \in Nat
    BY <1>a
  <1>1. Unbegun(r, x) /\ Settled(r, x) /\ Tallied(r)
    BY <1>0, AtWork DEF Run, Unbegun, Settled, Tallied
  <1>2. Placed(r, x)
    <2>1. ASSUME NEW u \in Slots, x[u].pc \in Busy
          PROVE  /\ x[u].idx \in 1 .. r.next /\ r.items[x[u].idx] = "none"
                 /\ \A t \in Slots : x[t].pc \in Busy /\ x[t].idx = x[u].idx => t = u
                 /\ \A k \in 1 .. Len(r.results) : r.results[k].idx # x[u].idx
      <3>1. u # w /\ x[u] = v[u] /\ v[u].idx # v[w].idx
        BY <1>0, <2>1 DEF Run, Placed
      <3> QED
        BY <1>0, <1>c, <2>1, <3>1, <1>b, <1>d DEF Run, Placed
    <2>2. ASSUME NEW k \in 1 .. Len(r.results)
          PROVE  /\ r.results[k].idx \in 1 .. r.next /\ r.items[r.results[k].idx] = "none"
                 /\ \A l \in 1 .. Len(r.results) : r.results[l].idx = r.results[k].idx => l = k
      <3>1. CASE k <= Len(q.results)
        <4>1. k \in 1 .. Len(q.results) /\ r.results[k] = q.results[k] /\ q.results[k].idx # v[w].idx
          BY <1>b, <1>c, <1>d, <3>1 DEF Run, Placed
        <4>2. \A l \in 1 .. Len(r.results) : r.results[l].idx = r.results[k].idx => l \in 1 .. Len(q.results)
          BY <1>b, <1>c, <1>d, <4>1
        <4> QED
          BY <1>c, <4>1, <4>2 DEF Run, Placed
      <3>2. CASE k = Len(q.results) + 1
        <4>1. r.results[k] = res
          BY <1>b, <1>c, <1>d, <3>2
        <4>2. \A l \in 1 .. Len(r.results) : r.results[l].idx = res.idx => l = k
          <5> SUFFICES ASSUME NEW l \in 1 .. Len(q.results), r.results[l].idx = res.idx
                       PROVE  FALSE
            BY <1>b, <1>d, <3>2
          <5> QED
            BY <1>b, <1>c, <1>d DEF Run, Placed
        <4> QED
          BY <4>1, <4>2 DEF Run, Placed
      <3> QED
        BY <1>b, <1>d, <3>1, <3>2
    <2> QED
      BY <2>1, <2>2 DEF Run, Placed
  <1>3. NoneLost(r, x)
    <2>1. \A i : Nowhere(r, x, i) => Nowhere(q, v, i)
      <3> SUFFICES ASSUME NEW i, Nowhere(r, x, i)
                   PROVE  Nowhere(q, v, i)
        OBVIOUS
      <3>1. \A k \in 1 .. Len(q.results) : q.results[k].idx # i
        BY <1>b, <1>c, <1>d DEF Nowhere
      <3>2. v[w].idx # i
        BY <1>b, <1>c, <1>d DEF Nowhere
      <3> QED
        BY <3>1, <3>2 DEF Nowhere
    <2> QED
      BY <2>1 DEF Run, NoneLost
  <1> QED
    BY <1>1, <1>2, <1>3 DEF Run

LEMMA RunCollects ==
  ASSUME NEW q \in BatchRecs, NEW v \in Crews, NEW r \in BatchRecs, Run(q, v),
         q.results # <<>>,
         r.names = q.names, r.next = q.next, r.closed = q.closed, r.results = Tail(q.results),
         r.items = [q.items EXCEPT ![q.results[1].idx] = Verdict(q.results[1].ok)],
         r.current = q.current + 1, r.good = q.good + Bit(q.results[1].ok),
         q.cancelled => r.cancelled, r.pc \in {"run", "broken"}
  PROVE  Run(r, v)
  <1>a. q.results \in Seq(Results) /\ q.items \in Seq(Marks)
    BY DEF BatchRecs
  <1>b. Len(q.results) \in Nat /\ Len(q.results) > 0 /\ Len(r.results) = Len(q.results) - 1
    BY <1>a
  <1>c. \A k \in 1 .. Len(r.results) : r.results[k] = q.results[k + 1] /\ k + 1 \in 1 .. Len(q.results)
    BY <1>a, <1>b
  <1> DEFINE j == q.results[1].idx  ok == q.results[1].ok
  <1>ok. ok \in BOOLEAN
    <2>1. q.results[1] \in Results
      BY <1>a, <1>b
    <2> QED
      BY <2>1 DEF Results
  <1>j. r.items = [q.items EXCEPT ![j] = Verdict(ok)] /\ r.good = q.good + Bit(ok) /\ j = q.results[1].idx
    OBVIOUS
  <1> HIDE DEF j, ok
  <1>d. j \in 1 .. q.next /\ q.items[j] = "none"
    BY <1>b, <1>j DEF Run, Placed
  <1>e. j \in 1 .. Len(q.items) /\ q.next \in Nat /\ q.next <= Len(q.items)
    BY <1>d DEF Run, Placed, BatchRecs
  <1>f. Len(r.items) = Len(q.items) /\ r.items[j] = Verdict(ok) /\ \A i \in 1 .. Len(q.items) : i # j => r.items[i] = q.items[i]
    BY <1>a, <1>e, <1>j
  <1>g. Verdict(ok) # "none" /\ (Verdict(ok) = "ok" <=> ok)
    BY <1>ok DEF Verdict
  <1>h. \A k \in 1 .. Len(r.results) : r.results[k].idx # j
    BY <1>b, <1>c, <1>j DEF Run, Placed
  <1>i. \A w \in Slots : v[w].pc \in Busy => v[w].idx # j
    BY <1>b, <1>j DEF Run, Placed
  <1>1. q.names # <<>>
    BY DEF Run, Unbegun
  <1>2. Unbegun(r, v) /\ Settled(r, v)
    BY <1>1 DEF Unbegun, Settled, Run
  <1>3. Tallied(r)
    <2> DEFINE S == {i \in 1 .. Len(q.items) : q.items[i] # "none"}
               G == {i \in 1 .. Len(q.items) : q.items[i] = "ok"}
    <2>0. IsFiniteSet(S) /\ IsFiniteSet(G)
      <3>1. IsFiniteSet(1 .. Len(q.items))
        BY <1>a, FS_Interval
      <3> QED
        BY <3>1, FS_Subset
    <2>1. {i \in 1 .. Len(r.items) : r.items[i] # "none"} = S \cup {j}
      BY <1>d, <1>e, <1>f, <1>g
    <2>2. {i \in 1 .. Len(r.items) : r.items[i] = "ok"} = IF ok THEN G \cup {j} ELSE G
      BY <1>ok, <1>d, <1>e, <1>f, <1>g
    <2>3. j \notin S /\ j \notin G
      BY <1>d
    <2>4. Cardinality(S \cup {j}) = Cardinality(S) + 1 /\ Cardinality(G \cup {j}) = Cardinality(G) + 1
      BY <2>0, <2>3, FS_AddElement
    <2>5. Cardinality(S) = q.current /\ Cardinality(G) = q.good
      BY DEF Run, Tallied
    <2>6. Cardinality(IF ok THEN G \cup {j} ELSE G) = q.good + Bit(ok)
      BY <1>ok, <2>4, <2>5 DEF Bit, BatchRecs
    <2> QED
      BY <1>j, <2>1, <2>2, <2>4, <2>5, <2>6 DEF Tallied
  <1>4. Placed(r, v)
    <2>1. Alike(r.names) /\ r.next <= Len(r.names) /\ Len(r.items) = Len(r.names)
      BY <1>f DEF Run, Placed
    <2>2. \A w \in Slots : v[w].pc \in Busy =>
          /\ v[w].idx \in 1 .. r.next /\ r.items[v[w].idx] = "none"
          /\ \A u \in Slots : v[u].pc \in Busy /\ v[u].idx = v[w].idx => u = w
          /\ \A k \in 1 .. Len(r.results) : r.results[k].idx # v[w].idx
      BY <1>c, <1>e, <1>f, <1>i DEF Run, Placed
    <2>3. ASSUME NEW k \in 1 .. Len(r.results)
          PROVE  /\ r.results[k].idx \in 1 .. r.next /\ r.items[r.results[k].idx] = "none"
                 /\ \A l \in 1 .. Len(r.results) : r.results[l].idx = r.results[k].idx => l = k
      <3>1. r.results[k] = q.results[k + 1] /\ k + 1 \in 1 .. Len(q.results) /\ q.results[k + 1].idx # j
        BY <1>c, <1>h
      <3>2. q.results[k + 1].idx \in 1 .. q.next /\ q.items[q.results[k + 1].idx] = "none"
        BY <3>1 DEF Run, Placed
      <3>3. \A l \in 1 .. Len(r.results) : r.results[l].idx = r.results[k].idx => l + 1 = k + 1
        BY <1>c, <3>1 DEF Run, Placed
      <3> QED
        BY <1>b, <1>e, <1>f, <3>1, <3>2, <3>3, SMTT(30)
    <2>4. \A i \in 1 .. Len(r.items) : i > r.next => r.items[i] = "none"
      BY <1>d, <1>e, <1>f DEF Run, Placed
    <2> QED
      BY <2>1, <2>2, <2>3, <2>4 DEF Placed
  <1>5. NoneLost(r, v)
    <2>1. \A i \in 1 .. r.next : Nowhere(r, v, i) => Nowhere(q, v, i)
      <3> SUFFICES ASSUME NEW i \in 1 .. r.next, Nowhere(r, v, i)
                   PROVE  Nowhere(q, v, i)
        OBVIOUS
      <3>1. i # j /\ i \in 1 .. Len(q.items)
        BY <1>e, <1>f, <1>g DEF Nowhere
      <3>2. q.items[i] = "none"
        BY <1>f, <3>1 DEF Nowhere
      <3>3. \A k \in 1 .. Len(q.results) : q.results[k].idx # i
        <4> SUFFICES ASSUME NEW k \in 1 .. Len(q.results), k # 1
                     PROVE  q.results[k].idx # i
          BY <1>j, <3>1
        <4>1. k - 1 \in 1 .. Len(r.results) /\ (k - 1) + 1 = k
          BY <1>b
        <4>2. r.results[k - 1] = q.results[k]
          BY <1>c, <4>1
        <4> QED
          BY <4>1, <4>2 DEF Nowhere
      <3> QED
        BY <3>2, <3>3 DEF Nowhere
    <2> QED
      BY <2>1 DEF Run, NoneLost, BatchRecs
  <1> QED
    BY <1>2, <1>3, <1>4, <1>5 DEF Run

\* All names are counted when all of their items are there.
LEMMA AllCount ==
  ASSUME NEW q \in BatchRecs, Len(q.items) = Len(q.names), Tallied(q)
  PROVE  /\ q.current <= Len(q.names)
         /\ q.current = Len(q.names) <=> \A i \in 1 .. Len(q.items) : q.items[i] # "none"
  <1> DEFINE S == {i \in 1 .. Len(q.items) : q.items[i] # "none"}
  <1>1. Len(q.items) \in Nat /\ Len(q.names) \in Nat
    BY DEF BatchRecs
  <1>2. IsFiniteSet(1 .. Len(q.items)) /\ Cardinality(1 .. Len(q.items)) = Len(q.items)
    BY <1>1, FS_Interval
  <1>3. /\ Cardinality(S) <= Cardinality(1 .. Len(q.items))
        /\ Cardinality(1 .. Len(q.items)) = Cardinality(S) => 1 .. Len(q.items) = S
    BY <1>2, FS_Subset
  <1>4. q.current = Cardinality(S)
    BY DEF Tallied
  <1>5. S = 1 .. Len(q.items) <=> \A i \in 1 .. Len(q.items) : q.items[i] # "none"
    OBVIOUS
  <1> HIDE DEF S
  <1> QED
    BY <1>1, <1>2, <1>3, <1>4, <1>5

LEMMA RunAnswers ==
  ASSUME NEW q \in BatchRecs, NEW v \in Crews, NEW r \in BatchRecs, Run(q, v),
         q.pc = "run", q.results = <<>>, \A w \in Slots : v[w].pc \in {"none", "gone"},
         ~(q.cancelled /\ q.current < Len(q.names)),
         r.names = q.names, r.items = q.items, r.next = q.next, r.closed = q.closed, r.results = q.results,
         r.current = q.current, r.good = q.good, r.cancelled, r.pc = "done"
  PROVE  Run(r, v)
  <1>0. Len(q.names) \in Nat /\ q.current \in Nat /\ Len(q.items) = Len(q.names) /\ Tallied(q)
    BY DEF BatchRecs, Run, Placed
  <1>1. q.current = Len(q.names)
    <2>1. CASE q.cancelled
      BY <1>0, <2>1, AllCount
    <2>2. CASE ~q.cancelled
      <3>1. q.next = Len(q.names)
        BY <2>2 DEF Run, Unbegun, NoneLost
      <3>2. \A w \in Slots : v[w].pc \notin Busy
        BY DEF Busy, Testing
      <3>3. \A i \in 1 .. Len(q.items) : q.items[i] # "none"
        BY <1>0, <2>2, <3>1, <3>2 DEF Run, NoneLost, Nowhere
      <3> QED
        BY <1>0, <3>3, AllCount
    <2> QED
      BY <2>1, <2>2
  <1>2. Unbegun(r, v) /\ Tallied(r) /\ Settled(r, v)
    BY <1>1 DEF Run, Unbegun, Tallied, Settled
  <1>3. Placed(r, v) /\ NoneLost(r, v)
    BY DEF Run, Placed, NoneLost
  <1> QED
    BY <1>2, <1>3 DEF Run

-----------------------------------------------------------------------------
(* What the configuration keeps.                                           *)

LEMMA KeptSame ==
  ASSUME NEW q \in BatchRecs, NEW v \in Crews, NEW r \in BatchRecs, NEW x \in Crews, NEW known, NEW m,
         Kept(q, v, known, m), r.names = q.names, r.items = q.items, r.results = q.results,
         \A w \in Slots : x[w].pc = "send" => v[w].pc = "send" /\ x[w] = v[w]
  PROVE  Kept(r, x, known, m)
  BY DEF Kept

\* The result of a test says nothing about the other names of its batch.
LEMMA KeptFinishes ==
  ASSUME NEW q \in BatchRecs, NEW v \in Crews, NEW x \in Crews, NEW known \in SUBSET TestNodes,
         NEW m, NEW n, Run(q, v), Kept(q, v, known, m), NEW w \in Slots, v[w].pc \in Busy, NEW ok \in BOOLEAN,
         x[w].idx = v[w].idx, x[w].ok = ok, \A u \in Slots \ {w} : x[u] = v[u],
         \A t \in TestNodes :
            IF t \in known /\ t = q.names[v[w].idx] THEN Verdict(ok) \in n[t] ELSE n[t] = m[t]
  PROVE  Kept(q, x, known, n)
  <1> DEFINE j == v[w].idx
  <1>1. j \in 1 .. q.next /\ q.items[j] = "none" /\ q.next \in Nat /\ q.next <= Len(q.names)
    BY DEF Run, Placed, BatchRecs
  <1>2. Len(q.items) = Len(q.names) /\ Len(q.names) \in Nat /\ j \in 1 .. Len(q.names) /\ Alike(q.names)
    BY <1>1 DEF Run, Placed, BatchRecs
  <1>3. \A i \in 1 .. Len(q.names) : q.names[i] \in TestNodes /\ (i # j => q.names[i] # q.names[j])
    BY <1>2 DEF Alike, BatchRecs
  <1>4. \A i \in 1 .. Len(q.names) : i # j => n[q.names[i]] = m[q.names[i]]
    BY <1>2, <1>3
  <1>5. q.names[j] \in known => Verdict(ok) \in n[q.names[j]]
    BY <1>2, <1>3
  <1> HIDE DEF j
  <1>6. \A i \in 1 .. Len(q.items) : q.items[i] # "none" => Says(q.names[i], known, n, q.items[i])
    BY <1>1, <1>2, <1>4 DEF Kept, Says
  <1>7. \A k \in 1 .. Len(q.results) : Says(q.names[q.results[k].idx], known, n, Verdict(q.results[k].ok))
    <2> SUFFICES ASSUME NEW k \in 1 .. Len(q.results)
                 PROVE  Says(q.names[q.results[k].idx], known, n, Verdict(q.results[k].ok))
      OBVIOUS
    <2>1. q.results[k].idx \in 1 .. q.next /\ q.results[k].idx # j
      BY DEF Run, Placed, j
    <2>2. q.results[k].idx \in 1 .. Len(q.names)
      BY <1>1, <1>2, <2>1
    <2> QED
      BY <2>1, <2>2, <1>4 DEF Kept, Says
  <1>8. \A u \in Slots : x[u].pc = "send" => Says(q.names[x[u].idx], known, n, Verdict(x[u].ok))
    <2> SUFFICES ASSUME NEW u \in Slots, x[u].pc = "send"
                 PROVE  Says(q.names[x[u].idx], known, n, Verdict(x[u].ok))
      OBVIOUS
    <2>1. CASE u = w
      BY <1>5, <2>1 DEF Says, j
    <2>2. CASE u # w
      <3>1. x[u] = v[u] /\ v[u].pc \in Busy
        BY <2>2 DEF Busy
      <3>2. v[u].idx \in 1 .. q.next /\ v[u].idx # j
        BY <3>1, <2>2 DEF Run, Placed, j
      <3>3. v[u].idx \in 1 .. Len(q.names)
        BY <1>1, <1>2, <3>2
      <3> QED
        BY <1>4, <3>1, <3>2, <3>3 DEF Kept, Says
    <2> QED
      BY <2>1, <2>2
  <1> QED
    BY <1>6, <1>7, <1>8 DEF Kept

LEMMA KeptSends ==
  ASSUME NEW q \in BatchRecs, NEW v \in Crews, NEW r \in BatchRecs, NEW x \in Crews, NEW known, NEW m,
         Kept(q, v, known, m), r.names = q.names, r.items = q.items,
         NEW w \in Slots, v[w].pc = "send", NEW res \in Results, res.idx = v[w].idx, res.ok = v[w].ok,
         r.results = Append(q.results, res), x[w].pc = "wait", \A u \in Slots \ {w} : x[u] = v[u]
  PROVE  Kept(r, x, known, m)
  <1>1. q.results \in Seq(Results)
    BY DEF BatchRecs
  <1>2. /\ Len(r.results) = Len(q.results) + 1 /\ Len(q.results) \in Nat
        /\ \A k \in 1 .. Len(r.results) : r.results[k] = IF k <= Len(q.results) THEN q.results[k] ELSE res
    BY <1>1
  <1>3. ASSUME NEW k \in 1 .. Len(r.results)
        PROVE  Says(r.names[r.results[k].idx], known, m, Verdict(r.results[k].ok))
    <2>1. CASE k <= Len(q.results)
      BY <1>2, <2>1 DEF Kept
    <2>2. CASE ~(k <= Len(q.results))
      BY <1>2, <2>2 DEF Kept
    <2> QED
      BY <2>1, <2>2
  <1> QED
    BY <1>3 DEF Kept

LEMMA KeptCollects ==
  ASSUME NEW q \in BatchRecs, NEW v \in Crews, NEW r \in BatchRecs, NEW known, NEW m,
         Run(q, v), Kept(q, v, known, m), q.results # <<>>,
         r.names = q.names, r.results = Tail(q.results),
         r.items = [q.items EXCEPT ![q.results[1].idx] = Verdict(q.results[1].ok)]
  PROVE  Kept(r, v, known, m)
  <1>1. q.results \in Seq(Results) /\ q.items \in Seq(Marks)
    BY DEF BatchRecs
  <1>2. /\ Len(q.results) \in Nat /\ Len(q.results) > 0 /\ Len(r.results) = Len(q.results) - 1
        /\ \A k \in 1 .. Len(r.results) : r.results[k] = q.results[k + 1] /\ k + 1 \in 1 .. Len(q.results)
    BY <1>1
  <1>3. Says(q.names[q.results[1].idx], known, m, Verdict(q.results[1].ok))
    BY <1>2 DEF Kept
  <1>4. /\ Len(r.items) = Len(q.items)
        /\ \A i \in 1 .. Len(q.items) :
              r.items[i] = IF i = q.results[1].idx THEN Verdict(q.results[1].ok) ELSE q.items[i]
    BY <1>1
  <1>5. \A i \in 1 .. Len(r.items) : r.items[i] # "none" => Says(r.names[i], known, m, r.items[i])
    BY <1>3, <1>4 DEF Kept
  <1>6. \A k \in 1 .. Len(r.results) : Says(r.names[r.results[k].idx], known, m, Verdict(r.results[k].ok))
    BY <1>2 DEF Kept
  <1> QED
    BY <1>5, <1>6 DEF Kept

-----------------------------------------------------------------------------
(* Steps.                                                                  *)

LEMMA OneBatch ==
  ASSUME BatchIInv, NEW b \in Batches, NEW r, NEW x,
         batch' = [batch EXCEPT ![b] = r], worker' = [worker EXCEPT ![b] = x],
         order'.reqs = order.reqs, order'.known = order.known,
         \A y \in TestTypes : y # Type(b) => mark'[y] = mark[y],
         Run(r, x), r.names # <<>> => Type(b) \in TestTypes,
         r.names # <<>> /\ Alone(b) => Kept(r, x, order.known, Meant(Type(b), mark'[Type(b)]))
  PROVE  BatchesRun'
  <1>1. \A c \in Batches : Type(c)' = Type(c) /\ Alone(c)' = Alone(c)
    BY DEF Type, Req, Alone
  <1>2. batch'[b] = r /\ worker'[b] = x
    BY DEF BatchIInv, BatchTypeOK
  <1>3. ASSUME NEW c \in Batches, c # b
        PROVE  batch'[c] = batch[c] /\ worker'[c] = worker[c]
    BY <1>3 DEF BatchIInv, BatchTypeOK
  <1>4. ASSUME NEW c \in Batches
        PROVE  /\ Run(batch'[c], worker'[c])
               /\ batch'[c].names # <<>> => Type(c)' \in TestTypes
               /\ batch'[c].names # <<>> /\ Alone(c)' => Kept(batch'[c], worker'[c], order'.known, Meant(Type(c)', mark'[Type(c)']))
    <2>1. CASE c = b
      BY <1>1, <1>2, <2>1
    <2>2. CASE c # b
      <3>1. /\ Run(batch[c], worker[c])
            /\ batch[c].names # <<>> => Type(c) \in TestTypes
            /\ batch[c].names # <<>> /\ Alone(c) => Kept(batch[c], worker[c], order.known, Meant(Type(c), mark[Type(c)]))
        BY DEF BatchIInv, BatchesRun
      <3>2. Alone(c) => Type(c) # Type(b)
        BY <2>2 DEF Alone
      <3>3. batch[c].names # <<>> /\ Alone(c) => mark'[Type(c)] = mark[Type(c)]
        BY <3>1, <3>2
      <3> QED
        BY <1>1, <1>3, <2>2, <3>1, <3>3
    <2> QED
      BY <2>1, <2>2
  <1> QED
    BY <1>4 DEF BatchesRun

LEMMA PermitsStay ==
  ASSUME PermitsExact, UNCHANGED <<worker, global, typed, opened>>, order'.reqs = order.reqs
  PROVE  PermitsExact'
  <1>1. \A c : Type(c)' = Type(c)
    BY DEF Type, Req
  <1>2. GlobalHeld' = GlobalHeld
    BY DEF GlobalHeld, At
  <1>3. \A y : TypeHeld(y)' = TypeHeld(y)
    BY <1>1 DEF TypeHeld, At
  <1>4. \A c : FreshHeld(c)' = FreshHeld(c)
    BY DEF FreshHeld
  <1>5. /\ global = Cardinality(GlobalHeld) /\ global <= GlobalBudget
        /\ \A y \in TestTypes : typed[y] = Cardinality(TypeHeld(y)) /\ typed[y] <= TypeBudget[y]
        /\ \A b \in Batches : opened[b] = Cardinality(FreshHeld(b))
    BY PermitsByHolders
  <1>6. /\ global' = Cardinality(GlobalHeld') /\ global' <= GlobalBudget
        /\ \A y \in TestTypes : typed'[y] = Cardinality(TypeHeld(y)') /\ typed'[y] <= TypeBudget[y]
        /\ \A b \in Batches : opened'[b] = Cardinality(FreshHeld(b)')
    BY <1>2, <1>3, <1>4, <1>5
  <1> QED
    BY <1>6 DEF PermitsExact, GlobalHeld, TypeHeld, FreshHeld

\* A step that changes a batch only.
LEMMA BatchOnly ==
  ASSUME BatchIInv, NEW b \in Batches, NEW r \in BatchRecs, BatchTo(b, r),
         UNCHANGED <<worker, global, typed, opened, mark>>,
         order'.reqs = order.reqs, order'.known = order.known,
         order' \in [reqs : [Batches -> BatchRequests], sent : SUBSET Batches, known : SUBSET TestNodes,
                     sticky : SUBSET TestNodes, leaves : Nat],
         r.names = batch[b].names, Run(r, worker[b]),
         \A known, m : Kept(batch[b], worker[b], known, m) => Kept(r, worker[b], known, m)
  PROVE  BatchIInv'
  <1>1. BatchTypeOK'
    BY DEF BatchIInv, BatchTypeOK, BatchTo
  <1>2. PermitsExact'
    BY PermitsStay DEF BatchIInv
  <1>3. worker' = [worker EXCEPT ![b] = worker[b]]
    BY DEF BatchIInv, BatchTypeOK
  <1>4. /\ batch[b].names # <<>> => Type(b) \in TestTypes
        /\ batch[b].names # <<>> /\ Alone(b) => Kept(batch[b], worker[b], order.known, Meant(Type(b), mark[Type(b)]))
    BY DEF BatchIInv, BatchesRun
  <1>5. BatchesRun'
    BY <1>3, <1>4, OneBatch DEF BatchTo
  <1> QED
    BY <1>1, <1>2, <1>5 DEF BatchIInv

\* A step of a worker, which may change its batch too.
LEMMA WorkerStep ==
  ASSUME BatchIInv, NEW b \in Batches, NEW w \in Slots, NEW r \in BatchRecs, NEW new \in WorkerRecs,
         BatchTo(b, r), WorkerTo(b, w, new), order' = order, r.names = batch[b].names,
         mark' \in [TestTypes -> [TestNodes -> Marks]],
         \A y \in TestTypes : y # Type(b) => mark'[y] = mark[y],
         typed' \in [TestTypes -> Int], opened' \in [Batches -> Int],
         global' = global + Bit(new.pc \in Testing \cup {"type"})
                          - Bit(worker[b][w].pc \in Testing \cup {"type"}),
         global' <= GlobalBudget,
         \A y \in TestTypes :
            /\ typed'[y] = typed[y] + Bit(new.pc \in Testing /\ Type(b) = y)
                                    - Bit(worker[b][w].pc \in Testing /\ Type(b) = y)
            /\ typed'[y] <= TypeBudget[y],
         \A c \in Batches : opened'[c] = opened[c] + Bit(c = b /\ new.pc = "freshPing")
                                                   - Bit(c = b /\ worker[b][w].pc = "freshPing"),
         Run(r, [worker[b] EXCEPT ![w] = new]),
         batch[b].names # <<>> /\ Type(b) \in TestTypes /\ Kept(batch[b], worker[b], order.known, Meant(Type(b), mark[Type(b)]))
            => Kept(r, [worker[b] EXCEPT ![w] = new], order.known, Meant(Type(b), mark'[Type(b)]))
  PROVE  BatchIInv'
  <1> DEFINE x == [worker[b] EXCEPT ![w] = new]
  <1>0. BatchTypeOK /\ PermitsExact
    BY DEF BatchIInv
  <1>1. worker' = [worker EXCEPT ![b] = x] /\ x \in Crews
    BY <1>0 DEF BatchTypeOK, WorkerTo, Crews
  <1>2. BatchTypeOK'
    <2>1. global' \in Int
      BY <1>0 DEF BatchTypeOK, Bit
    <2>2. batch' \in [Batches -> BatchRecs]
      BY <1>0 DEF BatchTypeOK, BatchTo
    <2>3. worker' \in [Batches -> Crews]
      BY <1>0, <1>1 DEF BatchTypeOK
    <2> QED
      BY <1>0, <2>1, <2>2, <2>3 DEF BatchTypeOK
  <1>3. PermitsExact'
    BY <1>0, PermitsFollow
  <1>4. /\ batch[b].names # <<>> => Type(b) \in TestTypes
        /\ batch[b].names # <<>> /\ Alone(b) => Kept(batch[b], worker[b], order.known, Meant(Type(b), mark[Type(b)]))
    BY DEF BatchIInv, BatchesRun
  <1> HIDE DEF x
  <1>5. Run(r, x) /\ (batch[b].names # <<>> /\ Alone(b) => Kept(r, x, order.known, Meant(Type(b), mark'[Type(b)])))
    BY <1>4 DEF x
  <1>6. BatchesRun'
    BY <1>1, <1>4, <1>5, OneBatch DEF BatchTo
  <1> QED
    BY <1>2, <1>3, <1>6 DEF BatchIInv

LEMMA Here ==
  ASSUME BatchIInv, NEW b \in Batches
  PROVE  /\ batch[b] \in BatchRecs /\ worker[b] \in Crews /\ Run(batch[b], worker[b])
         /\ \A w \in Slots : worker[b][w] \in WorkerRecs
         /\ Req(b) \in BatchRequests
         /\ batch[b].names # <<>> => Type(b) \in TestTypes
         /\ global \in Int /\ global <= GlobalBudget
         /\ \A y \in TestTypes : typed[y] \in Int /\ typed[y] <= TypeBudget[y]
         /\ GlobalBudget \in Nat /\ \A y \in TestTypes : TypeBudget[y] \in Nat
  <1>1. /\ batch[b] \in BatchRecs /\ worker[b] \in Crews /\ Req(b) \in BatchRequests
        /\ global \in Int /\ \A y \in TestTypes : typed[y] \in Int
    BY DEF BatchIInv, BatchTypeOK, Req
  <1>2. \A w \in Slots : worker[b][w] \in WorkerRecs
    BY <1>1 DEF Crews
  <1>3. Run(batch[b], worker[b]) /\ (batch[b].names # <<>> => Type(b) \in TestTypes)
    BY DEF BatchIInv, BatchesRun
  <1>4. global <= GlobalBudget /\ \A y \in TestTypes : typed[y] <= TypeBudget[y]
    BY PermitsByHolders DEF BatchIInv
  <1>5. GlobalBudget \in Nat /\ \A y \in TestTypes : TypeBudget[y] \in Nat
    BY BatchConstants
  <1> QED
    BY <1>1, <1>2, <1>3, <1>4, <1>5

LEMMA ClientLeavesKeeps ==
  ASSUME BatchIInv, NEW b \in Batches, ClientLeaves(b)
  PROVE  BatchIInv'
  <1> DEFINE q == batch[b]  r == [batch[b] EXCEPT !.left = TRUE]
  <1>0. q \in BatchRecs /\ worker[b] \in Crews /\ Run(q, worker[b])
    BY Here
  <1>1. /\ r \in BatchRecs /\ r.names = q.names /\ r.items = q.items /\ r.next = q.next /\ r.closed = q.closed
        /\ r.results = q.results /\ r.current = q.current /\ r.good = q.good /\ r.cancelled = q.cancelled
        /\ r.pc = q.pc
    BY <1>0 DEF BatchRecs
  <1>2. BatchTo(b, r) /\ UNCHANGED <<worker, global, typed, opened, mark>> /\ q.pc \in {"idle", "run"}
    BY DEF ClientLeaves
  <1>3. /\ order'.reqs = order.reqs /\ order'.known = order.known
        /\ order' \in [reqs : [Batches -> BatchRequests], sent : SUBSET Batches, known : SUBSET TestNodes,
                       sticky : SUBSET TestNodes, leaves : Nat]
    BY DEF ClientLeaves, BatchIInv, BatchTypeOK
  <1> HIDE DEF q, r
  <1>4. Run(r, worker[b])
    BY <1>0, <1>1, <1>2, RunTurns
  <1>5. \A known, m : Kept(q, worker[b], known, m) => Kept(r, worker[b], known, m)
    BY <1>0, <1>1, KeptSame
  <1> QED
    BY <1>1, <1>2, <1>3, <1>4, <1>5, BatchOnly DEF q

LEMMA ContextEndsKeeps ==
  ASSUME BatchIInv, NEW b \in Batches, ContextEnds(b)
  PROVE  BatchIInv'
  <1> DEFINE q == batch[b]  r == [batch[b] EXCEPT !.cancelled = TRUE]
  <1>0. q \in BatchRecs /\ worker[b] \in Crews /\ Run(q, worker[b])
    BY Here
  <1>1. /\ r \in BatchRecs /\ r.names = q.names /\ r.items = q.items /\ r.next = q.next /\ r.closed = q.closed
        /\ r.results = q.results /\ r.current = q.current /\ r.good = q.good /\ r.cancelled
        /\ r.pc = q.pc
    BY <1>0 DEF BatchRecs
  <1>2. BatchTo(b, r) /\ UNCHANGED <<order, worker, global, typed, opened, mark>> /\ q.pc = "run"
    BY DEF ContextEnds
  <1>3. order' \in [reqs : [Batches -> BatchRequests], sent : SUBSET Batches, known : SUBSET TestNodes,
                    sticky : SUBSET TestNodes, leaves : Nat]
    BY <1>2 DEF BatchIInv, BatchTypeOK
  <1> HIDE DEF q, r
  <1>4. Run(r, worker[b])
    BY <1>0, <1>1, <1>2, RunTurns
  <1>5. \A known, m : Kept(q, worker[b], known, m) => Kept(r, worker[b], known, m)
    BY <1>0, <1>1, KeptSame
  <1> QED
    BY <1>1, <1>2, <1>3, <1>4, <1>5, BatchOnly DEF q

LEMMA CloseJobsKeeps ==
  ASSUME BatchIInv, NEW b \in Batches, CloseJobs(b)
  PROVE  BatchIInv'
  <1> DEFINE q == batch[b]  r == [batch[b] EXCEPT !.closed = TRUE]
  <1>0. q \in BatchRecs /\ worker[b] \in Crews /\ Run(q, worker[b])
    BY Here
  <1>1. /\ r \in BatchRecs /\ r.names = q.names /\ r.items = q.items /\ r.next = q.next /\ r.closed = TRUE
        /\ r.results = q.results /\ r.current = q.current /\ r.good = q.good /\ r.cancelled = q.cancelled
        /\ r.pc = q.pc
    BY <1>0 DEF BatchRecs
  <1>2. /\ BatchTo(b, r) /\ UNCHANGED <<order, worker, global, typed, opened, mark>>
        /\ q.names # <<>> /\ (q.next = Len(q.names) \/ q.cancelled)
    BY DEF CloseJobs
  <1>3. order' \in [reqs : [Batches -> BatchRequests], sent : SUBSET Batches, known : SUBSET TestNodes,
                    sticky : SUBSET TestNodes, leaves : Nat]
    BY <1>2 DEF BatchIInv, BatchTypeOK
  <1> HIDE DEF q, r
  <1>4. Run(r, worker[b])
    BY <1>0, <1>1, <1>2, RunCloses
  <1>5. \A known, m : Kept(q, worker[b], known, m) => Kept(r, worker[b], known, m)
    BY <1>0, <1>1, KeptSame
  <1> QED
    BY <1>1, <1>2, <1>3, <1>4, <1>5, BatchOnly DEF q

LEMMA CollectKeeps ==
  ASSUME BatchIInv, NEW b \in Batches, NEW writes \in BOOLEAN, Collect(b, writes)
  PROVE  BatchIInv'
  <1> DEFINE q == batch[b]
  <1>0. q \in BatchRecs /\ worker[b] \in Crews /\ Run(q, worker[b])
    BY Here
  <1>a. q.results # <<>> /\ q.results \in Seq(Results) /\ q.pc = "run" /\ q.items \in Seq(Marks)
    BY <1>0 DEF Collect, BatchRecs
  <1>b. Head(q.results) = q.results[1] /\ q.results[1] \in Results /\ Tail(q.results) \in Seq(Results)
    BY <1>a
  <1>c. PICK res \in Results : res = q.results[1]
    BY <1>b
  <1>d. res.ok \in BOOLEAN /\ res.idx \in 1 .. Len(q.items)
    <2>1. Len(q.results) \in Nat /\ Len(q.results) >= 1
      BY <1>a
    <2> QED
      BY <1>0, <1>c, <2>1 DEF Results, Run, Placed, BatchRecs
  <1>e. [q.items EXCEPT ![res.idx] = Verdict(res.ok)] \in Seq(Marks)
    BY <1>a, <1>d DEF Verdict, Marks
  <1> DEFINE r == [batch[b] EXCEPT !.results = Tail(@), !.items[res.idx] = IF res.ok THEN "ok" ELSE "bad",
                          !.current = @ + 1, !.good = IF res.ok THEN @ + 1 ELSE @,
                          !.pc = IF writes THEN "run" ELSE "broken",
                          !.cancelled = batch[b].cancelled \/ ~writes]
  <1>1. /\ BatchTo(b, r) /\ UNCHANGED <<order, worker, global, typed, opened, mark>>
    BY <1>b, <1>c DEF Collect
  <1>2. /\ r.names = q.names /\ r.next = q.next /\ r.closed = q.closed /\ r.results = Tail(q.results)
        /\ r.items = [q.items EXCEPT ![res.idx] = Verdict(res.ok)] /\ r.current = q.current + 1
        /\ r.good = q.good + Bit(res.ok) /\ r.pc = (IF writes THEN "run" ELSE "broken")
        /\ r.cancelled = (q.cancelled \/ ~writes) /\ r.left = q.left
    BY <1>0 DEF BatchRecs, Verdict, Bit
  <1>3. r \in BatchRecs
    <2>1. q.current + 1 \in Nat /\ q.good + Bit(res.ok) \in Nat
      BY <1>0 DEF BatchRecs, Bit
    <2> QED
      BY <1>0, <1>b, <1>e, <2>1 DEF BatchRecs, Verdict, Bit
  <1>4. order' \in [reqs : [Batches -> BatchRequests], sent : SUBSET Batches, known : SUBSET TestNodes,
                    sticky : SUBSET TestNodes, leaves : Nat]
    BY <1>1 DEF BatchIInv, BatchTypeOK
  <1> HIDE DEF q, r
  <1>5. Run(r, worker[b])
    BY <1>0, <1>a, <1>c, <1>2, <1>3, RunCollects
  <1>6. \A known, m : Kept(q, worker[b], known, m) => Kept(r, worker[b], known, m)
    BY <1>0, <1>a, <1>c, <1>2, <1>3, KeptCollects
  <1> QED
    BY <1>1, <1>2, <1>3, <1>4, <1>5, <1>6, BatchOnly DEF q

LEMMA RespondKeeps ==
  ASSUME BatchIInv, NEW b \in Batches, Respond(b)
  PROVE  BatchIInv'
  <1> DEFINE q == batch[b]  r == [batch[b] EXCEPT !.pc = Answer(b), !.cancelled = TRUE]
  <1>0. q \in BatchRecs /\ worker[b] \in Crews /\ Run(q, worker[b])
    BY Here
  <1>1. /\ r \in BatchRecs /\ r.names = q.names /\ r.items = q.items /\ r.next = q.next /\ r.closed = q.closed
        /\ r.results = q.results /\ r.current = q.current /\ r.good = q.good /\ r.cancelled
        /\ r.pc = Answer(b)
    BY <1>0 DEF BatchRecs, Answer
  <1>2. /\ BatchTo(b, r) /\ UNCHANGED <<order, worker, global, typed, opened, mark>>
        /\ q.pc = "run" /\ q.results = <<>> /\ \A w \in Slots : worker[b][w].pc \in {"none", "gone"}
    BY DEF Respond
  <1>3. order' \in [reqs : [Batches -> BatchRequests], sent : SUBSET Batches, known : SUBSET TestNodes,
                    sticky : SUBSET TestNodes, leaves : Nat]
    BY <1>2 DEF BatchIInv, BatchTypeOK
  <1>6. Answer(b) = IF q.cancelled /\ q.current < Len(q.names) THEN "error" ELSE "done"
    BY DEF Answer
  <1> HIDE DEF q, r
  <1>4. Run(r, worker[b])
    <2>1. CASE q.cancelled /\ q.current < Len(q.names)
      BY <1>0, <1>1, <1>2, <1>6, <2>1, RunTurns
    <2>2. CASE ~(q.cancelled /\ q.current < Len(q.names))
      BY <1>0, <1>1, <1>2, <1>6, <2>2, RunAnswers
    <2> QED
      BY <2>1, <2>2
  <1>5. \A known, m : Kept(q, worker[b], known, m) => Kept(r, worker[b], known, m)
    BY <1>0, <1>1, KeptSame
  <1> QED
    BY <1>1, <1>2, <1>3, <1>4, <1>5, BatchOnly DEF q

\* A step of a worker that leaves the batch as it is.
LEMMA WorkerOnly ==
  ASSUME BatchIInv, NEW b \in Batches, NEW w \in Slots, NEW new \in WorkerRecs,
         WorkerTo(b, w, new), UNCHANGED <<order, batch>>,
         mark' \in [TestTypes -> [TestNodes -> Marks]],
         \A y \in TestTypes : y # Type(b) => mark'[y] = mark[y],
         typed' \in [TestTypes -> Int], opened' \in [Batches -> Int],
         global' = global + Bit(new.pc \in Testing \cup {"type"})
                          - Bit(worker[b][w].pc \in Testing \cup {"type"}),
         global' <= GlobalBudget,
         \A y \in TestTypes :
            /\ typed'[y] = typed[y] + Bit(new.pc \in Testing /\ Type(b) = y)
                                    - Bit(worker[b][w].pc \in Testing /\ Type(b) = y)
            /\ typed'[y] <= TypeBudget[y],
         \A c \in Batches : opened'[c] = opened[c] + Bit(c = b /\ new.pc = "freshPing")
                                                   - Bit(c = b /\ worker[b][w].pc = "freshPing"),
         Run(batch[b], [worker[b] EXCEPT ![w] = new]),
         batch[b].names # <<>> /\ Type(b) \in TestTypes /\ Kept(batch[b], worker[b], order.known, Meant(Type(b), mark[Type(b)]))
            => Kept(batch[b], [worker[b] EXCEPT ![w] = new], order.known, Meant(Type(b), mark'[Type(b)]))
  PROVE  BatchIInv'
  <1>1. BatchTo(b, batch[b]) /\ batch[b] \in BatchRecs
    BY DEF BatchTo, BatchIInv, BatchTypeOK
  <1> QED
    BY <1>1, WorkerStep

\* The crew after a step of one of its workers.
LEMMA CrewMoves ==
  ASSUME NEW v \in Crews, NEW w \in Slots, NEW new \in WorkerRecs
  PROVE  /\ [v EXCEPT ![w] = new] \in Crews
         /\ [v EXCEPT ![w] = new][w] = new
         /\ \A u \in Slots \ {w} : [v EXCEPT ![w] = new][u] = v[u]
  BY DEF Crews

LEMMA Typed ==
  ASSUME BatchIInv
  PROVE  /\ typed \in [TestTypes -> Int] /\ opened \in [Batches -> Int]
         /\ mark \in [TestTypes -> [TestNodes -> Marks]] /\ order.known \in SUBSET TestNodes
  BY DEF BatchIInv, BatchTypeOK

LEMMA Numbers ==
  ASSUME BatchIInv
  PROVE  /\ global \in Int /\ global <= GlobalBudget /\ GlobalBudget \in Int
         /\ \A y \in TestTypes : typed[y] \in Int /\ typed[y] <= TypeBudget[y] /\ TypeBudget[y] \in Int
         /\ \A c \in Batches : opened[c] \in Int
  <1>1. global <= GlobalBudget /\ \A y \in TestTypes : typed[y] <= TypeBudget[y]
    BY PermitsByHolders DEF BatchIInv
  <1> QED
    BY <1>1, BatchConstants DEF BatchIInv, BatchTypeOK

LEMMA AcquireGlobalKeeps ==
  ASSUME BatchIInv, NEW b \in Batches, NEW w \in Slots, AcquireGlobal(b, w)
  PROVE  BatchIInv'
  <1> DEFINE v == worker[b]  new == [worker[b][w] EXCEPT !.pc = "type"]  x == [v EXCEPT ![w] = new]
  <1>0. batch[b] \in BatchRecs /\ v \in Crews /\ Run(batch[b], v) /\ v[w] \in WorkerRecs
    BY Here
  <1>1. new \in WorkerRecs /\ new.pc = "type" /\ new.idx = v[w].idx
    BY <1>0 DEF WorkerRecs, Busy
  <1>2. /\ v[w].pc = "global" /\ WorkerTo(b, w, new) /\ global' = global + 1 /\ global < GlobalBudget
        /\ UNCHANGED <<order, batch, typed, opened, mark>>
    BY DEF AcquireGlobal
  <1>a. x \in Crews /\ x[w] = new /\ \A u \in Slots \ {w} : x[u] = v[u]
    BY <1>0, <1>1, CrewMoves
  <1> HIDE DEF v, new, x
  <1>3. Run(batch[b], x)
    <2>1. v[w].pc \in Busy /\ new.pc \in Busy
      BY <1>1, <1>2 DEF Busy
    <2> QED
      BY <1>0, <1>1, <1>a, <2>1, RunGoesOn
  <1>4. \A known, m : Kept(batch[b], v, known, m) => Kept(batch[b], x, known, m)
    BY <1>0, <1>1, <1>a, KeptSame
  <1>5. /\ Bit(new.pc \in Testing \cup {"type"}) = 1 /\ Bit(v[w].pc \in Testing \cup {"type"}) = 0
        /\ \A y : Bit(new.pc \in Testing /\ Type(b) = y) = 0 /\ Bit(v[w].pc \in Testing /\ Type(b) = y) = 0
        /\ \A c : Bit(c = b /\ new.pc = "freshPing") = 0 /\ Bit(c = b /\ v[w].pc = "freshPing") = 0
    BY <1>1, <1>2 DEF Bit, Testing
  <1>6. /\ global' = global + Bit(new.pc \in Testing \cup {"type"}) - Bit(v[w].pc \in Testing \cup {"type"})
        /\ global' <= GlobalBudget
        /\ \A y \in TestTypes :
            /\ typed'[y] = typed[y] + Bit(new.pc \in Testing /\ Type(b) = y) - Bit(v[w].pc \in Testing /\ Type(b) = y)
            /\ typed'[y] <= TypeBudget[y]
        /\ \A c \in Batches : opened'[c] = opened[c] + Bit(c = b /\ new.pc = "freshPing")
                                                     - Bit(c = b /\ v[w].pc = "freshPing")
    BY <1>2, <1>5, Numbers
  <1> QED
    BY <1>1, <1>2, <1>3, <1>4, <1>6, Typed, WorkerOnly DEF v, x

LEMMA AcquireTypeKeeps ==
  ASSUME BatchIInv, NEW b \in Batches, NEW w \in Slots, AcquireType(b, w)
  PROVE  BatchIInv'
  <1> DEFINE v == worker[b]  new == [worker[b][w] EXCEPT !.pc = "test"]  x == [v EXCEPT ![w] = new]
  <1>0. /\ batch[b] \in BatchRecs /\ v \in Crews /\ Run(batch[b], v) /\ v[w] \in WorkerRecs
        /\ batch[b].names # <<>> => Type(b) \in TestTypes
    BY Here
  <1>1. new \in WorkerRecs /\ new.pc = "test" /\ new.idx = v[w].idx
    BY <1>0 DEF WorkerRecs, Busy, Testing
  <1>2. /\ v[w].pc = "type" /\ WorkerTo(b, w, new) /\ typed' = [typed EXCEPT ![Type(b)] = @ + 1]
        /\ typed[Type(b)] < TypeBudget[Type(b)] /\ UNCHANGED <<order, batch, global, opened, mark>>
    BY DEF AcquireType
  <1>a. x \in Crews /\ x[w] = new /\ \A u \in Slots \ {w} : x[u] = v[u]
    BY <1>0, <1>1, CrewMoves
  <1> HIDE DEF v, new, x
  <1>b. Type(b) \in TestTypes
    BY <1>0, <1>2, AtWork
  <1>3. Run(batch[b], x)
    <2>1. v[w].pc \in Busy /\ new.pc \in Busy
      BY <1>1, <1>2 DEF Busy, Testing
    <2> QED
      BY <1>0, <1>1, <1>a, <2>1, RunGoesOn
  <1>4. \A known, m : Kept(batch[b], v, known, m) => Kept(batch[b], x, known, m)
    BY <1>0, <1>1, <1>a, KeptSame
  <1>5. /\ Bit(new.pc \in Testing \cup {"type"}) = 1 /\ Bit(v[w].pc \in Testing \cup {"type"}) = 1
        /\ \A y : Bit(new.pc \in Testing /\ Type(b) = y) = (IF y = Type(b) THEN 1 ELSE 0)
        /\ \A y : Bit(v[w].pc \in Testing /\ Type(b) = y) = 0
        /\ \A c : Bit(c = b /\ new.pc = "freshPing") = 0 /\ Bit(c = b /\ v[w].pc = "freshPing") = 0
    BY <1>1, <1>2 DEF Bit, Testing
  <1>c. \A y \in TestTypes : typed'[y] = IF y = Type(b) THEN typed[y] + 1 ELSE typed[y]
    BY <1>2, Typed
  <1>d. typed' \in [TestTypes -> Int]
    BY <1>2, <1>b, Typed
  <1>6. /\ global' = global + Bit(new.pc \in Testing \cup {"type"}) - Bit(v[w].pc \in Testing \cup {"type"})
        /\ global' <= GlobalBudget
        /\ \A y \in TestTypes :
            /\ typed'[y] = typed[y] + Bit(new.pc \in Testing /\ Type(b) = y) - Bit(v[w].pc \in Testing /\ Type(b) = y)
            /\ typed'[y] <= TypeBudget[y]
        /\ \A c \in Batches : opened'[c] = opened[c] + Bit(c = b /\ new.pc = "freshPing")
                                                     - Bit(c = b /\ v[w].pc = "freshPing")
    <2>1. typed[Type(b)] < TypeBudget[Type(b)] /\ UNCHANGED <<global, opened>>
      BY <1>2
    <2>2. ASSUME NEW y \in TestTypes
          PROVE  /\ typed'[y] = typed[y] + (IF y = Type(b) THEN 1 ELSE 0) - 0
                 /\ typed'[y] <= TypeBudget[y]
      BY <1>b, <1>c, <2>1, Numbers
    <2> QED
      BY <1>5, <2>1, <2>2, Numbers
  <1> QED
    BY <1>1, <1>2, <1>3, <1>4, <1>6, <1>d, Typed, WorkerOnly DEF v, x

LEMMA WorkerLeavesKeeps ==
  ASSUME BatchIInv, NEW b \in Batches, NEW w \in Slots, WorkerLeaves(b, w)
  PROVE  BatchIInv'
  <1> DEFINE v == worker[b]  new == [NoWorker EXCEPT !.pc = "gone"]  x == [v EXCEPT ![w] = new]
  <1>0. batch[b] \in BatchRecs /\ v \in Crews /\ Run(batch[b], v) /\ v[w] \in WorkerRecs
    BY Here
  <1>1. new \in WorkerRecs /\ new.pc = "gone"
    BY DEF WorkerRecs, NoWorker
  <1>2. /\ \/ v[w].pc = "wait" /\ (batch[b].closed \/ batch[b].cancelled)
           \/ v[w].pc \in {"global", "type", "send"} /\ batch[b].cancelled
        /\ WorkerTo(b, w, new) /\ global' = (IF v[w].pc = "type" THEN global - 1 ELSE global)
        /\ UNCHANGED <<order, batch, typed, opened, mark>>
    BY DEF WorkerLeaves
  <1>a. x \in Crews /\ x[w] = new /\ \A u \in Slots \ {w} : x[u] = v[u]
    BY <1>0, <1>1, CrewMoves
  <1> HIDE DEF v, new, x
  <1>3. Run(batch[b], x)
    <2>1. v[w].pc \notin {"none", "gone"} /\ (batch[b].cancelled \/ (batch[b].closed /\ v[w].pc = "wait"))
      BY <1>2
    <2> QED
      BY <1>0, <1>1, <1>a, <2>1, RunLeft
  <1>4. \A known, m : Kept(batch[b], v, known, m) => Kept(batch[b], x, known, m)
    BY <1>0, <1>1, <1>a, KeptSame
  <1>5. /\ Bit(new.pc \in Testing \cup {"type"}) = 0
        /\ Bit(v[w].pc \in Testing \cup {"type"}) = (IF v[w].pc = "type" THEN 1 ELSE 0)
        /\ \A y : Bit(new.pc \in Testing /\ Type(b) = y) = 0 /\ Bit(v[w].pc \in Testing /\ Type(b) = y) = 0
        /\ \A c : Bit(c = b /\ new.pc = "freshPing") = 0 /\ Bit(c = b /\ v[w].pc = "freshPing") = 0
    BY <1>1, <1>2 DEF Bit, Testing
  <1>6. /\ global' = global + Bit(new.pc \in Testing \cup {"type"}) - Bit(v[w].pc \in Testing \cup {"type"})
        /\ global' <= GlobalBudget
        /\ \A y \in TestTypes :
            /\ typed'[y] = typed[y] + Bit(new.pc \in Testing /\ Type(b) = y) - Bit(v[w].pc \in Testing /\ Type(b) = y)
            /\ typed'[y] <= TypeBudget[y]
        /\ \A c \in Batches : opened'[c] = opened[c] + Bit(c = b /\ new.pc = "freshPing")
                                                     - Bit(c = b /\ v[w].pc = "freshPing")
    BY <1>2, <1>5, Numbers
  <1> QED
    BY <1>1, <1>2, <1>3, <1>4, <1>6, Typed, WorkerOnly DEF v, x

LEMMA TakeJobKeeps ==
  ASSUME BatchIInv, NEW b \in Batches, NEW w \in Slots, TakeJob(b, w)
  PROVE  BatchIInv'
  <1> DEFINE q == batch[b]  v == worker[b]  r == [batch[b] EXCEPT !.next = @ + 1]
             new == [NoWorker EXCEPT !.pc = "global", !.idx = batch[b].next + 1]  x == [v EXCEPT ![w] = new]
  <1>0. q \in BatchRecs /\ v \in Crews /\ Run(q, v) /\ v[w] \in WorkerRecs
    BY Here
  <1>1. new \in WorkerRecs /\ new.pc = "global" /\ new.idx = q.next + 1
    <2>1. q.next + 1 \in Nat
      BY <1>0 DEF BatchRecs
    <2> QED
      BY <2>1 DEF WorkerRecs, NoWorker, Busy
  <1>b. /\ r \in BatchRecs /\ r.names = q.names /\ r.items = q.items /\ r.next = q.next + 1 /\ r.closed = q.closed
        /\ r.results = q.results /\ r.current = q.current /\ r.good = q.good /\ r.cancelled = q.cancelled
        /\ r.pc = q.pc
    <2>1. q.next + 1 \in Nat
      BY <1>0 DEF BatchRecs
    <2> QED
      BY <1>0, <2>1 DEF BatchRecs
  <1>2. /\ v[w].pc = "wait" /\ ~q.closed /\ q.next < Len(q.names) /\ BatchTo(b, r) /\ WorkerTo(b, w, new)
        /\ UNCHANGED <<order, global, typed, opened, mark>>
    BY DEF TakeJob
  <1>a. x \in Crews /\ x[w] = new /\ \A u \in Slots \ {w} : x[u] = v[u]
    BY <1>0, <1>1, CrewMoves
  <1> HIDE DEF q, r, v, new, x
  <1>3. Run(r, x)
    <2>1. new.pc \in Busy
      BY <1>1 DEF Busy
    <2> QED
      BY <1>0, <1>1, <1>2, <1>a, <1>b, <2>1, RunTakes
  <1>4. \A known, m : Kept(q, v, known, m) => Kept(r, x, known, m)
    BY <1>0, <1>1, <1>a, <1>b, KeptSame
  <1>5. /\ Bit(new.pc \in Testing \cup {"type"}) = 0 /\ Bit(v[w].pc \in Testing \cup {"type"}) = 0
        /\ \A y : Bit(new.pc \in Testing /\ Type(b) = y) = 0 /\ Bit(v[w].pc \in Testing /\ Type(b) = y) = 0
        /\ \A c : Bit(c = b /\ new.pc = "freshPing") = 0 /\ Bit(c = b /\ v[w].pc = "freshPing") = 0
    BY <1>1, <1>2 DEF Bit, Testing
  <1>6. /\ global' = global + Bit(new.pc \in Testing \cup {"type"}) - Bit(v[w].pc \in Testing \cup {"type"})
        /\ global' <= GlobalBudget
        /\ \A y \in TestTypes :
            /\ typed'[y] = typed[y] + Bit(new.pc \in Testing /\ Type(b) = y) - Bit(v[w].pc \in Testing /\ Type(b) = y)
            /\ typed'[y] <= TypeBudget[y]
        /\ \A c \in Batches : opened'[c] = opened[c] + Bit(c = b /\ new.pc = "freshPing")
                                                     - Bit(c = b /\ v[w].pc = "freshPing")
    BY <1>2, <1>5, Numbers
  <1> QED
    BY <1>1, <1>2, <1>3, <1>4, <1>6, <1>b, Typed, WorkerStep DEF q, v, x

LEMMA SendResultKeeps ==
  ASSUME BatchIInv, NEW b \in Batches, NEW w \in Slots, SendResult(b, w)
  PROVE  BatchIInv'
  <1> DEFINE q == batch[b]  v == worker[b]  res == [idx |-> worker[b][w].idx, ok |-> worker[b][w].ok]
             r == [batch[b] EXCEPT !.results = Append(@, res)]
             new == [NoWorker EXCEPT !.pc = "wait"]  x == [v EXCEPT ![w] = new]
  <1>0. q \in BatchRecs /\ v \in Crews /\ Run(q, v) /\ v[w] \in WorkerRecs
    BY Here
  <1>1. new \in WorkerRecs /\ new.pc = "wait"
    BY DEF WorkerRecs, NoWorker
  <1>c. res \in Results /\ res.idx = v[w].idx /\ res.ok = v[w].ok
    BY <1>0 DEF WorkerRecs, Results
  <1>b. /\ r \in BatchRecs /\ r.names = q.names /\ r.items = q.items /\ r.next = q.next /\ r.closed = q.closed
        /\ r.results = Append(q.results, res) /\ r.current = q.current /\ r.good = q.good
        /\ r.cancelled = q.cancelled /\ r.pc = q.pc
    <2>1. q.results \in Seq(Results)
      BY <1>0 DEF BatchRecs
    <2> HIDE DEF res
    <2>2. Append(q.results, res) \in Seq(Results)
      BY <1>c, <2>1
    <2> QED
      BY <1>0, <2>2 DEF BatchRecs
  <1>2. /\ v[w].pc = "send" /\ BatchTo(b, r) /\ WorkerTo(b, w, new)
        /\ UNCHANGED <<order, global, typed, opened, mark>>
    BY DEF SendResult
  <1>a. x \in Crews /\ x[w] = new /\ \A u \in Slots \ {w} : x[u] = v[u]
    BY <1>0, <1>1, CrewMoves
  <1> HIDE DEF q, r, v, new, x, res
  <1>3. Run(r, x)
    <2>1. v[w].pc \in Busy
      BY <1>2 DEF Busy
    <2> QED
      BY <1>0, <1>1, <1>a, <1>b, <1>c, <2>1, RunSends
  <1>4. \A known, m : Kept(q, v, known, m) => Kept(r, x, known, m)
    BY <1>0, <1>1, <1>2, <1>a, <1>b, <1>c, KeptSends
  <1>5. /\ Bit(new.pc \in Testing \cup {"type"}) = 0 /\ Bit(v[w].pc \in Testing \cup {"type"}) = 0
        /\ \A y : Bit(new.pc \in Testing /\ Type(b) = y) = 0 /\ Bit(v[w].pc \in Testing /\ Type(b) = y) = 0
        /\ \A c : Bit(c = b /\ new.pc = "freshPing") = 0 /\ Bit(c = b /\ v[w].pc = "freshPing") = 0
    BY <1>1, <1>2 DEF Bit, Testing
  <1>6. /\ global' = global + Bit(new.pc \in Testing \cup {"type"}) - Bit(v[w].pc \in Testing \cup {"type"})
        /\ global' <= GlobalBudget
        /\ \A y \in TestTypes :
            /\ typed'[y] = typed[y] + Bit(new.pc \in Testing /\ Type(b) = y) - Bit(v[w].pc \in Testing /\ Type(b) = y)
            /\ typed'[y] <= TypeBudget[y]
        /\ \A c \in Batches : opened'[c] = opened[c] + Bit(c = b /\ new.pc = "freshPing")
                                                     - Bit(c = b /\ v[w].pc = "freshPing")
    BY <1>2, <1>5, Numbers
  <1> QED
    BY <1>1, <1>2, <1>3, <1>4, <1>6, <1>b, Typed, WorkerStep DEF q, v, x

LEMMA FinishKeeps ==
  ASSUME BatchIInv, NEW b \in Batches, NEW w \in Slots, worker[b][w].pc \in Testing, NEW ok \in BOOLEAN,
         NEW closing, closing = Bit(worker[b][w].pc = "freshPing"), Finish(b, w, ok, closing)
  PROVE  BatchIInv'
  <1> DEFINE q == batch[b]  v == worker[b]  new == [worker[b][w] EXCEPT !.pc = "send", !.ok = ok]
             x == [v EXCEPT ![w] = new]
  <1>0. /\ q \in BatchRecs /\ v \in Crews /\ Run(q, v) /\ v[w] \in WorkerRecs
        /\ q.names # <<>> => Type(b) \in TestTypes
    BY Here
  <1>1. new \in WorkerRecs /\ new.pc = "send" /\ new.idx = v[w].idx /\ new.ok = ok
    BY <1>0 DEF WorkerRecs, Busy
  <1>2. /\ v[w].pc \in Testing /\ WorkerTo(b, w, new) /\ global' = global - 1
        /\ typed' = [typed EXCEPT ![Type(b)] = @ - 1] /\ opened' = [opened EXCEPT ![b] = @ - closing]
        /\ UNCHANGED <<order, batch>>
    BY DEF Finish
  <1>m. PICK kept \in Marks :
            /\ kept = Verdict(ok) \/ (kept = "bad" /\ Verdict(ok) = "ok" /\ Type(b) # "udp")
            /\ mark' = IF q.names[v[w].idx] \in order.known
                       THEN [mark EXCEPT ![Type(b)][q.names[v[w].idx]] = kept] ELSE mark
    <2>1. PICK instant \in BOOLEAN : mark' = Marked(b, w, ok, instant)
      BY DEF Finish
    <2> DEFINE kept == IF ok /\ ~(instant /\ Type(b) # "udp") THEN "ok" ELSE "bad"
    <2>2. kept \in Marks /\ (kept = Verdict(ok) \/ (kept = "bad" /\ Verdict(ok) = "ok" /\ Type(b) # "udp"))
      BY DEF Marks, Verdict
    <2>3. mark' = IF q.names[v[w].idx] \in order.known
                  THEN [mark EXCEPT ![Type(b)][q.names[v[w].idx]] = kept] ELSE mark
      BY <2>1 DEF Marked, Node
    <2> HIDE DEF kept
    <2> QED
      BY <2>2, <2>3
  <1>a. x \in Crews /\ x[w] = new /\ \A u \in Slots \ {w} : x[u] = v[u]
    BY <1>0, <1>1, CrewMoves
  <1>g. closing = Bit(v[w].pc = "freshPing") /\ closing \in {0, 1}
    BY DEF Bit
  <1> HIDE DEF q, v, new, x
  <1>b. v[w].pc \in Busy /\ new.pc \in Busy /\ v[w].pc \notin {"none", "gone", "send"}
    BY <1>1, <1>2 DEF Busy, Testing
  <1>c. Type(b) \in TestTypes
    BY <1>0, <1>b, AtWork
  <1>3. Run(q, x)
    BY <1>0, <1>1, <1>a, <1>b, RunGoesOn
  <1>n. /\ mark' \in [TestTypes -> [TestNodes -> Marks]]
        /\ \A y \in TestTypes : y # Type(b) => mark'[y] = mark[y]
        /\ mark'[Type(b)] = IF q.names[v[w].idx] \in order.known
                            THEN [mark[Type(b)] EXCEPT ![q.names[v[w].idx]] = kept] ELSE mark[Type(b)]
    BY <1>c, <1>m, Typed
  <1>4. Kept(q, v, order.known, Meant(Type(b), mark[Type(b)])) => Kept(q, x, order.known, Meant(Type(b), mark'[Type(b)]))
    <2>1. mark[Type(b)] \in [TestNodes -> Marks] /\ mark'[Type(b)] \in [TestNodes -> Marks]
      BY <1>c, <1>n, Typed
    <2>a. \A t \in TestNodes : mark'[Type(b)][t] =
             IF t \in order.known /\ t = q.names[v[w].idx] THEN kept ELSE mark[Type(b)][t]
      BY <1>n, <2>1
    <2>2. \A t \in TestNodes :
             IF t \in order.known /\ t = q.names[v[w].idx]
             THEN Verdict(ok) \in Meant(Type(b), mark'[Type(b)])[t]
             ELSE Meant(Type(b), mark'[Type(b)])[t] = Meant(Type(b), mark[Type(b)])[t]
      BY <1>m, <2>a DEF Meant
    <2>3. order.known \in SUBSET TestNodes
      BY Typed
    <2>4. x[w].idx = v[w].idx /\ x[w].ok = ok
      BY <1>1, <1>a
    <2> QED
      BY <1>0, <1>a, <1>b, <2>2, <2>3, <2>4, KeptFinishes
  <1>5. /\ Bit(new.pc \in Testing \cup {"type"}) = 0 /\ Bit(v[w].pc \in Testing \cup {"type"}) = 1
        /\ \A y : Bit(new.pc \in Testing /\ Type(b) = y) = 0
        /\ \A y : Bit(v[w].pc \in Testing /\ Type(b) = y) = (IF y = Type(b) THEN 1 ELSE 0)
        /\ \A c : Bit(c = b /\ new.pc = "freshPing") = 0
        /\ \A c : Bit(c = b /\ v[w].pc = "freshPing") = (IF c = b THEN closing ELSE 0)
    BY <1>1, <1>2, <1>g DEF Bit, Testing
  <1>e. /\ typed' \in [TestTypes -> Int] /\ opened' \in [Batches -> Int]
        /\ \A y \in TestTypes : typed'[y] = IF y = Type(b) THEN typed[y] - 1 ELSE typed[y]
        /\ \A c \in Batches : opened'[c] = IF c = b THEN opened[c] - closing ELSE opened[c]
    BY <1>2, <1>c, <1>g, Typed
  <1>6. /\ global' = global + Bit(new.pc \in Testing \cup {"type"}) - Bit(v[w].pc \in Testing \cup {"type"})
        /\ global' <= GlobalBudget
        /\ \A y \in TestTypes :
            /\ typed'[y] = typed[y] + Bit(new.pc \in Testing /\ Type(b) = y) - Bit(v[w].pc \in Testing /\ Type(b) = y)
            /\ typed'[y] <= TypeBudget[y]
        /\ \A c \in Batches : opened'[c] = opened[c] + Bit(c = b /\ new.pc = "freshPing")
                                                     - Bit(c = b /\ v[w].pc = "freshPing")
    <2>1. global' = global - 1
      BY <1>2
    <2>2. \A y \in TestTypes :
            /\ typed'[y] = typed[y] + 0 - (IF y = Type(b) THEN 1 ELSE 0)
            /\ typed'[y] <= TypeBudget[y]
      BY <1>e, Numbers
    <2>3. \A c \in Batches : opened'[c] = opened[c] + 0 - (IF c = b THEN closing ELSE 0)
      BY <1>e, <1>g, Numbers
    <2> QED
      BY <1>5, <2>1, <2>2, <2>3, Numbers
  <1>7. WorkerTo(b, w, new) /\ UNCHANGED <<order, batch>> /\ new \in WorkerRecs
    BY <1>1, <1>2
  <1>8. typed' \in [TestTypes -> Int] /\ opened' \in [Batches -> Int]
    BY <1>e
  <1>9. mark' \in [TestTypes -> [TestNodes -> Marks]] /\ \A y \in TestTypes : y # Type(b) => mark'[y] = mark[y]
    BY <1>n
  <1> QED
    BY <1>3, <1>4, <1>6, <1>7, <1>8, <1>9, WorkerOnly DEF q, v, x

LEMMA OpenKeeps ==
  ASSUME BatchIInv, NEW b \in Batches, NEW w \in Slots,
         NEW cached \in BOOLEAN, NEW created \in BOOLEAN, NEW listens \in BOOLEAN,
         openMCBEPacketConn(b, w, cached, created, listens)
  PROVE  BatchIInv'
  <1> DEFINE dialled == Node(b, w) \in order.sticky /\ cached
  <1>1. CASE ~(dialled \/ (created /\ listens))
    <2>1. worker[b][w].pc = "test" /\ Finish(b, w, FALSE, 0)
      BY <1>1 DEF openMCBEPacketConn
    <2>2. worker[b][w].pc \in Testing /\ Bit(worker[b][w].pc = "freshPing") = 0
      BY <2>1 DEF Testing, Bit
    <2> QED
      BY <2>1, <2>2, FinishKeeps
  <1>2. CASE dialled \/ (created /\ listens)
    <2> DEFINE q == batch[b]  v == worker[b]
    <2>1. PICK pc \in {"cachedPing", "freshPing"} : pc = IF dialled THEN "cachedPing" ELSE "freshPing"
      OBVIOUS
    <2> DEFINE new == [worker[b][w] EXCEPT !.pc = pc]  x == [v EXCEPT ![w] = new]
    <2>2. /\ v[w].pc = "test" /\ WorkerTo(b, w, new)
          /\ opened' = [opened EXCEPT ![b] = IF dialled THEN @ ELSE @ + 1]
          /\ UNCHANGED <<order, batch, global, typed, mark>>
      BY <1>2, <2>1 DEF openMCBEPacketConn
    <2>3. q \in BatchRecs /\ v \in Crews /\ Run(q, v) /\ v[w] \in WorkerRecs
      BY Here
    <2>4. new \in WorkerRecs /\ new.pc = pc /\ new.idx = v[w].idx
      BY <2>1, <2>3 DEF WorkerRecs, Busy, Testing
    <2>5. x \in Crews /\ x[w] = new /\ \A u \in Slots \ {w} : x[u] = v[u]
      BY <2>3, <2>4, CrewMoves
    <2>6. opened' = [opened EXCEPT ![b] = IF pc = "cachedPing" THEN opened[b] ELSE opened[b] + 1]
      BY <2>1, <2>2
    <2> HIDE DEF q, v, new, x
    <2>7. v[w].pc \in Busy /\ new.pc \in Busy /\ new.pc # "send"
      BY <2>1, <2>2, <2>4 DEF Busy, Testing
    <2>8. Run(q, x)
      BY <2>3, <2>4, <2>5, <2>7, RunGoesOn
    <2>9. \A known, m : Kept(q, v, known, m) => Kept(q, x, known, m)
      BY <2>3, <2>5, <2>7, KeptSame
    <2>10. /\ Bit(new.pc \in Testing \cup {"type"}) = 1 /\ Bit(v[w].pc \in Testing \cup {"type"}) = 1
           /\ \A y : Bit(new.pc \in Testing /\ Type(b) = y) = (IF y = Type(b) THEN 1 ELSE 0)
           /\ \A y : Bit(v[w].pc \in Testing /\ Type(b) = y) = (IF y = Type(b) THEN 1 ELSE 0)
           /\ \A c : Bit(c = b /\ new.pc = "freshPing") = (IF c = b THEN Bit(pc = "freshPing") ELSE 0)
           /\ \A c : Bit(c = b /\ v[w].pc = "freshPing") = 0
      BY <2>1, <2>2, <2>4 DEF Bit, Testing
    <2>11. PICK k \in {0, 1} : k = Bit(pc = "freshPing")
      BY DEF Bit
    <2>14. pc = "cachedPing" <=> k = 0
      BY <2>1, <2>11 DEF Bit
    <2>12. /\ opened' \in [Batches -> Int]
           /\ \A c \in Batches : opened'[c] = IF c = b THEN opened[c] + k ELSE opened[c]
      BY <2>6, <2>11, <2>14, Typed
    <2>13. /\ global' = global + Bit(new.pc \in Testing \cup {"type"}) - Bit(v[w].pc \in Testing \cup {"type"})
           /\ global' <= GlobalBudget
           /\ \A y \in TestTypes :
               /\ typed'[y] = typed[y] + Bit(new.pc \in Testing /\ Type(b) = y)
                                       - Bit(v[w].pc \in Testing /\ Type(b) = y)
               /\ typed'[y] <= TypeBudget[y]
           /\ \A c \in Batches : opened'[c] = opened[c] + Bit(c = b /\ new.pc = "freshPing")
                                                        - Bit(c = b /\ v[w].pc = "freshPing")
      <3>1. global' = global /\ typed' = typed
        BY <2>2
      <3>2. \A c \in Batches : opened'[c] = opened[c] + (IF c = b THEN k ELSE 0) - 0
        BY <2>11, <2>12, Numbers
      <3>3. \A y \in TestTypes : typed'[y] = typed[y] + (IF y = Type(b) THEN 1 ELSE 0) - (IF y = Type(b) THEN 1 ELSE 0)
        BY <3>1, Numbers
      <3> QED
        BY <2>10, <2>11, <3>1, <3>2, <3>3, Numbers
    <2>15. WorkerTo(b, w, new) /\ UNCHANGED <<order, batch, typed, mark>> /\ new \in WorkerRecs
      BY <2>2, <2>4
    <2>16. opened' \in [Batches -> Int]
      BY <2>12
    <2> QED
      BY <2>8, <2>9, <2>13, <2>15, <2>16, Typed, WorkerOnly DEF q, v, x
  <1> QED
    BY <1>1, <1>2

LEMMA TestsKeep ==
  ASSUME BatchIInv, NEW b \in Batches, NEW w \in Slots,
         \/ TestUDPUnknown(b, w)
         \/ \E ok \in BOOLEAN : TestHTTP(b, w, ok)
         \/ \E ok \in BOOLEAN : TestMCBEServer(b, w, ok)
  PROVE  BatchIInv'
  <1>1. CASE TestUDPUnknown(b, w)
    <2>1. worker[b][w].pc = "test" /\ Finish(b, w, FALSE, 0)
      BY <1>1 DEF TestUDPUnknown
    <2>2. worker[b][w].pc \in Testing /\ Bit(worker[b][w].pc = "freshPing") = 0
      BY <2>1 DEF Testing, Bit
    <2> QED
      BY <2>1, <2>2, FinishKeeps
  <1>2. CASE \E ok \in BOOLEAN : TestHTTP(b, w, ok)
    <2>1. PICK ok \in BOOLEAN : worker[b][w].pc = "test" /\ Finish(b, w, ok, 0)
      BY <1>2 DEF TestHTTP
    <2>2. worker[b][w].pc \in Testing /\ Bit(worker[b][w].pc = "freshPing") = 0
      BY <2>1 DEF Testing, Bit
    <2> QED
      BY <2>1, <2>2, FinishKeeps
  <1>3. CASE \E ok \in BOOLEAN : TestMCBEServer(b, w, ok)
    <2>1. PICK ok \in BOOLEAN : TestMCBEServer(b, w, ok)
      BY <1>3
    <2>2. worker[b][w].pc \in Testing /\ Finish(b, w, ok, Bit(worker[b][w].pc = "freshPing"))
      BY <2>1 DEF TestMCBEServer, Testing, Bit
    <2> QED
      BY <2>2, FinishKeeps
  <1> QED
    BY <1>1, <1>2, <1>3

\* A batch gets at least one worker.
LEMMA WideEnough ==
  ASSUME NEW n \in Nat \ {0}, NEW k \in Int, NEW y \in TestTypes
  PROVE  Concurrency(n, k, y) \in Nat /\ 1 <= Concurrency(n, k, y)
  <1>1. TypeBudget[y] \in Nat \ {0}
    BY BatchConstants
  <1> QED
    BY <1>1 DEF Concurrency, AtMost

LEMMA PermitsIdle ==
  ASSUME PermitsExact, UNCHANGED <<order, global, typed, opened>>,
         \A c \in Batches, w \in Slots :
            \/ worker'[c][w] = worker[c][w]
            \/ worker[c][w].pc \notin Testing \cup {"type"} /\ worker'[c][w].pc \notin Testing \cup {"type"}
  PROVE  PermitsExact'
  <1>1. \A c : Type(c)' = Type(c)
    BY DEF Type, Req
  <1>0. \A u \in Workers : u[1] \in Batches /\ u[2] \in Slots
    BY DEF Workers
  <1>2. GlobalHeld' = GlobalHeld
    BY <1>0 DEF GlobalHeld, At
  <1>3. \A y : TypeHeld(y)' = TypeHeld(y)
    BY <1>0, <1>1 DEF TypeHeld, At
  <1>4. \A c \in Batches : FreshHeld(c)' = FreshHeld(c)
    BY DEF FreshHeld, Testing
  <1>5. /\ global = Cardinality(GlobalHeld) /\ global <= GlobalBudget
        /\ \A y \in TestTypes : typed[y] = Cardinality(TypeHeld(y)) /\ typed[y] <= TypeBudget[y]
        /\ \A b \in Batches : opened[b] = Cardinality(FreshHeld(b))
    BY PermitsByHolders
  <1>6. /\ global' = Cardinality(GlobalHeld') /\ global' <= GlobalBudget
        /\ \A y \in TestTypes : typed'[y] = Cardinality(TypeHeld(y)') /\ typed'[y] <= TypeBudget[y]
        /\ \A b \in Batches : opened'[b] = Cardinality(FreshHeld(b)')
    BY <1>2, <1>3, <1>4, <1>5
  <1> QED
    BY <1>6 DEF PermitsExact, GlobalHeld, TypeHeld, FreshHeld

LEMMA RequestKeeps ==
  ASSUME BatchIInv, NEW b \in Batches, NEW writes \in BOOLEAN, BatchTestProxyOutbounds(b, writes)
  PROVE  BatchIInv'
  <1> DEFINE q == batch[b]  v == worker[b]  names == Names(Req(b).names)
             wide == Concurrency(Len(names), Req(b).width, Type(b))
             bad == names = <<>> \/ Type(b) \notin TestTypes
  <1>0. q \in BatchRecs /\ v \in Crews /\ Run(q, v) /\ Req(b) \in BatchRequests
    BY Here
  <1>1. q.pc = "idle" /\ UNCHANGED <<order, global, typed, opened, mark>>
    BY DEF BatchTestProxyOutbounds
  <1>2. names \in Seq(TestNodes) /\ Alike(names)
    BY <1>0, NamesSound DEF BatchRequests
  <1>t. order' \in [reqs : [Batches -> BatchRequests], sent : SUBSET Batches, known : SUBSET TestNodes,
                    sticky : SUBSET TestNodes, leaves : Nat]
    BY <1>1 DEF BatchIInv, BatchTypeOK
  <1>3. ASSUME bad \/ ~writes
        PROVE  BatchIInv'
    <2>1. PICK pc \in {"refused", "broken"} : pc = IF bad THEN "refused" ELSE "broken"
      OBVIOUS
    <2> DEFINE r == [batch[b] EXCEPT !.pc = pc]
    <2>2. BatchTo(b, r) /\ worker' = worker
      BY <1>3, <2>1 DEF BatchTestProxyOutbounds
    <2>3. /\ r \in BatchRecs /\ r.names = q.names /\ r.items = q.items /\ r.next = q.next /\ r.closed = q.closed
          /\ r.results = q.results /\ r.current = q.current /\ r.good = q.good /\ r.cancelled = q.cancelled
          /\ r.pc = pc
      BY <1>0, <2>1 DEF BatchRecs
    <2> HIDE DEF q, r, v
    <2>4. Run(r, v)
      BY <1>0, <2>1, <2>3, RunTurns
    <2>5. \A known, m : Kept(q, v, known, m) => Kept(r, v, known, m)
      BY <1>0, <2>3, KeptSame
    <2> QED
      BY <1>1, <1>t, <2>2, <2>3, <2>4, <2>5, BatchOnly DEF q, v
  <1>4. ASSUME ~bad, writes
        PROVE  BatchIInv'
    <2> DEFINE r == [batch[b] EXCEPT !.pc = "run", !.names = names, !.items = [i \in 1..Len(names) |-> "none"]]
               x == [w \in Slots |-> IF w <= wide THEN [NoWorker EXCEPT !.pc = "wait"] ELSE NoWorker]
    <2>1. BatchTo(b, r) /\ worker' = [worker EXCEPT ![b] = x]
      BY <1>4 DEF BatchTestProxyOutbounds
    <2>2. names # <<>> /\ Type(b) \in TestTypes
      BY <1>4
    <2>3. Len(names) \in Nat \ {0}
      BY <1>2, <2>2
    <2>4. 1 <= wide /\ wide \in Nat
      BY <1>0, <2>2, <2>3, WideEnough DEF BatchRequests
    <2> HIDE DEF names, wide
    <2>5. [i \in 1..Len(names) |-> "none"] \in Seq(Marks)
      BY <2>3 DEF Marks
    <2>6. /\ r \in BatchRecs /\ r.names = names /\ r.items = [i \in 1..Len(names) |-> "none"]
          /\ r.next = q.next /\ r.closed = q.closed
          /\ r.results = q.results /\ r.current = q.current /\ r.good = q.good /\ r.pc = "run"
      BY <1>0, <1>2, <2>5 DEF BatchRecs
    <2>7. /\ x \in Crews /\ \A w \in Slots : x[w].pc \in {"wait", "none"}
          /\ \E w \in Slots : x[w].pc = "wait"
      <3>1. x \in Crews /\ \A w \in Slots : x[w].pc = IF w <= wide THEN "wait" ELSE "none"
        BY DEF Crews, WorkerRecs, NoWorker
      <3>2. 1 \in Slots
        BY BatchConstants DEF Slots, TestTypes
      <3>3. x[1].pc = "wait"
        BY <2>4, <3>1, <3>2
      <3> QED
        BY <3>1, <3>2, <3>3
    <2>8. \A w \in Slots : v[w].pc = "none"
      BY <1>0, <1>1 DEF Run, Unbegun
    <2> HIDE DEF q, r, v, x
    <2>9. Run(r, x)
      BY <1>0, <1>1, <1>2, <2>2, <2>6, <2>7, RunBegins
    <2>10. ASSUME NEW known, NEW m
           PROVE  Kept(r, x, known, m)
      <3>1. r.results = <<>>
        BY <1>0, <1>1, <2>6 DEF Run, Unbegun
      <3>2. \A i \in 1 .. Len(r.items) : r.items[i] = "none"
        BY <2>3, <2>6
      <3>3. \A w \in Slots : x[w].pc # "send"
        BY <2>7
      <3> QED
        BY <3>1, <3>2, <3>3 DEF Kept
    <2>11. BatchesRun'
      BY <1>1, <2>1, <2>2, <2>9, <2>10, OneBatch DEF BatchTo
    <2>12. BatchTypeOK'
      BY <1>1, <2>1, <2>6, <2>7 DEF BatchIInv, BatchTypeOK, BatchTo
    <2>13. PermitsExact'
      <3>1. ASSUME NEW c \in Batches, NEW w \in Slots
            PROVE  \/ worker'[c][w] = worker[c][w]
                   \/ worker[c][w].pc \notin Testing \cup {"type"} /\ worker'[c][w].pc \notin Testing \cup {"type"}
        <4>1. worker'[c] = IF c = b THEN x ELSE worker[c]
          BY <2>1 DEF BatchIInv, BatchTypeOK
        <4>2. CASE c = b
          BY <2>7, <2>8, <4>1, <4>2 DEF Testing, v
        <4>3. CASE c # b
          BY <4>1, <4>3
        <4> QED
          BY <4>2, <4>3
      <3> QED
        BY <1>1, <3>1, PermitsIdle DEF BatchIInv
    <2> QED
      BY <2>11, <2>12, <2>13 DEF BatchIInv
  <1> QED
    BY <1>3, <1>4

-----------------------------------------------------------------------------

LEMMA BatchesBegin == BatchInit => BatchIInv
  <1> SUFFICES ASSUME BatchInit
               PROVE  BatchIInv
    OBVIOUS
  <1>1. NoBatch \in BatchRecs /\ NoWorker \in WorkerRecs
    BY DEF NoBatch, BatchRecs, NoWorker, WorkerRecs
  <1>2. [w \in Slots |-> NoWorker] \in Crews
    BY <1>1 DEF Crews
  <1>3. BatchTypeOK
    <2>1. order \in [reqs : [Batches -> BatchRequests], sent : SUBSET Batches, known : SUBSET TestNodes,
                     sticky : SUBSET TestNodes, leaves : Nat]
      BY BatchConstants DEF BatchInit
    <2> QED
      BY <1>1, <1>2, <2>1 DEF BatchInit, BatchTypeOK, Marks
  <1>4. \A c \in Batches, w \in Slots : worker[c][w].pc = "none"
    BY DEF BatchInit, NoWorker
  <1>5. PermitsExact
    <2>1. \A u \in Workers : worker[u[1]][u[2]].pc = "none"
      BY <1>4 DEF Workers
    <2>2. GlobalHeld = {} /\ \A y : TypeHeld(y) = {}
      BY <2>1 DEF GlobalHeld, TypeHeld, At, Testing
    <2>3. \A c \in Batches : FreshHeld(c) = {}
      BY <1>4 DEF FreshHeld
    <2>4. global = 0 /\ (\A y \in TestTypes : typed[y] = 0) /\ \A c \in Batches : opened[c] = 0
      BY DEF BatchInit
    <2>5. 0 <= GlobalBudget /\ \A y \in TestTypes : 0 <= TypeBudget[y]
      BY BatchConstants
    <2> QED
      BY <2>2, <2>3, <2>4, <2>5, FS_EmptySet, PermitsByHolders
  <1>6. ASSUME NEW b \in Batches
        PROVE  Run(batch[b], worker[b]) /\ batch[b].names = <<>>
    <2>1. PICK q \in BatchRecs : q = batch[b]
      BY <1>3 DEF BatchTypeOK
    <2>2. /\ q.pc = "idle" /\ q.names = <<>> /\ q.next = 0 /\ q.closed = FALSE /\ q.results = <<>> /\ q.items = <<>>
          /\ q.current = 0 /\ q.good = 0
      BY <2>1 DEF BatchInit, NoBatch
    <2>3. \A w \in Slots : worker[b][w].pc = "none"
      BY <1>4
    <2>4. {i \in 1 .. Len(q.items) : q.items[i] # "none"} = {} /\ {i \in 1 .. Len(q.items) : q.items[i] = "ok"} = {}
      BY <2>2
    <2>5. Tallied(q)
      BY <2>2, <2>4, FS_EmptySet DEF Tallied
    <2>6. Unbegun(q, worker[b]) /\ Settled(q, worker[b])
      BY <2>2, <2>3 DEF Unbegun, Settled
    <2>7. Placed(q, worker[b]) /\ NoneLost(q, worker[b])
      BY <2>2, <2>3 DEF Placed, NoneLost, Busy, Testing, Alike
    <2> QED
      BY <2>1, <2>2, <2>5, <2>6, <2>7 DEF Run
  <1> QED
    BY <1>3, <1>5, <1>6 DEF BatchIInv, BatchesRun

LEMMA BatchesGoOn == BatchIInv /\ [BatchNext]_batchVars => BatchIInv'
  <1> SUFFICES ASSUME BatchIInv, [BatchNext]_batchVars
               PROVE  BatchIInv'
    OBVIOUS
  <1>1. CASE UNCHANGED batchVars
    <2>1. PermitsExact'
      BY <1>1, PermitsStay DEF BatchIInv, batchVars
    <2>2. BatchTypeOK'
      BY <1>1 DEF BatchIInv, BatchTypeOK, batchVars
    <2>3. BatchesRun'
      BY <1>1 DEF BatchIInv, BatchesRun, batchVars, Type, Req, Alone
    <2> QED
      BY <2>1, <2>2, <2>3 DEF BatchIInv
  <1>2. ASSUME NEW b \in Batches, ClientLeaves(b)
        PROVE  BatchIInv'
    BY <1>2, ClientLeavesKeeps
  <1>3. ASSUME NEW b \in Batches, BatchStep(b)
        PROVE  BatchIInv'
    <2>1. CASE \E writes \in BOOLEAN : BatchTestProxyOutbounds(b, writes)
      BY <2>1, RequestKeeps
    <2>2. CASE ContextEnds(b)
      BY <2>2, ContextEndsKeeps
    <2>3. CASE CloseJobs(b)
      BY <2>3, CloseJobsKeeps
    <2>4. CASE Respond(b)
      BY <2>4, RespondKeeps
    <2>5. CASE \E writes \in BOOLEAN : Collect(b, writes)
      BY <2>5, CollectKeeps
    <2>6. ASSUME NEW w \in Slots, TakeJob(b, w)
          PROVE  BatchIInv'
      BY <2>6, TakeJobKeeps
    <2>7. ASSUME NEW w \in Slots, AcquireGlobal(b, w)
          PROVE  BatchIInv'
      BY <2>7, AcquireGlobalKeeps
    <2>8. ASSUME NEW w \in Slots, AcquireType(b, w)
          PROVE  BatchIInv'
      BY <2>8, AcquireTypeKeeps
    <2>9. ASSUME NEW w \in Slots, WorkerLeaves(b, w)
          PROVE  BatchIInv'
      BY <2>9, WorkerLeavesKeeps
    <2>10. ASSUME NEW w \in Slots, SendResult(b, w)
           PROVE  BatchIInv'
      BY <2>10, SendResultKeeps
    <2>11. ASSUME NEW w \in Slots,
                  \/ TestUDPUnknown(b, w)
                  \/ \E ok \in BOOLEAN : TestHTTP(b, w, ok)
                  \/ \E ok \in BOOLEAN : TestMCBEServer(b, w, ok)
           PROVE  BatchIInv'
      BY <2>11, TestsKeep
    <2>12. ASSUME NEW w \in Slots,
                  \E cached, created, listens \in BOOLEAN : openMCBEPacketConn(b, w, cached, created, listens)
           PROVE  BatchIInv'
      BY <2>12, OpenKeeps
    <2> QED
      BY <1>3, <2>1, <2>2, <2>3, <2>4, <2>5, <2>6, <2>7, <2>8, <2>9, <2>10, <2>11, <2>12 DEF BatchStep
  <1> QED
    BY <1>1, <1>2, <1>3 DEF BatchNext

LEMMA BatchesAnswer == BatchIInv => BatchInv
  <1> SUFFICES ASSUME BatchIInv
               PROVE  BatchInv
    OBVIOUS
  <1>1. PermitsExact
    BY DEF BatchIInv
  <1>2. ASSUME NEW b \in Batches, batch[b].pc = "done"
        PROVE  /\ batch[b].current = Len(batch[b].names)
               /\ batch[b].good = Cardinality({i \in DOMAIN batch[b].items : batch[b].items[i] = "ok"})
               /\ \A i \in DOMAIN batch[b].items :
                     /\ batch[b].items[i] # "none"
                     /\ \/ batch[b].names[i] \notin order.known
                        \/ \E c \in Batches \ {b} : Type(c) = Type(b)
                        \/ mark[Type(b)][batch[b].names[i]] = batch[b].items[i]
                        \/ /\ Type(b) # "udp" /\ batch[b].items[i] = "ok"
                           /\ mark[Type(b)][batch[b].names[i]] = "bad"
    <2> DEFINE q == batch[b]
    <2>1. q \in BatchRecs /\ Run(q, worker[b])
      BY Here
    <2>2. q.names # <<>> /\ Alone(b) => Kept(q, worker[b], order.known, Meant(Type(b), mark[Type(b)]))
      BY DEF BatchIInv, BatchesRun
    <2>3. DOMAIN q.items = 1 .. Len(q.items) /\ Len(q.items) = Len(q.names) /\ q.names \in Seq(TestNodes)
      BY <2>1 DEF BatchRecs, Run, Placed
    <2> HIDE DEF q
    <2>4. q.current = Len(q.names)
      BY <1>2, <2>1 DEF Run, Settled, q
    <2>5. \A i \in 1 .. Len(q.items) : q.items[i] # "none"
      BY <2>1, <2>3, <2>4, AllCount DEF Run
    <2>6. q.good = Cardinality({i \in 1 .. Len(q.items) : q.items[i] = "ok"})
      BY <2>1 DEF Run, Tallied
    <2>7. ASSUME NEW i \in 1 .. Len(q.items), Alone(b), q.names[i] \in order.known
          PROVE  \/ mark[Type(b)][q.names[i]] = q.items[i]
                 \/ Type(b) # "udp" /\ q.items[i] = "ok" /\ mark[Type(b)][q.names[i]] = "bad"
      <3>1. q.names # <<>> /\ q.names[i] \in TestNodes
        BY <2>3
      <3>2. q.items[i] \in Meant(Type(b), mark[Type(b)])[q.names[i]]
        BY <2>2, <2>5, <2>7, <3>1 DEF Kept, Says
      <3> QED
        BY <3>1, <3>2 DEF Meant
    <2> QED
      BY <2>3, <2>4, <2>5, <2>6, <2>7 DEF q, Alone
  <1>3. ResponseComplete
    BY <1>2 DEF ResponseComplete
  <1> QED
    BY <1>1, <1>3 DEF BatchInv

\* However many batches are asked for at once, whatever they name and whatever their
\* budgets: executeBatchProxyTests leaves no token of a limiter and no outbound of a test
\* behind and takes none twice, and an answer that is not an error has one result for
\* every name, which is what the configuration keeps of the node but for a success within a
\* millisecond.
THEOREM BatchesHold == BatchSpec => []BatchInv
  <1>1. BatchSpec => []BatchIInv
    BY BatchesBegin, BatchesGoOn, PTL DEF BatchSpec
  <1> QED
    BY <1>1, BatchesAnswer, PTL
=============================================================================
