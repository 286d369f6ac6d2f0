----------------------------- MODULE BatchTests -----------------------------
(* The batch tests of the proxy outbounds an API request asks for          *)
(* (BatchTestProxyOutbounds): a producer, workers that share two limiters  *)
(* with the workers of every other batch, a buffered channel of results    *)
(* and the handler that collects them while the client may leave.          *)
EXTENDS Integers, Sequences, FiniteSets, SequencesExt

CONSTANTS
    Batches,       \* requests
    TestNodes,     \* names of proxy outbounds, and of one that is not configured
    Blank,         \* a name that is empty when trimmed
    BatchPlans,    \* what the requests ask for and what may go wrong
    GlobalBudget,  \* defaultBatchProxyTestGlobalBudget
    TypeBudget     \* defaultBatchProxyTestTypeBudget, of a type

TestTypes == {"tcp", "http", "udp"}

\* What a request may ask for; anything may be given as its type.
BatchRequests ==
    [type : STRING, names : Seq(TestNodes \cup {Blank}), width : Int, stream : BOOLEAN]

ASSUME BatchConstants ==
    /\ GlobalBudget \in Nat \ {0} /\ TypeBudget \in [TestTypes -> Nat \ {0}]
    /\ Blank \notin TestNodes /\ IsFiniteSet(Batches)
    /\ BatchPlans \subseteq [reqs : [Batches -> BatchRequests], sent : SUBSET Batches, known : SUBSET TestNodes,
                             sticky : SUBSET TestNodes, leaves : Nat]

VARIABLES
    order,    \* the requests, the configured outbounds, how many clients may leave
    batch,    \* executeBatchProxyTests of a request
    worker,   \* its workers
    global,   \* batchProxyTestGlobalLimiter: the tokens in it
    typed,    \* batchProxyTest...Limiter of a type
    opened,   \* outbounds the tests of a batch created and have not closed
    mark      \* what the configuration says of a node for a type of test

batchVars == <<order, batch, worker, global, typed, opened, mark>>

\* "next": jobs handed over; "closed": the channel of jobs is closed.
NoBatch == [pc |-> "idle", names |-> <<>>, next |-> 0, closed |-> FALSE, results |-> <<>>, items |-> <<>>,
            current |-> 0, good |-> 0, cancelled |-> FALSE, left |-> FALSE]
NoWorker == [pc |-> "none", idx |-> 0, ok |-> FALSE]

Req(b) == order.reqs[b]
Type(b) == Req(b).type

\* A batch has no more workers than its type has tokens.
Slots == UNION {1..TypeBudget[y] : y \in TestTypes}

BatchTo(b, new) == batch' = [batch EXCEPT ![b] = new]
WorkerTo(b, w, new) == worker' = [worker EXCEPT ![b][w] = new]

\* normalizeBatchProxyTestNames: no blanks, the first of equal names.
NamesUpTo(raw) ==
    LET named[i \in 0..Len(raw)] ==
            IF i = 0 THEN <<>>
            ELSE IF raw[i] = Blank \/ raw[i] \in ToSet(named[i - 1]) THEN named[i - 1]
            ELSE Append(named[i - 1], raw[i])
    IN named

Names(raw) == NamesUpTo(raw)[Len(raw)]

AtMost(a, b) == IF a < b THEN a ELSE b

\* clampBatchProxyTestConcurrency.
Concurrency(total, requested, type) ==
    IF total <= 0 THEN 1
    ELSE AtMost(AtMost(IF requested <= 0 THEN TypeBudget[type] ELSE requested, TypeBudget[type]), total)

Width(b) == Concurrency(Len(batch[b].names), Req(b).width, Type(b))

-----------------------------------------------------------------------------
(* The request. *)

\* BatchTestProxyOutbounds: a bad request is refused, a stream that cannot be begun ends.
BatchTestProxyOutbounds(b, writes) ==
    LET names == Names(Req(b).names)
        wide == Concurrency(Len(names), Req(b).width, Type(b))
    IN /\ batch[b].pc = "idle"
       /\ ~writes => Req(b).stream /\ batch[b].left
       /\ IF names = <<>> \/ Type(b) \notin TestTypes THEN BatchTo(b, [batch[b] EXCEPT !.pc = "refused"])
          ELSE IF ~writes THEN BatchTo(b, [batch[b] EXCEPT !.pc = "broken"])
          ELSE BatchTo(b, [batch[b] EXCEPT !.pc = "run", !.names = names,
                                                !.items = [i \in 1..Len(names) |-> "none"]])
       /\ worker' = IF names = <<>> \/ Type(b) \notin TestTypes \/ ~writes THEN worker
                    ELSE [worker EXCEPT ![b] = [w \in Slots |->
                             IF w <= wide THEN [NoWorker EXCEPT !.pc = "wait"] ELSE NoWorker]]
       /\ UNCHANGED <<order, global, typed, opened, mark>>

\* The client goes away; the request's context is cancelled some time later.
ClientLeaves(b) ==
    /\ order.leaves > 0 /\ ~batch[b].left /\ batch[b].pc \in {"idle", "run"}
    /\ order' = [order EXCEPT !.leaves = @ - 1]
    /\ BatchTo(b, [batch[b] EXCEPT !.left = TRUE])
    /\ UNCHANGED <<worker, global, typed, opened, mark>>

ContextEnds(b) ==
    /\ batch[b].left /\ ~batch[b].cancelled /\ batch[b].pc = "run"
    /\ BatchTo(b, [batch[b] EXCEPT !.cancelled = TRUE])
    /\ UNCHANGED <<order, worker, global, typed, opened, mark>>

-----------------------------------------------------------------------------
(* The producer and the workers. *)

\* The producer hands over a job (the channel has no buffer).
TakeJob(b, w) ==
    /\ worker[b][w].pc = "wait" /\ ~batch[b].closed /\ batch[b].next < Len(batch[b].names)
    /\ BatchTo(b, [batch[b] EXCEPT !.next = @ + 1])
    /\ WorkerTo(b, w, [NoWorker EXCEPT !.pc = "global", !.idx = batch[b].next + 1])
    /\ UNCHANGED <<order, global, typed, opened, mark>>

CloseJobs(b) ==
    /\ batch[b].names # <<>> /\ ~batch[b].closed
    /\ batch[b].next = Len(batch[b].names) \/ batch[b].cancelled
    /\ BatchTo(b, [batch[b] EXCEPT !.closed = TRUE])
    /\ UNCHANGED <<order, worker, global, typed, opened, mark>>

\* acquireBatchProxyTestPermit: the global token, then the one of the type.
AcquireGlobal(b, w) ==
    /\ worker[b][w].pc = "global" /\ global < GlobalBudget
    /\ global' = global + 1
    /\ WorkerTo(b, w, [worker[b][w] EXCEPT !.pc = "type"])
    /\ UNCHANGED <<order, batch, typed, opened, mark>>

AcquireType(b, w) ==
    /\ worker[b][w].pc = "type" /\ typed[Type(b)] < TypeBudget[Type(b)]
    /\ typed' = [typed EXCEPT ![Type(b)] = @ + 1]
    /\ WorkerTo(b, w, [worker[b][w] EXCEPT !.pc = "test"])
    /\ UNCHANGED <<order, batch, global, opened, mark>>

\* A worker ends: nothing left to do, or the context ended while it waited for a job,
\* for a token (the global one is given back) or for room in the results.
WorkerLeavesWithToken(b, w) ==
    /\ \/ worker[b][w].pc = "wait" /\ (batch[b].closed \/ batch[b].cancelled)
       \/ worker[b][w].pc \in {"global", "type", "send"} /\ batch[b].cancelled
    /\ WorkerTo(b, w, [NoWorker EXCEPT !.pc = "gone"])
    /\ UNCHANGED <<order, batch, global, typed, opened, mark>>

WorkerStaysToSend(b, w) ==
    /\ \/ worker[b][w].pc = "wait" /\ (batch[b].closed \/ batch[b].cancelled)
       \/ worker[b][w].pc \in {"global", "type"} /\ batch[b].cancelled
    /\ WorkerTo(b, w, [NoWorker EXCEPT !.pc = "gone"])
    /\ global' = IF worker[b][w].pc = "type" THEN global - 1 ELSE global
    /\ UNCHANGED <<order, batch, typed, opened, mark>>

WorkerLeaves(b, w) ==
    /\ \/ worker[b][w].pc = "wait" /\ (batch[b].closed \/ batch[b].cancelled)
       \/ worker[b][w].pc \in {"global", "type", "send"} /\ batch[b].cancelled
    /\ WorkerTo(b, w, [NoWorker EXCEPT !.pc = "gone"])
    /\ global' = IF worker[b][w].pc = "type" THEN global - 1 ELSE global
    /\ UNCHANGED <<order, batch, typed, opened, mark>>

-----------------------------------------------------------------------------
(* One test. *)

Node(b, w) == batch[b].names[worker[b][w].idx]

\* What the test of a node may give: nothing of a node that is not configured. A test
\* that is skipped because the ping failed, which depends on the protocol, or that the
\* context ended fails as any other may.
Outcomes(b, w) == IF Node(b, w) \in order.known THEN BOOLEAN ELSE {FALSE}

\* The result goes into the node's configuration and history, failures as well. A latency
\* is kept in milliseconds and 0 stands for a failure, so that a success that took less
\* than one leaves the mark of a failure.
Marked(b, w, ok, instant) ==
    IF Node(b, w) \in order.known
    THEN [mark EXCEPT ![Type(b)][Node(b, w)] = IF ok /\ ~(instant /\ Type(b) # "udp") THEN "ok" ELSE "bad"]
    ELSE mark

\* releasePermit: both tokens.
Finish(b, w, ok, closing) ==
    /\ WorkerTo(b, w, [worker[b][w] EXCEPT !.pc = "send", !.ok = ok])
    /\ global' = global - 1
    /\ typed' = [typed EXCEPT ![Type(b)] = @ - 1]
    /\ opened' = [opened EXCEPT ![b] = @ - closing]
    /\ \E instant \in BOOLEAN : mark' = Marked(b, w, ok, instant)
    /\ UNCHANGED <<order, batch>>

\* executeTCPTest and executeBatchHTTPTest, which close the dialer they created.
TestHTTP(b, w, ok) ==
    /\ worker[b][w].pc = "test" /\ Type(b) # "udp"
    /\ ok \in Outcomes(b, w)
    /\ Finish(b, w, ok, 0)

\* openMCBEPacketConn: a node of the cached kind is dialled through the manager first;
\* "fresh" when an outbound was created for the test. It is closed again when it gives
\* no packet connection.
OpenKeepsFailed(b, w, cached, created, listens) ==
    LET dialled == Node(b, w) \in order.sticky /\ cached
    IN /\ worker[b][w].pc = "test" /\ Type(b) = "udp" /\ Node(b, w) \in order.known
       /\ IF dialled \/ (created /\ listens)
          THEN /\ WorkerTo(b, w, [worker[b][w] EXCEPT !.pc = IF dialled THEN "cachedPing" ELSE "freshPing"])
               /\ opened' = [opened EXCEPT ![b] = IF dialled THEN @ ELSE @ + 1]
               /\ UNCHANGED <<order, batch, global, typed, mark>>
          ELSE Finish(b, w, FALSE, IF created THEN -1 ELSE 0)

openMCBEPacketConn(b, w, cached, created, listens) ==
    LET dialled == Node(b, w) \in order.sticky /\ cached
    IN /\ worker[b][w].pc = "test" /\ Type(b) = "udp" /\ Node(b, w) \in order.known
       /\ IF dialled \/ (created /\ listens)
          THEN /\ WorkerTo(b, w, [worker[b][w] EXCEPT !.pc = IF dialled THEN "cachedPing" ELSE "freshPing"])
               /\ opened' = [opened EXCEPT ![b] = IF dialled THEN @ ELSE @ + 1]
               /\ UNCHANGED <<order, batch, global, typed, mark>>
          ELSE Finish(b, w, FALSE, 0)

\* executeBatchUDPTest of a node that is not configured.
TestUDPUnknown(b, w) ==
    /\ worker[b][w].pc = "test" /\ Type(b) = "udp" /\ Node(b, w) \notin order.known
    /\ Finish(b, w, FALSE, 0)

\* testMCBEServer: the ping, of a cached kind a second one whose failure is ignored,
\* and the deferred cleanup.
TestMCBEServer(b, w, ok) ==
    /\ worker[b][w].pc \in {"cachedPing", "freshPing"}
    /\ ok \in Outcomes(b, w)
    /\ Finish(b, w, ok, IF worker[b][w].pc = "freshPing" THEN 1 ELSE 0)

SendResult(b, w) ==
    /\ worker[b][w].pc = "send" /\ Len(batch[b].results) < Width(b)
    /\ BatchTo(b, [batch[b] EXCEPT !.results = Append(@, [idx |-> worker[b][w].idx, ok |-> worker[b][w].ok])])
    /\ WorkerTo(b, w, [NoWorker EXCEPT !.pc = "wait"])
    /\ UNCHANGED <<order, global, typed, opened, mark>>

-----------------------------------------------------------------------------
(* The collector, which is the handler. *)

\* A result is counted, and streamed when the client asked for that; a failed write
\* cancels the batch and ends it.
Collect(b, writes) ==
    LET res == Head(batch[b].results)
    IN /\ batch[b].pc = "run" /\ batch[b].results # <<>>
       /\ ~writes => Req(b).stream /\ batch[b].left
       /\ BatchTo(b, [batch[b] EXCEPT !.results = Tail(@), !.items[res.idx] = IF res.ok THEN "ok" ELSE "bad",
                          !.current = @ + 1, !.good = IF res.ok THEN @ + 1 ELSE @,
                          !.pc = IF writes THEN "run" ELSE "broken",
                          !.cancelled = batch[b].cancelled \/ ~writes])
       /\ UNCHANGED <<order, worker, global, typed, opened, mark>>

\* The results are closed when the workers are gone. A batch that was cancelled before
\* it was complete is an error.
AnswerAlways(b) == "done"

Answer(b) ==
    IF batch[b].cancelled /\ batch[b].current < Len(batch[b].names) THEN "error" ELSE "done"

Respond(b) ==
    /\ batch[b].pc = "run" /\ batch[b].results = <<>>
    /\ \A w \in Slots : worker[b][w].pc \in {"none", "gone"}
    /\ BatchTo(b, [batch[b] EXCEPT !.pc = Answer(b), !.cancelled = TRUE])
    /\ UNCHANGED <<order, worker, global, typed, opened, mark>>

-----------------------------------------------------------------------------

BatchInit ==
    /\ order \in BatchPlans
    /\ batch = [b \in Batches |-> NoBatch]
    /\ worker = [b \in Batches |-> [w \in Slots |-> NoWorker]]
    /\ global = 0 /\ typed = [y \in TestTypes |-> 0]
    /\ opened = [b \in Batches |-> 0]
    /\ mark = [y \in TestTypes |-> [n \in TestNodes |-> "none"]]

\* The goroutines of a request: everything but the client.
BatchStep(b) ==
    \/ b \in order.sent /\ \E writes \in BOOLEAN : BatchTestProxyOutbounds(b, writes)
    \/ ContextEnds(b) \/ CloseJobs(b) \/ Respond(b)
    \/ \E writes \in BOOLEAN : Collect(b, writes)
    \/ \E w \in Slots :
          \/ TakeJob(b, w) \/ AcquireGlobal(b, w) \/ AcquireType(b, w) \/ WorkerLeaves(b, w)
          \/ SendResult(b, w) \/ TestUDPUnknown(b, w)
          \/ \E ok \in BOOLEAN : TestHTTP(b, w, ok)
          \/ \E cached, created, listens \in BOOLEAN : openMCBEPacketConn(b, w, cached, created, listens)
          \/ \E ok \in BOOLEAN : TestMCBEServer(b, w, ok)

BatchNext == \E b \in Batches : BatchStep(b) \/ ClientLeaves(b)

BatchSpec == BatchInit /\ [][BatchNext]_batchVars

BatchFairness == \A b \in Batches : WF_batchVars(BatchStep(b))

-----------------------------------------------------------------------------
(* Properties. *)

Workers == Batches \X Slots
At(u, pcs) == worker[u[1]][u[2]].pc \in pcs
Testing == {"test", "cachedPing", "freshPing"}

\* However batches overlap and are aborted, the limiters hold one token for each test
\* under way (and one for each worker that waits for its type), never more than the
\* budgets, and a test's own outbound is open exactly while it pings through it.
PermitsExact ==
    /\ global = Cardinality({u \in Workers : At(u, Testing \cup {"type"})}) /\ global <= GlobalBudget
    /\ \A y \in TestTypes :
          /\ typed[y] = Cardinality({u \in Workers : At(u, Testing) /\ Type(u[1]) = y})
          /\ typed[y] <= TypeBudget[y]
    /\ \A b \in Batches : opened[b] = Cardinality({w \in Slots : worker[b][w].pc = "freshPing"})

\* A batch that is answered as done has exactly one result for every name it was asked
\* about, however its workers and its client ended, and what it says of a node is what
\* the configuration keeps, unless another batch of the type tested the node too; a
\* success that took less than a millisecond is kept as a failure.
ResponseComplete ==
    \A b \in Batches : batch[b].pc = "done" =>
        /\ batch[b].current = Len(batch[b].names)
        /\ batch[b].good = Cardinality({i \in DOMAIN batch[b].items : batch[b].items[i] = "ok"})
        /\ \A i \in DOMAIN batch[b].items :
              /\ batch[b].items[i] # "none"
              /\ \/ batch[b].names[i] \notin order.known
                 \/ \E c \in Batches \ {b} : Type(c) = Type(b)
                 \/ mark[Type(b)][batch[b].names[i]] = batch[b].items[i]
                 \/ Type(b) # "udp" /\ batch[b].items[i] = "ok" /\ mark[Type(b)][batch[b].names[i]] = "bad"

\* Every batch is answered or given up, and none of its goroutines stays behind, waiting
\* for a token, a job or for somebody to take its result.
BatchEnds ==
    []<>(\A b \in order.sent :
            /\ batch[b].pc \in {"refused", "broken", "error", "done"}
            /\ \A w \in Slots : worker[b][w].pc \in {"none", "gone"})

\* Every permit is held by a worker that runs, and an answer is complete.
BatchInv == PermitsExact /\ ResponseComplete
=============================================================================
