---------------------------- MODULE Subscriptions ----------------------------
(***************************************************************************)
(* Subscriptions and the outbounds they bring: the two configuration        *)
(* managers (internal/config), the update service and the scheduler         *)
(* (internal/subscription), the API handlers, the reload after a change of  *)
(* the file and the cascade to the servers (internal/proxy).                *)
(*                                                                         *)
(* The outbounds exist twice: conf is the configuration manager's map,      *)
(* saved to file on every change, rt the map the proxies dial through.      *)
(* Every request is a goroutine that takes the locks of the two maps one    *)
(* after the other; a job below is such a request and each of its steps one *)
(* critical section.  Job Scheduler is the scheduler.                       *)
(***************************************************************************)
EXTENDS Naturals, Sequences, FiniteSets, SequencesExt

CONSTANTS
    Subs,        \* subscription ids
    Bases,       \* the names entries would like to have
    Keys,        \* what tells the nodes of a subscription apart
    Endings,     \* bound: the numbers a name may end in, in the order they are tried
    Contents,    \* what a fetch can bring: sequences of [key, base]
    Handlers,    \* requests, as numbers from 1
    Plans,       \* what a behaviour begins with: PlanOK
    MaxTime      \* bound: half days the clock advances

VARIABLES
    subs,        \* subscription id -> its entry, or NoSub
    conf,        \* ProxyOutboundConfigManager.outbounds: name -> node, or NoNode
    file,        \* the saved copy of conf
    rt,          \* outboundManagerImpl.outbounds
    server,      \* what a server's proxy_outbound refers to
    jobs,        \* the requests
    now,         \* the clock: 2d is the morning of day d, 2d + 1 its update time
    sessions,    \* a session or a proxy port connection is active
    toggles,     \* how often sessions may still change
    faults,      \* saves that may still fail
    astray,      \* requests overlapped or a save failed since the last clean reload
    strayed,     \* ... or at any time
    disturbed,   \* updates whose nodes changed while they prepared the next ones
    split,       \* subscriptions deleted or renamed under a running update
    loose,       \* names and groups that went away without a cascade
    tried        \* subscription id -> when the scheduler last tried it; 0 again once an
                 \* update of all, begun before, has written its earlier time back

subVars == <<subs, conf, file, rt, server, jobs, now, sessions, toggles, faults,
             astray, strayed, disturbed, split, loose, tried>>

\* No text.
Nothing == ""

NoSub == [rev |-> 0, on |-> FALSE, mode |-> "off", last |-> 0, err |-> FALSE]
NoNode == [sub |-> "absent", key |-> Nothing, tested |-> FALSE, blocked |-> FALSE]
Manual(k) == [sub |-> "manual", key |-> k, tested |-> FALSE, blocked |-> FALSE]

Tags == Subs \cup {Nothing} \cup {Endings[i] : i \in DOMAIN Endings}
OutNames == Bases \X Tags
NoName == <<Nothing, Nothing>>

Group(g) == <<"@", g>>
Direct == [kind |-> "direct", names |-> {}, group |-> Nothing]

Scheduler == 0
JobIds == {Scheduler} \cup Handlers

Idle == [op |-> "none", pc |-> "done", sid |-> Nothing, to |-> Nothing, mode |-> "off",
         name |-> NoName, as |-> NoName, copy |-> NoSub, queue |-> <<>>, content |-> <<>>,
         existing |-> {}, next |-> <<>>, todo |-> {}, err |-> FALSE, at |-> 0, node |-> NoNode,
         group |-> Nothing, ref |-> Direct]

Modes == {"off", "daily", "interval"}
Operations == {"none", "auto", "now", "all", "create", "edit", "delete", "add", "change", "remove", "block",
        "pick", "reload", "test"}
Nodes == [sub : Subs \cup {"manual", "absent"}, key : Keys \cup {Nothing, "typed"}, tested : BOOLEAN,
          blocked : BOOLEAN]
Maps == [OutNames -> Nodes]
SubEntries == [rev : Nat, on : BOOLEAN, mode : Modes, last : 0 .. MaxTime, err : BOOLEAN]
Refs == {Direct} \cup [kind : {"nodes"}, names : SUBSET OutNames, group : {Nothing}]
              \cup [kind : {"group"}, names : {{}}, group : Subs \cup {"manual"}]

\* A request that has not started.
Request(op, s) == [Idle EXCEPT !.op = op, !.pc = "ready", !.sid = s, !.to = s]

NamesOf(m) == {n \in OutNames : m[n] # NoNode}
OfSub(m, s) == {n \in OutNames : m[n].sub = s}

\* The requests, the subscriptions and the outbounds that a behaviour begins with:
\* no request has started, the outbounds are those of the subscriptions and the
\* user's own, and the server refers to what there is.
OfEntry == {"now", "create", "edit", "delete"}
OfNode == {"add", "change", "remove", "block", "pick", "reload", "test"}

RequestOK(r) ==
    /\ r.op \in Operations \ {"auto"} /\ r.pc \in {"ready", "done"} /\ r.mode \in Modes
    /\ r.sid \in Subs \cup {Nothing} /\ r.to \in Subs \cup {Nothing}
    /\ r.name \in OutNames \cup {NoName} /\ r.as \in OutNames \cup {NoName}
    /\ r.op \in OfEntry => r.sid \in Subs /\ r.to \in Subs
    /\ r.op \in OfNode => r.name \in OutNames
    /\ r.op = "change" => r.as \in OutNames
    /\ r = [Idle EXCEPT !.op = r.op, !.pc = r.pc, !.sid = r.sid, !.to = r.to, !.mode = r.mode,
                        !.name = r.name, !.as = r.as]

PlanOK(p) ==
    /\ \A j \in Handlers : RequestOK(p.jobs[j])
    /\ p.auto \in {"ready", "done"}
    /\ p.subs \in [Subs -> SubEntries] /\ \A s \in Subs : p.subs[s] = NoSub \/ p.subs[s].rev > 0
    /\ p.conf \in Maps
    /\ \A n \in OutNames : /\ p.conf[n].sub = "absent" => p.conf[n] = NoNode
                           /\ p.conf[n].sub \in Subs => p.subs[p.conf[n].sub] # NoSub
    /\ p.server \in Refs /\ p.server.names \subseteq NamesOf(p.conf)
    /\ p.server.kind = "group" => OfSub(p.conf, p.server.group) # {}
    /\ p.now \in 0 .. MaxTime /\ p.toggles \in Nat /\ p.faults \in Nat

ASSUME SubConstants ==
    /\ IsFiniteSet(Subs) /\ IsFiniteSet(Bases) /\ MaxTime \in Nat
    /\ Endings \in Seq(Range(Endings)) /\ Contents \subseteq Seq([key : Keys, base : Bases])
    /\ Handlers \subseteq Nat \ {Scheduler}
    /\ Subs \cap {"manual", "absent", Nothing} = {} /\ Nothing \notin Bases
    /\ \A p \in Plans : PlanOK(p)

\* The nodes of m with these names.
AsItems(m, names) == {[name |-> n, node |-> m[n]] : n \in names}

Running(r) == r.pc \notin {"ready", "done"}
Busy(j) == Running(jobs[j])
Quiet == \A j \in JobIds : ~Busy(j)

To(j, r) == jobs' = [jobs EXCEPT ![j] = r]
Goto(j, pc) == To(j, [jobs[j] EXCEPT !.pc = pc])
Fails(j, pc) == To(j, [jobs[j] EXCEPT !.pc = pc, !.err = TRUE])
End(j) == To(j, [jobs[j] EXCEPT !.pc = "done", !.next = <<>>, !.todo = {}, !.existing = {},
                                !.err = FALSE])

-----------------------------------------------------------------------------
(* The subscription manager (proxy_subscription_manager.go).  A change is    *)
(* made in memory and then saved; its file is not read again while the       *)
(* process runs, so that a save that fails shows only where the caller does  *)
(* something else on an error, in PersistAttempt.                            *)

\* UpdateSubscription: the entry is replaced whole by the caller's copy.
Stored(s, to, copy) ==
    [x \in Subs |-> IF x = to THEN copy ELSE IF x = s THEN NoSub ELSE subs[x]]

CanStore(s, to) == subs[s] # NoSub /\ (to # s => subs[to] = NoSub)

AddSubscription(s, entry) ==
    subs' = IF subs[s] = NoSub THEN [subs EXCEPT ![s] = entry] ELSE subs

-----------------------------------------------------------------------------
(* The outbound configuration manager (proxy_outbound_manager.go): every     *)
(* change is made in memory and then saved; a failed save is reported and    *)
(* the change stays.                                                         *)

SaveWorks(m) == conf' = m /\ file' = m /\ UNCHANGED faults

SaveFails(m) == faults > 0 /\ faults' = faults - 1 /\ conf' = m /\ UNCHANGED file

\* ReplaceSubscriptionOutbounds refuses a name that another outbound has.
ReplaceChecks(s, next) ==
    \A i \in DOMAIN next : conf[next[i].name].sub \in {s, "absent"}

Replaced(s, next) ==
    [n \in OutNames |->
        IF \E i \in DOMAIN next : next[i].name = n
          THEN (CHOOSE x \in {next[i] : i \in DOMAIN next} : x.name = n).node
          ELSE IF conf[n].sub = s THEN NoNode ELSE conf[n]]

\* UpdateOutbound moves the entry to its new name, whatever was there.
Renamed(m, n, to, node) == [m EXCEPT ![n] = NoNode, ![to] = node]

-----------------------------------------------------------------------------
(* The subscription service (service.go). *)

\* uniqueOutboundName: the name itself, with the subscription's, with a number.
UniqueOutboundName(base, s, used) ==
    LET candidates == << <<base, Nothing>>, <<base, s>> >> \o [i \in DOMAIN Endings |-> <<base, Endings[i]>>]
        free == {i \in DOMAIN candidates : candidates[i] \notin used}
    IN  IF free = {} THEN NoName ELSE candidates[CHOOSE i \in free : \A k \in free : i <= k]

\* seenSource: a second entry of the same connection is passed over.
First(c, i) == \A k \in 1 .. i - 1 : c[k].key # c[i].key

\* A fault: no node of the body is known.
KnowsNone(existing, k) == {}

\* existingBySource.
KeyOf(existing, k) == {x \in existing : x.node.key = k}

NodeNames(list) == {list[i].name : i \in DOMAIN list}
ItemNames(items) == {x.name : x \in items}

\* A node that exists keeps its name and its test results, unless the name is
\* another outbound's by now.
Keep(s, e, existing, taken) ==
    LET old == CHOOSE x \in KeyOf(existing, e.key) : TRUE
    IN  [name |-> IF old.name \in taken THEN UniqueOutboundName(e.base, s, taken) ELSE old.name,
         node |-> [sub |-> s, key |-> e.key, tested |-> old.node.tested, blocked |-> FALSE]]

New(s, e, taken) ==
    [name |-> UniqueOutboundName(e.base, s, taken),
     node |-> [sub |-> s, key |-> e.key, tested |-> FALSE, blocked |-> FALSE]]

\* The body is gone through for the nodes that exist and then for the new ones:
\* step i of the two passes.
Prepared(s, c, existing, used, before, i) ==
    LET again == i > Len(c)
        e == c[IF again THEN i - Len(c) ELSE i]
        known == KeyOf(existing, e.key) # {}
        taken == used \cup NodeNames(before)
    IN  IF ~First(c, IF again THEN i - Len(c) ELSE i) \/ (known <=> again) THEN before
        ELSE Append(before, IF known THEN Keep(s, e, existing, taken) ELSE New(s, e, taken))

PreparedUpTo(s, c, existing, used) ==
    LET list[i \in 0 .. 2 * Len(c)] ==
          IF i = 0 THEN <<>> ELSE Prepared(s, c, existing, used, list[i - 1], i)
    IN  list

Prepare(s, content, existing, used) ==
    PreparedUpTo(s, content, existing, used)[2 * Len(content)]

AsList(m, names) == SetToSeq(AsItems(m, names))

\* A fault: a body without an entry is as good as any other.
FetchTakesEmpty(j) ==
    /\ jobs[j].pc = "fetch"
    /\ \/ Fails(j, "record")
       \/ \E c \in Contents : To(j, [jobs[j] EXCEPT !.pc = "existing", !.content = c])
    /\ UNCHANGED <<subs, conf, file, rt, server, now, sessions, toggles, faults, loose, tried>>

\* FetchContent and ParseSubscriptionContent: an error of any kind, or a body
\* with at least one entry in it.
FetchContent(j) ==
    /\ jobs[j].pc = "fetch"
    /\ \/ Fails(j, "record")
       \/ \E c \in Contents :
            IF c = <<>> THEN Fails(j, "record")
            ELSE To(j, [jobs[j] EXCEPT !.pc = "existing", !.content = c])
    /\ UNCHANGED <<subs, conf, file, rt, server, now, sessions, toggles, faults, loose, tried>>

\* GetBySubscriptionID; a removal goes on to replace the nodes by none.
ReadExisting(j) ==
    /\ jobs[j].pc = "existing"
    /\ To(j, [jobs[j] EXCEPT !.pc = IF jobs[j].op = "delete" THEN "replace" ELSE "used",
                             !.existing = AsItems(conf, OfSub(conf, jobs[j].sid))])
    /\ UNCHANGED <<subs, conf, file, rt, server, now, sessions, toggles, faults, loose, tried>>

\* GetAllOutbounds gives the names of the others, and the nodes are made.
ReadUsed(j) ==
    /\ jobs[j].pc = "used"
    /\ LET s == jobs[j].sid
           used == NamesOf(conf) \ OfSub(conf, s)
           next == Prepare(s, jobs[j].content, jobs[j].existing, used)
       IN  /\ NoName \notin NodeNames(next)
           /\ To(j, [jobs[j] EXCEPT !.pc = "replace", !.content = <<>>, !.next = next])
    /\ UNCHANGED <<subs, conf, file, rt, server, now, sessions, toggles, faults, loose, tried>>

\* What follows the service in its callers: UpdateSubscription goes back to
\* write the result, RemoveSubscriptionNodes to delete the entry or to give up.
AfterService(j, failed) ==
    IF jobs[j].op # "delete" THEN "record" ELSE IF failed THEN "done" ELSE "unlist"

\* A fault: the names are not looked at again under the lock.
ReplaceUnchecked(j) ==
    LET s == jobs[j].sid
        next == jobs[j].next
        gone == ItemNames(jobs[j].existing) \ NodeNames(next)
    IN  /\ jobs[j].pc = "replace"
        /\ \/ /\ SaveWorks(Replaced(s, next))
              /\ To(j, [jobs[j] EXCEPT !.pc = "sync", !.todo = gone])
           \/ /\ SaveFails(Replaced(s, next))
              /\ Fails(j, AfterService(j, TRUE))
        /\ UNCHANGED <<subs, rt, server, now, sessions, toggles, loose, tried>>

ReplaceSubscriptionOutbounds(j) ==
    LET s == jobs[j].sid
        next == jobs[j].next
        gone == ItemNames(jobs[j].existing) \ NodeNames(next)
    IN  /\ jobs[j].pc = "replace"
        /\ IF ~ReplaceChecks(s, next)
             THEN Fails(j, AfterService(j, TRUE)) /\ UNCHANGED <<conf, file, faults>>
             ELSE \/ /\ SaveWorks(Replaced(s, next))
                     /\ To(j, [jobs[j] EXCEPT !.pc = "sync", !.todo = gone])
                  \/ /\ SaveFails(Replaced(s, next))
                     /\ Fails(j, AfterService(j, TRUE))
        /\ UNCHANGED <<subs, rt, server, now, sessions, toggles, loose, tried>>

\* A fault: an outbound that cannot be updated or added is tried for ever.
SyncRetries(j) ==
    /\ jobs[j].pc = "sync" /\ jobs[j].next # <<>>
    /\ LET x == Head(jobs[j].next)
       IN  /\ (rt[x.name] # NoNode) = (x.name \in ItemNames(jobs[j].existing))
           /\ rt' = [rt EXCEPT ![x.name] = x.node]
           /\ To(j, [jobs[j] EXCEPT !.next = Tail(@)])
    /\ UNCHANGED <<subs, conf, file, server, now, sessions, toggles, faults, loose, tried>>

\* syncRuntime, first loop: an outbound that was there is updated, any other
\* added; the first error ends the update.
SyncNode(j) ==
    /\ jobs[j].pc = "sync" /\ jobs[j].next # <<>>
    /\ LET x == Head(jobs[j].next)
           there == rt[x.name] # NoNode
       IN  IF there = (x.name \in ItemNames(jobs[j].existing))
             THEN /\ rt' = [rt EXCEPT ![x.name] = x.node]
                  /\ To(j, [jobs[j] EXCEPT !.next = Tail(@)])
             ELSE Fails(j, "record") /\ UNCHANGED rt
    /\ UNCHANGED <<subs, conf, file, server, now, sessions, toggles, faults, loose, tried>>

\* A fault: outbounds that are not in the body any more stay.
DropNothing(j) ==
    /\ jobs[j].pc = "sync" /\ jobs[j].next = <<>> /\ jobs[j].todo # {}
    /\ To(j, [jobs[j] EXCEPT !.todo = {}])
    /\ UNCHANGED <<subs, conf, file, rt, server, now, sessions, toggles, faults, loose, tried>>

\* syncRuntime, second loop: DeleteOutboundNoCascade in the order of a map.
DeleteOutboundNoCascade(j) ==
    /\ jobs[j].pc = "sync" /\ jobs[j].next = <<>>
    /\ \E n \in jobs[j].todo :
         /\ rt' = [rt EXCEPT ![n] = NoNode]
         /\ To(j, [jobs[j] EXCEPT !.todo = @ \ {n}])
         /\ loose' = loose \cup {n, Group(jobs[j].sid)}
    /\ UNCHANGED <<subs, conf, file, server, now, sessions, toggles, faults, tried>>

\* ... and Reload, which drops sing-box instances (OutboundCache) and returns no
\* error: nothing of what is kept here changes.
SyncDone(j) ==
    /\ jobs[j].pc = "sync" /\ jobs[j].next = <<>> /\ jobs[j].todo = {}
    /\ Goto(j, AfterService(j, FALSE))
    /\ UNCHANGED <<subs, conf, file, rt, server, now, sessions, toggles, faults, loose, tried>>

-----------------------------------------------------------------------------
(* Updates: the handlers UpdateProxySubscriptionNow and                      *)
(* UpdateAllProxySubscriptions, and the scheduler.  Each works on copies of  *)
(* the entries and writes its copy back at the end.                          *)

Order(ids) == SetToSeq({[sid |-> s, copy |-> subs[s]] : s \in ids})

Enabled(s) == subs[s] # NoSub /\ subs[s].on

\* The entries are copied once, before the first fetch.
BeginUpdate(j) ==
    /\ jobs[j].pc = "ready" /\ jobs[j].op \in {"now", "all"}
    /\ LET ids == {s \in Subs : Enabled(s) /\ (jobs[j].op = "now" => s = jobs[j].sid)}
       IN  To(j, [jobs[j] EXCEPT !.pc = "next", !.queue = Order(ids)])
    /\ UNCHANGED <<subs, conf, file, rt, server, now, sessions, toggles, faults, loose, tried>>

\* subscriptionAutoUpdateDue.
Due(entry) ==
    /\ entry.on
    /\ CASE entry.mode = "daily" -> now % 2 = 1 /\ entry.last < now
         [] entry.mode = "interval" -> entry.last # 0 /\ now >= entry.last + 2
         [] OTHER -> FALSE

\* A fault: only the first of the subscriptions that are due is updated, and
\* only when it is the first of all.
RunOnceFirst ==
    /\ jobs[Scheduler].pc = "ready"
    /\ LET s == CHOOSE x \in Subs : TRUE
       IN  /\ subs[s] # NoSub /\ Due(subs[s]) /\ ~sessions
           /\ To(Scheduler, [jobs[Scheduler] EXCEPT !.pc = "next", !.at = now, !.queue = Order({s})])
    /\ UNCHANGED <<subs, conf, file, rt, server, now, sessions, toggles, faults, loose, tried>>

\* runOnce: nothing is started while somebody plays.
RunOnce ==
    /\ jobs[Scheduler].pc = "ready"
    /\ LET due == {s \in Subs : subs[s] # NoSub /\ Due(subs[s])}
       IN  /\ due # {} /\ ~sessions
           /\ To(Scheduler, [jobs[Scheduler] EXCEPT !.pc = "next", !.at = now, !.queue = Order(due)])
    /\ UNCHANGED <<subs, conf, file, rt, server, now, sessions, toggles, faults, loose, tried>>

NextSubscription(j) ==
    /\ jobs[j].pc = "next" /\ jobs[j].queue # <<>>
    /\ LET q == Head(jobs[j].queue)
       IN  To(j, [jobs[j] EXCEPT !.pc = IF j = Scheduler THEN "attempt" ELSE "fetch", !.queue = Tail(@),
                                 !.sid = q.sid, !.copy = q.copy, !.err = FALSE,
                                 !.at = IF j = Scheduler THEN @ ELSE now])
    /\ UNCHANGED <<subs, conf, file, rt, server, now, sessions, toggles, faults, loose, tried>>

\* The scheduler goes back to sleep, a handler answers.
UpdatesDone(j) ==
    /\ jobs[j].pc = "next" /\ jobs[j].queue = <<>>
    /\ Goto(j, IF j = Scheduler THEN "ready" ELSE "done")
    /\ UNCHANGED <<subs, conf, file, rt, server, now, sessions, toggles, faults, loose, tried>>

\* Two faults: the attempt is not marked, or marked with the day it is due again.
AttemptUnmarked(copy, at) == copy
AttemptAhead(copy, at) == [copy EXCEPT !.last = at + 2]

\* updateOne writes the time of the attempt before it fetches; an entry that is
\* gone is left alone, and one that could not be saved is marked but not fetched.
MarkAttempt(copy, at) == [copy EXCEPT !.last = at]

PersistAttempt ==
    /\ jobs[Scheduler].pc = "attempt"
    /\ LET s == jobs[Scheduler].sid
           copy == MarkAttempt(jobs[Scheduler].copy, jobs[Scheduler].at)
       IN  IF subs[s] = NoSub
             THEN Goto(Scheduler, "next") /\ UNCHANGED <<subs, tried, faults>>
             ELSE /\ subs' = Stored(s, s, copy)
                  /\ \/ /\ To(Scheduler, [jobs[Scheduler] EXCEPT !.pc = "fetch", !.copy = copy])
                        /\ tried' = [tried EXCEPT ![s] = jobs[Scheduler].at]
                        /\ UNCHANGED faults
                     \/ /\ faults > 0 /\ faults' = faults - 1
                        /\ Goto(Scheduler, "next") /\ UNCHANGED tried
    /\ UNCHANGED <<conf, file, rt, server, now, sessions, toggles, loose>>

\* applyProxySubscriptionUpdateResult: a handler also takes the time of the
\* update for that of the last attempt, UpdateProxySubscriptionNow the time after
\* the fetch and UpdateAllProxySubscriptions the one before; the scheduler has its
\* own.
UpdatedAt(j) == IF jobs[j].op = "all" THEN jobs[j].at ELSE now

Outcome(j) ==
    [jobs[j].copy EXCEPT !.last = IF j = Scheduler THEN @ ELSE UpdatedAt(j), !.err = jobs[j].err]

\* The copy is written back with the outcome: an edit made since it was read is
\* lost, a subscription deleted since stays deleted.
RecordResult(j) ==
    /\ jobs[j].pc = "record"
    /\ LET s == jobs[j].sid
       IN  subs' = IF subs[s] # NoSub THEN Stored(s, s, Outcome(j)) ELSE subs
    /\ To(j, [jobs[j] EXCEPT !.pc = "next", !.existing = {}, !.next = <<>>, !.todo = {},
                             !.err = FALSE, !.copy = NoSub])
    /\ tried' = [s \in Subs |-> IF j # Scheduler /\ s = jobs[j].sid /\ UpdatedAt(j) < tried[s]
                                  THEN 0 ELSE tried[s]]
    /\ UNCHANGED <<conf, file, rt, server, now, sessions, toggles, faults, loose>>

-----------------------------------------------------------------------------
(* The handlers of the subscription entries. *)

\* markProxySubscriptionManualSave: saving counts as an attempt.
ManualSave(entry) == IF entry.mode = "off" THEN entry ELSE [entry EXCEPT !.last = now]

\* toConfig: an edit keeps the outcome of the last update; a request may enable
\* or disable the subscription.
ToConfig(existing, mode, on) == [existing EXCEPT !.rev = @ + 1, !.on = on, !.mode = mode]

CreateProxySubscription(j) ==
    /\ jobs[j].pc = "ready" /\ jobs[j].op = "create"
    /\ \E on \in BOOLEAN :
         AddSubscription(jobs[j].sid, ManualSave(ToConfig(NoSub, jobs[j].mode, on)))
    /\ Goto(j, "done")
    /\ UNCHANGED <<conf, file, rt, server, now, sessions, toggles, faults, loose, tried>>

EditReads(j) ==
    /\ jobs[j].pc = "ready" /\ jobs[j].op = "edit"
    /\ To(j, [jobs[j] EXCEPT !.pc = IF subs[jobs[j].sid] = NoSub THEN "done" ELSE "write",
                             !.copy = subs[jobs[j].sid]])
    /\ UNCHANGED <<subs, conf, file, rt, server, now, sessions, toggles, faults, loose, tried>>

\* The entry is made from the copy.  A new id leaves the nodes with the old one.
EditWrites(j) ==
    /\ jobs[j].pc = "write" /\ jobs[j].op = "edit"
    /\ \E on \in BOOLEAN :
         LET s == jobs[j].sid
             copy == ManualSave(ToConfig(jobs[j].copy, jobs[j].mode, on))
         IN  subs' = IF CanStore(s, jobs[j].to) THEN Stored(s, jobs[j].to, copy) ELSE subs
    /\ End(j)
    /\ UNCHANGED <<conf, file, rt, server, now, sessions, toggles, faults, loose, tried>>

UpdateProxySubscription(j) == EditReads(j) \/ EditWrites(j)

\* A fault: the entry is deleted and its nodes stay.
BeginDeleteEntry(j) ==
    /\ jobs[j].pc = "ready" /\ jobs[j].op = "delete"
    /\ Goto(j, IF subs[jobs[j].sid] = NoSub THEN "done" ELSE "unlist")
    /\ UNCHANGED <<subs, conf, file, rt, server, now, sessions, toggles, faults, loose, tried>>

\* DeleteProxySubscription: the nodes first, the entry after them.
DeleteProxySubscription(j) ==
    /\ jobs[j].pc = "ready" /\ jobs[j].op = "delete"
    /\ Goto(j, IF subs[jobs[j].sid] = NoSub THEN "done" ELSE "existing")
    /\ UNCHANGED <<subs, conf, file, rt, server, now, sessions, toggles, faults, loose, tried>>

DeleteSubscription(j) ==
    /\ jobs[j].pc = "unlist"
    /\ subs' = [subs EXCEPT ![jobs[j].sid] = NoSub]
    /\ End(j)
    /\ UNCHANGED <<conf, file, rt, server, now, sessions, toggles, faults, loose, tried>>

-----------------------------------------------------------------------------
(* The handlers of single outbounds, with the name in the path or in the     *)
(* body: the configuration first, then the map of the running proxy, whose   *)
(* error is ignored.                                                         *)

CreateProxyOutbound(j) ==
    /\ jobs[j].pc = "ready" /\ jobs[j].op = "add"
    /\ IF conf[jobs[j].name] # NoNode
         THEN Goto(j, "done") /\ UNCHANGED <<conf, file, faults>>
         ELSE LET m == [conf EXCEPT ![jobs[j].name] = Manual("typed")]
              IN  \/ SaveWorks(m) /\ Goto(j, "apply")
                  \/ SaveFails(m) /\ Goto(j, "done")
    /\ UNCHANGED <<subs, rt, server, now, sessions, toggles, loose, tried>>

\* The request has no subscription fields: an edited node is the user's own from
\* then on.
UpdateProxyOutbound(j) ==
    /\ jobs[j].pc = "ready" /\ jobs[j].op = "change"
    /\ IF conf[jobs[j].name] = NoNode
         THEN Goto(j, "done") /\ UNCHANGED <<conf, file, faults, loose>>
         ELSE LET m == Renamed(conf, jobs[j].name, jobs[j].as, Manual("typed"))
              IN  /\ \/ SaveWorks(m) /\ Goto(j, "apply")
                     \/ SaveFails(m) /\ Goto(j, "done")
                  /\ loose' = loose \cup {Group(conf[jobs[j].name].sub), jobs[j].name}
    /\ UNCHANGED <<subs, rt, server, now, sessions, toggles, tried>>

DeleteProxyOutbound(j) ==
    /\ jobs[j].pc = "ready" /\ jobs[j].op = "remove"
    /\ IF conf[jobs[j].name] = NoNode
         THEN Goto(j, "done") /\ UNCHANGED <<conf, file, faults>>
         ELSE LET m == [conf EXCEPT ![jobs[j].name] = NoNode]
              IN  \/ SaveWorks(m) /\ Goto(j, "apply")
                  \/ SaveFails(m) /\ Goto(j, "done")
    /\ UNCHANGED <<subs, rt, server, now, sessions, toggles, loose, tried>>

\* applyProxyOutboundAutoSelectBlock: read, mark the copy, write it back whole.
BlockReads(j) ==
    /\ jobs[j].pc = "ready" /\ jobs[j].op = "block"
    /\ To(j, IF conf[jobs[j].name] = NoNode THEN [jobs[j] EXCEPT !.pc = "done"]
             ELSE [jobs[j] EXCEPT !.pc = "write", !.node = [conf[jobs[j].name] EXCEPT !.blocked = TRUE]])
    /\ UNCHANGED <<subs, conf, file, rt, server, now, sessions, toggles, faults, loose, tried>>

BlockWrites(j) ==
    /\ jobs[j].pc = "write" /\ jobs[j].op = "block"
    /\ IF conf[jobs[j].name] = NoNode
         THEN Goto(j, "done") /\ UNCHANGED <<conf, file, faults>>
         ELSE LET m == [conf EXCEPT ![jobs[j].name] = jobs[j].node]
              IN  \/ SaveWorks(m) /\ Goto(j, "apply")
                  \/ SaveFails(m) /\ Goto(j, "done")
    /\ UNCHANGED <<subs, rt, server, now, sessions, toggles, loose, tried>>

\* outboundManagerImpl: AddOutbound, UpdateOutbound and DeleteOutbound.
RuntimeAddOutbound(n, node) == rt' = IF rt[n] = NoNode THEN [rt EXCEPT ![n] = node] ELSE rt

RuntimeUpdateOutbound(n, to, node) ==
    rt' = IF rt[n] = NoNode \/ (to # n /\ rt[to] # NoNode) THEN rt ELSE Renamed(rt, n, to, node)

ApplyAdd(j) ==
    /\ jobs[j].pc = "apply" /\ jobs[j].op = "add"
    /\ RuntimeAddOutbound(jobs[j].name, Manual("typed"))
    /\ Goto(j, "done")
    /\ UNCHANGED <<subs, conf, file, server, now, sessions, toggles, faults, loose, tried>>

ApplyChange(j) ==
    /\ jobs[j].pc = "apply" /\ jobs[j].op \in {"change", "block"}
    /\ IF jobs[j].op = "block" THEN RuntimeUpdateOutbound(jobs[j].name, jobs[j].name, jobs[j].node)
                               ELSE RuntimeUpdateOutbound(jobs[j].name, jobs[j].as, Manual("typed"))
    /\ Goto(j, "done")
    /\ UNCHANGED <<subs, conf, file, server, now, sessions, toggles, faults, loose, tried>>

\* DeleteOutbound, then the cascade unless there was nothing to delete.
RuntimeDeleteOutbound(j, n, otherwise) ==
    /\ rt' = [rt EXCEPT ![n] = NoNode]
    /\ To(j, [jobs[j] EXCEPT !.pc = IF rt[n] = NoNode THEN otherwise ELSE "cascade",
                             !.todo = @ \ {n}, !.name = n, !.group = rt[n].sub])

ApplyRemove(j) ==
    /\ jobs[j].pc = "apply" /\ jobs[j].op = "remove"
    /\ RuntimeDeleteOutbound(j, jobs[j].name, "done")
    /\ UNCHANGED <<subs, conf, file, server, now, sessions, toggles, faults, loose, tried>>

-----------------------------------------------------------------------------
(* cascadeUpdateServerConfigs: a server loses its reference to an outbound   *)
(* that was deleted.  The names that remain, the servers and the entry to be *)
(* written are read and written under three different locks.                 *)

\* A fault: a list of nodes is left as it is.
CascadeSkipsLists(n, g) ==
    CASE server.kind = "nodes" /\ server.names = {n} -> Direct
      [] server.kind = "group" /\ server.group = g /\ OfSub(rt, g) = {} -> Direct
      [] OTHER -> server

CascadeTarget(n, g) ==
    CASE server.kind = "nodes" /\ n \in server.names ->
           IF server.names = {n} THEN Direct ELSE [server EXCEPT !.names = @ \ {n}]
      [] server.kind = "group" /\ server.group = g /\ OfSub(rt, g) = {} -> Direct
      [] OTHER -> server

CascadeReads(j) ==
    /\ jobs[j].pc = "cascade"
    /\ LET next == CascadeTarget(jobs[j].name, jobs[j].group)
           back == IF jobs[j].op = "reload" THEN "apply" ELSE "done"
       IN  To(j, [jobs[j] EXCEPT !.pc = IF next = server THEN back ELSE "repoint", !.ref = next])
    /\ UNCHANGED <<subs, conf, file, rt, server, now, sessions, toggles, faults, loose, tried>>

CascadeWrites(j) ==
    /\ jobs[j].pc = "repoint"
    /\ server' = jobs[j].ref
    /\ To(j, [jobs[j] EXCEPT !.pc = IF jobs[j].op = "reload" THEN "apply" ELSE "done", !.ref = Direct])
    /\ UNCHANGED <<subs, conf, file, rt, now, sessions, toggles, faults, loose, tried>>

\* The API gives a server one of the outbounds there are.
PickNode(j) ==
    /\ jobs[j].pc = "ready" /\ jobs[j].op = "pick"
    /\ conf[jobs[j].name] # NoNode
    /\ server' = [kind |-> "nodes", names |-> {jobs[j].name}, group |-> Nothing]
    /\ Goto(j, "done")
    /\ UNCHANGED <<subs, conf, file, rt, now, sessions, toggles, faults, loose, tried>>

-----------------------------------------------------------------------------
(* The file is edited by hand: Reload loads all of it, and                   *)
(* reloadProxyOutbounds brings the running map into line.                    *)

LoadFile(j) ==
    /\ jobs[j].pc = "ready" /\ jobs[j].op = "reload"
    /\ LET edited == [file EXCEPT ![jobs[j].name] = IF @ = NoNode THEN Manual("typed") ELSE NoNode]
       IN  conf' = edited /\ file' = edited
    /\ loose' = loose \cup ({jobs[j].name} \ NamesOf(rt))
    /\ Goto(j, "want")
    /\ UNCHANGED <<subs, rt, server, now, sessions, toggles, faults, tried>>

\* GetAllOutbounds, then ListOutbounds.
ReadWanted(j) ==
    /\ jobs[j].pc = "want"
    /\ To(j, [jobs[j] EXCEPT !.pc = "have", !.next = AsList(conf, NamesOf(conf))])
    /\ UNCHANGED <<subs, conf, file, rt, server, now, sessions, toggles, faults, loose, tried>>

ReadCurrent(j) ==
    /\ jobs[j].pc = "have"
    /\ To(j, [jobs[j] EXCEPT !.pc = "apply", !.existing = AsItems(rt, NamesOf(rt)),
                             !.todo = NamesOf(rt) \ NodeNames(jobs[j].next)])
    /\ UNCHANGED <<subs, conf, file, rt, server, now, sessions, toggles, faults, loose, tried>>

ReloadDeletes(j) ==
    /\ jobs[j].pc = "apply" /\ jobs[j].op = "reload"
    /\ \E n \in jobs[j].todo : RuntimeDeleteOutbound(j, n, "apply")
    /\ UNCHANGED <<subs, conf, file, server, now, sessions, toggles, faults, loose, tried>>

ReloadApplies(j) ==
    /\ jobs[j].pc = "apply" /\ jobs[j].op = "reload" /\ jobs[j].todo = {} /\ jobs[j].next # <<>>
    /\ LET x == Head(jobs[j].next)
       IN  IF x.name \in ItemNames(jobs[j].existing) THEN RuntimeUpdateOutbound(x.name, x.name, x.node)
                                                     ELSE RuntimeAddOutbound(x.name, x.node)
    /\ To(j, [jobs[j] EXCEPT !.next = Tail(@)])
    /\ UNCHANGED <<subs, conf, file, server, now, sessions, toggles, faults, loose, tried>>

ReloadDone(j) ==
    /\ jobs[j].pc = "apply" /\ jobs[j].op = "reload" /\ jobs[j].todo = {} /\ jobs[j].next = <<>>
    /\ End(j)
    /\ UNCHANGED <<subs, conf, file, rt, server, now, sessions, toggles, faults, loose, tried>>

ReloadProxyOutbounds(j) ==
    ReadWanted(j) \/ ReadCurrent(j) \/ ReloadDeletes(j) \/ ReloadApplies(j) \/ ReloadDone(j)

-----------------------------------------------------------------------------
(* The world around. *)

Tick ==
    /\ now < MaxTime
    /\ now' = now + 1
    /\ UNCHANGED <<subs, conf, file, rt, server, jobs, sessions, toggles, faults, loose, tried>>

SessionsChange ==
    /\ toggles > 0
    /\ toggles' = toggles - 1
    /\ sessions' = ~sessions
    /\ UNCHANGED <<subs, conf, file, rt, server, jobs, now, faults, loose, tried>>

\* A node's test writes its result into the configuration's own object, without
\* its lock and without a save (UpdateOutboundRuntime).
UpdateOutboundRuntime(j) ==
    /\ jobs[j].pc = "ready" /\ jobs[j].op = "test"
    /\ conf' = IF conf[jobs[j].name] = NoNode THEN conf
               ELSE [conf EXCEPT ![jobs[j].name].tested = TRUE]
    /\ Goto(j, "done")
    /\ UNCHANGED <<subs, file, rt, server, now, sessions, toggles, faults, loose, tried>>

ServiceStep(j) ==
    \/ FetchContent(j) \/ ReadExisting(j) \/ ReadUsed(j) \/ ReplaceSubscriptionOutbounds(j)
    \/ SyncNode(j) \/ DeleteOutboundNoCascade(j) \/ SyncDone(j)
    \/ NextSubscription(j) \/ UpdatesDone(j) \/ RecordResult(j)

RequestStep(j) ==
    \/ BeginUpdate(j) \/ CreateProxySubscription(j) \/ UpdateProxySubscription(j)
    \/ DeleteProxySubscription(j) \/ DeleteSubscription(j)
    \/ CreateProxyOutbound(j) \/ UpdateProxyOutbound(j) \/ DeleteProxyOutbound(j)
    \/ BlockReads(j) \/ BlockWrites(j) \/ ApplyAdd(j) \/ ApplyChange(j) \/ ApplyRemove(j)
    \/ CascadeReads(j) \/ CascadeWrites(j) \/ PickNode(j) \/ UpdateOutboundRuntime(j)
    \/ LoadFile(j) \/ ReloadProxyOutbounds(j)

\* A request that renames an outbound onto another one's name: the
\* configuration replaces the other, the running map refuses.
Clash(j) == /\ jobs[j].op = "change" /\ jobs[j].pc = "ready" /\ jobs[j].as # jobs[j].name
            /\ conf[jobs[j].as] # NoNode

\* The ghost: set by overlapping requests, a failed save of the outbounds or a
\* clash; a reload that has nobody beside it ends it.
GoesAstray ==
    \/ \E i, j \in JobIds : i # j /\ Running(jobs'[i]) /\ Running(jobs'[j])
    \/ faults' < faults /\ UNCHANGED subs
    \/ \E j \in JobIds : Clash(j) /\ jobs'[j].pc # "ready"

Mended == \E j \in JobIds : jobs[j].pc = "ready" /\ jobs'[j].pc = "want"

AstrayStep ==
    /\ astray' = IF GoesAstray THEN TRUE ELSE IF Mended THEN FALSE ELSE astray
    /\ strayed' = IF GoesAstray THEN TRUE ELSE strayed

\* The ghost: a subscription got a new id, an update of it (perhaps with its copy
\* still in the queue) and its deletion were under way together, or a block wrote
\* its copy of a node over an outbound that got the name since.
Updates(r, s) == /\ r.op \in {"now", "all", "auto"} /\ Running(r)
                 /\ \/ r.pc # "next" /\ r.sid = s
                    \/ \E i \in DOMAIN r.queue : r.queue[i].sid = s

Deletes(r, s) == r.op = "delete" /\ Running(r) /\ r.sid = s

SplitStep ==
    split' = split \cup
        {s \in Subs :
            \/ \E j \in JobIds : jobs[j].op = "edit" /\ jobs[j].pc = "write" /\ jobs[j].sid = s
                                 /\ jobs[j].to # s
            \/ \E i, j \in JobIds : Updates(jobs'[i], s) /\ Deletes(jobs'[j], s)
            \/ \E j \in JobIds : /\ jobs[j].op = "block" /\ jobs[j].pc = "write" /\ jobs'[j].pc # "write"
                                 /\ jobs[j].node.sub = s /\ conf[jobs[j].name].sub \notin {s, "absent"}}

\* The ghost: the nodes of its subscription changed since an update read them.
Preparing(r) == r.pc \in {"used", "replace"}

DisturbedStep ==
    disturbed' =
        {j \in JobIds :
            /\ Preparing(jobs'[j])
            /\ \/ j \in disturbed
               \/ LET s == jobs[j].sid
                  IN  /\ Preparing(jobs[j])
                      /\ AsItems(conf', OfSub(conf', s)) # AsItems(conf, OfSub(conf, s))}

GhostStep == AstrayStep /\ SplitStep /\ DisturbedStep

SubNext ==
    /\ \/ \E j \in JobIds : ServiceStep(j)
       \/ \E j \in Handlers : RequestStep(j)
       \/ RunOnce \/ PersistAttempt \/ Tick \/ SessionsChange
    /\ GhostStep

SubInit ==
    \E p \in Plans :
        /\ subs = p.subs
        /\ conf = p.conf /\ file = p.conf /\ rt = p.conf
        /\ server = p.server
        /\ jobs = [j \in JobIds |-> IF j = Scheduler THEN [Idle EXCEPT !.op = "auto", !.pc = p.auto]
                                    ELSE p.jobs[j]]
        /\ now = p.now
        /\ sessions = (p.toggles > 0) /\ toggles = p.toggles
        /\ faults = p.faults
        /\ astray = FALSE /\ strayed = FALSE /\ disturbed = {} /\ split = {} /\ loose = {}
        /\ tried = [s \in Subs |-> 0]

SubSpec == SubInit /\ [][SubNext]_subVars

SubFairness ==
    /\ \A j \in JobIds : WF_subVars(ServiceStep(j) /\ GhostStep)
    /\ \A j \in Handlers : WF_subVars(Busy(j) /\ RequestStep(j) /\ GhostStep)
    /\ WF_subVars((RunOnce \/ PersistAttempt) /\ GhostStep)

-----------------------------------------------------------------------------
(* Properties. *)

SubTypeOK ==
    /\ conf \in Maps /\ file \in Maps /\ rt \in Maps
    /\ \A s \in Subs : subs[s].last \in 0 .. MaxTime /\ (subs[s] = NoSub \/ subs[s].rev > 0)
    /\ server \in Refs

Untested(m) == [n \in OutNames |-> [m[n] EXCEPT !.tested = FALSE]]

\* When no request is under way the proxies dial through exactly the outbounds
\* that are configured, whatever updates, deletions, edits and reloads came
\* before (syncRuntime, reloadProxyOutbounds and the handlers), unless two
\* requests overlapped, a save failed or an outbound was renamed onto another:
\* then the two maps may differ until the file is loaded again.
RuntimeFollows == Quiet /\ ~astray => Untested(rt) = Untested(conf)

\* An update never touches an outbound that is not the subscription's own, also
\* when one with a name it wants was added while it fetched
\* (ReplaceSubscriptionOutbounds, proxy_outbound_manager.go:177).
ForeignKept ==
    [][\A j \in JobIds : jobs[j].pc = "replace" /\ jobs'[j].pc # "replace" =>
         \A n \in OutNames : conf[n] # NoNode /\ conf[n].sub # jobs[j].sid => conf'[n] = conf[n]]_subVars

\* A node that is in the body again keeps its name and its test results: servers
\* and ports refer to it by name (UpdateSubscription, service.go:149).  Only an
\* update whose nodes changed while it prepared the next ones, or of a
\* subscription that has the connection twice, may do otherwise.
IdentityKept ==
    [][\A j \in JobIds :
         /\ jobs[j].pc = "replace" /\ jobs'[j].pc = "sync" /\ j \notin disturbed
         => LET mine == OfSub(conf, jobs[j].sid)
            IN  \A n \in mine, m \in OfSub(conf', jobs[j].sid) :
                  /\ conf[n].key = conf'[m].key
                  /\ \A k \in mine : conf[k].key = conf[n].key => k = n
                  => m = n /\ conf'[m].tested = conf[n].tested]_subVars

\* A fetch that failed, or a body nothing could be read from, never empties a
\* subscription: its last node goes only when the subscription or the node is
\* deleted, the node is edited, the file changed, or a block writes the copy of a
\* node of another one over it.
NeverEmptied ==
    [][\A s \in Subs : OfSub(conf, s) # {} /\ OfSub(conf', s) = {} =>
         \E j \in JobIds :
            /\ jobs[j] # jobs'[j]
            /\ \/ jobs[j].op \in {"delete", "remove", "change", "reload"}
               \/ jobs[j].op = "block" /\ jobs[j].node.sub # conf[jobs[j].name].sub]_subVars

\* A subscription that is deleted takes its nodes with it
\* (DeleteProxySubscription), unless it was given a new id, or deleted while an
\* update of it was running, which brings the nodes back, or a block of one of its
\* nodes, which writes it back over an outbound of the same name.
NoOrphans ==
    Quiet => \A n \in OutNames : conf[n].sub \in Subs => subs[conf[n].sub] # NoSub \/ conf[n].sub \in split

\* A server never refers to an outbound the user deleted, nor to a group whose
\* last outbound the user deleted (cascadeUpdateServerConfigs): only what a
\* subscription dropped or an edit renamed may leave a reference behind, unless
\* requests overlapped or a save failed: no reload mends what that leaves.
CascadeClean ==
    Quiet /\ ~strayed =>
        /\ \A n \in server.names : rt[n] # NoNode \/ n \in loose
        /\ server.kind = "group" => OfSub(rt, server.group) # {} \/ Group(server.group) \in loose

\* The scheduler tries a daily subscription once a day and another once per
\* interval, however often its loop runs and however the fetch ends
\* (updateOne marks the attempt before it fetches, scheduler.go:98), unless an
\* update of all that began before the attempt writes its own time over it.
AttemptsSpaced ==
    [][jobs[Scheduler].pc = "attempt" /\ jobs'[Scheduler].pc = "fetch" =>
         LET s == jobs[Scheduler].sid IN
         tried[s] = 0 \/ jobs[Scheduler].at \div 2 > tried[s] \div 2]_subVars

\* A subscription that is due is tried, once nobody plays any more: neither a
\* failing neighbour nor a deleted one holds it up.
DueIsTried ==
    []<>(sessions \/ \A s \in Subs : subs[s] = NoSub \/ ~Due(subs[s]))

\* Every request ends.
RequestsEnd == []<>Quiet

\* The runtime, the configuration and the servers agree on the nodes whenever no request
\* is being served, with the exceptions each part names.
SubsInv == SubTypeOK /\ RuntimeFollows /\ NoOrphans /\ CascadeClean

\* An update changes its own nodes only, knows again those it had, and never empties a
\* subscription.
UpdatesKeep == ForeignKept /\ IdentityKept /\ NeverEmptied

\* The scheduler tries what is due, and not before, and every request ends.
ScheduleKept == AttemptsSpaced /\ DueIsTried /\ RequestsEnd
=============================================================================
