------------------------ MODULE SubscriptionsProofs ------------------------
(***************************************************************************)
(* What is proved of Subscriptions, for any subscriptions, bodies, names   *)
(* and plans, and any number of requests that overlap in any way: SubsInv, *)
(* that configuration, running map, subscriptions and servers agree when   *)
(* nobody is at work, and UpdatesKeep, what an update may do to the nodes. *)
(*                                                                         *)
(* The requests leave the two maps apart between their steps, so the       *)
(* invariant says how far apart, and who is about to bring them together:  *)
(*                                                                         *)
(*  - SubTypes: what each request carries fits the step it is at;          *)
(*  - Orphans: nodes of a subscription that is gone are those of a         *)
(*    deletion that has not come to them yet, and no update of it runs;    *)
(*  - Follow: while requests do not overlap, the one that runs knows all   *)
(*    the names on which the running map differs (Stands);                 *)
(*  - Referred: and what the servers refer to, and is not there any more,  *)
(*    is what its cascade is about to take away (Refers);                  *)
(*  - Undisturbed: what an update read of its nodes is still so, and the   *)
(*    list it made keeps their names (Faithful).                           *)
(*                                                                         *)
(* Stands, Refers and what they rest on take the maps as parameters: the   *)
(* same definitions speak of the maps before and after a step.             *)
(***************************************************************************)
EXTENDS Subscriptions, FiniteSetTheorems, WellFoundedInduction, TLAPS

-----------------------------------------------------------------------------
(* The invariant.                                                          *)

\* A map of outbounds: a name that nobody has is empty.
OutMap(m) == m \in Maps /\ \A n \in OutNames : m[n].sub = "absent" => m[n] = NoNode

\* The requests that update subscriptions.
Upd == {"now", "all", "auto"}
\* What the lists and the queues of a request hold.
SubItems == [name : OutNames, node : Nodes]
Queued == [sid : Subs, copy : SubEntries]
\* The steps of the requests.
SubPcs == {"ready", "done", "next", "attempt", "fetch", "existing", "used", "replace", "sync", "record",
          "unlist", "write", "apply", "cascade", "repoint", "want", "have"}

JobFields == {"op", "pc", "sid", "to", "mode", "name", "as", "copy", "queue", "content", "existing", "next",
              "todo", "err", "at", "node", "group", "ref"}

\* A request is a record of these fields.
JobRec(r) ==
    /\ DOMAIN r = JobFields
    /\ r.op \in Operations /\ r.pc \in SubPcs /\ r.sid \in Subs \cup {Nothing} /\ r.to \in Subs \cup {Nothing}
    /\ r.mode \in Modes /\ r.name \in OutNames \cup {NoName} /\ r.as \in OutNames \cup {NoName}
    /\ r.copy \in SubEntries /\ r.queue \in Seq(Queued) /\ r.content \in Seq([key : Keys, base : Bases])
    /\ r.existing \subseteq SubItems /\ r.next \in Seq(SubItems) /\ r.todo \subseteq OutNames
    /\ r.err \in BOOLEAN /\ r.at \in 0 .. MaxTime /\ r.node \in Nodes /\ r.ref \in Refs

\* Which requests pass through which steps.
RouteOK(r) ==
    /\ r.pc \in {"next", "fetch", "used", "record"} => r.op \in Upd
    /\ r.pc = "attempt" => r.op = "auto"
    /\ r.pc \in {"existing", "replace", "sync"} => r.op \in Upd \cup {"delete"}
    /\ r.pc = "unlist" => r.op = "delete"
    /\ r.pc = "write" => r.op \in {"edit", "block"}
    /\ r.pc = "apply" => r.op \in {"add", "change", "block", "remove", "reload"}
    /\ r.pc \in {"cascade", "repoint"} => r.op \in {"remove", "reload"}
    /\ r.pc \in {"want", "have"} => r.op = "reload"

\* The steps at which a request works on one subscription.
Serving == {"attempt", "fetch", "existing", "used", "replace", "sync", "record", "unlist"}

\* What a request knows at each step: its subscription, its node, the copy of an entry that
\* exists, a body that is not empty, a list of nodes with different names.
JobHolds(r) ==
    /\ r.op \in OfEntry \/ r.pc \in Serving => r.sid \in Subs
    /\ r.op = "edit" => r.to \in Subs
    /\ r.op \in OfNode => r.name \in OutNames
    /\ r.op = "change" => r.as \in OutNames
    /\ r.pc \in Serving /\ r.op # "delete" => r.copy.rev > 0
    /\ r.op = "edit" /\ r.pc = "write" => r.copy.rev > 0
    /\ \A i \in DOMAIN r.queue : r.queue[i].copy.rev > 0
    /\ r.op \in Upd /\ r.pc \in {"existing", "used"} => r.content # <<>>
    /\ r.op \in Upd /\ r.pc = "replace" => r.next # <<>>
    /\ r.op = "delete" => r.next = <<>>
    /\ r.op = "block" /\ r.pc \in {"write", "apply"} => r.node.sub # "absent"
    /\ r.pc \in {"replace", "sync"} => \A i \in DOMAIN r.next : r.next[i].node.sub = r.sid
    /\ r.op = "reload" => \A i \in DOMAIN r.next : r.next[i].node.sub # "absent"
    /\ \A i, k \in DOMAIN r.next : r.next[i].name = r.next[k].name => i = k

JobFit(j, r) == JobRec(r) /\ RouteOK(r) /\ JobHolds(r) /\ (j = Scheduler <=> r.op = "auto")

\* Entries of subscriptions: one that is there has a revision.
EntriesFit == subs \in [Subs -> SubEntries] /\ \A s \in Subs : subs[s] = NoSub \/ subs[s].rev > 0

GhostsFit == astray \in BOOLEAN /\ strayed \in BOOLEAN

\* Everything but the requests.
World == /\ OutMap(conf) /\ OutMap(file) /\ OutMap(rt)
         /\ EntriesFit /\ server \in Refs /\ now \in 0 .. MaxTime /\ faults \in Nat

\* The types, of the requests too.
SubTypes == World /\ GhostsFit /\ DOMAIN jobs = JobIds /\ \A j \in JobIds : JobFit(j, jobs[j])

\* The nodes of a subscription, in memory or saved.
NodesOf(s) == OfSub(conf, s) \cup OfSub(file, s)

\* Of a subscription that is not split: nodes have their entry; while an update of it runs the entry
\* stays and nobody deletes it; a deletion that has replaced the nodes has left none.
Orphans ==
    \A s \in Subs \ split :
        /\ NodesOf(s) # {} => subs[s] # NoSub
        /\ \A i \in JobIds : Updates(jobs[i], s) => subs[s] # NoSub /\ \A j \in JobIds : ~Deletes(jobs[j], s)
        /\ \A j \in JobIds : Deletes(jobs[j], s) /\ jobs[j].pc \in {"sync", "unlist"} => NodesOf(s) = {}

\* The same outbound, whatever its last test.
Like(a, b) == a.sub = b.sub /\ a.key = b.key /\ a.blocked = b.blocked
\* The two maps agree, everywhere or but for some names.
AllLike(c, t) == \A n \in OutNames : Like(t[n], c[n])
LikeBut(N, c, t) == \A n \in OutNames \ N : Like(t[n], c[n])

\* A list that is still to be applied to the running map, and the names still to be deleted from it,
\* are all on which the two maps differ; and what is to be added is not there yet.
Pending(r, c, t) ==
    /\ \A i \in DOMAIN r.next : /\ Like(c[r.next[i].name], r.next[i].node)
                                /\ t[r.next[i].name].sub # "absent" <=> r.next[i].name \in ItemNames(r.existing)
    /\ \A n \in r.todo : c[n].sub = "absent"
    /\ LikeBut(r.todo \cup NodeNames(r.next), c, t)

\* The steps between which the two maps agree.
Level == {"ready", "done", "next", "attempt", "fetch", "existing", "used", "replace", "record", "unlist", "write"}

\* A rename that is still to be applied to the running map.
Renaming(r, c, t) ==
    /\ Like(c[r.as], Manual("typed")) /\ t[r.name].sub # "absent"
    /\ r.as # r.name => c[r.name].sub = "absent" /\ t[r.as].sub = "absent"
    /\ LikeBut({r.name, r.as}, c, t)

\* How the configuration c and the running map t differ while the request r, alone, is at its step.
Stands(r, c, t) ==
    /\ r.pc \in Level => AllLike(c, t)
    /\ Preparing(r) => ItemNames(r.existing) = OfSub(c, r.sid)
    /\ r.pc = "sync" => /\ Pending(r, c, t)
                        /\ \A n \in r.todo \cup NodeNames(r.next) : t[n].sub \in {r.sid, "absent"}
    /\ r.pc = "write" /\ r.op = "block" => r.node.sub = c[r.name].sub
    /\ r.pc = "have" => /\ NodeNames(r.next) = NamesOf(c)
                        /\ \A i \in DOMAIN r.next : Like(c[r.next[i].name], r.next[i].node)
    /\ r.pc \in {"apply", "cascade", "repoint"} /\ r.op = "reload" => Pending(r, c, t)
    /\ r.pc \in {"cascade", "repoint"} /\ r.op = "remove" => AllLike(c, t)
    /\ r.pc = "apply" /\ r.op = "remove" => c[r.name].sub = "absent" /\ LikeBut({r.name}, c, t)
    /\ r.pc = "apply" /\ r.op = "add" =>
          Like(c[r.name], Manual("typed")) /\ t[r.name].sub = "absent" /\ LikeBut({r.name}, c, t)
    /\ r.pc = "apply" /\ r.op = "change" => Renaming(r, c, t)
    /\ r.pc = "apply" /\ r.op = "block" =>
          Like(c[r.name], r.node) /\ t[r.name].sub = r.node.sub /\ LikeBut({r.name}, c, t)

\* Nobody but j is at work.
Alone(j) == \A i \in JobIds \ {j} : ~Running(jobs[i])

\* Unless something went astray, one request runs at a time, and it stands as it should.
Follow ==
    ~astray => /\ \A i, j \in JobIds : Running(jobs[i]) /\ Running(jobs[j]) => i = j
               /\ \A j \in JobIds : Alone(j) => Stands(jobs[j], conf, rt)

\* A name or a group that a server may refer to: it is there, or went away without a cascade.
Backed(n, c, t, l) == c[n].sub # "absent" \/ t[n].sub # "absent" \/ n \in l

\* A name that both maps have belongs to the same subscription in both.
OneOwner(c, t) == \A n \in OutNames : t[n].sub = "absent" \/ c[n].sub = "absent" \/ t[n].sub = c[n].sub

Manned(g, t, l) == OfSub(t, g) # {} \/ Group(g) \in l

\* What the step of a cascade, of a rename and of a reload knows.
RefAt(r, c, t, l) ==
    /\ r.pc = "repoint" => r.ref.kind # "group" /\ \A n \in r.ref.names : Backed(n, c, t, l)
    /\ r.op = "change" /\ r.pc = "apply" => r.name \in l /\ Group(t[r.name].sub) \in l
    /\ r.op = "reload" /\ Running(r) => OneOwner(c, t)

\* What a server refers to is there, or the cascade that runs is about to take it away.
Refers(r, v, c, t, l) ==
    /\ RefAt(r, c, t, l)
    /\ \A n \in v.names : Backed(n, c, t, l) \/ (r.pc \in {"cascade", "repoint"} /\ r.name = n)
    /\ v.kind = "group" => \/ Manned(v.group, t, l) \/ r.pc = "repoint"
                           \/ r.pc = "cascade" /\ r.group = v.group

\* Unless something ever went astray: the saved file is the configuration, and the servers refer to
\* what there is.
Referred ==
    ~strayed => /\ ~astray
                /\ \A n \in OutNames : Like(file[n], conf[n])
                /\ \A j \in JobIds : Alone(j) => Refers(jobs[j], server, conf, rt, loose)

\* The list of an update keeps the names and the test results of the nodes it read.
Faithful(next, existing) ==
    \A i \in DOMAIN next, x \in existing :
        /\ next[i].node.key = x.node.key
        /\ \A y \in existing : y.node.key = x.node.key => y = x
        => next[i].name = x.name /\ next[i].node.tested = x.node.tested

\* An update whose nodes nobody touched still has what it read, and a list that keeps it.
Undisturbed ==
    \A j \in JobIds \ disturbed : Preparing(jobs[j]) =>
        /\ jobs[j].existing = AsItems(conf, OfSub(conf, jobs[j].sid))
        /\ jobs[j].pc = "replace" => Faithful(jobs[j].next, jobs[j].existing)

-----------------------------------------------------------------------------
(* What the helpers return.                                                *)

\* A step of j replaces its request.
LEMMA SubTurn ==
  ASSUME DOMAIN jobs = JobIds, NEW j \in JobIds, NEW r, To(j, r)
  PROVE  DOMAIN jobs' = JobIds /\ jobs'[j] = r /\ \A i \in JobIds \ {j} : jobs'[i] = jobs[i]
  BY DEF To

\* The ghosts keep their types.
LEMMA Ghosted == ASSUME GhostsFit, AstrayStep PROVE GhostsFit'
  BY DEF GhostsFit, AstrayStep

\* To keep SubTypes it is enough to keep the world and the request that moved.
LEMMA TypesStep ==
  ASSUME SubTypes, AstrayStep, World', NEW j \in JobIds, NEW r, To(j, r), JobFit(j, r)
  PROVE  SubTypes'
  <1>1. DOMAIN jobs' = JobIds /\ jobs'[j] = r /\ \A i \in JobIds \ {j} : jobs'[i] = jobs[i]
    BY SubTurn DEF SubTypes
  <1>2. GhostsFit'
    BY Ghosted DEF SubTypes
  <1>3. ASSUME NEW i \in JobIds PROVE JobFit(i, jobs'[i])
    BY <1>1, Zenon DEF SubTypes
  <1>4. \A i \in JobIds : JobFit(i, jobs[i])'
    BY <1>3 DEF JobFit
  <1> QED
    BY <1>1, <1>2, <1>4, Zenon DEF SubTypes

\* Moving on to another step.
LEMMA GotoFit ==
  ASSUME NEW j \in JobIds, NEW r, JobFit(j, r), NEW pc \in SubPcs, RouteOK([r EXCEPT !.pc = pc]), JobHolds([r EXCEPT !.pc = pc])
  PROVE  JobFit(j, [r EXCEPT !.pc = pc])
  <1>1. DOMAIN r = JobFields
    BY DEF JobFit, JobRec
  <1>2. PICK q : q = [r EXCEPT !.pc = pc]
    OBVIOUS
  <1>3. DOMAIN q = JobFields /\ q.pc = pc /\ \A f \in JobFields \ {"pc"} : q[f] = r[f]
    BY <1>1, <1>2 DEF JobFields
  <1>4. JobRec(q)
    BY <1>3 DEF JobFit, JobRec, JobFields
  <1> QED
    BY <1>2, <1>3, <1>4 DEF JobFit, JobFields

\* A fetch that fails, or brings a body with an entry.
LEMMA FetchFit ==
  ASSUME SubTypes, NEW j \in JobIds, FetchContent(j), AstrayStep PROVE SubTypes'
  <1>1. World'
    BY DEF SubTypes, FetchContent, World, EntriesFit, OutMap
  <1>2. DOMAIN jobs[j] = JobFields /\ JobFit(j, jobs[j])
    BY DEF SubTypes, JobFit, JobRec
  <1>3. PICK r : r = jobs[j]
    OBVIOUS
  <1>4. CASE Fails(j, "record")
    <2>1. JobFit(j, [r EXCEPT !.pc = "record", !.err = TRUE])
      BY <1>2, <1>3 DEF JobFit, JobRec, RouteOK, JobHolds, JobFields, FetchContent, Serving,
         OfEntry, OfNode, Upd, SubPcs
    <2> QED
      BY <1>1, <1>3, <1>4, <2>1, TypesStep DEF Fails
  <1>5. ASSUME NEW c \in Contents, c # <<>>, To(j, [jobs[j] EXCEPT !.pc = "existing", !.content = c]) PROVE SubTypes'
    <2>1. JobFit(j, [r EXCEPT !.pc = "existing", !.content = c])
      BY <1>2, <1>3, <1>5, SubConstants DEF JobFit, JobRec, RouteOK, JobHolds, JobFields,
         FetchContent, Serving, OfEntry, OfNode, Upd, SubPcs
    <2> QED
      BY <1>1, <1>3, <1>5, <2>1, TypesStep DEF Fails
  <1> QED
    BY <1>4, <1>5 DEF FetchContent

\* What the constants of the model are.
LEMMA OutNodes ==
  /\ NoNode \in Nodes /\ NoNode.sub = "absent" /\ Manual("typed") \in Nodes /\ Manual("typed").sub = "manual"
  /\ NoName \notin OutNames /\ NoSub \in SubEntries /\ Direct \in Refs
  <1>1. MaxTime \in Nat /\ Nothing \notin Bases
    BY SubConstants
  <1>2. NoName \notin OutNames
    <2>1. NoName[1] = Nothing
      BY DEF NoName
    <2>2. \A n \in OutNames : n[1] \in Bases
      BY DEF OutNames
    <2> QED
      BY <1>1, <2>1, <2>2
  <1>3. NoNode \in Nodes /\ NoNode.sub = "absent" /\ Manual("typed") \in Nodes /\ Manual("typed").sub = "manual"
    BY DEF NoNode, Nodes, Manual
  <1>4. NoSub \in SubEntries
    BY <1>1 DEF NoSub, SubEntries, Modes
  <1> QED
    BY <1>2, <1>3, <1>4 DEF Refs

\* A map stays one when an outbound is put into it.
LEMMA OutMapSet ==
  ASSUME NEW m, OutMap(m), NEW n \in OutNames, NEW x \in Nodes, x.sub = "absent" => x = NoNode
  PROVE  /\ OutMap([m EXCEPT ![n] = x])
         /\ [m EXCEPT ![n] = x][n] = x
         /\ \A k \in OutNames \ {n} : [m EXCEPT ![n] = x][k] = m[k]
  BY DEF OutMap, Maps

\* Whose sub is absent is not there.
LEMMA NodeAbsent ==
  ASSUME NEW m, OutMap(m), NEW n \in OutNames
  PROVE  m[n] \in Nodes /\ (m[n].sub = "absent" <=> m[n] = NoNode)
  BY OutNodes DEF OutMap, Maps

\* There are finitely many names.
LEMMA SubFinite == IsFiniteSet(OutNames)
  <1>1. IsFiniteSet(Subs) /\ IsFiniteSet(Bases) /\ Endings \in Seq(Range(Endings))
    BY SubConstants
  <1>2. IsFiniteSet({Nothing})
    BY FS_Singleton
  <1>3. IsFiniteSet(Subs \cup {Nothing})
    BY <1>1, <1>2, FS_Union
  <1>4. IsFiniteSet({Endings[i] : i \in DOMAIN Endings})
    <2>1. PICK d : d = DOMAIN Endings
      OBVIOUS
    <2>2. IsFiniteSet(d)
      <3>1. d = 1 .. Len(Endings) /\ Len(Endings) \in Nat
        BY <1>1, <2>1
      <3> QED
        BY <3>1, FS_Interval
    <2>3. PICK f : f = [i \in d |-> Endings[i]]
      OBVIOUS
    <2>4. PICK T : T = {Endings[i] : i \in DOMAIN Endings}
      OBVIOUS
    <2>5. f \in Surjection(d, T)
      BY <2>1, <2>3, <2>4 DEF Surjection
    <2>6. IsFiniteSet(T)
      BY <2>2, <2>5, FS_Surjection
    <2> QED
      BY <2>4, <2>6
  <1>5. IsFiniteSet(Tags)
    BY <1>3, <1>4, FS_Union DEF Tags
  <1> QED
    BY <1>1, <1>5, FS_Product DEF OutNames

\* A sequence that has each element of a set once.
Listed(q, S) == q \in Seq(S) /\ {q[i] : i \in DOMAIN q} = S /\ \A i, k \in DOMAIN q : q[i] = q[k] => i = k

\* SetToSeq makes one of a finite set.
LEMMA Sequenced == ASSUME NEW S, IsFiniteSet(S) PROVE Listed(SetToSeq(S), S)
  <1>1. PICK n \in Nat : n = Cardinality(S)
    BY FS_CardinalityType
  <1>2. PICK f : f \in [1 .. n -> S] /\ IsInjective(f)
    <2>1. PICK g : g \in Bijection(1 .. n, S)
      BY <1>1, FS_CardinalityType DEF ExistsBijection
    <2>2. g \in [1 .. n -> S] /\ IsInjective(g)
      BY <2>1 DEF Bijection, Injection, IsInjective
    <2> QED
      BY <2>2
  <1>3. PICK q : q = SetToSeq(S)
    OBVIOUS
  <1>4. q \in [1 .. n -> S] /\ IsInjective(q)
    BY <1>1, <1>2, <1>3 DEF SetToSeq
  <1>5. q \in Seq(S) /\ DOMAIN q = 1 .. n
    BY <1>4
  <1>6. \A i, k \in DOMAIN q : q[i] = q[k] => i = k
    BY <1>4, <1>5 DEF IsInjective
  <1>7. q \in Injection(1 .. n, S)
    BY <1>4, <1>5, <1>6 DEF Injection
  <1>8. {q[i] : i \in DOMAIN q} = S
    <2>1. q \in Surjection(1 .. n, S)
      <3>1. Cardinality(1 .. n) = n
        BY <1>1, FS_Interval
      <3> QED
        BY <1>1, <1>7, <3>1, FS_Injection
    <2> QED
      BY <1>5, <2>1 DEF Surjection
  <1> QED
    BY <1>3, <1>5, <1>6, <1>8 DEF Listed

\* Induction up to m, by the least counterexample.
LEMMA SubReaches ==
  ASSUME NEW m \in Nat, NEW T, 0 \in T,
         \A n \in 0 .. m : n \in T /\ n < m => n + 1 \in T
  PROVE  m \in T
  <1> DEFINE U == {n \in 0 .. m : n \notin T}
  <1>1. SUFFICES ASSUME U # {} PROVE FALSE
    OBVIOUS
  <1>2. PICK x \in U : \A y \in U : ~ (<<y, x>> \in OpToRel(<, Nat))
    <2>1. U \subseteq Nat
      OBVIOUS
    <2> HIDE DEF U
    <2> QED
      BY <1>1, <2>1, WFMin, NatLessThanWellFounded
  <1>3. x \in Nat /\ x # 0 /\ x <= m
    OBVIOUS
  <1>4. x - 1 \in Nat /\ x - 1 < x /\ x - 1 \in 0 .. m
    BY <1>3
  <1>5. <<x - 1, x>> \in OpToRel(<, Nat)
    BY <1>3, <1>4 DEF OpToRel
  <1>6. x - 1 \notin U
    BY <1>2, <1>5
  <1>7. x - 1 \in T /\ x - 1 < m
    BY <1>3, <1>4, <1>6
  <1>8. (x - 1) + 1 \in T
    BY <1>4, <1>7
  <1> QED
    BY <1>3, <1>8

\* The list of an update grows step by step, as its definition says.
LEMMA PreparedSteps ==
  ASSUME NEW s, NEW E, NEW c \in Seq(E), NEW existing, NEW used
  PROVE  LET f == PreparedUpTo(s, c, existing, used)
         IN  f = [i \in 0 .. 2 * Len(c) |-> IF i = 0 THEN <<>> ELSE Prepared(s, c, existing, used, f[i - 1], i)]
  <1> DEFINE Top == 2 * Len(c)
  <1> DEFINE P(b, i) == Prepared(s, c, existing, used, b, i)
  <1>0. Top \in Nat
    OBVIOUS
  <1> HIDE DEF P
  <1> DEFINE From(g, n) == g = [i \in 0 .. n |-> IF i = 0 THEN <<>> ELSE P(g[i - 1], i)]
  <1> DEFINE Begun == {n \in 0 .. Top : \E g : From(g, n)}
  <1>1. 0 \in Begun
    <2>1. From([i \in 0 .. 0 |-> <<>>], 0)
      OBVIOUS
    <2>2. 0 \in 0 .. Top
      BY <1>0
    <2> HIDE DEF From, Top
    <2> QED
      BY <2>1, <2>2
  <1>2. ASSUME NEW n \in 0 .. Top, n \in Begun, n < Top
        PROVE  n + 1 \in Begun
    <2>1. PICK g : g = [i \in 0 .. n |-> IF i = 0 THEN <<>> ELSE P(g[i - 1], i)]
      BY <1>2
    <2> DEFINE h == [i \in 0 .. n + 1 |-> IF i <= n THEN g[i] ELSE P(g[n], n + 1)]
    <2>2. ASSUME NEW i \in 0 .. n + 1
          PROVE  h[i] = IF i = 0 THEN <<>> ELSE P(h[i - 1], i)
      <3>1. CASE i = 0
        BY <3>1, <2>1
      <3>2. CASE i \in 1 .. n
        <4>1. h[i] = g[i] /\ h[i - 1] = g[i - 1]
          BY <3>2
        <4>2. g[i] = P(g[i - 1], i)
          BY <2>1, <3>2
        <4> QED
          BY <3>2, <4>1, <4>2
      <3>3. CASE i = n + 1
        <4>1. h[i] = P(g[n], n + 1) /\ h[i - 1] = g[n]
          BY <3>3
        <4> QED
          BY <3>3, <4>1
      <3> QED
        BY <3>1, <3>2, <3>3
    <2>3. h = [i \in 0 .. n + 1 |-> IF i = 0 THEN <<>> ELSE P(h[i - 1], i)]
      <3> HIDE DEF h
      <3>1. h = [i \in 0 .. n + 1 |-> h[i]]
        BY DEF h
      <3> QED
        BY <2>2, <3>1
    <2>4. From(h, n + 1)
      BY <2>3
    <2>5. n + 1 \in 0 .. Top
      BY <1>0, <1>2
    <2> HIDE DEF From, Top, h
    <2> QED
      BY <2>4, <2>5
  <1>3. Top \in Begun
    <2> HIDE DEF Begun, Top
    <2> QED
      BY <1>0, <1>1, <1>2, SubReaches, SMTT(30)
  <1> DEFINE f == PreparedUpTo(s, c, existing, used)
  <1>4. f = [i \in 0 .. Top |-> IF i = 0 THEN <<>> ELSE P(f[i - 1], i)]
    BY <1>3 DEF PreparedUpTo, P
  <1> QED
    BY <1>4 DEF P

\* UniqueOutboundName gives a name that is not used, or none.
LEMMA Unique ==
  ASSUME NEW base \in Bases, NEW s \in Subs, NEW used
  PROVE  LET n == UniqueOutboundName(base, s, used) IN n = NoName \/ n \in OutNames \ used
  <1> DEFINE candidates == << <<base, Nothing>>, <<base, s>> >> \o [i \in DOMAIN Endings |-> <<base, Endings[i]>>]
  <1> DEFINE free == {i \in DOMAIN candidates : candidates[i] \notin used}
  <1>1. Endings \in Seq(Range(Endings))
    BY SubConstants
  <1>2. candidates \in Seq(OutNames)
    <2>1. PICK p : p = << <<base, Nothing>>, <<base, s>> >>
      OBVIOUS
    <2>2. PICK q : q = [i \in DOMAIN Endings |-> <<base, Endings[i]>>]
      OBVIOUS
    <2>3. p \in Seq(OutNames)
      <3>1. <<base, Nothing>> \in OutNames /\ <<base, s>> \in OutNames
        BY DEF OutNames, Tags
      <3> QED
        BY <2>1, <3>1
    <2>4. q \in Seq(OutNames)
      <3>1. \A i \in DOMAIN Endings : <<base, Endings[i]>> \in OutNames
        BY DEF OutNames, Tags
      <3> QED
        BY <1>1, <2>2, <3>1
    <2>5. p \o q \in Seq(OutNames)
      BY <2>3, <2>4
    <2> QED
      BY <2>1, <2>2, <2>5
  <1>3. CASE free = {}
    BY <1>3 DEF UniqueOutboundName
  <1>4. CASE free # {}
    <2>1. free \subseteq Nat
      BY <1>2
    <2>2. \E i \in free : \A k \in free : i <= k
      <3> HIDE DEF free
      <3>1. PICK i \in free : \A k \in free : ~ (<<k, i>> \in OpToRel(<, Nat))
        BY <1>4, <2>1, WFMin, NatLessThanWellFounded
      <3>2. ASSUME NEW k \in free PROVE i <= k
        <4>1. k \in Nat /\ i \in Nat
          BY <2>1
        <4>2. k < i => <<k, i>> \in OpToRel(<, Nat)
          BY <4>1 DEF OpToRel
        <4>3. ~ (k < i)
          BY <3>1, <4>2
        <4> QED
          BY <4>1, <4>3
      <3>3. \A k \in free : i <= k
        BY <3>2
      <3> QED
        BY <3>3
    <2>3. PICK i : i = CHOOSE x \in free : \A k \in free : x <= k
      OBVIOUS
    <2>4. i \in free
      <3> HIDE DEF free
      <3> QED
        BY <2>2, <2>3
    <2>5. UniqueOutboundName(base, s, used) = candidates[i]
      BY <1>4, <2>3 DEF UniqueOutboundName
    <2>6. i \in DOMAIN candidates /\ candidates[i] \notin used
      BY <2>4
    <2>7. candidates[i] \in OutNames
      <3> HIDE DEF candidates
      <3> QED
        BY <1>2, <2>6
    <2> HIDE DEF candidates
    <2> QED
      BY <2>5, <2>6, <2>7
  <1> QED
    BY <1>3, <1>4

\* An element of a sequence.
LEMMA SeqAt == ASSUME NEW R, NEW c \in Seq(R), NEW k \in 1 .. Len(c) PROVE c[k] \in R
  OBVIOUS

PreItems == [name : OutNames \cup {NoName}, node : Nodes]

\* A list an update has made so far: nodes of the subscription, under different names unless there
\* was no name left.
Sound(l, s) ==
    /\ l \in Seq(PreItems)
    /\ \A i \in DOMAIN l : l[i].node.sub = s
    /\ \A i, k \in DOMAIN l : l[i].name = l[k].name /\ l[i].name # NoName => i = k

\* It stays so when a node with a name of its own is put at its end.
LEMMA AppendSound ==
  ASSUME NEW s, NEW l, Sound(l, s), NEW x \in PreItems, x.node.sub = s, x.name = NoName \/ x.name \notin NodeNames(l)
  PROVE  Sound(Append(l, x), s)
  <1>1. l \in Seq(PreItems)
    BY DEF Sound
  <1>2. PICK m : m = Append(l, x)
    OBVIOUS
  <1>3. m \in Seq(PreItems) /\ DOMAIN m = 1 .. Len(l) + 1 /\ m[Len(l) + 1] = x /\ \A i \in 1 .. Len(l) : m[i] = l[i]
    BY <1>1, <1>2
  <1>4. DOMAIN l = 1 .. Len(l) /\ Len(l) \in Nat
    BY <1>1
  <1>5. \A i \in DOMAIN m : i \in DOMAIN l \/ i = Len(l) + 1
    BY <1>3, <1>4
  <1>6. \A i \in DOMAIN m : m[i].node.sub = s
    BY <1>3, <1>4, <1>5 DEF Sound
  <1>7. \A i \in DOMAIN l : l[i].name = x.name => x.name = NoName
    BY DEF NodeNames
  <1>8. ASSUME NEW i \in DOMAIN m, NEW k \in DOMAIN m, m[i].name = m[k].name, m[i].name # NoName
        PROVE  i = k
    <2>1. CASE i \in DOMAIN l /\ k \in DOMAIN l
      BY <1>3, <1>4, <1>8, <2>1 DEF Sound
    <2>2. CASE i = Len(l) + 1 /\ k \in DOMAIN l
      BY <1>3, <1>4, <1>7, <1>8, <2>2
    <2>3. CASE i \in DOMAIN l /\ k = Len(l) + 1
      BY <1>3, <1>4, <1>7, <1>8, <2>3
    <2> QED
      BY <1>5, <2>1, <2>2, <2>3
  <1> QED
    BY <1>2, <1>3, <1>6, <1>8 DEF Sound

\* What the list is made from.
BodyEntry == [key : Keys, base : Bases]

Given(s, c, existing) == s \in Subs /\ c \in Seq(BodyEntry) /\ existing \subseteq SubItems

\* The node that a node of the body is known by.
Old(existing, k) == CHOOSE x \in KeyOf(existing, k) : TRUE

\* What becomes of a node that exists.
KeepFits(s, e, existing, taken, x, o) ==
    /\ x \in PreItems /\ x.node.sub = s /\ x.node.key = e.key
    /\ x.name = NoName \/ x.name \notin taken
    /\ o \in existing /\ o.node.key = e.key
    /\ x.node.tested = o.node.tested
    /\ o.name \notin taken => x.name = o.name

\* Keep makes such a node.
LEMMA KeepIs ==
  ASSUME NEW s, NEW c, NEW e \in BodyEntry, NEW existing, Given(s, c, existing), NEW taken,
         KeyOf(existing, e.key) # {}
  PROVE  KeepFits(s, e, existing, taken, Keep(s, e, existing, taken), Old(existing, e.key))
  <1>9. PICK o : o = Old(existing, e.key)
    OBVIOUS
  <1>1. s \in Subs /\ existing \subseteq SubItems /\ e.key \in Keys /\ e.base \in Bases
    BY DEF Given, BodyEntry
  <1>2. o \in existing /\ o.node.key = e.key
    BY <1>9 DEF Old, KeyOf
  <1>3. o.name \in OutNames /\ o.node \in Nodes /\ o.node.tested \in BOOLEAN
    BY <1>1, <1>2 DEF SubItems, Nodes
  <1>4. PICK n : n = IF o.name \in taken THEN UniqueOutboundName(e.base, s, taken) ELSE o.name
    OBVIOUS
  <1>5. n = NoName \/ n \in OutNames \ taken
    BY <1>1, <1>3, <1>4, Unique
  <1>6. PICK d : d = [sub |-> s, key |-> e.key, tested |-> o.node.tested, blocked |-> FALSE]
    OBVIOUS
  <1>7. d \in Nodes /\ d.sub = s /\ d.key = e.key /\ d.tested = o.node.tested
    BY <1>1, <1>3, <1>6 DEF Nodes
  <1>8. Keep(s, e, existing, taken) = [name |-> n, node |-> d]
    BY <1>4, <1>6, <1>9 DEF Keep, Old
  <1> QED
    BY <1>2, <1>9, <1>4, <1>5, <1>7, <1>8 DEF PreItems, KeepFits

\* What a new node is.
NewFits(s, e, taken, x) ==
    /\ x \in PreItems /\ x.node.sub = s /\ x.node.key = e.key
    /\ x.name = NoName \/ x.name \notin taken

\* New makes such a node.
LEMMA NewIs ==
  ASSUME NEW s \in Subs, NEW e \in BodyEntry, NEW taken
  PROVE  NewFits(s, e, taken, New(s, e, taken))
  <1>0. e.key \in Keys /\ e.base \in Bases
    BY DEF BodyEntry
  <1>1. PICK n : n = UniqueOutboundName(e.base, s, taken)
    OBVIOUS
  <1>2. n = NoName \/ n \in OutNames \ taken
    BY <1>0, <1>1, Unique
  <1>3. PICK d : d = [sub |-> s, key |-> e.key, tested |-> FALSE, blocked |-> FALSE]
    OBVIOUS
  <1>4. d \in Nodes /\ d.sub = s /\ d.key = e.key
    BY <1>0, <1>3 DEF Nodes
  <1>5. New(s, e, taken) = [name |-> n, node |-> d]
    BY <1>1, <1>3 DEF New
  <1> QED
    BY <1>2, <1>4, <1>5 DEF PreItems, NewFits

\* The entry that a step of the two passes looks at.
Looked(c, i) == IF i > Len(c) THEN i - Len(c) ELSE i

\* What step i makes of the list.
Grown(s, c, existing, used, l, i, k, m) ==
    /\ k \in 1 .. Len(c) /\ c[k] \in BodyEntry
    /\ \/ m = l
       \/ /\ i <= Len(c) /\ First(c, k) /\ KeyOf(existing, c[k].key) # {}
          /\ m = Append(l, Keep(s, c[k], existing, used \cup NodeNames(l)))
       \/ /\ i > Len(c) /\ KeyOf(existing, c[k].key) = {}
          /\ m = Append(l, New(s, c[k], used \cup NodeNames(l)))
    /\ First(c, k) /\ (i <= Len(c) <=> KeyOf(existing, c[k].key) # {}) /\ l \in Seq(PreItems) => m # l

\* Prepared does that.
LEMMA PreparedIs ==
  ASSUME NEW s, NEW c, NEW existing, Given(s, c, existing), NEW used, NEW l, NEW i \in 1 .. 2 * Len(c)
  PROVE  Grown(s, c, existing, used, l, i, Looked(c, i), Prepared(s, c, existing, used, l, i))
  <1>0. c \in Seq(BodyEntry)
    BY DEF Given
  <1>1. PICK k : k = Looked(c, i)
    OBVIOUS
  <1>2. k \in 1 .. Len(c)
    BY <1>0, <1>1 DEF Looked
  <1>3. c[k] \in BodyEntry
    BY <1>0, <1>2, SeqAt
  <1>4. \A x : l \in Seq(PreItems) => Append(l, x) # l
    <2>1. SUFFICES ASSUME NEW x, l \in Seq(PreItems), Append(l, x) = l PROVE FALSE
      OBVIOUS
    <2>2. Len(Append(l, x)) = Len(l) + 1 /\ Len(l) \in Nat
      BY <2>1
    <2> QED
      BY <2>1, <2>2
  <1>5. CASE i <= Len(c)
    <2>1. k = i /\ ~ (i > Len(c))
      BY <1>1, <1>5 DEF Looked
    <2>2. Prepared(s, c, existing, used, l, i)
            = IF ~First(c, k) \/ KeyOf(existing, c[k].key) = {} THEN l
              ELSE Append(l, Keep(s, c[k], existing, used \cup NodeNames(l)))
      BY <1>5, <2>1, Zenon DEF Prepared
    <2> QED
      BY <1>1, <1>2, <1>3, <1>4, <1>5, <2>2, Zenon DEF Grown
  <1>6. CASE ~(i <= Len(c))
    <2>1. k = i - Len(c) /\ i > Len(c)
      BY <1>1, <1>6 DEF Looked
    <2>2. Prepared(s, c, existing, used, l, i)
            = IF ~First(c, k) \/ KeyOf(existing, c[k].key) # {} THEN l
              ELSE Append(l, New(s, c[k], used \cup NodeNames(l)))
      BY <1>6, <2>1, Zenon DEF Prepared
    <2> QED
      BY <1>1, <1>2, <1>3, <1>4, <1>6, <2>1, <2>2, Zenon DEF Grown
  <1> QED
    BY <1>5, <1>6

\* What Prepare makes of a body: a sound list, not empty if the body is not, and faithful to the nodes
\* that exist if nobody else has their names.
LEMMA PrepareSound ==
  ASSUME NEW s, NEW c, NEW existing, Given(s, c, existing), NEW used
  PROVE  /\ Sound(Prepare(s, c, existing, used), s)
         /\ c # <<>> => Prepare(s, c, existing, used) # <<>>
         /\ /\ \A x, y \in existing : x.name = y.name => x = y
            /\ ItemNames(existing) \cap used = {}
            => Faithful(Prepare(s, c, existing, used), existing)
  <1> DEFINE f == PreparedUpTo(s, c, existing, used)
  <1> DEFINE Top == 2 * Len(c)
  <1>1. f = [i \in 0 .. Top |-> IF i = 0 THEN <<>> ELSE Prepared(s, c, existing, used, f[i - 1], i)]
    BY PreparedSteps DEF Given
  <1>2. Top \in Nat /\ Len(c) \in Nat /\ s \in Subs /\ c \in Seq(BodyEntry)
    BY DEF Given
  <1>3. f[0] = <<>>
    <2> HIDE DEF f
    <2> QED
      BY <1>1, <1>2
  <1>4. \A n \in 0 .. Top : n < Top => n + 1 \in 1 .. Top /\ n \in Nat /\ f[n + 1] = Prepared(s, c, existing, used, f[n], n + 1)
    <2> HIDE DEF f
    <2> TAKE n \in 0 .. Top
    <2> HAVE n < Top
    <2>1. n + 1 \in 0 .. Top /\ n + 1 # 0 /\ (n + 1) - 1 = n /\ n + 1 \in 1 .. Top /\ n \in Nat
      BY <1>2
    <2> QED
      BY <1>1, <2>1
  <1>5. Prepare(s, c, existing, used) = f[Top]
    BY DEF Prepare
  <1> HIDE DEF f
  <1> DEFINE Fit == {n \in 0 .. Top : Sound(f[n], s)}
  <1>6. ASSUME NEW n \in 0 .. Top, n \in Fit, n < Top
        PROVE  n + 1 \in Fit
    <2>1. n + 1 \in 1 .. 2 * Len(c) /\ f[n + 1] = Prepared(s, c, existing, used, f[n], n + 1)
      BY <1>4, <1>6
    <2>2. PICK k : k = Looked(c, n + 1)
      OBVIOUS
    <2>3. PICK taken : taken = used \cup NodeNames(f[n])
      OBVIOUS
    <2>4. /\ c[k] \in BodyEntry
          /\ \/ f[n + 1] = f[n]
             \/ KeyOf(existing, c[k].key) # {} /\ f[n + 1] = Append(f[n], Keep(s, c[k], existing, taken))
             \/ f[n + 1] = Append(f[n], New(s, c[k], taken))
      <3>1. Grown(s, c, existing, used, f[n], n + 1, k, f[n + 1])
        BY <2>1, <2>2, PreparedIs, Zenon
      <3> QED
        BY <2>3, <3>1, Zenon DEF Grown
    <2>5. Sound(f[n], s)
      BY <1>6
    <2>6. Sound(f[n + 1], s)
      <3>1. CASE f[n + 1] = f[n]
        BY <2>5, <3>1
      <3>2. CASE KeyOf(existing, c[k].key) # {} /\ f[n + 1] = Append(f[n], Keep(s, c[k], existing, taken))
        <4>1. PICK x : x = Keep(s, c[k], existing, taken)
          OBVIOUS
        <4>2. x \in PreItems /\ x.node.sub = s /\ (x.name = NoName \/ x.name \notin taken)
          <5>1. KeepFits(s, c[k], existing, taken, x, Old(existing, c[k].key))
            BY <2>4, <3>2, <4>1, KeepIs, Zenon
          <5> QED
            BY <5>1, Zenon DEF KeepFits
        <4> QED
          BY <2>3, <2>5, <3>2, <4>1, <4>2, AppendSound, Zenon
      <3>3. CASE f[n + 1] = Append(f[n], New(s, c[k], taken))
        <4>1. PICK x : x = New(s, c[k], taken)
          OBVIOUS
        <4>2. x \in PreItems /\ x.node.sub = s /\ (x.name = NoName \/ x.name \notin taken)
          <5>1. NewFits(s, c[k], taken, x)
            BY <1>2, <2>4, <4>1, NewIs, Zenon
          <5> QED
            BY <5>1, Zenon DEF NewFits
        <4> QED
          BY <2>3, <2>5, <3>3, <4>1, <4>2, AppendSound, Zenon
      <3> QED
        BY <2>4, <3>1, <3>2, <3>3
    <2>7. n + 1 \in 0 .. Top
      BY <1>2, <1>6
    <2> QED
      BY <2>6, <2>7, Zenon
  <1>7. 0 \in Fit
    <2>1. Sound(<<>>, s)
      BY DEF Sound
    <2>2. 0 \in 0 .. Top
      BY <1>2
    <2> QED
      BY <1>3, <2>1, <2>2, Zenon
  <1>8. Top \in Fit
    <2> HIDE DEF Fit, Top
    <2> QED
      BY <1>2, <1>6, <1>7, SubReaches, SMTT(30)
  <1>9. \A n \in 0 .. Top : n \in Fit
    <2> TAKE n \in 0 .. Top
    <2>1. n \in Nat /\ \A m \in 0 .. n : m \in 0 .. Top /\ (m < n => m < Top)
      BY <1>2
    <2>2. \A m \in 0 .. n : m \in Fit /\ m < n => m + 1 \in Fit
      BY <1>6, <2>1
    <2> HIDE DEF Fit, Top
    <2> QED
      BY <1>7, <2>1, <2>2, SubReaches, SMTT(30)
  <1>10. ASSUME c # <<>> PROVE f[Top] # <<>>
    <2>1. Len(c) > 0 /\ Len(c) + 1 \in 0 .. Top
      BY <1>10
    <2> DEFINE known == KeyOf(existing, c[1].key) # {}
    <2> DEFINE Filled == {n \in 0 .. Top : (n >= 1 /\ known) \/ n > Len(c) => f[n] # <<>>}
    <2>2. 0 \in Filled
      BY <1>2
    <2>3. ASSUME NEW n \in 0 .. Top, n \in Filled, n < Top
          PROVE  n + 1 \in Filled
      <3>1. n + 1 \in 1 .. 2 * Len(c) /\ f[n + 1] = Prepared(s, c, existing, used, f[n], n + 1) /\ n \in Nat
        BY <1>4, <2>3
      <3>2. n + 1 \in 0 .. Top
        BY <1>2, <2>3
      <3>3. Sound(f[n], s) /\ f[n] \in Seq(PreItems)
        BY <1>9 DEF Sound
      <3>4. PICK k : k = Looked(c, n + 1)
        OBVIOUS
      <3>5. PICK taken : taken = used \cup NodeNames(f[n])
        OBVIOUS
      <3>0. Grown(s, c, existing, used, f[n], n + 1, k, f[n + 1])
        BY <3>1, <3>4, PreparedIs, Zenon
      <3>6. f[n + 1] = f[n] \/ \E x : f[n + 1] = Append(f[n], x)
        BY <3>0, Zenon DEF Grown
      <3>7. f[n + 1] # f[n] => f[n + 1] # <<>>
        <4>1. \A x : Append(f[n], x) # <<>>
          BY <3>3
        <4> QED
          BY <3>6, <4>1
      <3>8. First(c, k) /\ (n + 1 <= Len(c) <=> KeyOf(existing, c[k].key) # {}) => f[n + 1] # f[n]
        BY <3>0, <3>3, Zenon DEF Grown
      <3>9. SUFFICES ASSUME (n + 1 >= 1 /\ known) \/ n + 1 > Len(c), f[n + 1] = f[n], f[n] = <<>> PROVE FALSE
        BY <3>2, <3>7, Zenon
      <3>10. ~((n >= 1 /\ known) \/ n > Len(c))
        BY <2>3, <3>9
      <3>11. First(c, 1)
        BY DEF First
      <3>12. CASE known
        <4>1. n = 0
          BY <3>1, <3>10, <3>12
        <4>2. k = 1 /\ n + 1 <= Len(c)
          BY <2>1, <3>4, <4>1 DEF Looked
        <4> QED
          BY <3>8, <3>9, <3>11, <3>12, <4>2
      <3>13. CASE ~known
        <4>1. n = Len(c)
          BY <3>1, <3>9, <3>10, <3>13, <1>2
        <4>2. k = 1 /\ ~(n + 1 <= Len(c))
          BY <2>1, <3>4, <4>1 DEF Looked
        <4> QED
          BY <3>8, <3>9, <3>11, <3>13, <4>2
      <3> QED
        BY <3>12, <3>13
    <2>4. Top \in Filled
      <3> HIDE DEF Filled, Top
      <3> QED
        BY <1>2, <2>2, <2>3, SubReaches, SMTT(30)
    <2>5. Top > Len(c)
      BY <2>1
    <2> QED
      BY <2>4, <2>5
  <1>11. ASSUME \A x, y \in existing : x.name = y.name => x = y,
                ItemNames(existing) \cap used = {}
         PROVE  Faithful(f[Top], existing)
    <2> DEFINE Kept(x) == KeyOf(existing, x.node.key) # {} =>
                  /\ x.name = Old(existing, x.node.key).name
                  /\ x.node.tested = Old(existing, x.node.key).node.tested
    <2> DEFINE Was(x, n) == \E k \in 1 .. n : x.node.key = c[k].key /\ KeyOf(existing, c[k].key) # {}
    <2> DEFINE True == {n \in 0 .. Top : \A i \in DOMAIN f[n] : Kept(f[n][i]) /\ (n <= Len(c) => Was(f[n][i], n))}
    <2>1. 0 \in True
      BY <1>2, <1>3
    <2>2. ASSUME NEW n \in 0 .. Top, n \in True, n < Top
          PROVE  n + 1 \in True
      <3>1. n + 1 \in 1 .. 2 * Len(c) /\ f[n + 1] = Prepared(s, c, existing, used, f[n], n + 1) /\ n \in Nat
        BY <1>4, <2>2
      <3>2. n + 1 \in 0 .. Top
        BY <1>2, <2>2
      <3>3. f[n] \in Seq(PreItems)
        BY <1>9 DEF Sound
      <3>4. PICK k : k = Looked(c, n + 1)
        OBVIOUS
      <3>5. PICK taken : taken = used \cup NodeNames(f[n])
        OBVIOUS
      <3>6. /\ k \in 1 .. Len(c) /\ c[k] \in BodyEntry
            /\ \/ f[n + 1] = f[n]
               \/ /\ n + 1 <= Len(c) /\ First(c, k) /\ KeyOf(existing, c[k].key) # {}
                  /\ f[n + 1] = Append(f[n], Keep(s, c[k], existing, taken))
               \/ /\ n + 1 > Len(c) /\ KeyOf(existing, c[k].key) = {}
                  /\ f[n + 1] = Append(f[n], New(s, c[k], taken))
        <4>1. Grown(s, c, existing, used, f[n], n + 1, k, f[n + 1])
          BY <3>1, <3>4, PreparedIs, Zenon
        <4> QED
          BY <3>5, <4>1, Zenon DEF Grown
      <3>7. ASSUME NEW i \in DOMAIN f[n] PROVE Kept(f[n][i]) /\ (n + 1 <= Len(c) => Was(f[n][i], n + 1))
        <4>1. Kept(f[n][i]) /\ (n <= Len(c) => Was(f[n][i], n))
          BY <2>2
        <4>2. 1 .. n \subseteq 1 .. n + 1 /\ (n + 1 <= Len(c) => n <= Len(c))
          BY <3>1, <1>2
        <4> QED
          BY <4>1, <4>2, Zenon
      <3>8. ASSUME NEW x, f[n + 1] = Append(f[n], x), Kept(x), n + 1 <= Len(c) => Was(x, n + 1)
            PROVE  n + 1 \in True
        <4>1. /\ DOMAIN f[n + 1] = 1 .. Len(f[n]) + 1 /\ DOMAIN f[n] = 1 .. Len(f[n]) /\ Len(f[n]) \in Nat
              /\ f[n + 1][Len(f[n]) + 1] = x /\ \A i \in 1 .. Len(f[n]) : f[n + 1][i] = f[n][i]
          BY <3>3, <3>8
        <4>2. ASSUME NEW i \in DOMAIN f[n + 1]
              PROVE  Kept(f[n + 1][i]) /\ (n + 1 <= Len(c) => Was(f[n + 1][i], n + 1))
          <5>1. (i \in DOMAIN f[n] /\ f[n + 1][i] = f[n][i]) \/ f[n + 1][i] = x
            BY <4>1
          <5> QED
            BY <3>7, <3>8, <5>1, Zenon
        <4> QED
          BY <3>2, <4>2, Zenon
      <3>9. CASE f[n + 1] = f[n]
        BY <3>2, <3>7, <3>9, Zenon
      <3>10. CASE /\ n + 1 <= Len(c) /\ First(c, k) /\ KeyOf(existing, c[k].key) # {}
                  /\ f[n + 1] = Append(f[n], Keep(s, c[k], existing, taken))
        <4>1. PICK x : x = Keep(s, c[k], existing, taken)
          OBVIOUS
        <4>2. PICK o : o = Old(existing, c[k].key)
          OBVIOUS
        <4>3. /\ x.node.key = c[k].key /\ o \in existing /\ o.node.key = c[k].key
              /\ x.node.tested = o.node.tested /\ (o.name \notin taken => x.name = o.name)
          <5>1. KeepFits(s, c[k], existing, taken, x, o)
            BY <3>6, <3>10, <4>1, <4>2, KeepIs, Zenon
          <5> QED
            BY <5>1, Zenon DEF KeepFits
        <4>4. k = n + 1
          BY <3>1, <3>4, <3>10 DEF Looked
        <4>5. o.name \notin taken
          <5>1. o.name \notin used
            BY <1>11, <4>3 DEF ItemNames
          <5>2. ASSUME NEW i \in DOMAIN f[n], f[n][i].name = o.name PROVE FALSE
            <6>1. n <= Len(c)
              BY <3>1, <3>10, <1>2
            <6>2. PICK m \in 1 .. n : f[n][i].node.key = c[m].key /\ KeyOf(existing, c[m].key) # {}
              BY <2>2, <6>1
            <6>3. f[n][i].name = Old(existing, c[m].key).name
              BY <2>2, <6>2
            <6>4. Old(existing, c[m].key) \in existing /\ Old(existing, c[m].key).node.key = c[m].key
              BY <6>2 DEF Old, KeyOf
            <6>5. Old(existing, c[m].key) = o
              BY <1>11, <4>3, <5>2, <6>3, <6>4
            <6>6. m \in 1 .. k - 1
              BY <3>1, <4>4
            <6> QED
              BY <3>10, <4>3, <6>4, <6>5, <6>6 DEF First
          <5> QED
            BY <3>5, <5>1, <5>2 DEF NodeNames
        <4>6. Kept(x)
          BY <4>2, <4>3, <4>5
        <4>7. Was(x, n + 1)
          <5>1. k \in 1 .. n + 1
            BY <3>1, <4>4
          <5> QED
            BY <3>10, <4>3, <5>1, Zenon
        <4> HIDE DEF True, Kept, Was
        <4> QED
          BY <3>8, <3>10, <4>1, <4>6, <4>7, Zenon
      <3>11. CASE /\ n + 1 > Len(c) /\ KeyOf(existing, c[k].key) = {}
                  /\ f[n + 1] = Append(f[n], New(s, c[k], taken))
        <4>1. PICK x : x = New(s, c[k], taken)
          OBVIOUS
        <4>2. x.node.key = c[k].key
          <5>1. NewFits(s, c[k], taken, x)
            BY <1>2, <3>6, <4>1, NewIs, Zenon
          <5> QED
            BY <5>1, Zenon DEF NewFits
        <4>3. Kept(x)
          BY <3>11, <4>2
        <4>4. ~(n + 1 <= Len(c))
          BY <3>1, <3>11, <1>2
        <4> HIDE DEF True, Kept, Was
        <4> QED
          BY <3>8, <3>11, <4>1, <4>3, <4>4, Zenon
      <3> QED
        BY <3>6, <3>9, <3>10, <3>11
    <2>3. Top \in True
      <3> HIDE DEF True, Top
      <3> QED
        BY <1>2, <2>1, <2>2, SubReaches, SMTT(30)
    <2>4. ASSUME NEW i \in DOMAIN f[Top], NEW x \in existing,
                 f[Top][i].node.key = x.node.key, \A y \in existing : y.node.key = x.node.key => y = x
          PROVE  f[Top][i].name = x.name /\ f[Top][i].node.tested = x.node.tested
      <3>1. x \in KeyOf(existing, x.node.key)
        BY DEF KeyOf
      <3>2. Old(existing, x.node.key) = x
        BY <2>4, <3>1 DEF Old, KeyOf
      <3> QED
        BY <2>3, <2>4, <3>1, <3>2
    <2> QED
      BY <2>4 DEF Faithful
  <1>12. Sound(f[Top], s)
    BY <1>8
  <1> QED
    BY <1>5, <1>10, <1>11, <1>12, Zenon

\* The nodes of a map under some names.
LEMMA ItemsFit ==
  ASSUME NEW m, OutMap(m), NEW names \in SUBSET OutNames
  PROVE  /\ AsItems(m, names) \subseteq SubItems /\ IsFiniteSet(AsItems(m, names))
         /\ ItemNames(AsItems(m, names)) = names
         /\ \A x \in AsItems(m, names) : x.name \in names /\ x.node = m[x.name]
         /\ \A x, y \in AsItems(m, names) : x.name = y.name => x = y
  <1>1. \A n \in OutNames : m[n] \in Nodes
    BY DEF OutMap, Maps
  <1>2. AsItems(m, names) \subseteq SubItems
    BY <1>1 DEF AsItems, SubItems
  <1>3. \A x \in AsItems(m, names) : x.name \in names /\ x.node = m[x.name]
    BY DEF AsItems
  <1>4. ItemNames(AsItems(m, names)) = names
    <2>1. PICK T : T = AsItems(m, names)
      OBVIOUS
    <2>2. ASSUME NEW n \in names PROVE \E x \in T : x.name = n
      <3>1. [name |-> n, node |-> m[n]] \in T
        BY <2>1 DEF AsItems
      <3> QED
        BY <3>1
    <2>3. ASSUME NEW x \in T PROVE x.name \in names
      BY <1>3, <2>1
    <2> QED
      BY <2>1, <2>2, <2>3 DEF ItemNames
  <1>5. \A x, y \in AsItems(m, names) : x.name = y.name => x = y
    BY DEF AsItems
  <1>6. IsFiniteSet(AsItems(m, names))
    <2>1. PICK T : T = AsItems(m, names)
      OBVIOUS
    <2>2. PICK f : f = [n \in names |-> [name |-> n, node |-> m[n]]]
      OBVIOUS
    <2>3. f \in Surjection(names, T)
      BY <2>1, <2>2 DEF Surjection, AsItems
    <2>4. IsFiniteSet(names)
      BY SubFinite, FS_Subset
    <2> QED
      BY <2>1, <2>3, <2>4, FS_Surjection
  <1> QED
    BY <1>2, <1>3, <1>4, <1>5, <1>6

\* The nodes of a map as a list: each once.
LEMMA ListFit ==
  ASSUME NEW m, OutMap(m), NEW names \in SUBSET OutNames, NEW l, l = AsList(m, names)
  PROVE  /\ l \in Seq(SubItems) /\ NodeNames(l) = names
         /\ \A i \in DOMAIN l : l[i].name \in names /\ l[i].node = m[l[i].name]
         /\ \A i, k \in DOMAIN l : l[i].name = l[k].name => i = k
  <1>1. PICK S : S = AsItems(m, names)
    OBVIOUS
  <1>2. /\ S \subseteq SubItems /\ IsFiniteSet(S) /\ ItemNames(S) = names
        /\ \A x \in S : x.name \in names /\ x.node = m[x.name]
        /\ \A x, y \in S : x.name = y.name => x = y
    BY <1>1, ItemsFit, Zenon
  <1>3. l = SetToSeq(S)
    BY <1>1 DEF AsList
  <1>4. l \in Seq(S) /\ {l[i] : i \in DOMAIN l} = S /\ \A i, k \in DOMAIN l : l[i] = l[k] => i = k
    <2>1. Listed(l, S)
      BY <1>2, <1>3, Sequenced
    <2> QED
      BY <2>1 DEF Listed
  <1>5. l \in Seq(SubItems)
    BY <1>2, <1>4
  <1>6. \A i \in DOMAIN l : l[i] \in S
    BY <1>4, Zenon
  <1>7. \A i \in DOMAIN l : l[i].name \in names /\ l[i].node = m[l[i].name]
    BY <1>2, <1>6, Zenon
  <1>8. \A i, k \in DOMAIN l : l[i].name = l[k].name => i = k
    <2> TAKE i, k \in DOMAIN l
    <2> HAVE l[i].name = l[k].name
    <2>1. l[i] = l[k]
      BY <1>2, <1>6
    <2> QED
      BY <1>4, <2>1
  <1>9. NodeNames(l) = ItemNames(S)
    <2>1. ASSUME NEW x \in S PROVE \E i \in DOMAIN l : l[i] = x
      BY <1>4
    <2> QED
      BY <1>6, <2>1 DEF NodeNames, ItemNames
  <1> QED
    BY <1>2, <1>5, <1>7, <1>8, <1>9

\* The queue of an update: entries that are there.
LEMMA OrderFit ==
  ASSUME EntriesFit, NEW ids \in SUBSET Subs, NEW q, q = Order(ids)
  PROVE  q \in Seq(Queued) /\ \A i \in DOMAIN q : q[i].sid \in ids /\ q[i].copy = subs[q[i].sid]
  <1>1. PICK S : S = {[sid |-> s, copy |-> subs[s]] : s \in ids}
    OBVIOUS
  <1>2. S \subseteq Queued /\ \A x \in S : x.sid \in ids /\ x.copy = subs[x.sid]
    BY <1>1 DEF EntriesFit, Queued
  <1>3. IsFiniteSet(S)
    <2>1. PICK f : f = [s \in ids |-> [sid |-> s, copy |-> subs[s]]]
      OBVIOUS
    <2>2. f \in Surjection(ids, S)
      BY <1>1, <2>1 DEF Surjection
    <2>3. IsFiniteSet(ids)
      BY SubConstants, FS_Subset
    <2> QED
      BY <2>2, <2>3, FS_Surjection
  <1>4. q = SetToSeq(S)
    BY <1>1 DEF Order
  <1>5. q \in Seq(S)
    BY <1>3, <1>4, Sequenced DEF Listed
  <1>6. q \in Seq(Queued)
    BY <1>2, <1>5
  <1>7. \A i \in DOMAIN q : q[i] \in S
    BY <1>5
  <1> QED
    BY <1>2, <1>6, <1>7, Zenon

\* The rest of a queue.
LEMMA TailFit ==
  ASSUME NEW R, NEW l \in Seq(R), l # <<>>
  PROVE  /\ Head(l) \in R /\ Tail(l) \in Seq(R) /\ Head(l) = l[1] /\ 1 \in DOMAIN l
         /\ \A i \in DOMAIN Tail(l) : i + 1 \in DOMAIN l /\ Tail(l)[i] = l[i + 1] /\ i \in Nat /\ i + 1 # 1
         /\ \A i \in DOMAIN l : i = 1 \/ (i - 1 \in DOMAIN Tail(l) /\ Tail(l)[i - 1] = l[i])
  OBVIOUS

\* What is left of a list when its first item is taken.
LEMMA TailNames ==
  ASSUME NEW l \in Seq(SubItems), l # <<>>, \A i, k \in DOMAIN l : l[i].name = l[k].name => i = k
  PROVE  /\ NodeNames(l) = NodeNames(Tail(l)) \cup {Head(l).name}
         /\ Head(l).name \notin NodeNames(Tail(l))
         /\ \A i, k \in DOMAIN Tail(l) : Tail(l)[i].name = Tail(l)[k].name => i = k
         /\ \A i \in DOMAIN Tail(l) : \E k \in DOMAIN l : Tail(l)[i] = l[k]
  <1>1. PICK t : t = Tail(l)
    OBVIOUS
  <1>2. PICK h : h = Head(l)
    OBVIOUS
  <1>3. /\ h = l[1] /\ 1 \in DOMAIN l
        /\ \A i \in DOMAIN t : i + 1 \in DOMAIN l /\ t[i] = l[i + 1] /\ i \in Nat /\ i + 1 # 1
        /\ \A i \in DOMAIN l : i = 1 \/ (i - 1 \in DOMAIN t /\ t[i - 1] = l[i])
    BY <1>1, <1>2, TailFit
  <1>4. h.name \notin NodeNames(t)
    BY <1>3 DEF NodeNames
  <1>5. NodeNames(l) = NodeNames(t) \cup {h.name}
    <2>1. ASSUME NEW i \in DOMAIN l PROVE l[i].name \in NodeNames(t) \cup {h.name}
      BY <1>3 DEF NodeNames
    <2>2. ASSUME NEW i \in DOMAIN t PROVE t[i].name \in NodeNames(l)
      BY <1>3 DEF NodeNames
    <2>3. h.name \in NodeNames(l)
      BY <1>3 DEF NodeNames
    <2> QED
      BY <2>1, <2>2, <2>3 DEF NodeNames
  <1>6. \A i, k \in DOMAIN t : t[i].name = t[k].name => i = k
    <2> TAKE i, k \in DOMAIN t
    <2> HAVE t[i].name = t[k].name
    <2>1. i \in Nat /\ k \in Nat
      BY <1>3
    <2>2. PICK a, b : a = i + 1 /\ b = k + 1
      OBVIOUS
    <2>3. a \in DOMAIN l /\ b \in DOMAIN l /\ l[a].name = l[b].name
      BY <1>3, <2>2
    <2>4. a = b
      BY <2>3
    <2> QED
      BY <2>1, <2>2, <2>4
  <1>7. \A i \in DOMAIN t : \E k \in DOMAIN l : t[i] = l[k]
    BY <1>3
  <1> QED
    BY <1>1, <1>2, <1>4, <1>5, <1>6, <1>7

\* The world is left alone.
LEMMA WorldStill ==
  ASSUME World, UNCHANGED <<subs, conf, file, rt, server, now, faults>> PROVE World'
  BY DEF World, EntriesFit, OutMap

\* The scheduler is a job.
LEMMA SchedulerIs == Scheduler \in JobIds
  BY DEF JobIds

-----------------------------------------------------------------------------
(* SubTypes: one lemma for each step of a request.                         *)

LEMMA ReadExistingFit ==
  ASSUME SubTypes, NEW j \in JobIds, ReadExisting(j), AstrayStep
  PROVE  SubTypes'
  <1>1. World'
    BY WorldStill DEF SubTypes, ReadExisting
  <1>2. DOMAIN jobs[j] = JobFields /\ JobFit(j, jobs[j])
    BY DEF SubTypes, JobFit, JobRec
  <1>3. PICK r : r = jobs[j]
    OBVIOUS
  <1>4. AsItems(conf, OfSub(conf, r.sid)) \subseteq SubItems
    <2>1. OfSub(conf, r.sid) \in SUBSET OutNames /\ OutMap(conf)
      BY DEF OfSub, SubTypes, World
    <2> QED
      BY <2>1, ItemsFit, Zenon
  <1>8. JobFit(j, [r EXCEPT !.pc = IF r.op = "delete" THEN "replace" ELSE "used", !.existing = AsItems(conf, OfSub(conf, r.sid))])
    BY <1>2, <1>3, <1>4 DEF JobFit, JobRec, RouteOK, JobHolds, JobFields, Serving, OfEntry, OfNode,
       Upd, SubPcs, Operations, ReadExisting
  <1> QED
    BY <1>1, <1>3, <1>8, TypesStep DEF ReadExisting, Goto, End

LEMMA SyncDoneFit == ASSUME SubTypes, NEW j \in JobIds, SyncDone(j), AstrayStep PROVE SubTypes'
  <1>1. World'
    BY WorldStill DEF SubTypes, SyncDone
  <1>2. DOMAIN jobs[j] = JobFields /\ JobFit(j, jobs[j])
    BY DEF SubTypes, JobFit, JobRec
  <1>3. PICK r : r = jobs[j]
    OBVIOUS
  <1>8. JobFit(j, [r EXCEPT !.pc = AfterService(j, FALSE)])
    BY <1>2, <1>3 DEF JobFit, JobRec, RouteOK, JobHolds, JobFields, Serving, OfEntry, OfNode, Upd,
       SubPcs, Operations, SyncDone, AfterService
  <1> QED
    BY <1>1, <1>3, <1>8, TypesStep DEF SyncDone, Goto, End

LEMMA UpdatesDoneFit ==
  ASSUME SubTypes, NEW j \in JobIds, UpdatesDone(j), AstrayStep
  PROVE  SubTypes'
  <1>1. World'
    BY WorldStill DEF SubTypes, UpdatesDone
  <1>2. DOMAIN jobs[j] = JobFields /\ JobFit(j, jobs[j])
    BY DEF SubTypes, JobFit, JobRec
  <1>3. PICK r : r = jobs[j]
    OBVIOUS
  <1>8. JobFit(j, [r EXCEPT !.pc = IF j = Scheduler THEN "ready" ELSE "done"])
    BY <1>2, <1>3 DEF JobFit, JobRec, RouteOK, JobHolds, JobFields, Serving, OfEntry, OfNode, Upd,
       SubPcs, Operations, UpdatesDone
  <1> QED
    BY <1>1, <1>3, <1>8, TypesStep DEF UpdatesDone, Goto, End

LEMMA DeleteProxySubscriptionFit ==
  ASSUME SubTypes, NEW j \in JobIds, DeleteProxySubscription(j), AstrayStep
  PROVE  SubTypes'
  <1>1. World'
    BY WorldStill DEF SubTypes, DeleteProxySubscription
  <1>2. DOMAIN jobs[j] = JobFields /\ JobFit(j, jobs[j])
    BY DEF SubTypes, JobFit, JobRec
  <1>3. PICK r : r = jobs[j]
    OBVIOUS
  <1>8. JobFit(j, [r EXCEPT !.pc = IF subs[r.sid] = NoSub THEN "done" ELSE "existing"])
    BY <1>2, <1>3 DEF JobFit, JobRec, RouteOK, JobHolds, JobFields, Serving, OfEntry, OfNode, Upd,
       SubPcs, Operations, DeleteProxySubscription
  <1> QED
    BY <1>1, <1>3, <1>8, TypesStep DEF DeleteProxySubscription, Goto, End

LEMMA EditReadsFit ==
  ASSUME SubTypes, NEW j \in JobIds, EditReads(j), AstrayStep
  PROVE  SubTypes'
  <1>1. World'
    BY WorldStill DEF SubTypes, EditReads
  <1>2. DOMAIN jobs[j] = JobFields /\ JobFit(j, jobs[j])
    BY DEF SubTypes, JobFit, JobRec
  <1>3. PICK r : r = jobs[j]
    OBVIOUS
  <1>8. JobFit(j, [r EXCEPT !.pc = IF subs[r.sid] = NoSub THEN "done" ELSE "write", !.copy = subs[r.sid]])
    BY <1>2, <1>3 DEF JobFit, JobRec, RouteOK, JobHolds, JobFields, Serving, OfEntry, OfNode, Upd,
       SubPcs, Operations, EditReads, SubTypes, World, EntriesFit
  <1> QED
    BY <1>1, <1>3, <1>8, TypesStep DEF EditReads, Goto, End

LEMMA CascadeReadsFit ==
  ASSUME SubTypes, NEW j \in JobIds, CascadeReads(j), AstrayStep
  PROVE  SubTypes'
  <1>1. World'
    BY WorldStill DEF SubTypes, CascadeReads
  <1>2. DOMAIN jobs[j] = JobFields /\ JobFit(j, jobs[j])
    BY DEF SubTypes, JobFit, JobRec
  <1>3. PICK r : r = jobs[j]
    OBVIOUS
  <1>4. CascadeTarget(r.name, r.group) \in Refs
    BY DEF SubTypes, World, CascadeTarget, Refs, Direct
  <1>8. JobFit(j, [r EXCEPT !.pc = IF CascadeTarget(r.name, r.group) = server THEN (IF r.op = "reload" THEN "apply" ELSE "done") ELSE "repoint", !.ref = CascadeTarget(r.name, r.group)])
    BY <1>2, <1>3, <1>4 DEF JobFit, JobRec, RouteOK, JobHolds, JobFields, Serving, OfEntry, OfNode,
       Upd, SubPcs, Operations, CascadeReads
  <1> QED
    BY <1>1, <1>3, <1>8, TypesStep DEF CascadeReads, Goto, End

LEMMA ReloadDoneFit ==
  ASSUME SubTypes, NEW j \in JobIds, ReloadDone(j), AstrayStep
  PROVE  SubTypes'
  <1>1. World'
    BY WorldStill DEF SubTypes, ReloadDone
  <1>2. DOMAIN jobs[j] = JobFields /\ JobFit(j, jobs[j])
    BY DEF SubTypes, JobFit, JobRec
  <1>3. PICK r : r = jobs[j]
    OBVIOUS
  <1>8. JobFit(j, [r EXCEPT !.pc = "done", !.next = <<>>, !.todo = {}, !.existing = {}, !.err = FALSE])
    BY <1>2, <1>3 DEF JobFit, JobRec, RouteOK, JobHolds, JobFields, Serving, OfEntry, OfNode, Upd,
       SubPcs, Operations, ReloadDone
  <1> QED
    BY <1>1, <1>3, <1>8, TypesStep DEF ReloadDone, Goto, End

LEMMA ReadWantedFit ==
  ASSUME SubTypes, NEW j \in JobIds, ReadWanted(j), AstrayStep
  PROVE  SubTypes'
  <1>1. World'
    BY WorldStill DEF SubTypes, ReadWanted
  <1>2. DOMAIN jobs[j] = JobFields /\ JobFit(j, jobs[j])
    BY DEF SubTypes, JobFit, JobRec
  <1>3. PICK r : r = jobs[j]
    OBVIOUS
  <1>4. PICK l : l = AsList(conf, NamesOf(conf))
    OBVIOUS
  <1>5. /\ l \in Seq(SubItems) /\ \A i \in DOMAIN l : l[i].node.sub # "absent"
        /\ \A i, k \in DOMAIN l : l[i].name = l[k].name => i = k
    <2>1. NamesOf(conf) \in SUBSET OutNames /\ OutMap(conf)
      BY DEF NamesOf, SubTypes, World
    <2>2. /\ l \in Seq(SubItems) /\ \A i, k \in DOMAIN l : l[i].name = l[k].name => i = k
          /\ \A i \in DOMAIN l : l[i].name \in NamesOf(conf) /\ l[i].node = conf[l[i].name]
      BY <1>4, <2>1, ListFit
    <2>3. \A n \in NamesOf(conf) : conf[n].sub # "absent"
      BY <2>1, NodeAbsent DEF NamesOf
    <2> QED
      BY <2>2, <2>3
  <1>8. JobFit(j, [r EXCEPT !.pc = "have", !.next = AsList(conf, NamesOf(conf))])
    BY <1>2, <1>3, <1>4, <1>5 DEF JobFit, JobRec, RouteOK, JobHolds, JobFields, Serving, OfEntry,
       OfNode, Upd, SubPcs, Operations, ReadWanted
  <1> QED
    BY <1>1, <1>3, <1>8, TypesStep DEF ReadWanted, Goto, End

LEMMA ReadCurrentFit ==
  ASSUME SubTypes, NEW j \in JobIds, ReadCurrent(j), AstrayStep
  PROVE  SubTypes'
  <1>1. World'
    BY WorldStill DEF SubTypes, ReadCurrent
  <1>2. DOMAIN jobs[j] = JobFields /\ JobFit(j, jobs[j])
    BY DEF SubTypes, JobFit, JobRec
  <1>3. PICK r : r = jobs[j]
    OBVIOUS
  <1>4. AsItems(rt, NamesOf(rt)) \subseteq SubItems /\ NamesOf(rt) \subseteq OutNames
    <2>1. NamesOf(rt) \in SUBSET OutNames /\ OutMap(rt)
      BY DEF NamesOf, SubTypes, World
    <2> QED
      BY <2>1, ItemsFit, Zenon
  <1>8. JobFit(j, [r EXCEPT !.pc = "apply", !.existing = AsItems(rt, NamesOf(rt)), !.todo = NamesOf(rt) \ NodeNames(r.next)])
    BY <1>2, <1>3, <1>4 DEF JobFit, JobRec, RouteOK, JobHolds, JobFields, Serving, OfEntry, OfNode,
       Upd, SubPcs, Operations, ReadCurrent
  <1> QED
    BY <1>1, <1>3, <1>8, TypesStep DEF ReadCurrent, Goto, End

LEMMA BeginUpdateFit ==
  ASSUME SubTypes, NEW j \in JobIds, BeginUpdate(j), AstrayStep
  PROVE  SubTypes'
  <1>1. World'
    BY WorldStill DEF SubTypes, BeginUpdate
  <1>2. DOMAIN jobs[j] = JobFields /\ JobFit(j, jobs[j])
    BY DEF SubTypes, JobFit, JobRec
  <1>3. PICK r : r = jobs[j]
    OBVIOUS
  <1>4. PICK q : q = Order({s \in Subs : Enabled(s) /\ (r.op = "now" => s = r.sid)})
    OBVIOUS
  <1>5. q \in Seq(Queued) /\ \A i \in DOMAIN q : q[i].copy.rev > 0
    <2>1. PICK ids : ids = {s \in Subs : Enabled(s) /\ (r.op = "now" => s = r.sid)}
      OBVIOUS
    <2>2. ids \in SUBSET Subs /\ \A s \in ids : subs[s] # NoSub
      BY <2>1 DEF Enabled
    <2>3. EntriesFit
      BY DEF SubTypes, World
    <2>4. q \in Seq(Queued) /\ \A i \in DOMAIN q : q[i].sid \in ids /\ q[i].copy = subs[q[i].sid]
      <3>1. q = Order(ids)
        BY <1>4, <2>1, Zenon
      <3> QED
        BY <2>2, <2>3, <3>1, OrderFit, Zenon
    <2> QED
      BY <2>2, <2>3, <2>4 DEF EntriesFit
  <1>8. JobFit(j, [r EXCEPT !.pc = "next", !.queue = Order({s \in Subs : Enabled(s) /\ (r.op = "now" => s = r.sid)})])
    BY <1>2, <1>3, <1>4, <1>5 DEF JobFit, JobRec, RouteOK, JobHolds, JobFields, Serving, OfEntry,
       OfNode, Upd, SubPcs, Operations, BeginUpdate
  <1> QED
    BY <1>1, <1>3, <1>8, TypesStep DEF BeginUpdate, Goto, End

LEMMA RunOnceFit == ASSUME SubTypes, RunOnce, AstrayStep PROVE SubTypes'
  <1>1. World'
    BY WorldStill DEF SubTypes, RunOnce
  <1>2. DOMAIN jobs[Scheduler] = JobFields /\ JobFit(Scheduler, jobs[Scheduler])
    BY SchedulerIs DEF SubTypes, JobFit, JobRec
  <1>3. PICK r : r = jobs[Scheduler]
    OBVIOUS
  <1>4. PICK q : q = Order({s \in Subs : subs[s] # NoSub /\ Due(subs[s])})
    OBVIOUS
  <1>5. q \in Seq(Queued) /\ \A i \in DOMAIN q : q[i].copy.rev > 0
    <2>1. PICK ids : ids = {s \in Subs : subs[s] # NoSub /\ Due(subs[s])}
      OBVIOUS
    <2>2. ids \in SUBSET Subs /\ \A s \in ids : subs[s] # NoSub
      BY <2>1 DEF Enabled
    <2>3. EntriesFit
      BY DEF SubTypes, World
    <2>4. q \in Seq(Queued) /\ \A i \in DOMAIN q : q[i].sid \in ids /\ q[i].copy = subs[q[i].sid]
      <3>1. q = Order(ids)
        BY <1>4, <2>1, Zenon
      <3> QED
        BY <2>2, <2>3, <3>1, OrderFit, Zenon
    <2> QED
      BY <2>2, <2>3, <2>4 DEF EntriesFit
  <1>8. JobFit(Scheduler, [r EXCEPT !.pc = "next", !.at = now, !.queue = Order({s \in Subs : subs[s] # NoSub /\ Due(subs[s])})])
    BY <1>2, <1>3, <1>4, <1>5 DEF JobFit, JobRec, RouteOK, JobHolds, JobFields, Serving, OfEntry,
       OfNode, Upd, SubPcs, Operations, RunOnce, SubTypes, World
  <1> QED
    BY <1>1, <1>3, <1>8, SchedulerIs, TypesStep DEF RunOnce, Goto, End

\* What ReplaceSubscriptionOutbounds makes of the configuration: the nodes of the list, none other of
\* the subscription, and the rest as it was.
LEMMA ReplacedIs ==
  ASSUME OutMap(conf), NEW s \in Subs, NEW next \in Seq(SubItems), \A i \in DOMAIN next : next[i].node.sub = s,
         \A i, k \in DOMAIN next : next[i].name = next[k].name => i = k
  PROVE  /\ OutMap(Replaced(s, next))
         /\ \A i \in DOMAIN next : Replaced(s, next)[next[i].name] = next[i].node
         /\ \A n \in OutNames \ NodeNames(next) : Replaced(s, next)[n] = IF conf[n].sub = s THEN NoNode ELSE conf[n]
  <1>1. PICK m : m = Replaced(s, next)
    OBVIOUS
  <1>2. m = [n \in OutNames |-> m[n]]
    BY <1>1 DEF Replaced
  <1>3. ASSUME NEW i \in DOMAIN next PROVE m[next[i].name] = next[i].node /\ next[i] \in SubItems
    <2>1. next[i] \in SubItems
      OBVIOUS
    <2>2. PICK n \in OutNames : n = next[i].name
      BY <2>1 DEF SubItems
    <2>3. PICK T : T = {next[k] : k \in DOMAIN next}
      OBVIOUS
    <2>4. \A x \in T : x.name = n => x = next[i]
      BY <2>2, <2>3
    <2>5. next[i] \in T
      BY <2>3
    <2>6. (CHOOSE x \in T : x.name = n) = next[i]
      BY <2>2, <2>4, <2>5
    <2>7. m[n] = (CHOOSE x \in T : x.name = n).node
      BY <1>1, <2>2, <2>3 DEF Replaced
    <2> QED
      BY <2>1, <2>2, <2>6, <2>7
  <1>4. ASSUME NEW n \in OutNames \ NodeNames(next) PROVE m[n] = IF conf[n].sub = s THEN NoNode ELSE conf[n]
    BY <1>1 DEF Replaced, NodeNames
  <1>5. ASSUME NEW n \in OutNames PROVE m[n] \in Nodes /\ (m[n].sub = "absent" => m[n] = NoNode)
    <2>1. CASE n \in NodeNames(next)
      <3>1. PICK i \in DOMAIN next : n = next[i].name
        BY <2>1 DEF NodeNames
      <3>2. m[n] \in Nodes /\ m[n].sub = s
        BY <1>3, <3>1 DEF SubItems
      <3> QED
        BY <3>2, SubConstants
    <2>2. CASE n \notin NodeNames(next)
      BY <1>4, <2>2, NodeAbsent, OutNodes
    <2> QED
      BY <2>1, <2>2
  <1>6. OutMap(m)
    BY <1>2, <1>5 DEF OutMap, Maps
  <1> QED
    BY <1>1, <1>3, <1>4, <1>6

\* A step that changes only the configuration, only the running map, or only the entries.
LEMMA Saved ==
  ASSUME World, NEW m, OutMap(m), SaveWorks(m) \/ SaveFails(m), UNCHANGED <<subs, rt, server, now>>
  PROVE  World'
  BY DEF World, EntriesFit, OutMap, SaveWorks, SaveFails

LEMMA RanOn ==
  ASSUME World, OutMap(rt'), UNCHANGED <<subs, conf, file, server, now, faults>>
  PROVE  World'
  BY DEF World, EntriesFit, OutMap

LEMMA Entered ==
  ASSUME World, EntriesFit', UNCHANGED <<conf, file, rt, server, now>>,
         UNCHANGED faults \/ (faults > 0 /\ faults' = faults - 1)
  PROVE  World'
  BY DEF World, OutMap

\* An entry is stored, with the outcome of an update or as the user typed it.
LEMMA StoredFit ==
  ASSUME EntriesFit, NEW s \in Subs, NEW to \in Subs, NEW copy \in SubEntries, copy.rev > 0, subs' = Stored(s, to, copy)
  PROVE  EntriesFit'
  <1>1. NoSub \in SubEntries
    BY OutNodes
  <1> QED
    BY <1>1 DEF EntriesFit, Stored

LEMMA Outlasts == ASSUME NEW e \in SubEntries, NEW t \in 0 .. MaxTime, NEW b \in BOOLEAN
  PROVE  [e EXCEPT !.last = t] \in SubEntries /\ [e EXCEPT !.last = t, !.err = b] \in SubEntries
         /\ [e EXCEPT !.last = t].rev = e.rev /\ [e EXCEPT !.last = t, !.err = b].rev = e.rev
         /\ [e EXCEPT !.last = e.last, !.err = b] \in SubEntries /\ [e EXCEPT !.last = e.last, !.err = b].rev = e.rev
  BY DEF SubEntries

LEMMA Typed == ASSUME NEW e \in SubEntries, NEW mode \in Modes, NEW on \in BOOLEAN, now \in 0 .. MaxTime
  PROVE  ManualSave(ToConfig(e, mode, on)) \in SubEntries /\ ManualSave(ToConfig(e, mode, on)).rev > 0
  <1>1. PICK c : c = ToConfig(e, mode, on)
    OBVIOUS
  <1>2. c \in SubEntries /\ c.rev > 0
    <2>1. e.rev \in Nat /\ e.last \in 0 .. MaxTime /\ e.err \in BOOLEAN /\ DOMAIN e = {"rev", "on", "mode", "last", "err"}
      BY DEF SubEntries
    <2>2. c = [rev |-> e.rev + 1, on |-> on, mode |-> mode, last |-> e.last, err |-> e.err]
      BY <1>1, <2>1 DEF ToConfig
    <2> QED
      BY <2>1, <2>2 DEF SubEntries
  <1> QED
    BY <1>1, <1>2, Outlasts DEF ManualSave

\* The operations of the running map keep it one.
LEMMA RuntimeUpdated ==
  ASSUME OutMap(rt), NEW n \in OutNames, NEW to \in OutNames, NEW node \in Nodes, node.sub # "absent",
         RuntimeUpdateOutbound(n, to, node)
  PROVE  OutMap(rt')
  BY OutNodes DEF OutMap, Maps, RuntimeUpdateOutbound, Renamed

LEMMA RuntimeAdded ==
  ASSUME OutMap(rt), NEW n \in OutNames, NEW node \in Nodes, node.sub # "absent", RuntimeAddOutbound(n, node)
  PROVE  OutMap(rt')
  BY OutNodes DEF OutMap, Maps, RuntimeAddOutbound

LEMMA Dropped ==
  ASSUME NEW m, OutMap(m), NEW n \in OutNames
  PROVE  OutMap([m EXCEPT ![n] = NoNode])
  BY OutMapSet, OutNodes

\* A request is a record that fits.
LEMMA JobIn ==
  ASSUME SubTypes, NEW j \in JobIds
  PROVE  DOMAIN jobs[j] = JobFields /\ JobFit(j, jobs[j])
  BY DEF SubTypes, JobFit, JobRec

LEMMA ReadUsedFit == ASSUME SubTypes, NEW j \in JobIds, ReadUsed(j), AstrayStep PROVE SubTypes'
  <1>2. DOMAIN jobs[j] = JobFields /\ JobFit(j, jobs[j])
    BY JobIn
  <1>3. PICK r : r = jobs[j]
    OBVIOUS
  <1>4. World
    BY DEF SubTypes
  <1>1. World'
    BY <1>4, WorldStill DEF ReadUsed
  <1>5. PICK s : s = r.sid
    OBVIOUS
  <1>6. PICK used : used = NamesOf(conf) \ OfSub(conf, s)
    OBVIOUS
  <1>7. PICK next : next = Prepare(s, r.content, r.existing, used)
    OBVIOUS
  <1>8. NoName \notin NodeNames(next) /\ To(j, [r EXCEPT !.pc = "replace", !.content = <<>>, !.next = next])
    BY <1>3, <1>5, <1>6, <1>7 DEF ReadUsed
  <1>9. /\ next \in Seq(SubItems) /\ next # <<>> /\ \A i \in DOMAIN next : next[i].node.sub = r.sid
        /\ \A i, k \in DOMAIN next : next[i].name = next[k].name => i = k
    <2>1. s \in Subs /\ r.content \in Seq(BodyEntry) /\ r.content # <<>> /\ r.existing \subseteq SubItems
      BY <1>2, <1>3, <1>5 DEF JobFit, JobRec, RouteOK, JobHolds, JobFields, Serving, Upd, ReadUsed,
         BodyEntry
    <2>2. Sound(next, s) /\ next # <<>>
      <3>1. Given(s, r.content, r.existing)
        BY <2>1 DEF Given
      <3>2. PICK c : c = r.content
        OBVIOUS
      <3>3. PICK e : e = r.existing
        OBVIOUS
      <3>4. Given(s, c, e) /\ c # <<>> /\ next = Prepare(s, c, e, used)
        BY <1>7, <2>1, <3>1, <3>2, <3>3
      <3>5. Sound(Prepare(s, c, e, used), s) /\ Prepare(s, c, e, used) # <<>>
        BY <3>4, PrepareSound, Zenon
      <3> QED
        BY <3>4, <3>5
    <2>3. next \in Seq(PreItems)
      BY <2>2 DEF Sound
    <2>4. \A i \in DOMAIN next : next[i].name # NoName
      BY <1>8 DEF NodeNames
    <2>5. ASSUME NEW i \in 1 .. Len(next) PROVE next[i] \in SubItems
      <3>1. next[i] \in PreItems
        BY <2>3
      <3> QED
        BY <2>3, <2>4, <3>1 DEF PreItems, SubItems
    <2>6. next \in Seq(SubItems)
      BY <2>3, <2>5
    <2> QED
      BY <1>5, <2>2, <2>4, <2>6 DEF Sound
  <1>10. CASE To(j, [r EXCEPT !.pc = "replace", !.content = <<>>, !.next = next])
    <2>1. JobFit(j, [r EXCEPT !.pc = "replace", !.content = <<>>, !.next = next])
      BY <1>2, <1>3, <1>10, <1>9 DEF JobFit, JobRec, RouteOK, JobHolds, JobFields, Serving, OfEntry,
         OfNode, Upd, SubPcs, Operations, ReadUsed
    <2> QED
      BY <1>1, <1>10, <2>1, TypesStep
  <1> QED
    BY <1>8, <1>10

LEMMA ReplaceSubscriptionOutboundsFit ==
  ASSUME SubTypes, NEW j \in JobIds, ReplaceSubscriptionOutbounds(j), AstrayStep
  PROVE  SubTypes'
  <1>2. DOMAIN jobs[j] = JobFields /\ JobFit(j, jobs[j])
    BY JobIn
  <1>3. PICK r : r = jobs[j]
    OBVIOUS
  <1>4. World
    BY DEF SubTypes
  <1>5. r.pc = "replace" /\ r.sid \in Subs /\ r.next \in Seq(SubItems)
    BY <1>2, <1>3 DEF JobFit, JobRec, RouteOK, JobHolds, JobFields, Serving,
       ReplaceSubscriptionOutbounds
  <1>6. OutMap(Replaced(r.sid, r.next))
    <2>1. PICK s : s = r.sid
      OBVIOUS
    <2>2. PICK next : next = r.next
      OBVIOUS
    <2>3. /\ OutMap(conf) /\ s \in Subs /\ next \in Seq(SubItems) /\ \A i \in DOMAIN next : next[i].node.sub = s
          /\ \A i, k \in DOMAIN next : next[i].name = next[k].name => i = k
      BY <1>2, <1>3, <1>4, <1>5, <2>1, <2>2 DEF JobFit, JobHolds, World
    <2>4. OutMap(Replaced(s, next))
      BY <2>3, ReplacedIs, Zenon
    <2> QED
      BY <2>1, <2>2, <2>4
  <1>7. PICK m : m = Replaced(r.sid, r.next)
    OBVIOUS
  <1>8. SaveWorks(m) \/ SaveFails(m) \/ UNCHANGED <<conf, file, faults>>
    BY <1>3, <1>7 DEF ReplaceSubscriptionOutbounds
  <1>1. World'
    BY <1>4, <1>6, <1>7, <1>8, WorldStill, Saved DEF ReplaceSubscriptionOutbounds
  <1>9. PICK gone : gone = ItemNames(r.existing) \ NodeNames(r.next)
    OBVIOUS
  <1>20. gone \subseteq OutNames
    BY <1>2, <1>3, <1>9 DEF JobFit, JobRec, ItemNames, SubItems
  <1>10. CASE To(j, [r EXCEPT !.pc = AfterService(j, TRUE), !.err = TRUE])
    <2>1. JobFit(j, [r EXCEPT !.pc = AfterService(j, TRUE), !.err = TRUE])
      BY <1>2, <1>3, <1>10, <1>5 DEF JobFit, JobRec, RouteOK, JobHolds, JobFields, Serving, OfEntry,
         OfNode, Upd, SubPcs, Operations, ReplaceSubscriptionOutbounds, AfterService
    <2> QED
      BY <1>1, <1>10, <2>1, TypesStep
  <1>11. CASE To(j, [r EXCEPT !.pc = "sync", !.todo = gone])
    <2>1. JobFit(j, [r EXCEPT !.pc = "sync", !.todo = gone])
      BY <1>2, <1>3, <1>11, <1>5, <1>20 DEF JobFit, JobRec, RouteOK, JobHolds, JobFields, Serving,
         OfEntry, OfNode, Upd, SubPcs, Operations, ReplaceSubscriptionOutbounds
    <2> QED
      BY <1>1, <1>11, <2>1, TypesStep
  <1> QED
    BY <1>3, <1>9, <1>10, <1>11 DEF ReplaceSubscriptionOutbounds, Goto, Fails, End

LEMMA SyncNodeFit == ASSUME SubTypes, NEW j \in JobIds, SyncNode(j), AstrayStep PROVE SubTypes'
  <1>2. DOMAIN jobs[j] = JobFields /\ JobFit(j, jobs[j])
    BY JobIn
  <1>3. PICK r : r = jobs[j]
    OBVIOUS
  <1>4. World
    BY DEF SubTypes
  <1>5. r.pc = "sync" /\ r.next # <<>> /\ r.next \in Seq(SubItems)
    BY <1>2, <1>3 DEF JobFit, JobRec, SyncNode
  <1>6. PICK x : x = Head(r.next)
    OBVIOUS
  <1>7. x \in SubItems /\ x.node.sub # "absent" /\ Tail(r.next) \in Seq(SubItems)
    <2>1. x \in SubItems /\ x = r.next[1] /\ 1 \in DOMAIN r.next /\ Tail(r.next) \in Seq(SubItems)
      BY <1>5, <1>6, TailFit
    <2>2. x.node.sub = r.sid /\ r.sid \in Subs
      BY <1>2, <1>3, <1>5, <2>1 DEF JobFit, JobHolds, Serving
    <2> QED
      BY <2>1, <2>2, SubConstants
  <1>8. OutMap(rt')
    <2>1. OutMap([rt EXCEPT ![x.name] = x.node])
      BY <1>4, <1>7, OutMapSet DEF World, SubItems
    <2>2. rt' = [rt EXCEPT ![x.name] = x.node] \/ rt' = rt
      BY <1>3, <1>6 DEF SyncNode
    <2> QED
      BY <1>4, <2>1, <2>2 DEF World, OutMap
  <1>1. World'
    BY <1>4, <1>8, RanOn DEF SyncNode
  <1>9. PICK t : t = Tail(r.next)
    OBVIOUS
  <1>20. /\ t \in Seq(SubItems) /\ \A i, k \in DOMAIN t : t[i].name = t[k].name => i = k
         /\ \A i \in DOMAIN t : t[i].node.sub = r.sid
    <2>1. \A i, k \in DOMAIN r.next : r.next[i].name = r.next[k].name => i = k
      BY <1>2, <1>3 DEF JobFit, JobHolds
    <2>2. /\ \A i, k \in DOMAIN t : t[i].name = t[k].name => i = k
          /\ \A i \in DOMAIN t : \E k \in DOMAIN r.next : t[i] = r.next[k]
      <3>1. PICK l : l = r.next
        OBVIOUS
      <3>2. l \in Seq(SubItems) /\ l # <<>> /\ (\A i, k \in DOMAIN l : l[i].name = l[k].name => i = k) /\ t = Tail(l)
        BY <1>5, <1>9, <2>1, <3>1
      <3>3. /\ \A i, k \in DOMAIN Tail(l) : Tail(l)[i].name = Tail(l)[k].name => i = k
            /\ \A i \in DOMAIN Tail(l) : \E k \in DOMAIN l : Tail(l)[i] = l[k]
        BY <3>2, TailNames, Zenon
      <3> QED
        BY <3>1, <3>2, <3>3
    <2>3. \A i \in DOMAIN r.next : r.next[i].node.sub = r.sid
      BY <1>2, <1>3, <1>5 DEF JobFit, JobHolds
    <2> QED
      BY <1>7, <1>9, <2>2, <2>3
  <1>10. CASE To(j, [r EXCEPT !.pc = "record", !.err = TRUE])
    <2>1. JobFit(j, [r EXCEPT !.pc = "record", !.err = TRUE])
      BY <1>2, <1>3, <1>10, <1>5 DEF JobFit, JobRec, RouteOK, JobHolds, JobFields, Serving, OfEntry,
         OfNode, Upd, SubPcs, Operations, SyncNode
    <2> QED
      BY <1>1, <1>10, <2>1, TypesStep
  <1>11. CASE To(j, [r EXCEPT !.next = t])
    <2>1. JobFit(j, [r EXCEPT !.next = t])
      BY <1>2, <1>3, <1>11, <1>5, <1>20 DEF JobFit, JobRec, RouteOK, JobHolds, JobFields, Serving,
         OfEntry, OfNode, Upd, SubPcs, Operations, SyncNode
    <2> QED
      BY <1>1, <1>11, <2>1, TypesStep
  <1> QED
    BY <1>3, <1>9, <1>10, <1>11 DEF SyncNode, Goto, Fails, End

LEMMA DeleteOutboundNoCascadeFit ==
  ASSUME SubTypes, NEW j \in JobIds, DeleteOutboundNoCascade(j), AstrayStep
  PROVE  SubTypes'
  <1>2. DOMAIN jobs[j] = JobFields /\ JobFit(j, jobs[j])
    BY JobIn
  <1>3. PICK r : r = jobs[j]
    OBVIOUS
  <1>4. World
    BY DEF SubTypes
  <1>5. PICK n \in r.todo : /\ rt' = [rt EXCEPT ![n] = NoNode] /\ To(j, [r EXCEPT !.todo = r.todo \ {n}])
    BY <1>3 DEF DeleteOutboundNoCascade
  <1>6. n \in OutNames
    BY <1>2, <1>3, <1>5 DEF JobFit, JobRec
  <1>1. World'
    BY <1>4, <1>5, <1>6, Dropped, RanOn DEF World, DeleteOutboundNoCascade
  <1>10. CASE To(j, [r EXCEPT !.todo = r.todo \ {n}])
    <2>1. JobFit(j, [r EXCEPT !.todo = r.todo \ {n}])
      BY <1>2, <1>3, <1>10 DEF JobFit, JobRec, RouteOK, JobHolds, JobFields, Serving, OfEntry,
         OfNode, Upd, SubPcs, Operations, DeleteOutboundNoCascade
    <2> QED
      BY <1>1, <1>10, <2>1, TypesStep
  <1> QED
    BY <1>5, <1>10

LEMMA NextSubscriptionFit ==
  ASSUME SubTypes, NEW j \in JobIds, NextSubscription(j), AstrayStep
  PROVE  SubTypes'
  <1>2. DOMAIN jobs[j] = JobFields /\ JobFit(j, jobs[j])
    BY JobIn
  <1>3. PICK r : r = jobs[j]
    OBVIOUS
  <1>4. World
    BY DEF SubTypes
  <1>1. World'
    BY <1>4, WorldStill DEF NextSubscription
  <1>5. r.queue \in Seq(Queued) /\ r.queue # <<>> /\ r.pc = "next"
    BY <1>2, <1>3 DEF JobFit, JobRec, NextSubscription
  <1>6. PICK t : t = Tail(r.queue)
    OBVIOUS
  <1>7. PICK q : q = Head(r.queue)
    OBVIOUS
  <1>8. q \in Queued /\ q.copy.rev > 0 /\ t \in Seq(Queued) /\ \A i \in DOMAIN t : t[i].copy.rev > 0
    <2>1. /\ q \in Queued /\ t \in Seq(Queued) /\ q = r.queue[1] /\ 1 \in DOMAIN r.queue
          /\ \A i \in DOMAIN t : i + 1 \in DOMAIN r.queue /\ t[i] = r.queue[i + 1]
      BY <1>5, <1>6, <1>7, TailFit
    <2> QED
      BY <1>2, <1>3, <2>1 DEF JobFit, JobHolds
  <1>9. PICK z : z = IF j = Scheduler THEN r.at ELSE now
    OBVIOUS
  <1>11. z \in 0 .. MaxTime
    BY <1>2, <1>3, <1>4, <1>9 DEF JobFit, JobRec, World
  <1>10. CASE To(j, [r EXCEPT !.pc = IF j = Scheduler THEN "attempt" ELSE "fetch", !.queue = t, !.sid = q.sid, !.copy = q.copy, !.err = FALSE, !.at = z])
    <2>1. JobFit(j, [r EXCEPT !.pc = IF j = Scheduler THEN "attempt" ELSE "fetch", !.queue = t, !.sid = q.sid, !.copy = q.copy, !.err = FALSE, !.at = z])
      BY <1>2, <1>3, <1>10, <1>5, <1>8, <1>11 DEF JobFit, JobRec, RouteOK, JobHolds, JobFields, Serving,
         OfEntry, OfNode, Upd, SubPcs, Operations, NextSubscription, Queued
    <2> QED
      BY <1>1, <1>10, <2>1, TypesStep
  <1> QED
    BY <1>3, <1>6, <1>7, <1>9, <1>10 DEF NextSubscription

LEMMA RecordResultFit ==
  ASSUME SubTypes, NEW j \in JobIds, RecordResult(j), AstrayStep
  PROVE  SubTypes'
  <1>2. DOMAIN jobs[j] = JobFields /\ JobFit(j, jobs[j])
    BY JobIn
  <1>3. PICK r : r = jobs[j]
    OBVIOUS
  <1>4. World
    BY DEF SubTypes
  <1>5. r.copy \in SubEntries /\ r.copy.rev > 0 /\ r.sid \in Subs /\ r.err \in BOOLEAN /\ NoSub \in SubEntries
    BY <1>2, <1>3, OutNodes DEF JobFit, JobRec, JobHolds, RouteOK, Serving, Upd, RecordResult
  <1>6. PICK c : c = Outcome(j)
    OBVIOUS
  <1>7. c \in SubEntries /\ c.rev > 0
    <2>1. PICK e : e = r.copy
      OBVIOUS
    <2>2. PICK b : b = r.err
      OBVIOUS
    <2>3. PICK t : t = UpdatedAt(j)
      OBVIOUS
    <2>4. e \in SubEntries /\ e.rev > 0 /\ b \in BOOLEAN /\ t \in 0 .. MaxTime
      BY <1>2, <1>4, <1>5, <2>1, <2>2, <2>3 DEF World, UpdatedAt, JobFit, JobRec
    <2>5. c = [e EXCEPT !.last = t, !.err = b] \/ c = [e EXCEPT !.last = e.last, !.err = b]
      BY <1>3, <1>6, <2>1, <2>2, <2>3 DEF Outcome
    <2>6. /\ [e EXCEPT !.last = t, !.err = b] \in SubEntries /\ [e EXCEPT !.last = t, !.err = b].rev = e.rev
          /\ [e EXCEPT !.last = e.last, !.err = b] \in SubEntries /\ [e EXCEPT !.last = e.last, !.err = b].rev = e.rev
      BY <2>4, Outlasts, Zenon
    <2> QED
      BY <2>4, <2>5, <2>6
  <1>8. EntriesFit'
    <2>1. EntriesFit
      BY <1>4 DEF World
    <2>2. subs' = Stored(r.sid, r.sid, c) \/ subs' = subs
      BY <1>3, <1>6 DEF RecordResult
    <2>3. CASE subs' = subs
      BY <2>1, <2>3 DEF EntriesFit
    <2> QED
      BY <1>5, <1>7, <2>1, <2>2, <2>3, StoredFit
  <1>1. World'
    BY <1>4, <1>8, Entered DEF RecordResult
  <1>10. CASE To(j, [r EXCEPT !.pc = "next", !.existing = {}, !.next = <<>>, !.todo = {}, !.err = FALSE, !.copy = NoSub])
    <2>1. JobFit(j, [r EXCEPT !.pc = "next", !.existing = {}, !.next = <<>>, !.todo = {}, !.err = FALSE, !.copy = NoSub])
      BY <1>2, <1>3, <1>10, <1>5 DEF JobFit, JobRec, RouteOK, JobHolds, JobFields, Serving, OfEntry,
         OfNode, Upd, SubPcs, Operations, RecordResult
    <2> QED
      BY <1>1, <1>10, <2>1, TypesStep
  <1> QED
    BY <1>3, <1>10 DEF RecordResult, Goto, Fails, End

LEMMA CreateProxySubscriptionFit ==
  ASSUME SubTypes, NEW j \in JobIds, CreateProxySubscription(j), AstrayStep
  PROVE  SubTypes'
  <1>2. DOMAIN jobs[j] = JobFields /\ JobFit(j, jobs[j])
    BY JobIn
  <1>3. PICK r : r = jobs[j]
    OBVIOUS
  <1>4. World
    BY DEF SubTypes
  <1>5. r.sid \in Subs /\ r.mode \in Modes /\ NoSub \in SubEntries /\ now \in 0 .. MaxTime /\ EntriesFit
    BY <1>2, <1>3, <1>4, OutNodes DEF JobFit, JobRec, JobHolds, OfEntry, CreateProxySubscription, World
  <1>12. PICK on \in BOOLEAN : AddSubscription(r.sid, ManualSave(ToConfig(NoSub, r.mode, on)))
    BY <1>3 DEF CreateProxySubscription
  <1>6. PICK e : e = ManualSave(ToConfig(NoSub, r.mode, on))
    OBVIOUS
  <1>7. e \in SubEntries /\ e.rev > 0
    BY <1>5, <1>6, Typed
  <1>8. EntriesFit'
    BY <1>5, <1>6, <1>7, <1>12 DEF AddSubscription, EntriesFit
  <1>1. World'
    BY <1>4, <1>8, Entered DEF CreateProxySubscription
  <1>10. CASE To(j, [r EXCEPT !.pc = "done"])
    <2>1. JobFit(j, [r EXCEPT !.pc = "done"])
      BY <1>2, <1>3, <1>10 DEF JobFit, JobRec, RouteOK, JobHolds, JobFields, Serving, OfEntry,
         OfNode, Upd, SubPcs, Operations, CreateProxySubscription
    <2> QED
      BY <1>1, <1>10, <2>1, TypesStep
  <1> QED
    BY <1>3, <1>10 DEF CreateProxySubscription, Goto, Fails, End

LEMMA EditWritesFit ==
  ASSUME SubTypes, NEW j \in JobIds, EditWrites(j), AstrayStep
  PROVE  SubTypes'
  <1>2. DOMAIN jobs[j] = JobFields /\ JobFit(j, jobs[j])
    BY JobIn
  <1>3. PICK r : r = jobs[j]
    OBVIOUS
  <1>4. World
    BY DEF SubTypes
  <1>5. r.sid \in Subs /\ r.to \in Subs /\ r.mode \in Modes /\ r.copy \in SubEntries /\ now \in 0 .. MaxTime /\ EntriesFit
    BY <1>2, <1>3, <1>4 DEF JobFit, JobRec, JobHolds, OfEntry, EditWrites, World
  <1>12. PICK on \in BOOLEAN : subs' = IF CanStore(r.sid, r.to)
           THEN Stored(r.sid, r.to, ManualSave(ToConfig(r.copy, r.mode, on))) ELSE subs
    BY <1>3 DEF EditWrites
  <1>6. PICK e : e = ManualSave(ToConfig(r.copy, r.mode, on))
    OBVIOUS
  <1>7. e \in SubEntries /\ e.rev > 0
    BY <1>5, <1>6, Typed
  <1>8. EntriesFit'
    <2>2. subs' = Stored(r.sid, r.to, e) \/ subs' = subs
      BY <1>6, <1>12
    <2>3. CASE subs' = subs
      BY <1>5, <2>3 DEF EntriesFit
    <2> QED
      BY <1>5, <1>7, <2>2, <2>3, StoredFit
  <1>1. World'
    BY <1>4, <1>8, Entered DEF EditWrites
  <1>10. CASE To(j, [r EXCEPT !.pc = "done", !.next = <<>>, !.todo = {}, !.existing = {}, !.err = FALSE])
    <2>1. JobFit(j, [r EXCEPT !.pc = "done", !.next = <<>>, !.todo = {}, !.existing = {}, !.err = FALSE])
      BY <1>2, <1>3, <1>10 DEF JobFit, JobRec, RouteOK, JobHolds, JobFields, Serving, OfEntry,
         OfNode, Upd, SubPcs, Operations, EditWrites
    <2> QED
      BY <1>1, <1>10, <2>1, TypesStep
  <1> QED
    BY <1>3, <1>10 DEF EditWrites, Goto, Fails, End

LEMMA DeleteSubscriptionFit ==
  ASSUME SubTypes, NEW j \in JobIds, DeleteSubscription(j), AstrayStep
  PROVE  SubTypes'
  <1>2. DOMAIN jobs[j] = JobFields /\ JobFit(j, jobs[j])
    BY JobIn
  <1>3. PICK r : r = jobs[j]
    OBVIOUS
  <1>4. World
    BY DEF SubTypes
  <1>8. EntriesFit'
    BY <1>2, <1>3, <1>4, OutNodes DEF DeleteSubscription, EntriesFit, World
  <1>1. World'
    BY <1>4, <1>8, Entered DEF DeleteSubscription
  <1>10. CASE To(j, [r EXCEPT !.pc = "done", !.next = <<>>, !.todo = {}, !.existing = {}, !.err = FALSE])
    <2>1. JobFit(j, [r EXCEPT !.pc = "done", !.next = <<>>, !.todo = {}, !.existing = {}, !.err = FALSE])
      BY <1>2, <1>3, <1>10 DEF JobFit, JobRec, RouteOK, JobHolds, JobFields, Serving, OfEntry,
         OfNode, Upd, SubPcs, Operations, DeleteSubscription
    <2> QED
      BY <1>1, <1>10, <2>1, TypesStep
  <1> QED
    BY <1>3, <1>10 DEF DeleteSubscription, Goto, Fails, End

LEMMA CreateProxyOutboundFit ==
  ASSUME SubTypes, NEW j \in JobIds, CreateProxyOutbound(j), AstrayStep
  PROVE  SubTypes'
  <1>2. DOMAIN jobs[j] = JobFields /\ JobFit(j, jobs[j])
    BY JobIn
  <1>3. PICK r : r = jobs[j]
    OBVIOUS
  <1>4. World
    BY DEF SubTypes
  <1>5. r.name \in OutNames /\ OutMap(conf)
    BY <1>2, <1>3, <1>4 DEF JobFit, JobHolds, OfNode, World, CreateProxyOutbound
  <1>6. OutMap([conf EXCEPT ![r.name] = Manual("typed")])
    BY <1>5, OutMapSet, OutNodes
  <1>7. SaveWorks([conf EXCEPT ![r.name] = Manual("typed")]) \/ SaveFails([conf EXCEPT ![r.name] = Manual("typed")]) \/ UNCHANGED <<conf, file, faults>>
    BY <1>3 DEF CreateProxyOutbound
  <1>1. World'
    BY <1>4, <1>6, <1>7, WorldStill, Saved DEF CreateProxyOutbound
  <1>10. CASE To(j, [r EXCEPT !.pc = "done"])
    <2>1. JobFit(j, [r EXCEPT !.pc = "done"])
      BY <1>2, <1>3, <1>10 DEF JobFit, JobRec, RouteOK, JobHolds, JobFields, Serving, OfEntry,
         OfNode, Upd, SubPcs, Operations, CreateProxyOutbound
    <2> QED
      BY <1>1, <1>10, <2>1, TypesStep
  <1>11. CASE To(j, [r EXCEPT !.pc = "apply"])
    <2>1. JobFit(j, [r EXCEPT !.pc = "apply"])
      BY <1>2, <1>3, <1>11 DEF JobFit, JobRec, RouteOK, JobHolds, JobFields, Serving, OfEntry,
         OfNode, Upd, SubPcs, Operations, CreateProxyOutbound
    <2> QED
      BY <1>1, <1>11, <2>1, TypesStep
  <1> QED
    BY <1>3, <1>10, <1>11 DEF CreateProxyOutbound, Goto, Fails, End

LEMMA DeleteProxyOutboundFit ==
  ASSUME SubTypes, NEW j \in JobIds, DeleteProxyOutbound(j), AstrayStep
  PROVE  SubTypes'
  <1>2. DOMAIN jobs[j] = JobFields /\ JobFit(j, jobs[j])
    BY JobIn
  <1>3. PICK r : r = jobs[j]
    OBVIOUS
  <1>4. World
    BY DEF SubTypes
  <1>5. r.name \in OutNames /\ OutMap(conf)
    BY <1>2, <1>3, <1>4 DEF JobFit, JobHolds, OfNode, World, DeleteProxyOutbound
  <1>6. OutMap([conf EXCEPT ![r.name] = NoNode])
    BY <1>5, Dropped
  <1>7. SaveWorks([conf EXCEPT ![r.name] = NoNode]) \/ SaveFails([conf EXCEPT ![r.name] = NoNode]) \/ UNCHANGED <<conf, file, faults>>
    BY <1>3 DEF DeleteProxyOutbound
  <1>1. World'
    BY <1>4, <1>6, <1>7, WorldStill, Saved DEF DeleteProxyOutbound
  <1>10. CASE To(j, [r EXCEPT !.pc = "done"])
    <2>1. JobFit(j, [r EXCEPT !.pc = "done"])
      BY <1>2, <1>3, <1>10 DEF JobFit, JobRec, RouteOK, JobHolds, JobFields, Serving, OfEntry,
         OfNode, Upd, SubPcs, Operations, DeleteProxyOutbound
    <2> QED
      BY <1>1, <1>10, <2>1, TypesStep
  <1>11. CASE To(j, [r EXCEPT !.pc = "apply"])
    <2>1. JobFit(j, [r EXCEPT !.pc = "apply"])
      BY <1>2, <1>3, <1>11 DEF JobFit, JobRec, RouteOK, JobHolds, JobFields, Serving, OfEntry,
         OfNode, Upd, SubPcs, Operations, DeleteProxyOutbound
    <2> QED
      BY <1>1, <1>11, <2>1, TypesStep
  <1> QED
    BY <1>3, <1>10, <1>11 DEF DeleteProxyOutbound, Goto, Fails, End

LEMMA UpdateProxyOutboundFit ==
  ASSUME SubTypes, NEW j \in JobIds, UpdateProxyOutbound(j), AstrayStep
  PROVE  SubTypes'
  <1>2. DOMAIN jobs[j] = JobFields /\ JobFit(j, jobs[j])
    BY JobIn
  <1>3. PICK r : r = jobs[j]
    OBVIOUS
  <1>4. World
    BY DEF SubTypes
  <1>5. r.name \in OutNames /\ OutMap(conf)
    BY <1>2, <1>3, <1>4 DEF JobFit, JobHolds, OfNode, World, UpdateProxyOutbound
  <1>8. r.as \in OutNames
    BY <1>2, <1>3 DEF JobFit, JobHolds, UpdateProxyOutbound
  <1>6. OutMap(Renamed(conf, r.name, r.as, Manual("typed")))
    BY <1>5, <1>8, OutNodes DEF OutMap, Maps, Renamed
  <1>7. SaveWorks(Renamed(conf, r.name, r.as, Manual("typed"))) \/ SaveFails(Renamed(conf, r.name, r.as, Manual("typed"))) \/ UNCHANGED <<conf, file, faults>>
    BY <1>3 DEF UpdateProxyOutbound
  <1>1. World'
    BY <1>4, <1>6, <1>7, WorldStill, Saved DEF UpdateProxyOutbound
  <1>10. CASE To(j, [r EXCEPT !.pc = "done"])
    <2>1. JobFit(j, [r EXCEPT !.pc = "done"])
      BY <1>2, <1>3, <1>10 DEF JobFit, JobRec, RouteOK, JobHolds, JobFields, Serving, OfEntry,
         OfNode, Upd, SubPcs, Operations, UpdateProxyOutbound
    <2> QED
      BY <1>1, <1>10, <2>1, TypesStep
  <1>11. CASE To(j, [r EXCEPT !.pc = "apply"])
    <2>1. JobFit(j, [r EXCEPT !.pc = "apply"])
      BY <1>2, <1>3, <1>11 DEF JobFit, JobRec, RouteOK, JobHolds, JobFields, Serving, OfEntry,
         OfNode, Upd, SubPcs, Operations, UpdateProxyOutbound
    <2> QED
      BY <1>1, <1>11, <2>1, TypesStep
  <1> QED
    BY <1>3, <1>10, <1>11 DEF UpdateProxyOutbound, Goto, Fails, End

LEMMA BlockWritesFit ==
  ASSUME SubTypes, NEW j \in JobIds, BlockWrites(j), AstrayStep
  PROVE  SubTypes'
  <1>2. DOMAIN jobs[j] = JobFields /\ JobFit(j, jobs[j])
    BY JobIn
  <1>3. PICK r : r = jobs[j]
    OBVIOUS
  <1>4. World
    BY DEF SubTypes
  <1>5. r.name \in OutNames /\ OutMap(conf)
    BY <1>2, <1>3, <1>4 DEF JobFit, JobHolds, OfNode, World, BlockWrites
  <1>8. r.node \in Nodes /\ r.node.sub # "absent"
    BY <1>2, <1>3 DEF JobFit, JobHolds, JobRec, BlockWrites
  <1>6. OutMap([conf EXCEPT ![r.name] = r.node])
    BY <1>5, <1>8, OutMapSet
  <1>7. SaveWorks([conf EXCEPT ![r.name] = r.node]) \/ SaveFails([conf EXCEPT ![r.name] = r.node]) \/ UNCHANGED <<conf, file, faults>>
    BY <1>3 DEF BlockWrites
  <1>1. World'
    BY <1>4, <1>6, <1>7, WorldStill, Saved DEF BlockWrites
  <1>10. CASE To(j, [r EXCEPT !.pc = "done"])
    <2>1. JobFit(j, [r EXCEPT !.pc = "done"])
      BY <1>2, <1>3, <1>10 DEF JobFit, JobRec, RouteOK, JobHolds, JobFields, Serving, OfEntry,
         OfNode, Upd, SubPcs, Operations, BlockWrites
    <2> QED
      BY <1>1, <1>10, <2>1, TypesStep
  <1>11. CASE To(j, [r EXCEPT !.pc = "apply"])
    <2>1. JobFit(j, [r EXCEPT !.pc = "apply"])
      BY <1>2, <1>3, <1>11 DEF JobFit, JobRec, RouteOK, JobHolds, JobFields, Serving, OfEntry,
         OfNode, Upd, SubPcs, Operations, BlockWrites
    <2> QED
      BY <1>1, <1>11, <2>1, TypesStep
  <1> QED
    BY <1>3, <1>10, <1>11 DEF BlockWrites, Goto, Fails, End

LEMMA BlockReadsFit ==
  ASSUME SubTypes, NEW j \in JobIds, BlockReads(j), AstrayStep
  PROVE  SubTypes'
  <1>2. DOMAIN jobs[j] = JobFields /\ JobFit(j, jobs[j])
    BY JobIn
  <1>3. PICK r : r = jobs[j]
    OBVIOUS
  <1>4. World
    BY DEF SubTypes
  <1>1. World'
    BY <1>4, WorldStill DEF BlockReads
  <1>5. r.name \in OutNames /\ OutMap(conf)
    BY <1>2, <1>3, <1>4 DEF JobFit, JobHolds, OfNode, World, BlockReads
  <1>6. PICK x : x = [conf[r.name] EXCEPT !.blocked = TRUE]
    OBVIOUS
  <1>7. x \in Nodes /\ (conf[r.name] # NoNode => x.sub # "absent")
    <2>1. conf[r.name] \in Nodes /\ (conf[r.name].sub = "absent" <=> conf[r.name] = NoNode)
      BY <1>5, NodeAbsent
    <2> QED
      BY <1>6, <2>1 DEF Nodes
  <1>10. CASE To(j, [r EXCEPT !.pc = "done"])
    <2>1. JobFit(j, [r EXCEPT !.pc = "done"])
      BY <1>2, <1>3, <1>10 DEF JobFit, JobRec, RouteOK, JobHolds, JobFields, Serving, OfEntry,
         OfNode, Upd, SubPcs, Operations, BlockReads
    <2> QED
      BY <1>1, <1>10, <2>1, TypesStep
  <1>11. CASE To(j, [r EXCEPT !.pc = "write", !.node = x]) /\ conf[r.name] # NoNode
    <2>1. JobFit(j, [r EXCEPT !.pc = "write", !.node = x])
      BY <1>2, <1>3, <1>11, <1>7 DEF JobFit, JobRec, RouteOK, JobHolds, JobFields, Serving, OfEntry,
         OfNode, Upd, SubPcs, Operations, BlockReads
    <2> QED
      BY <1>1, <1>11, <2>1, TypesStep
  <1> QED
    BY <1>3, <1>6, <1>10, <1>11 DEF BlockReads, Goto, Fails, End

LEMMA ApplyAddFit == ASSUME SubTypes, NEW j \in JobIds, ApplyAdd(j), AstrayStep PROVE SubTypes'
  <1>2. DOMAIN jobs[j] = JobFields /\ JobFit(j, jobs[j])
    BY JobIn
  <1>3. PICK r : r = jobs[j]
    OBVIOUS
  <1>4. World
    BY DEF SubTypes
  <1>5. r.name \in OutNames /\ OutMap(rt) /\ OutMap(conf) /\ OutMap(file)
    BY <1>2, <1>3, <1>4 DEF JobFit, JobHolds, OfNode, World, ApplyAdd
  <1>1. World'
    BY <1>3, <1>4, <1>5, RuntimeAdded, OutNodes, RanOn DEF ApplyAdd
  <1>10. CASE To(j, [r EXCEPT !.pc = "done"])
    <2>1. JobFit(j, [r EXCEPT !.pc = "done"])
      BY <1>2, <1>3, <1>10 DEF JobFit, JobRec, RouteOK, JobHolds, JobFields, Serving, OfEntry,
         OfNode, Upd, SubPcs, Operations, ApplyAdd
    <2> QED
      BY <1>1, <1>10, <2>1, TypesStep
  <1> QED
    BY <1>3, <1>10 DEF ApplyAdd, Goto, Fails, End

LEMMA ApplyChangeFit ==
  ASSUME SubTypes, NEW j \in JobIds, ApplyChange(j), AstrayStep
  PROVE  SubTypes'
  <1>2. DOMAIN jobs[j] = JobFields /\ JobFit(j, jobs[j])
    BY JobIn
  <1>3. PICK r : r = jobs[j]
    OBVIOUS
  <1>4. World
    BY DEF SubTypes
  <1>5. r.name \in OutNames /\ OutMap(rt) /\ OutMap(conf) /\ OutMap(file)
    BY <1>2, <1>3, <1>4 DEF JobFit, JobHolds, OfNode, World, ApplyChange
  <1>6. r.node \in Nodes /\ (r.op = "block" => r.node.sub # "absent") /\ (r.op = "change" => r.as \in OutNames)
    BY <1>2, <1>3 DEF JobFit, JobHolds, JobRec, ApplyChange
  <1>7. OutMap(rt')
    <2>1. CASE r.op = "block"
      BY <1>3, <1>5, <1>6, <2>1, RuntimeUpdated DEF ApplyChange
    <2>2. CASE r.op = "change"
      BY <1>3, <1>5, <1>6, <2>2, RuntimeUpdated, OutNodes DEF ApplyChange
    <2> QED
      BY <1>3, <2>1, <2>2 DEF ApplyChange
  <1>1. World'
    BY <1>4, <1>7, RanOn DEF ApplyChange
  <1>10. CASE To(j, [r EXCEPT !.pc = "done"])
    <2>1. JobFit(j, [r EXCEPT !.pc = "done"])
      BY <1>2, <1>3, <1>10 DEF JobFit, JobRec, RouteOK, JobHolds, JobFields, Serving, OfEntry,
         OfNode, Upd, SubPcs, Operations, ApplyChange
    <2> QED
      BY <1>1, <1>10, <2>1, TypesStep
  <1> QED
    BY <1>3, <1>10 DEF ApplyChange, Goto, Fails, End

LEMMA ApplyRemoveFit ==
  ASSUME SubTypes, NEW j \in JobIds, ApplyRemove(j), AstrayStep
  PROVE  SubTypes'
  <1>2. DOMAIN jobs[j] = JobFields /\ JobFit(j, jobs[j])
    BY JobIn
  <1>3. PICK r : r = jobs[j]
    OBVIOUS
  <1>4. World
    BY DEF SubTypes
  <1>5. r.name \in OutNames /\ OutMap(rt) /\ OutMap(conf) /\ OutMap(file)
    BY <1>2, <1>3, <1>4 DEF JobFit, JobHolds, OfNode, World, ApplyRemove
  <1>1. World'
    BY <1>3, <1>4, <1>5, Dropped, RanOn DEF ApplyRemove, RuntimeDeleteOutbound
  <1>10. CASE To(j, [r EXCEPT !.pc = IF rt[r.name] = NoNode THEN "done" ELSE "cascade", !.todo = r.todo \ {r.name}, !.name = r.name, !.group = rt[r.name].sub])
    <2>1. JobFit(j, [r EXCEPT !.pc = IF rt[r.name] = NoNode THEN "done" ELSE "cascade", !.todo = r.todo \ {r.name}, !.name = r.name, !.group = rt[r.name].sub])
      BY <1>2, <1>3, <1>10, <1>5 DEF JobFit, JobRec, RouteOK, JobHolds, JobFields, Serving, OfEntry,
         OfNode, Upd, SubPcs, Operations, ApplyRemove
    <2> QED
      BY <1>1, <1>10, <2>1, TypesStep
  <1> QED
    BY <1>3, <1>10 DEF RuntimeDeleteOutbound, ApplyRemove, Goto, Fails, End

LEMMA CascadeWritesFit ==
  ASSUME SubTypes, NEW j \in JobIds, CascadeWrites(j), AstrayStep
  PROVE  SubTypes'
  <1>2. DOMAIN jobs[j] = JobFields /\ JobFit(j, jobs[j])
    BY JobIn
  <1>3. PICK r : r = jobs[j]
    OBVIOUS
  <1>4. World
    BY DEF SubTypes
  <1>5. r.ref \in Refs /\ Direct \in Refs
    BY <1>2, <1>3, OutNodes DEF JobFit, JobRec
  <1>1. World'
    BY <1>3, <1>4, <1>5 DEF World, EntriesFit, OutMap, CascadeWrites
  <1>10. CASE To(j, [r EXCEPT !.pc = IF r.op = "reload" THEN "apply" ELSE "done", !.ref = Direct])
    <2>1. JobFit(j, [r EXCEPT !.pc = IF r.op = "reload" THEN "apply" ELSE "done", !.ref = Direct])
      BY <1>2, <1>3, <1>10, <1>5 DEF JobFit, JobRec, RouteOK, JobHolds, JobFields, Serving, OfEntry,
         OfNode, Upd, SubPcs, Operations, CascadeWrites
    <2> QED
      BY <1>1, <1>10, <2>1, TypesStep
  <1> QED
    BY <1>3, <1>10 DEF CascadeWrites, Goto, Fails, End

LEMMA PickNodeFit == ASSUME SubTypes, NEW j \in JobIds, PickNode(j), AstrayStep PROVE SubTypes'
  <1>2. DOMAIN jobs[j] = JobFields /\ JobFit(j, jobs[j])
    BY JobIn
  <1>3. PICK r : r = jobs[j]
    OBVIOUS
  <1>4. World
    BY DEF SubTypes
  <1>5. r.name \in OutNames /\ OutMap(rt) /\ OutMap(conf) /\ OutMap(file)
    BY <1>2, <1>3, <1>4 DEF JobFit, JobHolds, OfNode, World, PickNode
  <1>6. server' \in Refs
    BY <1>3, <1>5 DEF PickNode, Refs
  <1>1. World'
    BY <1>4, <1>6 DEF World, EntriesFit, OutMap, PickNode
  <1>10. CASE To(j, [r EXCEPT !.pc = "done"])
    <2>1. JobFit(j, [r EXCEPT !.pc = "done"])
      BY <1>2, <1>3, <1>10 DEF JobFit, JobRec, RouteOK, JobHolds, JobFields, Serving, OfEntry,
         OfNode, Upd, SubPcs, Operations, PickNode
    <2> QED
      BY <1>1, <1>10, <2>1, TypesStep
  <1> QED
    BY <1>3, <1>10 DEF PickNode, Goto, Fails, End

LEMMA UpdateOutboundRuntimeFit ==
  ASSUME SubTypes, NEW j \in JobIds, UpdateOutboundRuntime(j), AstrayStep
  PROVE  SubTypes'
  <1>2. DOMAIN jobs[j] = JobFields /\ JobFit(j, jobs[j])
    BY JobIn
  <1>3. PICK r : r = jobs[j]
    OBVIOUS
  <1>4. World
    BY DEF SubTypes
  <1>5. r.name \in OutNames /\ OutMap(rt) /\ OutMap(conf) /\ OutMap(file)
    BY <1>2, <1>3, <1>4 DEF JobFit, JobHolds, OfNode, World, UpdateOutboundRuntime
  <1>6. OutMap(conf')
    <2>1. PICK x : x = [conf[r.name] EXCEPT !.tested = TRUE]
      OBVIOUS
    <2>2. conf[r.name] \in Nodes /\ (conf[r.name].sub = "absent" <=> conf[r.name] = NoNode)
      BY <1>5, NodeAbsent
    <2>3. x \in Nodes /\ x.sub = conf[r.name].sub
      BY <2>1, <2>2 DEF Nodes
    <2>4. conf' = conf \/ (conf[r.name].sub # "absent" /\ conf' = [conf EXCEPT ![r.name] = x])
      BY <1>3, <2>1, <2>2 DEF UpdateOutboundRuntime
    <2>5. conf[r.name].sub # "absent" => OutMap([conf EXCEPT ![r.name] = x])
      BY <1>5, <2>3, OutMapSet
    <2> QED
      BY <1>5, <2>4, <2>5 DEF OutMap
  <1>1. World'
    BY <1>4, <1>6 DEF World, EntriesFit, OutMap, UpdateOutboundRuntime
  <1>10. CASE To(j, [r EXCEPT !.pc = "done"])
    <2>1. JobFit(j, [r EXCEPT !.pc = "done"])
      BY <1>2, <1>3, <1>10 DEF JobFit, JobRec, RouteOK, JobHolds, JobFields, Serving, OfEntry,
         OfNode, Upd, SubPcs, Operations, UpdateOutboundRuntime
    <2> QED
      BY <1>1, <1>10, <2>1, TypesStep
  <1> QED
    BY <1>3, <1>10 DEF UpdateOutboundRuntime, Goto, Fails, End

LEMMA LoadFileFit == ASSUME SubTypes, NEW j \in JobIds, LoadFile(j), AstrayStep PROVE SubTypes'
  <1>2. DOMAIN jobs[j] = JobFields /\ JobFit(j, jobs[j])
    BY JobIn
  <1>3. PICK r : r = jobs[j]
    OBVIOUS
  <1>4. World
    BY DEF SubTypes
  <1>5. r.name \in OutNames /\ OutMap(rt) /\ OutMap(conf) /\ OutMap(file)
    BY <1>2, <1>3, <1>4 DEF JobFit, JobHolds, OfNode, World, LoadFile
  <1>6. PICK x : x = IF file[r.name] = NoNode THEN Manual("typed") ELSE NoNode
    OBVIOUS
  <1>7. conf' = [file EXCEPT ![r.name] = x] /\ file' = [file EXCEPT ![r.name] = x]
    BY <1>3, <1>6 DEF LoadFile
  <1>8. OutMap([file EXCEPT ![r.name] = x])
    BY <1>5, <1>6, OutMapSet, OutNodes
  <1>1. World'
    BY <1>4, <1>7, <1>8 DEF World, EntriesFit, OutMap, LoadFile
  <1>10. CASE To(j, [r EXCEPT !.pc = "want"])
    <2>1. JobFit(j, [r EXCEPT !.pc = "want"])
      BY <1>2, <1>3, <1>10 DEF JobFit, JobRec, RouteOK, JobHolds, JobFields, Serving, OfEntry,
         OfNode, Upd, SubPcs, Operations, LoadFile
    <2> QED
      BY <1>1, <1>10, <2>1, TypesStep
  <1> QED
    BY <1>3, <1>10 DEF LoadFile, Goto, Fails, End

LEMMA ReloadDeletesFit ==
  ASSUME SubTypes, NEW j \in JobIds, ReloadDeletes(j), AstrayStep
  PROVE  SubTypes'
  <1>2. DOMAIN jobs[j] = JobFields /\ JobFit(j, jobs[j])
    BY JobIn
  <1>3. PICK r : r = jobs[j]
    OBVIOUS
  <1>4. World
    BY DEF SubTypes
  <1>5. PICK n \in r.todo : RuntimeDeleteOutbound(j, n, "apply")
    BY <1>3 DEF ReloadDeletes
  <1>6. n \in OutNames
    BY <1>2, <1>3, <1>5 DEF JobFit, JobRec
  <1>1. World'
    BY <1>4, <1>5, <1>6, Dropped, RanOn DEF World, ReloadDeletes, RuntimeDeleteOutbound
  <1>10. CASE To(j, [r EXCEPT !.pc = IF rt[n] = NoNode THEN "apply" ELSE "cascade", !.todo = r.todo \ {n}, !.name = n, !.group = rt[n].sub])
    <2>1. JobFit(j, [r EXCEPT !.pc = IF rt[n] = NoNode THEN "apply" ELSE "cascade", !.todo = r.todo \ {n}, !.name = n, !.group = rt[n].sub])
      BY <1>2, <1>3, <1>10, <1>6 DEF JobFit, JobRec, RouteOK, JobHolds, JobFields, Serving, OfEntry,
         OfNode, Upd, SubPcs, Operations, ReloadDeletes
    <2> QED
      BY <1>1, <1>10, <2>1, TypesStep
  <1> QED
    BY <1>3, <1>5, <1>10 DEF RuntimeDeleteOutbound, Goto, Fails, End

LEMMA ReloadAppliesFit ==
  ASSUME SubTypes, NEW j \in JobIds, ReloadApplies(j), AstrayStep
  PROVE  SubTypes'
  <1>2. DOMAIN jobs[j] = JobFields /\ JobFit(j, jobs[j])
    BY JobIn
  <1>3. PICK r : r = jobs[j]
    OBVIOUS
  <1>4. World
    BY DEF SubTypes
  <1>5. r.op = "reload" /\ r.next # <<>> /\ r.next \in Seq(SubItems)
    BY <1>2, <1>3 DEF JobFit, JobRec, ReloadApplies
  <1>6. PICK x : x = Head(r.next)
    OBVIOUS
  <1>7. x \in SubItems /\ x.node.sub # "absent" /\ Tail(r.next) \in Seq(SubItems)
    <2>1. x \in SubItems /\ x = r.next[1] /\ 1 \in DOMAIN r.next /\ Tail(r.next) \in Seq(SubItems)
      BY <1>5, <1>6, TailFit
    <2> QED
      BY <1>2, <1>3, <1>5, <2>1 DEF JobFit, JobHolds
  <1>8. OutMap(rt')
    <2>1. x.name \in OutNames /\ x.node \in Nodes /\ OutMap(rt)
      BY <1>4, <1>7 DEF World, SubItems
    <2>2. RuntimeUpdateOutbound(x.name, x.name, x.node) \/ RuntimeAddOutbound(x.name, x.node)
      BY <1>3, <1>6 DEF ReloadApplies
    <2> QED
      BY <1>7, <2>1, <2>2, RuntimeUpdated, RuntimeAdded
  <1>1. World'
    BY <1>4, <1>8, RanOn DEF ReloadApplies
  <1>9. PICK t : t = Tail(r.next)
    OBVIOUS
  <1>20. /\ t \in Seq(SubItems) /\ \A i, k \in DOMAIN t : t[i].name = t[k].name => i = k
         /\ \A i \in DOMAIN t : t[i].node.sub # "absent"
    <2>1. \A i, k \in DOMAIN r.next : r.next[i].name = r.next[k].name => i = k
      BY <1>2, <1>3 DEF JobFit, JobHolds
    <2>2. /\ \A i, k \in DOMAIN t : t[i].name = t[k].name => i = k
          /\ \A i \in DOMAIN t : \E k \in DOMAIN r.next : t[i] = r.next[k]
      <3>1. PICK l : l = r.next
        OBVIOUS
      <3>2. l \in Seq(SubItems) /\ l # <<>> /\ (\A i, k \in DOMAIN l : l[i].name = l[k].name => i = k) /\ t = Tail(l)
        BY <1>5, <1>9, <2>1, <3>1
      <3>3. /\ \A i, k \in DOMAIN Tail(l) : Tail(l)[i].name = Tail(l)[k].name => i = k
            /\ \A i \in DOMAIN Tail(l) : \E k \in DOMAIN l : Tail(l)[i] = l[k]
        BY <3>2, TailNames, Zenon
      <3> QED
        BY <3>1, <3>2, <3>3
    <2>3. \A i \in DOMAIN r.next : r.next[i].node.sub # "absent"
      BY <1>2, <1>3, <1>5 DEF JobFit, JobHolds
    <2> QED
      BY <1>7, <1>9, <2>2, <2>3
  <1>10. CASE To(j, [r EXCEPT !.next = t])
    <2>1. JobFit(j, [r EXCEPT !.next = t])
      BY <1>2, <1>3, <1>10, <1>5, <1>20 DEF JobFit, JobRec, RouteOK, JobHolds, JobFields, Serving,
         OfEntry, OfNode, Upd, SubPcs, Operations, ReloadApplies
    <2> QED
      BY <1>1, <1>10, <2>1, TypesStep
  <1> QED
    BY <1>3, <1>9, <1>10 DEF ReloadApplies, Goto, Fails, End

LEMMA PersistAttemptFit == ASSUME SubTypes, PersistAttempt, AstrayStep PROVE SubTypes'
  <1>2. DOMAIN jobs[Scheduler] = JobFields /\ JobFit(Scheduler, jobs[Scheduler]) /\ Scheduler \in JobIds
    BY JobIn, SchedulerIs
  <1>3. PICK r : r = jobs[Scheduler]
    OBVIOUS
  <1>4. World
    BY DEF SubTypes
  <1>5. r.copy \in SubEntries /\ r.copy.rev > 0 /\ r.sid \in Subs /\ r.at \in 0 .. MaxTime
    BY <1>2, <1>3 DEF JobFit, JobRec, JobHolds, RouteOK, Serving, PersistAttempt
  <1>6. PICK c : c = MarkAttempt(r.copy, r.at)
    OBVIOUS
  <1>7. c \in SubEntries /\ c.rev > 0
    BY <1>5, <1>6, Outlasts DEF MarkAttempt
  <1>8. EntriesFit'
    <2>1. EntriesFit
      BY <1>4 DEF World
    <2>2. subs' = Stored(r.sid, r.sid, c) \/ subs' = subs
      BY <1>3, <1>6 DEF PersistAttempt
    <2>3. CASE subs' = subs
      BY <2>1, <2>3 DEF EntriesFit
    <2> QED
      BY <1>5, <1>7, <2>1, <2>2, <2>3, StoredFit
  <1>1. World'
    <2>1. UNCHANGED faults \/ (faults > 0 /\ faults' = faults - 1)
      BY DEF PersistAttempt
    <2>2. UNCHANGED <<conf, file, rt, server, now>>
      BY DEF PersistAttempt
    <2> QED
      BY <1>4, <1>8, <2>1, <2>2, Entered
  <1>10. CASE To(Scheduler, [r EXCEPT !.pc = "next"])
    <2>1. JobFit(Scheduler, [r EXCEPT !.pc = "next"])
      BY <1>2, <1>3, <1>10, <1>5 DEF JobFit, JobRec, RouteOK, JobHolds, JobFields, Serving, OfEntry,
         OfNode, Upd, SubPcs, Operations, PersistAttempt
    <2> QED
      BY <1>1, <1>10, <2>1, <1>2, TypesStep
  <1>11. CASE To(Scheduler, [r EXCEPT !.pc = "fetch", !.copy = c])
    <2>1. JobFit(Scheduler, [r EXCEPT !.pc = "fetch", !.copy = c])
      BY <1>2, <1>3, <1>11, <1>5, <1>7 DEF JobFit, JobRec, RouteOK, JobHolds, JobFields, Serving,
         OfEntry, OfNode, Upd, SubPcs, Operations, PersistAttempt
    <2> QED
      BY <1>1, <1>11, <2>1, <1>2, TypesStep
  <1> QED
    BY <1>3, <1>6, <1>10, <1>11 DEF PersistAttempt, Goto, Fails, End

\* A step that moves no request.
LEMMA StillFit == ASSUME SubTypes, AstrayStep, World', UNCHANGED jobs PROVE SubTypes'
  <1>1. GhostsFit'
    BY Ghosted DEF SubTypes
  <1>2. ASSUME NEW j \in JobIds PROVE JobFit(j, jobs[j])'
    BY DEF SubTypes, JobFit
  <1> QED
    BY <1>1, <1>2 DEF SubTypes

LEMMA AroundFit == ASSUME SubTypes, Tick \/ SessionsChange, AstrayStep PROVE SubTypes'
  <1>1. World'
    <2>1. now' \in 0 .. MaxTime
      BY SubConstants DEF SubTypes, World, Tick, SessionsChange
    <2>2. UNCHANGED <<subs, conf, file, rt, server, faults>>
      BY DEF Tick, SessionsChange
    <2> QED
      BY <2>1, <2>2 DEF SubTypes, World, EntriesFit, OutMap
  <1>2. UNCHANGED jobs
    BY DEF Tick, SessionsChange
  <1> QED
    BY <1>1, <1>2, StillFit

-----------------------------------------------------------------------------
(* Any step: who moves, and what it may touch.                             *)

\* A step of the request j.
SubStep(j) == ServiceStep(j) \/ RequestStep(j) \/ (j = Scheduler /\ (RunOnce \/ PersistAttempt))

\* Every step of a request keeps SubTypes.
LEMMA StepFit == ASSUME SubTypes, NEW j \in JobIds, SubStep(j), AstrayStep PROVE SubTypes'
  <1>1. CASE ServiceStep(j)
    BY <1>1, FetchFit, ReadExistingFit, ReadUsedFit, ReplaceSubscriptionOutboundsFit, SyncNodeFit,
       DeleteOutboundNoCascadeFit, SyncDoneFit, NextSubscriptionFit, UpdatesDoneFit, RecordResultFit DEF ServiceStep
  <1>2. CASE RequestStep(j)
    <2>1. CASE ReloadProxyOutbounds(j)
      BY <2>1, ReadWantedFit, ReadCurrentFit, ReloadDeletesFit, ReloadAppliesFit, ReloadDoneFit DEF
         ReloadProxyOutbounds
    <2>2. CASE UpdateProxySubscription(j)
      BY <2>2, EditReadsFit, EditWritesFit DEF UpdateProxySubscription
    <2> QED
      BY <1>2, <2>1, <2>2, BeginUpdateFit, CreateProxySubscriptionFit, DeleteProxySubscriptionFit,
         DeleteSubscriptionFit,
         CreateProxyOutboundFit, UpdateProxyOutboundFit, DeleteProxyOutboundFit, BlockReadsFit, BlockWritesFit,
         ApplyAddFit, ApplyChangeFit, ApplyRemoveFit, CascadeReadsFit, CascadeWritesFit, PickNodeFit,
         UpdateOutboundRuntimeFit, LoadFileFit DEF RequestStep
  <1>3. CASE RunOnce \/ PersistAttempt
    BY <1>3, RunOnceFit, PersistAttemptFit
  <1> QED
    BY <1>1, <1>2, <1>3, Zenon DEF SubStep

\* A step is one of a request, of the clock or of the players.
LEMMA SubNextIs ==
  ASSUME SubNext
  PROVE  GhostStep /\ ((\E j \in JobIds : SubStep(j)) \/ Tick \/ SessionsChange)
  BY DEF SubNext, SubStep, JobIds

\* SubTypes is kept.
LEMMA NextFit == ASSUME SubTypes, [SubNext]_subVars PROVE SubTypes'
  <1>1. CASE SubNext
    BY <1>1, SubNextIs, StepFit, AroundFit DEF GhostStep
  <1>2. CASE UNCHANGED subVars
    <2>2. World'
      BY <1>2, WorldStill DEF subVars, SubTypes
    <2>3. GhostsFit' /\ UNCHANGED jobs
      BY <1>2 DEF subVars, SubTypes, GhostsFit
    <2>4. ASSUME NEW j \in JobIds PROVE JobFit(j, jobs[j])'
      BY <2>3 DEF SubTypes, JobFit
    <2> QED
      BY <2>2, <2>3, <2>4 DEF SubTypes
  <1> QED
    BY <1>1, <1>2

\* What a step never changes of its request.
Kept(a, b) ==
    /\ DOMAIN b = JobFields /\ b.op = a.op /\ b.to = a.to /\ b.mode = a.mode /\ b.as = a.as
    /\ a.pc \notin {"ready", "next"} => b.sid = a.sid /\ b.queue = a.queue
    /\ a.pc = "done" => b.pc = "done"

\* A step changes only the request that moves, and of it only that.
LEMMA Moved ==
  ASSUME SubTypes, NEW j \in JobIds, SubStep(j)
  PROVE  Kept(jobs[j], jobs'[j])
  <1>0. DOMAIN jobs[j] = JobFields /\ DOMAIN jobs = JobIds
    BY JobIn DEF SubTypes
  <1>1. CASE FetchContent(j)
    <2>0. jobs[j].pc = "fetch"
      BY <1>1 DEF FetchContent
    <2>1. CASE To(j, [jobs[j] EXCEPT !.pc = "record", !.err = TRUE])
      BY <1>0, <2>0, <2>1 DEF To, Kept, JobFields
    <2>2. CASE \E c \in Contents : To(j, [jobs[j] EXCEPT !.pc = "existing", !.content = c])
      BY <1>0, <2>0, <2>2 DEF To, Kept, JobFields
    <2> QED
      BY <1>1, <2>1, <2>2 DEF FetchContent, Fails
  <1>2. CASE ReadExisting(j)
    BY <1>0, <1>2 DEF ReadExisting, To, Goto, Fails, End, Kept, JobFields
  <1>3. CASE ReadUsed(j)
    BY <1>0, <1>3 DEF ReadUsed, To, Goto, Fails, End, Kept, JobFields
  <1>4. CASE ReplaceSubscriptionOutbounds(j)
    <2>0. jobs[j].pc = "replace"
      BY <1>4 DEF ReplaceSubscriptionOutbounds
    <2>1. CASE To(j, [jobs[j] EXCEPT !.pc = AfterService(j, TRUE), !.err = TRUE])
      BY <1>0, <2>0, <2>1 DEF To, Kept, JobFields, AfterService
    <2>2. CASE To(j, [jobs[j] EXCEPT !.pc = "sync", !.todo = ItemNames(jobs[j].existing) \ NodeNames(jobs[j].next)])
      BY <1>0, <2>0, <2>2 DEF To, Kept, JobFields, AfterService
    <2> QED
      BY <1>4, <2>1, <2>2 DEF ReplaceSubscriptionOutbounds, Fails
  <1>5. CASE SyncNode(j)
    <2>0. jobs[j].pc = "sync"
      BY <1>5 DEF SyncNode
    <2>1. CASE To(j, [jobs[j] EXCEPT !.pc = "record", !.err = TRUE])
      BY <1>0, <2>0, <2>1 DEF To, Kept, JobFields
    <2>2. CASE To(j, [jobs[j] EXCEPT !.next = Tail(@)])
      BY <1>0, <2>0, <2>2 DEF To, Kept, JobFields
    <2> QED
      BY <1>5, <2>1, <2>2 DEF SyncNode, Fails
  <1>6. CASE DeleteOutboundNoCascade(j)
    BY <1>0, <1>6 DEF DeleteOutboundNoCascade, To, Goto, Fails, End, Kept, JobFields
  <1>7. CASE SyncDone(j)
    BY <1>0, <1>7 DEF SyncDone, To, Goto, Fails, End, Kept, JobFields, AfterService
  <1>8. CASE NextSubscription(j)
    BY <1>0, <1>8 DEF NextSubscription, To, Goto, Fails, End, Kept, JobFields
  <1>9. CASE UpdatesDone(j)
    BY <1>0, <1>9 DEF UpdatesDone, To, Goto, Fails, End, Kept, JobFields
  <1>10. CASE RecordResult(j)
    BY <1>0, <1>10 DEF RecordResult, To, Goto, Fails, End, Kept, JobFields
  <1>11. CASE BeginUpdate(j)
    BY <1>0, <1>11 DEF BeginUpdate, To, Goto, Fails, End, Kept, JobFields
  <1>12. CASE CreateProxySubscription(j)
    BY <1>0, <1>12 DEF CreateProxySubscription, To, Goto, Fails, End, Kept, JobFields
  <1>13. CASE EditReads(j)
    BY <1>0, <1>13 DEF EditReads, To, Goto, Fails, End, Kept, JobFields
  <1>14. CASE EditWrites(j)
    BY <1>0, <1>14 DEF EditWrites, To, Goto, Fails, End, Kept, JobFields
  <1>15. CASE DeleteProxySubscription(j)
    BY <1>0, <1>15 DEF DeleteProxySubscription, To, Goto, Fails, End, Kept, JobFields
  <1>16. CASE DeleteSubscription(j)
    BY <1>0, <1>16 DEF DeleteSubscription, To, Goto, Fails, End, Kept, JobFields
  <1>17. CASE CreateProxyOutbound(j)
    BY <1>0, <1>17 DEF CreateProxyOutbound, To, Goto, Fails, End, Kept, JobFields
  <1>18. CASE UpdateProxyOutbound(j)
    BY <1>0, <1>18 DEF UpdateProxyOutbound, To, Goto, Fails, End, Kept, JobFields
  <1>19. CASE DeleteProxyOutbound(j)
    BY <1>0, <1>19 DEF DeleteProxyOutbound, To, Goto, Fails, End, Kept, JobFields
  <1>20. CASE BlockReads(j)
    BY <1>0, <1>20 DEF BlockReads, To, Goto, Fails, End, Kept, JobFields
  <1>21. CASE BlockWrites(j)
    BY <1>0, <1>21 DEF BlockWrites, To, Goto, Fails, End, Kept, JobFields
  <1>22. CASE ApplyAdd(j)
    BY <1>0, <1>22 DEF ApplyAdd, To, Goto, Fails, End, Kept, JobFields
  <1>23. CASE ApplyChange(j)
    BY <1>0, <1>23 DEF ApplyChange, To, Goto, Fails, End, Kept, JobFields
  <1>24. CASE ApplyRemove(j)
    BY <1>0, <1>24 DEF ApplyRemove, To, Goto, Fails, End, Kept, JobFields, RuntimeDeleteOutbound
  <1>25. CASE CascadeReads(j)
    BY <1>0, <1>25 DEF CascadeReads, To, Goto, Fails, End, Kept, JobFields
  <1>26. CASE CascadeWrites(j)
    BY <1>0, <1>26 DEF CascadeWrites, To, Goto, Fails, End, Kept, JobFields
  <1>27. CASE PickNode(j)
    BY <1>0, <1>27 DEF PickNode, To, Goto, Fails, End, Kept, JobFields
  <1>28. CASE UpdateOutboundRuntime(j)
    BY <1>0, <1>28 DEF UpdateOutboundRuntime, To, Goto, Fails, End, Kept, JobFields
  <1>29. CASE LoadFile(j)
    BY <1>0, <1>29 DEF LoadFile, To, Goto, Fails, End, Kept, JobFields
  <1>30. CASE ReadWanted(j)
    BY <1>0, <1>30 DEF ReadWanted, To, Goto, Fails, End, Kept, JobFields
  <1>31. CASE ReadCurrent(j)
    BY <1>0, <1>31 DEF ReadCurrent, To, Goto, Fails, End, Kept, JobFields
  <1>32. CASE ReloadDeletes(j)
    BY <1>0, <1>32 DEF ReloadDeletes, To, Goto, Fails, End, Kept, JobFields, RuntimeDeleteOutbound
  <1>33. CASE ReloadApplies(j)
    BY <1>0, <1>33 DEF ReloadApplies, To, Goto, Fails, End, Kept, JobFields
  <1>34. CASE ReloadDone(j)
    BY <1>0, <1>34 DEF ReloadDone, To, Goto, Fails, End, Kept, JobFields
  <1>35. CASE j = Scheduler /\ RunOnce
    BY <1>0, <1>35 DEF RunOnce, To, Goto, Fails, End, Kept, JobFields
  <1>36. CASE j = Scheduler /\ PersistAttempt
    <2>1. \/ To(j, [jobs[j] EXCEPT !.pc = "next"])
          \/ \E c : To(j, [jobs[j] EXCEPT !.pc = "fetch", !.copy = c])
      BY <1>36, Zenon DEF PersistAttempt, Goto
    <2>2. jobs[j].pc = "attempt"
      BY <1>36 DEF PersistAttempt
    <2>3. CASE To(j, [jobs[j] EXCEPT !.pc = "next"])
      BY <1>0, <2>2, <2>3 DEF To, Kept, JobFields
    <2>4. ASSUME NEW c, To(j, [jobs[j] EXCEPT !.pc = "fetch", !.copy = c]) PROVE Kept(jobs[j], jobs'[j])
      BY <1>0, <2>2, <2>4 DEF To, Kept, JobFields
    <2> QED
      BY <2>1, <2>3, <2>4
  <1> QED
    BY <1>1, <1>2, <1>3, <1>4, <1>5, <1>6, <1>7, <1>8, <1>9, <1>10, <1>11, <1>12, <1>13, <1>14, <1>15,
       <1>16, <1>17, <1>18, <1>19, <1>20, <1>21, <1>22, <1>23, <1>24, <1>25, <1>26, <1>27, <1>28, <1>29,
       <1>30, <1>31, <1>32, <1>33, <1>34, <1>35, <1>36
       DEF SubStep, ServiceStep, RequestStep, UpdateProxySubscription, ReloadProxyOutbounds

\* The other requests stay as they are.
LEMMA Others ==
  ASSUME SubTypes, NEW j \in JobIds, SubStep(j)
  PROVE  DOMAIN jobs' = JobIds /\ \A i \in JobIds \ {j} : jobs'[i] = jobs[i]
  <1>0. DOMAIN jobs = JobIds
    BY DEF SubTypes
  <1>1. CASE FetchContent(j)
    BY <1>0, <1>1 DEF FetchContent, To, Goto, Fails, End
  <1>2. CASE ReadExisting(j)
    BY <1>0, <1>2 DEF ReadExisting, To, Goto, Fails, End
  <1>3. CASE ReadUsed(j)
    BY <1>0, <1>3 DEF ReadUsed, To, Goto, Fails, End
  <1>4. CASE ReplaceSubscriptionOutbounds(j)
    BY <1>0, <1>4 DEF ReplaceSubscriptionOutbounds, To, Goto, Fails, End
  <1>5. CASE SyncNode(j)
    BY <1>0, <1>5 DEF SyncNode, To, Goto, Fails, End
  <1>6. CASE DeleteOutboundNoCascade(j)
    BY <1>0, <1>6 DEF DeleteOutboundNoCascade, To, Goto, Fails, End
  <1>7. CASE SyncDone(j)
    BY <1>0, <1>7 DEF SyncDone, To, Goto, Fails, End
  <1>8. CASE NextSubscription(j)
    BY <1>0, <1>8 DEF NextSubscription, To, Goto, Fails, End
  <1>9. CASE UpdatesDone(j)
    BY <1>0, <1>9 DEF UpdatesDone, To, Goto, Fails, End
  <1>10. CASE RecordResult(j)
    BY <1>0, <1>10 DEF RecordResult, To, Goto, Fails, End
  <1>11. CASE BeginUpdate(j)
    BY <1>0, <1>11 DEF BeginUpdate, To, Goto, Fails, End
  <1>12. CASE CreateProxySubscription(j)
    BY <1>0, <1>12 DEF CreateProxySubscription, To, Goto, Fails, End
  <1>13. CASE EditReads(j)
    BY <1>0, <1>13 DEF EditReads, To, Goto, Fails, End
  <1>14. CASE EditWrites(j)
    BY <1>0, <1>14 DEF EditWrites, To, Goto, Fails, End
  <1>15. CASE DeleteProxySubscription(j)
    BY <1>0, <1>15 DEF DeleteProxySubscription, To, Goto, Fails, End
  <1>16. CASE DeleteSubscription(j)
    BY <1>0, <1>16 DEF DeleteSubscription, To, Goto, Fails, End
  <1>17. CASE CreateProxyOutbound(j)
    BY <1>0, <1>17 DEF CreateProxyOutbound, To, Goto, Fails, End
  <1>18. CASE UpdateProxyOutbound(j)
    BY <1>0, <1>18 DEF UpdateProxyOutbound, To, Goto, Fails, End
  <1>19. CASE DeleteProxyOutbound(j)
    BY <1>0, <1>19 DEF DeleteProxyOutbound, To, Goto, Fails, End
  <1>20. CASE BlockReads(j)
    BY <1>0, <1>20 DEF BlockReads, To, Goto, Fails, End
  <1>21. CASE BlockWrites(j)
    BY <1>0, <1>21 DEF BlockWrites, To, Goto, Fails, End
  <1>22. CASE ApplyAdd(j)
    BY <1>0, <1>22 DEF ApplyAdd, To, Goto, Fails, End
  <1>23. CASE ApplyChange(j)
    BY <1>0, <1>23 DEF ApplyChange, To, Goto, Fails, End
  <1>24. CASE ApplyRemove(j)
    BY <1>0, <1>24 DEF ApplyRemove, To, Goto, Fails, End, RuntimeDeleteOutbound
  <1>25. CASE CascadeReads(j)
    BY <1>0, <1>25 DEF CascadeReads, To, Goto, Fails, End
  <1>26. CASE CascadeWrites(j)
    BY <1>0, <1>26 DEF CascadeWrites, To, Goto, Fails, End
  <1>27. CASE PickNode(j)
    BY <1>0, <1>27 DEF PickNode, To, Goto, Fails, End
  <1>28. CASE UpdateOutboundRuntime(j)
    BY <1>0, <1>28 DEF UpdateOutboundRuntime, To, Goto, Fails, End
  <1>29. CASE LoadFile(j)
    BY <1>0, <1>29 DEF LoadFile, To, Goto, Fails, End
  <1>30. CASE ReadWanted(j)
    BY <1>0, <1>30 DEF ReadWanted, To, Goto, Fails, End
  <1>31. CASE ReadCurrent(j)
    BY <1>0, <1>31 DEF ReadCurrent, To, Goto, Fails, End
  <1>32. CASE ReloadDeletes(j)
    BY <1>0, <1>32 DEF ReloadDeletes, To, Goto, Fails, End, RuntimeDeleteOutbound
  <1>33. CASE ReloadApplies(j)
    BY <1>0, <1>33 DEF ReloadApplies, To, Goto, Fails, End
  <1>34. CASE ReloadDone(j)
    BY <1>0, <1>34 DEF ReloadDone, To, Goto, Fails, End
  <1>35. CASE j = Scheduler /\ RunOnce
    BY <1>0, <1>35 DEF RunOnce, To, Goto, Fails, End
  <1>36. CASE j = Scheduler /\ PersistAttempt
    BY <1>0, <1>36 DEF PersistAttempt, To, Goto, Fails, End
  <1> QED
    BY <1>1, <1>2, <1>3, <1>4, <1>5, <1>6, <1>7, <1>8, <1>9, <1>10, <1>11, <1>12, <1>13, <1>14, <1>15,
       <1>16, <1>17, <1>18, <1>19, <1>20, <1>21, <1>22, <1>23, <1>24, <1>25, <1>26, <1>27, <1>28, <1>29,
       <1>30, <1>31, <1>32, <1>33, <1>34, <1>35, <1>36
       DEF SubStep, ServiceStep, RequestStep, UpdateProxySubscription, ReloadProxyOutbounds

\* The steps that may change the configuration or the file, and the entries.
LEMMA ConfFrame ==
  ASSUME NEW j \in JobIds, SubStep(j), ~(ReplaceSubscriptionOutbounds(j) \/ CreateProxyOutbound(j) \/ UpdateProxyOutbound(j) \/ DeleteProxyOutbound(j) \/ BlockWrites(j) \/ UpdateOutboundRuntime(j) \/ LoadFile(j))
  PROVE  UNCHANGED <<conf, file>>
  <1>1. CASE ServiceStep(j)
    BY <1>1 DEF ServiceStep, FetchContent, ReadExisting, ReadUsed, ReplaceSubscriptionOutbounds,
       SyncNode, DeleteOutboundNoCascade, SyncDone, NextSubscription, UpdatesDone, RecordResult
  <1>2. CASE RequestStep(j)
    BY <1>2 DEF RequestStep, UpdateProxySubscription, ReloadProxyOutbounds, BeginUpdate,
       CreateProxySubscription, EditReads, EditWrites, DeleteProxySubscription, DeleteSubscription,
       CreateProxyOutbound, UpdateProxyOutbound, DeleteProxyOutbound, BlockReads, BlockWrites,
       ApplyAdd, ApplyChange, ApplyRemove, CascadeReads, CascadeWrites, PickNode,
       UpdateOutboundRuntime, LoadFile, ReadWanted, ReadCurrent, ReloadDeletes, ReloadApplies,
       ReloadDone
  <1>3. CASE j = Scheduler /\ (RunOnce \/ PersistAttempt)
    BY <1>3 DEF RunOnce, PersistAttempt
  <1> QED
    BY <1>1, <1>2, <1>3, Zenon DEF SubStep

LEMMA SubsFrame ==
  ASSUME NEW j \in JobIds, SubStep(j), ~(RecordResult(j) \/ CreateProxySubscription(j) \/ EditWrites(j) \/ DeleteSubscription(j) \/ (j = Scheduler /\ PersistAttempt))
  PROVE  UNCHANGED subs
  <1>1. CASE ServiceStep(j)
    BY <1>1 DEF ServiceStep, FetchContent, ReadExisting, ReadUsed, ReplaceSubscriptionOutbounds,
       SyncNode, DeleteOutboundNoCascade, SyncDone, NextSubscription, UpdatesDone, RecordResult
  <1>2. CASE RequestStep(j)
    BY <1>2 DEF RequestStep, UpdateProxySubscription, ReloadProxyOutbounds, BeginUpdate,
       CreateProxySubscription, EditReads, EditWrites, DeleteProxySubscription, DeleteSubscription,
       CreateProxyOutbound, UpdateProxyOutbound, DeleteProxyOutbound, BlockReads, BlockWrites,
       ApplyAdd, ApplyChange, ApplyRemove, CascadeReads, CascadeWrites, PickNode,
       UpdateOutboundRuntime, LoadFile, ReadWanted, ReadCurrent, ReloadDeletes, ReloadApplies,
       ReloadDone
  <1>3. CASE j = Scheduler /\ (RunOnce \/ PersistAttempt)
    BY <1>3 DEF RunOnce, PersistAttempt
  <1> QED
    BY <1>1, <1>2, <1>3, Zenon DEF SubStep

\* The step that a request at a given place takes.
LEMMA Turns ==
  ASSUME NEW j \in JobIds, SubStep(j)
  PROVE  /\ jobs[j].pc = "next" => NextSubscription(j) \/ UpdatesDone(j)
         /\ jobs[j].pc = "replace" => ReplaceSubscriptionOutbounds(j)
         /\ jobs[j].pc = "existing" => ReadExisting(j)
         /\ jobs[j].pc = "used" => ReadUsed(j)
         /\ jobs[j].pc = "ready" /\ jobs[j].op \in Upd => BeginUpdate(j) \/ (j = Scheduler /\ RunOnce)
         /\ jobs[j].pc = "ready" /\ jobs[j].op = "delete" => DeleteProxySubscription(j) \/ (j = Scheduler /\ RunOnce)
         /\ jobs[j].pc = "ready" /\ jobs[j].op = "reload" => LoadFile(j) \/ (j = Scheduler /\ RunOnce)
         /\ jobs[j].pc = "ready" /\ jobs[j].op = "change" => UpdateProxyOutbound(j) \/ (j = Scheduler /\ RunOnce)
         /\ jobs[j].pc = "ready" /\ jobs[j].op = "remove" => DeleteProxyOutbound(j) \/ (j = Scheduler /\ RunOnce)
         /\ jobs[j].pc # "done"
  <1>1. CASE ServiceStep(j)
    BY <1>1 DEF ServiceStep, FetchContent, ReadExisting, ReadUsed, ReplaceSubscriptionOutbounds,
       SyncNode,
       DeleteOutboundNoCascade, SyncDone, NextSubscription, UpdatesDone, RecordResult
  <1>2. CASE RequestStep(j)
    BY <1>2 DEF Upd, RequestStep, UpdateProxySubscription, ReloadProxyOutbounds, BeginUpdate,
       CreateProxySubscription, EditReads, EditWrites, DeleteProxySubscription,
       DeleteSubscription, CreateProxyOutbound, UpdateProxyOutbound, DeleteProxyOutbound, BlockReads,
       BlockWrites, ApplyAdd, ApplyChange, ApplyRemove, CascadeReads, CascadeWrites, PickNode,
       UpdateOutboundRuntime, LoadFile, ReadWanted, ReadCurrent, ReloadDeletes, ReloadApplies, ReloadDone
  <1>3. CASE j = Scheduler /\ (RunOnce \/ PersistAttempt)
    BY <1>3 DEF RunOnce, PersistAttempt
  <1> QED
    BY <1>1, <1>2, <1>3, Zenon DEF SubStep

-----------------------------------------------------------------------------
(* Orphans.                                                                *)

\* A map without a node of s.
Fresh(s, m) == \A n \in OutNames : m[n].sub # s

\* It stays without when what is saved has none.
LEMMA SavedFresh ==
  ASSUME NEW s, NEW m, SaveWorks(m) \/ SaveFails(m) \/ UNCHANGED <<conf, file, faults>>, Fresh(s, m), Fresh(s, conf), Fresh(s, file)
  PROVE  Fresh(s, conf') /\ Fresh(s, file')
  BY DEF SaveWorks, SaveFails, Fresh

\* Both copies are without.
LEMMA NoneOf == ASSUME NEW s PROVE NodesOf(s) = {} <=> Fresh(s, conf) /\ Fresh(s, file)
  BY DEF NodesOf, OfSub, Fresh

LEMMA NoneOfNext == ASSUME NEW s PROVE (NodesOf(s) = {})' <=> Fresh(s, conf') /\ Fresh(s, file')
  BY DEF NodesOf, OfSub, Fresh

\* No subscription has the id of the others.
LEMMA NotASub == ASSUME NEW s \in Subs PROVE s \notin {"manual", "absent", Nothing}
  BY SubConstants

\* What ReplaceSubscriptionOutbounds leaves of a subscription.
LEMMA ReplacedFresh ==
  ASSUME SubTypes, NEW j \in JobIds, jobs[j].pc = "replace", NEW s \in Subs, Fresh(s, conf),
         s # jobs[j].sid \/ jobs[j].op = "delete"
  PROVE  Fresh(s, Replaced(jobs[j].sid, jobs[j].next))
  <1>1. PICK t : t = jobs[j].sid
    OBVIOUS
  <1>2. PICK next : next = jobs[j].next
    OBVIOUS
  <1>3. /\ OutMap(conf) /\ t \in Subs /\ next \in Seq(SubItems) /\ \A i \in DOMAIN next : next[i].node.sub = t
        /\ \A i, k \in DOMAIN next : next[i].name = next[k].name => i = k
    BY <1>1, <1>2, JobIn DEF JobFit, JobHolds, JobRec, Serving, World, SubTypes
  <1>4. s # t \/ next = <<>>
    BY <1>1, <1>2, JobIn DEF JobFit, JobHolds
  <1>5. PICK m : m = Replaced(t, next)
    OBVIOUS
  <1>6. /\ \A i \in DOMAIN next : m[next[i].name] = next[i].node
        /\ \A n \in OutNames \ NodeNames(next) : m[n] = IF conf[n].sub = t THEN NoNode ELSE conf[n]
    BY <1>3, <1>5, ReplacedIs
  <1>7. ASSUME NEW n \in OutNames PROVE m[n].sub # s
    <2>1. CASE n \in NodeNames(next)
      <3>1. PICK i \in DOMAIN next : n = next[i].name
        BY <2>1 DEF NodeNames
      <3>2. m[n].sub = t /\ next # <<>>
        BY <1>3, <1>6, <3>1
      <3> QED
        BY <1>4, <3>2
    <2>2. CASE n \notin NodeNames(next)
      BY <1>6, <2>2, NotASub, OutNodes DEF Fresh
    <2> QED
      BY <2>1, <2>2
  <1> QED
    BY <1>1, <1>2, <1>5, <1>7 DEF Fresh

\* A step that brings a node of s where there was none, and does not split s, is one of an update of s.
LEMMA Newcomers ==
  ASSUME SubTypes, NEW j \in JobIds, SubStep(j), SplitStep, NEW s \in Subs, s \notin split',
         NodesOf(s) = {}, (NodesOf(s) # {})'
  PROVE  Updates(jobs[j], s) /\ Updates(jobs'[j], s)
  <1>1. Fresh(s, conf) /\ Fresh(s, file)
    BY NoneOf
  <1>2. ~(Fresh(s, conf') /\ Fresh(s, file'))
    BY NoneOfNext
  <1>3. s \notin {"manual", "absent", Nothing} /\ Manual("typed").sub = "manual" /\ NoNode.sub = "absent"
    BY NotASub, OutNodes
  <1>4. OutMap(conf) /\ OutMap(file) /\ JobFit(j, jobs[j])
    BY JobIn DEF SubTypes, World
  <1>5. PICK r : r = jobs[j]
    OBVIOUS
  <1>6. r.op \in OfNode => r.name \in OutNames
    BY <1>4, <1>5 DEF JobFit, JobHolds
  <1>10. CASE ReplaceSubscriptionOutbounds(j)
    <2>1. r.pc = "replace" /\ r.op \in Upd \cup {"delete"}
      BY <1>4, <1>5, <1>10 DEF ReplaceSubscriptionOutbounds, JobFit, RouteOK
    <2>2. PICK m : m = Replaced(r.sid, r.next)
      OBVIOUS
    <2>3. SaveWorks(m) \/ SaveFails(m) \/ UNCHANGED <<conf, file, faults>>
      BY <1>5, <1>10, <2>2 DEF ReplaceSubscriptionOutbounds
    <2>4. ~Fresh(s, m)
      BY <1>1, <1>2, <2>3, SavedFresh
    <2>5. s = r.sid /\ r.op # "delete"
      BY <1>1, <1>5, <2>1, <2>2, <2>4, ReplacedFresh
    <2>6. jobs'[j].pc \in {"record", "sync"}
      BY <1>5, <1>10, <2>5, JobIn DEF ReplaceSubscriptionOutbounds, AfterService, Fails, To,
         JobFields, SubTypes
    <2>7. jobs'[j].op = r.op /\ jobs'[j].sid = r.sid
      BY <1>5, <2>1, Moved DEF Kept
    <2> QED
      BY <1>5, <2>1, <2>5, <2>6, <2>7 DEF Updates, Running, Upd
  <1>11. CASE CreateProxyOutbound(j)
    <2>1. Fresh(s, [conf EXCEPT ![r.name] = Manual("typed")])
      BY <1>1, <1>3, <1>4 DEF Fresh, OutMap, Maps
    <2> QED
      BY <1>1, <1>2, <1>5, <1>11, <2>1, SavedFresh DEF CreateProxyOutbound
  <1>12. CASE UpdateProxyOutbound(j)
    <2>1. Fresh(s, Renamed(conf, r.name, r.as, Manual("typed")))
      BY <1>1, <1>3, <1>4 DEF Fresh, OutMap, Maps, Renamed
    <2> QED
      BY <1>1, <1>2, <1>5, <1>12, <2>1, SavedFresh DEF UpdateProxyOutbound
  <1>13. CASE DeleteProxyOutbound(j)
    <2>1. Fresh(s, [conf EXCEPT ![r.name] = NoNode])
      BY <1>1, <1>3, <1>4 DEF Fresh, OutMap, Maps
    <2> QED
      BY <1>1, <1>2, <1>5, <1>13, <2>1, SavedFresh DEF DeleteProxyOutbound
  <1>14. CASE BlockWrites(j)
    <2>1. r.op = "block" /\ r.pc = "write" /\ r.name \in OutNames
      BY <1>5, <1>6, <1>14 DEF BlockWrites, OfNode
    <2>2. jobs'[j].pc # "write"
      BY <1>14, JobIn DEF BlockWrites, Goto, To, JobFields, SubTypes
    <2>3. r.node.sub = s => conf[r.name].sub \in {s, "absent"}
      BY <1>5, <2>1, <2>2 DEF SplitStep
    <2>4. CASE conf[r.name] = NoNode
      BY <1>1, <1>2, <1>5, <1>14, <2>4 DEF BlockWrites
    <2>5. CASE conf[r.name] # NoNode
      <3>1. r.node.sub # s
        BY <1>1, <1>4, <2>1, <2>3, <2>5, NodeAbsent DEF Fresh
      <3>2. Fresh(s, [conf EXCEPT ![r.name] = r.node])
        BY <1>1, <1>4, <3>1 DEF Fresh, OutMap, Maps
      <3> QED
        BY <1>1, <1>2, <1>5, <1>14, <3>2, SavedFresh DEF BlockWrites
    <2> QED
      BY <2>4, <2>5
  <1>15. CASE UpdateOutboundRuntime(j)
    <2>1. r.name \in OutNames
      BY <1>5, <1>6, <1>15 DEF UpdateOutboundRuntime, OfNode
    <2>2. conf[r.name] \in Nodes
      BY <1>4, <2>1, NodeAbsent
    <2>3. PICK x : x = [conf[r.name] EXCEPT !.tested = TRUE]
      OBVIOUS
    <2>4. x.sub = conf[r.name].sub
      BY <2>2, <2>3 DEF Nodes
    <2>5. conf' = conf \/ conf' = [conf EXCEPT ![r.name] = x]
      BY <1>5, <1>15, <2>3 DEF UpdateOutboundRuntime
    <2>6. Fresh(s, [conf EXCEPT ![r.name] = x])
      BY <1>1, <1>4, <2>1, <2>4 DEF Fresh, OutMap, Maps
    <2> QED
      BY <1>1, <1>2, <1>15, <2>5, <2>6 DEF UpdateOutboundRuntime
  <1>16. CASE LoadFile(j)
    <2>1. PICK x : x = IF file[r.name] = NoNode THEN Manual("typed") ELSE NoNode
      OBVIOUS
    <2>2. conf' = [file EXCEPT ![r.name] = x] /\ file' = [file EXCEPT ![r.name] = x]
      BY <1>5, <1>16, <2>1 DEF LoadFile
    <2>3. Fresh(s, [file EXCEPT ![r.name] = x])
      BY <1>1, <1>3, <1>4, <2>1 DEF Fresh, OutMap, Maps
    <2> QED
      BY <1>2, <2>2, <2>3
  <1> QED
    BY <1>1, <1>2, <1>10, <1>11, <1>12, <1>13, <1>14, <1>15, <1>16, ConfFrame

\* A step that takes the entry of s away, and does not split s, is the last one of its deletion.
LEMMA Unlisted ==
  ASSUME SubTypes, NEW j \in JobIds, SubStep(j), SplitStep, NEW s \in Subs, s \notin split', subs[s] # NoSub, subs'[s] = NoSub
  PROVE  Deletes(jobs[j], s) /\ jobs[j].pc = "unlist"
  <1>1. JobFit(j, jobs[j]) /\ EntriesFit /\ now \in 0 .. MaxTime
    BY JobIn DEF SubTypes, World
  <1>2. PICK r : r = jobs[j]
    OBVIOUS
  <1>3. NoSub.rev = 0
    BY DEF NoSub
  <1>10. CASE RecordResult(j)
    <2>1. r.copy \in SubEntries /\ r.copy.rev > 0
      BY <1>1, <1>2, <1>10 DEF RecordResult, JobFit, JobRec, RouteOK, JobHolds, Serving, Upd
    <2>2. PICK c : c = Outcome(j)
      OBVIOUS
    <2>3. c.rev = r.copy.rev
      BY <1>2, <2>1, <2>2 DEF Outcome, SubEntries
    <2>4. subs' = subs \/ subs' = Stored(r.sid, r.sid, c)
      BY <1>2, <1>10, <2>2 DEF RecordResult
    <2> QED
      BY <1>1, <1>3, <2>1, <2>3, <2>4 DEF EntriesFit, Stored
  <1>11. CASE CreateProxySubscription(j)
    BY <1>1, <1>11 DEF CreateProxySubscription, AddSubscription, EntriesFit
  <1>12. CASE EditWrites(j)
    <2>1. r.op = "edit" /\ r.pc = "write" /\ r.copy \in SubEntries /\ r.mode \in Modes
      BY <1>1, <1>2, <1>12 DEF EditWrites, JobFit, JobRec
    <2>2. r.sid = s => r.to = s
      BY <1>2, <2>1 DEF SplitStep
    <2>6. PICK on \in BOOLEAN : subs' = IF CanStore(r.sid, r.to)
             THEN Stored(r.sid, r.to, ManualSave(ToConfig(r.copy, r.mode, on))) ELSE subs
      BY <1>2, <1>12 DEF EditWrites
    <2>3. PICK c : c = ManualSave(ToConfig(r.copy, r.mode, on))
      OBVIOUS
    <2>4. c.rev > 0
      BY <1>1, <2>1, <2>3, Typed
    <2>5. subs' = subs \/ subs' = Stored(r.sid, r.to, c)
      BY <2>3, <2>6
    <2> QED
      BY <1>1, <1>3, <2>2, <2>4, <2>5 DEF EntriesFit, Stored
  <1>13. CASE DeleteSubscription(j)
    <2>1. r.pc = "unlist" /\ r.op = "delete"
      BY <1>1, <1>2, <1>13 DEF DeleteSubscription, JobFit, RouteOK
    <2>2. r.sid = s
      BY <1>1, <1>2, <1>13 DEF DeleteSubscription, EntriesFit
    <2> QED
      BY <1>2, <2>1, <2>2 DEF Deletes, Running
  <1>14. CASE PersistAttempt /\ j = Scheduler
    <2>1. r.copy \in SubEntries /\ r.copy.rev > 0
      BY <1>1, <1>2, <1>14 DEF PersistAttempt, JobFit, JobRec, RouteOK, JobHolds, Serving
    <2>2. PICK c : c = MarkAttempt(r.copy, r.at)
      OBVIOUS
    <2>3. c.rev = r.copy.rev
      BY <2>1, <2>2 DEF MarkAttempt, SubEntries
    <2>4. subs' = subs \/ subs' = Stored(r.sid, r.sid, c)
      BY <1>2, <1>14, <2>2 DEF PersistAttempt
    <2> QED
      BY <1>1, <1>3, <2>1, <2>3, <2>4 DEF EntriesFit, Stored
  <1> QED
    BY <1>10, <1>11, <1>12, <1>13, <1>14, SubsFrame

\* The queue has only entries that were asked for.
LEMMA OrderKnown ==
  ASSUME EntriesFit, NEW ids \in SUBSET Subs, NEW i \in DOMAIN Order(ids)
  PROVE  Order(ids)[i].sid \in ids
  <1>1. PICK q : q = Order(ids)
    OBVIOUS
  <1>2. \A k \in DOMAIN q : q[k].sid \in ids
    BY <1>1, OrderFit
  <1> QED
    BY <1>1, <1>2

\* A request that comes to update s found the entry there.
LEMMA UpdatesFrom ==
  ASSUME SubTypes, NEW j \in JobIds, SubStep(j), NEW s \in Subs, Updates(jobs'[j], s), ~Updates(jobs[j], s)
  PROVE  subs[s] # NoSub /\ UNCHANGED subs
  <1>1. PICK a : a = jobs[j]
    OBVIOUS
  <1>2. PICK b : b = jobs'[j]
    OBVIOUS
  <1>3. Kept(a, b) /\ JobFit(j, a)
    BY <1>1, <1>2, Moved, JobIn
  <1>4. Updates(b, s) /\ ~Updates(a, s)
    BY <1>1, <1>2
  <1>5. a.pc \in {"ready", "next"} /\ a.op \in Upd /\ Running(b)
    BY <1>3, <1>4 DEF Kept, Updates, Running, Upd
  <1>6. DOMAIN a = JobFields /\ DOMAIN jobs = JobIds /\ EntriesFit
    BY <1>3 DEF JobFit, JobRec, SubTypes, World
  <1>7. ASSUME NEW ids \in SUBSET Subs, \A t \in ids : subs[t] # NoSub, b.pc = "next", b.queue = Order(ids)
        PROVE  subs[s] # NoSub
    <2>1. PICK i \in DOMAIN b.queue : b.queue[i].sid = s
      BY <1>4, <1>7 DEF Updates
    <2> QED
      BY <1>6, <1>7, <2>1, OrderKnown
  <1>8. CASE NextSubscription(j)
    <2>1. a.queue \in Seq(Queued) /\ a.queue # <<>> /\ a.pc = "next"
      BY <1>1, <1>3, <1>8 DEF JobFit, JobRec, NextSubscription
    <2>2. PICK t : t = Tail(a.queue)
      OBVIOUS
    <2>3. PICK q : q = Head(a.queue)
      OBVIOUS
    <2>4. b.queue = t /\ b.sid = q.sid
      BY <1>1, <1>2, <1>6, <1>8, <2>2, <2>3 DEF NextSubscription, To, JobFields
    <2>5. /\ q = a.queue[1] /\ 1 \in DOMAIN a.queue
          /\ \A i \in DOMAIN t : i + 1 \in DOMAIN a.queue /\ t[i] = a.queue[i + 1]
      BY <2>1, <2>2, <2>3, TailFit
    <2>6. \E i \in DOMAIN a.queue : a.queue[i].sid = s
      BY <1>4, <2>4, <2>5 DEF Updates
    <2> QED
      BY <1>4, <1>5, <2>1, <2>6 DEF Updates, Running, Upd
  <1>9. CASE UpdatesDone(j)
    BY <1>1, <1>2, <1>5, <1>6, <1>9 DEF UpdatesDone, Goto, To, JobFields, Running
  <1>10. CASE BeginUpdate(j)
    <2>1. PICK ids : ids = {t \in Subs : Enabled(t) /\ (a.op = "now" => t = a.sid)}
      OBVIOUS
    <2>2. b.pc = "next" /\ b.queue = Order(ids)
      BY <1>1, <1>2, <1>6, <1>10, <2>1 DEF BeginUpdate, To, JobFields
    <2>3. ids \in SUBSET Subs /\ \A t \in ids : subs[t] # NoSub
      BY <2>1 DEF Enabled
    <2> QED
      BY <1>7, <1>10, <2>2, <2>3 DEF BeginUpdate
  <1>11. CASE RunOnce /\ j = Scheduler
    <2>1. PICK ids : ids = {t \in Subs : subs[t] # NoSub /\ Due(subs[t])}
      OBVIOUS
    <2>2. b.pc = "next" /\ b.queue = Order(ids)
      BY <1>1, <1>2, <1>6, <1>11, <2>1 DEF RunOnce, To, JobFields
    <2>3. ids \in SUBSET Subs /\ \A t \in ids : subs[t] # NoSub
      BY <2>1
    <2> QED
      BY <1>7, <1>11, <2>2, <2>3 DEF RunOnce
  <1> QED
    BY <1>1, <1>5, <1>8, <1>9, <1>10, <1>11, Turns

\* A deletion of s that comes to the running map has left no node in the configuration.
LEMMA DeletesFrom ==
  ASSUME SubTypes, NEW j \in JobIds, SubStep(j), NEW s \in Subs,
         Deletes(jobs'[j], s), jobs'[j].pc \in {"sync", "unlist"}, ~(Deletes(jobs[j], s) /\ jobs[j].pc \in {"sync", "unlist"})
  PROVE  (NodesOf(s) = {})'
  <1>1. PICK a : a = jobs[j]
    OBVIOUS
  <1>2. PICK b : b = jobs'[j]
    OBVIOUS
  <1>3. Kept(a, b) /\ JobFit(j, a)
    BY <1>1, <1>2, Moved, JobIn
  <1>4. DOMAIN a = JobFields /\ DOMAIN jobs = JobIds /\ OutMap(conf)
    BY <1>3 DEF JobFit, JobRec, SubTypes, World
  <1>5. Deletes(b, s) /\ b.pc \in {"sync", "unlist"} /\ ~(Deletes(a, s) /\ a.pc \in {"sync", "unlist"})
    BY <1>1, <1>2
  <1>6. a.op = "delete" /\ a.pc \in {"ready", "existing", "replace"}
    BY <1>3, <1>5 DEF Kept, Deletes, JobFit, JobRec, RouteOK, SubPcs, Upd, Running
  <1>7. CASE a.pc = "existing"
    <2>1. ReadExisting(j)
      BY <1>1, <1>7, Turns
    <2>2. b.pc = "replace"
      BY <1>1, <1>2, <1>4, <1>6, <2>1 DEF ReadExisting, To, JobFields
    <2> QED
      BY <1>5, <2>2
  <1>8. CASE a.pc = "ready"
    <2>1. j # Scheduler
      BY <1>3, <1>6 DEF JobFit
    <2> QED
      BY <1>1, <1>2, <1>4, <1>5, <1>6, <1>8, <2>1, Turns DEF DeleteProxySubscription, Goto, To,
         JobFields
  <1>9. CASE a.pc = "replace"
    <2>1. ReplaceSubscriptionOutbounds(j) /\ b.sid = a.sid
      BY <1>1, <1>3, <1>9, Turns DEF Kept
    <2>2. b.pc = AfterService(j, TRUE) \/ SaveWorks(Replaced(a.sid, a.next))
      BY <1>1, <1>2, <1>4, <2>1 DEF ReplaceSubscriptionOutbounds, Fails, To, JobFields
    <2>3. SaveWorks(Replaced(a.sid, a.next)) /\ a.sid = s
      BY <1>1, <1>5, <1>6, <2>1, <2>2 DEF AfterService, Deletes
    <2>4. Fresh(s, Replaced(s, a.next))
      <3>1. a.next = <<>>
        BY <1>3, <1>6 DEF JobFit, JobHolds
      <3>2. <<>> \in Seq(SubItems) /\ NodeNames(<<>>) = {} /\ DOMAIN <<>> = {}
        BY DEF NodeNames
      <3>3. \A n \in OutNames : Replaced(s, <<>>)[n] = IF conf[n].sub = s THEN NoNode ELSE conf[n]
        BY <1>4, <3>2 DEF Replaced
      <3> QED
        BY <3>1, <3>3, NotASub, OutNodes DEF Fresh
    <2>5. Fresh(s, conf') /\ Fresh(s, file')
      BY <2>3, <2>4 DEF SaveWorks
    <2> QED
      BY <2>5, NoneOfNext
  <1> QED
    BY <1>6, <1>7, <1>8, <1>9

\* Orphans is kept by the steps of the requests, and by the others.
LEMMA OrphansStep ==
  ASSUME SubTypes, Orphans, NEW j \in JobIds, SubStep(j), SplitStep PROVE Orphans'
  <1>1. SUFFICES ASSUME NEW s \in Subs, s \notin split'
        PROVE  /\ (NodesOf(s) # {})' => subs'[s] # NoSub
               /\ \A i \in JobIds : Updates(jobs'[i], s) => subs'[s] # NoSub /\ \A k \in JobIds : ~Deletes(jobs'[k], s)
               /\ \A k \in JobIds : Deletes(jobs'[k], s) /\ jobs'[k].pc \in {"sync", "unlist"} => (NodesOf(s) = {})'
    BY DEF Orphans, NodesOf
  <1>2. s \notin split /\ \A i, k \in JobIds : ~(Updates(jobs'[i], s) /\ Deletes(jobs'[k], s))
    BY <1>1 DEF SplitStep
  <1>3. /\ NodesOf(s) # {} => subs[s] # NoSub
        /\ \A i \in JobIds : Updates(jobs[i], s) => subs[s] # NoSub /\ \A k \in JobIds : ~Deletes(jobs[k], s)
        /\ \A k \in JobIds : Deletes(jobs[k], s) /\ jobs[k].pc \in {"sync", "unlist"} => NodesOf(s) = {}
    BY <1>2 DEF Orphans
  <1>4. \A i \in JobIds \ {j} : jobs'[i] = jobs[i]
    BY Others
  <1>5. (NodesOf(s) # {})' => NodesOf(s) # {} \/ (Updates(jobs[j], s) /\ Updates(jobs'[j], s))
    BY <1>1, Newcomers
  <1>6. subs[s] # NoSub /\ subs'[s] = NoSub => Deletes(jobs[j], s) /\ jobs[j].pc = "unlist"
    BY <1>1, Unlisted
  <1>7. Updates(jobs'[j], s) => Updates(jobs[j], s) \/ (subs[s] # NoSub /\ UNCHANGED subs)
    BY <1>1, UpdatesFrom
  <1>8. (NodesOf(s) # {})' => subs'[s] # NoSub
    BY <1>3, <1>5, <1>6
  <1>9. ASSUME NEW i \in JobIds, Updates(jobs'[i], s) PROVE subs'[s] # NoSub
    <2>1. Updates(jobs[i], s) \/ (subs[s] # NoSub /\ UNCHANGED subs)
      BY <1>4, <1>7, <1>9
    <2> QED
      BY <1>3, <1>6, <2>1
  <1>10. ASSUME NEW k \in JobIds, Deletes(jobs'[k], s), jobs'[k].pc \in {"sync", "unlist"} PROVE (NodesOf(s) = {})'
    <2>1. (Deletes(jobs[k], s) /\ jobs[k].pc \in {"sync", "unlist"}) \/ (NodesOf(s) = {})'
      BY <1>1, <1>4, <1>10, DeletesFrom
    <2> QED
      BY <1>2, <1>3, <1>5, <1>10, <2>1
  <1> QED
    BY <1>2, <1>8, <1>9, <1>10

LEMMA OrphansStill ==
  ASSUME Orphans, UNCHANGED <<subs, conf, file, jobs>>, SplitStep \/ UNCHANGED split PROVE Orphans'
  <1>1. split \subseteq split'
    BY DEF SplitStep
  <1> QED
    BY <1>1 DEF Orphans, NodesOf, OfSub

-----------------------------------------------------------------------------
(* Follow.                                                                 *)

\* Like is an equivalence.
LEMMA LikeFacts ==
  /\ \A x : Like(x, x)
  /\ \A x, y : Like(x, y) => Like(y, x) /\ x.sub = y.sub
  /\ \A x, y, z : Like(x, y) /\ Like(y, z) => Like(x, z)
  BY DEF Like

\* At a level step that prepares nothing it is enough that the maps agree.
LEMMA LevelStands ==
  ASSUME NEW b, NEW c, NEW t, AllLike(c, t), b.pc \in Level, ~Preparing(b), b.pc = "write" => b.op # "block"
  PROVE  Stands(b, c, t)
  BY DEF Stands, Level

\* A step from one such place to another that touches neither map.
Flat(a, b) == a.pc \in Level /\ b.pc \in Level /\ ~Preparing(b) /\ (b.pc = "write" => b.op # "block")

FlatStep(j) ==
    \/ FetchContent(j) \/ NextSubscription(j) \/ UpdatesDone(j) \/ RecordResult(j) \/ BeginUpdate(j)
    \/ CreateProxySubscription(j) \/ EditReads(j) \/ EditWrites(j) \/ DeleteProxySubscription(j)
    \/ DeleteSubscription(j) \/ PickNode(j) \/ (j = Scheduler /\ (RunOnce \/ PersistAttempt))

\* Such a step leaves the maps level, and one lemma for each of the others follows.
LEMMA FlatStands ==
  ASSUME SubTypes, NEW j \in JobIds, FlatStep(j), Stands(jobs[j], conf, rt)
  PROVE  Stands(jobs'[j], conf', rt')
  <1>1. DOMAIN jobs[j] = JobFields /\ DOMAIN jobs = JobIds
    BY JobIn DEF SubTypes
  <1>2. Flat(jobs[j], jobs'[j]) /\ UNCHANGED <<conf, rt>>
    <2>1. CASE FetchContent(j)
      BY <1>1, <2>1 DEF FetchContent, Flat, Level, Preparing, To, Goto, Fails, End, JobFields
    <2>2. CASE NextSubscription(j)
      BY <1>1, <2>2 DEF NextSubscription, Flat, Level, Preparing, To, Goto, Fails, End, JobFields
    <2>3. CASE UpdatesDone(j)
      BY <1>1, <2>3 DEF UpdatesDone, Flat, Level, Preparing, To, Goto, Fails, End, JobFields
    <2>4. CASE RecordResult(j)
      BY <1>1, <2>4 DEF RecordResult, Flat, Level, Preparing, To, Goto, Fails, End, JobFields
    <2>5. CASE BeginUpdate(j)
      BY <1>1, <2>5 DEF BeginUpdate, Flat, Level, Preparing, To, Goto, Fails, End, JobFields
    <2>6. CASE CreateProxySubscription(j)
      BY <1>1, <2>6 DEF CreateProxySubscription, Flat, Level, Preparing, To, Goto, Fails, End, JobFields
    <2>7. CASE EditReads(j)
      BY <1>1, <2>7 DEF EditReads, Flat, Level, Preparing, To, Goto, Fails, End, JobFields
    <2>8. CASE EditWrites(j)
      BY <1>1, <2>8 DEF EditWrites, Flat, Level, Preparing, To, Goto, Fails, End, JobFields
    <2>9. CASE DeleteProxySubscription(j)
      BY <1>1, <2>9 DEF DeleteProxySubscription, Flat, Level, Preparing, To, Goto, Fails, End, JobFields
    <2>10. CASE DeleteSubscription(j)
      BY <1>1, <2>10 DEF DeleteSubscription, Flat, Level, Preparing, To, Goto, Fails, End, JobFields
    <2>11. CASE PickNode(j)
      BY <1>1, <2>11 DEF PickNode, Flat, Level, Preparing, To, Goto, Fails, End, JobFields
    <2>12. CASE j = Scheduler /\ RunOnce
      BY <1>1, <2>12 DEF RunOnce, Flat, Level, Preparing, To, Goto, Fails, End, JobFields
    <2>13. CASE j = Scheduler /\ PersistAttempt
      BY <1>1, <2>13 DEF PersistAttempt, Flat, Level, Preparing, To, Goto, Fails, End, JobFields
    <2> QED
      BY <2>1, <2>2, <2>3, <2>4, <2>5, <2>6, <2>7, <2>8, <2>9, <2>10, <2>11, <2>12, <2>13 DEF FlatStep
  <1>3. AllLike(conf', rt')
    BY <1>2 DEF Flat, Stands
  <1>4. PICK b : b = jobs'[j]
    OBVIOUS
  <1>5. Stands(b, conf', rt')
    BY <1>2, <1>3, <1>4, LevelStands DEF Flat
  <1> QED
    BY <1>4, <1>5

LEMMA ReadExistingStands ==
  ASSUME SubTypes, NEW j \in JobIds, ReadExisting(j), Stands(jobs[j], conf, rt)
  PROVE  Stands(jobs'[j], conf', rt')
  <1>1. PICK a : a = jobs[j]
    OBVIOUS
  <1>2. PICK b : b = jobs'[j]
    OBVIOUS
  <1>3. DOMAIN a = JobFields /\ DOMAIN jobs = JobIds /\ JobFit(j, a) /\ Stands(a, conf, rt) /\ OutMap(conf) /\ OutMap(rt)
    BY <1>1, JobIn DEF SubTypes, World
  <1>4. UNCHANGED <<conf, rt>> /\ AllLike(conf, rt)
    BY <1>1, <1>3 DEF ReadExisting, Stands, Level
  <1>5. b.pc \in {"used", "replace"} /\ b.sid = a.sid /\ b.existing = AsItems(conf, OfSub(conf, a.sid))
    BY <1>1, <1>2, <1>3 DEF ReadExisting, To, JobFields
  <1>6. ItemNames(AsItems(conf, OfSub(conf, a.sid))) = OfSub(conf, a.sid)
    <2>1. OfSub(conf, a.sid) \in SUBSET OutNames
      BY DEF OfSub
    <2> QED
      BY <1>3, <2>1, ItemsFit
  <1>9. Stands(b, conf', rt')
    BY <1>4, <1>5, <1>6 DEF Stands, Preparing
  <1> QED
    BY <1>2, <1>9

LEMMA ReadUsedStands ==
  ASSUME SubTypes, NEW j \in JobIds, ReadUsed(j), Stands(jobs[j], conf, rt)
  PROVE  Stands(jobs'[j], conf', rt')
  <1>1. PICK a : a = jobs[j]
    OBVIOUS
  <1>2. PICK b : b = jobs'[j]
    OBVIOUS
  <1>3. DOMAIN a = JobFields /\ DOMAIN jobs = JobIds /\ JobFit(j, a) /\ Stands(a, conf, rt) /\ OutMap(conf) /\ OutMap(rt)
    BY <1>1, JobIn DEF SubTypes, World
  <1>4. UNCHANGED <<conf, rt>> /\ AllLike(conf, rt) /\ ItemNames(a.existing) = OfSub(conf, a.sid)
    BY <1>1, <1>3 DEF ReadUsed, Stands, Level, Preparing
  <1>5. b.pc = "replace" /\ b.sid = a.sid /\ b.existing = a.existing
    BY <1>1, <1>2, <1>3 DEF ReadUsed, To, JobFields
  <1>9. Stands(b, conf', rt')
    BY <1>4, <1>5 DEF Stands, Preparing
  <1> QED
    BY <1>2, <1>9

LEMMA SyncDoneStands ==
  ASSUME SubTypes, NEW j \in JobIds, SyncDone(j), Stands(jobs[j], conf, rt)
  PROVE  Stands(jobs'[j], conf', rt')
  <1>1. PICK a : a = jobs[j]
    OBVIOUS
  <1>2. PICK b : b = jobs'[j]
    OBVIOUS
  <1>3. DOMAIN a = JobFields /\ DOMAIN jobs = JobIds /\ JobFit(j, a) /\ Stands(a, conf, rt) /\ OutMap(conf) /\ OutMap(rt)
    BY <1>1, JobIn DEF SubTypes, World
  <1>4. UNCHANGED <<conf, rt>> /\ a.pc = "sync" /\ a.next = <<>> /\ a.todo = {}
    BY <1>1, <1>3 DEF SyncDone
  <1>5. AllLike(conf, rt)
    BY <1>3, <1>4 DEF Stands, Pending, AllLike, LikeBut, NodeNames
  <1>6. b.pc \in {"record", "unlist"}
    BY <1>1, <1>2, <1>3 DEF SyncDone, AfterService, Goto, To, JobFields
  <1>7. b.pc \in Level /\ ~Preparing(b) /\ b.pc # "write" /\ AllLike(conf', rt')
    BY <1>4, <1>5, <1>6 DEF Level, Preparing
  <1>9. Stands(b, conf', rt')
    BY <1>7, LevelStands
  <1> QED
    BY <1>2, <1>9

LEMMA ReloadDoneStands ==
  ASSUME SubTypes, NEW j \in JobIds, ReloadDone(j), Stands(jobs[j], conf, rt)
  PROVE  Stands(jobs'[j], conf', rt')
  <1>1. PICK a : a = jobs[j]
    OBVIOUS
  <1>2. PICK b : b = jobs'[j]
    OBVIOUS
  <1>3. DOMAIN a = JobFields /\ DOMAIN jobs = JobIds /\ JobFit(j, a) /\ Stands(a, conf, rt) /\ OutMap(conf) /\ OutMap(rt)
    BY <1>1, JobIn DEF SubTypes, World
  <1>4. UNCHANGED <<conf, rt>> /\ a.pc = "apply" /\ a.op = "reload" /\ a.next = <<>> /\ a.todo = {}
    BY <1>1, <1>3 DEF ReloadDone
  <1>5. AllLike(conf, rt)
    BY <1>3, <1>4 DEF Stands, Pending, AllLike, LikeBut, NodeNames
  <1>6. b.pc = "done"
    BY <1>1, <1>2, <1>3 DEF ReloadDone, End, To, JobFields
  <1>7. b.pc \in Level /\ ~Preparing(b) /\ b.pc # "write" /\ AllLike(conf', rt')
    BY <1>4, <1>5, <1>6 DEF Level, Preparing
  <1>9. Stands(b, conf', rt')
    BY <1>7, LevelStands
  <1> QED
    BY <1>2, <1>9

LEMMA CascadeReadsStands ==
  ASSUME SubTypes, NEW j \in JobIds, CascadeReads(j), Stands(jobs[j], conf, rt)
  PROVE  Stands(jobs'[j], conf', rt')
  <1>1. PICK a : a = jobs[j]
    OBVIOUS
  <1>2. PICK b : b = jobs'[j]
    OBVIOUS
  <1>3. DOMAIN a = JobFields /\ DOMAIN jobs = JobIds /\ JobFit(j, a) /\ Stands(a, conf, rt) /\ OutMap(conf) /\ OutMap(rt)
    BY <1>1, JobIn DEF SubTypes, World
  <1>4. UNCHANGED <<conf, rt>> /\ a.pc = "cascade" /\ a.op \in {"remove", "reload"}
    BY <1>1, <1>3 DEF CascadeReads, JobFit, RouteOK
  <1>5. /\ b.op = a.op /\ b.next = a.next /\ b.todo = a.todo /\ b.existing = a.existing
        /\ b.pc \in {"repoint", "done", "apply"} /\ (b.pc = "done" => a.op = "remove") /\ (b.pc = "apply" => a.op = "reload")
    BY <1>1, <1>2, <1>3, <1>4 DEF CascadeReads, To, JobFields
  <1>9. Stands(b, conf', rt')
    BY <1>3, <1>4, <1>5 DEF Stands, Pending, Level, Preparing
  <1> QED
    BY <1>2, <1>9

LEMMA CascadeWritesStands ==
  ASSUME SubTypes, NEW j \in JobIds, CascadeWrites(j), Stands(jobs[j], conf, rt)
  PROVE  Stands(jobs'[j], conf', rt')
  <1>1. PICK a : a = jobs[j]
    OBVIOUS
  <1>2. PICK b : b = jobs'[j]
    OBVIOUS
  <1>3. DOMAIN a = JobFields /\ DOMAIN jobs = JobIds /\ JobFit(j, a) /\ Stands(a, conf, rt) /\ OutMap(conf) /\ OutMap(rt)
    BY <1>1, JobIn DEF SubTypes, World
  <1>4. UNCHANGED <<conf, rt>> /\ a.pc = "repoint" /\ a.op \in {"remove", "reload"}
    BY <1>1, <1>3 DEF CascadeWrites, JobFit, RouteOK
  <1>5. /\ b.op = a.op /\ b.next = a.next /\ b.todo = a.todo /\ b.existing = a.existing
        /\ b.pc \in {"done", "apply"} /\ (b.pc = "done" => a.op = "remove") /\ (b.pc = "apply" => a.op = "reload")
    BY <1>1, <1>2, <1>3, <1>4 DEF CascadeWrites, To, JobFields
  <1>9. Stands(b, conf', rt')
    BY <1>3, <1>4, <1>5 DEF Stands, Pending, Level, Preparing
  <1> QED
    BY <1>2, <1>9

LEMMA BlockReadsStands ==
  ASSUME SubTypes, NEW j \in JobIds, BlockReads(j), Stands(jobs[j], conf, rt)
  PROVE  Stands(jobs'[j], conf', rt')
  <1>1. PICK a : a = jobs[j]
    OBVIOUS
  <1>2. PICK b : b = jobs'[j]
    OBVIOUS
  <1>3. DOMAIN a = JobFields /\ DOMAIN jobs = JobIds /\ JobFit(j, a) /\ Stands(a, conf, rt) /\ OutMap(conf) /\ OutMap(rt)
    BY <1>1, JobIn DEF SubTypes, World
  <1>4. UNCHANGED <<conf, rt>> /\ AllLike(conf, rt) /\ a.op = "block" /\ a.name \in OutNames
    BY <1>1, <1>3 DEF BlockReads, Stands, Level, JobFit, JobHolds, OfNode
  <1>5. PICK x : x = [conf[a.name] EXCEPT !.blocked = TRUE]
    OBVIOUS
  <1>6. x.sub = conf[a.name].sub
    BY <1>3, <1>4, <1>5, NodeAbsent DEF Nodes
  <1>7. /\ b.op = a.op /\ b.name = a.name
        /\ b.pc = "done" \/ (b.pc = "write" /\ b.node = x)
    BY <1>1, <1>2, <1>3, <1>5 DEF BlockReads, To, JobFields
  <1>9. Stands(b, conf', rt')
    BY <1>4, <1>6, <1>7 DEF Stands, Preparing
  <1> QED
    BY <1>2, <1>9

LEMMA ReadWantedStands ==
  ASSUME SubTypes, NEW j \in JobIds, ReadWanted(j), Stands(jobs[j], conf, rt)
  PROVE  Stands(jobs'[j], conf', rt')
  <1>1. PICK a : a = jobs[j]
    OBVIOUS
  <1>2. PICK b : b = jobs'[j]
    OBVIOUS
  <1>3. DOMAIN a = JobFields /\ DOMAIN jobs = JobIds /\ JobFit(j, a) /\ Stands(a, conf, rt) /\ OutMap(conf) /\ OutMap(rt)
    BY <1>1, JobIn DEF SubTypes, World
  <1>4. UNCHANGED <<conf, rt>> /\ a.op = "reload"
    BY <1>1, <1>3 DEF ReadWanted, JobFit, RouteOK
  <1>5. PICK l : l = AsList(conf, NamesOf(conf))
    OBVIOUS
  <1>6. NodeNames(l) = NamesOf(conf) /\ \A i \in DOMAIN l : l[i].node = conf[l[i].name]
    <2>1. NamesOf(conf) \in SUBSET OutNames
      BY DEF NamesOf
    <2> QED
      BY <1>3, <1>5, <2>1, ListFit
  <1>7. b.op = a.op /\ b.pc = "have" /\ b.next = l
    BY <1>1, <1>2, <1>3, <1>5 DEF ReadWanted, To, JobFields
  <1>8. \A i \in DOMAIN b.next : Like(conf[b.next[i].name], b.next[i].node)
    BY <1>6, <1>7, LikeFacts
  <1>9. Stands(b, conf', rt')
    BY <1>4, <1>6, <1>7, <1>8 DEF Stands, Preparing, Level
  <1> QED
    BY <1>2, <1>9

LEMMA ReadCurrentStands ==
  ASSUME SubTypes, NEW j \in JobIds, ReadCurrent(j), Stands(jobs[j], conf, rt)
  PROVE  Stands(jobs'[j], conf', rt')
  <1>1. PICK a : a = jobs[j]
    OBVIOUS
  <1>2. PICK b : b = jobs'[j]
    OBVIOUS
  <1>3. DOMAIN a = JobFields /\ DOMAIN jobs = JobIds /\ JobFit(j, a) /\ Stands(a, conf, rt) /\ OutMap(conf) /\ OutMap(rt)
    BY <1>1, JobIn DEF SubTypes, World
  <1>4. UNCHANGED <<conf, rt>> /\ a.op = "reload" /\ a.pc = "have"
    BY <1>1, <1>3 DEF ReadCurrent, JobFit, RouteOK
  <1>5. b.op = a.op /\ b.pc = "apply" /\ b.next = a.next /\ b.existing = AsItems(rt, NamesOf(rt)) /\ b.todo = NamesOf(rt) \ NodeNames(a.next)
    BY <1>1, <1>2, <1>3 DEF ReadCurrent, To, JobFields
  <1>6. ItemNames(b.existing) = NamesOf(rt)
    <2>1. NamesOf(rt) \in SUBSET OutNames
      BY DEF NamesOf
    <2> QED
      BY <1>3, <1>5, <2>1, ItemsFit
  <1>7. NodeNames(a.next) = NamesOf(conf) /\ \A i \in DOMAIN a.next : Like(conf[a.next[i].name], a.next[i].node)
    BY <1>3, <1>4 DEF Stands
  <1>8. Pending(b, conf, rt)
    <2>1. \A n \in OutNames : (n \in NamesOf(rt) <=> rt[n].sub # "absent") /\ (n \in NamesOf(conf) <=> conf[n].sub # "absent")
      BY <1>3, NodeAbsent DEF NamesOf
    <2>2. \A i \in DOMAIN a.next : a.next[i].name \in OutNames
      BY <1>7 DEF NodeNames, NamesOf
    <2>3. NamesOf(rt) \subseteq OutNames
      BY DEF NamesOf
    <2>4. \A n \in OutNames \ (b.todo \cup NodeNames(b.next)) : rt[n] = NoNode /\ conf[n] = NoNode
      BY <1>5, <1>7 DEF NamesOf
    <2>5. LikeBut(b.todo \cup NodeNames(b.next), conf, rt)
      BY <2>4, LikeFacts DEF LikeBut
    <2>6. \A n \in b.todo : conf[n].sub = "absent"
      BY <1>5, <1>7, <2>1, <2>3
    <2>7. \A i \in DOMAIN b.next : rt[b.next[i].name].sub # "absent" <=> b.next[i].name \in ItemNames(b.existing)
      BY <1>5, <1>6, <2>1, <2>2
    <2> QED
      BY <1>5, <1>7, <2>5, <2>6, <2>7 DEF Pending
  <1>9. Stands(b, conf', rt')
    BY <1>4, <1>5, <1>8 DEF Stands, Preparing, Level
  <1> QED
    BY <1>2, <1>9

\* A step that does not go astray by itself: no save fails, no name is clashed with.
Clean(j) == ~(faults' < faults /\ UNCHANGED subs) /\ ~(Clash(j) /\ jobs'[j].pc # "ready")

\* The names on a list.
LEMMA ItemNamed ==
  ASSUME NEW l, l \in Seq(SubItems)
  PROVE  (\A i \in DOMAIN l : l[i].name \in OutNames /\ l[i].node \in Nodes) /\ NodeNames(l) \subseteq OutNames
  <1>1. \A i \in DOMAIN l : l[i] \in SubItems
    OBVIOUS
  <1>2. \A i \in DOMAIN l : l[i].name \in OutNames /\ l[i].node \in Nodes
    BY <1>1 DEF SubItems
  <1> QED
    BY <1>2 DEF NodeNames

\* A save that fails uses up a fault.
LEMMA NotFailed == ASSUME SubTypes, NEW m, SaveFails(m) PROVE faults' < faults
  BY DEF SubTypes, World, SaveFails

\* The configuration is replaced: the list and the names that are gone are what is pending.
LEMMA ReplaceStands ==
  ASSUME SubTypes, NEW j \in JobIds, ReplaceSubscriptionOutbounds(j), Stands(jobs[j], conf, rt), Clean(j)
  PROVE  Stands(jobs'[j], conf', rt')
  <1>1. PICK a : a = jobs[j]
    OBVIOUS
  <1>2. PICK b : b = jobs'[j]
    OBVIOUS
  <1>3. DOMAIN a = JobFields /\ DOMAIN jobs = JobIds /\ JobFit(j, a) /\ Stands(a, conf, rt) /\ OutMap(conf) /\ OutMap(rt)
    BY <1>1, JobIn DEF SubTypes, World
  <1>4. a.pc = "replace" /\ AllLike(conf, rt) /\ ItemNames(a.existing) = OfSub(conf, a.sid) /\ UNCHANGED rt
    BY <1>1, <1>3 DEF ReplaceSubscriptionOutbounds, Stands, Level, Preparing
  <1>5. PICK s : s = a.sid
    OBVIOUS
  <1>6. PICK next : next = a.next
    OBVIOUS
  <1>7. /\ s \in Subs /\ next \in Seq(SubItems) /\ \A i \in DOMAIN next : next[i].node.sub = s
        /\ \A i, k \in DOMAIN next : next[i].name = next[k].name => i = k
    BY <1>3, <1>4, <1>5, <1>6 DEF JobFit, JobRec, JobHolds, Serving
  <1>8. CASE UNCHANGED <<conf, file, faults>> /\ Fails(j, AfterService(j, TRUE))
    <2>1. b.pc \in {"record", "done"} /\ AllLike(conf', rt')
      BY <1>2, <1>3, <1>1, <1>4, <1>8 DEF Fails, AfterService, To, JobFields, AllLike
    <2>2. b.pc \in Level /\ ~Preparing(b) /\ b.pc # "write"
      BY <2>1 DEF Level, Preparing
    <2>3. Stands(b, conf', rt')
      BY <2>1, <2>2, LevelStands
    <2> QED
      BY <1>2, <2>3
  <1>9. CASE ReplaceChecks(s, next) /\ SaveWorks(Replaced(s, next)) /\ To(j, [a EXCEPT !.pc = "sync", !.todo = ItemNames(a.existing) \ NodeNames(next)])
    <2>1. PICK m : m = Replaced(s, next)
      OBVIOUS
    <2>2. /\ \A i \in DOMAIN next : m[next[i].name] = next[i].node
          /\ \A n \in OutNames \ NodeNames(next) : m[n] = IF conf[n].sub = s THEN NoNode ELSE conf[n]
      BY <1>3, <1>7, <2>1, ReplacedIs
    <2>3. conf' = m
      BY <1>9, <2>1 DEF SaveWorks
    <2>4. b.pc = "sync" /\ b.sid = s /\ b.next = next /\ b.existing = a.existing /\ b.todo = OfSub(conf, s) \ NodeNames(next)
      BY <1>2, <1>3, <1>4, <1>5, <1>6, <1>9 DEF To, JobFields
    <2>5. \A i \in DOMAIN next : next[i].name \in OutNames
      BY <1>7, ItemNamed, Zenon
    <2>6. \A n \in OutNames : rt[n].sub = conf[n].sub
      BY <1>4 DEF AllLike, Like
    <2>7. \A n \in NodeNames(next) : conf[n].sub \in {s, "absent"} /\ n \in OutNames
      BY <1>9, <2>5 DEF ReplaceChecks, NodeNames
    <2>8. s # "absent" /\ NoNode.sub = "absent"
      BY <1>7, NotASub, OutNodes
    <2>9. Pending(b, m, rt)
      <3>1. ASSUME NEW i \in DOMAIN next
            PROVE  /\ Like(m[next[i].name], next[i].node)
                   /\ rt[next[i].name].sub # "absent" <=> next[i].name \in ItemNames(b.existing)
        <4>1. Like(m[next[i].name], next[i].node)
          BY <2>2, LikeFacts
        <4>2. next[i].name \in NodeNames(next)
          BY DEF NodeNames
        <4>3. next[i].name \in OfSub(conf, s) <=> rt[next[i].name].sub # "absent"
          BY <2>6, <2>7, <2>8, <4>2 DEF OfSub
        <4> QED
          BY <1>4, <1>5, <2>4, <4>1, <4>3
      <3>2. \A n \in b.todo : m[n].sub = "absent"
        BY <2>2, <2>4, <2>8 DEF OfSub
      <3>3. ASSUME NEW n \in OutNames \ (b.todo \cup NodeNames(next)) PROVE Like(rt[n], m[n])
        <4>1. m[n] = conf[n]
          BY <2>2, <2>4 DEF OfSub
        <4> QED
          BY <1>4, <4>1 DEF AllLike
      <3> QED
        BY <2>4, <3>1, <3>2, <3>3 DEF Pending, LikeBut
    <2>10. \A n \in b.todo \cup NodeNames(b.next) : rt[n].sub \in {b.sid, "absent"}
      BY <2>4, <2>6, <2>7 DEF OfSub
    <2>11. Stands(b, conf', rt')
      BY <1>4, <2>3, <2>4, <2>9, <2>10 DEF Stands, Preparing, Level
    <2> QED
      BY <1>2, <2>11
  <1> QED
    BY <1>1, <1>5, <1>6, <1>8, <1>9, NotFailed DEF ReplaceSubscriptionOutbounds, Clean

\* A node is brought over to the running map, from an update or a reload; nobody else being at work,
\* no update fails here.
LEMMA SyncNodeStands ==
  ASSUME SubTypes, NEW j \in JobIds, SyncNode(j), Stands(jobs[j], conf, rt)
  PROVE  Stands(jobs'[j], conf', rt')
  <1>1. PICK a : a = jobs[j]
    OBVIOUS
  <1>2. PICK b : b = jobs'[j]
    OBVIOUS
  <1>3. DOMAIN a = JobFields /\ DOMAIN jobs = JobIds /\ JobFit(j, a) /\ Stands(a, conf, rt) /\ OutMap(conf) /\ OutMap(rt)
    BY <1>1, JobIn DEF SubTypes, World
  <1>4. a.pc = "sync" /\ a.next # <<>> /\ UNCHANGED conf
    BY <1>1 DEF SyncNode
  <1>10. Pending(a, conf, rt) /\ \A n \in a.todo \cup NodeNames(a.next) : rt[n].sub \in {a.sid, "absent"}
    BY <1>3, <1>4 DEF Stands
  <1>5. PICK l : l = a.next
    OBVIOUS
  <1>6. PICK x : x = Head(l)
    OBVIOUS
  <1>7. PICK d : d = Tail(l)
    OBVIOUS
  <1>8. /\ x \in SubItems /\ x = l[1] /\ 1 \in DOMAIN l
        /\ NodeNames(l) = NodeNames(d) \cup {x.name} /\ x.name \notin NodeNames(d)
        /\ \A i \in DOMAIN d : \E k \in DOMAIN l : d[i] = l[k]
    <2>1. l \in Seq(SubItems) /\ l # <<>> /\ \A i, k \in DOMAIN l : l[i].name = l[k].name => i = k
      BY <1>3, <1>4, <1>5 DEF JobFit, JobRec, JobHolds
    <2>2. x \in SubItems /\ x = l[1] /\ 1 \in DOMAIN l
      BY <1>6, <2>1, TailFit
    <2>3. /\ NodeNames(l) = NodeNames(Tail(l)) \cup {Head(l).name} /\ Head(l).name \notin NodeNames(Tail(l))
          /\ \A i \in DOMAIN Tail(l) : \E k \in DOMAIN l : Tail(l)[i] = l[k]
      BY <2>1, TailNames, Zenon
    <2> QED
      BY <1>6, <1>7, <2>2, <2>3
  <1>9. x.name \in OutNames /\ x.node \in Nodes /\ Like(conf[x.name], x.node)
        /\ (rt[x.name] # NoNode <=> x.name \in ItemNames(a.existing))
    <2>1. x.name \in OutNames /\ x.node \in Nodes
      BY <1>8 DEF SubItems
    <2>2. rt[x.name].sub = "absent" <=> rt[x.name] = NoNode
      BY <1>3, <2>1, NodeAbsent
    <2>3. Like(conf[x.name], x.node) /\ (rt[x.name].sub # "absent" <=> x.name \in ItemNames(a.existing))
      BY <1>5, <1>8, <1>10 DEF Pending
    <2> QED
      BY <2>1, <2>2, <2>3
  <1>11. /\ rt'[x.name] = x.node /\ \A n \in OutNames \ {x.name} : rt'[n] = rt[n]
         /\ b.next = d /\ b.op = a.op /\ b.pc = a.pc /\ b.sid = a.sid /\ b.todo = a.todo /\ b.existing = a.existing
    <2>1. rt' = [rt EXCEPT ![x.name] = x.node] /\ To(j, [jobs[j] EXCEPT !.next = Tail(@)])
      <3>1. (rt[x.name] # NoNode) = (x.name \in ItemNames(a.existing))
        BY <1>9
      <3> QED
        BY <1>1, <1>5, <1>6, <3>1 DEF SyncNode
    <2>2. rt'[x.name] = x.node /\ \A n \in OutNames \ {x.name} : rt'[n] = rt[n]
      BY <1>3, <1>9, <2>1 DEF OutMap, Maps
    <2> QED
      BY <1>1, <1>2, <1>3, <1>5, <1>7, <2>1, <2>2 DEF To, JobFields
  <1>12. Pending(b, conf', rt')
    <2>1. ASSUME NEW i \in DOMAIN d
          PROVE  Like(conf[d[i].name], d[i].node) /\ (rt'[d[i].name].sub # "absent" <=> d[i].name \in ItemNames(b.existing))
      <3>1. PICK k \in DOMAIN l : d[i] = l[k]
        BY <1>8
      <3>2. d[i].name # x.name /\ d[i].name \in OutNames
        <4>1. d[i].name \in NodeNames(d)
          BY DEF NodeNames
        <4>2. l \in Seq(SubItems)
          BY <1>3, <1>5 DEF JobFit, JobRec
        <4>3. l[k].name \in OutNames
          BY <4>2, ItemNamed, Zenon
        <4> QED
          BY <1>8, <3>1, <4>1, <4>3
      <3> QED
        BY <1>5, <1>10, <1>11, <3>1, <3>2 DEF Pending
    <2>2. \A n \in b.todo : conf[n].sub = "absent"
      BY <1>10, <1>11 DEF Pending
    <2>3. ASSUME NEW n \in OutNames \ (b.todo \cup NodeNames(d)) PROVE Like(rt'[n], conf[n])
      <3>1. CASE n = x.name
        BY <1>9, <1>11, <3>1, LikeFacts
      <3>2. CASE n # x.name
        <4>1. n \notin a.todo \cup NodeNames(l)
          BY <1>8, <1>11, <3>2
        <4> QED
          BY <1>5, <1>10, <1>11, <3>2, <4>1 DEF Pending, LikeBut
      <3> QED
        BY <3>1, <3>2
    <2> QED
      BY <1>4, <1>11, <2>1, <2>2, <2>3 DEF Pending, LikeBut
  <1>13. \A n \in b.todo \cup NodeNames(b.next) : rt'[n].sub \in {b.sid, "absent"}
    <2>1. x.node.sub = a.sid
      BY <1>3, <1>4, <1>5, <1>8 DEF JobFit, JobHolds
    <2>2. a.todo \subseteq OutNames /\ NodeNames(l) \subseteq OutNames
      <3>1. a.todo \subseteq OutNames /\ l \in Seq(SubItems)
        BY <1>3, <1>5 DEF JobFit, JobRec
      <3> QED
        BY <3>1, ItemNamed, Zenon
    <2> QED
      BY <1>5, <1>8, <1>10, <1>11, <2>1, <2>2
  <1>14. Stands(b, conf', rt')
    BY <1>4, <1>11, <1>12, <1>13 DEF Stands, Preparing, Level
  <1> QED
    BY <1>2, <1>14

LEMMA ReloadAppliesStands ==
  ASSUME SubTypes, NEW j \in JobIds, ReloadApplies(j), Stands(jobs[j], conf, rt)
  PROVE  Stands(jobs'[j], conf', rt')
  <1>1. PICK a : a = jobs[j]
    OBVIOUS
  <1>2. PICK b : b = jobs'[j]
    OBVIOUS
  <1>3. DOMAIN a = JobFields /\ DOMAIN jobs = JobIds /\ JobFit(j, a) /\ Stands(a, conf, rt) /\ OutMap(conf) /\ OutMap(rt)
    BY <1>1, JobIn DEF SubTypes, World
  <1>4. a.pc = "apply" /\ a.op = "reload" /\ a.next # <<>> /\ UNCHANGED conf
    BY <1>1 DEF ReloadApplies
  <1>10. Pending(a, conf, rt)
    BY <1>3, <1>4 DEF Stands
  <1>5. PICK l : l = a.next
    OBVIOUS
  <1>6. PICK x : x = Head(l)
    OBVIOUS
  <1>7. PICK d : d = Tail(l)
    OBVIOUS
  <1>8. /\ x \in SubItems /\ x = l[1] /\ 1 \in DOMAIN l
        /\ NodeNames(l) = NodeNames(d) \cup {x.name} /\ x.name \notin NodeNames(d)
        /\ \A i \in DOMAIN d : \E k \in DOMAIN l : d[i] = l[k]
    <2>1. l \in Seq(SubItems) /\ l # <<>> /\ \A i, k \in DOMAIN l : l[i].name = l[k].name => i = k
      BY <1>3, <1>4, <1>5 DEF JobFit, JobRec, JobHolds
    <2>2. x \in SubItems /\ x = l[1] /\ 1 \in DOMAIN l
      BY <1>6, <2>1, TailFit
    <2>3. /\ NodeNames(l) = NodeNames(Tail(l)) \cup {Head(l).name} /\ Head(l).name \notin NodeNames(Tail(l))
          /\ \A i \in DOMAIN Tail(l) : \E k \in DOMAIN l : Tail(l)[i] = l[k]
      BY <2>1, TailNames, Zenon
    <2> QED
      BY <1>6, <1>7, <2>2, <2>3
  <1>9. x.name \in OutNames /\ x.node \in Nodes /\ Like(conf[x.name], x.node)
        /\ (rt[x.name] # NoNode <=> x.name \in ItemNames(a.existing))
    <2>1. x.name \in OutNames /\ x.node \in Nodes
      BY <1>8 DEF SubItems
    <2>2. rt[x.name].sub = "absent" <=> rt[x.name] = NoNode
      BY <1>3, <2>1, NodeAbsent
    <2>3. Like(conf[x.name], x.node) /\ (rt[x.name].sub # "absent" <=> x.name \in ItemNames(a.existing))
      BY <1>5, <1>8, <1>10 DEF Pending
    <2> QED
      BY <2>1, <2>2, <2>3
  <1>11. /\ rt'[x.name] = x.node /\ \A n \in OutNames \ {x.name} : rt'[n] = rt[n]
         /\ b.next = d /\ b.op = a.op /\ b.pc = a.pc /\ b.sid = a.sid /\ b.todo = a.todo /\ b.existing = a.existing
    <2>1. To(j, [jobs[j] EXCEPT !.next = Tail(@)])
      BY DEF ReloadApplies
    <2>2. rt'[x.name] = x.node /\ \A n \in OutNames \ {x.name} : rt'[n] = rt[n]
      <3>1. CASE rt[x.name] # NoNode
        <4>1. rt' = Renamed(rt, x.name, x.name, x.node)
          BY <1>1, <1>5, <1>6, <1>9, <3>1 DEF ReloadApplies, RuntimeUpdateOutbound
        <4> QED
          BY <1>3, <1>9, <4>1 DEF OutMap, Maps, Renamed
      <3>2. CASE rt[x.name] = NoNode
        <4>1. rt' = [rt EXCEPT ![x.name] = x.node]
          BY <1>1, <1>5, <1>6, <1>9, <3>2 DEF ReloadApplies, RuntimeAddOutbound
        <4> QED
          BY <1>3, <1>9, <4>1 DEF OutMap, Maps
      <3> QED
        BY <3>1, <3>2
    <2> QED
      BY <1>1, <1>2, <1>3, <1>5, <1>7, <2>1, <2>2 DEF To, JobFields
  <1>12. Pending(b, conf', rt')
    <2>1. ASSUME NEW i \in DOMAIN d
          PROVE  Like(conf[d[i].name], d[i].node) /\ (rt'[d[i].name].sub # "absent" <=> d[i].name \in ItemNames(b.existing))
      <3>1. PICK k \in DOMAIN l : d[i] = l[k]
        BY <1>8
      <3>2. d[i].name # x.name /\ d[i].name \in OutNames
        <4>1. d[i].name \in NodeNames(d)
          BY DEF NodeNames
        <4>2. l \in Seq(SubItems)
          BY <1>3, <1>5 DEF JobFit, JobRec
        <4>3. l[k].name \in OutNames
          BY <4>2, ItemNamed, Zenon
        <4> QED
          BY <1>8, <3>1, <4>1, <4>3
      <3> QED
        BY <1>5, <1>10, <1>11, <3>1, <3>2 DEF Pending
    <2>2. \A n \in b.todo : conf[n].sub = "absent"
      BY <1>10, <1>11 DEF Pending
    <2>3. ASSUME NEW n \in OutNames \ (b.todo \cup NodeNames(d)) PROVE Like(rt'[n], conf[n])
      <3>1. CASE n = x.name
        BY <1>9, <1>11, <3>1, LikeFacts
      <3>2. CASE n # x.name
        <4>1. n \notin a.todo \cup NodeNames(l)
          BY <1>8, <1>11, <3>2
        <4> QED
          BY <1>5, <1>10, <1>11, <3>2, <4>1 DEF Pending, LikeBut
      <3> QED
        BY <3>1, <3>2
    <2> QED
      BY <1>4, <1>11, <2>1, <2>2, <2>3 DEF Pending, LikeBut
  <1>14. Stands(b, conf', rt')
    BY <1>4, <1>11, <1>12 DEF Stands, Preparing, Level
  <1> QED
    BY <1>2, <1>14

\* A name is deleted from the running map.
LEMMA NoCascadeStands ==
  ASSUME SubTypes, NEW j \in JobIds, DeleteOutboundNoCascade(j), Stands(jobs[j], conf, rt)
  PROVE  Stands(jobs'[j], conf', rt')
  <1>1. PICK a : a = jobs[j]
    OBVIOUS
  <1>2. PICK b : b = jobs'[j]
    OBVIOUS
  <1>3. DOMAIN a = JobFields /\ DOMAIN jobs = JobIds /\ JobFit(j, a) /\ Stands(a, conf, rt) /\ OutMap(conf) /\ OutMap(rt)
    BY <1>1, JobIn DEF SubTypes, World
  <1>4. a.pc = "sync" /\ a.next = <<>> /\ UNCHANGED conf
    BY <1>1 DEF DeleteOutboundNoCascade
  <1>5. PICK n \in a.todo : rt' = [rt EXCEPT ![n] = NoNode] /\ To(j, [a EXCEPT !.todo = a.todo \ {n}])
    BY <1>1 DEF DeleteOutboundNoCascade
  <1>6. Pending(a, conf, rt) /\ \A k \in a.todo \cup NodeNames(a.next) : rt[k].sub \in {a.sid, "absent"}
    BY <1>3, <1>4 DEF Stands
  <1>7. n \in OutNames /\ rt' = [rt EXCEPT ![n] = NoNode] /\ a.todo \subseteq OutNames
    BY <1>3, <1>5 DEF JobFit, JobRec
  <1>9. b.next = a.next /\ b.op = a.op /\ b.pc = a.pc /\ b.sid = a.sid /\ b.todo = a.todo \ {n} /\ b.existing = a.existing
    BY <1>2, <1>3, <1>5 DEF To, JobFields
  <1>8. rt'[n] = NoNode /\ conf[n] = NoNode /\ \A k \in OutNames \ {n} : rt'[k] = rt[k]
    <2>1. conf[n].sub = "absent"
      BY <1>5, <1>6 DEF Pending
    <2>2. conf[n] = NoNode
      BY <1>3, <1>7, <2>1, NodeAbsent
    <2> QED
      BY <1>3, <1>7, <2>2 DEF OutMap, Maps
  <1>10. Pending(b, conf', rt')
    <2>1. \A i \in DOMAIN a.next : a.next[i].name # n /\ a.next[i].name \in OutNames
      BY <1>4
    <2>2. ASSUME NEW k \in OutNames \ (b.todo \cup NodeNames(b.next)) PROVE Like(rt'[k], conf[k])
      <3>1. CASE k = n
        BY <1>8, <3>1, LikeFacts
      <3>2. CASE k # n
        BY <1>6, <1>8, <1>9, <3>2 DEF Pending, LikeBut
      <3> QED
        BY <3>1, <3>2
    <2> QED
      BY <1>4, <1>6, <1>8, <1>9, <2>1, <2>2 DEF Pending, LikeBut
  <1>11. \A k \in b.todo \cup NodeNames(b.next) : rt'[k].sub \in {b.sid, "absent"}
    BY <1>4, <1>6, <1>7, <1>8, <1>9 DEF NodeNames
  <1>12. Stands(b, conf', rt')
    BY <1>4, <1>9, <1>10, <1>11 DEF Stands, Preparing, Level
  <1> QED
    BY <1>2, <1>12

LEMMA ReloadDeletesStands ==
  ASSUME SubTypes, NEW j \in JobIds, ReloadDeletes(j), Stands(jobs[j], conf, rt)
  PROVE  Stands(jobs'[j], conf', rt')
  <1>1. PICK a : a = jobs[j]
    OBVIOUS
  <1>2. PICK b : b = jobs'[j]
    OBVIOUS
  <1>3. DOMAIN a = JobFields /\ DOMAIN jobs = JobIds /\ JobFit(j, a) /\ Stands(a, conf, rt) /\ OutMap(conf) /\ OutMap(rt)
    BY <1>1, JobIn DEF SubTypes, World
  <1>4. a.pc = "apply" /\ a.op = "reload" /\ UNCHANGED conf
    BY <1>1 DEF ReloadDeletes
  <1>5. PICK n \in a.todo : RuntimeDeleteOutbound(j, n, "apply")
    BY <1>1 DEF ReloadDeletes
  <1>6. Pending(a, conf, rt)
    BY <1>3, <1>4 DEF Stands
  <1>7. n \in OutNames /\ rt' = [rt EXCEPT ![n] = NoNode] /\ a.todo \subseteq OutNames
    BY <1>3, <1>5 DEF JobFit, JobRec, RuntimeDeleteOutbound
  <1>9. b.next = a.next /\ b.op = a.op /\ b.pc \in {"apply", "cascade"} /\ b.todo = a.todo \ {n} /\ b.existing = a.existing
    BY <1>1, <1>2, <1>3, <1>5 DEF RuntimeDeleteOutbound, To, JobFields
  <1>8. rt'[n] = NoNode /\ conf[n] = NoNode /\ \A k \in OutNames \ {n} : rt'[k] = rt[k]
    <2>1. conf[n].sub = "absent"
      BY <1>5, <1>6 DEF Pending
    <2>2. conf[n] = NoNode
      BY <1>3, <1>7, <2>1, NodeAbsent
    <2> QED
      BY <1>3, <1>7, <2>2 DEF OutMap, Maps
  <1>10. Pending(b, conf', rt')
    <2>1. \A i \in DOMAIN a.next : a.next[i].name # n /\ a.next[i].name \in OutNames
      <3>1. a.next \in Seq(SubItems)
        BY <1>3 DEF JobFit, JobRec
      <3>2. \A i \in DOMAIN a.next : a.next[i].name \in OutNames
        BY <3>1, ItemNamed, Zenon
      <3>3. \A i \in DOMAIN a.next : a.next[i].node.sub # "absent" /\ conf[a.next[i].name].sub = a.next[i].node.sub
        BY <1>3, <1>4, <1>6 DEF JobFit, JobHolds, Pending, Like
      <3>4. conf[n].sub = "absent"
        BY <1>5, <1>6 DEF Pending
      <3> QED
        BY <3>2, <3>3, <3>4
    <2>2. ASSUME NEW k \in OutNames \ (b.todo \cup NodeNames(b.next)) PROVE Like(rt'[k], conf[k])
      <3>1. CASE k = n
        BY <1>8, <3>1, LikeFacts
      <3>2. CASE k # n
        BY <1>6, <1>8, <1>9, <3>2 DEF Pending, LikeBut
      <3> QED
        BY <3>1, <3>2
    <2> QED
      BY <1>4, <1>6, <1>8, <1>9, <2>1, <2>2 DEF Pending, LikeBut
  <1>12. Stands(b, conf', rt')
    BY <1>4, <1>9, <1>10 DEF Stands, Preparing, Level
  <1> QED
    BY <1>2, <1>12

\* The handlers change the configuration: the one name is what the maps differ on.
LEMMA AddStands ==
  ASSUME SubTypes, NEW j \in JobIds, CreateProxyOutbound(j), Stands(jobs[j], conf, rt), Clean(j)
  PROVE  Stands(jobs'[j], conf', rt')
  <1>1. PICK a : a = jobs[j]
    OBVIOUS
  <1>2. PICK b : b = jobs'[j]
    OBVIOUS
  <1>3. DOMAIN a = JobFields /\ DOMAIN jobs = JobIds /\ JobFit(j, a) /\ Stands(a, conf, rt) /\ OutMap(conf) /\ OutMap(rt)
    BY <1>1, JobIn DEF SubTypes, World
  <1>4. a.pc = "ready" /\ a.op = "add" /\ a.name \in OutNames
    BY <1>1, <1>3 DEF CreateProxyOutbound, JobFit, JobHolds, OfNode
  <1>5. AllLike(conf, rt) /\ UNCHANGED rt
    BY <1>1, <1>3, <1>4 DEF CreateProxyOutbound, Stands, Level
  <1>6. CASE conf[a.name] # NoNode
    <2>1. b.pc = "done" /\ AllLike(conf', rt')
      BY <1>1, <1>2, <1>3, <1>5, <1>6 DEF CreateProxyOutbound, Goto, To, JobFields, AllLike
    <2>2. b.pc \in Level /\ ~Preparing(b) /\ b.pc # "write"
      BY <2>1 DEF Level, Preparing
    <2>3. Stands(b, conf', rt')
      BY <2>1, <2>2, LevelStands
    <2> QED
      BY <1>2, <2>3
  <1>7. CASE ~(conf[a.name] # NoNode)
    <2>1. conf' = [conf EXCEPT ![a.name] = Manual("typed")] /\ b.pc = "apply" /\ b.op = a.op /\ b.name = a.name /\ b.as = a.as /\ b.node = a.node
      <3>1. SaveWorks([conf EXCEPT ![a.name] = Manual("typed")]) /\ Goto(j, "apply")
        BY <1>1, <1>7, NotFailed DEF CreateProxyOutbound, Clean
      <3> QED
        BY <1>1, <1>2, <1>3, <3>1 DEF SaveWorks, Goto, To, JobFields
    <2>2. \A n \in OutNames : rt[n].sub = conf[n].sub
      BY <1>5 DEF AllLike, Like
    <2>3. conf[a.name].sub = "absent" <=> conf[a.name] = NoNode
      BY <1>3, <1>4, NodeAbsent
    <2>4. conf'[a.name] = Manual("typed") /\ \A n \in OutNames \ {a.name} : conf'[n] = conf[n]
      BY <1>3, <1>4, <2>1 DEF OutMap, Maps
    <2>5. Like(conf'[b.name], Manual("typed")) /\ rt'[b.name].sub = "absent" /\ LikeBut({b.name}, conf', rt')
      BY <1>4, <1>5, <1>7, <2>1, <2>2, <2>3, <2>4, LikeFacts DEF LikeBut, AllLike
    <2>9. Stands(b, conf', rt')
      BY <1>4, <2>1, <2>5 DEF Stands, Preparing, Level
    <2> QED
      BY <1>2, <2>9
  <1> QED
    BY <1>6, <1>7

LEMMA RemoveStands ==
  ASSUME SubTypes, NEW j \in JobIds, DeleteProxyOutbound(j), Stands(jobs[j], conf, rt), Clean(j)
  PROVE  Stands(jobs'[j], conf', rt')
  <1>1. PICK a : a = jobs[j]
    OBVIOUS
  <1>2. PICK b : b = jobs'[j]
    OBVIOUS
  <1>3. DOMAIN a = JobFields /\ DOMAIN jobs = JobIds /\ JobFit(j, a) /\ Stands(a, conf, rt) /\ OutMap(conf) /\ OutMap(rt)
    BY <1>1, JobIn DEF SubTypes, World
  <1>4. a.pc = "ready" /\ a.op = "remove" /\ a.name \in OutNames
    BY <1>1, <1>3 DEF DeleteProxyOutbound, JobFit, JobHolds, OfNode
  <1>5. AllLike(conf, rt) /\ UNCHANGED rt
    BY <1>1, <1>3, <1>4 DEF DeleteProxyOutbound, Stands, Level
  <1>6. CASE conf[a.name] = NoNode
    <2>1. b.pc = "done" /\ AllLike(conf', rt')
      BY <1>1, <1>2, <1>3, <1>5, <1>6 DEF DeleteProxyOutbound, Goto, To, JobFields, AllLike
    <2>2. b.pc \in Level /\ ~Preparing(b) /\ b.pc # "write"
      BY <2>1 DEF Level, Preparing
    <2>3. Stands(b, conf', rt')
      BY <2>1, <2>2, LevelStands
    <2> QED
      BY <1>2, <2>3
  <1>7. CASE ~(conf[a.name] = NoNode)
    <2>1. conf' = [conf EXCEPT ![a.name] = NoNode] /\ b.pc = "apply" /\ b.op = a.op /\ b.name = a.name /\ b.as = a.as /\ b.node = a.node
      <3>1. SaveWorks([conf EXCEPT ![a.name] = NoNode]) /\ Goto(j, "apply")
        BY <1>1, <1>7, NotFailed DEF DeleteProxyOutbound, Clean
      <3> QED
        BY <1>1, <1>2, <1>3, <3>1 DEF SaveWorks, Goto, To, JobFields
    <2>2. \A n \in OutNames : rt[n].sub = conf[n].sub
      BY <1>5 DEF AllLike, Like
    <2>3. conf[a.name].sub = "absent" <=> conf[a.name] = NoNode
      BY <1>3, <1>4, NodeAbsent
    <2>4. conf'[a.name] = NoNode /\ NoNode.sub = "absent" /\ \A n \in OutNames \ {a.name} : conf'[n] = conf[n]
      BY <1>3, <1>4, <2>1, OutNodes DEF OutMap, Maps
    <2>5. conf'[b.name].sub = "absent" /\ LikeBut({b.name}, conf', rt')
      BY <1>4, <1>5, <2>1, <2>4 DEF LikeBut, AllLike
    <2>9. Stands(b, conf', rt')
      BY <1>4, <2>1, <2>5 DEF Stands, Preparing, Level
    <2> QED
      BY <1>2, <2>9
  <1> QED
    BY <1>6, <1>7

LEMMA ChangeStands ==
  ASSUME SubTypes, NEW j \in JobIds, UpdateProxyOutbound(j), Stands(jobs[j], conf, rt), Clean(j)
  PROVE  Stands(jobs'[j], conf', rt')
  <1>1. PICK a : a = jobs[j]
    OBVIOUS
  <1>2. PICK b : b = jobs'[j]
    OBVIOUS
  <1>3. DOMAIN a = JobFields /\ DOMAIN jobs = JobIds /\ JobFit(j, a) /\ Stands(a, conf, rt) /\ OutMap(conf) /\ OutMap(rt)
    BY <1>1, JobIn DEF SubTypes, World
  <1>4. a.pc = "ready" /\ a.op = "change" /\ a.name \in OutNames
    BY <1>1, <1>3 DEF UpdateProxyOutbound, JobFit, JobHolds, OfNode
  <1>5. AllLike(conf, rt) /\ UNCHANGED rt
    BY <1>1, <1>3, <1>4 DEF UpdateProxyOutbound, Stands, Level
  <1>6. CASE conf[a.name] = NoNode
    <2>1. b.pc = "done" /\ AllLike(conf', rt')
      BY <1>1, <1>2, <1>3, <1>5, <1>6 DEF UpdateProxyOutbound, Goto, To, JobFields, AllLike
    <2>2. b.pc \in Level /\ ~Preparing(b) /\ b.pc # "write"
      BY <2>1 DEF Level, Preparing
    <2>3. Stands(b, conf', rt')
      BY <2>1, <2>2, LevelStands
    <2> QED
      BY <1>2, <2>3
  <1>7. CASE ~(conf[a.name] = NoNode)
    <2>1. conf' = Renamed(conf, a.name, a.as, Manual("typed")) /\ b.pc = "apply" /\ b.op = a.op /\ b.name = a.name /\ b.as = a.as /\ b.node = a.node
      <3>1. SaveWorks(Renamed(conf, a.name, a.as, Manual("typed"))) /\ Goto(j, "apply")
        BY <1>1, <1>7, NotFailed DEF UpdateProxyOutbound, Clean
      <3> QED
        BY <1>1, <1>2, <1>3, <3>1 DEF SaveWorks, Goto, To, JobFields
    <2>2. \A n \in OutNames : rt[n].sub = conf[n].sub
      BY <1>5 DEF AllLike, Like
    <2>3. conf[a.name].sub = "absent" <=> conf[a.name] = NoNode
      BY <1>3, <1>4, NodeAbsent
    <2>4. a.as \in OutNames
      BY <1>3, <1>4 DEF JobFit, JobHolds
    <2>5. /\ conf'[a.as] = Manual("typed") /\ (a.as # a.name => conf'[a.name] = NoNode) /\ NoNode.sub = "absent"
          /\ \A n \in OutNames \ {a.name, a.as} : conf'[n] = conf[n]
      BY <1>3, <1>4, <2>1, <2>4, OutNodes DEF OutMap, Maps, Renamed
    <2>6. a.as # a.name => conf[a.as] = NoNode
      BY <1>1, <1>2, <1>4, <2>1 DEF Clean, Clash
    <2>7. Renaming(b, conf', rt')
      BY <1>4, <1>5, <1>7, <2>1, <2>2, <2>3, <2>4, <2>5, <2>6, LikeFacts DEF Renaming, LikeBut, AllLike
    <2>9. Stands(b, conf', rt')
      BY <1>4, <2>1, <2>7 DEF Stands, Preparing, Level
    <2> QED
      BY <1>2, <2>9
  <1> QED
    BY <1>6, <1>7

LEMMA BlockStands ==
  ASSUME SubTypes, NEW j \in JobIds, BlockWrites(j), Stands(jobs[j], conf, rt), Clean(j)
  PROVE  Stands(jobs'[j], conf', rt')
  <1>1. PICK a : a = jobs[j]
    OBVIOUS
  <1>2. PICK b : b = jobs'[j]
    OBVIOUS
  <1>3. DOMAIN a = JobFields /\ DOMAIN jobs = JobIds /\ JobFit(j, a) /\ Stands(a, conf, rt) /\ OutMap(conf) /\ OutMap(rt)
    BY <1>1, JobIn DEF SubTypes, World
  <1>4. a.pc = "write" /\ a.op = "block" /\ a.name \in OutNames
    BY <1>1, <1>3 DEF BlockWrites, JobFit, JobHolds, OfNode
  <1>5. AllLike(conf, rt) /\ UNCHANGED rt
    BY <1>1, <1>3, <1>4 DEF BlockWrites, Stands, Level
  <1>6. CASE conf[a.name] = NoNode
    <2>1. b.pc = "done" /\ AllLike(conf', rt')
      BY <1>1, <1>2, <1>3, <1>5, <1>6 DEF BlockWrites, Goto, To, JobFields, AllLike
    <2>2. b.pc \in Level /\ ~Preparing(b) /\ b.pc # "write"
      BY <2>1 DEF Level, Preparing
    <2>3. Stands(b, conf', rt')
      BY <2>1, <2>2, LevelStands
    <2> QED
      BY <1>2, <2>3
  <1>7. CASE ~(conf[a.name] = NoNode)
    <2>1. conf' = [conf EXCEPT ![a.name] = a.node] /\ b.pc = "apply" /\ b.op = a.op /\ b.name = a.name /\ b.as = a.as /\ b.node = a.node
      <3>1. SaveWorks([conf EXCEPT ![a.name] = a.node]) /\ Goto(j, "apply")
        BY <1>1, <1>7, NotFailed DEF BlockWrites, Clean
      <3> QED
        BY <1>1, <1>2, <1>3, <3>1 DEF SaveWorks, Goto, To, JobFields
    <2>2. \A n \in OutNames : rt[n].sub = conf[n].sub
      BY <1>5 DEF AllLike, Like
    <2>3. conf[a.name].sub = "absent" <=> conf[a.name] = NoNode
      BY <1>3, <1>4, NodeAbsent
    <2>4. conf'[a.name] = a.node /\ \A n \in OutNames \ {a.name} : conf'[n] = conf[n]
      BY <1>3, <1>4, <2>1 DEF OutMap, Maps
    <2>5. a.node.sub = conf[a.name].sub
      BY <1>3, <1>4 DEF Stands
    <2>6. Like(conf'[b.name], b.node) /\ rt'[b.name].sub = b.node.sub /\ LikeBut({b.name}, conf', rt')
      BY <1>4, <1>5, <2>1, <2>2, <2>4, <2>5, LikeFacts DEF LikeBut, AllLike
    <2>9. Stands(b, conf', rt')
      BY <1>4, <2>1, <2>6 DEF Stands, Preparing, Level
    <2> QED
      BY <1>2, <2>9
  <1> QED
    BY <1>6, <1>7

\* And then the running map: they agree again.
LEMMA ApplyAddStands ==
  ASSUME SubTypes, NEW j \in JobIds, ApplyAdd(j), Stands(jobs[j], conf, rt)
  PROVE  Stands(jobs'[j], conf', rt')
  <1>1. PICK a : a = jobs[j]
    OBVIOUS
  <1>2. PICK b : b = jobs'[j]
    OBVIOUS
  <1>3. DOMAIN a = JobFields /\ DOMAIN jobs = JobIds /\ JobFit(j, a) /\ Stands(a, conf, rt) /\ OutMap(conf) /\ OutMap(rt)
    BY <1>1, JobIn DEF SubTypes, World
  <1>4. a.pc = "apply" /\ a.op = "add" /\ a.name \in OutNames
    BY <1>1, <1>3 DEF ApplyAdd, JobFit, JobHolds, OfNode
  <1>5. UNCHANGED conf /\ b.op = a.op /\ b.pc = "done"
    BY <1>1, <1>2, <1>3, <1>4 DEF ApplyAdd, Goto, To, JobFields
  <1>6. Like(conf[a.name], Manual("typed")) /\ rt[a.name] = NoNode /\ LikeBut({a.name}, conf, rt)
    BY <1>3, <1>4, NodeAbsent DEF Stands
  <1>7. rt'[a.name] = Manual("typed") /\ \A n \in OutNames \ {a.name} : rt'[n] = rt[n]
    BY <1>1, <1>3, <1>4, <1>6 DEF ApplyAdd, RuntimeAddOutbound, OutMap, Maps
  <1>8. AllLike(conf', rt')
    BY <1>5, <1>6, <1>7, LikeFacts DEF AllLike, LikeBut
  <1>9. Stands(b, conf', rt')
    BY <1>4, <1>5, <1>8 DEF Stands, Preparing, Level
  <1> QED
    BY <1>2, <1>9

LEMMA ApplyRemoveStands ==
  ASSUME SubTypes, NEW j \in JobIds, ApplyRemove(j), Stands(jobs[j], conf, rt)
  PROVE  Stands(jobs'[j], conf', rt')
  <1>1. PICK a : a = jobs[j]
    OBVIOUS
  <1>2. PICK b : b = jobs'[j]
    OBVIOUS
  <1>3. DOMAIN a = JobFields /\ DOMAIN jobs = JobIds /\ JobFit(j, a) /\ Stands(a, conf, rt) /\ OutMap(conf) /\ OutMap(rt)
    BY <1>1, JobIn DEF SubTypes, World
  <1>4. a.pc = "apply" /\ a.op = "remove" /\ a.name \in OutNames
    BY <1>1, <1>3 DEF ApplyRemove, JobFit, JobHolds, OfNode
  <1>5. UNCHANGED conf /\ b.op = a.op /\ b.pc \in {"done", "cascade"}
    BY <1>1, <1>2, <1>3, <1>4 DEF ApplyRemove, Goto, To, JobFields, RuntimeDeleteOutbound
  <1>6. conf[a.name] = NoNode /\ LikeBut({a.name}, conf, rt)
    BY <1>3, <1>4, NodeAbsent DEF Stands
  <1>7. rt'[a.name] = NoNode /\ \A n \in OutNames \ {a.name} : rt'[n] = rt[n]
    BY <1>1, <1>3, <1>4 DEF ApplyRemove, RuntimeDeleteOutbound, OutMap, Maps
  <1>8. AllLike(conf', rt')
    BY <1>5, <1>6, <1>7, LikeFacts DEF AllLike, LikeBut
  <1>9. Stands(b, conf', rt')
    BY <1>4, <1>5, <1>8 DEF Stands, Preparing, Level
  <1> QED
    BY <1>2, <1>9

LEMMA ApplyRenameStands ==
  ASSUME SubTypes, NEW j \in JobIds, ApplyChange(j), Stands(jobs[j], conf, rt), jobs[j].op = "change"
  PROVE  Stands(jobs'[j], conf', rt')
  <1>1. PICK a : a = jobs[j]
    OBVIOUS
  <1>2. PICK b : b = jobs'[j]
    OBVIOUS
  <1>3. DOMAIN a = JobFields /\ DOMAIN jobs = JobIds /\ JobFit(j, a) /\ Stands(a, conf, rt) /\ OutMap(conf) /\ OutMap(rt)
    BY <1>1, JobIn DEF SubTypes, World
  <1>4. a.pc = "apply" /\ a.op = "change" /\ a.name \in OutNames
    BY <1>1, <1>3 DEF ApplyChange, JobFit, JobHolds, OfNode
  <1>5. UNCHANGED conf /\ b.op = a.op /\ b.pc = "done"
    BY <1>1, <1>2, <1>3, <1>4 DEF ApplyChange, Goto, To, JobFields
  <1>6. Renaming(a, conf, rt) /\ a.as \in OutNames /\ NoNode.sub = "absent"
    BY <1>3, <1>4, OutNodes DEF Stands, JobFit, JobHolds
  <1>7. /\ rt'[a.as] = Manual("typed") /\ (a.as # a.name => rt'[a.name] = NoNode)
        /\ \A n \in OutNames \ {a.name, a.as} : rt'[n] = rt[n]
    <2>1. rt[a.name] # NoNode /\ (a.as # a.name => rt[a.as] = NoNode)
      BY <1>3, <1>4, <1>6, NodeAbsent DEF Renaming
    <2>2. rt' = Renamed(rt, a.name, a.as, Manual("typed"))
      BY <1>1, <1>4, <2>1 DEF ApplyChange, RuntimeUpdateOutbound
    <2> QED
      BY <1>3, <1>4, <1>6, <2>2 DEF Renamed, OutMap, Maps
  <1>8. AllLike(conf', rt')
    <2>1. a.as # a.name => conf[a.name] = NoNode
      BY <1>3, <1>4, <1>6, NodeAbsent DEF Renaming
    <2> QED
      BY <1>5, <1>6, <1>7, <2>1, LikeFacts DEF AllLike, LikeBut, Renaming
  <1>9. Stands(b, conf', rt')
    BY <1>4, <1>5, <1>8 DEF Stands, Preparing, Level
  <1> QED
    BY <1>2, <1>9

LEMMA ApplyBlockStands ==
  ASSUME SubTypes, NEW j \in JobIds, ApplyChange(j), Stands(jobs[j], conf, rt), jobs[j].op = "block"
  PROVE  Stands(jobs'[j], conf', rt')
  <1>1. PICK a : a = jobs[j]
    OBVIOUS
  <1>2. PICK b : b = jobs'[j]
    OBVIOUS
  <1>3. DOMAIN a = JobFields /\ DOMAIN jobs = JobIds /\ JobFit(j, a) /\ Stands(a, conf, rt) /\ OutMap(conf) /\ OutMap(rt)
    BY <1>1, JobIn DEF SubTypes, World
  <1>4. a.pc = "apply" /\ a.op = "block" /\ a.name \in OutNames
    BY <1>1, <1>3 DEF ApplyChange, JobFit, JobHolds, OfNode
  <1>5. UNCHANGED conf /\ b.op = a.op /\ b.pc = "done"
    BY <1>1, <1>2, <1>3, <1>4 DEF ApplyChange, Goto, To, JobFields
  <1>6. Like(conf[a.name], a.node) /\ rt[a.name].sub = a.node.sub /\ LikeBut({a.name}, conf, rt) /\ a.node.sub # "absent"
    BY <1>3, <1>4 DEF Stands, JobFit, JobHolds
  <1>7. rt'[a.name] = a.node /\ \A n \in OutNames \ {a.name} : rt'[n] = rt[n]
    <2>1. rt[a.name] # NoNode
      BY <1>3, <1>4, <1>6, NodeAbsent
    <2>2. rt' = Renamed(rt, a.name, a.name, a.node)
      BY <1>1, <1>4, <2>1 DEF ApplyChange, RuntimeUpdateOutbound
    <2> QED
      BY <1>3, <1>4, <2>2 DEF Renamed, OutMap, Maps
  <1>8. AllLike(conf', rt')
    BY <1>5, <1>6, <1>7, LikeFacts DEF AllLike, LikeBut
  <1>9. Stands(b, conf', rt')
    BY <1>4, <1>5, <1>8 DEF Stands, Preparing, Level
  <1> QED
    BY <1>2, <1>9

\* A test result leaves the outbounds like.
LEMMA TestedLike ==
  ASSUME SubTypes, NEW j \in JobIds, UpdateOutboundRuntime(j)
  PROVE  /\ \A n \in OutNames : Like(conf'[n], conf[n])
         /\ jobs'[j].pc = "done" /\ jobs[j].pc = "ready" /\ UNCHANGED <<rt, faults>>
  <1>1. PICK a : a = jobs[j]
    OBVIOUS
  <1>2. DOMAIN a = JobFields /\ DOMAIN jobs = JobIds /\ OutMap(conf) /\ a.name \in OutNames
    BY <1>1, JobIn DEF SubTypes, World, UpdateOutboundRuntime, JobFit, JobHolds, OfNode
  <1>3. PICK x : x = [conf[a.name] EXCEPT !.tested = TRUE]
    OBVIOUS
  <1>4. Like(x, conf[a.name])
    BY <1>2, <1>3, NodeAbsent DEF Nodes, Like
  <1>5. conf' = conf \/ conf' = [conf EXCEPT ![a.name] = x]
    BY <1>1, <1>3 DEF UpdateOutboundRuntime
  <1>6. \A n \in OutNames : Like(conf'[n], conf[n])
    BY <1>2, <1>4, <1>5, LikeFacts DEF OutMap, Maps
  <1> QED
    BY <1>1, <1>2, <1>6 DEF UpdateOutboundRuntime, Goto, To, JobFields

\* What stands does so also when the configuration gets test results.
LEMMA StandsStill ==
  ASSUME NEW r, NEW c, NEW d, NEW t, OutMap(c), OutMap(d), Stands(r, c, t), \A n \in OutNames : Like(d[n], c[n]),
         r.next \in Seq(SubItems), r.todo \subseteq OutNames, r.pc \in {"write", "apply"} /\ r.op \in OfNode => r.name \in OutNames,
         r.op = "change" => r.as \in OutNames
  PROVE  Stands(r, d, t)
  <1>1. \A n \in OutNames : d[n].sub = c[n].sub /\ (d[n] = NoNode <=> c[n] = NoNode)
    BY NodeAbsent DEF Like
  <1>2. AllLike(c, t) => AllLike(d, t)
    BY LikeFacts DEF AllLike
  <1>3. \A N : LikeBut(N, c, t) => LikeBut(N, d, t)
    BY LikeFacts DEF LikeBut
  <1>4. OfSub(d, r.sid) = OfSub(c, r.sid) /\ NamesOf(d) = NamesOf(c)
    BY <1>1 DEF OfSub, NamesOf
  <1>5. \A i \in DOMAIN r.next : r.next[i].name \in OutNames
    BY ItemNamed, Zenon
  <1>6. \A i \in DOMAIN r.next : Like(c[r.next[i].name], r.next[i].node) => Like(d[r.next[i].name], r.next[i].node)
    BY <1>5, LikeFacts
  <1>7. Pending(r, c, t) => Pending(r, d, t)
    BY <1>1, <1>3, <1>6 DEF Pending
  <1>8. r.op = "change" /\ r.pc = "apply" /\ Renaming(r, c, t) => Renaming(r, d, t)
    BY <1>1, <1>3, LikeFacts DEF Renaming, OfNode
  <1>9. r.pc = "write" /\ r.op = "block" => d[r.name].sub = c[r.name].sub
    BY <1>1 DEF OfNode
  <1>10. r.pc = "apply" /\ r.op \in {"add", "remove", "block"} =>
            d[r.name].sub = c[r.name].sub /\ \A x : Like(c[r.name], x) => Like(d[r.name], x)
    BY <1>1, LikeFacts DEF OfNode
  <1> QED
    BY <1>2, <1>3, <1>4, <1>6, <1>7, <1>8, <1>9, <1>10 DEF Stands

\* The steps that may change the running map, the servers and the names that went without a cascade.
LEMMA RtFrame ==
  ASSUME NEW j \in JobIds, SubStep(j), ~(SyncNode(j) \/ DeleteOutboundNoCascade(j) \/ ApplyAdd(j) \/ ApplyChange(j) \/ ApplyRemove(j) \/ ReloadDeletes(j) \/ ReloadApplies(j))
  PROVE  UNCHANGED rt
  <1>1. CASE ServiceStep(j)
    BY <1>1 DEF ServiceStep, FetchContent, ReadExisting, ReadUsed, ReplaceSubscriptionOutbounds,
       SyncNode, DeleteOutboundNoCascade, SyncDone, NextSubscription, UpdatesDone, RecordResult
  <1>2. CASE RequestStep(j)
    BY <1>2 DEF RequestStep, UpdateProxySubscription, ReloadProxyOutbounds, BeginUpdate,
       CreateProxySubscription, EditReads, EditWrites, DeleteProxySubscription, DeleteSubscription,
       CreateProxyOutbound, UpdateProxyOutbound, DeleteProxyOutbound, BlockReads, BlockWrites,
       ApplyAdd, ApplyChange, ApplyRemove, CascadeReads, CascadeWrites, PickNode,
       UpdateOutboundRuntime, LoadFile, ReadWanted, ReadCurrent, ReloadDeletes, ReloadApplies,
       ReloadDone
  <1>3. CASE j = Scheduler /\ (RunOnce \/ PersistAttempt)
    BY <1>3 DEF RunOnce, PersistAttempt
  <1> QED
    BY <1>1, <1>2, <1>3, Zenon DEF SubStep

LEMMA ServerFrame ==
  ASSUME NEW j \in JobIds, SubStep(j), ~(CascadeWrites(j) \/ PickNode(j))
  PROVE  UNCHANGED server
  <1>1. CASE ServiceStep(j)
    BY <1>1 DEF ServiceStep, FetchContent, ReadExisting, ReadUsed, ReplaceSubscriptionOutbounds,
       SyncNode, DeleteOutboundNoCascade, SyncDone, NextSubscription, UpdatesDone, RecordResult
  <1>2. CASE RequestStep(j)
    BY <1>2 DEF RequestStep, UpdateProxySubscription, ReloadProxyOutbounds, BeginUpdate,
       CreateProxySubscription, EditReads, EditWrites, DeleteProxySubscription, DeleteSubscription,
       CreateProxyOutbound, UpdateProxyOutbound, DeleteProxyOutbound, BlockReads, BlockWrites,
       ApplyAdd, ApplyChange, ApplyRemove, CascadeReads, CascadeWrites, PickNode,
       UpdateOutboundRuntime, LoadFile, ReadWanted, ReadCurrent, ReloadDeletes, ReloadApplies,
       ReloadDone
  <1>3. CASE j = Scheduler /\ (RunOnce \/ PersistAttempt)
    BY <1>3 DEF RunOnce, PersistAttempt
  <1> QED
    BY <1>1, <1>2, <1>3, Zenon DEF SubStep

LEMMA LooseFrame ==
  ASSUME NEW j \in JobIds, SubStep(j), ~(DeleteOutboundNoCascade(j) \/ UpdateProxyOutbound(j) \/ LoadFile(j))
  PROVE  UNCHANGED loose
  <1>1. CASE ServiceStep(j)
    BY <1>1 DEF ServiceStep, FetchContent, ReadExisting, ReadUsed, ReplaceSubscriptionOutbounds,
       SyncNode, DeleteOutboundNoCascade, SyncDone, NextSubscription, UpdatesDone, RecordResult
  <1>2. CASE RequestStep(j)
    BY <1>2 DEF RequestStep, UpdateProxySubscription, ReloadProxyOutbounds, BeginUpdate,
       CreateProxySubscription, EditReads, EditWrites, DeleteProxySubscription, DeleteSubscription,
       CreateProxyOutbound, UpdateProxyOutbound, DeleteProxyOutbound, BlockReads, BlockWrites,
       ApplyAdd, ApplyChange, ApplyRemove, CascadeReads, CascadeWrites, PickNode,
       UpdateOutboundRuntime, LoadFile, ReadWanted, ReadCurrent, ReloadDeletes, ReloadApplies,
       ReloadDone
  <1>3. CASE j = Scheduler /\ (RunOnce \/ PersistAttempt)
    BY <1>3 DEF RunOnce, PersistAttempt
  <1> QED
    BY <1>1, <1>2, <1>3, Zenon DEF SubStep

\* A request that is done in one step leaves the outbounds as they are.
LEMMA Instant ==
  ASSUME SubTypes, NEW j \in JobIds, SubStep(j), Clean(j), ~Running(jobs[j]), ~Running(jobs'[j])
  PROVE  UNCHANGED rt /\ \A n \in OutNames : Like(conf'[n], conf[n])
  <1>1. jobs[j].pc = "ready"
    BY Turns DEF Running
  <1>2. UNCHANGED rt
    BY <1>1, RtFrame DEF SyncNode, DeleteOutboundNoCascade, ApplyAdd, ApplyChange, ApplyRemove,
       ReloadDeletes, ReloadApplies
  <1>3. DOMAIN jobs[j] = JobFields /\ DOMAIN jobs = JobIds
    BY JobIn DEF SubTypes
  <1>4. ASSUME UNCHANGED conf PROVE \A n \in OutNames : Like(conf'[n], conf[n])
    BY <1>4, LikeFacts
  <1>5. jobs'[j].pc # "apply"
    BY DEF Running
  <1>10. CASE CreateProxyOutbound(j)
    <2>1. UNCHANGED conf
      BY <1>3, <1>5, <1>10, NotFailed DEF CreateProxyOutbound, Goto, To, JobFields, Clean
    <2> QED
      BY <1>2, <1>4, <2>1
  <1>11. CASE UpdateProxyOutbound(j)
    <2>1. UNCHANGED conf
      BY <1>3, <1>5, <1>11, NotFailed DEF UpdateProxyOutbound, Goto, To, JobFields, Clean
    <2> QED
      BY <1>2, <1>4, <2>1
  <1>12. CASE DeleteProxyOutbound(j)
    <2>1. UNCHANGED conf
      BY <1>3, <1>5, <1>12, NotFailed DEF DeleteProxyOutbound, Goto, To, JobFields, Clean
    <2> QED
      BY <1>2, <1>4, <2>1
  <1>13. CASE UpdateOutboundRuntime(j)
    BY <1>13, TestedLike
  <1>14. CASE LoadFile(j)
    BY <1>3, <1>14 DEF LoadFile, Goto, To, JobFields, Running
  <1> QED
    BY <1>1, <1>2, <1>4, <1>10, <1>11, <1>12, <1>13, <1>14, ConfFrame DEF
       ReplaceSubscriptionOutbounds, BlockWrites

\* The request that moves stands as it should afterwards.
LEMMA StandsStep ==
  ASSUME SubTypes, NEW j \in JobIds, SubStep(j), Clean(j), Stands(jobs[j], conf, rt)
  PROVE  Stands(jobs'[j], conf', rt')
  <1>1. CASE LoadFile(j)
    <2>1. jobs'[j].pc = "want"
      BY <1>1, JobIn DEF LoadFile, Goto, To, JobFields, SubTypes
    <2> QED
      BY <2>1 DEF Stands, Preparing, Level
  <1>2. CASE UpdateOutboundRuntime(j)
    <2>1. jobs'[j].pc = "done" /\ AllLike(conf, rt) /\ UNCHANGED rt /\ \A n \in OutNames : Like(conf'[n], conf[n])
      BY <1>2, TestedLike DEF Stands, Level
    <2>2. AllLike(conf', rt')
      BY <2>1, LikeFacts DEF AllLike
    <2> QED
      BY <2>1, <2>2 DEF Stands, Preparing, Level
  <1>3. CASE ApplyChange(j)
    BY <1>3, ApplyRenameStands, ApplyBlockStands DEF ApplyChange
  <1>4. CASE ServiceStep(j)
    BY <1>4, FlatStands, ReadExistingStands, ReadUsedStands, ReplaceStands, SyncNodeStands,
       NoCascadeStands, SyncDoneStands
       DEF ServiceStep, FlatStep
  <1>5. CASE ReloadProxyOutbounds(j)
    BY <1>5, ReadWantedStands, ReadCurrentStands, ReloadDeletesStands, ReloadAppliesStands,
       ReloadDoneStands DEF ReloadProxyOutbounds
  <1>6. CASE RequestStep(j)
    BY <1>1, <1>2, <1>3, <1>5, <1>6, FlatStands, AddStands, ChangeStands, RemoveStands,
       BlockReadsStands, BlockStands,
       ApplyAddStands, ApplyRemoveStands, CascadeReadsStands, CascadeWritesStands
       DEF RequestStep, UpdateProxySubscription, FlatStep
  <1> QED
    BY <1>4, <1>6, FlatStands DEF SubStep, FlatStep

\* A step after which nothing is astray is clean, and leaves at most one request at work.
LEMMA Unstrayed ==
  ASSUME NEW j \in JobIds, ~GoesAstray
  PROVE  Clean(j) /\ \A i, k \in JobIds : Running(jobs'[i]) /\ Running(jobs'[k]) => i = k
  BY DEF GoesAstray, Clean

\* Follow is kept by the steps of the requests, and by the others.
LEMMA FollowStep ==
  ASSUME SubTypes, Follow, NEW j \in JobIds, SubStep(j), AstrayStep, SubTypes' PROVE Follow'
  <1>1. SUFFICES ASSUME ~astray'
        PROVE  /\ \A i, k \in JobIds : Running(jobs'[i]) /\ Running(jobs'[k]) => i = k
               /\ \A i \in JobIds : (\A k \in JobIds \ {i} : ~Running(jobs'[k])) => Stands(jobs'[i], conf', rt')
    BY DEF Follow, Alone
  <1>2. ~GoesAstray /\ (Mended \/ ~astray)
    BY <1>1 DEF AstrayStep
  <1>3. Clean(j) /\ \A i, k \in JobIds : Running(jobs'[i]) /\ Running(jobs'[k]) => i = k
    BY <1>2, Unstrayed
  <1>4. \A i \in JobIds \ {j} : jobs'[i] = jobs[i]
    BY Others
  <1>5. CASE Mended
    <2>1. jobs'[j].pc = "want"
      BY <1>4, <1>5 DEF Mended
    <2>2. Stands(jobs'[j], conf', rt') /\ Running(jobs'[j])
      BY <2>1 DEF Stands, Preparing, Level, Running
    <2> QED
      BY <1>3, <2>2
  <1>6. CASE ~astray
    <2>1. /\ \A i, k \in JobIds : Running(jobs[i]) /\ Running(jobs[k]) => i = k
          /\ \A i \in JobIds : Alone(i) => Stands(jobs[i], conf, rt)
      BY <1>6 DEF Follow
    <2>2. CASE Alone(j)
      <3>1. Stands(jobs'[j], conf', rt')
        BY <1>3, <2>1, <2>2, StandsStep
      <3>2. ASSUME NEW i \in JobIds \ {j}, \A k \in JobIds \ {i} : ~Running(jobs'[k]) PROVE Stands(jobs'[i], conf', rt')
        <4>1. ~Running(jobs'[j]) /\ ~Running(jobs'[i])
          BY <1>4, <2>2, <3>2 DEF Alone
        <4>2. AllLike(conf', rt')
          BY <3>1, <4>1 DEF Stands, Running, Level
        <4>3. jobs'[i].pc \in {"ready", "done"}
          BY <4>1 DEF Running
        <4> QED
          BY <4>2, <4>3 DEF Stands, Preparing, Level
      <3> QED
        BY <1>3, <3>1, <3>2
    <2>3. CASE ~Alone(j)
      <3>1. PICK k \in JobIds \ {j} : Running(jobs[k])
        BY <2>3 DEF Alone
      <3>2. Running(jobs'[k]) /\ ~Running(jobs[j]) /\ ~Running(jobs'[j]) /\ Alone(k)
        BY <1>3, <1>4, <2>1, <3>1 DEF Alone
      <3>3. Stands(jobs[k], conf, rt)
        BY <2>1, <3>2
      <3>4. UNCHANGED rt /\ \A n \in OutNames : Like(conf'[n], conf[n])
        BY <1>3, <3>2, Instant
      <3>5. PICK r : r = jobs[k]
        OBVIOUS
      <3>6. Stands(r, conf', rt)
        <4>1. JobFit(k, r) /\ OutMap(conf) /\ OutMap(conf') /\ Stands(r, conf, rt)
          BY <3>3, <3>5, JobIn DEF SubTypes, World
        <4>2. /\ r.next \in Seq(SubItems) /\ r.todo \subseteq OutNames /\ (r.op \in OfNode => r.name \in OutNames)
              /\ r.op = "change" => r.as \in OutNames
          BY <4>1 DEF JobFit, JobRec, JobHolds
        <4> QED
          BY <3>4, <4>1, <4>2, StandsStill
      <3>7. Stands(jobs'[k], conf', rt')
        BY <1>4, <3>1, <3>4, <3>5, <3>6
      <3> QED
        BY <1>3, <3>2, <3>7
    <2> QED
      BY <2>2, <2>3
  <1> QED
    BY <1>2, <1>5, <1>6

LEMMA FollowStill ==
  ASSUME Follow, UNCHANGED <<conf, rt, jobs>>, AstrayStep \/ UNCHANGED astray PROVE Follow'
  <1>1. ~astray' => ~astray
    BY DEF AstrayStep, Mended
  <1> QED
    BY <1>1 DEF Follow, Alone

-----------------------------------------------------------------------------
(* Referred.                                                               *)

\* What a server may refer to.
LEMMA ServerShape ==
  ASSUME NEW v \in Refs
  PROVE  /\ v.names \subseteq OutNames /\ (v.kind = "group" => v.names = {} /\ v.group \in Subs \cup {"manual"})
         /\ (v.names # {} => v.kind = "nodes") /\ Direct.names = {} /\ Direct.kind = "direct"
  BY DEF Refs, Direct

\* The references hold on when what backed them does, or the cascade for it has begun.
LEMMA RefersOn ==
  ASSUME NEW a, NEW b, NEW v, v \in Refs, NEW c, NEW d, NEW t, NEW u, NEW l, NEW m,
         a.pc \notin {"cascade", "repoint"}, Refers(a, v, c, t, l), RefAt(b, d, u, m),
         \A n \in OutNames : Backed(n, c, t, l) => Backed(n, d, u, m) \/ (b.pc = "cascade" /\ b.name = n),
         \A g \in Subs \cup {"manual"} : Manned(g, t, l) => Manned(g, u, m) \/ (b.pc = "cascade" /\ b.group = g)
  PROVE  Refers(b, v, d, u, m)
  BY ServerShape DEF Refers

\* From a level place, with the running map left alone, they hold on.
LEMMA LevelOn ==
  ASSUME NEW a, NEW b, NEW v, v \in Refs, NEW c, NEW d, NEW t, NEW l, NEW m,
         a.pc \in Level, Stands(a, c, t), Refers(a, v, c, t, l), RefAt(b, d, t, m), l \subseteq m
  PROVE  Refers(b, v, d, t, m)
  <1>1. \A n \in OutNames : t[n].sub = c[n].sub
    BY DEF Stands, AllLike, Like
  <1>2. \A n \in OutNames : Backed(n, c, t, l) => Backed(n, d, t, m)
    BY <1>1 DEF Backed
  <1>3. \A g \in Subs \cup {"manual"} : Manned(g, t, l) => Manned(g, t, m)
    BY DEF Manned
  <1>4. a.pc \notin {"cascade", "repoint"}
    BY DEF Level
  <1> QED
    BY <1>2, <1>3, <1>4, RefersOn

\* No name is taken off the list of those that went without a cascade.
LEMMA LooseGrows == ASSUME NEW j \in JobIds, SubStep(j) PROVE loose \subseteq loose'
  <1>1. CASE DeleteOutboundNoCascade(j)
    BY <1>1 DEF DeleteOutboundNoCascade
  <1>2. CASE UpdateProxyOutbound(j)
    BY <1>2 DEF UpdateProxyOutbound
  <1>3. CASE LoadFile(j)
    BY <1>3 DEF LoadFile
  <1> QED
    BY <1>1, <1>2, <1>3, LooseFrame

\* The file follows the configuration.
LEMMA FileLike ==
  ASSUME SubTypes, NEW j \in JobIds, SubStep(j), Clean(j), \A n \in OutNames : Like(file[n], conf[n])
  PROVE  \A n \in OutNames : Like(file'[n], conf'[n])
  <1>1. ASSUME file' = conf' PROVE \A n \in OutNames : Like(file'[n], conf'[n])
    BY <1>1, LikeFacts
  <1>2. ASSUME UNCHANGED <<conf, file>> PROVE \A n \in OutNames : Like(file'[n], conf'[n])
    BY <1>2
  <1>3. ASSUME NEW m, SaveWorks(m) PROVE file' = conf'
    BY <1>3 DEF SaveWorks
  <1>10. CASE ReplaceSubscriptionOutbounds(j)
    BY <1>1, <1>2, <1>3, <1>10, NotFailed DEF ReplaceSubscriptionOutbounds, Clean
  <1>11. CASE CreateProxyOutbound(j)
    BY <1>1, <1>2, <1>3, <1>11, NotFailed DEF CreateProxyOutbound, Clean
  <1>12. CASE UpdateProxyOutbound(j)
    BY <1>1, <1>2, <1>3, <1>12, NotFailed DEF UpdateProxyOutbound, Clean
  <1>13. CASE DeleteProxyOutbound(j)
    BY <1>1, <1>2, <1>3, <1>13, NotFailed DEF DeleteProxyOutbound, Clean
  <1>14. CASE BlockWrites(j)
    BY <1>1, <1>2, <1>3, <1>14, NotFailed DEF BlockWrites, Clean
  <1>15. CASE UpdateOutboundRuntime(j)
    <2>1. UNCHANGED file /\ \A n \in OutNames : Like(conf'[n], conf[n])
      BY <1>15, TestedLike DEF UpdateOutboundRuntime
    <2> QED
      BY <2>1, LikeFacts
  <1>16. CASE LoadFile(j)
    BY <1>1, <1>16 DEF LoadFile
  <1> QED
    BY <1>2, <1>10, <1>11, <1>12, <1>13, <1>14, <1>15, <1>16, ConfFrame

\* The references after a step from a level place, and one lemma for each of the other steps.
LEMMA LevelRefers ==
  ASSUME SubTypes, SubTypes', NEW j \in JobIds, SubStep(j), Clean(j), Stands(jobs[j], conf, rt),
         Refers(jobs[j], server, conf, rt, loose),
         \A n \in OutNames : Like(file[n], conf[n]), jobs[j].pc \in Level
  PROVE  Refers(jobs'[j], server', conf', rt', loose')
  <1>1. PICK a : a = jobs[j]
    OBVIOUS
  <1>2. PICK b : b = jobs'[j]
    OBVIOUS
  <1>3. /\ DOMAIN a = JobFields /\ DOMAIN jobs = JobIds /\ JobFit(j, a) /\ Stands(a, conf, rt) /\ OutMap(conf) /\ OutMap(rt)
        /\ server \in Refs /\ Refers(a, server, conf, rt, loose)
    BY <1>1, JobIn DEF SubTypes, World
  <1>4. Kept(a, b) /\ loose \subseteq loose'
    BY <1>1, <1>2, Moved, LooseGrows
  <1>5. UNCHANGED rt /\ a.pc \in Level /\ a.pc # "done"
    BY <1>1, RtFrame, Turns DEF SyncNode, DeleteOutboundNoCascade, ApplyAdd, ApplyChange,
       ApplyRemove, ReloadDeletes, ReloadApplies, Level
  <1>6. AllLike(conf, rt)
    BY <1>3, <1>5 DEF Stands
  <1>7. JobFit(j, b)
    BY <1>2, JobIn DEF SubTypes
  <1>8. RefAt(b, conf', rt', loose')
    <2>1. a.op = "reload" => a.pc = "ready" /\ j # Scheduler
      BY <1>3, <1>5 DEF JobFit, RouteOK, Level, Upd
    <2>2. a.op \in {"change", "remove"} => a.pc = "ready" /\ j # Scheduler
      BY <1>3, <1>5 DEF JobFit, RouteOK, Level, Upd
    <2>3. b.pc # "repoint"
      <3>1. SUFFICES ASSUME b.pc = "repoint" PROVE FALSE
        OBVIOUS
      <3>2. a.op \in {"remove", "reload"}
        BY <1>4, <1>7, <3>1 DEF Kept, JobFit, RouteOK
      <3>3. CASE a.op = "remove"
        <4>1. DeleteProxyOutbound(j)
          BY <1>1, <2>2, <3>3, Turns
        <4> QED
          BY <1>1, <1>2, <1>3, <3>1, <4>1 DEF DeleteProxyOutbound, Goto, To, JobFields
      <3>4. CASE a.op = "reload"
        <4>1. LoadFile(j)
          BY <1>1, <2>1, <3>4, Turns
        <4> QED
          BY <1>1, <1>2, <1>3, <3>1, <4>1 DEF LoadFile, Goto, To, JobFields
      <3> QED
        BY <3>2, <3>3, <3>4
    <2>4. ASSUME b.op = "change", b.pc = "apply" PROVE b.name \in loose' /\ Group(rt'[b.name].sub) \in loose'
      <3>1. a.op = "change" /\ UpdateProxyOutbound(j) /\ a.name \in OutNames
        BY <1>1, <1>3, <1>4, <2>2, <2>4, Turns DEF Kept, JobFit, JobHolds, OfNode
      <3>2. b.name = a.name
        BY <1>1, <1>2, <1>3, <3>1 DEF UpdateProxyOutbound, Goto, To, JobFields
      <3>3. conf[a.name] # NoNode
        BY <1>1, <1>2, <1>3, <2>4, <3>1 DEF UpdateProxyOutbound, Goto, To, JobFields
      <3>4. loose' = loose \cup {Group(conf[a.name].sub), a.name}
        BY <1>1, <3>1, <3>3 DEF UpdateProxyOutbound
      <3>5. rt[a.name].sub = conf[a.name].sub
        BY <1>6, <3>1 DEF AllLike, Like
      <3> QED
        BY <1>5, <3>2, <3>4, <3>5
    <2>5. ASSUME b.op = "reload", Running(b) PROVE OneOwner(conf', rt')
      <3>1. LoadFile(j) /\ a.name \in OutNames
        BY <1>1, <1>3, <1>4, <2>1, <2>5, Turns DEF Kept, JobFit, JobHolds, OfNode
      <3>2. PICK x : x = IF file[a.name] = NoNode THEN Manual("typed") ELSE NoNode
        OBVIOUS
      <3>3. conf' = [file EXCEPT ![a.name] = x] /\ OutMap(file)
        BY <1>1, <3>1, <3>2 DEF LoadFile, SubTypes, World
      <3>4. \A n \in OutNames \ {a.name} : conf'[n].sub = rt[n].sub
        BY <1>6, <3>1, <3>3 DEF OutMap, Maps, AllLike, Like
      <3>5. rt[a.name].sub = file[a.name].sub /\ conf'[a.name] = x
        BY <1>6, <3>1, <3>3 DEF OutMap, Maps, AllLike, Like
      <3>6. rt[a.name].sub = "absent" \/ conf'[a.name].sub = "absent"
        BY <3>1, <3>2, <3>3, <3>5, NodeAbsent, OutNodes
      <3> QED
        BY <1>5, <3>4, <3>6 DEF OneOwner
    <2> QED
      BY <2>3, <2>4, <2>5 DEF RefAt
  <1>9. CASE ~PickNode(j)
    <2>1. UNCHANGED server
      BY <1>1, <1>5, <1>9, ServerFrame DEF CascadeWrites, Level
    <2>2. Refers(b, server, conf', rt, loose')
      BY <1>3, <1>4, <1>5, <1>8, LevelOn
    <2> QED
      BY <1>2, <1>5, <2>1, <2>2
  <1>10. CASE PickNode(j)
    <2>1. /\ server' = [kind |-> "nodes", names |-> {a.name}, group |-> Nothing] /\ conf[a.name] # NoNode /\ UNCHANGED conf
          /\ a.name \in OutNames
      BY <1>1, <1>3, <1>10 DEF PickNode, JobFit, JobHolds, OfNode
    <2>2. conf'[a.name].sub # "absent"
      BY <1>3, <2>1, NodeAbsent
    <2>3. Refers(b, server', conf', rt', loose')
      BY <1>8, <2>1, <2>2 DEF Refers, Backed
    <2> QED
      BY <1>2, <2>3
  <1> QED
    BY <1>9, <1>10

LEMMA SyncNodeRefers ==
  ASSUME SubTypes, SubTypes', NEW j \in JobIds, SubStep(j), SyncNode(j), Clean(j), Stands(jobs[j], conf, rt),
         Refers(jobs[j], server, conf, rt, loose)
  PROVE  Refers(jobs'[j], server', conf', rt', loose')
  <1>1. PICK a : a = jobs[j]
    OBVIOUS
  <1>2. PICK b : b = jobs'[j]
    OBVIOUS
  <1>3. /\ DOMAIN a = JobFields /\ DOMAIN jobs = JobIds /\ JobFit(j, a) /\ Stands(a, conf, rt) /\ OutMap(conf) /\ OutMap(rt)
        /\ server \in Refs /\ Refers(a, server, conf, rt, loose)
    BY <1>1, JobIn DEF SubTypes, World
  <1>4. Kept(a, b) /\ loose \subseteq loose'
    BY <1>1, <1>2, Moved, LooseGrows
  <1>5. UNCHANGED <<server, conf>> /\ a.pc = "sync" /\ a.next # <<>>
    BY <1>1 DEF SyncNode
  <1>6. a.op \notin {"reload", "change"}
    BY <1>3, <1>5 DEF JobFit, RouteOK, Upd
  <1>7. PICK x : x = Head(a.next)
    OBVIOUS
  <1>8. x.name \in OutNames /\ x.name \in NodeNames(a.next) /\ x.node.sub = a.sid /\ a.sid # "absent"
    <2>1. a.next \in Seq(SubItems) /\ a.sid \in Subs /\ \A i \in DOMAIN a.next : a.next[i].node.sub = a.sid
      BY <1>3, <1>5 DEF JobFit, JobRec, JobHolds, Serving
    <2>2. x \in SubItems /\ x = a.next[1] /\ 1 \in DOMAIN a.next
      BY <1>5, <1>7, <2>1, TailFit
    <2> QED
      BY <2>1, <2>2, NotASub DEF NodeNames, SubItems
  <1>9. rt[x.name].sub \in {a.sid, "absent"}
    BY <1>3, <1>5, <1>8 DEF Stands
  <1>10. /\ rt' = rt \/ rt' = [rt EXCEPT ![x.name] = x.node]
         /\ b.pc \in {"sync", "record"}
    BY <1>1, <1>2, <1>3, <1>5, <1>7 DEF SyncNode, Fails, To, JobFields
  <1>11. \A n \in OutNames : rt'[n] = rt[n] \/ (rt'[n].sub = a.sid /\ rt[n].sub \in {a.sid, "absent"})
    BY <1>3, <1>8, <1>9, <1>10 DEF OutMap, Maps
  <1>17. RefAt(b, conf', rt', loose')
    BY <1>4, <1>6, <1>10 DEF RefAt, Kept
  <1>18. \A n \in OutNames : Backed(n, conf, rt, loose) => Backed(n, conf', rt', loose')
    BY <1>4, <1>5, <1>8, <1>11 DEF Backed
  <1>19. \A g \in Subs \cup {"manual"} : Manned(g, rt, loose) => Manned(g, rt', loose')
    BY <1>4, <1>11, NotASub, SubConstants DEF Manned, OfSub
  <1>20. Refers(b, server', conf', rt', loose')
    <2>1. a.pc \notin {"cascade", "repoint"}
      BY <1>5
    <2>2. UNCHANGED server
      BY <1>5
    <2>3. Refers(b, server, conf', rt', loose')
      BY <1>3, <1>17, <1>18, <1>19, <2>1, RefersOn
    <2> QED
      BY <2>2, <2>3
  <1> QED
    BY <1>2, <1>20

LEMMA NoCascadeRefers ==
  ASSUME SubTypes, SubTypes', NEW j \in JobIds, SubStep(j), DeleteOutboundNoCascade(j), Clean(j), Stands(jobs[j], conf, rt),
         Refers(jobs[j], server, conf, rt, loose)
  PROVE  Refers(jobs'[j], server', conf', rt', loose')
  <1>1. PICK a : a = jobs[j]
    OBVIOUS
  <1>2. PICK b : b = jobs'[j]
    OBVIOUS
  <1>3. /\ DOMAIN a = JobFields /\ DOMAIN jobs = JobIds /\ JobFit(j, a) /\ Stands(a, conf, rt) /\ OutMap(conf) /\ OutMap(rt)
        /\ server \in Refs /\ Refers(a, server, conf, rt, loose)
    BY <1>1, JobIn DEF SubTypes, World
  <1>4. Kept(a, b) /\ loose \subseteq loose'
    BY <1>1, <1>2, Moved, LooseGrows
  <1>5. UNCHANGED <<server, conf>> /\ a.pc = "sync"
    BY <1>1 DEF DeleteOutboundNoCascade
  <1>6. a.op \notin {"reload", "change"}
    BY <1>3, <1>5 DEF JobFit, RouteOK, Upd
  <1>7. PICK n \in a.todo : rt' = [rt EXCEPT ![n] = NoNode] /\ loose' = loose \cup {n, Group(a.sid)}
    BY <1>1 DEF DeleteOutboundNoCascade
  <1>8. n \in OutNames /\ rt[n].sub \in {a.sid, "absent"} /\ b.pc = "sync"
    BY <1>1, <1>2, <1>3, <1>5, <1>7 DEF JobFit, JobRec, Stands, DeleteOutboundNoCascade, To, JobFields
  <1>11. \A k \in OutNames \ {n} : rt'[k] = rt[k]
    BY <1>3, <1>7 DEF OutMap, Maps
  <1>17. RefAt(b, conf', rt', loose')
    BY <1>4, <1>6, <1>8 DEF RefAt, Kept
  <1>18. \A k \in OutNames : Backed(k, conf, rt, loose) => Backed(k, conf', rt', loose')
    BY <1>4, <1>5, <1>7, <1>11 DEF Backed
  <1>19. ASSUME NEW g \in Subs \cup {"manual"}, Manned(g, rt, loose) PROVE Manned(g, rt', loose')
    <2>1. CASE g = a.sid
      BY <1>7, <2>1 DEF Manned
    <2>2. CASE g # a.sid
      <3>1. g # "absent"
        BY NotASub
      <3> QED
        BY <1>4, <1>8, <1>11, <1>19, <2>2, <3>1 DEF Manned, OfSub
    <2> QED
      BY <2>1, <2>2
  <1>20. Refers(b, server', conf', rt', loose')
    <2>1. a.pc \notin {"cascade", "repoint"}
      BY <1>5
    <2>2. UNCHANGED server
      BY <1>5
    <2>3. Refers(b, server, conf', rt', loose')
      BY <1>3, <1>17, <1>18, <1>19, <2>1, RefersOn
    <2> QED
      BY <2>2, <2>3
  <1> QED
    BY <1>2, <1>20

LEMMA SyncDoneRefers ==
  ASSUME SubTypes, SubTypes', NEW j \in JobIds, SubStep(j), SyncDone(j), Clean(j), Stands(jobs[j], conf, rt),
         Refers(jobs[j], server, conf, rt, loose)
  PROVE  Refers(jobs'[j], server', conf', rt', loose')
  <1>1. PICK a : a = jobs[j]
    OBVIOUS
  <1>2. PICK b : b = jobs'[j]
    OBVIOUS
  <1>3. /\ DOMAIN a = JobFields /\ DOMAIN jobs = JobIds /\ JobFit(j, a) /\ Stands(a, conf, rt) /\ OutMap(conf) /\ OutMap(rt)
        /\ server \in Refs /\ Refers(a, server, conf, rt, loose)
    BY <1>1, JobIn DEF SubTypes, World
  <1>4. Kept(a, b) /\ loose \subseteq loose'
    BY <1>1, <1>2, Moved, LooseGrows
  <1>5. UNCHANGED <<server, conf>> /\ a.pc = "sync" /\ UNCHANGED <<rt, loose>>
    BY <1>1 DEF SyncDone
  <1>6. b.pc \in {"record", "unlist"}
    BY <1>1, <1>2, <1>3 DEF SyncDone, AfterService, Goto, End, To, JobFields
  <1>17. RefAt(b, conf', rt', loose')
    BY <1>3, <1>4, <1>5, <1>6 DEF RefAt, Refers, Kept, Running, JobFit, RouteOK, Upd
  <1>18. \A n \in OutNames : Backed(n, conf, rt, loose) => Backed(n, conf', rt', loose')
    BY <1>5 DEF Backed
  <1>19. \A g \in Subs \cup {"manual"} : Manned(g, rt, loose) => Manned(g, rt', loose')
    BY <1>5 DEF Manned
  <1>20. Refers(b, server', conf', rt', loose')
    <2>1. a.pc \notin {"cascade", "repoint"}
      BY <1>5
    <2>2. UNCHANGED server
      BY <1>5
    <2>3. Refers(b, server, conf', rt', loose')
      BY <1>3, <1>17, <1>18, <1>19, <2>1, RefersOn
    <2> QED
      BY <2>2, <2>3
  <1> QED
    BY <1>2, <1>20

LEMMA ReadWantedRefers ==
  ASSUME SubTypes, SubTypes', NEW j \in JobIds, SubStep(j), ReadWanted(j), Clean(j), Stands(jobs[j], conf, rt),
         Refers(jobs[j], server, conf, rt, loose)
  PROVE  Refers(jobs'[j], server', conf', rt', loose')
  <1>1. PICK a : a = jobs[j]
    OBVIOUS
  <1>2. PICK b : b = jobs'[j]
    OBVIOUS
  <1>3. /\ DOMAIN a = JobFields /\ DOMAIN jobs = JobIds /\ JobFit(j, a) /\ Stands(a, conf, rt) /\ OutMap(conf) /\ OutMap(rt)
        /\ server \in Refs /\ Refers(a, server, conf, rt, loose)
    BY <1>1, JobIn DEF SubTypes, World
  <1>4. Kept(a, b) /\ loose \subseteq loose'
    BY <1>1, <1>2, Moved, LooseGrows
  <1>5. UNCHANGED <<server, conf>> /\ a.pc = "want" /\ UNCHANGED <<rt, loose>>
    BY <1>1 DEF ReadWanted
  <1>6. b.pc = "have"
    BY <1>1, <1>2, <1>3 DEF ReadWanted, AfterService, Goto, End, To, JobFields
  <1>17. RefAt(b, conf', rt', loose')
    BY <1>3, <1>4, <1>5, <1>6 DEF RefAt, Refers, Kept, Running, JobFit, RouteOK, Upd
  <1>18. \A n \in OutNames : Backed(n, conf, rt, loose) => Backed(n, conf', rt', loose')
    BY <1>5 DEF Backed
  <1>19. \A g \in Subs \cup {"manual"} : Manned(g, rt, loose) => Manned(g, rt', loose')
    BY <1>5 DEF Manned
  <1>20. Refers(b, server', conf', rt', loose')
    <2>1. a.pc \notin {"cascade", "repoint"}
      BY <1>5
    <2>2. UNCHANGED server
      BY <1>5
    <2>3. Refers(b, server, conf', rt', loose')
      BY <1>3, <1>17, <1>18, <1>19, <2>1, RefersOn
    <2> QED
      BY <2>2, <2>3
  <1> QED
    BY <1>2, <1>20

LEMMA ReadCurrentRefers ==
  ASSUME SubTypes, SubTypes', NEW j \in JobIds, SubStep(j), ReadCurrent(j), Clean(j), Stands(jobs[j], conf, rt),
         Refers(jobs[j], server, conf, rt, loose)
  PROVE  Refers(jobs'[j], server', conf', rt', loose')
  <1>1. PICK a : a = jobs[j]
    OBVIOUS
  <1>2. PICK b : b = jobs'[j]
    OBVIOUS
  <1>3. /\ DOMAIN a = JobFields /\ DOMAIN jobs = JobIds /\ JobFit(j, a) /\ Stands(a, conf, rt) /\ OutMap(conf) /\ OutMap(rt)
        /\ server \in Refs /\ Refers(a, server, conf, rt, loose)
    BY <1>1, JobIn DEF SubTypes, World
  <1>4. Kept(a, b) /\ loose \subseteq loose'
    BY <1>1, <1>2, Moved, LooseGrows
  <1>5. UNCHANGED <<server, conf>> /\ a.pc = "have" /\ UNCHANGED <<rt, loose>>
    BY <1>1 DEF ReadCurrent
  <1>6. b.pc = "apply"
    BY <1>1, <1>2, <1>3 DEF ReadCurrent, AfterService, Goto, End, To, JobFields
  <1>17. RefAt(b, conf', rt', loose')
    BY <1>3, <1>4, <1>5, <1>6 DEF RefAt, Refers, Kept, Running, JobFit, RouteOK, Upd
  <1>18. \A n \in OutNames : Backed(n, conf, rt, loose) => Backed(n, conf', rt', loose')
    BY <1>5 DEF Backed
  <1>19. \A g \in Subs \cup {"manual"} : Manned(g, rt, loose) => Manned(g, rt', loose')
    BY <1>5 DEF Manned
  <1>20. Refers(b, server', conf', rt', loose')
    <2>1. a.pc \notin {"cascade", "repoint"}
      BY <1>5
    <2>2. UNCHANGED server
      BY <1>5
    <2>3. Refers(b, server, conf', rt', loose')
      BY <1>3, <1>17, <1>18, <1>19, <2>1, RefersOn
    <2> QED
      BY <2>2, <2>3
  <1> QED
    BY <1>2, <1>20

LEMMA ReloadDoneRefers ==
  ASSUME SubTypes, SubTypes', NEW j \in JobIds, SubStep(j), ReloadDone(j), Clean(j), Stands(jobs[j], conf, rt),
         Refers(jobs[j], server, conf, rt, loose)
  PROVE  Refers(jobs'[j], server', conf', rt', loose')
  <1>1. PICK a : a = jobs[j]
    OBVIOUS
  <1>2. PICK b : b = jobs'[j]
    OBVIOUS
  <1>3. /\ DOMAIN a = JobFields /\ DOMAIN jobs = JobIds /\ JobFit(j, a) /\ Stands(a, conf, rt) /\ OutMap(conf) /\ OutMap(rt)
        /\ server \in Refs /\ Refers(a, server, conf, rt, loose)
    BY <1>1, JobIn DEF SubTypes, World
  <1>4. Kept(a, b) /\ loose \subseteq loose'
    BY <1>1, <1>2, Moved, LooseGrows
  <1>5. UNCHANGED <<server, conf>> /\ a.pc = "apply" /\ UNCHANGED <<rt, loose>>
    BY <1>1 DEF ReloadDone
  <1>6. b.pc = "done"
    BY <1>1, <1>2, <1>3 DEF ReloadDone, AfterService, Goto, End, To, JobFields
  <1>17. RefAt(b, conf', rt', loose')
    BY <1>3, <1>4, <1>5, <1>6 DEF RefAt, Refers, Kept, Running, JobFit, RouteOK, Upd
  <1>18. \A n \in OutNames : Backed(n, conf, rt, loose) => Backed(n, conf', rt', loose')
    BY <1>5 DEF Backed
  <1>19. \A g \in Subs \cup {"manual"} : Manned(g, rt, loose) => Manned(g, rt', loose')
    BY <1>5 DEF Manned
  <1>20. Refers(b, server', conf', rt', loose')
    <2>1. a.pc \notin {"cascade", "repoint"}
      BY <1>5
    <2>2. UNCHANGED server
      BY <1>5
    <2>3. Refers(b, server, conf', rt', loose')
      BY <1>3, <1>17, <1>18, <1>19, <2>1, RefersOn
    <2> QED
      BY <2>2, <2>3
  <1> QED
    BY <1>2, <1>20

LEMMA ApplyAddRefers ==
  ASSUME SubTypes, SubTypes', NEW j \in JobIds, SubStep(j), ApplyAdd(j), Clean(j), Stands(jobs[j], conf, rt),
         Refers(jobs[j], server, conf, rt, loose)
  PROVE  Refers(jobs'[j], server', conf', rt', loose')
  <1>1. PICK a : a = jobs[j]
    OBVIOUS
  <1>2. PICK b : b = jobs'[j]
    OBVIOUS
  <1>3. /\ DOMAIN a = JobFields /\ DOMAIN jobs = JobIds /\ JobFit(j, a) /\ Stands(a, conf, rt) /\ OutMap(conf) /\ OutMap(rt)
        /\ server \in Refs /\ Refers(a, server, conf, rt, loose)
    BY <1>1, JobIn DEF SubTypes, World
  <1>4. Kept(a, b) /\ loose \subseteq loose'
    BY <1>1, <1>2, Moved, LooseGrows
  <1>5. UNCHANGED <<server, conf>> /\ a.pc = "apply" /\ UNCHANGED loose
    BY <1>1 DEF ApplyAdd
  <1>6. a.op = "add" /\ a.name \in OutNames
    BY <1>1, <1>3 DEF ApplyAdd, JobFit, JobHolds, OfNode
  <1>7. b.pc = "done"
    BY <1>1, <1>2, <1>3 DEF ApplyAdd, Goto, To, JobFields
  <1>8. rt[a.name].sub = "absent"
    BY <1>3, <1>5, <1>6 DEF Stands
  <1>9. \A n \in OutNames \ {a.name} : rt'[n] = rt[n]
    BY <1>1, <1>3 DEF ApplyAdd, RuntimeAddOutbound, OutMap, Maps
  <1>17. RefAt(b, conf', rt', loose')
    BY <1>7 DEF RefAt, Running
  <1>18. \A n \in OutNames : Backed(n, conf, rt, loose) => Backed(n, conf', rt', loose')
    BY <1>5, <1>6, <1>8, <1>9 DEF Backed
  <1>19. \A g \in Subs \cup {"manual"} : Manned(g, rt, loose) => Manned(g, rt', loose')
    BY <1>5, <1>8, <1>9, SubConstants DEF Manned, OfSub
  <1>20. Refers(b, server', conf', rt', loose')
    <2>1. a.pc \notin {"cascade", "repoint"}
      BY <1>5
    <2>2. UNCHANGED server
      BY <1>5
    <2>3. Refers(b, server, conf', rt', loose')
      BY <1>3, <1>17, <1>18, <1>19, <2>1, RefersOn
    <2> QED
      BY <2>2, <2>3
  <1> QED
    BY <1>2, <1>20

LEMMA ApplyRenameRefers ==
  ASSUME SubTypes, SubTypes', NEW j \in JobIds, SubStep(j), ApplyChange(j), Clean(j), Stands(jobs[j], conf, rt),
         Refers(jobs[j], server, conf, rt, loose), jobs[j].op = "change"
  PROVE  Refers(jobs'[j], server', conf', rt', loose')
  <1>1. PICK a : a = jobs[j]
    OBVIOUS
  <1>2. PICK b : b = jobs'[j]
    OBVIOUS
  <1>3. /\ DOMAIN a = JobFields /\ DOMAIN jobs = JobIds /\ JobFit(j, a) /\ Stands(a, conf, rt) /\ OutMap(conf) /\ OutMap(rt)
        /\ server \in Refs /\ Refers(a, server, conf, rt, loose)
    BY <1>1, JobIn DEF SubTypes, World
  <1>4. Kept(a, b) /\ loose \subseteq loose'
    BY <1>1, <1>2, Moved, LooseGrows
  <1>5. UNCHANGED <<server, conf>> /\ a.pc = "apply" /\ UNCHANGED loose
    BY <1>1 DEF ApplyChange
  <1>6. a.op = "change" /\ a.name \in OutNames
    BY <1>1, <1>3 DEF ApplyChange, JobFit, JobHolds, OfNode
  <1>7. b.pc = "done"
    BY <1>1, <1>2, <1>3 DEF ApplyChange, Goto, To, JobFields
  <1>8. Renaming(a, conf, rt) /\ a.as \in OutNames /\ a.name \in loose /\ Group(rt[a.name].sub) \in loose
    BY <1>3, <1>5, <1>6 DEF Stands, JobFit, JobHolds, Refers, RefAt
  <1>9. /\ \A n \in OutNames \ {a.name, a.as} : rt'[n] = rt[n]
        /\ rt'[a.as].sub # "absent"
    <2>1. rt[a.name] # NoNode /\ (a.as # a.name => rt[a.as] = NoNode)
      BY <1>3, <1>6, <1>8, NodeAbsent DEF Renaming
    <2>2. rt' = Renamed(rt, a.name, a.as, Manual("typed"))
      BY <1>1, <1>6, <2>1 DEF ApplyChange, RuntimeUpdateOutbound
    <2> QED
      BY <1>3, <1>6, <1>8, <2>2, OutNodes DEF Renamed, OutMap, Maps
  <1>17. RefAt(b, conf', rt', loose')
    BY <1>7 DEF RefAt, Running
  <1>18. \A n \in OutNames : Backed(n, conf, rt, loose) => Backed(n, conf', rt', loose')
    BY <1>5, <1>8, <1>9 DEF Backed
  <1>19. ASSUME NEW g \in Subs \cup {"manual"}, Manned(g, rt, loose) PROVE Manned(g, rt', loose')
    <2>1. CASE g = rt[a.name].sub
      BY <1>5, <1>8, <2>1 DEF Manned
    <2>2. CASE g # rt[a.name].sub
      <3>1. g # "absent" /\ (a.as # a.name => rt[a.as].sub = "absent")
        BY <1>8, NotASub DEF Renaming
      <3> QED
        BY <1>5, <1>9, <1>19, <2>2, <3>1 DEF Manned, OfSub
    <2> QED
      BY <2>1, <2>2
  <1>20. Refers(b, server', conf', rt', loose')
    <2>1. a.pc \notin {"cascade", "repoint"}
      BY <1>5
    <2>2. UNCHANGED server
      BY <1>5
    <2>3. Refers(b, server, conf', rt', loose')
      BY <1>3, <1>17, <1>18, <1>19, <2>1, RefersOn
    <2> QED
      BY <2>2, <2>3
  <1> QED
    BY <1>2, <1>20

LEMMA ApplyBlockRefers ==
  ASSUME SubTypes, SubTypes', NEW j \in JobIds, SubStep(j), ApplyChange(j), Clean(j), Stands(jobs[j], conf, rt),
         Refers(jobs[j], server, conf, rt, loose), jobs[j].op = "block"
  PROVE  Refers(jobs'[j], server', conf', rt', loose')
  <1>1. PICK a : a = jobs[j]
    OBVIOUS
  <1>2. PICK b : b = jobs'[j]
    OBVIOUS
  <1>3. /\ DOMAIN a = JobFields /\ DOMAIN jobs = JobIds /\ JobFit(j, a) /\ Stands(a, conf, rt) /\ OutMap(conf) /\ OutMap(rt)
        /\ server \in Refs /\ Refers(a, server, conf, rt, loose)
    BY <1>1, JobIn DEF SubTypes, World
  <1>4. Kept(a, b) /\ loose \subseteq loose'
    BY <1>1, <1>2, Moved, LooseGrows
  <1>5. UNCHANGED <<server, conf>> /\ a.pc = "apply" /\ UNCHANGED loose
    BY <1>1 DEF ApplyChange
  <1>6. a.op = "block" /\ a.name \in OutNames
    BY <1>1, <1>3 DEF ApplyChange, JobFit, JobHolds, OfNode
  <1>7. b.pc = "done"
    BY <1>1, <1>2, <1>3 DEF ApplyChange, Goto, To, JobFields
  <1>8. rt[a.name].sub = a.node.sub
    BY <1>3, <1>5, <1>6 DEF Stands
  <1>9. \A n \in OutNames : rt'[n].sub = rt[n].sub
    <2>1. rt' = rt \/ rt' = Renamed(rt, a.name, a.name, a.node)
      BY <1>1, <1>6 DEF ApplyChange, RuntimeUpdateOutbound
    <2> QED
      BY <1>3, <1>6, <1>8, <2>1 DEF Renamed, OutMap, Maps
  <1>17. RefAt(b, conf', rt', loose')
    BY <1>7 DEF RefAt, Running
  <1>18. \A n \in OutNames : Backed(n, conf, rt, loose) => Backed(n, conf', rt', loose')
    BY <1>5, <1>9 DEF Backed
  <1>19. \A g \in Subs \cup {"manual"} : Manned(g, rt, loose) => Manned(g, rt', loose')
    BY <1>5, <1>9 DEF Manned, OfSub
  <1>20. Refers(b, server', conf', rt', loose')
    <2>1. a.pc \notin {"cascade", "repoint"}
      BY <1>5
    <2>2. UNCHANGED server
      BY <1>5
    <2>3. Refers(b, server, conf', rt', loose')
      BY <1>3, <1>17, <1>18, <1>19, <2>1, RefersOn
    <2> QED
      BY <2>2, <2>3
  <1> QED
    BY <1>2, <1>20

LEMMA ApplyRemoveRefers ==
  ASSUME SubTypes, SubTypes', NEW j \in JobIds, SubStep(j), ApplyRemove(j), Clean(j), Stands(jobs[j], conf, rt),
         Refers(jobs[j], server, conf, rt, loose)
  PROVE  Refers(jobs'[j], server', conf', rt', loose')
  <1>1. PICK a : a = jobs[j]
    OBVIOUS
  <1>2. PICK b : b = jobs'[j]
    OBVIOUS
  <1>3. /\ DOMAIN a = JobFields /\ DOMAIN jobs = JobIds /\ JobFit(j, a) /\ Stands(a, conf, rt) /\ OutMap(conf) /\ OutMap(rt)
        /\ server \in Refs /\ Refers(a, server, conf, rt, loose)
    BY <1>1, JobIn DEF SubTypes, World
  <1>4. Kept(a, b) /\ loose \subseteq loose'
    BY <1>1, <1>2, Moved, LooseGrows
  <1>5. UNCHANGED <<server, conf>> /\ a.pc = "apply" /\ UNCHANGED loose
    BY <1>1 DEF ApplyRemove
  <1>6. a.op = "remove" /\ a.name \in OutNames
    BY <1>1, <1>3 DEF ApplyRemove, JobFit, JobHolds, OfNode
  <1>7. PICK n : n = a.name /\ n \in OutNames
    BY <1>6
  <1>8. RuntimeDeleteOutbound(j, n, "done")
    BY <1>1, <1>7 DEF ApplyRemove
  <1>9. rt'[n] = NoNode /\ \A k \in OutNames \ {n} : rt'[k] = rt[k]
    BY <1>3, <1>7, <1>8 DEF OutMap, Maps, RuntimeDeleteOutbound
  <1>10. rt[n].sub # "absent" => b.pc = "cascade" /\ b.name = n /\ b.group = rt[n].sub
    <2>1. rt[n].sub # "absent" => rt[n] # NoNode
      BY OutNodes
    <2> QED
      BY <1>1, <1>2, <1>3, <1>8, <2>1 DEF RuntimeDeleteOutbound, To, JobFields
  <1>18. \A k \in OutNames : Backed(k, conf, rt, loose) => Backed(k, conf', rt', loose') \/ (b.pc = "cascade" /\ b.name = k)
    BY <1>5, <1>9, <1>10 DEF Backed
  <1>19. ASSUME NEW g \in Subs \cup {"manual"}, Manned(g, rt, loose)
         PROVE  Manned(g, rt', loose') \/ (b.pc = "cascade" /\ b.group = g)
    <2>1. g # "absent"
      BY NotASub
    <2> QED
      BY <1>5, <1>9, <1>10, <1>19, <2>1 DEF Manned, OfSub
  <1>17. RefAt(b, conf', rt', loose')
    <2>1. b.pc \in {"done", "cascade"} /\ b.op = "remove"
      BY <1>1, <1>2, <1>3, <1>6, <1>8 DEF RuntimeDeleteOutbound, To, JobFields
    <2> QED
      BY <2>1 DEF RefAt
  <1>20. Refers(b, server', conf', rt', loose')
    <2>1. a.pc \notin {"cascade", "repoint"}
      BY <1>5
    <2>2. UNCHANGED server
      BY <1>5
    <2>3. Refers(b, server, conf', rt', loose')
      BY <1>3, <1>17, <1>18, <1>19, <2>1, RefersOn
    <2> QED
      BY <2>2, <2>3
  <1> QED
    BY <1>2, <1>20

LEMMA ReloadDeletesRefers ==
  ASSUME SubTypes, SubTypes', NEW j \in JobIds, SubStep(j), ReloadDeletes(j), Clean(j), Stands(jobs[j], conf, rt),
         Refers(jobs[j], server, conf, rt, loose)
  PROVE  Refers(jobs'[j], server', conf', rt', loose')
  <1>1. PICK a : a = jobs[j]
    OBVIOUS
  <1>2. PICK b : b = jobs'[j]
    OBVIOUS
  <1>3. /\ DOMAIN a = JobFields /\ DOMAIN jobs = JobIds /\ JobFit(j, a) /\ Stands(a, conf, rt) /\ OutMap(conf) /\ OutMap(rt)
        /\ server \in Refs /\ Refers(a, server, conf, rt, loose)
    BY <1>1, JobIn DEF SubTypes, World
  <1>4. Kept(a, b) /\ loose \subseteq loose'
    BY <1>1, <1>2, Moved, LooseGrows
  <1>5. UNCHANGED <<server, conf>> /\ a.pc = "apply" /\ UNCHANGED loose
    BY <1>1 DEF ReloadDeletes
  <1>6. a.op = "reload" /\ OneOwner(conf, rt)
    BY <1>1, <1>3, <1>5 DEF ReloadDeletes, Refers, RefAt, Running
  <1>7. PICK n \in a.todo : RuntimeDeleteOutbound(j, n, "apply")
    BY <1>1 DEF ReloadDeletes
  <1>8. RuntimeDeleteOutbound(j, n, "apply") /\ n \in OutNames
    BY <1>3, <1>7 DEF JobFit, JobRec
  <1>9. rt'[n] = NoNode /\ \A k \in OutNames \ {n} : rt'[k] = rt[k]
    BY <1>3, <1>7, <1>8 DEF OutMap, Maps, RuntimeDeleteOutbound
  <1>10. rt[n].sub # "absent" => b.pc = "cascade" /\ b.name = n /\ b.group = rt[n].sub
    <2>1. rt[n].sub # "absent" => rt[n] # NoNode
      BY OutNodes
    <2> QED
      BY <1>1, <1>2, <1>3, <1>8, <2>1 DEF RuntimeDeleteOutbound, To, JobFields
  <1>18. \A k \in OutNames : Backed(k, conf, rt, loose) => Backed(k, conf', rt', loose') \/ (b.pc = "cascade" /\ b.name = k)
    BY <1>5, <1>9, <1>10 DEF Backed
  <1>19. ASSUME NEW g \in Subs \cup {"manual"}, Manned(g, rt, loose)
         PROVE  Manned(g, rt', loose') \/ (b.pc = "cascade" /\ b.group = g)
    <2>1. g # "absent"
      BY NotASub
    <2> QED
      BY <1>5, <1>9, <1>10, <1>19, <2>1 DEF Manned, OfSub
  <1>17. RefAt(b, conf', rt', loose')
    <2>1. b.pc \in {"apply", "cascade"} /\ b.op = "reload"
      BY <1>1, <1>2, <1>3, <1>6, <1>8 DEF RuntimeDeleteOutbound, To, JobFields
    <2>2. OneOwner(conf', rt')
      BY <1>5, <1>6, <1>9, OutNodes DEF OneOwner
    <2> QED
      BY <2>1, <2>2 DEF RefAt
  <1>20. Refers(b, server', conf', rt', loose')
    <2>1. a.pc \notin {"cascade", "repoint"}
      BY <1>5
    <2>2. UNCHANGED server
      BY <1>5
    <2>3. Refers(b, server, conf', rt', loose')
      BY <1>3, <1>17, <1>18, <1>19, <2>1, RefersOn
    <2> QED
      BY <2>2, <2>3
  <1> QED
    BY <1>2, <1>20

LEMMA ReloadAppliesRefers ==
  ASSUME SubTypes, SubTypes', NEW j \in JobIds, SubStep(j), ReloadApplies(j), Clean(j), Stands(jobs[j], conf, rt),
         Refers(jobs[j], server, conf, rt, loose)
  PROVE  Refers(jobs'[j], server', conf', rt', loose')
  <1>1. PICK a : a = jobs[j]
    OBVIOUS
  <1>2. PICK b : b = jobs'[j]
    OBVIOUS
  <1>3. /\ DOMAIN a = JobFields /\ DOMAIN jobs = JobIds /\ JobFit(j, a) /\ Stands(a, conf, rt) /\ OutMap(conf) /\ OutMap(rt)
        /\ server \in Refs /\ Refers(a, server, conf, rt, loose)
    BY <1>1, JobIn DEF SubTypes, World
  <1>4. Kept(a, b) /\ loose \subseteq loose'
    BY <1>1, <1>2, Moved, LooseGrows
  <1>5. UNCHANGED <<server, conf>> /\ a.pc = "apply" /\ UNCHANGED loose
    BY <1>1 DEF ReloadApplies
  <1>6. a.op = "reload" /\ OneOwner(conf, rt) /\ Pending(a, conf, rt) /\ a.next # <<>>
    BY <1>1, <1>3, <1>5 DEF ReloadApplies, Refers, RefAt, Running, Stands
  <1>7. PICK x : x = Head(a.next)
    OBVIOUS
  <1>8. /\ x.name \in OutNames /\ x.node.sub # "absent" /\ conf[x.name].sub = x.node.sub
    <2>1. a.next \in Seq(SubItems) /\ \A i \in DOMAIN a.next : a.next[i].node.sub # "absent"
      BY <1>3, <1>6 DEF JobFit, JobRec, JobHolds
    <2>2. x \in SubItems /\ x = a.next[1] /\ 1 \in DOMAIN a.next
      BY <1>6, <1>7, <2>1, TailFit
    <2> QED
      BY <1>6, <2>1, <2>2 DEF SubItems, Pending, Like
  <1>9. \A n \in OutNames : rt'[n].sub = rt[n].sub \/ (n = x.name /\ rt'[n].sub = x.node.sub)
    <2>1. RuntimeUpdateOutbound(x.name, x.name, x.node) \/ RuntimeAddOutbound(x.name, x.node)
      BY <1>1, <1>7 DEF ReloadApplies
    <2>2. rt' = rt \/ rt' = Renamed(rt, x.name, x.name, x.node) \/ rt' = [rt EXCEPT ![x.name] = x.node]
      BY <2>1 DEF RuntimeUpdateOutbound, RuntimeAddOutbound
    <2> QED
      BY <1>3, <1>8, <2>2 DEF Renamed, OutMap, Maps
  <1>10. \A n \in OutNames : rt[n].sub # "absent" => rt'[n].sub = rt[n].sub
    BY <1>6, <1>8, <1>9 DEF OneOwner
  <1>11. b.pc = "apply" /\ b.op = "reload"
    BY <1>1, <1>2, <1>3, <1>5, <1>6 DEF ReloadApplies, To, JobFields
  <1>17. RefAt(b, conf', rt', loose')
    <2>2. OneOwner(conf', rt')
      BY <1>5, <1>6, <1>8, <1>9 DEF OneOwner
    <2> QED
      BY <1>11, <2>2 DEF RefAt
  <1>18. \A n \in OutNames : Backed(n, conf, rt, loose) => Backed(n, conf', rt', loose')
    BY <1>5, <1>10 DEF Backed
  <1>19. ASSUME NEW g \in Subs \cup {"manual"}, Manned(g, rt, loose) PROVE Manned(g, rt', loose')
    <2>1. g # "absent"
      BY NotASub
    <2> QED
      BY <1>5, <1>10, <1>19, <2>1 DEF Manned, OfSub
  <1>20. Refers(b, server', conf', rt', loose')
    <2>1. a.pc \notin {"cascade", "repoint"}
      BY <1>5
    <2>2. UNCHANGED server
      BY <1>5
    <2>3. Refers(b, server, conf', rt', loose')
      BY <1>3, <1>17, <1>18, <1>19, <2>1, RefersOn
    <2> QED
      BY <2>2, <2>3
  <1> QED
    BY <1>2, <1>20

LEMMA CascadeReadsRefers ==
  ASSUME SubTypes, SubTypes', NEW j \in JobIds, SubStep(j), CascadeReads(j), Clean(j), Stands(jobs[j], conf, rt),
         Refers(jobs[j], server, conf, rt, loose)
  PROVE  Refers(jobs'[j], server', conf', rt', loose')
  <1>1. PICK a : a = jobs[j]
    OBVIOUS
  <1>2. PICK b : b = jobs'[j]
    OBVIOUS
  <1>3. /\ DOMAIN a = JobFields /\ DOMAIN jobs = JobIds /\ JobFit(j, a) /\ Stands(a, conf, rt) /\ OutMap(conf) /\ OutMap(rt)
        /\ server \in Refs /\ Refers(a, server, conf, rt, loose)
    BY <1>1, JobIn DEF SubTypes, World
  <1>4. Kept(a, b) /\ loose \subseteq loose'
    BY <1>1, <1>2, Moved, LooseGrows
  <1>5. a.pc = "cascade" /\ UNCHANGED <<server, conf, rt, loose>> /\ a.op \in {"remove", "reload"}
    BY <1>1, <1>3 DEF CascadeReads, JobFit, RouteOK
  <1>6. PICK next : next = CascadeTarget(a.name, a.group)
    OBVIOUS
  <1>7. /\ b.op = a.op /\ b.name = a.name /\ b.ref = next
        /\ b.pc = IF next = server THEN (IF a.op = "reload" THEN "apply" ELSE "done") ELSE "repoint"
    BY <1>1, <1>2, <1>3, <1>6 DEF CascadeReads, To, JobFields
  <1>8. a.op = "reload" => OneOwner(conf, rt)
    BY <1>3, <1>5 DEF Refers, RefAt, Running
  <1>9. /\ server.names \subseteq OutNames /\ (server.kind = "group" => server.names = {})
        /\ (server.names # {} => server.kind = "nodes")
    BY <1>3, ServerShape
  <1>10. \A n \in server.names : n # a.name => Backed(n, conf, rt, loose)
    BY <1>3 DEF Refers
  <1>11. CASE next = server
    <2>1. a.name \notin server.names
      <3>1. SUFFICES ASSUME a.name \in server.names PROVE FALSE
        OBVIOUS
      <3>2. server.kind = "nodes"
        BY <1>9, <3>1
      <3>3. CASE server.names = {a.name}
        BY <1>6, <1>11, <3>1, <3>2, <3>3 DEF CascadeTarget, Direct
      <3>4. CASE server.names # {a.name}
        <4>1. next = [server EXCEPT !.names = @ \ {a.name}]
          BY <1>6, <3>1, <3>2, <3>4 DEF CascadeTarget
        <4>2. next.names = server.names \ {a.name}
          BY <1>3, <4>1 DEF Refs, Direct
        <4> QED
          BY <1>11, <3>1, <4>2
      <3> QED
        BY <3>3, <3>4
    <2>2. server.kind = "group" => Manned(server.group, rt, loose)
      <3>1. SUFFICES ASSUME server.kind = "group" PROVE Manned(server.group, rt, loose)
        OBVIOUS
      <3>2. Manned(server.group, rt, loose) \/ a.group = server.group
        BY <1>3, <1>5, <3>1 DEF Refers
      <3>3. a.group = server.group => OfSub(rt, server.group) # {}
        BY <1>6, <1>11, <3>1 DEF CascadeTarget, Direct
      <3> QED
        BY <3>2, <3>3 DEF Manned
    <2>3. RefAt(b, conf, rt, loose)
      BY <1>5, <1>7, <1>8, <1>11 DEF RefAt
    <2>4. Refers(b, server, conf, rt, loose)
      BY <1>10, <2>1, <2>2, <2>3 DEF Refers
    <2> QED
      BY <1>2, <1>5, <2>4
  <1>12. CASE next # server
    <2>1. next = Direct \/ (server.kind = "nodes" /\ next = [server EXCEPT !.names = @ \ {a.name}])
      BY <1>6, <1>12 DEF CascadeTarget
    <2>2. next.kind # "group" /\ \A n \in next.names : n \in server.names /\ n # a.name
      BY <1>3, <2>1, ServerShape DEF Refs, Direct
    <2>3. RefAt(b, conf, rt, loose)
      BY <1>5, <1>7, <1>8, <1>10, <1>12, <2>2 DEF RefAt
    <2>4. Refers(b, server, conf, rt, loose)
      BY <1>7, <1>10, <1>12, <2>3 DEF Refers
    <2> QED
      BY <1>2, <1>5, <2>4
  <1> QED
    BY <1>11, <1>12

LEMMA CascadeWritesRefers ==
  ASSUME SubTypes, SubTypes', NEW j \in JobIds, SubStep(j), CascadeWrites(j), Clean(j), Stands(jobs[j], conf, rt),
         Refers(jobs[j], server, conf, rt, loose)
  PROVE  Refers(jobs'[j], server', conf', rt', loose')
  <1>1. PICK a : a = jobs[j]
    OBVIOUS
  <1>2. PICK b : b = jobs'[j]
    OBVIOUS
  <1>3. /\ DOMAIN a = JobFields /\ DOMAIN jobs = JobIds /\ JobFit(j, a) /\ Stands(a, conf, rt) /\ OutMap(conf) /\ OutMap(rt)
        /\ server \in Refs /\ Refers(a, server, conf, rt, loose)
    BY <1>1, JobIn DEF SubTypes, World
  <1>4. Kept(a, b) /\ loose \subseteq loose'
    BY <1>1, <1>2, Moved, LooseGrows
  <1>5. a.pc = "repoint" /\ UNCHANGED <<conf, rt, loose>> /\ a.op \in {"remove", "reload"} /\ server' = a.ref
    BY <1>1, <1>3 DEF CascadeWrites, JobFit, RouteOK
  <1>7. b.op = a.op /\ b.pc = IF a.op = "reload" THEN "apply" ELSE "done"
    BY <1>1, <1>2, <1>3 DEF CascadeWrites, To, JobFields
  <1>8. a.op = "reload" => OneOwner(conf, rt)
    BY <1>3, <1>5 DEF Refers, RefAt, Running
  <1>9. a.ref.kind # "group" /\ \A n \in a.ref.names : Backed(n, conf, rt, loose)
    BY <1>3, <1>5 DEF Refers, RefAt
  <1>10. RefAt(b, conf, rt, loose)
    BY <1>5, <1>7, <1>8 DEF RefAt
  <1>11. Refers(b, server', conf', rt', loose')
    BY <1>5, <1>9, <1>10 DEF Refers
  <1> QED
    BY <1>2, <1>11

\* The request that moves leaves the references as they should be.
LEMMA RefersStep ==
  ASSUME SubTypes, SubTypes', NEW j \in JobIds, SubStep(j), Clean(j), Stands(jobs[j], conf, rt),
         Refers(jobs[j], server, conf, rt, loose), \A n \in OutNames : Like(file[n], conf[n])
  PROVE  Refers(jobs'[j], server', conf', rt', loose')
  <1>1. CASE jobs[j].pc \in Level
    BY <1>1, LevelRefers
  <1>2. CASE ApplyChange(j)
    BY <1>2, ApplyRenameRefers, ApplyBlockRefers DEF ApplyChange
  <1>3. CASE jobs[j].pc \notin Level /\ ServiceStep(j)
    <2>1. SyncNode(j) \/ DeleteOutboundNoCascade(j) \/ SyncDone(j)
      BY <1>3 DEF Level, ServiceStep, FetchContent, ReadExisting, ReadUsed,
         ReplaceSubscriptionOutbounds, NextSubscription,
         UpdatesDone, RecordResult
    <2> QED
      BY <2>1, SyncNodeRefers, NoCascadeRefers, SyncDoneRefers
  <1>4. CASE jobs[j].pc \notin Level /\ RequestStep(j)
    <2>1. \/ ApplyAdd(j) \/ ApplyChange(j) \/ ApplyRemove(j) \/ CascadeReads(j) \/ CascadeWrites(j) \/ ReloadProxyOutbounds(j)
      BY <1>4 DEF Level, RequestStep, BeginUpdate, CreateProxySubscription, UpdateProxySubscription,
         EditReads, EditWrites,
         DeleteProxySubscription, DeleteSubscription, CreateProxyOutbound, UpdateProxyOutbound, DeleteProxyOutbound,
         BlockReads, BlockWrites, PickNode, UpdateOutboundRuntime, LoadFile
    <2> QED
      BY <1>2, <2>1, ApplyAddRefers, ApplyRemoveRefers, CascadeReadsRefers, CascadeWritesRefers,
         ReadWantedRefers,
         ReadCurrentRefers, ReloadDeletesRefers, ReloadAppliesRefers, ReloadDoneRefers DEF ReloadProxyOutbounds
  <1>5. CASE jobs[j].pc \notin Level /\ j = Scheduler /\ (RunOnce \/ PersistAttempt)
    BY <1>5 DEF Level, RunOnce, PersistAttempt
  <1> QED
    BY <1>1, <1>3, <1>4, <1>5 DEF SubStep

\* So does one that is done in one step.
LEMMA InstantRefers ==
  ASSUME SubTypes, NEW j \in JobIds, SubStep(j), Clean(j), ~Running(jobs[j]), ~Running(jobs'[j]),
         NEW k \in JobIds, Refers(jobs[k], server, conf, rt, loose)
  PROVE  Refers(jobs[k], server', conf', rt', loose')
  <1>1. PICK r : r = jobs[k]
    OBVIOUS
  <1>2. Refers(r, server, conf, rt, loose) /\ JobFit(k, r) /\ server \in Refs /\ OutMap(conf)
    BY <1>1, JobIn DEF SubTypes, World
  <1>3. UNCHANGED rt /\ \A n \in OutNames : conf'[n].sub = conf[n].sub
    BY Instant DEF Like
  <1>4. loose \subseteq loose'
    BY LooseGrows
  <1>5. \A n \in OutNames : Backed(n, conf, rt, loose) => Backed(n, conf', rt', loose')
    BY <1>3, <1>4 DEF Backed
  <1>6. \A g : Manned(g, rt, loose) => Manned(g, rt', loose')
    BY <1>3, <1>4 DEF Manned
  <1>7. RefAt(r, conf', rt', loose')
    <2>1. r.pc = "repoint" => \A n \in r.ref.names : n \in OutNames
      BY <1>2, ServerShape DEF JobFit, JobRec
    <2>2. OneOwner(conf, rt) => OneOwner(conf', rt')
      BY <1>3 DEF OneOwner
    <2>3. RefAt(r, conf, rt, loose)
      BY <1>2 DEF Refers
    <2> QED
      BY <1>3, <1>4, <1>5, <2>1, <2>2, <2>3 DEF RefAt
  <1>8. jobs[j].pc = "ready"
    BY Turns DEF Running
  <1>9. CASE ~PickNode(j)
    <2>1. UNCHANGED server
      BY <1>8, <1>9, ServerFrame DEF CascadeWrites
    <2>2. server.names \subseteq OutNames
      BY <1>2, ServerShape
    <2>3. Refers(r, server, conf', rt', loose')
      BY <1>2, <1>5, <1>6, <1>7, <2>2 DEF Refers
    <2> QED
      BY <1>1, <2>1, <2>3
  <1>10. CASE PickNode(j)
    <2>1. PICK n : n = jobs[j].name
      OBVIOUS
    <2>2. server' = [kind |-> "nodes", names |-> {n}, group |-> Nothing] /\ conf[n] # NoNode /\ n \in OutNames
      BY <1>10, <2>1, JobIn DEF PickNode, JobFit, JobHolds, OfNode
    <2>3. Backed(n, conf', rt', loose')
      BY <1>2, <1>3, <2>2, NodeAbsent DEF Backed
    <2>4. Refers(r, server', conf', rt', loose')
      BY <1>7, <2>2, <2>3 DEF Refers
    <2> QED
      BY <1>1, <2>4
  <1> QED
    BY <1>9, <1>10

\* Referred is kept by the steps of the requests, and by the others.
LEMMA ReferredStep ==
  ASSUME SubTypes, SubTypes', Follow, Referred, NEW j \in JobIds, SubStep(j), AstrayStep
  PROVE  Referred'
  <1>1. SUFFICES ASSUME ~strayed'
        PROVE  /\ ~astray'
               /\ \A n \in OutNames : Like(file'[n], conf'[n])
               /\ \A i \in JobIds : (\A k \in JobIds \ {i} : ~Running(jobs'[k])) =>
                     Refers(jobs'[i], server', conf', rt', loose')
    BY DEF Referred, Alone
  <1>2. ~GoesAstray /\ ~strayed
    BY <1>1 DEF AstrayStep
  <1>3. /\ ~astray /\ \A n \in OutNames : Like(file[n], conf[n])
        /\ \A i \in JobIds : Alone(i) => Refers(jobs[i], server, conf, rt, loose)
    BY <1>2 DEF Referred
  <1>4. /\ \A i, k \in JobIds : Running(jobs[i]) /\ Running(jobs[k]) => i = k
        /\ \A i \in JobIds : Alone(i) => Stands(jobs[i], conf, rt)
    BY <1>3 DEF Follow
  <1>5. Clean(j) /\ \A i, k \in JobIds : Running(jobs'[i]) /\ Running(jobs'[k]) => i = k
    BY <1>2, Unstrayed
  <1>6. \A i \in JobIds \ {j} : jobs'[i] = jobs[i]
    BY Others
  <1>7. ~astray'
    BY <1>2, <1>3 DEF AstrayStep
  <1>8. \A n \in OutNames : Like(file'[n], conf'[n])
    BY <1>3, <1>5, FileLike
  <1>9. CASE Alone(j)
    <2>1. Refers(jobs'[j], server', conf', rt', loose')
      BY <1>3, <1>4, <1>5, <1>9, RefersStep
    <2>2. ASSUME NEW i \in JobIds \ {j}, \A k \in JobIds \ {i} : ~Running(jobs'[k])
          PROVE  Refers(jobs'[i], server', conf', rt', loose')
      <3>1. jobs'[j].pc \in {"ready", "done"} /\ jobs'[i].pc \in {"ready", "done"}
        BY <1>6, <1>9, <2>2 DEF Alone, Running
      <3> QED
        BY <2>1, <3>1 DEF Refers, RefAt, Running
    <2> QED
      BY <1>7, <1>8, <2>1, <2>2
  <1>10. CASE ~Alone(j)
    <2>1. PICK k \in JobIds \ {j} : Running(jobs[k])
      BY <1>10 DEF Alone
    <2>2. Running(jobs'[k]) /\ ~Running(jobs[j]) /\ ~Running(jobs'[j]) /\ Alone(k)
      BY <1>4, <1>5, <1>6, <2>1 DEF Alone
    <2>3. Refers(jobs[k], server', conf', rt', loose')
      BY <1>3, <1>5, <2>2, InstantRefers
    <2>4. Refers(jobs'[k], server', conf', rt', loose')
      BY <1>6, <2>1, <2>3
    <2> QED
      BY <1>5, <1>7, <1>8, <2>2, <2>4
  <1> QED
    BY <1>9, <1>10

LEMMA ReferredStill ==
  ASSUME Referred, UNCHANGED <<conf, file, rt, server, jobs, loose>>, AstrayStep \/ UNCHANGED <<astray, strayed>>
  PROVE  Referred'
  <1>1. ~strayed' => ~strayed /\ (~astray => ~astray')
    BY DEF AstrayStep
  <1> QED
    BY <1>1 DEF Referred, Alone

-----------------------------------------------------------------------------
(* Undisturbed, and what an update does to the nodes.                      *)

\* Only these two steps come to a place at which an update prepares its nodes.
LEMMA Prepares ==
  ASSUME SubTypes, NEW j \in JobIds, SubStep(j), Preparing(jobs'[j])
  PROVE  ReadExisting(j) \/ ReadUsed(j)
  <1>0. DOMAIN jobs[j] = JobFields /\ DOMAIN jobs = JobIds
    BY JobIn DEF SubTypes
  <1>1. CASE FetchContent(j)
    BY <1>0, <1>1 DEF FetchContent, To, Goto, Fails, End, JobFields, Preparing
  <1>2. CASE ReadExisting(j)
    BY <1>0, <1>2 DEF ReadExisting, To, Goto, Fails, End, JobFields, Preparing
  <1>3. CASE ReadUsed(j)
    BY <1>0, <1>3 DEF ReadUsed, To, Goto, Fails, End, JobFields, Preparing
  <1>4. CASE ReplaceSubscriptionOutbounds(j)
    BY <1>0, <1>4 DEF ReplaceSubscriptionOutbounds, To, Goto, Fails, End, JobFields, Preparing,
       AfterService
  <1>5. CASE SyncNode(j)
    BY <1>0, <1>5 DEF SyncNode, To, Goto, Fails, End, JobFields, Preparing
  <1>6. CASE DeleteOutboundNoCascade(j)
    BY <1>0, <1>6 DEF DeleteOutboundNoCascade, To, Goto, Fails, End, JobFields, Preparing
  <1>7. CASE SyncDone(j)
    BY <1>0, <1>7 DEF SyncDone, To, Goto, Fails, End, JobFields, Preparing, AfterService
  <1>8. CASE NextSubscription(j)
    BY <1>0, <1>8 DEF NextSubscription, To, Goto, Fails, End, JobFields, Preparing
  <1>9. CASE UpdatesDone(j)
    BY <1>0, <1>9 DEF UpdatesDone, To, Goto, Fails, End, JobFields, Preparing
  <1>10. CASE RecordResult(j)
    BY <1>0, <1>10 DEF RecordResult, To, Goto, Fails, End, JobFields, Preparing
  <1>11. CASE BeginUpdate(j)
    BY <1>0, <1>11 DEF BeginUpdate, To, Goto, Fails, End, JobFields, Preparing
  <1>12. CASE CreateProxySubscription(j)
    BY <1>0, <1>12 DEF CreateProxySubscription, To, Goto, Fails, End, JobFields, Preparing
  <1>13. CASE EditReads(j)
    BY <1>0, <1>13 DEF EditReads, To, Goto, Fails, End, JobFields, Preparing
  <1>14. CASE EditWrites(j)
    BY <1>0, <1>14 DEF EditWrites, To, Goto, Fails, End, JobFields, Preparing
  <1>15. CASE DeleteProxySubscription(j)
    BY <1>0, <1>15 DEF DeleteProxySubscription, To, Goto, Fails, End, JobFields, Preparing
  <1>16. CASE DeleteSubscription(j)
    BY <1>0, <1>16 DEF DeleteSubscription, To, Goto, Fails, End, JobFields, Preparing
  <1>17. CASE CreateProxyOutbound(j)
    BY <1>0, <1>17 DEF CreateProxyOutbound, To, Goto, Fails, End, JobFields, Preparing
  <1>18. CASE UpdateProxyOutbound(j)
    BY <1>0, <1>18 DEF UpdateProxyOutbound, To, Goto, Fails, End, JobFields, Preparing
  <1>19. CASE DeleteProxyOutbound(j)
    BY <1>0, <1>19 DEF DeleteProxyOutbound, To, Goto, Fails, End, JobFields, Preparing
  <1>20. CASE BlockReads(j)
    BY <1>0, <1>20 DEF BlockReads, To, Goto, Fails, End, JobFields, Preparing
  <1>21. CASE BlockWrites(j)
    BY <1>0, <1>21 DEF BlockWrites, To, Goto, Fails, End, JobFields, Preparing
  <1>22. CASE ApplyAdd(j)
    BY <1>0, <1>22 DEF ApplyAdd, To, Goto, Fails, End, JobFields, Preparing
  <1>23. CASE ApplyChange(j)
    BY <1>0, <1>23 DEF ApplyChange, To, Goto, Fails, End, JobFields, Preparing
  <1>24. CASE ApplyRemove(j)
    BY <1>0, <1>24 DEF ApplyRemove, To, Goto, Fails, End, JobFields, Preparing, RuntimeDeleteOutbound
  <1>25. CASE CascadeReads(j)
    BY <1>0, <1>25 DEF CascadeReads, To, Goto, Fails, End, JobFields, Preparing
  <1>26. CASE CascadeWrites(j)
    BY <1>0, <1>26 DEF CascadeWrites, To, Goto, Fails, End, JobFields, Preparing
  <1>27. CASE PickNode(j)
    BY <1>0, <1>27 DEF PickNode, To, Goto, Fails, End, JobFields, Preparing
  <1>28. CASE UpdateOutboundRuntime(j)
    BY <1>0, <1>28 DEF UpdateOutboundRuntime, To, Goto, Fails, End, JobFields, Preparing
  <1>29. CASE LoadFile(j)
    BY <1>0, <1>29 DEF LoadFile, To, Goto, Fails, End, JobFields, Preparing
  <1>30. CASE ReadWanted(j)
    BY <1>0, <1>30 DEF ReadWanted, To, Goto, Fails, End, JobFields, Preparing
  <1>31. CASE ReadCurrent(j)
    BY <1>0, <1>31 DEF ReadCurrent, To, Goto, Fails, End, JobFields, Preparing
  <1>32. CASE ReloadDeletes(j)
    BY <1>0, <1>32 DEF ReloadDeletes, To, Goto, Fails, End, JobFields, Preparing, RuntimeDeleteOutbound
  <1>33. CASE ReloadApplies(j)
    BY <1>0, <1>33 DEF ReloadApplies, To, Goto, Fails, End, JobFields, Preparing
  <1>34. CASE ReloadDone(j)
    BY <1>0, <1>34 DEF ReloadDone, To, Goto, Fails, End, JobFields, Preparing
  <1>35. CASE j = Scheduler /\ RunOnce
    BY <1>0, <1>35 DEF RunOnce, To, Goto, Fails, End, JobFields, Preparing
  <1>36. CASE j = Scheduler /\ PersistAttempt
    BY <1>0, <1>36 DEF PersistAttempt, To, Goto, Fails, End, JobFields, Preparing
  <1> QED
    BY <1>1, <1>2, <1>3, <1>4, <1>5, <1>6, <1>7, <1>8, <1>9, <1>10, <1>11, <1>12, <1>13, <1>14, <1>15,
       <1>16, <1>17, <1>18, <1>19, <1>20, <1>21, <1>22, <1>23, <1>24, <1>25, <1>26, <1>27, <1>28, <1>29,
       <1>30, <1>31, <1>32, <1>33, <1>34, <1>35, <1>36
       DEF SubStep, ServiceStep, RequestStep, UpdateProxySubscription, ReloadProxyOutbounds

\* Undisturbed is kept by the steps of the requests, and by the others.
LEMMA UndisturbedStep ==
  ASSUME SubTypes, SubTypes', Undisturbed, NEW j \in JobIds, SubStep(j), DisturbedStep
  PROVE  Undisturbed'
  <1>1. SUFFICES ASSUME NEW i \in JobIds, i \notin disturbed', Preparing(jobs'[i])
        PROVE  /\ jobs'[i].existing = AsItems(conf', OfSub(conf', jobs'[i].sid))
               /\ jobs'[i].pc = "replace" => Faithful(jobs'[i].next, jobs'[i].existing)
    BY DEF Undisturbed
  <1>2. /\ i \notin disturbed
        /\ Preparing(jobs[i]) => AsItems(conf', OfSub(conf', jobs[i].sid)) = AsItems(conf, OfSub(conf, jobs[i].sid))
    BY <1>1 DEF DisturbedStep
  <1>3. CASE i # j
    <2>1. jobs'[i] = jobs[i]
      BY <1>3, Others
    <2> QED
      BY <1>1, <1>2, <2>1 DEF Undisturbed
  <1>4. CASE i = j /\ ReadExisting(j)
    <2>1. PICK a : a = jobs[j]
      OBVIOUS
    <2>2. PICK b : b = jobs'[j]
      OBVIOUS
    <2>3. DOMAIN a = JobFields /\ DOMAIN jobs = JobIds /\ JobFit(j, a) /\ UNCHANGED conf /\ a.pc = "existing"
      BY <1>4, <2>1, JobIn DEF SubTypes, ReadExisting
    <2>4. b.existing = AsItems(conf, OfSub(conf, a.sid)) /\ b.sid = a.sid /\ b.next = a.next /\ (b.pc = "replace" => a.op = "delete")
      BY <1>4, <2>1, <2>2, <2>3 DEF ReadExisting, To, JobFields
    <2>5. b.pc = "replace" => b.next = <<>>
      BY <2>3, <2>4 DEF JobFit, JobHolds
    <2>6. b.pc = "replace" => Faithful(b.next, b.existing)
      BY <2>5 DEF Faithful
    <2> QED
      BY <1>4, <2>2, <2>3, <2>4, <2>6
  <1>5. CASE i = j /\ ReadUsed(j)
    <2>1. PICK a : a = jobs[j]
      OBVIOUS
    <2>2. PICK b : b = jobs'[j]
      OBVIOUS
    <2>3. DOMAIN a = JobFields /\ DOMAIN jobs = JobIds /\ JobFit(j, a) /\ UNCHANGED conf /\ a.pc = "used" /\ OutMap(conf)
      BY <1>5, <2>1, JobIn DEF SubTypes, ReadUsed, World
    <2>4. PICK s : s = a.sid
      OBVIOUS
    <2>5. PICK e : e = a.existing
      OBVIOUS
    <2>6. PICK c : c = a.content
      OBVIOUS
    <2>7. PICK used : used = NamesOf(conf) \ OfSub(conf, s)
      OBVIOUS
    <2>8. b.existing = e /\ b.sid = s /\ b.next = Prepare(s, c, e, used)
      BY <1>5, <2>1, <2>2, <2>3, <2>4, <2>5, <2>6, <2>7 DEF ReadUsed, To, JobFields
    <2>9. e = AsItems(conf, OfSub(conf, s))
      BY <1>2, <1>5, <2>1, <2>3, <2>4, <2>5 DEF Undisturbed, Preparing
    <2>10. ItemNames(e) = OfSub(conf, s) /\ \A x, y \in e : x.name = y.name => x = y
      <3>1. OfSub(conf, s) \in SUBSET OutNames
        BY DEF OfSub
      <3> QED
        BY <2>3, <2>9, <3>1, ItemsFit
    <2>11. Given(s, c, e)
      BY <2>3, <2>4, <2>5, <2>6 DEF Given, JobFit, JobRec, RouteOK, JobHolds, Serving, BodyEntry
    <2>12. (\A x, y \in e : x.name = y.name => x = y) /\ ItemNames(e) \cap used = {}
      BY <2>7, <2>10
    <2>13. Faithful(Prepare(s, c, e, used), e)
      BY <2>11, <2>12, PrepareSound, Zenon
    <2> QED
      BY <1>5, <2>2, <2>3, <2>8, <2>9, <2>13
  <1> QED
    BY <1>1, <1>3, <1>4, <1>5, Prepares

LEMMA UndisturbedStill ==
  ASSUME Undisturbed, UNCHANGED <<conf, jobs>>, DisturbedStep \/ UNCHANGED disturbed
  PROVE  Undisturbed'
  <1>1. \A i \in JobIds : Preparing(jobs[i]) /\ i \notin disturbed' => i \notin disturbed
    BY DEF DisturbedStep
  <1> QED
    BY <1>1 DEF Undisturbed

\* The step that replaces the nodes: when it changes the configuration it has looked at the names.
LEMMA ReplaceTurn ==
  ASSUME SubTypes, NEW j \in JobIds, ReplaceSubscriptionOutbounds(j), UNCHANGED conf => FALSE
  PROVE  /\ ReplaceChecks(jobs[j].sid, jobs[j].next) /\ conf' = Replaced(jobs[j].sid, jobs[j].next)
  BY DEF ReplaceSubscriptionOutbounds, SaveWorks, SaveFails

LEMMA ReplaceMeans ==
  ASSUME SubTypes, NEW j \in JobIds, jobs[j].pc = "replace",
         ReplaceChecks(jobs[j].sid, jobs[j].next), conf' = Replaced(jobs[j].sid, jobs[j].next)
  PROVE  /\ jobs[j].sid \in Subs
         /\ \A i \in DOMAIN jobs[j].next : conf'[jobs[j].next[i].name] = jobs[j].next[i].node /\ jobs[j].next[i].name \in OutNames
                                           /\ jobs[j].next[i].node.sub = jobs[j].sid
         /\ \A n \in OutNames : conf[n].sub \notin {jobs[j].sid, "absent"} => conf'[n] = conf[n]
         /\ \A n \in OutNames \ NodeNames(jobs[j].next) : conf'[n].sub # jobs[j].sid
  <1>1. PICK s : s = jobs[j].sid
    OBVIOUS
  <1>2. PICK next : next = jobs[j].next
    OBVIOUS
  <1>3. /\ OutMap(conf) /\ s \in Subs /\ next \in Seq(SubItems) /\ \A i \in DOMAIN next : next[i].node.sub = s
        /\ \A i, k \in DOMAIN next : next[i].name = next[k].name => i = k
    BY <1>1, <1>2, JobIn DEF JobFit, JobHolds, JobRec, Serving, World, SubTypes
  <1>4. conf' = Replaced(s, next) /\ ReplaceChecks(s, next)
    BY <1>1, <1>2
  <1>5. /\ \A i \in DOMAIN next : conf'[next[i].name] = next[i].node
        /\ \A n \in OutNames \ NodeNames(next) : conf'[n] = IF conf[n].sub = s THEN NoNode ELSE conf[n]
    BY <1>3, <1>4, ReplacedIs
  <1>6. \A i \in DOMAIN next : next[i].name \in OutNames
    BY <1>3, ItemNamed, Zenon
  <1>7. \A n \in NodeNames(next) : conf[n].sub \in {s, "absent"}
    BY <1>4 DEF ReplaceChecks, NodeNames
  <1>8. \A n \in OutNames : conf[n].sub \notin {s, "absent"} => conf'[n] = conf[n]
    BY <1>5, <1>7
  <1>9. \A n \in OutNames \ NodeNames(next) : conf'[n].sub # s
    <2>1. s # "absent" /\ NoNode.sub = "absent"
      BY <1>3, NotASub, OutNodes
    <2> QED
      BY <1>5, <2>1
  <1> QED
    BY <1>1, <1>2, <1>3, <1>5, <1>6, <1>8, <1>9

\* It leaves every outbound of others alone.
LEMMA ForeignStep ==
  ASSUME SubTypes, NEW j \in JobIds, ReplaceSubscriptionOutbounds(j), NEW n \in OutNames, conf[n] # NoNode, conf[n].sub # jobs[j].sid
  PROVE  conf'[n] = conf[n]
  <1>1. CASE UNCHANGED conf
    BY <1>1
  <1>2. CASE ~UNCHANGED conf
    <2>1. jobs[j].pc = "replace" /\ ReplaceChecks(jobs[j].sid, jobs[j].next) /\ conf' = Replaced(jobs[j].sid, jobs[j].next)
      BY <1>2, ReplaceTurn DEF ReplaceSubscriptionOutbounds
    <2>2. conf[n].sub \notin {jobs[j].sid, "absent"}
      BY NodeAbsent DEF SubTypes, World
    <2> QED
      BY <2>1, <2>2, ReplaceMeans
  <1> QED
    BY <1>1, <1>2

\* It keeps the name and the test results of a node that is in the body again.
LEMMA IdentityStep ==
  ASSUME SubTypes, Undisturbed, NEW j \in JobIds, ReplaceSubscriptionOutbounds(j), j \notin disturbed, jobs'[j].pc = "sync",
         NEW n \in OfSub(conf, jobs[j].sid), NEW m \in OfSub(conf', jobs[j].sid), conf[n].key = conf'[m].key,
         \A k \in OfSub(conf, jobs[j].sid) : conf[k].key = conf[n].key => k = n
  PROVE  m = n /\ conf'[m].tested = conf[n].tested
  <1>1. PICK a : a = jobs[j]
    OBVIOUS
  <1>2. a.pc = "replace" /\ DOMAIN a = JobFields /\ DOMAIN jobs = JobIds /\ OutMap(conf)
    BY <1>1, JobIn DEF ReplaceSubscriptionOutbounds, SubTypes, World
  <1>3. ReplaceChecks(a.sid, a.next) /\ conf' = Replaced(a.sid, a.next)
    BY <1>1, <1>2 DEF ReplaceSubscriptionOutbounds, Fails, To, AfterService, JobFields, SaveWorks
  <1>4. /\ \A i \in DOMAIN a.next : conf'[a.next[i].name] = a.next[i].node
        /\ \A k \in OutNames \ NodeNames(a.next) : conf'[k].sub # a.sid
    BY <1>1, <1>2, <1>3, ReplaceMeans
  <1>5. PICK i \in DOMAIN a.next : m = a.next[i].name
    BY <1>1, <1>4 DEF OfSub, NodeNames
  <1>6. a.existing = AsItems(conf, OfSub(conf, a.sid)) /\ Faithful(a.next, a.existing)
    BY <1>1, <1>2 DEF Undisturbed, Preparing
  <1>7. PICK x : x = [name |-> n, node |-> conf[n]]
    OBVIOUS
  <1>8. x \in a.existing /\ x.name = n /\ x.node = conf[n]
    BY <1>1, <1>6, <1>7 DEF AsItems
  <1>9. ASSUME NEW y \in a.existing, y.node.key = x.node.key PROVE y = x
    <2>1. PICK k \in OfSub(conf, a.sid) : y = [name |-> k, node |-> conf[k]]
      BY <1>6 DEF AsItems
    <2>2. k = n
      BY <1>1, <1>8, <1>9, <2>1
    <2> QED
      BY <1>7, <2>1, <2>2
  <1>10. a.next[i].node.key = x.node.key
    BY <1>4, <1>5, <1>8
  <1>11. a.next[i].name = x.name /\ a.next[i].node.tested = x.node.tested
    BY <1>6, <1>8, <1>9, <1>10 DEF Faithful
  <1> QED
    BY <1>4, <1>5, <1>8, <1>11

\* The step that takes the last node of a subscription is one of those NeverEmptied names.
LEMMA EmptiedStep ==
  ASSUME SubTypes, NEW j \in JobIds, SubStep(j), NEW s \in Subs, OfSub(conf, s) # {}, OfSub(conf', s) = {}
  PROVE  /\ jobs[j] # jobs'[j]
         /\ \/ jobs[j].op \in {"delete", "remove", "change", "reload"}
            \/ jobs[j].op = "block" /\ jobs[j].node.sub # conf[jobs[j].name].sub
  <1>1. PICK a : a = jobs[j]
    OBVIOUS
  <1>2. PICK b : b = jobs'[j]
    OBVIOUS
  <1>3. DOMAIN a = JobFields /\ DOMAIN jobs = JobIds /\ JobFit(j, a) /\ OutMap(conf)
    BY <1>1, JobIn DEF SubTypes, World
  <1>4. PICK n \in OutNames : conf[n].sub = s
    BY DEF OfSub
  <1>5. \A k \in OutNames : conf'[k].sub # s
    BY DEF OfSub
  <1>6. ~UNCHANGED conf /\ s # "absent" /\ s # "manual"
    BY <1>4, <1>5, NotASub
  <1>10. CASE ReplaceSubscriptionOutbounds(j)
    <2>1. a.pc = "replace" /\ ReplaceChecks(a.sid, a.next) /\ conf' = Replaced(a.sid, a.next)
      BY <1>1, <1>6, <1>10, ReplaceTurn DEF ReplaceSubscriptionOutbounds
    <2>2. /\ \A i \in DOMAIN a.next : conf'[a.next[i].name] = a.next[i].node /\ a.next[i].name \in OutNames /\ a.next[i].node.sub = a.sid
          /\ \A k \in OutNames : conf[k].sub \notin {a.sid, "absent"} => conf'[k] = conf[k]
      BY <1>1, <2>1, ReplaceMeans
    <2>3. a.sid = s
      BY <1>4, <1>5, <1>6, <2>2
    <2>4. a.op = "delete"
      <3>1. SUFFICES ASSUME a.op # "delete" PROVE FALSE
        OBVIOUS
      <3>2. a.next # <<>> /\ a.next \in Seq(SubItems)
        BY <1>3, <2>1, <3>1 DEF JobFit, JobRec, JobHolds, RouteOK
      <3>3. 1 \in DOMAIN a.next
        BY <3>2, TailFit
      <3> QED
        BY <1>5, <2>2, <2>3, <3>3
    <2>5. b.pc # "replace"
      BY <1>1, <1>2, <1>3, <1>10, <2>4 DEF ReplaceSubscriptionOutbounds, Fails, To, AfterService,
         JobFields
    <2> QED
      BY <1>1, <1>2, <2>1, <2>4, <2>5
  <1>11. CASE CreateProxyOutbound(j)
    <2>1. conf[a.name] = NoNode /\ conf' = [conf EXCEPT ![a.name] = Manual("typed")]
      BY <1>1, <1>6, <1>11 DEF CreateProxyOutbound, SaveWorks, SaveFails
    <2>2. n # a.name
      BY <1>4, <1>6, <2>1, OutNodes
    <2> QED
      BY <1>3, <1>4, <1>5, <2>1, <2>2 DEF OutMap, Maps
  <1>12. CASE UpdateProxyOutbound(j)
    BY <1>1, <1>2, <1>3, <1>12 DEF UpdateProxyOutbound, Goto, To, JobFields
  <1>13. CASE DeleteProxyOutbound(j)
    BY <1>1, <1>2, <1>3, <1>13 DEF DeleteProxyOutbound, Goto, To, JobFields
  <1>14. CASE BlockWrites(j)
    <2>1. a.op = "block" /\ a.pc = "write" /\ conf' = [conf EXCEPT ![a.name] = a.node] /\ a.name \in OutNames
      BY <1>1, <1>3, <1>6, <1>14 DEF BlockWrites, SaveWorks, SaveFails, JobFit, JobHolds, OfNode
    <2>2. a.node.sub # conf[a.name].sub
      BY <1>3, <1>4, <1>5, <2>1 DEF OutMap, Maps
    <2>3. b.pc # "write"
      BY <1>1, <1>2, <1>3, <1>14 DEF BlockWrites, Goto, To, JobFields
    <2> QED
      BY <1>1, <1>2, <2>1, <2>2, <2>3
  <1>15. CASE UpdateOutboundRuntime(j)
    BY <1>4, <1>5, <1>15, TestedLike DEF Like
  <1>16. CASE LoadFile(j)
    BY <1>1, <1>2, <1>3, <1>16 DEF LoadFile, Goto, To, JobFields
  <1> QED
    BY <1>6, <1>10, <1>11, <1>12, <1>13, <1>14, <1>15, <1>16, ConfFrame

\* What the initial jobs have.
-----------------------------------------------------------------------------
(* The initial states, and the theorems.                                   *)

\* A request that has not begun, or is over.
AtRest(j, r) ==
    /\ JobRec(r) /\ r.pc \in {"ready", "done"} /\ r.next = <<>> /\ r.queue = <<>>
    /\ r.op \in OfEntry => r.sid \in Subs /\ r.to \in Subs
    /\ r.op \in OfNode => r.name \in OutNames
    /\ r.op = "change" => r.as \in OutNames
    /\ j = Scheduler <=> r.op = "auto"

\* The same, as the plans give it: the fields a plan does not give are empty.
Unstarted(r) ==
    /\ r.op \in Operations /\ r.pc \in {"ready", "done"} /\ r.mode \in Modes
    /\ r.sid \in Subs \cup {Nothing} /\ r.to \in Subs \cup {Nothing}
    /\ r.name \in OutNames \cup {NoName} /\ r.as \in OutNames \cup {NoName}
    /\ DOMAIN r = JobFields
    /\ r.copy = NoSub /\ r.queue = <<>> /\ r.content = <<>> /\ r.existing = {} /\ r.next = <<>>
    /\ r.todo = {} /\ r.err = FALSE /\ r.at = 0 /\ r.node = NoNode /\ r.ref = Direct

\* Idle is such a record.
LEMMA IdleIs ==
  /\ DOMAIN Idle = JobFields
  /\ Idle.sid = Nothing /\ Idle.to = Nothing /\ Idle.mode = "off" /\ Idle.name = NoName /\ Idle.as = NoName
  /\ Idle.copy = NoSub /\ Idle.queue = <<>> /\ Idle.content = <<>> /\ Idle.existing = {}
  /\ Idle.next = <<>> /\ Idle.todo = {} /\ Idle.err = FALSE /\ Idle.at = 0 /\ Idle.node = NoNode
  /\ Idle.ref = Direct
  <1>1. DOMAIN Idle = JobFields
    BY DEF Idle, JobFields
  <1> QED
    BY <1>1 DEF Idle

\* A request of a plan is at rest, and fits.
LEMMA IdleRec ==
  ASSUME NEW r, Unstarted(r)
  PROVE  JobRec(r) /\ r.next = <<>> /\ r.queue = <<>>
  <1>1. NoSub \in SubEntries /\ NoNode \in Nodes /\ Direct \in Refs
    BY OutNodes
  <1>2. 0 \in 0 .. MaxTime
    BY SubConstants
  <1>3. <<>> \in Seq(Queued) /\ <<>> \in Seq([key : Keys, base : Bases]) /\ <<>> \in Seq(SubItems)
    OBVIOUS
  <1>4. r.pc \in SubPcs
    BY DEF SubPcs, Unstarted
  <1> QED
    BY <1>1, <1>2, <1>3, <1>4 DEF JobRec, Unstarted

LEMMA AtRestFit ==
  ASSUME NEW j, NEW r, AtRest(j, r) PROVE JobFit(j, r)
  <1>1. RouteOK(r)
    BY DEF AtRest, RouteOK
  <1>2. DOMAIN r.next = {} /\ DOMAIN r.queue = {}
    BY DEF AtRest
  <1>3. JobHolds(r)
    BY <1>2 DEF AtRest, JobHolds, Serving, Upd, OfEntry
  <1> QED
    BY <1>1, <1>3 DEF AtRest, JobFit

\* The initial states.
LEMMA Starts ==
  ASSUME SubInit
  PROVE  /\ World /\ GhostsFit /\ DOMAIN jobs = JobIds /\ \A j \in JobIds : AtRest(j, jobs[j])
         /\ file = conf /\ rt = conf /\ ~astray /\ ~strayed
         /\ \A n \in OutNames : conf[n].sub \in Subs => subs[conf[n].sub] # NoSub
         /\ server.names \subseteq NamesOf(conf)
         /\ server.kind = "group" => OfSub(conf, server.group) # {}
  <1>1. PICK p \in Plans :
          /\ subs = p.subs
          /\ conf = p.conf /\ file = p.conf /\ rt = p.conf
          /\ server = p.server
          /\ jobs = [j \in JobIds |-> IF j = Scheduler THEN [Idle EXCEPT !.op = "auto", !.pc = p.auto]
                                      ELSE p.jobs[j]]
          /\ now = p.now
          /\ faults = p.faults
          /\ astray = FALSE /\ strayed = FALSE
    BY DEF SubInit
  <1>2. PlanOK(p)
    BY SubConstants
  <1>3. World
    BY <1>1, <1>2 DEF World, PlanOK, OutMap, EntriesFit
  <1>4. GhostsFit
    BY <1>1 DEF GhostsFit
  <1>5. ASSUME NEW j \in JobIds PROVE AtRest(j, jobs[j])
    <2>1. CASE j = Scheduler
      <3>1. jobs[j] = [Idle EXCEPT !.op = "auto", !.pc = p.auto]
        BY <1>1, <2>1
      <3>2. p.auto \in {"ready", "done"} /\ "auto" \in Operations /\ "off" \in Modes
        BY <1>2 DEF PlanOK, Operations, Modes
      <3>3. Unstarted(jobs[j]) /\ jobs[j].op = "auto"
        BY <3>1, <3>2, IdleIs DEF Unstarted, JobFields
      <3>4. JobRec(jobs[j]) /\ jobs[j].next = <<>> /\ jobs[j].queue = <<>>
        BY <3>3, IdleRec
      <3> QED
        BY <2>1, <3>3, <3>4 DEF AtRest, OfEntry, OfNode, Unstarted
    <2>2. CASE j # Scheduler
      <3> DEFINE r == p.jobs[j]
      <3>1. jobs[j] = r /\ j \in Handlers
        BY <1>1, <2>2 DEF JobIds
      <3>2. RequestOK(r)
        BY <1>2, <3>1 DEF PlanOK
      <3>3. Unstarted(r) /\ r.op # "auto"
        <4>1. PICK op, pc, sid, to, mode, name, as :
                /\ op = r.op /\ pc = r.pc /\ sid = r.sid /\ to = r.to /\ mode = r.mode /\ name = r.name /\ as = r.as
          OBVIOUS
        <4>2. r = [Idle EXCEPT !.op = op, !.pc = pc, !.sid = sid, !.to = to, !.mode = mode, !.name = name, !.as = as]
          BY <3>2, <4>1 DEF RequestOK
        <4>3. /\ DOMAIN r = JobFields
              /\ r.copy = NoSub /\ r.queue = <<>> /\ r.content = <<>> /\ r.existing = {} /\ r.next = <<>>
              /\ r.todo = {} /\ r.err = FALSE /\ r.at = 0 /\ r.node = NoNode /\ r.ref = Direct
          BY ONLY <4>2, IdleIs DEF JobFields
        <4> QED
          BY <3>2, <4>3 DEF RequestOK, Unstarted
      <3>4. JobRec(r) /\ r.next = <<>> /\ r.queue = <<>>
        BY <3>3, IdleRec
      <3>5. AtRest(j, r)
        BY <2>2, <3>2, <3>3, <3>4 DEF AtRest, RequestOK
      <3> QED
        BY <3>1, <3>5
    <2> QED
      BY <2>1, <2>2
  <1>6. DOMAIN jobs = JobIds
    BY <1>1
  <1>7. /\ \A n \in OutNames : conf[n].sub \in Subs => subs[conf[n].sub] # NoSub
        /\ server.names \subseteq NamesOf(conf)
        /\ server.kind = "group" => OfSub(conf, server.group) # {}
    BY <1>1, <1>2 DEF PlanOK
  <1> QED
    BY <1>1, <1>3, <1>4, <1>5, <1>6, <1>7

\* The inductive invariant.
SubInvariant == SubTypes /\ Orphans /\ Follow /\ Referred /\ Undisturbed

\* It holds at first, every step keeps it, and it gives SubsInv.
LEMMA SubBegins == ASSUME SubInit PROVE SubInvariant
  <1> USE Starts
  <1>1. SubTypes
    BY AtRestFit DEF SubTypes
  <1>2. ASSUME NEW j \in JobIds PROVE ~Running(jobs[j]) /\ jobs[j].pc \in {"ready", "done"}
    BY DEF AtRest, Running
  <1>3. Orphans
    BY <1>2 DEF Orphans, NodesOf, OfSub, Updates, Deletes
  <1>4. Follow
    <2>1. ASSUME NEW j \in JobIds PROVE Stands(jobs[j], conf, rt)
      BY <1>2 DEF Stands, AllLike, Like, Preparing
    <2> QED
      BY <1>2, <2>1 DEF Follow
  <1>5. Referred
    <2>1. ASSUME NEW j \in JobIds PROVE Refers(jobs[j], server, conf, rt, loose)
      <3>1. RefAt(jobs[j], conf, rt, loose)
        BY <1>2 DEF RefAt
      <3>2. ASSUME NEW n \in server.names PROVE Backed(n, conf, rt, loose)
        BY DEF NamesOf, World, OutMap, Backed
      <3>3. server.kind = "group" => Manned(server.group, rt, loose)
        BY DEF Manned
      <3> QED
        BY <3>1, <3>2, <3>3 DEF Refers
    <2> QED
      BY <2>1 DEF Referred, Like
  <1>6. Undisturbed
    BY <1>2 DEF Undisturbed, Preparing
  <1> QED
    BY <1>1, <1>3, <1>4, <1>5, <1>6 DEF SubInvariant

LEMMA SubKept == ASSUME SubInvariant, [SubNext]_subVars PROVE SubInvariant'
  <1>1. SubTypes'
    BY NextFit DEF SubInvariant
  <1>2. ASSUME NEW j \in JobIds, SubStep(j), GhostStep PROVE SubInvariant'
    BY <1>1, <1>2, OrphansStep, FollowStep, ReferredStep, UndisturbedStep DEF SubInvariant, GhostStep
  <1>3. CASE SubNext /\ (Tick \/ SessionsChange)
    <2>1. UNCHANGED <<subs, conf, file, rt, server, jobs, loose>> /\ SplitStep /\ AstrayStep /\ DisturbedStep
      BY <1>3, SubNextIs DEF Tick, SessionsChange, GhostStep
    <2>2. Orphans'
      BY <2>1, OrphansStill DEF SubInvariant
    <2>3. Follow'
      BY <2>1, FollowStill DEF SubInvariant
    <2>4. Referred'
      BY <2>1, ReferredStill DEF SubInvariant
    <2>5. Undisturbed'
      BY <2>1, UndisturbedStill DEF SubInvariant
    <2> QED
      BY <1>1, <2>2, <2>3, <2>4, <2>5 DEF SubInvariant
  <1>4. CASE UNCHANGED subVars
    <2>1. UNCHANGED <<subs, conf, file, rt, server, jobs, loose>> /\ UNCHANGED <<split, astray, strayed, disturbed>>
      BY <1>4 DEF subVars
    <2>2. Orphans'
      BY <2>1, OrphansStill DEF SubInvariant
    <2>3. Follow'
      BY <2>1, FollowStill DEF SubInvariant
    <2>4. Referred'
      BY <2>1, ReferredStill DEF SubInvariant
    <2>5. Undisturbed'
      BY <2>1, UndisturbedStill DEF SubInvariant
    <2> QED
      BY <1>1, <2>2, <2>3, <2>4, <2>5 DEF SubInvariant
  <1> QED
    BY <1>2, <1>3, <1>4, SubNextIs

LEMMA SubShows == ASSUME SubInvariant PROVE SubsInv
  <1>1. SubTypeOK
    BY DEF SubInvariant, SubTypes, World, OutMap, EntriesFit, SubEntries, SubTypeOK
  <1>2. ASSUME Quiet PROVE Alone(Scheduler) /\ jobs[Scheduler].pc \in {"ready", "done"} /\ Scheduler \in JobIds
    BY <1>2, SchedulerIs DEF Quiet, Busy, Alone, Running
  <1>3. ASSUME Quiet, ~astray PROVE AllLike(conf, rt)
    BY <1>2, <1>3 DEF SubInvariant, Follow, Stands, Level
  <1>4. RuntimeFollows
    <2>1. SUFFICES ASSUME Quiet, ~astray, NEW n \in OutNames
                   PROVE [rt[n] EXCEPT !.tested = FALSE] = [conf[n] EXCEPT !.tested = FALSE]
      BY DEF RuntimeFollows, Untested
    <2>2. rt[n] \in Nodes /\ conf[n] \in Nodes
      BY DEF SubInvariant, SubTypes, World, OutMap, Maps
    <2>3. Like(rt[n], conf[n])
      BY <1>3, <2>1 DEF AllLike
    <2> QED
      BY <2>2, <2>3 DEF Nodes, Like
  <1>5. NoOrphans
    <2>1. SUFFICES ASSUME Quiet, NEW n \in OutNames, conf[n].sub \in Subs, conf[n].sub \notin split
                   PROVE subs[conf[n].sub] # NoSub
      BY DEF NoOrphans
    <2>2. NodesOf(conf[n].sub) # {}
      BY DEF NodesOf, OfSub
    <2> QED
      BY <2>1, <2>2 DEF SubInvariant, Orphans
  <1>6. CascadeClean
    <2>1. SUFFICES ASSUME Quiet, ~strayed
                   PROVE /\ \A n \in server.names : rt[n] # NoNode \/ n \in loose
                         /\ server.kind = "group" => OfSub(rt, server.group) # {} \/ Group(server.group) \in loose
      BY DEF CascadeClean
    <2>2. ~astray /\ Refers(jobs[Scheduler], server, conf, rt, loose)
      BY <1>2, <2>1 DEF SubInvariant, Referred
    <2>3. AllLike(conf, rt)
      BY <1>3, <2>1, <2>2
    <2>4. ASSUME NEW n \in server.names PROVE rt[n] # NoNode \/ n \in loose
      <3>1. Backed(n, conf, rt, loose)
        BY <1>2, <2>1, <2>2 DEF Refers
      <3>2. server.names \subseteq OutNames
        BY DEF SubInvariant, SubTypes, World, Refs, Direct
      <3> QED
        BY <2>3, <3>1, <3>2 DEF Backed, AllLike, Like, NoNode
    <2>5. server.kind = "group" => OfSub(rt, server.group) # {} \/ Group(server.group) \in loose
      BY <1>2, <2>1, <2>2 DEF Refers, Manned
    <2> QED
      BY <2>4, <2>5
  <1> QED
    BY <1>1, <1>4, <1>5, <1>6 DEF SubsInv

\* SubsInv for every value of the constants: whatever updates, deletions, edits, blocks, reloads and
\* ticks come in any order, when no request is at work the running map is the configuration, no node
\* is left of a subscription that is gone, and no server refers to what a user deleted, with the
\* exceptions each part names (syncRuntime, reloadProxyOutbounds, DeleteProxySubscription,
\* cascadeUpdateServerConfigs).
THEOREM SubsHold == SubSpec => []SubsInv
  <1>1. SubInit => SubInvariant
    BY SubBegins
  <1>2. SubInvariant /\ [SubNext]_subVars => SubInvariant'
    BY SubKept
  <1>3. SubInvariant => SubsInv
    BY SubShows
  <1> QED
    BY <1>1, <1>2, <1>3, PTL DEF SubSpec

\* A step of a request, or the configuration and the requests stay.
LEMMA AnyStep ==
  ASSUME [SubNext]_subVars
  PROVE  (\E j \in JobIds : SubStep(j)) \/ UNCHANGED <<conf, jobs>>
  BY SubNextIs DEF Tick, SessionsChange, subVars

\* Only ReplaceSubscriptionOutbounds takes a request from that step.
LEMMA ReplacesWhere ==
  ASSUME SubTypes, [SubNext]_subVars, NEW j \in JobIds, jobs[j].pc = "replace", jobs'[j].pc # "replace"
  PROVE  ReplaceSubscriptionOutbounds(j)
  <1>1. PICK i \in JobIds : SubStep(i)
    BY AnyStep
  <1>2. i = j
    BY <1>1, Others
  <1> QED
    BY <1>1, <1>2, Turns

\* UpdatesKeep for every value of the constants: an update leaves the outbounds of others alone, keeps
\* the names and test results of the nodes that are in the body again, and never empties a subscription
\* (UpdateSubscription and ReplaceSubscriptionOutbounds).
THEOREM UpdatesHold == SubSpec => UpdatesKeep
  <1>1. SubInit => SubInvariant
    BY SubBegins
  <1>2. SubInvariant /\ [SubNext]_subVars => SubInvariant'
    BY SubKept
  <1>3. ASSUME SubInvariant, [SubNext]_subVars, NEW j \in JobIds, jobs[j].pc = "replace", jobs'[j].pc # "replace",
               NEW n \in OutNames, conf[n] # NoNode, conf[n].sub # jobs[j].sid
        PROVE  conf'[n] = conf[n]
    BY <1>3, ReplacesWhere, ForeignStep DEF SubInvariant
  <1>4. ASSUME SubInvariant, [SubNext]_subVars, NEW j \in JobIds, jobs[j].pc = "replace", jobs'[j].pc = "sync",
               j \notin disturbed,
               NEW n \in OfSub(conf, jobs[j].sid), NEW m \in OfSub(conf', jobs[j].sid), conf[n].key = conf'[m].key,
               \A k \in OfSub(conf, jobs[j].sid) : conf[k].key = conf[n].key => k = n
        PROVE  m = n /\ conf'[m].tested = conf[n].tested
    <2>1. ReplaceSubscriptionOutbounds(j)
      BY <1>4, ReplacesWhere DEF SubInvariant
    <2> QED
      BY <1>4, <2>1, IdentityStep DEF SubInvariant
  <1>5. ASSUME SubInvariant, [SubNext]_subVars, NEW s \in Subs, OfSub(conf, s) # {}, OfSub(conf', s) = {}
        PROVE  \E j \in JobIds :
                 /\ jobs[j] # jobs'[j]
                 /\ \/ jobs[j].op \in {"delete", "remove", "change", "reload"}
                    \/ jobs[j].op = "block" /\ jobs[j].node.sub # conf[jobs[j].name].sub
    <2>1. conf' # conf
      BY <1>5
    <2>2. PICK j \in JobIds : SubStep(j)
      BY <1>5, <2>1, AnyStep
    <2> QED
      BY <1>5, <2>2, EmptiedStep DEF SubInvariant
  <1>6. SubInvariant /\ [SubNext]_subVars =>
          [\A j \in JobIds : jobs[j].pc = "replace" /\ jobs'[j].pc # "replace" =>
             \A n \in OutNames : conf[n] # NoNode /\ conf[n].sub # jobs[j].sid => conf'[n] = conf[n]]_subVars
    BY <1>3
  <1>7. SubInvariant /\ [SubNext]_subVars =>
          [\A j \in JobIds :
             /\ jobs[j].pc = "replace" /\ jobs'[j].pc = "sync" /\ j \notin disturbed
             => LET mine == OfSub(conf, jobs[j].sid)
                IN  \A n \in mine, m \in OfSub(conf', jobs[j].sid) :
                      /\ conf[n].key = conf'[m].key
                      /\ \A k \in mine : conf[k].key = conf[n].key => k = n
                      => m = n /\ conf'[m].tested = conf[n].tested]_subVars
    BY <1>4
  <1>8. SubInvariant /\ [SubNext]_subVars =>
          [\A s \in Subs : OfSub(conf, s) # {} /\ OfSub(conf', s) = {} =>
             \E j \in JobIds :
                /\ jobs[j] # jobs'[j]
                /\ \/ jobs[j].op \in {"delete", "remove", "change", "reload"}
                   \/ jobs[j].op = "block" /\ jobs[j].node.sub # conf[jobs[j].name].sub]_subVars
    BY <1>5
  <1>9. SubSpec => ForeignKept
    BY <1>1, <1>2, <1>6, PTL DEF SubSpec, ForeignKept
  <1>10. SubSpec => IdentityKept
    BY <1>1, <1>2, <1>7, PTL DEF SubSpec, IdentityKept
  <1>11. SubSpec => NeverEmptied
    BY <1>1, <1>2, <1>8, PTL DEF SubSpec, NeverEmptied
  <1> QED
    BY <1>9, <1>10, <1>11 DEF UpdatesKeep
=============================================================================
