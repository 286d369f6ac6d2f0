------------------------- MODULE OutboundCacheProofs -------------------------
(***************************************************************************)
(* What is proved of OutboundCache, for any number of nodes, dialers,      *)
(* instances and configuration changes.  Two readings of the steps:        *)
(*                                                                         *)
(*  - by what they do to cache, inst and the hands (Kinds).  Custody is    *)
(*    not inductive alone: a dialer that creates an instance while it      *)
(*    holds another would lose that one.  Hands says when a dialer holds   *)
(*    one: between Take and Close, and between Create and Store;           *)
(*                                                                         *)
(*  - by what they do to the jobs (Moves).  FlightLed needs the leader of  *)
(*    a name to be inside the function for that very name (Led).           *)
(*    CleanupSparesActive needs three facts besides CountExact: an         *)
(*    instance a dialer has got is cached under the dialer's own name if   *)
(*    at all, and is never one that is still to be stored (Known), and a   *)
(*    node with a dial that has got its instance is not idle (Recent).     *)
(*                                                                         *)
(* And of SubscriptionContent, for every body: the parsers of both forms   *)
(* agree on a node, and keep only what can be stored.                      *)
(***************************************************************************)
EXTENDS OutboundCache, SubscriptionContent, FiniteSetTheorems, WellFoundedInduction, TLAPS

\* What a dialer holds depends on where it is; it knows its node.
Hand(j) ==
    /\ j.hold # None => j.pc \in {"close", "store"}
    /\ j.pc = "store" => j.hold # None
    /\ j.pc # "idle" => j.name \in Names

Hands == \A d \in Dialers : Hand(job[d])

Shape == TypeOK /\ Hands

-----------------------------------------------------------------------------
(* The kinds of steps, by what they do to cache, inst and the hands.       *)

\* The other dialers keep what they hold.
Apart(d) == \A e \in Dialers \ {d} : job'[e].hold = job[e].hold

SameHolds == \A e \in Dialers : job'[e].hold = job[e].hold

Quiet == UNCHANGED <<cache, inst>> /\ SameHolds

\* The instance of n goes from the cache into the hands of d.
Takes(d, n) ==
    /\ job[d].hold = None
    /\ job'[d].hold = cache[n]
    /\ Apart(d)
    /\ cache' = [cache EXCEPT ![n] = None]
    /\ UNCHANGED inst

\* d closes what it holds.
Closes(d) ==
    /\ job[d].hold \in Insts
    /\ inst' = [inst EXCEPT ![job[d].hold] = Shut(@)]
    /\ job'[d].hold = None
    /\ Apart(d)
    /\ UNCHANGED cache

\* d creates i.
Births(d, i) ==
    /\ job[d].hold = None
    /\ inst[i] = "unborn"
    /\ inst' = [inst EXCEPT ![i] = "open"]
    /\ job'[d].hold = i
    /\ Apart(d)
    /\ UNCHANGED cache

\* d stores what it holds.
Stores(d, n) ==
    /\ job[d].hold \in Insts
    /\ cache[n] = None
    /\ cache' = [cache EXCEPT ![n] = job[d].hold]
    /\ job'[d].hold = None
    /\ Apart(d)
    /\ UNCHANGED inst

\* The instances of out are closed; those of DOMAIN new, where nothing was cached,
\* are created.
Turns(out, new) ==
    /\ \A n \in DOMAIN new : /\ n \in Names /\ new[n] \in Insts
                             /\ cache[n] = None /\ inst[new[n]] = "unborn"
    /\ \A n, m \in DOMAIN new : new[n] = new[m] => n = m
    /\ out \subseteq Names
    /\ cache' = [n \in Names |-> IF n \in DOMAIN new THEN new[n]
                                 ELSE IF n \in out THEN None ELSE cache[n]]
    /\ inst' = [i \in Insts |-> IF \E n \in DOMAIN new : new[n] = i THEN "open"
                                ELSE IF \E n \in out : cache[n] = i
                                THEN Shut(inst[i]) ELSE inst[i]]
    /\ UNCHANGED job

Kinds ==
    \/ Quiet
    \/ \E d \in Dialers, n \in Names : Takes(d, n) \/ Stores(d, n)
    \/ \E d \in Dialers : Closes(d)
    \/ \E d \in Dialers, i \in Insts : Births(d, i)
    \/ \E out \in SUBSET Names, S \in SUBSET Names : \E new \in [S -> Insts] :
           Turns(out, new)

-----------------------------------------------------------------------------
(* Custody is kept by every kind.                                          *)

LEMMA QuietCustody == ASSUME TypeOK, Custody, Quiet PROVE Custody'
  BY DEF Custody, Quiet, SameHolds

LEMMA TakesCustody ==
  ASSUME TypeOK, TypeOK', Custody, NEW d \in Dialers, NEW n \in Names, Takes(d, n)
  PROVE  Custody'
  <1>1. /\ cache'[n] = None
        /\ \A m \in Names \ {n} : cache'[m] = cache[m]
        /\ job'[d].hold = cache[n]
        /\ \A e \in Dialers \ {d} : job'[e].hold = job[e].hold
        /\ inst' = inst
        /\ job[d].hold = None
    BY DEF Takes, TypeOK, Apart
  <1>2. \A i \in Insts : i # None
    BY Constants
  <1> QED
    BY <1>1, <1>2 DEF Custody

LEMMA ClosesCustody ==
  ASSUME TypeOK, TypeOK', Custody, NEW d \in Dialers, Closes(d)
  PROVE  Custody'
  <1>1. /\ job'[d].hold = None
        /\ \A e \in Dialers \ {d} : job'[e].hold = job[e].hold
        /\ cache' = cache
        /\ job[d].hold \in Insts
    BY DEF Closes, Apart
  <1>2. \A i \in Insts : i # None
    BY Constants
  <1>3. inst[job[d].hold] = "open"
    BY <1>1, <1>2 DEF Custody
  <1>4. /\ inst'[job[d].hold] = "closed"
        /\ \A i \in Insts : i # job[d].hold => inst'[i] = inst[i]
    BY <1>1, <1>3 DEF Closes, TypeOK, Shut
  <1>5. \A m \in Names : cache[m] # None => cache[m] # job[d].hold /\ cache[m] \in Insts
    BY DEF Custody, TypeOK
  <1>6. \A e \in Dialers : job[e].hold \in Insts \cup {None}
    BY DEF TypeOK, Jobs
  <1>7. \A e \in Dialers \ {d} : job[e].hold # None => job[e].hold # job[d].hold
    BY <1>1, <1>2 DEF Custody
  <1> QED
    BY <1>1, <1>2, <1>4, <1>5, <1>6, <1>7 DEF Custody

LEMMA BirthsCustody ==
  ASSUME TypeOK, TypeOK', Custody, NEW d \in Dialers, NEW i \in Insts, Births(d, i)
  PROVE  Custody'
  <1>1. /\ job'[d].hold = i
        /\ \A e \in Dialers \ {d} : job'[e].hold = job[e].hold
        /\ cache' = cache
        /\ job[d].hold = None
        /\ inst[i] = "unborn"
    BY DEF Births, Apart
  <1>2. \A j \in Insts : j # None
    BY Constants
  <1>3. /\ inst'[i] = "open"
        /\ \A j \in Insts : j # i => inst'[j] = inst[j]
    BY DEF Births, TypeOK
  <1>4. \A m \in Names : cache[m] # None => cache[m] # i /\ cache[m] \in Insts
    BY <1>1 DEF Custody, TypeOK
  <1>5. \A e \in Dialers : job[e].hold # None => job[e].hold # i /\ job[e].hold \in Insts
    BY <1>1 DEF Custody, TypeOK, Jobs
  <1> QED
    BY <1>1, <1>2, <1>3, <1>4, <1>5 DEF Custody

LEMMA StoresCustody ==
  ASSUME TypeOK, TypeOK', Custody, NEW d \in Dialers, NEW n \in Names, Stores(d, n)
  PROVE  Custody'
  <1>1. /\ cache'[n] = job[d].hold
        /\ \A m \in Names \ {n} : cache'[m] = cache[m]
        /\ cache[n] = None
        /\ job'[d].hold = None
        /\ \A e \in Dialers \ {d} : job'[e].hold = job[e].hold
        /\ inst' = inst
        /\ job[d].hold \in Insts
    BY DEF Stores, TypeOK, Apart
  <1>2. \A i \in Insts : i # None
    BY Constants
  <1> QED
    BY <1>1, <1>2 DEF Custody

LEMMA TurnsCustody ==
  ASSUME TypeOK, TypeOK', Custody, NEW out \in SUBSET Names, NEW S \in SUBSET Names,
         NEW new \in [S -> Insts], Turns(out, new)
  PROVE  Custody'
  <1>0. DOMAIN new = S
    OBVIOUS
  <1>1. \A i \in Insts : i # None
    BY Constants
  <1>2. \A n \in S : /\ cache'[n] = new[n] /\ new[n] \in Insts
                     /\ cache[n] = None /\ inst[new[n]] = "unborn"
    BY <1>0 DEF Turns
  <1>3. \A n \in Names \ S : cache'[n] = IF n \in out THEN None ELSE cache[n]
    BY <1>0 DEF Turns
  <1>4. \A n \in S : inst'[new[n]] = "open"
    BY <1>0, <1>2 DEF Turns
  <1>5. \A n, m \in S : new[n] = new[m] => n = m
    BY <1>0 DEF Turns
  <1>6. \A n \in Names : cache[n] # None =>
           cache[n] \in Insts /\ inst[cache[n]] = "open" /\ n \notin S
    BY <1>2 DEF Custody, TypeOK
  <1>7. \A i \in Insts : (\A n \in S : new[n] # i) /\ (\A n \in out : cache[n] # i)
           => inst'[i] = inst[i]
    BY <1>0 DEF Turns
  <1>8. \A i \in Insts : (\A n \in S : new[n] # i) /\ (\E n \in out : cache[n] = i)
           => inst'[i] = "closed"
    <2> SUFFICES ASSUME NEW i \in Insts, \A n \in S : new[n] # i,
                        NEW n \in out, cache[n] = i
                 PROVE  inst'[i] = "closed"
      OBVIOUS
    <2>1. inst'[i] = Shut(inst[i])
      BY <1>0 DEF Turns
    <2>2. inst[i] = "open"
      BY <1>1, <1>6
    <2> QED
      BY <2>1, <2>2 DEF Shut
  <1>9. \A e \in Dialers : job[e].hold # None =>
           job[e].hold \in Insts /\ inst[job[e].hold] = "open"
    BY DEF Custody, TypeOK, Jobs
  <1>10. job' = job
    BY DEF Turns
  <1>11. \A n, m \in Names : cache[n] # None /\ cache[n] = cache[m] => n = m
    BY DEF Custody
  <1>12. \A n \in Names : cache'[n] # None => inst'[cache'[n]] = "open"
    <2> SUFFICES ASSUME NEW n \in Names, cache'[n] # None
                 PROVE  inst'[cache'[n]] = "open"
      OBVIOUS
    <2>1. CASE n \in S
      BY <2>1, <1>2, <1>4
    <2>2. CASE n \notin S
      <3>1. n \notin out /\ cache'[n] = cache[n]
        BY <2>2, <1>3
      <3>2. cache[n] \in Insts /\ inst[cache[n]] = "open"
        BY <3>1, <1>6
      <3>3. \A m \in out : cache[m] # cache[n]
        BY <3>1, <1>11
      <3>4. \A m \in S : new[m] # cache[n]
        BY <3>2, <1>2
      <3> QED
        BY <3>1, <3>2, <3>3, <3>4, <1>7
    <2> QED
      BY <2>1, <2>2
  <1>13. \A e \in Dialers : job[e].hold # None => inst'[job[e].hold] = "open"
    <2> SUFFICES ASSUME NEW e \in Dialers, job[e].hold # None
                 PROVE  inst'[job[e].hold] = "open"
      OBVIOUS
    <2>1. job[e].hold \in Insts /\ inst[job[e].hold] = "open"
      BY <1>9
    <2>2. \A n \in Names : cache[n] # job[e].hold
      BY <2>1, <1>1 DEF Custody
    <2>3. \A n \in S : new[n] # job[e].hold
      BY <2>1, <1>2
    <2> QED
      BY <2>1, <2>2, <2>3, <1>7
  <1>14. \A n, m \in Names : cache'[n] # None /\ cache'[n] = cache'[m] => n = m
    BY <1>2, <1>3, <1>5, <1>6, <1>11
  <1>15. \A n \in Names, e \in Dialers : cache'[n] # None => cache'[n] # job[e].hold
    BY <1>2, <1>3, <1>9, <1>1 DEF Custody
  <1>16. \A i \in Insts : inst'[i] = "open" =>
           (\E n \in Names : cache'[n] = i) \/ (\E e \in Dialers : job[e].hold = i)
    <2> SUFFICES ASSUME NEW i \in Insts, inst'[i] = "open", \A n \in S : new[n] # i
                 PROVE  (\E n \in Names : cache'[n] = i)
                        \/ (\E e \in Dialers : job[e].hold = i)
      BY <1>2
    <2>1. \A n \in out : cache[n] # i
      BY <1>8
    <2>2. inst[i] = "open"
      BY <2>1, <1>7
    <2>3. CASE \E n \in Names : cache[n] = i
      <3>1. PICK n \in Names : cache[n] = i
        BY <2>3
      <3>2. n \notin out /\ n \notin S
        BY <3>1, <2>1, <1>1, <1>6
      <3> QED
        BY <3>1, <3>2, <1>3
    <2> QED
      BY <2>2, <2>3 DEF Custody
  <1>17. \A i \in Insts : inst'[i] # "twice"
    <2> SUFFICES ASSUME NEW i \in Insts PROVE inst'[i] # "twice"
      OBVIOUS
    <2>1. inst[i] # "twice"
      BY DEF Custody
    <2>2. CASE \E n \in S : new[n] = i
      BY <2>2, <1>4
    <2>3. CASE \A n \in S : new[n] # i
      BY <2>1, <2>3, <1>7, <1>8
    <2> QED
      BY <2>2, <2>3
  <1> QED
    BY <1>10, <1>12, <1>13, <1>14, <1>15, <1>16, <1>17 DEF Custody

LEMMA KindsCustody ==
  ASSUME TypeOK, TypeOK', Custody, Kinds
  PROVE  Custody'
  BY QuietCustody, TakesCustody, ClosesCustody, BirthsCustody, StoresCustody,
     TurnsCustody DEF Kinds

-----------------------------------------------------------------------------
(* The records: what each update of a job makes of it.                     *)

LEMMA ZeroStamp == 0 \in Stamps
  BY Constants DEF Stamps

LEMMA GoToJob ==
  ASSUME NEW j \in Jobs, NEW p \in Places
  PROVE  LET k == [j EXCEPT !.pc = p]
         IN  k \in Jobs /\ k.pc = p /\ k.hold = j.hold /\ k.name = j.name
  BY ZeroStamp DEF Jobs, Places

LEMMA GetJob ==
  ASSUME NEW j \in Jobs, NEW r \in Stamps
  PROVE  LET k == [j EXCEPT !.pc = "get", !.rt = r, !.got = None]
         IN  k \in Jobs /\ k.pc = "get" /\ k.hold = j.hold /\ k.name = j.name
  BY ZeroStamp DEF Jobs, Places

LEMMA ListenJob ==
  ASSUME NEW j \in Jobs, NEW i \in Insts
  PROVE  LET k == [j EXCEPT !.pc = "listen", !.got = i]
         IN  k \in Jobs /\ k.pc = "listen" /\ k.hold = j.hold /\ k.name = j.name
  BY ZeroStamp DEF Jobs, Places

LEMMA DoGetJob ==
  ASSUME NEW j \in Jobs
  PROVE  LET k == [j EXCEPT !.pc = "do_get", !.then = "listen"]
         IN  k \in Jobs /\ k.pc = "do_get" /\ k.hold = j.hold /\ k.name = j.name
  BY ZeroStamp DEF Jobs, Places

LEMMA DoTakeJob ==
  ASSUME NEW j \in Jobs
  PROVE  LET k == [j EXCEPT !.pc = "do_take", !.then = "relisten"]
         IN  k \in Jobs /\ k.pc = "do_take" /\ k.hold = j.hold /\ k.name = j.name
  BY ZeroStamp DEF Jobs, Places

LEMMA ReadJob ==
  ASSUME NEW j \in Jobs, NEW v \in Stamps
  PROVE  LET k == [j EXCEPT !.pc = "create", !.ver = v]
         IN  k \in Jobs /\ k.pc = "create" /\ k.hold = j.hold /\ k.name = j.name
  BY ZeroStamp DEF Jobs, Places

LEMMA CloseJob ==
  ASSUME NEW j \in Jobs
  PROVE  LET k == [j EXCEPT !.pc = "create", !.hold = None]
         IN  k \in Jobs /\ k.pc = "create" /\ k.hold = None /\ k.name = j.name
  BY ZeroStamp DEF Jobs, Places

LEMMA CreateJob ==
  ASSUME NEW j \in Jobs, NEW i \in Insts
  PROVE  LET k == [j EXCEPT !.pc = "store", !.hold = i, !.ver = 0]
         IN  k \in Jobs /\ k.pc = "store" /\ k.hold = i /\ k.name = j.name
  BY ZeroStamp DEF Jobs, Places

LEMMA ConnectedJob ==
  ASSUME NEW j \in Jobs
  PROVE  LET k == [j EXCEPT !.pc = "register", !.rt = 0, !.then = "once"]
         IN  k \in Jobs /\ k.pc = "register" /\ k.hold = j.hold /\ k.name = j.name
  BY ZeroStamp DEF Jobs, Places

LEMMA DialJob ==
  ASSUME NEW n \in Names, NEW p \in {"do_take", "once"}
  PROVE  LET k == [NoJob EXCEPT !.name = n, !.pc = p]
         IN  k \in Jobs /\ k.pc = p /\ k.hold = None /\ k.name = n
  BY ZeroStamp DEF NoJob, Jobs, Places

LEMMA NoJobJob == NoJob \in Jobs /\ NoJob.pc = "idle" /\ NoJob.hold = None
  BY ZeroStamp DEF NoJob, Jobs, Places

-----------------------------------------------------------------------------
(* What a change of one job, and the end of a call, mean for all jobs.     *)

\* The jobs have their type and nobody's hold but that of d has changed.
JobsFit(d) == job' \in [Dialers -> Jobs] /\ Hands' /\ Apart(d)

LEMMA OneJob ==
  ASSUME Shape, NEW d \in Dialers, NEW k \in Jobs, Hand(k),
         job' = [job EXCEPT ![d] = k]
  PROVE  JobsFit(d) /\ job'[d] = k
  <1>1. job' \in [Dialers -> Jobs] /\ job'[d] = k
        /\ \A e \in Dialers \ {d} : job'[e] = job[e]
    BY DEF Shape, TypeOK
  <1> QED
    BY <1>1 DEF JobsFit, Hands, Shape, Apart

LEMMA GoToFit ==
  ASSUME Shape, NEW d \in Dialers, NEW p \in Places, GoTo(d, p),
         p # "store", job[d].hold # None => p = "close", job[d].pc # "idle"
  PROVE  JobsFit(d) /\ job'[d].hold = job[d].hold
  <1>1. job[d] \in Jobs /\ Hand(job[d])
    BY DEF Shape, TypeOK, Hands
  <1>2. LET k == [job[d] EXCEPT !.pc = p]
        IN  k \in Jobs /\ k.pc = p /\ k.hold = job[d].hold /\ k.name = job[d].name
    BY <1>1, GoToJob
  <1>3. Hand([job[d] EXCEPT !.pc = p])
    BY <1>1, <1>2 DEF Hand
  <1> QED
    BY <1>2, <1>3, OneJob DEF GoTo

LEMMA IdleFit ==
  ASSUME Shape, NEW d \in Dialers, job' = [job EXCEPT ![d] = NoJob]
  PROVE  JobsFit(d) /\ job'[d].hold = None
  <1>1. Hand(NoJob)
    BY NoJobJob DEF Hand
  <1> QED
    BY <1>1, NoJobJob, OneJob

LEMMA FinishFit ==
  ASSUME Shape, NEW d \in Dialers, NEW i \in Insts \cup {None}, Finish(d, i),
         job[d].pc # "idle"
  PROVE  /\ JobsFit(d) /\ job'[d].hold = None
         /\ health' \in [Runtimes -> {"ok", "recent", "old"}]
         /\ flight' \in [Names -> Dialers \cup {None}]
  <1>1. \A e \in Dialers : job[e] \in Jobs /\ Hand(job[e])
    BY DEF Shape, TypeOK, Hands
  <1>2. ASSUME NEW e \in Party(d)
        PROVE  job'[e] \in Jobs /\ Hand(job'[e]) /\ job'[e].hold = None
    <2>0. e \in Dialers /\ job[e].pc # "idle"
      BY DEF Party
    <2>1. CASE i = None
      <3>1. job'[e] = NoJob
        BY <2>0, <2>1 DEF Finish
      <3> QED
        BY <3>1, NoJobJob DEF Hand
    <2>2. CASE i # None
      <3> DEFINE q == job[e].then
                 k == [job[e] EXCEPT !.pc = q, !.got = i, !.hold = None]
      <3>1. job'[e] = k
        BY <2>0, <2>2 DEF Finish
      <3>2. q \in {"once", "listen", "relisten"}
        BY <1>1, <2>0 DEF Jobs
      <3>0. job[e] \in Jobs /\ i \in Insts
        BY <1>1, <2>0, <2>2
      <3>3. k \in Jobs /\ k.pc = q /\ k.hold = None /\ k.name = job[e].name
        BY <3>0, <3>2 DEF Jobs, Places
      <3>4. Hand(k)
        BY <1>1, <2>0, <3>2, <3>3 DEF Hand
      <3> QED
        BY <3>1, <3>3, <3>4
    <2> QED
      BY <2>1, <2>2
  <1>3. ASSUME NEW e \in Dialers \ Party(d)
        PROVE  job'[e] = job[e]
    BY DEF Finish
  <1>4. DOMAIN job' = Dialers /\ job' = [e \in Dialers |-> job'[e]]
    BY DEF Finish
  <1>5. \A e \in Dialers : job'[e] \in Jobs /\ Hand(job'[e])
    BY <1>1, <1>2, <1>3
  <1>6. job' \in [Dialers -> Jobs]
    BY <1>4, <1>5
  <1>7. \A e \in Party(d) \ {d} : job[e].hold = None
    BY <1>1 DEF Party, Hand
  <1>8. Apart(d)
    BY <1>2, <1>3, <1>7 DEF Apart
  <1>9. d \in Party(d)
    BY DEF Party
  <1>10. health' \in [Runtimes -> {"ok", "recent", "old"}]
    BY DEF Finish, Shape, TypeOK
  <1>11. flight' \in [Names -> Dialers \cup {None}]
    BY DEF Finish, Shape, TypeOK
  <1> QED
    BY <1>2, <1>5, <1>6, <1>8, <1>9, <1>10, <1>11 DEF JobsFit, Hands
-----------------------------------------------------------------------------
(* The steps of a dial.                                                    *)

\* What is shown of every step.
Good == Shape' /\ Kinds

\* A step that moves d and leaves instances and cache alone is quiet.
LEMMA QuietStep ==
  ASSUME Shape, NEW d \in Dialers, JobsFit(d), job'[d].hold = job[d].hold,
         UNCHANGED <<cfg, stamp, cache, inst, made, stopped>>,
         conns' \in [Runtimes -> Nat],
         health' \in [Runtimes -> {"ok", "recent", "old"}],
         idle' \subseteq Names,
         flight' \in [Names -> Dialers \cup {None}]
  PROVE  Good
  <1>1. SameHolds
    BY DEF JobsFit, Apart, SameHolds
  <1>2. TypeOK'
    BY DEF Shape, TypeOK, JobsFit
  <1> QED
    BY <1>1, <1>2 DEF Good, Shape, JobsFit, Kinds, Quiet

LEMMA DialGood ==
  ASSUME Shape, NEW d \in Dialers, NEW n \in Names, Dial(d, n)
  PROVE  Good
  <1>1. PICK p \in {"do_take", "once"} :
           job' = [job EXCEPT ![d] = [NoJob EXCEPT !.name = n, !.pc = p]]
    BY DEF Dial
  <1> DEFINE k == [NoJob EXCEPT !.name = n, !.pc = p]
  <1>2. k \in Jobs /\ k.pc = p /\ k.hold = None /\ k.name = n
    BY DialJob, ZenonT(60)
  <1>3. Hand(k)
    BY <1>2 DEF Hand
  <1>4. JobsFit(d) /\ job'[d] = k
    BY <1>1, <1>2, <1>3, OneJob
  <1>5. job[d].hold = None
    BY DEF Dial, Shape, Hands, Hand
  <1> QED
    BY <1>2, <1>4, <1>5, QuietStep DEF Dial, Shape, TypeOK

LEMMA OnceGood ==
  ASSUME Shape, NEW d \in Dialers, Once(d)
  PROVE  Good
  <1>0. /\ job[d] \in Jobs /\ Hand(job[d])
        /\ job[d].name \in Names /\ job[d].hold = None
    BY DEF Shape, TypeOK, Hands, Hand, Once
  <1>1. JobsFit(d) /\ job'[d].hold = None
    <2>1. CASE There(job[d].name)
      <3> DEFINE r == cfg[job[d].name].rt
                 k == [job[d] EXCEPT !.pc = "get", !.rt = r, !.got = None]
      <3>1. r \in Stamps
        BY <1>0 DEF Shape, TypeOK, Cfgs
      <3>2. k \in Jobs /\ k.pc = "get" /\ k.hold = job[d].hold /\ k.name = job[d].name
        BY <1>0, <3>1, GetJob
      <3>3. Hand(k)
        BY <1>0, <3>2 DEF Hand
      <3>4. job' = [job EXCEPT ![d] = k]
        BY <2>1 DEF Once
      <3> QED
        BY <1>0, <3>2, <3>3, <3>4, OneJob
    <2>2. CASE ~There(job[d].name)
      BY <2>2, IdleFit DEF Once
    <2> QED
      BY <2>1, <2>2
  <1> QED
    BY <1>0, <1>1, QuietStep DEF Once, Shape, TypeOK

LEMMA GetGood ==
  ASSUME Shape, NEW d \in Dialers, Get(d)
  PROVE  Good
  <1>0. /\ job[d] \in Jobs /\ Hand(job[d])
        /\ job[d].name \in Names /\ job[d].hold = None
    BY DEF Shape, TypeOK, Hands, Hand, Get
  <1>1. JobsFit(d) /\ job'[d].hold = None
    <2>1. CASE cache[job[d].name] # None
      <3> DEFINE i == cache[job[d].name]
                 k == [job[d] EXCEPT !.pc = "listen", !.got = i]
      <3>1. i \in Insts
        BY <1>0, <2>1 DEF Shape, TypeOK
      <3>2. k \in Jobs /\ k.pc = "listen" /\ k.hold = job[d].hold
            /\ k.name = job[d].name
        BY <1>0, <3>1, ListenJob
      <3>3. Hand(k)
        BY <1>0, <3>2 DEF Hand
      <3>4. job' = [job EXCEPT ![d] = k]
        BY <2>1 DEF Get
      <3> QED
        BY <1>0, <3>2, <3>3, <3>4, OneJob
    <2>2. CASE cache[job[d].name] = None
      <3> DEFINE k == [job[d] EXCEPT !.pc = "do_get", !.then = "listen"]
      <3>2. k \in Jobs /\ k.pc = "do_get" /\ k.hold = job[d].hold
            /\ k.name = job[d].name
        BY <1>0, DoGetJob
      <3>3. Hand(k)
        BY <1>0, <3>2 DEF Hand
      <3>4. job' = [job EXCEPT ![d] = k]
        BY <2>2 DEF Get
      <3> QED
        BY <1>0, <3>2, <3>3, <3>4, OneJob
    <2> QED
      BY <2>1, <2>2
  <1>2. idle' \subseteq Names
    BY DEF Get, Use, Shape, TypeOK
  <1> QED
    BY <1>0, <1>1, <1>2, QuietStep DEF Get, Shape, TypeOK

LEMMA JoinGood ==
  ASSUME Shape, NEW d \in Dialers, NEW at \in {"do_get", "do_take"},
         NEW first \in {"check", "take"}, Join(d, at, first)
  PROVE  Good
  <1>0. /\ job[d].pc # "idle" /\ job[d].name \in Names /\ job[d].hold = None
    BY DEF Shape, Hands, Hand, Join
  <1>1. PICK p \in {first, "wait"} : GoTo(d, p)
    BY DEF Join
  <1>2. p \in Places /\ p # "store"
    BY DEF Places
  <1>3. JobsFit(d) /\ job'[d].hold = job[d].hold
    BY <1>0, <1>1, <1>2, GoToFit
  <1>4. flight' \in [Names -> Dialers \cup {None}]
    BY <1>0 DEF Join, Shape, TypeOK
  <1> QED
    BY <1>3, <1>4, QuietStep DEF Join, Shape, TypeOK

LEMMA CheckGood ==
  ASSUME Shape, NEW d \in Dialers, Check(d)
  PROVE  Good
  <1>0. /\ job[d].pc # "idle" /\ job[d].name \in Names /\ job[d].hold = None
    BY DEF Shape, Hands, Hand, Check
  <1>1. idle' \subseteq Names
    BY DEF Check, Use, Shape, TypeOK
  <1>2. CASE cache[job[d].name] # None
    <2>1. cache[job[d].name] \in Insts \cup {None} /\ Finish(d, cache[job[d].name])
      BY <1>0, <1>2 DEF Check, Shape, TypeOK
    <2> QED
      BY <1>0, <1>1, <2>1, FinishFit, QuietStep DEF Check, Shape, TypeOK
  <1>3. CASE cache[job[d].name] = None
    <2>1. GoTo(d, "read") /\ UNCHANGED <<health, flight>> /\ "read" \in Places
      BY <1>3 DEF Check, Places
    <2>2. JobsFit(d) /\ job'[d].hold = job[d].hold
      BY <1>0, <2>1, GoToFit
    <2> QED
      BY <1>1, <2>1, <2>2, QuietStep DEF Check, Shape, TypeOK
  <1> QED
    BY <1>2, <1>3

LEMMA ReadGood ==
  ASSUME Shape, NEW d \in Dialers, Read(d)
  PROVE  Good
  <1>0. /\ job[d] \in Jobs /\ Hand(job[d]) /\ job[d].pc # "idle"
        /\ job[d].name \in Names /\ job[d].hold = None
    BY DEF Shape, TypeOK, Hands, Hand, Read
  <1>1. CASE Finish(d, None)
    BY <1>0, <1>1, FinishFit, QuietStep DEF Read, Shape, TypeOK
  <1>2. CASE There(job[d].name)
    <2> DEFINE v == cfg[job[d].name].ver
               k == [job[d] EXCEPT !.pc = "create", !.ver = v]
    <2>1. v \in Stamps
      BY <1>0 DEF Shape, TypeOK, Cfgs
    <2>2. k \in Jobs /\ k.pc = "create" /\ k.hold = job[d].hold /\ k.name = job[d].name
      BY <1>0, <2>1, ReadJob
    <2>3. Hand(k)
      BY <1>0, <2>2 DEF Hand
    <2>4. job' = [job EXCEPT ![d] = k] /\ UNCHANGED <<health, flight>>
      BY <1>2 DEF Read
    <2>5. JobsFit(d) /\ job'[d].hold = job[d].hold
      BY <2>2, <2>3, <2>4, OneJob
    <2> QED
      BY <2>4, <2>5, QuietStep DEF Read, Shape, TypeOK
  <1> QED
    BY <1>1, <1>2 DEF Read

LEMMA TakeGood ==
  ASSUME Shape, NEW d \in Dialers, Take(d)
  PROVE  Good
  <1> DEFINE n == job[d].name
  <1>0. /\ job[d] \in Jobs /\ Hand(job[d]) /\ job[d].pc # "idle"
        /\ n \in Names /\ job[d].hold = None
    BY DEF Shape, TypeOK, Hands, Hand, Take
  <1>1. CASE Finish(d, None) /\ UNCHANGED <<cache, idle>>
    BY <1>0, <1>1, FinishFit, QuietStep DEF Take, Shape, TypeOK
  <1>2. CASE There(n)
    <2> DEFINE v == cfg[n].ver
               h == cache[n]
               k == [job[d] EXCEPT !.pc = "close", !.ver = v, !.hold = h]
    <2>1. v \in Stamps /\ h \in Insts \cup {None}
      BY <1>0 DEF Shape, TypeOK, Cfgs
    <2>2. k \in Jobs /\ k.pc = "close" /\ k.hold = h /\ k.name = n
      BY <1>0, <2>1 DEF Jobs, Places
    <2>3. Hand(k)
      BY <1>0, <2>2 DEF Hand
    <2>4. /\ job' = [job EXCEPT ![d] = k]
          /\ cache' = [cache EXCEPT ![n] = None]
          /\ idle' = idle \ {n}
          /\ UNCHANGED <<health, flight>>
      BY <1>2 DEF Take, Use
    <2>5. JobsFit(d) /\ job'[d] = k
      BY <2>2, <2>3, <2>4, OneJob
    <2>6. Takes(d, n)
      BY <1>0, <2>2, <2>4, <2>5 DEF Takes, JobsFit, Take
    <2>7. TypeOK'
      BY <2>4, <2>5 DEF Take, Shape, TypeOK, JobsFit
    <2> QED
      BY <1>0, <2>5, <2>6, <2>7 DEF Good, Shape, Kinds, JobsFit
  <1> QED
    BY <1>1, <1>2 DEF Take

LEMMA CloseGood ==
  ASSUME Shape, NEW d \in Dialers, Close(d)
  PROVE  Good
  <1> DEFINE k == [job[d] EXCEPT !.pc = "create", !.hold = None]
  <1>0. /\ job[d] \in Jobs /\ Hand(job[d]) /\ job[d].pc # "idle"
        /\ job[d].name \in Names /\ job[d].hold \in Insts \cup {None}
    BY DEF Shape, TypeOK, Hands, Hand, Close, Jobs
  <1>1. k \in Jobs /\ k.pc = "create" /\ k.hold = None /\ k.name = job[d].name
    BY <1>0, CloseJob
  <1>2. Hand(k)
    BY <1>0, <1>1 DEF Hand
  <1>3. JobsFit(d) /\ job'[d] = k
    BY <1>1, <1>2, OneJob DEF Close
  <1>4. CASE job[d].hold = None
    BY <1>1, <1>3, <1>4, QuietStep DEF Close, Shape, TypeOK
  <1>5. CASE job[d].hold # None
    <2>1. /\ job[d].hold \in Insts
          /\ inst' = [inst EXCEPT ![job[d].hold] = Shut(@)]
      BY <1>0, <1>5 DEF Close
    <2>2. Closes(d)
      BY <1>1, <1>3, <2>1 DEF Closes, JobsFit, Close
    <2>3. inst' \in [Insts -> InstStates]
      BY <2>1 DEF Shape, TypeOK, Shut, InstStates
    <2>4. TypeOK'
      BY <1>3, <2>3 DEF Close, Shape, TypeOK, JobsFit
    <2> QED
      BY <1>3, <2>2, <2>4 DEF Good, Shape, Kinds, JobsFit
  <1> QED
    BY <1>4, <1>5

LEMMA CreateGood ==
  ASSUME Shape, NEW d \in Dialers, Create(d)
  PROVE  Good
  <1>0. /\ job[d] \in Jobs /\ Hand(job[d]) /\ job[d].pc # "idle"
        /\ job[d].name \in Names /\ job[d].hold = None /\ job[d].ver \in Stamps
    BY DEF Shape, TypeOK, Hands, Hand, Create, Jobs
  <1>1. CASE Finish(d, None) /\ UNCHANGED <<inst, made>>
    BY <1>0, <1>1, FinishFit, QuietStep DEF Create, Shape, TypeOK
  <1>2. ASSUME NEW i \in Insts,
               inst[i] = "unborn",
               inst' = [inst EXCEPT ![i] = "open"],
               made' = [made EXCEPT ![i] = job[d].ver],
               job' = [job EXCEPT ![d] = [@ EXCEPT !.pc = "store", !.hold = i,
                                                   !.ver = 0]],
               UNCHANGED <<health, flight>>
        PROVE  Good
    <2> DEFINE k == [job[d] EXCEPT !.pc = "store", !.hold = i, !.ver = 0]
    <2>1. k \in Jobs /\ k.pc = "store" /\ k.hold = i /\ k.name = job[d].name
      BY <1>0, CreateJob
    <2>2. i # None
      BY Constants
    <2>3. Hand(k)
      BY <1>0, <2>1, <2>2 DEF Hand
    <2>4. JobsFit(d) /\ job'[d] = k
      BY <1>2, <2>1, <2>3, OneJob
    <2>5. Births(d, i)
      BY <1>0, <1>2, <2>1, <2>4 DEF Births, JobsFit, Create
    <2>6. inst' \in [Insts -> InstStates] /\ made' \in [Insts -> Stamps]
      BY <1>0, <1>2 DEF Shape, TypeOK, InstStates
    <2>7. TypeOK'
      BY <1>2, <2>4, <2>6 DEF Create, Shape, TypeOK, JobsFit
    <2> QED
      BY <2>4, <2>5, <2>7 DEF Good, Shape, Kinds, JobsFit
  <1> QED
    BY <1>1, <1>2 DEF Create

LEMMA StoreGood ==
  ASSUME Shape, NEW d \in Dialers, Store(d)
  PROVE  Good
  <1> DEFINE n == job[d].name
             h == job[d].hold
  <1>0. /\ job[d].pc # "idle" /\ n \in Names /\ h \in Insts
        /\ cache[n] \in Insts \cup {None}
    BY DEF Shape, TypeOK, Hands, Hand, Store, Jobs
  <1>1. idle' \subseteq Names
    BY DEF Store, Use, Shape, TypeOK
  <1>2. CASE cache[n] # None
    <2>1. /\ inst' = [inst EXCEPT ![h] = Shut(@)]
          /\ Finish(d, cache[n])
          /\ UNCHANGED cache
      BY <1>2 DEF Store
    <2>2. /\ JobsFit(d) /\ job'[d].hold = None
          /\ health' \in [Runtimes -> {"ok", "recent", "old"}]
          /\ flight' \in [Names -> Dialers \cup {None}]
      BY <1>0, <2>1, FinishFit
    <2>3. Closes(d)
      BY <1>0, <2>1, <2>2 DEF Closes, JobsFit
    <2>4. inst' \in [Insts -> InstStates]
      BY <1>0, <2>1 DEF Shape, TypeOK, Shut, InstStates
    <2>5. TypeOK'
      BY <1>1, <2>1, <2>2, <2>4 DEF Store, Shape, TypeOK, JobsFit
    <2> QED
      BY <2>2, <2>3, <2>5 DEF Good, Shape, Kinds, JobsFit
  <1>3. CASE cache[n] = None
    <2>1. /\ cache' = [cache EXCEPT ![n] = h]
          /\ Finish(d, h)
          /\ UNCHANGED inst
      BY <1>3 DEF Store
    <2>2. /\ JobsFit(d) /\ job'[d].hold = None
          /\ health' \in [Runtimes -> {"ok", "recent", "old"}]
          /\ flight' \in [Names -> Dialers \cup {None}]
      BY <1>0, <2>1, FinishFit
    <2>3. Stores(d, n)
      BY <1>0, <1>3, <2>1, <2>2 DEF Stores, JobsFit
    <2>4. cache' \in [Names -> Insts \cup {None}]
      BY <1>0, <2>1 DEF Shape, TypeOK
    <2>5. TypeOK'
      BY <1>1, <2>1, <2>2, <2>4 DEF Store, Shape, TypeOK, JobsFit
    <2> QED
      BY <1>0, <2>2, <2>3, <2>5 DEF Good, Shape, Kinds, JobsFit
  <1> QED
    BY <1>2, <1>3

LEMMA ConnectedFit ==
  ASSUME Shape, NEW d \in Dialers, Connected(d), job[d].pc \in {"listen", "relisten"}
  PROVE  JobsFit(d) /\ job'[d].hold = job[d].hold
  <1> DEFINE k == [job[d] EXCEPT !.pc = "register", !.rt = 0, !.then = "once"]
  <1>0. job[d] \in Jobs /\ Hand(job[d]) /\ job[d].hold = None /\ job[d].name \in Names
    BY DEF Shape, TypeOK, Hands, Hand
  <1>1. k \in Jobs /\ k.pc = "register" /\ k.hold = job[d].hold /\ k.name = job[d].name
    BY <1>0, ConnectedJob
  <1>2. Hand(k)
    BY <1>0, <1>1 DEF Hand
  <1> QED
    BY <1>1, <1>2, OneJob DEF Connected

LEMMA ListenGood ==
  ASSUME Shape, NEW d \in Dialers, Listen(d)
  PROVE  Good
  <1>0. job[d] \in Jobs /\ Hand(job[d]) /\ job[d].hold = None /\ job[d].name \in Names
    BY DEF Shape, TypeOK, Hands, Hand, Listen
  <1>1. health' \in [Runtimes -> {"ok", "recent", "old"}]
    BY DEF Listen, Shape, TypeOK
  <1>2. JobsFit(d) /\ job'[d].hold = job[d].hold
    <2>1. CASE Connected(d)
      BY <2>1, ConnectedFit DEF Listen
    <2>2. CASE job' = [job EXCEPT ![d] = [@ EXCEPT !.pc = "do_take", !.then = "relisten"]]
      <3> DEFINE k == [job[d] EXCEPT !.pc = "do_take", !.then = "relisten"]
      <3>1. k \in Jobs /\ k.pc = "do_take" /\ k.hold = job[d].hold
            /\ k.name = job[d].name
        BY <1>0, DoTakeJob
      <3>2. Hand(k)
        BY <1>0, <3>1 DEF Hand
      <3> QED
        BY <2>2, <3>1, <3>2, OneJob
    <2>3. CASE job' = [job EXCEPT ![d] = NoJob]
      BY <1>0, <2>3, IdleFit
    <2> QED
      BY <2>1, <2>2, <2>3 DEF Listen
  <1> QED
    BY <1>1, <1>2, QuietStep DEF Listen, Shape, TypeOK

LEMMA RelistenGood ==
  ASSUME Shape, NEW d \in Dialers, Relisten(d)
  PROVE  Good
  <1>0. job[d].hold = None
    BY DEF Shape, TypeOK, Hands, Hand, Relisten
  <1>1. health' \in [Runtimes -> {"ok", "recent", "old"}]
    BY DEF Relisten, Shape, TypeOK
  <1>2. JobsFit(d) /\ job'[d].hold = job[d].hold
    BY <1>0, ConnectedFit, IdleFit DEF Relisten
  <1> QED
    BY <1>1, <1>2, QuietStep DEF Relisten, Shape, TypeOK

LEMMA RegisterGood ==
  ASSUME Shape, NEW d \in Dialers, Register(d)
  PROVE  Good
  <1>0. job[d].hold = None /\ job[d].pc # "idle" /\ job[d].name \in Names
    BY DEF Shape, TypeOK, Hands, Hand, Register
  <1>1. health' \in [Runtimes -> {"ok", "recent", "old"}] /\ conns' \in [Runtimes -> Nat]
    BY <1>0 DEF Register, Shape, TypeOK, Cfgs
  <1>2. JobsFit(d) /\ job'[d].hold = job[d].hold
    <2>1. CASE GoTo(d, "open")
      BY <1>0, <2>1, GoToFit DEF Places
    <2>2. CASE job' = [job EXCEPT ![d] = NoJob]
      BY <1>0, <2>2, IdleFit
    <2> QED
      BY <2>1, <2>2 DEF Register
  <1> QED
    BY <1>1, <1>2, QuietStep DEF Register, Shape, TypeOK

LEMMA CloseConnGood ==
  ASSUME Shape, NEW d \in Dialers, CloseConn(d)
  PROVE  Good
  <1>0. job[d].hold = None /\ job[d].name \in Names
    BY DEF Shape, TypeOK, Hands, Hand, CloseConn
  <1>1. conns' \in [Runtimes -> Nat]
    <2> DEFINE r == Runtime(job[d].name)
    <2>1. r \in Runtimes
      BY <1>0 DEF Shape, TypeOK, Cfgs, Runtime, Runtimes
    <2>2. conns' = conns \/ (conns[r] > 0 /\ conns' = [conns EXCEPT ![r] = @ - 1])
      BY DEF CloseConn
    <2> HIDE DEF r
    <2> QED
      BY <2>1, <2>2 DEF Shape, TypeOK
  <1>2. JobsFit(d) /\ job'[d].hold = job[d].hold
    BY <1>0, IdleFit DEF CloseConn
  <1> QED
    BY <1>1, <1>2, QuietStep DEF CloseConn, Shape, TypeOK

-----------------------------------------------------------------------------
(* Management and time: the jobs stay as they are.                         *)

\* A step that leaves jobs, instances and cache alone is quiet.
LEMMA AsideStep ==
  ASSUME Shape, UNCHANGED <<cache, inst, made, flight, job, conns, stopped>>,
         cfg' \in [Names -> Cfgs], stamp' \in Stamps,
         health' \in [Runtimes -> {"ok", "recent", "old"}], idle' \subseteq Names
  PROVE  Good
  <1>1. Quiet
    BY DEF Quiet, SameHolds
  <1>2. TypeOK'
    BY DEF Shape, TypeOK
  <1>3. Hands'
    BY DEF Shape, Hands
  <1> QED
    BY <1>1, <1>2, <1>3 DEF Good, Shape, Kinds

\* Drop is a turn that creates nothing.
LEMMA DropStep ==
  ASSUME Shape, NEW out \in SUBSET Names, Drop(out),
         UNCHANGED <<conns, health, made, flight, job>>,
         cfg' \in [Names -> Cfgs], stamp' \in Stamps, stopped' \in BOOLEAN
  PROVE  Good
  <1> DEFINE none == [n \in {} |-> None]
  <1>1. none \in [{} -> Insts] /\ DOMAIN none = {}
    OBVIOUS
  <1>2. Turns(out, none)
    <2>1. cache' = [n \in Names |-> IF n \in DOMAIN none THEN none[n]
                                 ELSE IF n \in out THEN None ELSE cache[n]]
      BY <1>1 DEF Drop
    <2>2. inst' = [i \in Insts |-> IF \E n \in DOMAIN none : none[n] = i THEN "open"
                                ELSE IF \E n \in out : cache[n] = i
                                THEN Shut(inst[i]) ELSE inst[i]]
      BY <1>1 DEF Drop
    <2> QED
      BY <1>1, <2>1, <2>2 DEF Turns
  <1>3. Kinds
    BY <1>1, <1>2 DEF Kinds
  <1>4. cache' \in [Names -> Insts \cup {None}]
    BY DEF Drop, Shape, TypeOK
  <1>5. inst' \in [Insts -> InstStates]
    BY DEF Drop, Shut, InstStates, Shape, TypeOK
  <1>6. idle' \subseteq Names
    BY DEF Drop, Shape, TypeOK
  <1>7. TypeOK'
    BY <1>4, <1>5, <1>6 DEF Shape, TypeOK
  <1>8. Hands'
    BY DEF Shape, Hands
  <1> QED
    BY <1>3, <1>7, <1>8 DEF Good, Shape

LEMMA NextStamp == ASSUME TypeOK, stamp < MaxStamp PROVE stamp + 1 \in Stamps
  BY Constants DEF TypeOK, Stamps

LEMMA NoCfgCfg == NoCfg \in Cfgs
  BY ZeroStamp DEF NoCfg, Cfgs

LEMMA AddGood == ASSUME Shape, NEW n \in Names, AddOutbound(n) PROVE Good
  <1>1. stamp + 1 \in Stamps
    BY NextStamp DEF Shape, AddOutbound
  <1>2. cfg' \in [Names -> Cfgs]
    BY <1>1 DEF AddOutbound, Shape, TypeOK, Cfgs
  <1> QED
    BY <1>1, <1>2, AsideStep DEF AddOutbound, Shape, TypeOK

LEMMA DeleteGood == ASSUME Shape, NEW n \in Names, DeleteOutbound(n) PROVE Good
  <1>1. cfg' \in [Names -> Cfgs]
    BY NoCfgCfg DEF DeleteOutbound, Shape, TypeOK
  <1> QED
    BY <1>1, DropStep DEF DeleteOutbound, Shape, TypeOK

LEMMA UpdateGood == ASSUME Shape, NEW n \in Names, UpdateOutbound(n) PROVE Good
  BY DropStep DEF UpdateOutbound, Shape, TypeOK

LEMMA ReplaceGood ==
  ASSUME Shape, NEW n \in Names, NEW m \in Names, NEW on \in BOOLEAN,
         ReplaceOutbound(n, m, on)
  PROVE  Good
  <1>1. stamp + 1 \in Stamps
    BY NextStamp DEF Shape, ReplaceOutbound
  <1>2. [ver |-> stamp + 1, rt |-> stamp + 1, enabled |-> on, there |-> TRUE] \in Cfgs
    BY <1>1 DEF Cfgs
  <1>3. cfg' \in [Names -> Cfgs]
    BY <1>2, NoCfgCfg DEF ReplaceOutbound, Shape, TypeOK
  <1> QED
    BY <1>1, <1>3, DropStep DEF ReplaceOutbound, Shape, TypeOK

LEMMA SyncGood == ASSUME Shape, NEW n \in Names, SyncOutbound(n) PROVE Good
  <1>1. stamp + 1 \in Stamps
    BY NextStamp DEF Shape, SyncOutbound
  <1>2. [cfg[n] EXCEPT !.rt = stamp + 1] \in Cfgs
    BY <1>1 DEF Shape, TypeOK, Cfgs
  <1>3. cfg' \in [Names -> Cfgs]
    BY <1>2 DEF SyncOutbound, Shape, TypeOK
  <1> QED
    BY <1>1, <1>3, DropStep DEF SyncOutbound, Shape, TypeOK

LEMMA CleanupGood == ASSUME Shape, Cleanup PROVE Good
  <1> DEFINE out == {n \in idle : /\ cache[n] # None
                                  /\ ~(There(n) /\ conns[Runtime(n)] > 0)}
  <1>1. out \in SUBSET Names
    BY DEF Shape, TypeOK
  <1>2. Drop(out)
    BY DEF Cleanup
  <1> QED
    BY <1>1, <1>2, DropStep DEF Cleanup, Shape, TypeOK

LEMMA StopGood == ASSUME Shape, StopManager PROVE Good
  BY DropStep DEF StopManager, Shape, TypeOK

LEMMA ReloadGood ==
  ASSUME Shape, NEW S \in SUBSET Names, NEW new \in [S -> Insts], Reload(new)
  PROVE  Good
  <1> DEFINE out == {n \in Names : cache[n] # None /\ ~(There(n) /\ cfg[n].enabled)}
             fresh == {new[n] : n \in DOMAIN new}
  <1>0. DOMAIN new = S /\ out \in SUBSET Names
    OBVIOUS
  <1>1. cache' = [n \in Names |-> IF n \in DOMAIN new THEN new[n]
                                   ELSE IF n \in out THEN None ELSE cache[n]]
    BY DEF Reload
  <1>2. inst' = [i \in Insts |-> IF i \in fresh THEN "open"
                                  ELSE IF \E n \in out : cache[n] = i
                                  THEN Shut(inst[i]) ELSE inst[i]]
    BY DEF Reload
  <1>3. inst' = [i \in Insts |-> IF \E n \in DOMAIN new : new[n] = i THEN "open"
                                  ELSE IF \E n \in out : cache[n] = i
                                  THEN Shut(inst[i]) ELSE inst[i]]
    <2>1. \A i \in Insts : i \in fresh <=> \E n \in DOMAIN new : new[n] = i
      OBVIOUS
    <2> QED
      BY <1>2, <2>1
  <1>4. /\ \A n \in DOMAIN new : /\ n \in Names /\ new[n] \in Insts
                                 /\ cache[n] = None /\ inst[new[n]] = "unborn"
        /\ \A n, m \in DOMAIN new : new[n] = new[m] => n = m
    BY <1>0 DEF Reload
  <1>5. Turns(out, new)
    BY <1>0, <1>1, <1>3, <1>4 DEF Turns, Reload
  <1>6. Kinds
    BY <1>0, <1>5 DEF Kinds
  <1>7. cache' \in [Names -> Insts \cup {None}]
    BY <1>1, <1>4 DEF Shape, TypeOK
  <1>8. inst' \in [Insts -> InstStates]
    BY <1>2 DEF Shut, InstStates, Shape, TypeOK
  <1>9. made' \in [Insts -> Stamps]
    <2> DEFINE at(i) == CHOOSE n \in DOMAIN new : new[n] = i
    <2>1. \A i \in fresh : at(i) \in Names
      BY <1>0
    <2>2. \A i \in fresh : cfg[at(i)].ver \in Stamps
      BY <2>1 DEF Shape, TypeOK, Cfgs
    <2>3. made' = [i \in Insts |-> IF i \in fresh THEN cfg[at(i)].ver ELSE made[i]]
      BY DEF Reload
    <2> HIDE DEF at, fresh
    <2> QED
      BY <2>2, <2>3 DEF Shape, TypeOK
  <1>10. idle' \subseteq Names
    BY DEF Reload, Shape, TypeOK
  <1>11. health' \in [Runtimes -> {"ok", "recent", "old"}]
    BY DEF Reload, Shape, TypeOK
  <1>12. TypeOK'
    BY <1>7, <1>8, <1>9, <1>10, <1>11 DEF Reload, Shape, TypeOK
  <1>13. Hands'
    BY DEF Shape, Hands, Reload
  <1> QED
    BY <1>6, <1>12, <1>13 DEF Good, Shape

LEMMA HealthGood ==
  ASSUME Shape, NEW n \in Names, NEW ok \in BOOLEAN, CheckHealth(n, ok)
  PROVE  Good
  <1>1. health' \in [Runtimes -> {"ok", "recent", "old"}]
    BY DEF CheckHealth, Shape, TypeOK
  <1> QED
    BY <1>1, AsideStep DEF CheckHealth, Shape, TypeOK

LEMMA IdleGood == ASSUME Shape, NEW n \in Names, GrowIdle(n) PROVE Good
  <1>1. idle' \subseteq Names
    BY DEF GrowIdle, Shape, TypeOK
  <1> QED
    BY <1>1, AsideStep DEF GrowIdle, Shape, TypeOK

LEMMA OldGood == ASSUME Shape, NEW r \in Runtimes, CheckGrowsOld(r) PROVE Good
  <1>1. health' \in [Runtimes -> {"ok", "recent", "old"}]
    BY DEF CheckGrowsOld, Shape, TypeOK
  <1> QED
    BY <1>1, AsideStep DEF CheckGrowsOld, Shape, TypeOK

-----------------------------------------------------------------------------
(* The theorems.                                                           *)

LEMMA DialStepGood ==
  ASSUME Shape, NEW d \in Dialers, DialStep(d)
  PROVE  Good
  BY OnceGood, GetGood, JoinGood, CheckGood, ReadGood, TakeGood, CloseGood,
     CreateGood, StoreGood, ListenGood, RelistenGood, RegisterGood DEF DialStep

LEMMA StepGood == ASSUME Shape, [Next]_vars PROVE Good
  <1>1. CASE UNCHANGED vars
    BY <1>1, AsideStep DEF vars, Shape, TypeOK
  <1>2. CASE \E d \in Dialers : DialStep(d) \/ CloseConn(d)
    BY <1>2, DialStepGood, CloseConnGood
  <1>3. CASE \E d \in Dialers, n \in Names : Dial(d, n)
    BY <1>3, DialGood
  <1>4. CASE \E n \in Names : AddOutbound(n) \/ DeleteOutbound(n)
    BY <1>4, AddGood, DeleteGood
  <1>5. CASE \E n \in Names : UpdateOutbound(n) \/ SyncOutbound(n)
    BY <1>5, UpdateGood, SyncGood
  <1>6. CASE \E n \in Names, ok \in BOOLEAN : CheckHealth(n, ok)
    BY <1>6, HealthGood
  <1>7. CASE \E n, m \in Names, on \in BOOLEAN : ReplaceOutbound(n, m, on)
    BY <1>7, ReplaceGood
  <1>8. CASE Cleanup
    BY <1>8, CleanupGood
  <1>9. CASE \E S \in SUBSET Names : \E new \in [S -> Insts] : Reload(new)
    BY <1>9, ReloadGood
  <1>10. CASE StopManager
    BY <1>10, StopGood
  <1>11. CASE \E n \in Names : GrowIdle(n)
    BY <1>11, IdleGood
  <1>12. CASE \E r \in Runtimes : CheckGrowsOld(r)
    BY <1>12, OldGood
  <1> QED
    BY <1>1, <1>2, <1>3, <1>4, <1>5, <1>6, <1>7, <1>8, <1>9, <1>10, <1>11, <1>12
       DEF Next

LEMMA InitShape == ASSUME Init PROVE Shape /\ Custody
  <1>1. [NoCfg EXCEPT !.enabled = TRUE, !.there = TRUE] \in Cfgs
    BY ZeroStamp DEF NoCfg, Cfgs
  <1>2. cfg \in [Names -> Cfgs]
    BY <1>1 DEF Init
  <1>3. job \in [Dialers -> Jobs] /\ \A d \in Dialers : job[d] = NoJob
    BY NoJobJob DEF Init
  <1>4. conns \in [Runtimes -> Nat]
    BY DEF Init
  <1>5. /\ stamp \in Stamps /\ made \in [Insts -> Stamps]
    BY ZeroStamp DEF Init
  <1>6. TypeOK
    BY <1>2, <1>3, <1>4, <1>5 DEF Init, TypeOK, InstStates
  <1>7. Hands
    BY <1>3, NoJobJob DEF Hands, Hand
  <1>8. \A d \in Dialers : job[d].hold = None
    BY <1>3, NoJobJob
  <1>9. Custody
    BY <1>8 DEF Init, Custody
  <1> QED
    BY <1>6, <1>7, <1>9 DEF Shape

\* Every variable of the outbound manager keeps its type, whatever dials and
\* management operations run beside each other.
THEOREM TypeCorrect == Spec => []TypeOK
  <1>1. Init => Shape
    BY InitShape
  <1>2. Shape /\ [Next]_vars => Shape'
    BY StepGood DEF Good
  <1>3. Shape => TypeOK
    BY DEF Shape
  <1> QED
    BY <1>1, <1>2, <1>3, PTL DEF Spec

\* An open sing-box instance always has exactly one owner, the cache under one
\* name or one dialer inside getOrCreateSingboxOutbound or
\* recreateSingboxOutbound, and no instance is closed twice.
THEOREM CustodyHolds == Spec => []Custody
  <1>1. Init => Shape /\ Custody
    BY InitShape
  <1>2. Shape /\ Custody /\ [Next]_vars => Shape' /\ Custody'
    <2> SUFFICES ASSUME Shape, Custody, [Next]_vars PROVE Shape' /\ Custody'
      OBVIOUS
    <2>1. Shape' /\ Kinds
      BY StepGood DEF Good
    <2> QED
      BY <2>1, KindsCustody DEF Shape
  <1> QED
    BY <1>1, <1>2, PTL DEF Spec

-----------------------------------------------------------------------------
(* The course of a dial: where each dialer is in the singleflight group,   *)
(* which instance it has got, and whom the connections are counted for.    *)

\* The places of the function that runs inside singleflight.Group.Do.
Leading == {"check", "read", "take", "close", "create", "store"}

Busy == Leading \cup {"wait"}

\* The leader of a name is inside the function for that name, and conversely.
Led ==
    /\ \A n \in Names : flight[n] # None =>
          job[flight[n]].name = n /\ job[flight[n]].pc \in Leading
    /\ \A d \in Dialers : job[d].pc \in Leading => flight[job[d].name] = d
    /\ \A d \in Dialers : job[d].pc = "wait" => flight[job[d].name] # None

\* What a dialer has got was created before, is not the instance another one is
\* about to store, and is cached under no name but the dialer's.
Known ==
    /\ \A d \in Dialers : job[d].got # None => inst[job[d].got] # "unborn"
    /\ \A d, e \in Dialers : job[d].pc = "store" => job[e].got # job[d].hold
    /\ \A d \in Dialers, n \in Names :
         cache[n] # None /\ cache[n] = job[d].got => job[d].name = n

\* A node with a dial that has got an instance is not idle.
Recent == \A d \in Dialers : job[d].pc \in Dialing => job[d].name \notin idle

-----------------------------------------------------------------------------
(* The kinds of steps again, by what they do to the jobs.                  *)

Same(d) == \A e \in Dialers \ {d} : job'[e] = job[e]

\* No name gets an instance that was there before the step.
Keeps == \A n \in Names : \/ cache'[n] \in {cache[n], None}
                          \/ cache'[n] \in Insts /\ inst[cache'[n]] = "unborn"

\* A node that has its first runtime state after the step had it before.
SameCount ==
    \A n \in Names : (Original(n))' => Original(n) /\ conns'[<<n, 0>>] = conns[<<n, 0>>]

\* The jobs stay; a node with a dial under way does not become idle.
Rests ==
    /\ UNCHANGED <<job, flight>>
    /\ Keeps /\ SameCount
    /\ \A d \in Dialers : job[d].pc \in Dialing => job[d].name \notin idle' \ idle

\* From j to k outside the function, or inside it; k has got nothing new.
Walk(j, k) ==
    /\ \/ j.pc \notin Busy /\ k.pc \notin Busy
       \/ j.pc \in Leading /\ k.pc \in Leading /\ k.name = j.name
    /\ k.got = None \/ (k.got = j.got /\ k.name = j.name)
    /\ k.pc \in Dialing => j.pc \in Dialing /\ k.name = j.name
    /\ k.pc = "store" => k.hold \in Insts /\ inst[k.hold] = "unborn"

Walks(d) ==
    /\ Same(d) /\ Walk(job[d], job'[d])
    /\ job[d].pc # "open" /\ job'[d].pc # "open"
    /\ Keeps /\ idle' \subseteq idle
    /\ UNCHANGED <<flight, cfg, conns>>

\* A connection is counted up or down, or its node is gone.
Counts(d) ==
    /\ Same(d) /\ Walk(job[d], job'[d])
    /\ UNCHANGED <<flight, cfg, cache, idle>>
    /\ LET n == job[d].name IN
       \/ /\ job[d].pc # "open" /\ job'[d].pc = "open" /\ job'[d].name = n
          /\ There(n) /\ conns' = [conns EXCEPT ![Runtime(n)] = @ + 1]
       \/ /\ job[d].pc = "open" /\ job'[d].pc # "open"
          /\ conns' = IF There(n) /\ conns[Runtime(n)] > 0
                      THEN [conns EXCEPT ![Runtime(n)] = @ - 1] ELSE conns

\* d enters the function or waits for the one who is in it.
Joins(d) ==
    /\ Same(d)
    /\ job'[d].name = job[d].name /\ job'[d].got = job[d].got
    /\ job[d].pc \in {"do_get", "do_take"} /\ job'[d].pc \in {"check", "take", "wait"}
    /\ \/ /\ flight[job[d].name] = None /\ job'[d].pc \in {"check", "take"}
          /\ flight' = [flight EXCEPT ![job[d].name] = d]
       \/ /\ flight[job[d].name] # None /\ job'[d].pc = "wait"
          /\ UNCHANGED flight
    /\ UNCHANGED <<cfg, conns, cache, idle>>

\* d finds an instance in the cache.
Finds(d) ==
    /\ Same(d)
    /\ job'[d].name = job[d].name /\ job'[d].got = cache[job[d].name]
    /\ cache[job[d].name] # None
    /\ job[d].pc = "get" /\ job'[d].pc = "listen"
    /\ idle' = idle \ {job[d].name}
    /\ UNCHANGED <<flight, cfg, conns, cache>>

\* The function returns i to d and to those who wait for it.
Returns(d, i) ==
    /\ job[d].pc \in Leading
    /\ flight' = [flight EXCEPT ![job[d].name] = None]
    /\ \A e \in Dialers \ Party(d) : job'[e] = job[e]
    /\ \A e \in Party(d) :
         \/ i = None /\ job'[e] = NoJob
         \/ /\ i # None
            /\ job'[e].pc \in {"once", "listen", "relisten"}
            /\ job'[e].name = job[e].name /\ job'[e].got = i
    /\ \/ i = None /\ UNCHANGED <<cache, idle>>
       \/ /\ i # None /\ idle' = idle \ {job[d].name}
          /\ \/ i = cache[job[d].name] /\ UNCHANGED cache
             \/ /\ job[d].pc = "store" /\ i = job[d].hold
                /\ cache' = [cache EXCEPT ![job[d].name] = i]
    /\ UNCHANGED <<cfg, conns>>

Moves ==
    \/ Rests
    \/ \E d \in Dialers : Walks(d) \/ Counts(d) \/ Joins(d) \/ Finds(d)
    \/ \E d \in Dialers, i \in Insts \cup {None} : Returns(d, i)

-----------------------------------------------------------------------------
(* Each action is of one of these kinds.                                   *)

\* What one changed job means for the others.
LEMMA OneSame ==
  ASSUME Shape, NEW d \in Dialers, NEW k, job' = [job EXCEPT ![d] = k]
  PROVE  Same(d) /\ job'[d] = k
  BY DEF Same, Shape, TypeOK

LEMMA NoJobFields ==
  /\ NoJob.pc = "idle" /\ NoJob.name = None /\ NoJob.got = None /\ NoJob.hold = None
  BY DEF NoJob

LEMMA QuitWalk ==
  ASSUME NEW j \in Jobs, j.pc \notin Busy PROVE Walk(j, NoJob)
  BY NoJobFields DEF Walk, Busy, Leading, Dialing

LEMMA UnchangedKeeps == ASSUME UNCHANGED cache PROVE Keeps
  BY DEF Keeps

LEMMA DialMoves ==
  ASSUME Shape, NEW d \in Dialers, NEW n \in Names, Dial(d, n)
  PROVE  Moves
  <1>1. PICK p \in {"do_take", "once"} :
           job' = [job EXCEPT ![d] = [NoJob EXCEPT !.name = n, !.pc = p]]
    BY DEF Dial
  <1> DEFINE k == [NoJob EXCEPT !.name = n, !.pc = p]
  <1>2. k.pc = p /\ k.got = None
    BY DEF NoJob
  <1>3. Same(d) /\ job'[d] = k
    BY <1>1, OneSame
  <1> HIDE DEF k
  <1>4. Walk(job[d], job'[d])
    BY <1>2, <1>3 DEF Walk, Dial, Busy, Leading, Dialing
  <1>5. Walks(d)
    BY <1>2, <1>3, <1>4, UnchangedKeeps DEF Walks, Dial
  <1> QED
    BY <1>5 DEF Moves

LEMMA OnceMoves ==
  ASSUME Shape, NEW d \in Dialers, Once(d)
  PROVE  Moves
  <1>0. job[d] \in Jobs /\ job[d].pc = "once"
    BY DEF Shape, TypeOK, Once
  <1>1. Same(d) /\ Walk(job[d], job'[d]) /\ job'[d].pc # "open"
    <2>1. CASE There(job[d].name)
      <3> DEFINE k == [job[d] EXCEPT !.pc = "get", !.rt = cfg[job[d].name].rt,
                                     !.got = None]
      <3>1. k.pc = "get" /\ k.got = None
        BY <1>0 DEF Jobs
      <3>2. Same(d) /\ job'[d] = k
        BY <2>1, OneSame DEF Once
      <3> HIDE DEF k
      <3> QED
        BY <1>0, <3>1, <3>2 DEF Walk, Busy, Leading, Dialing
    <2>2. CASE ~There(job[d].name)
      <3>1. Same(d) /\ job'[d] = NoJob
        BY <2>2, OneSame DEF Once
      <3> QED
        BY <1>0, <3>1, QuitWalk, NoJobFields DEF Busy, Leading
    <2> QED
      BY <2>1, <2>2
  <1>2. Walks(d)
    BY <1>0, <1>1, UnchangedKeeps DEF Walks, Once
  <1> QED
    BY <1>2 DEF Moves

LEMMA GetMoves ==
  ASSUME Shape, NEW d \in Dialers, Get(d)
  PROVE  Moves
  <1>0. job[d] \in Jobs /\ job[d].pc = "get"
    BY DEF Shape, TypeOK, Get
  <1>1. CASE cache[job[d].name] # None
    <2> DEFINE k == [job[d] EXCEPT !.pc = "listen", !.got = cache[job[d].name]]
    <2>1. k.pc = "listen" /\ k.got = cache[job[d].name] /\ k.name = job[d].name
      BY <1>0 DEF Jobs
    <2>2. Same(d) /\ job'[d] = k
      BY <1>1, OneSame DEF Get
    <2> HIDE DEF k
    <2>3. Finds(d)
      BY <1>0, <1>1, <2>1, <2>2 DEF Finds, Get, Use
    <2> QED
      BY <2>3 DEF Moves
  <1>2. CASE cache[job[d].name] = None
    <2> DEFINE k == [job[d] EXCEPT !.pc = "do_get", !.then = "listen"]
    <2>1. k.pc = "do_get" /\ k.got = job[d].got /\ k.name = job[d].name
      BY <1>0 DEF Jobs
    <2>2. Same(d) /\ job'[d] = k
      BY <1>2, OneSame DEF Get
    <2> HIDE DEF k
    <2>3. Walk(job[d], job'[d])
      BY <1>0, <2>1, <2>2 DEF Walk, Busy, Leading, Dialing
    <2>4. Walks(d)
      BY <1>0, <1>2, <2>1, <2>2, <2>3, UnchangedKeeps DEF Walks, Get
    <2> QED
      BY <2>4 DEF Moves
  <1> QED
    BY <1>1, <1>2

\* A job that only goes to p.
LEMMA GoToSame ==
  ASSUME Shape, NEW d \in Dialers, NEW p, GoTo(d, p)
  PROVE  /\ Same(d) /\ job'[d].pc = p
         /\ job'[d].name = job[d].name /\ job'[d].got = job[d].got
         /\ job'[d].hold = job[d].hold
  <1> DEFINE k == [job[d] EXCEPT !.pc = p]
  <1>0. job[d] \in Jobs
    BY DEF Shape, TypeOK
  <1>1. /\ k.pc = p /\ k.got = job[d].got /\ k.name = job[d].name
        /\ k.hold = job[d].hold
    BY <1>0 DEF Jobs
  <1>2. Same(d) /\ job'[d] = k
    BY OneSame DEF GoTo
  <1> QED
    BY <1>1, <1>2

LEMMA JoinMoves ==
  ASSUME Shape, NEW d \in Dialers, NEW at \in {"do_get", "do_take"},
         NEW first \in {"check", "take"}, Join(d, at, first)
  PROVE  Moves
  <1>1. CASE flight[job[d].name] = None
    <2>1. GoTo(d, first) /\ flight' = [flight EXCEPT ![job[d].name] = d]
      BY <1>1 DEF Join
    <2>2. Joins(d)
      BY <1>1, <2>1, GoToSame DEF Joins, Join
    <2> QED
      BY <2>2 DEF Moves
  <1>2. CASE flight[job[d].name] # None
    <2>1. GoTo(d, "wait") /\ UNCHANGED flight
      BY <1>2 DEF Join
    <2>2. Joins(d)
      BY <1>2, <2>1, GoToSame DEF Joins, Join
    <2> QED
      BY <2>2 DEF Moves
  <1> QED
    BY <1>1, <1>2

\* The end of the function.
LEMMA FinishReturns ==
  ASSUME Shape, NEW d \in Dialers, NEW i \in Insts \cup {None}, Finish(d, i)
  PROVE  /\ flight' = [flight EXCEPT ![job[d].name] = None]
         /\ \A e \in Dialers \ Party(d) : job'[e] = job[e]
         /\ \A e \in Party(d) :
              \/ i = None /\ job'[e] = NoJob
              \/ /\ i # None
                 /\ job'[e].pc \in {"once", "listen", "relisten"}
                 /\ job'[e].name = job[e].name /\ job'[e].got = i
  <1>1. flight' = [flight EXCEPT ![job[d].name] = None]
        /\ \A e \in Dialers \ Party(d) : job'[e] = job[e]
    BY DEF Finish
  <1>2. ASSUME NEW e \in Party(d)
        PROVE  \/ i = None /\ job'[e] = NoJob
               \/ /\ i # None
                  /\ job'[e].pc \in {"once", "listen", "relisten"}
                  /\ job'[e].name = job[e].name /\ job'[e].got = i
    <2>0. e \in Dialers
      BY DEF Party
    <2>1. CASE i = None
      BY <2>0, <2>1 DEF Finish
    <2>2. CASE i # None
      <3> DEFINE q == job[e].then
                 k == [job[e] EXCEPT !.pc = q, !.got = i, !.hold = None]
      <3>1. job'[e] = k
        BY <2>0, <2>2 DEF Finish
      <3>2. job[e] \in Jobs
        BY <2>0 DEF Shape, TypeOK
      <3>3. q \in {"once", "listen", "relisten"}
        BY <3>2 DEF Jobs
      <3>4. k.pc = q /\ k.name = job[e].name /\ k.got = i
        BY <3>2 DEF Jobs
      <3> QED
        BY <2>2, <3>1, <3>3, <3>4
    <2> QED
      BY <2>1, <2>2
  <1> QED
    BY <1>1, <1>2

\* A function that fails.
LEMMA FailMoves ==
  ASSUME Shape, NEW d \in Dialers, job[d].pc \in Leading, Finish(d, None),
         UNCHANGED <<cache, idle, cfg, conns>>
  PROVE  Moves
  <1>1. Returns(d, None)
    BY FinishReturns DEF Returns
  <1> QED
    BY <1>1 DEF Moves

\* A step inside the function.
LEMMA InsideMoves ==
  ASSUME Shape, NEW d \in Dialers, job[d].pc \in Leading, Same(d),
         job'[d].pc \in Leading \ {"store"},
         job'[d].name = job[d].name, job'[d].got = job[d].got,
         Keeps, idle' \subseteq idle, UNCHANGED <<flight, cfg, conns>>
  PROVE  Moves
  <1>1. Walk(job[d], job'[d])
    BY DEF Walk, Leading, Dialing
  <1>2. Walks(d)
    BY <1>1 DEF Walks, Leading
  <1> QED
    BY <1>2 DEF Moves

LEMMA CheckMoves ==
  ASSUME Shape, NEW d \in Dialers, Check(d)
  PROVE  Moves
  <1>0. job[d].pc = "check" /\ job[d].name \in Names
    BY DEF Check, Shape, Hands, Hand
  <1>1. CASE cache[job[d].name] # None
    <2>1. /\ Finish(d, cache[job[d].name]) /\ cache[job[d].name] \in Insts
          /\ idle' = idle \ {job[d].name}
      BY <1>0, <1>1 DEF Check, Shape, TypeOK, Use
    <2>2. Returns(d, cache[job[d].name])
      BY <1>0, <1>1, <2>1, FinishReturns DEF Returns, Check, Leading
    <2> QED
      BY <2>1, <2>2 DEF Moves
  <1>2. CASE cache[job[d].name] = None
    <2>1. GoTo(d, "read") /\ UNCHANGED <<idle, flight>>
      BY <1>2 DEF Check
    <2> QED
      BY <1>0, <2>1, GoToSame, InsideMoves, UnchangedKeeps DEF Check, Leading
  <1> QED
    BY <1>1, <1>2

LEMMA ReadMoves ==
  ASSUME Shape, NEW d \in Dialers, Read(d)
  PROVE  Moves
  <1>0. job[d] \in Jobs /\ job[d].pc = "read" /\ job[d].pc \in Leading
    BY DEF Read, Shape, TypeOK, Leading
  <1>1. CASE Finish(d, None)
    BY <1>0, <1>1, FailMoves DEF Read
  <1>2. CASE There(job[d].name) /\ ~Finish(d, None)
    <2> DEFINE k == [job[d] EXCEPT !.pc = "create", !.ver = cfg[job[d].name].ver]
    <2>1. k.pc = "create" /\ k.got = job[d].got /\ k.name = job[d].name
      BY <1>0 DEF Jobs
    <2>2. Same(d) /\ job'[d] = k /\ UNCHANGED flight
      BY <1>2, OneSame DEF Read
    <2> HIDE DEF k
    <2> QED
      BY <1>0, <2>1, <2>2, InsideMoves, UnchangedKeeps DEF Read, Leading
  <1> QED
    BY <1>1, <1>2 DEF Read

LEMMA TakeMoves ==
  ASSUME Shape, NEW d \in Dialers, Take(d)
  PROVE  Moves
  <1>0. /\ job[d] \in Jobs /\ job[d].pc = "take" /\ job[d].pc \in Leading
        /\ job[d].name \in Names
    BY DEF Take, Shape, TypeOK, Leading, Hands, Hand
  <1>1. CASE Finish(d, None) /\ UNCHANGED <<cache, idle>>
    BY <1>0, <1>1, FailMoves DEF Take
  <1>2. CASE There(job[d].name)
    <2> DEFINE k == [job[d] EXCEPT !.pc = "close", !.ver = cfg[job[d].name].ver,
                                   !.hold = cache[job[d].name]]
    <2>1. k.pc = "close" /\ k.got = job[d].got /\ k.name = job[d].name
      BY <1>0 DEF Jobs
    <2>2. Same(d) /\ job'[d] = k /\ UNCHANGED flight
      BY <1>2, OneSame DEF Take
    <2>3. /\ cache' = [cache EXCEPT ![job[d].name] = None]
          /\ idle' \subseteq idle
      BY <1>2 DEF Take, Use
    <2>4. Keeps
      BY <1>0, <2>3 DEF Keeps, Shape, TypeOK
    <2> HIDE DEF k
    <2> QED
      BY <1>0, <2>1, <2>2, <2>3, <2>4, InsideMoves DEF Take, Leading
  <1> QED
    BY <1>1, <1>2 DEF Take

LEMMA CloseMoves ==
  ASSUME Shape, NEW d \in Dialers, Close(d)
  PROVE  Moves
  <1> DEFINE k == [job[d] EXCEPT !.pc = "create", !.hold = None]
  <1>0. job[d] \in Jobs /\ job[d].pc \in Leading
    BY DEF Close, Shape, TypeOK, Leading
  <1>1. k.pc = "create" /\ k.got = job[d].got /\ k.name = job[d].name
    BY <1>0 DEF Jobs
  <1>2. Same(d) /\ job'[d] = k
    BY OneSame DEF Close
  <1> HIDE DEF k
  <1> QED
    BY <1>0, <1>1, <1>2, InsideMoves, UnchangedKeeps DEF Close, Leading

LEMMA CreateMoves ==
  ASSUME Shape, NEW d \in Dialers, Create(d)
  PROVE  Moves
  <1>0. job[d] \in Jobs /\ job[d].pc = "create" /\ job[d].pc \in Leading
    BY DEF Create, Shape, TypeOK, Leading
  <1>1. CASE Finish(d, None)
    BY <1>0, <1>1, FailMoves DEF Create
  <1>2. ASSUME NEW i \in Insts, inst[i] = "unborn", UNCHANGED flight,
               job' = [job EXCEPT ![d] = [@ EXCEPT !.pc = "store", !.hold = i,
                                                   !.ver = 0]]
        PROVE  Moves
    <2> DEFINE k == [job[d] EXCEPT !.pc = "store", !.hold = i, !.ver = 0]
    <2>1. /\ k.pc = "store" /\ k.got = job[d].got /\ k.name = job[d].name
          /\ k.hold = i
      BY <1>0 DEF Jobs
    <2>2. Same(d) /\ job'[d] = k
      BY <1>2, OneSame
    <2> HIDE DEF k
    <2>3. Walk(job[d], job'[d])
      BY <1>0, <1>2, <2>1, <2>2 DEF Walk, Leading, Dialing
    <2>4. Walks(d)
      BY <1>0, <1>2, <2>1, <2>2, <2>3, UnchangedKeeps DEF Walks, Create
    <2> QED
      BY <2>4 DEF Moves
  <1> QED
    BY <1>1, <1>2 DEF Create

LEMMA StoreMoves ==
  ASSUME Shape, NEW d \in Dialers, Store(d)
  PROVE  Moves
  <1>0. /\ job[d].pc = "store" /\ job[d].name \in Names
        /\ job[d].hold \in Insts /\ job[d].hold # None
        /\ idle' = idle \ {job[d].name}
    BY Constants DEF Store, Shape, TypeOK, Hands, Hand, Jobs, Use
  <1>1. CASE cache[job[d].name] # None
    <2>1. /\ Finish(d, cache[job[d].name]) /\ cache[job[d].name] \in Insts
          /\ UNCHANGED cache
      BY <1>0, <1>1 DEF Store, Shape, TypeOK
    <2>2. Returns(d, cache[job[d].name])
      BY <1>0, <1>1, <2>1, FinishReturns DEF Returns, Store, Leading
    <2> QED
      BY <2>1, <2>2 DEF Moves
  <1>2. CASE cache[job[d].name] = None
    <2>1. /\ Finish(d, job[d].hold)
          /\ cache' = [cache EXCEPT ![job[d].name] = job[d].hold]
      BY <1>2 DEF Store
    <2>2. Returns(d, job[d].hold)
      BY <1>0, <2>1, FinishReturns DEF Returns, Store, Leading
    <2> QED
      BY <1>0, <2>2 DEF Moves
  <1> QED
    BY <1>1, <1>2

LEMMA ConnectedWalk ==
  ASSUME Shape, NEW d \in Dialers, Connected(d), job[d].pc \in {"listen", "relisten"}
  PROVE  Same(d) /\ Walk(job[d], job'[d]) /\ job'[d].pc # "open"
  <1> DEFINE k == [job[d] EXCEPT !.pc = "register", !.rt = 0, !.then = "once"]
  <1>0. job[d] \in Jobs
    BY DEF Shape, TypeOK
  <1>1. k.pc = "register" /\ k.got = job[d].got /\ k.name = job[d].name
    BY <1>0 DEF Jobs
  <1>2. Same(d) /\ job'[d] = k
    BY OneSame DEF Connected
  <1> HIDE DEF k
  <1> QED
    BY <1>1, <1>2 DEF Walk, Busy, Leading, Dialing

LEMMA QuitSame ==
  ASSUME Shape, NEW d \in Dialers, job' = [job EXCEPT ![d] = NoJob], job[d].pc \notin Busy
  PROVE  Same(d) /\ Walk(job[d], job'[d]) /\ job'[d].pc # "open"
  <1>1. Same(d) /\ job'[d] = NoJob /\ job[d] \in Jobs
    BY OneSame DEF Shape, TypeOK
  <1> QED
    BY <1>1, QuitWalk, NoJobFields

LEMMA ListenMoves ==
  ASSUME Shape, NEW d \in Dialers, Listen(d)
  PROVE  Moves
  <1>0. job[d] \in Jobs /\ job[d].pc = "listen" /\ job[d].pc \notin Busy
    BY DEF Listen, Shape, TypeOK, Busy, Leading
  <1>1. Same(d) /\ Walk(job[d], job'[d]) /\ job'[d].pc # "open"
    <2>1. CASE Connected(d)
      BY <1>0, <2>1, ConnectedWalk
    <2>2. CASE job' = [job EXCEPT ![d] = [@ EXCEPT !.pc = "do_take", !.then = "relisten"]]
      <3> DEFINE k == [job[d] EXCEPT !.pc = "do_take", !.then = "relisten"]
      <3>1. k.pc = "do_take" /\ k.got = job[d].got /\ k.name = job[d].name
        BY <1>0 DEF Jobs
      <3>2. Same(d) /\ job'[d] = k
        BY <2>2, OneSame
      <3> HIDE DEF k
      <3> QED
        BY <1>0, <3>1, <3>2 DEF Walk, Busy, Leading, Dialing
    <2>3. CASE job' = [job EXCEPT ![d] = NoJob]
      BY <1>0, <2>3, QuitSame
    <2> QED
      BY <2>1, <2>2, <2>3 DEF Listen
  <1>2. Walks(d)
    BY <1>0, <1>1, UnchangedKeeps DEF Walks, Listen
  <1> QED
    BY <1>2 DEF Moves

LEMMA RelistenMoves ==
  ASSUME Shape, NEW d \in Dialers, Relisten(d)
  PROVE  Moves
  <1>0. job[d].pc = "relisten" /\ job[d].pc \notin Busy
    BY DEF Relisten, Busy, Leading
  <1>1. Same(d) /\ Walk(job[d], job'[d]) /\ job'[d].pc # "open"
    BY <1>0, ConnectedWalk, QuitSame DEF Relisten
  <1>2. Walks(d)
    BY <1>0, <1>1, UnchangedKeeps DEF Walks, Relisten
  <1> QED
    BY <1>2 DEF Moves

LEMMA RegisterMoves ==
  ASSUME Shape, NEW d \in Dialers, Register(d)
  PROVE  Moves
  <1>0. job[d].pc = "register" /\ job[d].pc \notin Busy
    BY DEF Register, Busy, Leading
  <1>1. CASE There(job[d].name)
    <2>1. GoTo(d, "open") /\ conns' = [conns EXCEPT ![Runtime(job[d].name)] = @ + 1]
      BY <1>1 DEF Register
    <2>2. /\ Same(d) /\ job'[d].pc = "open"
          /\ job'[d].name = job[d].name /\ job'[d].got = job[d].got
      BY <2>1, GoToSame
    <2>3. Walk(job[d], job'[d])
      BY <1>0, <2>2 DEF Walk, Busy, Leading, Dialing
    <2>4. Counts(d)
      BY <1>0, <1>1, <2>1, <2>2, <2>3 DEF Counts, Register
    <2> QED
      BY <2>4 DEF Moves
  <1>2. CASE ~There(job[d].name)
    <2>1. Same(d) /\ Walk(job[d], job'[d]) /\ job'[d].pc # "open"
      BY <1>0, <1>2, QuitSame DEF Register
    <2>2. Walks(d)
      BY <1>0, <1>2, <2>1, UnchangedKeeps DEF Walks, Register
    <2> QED
      BY <2>2 DEF Moves
  <1> QED
    BY <1>1, <1>2

LEMMA CloseConnMoves ==
  ASSUME Shape, NEW d \in Dialers, CloseConn(d)
  PROVE  Moves
  <1>0. job[d].pc = "open" /\ job[d].pc \notin Busy
    BY DEF CloseConn, Busy, Leading
  <1>1. Same(d) /\ Walk(job[d], job'[d]) /\ job'[d].pc # "open"
    BY <1>0, QuitSame DEF CloseConn
  <1>2. Counts(d)
    BY <1>0, <1>1 DEF Counts, CloseConn
  <1> QED
    BY <1>2 DEF Moves

-----------------------------------------------------------------------------
(* Management and time leave the jobs alone.                               *)

LEMMA DropKeeps == ASSUME NEW out, Drop(out) PROVE Keeps /\ idle' \subseteq idle
  BY DEF Drop, Keeps

\* Nothing is counted, and configurations that change get a new runtime state.
LEMMA ManagedMoves ==
  ASSUME Shape, UNCHANGED <<job, flight, conns>>, Keeps, idle' \subseteq idle,
         \A n \in Names : (Original(n))' => Original(n)
  PROVE  Moves
  <1>1. SameCount
    BY DEF SameCount
  <1>2. Rests
    BY <1>1 DEF Rests
  <1> QED
    BY <1>2 DEF Moves

LEMMA NewRuntime == ASSUME Shape PROVE stamp + 1 # 0
  BY Constants DEF Shape, TypeOK, Stamps

LEMMA AddMoves == ASSUME Shape, NEW n \in Names, AddOutbound(n) PROVE Moves
  <1>1. \A m \in Names : (Original(m))' => Original(m)
    <2> SUFFICES ASSUME NEW m \in Names, (Original(m))' PROVE Original(m)
      OBVIOUS
    <2>1. cfg'[n].rt = stamp + 1
      BY DEF AddOutbound, Shape, TypeOK
    <2>2. m # n => cfg'[m] = cfg[m]
      BY DEF AddOutbound, Shape, TypeOK
    <2> QED
      BY <2>1, <2>2, NewRuntime DEF Original, There
  <1> QED
    BY <1>1, ManagedMoves, UnchangedKeeps DEF AddOutbound

LEMMA DeleteMoves == ASSUME Shape, NEW n \in Names, DeleteOutbound(n) PROVE Moves
  <1>1. \A m \in Names : (Original(m))' => Original(m)
    <2> SUFFICES ASSUME NEW m \in Names, (Original(m))' PROVE Original(m)
      OBVIOUS
    <2>1. cfg'[n] = NoCfg /\ NoCfg.there = FALSE
      BY DEF DeleteOutbound, Shape, TypeOK, NoCfg
    <2>2. m # n => cfg'[m] = cfg[m]
      BY DEF DeleteOutbound, Shape, TypeOK
    <2> QED
      BY <2>1, <2>2 DEF Original, There
  <1> QED
    BY <1>1, DropKeeps, ManagedMoves DEF DeleteOutbound

LEMMA UpdateMoves == ASSUME Shape, NEW n \in Names, UpdateOutbound(n) PROVE Moves
  <1>1. \A m \in Names : (Original(m))' => Original(m)
    BY DEF UpdateOutbound, Original, There
  <1> QED
    BY <1>1, DropKeeps, ManagedMoves DEF UpdateOutbound

LEMMA ReplaceMoves ==
  ASSUME Shape, NEW n \in Names, NEW m \in Names, NEW on \in BOOLEAN,
         ReplaceOutbound(n, m, on)
  PROVE  Moves
  <1>1. \A l \in Names : (Original(l))' => Original(l)
    <2> SUFFICES ASSUME NEW l \in Names, (Original(l))' PROVE Original(l)
      OBVIOUS
    <2> DEFINE c == [ver |-> stamp + 1, rt |-> stamp + 1, enabled |-> on,
                     there |-> TRUE]
    <2>0. cfg' = [cfg EXCEPT ![n] = NoCfg, ![m] = c] /\ cfg \in [Names -> Cfgs]
      BY DEF ReplaceOutbound, Shape, TypeOK
    <2>1. c.rt = stamp + 1 /\ NoCfg.there = FALSE
      BY DEF NoCfg
    <2> HIDE DEF c
    <2>2. /\ cfg'[m] = c
          /\ n # m => cfg'[n] = NoCfg
          /\ l # n /\ l # m => cfg'[l] = cfg[l]
      BY <2>0
    <2> QED
      BY <2>1, <2>2, NewRuntime DEF Original, There
  <1> QED
    BY <1>1, DropKeeps, ManagedMoves DEF ReplaceOutbound

LEMMA SyncMoves == ASSUME Shape, NEW n \in Names, SyncOutbound(n) PROVE Moves
  <1>1. \A m \in Names : (Original(m))' => Original(m)
    <2> SUFFICES ASSUME NEW m \in Names, (Original(m))' PROVE Original(m)
      OBVIOUS
    <2>0. cfg[n] \in Cfgs
      BY DEF Shape, TypeOK
    <2>1. cfg'[n].rt = stamp + 1
      BY <2>0 DEF SyncOutbound, Shape, TypeOK, Cfgs
    <2>2. m # n => cfg'[m] = cfg[m]
      BY DEF SyncOutbound, Shape, TypeOK
    <2> QED
      BY <2>1, <2>2, NewRuntime DEF Original, There
  <1> QED
    BY <1>1, DropKeeps, ManagedMoves DEF SyncOutbound

\* Steps that leave the configurations alone.
LEMMA QuietMoves ==
  ASSUME Shape, UNCHANGED <<job, flight, conns, cfg>>, Keeps, idle' \subseteq idle
  PROVE  Moves
  <1>1. \A m \in Names : (Original(m))' => Original(m)
    BY DEF Original, There
  <1> QED
    BY <1>1, ManagedMoves

LEMMA CleanupMoves == ASSUME Shape, Cleanup PROVE Moves
  BY DropKeeps, QuietMoves DEF Cleanup

LEMMA StopMoves == ASSUME Shape, StopManager PROVE Moves
  BY DropKeeps, QuietMoves DEF StopManager

LEMMA ReloadMoves ==
  ASSUME Shape, NEW S \in SUBSET Names, NEW new \in [S -> Insts], Reload(new)
  PROVE  Moves
  <1>1. Keeps
    <2> SUFFICES ASSUME NEW n \in Names
                 PROVE  \/ cache'[n] \in {cache[n], None}
                        \/ cache'[n] \in Insts /\ inst[cache'[n]] = "unborn"
      BY DEF Keeps
    <2>1. CASE n \in S
      BY <2>1 DEF Reload
    <2>2. CASE n \notin S
      BY <2>2 DEF Reload
    <2> QED
      BY <2>1, <2>2
  <1> QED
    BY <1>1, QuietMoves DEF Reload

LEMMA IdleMoves == ASSUME Shape, NEW n \in Names, GrowIdle(n) PROVE Moves
  <1>1. \A d \in Dialers : job[d].pc \in Dialing => job[d].name \notin idle' \ idle
    BY DEF GrowIdle
  <1>2. SameCount
    BY DEF SameCount, GrowIdle, Original, There
  <1>3. Rests
    BY <1>1, <1>2, UnchangedKeeps DEF Rests, GrowIdle
  <1> QED
    BY <1>3 DEF Moves

LEMMA StepMoves == ASSUME Shape, [Next]_vars PROVE Moves
  <1>1. CASE UNCHANGED vars
    BY <1>1, QuietMoves, UnchangedKeeps DEF vars
  <1>2. CASE \E d \in Dialers : DialStep(d) \/ CloseConn(d)
    BY <1>2, OnceMoves, GetMoves, JoinMoves, CheckMoves, ReadMoves, TakeMoves,
       CloseMoves, CreateMoves, StoreMoves, ListenMoves, RelistenMoves,
       RegisterMoves, CloseConnMoves DEF DialStep
  <1>3. CASE \E d \in Dialers, n \in Names : Dial(d, n)
    BY <1>3, DialMoves
  <1>4. CASE \E n \in Names : AddOutbound(n) \/ DeleteOutbound(n)
    BY <1>4, AddMoves, DeleteMoves
  <1>5. CASE \E n \in Names : UpdateOutbound(n) \/ SyncOutbound(n)
    BY <1>5, UpdateMoves, SyncMoves
  <1>6. CASE \E n \in Names, ok \in BOOLEAN : CheckHealth(n, ok)
    BY <1>6, QuietMoves, UnchangedKeeps DEF CheckHealth
  <1>7. CASE \E n, m \in Names, on \in BOOLEAN : ReplaceOutbound(n, m, on)
    BY <1>7, ReplaceMoves
  <1>8. CASE Cleanup
    BY <1>8, CleanupMoves
  <1>9. CASE \E S \in SUBSET Names : \E new \in [S -> Insts] : Reload(new)
    BY <1>9, ReloadMoves
  <1>10. CASE StopManager
    BY <1>10, StopMoves
  <1>11. CASE \E n \in Names : GrowIdle(n)
    BY <1>11, IdleMoves
  <1>12. CASE \E r \in Runtimes : CheckGrowsOld(r)
    BY <1>12, QuietMoves, UnchangedKeeps DEF CheckGrowsOld
  <1> QED
    BY <1>1, <1>2, <1>3, <1>4, <1>5, <1>6, <1>7, <1>8, <1>9, <1>10, <1>11, <1>12
       DEF Next

-----------------------------------------------------------------------------
(* Led is kept by every kind.                                              *)

LEMMA MovesLed == ASSUME Shape, Shape', Led, Moves PROVE Led'
  <1>0. /\ flight \in [Names -> Dialers \cup {None}]
        /\ None \notin Dialers
        /\ \A d \in Dialers : job[d].pc # "idle" => job[d].name \in Names
        /\ \A d \in Dialers : job'[d].pc # "idle" => job'[d].name \in Names
    BY Constants DEF Shape, TypeOK, Hands, Hand
  <1>1. CASE Rests
    BY <1>1 DEF Rests, Led
  <1>2. ASSUME NEW d \in Dialers, Same(d), Walk(job[d], job'[d]), UNCHANGED flight
        PROVE  Led'
    <2>1. CASE job[d].pc \notin Busy /\ job'[d].pc \notin Busy
      BY <1>0, <1>2, <2>1 DEF Same, Led, Busy
    <2>2. CASE job[d].pc \in Leading /\ job'[d].pc \in Leading
               /\ job'[d].name = job[d].name
      <3>1. job'[d].pc # "wait"
        BY <2>2 DEF Leading
      <3> QED
        BY <1>0, <1>2, <2>2, <3>1 DEF Same, Led
    <2> QED
      BY <1>2, <2>1, <2>2 DEF Walk
  <1>3. ASSUME NEW d \in Dialers, Joins(d)
        PROVE  Led'
    <2>0. /\ job[d].pc \notin Busy /\ job[d].name \in Names
          /\ job'[d].name = job[d].name /\ Same(d)
      BY <1>0, <1>3 DEF Joins, Busy, Leading
    <2>1. CASE /\ flight[job[d].name] = None /\ job'[d].pc \in {"check", "take"}
               /\ flight' = [flight EXCEPT ![job[d].name] = d]
      <3>1. job'[d].pc \in Leading /\ job'[d].pc # "wait"
        BY <2>1 DEF Leading
      <3>2. /\ flight'[job[d].name] = d
            /\ \A n \in Names : n # job[d].name => flight'[n] = flight[n]
        BY <1>0, <2>0, <2>1
      <3>3. \A e \in Dialers : job[e].pc \in Leading => job[e].name # job[d].name
        BY <1>0, <2>1 DEF Led
      <3>4. "idle" \notin Leading
        BY DEF Leading
      <3> QED
        BY <1>0, <2>0, <2>1, <3>1, <3>2, <3>3, <3>4 DEF Same, Led, Busy
    <2>2. CASE /\ flight[job[d].name] # None /\ job'[d].pc = "wait"
               /\ UNCHANGED flight
      <3>1. job'[d].pc \notin Leading
        BY <2>2 DEF Leading
      <3> QED
        BY <1>0, <2>0, <2>2, <3>1 DEF Same, Led, Busy
    <2> QED
      BY <1>3, <2>1, <2>2 DEF Joins
  <1>4. ASSUME NEW d \in Dialers, Finds(d)
        PROVE  Led'
    <2>1. job[d].pc \notin Busy /\ job'[d].pc \notin Busy
      BY <1>4 DEF Finds, Busy, Leading
    <2> QED
      BY <1>0, <1>4, <2>1 DEF Finds, Same, Led, Busy
  <1>5. ASSUME NEW d \in Dialers, NEW i \in Insts \cup {None}, Returns(d, i)
        PROVE  Led'
    <2>0. job[d].pc \in Leading /\ job[d].name \in Names
      BY <1>0, <1>5 DEF Returns, Leading
    <2>1. \A e \in Party(d) : job'[e].pc \notin Busy
      BY <1>5, NoJobFields DEF Returns, Busy, Leading
    <2>2. \A e \in Dialers : e \notin Party(d) => job'[e] = job[e]
      BY <1>5 DEF Returns
    <2>3. flight[job[d].name] = d
      BY <2>0 DEF Led
    <2>4. /\ flight'[job[d].name] = None
          /\ \A n \in Names : n # job[d].name => flight'[n] = flight[n]
      BY <1>0, <1>5, <2>0 DEF Returns
    <2>5. \A e \in Dialers \ Party(d) : job[e].pc \in Busy => job[e].name # job[d].name
      BY <2>3 DEF Led, Party, Busy
    <2>6. \A n \in Names : n # job[d].name /\ flight[n] # None
            => flight[n] \in Dialers \ Party(d)
      <3> SUFFICES ASSUME NEW n \in Names, n # job[d].name, flight[n] # None
                   PROVE  flight[n] \in Dialers \ Party(d)
        OBVIOUS
      <3>1. flight[n] \in Dialers /\ job[flight[n]].name = n
        BY <1>0 DEF Led
      <3> QED
        BY <3>1 DEF Party
    <2>7. "idle" \notin Busy
      BY DEF Busy, Leading
    <2> QED
      BY <1>0, <2>1, <2>2, <2>4, <2>5, <2>6, <2>7 DEF Led, Busy
  <1> QED
    BY <1>1, <1>2, <1>3, <1>4, <1>5 DEF Moves, Walks, Counts

\* The two halves of FlightLed.
LEMMA LedFlight == ASSUME Shape, Led PROVE FlightLed
  <1>0. /\ None \notin Dialers
        /\ \A d \in Dialers : job[d].pc \in Leading => job[d].name \in Names
    BY Constants DEF Shape, Hands, Hand, Leading
  <1>1. ASSUME NEW d \in Dialers
        PROVE  job[d].pc \in Leading <=> \E n \in Names : flight[n] = d
    BY <1>0 DEF Led
  <1> QED
    BY <1>1 DEF FlightLed, Led, Leading

-----------------------------------------------------------------------------
(* Known and Recent, with Custody.                                         *)

\* What was created stays created.
LEMMA KindsBorn ==
  ASSUME Shape, Kinds, NEW i \in Insts, inst[i] # "unborn"
  PROVE  inst'[i] # "unborn"
  <1>0. inst \in [Insts -> InstStates] /\ \A x : Shut(x) # "unborn"
    BY DEF Shape, TypeOK, Shut
  <1>1. CASE Quiet
    BY <1>1 DEF Quiet
  <1>2. ASSUME NEW d \in Dialers, NEW n \in Names, Takes(d, n) \/ Stores(d, n)
        PROVE  inst'[i] # "unborn"
    BY <1>2 DEF Takes, Stores
  <1>3. ASSUME NEW d \in Dialers, Closes(d)
        PROVE  inst'[i] # "unborn"
    BY <1>0, <1>3 DEF Closes
  <1>4. ASSUME NEW d \in Dialers, NEW j \in Insts, Births(d, j)
        PROVE  inst'[i] # "unborn"
    BY <1>0, <1>4 DEF Births
  <1>5. ASSUME NEW out, NEW new, Turns(out, new)
        PROVE  inst'[i] # "unborn"
    <2>1. inst'[i] \in {"open", Shut(inst[i]), inst[i]}
      BY <1>5 DEF Turns
    <2> QED
      BY <1>0, <2>1
  <1> QED
    BY <1>1, <1>2, <1>3, <1>4, <1>5 DEF Kinds

\* The instance a storing dialer holds stays with it, and is older than the step.
LEMMA KindsStoring ==
  ASSUME Shape, Custody, NEW d \in Dialers, job[d].pc = "store"
  PROVE  job[d].hold \in Insts /\ job[d].hold # None /\ inst[job[d].hold] = "open"
  <1>1. job[d].hold \in Insts /\ job[d].hold # None
    BY Constants DEF Shape, TypeOK, Hands, Hand, Jobs
  <1> QED
    BY <1>1 DEF Custody

LEMMA MovesKnown ==
  ASSUME Shape, Shape', Custody, Custody', Known, Kinds, Moves PROVE Known'
  <1>0. /\ cache \in [Names -> Insts \cup {None}]
        /\ \A d \in Dialers : job[d].got \in Insts \cup {None}
        /\ \A d \in Dialers : job[d].pc # "idle" => job[d].name \in Names
        /\ \A i \in Insts : i # None
    BY Constants DEF Shape, TypeOK, Jobs, Hands, Hand
  <1>1. \A i \in Insts : inst[i] # "unborn" => inst'[i] # "unborn"
    BY KindsBorn
  <1>2. \A d \in Dialers : job[d].got # None =>
           job[d].got \in Insts /\ inst[job[d].got] # "unborn"
    BY <1>0 DEF Known
  <1>3. \A d \in Dialers : job[d].pc = "store" =>
           job[d].hold \in Insts /\ job[d].hold # None /\ inst[job[d].hold] = "open"
    BY KindsStoring
  <1>4. \A n \in Names : cache[n] # None =>
           cache[n] \in Insts /\ inst[cache[n]] = "open"
    BY <1>0 DEF Custody
  <1>5. CASE Rests
    BY <1>1, <1>2, <1>5 DEF Rests, Known, Keeps
  <1>6. ASSUME NEW d \in Dialers, Same(d), Walk(job[d], job'[d]), Keeps
        PROVE  Known'
    <2>1. \A e \in Dialers :
             \/ job'[e].got = None
             \/ job'[e].got = job[e].got /\ job'[e].name = job[e].name
      BY <1>6 DEF Same, Walk
    <2>2. \A e \in Dialers : job'[e].pc = "store" =>
             \/ job'[e].hold \in Insts /\ inst[job'[e].hold] = "unborn"
             \/ job[e].pc = "store" /\ job'[e].hold = job[e].hold
      BY <1>6 DEF Same, Walk
    <2>3. \A e \in Dialers : job'[e].got # None => inst'[job'[e].got] # "unborn"
      BY <1>1, <1>2, <2>1
    <2>4. \A e, f \in Dialers : job'[e].pc = "store" => job'[f].got # job'[e].hold
      BY <1>0, <1>2, <1>3, <2>1, <2>2 DEF Known
    <2>5. \A e \in Dialers, n \in Names :
             cache'[n] # None /\ cache'[n] = job'[e].got => job'[e].name = n
      BY <1>2, <1>6, <2>1 DEF Keeps, Known
    <2> QED
      BY <2>3, <2>4, <2>5 DEF Known
  <1>7. ASSUME NEW d \in Dialers, Joins(d)
        PROVE  Known'
    <2>1. \A e \in Dialers : job'[e].got = job[e].got /\ job'[e].name = job[e].name
      BY <1>7 DEF Joins, Same
    <2>2. \A e \in Dialers : job'[e].pc = "store" =>
             job[e].pc = "store" /\ job'[e].hold = job[e].hold
      BY <1>7 DEF Joins, Same
    <2> QED
      BY <1>1, <1>2, <1>7, <2>1, <2>2 DEF Joins, Known
  <1>8. ASSUME NEW d \in Dialers, Finds(d)
        PROVE  Known'
    <2> DEFINE i == cache[job[d].name]
    <2>0. job[d].name \in Names /\ i \in Insts /\ inst[i] = "open" /\ i # None
      BY <1>0, <1>4, <1>8 DEF Finds
    <2>1. \A e \in Dialers : e # d => job'[e] = job[e]
      BY <1>8 DEF Finds, Same
    <2>2. /\ job'[d].got = i /\ job'[d].name = job[d].name /\ job'[d].pc = "listen"
          /\ cache' = cache
      BY <1>8 DEF Finds
    <2> HIDE DEF i
    <2>3. \A n \in Names : cache[n] = i => n = job[d].name
      BY <2>0 DEF Custody, i
    <2>4. \A e \in Dialers : job[e].pc = "store" => job[e].hold # i
      BY <2>0 DEF Custody, i
    <2> QED
      BY <1>1, <1>2, <2>0, <2>1, <2>2, <2>3, <2>4 DEF Known
  <1>9. ASSUME NEW d \in Dialers, NEW i \in Insts \cup {None}, Returns(d, i)
        PROVE  Known'
    <2>0. d \in Party(d) /\ job[d].name \in Names
          /\ \A e \in Party(d) : e \in Dialers /\ job[e].name = job[d].name
      BY <1>0, <1>9 DEF Party, Returns, Leading
    <2>1. \A e \in Dialers \ Party(d) : job'[e] = job[e]
      BY <1>9 DEF Returns
    <2>2. CASE i = None
      <3>1. \A e \in Party(d) : job'[e] = NoJob
        BY <1>9, <2>2 DEF Returns
      <3>2. cache' = cache
        BY <1>9, <2>2 DEF Returns
      <3> QED
        BY <1>1, <1>2, <1>3, <2>1, <3>1, <3>2, NoJobFields DEF Known
    <2>3. CASE i # None
      <3>1. \A e \in Party(d) : /\ job'[e].pc # "store" /\ job'[e].got = i
                                /\ job'[e].name = job[d].name
        BY <1>9, <2>0, <2>3 DEF Returns
      <3>2. i \in Insts /\ inst[i] # "unborn"
        BY <1>3, <1>4, <1>9, <2>0, <2>3 DEF Returns
      <3>3. /\ cache'[job[d].name] = i
            /\ \A n \in Names : n # job[d].name => cache'[n] = cache[n]
        BY <1>0, <1>9, <2>0, <2>3 DEF Returns
      <3>4. \A n \in Names : cache'[n] = i => n = job[d].name
        BY <2>0, <2>3, <3>3 DEF Custody
      <3>5. \A e \in Dialers \ Party(d) : job[e].pc = "store" => job[e].hold # i
        BY <1>3, <1>9, <2>0, <2>3 DEF Returns, Custody
      <3>6. \A e \in Dialers \ Party(d) : job[e].got = i => job[e].name = job[d].name
        BY <1>9, <2>0, <2>3 DEF Returns, Known
      <3>7. \A e \in Dialers : job'[e].got # None => inst'[job'[e].got] # "unborn"
        BY <1>1, <1>2, <2>1, <3>1, <3>2
      <3>8. \A e, f \in Dialers : job'[e].pc = "store" => job'[f].got # job'[e].hold
        BY <2>1, <3>1, <3>5 DEF Known
      <3>9. \A e \in Dialers, n \in Names :
               cache'[n] # None /\ cache'[n] = job'[e].got => job'[e].name = n
        BY <2>1, <3>1, <3>3, <3>4, <3>6 DEF Known
      <3> QED
        BY <3>7, <3>8, <3>9 DEF Known
    <2> QED
      BY <2>2, <2>3
  <1> QED
    BY <1>5, <1>6, <1>7, <1>8, <1>9, UnchangedKeeps DEF Moves, Walks, Counts

LEMMA MovesRecent == ASSUME Shape, Recent, Moves PROVE Recent'
  <1>1. CASE Rests
    BY <1>1 DEF Rests, Recent
  <1>2. ASSUME NEW d \in Dialers, Same(d), Walk(job[d], job'[d]), idle' \subseteq idle
        PROVE  Recent'
    BY <1>2 DEF Recent, Same, Walk
  <1>3. ASSUME NEW d \in Dialers, Joins(d)
        PROVE  Recent'
    BY <1>3 DEF Recent, Joins, Same, Dialing
  <1>4. ASSUME NEW d \in Dialers, Finds(d)
        PROVE  Recent'
    BY <1>4 DEF Recent, Finds, Same
  <1>5. ASSUME NEW d \in Dialers, NEW i \in Insts \cup {None}, Returns(d, i)
        PROVE  Recent'
    <2>1. \A e \in Party(d) : job[e].name = job[d].name
      BY DEF Party
    <2>2. idle' \subseteq idle /\ (i # None => job[d].name \notin idle')
      BY <1>5 DEF Returns
    <2>3. \A e \in Dialers \ Party(d) : job'[e] = job[e]
      BY <1>5 DEF Returns
    <2>4. \A e \in Party(d) : \/ job'[e].pc = "idle"
                              \/ i # None /\ job'[e].name = job[d].name
      BY <1>5, <2>1, NoJobFields DEF Returns
    <2> QED
      BY <2>2, <2>3, <2>4 DEF Recent, Dialing
  <1> QED
    BY <1>1, <1>2, <1>3, <1>4, <1>5 DEF Moves, Walks, Counts

-----------------------------------------------------------------------------
(* The connection counts.                                                  *)

\* The open connections of a name are finitely many.
LEMMA UsingFinite ==
  ASSUME NEW n
  PROVE  IsFiniteSet(Using(n)) /\ Cardinality(Using(n)) \in Nat
  <1>1. Using(n) \in SUBSET Dialers
    BY DEF Using
  <1>2. IsFiniteSet(Using(n))
    BY <1>1, Constants, FS_Subset
  <1> QED
    BY <1>2, FS_CardinalityType

\* A step that opens and closes no connection.
LEMMA SameUsing ==
  ASSUME \A e \in Dialers : \/ job'[e] = job[e]
                            \/ job[e].pc # "open" /\ job'[e].pc # "open",
         NEW n
  PROVE  (Using(n))' = Using(n)
  BY DEF Using

LEMMA MovesCount ==
  ASSUME Shape, Shape', CountExact, Moves
  PROVE  CountExact'
  <1>0. /\ conns \in [Runtimes -> Nat] /\ cfg \in [Names -> Cfgs]
        /\ \A n \in Names : Runtime(n) \in Runtimes /\ <<n, 0>> \in Runtimes
        /\ \A d \in Dialers : job[d].pc # "idle" => job[d].name \in Names
    BY ZeroStamp DEF Shape, TypeOK, Hands, Hand, Runtime, Runtimes, Cfgs
  <1>1. \A n \in Names : Original(n) => Runtime(n) = <<n, 0>>
    BY DEF Original, Runtime
  <1>2. \A n \in Names : (Original(n))' => (Runtime(n))' = <<n, 0>>
    BY DEF Original, Runtime
  <1>3. ASSUME SameCount, \A n \in Names : (Using(n))' = Using(n)
        PROVE  CountExact'
    BY <1>1, <1>2, <1>3 DEF CountExact, SameCount
  <1>4. ASSUME UNCHANGED <<cfg, conns>> PROVE SameCount
    BY <1>4 DEF SameCount, Original, There
  <1>5. CASE Rests
    BY <1>3, <1>5, SameUsing DEF Rests
  <1>6. ASSUME NEW d \in Dialers, Walks(d) \/ Joins(d) \/ Finds(d)
        PROVE  CountExact'
    <2>1. UNCHANGED <<cfg, conns>>
      BY <1>6 DEF Walks, Joins, Finds
    <2>2. \A e \in Dialers : \/ job'[e] = job[e]
                             \/ job[e].pc # "open" /\ job'[e].pc # "open"
      BY <1>6 DEF Walks, Joins, Finds, Same
    <2> QED
      BY <1>3, <1>4, <2>1, <2>2, SameUsing
  <1>7. ASSUME NEW d \in Dialers, NEW i \in Insts \cup {None}, Returns(d, i)
        PROVE  CountExact'
    <2>1. UNCHANGED <<cfg, conns>>
      BY <1>7 DEF Returns
    <2>2. \A e \in Party(d) : e \in Dialers /\ job[e].pc # "open"
      BY <1>7 DEF Returns, Party, Leading
    <2>3. \A e \in Party(d) : job'[e].pc # "open"
      BY <1>7, NoJobFields DEF Returns
    <2>4. \A e \in Dialers \ Party(d) : job'[e] = job[e]
      BY <1>7 DEF Returns
    <2>5. \A e \in Dialers : \/ job'[e] = job[e]
                             \/ job[e].pc # "open" /\ job'[e].pc # "open"
      BY <2>2, <2>3, <2>4
    <2> QED
      BY <1>3, <1>4, <2>1, <2>5, SameUsing
  <1>8. ASSUME NEW d \in Dialers, Counts(d)
        PROVE  CountExact'
    <2> SUFFICES ASSUME NEW CONSTANT n, n = job[d].name PROVE CountExact'
      OBVIOUS
    <2>0. /\ Same(d) /\ cfg' = cfg
          /\ \A m \in Names : (Original(m))' <=> Original(m)
      BY <1>8 DEF Counts, Original, There
    <2>1. \A m \in Names : m # n => <<m, 0>> # Runtime(n)
      BY DEF Runtime
    <2>2. CASE /\ job[d].pc # "open" /\ job'[d].pc = "open" /\ job'[d].name = n
               /\ There(n) /\ conns' = [conns EXCEPT ![Runtime(n)] = @ + 1]
      <3>1. n \in Names
        BY <2>2 DEF Shape, Hands, Hand
      <3>2. /\ (Using(n))' = Using(n) \cup {d} /\ d \notin Using(n)
            /\ \A m \in Names : m # n => (Using(m))' = Using(m)
        BY <2>0, <2>2 DEF Using, Same
      <3>3. Cardinality((Using(n))') = Cardinality(Using(n)) + 1
        BY <3>2, UsingFinite, FS_AddElement
      <3>4. /\ conns'[Runtime(n)] = conns[Runtime(n)] + 1
            /\ \A m \in Names : m # n => conns'[<<m, 0>>] = conns[<<m, 0>>]
        BY <1>0, <2>1, <2>2, <3>1
      <3> SUFFICES ASSUME NEW m \in Names, Original(m)
                   PROVE  conns'[<<m, 0>>] = Cardinality((Using(m))')
        BY <1>2, <2>0 DEF CountExact
      <3>5. conns[<<m, 0>>] = Cardinality(Using(m))
        BY <1>1 DEF CountExact
      <3>6. CASE m = n
        BY <1>1, <3>3, <3>4, <3>5, <3>6
      <3>7. CASE m # n
        BY <3>2, <3>4, <3>5, <3>7
      <3> QED
        BY <3>6, <3>7
    <2>3. CASE /\ job[d].pc = "open" /\ job'[d].pc # "open"
               /\ conns' = IF There(n) /\ conns[Runtime(n)] > 0
                           THEN [conns EXCEPT ![Runtime(n)] = @ - 1] ELSE conns
      <3>1. n \in Names
        BY <1>0, <2>3
      <3>2. /\ (Using(n))' = Using(n) \ {d} /\ d \in Using(n)
            /\ \A m \in Names : m # n => (Using(m))' = Using(m)
        <4>1. \A e \in Dialers : e # d => job'[e] = job[e]
          BY <2>0 DEF Same
        <4>2. d \in Using(n)
          BY <2>3 DEF Using
        <4>3. \A e \in Dialers : e \in (Using(n))' <=> e \in Using(n) /\ e # d
          BY <2>3, <4>1 DEF Using
        <4>4. \A m \in Names : m # n =>
                 \A e \in Dialers : e \in (Using(m))' <=> e \in Using(m)
          BY <2>3, <4>1 DEF Using
        <4> QED
          BY <4>2, <4>3, <4>4 DEF Using
      <3>3. Cardinality((Using(n))') = Cardinality(Using(n)) - 1
        BY <3>2, UsingFinite, FS_RemoveElement
      <3>4. Cardinality(Using(n)) > 0
        BY <3>2, UsingFinite, FS_EmptySet
      <3>5. \A m \in Names : m # n => conns'[<<m, 0>>] = conns[<<m, 0>>]
        BY <1>0, <2>1, <2>3, <3>1
      <3>6. Original(n) => conns'[<<n, 0>>] = conns[<<n, 0>>] - 1
        <4> SUFFICES ASSUME Original(n)
                     PROVE  conns'[<<n, 0>>] = conns[<<n, 0>>] - 1
          OBVIOUS
        <4>1. There(n) /\ Runtime(n) = <<n, 0>>
          BY <1>1, <3>1 DEF Original
        <4>2. conns[Runtime(n)] > 0
          BY <3>1, <3>4 DEF CountExact
        <4> QED
          BY <1>0, <2>3, <3>1, <4>1, <4>2
      <3> SUFFICES ASSUME NEW m \in Names, Original(m)
                   PROVE  conns'[<<m, 0>>] = Cardinality((Using(m))')
        BY <1>2, <2>0 DEF CountExact
      <3>7. conns[<<m, 0>>] = Cardinality(Using(m))
        BY <1>1 DEF CountExact
      <3>8. CASE m = n
        BY <3>3, <3>6, <3>7, <3>8
      <3>9. CASE m # n
        BY <3>2, <3>5, <3>7, <3>9
      <3> QED
        BY <3>8, <3>9
    <2> QED
      BY <1>8, <2>2, <2>3 DEF Counts
  <1> QED
    BY <1>5, <1>6, <1>7, <1>8 DEF Moves

-----------------------------------------------------------------------------
(* The theorems about dials.                                               *)

\* The inductive invariant.
Course == Shape /\ Custody /\ Led /\ Known /\ Recent /\ CountExact

LEMMA InitCourse == ASSUME Init PROVE Course
  <1>0. \A d \in Dialers : job[d] = NoJob
    BY DEF Init
  <1>1. Led
    BY <1>0, NoJobFields DEF Init, Led, Leading
  <1>2. Known
    BY <1>0, NoJobFields DEF Init, Known
  <1>3. Recent
    BY DEF Init, Recent
  <1>4. CountExact
    <2> SUFFICES ASSUME NEW n \in Names, Original(n)
                 PROVE  conns[Runtime(n)] = Cardinality(Using(n))
      BY DEF CountExact
    <2>1. Using(n) = {}
      BY <1>0, NoJobFields DEF Using
    <2>2. Runtime(n) \in Runtimes
      BY InitShape DEF Shape, TypeOK, Cfgs, Runtime, Runtimes
    <2> QED
      BY <2>1, <2>2, FS_EmptySet DEF Init
  <1> QED
    BY <1>1, <1>2, <1>3, <1>4, InitShape DEF Course

LEMMA StepCourse == ASSUME Course, [Next]_vars PROVE Course'
  <1>1. Shape /\ Custody /\ Led /\ Known /\ Recent /\ CountExact
    BY DEF Course
  <1>2. Shape' /\ Kinds /\ Moves
    BY <1>1, StepGood, StepMoves DEF Good
  <1>3. Custody'
    BY <1>1, <1>2, KindsCustody DEF Shape
  <1> QED
    BY <1>1, <1>2, <1>3, MovesLed, MovesKnown, MovesRecent, MovesCount DEF Course

LEMMA CourseHolds == Spec => []Course
  <1>1. Course /\ [Next]_vars => Course'
    BY StepCourse
  <1> QED
    BY <1>1, InitCourse, PTL DEF Spec

\* singleflight.Group.Do as dials use it: one caller runs the function for a name
\* at a time, and nobody waits for a call that no one runs.
THEOREM FlightIsLed == Spec => []FlightLed
  <1>1. Course => FlightLed
    BY LedFlight DEF Course
  <1> QED
    BY <1>1, CourseHolds, PTL

\* IncrConnCount and DecrConnCount: while a node keeps its first runtime state its
\* connection count is the number of its open connections.
THEOREM CountIsExact == Spec => []CountExact
  <1>1. Course => CountExact
    BY DEF Course
  <1> QED
    BY <1>1, CourseHolds, PTL

\* cleanupIdleOutbounds: what an open connection or a dial under way goes through
\* survives the cleanup.
THEOREM CleanupSpares == Spec => CleanupSparesActive
  <1> DEFINE Spared ==
        Cleanup => \A d \in Dialers, n \in Names :
                      (/\ job[d].pc \in {"listen", "relisten", "register", "open"}
                       /\ cache[n] = job[d].got
                       /\ Original(n)) => cache'[n] = cache[n]
  <1>1. ASSUME Course, Cleanup, NEW d \in Dialers, NEW n \in Names,
               job[d].pc \in {"listen", "relisten", "register", "open"},
               cache[n] = job[d].got, Original(n)
        PROVE  cache'[n] = cache[n]
    <2> DEFINE out == {m \in idle : /\ cache[m] # None
                                    /\ ~(There(m) /\ conns[Runtime(m)] > 0)}
    <2>0. cache' = [m \in Names |-> IF m \in out THEN None ELSE cache[m]]
      BY <1>1 DEF Cleanup, Drop
    <2>1. CASE cache[n] = None
      BY <2>0, <2>1
    <2>2. CASE cache[n] # None
      <3>1. job[d].name = n
        BY <1>1, <2>2 DEF Course, Known
      <3>2. CASE job[d].pc \in Dialing
        <4>1. n \notin idle
          BY <1>1, <3>1, <3>2 DEF Course, Recent
        <4> QED
          BY <2>0, <4>1
      <3>3. CASE job[d].pc = "open"
        <4>1. d \in Using(n)
          BY <3>1, <3>3 DEF Using
        <4>2. Cardinality(Using(n)) > 0
          BY <4>1, UsingFinite, FS_EmptySet
        <4>3. There(n) /\ conns[Runtime(n)] > 0
          BY <1>1, <4>2 DEF Course, CountExact, Original
        <4> QED
          BY <2>0, <4>3
      <3> QED
        BY <1>1, <3>2, <3>3 DEF Dialing
    <2> QED
      BY <2>1, <2>2
  <1>2. Course /\ [Next]_vars => [Spared]_vars
    BY <1>1
  <1> QED
    BY <1>2, CourseHolds, PTL DEF Spec, CleanupSparesActive

-----------------------------------------------------------------------------
(* The parsers of SubscriptionContent.  What both forms set before         *)
(* security and transport is compared field by field (Begins, Credited,    *)
(* Equipped), protocol by protocol; security and transport touch other     *)
(* fields and are added once for all protocols (ReadAlike).  The fields    *)
(* the forms may read differently (Loose) do not decide whether a node is  *)
(* kept, and each is the same in both forms exactly where FormsDiffer says *)
(* so.                                                                     *)

\* A set of numbers that holds n + 1 when it holds n holds all of them up to its bound:
\* the least that is missing would follow one that is not.
LEMMA Reaches ==
  ASSUME NEW m \in Nat, NEW T, 0 \in T,
         \A n \in 0 .. m : n \in T /\ n < m => n + 1 \in T
  PROVE  m \in T
  <1> DEFINE U == {n \in 0 .. m : n \notin T}
  <1>1. SUFFICES ASSUME U # {} PROVE FALSE
    OBVIOUS
  <1>2. PICK x \in U : \A y \in U : ~ (<<y, x>> \in OpToRel(<, Nat))
    <2>1. U \subseteq Nat
      OBVIOUS
    <2> HIDE DEF U
    <2> QED
      BY <1>1, <2>1, WFMin, NatLessThanWellFounded
  <1>3. x \in Nat /\ x # 0 /\ x <= m
    OBVIOUS
  <1>4. x - 1 \in Nat /\ x - 1 < x /\ x - 1 \in 0 .. m
    BY <1>3
  <1>5. <<x - 1, x>> \in OpToRel(<, Nat)
    BY <1>3, <1>4 DEF OpToRel
  <1>6. x - 1 \notin U
    BY <1>2, <1>5
  <1>7. x - 1 \in T /\ x - 1 < m
    BY <1>3, <1>4, <1>6
  <1>8. (x - 1) + 1 \in T
    BY <1>4, <1>7
  <1> QED
    BY <1>3, <1>8

\* One more entry of a body.
Taking(parsed, before, i) == IF parsed[i] = Dropped THEN before ELSE Append(before, parsed[i])

\* What the loop over the entries keeps was parsed and was not dropped.
LEMMA FilterSound ==
  ASSUME NEW P, NEW raw \in Seq(P)
  PROVE  WithoutDropped(raw) \in Seq(P \ {Dropped})
  <1> DEFINE Top == Len(raw)
  <1>0. Top \in Nat
    OBVIOUS
  <1> DEFINE From(g, n) == g = [i \in 0 .. n |-> IF i = 0 THEN <<>> ELSE Taking(raw, g[i - 1], i)]
  <1> DEFINE Begun == {n \in 0 .. Top : \E g : From(g, n)}
  <1>1. 0 \in Begun
    <2>1. From([i \in 0 .. 0 |-> <<>>], 0)
      OBVIOUS
    <2>2. 0 \in 0 .. Top
      BY <1>0
    <2> HIDE DEF From, Top
    <2> QED
      BY <2>1, <2>2
  <1>2. ASSUME NEW n \in 0 .. Top, n \in Begun, n < Top
        PROVE  n + 1 \in Begun
    <2>1. PICK g : g = [i \in 0 .. n |-> IF i = 0 THEN <<>> ELSE Taking(raw, g[i - 1], i)]
      BY <1>2
    <2> DEFINE h == [i \in 0 .. n + 1 |-> IF i <= n THEN g[i] ELSE Taking(raw, g[n], n + 1)]
    <2>2. ASSUME NEW i \in 0 .. n + 1
          PROVE  h[i] = IF i = 0 THEN <<>> ELSE Taking(raw, h[i - 1], i)
      <3>1. CASE i = 0
        BY <3>1, <2>1
      <3>2. CASE i \in 1 .. n
        <4>1. h[i] = g[i] /\ h[i - 1] = g[i - 1]
          BY <3>2
        <4>2. g[i] = Taking(raw, g[i - 1], i)
          BY <2>1, <3>2
        <4> QED
          BY <3>2, <4>1, <4>2
      <3>3. CASE i = n + 1
        <4>1. h[i] = Taking(raw, g[n], n + 1) /\ h[i - 1] = g[n]
          BY <3>3
        <4> QED
          BY <3>3, <4>1
      <3> QED
        BY <3>1, <3>2, <3>3
    <2>3. h = [i \in 0 .. n + 1 |-> IF i = 0 THEN <<>> ELSE Taking(raw, h[i - 1], i)]
      <3> HIDE DEF h
      <3>1. h = [i \in 0 .. n + 1 |-> h[i]]
        BY DEF h
      <3> QED
        BY <2>2, <3>1
    <2>4. From(h, n + 1)
      BY <2>3
    <2>5. n + 1 \in 0 .. Top
      BY <1>0, <1>2
    <2> HIDE DEF From, Top, h
    <2> QED
      BY <2>4, <2>5
  <1>3. Top \in Begun
    <2> HIDE DEF Begun, Top
    <2> QED
      BY <1>0, <1>1, <1>2, Reaches, SMTT(30)
  <1> DEFINE f == KeptUpTo(raw)
  <1>4. f = [i \in 0 .. Top |-> IF i = 0 THEN <<>> ELSE Taking(raw, f[i - 1], i)]
    BY <1>3 DEF KeptUpTo, Taking
  <1> DEFINE Fit == {n \in 0 .. Top : f[n] \in Seq(P \ {Dropped})}
  <1> HIDE DEF f
  <1>5. 0 \in Fit
    <2>1. f[0] = <<>>
      BY <1>0, <1>4
    <2>2. 0 \in 0 .. Top
      BY <1>0
    <2>3. f[0] \in Seq(P \ {Dropped})
      BY <2>1
    <2> HIDE DEF Top
    <2> QED
      BY <2>2, <2>3, Zenon
  <1>6. ASSUME NEW n \in 0 .. Top, n \in Fit, n < Top
        PROVE  n + 1 \in Fit
    <2>1. f[n + 1] = Taking(raw, f[n], n + 1)
      BY <1>0, <1>4, <1>6
    <2>2. n + 1 \in 1 .. Len(raw) /\ n + 1 \in 0 .. Top
      BY <1>6
    <2>3. PICK b \in Seq(P \ {Dropped}) : b = f[n]
      BY <1>6
    <2>4. PICK x \in P : x = raw[n + 1]
      BY <2>2
    <2>5. CASE x = Dropped
      BY <2>1, <2>2, <2>3, <2>4, <2>5 DEF Taking
    <2>6. CASE x # Dropped
      <3>1. f[n + 1] = Append(b, x)
        BY <2>1, <2>3, <2>4, <2>6 DEF Taking
      <3>2. Append(b, x) \in Seq(P \ {Dropped})
        BY <2>6
      <3> HIDE DEF Top
      <3> QED
        BY <2>2, <3>1, <3>2
    <2> QED
      BY <2>5, <2>6
  <1>7. Top \in Fit
    <2> HIDE DEF Fit, Top
    <2> QED
      BY <1>0, <1>5, <1>6, Reaches, SMTT(30)
  <1> QED
    BY <1>7 DEF WithoutDropped, f

\* The fields of an outbound.
Columns ==
    {"type", "server", "port", "user", "pass", "method", "uuid", "tls", "sni", "insecure",
     "reality", "pbk", "net", "path", "service", "cert", "sid", "alpn", "fp", "cipher", "flow",
     "obfs", "idle", "host", "mode", "authority"}

Out(o) == DOMAIN o = Columns

\* Those the two forms may read differently.
Loose == {"cert", "sni", "insecure", "path", "service", "authority", "alpn", "fp", "idle"}

\* An outbound that validates is kept with its key.
LEMMA KeptIs ==
  ASSUME NEW c, NEW u
  PROVE  /\ Validate(u) => Kept(c, u) # Dropped /\ Kept(c, u).key = ComputeSourceKey(u)
         /\ ~Validate(u) => Kept(c, u) = Dropped
  <1>1. ASSUME Validate(u)
        PROVE  Kept(c, u) # Dropped /\ Kept(c, u).key = ComputeSourceKey(u)
    <2>1. u.server # Absent
      BY <1>1, Zenon DEF Validate
    <2>2. Dropped.outbound.server = Absent
      BY DEF Dropped, Blank
    <2>3. Kept(c, u).outbound = u /\ Kept(c, u).key = ComputeSourceKey(u)
      BY <1>1 DEF Kept
    <2> QED
      BY <2>1, <2>2, <2>3
  <1>2. ~Validate(u) => Kept(c, u) = Dropped
    BY DEF Kept
  <1> QED
    BY <1>1, <1>2

\* Two keys are one exactly when the fields are that are hashed.
LEMMA KeysAre ==
  ASSUME NEW x, NEW y
  PROVE  (ComputeSourceKey(x) = ComputeSourceKey(y)) <=> (\A f \in Columns \ {"cert"} : x[f] = y[f])
  <1>1. DOMAIN Blank = Columns
    BY DEF Blank, Columns
  <1>2. PICK F : F = Columns \ {"cert"}
    OBVIOUS
  <1>3. ComputeSourceKey(x) = [f \in F |-> x[f]] /\ ComputeSourceKey(y) = [f \in F |-> y[f]]
    BY <1>1, <1>2 DEF ComputeSourceKey
  <1> QED
    BY <1>2, <1>3

\* What the forms may read differently does not decide whether a node is kept.
LEMMA ValidAlike ==
  ASSUME NEW x, NEW y, \A f \in Columns \ Loose : x[f] = y[f],
         x.type = "vless" => x.service = y.service,
         x.idle >= 0, y.idle >= 0
  PROVE  Validate(x) <=> Validate(y)
  BY DEF Columns, Loose, Validate, ValidateReality, ValidateTransport

\* An absent text is none of the words the parsers look for.
LEMMA AbsentIs ==
  Absent \notin {"ws", "httpupgrade", "http-upgrade", "xhttp", "grpc", "tls", "reality", "none", "true",
                 "false", "shadowsocks", "socks5", "http", "vmess", "vless", "trojan", "anytls",
                 "hysteria2", "ss", "hy2", "socks", "socks5h", "https", "/"}
  BY Zenon DEF Absent

-----------------------------------------------------------------------------
(* Transports. *)

Nets == {Absent, "ws", "httpupgrade", "http-upgrade", "xhttp", "grpc"}

Carried == {"net", "path", "host", "mode", "service", "authority"}

\* An outbound without a transport.
Still(o) ==
    /\ Out(o) /\ o.net = Absent /\ o.path = Absent /\ o.host = Absent /\ o.mode = Absent
    /\ o.service = Absent /\ o.authority = Absent

\* x is o with the transport of entry e, as both forms read it.
Moved(x, o, e) ==
    /\ Out(x) /\ \A f \in Columns \ Carried : x[f] = o[f]
    /\ x.net = IF e.net = "http-upgrade" THEN "httpupgrade" ELSE e.net
    /\ x.host = IF e.net \in {Absent, "grpc"} THEN Absent ELSE e.host
    /\ x.mode = IF e.net = "xhttp" THEN e.mode ELSE Absent

PathOf(e, path) == IF e.net \in {Absent, "grpc"} THEN Absent ELSE path

\* The service or the authority.
CallOf(e, called) == IF e.net = "grpc" THEN called ELSE Absent

\* The three ways a transport is read.
LEMMA Carries ==
  ASSUME NEW e, NEW o, Still(o), e.net \in Nets, NEW path,
         NEW x, \/ x = LinkTransport(e, o) /\ path = FirstNonEmpty(e.path, "/")
                \/ x = ClashTransport(e, o) /\ path = e.path
  PROVE  /\ Moved(x, o, e) /\ x.path = PathOf(e, path) /\ x.service = CallOf(e, e.service)
         /\ x.authority = CallOf(e, e.authority)
  <1>1. CASE e.net = "ws"
    <2>1. x = [o EXCEPT !.net = "ws", !.path = path, !.host = e.host]
      BY <1>1 DEF LinkTransport, ClashTransport
    <2> QED
      BY <1>1, <2>1, AbsentIs DEF Moved, Still, Out, Columns, Carried, PathOf, CallOf
  <1>2. CASE e.net \in {"httpupgrade", "http-upgrade"}
    <2>1. x = [o EXCEPT !.net = "httpupgrade", !.path = path, !.host = e.host]
      BY <1>2 DEF LinkTransport, ClashTransport
    <2> QED
      BY <1>2, <2>1, AbsentIs DEF Moved, Still, Out, Columns, Carried, PathOf, CallOf
  <1>3. CASE e.net = "xhttp"
    <2>1. x = [o EXCEPT !.net = "xhttp", !.path = path, !.host = e.host, !.mode = e.mode]
      BY <1>3 DEF LinkTransport, ClashTransport
    <2> QED
      BY <1>3, <2>1, AbsentIs DEF Moved, Still, Out, Columns, Carried, PathOf, CallOf
  <1>4. CASE e.net = "grpc"
    <2>1. x = [o EXCEPT !.net = "grpc", !.service = e.service, !.authority = e.authority]
      BY <1>4 DEF LinkTransport, ClashTransport
    <2> QED
      BY <1>4, <2>1, AbsentIs DEF Moved, Still, Out, Columns, Carried, PathOf, CallOf
  <1>5. CASE e.net = Absent
    <2>1. x = o \/ x = [o EXCEPT !.net = Absent]
      BY <1>5, AbsentIs DEF LinkTransport, ClashTransport
    <2> QED
      BY <1>5, <2>1, AbsentIs DEF Moved, Still, Out, Columns, Carried, PathOf, CallOf
  <1> QED
    BY <1>1, <1>2, <1>3, <1>4, <1>5 DEF Nets

LEMMA VmessMoves ==
  ASSUME NEW e, NEW o, Still(o), e.net \in Nets, NEW x, x = VmessTransport(e, o)
  PROVE  /\ Moved(x, o, e) /\ x.path = PathOf(e, FirstNonEmpty(e.path, "/"))
         /\ x.service = CallOf(e, FirstNonEmpty(e.service, e.path))
         /\ x.authority = CallOf(e, FirstNonEmpty(e.authority, e.host))
  <1>1. CASE e.net # "grpc"
    <2>1. x = LinkTransport(e, o)
      BY <1>1 DEF VmessTransport
    <2>2. PICK path : path = FirstNonEmpty(e.path, "/")
      OBVIOUS
    <2>3. /\ Moved(x, o, e) /\ x.path = PathOf(e, path) /\ x.service = CallOf(e, e.service)
          /\ x.authority = CallOf(e, e.authority)
      BY <2>1, <2>2, Carries
    <2> QED
      BY <1>1, <2>2, <2>3 DEF CallOf
  <1>2. CASE e.net = "grpc"
    <2>1. PICK s, a : s = FirstNonEmpty(e.service, e.path) /\ a = FirstNonEmpty(e.authority, e.host)
      OBVIOUS
    <2>2. x = [o EXCEPT !.net = "grpc", !.service = s, !.authority = a]
      BY <1>2, <2>1 DEF VmessTransport
    <2>3. /\ Moved(x, o, e) /\ x.path = Absent /\ x.service = s /\ x.authority = a
      BY <1>2, <2>2, AbsentIs DEF Moved, Still, Out, Columns, Carried
    <2> QED
      BY <1>2, <2>1, <2>3 DEF CallOf, PathOf
  <1> QED
    BY <1>1, <1>2

-----------------------------------------------------------------------------
(* REALITY. *)

\* x is o with the REALITY settings of entry e, as both forms read them; the form of items
\* switches TLS on with them.
Shielded(x, o, e) ==
    /\ Out(x) /\ \A f \in Columns \ {"reality", "insecure", "pbk", "sid", "tls"} : x[f] = o[f]
    /\ e.sec = "reality" => x.reality = TRUE /\ x.insecure = TRUE /\ x.pbk = e.pbk /\ x.sid = e.sid
    /\ e.sec # "reality" => /\ x.reality = o.reality /\ x.insecure = o.insecure /\ x.pbk = o.pbk
                            /\ x.sid = o.sid /\ x.tls = o.tls

LEMMA LinkShields ==
  ASSUME NEW e, NEW o, Out(o), NEW x, x = LinkReality(e, o)
  PROVE  Shielded(x, o, e) /\ x.tls = o.tls
  <1>1. CASE e.sec # "reality"
    BY <1>1 DEF LinkReality, Shielded
  <1>2. CASE e.sec = "reality"
    <2>1. x = [o EXCEPT !.reality = TRUE, !.insecure = TRUE, !.pbk = e.pbk, !.sid = e.sid]
      BY <1>2 DEF LinkReality
    <2> QED
      BY <1>2, <2>1 DEF Shielded, Out, Columns
  <1> QED
    BY <1>1, <1>2

LEMMA ClashShields ==
  ASSUME NEW e, NEW o, Out(o), NEW x, x = ClashReality(e, o)
  PROVE  Shielded(x, o, e) /\ (e.sec = "reality" => x.tls = TRUE)
  <1>1. CASE e.sec # "reality"
    BY <1>1 DEF ClashReality, Shielded
  <1>2. CASE e.sec = "reality"
    <2>1. x = [o EXCEPT !.reality = TRUE, !.tls = TRUE, !.insecure = TRUE, !.pbk = e.pbk,
                        !.sid = e.sid]
      BY <1>2 DEF ClashReality
    <2> QED
      BY <1>2, <2>1 DEF Shielded, Out, Columns
  <1> QED
    BY <1>1, <1>2

-----------------------------------------------------------------------------
(* Protocols. *)

\* What both forms set before security and transport: o is an outbound of type t for the
\* host of entry e.
Begins(o, t, e) ==
    /\ Still(o) /\ o.type = t /\ o.server = e.server /\ o.port = e.port
    /\ o.tls \in BOOLEAN /\ o.reality = FALSE /\ o.pbk = Absent /\ o.sid = Absent

\* What belongs to the protocol: credentials, taken from the user or the password of
\* entry e, and the settings both forms know.
Credited(o, t, e) ==
    /\ o.user = IF t \in {"socks5", "http"} THEN e.user ELSE Absent
    /\ o.pass = IF t \in {"socks5", "http", "shadowsocks"} THEN e.pass
                ELSE IF t \in {"trojan", "anytls", "hysteria2"} THEN e.user ELSE Absent
    /\ o.method = IF t = "shadowsocks" THEN e.user ELSE Absent
    /\ o.uuid = IF t \in {"vmess", "vless"} THEN e.user ELSE Absent
    /\ o.cipher = IF t = "vmess" THEN FirstNonEmpty(e.cipher, "auto") ELSE Absent
    /\ o.flow = IF t = "vless" THEN e.flow ELSE Absent
    /\ o.obfs = IF t = "hysteria2" THEN e.obfs ELSE Absent

\* The protocols an item may have.
Protocols == {"shadowsocks", "vmess", "vless", "trojan", "socks5", "http", "hysteria2", "anytls"}

\* What the parser of items has before the transport.
Item(c, t) ==
    LET o == ClashProtocol(c, Host(c, [Blank EXCEPT !.type = t, !.tls = (c.scheme = "https")]))
    IN  [o EXCEPT !.tls = ClashTLS(c, o.tls), !.insecure = c.insecure, !.alpn = c.alpn, !.fp = c.fp,
                  !.sni = (IF o.type = "hysteria2" THEN FirstNonEmpty(c.sni, c.server) ELSE c.sni)]

\* An item once its protocol is known.
LEMMA ProtocolIs ==
  ASSUME NEW c, NEW t \in Protocols, NEW o,
         o = ClashProtocol(c, Host(c, [Blank EXCEPT !.type = t, !.tls = (c.scheme = "https")]))
  PROVE  /\ Begins(o, t, c) /\ Credited(o, t, c) /\ o.idle = 0
         /\ o.tls <=> t \in {"trojan", "anytls", "hysteria2"} \/ c.scheme = "https"
  <1>1. PICK h \in BOOLEAN : h = (c.scheme = "https")
    OBVIOUS
  <1>2. PICK b : b = Host(c, [Blank EXCEPT !.type = t, !.tls = (c.scheme = "https")])
    OBVIOUS
  <1> DEFINE Bare == /\ b.user = Absent /\ b.pass = Absent /\ b.method = Absent /\ b.uuid = Absent
                     /\ b.cipher = Absent /\ b.flow = Absent /\ b.obfs = Absent /\ b.idle = 0
  <1>3. Begins(b, t, c) /\ b.tls = h /\ Bare
    BY <1>1, <1>2 DEF Host, Blank, Begins, Still, Out, Columns
  <1>4. o = ClashProtocol(c, b)
    BY <1>2
  <1>5. /\ Begins(o, t, c) /\ Credited(o, t, c) /\ o.idle = 0
        /\ o.tls <=> t \in {"trojan", "anytls", "hysteria2"} \/ h
    <2>1. CASE t = "shadowsocks"
      <3>1. o = [b EXCEPT !.method = c.user, !.pass = c.pass]
        BY <1>3, <1>4, <2>1 DEF ClashProtocol, Begins
      <3> QED
        BY <1>3, <2>1, <3>1 DEF Begins, Credited, Still, Out, Columns
    <2>2. CASE t = "vmess"
      <3>0. PICK x : x = FirstNonEmpty(c.cipher, "auto")
        OBVIOUS
      <3>1. o = [b EXCEPT !.uuid = c.user, !.cipher = x]
        BY <1>3, <1>4, <2>2, <3>0 DEF ClashProtocol, Begins
      <3> QED
        BY <1>3, <2>2, <3>0, <3>1 DEF Begins, Credited, Still, Out, Columns
    <2>3. CASE t = "vless"
      <3>1. o = [b EXCEPT !.uuid = c.user, !.flow = c.flow]
        BY <1>3, <1>4, <2>3 DEF ClashProtocol, Begins
      <3> QED
        BY <1>3, <2>3, <3>1 DEF Begins, Credited, Still, Out, Columns
    <2>4. CASE t \in {"socks5", "http"}
      <3>1. o = [b EXCEPT !.user = c.user, !.pass = c.pass]
        BY <1>3, <1>4, <2>4 DEF ClashProtocol, Begins
      <3> QED
        BY <1>3, <2>4, <3>1 DEF Begins, Credited, Still, Out, Columns
    <2>5. CASE t \in {"trojan", "anytls"}
      <3>1. o = [b EXCEPT !.pass = c.user, !.tls = TRUE]
        BY <1>3, <1>4, <2>5 DEF ClashProtocol, Begins
      <3> QED
        BY <1>3, <2>5, <3>1 DEF Begins, Credited, Still, Out, Columns
    <2>6. CASE t = "hysteria2"
      <3>1. o = [b EXCEPT !.pass = c.user, !.tls = TRUE, !.obfs = c.obfs]
        BY <1>3, <1>4, <2>6 DEF ClashProtocol, Begins
      <3> QED
        BY <1>3, <2>6, <3>1 DEF Begins, Credited, Still, Out, Columns
    <2> QED
      BY <2>1, <2>2, <2>3, <2>4, <2>5, <2>6 DEF Protocols
  <1> QED
    BY <1>1, <1>5

\* An item with its TLS settings, before the transport.
LEMMA ItemIs ==
  ASSUME NEW c, NEW t \in Protocols, NEW p, p = Item(c, t)
  PROVE  /\ Begins(p, t, c) /\ Credited(p, t, c)
         /\ p.insecure = c.insecure /\ p.alpn = c.alpn /\ p.fp = c.fp /\ p.idle = 0
         /\ p.sni = (IF t = "hysteria2" THEN FirstNonEmpty(c.sni, c.server) ELSE c.sni)
         /\ p.tls <=> IF c.tls = Absent
                      THEN t \in {"trojan", "anytls", "hysteria2"} \/ c.scheme = "https"
                      ELSE c.tls = "true"
  <1>1. PICK o : o = ClashProtocol(c, Host(c, [Blank EXCEPT !.type = t, !.tls = (c.scheme = "https")]))
    OBVIOUS
  <1>5. /\ Begins(o, t, c) /\ Credited(o, t, c) /\ o.idle = 0
        /\ o.tls <=> t \in {"trojan", "anytls", "hysteria2"} \/ c.scheme = "https"
    BY <1>1, ProtocolIs
  <1>6. PICK l \in BOOLEAN : l = ClashTLS(c, o.tls)
    <2>1. o.tls \in BOOLEAN
      BY <1>5 DEF Begins
    <2> QED
      BY <2>1 DEF ClashTLS
  <1>7. l <=> IF c.tls = Absent THEN t \in {"trojan", "anytls", "hysteria2"} \/ c.scheme = "https"
              ELSE c.tls = "true"
    BY <1>5, <1>6 DEF ClashTLS
  <1>8. PICK n : n = IF t = "hysteria2" THEN FirstNonEmpty(c.sni, c.server) ELSE c.sni
    OBVIOUS
  <1>9. o.type = t
    BY <1>5 DEF Begins
  <1>10. p = [o EXCEPT !.tls = l, !.insecure = c.insecure, !.alpn = c.alpn, !.fp = c.fp, !.sni = n]
    BY <1>1, <1>6, <1>8, <1>9 DEF Item
  <1>11. Begins(p, t, c) /\ Credited(p, t, c) /\ p.tls = l
    BY <1>5, <1>10 DEF Begins, Credited, Still, Out, Columns
  <1>12. p.insecure = c.insecure /\ p.alpn = c.alpn /\ p.fp = c.fp /\ p.idle = 0 /\ p.sni = n
    BY <1>5, <1>10 DEF Begins, Still, Out, Columns
  <1> QED
    BY <1>7, <1>8, <1>11, <1>12

\* The parser of items, on the protocols it knows.
LEMMA ClashIs ==
  ASSUME NEW c, c.scheme # Absent, c.server # Absent, c.port \in Int, c.port > 0,
         NEW t \in Protocols, t = NormalizeProtocol(c.scheme)
  PROVE  ParseClashProxy(c) = Kept(c, ClashReality(c, ClashTransport(c, Item(c, t))))
  <1>1. PICK o : o = ClashProtocol(c, Host(c, [Blank EXCEPT !.type = t, !.tls = (c.scheme = "https")]))
    OBVIOUS
  <1>2. o.type = t /\ t # Absent
    <2>1. Begins(o, t, c)
      BY <1>1, ProtocolIs
    <2>2. o.type = t
      BY <2>1, Zenon DEF Begins
    <2>3. t # Absent
      BY AbsentIs DEF Protocols
    <2> QED
      BY <2>2, <2>3
  <1>3. ~(c.port <= 0)
    OBVIOUS
  <1> QED
    BY <1>1, <1>2, <1>3 DEF ParseClashProxy, Item

\* The parser of items drops the others.
LEMMA ClashDrops ==
  ASSUME NEW c, NormalizeProtocol(c.scheme) \notin Protocols
  PROVE  ParseClashProxy(c) = Dropped
  <1>1. PICK t : t = NormalizeProtocol(c.scheme)
    OBVIOUS
  <1>2. PICK b : b = Host(c, [Blank EXCEPT !.type = t, !.tls = (c.scheme = "https")])
    OBVIOUS
  <1>3. b.type = t /\ Out(b)
    BY <1>2 DEF Host, Blank, Out, Columns
  <1>4. PICK o : o = ClashProtocol(c, b)
    OBVIOUS
  <1>5. o = [b EXCEPT !.type = Absent]
    BY <1>1, <1>3, <1>4 DEF ClashProtocol, Protocols
  <1>6. o.type = Absent
    BY <1>3, <1>5 DEF Out, Columns
  <1> QED
    BY <1>1, <1>2, <1>4, <1>6 DEF ParseClashProxy

-----------------------------------------------------------------------------
(* The two forms of one entry. *)

\* Both are kept or both dropped, and with the same key unless the forms differ.
Agree(d, link, clash) ==
    /\ (link = Dropped) <=> (clash = Dropped)
    /\ link # Dropped => ((link.key = clash.key) <=> ~FormsDiffer(d))

\* An entry d and the item c that says the same.
Twins(d, c) ==
    /\ c.scheme = d.scheme /\ c.server = d.server /\ c.port = d.port /\ c.user = d.user
    /\ c.pass = d.pass /\ c.net = d.net /\ c.path = d.path /\ c.service = d.service
    /\ c.sec = d.sec /\ c.pbk = d.pbk /\ c.sid = d.sid /\ c.sni = d.sni /\ c.insecure = d.insecure
    /\ c.alpn = d.alpn /\ c.fp = d.fp /\ c.cipher = d.cipher /\ c.flow = d.flow
    /\ c.obfs = d.obfs /\ c.idle = d.idle /\ c.host = d.host /\ c.mode = d.mode
    /\ c.authority = d.authority

\* The schemes whose items say in "tls" what a link says in "security".
Switched == {"vmess", "vless", "trojan", "socks", "socks5", "socks5h", "http"}

\* Whether a described proxy of protocol t has TLS.
Secured(d, t) ==
    IF d.scheme \in Switched
      THEN d.sec \in {"tls", "reality"} \/ (d.scheme = "trojan" /\ d.sec # "none")
      ELSE t \in {"trojan", "anytls", "hysteria2"} \/ d.scheme = "https"

\* The item that says what an entry says.
LEMMA ClashTwin ==
  ASSUME NEW d \in Entries, Described(d), NEW c, c = AsClash(d)
  PROVE  /\ Twins(d, c)
         /\ c.tls = IF d.scheme \notin Switched THEN Absent
                    ELSE IF d.sec \in {"tls", "reality"} \/ (d.scheme = "trojan" /\ d.sec # "none")
                         THEN "true" ELSE "false"
  <1>2. CASE d.scheme \notin Switched
    <2>1. c = d
      BY <1>2 DEF AsClash, Switched
    <2>2. d.tls = Absent
      BY DEF Described
    <2> QED
      BY <1>2, <2>1, <2>2 DEF Twins
  <1>3. CASE d.scheme \in Switched
    <2>1. PICK x : x = IF d.sec \in {"tls", "reality"} \/ (d.scheme = "trojan" /\ d.sec # "none")
                         THEN "true" ELSE "false"
      OBVIOUS
    <2>2. c = [d EXCEPT !.tls = x]
      BY <1>3, <2>1 DEF AsClash, Switched
    <2> QED
      BY <1>3, <2>1, <2>2 DEF Twins, Entries
  <1> QED
    BY <1>2, <1>3

\* The TLS settings a link of the scheme has, as against those of its item.
Equipped(d, t, o) ==
    /\ o.insecure = IF t = "shadowsocks" THEN FALSE ELSE d.insecure
    /\ o.sni = IF t = "shadowsocks" THEN Absent
               ELSE IF t \in {"trojan", "vless", "anytls", "hysteria2"} THEN FirstNonEmpty(d.sni, d.server)
               ELSE d.sni
    /\ o.alpn = IF t \in {"vmess", "shadowsocks"} THEN Absent ELSE d.alpn
    /\ o.fp = IF t \in {"shadowsocks", "hysteria2"} THEN Absent ELSE d.fp
    /\ o.idle = IF t = "anytls" THEN d.idle ELSE 0

\* The transport a link of the scheme has.
Routed(d, t, x, u) ==
    /\ Moved(x, u, d)
    /\ x.path = PathOf(d, FirstNonEmpty(d.path, "/"))
    /\ x.service = CallOf(d, IF t = "vmess" THEN FirstNonEmpty(d.service, d.path) ELSE d.service)
    /\ x.authority = CallOf(d, IF t = "vmess" THEN FirstNonEmpty(d.authority, d.host) ELSE d.authority)

\* The scheme of a described entry, by its protocol.
LEMMA SchemeOf ==
  ASSUME NEW d, Described(d), NEW t \in Protocols, t = NormalizeProtocol(d.scheme)
  PROVE  /\ t = "shadowsocks" <=> d.scheme = "ss"
         /\ t = "hysteria2" <=> d.scheme \in {"hysteria2", "hy2"}
         /\ t = "vmess" <=> d.scheme = "vmess"
         /\ t = "vless" <=> d.scheme = "vless"
         /\ t = "trojan" <=> d.scheme = "trojan"
         /\ t = "anytls" <=> d.scheme = "anytls"
  BY DEF Described, NormalizeProtocol, Protocols

\* A link that is read as outbound o, then has the REALITY settings and the transport every
\* protocol adds, agrees with its item.
LEMMA ReadAlike ==
  ASSUME NEW d \in Entries, Described(d), d.scheme # Absent,
         NEW t \in Protocols, t = NormalizeProtocol(d.scheme),
         NEW o, Begins(o, t, d), Credited(o, t, d), Equipped(d, t, o),
         o.tls <=> Secured(d, t), d.sec = "reality" => o.tls,
         NEW u, u = LinkReality(d, o), NEW x, Routed(d, t, x, u)
  PROVE  Agree(d, Kept(d, x), ParseClashProxy(AsClash(d)))
  <1>1. PICK c : c = AsClash(d)
    OBVIOUS
  <1>2. /\ Twins(d, c)
        /\ c.tls = IF d.scheme \notin Switched THEN Absent
                   ELSE IF d.sec \in {"tls", "reality"} \/ (d.scheme = "trojan" /\ d.sec # "none")
                        THEN "true" ELSE "false"
    BY <1>1, ClashTwin
  <1>3. PICK p : p = Item(c, t)
    OBVIOUS
  <1>4. /\ Begins(p, t, c) /\ Credited(p, t, c)
        /\ p.insecure = c.insecure /\ p.alpn = c.alpn /\ p.fp = c.fp /\ p.idle = 0
        /\ p.sni = (IF t = "hysteria2" THEN FirstNonEmpty(c.sni, c.server) ELSE c.sni)
        /\ p.tls <=> IF c.tls = Absent THEN t \in {"trojan", "anytls", "hysteria2"} \/ c.scheme = "https"
                     ELSE c.tls = "true"
    BY <1>3, ItemIs
  <1>5. PICK q, y : q = ClashTransport(c, p) /\ y = ClashReality(c, q)
    OBVIOUS
  <1>6. d.net \in Nets /\ c.net \in Nets
    BY <1>2 DEF Described, Nets, Twins
  <1>7. /\ Moved(q, p, c) /\ q.path = PathOf(c, c.path) /\ q.service = CallOf(c, c.service)
        /\ q.authority = CallOf(c, c.authority)
    BY <1>4, <1>5, <1>6, Carries DEF Begins
  <1>8. Shielded(u, o, d) /\ u.tls = o.tls
    BY LinkShields DEF Begins, Still
  <1>9. Shielded(y, q, c) /\ (c.sec = "reality" => y.tls = TRUE)
    BY <1>5, <1>7, ClashShields DEF Moved
  <1> DEFINE Fixed == {"type", "server", "port", "user", "pass", "method", "uuid", "cipher", "flow", "obfs"}
  <1>10. \A f \in Fixed : o[f] = p[f]
    <2>1. /\ c.server = d.server /\ c.port = d.port /\ c.user = d.user /\ c.pass = d.pass
          /\ c.cipher = d.cipher /\ c.flow = d.flow /\ c.obfs = d.obfs
      BY <1>2 DEF Twins
    <2>2. o.type = p.type /\ o.server = p.server /\ o.port = p.port
      BY <1>4, <2>1 DEF Begins
    <2>3. /\ o.user = p.user /\ o.pass = p.pass /\ o.method = p.method /\ o.uuid = p.uuid
          /\ o.cipher = p.cipher /\ o.flow = p.flow /\ o.obfs = p.obfs
      BY <1>4, <2>1 DEF Credited
    <2> QED
      BY <2>2, <2>3
  <1> DEFINE Kind == Fixed \cup {"sni", "alpn", "fp", "idle"}
  <1>11. \A f \in Kind : x[f] = o[f] /\ y[f] = p[f]
    <2>1. Kind \subseteq Columns \ Carried
      BY DEF Columns, Carried
    <2>2. Kind \subseteq Columns \ {"reality", "insecure", "pbk", "sid", "tls"}
      BY DEF Columns
    <2> HIDE DEF Kind
    <2>3. \A f \in Kind : x[f] = u[f] /\ q[f] = p[f]
      BY <1>7, <2>1 DEF Routed, Moved
    <2>4. \A f \in Kind : u[f] = o[f] /\ y[f] = q[f]
      BY <1>8, <1>9, <2>2 DEF Shielded
    <2> QED
      BY <2>3, <2>4
  <1>12. \A f \in {"reality", "insecure", "pbk", "sid", "tls"} : x[f] = u[f] /\ q[f] = p[f]
    BY <1>7 DEF Routed, Moved, Columns, Carried
  <1>13. \A f \in {"net", "host", "mode", "path", "service", "authority"} : y[f] = q[f]
    BY <1>9 DEF Shielded, Columns
  <1>14. x.net = y.net /\ x.host = y.host /\ x.mode = y.mode
    <2>1. c.net = d.net /\ c.host = d.host /\ c.mode = d.mode
      BY <1>2 DEF Twins
    <2>2. /\ y.net = q.net /\ y.host = q.host /\ y.mode = q.mode
      BY <1>13
    <2> QED
      BY <1>7, <2>1, <2>2 DEF Routed, Moved
  <1>15. x.reality = y.reality /\ x.pbk = y.pbk /\ x.sid = y.sid
    <2>1. c.sec = d.sec /\ c.pbk = d.pbk /\ c.sid = d.sid
      BY <1>2 DEF Twins
    <2>2. /\ x.reality = u.reality /\ x.pbk = u.pbk /\ x.sid = u.sid
          /\ q.reality = p.reality /\ q.pbk = p.pbk /\ q.sid = p.sid
      BY <1>12
    <2>3. o.reality = p.reality /\ o.pbk = p.pbk /\ o.sid = p.sid
      BY <1>4 DEF Begins
    <2> QED
      BY <1>8, <1>9, <2>1, <2>2, <2>3, Zenon DEF Shielded
  <1>16. x.tls = y.tls
    <2>1. c.scheme = d.scheme /\ c.sec = d.sec
      BY <1>2 DEF Twins
    <2>2. o.tls <=> p.tls
      BY <1>2, <1>4, <2>1, AbsentIs DEF Secured
    <2>3. o.tls = p.tls /\ (d.sec = "reality" => o.tls = TRUE)
      BY <1>4, <2>2, Zenon DEF Begins
    <2>4. x.tls = u.tls /\ q.tls = p.tls
      BY <1>12
    <2> QED
      BY <1>8, <1>9, <2>1, <2>3, <2>4, Zenon DEF Shielded
  <1>17. \A f \in Columns \ Loose : x[f] = y[f]
    <2>1. \A f \in Fixed : x[f] = y[f]
      BY <1>10, <1>11
    <2>2. Columns \ Loose = Fixed \cup {"net", "host", "mode", "reality", "pbk", "sid", "tls"}
      BY DEF Columns, Loose
    <2> HIDE DEF Fixed
    <2> QED
      BY <1>14, <1>15, <1>16, <2>1, <2>2
  <1>18. /\ x.sni = o.sni /\ y.sni = p.sni /\ x.alpn = o.alpn /\ y.alpn = p.alpn
         /\ x.fp = o.fp /\ y.fp = p.fp /\ x.idle = o.idle /\ y.idle = 0 /\ x.type = t
    <2>1. /\ x.sni = o.sni /\ y.sni = p.sni /\ x.alpn = o.alpn /\ y.alpn = p.alpn
          /\ x.fp = o.fp /\ y.fp = p.fp /\ x.idle = o.idle /\ y.idle = p.idle /\ x.type = o.type
      BY <1>11
    <2> QED
      BY <1>4, <2>1 DEF Begins
  <1>19. /\ y.path = PathOf(d, d.path) /\ y.service = CallOf(d, d.service)
         /\ y.authority = CallOf(d, d.authority)
    <2>1. y.path = q.path /\ y.service = q.service /\ y.authority = q.authority
      BY <1>13
    <2>2. c.net = d.net /\ c.path = d.path /\ c.service = d.service /\ c.authority = d.authority
      BY <1>2 DEF Twins
    <2> QED
      BY <1>7, <2>1, <2>2 DEF PathOf, CallOf
  <1>20. /\ (x.sni = y.sni) <=> ~(\/ d.scheme \in {"trojan", "vless", "anytls"} /\ d.sni = Absent
                                  \/ d.scheme = "ss" /\ d.sni # Absent)
    <2>1. y.sni = IF t = "hysteria2" THEN FirstNonEmpty(d.sni, d.server) ELSE d.sni
      BY <1>2, <1>4, <1>18 DEF Twins
    <2>2. d.server # Absent
      BY DEF Described
    <2> QED
      BY <1>18, <2>1, <2>2, SchemeOf DEF Equipped, FirstNonEmpty
  <1>21. /\ (x.alpn = y.alpn) <=> ~(d.scheme \in {"vmess", "ss"} /\ d.alpn # Absent)
         /\ (x.fp = y.fp) <=> ~(d.scheme \in {"ss", "hysteria2", "hy2"} /\ d.fp # Absent)
         /\ (x.idle = y.idle) <=> ~(d.scheme = "anytls" /\ d.idle # 0)
    <2>1. y.alpn = d.alpn /\ y.fp = d.fp
      BY <1>2, <1>4, <1>18 DEF Twins
    <2> QED
      BY <1>18, <2>1, SchemeOf DEF Equipped
  <1>22. (x.insecure = y.insecure) <=> ~(d.scheme = "ss" /\ d.insecure)
    <2>1. x.insecure = u.insecure /\ q.insecure = p.insecure
      BY <1>12
    <2>2. c.sec = d.sec /\ p.insecure = d.insecure
      BY <1>2, <1>4 DEF Twins
    <2>3. d.insecure \in BOOLEAN
      BY DEF Entries
    <2>4. CASE d.sec = "reality"
      <3>1. x.insecure = TRUE /\ y.insecure = TRUE
        BY <1>8, <1>9, <2>1, <2>2, <2>4 DEF Shielded
      <3>2. d.scheme # "ss"
        BY <2>4 DEF Described
      <3> QED
        BY <3>1, <3>2
    <2>5. CASE d.sec # "reality"
      <3>1. x.insecure = o.insecure /\ y.insecure = d.insecure
        BY <1>8, <1>9, <2>1, <2>2, <2>5 DEF Shielded
      <3>2. CASE d.scheme = "ss"
        <4>1. o.insecure = FALSE
          BY <3>2, SchemeOf DEF Equipped
        <4> QED
          BY <2>3, <3>1, <3>2, <4>1
      <3>3. CASE d.scheme # "ss"
        <4>1. o.insecure = d.insecure
          BY <3>3, SchemeOf DEF Equipped
        <4> QED
          BY <3>1, <3>3, <4>1
      <3> QED
        BY <3>2, <3>3
    <2> QED
      BY <2>4, <2>5
  <1>23. /\ (x.path = y.path) <=> ~(d.net \notin {Absent, "grpc"} /\ d.path = Absent)
         /\ (x.service = y.service) <=>
              ~(d.scheme = "vmess" /\ d.net = "grpc" /\ d.service = Absent /\ d.path # Absent)
         /\ (x.authority = y.authority) <=>
              ~(d.scheme = "vmess" /\ d.net = "grpc" /\ d.authority = Absent /\ d.host # Absent)
    BY <1>19, SchemeOf, AbsentIs DEF Routed, PathOf, CallOf, FirstNonEmpty
  <1>24. (\A f \in Columns \ {"cert"} : x[f] = y[f]) <=>
            (/\ x.sni = y.sni /\ x.insecure = y.insecure /\ x.path = y.path /\ x.service = y.service
             /\ x.authority = y.authority /\ x.alpn = y.alpn /\ x.fp = y.fp /\ x.idle = y.idle)
    <2>1. Columns \ {"cert"} = (Columns \ Loose) \cup {"sni", "insecure", "path", "service",
                                                       "authority", "alpn", "fp", "idle"}
      BY DEF Columns, Loose
    <2> QED
      BY <1>17, <2>1
  <1>25. (ComputeSourceKey(x) = ComputeSourceKey(y)) <=> ~FormsDiffer(d)
    <2>1. (ComputeSourceKey(x) = ComputeSourceKey(y)) <=> (\A f \in Columns \ {"cert"} : x[f] = y[f])
      BY KeysAre
    <2> QED
      BY <1>20, <1>21, <1>22, <1>23, <1>24, <2>1, Zenon DEF FormsDiffer
  <1>26. Validate(x) <=> Validate(y)
    <2>1. x.idle >= 0 /\ y.idle >= 0
      BY <1>18 DEF Equipped, Described, Entries
    <2>2. x.type = "vless" => x.service = y.service
      BY <1>18, <1>19 DEF Routed
    <2> QED
      BY <1>17, <2>1, <2>2, ValidAlike
  <1>27. Agree(d, Kept(d, x), Kept(c, y))
    <2>1. PICK link, clash : link = Kept(d, x) /\ clash = Kept(c, y)
      OBVIOUS
    <2>2. /\ Validate(x) => link # Dropped /\ link.key = ComputeSourceKey(x)
          /\ ~Validate(x) => link = Dropped
          /\ Validate(y) => clash # Dropped /\ clash.key = ComputeSourceKey(y)
          /\ ~Validate(y) => clash = Dropped
      BY <2>1, KeptIs
    <2>3. Agree(d, link, clash)
      <3>1. CASE Validate(x)
        BY <1>25, <1>26, <2>2, <3>1 DEF Agree
      <3>2. CASE ~Validate(x)
        BY <1>26, <2>2, <3>2 DEF Agree
      <3> QED
        BY <3>1, <3>2
    <2> QED
      BY <2>1, <2>3
  <1>28. ParseClashProxy(c) = Kept(c, y)
    <2>1. c.scheme = d.scheme /\ c.server # Absent /\ c.port \in Int /\ c.port > 0
      BY <1>2 DEF Twins, Described, Entries
    <2> QED
      BY <1>3, <1>5, <2>1, ClashIs
  <1> QED
    BY <1>1, <1>27, <1>28

\* Links without REALITY or without a transport keep what they began with.
LEMMA NothingAdded ==
  ASSUME NEW d, NEW o
  PROVE  /\ d.sec # "reality" => LinkReality(d, o) = o
         /\ d.net = Absent => LinkTransport(d, o) = o
  BY AbsentIs DEF LinkReality, LinkTransport

\* The transport of a link that is not a vmess link.
LEMMA LinkRouted ==
  ASSUME NEW d \in Entries, Described(d), NEW t, t # "vmess", NEW o, Begins(o, t, d),
         NEW u, u = LinkReality(d, o), NEW x, x = LinkTransport(d, u)
  PROVE  Routed(d, t, x, u)
  <1>1. Shielded(u, o, d)
    BY LinkShields DEF Begins, Still
  <1>2. Still(u)
    BY <1>1 DEF Shielded, Begins, Still, Columns
  <1>3. d.net \in Nets
    BY DEF Described, Nets
  <1>4. PICK path : path = FirstNonEmpty(d.path, "/")
    OBVIOUS
  <1>5. /\ Moved(x, u, d) /\ x.path = PathOf(d, path) /\ x.service = CallOf(d, d.service)
        /\ x.authority = CallOf(d, d.authority)
    BY <1>2, <1>3, <1>4, Carries
  <1> QED
    BY <1>4, <1>5 DEF Routed

\* A vmess link and its item.
LEMMA VmessAlike ==
  ASSUME NEW d \in Entries, Described(d), d.scheme = "vmess"
  PROVE  Agree(d, ParseLink(d), ParseClashProxy(AsClash(d)))
  <1>1. /\ NormalizeProtocol(d.scheme) = "vmess" /\ "vmess" \in Protocols /\ d.scheme # Absent
    BY AbsentIs DEF NormalizeProtocol, Protocols
  <1>2. /\ d.server # Absent /\ ~(d.port <= 0) /\ d.port > 0 /\ d.decodes /\ d.user # Absent
        /\ d.tls = Absent
    BY DEF Described, Entries
  <1>3. PICK s \in BOOLEAN : s = (d.sec = "tls")
    OBVIOUS
  <1>4. PICK n : n = d.sni
    OBVIOUS
  <1>5. PICK o : o = Host(d, [Blank EXCEPT !.type = "vmess", !.uuid = d.user,
                        !.cipher = FirstNonEmpty(d.cipher, "auto"), !.tls = (d.sec = "tls"),
                        !.sni = d.sni, !.fp = d.fp, !.insecure = d.insecure])
    OBVIOUS
  <1>6. /\ Begins(o, "vmess", d) /\ Credited(o, "vmess", d) /\ Equipped(d, "vmess", o) /\ o.tls = s
    <2>1. o = [Blank EXCEPT !.type = "vmess", !.uuid = d.user,
                        !.cipher = FirstNonEmpty(d.cipher, "auto"), !.tls = s, !.sni = d.sni,
                        !.fp = d.fp, !.insecure = d.insecure, !.server = d.server, !.port = d.port]
      BY <1>3, <1>4, <1>5 DEF Host
    <2>2. Begins(o, "vmess", d) /\ o.tls = s
      BY <1>3, <2>1 DEF Blank, Begins, Still, Out, Columns
    <2>3. Credited(o, "vmess", d)
      BY <2>1 DEF Blank, Credited, Out, Columns
    <2>4. Equipped(d, "vmess", o)
      BY <1>4, <2>1 DEF Blank, Equipped, Out, Columns
    <2> QED
      BY <2>2, <2>3, <2>4
  <1>7. (o.tls <=> Secured(d, "vmess")) /\ (d.sec = "reality" => o.tls)
    BY <1>3, <1>6, AbsentIs DEF Secured, Switched, Described
  <1>8. PICK u, x : u = LinkReality(d, o) /\ x = VmessTransport(d, u)
    OBVIOUS
  <1>9. Routed(d, "vmess", x, u)
    <2>1. u = o
      BY <1>8, NothingAdded DEF Described
    <2>2. d.net \in Nets
      BY DEF Described, Nets
    <2>3. Still(u)
      BY <1>6, <2>1 DEF Begins
    <2> QED
      BY <1>8, <2>2, <2>3, VmessMoves DEF Routed
  <1>10. ParseLink(d) = Kept(d, x)
    <2>1. u = o
      BY <1>8, NothingAdded DEF Described
    <2>2. ParseLink(d) = ParseVmess(d)
      BY DEF ParseLink
    <2> QED
      BY <1>2, <1>3, <1>5, <1>8, <2>1, <2>2 DEF ParseVmess
  <1> QED
    BY <1>1, <1>6, <1>7, <1>8, <1>9, <1>10, ReadAlike

\* A trojan link and its item.
LEMMA TrojanAlike ==
  ASSUME NEW d \in Entries, Described(d), d.scheme = "trojan"
  PROVE  Agree(d, ParseLink(d), ParseClashProxy(AsClash(d)))
  <1>1. /\ NormalizeProtocol(d.scheme) = "trojan" /\ "trojan" \in Protocols /\ d.scheme # Absent
    BY AbsentIs DEF NormalizeProtocol, Protocols
  <1>2. /\ d.server # Absent /\ ~(d.port <= 0) /\ d.port > 0 /\ d.decodes /\ d.user # Absent
        /\ d.tls = Absent
    BY DEF Described, Entries
  <1>3. PICK s \in BOOLEAN : s = (d.sec # "none")
    OBVIOUS
  <1>4. PICK n : n = FirstNonEmpty(d.sni, d.server)
    OBVIOUS
  <1>5. PICK o : o = Host(d, [Blank EXCEPT !.type = "trojan", !.pass = d.user,
                        !.tls = (d.sec # "none"), !.alpn = d.alpn, !.fp = d.fp,
                        !.sni = FirstNonEmpty(d.sni, d.server), !.insecure = d.insecure])
    OBVIOUS
  <1>6. /\ Begins(o, "trojan", d) /\ Credited(o, "trojan", d) /\ Equipped(d, "trojan", o) /\ o.tls = s
    <2>1. o = [Blank EXCEPT !.type = "trojan", !.pass = d.user, !.tls = s, !.alpn = d.alpn,
                        !.fp = d.fp, !.sni = n, !.insecure = d.insecure, !.server = d.server,
                        !.port = d.port]
      BY <1>3, <1>4, <1>5 DEF Host
    <2>2. Begins(o, "trojan", d) /\ o.tls = s
      BY <1>3, <2>1 DEF Blank, Begins, Still, Out, Columns
    <2>3. Credited(o, "trojan", d)
      BY <2>1 DEF Blank, Credited, Out, Columns
    <2>4. Equipped(d, "trojan", o)
      BY <1>4, <2>1 DEF Blank, Equipped, Out, Columns
    <2> QED
      BY <2>2, <2>3, <2>4
  <1>7. (o.tls <=> Secured(d, "trojan")) /\ (d.sec = "reality" => o.tls)
    BY <1>3, <1>6, AbsentIs DEF Secured, Switched, Described
  <1>8. PICK u, x : u = LinkReality(d, o) /\ x = LinkTransport(d, u)
    OBVIOUS
  <1>9. Routed(d, "trojan", x, u)
    BY <1>1, <1>6, <1>8, LinkRouted
  <1>10. ParseLink(d) = Kept(d, x)
    <2>1. u = o
      BY <1>8, NothingAdded DEF Described
    <2>2. ParseLink(d) = ParseTrojan(d)
      BY DEF ParseLink
    <2> QED
      BY <1>2, <1>3, <1>5, <1>8, <2>1, <2>2 DEF ParseTrojan, CustomLinkParts
  <1> QED
    BY <1>1, <1>6, <1>7, <1>8, <1>9, <1>10, ReadAlike

\* A vless link and its item, REALITY included.
LEMMA VLESSAlike ==
  ASSUME NEW d \in Entries, Described(d), d.scheme = "vless"
  PROVE  Agree(d, ParseLink(d), ParseClashProxy(AsClash(d)))
  <1>1. /\ NormalizeProtocol(d.scheme) = "vless" /\ "vless" \in Protocols /\ d.scheme # Absent
    BY AbsentIs DEF NormalizeProtocol, Protocols
  <1>2. /\ d.server # Absent /\ ~(d.port <= 0) /\ d.port > 0 /\ d.decodes /\ d.user # Absent
        /\ d.tls = Absent
    BY DEF Described, Entries
  <1>3. PICK s \in BOOLEAN : s = (d.sec \in {"tls", "reality"})
    <2>1. CASE d.sec \in {"tls", "reality"}
      <3>1. (d.sec \in {"tls", "reality"}) = TRUE
        BY <2>1
      <3> QED
        BY <3>1
    <2>2. CASE d.sec \notin {"tls", "reality"}
      <3>1. (d.sec \in {"tls", "reality"}) = FALSE
        BY <2>2
      <3> QED
        BY <3>1
    <2> QED
      BY <2>1, <2>2
  <1>4. PICK n : n = FirstNonEmpty(d.sni, d.server)
    OBVIOUS
  <1>5. PICK o : o = Host(d, [Blank EXCEPT !.type = "vless", !.uuid = d.user, !.flow = d.flow,
                        !.alpn = d.alpn, !.fp = d.fp, !.tls = (d.sec \in {"tls", "reality"}),
                        !.sni = FirstNonEmpty(d.sni, d.server), !.insecure = d.insecure])
    OBVIOUS
  <1>6. /\ Begins(o, "vless", d) /\ Credited(o, "vless", d) /\ Equipped(d, "vless", o) /\ o.tls = s
    <2>1. o = [Blank EXCEPT !.type = "vless", !.uuid = d.user, !.flow = d.flow,
                        !.alpn = d.alpn, !.fp = d.fp, !.tls = s, !.sni = n, !.insecure = d.insecure,
                        !.server = d.server, !.port = d.port]
      BY <1>3, <1>4, <1>5 DEF Host
    <2>2. Begins(o, "vless", d) /\ o.tls = s
      BY <1>3, <2>1 DEF Blank, Begins, Still, Out, Columns
    <2>3. Credited(o, "vless", d)
      BY <2>1 DEF Blank, Credited, Out, Columns
    <2>4. Equipped(d, "vless", o)
      BY <1>4, <2>1 DEF Blank, Equipped, Out, Columns
    <2> QED
      BY <2>2, <2>3, <2>4
  <1>7. (o.tls <=> Secured(d, "vless")) /\ (d.sec = "reality" => o.tls)
    BY <1>3, <1>6, AbsentIs DEF Secured, Switched, Described
  <1>8. PICK u, x : u = LinkReality(d, o) /\ x = LinkTransport(d, u)
    OBVIOUS
  <1>9. Routed(d, "vless", x, u)
    BY <1>1, <1>6, <1>8, LinkRouted
  <1>10. ParseLink(d) = Kept(d, x)
    <2>2. ParseLink(d) = ParseVLESS(d)
      BY DEF ParseLink
    <2> QED
      BY <1>2, <1>3, <1>5, <1>8, <2>2 DEF ParseVLESS, CustomLinkParts
  <1> QED
    BY <1>1, <1>6, <1>7, <1>8, <1>9, <1>10, ReadAlike

\* An anytls link and its item, REALITY included.
LEMMA AnyTLSAlike ==
  ASSUME NEW d \in Entries, Described(d), d.scheme = "anytls"
  PROVE  Agree(d, ParseLink(d), ParseClashProxy(AsClash(d)))
  <1>1. /\ NormalizeProtocol(d.scheme) = "anytls" /\ "anytls" \in Protocols /\ d.scheme # Absent
    BY AbsentIs DEF NormalizeProtocol, Protocols
  <1>2. /\ d.server # Absent /\ ~(d.port <= 0) /\ d.port > 0 /\ d.decodes /\ d.user # Absent
        /\ d.tls = Absent
    BY DEF Described, Entries
  <1>3. PICK s \in BOOLEAN : s = (TRUE)
    OBVIOUS
  <1>4. PICK n : n = FirstNonEmpty(d.sni, d.server)
    OBVIOUS
  <1>5. PICK o : o = Host(d, [Blank EXCEPT !.type = "anytls", !.pass = d.user, !.tls = TRUE,
                        !.alpn = d.alpn, !.fp = d.fp, !.idle = d.idle, !.sni = FirstNonEmpty(d.sni,
                        d.server), !.insecure = d.insecure])
    OBVIOUS
  <1>6. /\ Begins(o, "anytls", d) /\ Credited(o, "anytls", d) /\ Equipped(d, "anytls", o) /\ o.tls = s
    <2>1. o = [Blank EXCEPT !.type = "anytls", !.pass = d.user, !.tls = TRUE,
                        !.alpn = d.alpn, !.fp = d.fp, !.idle = d.idle, !.sni = n,
                        !.insecure = d.insecure, !.server = d.server, !.port = d.port]
      BY <1>3, <1>4, <1>5 DEF Host
    <2>2. Begins(o, "anytls", d) /\ o.tls = s
      BY <1>3, <2>1 DEF Blank, Begins, Still, Out, Columns
    <2>3. Credited(o, "anytls", d)
      BY <2>1 DEF Blank, Credited, Out, Columns
    <2>4. Equipped(d, "anytls", o)
      BY <1>4, <2>1 DEF Blank, Equipped, Out, Columns
    <2> QED
      BY <2>2, <2>3, <2>4
  <1>7. (o.tls <=> Secured(d, "anytls")) /\ (d.sec = "reality" => o.tls)
    BY <1>3, <1>6, AbsentIs DEF Secured, Switched, Described
  <1>8. PICK u, x : u = LinkReality(d, o) /\ x = LinkTransport(d, u)
    OBVIOUS
  <1>9. Routed(d, "anytls", x, u)
    BY <1>1, <1>6, <1>8, LinkRouted
  <1>10. ParseLink(d) = Kept(d, x)
    <2>1. x = u
      BY <1>8, NothingAdded DEF Described
    <2>2. ParseLink(d) = ParseAnyTLS(d)
      BY DEF ParseLink
    <2> QED
      BY <1>2, <1>3, <1>5, <1>8, <2>1, <2>2 DEF ParseAnyTLS
  <1> QED
    BY <1>1, <1>6, <1>7, <1>8, <1>9, <1>10, ReadAlike

\* A hysteria2 link and its item: only the link pins a certificate.
LEMMA Hysteria2Alike ==
  ASSUME NEW d \in Entries, Described(d), d.scheme \in {"hysteria2", "hy2"}
  PROVE  Agree(d, ParseLink(d), ParseClashProxy(AsClash(d)))
  <1>1. /\ NormalizeProtocol(d.scheme) = "hysteria2" /\ "hysteria2" \in Protocols /\ d.scheme # Absent
    BY AbsentIs DEF NormalizeProtocol, Protocols
  <1>2. /\ d.server # Absent /\ ~(d.port <= 0) /\ d.port > 0 /\ d.decodes /\ d.user # Absent
        /\ d.tls = Absent
    BY DEF Described, Entries
  <1>3. PICK s \in BOOLEAN : s = (TRUE)
    OBVIOUS
  <1>4. PICK n : n = FirstNonEmpty(d.sni, d.server)
    OBVIOUS
  <1>5. PICK o : o = Host(d, [Blank EXCEPT !.type = "hysteria2", !.pass = d.user, !.tls = TRUE,
                        !.cert = d.cert, !.alpn = d.alpn, !.obfs = d.obfs, !.sni = FirstNonEmpty(d.sni,
                        d.server), !.insecure = d.insecure])
    OBVIOUS
  <1>6. /\ Begins(o, "hysteria2", d) /\ Credited(o, "hysteria2", d) /\ Equipped(d, "hysteria2", o) /\ o.tls = s
    <2>1. o = [Blank EXCEPT !.type = "hysteria2", !.pass = d.user, !.tls = TRUE,
                        !.cert = d.cert, !.alpn = d.alpn, !.obfs = d.obfs, !.sni = n,
                        !.insecure = d.insecure, !.server = d.server, !.port = d.port]
      BY <1>3, <1>4, <1>5 DEF Host
    <2>2. Begins(o, "hysteria2", d) /\ o.tls = s
      BY <1>3, <2>1 DEF Blank, Begins, Still, Out, Columns
    <2>3. Credited(o, "hysteria2", d)
      BY <2>1 DEF Blank, Credited, Out, Columns
    <2>4. Equipped(d, "hysteria2", o)
      BY <1>4, <2>1 DEF Blank, Equipped, Out, Columns
    <2> QED
      BY <2>2, <2>3, <2>4
  <1>7. (o.tls <=> Secured(d, "hysteria2")) /\ (d.sec = "reality" => o.tls)
    BY <1>3, <1>6, AbsentIs DEF Secured, Switched, Described
  <1>8. PICK u, x : u = LinkReality(d, o) /\ x = LinkTransport(d, u)
    OBVIOUS
  <1>9. Routed(d, "hysteria2", x, u)
    BY <1>1, <1>6, <1>8, LinkRouted
  <1>10. ParseLink(d) = Kept(d, x)
    <2>1. u = o /\ x = u
      BY <1>8, NothingAdded DEF Described
    <2>2. ParseLink(d) = ParseHysteria2(d)
      BY DEF ParseLink
    <2> QED
      BY <1>2, <1>3, <1>5, <1>8, <2>1, <2>2 DEF ParseHysteria2
  <1> QED
    BY <1>1, <1>6, <1>7, <1>8, <1>9, <1>10, ReadAlike

\* A shadowsocks link and its item.
LEMMA ShadowsocksAlike ==
  ASSUME NEW d \in Entries, Described(d), d.scheme = "ss"
  PROVE  Agree(d, ParseLink(d), ParseClashProxy(AsClash(d)))
  <1>1. /\ NormalizeProtocol(d.scheme) = "shadowsocks" /\ "shadowsocks" \in Protocols /\ d.scheme # Absent
    BY AbsentIs DEF NormalizeProtocol, Protocols
  <1>2. /\ d.server # Absent /\ ~(d.port <= 0) /\ d.port > 0 /\ d.decodes /\ d.user # Absent
        /\ d.tls = Absent
    BY DEF Described, Entries
  <1>3. PICK s \in BOOLEAN : s = (FALSE)
    OBVIOUS
  <1>4. PICK n : n = d.sni
    OBVIOUS
  <1>5. PICK o : o = Host(d, [Blank EXCEPT !.type = "shadowsocks", !.method = d.user,
                        !.pass = d.pass])
    OBVIOUS
  <1>6. /\ Begins(o, "shadowsocks", d) /\ Credited(o, "shadowsocks", d) /\ Equipped(d, "shadowsocks", o) /\ o.tls = s
    <2>1. o = [Blank EXCEPT !.type = "shadowsocks", !.method = d.user, !.pass = d.pass,
                        !.server = d.server, !.port = d.port]
      BY <1>3, <1>4, <1>5 DEF Host
    <2>2. Begins(o, "shadowsocks", d) /\ o.tls = s
      BY <1>3, <2>1 DEF Blank, Begins, Still, Out, Columns
    <2>3. Credited(o, "shadowsocks", d)
      BY <2>1 DEF Blank, Credited, Out, Columns
    <2>4. Equipped(d, "shadowsocks", o)
      BY <1>4, <2>1 DEF Blank, Equipped, Out, Columns
    <2> QED
      BY <2>2, <2>3, <2>4
  <1>7. (o.tls <=> Secured(d, "shadowsocks")) /\ (d.sec = "reality" => o.tls)
    BY <1>3, <1>6, AbsentIs DEF Secured, Switched, Described
  <1>8. PICK u, x : u = LinkReality(d, o) /\ x = LinkTransport(d, u)
    OBVIOUS
  <1>9. Routed(d, "shadowsocks", x, u)
    BY <1>1, <1>6, <1>8, LinkRouted
  <1>10. ParseLink(d) = Kept(d, x)
    <2>1. u = o /\ x = u
      BY <1>8, NothingAdded DEF Described
    <2>2. ParseLink(d) = ParseShadowsocks(d)
      BY DEF ParseLink
    <2> QED
      BY <1>2, <1>3, <1>5, <1>8, <2>1, <2>2 DEF ParseShadowsocks
  <1> QED
    BY <1>1, <1>6, <1>7, <1>8, <1>9, <1>10, ReadAlike

\* A socks link and its item.
LEMMA SOCKS5Alike ==
  ASSUME NEW d \in Entries, Described(d), d.scheme \in {"socks", "socks5", "socks5h"}
  PROVE  Agree(d, ParseLink(d), ParseClashProxy(AsClash(d)))
  <1>1. /\ NormalizeProtocol(d.scheme) = "socks5" /\ "socks5" \in Protocols /\ d.scheme # Absent
    BY AbsentIs DEF NormalizeProtocol, Protocols
  <1>2. /\ d.server # Absent /\ ~(d.port <= 0) /\ d.port > 0 /\ d.decodes /\ d.user # Absent
        /\ d.tls = Absent
    BY DEF Described, Entries
  <1>3. PICK s \in BOOLEAN : s = (d.sec = "tls")
    OBVIOUS
  <1>4. PICK n : n = d.sni
    OBVIOUS
  <1>5. PICK o : o = [Blank EXCEPT !.type = "socks5", !.server = d.server, !.port = d.port,
                        !.user = d.user, !.pass = d.pass, !.tls = s, !.alpn = d.alpn, !.fp = d.fp,
                        !.sni = d.sni, !.insecure = d.insecure]
    OBVIOUS
  <1>6. /\ Begins(o, "socks5", d) /\ Credited(o, "socks5", d) /\ Equipped(d, "socks5", o) /\ o.tls = s
    <2>1. o = [Blank EXCEPT !.type = "socks5", !.server = d.server, !.port = d.port,
                        !.user = d.user, !.pass = d.pass, !.tls = s, !.alpn = d.alpn, !.fp = d.fp,
                        !.sni = d.sni, !.insecure = d.insecure]
      BY <1>3, <1>4, <1>5 DEF Blank
    <2>2. Begins(o, "socks5", d) /\ o.tls = s
      BY <1>3, <2>1 DEF Blank, Begins, Still, Out, Columns
    <2>3. Credited(o, "socks5", d)
      BY <2>1 DEF Blank, Credited, Out, Columns
    <2>4. Equipped(d, "socks5", o)
      BY <1>4, <2>1 DEF Blank, Equipped, Out, Columns
    <2> QED
      BY <2>2, <2>3, <2>4
  <1>7. (o.tls <=> Secured(d, "socks5")) /\ (d.sec = "reality" => o.tls)
    BY <1>3, <1>6, AbsentIs DEF Secured, Switched, Described
  <1>8. PICK u, x : u = LinkReality(d, o) /\ x = LinkTransport(d, u)
    OBVIOUS
  <1>9. Routed(d, "socks5", x, u)
    BY <1>1, <1>6, <1>8, LinkRouted
  <1>10. ParseLink(d) = Kept(d, x)
    <2>1. u = o /\ x = u
      BY <1>8, NothingAdded DEF Described
    <2>2. ParseLink(d) = PlainProxy(d, "socks5", 1080, s)
      BY <1>2, <1>3, AbsentIs DEF ParseLink, ParseSOCKS5
    <2>3. d.path = Absent
      BY DEF Described
    <2> QED
      BY <1>2, <1>5, <2>1, <2>2, <2>3, ZenonT(60) DEF PlainProxy
  <1> QED
    BY <1>1, <1>6, <1>7, <1>8, <1>9, <1>10, ReadAlike

\* An http or https link and its item.
LEMMA HTTPAlike ==
  ASSUME NEW d \in Entries, Described(d), d.scheme \in {"http", "https"}
  PROVE  Agree(d, ParseLink(d), ParseClashProxy(AsClash(d)))
  <1>1. /\ NormalizeProtocol(d.scheme) = "http" /\ "http" \in Protocols /\ d.scheme # Absent
    BY AbsentIs DEF NormalizeProtocol, Protocols
  <1>2. /\ d.server # Absent /\ ~(d.port <= 0) /\ d.port > 0 /\ d.decodes /\ d.user # Absent
        /\ d.tls = Absent
    BY DEF Described, Entries
  <1>3. PICK s \in BOOLEAN : s = (d.scheme = "https" \/ d.sec = "tls")
    OBVIOUS
  <1>4. PICK n : n = d.sni
    OBVIOUS
  <1>5. PICK o : o = [Blank EXCEPT !.type = "http", !.server = d.server, !.port = d.port,
                        !.user = d.user, !.pass = d.pass, !.tls = s, !.alpn = d.alpn, !.fp = d.fp,
                        !.sni = d.sni, !.insecure = d.insecure]
    OBVIOUS
  <1>6. /\ Begins(o, "http", d) /\ Credited(o, "http", d) /\ Equipped(d, "http", o) /\ o.tls = s
    <2>1. o = [Blank EXCEPT !.type = "http", !.server = d.server, !.port = d.port,
                        !.user = d.user, !.pass = d.pass, !.tls = s, !.alpn = d.alpn, !.fp = d.fp,
                        !.sni = d.sni, !.insecure = d.insecure]
      BY <1>3, <1>4, <1>5 DEF Blank
    <2>2. Begins(o, "http", d) /\ o.tls = s
      BY <1>3, <2>1 DEF Blank, Begins, Still, Out, Columns
    <2>3. Credited(o, "http", d)
      BY <2>1 DEF Blank, Credited, Out, Columns
    <2>4. Equipped(d, "http", o)
      BY <1>4, <2>1 DEF Blank, Equipped, Out, Columns
    <2> QED
      BY <2>2, <2>3, <2>4
  <1>7. (o.tls <=> Secured(d, "http")) /\ (d.sec = "reality" => o.tls)
    BY <1>3, <1>6, AbsentIs DEF Secured, Switched, Described
  <1>8. PICK u, x : u = LinkReality(d, o) /\ x = LinkTransport(d, u)
    OBVIOUS
  <1>9. Routed(d, "http", x, u)
    BY <1>1, <1>6, <1>8, LinkRouted
  <1>10. ParseLink(d) = Kept(d, x)
    <2>1. u = o /\ x = u
      BY <1>8, NothingAdded DEF Described
    <2>2. ParseLink(d) = PlainProxy(d, "http", IF d.scheme = "https" THEN 443 ELSE 80, s)
      BY <1>2, <1>3, AbsentIs DEF ParseLink, ParseHTTP
    <2>3. d.path = Absent
      BY DEF Described
    <2> QED
      BY <1>2, <1>5, <2>1, <2>2, <2>3, ZenonT(60) DEF PlainProxy
  <1> QED
    BY <1>1, <1>6, <1>7, <1>8, <1>9, <1>10, ReadAlike

\* A described proxy is read alike from a link and from an item, whatever its protocol.
LEMMA EntryAlike ==
  ASSUME NEW d \in Entries, Described(d)
  PROVE  Agree(d, ParseLink(d), ParseClashProxy(AsClash(d)))
  <1> DEFINE Named == {"vmess", "trojan", "vless", "anytls", "hysteria2", "hy2", "ss",
                       "socks", "socks5", "socks5h", "http", "https"}
  <1>1. CASE d.scheme \in Named
    BY <1>1, VmessAlike, TrojanAlike, VLESSAlike, AnyTLSAlike, Hysteria2Alike, ShadowsocksAlike,
       SOCKS5Alike, HTTPAlike
  <1>2. CASE d.scheme \notin Named
    <2>1. ParseLink(d) = Dropped
      BY <1>2 DEF ParseLink
    <2>2. PICK c : c = AsClash(d)
      OBVIOUS
    <2>3. c.scheme = d.scheme
      BY <2>2, ClashTwin DEF Twins
    <2>4. d.scheme # "shadowsocks"
      BY DEF Described
    <2>5. NormalizeProtocol(c.scheme) \notin Protocols
      BY <1>2, <2>3, <2>4 DEF NormalizeProtocol, Protocols
    <2>6. ParseClashProxy(c) = Dropped
      BY <2>5, ClashDrops
    <2> QED
      BY <2>1, <2>2, <2>6 DEF Agree
  <1> QED
    BY <1>1, <1>2

\* What a parser does not drop can be stored.
LEMMA ParsedValid ==
  ASSUME NEW e
  PROVE  /\ ParseLink(e) # Dropped => Validate(ParseLink(e).outbound)
         /\ ParseClashProxy(e) # Dropped => Validate(ParseClashProxy(e).outbound)
  <1>1. \A c, o : Kept(c, o) # Dropped => Validate(Kept(c, o).outbound)
    BY DEF Kept
  <1>2. \A c, t, n, l : PlainProxy(c, t, n, l) # Dropped => Validate(PlainProxy(c, t, n, l).outbound)
    BY <1>1, ZenonT(60) DEF PlainProxy
  <1>3. /\ ParseVmess(e) # Dropped => Validate(ParseVmess(e).outbound)
        /\ ParseShadowsocks(e) # Dropped => Validate(ParseShadowsocks(e).outbound)
        /\ ParseTrojan(e) # Dropped => Validate(ParseTrojan(e).outbound)
        /\ ParseVLESS(e) # Dropped => Validate(ParseVLESS(e).outbound)
        /\ ParseAnyTLS(e) # Dropped => Validate(ParseAnyTLS(e).outbound)
        /\ ParseHysteria2(e) # Dropped => Validate(ParseHysteria2(e).outbound)
    BY <1>1, Zenon DEF ParseVmess, ParseShadowsocks, ParseTrojan, ParseVLESS, ParseAnyTLS, ParseHysteria2
  <1>4. /\ ParseSOCKS5(e) # Dropped => Validate(ParseSOCKS5(e).outbound)
        /\ ParseHTTP(e) # Dropped => Validate(ParseHTTP(e).outbound)
    <2>1. PICK n : n = 1080
      OBVIOUS
    <2>2. PICK m : m = IF e.scheme = "https" THEN 443 ELSE 80
      OBVIOUS
    <2>3. /\ \E l : ParseSOCKS5(e) = PlainProxy(e, "socks5", n, l)
          /\ \E l : ParseHTTP(e) = PlainProxy(e, "http", m, l)
      BY <2>1, <2>2 DEF ParseSOCKS5, ParseHTTP
    <2> QED
      BY <1>2, <2>3, Zenon
  <1>5. ParseLink(e) # Dropped => Validate(ParseLink(e).outbound)
    BY <1>3, <1>4 DEF ParseLink
  <1>6. ParseClashProxy(e) # Dropped => Validate(ParseClashProxy(e).outbound)
    BY <1>1, Zenon DEF ParseClashProxy
  <1> QED
    BY <1>5, <1>6

\* Every item of a parsed body can be stored.
LEMMA ContentValid ==
  ASSUME NEW b \in Bodies
  PROVE  \A i \in DOMAIN ParseSubscriptionContent(b).items :
             Validate(ParseSubscriptionContent(b).items[i].outbound)
  <1> DEFINE Sound(s) == \A i \in DOMAIN s : Validate(s[i].outbound)
  <1>1. PICK es \in Seq(Entries) : es = b.entries
    BY ContentAssumption
  <1>2. PICK t : t = MaybeDecodeBase64Content(b)
    OBVIOUS
  <1>3. t.entries = es
    BY <1>1, <1>2, ContentAssumption DEF MaybeDecodeBase64Content
  <1>4. Sound(<<>>)
    OBVIOUS
  <1>5. PICK yaml : yaml = ParseClashLikeYAML(t)
    OBVIOUS
  <1>6. Sound(yaml)
    <2>1. CASE t.form # "yaml"
      BY <1>4, <1>5, <2>1 DEF ParseClashLikeYAML
    <2>2. CASE t.form = "yaml"
      <3> DEFINE P == {ParseClashProxy(e) : e \in Entries}
      <3>1. PICK raw : raw = [i \in DOMAIN es |-> ParseClashProxy(es[i])]
        OBVIOUS
      <3>2. raw \in Seq(P)
        BY <3>1
      <3>3. yaml = WithoutDropped(raw)
        BY <1>3, <1>5, <2>2, <3>1 DEF ParseClashLikeYAML
      <3> HIDE DEF P
      <3>4. yaml \in Seq(P \ {Dropped})
        BY <3>2, <3>3, FilterSound
      <3>5. \A i \in DOMAIN yaml : yaml[i] \in P \ {Dropped}
        BY <3>4
      <3>6. \A x \in P \ {Dropped} : Validate(x.outbound)
        BY ParsedValid, Zenon DEF P
      <3> QED
        BY <3>5, <3>6
    <2> QED
      BY <2>1, <2>2
  <1>7. PICK links : links = WithoutDropped([i \in DOMAIN t.entries |-> ParseLink(t.entries[i])])
    OBVIOUS
  <1>8. Sound(links)
    <2> DEFINE P == {ParseLink(e) : e \in Entries}
    <2>1. PICK raw : raw = [i \in DOMAIN es |-> ParseLink(es[i])]
      OBVIOUS
    <2>2. raw \in Seq(P)
      BY <2>1
    <2>3. links = WithoutDropped(raw)
      BY <1>3, <1>7, <2>1
    <2> HIDE DEF P
    <2>4. links \in Seq(P \ {Dropped})
      BY <2>2, <2>3, FilterSound
    <2>5. \A i \in DOMAIN links : links[i] \in P \ {Dropped}
      BY <2>4
    <2>6. \A x \in P \ {Dropped} : Validate(x.outbound)
      BY ParsedValid, Zenon DEF P
    <2> QED
      BY <2>5, <2>6
  <1> HIDE DEF Sound
  <1>9. Error.items = <<>>
    BY DEF Error
  <1>10. \A s : Sound(s) => Sound(Result(s).items)
    BY <1>4, <1>9 DEF Result
  <1>11. Sound(ParseSubscriptionContent(b).items)
    BY <1>2, <1>4, <1>5, <1>6, <1>7, <1>8, <1>9, <1>10 DEF ParseSubscriptionContent
  <1> QED
    BY <1>11 DEF Sound

\* The body of a request stays what it is while it is answered, so the two forms agree on
\* it by EntryAlike, and a parsed reply is filtered by FilterSound.
THEOREM ParsersHold == ContentSpec => []ParsersInv
  <1> DEFINE Held == body \in Bodies /\ OneBadEntryIsDropped
  <1>1. ContentInit => Held
    BY DEF ContentInit, NoReply, OneBadEntryIsDropped
  <1>2. Held /\ [ContentNext]_contentVars => Held'
    <2>1. SUFFICES ASSUME Held, [ContentNext]_contentVars PROVE Held'
      OBVIOUS
    <2>2. CASE ParseImportContent
      <3>1. PICK r : r = ParseSubscriptionContent(body)
        OBVIOUS
      <3>2. reply' = [op |-> "import", ok |-> r.ok, items |-> r.items] /\ body' = body
        BY <2>2, <3>1 DEF ParseImportContent
      <3>3. \A i \in DOMAIN r.items : Validate(r.items[i].outbound)
        BY <2>1, <3>1, ContentValid
      <3>4. reply'.items = r.items
        BY <3>2
      <3> QED
        BY <2>1, <3>2, <3>3, <3>4, Zenon DEF OneBadEntryIsDropped
    <2>3. ASSUME NEW through, FetchSubscription(through) PROVE Held'
      <3>1. reply'.op = "fetch" /\ body' = body
        BY <2>3 DEF FetchSubscription
      <3> QED
        BY <2>1, <3>1 DEF OneBadEntryIsDropped
    <2>4. CASE UNCHANGED contentVars
      BY <2>1, <2>4 DEF contentVars, OneBadEntryIsDropped
    <2> QED
      BY <2>1, <2>2, <2>3, <2>4 DEF ContentNext
  <1>3. Held => ParsersInv
    <2>1. SUFFICES ASSUME Held PROVE FormsAgree
      BY DEF ParsersInv
    <2>2. \A i \in DOMAIN body.entries : body.entries[i] \in Entries
      BY <2>1, ContentAssumption
    <2>3. ASSUME NEW d \in Entries, Described(d)
          PROVE  /\ (ParseLink(d) = Dropped) <=> (ParseClashProxy(AsClash(d)) = Dropped)
                 /\ ParseLink(d) # Dropped =>
                       ((ParseLink(d).key = ParseClashProxy(AsClash(d)).key) <=> ~FormsDiffer(d))
      BY <2>3, EntryAlike, Zenon DEF Agree
    <2> QED
      BY <2>2, <2>3, Zenon DEF FormsAgree
  <1> QED
    BY <1>1, <1>2, <1>3, PTL DEF ContentSpec
=============================================================================
