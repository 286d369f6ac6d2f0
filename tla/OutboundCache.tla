---------------------------- MODULE OutboundCache ----------------------------
(***************************************************************************)
(* outboundManagerImpl (internal/proxy/outbound_manager.go): the cache of  *)
(* sing-box instances that dials go through, filled on demand behind a     *)
(* singleflight group, and emptied by updates, deletions, reloads, the     *)
(* idle cleanup and Stop, all of which run beside the dials.               *)
(*                                                                         *)
(* A section under m.mu is one step.  What goes on between two sections    *)
(* (creating an instance, opening a packet connection, Close) is a step of *)
(* its own, and may fail.  A dialer is a goroutine inside DialPacketConn,  *)
(* and then the owner of the connection it got.  One attempt of            *)
(* dialWithRetry is modelled; a further attempt is a further dial.         *)
(***************************************************************************)
EXTENDS Integers, FiniteSets

CONSTANTS
    Names,      \* outbound names
    Dialers,    \* goroutines that dial
    Insts,      \* sing-box instances the factory will create
    Recreates,  \* names of a protocol that recreates its instance on an error
    Ops,        \* the management operations in use
    MaxStamp,   \* bound on configuration changes
    None

ASSUME Constants ==
    /\ Recreates \subseteq Names
    /\ Ops \subseteq {"add", "delete", "update", "fresh", "sync", "reload",
                      "cleanup", "health", "stop"}
    /\ MaxStamp \in Nat
    /\ None \notin Insts \cup Dialers \cup Names
    /\ IsFiniteSet(Dialers)    \* a process has finitely many goroutines

VARIABLES
    cfg,     \* outbounds: the configuration of each name
    stamp,   \* configuration changes so far
    conns,   \* connCount of each runtime state
    health,  \* healthy, lastError and lastCheck of each runtime state
    cache,   \* singboxOutbounds
    idle,    \* names whose instance was last used OutboundIdleTimeout ago
    inst,    \* what became of each instance
    made,    \* the configuration each instance was created from
    flight,  \* singboxInitGroup: the dialer that runs the call for a name
    job,     \* what each dialer is doing
    stopped  \* Stop has returned

vars == <<cfg, stamp, conns, health, cache, idle, inst, made, flight, job, stopped>>

\* A configuration: ver tells its contents apart from other contents, rt, with the
\* name, is the runtime state, which a Clone shares with its original.
Stamps == 0 .. MaxStamp

Runtimes == Names \X Stamps

NoCfg == [ver |-> 0, rt |-> 0, enabled |-> FALSE, there |-> FALSE]

Cfgs == [ver : Stamps, rt : Stamps, enabled : BOOLEAN, there : BOOLEAN]

There(n) == cfg[n].there

Runtime(n) == <<n, cfg[n].rt>>

Places == {"idle", "once", "get", "do_get", "do_take", "wait", "check", "read",
           "take", "close", "create", "store", "listen", "relisten",
           "register", "open"}

\* hold: an instance that only this dialer knows of; got: the instance it dials
\* through; then: where it goes on when the singleflight call returns.
NoJob == [pc |-> "idle", name |-> None, rt |-> 0, ver |-> 0, hold |-> None,
          got |-> None, then |-> "once"]

Jobs == [pc : Places, name : Names \cup {None}, rt : Stamps, ver : Stamps,
         hold : Insts \cup {None}, got : Insts \cup {None},
         then : {"once", "listen", "relisten"}]

\* "twice": Close was called on an instance that was closed already.
InstStates == {"unborn", "open", "closed", "twice"}

TypeOK ==
    /\ cfg \in [Names -> Cfgs]
    /\ stamp \in Stamps
    /\ conns \in [Runtimes -> Nat]
    /\ health \in [Runtimes -> {"ok", "recent", "old"}]
    /\ cache \in [Names -> Insts \cup {None}]
    /\ idle \subseteq Names
    /\ inst \in [Insts -> InstStates]
    /\ made \in [Insts -> Stamps]
    /\ flight \in [Names -> Dialers \cup {None}]
    /\ job \in [Dialers -> Jobs]
    /\ stopped \in BOOLEAN

\* NewProxyServer has added the configured outbounds; nothing is cached.
Init ==
    /\ cfg = [n \in Names |-> [NoCfg EXCEPT !.enabled = TRUE, !.there = TRUE]]
    /\ stamp = 0
    /\ conns = [r \in Runtimes |-> 0]
    /\ health = [r \in Runtimes |-> "ok"]
    /\ cache = [n \in Names |-> None]
    /\ idle = {}
    /\ inst = [i \in Insts |-> "unborn"]
    /\ made = [i \in Insts |-> 0]
    /\ flight = [n \in Names |-> None]
    /\ job = [d \in Dialers |-> NoJob]
    /\ stopped = FALSE

-----------------------------------------------------------------------------
(* The instances.                                                          *)

Shut(x) == IF x = "open" THEN "closed" ELSE "twice"

\* Close and remove the cached instances of the names in out.
Drop(out) ==
    /\ cache' = [n \in Names |-> IF n \in out THEN None ELSE cache[n]]
    /\ inst' = [i \in Insts |-> IF \E n \in out : cache[n] = i
                                THEN Shut(inst[i]) ELSE inst[i]]
    /\ idle' = idle \ out

\* time.Now() goes into singboxLastUsed.
Use(n) == idle' = idle \ {n}

-----------------------------------------------------------------------------
(* singleflight.Group.Do: the first caller runs the function, the others   *)
(* wait and get what it returned.                                          *)

GoTo(d, pc) == job' = [job EXCEPT ![d] = [@ EXCEPT !.pc = pc]]

\* Fault: the group is bypassed and every caller runs its own function.
JoinAlone(d, at, first) ==
    /\ job[d].pc = at
    /\ flight' = [flight EXCEPT ![job[d].name] = d]
    /\ GoTo(d, first)
    /\ UNCHANGED <<cfg, stamp, conns, health, cache, idle, inst, made, stopped>>

Join(d, at, first) ==
    LET n == job[d].name IN
    /\ job[d].pc = at
    /\ \/ /\ flight[n] = None
          /\ flight' = [flight EXCEPT ![n] = d]
          /\ GoTo(d, first)
       \/ /\ flight[n] # None
          /\ GoTo(d, "wait")
          /\ UNCHANGED flight
    /\ UNCHANGED <<cfg, stamp, conns, health, cache, idle, inst, made, stopped>>

\* Those who get the result of the call d runs.
Party(d) ==
    {e \in Dialers : e = d \/ (job[e].pc = "wait" /\ job[e].name = job[d].name)}

\* Fault: only the caller that ran the function gets the result.
FinishAlone(d, i) ==
    /\ job' = [job EXCEPT ![d] =
                 IF i = None THEN NoJob
                 ELSE [@ EXCEPT !.pc = job[d].then, !.got = i, !.hold = None]]
    /\ flight' = [flight EXCEPT ![job[d].name] = None]
    /\ UNCHANGED health

\* The callers of d's function that go on with this step use this runtime state.
Concerns(d, then, r) ==
    \E e \in Party(d) : job[e].then = then /\ r = <<job[e].name, job[e].rt>>

\* The call returns instance i, or an error if i is None.  An error ends the
\* dial; the callers of getOrCreateSingboxOutbound mark the node unhealthy, those
\* that wanted to listen again only store lastCheck.
Finish(d, i) ==
    /\ job' = [e \in Dialers |->
                 IF e \notin Party(d) THEN job[e]
                 ELSE IF i = None THEN NoJob
                 ELSE [job[e] EXCEPT !.pc = job[e].then, !.got = i, !.hold = None]]
    /\ health' = [r \in Runtimes |->
                    IF /\ i = None
                       /\ \/ Concerns(d, "listen", r)
                          \/ health[r] # "ok" /\ Concerns(d, "relisten", r)
                    THEN "recent" ELSE health[r]]
    /\ flight' = [flight EXCEPT ![job[d].name] = None]

-----------------------------------------------------------------------------
(* The dial.                                                               *)

\* prepareDialPacketConn: a node that failed in the last 30 seconds is refused,
\* one that failed before gets a new instance first.
Dial(d, n) ==
    /\ job[d].pc = "idle"
    /\ There(n) /\ cfg[n].enabled
    /\ health[Runtime(n)] # "recent"
    /\ job' = [job EXCEPT ![d] =
                 [NoJob EXCEPT !.name = n,
                               !.pc = IF health[Runtime(n)] = "old"
                                      THEN "do_take" ELSE "once"]]
    /\ UNCHANGED <<cfg, stamp, conns, health, cache, idle, inst, made, flight, stopped>>

\* dialPacketConnOnce: read the configuration.
Once(d) ==
    LET n == job[d].name IN
    /\ job[d].pc = "once"
    /\ job' = [job EXCEPT ![d] = IF There(n)
                                 THEN [@ EXCEPT !.pc = "get", !.rt = cfg[n].rt,
                                                !.got = None]
                                 ELSE NoJob]
    /\ UNCHANGED <<cfg, stamp, conns, health, cache, idle, inst, made, flight, stopped>>

\* getOrCreateSingboxOutbound, before the singleflight call.
Get(d) ==
    LET n == job[d].name IN
    /\ job[d].pc = "get"
    /\ \/ /\ cache[n] # None
          /\ job' = [job EXCEPT ![d] = [@ EXCEPT !.pc = "listen", !.got = cache[n]]]
          /\ Use(n)
       \/ /\ cache[n] = None
          /\ job' = [job EXCEPT ![d] = [@ EXCEPT !.pc = "do_get", !.then = "listen"]]
          /\ UNCHANGED idle
    /\ UNCHANGED <<cfg, stamp, conns, health, cache, inst, made, flight, stopped>>

\* Inside the call: somebody else may have filled the cache.
Check(d) ==
    LET n == job[d].name IN
    /\ job[d].pc = "check"
    /\ \/ cache[n] # None /\ Use(n) /\ Finish(d, cache[n])
       \/ cache[n] = None /\ GoTo(d, "read") /\ UNCHANGED <<idle, health, flight>>
    /\ UNCHANGED <<cfg, stamp, conns, cache, inst, made, stopped>>

\* The configuration the instance will be created from.
Read(d) ==
    LET n == job[d].name IN
    /\ job[d].pc = "read"
    /\ \/ ~There(n) /\ Finish(d, None)
       \/ /\ There(n)
          /\ job' = [job EXCEPT ![d] = [@ EXCEPT !.pc = "create", !.ver = cfg[n].ver]]
          /\ UNCHANGED <<health, flight>>
    /\ UNCHANGED <<cfg, stamp, conns, cache, idle, inst, made, stopped>>

\* recreateSingboxOutbound: take the instance out of the cache.
Take(d) ==
    LET n == job[d].name IN
    /\ job[d].pc = "take"
    /\ \/ ~There(n) /\ Finish(d, None) /\ UNCHANGED <<cache, idle>>
       \/ /\ There(n)
          /\ job' = [job EXCEPT ![d] = [@ EXCEPT !.pc = "close", !.ver = cfg[n].ver,
                                                 !.hold = cache[n]]]
          /\ cache' = [cache EXCEPT ![n] = None]
          /\ Use(n)
          /\ UNCHANGED <<health, flight>>
    /\ UNCHANGED <<cfg, stamp, conns, inst, made, stopped>>

\* Close what was taken, outside the lock.
Close(d) ==
    /\ job[d].pc = "close"
    /\ inst' = IF job[d].hold = None THEN inst
               ELSE [inst EXCEPT ![job[d].hold] = Shut(@)]
    /\ job' = [job EXCEPT ![d] = [@ EXCEPT !.pc = "create", !.hold = None]]
    /\ UNCHANGED <<cfg, stamp, conns, health, cache, idle, made, flight, stopped>>

\* singboxFactory.CreateUDPOutbound.
Create(d) ==
    /\ job[d].pc = "create"
    /\ \/ \E i \in Insts :
            /\ inst[i] = "unborn"
            /\ inst' = [inst EXCEPT ![i] = "open"]
            /\ made' = [made EXCEPT ![i] = job[d].ver]
            /\ job' = [job EXCEPT ![d] = [@ EXCEPT !.pc = "store", !.hold = i,
                                                   !.ver = 0]]
            /\ UNCHANGED <<health, flight>>
       \/ Finish(d, None) /\ UNCHANGED <<inst, made>>
    /\ UNCHANGED <<cfg, stamp, conns, cache, idle, stopped>>

\* Fault: the instance that lost the race is dropped without Close.
StoreForget(d) ==
    LET n == job[d].name IN
    /\ job[d].pc = "store"
    /\ \/ cache[n] # None /\ Finish(d, cache[n]) /\ UNCHANGED cache
       \/ /\ cache[n] = None
          /\ cache' = [cache EXCEPT ![n] = job[d].hold]
          /\ Finish(d, job[d].hold)
    /\ Use(n)
    /\ UNCHANGED <<cfg, stamp, conns, inst, made, stopped>>

\* Cache the new instance, or close it if another one is there.
Store(d) ==
    LET n == job[d].name IN
    /\ job[d].pc = "store"
    /\ \/ /\ cache[n] # None
          /\ inst' = [inst EXCEPT ![job[d].hold] = Shut(@)]
          /\ Finish(d, cache[n])
          /\ UNCHANGED cache
       \/ /\ cache[n] = None
          /\ cache' = [cache EXCEPT ![n] = job[d].hold]
          /\ Finish(d, job[d].hold)
          /\ UNCHANGED inst
    /\ Use(n)
    /\ UNCHANGED <<cfg, stamp, conns, made, stopped>>

\* What the dial has remembered so far is not needed any more.
Connected(d) ==
    job' = [job EXCEPT ![d] = [@ EXCEPT !.pc = "register", !.rt = 0, !.then = "once"]]

\* ListenPacket succeeds, or fails in a way that calls for a new instance, or
\* fails otherwise and the node is marked unhealthy.
Listen(d) ==
    /\ job[d].pc = "listen"
    /\ \/ Connected(d) /\ UNCHANGED health
       \/ /\ job[d].name \in Recreates
          /\ job' = [job EXCEPT ![d] = [@ EXCEPT !.pc = "do_take", !.then = "relisten"]]
          /\ UNCHANGED health
       \/ /\ health' = [health EXCEPT ![<<job[d].name, job[d].rt>>] = "recent"]
          /\ job' = [job EXCEPT ![d] = NoJob]
    /\ UNCHANGED <<cfg, stamp, conns, cache, idle, inst, made, flight, stopped>>

\* ListenPacket on the new instance; a second failure only stores lastCheck.
Relisten(d) ==
    /\ job[d].pc = "relisten"
    /\ \/ Connected(d) /\ UNCHANGED health
       \/ /\ health' = [health EXCEPT ![<<job[d].name, job[d].rt>>] =
                                         IF @ = "ok" THEN @ ELSE "recent"]
          /\ job' = [job EXCEPT ![d] = NoJob]
    /\ UNCHANGED <<cfg, stamp, conns, cache, idle, inst, made, flight, stopped>>

\* success: count the connection in the configuration that is there now.
Register(d) ==
    LET n == job[d].name IN
    /\ job[d].pc = "register"
    /\ \/ /\ There(n)
          /\ conns' = [conns EXCEPT ![Runtime(n)] = @ + 1]
          /\ health' = [health EXCEPT ![Runtime(n)] = "ok"]
          /\ GoTo(d, "open")
       \/ /\ ~There(n)
          /\ job' = [job EXCEPT ![d] = NoJob]
          /\ UNCHANGED <<conns, health>>
    /\ UNCHANGED <<cfg, stamp, cache, idle, inst, made, flight, stopped>>

\* Fault: the count is not guarded at zero.
CloseConnUnguarded(d) ==
    LET n == job[d].name IN
    /\ job[d].pc = "open"
    /\ job' = [job EXCEPT ![d] = NoJob]
    /\ conns' = IF There(n) THEN [conns EXCEPT ![Runtime(n)] = @ - 1] ELSE conns
    /\ UNCHANGED <<cfg, stamp, health, cache, idle, inst, made, flight, stopped>>

\* Fault: a connection is closed without the callback.
CloseConnUncounted(d) ==
    /\ job[d].pc = "open"
    /\ job' = [job EXCEPT ![d] = NoJob]
    /\ UNCHANGED <<cfg, stamp, conns, health, cache, idle, inst, made, flight, stopped>>

\* trackedPacketConn.Close, once: count down in the configuration there now.
CloseConn(d) ==
    LET n == job[d].name IN
    /\ job[d].pc = "open"
    /\ job' = [job EXCEPT ![d] = NoJob]
    /\ conns' = IF There(n) /\ conns[Runtime(n)] > 0
                THEN [conns EXCEPT ![Runtime(n)] = @ - 1] ELSE conns
    /\ UNCHANGED <<cfg, stamp, health, cache, idle, inst, made, flight, stopped>>

-----------------------------------------------------------------------------
(* Management, each operation under m.mu.                                  *)

\* AddOutbound: a new configuration with a runtime state of its own.
AddOutbound(n) ==
    /\ "add" \in Ops
    /\ ~There(n)
    /\ stamp < MaxStamp
    /\ stamp' = stamp + 1
    /\ cfg' = [cfg EXCEPT ![n] = [ver |-> stamp + 1, rt |-> stamp + 1,
                                  enabled |-> TRUE, there |-> TRUE]]
    /\ UNCHANGED <<conns, health, cache, idle, inst, made, flight, job, stopped>>

\* DeleteOutbound and DeleteOutboundNoCascade.
DeleteOutbound(n) ==
    /\ "delete" \in Ops
    /\ There(n)
    /\ cfg' = [cfg EXCEPT ![n] = NoCfg]
    /\ Drop({n})
    /\ UNCHANGED <<stamp, conns, health, made, flight, job, stopped>>

\* UpdateOutbound by a handler that blocks a node for automatic selection: cfg is
\* a Clone of the one in use, with its runtime state and the same address.
UpdateOutbound(n) ==
    /\ "update" \in Ops
    /\ There(n)
    /\ cache[n] # None
    /\ Drop({n})
    /\ UNCHANGED <<cfg, stamp, conns, health, made, flight, job, stopped>>

\* The API replaces the configuration by one made from the request, with a new
\* runtime state, and perhaps under another name.
ReplaceOutbound(n, m, on) ==
    /\ "fresh" \in Ops
    /\ There(n)
    /\ n # m => ~There(m)
    /\ stamp < MaxStamp
    /\ stamp' = stamp + 1
    /\ cfg' = [cfg EXCEPT ![n] = NoCfg,
                          ![m] = [ver |-> stamp + 1, rt |-> stamp + 1,
                                  enabled |-> on, there |-> TRUE]]
    /\ Drop({n})
    /\ UNCHANGED <<conns, health, made, flight, job, stopped>>

\* reloadProxyOutbounds, after the file was read again, updates a node whose
\* contents have not changed.
SyncOutbound(n) ==
    /\ "sync" \in Ops
    /\ There(n)
    /\ stamp < MaxStamp
    /\ stamp' = stamp + 1
    /\ cfg' = [cfg EXCEPT ![n] = [@ EXCEPT !.rt = stamp + 1]]
    /\ Drop({n})
    /\ UNCHANGED <<conns, health, made, flight, job, stopped>>

\* Fault: an instance without a configuration is skipped as well.
CleanupConfigured ==
    LET out == {n \in idle : /\ cache[n] # None
                             /\ There(n) /\ conns[Runtime(n)] = 0}
    IN  /\ "cleanup" \in Ops
        /\ ~stopped
        /\ out # {}
        /\ Drop(out)
        /\ UNCHANGED <<cfg, stamp, conns, health, made, flight, job, stopped>>

\* Fault: connections are not looked at.
CleanupAllIdle ==
    LET out == {n \in idle : cache[n] # None}
    IN  /\ "cleanup" \in Ops
        /\ ~stopped
        /\ out # {}
        /\ Drop(out)
        /\ UNCHANGED <<cfg, stamp, conns, health, made, flight, job, stopped>>

\* A tick of cleanupIdleOutbounds that finds something to close.
Cleanup ==
    LET out == {n \in idle : /\ cache[n] # None
                             /\ ~(There(n) /\ conns[Runtime(n)] > 0)}
    IN  /\ "cleanup" \in Ops
        /\ ~stopped
        /\ out # {}
        /\ Drop(out)
        /\ UNCHANGED <<cfg, stamp, conns, health, made, flight, job, stopped>>

\* Reload: drop the instances of disabled and deleted nodes, create the missing
\* ones.  new is where creation succeeded.
Reload(new) ==
    LET missing == {n \in Names : There(n) /\ cfg[n].enabled /\ cache[n] = None}
        out == {n \in Names : cache[n] # None /\ ~(There(n) /\ cfg[n].enabled)}
        fresh == {new[n] : n \in DOMAIN new}
    IN  /\ "reload" \in Ops
        /\ DOMAIN new \subseteq missing
        /\ \A i \in fresh : inst[i] = "unborn"
        /\ \A n, m \in DOMAIN new : new[n] = new[m] => n = m
        /\ missing # {} \/ out # {}
        /\ cache' = [n \in Names |-> IF n \in DOMAIN new THEN new[n]
                                     ELSE IF n \in out THEN None ELSE cache[n]]
        /\ inst' = [i \in Insts |-> IF i \in fresh THEN "open"
                                    ELSE IF \E n \in out : cache[n] = i
                                    THEN Shut(inst[i]) ELSE inst[i]]
        /\ made' = [i \in Insts |->
                      IF i \in fresh
                      THEN cfg[CHOOSE n \in DOMAIN new : new[n] = i].ver
                      ELSE made[i]]
        /\ idle' = idle \ (out \cup DOMAIN new)
        /\ health' = [r \in Runtimes |->
                        IF \E n \in DOMAIN new : Runtime(n) = r THEN "ok"
                        ELSE IF \E n \in missing \ DOMAIN new : Runtime(n) = r
                        THEN "recent" ELSE health[r]]
        /\ UNCHANGED <<cfg, stamp, conns, flight, job, stopped>>

\* CheckHealth dials through an instance of its own and stores the outcome in
\* the configuration that is there when it is done.
CheckHealth(n, ok) ==
    /\ "health" \in Ops
    /\ There(n)
    /\ health' = [health EXCEPT ![Runtime(n)] = IF ok THEN "ok" ELSE "recent"]
    /\ UNCHANGED <<cfg, stamp, conns, cache, idle, inst, made, flight, job, stopped>>

\* Stop: it has waited for the connections, ten seconds at most.
StopManager ==
    /\ "stop" \in Ops
    /\ ~stopped
    /\ stopped' = TRUE
    /\ Drop({n \in Names : cache[n] # None})
    /\ UNCHANGED <<cfg, stamp, conns, health, made, flight, job>>

-----------------------------------------------------------------------------
(* Time.                                                                   *)

\* The places where a dialer has an instance and has not counted it.
Dialing == {"listen", "relisten", "register"}

\* OutboundIdleTimeout passes without a use.  A dial takes less than that.
GrowIdle(n) ==
    /\ cache[n] # None
    /\ n \notin idle
    /\ \A d \in Dialers : ~(job[d].name = n /\ job[d].pc \in Dialing)
    /\ idle' = idle \cup {n}
    /\ UNCHANGED <<cfg, stamp, conns, health, cache, inst, made, flight, job, stopped>>

\* 30 seconds pass since lastCheck.
CheckGrowsOld(r) ==
    /\ health[r] = "recent"
    /\ health' = [health EXCEPT ![r] = "old"]
    /\ UNCHANGED <<cfg, stamp, conns, cache, idle, inst, made, flight, job, stopped>>

-----------------------------------------------------------------------------
DialStep(d) ==
    \/ Once(d) \/ Get(d)
    \/ Join(d, "do_get", "check") \/ Join(d, "do_take", "take")
    \/ Check(d) \/ Read(d) \/ Take(d) \/ Close(d) \/ Create(d) \/ Store(d)
    \/ Listen(d) \/ Relisten(d) \/ Register(d)

Next ==
    \/ \E d \in Dialers : DialStep(d) \/ CloseConn(d)
    \/ \E d \in Dialers, n \in Names : Dial(d, n)
    \/ \E n \in Names : AddOutbound(n) \/ DeleteOutbound(n)
    \/ \E n \in Names : UpdateOutbound(n) \/ SyncOutbound(n)
    \/ \E n \in Names, ok \in BOOLEAN : CheckHealth(n, ok)
    \/ \E n, m \in Names, on \in BOOLEAN : ReplaceOutbound(n, m, on)
    \/ Cleanup
    \/ \E S \in SUBSET Names : \E new \in [S -> Insts] : Reload(new)
    \/ StopManager
    \/ \E n \in Names : GrowIdle(n)
    \/ \E r \in Runtimes : CheckGrowsOld(r)

Spec == Init /\ [][Next]_vars

\* A dial goes on, time passes and the cleanup has its minute ticker; nobody has
\* to dial, close a connection or change the configuration.
Fairness ==
    /\ \A d \in Dialers : WF_vars(DialStep(d))
    /\ \A n \in Names : WF_vars(GrowIdle(n))
    /\ WF_vars(Cleanup)

FairSpec == Spec /\ Fairness

-----------------------------------------------------------------------------
(* Properties.                                                             *)

\* An instance is open as long as somebody is responsible for closing it: it is
\* cached under one name, or in the hands of one dialer, never both, and it is
\* closed once.  Races between recreations, updates, deletions, reloads, the
\* idle cleanup and Stop neither lose an instance nor close one twice.
Custody ==
    /\ \A n \in Names : cache[n] # None => inst[cache[n]] = "open"
    /\ \A d \in Dialers : job[d].hold # None => inst[job[d].hold] = "open"
    /\ \A n, m \in Names : cache[n] # None /\ cache[n] = cache[m] => n = m
    /\ \A d, e \in Dialers : job[d].hold # None /\ job[d].hold = job[e].hold => d = e
    /\ \A n \in Names, d \in Dialers : cache[n] # None => cache[n] # job[d].hold
    /\ \A i \in Insts : inst[i] = "open" =>
           \/ \E n \in Names : cache[n] = i
           \/ \E d \in Dialers : job[d].hold = i
    /\ \A i \in Insts : inst[i] # "twice"

\* One call at a time runs for a name, and every waiter waits for a call that
\* somebody is running.
FlightLed ==
    /\ \A d \in Dialers :
         job[d].pc \in {"check", "read", "take", "close", "create", "store"}
           <=> \E n \in Names : flight[n] = d
    /\ \A d \in Dialers : job[d].pc = "wait" => flight[job[d].name] # None

\* A dial ends with a connection or an error, whoever runs the call it waits for.
DialReturns == \A d \in Dialers : []<>(job[d].pc \in {"idle", "open"})

\* An instance that was stored after its node was deleted does not stay for
\* ever: the idle cleanup closes what has no configuration.
OrphanReaped == \A n \in Names : []<>(cache[n] = None \/ There(n))

Using(n) == {d \in Dialers : job[d].pc = "open" /\ job[d].name = n}

\* n still has the runtime state it started with: no replacement, reload of the
\* file or deletion has started its count afresh.
Original(n) == There(n) /\ cfg[n].rt = 0

\* The connection count of a node is the number of its open connections, although
\* each is counted up and down in the configuration that is there at the time.
CountExact ==
    \A n \in Names : Original(n) => conns[Runtime(n)] = Cardinality(Using(n))

\* "Skip if outbound has active connections": the idle cleanup closes no
\* instance that an open connection goes through, nor one that a dial has got and
\* not counted yet.
CleanupSparesActive ==
    [][Cleanup => \A d \in Dialers, n \in Names :
                      (/\ job[d].pc \in {"listen", "relisten", "register", "open"}
                       /\ cache[n] = job[d].got
                       /\ Original(n)) => cache'[n] = cache[n]]_vars

\* After an update the instance "will be recreated on next use": what is cached
\* for a node was created from its present configuration.
CacheCurrent ==
    \A n \in Names : There(n) /\ cache[n] # None => made[cache[n]] = cfg[n].ver

\* Dials return, and an instance whose outbound has been deleted is closed in the end.
CacheSettles == DialReturns /\ OrphanReaped
=============================================================================
