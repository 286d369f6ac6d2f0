-------------------------- MODULE LifecycleProofs --------------------------
(***************************************************************************)
(* The servers: LifeInv and MarksKept of ServerLifecycle, for any number   *)
(* of servers, requests, marks, addresses and faults, and any first        *)
(* configuration that Load accepts; and the proxy ports: PortsInv of       *)
(* ProxyPorts, for any ports, requests, connections and nodes.             *)
(*                                                                         *)
(* ListenersFollow speaks of rest only.  Follows extends it to every state *)
(* with a watch that works: a server at odds with its entry is owed to     *)
(* somebody, an event that is pending, the Reload of the watcher or Start, *)
(* and each place of these says what they still owe.  NoneAfterStop needs  *)
(* that nobody is past the check of running when Stop has begun (StopBars),*)
(* MarksKept that a copy of an entry keeps the marks it was made from.     *)
(*                                                                         *)
(* For the ports: the table holds the open listeners and no others but the *)
(* one Stop waits for (TableHolds), no connection is with a listener whose *)
(* end Stop has seen (ConnsHeld), and a listener older than the            *)
(* configuration is there only while a request is about to close it        *)
(* (NoneStale).                                                            *)
(*                                                                         *)
(* And the probes: ProbesInv and ScansKept of AutoPing, for any servers,   *)
(* ports, nodes, latencies and settings.  A series whose samples arrived   *)
(* in order is spread out from any sample to any later one (Spread), which *)
(* trimming, replacing the newest and cutting to the limit keep; the       *)
(* bootstrap scans have been at all the places behind the next one, as far *)
(* as their number reaches (Turned).                                       *)
(***************************************************************************)
EXTENDS ServerLifecycle, ProxyPorts, AutoPing, FiniteSetTheorems, WellFoundedInduction, TLAPS

\* Past the check whether ProxyServer runs.
Committed == {"copy", "bind", "unbind", "recopy", "recheck", "restop", "all", "table",
              "sweep", "apply", "rebind"}

\* What a process holds at the places where it uses it.
Holds(q) ==
    /\ q.pc \in {"begin", "bind", "write"} => q.e \in Entries
    /\ q.pc = "read" => q.op \in {"mark", "unmark"}
    /\ q.pc = "write" =>
         /\ Validate(q.e)
         /\ \A b \in q.seen \ q.e.marks : q.op = "unmark" /\ b \in q.mark
    /\ q.pc \in {"apply", "rebind"} => \A i \in q.todo : q.snap[i] \in Entries
    /\ q.pc = "rebind" => q.snap[q.id] \in Entries

\* Start has no table to compare with.
BootHolds(q) == q.pc \in {"all", "apply", "done"} /\ q.cur = NoTable

LifeTypes ==
    /\ LifeTypeOK
    /\ speeders \in [Servers -> {0, 1}]
    /\ ValidConfig(mem)
    /\ \A p \in Procs : Holds(proc[p])
    /\ BootHolds(proc["boot"])

StopBars ==
    (state # "running" /\ ~ghost.late) => \A p \in Procs : proc[p].pc \notin Committed

Settled(id) == id \in ghost.astray \/ (Present(id) <=> mem[id].on)

\* What Start, and what Reload, will still bring in line with the entry in m.
BootOwes(q, m, id) ==
    /\ m[id].on
    /\ q.pc = "all" \/ (q.pc = "apply" /\ q.snap[id].on /\ id \in q.todo)

ReloadOwes(q, m, id) ==
    \/ q.pc \in {"load", "check", "all"}
    \/ q.pc = "table" /\ (q.snap[id].on <=> m[id].on)
    \/ /\ q.pc = "sweep" /\ (q.snap[id].on <=> m[id].on)
       /\ IF m[id].on THEN q.cur[id] = NoListener ELSE id \in q.todo
    \/ /\ q.pc \in {"apply", "rebind"}
       /\ m[id].on /\ q.snap[id].on /\ id \in q.todo /\ q.cur[id] = NoListener
       /\ q.pc = "rebind" => q.id # id

Watched == state = "running" /\ watch = "on" /\ mem = file /\ ~ghost.unsaved

Follows ==
    Watched => \/ event
               \/ \A id \in Servers : \/ Settled(id)
                                      \/ BootOwes(proc["boot"], mem, id)
                                      \/ ReloadOwes(proc["watcher"], mem, id)

LifeIInv ==
    LifeTypes /\ NoOrphanProcess /\ FileFollows /\ NoneAfterStop /\ StopBars /\ Follows

-----------------------------------------------------------------------------
(* Types.                                                                  *)

LEMMA LoadTypes ==
  ASSUME LifeTypeOK
  PROVE  /\ lload.reqs \subseteq Reqs
         /\ lload.sends \subseteq Entries /\ lload.edits \subseteq Configs
         /\ lload.faults \in Nat
         /\ faults \in Nat
  <1>1. PICK l \in LifeLoads : lload \in {l, [l EXCEPT !.edits = {}]}
    BY DEF LifeTypeOK
  <1>2. l \in [first : Configs, ops : SUBSET Ops, reqs : SUBSET Reqs,
               sends : SUBSET Entries, edits : SUBSET Configs,
               faults : Nat, stop : BOOLEAN, survives : BOOLEAN]
    BY LifeConstants
  <1>3. /\ lload.reqs = l.reqs /\ lload.sends = l.sends /\ lload.faults = l.faults
        /\ lload.edits \in {l.edits, {}}
    BY <1>1, <1>2
  <1> QED
    BY <1>2, <1>3 DEF LifeTypeOK

\* Entries, and what is none.
LEMMA EntryTypes ==
  /\ \A x \in Entries : /\ x.on \in BOOLEAN /\ x.kind \in Kinds /\ x.speed \in BOOLEAN
                        /\ x.addr \in Addrs /\ x.marks \subseteq Marks
  /\ NoEntry.on = FALSE
  /\ \A x \in Entries \cup {NoEntry} : x.on => x \in Entries
  /\ \A x \in Entries \cup {NoEntry} : x # NoEntry => x \in Entries
  BY DEF Entries, NoEntry

LEMMA ProcTypes ==
  ASSUME LifeTypeOK, NEW p \in Procs
  PROVE  /\ proc[p] \in ProcStates
         /\ proc[p].id \in Servers /\ proc[p].new \in Servers
         /\ proc[p].e \in Entries \cup {NoEntry}
         /\ proc[p].snap \in Configs
         /\ proc[p].cur \in [Servers -> Listeners \cup {NoListener}]
         /\ proc[p].todo \subseteq Servers
         /\ proc[p].mark \subseteq Marks /\ proc[p].seen \subseteq Marks
  BY DEF LifeTypeOK, ProcStates

LEMMA Names ==
  /\ "boot" \in Procs /\ "watcher" \in Procs /\ "boot" # "watcher"
  /\ \A r \in Reqs : r \in Procs /\ r # "boot" /\ r # "watcher"
  BY LifeConstants DEF Procs

LEMMA IdleType ==
  ASSUME NEW pc \in {"idle", "done"}
  PROVE  /\ Idle(pc) \in ProcStates /\ Idle(pc).pc = pc
         /\ Idle(pc).cur = NoTable /\ Holds(Idle(pc))
  <1>1. (CHOOSE i \in Servers : TRUE) \in Servers
    BY LifeConstants
  <1>2. NoConfig \in Configs
    BY DEF NoConfig, Configs
  <1>3. NoTable \in [Servers -> Listeners \cup {NoListener}]
    BY DEF NoTable
  <1>4. Idle(pc).pc = pc /\ Idle(pc).cur = NoTable
    BY DEF Idle
  <1>5. Idle(pc) \in ProcStates
    BY <1>1, <1>2, <1>3 DEF Idle, ProcStates
  <1> QED
    BY <1>4, <1>5 DEF Holds

-----------------------------------------------------------------------------
(* One process moves.                                                      *)

Turn(p, q) ==
    /\ q \in ProcStates /\ Holds(q)
    /\ q.pc \in Committed => proc[p].pc \in Committed \/ state = "running"
    /\ p = "boot" => BootHolds(q)
    /\ proc' = [proc EXCEPT ![p] = q]

\* It still owes what it owed for id.
Keeps(p, q, id) ==
    /\ (p = "boot" /\ BootOwes(proc[p], mem, id)) => BootOwes(q, mem, id)
    /\ (p = "watcher" /\ ReloadOwes(proc[p], mem, id)) => ReloadOwes(q, mem, id)

\* What such a step may do to the rest.
Effect ==
    /\ UNCHANGED <<lload, mem, file, watch, event, state>>
    /\ table' \in [Servers -> Listeners \cup {NoListener}]
    /\ speeders' \in [Servers -> {0, 1}]
    /\ faults' \in 0 .. lload.faults
    /\ ghost' \in Ghosts
    /\ ghost'.unsaved = ghost.unsaved /\ ghost'.edited = ghost.edited
    /\ ghost'.late = ghost.late
    /\ NoOrphanProcess'

LEMMA TurnTypes ==
  ASSUME LifeTypes, NEW p \in Procs, NEW q, Turn(p, q)
  PROVE  /\ proc' \in [Procs -> ProcStates]
         /\ proc'[p] = q /\ \A o \in Procs \ {p} : proc'[o] = proc[o]
         /\ \A o \in Procs : Holds(proc'[o])
         /\ BootHolds(proc'["boot"])
  <1>1. /\ proc' \in [Procs -> ProcStates]
        /\ proc'[p] = q /\ \A o \in Procs \ {p} : proc'[o] = proc[o]
    BY DEF Turn, LifeTypes, LifeTypeOK
  <1>2. \A o \in Procs : Holds(proc'[o])
    BY <1>1 DEF Turn, LifeTypes
  <1>3. BootHolds(proc'["boot"])
    BY <1>1, Names DEF Turn, LifeTypes
  <1> QED
    BY <1>1, <1>2, <1>3

LEMMA TurnBars ==
  ASSUME LifeTypes, StopBars, NEW p \in Procs, NEW q, Turn(p, q),
         UNCHANGED state, ghost'.late = ghost.late
  PROVE  StopBars'
  BY TurnTypes DEF StopBars, Turn

LEMMA TurnFollows ==
  ASSUME LifeTypes, Follows, NEW p \in Procs, NEW q, Turn(p, q),
         UNCHANGED <<mem, event>>, Watched' => Watched,
         \A id \in Servers : Settled(id)' \/ (~Settled(id) /\ Keeps(p, q, id))
  PROVE  Follows'
  <1>1. proc'[p] = q /\ \A o \in Procs \ {p} : proc'[o] = proc[o]
    BY TurnTypes
  <1>2. SUFFICES ASSUME Watched', ~event', NEW id \in Servers, ~Settled(id)'
        PROVE \/ BootOwes(proc'["boot"], mem', id)
              \/ ReloadOwes(proc'["watcher"], mem', id)
    BY DEF Follows
  <1>3. Keeps(p, q, id) /\ ~Settled(id)
    BY <1>2
  <1>4. BootOwes(proc["boot"], mem, id) \/ ReloadOwes(proc["watcher"], mem, id)
    BY <1>2, <1>3 DEF Follows
  <1>5. mem' = mem
    OBVIOUS
  <1>6. CASE BootOwes(proc["boot"], mem, id)
    <2>1. BootOwes(proc'["boot"], mem, id)
      BY <1>1, <1>3, <1>6, Names DEF Keeps
    <2> QED
      BY <1>5, <2>1
  <1>7. CASE ReloadOwes(proc["watcher"], mem, id)
    <2>1. ReloadOwes(proc'["watcher"], mem, id)
      BY <1>1, <1>3, <1>7, Names DEF Keeps
    <2> QED
      BY <1>5, <2>1
  <1> QED
    BY <1>4, <1>6, <1>7

\* A step of a process that leaves the configuration alone keeps the invariant when it
\* changes the table only past the check of running and owes on what it leaves unsettled.
LEMMA ProcStep ==
  ASSUME LifeIInv, NEW p \in Procs, NEW q, Turn(p, q), Effect,
         proc[p].pc \in Committed \/ UNCHANGED table,
         \A id \in Servers : Settled(id)' \/ (~Settled(id) /\ Keeps(p, q, id))
  PROVE  LifeIInv'
  <1>0. LifeTypes /\ StopBars /\ Follows /\ FileFollows /\ NoneAfterStop
    BY DEF LifeIInv
  <1>1. LifeTypes'
    <2>1. LifeTypeOK'
      BY <1>0, TurnTypes DEF LifeTypes, LifeTypeOK, Effect
    <2>2. ValidConfig(mem)'
      BY <1>0 DEF LifeTypes, ValidConfig, Effect
    <2> QED
      BY <1>0, <2>1, <2>2, TurnTypes DEF LifeTypes, Effect
  <1>2. StopBars'
    BY <1>0, TurnBars DEF Effect
  <1>3. Follows'
    BY <1>0, TurnFollows DEF Effect, Watched
  <1>4. FileFollows'
    BY <1>0 DEF Effect, FileFollows
  <1>5. NoneAfterStop'
    BY <1>0 DEF Effect, NoneAfterStop, StopBars
  <1> QED
    BY <1>1, <1>2, <1>3, <1>4, <1>5 DEF LifeIInv, Effect

\* It only looks.
Still == UNCHANGED <<lload, mem, file, watch, event, table, speeders, state, faults, ghost>>

LEMMA StillEffect ==
  ASSUME LifeIInv, Still
  PROVE  Effect /\ UNCHANGED table /\ \A id \in Servers : Settled(id)' <=> Settled(id)
  BY DEF LifeIInv, LifeTypes, LifeTypeOK, Still, Effect, NoOrphanProcess, Settled, Present

LEMMA LookStep ==
  ASSUME LifeIInv, NEW p \in Procs, NEW q, Turn(p, q), Still,
         \A id \in Servers : ~Settled(id) => Keeps(p, q, id)
  PROVE  LifeIInv'
  BY StillEffect, ProcStep

\* Requests owe nothing to the listeners.
LEMMA RequestKeeps ==
  ASSUME NEW r \in Reqs, NEW q, NEW id
  PROVE  Keeps(r, q, id)
  BY Names DEF Keeps

LEMMA RequestLooks ==
  ASSUME LifeIInv, NEW r \in Reqs, NEW q, Turn(r, q), Still
  PROVE  LifeIInv'
  BY LookStep, RequestKeeps, Names

-----------------------------------------------------------------------------
(* The common moves.                                                       *)

\* Places that need nothing in hand.
Plain == {"idle", "decide", "start", "copy", "check", "stopchk", "unbind", "reload",
          "recopy", "recheck", "restop", "delete", "load", "all", "table", "sweep", "done"}

LEMMA PlainHolds == ASSUME NEW q, q.pc \in Plain PROVE Holds(q)
  BY DEF Plain, Holds

LEMMA GotoTurn ==
  ASSUME LifeTypes, NEW p \in Procs, p # "boot", NEW pc \in Plain, Goto(p, pc),
         pc \in Committed => proc[p].pc \in Committed \/ state = "running"
  PROVE  \E q : /\ Turn(p, q) /\ q.pc = pc
                /\ q.id = proc[p].id /\ q.e = proc[p].e /\ q.snap = proc[p].snap
                /\ q.cur = proc[p].cur /\ q.todo = proc[p].todo
  <1> DEFINE q == [proc[p] EXCEPT !.pc = pc]
  <1>1. proc[p] \in ProcStates
    BY ProcTypes DEF LifeTypes
  <1>2. /\ q \in ProcStates /\ q.pc = pc
        /\ q.id = proc[p].id /\ q.e = proc[p].e /\ q.snap = proc[p].snap
        /\ q.cur = proc[p].cur /\ q.todo = proc[p].todo
    BY <1>1 DEF ProcStates, Plain
  <1>3. Holds(q)
    BY <1>2, PlainHolds
  <1>4. proc' = [proc EXCEPT ![p] = q]
    BY DEF Goto
  <1>5. Turn(p, q)
    BY <1>2, <1>3, <1>4 DEF Turn
  <1> HIDE DEF q
  <1> QED
    BY <1>2, <1>5

LEMMA ReturnTurn ==
  ASSUME NEW p \in Procs, Return(p)
  PROVE  \E q : Turn(p, q) /\ q.pc \in {"idle", "done"}
  <1>1. CASE p = "watcher"
    <2>1. Turn(p, Idle("idle"))
      BY <1>1, IdleType, Names DEF Turn, Return, Committed
    <2> QED
      BY <2>1, IdleType
  <1>2. CASE p # "watcher"
    <2>1. Turn(p, Idle("done"))
      BY <1>2, IdleType DEF Turn, Return, Committed, BootHolds
    <2> QED
      BY <2>1, IdleType
  <1> QED
    BY <1>1, <1>2

-----------------------------------------------------------------------------
(* startListener and stopListener.                                         *)

LEMMA FaultOrNot ==
  ASSUME LifeTypes, Fault \/ NoFault
  PROVE  faults' \in 0 .. lload.faults
  BY LoadTypes DEF LifeTypes, LifeTypeOK, Fault, NoFault

\* Another set astray.
LEMMA GhostTypes ==
  ASSUME NEW g \in Ghosts, NEW A \in SUBSET Servers
  PROVE  /\ [g EXCEPT !.astray = A] \in Ghosts
         /\ [g EXCEPT !.astray = A].astray = A
         /\ [g EXCEPT !.astray = A].unkilled = g.unkilled
         /\ [g EXCEPT !.astray = A].unsaved = g.unsaved
         /\ [g EXCEPT !.astray = A].edited = g.edited
         /\ [g EXCEPT !.astray = A].late = g.late
  BY DEF Ghosts

LEMMA AstrayTypes ==
  ASSUME ghost.astray \subseteq Servers, NEW id \in Servers, NEW bad \in BOOLEAN
  PROVE  /\ Astray(id, bad) \in SUBSET Servers
         /\ \A j \in Servers \ {id} : j \in Astray(id, bad) <=> j \in ghost.astray
         /\ id \in Astray(id, bad) <=> bad
  <1>1. CASE bad
    BY <1>1 DEF Astray
  <1>2. CASE ~bad
    BY <1>2 DEF Astray
  <1> QED
    BY <1>1, <1>2

LEMMA StartedEffect ==
  ASSUME LifeIInv, NEW id \in Servers, NEW x \in Entries, Started(id, x), UNCHANGED tail
  PROVE  /\ Effect /\ Settled(id)'
         /\ \A j \in Servers \ {id} : Settled(j)' <=> Settled(j)
  <1> DEFINE l == [kind |-> x.kind, speed |-> x.speed, addr |-> x.addr, live |-> TRUE]
  <1>0. LifeTypes /\ LifeTypeOK /\ NoOrphanProcess /\ ghost \in Ghosts
        /\ ghost.astray \subseteq Servers
    BY DEF LifeIInv, LifeTypes, LifeTypeOK, Ghosts
  <1>m. mem[id].on \in BOOLEAN
    BY <1>0, EntryTypes DEF LifeTypeOK, Configs
  <1>1. l \in Listeners /\ l # NoListener /\ l.speed = x.speed
    BY EntryTypes DEF Listeners, NoListener, Kinds
  <1>2. /\ table' \in [Servers -> Listeners \cup {NoListener}]
        /\ table'[id] = l /\ \A j \in Servers \ {id} : table'[j] = table[j]
    BY <1>0, <1>1 DEF Started, LifeTypeOK
  <1>3. /\ speeders' \in [Servers -> {0, 1}]
        /\ speeders'[id] = (IF x.speed THEN 1 ELSE speeders[id])
        /\ \A j \in Servers \ {id} : speeders'[j] = speeders[j]
    BY <1>0 DEF Started, StartUDPSpeeder, LifeTypes
  <1>4. PICK A \in SUBSET Servers :
           /\ A = Astray(id, ~mem[id].on)
           /\ \A j \in Servers \ {id} : j \in A <=> j \in ghost.astray
           /\ id \in A <=> ~mem[id].on
    BY <1>0, <1>m, AstrayTypes
  <1>5. ghost' = [ghost EXCEPT !.astray = A]
    BY <1>4 DEF Started
  <1>6. /\ ghost' \in Ghosts /\ ghost'.astray = A /\ ghost'.unkilled = ghost.unkilled
        /\ ghost'.unsaved = ghost.unsaved /\ ghost'.edited = ghost.edited
        /\ ghost'.late = ghost.late
    BY <1>0, <1>5, GhostTypes
  <1>7. faults' \in 0 .. lload.faults
    BY <1>0, FaultOrNot DEF Started
  <1> HIDE DEF l
  <1>8. NoOrphanProcess'
    <2>1. ~Present(id)
      BY DEF Started
    <2>2. id \notin ghost.unkilled => speeders[id] # 1
      BY <1>0, <2>1 DEF NoOrphanProcess
    <2>3. ASSUME NEW j \in Servers \ ghost'.unkilled, speeders'[j] = 1
          PROVE  table'[j] # NoListener /\ table'[j].speed
      <3>1. CASE j = id
        BY <1>1, <1>2, <1>3, <1>6, <2>2, <2>3, <3>1
      <3>2. CASE j # id
        BY <1>0, <1>2, <1>3, <1>6, <2>3, <3>2 DEF NoOrphanProcess, Present
      <3> QED
        BY <3>1, <3>2
    <2> QED
      BY <2>3 DEF NoOrphanProcess, Present
  <1>9. UNCHANGED <<lload, mem, file, watch, event, state>>
    BY DEF tail, configVars
  <1>10. Settled(id)'
    BY <1>1, <1>2, <1>4, <1>6, <1>9 DEF Settled, Present
  <1>11. \A j \in Servers \ {id} : Settled(j)' <=> Settled(j)
    BY <1>2, <1>4, <1>6, <1>9 DEF Settled, Present
  <1> QED
    BY <1>2, <1>3, <1>6, <1>7, <1>8, <1>9, <1>10, <1>11 DEF Effect

LEMMA StartFailsEffect ==
  ASSUME LifeIInv, NEW id \in Servers, NEW x \in Entries, StartFails(id, x), UNCHANGED tail
  PROVE  /\ Effect
         /\ Settled(id)' \/ (Present(id) /\ ~Settled(id))
         /\ \A j \in Servers \ {id} : Settled(j)' <=> Settled(j)
  <1>0. LifeTypes /\ LifeTypeOK /\ NoOrphanProcess /\ ghost \in Ghosts
        /\ ghost.astray \subseteq Servers
    BY DEF LifeIInv, LifeTypes, LifeTypeOK, Ghosts
  <1>1. PICK A \in SUBSET Servers :
           /\ A = IF Present(id) THEN ghost.astray ELSE ghost.astray \cup {id}
           /\ \A j \in Servers \ {id} : j \in A <=> j \in ghost.astray
           /\ IF Present(id) THEN id \in A <=> id \in ghost.astray ELSE id \in A
    <2>1. CASE Present(id)
      BY <1>0, <2>1
    <2>2. CASE ~Present(id)
      <3>1. ghost.astray \cup {id} \in SUBSET Servers
        BY <1>0
      <3> QED
        BY <2>2, <3>1
    <2> QED
      BY <2>1, <2>2
  <1>2. ghost' = [ghost EXCEPT !.astray = A]
    BY <1>1 DEF StartFails
  <1>3. /\ ghost' \in Ghosts /\ ghost'.astray = A /\ ghost'.unkilled = ghost.unkilled
        /\ ghost'.unsaved = ghost.unsaved /\ ghost'.edited = ghost.edited
        /\ ghost'.late = ghost.late
    BY <1>0, <1>2, GhostTypes
  <1>4. faults' \in 0 .. lload.faults
    BY <1>0, FaultOrNot DEF StartFails
  <1>5. UNCHANGED <<lload, mem, file, watch, event, state>> /\ UNCHANGED <<table, speeders>>
    BY DEF tail, configVars, StartFails, tableVars
  <1>6. NoOrphanProcess'
    BY <1>0, <1>3, <1>5 DEF NoOrphanProcess, Present
  <1>7. Settled(id)' \/ (Present(id) /\ ~Settled(id))
    BY <1>1, <1>3, <1>5 DEF Settled, Present
  <1>8. \A j \in Servers \ {id} : Settled(j)' <=> Settled(j)
    BY <1>1, <1>3, <1>5 DEF Settled, Present
  <1> QED
    BY <1>0, <1>3, <1>4, <1>5, <1>6, <1>7, <1>8 DEF Effect, LifeTypes, LifeTypeOK

LEMMA StartEffect ==
  ASSUME LifeIInv, NEW id \in Servers, NEW x \in Entries, StartListener(id, x),
         UNCHANGED tail
  PROVE  /\ Effect
         /\ Settled(id)' \/ (Present(id) /\ ~Settled(id))
         /\ \A j \in Servers \ {id} : Settled(j)' <=> Settled(j)
  BY StartedEffect, StartFailsEffect DEF StartListener

\* A listener that is there and whose sockets are closed is there.
LEMMA DeadListener ==
  ASSUME NEW T \in [Servers -> Listeners \cup {NoListener}], NEW id \in Servers,
         T[id] # NoListener
  PROVE  /\ [T EXCEPT ![id].live = FALSE] \in [Servers -> Listeners \cup {NoListener}]
         /\ [T EXCEPT ![id].live = FALSE][id] # NoListener
         /\ [T EXCEPT ![id].live = FALSE][id].speed = T[id].speed
         /\ \A j \in Servers \ {id} : [T EXCEPT ![id].live = FALSE][j] = T[j]
  <1>1. T[id] \in Listeners
    OBVIOUS
  <1>2. [T[id] EXCEPT !.live = FALSE] \in Listeners
        /\ [T[id] EXCEPT !.live = FALSE].speed = T[id].speed
    BY <1>1 DEF Listeners
  <1>3. \A l \in Listeners : l # NoListener
    BY DEF Listeners, NoListener, Kinds
  <1> QED
    BY <1>2, <1>3

LEMMA StopEffect ==
  ASSUME LifeIInv, NEW id \in Servers, StopListener(id), UNCHANGED tail
  PROVE  /\ Effect /\ Settled(id)'
         /\ \A j \in Servers \ {id} : Settled(j)' <=> Settled(j)
  <1>0. LifeTypes /\ LifeTypeOK /\ NoOrphanProcess /\ ghost \in Ghosts
        /\ ghost.astray \subseteq Servers /\ ghost.unkilled \subseteq Servers
        /\ table \in [Servers -> Listeners \cup {NoListener}]
        /\ speeders \in [Servers -> {0, 1}]
    BY DEF LifeIInv, LifeTypes, LifeTypeOK, Ghosts
  <1>m. mem[id].on \in BOOLEAN
    BY <1>0, EntryTypes DEF LifeTypeOK, Configs
  <1>1. UNCHANGED <<lload, mem, file, watch, event, state>>
    BY DEF tail, configVars
  <1>2. faults' \in 0 .. lload.faults
    BY <1>0, FaultOrNot DEF StopListener, StopFails
  <1>3. CASE /\ table' = [table EXCEPT ![id] = NoListener]
             /\ Killed(id)
             /\ ghost' = [ghost EXCEPT !.astray = Astray(id, mem[id].on),
                                       !.unkilled = ghost.unkilled \ {id}]
    <2>1. PICK A \in SUBSET Servers :
             /\ A = Astray(id, mem[id].on)
             /\ \A j \in Servers \ {id} : j \in A <=> j \in ghost.astray
             /\ id \in A <=> mem[id].on
      BY <1>0, <1>m, AstrayTypes
    <2>2. PICK U \in SUBSET Servers : U = ghost.unkilled \ {id}
      BY <1>0
    <2>3. ghost' = [ghost EXCEPT !.astray = A, !.unkilled = U]
      BY <1>3, <2>1, <2>2
    <2>g. ghost \in Ghosts /\ A \in SUBSET Servers /\ U \in SUBSET Servers
      BY <1>0, <2>1, <2>2
    <2>4. /\ ghost' \in Ghosts /\ ghost'.astray = A /\ ghost'.unkilled = U
          /\ ghost'.unsaved = ghost.unsaved /\ ghost'.edited = ghost.edited
          /\ ghost'.late = ghost.late
      BY <2>g, <2>3 DEF Ghosts
    <2>5. /\ table' \in [Servers -> Listeners \cup {NoListener}]
          /\ table'[id] = NoListener /\ \A j \in Servers \ {id} : table'[j] = table[j]
      BY <1>0, <1>3
    <2>6. /\ speeders' \in [Servers -> {0, 1}] /\ speeders'[id] = 0
          /\ \A j \in Servers \ {id} : speeders'[j] = speeders[j]
      BY <1>0, <1>3 DEF Killed
    <2>7. NoOrphanProcess'
      BY <1>0, <2>2, <2>4, <2>5, <2>6 DEF NoOrphanProcess, Present
    <2>8. Settled(id)'
      BY <1>1, <2>1, <2>4, <2>5 DEF Settled, Present
    <2>9. \A j \in Servers \ {id} : Settled(j)' <=> Settled(j)
      BY <1>1, <2>1, <2>4, <2>5 DEF Settled, Present
    <2> QED
      BY <1>1, <1>2, <2>4, <2>5, <2>6, <2>7, <2>8, <2>9 DEF Effect
  <1>4. CASE StopFails(id)
    <2>1. PICK A \in SUBSET Servers : A = ghost.astray \cup {id}
      BY <1>0
    <2>2. PICK U \in SUBSET Servers : U = ghost.unkilled \cup {id}
      BY <1>0
    <2>3. ghost' = [ghost EXCEPT !.astray = A, !.unkilled = U]
      BY <1>4, <2>1, <2>2 DEF StopFails
    <2>g. ghost \in Ghosts /\ A \in SUBSET Servers /\ U \in SUBSET Servers
      BY <1>0, <2>1, <2>2
    <2>4. /\ ghost' \in Ghosts /\ ghost'.astray = A /\ ghost'.unkilled = U
          /\ ghost'.unsaved = ghost.unsaved /\ ghost'.edited = ghost.edited
          /\ ghost'.late = ghost.late
      BY <2>g, <2>3 DEF Ghosts
    <2>5. table[id] # NoListener /\ table' = [table EXCEPT ![id].live = FALSE]
          /\ UNCHANGED speeders
      BY <1>4 DEF StopFails, Present
    <2>6. /\ table' \in [Servers -> Listeners \cup {NoListener}]
          /\ \A j \in Servers \ {id} : table'[j] = table[j]
      BY <1>0, <2>5, DeadListener
    <2>7. NoOrphanProcess'
      BY <1>0, <2>2, <2>4, <2>5, <2>6 DEF NoOrphanProcess, Present
    <2>8. Settled(id)'
      BY <2>1, <2>4 DEF Settled
    <2>9. \A j \in Servers \ {id} : Settled(j)' <=> Settled(j)
      BY <1>1, <2>1, <2>4, <2>6 DEF Settled, Present
    <2> QED
      BY <1>0, <1>1, <1>2, <2>4, <2>5, <2>6, <2>7, <2>8, <2>9 DEF Effect
  <1> QED
    BY <1>3, <1>4 DEF StopListener

LEMMA NotFoundStill ==
  ASSUME NEW id \in Servers, NotFound(id), UNCHANGED tail
  PROVE  Still /\ ~Present(id)
  BY DEF NotFound, NoFault, tail, configVars, tableVars, Still

\* A listener that stops by itself.
LEMMA ListenFailsStep ==
  ASSUME LifeIInv, NEW id \in Servers, ListenFails(id)
  PROVE  LifeIInv'
  <1>0. LifeTypes /\ LifeTypeOK /\ NoOrphanProcess /\ ghost \in Ghosts
        /\ ghost.astray \subseteq Servers
        /\ table \in [Servers -> Listeners \cup {NoListener}]
    BY DEF LifeIInv, LifeTypes, LifeTypeOK, Ghosts
  <1>1. UNCHANGED <<lload, mem, file, watch, event, speeders, state, proc>>
    BY DEF ListenFails, configVars
  <1>2. faults' \in 0 .. lload.faults
    BY <1>0, FaultOrNot DEF ListenFails
  <1>3. PICK A \in SUBSET Servers : A = ghost.astray \cup {id}
    BY <1>0
  <1>4. ghost' = [ghost EXCEPT !.astray = A]
    BY <1>3 DEF ListenFails
  <1>5. /\ ghost' \in Ghosts /\ ghost'.astray = A /\ ghost'.unkilled = ghost.unkilled
        /\ ghost'.unsaved = ghost.unsaved /\ ghost'.edited = ghost.edited
        /\ ghost'.late = ghost.late
    BY <1>0, <1>4, GhostTypes
  <1>6. table[id] # NoListener /\ table' = [table EXCEPT ![id].live = FALSE]
    BY DEF ListenFails, Present
  <1>7. /\ table' \in [Servers -> Listeners \cup {NoListener}]
        /\ table'[id] # NoListener /\ table'[id].speed = table[id].speed
        /\ \A j \in Servers \ {id} : table'[j] = table[j]
    BY <1>0, <1>6, DeadListener
  <1>8. LifeTypes'
    BY <1>0, <1>1, <1>2, <1>5, <1>7 DEF LifeTypes, LifeTypeOK, ValidConfig
  <1>9. NoOrphanProcess'
    BY <1>0, <1>1, <1>5, <1>6, <1>7 DEF NoOrphanProcess, Present
  <1>10. FileFollows'
    BY <1>1, <1>5 DEF LifeIInv, FileFollows
  <1>11. table # NoTable
    BY <1>6 DEF NoTable
  <1>12. NoneAfterStop'
    BY <1>1, <1>5, <1>11 DEF LifeIInv, NoneAfterStop
  <1>13. StopBars'
    BY <1>1, <1>5 DEF LifeIInv, StopBars
  <1>14. \A j \in Servers : Settled(j) => Settled(j)'
    BY <1>1, <1>3, <1>5, <1>6, <1>7 DEF Settled, Present
  <1>15. Follows'
    BY <1>1, <1>5, <1>14 DEF LifeIInv, Follows, Watched
  <1> QED
    BY <1>8, <1>9, <1>10, <1>12, <1>13, <1>15 DEF LifeIInv

-----------------------------------------------------------------------------
(* The requests.                                                           *)

\* A step of a request on the table.
LEMMA RequestActs ==
  ASSUME LifeIInv, NEW r \in Reqs, NEW q, Turn(r, q), Effect, proc[r].pc \in Committed,
         \A id \in Servers : Settled(id)' \/ ~Settled(id)
  PROVE  LifeIInv'
  BY ProcStep, RequestKeeps, Names

LEMMA LookIsStill ==
  ASSUME NEW p, NEW pc, Look(p, pc)
  PROVE  Still /\ Goto(p, pc)
  BY DEF Look, Still, tail, configVars, tableVars

LEMMA RequestGoes ==
  ASSUME LifeIInv, NEW r \in Reqs, NEW pc \in Plain, Look(r, pc),
         pc \in Committed => proc[r].pc \in Committed \/ state = "running"
  PROVE  LifeIInv'
  <1>1. r \in Procs /\ r # "boot" /\ LifeTypes
    BY Names DEF LifeIInv
  <1>2. \E q : Turn(r, q)
    BY <1>1, GotoTurn, LookIsStill
  <1> QED
    BY <1>2, RequestLooks, LookIsStill

LEMMA RequestReturns ==
  ASSUME LifeIInv, NEW r \in Reqs, Return(r), Still
  PROVE  LifeIInv'
  BY ReturnTurn, RequestLooks, Names

LEMMA RequestEntryStep ==
  ASSUME LifeIInv, NEW r \in Reqs, NEW op \in {"create", "update"}, NEW id \in Servers,
         NEW new \in Servers, NEW x \in lload.sends, RequestEntry(r, op, id, new, x)
  PROVE  LifeIInv'
  <1> DEFINE m == IF mem[id] = NoEntry THEN {} ELSE mem[id].marks
             y == [x EXCEPT !.marks = m]
             q == [[proc[r] EXCEPT !.pc = "begin", !.new = new, !.e = y]
                     EXCEPT !.op = op, !.id = id]
  <1>0. LifeTypeOK /\ r \in Procs /\ r # "boot" /\ proc[r] \in ProcStates
        /\ mem[id] \in Entries \cup {NoEntry} /\ x \in Entries
    BY Names, ProcTypes, LoadTypes DEF LifeIInv, LifeTypes, LifeTypeOK, Configs
  <1>1. m \in SUBSET Marks
    BY <1>0, EntryTypes
  <1> HIDE DEF m
  <1>2. y \in Entries
    BY <1>0, <1>1 DEF Entries
  <1> HIDE DEF y
  <1>3. q \in ProcStates /\ q.pc = "begin" /\ q.e = y
    BY <1>0, <1>2 DEF ProcStates, Ops
  <1>4. proc' = [proc EXCEPT ![r] = q] /\ Still
    BY DEF RequestEntry, Begin, Still, tail, configVars, tableVars, y, m
  <1> HIDE DEF q
  <1>5. Turn(r, q)
    BY <1>0, <1>2, <1>3, <1>4 DEF Turn, Holds, Committed
  <1> QED
    BY <1>4, <1>5, RequestLooks

LEMMA RequestMarkStep ==
  ASSUME LifeIInv, NEW r \in Reqs, NEW op \in {"mark", "unmark"}, NEW id \in Servers,
         NEW b \in Marks, RequestMark(r, op, id, b)
  PROVE  LifeIInv'
  <1> DEFINE q == [[proc[r] EXCEPT !.pc = "read", !.mark = {b}] EXCEPT !.op = op, !.id = id]
  <1>0. r \in Procs /\ r # "boot" /\ proc[r] \in ProcStates
    BY Names, ProcTypes DEF LifeIInv, LifeTypes
  <1>1. q \in ProcStates /\ q.pc = "read" /\ q.op = op
    BY <1>0 DEF ProcStates, Ops
  <1>2. proc' = [proc EXCEPT ![r] = q] /\ Still
    BY DEF RequestMark, Begin, Still, tail, configVars, tableVars
  <1> HIDE DEF q
  <1>3. Turn(r, q)
    BY <1>0, <1>1, <1>2 DEF Turn, Holds, Committed
  <1> QED
    BY <1>2, <1>3, RequestLooks

LEMMA RequestServerStep ==
  ASSUME LifeIInv, NEW r \in Reqs, NEW op \in {"delete", "start", "stop", "reload"},
         NEW id \in Servers, RequestServer(r, op, id)
  PROVE  LifeIInv'
  <1>1. PICK pc \in {"stopchk", "start", "check", "reload"} :
           Begin(r, op, id, [proc[r] EXCEPT !.pc = pc])
    BY DEF RequestServer
  <1> DEFINE q == [[proc[r] EXCEPT !.pc = pc] EXCEPT !.op = op, !.id = id]
  <1>0. r \in Procs /\ r # "boot" /\ proc[r] \in ProcStates
    BY Names, ProcTypes DEF LifeIInv, LifeTypes
  <1>2. q \in ProcStates /\ q.pc = pc
    BY <1>0, ZenonT(60) DEF ProcStates, Ops
  <1>3. proc' = [proc EXCEPT ![r] = q] /\ Still
    BY <1>1 DEF Begin, Still, tail, configVars, tableVars
  <1> HIDE DEF q
  <1>4. Turn(r, q)
    BY <1>0, <1>2, <1>3, PlainHolds DEF Turn, Plain, Committed
  <1> QED
    BY <1>3, <1>4, RequestLooks

LEMMA DecideStep ==
  ASSUME LifeIInv, NEW r \in Reqs, Decide(r)
  PROVE  LifeIInv'
  <1>0. r \in Procs /\ r # "boot" /\ proc[r] \in ProcStates /\ proc[r].new \in Servers
    BY Names, ProcTypes DEF LifeIInv, LifeTypes
  <1>1. PICK pc \in {"start", "reload", "check", "done"} :
           proc' = [proc EXCEPT ![r] = [proc[r] EXCEPT !.id = proc[r].new, !.pc = pc]]
    BY DEF Decide
  <1> DEFINE q == [proc[r] EXCEPT !.id = proc[r].new, !.pc = pc]
  <1>2. q \in ProcStates /\ q.pc = pc
    BY <1>0 DEF ProcStates
  <1>a. proc' = [proc EXCEPT ![r] = q]
    BY <1>1
  <1> HIDE DEF q
  <1>3. Turn(r, q)
    BY <1>0, <1>a, <1>1, <1>2, PlainHolds DEF Turn, Plain, Committed
  <1>4. Still
    BY DEF Decide, Still, tail, configVars, tableVars
  <1> QED
    BY <1>3, <1>4, RequestLooks

\* With the entry in hand, startListener is next.
LEMMA BindTurn ==
  ASSUME LifeTypes, NEW p \in Procs, p # "boot", NEW x \in Entries,
         proc' = [proc EXCEPT ![p] = [proc[p] EXCEPT !.e = x, !.pc = "bind"]],
         proc[p].pc \in Committed
  PROVE  \E q : Turn(p, q)
  <1> DEFINE q == [proc[p] EXCEPT !.e = x, !.pc = "bind"]
  <1>1. proc[p] \in ProcStates
    BY ProcTypes DEF LifeTypes
  <1>2. q \in ProcStates /\ q.pc = "bind" /\ q.e = x
    BY <1>1 DEF ProcStates
  <1> HIDE DEF q
  <1>3. Turn(p, q)
    BY <1>2 DEF Turn, Holds, q
  <1> QED
    BY <1>3

LEMMA StartCopyStep ==
  ASSUME LifeIInv, NEW r \in Reqs, StartCopy(r)
  PROVE  LifeIInv'
  <1>0. LifeTypes /\ r \in Procs /\ r # "boot" /\ proc[r].id \in Servers
        /\ mem[proc[r].id] \in Entries \cup {NoEntry}
        /\ proc[r].pc \in Committed
    BY Names, ProcTypes DEF LifeIInv, LifeTypes, LifeTypeOK, Configs, StartCopy, In, Committed
  <1>1. Still
    BY DEF StartCopy, Still, tail, configVars, tableVars
  <1>2. CASE mem[proc[r].id] = NoEntry
    BY <1>1, <1>2, RequestReturns DEF StartCopy
  <1>3. CASE mem[proc[r].id] # NoEntry
    <2>1. mem[proc[r].id] \in Entries
      BY <1>0, <1>3
    <2>2. proc' = [proc EXCEPT ![r] = [proc[r] EXCEPT !.e = mem[proc[r].id], !.pc = "bind"]]
      BY <1>3 DEF StartCopy
    <2> QED
      BY <1>0, <1>1, <2>1, <2>2, BindTurn, RequestLooks
  <1> QED
    BY <1>2, <1>3

LEMMA BindStep ==
  ASSUME LifeIInv, NEW r \in Reqs, Bind(r)
  PROVE  LifeIInv'
  <1>0. r \in Procs /\ proc[r].id \in Servers /\ proc[r].e \in Entries
        /\ proc[r].pc \in Committed
    BY Names, ProcTypes DEF LifeIInv, LifeTypes, Holds, Bind, In, Committed
  <1>1. /\ Effect /\ \A j \in Servers : Settled(j)' \/ ~Settled(j)
    BY <1>0, StartEffect DEF Bind
  <1>2. \E q : Turn(r, q)
    BY <1>0, ReturnTurn DEF Bind
  <1> QED
    BY <1>0, <1>1, <1>2, RequestActs

\* stopListener, and what the request does next.
LEMMA RequestStops ==
  ASSUME LifeIInv, NEW r \in Reqs, StopListener(proc[r].id), UNCHANGED tail,
         proc[r].pc \in Committed, \E q : Turn(r, q)
  PROVE  LifeIInv'
  <1>0. proc[r].id \in Servers
    BY Names, ProcTypes DEF LifeIInv, LifeTypes
  <1>1. /\ Effect /\ \A j \in Servers : Settled(j)' \/ ~Settled(j)
    BY <1>0, StopEffect
  <1> QED
    BY <1>1, RequestActs

LEMMA UnbindStep ==
  ASSUME LifeIInv, NEW r \in Reqs, Unbind(r)
  PROVE  LifeIInv'
  <1>0. LifeTypes /\ r \in Procs /\ r # "boot" /\ proc[r].id \in Servers
        /\ proc[r].pc \in Committed /\ UNCHANGED tail
    BY Names, ProcTypes DEF LifeIInv, LifeTypes, Unbind, In, Committed
  <1>1. CASE NotFound(proc[r].id) /\ Return(r)
    BY <1>0, <1>1, NotFoundStill, RequestReturns
  <1>2. CASE StopListener(proc[r].id) /\ (Goto(r, "delete") \/ Return(r))
    <2>1. \E q : Turn(r, q)
      BY <1>0, <1>2, GotoTurn, ReturnTurn DEF Plain
    <2> QED
      BY <1>0, <1>2, <2>1, RequestStops
  <1> QED
    BY <1>1, <1>2 DEF Unbind

LEMMA ReloadCopyStep ==
  ASSUME LifeIInv, NEW r \in Reqs, ReloadCopy(r)
  PROVE  LifeIInv'
  <1> DEFINE q == [proc[r] EXCEPT !.e = mem[proc[r].id], !.pc = "recheck"]
  <1>0. r \in Procs /\ r # "boot" /\ proc[r] \in ProcStates
        /\ mem[proc[r].id] \in Entries \cup {NoEntry}
        /\ proc[r].pc \in Committed
    BY Names, ProcTypes DEF LifeIInv, LifeTypes, LifeTypeOK, Configs, ReloadCopy, In, Committed
  <1>1. q \in ProcStates /\ q.pc = "recheck"
    BY <1>0 DEF ProcStates
  <1>2. proc' = [proc EXCEPT ![r] = q] /\ Still
    BY DEF ReloadCopy, Still, tail, configVars, tableVars
  <1> HIDE DEF q
  <1>3. Turn(r, q)
    BY <1>0, <1>1, <1>2, PlainHolds DEF Turn, Plain
  <1> QED
    BY <1>2, <1>3, RequestLooks

\* ReloadServer starts only what its copy has enabled.
LEMMA GotoBind ==
  ASSUME LifeTypes, NEW p \in Procs, p # "boot", Goto(p, "bind"), proc[p].e.on,
         proc[p].pc \in Committed
  PROVE  \E q : Turn(p, q)
  <1> DEFINE q == [proc[p] EXCEPT !.pc = "bind"]
  <1>1. proc[p] \in ProcStates /\ proc[p].e \in Entries
    BY ProcTypes, EntryTypes DEF LifeTypes
  <1>2. q \in ProcStates /\ q.pc = "bind" /\ q.e = proc[p].e
    BY <1>1 DEF ProcStates
  <1>3. proc' = [proc EXCEPT ![p] = q]
    BY DEF Goto
  <1> HIDE DEF q
  <1>4. Turn(p, q)
    BY <1>1, <1>2, <1>3 DEF Turn, Holds
  <1> QED
    BY <1>4

LEMMA ReloadLooksStep ==
  ASSUME LifeIInv, NEW r \in Reqs, ReloadLooks(r)
  PROVE  LifeIInv'
  <1>0. LifeTypes /\ r \in Procs /\ r # "boot" /\ proc[r].pc \in Committed
    BY Names DEF LifeIInv, ReloadLooks, In, Committed
  <1>1. CASE \E pc \in {"restop", "done"} : Look(r, pc)
    BY <1>0, <1>1, RequestGoes DEF Plain
  <1>2. CASE Look(r, "bind") /\ proc[r].e.on
    BY <1>0, <1>2, GotoBind, LookIsStill, RequestLooks
  <1> QED
    BY <1>1, <1>2 DEF ReloadLooks

LEMMA ReloadStopsStep ==
  ASSUME LifeIInv, NEW r \in Reqs, ReloadStops(r)
  PROVE  LifeIInv'
  <1>0. LifeTypes /\ r \in Procs /\ r # "boot" /\ proc[r].id \in Servers
        /\ proc[r].pc \in Committed /\ UNCHANGED tail
    BY Names, ProcTypes DEF LifeIInv, LifeTypes, ReloadStops, In, Committed
  <1>1. CASE NotFound(proc[r].id) /\ Return(r)
    BY <1>0, <1>1, NotFoundStill, RequestReturns
  <1>2. CASE StopListener(proc[r].id) /\ ((proc[r].e.on /\ Goto(r, "bind")) \/ Return(r))
    <2>1. \E q : Turn(r, q)
      BY <1>0, <1>2, GotoBind, ReturnTurn
    <2> QED
      BY <1>0, <1>2, <2>1, RequestStops
  <1> QED
    BY <1>1, <1>2 DEF ReloadStops

-----------------------------------------------------------------------------
(* The configuration.                                                      *)

LEMMA SaveEffect ==
  ASSUME LifeTypes, NEW m, SaveToFile(m)
  PROVE  /\ faults' \in 0 .. lload.faults
         /\ ghost' \in Ghosts
         /\ ghost'.astray = ghost.astray /\ ghost'.unkilled = ghost.unkilled
         /\ ghost'.late = ghost.late
         /\ watch' \in {"on", "deaf", "closed"}
         /\ \/ Saved /\ file' = m /\ event' \in BOOLEAN /\ (watch' = "on" => event')
            \/ ~Saved /\ file' = file /\ event' = event /\ ghost'.unsaved
  <1>0. ghost \in Ghosts /\ watch \in {"on", "deaf", "closed"} /\ event \in BOOLEAN
        /\ lload.survives \in BOOLEAN
    <2>1. PICK l \in LifeLoads : lload \in {l, [l EXCEPT !.edits = {}]}
      BY DEF LifeTypes, LifeTypeOK
    <2>2. l.survives \in BOOLEAN /\ lload.survives = l.survives
      BY <2>1, LifeConstants
    <2> QED
      BY <2>2 DEF LifeTypes, LifeTypeOK
  <1>1. faults' \in 0 .. lload.faults
    BY FaultOrNot DEF SaveToFile
  <1>2. CASE /\ NoFault /\ file' = m
             /\ event' = (event \/ (watch = "on" /\ lload.survives))
             /\ watch' = IF watch = "on" /\ ~lload.survives THEN "deaf" ELSE watch
             /\ ghost' = [ghost EXCEPT !.unsaved = FALSE, !.edited = FALSE]
    <2>1. Saved
      BY <1>2 DEF NoFault, Saved
    <2>2. /\ ghost' \in Ghosts
          /\ ghost'.astray = ghost.astray /\ ghost'.unkilled = ghost.unkilled
          /\ ghost'.late = ghost.late
      BY <1>0, <1>2 DEF Ghosts
    <2>3. event' \in BOOLEAN /\ watch' \in {"on", "deaf", "closed"}
          /\ (watch' = "on" => event')
      BY <1>0, <1>2
    <2> QED
      BY <1>1, <1>2, <2>1, <2>2, <2>3
  <1>3. CASE /\ Fault /\ UNCHANGED <<file, event, watch>>
             /\ ghost' = [ghost EXCEPT !.unsaved = TRUE]
    <2>1. ~Saved
      BY <1>3, LoadTypes DEF Fault, Saved, LifeTypes
    <2>2. /\ ghost' \in Ghosts /\ ghost'.unsaved
          /\ ghost'.astray = ghost.astray /\ ghost'.unkilled = ghost.unkilled
          /\ ghost'.late = ghost.late
      BY <1>0, <1>3 DEF Ghosts
    <2> QED
      BY <1>0, <1>1, <1>3, <2>1, <2>2
  <1> QED
    BY <1>2, <1>3 DEF SaveToFile

\* A change is written to the file, which wakes the watcher, or the save has failed.
LEMMA ChangeStep ==
  ASSUME LifeIInv, NEW r \in Reqs, NEW m \in Configs, ValidConfig(m),
         NEW next \in {"decide", "done"}, Change(r, m, next)
  PROVE  LifeIInv'
  <1>0. LifeTypes /\ r \in Procs /\ r # "boot"
    BY Names DEF LifeIInv
  <1>1. /\ faults' \in 0 .. lload.faults
        /\ ghost' \in Ghosts
        /\ ghost'.astray = ghost.astray /\ ghost'.unkilled = ghost.unkilled
        /\ ghost'.late = ghost.late
        /\ watch' \in {"on", "deaf", "closed"}
        /\ \/ Saved /\ file' = m /\ event' \in BOOLEAN /\ (watch' = "on" => event')
           \/ ~Saved /\ file' = file /\ event' = event /\ ghost'.unsaved
    BY <1>0, SaveEffect DEF Change
  <1>2. mem' = m /\ UNCHANGED <<lload, table, speeders, state>>
    BY DEF Change, tableVars
  <1>3. PICK q : Turn(r, q)
    BY <1>0, GotoTurn, ReturnTurn DEF Change, Plain, Committed
  <1>4. file' \in Configs /\ event' \in BOOLEAN
    BY <1>0, <1>1 DEF LifeTypes, LifeTypeOK
  <1>5. LifeTypeOK'
    BY <1>0, <1>1, <1>2, <1>3, <1>4, TurnTypes DEF LifeTypes, LifeTypeOK
  <1>6. LifeTypes'
    BY <1>0, <1>2, <1>3, <1>5, TurnTypes DEF LifeTypes, ValidConfig
  <1>7. NoOrphanProcess'
    BY <1>1, <1>2 DEF LifeIInv, NoOrphanProcess, Present
  <1>8. FileFollows'
    BY <1>1, <1>2 DEF FileFollows
  <1>9. NoneAfterStop'
    BY <1>1, <1>2 DEF LifeIInv, NoneAfterStop
  <1>10. StopBars'
    BY <1>0, <1>1, <1>2, <1>3, TurnBars DEF LifeIInv
  <1>11. Follows'
    BY <1>1 DEF Follows, Watched
  <1> QED
    BY <1>6, <1>7, <1>8, <1>9, <1>10, <1>11 DEF LifeIInv

LEMMA UnchangedStep ==
  ASSUME LifeIInv, NEW r \in Reqs, Unchanged(r)
  PROVE  LifeIInv'
  <1>1. Still /\ Return(r)
    BY DEF Unchanged, Still, configVars, tableVars
  <1> QED
    BY <1>1, RequestReturns

\* Putting a valid entry, or none, in a valid configuration.
LEMMA PutEntry ==
  ASSUME NEW m \in Configs, ValidConfig(m), NEW id \in Servers,
         NEW x \in Entries \cup {NoEntry}, x = NoEntry \/ Validate(x)
  PROVE  [m EXCEPT ![id] = x] \in Configs /\ ValidConfig([m EXCEPT ![id] = x])
  BY DEF Configs, ValidConfig

LEMMA AddServerStep ==
  ASSUME LifeIInv, NEW r \in Reqs, AddServer(r)
  PROVE  LifeIInv'
  <1>0. proc[r].id \in Servers /\ proc[r].e \in Entries \cup {NoEntry}
        /\ mem \in Configs /\ ValidConfig(mem)
    BY Names, ProcTypes DEF LifeIInv, LifeTypes, LifeTypeOK
  <1>1. CASE Validate(proc[r].e) /\ Change(r, [mem EXCEPT ![proc[r].id] = proc[r].e], "decide")
    BY <1>0, <1>1, PutEntry, ChangeStep
  <1> QED
    BY <1>1, UnchangedStep DEF AddServer

LEMMA UpdateServerStep ==
  ASSUME LifeIInv, NEW r \in Reqs, UpdateServer(r)
  PROVE  LifeIInv'
  <1>0. proc[r].id \in Servers /\ proc[r].new \in Servers
        /\ proc[r].e \in Entries \cup {NoEntry}
        /\ mem \in Configs /\ ValidConfig(mem)
    BY Names, ProcTypes DEF LifeIInv, LifeTypes, LifeTypeOK
  <1>1. CASE /\ Validate(proc[r].e)
             /\ Change(r, [mem EXCEPT ![proc[r].id] = NoEntry, ![proc[r].new] = proc[r].e],
                       "decide")
    <2> DEFINE n == [mem EXCEPT ![proc[r].id] = NoEntry]
    <2>1. n \in Configs /\ ValidConfig(n)
      BY <1>0, PutEntry
    <2>2. [mem EXCEPT ![proc[r].id] = NoEntry, ![proc[r].new] = proc[r].e]
            = [n EXCEPT ![proc[r].new] = proc[r].e]
      OBVIOUS
    <2> HIDE DEF n
    <2>3. [n EXCEPT ![proc[r].new] = proc[r].e] \in Configs
          /\ ValidConfig([n EXCEPT ![proc[r].new] = proc[r].e])
      BY <1>0, <1>1, <2>1, PutEntry
    <2> QED
      BY <1>1, <2>2, <2>3, ChangeStep
  <1> QED
    BY <1>1, UnchangedStep DEF UpdateServer

LEMMA DeleteServerStep ==
  ASSUME LifeIInv, NEW r \in Reqs, DeleteServer(r)
  PROVE  LifeIInv'
  <1>0. proc[r].id \in Servers /\ mem \in Configs /\ ValidConfig(mem)
    BY Names, ProcTypes DEF LifeIInv, LifeTypes, LifeTypeOK
  <1>1. CASE Change(r, [mem EXCEPT ![proc[r].id] = NoEntry], "done")
    BY <1>0, <1>1, PutEntry, ChangeStep
  <1> QED
    BY <1>1, UnchangedStep DEF DeleteServer

LEMMA WriteBackStep ==
  ASSUME LifeIInv, NEW r \in Reqs, WriteBack(r)
  PROVE  LifeIInv'
  <1>0. proc[r].id \in Servers /\ mem \in Configs /\ ValidConfig(mem)
        /\ proc[r].e \in Entries /\ Validate(proc[r].e)
    BY Names, ProcTypes DEF LifeIInv, LifeTypes, LifeTypeOK, Holds, WriteBack, In
  <1>1. CASE Change(r, [mem EXCEPT ![proc[r].id] = proc[r].e], "done")
    BY <1>0, <1>1, PutEntry, ChangeStep
  <1> QED
    BY <1>1, UnchangedStep DEF WriteBack

\* A copy with other marks: it loses none but those its request lifts.
LEMMA CopiedTurn ==
  ASSUME LifeTypes, NEW r \in Reqs, NEW m \in SUBSET Marks,
         mem[proc[r].id] # NoEntry, Copied(r, m),
         \A b \in mem[proc[r].id].marks \ m : proc[r].op = "unmark" /\ b \in proc[r].mark
  PROVE  \E q : Turn(r, q)
  <1> DEFINE x == mem[proc[r].id]
             y == [x EXCEPT !.marks = m]
             q == [proc[r] EXCEPT !.pc = "write", !.seen = x.marks, !.e = y]
  <1>0. r \in Procs /\ r # "boot" /\ proc[r] \in ProcStates /\ proc[r].id \in Servers
    BY Names, ProcTypes DEF LifeTypes
  <1>1. x \in Entries /\ Validate(x)
    BY <1>0 DEF LifeTypes, LifeTypeOK, Configs, ValidConfig
  <1>2. proc' = [proc EXCEPT ![r] = q]
    BY DEF Copied
  <1> HIDE DEF x
  <1>3. y \in Entries /\ y.marks = m /\ y.speed = x.speed /\ y.kind = x.kind
        /\ x.marks \subseteq Marks
    BY <1>1 DEF Entries
  <1> HIDE DEF y
  <1>4. /\ q \in ProcStates /\ q.pc = "write" /\ q.seen = x.marks /\ q.e = y
        /\ q.op = proc[r].op /\ q.mark = proc[r].mark
    BY <1>0, <1>3 DEF ProcStates
  <1> HIDE DEF q
  <1>5. Validate(y)
    BY <1>1, <1>3 DEF Validate
  <1>6. \A b \in x.marks \ m : proc[r].op = "unmark" /\ b \in proc[r].mark
    BY DEF x
  <1>7. Turn(r, q)
    BY <1>0, <1>2, <1>3, <1>4, <1>5, <1>6 DEF Turn, Holds, Committed
  <1> QED
    BY <1>7

LEMMA GetServerStep ==
  ASSUME LifeIInv, NEW r \in Reqs, GetServer(r)
  PROVE  LifeIInv'
  <1>0. /\ LifeTypes /\ r \in Procs /\ proc[r].id \in Servers /\ proc[r].mark \subseteq Marks
        /\ proc[r].op \in {"mark", "unmark"}
        /\ mem[proc[r].id] \in Entries \cup {NoEntry}
    BY Names, ProcTypes DEF LifeIInv, LifeTypes, LifeTypeOK, Configs, Holds, GetServer, In
  <1>1. Still
    BY DEF GetServer, Still, configVars, tableVars
  <1>2. CASE mem[proc[r].id] = NoEntry
    BY <1>1, <1>2, RequestReturns DEF GetServer
  <1>3. CASE mem[proc[r].id] # NoEntry
    <2>0. mem[proc[r].id].marks \subseteq Marks
      BY <1>0, <1>3, EntryTypes
    <2>1. CASE proc[r].op = "mark"
      <3>1. Copied(r, mem[proc[r].id].marks \cup proc[r].mark)
        BY <1>3, <2>1 DEF GetServer
      <3>2. mem[proc[r].id].marks \cup proc[r].mark \in SUBSET Marks
        BY <1>0, <2>0
      <3> QED
        BY <1>0, <1>1, <1>3, <3>1, <3>2, CopiedTurn, RequestLooks
    <2>2. CASE proc[r].op = "unmark"
      <3>1. Copied(r, mem[proc[r].id].marks \ proc[r].mark)
        BY <1>3, <2>2 DEF GetServer
      <3>2. mem[proc[r].id].marks \ proc[r].mark \in SUBSET Marks
        BY <1>0, <2>0
      <3>3. \E q : Turn(r, q)
        BY <1>0, <1>3, <2>2, <3>1, <3>2, CopiedTurn
      <3> QED
        BY <1>1, <3>3, RequestLooks
    <2> QED
      BY <1>0, <2>1, <2>2
  <1> QED
    BY <1>2, <1>3

LEMMA RequestStepKeeps ==
  ASSUME LifeIInv, NEW r \in Reqs, RequestStep(r)
  PROVE  LifeIInv'
  <1>1. CASE StartServer(r)
    <2>1. \E pc \in {"copy", "done"} : Look(r, pc) /\ (pc = "copy" => state = "running")
      BY <1>1 DEF StartServer
    <2> QED
      BY <2>1, RequestGoes DEF Plain, Committed
  <1>2. CASE DeleteLooks(r)
    BY <1>2, RequestGoes DEF DeleteLooks, Plain, Committed
  <1>3. CASE StopServer(r)
    <2>1. \E pc \in {"unbind", "done"} : Look(r, pc) /\ (pc = "unbind" => state = "running")
      BY <1>3 DEF StopServer
    <2> QED
      BY <2>1, RequestGoes DEF Plain, Committed
  <1>4. CASE ReloadServer(r)
    <2>1. \E pc \in {"recopy", "done"} : Look(r, pc) /\ (pc = "recopy" => state = "running")
      BY <1>4 DEF ReloadServer
    <2> QED
      BY <2>1, RequestGoes DEF Plain, Committed
  <1> QED
    BY <1>1, <1>2, <1>3, <1>4, AddServerStep, UpdateServerStep, DeleteServerStep,
       GetServerStep, WriteBackStep, DecideStep, StartCopyStep, BindStep, UnbindStep,
       ReloadCopyStep, ReloadLooksStep, ReloadStopsStep DEF RequestStep

-----------------------------------------------------------------------------
(* The file and its watcher.                                               *)

LEMMA EditFileStep ==
  ASSUME LifeIInv, NEW m \in lload.edits, EditFile(m)
  PROVE  LifeIInv'
  <1>0. LifeTypes /\ LifeTypeOK /\ ghost \in Ghosts /\ m \in Configs
    BY LoadTypes DEF LifeIInv, LifeTypes, LifeTypeOK
  <1>1. /\ UNCHANGED <<mem, watch, table, speeders, state, proc, faults>>
        /\ file' = m /\ event' = (watch = "on")
    BY DEF EditFile, tableVars
  <1>2. /\ ghost' \in Ghosts /\ ghost'.edited
        /\ ghost'.astray = ghost.astray /\ ghost'.unkilled = ghost.unkilled
        /\ ghost'.late = ghost.late
    BY <1>0 DEF EditFile, Ghosts
  <1>3. /\ \E l \in LifeLoads : lload' \in {l, [l EXCEPT !.edits = {}]}
        /\ lload'.faults = lload.faults
    <2>1. PICK l \in LifeLoads : lload \in {l, [l EXCEPT !.edits = {}]}
      BY <1>0 DEF LifeTypeOK
    <2>2. lload' = [lload EXCEPT !.edits = {}]
      BY DEF EditFile
    <2>3. lload' = [l EXCEPT !.edits = {}] /\ lload'.faults = lload.faults
      BY <2>1, <2>2, LifeConstants
    <2> QED
      BY <2>3
  <1>4. LifeTypes'
    BY <1>0, <1>1, <1>2, <1>3 DEF LifeTypes, LifeTypeOK, ValidConfig
  <1>5. NoOrphanProcess'
    BY <1>1, <1>2 DEF LifeIInv, NoOrphanProcess, Present
  <1>6. FileFollows'
    BY <1>2 DEF FileFollows
  <1>7. NoneAfterStop'
    BY <1>1, <1>2 DEF LifeIInv, NoneAfterStop
  <1>8. StopBars'
    BY <1>1, <1>2 DEF LifeIInv, StopBars
  <1>9. Follows'
    BY <1>1 DEF Follows, Watched
  <1> QED
    BY <1>4, <1>5, <1>6, <1>7, <1>8, <1>9 DEF LifeIInv

\* From here on the watcher owes every server.
LEMMA SeeEventStep ==
  ASSUME LifeIInv, SeeEvent
  PROVE  LifeIInv'
  <1> DEFINE q == [proc["watcher"] EXCEPT !.pc = "load", !.op = "all"]
  <1>0. LifeTypes /\ proc["watcher"] \in ProcStates
    BY Names, ProcTypes DEF LifeIInv, LifeTypes
  <1>1. q \in ProcStates /\ q.pc = "load"
    BY <1>0 DEF ProcStates
  <1>2. /\ proc' = [proc EXCEPT !["watcher"] = q] /\ event' = FALSE
        /\ UNCHANGED <<lload, mem, file, watch, table, speeders, state, faults, ghost>>
    BY DEF SeeEvent, tableVars
  <1> HIDE DEF q
  <1>3. Turn("watcher", q)
    BY <1>1, <1>2, PlainHolds, Names DEF Turn, Plain, Committed
  <1>4. proc'["watcher"].pc = "load"
    BY <1>0, <1>1, <1>3, TurnTypes, Names
  <1>5. LifeTypes'
    BY <1>0, <1>2, <1>3, TurnTypes, Names DEF LifeTypes, LifeTypeOK, ValidConfig
  <1>6. NoOrphanProcess' /\ FileFollows' /\ NoneAfterStop'
    BY <1>2 DEF LifeIInv, NoOrphanProcess, Present, FileFollows, NoneAfterStop
  <1>7. StopBars'
    BY <1>0, <1>2, <1>3, TurnBars, Names DEF LifeIInv
  <1>8. Follows'
    BY <1>4 DEF Follows, ReloadOwes
  <1> QED
    BY <1>5, <1>6, <1>7, <1>8 DEF LifeIInv

\* A file that Load refuses is not what the memory holds, which is valid.
LEMMA LoadFileStep ==
  ASSUME LifeIInv, LoadFile
  PROVE  LifeIInv'
  <1>0. /\ LifeTypes /\ LifeTypeOK /\ ghost \in Ghosts /\ "watcher" \in Procs
        /\ "watcher" # "boot" /\ file \in Configs
    BY Names DEF LifeIInv, LifeTypes, LifeTypeOK
  <1>1. UNCHANGED <<lload, file, watch, event, table, speeders, state, faults>>
    BY DEF LoadFile, tableVars
  <1>2. CASE ValidConfig(file)
    <2>1. /\ mem' = file /\ Goto("watcher", "check")
          /\ ghost' = [ghost EXCEPT !.unsaved = FALSE, !.edited = FALSE]
      BY <1>2 DEF LoadFile
    <2>2. /\ ghost' \in Ghosts
          /\ ghost'.astray = ghost.astray /\ ghost'.unkilled = ghost.unkilled
          /\ ghost'.late = ghost.late
      BY <1>0, <2>1 DEF Ghosts
    <2>3. PICK q : Turn("watcher", q) /\ q.pc = "check"
      BY <1>0, <2>1, GotoTurn DEF Plain, Committed
    <2>4. proc'["watcher"].pc = "check"
      BY <1>0, <2>3, TurnTypes
    <2>5. LifeTypeOK'
      BY <1>0, <1>1, <2>1, <2>2, <2>3, TurnTypes DEF LifeTypeOK
    <2>6. LifeTypes'
      BY <1>0, <1>1, <1>2, <2>1, <2>3, <2>5, TurnTypes DEF LifeTypes, ValidConfig
    <2>7. NoOrphanProcess'
      BY <1>1, <2>2 DEF LifeIInv, NoOrphanProcess, Present
    <2>8. FileFollows'
      BY <1>1, <2>1 DEF FileFollows
    <2>9. NoneAfterStop'
      BY <1>1, <2>2 DEF LifeIInv, NoneAfterStop
    <2>10. StopBars'
      BY <1>0, <1>1, <2>2, <2>3, TurnBars DEF LifeIInv
    <2>11. Follows'
      BY <2>4 DEF Follows, ReloadOwes
    <2> QED
      BY <2>6, <2>7, <2>8, <2>9, <2>10, <2>11 DEF LifeIInv
  <1>3. CASE ~ValidConfig(file)
    <2>1. Return("watcher") /\ UNCHANGED <<mem, ghost>>
      BY <1>3 DEF LoadFile
    <2>2. PICK q : Turn("watcher", q)
      BY <1>0, <2>1, ReturnTurn
    <2>3. LifeTypes'
      BY <1>0, <1>1, <2>1, <2>2, TurnTypes DEF LifeTypes, LifeTypeOK, ValidConfig
    <2>4. NoOrphanProcess' /\ FileFollows' /\ NoneAfterStop'
      BY <1>1, <2>1 DEF LifeIInv, NoOrphanProcess, Present, FileFollows, NoneAfterStop
    <2>5. StopBars'
      BY <1>0, <1>1, <2>1, <2>2, TurnBars DEF LifeIInv
    <2>6. mem # file
      BY <1>0, <1>3 DEF LifeTypes
    <2>7. Follows'
      BY <1>1, <2>1, <2>6 DEF Follows, Watched
    <2> QED
      BY <2>3, <2>4, <2>5, <2>7 DEF LifeIInv
  <1> QED
    BY <1>2, <1>3

-----------------------------------------------------------------------------
(* Start and Reload.                                                       *)

LEMMA EntryOn ==
  ASSUME LifeTypeOK, NEW p \in Procs, NEW id \in Servers
  PROVE  /\ mem[id] \in Entries \cup {NoEntry} /\ mem[id].on \in BOOLEAN
         /\ proc[p].snap[id] \in Entries \cup {NoEntry}
         /\ proc[p].snap[id].on \in BOOLEAN
         /\ proc[p].snap[id].on => proc[p].snap[id] \in Entries
  BY ProcTypes, EntryTypes DEF LifeTypeOK, Configs

LEMMA ReloadBeginsStep ==
  ASSUME LifeIInv, ReloadBegins
  PROVE  LifeIInv'
  <1>0. LifeTypes /\ "watcher" \in Procs /\ "watcher" # "boot"
    BY Names DEF LifeIInv
  <1>1. CASE state = "running"
    <2>1. Look("watcher", "all")
      BY <1>1 DEF ReloadBegins
    <2>2. PICK q : Turn("watcher", q) /\ q.pc = "all"
      BY <1>0, <1>1, <2>1, GotoTurn, LookIsStill DEF Plain
    <2>3. \A id \in Servers : Keeps("watcher", q, id)
      BY <2>2, Names DEF Keeps, ReloadOwes
    <2> QED
      BY <1>0, <2>1, <2>2, <2>3, LookStep, LookIsStill
  <1>2. CASE state # "running"
    <2>1. Look("watcher", "idle")
      BY <1>2 DEF ReloadBegins
    <2>2. PICK q : Turn("watcher", q)
      BY <1>0, <2>1, GotoTurn, LookIsStill DEF Plain, Committed
    <2>3. Still /\ Effect
      BY <2>1, LookIsStill, StillEffect
    <2>4. LifeTypes' /\ StopBars'
      <3>1. LifeTypeOK'
        BY <1>0, <2>2, <2>3, TurnTypes DEF LifeTypes, LifeTypeOK, Effect
      <3>2. LifeTypes'
        BY <1>0, <2>2, <2>3, <3>1, TurnTypes DEF LifeTypes, Effect, ValidConfig
      <3> QED
        BY <1>0, <2>2, <2>3, <3>2, TurnBars DEF LifeIInv, Still
    <2>5. NoOrphanProcess' /\ FileFollows' /\ NoneAfterStop'
      BY <2>3 DEF LifeIInv, Still, NoOrphanProcess, Present, FileFollows, NoneAfterStop
    <2>6. Follows'
      BY <1>2, <2>3 DEF Follows, Watched, Still
    <2> QED
      BY <2>4, <2>5, <2>6 DEF LifeIInv
  <1> QED
    BY <1>1, <1>2

\* What a snapshot of the configuration in memory leaves to do.
LEMMA GetAllServersStep ==
  ASSUME LifeIInv, NEW p \in {"boot", "watcher"}, GetAllServers(p)
  PROVE  LifeIInv'
  <1>0. /\ LifeTypes /\ LifeTypeOK /\ p \in Procs /\ proc[p] \in ProcStates
        /\ mem \in Configs /\ proc[p].pc = "all"
    BY Names, ProcTypes DEF LifeIInv, LifeTypes, LifeTypeOK, GetAllServers, In
  <1>1. Still
    BY DEF GetAllServers, Still, tail, configVars, tableVars
  <1>2. CASE p = "boot"
    <2> DEFINE on == {id \in Servers : mem[id].on}
               q == [proc[p] EXCEPT !.snap = mem, !.pc = "apply", !.todo = on]
    <2>1. on \in SUBSET Servers /\ \A i \in on : mem[i] \in Entries
      <3>1. \A i \in Servers : mem[i] \in Entries \cup {NoEntry}
        BY <1>0 DEF Configs
      <3> QED
        BY <3>1, EntryTypes
    <2>2. /\ q \in ProcStates /\ q.pc = "apply" /\ q.snap = mem /\ q.todo = on
          /\ q.cur = proc[p].cur
      BY <1>0, <2>1 DEF ProcStates
    <2>3. proc' = [proc EXCEPT ![p] = q]
      BY <1>2 DEF GetAllServers
    <2>4. \A id \in Servers : mem[id].on => id \in on
      OBVIOUS
    <2> HIDE DEF q, on
    <2>5. Turn(p, q)
      BY <1>0, <1>2, <2>1, <2>2, <2>3 DEF Turn, Holds, Committed, BootHolds, LifeTypes
    <2>6. \A id \in Servers : Keeps(p, q, id)
      BY <1>2, <2>2, <2>4, Names DEF Keeps, BootOwes
    <2> QED
      BY <1>0, <1>1, <2>5, <2>6, LookStep
  <1>3. CASE p = "watcher"
    <2> DEFINE q == [proc[p] EXCEPT !.snap = mem, !.pc = "table", !.todo = {}]
    <2>1. q \in ProcStates /\ q.pc = "table" /\ q.snap = mem
      BY <1>0 DEF ProcStates
    <2>2. proc' = [proc EXCEPT ![p] = q]
      BY <1>3, Names DEF GetAllServers
    <2> HIDE DEF q
    <2>3. Turn(p, q)
      BY <1>0, <1>3, <2>1, <2>2, PlainHolds, Names DEF Turn, Plain, Committed
    <2>4. \A id \in Servers : Keeps(p, q, id)
      BY <1>3, <2>1, Names DEF Keeps, ReloadOwes
    <2> QED
      BY <1>0, <1>1, <2>3, <2>4, LookStep
  <1> QED
    BY <1>2, <1>3

\* A copy of the table: what is to be stopped is in it, what is to be started is not.
LEMMA CopyTableStep ==
  ASSUME LifeIInv, CopyTable
  PROVE  LifeIInv'
  <1> DEFINE p == "watcher"
             off == {id \in Servers : Present(id) /\ ~proc[p].snap[id].on}
             q == [proc[p] EXCEPT !.cur = table, !.pc = "sweep", !.todo = off]
  <1>0. /\ LifeTypes /\ LifeTypeOK /\ p \in Procs /\ proc[p] \in ProcStates
        /\ table \in [Servers -> Listeners \cup {NoListener}]
        /\ proc[p].pc = "table"
    BY Names, ProcTypes DEF LifeIInv, LifeTypes, LifeTypeOK, CopyTable, In
  <1>1. off \in SUBSET Servers
        /\ \A id \in Servers : Present(id) /\ ~proc[p].snap[id].on => id \in off
    OBVIOUS
  <1>2. proc' = [proc EXCEPT ![p] = q] /\ Still
    BY DEF CopyTable, Still, tail, configVars, tableVars
  <1> HIDE DEF off
  <1>3. /\ q \in ProcStates /\ q.pc = "sweep" /\ q.cur = table /\ q.todo = off
        /\ q.snap = proc[p].snap
    BY <1>0, <1>1 DEF ProcStates
  <1> HIDE DEF q
  <1>4. Turn(p, q)
    BY <1>0, <1>2, <1>3, PlainHolds, Names DEF Turn, Plain, Committed
  <1>5. ASSUME NEW id \in Servers, ~Settled(id)
        PROVE  Keeps(p, q, id)
    <2>1. SUFFICES ASSUME proc[p].snap[id].on <=> mem[id].on
          PROVE  ReloadOwes(q, mem, id)
      BY <1>0, Names DEF Keeps, ReloadOwes
    <2>2. ~(Present(id) <=> mem[id].on)
      BY <1>5 DEF Settled
    <2>3. CASE mem[id].on
      BY <1>3, <2>1, <2>2, <2>3 DEF ReloadOwes, Present
    <2>4. CASE ~mem[id].on
      BY <1>1, <1>3, <2>1, <2>2, <2>4 DEF ReloadOwes, Present
    <2> QED
      BY <2>3, <2>4
  <1> QED
    BY <1>0, <1>2, <1>4, <1>5, LookStep

\* One server of the pass is done.
LEMMA ApplyTurn ==
  ASSUME LifeTypes, NEW p \in {"boot", "watcher"}, NEW id \in Servers,
         NEW pc \in {"sweep", "apply"}, ApplyPc(p, id, pc),
         p = "boot" => pc = "apply",
         pc = "apply" => proc[p].pc \in {"apply", "rebind"},
         pc = "sweep" => proc[p].pc = "sweep"
  PROVE  \E q : /\ Turn(p, q) /\ q.pc = pc /\ q.todo = proc[p].todo \ {id}
                /\ q.snap = proc[p].snap /\ q.cur = proc[p].cur
  <1> DEFINE q == [proc[p] EXCEPT !.todo = proc[p].todo \ {id}, !.pc = pc]
  <1>0. p \in Procs /\ proc[p] \in ProcStates /\ proc[p].todo \ {id} \in SUBSET Servers
    BY Names, ProcTypes DEF LifeTypes
  <1>1. /\ q \in ProcStates /\ q.pc = pc /\ q.todo = proc[p].todo \ {id}
        /\ q.snap = proc[p].snap /\ q.cur = proc[p].cur
    BY <1>0 DEF ProcStates
  <1>2. proc' = [proc EXCEPT ![p] = q]
    BY DEF ApplyPc
  <1> HIDE DEF q
  <1>3. Holds(q)
    BY <1>0, <1>1 DEF Holds, LifeTypes
  <1>4. p = "boot" => BootHolds(q)
    BY <1>1 DEF BootHolds, LifeTypes
  <1>5. Turn(p, q)
    BY <1>1, <1>2, <1>3, <1>4 DEF Turn, Committed
  <1> QED
    BY <1>1, <1>5

\* A pass settles the server it is at, or has found that it owes it nothing.
LEMMA PassStep ==
  ASSUME LifeIInv, NEW p \in Procs, NEW q, Turn(p, q), Effect, proc[p].pc \in Committed,
         NEW id \in Servers,
         Settled(id)' \/ (~Settled(id) /\ Keeps(p, q, id)),
         \A j \in Servers \ {id} : Settled(j)' <=> Settled(j),
         \A j \in Servers \ {id} : Keeps(p, q, j)
  PROVE  LifeIInv'
  <1>1. \A j \in Servers : Settled(j)' \/ (~Settled(j) /\ Keeps(p, q, j))
    OBVIOUS
  <1> QED
    BY <1>1, ProcStep

LEMMA SweepStep ==
  ASSUME LifeIInv, NEW id \in Servers, Sweep(id)
  PROVE  LifeIInv'
  <1> DEFINE p == "watcher"
  <1>0. LifeTypes /\ p \in Procs /\ proc[p].pc = "sweep" /\ proc[p].pc \in Committed
        /\ ApplyPc(p, id, "sweep") /\ UNCHANGED tail
    BY Names DEF LifeIInv, Sweep, In, Committed
  <1>1. PICK q : /\ Turn(p, q) /\ q.pc = "sweep" /\ q.todo = proc[p].todo \ {id}
                 /\ q.snap = proc[p].snap /\ q.cur = proc[p].cur
    BY <1>0, ApplyTurn, Names
  <1>2. \A j \in Servers \ {id} : Keeps(p, q, j)
    BY <1>0, <1>1, Names DEF Keeps, ReloadOwes
  <1>3. CASE StopListener(id)
    BY <1>0, <1>1, <1>2, <1>3, StopEffect, PassStep
  <1>4. CASE NotFound(id)
    <2>1. Still /\ ~Present(id)
      BY <1>0, <1>4, NotFoundStill
    <2>2. ~Settled(id) => mem[id].on
      BY <2>1 DEF Settled
    <2>3. ~Settled(id) => Keeps(p, q, id)
      BY <1>0, <1>1, <2>2, Names DEF Keeps, ReloadOwes
    <2> QED
      BY <1>0, <1>1, <1>2, <2>1, <2>3, LookStep
  <1> QED
    BY <1>3, <1>4 DEF Sweep

LEMMA SweepDoneStep ==
  ASSUME LifeIInv, SweepDone
  PROVE  LifeIInv'
  <1> DEFINE p == "watcher"
             on == {id \in Servers : proc[p].snap[id].on}
             q == [proc[p] EXCEPT !.pc = "apply", !.todo = on]
  <1>0. /\ LifeTypes /\ LifeTypeOK /\ p \in Procs /\ proc[p] \in ProcStates
        /\ proc[p].pc = "sweep" /\ proc[p].todo = {}
    BY Names, ProcTypes DEF LifeIInv, LifeTypes, SweepDone, In
  <1>1. /\ on \in SUBSET Servers
        /\ \A id \in Servers : proc[p].snap[id].on => id \in on
        /\ \A i \in on : proc[p].snap[i] \in Entries
    BY <1>0, EntryOn
  <1>2. proc' = [proc EXCEPT ![p] = q] /\ Still
    BY DEF SweepDone, Still, tail, configVars, tableVars
  <1> HIDE DEF on
  <1>3. /\ q \in ProcStates /\ q.pc = "apply" /\ q.todo = on
        /\ q.snap = proc[p].snap /\ q.cur = proc[p].cur
    BY <1>0, <1>1 DEF ProcStates
  <1> HIDE DEF q
  <1>4. Turn(p, q)
    BY <1>0, <1>1, <1>2, <1>3, Names DEF Turn, Holds, Committed
  <1>5. \A id \in Servers : Keeps(p, q, id)
    BY <1>0, <1>1, <1>3, Names DEF Keeps, ReloadOwes
  <1> QED
    BY <1>0, <1>2, <1>4, <1>5, LookStep

LEMMA ApplyStartStep ==
  ASSUME LifeIInv, NEW p \in {"boot", "watcher"}, NEW id \in Servers, ApplyStart(p, id)
  PROVE  LifeIInv'
  <1>0. LifeTypes /\ p \in Procs /\ proc[p].pc = "apply" /\ proc[p].pc \in Committed
        /\ ApplyPc(p, id, "apply") /\ UNCHANGED tail /\ id \in proc[p].todo
        /\ StartListener(id, proc[p].snap[id])
    BY Names DEF LifeIInv, ApplyStart, In, Committed
  <1>1. proc[p].snap[id] \in Entries
    BY <1>0 DEF LifeTypes, Holds
  <1>2. PICK q : /\ Turn(p, q) /\ q.pc = "apply" /\ q.todo = proc[p].todo \ {id}
                 /\ q.snap = proc[p].snap /\ q.cur = proc[p].cur
    BY <1>0, ApplyTurn
  <1>3. \A j \in Servers \ {id} : Keeps(p, q, j)
    BY <1>0, <1>2, Names DEF Keeps, ReloadOwes, BootOwes
  <1>4. /\ Effect
        /\ Settled(id)' \/ (Present(id) /\ ~Settled(id))
        /\ \A j \in Servers \ {id} : Settled(j)' <=> Settled(j)
    BY <1>0, <1>1, StartEffect
  <1>5. Present(id) /\ ~Settled(id) => Keeps(p, q, id)
    <2>1. Present(id) /\ ~Settled(id) => ~mem[id].on
      BY DEF Settled
    <2> QED
      BY <1>0, <2>1, Names DEF Keeps, ReloadOwes, BootOwes
  <1> QED
    BY <1>0, <1>2, <1>3, <1>4, <1>5, PassStep

LEMMA ApplyRestartStep ==
  ASSUME LifeIInv, NEW id \in Servers, ApplyRestart(id)
  PROVE  LifeIInv'
  <1> DEFINE p == "watcher"
  <1>0. /\ LifeTypes /\ p \in Procs /\ p # "boot"
        /\ proc[p].pc = "apply" /\ proc[p].pc \in Committed
        /\ proc[p] \in ProcStates
        /\ UNCHANGED tail /\ id \in proc[p].todo /\ proc[p].cur[id] # NoListener
    BY Names, ProcTypes DEF LifeIInv, LifeTypes, ApplyRestart, In, Committed
  <1>1. ASSUME NEW q, q.pc = "apply", q.todo = proc[p].todo \ {id},
               q.snap = proc[p].snap, q.cur = proc[p].cur
        PROVE  \A j \in Servers : Keeps(p, q, j)
    BY <1>0, <1>1, Names DEF Keeps, ReloadOwes
  <1>2. CASE StopListener(id) /\ ApplyPc(p, id, "apply")
    <2>1. PICK q : /\ Turn(p, q) /\ q.pc = "apply" /\ q.todo = proc[p].todo \ {id}
                   /\ q.snap = proc[p].snap /\ q.cur = proc[p].cur
      BY <1>0, <1>2, ApplyTurn
    <2> QED
      BY <1>0, <1>1, <1>2, <2>1, StopEffect, PassStep
  <1>3. CASE NotFound(id) /\ ApplyPc(p, id, "apply")
    <2>1. PICK q : /\ Turn(p, q) /\ q.pc = "apply" /\ q.todo = proc[p].todo \ {id}
                   /\ q.snap = proc[p].snap /\ q.cur = proc[p].cur
      BY <1>0, <1>3, ApplyTurn
    <2> QED
      BY <1>0, <1>1, <1>3, <2>1, NotFoundStill, LookStep
  <1>4. CASE /\ StopListener(id)
             /\ proc' = [proc EXCEPT ![p] = [proc[p] EXCEPT !.pc = "rebind", !.id = id]]
    <2> DEFINE q == [proc[p] EXCEPT !.pc = "rebind", !.id = id]
    <2>1. /\ q \in ProcStates /\ q.pc = "rebind" /\ q.id = id
          /\ q.todo = proc[p].todo /\ q.snap = proc[p].snap /\ q.cur = proc[p].cur
      BY <1>0 DEF ProcStates
    <2>2. proc' = [proc EXCEPT ![p] = q]
      BY <1>4
    <2> HIDE DEF q
    <2>3. Holds(q)
      BY <1>0, <2>1 DEF Holds, LifeTypes
    <2>4. Turn(p, q)
      BY <1>0, <2>1, <2>2, <2>3 DEF Turn
    <2>5. \A j \in Servers \ {id} : Keeps(p, q, j)
      BY <1>0, <2>1, Names DEF Keeps, ReloadOwes
    <2> QED
      BY <1>0, <1>4, <2>4, <2>5, StopEffect, PassStep
  <1> QED
    BY <1>2, <1>3, <1>4 DEF ApplyRestart

LEMMA ApplyRebindStep ==
  ASSUME LifeIInv, ApplyRebind
  PROVE  LifeIInv'
  <1> DEFINE p == "watcher"
             id == proc[p].id
  <1>0. /\ LifeTypes /\ p \in Procs /\ p # "boot"
        /\ proc[p].pc = "rebind" /\ proc[p].pc \in Committed
        /\ proc[p].id \in Servers
        /\ ApplyPc(p, proc[p].id, "apply") /\ UNCHANGED tail
        /\ StartListener(proc[p].id, proc[p].snap[proc[p].id])
    BY Names, ProcTypes DEF LifeIInv, LifeTypes, ApplyRebind, In, Committed
  <1>1. proc[p].snap[id] \in Entries
    BY <1>0 DEF LifeTypes, Holds
  <1>2. PICK q : /\ Turn(p, q) /\ q.pc = "apply" /\ q.todo = proc[p].todo \ {id}
                 /\ q.snap = proc[p].snap /\ q.cur = proc[p].cur
    BY <1>0, ApplyTurn
  <1>3. PICK i \in Servers : i = id
    BY <1>0
  <1>4. \A j \in Servers : Keeps(p, q, j)
    BY <1>0, <1>2, Names DEF Keeps, ReloadOwes
  <1>5. /\ Effect
        /\ Settled(i)' \/ (Present(i) /\ ~Settled(i))
        /\ \A j \in Servers \ {i} : Settled(j)' <=> Settled(j)
    BY <1>0, <1>1, <1>3, StartEffect
  <1> QED
    BY <1>0, <1>2, <1>4, <1>5, PassStep

LEMMA ApplyUpdateStep ==
  ASSUME LifeIInv, NEW id \in Servers, ApplyUpdate(id)
  PROVE  LifeIInv'
  <1> DEFINE p == "watcher"
  <1>0. /\ LifeTypes /\ p \in Procs /\ proc[p].pc = "apply"
        /\ ApplyPc(p, id, "apply") /\ proc[p].cur[id] # NoListener
    BY Names DEF LifeIInv, ApplyUpdate, In
  <1>1. PICK q : /\ Turn(p, q) /\ q.pc = "apply" /\ q.todo = proc[p].todo \ {id}
                 /\ q.snap = proc[p].snap /\ q.cur = proc[p].cur
    BY <1>0, ApplyTurn, Names
  <1>2. \A j \in Servers : Keeps(p, q, j)
    BY <1>0, <1>1, Names DEF Keeps, ReloadOwes
  <1>3. Still
    BY DEF ApplyUpdate, Still, tail, configVars, tableVars
  <1> QED
    BY <1>0, <1>1, <1>2, <1>3, LookStep

LEMMA ApplyDoneStep ==
  ASSUME LifeIInv, NEW p \in {"boot", "watcher"}, ApplyDone(p)
  PROVE  LifeIInv'
  <1>0. p \in Procs /\ proc[p].pc = "apply" /\ proc[p].todo = {} /\ Return(p)
    BY Names DEF ApplyDone, In
  <1>1. PICK q : Turn(p, q)
    BY <1>0, ReturnTurn
  <1>2. \A j \in Servers : Keeps(p, q, j)
    BY <1>0, Names DEF Keeps, ReloadOwes, BootOwes
  <1>3. Still
    BY DEF ApplyDone, Still, tail, configVars, tableVars
  <1> QED
    BY <1>0, <1>1, <1>2, <1>3, LookStep

LEMMA ReloadStepKeeps ==
  ASSUME LifeIInv, ReloadStep
  PROVE  LifeIInv'
  BY SeeEventStep, LoadFileStep, ReloadBeginsStep, CopyTableStep, SweepDoneStep,
     ApplyRebindStep, GetAllServersStep, ApplyDoneStep, ApplyStartStep, SweepStep,
     ApplyRestartStep, ApplyUpdateStep DEF ReloadStep

-----------------------------------------------------------------------------
(* Stop.                                                                   *)

LEMMA StopBeginsStep ==
  ASSUME LifeIInv, StopBegins
  PROVE  LifeIInv'
  <1>0. LifeTypes /\ LifeTypeOK /\ ghost \in Ghosts
    BY DEF LifeIInv, LifeTypes, LifeTypeOK
  <1>1. /\ UNCHANGED <<lload, mem, file, table, speeders, proc, faults>>
        /\ state' = "stopping" /\ watch' = "closed" /\ event' = FALSE
    BY DEF StopBegins, tableVars
  <1>2. PICK b \in BOOLEAN : b = \E p \in Procs : Checked(p)
    OBVIOUS
  <1>3. ghost' = [ghost EXCEPT !.late = b]
    BY <1>2 DEF StopBegins
  <1>4. /\ ghost' \in Ghosts /\ ghost'.late = b
        /\ ghost'.astray = ghost.astray /\ ghost'.unkilled = ghost.unkilled
        /\ ghost'.unsaved = ghost.unsaved /\ ghost'.edited = ghost.edited
    BY <1>0, <1>3 DEF Ghosts
  <1>5. LifeTypes'
    BY <1>0, <1>1, <1>4 DEF LifeTypes, LifeTypeOK, ValidConfig
  <1>6. NoOrphanProcess'
    BY <1>1, <1>4 DEF LifeIInv, NoOrphanProcess, Present
  <1>7. FileFollows'
    BY <1>1, <1>4 DEF LifeIInv, FileFollows
  <1>8. NoneAfterStop' /\ Follows'
    BY <1>1 DEF NoneAfterStop, Follows, Watched
  <1>9. StopBars'
    BY <1>1, <1>2, <1>4 DEF StopBars, Checked, In, Committed
  <1> QED
    BY <1>5, <1>6, <1>7, <1>8, <1>9 DEF LifeIInv

LEMMA StopListenersStep ==
  ASSUME LifeIInv, StopListeners
  PROVE  LifeIInv'
  <1>0. LifeTypes /\ LifeTypeOK /\ ghost \in Ghosts
        /\ NoTable \in [Servers -> Listeners \cup {NoListener}]
    BY DEF LifeIInv, LifeTypes, LifeTypeOK, NoTable
  <1>1. /\ UNCHANGED <<lload, mem, file, watch, event, proc>>
        /\ state = "stopping" /\ state' = "stopped" /\ table' = NoTable
    BY DEF StopListeners, configVars
  <1>2. faults' \in 0 .. lload.faults
    BY <1>0, FaultOrNot DEF StopListeners
  <1>3. /\ speeders' \in [Servers -> {0, 1}]
        /\ ghost' \in Ghosts /\ ghost'.late = ghost.late
        /\ ghost'.unsaved = ghost.unsaved /\ ghost'.edited = ghost.edited
        /\ \A id \in Servers \ ghost'.unkilled : speeders'[id] = 0
    <2>1. CASE speeders' = [id \in Servers |-> 0] /\ UNCHANGED ghost
      BY <1>0, <2>1
    <2>2. CASE \E id \in Servers :
                 /\ speeders' = [i \in Servers |-> IF i = id THEN 1 ELSE 0]
                 /\ ghost' = [ghost EXCEPT !.unkilled = ghost.unkilled \cup {id}]
      <3>1. PICK id \in Servers :
                 /\ speeders' = [i \in Servers |-> IF i = id THEN 1 ELSE 0]
                 /\ ghost' = [ghost EXCEPT !.unkilled = ghost.unkilled \cup {id}]
        BY <2>2
      <3>2. PICK U \in SUBSET Servers : U = ghost.unkilled \cup {id}
        BY <1>0 DEF Ghosts
      <3>3. ghost' = [ghost EXCEPT !.unkilled = U]
        BY <3>1, <3>2
      <3>4. /\ ghost' \in Ghosts /\ ghost'.late = ghost.late /\ ghost'.unkilled = U
            /\ ghost'.unsaved = ghost.unsaved /\ ghost'.edited = ghost.edited
        BY <1>0, <3>3 DEF Ghosts
      <3>5. id \in U
        BY <3>2
      <3> QED
        BY <3>1, <3>4, <3>5
    <2> QED
      BY <2>1, <2>2 DEF StopListeners
  <1>4. LifeTypes'
    BY <1>0, <1>1, <1>2, <1>3 DEF LifeTypes, LifeTypeOK, ValidConfig
  <1>5. NoOrphanProcess'
    BY <1>3 DEF NoOrphanProcess
  <1>6. FileFollows'
    BY <1>1, <1>3 DEF LifeIInv, FileFollows
  <1>7. NoneAfterStop' /\ Follows'
    BY <1>1 DEF NoneAfterStop, Follows, Watched
  <1>8. StopBars'
    BY <1>1, <1>3 DEF LifeIInv, StopBars
  <1> QED
    BY <1>4, <1>5, <1>6, <1>7, <1>8 DEF LifeIInv

-----------------------------------------------------------------------------
LEMMA LifeInits == LifeInit => LifeIInv
  <1> SUFFICES ASSUME LifeInit PROVE LifeIInv
    OBVIOUS
  <1>0. /\ lload \in LifeLoads /\ mem = lload.first /\ file = mem /\ mem \in Configs
        /\ lload.faults \in Nat
    BY LifeConstants DEF LifeInit
  <1>1. (CHOOSE i \in Servers : TRUE) \in Servers /\ NoConfig \in Configs
        /\ NoTable \in [Servers -> Listeners \cup {NoListener}]
    BY LifeConstants DEF NoConfig, Configs, NoTable
  <1>2. /\ Idle("all") \in ProcStates /\ Idle("all").pc = "all" /\ Idle("all").cur = NoTable
    BY <1>1 DEF Idle, ProcStates
  <1>3. /\ proc \in [Procs -> ProcStates]
        /\ proc["boot"] = Idle("all")
        /\ \A p \in Procs \ {"boot"} : proc[p] = Idle("idle")
    BY <1>2, IdleType, Names DEF LifeInit
  <1>4. \A p \in Procs : Holds(proc[p])
    BY <1>2, <1>3, IdleType, PlainHolds DEF Plain
  <1>5. BootHolds(proc["boot"])
    BY <1>2, <1>3 DEF BootHolds
  <1>6. ghost \in Ghosts
    BY DEF LifeInit, Ghosts
  <1>7. LifeTypeOK
    <2>1. \E l \in LifeLoads : lload \in {l, [l EXCEPT !.edits = {}]}
      <3>1. lload \in {lload, [lload EXCEPT !.edits = {}]}
        OBVIOUS
      <3> QED
        BY <1>0, <3>1
    <2>2. faults \in 0 .. lload.faults
      BY <1>0 DEF LifeInit
    <2>3. /\ table \in [Servers -> Listeners \cup {NoListener}]
          /\ \A id \in Servers : speeders[id] \in {0, 1}
          /\ state \in {"running", "stopping", "stopped"}
          /\ watch \in {"on", "deaf", "closed"} /\ event \in BOOLEAN
      BY <1>1 DEF LifeInit
    <2> QED
      BY <1>0, <1>3, <1>6, <2>1, <2>2, <2>3 DEF LifeTypeOK
  <1>8. LifeTypes
    BY <1>0, <1>4, <1>5, <1>7, FirstIsValid DEF LifeInit, LifeTypes
  <1>9. NoOrphanProcess /\ FileFollows /\ NoneAfterStop /\ StopBars
    BY <1>0 DEF LifeInit, NoOrphanProcess, FileFollows, NoneAfterStop, StopBars
  <1>10. Follows
    BY <1>2, <1>3, <1>7, EntryOn, Names
      DEF LifeInit, Follows, Settled, BootOwes, Present, NoTable
  <1> QED
    BY <1>8, <1>9, <1>10 DEF LifeIInv

LEMMA LifeStep ==
  ASSUME LifeIInv, [LifeNext]_lifeVars
  PROVE  LifeIInv'
  <1>1. CASE UNCHANGED lifeVars
    <2>1. LifeTypes'
      BY <1>1 DEF lifeVars, LifeIInv, LifeTypes, LifeTypeOK, ValidConfig
    <2>2. NoOrphanProcess' /\ FileFollows' /\ NoneAfterStop' /\ StopBars'
      BY <1>1 DEF lifeVars, LifeIInv, NoOrphanProcess, Present, FileFollows,
                  NoneAfterStop, StopBars
    <2>3. Follows'
      BY <1>1 DEF lifeVars, LifeIInv, Follows, Watched, Settled, Present
    <2> QED
      BY <2>1, <2>2, <2>3 DEF LifeIInv
  <1>2. CASE \E r \in Reqs, id \in Servers :
               \/ \E op \in {"create", "update"}, new \in Servers, e \in lload.sends :
                    RequestEntry(r, op, id, new, e)
               \/ \E op \in {"mark", "unmark"}, b \in Marks : RequestMark(r, op, id, b)
               \/ \E op \in {"delete", "start", "stop", "reload"} : RequestServer(r, op, id)
    BY <1>2, RequestEntryStep, RequestMarkStep, RequestServerStep
  <1> QED
    BY <1>1, <1>2, RequestStepKeeps, ReloadStepKeeps, EditFileStep, ListenFailsStep,
       StopBeginsStep, StopListenersStep DEF LifeNext

LEMMA LifeInvariance == LifeSpec => []LifeIInv
  <1>1. LifeIInv /\ [LifeNext]_lifeVars => LifeIInv'
    BY LifeStep
  <1> QED
    BY LifeInits, <1>1, PTL DEF LifeSpec

\* Listeners follow the entries, no udp_speeder is without its listener, the file follows
\* the memory and nothing is started after Stop, each but for the exceptions LifeInv names:
\* whatever requests, the watcher's Reload, Start, Stop and failures do in between.
THEOREM LifeHolds == LifeSpec => []LifeInv
  <1>1. LifeIInv => ListenersFollow
    <2> SUFFICES ASSUME LifeIInv, Quiet, Watched, NEW id \in Servers \ ghost.astray
                 PROVE  Present(id) <=> mem[id].on
      BY DEF ListenersFollow, Watched
    <2>1. ~BootOwes(proc["boot"], mem, id) /\ ~ReloadOwes(proc["watcher"], mem, id)
      BY Names DEF Quiet, In, BootOwes, ReloadOwes
    <2> QED
      BY <2>1 DEF LifeIInv, Follows, Quiet, Settled
  <1>2. LifeIInv => LifeInv
    BY <1>1 DEF LifeIInv, LifeTypes, LifeInv
  <1> QED
    BY LifeInvariance, <1>2, PTL

-----------------------------------------------------------------------------
\* A ban, or hidden, goes only with the request that lifts it, with the entry, or with a
\* copy that was made before it was set, and never by the way: not in the entry of another
\* server and not by a request that only starts or stops.
THEOREM MarksAreKept == LifeSpec => MarksKept
  <1> DEFINE Kept ==
        \A id \in Servers :
         (mem[id] # NoEntry /\ mem'[id] # NoEntry) =>
           \A b \in mem[id].marks \ mem'[id].marks :
             \/ \E r \in Reqs : /\ proc[r].pc \in {"begin", "write"} /\ proc'[r] # proc[r]
                                /\ \/ proc[r].op = "update"
                                   \/ proc[r].op = "unmark" /\ b \in proc[r].mark
                                   \/ b \notin proc[r].seen
             \/ In("watcher", "load")
  <1>0. UNCHANGED mem => Kept
    OBVIOUS
  <1>1. ASSUME LifeIInv, NEW r \in Reqs, NEW m, NEW next \in {"decide", "done"},
               Change(r, m, next)
        PROVE  mem' = m /\ (proc[r].pc \in {"begin", "write"} => proc'[r] # proc[r])
    <2>1. PICK q : Turn(r, q) /\ q.pc \in {"decide", "idle", "done"}
      BY <1>1, GotoTurn, ReturnTurn, Names DEF Change, Plain, Committed, LifeIInv
    <2>2. proc'[r].pc \in {"decide", "idle", "done"}
      BY <1>1, <2>1, TurnTypes, Names DEF LifeIInv
    <2> QED
      BY <1>1, <2>2 DEF Change
  <1>2. ASSUME LifeIInv, NEW r \in Reqs, RequestStep(r)
        PROVE  Kept
    <2>0. /\ mem \in [Servers -> Entries \cup {NoEntry}] /\ proc[r].id \in Servers
          /\ proc[r].new \in Servers
      BY <1>2, ProcTypes, Names DEF LifeIInv, LifeTypes, LifeTypeOK, Configs
    <2>1. CASE AddServer(r)
      <3>1. CASE /\ mem[proc[r].id] = NoEntry
                 /\ Change(r, [mem EXCEPT ![proc[r].id] = proc[r].e], "decide")
        <4>1. mem' = [mem EXCEPT ![proc[r].id] = proc[r].e]
          BY <1>1, <1>2, <3>1
        <4> QED
          BY <2>0, <3>1, <4>1
      <3> QED
        BY <1>0, <2>1, <3>1 DEF AddServer, Unchanged, configVars
    <2>2. CASE UpdateServer(r)
      <3>1. CASE Change(r, [mem EXCEPT ![proc[r].id] = NoEntry, ![proc[r].new] = proc[r].e],
                        "decide")
        <4>1. proc'[r] # proc[r] /\ proc[r].op = "update" /\ proc[r].pc = "begin"
          BY <1>1, <1>2, <2>2, <3>1 DEF UpdateServer, In
        <4> QED
          BY <4>1
      <3> QED
        BY <1>0, <2>2, <3>1 DEF UpdateServer, Unchanged, configVars
    <2>3. CASE DeleteServer(r)
      <3>1. CASE Change(r, [mem EXCEPT ![proc[r].id] = NoEntry], "done")
        <4>1. mem' = [mem EXCEPT ![proc[r].id] = NoEntry]
          BY <1>1, <1>2, <3>1
        <4> QED
          BY <2>0, <4>1
      <3> QED
        BY <1>0, <2>3, <3>1 DEF DeleteServer, Unchanged, configVars
    <2>4. CASE WriteBack(r)
      <3>1. CASE Change(r, [mem EXCEPT ![proc[r].id] = proc[r].e], "done")
        <4>1. /\ mem' = [mem EXCEPT ![proc[r].id] = proc[r].e]
              /\ proc'[r] # proc[r] /\ proc[r].pc = "write"
          BY <1>1, <1>2, <2>4, <3>1 DEF WriteBack, In
        <4>2. \A b \in proc[r].seen \ proc[r].e.marks :
                 proc[r].op = "unmark" /\ b \in proc[r].mark
          BY <1>2, <4>1, Names DEF LifeIInv, LifeTypes, Holds
        <4> QED
          BY <2>0, <4>1, <4>2
      <3> QED
        BY <1>0, <2>4, <3>1 DEF WriteBack, Unchanged, configVars
    <2>5. CASE GetServer(r)
      BY <1>0, <2>5 DEF GetServer, configVars
    <2>6. CASE \/ Decide(r) \/ StartServer(r) \/ StartCopy(r) \/ Bind(r) \/ DeleteLooks(r)
               \/ StopServer(r) \/ Unbind(r) \/ ReloadServer(r) \/ ReloadCopy(r)
               \/ ReloadLooks(r) \/ ReloadStops(r)
      <3>1. UNCHANGED tail
        BY <2>6 DEF Decide, StartServer, StartCopy, Bind, DeleteLooks, StopServer, Unbind,
                    ReloadServer, ReloadCopy, ReloadLooks, ReloadStops, Look
      <3> QED
        BY <1>0, <3>1 DEF tail, configVars
    <2> QED
      BY <1>2, <2>1, <2>2, <2>3, <2>4, <2>5, <2>6 DEF RequestStep
  <1>3. ASSUME ReloadStep
        PROVE  Kept
    <2>1. CASE LoadFile
      BY <2>1 DEF LoadFile
    <2>2. CASE ~LoadFile
      <3>1. UNCHANGED mem
        BY <1>3, <2>2 DEF ReloadStep, SeeEvent, ReloadBegins, CopyTable, SweepDone, ApplyRebind,
          GetAllServers, ApplyDone, ApplyStart, Sweep, ApplyRestart, ApplyUpdate, Look, tail,
          configVars
      <3> QED
        BY <1>0, <3>1, SMTT(30)
    <2> QED
      BY <2>1, <2>2
  <1>4. ASSUME LifeIInv, LifeNext
        PROVE  Kept
    <2>1. CASE \/ \E r \in Reqs, id \in Servers :
                    \/ \E op \in {"create", "update"}, new \in Servers, e \in lload.sends :
                         RequestEntry(r, op, id, new, e)
                    \/ \E op \in {"mark", "unmark"}, b \in Marks : RequestMark(r, op, id, b)
                    \/ \E op \in {"delete", "start", "stop", "reload"} :
                         RequestServer(r, op, id)
               \/ \E m \in lload.edits : EditFile(m)
               \/ \E id \in Servers : ListenFails(id)
               \/ StopBegins \/ StopListeners
      <3>1. UNCHANGED mem
        BY <2>1, ZenonT(60) DEF RequestEntry, RequestMark, RequestServer, Begin, EditFile, ListenFails,
                    StopBegins, StopListeners, tail, configVars
      <3> QED
        BY <1>0, <3>1
    <2> QED
      BY <1>2, <1>3, <1>4, <2>1, SMTT(30) DEF LifeNext
  <1>5. LifeIInv /\ [LifeNext]_lifeVars => [Kept]_lifeVars
    BY <1>4
  <1> QED
    BY LifeInvariance, <1>5, PTL DEF LifeSpec, MarksKept
-----------------------------------------------------------------------------
(* The proxy ports.                                                        *)

\* A listener in the table is open, except for the one that Stop waits for; a listener
\* that is open is in the table, under its own port.
TableHolds ==
    /\ \A id \in PortIds : ptable[id] # 0 =>
         /\ gen[ptable[id]] \in GenStates /\ gen[ptable[id]].id = id
         /\ gen[ptable[id]].st # "open" => pstop.pc = "wait" /\ pstop.g = ptable[id]
    /\ \A g \in Gens : gen[g].st = "open" => ptable[gen[g].id] = g
    /\ pstop.pc = "wait" => pstop.g \in Gens /\ gen[pstop.g].st = "closed"

\* A connection belongs to a listener that was made; if Stop has closed that one, Stop is
\* still waiting for it.
ConnHeld(rec) ==
    rec.pc \notin {"none", "closed"} =>
      /\ rec.g \in Gens /\ gen[rec.g] \in GenStates
      /\ gen[rec.g].st = "closed" => pstop.pc = "wait" /\ pstop.g = rec.g
      /\ rec.pc = "get" => rec.node \in Candidates
      /\ (rec.pc # "hello" /\ gen[rec.g].cfg.auth) => rec.shown \/ rec.proto = "socks4"

ConnsHeld == \A c \in PortConns : ConnHeld(pconn[c])

Reloading(S) == \E r \in PortReqs : preq[r] \in S

\* Unless a request is about to close the listeners, or something went astray since the
\* last reload, none is left from an older configuration.
NoneStale ==
    (pstop.pc = "no" /\ ~pghost.astray /\ ~Reloading({"reload", "stop"})) =>
      \A id \in PortIds : ptable[id] # 0 =>
        feature /\ Enabled(id) /\ gen[ptable[id]].cfg = ports[id]

\* Once the last request has started its listeners, those of all enabled ports are there.
AllStarted ==
    (pstop.pc = "no" /\ ~pghost.astray /\ ~Reloading({"reload", "stop", "start"})) =>
      \A id \in PortIds \ pghost.refused : (feature /\ Enabled(id)) => ptable[id] # 0

Dry == pstop.pc = "done" /\ ~pghost.left /\ ~pghost.again

\* After a Stop that left no connection behind nobody can dial.
StoppedDry ==
    Dry => /\ pool = {} /\ \A c \in PortConns : ~Handling(c)
           /\ \A id \in PortIds : ptable[id] = 0

PortsIInv ==
    /\ PortsTypeOK /\ AddrsUnique /\ TableHolds /\ ConnsHeld /\ NoneStale /\ AllStarted
    /\ StoppedDry

PortGhosts ==
    [refused : SUBSET PortIds, faults : 0 .. pload.faults, left : BOOLEAN, again : BOOLEAN,
     astray : BOOLEAN]

ReqStates == {"idle", "store", "write", "reload", "stop", "start", "done"}

LEMMA PortTypes ==
  /\ \A x \in PortCfgs : /\ x # NoPort /\ x.on \in BOOLEAN /\ x.addr \in PortAddrs
                         /\ x.auth \in BOOLEAN /\ x.type \in Types /\ x.direct \in BOOLEAN
  /\ NoPort.on = FALSE
  BY DEF PortCfgs, NoPort, Types

LEMMA GenTypes ==
  /\ \A x \in GenStates : /\ x # NoGen /\ x.st \in {"open", "replaced", "closed"}
                          /\ x.id \in PortIds /\ x.cfg \in PortCfgs /\ x.loop \in BOOLEAN
  /\ NoGen.st = "none"
  /\ \A g \in Gens : g \in Nat /\ g # 0 /\ g \in 0 .. MaxGen
  /\ \A g \in 0 .. MaxGen : g # 0 => g \in Gens
  <1>1. \A x \in GenStates : /\ x.st \in {"open", "replaced", "closed"}
                             /\ x.id \in PortIds /\ x.cfg \in PortCfgs /\ x.loop \in BOOLEAN
    BY DEF GenStates
  <1>2. NoGen.st = "none"
    BY DEF NoGen
  <1>3. MaxGen \in Nat
    BY PortConstants
  <1> QED
    BY <1>1, <1>2, <1>3 DEF Gens

\* The properties of the run are parts of the inductive invariant or follow from it.
LEMMA PortsInvHolds == PortsIInv => PortsInv
  <1> SUFFICES ASSUME PortsIInv PROVE PortsInv
    OBVIOUS
  <1>1. PortsFollow
    BY GenTypes DEF PortsIInv, PortsFollow, NoneStale, AllStarted, Reloading, TableHolds,
      PortsTypeOK
  <1>2. AuthFirst
    BY DEF PortsIInv, AuthFirst, ConnsHeld, ConnHeld, cfgOf
  <1>3. DialersClosed
    BY DEF PortsIInv, DialersClosed, StoppedDry, Dry
  <1> QED
    BY <1>1, <1>2, <1>3 DEF PortsInv, PortsIInv

\* One connection moves on: what its new record owes to the rest.
LEMMA ConnTurn ==
  ASSUME PortsIInv, NEW c \in PortConns, NEW rec \in ConnRecs,
         UNCHANGED <<ctl, gen>>, pconn' = [pconn EXCEPT ![c] = rec],
         pool' \subseteq PortNodes, ConnHeld(rec),
         Dry => rec.pc \in {"none", "closed"} /\ pool' = pool
  PROVE  PortsIInv'
  <1>0. /\ PortsTypeOK /\ pconn \in [PortConns -> ConnRecs]
        /\ pconn' \in [PortConns -> ConnRecs]
        /\ \A d \in PortConns : pconn'[d] = IF d = c THEN rec ELSE pconn[d]
    BY DEF PortsIInv, PortsTypeOK
  <1>1. PortsTypeOK'
    BY <1>0 DEF PortsTypeOK, ctl
  <1>2. AddrsUnique' /\ TableHolds' /\ NoneStale' /\ AllStarted'
    BY DEF PortsIInv, AddrsUnique, Distinct, TableHolds, NoneStale, AllStarted, Reloading,
      Enabled, ctl
  <1>3. ConnsHeld'
    BY <1>0 DEF PortsIInv, ConnsHeld, ConnHeld, ctl
  <1>4. StoppedDry'
    BY <1>0 DEF PortsIInv, StoppedDry, Dry, Handling, ctl
  <1> QED
    BY <1>1, <1>2, <1>3, <1>4 DEF PortsIInv

LEMMA ConnTypes ==
  ASSUME PortsIInv, NEW c \in PortConns
  PROVE  /\ pconn[c] \in ConnRecs /\ pool \subseteq PortNodes
         /\ pconn[c].g \in 0 .. MaxGen /\ pconn[c].tried \in SUBSET Candidates
         /\ pconn[c].node \in Candidates \cup {"none"}
         /\ ConnHeld(pconn[c])
         /\ Handling(c) => ~Dry
         /\ [NoConn EXCEPT !.pc = "closed"] \in ConnRecs
         /\ [NoConn EXCEPT !.pc = "closed"].pc = "closed"
  <1>1. pconn[c] \in ConnRecs /\ pool \subseteq PortNodes /\ 0 \in 0 .. MaxGen
    BY PortConstants DEF PortsIInv, PortsTypeOK
  <1> QED
    BY <1>1 DEF ConnRecs, NoConn, PortsIInv, ConnsHeld, StoppedDry

\* A connection that ends.
LEMMA ConnDone ==
  ASSUME PortsIInv, NEW c \in PortConns, Done(c), UNCHANGED <<ctl, gen, pool>>
  PROVE  PortsIInv'
  <1> DEFINE rec == [NoConn EXCEPT !.pc = "closed"]
  <1>1. rec \in ConnRecs /\ rec.pc = "closed" /\ pool' \subseteq PortNodes
    BY ConnTypes
  <1>2. pconn' = [pconn EXCEPT ![c] = rec]
    BY DEF Done, GotoConn
  <1> HIDE DEF rec
  <1>3. ConnHeld(rec)
    BY <1>1 DEF ConnHeld
  <1> QED
    BY <1>1, <1>2, <1>3, ConnTurn

\* A connection that stays with its listener and has shown there what it had to show.
LEMMA ConnGoes ==
  ASSUME PortsIInv, NEW c \in PortConns, Handling(c), NEW rec \in ConnRecs,
         GotoConn(c, rec), UNCHANGED <<ctl, gen>>, pool' \subseteq PortNodes,
         rec.g = pconn[c].g, rec.pc = "get" => rec.node \in Candidates,
         rec.pc \in {"none", "closed", "hello"} \/ (~cfgOf(c).auth \/ rec.shown \/ rec.proto = "socks4")
  PROVE  PortsIInv'
  <1>1. ConnHeld(pconn[c]) /\ ~Dry
    BY ConnTypes
  <1>2. ConnHeld(rec)
    BY <1>1 DEF ConnHeld, Handling, cfgOf
  <1> QED
    BY <1>1, <1>2, ConnTurn DEF GotoConn

LEMMA AcceptConnStep ==
  ASSUME PortsIInv, NEW c \in PortConns, NEW g \in Gens, AcceptConn(c, g)
  PROVE  PortsIInv'
  <1>1. CASE Done(c)
    BY <1>1, ConnDone DEF AcceptConn
  <1>2. CASE GotoConn(c, [NoConn EXCEPT !.pc = "hello", !.g = g])
    <2> DEFINE rec == [NoConn EXCEPT !.pc = "hello", !.g = g]
    <2>1. g \in 0 .. MaxGen /\ pool' \subseteq PortNodes
      BY GenTypes, ConnTypes DEF AcceptConn
    <2>2. rec \in ConnRecs /\ rec.pc = "hello" /\ rec.g = g
      BY <2>1 DEF ConnRecs, NoConn
    <2>3. pconn' = [pconn EXCEPT ![c] = rec]
      BY <1>2 DEF GotoConn
    <2> HIDE DEF rec
    <2>4. gen[g].st = "open" /\ UNCHANGED <<ctl, gen>> /\ pool' = pool
      BY DEF AcceptConn
    <2>5. gen[g] \in GenStates /\ gen[g].id \in PortIds /\ ptable[gen[g].id] # 0
      BY <2>4, GenTypes DEF PortsIInv, PortsTypeOK, TableHolds
    <2>6. ConnHeld(rec) /\ ~Dry
      BY <2>2, <2>4, <2>5 DEF ConnHeld, PortsIInv, StoppedDry
    <2> QED
      BY <2>1, <2>2, <2>3, <2>4, <2>6, ConnTurn
  <1> QED
    BY <1>1, <1>2 DEF AcceptConn

LEMMA HelloStep ==
  ASSUME PortsIInv, NEW c \in PortConns,
         NEW p \in {"http", "connect", "socks5", "socks4"}, NEW knows \in BOOLEAN,
         Hello(c, p, knows)
  PROVE  PortsIInv'
  <1>0. Handling(c) /\ UNCHANGED <<ctl, gen, pool>> /\ pconn[c] \in ConnRecs
        /\ pool' \subseteq PortNodes
    BY ConnTypes DEF Hello, Handling
  <1>1. CASE cfgOf(c).auth /\ ~knows /\ p # "socks4"
    BY <1>0, <1>1, ConnDone DEF Hello
  <1>2. CASE ~(cfgOf(c).auth /\ ~knows /\ p # "socks4")
    <2> DEFINE rec == [pconn[c] EXCEPT !.pc = "dial", !.proto = p, !.tried = {}, !.shown = knows]
    <2>1. rec \in ConnRecs /\ rec.pc = "dial" /\ rec.g = pconn[c].g /\ rec.proto = p
          /\ rec.shown = knows
      BY <1>0 DEF ConnRecs
    <2>2. GotoConn(c, rec)
      BY <1>2 DEF Hello
    <2> HIDE DEF rec
    <2>3. ~cfgOf(c).auth \/ rec.shown \/ rec.proto = "socks4"
      BY <1>2, <2>1
    <2> QED
      BY <1>0, <2>1, <2>2, <2>3, ConnGoes
  <1> QED
    BY <1>1, <1>2

\* A connection past its handshake has shown the password, or was never asked.
LEMMA Shown ==
  ASSUME PortsIInv, NEW c \in PortConns, pconn[c].pc \in {"dial", "get", "relay"}
  PROVE  /\ Handling(c) /\ (~cfgOf(c).auth \/ pconn[c].shown \/ pconn[c].proto = "socks4")
  BY ConnTypes DEF Handling, ConnHeld, cfgOf

\* The steps of a connection that already deals with its client.
LEMMA ConnStepHolds ==
  ASSUME PortsIInv, NEW c \in PortConns, ConnStep(c) \/ HTTPAgain(c) \/ RelayDone(c)
  PROVE  PortsIInv'
  <1>0. pconn[c] \in ConnRecs /\ pool \subseteq PortNodes
        /\ pconn[c].g \in 0 .. MaxGen /\ pconn[c].tried \in SUBSET Candidates
        /\ pconn[c].node \in Candidates \cup {"none"}
    BY ConnTypes
  <1>1. CASE HelloEnds(c) \/ RelayDone(c)
    BY <1>1, ConnDone DEF HelloEnds, RelayDone
  <1>2. CASE DialDirect(c)
    <2> DEFINE rec == [pconn[c] EXCEPT !.pc = "relay", !.node = "direct"]
    <2>0. UNCHANGED <<ctl, gen, pool>> /\ pconn[c].pc = "dial"
      BY <1>2 DEF DialDirect
    <2>1. CASE Done(c)
      BY <2>0, <2>1, ConnDone
    <2>2. CASE GotoConn(c, rec)
      <3>1. /\ rec \in ConnRecs /\ rec.pc = "relay" /\ rec.g = pconn[c].g
            /\ rec.shown = pconn[c].shown /\ rec.proto = pconn[c].proto
        BY <1>0 DEF ConnRecs, Candidates
      <3> HIDE DEF rec
      <3> QED
        BY <1>0, <2>0, <2>2, <3>1, Shown, ConnGoes
    <2> QED
      BY <1>2, <2>1, <2>2 DEF DialDirect
  <1>3. CASE DialSelects(c)
    <2>0. UNCHANGED <<ctl, gen, pool>> /\ pconn[c].pc = "dial"
      BY <1>3 DEF DialSelects
    <2>1. CASE Done(c)
      BY <2>0, <2>1, ConnDone
    <2>2. ASSUME NEW n \in Candidates, GotoConn(c, [pconn[c] EXCEPT !.pc = "get", !.node = n])
          PROVE  PortsIInv'
      <3> DEFINE rec == [pconn[c] EXCEPT !.pc = "get", !.node = n]
      <3>1. /\ rec \in ConnRecs /\ rec.pc = "get" /\ rec.g = pconn[c].g /\ rec.node = n
            /\ rec.shown = pconn[c].shown /\ rec.proto = pconn[c].proto
        BY <1>0 DEF ConnRecs
      <3>2. GotoConn(c, rec)
        BY <2>2
      <3> HIDE DEF rec
      <3> QED
        BY <1>0, <2>0, <3>1, <3>2, Shown, ConnGoes
    <2> QED
      BY <1>3, <2>1, <2>2 DEF DialSelects
  <1>4. CASE PoolGet(c)
    <2> DEFINE goes == [pconn[c] EXCEPT !.pc = "relay"]
               again == [pconn[c] EXCEPT !.pc = "dial", !.tried = pconn[c].tried \cup {pconn[c].node},
                                         !.node = "none"]
    <2>0. /\ UNCHANGED <<ctl, gen>> /\ pconn[c].pc = "get"
          /\ pool' \in {pool, pool \cup ({pconn[c].node} \ {"direct"})}
          /\ GotoConn(c, goes) \/ GotoConn(c, again)
      BY <1>4 DEF PoolGet, Retry
    <2>1. pconn[c].node \in Candidates
      BY <1>0, <2>0, ConnTypes DEF ConnHeld
    <2>2. pool' \subseteq PortNodes
      BY <1>0, <2>0, <2>1 DEF Candidates
    <2>3. /\ goes \in ConnRecs /\ goes.pc = "relay" /\ goes.g = pconn[c].g
          /\ goes.shown = pconn[c].shown /\ goes.proto = pconn[c].proto
      BY <1>0 DEF ConnRecs
    <2>4. /\ again \in ConnRecs /\ again.pc = "dial" /\ again.g = pconn[c].g
          /\ again.shown = pconn[c].shown /\ again.proto = pconn[c].proto
      BY <1>0, <2>1 DEF ConnRecs
    <2> HIDE DEF goes, again
    <2>5. CASE GotoConn(c, goes)
      BY <2>0, <2>2, <2>3, <2>5, Shown, ConnGoes
    <2>6. CASE GotoConn(c, again)
      BY <2>0, <2>2, <2>4, <2>6, Shown, ConnGoes
    <2> QED
      BY <2>0, <2>5, <2>6
  <1>5. CASE HTTPAgain(c)
    <2> DEFINE rec == [NoConn EXCEPT !.pc = "hello", !.g = pconn[c].g]
    <2>1. rec \in ConnRecs /\ rec.pc = "hello" /\ rec.g = pconn[c].g
      BY <1>0 DEF ConnRecs, NoConn
    <2>2. GotoConn(c, rec) /\ UNCHANGED <<ctl, gen, pool>> /\ Handling(c)
      BY <1>5 DEF HTTPAgain, Handling
    <2> HIDE DEF rec
    <2> QED
      BY <1>0, <2>1, <2>2, ConnGoes
  <1> QED
    BY <1>1, <1>2, <1>3, <1>4, <1>5 DEF ConnStep

-----------------------------------------------------------------------------
(* The requests.                                                           *)

\* What a request owes to the invariant when it leaves the listeners alone: that a reload
\* is still to come, or that it is known to have gone astray.
LEMMA RequestTurn ==
  ASSUME PortsIInv, PortsTypeOK', Distinct(ports'), UNCHANGED <<ptable, gen, connVars, pstop>>,
         pghost'.left = pghost.left, pghost'.again = pghost.again,
         \/ pghost'.astray
         \/ \E r \in PortReqs : preq'[r] = "reload"
         \/ /\ UNCHANGED <<ports, feature>> /\ pghost'.refused = pghost.refused
            /\ pghost'.astray = pghost.astray
            /\ \A r \in PortReqs : preq[r] \in {"reload", "stop", "start"} => preq'[r] = preq[r]
         \/ \E r \in PortReqs : preq'[r] = "stop"
  PROVE  PortsIInv'
  <1>1. AddrsUnique'
    BY DEF AddrsUnique, Distinct
  <1>2. TableHolds' /\ ConnsHeld' /\ StoppedDry'
    BY DEF PortsIInv, TableHolds, ConnsHeld, ConnHeld, StoppedDry, Dry, Handling, connVars
  <1>3. NoneStale' /\ AllStarted'
    BY DEF PortsIInv, NoneStale, AllStarted, Reloading, Enabled
  <1> QED
    BY <1>1, <1>2, <1>3 DEF PortsIInv

LEMMA ReqTypes ==
  ASSUME PortsIInv
  PROVE  /\ preq \in [PortReqs -> ReqStates] /\ pghost \in PortGhosts /\ pload.faults \in Nat
         /\ pghost.faults \in 0 .. pload.faults /\ feature \in BOOLEAN
         /\ pheld \in [PortReqs -> BOOLEAN] /\ Distinct(ports)
         /\ \A r \in PortReqs : pheld[r] \in BOOLEAN
  BY PortConstants DEF PortsIInv, PortsTypeOK, PortGhosts, ReqStates, AddrsUnique

LEMMA ChangedStep ==
  ASSUME PortsIInv, NEW r \in PortReqs, NEW m \in PortConfigs, Distinct(m), Changed(r, m)
  PROVE  PortsIInv'
  <1>0. /\ ports' = m /\ UNCHANGED <<pload, feature, pheld, ptable, gen, connVars, pstop>>
    BY DEF Changed
  <1>1. CASE pfile' = m /\ preq' = [preq EXCEPT ![r] = "reload"] /\ UNCHANGED pghost
    <2>1. PortsTypeOK'
      BY <1>0, <1>1 DEF PortsIInv, PortsTypeOK, connVars
    <2>2. preq'[r] = "reload"
      BY <1>1, ReqTypes
    <2> QED
      BY <1>0, <1>1, <2>1, <2>2, RequestTurn
  <1>2. CASE /\ pghost.faults < pload.faults /\ preq' = [preq EXCEPT ![r] = "done"]
             /\ pghost' = [pghost EXCEPT !.faults = @ + 1, !.astray = TRUE]
             /\ UNCHANGED pfile
    <2>1. PICK n \in 0 .. pload.faults : n = pghost.faults + 1
      BY <1>2, ReqTypes
    <2>2. pghost' = [pghost EXCEPT !.faults = n, !.astray = TRUE]
      BY <1>2, <2>1
    <2>3. /\ pghost' \in PortGhosts /\ pghost'.astray /\ pghost'.left = pghost.left
          /\ pghost'.again = pghost.again
      BY <2>2, ReqTypes DEF PortGhosts
    <2>4. PortsTypeOK'
      BY <1>0, <1>2, <2>3 DEF PortsIInv, PortsTypeOK, PortGhosts, connVars
    <2> QED
      BY <1>0, <2>3, <2>4, RequestTurn
  <1> QED
    BY <1>1, <1>2 DEF Changed

\* Requests that read or write the flag, or only reload.
LEMMA FlagStep ==
  ASSUME PortsIInv, NEW r \in PortReqs,
         \/ OutboundChanged(r) \/ StoreConfig(r) \/ ReadFlag(r)
         \/ \E on \in BOOLEAN : CopyConfig(r, on)
  PROVE  PortsIInv'
  <1>1. CASE OutboundChanged(r)
    <2>1. PortsTypeOK' /\ preq'[r] = "reload"
      BY <1>1 DEF PortsIInv, PortsTypeOK, OutboundChanged, connVars
    <2> QED
      BY <1>1, <2>1, ReqTypes, RequestTurn DEF OutboundChanged
  <1>2. ASSUME NEW on \in BOOLEAN, CopyConfig(r, on)
        PROVE  PortsIInv'
    <2>1. /\ UNCHANGED <<pload, ports, pfile, feature, ptable, gen, connVars, pstop, pghost>>
          /\ preq[r] = "idle"
          /\ \E pc \in {"store", "write"} : preq' = [preq EXCEPT ![r] = pc]
          /\ \E b \in BOOLEAN : pheld' = [pheld EXCEPT ![r] = b]
      BY <1>2, ReqTypes DEF CopyConfig, Begins
    <2>2. PortsTypeOK'
      BY <2>1 DEF PortsIInv, PortsTypeOK, connVars
    <2>3. \A q \in PortReqs : preq[q] \in {"reload", "stop", "start"} => preq'[q] = preq[q]
      BY <2>1, ReqTypes
    <2> QED
      BY <2>1, <2>2, <2>3, ReqTypes, RequestTurn
  <1>3. CASE StoreConfig(r)
    <2>1. PICK b \in BOOLEAN : b = (pghost.astray \/ (preq[r] = "write" /\ pheld[r] # feature))
      OBVIOUS
    <2>2. /\ pghost' = [pghost EXCEPT !.astray = b] /\ feature' = pheld[r]
          /\ preq[r] \in {"store", "write"}
          /\ preq' = [preq EXCEPT ![r] = IF preq[r] = "store" THEN "reload" ELSE "done"]
          /\ UNCHANGED <<pload, ports, pfile, pheld, ptable, gen, connVars, pstop>>
      BY <1>3, <2>1 DEF StoreConfig
    <2>3. /\ pghost' \in PortGhosts /\ pghost'.astray = b /\ pghost'.left = pghost.left
          /\ pghost'.again = pghost.again /\ pghost'.refused = pghost.refused
      BY <2>2, ReqTypes DEF PortGhosts
    <2>4. preq' \in [PortReqs -> ReqStates] /\ feature' \in BOOLEAN
      BY <2>2, ReqTypes DEF ReqStates
    <2>5. PortsTypeOK'
      BY <2>2, <2>3, <2>4 DEF PortsIInv, PortsTypeOK, PortGhosts, ReqStates, connVars
    <2>6. CASE preq[r] = "store"
      <3>1. preq'[r] = "reload"
        BY <2>2, <2>6, ReqTypes
      <3> QED
        BY <2>2, <2>3, <2>5, <3>1, ReqTypes, RequestTurn
    <2>7. CASE preq[r] = "write" /\ ~b
      <3>1. feature' = feature /\ pghost'.astray = pghost.astray
        BY <2>1, <2>2, <2>3, <2>7, ReqTypes DEF PortGhosts
      <3>2. \A q \in PortReqs : preq[q] \in {"reload", "stop", "start"} => preq'[q] = preq[q]
        BY <2>2, <2>7, ReqTypes
      <3> QED
        BY <2>2, <2>3, <2>5, <3>1, <3>2, ReqTypes, RequestTurn
    <2>8. CASE b
      BY <2>2, <2>3, <2>5, <2>8, ReqTypes, RequestTurn
    <2> QED
      BY <2>2, <2>6, <2>7, <2>8
  <1>4. CASE ReadFlag(r)
    <2>1. PortsTypeOK' /\ preq'[r] = "stop"
      BY <1>4 DEF PortsIInv, PortsTypeOK, ReadFlag, connVars
    <2> QED
      BY <1>4, <2>1, ReqTypes, RequestTurn DEF ReadFlag
  <1> QED
    BY <1>1, <1>2, <1>3, <1>4

\* A request that changes the configuration leaves it with an address for each port.
LEMMA PortRequestStep ==
  ASSUME PortsIInv, NEW r \in PortReqs, NEW id \in PortIds,
         \/ DeletePort(r, id)
         \/ \E cfg \in pload.sends :
              \/ CreatePort(r, id, cfg) \/ LoadPorts(r, id, cfg)
              \/ \E new \in PortIds : UpdatePort(r, id, new, cfg)
              \/ \E j \in PortIds, d \in pload.sends : AddPorts(r, id, j, cfg, d)
  PROVE  PortsIInv'
  <1>0. /\ ports \in [PortIds -> PortCfgs \cup {NoPort}] /\ Distinct(ports)
        /\ pload.sends \subseteq PortCfgs
    BY PortConstants DEF PortsIInv, PortsTypeOK, AddrsUnique, PortConfigs
  <1>1. CASE DeletePort(r, id)
    <2> DEFINE m == [ports EXCEPT ![id] = NoPort]
    <2>1. m \in PortConfigs /\ Distinct(m)
      BY <1>0 DEF PortConfigs, Distinct
    <2>2. Changed(r, m)
      BY <1>1 DEF DeletePort
    <2> QED
      BY <2>1, <2>2, ChangedStep
  <1>2. ASSUME NEW cfg \in PortCfgs, CreatePort(r, id, cfg)
        PROVE  PortsIInv'
    <2> DEFINE m == [ports EXCEPT ![id] = cfg]
    <2>1. m \in PortConfigs /\ Distinct(m)
      BY <1>0, <1>2 DEF PortConfigs, Distinct, CreatePort, Unique
    <2>2. Changed(r, m)
      BY <1>2 DEF CreatePort
    <2> QED
      BY <2>1, <2>2, ChangedStep
  <1>5. ASSUME NEW cfg \in PortCfgs, LoadPorts(r, id, cfg)
        PROVE  PortsIInv'
    <2> DEFINE m == [pfile EXCEPT ![id] = cfg]
    <2>1. m \in PortConfigs
      BY DEF PortsIInv, PortsTypeOK, PortConfigs
    <2>2. /\ Distinct(m) /\ ports' = m /\ pfile' = m /\ preq' = [preq EXCEPT ![r] = "reload"]
          /\ UNCHANGED <<pload, feature, pheld, ptable, gen, connVars, pstop, pghost>>
      BY <1>5 DEF LoadPorts
    <2> HIDE DEF m
    <2>3. PortsTypeOK' /\ preq'[r] = "reload" /\ Distinct(ports')
      BY <2>1, <2>2 DEF PortsIInv, PortsTypeOK, connVars, Distinct
    <2> QED
      BY <2>2, <2>3, RequestTurn
  <1>3. ASSUME NEW cfg \in PortCfgs, NEW new \in PortIds, UpdatePort(r, id, new, cfg)
        PROVE  PortsIInv'
    <2> DEFINE m == [ports EXCEPT ![id] = NoPort, ![new] = cfg]
    <2>1. m \in PortConfigs
      BY <1>0 DEF PortConfigs
    <2>2. \A i \in PortIds : m[i] = IF i = new THEN cfg ELSE IF i = id THEN NoPort ELSE ports[i]
      BY <1>0
    <2>3. Changed(r, m) /\ Unique(cfg, PortIds \ {id})
      BY <1>3 DEF UpdatePort
    <2> HIDE DEF m
    <2>4. Distinct(m)
      BY <1>0, <2>2, <2>3 DEF Distinct, Unique
    <2> QED
      BY <2>1, <2>3, <2>4, ChangedStep
  <1>4. ASSUME NEW cfg \in PortCfgs, NEW j \in PortIds, NEW d \in PortCfgs,
               AddPorts(r, id, j, cfg, d)
        PROVE  PortsIInv'
    <2> DEFINE m == [ports EXCEPT ![id] = cfg, ![j] = d]
    <2>1. m \in PortConfigs
      BY <1>0 DEF PortConfigs
    <2>2. \A i \in PortIds : m[i] = IF i = j THEN d ELSE IF i = id THEN cfg ELSE ports[i]
      BY <1>0
    <2>3. /\ Changed(r, m) /\ Unique(cfg, PortIds) /\ Unique(d, PortIds)
          /\ cfg.addr # d.addr
      BY <1>4 DEF AddPorts
    <2> HIDE DEF m
    <2>4. Distinct(m)
      BY <1>0, <2>2, <2>3 DEF Distinct, Unique
    <2> QED
      BY <2>1, <2>3, <2>4, ChangedStep
  <1> QED
    BY <1>0, <1>1, <1>2, <1>3, <1>4, <1>5

-----------------------------------------------------------------------------
(* Reload, Start, Stop.                                                    *)

LEMMA TableTypes ==
  ASSUME PortsIInv
  PROVE  /\ ptable \in [PortIds -> 0 .. MaxGen] /\ gen \in [Gens -> GenStates \cup {NoGen}]
         /\ \A id \in PortIds : ptable[id] # 0 => ptable[id] \in Gens
         /\ 0 \in 0 .. MaxGen
  BY GenTypes, PortConstants DEF PortsIInv, PortsTypeOK

LEMMA ClosedTypes ==
  ASSUME NEW x \in GenStates, NEW st \in {"open", "replaced", "closed"}
  PROVE  /\ [x EXCEPT !.st = st] \in GenStates /\ [x EXCEPT !.st = st].st = st
         /\ [x EXCEPT !.st = st].id = x.id /\ [x EXCEPT !.st = st].cfg = x.cfg
         /\ [x EXCEPT !.loop = FALSE] \in GenStates /\ [x EXCEPT !.loop = FALSE].st = x.st
         /\ [x EXCEPT !.loop = FALSE].id = x.id /\ [x EXCEPT !.loop = FALSE].cfg = x.cfg
  BY DEF GenStates

\* All listeners of the table are closed at once; no listener outside it is open.
LEMMA PortsReloadStep ==
  ASSUME PortsIInv, NEW r \in PortReqs, ReloadPortsStops(r)
  PROVE  PortsIInv'
  <1>0. /\ ptable' = [id \in PortIds |-> 0] /\ Free
        /\ preq' = [preq EXCEPT ![r] = "start"]
        /\ pghost' = [pghost EXCEPT !.astray = FALSE]
        /\ UNCHANGED <<pload, ports, pfile, feature, pheld, connVars, pstop>>
    BY DEF ReloadPortsStops
  <1>10. /\ pghost' \in PortGhosts /\ pghost'.left = pghost.left /\ pghost'.again = pghost.again
    BY <1>0, ReqTypes DEF PortGhosts
  <1>1. \A g \in Gens :
          \/ /\ gen[g] \in GenStates /\ gen'[g] = [gen[g] EXCEPT !.st = "replaced"]
          \/ /\ \A id \in PortIds : ptable[id] # g
             /\ gen'[g] = gen[g]
    BY GenTypes DEF ReloadPortsStops, ClosedGen, PortsIInv, TableHolds
  <1>2. \A g \in Gens :
          /\ gen'[g] \in GenStates \cup {NoGen}
          /\ gen[g] \in GenStates => gen'[g] \in GenStates /\ gen'[g].cfg = gen[g].cfg
          /\ gen'[g].st # "open"
          /\ gen'[g].st = "closed" => gen[g].st = "closed"
    <2> SUFFICES ASSUME NEW g \in Gens
                 PROVE  /\ gen'[g] \in GenStates \cup {NoGen}
                        /\ gen[g] \in GenStates => gen'[g] \in GenStates /\ gen'[g].cfg = gen[g].cfg
                        /\ gen'[g].st # "open"
                        /\ gen'[g].st = "closed" => gen[g].st = "closed"
      OBVIOUS
    <2>1. CASE gen[g] \in GenStates /\ gen'[g] = [gen[g] EXCEPT !.st = "replaced"]
      BY <2>1, GenTypes DEF GenStates
    <2>2. CASE (\A id \in PortIds : ptable[id] # g) /\ gen'[g] = gen[g]
      <3>1. gen[g] \in GenStates \cup {NoGen}
        BY TableTypes
      <3>2. gen[g].st # "open"
        BY <2>2, <3>1, GenTypes DEF PortsIInv, TableHolds
      <3> QED
        BY <2>2, <3>1, <3>2
    <2> QED
      BY <1>1, <2>1, <2>2
  <1>3. gen' \in [Gens -> GenStates \cup {NoGen}]
    <2>1. gen' = [g \in Gens |-> gen'[g]]
      BY DEF ReloadPortsStops
    <2> QED
      BY <1>2, <2>1
  <1>4. PortsTypeOK'
    BY <1>0, <1>3, <1>10, TableTypes DEF PortsIInv, PortsTypeOK, PortGhosts, connVars
  <1>5. AddrsUnique' /\ NoneStale'
    BY <1>0 DEF PortsIInv, AddrsUnique, Distinct, NoneStale
  <1>6. TableHolds'
    BY <1>0, <1>2 DEF TableHolds, Free
  <1>7. ConnsHeld'
    BY <1>0, <1>2 DEF PortsIInv, ConnsHeld, ConnHeld, connVars
  <1>8. AllStarted'
    <2>1. preq'[r] = "start"
      BY <1>0 DEF PortsIInv, PortsTypeOK
    <2> QED
      BY <2>1 DEF AllStarted, Reloading
  <1>9. StoppedDry'
    BY <1>0, <1>10 DEF PortsIInv, StoppedDry, Dry, Handling, connVars
  <1> QED
    BY <1>4, <1>5, <1>6, <1>7, <1>8, <1>9 DEF PortsIInv

\* A listener that is made.
LEMMA OpenedType ==
  ASSUME NEW i \in PortIds, ports[i] \in PortCfgs
  PROVE  /\ Opened(i) \in GenStates /\ Opened(i).st = "open" /\ Opened(i).id = i
         /\ Opened(i).cfg = ports[i]
  BY DEF Opened, GenStates

LEMMA StartPortsStep ==
  ASSUME PortsIInv, NEW r \in PortReqs, StartPorts(r)
  PROVE  PortsIInv'
  <1> DEFINE todo == {id \in PortIds : pheld[r] /\ Enabled(id) /\ ptable[id] = 0}
  <1>0. /\ preq[r] = "start" /\ Free /\ preq' = [preq EXCEPT ![r] = "done"]
        /\ UNCHANGED <<pload, ports, pfile, feature, pheld, connVars, pstop>>
    BY DEF StartPorts
  <1>1. PICK no \in SUBSET todo :
          /\ Cardinality(no) + pghost.faults <= pload.faults
          /\ TableWith(todo \ no)
          /\ pghost' = [pghost EXCEPT !.refused = no, !.faults = @ + Cardinality(no),
                                      !.again = @ \/ pstop.pc = "done",
                                      !.astray = \/ pheld[r] # feature
                                                 \/ @ /\ \E id \in PortIds : ptable[id] # 0]
    BY DEF StartPorts
  <1>19. PICK off \in BOOLEAN :
           off = (pheld[r] # feature \/ (pghost.astray /\ \E id \in PortIds : ptable[id] # 0))
    OBVIOUS
  <1>20. PICK back \in BOOLEAN : back = (pghost.again \/ pstop.pc = "done")
    OBVIOUS
  <1>21. pghost' = [pghost EXCEPT !.refused = no, !.faults = pghost.faults + Cardinality(no),
                                  !.again = back, !.astray = off]
    BY <1>1, <1>19, <1>20
  <1> DEFINE S == todo \ no
  <1>2. PICK f \in Allocations(S, Fresh) :
          /\ ptable' = [id \in PortIds |-> IF id \in S THEN f[id] ELSE ptable[id]]
          /\ gen' = [g \in Gens |-> IF \E i \in S : f[i] = g
                                    THEN Opened(CHOOSE i \in S : f[i] = g) ELSE gen[g]]
    BY <1>1 DEF TableWith
  <1>3. f \in [S -> Fresh] /\ \A i, j \in S : i # j => f[i] # f[j]
    BY <1>2 DEF Allocations
  <1>4. /\ S \in SUBSET PortIds /\ no \in SUBSET PortIds
        /\ \A id \in S : ports[id] \in PortCfgs /\ ports[id].on /\ pheld[r] /\ ptable[id] = 0
        /\ \A id \in PortIds \ no : pheld[r] /\ Enabled(id) /\ ptable[id] = 0 => id \in S
    <2>1. \A id \in PortIds : ports[id] \in PortCfgs \cup {NoPort}
      BY DEF PortsIInv, PortsTypeOK, PortConfigs
    <2> QED
      BY <1>1, <2>1 DEF Enabled
  <1> HIDE DEF S, todo
  <1>5. \A g \in Gens :
          \/ /\ \A i \in S : f[i] # g
             /\ gen'[g] = gen[g]
          \/ \E i \in S : /\ f[i] = g /\ gen[g] = NoGen
                          /\ gen'[g] \in GenStates /\ gen'[g].st = "open" /\ gen'[g].id = i
                          /\ gen'[g].cfg = ports[i]
    <2> SUFFICES ASSUME NEW g \in Gens
                 PROVE  \/ /\ \A i \in S : f[i] # g
                           /\ gen'[g] = gen[g]
                        \/ \E i \in S : /\ f[i] = g /\ gen[g] = NoGen
                                        /\ gen'[g] \in GenStates /\ gen'[g].st = "open"
                                        /\ gen'[g].id = i /\ gen'[g].cfg = ports[i]
      OBVIOUS
    <2>1. gen'[g] = IF \E i \in S : f[i] = g THEN Opened(CHOOSE i \in S : f[i] = g) ELSE gen[g]
      BY <1>2
    <2>2. Fresh \in SUBSET Gens /\ \A h \in Fresh : gen[h] = NoGen
      BY DEF Fresh
    <2>3. CASE \E i \in S : f[i] = g
      <3>1. PICK i \in S : f[i] = g
        BY <2>3
      <3>2. (CHOOSE j \in S : f[j] = g) = i
        BY <1>3, <3>1
      <3>3. gen'[g] = Opened(i)
        BY <2>1, <2>3, <3>2
      <3>4. g \in Fresh /\ i \in PortIds /\ ports[i] \in PortCfgs
        BY <1>3, <1>4, <3>1
      <3> QED
        BY <2>2, <3>1, <3>3, <3>4, OpenedType
    <2>4. CASE ~ \E i \in S : f[i] = g
      BY <2>1, <2>4
    <2> QED
      BY <2>3, <2>4
  <1>6. /\ \A id \in PortIds : ptable'[id] = IF id \in S THEN f[id] ELSE ptable[id]
        /\ \A id \in S : f[id] \in Gens /\ gen[f[id]] = NoGen /\ f[id] # 0
    BY <1>2, <1>3, GenTypes DEF Fresh
  <1>7. \A g \in Gens :
          /\ gen'[g] \in GenStates \cup {NoGen}
          /\ gen[g] # NoGen => gen'[g] = gen[g]
    BY <1>5, TableTypes
  <1>8. \A id \in PortIds : ptable[id] # 0 =>
          ptable[id] \in Gens /\ gen[ptable[id]] \in GenStates /\ gen[ptable[id]] # NoGen
    BY TableTypes, GenTypes DEF PortsIInv, TableHolds
  <1>9. PortsTypeOK'
    <2>1. gen' \in [Gens -> GenStates \cup {NoGen}]
      BY <1>2, <1>7
    <2>2. ptable' \in [PortIds -> 0 .. MaxGen]
      BY <1>2, <1>6, TableTypes, GenTypes
    <2>3. \A i, j \in PortIds : (i # j /\ ptable'[i] # 0) => ptable'[i] # ptable'[j]
      BY <1>3, <1>6, <1>8 DEF PortsIInv, PortsTypeOK
    <2>4. pghost' \in PortGhosts
      <3>1. Cardinality(no) \in Nat
        BY <1>4, PortConstants, FS_Subset, FS_CardinalityType
      <3>4. pghost.faults + Cardinality(no) \in 0 .. pload.faults
        BY <1>1, <3>1, ReqTypes
      <3> QED
        BY <1>4, <1>21, <3>4, ReqTypes DEF PortGhosts
    <2>5. preq' \in [PortReqs -> ReqStates]
      BY <1>0, ReqTypes DEF ReqStates
    <2> QED
      BY <1>0, <2>1, <2>2, <2>3, <2>4, <2>5
        DEF PortsIInv, PortsTypeOK, PortGhosts, ReqStates, connVars
  <1>10. AddrsUnique'
    BY <1>0 DEF PortsIInv, AddrsUnique, Distinct
  <1>11. \A id \in PortIds :
           /\ id \in S => /\ gen'[f[id]] \in GenStates /\ gen'[f[id]].st = "open"
                          /\ gen'[f[id]].id = id /\ gen'[f[id]].cfg = ports[id]
           /\ (id \notin S /\ ptable[id] # 0) => gen'[ptable[id]] = gen[ptable[id]]
    BY <1>3, <1>5, <1>6, <1>7, <1>8
  <1>12. TableHolds'
    <2>1. \A id \in PortIds : ptable'[id] # 0 =>
            /\ gen'[ptable'[id]] \in GenStates /\ gen'[ptable'[id]].id = id
            /\ gen'[ptable'[id]].st # "open" => pstop'.pc = "wait" /\ pstop'.g = ptable'[id]
      BY <1>0, <1>6, <1>11 DEF PortsIInv, TableHolds
    <2>2. \A g \in Gens : gen'[g].st = "open" => ptable'[gen'[g].id] = g
      <3> SUFFICES ASSUME NEW g \in Gens, gen'[g].st = "open"
                   PROVE  ptable'[gen'[g].id] = g
        OBVIOUS
      <3>1. CASE \E i \in S : f[i] = g
        BY <1>4, <1>5, <1>6, <3>1
      <3>2. CASE \A i \in S : f[i] # g
        <4>1. gen'[g] = gen[g] /\ gen[g] \in GenStates
          BY <1>5, <3>2, TableTypes, GenTypes
        <4>2. gen[g].id \in PortIds /\ ptable[gen[g].id] = g
          BY <4>1, GenTypes DEF PortsIInv, TableHolds
        <4>3. gen[g].id \notin S
          BY <1>4, <4>2, GenTypes
        <4> QED
          BY <1>6, <4>1, <4>2, <4>3
      <3> QED
        BY <3>1, <3>2
    <2> QED
      BY <1>0, <2>1, <2>2 DEF TableHolds, Free
  <1>13. ConnsHeld'
    BY <1>0, <1>7, GenTypes DEF PortsIInv, ConnsHeld, ConnHeld, connVars
  <1>14. /\ pghost'.refused = no /\ pghost'.astray = off
         /\ Dry' => Dry /\ pstop.pc # "done"
    BY <1>0, <1>20, <1>21, ReqTypes DEF PortGhosts, Dry
  <1>15. NoneStale'
    <2> SUFFICES ASSUME pstop.pc = "no", ~off, ~Reloading({"reload", "stop"})',
                        NEW id \in PortIds, ptable'[id] # 0
                 PROVE  feature /\ Enabled(id) /\ gen'[ptable'[id]].cfg = ports[id]
      BY <1>0, <1>14 DEF NoneStale, Enabled
    <2>1. ~Reloading({"reload", "stop"})
      BY <1>0, ReqTypes DEF Reloading
    <2>2. pheld[r] = feature /\ (pghost.astray => ptable[id] = 0)
      BY <1>19, ReqTypes
    <2>3. CASE id \in S
      BY <1>4, <1>6, <1>11, <2>2, <2>3, PortTypes DEF Enabled
    <2>4. CASE id \notin S
      <3>1. ptable'[id] = ptable[id] /\ ptable[id] # 0 /\ gen'[ptable[id]] = gen[ptable[id]]
        BY <1>6, <1>11, <2>4
      <3>2. ~pghost.astray
        BY <2>2, <3>1
      <3> QED
        BY <2>1, <3>1, <3>2 DEF PortsIInv, NoneStale
    <2> QED
      BY <2>3, <2>4
  <1>16. AllStarted'
    <2> SUFFICES ASSUME ~off, NEW id \in PortIds \ no, feature, Enabled(id)
                 PROVE  ptable'[id] # 0
      BY <1>0, <1>14 DEF AllStarted, Enabled
    <2>1. pheld[r]
      BY <1>19, ReqTypes
    <2> QED
      BY <1>4, <1>6, <2>1
  <1>17. StoppedDry'
    BY <1>14 DEF StoppedDry, Dry
  <1> QED
    BY <1>9, <1>10, <1>12, <1>13, <1>15, <1>16, <1>17 DEF PortsIInv

\* One listener changes in what the table and the connections do not depend on.
LEMMA AcceptEndsStep ==
  ASSUME PortsIInv, NEW g \in Gens, AcceptEnds(g)
  PROVE  PortsIInv'
  <1>0. /\ gen[g].st \in {"replaced", "closed"} /\ UNCHANGED <<ctl, connVars>>
        /\ gen' = [gen EXCEPT ![g] = [gen[g] EXCEPT !.loop = FALSE]]
    BY DEF AcceptEnds
  <1>1. gen[g] \in GenStates
    BY <1>0, TableTypes, GenTypes
  <1>2. /\ gen'[g] \in GenStates /\ gen'[g].st = gen[g].st /\ gen'[g].id = gen[g].id
        /\ gen'[g].cfg = gen[g].cfg
    BY <1>0, <1>1, TableTypes DEF GenStates
  <1>3. \A h \in Gens :
          /\ gen'[h] \in GenStates \cup {NoGen} /\ (gen'[h] \in GenStates <=> gen[h] \in GenStates)
          /\ gen'[h].st = gen[h].st
          /\ gen[h] \in GenStates => gen'[h].id = gen[h].id /\ gen'[h].cfg = gen[h].cfg
    BY <1>0, <1>1, <1>2, TableTypes
  <1>4. gen' \in [Gens -> GenStates \cup {NoGen}]
    BY <1>0, <1>3, TableTypes
  <1>5. PortsTypeOK'
    BY <1>0, <1>4 DEF PortsIInv, PortsTypeOK, ctl, connVars
  <1>6. TableHolds'
    <2>1. \A h \in Gens : gen[h].st = "open" => gen[h] \in GenStates
      BY TableTypes, GenTypes
    <2> QED
      BY <1>0, <1>3, <2>1, TableTypes DEF PortsIInv, TableHolds, ctl
  <1>7. ConnsHeld'
    <2> SUFFICES ASSUME NEW c \in PortConns PROVE ConnHeld(pconn[c])'
      BY DEF ConnsHeld
    <2>1. ConnHeld(pconn[c]) /\ pconn' = pconn /\ pstop' = pstop
      BY <1>0 DEF PortsIInv, ConnsHeld, ctl, connVars
    <2> QED
      BY <1>3, <2>1 DEF ConnHeld
  <1>8. NoneStale'
    BY <1>0, <1>3, TableTypes
      DEF PortsIInv, NoneStale, TableHolds, Reloading, Enabled, ctl
  <1>9. AddrsUnique' /\ AllStarted' /\ StoppedDry'
    BY <1>0 DEF PortsIInv, AddrsUnique, Distinct, AllStarted, Reloading, Enabled, StoppedDry,
      Dry, Handling, ctl, connVars
  <1> QED
    BY <1>5, <1>6, <1>7, <1>8, <1>9 DEF PortsIInv

LEMMA StopPortsStep ==
  ASSUME PortsIInv, StopPortsBegins \/ StopStep
  PROVE  PortsIInv'
  <1>0. /\ pstop \in [pc : {"no", "next", "wait", "done"}, g : 0 .. MaxGen] /\ 0 \in 0 .. MaxGen
    BY PortConstants DEF PortsIInv, PortsTypeOK
  <1>1. CASE StopPortsBegins
    <2>1. pstop' \in [pc : {"no", "next", "wait", "done"}, g : 0 .. MaxGen]
          /\ pstop'.pc = "next" /\ pstop.pc = "no"
      BY <1>0, <1>1 DEF StopPortsBegins
    <2>2. PortsTypeOK'
      BY <1>1, <2>1 DEF PortsIInv, PortsTypeOK, StopPortsBegins, connVars
    <2>3. AddrsUnique' /\ TableHolds' /\ ConnsHeld'
      BY <1>1, <2>1 DEF PortsIInv, AddrsUnique, Distinct, TableHolds, ConnsHeld, ConnHeld,
        StopPortsBegins, connVars
    <2>4. NoneStale' /\ AllStarted' /\ StoppedDry'
      BY <2>1 DEF NoneStale, AllStarted, StoppedDry, Dry
    <2> QED
      BY <2>2, <2>3, <2>4 DEF PortsIInv
  <1>2. CASE StopPortsNext
    <2>1. PICK id \in PortIds :
            /\ ptable[id] # 0
            /\ gen' = [gen EXCEPT ![ptable[id]] = ClosedGen(ptable[id], "closed")]
            /\ pstop' = [pc |-> "wait", g |-> ptable[id]]
            /\ UNCHANGED <<pload, ports, pfile, feature, pheld, ptable, connVars, preq, pghost>>
      BY <1>2 DEF StopPortsNext
    <2>2. PICK g \in Gens : g = ptable[id]
      BY <2>1, TableTypes
    <2>3. gen[g] \in GenStates /\ gen[g].id = id /\ gen[g].st = "open" /\ pstop.pc = "next"
      BY <1>2, <2>1, <2>2 DEF PortsIInv, TableHolds, StopPortsNext
    <2>4. gen' = [gen EXCEPT ![g] = [gen[g] EXCEPT !.st = "closed"]]
      BY <2>1, <2>2 DEF ClosedGen
    <2>5. /\ gen'[g] \in GenStates /\ gen'[g].st = "closed" /\ gen'[g].id = id
          /\ gen'[g].cfg = gen[g].cfg
      BY <2>3, <2>4, TableTypes DEF GenStates
    <2>6. gen' \in [Gens -> GenStates \cup {NoGen}] /\ \A h \in Gens : h # g => gen'[h] = gen[h]
      BY <2>4, <2>5, TableTypes
    <2>7. /\ pstop' \in [pc : {"no", "next", "wait", "done"}, g : 0 .. MaxGen]
          /\ pstop'.pc = "wait" /\ pstop'.g = g
      BY <2>1, <2>2, GenTypes
    <2>8. PortsTypeOK'
      BY <2>1, <2>6, <2>7 DEF PortsIInv, PortsTypeOK, connVars
    <2>9. TableHolds'
      <3>1. \A i \in PortIds : i # id => ptable[i] # g
        BY <2>1, <2>2 DEF PortsIInv, PortsTypeOK
      <3> QED
        BY <2>1, <2>2, <2>3, <2>5, <2>6, <2>7, <3>1, TableTypes DEF PortsIInv, TableHolds
    <2>10. ConnsHeld'
      BY <2>1, <2>3, <2>5, <2>6, <2>7 DEF PortsIInv, ConnsHeld, ConnHeld, connVars
    <2>11. AddrsUnique' /\ NoneStale' /\ AllStarted' /\ StoppedDry'
      BY <2>1, <2>7 DEF PortsIInv, AddrsUnique, Distinct, NoneStale, AllStarted, StoppedDry, Dry
    <2> QED
      BY <2>8, <2>9, <2>10, <2>11 DEF PortsIInv
  <1>3. CASE StopPortsWaited
    <2>1. /\ pstop.pc = "wait" /\ pstop.g \in Gens /\ gen[pstop.g].st = "closed"
          /\ \A c \in PortConns : Handling(c) => pconn[c].g # pstop.g
          /\ ptable' = [id \in PortIds |-> IF ptable[id] = pstop.g THEN 0 ELSE ptable[id]]
          /\ pstop' = [pc |-> "next", g |-> 0]
          /\ UNCHANGED <<pload, ports, pfile, feature, pheld, gen, connVars, preq, pghost>>
      BY <1>3 DEF PortsIInv, TableHolds, StopPortsWaited
    <2>2. /\ pstop' \in [pc : {"no", "next", "wait", "done"}, g : 0 .. MaxGen]
          /\ pstop'.pc = "next"
      BY <1>0, <2>1
    <2>3. ptable' \in [PortIds -> 0 .. MaxGen]
      BY <1>0, <2>1, TableTypes
    <2>4. \A id \in PortIds : ptable'[id] = IF ptable[id] = pstop.g THEN 0 ELSE ptable[id]
      BY <2>1
    <2>5. PortsTypeOK'
      <3>1. \A i, j \in PortIds : (i # j /\ ptable'[i] # 0) => ptable'[i] # ptable'[j]
        BY <2>4 DEF PortsIInv, PortsTypeOK
      <3> QED
        BY <2>1, <2>2, <2>3, <3>1 DEF PortsIInv, PortsTypeOK, connVars
    <2>6. TableHolds'
      <3>1. \A g \in Gens : gen[g].st = "open" =>
              gen[g].id \in PortIds /\ ptable[gen[g].id] = g /\ g # pstop.g
        BY <2>1, TableTypes, GenTypes DEF PortsIInv, TableHolds
      <3> QED
        BY <2>1, <2>2, <2>4, <3>1 DEF PortsIInv, TableHolds
    <2>7. ConnsHeld'
      BY <2>1, <2>2 DEF PortsIInv, ConnsHeld, ConnHeld, Handling, connVars
    <2>8. AddrsUnique' /\ NoneStale' /\ AllStarted' /\ StoppedDry'
      BY <2>1, <2>2 DEF PortsIInv, AddrsUnique, Distinct, NoneStale, AllStarted, StoppedDry, Dry
    <2> QED
      BY <2>5, <2>6, <2>7, <2>8 DEF PortsIInv
  <1>4. CASE StopPortsEnds
    <2>1. /\ pstop.pc = "next" /\ \A id \in PortIds : ptable[id] = 0
          /\ pool' = {} /\ pstop' = [pc |-> "done", g |-> 0]
          /\ UNCHANGED <<pload, ports, pfile, feature, pheld, ptable, gen, pconn, preq>>
      BY <1>4 DEF StopPortsEnds
    <2>2. PICK b \in BOOLEAN :
            /\ b = \E c \in PortConns : Handling(c) /\ gen[pconn[c].g].st = "replaced"
            /\ pghost' = [pghost EXCEPT !.left = b]
      BY <1>4 DEF StopPortsEnds
    <2>3. pghost' \in PortGhosts /\ pghost'.left = b
      BY <2>2, ReqTypes DEF PortGhosts
    <2>4. /\ pstop' \in [pc : {"no", "next", "wait", "done"}, g : 0 .. MaxGen]
          /\ pstop'.pc = "done"
      BY <1>0, <2>1
    <2>5. PortsTypeOK'
      BY <2>1, <2>3, <2>4 DEF PortsIInv, PortsTypeOK, PortGhosts
    <2>6. AddrsUnique' /\ TableHolds' /\ ConnsHeld'
      BY <2>1, <2>4 DEF PortsIInv, AddrsUnique, Distinct, TableHolds, ConnsHeld, ConnHeld
    <2>7. NoneStale' /\ AllStarted'
      BY <2>4 DEF NoneStale, AllStarted
    <2>8. \A c \in PortConns : Handling(c) => gen[pconn[c].g].st = "replaced"
      <3> SUFFICES ASSUME NEW c \in PortConns, Handling(c)
                   PROVE  gen[pconn[c].g].st = "replaced"
        OBVIOUS
      <3>1. /\ pconn[c].g \in Gens /\ gen[pconn[c].g] \in GenStates
            /\ gen[pconn[c].g].st # "closed"
        BY <2>1 DEF PortsIInv, ConnsHeld, ConnHeld, Handling
      <3>2. gen[pconn[c].g].st # "open"
        BY <2>1, <3>1, GenTypes DEF PortsIInv, TableHolds
      <3> QED
        BY <3>1, <3>2, GenTypes
    <2>9. StoppedDry'
      BY <2>1, <2>2, <2>3, <2>8 DEF StoppedDry, Dry, Handling
    <2> QED
      BY <2>5, <2>6, <2>7, <2>9 DEF PortsIInv
  <1> QED
    BY <1>1, <1>2, <1>3, <1>4 DEF StopStep

-----------------------------------------------------------------------------
LEMMA PortsInits == PortsInit => PortsIInv
  <1> SUFFICES ASSUME PortsInit PROVE PortsIInv
    OBVIOUS
  <1> DEFINE S == {id \in PortIds : Enabled(id)}
  <1>0. /\ pload \in PortLoads /\ ports = pload.first /\ ports \in PortConfigs
        /\ pfile \in PortConfigs
        /\ pload.faults \in Nat /\ Distinct(ports) /\ 0 \in 0 .. MaxGen
    BY PortConstants, FirstIsDistinct DEF PortsInit
  <1>1. PICK f \in Allocations(S, Gens) :
          /\ ptable = [id \in PortIds |-> IF id \in S THEN f[id] ELSE 0]
          /\ gen = [g \in Gens |-> IF \E i \in S : f[i] = g
                                   THEN Opened(CHOOSE i \in S : f[i] = g) ELSE NoGen]
    BY DEF PortsInit
  <1>2. f \in [S -> Gens] /\ \A i, j \in S : i # j => f[i] # f[j]
    BY <1>1 DEF Allocations
  <1>3. /\ S \in SUBSET PortIds
        /\ \A id \in PortIds : Enabled(id) => id \in S
        /\ \A id \in S : ports[id] \in PortCfgs /\ Enabled(id)
    BY <1>0 DEF PortConfigs, Enabled
  <1> HIDE DEF S
  <1>4. \A g \in Gens :
          \/ /\ \A i \in S : f[i] # g
             /\ gen[g] = NoGen
          \/ \E i \in S : /\ f[i] = g /\ gen[g] \in GenStates /\ gen[g].st = "open"
                          /\ gen[g].id = i /\ gen[g].cfg = ports[i]
    <2> SUFFICES ASSUME NEW g \in Gens
                 PROVE  \/ /\ \A i \in S : f[i] # g
                           /\ gen[g] = NoGen
                        \/ \E i \in S : /\ f[i] = g /\ gen[g] \in GenStates
                                        /\ gen[g].st = "open" /\ gen[g].id = i
                                        /\ gen[g].cfg = ports[i]
      OBVIOUS
    <2>1. gen[g] = IF \E i \in S : f[i] = g THEN Opened(CHOOSE i \in S : f[i] = g) ELSE NoGen
      BY <1>1
    <2>2. CASE \E i \in S : f[i] = g
      <3>1. PICK i \in S : f[i] = g
        BY <2>2
      <3>2. (CHOOSE j \in S : f[j] = g) = i
        BY <1>2, <3>1
      <3>3. gen[g] = Opened(i)
        BY <2>1, <2>2, <3>2
      <3> QED
        BY <1>3, <3>1, <3>3, OpenedType
    <2>3. CASE ~ \E i \in S : f[i] = g
      BY <2>1, <2>3
    <2> QED
      BY <2>2, <2>3
  <1>5. /\ \A id \in PortIds : ptable[id] = IF id \in S THEN f[id] ELSE 0
        /\ \A id \in S : f[id] \in Gens /\ f[id] # 0 /\ f[id] \in 0 .. MaxGen
    BY <1>1, <1>2, GenTypes
  <1>6. gen \in [Gens -> GenStates \cup {NoGen}] /\ ptable \in [PortIds -> 0 .. MaxGen]
    BY <1>0, <1>1, <1>4, <1>5
  <1>7. NoConn \in ConnRecs /\ NoConn.pc = "none"
    BY <1>0 DEF NoConn, ConnRecs
  <1>8. /\ pconn \in [PortConns -> ConnRecs] /\ \A c \in PortConns : pconn[c].pc = "none"
    BY <1>7 DEF PortsInit
  <1>9. pghost \in PortGhosts
    BY <1>0 DEF PortsInit, PortGhosts
  <1>10. pstop \in [pc : {"no", "next", "wait", "done"}, g : 0 .. MaxGen] /\ pstop.pc = "no"
    BY <1>0 DEF PortsInit
  <1>11. PortsTypeOK
    <2>1. \A i, j \in PortIds : (i # j /\ ptable[i] # 0) => ptable[i] # ptable[j]
      BY <1>2, <1>5
    <2>2. feature \in BOOLEAN /\ pheld \in [PortReqs -> BOOLEAN] /\ pool \subseteq PortNodes
          /\ preq \in [PortReqs -> ReqStates]
      BY DEF PortsInit, ReqStates
    <2> QED
      BY <1>0, <1>6, <1>8, <1>9, <1>10, <2>1, <2>2 DEF PortsTypeOK, PortGhosts, ReqStates
  <1>12. \A id \in S : /\ gen[f[id]] \in GenStates /\ gen[f[id]].st = "open"
                       /\ gen[f[id]].id = id /\ gen[f[id]].cfg = ports[id]
    BY <1>2, <1>4, <1>5
  <1>13. TableHolds
    <2>1. \A g \in Gens : gen[g].st = "open" => ptable[gen[g].id] = g
      BY <1>3, <1>4, <1>5, GenTypes
    <2> QED
      BY <1>5, <1>10, <1>12, <2>1 DEF TableHolds
  <1>14. ConnsHeld
    BY <1>8 DEF ConnsHeld, ConnHeld
  <1>15. feature = TRUE
    BY DEF PortsInit
  <1>16. NoneStale /\ AllStarted
    BY <1>3, <1>5, <1>12, <1>15 DEF NoneStale, AllStarted
  <1>17. StoppedDry /\ AddrsUnique
    BY <1>0, <1>10 DEF StoppedDry, Dry, AddrsUnique
  <1> QED
    BY <1>11, <1>13, <1>14, <1>16, <1>17 DEF PortsIInv

LEMMA PortsStep ==
  ASSUME PortsIInv, [PortsNext]_portVars
  PROVE  PortsIInv'
  <1>1. CASE UNCHANGED portVars
    <2>1. PortsTypeOK' /\ AddrsUnique' /\ TableHolds'
      BY <1>1 DEF PortsIInv, PortsTypeOK, AddrsUnique, Distinct, TableHolds, portVars
    <2>2. ConnsHeld' /\ NoneStale' /\ AllStarted' /\ StoppedDry'
      BY <1>1 DEF PortsIInv, ConnsHeld, ConnHeld, NoneStale, AllStarted, Reloading, Enabled,
        StoppedDry, Dry, Handling, portVars
    <2> QED
      BY <2>1, <2>2 DEF PortsIInv
  <1>2. ASSUME NEW r \in PortReqs,
               ReqStep(r) \/ OutboundChanged(r) \/ \E on \in BOOLEAN : CopyConfig(r, on)
        PROVE  PortsIInv'
    BY <1>2, PortsReloadStep, StartPortsStep, FlagStep DEF ReqStep
  <1>3. ASSUME NEW c \in PortConns,
               \E p \in {"http", "connect", "socks5", "socks4"}, knows \in BOOLEAN :
                 Hello(c, p, knows)
        PROVE  PortsIInv'
    BY <1>3, HelloStep
  <1>4. CASE StopPortsBegins \/ StopStep
    BY <1>4, StopPortsStep
  <1> QED
    BY <1>1, <1>2, <1>3, <1>4, PortRequestStep, AcceptEndsStep, AcceptConnStep, ConnStepHolds
      DEF PortsNext

\* Whatever the order of requests, reloads, connections and Stop (proxy_ports.go,
\* proxy_port_manager.go): no two ports share an address; once no request is under way the
\* listeners are those of the enabled ports with the configuration of now, unless since
\* the last reload a save failed or an older copy of the flag was used; traffic passes a
\* port with a password only after it was shown; and Stop leaves no dialer open but by a
\* connection of a listener replaced earlier.
THEOREM PortsHold == PortsSpec => []PortsInv
  <1>1. PortsInit => PortsIInv
    BY PortsInits
  <1>2. PortsIInv /\ [PortsNext]_portVars => PortsIInv'
    BY PortsStep
  <1>3. PortsIInv => PortsInv
    BY PortsInvHolds
  <1> QED
    BY <1>1, <1>2, <1>3, PTL DEF PortsSpec

-----------------------------------------------------------------------------
(* Lists.                                                                  *)

\* A set of numbers that is not empty has a least one.
LEMMA HasLeast ==
    ASSUME NEW T, T \subseteq Nat, T # {}
    PROVE  \E x \in T : \A y \in T : x <= y
<1>1. PICK x \in T : \A y \in T : ~ (<<y, x>> \in OpToRel(<, Nat))
  BY WFMin, NatLessThanWellFounded
<1>2. ASSUME NEW y \in T, y < x
      PROVE  <<y, x>> \in OpToRel(<, Nat)
  <2>1. <<y, x>> \in Nat \X Nat
    BY <1>2
  <2>2. <<y, x>>[1] < <<y, x>>[2]
    BY <1>2
  <2>3. <<y, x>> \in {ss \in Nat \X Nat : ss[1] < ss[2]}
    BY <2>1, <2>2, Zenon
  <2> QED
    BY <2>3 DEF OpToRel
<1>3. \A y \in T : ~ (y < x)
  BY <1>1, <1>2
<1> QED
  BY <1>3

LEMMA LeastIs ==
    ASSUME NEW T, T \subseteq Nat, T # {}
    PROVE  Min(T) \in T /\ \A y \in T : Min(T) <= y
BY HasLeast DEF Min

\* A map of a finite set into the numbers up to its size that takes no value twice
\* takes all of them.
LEMMA TakesAll ==
    ASSUME NEW S, IsFiniteSet(S), NEW f \in [S -> 1 .. Cardinality(S)],
           \A a, b \in S : f[a] = f[b] => a = b,
           NEW k \in 1 .. Cardinality(S)
    PROVE  \E a \in S : f[a] = k
<1> DEFINE N == Cardinality(S)
<1>1. N \in Nat
  BY FS_CardinalityType
<1>2. IsFiniteSet(1 .. N) /\ Cardinality(1 .. N) = N
  BY <1>1, FS_Interval
<1>3. f \in Injection(S, 1 .. N)
  BY DEF Injection, IsInjective
<1>4. f \in Surjection(S, 1 .. N)
  BY <1>2, <1>3, FS_Injection
<1> QED
  BY <1>4 DEF Surjection

\* Every place of a part of a list is found by counting.
LEMMA PlaceFound ==
    ASSUME NEW I, I \subseteq Nat, IsFiniteSet(I), NEW k \in 1 .. Cardinality(I)
    PROVE  \E i \in I : Cardinality({j \in I : j <= i}) = k
<1> DEFINE upTo(i) == {j \in I : j <= i}
           f == [i \in I |-> Cardinality(upTo(i))]
<1>1. \A i \in I : IsFiniteSet(upTo(i)) /\ Cardinality(upTo(i)) \in 1 .. Cardinality(I)
  <2> SUFFICES ASSUME NEW i \in I
               PROVE  IsFiniteSet(upTo(i)) /\ Cardinality(upTo(i)) \in 1 .. Cardinality(I)
    OBVIOUS
  <2>1. IsFiniteSet(upTo(i)) /\ Cardinality(upTo(i)) <= Cardinality(I)
    BY FS_Subset
  <2>2. i \in upTo(i)
    OBVIOUS
  <2>3. Cardinality(upTo(i)) # 0
    BY <2>1, <2>2, FS_EmptySet
  <2> QED
    BY <2>1, <2>3, FS_CardinalityType
<1>2. f \in [I -> 1 .. Cardinality(I)]
  BY <1>1
<1>3. ASSUME NEW a \in I, NEW b \in I, a < b
      PROVE  f[a] # f[b]
  <2>0. a \in Nat /\ b \in Nat /\ \A j \in I : j \in Nat
    OBVIOUS
  <2>a. \A j \in I : j <= a => j <= b
    BY <1>3, <2>0
  <2>b. b <= b /\ ~(b <= a)
    BY <1>3, <2>0
  <2>1. upTo(a) \subseteq upTo(b) /\ b \in upTo(b) /\ b \notin upTo(a)
    BY <2>a, <2>b, Zenon
  <2>2. Cardinality(upTo(b)) = Cardinality(upTo(a)) => upTo(b) = upTo(a)
    BY <1>1, <2>1, FS_Subset
  <2> QED
    BY <2>1, <2>2
<1>4. \A a, b \in I : f[a] = f[b] => a = b
  BY <1>3
<1>5. \A i \in I : f[i] = Cardinality({j \in I : j <= i})
  OBVIOUS
<1> HIDE DEF f
<1>6. PICK i \in I : f[i] = k
  BY <1>2, <1>4, TakesAll
<1> QED
  BY <1>5, <1>6

LEMMA SelectedIs ==
    ASSUME NEW S, NEW list \in Seq(S), NEW I, I \subseteq DOMAIN list
    PROVE  /\ Selected(list, I) \in Seq(S)
           /\ Len(Selected(list, I)) <= Len(list)
<1>1. I \subseteq 1 .. Len(list) /\ Len(list) \in Nat
  OBVIOUS
<1> DEFINE n == Len(list)
<1>2. IsFiniteSet(1 .. n) /\ Cardinality(1 .. n) = n
  <2> HIDE DEF n
  <2>1. n \in Nat
    BY <1>1 DEF n
  <2> QED
    BY <2>1, FS_Interval
<1>3. IsFiniteSet(I) /\ Cardinality(I) <= Len(list)
  BY <1>1, <1>2, FS_Subset
<1>4. Cardinality(I) \in Nat
  BY <1>3, FS_CardinalityType
<1> DEFINE place(k) == CHOOSE i \in I : Cardinality({j \in I : j <= i}) = k
<1>5. \A k \in 1 .. Cardinality(I) : place(k) \in I
  BY <1>1, <1>3, PlaceFound
<1>7. Selected(list, I) = [k \in 1 .. Cardinality(I) |-> list[place(k)]]
  BY DEF Selected
<1> HIDE DEF place
<1>6. \A k \in 1 .. Cardinality(I) : list[place(k)] \in S
  BY <1>1, <1>5
<1> QED
  BY <1>3, <1>4, <1>6, <1>7

-----------------------------------------------------------------------------
(* Series.                                                                 *)

Sources == {"stopped", "proxy", "direct", "passive", "auto_ping", Nothing}
Samples == [at : Nat, lat : Lats, ok : BOOLEAN, src : Sources, echo : BOOLEAN]

Suffix(ending, list) ==
    \E d \in 0 .. Len(list) :
        Len(ending) = Len(list) - d /\ \A i \in 1 .. Len(ending) : ending[i] = list[i + d]

\* Any two samples are as far apart as neighbours must be.
Spread(ss, gap) == \A i, j \in 1 .. Len(ss) : i < j => ss[j].at - ss[i].at >= gap

Until(ss, time) == \A i \in 1 .. Len(ss) : ss[i].at <= time /\ ~ss[i].echo

LEMMA SuffixKeeps ==
    ASSUME NEW ss \in Seq(Samples), NEW ending \in Seq(Samples), Suffix(ending, ss),
           NEW gap \in Int, NEW time \in Nat
    PROVE  /\ Len(ending) <= Len(ss)
           /\ Spread(ss, gap) => Spread(ending, gap)
           /\ Until(ss, time) => Until(ending, time)
           /\ ending # <<>> => ss # <<>> /\ Last(ending) = Last(ss)
<1>1. PICK d \in 0 .. Len(ss) : Len(ending) = Len(ss) - d /\ \A i \in 1 .. Len(ending) : ending[i] = ss[i + d]
  BY DEF Suffix
<1>2. Len(ss) \in Nat /\ Len(ending) \in Nat
  OBVIOUS
<1>3. \A i \in 1 .. Len(ending) : i + d \in 1 .. Len(ss)
  BY <1>1, <1>2
<1>4. Spread(ss, gap) => Spread(ending, gap)
  <2> SUFFICES ASSUME Spread(ss, gap), NEW i \in 1 .. Len(ending), NEW j \in 1 .. Len(ending), i < j
               PROVE  ending[j].at - ending[i].at >= gap
    BY DEF Spread
  <2>1. i + d < j + d /\ i + d \in 1 .. Len(ss) /\ j + d \in 1 .. Len(ss)
    BY <1>2, <1>3
  <2>2. ending[i] = ss[i + d] /\ ending[j] = ss[j + d]
    BY <1>1
  <2> QED
    BY <2>1, <2>2 DEF Spread
<1>5. Until(ss, time) => Until(ending, time)
  BY <1>1, <1>3 DEF Until
<1>6. ending # <<>> => ss # <<>> /\ Last(ending) = Last(ss)
  <2> SUFFICES ASSUME ending # <<>>
               PROVE  ss # <<>> /\ Last(ending) = Last(ss)
    OBVIOUS
  <2>1. Len(ending) \in 1 .. Len(ending) /\ Len(ending) + d = Len(ss) /\ Len(ss) # 0
    BY <1>1, <1>2
  <2>2. ending[Len(ending)] = ss[Len(ss)]
    BY <1>1, <2>1
  <2> QED
    BY <2>1, <2>2 DEF Last
<1> QED
  BY <1>1, <1>2, <1>4, <1>5, <1>6

\* A part of a list from a place of it to its end.
LEMMA FromPlace ==
    ASSUME NEW ss \in Seq(Samples), NEW m \in 1 .. Len(ss)
    PROVE  /\ SubSeq(ss, m, Len(ss)) \in Seq(Samples)
           /\ Len(SubSeq(ss, m, Len(ss))) = Len(ss) - m + 1
           /\ Suffix(SubSeq(ss, m, Len(ss)), ss)
           /\ \A i \in 1 .. Len(ss) - m + 1 : SubSeq(ss, m, Len(ss))[i] = ss[i + m - 1]
<1> DEFINE u == SubSeq(ss, m, Len(ss))
<1>1. Len(ss) \in Nat /\ u \in Seq(Samples) /\ Len(u) = Len(ss) - m + 1
  OBVIOUS
<1>2. \A i \in 1 .. Len(ss) - m + 1 : u[i] = ss[i + m - 1]
  BY <1>1
<1>3. m - 1 \in 0 .. Len(ss) /\ Len(u) = Len(ss) - (m - 1)
  BY <1>1
<1> HIDE DEF u
<1>4. \A i \in 1 .. Len(u) : u[i] = ss[i + (m - 1)]
  <2> SUFFICES ASSUME NEW i \in 1 .. Len(u)
               PROVE  u[i] = ss[i + (m - 1)]
    OBVIOUS
  <2>1. i \in 1 .. Len(ss) - m + 1 /\ i + m - 1 = i + (m - 1)
    BY <1>1
  <2> QED
    BY <1>2, <2>1
<1>5. Suffix(u, ss)
  BY <1>3, <1>4 DEF Suffix
<1> QED
  BY <1>1, <1>2, <1>5 DEF u

Trims(ending, ss, cutoff) ==
    /\ ending \in Seq(Samples) /\ Suffix(ending, ss)
    /\ \A gap \in Nat : Spread(ss, gap) => \A i \in 1 .. Len(ending) : ending[i].at >= cutoff

LEMMA TrimIs ==
    ASSUME NEW ss \in Seq(Samples), NEW cutoff \in Int
    PROVE  Trims(trimExpired(ss, cutoff), ss, cutoff)
<1> DEFINE live == {i \in DOMAIN ss : ss[i].at >= cutoff}
           u == trimExpired(ss, cutoff)
<1>1. Len(ss) \in Nat /\ live \subseteq 1 .. Len(ss)
  OBVIOUS
<1>2. CASE live = {}
  <2>1. u = <<>>
    BY <1>2 DEF trimExpired
  <2>2. Suffix(<<>>, ss)
    <3>1. Len(ss) \in 0 .. Len(ss) /\ Len(<<>>) = Len(ss) - Len(ss)
      BY <1>1
    <3> QED
      BY <3>1 DEF Suffix
  <2> QED
    BY <2>1, <2>2 DEF Trims
<1>3. CASE live # {}
  <2> DEFINE m == Min(live)
  <2>1. live \subseteq Nat
    BY <1>1
  <2>2. m \in live
    <3> HIDE DEF live
    <3> QED
      BY <1>3, <2>1, LeastIs
  <2>3. m \in 1 .. Len(ss) /\ ss[m].at >= cutoff
    BY <1>1, <2>2
  <2>4. u = SubSeq(ss, m, Len(ss))
    BY <1>3 DEF trimExpired
  <2> HIDE DEF m, u
  <2>5. u \in Seq(Samples) /\ Suffix(u, ss) /\ Len(u) = Len(ss) - m + 1
        /\ \A i \in 1 .. Len(ss) - m + 1 : u[i] = ss[i + m - 1]
    BY <2>3, <2>4, FromPlace
  <2>6. ASSUME NEW gap \in Nat, Spread(ss, gap), NEW i \in 1 .. Len(u)
        PROVE  u[i].at >= cutoff
    <3>1. i + m - 1 \in 1 .. Len(ss) /\ u[i] = ss[i + m - 1]
      BY <1>1, <2>3, <2>5, <2>6
    <3>2. CASE i = 1
      BY <2>3, <3>1, <3>2
    <3>3. CASE i # 1
      <4>1. m < i + m - 1
        BY <2>3, <2>6, <3>3, <1>1, <2>5
      <4>2. ss[i + m - 1].at - ss[m].at >= gap
        BY <2>3, <2>6, <3>1, <4>1 DEF Spread
      <4>a. ss[i + m - 1] \in Samples /\ ss[m] \in Samples
        BY <2>3, <3>1
      <4>3. ss[i + m - 1].at \in Nat /\ ss[m].at \in Nat
        BY <4>a DEF Samples
      <4> QED
        BY <2>3, <2>6, <3>1, <4>2, <4>3
    <3> QED
      BY <3>2, <3>3
  <2> QED
    BY <2>5, <2>6 DEF Trims, u
<1> QED
  BY <1>2, <1>3

LEMMA NewestIs ==
    ASSUME NEW ss \in Seq(Samples), NEW n \in Nat
    PROVE  /\ Newest(ss, n) \in Seq(Samples) /\ Len(Newest(ss, n)) <= n
           /\ Suffix(Newest(ss, n), ss)
<1>1. Len(ss) \in Nat
  OBVIOUS
<1>2. CASE Len(ss) <= n
  <2>1. Newest(ss, n) = ss
    BY <1>1, <1>2 DEF Newest
  <2>2. 0 \in 0 .. Len(ss) /\ Len(ss) = Len(ss) - 0 /\ \A i \in 1 .. Len(ss) : ss[i] = ss[i + 0]
    BY <1>1
  <2>3. Suffix(ss, ss)
    BY <2>2 DEF Suffix
  <2> QED
    BY <1>2, <2>1, <2>3
<1>3. CASE Len(ss) > n /\ n > 0
  <2>1. Newest(ss, n) = SubSeq(ss, Len(ss) - n + 1, Len(ss))
    BY <1>3 DEF Newest
  <2> DEFINE m == Len(ss) - n + 1
  <2>2. m \in 1 .. Len(ss) /\ Len(ss) - m + 1 = n
    BY <1>1, <1>3
  <2>3. Newest(ss, n) = SubSeq(ss, m, Len(ss))
    BY <2>1
  <2> HIDE DEF m
  <2> QED
    BY <2>2, <2>3, FromPlace
<1>4. CASE Len(ss) > n /\ n = 0
  <2>1. Newest(ss, n) = <<>>
    BY <1>1, <1>4 DEF Newest
  <2>2. Len(ss) \in 0 .. Len(ss) /\ Len(<<>>) = Len(ss) - Len(ss)
    BY <1>1
  <2>3. Suffix(<<>>, ss)
    BY <2>2 DEF Suffix
  <2>4. <<>> \in Seq(Samples) /\ Len(<<>>) <= n
    OBVIOUS
  <2> QED
    BY <2>1, <2>3, <2>4, Zenon
<1> QED
  BY <1>1, <1>2, <1>3, <1>4

\* What a series is when a sample has been recorded in it.
Recorded(new, ss, x, gap, time, cap) ==
    /\ new \in Seq(Samples) /\ Len(new) <= cap
    /\ Until(ss, time) => Until(new, time)
    /\ \/ trimExpired(ss, x.at - settings.retention) = <<>>
       \/ Spread(ss, gap) /\ x.at >= Last(ss).at
       => Spread(new, gap)

\* The new sample in the place of the newest one, or behind it.
LEMMA PutLast ==
    ASSUME NEW live \in Seq(Samples), live # <<>>, NEW x \in Samples, ~x.echo,
           NEW least \in Int, NEW gap \in Nat, gap <= least, NEW time \in Nat, x.at <= time,
           NEW y, y = IF x.at - Last(live).at < least THEN [live EXCEPT ![Len(live)] = x] ELSE Append(live, x)
    PROVE  /\ y \in Seq(Samples)
           /\ Until(live, time) => Until(y, time)
           /\ Spread(live, gap) /\ x.at >= Last(live).at => Spread(y, gap)
<1> DEFINE n == Len(live)
<1>1. n \in Nat /\ n # 0 /\ n \in 1 .. n
  OBVIOUS
<1>2. \A i \in 1 .. n : live[i] \in Samples
  OBVIOUS
<1>3. \A i \in 1 .. n : live[i].at \in Nat
  BY <1>2 DEF Samples
<1>4. x.at \in Nat /\ Last(live) = live[n]
  BY DEF Samples, Last
<1>5. CASE x.at - Last(live).at < least
  <2>1. y = [live EXCEPT ![n] = x]
    BY <1>5
  <2>2. y \in Seq(Samples) /\ Len(y) = n /\ y[n] = x /\ \A i \in 1 .. n : i # n => y[i] = live[i]
    BY <1>1, <2>1
  <2>3. Until(live, time) => Until(y, time)
    BY <1>1, <2>2 DEF Until
  <2>4. ASSUME Spread(live, gap), x.at >= Last(live).at, NEW i \in 1 .. n, NEW j \in 1 .. n, i < j
        PROVE  y[j].at - y[i].at >= gap
    <3>1. i # n /\ y[i] = live[i]
      BY <1>1, <2>2, <2>4
    <3>2. CASE j # n
      BY <2>2, <2>4, <3>1, <3>2 DEF Spread
    <3>3. CASE j = n
      <4>1. live[n].at - live[i].at >= gap
        BY <1>1, <2>4, <3>3 DEF Spread
      <4> QED
        BY <1>1, <1>3, <1>4, <2>2, <2>4, <3>1, <3>3, <4>1
    <3> QED
      BY <3>2, <3>3
  <2>5. Spread(live, gap) /\ x.at >= Last(live).at => Spread(y, gap)
    BY <2>2, <2>4 DEF Spread
  <2> QED
    BY <2>2, <2>3, <2>5
<1>6. CASE ~(x.at - Last(live).at < least)
  <2>1. y = Append(live, x)
    BY <1>6
  <2>2. y \in Seq(Samples) /\ Len(y) = n + 1 /\ y[n + 1] = x /\ \A i \in 1 .. n : y[i] = live[i]
    BY <1>1, <2>1
  <2>3. \A i \in 1 .. Len(y) : i \in 1 .. n \/ i = n + 1
    BY <1>1, <2>2
  <2>4. Until(live, time) => Until(y, time)
    BY <2>2, <2>3 DEF Until
  <2>5. ASSUME Spread(live, gap), NEW i \in 1 .. Len(y), NEW j \in 1 .. Len(y), i < j
        PROVE  y[j].at - y[i].at >= gap
    <3>1. i \in 1 .. n /\ y[i] = live[i]
      BY <1>1, <2>2, <2>5
    <3>2. CASE j \in 1 .. n
      BY <2>2, <2>5, <3>1, <3>2 DEF Spread
    <3>3. CASE j = n + 1
      <4>1. y[j] = x /\ x.at - live[n].at >= gap
        BY <1>1, <1>3, <1>4, <1>6, <2>2, <3>3
      <4>2. i = n \/ live[n].at - live[i].at >= gap
        BY <1>1, <2>5, <3>1 DEF Spread
      <4>3. live[n].at \in Nat /\ live[i].at \in Nat /\ y[i].at = live[i].at /\ y[j].at = x.at
        BY <1>1, <1>3, <3>1, <4>1
      <4>4. CASE i = n
        BY <3>1, <4>1, <4>3, <4>4
      <4>5. CASE live[n].at - live[i].at >= gap
        <5>1. \A a, b, c \in Nat : a - b >= gap /\ b - c >= gap => a - c >= gap
          OBVIOUS
        <5> QED
          BY <1>4, <4>1, <4>3, <4>5, <5>1
      <4> QED
        BY <4>2, <4>4, <4>5
    <3> QED
      BY <2>3, <3>2, <3>3
  <2>6. Spread(live, gap) => Spread(y, gap)
    BY <2>5 DEF Spread
  <2> QED
    BY <2>2, <2>4, <2>6
<1> QED
  BY <1>5, <1>6

LEMMA RecordIs ==
    ASSUME settings \in AllSettings, NEW ss \in Seq(Samples), NEW x \in Samples, ~x.echo,
           NEW least \in Int, NEW gap \in Nat, gap <= least, NEW time \in Nat, x.at <= time,
           NEW cap \in Nat, settings.storage <= cap
    PROVE  Recorded(Record(ss, x, least), ss, x, gap, time, cap)
<1> DEFINE live == trimExpired(ss, x.at - settings.retention)
           new == Record(ss, x, least)
<1>1. settings.storage \in Nat \ {0} /\ settings.retention \in Nat /\ x.at \in Nat
  BY DEF AllSettings, Samples
<1>2. x.at - settings.retention \in Int
  BY <1>1
<1>3. Trims(live, ss, x.at - settings.retention)
  BY <1>2, TrimIs
<1>4. live \in Seq(Samples) /\ Suffix(live, ss)
  BY <1>3 DEF Trims
<1>5. CASE live = <<>>
  <2>1. new = <<x>>
    BY <1>5 DEF Record
  <2>2. <<x>> \in Seq(Samples) /\ Len(<<x>>) = 1 /\ <<x>>[1] = x
    OBVIOUS
  <2>3. Until(<<x>>, time)
    BY <2>2 DEF Until
  <2>4. Spread(<<x>>, gap)
    BY <2>2 DEF Spread
  <2>5. 1 <= cap
    BY <1>1
  <2> QED
    BY <2>1, <2>2, <2>3, <2>4, <2>5 DEF Recorded
<1>6. CASE live # <<>>
  <2> DEFINE y == IF x.at - Last(live).at < least THEN [live EXCEPT ![Len(live)] = x] ELSE Append(live, x)
  <2>1. new = Limited(y)
    BY <1>6 DEF Record
  <2> HIDE DEF live
  <2>2. /\ y \in Seq(Samples)
        /\ Until(live, time) => Until(y, time)
        /\ Spread(live, gap) /\ x.at >= Last(live).at => Spread(y, gap)
    BY <1>4, <1>6, PutLast
  <2> HIDE DEF y, new
  <2>3. new = Newest(y, settings.storage)
    BY <1>1, <2>1 DEF Limited
  <2>4. new \in Seq(Samples) /\ Len(new) <= settings.storage /\ Suffix(new, y)
    BY <1>1, <2>2, <2>3, NewestIs
  <2>5. (Until(y, time) => Until(new, time)) /\ (Spread(y, gap) => Spread(new, gap))
    BY <2>2, <2>4, SuffixKeeps
  <2>6. /\ Until(ss, time) => Until(live, time)
        /\ Spread(ss, gap) => Spread(live, gap)
        /\ Last(live) = Last(ss)
    BY <1>4, <1>6, SuffixKeeps
  <2>7. Len(new) <= cap
    BY <1>1, <2>4
  <2>8. live = trimExpired(ss, x.at - settings.retention)
    BY DEF live
  <2>9. Recorded(new, ss, x, gap, time, cap)
    BY <1>6, <2>2, <2>4, <2>5, <2>6, <2>7, <2>8, Zenon DEF Recorded
  <2> QED
    BY <2>9 DEF new
<1> QED
  BY <1>5, <1>6

\* A history of a node is no longer than the limit, now or before.
LEMMA AppendIs ==
    ASSUME settings \in AllSettings, NEW ss \in Seq(Samples), NEW x \in Samples, NEW least,
           NEW cap \in Nat, settings.storage <= cap, Len(ss) <= cap
    PROVE  HistoryAppend(ss, x, least) \in Seq(Samples) /\ Len(HistoryAppend(ss, x, least)) <= cap
<1> DEFINE live == filtered(ss, x.at - settings.retention)
           new == HistoryAppend(ss, x, least)
<1>1. settings.storage \in Nat \ {0}
  BY DEF AllSettings
<1>2. live \in Seq(Samples) /\ Len(live) <= Len(ss)
  <2> DEFINE I == {i \in DOMAIN ss : ss[i].at >= x.at - settings.retention}
  <2>1. I \subseteq DOMAIN ss
    OBVIOUS
  <2>2. live = Selected(ss, I)
    BY DEF filtered
  <2> HIDE DEF I, live
  <2> QED
    BY <2>1, <2>2, SelectedIs
<1>3. CASE live # <<>> /\ least > 0 /\ x.at - Last(live).at < least
  <2>1. new = [live EXCEPT ![Len(live)] = x]
    BY <1>3 DEF HistoryAppend
  <2> HIDE DEF live
  <2>2. [live EXCEPT ![Len(live)] = x] \in Seq(Samples) /\ Len([live EXCEPT ![Len(live)] = x]) = Len(live)
    BY <1>2, <1>3
  <2>3. Len(live) <= cap
    BY <1>2
  <2> QED
    BY <2>1, <2>2, <2>3
<1>4. CASE ~(live # <<>> /\ least > 0 /\ x.at - Last(live).at < least)
  <2>1. new = Limited(Append(live, x))
    BY <1>4 DEF HistoryAppend
  <2> HIDE DEF live
  <2> DEFINE y == Append(live, x)
  <2>2. y \in Seq(Samples)
    BY <1>2
  <2> HIDE DEF y
  <2>3. Limited(y) = Newest(y, settings.storage)
    BY <1>1 DEF Limited
  <2>4. Newest(y, settings.storage) \in Seq(Samples) /\ Len(Newest(y, settings.storage)) <= settings.storage
    BY <1>1, <2>2, NewestIs
  <2>5. Len(Newest(y, settings.storage)) <= cap
    BY <1>1, <2>4
  <2> QED
    BY <2>1, <2>3, <2>4, <2>5 DEF y
<1> QED
  BY <1>3, <1>4

-----------------------------------------------------------------------------
(* The histories.                                                          *)

Infos ==
    [srv : ServerIds \cup {Nothing}, lat : Lats, online : BOOLEAN, src : Sources, fall : BOOLEAN, was : BOOLEAN]
Pollings == [pc : {"idle", "ping", "got"}, info : Infos]
Answers == [at : Nat, cap : Nat, ordered : BOOLEAN, list : Seq(Samples)]

Cap == Max2(plan.settings.storage, plan.storage)
GapOf(s) == Min2(settings.gap, IF plan.conf[s].auto THEN plan.conf[s].every ELSE settings.gap)

PlanTypes ==
    /\ plan \in Plans /\ settings \in AllSettings
    /\ settings.storage \in {plan.settings.storage, plan.storage}
    /\ now \in Nat /\ now <= plan.until

PlaceTypes ==
    /\ there \subseteq Targets /\ up \subseteq ServerIds /\ up \subseteq there
    /\ cached \in [ServerIds -> [lat : Lats, motd : BOOLEAN]]
    /\ poll \in [Polls -> Pollings]
    /\ \A q \in Polls : poll[q].pc # "idle" => poll[q].info.srv \in ServerIds /\ poll[q].info.was

SeriesGood ==
    /\ series \in [ServerIds -> Seq(Samples)]
    /\ \A s \in ServerIds :
          /\ Len(series[s]) <= Cap /\ Until(series[s], now)
          /\ s \notin late => Spread(series[s], GapOf(s))

AnswerGood == served \in Answers /\ ServedIsCurrent

HistInv == PlanTypes /\ PlaceTypes /\ SeriesGood /\ AnswerGood

\* What no step changes in the plan.
SamePlan ==
    /\ plan' \in Plans
    /\ plan'.conf = plan.conf /\ plan'.settings = plan.settings /\ plan'.storage = plan.storage
    /\ plan'.until = plan.until

LEMMA PlanSpends ==
    ASSUME plan \in Plans
    PROVE  /\ plan.polls > 0 /\ plan' = [plan EXCEPT !.polls = @ - 1] => SamePlan
           /\ plan.reads > 0 /\ plan' = [plan EXCEPT !.reads = @ - 1] => SamePlan
           /\ plan.deletes > 0 /\ plan' = [plan EXCEPT !.deletes = @ - 1] => SamePlan
           /\ plan.toggles > 0 /\ plan' = [plan EXCEPT !.toggles = @ - 1] => SamePlan
           /\ plan.pongs > 0 /\ plan' = [plan EXCEPT !.pongs = @ - 1] => SamePlan
           /\ plan.unresolved > 0 /\ plan' = [plan EXCEPT !.unresolved = @ - 1] => SamePlan
           /\ plan.triggers > 0 /\ plan' = [plan EXCEPT !.triggers = @ - 1] => SamePlan
           /\ plan.sessions > 0 /\ plan' = [plan EXCEPT !.sessions = @ - 1] => SamePlan
BY DEF Plans, SamePlan

LEMMA PlanNumbers ==
    ASSUME PlanTypes
    PROVE  /\ Cap \in Nat /\ settings.storage <= Cap
           /\ settings.gap \in Nat \ {0} /\ settings.storage \in Nat \ {0} /\ settings.retention \in Nat \ {0}
           /\ settings.render \in Nat \ {0}
           /\ \A t \in Targets : plan.conf[t] \in Confs
           /\ \A s \in ServerIds : /\ plan.conf[s].every \in Nat /\ plan.conf[s].auto \in BOOLEAN
                                   /\ GapOf(s) \in Nat
<1>1. /\ plan.settings.storage \in Nat \ {0} /\ plan.storage \in Nat \ {0}
      /\ plan.conf \in [Targets -> Confs]
  BY DEF PlanTypes, Plans, AllSettings
<1>2. /\ settings.gap \in Nat \ {0} /\ settings.storage \in Nat \ {0} /\ settings.retention \in Nat \ {0}
      /\ settings.render \in Nat \ {0}
  BY DEF PlanTypes, AllSettings
<1>3. \A t \in Targets : plan.conf[t] \in Confs
  BY <1>1
<1>4. \A s \in ServerIds : plan.conf[s] \in Confs
  BY <1>3 DEF Targets
<1>5. \A s \in ServerIds : plan.conf[s].every \in Nat /\ plan.conf[s].auto \in BOOLEAN
  BY <1>4 DEF Confs
<1>6. Cap \in Nat /\ settings.storage <= Cap
  BY <1>1, <1>2 DEF Cap, Max2, PlanTypes
<1>7. \A s \in ServerIds : GapOf(s) \in Nat
  BY <1>2, <1>5 DEF GapOf, Min2
<1> QED
  BY <1>2, <1>3, <1>5, <1>6, <1>7

LEMMA PlanStays ==
    ASSUME PlanTypes, SamePlan, settings' = settings, now' \in {now, now + 1}, now' <= plan.until
    PROVE  PlanTypes' /\ Cap' = Cap
BY DEF PlanTypes, SamePlan, Cap

LEMMA UntilLater ==
    ASSUME NEW ss \in Seq(Samples), NEW a \in Nat, NEW b \in Nat, a <= b, Until(ss, a)
    PROVE  Until(ss, b)
<1>1. \A i \in 1 .. Len(ss) : ss[i] \in Samples
  OBVIOUS
<1>2. \A i \in 1 .. Len(ss) : ss[i].at \in Nat
  BY <1>1 DEF Samples
<1> QED
  BY <1>2 DEF Until

\* One series of the next state, by itself.
LEMMA SeriesNext ==
    ASSUME SamePlan, settings'.gap = settings.gap,
           series' \in [ServerIds -> Seq(Samples)],
           \A s \in ServerIds : /\ Len(series'[s]) <= Cap /\ Until(series'[s], now')
                                /\ s \notin late' => Spread(series'[s], GapOf(s))
    PROVE  SeriesGood'
<1>1. Cap' = Cap
  BY DEF Cap, SamePlan
<1>2. ASSUME NEW s \in ServerIds
      PROVE  GapOf(s)' = GapOf(s)
  BY DEF GapOf, SamePlan
<1>3. ASSUME NEW s \in ServerIds
      PROVE  (/\ Len(series[s]) <= Cap /\ Until(series[s], now)
              /\ s \notin late => Spread(series[s], GapOf(s)))'
  <2>1. (Until(series[s], now))' <=> Until(series'[s], now')
    BY DEF Until
  <2>2. (Spread(series[s], GapOf(s)))' <=> Spread(series'[s], GapOf(s)')
    BY DEF Spread
  <2> QED
    BY <1>1, <1>2, <2>1, <2>2
<1> QED
  BY <1>3 DEF SeriesGood

LEMMA SeriesStay ==
    ASSUME PlanTypes, SeriesGood, SamePlan, settings'.gap = settings.gap,
           now' \in Nat, now <= now', UNCHANGED <<series, late>>
    PROVE  SeriesGood'
<1>1. \A s \in ServerIds : Until(series[s], now')
  BY UntilLater DEF PlanTypes, SeriesGood
<1> QED
  BY <1>1, SeriesNext DEF SeriesGood

LEMMA AnswerStays ==
    ASSUME AnswerGood, served' = served, settings'.retention = settings.retention
    PROVE  AnswerGood'
BY DEF AnswerGood, ServedIsCurrent

\* The gap that applies to a sample is at least the one the series promises.
LEMMA GapHolds ==
    ASSUME PlanTypes, NEW s \in ServerIds, NEW src
    PROVE  coalesce(settings.gap, Override(s, src)) \in Int /\ GapOf(s) <= coalesce(settings.gap, Override(s, src))
<1>1. Override(s, src) = 0 \/ (plan.conf[s].auto /\ Override(s, src) = plan.conf[s].every)
  BY DEF Override
<1> QED
  BY <1>1, PlanNumbers DEF coalesce, GapOf, Min2

\* RecordServerLatency keeps the series good, whatever samples of the past it is given.
LEMMA RecordsGood ==
    ASSUME PlanTypes, SeriesGood, SamePlan, settings' = settings, now' = now,
           NEW new, DOMAIN new \subseteq ServerIds,
           \A s \in DOMAIN new : new[s] \in Samples /\ ~new[s].echo /\ new[s].at <= now,
           RecordServerLatency(new)
    PROVE  SeriesGood'
<1> DEFINE gap(s) == coalesce(settings.gap, Override(s, new[s].src))
           fresh(s) == trimExpired(series[s], new[s].at - settings.retention) = <<>>
<1>1. /\ series' = [s \in ServerIds |-> IF s \in DOMAIN new THEN Record(series[s], new[s], gap(s)) ELSE series[s]]
      /\ late' = {s \in late : ~(s \in DOMAIN new /\ fresh(s))}
                 \cup {s \in DOMAIN new : ~fresh(s) /\ new[s].at < Last(series[s]).at}
  BY DEF RecordServerLatency
<1> HIDE DEF gap
<1>2. ASSUME NEW s \in ServerIds
      PROVE  /\ series'[s] \in Seq(Samples) /\ Len(series'[s]) <= Cap /\ Until(series'[s], now')
             /\ s \notin late' => Spread(series'[s], GapOf(s))
  <2>0. /\ series[s] \in Seq(Samples) /\ Len(series[s]) <= Cap /\ Until(series[s], now)
        /\ s \notin late => Spread(series[s], GapOf(s))
    BY DEF SeriesGood
  <2>1. CASE s \notin DOMAIN new
    <3>1. series'[s] = series[s]
      BY <1>1, <2>1
    <3>2. s \notin late' => s \notin late
      BY <1>1, <2>1
    <3> QED
      BY <2>0, <3>1, <3>2
  <2>2. CASE s \in DOMAIN new
    <3>1. series'[s] = Record(series[s], new[s], gap(s))
      BY <1>1, <2>2
    <3>2. gap(s) \in Int /\ GapOf(s) <= gap(s) /\ GapOf(s) \in Nat
      BY GapHolds, PlanNumbers DEF gap
    <3>3. now \in Nat /\ settings \in AllSettings /\ Cap \in Nat /\ settings.storage <= Cap
      BY PlanNumbers DEF PlanTypes
    <3>4. new[s] \in Samples /\ ~new[s].echo /\ new[s].at <= now
      BY <2>2
    <3>5. Recorded(Record(series[s], new[s], gap(s)), series[s], new[s], GapOf(s), now, Cap)
      BY <2>0, <3>2, <3>3, <3>4, RecordIs
    <3>6. s \notin late' => fresh(s) \/ (s \notin late /\ ~(new[s].at < Last(series[s]).at))
      BY <1>1, <2>2
    <3>7. ~fresh(s) => Last(series[s]).at \in Nat
      <4> SUFFICES ASSUME ~fresh(s)
                   PROVE  Last(series[s]).at \in Nat
        OBVIOUS
      <4>1. new[s].at - settings.retention \in Int
        BY <3>4, PlanNumbers DEF Samples
      <4>2. Suffix(trimExpired(series[s], new[s].at - settings.retention), series[s])
            /\ trimExpired(series[s], new[s].at - settings.retention) \in Seq(Samples)
        BY <2>0, <4>1, TrimIs DEF Trims
      <4>3. series[s] # <<>>
        BY <2>0, <3>2, <3>3, <4>2, SuffixKeeps
      <4>4. Last(series[s]) \in Samples
        BY <2>0, <4>3 DEF Last
      <4> QED
        BY <4>4 DEF Samples
    <3>8. new[s].at \in Nat
      BY <3>4 DEF Samples
    <3>9. s \notin late' => fresh(s) \/ (s \notin late /\ new[s].at >= Last(series[s]).at)
      BY <3>6, <3>7, <3>8
    <3> HIDE DEF fresh
    <3>10. s \notin late' => Spread(series'[s], GapOf(s))
      BY <2>0, <3>1, <3>5, <3>9 DEF Recorded, fresh
    <3> QED
      BY <2>0, <3>1, <3>5, <3>10 DEF Recorded
  <2> QED
    BY <2>1, <2>2
<1>3. series' \in [ServerIds -> Seq(Samples)]
  BY <1>1, <1>2
<1> QED
  BY <1>2, <1>3, SeriesNext

-----------------------------------------------------------------------------
(* The steps of the histories.                                             *)

LEMMA PollTo ==
    ASSUME PlaceTypes, UNCHANGED <<there, up, cached>>, NEW q \in Polls, NEW p \in Pollings,
           p.pc # "idle" => p.info.srv \in ServerIds /\ p.info.was,
           poll' = [poll EXCEPT ![q] = p]
    PROVE  PlaceTypes'
<1>1. poll' \in [Polls -> Pollings] /\ \A o \in Polls : poll'[o] = IF o = q THEN p ELSE poll[o]
  BY DEF PlaceTypes
<1>2. \A o \in Polls : poll'[o].pc # "idle" => poll'[o].info.srv \in ServerIds /\ poll'[o].info.was
  BY <1>1 DEF PlaceTypes
<1> QED
  BY <1>1, <1>2 DEF PlaceTypes

LEMMA InfoIs ==
    ASSUME NEW s \in ServerIds, NEW ms \in Lats, NEW on \in BOOLEAN, NEW src \in Sources, NEW fall \in BOOLEAN
    PROVE  /\ Info(s, ms, on, src, fall) \in Infos
           /\ Info(s, ms, on, src, fall).srv = s
           /\ Info(s, ms, on, src, fall).was = (s \in there)
BY DEF Info, Infos

LEMMA IdleIs == IdlePoll \in Pollings /\ IdlePoll.pc = "idle"
<1>1. 0 \in Lats
  BY HistoryConstants
<1>2. NoInfo \in Infos
  BY <1>1 DEF NoInfo, Infos, Sources
<1> QED
  BY <1>2 DEF IdlePoll, Pollings

\* All but the polls stays.
LEMMA PollStep ==
    ASSUME HistInv, SamePlan, UNCHANGED <<now, settings, series, served, late>>, PlaceTypes'
    PROVE  HistInv'
<1>1. PlanTypes'
  BY PlanStays DEF HistInv, PlanTypes
<1>2. SeriesGood'
  BY SeriesStay DEF HistInv, PlanTypes
<1>3. AnswerGood'
  BY AnswerStays DEF HistInv
<1> QED
  BY <1>1, <1>2, <1>3 DEF HistInv

LEMMA PlacesStay ==
    ASSUME PlaceTypes, UNCHANGED <<there, up, cached, poll>>
    PROVE  PlaceTypes'
BY DEF PlaceTypes

LEMMA SameIsSame == PlanTypes /\ plan' = plan => SamePlan
BY DEF PlanTypes, SamePlan

LEMMA CachedIs ==
    ASSUME PlaceTypes, NEW s \in ServerIds
    PROVE  cached[s].lat \in Lats /\ cached[s].motd \in BOOLEAN /\ cached[s].lat \in Nat
<1>1. cached[s] \in [lat : Lats, motd : BOOLEAN]
  BY DEF PlaceTypes
<1> QED
  BY <1>1, HistoryConstants

LEMMA PingFromConfigGood ==
    ASSUME HistInv, NEW q \in Polls, NEW s \in ServerIds, PingFromConfig(q, s)
    PROVE  HistInv'
<1>1. SamePlan /\ UNCHANGED <<now, settings, there, up, cached, series, served, late>> /\ s \in there
  BY PlanSpends DEF PingFromConfig, PollStarts, HistInv, PlanTypes
<1>2. \E p \in Pollings : p.info.srv = s /\ p.info.was /\ poll' = [poll EXCEPT ![q] = p]
  <2>0. 0 \in Lats /\ cached[s].lat \in Lats
    BY CachedIs, HistoryConstants DEF HistInv
  <2>1. CASE poll' = [poll EXCEPT ![q] = [pc |-> "got", info |-> Info(s, 0, FALSE, "stopped", FALSE)]]
    BY <1>1, <2>0, <2>1, InfoIs DEF Pollings, Sources
  <2>2. CASE poll' = [poll EXCEPT ![q] = [pc |-> "got", info |-> Info(s, cached[s].lat, TRUE, "proxy", FALSE)]]
    BY <1>1, <2>0, <2>2, InfoIs DEF Pollings, Sources
  <2>3. CASE poll' = [poll EXCEPT ![q] = [pc |-> "got", info |-> Info(s, 0, TRUE, "proxy", TRUE)]]
    BY <1>1, <2>0, <2>3, InfoIs DEF Pollings, Sources
  <2>4. CASE poll' = [poll EXCEPT ![q] = [pc |-> "ping", info |-> Info(s, 0, FALSE, "direct", TRUE)]]
    BY <1>1, <2>0, <2>4, InfoIs DEF Pollings, Sources
  <2> QED
    BY <2>1, <2>2, <2>3, <2>4, Zenon DEF PingFromConfig, Got
<1>3. PlaceTypes'
  BY <1>1, <1>2, PollTo DEF HistInv
<1> QED
  BY <1>1, <1>3, PollStep

LEMMA LatencyInfoGood ==
    ASSUME HistInv, NEW q \in Polls, NEW s \in ServerIds, LatencyInfo(q, s)
    PROVE  HistInv'
<1>1. SamePlan /\ UNCHANGED <<now, settings, there, up, cached, series, served, late>>
  BY PlanSpends DEF LatencyInfo, PollStarts, HistInv, PlanTypes
<1>2. \/ poll' = poll
      \/ \E p \in Pollings : p.info.srv = s /\ p.info.was /\ poll' = [poll EXCEPT ![q] = p]
  <2>0. 0 \in Lats /\ cached[s].lat \in Lats
    BY CachedIs, HistoryConstants DEF HistInv
  <2>1. CASE Found(s) /\ Got(q, Info(s, cached[s].lat, TRUE, "proxy", TRUE))
    <3>1. s \in there
      BY <2>1 DEF Found, HistInv, PlaceTypes
    <3>2. poll' = [poll EXCEPT ![q] = [pc |-> "got", info |-> Info(s, cached[s].lat, TRUE, "proxy", TRUE)]]
      BY <2>1 DEF Got
    <3> QED
      BY <3>1, <3>2, <2>0, InfoIs DEF Pollings, Sources
  <2>2. CASE /\ s \in there
             /\ poll' = [poll EXCEPT ![q] = [pc |-> "ping", info |-> Info(s, 0, FALSE, "direct", FALSE)]]
    BY <2>0, <2>2, InfoIs DEF Pollings, Sources
  <2>3. ASSUME NEW on \in BOOLEAN, s \in up, Got(q, Info(s, 0, on, "proxy", TRUE))
        PROVE  \E p \in Pollings : p.info.srv = s /\ p.info.was /\ poll' = [poll EXCEPT ![q] = p]
    <3>1. s \in there
      BY <2>3 DEF HistInv, PlaceTypes
    <3>2. poll' = [poll EXCEPT ![q] = [pc |-> "got", info |-> Info(s, 0, on, "proxy", TRUE)]]
      BY <2>3 DEF Got
    <3> QED
      BY <3>1, <3>2, <2>0, InfoIs DEF Pollings, Sources
  <2> QED
    BY <2>1, <2>2, <2>3, Zenon DEF LatencyInfo, Unclear
<1>3. PlaceTypes'
  BY <1>1, <1>2, PollTo, PlacesStay DEF HistInv
<1> QED
  BY <1>1, <1>3, PollStep

LEMMA PingAnsweredGood ==
    ASSUME HistInv, NEW q \in Polls, NEW ms \in plan.lats, NEW on \in BOOLEAN, PingAnswered(q, ms, on)
    PROVE  HistInv'
<1>1. /\ SamePlan /\ UNCHANGED <<now, settings, there, up, cached, series, served, late>>
      /\ poll[q].pc = "ping"
      /\ poll' = [poll EXCEPT ![q] = [pc |-> "got", info |-> [poll[q].info EXCEPT !.lat = ms, !.online = on]]]
  BY SameIsSame DEF PingAnswered, Got, HistInv
<1>2. ms \in Lats
  BY DEF HistInv, PlanTypes, Plans
<1> DEFINE i == [poll[q].info EXCEPT !.lat = ms, !.online = on]
<1>3. poll[q].info \in Infos /\ poll[q].info.srv \in ServerIds /\ poll[q].info.was
  BY <1>1 DEF HistInv, PlaceTypes, Pollings
<1>4. i \in Infos /\ i.srv = poll[q].info.srv /\ i.was = poll[q].info.was
  BY <1>2, <1>3 DEF Infos
<1> HIDE DEF i
<1>5. [pc |-> "got", info |-> i] \in Pollings
  BY <1>4 DEF Pollings
<1>6. poll' = [poll EXCEPT ![q] = [pc |-> "got", info |-> i]]
  BY <1>1 DEF i
<1>7. PlaceTypes'
  BY <1>1, <1>3, <1>4, <1>5, <1>6, PollTo DEF HistInv
<1> QED
  BY <1>1, <1>7, PollStep

\* A series that is trimmed stays good.
LEMMA TrimmedGood ==
    ASSUME PlanTypes, SeriesGood, SamePlan, settings' = settings, now' = now, late' = late,
           NEW s \in ServerIds, NEW cutoff \in Int,
           series' = [series EXCEPT ![s] = trimExpired(series[s], cutoff)]
    PROVE  SeriesGood'
<1> DEFINE u == trimExpired(series[s], cutoff)
<1>1. /\ series[s] \in Seq(Samples) /\ Len(series[s]) <= Cap /\ Until(series[s], now)
      /\ s \notin late => Spread(series[s], GapOf(s))
  BY DEF SeriesGood
<1>2. u \in Seq(Samples) /\ Suffix(u, series[s])
  BY <1>1, TrimIs DEF Trims
<1>3. now \in Nat /\ GapOf(s) \in Int /\ Cap \in Nat
  BY PlanNumbers DEF PlanTypes
<1> HIDE DEF u
<1>4. Len(u) <= Len(series[s]) /\ Until(u, now) /\ (s \notin late => Spread(u, GapOf(s)))
  BY <1>1, <1>2, <1>3, SuffixKeeps
<1>5. Len(u) <= Cap
  BY <1>1, <1>2, <1>3, <1>4
<1>6. /\ series' \in [ServerIds -> Seq(Samples)]
      /\ \A o \in ServerIds : series'[o] = IF o = s THEN u ELSE series[o]
  BY <1>2 DEF SeriesGood, u
<1>7. \A o \in ServerIds : /\ Len(series'[o]) <= Cap /\ Until(series'[o], now')
                           /\ o \notin late' => Spread(series'[o], GapOf(o))
  BY <1>4, <1>5, <1>6 DEF SeriesGood
<1> QED
  BY <1>6, <1>7, SeriesNext

LEMMA SampleIs ==
    ASSUME NEW at \in Nat, NEW ms \in Lats, NEW on \in BOOLEAN, NEW src \in Sources, NEW echo \in BOOLEAN
    PROVE  /\ Sample(at, ms, on, src, echo) \in Samples
           /\ Sample(at, ms, on, src, echo).at = at
           /\ Sample(at, ms, on, src, echo).echo = echo
BY DEF Sample, Samples

LEMMA PollRecordsGood ==
    ASSUME HistInv, NEW q \in Polls, PollRecords(q)
    PROVE  HistInv'
<1> DEFINE i == poll[q].info
           v == applyLastKnownLatency(i)
           new == [s \in {i.srv} |-> Sample(now, v.lat, i.online, i.src, v.echo)]
<1>1. /\ poll[q].pc = "got" /\ poll' = [poll EXCEPT ![q] = IdlePoll]
      /\ UNCHANGED <<plan, now, settings, there, up, cached, deleting, served>>
  BY DEF PollRecords
<1>2. SamePlan /\ PlanTypes /\ SeriesGood /\ now \in Nat
  BY <1>1, SameIsSame DEF HistInv, PlanTypes
<1>3. PlaceTypes'
  BY <1>1, IdleIs, PollTo DEF HistInv
<1>4. /\ i.srv \in ServerIds /\ i.lat \in Lats /\ i.online \in BOOLEAN /\ i.src \in Sources
  <2>1. i \in Infos /\ i.srv \in ServerIds
    BY <1>1 DEF HistInv, PlaceTypes, Pollings
  <2> QED
    BY <2>1 DEF Infos
<1>5. SeriesGood'
  <2>1. CASE WorthRecording(i, v)
    <3>1. RecordServerLatency(new)
      BY <2>1 DEF PollRecords
    <3>2. v = [lat |-> i.lat, echo |-> FALSE]
      BY <2>1 DEF WorthRecording, applyLastKnownLatency
    <3>3. v.lat = i.lat /\ v.echo = FALSE
      BY <3>2
    <3> DEFINE x == Sample(now, v.lat, i.online, i.src, v.echo)
    <3>4. x \in Samples /\ ~x.echo /\ x.at = now
      <4>1. x = Sample(now, i.lat, i.online, i.src, FALSE)
        BY <3>3
      <4> HIDE DEF v, i, x
      <4>3. x \in Samples /\ x.at = now
        BY <1>2, <1>4, <4>1 DEF Sample, Samples
      <4>4. x.echo = FALSE
        BY <4>1 DEF Sample
      <4> QED
        BY <4>3, <4>4
    <3>5. new = [s \in {i.srv} |-> x]
      OBVIOUS
    <3> HIDE DEF x, v, i
    <3>6. DOMAIN new \subseteq ServerIds /\ \A s \in DOMAIN new : new[s] = x
      BY <1>4, <3>5
    <3> HIDE DEF new
    <3> QED
      BY <1>1, <1>2, <3>1, <3>4, <3>6, RecordsGood
  <2>2. CASE ~WorthRecording(i, v)
    <3>1. /\ late' = late
          /\ \/ series' = series
             \/ series' = [series EXCEPT ![i.srv] = trimExpired(series[i.srv], now - settings.retention)]
      BY <2>2 DEF PollRecords
    <3>2. now - settings.retention \in Int
      BY <1>2, PlanNumbers
    <3>3. CASE series' = series
      BY <1>1, <1>2, <3>1, <3>3, SeriesStay
    <3>4. CASE series' = [series EXCEPT ![i.srv] = trimExpired(series[i.srv], now - settings.retention)]
      BY <1>1, <1>2, <1>4, <3>1, <3>2, <3>4, TrimmedGood
    <3> QED
      BY <3>1, <3>3, <3>4
  <2> QED
    BY <2>1, <2>2
<1>6. PlanTypes'
  BY <1>1, <1>2, PlanStays DEF PlanTypes
<1>7. AnswerGood'
  BY <1>1, AnswerStays DEF HistInv
<1> QED
  BY <1>3, <1>5, <1>6, <1>7 DEF HistInv

LEMMA SnapshotGood ==
    ASSUME HistInv, NEW s \in ServerIds, NEW n \in {0, 1}, Snapshot(s, n)
    PROVE  HistInv'
<1> DEFINE u == trimExpired(series[s], now - settings.retention)
           c == clampHistoryLimit(n)
<1>1. /\ SamePlan /\ UNCHANGED <<now, settings, there, up, cached, poll, late>>
      /\ series' = [series EXCEPT ![s] = u]
      /\ served' = [at |-> now, cap |-> c, ordered |-> s \notin late, list |-> Newest(u, c)]
  BY PlanSpends DEF Snapshot, HistInv, PlanTypes
<1>2. PlanTypes /\ PlaceTypes /\ SeriesGood /\ now \in Nat
  BY DEF HistInv, PlanTypes
<1>3. now - settings.retention \in Int
  BY <1>2, PlanNumbers
<1>4. SeriesGood'
  BY <1>1, <1>2, <1>3, TrimmedGood
<1>5. AnswerGood'
  <2>1. c \in Nat
    BY <1>2, PlanNumbers DEF clampHistoryLimit, Min2
  <2>2. series[s] \in Seq(Samples) /\ (s \notin late => Spread(series[s], GapOf(s))) /\ GapOf(s) \in Nat
    BY <1>2, PlanNumbers DEF SeriesGood
  <2>3. Trims(u, series[s], now - settings.retention)
    BY <1>3, <2>2, TrimIs
  <2> HIDE DEF u, c
  <2>4. u \in Seq(Samples)
    BY <2>3 DEF Trims
  <2>5. s \notin late => \A i \in 1 .. Len(u) : u[i].at >= now - settings.retention
    BY <2>2, <2>3 DEF Trims
  <2> DEFINE w == Newest(u, c)
  <2>6. w \in Seq(Samples) /\ Len(w) <= c /\ Suffix(w, u)
    BY <2>1, <2>4, NewestIs
  <2> HIDE DEF w
  <2>7. s \notin late => \A i \in 1 .. Len(w) : w[i].at >= now - settings.retention
    <3>1. PICK d \in 0 .. Len(u) : Len(w) = Len(u) - d /\ \A i \in 1 .. Len(w) : w[i] = u[i + d]
      BY <2>6 DEF Suffix
    <3>2. \A i \in 1 .. Len(w) : i + d \in 1 .. Len(u)
      BY <2>4, <2>6, <3>1
    <3> QED
      BY <2>5, <3>1, <3>2
  <2>8. /\ served'.at = now /\ served'.cap = c /\ served'.ordered = (s \notin late) /\ served'.list = w
        /\ served' \in Answers
    BY <1>1, <1>2, <2>1, <2>6 DEF Answers, w
  <2>9. settings' = settings /\ DOMAIN w = 1 .. Len(w)
    BY <1>1, <2>6
  <2> QED
    BY <2>6, <2>7, <2>8, <2>9 DEF AnswerGood, ServedIsCurrent
<1>6. PlanTypes'
  BY <1>1, <1>2, PlanStays DEF PlanTypes
<1>7. PlaceTypes'
  BY <1>1, <1>2, PlacesStay
<1> QED
  BY <1>4, <1>5, <1>6, <1>7 DEF HistInv

LEMMA DeleteServerEntryGood ==
    ASSUME HistInv, NEW s \in ServerIds, DeleteServerEntry(s)
    PROVE  HistInv'
<1>1. SamePlan /\ UNCHANGED <<now, settings, cached, series, poll, served, late>>
  BY PlanSpends DEF DeleteServerEntry, HistInv, PlanTypes
<1>2. there' = there \ {s} /\ up' = up \ {s}
  BY DEF DeleteServerEntry
<1>3. PlaceTypes'
  BY <1>1, <1>2 DEF HistInv, PlaceTypes
<1> QED
  BY <1>1, <1>3, PollStep

LEMMA EmptyIsGood ==
    ASSUME NEW gap \in Int, NEW time
    PROVE  <<>> \in Seq(Samples) /\ Len(<<>>) = 0 /\ Until(<<>>, time) /\ Spread(<<>>, gap)
BY DEF Until, Spread

LEMMA DeleteSeriesGood ==
    ASSUME HistInv, NEW s \in ServerIds, DeleteSeries(s)
    PROVE  HistInv'
<1>1. /\ SamePlan /\ UNCHANGED <<now, settings, there, up, cached, poll, served>>
      /\ series' = [series EXCEPT ![s] = <<>>] /\ late' = late \ {s}
  BY SameIsSame DEF DeleteSeries, HistInv
<1>2. PlanTypes /\ PlaceTypes /\ SeriesGood /\ AnswerGood /\ now \in Nat
  BY DEF HistInv, PlanTypes
<1>3. SeriesGood'
  <2>1. /\ series' \in [ServerIds -> Seq(Samples)]
        /\ \A o \in ServerIds : series'[o] = IF o = s THEN <<>> ELSE series[o]
    BY <1>1, <1>2 DEF SeriesGood
  <2>2. Cap \in Nat /\ GapOf(s) \in Int
    BY <1>2, PlanNumbers
  <2>3. Len(<<>>) <= Cap /\ Until(<<>>, now) /\ Spread(<<>>, GapOf(s))
    BY <2>2, EmptyIsGood
  <2>4. \A o \in ServerIds : /\ Len(series'[o]) <= Cap /\ Until(series'[o], now')
                             /\ o \notin late' => Spread(series'[o], GapOf(o))
    BY <1>1, <1>2, <2>1, <2>3 DEF SeriesGood
  <2> QED
    BY <1>1, <2>1, <2>4, SeriesNext
<1>4. PlanTypes'
  BY <1>1, <1>2, PlanStays DEF PlanTypes
<1>5. PlaceTypes' /\ AnswerGood'
  BY <1>1, <1>2, PlacesStay, AnswerStays
<1> QED
  BY <1>3, <1>4, <1>5 DEF HistInv

LEMMA CachedTo ==
    ASSUME HistInv, SamePlan, UNCHANGED <<now, settings, there, series, poll, served, late>>,
           NEW s \in ServerIds, NEW ms \in Lats, NEW m \in BOOLEAN,
           cached' = [cached EXCEPT ![s] = [lat |-> ms, motd |-> m]],
           s \in there, up' \in {up, up \ {s}, up \cup {s}}
    PROVE  HistInv'
<1>1. [lat |-> ms, motd |-> m] \in [lat : Lats, motd : BOOLEAN]
  OBVIOUS
<1>2. cached' \in [ServerIds -> [lat : Lats, motd : BOOLEAN]]
  BY <1>1 DEF HistInv, PlaceTypes
<1>3. PlaceTypes'
  BY <1>2 DEF HistInv, PlaceTypes
<1> QED
  BY <1>3, PollStep

LEMMA ToggleGood ==
    ASSUME HistInv, NEW s \in ServerIds, Toggle(s)
    PROVE  HistInv'
<1>1. SamePlan /\ UNCHANGED <<now, settings, there, series, poll, served, late>> /\ s \in there
  BY PlanSpends DEF Toggle, HistInv, PlanTypes
<1>2. 0 \in Lats /\ FALSE \in BOOLEAN
  BY HistoryConstants
<1>3. /\ cached' = [cached EXCEPT ![s] = [lat |-> 0, motd |-> FALSE]]
      /\ up' \in {up, up \ {s}, up \cup {s}}
  BY DEF Toggle
<1> QED
  BY <1>1, <1>2, <1>3, CachedTo

LEMMA PongGood ==
    ASSUME HistInv, NEW s \in ServerIds, NEW ms \in plan.lats, NEW m \in BOOLEAN, Pong(s, ms, m)
    PROVE  HistInv'
<1>1. /\ SamePlan /\ UNCHANGED <<now, settings, there, up, series, poll, served, late>>
      /\ cached' = [cached EXCEPT ![s] = [lat |-> ms, motd |-> m]]
  BY PlanSpends DEF Pong, HistInv, PlanTypes
<1>2. s \in there /\ ms \in Lats
  BY DEF Pong, HistInv, PlaceTypes, PlanTypes, Plans
<1> QED
  BY <1>1, <1>2, CachedTo

LEMMA ConfigureGood ==
    ASSUME HistInv, Configure
    PROVE  HistInv'
<1>1. /\ SamePlan /\ UNCHANGED <<now, there, up, cached, series, poll, served, late>>
      /\ settings' = [settings EXCEPT !.storage = plan.storage] /\ plan' = plan
  BY SameIsSame DEF Configure, HistInv
<1>2. plan.storage \in Nat \ {0} /\ settings \in AllSettings
  BY DEF HistInv, PlanTypes, Plans
<1>3. /\ settings' \in AllSettings /\ settings'.storage = plan.storage
      /\ settings'.gap = settings.gap /\ settings'.retention = settings.retention
  BY <1>1, <1>2 DEF AllSettings
<1>4. PlanTypes'
  BY <1>1, <1>3 DEF HistInv, PlanTypes
<1>5. SeriesGood'
  BY <1>1, <1>3, SeriesStay DEF HistInv, PlanTypes
<1>6. AnswerGood' /\ PlaceTypes'
  BY <1>1, <1>3, AnswerStays, PlacesStay DEF HistInv
<1> QED
  BY <1>4, <1>5, <1>6 DEF HistInv

LEMMA TickGood ==
    ASSUME HistInv, Tick
    PROVE  HistInv'
<1>1. /\ SamePlan /\ UNCHANGED <<settings, there, up, cached, series, poll, served, late>>
      /\ now' = now + 1 /\ now < plan.until
  BY SameIsSame DEF Tick, HistInv
<1>2. now \in Nat /\ plan.until \in Nat
  BY DEF HistInv, PlanTypes, Plans
<1>3. now' \in Nat /\ now <= now' /\ now' <= plan.until
  BY <1>1, <1>2
<1>4. PlanTypes'
  BY <1>1, <1>3, PlanStays DEF HistInv
<1>5. SeriesGood'
  BY <1>1, <1>3, SeriesStay DEF HistInv
<1>6. AnswerGood' /\ PlaceTypes'
  BY <1>1, AnswerStays, PlacesStay DEF HistInv
<1> QED
  BY <1>4, <1>5, <1>6 DEF HistInv

LEMMA HistoryGood ==
    ASSUME HistInv, HistoryNext
    PROVE  HistInv'
<1>1. ASSUME NEW q \in Polls, NEW s \in ServerIds, PingFromConfig(q, s) \/ LatencyInfo(q, s)
      PROVE  HistInv'
  BY <1>1, PingFromConfigGood, LatencyInfoGood
<1>2. ASSUME NEW q \in Polls, NEW ms \in plan.lats, NEW on \in BOOLEAN, PingAnswered(q, ms, on)
      PROVE  HistInv'
  BY <1>2, PingAnsweredGood
<1>3. ASSUME NEW q \in Polls, PollRecords(q)
      PROVE  HistInv'
  BY <1>3, PollRecordsGood
<1>4. ASSUME NEW s \in ServerIds, NEW n \in {0, 1}, Snapshot(s, n)
      PROVE  HistInv'
  BY <1>4, SnapshotGood
<1>5. ASSUME NEW s \in ServerIds, DeleteServerEntry(s) \/ DeleteSeries(s) \/ Toggle(s)
      PROVE  HistInv'
  BY <1>5, DeleteServerEntryGood, DeleteSeriesGood, ToggleGood
<1>6. ASSUME NEW s \in ServerIds, NEW ms \in plan.lats, NEW m \in BOOLEAN, Pong(s, ms, m)
      PROVE  HistInv'
  BY <1>6, PongGood
<1> QED
  BY <1>1, <1>2, <1>3, <1>4, <1>5, <1>6, ConfigureGood, TickGood, Zenon DEF HistoryNext

-----------------------------------------------------------------------------
(* Nodes and their latencies.                                              *)

\* One of a set of numbers is first in the order of a measure, and of the numbers.
LEMMA HasFastest ==
    ASSUME NEW S, S \subseteq Nat, S # {}, NEW f, \A n \in S : f[n] \in Nat
    PROVE  \E n \in S : \A m \in S : f[n] < f[m] \/ (f[n] = f[m] /\ n <= m)
<1> DEFINE V == {f[n] : n \in S}
<1>1. V \subseteq Nat /\ V # {}
  OBVIOUS
<1>2. PICK v \in V : \A w \in V : v <= w
  <2> HIDE DEF V
  <2> QED
    BY <1>1, HasLeast
<1> DEFINE F == {n \in S : f[n] = v}
<1>3. F \subseteq Nat /\ F # {}
  BY <1>2
<1>4. PICK n \in F : \A m \in F : n <= m
  <2> HIDE DEF F
  <2> QED
    BY <1>3, HasLeast
<1>5. ASSUME NEW m \in S
      PROVE  f[n] < f[m] \/ (f[n] = f[m] /\ n <= m)
  <2>1. f[n] = v /\ v <= f[m] /\ f[m] \in Nat /\ v \in Nat
    BY <1>1, <1>2, <1>4
  <2>2. f[m] = v => n <= m
    BY <1>4
  <2> QED
    BY <2>1, <2>2
<1> QED
  BY <1>4, <1>5

Taken(S, f, k) == \E n \in S : Cardinality({m \in S : f[m] < f[n] \/ (f[m] = f[n] /\ m <= n)}) = k

\* Every rank in that order is somebody's.
LEMMA RankFound ==
    ASSUME NEW S, S \subseteq Nat, IsFiniteSet(S), NEW f, \A n \in S : f[n] \in Nat,
           NEW k \in 1 .. Cardinality(S)
    PROVE  Taken(S, f, k)
<1> DEFINE upTo(n) == {m \in S : f[m] < f[n] \/ (f[m] = f[n] /\ m <= n)}
           g == [n \in S |-> Cardinality(upTo(n))]
<1>1. \A n \in S : n \in Nat /\ f[n] \in Nat
  OBVIOUS
<1>2. \A n \in S : n \in upTo(n)
  BY <1>1
<1>3. \A n \in S : IsFiniteSet(upTo(n)) /\ Cardinality(upTo(n)) \in 1 .. Cardinality(S)
  <2> SUFFICES ASSUME NEW n \in S
               PROVE  IsFiniteSet(upTo(n)) /\ Cardinality(upTo(n)) \in 1 .. Cardinality(S)
    OBVIOUS
  <2>1. IsFiniteSet(upTo(n)) /\ Cardinality(upTo(n)) <= Cardinality(S)
    BY FS_Subset
  <2>2. Cardinality(upTo(n)) # 0
    BY <1>2, <2>1, FS_EmptySet
  <2> QED
    BY <2>1, <2>2, FS_CardinalityType
<1>4. g \in [S -> 1 .. Cardinality(S)]
  BY <1>3
<1>5. ASSUME NEW a \in S, NEW b \in S, a # b, a \in upTo(b)
      PROVE  g[a] # g[b]
  <2>1. f[a] < f[b] \/ (f[a] = f[b] /\ a < b)
    BY <1>1, <1>5
  <2>2. \A m \in S : f[m] < f[a] \/ (f[m] = f[a] /\ m <= a) => f[m] < f[b] \/ (f[m] = f[b] /\ m <= b)
    BY <1>1, <2>1
  <2>3. upTo(a) \subseteq upTo(b)
    BY <2>2
  <2>4. b \in upTo(b) /\ b \notin upTo(a)
    BY <1>1, <1>2, <2>1
  <2>5. Cardinality(upTo(b)) = Cardinality(upTo(a)) => upTo(b) = upTo(a)
    BY <1>3, <2>3, FS_Subset
  <2> QED
    BY <2>4, <2>5
<1>6. \A a, b \in S : a \in upTo(b) \/ b \in upTo(a)
  BY <1>1
<1>7. \A a, b \in S : g[a] = g[b] => a = b
  BY <1>5, <1>6
<1>8. \A n \in S : g[n] = Cardinality({m \in S : f[m] < f[n] \/ (f[m] = f[n] /\ m <= n)})
  OBVIOUS
<1> HIDE DEF g
<1>9. PICK n \in S : g[n] = k
  BY <1>4, <1>7, TakesAll
<1> QED
  BY <1>8, <1>9 DEF Taken

\* What is read of the nodes.
NodeTypes ==
    /\ nodeNames \in [Targets -> Seq(AnyNode)]
    /\ picked \in [Targets -> AnyNode \cup {None}]
    /\ nodeLatency \in [Targets -> [AnyNode -> [lat : Lats, at : Nat]]]

LEMMA NodesAre == AnyNode \subseteq Nat /\ None \notin AnyNode /\ None \in Int
BY HistoryConstants DEF AnyNode, None

LEMMA NamesAre ==
    ASSUME NodeTypes, NEW t \in Targets
    PROVE  /\ nodeNames[t] \in Seq(AnyNode) /\ ToSet(nodeNames[t]) \subseteq AnyNode
           /\ IsFiniteSet(ToSet(nodeNames[t]))
<1> DEFINE ns == nodeNames[t]
           n == Len(ns)
<1>1. ns \in Seq(AnyNode)
  BY DEF NodeTypes
<1> HIDE DEF ns
<1>2. n \in Nat /\ DOMAIN ns = 1 .. n
  BY <1>1
<1>3. ToSet(ns) \subseteq AnyNode
  BY <1>1 DEF ToSet
<1> HIDE DEF n
<1>4. IsFiniteSet(1 .. n)
  BY <1>2, FS_Interval
<1>5. ns \in Surjection(1 .. n, ToSet(ns))
  <2>1. ns = [i \in 1 .. n |-> ns[i]]
    BY <1>1 DEF n
  <2>2. \A i \in 1 .. n : ns[i] \in ToSet(ns)
    BY <1>2 DEF ToSet
  <2>3. ns \in [1 .. n -> ToSet(ns)]
    BY <2>1, <2>2
  <2>4. \A x \in ToSet(ns) : \E i \in 1 .. n : ns[i] = x
    BY <1>2 DEF ToSet
  <2> QED
    BY <2>3, <2>4 DEF Surjection
<1>6. IsFiniteSet(ToSet(ns))
  BY <1>4, <1>5, FS_Surjection
<1> QED
  BY <1>1, <1>3, <1>6 DEF ns

LEMMA LatencyIs ==
    ASSUME NodeTypes, NEW t \in Targets, NEW n \in AnyNode \cup {None}
    PROVE  GetServerNodeLatency(t, n) \in Lats /\ GetServerNodeLatency(t, n) \in Nat
<1>1. 0 \in Lats /\ Lats \subseteq Nat
  BY HistoryConstants
<1>2. n # None => nodeLatency[t][n] \in [lat : Lats, at : Nat]
  BY DEF NodeTypes
<1>3. n # None => nodeLatency[t][n].lat \in Lats
  BY <1>2
<1> QED
  BY <1>1, <1>3 DEF GetServerNodeLatency

LEMMA LookupIs ==
    ASSUME NodeTypes, PlanTypes, NEW t \in Targets, NEW n \in AnyNode
    PROVE  lookupAutoPingLatency(t, n) \in Nat
<1>1. n # Direct => plan.tested[n] \in Nat
  BY DEF PlanTypes, Plans, AnyNode
<1> QED
  BY <1>1, LatencyIs DEF lookupAutoPingLatency

LEMMA FastestIs ==
    ASSUME NodeTypes, NEW t \in Targets, NEW names, names \subseteq AnyNode, names # {}
    PROVE  Fastest(t, names) \in names
<1> DEFINE f == [n \in AnyNode |-> GetServerNodeLatency(t, n)]
<1>1. names \subseteq Nat
  BY NodesAre
<1>2. \A n \in names : f[n] = GetServerNodeLatency(t, n) /\ f[n] \in Nat
  BY LatencyIs
<1> HIDE DEF f
<1>3. PICK n \in names : \A m \in names : f[n] < f[m] \/ (f[n] = f[m] /\ n <= m)
  BY <1>1, <1>2, HasFastest
<1>4. \E n1 \in names : \A m \in names :
          \/ GetServerNodeLatency(t, n1) < GetServerNodeLatency(t, m)
          \/ GetServerNodeLatency(t, n1) = GetServerNodeLatency(t, m) /\ n1 <= m
  BY <1>2, <1>3
<1> QED
  BY <1>4 DEF Fastest

LEMMA BestIs ==
    ASSUME NodeTypes, NEW t \in Targets
    PROVE  Best(t) \in AnyNode \cup {None}
<1> DEFINE names == (IF OnlyNode(t) THEN ToSet(nodeNames[t]) ELSE KnownNodes(t)) \ plan.conf[t].banned
<1>1. names \subseteq AnyNode
  BY NamesAre DEF KnownNodes
<1>2. Best(t) = IF names = {} THEN None ELSE Fastest(t, names)
  BY DEF Best
<1> HIDE DEF names
<1> QED
  BY <1>1, <1>2, FastestIs

\* Ranked lists the rivals, the fastest one first.
LEMMA RankedIs ==
    ASSUME NodeTypes, PlanTypes, NEW t \in Targets
    PROVE  /\ Ranked(t) \in Seq(Rivals(t)) /\ Rivals(t) \subseteq ToSet(nodeNames[t])
           /\ Rivals(t) # {} =>
                /\ Len(Ranked(t)) > 0
                /\ \A m \in Rivals(t) : lookupAutoPingLatency(t, Ranked(t)[1]) <= lookupAutoPingLatency(t, m)
<1> DEFINE S == Rivals(t)
           of == [n \in AnyNode |-> lookupAutoPingLatency(t, n)]
           upTo(n) == {m \in S : of[m] < of[n] \/ (of[m] = of[n] /\ m <= n)}
           pick(k) == CHOOSE n \in S : Cardinality(upTo(n)) = k
           N == Cardinality(S)
<1>1. S \subseteq ToSet(nodeNames[t]) /\ ToSet(nodeNames[t]) \subseteq AnyNode
  BY NamesAre DEF Rivals
<1>2. IsFiniteSet(S) /\ S \subseteq Nat
  BY <1>1, NamesAre, NodesAre, FS_Subset
<1>3. \A n \in S : of[n] = lookupAutoPingLatency(t, n) /\ of[n] \in Nat /\ n \in Nat
  BY <1>1, <1>2, LookupIs
<1>4. Ranked(t) = [k \in 1 .. N |-> pick(k)]
  BY DEF Ranked
<1>5. N \in Nat /\ (S # {} => N > 0)
  BY <1>2, FS_CardinalityType, FS_EmptySet
<1> HIDE DEF of, S, N
<1>6. \A k \in 1 .. N : \E n \in S : Cardinality(upTo(n)) = k
  <2> SUFFICES ASSUME NEW k \in 1 .. Cardinality(S)
               PROVE  \E n \in S : Cardinality(upTo(n)) = k
    BY DEF N
  <2>1. \A n \in S : of[n] \in Nat
    BY <1>3
  <2>2. Taken(S, of, k)
    BY <1>2, <2>1, RankFound
  <2> QED
    BY <2>2 DEF Taken
<1>7. \A k \in 1 .. N : pick(k) \in S /\ Cardinality(upTo(pick(k))) = k
  BY <1>6
<1>8. Ranked(t) \in Seq(S) /\ Len(Ranked(t)) = N
  <2>1. \A k \in 1 .. N : pick(k) \in S
    BY <1>7
  <2> HIDE DEF pick
  <2>2. Ranked(t) \in [1 .. N -> S]
    BY <1>4, <2>1
  <2> HIDE DEF upTo
  <2> QED
    BY <1>5, <2>2
<1>9. ASSUME S # {}, NEW m \in S
      PROVE  lookupAutoPingLatency(t, Ranked(t)[1]) <= lookupAutoPingLatency(t, m)
  <2> DEFINE n == pick(1)
  <2>1. 1 \in 1 .. N
    BY <1>5, <1>9
  <2>2. n \in S /\ Cardinality(upTo(n)) = 1
    BY <1>7, <2>1
  <2>3. Ranked(t)[1] = n
    BY <1>4, <2>1
  <2> HIDE DEF n, pick
  <2>4. IsFiniteSet(upTo(n))
    BY <1>2, FS_Subset
  <2>5. PICK x : upTo(n) = {x}
    BY <2>2, <2>4, FS_Singleton
  <2>6. n \in upTo(n)
    BY <1>3, <2>2
  <2>7. m # n => m \notin upTo(n)
    BY <2>5, <2>6
  <2>8. m # n => ~(of[m] < of[n])
    BY <2>7
  <2>9. of[n] <= of[m]
    BY <1>3, <1>9, <2>2, <2>8
  <2> QED
    BY <1>3, <1>9, <2>2, <2>3, <2>9
<1> QED
  BY <1>1, <1>5, <1>8, <1>9 DEF S

-----------------------------------------------------------------------------
(* The probes: their types and what holds of them at all times.            *)

RoundRecs ==
    [pc : {"idle", "pings", "after", "gone"}, at : Nat, due : SUBSET Targets, todo : SUBSET Targets, seq : Nat,
     switch : [Targets -> Int], seen : [Targets -> Int]]

ScanJobs == [pc : {"idle", "check", "scan", "done"}, nodes : Seq(AnyNode), probing : SUBSET AnyNode, full : BOOLEAN]

Memos ==
    [run : [Targets -> Int], full : [Targets -> Int], switch : [Targets -> Int], passive : [Targets -> Int],
     seen : [Targets -> Int]]

\* The nodes: no measurement is of the future.
NodesGood ==
    /\ NodeTypes /\ busy \subseteq Targets
    /\ \A t \in Targets, n \in AnyNode : nodeLatency[t][n].at <= now

\* The histories of the nodes are within the limit, before or after its change.
ShortHistories ==
    /\ nodeHistory \in [Targets -> [AnyNode -> Seq(Samples)]]
    /\ outboundHistory \in [Nodes -> Seq(Samples)]
    /\ \A t \in Targets, n \in AnyNode : Len(nodeHistory[t][n]) <= Cap
    /\ \A n \in Nodes : Len(outboundHistory[n]) <= Cap

\* The rounds: what is left to do was begun with, and a refresh under way pings all that
\* it will ask for when its pings are done.
RoundsGood ==
    /\ round \in [Rounds -> RoundRecs] /\ memo \in Memos
    /\ requests \in Nat /\ processed \in Nat /\ processed <= requests
    /\ \A r \in Rounds : /\ round[r].at <= now
                         /\ round[r].pc = "after" => round[r].todo \subseteq round[r].due
    /\ round["topology"].seq <= requests
    /\ round["topology"].pc = "pings" => \A t \in Targets : Pinged(t) => t \in round["topology"].due
    /\ fullAt = memo.full

\* The probes under way.
JobsGood ==
    /\ job \in [Rounds -> [Targets -> ScanJobs]]
    /\ \A r \in Rounds : IsFiniteSet(Probing(r)) /\ Cardinality(Probing(r)) <= GlobalParallelism
    /\ \A r \in Rounds, t \in Targets :
          IsFiniteSet(job[r][t].probing) /\ Cardinality(job[r][t].probing) <= Parallelism

\* The place p of the names is within the last "room" places before the next one.
Behind(p, pos, room, n) == (pos - room <= p /\ p < pos) \/ p >= n + pos - room

\* The bootstrap scans of a target since they began anew have been at the places behind
\* the next one.
Turned(t) ==
    LET ns == nodeNames[t]
    IN /\ boots[t].nodes \subseteq ToSet(ns)
       /\ Top(t) >= Len(ns) /\ boots[t].n > 0 => boots[t].nodes = ToSet(ns)
       /\ ~plan.conf[t].group /\ Top(t) < Len(ns) =>
             \A p \in 0 .. (Len(ns) - 1) :
                 Behind(p, BootStart(t), boots[t].n * Top(t), Len(ns)) => ns[p + 1] \in boots[t].nodes

BootsGood ==
    /\ bootPos \in [Targets -> Nat] /\ boots \in [Targets -> [n : Nat, nodes : SUBSET AnyNode]]
    /\ \A t \in Targets : Turned(t)

ProbeInv == HistInv /\ NodesGood /\ ShortHistories /\ RoundsGood /\ JobsGood /\ BootsGood

\* What every step leaves alone.
OnlyOn == SamePlan /\ there' \subseteq there /\ now' \in Nat /\ now <= now'

LEMMA NodesStay ==
    ASSUME NodesGood, PlanTypes, OnlyOn, UNCHANGED <<nodeNames, busy, picked, nodeLatency>>
    PROVE  NodesGood'
<1>1. \A t \in Targets, n \in AnyNode : nodeLatency[t][n].at \in Nat
  <2>1. \A t \in Targets, n \in AnyNode : nodeLatency[t][n] \in [lat : Lats, at : Nat]
    BY DEF NodesGood, NodeTypes
  <2> QED
    BY <2>1
<1>2. \A t \in Targets, n \in AnyNode : nodeLatency[t][n].at <= now'
  BY <1>1 DEF NodesGood, OnlyOn, PlanTypes
<1> QED
  BY <1>2 DEF NodesGood, NodeTypes

LEMMA HistoriesStay ==
    ASSUME ShortHistories, OnlyOn, UNCHANGED <<nodeHistory, outboundHistory>>
    PROVE  ShortHistories'
BY DEF ShortHistories, OnlyOn, SamePlan, Cap

LEMMA RoundTimes ==
    ASSUME RoundsGood
    PROVE  \A r \in Rounds : round[r] \in RoundRecs /\ round[r].at \in Nat /\ round[r].seq \in Nat
<1>1. \A r \in Rounds : round[r] \in RoundRecs
  BY DEF RoundsGood
<1> QED
  BY <1>1 DEF RoundRecs

LEMMA RoundsStay ==
    ASSUME RoundsGood, PlanTypes, OnlyOn, UNCHANGED <<round, memo, fullAt, requests, processed>>
    PROVE  RoundsGood'
<1>1. \A r \in Rounds : round[r].at <= now'
  BY RoundTimes DEF RoundsGood, OnlyOn, PlanTypes
<1>2. \A t \in Targets : Pinged(t)' => Pinged(t)
  BY DEF Pinged, OnlyOn, SamePlan
<1> QED
  BY <1>1, <1>2 DEF RoundsGood

LEMMA JobsStay ==
    ASSUME JobsGood, job' = job
    PROVE  JobsGood'
BY DEF JobsGood, Probing

LEMMA BootsStay ==
    ASSUME BootsGood, OnlyOn, UNCHANGED <<nodeNames, bootPos, boots>>
    PROVE  BootsGood'
<1>1. ASSUME NEW t \in Targets
      PROVE  Turned(t)'
  BY DEF BootsGood, Turned, OnlyOn, SamePlan, Top, BootStart
<1> QED
  BY <1>1 DEF BootsGood

LEMMA HistStays ==
    ASSUME HistInv, SamePlan, UNCHANGED <<now, settings, there, up, cached, series, poll, served, late>>
    PROVE  HistInv' /\ OnlyOn
<1>1. PlaceTypes'
  BY PlacesStay DEF HistInv
<1>2. HistInv'
  BY <1>1, PollStep
<1> QED
  BY <1>2 DEF OnlyOn, HistInv, PlanTypes

LEMMA Keeping ==
    ASSUME HistInv, PingKeeps
    PROVE  HistInv' /\ OnlyOn
<1>1. SamePlan
  BY SameIsSame DEF PingKeeps, historyVars, HistInv
<1> QED
  BY <1>1, HistStays DEF PingKeeps, historyVars

-----------------------------------------------------------------------------
(* The jobs of a round.                                                    *)

LEMMA JobWas ==
    ASSUME JobsGood, NEW r \in Rounds, NEW t \in Targets
    PROVE  job[r][t] \in ScanJobs
BY DEF JobsGood

LEMMA NoJobIs == NoJob \in ScanJobs /\ NoJob.probing = {} /\ NoJob.pc = "idle"
<1>1. <<>> \in Seq(AnyNode)
  OBVIOUS
<1> QED
  BY <1>1 DEF NoJob, ScanJobs

\* A job that has no new probe under way.
LEMMA JobShrinks ==
    ASSUME JobsGood, NEW r \in Rounds, NEW t \in Targets, NEW j \in ScanJobs, JobTo(r, t, j),
           j.probing \subseteq job[r][t].probing
    PROVE  JobsGood'
<1>1. /\ job' \in [Rounds -> [Targets -> ScanJobs]]
      /\ \A o \in Rounds, u \in Targets : job'[o][u] = IF o = r /\ u = t THEN j ELSE job[o][u]
  BY DEF JobsGood, JobTo
<1>2. \A o \in Rounds, u \in Targets : job'[o][u].probing \subseteq job[o][u].probing
  BY <1>1
<1>3. \A o \in Rounds : Probing(o)' \subseteq Probing(o)
  BY <1>2 DEF Probing
<1>4. ASSUME NEW o \in Rounds
      PROVE  IsFiniteSet(Probing(o)') /\ Cardinality(Probing(o)') <= GlobalParallelism
  <2>1. IsFiniteSet(Probing(o)) /\ Cardinality(Probing(o)) <= GlobalParallelism
    BY DEF JobsGood
  <2>2. IsFiniteSet(Probing(o)') /\ Cardinality(Probing(o)') <= Cardinality(Probing(o))
    BY <1>3, <2>1, FS_Subset
  <2>3. Cardinality(Probing(o)) \in Nat /\ Cardinality(Probing(o)') \in Nat
    BY <2>1, <2>2, FS_CardinalityType
  <2> QED
    BY <2>1, <2>2, <2>3, PingConstants
<1>5. ASSUME NEW o \in Rounds, NEW u \in Targets
      PROVE  IsFiniteSet(job'[o][u].probing) /\ Cardinality(job'[o][u].probing) <= Parallelism
  <2>1. IsFiniteSet(job[o][u].probing) /\ Cardinality(job[o][u].probing) <= Parallelism
    BY DEF JobsGood
  <2>2. IsFiniteSet(job'[o][u].probing) /\ Cardinality(job'[o][u].probing) <= Cardinality(job[o][u].probing)
    BY <1>2, <2>1, FS_Subset
  <2>3. Cardinality(job[o][u].probing) \in Nat /\ Cardinality(job'[o][u].probing) \in Nat
    BY <2>1, <2>2, FS_CardinalityType
  <2> QED
    BY <2>1, <2>2, <2>3, PingConstants
<1> QED
  BY <1>1, <1>4, <1>5 DEF JobsGood

LEMMA OneMore ==
    ASSUME NEW S, IsFiniteSet(S), NEW x
    PROVE  /\ IsFiniteSet(S \cup {x}) /\ Cardinality(S \cup {x}) \in Nat /\ Cardinality(S) \in Nat
           /\ Cardinality(S \cup {x}) <= Cardinality(S) + 1
<1>1. Cardinality(S) \in Nat
  BY FS_CardinalityType
<1>2. IsFiniteSet(S \cup {x})
  BY FS_AddElement
<1>3. Cardinality(S \cup {x}) \in {Cardinality(S), Cardinality(S) + 1}
  BY FS_AddElement
<1> QED
  BY <1>1, <1>2, <1>3

LEMMA AcquireJobs ==
    ASSUME JobsGood, NEW r \in Rounds, NEW t \in Targets, AcquireSlot(r, t)
    PROVE  JobsGood'
<1> DEFINE n == Head(job[r][t].nodes)
           j == [job[r][t] EXCEPT !.nodes = Tail(job[r][t].nodes), !.probing = job[r][t].probing \cup {n}]
<1>1. /\ job[r][t].nodes # <<>> /\ Cardinality(job[r][t].probing) < Parallelism
      /\ Cardinality(Probing(r)) < GlobalParallelism
      /\ job' = [job EXCEPT ![r][t] = j]
  BY DEF AcquireSlot, JobTo
<1>2. job[r][t] \in ScanJobs
  BY JobWas
<1>3. n \in AnyNode /\ Tail(job[r][t].nodes) \in Seq(AnyNode) /\ job[r][t].probing \subseteq AnyNode
  BY <1>1, <1>2 DEF ScanJobs
<1>4. j \in ScanJobs /\ j.probing = job[r][t].probing \cup {n}
  <2> HIDE DEF n
  <2> QED
    BY <1>2, <1>3 DEF ScanJobs
<1> HIDE DEF j, n
<1>5. /\ job' \in [Rounds -> [Targets -> ScanJobs]]
      /\ \A o \in Rounds, u \in Targets : job'[o][u] = IF o = r /\ u = t THEN j ELSE job[o][u]
  BY <1>1, <1>4 DEF JobsGood
<1>6. ASSUME NEW o \in Rounds
      PROVE  IsFiniteSet(Probing(o)') /\ Cardinality(Probing(o)') <= GlobalParallelism
  <2>1. IsFiniteSet(Probing(o)) /\ Cardinality(Probing(o)) <= GlobalParallelism
    BY DEF JobsGood
  <2>2. CASE o # r
    <3>1. \A u \in Targets : job'[o][u] = job[o][u]
      BY <1>5, <2>2
    <3>2. Probing(o)' = Probing(o)
      BY <3>1 DEF Probing
    <3> QED
      BY <2>1, <3>2
  <2>3. CASE o = r
    <3>1. Probing(r)' \subseteq Probing(r) \cup {<<t, n>>}
      <4> SUFFICES ASSUME NEW p \in Targets \X AnyNode, p[2] \in job'[r][p[1]].probing, p \notin Probing(r)
                   PROVE  p = <<t, n>>
        BY DEF Probing
      <4>1. p[1] \in Targets /\ p[2] \in AnyNode /\ p = <<p[1], p[2]>>
        OBVIOUS
      <4>2. p[2] \notin job[r][p[1]].probing
        BY DEF Probing
      <4>3. p[1] = t /\ p[2] = n
        BY <1>4, <1>5, <4>1, <4>2
      <4> QED
        BY <4>1, <4>3
    <3>2. IsFiniteSet(Probing(r) \cup {<<t, n>>}) /\ Cardinality(Probing(r) \cup {<<t, n>>}) <= Cardinality(Probing(r)) + 1
      <4>1. IsFiniteSet(Probing(r))
        BY <2>1, <2>3
      <4> QED
        BY <4>1, OneMore
    <3>3. IsFiniteSet(Probing(r)') /\ Cardinality(Probing(r)') <= Cardinality(Probing(r) \cup {<<t, n>>})
      BY <3>1, <3>2, FS_Subset
    <3>4. /\ Cardinality(Probing(r)) \in Nat /\ Cardinality(Probing(r)') \in Nat
          /\ Cardinality(Probing(r) \cup {<<t, n>>}) \in Nat
      BY <2>1, <2>3, <3>2, <3>3, FS_CardinalityType
    <3> QED
      BY <1>1, <2>3, <3>2, <3>3, <3>4, PingConstants
  <2> QED
    BY <2>2, <2>3
<1>7. ASSUME NEW o \in Rounds, NEW u \in Targets
      PROVE  IsFiniteSet(job'[o][u].probing) /\ Cardinality(job'[o][u].probing) <= Parallelism
  <2>1. IsFiniteSet(job[o][u].probing) /\ Cardinality(job[o][u].probing) <= Parallelism
    BY DEF JobsGood
  <2>2. Cardinality(job[o][u].probing) \in Nat
    BY <2>1, FS_CardinalityType
  <2>3. CASE o = r /\ u = t
    <3>1. job'[o][u].probing = job[o][u].probing \cup {n}
      BY <1>4, <1>5, <2>3
    <3>2. IsFiniteSet(job[o][u].probing \cup {n}) /\ Cardinality(job[o][u].probing \cup {n}) <= Cardinality(job[o][u].probing) + 1
      BY <2>1, OneMore
    <3>3. Cardinality(job[o][u].probing \cup {n}) \in Nat
      BY <2>1, OneMore
    <3>4. Cardinality(job[o][u].probing) < Parallelism /\ Parallelism \in Nat
      BY <1>1, <2>3, PingConstants
    <3>5. Cardinality(job[o][u].probing \cup {n}) <= Parallelism
      BY <2>2, <3>2, <3>3, <3>4
    <3> QED
      BY <3>1, <3>2, <3>5
  <2>4. CASE ~(o = r /\ u = t)
    BY <1>5, <2>1, <2>4
  <2> QED
    BY <2>3, <2>4
<1> QED
  BY <1>5, <1>6, <1>7 DEF JobsGood

LEMMA LaunchJobs ==
    ASSUME JobsGood, NEW r \in Rounds, NEW T, Launch(r, T)
    PROVE  JobsGood'
<1>1. NoJob \in ScanJobs /\ NoJob.probing = {} /\ [NoJob EXCEPT !.pc = "check"] \in ScanJobs
      /\ [NoJob EXCEPT !.pc = "check"].probing = {}
  BY NoJobIs DEF ScanJobs
<1> DEFINE new == [t \in Targets |-> IF t \in T THEN [NoJob EXCEPT !.pc = "check"] ELSE NoJob]
<1>2. new \in [Targets -> ScanJobs] /\ \A t \in Targets : new[t].probing = {}
  BY <1>1
<1>3. job' = [job EXCEPT ![r] = new]
  BY DEF Launch
<1> HIDE DEF new
<1>4. job' \in [Rounds -> [Targets -> ScanJobs]] /\ \A o \in Rounds : job'[o] = IF o = r THEN new ELSE job[o]
  BY <1>2, <1>3 DEF JobsGood
<1>5. IsFiniteSet({}) /\ Cardinality({}) = 0
  BY FS_EmptySet
<1>6. Probing(r)' = {}
  BY <1>2, <1>4 DEF Probing
<1>7. \A o \in Rounds : o # r => Probing(o)' = Probing(o)
  BY <1>4 DEF Probing
<1>8. \A o \in Rounds : IsFiniteSet(Probing(o)') /\ Cardinality(Probing(o)') <= GlobalParallelism
  <2>1. 0 <= GlobalParallelism
    BY PingConstants
  <2>2. \A o \in Rounds : IsFiniteSet(Probing(o)) /\ Cardinality(Probing(o)) <= GlobalParallelism
    BY DEF JobsGood
  <2> QED
    BY <1>5, <1>6, <1>7, <2>1, <2>2, Zenon
<1>9. \A o \in Rounds, u \in Targets : IsFiniteSet(job'[o][u].probing) /\ Cardinality(job'[o][u].probing) <= Parallelism
  <2>1. 0 <= Parallelism
    BY PingConstants
  <2>2. \A o \in Rounds, u \in Targets : job'[o][u].probing = {} \/ job'[o][u] = job[o][u]
    BY <1>2, <1>4
  <2>3. \A o \in Rounds, u \in Targets : IsFiniteSet(job[o][u].probing) /\ Cardinality(job[o][u].probing) <= Parallelism
    BY DEF JobsGood
  <2> QED
    BY <1>5, <2>1, <2>2, <2>3, Zenon
<1> QED
  BY <1>4, <1>8, <1>9 DEF JobsGood

-----------------------------------------------------------------------------
(* The choice of the nodes.                                                *)

LEMMA Wraps ==
    ASSUME NEW a \in Nat, NEW n \in Nat \ {0}, a < 2 * n
    PROVE  a % n = IF a < n THEN a ELSE a - n
<1>1. CASE a < n
  BY <1>1
<1>2. CASE ~(a < n)
  BY <1>2
<1> QED
  BY <1>1, <1>2

LEMMA TopIs ==
    ASSUME PlanTypes, NEW t \in Targets
    PROVE  Top(t) \in Nat \ {0}
<1>1. plan.conf[t] \in Confs
  BY PlanNumbers
<1>2. plan.conf[t].top \in Int
  BY <1>1 DEF Confs
<1> QED
  BY <1>2 DEF Top, Max2

\* A few nodes are the selected one, if it is a node, and the fastest of the others.
LEMMA SelectIs ==
    ASSUME NodeTypes, PlanTypes, NEW t \in Targets
    PROVE  /\ selectTargets(t) \in Seq(ToSet(nodeNames[t]))
           /\ picked[t] \in ToSet(nodeNames[t]) => picked[t] \in ToSet(selectTargets(t))
           /\ Rivals(t) # {} => Ranked(t)[1] \in ToSet(selectTargets(t))
<1> DEFINE names == ToSet(nodeNames[t])
           current == CurrentNode(t)
           k == Min2((Top(t) + Len(current)) - Len(current), Len(Ranked(t)))
           rest == SubSeq(Ranked(t), 1, k)
<1>1. Top(t) \in Nat \ {0}
  BY TopIs
<1>2. Ranked(t) \in Seq(Rivals(t)) /\ Rivals(t) \subseteq names /\ (Rivals(t) # {} => Len(Ranked(t)) > 0)
  BY RankedIs
<1>3. selectTargets(t) = current \o rest
  BY DEF selectTargets
<1>4. current \in Seq(names) /\ Len(current) \in Nat
  <2> HIDE DEF names
  <2>1. CASE picked[t] \in names
    <3>1. current = <<picked[t]>>
      BY <2>1 DEF CurrentNode, names
    <3> HIDE DEF current
    <3> QED
      BY <2>1, <3>1
  <2>2. CASE picked[t] \notin names
    <3>1. current = <<>>
      BY <2>2 DEF CurrentNode, names
    <3> HIDE DEF current
    <3> QED
      BY <3>1
  <2> QED
    BY <2>1, <2>2
<1>5. Len(Ranked(t)) \in Nat /\ Ranked(t) \in Seq(names)
  BY <1>2
<1> HIDE DEF current, names
<1>6. k \in 0 .. Len(Ranked(t)) /\ (Rivals(t) # {} => k >= 1)
  BY <1>1, <1>2, <1>4, <1>5 DEF Min2
<1> HIDE DEF k
<1>7. rest \in Seq(names) /\ Len(rest) = k /\ (k >= 1 => rest[1] = Ranked(t)[1])
  BY <1>5, <1>6
<1> HIDE DEF rest
<1>8. /\ current \o rest \in Seq(names) /\ Len(current \o rest) = Len(current) + k
      /\ \A i \in 1 .. Len(current) : (current \o rest)[i] = current[i]
      /\ \A i \in 1 .. k : (current \o rest)[Len(current) + i] = rest[i]
  BY <1>4, <1>6, <1>7
<1>9. picked[t] \in names => picked[t] \in ToSet(current \o rest)
  <2> SUFFICES ASSUME picked[t] \in names
               PROVE  picked[t] \in ToSet(current \o rest)
    OBVIOUS
  <2>1. Len(current) = 1 /\ current[1] = picked[t]
    BY DEF current, names, CurrentNode
  <2>2. (current \o rest)[1] = picked[t] /\ 1 \in DOMAIN (current \o rest)
    BY <1>6, <1>8, <2>1
  <2> QED
    BY <2>2 DEF ToSet
<1>10. Rivals(t) # {} => Ranked(t)[1] \in ToSet(current \o rest)
  <2> SUFFICES ASSUME Rivals(t) # {}
               PROVE  Ranked(t)[1] \in ToSet(current \o rest)
    OBVIOUS
  <2>1. 1 \in 1 .. k
    BY <1>6
  <2>2. (current \o rest)[Len(current) + 1] = Ranked(t)[1] /\ Len(current) + 1 \in DOMAIN (current \o rest)
    BY <1>4, <1>6, <1>7, <1>8, <2>1
  <2> QED
    BY <2>2 DEF ToSet
<1> QED
  BY <1>3, <1>8, <1>9, <1>10 DEF names

LEMMA BootstrapIs ==
    ASSUME NodeTypes, PlanTypes, NEW t \in Targets, nodeNames[t] # <<>>, bootPos[t] \in Nat
    PROVE  /\ Bootstrap(t) \in Seq(ToSet(nodeNames[t])) /\ Bootstrap(t) # <<>>
<1> DEFINE ns == nodeNames[t]
           n == Len(ns)
<1>1. ns \in Seq(AnyNode)
  BY DEF NodeTypes
<1>2. n \in Nat \ {0}
  BY <1>1
<1>3. ns \in Seq(ToSet(ns))
  <2>1. \A i \in 1 .. n : ns[i] \in ToSet(ns)
    BY <1>1 DEF ToSet
  <2>2. ns = [i \in 1 .. n |-> ns[i]]
    BY <1>1
  <2> QED
    BY <1>2, <2>1, <2>2
<1>4. Top(t) \in Nat \ {0}
  BY TopIs
<1>5. CASE Top(t) >= n
  <2>1. Bootstrap(t) = ns
    BY <1>5 DEF Bootstrap
  <2> QED
    BY <1>3, <2>1
<1>6. CASE ~(Top(t) >= n)
  <2>1. Bootstrap(t) = [i \in 1 .. Top(t) |-> ns[((BootStart(t) + i - 1) % n) + 1]]
    BY <1>6 DEF Bootstrap
  <2>2. BootStart(t) \in Nat
    BY DEF BootStart
  <2> HIDE DEF ns, n
  <2>3. \A i \in 1 .. Top(t) : BootStart(t) + i - 1 \in Nat
    BY <1>4, <2>2
  <2>4. \A a \in Nat : (a % n) + 1 \in 1 .. n
    BY <1>2
  <2>5. \A i \in 1 .. Top(t) : ((BootStart(t) + i - 1) % n) + 1 \in 1 .. n
    BY <2>3, <2>4
  <2>6. \A i \in 1 .. n : ns[i] \in ToSet(ns)
    BY <1>3 DEF n
  <2>7. Bootstrap(t) \in [1 .. Top(t) -> ToSet(ns)]
    BY <2>1, <2>5, <2>6
  <2>8. Bootstrap(t) \in Seq(ToSet(ns)) /\ Len(Bootstrap(t)) = Top(t)
    BY <1>4, <2>7
  <2> QED
    BY <1>4, <2>8 DEF ns
<1> QED
  BY <1>5, <1>6

\* What a scan that starts on a list of nodes compares.
Compares(t, nodes) ==
    LET names == ToSet(nodeNames[t])
    IN /\ ToSet(nodes) # {} /\ ToSet(nodes) \subseteq names
       /\ picked[t] \in names => picked[t] \in ToSet(nodes)
       /\ Rivals(t) # {} => \E n \in Rivals(t) \cap ToSet(nodes) : \A m \in Rivals(t) :
             lookupAutoPingLatency(t, n) <= lookupAutoPingLatency(t, m)

Few(t) == IF Len(nodeNames[t]) <= 1 THEN nodeNames[t] ELSE selectTargets(t)

LEMMA RivalIsFirst ==
    ASSUME NodeTypes, PlanTypes, NEW t \in Targets, Rivals(t) # {}
    PROVE  /\ Ranked(t)[1] \in Rivals(t)
           /\ \A m \in Rivals(t) : lookupAutoPingLatency(t, Ranked(t)[1]) <= lookupAutoPingLatency(t, m)
<1>1. Ranked(t) \in Seq(Rivals(t)) /\ Len(Ranked(t)) > 0
  BY RankedIs
<1>2. Ranked(t)[1] \in Rivals(t)
  BY <1>1
<1> QED
  BY <1>2, RankedIs

LEMMA NamesNotEmpty ==
    ASSUME NEW S, NEW ns \in Seq(S), ns # <<>>
    PROVE  ToSet(ns) # {}
<1>1. 1 \in DOMAIN ns
  OBVIOUS
<1> QED
  BY <1>1 DEF ToSet

LEMMA AllCompares ==
    ASSUME NodeTypes, PlanTypes, NEW t \in Targets, nodeNames[t] # <<>>
    PROVE  Compares(t, nodeNames[t]) /\ nodeNames[t] \in Seq(AnyNode)
<1>1. nodeNames[t] \in Seq(AnyNode)
  BY DEF NodeTypes
<1>2. ToSet(nodeNames[t]) # {}
  BY <1>1, NamesNotEmpty
<1>3. Rivals(t) \subseteq ToSet(nodeNames[t])
  BY DEF Rivals
<1> QED
  BY <1>1, <1>2, <1>3, RivalIsFirst DEF Compares

LEMMA FewCompares ==
    ASSUME NodeTypes, PlanTypes, NEW t \in Targets, nodeNames[t] # <<>>, Few(t) # <<>>
    PROVE  Compares(t, Few(t)) /\ Few(t) \in Seq(AnyNode)
<1>1. CASE Len(nodeNames[t]) <= 1
  BY <1>1, AllCompares DEF Few
<1>2. CASE ~(Len(nodeNames[t]) <= 1)
  <2>1. Few(t) = selectTargets(t)
    BY <1>2 DEF Few
  <2> DEFINE X == selectTargets(t)
  <2>2. /\ X \in Seq(ToSet(nodeNames[t]))
        /\ picked[t] \in ToSet(nodeNames[t]) => picked[t] \in ToSet(X)
        /\ Rivals(t) # {} => Ranked(t)[1] \in ToSet(X)
    BY SelectIs
  <2>3. X # <<>>
    BY <2>1
  <2> HIDE DEF X
  <2>4. ToSet(X) \subseteq ToSet(nodeNames[t])
    <3>1. \A i \in DOMAIN X : X[i] \in ToSet(nodeNames[t])
      BY <2>2
    <3>2. ToSet(X) = {X[i] : i \in DOMAIN X}
      BY DEF ToSet
    <3> QED
      BY <3>1, <3>2
  <2>5. ToSet(X) # {}
    BY <2>2, <2>3, NamesNotEmpty
  <2>6. Compares(t, X)
    BY <2>2, <2>4, <2>5, RivalIsFirst DEF Compares
  <2>7. ToSet(nodeNames[t]) \subseteq AnyNode
    BY NamesAre
  <2>8. X \in Seq(AnyNode)
    <3> DEFINE S == ToSet(nodeNames[t])
    <3> HIDE DEF S
    <3> QED
      BY <2>2, <2>7 DEF S
  <2> QED
    BY <2>1, <2>6, <2>8 DEF X
<1> QED
  BY <1>1, <1>2

LEMMA BootCompares ==
    ASSUME NodeTypes, PlanTypes, NEW t \in Targets, nodeNames[t] # <<>>, bootPos[t] \in Nat, Few(t) = <<>>
    PROVE  Compares(t, Bootstrap(t)) /\ Bootstrap(t) \in Seq(AnyNode) /\ ToSet(Bootstrap(t)) \subseteq ToSet(nodeNames[t])
<1>1. selectTargets(t) = <<>>
  BY DEF Few
<1>2. picked[t] \notin ToSet(nodeNames[t]) /\ Rivals(t) = {}
  <2>1. ToSet(selectTargets(t)) = {}
    BY <1>1 DEF ToSet
  <2> QED
    BY <2>1, SelectIs
<1> DEFINE X == Bootstrap(t)
<1>3. X \in Seq(ToSet(nodeNames[t])) /\ X # <<>>
  BY BootstrapIs
<1> HIDE DEF X
<1>4. ToSet(X) \subseteq ToSet(nodeNames[t])
  <2>1. \A i \in DOMAIN X : X[i] \in ToSet(nodeNames[t])
    BY <1>3
  <2>2. ToSet(X) = {X[i] : i \in DOMAIN X}
    BY DEF ToSet
  <2> QED
    BY <2>1, <2>2
<1>5. ToSet(X) # {}
  BY <1>3, NamesNotEmpty
<1>6. ToSet(nodeNames[t]) \subseteq AnyNode
  BY NamesAre
<1>7. X \in Seq(AnyNode)
  <2> DEFINE S == ToSet(nodeNames[t])
  <2> HIDE DEF S
  <2> QED
    BY <1>3, <1>6 DEF S
<1> QED
  BY <1>2, <1>4, <1>5, <1>7 DEF Compares, X

\* The scan of a target starts with nodes to compare.
Starts(r, t, j) ==
    /\ j \in ScanJobs /\ j.pc = "scan" /\ j.probing = {}
    /\ j.full = (r = "topology" \/ FullScanDue(t, round[r].at))
    /\ Compares(t, j.nodes)

LEMMA ChooseIs ==
    ASSUME NodeTypes, PlanTypes, BootsGood, NEW r \in Rounds, NEW t \in Targets, PingAllChooses(r, t)
    PROVE  \E j : Starts(r, t, j) /\ JobTo(r, t, j)
<1> DEFINE full == r = "topology" \/ FullScanDue(t, round[r].at)
           boot == ~full /\ Few(t) = <<>>
           X == IF full THEN nodeNames[t] ELSE IF boot THEN Bootstrap(t) ELSE Few(t)
           j == [NoJob EXCEPT !.pc = "scan", !.full = full, !.nodes = X]
<1>1. nodeNames[t] # <<>> /\ JobTo(r, t, j)
  BY Zenon DEF PingAllChooses, Few
<1>2. Compares(t, X) /\ X \in Seq(AnyNode)
  <2>1. bootPos[t] \in Nat
    BY DEF BootsGood
  <2>2. CASE full
    <3>1. X = nodeNames[t]
      BY <2>2
    <3> QED
      BY <1>1, <3>1, AllCompares
  <2>3. CASE ~full /\ Few(t) = <<>>
    <3>1. X = Bootstrap(t)
      BY <2>3
    <3> QED
      BY <1>1, <2>1, <2>3, <3>1, BootCompares
  <2>4. CASE ~full /\ Few(t) # <<>>
    <3>1. X = Few(t)
      BY <2>4
    <3> QED
      BY <1>1, <2>4, <3>1, FewCompares
  <2> QED
    BY <2>2, <2>3, <2>4
<1>3. full \in BOOLEAN
  OBVIOUS
<1> HIDE DEF X
<1>4. PICK b \in BOOLEAN : b = full
  BY <1>3
<1>5. [NoJob EXCEPT !.pc = "scan", !.full = b, !.nodes = X] \in ScanJobs
      /\ [NoJob EXCEPT !.pc = "scan", !.full = b, !.nodes = X].pc = "scan"
      /\ [NoJob EXCEPT !.pc = "scan", !.full = b, !.nodes = X].probing = {}
      /\ [NoJob EXCEPT !.pc = "scan", !.full = b, !.nodes = X].full = b
      /\ [NoJob EXCEPT !.pc = "scan", !.full = b, !.nodes = X].nodes = X
  BY <1>2, NoJobIs DEF ScanJobs
<1>6. j = [NoJob EXCEPT !.pc = "scan", !.full = b, !.nodes = X]
  BY <1>4
<1> HIDE DEF j, full
<1>7. j \in ScanJobs /\ j.pc = "scan" /\ j.probing = {} /\ j.full = full /\ Compares(t, j.nodes)
  BY <1>2, <1>4, <1>5, <1>6
<1>8. Starts(r, t, j)
  BY <1>7 DEF Starts, full
<1> QED
  BY <1>1, <1>8

-----------------------------------------------------------------------------
(* Bootstrap scans go round.                                               *)

\* A scan of "top" nodes from a place reaches the place p.
InWindow(p, pos, top, n) == \E i \in 1 .. top : (pos + i - 1) % n = p

\* The places behind the next one were behind it before or are in the window.
LEMMA WindowMoves ==
    ASSUME NEW n \in Nat \ {0}, NEW top \in Nat \ {0}, top < n, NEW pos \in 0 .. (n - 1), NEW room \in Nat,
           NEW p \in 0 .. (n - 1), NEW next, next = (pos + top) % n, NEW space, space = room + top,
           Behind(p, next, space, n)
    PROVE  Behind(p, pos, room, n) \/ InWindow(p, pos, top, n)
<1>1. pos + top \in Nat /\ pos + top < 2 * n
  OBVIOUS
<1>2. (pos + top) % n = IF pos + top < n THEN pos + top ELSE (pos + top) - n
  BY <1>1, Wraps
<1>3. ASSUME NEW i \in 1 .. top, pos + i - 1 = p
      PROVE  (pos + i - 1) % n = p
  BY <1>3
<1>4. ASSUME NEW i \in 1 .. top, pos + i - 1 = p + n
      PROVE  (pos + i - 1) % n = p
  <2>1. PICK a : a = p + n
    OBVIOUS
  <2>2. a \in Nat /\ a < 2 * n /\ ~(a < n) /\ a - n = p
    BY <2>1
  <2>3. a % n = IF a < n THEN a ELSE a - n
    BY <2>2, Wraps
  <2> QED
    BY <1>4, <2>1, <2>2, <2>3
<1>5. CASE pos <= p /\ p < pos + top
  <2>1. (p - pos) + 1 \in 1 .. top /\ pos + ((p - pos) + 1) - 1 = p
    BY <1>5
  <2> QED
    BY <1>3, <2>1 DEF InWindow
<1>6. CASE p < (pos + top) - n
  <2>1. (n - pos) + p + 1 \in 1 .. top /\ pos + ((n - pos) + p + 1) - 1 = p + n
    BY <1>6
  <2> QED
    BY <1>4, <2>1 DEF InWindow
<1>7. CASE ~(pos <= p /\ p < pos + top) /\ ~(p < (pos + top) - n)
  <2>1. CASE pos + top < n
    BY <1>2, <1>7, <2>1 DEF Behind
  <2>2. CASE ~(pos + top < n)
    BY <1>2, <1>7, <2>2 DEF Behind
  <2> QED
    BY <2>1, <2>2
<1> QED
  BY <1>5, <1>6, <1>7

LEMMA TurnedNext ==
    ASSUME NodeTypes, PlanTypes, BootsGood, NEW t \in Targets, nodeNames[t] # <<>>,
           NEW seen, seen \in {NoBoots, boots[t]},
           ToSet(Bootstrap(t)) \subseteq ToSet(nodeNames[t]),
           OnlyOn, nodeNames' = nodeNames,
           bootPos' = [bootPos EXCEPT ![t] = NextBootPos(t)],
           boots' = [boots EXCEPT ![t] = [n |-> seen.n + 1, nodes |-> seen.nodes \cup ToSet(Bootstrap(t))]]
    PROVE  BootsGood'
<1> DEFINE ns == nodeNames[t]
           N == Len(ns)
           top == Top(t)
           pos == BootStart(t)
           room == seen.n * top
<1>1. ns \in Seq(AnyNode) /\ N \in Nat \ {0} /\ ToSet(ns) \subseteq AnyNode
  BY NamesAre
<1>2. top \in Nat \ {0}
  BY TopIs
<1>3. Turned(t) /\ bootPos \in [Targets -> Nat] /\ boots \in [Targets -> [n : Nat, nodes : SUBSET AnyNode]]
  BY DEF BootsGood
<1>4. pos \in 0 .. (N - 1)
  BY <1>1, <1>3 DEF BootStart
<1>5. BootStart(t) = pos
  OBVIOUS
<1>6. seen.n \in Nat /\ seen.nodes \subseteq ToSet(ns)
  <2>1. boots[t].n \in Nat /\ boots[t].nodes \subseteq ToSet(ns)
    BY <1>3 DEF Turned
  <2>2. NoBoots.n = 0 /\ NoBoots.nodes = {}
    BY DEF NoBoots
  <2> QED
    BY <2>1, <2>2
<1>7. /\ bootPos'[t] = NextBootPos(t)
      /\ boots'[t].n = seen.n + 1 /\ boots'[t].nodes = seen.nodes \cup ToSet(Bootstrap(t))
      /\ \A u \in Targets : u # t => bootPos'[u] = bootPos[u] /\ boots'[u] = boots[u]
  BY <1>3
<1>8. NextBootPos(t) \in Nat /\ (top < N => NextBootPos(t) < N)
  <2>1. CASE top >= N
    BY <1>1, <1>2, <1>3, <2>1 DEF NextBootPos
  <2>2. CASE ~(top >= N)
    <3>1. NextBootPos(t) = (pos + top) % N
      BY <1>5, <2>2 DEF NextBootPos
    <3>2. pos + top \in Nat
      BY <1>2, <1>4
    <3> HIDE DEF N
    <3>3. \A a \in Nat : a % N \in Nat /\ a % N < N
      BY <1>1
    <3> QED
      BY <3>1, <3>2, <3>3
  <2> QED
    BY <2>1, <2>2
<1>9. /\ bootPos' \in [Targets -> Nat]
      /\ boots' \in [Targets -> [n : Nat, nodes : SUBSET AnyNode]]
  <2>1. [n |-> seen.n + 1, nodes |-> seen.nodes \cup ToSet(Bootstrap(t))] \in [n : Nat, nodes : SUBSET AnyNode]
    BY <1>1, <1>6
  <2> QED
    BY <1>3, <1>8, <2>1
<1>10. Top(t)' = top /\ \A u \in Targets : Top(u)' = Top(u)
  BY DEF Top, OnlyOn, SamePlan
<1>11. ~plan.conf[t].group /\ top < N =>
          \A p \in 0 .. (N - 1) :
              Behind(p, bootPos'[t], boots'[t].n * top, N) => ns[p + 1] \in boots'[t].nodes
  <2> SUFFICES ASSUME ~plan.conf[t].group, top < N, NEW p \in 0 .. (N - 1),
                      Behind(p, bootPos'[t], boots'[t].n * top, N)
               PROVE  ns[p + 1] \in boots'[t].nodes
    OBVIOUS
  <2>1. NextBootPos(t) = (pos + top) % N
    BY <1>1, <1>2, <1>5 DEF NextBootPos
  <2>2. (seen.n + 1) * top = room + top /\ room \in Nat
    BY <1>2, <1>6
  <2>3. Behind(p, (pos + top) % N, room + top, N)
    BY <1>7, <2>1, <2>2
  <2> HIDE DEF N, top, pos, room, ns
  <2>4. Behind(p, pos, room, N) \/ \E i \in 1 .. top : (pos + i - 1) % N = p
    <3>1. PICK a, b, c, d : a = N /\ b = top /\ c = pos /\ d = room
      OBVIOUS
    <3>2. a \in Nat \ {0} /\ b \in Nat \ {0} /\ b < a /\ c \in 0 .. (a - 1) /\ d \in Nat /\ p \in 0 .. (a - 1)
      BY <1>1, <1>2, <1>4, <2>2, <3>1
    <3>3. PICK e, f : e = (c + b) % a /\ f = d + b
      OBVIOUS
    <3>5. Behind(p, e, f, a)
      BY <2>3, <3>1, <3>3
    <3>4. Behind(p, c, d, a) \/ InWindow(p, c, b, a)
      BY <3>2, <3>3, <3>5, WindowMoves
    <3> QED
      BY <3>1, <3>4 DEF InWindow
  <2>5. CASE \E i \in 1 .. top : (pos + i - 1) % N = p
    <3>1. PICK i \in 1 .. top : (pos + i - 1) % N = p
      BY <2>5
    <3>2. Bootstrap(t) = [k \in 1 .. top |-> ns[((pos + k - 1) % N) + 1]]
      BY <1>1, <1>2, <1>5 DEF Bootstrap, N, ns, top
    <3>3. i \in DOMAIN Bootstrap(t) /\ Bootstrap(t)[i] = ns[p + 1]
      BY <3>1, <3>2
    <3>4. ns[p + 1] \in ToSet(Bootstrap(t))
      BY <3>3 DEF ToSet
    <3> QED
      BY <1>7, <3>4
  <2>6. CASE Behind(p, pos, room, N)
    <3>1. CASE seen = boots[t]
      <4>1. Behind(p, BootStart(t), boots[t].n * Top(t), Len(nodeNames[t]))
        BY <2>6, <3>1 DEF pos, room, N, top, ns
      <4>2. nodeNames[t][p + 1] \in boots[t].nodes
        BY <1>3, <4>1 DEF Turned, N, top, ns
      <4> QED
        BY <1>7, <3>1, <4>2 DEF ns
    <3>2. CASE seen = NoBoots
      <4>1. room = 0
        BY <1>2, <3>2 DEF room, NoBoots
      <4>2. FALSE
        BY <1>1, <1>4, <2>6, <4>1 DEF Behind
      <4> QED
        BY <4>2
    <3> QED
      BY <3>1, <3>2
  <2> QED
    BY <2>4, <2>5, <2>6
<1>12. top >= N => boots'[t].nodes = ToSet(ns)
  <2> SUFFICES ASSUME top >= N
               PROVE  boots'[t].nodes = ToSet(ns)
    OBVIOUS
  <2>1. Bootstrap(t) = ns
    BY DEF Bootstrap
  <2> QED
    BY <1>6, <1>7, <2>1
<1>13. Turned(t)'
  <2>1. boots'[t].nodes \subseteq ToSet(ns)
    BY <1>6, <1>7
  <2>2. nodeNames'[t] = ns /\ plan'.conf = plan.conf
    BY DEF OnlyOn, SamePlan
  <2>3. top < N => BootStart(t)' = bootPos'[t]
    BY <1>1, <1>2, <1>7, <1>8, <2>2 DEF BootStart
  <2> HIDE DEF ns
  <2> QED
    BY <1>1, <1>2, <1>7, <1>8, <1>10, <1>11, <1>12, <2>1, <2>2, <2>3 DEF Turned, N, top
<1>14. ASSUME NEW u \in Targets, u # t
       PROVE  Turned(u)'
  <2>1. Turned(u)
    BY DEF BootsGood
  <2>2. bootPos'[u] = bootPos[u] /\ boots'[u] = boots[u] /\ Top(u)' = Top(u) /\ nodeNames'[u] = nodeNames[u]
        /\ plan'.conf = plan.conf
    BY <1>7, <1>10, <1>14 DEF OnlyOn, SamePlan
  <2> QED
    BY <2>1, <2>2 DEF Turned, BootStart
<1> QED
  BY <1>9, <1>13, <1>14 DEF BootsGood

-----------------------------------------------------------------------------
(* The steps of the rounds.                                                *)

\* The steps that change nothing of the probes but their jobs.
LEMMA JobOnly ==
    ASSUME ProbeInv, HistInv', OnlyOn, JobsGood',
           UNCHANGED <<nodeNames, busy, picked, nodeLatency, nodeHistory, outboundHistory, round, memo, fullAt,
                       requests, processed, bootPos, boots>>
    PROVE  ProbeInv'
<1>1. NodesGood'
  BY NodesStay DEF ProbeInv, HistInv
<1>2. ShortHistories'
  BY HistoriesStay DEF ProbeInv
<1>3. RoundsGood'
  BY RoundsStay DEF ProbeInv, HistInv
<1>4. BootsGood'
  BY BootsStay DEF ProbeInv
<1> QED
  BY <1>1, <1>2, <1>3, <1>4 DEF ProbeInv

LEMMA HistoryMoves ==
    ASSUME HistInv, HistoryNext
    PROVE  OnlyOn
<1>0. plan \in Plans /\ now \in Nat /\ (plan' = plan => SamePlan)
  BY SameIsSame DEF HistInv, PlanTypes
<1>1. ASSUME NEW q \in Polls, NEW s \in ServerIds, PingFromConfig(q, s) \/ LatencyInfo(q, s)
      PROVE  OnlyOn
  <2>1. PollStarts(q)
    BY <1>1, Zenon DEF PingFromConfig, LatencyInfo
  <2>2. plan.polls > 0 /\ plan' = [plan EXCEPT !.polls = @ - 1] /\ UNCHANGED <<now, there>>
    BY <2>1, Zenon DEF PollStarts
  <2>3. SamePlan
    BY <1>0, <2>2, PlanSpends
  <2> QED
    BY <1>0, <2>2, <2>3 DEF OnlyOn
<1>2. ASSUME NEW q \in Polls, NEW ms \in plan.lats, NEW on \in BOOLEAN, PingAnswered(q, ms, on)
      PROVE  OnlyOn
  BY <1>0, <1>2 DEF PingAnswered, OnlyOn
<1>3. ASSUME NEW q \in Polls, PollRecords(q)
      PROVE  OnlyOn
  BY <1>0, <1>3 DEF PollRecords, OnlyOn
<1>4. ASSUME NEW s \in ServerIds, NEW n \in {0, 1}, Snapshot(s, n)
      PROVE  OnlyOn
  BY <1>0, <1>4, PlanSpends DEF Snapshot, OnlyOn
<1>5. ASSUME NEW s \in ServerIds, DeleteServerEntry(s) \/ DeleteSeries(s) \/ Toggle(s)
      PROVE  OnlyOn
  BY <1>0, <1>5, PlanSpends DEF DeleteServerEntry, DeleteSeries, Toggle, OnlyOn
<1>6. ASSUME NEW s \in ServerIds, NEW ms \in plan.lats, NEW m \in BOOLEAN, Pong(s, ms, m)
      PROVE  OnlyOn
  BY <1>0, <1>6, PlanSpends DEF Pong, OnlyOn
<1>7. ASSUME Configure \/ Tick
      PROVE  OnlyOn
  BY <1>0, <1>7 DEF Configure, Tick, OnlyOn
<1> QED
  BY <1>1, <1>2, <1>3, <1>4, <1>5, <1>6, <1>7, Zenon DEF HistoryNext

LEMMA HistoryKeeps ==
    ASSUME ProbeInv, HistoryNext, UNCHANGED pingVars
    PROVE  ProbeInv'
<1>1. HistInv' /\ OnlyOn
  BY HistoryGood, HistoryMoves DEF ProbeInv
<1>2. JobsGood'
  BY JobsStay DEF ProbeInv, pingVars
<1> QED
  BY <1>1, <1>2, JobOnly DEF pingVars

LEMMA StopKeeps ==
    ASSUME ProbeInv, StopPings
    PROVE  ProbeInv'
<1>1. HistInv' /\ OnlyOn
  BY HistStays, SameIsSame DEF ProbeInv, HistInv, StopPings, historyVars
<1>2. JobsGood'
  BY JobsStay DEF ProbeInv, StopPings
<1> QED
  BY <1>1, <1>2, JobOnly DEF StopPings

LEMMA DoneIs ==
    ASSUME NEW full \in BOOLEAN
    PROVE  /\ [NoJob EXCEPT !.pc = "done", !.full = full] \in ScanJobs
           /\ [NoJob EXCEPT !.pc = "done", !.full = full].probing = {}
           /\ [NoJob EXCEPT !.pc = "done"] \in ScanJobs
           /\ [NoJob EXCEPT !.pc = "done"].probing = {}
BY NoJobIs DEF ScanJobs

LEMMA SkipsKeep ==
    ASSUME ProbeInv, NEW r \in Rounds, NEW t \in Targets, PingAllSkips(r, t)
    PROVE  ProbeInv'
<1>1. plan \in Plans /\ (plan' = plan => SamePlan)
  BY SameIsSame DEF ProbeInv, HistInv, PlanTypes
<1>2. plan' = plan \/ (plan.unresolved > 0 /\ plan' = [plan EXCEPT !.unresolved = @ - 1])
  BY DEF PingAllSkips
<1>3. SamePlan
  BY <1>1, <1>2, PlanSpends
<1>4. HistInv' /\ OnlyOn
  BY <1>3, HistStays DEF ProbeInv, PingAllSkips
<1>5. PICK j \in ScanJobs : JobTo(r, t, j) /\ j.probing = {}
  BY DoneIs DEF PingAllSkips
<1>6. JobsGood'
  BY <1>5, JobShrinks DEF ProbeInv
<1> QED
  BY <1>4, <1>6, JobOnly DEF PingAllSkips

LEMMA AcquireKeeps ==
    ASSUME ProbeInv, NEW r \in Rounds, NEW t \in Targets, AcquireSlot(r, t)
    PROVE  ProbeInv'
<1>1. HistInv' /\ OnlyOn
  BY Keeping DEF ProbeInv, AcquireSlot
<1>2. JobsGood'
  BY AcquireJobs DEF ProbeInv
<1> QED
  BY <1>1, <1>2, JobOnly DEF AcquireSlot, PingKeeps

LEMMA AbandonKeeps ==
    ASSUME ProbeInv, NEW r \in Rounds, NEW t \in Targets, Abandon(r, t)
    PROVE  ProbeInv'
<1>1. HistInv' /\ OnlyOn
  BY Keeping DEF ProbeInv, Abandon
<1>2. job[r][t] \in ScanJobs
  BY JobWas DEF ProbeInv
<1>3. PICK j : j = [job[r][t] EXCEPT !.nodes = <<>>]
  OBVIOUS
<1>4. j \in ScanJobs /\ j.probing = job[r][t].probing
  <2>1. PICK old \in ScanJobs : old = job[r][t]
    BY <1>2
  <2>2. <<>> \in Seq(AnyNode)
    OBVIOUS
  <2>3. PICK none \in Seq(AnyNode) : none = <<>>
    BY <2>2
  <2>4. [old EXCEPT !.nodes = none] \in ScanJobs /\ [old EXCEPT !.nodes = none].probing = old.probing
    BY DEF ScanJobs
  <2> QED
    BY <1>3, <2>1, <2>3, <2>4
<1>5. JobsGood'
  BY <1>3, <1>4, JobShrinks DEF ProbeInv, Abandon
<1> QED
  BY <1>1, <1>5, JobOnly DEF Abandon, PingKeeps

LEMMA EndsKeep ==
    ASSUME ProbeInv, NEW r \in Rounds, NEW t \in Targets, PingAllEnds(r, t)
    PROVE  ProbeInv'
<1>1. HistInv' /\ OnlyOn
  BY Keeping DEF ProbeInv, PingAllEnds
<1>2. job[r][t].full \in BOOLEAN
  BY JobWas DEF ProbeInv, ScanJobs
<1>3. PICK j : j = [NoJob EXCEPT !.pc = "done", !.full = job[r][t].full]
  OBVIOUS
<1>4. j \in ScanJobs /\ j.probing = {}
  BY <1>2, <1>3, DoneIs
<1>5. JobsGood'
  BY <1>3, <1>4, JobShrinks DEF ProbeInv, PingAllEnds
<1> QED
  BY <1>1, <1>5, JobOnly DEF PingAllEnds, PingKeeps

LEMMA ChoosesKeep ==
    ASSUME ProbeInv, NEW r \in Rounds, NEW t \in Targets, PingAllChooses(r, t)
    PROVE  ProbeInv'
<1>1. HistInv' /\ OnlyOn
  BY Keeping DEF ProbeInv, PingAllChooses
<1>2. NodeTypes /\ PlanTypes /\ BootsGood /\ JobsGood
  BY DEF ProbeInv, NodesGood, HistInv
<1>3. PICK j : Starts(r, t, j) /\ JobTo(r, t, j)
  BY <1>2, ChooseIs
<1>4. JobsGood'
  BY <1>2, <1>3, JobShrinks DEF Starts
<1>5. nodeNames' = nodeNames /\ nodeNames[t] # <<>>
  BY DEF PingAllChooses, PingKeeps
<1>6. BootsGood'
  <2> DEFINE full == r = "topology" \/ FullScanDue(t, round[r].at)
             seen == IF boots[t].nodes = ToSet(nodeNames[t]) THEN NoBoots ELSE boots[t]
  <2>1. CASE ~full /\ Few(t) = <<>>
    <3>1. /\ bootPos' = [bootPos EXCEPT ![t] = NextBootPos(t)]
          /\ boots' = [boots EXCEPT ![t] = [n |-> seen.n + 1, nodes |-> seen.nodes \cup ToSet(Bootstrap(t))]]
      BY <2>1, Zenon DEF PingAllChooses, Few
    <3>2. bootPos[t] \in Nat
      BY <1>2 DEF BootsGood
    <3>3. ToSet(Bootstrap(t)) \subseteq ToSet(nodeNames[t])
      BY <1>2, <1>5, <2>1, <3>2, BootCompares
    <3>4. seen \in {NoBoots, boots[t]}
      OBVIOUS
    <3> HIDE DEF seen
    <3> QED
      BY <1>1, <1>2, <1>5, <3>1, <3>3, <3>4, TurnedNext
  <2>2. CASE ~(~full /\ Few(t) = <<>>)
    <3>1. bootPos' = bootPos /\ boots' = boots
      BY <2>2, Zenon DEF PingAllChooses, Few
    <3> QED
      BY <1>1, <1>2, <1>5, <3>1, BootsStay
  <2> QED
    BY <2>1, <2>2
<1>7. NodesGood'
  BY <1>1, <1>2, NodesStay DEF ProbeInv, PingAllChooses, PingKeeps
<1>8. ShortHistories'
  BY <1>1, HistoriesStay DEF ProbeInv, PingAllChooses
<1>9. RoundsGood'
  BY <1>1, <1>2, RoundsStay DEF ProbeInv, PingAllChooses, PingKeeps
<1> QED
  BY <1>1, <1>4, <1>6, <1>7, <1>8, <1>9 DEF ProbeInv

\* A probe's result is a sample of now.
LEMMA ProbeKeeps ==
    ASSUME ProbeInv, NEW r \in Rounds, NEW t \in Targets, NEW n \in AnyNode, NEW ms \in plan.lats,
           Probe(r, t, n, ms)
    PROVE  ProbeInv'
<1> DEFINE x == Sample(now, ms, ms > 0, "auto_ping", FALSE)
<1>1. HistInv' /\ OnlyOn
  BY Keeping DEF ProbeInv, Probe
<1>2. NodeTypes /\ PlanTypes /\ BootsGood /\ JobsGood /\ ShortHistories
  BY DEF ProbeInv, NodesGood, HistInv
<1>3. ms \in Lats /\ ms \in Nat /\ now \in Nat
  BY <1>2, HistoryConstants DEF PlanTypes, Plans
<1>4. x \in Samples
  <2>1. "auto_ping" \in Sources
    BY DEF Sources
  <2>2. (ms > 0) \in BOOLEAN
    BY <1>3
  <2>3. PICK on \in BOOLEAN : on = (ms > 0)
    BY <2>2
  <2> QED
    BY <1>3, <2>1, <2>3, SampleIs
<1>5. /\ nodeLatency' = [nodeLatency EXCEPT ![t][n] = [lat |-> ms, at |-> now]]
      /\ nodeHistory' = [nodeHistory EXCEPT ![t][n] = HistoryAppend(nodeHistory[t][n], x, NodeGap(t))]
      /\ outboundHistory' = OutboundRecorded(t, n, x)
      /\ JobTo(r, t, ReleaseSlot(job[r][t], n, ms))
      /\ UNCHANGED <<nodeNames, busy, picked, requests, processed, plan, now>>
      /\ UNCHANGED <<round, memo, bootPos, fullAt, firstAt, boots>>
  BY DEF Probe, PingKeeps, historyVars
<1> HIDE DEF x
<1>6. JobsGood'
  <2>1. PICK old \in ScanJobs : old = job[r][t]
    BY <1>2, JobWas
  <2>2. ReleaseSlot(old, n, ms) \in ScanJobs /\ ReleaseSlot(old, n, ms).probing \subseteq old.probing
    BY DEF ScanJobs, ReleaseSlot
  <2> QED
    BY <1>2, <1>5, <2>1, <2>2, JobShrinks
<1>7. NodesGood'
  <2>1. \A u \in Targets, m \in AnyNode :
           nodeLatency'[u][m] = IF u = t /\ m = n THEN [lat |-> ms, at |-> now] ELSE nodeLatency[u][m]
    BY <1>2, <1>5 DEF NodeTypes
  <2>2. [lat |-> ms, at |-> now] \in [lat : Lats, at : Nat]
    BY <1>3
  <2>3. nodeLatency' \in [Targets -> [AnyNode -> [lat : Lats, at : Nat]]]
    BY <1>2, <1>5, <2>2 DEF NodeTypes
  <2>4. \A u \in Targets, m \in AnyNode : nodeLatency'[u][m].at <= now'
    BY <1>3, <1>5, <2>1 DEF ProbeInv, NodesGood
  <2> QED
    BY <1>2, <1>5, <2>3, <2>4 DEF ProbeInv, NodesGood, NodeTypes
<1>8. ShortHistories'
  <2>1. Cap \in Nat /\ settings.storage <= Cap /\ settings \in AllSettings
    BY <1>2, PlanNumbers DEF PlanTypes
  <2>2. Cap' = Cap
    BY <1>5 DEF Cap
  <2>3. \A gap : \A ss \in Seq(Samples) : Len(ss) <= Cap =>
           HistoryAppend(ss, x, gap) \in Seq(Samples) /\ Len(HistoryAppend(ss, x, gap)) <= Cap
    BY <1>4, <2>1, AppendIs
  <2>4. nodeHistory[t][n] \in Seq(Samples) /\ Len(nodeHistory[t][n]) <= Cap
    BY <1>2 DEF ShortHistories
  <2>5. PICK h : h = HistoryAppend(nodeHistory[t][n], x, NodeGap(t))
    OBVIOUS
  <2>6. h \in Seq(Samples) /\ Len(h) <= Cap
    BY <2>3, <2>4, <2>5
  <2>7. \A u \in Targets, m \in AnyNode : nodeHistory'[u][m] = IF u = t /\ m = n THEN h ELSE nodeHistory[u][m]
    BY <1>2, <1>5, <2>5 DEF ShortHistories
  <2>8. nodeHistory' \in [Targets -> [AnyNode -> Seq(Samples)]]
    BY <1>2, <1>5, <2>5, <2>6 DEF ShortHistories
  <2>9. outboundHistory' \in [Nodes -> Seq(Samples)] /\ \A m \in Nodes : Len(outboundHistory'[m]) <= Cap
    <3>1. CASE n = Direct \/ n \notin plan.listed
      BY <1>2, <1>5, <3>1 DEF OutboundRecorded, ShortHistories
    <3>2. CASE ~(n = Direct \/ n \notin plan.listed)
      <4>1. n \in Nodes
        BY <3>2 DEF AnyNode
      <4>2. PICK gap : gap = coalesce(settings.gap, plan.conf[t].every)
        OBVIOUS
      <4>3. outboundHistory' = [outboundHistory EXCEPT ![n] = HistoryAppend(outboundHistory[n], x, gap)]
        BY <1>5, <3>2, <4>2 DEF OutboundRecorded
      <4>4. outboundHistory[n] \in Seq(Samples) /\ Len(outboundHistory[n]) <= Cap
        BY <1>2, <4>1 DEF ShortHistories
      <4>5. PICK g : g = HistoryAppend(outboundHistory[n], x, gap)
        OBVIOUS
      <4>6. g \in Seq(Samples) /\ Len(g) <= Cap
        BY <2>3, <4>4, <4>5
      <4> QED
        BY <1>2, <4>3, <4>5, <4>6 DEF ShortHistories
    <3> QED
      BY <3>1, <3>2
  <2>10. \A u \in Targets, m \in AnyNode : Len(nodeHistory'[u][m]) <= Cap
    BY <1>2, <2>6, <2>7 DEF ShortHistories
  <2> QED
    BY <2>2, <2>8, <2>9, <2>10 DEF ShortHistories
<1>9. RoundsGood'
  BY <1>1, <1>2, <1>5, RoundsStay DEF ProbeInv
<1>10. BootsGood'
  BY <1>1, <1>2, <1>5, BootsStay
<1> QED
  BY <1>1, <1>6, <1>7, <1>8, <1>9, <1>10 DEF ProbeInv

LEMMA FilteredIs ==
    ASSUME NEW ss \in Seq(Samples), NEW cutoff
    PROVE  filtered(ss, cutoff) \in Seq(Samples) /\ Len(filtered(ss, cutoff)) <= Len(ss)
<1>1. {i \in DOMAIN ss : ss[i].at >= cutoff} \subseteq DOMAIN ss
  OBVIOUS
<1> QED
  BY <1>1, SelectedIs DEF filtered

LEMMA CleanupKeeps ==
    ASSUME ProbeInv, CleanupHistories
    PROVE  ProbeInv'
<1>1. HistInv' /\ OnlyOn
  BY Keeping DEF ProbeInv, CleanupHistories
<1>2. NodesGood /\ PlanTypes /\ BootsGood /\ JobsGood /\ ShortHistories /\ RoundsGood
  BY DEF ProbeInv, HistInv
<1>3. PICK cutoff : cutoff = now - settings.retention
  OBVIOUS
<1>4. /\ nodeHistory' = [t \in Targets |-> [n \in AnyNode |-> filtered(nodeHistory[t][n], cutoff)]]
      /\ outboundHistory' = [n \in Nodes |-> filtered(outboundHistory[n], cutoff)]
      /\ UNCHANGED <<nodeNames, busy, picked, requests, processed, plan, now>>
      /\ UNCHANGED <<nodeLatency, round, job, memo, bootPos, fullAt, firstAt, boots>>
  BY <1>3 DEF CleanupHistories, PingKeeps, historyVars
<1>5. ShortHistories'
  <2>1. Cap \in Nat /\ Cap' = Cap
    BY <1>2, <1>4, PlanNumbers DEF Cap
  <2>2. \A ss \in Seq(Samples) : Len(ss) <= Cap =>
           filtered(ss, cutoff) \in Seq(Samples) /\ Len(filtered(ss, cutoff)) <= Cap
    <3> SUFFICES ASSUME NEW ss \in Seq(Samples), Len(ss) <= Cap
                 PROVE  filtered(ss, cutoff) \in Seq(Samples) /\ Len(filtered(ss, cutoff)) <= Cap
      OBVIOUS
    <3>1. filtered(ss, cutoff) \in Seq(Samples) /\ Len(filtered(ss, cutoff)) <= Len(ss)
      BY FilteredIs
    <3>2. Len(filtered(ss, cutoff)) \in Nat /\ Len(ss) \in Nat
      BY <3>1
    <3> QED
      BY <2>1, <3>1, <3>2
  <2>3. ASSUME NEW t \in Targets, NEW n \in AnyNode
        PROVE  nodeHistory'[t][n] \in Seq(Samples) /\ Len(nodeHistory'[t][n]) <= Cap
    <3>1. nodeHistory[t][n] \in Seq(Samples) /\ Len(nodeHistory[t][n]) <= Cap
      BY <1>2 DEF ShortHistories
    <3>2. nodeHistory'[t][n] = filtered(nodeHistory[t][n], cutoff)
      BY <1>4
    <3> QED
      BY <2>2, <3>1, <3>2
  <2>4. ASSUME NEW n \in Nodes
        PROVE  outboundHistory'[n] \in Seq(Samples) /\ Len(outboundHistory'[n]) <= Cap
    <3>1. outboundHistory[n] \in Seq(Samples) /\ Len(outboundHistory[n]) <= Cap
      BY <1>2 DEF ShortHistories
    <3>2. outboundHistory'[n] = filtered(outboundHistory[n], cutoff)
      BY <1>4
    <3> QED
      BY <2>2, <3>1, <3>2
  <2>5. nodeHistory' \in [Targets -> [AnyNode -> Seq(Samples)]]
    <3>1. \A t \in Targets : nodeHistory'[t] = [n \in AnyNode |-> filtered(nodeHistory[t][n], cutoff)]
      BY <1>4
    <3>2. \A t \in Targets : nodeHistory'[t] \in [AnyNode -> Seq(Samples)]
      BY <2>3, <3>1
    <3> QED
      BY <1>4, <3>2
  <2>6. outboundHistory' \in [Nodes -> Seq(Samples)]
    BY <1>4, <2>4
  <2> QED
    BY <2>1, <2>3, <2>4, <2>5, <2>6 DEF ShortHistories
<1>6. NodesGood' /\ RoundsGood' /\ JobsGood' /\ BootsGood'
  BY <1>1, <1>2, <1>4, NodesStay, RoundsStay, JobsStay, BootsStay
<1> QED
  BY <1>1, <1>5, <1>6 DEF ProbeInv

LEMMA SessionsKeep ==
    ASSUME ProbeInv, NEW t \in Targets, Sessions(t)
    PROVE  ProbeInv'
<1>1. SamePlan
  BY PlanSpends DEF Sessions, ProbeInv, HistInv, PlanTypes
<1>2. HistInv' /\ OnlyOn
  BY <1>1, HistStays DEF ProbeInv, Sessions
<1>3. busy' \subseteq Targets
  BY DEF Sessions, ProbeInv, NodesGood
<1>4. NodesGood'
  BY <1>3 DEF Sessions, ProbeInv, NodesGood, NodeTypes
<1>5. ShortHistories'
  BY <1>2, HistoriesStay DEF ProbeInv, Sessions
<1>6. RoundsGood'
  BY <1>2, RoundsStay DEF ProbeInv, HistInv, Sessions
<1>7. JobsGood' /\ BootsGood'
  BY <1>2, JobsStay, BootsStay DEF ProbeInv, Sessions
<1> QED
  BY <1>2, <1>4, <1>5, <1>6, <1>7 DEF ProbeInv

LEMMA TriggerKeeps ==
    ASSUME ProbeInv, TriggerAutoLatencyRefresh
    PROVE  ProbeInv'
<1>1. SamePlan
  BY PlanSpends DEF TriggerAutoLatencyRefresh, ProbeInv, HistInv, PlanTypes
<1>2. HistInv' /\ OnlyOn
  BY <1>1, HistStays DEF ProbeInv, TriggerAutoLatencyRefresh
<1>3. NodesGood'
  BY <1>2, NodesStay DEF ProbeInv, HistInv, TriggerAutoLatencyRefresh
<1>4. ShortHistories' /\ JobsGood' /\ BootsGood'
  BY <1>2, HistoriesStay, JobsStay, BootsStay DEF ProbeInv, TriggerAutoLatencyRefresh
<1>5. RoundsGood'
  <2>1. \A u \in Targets : Pinged(u)' => Pinged(u)
    BY <1>2 DEF Pinged, OnlyOn, SamePlan
  <2>2. round["topology"].seq \in Nat
    BY RoundTimes DEF ProbeInv, Rounds
  <2> QED
    BY <2>1, <2>2 DEF TriggerAutoLatencyRefresh, ProbeInv, RoundsGood
<1> QED
  BY <1>2, <1>3, <1>4, <1>5 DEF ProbeInv

-----------------------------------------------------------------------------
(* The steps of a round as a whole.                                        *)

LEMMA RoundTo ==
    ASSUME RoundsGood, PlanTypes, OnlyOn, NEW r \in Rounds, NEW n \in RoundRecs,
           round' = [round EXCEPT ![r] = n], n.at <= now',
           n.pc = "after" => n.todo \subseteq n.due,
           r = "topology" => /\ n.seq <= requests
                             /\ n.pc = "pings" => \A t \in Targets : Pinged(t)' => t \in n.due,
           memo' \in Memos, fullAt' = memo'.full,
           requests' = requests, processed' \in Nat, processed' <= requests
    PROVE  RoundsGood'
<1>1. round' \in [Rounds -> RoundRecs] /\ round'[r] = n
  BY DEF RoundsGood
<1>2. \A o \in Rounds : o # r => round'[o] = round[o]
  BY DEF RoundsGood
<1>3. \A o \in Rounds : round'[o].at <= now'
  BY <1>1, <1>2, RoundTimes DEF RoundsGood, OnlyOn, PlanTypes
<1>4. \A o \in Rounds : round'[o].pc = "after" => round'[o].todo \subseteq round'[o].due
  BY <1>1, <1>2 DEF RoundsGood
<1>5. \A t \in Targets : Pinged(t)' => Pinged(t)
  BY DEF Pinged, OnlyOn, SamePlan
<1>6. /\ round'["topology"].seq <= requests
      /\ round'["topology"].pc = "pings" => \A t \in Targets : Pinged(t)' => t \in round'["topology"].due
  <2>1. CASE r = "topology"
    BY <1>1, <2>1
  <2>2. CASE r # "topology"
    BY <1>2, <1>5, <2>2 DEF RoundsGood, Rounds
  <2> QED
    BY <2>1, <2>2
<1>7. requests' \in Nat
  BY DEF RoundsGood
<1> QED
  BY <1>1, <1>3, <1>4, <1>6, <1>7 DEF RoundsGood

LEMMA SwitchIs ==
    ASSUME NodeTypes, NEW t \in Targets, NEW at \in Nat, NEW switch \in Int, NEW seen \in Int
    PROVE  /\ AutoSwitch(t, at, switch, seen).pick \in AnyNode \cup {None}
           /\ AutoSwitch(t, at, switch, seen).switch \in Int
           /\ AutoSwitch(t, at, switch, seen).seen \in Int
<1>1. picked[t] \in AnyNode \cup {None}
  BY DEF NodeTypes
<1>2. Best(t) \in AnyNode \cup {None}
  BY BestIs
<1>3. \A n \in AnyNode \cup {None} : n \in Int
  BY NodesAre
<1>4. PICK p, b : p = picked[t] /\ b = Best(t)
  OBVIOUS
<1>5. PICK since : since = IF ~(seen # p) THEN switch ELSE IF p = None THEN Never ELSE at
  OBVIOUS
<1>6. since \in Int
  BY <1>5 DEF Never
<1>7. \/ AutoSwitch(t, at, switch, seen) = [pick |-> p, switch |-> switch, seen |-> seen]
      \/ AutoSwitch(t, at, switch, seen) = [pick |-> p, switch |-> since, seen |-> p]
      \/ AutoSwitch(t, at, switch, seen) = [pick |-> b, switch |-> at, seen |-> b]
  BY <1>4, <1>5, Zenon DEF AutoSwitch
<1>8. p \in AnyNode \cup {None} /\ b \in AnyNode \cup {None} /\ p \in Int /\ b \in Int
  BY <1>1, <1>2, <1>3, <1>4
<1> QED
  BY <1>6, <1>7, <1>8

LEMMA MeasuredIs ==
    ASSUME NodeTypes, NEW t \in Targets, NEW n \in AnyNode \cup {None}
    PROVE  MeasuredFor(t, n) \in Lats
<1>1. 0 \in Lats
  BY HistoryConstants
<1>2. KnownNodes(t) \subseteq AnyNode
  BY NamesAre DEF KnownNodes
<1>3. GetServerNodeLatency(t, n) \in Lats
      /\ (KnownNodes(t) # {} => GetServerNodeLatency(t, Fastest(t, KnownNodes(t))) \in Lats)
  BY <1>2, FastestIs, LatencyIs
<1> QED
  BY <1>1, <1>3 DEF MeasuredFor

LEMMA AfterKeeps ==
    ASSUME ProbeInv, NEW r \in Rounds, NEW t \in Targets, NEW at \in Nat, at <= now,
           NEW sw, sw.pick \in AnyNode \cup {None}, After(r, t, at, sw)
    PROVE  HistInv' /\ OnlyOn /\ NodesGood' /\ ShortHistories' /\ JobsGood' /\ BootsGood'
<1>1. NodesGood /\ NodeTypes /\ PlanTypes /\ PlaceTypes /\ SeriesGood /\ AnswerGood
      /\ BootsGood /\ JobsGood /\ ShortHistories
  BY DEF ProbeInv, HistInv, NodesGood
<1>2. /\ picked' = [picked EXCEPT ![t] = sw.pick]
      /\ UNCHANGED <<plan, now, settings, there, up, cached, poll, deleting, served>>
      /\ UNCHANGED <<nodeNames, busy, nodeLatency, nodeHistory, outboundHistory, job, bootPos, boots>>
  BY DEF After
<1>3. SamePlan /\ now \in Nat
  BY <1>1, <1>2, SameIsSame DEF PlanTypes
<1>4. OnlyOn
  BY <1>2, <1>3 DEF OnlyOn
<1>5. SeriesGood'
  <2>1. CASE t \in ServerIds
    <3>1. PICK x \in {Sample(at, ms, ms > 0, "auto_ping", FALSE) : ms \in {MeasuredFor(t, sw.pick)}} :
             RecordServerLatency([s \in {t} |-> x])
      BY <2>1, Zenon DEF After
    <3>2. PICK ms : ms = MeasuredFor(t, sw.pick) /\ x = Sample(at, ms, ms > 0, "auto_ping", FALSE)
      BY <3>1
    <3>3. ms \in Lats /\ ms \in Nat
      BY <1>1, <3>2, MeasuredIs, HistoryConstants
    <3>0. (ms > 0) \in BOOLEAN
      BY <3>3
    <3>4. PICK on \in BOOLEAN : on = (ms > 0)
      BY <3>0
    <3>5. "auto_ping" \in Sources
      BY DEF Sources
    <3>6. x \in Samples /\ x.at = at /\ ~x.echo
      <4>1. x \in Samples
        BY <3>2, <3>3, <3>4, <3>5, SampleIs
      <4>2. x.at = at /\ ~x.echo
        BY <3>2, Zenon DEF Sample
      <4> QED
        BY <4>1, <4>2
    <3>7. PICK new : new = [s \in {t} |-> x]
      OBVIOUS
    <3>8. DOMAIN new \subseteq ServerIds /\ \A s \in DOMAIN new : new[s] \in Samples /\ ~new[s].echo /\ new[s].at <= now
      BY <2>1, <3>6, <3>7
    <3>9. RecordServerLatency(new)
      BY <3>1, <3>7
    <3> QED
      BY <1>1, <1>2, <1>3, <3>8, <3>9, RecordsGood
  <2>2. CASE t \notin ServerIds
    <3>1. UNCHANGED <<series, late>>
      BY <2>2 DEF After, NothingRecorded
    <3> QED
      BY <1>1, <1>2, <1>3, <3>1, SeriesStay
  <2> QED
    BY <2>1, <2>2
<1>6. PlanTypes' /\ PlaceTypes' /\ AnswerGood'
  BY <1>1, <1>2, PlacesStay, AnswerStays DEF PlanTypes
<1>7. HistInv'
  BY <1>5, <1>6 DEF HistInv
<1>8. NodesGood'
  <2>1. picked' \in [Targets -> AnyNode \cup {None}]
    BY <1>1, <1>2 DEF NodeTypes
  <2> QED
    BY <1>1, <1>2, <2>1 DEF NodesGood, NodeTypes
<1>9. ShortHistories' /\ JobsGood' /\ BootsGood'
  BY <1>1, <1>2, <1>4, HistoriesStay, JobsStay, BootsStay
<1> QED
  BY <1>4, <1>7, <1>8, <1>9

LEMMA PassiveGood ==
    ASSUME HistInv, NEW S, S \subseteq ServerIds, Passive(S, now),
           UNCHANGED <<plan, now, settings, there, up, cached, poll, deleting, served>>
    PROVE  HistInv' /\ OnlyOn
<1> DEFINE heard == {s \in S : Found(s) /\ cached[s].lat > 0}
           new == [s \in heard |-> Sample(now, cached[s].lat, TRUE, "passive", FALSE)]
<1>1. PlanTypes /\ PlaceTypes /\ SeriesGood /\ AnswerGood /\ now \in Nat
  BY DEF HistInv, PlanTypes
<1>2. SamePlan
  BY <1>1, SameIsSame
<1>3. RecordServerLatency(new)
  BY DEF Passive
<1>4. "passive" \in Sources
  BY DEF Sources
<1>5. \A s \in heard : cached[s].lat \in Lats
  BY <1>1, CachedIs
<1>6. \A s \in heard : /\ Sample(now, cached[s].lat, TRUE, "passive", FALSE) \in Samples
                       /\ Sample(now, cached[s].lat, TRUE, "passive", FALSE).at = now
                       /\ ~Sample(now, cached[s].lat, TRUE, "passive", FALSE).echo
  BY <1>1, <1>4, <1>5, SampleIs
<1>7. DOMAIN new \subseteq ServerIds /\ \A s \in DOMAIN new : new[s] \in Samples /\ ~new[s].echo /\ new[s].at <= now
  <2>1. DOMAIN new = heard /\ heard \subseteq ServerIds
    OBVIOUS
  <2>2. \A s \in heard : new[s] = Sample(now, cached[s].lat, TRUE, "passive", FALSE)
    OBVIOUS
  <2> HIDE DEF new, heard
  <2>3. \A s \in heard : new[s] \in Samples /\ ~new[s].echo /\ new[s].at = now
    BY <1>6, <2>2
  <2> QED
    BY <1>1, <2>1, <2>3
<1> HIDE DEF new
<1>8. SeriesGood'
  BY <1>1, <1>2, <1>3, <1>7, RecordsGood
<1>9. PlanTypes' /\ PlaceTypes' /\ AnswerGood'
  BY <1>1, PlacesStay, AnswerStays DEF PlanTypes
<1> QED
  BY <1>1, <1>2, <1>8, <1>9 DEF HistInv, OnlyOn

LEMMA IdleRoundIs ==
    /\ IdleRound \in RoundRecs /\ IdleRound.pc = "idle" /\ IdleRound.at = 0 /\ IdleRound.seq = 0
    /\ IdleRound.due = {} /\ IdleRound.todo = {}
<1>1. [t \in Targets |-> Never] \in [Targets -> Int] /\ [t \in Targets |-> None] \in [Targets -> Int]
  BY DEF Never, None
<1> QED
  BY <1>1 DEF IdleRound, RoundRecs


LEMMA LeaveKeeps ==
    ASSUME ProbeInv, NEW r \in Rounds, Leave(r)
    PROVE  ProbeInv'
<1>1. HistInv' /\ OnlyOn
  BY Keeping DEF ProbeInv, Leave
<1>2. NodesGood /\ PlanTypes /\ BootsGood /\ JobsGood /\ ShortHistories /\ RoundsGood
  BY DEF ProbeInv, HistInv
<1>3. round[r] \in RoundRecs /\ round[r].at <= now /\ round \in [Rounds -> RoundRecs]
  BY <1>2 DEF RoundsGood
<1>4. PICK m \in RoundRecs : m = round[r]
  BY <1>3
<1>5. PICK n : n = [m EXCEPT !.pc = "gone"]
  OBVIOUS
<1>6. round' = [round EXCEPT ![r] = n]
  BY <1>3, <1>4, <1>5 DEF Leave
<1>7. n \in RoundRecs /\ n.pc = "gone" /\ n.at = m.at /\ n.seq = m.seq
  BY <1>5 DEF RoundRecs
<1>8. /\ UNCHANGED <<nodeNames, busy, picked, requests, processed, plan, now, there>>
      /\ UNCHANGED <<job, nodeLatency, nodeHistory, outboundHistory, memo, bootPos, fullAt, boots>>
  BY DEF Leave, PingKeeps, historyVars
<1>9. RoundsGood'
  <2>1. memo' \in Memos /\ fullAt' = memo'.full /\ processed' \in Nat /\ processed' <= requests
    BY <1>2, <1>8 DEF RoundsGood
  <2>2. r = "topology" => n.seq <= requests
    BY <1>2, <1>4, <1>7 DEF RoundsGood
  <2>3. n.at <= now'
    BY <1>3, <1>4, <1>7, <1>8
  <2> QED
    BY <1>1, <1>2, <1>6, <1>7, <1>8, <2>1, <2>2, <2>3, RoundTo
<1>10. NodesGood' /\ ShortHistories' /\ JobsGood' /\ BootsGood'
  BY <1>1, <1>2, <1>8, NodesStay, HistoriesStay, JobsStay, BootsStay
<1> QED
  BY <1>1, <1>9, <1>10 DEF ProbeInv

LEMMA TimerTickKeeps ==
    ASSUME ProbeInv, TimerTick
    PROVE  ProbeInv'
<1> DEFINE due == {t \in Targets : Pinged(t) /\ Elapsed(t, memo.run[t])}
           passive == {s \in ServerIds : s \in there /\ ~plan.conf[s].auto /\ Elapsed(s, memo.passive[s])}
<1>1. /\ Passive(passive, now)
      /\ memo' = [memo EXCEPT !.passive = [t \in Targets |-> IF t \in passive THEN now ELSE memo.passive[t]]]
      /\ round' = IF due = {} THEN round
                  ELSE [round EXCEPT !["timer"].pc = "pings", !["timer"].at = now, !["timer"].due = due]
      /\ due # {} => Launch("timer", due)
      /\ due = {} => job' = job
  BY DEF TimerTick
<1>2. /\ UNCHANGED <<plan, now, settings, there, up, cached, poll, deleting, served>>
      /\ UNCHANGED <<nodeNames, busy, picked, nodeLatency, nodeHistory, outboundHistory, bootPos, requests,
                     processed, fullAt, boots>>
  BY DEF TimerTick
<1>3. passive \subseteq ServerIds /\ due \in SUBSET Targets
  OBVIOUS
<1> HIDE DEF due, passive
<1>4. HistInv' /\ OnlyOn
  BY <1>1, <1>2, <1>3, PassiveGood DEF ProbeInv
<1>5. NodesGood /\ PlanTypes /\ BootsGood /\ JobsGood /\ ShortHistories /\ RoundsGood /\ now \in Nat
  BY DEF ProbeInv, HistInv, PlanTypes
<1>6. JobsGood'
  <2>1. CASE due = {}
    BY <1>1, <1>5, <2>1, JobsStay
  <2>2. CASE due # {}
    BY <1>1, <1>5, <2>2, LaunchJobs DEF Rounds
  <2> QED
    BY <2>1, <2>2
<1>7. memo' \in Memos /\ memo'.full = memo.full
  <2>1. memo \in Memos
    BY <1>5 DEF RoundsGood
  <2>2. PICK f : f = [t \in Targets |-> IF t \in passive THEN now ELSE memo.passive[t]]
    OBVIOUS
  <2>3. memo.passive \in [Targets -> Int]
    BY <2>1 DEF Memos
  <2>4. f \in [Targets -> Int]
    BY <1>5, <2>2, <2>3
  <2> QED
    BY <1>1, <2>1, <2>2, <2>4 DEF Memos
<1>8. RoundsGood'
  <2>1. round \in [Rounds -> RoundRecs] /\ "timer" \in Rounds /\ round["timer"] \in RoundRecs
    BY <1>5 DEF RoundsGood, Rounds
  <2>2. fullAt' = memo'.full /\ processed' \in Nat /\ processed' <= requests
    BY <1>2, <1>5, <1>7 DEF RoundsGood
  <2>3. CASE due = {}
    <3>1. PICK n \in RoundRecs : n = round["timer"]
      BY <2>1
    <3>2. round' = [round EXCEPT !["timer"] = n]
      BY <1>1, <2>1, <2>3, <3>1
    <3>3. n.at <= now' /\ (n.pc = "after" => n.todo \subseteq n.due)
      BY <1>2, <1>5, <2>1, <3>1 DEF RoundsGood
    <3> QED
      BY <1>2, <1>4, <1>5, <1>7, <2>1, <2>2, <3>2, <3>3, RoundTo
  <2>4. CASE due # {}
    <3>1. PICK m \in RoundRecs : m = round["timer"]
      BY <2>1
    <3>2. PICK n : n = [m EXCEPT !.pc = "pings", !.at = now, !.due = due]
      OBVIOUS
    <3>3. round' = [round EXCEPT !["timer"] = n]
      BY <1>1, <2>1, <2>4, <3>1, <3>2
    <3>4. n \in RoundRecs /\ n.pc = "pings" /\ n.at = now
      BY <1>3, <1>5, <3>2 DEF RoundRecs
    <3>5. n.at <= now' /\ n.pc # "after"
      BY <1>2, <1>5, <3>4
    <3> QED
      BY <1>2, <1>4, <1>5, <1>7, <2>1, <2>2, <3>3, <3>4, <3>5, RoundTo
  <2> QED
    BY <2>3, <2>4
<1>9. NodesGood' /\ ShortHistories' /\ BootsGood'
  BY <1>2, <1>4, <1>5, NodesStay, HistoriesStay, BootsStay
<1> QED
  BY <1>4, <1>6, <1>8, <1>9 DEF ProbeInv

LEMMA TimerCompleteKeeps ==
    ASSUME ProbeInv, TimerComplete
    PROVE  ProbeInv'
<1>1. HistInv' /\ OnlyOn
  BY Keeping DEF ProbeInv, TimerComplete
<1>2. NodesGood /\ PlanTypes /\ BootsGood /\ JobsGood /\ ShortHistories /\ RoundsGood /\ now \in Nat
  BY DEF ProbeInv, HistInv, PlanTypes
<1>3. /\ UNCHANGED <<nodeNames, busy, picked, requests, processed, plan, now, there>>
      /\ UNCHANGED <<nodeLatency, nodeHistory, outboundHistory, bootPos, boots>>
      /\ round' = [round EXCEPT !["timer"].pc = "after", !["timer"].at = now, !["timer"].todo = round["timer"].due]
      /\ memo' = [memo EXCEPT !.full = FullMemo(now)]
      /\ fullAt' = [t \in Targets |-> IF t \in FullOnes THEN now ELSE fullAt[t]]
      /\ Launch("timer", {})
  BY DEF TimerComplete, PingKeeps, historyVars
<1>4. "timer" \in Rounds /\ round \in [Rounds -> RoundRecs] /\ memo \in Memos /\ fullAt = memo.full
  BY <1>2 DEF RoundsGood, Rounds
<1>5. JobsGood'
  BY <1>2, <1>3, <1>4, LaunchJobs
<1>6. memo' \in Memos /\ fullAt' = memo'.full
  <2>1. memo.full \in [Targets -> Int]
    BY <1>4 DEF Memos
  <2>2. PICK f : f = FullMemo(now)
    OBVIOUS
  <2>3. f = [t \in Targets |-> IF t \in FullOnes THEN now ELSE memo.full[t]]
    BY <2>2 DEF FullMemo
  <2>4. f \in [Targets -> Int]
    BY <1>2, <2>1, <2>3
  <2>5. memo' \in Memos /\ memo'.full = f
    BY <1>3, <1>4, <2>2, <2>4 DEF Memos
  <2> QED
    BY <1>3, <1>4, <2>3, <2>5
<1>7. RoundsGood'
  <2>1. PICK m \in RoundRecs : m = round["timer"]
    BY <1>4
  <2>2. PICK n : n = [m EXCEPT !.pc = "after", !.at = now, !.todo = m.due]
    OBVIOUS
  <2>3. round' = [round EXCEPT !["timer"] = n]
    BY <1>3, <1>4, <2>1, <2>2
  <2>4. n \in RoundRecs /\ n.at = now /\ n.todo = n.due
    BY <1>2, <2>2 DEF RoundRecs
  <2>5. n.at <= now' /\ n.todo \subseteq n.due
    BY <1>2, <1>3, <2>4
  <2>6. processed' \in Nat /\ processed' <= requests /\ requests' = requests
    BY <1>2, <1>3 DEF RoundsGood
  <2> QED
    BY <1>1, <1>2, <1>4, <1>6, <2>3, <2>4, <2>5, <2>6, RoundTo
<1>8. NodesGood' /\ ShortHistories' /\ BootsGood'
  BY <1>1, <1>2, <1>3, NodesStay, HistoriesStay, BootsStay
<1> QED
  BY <1>1, <1>5, <1>7, <1>8 DEF ProbeInv

LEMMA TimerAfterKeeps ==
    ASSUME ProbeInv, NEW t \in Targets, TimerAfter(t)
    PROVE  ProbeInv'
<1>1. NodeTypes /\ PlanTypes /\ RoundsGood /\ now \in Nat
  BY DEF ProbeInv, HistInv, PlanTypes, NodesGood
<1>2. "timer" \in Rounds /\ round \in [Rounds -> RoundRecs] /\ memo \in Memos /\ fullAt = memo.full
  BY <1>1 DEF RoundsGood, Rounds
<1>3. PICK m \in RoundRecs : m = round["timer"]
  BY <1>2
<1>4. m.at \in Nat /\ m.at <= now /\ (m.pc = "after" => m.todo \subseteq m.due)
  BY <1>1, <1>2, <1>3 DEF RoundsGood, RoundRecs
<1>5. PICK at, left : at = m.at /\ left = m.todo \ {t}
  OBVIOUS
<1>6. /\ m.pc = "after" /\ t \in m.todo
      /\ round' = [round EXCEPT !["timer"] = IF left = {} THEN IdleRound ELSE [m EXCEPT !.todo = left]]
      /\ UNCHANGED <<processed, refreshed>>
  BY <1>3, <1>5 DEF TimerAfter
<1>7. PICK sw : /\ sw = AutoSwitch(t, at, memo.switch[t], memo.seen[t])
                /\ memo' = [memo EXCEPT !.run[t] = at, !.switch[t] = sw.switch, !.seen[t] = sw.seen]
                /\ After("timer", t, at, sw)
  BY <1>3, <1>5 DEF TimerAfter
<1>8. memo.switch \in [Targets -> Int] /\ memo.seen \in [Targets -> Int] /\ memo.run \in [Targets -> Int]
  BY <1>2 DEF Memos
<1>9. sw.pick \in AnyNode \cup {None} /\ sw.switch \in Int /\ sw.seen \in Int
  <2>1. PICK a \in Int, b \in Int : a = memo.switch[t] /\ b = memo.seen[t]
    BY <1>8
  <2> QED
    BY <1>1, <1>4, <1>5, <1>7, <2>1, SwitchIs
<1>10. HistInv' /\ OnlyOn /\ NodesGood' /\ ShortHistories' /\ JobsGood' /\ BootsGood'
  BY <1>2, <1>4, <1>5, <1>7, <1>9, AfterKeeps
<1>11. UNCHANGED <<now, requests, fullAt>>
  BY <1>7 DEF After
<1>12. memo' \in Memos /\ memo'.full = memo.full
  <2>1. at \in Int
    BY <1>4, <1>5
  <2> QED
    BY <1>2, <1>7, <1>8, <1>9, <2>1 DEF Memos
<1>13. PICK n : n = IF left = {} THEN IdleRound ELSE [m EXCEPT !.todo = left]
  OBVIOUS
<1>14. n \in RoundRecs /\ n.at <= now' /\ (n.pc = "after" => n.todo \subseteq n.due)
  <2>1. CASE left = {}
    BY <1>1, <1>11, <1>13, <2>1, IdleRoundIs
  <2>2. CASE left # {}
    <3>1. left \in SUBSET Targets
      BY <1>5 DEF RoundRecs
    <3>2. n \in RoundRecs /\ n.at = m.at /\ n.todo = left /\ n.due = m.due
      BY <1>13, <2>2, <3>1 DEF RoundRecs
    <3> QED
      BY <1>4, <1>5, <1>6, <1>11, <3>2
  <2> QED
    BY <2>1, <2>2
<1>15. RoundsGood'
  <2>1. processed' \in Nat /\ processed' <= requests /\ requests' = requests /\ fullAt' = memo'.full
    BY <1>1, <1>2, <1>6, <1>11, <1>12 DEF RoundsGood
  <2>2. round' = [round EXCEPT !["timer"] = n]
    BY <1>6, <1>13
  <2> QED
    BY <1>1, <1>2, <1>10, <1>12, <1>14, <2>1, <2>2, RoundTo
<1> QED
  BY <1>10, <1>15 DEF ProbeInv

LEMMA TopologyTickKeeps ==
    ASSUME ProbeInv, TopologyTick
    PROVE  ProbeInv'
<1>1. HistInv' /\ OnlyOn
  BY Keeping DEF ProbeInv, TopologyTick
<1>2. NodesGood /\ PlanTypes /\ BootsGood /\ JobsGood /\ ShortHistories /\ RoundsGood /\ now \in Nat
  BY DEF ProbeInv, HistInv, PlanTypes
<1>3. PICK due : due = {t \in Targets : Pinged(t)}
  OBVIOUS
<1>4. PICK n : n = [IdleRound EXCEPT !.pc = "pings", !.at = now, !.due = due, !.seq = requests]
  OBVIOUS
<1>5. /\ UNCHANGED <<nodeNames, busy, picked, requests, processed, plan, now, there>>
      /\ UNCHANGED <<nodeLatency, nodeHistory, outboundHistory, memo, bootPos, fullAt, boots>>
      /\ round' = [round EXCEPT !["topology"] = n]
      /\ Launch("topology", due)
  BY <1>3, <1>4 DEF TopologyTick, PingKeeps, historyVars
<1>6. "topology" \in Rounds
  BY DEF Rounds
<1>7. JobsGood'
  BY <1>2, <1>5, <1>6, LaunchJobs
<1>8. RoundsGood'
  <2>1. requests \in Nat /\ memo' \in Memos /\ fullAt' = memo'.full /\ processed' \in Nat /\ processed' <= requests
    BY <1>2, <1>5 DEF RoundsGood
  <2>2. due \in SUBSET Targets
    BY <1>3
  <2>3. n \in RoundRecs /\ n.pc = "pings" /\ n.at = now /\ n.due = due /\ n.seq = requests
    <3>1. PICK m \in RoundRecs : m = IdleRound
      BY IdleRoundIs
    <3>2. n = [m EXCEPT !.pc = "pings", !.at = now, !.due = due, !.seq = requests]
      BY <1>4, <3>1
    <3> QED
      BY <1>2, <2>1, <2>2, <3>2 DEF RoundRecs
  <2>4. n.at <= now' /\ n.pc # "after" /\ n.seq <= requests
    BY <1>2, <1>5, <2>1, <2>3
  <2>5. \A t \in Targets : Pinged(t)' => t \in n.due
    BY <1>3, <1>5, <2>3 DEF Pinged
  <2> QED
    BY <1>1, <1>2, <1>5, <1>6, <2>1, <2>3, <2>4, <2>5, RoundTo
<1>9. NodesGood' /\ ShortHistories' /\ BootsGood'
  BY <1>1, <1>2, <1>5, NodesStay, HistoriesStay, BootsStay
<1> QED
  BY <1>1, <1>7, <1>8, <1>9 DEF ProbeInv

LEMMA TopologyCompleteKeeps ==
    ASSUME ProbeInv, TopologyComplete
    PROVE  ProbeInv'
<1>1. HistInv' /\ OnlyOn
  BY HistStays, SameIsSame DEF ProbeInv, HistInv, TopologyComplete, historyVars
<1>2. NodesGood /\ PlanTypes /\ BootsGood /\ JobsGood /\ ShortHistories /\ RoundsGood /\ now \in Nat
  BY DEF ProbeInv, HistInv, PlanTypes
<1>3. "topology" \in Rounds /\ round \in [Rounds -> RoundRecs]
  BY <1>2 DEF RoundsGood, Rounds
<1>4. PICK m \in RoundRecs : m = round["topology"]
  BY <1>3
<1>5. PICK todo : todo = {t \in Targets : Pinged(t)}
  OBVIOUS
<1>6. PICK n : n = IF todo = {} THEN IdleRound ELSE [m EXCEPT !.pc = "after", !.todo = todo]
  OBVIOUS
<1>7. /\ UNCHANGED <<nodeNames, busy, picked, requests, plan, now, there>>
      /\ UNCHANGED <<nodeLatency, nodeHistory, outboundHistory, memo, bootPos, fullAt, boots>>
      /\ round' = [round EXCEPT !["topology"] = n]
      /\ processed' = IF todo = {} THEN m.seq ELSE processed
      /\ Launch("topology", {})
      /\ m.pc = "pings"
  BY <1>4, <1>5, <1>6 DEF TopologyComplete, RoundComplete, Processed, historyVars
<1>8. JobsGood'
  BY <1>2, <1>3, <1>7, LaunchJobs
<1>9. RoundsGood'
  <2>1. /\ requests \in Nat /\ memo' \in Memos /\ fullAt' = memo'.full /\ processed \in Nat /\ processed <= requests
        /\ m.seq <= requests /\ m.at <= now /\ \A t \in Targets : Pinged(t) => t \in m.due
    BY <1>2, <1>3, <1>4, <1>7 DEF RoundsGood
  <2>2. m.seq \in Nat
    BY DEF RoundRecs
  <2>3. processed' \in Nat /\ processed' <= requests
    BY <1>7, <2>1, <2>2
  <2>4. todo \in SUBSET Targets /\ todo \subseteq m.due
    BY <1>5, <2>1
  <2>5. /\ n \in RoundRecs /\ n.at <= now' /\ n.seq <= requests /\ n.pc # "pings"
        /\ n.pc = "after" => n.todo \subseteq n.due
    <3>1. CASE todo = {}
      BY <1>2, <1>6, <1>7, <2>1, <3>1, IdleRoundIs
    <3>2. CASE todo # {}
      <4>1. n \in RoundRecs /\ n.pc = "after" /\ n.at = m.at /\ n.todo = todo /\ n.due = m.due /\ n.seq = m.seq
        BY <1>6, <2>4, <3>2 DEF RoundRecs
      <4> QED
        BY <1>7, <2>1, <2>4, <4>1
    <3> QED
      BY <3>1, <3>2
  <2> QED
    BY <1>1, <1>2, <1>3, <1>7, <2>1, <2>3, <2>5, RoundTo
<1>10. NodesGood' /\ ShortHistories' /\ BootsGood'
  BY <1>1, <1>2, <1>7, NodesStay, HistoriesStay, BootsStay
<1> QED
  BY <1>1, <1>8, <1>9, <1>10 DEF ProbeInv

LEMMA TopologyAfterKeeps ==
    ASSUME ProbeInv, NEW t \in Targets, TopologyAfter(t)
    PROVE  ProbeInv'
<1>1. NodeTypes /\ PlanTypes /\ RoundsGood /\ now \in Nat
  BY DEF ProbeInv, HistInv, PlanTypes, NodesGood
<1>2. "topology" \in Rounds /\ round \in [Rounds -> RoundRecs] /\ memo \in Memos /\ fullAt = memo.full
  BY <1>1 DEF RoundsGood, Rounds
<1>3. PICK m \in RoundRecs : m = round["topology"]
  BY <1>2
<1>4. /\ m.at \in Nat /\ m.at <= now /\ (m.pc = "after" => m.todo \subseteq m.due)
      /\ m.seq \in Nat /\ m.seq <= requests
      /\ m.switch \in [Targets -> Int] /\ m.seen \in [Targets -> Int]
  BY <1>1, <1>2, <1>3 DEF RoundsGood, RoundRecs
<1>5. PICK left : left = m.todo \ {t}
  OBVIOUS
<1>6. /\ m.pc = "after" /\ t \in m.todo
      /\ round' = [round EXCEPT !["topology"] = IF left = {} THEN IdleRound ELSE [m EXCEPT !.todo = left]]
      /\ processed' = IF left = {} THEN m.seq ELSE processed
      /\ memo' = memo
  BY <1>3, <1>5 DEF TopologyAfter, Processed
<1>7. PICK sw : sw = AutoSwitch(t, m.at, m.switch[t], m.seen[t]) /\ After("topology", t, m.at, sw)
  BY <1>3 DEF TopologyAfter
<1>8. sw.pick \in AnyNode \cup {None}
  <2>1. PICK a \in Int, b \in Int : a = m.switch[t] /\ b = m.seen[t]
    BY <1>4
  <2> QED
    BY <1>1, <1>4, <1>7, <2>1, SwitchIs
<1>9. HistInv' /\ OnlyOn /\ NodesGood' /\ ShortHistories' /\ JobsGood' /\ BootsGood'
  BY <1>2, <1>4, <1>7, <1>8, AfterKeeps
<1>10. UNCHANGED <<now, requests, fullAt>>
  BY <1>7 DEF After
<1>11. PICK n : n = IF left = {} THEN IdleRound ELSE [m EXCEPT !.todo = left]
  OBVIOUS
<1>12. requests \in Nat /\ processed \in Nat /\ processed <= requests
  BY <1>1 DEF RoundsGood
<1>13. /\ n \in RoundRecs /\ n.at <= now' /\ (n.pc = "after" => n.todo \subseteq n.due)
       /\ n.seq <= requests /\ n.pc # "pings"
  <2>1. CASE left = {}
    BY <1>1, <1>10, <1>11, <1>12, <2>1, IdleRoundIs
  <2>2. CASE left # {}
    <3>1. left \in SUBSET Targets
      BY <1>5 DEF RoundRecs
    <3>2. n \in RoundRecs /\ n.pc = m.pc /\ n.at = m.at /\ n.todo = left /\ n.due = m.due /\ n.seq = m.seq
      BY <1>11, <2>2, <3>1 DEF RoundRecs
    <3> QED
      BY <1>4, <1>5, <1>6, <1>10, <3>2
  <2> QED
    BY <2>1, <2>2
<1>14. RoundsGood'
  <2>1. processed' \in Nat /\ processed' <= requests /\ requests' = requests
        /\ memo' \in Memos /\ fullAt' = memo'.full
    BY <1>2, <1>4, <1>6, <1>10, <1>12
  <2>2. round' = [round EXCEPT !["topology"] = n]
    BY <1>6, <1>11
  <2> QED
    BY <1>1, <1>2, <1>9, <1>13, <2>1, <2>2, RoundTo
<1> QED
  BY <1>9, <1>14 DEF ProbeInv

-----------------------------------------------------------------------------
(* The invariant holds at first and is kept.                               *)

LEMMA UsableAre ==
    ASSUME PlanTypes, NEW t \in Targets
    PROVE  UsableNodes(t) \in Seq(AnyNode)
<1> DEFINE named == plan.conf[t].nodes
           I == {i \in DOMAIN named : /\ named[i] \in plan.enabled \cup {Direct}
                                      /\ \A j \in 1..(i - 1) : named[j] # named[i]}
<1>1. plan.conf[t] \in Confs
  BY PlanNumbers
<1>2. named \in Seq(AnyNode)
  BY <1>1 DEF Confs
<1>3. I \subseteq DOMAIN named
  OBVIOUS
<1>4. UsableNodes(t) = Selected(named, I)
  BY DEF UsableNodes
<1> HIDE DEF I, named
<1> QED
  BY <1>2, <1>3, <1>4, SelectedIs

LEMMA SwitchKeeps ==
    ASSUME ProbeInv, NEW n \in Nodes, SwitchOutbound(n)
    PROVE  ProbeInv'
<1>1. SamePlan /\ plan \in Plans /\ PlanTypes /\ NodeTypes /\ BootsGood
  <2>1. plan \in Plans
    BY DEF ProbeInv, HistInv, PlanTypes
  <2>2. plan.switches \in Nat /\ plan.enabled \subseteq Nodes
    BY <2>1 DEF Plans
  <2>3. PICK e : e = IF n \in plan.enabled THEN plan.enabled \ {n} ELSE plan.enabled \cup {n}
    OBVIOUS
  <2>4. plan' = [plan EXCEPT !.switches = @ - 1, !.enabled = e] /\ plan.switches > 0
    BY <2>3 DEF SwitchOutbound
  <2>5. e \in SUBSET Nodes /\ plan.switches - 1 \in Nat
    BY <2>2, <2>3, <2>4
  <2>6. SamePlan
    BY <2>1, <2>4, <2>5 DEF SamePlan, Plans
  <2> QED
    BY <2>1, <2>6 DEF ProbeInv, HistInv, NodesGood
<1>2. HistInv' /\ OnlyOn
  BY <1>1, HistStays DEF ProbeInv, SwitchOutbound
<1>3. \A t \in Targets : UsableNodes(t)' \in Seq(AnyNode)
  <2>1. SUFFICES ASSUME NEW t \in Targets
                 PROVE  UsableNodes(t)' \in Seq(AnyNode)
    OBVIOUS
  <2> DEFINE named == plan'.conf[t].nodes
             I == {i \in DOMAIN named : /\ named[i] \in plan'.enabled \cup {Direct}
                                        /\ \A j \in 1..(i - 1) : named[j] # named[i]}
  <2>2. named \in Seq(AnyNode)
    <3>1. plan'.conf[t] \in Confs
      BY <1>1 DEF SamePlan, Plans
    <3> QED
      BY <3>1 DEF Confs
  <2>3. I \subseteq DOMAIN named /\ UsableNodes(t)' = Selected(named, I)
    BY DEF UsableNodes
  <2> HIDE DEF I, named
  <2> QED
    BY <2>2, <2>3, SelectedIs
<1>4. nodeNames' \in [Targets -> Seq(AnyNode)]
  BY <1>3 DEF SwitchOutbound
<1>5. NodesGood'
  BY <1>4 DEF SwitchOutbound, ProbeInv, NodesGood, NodeTypes
<1>6. ShortHistories'
  BY <1>2, HistoriesStay DEF ProbeInv, SwitchOutbound
<1>7. RoundsGood'
  BY <1>2, RoundsStay DEF ProbeInv, HistInv, SwitchOutbound
<1>8. JobsGood'
  BY JobsStay DEF ProbeInv, SwitchOutbound
<1>9. BootsGood'
  <2>1. /\ bootPos' = bootPos
        /\ boots' = [t \in Targets |-> IF nodeNames'[t] = nodeNames[t] THEN boots[t] ELSE NoBoots]
        /\ bootPos \in [Targets -> Nat] /\ boots \in [Targets -> [n : Nat, nodes : SUBSET AnyNode]]
    BY <1>1 DEF SwitchOutbound, BootsGood
  <2>2. [n |-> 0, nodes |-> {}] \in [n : Nat, nodes : SUBSET AnyNode]
    OBVIOUS
  <2>3. boots' \in [Targets -> [n : Nat, nodes : SUBSET AnyNode]]
    BY <2>1, <2>2 DEF NoBoots
  <2>4. ASSUME NEW t \in Targets
        PROVE  Turned(t)'
    <3>1. plan'.conf = plan.conf /\ Top(t)' = Top(t) /\ Top(t) \in Nat
      BY <1>1, TopIs DEF SamePlan, Top
    <3>2. CASE nodeNames'[t] = nodeNames[t]
      <4>1. boots'[t] = boots[t] /\ Turned(t)
        BY <1>1, <2>1, <3>2 DEF BootsGood
      <4> QED
        BY <2>1, <3>1, <3>2, <4>1 DEF Turned, BootStart
    <3>3. CASE nodeNames'[t] # nodeNames[t]
      <4> DEFINE N == Len(nodeNames'[t])
      <4>1. boots'[t].n = 0 /\ boots'[t].nodes = {} /\ N \in Nat /\ bootPos'[t] \in Nat
        BY <1>4, <2>1, <3>3 DEF NoBoots
      <4>2. boots'[t].n * Top(t)' = 0
        BY <3>1, <4>1
      <4>3. \A p \in 0 .. (N - 1) : ~Behind(p, BootStart(t)', 0, N)
        BY <4>1 DEF Behind, BootStart
      <4> QED
        BY <4>1, <4>2, <4>3 DEF Turned
    <3> QED
      BY <3>2, <3>3
  <2> QED
    BY <2>1, <2>3, <2>4 DEF BootsGood
<1> QED
  BY <1>2, <1>5, <1>6, <1>7, <1>8, <1>9 DEF ProbeInv

\* Another order of a group is a list of the same nodes.
LEMMA ReorderKeeps ==
    ASSUME ProbeInv, NEW t \in Targets, ReorderGroup(t)
    PROVE  ProbeInv'
<1>1. NodeTypes /\ BootsGood /\ plan.conf[t].group
  BY DEF ProbeInv, NodesGood, ReorderGroup
<1>2. HistInv' /\ OnlyOn /\ plan' = plan
  BY HistStays, SameIsSame DEF ProbeInv, HistInv, ReorderGroup, historyVars
<1>3. PICK ns : /\ ns \in Listings(t)
                /\ nodeNames' = [nodeNames EXCEPT ![t] = ns]
  BY DEF ReorderGroup
<1> DEFINE old == nodeNames[t]
           N == Len(old)
<1>4. old \in Seq(AnyNode) /\ ToSet(old) \subseteq AnyNode /\ N \in Nat /\ DOMAIN old = 1 .. N
  BY <1>1, NamesAre
<1>5. ns \in [1 .. N -> ToSet(old)] /\ ToSet(ns) = ToSet(old)
  BY <1>1, <1>3, <1>4 DEF Listings
<1>6. ns \in Seq(AnyNode) /\ Len(ns) = N
  <2> HIDE DEF N, old
  <2>1. ns \in [1 .. N -> AnyNode]
    BY <1>4, <1>5
  <2> QED
    BY <1>4, <2>1
<1>7. nodeNames' \in [Targets -> Seq(AnyNode)]
  BY <1>1, <1>3, <1>6 DEF NodeTypes
<1>8. NodesGood'
  BY <1>2, <1>7 DEF ReorderGroup, ProbeInv, NodesGood, NodeTypes, historyVars
<1>9. ShortHistories' /\ RoundsGood' /\ JobsGood'
  BY <1>2, HistoriesStay, RoundsStay, JobsStay DEF ProbeInv, HistInv, ReorderGroup
<1>10. BootsGood'
  <2>1. ASSUME NEW u \in Targets
        PROVE  Turned(u)'
    <3>1. Turned(u) /\ boots' = boots /\ bootPos' = bootPos /\ Top(u)' = Top(u)
      BY <1>1, <1>2 DEF BootsGood, ReorderGroup, Top
    <3>2. CASE u = t
      <4>1. nodeNames'[t] = ns
        BY <1>1, <1>3 DEF NodeTypes
      <4>2. ToSet(nodeNames'[t]) = ToSet(nodeNames[t]) /\ Len(nodeNames'[t]) = Len(nodeNames[t])
        BY <1>5, <1>6, <4>1
      <4> QED
        BY <1>1, <1>2, <3>1, <3>2, <4>2 DEF Turned
    <3>3. CASE u # t
      <4>1. nodeNames'[u] = nodeNames[u]
        BY <1>1, <1>3, <3>3 DEF NodeTypes
      <4> QED
        BY <1>2, <3>1, <4>1 DEF Turned, BootStart
    <3> QED
      BY <3>2, <3>3
  <2> QED
    BY <1>1, <2>1 DEF BootsGood, ReorderGroup
<1> QED
  BY <1>2, <1>8, <1>9, <1>10 DEF ProbeInv

LEMMA HistoryStarts ==
    ASSUME HistoryInit
    PROVE  HistInv
<1>1. plan \in Plans
  BY PlansOK DEF HistoryInit
<1>2. PlanTypes
  <2>1. plan.settings \in AllSettings /\ plan.until \in Nat
    BY <1>1 DEF Plans
  <2> QED
    BY <1>1, <2>1 DEF HistoryInit, PlanTypes
<1>3. PlaceTypes
  <2>1. plan.there \subseteq Targets
    BY <1>1 DEF Plans
  <2>2. [lat |-> 0, motd |-> FALSE] \in [lat : Lats, motd : BOOLEAN]
    BY HistoryConstants
  <2>3. cached \in [ServerIds -> [lat : Lats, motd : BOOLEAN]]
    BY <2>2 DEF HistoryInit
  <2>4. poll \in [Polls -> Pollings] /\ \A q \in Polls : poll[q].pc = "idle"
    BY IdleIs DEF HistoryInit
  <2>5. there \subseteq Targets /\ up \subseteq ServerIds /\ up \subseteq there
    BY <2>1 DEF HistoryInit
  <2> QED
    BY <2>3, <2>4, <2>5 DEF PlaceTypes
<1>4. SeriesGood
  <2>1. series = [s \in ServerIds |-> <<>>] /\ Cap \in Nat /\ \A s \in ServerIds : GapOf(s) \in Int
    BY <1>2, PlanNumbers DEF HistoryInit
  <2>2. \A s \in ServerIds : series[s] = <<>>
    BY <2>1
  <2>3. \A s \in ServerIds : /\ Len(series[s]) <= Cap /\ Until(series[s], now)
                             /\ Spread(series[s], GapOf(s))
    BY <2>1, <2>2, EmptyIsGood
  <2>4. series \in [ServerIds -> Seq(Samples)]
    BY <2>1
  <2> QED
    BY <2>3, <2>4 DEF SeriesGood
<1>5. AnswerGood
  <2>1. served.at = 0 /\ served.cap = 0 /\ served.ordered = TRUE /\ served.list = <<>> /\ served \in Answers
    <3>1. served = [at |-> 0, cap |-> 0, ordered |-> TRUE, list |-> <<>>]
      BY DEF HistoryInit
    <3>2. <<>> \in Seq(Samples)
      OBVIOUS
    <3> QED
      BY <3>1, <3>2 DEF Answers
  <2>2. Len(served.list) <= served.cap /\ DOMAIN served.list = {}
    BY <2>1
  <2> QED
    BY <2>1, <2>2 DEF AnswerGood, ServedIsCurrent
<1> QED
  BY <1>2, <1>3, <1>4, <1>5 DEF HistInv

LEMMA ProbesStart ==
    ASSUME AutoPingInit
    PROVE  ProbeInv
<1>1. HistInv /\ PlanTypes /\ now = 0 /\ Cap \in Nat
  BY HistoryStarts, PlanNumbers DEF AutoPingInit, HistInv, HistoryInit
<1>2. NodesGood
  <2>1. nodeNames \in [Targets -> Seq(AnyNode)]
    BY <1>1, UsableAre DEF AutoPingInit
  <2>2. picked \in [Targets -> AnyNode \cup {None}]
    BY DEF AutoPingInit
  <2>3. [lat |-> 0, at |-> 0] \in [lat : Lats, at : Nat]
    BY HistoryConstants
  <2>4. nodeLatency \in [Targets -> [AnyNode -> [lat : Lats, at : Nat]]]
    BY <2>3 DEF AutoPingInit
  <2>5. \A t \in Targets, n \in AnyNode : nodeLatency[t][n].at <= now
    BY <1>1 DEF AutoPingInit
  <2>6. busy \subseteq Targets
    BY DEF AutoPingInit
  <2> QED
    BY <2>1, <2>2, <2>4, <2>5, <2>6 DEF NodesGood, NodeTypes
<1>3. ShortHistories
  <2>1. <<>> \in Seq(Samples) /\ Len(<<>>) <= Cap
    BY <1>1
  <2> QED
    BY <2>1 DEF ShortHistories, AutoPingInit
<1>4. RoundsGood
  <2>1. round \in [Rounds -> RoundRecs] /\ \A r \in Rounds : round[r] = IdleRound
    BY IdleRoundIs DEF AutoPingInit
  <2>2. memo \in Memos /\ fullAt = memo.full
    <3>1. [t \in Targets |-> Never] \in [Targets -> Int] /\ [t \in Targets |-> None] \in [Targets -> Int]
      BY DEF Never, None
    <3> QED
      BY <3>1 DEF AutoPingInit, Memos
  <2>3. requests = 0 /\ processed = 0
    BY DEF AutoPingInit
  <2>4. "topology" \in Rounds
    BY DEF Rounds
  <2> QED
    BY <1>1, <2>1, <2>2, <2>3, <2>4, IdleRoundIs DEF RoundsGood
<1>5. JobsGood
  <2>1. job \in [Rounds -> [Targets -> ScanJobs]] /\ \A r \in Rounds, t \in Targets : job[r][t] = NoJob
    BY NoJobIs DEF AutoPingInit
  <2>2. \A r \in Rounds, t \in Targets : job[r][t].probing = {}
    BY <2>1, NoJobIs
  <2>3. \A r \in Rounds : Probing(r) = {}
    BY <2>2 DEF Probing
  <2>4. IsFiniteSet({}) /\ Cardinality({}) = 0
    BY FS_EmptySet
  <2>5. Parallelism \in Nat /\ GlobalParallelism \in Nat
    BY PingConstants
  <2>6. \A r \in Rounds : IsFiniteSet(Probing(r)) /\ Cardinality(Probing(r)) <= GlobalParallelism
    BY <2>3, <2>4, <2>5
  <2>7. \A r \in Rounds, t \in Targets :
           IsFiniteSet(job[r][t].probing) /\ Cardinality(job[r][t].probing) <= Parallelism
    <3>1. \A S : S = {} => IsFiniteSet(S) /\ Cardinality(S) <= Parallelism
      BY <2>4, <2>5
    <3> QED
      BY <2>2, <3>1, Zenon
  <2> QED
    BY <2>1, <2>6, <2>7 DEF JobsGood
<1>6. BootsGood
  <2>1. [n |-> 0, nodes |-> {}] \in [n : Nat, nodes : SUBSET AnyNode]
    OBVIOUS
  <2>2. bootPos \in [Targets -> Nat] /\ boots \in [Targets -> [n : Nat, nodes : SUBSET AnyNode]]
    BY <2>1 DEF AutoPingInit, NoBoots
  <2>3. ASSUME NEW t \in Targets
        PROVE  Turned(t)
    <3>1. boots[t].n = 0 /\ boots[t].nodes = {} /\ bootPos[t] = 0
      BY DEF AutoPingInit, NoBoots
    <3>2. nodeNames[t] \in Seq(AnyNode) /\ Len(nodeNames[t]) \in Nat /\ Top(t) \in Nat
      BY <1>1, <1>2, TopIs DEF NodesGood, NodeTypes
    <3>3. boots[t].n * Top(t) = 0
      BY <3>1, <3>2
    <3>4. BootStart(t) = 0
      BY <3>1, <3>2 DEF BootStart
    <3>5. \A p \in 0 .. (Len(nodeNames[t]) - 1) : ~Behind(p, 0, 0, Len(nodeNames[t]))
      BY <3>2 DEF Behind
    <3> QED
      BY <3>1, <3>3, <3>4, <3>5 DEF Turned
  <2> QED
    BY <2>2, <2>3 DEF BootsGood
<1> QED
  BY <1>1, <1>2, <1>3, <1>4, <1>5, <1>6 DEF ProbeInv

LEMMA RoundStepKeeps ==
    ASSUME ProbeInv, NEW r \in Rounds, RoundStep(r)
    PROVE  ProbeInv'
<1>1. ASSUME NEW t \in Targets,
             PingAllSkips(r, t) \/ PingAllChooses(r, t) \/ AcquireSlot(r, t) \/ Abandon(r, t) \/ PingAllEnds(r, t)
      PROVE  ProbeInv'
  BY <1>1, SkipsKeep, ChoosesKeep, AcquireKeeps, AbandonKeeps, EndsKeep
<1>2. ASSUME NEW t \in Targets, NEW n \in AnyNode, NEW ms \in plan.lats, Probe(r, t, n, ms)
      PROVE  ProbeInv'
  BY <1>2, ProbeKeeps
<1>3. ASSUME NEW t \in Targets, TimerAfter(t) \/ TopologyAfter(t)
      PROVE  ProbeInv'
  BY <1>3, TimerAfterKeeps, TopologyAfterKeeps
<1>4. ASSUME TimerTick \/ TimerComplete \/ TopologyTick \/ TopologyComplete \/ Leave(r)
      PROVE  ProbeInv'
  BY <1>4, TimerTickKeeps, TimerCompleteKeeps, TopologyTickKeeps, TopologyCompleteKeeps, LeaveKeeps
<1> QED
  BY <1>1, <1>2, <1>3, <1>4, Zenon DEF RoundStep

LEMMA ProbesNext ==
    ASSUME ProbeInv, [AutoPingNext]_AutoPingVars
    PROVE  ProbeInv'
<1>1. CASE AutoPingNext
  BY <1>1, HistoryKeeps, RoundStepKeeps, TriggerKeeps, CleanupKeeps, StopKeeps, SessionsKeep,
     SwitchKeeps, ReorderKeeps, Zenon DEF AutoPingNext
<1>2. CASE UNCHANGED AutoPingVars
  <2>1. HistInv' /\ OnlyOn
    BY <1>2, HistStays, SameIsSame DEF ProbeInv, HistInv, AutoPingVars, historyVars
  <2>2. JobsGood'
    BY <1>2, JobsStay DEF ProbeInv, AutoPingVars, pingVars
  <2> QED
    BY <1>2, <2>1, <2>2, JobOnly DEF AutoPingVars, pingVars
<1> QED
  BY <1>1, <1>2

LEMMA AllBehind ==
    ASSUME NodeTypes, PlanTypes, BootsGood
    PROVE  BootstrapReachesAll
<1> SUFFICES ASSUME NEW t \in Targets, ~plan.conf[t].group, boots[t].n * Top(t) >= Len(nodeNames[t])
             PROVE  boots[t].nodes = ToSet(nodeNames[t])
  BY DEF BootstrapReachesAll
<1> DEFINE ns == nodeNames[t]
           N == Len(ns)
           room == boots[t].n * Top(t)
<1>1. ns \in Seq(AnyNode) /\ N \in Nat
  BY NamesAre
<1>2. Top(t) \in Nat \ {0}
  BY TopIs
<1>3. Turned(t) /\ boots[t].n \in Nat /\ bootPos[t] \in Nat
  BY DEF BootsGood
<1>4. boots[t].nodes \subseteq ToSet(ns)
  BY <1>3 DEF Turned
<1>5. CASE N = 0
  <2>1. ToSet(ns) = {}
    BY <1>1, <1>5 DEF ToSet
  <2> QED
    BY <1>4, <2>1
<1>6. CASE N # 0 /\ Top(t) >= N
  <2>1. boots[t].n > 0
    BY <1>1, <1>2, <1>3, <1>6
  <2> QED
    BY <1>3, <1>6, <2>1 DEF Turned
<1>7. CASE N # 0 /\ ~(Top(t) >= N)
  <2>1. room \in Nat /\ room >= N
    BY <1>2, <1>3
  <2>2. BootStart(t) \in Nat /\ BootStart(t) < N /\ Top(t) < N
    BY <1>1, <1>2, <1>3, <1>7 DEF BootStart
  <2>3. \A p \in 0 .. (N - 1) : Behind(p, BootStart(t), room, N) => ns[p + 1] \in boots[t].nodes
    BY <1>3, <2>2 DEF Turned
  <2> HIDE DEF N, room, ns
  <2>4. \A p \in 0 .. (N - 1) : Behind(p, BootStart(t), room, N)
    BY <1>1, <1>3, <2>1, <2>2 DEF Behind
  <2>5. ASSUME NEW i \in 1 .. N
        PROVE  ns[i] \in boots[t].nodes
    <3>1. PICK p : p = i - 1
      OBVIOUS
    <3>2. p \in 0 .. (N - 1) /\ p + 1 = i
      BY <1>1, <3>1
    <3> QED
      BY <2>3, <2>4, <3>2
  <2>6. ToSet(ns) \subseteq boots[t].nodes
    BY <1>1, <2>5 DEF ToSet, N
  <2> QED
    BY <1>4, <2>6 DEF ns
<1> QED
  BY <1>5, <1>6, <1>7

LEMMA ProbesGood ==
    ASSUME ProbeInv
    PROVE  ProbesInv
<1>1. PlanTypes /\ PlaceTypes /\ SeriesGood /\ AnswerGood /\ NodesGood /\ NodeTypes /\ ShortHistories
      /\ RoundsGood /\ JobsGood /\ BootsGood
  BY DEF ProbeInv, HistInv, NodesGood
<1>2. AutoPingTypeOK
  <2>1. now \in 0 .. plan.until /\ now \in Nat
    BY <1>1 DEF PlanTypes, Plans
  <2>2. there \subseteq Targets /\ up \subseteq ServerIds /\ busy \subseteq Targets
    BY <1>1 DEF PlaceTypes, NodesGood
  <2>3. ASSUME NEW s \in ServerIds, NEW i \in DOMAIN series[s]
        PROVE  series[s][i].at \in 0 .. now /\ series[s][i].lat \in Lats
    <3>1. series[s] \in Seq(Samples) /\ Until(series[s], now)
      BY <1>1 DEF SeriesGood
    <3>2. i \in 1 .. Len(series[s]) /\ series[s][i] \in Samples
      BY <3>1
    <3>3. series[s][i].at \in Nat /\ series[s][i].lat \in Lats
      BY <3>2 DEF Samples
    <3> QED
      BY <2>1, <3>1, <3>2, <3>3 DEF Until
  <2>4. ASSUME NEW t \in Targets, NEW n \in AnyNode
        PROVE  nodeLatency[t][n] \in [lat : Lats, at : 0 .. now]
    <3>1. nodeLatency[t][n] \in [lat : Lats, at : Nat] /\ nodeLatency[t][n].at <= now
      BY <1>1 DEF NodesGood, NodeTypes
    <3> QED
      BY <2>1, <3>1
  <2>5. \A r \in Rounds : round[r].pc \in {"idle", "pings", "after", "gone"} /\ round[r].due \subseteq Targets
    BY <1>1, RoundTimes DEF RoundRecs
  <2>6. \A r \in Rounds, t \in Targets : job[r][t].pc \in {"idle", "check", "scan", "done"}
    BY <1>1, JobWas DEF ScanJobs
  <2>7. processed \in 0 .. requests
    BY <1>1 DEF RoundsGood
  <2>8. picked \in [Targets -> AnyNode \cup {None}]
    BY <1>1 DEF NodeTypes
  <2> QED
    BY <2>1, <2>2, <2>3, <2>4, <2>5, <2>6, <2>7, <2>8 DEF AutoPingTypeOK
<1>3. SeriesSpaced
  <2>1. ASSUME NEW s \in ServerIds
        PROVE  /\ Len(series[s]) <= Cap
               /\ s \notin late => \A i \in 2 .. Len(series[s]) : series[s][i].at - series[s][i - 1].at >= GapOf(s)
    <3>1. series[s] \in Seq(Samples) /\ Len(series[s]) <= Cap /\ (s \notin late => Spread(series[s], GapOf(s)))
      BY <1>1 DEF SeriesGood
    <3>2. Len(series[s]) \in Nat
      BY <3>1
    <3>3. ASSUME s \notin late, NEW i \in 2 .. Len(series[s])
          PROVE  series[s][i].at - series[s][i - 1].at >= GapOf(s)
      <4>1. i \in 1 .. Len(series[s]) /\ i - 1 \in 1 .. Len(series[s]) /\ i - 1 < i
        BY <3>2
      <4> QED
        BY <3>1, <3>3, <4>1 DEF Spread
    <3> QED
      BY <3>1, <3>3
  <2> QED
    BY <2>1 DEF SeriesSpaced, Cap, GapOf
<1>4. NoEcho
  <2>1. \A s \in ServerIds : series[s] \in Seq(Samples) /\ Until(series[s], now)
    BY <1>1 DEF SeriesGood
  <2>2. \A s \in ServerIds : DOMAIN series[s] = 1 .. Len(series[s])
    BY <2>1
  <2> QED
    BY <2>1, <2>2 DEF NoEcho, Until
<1>5. ServedIsCurrent
  BY <1>1 DEF AnswerGood
<1>6. ProbesLimited
  <2>1. \A r \in Rounds : /\ Cardinality(Probing(r)) <= GlobalParallelism
                          /\ \A t \in Targets : Cardinality(job[r][t].probing) <= Parallelism
    BY <1>1 DEF JobsGood
  <2>2. \A h \in {nodeHistory[t][n] : t \in Targets, n \in AnyNode} \cup {outboundHistory[n] : n \in Nodes} :
           Len(h) <= Cap
    BY <1>1 DEF ShortHistories
  <2> QED
    BY <2>1, <2>2 DEF ProbesLimited, Cap
<1>7. BootstrapReachesAll
  BY <1>1, AllBehind
<1> QED
  BY <1>2, <1>3, <1>4, <1>5, <1>6, <1>7 DEF ProbesInv

\* The histories hold what was measured, spaced and current, and the rounds keep to their
\* limits and leave no node out, for any servers, ports, nodes, plans and limits.
THEOREM ProbesHold == AutoPingSpec => []ProbesInv
<1>1. AutoPingInit => ProbeInv
  BY ProbesStart
<1>2. ProbeInv /\ [AutoPingNext]_AutoPingVars => ProbeInv'
  BY ProbesNext
<1>3. ProbeInv => ProbesInv
  BY ProbesGood
<1> QED
  BY <1>1, <1>2, <1>3, PTL DEF AutoPingSpec

-----------------------------------------------------------------------------
(* What the steps of a round do.                                           *)

LEMMA JobToOne ==
    ASSUME JobsGood, NEW o \in Rounds, NEW u \in Targets, NEW j, JobTo(o, u, j)
    PROVE  /\ job'[o][u] = j
           /\ \A r \in Rounds, t \in Targets : r # o \/ t # u => job'[r][t] = job[r][t]
BY DEF JobsGood, JobTo

\* A scan starts when the nodes are chosen, in no other step.
LEMMA OnlyChoosing ==
    ASSUME ProbeInv, [AutoPingNext]_AutoPingVars, NEW r \in Rounds, NEW t \in Targets, ScanStarts(r, t)
    PROVE  PingAllChooses(r, t)
<1>1. JobsGood /\ job[r][t].pc = "check" /\ job'[r][t].pc = "scan"
  BY DEF ProbeInv, ScanStarts
<1>2. ASSUME job' = job
      PROVE  FALSE
  BY <1>1, <1>2
<1>3. ASSUME NEW o \in Rounds, NEW T, Launch(o, T)
      PROVE  FALSE
  <2>1. job'[r] = job[r] \/ job'[r] = [u \in Targets |-> IF u \in T THEN [NoJob EXCEPT !.pc = "check"] ELSE NoJob]
    BY <1>1, <1>3 DEF Launch, JobsGood
  <2>2. job'[r][t] = job[r][t] \/ job'[r][t] = [NoJob EXCEPT !.pc = "check"] \/ job'[r][t] = NoJob
    BY <2>1
  <2>3. NoJob.pc = "idle" /\ [NoJob EXCEPT !.pc = "check"].pc = "check"
    BY DEF NoJob
  <2> QED
    BY <1>1, <2>2, <2>3
<1>4. ASSUME NEW o \in Rounds, NEW u \in Targets, NEW j, JobTo(o, u, j), j.pc # "scan" \/ job[o][u].pc # "check"
      PROVE  FALSE
  BY <1>1, <1>4, JobToOne
<1>5. ASSUME NEW o \in Rounds, NEW u \in Targets, PingAllSkips(o, u)
      PROVE  FALSE
  <2>1. PICK j : j = [NoJob EXCEPT !.pc = "done"]
    OBVIOUS
  <2>2. j.pc = "done" /\ JobTo(o, u, j)
    BY <1>5, <2>1 DEF PingAllSkips, NoJob
  <2> QED
    BY <1>4, <2>2
<1>6. ASSUME NEW o \in Rounds, NEW u \in Targets, AcquireSlot(o, u) \/ Abandon(o, u) \/ PingAllEnds(o, u)
      PROVE  FALSE
  <2>1. job[o][u].pc = "scan" /\ \E j : JobTo(o, u, j)
    BY <1>6, Zenon DEF AcquireSlot, Abandon, PingAllEnds
  <2> QED
    BY <1>4, <2>1
<1>7. ASSUME NEW o \in Rounds, NEW u \in Targets, NEW n \in AnyNode, NEW ms \in plan.lats, Probe(o, u, n, ms)
      PROVE  FALSE
  <2>1. PICK old \in ScanJobs : old = job[o][u]
    BY <1>1, JobWas
  <2>2. PICK j : j = ReleaseSlot(old, n, ms)
    OBVIOUS
  <2>3. JobTo(o, u, j) /\ j.pc = old.pc
    BY <1>7, <2>1, <2>2 DEF Probe, ReleaseSlot, ScanJobs
  <2> QED
    BY <1>4, <2>1, <2>3
<1>8. ASSUME NEW u \in Targets, TimerAfter(u) \/ TopologyAfter(u)
      PROVE  FALSE
  <2>1. job' = job
    BY <1>8 DEF TimerAfter, TopologyAfter, After
  <2> QED
    BY <1>2, <2>1
<1>9. ASSUME TimerTick
      PROVE  FALSE
  <2>1. job' = job \/ \E T : Launch("timer", T)
    BY <1>9, Zenon DEF TimerTick
  <2> QED
    BY <1>2, <1>3, <2>1 DEF Rounds
<1>10. ASSUME TimerComplete \/ TopologyTick \/ TopologyComplete
       PROVE  FALSE
  <2>1. \E o \in Rounds : \E T : Launch(o, T)
    BY <1>10 DEF TimerComplete, TopologyTick, TopologyComplete, Rounds
  <2> QED
    BY <1>3, <2>1
<1>11. ASSUME HistoryNext /\ UNCHANGED pingVars
       PROVE  FALSE
  BY <1>2, <1>11 DEF pingVars
<1>12. ASSUME TriggerAutoLatencyRefresh \/ CleanupHistories \/ StopPings
       PROVE  FALSE
  BY <1>2, <1>12 DEF TriggerAutoLatencyRefresh, CleanupHistories, StopPings
<1>13. ASSUME NEW u \in Targets, Sessions(u)
       PROVE  FALSE
  BY <1>2, <1>13 DEF Sessions
<1>19. ASSUME NEW u \in Targets, ReorderGroup(u)
       PROVE  FALSE
  BY <1>2, <1>19 DEF ReorderGroup
<1>20. ASSUME NEW n \in Nodes, SwitchOutbound(n)
       PROVE  FALSE
  BY <1>2, <1>20 DEF SwitchOutbound
<1>14. ASSUME NEW o \in Rounds, Leave(o)
       PROVE  FALSE
  BY <1>2, <1>14 DEF Leave
<1>15. ASSUME UNCHANGED AutoPingVars
       PROVE  FALSE
  BY <1>2, <1>15 DEF AutoPingVars, pingVars
<1>16. PICK o \in Rounds : RoundStep(o)
  BY <1>11, <1>12, <1>13, <1>15, <1>19, <1>20, Zenon DEF AutoPingNext
<1>17. \E u \in Targets : PingAllChooses(o, u)
  BY <1>5, <1>6, <1>7, <1>8, <1>9, <1>10, <1>14, <1>16, Zenon DEF RoundStep
<1>18. PICK u \in Targets : PingAllChooses(o, u)
  BY <1>17
<1>21. PICK j : JobTo(o, u, j)
  BY <1>18, Zenon DEF PingAllChooses
<1>22. o = r /\ u = t
  BY <1>1, <1>21, JobToOne
<1> QED
  BY <1>18, <1>22

LEMMA ScansCompare ==
    ASSUME ProbeInv, [AutoPingNext]_AutoPingVars, NEW r \in Rounds, NEW t \in Targets, ScanStarts(r, t)
    PROVE  \E j : Starts(r, t, j) /\ job'[r][t] = j
<1>1. NodeTypes /\ PlanTypes /\ BootsGood /\ JobsGood
  BY DEF ProbeInv, HistInv, NodesGood
<1>2. PICK j : Starts(r, t, j) /\ JobTo(r, t, j)
  BY <1>1, OnlyChoosing, ChooseIs
<1> QED
  BY <1>1, <1>2, JobToOne

LEMMA ComparesIs ==
    ASSUME ProbeInv, [AutoPingNext]_AutoPingVars, NEW r \in Rounds, NEW t \in Targets, ScanStarts(r, t)
    PROVE  ComparesNodes(r, t)
<1>1. Compares(t, job'[r][t].nodes)
  BY ScansCompare DEF Starts
<1> QED
  BY <1>1 DEF Compares, ComparesNodes, Rivals

LEMMA DailyIs ==
    ASSUME ProbeInv, [AutoPingNext]_AutoPingVars, NEW t \in Targets, ScanStarts("timer", t),
           plan.conf[t].mode = "daily"
    PROVE  FullOnceADay(t)
<1>1. "timer" \in Rounds
  BY DEF Rounds
<1>2. job'["timer"][t].full <=> FullScanDue(t, round["timer"].at)
  <2>1. PICK j : Starts("timer", t, j) /\ job'["timer"][t] = j
    BY <1>1, ScansCompare
  <2>2. j.full = ("timer" = "topology" \/ FullScanDue(t, round["timer"].at))
    BY <2>1 DEF Starts
  <2>3. "timer" # "topology"
    OBVIOUS
  <2> QED
    BY <2>1, <2>2, <2>3, Zenon
<1>3. fullAt = memo.full
  BY DEF ProbeInv, RoundsGood
<1> QED
  BY <1>2, <1>3 DEF FullScanDue, FullOnceADay

LEMMA RecordedOnly ==
    ASSUME NEW new, RecordServerLatency(new), NEW s \in ServerIds, s \notin DOMAIN new
    PROVE  series'[s] = series[s]
BY DEF RecordServerLatency

LEMMA GoneIs ==
    ASSUME ProbeInv, [AutoPingNext]_AutoPingVars
    PROVE  HistoryGone(UNION {round[r].due : r \in Rounds})
<1> SUFFICES ASSUME NEW s \in ServerIds, s \notin there, s \notin deleting, series[s] = <<>>, series'[s] # <<>>
             PROVE  \/ \E r \in Rounds : s \in round[r].due
                    \/ \E q \in Polls : poll[q].info.was /\ s = poll[q].info.srv
  BY DEF HistoryGone
<1> DEFINE Known == \/ \E r \in Rounds : s \in round[r].due
                    \/ \E q \in Polls : poll[q].info.was /\ s = poll[q].info.srv
<1> HIDE DEF Known
<1>0. series \in [ServerIds -> Seq(Samples)] /\ PlaceTypes /\ RoundsGood
  BY DEF ProbeInv, HistInv, SeriesGood
<1>1. ASSUME series'[s] = series[s]
      PROVE  Known
  BY <1>1
<1>2. ASSUME NEW new, RecordServerLatency(new), s \in DOMAIN new => Known
      PROVE  Known
  BY <1>1, <1>2, RecordedOnly
<1>3. ASSUME NEW q \in Polls, PollRecords(q)
      PROVE  Known
  <2>1. PICK i : i = poll[q].info
    OBVIOUS
  <2>2. poll[q].pc = "got"
    BY <1>3 DEF PollRecords
  <2>3. i.was /\ i.srv \in ServerIds
    BY <1>0, <2>1, <2>2 DEF PlaceTypes
  <2>4. ASSUME s = i.srv
        PROVE  Known
    BY <2>1, <2>3, <2>4 DEF Known
  <2>5. \/ \E x : RecordServerLatency([z \in {i.srv} |-> x])
        \/ \E x : series' = [series EXCEPT ![i.srv] = x]
        \/ series' = series
    BY <1>3, <2>1, Zenon DEF PollRecords
  <2>6. CASE \E x : RecordServerLatency([z \in {i.srv} |-> x])
    <3>1. PICK x : RecordServerLatency([z \in {i.srv} |-> x])
      BY <2>6
    <3>2. PICK new : new = [z \in {i.srv} |-> x]
      OBVIOUS
    <3>3. RecordServerLatency(new) /\ DOMAIN new = {i.srv}
      BY <3>1, <3>2
    <3> QED
      BY <1>2, <2>4, <3>3
  <2>7. CASE \E x : series' = [series EXCEPT ![i.srv] = x]
    BY <1>0, <1>1, <2>4, <2>7
  <2> QED
    BY <1>1, <2>5, <2>6, <2>7
<1>4. ASSUME NEW u \in ServerIds, NEW n \in {0, 1}, Snapshot(u, n)
      PROVE  Known
  <2>1. u \in there /\ \E x : series' = [series EXCEPT ![u] = x]
    BY <1>4, Zenon DEF Snapshot
  <2> QED
    BY <1>0, <1>1, <2>1
<1>5. ASSUME NEW u \in ServerIds, DeleteSeries(u)
      PROVE  Known
  <2>1. u \in deleting /\ series' = [series EXCEPT ![u] = <<>>]
    BY <1>5 DEF DeleteSeries
  <2> QED
    BY <1>0, <1>1, <2>1
<1>6. ASSUME HistoryNext
      PROVE  Known
  <2>1. ASSUME NEW q \in Polls, NEW u \in ServerIds, PingFromConfig(q, u) \/ LatencyInfo(q, u)
        PROVE  Known
    <3>1. PollStarts(q)
      BY <2>1, Zenon DEF PingFromConfig, LatencyInfo
    <3>2. series' = series
      BY <3>1 DEF PollStarts
    <3> QED
      BY <1>1, <3>2
  <2>2. ASSUME NEW q \in Polls, NEW ms \in plan.lats, NEW on \in BOOLEAN, PingAnswered(q, ms, on)
        PROVE  Known
    BY <1>1, <2>2 DEF PingAnswered
  <2>3. ASSUME NEW u \in ServerIds, DeleteServerEntry(u) \/ Toggle(u)
        PROVE  Known
    BY <1>1, <2>3 DEF DeleteServerEntry, Toggle
  <2>4. ASSUME NEW u \in ServerIds, NEW ms \in plan.lats, NEW m \in BOOLEAN, Pong(u, ms, m)
        PROVE  Known
    BY <1>1, <2>4 DEF Pong
  <2>5. ASSUME Configure \/ Tick
        PROVE  Known
    BY <1>1, <2>5 DEF Configure, Tick
  <2> QED
    BY <1>3, <1>4, <1>5, <1>6, <2>1, <2>2, <2>3, <2>4, <2>5, Zenon DEF HistoryNext
<1>7. ASSUME NEW r \in Rounds, NEW t \in Targets, NEW at, NEW sw, After(r, t, at, sw),
             round[r].pc = "after" /\ t \in round[r].todo
      PROVE  Known
  <2>1. round[r].todo \subseteq round[r].due
    BY <1>0, <1>7 DEF RoundsGood
  <2>2. CASE t \in ServerIds
    <3>1. PICK x : RecordServerLatency([z \in {t} |-> x])
      BY <1>7, <2>2, Zenon DEF After
    <3>2. PICK new : new = [z \in {t} |-> x]
      OBVIOUS
    <3>3. RecordServerLatency(new) /\ DOMAIN new = {t}
      BY <3>1, <3>2
    <3>4. s \in DOMAIN new => Known
      BY <1>7, <2>1, <3>3 DEF Known
    <3> QED
      BY <1>2, <3>3, <3>4
  <2>3. CASE t \notin ServerIds
    BY <1>1, <1>7, <2>3 DEF After, NothingRecorded
  <2> QED
    BY <2>2, <2>3
<1>8. ASSUME NEW t \in Targets, TimerAfter(t)
      PROVE  Known
  <2>1. "timer" \in Rounds
    BY DEF Rounds
  <2>2. round["timer"].pc = "after" /\ t \in round["timer"].todo /\ \E at, sw : After("timer", t, at, sw)
    BY <1>8, Zenon DEF TimerAfter
  <2> QED
    BY <1>7, <2>1, <2>2
<1>9. ASSUME NEW t \in Targets, TopologyAfter(t)
      PROVE  Known
  <2>1. "topology" \in Rounds
    BY DEF Rounds
  <2>2. round["topology"].pc = "after" /\ t \in round["topology"].todo /\ \E at, sw : After("topology", t, at, sw)
    BY <1>9, Zenon DEF TopologyAfter
  <2> QED
    BY <1>7, <2>1, <2>2
<1>10. ASSUME TimerTick
       PROVE  Known
  <2> DEFINE passive == {u \in ServerIds : u \in there /\ ~plan.conf[u].auto /\ Elapsed(u, memo.passive[u])}
  <2>1. Passive(passive, now)
    BY <1>10 DEF TimerTick
  <2>2. PICK heard, new : /\ heard = {u \in passive : Found(u) /\ cached[u].lat > 0}
                          /\ new = [u \in heard |-> Sample(now, cached[u].lat, TRUE, "passive", FALSE)]
    OBVIOUS
  <2>3. RecordServerLatency(new)
    BY <2>1, <2>2, Zenon DEF Passive
  <2>4. DOMAIN new = heard /\ s \notin heard
    BY <2>2
  <2> QED
    BY <1>2, <2>3, <2>4
<1>11. ASSUME NEW r \in Rounds, RoundStep(r)
       PROVE  Known
  <2>1. ASSUME NEW t \in Targets,
               PingAllSkips(r, t) \/ PingAllChooses(r, t) \/ AcquireSlot(r, t) \/ Abandon(r, t) \/ PingAllEnds(r, t)
        PROVE  Known
    <3>1. series' = series
      BY <2>1 DEF PingAllSkips, PingAllChooses, AcquireSlot, Abandon, PingAllEnds, PingKeeps, historyVars
    <3> QED
      BY <1>1, <3>1
  <2>2. ASSUME NEW t \in Targets, NEW n \in AnyNode, NEW ms \in plan.lats, Probe(r, t, n, ms)
        PROVE  Known
    BY <1>1, <2>2 DEF Probe, PingKeeps, historyVars
  <2>3. ASSUME TimerComplete \/ TopologyTick \/ TopologyComplete \/ Leave(r)
        PROVE  Known
    BY <1>1, <2>3 DEF TimerComplete, TopologyTick, TopologyComplete, Leave, PingKeeps, historyVars
  <2> QED
    BY <1>8, <1>9, <1>10, <1>11, <2>1, <2>2, <2>3, Zenon DEF RoundStep
<1>12. ASSUME TriggerAutoLatencyRefresh \/ CleanupHistories \/ StopPings
       PROVE  Known
  BY <1>1, <1>12 DEF TriggerAutoLatencyRefresh, CleanupHistories, StopPings, PingKeeps, historyVars
<1>13. ASSUME NEW t \in Targets, Sessions(t)
       PROVE  Known
  BY <1>1, <1>13 DEF Sessions
<1>16. ASSUME NEW t \in Targets, ReorderGroup(t)
       PROVE  Known
  BY <1>1, <1>16 DEF ReorderGroup, historyVars
<1>17. ASSUME NEW n \in Nodes, SwitchOutbound(n)
       PROVE  Known
  BY <1>1, <1>17 DEF SwitchOutbound
<1>14. ASSUME UNCHANGED AutoPingVars
       PROVE  Known
  BY <1>1, <1>14 DEF AutoPingVars, historyVars
<1>15. Known
  BY <1>6, <1>11, <1>12, <1>13, <1>14, <1>16, <1>17, Zenon DEF AutoPingNext
<1> QED
  BY <1>15 DEF Known

\* A scan compares nodes, a daily scan is done once a day, and nobody writes the history
\* of a deleted server but who had begun before it was deleted.
THEOREM ScansHold == AutoPingSpec => ScansKept
<1>1. AutoPingInit => ProbeInv
  BY ProbesStart
<1>2. ProbeInv /\ [AutoPingNext]_AutoPingVars => ProbeInv'
  BY ProbesNext
<1>3. ProbeInv /\ [AutoPingNext]_AutoPingVars
      => [\A r \in Rounds, t \in Targets : ScanStarts(r, t) => ComparesNodes(r, t)]_AutoPingVars
  BY ComparesIs
<1>4. ProbeInv /\ [AutoPingNext]_AutoPingVars
      => [\A t \in Targets : ScanStarts("timer", t) /\ plan.conf[t].mode = "daily" => FullOnceADay(t)]_AutoPingVars
  BY DailyIs
<1>5. ProbeInv /\ [AutoPingNext]_AutoPingVars => [HistoryGone(UNION {round[r].due : r \in Rounds})]_AutoPingVars
  BY GoneIs
<1>6. AutoPingSpec => ScanComparesNodes
  BY <1>1, <1>2, <1>3, PTL DEF AutoPingSpec, ScanComparesNodes
<1>7. AutoPingSpec => DailyScanOnce
  BY <1>1, <1>2, <1>4, PTL DEF AutoPingSpec, DailyScanOnce
<1>8. AutoPingSpec => DeletedHistoryGone
  BY <1>1, <1>2, <1>5, PTL DEF AutoPingSpec, DeletedHistoryGone
<1> QED
  BY <1>6, <1>7, <1>8 DEF ScansKept
=============================================================================
