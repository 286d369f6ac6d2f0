--------------------------- MODULE ServerLifecycle ---------------------------
(***************************************************************************)
(* The servers: their configuration (config.go: ConfigManager, its file    *)
(* and the watcher of the file), the table of listeners of ProxyServer     *)
(* (proxy.go: Start, Stop, Reload, ReloadServer, StartServer, StopServer)  *)
(* and the API requests that change one and then the other (api.go,        *)
(* proxy_outbound_handler.go).                                             *)
(*                                                                         *)
(* A request, the watcher's Reload and Start are processes; one step is    *)
(* what happens under one lock: cm.mu for the configuration (a change and  *)
(* its save), listenersMu for the table (startListener and stopListener    *)
(* hold it throughout).  Of a server's entry the model keeps whether it is *)
(* enabled, what decides the kind of its listener, the listen address and  *)
(* its marks: the nodes banned for it, and hidden.                         *)
(***************************************************************************)
EXTENDS Naturals, FiniteSets

CONSTANTS
    Servers,     \* server ids
    Addrs,       \* listen addresses
    Marks,       \* what setServerHidden, BlockServerNode and UnblockServerNode change
    Reqs,        \* API requests
    LifeLoads    \* what a behaviour has: the first configuration, the requests and the
                 \* entries they send, edits of the file, faults, a Stop; and whether a watch outlives a rename

Kinds == {"udp", "both"}

Ops == {"create", "update", "delete", "mark", "unmark", "start", "stop", "reload"}

Entries == [on : BOOLEAN, kind : Kinds, speed : BOOLEAN, addr : Addrs, marks : SUBSET Marks]

NoEntry == [on |-> FALSE, kind |-> "none"]

Configs == [Servers -> Entries \cup {NoEntry}]

ASSUME LifeConstants ==
    /\ Servers # {}
    /\ Reqs \cap {"boot", "watcher"} = {}
    /\ LifeLoads \subseteq
         [first : Configs, ops : SUBSET Ops, reqs : SUBSET Reqs,
          sends : SUBSET Entries, edits : SUBSET Configs,
          faults : Nat, stop : BOOLEAN, survives : BOOLEAN]

Procs == Reqs \cup {"boot", "watcher"}

VARIABLES
    lload,      \* the bounds of this behaviour
    mem,        \* cm.servers
    file,       \* the configuration file
    watch,      \* the watcher of the file: it sees changes, sees none any more, or is closed
    event,      \* a change it has not acted on
    table,      \* p.listeners
    speeders,   \* udp_speeder processes of a server that are alive
    state,      \* of ProxyServer: running, Stop has begun, Stop has emptied the table
    proc,       \* the processes
    faults,     \* faults so far
    ghost       \* histories the properties use

lifeVars == <<lload, mem, file, watch, event, table, speeders, state, proc, faults, ghost>>

NoListener == [kind |-> "none"]

\* live: its sockets are open.
Listeners ==
    [kind : Kinds, speed : BOOLEAN, addr : Addrs, live : BOOLEAN]

ProcStates ==
    [pc : {"idle", "begin", "decide", "start", "copy", "bind", "check", "stopchk", "unbind",
           "reload", "recopy", "recheck", "restop", "delete", "read", "write",
           "load", "all", "table", "sweep", "apply", "rebind", "done"},
     op : Ops \cup {"none", "all"}, id : Servers, new : Servers,
     e : Entries \cup {NoEntry}, snap : Configs,
     cur : [Servers -> Listeners \cup {NoListener}], todo : SUBSET Servers,
     mark : SUBSET Marks, seen : SUBSET Marks]

Present(id) == table[id] # NoListener

\* unsaved, edited: the memory is ahead of the file after a failed save, the file ahead
\* of the memory after an edit.  astray: the last start or stop of a server went against
\* its entry, or failed.  late: what had passed its check of running when Stop began.
\* unkilled: servers whose udp_speeder could not be killed.
Ghosts == [unsaved : BOOLEAN, edited : BOOLEAN, astray : SUBSET Servers, late : BOOLEAN,
           unkilled : SUBSET Servers]

LifeTypeOK ==
    /\ \E l \in LifeLoads : lload \in {l, [l EXCEPT !.edits = {}]}
    /\ mem \in Configs /\ file \in Configs
    /\ watch \in {"on", "deaf", "closed"} /\ event \in BOOLEAN
    /\ table \in [Servers -> Listeners \cup {NoListener}]
    /\ \A id \in Servers : speeders[id] \in {0, 1}
    /\ state \in {"running", "stopping", "stopped"}
    /\ proc \in [Procs -> ProcStates]
    /\ faults \in 0 .. lload.faults
    /\ ghost \in Ghosts

NoTable == [id \in Servers |-> NoListener]

NoConfig == [id \in Servers |-> NoEntry]

Idle(pc) ==
    [pc |-> pc, op |-> "none", id |-> CHOOSE i \in Servers : TRUE,
     new |-> CHOOSE i \in Servers : TRUE, e |-> NoEntry, snap |-> NoConfig,
     cur |-> NoTable, todo |-> {}, mark |-> {}, seen |-> {}]

\* Start has loaded the file, set running and the watch; it starts the listeners next.
LifeInit ==
    /\ lload \in LifeLoads
    /\ mem = lload.first /\ file = mem
    /\ watch = "on" /\ event = FALSE
    /\ table = NoTable
    /\ speeders = [id \in Servers |-> 0]
    /\ state = "running"
    /\ proc = [p \in Procs |-> Idle(IF p = "boot" THEN "all" ELSE "idle")]
    /\ faults = 0
    /\ ghost = [unsaved |-> FALSE, edited |-> FALSE, astray |-> {}, late |-> FALSE,
                unkilled |-> {}]

In(p, pc) == proc[p].pc = pc

Goto(p, pc) == proc' = [proc EXCEPT ![p].pc = pc]

\* A request that has answered, and a Reload that has returned, keep nothing.
Return(p) == proc' = [proc EXCEPT ![p] = Idle(IF p = "watcher" THEN "idle" ELSE "done")]

Fault == faults < lload.faults /\ faults' = faults + 1

NoFault == UNCHANGED faults

configVars == <<mem, file, watch, event>>

tableVars == <<table, speeders>>

-----------------------------------------------------------------------------
(* ConfigManager.                                                          *)

\* Validate: a tunnel for UDP has no place before a listener for TCP.
Validate(e) == ~(e.speed /\ e.kind = "both")

ValidConfig(m) == \A id \in Servers : m[id] = NoEntry \/ Validate(m[id])

\* Start goes on only if Load has accepted the file.
ASSUME FirstIsValid == \A l \in LifeLoads : ValidConfig(l.first)

\* saveToFile after the map has become m: the file is replaced by a rename, which the
\* watch of the old file may not outlive; nobody undoes the change when this fails.
SaveToFile(m) ==
    \/ /\ NoFault
       /\ file' = m
       /\ event' = (event \/ (watch = "on" /\ lload.survives))
       /\ watch' = IF watch = "on" /\ ~lload.survives THEN "deaf" ELSE watch
       /\ ghost' = [ghost EXCEPT !.unsaved = FALSE, !.edited = FALSE]
    \/ /\ Fault
       /\ UNCHANGED <<file, event, watch>>
       /\ ghost' = [ghost EXCEPT !.unsaved = TRUE]

Saved == faults' = faults

\* A change of the map and what the request does once it is saved.
Change(p, m, next) ==
    /\ mem' = m
    /\ SaveToFile(m)
    /\ IF Saved THEN Goto(p, next) ELSE Return(p)
    /\ UNCHANGED <<lload, tableVars, state>>

Unchanged(p) == Return(p) /\ UNCHANGED <<lload, configVars, tableVars, state, faults, ghost>>

\* AddServer, of createServer.
AddServer(p) ==
    LET id == proc[p].id  e == proc[p].e
    IN  /\ In(p, "begin") /\ proc[p].op = "create"
        /\ IF Validate(e) /\ mem[id] = NoEntry
           THEN Change(p, [mem EXCEPT ![id] = e], "decide")
           ELSE Unchanged(p)

\* UpdateServer, of updateServer: the entry may come under another id, and then
\* replaces the one that has that id.
UpdateServer(p) ==
    LET id == proc[p].id  e == proc[p].e
    IN  /\ In(p, "begin") /\ proc[p].op = "update"
        /\ IF Validate(e) /\ mem[id] # NoEntry
           THEN Change(p, [mem EXCEPT ![id] = NoEntry, ![proc[p].new] = e], "decide")
           ELSE Unchanged(p)

\* Fault: the deletion is not saved.
DeleteUnsaved(p) ==
    /\ In(p, "delete")
    /\ mem' = [mem EXCEPT ![proc[p].id] = NoEntry]
    /\ Return(p)
    /\ UNCHANGED <<lload, file, watch, event, tableVars, state, faults, ghost>>

\* DeleteServer, the end of deleteServer.
DeleteServer(p) ==
    LET id == proc[p].id
    IN  /\ In(p, "delete")
        /\ IF mem[id] = NoEntry THEN Unchanged(p)
           ELSE Change(p, [mem EXCEPT ![id] = NoEntry], "done")

\* The copy of an entry, with other marks; seen: those it had.
Copied(p, marks) ==
    LET e == mem[proc[p].id]
    IN  proc' = [proc EXCEPT ![p] = [@ EXCEPT !.pc = "write", !.seen = e.marks,
                                              !.e = [e EXCEPT !.marks = marks]]]

\* Fault: the copy starts with no bans.
GetServerBare(p) ==
    /\ In(p, "read") /\ mem[proc[p].id] # NoEntry
    /\ Copied(p, proc[p].mark)
    /\ UNCHANGED <<lload, configVars, tableVars, state, faults, ghost>>

\* setServerHidden, BlockServerNode and UnblockServerNode: GetServer gives them a copy ...
GetServer(p) ==
    LET id == proc[p].id
    IN  /\ In(p, "read")
        /\ IF mem[id] = NoEntry THEN Return(p)
           ELSE Copied(p, IF proc[p].op = "mark" THEN mem[id].marks \cup proc[p].mark
                          ELSE mem[id].marks \ proc[p].mark)
        /\ UNCHANGED <<lload, configVars, tableVars, state, faults, ghost>>

\* ... that UpdateServer writes back whole.
WriteBack(p) ==
    LET id == proc[p].id
    IN  /\ In(p, "write")
        /\ IF mem[id] = NoEntry THEN Unchanged(p)
           ELSE Change(p, [mem EXCEPT ![id] = proc[p].e], "done")

\* Somebody writes the file.
EditFile(m) ==
    /\ m \in lload.edits /\ m # file
    /\ lload' = [lload EXCEPT !.edits = {}]
    /\ file' = m
    /\ event' = (watch = "on")
    /\ ghost' = [ghost EXCEPT !.edited = TRUE]
    /\ UNCHANGED <<mem, watch, tableVars, state, proc, faults>>

\* Watch: the goroutine sees the event, and waits 100 ms before it loads the file.
SeeEvent ==
    /\ watch = "on" /\ event
    /\ In("watcher", "idle")
    /\ event' = FALSE
    /\ proc' = [proc EXCEPT !["watcher"] = [@ EXCEPT !.pc = "load", !.op = "all"]]
    /\ UNCHANGED <<lload, mem, file, watch, tableVars, state, faults, ghost>>

\* Fault: what was loaded is normalised and written back.
LoadAndSave ==
    /\ In("watcher", "load")
    /\ mem' = file
    /\ Goto("watcher", "check")
    /\ event' = (watch = "on")
    /\ ghost' = [ghost EXCEPT !.unsaved = FALSE, !.edited = FALSE]
    /\ UNCHANGED <<lload, file, watch, tableVars, state, faults>>

\* Load of Reload: one entry that is not valid, and the memory keeps what it has.
LoadFile ==
    /\ In("watcher", "load")
    /\ IF ValidConfig(file)
       THEN /\ mem' = file
            /\ Goto("watcher", "check")
            /\ ghost' = [ghost EXCEPT !.unsaved = FALSE, !.edited = FALSE]
       ELSE /\ Return("watcher")
            /\ UNCHANGED <<mem, ghost>>
    /\ UNCHANGED <<lload, file, watch, event, tableVars, state, faults>>

-----------------------------------------------------------------------------
(* startListener and stopListener.                                         *)

\* The server is at odds with its entry, or is not.
Astray(id, bad) == IF bad THEN ghost.astray \cup {id} ELSE ghost.astray \ {id}

\* Two live listeners cannot have one address.
InUse(addr) == \E id \in Servers : Present(id) /\ table[id].live /\ table[id].addr = addr

\* Fault: the udp_speeder of a listener that cannot bind is forgotten.
StartFailsOpen(id, e) ==
    /\ Fault \/ (NoFault /\ (Present(id) \/ InUse(e.addr)))
    /\ speeders' = [speeders EXCEPT ![id] = IF e.speed THEN 1 ELSE @]
    /\ ghost' = [ghost EXCEPT !.astray = IF Present(id) THEN @ ELSE @ \cup {id}]
    /\ UNCHANGED table

\* Start of the listener: one of the two sockets of a combinedListener, or the only one,
\* cannot be had; the other is closed again.
BindFails(e) == InUse(e.addr)

\* There is a listener, the udp_speeder does not start, or the address is in use; then
\* the udp_speeder is stopped again (cleanup).
StartFails(id, e) ==
    /\ Fault \/ (NoFault /\ (Present(id) \/ BindFails(e)))
    /\ ghost' = [ghost EXCEPT !.astray = IF Present(id) THEN @ ELSE @ \cup {id}]
    /\ UNCHANGED tableVars

\* Fault: startListener does not look in the table.
StartedAgain(id, e) ==
    /\ NoFault /\ ~InUse(e.addr)
    /\ table' = [table EXCEPT ![id] =
                   [kind |-> e.kind, speed |-> e.speed, addr |-> e.addr, live |-> TRUE]]
    /\ speeders' = [speeders EXCEPT ![id] = IF e.speed THEN @ + 1 ELSE @]
    /\ ghost' = [ghost EXCEPT !.astray = Astray(id, ~mem[id].on)]

\* startUDPSpeeder: one process per listener that wants it.
StartUDPSpeeder(id, e) == speeders' = [speeders EXCEPT ![id] = IF e.speed THEN 1 ELSE @]

\* startListener: startUDPSpeeder, Start, and a goroutine for Listen.
Started(id, e) ==
    /\ NoFault /\ ~Present(id) /\ ~BindFails(e)
    /\ table' = [table EXCEPT ![id] =
                   [kind |-> e.kind, speed |-> e.speed, addr |-> e.addr, live |-> TRUE]]
    /\ StartUDPSpeeder(id, e)
    /\ ghost' = [ghost EXCEPT !.astray = Astray(id, ~mem[id].on)]

StartListener(id, e) == Started(id, e) \/ StartFails(id, e)

\* Stop of listenerWithCleanup: the listener is stopped, its udp_speeder does not die;
\* stopListener leaves the listener in the table.
StopFails(id) ==
    /\ Fault /\ Present(id) /\ table[id].speed
    /\ table' = [table EXCEPT ![id].live = FALSE]
    /\ ghost' = [ghost EXCEPT !.astray = @ \cup {id}, !.unkilled = @ \cup {id}]
    /\ UNCHANGED speeders

\* udpSpeederProcess.Stop: the process is killed, and waited for two seconds.
Killed(id) == speeders' = [speeders EXCEPT ![id] = 0]

\* stopListener.
StopListener(id) ==
    \/ /\ NoFault /\ Present(id)
       /\ table' = [table EXCEPT ![id] = NoListener]
       /\ Killed(id)
       /\ ghost' = [ghost EXCEPT !.astray = Astray(id, mem[id].on), !.unkilled = @ \ {id}]
    \/ StopFails(id)

\* It is gone already.
NotFound(id) == NoFault /\ ~Present(id) /\ UNCHANGED <<tableVars, ghost>>

\* Listen of combinedListener: one of the two fails, both are stopped; the table does
\* not hear of it.
ListenFails(id) ==
    /\ Present(id) /\ table[id].kind = "both" /\ table[id].live
    /\ Fault
    /\ table' = [table EXCEPT ![id].live = FALSE]
    /\ ghost' = [ghost EXCEPT !.astray = @ \cup {id}]
    /\ UNCHANGED <<lload, configVars, speeders, state, proc>>

-----------------------------------------------------------------------------
(* StartServer, StopServer, ReloadServer, and the requests that call them. *)

tail == <<lload, configVars, state>>

Look(p, pc) == Goto(p, pc) /\ UNCHANGED <<tail, tableVars, faults, ghost>>

Begin(r, op, id, fields) ==
    /\ r \in lload.reqs /\ In(r, "idle") /\ op \in lload.ops
    /\ In("boot", "done")
    /\ proc' = [proc EXCEPT ![r] = [fields EXCEPT !.op = op, !.id = id]]
    /\ UNCHANGED <<tail, tableVars, faults, ghost>>

\* createServer and updateServer.  A client that edits an entry has read it before.
RequestEntry(r, op, id, new, e) ==
    /\ op = "create" => new = id
    /\ Begin(r, op, id,
             [proc[r] EXCEPT !.pc = "begin", !.new = new,
                !.e = [e EXCEPT !.marks = IF mem[id] = NoEntry THEN {} ELSE mem[id].marks]])

\* setServerHidden, BlockServerNode, UnblockServerNode.
RequestMark(r, op, id, b) == Begin(r, op, id, [proc[r] EXCEPT !.pc = "read", !.mark = {b}])

\* deleteServer, startServer, stopServer, reloadServer.
RequestServer(r, op, id) ==
    Begin(r, op, id, [proc[r] EXCEPT !.pc = CASE op = "delete" -> "stopchk"
                                              [] op = "start" -> "start"
                                              [] op = "stop" -> "check"
                                              [] op = "reload" -> "reload"])

\* createServer and updateServer once the entry is saved: IsServerRunning decides.
Decide(p) ==
    LET id == proc[p].new  on == proc[p].e.on
    IN  /\ In(p, "decide")
        /\ proc' = [proc EXCEPT ![p] =
             [@ EXCEPT !.id = id,
                       !.pc = CASE ~Present(id) /\ on -> "start"
                                [] Present(id) /\ on /\ proc[p].op = "update" -> "reload"
                                [] Present(id) /\ ~on /\ proc[p].op = "update" -> "check"
                                [] OTHER -> "done"]]
        /\ UNCHANGED <<tail, tableVars, faults, ghost>>

\* Fault: StartServer does not look whether ProxyServer runs.
StartServerAnyway(p) == In(p, "start") /\ Look(p, "copy")

\* StartServer.
StartServer(p) ==
    /\ In(p, "start")
    /\ Look(p, IF state = "running" THEN "copy" ELSE "done")

StartCopy(p) ==
    LET id == proc[p].id
    IN  /\ In(p, "copy")
        /\ IF mem[id] = NoEntry THEN Return(p)
           ELSE proc' = [proc EXCEPT ![p] = [@ EXCEPT !.e = mem[id], !.pc = "bind"]]
        /\ UNCHANGED <<tail, tableVars, faults, ghost>>

\* The end of StartServer and of ReloadServer.
Bind(p) ==
    /\ In(p, "bind")
    /\ StartListener(proc[p].id, proc[p].e)
    /\ Return(p)
    /\ UNCHANGED tail

\* deleteServer stops a server that runs.
DeleteLooks(p) ==
    /\ In(p, "stopchk")
    /\ Look(p, IF Present(proc[p].id) THEN "check" ELSE "delete")

\* StopServer.
StopServer(p) ==
    /\ In(p, "check") /\ p \in Reqs
    /\ Look(p, IF state = "running" THEN "unbind" ELSE "done")

\* deleteServer gives up when this fails.
Unbind(p) ==
    LET id == proc[p].id
    IN  /\ In(p, "unbind")
        /\ \/ /\ StopListener(id)
              /\ IF proc[p].op = "delete" /\ Saved THEN Goto(p, "delete") ELSE Return(p)
           \/ NotFound(id) /\ Return(p)
        /\ UNCHANGED tail

\* ReloadServer: a server without an entry is stopped if it runs.
ReloadServer(p) ==
    /\ In(p, "reload")
    /\ Look(p, IF state = "running" THEN "recopy" ELSE "done")

ReloadCopy(p) ==
    /\ In(p, "recopy")
    /\ proc' = [proc EXCEPT ![p] = [@ EXCEPT !.e = mem[proc[p].id], !.pc = "recheck"]]
    /\ UNCHANGED <<tail, tableVars, faults, ghost>>

ReloadLooks(p) ==
    /\ In(p, "recheck")
    /\ Look(p, IF Present(proc[p].id) THEN "restop"
               ELSE IF proc[p].e.on THEN "bind" ELSE "done")

ReloadStops(p) ==
    LET id == proc[p].id
    IN  /\ In(p, "restop")
        /\ \/ /\ StopListener(id)
              /\ IF Saved /\ proc[p].e.on THEN Goto(p, "bind") ELSE Return(p)
           \/ NotFound(id) /\ Return(p)
        /\ UNCHANGED tail

-----------------------------------------------------------------------------
(* Start and Reload: a copy of the configuration, one of the table, and a  *)
(* pass over each.                                                         *)

\* Reload returns at once when ProxyServer does not run.
ReloadBegins ==
    /\ In("watcher", "check")
    /\ Look("watcher", IF state = "running" THEN "all" ELSE "idle")

GetAllServers(p) ==
    /\ In(p, "all")
    /\ proc' = [proc EXCEPT ![p] =
         [@ EXCEPT !.snap = mem, !.pc = IF p = "boot" THEN "apply" ELSE "table",
                   !.todo = IF p = "boot" THEN {id \in Servers : mem[id].on} ELSE {}]]
    /\ UNCHANGED <<tail, tableVars, faults, ghost>>

CopyTable ==
    /\ In("watcher", "table")
    /\ proc' = [proc EXCEPT !["watcher"] =
         [@ EXCEPT !.cur = table, !.pc = "sweep",
                   !.todo = {id \in Servers : Present(id) /\ ~proc["watcher"].snap[id].on}]]
    /\ UNCHANGED <<tail, tableVars, faults, ghost>>

ApplyPc(p, id, pc) ==
    proc' = [proc EXCEPT ![p] = [@ EXCEPT !.todo = proc[p].todo \ {id}, !.pc = pc]]

\* Fault: listeners of servers that are disabled or gone are left.
SweepSkips(id) ==
    /\ In("watcher", "sweep") /\ id \in proc["watcher"].todo
    /\ ApplyPc("watcher", id, "sweep")
    /\ UNCHANGED <<tail, tableVars, faults, ghost>>

\* Reload stops what has no enabled entry any more ...
Sweep(id) ==
    /\ In("watcher", "sweep") /\ id \in proc["watcher"].todo
    /\ StopListener(id) \/ NotFound(id)
    /\ ApplyPc("watcher", id, "sweep")
    /\ UNCHANGED tail

SweepDone ==
    /\ In("watcher", "sweep") /\ proc["watcher"].todo = {}
    /\ proc' = [proc EXCEPT !["watcher"] =
         [@ EXCEPT !.pc = "apply",
                   !.todo = {id \in Servers : proc["watcher"].snap[id].on}]]
    /\ UNCHANGED <<tail, tableVars, faults, ghost>>

\* listenerKind and listenerKindFromConfig: the wrapper of a udp_speeder has no kind.
SameKind(l, e) == ~l.speed /\ l.kind = e.kind

\* ... starts what was not in the table ...
ApplyStart(p, id) ==
    /\ In(p, "apply") /\ id \in proc[p].todo
    /\ proc[p].cur[id] = NoListener
    /\ StartListener(id, proc[p].snap[id])
    /\ ApplyPc(p, id, "apply")
    /\ UNCHANGED tail

\* ... restarts what is of another kind, if it can be stopped ...
ApplyRestart(id) ==
    LET w == proc["watcher"]
    IN  /\ In("watcher", "apply") /\ id \in w.todo
        /\ w.cur[id] # NoListener /\ ~SameKind(w.cur[id], w.snap[id])
        /\ \/ /\ StopListener(id)
              /\ IF Saved THEN proc' = [proc EXCEPT !["watcher"] =
                                          [@ EXCEPT !.pc = "rebind", !.id = id]]
                 ELSE ApplyPc("watcher", id, "apply")
           \/ NotFound(id) /\ ApplyPc("watcher", id, "apply")
        /\ UNCHANGED tail

ApplyRebind ==
    LET id == proc["watcher"].id
    IN  /\ In("watcher", "rebind")
        /\ StartListener(id, proc["watcher"].snap[id])
        /\ ApplyPc("watcher", id, "apply")
        /\ UNCHANGED tail

\* ... and gives the others the new entry; they keep their sockets and their address.
ApplyUpdate(id) ==
    LET w == proc["watcher"]
    IN  /\ In("watcher", "apply") /\ id \in w.todo
        /\ w.cur[id] # NoListener /\ SameKind(w.cur[id], w.snap[id])
        /\ ApplyPc("watcher", id, "apply")
        /\ UNCHANGED <<tail, tableVars, faults, ghost>>

ApplyDone(p) ==
    /\ In(p, "apply") /\ proc[p].todo = {}
    /\ Return(p)
    /\ UNCHANGED <<tail, tableVars, faults, ghost>>

-----------------------------------------------------------------------------
(* Stop.                                                                   *)

Checked(p) == ~In(p, "idle") /\ ~In(p, "done")

\* running is reset, the context cancelled, the watches closed.
StopBegins ==
    /\ lload.stop /\ state = "running" /\ In("boot", "done")
    /\ state' = "stopping"
    /\ watch' = "closed" /\ event' = FALSE
    /\ ghost' = [ghost EXCEPT !.late = \E p \in Procs : Checked(p)]
    /\ UNCHANGED <<lload, mem, file, tableVars, proc, faults>>

\* All listeners are stopped under the lock; an error is logged and the table replaced.
StopListeners ==
    /\ state = "stopping"
    /\ state' = "stopped"
    /\ table' = NoTable
    /\ \/ NoFault /\ speeders' = [id \in Servers |-> 0] /\ UNCHANGED ghost
       \/ \E id \in Servers : /\ Fault /\ speeders[id] = 1
                              /\ speeders' = [i \in Servers |-> IF i = id THEN 1 ELSE 0]
                              /\ ghost' = [ghost EXCEPT !.unkilled = @ \cup {id}]
    /\ UNCHANGED <<lload, configVars, proc>>

-----------------------------------------------------------------------------

RequestStep(r) ==
    \/ AddServer(r) \/ UpdateServer(r) \/ DeleteServer(r) \/ GetServer(r) \/ WriteBack(r)
    \/ Decide(r) \/ StartServer(r) \/ StartCopy(r) \/ Bind(r) \/ DeleteLooks(r)
    \/ StopServer(r) \/ Unbind(r) \/ ReloadServer(r) \/ ReloadCopy(r) \/ ReloadLooks(r)
    \/ ReloadStops(r)

ReloadStep ==
    \/ SeeEvent \/ LoadFile \/ ReloadBegins \/ CopyTable \/ SweepDone \/ ApplyRebind
    \/ \E p \in {"boot", "watcher"} :
         \/ GetAllServers(p) \/ ApplyDone(p)
         \/ \E id \in Servers : ApplyStart(p, id)
    \/ \E id \in Servers : Sweep(id) \/ ApplyRestart(id) \/ ApplyUpdate(id)

LifeNext ==
    \/ \E r \in Reqs, id \in Servers :
         \/ \E op \in {"create", "update"}, new \in Servers, e \in lload.sends :
              RequestEntry(r, op, id, new, e)
         \/ \E op \in {"mark", "unmark"}, b \in Marks : RequestMark(r, op, id, b)
         \/ \E op \in {"delete", "start", "stop", "reload"} : RequestServer(r, op, id)
    \/ \E r \in Reqs : RequestStep(r)
    \/ ReloadStep
    \/ \E m \in lload.edits : EditFile(m)
    \/ \E id \in Servers : ListenFails(id)
    \/ StopBegins \/ StopListeners

\* Goroutines run; nobody has to make a request, edit the file or stop the program.
LifeFairness ==
    /\ WF_lifeVars(ReloadStep)
    /\ WF_lifeVars((\E r \in Reqs : RequestStep(r)) \/ StopListeners)

LifeSpec == LifeInit /\ [][LifeNext]_lifeVars /\ LifeFairness

-----------------------------------------------------------------------------

Quiet == ~event /\ \A p \in Procs : In(p, "idle") \/ In(p, "done")

\* Once everything has come to rest, a server has a listener exactly when its entry is
\* enabled.  This takes a watch that still sees the file, a file that was read, a last save
\* that did not fail, and servers whose last start or stop was not made by hand, in vain,
\* or from a copy of an entry that has changed since (updateServer, deleteServer and
\* ReloadServer read, decide and act in separate steps).
ListenersFollow ==
    (Quiet /\ state = "running" /\ watch = "on" /\ mem = file /\ ~ghost.unsaved)
      => \A id \in Servers \ ghost.astray : Present(id) <=> mem[id].on

\* Every udp_speeder that runs belongs to a listener of the table; only one that could
\* not be killed is left alone (startListener's cleanup, listenerWithCleanup).
NoOrphanProcess ==
    \A id \in Servers \ ghost.unkilled :
      speeders[id] = 1 => (Present(id) /\ table[id].speed)

\* The file holds what the memory holds, unless a save has failed (the change stays in
\* memory all the same) or the file was edited since.
FileFollows == (mem # file) => (ghost.unsaved \/ ghost.edited)

\* After Stop there is no listener, unless a request or a Reload had found ProxyServer
\* running before Stop began and started one afterwards: startListener does not look again.
NoneAfterStop == (state = "stopped" /\ ~ghost.late) => table = NoTable

\* A ban (or hidden) that is in an entry goes only with the request that lifts it, the
\* entry, or a copy made before the ban was set.
MarksKept ==
    [][\A id \in Servers :
         (mem[id] # NoEntry /\ mem'[id] # NoEntry) =>
           \A b \in mem[id].marks \ mem'[id].marks :
             \/ \E r \in Reqs : /\ proc[r].pc \in {"begin", "write"} /\ proc'[r] # proc[r]
                                /\ \/ proc[r].op = "update"
                                   \/ proc[r].op = "unmark" /\ b \in proc[r].mark
                                   \/ b \notin proc[r].seen
             \/ In("watcher", "load")]_lifeVars

\* The work a change gives rise to comes to an end: a Reload does not cause another.
Settles == <>[]Quiet

\* Listeners, udp_speeder processes and the file follow the configuration in memory, but
\* for the exceptions each part names.
LifeInv == LifeTypeOK /\ ListenersFollow /\ NoOrphanProcess /\ FileFollows /\ NoneAfterStop
===============================================================================
