------------------------------ MODULE APIAccess ------------------------------
(***************************************************************************)
(* Who may use the API, and the configuration it edits (internal/api,       *)
(* internal/db, internal/config).                                           *)
(*                                                                         *)
(* A request passes authMiddleware, which asks the table of keys more than  *)
(* once and writes the access log in several statements, and then its       *)
(* handler.  Each statement is a step of its own: SQLite serialises them,   *)
(* nothing serialises requests.  The handlers of the configuration work on  *)
(* one GlobalConfig in memory that no lock protects, and on its file; the   *)
(* process may end and start again at any point.                            *)
(***************************************************************************)
EXTENDS Integers, Sequences, FiniteSets, SequencesExt

CONSTANTS
    Requests,      \* goroutines that serve requests
    MaxLog,        \* maxLogRecords of the key repository
    APIPlans       \* what may happen: [secret, keys, todo, faults, restarts, falls]; secret
                   \* tells whether config.json has an api_key, keys how many keys there are,
                   \* falls how far the clock may be set back

VARIABLES
    keys,          \* the rows of api_keys
    issued,        \* how many keys were ever generated: keys are random, never repeated
    alog,          \* api_access_log in the order of the index on timestamp
    stamp,         \* goroutine -> the time.Now() LogAccess took for its row
    wall,          \* the clock, and what became of the rows (not in the code)
    skipped,       \* trimmings that failed (not in the code)
    req,           \* goroutine -> its request
    gcfg,          \* *a.globalConfig
    gdisk,         \* config.json
    limit,         \* maxRecords of the session repository
    ports,         \* whether the proxy ports run
    amiss,         \* what config.json was written from: "" as intended, see Torn and Crossed
    plans          \* what may still happen

keyVars == <<keys, issued, alog, stamp, wall, skipped>>
configVars == <<gcfg, gdisk, limit, ports, amiss>>
apiVars == <<keyVars, req, configVars, plans>>

\* What X-API-Key may hold besides a number of a generated key.
Nothing == 0
Secret == -1
Unknown == -2

\* The fields the properties tell apart: two taken only when positive (entry is the entry
\* path, max is max_session_records), three that are pointers in the request.
Fields == {"entry", "max", "render", "storage", "ports"}

DefaultGlobalConfig == [entry |-> 1, max |-> 1, render |-> 1, storage |-> 3, ports |-> 1]

\* A request asks to change some of the fields; two handlers expect one each.
WellFormed(q) ==
    /\ q \in [key : Int, op : STRING, target : Int, set : {q.set}, id : Nat]
    /\ DOMAIN q.set \subseteq Fields
    /\ q.set \in [DOMAIN q.set -> Int]
    /\ q.op \in {"entry", "max"} => q.op \in DOMAIN q.set

ASSUME APIAssumption ==
    /\ MaxLog \in Nat \ {0}
    /\ IsFiniteSet(Requests)
    /\ \A p \in APIPlans :
         /\ p \in [secret : BOOLEAN, keys : Nat, todo : {p.todo}, faults : Nat, restarts : Nat,
                  falls : Nat]
         /\ \A q \in p.todo : WellFormed(q)

\* A time is the number of the call of time.Now() and what the call read: the two part when
\* the clock is set back, and the timestamp is local time.
NoTime == [at |-> 0, nth |-> 0]

NoSet == [f \in {} |-> 0]
Quiet == [pc |-> "idle", key |-> Nothing, op |-> "", set |-> NoSet, target |-> 0, count |-> 0,
          any |-> FALSE, admin |-> FALSE, good |-> FALSE, open |-> FALSE, next |-> DefaultGlobalConfig]

APIInit ==
    /\ plans \in APIPlans
    /\ keys = 1..plans.keys
    /\ issued = plans.keys
    /\ alog = <<>>
    /\ stamp = [r \in Requests |-> NoTime]
    /\ wall = [given |-> 0, fallen |-> 0, turned |-> 0, gone |-> {}]
    /\ skipped = 0
    /\ req = [r \in Requests |-> Quiet]
    /\ gcfg = DefaultGlobalConfig
    /\ gdisk = DefaultGlobalConfig
    /\ limit = DefaultGlobalConfig.max
    /\ ports = DefaultGlobalConfig.ports
    /\ amiss = ""

InStep(r, pc) == req[r].pc = pc
To(r, pc) == req' = [req EXCEPT ![r].pc = pc]
Busy == {r \in Requests : req[r].pc # "idle"}

\* A statement of the request fails; the plan says how often.
Fault == plans.faults > 0 /\ plans' = [plans EXCEPT !.faults = @ - 1]

Open == keys = {} /\ ~plans.secret

-----------------------------------------------------------------------------
(* authMiddleware. *)

\* good and open are not in the code: whether the key sent was valid, and whether the API
\* was open to everyone, at some moment of the request.
Arrive(r, q) ==
    /\ InStep(r, "idle")
    /\ q \in plans.todo
    /\ q.key \in {Nothing, Secret, Unknown} \cup 1..issued
    /\ plans' = [plans EXCEPT !.todo = @ \ {q}]
    /\ req' = [req EXCEPT ![r] = [Quiet EXCEPT !.pc = "auth", !.key = q.key, !.op = q.op, !.set = q.set,
                                               !.target = q.target, !.open = Open,
                                               !.good = q.key \in keys \/ (plans.secret /\ q.key = Secret)]]
    /\ UNCHANGED <<keyVars, configVars>>

\* The key of config.json is admitted at once.
ConfigKey(r) ==
    /\ InStep(r, "auth")
    /\ plans.secret /\ req[r].key = Secret
    /\ req' = [req EXCEPT ![r].pc = "run", ![r].any = TRUE, ![r].admin = TRUE]
    /\ UNCHANGED <<keyVars, configVars, plans>>

\* The list of keys only tells whether one is needed.
ListKeys(r) ==
    /\ InStep(r, "auth")
    /\ ~(plans.secret /\ req[r].key = Secret)
    /\ \/ /\ req' = [req EXCEPT ![r].any = ~Open,
                                ![r].pc = IF Open THEN "run" ELSE IF req[r].key = Nothing THEN "end" ELSE "lookup"]
          /\ UNCHANGED plans
       \/ Fault /\ To(r, "end")
    /\ UNCHANGED <<keyVars, configVars>>

\* Used as a fault: a key once known stays known.
KnownKey(k) == k \in 1..issued

GetByKey(k) == k \in keys

LookUpKey(r) ==
    /\ InStep(r, "lookup")
    /\ \/ To(r, IF GetByKey(req[r].key) THEN "log" ELSE "end") /\ UNCHANGED plans
       \/ Fault /\ To(r, "end")
    /\ UNCHANGED <<keyVars, configVars>>

\* A request is not refused because it could not be logged.
Unlogged(r) == req' = [req EXCEPT ![r].pc = "run", ![r].admin = TRUE]

\* The clock is set back by n, as local time is once a year.
ClockFalls(n) ==
    /\ n \in 1..plans.falls
    /\ plans' = [plans EXCEPT !.falls = @ - n]
    /\ wall' = [wall EXCEPT !.fallen = @ + n, !.turned = wall.given]
    /\ UNCHANGED <<keys, issued, alog, stamp, skipped, req, configVars>>

\* The time is an argument of the insert, which then waits for the only connection.
TakeTime(r) ==
    /\ InStep(r, "log")
    /\ wall' = [wall EXCEPT !.given = @ + 1]
    /\ stamp' = [stamp EXCEPT ![r] = [at |-> (wall.given + 1) - wall.fallen, nth |-> wall.given + 1]]
    /\ To(r, "insert")
    /\ UNCHANGED <<keys, issued, alog, skipped, configVars, plans>>

\* Behind the rows that are not later; by says how many times were taken until it was written.
Row(r) == [at |-> stamp[r].at, nth |-> stamp[r].nth, by |-> wall.given]
Behind(k, at) == \A i \in 1..Len(alog) : i < k <=> alog[i].at <= at

LogInsert(r) ==
    /\ InStep(r, "insert")
    /\ \/ /\ \E k \in 1..Len(alog) + 1 : Behind(k, stamp[r].at) /\ alog' = InsertAt(alog, k, Row(r))
          /\ To(r, "touch")
          /\ UNCHANGED <<skipped, plans>>
       \/ /\ Fault
          /\ Unlogged(r)
          /\ UNCHANGED <<alog, skipped>>
    /\ stamp' = [stamp EXCEPT ![r] = NoTime]
    /\ UNCHANGED <<keys, issued, wall, configVars>>

\* last_used; a key deleted meanwhile matches no row, which is no error.
LogTouch(r) ==
    /\ InStep(r, "touch")
    /\ \/ To(r, "count") /\ UNCHANGED <<skipped, plans>>
       \/ Fault /\ Unlogged(r) /\ skipped' = skipped + 1
    /\ UNCHANGED <<keys, issued, alog, stamp, wall, configVars>>

\* Used as a fault: the row just written is not counted.
TooManyBut(n) == n > MaxLog + 1

TooMany(n) == n > MaxLog

cleanupLogs(r) ==
    /\ InStep(r, "count")
    /\ \/ /\ req' = [req EXCEPT ![r].pc = IF TooMany(Len(alog)) THEN "trim" ELSE "run",
                                ![r].count = Len(alog), ![r].admin = TRUE]
          /\ UNCHANGED <<skipped, plans>>
       \/ Fault /\ Unlogged(r) /\ skipped' = skipped + 1
    /\ UNCHANGED <<keys, issued, alog, stamp, wall, configVars>>

\* Used as a fault: the order of the subquery turned round.
DropNewest(n) == SubSeq(alog, 1, Len(alog) - n)

deleteOldest(n) == SubSeq(alog, n + 1, Len(alog))

Times(rows) == {rows[i].nth : i \in 1..Len(rows)}

deleteOldestLogs(r) ==
    /\ InStep(r, "trim")
    /\ \/ /\ alog' = deleteOldest(req[r].count - MaxLog)
          /\ wall' = [wall EXCEPT !.gone = @ \cup (Times(alog) \ Times(alog'))]
          /\ UNCHANGED <<skipped, plans>>
       \/ Fault /\ skipped' = skipped + 1 /\ UNCHANGED <<alog, wall>>
    /\ req' = [req EXCEPT ![r].pc = "run", ![r].count = 0]
    /\ UNCHANGED <<keys, issued, stamp, configVars>>

isAdminRequest(r) == req[r].admin \/ ~req[r].any

\* ValidateAPIKey answers the same question outside a request.
ValidateAPIKey(k) == (plans.secret /\ k = Secret) \/ GetByKey(k) \/ Open

-----------------------------------------------------------------------------
(* Handlers. *)

\* A moment at which the key was valid, or everyone was let in, is remembered.
Witness(now) ==
    [r \in Requests |-> IF req[r].pc = "idle" THEN req[r]
                        ELSE [req[r] EXCEPT !.open = @ \/ (now = {} /\ ~plans.secret)]]

Running(r, op) == InStep(r, "run") /\ req[r].op = op

createAPIKey(r) ==
    /\ Running(r, "create")
    /\ \/ /\ issued' = issued + 1
          /\ keys' = keys \cup {issued + 1}
          /\ UNCHANGED plans
       \/ Fault /\ UNCHANGED <<keys, issued>>
    /\ To(r, "end")
    /\ UNCHANGED <<alog, stamp, wall, skipped, configVars>>

deleteAPIKey(r) ==
    /\ Running(r, "delete")
    /\ \/ /\ keys' = IF isAdminRequest(r) THEN keys \ {req[r].target} ELSE keys
          /\ UNCHANGED plans
       \/ isAdminRequest(r) /\ Fault /\ UNCHANGED keys
    /\ req' = [Witness(keys') EXCEPT ![r].pc = "end"]
    /\ UNCHANGED <<issued, alog, stamp, wall, skipped, configVars>>

\* Every other handler: nothing of what is modelled here changes.
OtherHandler(r) ==
    /\ Running(r, "get")
    /\ To(r, "end")
    /\ UNCHANGED <<keyVars, configVars, plans>>

EndRequest(r) ==
    /\ InStep(r, "end")
    /\ req' = [req EXCEPT ![r] = Quiet]
    /\ UNCHANGED <<keyVars, configVars, plans>>

-----------------------------------------------------------------------------
(* The configuration. *)

GetLatencyHistoryRenderLimit(g) == IF g.render <= 0 THEN DefaultGlobalConfig.render ELSE g.render

GetLatencyHistoryStorageLimit(g) == IF g.storage <= 0 THEN DefaultGlobalConfig.storage ELSE g.storage

Validate(g) ==
    /\ g.max >= 0
    /\ GetLatencyHistoryRenderLimit(g) <= GetLatencyHistoryStorageLimit(g)

\* Fields that are zero or negative get their defaults.
LoadGlobalConfig(g) ==
    [g EXCEPT !.max = IF @ <= 0 THEN DefaultGlobalConfig.max ELSE @,
              !.render = GetLatencyHistoryRenderLimit(g),
              !.storage = GetLatencyHistoryStorageLimit(g)]

Merge(g, set) ==
    [f \in Fields |-> IF f \in DOMAIN set /\ (f \in {"entry", "max"} => set[f] > 0) THEN set[f] ELSE g[f]]

\* Reading *a.globalConfig while another request assigns it may find any mixture.
Torn ==
    {[f \in Fields |-> IF f \in new THEN req[o].next[f] ELSE gcfg[f]] :
        o \in {x \in Requests : InStep(x, "assign")}, new \in SUBSET Fields}

Readable == {gcfg} \cup Torn

\* Two requests that change the configuration at a time; a mixture that was read is worse.
Crossed(g) ==
    IF g # gcfg \/ amiss = "torn" THEN "torn"
    ELSE IF \E o \in Requests : req[o].pc \in {"save", "assign", "store", "apply"} THEN "crossed"
    ELSE amiss

\* updateConfig: a copy is changed and validated.
CopyConfig(r) ==
    /\ Running(r, "config")
    /\ \E g \in Readable :
         LET next == Merge(g, req[r].set)
         IN  /\ req' = [req EXCEPT ![r].pc = IF Validate(next) THEN "save" ELSE "end", ![r].next = next]
             /\ amiss' = Crossed(g)
    /\ UNCHANGED <<keyVars, gcfg, gdisk, limit, ports, plans>>

\* Used as a fault: the copy is put in place before it is written.
AssignThenSave(r) ==
    /\ InStep(r, "save")
    /\ gcfg' = req[r].next
    /\ \/ gdisk' = req[r].next /\ To(r, "assign") /\ UNCHANGED plans
       \/ Fault /\ To(r, "end") /\ UNCHANGED gdisk
    /\ UNCHANGED <<keyVars, limit, ports, amiss>>

\* Used as a fault: the change is made once more, to what memory holds by then.
SaveMerged(r) ==
    /\ InStep(r, "save")
    /\ \/ gdisk' = Merge(gcfg, req[r].set) /\ To(r, "assign") /\ UNCHANGED plans
       \/ Fault /\ To(r, "end") /\ UNCHANGED gdisk
    /\ UNCHANGED <<keyVars, gcfg, limit, ports, amiss>>

SaveConfig(r) ==
    /\ InStep(r, "save")
    /\ \/ gdisk' = req[r].next /\ To(r, "assign") /\ UNCHANGED plans
       \/ Fault /\ To(r, "end") /\ UNCHANGED gdisk
    /\ UNCHANGED <<keyVars, gcfg, limit, ports, amiss>>

AssignConfig(r) ==
    /\ InStep(r, "assign")
    /\ gcfg' = req[r].next
    /\ To(r, "apply")
    /\ UNCHANGED <<keyVars, gdisk, limit, ports, amiss, plans>>

\* SetMaxRecords, then ReloadProxyPorts, which reads the configuration again.
ApplyConfig(r) ==
    /\ InStep(r, "apply")
    /\ limit' = IF "max" \in DOMAIN req[r].set /\ req[r].set["max"] > 0 THEN req[r].set["max"] ELSE limit
    /\ ports' = IF "ports" \in DOMAIN req[r].set THEN gcfg.ports ELSE ports
    /\ To(r, "end")
    /\ UNCHANGED <<keyVars, gcfg, gdisk, amiss, plans>>

\* In memory only.
updateEntryPath(r) ==
    /\ Running(r, "entry")
    /\ gcfg' = [gcfg EXCEPT !.entry = req[r].set["entry"]]
    /\ To(r, "end")
    /\ amiss' = Crossed(gcfg)
    /\ UNCHANGED <<keyVars, gdisk, limit, ports, plans>>

updateMaxSessionRecords(r) ==
    /\ Running(r, "max")
    /\ IF req[r].set["max"] <= 0 THEN To(r, "end") /\ UNCHANGED <<gcfg, amiss>>
       ELSE /\ gcfg' = [gcfg EXCEPT !.max = req[r].set["max"]]
            /\ To(r, "store")
            /\ amiss' = Crossed(gcfg)
    /\ UNCHANGED <<keyVars, gdisk, limit, ports, plans>>

\* A failure is only logged: the file keeps what it had.
StoreMaxRecords(r) ==
    /\ InStep(r, "store")
    /\ \/ \E g \in Readable : gdisk' = g /\ amiss' = (IF g # gcfg THEN "torn" ELSE amiss) /\ UNCHANGED plans
       \/ Fault /\ UNCHANGED gdisk /\ amiss' = (IF amiss = "" THEN "unsaved" ELSE amiss)
    /\ To(r, "apply")
    /\ UNCHANGED <<keyVars, gcfg, limit, ports>>

\* The process ends, whatever it was doing, and starts again; a configuration that is not
\* valid ends it for good.
RestartProcess ==
    LET loaded == LoadGlobalConfig(gdisk)
    IN  /\ plans.restarts > 0
        /\ Validate(loaded)
        /\ plans' = [plans EXCEPT !.restarts = @ - 1]
        /\ req' = [r \in Requests |-> Quiet]
        /\ stamp' = [r \in Requests |-> NoTime]
        /\ skipped' = skipped + Cardinality({r \in Requests : req[r].pc \in {"touch", "count", "trim"}})
        /\ gcfg' = loaded
        /\ limit' = loaded.max
        /\ ports' = loaded.ports
        /\ amiss' = ""
        /\ UNCHANGED <<keys, issued, alog, wall, gdisk>>

APINext ==
    \/ \E r \in Requests :
         \/ \E q \in plans.todo : Arrive(r, q)
         \/ ConfigKey(r) \/ ListKeys(r) \/ LookUpKey(r)
         \/ TakeTime(r) \/ LogInsert(r) \/ LogTouch(r) \/ cleanupLogs(r) \/ deleteOldestLogs(r)
         \/ createAPIKey(r) \/ deleteAPIKey(r) \/ OtherHandler(r) \/ EndRequest(r)
         \/ CopyConfig(r) \/ SaveConfig(r) \/ AssignConfig(r) \/ ApplyConfig(r)
         \/ updateEntryPath(r) \/ updateMaxSessionRecords(r) \/ StoreMaxRecords(r)
    \/ RestartProcess
    \/ \E n \in 1..plans.falls : ClockFalls(n)

APISpec == APIInit /\ [][APINext]_apiVars

-----------------------------------------------------------------------------
(* Properties. *)

Handling == {"run", "save", "assign", "store", "apply"}

\* A handler runs only for a request whose key was valid when it arrived, or during which
\* there was a moment without any key: no overlap of authMiddleware, which looks at the
\* table twice, with keys being created and deleted lets in a key that was revoked.
NoEntryWithoutKey ==
    \A r \in Requests : req[r].pc \in Handling => req[r].good \/ req[r].open

\* The access log never holds more than its maximum, one row for each request that is still
\* logging, and one for each trimming that failed (LogAccess inserts first, then counts,
\* then deletes).
AccessLogBounded ==
    Len(alog) <= MaxLog + skipped + Cardinality({r \in Requests : req[r].pc \in {"touch", "count", "trim"}})

\* Requests that log and trim at the same time may delete too much, but never the wrong end:
\* a row that is still there was not yet written when the request of a deleted row took its
\* time, so no request loses its row to one that had been logged before it came.  Rows
\* whose time was taken before the clock was set back may outlive later ones (the timestamp
\* is a text of local time), and rows of requests that overlap may go in either order (the
\* time is taken before the insert gets the connection).
LogKeepsNewest ==
    \A i \in 1..Len(alog), g \in wall.gone : alog[i].nth > wall.turned => alog[i].by >= g

\* The program can be started with the configuration the API left behind (main exits when
\* the limits of the latency history do not fit each other), even when requests overlapped,
\* each validated its own copy and the process ended between two steps, unless one request
\* read the configuration while another assigned it.
StartsAgain ==
    amiss # "torn" => LET g == LoadGlobalConfig(gdisk) IN g.render <= g.storage /\ g.max > 0

\* When no request is being served, what runs, what config.json says and what memory holds
\* agree, whatever failed or whenever the process ended, unless requests that change the
\* configuration overlapped or a failed write was ignored.  The entry path may differ:
\* updateEntryPath does not save it.
ConfigAgrees ==
    Busy = {} /\ amiss = "" =>
        /\ LoadGlobalConfig([gdisk EXCEPT !.entry = 1]) = LoadGlobalConfig([gcfg EXCEPT !.entry = 1])
        /\ limit = LoadGlobalConfig(gcfg).max
        /\ ports = gcfg.ports

\* The API opens to keys only, its log stays within its limit, and the configuration it
\* writes can be read again and says what is in force.
APIInv == NoEntryWithoutKey /\ AccessLogBounded /\ LogKeepsNewest /\ StartsAgain /\ ConfigAgrees
=============================================================================
