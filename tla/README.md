# Verification of mcpeserverproxy

TLA+ models of the proxy, checked with TLC and, for its core, proved with TLAPS.
The models are translated from `internal/`; comments in the modules name the
function each action stands for, and PROJECT.json gives the lines.

    tlc -workers 2 -config SessionManager_safety.cfg MCSessionManager
    tlapm SessionManagerProofs.tla

## 1. The system

mcpeserverproxy forwards Minecraft Bedrock clients to remote servers. Each
configured server has a listener (transparent UDP, raw UDP, passthrough, RakNet,
MITM, plain UDP or TCP); connections to the remote side are made directly or
through outbound nodes, which are sing-box instances created on demand.

| Component | State | Operations | Talks to |
|---|---|---|---|
| Session manager (`session/`) | `sessions` by client address, each session's `LastSeen`, `RemoteConn`, forward lock | GetOrCreate, Remove, RemoveByID, RemoveByPlayerName, RemoveByXUID, UpdateActivity, GarbageCollect, CleanupNow | `OnSessionEnd` hands every removed session to persistence |
| Transparent listener, forwarder (`proxy/listener.go`, `forwarder.go`) | packet queue, workers, `closed` | read a packet, look up or create the session, dial, forward, receive from the remote side | session manager, node selection |
| Raw UDP proxy (`proxy/raw_udp_proxy.go`) | `clients` by address, each with socket, forwarder, fragments of its Login, byte counters | read, dial, check the Login, forward, kick, idle cleanup, Stop | session manager, ACL, verifier |
| Passthrough, RakNet, MITM, plain TCP and UDP proxies | `activeConns` or `clients`, a handler and two loops per connection | accept, Login, dial with retries, relay, kick, pong refresh, Stop | session manager, ACL, verifier, Xbox sign-in |
| ProxyServer (`proxy/proxy.go`) | `listeners` by server, udp_speeder processes, background workers | Start, Stop, Reload, start / stop / reload of one server, KickPlayer, persistSession | everything |
| Latency probes (`proxy/proxy.go`, `outbound_latency_history.go`, `api/server_latency_history.go`) | latencies, scan times, histories | rounds, full and partial scans, topology refreshes, dashboard pings | outbound manager, node selection |
| Persistence (`db/`, `errors/`) | SQLite tables of sessions and players, `maxRecords` | Create with Cleanup, lookup, create and update of a player, deletions, RetryOperation | called by persistSession and by API handlers |
| Outbound manager, instances (`proxy/outbound_manager.go`) | `outbounds`, `singboxOutbounds`, last use, connection counts, health, a singleflight group | DialPacketConn, recreate, Add / Update / Delete / Reload, idle cleanup, CheckHealth, Stop | sing-box factory; called by every dial, the API, reloads |
| Outbound manager, selection (same file, `load_balancer.go`, `proxy_dialer.go`) | latencies and pinned node per server, manual flag, round-robin index | SelectOutboundWithFailoverForServer, failover, SetServerSelectedNode(Manual) | reads bans from the server configuration |
| Configuration managers (`config/`) | maps and JSON files, watchers | get, add, update, delete, reload, save | change callbacks into ProxyServer |
| Proxy ports (`proxy/proxy_ports.go`) | a listener per port, a pool of dialers | Start, Reload, Stop, connections | node selection |
| Subscriptions (`subscription/`) | subscriptions, last results and attempts | fetch, parse, replace nodes, sync, schedule | outbound configuration and manager, servers |
| ACL (`acl/`), authentication (`auth/`) | lists, settings; verifier cache, Xbox token | check a login, edit lists, purge, verify, sign in | database, external services |
| API (`api/`) | keys, access log, global configuration, batches of tests | requests | all of the above |

What is hard here: many goroutines (packet workers, one receiver per session or
client, collectors, HTTP handlers, ping workers, configuration watchers) share
maps under short locks, and nearly every operation releases its lock between
deciding and acting. Database statements, saves, dials and sign-ins fail and some
are retried. Shutdown overlaps with packets and requests in flight. Tables keyed by
client address outlive the connections they were made for. What makes each part
correct:

* sessions: one per client, dialled once, removed once, persisted once, and
  eventually removed when silent;
* persistence: a session is recorded and counted exactly once in spite of
  retries, and the history stays within `max_session_records`;
* listeners' clients: no dead entry swallows packets, no socket or session is left
  behind, a refused Login does not get through, kicks and Stop take effect;
* servers and ports: a listener for each enabled entry, none after Stop, no process
  left over, memory and file in agreement, no edit lost;
* instances: none lost, none closed twice, none closed under a connection by the
  idle cleanup, no dial waiting for ever;
* selection and probes: bans hold, pins and latencies are weighed as documented,
  every node is measured in the end, limits of parallelism are neither exceeded nor
  lost;
* subscriptions: an update keeps the identity of its nodes, touches nobody else's
  and never empties a subscription; the running map follows the configuration;
* access: a ban reaches players already in, only a request lifts it, an error keeps
  nobody out; the API opens to its keys only, and what it saves can be read again.

## 2. The modules

| Module | Models | Proofs |
|---|---|---|
| `SessionLife` | abstract: what the session manager promises | refined by `SessionManager` |
| `SessionManager` | session manager, packet workers, receivers, collector, API removals, KickPlayer, Stop | `SessionManagerProofs` |
| `SessionPersistence` | persistSession on the repositories, statement by statement | `SessionPersistenceProofs` |
| `OutboundCache` | instance cache, dials and every management operation | `OutboundCacheProofs` |
| `NodeSelection` | selection, load balancer, failover, automatic and manual switch, bans | `NodeSelectionProofs` |
| `RawUDPClients` | clients of the raw UDP proxy at one address | `ForwardingProofs` |
| `StreamProxies` | passthrough, RakNet, MITM and TCP connections | `ForwardingProofs` |
| `PlainUDPClients` | client table of the plain UDP proxy | `ForwardingProofs` |
| `ServerLifecycle` | server configuration, file, watcher, listeners, udp_speeder, requests | `LifecycleProofs` |
| `ProxyPorts` | port configuration, requests, port listeners, connections, dialers | `LifecycleProofs` |
| `Subscriptions` | updates, scheduler, outbound configuration, running map, cascade | `SubscriptionsProofs` |
| `SubscriptionContent` | parsers and validation of nodes, as operators | `OutboundCacheProofs` |
| `AccessControl` | lists, settings, checks at login, bans and kicks | `AccessProofs` |
| `Authentication` | verifier cache; Xbox sign-in and token file | `AccessProofs` |
| `APIAccess` | API keys, access log, global configuration | `AccessProofs` |
| `LatencyHistory`, `AutoPing` | histories; rounds, scans and refreshes (`AutoPing` extends the former) | `LifecycleProofs` |
| `BatchTests` | batches of node tests under shared limiters | `NodeSelectionProofs` |

`MC*` modules give the constants of the instances and put together parts that are
checked in one run: `MCStreamProxies` (streams or plain UDP), `MCServerLifecycle`
(servers or ports), `MCOutbounds` (subscriptions, parsing or the instance cache),
`MCAccess` (lists, authentication or API), `MCProbes` (probes or batches). The
parts of such a run share no state; a behaviour is one of one part, the others
staying in a state in which none of their fair actions is enabled. Operators whose
comment starts with "Fault:" or "Used as a fault" are mutated forms of a
definition; nothing in the specifications uses them. There is one for every part of
every property, and each was seen to break that part.

### SessionManager

`table` is `sm.sessions`; `info`, `age`, `conn`, `recv`, `fwd` are the fields of a
session; `wk` is the program counter of a packet worker in `handlePacket`; `rm`
is what a goroutine inside a removal still has to do. A removal is split where
the code releases `sm.mu`: the session leaves the table (`RemoveAddr`,
`RemoveByID`, `RemoveByPlayer`, `StopSnapshot`), its socket is closed
(`CloseRemote`), `OnSessionEnd` is called (`SessionEnd`). The collector first
scans under the read lock (`CollectIdle`) and then removes address by address.
GetOrCreate is `Lookup` under the read lock and `FindAgain` or `Create` under the
write lock. Time is the age of `LastSeen`, advanced by `Tick` and saturating.
Payloads are left out; a packet may identify the player.

### SessionPersistence

An ender is a goroutine inside `persistSession`; `pc` is the next statement.
The database has one connection, so a statement is a step and may fail, at most
`MaxFaults` times. `counted[s]` says how often the bytes and play time of `s`
went into its player's row, which is all that matters of a sum; `erased` are rows
that a cleanup or the operator took away. The operator changes the limit (which
cleans up, in an ender), deletes players and history.

### OutboundCache

A section under `m.mu` is a step; creating an instance, opening a packet
connection and closing are steps between. `flight` is the singleflight group:
the dialer that runs the call for a name, the others being in `"wait"`. `hold` is
an instance in a dialer's hands. `cfg[n].rt`, with the name, identifies the
runtime state that clones of a configuration share: connection counts and health
belong to it, not to the name. Instances are used once; one attempt of
`dialWithRetry` is modelled, a further one being a further dial.

### NodeSelection

One server (or proxy port) with a selector of several names. A selection reads
bans, manual flag, best node and pin one after another (`ReadBans` ... `UsePinned`)
and then selects under `m.mu` (`Select`); `tried` is `excludedNodes`. The ping
worker reads the best node, then the pin, the sessions and the dwell time, then
sets the pin. `MaxChanges` bounds what the operator, the network and the clock
do. Latencies are milliseconds from `Lats`, 0 for none; thresholds are those of
`autoSwitchMinLatencyGainMs` and `autoSwitchMinRelativeGain`.

### RawUDPClients

One client address. `tab` is the client in `p.clients`, `cl` all client objects,
`lp` the Listen loop, `kp` the ticker of `cleanupInactiveClients`. A Login comes in
fragments, reordered and repeated; `sent` are those that reached the target. Other split
packets come between them: `older` and `newer` count their buffers from before and after
the Login's, of which there is room for `MaxSplits` (`MaxSplitPacketsPerClient`); at the
limit the stale ones go, or the oldest. A Login may have too many parts or too many bytes
(`quota.size`), which drops what was kept of it. `lost` remembers that fragments which had
been forwarded were not kept. `up`,
`credit` and the CAS of `syncBytesUpToSession` count upload bytes in packets; the
download counter works alike. Whoever took a client out of the table finalizes it
(`fin`). The session of the address (`sess`) is none, anonymous or named.

### StreamProxies, PlainUDPClients

A behaviour of `StreamProxies` has one kind of listener and a few connections of
one player from one or two addresses; `conn[c].pc` is the handler, with the state
of both sides, of the two loops, the checks and the session. `active` is
`activeConns`, keyed by address in the RakNet proxy. `halt` is Stop, from
`ProxyServer.Stop`, which has cancelled the context, or from `stopListener`, which
has not. What is relayed is left out. `PlainUDPClients` is the client table of
one address with its Listen loop, forwarders and Stop.

### ServerLifecycle, ProxyPorts

`mem` and `file` are the configuration, `table` the listeners, `speeders` the
udp_speeder processes; requests, the watcher's Reload and Start are processes that
take `cm.mu` and `listenersMu` one after the other. Of an entry the model keeps
what decides the kind of listener, its address and its marks (banned nodes,
hidden). Saves, binds, processes and kills may fail. The histories in `ghost` name
the exceptions the properties make, for instance a start made from a copy of an
entry that has changed since (`astray`). In `ProxyPorts` every listener is an
object (`gen`) that its connections outlive; Stop holds `m.mu` while it waits. A reload
reads the feature flag when it begins, stops, and starts with what it has read. A save of
the ports may fail: the map is changed and the handler returns without a reload.
updateConfig copies the whole configuration and writes it back later, the flag with it.

### Subscriptions, SubscriptionContent

`conf` is the outbound configuration, `file` its saved copy, `rt` the map the proxies
dial through, `server` what a server refers to. A job is a request or the scheduler
and takes the locks of the maps one after the other. An update reads the present
nodes, fetches, makes names, replaces its nodes in `conf` and then syncs `rt` node by
node. `PreparedUpTo` is the loop that makes the names, twice through the body: first
the nodes that exist, then the new ones. A handler that updates all subscriptions
writes back the time it took before each fetch, the others the time after it
(`UpdatedAt`). Five ghosts record what the properties make an exception of: that
requests overlapped or a save failed since the last clean reload (`astray`) or at any
time (`strayed`), which updates had their nodes changed while they prepared the next
ones (`disturbed`), which subscriptions were renamed or deleted under an update
(`split`) and what went away without a cascade (`loose`). What a behaviour begins with
is a plan (`PlanOK`): requests that have not started, an outbound map whose nodes are
the user's or of a subscription that exists, a server that refers to what there is.

`SubscriptionContent` has the parsers of links, scheme by scheme, and of Clash entries
as operators on records of the fields they look at, and validation, and
`ComputeSourceKey` with every field that `computeSourceKey` hashes (fields that all
parsers treat alike share one: see section 6); `AsClash` writes an entry in the other
form, and `FormsDiffer` names the fields in which the parsers part. The loop that keeps
what was parsed is a recursive function on the entries, so that it can be reasoned
about.

### AccessControl, Authentication, APIAccess

A check reads settings, blacklist and whitelist one lookup at a time, any of which may
fail, and begins with a purge of expired entries. An expiry has the zone it was sent
in and the program its own (`plan.local`): checks compare instants, the purge the
texts (`ReadsPast`). A table is a function from ids to rows; ids are given in order
and never again (`ids`), and a lookup finds the row with the smallest. Rows carry who
wrote them, whether the kicks that follow a ban are done, and whether they were the
only one of their name and scope when they were inserted (`by`, `told`, `sole`).
`Authentication` has the cache of the verifier over a clock, and goroutines that sign
in, replace the token in memory and in its file and may fail, also for a network
error, or be cut off by a restart. `APIAccess` has requests that pass the key check
and the access log statement by statement and edit an unprotected `GlobalConfig`; a
log row carries the time its request took before the insert (`TakeTime`), the log is
kept in the order of these texts and the clock may be set back (`ClockFalls`); the
process may end between any two steps and reads `config.json` again.

### LatencyHistory, AutoPing, BatchTests

The scheduler's round and the topology worker's refresh choose targets and nodes
(`selectTargets`, bootstrap position, daily and interval scans), probe them under two
limits and record the results in the histories, beside dashboard pings. The nodes of a
target are worked out again in every round (`nodeNames`): those it lists and that are
usable, in that order, or those of a group, in any order, as `GetOutboundsByGroup`
ranges over a map; outbounds are switched on and off in between. The clock counts
units of the shortest interval. Three variables only record what happened: `late` (a
series that took a sample older than its newest one, until it starts anew), `served`
(the last answer, and whether its series was in order then) and `boots` (the bootstrap
scans of a target since they last covered all nodes). Settings are those
GlobalConfig.Validate accepts. `BatchTests` has a producer, workers, two token
channels shared between batches, the channel of results and a client that may leave.

## 3. What TLC checks

Deadlock checking is off in all runs: clients, callers, dialers and operators may
all stop wanting anything, and behaviours have bounded numbers of requests, faults,
uuids or instances.

| Run | Instance | States | Shows |
|---|---|---|---|
| `session_safety` | 1 address, 2 workers, 1 caller, collector, 2 uuids | 0.10 M | `Custody`: a session is live, or held by one remover, or ended once; `DialsOnce`; `LifeSpec`, the refinement |
| `session_liveness` | 1 worker, 1 caller, collector, Stop | 0.39 M | `SessionsEnd`: silent, kicked and removed sessions end; `StopReturns` |
| `persist` | 4 sessions, 2 enders, 2 failures, 2 attempts, deletions | 0.88 M | `CountedOnce`, `HistoryBounded`, `RecordSurvives`, `AllCounted` |
| `cache_safety` | 1 node, 2 dialers, 2 instances, all operations | 0.74 M | `Custody`, `FlightLed`, `CountExact`, `CleanupSparesActive` |
| `node_selection` | a node and "direct", 4 strategies, 4 latencies, 3 changes | 2.3 M | `BanRespected`, `BestNotPassedOver`, `RotationAdvances`, `NoNodeTwice` |
| `outbounds` | every two of 14 requests, faults, the scheduler over 3 half days; some 17 000 bodies; 2 dialers | 0.19 M | `SubsInv`, `UpdatesKeep`, `ScheduleKept`; `ParsersInv`; `CacheSettles` |
| `raw_udp` | 2 clients of an address, 2 fragments, 2 buffers, a Login that fits or is too large | 0.85 M | `RawInv`, `DeniedWithheld`, `ClientsSettle` |
| `streams` | 4 protocols and plain UDP, 2 connections, 2 kinds of Stop | 0.48 M | `StreamInv`, `PlainInv`, `ListenersEnd` |
| `lifecycle` | 2 servers or 2 ports, 2 requests, edits, a fault, Stop | 0.53 M | `LifeInv`, `MarksKept`, `PortsInv`, `ManagersSettle` |
| `access` | 1 player, 2 servers, every two list requests; 2 zones; 2 verifications, 3 sign-ins; every two edits, a clock set back | 0.75 M | `ListsInv`, `ListsChange`, `AuthInv`, `APIInv` |
| `probes` | a server and a port, 2 nodes and "direct", listed or in a group, 4 units of time; 2 batches | 0.31 M | `ProbesInv`, `ScansKept`, `BatchInv`, `ProbesEnd` |
| `interval_full_scan` | a server with full scans at an interval | | violated: `IntervalScans` |

A property whose name ends in `Inv`, `Kept`, `End`, `Keep`, `Change` or `Settle(s)`
is a conjunction of named parts, each stated with its exceptions in the module:

| Property | Parts |
|---|---|
| `RawInv` | `Attended`: a client in the table has an open socket and somebody who will remove it, an open socket has an owner; `CreditOnce` |
| `ClientsSettle` | `SilentReaped`, `LoggedInVisible`: a player who stays is listed again and again whoever removes his session; `StopReleases` |
| `StreamInv` | `RefusedKeptOut`, `NoGhostSession`, `PlayerListed` |
| `PlainInv` | `SocketOwned` |
| `ListenersEnd` | `BothSidesEnd`, `KickedLeaves`, `StopOnlyWaitsForTCP`, `PlainStopEnds` |
| `LifeInv` | `ListenersFollow`, `NoOrphanProcess`, `FileFollows`, `NoneAfterStop` |
| `PortsInv` | `PortsFollow`, `AddrsUnique`, `AuthFirst`, `DialersClosed` |
| `ManagersSettle` | `Settles`: a reload does not feed on itself; `PortsStopReturns` |
| `SubsInv` | `RuntimeFollows`, `NoOrphans`, `CascadeClean` |
| `UpdatesKeep` | `ForeignKept`, `IdentityKept`, `NeverEmptied` |
| `ScheduleKept` | `AttemptsSpaced`, `DueIsTried`, `RequestsEnd` |
| `ParsersInv` | `FormsAgree`: a link and the Clash entry for it are kept alike, and give the same source key exactly when `FormsDiffer` does not hold; `OneBadEntryIsDropped` |
| `CacheSettles` | `DialReturns`, `OrphanReaped` |
| `ListsInv` | `BannedStaysOut`, `CheckMatchesLists`, `FailsOpen` |
| `ListsChange` | `ScopesIndependent`, `LiftedMeansLifted`, `OnlyRequestsLift` |
| `AuthInv` | `Vouched`, `DenialIsFresh`, `SignInsSurviveRaces` |
| `APIInv` | `NoEntryWithoutKey`, `AccessLogBounded`, `LogKeepsNewest`, `StartsAgain`, `ConfigAgrees` |
| `ProbesInv` | `SeriesSpaced`, `NoEcho`, `ServedIsCurrent`, `ProbesLimited`, `BootstrapReachesAll` |
| `ScansKept` | `ScanComparesNodes`, `DailyScanOnce`, `DeletedHistoryGone` |
| `BatchInv` | `PermitsExact`, `ResponseComplete` |
| `ProbesEnd` | `RoundsEnd`, `RequestsServed`, `BatchEnds` |

Why the bounds are enough. Every race of the session manager and of the raw UDP
proxy is about one client address; two workers and two uuids, or two client
objects, and each kind of remover produce all pairs of racing operations, including
a second session or client at the address of the first. The races of persistence
are between statements of two goroutines; two failures with two attempts exhaust a
retry. Names in the outbound manager do not interact except in `Reload`, which
treats each alike; two dialers are a leader and a waiter, and two instances allow
one recreation or one replacement. The latencies of `node_selection` are none, two
too close to switch for (50 and 53) and one far off (70); three changes allow a
ban, a pin and a measurement within one selection.

The newer modules take their bounds from a set of loads or plans, of which a
behaviour has one (`Loads`, `StreamLoads`, `LifeLoads`, `PortLoads`, `Plans`,
`AccessPlans`, `AuthPlans`, `APIPlans`, `PingPlans`, `BatchPlans`). A plan names the
requests, faults, clock ticks and kicks that may happen: the pairs of requests that
touch the same entry are enumerated in full, three at a time where a sequence needs
three (ban, disable, enable), and faults are one where one failure decides the
outcome. Two connections are enough for one handler to meet what another of the
same address left behind; the load decides whether they share the address. Counters
that only grow (`MaxGen`, `MaxTime`, `PlainReads`, `MaxLog`) are capped where the
next value shows nothing new.

Fairness. Packet workers, removers, receivers, enders, dialers, Listen loops,
forwarders, handlers, requests that have begun, the scheduler, rounds and batch
workers are goroutines that the Go scheduler runs as long as they can; WF of their
steps says no more, in particular nothing about new packets, connections, dials,
requests or kicks. Mutexes and `RWMutex` do not starve. `CollectIdle`, `Cleanup`,
the raw UDP ticker, `Tick`, `GrowIdle` and the advance of the clock stand for
tickers and for time. Dials, fetches and probes end because they have timeouts;
sockets are closed, which ends a blocked read. The RakNet library times out
connections whose listener is closed. A relay is not assumed to end while both its
sides are up. Nothing is assumed fair in `NodeSelection`, `AccessControl`,
`Authentication` and `APIAccess`, of which only safety is checked.

## 4. Where the code and its comments part

Shown by a run: full scans in interval mode never take place, since the interval
is counted from the last full scan and a scan that has never been made is not due
(`interval_full_scan`).

Stated in the modules, refuted by TLC when checked with the run's instance, and not
carried as a run:

* `GCRemovesOnlyIdle` (SessionManager): the collector removes, by address, sessions
  that were idle when it scanned; one may have been heard from, or replaced, since.
* `EndedReleasesSocket` (SessionManager): a session removed between GetOrCreate and
  its dial gets a socket that no removal closes.
* `CacheCurrent` (OutboundCache): an instance of an old configuration is cached
  after an update that came while it was created.
* `PostedIsInForce` (AccessControl): a ban posted again on the global list does not
  update the entry, as the comment in blacklist_repository.go says, but becomes a
  second row, since SQLite finds no conflict between NULLs; lookups return the
  first, so a ban repeated after it was disabled has no effect, and a purge may
  bring a twin into force.
* `TrendAccrues` (LatencyHistory): polls at short distance keep replacing the newest
  sample, so a trend does not grow (server_latency_history.go, comment at 394).

Met while modelling; the properties name the exception.

*Sessions and persistence.* `Stop` persists a snapshot of the sessions; a worker
that passed the `closed` check before may create one after it, which is never
persisted. The session table has no server in its key: a client that uses one UDP
port for two listeners has its packets forwarded to the server of the first. Two
first sessions of a player that end together: one loses its totals (`AllCounted`
is stated for players who had a row). A failing player lookup is treated as "no
player" with the same effect. Two `Cleanup`s that count before either deletes
together delete too much. The oldest rows are those that started first.

*Instances and selection.* `UpdateOutbound` with a fresh configuration from the API
starts a new runtime state: open connections are no longer counted and the idle
cleanup may close their instance. A dial that stores its instance after the
manager's `Stop` leaves it open. `reloadProxyOutbounds` calls `UpdateOutbound` for
every node still configured, changed or not, and so closes instances in use; its
comment says it "only updates runtime state like latency". The round-robin index
belongs to the group, not to the server. "direct" in a list counts no connections,
so least-connections prefers it as soon as the nodes before it have one. The manual
flag is read before the pin: an automatic switch in between has its pin honoured
once by a round-robin selection.

*Raw UDP.* A client stored after Stop's Range and kicked by its first datagram keeps
its socket. The end of an earlier client of the address removes the new client's
session, and ensureSession does not make it again; only players who have logged in
get it back. The idle cleanup removes by key what it judged earlier. Fragments are
forwarded as they come; when those kept are dropped as stale, pushed out by newer split
packets at `MaxSplitPacketsPerClient`, or over the limits of parts or bytes, the Login has
reached the target before it is judged, or is not judged at all (`DeniedWithheld` excludes
them with `lost`). `atomicMaxUint24` does not end past 2^24. Stop removes sessions without
crediting their last bytes.

*Streams.* RakNet's activeConns is keyed by address, so a refusal may find no
connection to close, and the Login has been forwarded before it is judged. MITM
never removes its session; RakNet leaves it when the dial fails, passthrough when
the Login cannot be written. Removal by address may take a newer session. Logins
without a name skip the list and the verifier. `stopListener` does not cancel the
context, so the Listen goroutine of passthrough and RakNet ends with
`ProxyServer.Stop` only. RakNet's Stop closes no connections and waits for library
timeouts with `listenersMu` held; a TCP relay's Stop waits for a target that ignores
the half-close. The plain UDP proxy's Stop deletes by key and may leave a newer
client's socket open.

*Servers.* The watcher watches an inode: the atomic rename of the first save by the
API leaves it deaf on Linux (loads with `survives = FALSE`). ReloadServer,
updateServer and deleteServer act on copies that may be stale. An update that
changes the id leaves the old listener and may overwrite another entry. A Reload
with a changed listen address and the same kind only calls UpdateConfig. Servers
with udp_speeder are restarted at every Reload. A listener whose Listen failed
(combined) or whose process could not be killed stays "running". A failed save
leaves memory changed. A start or Reload that saw the server running before Stop
may start a listener after it. Handlers that copy, change and write back lose one of
two concurrent bans; `MarksKept` says that nothing else loses one.

*Ports.* ReloadProxyPorts reads the feature flag on entry and starts with it later, so one
that began before the feature was switched off may start the ports after the switch has
finished; a save that fails has changed the map, and the handler returns before the
reload; updateConfig writes the flag it copied back with whatever else was edited.
`PortsFollow` excepts these until the next reload (`astray`). SOCKS4 is never asked for a
password. Stop holds `m.mu` waiting for relays
nobody ends. Connections of replaced listeners can open dialers again after the
pool was closed; dialers of changed nodes stay open until Stop.

*Subscriptions.* An update enables and unblocks every node again. An edit by the API
drops the subscription of a node, and the next update brings a second one under
another name. An update that runs during a deletion or a change of id leaves
nodes without a subscription. The configuration renames onto an existing name, the
running map refuses. After two concurrent updates, or a failed save, the maps may
differ until the file is loaded. Results are written back from an old copy of the
entry. In interval mode a subscription never attempted is never due. An update of all that
began before the scheduler's attempt writes its earlier time over the mark, and the
scheduler tries again the same day (`AttemptsSpaced` excepts it); an attempt whose mark
cannot be saved is not made, and counts as made until the file is read again. The parsers
of links and of Clash items differ in the SNI and the path that are not given, in ALPN,
fingerprint and TLS settings that some kinds of links do not have, in the idle session
settings of anytls and in what a vmess link says of gRPC: a proxy with one of these gets
another source key when its provider changes the form, and with it loses its name and its
test results. `FormsAgree` says that it does exactly then. Unknown transports are read
differently too; `Described` leaves them out.

*Access.* `expires_at < ?` compares texts: the expiry as it was sent (the dashboard
sends UTC) with the local time of the program. East of UTC the purge deletes a ban that
is still in force, by as much as the zones differ; west of it an expired one stays in
the table, where checks disregard it. `OnlyRequestsLift` is stated for expiries that
were not sent in a zone west of the program's. Passthrough uses the decision of a check
that failed, where its comment (passthrough_proxy.go:1425) says access is allowed;
`FailsOpen` excludes it. A padded name is stored trimmed and kicked untrimmed. A ban
kicks on all servers whatever its scope, also when it is disabled or expired; RakNet,
plain UDP and wrapped listeners have no KickPlayer; enabling the blacklist kicks nobody.
Players without XUID share a verifier cache entry. A failed re-authentication leaves no
token, and later connections sign in without; a second one that fails can undo the
first's success. Any failure of the first refresh removes the token file. Concurrent
changes of the global configuration may save a mixture that the program refuses to start
from (`amiss`). Deleting the last key opens the API. A row of the access log has the
local time its request took before the insert got the only connection: of requests that
overlap a later row may be trimmed before an earlier one, and after the clock was set
back the newest rows are. `LogKeepsNewest` says what is left: no row goes in favour of
one that had been written before its request took its time.

*Probes.* A partial scan of a server whose other nodes have no latency probes the
selected node only. The bootstrap rotation goes by position, and the nodes of a group
come in another order in each round, so it may probe a node again and leave another out
for any number of rounds; `BootstrapReachesAll` is stated for targets that list their
nodes. A topology refresh starts with empty maps of switch times, so it never leaves a
node with a known latency, and takes its time before the probes end, so late samples may
replace newer ones. A test that succeeds within a millisecond is kept as 0, the latency
of a failure. A ping under way revives the series of a deleted server. Giving up a batch
marks the nodes under test as failed.

## 5. What is proved

All theorems hold for every value of the constants that satisfies the assumptions
named in the modules, and TLC evaluates those on each instance. They say that
identifiers are distinct, timeouts, retries and bounds are positive, a selector has
a node and a Login a fragment; that a process has finitely many goroutines, ports,
requests and batches (wherever something is counted); that requests are well formed
once they are decoded; and that the first configuration is one that Load accepted,
as Load refuses the others. The bounds of a behaviour (loads, plans) are any.

Each invariant of a run is proved from an inductive one, which was checked by TLC
before it was proved. What the property itself lacks is mostly the same: it speaks
of states at rest, or of what a step left behind, and the invariant has to say at
every place of every goroutine who still owes what.

**SessionManagerProofs.** `TypeCorrect`, `CustodyHolds`, `ImplementsLife`,
`DialsOnceHolds`. The inductive invariant is `Shape` (types, and every reference a
goroutine keeps is to a session that was created) with `Custody`. Each step is
first shown to be of one of five kinds: neutral, opening a session, taking
sessions out, closing, ending; `Custody` and the step simulation of `SessionLife`
are then proved per kind and not per action. `DialsOnce` needs `DialInv`: a
session that is not created, or whose creator has not dialled, has no socket, and
no second worker is between creation and dial.

**SessionPersistenceProofs.** `TypeCorrect`, `CountedOnceHolds`, `HistoryIsBounded`,
`RecordsSurvive`, `AllAreCounted`. `CountedOnce` alone says nothing about the counter
before an update; `Unpaid` adds that a session that is active or in an ender's hands
is not counted and is in one pair of hands. The others rest on `Owed`: a table that
is too long has an ender who will count (`Cleaned`) or who has counted enough of it
to delete, a missing record an ender whose attempts at the insert are not used up
(`Recorded`), an uncounted session an ender before its update (`Tallied`).
`OldestLeave` is the fact about the cleanup's statement: deleting the n oldest rows
of a table with at most n too many leaves no more than the limit.

**OutboundCacheProofs.** `TypeCorrect`, `CustodyHolds`, `FlightIsLed`, `CountIsExact`,
`CleanupSpares`. `Hands` says when a dialer holds an instance (between Take and Close,
between Create and Store); without it a creation could overwrite one in hand. Every
step is a kind of transfer between cache, hands and "closed". `Led` ties a flight to
its leader in both directions; the count is proved as the cardinality of the set of
dialers with a connection of that runtime state; `Known` says whose instance a dialer
has got and not counted yet, which is what a cleanup must spare.

The same module proves `ParsersHold` (`ParsersInv`) of `SubscriptionContent`, from
`ContentAssumption` (the fields of an entry have their types) alone. Keys are equal when
all fields but the pinned certificate are (`KeysAre`), and outbounds that differ at most in
the fields the forms may read differently (`Loose`) validate alike (`ValidAlike`). Both
parsers are brought to the same shape, a bare outbound to which REALITY and a transport are
added (`Shielded`, `Moved`): the bare ones agree protocol by protocol but for the fields of
`Equipped` (`VmessAlike` to `HTTPAlike`), the transports but for those of `Routed`, and
each of these differences makes the keys differ, one disjunct of `FormsDiffer` each.
That the loop keeps nothing it should drop is an induction over the body
(`Reaches`, `FilterSound`).

**SubscriptionsProofs.** `SubsHold` (`SubsInv`) and `UpdatesHold` (`UpdatesKeep`), for any
number of requests, from `SubInvariant`. `RuntimeFollows`, `NoOrphans` and `CascadeClean`
speak of rest, and a request leaves the maps apart from its first step to its last, so
the invariant says how far apart. `SubTypes` has, besides types, what a request carries
at each step, for instance that the list of an update is not empty and names every node
once. `Follow`: as long as nothing went astray one request runs at a time, and `Stands`
names, per step, all names on which `rt` still differs from `conf` (`Pending` for an
update or a reload, `Renaming` for an edit). `Referred`: a server refers to what there
is, or to what the cascade that runs is about to take away; it needs `Follow`, since a
cascade decides from `rt`. `Orphans`: while an update of a subscription that is not
`split` runs, its entry stays and nobody deletes it, and a deletion past its replacement
has left no node. `Undisturbed`: what an update read is still so, and the list it made
keeps names and test results (`Faithful`). That the loop makes such a list, with names
nobody else has, is an induction over the steps of the loop (`PreparedSteps`,
`PrepareSound`) from what one of them does (`PreparedIs`, `KeepIs`, `NewIs`, `Unique`).
`Stands` and `Refers` take the maps as parameters, so the same definitions serve before
and after a step; each step of a request has a lemma for types, for `Stands`
and for `Refers`, and those that touch no map are done together (`FlatStands`,
`LevelRefers`).

**NodeSelectionProofs.** `TypeCorrect`, `BansHold`, `TriesOnce`, `BestKept`, `Rotates`.
`Reads` says what the earlier reads of a selection left: the pin being checked was
neither banned nor tried when it was read, and the best node was read, with a latency,
for least-latency only. `Choosing` reduces a choice to `UsePinned` or `Select`.
`Rotates` (`RotationAdvances`) needs `Rotated`: the index of the group is below the
number of nodes of the last pick and is not the place of the node that was taken.

The same module proves `BatchesHold` of `BatchTests`. `BatchIInv` says where each name
of a batch is: still to be sent, with one worker, or among the results, in one of them
only (`Placed`, `NoneLost`), that the tallies are those of the results (`Tallied`), that
the tokens of the limiters are the workers at certain places (`PermitsExact`) and that
what was measured is among what the mark in the node's entry may stand for (`Meant`) as
long as no other batch of that type runs (`Kept`). That a request's names become
distinct is an induction over the request's list: the shortest prefix for which it fails
would be one longer than a prefix for which it holds (`HasLeast`, `Climbs`,
`NamesSound`).

**ForwardingProofs.** `ClientsAttended` (`RawInv`) and `RefusedWithheld`
(`DeniedWithheld`), from `RawIInv`. It speaks of one client at a time: what holds of it
wherever it is (`SoundClient`: credited is what was synced and no more than came in;
fragments sent before the Login is found are kept, unless some were lost), in the table
(`Tended`) and outside it (`Released`: only a finalizer about to close it leaves a
socket open), and of what the Listen loop relies on between its steps (`LoopFits`:
nobody else refuses the client, the counter it has read only grew, the fragment in hand
is kept). What other split packets do to a client's buffers is one fact (`Shifts`: the
Login's fragments stay, or are gone and `lost` says so), shown of eviction
(`DroppedShifts`, `RoomShifts`) and of a packet's beginning and end (`OtherShifts`).

In the same module, `PlainSocketsOwned` (`PlainInv`) needs that only the Listen
loop fills the table (`PlainAlone`). `StreamHolds` (`StreamInv`) needs what a handler
has done at each of its places (`Own`), what other connections may have taken from it
meanwhile (`Among`, with `Rival` and `Excused`, the crossings the property names), and
a holder, or one who left it to the collector, for every session (`Witnessed`).

**LifecycleProofs.** `LifeHolds` (`LifeInv`), `MarksAreKept` (`MarksKept`), `PortsHold`
(`PortsInv`). `ListenersFollow` speaks of rest; `Follows` says of every state in which
the watch works that a server at odds with its entry is owed to a pending event, to
the watcher's Reload or to Start, and what each of their places still owes. `StopBars`:
once Stop has begun nobody is past the check of `running`, but for those the model
marks as late. `MarksKept` rests on `Holds`: a copy of an entry keeps the marks it was
made from. For the ports: `TableHolds` (open listeners are the table, but for the one
Stop waits for), `ConnsHeld`, `NoneStale` and `AllStarted` (who closes an outdated
listener, who starts a missing one, as long as nothing went astray since the last reload),
`StoppedDry`.

The same module proves `ProbesHold` (`ProbesInv`) and `ScansHold` (`ScansKept`) of
`AutoPing`, for any servers, ports, nodes, latencies and settings, from `ProbeInv`.
`SeriesSpaced` compares neighbours only, which says nothing once the newest sample is
replaced or old ones are trimmed: `Spread` compares any two samples of a series and
`Until` says that none is from the future or an echo. Both are kept by any suffix
(`SuffixKeeps`), and trimming, cutting to the limit and what an answer holds are
suffixes (`TrimIs`, `NewestIs`); replacing or adding the newest is `PutLast`. In a
series that is spread out the first sample that has not expired has only such samples
after it, which is `ServedIsCurrent`. For the bootstrap scans, `Turned` says that they
have been at every place `Behind` the next one, as far back as their number times the
window reaches, around the list; `WindowMoves` is the arithmetic of one scan that
wraps. The parallelism is counted over the probes of all targets of a round (`Probing`),
of which a step adds at most one (`OneMore`, `AcquireJobs`). For `ScansKept`: only
`PingAllChooses` starts a scan (`OnlyChoosing`), and what it starts with is compared
with the ranking (`Compares`, `RankedIs`: the node that is k-th in the order exists, by
counting); `memo.full` is when the last full scan ended; what a round or a ping still
writes, its targets and `was` name. The order of the nodes and the samples that survive
a filter are defined by counting and not by recursion (`Ranked`, `Selected`), since an
induction over lists is out of the prover's reach; `TakesAll` and `PlaceFound` show that
every place is taken.

**AccessProofs.** `ListsHold` (`ListsInv`), `ListsChangeHolds` (`ListsChange`), `AuthHolds`
(`AuthInv`), `APIHolds` (`APIInv`). For the lists, `BannedStaysOut` speaks of players who
play after the last kick; `ListsIInv` says of every state that nobody whom a row bans is
past the check on a server where the kicks of its request have been (`KeptOut`), and
that a row that was alone when it was inserted is the one lookups find (`SolesFirst`),
without which a check could pass beside it. Each operation on a table is shown once to
keep keys and ids (`CreateKeeps`, `SwitchKeeps`, `DeleteKeeps`, `PurgeKeeps`, `ToldKeeps`),
each kind of step once to keep players out (`WriteKept`, `LoginKept`, `KickKept`,
`TickKept`). That a lookup finds a row at all is the least element of a set of ids
(`MinIn`, from the well-foundedness of the naturals). For the verifier: every
remembered or answered yes has a time at which the service gave it (`Backed`,
`Answers`). For Xbox: whenever there is no token, somebody is fetching one
(`SignInIInv`). For the API: a request past the check had a valid key when it was
checked (`Admitted`); configurations in memory, on disk and in hand fit, and as long
as no requests crossed and nothing failed one request at a time changes them and what
it has not done is all that is missing (`Orderly`, `InPlace`); the rows are in the order of
their times, and a time is never earlier than the clock of now would have shown, exactly
that if the clock was not set back since (`LogTimes`), from which it follows whose rows a
trimming takes.

Type correctness is part of every one of these invariants. `TypeOK` of the first four
modules has a theorem of its own and is not repeated in the runs; the others state it
as the first part of the property of the run.

Attempts at proofs corrected the models: the exception of `ListenersFollow` for a
failed save has to cover a second fault; a port listener that is started needs an
unused place among the modelled ones as a guard, not a choice that may not exist; a
batch has as many workers as the budget of its type allows, not three; a secret key
and an unknown one had no place in the type of a key; the classification of crossed
configuration requests had overlapping cases; a request to kick, with no server to kick
from, was never over. The tables of the lists were sequences filtered with `SelectSeq`,
which the prover cannot expand, and are functions on ids now, as SQLite has them. The
description of an entry in both forms left open `shadowsocks`, which names an item and
no link, and a trojan link with a security that is neither `tls` nor `none`. With three
requests at once, more than the instances have, four exceptions of the subscriptions'
properties were too narrow: a reload mends the maps but not a reference that an overlap
left behind (`strayed`); an update whose own nodes changed while it prepared, or that had
a connection twice, may rename a node (`disturbed`); a block writes its copy of a node
over whatever got the name since, which can empty another subscription or bring back a
node of a deleted one; and an update still in the queue counts as one that a deletion
crosses. With a storage limit of three and a longer retention, more than the instance of
the probes has, a series was taken to be in order again too early: not when a sample older
than the retention is trimmed but when all are is it a new one (`late`), and what was
served has to be judged by the order at the time of the answer (`served.ordered`), not by
that of the series at present.

Only model-checked is liveness, which is out of reach of the prover: `SessionsEnd`,
`StopReturns`, `ClientsSettle`, `ListenersEnd`, `ManagersSettle`, `ScheduleKept`,
`CacheSettles`, `ProbesEnd`.

## 6. What is not modelled

Merged or left out inside what is modelled. `Cleanup` of the sessions reads `maxRecords`
and counts in one step. The error of `RowsAffected` (UpdateStats) is left out: the
SQLite driver has none. A datagram of `RawUDPClients` has one frame; of several,
`parseRakNetFrame` returns the first game packet only. The plain UDP proxy's
CompareAndDelete and Close are one step, since nobody else can find the client between
them; so are StopServer and DeleteServer of a server's deletion in `LatencyHistory`,
between which the server cannot be started. A restart of the process in `APIAccess`
reads the file that the API saved: the API always saves `config.json`, and a program
started with another `-config` never sees what it saved. The last step of an update's
sync has no error: `Reload` of the outbound manager only drops instances
(`OutboundCache`) and returns nil. Saves of the subscription file fail in
`PersistAttempt`, where the code acts on it; the other callers ignore the error or
report it, with the entry changed in memory as after a save that worked. In
`SubscriptionContent` fields that every parser reads or skips together are one: the
alter id and the cipher of vmess, the obfuscation and hopping ports of hysteria2, the
three idle session settings of anytls; an item has at most one map of transport options.

Not modelled at all. Parsing and building of packets and options (conversions without
state), with the RakNet bookkeeping that lets the raw UDP proxy inject a disconnect;
handshakes of SOCKS, HTTP and sing-box protocols and the sing-box factory's translation
of options (external libraries); metrics, logs, queries and the web interface (nothing
depends on them); wiring of the process; functions nobody calls (Logout, ClearCache).
PROJECT.json lists every component with its status.

## 7. Plan

Every invariant and action property of the runs has a theorem. What remains is a
composition of `SessionManager` with `SessionPersistence`, replacing `OnSessionEnd` by
the enders.
