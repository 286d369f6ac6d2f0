---------------------------- MODULE AccessControl ----------------------------
(***************************************************************************)
(* Who may play where: the blacklist, the whitelist and the settings kept   *)
(* in SQLite (internal/db), ACLManager, which reads and writes them under   *)
(* one RWMutex (internal/acl), the requests that edit them (internal/api)   *)
(* and the check every proxy makes when a player logs in (internal/proxy).  *)
(*                                                                         *)
(* A scope is a server's ACL id or "" for all servers.  A ban is written    *)
(* first and only then are the player's connections closed, server by       *)
(* server; a login stores the player's name first and is checked after.     *)
(* Every lookup may fail; a write that fails changes nothing and is left    *)
(* out.                                                                     *)
(***************************************************************************)
EXTENDS Naturals, FiniteSets, FiniteSetsExt, Functions

CONSTANTS
    Players,     \* player names, lower case
    Servers,     \* ACL server ids
    Logins,      \* connections
    Admins,      \* goroutines of the API server
    AccessPlans, \* what may happen in a behaviour: [kind, local, requests, faults, ticks],
                 \* where kind tells how each server's listener works and local the zone
                 \* of the program; zones are counted eastwards, in clock ticks
    CleanEvery   \* clock ticks between two purges of expired entries

Scopes == Servers \cup {""}

\* A request that is well formed: about one name, but for settings and lists.
Decoded(q) ==
    /\ q \in [op : {"ban", "setBan", "unban", "allow", "setAllow", "unallow", "settings", "list", "kick"},
              name : Players \cup {""}, scope : Scopes, on : BOOLEAN, till : Nat, zone : Nat,
              white : BOOLEAN, padded : BOOLEAN]
    /\ q.op \notin {"settings", "list"} => q.name \in Players

ASSUME AccessAssumption ==
    /\ "" \notin Servers
    /\ \A p \in AccessPlans :
         /\ p \in [kind : [Servers -> {"raw", "passthrough", "mitm", "raknet"}], local : Nat,
                   requests : {p.requests}, faults : Nat, ticks : Nat]
         /\ \A q \in p.requests : Decoded(q)
    /\ CleanEvery \in Nat \ {0}

VARIABLES
    black,       \* the blacklist: id -> row
    white,       \* the whitelist: id -> row
    ids,         \* the last id given in each table (AUTOINCREMENT)
    settings,    \* scope -> its acl_settings row
    clock,
    cleaned,     \* ACLManager.lastCleanup, 0 is the zero time
    login,       \* connection -> where its login stands
    admin,       \* goroutine -> the request it serves
    plan         \* what may still happen

accessVars == <<black, white, ids, settings, clock, cleaned, login, admin, plan>>

\* An entry without expires_at never expires.
Forever == 99

\* by, told and sole are not in the code: the goroutine that wrote the row last, whether
\* its KickPlayer has finished since, and whether the row was alone when it was inserted.
NoRow == [name |-> "", scope |-> "", on |-> FALSE, till |-> 0, zone |-> 0, by |-> "", told |-> FALSE,
          sole |-> FALSE]

DefaultACLSettings == [set |-> FALSE, black |-> TRUE, white |-> FALSE]

NoRequest == [op |-> "", name |-> "", scope |-> "", on |-> FALSE, till |-> 0, zone |-> 0,
              white |-> FALSE, padded |-> FALSE]
NoTask == [pc |-> "idle", req |-> NoRequest, todo |-> {}]
NoLogin == [pc |-> "idle", name |-> "", server |-> "", seen |-> FALSE, sure |-> FALSE]

AccessInit ==
    /\ black = [i \in {} |-> NoRow]
    /\ white = [i \in {} |-> NoRow]
    /\ ids = [black |-> 0, white |-> 0]
    /\ settings = [s \in Scopes |-> DefaultACLSettings]
    /\ clock = 1
    /\ cleaned = 0
    /\ login = [l \in Logins |-> NoLogin]
    /\ admin = [a \in Admins |-> NoTask]
    /\ plan \in AccessPlans

-----------------------------------------------------------------------------
(* The tables. *)

IsExpired(r) == r.till # Forever /\ clock > r.till

\* The rows a query by name is about; an update keeps every other row.
OfKey(t, n, s) == {i \in DOMAIN t : t[i].name = n /\ t[i].scope = s}

FirstOf(t, S) == IF S = {} THEN NoRow ELSE t[Min(S)]

\* Without ORDER BY the index scan yields the row with the smallest id.
BlacklistGetByName(t, n, s) == FirstOf(t, OfKey(t, n, s))

\* Used as a fault: the rows of the global list, with NULL in server_id, are not found.
NullNotFound(t, n, s) == IF s = "" THEN NoRow ELSE FirstOf(t, OfKey(t, n, s))

WhitelistGetByName(t, n, s) == FirstOf(t, OfKey(t, n, s))

Insert(t, i, row) == [j \in DOMAIN t \cup {i} |-> IF j = i THEN row ELSE t[j]]

\* The row that request q of goroutine a makes in table t.
RowOf(t, q, a) ==
    [name |-> q.name, scope |-> q.scope, on |-> q.on, till |-> q.till, zone |-> q.zone, by |-> a,
     told |-> FALSE, sole |-> OfKey(t, q.name, q.scope) = {}]

\* Used as a fault: the name is stored as it came.
Untrimmed(q, a) ==
    /\ black' = Insert(black, ids.black + 1,
                       [RowOf(black, q, a) EXCEPT !.name = IF q.padded THEN "padded" ELSE q.name])
    /\ ids' = [ids EXCEPT !.black = @ + 1]

\* SQLite compares no two NULLs as equal, so the conflict clause never sees a second entry
\* of the global list (server_id NULL): it becomes a row of its own.
BlacklistCreate(q, a) ==
    LET key == OfKey(black, q.name, q.scope)
    IN  \/ /\ q.scope # "" /\ key # {}
           /\ black' = [i \in DOMAIN black |->
                          IF i \in key THEN [RowOf(black, q, a) EXCEPT !.sole = black[i].sole]
                          ELSE black[i]]
           /\ UNCHANGED ids
        \/ /\ q.scope = "" \/ key = {}
           /\ black' = Insert(black, ids.black + 1, RowOf(black, q, a))
           /\ ids' = [ids EXCEPT !.black = @ + 1]

\* No conflict clause: a second entry of a server's whitelist violates UNIQUE.
WhitelistCreateFails(q) == q.scope # "" /\ OfKey(white, q.name, q.scope) # {}

WhitelistCreate(q, a) ==
    /\ white' = Insert(white, ids.white + 1, RowOf(white, q, a))
    /\ ids' = [ids EXCEPT !.white = @ + 1]

BlacklistUpdateEnabled(q, a) ==
    [i \in DOMAIN black |-> IF i \in OfKey(black, q.name, q.scope)
                           THEN [black[i] EXCEPT !.on = q.on, !.by = a, !.told = FALSE]
                           ELSE black[i]]

WhitelistUpdateEnabled(q) ==
    [i \in DOMAIN white |-> IF i \in OfKey(white, q.name, q.scope)
                           THEN [white[i] EXCEPT !.on = q.on] ELSE white[i]]

\* Used as a fault: only the row lookups find is deleted.
DeleteFirst(n, s) == Restrict(black, DOMAIN black \ {Min(OfKey(black, n, s))})

BlacklistDelete(n, s) == Restrict(black, DOMAIN black \ OfKey(black, n, s))

WhitelistDelete(n, s) == Restrict(white, DOMAIN white \ OfKey(white, n, s))

\* Used as a fault: what expires before the next purge is due goes too.
PurgeEarly(t) ==
    RestrictValues(t, LAMBDA r : r.till = Forever \/ r.till + r.zone > clock + plan.local + CleanEvery)

\* "expires_at < ?" compares texts, the expiry in the zone it was sent in and now in the
\* zone of the program; of two that read alike that of now is the longer one, so the other is less.
ReadsPast(r) == r.till # Forever /\ r.till + r.zone <= clock + plan.local

BlacklistDeleteExpired(t) == RestrictValues(t, LAMBDA r : ~ReadsPast(r))

WhitelistDeleteExpired(t) == RestrictValues(t, LAMBDA r : ~ReadsPast(r))

BlacklistList(t, s) == RestrictValues(t, LAMBDA r : r.scope = s)

WhitelistList(t, s) == RestrictValues(t, LAMBDA r : r.scope = s)

-----------------------------------------------------------------------------
(* ACLManager. *)

Lookups == {"settings", "fallback", "blackGlobal", "blackServer", "whiteGlobal", "whiteServer"}

\* The lookups of one check that fail: any one of them, once per fault of the plan.
Failing == {{}} \cup (IF plan.faults > 0 THEN {{k} : k \in Lookups \cup {"purge"}} ELSE {})

Spend(bad) == plan' = [plan EXCEPT !.faults = IF bad = {} THEN @ ELSE @ - 1]

CleanupDue == cleaned = 0 \/ clock - cleaned >= CleanEvery

\* A purge that fails is not repeated before the next is due.
cleanupExpiredEntriesIfDue(bad) ==
    /\ cleaned' = IF CleanupDue THEN clock ELSE cleaned
    /\ black' = IF CleanupDue /\ "purge" \notin bad THEN BlacklistDeleteExpired(black) ELSE black
    /\ white' = IF CleanupDue /\ "purge" \notin bad THEN WhitelistDeleteExpired(white) ELSE white

IsBlacklistedByEntry(r) == r # NoRow /\ r.on /\ ~IsExpired(r)

IsWhitelistedByEntry(r) == r # NoRow /\ r.on /\ ~IsExpired(r)

filterActiveBlacklistEntries(t) == RestrictValues(t, LAMBDA r : ~IsExpired(r))

filterActiveWhitelistEntries(t) == RestrictValues(t, LAMBDA r : ~IsExpired(r))

GetBlacklist(s) == filterActiveBlacklistEntries(BlacklistList(black, s))

GetWhitelist(s) == filterActiveWhitelistEntries(WhitelistList(white, s))

\* Used as a fault: without a row of its own a server takes any row there is.
AnySettings(s, bad) ==
    IF settings[s].set THEN settings[s]
    ELSE IF \E x \in Scopes : settings[x].set THEN settings[CHOOSE x \in Scopes : settings[x].set]
    ELSE DefaultACLSettings

LoadSettings(s, bad) ==
    CASE settings[s].set /\ "settings" \notin bad -> settings[s]
      [] ~(settings[s].set /\ "settings" \notin bad) /\ settings[""].set /\ "fallback" \notin bad
           -> settings[""]
      [] OTHER -> DefaultACLSettings

\* A failed lookup counts as no entry here.
IsBlacklisted(t, n, s, bad) ==
    \/ "blackGlobal" \notin bad /\ IsBlacklistedByEntry(BlacklistGetByName(t, n, ""))
    \/ "blackServer" \notin bad /\ IsBlacklistedByEntry(BlacklistGetByName(t, n, s))

\* The lookups in their order; err tells whether one that was made failed.
CheckAccessFull(b, w, n, s, bad) ==
    LET use == LoadSettings(s, bad)
        ban(k, scope) == use.black /\ k \notin bad /\ IsBlacklistedByEntry(BlacklistGetByName(b, n, scope))
        may(k, scope) == k \notin bad /\ IsWhitelistedByEntry(WhitelistGetByName(w, n, scope))
        global == ban("blackGlobal", "")
        banned == global \/ ban("blackServer", s)
        asked  == use.white /\ ~banned
        listed == may("whiteGlobal", "")
        made   == {"settings"}
                  \cup {k \in {"fallback"} : "settings" \in bad \/ ~settings[s].set}
                  \cup {k \in {"blackGlobal"} : use.black}
                  \cup {k \in {"blackServer"} : use.black /\ ~global}
                  \cup {k \in {"whiteGlobal"} : asked}
                  \cup {k \in {"whiteServer"} : asked /\ ~listed}
    IN  [allowed |-> ~banned /\ (asked => listed \/ may("whiteServer", s)),
         type    |-> IF banned THEN "blacklist" ELSE "whitelist",
         err     |-> made \cap bad # {}]

\* Used as a fault: the decision stands although a lookup failed.
ErrorIgnored(b, w, n, s, bad) == CheckAccessFull(b, w, n, s, bad).allowed

CheckAccessWithError(b, w, n, s, bad) ==
    LET d == CheckAccessFull(b, w, n, s, bad) IN d.err \/ d.allowed

\* The same decision from lists of entries, as the tests of the package use it.
CheckAccessWithEntries(globalBlack, serverBlack, globalWhite, serverWhite, n, use) ==
    LET hit(entries, Match(_)) == \E i \in DOMAIN entries : entries[i].name = n /\ Match(entries[i])
    IN  /\ use.black => ~hit(globalBlack, IsBlacklistedByEntry) /\ ~hit(serverBlack, IsBlacklistedByEntry)
        /\ use.white => hit(globalWhite, IsWhitelistedByEntry) \/ hit(serverWhite, IsWhitelistedByEntry)

-----------------------------------------------------------------------------
(* Logins. *)

\* States in which KickPlayer finds the connection: its name is stored before the check.
Named == {"named", "settled", "checking", "passed", "playing"}

Connect(l) ==
    /\ login[l].pc = "idle"
    /\ \E n \in Players, s \in Servers :
         login' = [login EXCEPT ![l] = [NoLogin EXCEPT !.pc = "named", !.name = n, !.server = s]]
    /\ UNCHANGED <<black, white, ids, settings, clock, cleaned, admin, plan>>

\* getResolvedACLSettings, a critical section of its own.
RawReadsSettings(l) ==
    /\ login[l].pc = "named"
    /\ plan.kind[login[l].server] = "raw"
    /\ \E bad \in Failing :
         /\ login' = [login EXCEPT ![l].pc = "settled",
                                   ![l].seen = LoadSettings(login[l].server, bad).black]
         /\ Spend(bad)
    /\ UNCHANGED <<black, white, ids, settings, clock, cleaned, admin>>

RawLooksUp(l) ==
    /\ login[l].pc = "settled"
    /\ \E bad \in Failing :
         /\ cleanupExpiredEntriesIfDue(bad)
         /\ login' = [login EXCEPT ![l].pc =
                         IF IsBlacklisted(black', login[l].name, login[l].server, bad) /\ login[l].seen
                         THEN "refused" ELSE "checking"]
         /\ Spend(bad)
    /\ UNCHANGED <<ids, settings, clock, admin>>

\* The passthrough proxy takes CheckAccessFull's decision and drops its error.
PassthroughCheck(n, s, bad) == CheckAccessFull(black', white', n, s, bad).allowed

RakNetCheck(n, s, bad) == CheckAccessWithError(black', white', n, s, bad)

MITMCheck(n, s, bad) == CheckAccessWithError(black', white', n, s, bad)

RawCheck(n, s, bad) == CheckAccessWithError(black', white', n, s, bad)

Passes(n, s, bad) ==
    CASE plan.kind[s] = "passthrough" -> PassthroughCheck(n, s, bad)
      [] plan.kind[s] = "raknet"      -> RakNetCheck(n, s, bad)
      [] plan.kind[s] = "mitm"        -> MITMCheck(n, s, bad)
      [] OTHER                   -> RawCheck(n, s, bad)

CheckLogin(l) ==
    /\ login[l].pc \in {"named", "checking"}
    /\ (login[l].pc = "checking") <=> (plan.kind[login[l].server] = "raw")
    /\ \E bad \in Failing :
         /\ cleanupExpiredEntriesIfDue(bad)
         /\ login' = [login EXCEPT
               ![l].pc = IF Passes(login[l].name, login[l].server, bad) THEN "passed" ELSE "refused",
               ![l].seen = FALSE,
               ![l].sure = bad = {} /\ LoadSettings(login[l].server, {}).black]
         /\ Spend(bad)
    /\ UNCHANGED <<ids, settings, clock, admin>>

\* What is left of the login: the external verifier, the dial, the forwarded Login packet.
Admit(l) ==
    /\ login[l].pc = "passed"
    /\ \E verdict \in {"playing", "refused"} : login' = [login EXCEPT ![l].pc = verdict]
    /\ UNCHANGED <<black, white, ids, settings, clock, cleaned, admin, plan>>

Leave(l) ==
    /\ login[l].pc \in {"playing", "refused", "kicked"}
    /\ login' = [login EXCEPT ![l] = NoLogin]
    /\ UNCHANGED <<black, white, ids, settings, clock, cleaned, admin, plan>>

-----------------------------------------------------------------------------
(* Requests.  ACLManager.mu is held for the write, never for the kick. *)

Kickers == {s \in Servers : plan.kind[s] # "raknet"}

Begin(a, q) ==
    /\ admin[a].pc = "idle"
    /\ q \in plan.requests

Served(a, q, task) ==
    /\ admin' = [admin EXCEPT ![a] = task]
    /\ plan' = [plan EXCEPT !.requests = @ \ {q}]

Answered(q) == [NoTask EXCEPT !.pc = "answered", !.req = q]

Kicking(q) == IF Kickers = {} THEN NoTask ELSE [pc |-> "kicking", req |-> q, todo |-> Kickers]

AddToBlacklist(a, q) ==
    /\ Begin(a, q) /\ q.op = "ban"
    /\ BlacklistCreate(q, a)
    /\ Served(a, q, Kicking(q))
    /\ UNCHANGED <<white, settings, clock, cleaned, login>>

\* The entry it answers with, and whose name it kicks, is the one GetByName finds.
UpdateBlacklistEntryEnabled(a, q) ==
    /\ Begin(a, q) /\ q.op = "setBan"
    /\ OfKey(black, q.name, q.scope) # {}
    /\ black' = BlacklistUpdateEnabled(q, a)
    /\ Served(a, q, IF BlacklistGetByName(black', q.name, q.scope).on THEN Kicking(q) ELSE Answered(q))
    /\ UNCHANGED <<white, ids, settings, clock, cleaned, login>>

RemoveFromBlacklist(a, q) ==
    /\ Begin(a, q) /\ q.op = "unban"
    /\ OfKey(black, q.name, q.scope) # {}
    /\ black' = BlacklistDelete(q.name, q.scope)
    /\ Served(a, q, Answered(q))
    /\ UNCHANGED <<white, ids, settings, clock, cleaned, login>>

AddToWhitelist(a, q) ==
    /\ Begin(a, q) /\ q.op = "allow"
    /\ ~WhitelistCreateFails(q)
    /\ WhitelistCreate(q, a)
    /\ Served(a, q, NoTask)
    /\ UNCHANGED <<black, settings, clock, cleaned, login>>

UpdateWhitelistEntryEnabled(a, q) ==
    /\ Begin(a, q) /\ q.op = "setAllow"
    /\ OfKey(white, q.name, q.scope) # {}
    /\ white' = WhitelistUpdateEnabled(q)
    /\ Served(a, q, NoTask)
    /\ UNCHANGED <<black, ids, settings, clock, cleaned, login>>

RemoveFromWhitelist(a, q) ==
    /\ Begin(a, q) /\ q.op = "unallow"
    /\ OfKey(white, q.name, q.scope) # {}
    /\ white' = WhitelistDelete(q.name, q.scope)
    /\ Served(a, q, NoTask)
    /\ UNCHANGED <<black, ids, settings, clock, cleaned, login>>

UpdateSettings(a, q) ==
    /\ Begin(a, q) /\ q.op = "settings"
    /\ settings' = [settings EXCEPT ![q.scope] = [set |-> TRUE, black |-> q.on, white |-> q.white]]
    /\ Served(a, q, NoTask)
    /\ UNCHANGED <<black, white, ids, clock, cleaned, login>>

\* POST /players/:name/kick: no entry is written.
kickPlayer(a, q) ==
    /\ Begin(a, q) /\ q.op = "kick"
    /\ Served(a, q, Kicking(q))
    /\ UNCHANGED <<black, white, ids, settings, clock, cleaned, login>>

\* Reading a list purges as a check does.
ReadLists(a, q) ==
    /\ Begin(a, q) /\ q.op = "list"
    /\ cleanupExpiredEntriesIfDue({})
    /\ Served(a, q, NoTask)
    /\ UNCHANGED <<ids, settings, clock, login>>

\* Used as a fault: only players who passed their check are looked for.
KickPlaying(a, s) ==
    [l \in Logins |-> IF login[l].server = s /\ login[l].pc = "playing"
                         /\ login[l].name = admin[a].req.name /\ ~admin[a].req.padded
                      THEN [login[l] EXCEPT !.pc = "kicked", !.seen = FALSE, !.sure = FALSE]
                      ELSE login[l]]

\* EqualFold with the name as it came: AddToBlacklist trims only what it stores.
KickPlayer(a, s) ==
    [l \in Logins |-> IF login[l].server = s /\ login[l].pc \in Named
                         /\ login[l].name = admin[a].req.name /\ ~admin[a].req.padded
                      THEN [login[l] EXCEPT !.pc = "kicked", !.seen = FALSE, !.sure = FALSE]
                      ELSE login[l]]

Told(a) ==
    [i \in DOMAIN black |->
        IF i \in OfKey(black, admin[a].req.name, admin[a].req.scope)
        THEN [black[i] EXCEPT !.told = @ \/ (black[i].by = a /\ ~admin[a].req.padded)]
        ELSE black[i]]

KickFrom(a, s) ==
    LET rest == admin[a].todo \ {s}
    IN  /\ admin[a].pc = "kicking"
        /\ s \in admin[a].todo
        /\ login' = KickPlayer(a, s)
        /\ admin' = [admin EXCEPT ![a] = IF rest = {} THEN NoTask ELSE [@ EXCEPT !.todo = rest]]
        /\ black' = IF rest = {} THEN Told(a) ELSE black
        /\ UNCHANGED <<white, ids, settings, clock, cleaned, plan>>

Respond(a) ==
    /\ admin[a].pc = "answered"
    /\ admin' = [admin EXCEPT ![a] = NoTask]
    /\ UNCHANGED <<black, white, ids, settings, clock, cleaned, login, plan>>

AccessTick ==
    /\ plan.ticks > 0
    /\ clock' = clock + 1
    /\ plan' = [plan EXCEPT !.ticks = @ - 1]
    /\ UNCHANGED <<black, white, ids, settings, cleaned, login, admin>>

AccessNext ==
    \/ \E l \in Logins : Connect(l) \/ RawReadsSettings(l) \/ RawLooksUp(l) \/ CheckLogin(l)
                          \/ Admit(l) \/ Leave(l)
    \/ \E a \in Admins, q \in plan.requests :
         \/ AddToBlacklist(a, q) \/ UpdateBlacklistEntryEnabled(a, q) \/ RemoveFromBlacklist(a, q)
         \/ AddToWhitelist(a, q) \/ UpdateWhitelistEntryEnabled(a, q) \/ RemoveFromWhitelist(a, q)
         \/ UpdateSettings(a, q) \/ ReadLists(a, q) \/ kickPlayer(a, q)
    \/ \E a \in Admins : Respond(a) \/ \E s \in Servers : KickFrom(a, s)
    \/ AccessTick

AccessSpec == AccessInit /\ [][AccessNext]_accessVars

-----------------------------------------------------------------------------
(* Properties. *)

Rows == [name : Players, scope : Scopes, on : BOOLEAN, till : Nat, zone : Nat, by : Admins,
         told : BOOLEAN, sole : BOOLEAN]

\* Every variable holds what the code can put there.
AccessTypeOK ==
    /\ Range(black) \subseteq Rows
    /\ Range(white) \subseteq Rows
    /\ ids \in [black : Nat, white : Nat]
    /\ DOMAIN black \subseteq 1..ids.black /\ DOMAIN white \subseteq 1..ids.white
    /\ settings \in [Scopes -> [set : BOOLEAN, black : BOOLEAN, white : BOOLEAN]]
    /\ cleaned \in 0..clock
    /\ \A l \in Logins : login[l].pc \in Named \cup {"idle", "refused", "kicked"}
    /\ \A a \in Admins : admin[a].pc \in {"idle", "answered", "kicking"}

\* A player is playing although row r bans them.
PlaysDespite(l, r) ==
    /\ login[l].pc = "playing"
    /\ login[l].sure
    /\ login[l].server \in Kickers
    /\ r.name = login[l].name /\ r.scope \in {"", login[l].server}
    /\ r.told /\ r.on /\ ~IsExpired(r)

\* Once a ban request has been answered the player is on no server it covers, whatever
\* login was under way meanwhile (addToBlacklist writes before it kicks, the proxies store
\* the name before they check).  Exempt are RakNet servers, which nobody can be kicked
\* from, checks that met a database error or a blacklist switched off, names sent with
\* spaces around them, and an entry that joined an older one of the global list.
BannedStaysOut == \A l \in Logins, r \in Range(black) : r.sole => ~PlaysDespite(l, r)

\* blacklist_repository.go:22 says that an entry that already exists will be updated: the
\* row a request wrote is the row the checks find.
PostedIsInForce ==
    \A r \in Range(black) : BlacklistGetByName(black, r.name, r.scope) = r

NoTwins(t) == \A i, j \in DOMAIN t : t[i].name = t[j].name /\ t[i].scope = t[j].scope => i = j

\* The check that asks the tables entry by entry (CheckAccessFull) decides as the one over
\* the lists an administrator is shown (CheckAccessWithEntries over GetBlacklist and
\* GetWhitelist), as long as no name is in a list twice.
CheckMatchesLists ==
    NoTwins(black) /\ NoTwins(white) =>
        \A n \in Players, s \in Servers :
            CheckAccessFull(black, white, n, s, {}).allowed =
            CheckAccessWithEntries(GetBlacklist(""), GetBlacklist(s), GetWhitelist(""),
                                   GetWhitelist(s), n, LoadSettings(s, {}))

\* Whatever lookup fails, a player the lists admit is not turned away by
\* CheckAccessWithError (raw UDP, RakNet and MITM logins): it fails open.
FailsOpen ==
    \A n \in Players, s \in Servers, k \in Lookups :
        CheckAccessFull(black, white, n, s, {}).allowed =>
            CheckAccessWithError(black, white, n, s, {k})

\* The entries and settings of one server decide nothing on another.
ScopesIndependent ==
    [][\A s \in Servers, n \in Players :
         (/\ clock' = clock
          /\ \A x \in {"", s} : /\ settings'[x] = settings[x]
                                /\ BlacklistList(black', x) = BlacklistList(black, x)
                                /\ WhitelistList(white', x) = WhitelistList(white, x))
         => CheckAccessFull(black, white, n, s, {})' = CheckAccessFull(black, white, n, s, {})
      ]_accessVars

\* When a request to lift a ban is answered, nothing of the ban is left in its scope: no
\* row after removeFromBlacklist, no enabled row after the switch was turned off.
LiftedMeansLifted ==
    [][\A a \in Admins :
         admin[a].pc = "idle" /\ admin'[a].pc = "answered" =>
            \A i \in OfKey(black', admin'[a].req.name, admin'[a].req.scope) :
                admin'[a].req.op = "setBan" /\ ~black'[i].on]_accessVars

\* An entry that has time left, and whose expiry was not written in a zone west of the
\* program's own.
Lasting(r) == r.till = Forever \/ (r.till > clock /\ r.zone >= plan.local)

\* No entry in force disappears by itself: only a request about its own name and scope takes
\* it away, never the purge that checks and lists begin with.  This is so for entries for
\* ever and for expiries in the program's own zone or one east of it; one sent in a zone
\* west of it (the dashboard sends UTC) is purged early by the difference of the zones.
OnlyRequestsLift ==
    [][\A r \in Range(black) :
         Lasting(r) /\ OfKey(black', r.name, r.scope) = {} =>
            \E a \in Admins : /\ admin'[a].pc = "answered" /\ admin'[a].req.op = "unban"
                             /\ admin'[a].req.name = r.name /\ admin'[a].req.scope = r.scope
      ]_accessVars

\* What the checks answer is what the lists said, a ban reaches the players who are
\* already in, and a failing database keeps nobody out.
ListsInv == AccessTypeOK /\ BannedStaysOut /\ CheckMatchesLists /\ FailsOpen

\* What may change in the lists: a request changes its own scope only, a lifted ban is
\* lifted, and nothing else lifts one.
ListsChange == ScopesIndependent /\ LiftedMeansLifted /\ OnlyRequestsLift
=============================================================================
