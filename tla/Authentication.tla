---------------------------- MODULE Authentication ----------------------------
(***************************************************************************)
(* The two authentication services of the proxies (internal/auth).          *)
(*                                                                         *)
(* ExternalVerifier asks an HTTP service whether a player may join a server *)
(* and remembers a yes for cacheMinutes.  XboxAuthManager keeps the token   *)
(* the MITM proxy signs in with, in memory (source) and in a file; when the *)
(* token stops working every failed connection starts a goroutine of its    *)
(* own that signs in anew.                                                  *)
(***************************************************************************)
EXTENDS Naturals, FiniteSets

CONSTANTS
    Asked,         \* keys of the verifier's cache: an XUID on a server
    Calls,         \* logins that ask the verifier
    CacheTicks,    \* cacheMinutes, in clock ticks longer than a request's timeout
    SweepEvery,    \* cleanupEvery
    Agents,        \* goroutines that sign in: "start" is MITMProxy.Start
    AuthPlans      \* what may happen: [ticks, turns, calls, tokens,
                   \* revokes, dials, faults, restarts]

ASSUME AuthAssumption ==
    /\ CacheTicks \in Nat \ {0} /\ SweepEvery \in Nat \ {0} /\ "start" \in Agents
    /\ AuthPlans \subseteq [ticks : Nat, turns : Nat, calls : Nat, tokens : Nat,
                            revokes : Nat, dials : Nat, faults : Nat, restarts : Nat]

VARIABLES
    cache,         \* key -> what is remembered of it
    swept,         \* lastCleanup
    service,       \* key -> what the HTTP service answers
    call,          \* login -> where its verification stands
    ticks,         \* the clock
    approved,      \* key -> when the service last said yes, 0 never (not in the code)
    source,        \* the token of tokenSource, 0 for nil
    file,          \* the token in the cache file, 0 for no file
    revoked,       \* tokens that can no longer be refreshed
    agent,         \* goroutine -> where its sign-in stands
    failed,        \* a device sign-in failed since the last start (not in the code)
    ahead          \* what may still happen

verifierVars == <<cache, swept, service, call, ticks, approved>>
xboxVars == <<source, file, revoked, agent, failed>>
authVars == <<verifierVars, xboxVars, ahead>>

\* An entry that is not there, or was there until tick 0.
NoEntry == [till |-> 0, yes |-> FALSE]

NoCall == [pc |-> "idle", key |-> "", yes |-> FALSE, aged |-> FALSE, asked |-> FALSE, at |-> 0]

Off == [pc |-> "off", token |-> 0]

AuthInit ==
    /\ cache = [k \in Asked |-> NoEntry]
    /\ swept = 0
    /\ service = [k \in Asked |-> TRUE]
    /\ call = [c \in Calls |-> NoCall]
    /\ ticks = 1
    /\ approved = [k \in Asked |-> 0]
    /\ source = 0
    /\ revoked = {}
    /\ agent = [a \in Agents |-> Off]
    /\ failed = FALSE
    /\ ahead \in AuthPlans
    /\ file \in {0} \cup (IF ahead.tokens > 0 THEN {1} ELSE {})

-----------------------------------------------------------------------------
(* ExternalVerifier. *)

maybeCleanupExpired ==
    IF ticks - swept < SweepEvery
    THEN UNCHANGED <<cache, swept>>
    ELSE /\ cache' = [k \in Asked |-> IF ticks > cache[k].till THEN NoEntry ELSE cache[k]]
         /\ swept' = ticks

\* Used as a fault: an entry counts as long as it is in the map.
EverCached(k) == cache[k] # NoEntry

getFromCache(k) == cache[k] # NoEntry /\ ticks <= cache[k].till

Remembered(c) == [till |-> ticks + CacheTicks, yes |-> call[c].yes]

\* Used as a fault: a no is remembered as well.
CacheAny(c) == cache' = [cache EXCEPT ![call[c].key] = Remembered(c)]

addToCache(c) ==
    cache' = IF call[c].yes THEN [cache EXCEPT ![call[c].key] = Remembered(c)] ELSE cache

Verdict(yes) == IF yes THEN "in" ELSE "out"

\* An entry that counts answers; otherwise the service is asked, without the lock.
Verify(c) ==
    /\ call[c].pc = "idle"
    /\ ahead.calls > 0
    /\ ahead' = [ahead EXCEPT !.calls = @ - 1]
    /\ \E k \in Asked :
         call' = [call EXCEPT ![c] =
            IF getFromCache(k) THEN [NoCall EXCEPT !.pc = Verdict(cache[k].yes), !.key = k, !.at = ticks]
            ELSE [NoCall EXCEPT !.pc = "asking", !.key = k]]
    /\ maybeCleanupExpired
    /\ UNCHANGED <<service, ticks, approved, xboxVars>>

\* The service decides; what it says may still be on its way.
doVerify(c) ==
    /\ call[c].pc = "asking"
    /\ call' = [call EXCEPT ![c].pc = "answered", ![c].yes = service[call[c].key], ![c].asked = TRUE]
    /\ approved' = IF service[call[c].key] THEN [approved EXCEPT ![call[c].key] = ticks] ELSE approved
    /\ UNCHANGED <<cache, swept, service, ticks, xboxVars, ahead>>

\* No connection, a status other than 200, a body that is no JSON, or ten seconds without an
\* answer: a no.
VerifyFails(c) ==
    /\ call[c].pc \in {"asking", "answered"}
    /\ ahead.faults > 0
    /\ ahead' = [ahead EXCEPT !.faults = @ - 1]
    /\ call' = [call EXCEPT ![c].pc = "answered", ![c].yes = FALSE, ![c].asked = TRUE]
    /\ UNCHANGED <<cache, swept, service, ticks, approved, xboxVars>>

VerifyReturns(c) ==
    /\ call[c].pc = "answered"
    /\ addToCache(c)
    /\ call' = [call EXCEPT ![c].pc = Verdict(call[c].yes), ![c].at = ticks]
    /\ UNCHANGED <<swept, service, ticks, approved, xboxVars, ahead>>

LoginOver(c) ==
    /\ call[c].pc \in {"in", "out"}
    /\ call' = [call EXCEPT ![c] = NoCall]
    /\ UNCHANGED <<cache, swept, service, ticks, approved, xboxVars, ahead>>

ServiceTurns(k) ==
    /\ ahead.turns > 0
    /\ ahead' = [ahead EXCEPT !.turns = @ - 1]
    /\ service' = [service EXCEPT ![k] = ~@]
    /\ UNCHANGED <<cache, swept, call, ticks, approved, xboxVars>>

\* The client's timeout of ten seconds is less than a tick: no request sees two of them.
AuthTick ==
    /\ ahead.ticks > 0
    /\ \A c \in Calls : call[c].pc \in {"asking", "answered"} => ~call[c].aged
    /\ ticks' = ticks + 1
    /\ call' = [c \in Calls |-> [call[c] EXCEPT !.aged = call[c].pc \in {"asking", "answered"}]]
    /\ ahead' = [ahead EXCEPT !.ticks = @ - 1]
    /\ UNCHANGED <<cache, swept, service, approved, xboxVars>>

-----------------------------------------------------------------------------
(* XboxAuthManager. *)

At(a, pc) == agent[a].pc = pc
Go(a, pc) == agent' = [agent EXCEPT ![a].pc = pc]
Resting == \A a \in Agents : agent[a].pc \in {"off", "done"}

\* loadCachedTokens: no file, or one without a refresh token, leads to the device sign-in.
LoadCachedTokens ==
    /\ At("start", "off")
    /\ ahead.tokens > 0
    /\ agent' = [agent EXCEPT !["start"] = IF file = 0 THEN [pc |-> "device", token |-> 0]
                                           ELSE [pc |-> "refresh", token |-> file]]
    /\ UNCHANGED <<source, file, revoked, failed, verifierVars, ahead>>

\* The token works; or it was renewed and, if that succeeds, written; or it cannot be
\* refreshed (the request may also have failed), the file is removed and the device sign-in
\* begins.
RefreshCached ==
    /\ At("start", "refresh")
    /\ \/ /\ agent["start"].token \notin revoked
          /\ source' = agent["start"].token
          /\ Go("start", "done")
          /\ UNCHANGED <<file, failed, ahead>>
       \/ /\ agent["start"].token \notin revoked
          /\ ahead.tokens > 0
          /\ ahead' = [ahead EXCEPT !.tokens = @ - 1]
          /\ source' = ahead.tokens + 1
          /\ file' \in {file, ahead.tokens + 1}
          /\ Go("start", "done")
          /\ UNCHANGED failed
       \/ /\ agent["start"].token \in revoked \/ ahead.faults > 0
          /\ ahead' = IF agent["start"].token \in revoked THEN ahead ELSE [ahead EXCEPT !.faults = @ - 1]
          /\ file' = 0
          /\ Go("start", "device")
          /\ UNCHANGED <<source, failed>>
    /\ UNCHANGED <<revoked, verifierVars>>

\* The token stops working, at Microsoft's end.
Revoke ==
    /\ ahead.revokes > 0
    /\ source # 0 /\ source \notin revoked
    /\ revoked' = revoked \cup {source}
    /\ ahead' = [ahead EXCEPT !.revokes = @ - 1]
    /\ UNCHANGED <<source, file, agent, failed, verifierVars>>

\* A player's connection dials with the token there is.
DialWithToken(a) ==
    /\ a # "start" /\ At("start", "done")
    /\ agent[a].pc \in {"off", "done"}
    /\ source # 0 /\ ahead.dials > 0
    /\ agent' = [agent EXCEPT ![a] = [pc |-> "dial", token |-> source]]
    /\ ahead' = [ahead EXCEPT !.dials = @ - 1]
    /\ UNCHANGED <<source, file, revoked, failed, verifierVars>>

\* A dial refused for its authentication looks at the token source only if there is one.
handleConnectionError(a) ==
    /\ At(a, "dial")
    /\ agent' = [agent EXCEPT ![a] = [pc    |-> IF @.token \in revoked /\ source # 0 THEN "validate" ELSE "done",
                                      token |-> 0]]
    /\ UNCHANGED <<source, file, revoked, failed, verifierVars, ahead>>

\* The token of this moment is tried; one that is gone counts as one that does not work,
\* and so does one that could not be refreshed because the service was not reached.
ValidateAndRefreshToken(a) ==
    /\ At(a, "validate")
    /\ \/ /\ Go(a, IF source \in revoked \cup {0} THEN "again" ELSE "done")
          /\ UNCHANGED ahead
       \/ /\ ahead.faults > 0 /\ ahead' = [ahead EXCEPT !.faults = @ - 1]
          /\ Go(a, "again")
    /\ UNCHANGED <<source, file, revoked, failed, verifierVars>>

ReauthenticateOnFailure(a) ==
    /\ At(a, "again")
    /\ source' = 0
    /\ Go(a, "clear")
    /\ UNCHANGED <<file, revoked, failed, verifierVars, ahead>>

\* A file that cannot be removed is only logged.
ClearCached(a) ==
    /\ At(a, "clear")
    /\ \/ file' = 0 /\ UNCHANGED ahead
       \/ ahead.faults > 0 /\ ahead' = [ahead EXCEPT !.faults = @ - 1] /\ UNCHANGED file
    /\ Go(a, "device")
    /\ UNCHANGED <<source, revoked, failed, verifierVars>>

\* The administrator enters the code, or the request fails.
RequestLiveToken(a) ==
    /\ At(a, "device")
    /\ \/ /\ ahead.tokens > 0
          /\ agent' = [agent EXCEPT ![a] = [pc |-> "issued", token |-> ahead.tokens + 1]]
          /\ ahead' = [ahead EXCEPT !.tokens = @ - 1]
          /\ UNCHANGED failed
       \/ /\ Go(a, IF a = "start" THEN "off" ELSE "done")
          /\ failed' = TRUE
          /\ UNCHANGED ahead
    /\ UNCHANGED <<source, file, revoked, verifierVars>>

\* Used as a fault: the token is only used once it could be written.
SaveThenUse(a) ==
    /\ At(a, "issued")
    /\ \/ file' = agent[a].token /\ source' = agent[a].token /\ UNCHANGED ahead
       \/ /\ ahead.faults > 0 /\ ahead' = [ahead EXCEPT !.faults = @ - 1]
          /\ UNCHANGED <<file, source>>
    /\ agent' = [agent EXCEPT ![a] = [pc |-> "done", token |-> 0]]
    /\ UNCHANGED <<revoked, failed, verifierVars>>

UseToken(a) ==
    /\ At(a, "issued")
    /\ source' = agent[a].token
    /\ Go(a, "save")
    /\ UNCHANGED <<file, revoked, failed, verifierVars, ahead>>

\* Caching is optional: a failed write is only logged.
saveTokenToCache(a) ==
    /\ At(a, "save")
    /\ \/ file' = agent[a].token /\ UNCHANGED ahead
       \/ ahead.faults > 0 /\ ahead' = [ahead EXCEPT !.faults = @ - 1] /\ UNCHANGED file
    /\ agent' = [agent EXCEPT ![a] = [pc |-> "done", token |-> 0]]
    /\ UNCHANGED <<source, revoked, failed, verifierVars>>

\* The listener is stopped and started again: a new XboxAuthManager, the same file.  Restarts
\* while a goroutine still signs in, for the manager that is gone, are left out.
RestartMITM ==
    /\ At("start", "done")
    /\ ahead.restarts > 0
    /\ Resting
    /\ ahead' = [ahead EXCEPT !.restarts = @ - 1]
    /\ agent' = [a \in Agents |-> Off]
    /\ source' = 0
    /\ failed' = FALSE
    /\ UNCHANGED <<file, revoked, verifierVars>>

AuthNext ==
    \/ \E c \in Calls : Verify(c) \/ doVerify(c) \/ VerifyFails(c) \/ VerifyReturns(c) \/ LoginOver(c)
    \/ \E k \in Asked : ServiceTurns(k)
    \/ AuthTick
    \/ LoadCachedTokens \/ RefreshCached \/ Revoke \/ RestartMITM
    \/ \E a \in Agents : \/ DialWithToken(a) \/ handleConnectionError(a) \/ ValidateAndRefreshToken(a) 
                         \/ ReauthenticateOnFailure(a) \/ ClearCached(a)
                         \/ RequestLiveToken(a) \/ UseToken(a) \/ saveTokenToCache(a)

AuthSpec == AuthInit /\ [][AuthNext]_authVars

-----------------------------------------------------------------------------
(* Properties. *)

\* Whoever the verifier lets in, the service approved of them no longer ago than an entry
\* lasts, counted from the moment it was stored (a request may take one tick).  Two requests
\* for one player may cross.
Vouched ==
    \A c \in Calls : call[c].pc = "in" =>
        /\ approved[call[c].key] > 0
        /\ call[c].at <= approved[call[c].key] + CacheTicks + 1

\* A player is turned away only by an answer to this very request: a no, unlike a yes, is
\* never taken from the cache (Verify stores allowed results only).
DenialIsFresh == \A c \in Calls : call[c].pc = "out" => call[c].asked

\* Once everyone who was signing in has finished, the proxy has a token, unless a device
\* sign-in failed: no overlap of sign-ins that succeeded, and no file that could not be
\* written or removed, leaves it without (ReauthenticateOnFailure drops the token of whoever
\* was faster).
SignInsSurviveRaces ==
    At("start", "done") /\ Resting /\ ~failed => source # 0

\* Players are let in and turned away on evidence, and overlapping sign-ins do not cost the
\* proxy its token.
AuthInv == Vouched /\ DenialIsFresh /\ SignInsSurviveRaces
=============================================================================
