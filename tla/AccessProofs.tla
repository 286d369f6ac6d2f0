---------------------------- MODULE AccessProofs ----------------------------
(***************************************************************************)
(* What is proved of authentication, of the API and of access control, for *)
(* any number of players, servers, logins, goroutines and requests.        *)
(***************************************************************************)
EXTENDS AccessControl, Authentication, APIAccess, FiniteSetTheorems, SequenceTheorems, WellFoundedInduction, TLAPS

-----------------------------------------------------------------------------
(* ExternalVerifier.                                                       *)

Prospects == [ticks : Nat, turns : Nat, calls : Nat, tokens : Nat,
              revokes : Nat, dials : Nat, faults : Nat, restarts : Nat]

Entries == [till : Nat, yes : BOOLEAN]

CallStates == [pc : {"idle", "asking", "answered", "in", "out"}, key : Asked \cup {""},
               yes : BOOLEAN, aged : BOOLEAN, asked : BOOLEAN, at : Nat]

VerifierTypes ==
    /\ cache \in [Asked -> Entries]
    /\ swept \in Nat
    /\ service \in [Asked -> BOOLEAN]
    /\ call \in [Calls -> CallStates]
    /\ ticks \in Nat \ {0}
    /\ approved \in [Asked -> Nat]
    /\ ahead \in Prospects

\* An entry is a yes of the service, and lasts no longer than if it had been stored one
\* tick after the service said so.
Backed(e, when) == e = NoEntry \/ (e.yes /\ when > 0 /\ e.till <= when + CacheTicks + 1)

\* What a login knows of the service's answer: a yes is at most a tick old when it arrives,
\* and as fresh as the clock unless a tick passed since the request was made.
Answers(p, now, when) ==
    /\ p.pc # "idle" => p.key \in Asked
    /\ p.pc = "answered" => p.asked
    /\ p.pc = "answered" /\ p.yes =>
         /\ when[p.key] > 0
         /\ now <= when[p.key] + 1
         /\ ~p.aged => now <= when[p.key]
    /\ p.pc = "out" => p.asked
    /\ p.pc = "in" => when[p.key] > 0 /\ p.at <= when[p.key] + CacheTicks + 1

VerifierIInv ==
    /\ VerifierTypes
    /\ \A k \in Asked : approved[k] <= ticks
    /\ \A k \in Asked : Backed(cache[k], approved[k])
    /\ \A c \in Calls : Answers(call[c], ticks, approved)

LEMMA LastsNat == CacheTicks \in Nat
  BY AuthAssumption

\* The service only ever approves later: what was backed stays backed.
LEMMA StaysBacked ==
  ASSUME NEW e \in Entries, NEW when \in Nat, NEW later \in Nat, when <= later, Backed(e, when)
  PROVE  Backed(e, later)
  BY AuthAssumption DEF Backed, Entries

LEMMA StaysAnswered ==
  ASSUME NEW p \in CallStates, NEW now \in Nat, NEW when \in [Asked -> Nat],
         NEW later \in [Asked -> Nat], \A k \in Asked : when[k] <= later[k],
         Answers(p, now, when)
  PROVE  Answers(p, now, later)
  <1>1. CASE p.pc = "idle"
    BY <1>1 DEF Answers
  <1>2. CASE p.pc # "idle"
    <2>1. p.key \in Asked /\ p.at \in Nat
      BY <1>2 DEF Answers, CallStates
    <2>2. /\ when[p.key] \in Nat /\ later[p.key] \in Nat /\ when[p.key] <= later[p.key]
      BY <2>1
    <2> QED
      BY <2>1, <2>2, LastsNat DEF Answers
  <1> QED
    BY <1>1, <1>2

LEMMA AuthDefaults ==
  /\ NoEntry \in Entries
  /\ NoCall \in CallStates
  /\ \A now, when : Answers(NoCall, now, when)
  BY DEF NoEntry, NoCall, Entries, CallStates, Answers

\* A step in which one login changes, and nothing the others rest on but that the service
\* may have approved of somebody.
LEMMA OneCall ==
  ASSUME VerifierIInv, NEW c \in Calls, NEW p \in CallStates,
         call' = [call EXCEPT ![c] = p],
         UNCHANGED ticks, approved' \in [Asked -> Nat],
         \A k \in Asked : approved[k] <= approved'[k],
         Answers(p, ticks, approved')
  PROVE  /\ call' \in [Calls -> CallStates]
         /\ \A d \in Calls : Answers(call'[d], ticks', approved')
  <1>1. call' \in [Calls -> CallStates]
    BY DEF VerifierIInv, VerifierTypes
  <1>2. ASSUME NEW d \in Calls
        PROVE  Answers(call'[d], ticks', approved')
    <2>1. CASE d = c
      <3>1. call'[d] = p
        BY <2>1 DEF VerifierIInv, VerifierTypes
      <3> QED
        BY <3>1
    <2>2. CASE d # c
      <3>1. call'[d] = call[d] /\ call[d] \in CallStates
        BY <2>2 DEF VerifierIInv, VerifierTypes
      <3>2. Answers(call[d], ticks, approved)
        BY DEF VerifierIInv
      <3>3. ticks \in Nat /\ approved \in [Asked -> Nat]
        BY DEF VerifierIInv, VerifierTypes
      <3>4. Answers(call[d], ticks, approved')
        BY <3>1, <3>2, <3>3, StaysAnswered
      <3> QED
        BY <3>1, <3>4
    <2> QED
      BY <2>1, <2>2
  <1> QED
    BY <1>1, <1>2

LEMMA VerifyKeeps ==
  ASSUME VerifierIInv, NEW c \in Calls, Verify(c)
  PROVE  VerifierIInv'
  <1>0. VerifierTypes
    BY DEF VerifierIInv
  <1>1. ahead' \in Prospects
    BY <1>0 DEF Verify, VerifierTypes, Prospects
  <1>2. PICK k \in Asked :
          call' = [call EXCEPT ![c] =
            IF getFromCache(k) THEN [NoCall EXCEPT !.pc = Verdict(cache[k].yes), !.key = k, !.at = ticks]
            ELSE [NoCall EXCEPT !.pc = "asking", !.key = k]]
    BY DEF Verify
  <1>3. UNCHANGED <<service, ticks, approved>>
    BY DEF Verify
  <1>4. /\ cache[k] \in Entries /\ Backed(cache[k], approved[k])
        /\ ticks \in Nat /\ approved \in [Asked -> Nat]
    BY <1>0, <1>2 DEF VerifierIInv, VerifierTypes
  <1>5. PICK p \in CallStates : /\ call' = [call EXCEPT ![c] = p]
                                /\ Answers(p, ticks, approved)
    <2>1. CASE getFromCache(k)
      <3>1. /\ cache[k].yes = TRUE /\ approved[k] > 0
            /\ ticks <= approved[k] + CacheTicks + 1
        BY <1>4, <2>1, AuthAssumption DEF getFromCache, Backed, Entries
      <3> DEFINE q == [NoCall EXCEPT !.pc = "in", !.key = k, !.at = ticks]
      <3>2. call' = [call EXCEPT ![c] = q]
        BY <1>2, <2>1, <3>1 DEF Verdict
      <3>3. /\ q \in CallStates /\ q.pc = "in" /\ q.key = k /\ q.at = ticks
        BY <1>2, <1>4 DEF NoCall, CallStates
      <3>4. Answers(q, ticks, approved)
        BY <1>2, <3>1, <3>3 DEF Answers
      <3> QED
        BY <3>2, <3>3, <3>4
    <2>2. CASE ~getFromCache(k)
      <3> DEFINE q == [NoCall EXCEPT !.pc = "asking", !.key = k]
      <3>2. call' = [call EXCEPT ![c] = q]
        BY <1>2, <2>2
      <3>3. /\ q \in CallStates /\ q.pc = "asking" /\ q.key = k
        BY <1>2 DEF NoCall, CallStates
      <3>4. Answers(q, ticks, approved)
        BY <1>2, <3>3 DEF Answers
      <3> QED
        BY <3>2, <3>3, <3>4
    <2> QED
      BY <2>1, <2>2
  <1>6. /\ call' \in [Calls -> CallStates]
        /\ \A d \in Calls : Answers(call'[d], ticks', approved')
    <2>1. \A j \in Asked : approved[j] <= approved'[j]
      BY <1>3, <1>4
    <2> QED
      BY <1>3, <1>4, <1>5, <2>1, OneCall
  <1>7. /\ cache' \in [Asked -> Entries] /\ swept' \in Nat
        /\ \A j \in Asked : Backed(cache'[j], approved'[j])
    <2>1. CASE UNCHANGED <<cache, swept>>
      BY <1>3, <2>1 DEF VerifierIInv, VerifierTypes
    <2>2. CASE /\ cache' = [j \in Asked |-> IF ticks > cache[j].till THEN NoEntry ELSE cache[j]]
               /\ swept' = ticks
      <3>1. \A j \in Asked : cache'[j] \in {NoEntry, cache[j]}
        BY <2>2
      <3>2. \A j \in Asked : cache'[j] \in Entries /\ Backed(cache'[j], approved[j])
        BY <1>0, <3>1, AuthDefaults DEF VerifierIInv, VerifierTypes, Backed
      <3> QED
        BY <1>0, <1>3, <2>2, <3>2 DEF VerifierTypes
    <2> QED
      BY <2>1, <2>2 DEF Verify, maybeCleanupExpired
  <1> QED
    BY <1>0, <1>1, <1>3, <1>6, <1>7 DEF VerifierIInv, VerifierTypes

LEMMA doVerifyKeeps ==
  ASSUME VerifierIInv, NEW c \in Calls, doVerify(c)
  PROVE  VerifierIInv'
  <1>0. VerifierTypes
    BY DEF VerifierIInv
  <1>1. call[c] \in CallStates /\ call[c].key \in Asked
    BY <1>0 DEF doVerify, VerifierIInv, VerifierTypes, Answers
  <1> DEFINE p == [call[c] EXCEPT !.pc = "answered", !.yes = service[call[c].key], !.asked = TRUE]
  <1>2. service[call[c].key] \in BOOLEAN
    BY <1>0, <1>1 DEF VerifierTypes
  <1>3. /\ p \in CallStates /\ p.pc = "answered" /\ p.key = call[c].key /\ p.asked
        /\ p.yes = service[call[c].key]
    BY <1>1, <1>2 DEF CallStates
  <1>4. call' = [call EXCEPT ![c] = p]
    BY <1>0, <1>1 DEF doVerify, VerifierTypes
  <1>5. ticks \in Nat \ {0} /\ \A k \in Asked : approved[k] \in Nat /\ approved[k] <= ticks
    BY <1>0 DEF VerifierIInv, VerifierTypes
  <1>6. /\ approved' \in [Asked -> Nat]
        /\ \A k \in Asked : approved[k] <= approved'[k] /\ approved'[k] <= ticks
        /\ service[call[c].key] => approved'[call[c].key] = ticks
    <2>1. CASE service[call[c].key]
      BY <1>0, <1>1, <1>5, <2>1 DEF doVerify, VerifierTypes
    <2>2. CASE ~service[call[c].key]
      BY <1>0, <1>5, <2>2 DEF doVerify, VerifierTypes
    <2> QED
      BY <2>1, <2>2
  <1>7. Answers(p, ticks, approved')
    <2> HIDE DEF p
    <2> QED
      BY <1>1, <1>3, <1>5, <1>6 DEF Answers
  <1>8. UNCHANGED <<cache, swept, service, ticks, ahead>>
    BY DEF doVerify
  <1>9. /\ call' \in [Calls -> CallStates]
        /\ \A d \in Calls : Answers(call'[d], ticks', approved')
    <2> HIDE DEF p
    <2> QED
      BY <1>3, <1>4, <1>6, <1>7, <1>8, OneCall
  <1>10. \A k \in Asked : Backed(cache'[k], approved'[k])
    <2> TAKE k \in Asked
    <2>1. /\ cache[k] \in Entries /\ approved[k] \in Nat /\ approved'[k] \in Nat
          /\ Backed(cache[k], approved[k])
      BY <1>0, <1>6 DEF VerifierIInv, VerifierTypes
    <2> QED
      BY <1>6, <1>8, <2>1, StaysBacked
  <1> QED
    BY <1>0, <1>6, <1>8, <1>9, <1>10 DEF VerifierIInv, VerifierTypes

LEMMA VerifyFailsKeeps ==
  ASSUME VerifierIInv, NEW c \in Calls, VerifyFails(c)
  PROVE  VerifierIInv'
  <1>0. VerifierTypes
    BY DEF VerifierIInv
  <1>1. call[c] \in CallStates /\ call[c].key \in Asked
    BY <1>0 DEF VerifyFails, VerifierIInv, VerifierTypes, Answers
  <1>2. ahead' \in Prospects
    BY <1>0 DEF VerifyFails, VerifierTypes, Prospects
  <1> DEFINE p == [call[c] EXCEPT !.pc = "answered", !.yes = FALSE, !.asked = TRUE]
  <1>3. /\ p \in CallStates /\ p.pc = "answered" /\ p.key = call[c].key /\ p.asked /\ ~p.yes
    BY <1>1 DEF CallStates
  <1>4. call' = [call EXCEPT ![c] = p]
    BY <1>0, <1>1 DEF VerifyFails, VerifierTypes
  <1>5. UNCHANGED <<cache, swept, service, ticks, approved>>
    BY DEF VerifyFails
  <1>6. /\ call' \in [Calls -> CallStates]
        /\ \A d \in Calls : Answers(call'[d], ticks', approved')
    <2> HIDE DEF p
    <2>1. Answers(p, ticks, approved')
      BY <1>1, <1>3 DEF Answers
    <2>2. approved' \in [Asked -> Nat] /\ \A k \in Asked : approved[k] <= approved'[k]
      BY <1>0, <1>5 DEF VerifierTypes
    <2> QED
      BY <1>3, <1>4, <1>5, <2>1, <2>2, OneCall
  <1> QED
    BY <1>0, <1>2, <1>5, <1>6 DEF VerifierIInv, VerifierTypes

LEMMA VerifyReturnsKeeps ==
  ASSUME VerifierIInv, NEW c \in Calls, VerifyReturns(c)
  PROVE  VerifierIInv'
  <1>0. VerifierTypes
    BY DEF VerifierIInv
  <1>1. call[c] \in CallStates /\ Answers(call[c], ticks, approved) /\ call[c].pc = "answered"
    BY <1>0 DEF VerifyReturns, VerifierIInv, VerifierTypes
  <1>2. call[c].key \in Asked /\ call[c].yes \in BOOLEAN
    BY <1>1 DEF Answers, CallStates
  <1>3. /\ ticks \in Nat \ {0} /\ approved \in [Asked -> Nat] /\ approved[call[c].key] \in Nat
    BY <1>0, <1>2 DEF VerifierTypes
  <1>4. UNCHANGED <<swept, service, ticks, approved, ahead>>
    BY DEF VerifyReturns
  <1> DEFINE p == [call[c] EXCEPT !.pc = Verdict(call[c].yes), !.at = ticks]
  <1>5. call' = [call EXCEPT ![c] = p]
    BY <1>0, <1>1 DEF VerifyReturns, VerifierTypes
  <1>6. /\ p \in CallStates /\ p.key = call[c].key /\ p.at = ticks /\ p.asked = call[c].asked
        /\ p.pc = Verdict(call[c].yes)
    BY <1>1, <1>3 DEF CallStates, Verdict
  <1>7. Answers(p, ticks, approved)
    <2> HIDE DEF p
    <2> QED
      BY <1>1, <1>2, <1>3, <1>6, AuthAssumption DEF Answers, Verdict
  <1>8. /\ call' \in [Calls -> CallStates]
        /\ \A d \in Calls : Answers(call'[d], ticks', approved')
    <2> HIDE DEF p
    <2>2. approved' \in [Asked -> Nat] /\ \A k \in Asked : approved[k] <= approved'[k]
      BY <1>0, <1>4 DEF VerifierTypes
    <2> QED
      BY <1>4, <1>5, <1>6, <1>7, <2>2, OneCall
  <1>9. /\ cache' \in [Asked -> Entries]
        /\ \A k \in Asked : Backed(cache'[k], approved'[k])
    <2>1. CASE ~call[c].yes
      <3>1. UNCHANGED cache
        BY <2>1 DEF VerifyReturns, addToCache
      <3> QED
        BY <1>4, <3>1 DEF VerifierIInv, VerifierTypes
    <2>2. CASE call[c].yes
      <3> DEFINE e == [till |-> ticks + CacheTicks, yes |-> call[c].yes]
      <3>1. cache' = [cache EXCEPT ![call[c].key] = e]
        BY <2>2 DEF VerifyReturns, addToCache, Remembered
      <3>2. e \in Entries /\ e.yes = TRUE /\ e.till = ticks + CacheTicks
        BY <1>2, <1>3, <2>2, AuthAssumption DEF Entries
      <3>3. Backed(e, approved[call[c].key])
        <4> HIDE DEF e
        <4> QED
          BY <1>1, <1>2, <1>3, <2>2, <3>2, AuthAssumption DEF Backed, Answers
      <3> HIDE DEF e
      <3>4. cache' \in [Asked -> Entries]
        BY <1>0, <1>2, <3>1, <3>2 DEF VerifierTypes
      <3>5. \A k \in Asked : Backed(cache'[k], approved[k])
        BY <1>0, <1>2, <3>1, <3>3 DEF VerifierIInv, VerifierTypes
      <3> QED
        BY <1>4, <3>4, <3>5
    <2> QED
      BY <2>1, <2>2
  <1> QED
    BY <1>0, <1>4, <1>8, <1>9 DEF VerifierIInv, VerifierTypes

LEMMA LoginOverKeeps ==
  ASSUME VerifierIInv, NEW c \in Calls, LoginOver(c)
  PROVE  VerifierIInv'
  <1>0. VerifierTypes
    BY DEF VerifierIInv
  <1>1. UNCHANGED <<cache, swept, service, ticks, approved, ahead>>
    BY DEF LoginOver
  <1>2. approved' \in [Asked -> Nat] /\ \A k \in Asked : approved[k] <= approved'[k]
    BY <1>0, <1>1 DEF VerifierTypes
  <1>3. /\ call' \in [Calls -> CallStates]
        /\ \A d \in Calls : Answers(call'[d], ticks', approved')
    BY <1>1, <1>2, AuthDefaults, OneCall DEF LoginOver
  <1> QED
    BY <1>0, <1>1, <1>3 DEF VerifierIInv, VerifierTypes

LEMMA ServiceTurnsKeeps ==
  ASSUME VerifierIInv, NEW k \in Asked, ServiceTurns(k)
  PROVE  VerifierIInv'
  <1>0. VerifierTypes
    BY DEF VerifierIInv
  <1>1. UNCHANGED <<cache, swept, call, ticks, approved>>
    BY DEF ServiceTurns
  <1>2. ahead' \in Prospects
    BY <1>0 DEF ServiceTurns, VerifierTypes, Prospects
  <1>3. service' \in [Asked -> BOOLEAN]
    BY <1>0 DEF ServiceTurns, VerifierTypes
  <1> QED
    BY <1>0, <1>1, <1>2, <1>3 DEF VerifierIInv, VerifierTypes

LEMMA AuthTickKeeps ==
  ASSUME VerifierIInv, AuthTick
  PROVE  VerifierIInv'
  <1>0. VerifierTypes
    BY DEF VerifierIInv
  <1>1. UNCHANGED <<cache, swept, service, approved>> /\ ticks' = ticks + 1
    BY DEF AuthTick
  <1>2. ahead' \in Prospects
    BY <1>0 DEF AuthTick, VerifierTypes, Prospects
  <1>3. ticks' \in Nat \ {0} /\ ticks \in Nat
    BY <1>0, <1>1 DEF VerifierTypes
  <1>4. \A k \in Asked : approved'[k] <= ticks'
    BY <1>0, <1>1, <1>3 DEF VerifierIInv, VerifierTypes
  <1>5. ASSUME NEW c \in Calls
        PROVE  call'[c] \in CallStates /\ Answers(call'[c], ticks', approved')
    <2> DEFINE p == [call[c] EXCEPT !.aged = call[c].pc \in {"asking", "answered"}]
    <2>1. call'[c] = p
      BY DEF AuthTick
    <2>2. call[c] \in CallStates /\ Answers(call[c], ticks, approved)
      BY <1>0 DEF VerifierIInv, VerifierTypes
    <2>3. /\ p \in CallStates /\ p.pc = call[c].pc /\ p.key = call[c].key /\ p.yes = call[c].yes
          /\ p.asked = call[c].asked /\ p.at = call[c].at
          /\ call[c].pc = "answered" => p.aged
      <3>1. (call[c].pc \in {"asking", "answered"}) \in BOOLEAN
        OBVIOUS
      <3>2. PICK b \in BOOLEAN : b = (call[c].pc \in {"asking", "answered"})
        BY <3>1
      <3>3. p = [call[c] EXCEPT !.aged = b]
        BY <3>2
      <3> QED
        BY <2>2, <3>2, <3>3 DEF CallStates
    <2>4. call[c].pc = "answered" => ~call[c].aged
      BY DEF AuthTick
    <2>5. approved \in [Asked -> Nat]
      BY <1>0 DEF VerifierTypes
    <2> HIDE DEF p
    <2>6. Answers(p, ticks + 1, approved)
      <3>1. CASE p.pc = "idle"
        BY <3>1 DEF Answers
      <3>2. CASE p.pc # "idle"
        <4>1. p.key \in Asked /\ approved[p.key] \in Nat
          BY <2>2, <2>3, <2>5, <3>2 DEF Answers
        <4> QED
          BY <1>3, <2>2, <2>3, <2>4, <4>1 DEF Answers
      <3> QED
        BY <3>1, <3>2
    <2> QED
      BY <1>1, <2>1, <2>3, <2>6
  <1>6. call' \in [Calls -> CallStates]
    BY <1>5 DEF AuthTick
  <1> QED
    BY <1>0, <1>1, <1>2, <1>3, <1>4, <1>5, <1>6 DEF VerifierIInv, VerifierTypes

-----------------------------------------------------------------------------
(* XboxAuthManager.                                                        *)

AgentStates ==
    [pc : {"off", "refresh", "device", "issued", "save", "done", "dial", "validate", "again", "clear"},
     token : Nat]

\* States of a goroutine that will put a token in place, or fail.
Replacing == {"clear", "device", "issued"}

\* Nobody signs in beside MITMProxy.Start before it is done, what a goroutine is about to
\* put in place is a token, and when there is none somebody is fetching one.
SignInIInv ==
    /\ source \in Nat
    /\ file \in Nat
    /\ failed \in BOOLEAN
    /\ agent \in [Agents -> AgentStates]
    /\ \A a \in Agents : agent[a].pc \in {"refresh", "issued", "save"} => agent[a].token > 0
    /\ agent["start"].pc \in {"off", "refresh", "device", "issued", "save", "done"}
    /\ agent["start"].pc # "done" => \A a \in Agents \ {"start"} : agent[a].pc = "off"
    /\ agent["start"].pc = "save" => source # 0
    /\ agent["start"].pc = "done" /\ ~failed /\ source = 0 =>
         \E a \in Agents : agent[a].pc \in Replacing

AuthIInv == VerifierIInv /\ SignInIInv

LEMMA StartIsAgent == "start" \in Agents
  BY AuthAssumption

\* MITMProxy.Start takes a step.
LEMMA StartMoves ==
  ASSUME SignInIInv, agent["start"].pc # "done", NEW p \in AgentStates,
         agent' = [agent EXCEPT !["start"] = p],
         source' \in Nat, file' \in Nat, failed' \in BOOLEAN,
         p.pc \in {"off", "refresh", "device", "issued", "save", "done"},
         p.pc \in {"refresh", "issued", "save"} => p.token > 0,
         p.pc \in {"save", "done"} => source' # 0
  PROVE  SignInIInv'
  <1>1. agent \in [Agents -> AgentStates]
    BY DEF SignInIInv
  <1>2. agent' \in [Agents -> AgentStates] /\ agent'["start"] = p
    BY <1>1, StartIsAgent
  <1>3. \A a \in Agents \ {"start"} : agent'[a] = agent[a]
    BY <1>1
  <1>4. \A a \in Agents : agent'[a].pc \in {"refresh", "issued", "save"} => agent'[a].token > 0
    BY <1>2, <1>3 DEF SignInIInv
  <1>5. \A a \in Agents \ {"start"} : agent'[a].pc = "off"
    BY <1>3 DEF SignInIInv
  <1> QED
    BY <1>2, <1>4, <1>5 DEF SignInIInv

\* A goroutine of a player's connection takes a step.
LEMMA OtherMoves ==
  ASSUME SignInIInv, agent["start"].pc = "done", NEW a \in Agents \ {"start"}, NEW p \in AgentStates,
         agent' = [agent EXCEPT ![a] = p],
         source' \in Nat, file' \in Nat, failed' \in BOOLEAN,
         p.pc \in {"refresh", "issued", "save"} => p.token > 0,
         source' = 0 /\ ~failed' =>
            p.pc \in Replacing \/ (source = 0 /\ ~failed /\ agent[a].pc \notin Replacing)
  PROVE  SignInIInv'
  <1>1. agent \in [Agents -> AgentStates]
    BY DEF SignInIInv
  <1>2. agent' \in [Agents -> AgentStates] /\ agent'[a] = p
    BY <1>1
  <1>3. \A b \in Agents \ {a} : agent'[b] = agent[b]
    BY <1>1
  <1>4. \A b \in Agents : agent'[b].pc \in {"refresh", "issued", "save"} => agent'[b].token > 0
    BY <1>2, <1>3 DEF SignInIInv
  <1>5. agent'["start"].pc = "done"
    BY <1>3, StartIsAgent
  <1>6. ASSUME ~failed', source' = 0
        PROVE  \E b \in Agents : agent'[b].pc \in Replacing
    <2>1. CASE p.pc \in Replacing
      BY <1>2, <2>1
    <2>2. CASE source = 0 /\ ~failed /\ agent[a].pc \notin Replacing
      <3>1. PICK b \in Agents : agent[b].pc \in Replacing
        BY <2>2 DEF SignInIInv
      <3>2. b # a
        BY <2>2, <3>1
      <3> QED
        BY <1>3, <3>1, <3>2
    <2> QED
      BY <1>6, <2>1, <2>2
  <1> QED
    BY <1>2, <1>4, <1>5, <1>6 DEF SignInIInv

\* A goroutine that is not off and is not MITMProxy.Start finds Start done.
LEMMA StartIsDone ==
  ASSUME SignInIInv, NEW a \in Agents, a # "start", agent[a].pc # "off"
  PROVE  agent["start"].pc = "done"
  BY DEF SignInIInv

\* Its step to another state, with the same token.
LEMMA AgentGoes ==
  ASSUME SignInIInv, NEW a \in Agents, NEW s \in {"off", "refresh", "device", "issued", "save",
                                       "done", "dial", "validate", "again", "clear"}, Go(a, s)
  PROVE  \E p \in AgentStates : agent' = [agent EXCEPT ![a] = p] /\ p.pc = s /\ p.token = agent[a].token
  <1>1. agent[a] \in AgentStates
    BY DEF SignInIInv
  <1> DEFINE p == [agent[a] EXCEPT !.pc = s]
  <1>2. p \in AgentStates /\ p.pc = s /\ p.token = agent[a].token
    BY <1>1 DEF AgentStates
  <1>3. agent' = [agent EXCEPT ![a] = p]
    BY <1>1 DEF Go, SignInIInv
  <1> QED
    BY <1>2, <1>3

LEMMA LoadCachedTokensKeeps ==
  ASSUME SignInIInv, LoadCachedTokens
  PROVE  SignInIInv'
  <1>1. /\ UNCHANGED <<source, file, failed>> /\ agent["start"].pc = "off"
        /\ file \in Nat /\ source \in Nat /\ failed \in BOOLEAN
    BY DEF LoadCachedTokens, At, SignInIInv
  <1>2. CASE file = 0
    <2> DEFINE p == [pc |-> "device", token |-> 0]
    <2>1. agent' = [agent EXCEPT !["start"] = p]
      BY <1>2 DEF LoadCachedTokens
    <2>2. p \in AgentStates /\ p.pc = "device"
      BY DEF AgentStates
    <2> HIDE DEF p
    <2> QED
      BY <1>1, <2>1, <2>2, StartMoves
  <1>3. CASE file # 0
    <2> DEFINE p == [pc |-> "refresh", token |-> file]
    <2>1. agent' = [agent EXCEPT !["start"] = p]
      BY <1>3 DEF LoadCachedTokens
    <2>2. p \in AgentStates /\ p.pc = "refresh" /\ p.token > 0
      BY <1>1, <1>3 DEF AgentStates
    <2> HIDE DEF p
    <2> QED
      BY <1>1, <2>1, <2>2, StartMoves
  <1> QED
    BY <1>2, <1>3

LEMMA RefreshCachedKeeps ==
  ASSUME SignInIInv, ahead \in Prospects, RefreshCached
  PROVE  SignInIInv' /\ ahead' \in Prospects
  <1>1. /\ agent["start"].pc = "refresh" /\ agent["start"].token \in Nat \ {0}
        /\ file \in Nat /\ source \in Nat /\ failed \in BOOLEAN /\ ahead.tokens \in Nat
        /\ UNCHANGED failed
    BY StartIsAgent DEF RefreshCached, At, SignInIInv, AgentStates, Prospects
  <1>2. CASE /\ source' = agent["start"].token
             /\ Go("start", "done")
             /\ UNCHANGED <<file, failed, ahead>>
    <2>1. PICK p \in AgentStates : agent' = [agent EXCEPT !["start"] = p] /\ p.pc = "done"
      BY <1>2, AgentGoes, StartIsAgent
    <2>2. source' \in Nat /\ source' # 0 /\ file' \in Nat /\ failed' \in BOOLEAN
      BY <1>1, <1>2
    <2> QED
      BY <1>1, <1>2, <2>1, <2>2, StartMoves
  <1>3. CASE /\ ahead.tokens > 0
             /\ ahead' = [ahead EXCEPT !.tokens = @ - 1]
             /\ source' = ahead.tokens + 1
             /\ file' \in {file, ahead.tokens + 1}
             /\ Go("start", "done")
    <2>1. PICK p \in AgentStates : agent' = [agent EXCEPT !["start"] = p] /\ p.pc = "done"
      BY <1>3, AgentGoes, StartIsAgent
    <2>2. source' \in Nat /\ source' # 0 /\ file' \in Nat /\ failed' \in BOOLEAN
      BY <1>1, <1>3
    <2>3. ahead' \in Prospects
      BY <1>3 DEF Prospects
    <2> QED
      BY <1>1, <2>1, <2>2, <2>3, StartMoves
  <1>4. CASE /\ agent["start"].token \in revoked \/ ahead.faults > 0
             /\ ahead' = IF agent["start"].token \in revoked THEN ahead ELSE [ahead EXCEPT !.faults = @ - 1]
             /\ file' = 0
             /\ Go("start", "device")
             /\ UNCHANGED <<source, failed>>
    <2>1. PICK p \in AgentStates : agent' = [agent EXCEPT !["start"] = p] /\ p.pc = "device"
      BY <1>4, AgentGoes, StartIsAgent
    <2>2. source' \in Nat /\ file' \in Nat /\ failed' \in BOOLEAN
      BY <1>1, <1>4
    <2>3. ahead' \in Prospects
      BY <1>4 DEF Prospects
    <2> QED
      BY <1>1, <2>1, <2>2, <2>3, StartMoves
  <1> QED
    BY <1>2, <1>3, <1>4 DEF RefreshCached

LEMMA RevokeKeeps ==
  ASSUME SignInIInv, ahead \in Prospects, Revoke
  PROVE  SignInIInv' /\ ahead' \in Prospects
  <1>1. ahead' \in Prospects
    BY DEF Revoke, Prospects
  <1> QED
    BY <1>1 DEF Revoke, SignInIInv

LEMMA DialWithTokenKeeps ==
  ASSUME SignInIInv, ahead \in Prospects, NEW a \in Agents, DialWithToken(a)
  PROVE  SignInIInv' /\ ahead' \in Prospects
  <1>1. ahead' \in Prospects
    BY DEF DialWithToken, Prospects
  <1>2. /\ UNCHANGED <<source, file, failed>> /\ source # 0 /\ source \in Nat
        /\ file \in Nat /\ failed \in BOOLEAN
        /\ agent["start"].pc = "done" /\ a # "start"
    BY DEF DialWithToken, At, SignInIInv
  <1> DEFINE p == [pc |-> "dial", token |-> source]
  <1>3. agent' = [agent EXCEPT ![a] = p] /\ p.pc = "dial"
    BY DEF DialWithToken
  <1>4. p \in AgentStates
    BY <1>2 DEF AgentStates
  <1> HIDE DEF p
  <1> QED
    BY <1>1, <1>2, <1>3, <1>4, OtherMoves

LEMMA handleConnectionErrorKeeps ==
  ASSUME SignInIInv, NEW a \in Agents, handleConnectionError(a)
  PROVE  SignInIInv'
  <1>1. /\ UNCHANGED <<source, file, failed>> /\ source \in Nat /\ file \in Nat /\ failed \in BOOLEAN
        /\ agent[a].pc = "dial" /\ a # "start"
    BY DEF handleConnectionError, At, SignInIInv
  <1>2. agent["start"].pc = "done"
    BY <1>1, StartIsDone
  <1>3. PICK s \in {"validate", "done"} :
           s = IF agent[a].token \in revoked /\ source # 0 THEN "validate" ELSE "done"
    OBVIOUS
  <1> DEFINE p == [pc |-> s, token |-> 0]
  <1>4. agent' = [agent EXCEPT ![a] = p]
    BY <1>3 DEF handleConnectionError
  <1>5. p \in AgentStates /\ p.pc = s
    BY DEF AgentStates
  <1> HIDE DEF p
  <1> QED
    BY <1>1, <1>2, <1>4, <1>5, OtherMoves DEF Replacing

LEMMA ValidateKeeps ==
  ASSUME SignInIInv, ahead \in Prospects, NEW a \in Agents, ValidateAndRefreshToken(a)
  PROVE  SignInIInv' /\ ahead' \in Prospects
  <1>1. /\ UNCHANGED <<source, file, failed>> /\ source \in Nat /\ file \in Nat /\ failed \in BOOLEAN
        /\ agent[a].pc = "validate" /\ a # "start"
    BY DEF ValidateAndRefreshToken, At, SignInIInv
  <1>2. agent["start"].pc = "done"
    BY <1>1, StartIsDone
  <1>3. PICK s \in {"again", "done"} : Go(a, s) /\ (s = "done" => source \notin revoked \cup {0})
    BY DEF ValidateAndRefreshToken
  <1>4. ahead' \in Prospects
    BY DEF ValidateAndRefreshToken, Prospects
  <1>5. PICK p \in AgentStates : agent' = [agent EXCEPT ![a] = p] /\ p.pc = s
    BY <1>3, AgentGoes
  <1> QED
    BY <1>1, <1>2, <1>3, <1>4, <1>5, OtherMoves DEF Replacing

LEMMA ReauthenticateKeeps ==
  ASSUME SignInIInv, NEW a \in Agents, ReauthenticateOnFailure(a)
  PROVE  SignInIInv'
  <1>1. /\ UNCHANGED <<file, failed>> /\ source' = 0 /\ file \in Nat /\ failed \in BOOLEAN
        /\ agent[a].pc = "again" /\ a # "start"
    BY DEF ReauthenticateOnFailure, At, SignInIInv
  <1>2. agent["start"].pc = "done"
    BY <1>1, StartIsDone
  <1>5. PICK p \in AgentStates : agent' = [agent EXCEPT ![a] = p] /\ p.pc = "clear"
    BY AgentGoes DEF ReauthenticateOnFailure
  <1> QED
    BY <1>1, <1>2, <1>5, OtherMoves DEF Replacing

LEMMA ClearCachedKeeps ==
  ASSUME SignInIInv, ahead \in Prospects, NEW a \in Agents, ClearCached(a)
  PROVE  SignInIInv' /\ ahead' \in Prospects
  <1>1. /\ UNCHANGED <<source, failed>> /\ file' \in Nat /\ failed \in BOOLEAN /\ source \in Nat
        /\ agent[a].pc = "clear" /\ a # "start"
    BY DEF ClearCached, At, SignInIInv
  <1>2. agent["start"].pc = "done"
    BY <1>1, StartIsDone
  <1>3. ahead' \in Prospects
    BY DEF ClearCached, Prospects
  <1>5. PICK p \in AgentStates : agent' = [agent EXCEPT ![a] = p] /\ p.pc = "device"
    BY AgentGoes DEF ClearCached
  <1> QED
    BY <1>1, <1>2, <1>3, <1>5, OtherMoves DEF Replacing

LEMMA RequestLiveTokenKeeps ==
  ASSUME SignInIInv, ahead \in Prospects, NEW a \in Agents, RequestLiveToken(a)
  PROVE  SignInIInv' /\ ahead' \in Prospects
  <1>1. /\ UNCHANGED <<source, file>> /\ source \in Nat /\ file \in Nat /\ failed \in BOOLEAN
        /\ agent[a].pc = "device" /\ ahead.tokens \in Nat
        /\ failed' \in BOOLEAN
    BY DEF RequestLiveToken, At, SignInIInv, Prospects
  <1>2. a # "start" => agent["start"].pc = "done"
    BY <1>1, StartIsDone
  <1>3. ahead' \in Prospects
    BY DEF RequestLiveToken, Prospects
  <1>4. CASE /\ ahead.tokens > 0
             /\ agent' = [agent EXCEPT ![a] = [pc |-> "issued", token |-> ahead.tokens + 1]]
             /\ UNCHANGED failed
    <2> DEFINE p == [pc |-> "issued", token |-> ahead.tokens + 1]
    <2>1. agent' = [agent EXCEPT ![a] = p]
      BY <1>4
    <2>2. p \in AgentStates /\ p.pc = "issued" /\ p.token > 0
      BY <1>1 DEF AgentStates
    <2> HIDE DEF p
    <2>3. CASE a = "start"
      BY <1>1, <1>3, <2>1, <2>2, <2>3, StartMoves
    <2>4. CASE a # "start"
      BY <1>1, <1>2, <1>3, <2>1, <2>2, <2>4, OtherMoves DEF Replacing
    <2> QED
      BY <2>3, <2>4
  <1>5. CASE Go(a, IF a = "start" THEN "off" ELSE "done") /\ failed' = TRUE
    <2>1. PICK s \in {"off", "done"} : s = IF a = "start" THEN "off" ELSE "done"
      OBVIOUS
    <2>2. PICK p \in AgentStates : agent' = [agent EXCEPT ![a] = p] /\ p.pc = s
      BY <1>5, <2>1, AgentGoes
    <2>3. CASE a = "start"
      BY <1>1, <1>3, <2>1, <2>2, <2>3, StartMoves
    <2>4. CASE a # "start"
      BY <1>1, <1>2, <1>3, <1>5, <2>1, <2>2, <2>4, OtherMoves
    <2> QED
      BY <2>3, <2>4
  <1> QED
    BY <1>4, <1>5 DEF RequestLiveToken

LEMMA UseTokenKeeps ==
  ASSUME SignInIInv, NEW a \in Agents, UseToken(a)
  PROVE  SignInIInv'
  <1>1. /\ UNCHANGED <<file, failed>> /\ file \in Nat /\ failed \in BOOLEAN
        /\ agent[a].pc = "issued" /\ agent[a] \in AgentStates /\ agent[a].token > 0
        /\ source' = agent[a].token
    BY DEF UseToken, At, SignInIInv
  <1>2. a # "start" => agent["start"].pc = "done"
    BY <1>1, StartIsDone
  <1>3. source' \in Nat /\ source' # 0 /\ agent[a].token \in Nat
    BY <1>1 DEF AgentStates
  <1>4. PICK p \in AgentStates : agent' = [agent EXCEPT ![a] = p] /\ p.pc = "save" /\ p.token = agent[a].token
    BY AgentGoes DEF UseToken
  <1>5. CASE a = "start"
    BY <1>1, <1>3, <1>4, <1>5, StartMoves
  <1>6. CASE a # "start"
    BY <1>1, <1>2, <1>3, <1>4, <1>6, OtherMoves
  <1> QED
    BY <1>5, <1>6

LEMMA saveTokenToCacheKeeps ==
  ASSUME SignInIInv, ahead \in Prospects, NEW a \in Agents, saveTokenToCache(a)
  PROVE  SignInIInv' /\ ahead' \in Prospects
  <1>1. /\ UNCHANGED <<source, failed>> /\ file' \in Nat /\ failed \in BOOLEAN /\ source \in Nat
        /\ agent[a].pc = "save"
    BY DEF saveTokenToCache, At, SignInIInv, AgentStates
  <1>2. a # "start" => agent["start"].pc = "done"
    BY <1>1, StartIsDone
  <1>3. ahead' \in Prospects
    BY DEF saveTokenToCache, Prospects
  <1> DEFINE p == [pc |-> "done", token |-> 0]
  <1>4. agent' = [agent EXCEPT ![a] = p] /\ p.pc = "done"
    BY DEF saveTokenToCache
  <1>5. p \in AgentStates
    BY DEF AgentStates
  <1> HIDE DEF p
  <1>6. CASE a = "start"
    <2>1. source # 0
      BY <1>1, <1>6 DEF SignInIInv
    <2> QED
      BY <1>1, <1>3, <1>4, <1>5, <1>6, <2>1, StartMoves
  <1>7. CASE a # "start"
    BY <1>1, <1>2, <1>3, <1>4, <1>5, <1>7, OtherMoves DEF Replacing
  <1> QED
    BY <1>6, <1>7

LEMMA RestartMITMKeeps ==
  ASSUME SignInIInv, ahead \in Prospects, RestartMITM
  PROVE  SignInIInv' /\ ahead' \in Prospects
  <1>1. ahead' \in Prospects
    BY DEF RestartMITM, Prospects
  <1>2. Off \in AgentStates /\ Off.pc = "off"
    BY DEF Off, AgentStates
  <1>3. agent' \in [Agents -> AgentStates] /\ \A a \in Agents : agent'[a].pc = "off"
    BY <1>2 DEF RestartMITM
  <1> QED
    BY <1>1, <1>3, StartIsAgent DEF RestartMITM, SignInIInv

-----------------------------------------------------------------------------
(* Both together.                                                          *)

LEMMA AuthStarts ==
  ASSUME AuthInit
  PROVE  AuthIInv
  <1>1. ahead \in Prospects
    BY AuthAssumption DEF AuthInit, Prospects
  <1>2. VerifierIInv
    BY <1>1, AuthDefaults, LastsNat DEF AuthInit, VerifierIInv, VerifierTypes, Backed
  <1>3. SignInIInv
    <2>1. Off \in AgentStates /\ Off.pc = "off"
      BY DEF Off, AgentStates
    <2>2. agent \in [Agents -> AgentStates] /\ \A a \in Agents : agent[a].pc = "off"
      BY <2>1 DEF AuthInit
    <2> QED
      <3>1. file \in {0} \cup (IF ahead.tokens > 0 THEN {1} ELSE {}) /\ source = 0 /\ failed = FALSE
        BY DEF AuthInit
      <3>2. file \in Nat
        BY <3>1
      <3> QED
        BY <2>2, <3>1, <3>2, StartIsAgent DEF SignInIInv
  <1> QED
    BY <1>2, <1>3 DEF AuthIInv

\* A step of the one part leaves the other alone; they share what may still happen.
LEMMA VerifierUntouched ==
  ASSUME VerifierIInv, UNCHANGED verifierVars, ahead' \in Prospects
  PROVE  VerifierIInv'
  BY DEF VerifierIInv, VerifierTypes, verifierVars

LEMMA SignInUntouched ==
  ASSUME SignInIInv, UNCHANGED xboxVars
  PROVE  SignInIInv'
  BY DEF SignInIInv, xboxVars

LEMMA AuthStep ==
  ASSUME AuthIInv, [AuthNext]_authVars
  PROVE  AuthIInv'
  <1>0. VerifierIInv /\ SignInIInv /\ ahead \in Prospects
    BY DEF AuthIInv, VerifierIInv, VerifierTypes
  <1>1. ASSUME NEW c \in Calls,
               Verify(c) \/ doVerify(c) \/ VerifyFails(c) \/ VerifyReturns(c) \/ LoginOver(c)
        PROVE  AuthIInv'
    <2>1. UNCHANGED xboxVars
      BY <1>1 DEF Verify, doVerify, VerifyFails, VerifyReturns, LoginOver
    <2>2. VerifierIInv'
      BY <1>0, <1>1, VerifyKeeps, doVerifyKeeps, VerifyFailsKeeps, VerifyReturnsKeeps, LoginOverKeeps
    <2> QED
      BY <1>0, <2>1, <2>2, SignInUntouched, SMTT(30) DEF AuthIInv
  <1>2. ASSUME NEW k \in Asked, ServiceTurns(k)
        PROVE  AuthIInv'
    <2>1. UNCHANGED xboxVars
      BY <1>2 DEF ServiceTurns
    <2> QED
      BY <1>0, <1>2, <2>1, SignInUntouched, ServiceTurnsKeeps DEF AuthIInv
  <1>3. CASE AuthTick
    <2>1. UNCHANGED xboxVars
      BY <1>3 DEF AuthTick
    <2> QED
      BY <1>0, <1>3, <2>1, SignInUntouched, AuthTickKeeps DEF AuthIInv
  <1>4. CASE LoadCachedTokens \/ RefreshCached \/ Revoke \/ RestartMITM
    <2>1. UNCHANGED verifierVars
      BY <1>4 DEF LoadCachedTokens, RefreshCached, Revoke, RestartMITM
    <2>2. LoadCachedTokens => ahead' = ahead
      BY DEF LoadCachedTokens
    <2>3. SignInIInv' /\ ahead' \in Prospects
      BY <1>0, <1>4, <2>2, LoadCachedTokensKeeps, RefreshCachedKeeps, RevokeKeeps, RestartMITMKeeps
    <2> QED
      BY <1>0, <2>1, <2>3, VerifierUntouched DEF AuthIInv
  <1>5. ASSUME NEW a \in Agents,
               \/ DialWithToken(a) \/ handleConnectionError(a) \/ ValidateAndRefreshToken(a)
               \/ ReauthenticateOnFailure(a) \/ ClearCached(a)
               \/ RequestLiveToken(a) \/ UseToken(a) \/ saveTokenToCache(a)
        PROVE  AuthIInv'
    <2>1. UNCHANGED verifierVars
      BY <1>5 DEF DialWithToken, handleConnectionError, ValidateAndRefreshToken, ReauthenticateOnFailure,
                  ClearCached, RequestLiveToken, UseToken, saveTokenToCache
    <2>2. handleConnectionError(a) \/ ReauthenticateOnFailure(a) \/ UseToken(a) => ahead' = ahead
      BY DEF handleConnectionError, ReauthenticateOnFailure, UseToken
    <2>3. SignInIInv' /\ ahead' \in Prospects
      BY <1>0, <1>5, <2>2, DialWithTokenKeeps, handleConnectionErrorKeeps, ValidateKeeps,
         ReauthenticateKeeps, ClearCachedKeeps, RequestLiveTokenKeeps, UseTokenKeeps,
         saveTokenToCacheKeeps
    <2> QED
      BY <1>0, <2>1, <2>3, VerifierUntouched DEF AuthIInv
  <1>6. CASE UNCHANGED authVars
    <2>1. UNCHANGED verifierVars /\ UNCHANGED xboxVars /\ ahead' = ahead
      BY <1>6 DEF authVars
    <2> QED
      BY <1>0, <2>1, VerifierUntouched, SignInUntouched DEF AuthIInv
  <1> QED
    BY <1>1, <1>2, <1>3, <1>4, <1>5, <1>6 DEF AuthNext

\* What the verifier lets in the service approved of in time, nobody is turned away by a
\* remembered answer, and overlapping sign-ins end with a token (AuthInv): in every
\* behaviour of ExternalVerifier and XboxAuthManager, for any number of players, logins,
\* goroutines and tokens, and any length of the cache.
THEOREM AuthHolds == AuthSpec => []AuthInv
  <1>1. AuthIInv => AuthInv
    <2> SUFFICES ASSUME AuthIInv PROVE AuthInv
      OBVIOUS
    <2>1. Vouched
      BY DEF AuthIInv, VerifierIInv, Answers, Vouched
    <2>2. DenialIsFresh
      BY DEF AuthIInv, VerifierIInv, Answers, DenialIsFresh
    <2>3. SignInsSurviveRaces
      BY DEF AuthIInv, SignInIInv, SignInsSurviveRaces, Resting, At, Replacing
    <2> QED
      BY <2>1, <2>2, <2>3 DEF AuthInv
  <1> QED
    BY <1>1, AuthStarts, AuthStep, PTL DEF AuthSpec

-----------------------------------------------------------------------------
(* APIAccess.                                                              *)

Configs == [entry : Int, max : Int, render : Int, storage : Int, ports : Int]

\* Values for some of the fields.
Changes == UNION {[F -> Int] : F \in SUBSET Fields}

ReqStates ==
    [pc : {"idle", "auth", "lookup", "log", "insert", "touch", "count", "trim", "run", "save", "assign",
           "store", "apply", "end"},
     key : Int, op : STRING \cup {""}, set : Changes, target : Int, count : Nat, any : BOOLEAN,
     admin : BOOLEAN, good : BOOLEAN, open : BOOLEAN, next : Configs]

PlanStates ==
    [secret : BOOLEAN, keys : Nat, faults : Nat, restarts : Nat, falls : Nat,
     todo : SUBSET [key : Int, op : STRING, target : Int, set : Changes, id : Nat]]

\* The handlers of the entry path and of the maximum find their field.
Expects(q) == q.op \in {"entry", "max"} => q.op \in DOMAIN q.set

\* A row of the access log, with the number of times taken before it was written.
LogRows == [at : Int, nth : Nat, by : Nat]
StampStates == [at : Int, nth : Nat]
WallStates == [given : Nat, fallen : Nat, turned : Nat, gone : SUBSET Nat]

LogTypes ==
    /\ alog \in Seq(LogRows)
    /\ stamp \in [Requests -> StampStates]
    /\ wall \in WallStates
    /\ skipped \in Nat

APITypes ==
    /\ keys \subseteq 1..issued
    /\ issued \in Nat
    /\ LogTypes
    /\ req \in [Requests -> ReqStates]
    /\ gcfg \in Configs
    /\ gdisk \in Configs
    /\ limit \in Int
    /\ ports \in Int
    /\ amiss \in {"", "crossed", "torn", "unsaved"}
    /\ plans \in PlanStates
    /\ \A q \in plans.todo : Expects(q)

Logging == {"touch", "count", "trim"}
Changing == {"save", "assign", "store", "apply"}

\* What authMiddleware has found out of request q, with the keys, the number of keys issued
\* and the api_key there are.  A key that is valid was valid when the request came: later
\* keys have other numbers.
Admitted(q, ks, n, secret) ==
    /\ q.pc # "idle" =>
         /\ q.key \in {Nothing, Secret, Unknown} \cup 1..n
         /\ q.key \in ks => q.good
         /\ secret /\ q.key = Secret => q.good
         /\ ks = {} /\ ~secret => q.open
         /\ Expects(q)
    /\ q.pc \in Logging \cup {"log", "insert"} => q.good
    /\ q.pc \in Handling => q.good \/ q.open
    /\ q.pc = "trim" => q.count > MaxLog

\* The limits of the latency history fit each other, as main asks when it starts.
Fits(g) == GetLatencyHistoryRenderLimit(g) <= GetLatencyHistoryStorageLimit(g)

LoadedMax(g) == IF g.max <= 0 THEN DefaultGlobalConfig.max ELSE g.max

\* Two configurations that differ in the entry path at most, once loaded.
Same(g, h) ==
    /\ LoadedMax(g) = LoadedMax(h)
    /\ GetLatencyHistoryRenderLimit(g) = GetLatencyHistoryRenderLimit(h)
    /\ GetLatencyHistoryStorageLimit(g) = GetLatencyHistoryStorageLimit(h)
    /\ g.ports = h.ports

Applied(g, m, on) == m = LoadedMax(g) /\ on = g.ports

\* Where a request that changes the configuration stands, when it is the only one: memory g,
\* file d, the session repository's maximum m and the ports.
InPlace(q, g, d, m, on) ==
    /\ q.pc = "save" => Same(d, g) /\ Applied(g, m, on) /\ q.next = Merge(g, q.set)
    /\ q.pc = "assign" => d = q.next /\ q.next = Merge(g, q.set) /\ Applied(g, m, on)
    /\ q.pc = "store" => "max" \in DOMAIN q.set /\ g.max = q.set["max"] /\ g.max > 0 /\ on = g.ports
    /\ q.pc = "apply" =>
         /\ Same(d, g)
         /\ IF "max" \in DOMAIN q.set /\ q.set["max"] > 0 THEN g.max = q.set["max"] ELSE m = LoadedMax(g)
         /\ "ports" \in DOMAIN q.set \/ on = g.ports

\* Nothing was mixed up or lost so far: one request at a time changes the configuration, and
\* what it has not done yet is all that is missing.
Orderly ==
    /\ \A r, o \in Requests : req[r].pc \in Changing /\ req[o].pc \in Changing => r = o
    /\ (\A r \in Requests : req[r].pc \notin Changing) => Same(gdisk, gcfg) /\ Applied(gcfg, limit, ports)
    /\ \A r \in Requests : InPlace(req[r], gcfg, gdisk, limit, ports)

KeysIInv == \A r \in Requests : Admitted(req[r], keys, issued, plans.secret)

ConfigIInv ==
    /\ Fits(gcfg)
    /\ \A r \in Requests : req[r].pc \in {"save", "assign"} => Fits(req[r].next)
    /\ amiss # "torn" => Fits(gdisk)
    /\ amiss = "" => Orderly

\* A time is never earlier than the clock of today would have shown, and just that if it
\* was taken since the clock was last set back.
Timed(x, w) ==
    /\ x.at >= x.nth - w.fallen
    /\ x.nth > w.turned => x.at = x.nth - w.fallen
    /\ x.nth <= w.given

\* The rows are in the order of their times, a row is written after its time was taken, and
\* no time is of the future.
LogTimes(l, st, w) ==
    /\ w.turned <= w.given
    /\ \A g \in w.gone : g <= w.given
    /\ \A r \in Requests : Timed(st[r], w)
    /\ \A i \in 1..Len(l) : Timed(l[i], w) /\ l[i].nth <= l[i].by /\ l[i].by <= w.given
    /\ \A i, j \in 1..Len(l) : i <= j => l[i].at <= l[j].at
    /\ \A i \in 1..Len(l), g \in w.gone : l[i].nth > w.turned => l[i].by >= g

LogIInv == AccessLogBounded /\ LogTimes(alog, stamp, wall)

APIIInv == APITypes /\ KeysIInv /\ LogIInv /\ ConfigIInv

\* The helpers of the configuration, on the records they are given.
LEMMA MergeType ==
  ASSUME NEW g \in Configs, NEW s \in Changes
  PROVE  /\ Merge(g, s) \in Configs
         /\ Merge(g, s).max = IF "max" \in DOMAIN s /\ s["max"] > 0 THEN s["max"] ELSE g.max
         /\ "ports" \notin DOMAIN s => Merge(g, s).ports = g.ports
  <1>1. PICK F \in SUBSET Fields : s \in [F -> Int]
    BY DEF Changes
  <1> DEFINE m == Merge(g, s)
  <1>2. \A f \in Fields : g[f] \in Int
    BY DEF Configs, Fields
  <1>3. m \in [Fields -> Int]
    BY <1>1, <1>2 DEF Merge
  <1>4. \A h \in [Fields -> Int] : h \in Configs
    BY DEF Configs, Fields
  <1>5. /\ m["max"] = IF "max" \in DOMAIN s /\ s["max"] > 0 THEN s["max"] ELSE g["max"]
        /\ "ports" \notin DOMAIN s => m["ports"] = g["ports"]
    BY DEF Merge, Fields
  <1> QED
    BY <1>3, <1>4, <1>5

LEMMA TornType ==
  ASSUME APITypes, NEW g \in Readable
  PROVE  g \in Configs
  <1>1. CASE g = gcfg
    BY <1>1 DEF APITypes
  <1>2. CASE g \in Torn
    <2>1. PICK o \in Requests, new \in SUBSET Fields :
             g = [f \in Fields |-> IF f \in new THEN req[o].next[f] ELSE gcfg[f]]
      BY <1>2 DEF Torn
    <2>2. req[o].next \in Configs /\ gcfg \in Configs
      BY <2>1 DEF APITypes, ReqStates
    <2>3. \A f \in Fields : req[o].next[f] \in Int /\ gcfg[f] \in Int
      BY <2>2 DEF Configs, Fields
    <2>4. g \in [Fields -> Int]
      BY <2>1, <2>3
    <2>5. \A h \in [Fields -> Int] : h \in Configs
      BY DEF Configs, Fields
    <2> QED
      BY <2>4, <2>5
  <1> QED
    BY <1>1, <1>2 DEF Readable

LEMMA DefaultsFit ==
  DefaultGlobalConfig \in Configs /\ Fits(DefaultGlobalConfig)
  BY DEF DefaultGlobalConfig, Configs, Fits, GetLatencyHistoryRenderLimit, GetLatencyHistoryStorageLimit

LEMMA LoadedIs ==
  ASSUME NEW g \in Configs
  PROVE  /\ LoadGlobalConfig(g) \in Configs
         /\ LoadGlobalConfig(g).entry = g.entry
         /\ LoadGlobalConfig(g).max = LoadedMax(g)
         /\ LoadGlobalConfig(g).render = GetLatencyHistoryRenderLimit(g)
         /\ LoadGlobalConfig(g).storage = GetLatencyHistoryStorageLimit(g)
         /\ LoadGlobalConfig(g).ports = g.ports
  <1>1. /\ LoadedMax(g) \in Int
        /\ GetLatencyHistoryRenderLimit(g) \in Int
        /\ GetLatencyHistoryStorageLimit(g) \in Int
    BY DEF LoadedMax, GetLatencyHistoryRenderLimit, GetLatencyHistoryStorageLimit, DefaultGlobalConfig, Configs
  <1>2. LoadGlobalConfig(g) = [g EXCEPT !.max = LoadedMax(g),
                                        !.render = GetLatencyHistoryRenderLimit(g),
                                        !.storage = GetLatencyHistoryStorageLimit(g)]
    BY DEF LoadGlobalConfig, LoadedMax
  <1> QED
    BY <1>1, <1>2 DEF Configs

\* What is loaded is loaded: defaults are put in once.
LEMMA LoadedSame ==
  ASSUME NEW g \in Configs
  PROVE  Same(g, LoadGlobalConfig(g)) /\ Applied(LoadGlobalConfig(g), LoadGlobalConfig(g).max, LoadGlobalConfig(g).ports)
  <1>1. PICK h \in Configs : h = LoadGlobalConfig(g)
    BY LoadedIs
  <1>2. /\ h.max = LoadedMax(g)
        /\ h.render = GetLatencyHistoryRenderLimit(g)
        /\ h.storage = GetLatencyHistoryStorageLimit(g)
        /\ h.ports = g.ports
    BY <1>1, LoadedIs
  <1>3. Same(g, h) /\ Applied(h, h.max, h.ports)
    BY <1>2 DEF Same, Applied, LoadedMax, GetLatencyHistoryRenderLimit, GetLatencyHistoryStorageLimit,
                DefaultGlobalConfig, Configs
  <1> QED
    BY <1>1, <1>3

LEMMA SameFits ==
  ASSUME NEW g, NEW h, Same(g, h), Fits(g)
  PROVE  Fits(h)
  BY DEF Same, Fits

\* A request whose statement failed leaves the plan's other parts as they are.
LEMMA FaultKeeps ==
  ASSUME APITypes, Fault
  PROVE  plans' \in PlanStates /\ plans'.secret = plans.secret /\ plans'.todo = plans.todo
  <1>1. plans \in PlanStates /\ plans.faults \in Nat /\ plans.faults > 0
        /\ plans' = [plans EXCEPT !.faults = plans.faults - 1]
    BY DEF APITypes, PlanStates, Fault
  <1> QED
    BY <1>1 DEF PlanStates

\* One request goes from one step to the next.
LEMMA RequestGoes ==
  ASSUME NEW q \in ReqStates,
         NEW s \in {"idle", "auth", "lookup", "log", "insert", "touch", "count", "trim", "run", "save", "assign",
                    "store", "apply", "end"}
  PROVE  LET p == [q EXCEPT !.pc = s]
         IN  /\ p \in ReqStates /\ p.pc = s /\ p.key = q.key /\ p.op = q.op /\ p.set = q.set
             /\ p.count = q.count /\ p.good = q.good /\ p.open = q.open /\ p.next = q.next
  BY DEF ReqStates

LEMMA To_IsUpdate ==
  ASSUME APITypes, NEW r \in Requests, NEW s, To(r, s)
  PROVE  req' = [req EXCEPT ![r] = [req[r] EXCEPT !.pc = s]]
  BY DEF APITypes, To

\* Who is admitted stays admitted when a request moves and the keys stay.
LEMMA KeysOneRequest ==
  ASSUME APITypes, KeysIInv, NEW r \in Requests, NEW p \in ReqStates,
         req' = [req EXCEPT ![r] = p], UNCHANGED <<keys, issued>>,
         plans'.secret = plans.secret, Admitted(p, keys, issued, plans.secret)
  PROVE  req' \in [Requests -> ReqStates] /\ KeysIInv'
  <1>1. req' \in [Requests -> ReqStates]
    BY DEF APITypes
  <1>2. \A o \in Requests : req'[o] = p \/ req'[o] = req[o]
    BY DEF APITypes
  <1>3. \A o \in Requests : Admitted(req'[o], keys, issued, plans.secret)
    BY <1>2 DEF KeysIInv
  <1> QED
    BY <1>1, <1>3 DEF KeysIInv

\* Requests that do not change the configuration do not matter to it.
LEMMA ConfigOneRequest ==
  ASSUME APITypes, ConfigIInv, NEW r \in Requests, NEW p \in ReqStates,
         req' = [req EXCEPT ![r] = p], UNCHANGED configVars,
         req[r].pc \notin Changing, p.pc \notin Changing
  PROVE  ConfigIInv'
  <1>1. req'[r] = p /\ \A o \in Requests \ {r} : req'[o] = req[o]
    BY DEF APITypes
  <1>2. \A o \in Requests : req'[o].pc \in Changing => o # r /\ req'[o] = req[o]
    BY <1>1
  <1>3. \A o \in Requests : req'[o].pc \in {"save", "assign"} => Fits(req'[o].next)
    BY <1>2 DEF ConfigIInv, Changing
  <1>4. ASSUME amiss = ""
        PROVE  Orderly'
    <2>1. Orderly
      BY <1>4 DEF ConfigIInv
    <2>2. \A o, u \in Requests : req'[o].pc \in Changing /\ req'[u].pc \in Changing => o = u
      BY <1>2, <2>1 DEF Orderly
    <2>3. (\A o \in Requests : req'[o].pc \notin Changing) => \A o \in Requests : req[o].pc \notin Changing
      BY <1>1
    <2>4. \A o \in Requests : InPlace(req'[o], gcfg, gdisk, limit, ports)
      <3> TAKE o \in Requests
      <3>1. CASE o = r
        BY <1>1, <3>1 DEF InPlace, Changing
      <3>2. CASE o # r
        BY <1>1, <2>1, <3>2 DEF Orderly
      <3> QED
        BY <3>1, <3>2
    <2> QED
      BY <2>1, <2>2, <2>3, <2>4 DEF Orderly, configVars
  <1> QED
    BY <1>3, <1>4 DEF ConfigIInv, configVars

\* The requests that are between writing to the access log and trimming it.
LoggingNow == {r \in Requests : req[r].pc \in Logging}

LEMMA LoggingFinite ==
  /\ IsFiniteSet(LoggingNow)
  /\ Cardinality(LoggingNow) \in Nat
  <1>1. IsFiniteSet(LoggingNow)
    BY APIAssumption, FS_Subset DEF LoggingNow
  <1> QED
    BY <1>1, FS_CardinalityType

LEMMA LogUntouched ==
  ASSUME APITypes, LogIInv, NEW r \in Requests, NEW p \in ReqStates,
         req' = [req EXCEPT ![r] = p], UNCHANGED <<alog, stamp, wall, skipped>>,
         req[r].pc \notin Logging, p.pc \notin Logging
  PROVE  LogIInv'
  <1>1. req'[r] = p /\ \A o \in Requests \ {r} : req'[o] = req[o]
    BY DEF APITypes
  <1>2. {o \in Requests : req'[o].pc \in Logging} = {o \in Requests : req[o].pc \in Logging}
    BY <1>1
  <1> QED
    BY <1>2 DEF LogIInv, AccessLogBounded, Logging

\* A step of one request that neither logs nor changes the configuration nor the keys.
LEMMA QuietStep ==
  ASSUME APIIInv, NEW r \in Requests, NEW p \in ReqStates, req' = [req EXCEPT ![r] = p],
         UNCHANGED <<keyVars, configVars>>,
         plans' \in PlanStates, plans'.secret = plans.secret, plans'.todo \subseteq plans.todo,
         Admitted(p, keys, issued, plans.secret),
         req[r].pc \notin Changing \cup Logging, p.pc \notin Changing \cup Logging
  PROVE  APIIInv'
  <1>1. UNCHANGED <<keys, issued, alog, stamp, wall, skipped>> /\ UNCHANGED <<gcfg, gdisk, limit, ports, amiss>>
    BY DEF keyVars, configVars
  <1>2. req' \in [Requests -> ReqStates] /\ KeysIInv'
    BY <1>1, KeysOneRequest DEF APIIInv
  <1>3. ConfigIInv'
    BY ConfigOneRequest DEF APIIInv
  <1>4. LogIInv'
    BY <1>1, LogUntouched DEF APIIInv
  <1>5. APITypes'
    BY <1>1, <1>2 DEF APIIInv, APITypes, LogTypes
  <1> QED
    BY <1>2, <1>3, <1>4, <1>5 DEF APIIInv

LEMMA QuietIsState ==
  Quiet \in ReqStates /\ Quiet.pc = "idle"
  <1>1. NoSet \in Changes
    <2>1. NoSet \in [{} -> Int] /\ {} \in SUBSET Fields
      BY DEF NoSet
    <2> QED
      BY <2>1 DEF Changes
  <1>2. PICK d \in Configs : d = DefaultGlobalConfig
    BY DefaultsFit
  <1>3. PICK n \in Changes : n = NoSet
    BY <1>1
  <1> QED
    BY <1>2, <1>3 DEF Quiet, ReqStates, Nothing

\* What every lemma about a step of request r begins with.
LEMMA RequestFacts ==
  ASSUME APIIInv, NEW r \in Requests
  PROVE  /\ req[r] \in ReqStates
         /\ Admitted(req[r], keys, issued, plans.secret)
         /\ plans \in PlanStates
         /\ issued \in Nat
  BY DEF APIIInv, APITypes, KeysIInv

LEMMA ArriveKeeps ==
  ASSUME APIIInv, NEW r \in Requests, NEW q \in plans.todo, Arrive(r, q)
  PROVE  APIIInv'
  <1>1. plans \in PlanStates /\ Expects(q)
    BY DEF APIIInv, APITypes
  <1>2. q \in [key : Int, op : STRING, target : Int, set : Changes, id : Nat]
    BY <1>1 DEF PlanStates
  <1>3. plans' = [plans EXCEPT !.todo = plans.todo \ {q}] /\ UNCHANGED <<keyVars, configVars>>
        /\ req[r].pc = "idle" /\ q.key \in {Nothing, Secret, Unknown} \cup 1..issued
    BY DEF Arrive, InStep
  <1>4. plans' \in PlanStates /\ plans'.secret = plans.secret /\ plans'.todo \subseteq plans.todo
    BY <1>1, <1>3 DEF PlanStates
  <1>5. PICK open \in BOOLEAN : open = Open
    BY DEF Open
  <1>6. PICK good \in BOOLEAN : good = (q.key \in keys \/ (plans.secret /\ q.key = Secret))
    OBVIOUS
  <1> DEFINE p == [Quiet EXCEPT !.pc = "auth", !.key = q.key, !.op = q.op, !.set = q.set,
                                !.target = q.target, !.open = open, !.good = good]
  <1>7. req' = [req EXCEPT ![r] = p]
    BY <1>5, <1>6 DEF Arrive
  <1>8. Quiet \in ReqStates
    BY QuietIsState
  <1>9. /\ p \in ReqStates /\ p.pc = "auth" /\ p.key = q.key /\ p.op = q.op /\ p.set = q.set
        /\ p.open = open /\ p.good = good
    BY <1>2, <1>8 DEF ReqStates
  <1> HIDE DEF p
  <1>10. Admitted(p, keys, issued, plans.secret)
    BY <1>1, <1>3, <1>5, <1>6, <1>9 DEF Admitted, Open, Expects, Logging, Handling
  <1> QED
    BY <1>3, <1>4, <1>7, <1>9, <1>10, QuietStep DEF Changing, Logging

LEMMA ConfigKeyKeeps ==
  ASSUME APIIInv, NEW r \in Requests, ConfigKey(r)
  PROVE  APIIInv'
  <1>1. /\ req[r] \in ReqStates /\ Admitted(req[r], keys, issued, plans.secret)
        /\ req[r].pc = "auth" /\ plans.secret /\ req[r].key = Secret
        /\ UNCHANGED <<keyVars, configVars, plans>> /\ plans \in PlanStates
    BY RequestFacts DEF ConfigKey, InStep
  <1> DEFINE p == [req[r] EXCEPT !.pc = "run", !.any = TRUE, !.admin = TRUE]
  <1>2. req' = [req EXCEPT ![r] = p]
    BY DEF ConfigKey, APIIInv, APITypes
  <1>3. /\ p \in ReqStates /\ p.pc = "run" /\ p.key = req[r].key /\ p.op = req[r].op
        /\ p.set = req[r].set /\ p.good = req[r].good /\ p.open = req[r].open
    BY <1>1 DEF ReqStates
  <1> HIDE DEF p
  <1>4. Admitted(p, keys, issued, plans.secret)
    BY <1>1, <1>3 DEF Admitted, Expects, Logging, Handling
  <1> QED
    BY <1>1, <1>2, <1>3, <1>4, QuietStep DEF Changing, Logging

\* A request that only goes on to another step of authMiddleware, or ends.
LEMMA QuietGo ==
  ASSUME APIIInv, NEW r \in Requests, NEW s \in {"lookup", "log", "end"}, To(r, s),
         UNCHANGED <<keyVars, configVars>>, UNCHANGED plans \/ Fault,
         req[r].pc \notin Changing \cup Logging, req[r].pc # "idle",
         s = "log" => req[r].good
  PROVE  APIIInv'
  <1>1. req[r] \in ReqStates /\ Admitted(req[r], keys, issued, plans.secret) /\ plans \in PlanStates
    BY RequestFacts
  <1>2. plans' \in PlanStates /\ plans'.secret = plans.secret /\ plans'.todo \subseteq plans.todo
    BY <1>1, FaultKeeps DEF APIIInv
  <1> DEFINE p == [req[r] EXCEPT !.pc = s]
  <1>3. req' = [req EXCEPT ![r] = p]
    BY To_IsUpdate DEF APIIInv
  <1>4. /\ p \in ReqStates /\ p.pc = s /\ p.key = req[r].key /\ p.op = req[r].op
        /\ p.set = req[r].set /\ p.good = req[r].good /\ p.open = req[r].open
    BY <1>1 DEF ReqStates
  <1> HIDE DEF p
  <1>5. Admitted(p, keys, issued, plans.secret)
    BY <1>1, <1>4 DEF Admitted, Expects, Logging, Handling
  <1>6. p.pc \notin Changing \cup Logging
    BY <1>4 DEF Changing, Logging
  <1> QED
    BY <1>2, <1>3, <1>4, <1>5, <1>6, QuietStep

LEMMA ListKeysKeeps ==
  ASSUME APIIInv, NEW r \in Requests, ListKeys(r)
  PROVE  APIIInv'
  <1>1. /\ req[r] \in ReqStates /\ Admitted(req[r], keys, issued, plans.secret)
        /\ req[r].pc = "auth" /\ UNCHANGED <<keyVars, configVars>> /\ plans \in PlanStates
    BY RequestFacts DEF ListKeys, InStep
  <1>2. CASE /\ req' = [req EXCEPT ![r].any = ~Open,
                                   ![r].pc = IF Open THEN "run" ELSE IF req[r].key = Nothing THEN "end" ELSE "lookup"]
             /\ UNCHANGED plans
    <2>1. PICK any \in BOOLEAN : any = ~Open
      BY DEF Open
    <2>2. PICK s \in {"run", "end", "lookup"} :
             s = IF Open THEN "run" ELSE IF req[r].key = Nothing THEN "end" ELSE "lookup"
      OBVIOUS
    <2> DEFINE p == [req[r] EXCEPT !.any = any, !.pc = s]
    <2>3. req' = [req EXCEPT ![r] = p]
      BY <1>2, <2>1, <2>2 DEF APIIInv, APITypes
    <2>4. /\ p \in ReqStates /\ p.pc = s /\ p.key = req[r].key /\ p.op = req[r].op
          /\ p.set = req[r].set /\ p.good = req[r].good /\ p.open = req[r].open
      BY <1>1 DEF ReqStates
    <2> HIDE DEF p
    <2>5. s = "run" => Open
      BY <2>2
    <2>6. Admitted(p, keys, issued, plans.secret)
      BY <1>1, <2>4, <2>5 DEF Admitted, Expects, Logging, Handling, Open
    <2>7. p.pc \notin Changing \cup Logging /\ req[r].pc \notin Changing \cup Logging
      BY <1>1, <2>4 DEF Changing, Logging
    <2> QED
      BY <1>1, <1>2, <2>3, <2>4, <2>6, <2>7, QuietStep
  <1>3. CASE Fault /\ To(r, "end")
    BY <1>1, <1>3, QuietGo DEF Changing, Logging
  <1> QED
    BY <1>2, <1>3 DEF ListKeys

LEMMA LookUpKeyKeeps ==
  ASSUME APIIInv, NEW r \in Requests, LookUpKey(r)
  PROVE  APIIInv'
  <1>1. /\ Admitted(req[r], keys, issued, plans.secret)
        /\ req[r].pc = "lookup" /\ UNCHANGED <<keyVars, configVars>>
    BY RequestFacts DEF LookUpKey, InStep
  <1>2. req[r].pc \notin Changing \cup Logging /\ req[r].pc # "idle"
    BY <1>1 DEF Changing, Logging
  <1>3. GetByKey(req[r].key) => req[r].good
    BY <1>1 DEF Admitted, GetByKey
  <1>4. PICK s \in {"log", "end"} : /\ To(r, s) /\ (UNCHANGED plans \/ Fault)
                                    /\ s = "log" => GetByKey(req[r].key)
    BY DEF LookUpKey
  <1> QED
    BY <1>1, <1>2, <1>3, <1>4, QuietGo

LEMMA OtherHandlerKeeps ==
  ASSUME APIIInv, NEW r \in Requests, OtherHandler(r)
  PROVE  APIIInv'
  <1>1. req[r].pc = "run" /\ UNCHANGED <<keyVars, configVars, plans>> /\ To(r, "end")
    BY DEF OtherHandler, Running, InStep
  <1> QED
    BY <1>1, QuietGo DEF Changing, Logging

LEMMA EndRequestKeeps ==
  ASSUME APIIInv, NEW r \in Requests, EndRequest(r)
  PROVE  APIIInv'
  <1>1. /\ req[r].pc = "end" /\ UNCHANGED <<keyVars, configVars, plans>>
        /\ req' = [req EXCEPT ![r] = Quiet] /\ plans \in PlanStates
    BY RequestFacts DEF EndRequest, InStep
  <1>2. Quiet \in ReqStates /\ Quiet.pc = "idle"
    BY QuietIsState
  <1>3. Admitted(Quiet, keys, issued, plans.secret)
    BY <1>2 DEF Admitted, Logging, Handling
  <1> QED
    BY <1>1, <1>2, <1>3, QuietStep DEF Changing, Logging

-----------------------------------------------------------------------------
(* The access log.                                                         *)

LEMMA LogEntered ==
  ASSUME APITypes, NEW r \in Requests, NEW p \in ReqStates, req' = [req EXCEPT ![r] = p],
         req[r].pc \notin Logging, p.pc \in Logging
  PROVE  Cardinality(LoggingNow') = Cardinality(LoggingNow) + 1
  <1>1. req'[r] = p /\ \A o \in Requests \ {r} : req'[o] = req[o]
    BY DEF APITypes
  <1>2. LoggingNow' = LoggingNow \cup {r} /\ r \notin LoggingNow
    BY <1>1 DEF LoggingNow
  <1> QED
    BY <1>2, LoggingFinite, FS_AddElement

LEMMA LogLeft ==
  ASSUME APITypes, NEW r \in Requests, NEW p \in ReqStates, req' = [req EXCEPT ![r] = p],
         req[r].pc \in Logging, p.pc \notin Logging
  PROVE  Cardinality(LoggingNow') = Cardinality(LoggingNow) - 1
  <1>1. req'[r] = p /\ \A o \in Requests \ {r} : req'[o] = req[o]
    BY DEF APITypes
  <1>2. LoggingNow' = LoggingNow \ {r} /\ r \in LoggingNow
    BY <1>1 DEF LoggingNow
  <1> QED
    BY <1>2, LoggingFinite, FS_RemoveElement

LEMMA LogStays ==
  ASSUME APITypes, NEW r \in Requests, NEW p \in ReqStates, req' = [req EXCEPT ![r] = p],
         req[r].pc \in Logging, p.pc \in Logging
  PROVE  LoggingNow' = LoggingNow
  <1>1. req'[r] = p /\ \A o \in Requests \ {r} : req'[o] = req[o]
    BY DEF APITypes
  <1> QED
    BY <1>1 DEF LoggingNow

\* A step of one request that logs: what is left to show is about the log.
LEMMA LogStep ==
  ASSUME APIIInv, NEW r \in Requests, NEW p \in ReqStates, req' = [req EXCEPT ![r] = p],
         UNCHANGED <<keys, issued, configVars>>,
         plans' \in PlanStates, plans'.secret = plans.secret, plans'.todo \subseteq plans.todo,
         Admitted(p, keys, issued, plans.secret),
         req[r].pc \notin Changing, p.pc \notin Changing,
         LogTypes', LogIInv'
  PROVE  APIIInv'
  <1>1. UNCHANGED <<gcfg, gdisk, limit, ports, amiss>>
    BY DEF configVars
  <1>2. req' \in [Requests -> ReqStates] /\ KeysIInv'
    BY KeysOneRequest DEF APIIInv
  <1>3. ConfigIInv'
    BY ConfigOneRequest DEF APIIInv
  <1>5. APITypes'
    BY <1>1, <1>2 DEF APIIInv, APITypes
  <1> QED
    BY <1>2, <1>3, <1>5 DEF APIIInv

LEMMA LogFacts ==
  ASSUME APIIInv
  PROVE  /\ LogTypes /\ skipped \in Nat /\ Len(alog) \in Nat
         /\ MaxLog \in Nat /\ Cardinality(LoggingNow) \in Nat
         /\ Len(alog) <= MaxLog + skipped + Cardinality(LoggingNow)
         /\ LogTimes(alog, stamp, wall)
  <1>1. LogTypes
    BY DEF APIIInv, APITypes
  <1>2. Len(alog) \in Nat /\ skipped \in Nat
    BY <1>1 DEF LogTypes
  <1>3. Len(alog) <= MaxLog + skipped + Cardinality(LoggingNow)
    BY DEF APIIInv, LogIInv, AccessLogBounded, LoggingNow, Logging
  <1>4. LogTimes(alog, stamp, wall)
    BY DEF APIIInv, LogIInv
  <1>5. MaxLog \in Nat
    BY APIAssumption
  <1> QED
    BY <1>1, <1>2, <1>3, <1>4, <1>5, LoggingFinite

\* The request goes on although it could not be logged, or trimmed.
LEMMA UnloggedIs ==
  ASSUME APITypes, NEW r \in Requests, Unlogged(r)
  PROVE  \E p \in ReqStates :
            /\ req' = [req EXCEPT ![r] = p] /\ p.pc = "run" /\ p.key = req[r].key /\ p.op = req[r].op
            /\ p.set = req[r].set /\ p.good = req[r].good /\ p.open = req[r].open
  <1>1. req[r] \in ReqStates
    BY DEF APITypes
  <1> DEFINE p == [req[r] EXCEPT !.pc = "run", !.admin = TRUE]
  <1>2. /\ p \in ReqStates /\ p.pc = "run" /\ p.key = req[r].key /\ p.op = req[r].op
        /\ p.set = req[r].set /\ p.good = req[r].good /\ p.open = req[r].open
    BY <1>1 DEF ReqStates
  <1>3. req' = [req EXCEPT ![r] = p]
    BY DEF Unlogged, APITypes
  <1> QED
    BY <1>2, <1>3

\* What the log and the clock look like after a step that gives a time, sets the clock back,
\* writes a row or deletes the first n.
LEMMA RowIs ==
  ASSUME NEW l \in Seq(LogRows)
  PROVE  \A i \in 1..Len(l) : l[i].nth \in Nat /\ l[i].at \in Int /\ l[i].by \in Nat
  <1>1. \A i \in 1..Len(l) : l[i] \in LogRows
    OBVIOUS
  <1> QED
    BY <1>1 DEF LogRows

LEMMA TimesTaken ==
  ASSUME NEW l \in Seq(LogRows), NEW st \in [Requests -> StampStates], NEW w \in WallStates,
         LogTimes(l, st, w), NEW r \in Requests, NEW v \in WallStates, NEW x \in StampStates,
         v = [w EXCEPT !.given = @ + 1],
         x = [at |-> (w.given + 1) - w.fallen, nth |-> w.given + 1]
  PROVE  LogTimes(l, [st EXCEPT ![r] = x], v)
  <1>1. /\ w.given \in Nat /\ w.fallen \in Nat /\ w.turned \in Nat /\ w.gone \subseteq Nat
        /\ v.given = w.given + 1 /\ v.fallen = w.fallen /\ v.turned = w.turned /\ v.gone = w.gone
        /\ x.at = (w.given + 1) - w.fallen /\ x.nth = w.given + 1
    BY DEF WallStates
  <1>2. \A o \in Requests : [st EXCEPT ![r] = x][o] = IF o = r THEN x ELSE st[o]
    OBVIOUS
  <1>3. ASSUME NEW y, y.nth \in Nat, y.at \in Int, Timed(y, w)
        PROVE  Timed(y, v)
    BY <1>1, <1>3 DEF Timed
  <1>4. Timed(x, v)
    BY <1>1 DEF Timed
  <1>5. \A o \in Requests : st[o].nth \in Nat /\ st[o].at \in Int /\ Timed(st[o], w)
    BY DEF StampStates, LogTimes
  <1>6. \A o \in Requests : Timed([st EXCEPT ![r] = x][o], v)
    BY <1>2, <1>3, <1>4, <1>5
  <1>7. \A i \in 1..Len(l) : l[i].nth \in Nat /\ l[i].at \in Int /\ l[i].by \in Nat
    BY RowIs
  <1>8. \A i \in 1..Len(l) : Timed(l[i], v) /\ l[i].nth <= l[i].by /\ l[i].by <= v.given
    <2> TAKE i \in 1..Len(l)
    <2>1. Timed(l[i], w) /\ l[i].nth <= l[i].by /\ l[i].by <= w.given
      BY DEF LogTimes
    <2>2. l[i].nth \in Nat /\ l[i].at \in Int /\ l[i].by \in Nat
      BY <1>7
    <2>3. Timed(l[i], v)
      BY <1>3, <2>1, <2>2
    <2> QED
      BY <1>1, <2>1, <2>2, <2>3
  <1>9. v.turned <= v.given /\ \A g \in v.gone : g <= v.given
    BY <1>1 DEF LogTimes
  <1> QED
    BY <1>1, <1>6, <1>8, <1>9 DEF LogTimes

LEMMA TimesFall ==
  ASSUME NEW l \in Seq(LogRows), NEW st \in [Requests -> StampStates], NEW w \in WallStates,
         LogTimes(l, st, w), NEW n \in Nat, NEW v \in WallStates,
         v = [w EXCEPT !.fallen = @ + n, !.turned = w.given]
  PROVE  LogTimes(l, st, v)
  <1>1. /\ w.given \in Nat /\ w.fallen \in Nat /\ w.turned \in Nat /\ w.gone \subseteq Nat
        /\ v.given = w.given /\ v.fallen = w.fallen + n /\ v.turned = w.given /\ v.gone = w.gone
    BY DEF WallStates
  <1>2. ASSUME NEW y, y.nth \in Nat, y.at \in Int, Timed(y, w)
        PROVE  Timed(y, v) /\ ~(y.nth > v.turned)
    BY <1>1, <1>2 DEF Timed
  <1>3. \A o \in Requests : st[o].nth \in Nat /\ st[o].at \in Int /\ Timed(st[o], w)
    BY DEF StampStates, LogTimes
  <1>4. \A i \in 1..Len(l) : l[i].nth \in Nat /\ l[i].at \in Int /\ Timed(l[i], w)
    BY RowIs DEF LogTimes
  <1>5. \A i \in 1..Len(l) : Timed(l[i], v) /\ ~(l[i].nth > v.turned)
    BY <1>2, <1>4
  <1>6. \A o \in Requests : Timed(st[o], v)
    BY <1>2, <1>3
  <1> QED
    BY <1>1, <1>5, <1>6 DEF LogTimes

\* What InsertAt makes of the log.
LEMMA RowPut ==
  ASSUME NEW l \in Seq(LogRows), NEW x \in LogRows, NEW k \in 1..Len(l) + 1
  PROVE  /\ InsertAt(l, k, x) \in Seq(LogRows)
         /\ Len(InsertAt(l, k, x)) = Len(l) + 1
         /\ \A i \in 1..Len(l) + 1 :
              InsertAt(l, k, x)[i] = IF i < k THEN l[i] ELSE IF i = k THEN x ELSE l[i - 1]
  <1> DEFINE a == SubSeq(l, 1, k - 1)
             c == SubSeq(l, k, Len(l))
  <1>0. Len(l) \in Nat /\ k \in Nat /\ k >= 1 /\ k <= Len(l) + 1
    OBVIOUS
  <1>1. a \in Seq(LogRows) /\ Len(a) = k - 1 /\ \A i \in 1..k - 1 : a[i] = l[i]
    BY <1>0
  <1>2. /\ c \in Seq(LogRows) /\ Len(c) = Len(l) + 1 - k
        /\ \A i \in 1..Len(l) + 1 - k : c[i] = l[i + k - 1]
    BY <1>0
  <1> HIDE DEF a, c
  <1>3. PICK d \in Seq(LogRows) : d = a \o <<x>>
    <2>1. <<x>> \in Seq(LogRows) /\ Len(<<x>>) = 1 /\ <<x>>[1] = x
      OBVIOUS
    <2> QED
      BY <1>1, <2>1, ConcatProperties
  <1>4. Len(d) = k /\ \A i \in 1..k : d[i] = IF i < k THEN l[i] ELSE x
    BY <1>0, <1>1, <1>3, SMTT(30)
  <1>5. PICK e \in Seq(LogRows) : e = d \o c
    BY <1>2, ConcatProperties
  <1>6. Len(e) = Len(l) + 1
    <2>1. Len(e) = Len(d) + Len(c)
      BY <1>2, <1>5, ConcatProperties
    <2> QED
      BY <1>0, <1>2, <1>4, <2>1
  <1>7. \A i \in 1..Len(l) + 1 : e[i] = IF i < k THEN l[i] ELSE IF i = k THEN x ELSE l[i - 1]
    <2> TAKE i \in 1..Len(l) + 1
    <2>1. CASE i <= k
      BY <1>0, <1>4, <1>5, <2>1
    <2>2. CASE i > k
      <3>1. e[i] = c[i - k]
        BY <1>0, <1>2, <1>4, <1>5, <2>2
      <3>2. c[i - k] = l[(i - k) + k - 1] /\ (i - k) + k - 1 = i - 1
        BY <1>0, <1>2, <2>2
      <3> QED
        BY <1>0, <2>2, <3>1, <3>2
    <2> QED
      BY <1>0, <2>1, <2>2
  <1>8. InsertAt(l, k, x) = e
    BY <1>3, <1>5 DEF InsertAt, a, c
  <1> QED
    BY <1>5, <1>6, <1>7, <1>8

LEMMA TimesWritten ==
  ASSUME NEW l \in Seq(LogRows), NEW st \in [Requests -> StampStates], NEW w \in WallStates,
         LogTimes(l, st, w), NEW r \in Requests, NEW x \in LogRows, NEW k \in 1..Len(l) + 1,
         x.at = st[r].at, x.nth = st[r].nth, x.by = w.given,
         \A i \in 1..Len(l) : i < k <=> l[i].at <= x.at
  PROVE  LogTimes(InsertAt(l, k, x), [st EXCEPT ![r] = NoTime], w)
  <1> DEFINE m == InsertAt(l, k, x)
  <1>1. /\ m \in Seq(LogRows) /\ Len(m) = Len(l) + 1
        /\ \A i \in 1..Len(m) : m[i] = IF i < k THEN l[i] ELSE IF i = k THEN x ELSE l[i - 1]
    BY RowPut
  <1> HIDE DEF m
  <1>2. Len(l) \in Nat /\ k \in Nat /\ k >= 1 /\ k <= Len(l) + 1
    OBVIOUS
  <1>3. w.given \in Nat /\ w.fallen \in Nat /\ w.turned \in Nat /\ w.gone \subseteq Nat
    BY DEF WallStates
  <1>4. Timed(x, w) /\ x.at \in Int /\ x.nth \in Nat
    BY DEF LogTimes, Timed, LogRows
  <1>5. x.nth <= x.by /\ x.by <= w.given /\ \A g \in w.gone : x.by >= g
    BY <1>3, <1>4 DEF Timed, LogTimes
  <1>6. \A i \in 1..Len(l) : l[i].at \in Int
    BY RowIs
  <1>7. \A i \in 1..Len(m) : m[i] = x \/ \E j \in 1..Len(l) : m[i] = l[j]
    <2> TAKE i \in 1..Len(m)
    <2>1. CASE i < k
      BY <1>1, <1>2, <2>1
    <2>2. CASE i = k
      BY <1>1, <1>2, <2>2
    <2>3. CASE i > k
      <3>1. i - 1 \in 1..Len(l) /\ m[i] = l[i - 1]
        BY <1>1, <1>2, <2>3
      <3> QED
        BY <3>1
    <2> QED
      BY <1>2, <2>1, <2>2, <2>3
  <1>8. \A i \in 1..Len(m) : Timed(m[i], w) /\ m[i].nth <= m[i].by /\ m[i].by <= w.given
    BY <1>4, <1>5, <1>7 DEF LogTimes
  <1>9. \A i \in 1..Len(m), g \in w.gone : m[i].nth > w.turned => m[i].by >= g
    BY <1>5, <1>7 DEF LogTimes
  <1>10. \A i, j \in 1..Len(m) : i <= j => m[i].at <= m[j].at
    <2> TAKE i, j \in 1..Len(m)
    <2> HAVE i <= j
    <2>1. i \in Nat /\ j \in Nat /\ i >= 1 /\ j <= Len(l) + 1
      BY <1>1, <1>2
    <2>2. CASE j < k
      <3>1. m[i] = l[i] /\ m[j] = l[j] /\ i \in 1..Len(l) /\ j \in 1..Len(l)
        BY <1>1, <1>2, <2>1, <2>2
      <3> QED
        BY <3>1 DEF LogTimes
    <2>3. CASE j = k
      <3>1. CASE i = k
        BY <1>1, <1>4, <2>3, <3>1
      <3>2. CASE i < k
        <4>1. m[i] = l[i] /\ m[j] = x /\ i \in 1..Len(l)
          BY <1>1, <1>2, <2>1, <2>3, <3>2
        <4> QED
          BY <3>2, <4>1
      <3> QED
        BY <1>2, <2>1, <2>3, <3>1, <3>2
    <2>4. CASE j > k
      <3>1. m[j] = l[j - 1] /\ j - 1 \in 1..Len(l)
        BY <1>1, <1>2, <2>1, <2>4
      <3>2. CASE i < k
        <4>1. m[i] = l[i] /\ i \in 1..Len(l) /\ i <= j - 1
          BY <1>1, <1>2, <2>1, <2>4, <3>2
        <4> QED
          BY <3>1, <4>1 DEF LogTimes
      <3>3. CASE i = k
        <4>1. m[i] = x /\ ~(j - 1 < k)
          BY <1>1, <1>2, <2>1, <2>4, <3>3
        <4>2. ~(l[j - 1].at <= x.at)
          BY <3>1, <4>1
        <4> QED
          BY <1>4, <1>6, <3>1, <4>1, <4>2
      <3>4. CASE i > k
        <4>1. m[i] = l[i - 1] /\ i - 1 \in 1..Len(l) /\ i - 1 <= j - 1
          BY <1>1, <1>2, <2>1, <2>4, <3>4
        <4> QED
          BY <3>1, <4>1 DEF LogTimes
      <3> QED
        BY <1>2, <2>1, <3>2, <3>3, <3>4
    <2> QED
      BY <1>2, <2>1, <2>2, <2>3, <2>4
  <1>11. \A o \in Requests : Timed([st EXCEPT ![r] = NoTime][o], w)
    <2>1. Timed(NoTime, w)
      BY <1>3 DEF Timed, NoTime
    <2>2. \A o \in Requests : [st EXCEPT ![r] = NoTime][o] = IF o = r THEN NoTime ELSE st[o]
      OBVIOUS
    <2> QED
      BY <2>1, <2>2 DEF LogTimes
  <1>12. LogTimes(m, [st EXCEPT ![r] = NoTime], w)
    BY <1>8, <1>9, <1>10, <1>11 DEF LogTimes
  <1> QED
    BY <1>12 DEF m

LEMMA TakeTimeKeeps ==
  ASSUME APIIInv, NEW r \in Requests, TakeTime(r)
  PROVE  APIIInv'
  <1>1. /\ req[r] \in ReqStates /\ Admitted(req[r], keys, issued, plans.secret) /\ plans \in PlanStates
        /\ req[r].pc = "log" /\ UNCHANGED <<keys, issued, alog, skipped, configVars, plans>> /\ req[r].good
    BY RequestFacts DEF TakeTime, InStep, Admitted
  <1> DEFINE p == [req[r] EXCEPT !.pc = "insert"]
  <1>2. req' = [req EXCEPT ![r] = p]
    BY To_IsUpdate DEF APIIInv, TakeTime
  <1>3. /\ p \in ReqStates /\ p.pc = "insert" /\ p.key = req[r].key /\ p.op = req[r].op
        /\ p.set = req[r].set /\ p.good = req[r].good /\ p.open = req[r].open
    BY <1>1, RequestGoes, ZenonT(60)
  <1> HIDE DEF p
  <1>4. Admitted(p, keys, issued, plans.secret)
    BY <1>1, <1>3 DEF Admitted, Expects, Logging, Handling
  <1>5. req[r].pc \notin Changing \cup Logging /\ p.pc \notin Changing \cup Logging
    BY <1>1, <1>3 DEF Changing, Logging
  <1>6. req'[r] = p /\ \A o \in Requests \ {r} : req'[o] = req[o]
    BY <1>2 DEF APIIInv, APITypes
  <1>7. {o \in Requests : req'[o].pc \in Logging} = {o \in Requests : req[o].pc \in Logging}
    BY <1>5, <1>6
  <1>8. AccessLogBounded'
    BY <1>1, <1>7, LogFacts DEF AccessLogBounded, LoggingNow, Logging
  <1>9. wall.given \in Nat /\ wall.fallen \in Nat /\ wall \in WallStates
    BY LogFacts DEF LogTypes, WallStates
  <1>10. PICK x \in StampStates : x = [at |-> (wall.given + 1) - wall.fallen, nth |-> wall.given + 1]
    <2>1. (wall.given + 1) - wall.fallen \in Int /\ wall.given + 1 \in Nat
      BY <1>9
    <2>2. \A a \in Int, n \in Nat : [at |-> a, nth |-> n] \in StampStates
      BY DEF StampStates
    <2> QED
      BY <2>1, <2>2
  <1>11. stamp' = [stamp EXCEPT ![r] = x] /\ wall' = [wall EXCEPT !.given = @ + 1]
    BY <1>10 DEF TakeTime
  <1>12. wall' \in WallStates
    BY <1>9, <1>11 DEF WallStates
  <1>13. stamp' \in [Requests -> StampStates]
    BY <1>11, LogFacts DEF LogTypes
  <1>14. LogTimes(alog, stamp', wall')
    BY <1>9, <1>10, <1>11, <1>12, LogFacts, TimesTaken DEF LogTypes
  <1>15. LogTypes'
    BY <1>1, <1>12, <1>13, LogFacts DEF LogTypes
  <1>16. LogIInv'
    BY <1>1, <1>8, <1>14 DEF LogIInv
  <1> QED
    BY <1>1, <1>2, <1>3, <1>4, <1>5, <1>15, <1>16, LogStep

LEMMA ClockFallsKeeps ==
  ASSUME APIIInv, NEW n \in 1..plans.falls, ClockFalls(n)
  PROVE  APIIInv'
  <1>1. UNCHANGED <<keys, issued, alog, stamp, skipped, req, gcfg, gdisk, limit, ports, amiss>>
    BY DEF ClockFalls, configVars
  <1>2. /\ wall \in WallStates /\ wall.given \in Nat /\ wall.fallen \in Nat /\ n \in Nat
        /\ plans \in PlanStates /\ plans.falls \in Nat /\ plans.falls >= n
    <2>1. plans \in PlanStates
      BY DEF APIIInv, APITypes
    <2>2. plans.falls \in Nat
      BY <2>1 DEF PlanStates
    <2>3. wall \in WallStates
      BY LogFacts DEF LogTypes
    <2>4. wall.given \in Nat /\ wall.fallen \in Nat
      BY <2>3 DEF WallStates
    <2> QED
      BY <2>1, <2>2, <2>3, <2>4
  <1>3. PICK f \in Nat : plans' = [plans EXCEPT !.falls = f]
    BY <1>2 DEF ClockFalls
  <1>4. plans' \in PlanStates /\ plans'.secret = plans.secret /\ plans'.todo = plans.todo
    BY <1>2, <1>3 DEF PlanStates
  <1>5. wall' = [wall EXCEPT !.fallen = @ + n, !.turned = wall.given]
    BY DEF ClockFalls
  <1>6. wall' \in WallStates
    <2>1. PICK k \in Nat : k = wall.fallen + n
      BY <1>2
    <2>2. wall' = [wall EXCEPT !.fallen = k, !.turned = wall.given]
      BY <1>5, <2>1
    <2> QED
      BY <1>2, <2>2 DEF WallStates
  <1>7. LogTimes(alog, stamp, wall')
    BY <1>2, <1>5, <1>6, LogFacts, TimesFall DEF LogTypes
  <1>8. LogTypes'
    BY <1>1, <1>6, LogFacts DEF LogTypes
  <1>9. LogIInv'
    BY <1>1, <1>7 DEF APIIInv, LogIInv, AccessLogBounded
  <1>10. APITypes'
    BY <1>1, <1>4, <1>8 DEF APIIInv, APITypes
  <1>11. KeysIInv'
    BY <1>1, <1>4 DEF APIIInv, KeysIInv
  <1>12. ConfigIInv'
    BY <1>1 DEF APIIInv, ConfigIInv, Orderly
  <1> QED
    BY <1>9, <1>10, <1>11, <1>12 DEF APIIInv

\* The time of a request whose row could not be written is forgotten.
LEMMA TimeForgotten ==
  ASSUME NEW l \in Seq(LogRows), NEW st \in [Requests -> StampStates], NEW w \in WallStates,
         LogTimes(l, st, w), NEW tu \in [Requests -> StampStates],
         \A o \in Requests : tu[o] = st[o] \/ tu[o] = NoTime
  PROVE  LogTimes(l, tu, w)
  <1>1. w.given \in Nat /\ w.fallen \in Nat /\ w.turned \in Nat
    BY DEF WallStates
  <1>2. Timed(NoTime, w)
    BY <1>1 DEF Timed, NoTime
  <1>3. \A o \in Requests : Timed(tu[o], w)
    BY <1>2 DEF LogTimes
  <1> QED
    BY <1>3 DEF LogTimes

LEMMA NoTimeIsStamp ==
  NoTime \in StampStates
  BY DEF NoTime, StampStates

LEMMA LogInsertKeeps ==
  ASSUME APIIInv, NEW r \in Requests, LogInsert(r)
  PROVE  APIIInv'
  <1>1. /\ req[r] \in ReqStates /\ Admitted(req[r], keys, issued, plans.secret) /\ plans \in PlanStates
        /\ req[r].pc = "insert" /\ UNCHANGED <<keys, issued, wall, configVars>> /\ req[r].good
        /\ stamp' = [stamp EXCEPT ![r] = NoTime]
    BY RequestFacts DEF LogInsert, InStep, Admitted
  <1>0. /\ alog \in Seq(LogRows) /\ wall \in WallStates /\ wall' \in WallStates /\ wall.given \in Nat
        /\ stamp \in [Requests -> StampStates] /\ stamp' \in [Requests -> StampStates]
    BY <1>1, LogFacts, NoTimeIsStamp DEF LogTypes, WallStates
  <1>2. CASE /\ \E k \in 1..Len(alog) + 1 : Behind(k, stamp[r].at) /\ alog' = InsertAt(alog, k, Row(r))
             /\ To(r, "touch")
             /\ UNCHANGED <<skipped, plans>>
    <2> DEFINE p == [req[r] EXCEPT !.pc = "touch"]
    <2>1. req' = [req EXCEPT ![r] = p]
      BY <1>2, To_IsUpdate DEF APIIInv
    <2>2. /\ p \in ReqStates /\ p.pc = "touch" /\ p.key = req[r].key /\ p.op = req[r].op
          /\ p.set = req[r].set /\ p.good = req[r].good /\ p.open = req[r].open
      BY <1>1, RequestGoes, ZenonT(60)
    <2> HIDE DEF p
    <2>3. Admitted(p, keys, issued, plans.secret)
      BY <1>1, <2>2 DEF Admitted, Expects, Logging, Handling
    <2>4. Cardinality(LoggingNow') = Cardinality(LoggingNow) + 1
      BY <1>1, <2>1, <2>2, LogEntered DEF APIIInv, Logging
    <2>5. PICK k \in 1..Len(alog) + 1 : Behind(k, stamp[r].at) /\ alog' = InsertAt(alog, k, Row(r))
      BY <1>2
    <2>6. PICK x \in LogRows : x = Row(r) /\ x.at = stamp[r].at /\ x.nth = stamp[r].nth /\ x.by = wall.given
      <3>1. stamp[r].at \in Int /\ stamp[r].nth \in Nat
        BY <1>0 DEF StampStates
      <3>2. PICK a \in Int, m, b \in Nat : a = stamp[r].at /\ m = stamp[r].nth /\ b = wall.given
        BY <1>0, <3>1
      <3>3. Row(r) = [at |-> a, nth |-> m, by |-> b]
        BY <3>2 DEF Row
      <3>4. Row(r) \in LogRows /\ Row(r).at = a /\ Row(r).nth = m /\ Row(r).by = b
        BY <3>3 DEF LogRows
      <3> QED
        BY <3>2, <3>4
    <2>7. alog' \in Seq(LogRows) /\ Len(alog') = Len(alog) + 1
      BY <1>0, <2>5, <2>6, RowPut
    <2>8. LogTimes(alog', stamp', wall)
      BY <1>0, <1>1, <2>5, <2>6, LogFacts, TimesWritten DEF Behind
    <2>9. AccessLogBounded'
      BY <1>2, <2>4, <2>7, LogFacts DEF AccessLogBounded, LoggingNow, Logging
    <2>10. LogTypes'
      BY <1>0, <1>2, <2>7, LogFacts DEF LogTypes
    <2>11. LogIInv'
      BY <1>1, <2>8, <2>9 DEF LogIInv
    <2>12. req[r].pc \notin Changing /\ p.pc \notin Changing
      BY <1>1, <2>2 DEF Changing
    <2> QED
      BY <1>1, <1>2, <2>1, <2>2, <2>3, <2>10, <2>11, <2>12, LogStep
  <1>3. CASE Fault /\ Unlogged(r) /\ UNCHANGED <<alog, skipped>>
    <2>1. PICK p \in ReqStates :
            /\ req' = [req EXCEPT ![r] = p] /\ p.pc = "run" /\ p.key = req[r].key /\ p.op = req[r].op
            /\ p.set = req[r].set /\ p.good = req[r].good /\ p.open = req[r].open
      BY <1>3, UnloggedIs DEF APIIInv
    <2>2. Admitted(p, keys, issued, plans.secret)
      BY <1>1, <2>1 DEF Admitted, Expects, Logging, Handling
    <2>3. plans' \in PlanStates /\ plans'.secret = plans.secret /\ plans'.todo \subseteq plans.todo
      BY <1>3, FaultKeeps DEF APIIInv
    <2>4. req[r].pc \notin Changing \cup Logging /\ p.pc \notin Changing \cup Logging
      BY <1>1, <2>1 DEF Changing, Logging
    <2>5. req'[r] = p /\ \A o \in Requests \ {r} : req'[o] = req[o]
      BY <2>1 DEF APIIInv, APITypes
    <2>6. {o \in Requests : req'[o].pc \in Logging} = {o \in Requests : req[o].pc \in Logging}
      BY <2>4, <2>5
    <2>7. AccessLogBounded'
      BY <1>3, <2>6, LogFacts DEF AccessLogBounded, LoggingNow, Logging
    <2>8. \A o \in Requests : stamp'[o] = stamp[o] \/ stamp'[o] = NoTime
      BY <1>0, <1>1
    <2>9. LogTimes(alog, stamp', wall)
      BY <1>0, <2>8, LogFacts, TimeForgotten
    <2>10. LogTypes'
      BY <1>0, <1>3, LogFacts DEF LogTypes
    <2>11. LogIInv'
      BY <1>1, <1>3, <2>7, <2>9 DEF LogIInv
    <2> QED
      BY <1>1, <2>1, <2>2, <2>3, <2>4, <2>10, <2>11, LogStep
  <1> QED
    BY <1>2, <1>3 DEF LogInsert

\* A request stops logging and its trimming is counted as skipped.
LEMMA SkipKeeps ==
  ASSUME APIIInv, NEW r \in Requests, Fault, Unlogged(r), skipped' = skipped + 1,
         UNCHANGED <<keys, issued, alog, stamp, wall, configVars>>, req[r].pc \in Logging
  PROVE  APIIInv'
  <1>1. /\ req[r] \in ReqStates /\ Admitted(req[r], keys, issued, plans.secret) /\ plans \in PlanStates
    BY RequestFacts
  <1>2. PICK p \in ReqStates :
            /\ req' = [req EXCEPT ![r] = p] /\ p.pc = "run" /\ p.key = req[r].key /\ p.op = req[r].op
            /\ p.set = req[r].set /\ p.good = req[r].good /\ p.open = req[r].open
    BY UnloggedIs DEF APIIInv
  <1>3. Admitted(p, keys, issued, plans.secret)
    BY <1>1, <1>2 DEF Admitted, Expects, Logging, Handling
  <1>4. plans' \in PlanStates /\ plans'.secret = plans.secret /\ plans'.todo \subseteq plans.todo
    BY FaultKeeps DEF APIIInv
  <1>5. Cardinality(LoggingNow') = Cardinality(LoggingNow) - 1
    BY <1>2, LogLeft DEF APIIInv, Logging
  <1>6. AccessLogBounded'
    BY <1>5, LogFacts DEF AccessLogBounded, LoggingNow, Logging
  <1>7. LogTimes(alog', stamp', wall')
    BY LogFacts
  <1>8. req[r].pc \notin Changing /\ p.pc \notin Changing
    BY <1>2 DEF Changing, Logging
  <1>9. LogTypes'
    BY LogFacts DEF LogTypes
  <1> QED
    BY <1>2, <1>3, <1>4, <1>6, <1>7, <1>8, <1>9, LogStep DEF LogIInv

LEMMA LogTouchKeeps ==
  ASSUME APIIInv, NEW r \in Requests, LogTouch(r)
  PROVE  APIIInv'
  <1>1. /\ req[r] \in ReqStates /\ Admitted(req[r], keys, issued, plans.secret) /\ plans \in PlanStates
        /\ req[r].pc = "touch" /\ UNCHANGED <<keys, issued, alog, stamp, wall, configVars>>
    BY RequestFacts DEF LogTouch, InStep
  <1>2. CASE To(r, "count") /\ UNCHANGED <<skipped, plans>>
    <2> DEFINE p == [req[r] EXCEPT !.pc = "count"]
    <2>1. req' = [req EXCEPT ![r] = p]
      BY <1>2, To_IsUpdate DEF APIIInv
    <2>2. /\ p \in ReqStates /\ p.pc = "count" /\ p.key = req[r].key /\ p.op = req[r].op
          /\ p.set = req[r].set /\ p.good = req[r].good /\ p.open = req[r].open
      BY <1>1, RequestGoes, ZenonT(60)
    <2> HIDE DEF p
    <2>3. Admitted(p, keys, issued, plans.secret)
      BY <1>1, <2>2 DEF Admitted, Expects, Logging, Handling
    <2>4. LoggingNow' = LoggingNow
      BY <1>1, <2>1, <2>2, LogStays DEF APIIInv, Logging
    <2>5. AccessLogBounded' /\ LogTimes(alog', stamp', wall')
      BY <1>1, <1>2, <2>4, LogFacts DEF AccessLogBounded, LoggingNow, Logging
    <2>6. req[r].pc \notin Changing /\ p.pc \notin Changing
      BY <1>1, <2>2 DEF Changing
    <2>7. LogTypes'
      BY <1>1, <1>2, LogFacts DEF LogTypes
    <2> QED
      BY <1>1, <1>2, <2>1, <2>2, <2>3, <2>5, <2>6, <2>7, LogStep DEF LogIInv
  <1>3. CASE Fault /\ Unlogged(r) /\ skipped' = skipped + 1
    BY <1>1, <1>3, SkipKeeps DEF Logging
  <1> QED
    BY <1>2, <1>3 DEF LogTouch

LEMMA cleanupLogsKeeps ==
  ASSUME APIIInv, NEW r \in Requests, cleanupLogs(r)
  PROVE  APIIInv'
  <1>1. /\ req[r] \in ReqStates /\ Admitted(req[r], keys, issued, plans.secret) /\ plans \in PlanStates
        /\ req[r].pc = "count" /\ UNCHANGED <<keys, issued, alog, stamp, wall, configVars>>
    BY RequestFacts DEF cleanupLogs, InStep
  <1>2. CASE /\ req' = [req EXCEPT ![r].pc = IF TooMany(Len(alog)) THEN "trim" ELSE "run",
                                   ![r].count = Len(alog), ![r].admin = TRUE]
             /\ UNCHANGED <<skipped, plans>>
    <2>1. PICK s \in {"trim", "run"} : s = IF TooMany(Len(alog)) THEN "trim" ELSE "run"
      OBVIOUS
    <2>2. Len(alog) \in Nat
      BY LogFacts
    <2> DEFINE p == [req[r] EXCEPT !.pc = s, !.count = Len(alog), !.admin = TRUE]
    <2>3. req' = [req EXCEPT ![r] = p]
      BY <1>2, <2>1 DEF APIIInv, APITypes
    <2>4. /\ p \in ReqStates /\ p.pc = s /\ p.key = req[r].key /\ p.op = req[r].op
          /\ p.set = req[r].set /\ p.good = req[r].good /\ p.open = req[r].open
          /\ p.count = Len(alog)
      BY <1>1, <2>2 DEF ReqStates
    <2> HIDE DEF p
    <2>5. s = "trim" => Len(alog) > MaxLog
      BY <2>1 DEF TooMany
    <2>6. Admitted(p, keys, issued, plans.secret)
      BY <1>1, <2>4, <2>5 DEF Admitted, Expects, Logging, Handling
    <2>7. AccessLogBounded'
      <3>1. CASE s = "trim"
        <4>1. LoggingNow' = LoggingNow
          BY <1>1, <2>3, <2>4, <3>1, LogStays DEF APIIInv, Logging
        <4> QED
          BY <1>1, <1>2, <4>1, LogFacts DEF AccessLogBounded, LoggingNow, Logging
      <3>2. CASE s = "run"
        <4>1. Len(alog) <= MaxLog
          BY <2>1, <2>2, <3>2, LogFacts DEF TooMany
        <4>2. Cardinality(LoggingNow') = Cardinality(LoggingNow) - 1
          BY <1>1, <2>3, <2>4, <3>2, LogLeft DEF APIIInv, Logging
        <4>3. r \in LoggingNow
          BY <1>1 DEF LoggingNow, Logging
        <4>4. Cardinality(LoggingNow) # 0
          BY <4>3, LoggingFinite, FS_EmptySet
        <4> QED
          BY <1>1, <1>2, <4>1, <4>2, <4>4, LogFacts DEF AccessLogBounded, LoggingNow, Logging
      <3> QED
        BY <3>1, <3>2
    <2>8. LogTimes(alog', stamp', wall')
      BY <1>1, LogFacts
    <2>9. req[r].pc \notin Changing /\ p.pc \notin Changing
      BY <1>1, <2>4 DEF Changing
    <2>10. LogTypes'
      BY <1>1, <1>2, LogFacts DEF LogTypes
    <2> QED
      BY <1>1, <1>2, <2>3, <2>4, <2>6, <2>7, <2>8, <2>9, <2>10, LogStep DEF LogIInv
  <1>3. CASE Fault /\ Unlogged(r) /\ skipped' = skipped + 1
    BY <1>1, <1>3, SkipKeeps DEF Logging
  <1> QED
    BY <1>2, <1>3 DEF cleanupLogs

\* The oldest n rows are cut off; if there are not so many any more, all of them are.
LEMMA CutOff ==
  ASSUME NEW l \in Seq(LogRows), NEW n \in Nat, NEW m \in Seq(LogRows), m = SubSeq(l, n + 1, Len(l))
  PROVE  /\ Len(m) = IF n <= Len(l) THEN Len(l) - n ELSE 0
         /\ \A i \in 1..Len(m) : m[i] = l[i + n]
  <1>1. Len(l) \in Nat
    OBVIOUS
  <1> QED
    BY <1>1

\* A row that stays is not earlier than one that is deleted, by the clock.  If its time was
\* taken since the clock was last set back, it was also taken later, and it was written
\* after that.
LEMMA TimesCut ==
  ASSUME NEW l \in Seq(LogRows), NEW st \in [Requests -> StampStates], NEW w \in WallStates,
         LogTimes(l, st, w), NEW n \in Nat, NEW m \in Seq(LogRows), m = SubSeq(l, n + 1, Len(l)),
         NEW v, v = [w EXCEPT !.gone = @ \cup (Times(l) \ Times(m))]
  PROVE  v \in WallStates /\ LogTimes(m, st, v)
  <1>1. /\ Len(m) = IF n <= Len(l) THEN Len(l) - n ELSE 0
        /\ \A i \in 1..Len(m) : m[i] = l[i + n]
    BY CutOff
  <1>2. Len(l) \in Nat /\ Len(m) \in Nat
    OBVIOUS
  <1>3. \A i \in 1..Len(l) : l[i].nth \in Nat /\ l[i].at \in Int /\ l[i].by \in Nat
    BY RowIs
  <1>4. Times(l) \subseteq Nat
    BY <1>3 DEF Times
  <1>5. /\ w.given \in Nat /\ w.fallen \in Nat /\ w.turned \in Nat /\ w.gone \subseteq Nat
        /\ v.given = w.given /\ v.fallen = w.fallen /\ v.turned = w.turned
        /\ v.gone = w.gone \cup (Times(l) \ Times(m))
    BY DEF WallStates
  <1>6. v \in WallStates
    BY <1>4, <1>5 DEF WallStates
  <1>7. \A i \in 1..Len(m) : i + n \in 1..Len(l) /\ m[i] = l[i + n]
    BY <1>1, <1>2
  <1>8. \A i \in 1..Len(l) : Timed(l[i], w) /\ l[i].nth <= l[i].by /\ l[i].by <= w.given
    BY DEF LogTimes
  <1>9. \A y : Timed(y, w) => Timed(y, v)
    BY <1>5 DEF Timed
  <1>10. \A i \in 1..Len(m) : Timed(m[i], v) /\ m[i].nth <= m[i].by /\ m[i].by <= v.given
    BY <1>5, <1>7, <1>8, <1>9
  <1>11. \A o \in Requests : Timed(st[o], v)
    BY <1>9 DEF LogTimes
  <1>12. \A i, j \in 1..Len(m) : i <= j => m[i].at <= m[j].at
    <2> TAKE i, j \in 1..Len(m)
    <2> HAVE i <= j
    <2>1. i + n \in 1..Len(l) /\ j + n \in 1..Len(l) /\ i + n <= j + n
      BY <1>2, <1>7
    <2> QED
      BY <1>7, <2>1 DEF LogTimes
  <1>13. ASSUME NEW g \in v.gone
         PROVE  g <= v.given /\ \A i \in 1..Len(m) : m[i].nth > v.turned => m[i].by >= g
    <2>1. CASE g \in w.gone
      BY <1>5, <1>7, <2>1 DEF LogTimes
    <2>2. CASE g \in Times(l) \ Times(m)
      <3>1. PICK k \in 1..Len(l) : g = l[k].nth
        BY <2>2 DEF Times
      <3>2. ~(k > n)
        <4> SUFFICES ASSUME k > n
                     PROVE  FALSE
          OBVIOUS
        <4>1. k - n \in 1..Len(m) /\ (k - n) + n = k
          <5>1. k \in Nat /\ k <= Len(l) /\ n <= Len(l) /\ Len(m) = Len(l) - n
            BY <1>1, <1>2
          <5> QED
            BY <1>2, <5>1
        <4>2. m[k - n] = l[k]
          BY <1>7, <4>1
        <4> QED
          BY <2>2, <3>1, <4>1, <4>2 DEF Times
      <3>3. g \in Nat /\ g <= w.given
        BY <1>3, <1>5, <1>8, <3>1 DEF Timed
      <3>4. ASSUME NEW i \in 1..Len(m), m[i].nth > v.turned
            PROVE  m[i].by >= g
        <4>1. i + n \in 1..Len(l) /\ m[i] = l[i + n] /\ k <= i + n
          BY <1>2, <1>7, <3>2
        <4>2. l[k].at <= l[i + n].at
          BY <4>1 DEF LogTimes
        <4>3. l[k].at >= l[k].nth - w.fallen
          BY <1>8 DEF Timed
        <4>4. l[i + n].at = l[i + n].nth - w.fallen
          BY <1>5, <1>8, <3>4, <4>1 DEF Timed
        <4>5. l[i + n].nth >= l[k].nth
          <5>1. \A a, b, c, d, f \in Int : a <= b /\ a >= c - f /\ b = d - f => d >= c
            OBVIOUS
          <5>2. /\ l[k].at \in Int /\ l[i + n].at \in Int /\ l[k].nth \in Int /\ l[i + n].nth \in Int
                /\ w.fallen \in Int
            <6>1. l[k].at \in Int /\ l[k].nth \in Nat
              BY <1>3
            <6>2. l[i + n].at \in Int /\ l[i + n].nth \in Nat
              BY <1>3, <4>1
            <6>3. \A a \in Nat : a \in Int
              OBVIOUS
            <6> QED
              BY <1>5, <6>1, <6>2, <6>3
          <5> QED
            BY <4>2, <4>3, <4>4, <5>1, <5>2
        <4> QED
          BY <1>3, <1>8, <3>1, <4>1, <4>5
      <3> QED
        BY <1>5, <3>3, <3>4
    <2> QED
      BY <1>5, <2>1, <2>2
  <1>14. v.turned <= v.given
    BY <1>5 DEF LogTimes
  <1>15. LogTimes(m, st, v)
    BY <1>10, <1>11, <1>12, <1>13, <1>14 DEF LogTimes
  <1> QED
    BY <1>6, <1>15

LEMMA deleteOldestLogsKeeps ==
  ASSUME APIIInv, NEW r \in Requests, deleteOldestLogs(r)
  PROVE  APIIInv'
  <1>1. /\ req[r] \in ReqStates /\ Admitted(req[r], keys, issued, plans.secret) /\ plans \in PlanStates
        /\ req[r].pc = "trim" /\ UNCHANGED <<keys, issued, stamp, configVars>>
    BY RequestFacts DEF deleteOldestLogs, InStep
  <1> DEFINE p == [req[r] EXCEPT !.pc = "run", !.count = 0]
  <1>2. req' = [req EXCEPT ![r] = p]
    BY DEF deleteOldestLogs, APIIInv, APITypes
  <1>3. /\ p \in ReqStates /\ p.pc = "run" /\ p.key = req[r].key /\ p.op = req[r].op
        /\ p.set = req[r].set /\ p.good = req[r].good /\ p.open = req[r].open
    BY <1>1 DEF ReqStates
  <1> HIDE DEF p
  <1>4. Admitted(p, keys, issued, plans.secret)
    BY <1>1, <1>3 DEF Admitted, Expects, Logging, Handling
  <1>5. req[r].pc \notin Changing /\ p.pc \notin Changing
    BY <1>1, <1>3 DEF Changing
  <1>6. Cardinality(LoggingNow') = Cardinality(LoggingNow) - 1
    BY <1>1, <1>2, <1>3, LogLeft DEF APIIInv, Logging
  <1>7. CASE /\ alog' = deleteOldest(req[r].count - MaxLog)
             /\ wall' = [wall EXCEPT !.gone = @ \cup (Times(alog) \ Times(alog'))]
             /\ UNCHANGED <<skipped, plans>>
    <2>1. PICK n \in Nat : n = req[r].count - MaxLog /\ n > 0
      <3>1. req[r].count \in Nat /\ req[r].count > MaxLog
        BY <1>1 DEF Admitted, ReqStates
      <3> QED
        BY <3>1, LogFacts
    <2>0. alog \in Seq(LogRows) /\ wall \in WallStates /\ stamp \in [Requests -> StampStates]
      BY LogFacts DEF LogTypes
    <2>2. alog' = SubSeq(alog, n + 1, Len(alog))
      BY <1>7, <2>1 DEF deleteOldest
    <2>3. alog' \in Seq(LogRows)
      BY <2>0, <2>1, <2>2, SMTT(30)
    <2>4. /\ Len(alog') = IF n <= Len(alog) THEN Len(alog) - n ELSE 0
          /\ \A i \in 1..Len(alog') : alog'[i] = alog[i + n]
      BY <2>0, <2>1, <2>2, <2>3, CutOff, ZenonT(60)
    <2>5. Len(alog') \in Nat /\ (Len(alog') <= Len(alog) - 1 \/ Len(alog') = 0)
      BY <2>1, <2>4, LogFacts, SMTT(30)
    <2>6. Cardinality(LoggingNow') \in Nat
      <3>1. r \in LoggingNow
        BY <1>1 DEF LoggingNow, Logging
      <3>2. Cardinality(LoggingNow) # 0
        BY <3>1, LoggingFinite, FS_EmptySet
      <3> QED
        BY <1>6, <3>2, LoggingFinite
    <2>7. AccessLogBounded'
      BY <1>6, <1>7, <2>5, <2>6, LogFacts DEF AccessLogBounded, LoggingNow, Logging
    <2>8. wall' \in WallStates /\ LogTimes(alog', stamp, wall')
      BY <1>7, <2>0, <2>1, <2>2, <2>3, LogFacts, TimesCut
    <2>9. LogTypes'
      BY <1>1, <1>7, <2>3, <2>8, LogFacts DEF LogTypes
    <2>10. LogIInv'
      BY <1>1, <2>7, <2>8 DEF LogIInv
    <2> QED
      BY <1>1, <1>2, <1>3, <1>4, <1>5, <1>7, <2>9, <2>10, LogStep
  <1>8. CASE Fault /\ skipped' = skipped + 1 /\ UNCHANGED <<alog, wall>>
    <2>1. plans' \in PlanStates /\ plans'.secret = plans.secret /\ plans'.todo \subseteq plans.todo
      BY <1>8, FaultKeeps DEF APIIInv
    <2>2. AccessLogBounded'
      BY <1>6, <1>8, LogFacts DEF AccessLogBounded, LoggingNow, Logging
    <2>3. LogTimes(alog', stamp', wall')
      BY <1>1, <1>8, LogFacts
    <2>4. LogTypes'
      BY <1>1, <1>8, LogFacts DEF LogTypes
    <2> QED
      BY <1>1, <1>2, <1>3, <1>4, <1>5, <2>1, <2>2, <2>3, <2>4, LogStep DEF LogIInv
  <1> QED
    BY <1>7, <1>8 DEF deleteOldestLogs

-----------------------------------------------------------------------------
(* The keys.                                                               *)

\* The requests themselves stay as they are but for the one that goes on, and for the
\* note that the API was open to everyone.
LEMMA KeysChange ==
  ASSUME APIIInv, NEW r \in Requests, req[r].pc = "run",
         UNCHANGED <<alog, stamp, wall, skipped, configVars>>,
         keys' \subseteq 1..issued', issued' \in Nat,
         plans' \in PlanStates, plans'.todo = plans.todo, KeysIInv',
         req' \in [Requests -> ReqStates],
         \A o \in Requests : /\ req'[o].pc = IF o = r THEN "end" ELSE req[o].pc
                             /\ req'[o].set = req[o].set /\ req'[o].next = req[o].next
  PROVE  APIIInv'
  <1>1. UNCHANGED <<gcfg, gdisk, limit, ports, amiss>>
    BY DEF configVars
  <1>2. APITypes'
    BY <1>1 DEF APIIInv, APITypes, LogTypes
  <1>3. \A o \in Requests : (req'[o].pc \in Changing \/ req[o].pc \in Changing) => req'[o].pc = req[o].pc
    BY DEF Changing
  <1>4. ConfigIInv'
    <2>1. \A o \in Requests : req'[o].pc \in {"save", "assign"} => Fits(req'[o].next)
      BY DEF APIIInv, ConfigIInv
    <2>2. ASSUME amiss = ""
          PROVE  Orderly'
      <3>1. Orderly
        BY <2>2 DEF APIIInv, ConfigIInv
      <3>2. \A o, u \in Requests : req'[o].pc \in Changing /\ req'[u].pc \in Changing => o = u
        BY <1>3, <3>1 DEF Orderly
      <3>3. (\A o \in Requests : req'[o].pc \notin Changing) => \A o \in Requests : req[o].pc \notin Changing
        BY <1>3
      <3>4. \A o \in Requests : InPlace(req'[o], gcfg, gdisk, limit, ports)
        <4> TAKE o \in Requests
        <4>1. CASE o = r
          BY <4>1 DEF InPlace
        <4>2. CASE o # r
          <5>1. InPlace(req[o], gcfg, gdisk, limit, ports)
            BY <3>1 DEF Orderly
          <5>2. req'[o].pc = req[o].pc /\ req'[o].set = req[o].set /\ req'[o].next = req[o].next
            BY <4>2
          <5> QED
            BY <5>1, <5>2 DEF InPlace
        <4> QED
          BY <4>1, <4>2
      <3> QED
        BY <1>1, <3>1, <3>2, <3>3, <3>4 DEF Orderly
    <2> QED
      BY <1>1, <2>1, <2>2 DEF APIIInv, ConfigIInv
  <1>5. LogIInv'
    <2>1. {o \in Requests : req'[o].pc \in Logging} = {o \in Requests : req[o].pc \in Logging}
      BY DEF Logging
    <2> QED
      BY <2>1 DEF APIIInv, LogIInv, AccessLogBounded, Logging
  <1> QED
    BY <1>2, <1>4, <1>5 DEF APIIInv

LEMMA createAPIKeyKeeps ==
  ASSUME APIIInv, NEW r \in Requests, createAPIKey(r)
  PROVE  APIIInv'
  <1>1. /\ req[r] \in ReqStates /\ Admitted(req[r], keys, issued, plans.secret) /\ plans \in PlanStates
        /\ req[r].pc = "run" /\ UNCHANGED <<alog, stamp, wall, skipped, configVars>> /\ To(r, "end")
        /\ issued \in Nat
    BY RequestFacts DEF createAPIKey, Running, InStep
  <1>2. CASE issued' = issued + 1 /\ keys' = keys \cup {issued + 1} /\ UNCHANGED plans
    <2> DEFINE p == [req[r] EXCEPT !.pc = "end"]
    <2>1. req' = [req EXCEPT ![r] = p]
      BY <1>1, To_IsUpdate DEF APIIInv
    <2>2. /\ p \in ReqStates /\ p.pc = "end" /\ p.key = req[r].key /\ p.op = req[r].op
          /\ p.set = req[r].set /\ p.good = req[r].good /\ p.open = req[r].open /\ p.next = req[r].next
      BY <1>1, RequestGoes
    <2> HIDE DEF p
    <2>3. keys' \subseteq 1..issued' /\ issued' \in Nat /\ keys' # {}
      <3>1. keys \subseteq 1..issued
        BY DEF APIIInv, APITypes
      <3>2. 1..issued \subseteq 1..issued + 1 /\ issued + 1 \in 1..issued + 1
        BY <1>1
      <3>3. issued' = issued + 1 /\ keys' = keys \cup {issued + 1} /\ issued + 1 \in Nat
        BY <1>1, <1>2
      <3>4. keys' \subseteq 1..issued + 1
        BY <3>1, <3>2, <3>3, Zenon
      <3> QED
        BY <3>3, <3>4, Zenon
    <2>4. ASSUME NEW q \in ReqStates, Admitted(q, keys, issued, plans.secret)
          PROVE  Admitted(q, keys', issued', plans'.secret)
      <3>1. q.key \in {Nothing, Secret, Unknown} \cup 1..issued =>
               /\ q.key \in {Nothing, Secret, Unknown} \cup 1..issued'
               /\ q.key # issued + 1
        BY <1>1, <1>2 DEF Nothing, Secret, Unknown
      <3>2. q.key \in keys' /\ q.key # issued + 1 => q.key \in keys
        BY <1>2
      <3> QED
        BY <1>2, <2>3, <2>4, <3>1, <3>2 DEF Admitted
    <2>5. Admitted(p, keys, issued, plans.secret)
      BY <1>1, <2>2 DEF Admitted, Expects, Logging, Handling
    <2>6. req' \in [Requests -> ReqStates] /\ req'[r] = p /\ \A o \in Requests \ {r} : req'[o] = req[o]
      BY <2>1, <2>2 DEF APIIInv, APITypes
    <2>7. KeysIInv'
      <3>1. \A o \in Requests : Admitted(req'[o], keys, issued, plans.secret) /\ req'[o] \in ReqStates
        BY <2>2, <2>5, <2>6 DEF APIIInv, KeysIInv
      <3> QED
        BY <2>4, <3>1 DEF KeysIInv
    <2>8. \A o \in Requests : /\ req'[o].pc = IF o = r THEN "end" ELSE req[o].pc
                              /\ req'[o].set = req[o].set /\ req'[o].next = req[o].next
      BY <2>2, <2>6
    <2> QED
      BY <1>1, <1>2, <2>3, <2>6, <2>7, <2>8, KeysChange
  <1>3. CASE Fault /\ UNCHANGED <<keys, issued>>
    <2>1. UNCHANGED <<keyVars, configVars>>
      BY <1>1, <1>3 DEF keyVars
    <2> QED
      BY <1>1, <1>3, <2>1, QuietGo DEF Changing, Logging
  <1> QED
    BY <1>2, <1>3 DEF createAPIKey

LEMMA deleteAPIKeyKeeps ==
  ASSUME APIIInv, NEW r \in Requests, deleteAPIKey(r)
  PROVE  APIIInv'
  <1>1. /\ req[r] \in ReqStates /\ plans \in PlanStates
        /\ req[r].pc = "run" /\ UNCHANGED <<issued, alog, stamp, wall, skipped, configVars>>
        /\ issued \in Nat /\ keys \subseteq 1..issued /\ req \in [Requests -> ReqStates]
    BY RequestFacts DEF deleteAPIKey, Running, InStep, APIIInv, APITypes
  <1>2. keys' \subseteq keys
    BY DEF deleteAPIKey
  <1>3. plans' \in PlanStates /\ plans'.secret = plans.secret /\ plans'.todo = plans.todo
    BY <1>1, FaultKeeps DEF deleteAPIKey, APIIInv
  <1>4. PICK now \in BOOLEAN : now = (keys' = {} /\ ~plans.secret)
    OBVIOUS
  <1> DEFINE w(o) == [req[o] EXCEPT !.open = req[o].open \/ now]
             v(o) == IF req[o].pc = "idle" THEN req[o] ELSE w(o)
  <1>5. Witness(keys') = [o \in Requests |-> v(o)]
    BY <1>4 DEF Witness
  <1>6. \A o \in Requests :
          /\ v(o) \in ReqStates /\ v(o).pc = req[o].pc /\ v(o).key = req[o].key /\ v(o).op = req[o].op
          /\ v(o).set = req[o].set /\ v(o).good = req[o].good /\ v(o).next = req[o].next
          /\ v(o).count = req[o].count /\ (req[o].open => v(o).open)
          /\ (req[o].pc # "idle" /\ now => v(o).open)
    <2> TAKE o \in Requests
    <2>1. req[o] \in ReqStates
      BY <1>1
    <2>2. req[o].open \in BOOLEAN
      BY <2>1 DEF ReqStates
    <2>3. PICK b \in BOOLEAN : b = (req[o].open \/ now)
      OBVIOUS
    <2>4. w(o) = [req[o] EXCEPT !.open = b]
      BY <2>3
    <2>5. /\ w(o) \in ReqStates /\ w(o).pc = req[o].pc /\ w(o).key = req[o].key /\ w(o).op = req[o].op
          /\ w(o).set = req[o].set /\ w(o).good = req[o].good /\ w(o).next = req[o].next
          /\ w(o).count = req[o].count /\ w(o).open = b
      BY <2>1, <2>4 DEF ReqStates
    <2> HIDE DEF w
    <2> QED
      BY <2>1, <2>3, <2>5
  <1>7. \A o \in Requests : Admitted(v(o), keys', issued, plans.secret)
    <2> TAKE o \in Requests
    <2>1. Admitted(req[o], keys, issued, plans.secret)
      BY DEF APIIInv, KeysIInv
    <2>2. now = (keys' = {} /\ ~plans.secret)
      BY <1>4
    <2> HIDE DEF v
    <2> QED
      BY <1>2, <1>6, <2>1, <2>2 DEF Admitted, Expects
  <1> DEFINE p == [v(r) EXCEPT !.pc = "end"]
  <1> HIDE DEF v
  <1>8. req' = [[o \in Requests |-> v(o)] EXCEPT ![r] = p]
    BY <1>5 DEF deleteAPIKey
  <1>9. /\ p \in ReqStates /\ p.pc = "end" /\ p.key = v(r).key /\ p.op = v(r).op
        /\ p.set = v(r).set /\ p.good = v(r).good /\ p.open = v(r).open /\ p.next = v(r).next
    BY <1>6, RequestGoes
  <1> HIDE DEF p
  <1>10. req'[r] = p /\ \A o \in Requests \ {r} : req'[o] = v(o)
    BY <1>8
  <1>11. Admitted(p, keys', issued, plans.secret)
    BY <1>1, <1>6, <1>7, <1>9 DEF Admitted, Expects, Logging, Handling
  <1>12. req' \in [Requests -> ReqStates]
    BY <1>6, <1>8, <1>9
  <1>13. KeysIInv'
    <2>1. \A o \in Requests : Admitted(req'[o], keys', issued, plans.secret)
      BY <1>7, <1>10, <1>11
    <2> QED
      BY <1>1, <1>3, <2>1 DEF KeysIInv
  <1>14. \A o \in Requests : /\ req'[o].pc = IF o = r THEN "end" ELSE req[o].pc
                             /\ req'[o].set = req[o].set /\ req'[o].next = req[o].next
    BY <1>6, <1>9, <1>10
  <1>15. keys' \subseteq 1..issued' /\ issued' \in Nat
    BY <1>1, <1>2
  <1>16. UNCHANGED <<alog, stamp, wall, skipped, configVars>>
    BY <1>1
  <1> QED
    BY <1>1, <1>3, <1>12, <1>13, <1>14, <1>15, <1>16, KeysChange

-----------------------------------------------------------------------------
(* The configuration.                                                      *)

LEMMA ChangeIsInt ==
  ASSUME NEW s \in Changes, NEW f \in DOMAIN s
  PROVE  s[f] \in Int
  <1>1. PICK F \in SUBSET Fields : s \in [F -> Int]
    BY DEF Changes
  <1> QED
    BY <1>1

LEMMA CrossedIs ==
  ASSUME APITypes, NEW g
  PROVE  /\ Crossed(g) \in {"", "crossed", "torn", "unsaved"}
         /\ Crossed(g) # "torn" => amiss # "torn" /\ g = gcfg
         /\ Crossed(g) = "" => amiss = "" /\ \A o \in Requests : req[o].pc \notin Changing
  BY DEF APITypes, Crossed, Changing

LEMMA ConfigStep ==
  ASSUME APIIInv, NEW r \in Requests, NEW p \in ReqStates, req' = [req EXCEPT ![r] = p],
         UNCHANGED keyVars,
         plans' \in PlanStates, plans'.secret = plans.secret, plans'.todo \subseteq plans.todo,
         Admitted(p, keys, issued, plans.secret),
         req[r].pc \notin Logging, p.pc \notin Logging,
         gcfg' \in Configs, gdisk' \in Configs, limit' \in Int, ports' \in Int,
         amiss' \in {"", "crossed", "torn", "unsaved"},
         Fits(gcfg'), p.pc \in {"save", "assign"} => Fits(p.next),
         amiss' # "torn" => Fits(gdisk'),
         amiss' = "" => /\ \A o \in Requests \ {r} : req[o].pc \notin Changing
                        /\ InPlace(p, gcfg', gdisk', limit', ports')
                        /\ p.pc \notin Changing => Same(gdisk', gcfg') /\ Applied(gcfg', limit', ports')
  PROVE  APIIInv'
  <1>1. UNCHANGED <<keys, issued, alog, stamp, wall, skipped>>
    BY DEF keyVars
  <1>2. req' \in [Requests -> ReqStates] /\ KeysIInv'
    BY <1>1, KeysOneRequest DEF APIIInv
  <1>3. APITypes'
    BY <1>1, <1>2 DEF APIIInv, APITypes, LogTypes
  <1>4. LogIInv'
    BY <1>1, LogUntouched DEF APIIInv
  <1>5. req'[r] = p /\ \A o \in Requests \ {r} : req'[o] = req[o]
    BY DEF APIIInv, APITypes
  <1>6. \A o \in Requests : req'[o].pc \in {"save", "assign"} => Fits(req'[o].next)
    BY <1>5 DEF APIIInv, ConfigIInv
  <1>7. ASSUME amiss' = ""
        PROVE  Orderly'
    <2>1. \A o \in Requests \ {r} : req'[o].pc \notin Changing
      BY <1>5, <1>7
    <2>2. \A o \in Requests : InPlace(req'[o], gcfg', gdisk', limit', ports')
      <3> TAKE o \in Requests
      <3>1. CASE o = r
        BY <1>5, <1>7, <3>1
      <3>2. CASE o # r
        <4>1. req'[o].pc \notin Changing
          BY <2>1, <3>2
        <4> QED
          BY <4>1 DEF InPlace, Changing
      <3> QED
        BY <3>1, <3>2
    <2>3. \A o, u \in Requests : req'[o].pc \in Changing /\ req'[u].pc \in Changing => o = u
      BY <2>1
    <2>4. (\A o \in Requests : req'[o].pc \notin Changing) => Same(gdisk', gcfg') /\ Applied(gcfg', limit', ports')
      BY <1>5, <1>7
    <2> QED
      BY <2>2, <2>3, <2>4 DEF Orderly
  <1>8. ConfigIInv'
    BY <1>6, <1>7 DEF ConfigIInv
  <1> QED
    BY <1>2, <1>3, <1>4, <1>8 DEF APIIInv

\* What a lemma about the configuration begins with.
LEMMA ConfigFacts ==
  ASSUME APIIInv, NEW r \in Requests
  PROVE  /\ gcfg \in Configs /\ gdisk \in Configs /\ limit \in Int /\ ports \in Int
         /\ amiss \in {"", "crossed", "torn", "unsaved"}
         /\ Fits(gcfg) /\ (amiss # "torn" => Fits(gdisk))
         /\ req[r].pc \in {"save", "assign"} => Fits(req[r].next)
         /\ req[r].set \in Changes /\ req[r].next \in Configs
         /\ amiss = "" => InPlace(req[r], gcfg, gdisk, limit, ports)
         /\ amiss = "" /\ req[r].pc \in Changing => \A o \in Requests \ {r} : req[o].pc \notin Changing
         /\ amiss = "" /\ (\A o \in Requests : req[o].pc \notin Changing) =>
               Same(gdisk, gcfg) /\ Applied(gcfg, limit, ports)
  <1>1. req[r] \in ReqStates
    BY RequestFacts
  <1>2. req[r].set \in Changes /\ req[r].next \in Configs
    BY <1>1 DEF ReqStates
  <1>3. /\ gcfg \in Configs /\ gdisk \in Configs /\ limit \in Int /\ ports \in Int
        /\ amiss \in {"", "crossed", "torn", "unsaved"}
    BY DEF APIIInv, APITypes
  <1>4. ConfigIInv
    BY DEF APIIInv
  <1>5. /\ Fits(gcfg) /\ (amiss # "torn" => Fits(gdisk))
        /\ req[r].pc \in {"save", "assign"} => Fits(req[r].next)
    BY <1>4 DEF ConfigIInv
  <1>6. ASSUME amiss = ""
        PROVE  /\ InPlace(req[r], gcfg, gdisk, limit, ports)
               /\ req[r].pc \in Changing => \A o \in Requests \ {r} : req[o].pc \notin Changing
               /\ (\A o \in Requests : req[o].pc \notin Changing) =>
                     Same(gdisk, gcfg) /\ Applied(gcfg, limit, ports)
    BY <1>4, <1>6 DEF ConfigIInv, Orderly
  <1> QED
    BY <1>2, <1>3, <1>5, <1>6

LEMMA ValidIsFit ==
  ASSUME NEW g, Validate(g)
  PROVE  Fits(g)
  BY DEF Validate, Fits

LEMMA CopyConfigKeeps ==
  ASSUME APIIInv, NEW r \in Requests, CopyConfig(r)
  PROVE  APIIInv'
  <1>1. /\ req[r] \in ReqStates /\ Admitted(req[r], keys, issued, plans.secret) /\ plans \in PlanStates
        /\ req[r].pc = "run" /\ UNCHANGED <<keyVars, gcfg, gdisk, limit, ports, plans>>
    BY RequestFacts DEF CopyConfig, Running, InStep
  <1>2. PICK g \in Readable :
          LET next == Merge(g, req[r].set)
          IN  /\ req' = [req EXCEPT ![r].pc = IF Validate(next) THEN "save" ELSE "end", ![r].next = next]
              /\ amiss' = Crossed(g)
    BY DEF CopyConfig
  <1>3. g \in Configs
    BY <1>2, TornType DEF APIIInv
  <1>4. PICK next \in Configs : next = Merge(g, req[r].set)
    BY <1>3, ConfigFacts, MergeType
  <1>5. PICK s \in {"save", "end"} : s = IF Validate(next) THEN "save" ELSE "end"
    OBVIOUS
  <1> DEFINE p == [req[r] EXCEPT !.pc = s, !.next = next]
  <1>6. req' = [req EXCEPT ![r] = p] /\ amiss' = Crossed(g)
    BY <1>2, <1>4, <1>5 DEF APIIInv, APITypes
  <1>7. /\ p \in ReqStates /\ p.pc = s /\ p.key = req[r].key /\ p.op = req[r].op
        /\ p.set = req[r].set /\ p.good = req[r].good /\ p.open = req[r].open /\ p.next = next
    BY <1>1 DEF ReqStates
  <1> HIDE DEF p
  <1>8. Admitted(p, keys, issued, plans.secret)
    BY <1>1, <1>7 DEF Admitted, Expects, Logging, Handling
  <1>9. req[r].pc \notin Logging /\ p.pc \notin Logging
    BY <1>1, <1>7 DEF Logging
  <1>10. p.pc \in {"save", "assign"} => Fits(p.next)
    BY <1>5, <1>7, ValidIsFit
  <1>11. /\ amiss' \in {"", "crossed", "torn", "unsaved"}
         /\ amiss' # "torn" => amiss # "torn" /\ g = gcfg
         /\ amiss' = "" => amiss = "" /\ \A o \in Requests : req[o].pc \notin Changing
    BY <1>6, CrossedIs DEF APIIInv
  <1>12. ASSUME amiss' = ""
         PROVE  /\ \A o \in Requests \ {r} : req[o].pc \notin Changing
                /\ Same(gdisk, gcfg) /\ Applied(gcfg, limit, ports)
                /\ InPlace(p, gcfg, gdisk, limit, ports)
    <2>1. amiss = "" /\ g = gcfg /\ \A o \in Requests : req[o].pc \notin Changing
      BY <1>11, <1>12
    <2>2. Same(gdisk, gcfg) /\ Applied(gcfg, limit, ports)
      BY <2>1, ConfigFacts
    <2>3. InPlace(p, gcfg, gdisk, limit, ports)
      BY <1>4, <1>7, <2>1, <2>2 DEF InPlace
    <2> QED
      BY <2>1, <2>2, <2>3
  <1> QED
    BY <1>1, <1>6, <1>7, <1>8, <1>9, <1>10, <1>11, <1>12, ConfigFacts, ConfigStep

LEMMA SaveConfigKeeps ==
  ASSUME APIIInv, NEW r \in Requests, SaveConfig(r)
  PROVE  APIIInv'
  <1>1. /\ req[r] \in ReqStates /\ Admitted(req[r], keys, issued, plans.secret) /\ plans \in PlanStates
        /\ req[r].pc = "save" /\ UNCHANGED <<keyVars, gcfg, limit, ports, amiss>>
    BY RequestFacts DEF SaveConfig, InStep
  <1>2. PICK s \in {"assign", "end"} :
           /\ To(r, s)
           /\ s = "assign" => gdisk' = req[r].next /\ UNCHANGED plans
           /\ s = "end" => gdisk' = gdisk /\ Fault
    BY DEF SaveConfig
  <1> DEFINE p == [req[r] EXCEPT !.pc = s]
  <1>3. req' = [req EXCEPT ![r] = p]
    BY <1>2, To_IsUpdate DEF APIIInv
  <1>4. /\ p \in ReqStates /\ p.pc = s /\ p.key = req[r].key /\ p.op = req[r].op
        /\ p.set = req[r].set /\ p.good = req[r].good /\ p.open = req[r].open /\ p.next = req[r].next
    BY <1>1 DEF ReqStates
  <1> HIDE DEF p
  <1>5. Admitted(p, keys, issued, plans.secret)
    BY <1>1, <1>4 DEF Admitted, Expects, Logging, Handling
  <1>6. req[r].pc \notin Logging /\ p.pc \notin Logging /\ req[r].pc \in Changing
    BY <1>1, <1>4 DEF Logging, Changing
  <1>7. plans' \in PlanStates /\ plans'.secret = plans.secret /\ plans'.todo \subseteq plans.todo
    BY <1>1, <1>2, FaultKeeps DEF APIIInv
  <1>8. /\ gdisk' \in Configs /\ (amiss' # "torn" => Fits(gdisk'))
        /\ (p.pc \in {"save", "assign"} => Fits(p.next))
    BY <1>1, <1>2, <1>4, ConfigFacts
  <1>9. ASSUME amiss = ""
        PROVE  /\ \A o \in Requests \ {r} : req[o].pc \notin Changing
               /\ InPlace(p, gcfg, gdisk', limit, ports)
               /\ p.pc \notin Changing => Same(gdisk', gcfg) /\ Applied(gcfg, limit, ports)
    <2>1. Same(gdisk, gcfg) /\ Applied(gcfg, limit, ports) /\ req[r].next = Merge(gcfg, req[r].set)
      BY <1>1, <1>9, ConfigFacts DEF InPlace
    <2>2. InPlace(p, gcfg, gdisk', limit, ports)
      BY <1>2, <1>4, <2>1 DEF InPlace
    <2>3. p.pc \notin Changing => Same(gdisk', gcfg)
      BY <1>2, <1>4, <2>1 DEF Changing
    <2> QED
      BY <1>6, <1>9, <2>1, <2>2, <2>3, ConfigFacts
  <1> QED
    BY <1>1, <1>3, <1>4, <1>5, <1>6, <1>7, <1>8, <1>9, ConfigFacts, ConfigStep

LEMMA AssignConfigKeeps ==
  ASSUME APIIInv, NEW r \in Requests, AssignConfig(r)
  PROVE  APIIInv'
  <1>1. /\ req[r] \in ReqStates /\ Admitted(req[r], keys, issued, plans.secret) /\ plans \in PlanStates
        /\ req[r].pc = "assign" /\ UNCHANGED <<keyVars, gdisk, limit, ports, amiss, plans>>
        /\ gcfg' = req[r].next /\ To(r, "apply")
    BY RequestFacts DEF AssignConfig, InStep
  <1> DEFINE p == [req[r] EXCEPT !.pc = "apply"]
  <1>3. req' = [req EXCEPT ![r] = p]
    BY <1>1, To_IsUpdate DEF APIIInv
  <1>4. /\ p \in ReqStates /\ p.pc = "apply" /\ p.key = req[r].key /\ p.op = req[r].op
        /\ p.set = req[r].set /\ p.good = req[r].good /\ p.open = req[r].open /\ p.next = req[r].next
    BY <1>1 DEF ReqStates
  <1> HIDE DEF p
  <1>5. Admitted(p, keys, issued, plans.secret)
    BY <1>1, <1>4 DEF Admitted, Expects, Logging, Handling
  <1>6. req[r].pc \notin Logging /\ p.pc \notin Logging /\ req[r].pc \in Changing /\ p.pc \in Changing
    BY <1>1, <1>4 DEF Logging, Changing
  <1>7. gcfg' \in Configs /\ Fits(gcfg')
    BY <1>1, ConfigFacts
  <1>8. ASSUME amiss = ""
        PROVE  /\ \A o \in Requests \ {r} : req[o].pc \notin Changing
               /\ InPlace(p, gcfg', gdisk, limit, ports)
    <2>1. /\ gdisk = req[r].next /\ req[r].next = Merge(gcfg, req[r].set) /\ Applied(gcfg, limit, ports)
      BY <1>1, <1>8, ConfigFacts DEF InPlace
    <2>2. /\ gcfg'.max = IF "max" \in DOMAIN req[r].set /\ req[r].set["max"] > 0
                         THEN req[r].set["max"] ELSE gcfg.max
          /\ "ports" \notin DOMAIN req[r].set => gcfg'.ports = gcfg.ports
      <3>1. gcfg \in Configs /\ req[r].set \in Changes
        BY ConfigFacts
      <3>2. gcfg' = Merge(gcfg, req[r].set)
        BY <1>1, <2>1
      <3>3. /\ Merge(gcfg, req[r].set).max = IF "max" \in DOMAIN req[r].set /\ req[r].set["max"] > 0
                                            THEN req[r].set["max"] ELSE gcfg.max
            /\ "ports" \notin DOMAIN req[r].set => Merge(gcfg, req[r].set).ports = gcfg.ports
        BY <3>1, MergeType
      <3> QED
        BY <3>2, <3>3
    <2>3. Same(gdisk, gcfg')
      BY <1>1, <2>1 DEF Same
    <2>4. IF "max" \in DOMAIN req[r].set /\ req[r].set["max"] > 0 THEN gcfg'.max = req[r].set["max"]
          ELSE limit = LoadedMax(gcfg')
      BY <2>1, <2>2 DEF Applied, LoadedMax
    <2>5. "ports" \in DOMAIN req[r].set \/ ports = gcfg'.ports
      BY <2>1, <2>2 DEF Applied
    <2>6. InPlace(p, gcfg', gdisk, limit, ports)
      BY <1>4, <2>3, <2>4, <2>5 DEF InPlace
    <2> QED
      BY <1>6, <1>8, <2>6, ConfigFacts
  <1> QED
    BY <1>1, <1>3, <1>4, <1>5, <1>6, <1>7, <1>8, ConfigFacts, ConfigStep

LEMMA ApplyConfigKeeps ==
  ASSUME APIIInv, NEW r \in Requests, ApplyConfig(r)
  PROVE  APIIInv'
  <1>1. /\ req[r] \in ReqStates /\ Admitted(req[r], keys, issued, plans.secret) /\ plans \in PlanStates
        /\ req[r].pc = "apply" /\ UNCHANGED <<keyVars, gcfg, gdisk, amiss, plans>> /\ To(r, "end")
        /\ limit' = IF "max" \in DOMAIN req[r].set /\ req[r].set["max"] > 0 THEN req[r].set["max"] ELSE limit
        /\ ports' = IF "ports" \in DOMAIN req[r].set THEN gcfg.ports ELSE ports
    BY RequestFacts DEF ApplyConfig, InStep
  <1> DEFINE p == [req[r] EXCEPT !.pc = "end"]
  <1>3. req' = [req EXCEPT ![r] = p]
    BY <1>1, To_IsUpdate DEF APIIInv
  <1>4. /\ p \in ReqStates /\ p.pc = "end" /\ p.key = req[r].key /\ p.op = req[r].op
        /\ p.set = req[r].set /\ p.good = req[r].good /\ p.open = req[r].open /\ p.next = req[r].next
    BY <1>1 DEF ReqStates
  <1> HIDE DEF p
  <1>5. Admitted(p, keys, issued, plans.secret)
    BY <1>1, <1>4 DEF Admitted, Expects, Logging, Handling
  <1>6. req[r].pc \notin Logging /\ p.pc \notin Logging /\ req[r].pc \in Changing
    BY <1>1, <1>4 DEF Logging, Changing
  <1>7. limit' \in Int /\ ports' \in Int
    <2>1. "max" \in DOMAIN req[r].set => req[r].set["max"] \in Int
      BY ConfigFacts, ChangeIsInt
    <2>2. gcfg.ports \in Int
      BY ConfigFacts DEF Configs
    <2> QED
      BY <1>1, <2>1, <2>2, ConfigFacts
  <1>8. ASSUME amiss = ""
        PROVE  /\ \A o \in Requests \ {r} : req[o].pc \notin Changing
               /\ Same(gdisk, gcfg) /\ Applied(gcfg, limit', ports')
               /\ InPlace(p, gcfg, gdisk, limit', ports')
    <2>1. /\ Same(gdisk, gcfg)
          /\ IF "max" \in DOMAIN req[r].set /\ req[r].set["max"] > 0 THEN gcfg.max = req[r].set["max"]
             ELSE limit = LoadedMax(gcfg)
          /\ "ports" \in DOMAIN req[r].set \/ ports = gcfg.ports
      BY <1>1, <1>8, ConfigFacts DEF InPlace
    <2>2. gcfg.max \in Int
      BY ConfigFacts DEF Configs
    <2>3. limit' = LoadedMax(gcfg)
      BY <1>1, <2>1, <2>2 DEF LoadedMax
    <2>4. ports' = gcfg.ports
      BY <1>1, <2>1
    <2>5. InPlace(p, gcfg, gdisk, limit', ports')
      BY <1>4 DEF InPlace
    <2> QED
      BY <1>6, <1>8, <2>1, <2>3, <2>4, <2>5, ConfigFacts DEF Applied
  <1> QED
    BY <1>1, <1>3, <1>4, <1>5, <1>6, <1>7, <1>8, ConfigFacts, ConfigStep

LEMMA updateEntryPathKeeps ==
  ASSUME APIIInv, NEW r \in Requests, updateEntryPath(r)
  PROVE  APIIInv'
  <1>1. /\ req[r] \in ReqStates /\ Admitted(req[r], keys, issued, plans.secret) /\ plans \in PlanStates
        /\ req[r].pc = "run" /\ req[r].op = "entry"
        /\ UNCHANGED <<keyVars, gdisk, limit, ports, plans>> /\ To(r, "end")
        /\ gcfg' = [gcfg EXCEPT !.entry = req[r].set["entry"]]
        /\ amiss' = Crossed(gcfg)
    BY RequestFacts DEF updateEntryPath, Running, InStep
  <1>2. PICK v \in Int : v = req[r].set["entry"]
    <2>1. "entry" \in DOMAIN req[r].set
      BY <1>1 DEF Admitted, Expects
    <2> QED
      BY <2>1, ConfigFacts, ChangeIsInt
  <1>3. /\ gcfg' \in Configs /\ gcfg'.max = gcfg.max /\ gcfg'.render = gcfg.render
        /\ gcfg'.storage = gcfg.storage /\ gcfg'.ports = gcfg.ports
    <2>1. gcfg \in Configs
      BY ConfigFacts
    <2> QED
      BY <1>1, <1>2, <2>1 DEF Configs
  <1>4. Fits(gcfg')
    BY <1>3, ConfigFacts DEF Fits, GetLatencyHistoryRenderLimit, GetLatencyHistoryStorageLimit
  <1> DEFINE p == [req[r] EXCEPT !.pc = "end"]
  <1>5. req' = [req EXCEPT ![r] = p]
    BY <1>1, To_IsUpdate DEF APIIInv
  <1>6. /\ p \in ReqStates /\ p.pc = "end" /\ p.key = req[r].key /\ p.op = req[r].op
        /\ p.set = req[r].set /\ p.good = req[r].good /\ p.open = req[r].open /\ p.next = req[r].next
    BY <1>1 DEF ReqStates
  <1> HIDE DEF p
  <1>7. Admitted(p, keys, issued, plans.secret)
    BY <1>1, <1>6 DEF Admitted, Expects, Logging, Handling
  <1>8. req[r].pc \notin Logging /\ p.pc \notin Logging
    BY <1>1, <1>6 DEF Logging
  <1>9. /\ amiss' \in {"", "crossed", "torn", "unsaved"}
        /\ amiss' # "torn" => amiss # "torn"
        /\ amiss' = "" => amiss = "" /\ \A o \in Requests : req[o].pc \notin Changing
    BY <1>1, CrossedIs DEF APIIInv
  <1>10. ASSUME amiss' = ""
         PROVE  /\ \A o \in Requests \ {r} : req[o].pc \notin Changing
                /\ Same(gdisk, gcfg') /\ Applied(gcfg', limit, ports)
                /\ InPlace(p, gcfg', gdisk, limit, ports)
    <2>1. Same(gdisk, gcfg) /\ Applied(gcfg, limit, ports)
      BY <1>9, <1>10, ConfigFacts
    <2>2. Same(gdisk, gcfg') /\ Applied(gcfg', limit, ports)
      BY <1>3, <2>1 DEF Same, Applied, LoadedMax, GetLatencyHistoryRenderLimit, GetLatencyHistoryStorageLimit
    <2>3. InPlace(p, gcfg', gdisk, limit, ports)
      BY <1>6 DEF InPlace
    <2> QED
      BY <1>9, <1>10, <2>2, <2>3
  <1> QED
    BY <1>1, <1>3, <1>4, <1>5, <1>6, <1>7, <1>8, <1>9, <1>10, ConfigFacts, ConfigStep

LEMMA updateMaxKeeps ==
  ASSUME APIIInv, NEW r \in Requests, updateMaxSessionRecords(r)
  PROVE  APIIInv'
  <1>1. /\ req[r] \in ReqStates /\ Admitted(req[r], keys, issued, plans.secret) /\ plans \in PlanStates
        /\ req[r].pc = "run" /\ req[r].op = "max"
        /\ UNCHANGED <<keyVars, gdisk, limit, ports, plans>>
    BY RequestFacts DEF updateMaxSessionRecords, Running, InStep
  <1>2. "max" \in DOMAIN req[r].set
    BY <1>1 DEF Admitted, Expects
  <1>3. PICK v \in Int : v = req[r].set["max"]
    BY <1>2, ConfigFacts, ChangeIsInt
  <1>4. CASE v <= 0
    <2>1. To(r, "end") /\ UNCHANGED <<gcfg, amiss>>
      BY <1>3, <1>4 DEF updateMaxSessionRecords
    <2>2. UNCHANGED <<keyVars, configVars>>
      BY <1>1, <2>1 DEF configVars
    <2> QED
      BY <1>1, <2>1, <2>2, QuietGo DEF Changing, Logging
  <1>5. CASE ~(v <= 0)
    <2>1. gcfg' = [gcfg EXCEPT !.max = v] /\ To(r, "store") /\ amiss' = Crossed(gcfg)
      BY <1>3, <1>5 DEF updateMaxSessionRecords
    <2>2. /\ gcfg' \in Configs /\ gcfg'.max = v /\ gcfg'.render = gcfg.render
          /\ gcfg'.storage = gcfg.storage /\ gcfg'.ports = gcfg.ports
      <3>1. gcfg \in Configs
        BY ConfigFacts
      <3> QED
        BY <2>1, <3>1 DEF Configs
    <2>3. Fits(gcfg')
      BY <2>2, ConfigFacts DEF Fits, GetLatencyHistoryRenderLimit, GetLatencyHistoryStorageLimit
    <2> DEFINE p == [req[r] EXCEPT !.pc = "store"]
    <2>4. req' = [req EXCEPT ![r] = p]
      BY <2>1, To_IsUpdate DEF APIIInv
    <2>5. /\ p \in ReqStates /\ p.pc = "store" /\ p.key = req[r].key /\ p.op = req[r].op
          /\ p.set = req[r].set /\ p.good = req[r].good /\ p.open = req[r].open /\ p.next = req[r].next
      BY <1>1 DEF ReqStates
    <2> HIDE DEF p
    <2>6. Admitted(p, keys, issued, plans.secret)
      BY <1>1, <2>5 DEF Admitted, Expects, Logging, Handling
    <2>7. req[r].pc \notin Logging /\ p.pc \notin Logging /\ p.pc \in Changing
      BY <1>1, <2>5 DEF Logging, Changing
    <2>8. /\ amiss' \in {"", "crossed", "torn", "unsaved"}
          /\ amiss' # "torn" => amiss # "torn"
          /\ amiss' = "" => amiss = "" /\ \A o \in Requests : req[o].pc \notin Changing
      BY <2>1, CrossedIs DEF APIIInv
    <2>9. ASSUME amiss' = ""
          PROVE  /\ \A o \in Requests \ {r} : req[o].pc \notin Changing
                 /\ InPlace(p, gcfg', gdisk, limit, ports)
      <3>1. Applied(gcfg, limit, ports)
        BY <2>8, <2>9, ConfigFacts
      <3>2. v > 0 /\ ports = gcfg'.ports
        BY <1>5, <2>2, <3>1 DEF Applied
      <3>3. InPlace(p, gcfg', gdisk, limit, ports)
        BY <1>2, <1>3, <2>2, <2>5, <3>2 DEF InPlace
      <3> QED
        BY <2>8, <2>9, <3>3
    <2> QED
      BY <1>1, <2>2, <2>3, <2>4, <2>5, <2>6, <2>7, <2>8, <2>9, ConfigFacts, ConfigStep
  <1> QED
    BY <1>4, <1>5

LEMMA StoreMaxRecordsKeeps ==
  ASSUME APIIInv, NEW r \in Requests, StoreMaxRecords(r)
  PROVE  APIIInv'
  <1>1. /\ req[r] \in ReqStates /\ Admitted(req[r], keys, issued, plans.secret) /\ plans \in PlanStates
        /\ req[r].pc = "store" /\ UNCHANGED <<keyVars, gcfg, limit, ports>> /\ To(r, "apply")
    BY RequestFacts DEF StoreMaxRecords, InStep
  <1>2. /\ plans' \in PlanStates /\ plans'.secret = plans.secret /\ plans'.todo \subseteq plans.todo
    BY <1>1, FaultKeeps DEF StoreMaxRecords, APIIInv
  <1>3. /\ gdisk' \in Configs
        /\ amiss' \in {"", "crossed", "torn", "unsaved"}
        /\ amiss' # "torn" => amiss # "torn" /\ gdisk' \in {gcfg, gdisk}
        /\ amiss' = "" => amiss = "" /\ gdisk' = gcfg
    <2>1. ASSUME NEW g \in Readable, gdisk' = g, amiss' = IF g # gcfg THEN "torn" ELSE amiss
          PROVE  /\ gdisk' \in Configs
                 /\ amiss' \in {"", "crossed", "torn", "unsaved"}
                 /\ amiss' # "torn" => amiss # "torn" /\ gdisk' \in {gcfg, gdisk}
                 /\ amiss' = "" => amiss = "" /\ gdisk' = gcfg
      <3>1. g \in Configs
        BY <2>1, TornType DEF APIIInv
      <3> QED
        BY <2>1, <3>1, ConfigFacts
    <2>2. CASE UNCHANGED gdisk /\ amiss' = IF amiss = "" THEN "unsaved" ELSE amiss
      BY <2>2, ConfigFacts
    <2> QED
      BY <2>1, <2>2 DEF StoreMaxRecords
  <1>4. amiss' # "torn" => Fits(gdisk')
    BY <1>3, ConfigFacts
  <1> DEFINE p == [req[r] EXCEPT !.pc = "apply"]
  <1>5. req' = [req EXCEPT ![r] = p]
    BY <1>1, To_IsUpdate DEF APIIInv
  <1>6. /\ p \in ReqStates /\ p.pc = "apply" /\ p.key = req[r].key /\ p.op = req[r].op
        /\ p.set = req[r].set /\ p.good = req[r].good /\ p.open = req[r].open /\ p.next = req[r].next
    BY <1>1 DEF ReqStates
  <1> HIDE DEF p
  <1>7. Admitted(p, keys, issued, plans.secret)
    BY <1>1, <1>6 DEF Admitted, Expects, Logging, Handling
  <1>8. req[r].pc \notin Logging /\ p.pc \notin Logging /\ req[r].pc \in Changing /\ p.pc \in Changing
    BY <1>1, <1>6 DEF Logging, Changing
  <1>9. ASSUME amiss' = ""
        PROVE  /\ \A o \in Requests \ {r} : req[o].pc \notin Changing
               /\ InPlace(p, gcfg, gdisk', limit, ports)
    <2>1. amiss = "" /\ gdisk' = gcfg
      BY <1>3, <1>9
    <2>2. "max" \in DOMAIN req[r].set /\ gcfg.max = req[r].set["max"] /\ gcfg.max > 0 /\ ports = gcfg.ports
      BY <1>1, <2>1, ConfigFacts DEF InPlace
    <2>3. Same(gdisk', gcfg)
      BY <2>1 DEF Same
    <2>4. InPlace(p, gcfg, gdisk', limit, ports)
      BY <1>6, <2>2, <2>3 DEF InPlace
    <2> QED
      BY <1>8, <2>1, <2>4, ConfigFacts
  <1> QED
    BY <1>1, <1>2, <1>3, <1>4, <1>5, <1>6, <1>7, <1>8, <1>9, ConfigFacts, ConfigStep

LEMMA RestartProcessKeeps ==
  ASSUME APIIInv, RestartProcess
  PROVE  APIIInv'
  <1>1. /\ gdisk \in Configs /\ plans \in PlanStates /\ Validate(LoadGlobalConfig(gdisk))
        /\ UNCHANGED <<keys, issued, alog, wall, gdisk>>
    BY DEF APIIInv, APITypes, RestartProcess
  <1>2. PICK g \in Configs : /\ g = LoadGlobalConfig(gdisk)
                             /\ Same(gdisk, g) /\ Applied(g, g.max, g.ports)
    BY <1>1, LoadedIs, LoadedSame
  <1>3. gcfg' = g /\ limit' = g.max /\ ports' = g.ports /\ amiss' = "" /\ Fits(g)
    BY <1>1, <1>2, ValidIsFit DEF RestartProcess
  <1>4. Fits(gdisk)
    BY <1>2, <1>3 DEF Same, Fits
  <1>5. req' = [o \in Requests |-> Quiet]
    BY DEF RestartProcess
  <1>6. req' \in [Requests -> ReqStates] /\ \A o \in Requests : req'[o] = Quiet
    BY <1>5, QuietIsState
  <1>7. plans' \in PlanStates /\ plans'.secret = plans.secret /\ plans'.todo = plans.todo
    <2>1. plans.restarts \in Nat /\ plans.restarts > 0 /\ plans' = [plans EXCEPT !.restarts = plans.restarts - 1]
      BY <1>1 DEF RestartProcess, PlanStates
    <2> QED
      BY <1>1, <2>1 DEF PlanStates
  <1>8. skipped' = skipped + Cardinality(LoggingNow)
    BY DEF RestartProcess, LoggingNow, Logging
  <1>13. stamp' \in [Requests -> StampStates] /\ \A o \in Requests : stamp'[o] = NoTime
    BY NoTimeIsStamp DEF RestartProcess
  <1>9. LogIInv'
    <2>1. LoggingNow' = {}
      BY <1>6, QuietIsState DEF LoggingNow, Logging
    <2>2. Cardinality(LoggingNow') = 0
      BY <2>1, FS_EmptySet
    <2>3. AccessLogBounded'
      BY <1>1, <1>8, <2>2, LogFacts DEF AccessLogBounded, LoggingNow, Logging
    <2>4. LogTimes(alog, stamp', wall)
      BY <1>13, LogFacts, TimeForgotten DEF LogTypes
    <2> QED
      BY <1>1, <2>3, <2>4 DEF LogIInv
  <1>10. KeysIInv'
    <2>1. \A k, n, s : Admitted(Quiet, k, n, s)
      BY QuietIsState DEF Admitted, Logging, Handling
    <2> QED
      BY <1>6, <2>1 DEF KeysIInv
  <1>11. ConfigIInv'
    <2>1. \A o \in Requests : req'[o].pc = "idle"
      BY <1>6, QuietIsState
    <2>2. Orderly'
      <3>1. \A o \in Requests : req'[o].pc \notin Changing
        BY <2>1 DEF Changing
      <3>2. Same(gdisk', gcfg') /\ Applied(gcfg', limit', ports')
        BY <1>1, <1>2, <1>3
      <3>3. \A o \in Requests : InPlace(req'[o], gcfg', gdisk', limit', ports')
        BY <2>1 DEF InPlace
      <3> QED
        BY <3>1, <3>2, <3>3 DEF Orderly
    <2> QED
      BY <1>1, <1>3, <1>4, <2>1, <2>2 DEF ConfigIInv
  <1>12. APITypes'
    <2>1. limit' \in Int /\ ports' \in Int
      BY <1>2, <1>3 DEF Configs
    <2>2. LogTypes'
      BY <1>1, <1>8, <1>13, LogFacts DEF LogTypes
    <2> QED
      BY <1>1, <1>2, <1>3, <1>6, <1>7, <2>1, <2>2 DEF APIIInv, APITypes
  <1> QED
    BY <1>9, <1>10, <1>11, <1>12 DEF APIIInv

LEMMA APIStarts ==
  ASSUME APIInit
  PROVE  APIIInv
  <1>1. plans \in PlanStates /\ \A q \in plans.todo : Expects(q)
    <2>1. /\ plans \in [secret : BOOLEAN, keys : Nat, todo : {plans.todo}, faults : Nat, restarts : Nat,
                        falls : Nat]
          /\ \A q \in plans.todo : WellFormed(q)
      BY APIAssumption DEF APIInit
    <2>2. ASSUME NEW q \in plans.todo
          PROVE  q \in [key : Int, op : STRING, target : Int, set : Changes, id : Nat] /\ Expects(q)
      <3>1. /\ q \in [key : Int, op : STRING, target : Int, set : {q.set}, id : Nat]
            /\ DOMAIN q.set \subseteq Fields /\ q.set \in [DOMAIN q.set -> Int]
            /\ q.op \in {"entry", "max"} => q.op \in DOMAIN q.set
        BY <2>1 DEF WellFormed
      <3>2. q.set \in Changes
        BY <3>1 DEF Changes
      <3> QED
        BY <3>1, <3>2 DEF Expects
    <2>3. plans.todo \in SUBSET [key : Int, op : STRING, target : Int, set : Changes, id : Nat]
      BY <2>2
    <2>4. plans \in PlanStates
      BY <2>1, <2>3 DEF PlanStates
    <2> QED
      BY <2>2, <2>4
  <1>2. req \in [Requests -> ReqStates] /\ \A o \in Requests : req[o] = Quiet
    BY QuietIsState DEF APIInit
  <1>3. /\ gcfg \in Configs /\ gcfg = gdisk /\ Fits(gcfg) /\ amiss = ""
        /\ limit = gcfg.max /\ ports = gcfg.ports
    BY DefaultsFit DEF APIInit
  <1>4. APITypes
    <2>1. keys \subseteq 1..issued /\ issued \in Nat
      BY <1>1 DEF APIInit, PlanStates
    <2>2. limit \in Int /\ ports \in Int
      BY <1>3 DEF Configs
    <2>3. LogTypes
      <3>1. alog = <<>> /\ skipped = 0
        BY DEF APIInit
      <3>2. stamp \in [Requests -> StampStates] /\ wall \in WallStates
        BY NoTimeIsStamp DEF APIInit, WallStates
      <3> QED
        BY <3>1, <3>2 DEF LogTypes
    <2> QED
      BY <1>1, <1>2, <1>3, <2>1, <2>2, <2>3 DEF APITypes
  <1>5. KeysIInv
    <2>1. \A k, n, s : Admitted(Quiet, k, n, s)
      BY QuietIsState DEF Admitted, Logging, Handling
    <2> QED
      BY <1>2, <2>1 DEF KeysIInv
  <1>6. LogIInv
    <2>1. alog = <<>> /\ Len(alog) = 0 /\ skipped = 0
      BY DEF APIInit
    <2>2. AccessLogBounded
      BY <2>1, LoggingFinite, APIAssumption DEF AccessLogBounded, LoggingNow, Logging
    <2>3. LogTimes(alog, stamp, wall)
      <3>1. wall.given = 0 /\ wall.fallen = 0 /\ wall.turned = 0 /\ wall.gone = {}
        BY DEF APIInit
      <3>2. \A o \in Requests : stamp[o] = NoTime
        BY DEF APIInit
      <3>3. Timed(NoTime, wall)
        BY <3>1 DEF Timed, NoTime
      <3> QED
        BY <2>1, <3>1, <3>2, <3>3 DEF LogTimes
    <2> QED
      BY <2>2, <2>3 DEF LogIInv
  <1>7. ConfigIInv
    <2>1. \A o \in Requests : req[o].pc = "idle"
      BY <1>2, QuietIsState
    <2>2. Orderly
      <3>1. \A o \in Requests : req[o].pc \notin Changing
        BY <2>1 DEF Changing
      <3>2. Same(gdisk, gcfg)
        BY <1>3 DEF Same
      <3>3. Applied(gcfg, limit, ports)
        BY DEF APIInit, Applied, LoadedMax, DefaultGlobalConfig
      <3>4. \A o \in Requests : InPlace(req[o], gcfg, gdisk, limit, ports)
        BY <2>1 DEF InPlace
      <3> QED
        BY <3>1, <3>2, <3>3, <3>4 DEF Orderly
    <2> QED
      BY <1>3, <2>1, <2>2 DEF ConfigIInv
  <1> QED
    BY <1>4, <1>5, <1>6, <1>7 DEF APIIInv

LEMMA APIStep ==
  ASSUME APIIInv, [APINext]_apiVars
  PROVE  APIIInv'
  <1>1. ASSUME NEW r \in Requests, NEW q \in plans.todo, Arrive(r, q)
        PROVE  APIIInv'
    BY <1>1, ArriveKeeps
  <1>2. ASSUME NEW r \in Requests,
               \/ ConfigKey(r) \/ ListKeys(r) \/ LookUpKey(r)
               \/ TakeTime(r) \/ LogInsert(r) \/ LogTouch(r) \/ cleanupLogs(r) \/ deleteOldestLogs(r)
               \/ createAPIKey(r) \/ deleteAPIKey(r) \/ OtherHandler(r) \/ EndRequest(r)
        PROVE  APIIInv'
    BY <1>2, ConfigKeyKeeps, ListKeysKeeps, LookUpKeyKeeps, TakeTimeKeeps, LogInsertKeeps, LogTouchKeeps,
       cleanupLogsKeeps, deleteOldestLogsKeeps, createAPIKeyKeeps, deleteAPIKeyKeeps,
       OtherHandlerKeeps, EndRequestKeeps
  <1>3. ASSUME NEW r \in Requests,
               \/ CopyConfig(r) \/ SaveConfig(r) \/ AssignConfig(r) \/ ApplyConfig(r)
               \/ updateEntryPath(r) \/ updateMaxSessionRecords(r) \/ StoreMaxRecords(r)
        PROVE  APIIInv'
    BY <1>3, CopyConfigKeeps, SaveConfigKeeps, AssignConfigKeeps, ApplyConfigKeeps,
       updateEntryPathKeeps, updateMaxKeeps, StoreMaxRecordsKeeps
  <1>4. CASE RestartProcess
    BY <1>4, RestartProcessKeeps
  <1>6. ASSUME NEW n \in 1..plans.falls, ClockFalls(n)
        PROVE  APIIInv'
    BY <1>6, ClockFallsKeeps
  <1>5. CASE UNCHANGED apiVars
    <2>1. /\ UNCHANGED <<keys, issued, alog, stamp, wall, skipped>> /\ UNCHANGED req
          /\ UNCHANGED <<gcfg, gdisk, limit, ports, amiss>> /\ UNCHANGED plans
      BY <1>5 DEF apiVars, keyVars, configVars
    <2>2. APITypes'
      BY <2>1 DEF APIIInv, APITypes, LogTypes
    <2>3. KeysIInv' /\ LogIInv'
      BY <2>1 DEF APIIInv, KeysIInv, LogIInv, AccessLogBounded
    <2>4. ConfigIInv'
      BY <2>1 DEF APIIInv, ConfigIInv, Orderly
    <2> QED
      BY <2>2, <2>3, <2>4 DEF APIIInv
  <1> QED
    BY <1>1, <1>2, <1>3, <1>4, <1>5, <1>6 DEF APINext

\* What APIInv says of the configuration, in the words of the induction.
LEMMA AgreesWhenSame ==
  ASSUME NEW d \in Configs, NEW g \in Configs, Same(d, g)
  PROVE  LoadGlobalConfig([d EXCEPT !.entry = 1]) = LoadGlobalConfig([g EXCEPT !.entry = 1])
  <1> DEFINE e == [d EXCEPT !.entry = 1]
             h == [g EXCEPT !.entry = 1]
  <1>1. /\ e \in Configs /\ e.entry = 1 /\ e.max = d.max /\ e.render = d.render
        /\ e.storage = d.storage /\ e.ports = d.ports
    BY DEF Configs
  <1>2. /\ h \in Configs /\ h.entry = 1 /\ h.max = g.max /\ h.render = g.render
        /\ h.storage = g.storage /\ h.ports = g.ports
    BY DEF Configs
  <1> HIDE DEF e, h
  <1>3. /\ LoadedMax(e) = LoadedMax(h) /\ e.ports = h.ports /\ e.entry = h.entry
        /\ GetLatencyHistoryRenderLimit(e) = GetLatencyHistoryRenderLimit(h)
        /\ GetLatencyHistoryStorageLimit(e) = GetLatencyHistoryStorageLimit(h)
    BY <1>1, <1>2 DEF Same, LoadedMax, GetLatencyHistoryRenderLimit, GetLatencyHistoryStorageLimit
  <1>4. LoadGlobalConfig(e) \in Configs /\ LoadGlobalConfig(h) \in Configs
    BY <1>1, <1>2, LoadedIs
  <1>5. /\ LoadGlobalConfig(e).entry = LoadGlobalConfig(h).entry
        /\ LoadGlobalConfig(e).max = LoadGlobalConfig(h).max
        /\ LoadGlobalConfig(e).render = LoadGlobalConfig(h).render
        /\ LoadGlobalConfig(e).storage = LoadGlobalConfig(h).storage
        /\ LoadGlobalConfig(e).ports = LoadGlobalConfig(h).ports
    BY <1>1, <1>2, <1>3, LoadedIs
  <1>6. LoadGlobalConfig(e) = LoadGlobalConfig(h)
    BY <1>4, <1>5 DEF Configs
  <1> QED
    BY <1>6 DEF e, h

\* Handlers run only for requests with a key that was valid or while none was needed, the
\* access log stays bounded and loses no row to one that had been written before the request
\* came (while the clock is not set back), and the configuration can be loaded
\* again and agrees with what runs (APIInv): for any number of requests, keys and rows, any
\* interleaving of their statements, failures of the database and of the file, and restarts.
THEOREM APIHolds == APISpec => []APIInv
  <1>1. APIIInv => APIInv
    <2> SUFFICES ASSUME APIIInv PROVE APIInv
      OBVIOUS
    <2>1. NoEntryWithoutKey
      BY DEF APIIInv, KeysIInv, Admitted, NoEntryWithoutKey
    <2>2. AccessLogBounded /\ LogKeepsNewest
      BY DEF APIIInv, LogIInv, LogTimes, LogKeepsNewest
    <2>3. gcfg \in Configs /\ gdisk \in Configs
      BY DEF APIIInv, APITypes
    <2>4. StartsAgain
      <3> SUFFICES ASSUME amiss # "torn"
                   PROVE  /\ LoadGlobalConfig(gdisk).render <= LoadGlobalConfig(gdisk).storage
                          /\ LoadGlobalConfig(gdisk).max > 0
        BY DEF StartsAgain
      <3>1. Fits(gdisk)
        BY DEF APIIInv, ConfigIInv
      <3>2. LoadedMax(gdisk) > 0
        BY <2>3 DEF LoadedMax, DefaultGlobalConfig, Configs
      <3> QED
        BY <2>3, <3>1, <3>2, LoadedIs DEF Fits
    <2>5. ConfigAgrees
      <3> SUFFICES ASSUME Busy = {}, amiss = ""
                   PROVE  /\ LoadGlobalConfig([gdisk EXCEPT !.entry = 1]) = LoadGlobalConfig([gcfg EXCEPT !.entry = 1])
                          /\ limit = LoadGlobalConfig(gcfg).max
                          /\ ports = gcfg.ports
        BY DEF ConfigAgrees
      <3>1. \A o \in Requests : req[o].pc \notin Changing
        BY DEF Busy, Changing
      <3>2. Same(gdisk, gcfg) /\ Applied(gcfg, limit, ports)
        BY <3>1 DEF APIIInv, ConfigIInv, Orderly
      <3> QED
        BY <2>3, <3>2, AgreesWhenSame, LoadedIs DEF Applied
    <2> QED
      BY <2>1, <2>2, <2>4, <2>5 DEF APIInv
  <1> QED
    BY <1>1, APIStarts, APIStep, PTL DEF APISpec
-----------------------------------------------------------------------------
(* AccessControl.                                                          *)

LoginStates ==
    [pc : Named \cup {"idle", "refused", "kicked"}, name : Players \cup {""},
     server : Servers \cup {""}, seen : BOOLEAN, sure : BOOLEAN]

ListRequests ==
    [op : {"", "ban", "setBan", "unban", "allow", "setAllow", "unallow", "settings", "list", "kick"},
     name : Players \cup {""}, scope : Scopes, on : BOOLEAN, till : Nat, zone : Nat,
     white : BOOLEAN, padded : BOOLEAN]

Tasks == [pc : {"idle", "answered", "kicking"}, req : ListRequests, todo : SUBSET Servers]

ListTypes ==
    /\ AccessTypeOK
    /\ clock \in Nat
    /\ plan \in [kind : [Servers -> {"raw", "passthrough", "mitm", "raknet"}], local : Nat,
                 requests : {plan.requests}, faults : Nat, ticks : Nat]
    /\ \A q \in plan.requests : Decoded(q)
    /\ login \in [Logins -> LoginStates]
    /\ admin \in [Admins -> Tasks]

\* An entry that was alone when it was inserted is the one lookups find.
FirstIs(t, i) == \A j \in OfKey(t, t[i].name, t[i].scope) : i <= j

SolesFirst == \A i \in DOMAIN black : black[i].sole => FirstIs(black, i)

\* Row r bans the player of login p.
Bans(r, p) == r.sole /\ r.on /\ r.name = p.name /\ r.scope \in {"", p.server}

\* Task k, which is a's, has written r and has been at server s.
Reached(r, a, k, s) ==
    /\ k.pc = "kicking" /\ r.by = a /\ ~k.req.padded
    /\ k.req.name = r.name /\ k.req.scope = r.scope /\ s \notin k.todo

Within(p) == p.pc \in {"passed", "playing"} /\ p.sure /\ p.server \in Kickers

\* Nobody whom a row bans is past the check on a server where its request has been.
KeptOut ==
    \A l \in Logins, i \in DOMAIN black :
        /\ Bans(black[i], login[l]) /\ ~IsExpired(black[i])
        /\ black[i].told \/ \E a \in Admins : Reached(black[i], a, admin[a], login[l].server)
        => ~Within(login[l])

ListsIInv == ListTypes /\ SolesFirst /\ KeptOut

LEMMA LeastOf ==
  ASSUME NEW S, S \subseteq Nat, NEW i \in S, \A j \in S : i <= j
  PROVE  Min(S) = i
  <1>1. Min(S) \in S /\ \A j \in S : Min(S) <= j
    BY DEF Min
  <1>2. PICK m \in Nat : m = Min(S)
    BY <1>1
  <1>3. m <= i /\ i <= m /\ i \in Nat
    BY <1>1, <1>2
  <1> QED
    BY <1>2, <1>3

\* A set of ids that is not empty has a least one.
LEMMA MinIn ==
  ASSUME NEW S, S \subseteq Nat, S # {}
  PROVE  Min(S) \in S
  <1>1. \E x \in S : \A y \in S : ~ (<<y, x>> \in OpToRel(<, Nat))
    BY WFMin, NatLessThanWellFounded
  <1>2. ASSUME NEW x \in S, NEW y \in S, y < x
        PROVE  <<y, x>> \in OpToRel(<, Nat)
    BY <1>2 DEF OpToRel
  <1>3. \E x \in S : \A y \in S : ~ (y < x)
    BY <1>1, <1>2
  <1>4. \E x \in S : \A y \in S : x <= y
    BY <1>3
  <1> QED
    BY <1>4 DEF Min

\* The rows of a table whose ids go up to n.
Table(t, n) == DOMAIN t \subseteq 1..n /\ \A i \in DOMAIN t : t[i] \in Rows

LEMMA TypeByRows ==
  AccessTypeOK <=>
    /\ ids \in [black : Nat, white : Nat]
    /\ Table(black, ids.black) /\ Table(white, ids.white)
    /\ settings \in [Scopes -> [set : BOOLEAN, black : BOOLEAN, white : BOOLEAN]]
    /\ cleaned \in 0..clock
    /\ \A l \in Logins : login[l].pc \in Named \cup {"idle", "refused", "kicked"}
    /\ \A a \in Admins : admin[a].pc \in {"idle", "answered", "kicking"}
  BY DEF AccessTypeOK, Table, Range

\* A table that has no more rows, with the same keys.
Rekeyed(t, u) ==
    /\ DOMAIN u \subseteq DOMAIN t
    /\ \A i \in DOMAIN u : u[i].name = t[i].name /\ u[i].scope = t[i].scope /\ u[i].sole = t[i].sole

\* Every row is as it was, or goroutine a has written it and has told nobody.
Written(t, u, a) ==
    \A i \in DOMAIN u : (i \in DOMAIN t /\ u[i] = t[i]) \/ (u[i].by = a /\ ~u[i].told)

AllFirst(t) == \A i \in DOMAIN t : t[i].sole => FirstIs(t, i)

LEMMA RekeyedFirst ==
  ASSUME NEW t, NEW u, Rekeyed(t, u), AllFirst(t)
  PROVE  AllFirst(u)
  BY DEF Rekeyed, AllFirst, FirstIs, OfKey

\* What is left of a table when some rows are deleted.
LEMMA PartOf ==
  ASSUME NEW t, NEW n, Table(t, n), NEW S, S \subseteq DOMAIN t, NEW u, u = Restrict(t, S)
  PROVE  /\ Table(u, n) /\ Rekeyed(t, u) /\ \A a : Written(t, u, a)
         /\ DOMAIN u = S /\ \A i \in S : u[i] = t[i]
  <1>1. DOMAIN u = S /\ \A i \in S : u[i] = t[i]
    BY DEF Restrict
  <1> QED
    BY <1>1 DEF Table, Rekeyed, Written

\* Insertion under an id that was not given before.
LEMMA InsertKeeps ==
  ASSUME NEW n \in Nat, NEW t, Table(t, n), NEW r \in Rows, NEW u, u = Insert(t, n + 1, r)
  PROVE  /\ Table(u, n + 1)
         /\ DOMAIN u = DOMAIN t \cup {n + 1} /\ n + 1 \notin DOMAIN t
         /\ u[n + 1] = r /\ \A i \in DOMAIN t : u[i] = t[i]
         /\ (AllFirst(t) /\ (r.sole => OfKey(t, r.name, r.scope) = {})) => AllFirst(u)
  <1>1. n + 1 \notin DOMAIN t /\ \A i \in DOMAIN t : i \in Nat /\ i < n + 1
    BY DEF Table
  <1>2. DOMAIN u = DOMAIN t \cup {n + 1} /\ u[n + 1] = r /\ \A i \in DOMAIN t : u[i] = t[i]
    BY <1>1 DEF Insert
  <1>3. Table(u, n + 1)
    BY <1>1, <1>2 DEF Table
  <1>4. ASSUME AllFirst(t), r.sole => OfKey(t, r.name, r.scope) = {}, NEW i \in DOMAIN u, u[i].sole,
               NEW j \in DOMAIN u, u[j].name = u[i].name, u[j].scope = u[i].scope
        PROVE  i <= j
    <2>1. CASE i = n + 1
      <3>1. j \notin DOMAIN t
        BY <1>2, <1>4, <2>1 DEF OfKey
      <3> QED
        BY <1>2, <2>1, <3>1
    <2>2. CASE i \in DOMAIN t /\ j = n + 1
      BY <1>1, <2>2
    <2>3. CASE i \in DOMAIN t /\ j \in DOMAIN t
      BY <1>2, <1>4, <2>3 DEF AllFirst, FirstIs, OfKey
    <2> QED
      BY <1>2, <2>1, <2>2, <2>3
  <1>5. (AllFirst(t) /\ (r.sole => OfKey(t, r.name, r.scope) = {})) => AllFirst(u)
    BY <1>4 DEF AllFirst, FirstIs, OfKey
  <1> QED
    BY <1>1, <1>2, <1>3, <1>5

-----------------------------------------------------------------------------
(* The operations on the tables.                                           *)

LEMMA PurgeBlack ==
  ASSUME NEW t, NEW n, Table(t, n), NEW u, u = BlacklistDeleteExpired(t), clock \in Nat,
         plan.local \in Nat
  PROVE  /\ Table(u, n) /\ Rekeyed(t, u) /\ \A a : Written(t, u, a)
         /\ \A i \in DOMAIN u : u[i] = t[i]
         /\ \A i \in DOMAIN t : Lasting(t[i]) => i \in DOMAIN u
  <1>1. \A i \in DOMAIN t : t[i].till \in Nat /\ t[i].zone \in Nat
    BY DEF Table, Rows
  <1> DEFINE S == {i \in DOMAIN t : ~ReadsPast(t[i])}
  <1>2. u = Restrict(t, S)
    BY DEF BlacklistDeleteExpired, RestrictValues
  <1>3. \A i \in DOMAIN t : Lasting(t[i]) => i \in S
    BY <1>1 DEF Lasting, ReadsPast
  <1> HIDE DEF S
  <1>4. S \subseteq DOMAIN t
    BY DEF S
  <1> QED
    BY <1>2, <1>3, <1>4, PartOf

LEMMA PurgeWhite ==
  ASSUME NEW t, NEW n, Table(t, n), NEW u, u = WhitelistDeleteExpired(t)
  PROVE  Table(u, n)
  <1> DEFINE S == {i \in DOMAIN t : ~ReadsPast(t[i])}
  <1>2. u = Restrict(t, S)
    BY DEF WhitelistDeleteExpired, RestrictValues
  <1>4. S \subseteq DOMAIN t
    OBVIOUS
  <1> HIDE DEF S
  <1> QED
    BY <1>2, <1>4, PartOf

\* The purge every check and every list begins with.
LEMMA PurgeKeeps ==
  ASSUME ListTypes, NEW bad, cleanupExpiredEntriesIfDue(bad)
  PROVE  /\ Table(black', ids.black) /\ Table(white', ids.white) /\ cleaned' \in 0..clock
         /\ Rekeyed(black, black') /\ \A a : Written(black, black', a)
         /\ \A i \in DOMAIN black' : black'[i] = black[i]
         /\ \A i \in DOMAIN black : Lasting(black[i]) => i \in DOMAIN black'
  <1>1. /\ Table(black, ids.black) /\ Table(white, ids.white) /\ clock \in Nat
        /\ cleaned \in 0..clock /\ plan.local \in Nat
    BY TypeByRows DEF ListTypes
  <1>2. cleaned' \in 0..clock
    BY <1>1 DEF cleanupExpiredEntriesIfDue
  <1>3. black' = BlacklistDeleteExpired(black) \/ black' = black
    BY DEF cleanupExpiredEntriesIfDue
  <1>4. white' = WhitelistDeleteExpired(white) \/ white' = white
    BY DEF cleanupExpiredEntriesIfDue
  <1>5. Table(white', ids.white)
    BY <1>1, <1>4, PurgeWhite
  <1>6. CASE black' = black
    BY <1>1, <1>2, <1>5, <1>6 DEF Rekeyed, Written
  <1>7. CASE black' = BlacklistDeleteExpired(black)
    BY <1>1, <1>2, <1>5, <1>7, PurgeBlack
  <1> QED
    BY <1>3, <1>6, <1>7

\* The rows of t are rows of u too, under the same keys.
Keyed(t, u) ==
    \A i \in DOMAIN t : i \in DOMAIN u /\ u[i].name = t[i].name /\ u[i].scope = t[i].scope

LEMMA RowOfType ==
  ASSUME NEW q, Decoded(q), q.name \in Players, NEW a \in Admins, NEW t
  PROVE  /\ RowOf(t, q, a) \in Rows
         /\ RowOf(t, q, a).name = q.name /\ RowOf(t, q, a).scope = q.scope
         /\ RowOf(t, q, a).by = a /\ ~RowOf(t, q, a).told
         /\ RowOf(t, q, a).sole <=> OfKey(t, q.name, q.scope) = {}
  BY DEF RowOf, Rows, Decoded

LEMMA CreateKeeps ==
  ASSUME ListTypes, AllFirst(black), NEW q, Decoded(q), q.op = "ban", NEW a \in Admins,
         BlacklistCreate(q, a)
  PROVE  /\ ids' \in [black : Nat, white : Nat] /\ ids'.white = ids.white
         /\ Table(black', ids'.black) /\ AllFirst(black') /\ Written(black, black', a)
         /\ Keyed(black, black')
  <1>0. Table(black, ids.black) /\ ids \in [black : Nat, white : Nat] /\ q.name \in Players
    BY TypeByRows DEF ListTypes, Decoded
  <1>1. PICK r \in Rows : /\ r = RowOf(black, q, a) /\ r.name = q.name /\ r.scope = q.scope
                          /\ r.by = a /\ ~r.told
                          /\ r.sole <=> OfKey(black, q.name, q.scope) = {}
    BY <1>0, RowOfType
  <1>2. CASE /\ black' = [i \in DOMAIN black |->
                           IF i \in OfKey(black, q.name, q.scope)
                           THEN [RowOf(black, q, a) EXCEPT !.sole = black[i].sole] ELSE black[i]]
             /\ UNCHANGED ids
    <2>1. DOMAIN black' = DOMAIN black
      BY <1>2
    <2>2. ASSUME NEW i \in DOMAIN black, i \in OfKey(black, q.name, q.scope)
          PROVE  /\ black'[i] \in Rows /\ black'[i].name = black[i].name
                 /\ black'[i].scope = black[i].scope /\ black'[i].sole = black[i].sole
                 /\ black'[i].by = a /\ ~black'[i].told
      <3>1. black'[i] = [r EXCEPT !.sole = black[i].sole]
        BY <1>1, <1>2, <2>2
      <3>2. black[i] \in Rows /\ black[i].name = q.name /\ black[i].scope = q.scope
        BY <1>0, <2>2 DEF Table, OfKey
      <3> QED
        BY <1>1, <3>1, <3>2 DEF Rows
    <2>3. ASSUME NEW i \in DOMAIN black, i \notin OfKey(black, q.name, q.scope)
          PROVE  black'[i] = black[i] /\ black'[i] \in Rows
      BY <1>0, <1>2, <2>3 DEF Table
    <2>4. Rekeyed(black, black') /\ Written(black, black', a) /\ Keyed(black, black')
      BY <2>1, <2>2, <2>3 DEF Rekeyed, Written, Keyed
    <2>5. Table(black', ids.black)
      BY <1>0, <2>1, <2>2, <2>3 DEF Table
    <2> QED
      BY <1>0, <1>2, <2>4, <2>5, RekeyedFirst
  <1>3. CASE /\ black' = Insert(black, ids.black + 1, RowOf(black, q, a))
             /\ ids' = [ids EXCEPT !.black = @ + 1]
    <2>1. /\ ids.black \in Nat /\ ids' \in [black : Nat, white : Nat]
          /\ ids'.black = ids.black + 1 /\ ids'.white = ids.white
      BY <1>0, <1>3
    <2>2. PICK n \in Nat : n = ids.black
      BY <2>1
    <2>3. PICK u : u = black' /\ u = Insert(black, n + 1, r)
      BY <1>1, <1>3, <2>2
    <2>4. /\ Table(u, n + 1) /\ DOMAIN u = DOMAIN black \cup {n + 1}
          /\ u[n + 1] = r /\ \A i \in DOMAIN black : u[i] = black[i]
          /\ AllFirst(u)
      BY <1>0, <1>1, <2>2, <2>3, InsertKeeps
    <2>5. Written(black, u, a) /\ Keyed(black, u)
      BY <1>1, <2>4 DEF Written, Keyed
    <2> QED
      BY <2>1, <2>2, <2>3, <2>4, <2>5
  <1> QED
    BY <1>2, <1>3 DEF BlacklistCreate

LEMMA SwitchKeeps ==
  ASSUME ListTypes, AllFirst(black), NEW q, Decoded(q), NEW a \in Admins,
         black' = BlacklistUpdateEnabled(q, a)
  PROVE  /\ Table(black', ids.black) /\ AllFirst(black') /\ Written(black, black', a)
         /\ Keyed(black, black') /\ DOMAIN black' = DOMAIN black
         /\ \A i \in OfKey(black', q.name, q.scope) : black'[i].on = q.on
         /\ OfKey(black', q.name, q.scope) = OfKey(black, q.name, q.scope)
  <1>0. Table(black, ids.black)
    BY TypeByRows DEF ListTypes
  <1>1. DOMAIN black' = DOMAIN black
    BY DEF BlacklistUpdateEnabled
  <1>2. ASSUME NEW i \in DOMAIN black, i \in OfKey(black, q.name, q.scope)
        PROVE  /\ black'[i] \in Rows /\ black'[i].name = black[i].name
               /\ black'[i].scope = black[i].scope /\ black'[i].sole = black[i].sole
               /\ black'[i].by = a /\ ~black'[i].told /\ black'[i].on = q.on
    <2>1. black'[i] = [black[i] EXCEPT !.on = q.on, !.by = a, !.told = FALSE]
      BY <1>2 DEF BlacklistUpdateEnabled
    <2>2. black[i] \in Rows /\ q.on \in BOOLEAN
      BY <1>0 DEF Table, Decoded
    <2> QED
      BY <2>1, <2>2 DEF Rows
  <1>3. ASSUME NEW i \in DOMAIN black, i \notin OfKey(black, q.name, q.scope)
        PROVE  black'[i] = black[i] /\ black'[i] \in Rows
    BY <1>0, <1>3 DEF Table, BlacklistUpdateEnabled
  <1>4. Rekeyed(black, black') /\ Written(black, black', a) /\ Keyed(black, black')
    BY <1>1, <1>2, <1>3 DEF Rekeyed, Written, Keyed
  <1>5. Table(black', ids.black)
    BY <1>0, <1>1, <1>2, <1>3 DEF Table
  <1>6. OfKey(black', q.name, q.scope) = OfKey(black, q.name, q.scope)
    BY <1>1, <1>2, <1>3 DEF OfKey
  <1>7. \A i \in OfKey(black', q.name, q.scope) : black'[i].on = q.on
    BY <1>2, <1>6 DEF OfKey
  <1>8. AllFirst(black')
    BY <1>4, RekeyedFirst
  <1> QED
    BY <1>1, <1>4, <1>5, <1>6, <1>7, <1>8

LEMMA DeleteKeeps ==
  ASSUME ListTypes, AllFirst(black), NEW n, NEW s, black' = BlacklistDelete(n, s)
  PROVE  /\ Table(black', ids.black) /\ AllFirst(black') /\ \A a : Written(black, black', a)
         /\ DOMAIN black' = DOMAIN black \ OfKey(black, n, s)
         /\ \A i \in DOMAIN black' : black'[i] = black[i]
         /\ OfKey(black', n, s) = {}
  <1>0. Table(black, ids.black)
    BY TypeByRows DEF ListTypes
  <1>1. PICK S : S = DOMAIN black \ OfKey(black, n, s) /\ black' = Restrict(black, S)
    BY DEF BlacklistDelete
  <1>2. /\ Table(black', ids.black) /\ Rekeyed(black, black') /\ \A a : Written(black, black', a)
        /\ DOMAIN black' = S /\ \A i \in S : black'[i] = black[i]
    BY <1>0, <1>1, PartOf
  <1>3. OfKey(black', n, s) = {}
    BY <1>1, <1>2 DEF OfKey
  <1>4. AllFirst(black')
    BY <1>2, RekeyedFirst
  <1> QED
    BY <1>1, <1>2, <1>3, <1>4

LEMMA ToldKeeps ==
  ASSUME ListTypes, AllFirst(black), NEW a \in Admins, black' = Told(a)
  PROVE  /\ Table(black', ids.black) /\ AllFirst(black') /\ Keyed(black, black')
         /\ DOMAIN black' = DOMAIN black
         /\ \A i \in DOMAIN black :
              /\ \A f \in {"name", "scope", "on", "till", "by", "sole"} : black'[i][f] = black[i][f]
              /\ black'[i].told =>
                   \/ black[i].told
                   \/ /\ black[i].by = a /\ ~admin[a].req.padded
                      /\ black[i].name = admin[a].req.name /\ black[i].scope = admin[a].req.scope
  <1>0. Table(black, ids.black) /\ admin[a] \in Tasks
    BY TypeByRows DEF ListTypes
  <1>1. DOMAIN black' = DOMAIN black
    BY DEF Told
  <1>2. ASSUME NEW i \in DOMAIN black
        PROVE  /\ black'[i] \in Rows
               /\ black'[i].name = black[i].name /\ black'[i].scope = black[i].scope
               /\ black'[i].on = black[i].on /\ black'[i].till = black[i].till
               /\ black'[i].by = black[i].by /\ black'[i].sole = black[i].sole
               /\ black'[i].told =>
                   \/ black[i].told
                   \/ /\ black[i].by = a /\ ~admin[a].req.padded
                      /\ black[i].name = admin[a].req.name /\ black[i].scope = admin[a].req.scope
    <2>1. black[i] \in Rows
      BY <1>0 DEF Table
    <2>2. CASE i \in OfKey(black, admin[a].req.name, admin[a].req.scope)
      <3>1. black'[i] = [black[i] EXCEPT !.told = black[i].told \/ (black[i].by = a /\ ~admin[a].req.padded)]
        BY <2>2 DEF Told
      <3> QED
        BY <2>1, <2>2, <3>1 DEF Rows, OfKey
    <2>3. CASE i \notin OfKey(black, admin[a].req.name, admin[a].req.scope)
      <3>1. black'[i] = black[i]
        BY <2>3 DEF Told
      <3> QED
        BY <2>1, <3>1
    <2> QED
      BY <2>2, <2>3
  <1>3. Rekeyed(black, black') /\ Keyed(black, black')
    BY <1>1, <1>2 DEF Rekeyed, Keyed
  <1>4. Table(black', ids.black)
    BY <1>0, <1>1, <1>2 DEF Table
  <1>5. AllFirst(black')
    BY <1>3, RekeyedFirst
  <1> QED
    BY <1>1, <1>2, <1>3, <1>4, <1>5

LEMMA AllowKeeps ==
  ASSUME ListTypes, NEW q, Decoded(q), q.op = "allow", NEW a \in Admins, WhitelistCreate(q, a)
  PROVE  /\ ids' \in [black : Nat, white : Nat] /\ ids'.black = ids.black
         /\ Table(white', ids'.white)
  <1>0. Table(white, ids.white) /\ ids \in [black : Nat, white : Nat] /\ q.name \in Players
    BY TypeByRows DEF ListTypes, Decoded
  <1>1. /\ ids.white \in Nat /\ ids' \in [black : Nat, white : Nat]
        /\ ids'.white = ids.white + 1 /\ ids'.black = ids.black
    BY <1>0 DEF WhitelistCreate
  <1>2. PICK r \in Rows : r = RowOf(white, q, a)
    BY <1>0, RowOfType
  <1>3. PICK n \in Nat : n = ids.white
    BY <1>1
  <1>4. PICK u : u = white' /\ u = Insert(white, n + 1, r)
    BY <1>2, <1>3 DEF WhitelistCreate
  <1>5. Table(u, n + 1)
    <2>1. Table(white, n)
      BY <1>0, <1>3
    <2> QED
      BY <1>4, <2>1, InsertKeeps
  <1> QED
    BY <1>1, <1>3, <1>4, <1>5

LEMMA WhiteKeeps ==
  ASSUME ListTypes, NEW q, Decoded(q),
         white' = WhitelistUpdateEnabled(q) \/ white' = WhitelistDelete(q.name, q.scope)
  PROVE  Table(white', ids.white)
  <1>0. Table(white, ids.white) /\ q.on \in BOOLEAN
    BY TypeByRows DEF ListTypes, Decoded
  <1>1. CASE white' = WhitelistUpdateEnabled(q)
    <2>1. DOMAIN white' = DOMAIN white
      BY <1>1 DEF WhitelistUpdateEnabled
    <2>2. ASSUME NEW i \in DOMAIN white PROVE white'[i] \in Rows
      <3>1. white[i] \in Rows
        BY <1>0 DEF Table
      <3>2. white'[i] = [white[i] EXCEPT !.on = q.on] \/ white'[i] = white[i]
        BY <1>1 DEF WhitelistUpdateEnabled
      <3> QED
        BY <1>0, <3>1, <3>2 DEF Rows
    <2> QED
      BY <1>0, <2>1, <2>2 DEF Table
  <1>2. CASE white' = WhitelistDelete(q.name, q.scope)
    <2>1. PICK S : S = DOMAIN white \ OfKey(white, q.name, q.scope) /\ white' = Restrict(white, S)
      BY <1>2 DEF WhitelistDelete
    <2> QED
      BY <1>0, <2>1, PartOf
  <1> QED
    BY <1>1, <1>2

-----------------------------------------------------------------------------
(* Who is kept out.                                                        *)

\* A request writes rows of its own and has been nowhere yet; or a task ends.
LEMMA WriteKept ==
  ASSUME ListTypes, KeptOut, NEW a \in Admins, NEW k, admin' = [admin EXCEPT ![a] = k],
         k.pc = "kicking" => k.todo = Kickers, Written(black, black', a),
         UNCHANGED <<login, clock>>, plan'.kind = plan.kind
  PROVE  KeptOut'
  <1>0. Kickers' = Kickers
    BY DEF Kickers
  <1>1. SUFFICES ASSUME NEW l \in Logins, NEW i \in DOMAIN black',
                        Bans(black'[i], login[l]), ~IsExpired(black'[i]), Within(login[l]),
                        black'[i].told \/ \E b \in Admins : Reached(black'[i], b, admin'[b], login[l].server)
                 PROVE  FALSE
    BY <1>0 DEF KeptOut, Bans, IsExpired, Within, Reached
  <1>2. login[l].server \in Kickers
    BY <1>1 DEF Within
  <1>3. CASE black'[i].told
    BY <1>1, <1>3 DEF Written, KeptOut
  <1>4. ASSUME NEW b \in Admins, Reached(black'[i], b, admin'[b], login[l].server)
        PROVE  FALSE
    <2>1. b # a
      <3>1. admin'[a] = k
        BY DEF ListTypes
      <3> QED
        BY <1>2, <1>4, <3>1 DEF Reached
    <2>2. admin'[b] = admin[b]
      BY <2>1 DEF ListTypes
    <2>3. i \in DOMAIN black /\ black'[i] = black[i]
      BY <1>4, <2>1 DEF Reached, Written
    <2> QED
      BY <1>1, <1>4, <2>2, <2>3 DEF KeptOut
  <1> QED
    BY <1>1, <1>3, <1>4

\* A login goes on: it does not pass, or had passed, or nothing bans its player.
LEMMA LoginKept ==
  ASSUME ListTypes, KeptOut, NEW c \in Logins, NEW p, login' = [login EXCEPT ![c] = p],
         \A i \in DOMAIN black' : i \in DOMAIN black /\ black'[i] = black[i],
         UNCHANGED <<admin, clock>>, plan'.kind = plan.kind,
         \/ p.pc \notin {"passed", "playing"}
         \/ Within(p) => Within(login[c]) /\ p.name = login[c].name /\ p.server = login[c].server
         \/ p.sure => \A i \in DOMAIN black' : ~(Bans(black'[i], p) /\ ~IsExpired(black'[i]))
  PROVE  KeptOut'
  <1>0. Kickers' = Kickers
    BY DEF Kickers
  <1>1. SUFFICES ASSUME NEW l \in Logins, NEW i \in DOMAIN black',
                        Bans(black'[i], login'[l]), ~IsExpired(black'[i]), Within(login'[l]),
                        black'[i].told \/ \E b \in Admins : Reached(black'[i], b, admin[b], login'[l].server)
                 PROVE  FALSE
    BY <1>0 DEF KeptOut, Bans, IsExpired, Within, Reached
  <1>2. i \in DOMAIN black /\ black'[i] = black[i]
    OBVIOUS
  <1>3. CASE l # c
    <2>1. login'[l] = login[l]
      BY <1>3 DEF ListTypes
    <2> QED
      BY <1>1, <1>2, <2>1 DEF KeptOut
  <1>4. CASE l = c
    <2>1. login'[l] = p
      BY <1>4 DEF ListTypes
    <2>2. CASE Within(login[c]) /\ p.name = login[c].name /\ p.server = login[c].server
      <3>1. Bans(black[i], login[c])
        BY <1>1, <1>2, <2>1, <2>2 DEF Bans
      <3> QED
        BY <1>1, <1>2, <2>1, <2>2, <3>1 DEF KeptOut
    <2>3. p.pc \in {"passed", "playing"} /\ p.sure
      BY <1>1, <2>1 DEF Within
    <2> QED
      BY <1>1, <2>1, <2>2, <2>3
  <1> QED
    BY <1>3, <1>4

LEMMA TickKept ==
  ASSUME ListTypes, KeptOut, AccessTick
  PROVE  KeptOut'
  <1>1. /\ UNCHANGED <<black, login, admin>> /\ clock' = clock + 1 /\ clock \in Nat
        /\ plan'.kind = plan.kind
    BY DEF AccessTick, ListTypes
  <1>2. Kickers' = Kickers
    BY <1>1 DEF Kickers
  <1>3. \A i \in DOMAIN black : black[i].till \in Nat
    BY TypeByRows DEF ListTypes, Table, Rows
  <1>4. \A i \in DOMAIN black : clock > black[i].till => clock' > black[i].till
    BY <1>1, <1>3
  <1> QED
    BY <1>1, <1>2, <1>4 DEF KeptOut, Bans, IsExpired, Within, Reached

\* KickPlayer at server s: whoever is in, or on the way, is closed.
LEMMA KickKept ==
  ASSUME ListTypes, AllFirst(black), KeptOut, NEW a \in Admins, NEW s \in Servers, KickFrom(a, s)
  PROVE  KeptOut'
  <1> DEFINE rest == admin[a].todo \ {s}
  <1>0. /\ Kickers' = Kickers /\ UNCHANGED <<clock, plan>> /\ admin[a] \in Tasks
        /\ admin[a].pc = "kicking" /\ s \in admin[a].todo
    BY DEF KickFrom, Kickers, ListTypes
  <1>1. \A i \in DOMAIN black' :
          /\ i \in DOMAIN black /\ black'[i].name = black[i].name /\ black'[i].scope = black[i].scope
          /\ black'[i].on = black[i].on /\ black'[i].till = black[i].till
          /\ black'[i].by = black[i].by /\ black'[i].sole = black[i].sole
          /\ black'[i].told =>
               \/ black[i].told
               \/ /\ rest = {} /\ black[i].by = a /\ ~admin[a].req.padded
                  /\ black[i].name = admin[a].req.name /\ black[i].scope = admin[a].req.scope
    <2>1. CASE rest = {} /\ black' = Told(a)
      BY <2>1, ToldKeeps
    <2>2. CASE black' = black
      BY <2>2
    <2> QED
      BY <2>1, <2>2 DEF KickFrom
  <1>2. PICK k : /\ admin' = [admin EXCEPT ![a] = k]
                 /\ k.pc = "kicking" => k.req = admin[a].req /\ k.todo = rest /\ rest # {}
    <2>1. CASE rest = {}
      <3>1. admin' = [admin EXCEPT ![a] = NoTask] /\ NoTask.pc = "idle"
        BY <2>1 DEF KickFrom, NoTask
      <3> HIDE DEF rest
      <3> QED
        BY <3>1
    <2>2. CASE rest # {}
      <3>1. admin' = [admin EXCEPT ![a] = [admin[a] EXCEPT !.todo = rest]]
        BY <2>2 DEF KickFrom
      <3>2. PICK k : k = [admin[a] EXCEPT !.todo = rest]
        OBVIOUS
      <3>3. k.req = admin[a].req /\ k.todo = rest
        BY <1>0, <3>2 DEF Tasks
      <3> HIDE DEF rest
      <3> QED
        BY <2>2, <3>1, <3>2, <3>3
    <2> QED
      BY <2>1, <2>2
  <1> HIDE DEF rest
  <1>3. ASSUME NEW l \in Logins, Within(login'[l])
        PROVE  /\ login'[l] = login[l]
               /\ ~(login[l].server = s /\ login[l].name = admin[a].req.name /\ ~admin[a].req.padded)
    <2>0. login[l] \in LoginStates /\ login' = KickPlayer(a, s)
      BY DEF ListTypes, KickFrom
    <2>1. CASE /\ login[l].server = s /\ login[l].pc \in Named
               /\ login[l].name = admin[a].req.name /\ ~admin[a].req.padded
      <3>1. login'[l] = [login[l] EXCEPT !.pc = "kicked", !.seen = FALSE, !.sure = FALSE]
        BY <2>0, <2>1 DEF KickPlayer
      <3>2. login'[l].pc = "kicked"
        BY <2>0, <3>1 DEF LoginStates
      <3> QED
        BY <1>3, <3>2 DEF Within
    <2>2. CASE ~(/\ login[l].server = s /\ login[l].pc \in Named
                 /\ login[l].name = admin[a].req.name /\ ~admin[a].req.padded)
      <3>1. login'[l] = login[l]
        BY <2>0, <2>2 DEF KickPlayer
      <3>2. login[l].pc \in Named
        BY <1>3, <3>1 DEF Within, Named
      <3> QED
        BY <2>2, <3>1, <3>2
    <2> QED
      BY <2>1, <2>2
  <1>4. SUFFICES ASSUME NEW l \in Logins, NEW i \in DOMAIN black',
                        Bans(black'[i], login'[l]), ~IsExpired(black'[i]), Within(login'[l]),
                        black'[i].told \/ \E b \in Admins : Reached(black'[i], b, admin'[b], login'[l].server)
                 PROVE  FALSE
    BY <1>0 DEF KeptOut, Bans, IsExpired, Within, Reached
  <1>5. /\ i \in DOMAIN black /\ Bans(black[i], login[l]) /\ ~IsExpired(black[i])
        /\ Within(login[l]) /\ login[l].server \in Kickers
    BY <1>1, <1>3, <1>4 DEF Bans, IsExpired, Within
  <1>6. ~black[i].told /\ \A b \in Admins : ~Reached(black[i], b, admin[b], login[l].server)
    BY <1>5 DEF KeptOut
  <1>7. ASSUME black[i].by = a, ~admin[a].req.padded, black[i].name = admin[a].req.name,
               black[i].scope = admin[a].req.scope, login[l].server \notin rest
        PROVE  FALSE
    <2>1. login[l].server # s
      BY <1>3, <1>4, <1>5, <1>7 DEF Bans
    <2>2. login[l].server \notin admin[a].todo
      BY <1>7, <2>1 DEF rest
    <2> QED
      BY <1>0, <1>6, <1>7, <2>2 DEF Reached
  <1>8. CASE black'[i].told
    BY <1>1, <1>6, <1>7, <1>8
  <1>9. ASSUME NEW b \in Admins, Reached(black'[i], b, admin'[b], login'[l].server)
        PROVE  FALSE
    <2>1. Reached(black[i], b, admin'[b], login[l].server)
      BY <1>1, <1>3, <1>4, <1>9 DEF Reached
    <2>2. CASE b # a
      <3>1. admin'[b] = admin[b]
        BY <1>2, <2>2 DEF ListTypes
      <3> QED
        BY <1>6, <2>1, <3>1
    <2>3. CASE b = a
      <3>1. admin'[b] = k
        BY <1>2, <2>3 DEF ListTypes
      <3> QED
        BY <1>2, <1>7, <2>1, <2>3, <3>1 DEF Reached
    <2> QED
      BY <2>2, <2>3
  <1> QED
    BY <1>4, <1>8, <1>9

-----------------------------------------------------------------------------
(* The checks.                                                             *)

Hit(t, n, s) == IsBlacklistedByEntry(BlacklistGetByName(t, n, s))

May(t, n, s) == IsWhitelistedByEntry(WhitelistGetByName(t, n, s))

Barred(use, t, n, s, bad) ==
    \/ use.black /\ "blackGlobal" \notin bad /\ Hit(t, n, "")
    \/ use.black /\ "blackServer" \notin bad /\ Hit(t, n, s)

Listed(t, n, s, k, bad) == k \notin bad /\ May(t, n, s)

\* What CheckAccessFull decides from the answers of its lookups.
LEMMA AllowedIs ==
  ASSUME NEW t, NEW w, NEW n, NEW s, NEW bad, NEW use, use = LoadSettings(s, bad)
  PROVE  /\ CheckAccessFull(t, w, n, s, bad).allowed <=>
              /\ ~Barred(use, t, n, s, bad)
              /\ use.white => \/ Listed(w, n, "", "whiteGlobal", bad)
                              \/ Listed(w, n, s, "whiteServer", bad)
         /\ CheckAccessFull(t, w, n, s, bad).allowed \in BOOLEAN
  BY DEF CheckAccessFull, Hit, May, Barred, Listed

LEMMA CheckIs ==
  ASSUME NEW t, NEW w, NEW n, NEW s, NEW bad, NEW use, use = LoadSettings(s, bad),
         NEW d, d = CheckAccessFull(t, w, n, s, bad)
  PROVE  /\ "settings" \in bad => d.err
         /\ ~settings[s].set /\ "fallback" \in bad => d.err
         /\ use.white /\ ~Barred(use, t, n, s, bad) /\ "whiteGlobal" \in bad => d.err
         /\ (use.white /\ ~Barred(use, t, n, s, bad) /\ ~Listed(w, n, "", "whiteGlobal", bad)
                /\ "whiteServer" \in bad) => d.err
         /\ bad = {} => ~d.err
  BY DEF CheckAccessFull, Hit, May, Barred, Listed

LEMMA FoundIs ==
  ASSUME NEW t, DOMAIN t \subseteq Nat, NEW i \in DOMAIN t, FirstIs(t, i)
  PROVE  /\ BlacklistGetByName(t, t[i].name, t[i].scope) = t[i]
         /\ WhitelistGetByName(t, t[i].name, t[i].scope) = t[i]
  <1>1. PICK S : S = OfKey(t, t[i].name, t[i].scope)
    OBVIOUS
  <1>2. S \subseteq Nat /\ i \in S /\ \A j \in S : i <= j
    BY <1>1 DEF OfKey, FirstIs
  <1>3. Min(S) = i
    BY <1>2, LeastOf
  <1> QED
    BY <1>1, <1>2, <1>3 DEF BlacklistGetByName, WhitelistGetByName, FirstOf

\* A check without errors turns away whom a row in force bans.
LEMMA Refuses ==
  ASSUME NEW t, DOMAIN t \subseteq Nat, NEW w, NEW s, NEW i \in DOMAIN t, t[i] \in Rows,
         FirstIs(t, i), t[i].on, ~IsExpired(t[i]), t[i].scope \in {"", s},
         LoadSettings(s, {}).black
  PROVE  /\ ~CheckAccessFull(t, w, t[i].name, s, {}).allowed
         /\ ~CheckAccessWithError(t, w, t[i].name, s, {})
  <1>1. t[i] # NoRow
    <2>1. NoRow.on = FALSE
      BY DEF NoRow
    <2> QED
      BY <2>1
  <1>2. Hit(t, t[i].name, t[i].scope)
    BY <1>1, FoundIs DEF Hit, IsBlacklistedByEntry
  <1>3. PICK n : n = t[i].name
    OBVIOUS
  <1>4. Hit(t, n, "") \/ Hit(t, n, s)
    BY <1>2, <1>3
  <1>5. ~CheckAccessFull(t, w, n, s, {}).allowed /\ ~CheckAccessFull(t, w, n, s, {}).err
    <2>1. PICK use, d : use = LoadSettings(s, {}) /\ d = CheckAccessFull(t, w, n, s, {})
      OBVIOUS
    <2>2. Barred(use, t, n, s, {})
      BY <1>4, <2>1 DEF Barred
    <2>3. (d.allowed => ~Barred(use, t, n, s, {})) /\ ~d.err
      BY <2>1, AllowedIs, CheckIs
    <2> QED
      BY <2>1, <2>2, <2>3
  <1> QED
    BY <1>3, <1>5 DEF CheckAccessWithError

\* The settings a check without errors uses are those it uses when a lookup it did not
\* make fails.
LEMMA SameSettings ==
  ASSUME ListTypes, NEW s \in Servers, NEW k, k # "settings", k = "fallback" => settings[s].set
  PROVE  LoadSettings(s, {k}) = LoadSettings(s, {})
  <1>1. CASE settings[s].set
    BY <1>1 DEF LoadSettings
  <1>2. CASE ~settings[s].set
    BY <1>2 DEF LoadSettings
  <1> QED
    BY <1>1, <1>2

LEMMA FailsOpenHolds ==
  ASSUME ListTypes
  PROVE  FailsOpen
  <1>1. SUFFICES ASSUME NEW n \in Players, NEW s \in Servers, NEW k \in Lookups,
                        CheckAccessFull(black, white, n, s, {}).allowed,
                        ~CheckAccessFull(black, white, n, s, {k}).err
                 PROVE  CheckAccessFull(black, white, n, s, {k}).allowed
    BY DEF FailsOpen, CheckAccessWithError
  <1>2. PICK use : use = LoadSettings(s, {})
    OBVIOUS
  <1>3. PICK d, e : d = CheckAccessFull(black, white, n, s, {}) /\ e = CheckAccessFull(black, white, n, s, {k})
    OBVIOUS
  <1>4. ~Barred(use, black, n, s, {})
    BY <1>1, <1>2, <1>3, AllowedIs
  <1>5. use.white => Listed(white, n, "", "whiteGlobal", {}) \/ Listed(white, n, s, "whiteServer", {})
    BY <1>1, <1>2, <1>3, AllowedIs
  <1>6. k # "settings" /\ (k = "fallback" => settings[s].set)
    BY <1>1, <1>3, CheckIs
  <1>7. use = LoadSettings(s, {k})
    BY <1>2, <1>6, SameSettings
  <1>8. ~Barred(use, black, n, s, {k})
    BY <1>4 DEF Barred
  <1>9. use.white => /\ k # "whiteGlobal"
                     /\ k = "whiteServer" => Listed(white, n, "", "whiteGlobal", {k})
    <2>1. PICK B : B = {k}
      OBVIOUS
    <2>2. /\ use.white /\ ~Barred(use, black, n, s, B) /\ "whiteGlobal" \in B => e.err
          /\ (use.white /\ ~Barred(use, black, n, s, B) /\ ~Listed(white, n, "", "whiteGlobal", B)
                /\ "whiteServer" \in B) => e.err
      BY <1>3, <1>7, <2>1, CheckIs
    <2> QED
      BY <1>1, <1>3, <1>8, <2>1, <2>2
  <1>10. use.white => Listed(white, n, "", "whiteGlobal", {k}) \/ Listed(white, n, s, "whiteServer", {k})
    BY <1>5, <1>9 DEF Listed
  <1>11. e.allowed
    <2>1. PICK B : B = {k}
      OBVIOUS
    <2>2. e.allowed <=> /\ ~Barred(use, black, n, s, B)
                        /\ use.white => \/ Listed(white, n, "", "whiteGlobal", B)
                                        \/ Listed(white, n, s, "whiteServer", B)
      BY <1>3, <1>7, <2>1, AllowedIs
    <2> QED
      BY <1>8, <1>10, <2>1, <2>2
  <1> QED
    BY <1>3, <1>11

-----------------------------------------------------------------------------
\* The rows that lists show, and the row that a lookup finds in a list without twins.
LEMMA ListedIs ==
  ASSUME NEW t, DOMAIN t \subseteq Nat, \A i \in DOMAIN t : t[i] \in Rows, NoTwins(t), NEW n, NEW s
  PROVE  /\ Hit(t, n, s) <=> \E i \in DOMAIN t : t[i].name = n /\ t[i].scope = s /\ IsBlacklistedByEntry(t[i])
         /\ May(t, n, s) <=> \E i \in DOMAIN t : t[i].name = n /\ t[i].scope = s /\ IsWhitelistedByEntry(t[i])
  <1>1. CASE OfKey(t, n, s) = {}
    <2>1. ~Hit(t, n, s) /\ ~May(t, n, s)
      BY <1>1 DEF Hit, May, BlacklistGetByName, WhitelistGetByName, FirstOf, IsBlacklistedByEntry,
                  IsWhitelistedByEntry
    <2> QED
      BY <1>1, <2>1 DEF OfKey
  <1>2. ASSUME NEW i \in OfKey(t, n, s)
        PROVE  /\ Hit(t, n, s) <=> IsBlacklistedByEntry(t[i])
               /\ May(t, n, s) <=> IsWhitelistedByEntry(t[i])
               /\ \A j \in DOMAIN t : t[j].name = n /\ t[j].scope = s => j = i
    <2>1. i \in DOMAIN t /\ t[i].name = n /\ t[i].scope = s /\ i \in Nat
      BY DEF OfKey
    <2>2. \A j \in DOMAIN t : t[j].name = n /\ t[j].scope = s => j = i
      BY <2>1 DEF NoTwins
    <2>3. FirstIs(t, i)
      BY <2>1, <2>2 DEF FirstIs, OfKey
    <2> QED
      BY <2>1, <2>2, <2>3, FoundIs DEF Hit, May
  <1> QED
    BY <1>1, <1>2 DEF OfKey

LEMMA Shown ==
  ASSUME NEW n, NEW s
  PROVE  /\ (\E i \in DOMAIN GetBlacklist(s) : GetBlacklist(s)[i].name = n /\ IsBlacklistedByEntry(GetBlacklist(s)[i]))
              <=> \E i \in DOMAIN black : black[i].name = n /\ black[i].scope = s /\ IsBlacklistedByEntry(black[i])
         /\ (\E i \in DOMAIN GetWhitelist(s) : GetWhitelist(s)[i].name = n /\ IsWhitelistedByEntry(GetWhitelist(s)[i]))
              <=> \E i \in DOMAIN white : white[i].name = n /\ white[i].scope = s /\ IsWhitelistedByEntry(white[i])
  <1>1. /\ DOMAIN GetBlacklist(s) = {i \in DOMAIN black : black[i].scope = s /\ ~IsExpired(black[i])}
        /\ \A i \in DOMAIN GetBlacklist(s) : GetBlacklist(s)[i] = black[i]
    BY DEF GetBlacklist, filterActiveBlacklistEntries, BlacklistList, RestrictValues, Restrict
  <1>2. /\ DOMAIN GetWhitelist(s) = {i \in DOMAIN white : white[i].scope = s /\ ~IsExpired(white[i])}
        /\ \A i \in DOMAIN GetWhitelist(s) : GetWhitelist(s)[i] = white[i]
    BY DEF GetWhitelist, filterActiveWhitelistEntries, WhitelistList, RestrictValues, Restrict
  <1> QED
    BY <1>1, <1>2 DEF IsBlacklistedByEntry, IsWhitelistedByEntry

LEMMA CheckMatches ==
  ASSUME ListTypes
  PROVE  CheckMatchesLists
  <1>0. /\ DOMAIN black \subseteq Nat /\ \A i \in DOMAIN black : black[i] \in Rows
        /\ DOMAIN white \subseteq Nat /\ \A i \in DOMAIN white : white[i] \in Rows
    BY TypeByRows DEF ListTypes, Table
  <1>1. SUFFICES ASSUME NoTwins(black), NoTwins(white), NEW n \in Players, NEW s \in Servers
                 PROVE  CheckAccessFull(black, white, n, s, {}).allowed =
                        CheckAccessWithEntries(GetBlacklist(""), GetBlacklist(s), GetWhitelist(""),
                                               GetWhitelist(s), n, LoadSettings(s, {}))
    BY DEF CheckMatchesLists
  <1>2. PICK use, d : use = LoadSettings(s, {}) /\ d = CheckAccessFull(black, white, n, s, {})
    OBVIOUS
  <1> DEFINE Bad(x) == \E i \in DOMAIN black : black[i].name = n /\ black[i].scope = x /\ IsBlacklistedByEntry(black[i])
             Good(x) == \E i \in DOMAIN white : white[i].name = n /\ white[i].scope = x /\ IsWhitelistedByEntry(white[i])
             E == CheckAccessWithEntries(GetBlacklist(""), GetBlacklist(s), GetWhitelist(""),
                                         GetWhitelist(s), n, use)
  <1>3. \A x : (Hit(black, n, x) <=> Bad(x)) /\ (May(white, n, x) <=> Good(x))
    BY <1>0, <1>1, ListedIs
  <1>4. E <=> /\ use.black => ~Bad("") /\ ~Bad(s)
              /\ use.white => Good("") \/ Good(s)
    <2> DEFINE SB(x) == \E i \in DOMAIN GetBlacklist(x) : GetBlacklist(x)[i].name = n /\ IsBlacklistedByEntry(GetBlacklist(x)[i])
               SW(x) == \E i \in DOMAIN GetWhitelist(x) : GetWhitelist(x)[i].name = n /\ IsWhitelistedByEntry(GetWhitelist(x)[i])
    <2>1. \A x : (SB(x) <=> Bad(x)) /\ (SW(x) <=> Good(x))
      BY Shown
    <2>2. E <=> /\ use.black => ~SB("") /\ ~SB(s)
                /\ use.white => SW("") \/ SW(s)
      BY DEF CheckAccessWithEntries
    <2> HIDE DEF SB, SW, Bad, Good, E
    <2> QED
      BY <2>1, <2>2
  <1>5. E \in BOOLEAN
    BY DEF CheckAccessWithEntries
  <1> HIDE DEF Bad, Good, E
  <1>6. d.allowed \in BOOLEAN
    BY <1>2, AllowedIs
  <1>7. d.allowed <=> /\ use.black => ~Hit(black, n, "") /\ ~Hit(black, n, s)
                      /\ use.white => May(white, n, "") \/ May(white, n, s)
    <2>1. PICK B : B = {}
      OBVIOUS
    <2>2. d.allowed <=> /\ ~Barred(use, black, n, s, B)
                        /\ use.white => \/ Listed(white, n, "", "whiteGlobal", B)
                                        \/ Listed(white, n, s, "whiteServer", B)
      BY <1>2, <2>1, AllowedIs
    <2> QED
      BY <2>1, <2>2 DEF Barred, Listed
  <1>8. d.allowed <=> E
    BY <1>3, <1>4, <1>7
  <1>9. d.allowed = E
    BY <1>5, <1>6, <1>8
  <1> QED
    BY <1>2, <1>9 DEF E

-----------------------------------------------------------------------------
(* The steps.                                                              *)

\* What is left of a plan.
Remains ==
    /\ plan' \in [kind : [Servers -> {"raw", "passthrough", "mitm", "raknet"}],
                  local : Nat, requests : {plan'.requests}, faults : Nat, ticks : Nat]
    /\ plan'.requests \subseteq plan.requests
    /\ plan'.kind = plan.kind

LEMMA SpendLeaves ==
  ASSUME ListTypes, NEW bad \in Failing, Spend(bad)
  PROVE  Remains
  <1>1. plan.faults \in Nat /\ (bad # {} => plan.faults > 0)
    BY DEF ListTypes, Failing
  <1>2. PICK f \in Nat : plan' = [plan EXCEPT !.faults = f]
    BY <1>1 DEF Spend
  <1> QED
    BY <1>2 DEF ListTypes, Remains

LEMMA ServedLeaves ==
  ASSUME ListTypes, NEW a \in Admins, NEW q \in plan.requests, NEW k \in Tasks, Served(a, q, k)
  PROVE  Remains /\ admin' = [admin EXCEPT ![a] = k] /\ admin' \in [Admins -> Tasks]
  <1>1. plan' = [plan EXCEPT !.requests = plan.requests \ {q}] /\ admin' = [admin EXCEPT ![a] = k]
    BY DEF Served
  <1>2. Remains
    BY <1>1 DEF ListTypes, Remains
  <1> QED
    BY <1>1, <1>2 DEF ListTypes

LEMMA SameLeaves ==
  ASSUME ListTypes, UNCHANGED plan
  PROVE  Remains
  BY DEF ListTypes, Remains

\* The types, put together from the parts of a step.
LEMMA TypesBy ==
  ASSUME ListTypes, Remains, ids' \in [black : Nat, white : Nat],
         Table(black', ids'.black), Table(white', ids'.white),
         settings' \in [Scopes -> [set : BOOLEAN, black : BOOLEAN, white : BOOLEAN]],
         clock' \in Nat, cleaned' \in 0..clock',
         login' \in [Logins -> LoginStates], admin' \in [Admins -> Tasks]
  PROVE  ListTypes'
  <1>1. \A l \in Logins : login'[l].pc \in Named \cup {"idle", "refused", "kicked"}
    BY DEF LoginStates
  <1>2. \A a \in Admins : admin'[a].pc \in {"idle", "answered", "kicking"}
    BY DEF Tasks
  <1>3. AccessTypeOK'
    BY <1>1, <1>2, TypeByRows DEF AccessTypeOK, Table, Range, Named, Rows
  <1>4. \A q \in plan'.requests : Decoded(q)
    BY DEF ListTypes, Remains
  <1> QED
    BY <1>3, <1>4 DEF ListTypes, Remains, LoginStates, Tasks, Named, ListRequests, Scopes, Decoded

LEMMA ListFacts ==
  ASSUME ListTypes
  PROVE  /\ ids \in [black : Nat, white : Nat]
         /\ Table(black, ids.black) /\ Table(white, ids.white)
         /\ settings \in [Scopes -> [set : BOOLEAN, black : BOOLEAN, white : BOOLEAN]]
         /\ clock \in Nat /\ cleaned \in 0..clock
         /\ login \in [Logins -> LoginStates] /\ admin \in [Admins -> Tasks]
         /\ \A q \in plan.requests : Decoded(q)
  BY TypeByRows DEF ListTypes

\* A login that goes on to p and touches nothing else.
LEMMA LoginGoes ==
  ASSUME ListsIInv, NEW c \in Logins, NEW p \in LoginStates, login' = [login EXCEPT ![c] = p],
         UNCHANGED <<black, white, ids, settings, clock, cleaned, admin>>, Remains,
         \/ p.pc \notin {"passed", "playing"}
         \/ Within(p) => Within(login[c]) /\ p.name = login[c].name /\ p.server = login[c].server
  PROVE  ListsIInv'
  <1>1. ListTypes
    BY DEF ListsIInv
  <1>2. ListTypes'
    BY <1>1, ListFacts, TypesBy
  <1>3. KeptOut'
    BY <1>1, LoginKept DEF ListsIInv, Remains
  <1> QED
    BY <1>2, <1>3 DEF ListsIInv, SolesFirst, FirstIs, OfKey

LEMMA ConnectStep ==
  ASSUME ListsIInv, NEW c \in Logins, Connect(c) \/ Admit(c) \/ Leave(c) \/ RawReadsSettings(c)
  PROVE  ListsIInv'
  <1>0. ListTypes /\ login[c] \in LoginStates
    BY DEF ListsIInv, ListTypes
  <1>1. CASE Connect(c)
    <2>1. PICK n \in Players, s \in Servers :
             login' = [login EXCEPT ![c] = [NoLogin EXCEPT !.pc = "named", !.name = n, !.server = s]]
      BY <1>1 DEF Connect
    <2>2. PICK p : p = [NoLogin EXCEPT !.pc = "named", !.name = n, !.server = s]
      OBVIOUS
    <2>3. p \in LoginStates /\ p.pc = "named"
      BY <2>2 DEF NoLogin, LoginStates, Named
    <2>4. Remains /\ UNCHANGED <<black, white, ids, settings, clock, cleaned, admin>>
      BY <1>0, <1>1, SameLeaves DEF Connect
    <2> QED
      BY <2>1, <2>2, <2>3, <2>4, LoginGoes
  <1>2. CASE Admit(c)
    <2>1. PICK v \in {"playing", "refused"} : login' = [login EXCEPT ![c] = [login[c] EXCEPT !.pc = v]]
      BY <1>2 DEF Admit
    <2>2. PICK p : p = [login[c] EXCEPT !.pc = v]
      OBVIOUS
    <2>3. /\ p \in LoginStates /\ p.pc = v /\ p.name = login[c].name /\ p.server = login[c].server
          /\ p.sure = login[c].sure
      BY <1>0, <2>2 DEF LoginStates, Named
    <2>4. login[c].pc = "passed"
      BY <1>2 DEF Admit
    <2>5. Within(p) => Within(login[c])
      BY <2>3, <2>4 DEF Within
    <2>6. Remains /\ UNCHANGED <<black, white, ids, settings, clock, cleaned, admin>>
      BY <1>0, <1>2, SameLeaves DEF Admit
    <2> QED
      BY <2>1, <2>2, <2>3, <2>5, <2>6, LoginGoes
  <1>3. CASE Leave(c)
    <2>1. NoLogin \in LoginStates /\ NoLogin.pc = "idle"
      BY DEF NoLogin, LoginStates, Named
    <2>2. Remains /\ UNCHANGED <<black, white, ids, settings, clock, cleaned, admin>>
      BY <1>0, <1>3, SameLeaves DEF Leave
    <2> QED
      BY <1>3, <2>1, <2>2, LoginGoes DEF Leave
  <1>4. CASE RawReadsSettings(c)
    <2>1. PICK bad \in Failing :
             /\ login' = [login EXCEPT ![c].pc = "settled", ![c].seen = LoadSettings(login[c].server, bad).black]
             /\ Spend(bad)
      BY <1>4 DEF RawReadsSettings
    <2>2. LoadSettings(login[c].server, bad).black \in BOOLEAN
      <3>1. login[c].server \in Scopes
        BY <1>0 DEF LoginStates, Scopes
      <3>2. settings[login[c].server].black \in BOOLEAN /\ settings[""].black \in BOOLEAN
        BY <1>0, <3>1, ListFacts DEF Scopes
      <3> QED
        BY <3>2 DEF LoadSettings, DefaultACLSettings
    <2>3. PICK b \in BOOLEAN : b = LoadSettings(login[c].server, bad).black
      BY <2>2
    <2>4. PICK p : p = [login[c] EXCEPT !.pc = "settled", !.seen = b]
      OBVIOUS
    <2>5. login' = [login EXCEPT ![c] = p]
      BY <1>0, <2>1, <2>3, <2>4 DEF ListTypes
    <2>6. p \in LoginStates /\ p.pc = "settled"
      BY <1>0, <2>4 DEF LoginStates, Named
    <2>7. Remains /\ UNCHANGED <<black, white, ids, settings, clock, cleaned, admin>>
      BY <1>0, <1>4, <2>1, SpendLeaves DEF RawReadsSettings
    <2> QED
      BY <2>5, <2>6, <2>7, LoginGoes
  <1> QED
    BY <1>1, <1>2, <1>3, <1>4

\* A login that purges, and goes on to p.
LEMMA CheckGoes ==
  ASSUME ListsIInv, NEW c \in Logins, NEW p \in LoginStates, login' = [login EXCEPT ![c] = p],
         NEW bad \in Failing, Spend(bad), cleanupExpiredEntriesIfDue(bad),
         UNCHANGED <<ids, settings, clock, admin>>,
         \/ p.pc \notin {"passed", "playing"}
         \/ p.sure => \A i \in DOMAIN black' : ~(Bans(black'[i], p) /\ ~IsExpired(black'[i]))
  PROVE  ListsIInv'
  <1>1. ListTypes /\ AllFirst(black) /\ Remains
    BY SpendLeaves DEF ListsIInv, SolesFirst, AllFirst
  <1>2. /\ Table(black', ids.black) /\ Table(white', ids.white) /\ cleaned' \in 0..clock
        /\ Rekeyed(black, black') /\ \A i \in DOMAIN black' : black'[i] = black[i]
    BY <1>1, PurgeKeeps
  <1>3. ListTypes'
    BY <1>1, <1>2, ListFacts, TypesBy
  <1>4. \A i \in DOMAIN black' : i \in DOMAIN black /\ black'[i] = black[i]
    BY <1>2 DEF Rekeyed
  <1>5. KeptOut'
    BY <1>1, <1>4, LoginKept DEF ListsIInv, Remains
  <1>6. AllFirst(black')
    BY <1>1, <1>2, RekeyedFirst
  <1>7. SolesFirst'
    BY <1>6 DEF SolesFirst, AllFirst, FirstIs, OfKey
  <1> QED
    BY <1>3, <1>5, <1>7 DEF ListsIInv

LEMMA LookupStep ==
  ASSUME ListsIInv, NEW c \in Logins, RawLooksUp(c)
  PROVE  ListsIInv'
  <1>0. login[c] \in LoginStates /\ login \in [Logins -> LoginStates]
    BY DEF ListsIInv, ListTypes
  <1>1. PICK bad \in Failing :
           /\ cleanupExpiredEntriesIfDue(bad) /\ Spend(bad)
           /\ login' = [login EXCEPT ![c].pc =
                         IF IsBlacklisted(black', login[c].name, login[c].server, bad) /\ login[c].seen
                         THEN "refused" ELSE "checking"]
    BY DEF RawLooksUp
  <1>2. PICK v \in {"refused", "checking"} : login' = [login EXCEPT ![c] = [login[c] EXCEPT !.pc = v]]
    BY <1>0, <1>1
  <1>3. PICK p : p = [login[c] EXCEPT !.pc = v]
    OBVIOUS
  <1>4. p \in LoginStates /\ p.pc = v
    BY <1>0, <1>3 DEF LoginStates, Named
  <1>5. UNCHANGED <<ids, settings, clock, admin>>
    BY DEF RawLooksUp
  <1> QED
    BY <1>1, <1>2, <1>3, <1>4, <1>5, CheckGoes

\* The check: who passes it without an error is banned by no row.
LEMMA CheckStep ==
  ASSUME ListsIInv, NEW c \in Logins, CheckLogin(c)
  PROVE  ListsIInv'
  <1>0. /\ login[c] \in LoginStates /\ login \in [Logins -> LoginStates] /\ ListTypes
        /\ AllFirst(black)
    BY DEF ListsIInv, ListTypes, SolesFirst, AllFirst
  <1> DEFINE n == login[c].name
             s == login[c].server
  <1>1. PICK bad \in Failing :
           /\ cleanupExpiredEntriesIfDue(bad) /\ Spend(bad)
           /\ login' = [login EXCEPT ![c].pc = IF Passes(n, s, bad) THEN "passed" ELSE "refused",
                                     ![c].seen = FALSE,
                                     ![c].sure = bad = {} /\ LoadSettings(s, {}).black]
    BY DEF CheckLogin
  <1>2. PICK v \in {"refused", "passed"}, b \in BOOLEAN :
           /\ v = IF Passes(n, s, bad) THEN "passed" ELSE "refused"
           /\ b <=> bad = {} /\ LoadSettings(s, {}).black
    OBVIOUS
  <1>3. PICK p : p = [login[c] EXCEPT !.pc = v, !.seen = FALSE, !.sure = b]
    OBVIOUS
  <1>4. /\ p \in LoginStates /\ p.pc = v /\ p.name = n /\ p.server = s /\ p.sure = b
    BY <1>0, <1>3 DEF LoginStates, Named
  <1>5. login' = [login EXCEPT ![c] = p]
    <2>1. (bad = {} /\ LoadSettings(s, {}).black) = b
      BY <1>2
    <2> QED
      BY <1>0, <1>1, <1>2, <1>3, <2>1
  <1>6. UNCHANGED <<ids, settings, clock, admin>>
    BY DEF CheckLogin
  <1>7. ASSUME v = "passed", b, NEW i \in DOMAIN black', Bans(black'[i], p), ~IsExpired(black'[i])
        PROVE  FALSE
    <2>1. bad = {} /\ LoadSettings(s, {}).black /\ Passes(n, s, {})
      BY <1>2, <1>7
    <2>2. PICK t, w : t = black' /\ w = white'
      OBVIOUS
    <2>3. Table(t, ids.black) /\ AllFirst(t)
      BY <1>0, <1>1, <2>2, PurgeKeeps, RekeyedFirst
    <2>4. DOMAIN t \subseteq Nat /\ t[i] \in Rows /\ FirstIs(t, i)
      <3>1. i \in DOMAIN t /\ t[i].sole
        BY <1>7, <2>2 DEF Bans
      <3>2. PICK m \in Nat : m = ids.black
        BY <1>0, ListFacts
      <3>3. DOMAIN t \subseteq 1..m /\ t[i] \in Rows
        BY <2>3, <3>1, <3>2 DEF Table
      <3>4. DOMAIN t \subseteq Nat
        BY <3>2, <3>3
      <3>5. FirstIs(t, i)
        BY <2>3, <3>1 DEF AllFirst
      <3> QED
        BY <3>3, <3>4, <3>5
    <2>5. t[i].name = n /\ t[i].scope \in {"", s} /\ t[i].on /\ ~IsExpired(t[i])
      BY <1>4, <1>7, <2>2 DEF Bans
    <2>6. ~CheckAccessFull(t, w, n, s, {}).allowed /\ ~CheckAccessWithError(t, w, n, s, {})
      BY <1>7, <2>1, <2>2, <2>4, <2>5, Refuses
    <2>7. CheckAccessFull(t, w, n, s, {}).allowed \/ CheckAccessWithError(t, w, n, s, {})
      BY <2>1, <2>2 DEF Passes, PassthroughCheck, RakNetCheck, MITMCheck, RawCheck
    <2> QED
      BY <2>6, <2>7
  <1> HIDE DEF n, s
  <1> QED
    BY <1>1, <1>2, <1>4, <1>5, <1>6, <1>7, CheckGoes

LEMMA NoTaskType ==
  NoTask \in Tasks /\ NoTask.pc = "idle"
  BY DEF NoTask, NoRequest, Tasks, ListRequests, Scopes

LEMMA TaskTypes ==
  ASSUME ListTypes, NEW q \in plan.requests
  PROVE  /\ NoTask \in Tasks /\ NoTask.pc = "idle"
         /\ Answered(q) \in Tasks /\ Answered(q).pc = "answered" /\ Answered(q).req = q
         /\ Kicking(q) \in Tasks /\ Kicking(q).pc # "answered"
         /\ Kicking(q).pc = "kicking" => Kicking(q).todo = Kickers
  <1>1. q \in ListRequests
    BY DEF ListTypes, Decoded, ListRequests
  <1>2. NoTask \in Tasks /\ NoTask.pc = "idle"
    BY NoTaskType
  <1>4. Answered(q) \in Tasks /\ Answered(q).pc = "answered" /\ Answered(q).req = q
    BY <1>1, <1>2 DEF Answered, Tasks
  <1>5. Kickers \subseteq Servers
    BY DEF Kickers
  <1>6. [pc |-> "kicking", req |-> q, todo |-> Kickers] \in Tasks
    BY <1>1, <1>5 DEF Tasks
  <1> QED
    BY <1>2, <1>4, <1>6 DEF Kicking

\* A request that leaves task k behind and writes rows of its own.
LEMMA ListRequestGoes ==
  ASSUME ListsIInv, NEW a \in Admins, NEW q \in plan.requests, NEW k \in Tasks, Served(a, q, k),
         k.pc = "kicking" => k.todo = Kickers, UNCHANGED <<login, clock>>,
         ids' \in [black : Nat, white : Nat], Table(black', ids'.black), Table(white', ids'.white),
         AllFirst(black'), Written(black, black', a),
         settings' \in [Scopes -> [set : BOOLEAN, black : BOOLEAN, white : BOOLEAN]],
         cleaned' \in 0..clock
  PROVE  ListsIInv'
  <1>1. ListTypes /\ KeptOut
    BY DEF ListsIInv
  <1>2. Remains /\ admin' = [admin EXCEPT ![a] = k] /\ admin' \in [Admins -> Tasks]
    BY <1>1, ServedLeaves
  <1>3. ListTypes'
    BY <1>1, <1>2, ListFacts, TypesBy
  <1>4. KeptOut'
    BY <1>1, <1>2, WriteKept DEF Remains
  <1>5. SolesFirst'
    BY DEF SolesFirst, AllFirst, FirstIs, OfKey
  <1> QED
    BY <1>3, <1>4, <1>5 DEF ListsIInv

LEMMA SameRows ==
  ASSUME NEW t, NEW a
  PROVE  Written(t, t, a)
  BY DEF Written

LEMMA BlackStep ==
  ASSUME ListsIInv, NEW a \in Admins, NEW q \in plan.requests,
         AddToBlacklist(a, q) \/ UpdateBlacklistEntryEnabled(a, q) \/ RemoveFromBlacklist(a, q)
  PROVE  ListsIInv'
  <1>0. ListTypes /\ AllFirst(black) /\ Decoded(q)
    BY DEF ListsIInv, ListTypes, SolesFirst, AllFirst
  <1>1. CASE AddToBlacklist(a, q)
    <2>1. /\ q.op = "ban" /\ BlacklistCreate(q, a) /\ Served(a, q, Kicking(q))
          /\ UNCHANGED <<white, settings, clock, cleaned, login>>
      BY <1>1 DEF AddToBlacklist
    <2>2. /\ ids' \in [black : Nat, white : Nat] /\ ids'.white = ids.white
          /\ Table(black', ids'.black) /\ AllFirst(black') /\ Written(black, black', a)
      BY <1>0, <2>1, CreateKeeps
    <2>3. PICK k : k = Kicking(q)
      OBVIOUS
    <2> QED
      BY <1>0, <2>1, <2>2, <2>3, ListFacts, TaskTypes, ListRequestGoes
  <1>2. CASE UpdateBlacklistEntryEnabled(a, q)
    <2>1. PICK k \in {Kicking(q), Answered(q)} : Served(a, q, k)
      BY <1>2 DEF UpdateBlacklistEntryEnabled
    <2>2. /\ black' = BlacklistUpdateEnabled(q, a)
          /\ UNCHANGED <<white, ids, settings, clock, cleaned, login>>
      BY <1>2 DEF UpdateBlacklistEntryEnabled
    <2>3. Table(black', ids.black) /\ AllFirst(black') /\ Written(black, black', a)
      BY <1>0, <2>2, SwitchKeeps
    <2>4. k \in Tasks /\ (k.pc = "kicking" => k.todo = Kickers)
      BY <1>0, <2>1, TaskTypes
    <2> QED
      BY <1>0, <2>1, <2>2, <2>3, <2>4, ListFacts, ListRequestGoes
  <1>3. CASE RemoveFromBlacklist(a, q)
    <2>1. /\ black' = BlacklistDelete(q.name, q.scope) /\ Served(a, q, Answered(q))
          /\ UNCHANGED <<white, ids, settings, clock, cleaned, login>>
      BY <1>3 DEF RemoveFromBlacklist
    <2>2. Table(black', ids.black) /\ AllFirst(black') /\ Written(black, black', a)
      BY <1>0, <2>1, DeleteKeeps
    <2>3. PICK k : k = Answered(q)
      OBVIOUS
    <2> QED
      BY <1>0, <2>1, <2>2, <2>3, ListFacts, TaskTypes, ListRequestGoes
  <1> QED
    BY <1>1, <1>2, <1>3

LEMMA WhiteStep ==
  ASSUME ListsIInv, NEW a \in Admins, NEW q \in plan.requests,
         AddToWhitelist(a, q) \/ UpdateWhitelistEntryEnabled(a, q) \/ RemoveFromWhitelist(a, q)
  PROVE  ListsIInv'
  <1>0. ListTypes /\ AllFirst(black) /\ Decoded(q) /\ Written(black, black, a)
    BY SameRows DEF ListsIInv, ListTypes, SolesFirst, AllFirst
  <1>1. NoTask \in Tasks /\ NoTask.pc = "idle"
    BY <1>0, TaskTypes
  <1>2. Served(a, q, NoTask) /\ UNCHANGED <<black, settings, clock, cleaned, login>>
    BY DEF AddToWhitelist, UpdateWhitelistEntryEnabled, RemoveFromWhitelist
  <1>3. /\ ids' \in [black : Nat, white : Nat] /\ ids'.black = ids.black
        /\ Table(white', ids'.white)
    <2>1. CASE AddToWhitelist(a, q)
      BY <1>0, <2>1, AllowKeeps DEF AddToWhitelist
    <2>2. CASE UpdateWhitelistEntryEnabled(a, q)
      BY <1>0, <2>2, WhiteKeeps, ListFacts DEF UpdateWhitelistEntryEnabled
    <2>3. CASE RemoveFromWhitelist(a, q)
      BY <1>0, <2>3, WhiteKeeps, ListFacts DEF RemoveFromWhitelist
    <2> QED
      BY <2>1, <2>2, <2>3
  <1> QED
    BY <1>0, <1>1, <1>2, <1>3, ListFacts, ListRequestGoes

LEMMA OtherStep ==
  ASSUME ListsIInv, NEW a \in Admins, NEW q \in plan.requests,
         UpdateSettings(a, q) \/ ReadLists(a, q) \/ kickPlayer(a, q)
  PROVE  ListsIInv'
  <1>0. ListTypes /\ AllFirst(black) /\ Decoded(q) /\ Written(black, black, a)
    BY SameRows DEF ListsIInv, ListTypes, SolesFirst, AllFirst
  <1>1. NoTask \in Tasks /\ NoTask.pc = "idle"
    BY <1>0, TaskTypes
  <1>2. CASE UpdateSettings(a, q)
    <2>1. /\ settings' = [settings EXCEPT ![q.scope] = [set |-> TRUE, black |-> q.on, white |-> q.white]]
          /\ Served(a, q, NoTask) /\ UNCHANGED <<black, white, ids, clock, cleaned, login>>
      BY <1>2 DEF UpdateSettings
    <2>2. q.on \in BOOLEAN /\ q.white \in BOOLEAN
      BY <1>0 DEF Decoded
    <2>3. settings' \in [Scopes -> [set : BOOLEAN, black : BOOLEAN, white : BOOLEAN]]
      BY <1>0, <2>1, <2>2, ListFacts
    <2> QED
      BY <1>0, <1>1, <2>1, <2>3, ListFacts, ListRequestGoes
  <1>3. CASE ReadLists(a, q)
    <2>1. /\ cleanupExpiredEntriesIfDue({}) /\ Served(a, q, NoTask)
          /\ UNCHANGED <<ids, settings, clock, login>>
      BY <1>3 DEF ReadLists
    <2>2. /\ Table(black', ids.black) /\ Table(white', ids.white) /\ cleaned' \in 0..clock
          /\ Rekeyed(black, black') /\ Written(black, black', a)
      BY <1>0, <2>1, PurgeKeeps
    <2>3. AllFirst(black')
      BY <1>0, <2>2, RekeyedFirst
    <2> QED
      BY <1>0, <1>1, <2>1, <2>2, <2>3, ListFacts, ListRequestGoes
  <1>4. CASE kickPlayer(a, q)
    <2>1. Served(a, q, Kicking(q)) /\ UNCHANGED <<black, white, ids, settings, clock, cleaned, login>>
      BY <1>4 DEF kickPlayer
    <2>2. PICK k : k = Kicking(q)
      OBVIOUS
    <2> QED
      BY <1>0, <2>1, <2>2, ListFacts, TaskTypes, ListRequestGoes
  <1> QED
    BY <1>2, <1>3, <1>4

LEMMA RespondStep ==
  ASSUME ListsIInv, NEW a \in Admins, Respond(a)
  PROVE  ListsIInv'
  <1>0. ListTypes /\ KeptOut /\ Written(black, black, a)
    BY SameRows DEF ListsIInv
  <1>1. NoTask \in Tasks /\ NoTask.pc = "idle"
    BY NoTaskType
  <1>2. /\ admin' = [admin EXCEPT ![a] = NoTask]
        /\ UNCHANGED <<black, white, ids, settings, clock, cleaned, login, plan>>
    BY DEF Respond
  <1>3. Remains
    BY <1>0, <1>2, SameLeaves
  <1>4. admin' \in [Admins -> Tasks]
    BY <1>0, <1>1, <1>2, ListFacts
  <1>5. ListTypes'
    BY <1>0, <1>2, <1>3, <1>4, ListFacts, TypesBy
  <1>6. KeptOut'
    BY <1>0, <1>1, <1>2, <1>3, WriteKept DEF Remains
  <1> QED
    BY <1>2, <1>5, <1>6 DEF ListsIInv, SolesFirst, FirstIs, OfKey

LEMMA KickStep ==
  ASSUME ListsIInv, NEW a \in Admins, NEW s \in Servers, KickFrom(a, s)
  PROVE  ListsIInv'
  <1>0. ListTypes /\ AllFirst(black) /\ KeptOut
    BY DEF ListsIInv, SolesFirst, AllFirst
  <1>1. KeptOut'
    BY <1>0, KickKept
  <1>2. UNCHANGED <<white, ids, settings, clock, cleaned, plan>> /\ Remains
    BY <1>0, SameLeaves DEF KickFrom
  <1>3. Table(black', ids.black) /\ AllFirst(black')
    <2>1. black' = Told(a) \/ black' = black
      BY ZenonT(60) DEF KickFrom
    <2> QED
      BY <1>0, <2>1, ToldKeeps, ListFacts
  <1>4. login' \in [Logins -> LoginStates]
    <2>1. login' = KickPlayer(a, s)
      BY DEF KickFrom
    <2>2. ASSUME NEW l \in Logins PROVE login'[l] \in LoginStates
      <3>1. login[l] \in LoginStates
        BY <1>0, ListFacts
      <3>2. login'[l] = [login[l] EXCEPT !.pc = "kicked", !.seen = FALSE, !.sure = FALSE] \/ login'[l] = login[l]
        BY <2>1 DEF KickPlayer
      <3> QED
        BY <3>1, <3>2 DEF LoginStates
    <2> QED
      BY <2>1, <2>2 DEF KickPlayer
  <1>5. admin' \in [Admins -> Tasks]
    <2>1. admin[a] \in Tasks /\ admin \in [Admins -> Tasks] /\ NoTask \in Tasks
      BY <1>0, ListFacts, NoTaskType
    <2>2. PICK R : R = admin[a].todo \ {s}
      OBVIOUS
    <2>3. [admin[a] EXCEPT !.todo = R] \in Tasks
      BY <2>1, <2>2 DEF Tasks
    <2>4. admin' = [admin EXCEPT ![a] = NoTask] \/ admin' = [admin EXCEPT ![a] = [admin[a] EXCEPT !.todo = R]]
      BY <2>2 DEF KickFrom
    <2> QED
      BY <2>1, <2>3, <2>4
  <1>6. ListTypes'
    BY <1>0, <1>2, <1>3, <1>4, <1>5, ListFacts, TypesBy
  <1>7. SolesFirst'
    BY <1>3 DEF SolesFirst, AllFirst, FirstIs, OfKey
  <1> QED
    BY <1>1, <1>6, <1>7 DEF ListsIInv

LEMMA TickStep ==
  ASSUME ListsIInv, AccessTick
  PROVE  ListsIInv'
  <1>0. ListTypes /\ KeptOut
    BY DEF ListsIInv
  <1>1. KeptOut'
    BY <1>0, TickKept
  <1>2. UNCHANGED <<black, white, ids, settings, cleaned, login, admin>> /\ clock' = clock + 1
    BY DEF AccessTick
  <1>3. Remains
    BY <1>0 DEF AccessTick, ListTypes, Remains
  <1>4. clock' \in Nat /\ cleaned' \in 0..clock'
    BY <1>0, <1>2, ListFacts
  <1>5. ListTypes'
    BY <1>0, <1>2, <1>3, <1>4, ListFacts, TypesBy
  <1> QED
    BY <1>1, <1>2, <1>5 DEF ListsIInv, SolesFirst, FirstIs, OfKey

LEMMA ListsStart ==
  AccessInit => ListsIInv
  <1> SUFFICES ASSUME AccessInit PROVE ListsIInv
    OBVIOUS
  <1>1. DOMAIN black = {} /\ DOMAIN white = {}
    BY DEF AccessInit
  <1>2. ids \in [black : Nat, white : Nat] /\ Table(black, ids.black) /\ Table(white, ids.white)
    BY <1>1 DEF AccessInit, Table
  <1>3. settings \in [Scopes -> [set : BOOLEAN, black : BOOLEAN, white : BOOLEAN]]
    BY DEF AccessInit, DefaultACLSettings
  <1>4. clock \in Nat /\ cleaned \in 0..clock
    BY DEF AccessInit
  <1>5. login \in [Logins -> LoginStates] /\ \A l \in Logins : login[l].pc = "idle"
    BY DEF AccessInit, NoLogin, LoginStates
  <1>6. admin \in [Admins -> Tasks] /\ \A a \in Admins : admin[a].pc = "idle"
    BY DEF AccessInit, NoTask, NoRequest, Tasks, ListRequests, Scopes
  <1>7. AccessTypeOK
    BY <1>2, <1>3, <1>4, <1>5, <1>6, TypeByRows
  <1>8. ListTypes
    BY <1>4, <1>5, <1>6, <1>7, AccessAssumption DEF ListTypes, AccessInit
  <1> QED
    BY <1>1, <1>8 DEF ListsIInv, SolesFirst, KeptOut

\* Every step keeps the invariant.
LEMMA ListsStep ==
  ASSUME ListsIInv, [AccessNext]_accessVars
  PROVE  ListsIInv'
  <1>1. CASE UNCHANGED accessVars
    <2>1. ListTypes /\ UNCHANGED <<black, white, ids, settings, clock, cleaned, login, admin, plan>>
      BY <1>1 DEF accessVars, ListsIInv
    <2>2. ListTypes'
      BY <2>1, ListFacts, SameLeaves, TypesBy
    <2>3. Kickers' = Kickers
      BY <2>1 DEF Kickers
    <2>4. KeptOut'
      BY <2>1, <2>3 DEF ListsIInv, KeptOut, Bans, IsExpired, Reached, Within
    <2> QED
      BY <2>1, <2>2, <2>4 DEF ListsIInv, SolesFirst, FirstIs, OfKey
  <1>2. CASE AccessNext
    BY <1>2, ConnectStep, LookupStep, CheckStep, BlackStep, WhiteStep, OtherStep, RespondStep,
       KickStep, TickStep DEF AccessNext
  <1> QED
    BY <1>1, <1>2

LEMMA OutOf ==
  ASSUME ListsIInv
  PROVE  BannedStaysOut
  <1>1. SUFFICES ASSUME NEW l \in Logins, NEW r \in Range(black), r.sole, PlaysDespite(l, r)
                 PROVE  FALSE
    BY DEF BannedStaysOut
  <1>2. PICK i \in DOMAIN black : r = black[i]
    BY DEF Range
  <1>3. Bans(black[i], login[l]) /\ ~IsExpired(black[i]) /\ black[i].told /\ Within(login[l])
    BY <1>1, <1>2 DEF PlaysDespite, Bans, Within
  <1> QED
    BY <1>3 DEF ListsIInv, KeptOut

\* Once a ban has been answered, whom it covers is on no server it reaches; a check decides
\* as the lists an administrator is shown; and a lookup that fails turns nobody away: for
\* any number of players, servers, logins, goroutines and requests (ListsInv).
THEOREM ListsHold == AccessSpec => []ListsInv
  <1>1. ListsIInv => ListsInv
    BY OutOf, CheckMatches, FailsOpenHolds DEF ListsIInv, ListTypes, ListsInv
  <1> QED
    BY <1>1, ListsStart, ListsStep, PTL DEF AccessSpec

-----------------------------------------------------------------------------
(* What a step may change.                                                 *)

\* A lookup in scope x finds what the list of scope x says.
LEMMA SameFound ==
  ASSUME NEW t, NEW u, DOMAIN t \subseteq Nat, NEW x, NEW n,
         BlacklistList(u, x) = BlacklistList(t, x) \/ WhitelistList(u, x) = WhitelistList(t, x)
  PROVE  /\ BlacklistGetByName(u, n, x) = BlacklistGetByName(t, n, x)
         /\ WhitelistGetByName(u, n, x) = WhitelistGetByName(t, n, x)
  <1> DEFINE In(f) == {i \in DOMAIN f : f[i].scope = x}
  <1>1. /\ BlacklistList(u, x) = Restrict(u, In(u)) /\ BlacklistList(t, x) = Restrict(t, In(t))
        /\ WhitelistList(u, x) = Restrict(u, In(u)) /\ WhitelistList(t, x) = Restrict(t, In(t))
    BY DEF BlacklistList, WhitelistList, RestrictValues
  <1>2. Restrict(u, In(u)) = Restrict(t, In(t))
    BY <1>1
  <1>3. In(u) = In(t) /\ \A i \in In(t) : u[i] = t[i]
    BY <1>2 DEF Restrict
  <1>4. OfKey(u, n, x) = OfKey(t, n, x) /\ \A i \in OfKey(t, n, x) : u[i] = t[i]
    BY <1>3 DEF OfKey
  <1>5. PICK S : S = OfKey(t, n, x)
    OBVIOUS
  <1>6. S # {} => Min(S) \in S
    BY <1>5, MinIn DEF OfKey
  <1> QED
    BY <1>4, <1>5, <1>6 DEF BlacklistGetByName, WhitelistGetByName, FirstOf

\* The settings and the lists of scope x stay as they are.
ScopeKept(x) ==
    /\ settings'[x] = settings[x]
    /\ BlacklistList(black', x) = BlacklistList(black, x)
    /\ WhitelistList(white', x) = WhitelistList(white, x)

LEMMA TableIds ==
  ASSUME ListTypes
  PROVE  DOMAIN black \subseteq Nat /\ DOMAIN white \subseteq Nat
  BY TypeByRows DEF ListTypes, Table

LEMMA KeptScope ==
  ASSUME ListTypes, NEW x, NEW n, ScopeKept(x)
  PROVE  /\ BlacklistGetByName(black', n, x) = BlacklistGetByName(black, n, x)
         /\ WhitelistGetByName(white', n, x) = WhitelistGetByName(white, n, x)
         /\ settings'[x] = settings[x]
  <1>1. PICK t, u, v, w : t = black /\ u = black' /\ v = white /\ w = white'
    OBVIOUS
  <1>2. /\ DOMAIN t \subseteq Nat /\ BlacklistList(u, x) = BlacklistList(t, x)
        /\ DOMAIN v \subseteq Nat /\ WhitelistList(w, x) = WhitelistList(v, x)
    BY <1>1, TableIds DEF ScopeKept
  <1>3. BlacklistGetByName(u, n, x) = BlacklistGetByName(t, n, x)
    BY <1>2, SameFound
  <1>4. WhitelistGetByName(w, n, x) = WhitelistGetByName(v, n, x)
    BY <1>2, SameFound
  <1> QED
    BY <1>1, <1>3, <1>4 DEF ScopeKept

LEMMA OwnScope ==
  ASSUME ListTypes, NEW s \in Servers, NEW n \in Players, clock' = clock, ScopeKept(""), ScopeKept(s)
  PROVE  CheckAccessFull(black, white, n, s, {})' = CheckAccessFull(black, white, n, s, {})
  <1>2. /\ BlacklistGetByName(black', n, "") = BlacklistGetByName(black, n, "")
        /\ WhitelistGetByName(white', n, "") = WhitelistGetByName(white, n, "")
        /\ BlacklistGetByName(black', n, s) = BlacklistGetByName(black, n, s)
        /\ WhitelistGetByName(white', n, s) = WhitelistGetByName(white, n, s)
        /\ settings'[""] = settings[""] /\ settings'[s] = settings[s]
    BY KeptScope
  <1>3. LoadSettings(s, {})' = LoadSettings(s, {})
    BY <1>2 DEF LoadSettings
  <1>4. \A r : /\ IsBlacklistedByEntry(r)' <=> IsBlacklistedByEntry(r)
               /\ IsWhitelistedByEntry(r)' <=> IsWhitelistedByEntry(r)
    BY DEF IsBlacklistedByEntry, IsWhitelistedByEntry, IsExpired
  <1> QED
    BY <1>2, <1>3, <1>4 DEF CheckAccessFull

\* What a step does with the requests that are being served.
LEMMA Answering ==
  ASSUME ListsIInv, AccessNext, NEW b \in Admins, admin[b].pc = "idle", admin'[b].pc = "answered"
  PROVE  \E q \in plan.requests :
            /\ admin'[b].req = q
            /\ \/ RemoveFromBlacklist(b, q)
               \/ UpdateBlacklistEntryEnabled(b, q) /\ ~BlacklistGetByName(black', q.name, q.scope).on
  <1>0. ListTypes /\ admin \in [Admins -> Tasks]
    BY DEF ListsIInv, ListTypes
  <1>1. ASSUME NEW a \in Admins, NEW k, admin' = [admin EXCEPT ![a] = k]
        PROVE  a = b /\ k.pc = "answered" /\ admin'[b] = k
    BY <1>0, <1>1
  <1>2. admin' # admin
    OBVIOUS
  <1>3. ASSUME NEW a \in Admins, admin' = [admin EXCEPT ![a] = NoTask]
        PROVE  FALSE
    BY <1>1, <1>3, NoTaskType
  <1>4. ASSUME NEW a \in Admins, NEW q \in plan.requests, Served(a, q, Kicking(q))
        PROVE  FALSE
    <2>1. PICK k : k = Kicking(q) /\ k.pc # "answered"
      BY <1>0, TaskTypes
    <2>2. admin' = [admin EXCEPT ![a] = k]
      BY <1>4, <2>1 DEF Served
    <2> QED
      BY <1>1, <2>1, <2>2
  <1>5. ASSUME NEW a \in Admins, NEW q \in plan.requests, Served(a, q, Answered(q))
        PROVE  a = b /\ admin'[b].req = q
    <2>1. PICK k : k = Answered(q) /\ k.req = q
      BY <1>0, TaskTypes
    <2>2. admin' = [admin EXCEPT ![a] = k]
      BY <1>5, <2>1, ZenonT(60) DEF Served
    <2> QED
      BY <1>1, <2>1, <2>2
  <1>6. ASSUME NEW l \in Logins, \/ Connect(l) \/ RawReadsSettings(l) \/ RawLooksUp(l) \/ CheckLogin(l)
                                 \/ Admit(l) \/ Leave(l)
        PROVE  FALSE
    BY <1>2, <1>6 DEF Connect, RawReadsSettings, RawLooksUp, CheckLogin, Admit, Leave
  <1>7. ASSUME NEW a \in Admins, NEW q \in plan.requests,
               \/ AddToWhitelist(a, q) \/ UpdateWhitelistEntryEnabled(a, q) \/ RemoveFromWhitelist(a, q)
               \/ UpdateSettings(a, q) \/ ReadLists(a, q)
        PROVE  FALSE
    BY <1>3, <1>7 DEF AddToWhitelist, UpdateWhitelistEntryEnabled, RemoveFromWhitelist,
                      UpdateSettings, ReadLists, Served
  <1>8. ASSUME NEW a \in Admins, NEW q \in plan.requests, AddToBlacklist(a, q) \/ kickPlayer(a, q)
        PROVE  FALSE
    BY <1>4, <1>8 DEF AddToBlacklist, kickPlayer
  <1>9. ASSUME NEW a \in Admins, NEW q \in plan.requests, RemoveFromBlacklist(a, q)
        PROVE  a = b /\ admin'[b].req = q
    BY <1>5, <1>9 DEF RemoveFromBlacklist
  <1>10. ASSUME NEW a \in Admins, NEW q \in plan.requests, UpdateBlacklistEntryEnabled(a, q)
         PROVE  a = b /\ admin'[b].req = q /\ ~BlacklistGetByName(black', q.name, q.scope).on
    <2>1. CASE BlacklistGetByName(black', q.name, q.scope).on
      BY <1>4, <1>10, <2>1 DEF UpdateBlacklistEntryEnabled
    <2>2. CASE ~BlacklistGetByName(black', q.name, q.scope).on
      BY <1>5, <1>10, <2>2 DEF UpdateBlacklistEntryEnabled
    <2> QED
      BY <2>1, <2>2
  <1>11. ASSUME NEW a \in Admins, Respond(a)
         PROVE  FALSE
    BY <1>3, <1>11 DEF Respond
  <1>12. ASSUME NEW a \in Admins, NEW s \in Servers, KickFrom(a, s)
         PROVE  FALSE
    <2>1. admin[a].pc = "kicking" /\ a # b
      <3>1. admin[a].pc = "kicking"
        BY <1>12 DEF KickFrom
      <3> QED
        BY <3>1
    <2>2. \E k : admin' = [admin EXCEPT ![a] = k]
      BY <1>12 DEF KickFrom
    <2> QED
      BY <1>1, <2>1, <2>2
  <1>13. CASE AccessTick
    BY <1>2, <1>13 DEF AccessTick
  <1> QED
    BY <1>6, <1>7, <1>8, <1>9, <1>10, <1>11, <1>12, <1>13 DEF AccessNext

LEMMA Lifted ==
  ASSUME ListsIInv, AccessNext, NEW b \in Admins, admin[b].pc = "idle", admin'[b].pc = "answered",
         NEW i \in OfKey(black', admin'[b].req.name, admin'[b].req.scope)
  PROVE  admin'[b].req.op = "setBan" /\ ~black'[i].on
  <1>0. ListTypes /\ AllFirst(black)
    BY DEF ListsIInv, SolesFirst, AllFirst
  <1>1. PICK q \in plan.requests :
            /\ admin'[b].req = q
            /\ \/ RemoveFromBlacklist(b, q)
               \/ UpdateBlacklistEntryEnabled(b, q) /\ ~BlacklistGetByName(black', q.name, q.scope).on
    BY Answering
  <1>2. Decoded(q)
    BY <1>0, ListFacts
  <1>3. CASE RemoveFromBlacklist(b, q)
    <2>1. black' = BlacklistDelete(q.name, q.scope)
      BY <1>3 DEF RemoveFromBlacklist
    <2>2. OfKey(black', q.name, q.scope) = {}
      BY <1>0, <2>1, DeleteKeeps
    <2> QED
      BY <1>1, <2>2
  <1>4. CASE UpdateBlacklistEntryEnabled(b, q) /\ ~BlacklistGetByName(black', q.name, q.scope).on
    <2>1. q.op = "setBan" /\ black' = BlacklistUpdateEnabled(q, b)
      BY <1>4 DEF UpdateBlacklistEntryEnabled
    <2>2. /\ Table(black', ids.black)
          /\ \A j \in OfKey(black', q.name, q.scope) : black'[j].on = q.on
      BY <1>0, <1>2, <2>1, SwitchKeeps
    <2>3. PICK t : t = black'
      OBVIOUS
    <2>4. PICK S : S = OfKey(t, q.name, q.scope)
      OBVIOUS
    <2>5. S \subseteq Nat
      BY <1>0, <2>2, <2>3, <2>4, ListFacts DEF Table, OfKey
    <2>6. i \in S
      BY <1>1, <2>3, <2>4
    <2>7. Min(S) \in S
      BY <2>5, <2>6, MinIn
    <2>8. BlacklistGetByName(t, q.name, q.scope) = t[Min(S)]
      BY <2>4, <2>6 DEF BlacklistGetByName, FirstOf
    <2>9. ~q.on
      BY <1>4, <2>2, <2>3, <2>4, <2>7, <2>8
    <2> QED
      BY <1>1, <2>1, <2>2, <2>3, <2>4, <2>6, <2>9
  <1> QED
    BY <1>1, <1>3, <1>4

\* A row that is to last keeps its key in every step, but for the request that deletes it.
LEMMA RowStays ==
  ASSUME ListsIInv, AccessNext, NEW i \in DOMAIN black, Lasting(black[i]),
         ~(i \in DOMAIN black' /\ black'[i].name = black[i].name /\ black'[i].scope = black[i].scope)
  PROVE  \E a \in Admins, q \in plan.requests :
            RemoveFromBlacklist(a, q) /\ black[i].name = q.name /\ black[i].scope = q.scope
  <1>0. ListTypes /\ AllFirst(black) /\ \A q \in plan.requests : Decoded(q)
    BY ListFacts DEF ListsIInv, SolesFirst, AllFirst
  <1>1. black' # black
    OBVIOUS
  <1>2. ~Keyed(black, black')
    BY DEF Keyed
  <1>3. ASSUME NEW bad, cleanupExpiredEntriesIfDue(bad)
        PROVE  FALSE
    <2>1. i \in DOMAIN black' /\ black'[i] = black[i]
      BY <1>0, <1>3, PurgeKeeps, ZenonT(60)
    <2> QED
      BY <2>1
  <1>4. ASSUME NEW l \in Logins, \/ Connect(l) \/ RawReadsSettings(l) \/ RawLooksUp(l) \/ CheckLogin(l)
                                 \/ Admit(l) \/ Leave(l)
        PROVE  FALSE
    BY <1>1, <1>3, <1>4 DEF Connect, RawReadsSettings, RawLooksUp, CheckLogin, Admit, Leave
  <1>5. ASSUME NEW a \in Admins, NEW q \in plan.requests,
               \/ AddToWhitelist(a, q) \/ UpdateWhitelistEntryEnabled(a, q) \/ RemoveFromWhitelist(a, q)
               \/ UpdateSettings(a, q) \/ ReadLists(a, q) \/ kickPlayer(a, q)
        PROVE  FALSE
    BY <1>1, <1>3, <1>5 DEF AddToWhitelist, UpdateWhitelistEntryEnabled, RemoveFromWhitelist,
                            UpdateSettings, ReadLists, kickPlayer
  <1>6. ASSUME NEW a \in Admins, NEW q \in plan.requests,
               AddToBlacklist(a, q) \/ UpdateBlacklistEntryEnabled(a, q)
        PROVE  FALSE
    <2>1. CASE AddToBlacklist(a, q)
      BY <1>0, <1>2, <2>1, CreateKeeps DEF AddToBlacklist
    <2>2. CASE UpdateBlacklistEntryEnabled(a, q)
      BY <1>0, <1>2, <2>2, SwitchKeeps DEF UpdateBlacklistEntryEnabled
    <2> QED
      BY <1>6, <2>1, <2>2
  <1>7. ASSUME NEW a \in Admins, NEW q \in plan.requests, RemoveFromBlacklist(a, q)
        PROVE  black[i].name = q.name /\ black[i].scope = q.scope
    <2>1. black' = BlacklistDelete(q.name, q.scope)
      BY <1>7 DEF RemoveFromBlacklist
    <2>2. i \notin DOMAIN black \ OfKey(black, q.name, q.scope)
      BY <1>0, <2>1, DeleteKeeps
    <2> QED
      BY <2>2 DEF OfKey
  <1>8. ASSUME NEW a \in Admins, NEW s \in Servers, KickFrom(a, s)
        PROVE  FALSE
    <2>1. black' = Told(a) \/ black' = black
      BY <1>8 DEF KickFrom
    <2> QED
      BY <1>0, <1>1, <1>2, <2>1, ToldKeeps
  <1>9. CASE AccessTick \/ \E a \in Admins : Respond(a)
    BY <1>1, <1>9 DEF AccessTick, Respond
  <1> QED
    BY <1>4, <1>5, <1>6, <1>7, <1>8, <1>9 DEF AccessNext

LEMMA LiftedBy ==
  ASSUME ListsIInv, AccessNext, NEW r \in Range(black), Lasting(r),
         OfKey(black', r.name, r.scope) = {}
  PROVE  \E a \in Admins : /\ admin'[a].pc = "answered" /\ admin'[a].req.op = "unban"
                           /\ admin'[a].req.name = r.name /\ admin'[a].req.scope = r.scope
  <1>1. PICK i \in DOMAIN black : r = black[i]
    BY DEF Range
  <1>2. ~(i \in DOMAIN black' /\ black'[i].name = r.name /\ black'[i].scope = r.scope)
    BY DEF OfKey
  <1>3. PICK a \in Admins, q \in plan.requests :
            RemoveFromBlacklist(a, q) /\ r.name = q.name /\ r.scope = q.scope
    BY <1>1, <1>2, RowStays
  <1>4. PICK k : k = Answered(q) /\ k.pc = "answered" /\ k.req = q
    BY TaskTypes DEF ListsIInv
  <1>5. admin' = [admin EXCEPT ![a] = k] /\ q.op = "unban"
    BY <1>3, <1>4 DEF RemoveFromBlacklist, Served
  <1>6. admin'[a] = k
    BY <1>5 DEF ListsIInv, ListTypes
  <1> QED
    BY <1>3, <1>4, <1>5, <1>6

\* A check depends on the entries and settings of its own server and the global ones only,
\* nothing of a ban is left when the request that lifts it is answered, and no entry in
\* force goes away but by a request about it, unless its expiry was written in a zone west
\* of the program's own (ListsChange).
THEOREM ListsChangeHolds == AccessSpec => ListsChange
  <1>1. ListsIInv /\ [AccessNext]_accessVars =>
          [\A s \in Servers, n \in Players :
             (/\ clock' = clock
              /\ \A x \in {"", s} : /\ settings'[x] = settings[x]
                                    /\ BlacklistList(black', x) = BlacklistList(black, x)
                                    /\ WhitelistList(white', x) = WhitelistList(white, x))
             => CheckAccessFull(black, white, n, s, {})' = CheckAccessFull(black, white, n, s, {})
          ]_accessVars
    BY OwnScope DEF ListsIInv, ScopeKept
  <1>2. ListsIInv /\ [AccessNext]_accessVars =>
          [\A a \in Admins :
             admin[a].pc = "idle" /\ admin'[a].pc = "answered" =>
                \A i \in OfKey(black', admin'[a].req.name, admin'[a].req.scope) :
                    admin'[a].req.op = "setBan" /\ ~black'[i].on]_accessVars
    BY Lifted
  <1>3. ListsIInv /\ [AccessNext]_accessVars =>
          [\A r \in Range(black) :
             Lasting(r) /\ OfKey(black', r.name, r.scope) = {} =>
                \E a \in Admins : /\ admin'[a].pc = "answered" /\ admin'[a].req.op = "unban"
                                 /\ admin'[a].req.name = r.name /\ admin'[a].req.scope = r.scope
          ]_accessVars
    BY LiftedBy
  <1>4. AccessSpec => []ListsIInv
    BY ListsStart, ListsStep, PTL DEF AccessSpec
  <1> QED
    BY <1>1, <1>2, <1>3, <1>4, PTL
       DEF AccessSpec, ListsChange, ScopesIndependent, LiftedMeansLifted, OnlyRequestsLift
=============================================================================
