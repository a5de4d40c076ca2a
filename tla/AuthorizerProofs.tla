-------------------------- MODULE AuthorizerProofs --------------------------
(***************************************************************************)
(* The relay's authorization cache is sound and implements Authorizer, for *)
(* every value of the constants: the checks and the clock preserve the     *)
(* inductive invariant of RelayProofs, and each step of the cache is one   *)
(* that Authorizer promises.                                               *)
(***************************************************************************)
EXTENDS RelayProofs

(* A check that ends gives its slot back, if it had taken one, and reports *)
(* what was true since it started.                                         *)
SlotReturned(r) ==
    authSlots' = IF check[r].state \in Running THEN authSlots - 1 ELSE authSlots

Supported(r, outcome) ==
    /\ outcome = "ok" => Promise!PermittedSince(check[r].token, check[r].started)
    /\ outcome = "denied" => Promise!ForbiddenSince(check[r].token, check[r].started)

LEMMA EndCheckCounted ==
    ASSUME AuthInv, NEW r \in Runner, check' = [check EXCEPT ![r] = NoCheck], SlotReturned(r)
    PROVE  /\ IsFiniteSet(Checking')
           /\ authSlots' = Cardinality(Checking')
           /\ authSlots' \in Nat
           /\ authSlots' <= MaxAuthChecks
  <1> USE RelayAuthAssumption DEF AuthInv
  <1>1. Checking' = Checking \ {r}
    BY Zenon DEF TypeOK, Checking, NoCheck, Running
  <1>2. IsFiniteSet(Checking) /\ authSlots = Cardinality(Checking) /\ authSlots <= MaxAuthChecks
    BY Zenon DEF Counted
  <1>3. /\ IsFiniteSet(Checking \ {r})
        /\ Cardinality(Checking \ {r}) =
             IF r \in Checking THEN Cardinality(Checking) - 1 ELSE Cardinality(Checking)
    BY <1>2, FS_RemoveElement, Zenon
  <1>4. r \in Checking <=> check[r].state \in Running
    BY Zenon DEF Checking
  <1>5. Cardinality(Checking \ {r}) \in Nat
    BY <1>3, FS_CardinalityType, Zenon
  <1>6. QED
    BY <1>1, <1>2, <1>3, <1>4, <1>5 DEF TypeOK, SlotReturned

(* The goroutine of an entry publishes its result: a policy stays in the   *)
(* map for those who come later, a failure is left to those who wait.      *)
LEMMA PublishInv ==
    ASSUME AuthInv, NEW r \in Entry, NEW outcome \in Answer, check[r].state # "none",
           Supported(r, outcome), SlotReturned(r), EndCheck(r, outcome)
    PROVE  AuthInv'
  <1> USE RelayAuthAssumption DEF AuthInv, policyVars
  <1> DEFINE t == check[r].token
             heap == [entry EXCEPT ![r] = Published(outcome)]
  <1>1. t \in WellFormed /\ t \in Token /\ policies[t] = r /\ ~entry[r].ready /\ TTL > 0
    BY Zenon DEF MapLinked
  <1>2. r \in Runner /\ r \notin Caller /\ NoCheck \in Check /\ NoCheck.state = "none"
    BY Zenon DEF Runner, NoCheck, Check
  <1>3. /\ check'[r].state = "none"
        /\ \A s \in Runner : s # r => check'[s] = check[s]
        /\ \A c \in Caller : check'[c] = check[c]
        /\ check' \in [Runner -> Check]
    BY <1>2, Zenon DEF EndCheck, TypeOK, Runner
  <1>4. /\ policies' = IF outcome = "ok" THEN policies ELSE [policies EXCEPT ![t] = NoEntry]
        /\ entry' = Collected(heap)
        /\ UNCHANGED <<now, permitted, lastYes, lastNo, changes, call>>
    BY <1>2, Zenon DEF EndCheck, Publish
  <1>5. /\ policies' \in [Token -> Entry \cup {NoEntry}]
        /\ outcome = "ok" => policies' = policies
        /\ outcome # "ok" => policies'[t] = NoEntry
        /\ \A u \in Token : u # t => policies'[u] = policies[u]
        /\ \A u \in Token : policies'[u] # NoEntry => policies'[u] = policies[u]
    BY <1>1, <1>4, Zenon DEF TypeOK
  <1>6. /\ heap \in [Entry -> EntryState]
        /\ heap[r].ready = TRUE /\ heap[r].outcome = outcome /\ heap[r].expires = now + TTL
        /\ \A d \in Entry : d # r => heap[d] = entry[d]
    BY DEF TypeOK, Published, EntryState, Answer
  <1>7. /\ entry' \in [Entry -> EntryState]
        /\ \A d \in Entry : Referenced(d)' => entry'[d] = heap[d]
        /\ \A d \in Entry : ~Referenced(d)' => entry'[d] = FreshEntry
    BY <1>4, <1>6, CollectedProperties, Zenon
  <1> HIDE DEF heap
  <1>8. /\ \A d \in Entry : check'[d].state # "none" => d # r /\ entry'[d] = entry[d]
        /\ \A u \in Token : policies'[u] # NoEntry =>
             policies'[u] \in Entry /\ entry'[policies'[u]] = heap[policies'[u]]
        /\ \A b \in Caller : call[b].state = "waiting" =>
             call[b].entry \in Entry /\ entry'[call[b].entry] = heap[call[b].entry]
    <2>1. \A d \in Entry : check'[d].state # "none" => d # r /\ entry'[d] = entry[d]
      BY <1>3, <1>6, <1>7, Zenon DEF Referenced
    <2>2. \A u \in Token : policies'[u] # NoEntry =>
            policies'[u] \in Entry /\ entry'[policies'[u]] = heap[policies'[u]]
      BY <1>5, <1>7, Zenon DEF Referenced
    <2>3. \A b \in Caller : call[b].state = "waiting" =>
            call[b].entry \in Entry /\ entry'[call[b].entry] = heap[call[b].entry]
      BY <1>4, <1>7, Zenon DEF Referenced, CallsLinked
    <2>4. QED
      BY <2>1, <2>2, <2>3, Zenon
  <1>9. TypeOK'
    BY <1>2, <1>3, <1>4, <1>5, <1>7, EndCheckCounted, ZenonT(30) DEF EndCheck, TypeOK
  <1>10. \A u \in Token : policies'[u] = r => outcome = "ok" /\ u = t
    BY <1>1, <1>5 DEF MapLinked
  <1>11. MapLinked'
    <2>1. \A d \in Entry : check'[d].state # "none" =>
            check'[d].token \in WellFormed /\ policies'[check'[d].token] = d /\ ~entry'[d].ready
      <3> SUFFICES ASSUME NEW d \in Entry, check'[d].state # "none"
                   PROVE  /\ check'[d].token \in WellFormed /\ policies'[check'[d].token] = d
                          /\ ~entry'[d].ready
        BY Zenon
      <3>1. d # r /\ check'[d] = check[d] /\ entry'[d] = entry[d]
        BY <1>3, <1>8, Zenon DEF Runner
      <3>2. check[d].token \in WellFormed /\ policies[check[d].token] = d /\ ~entry[d].ready
        BY <3>1, Zenon DEF MapLinked
      <3>3. check[d].token # t
        BY <1>1, <3>1, <3>2, Zenon
      <3>4. QED
        BY <1>5, <3>1, <3>2, <3>3, Zenon
    <2>2. \A u \in Token : policies'[u] # NoEntry =>
            IF entry'[policies'[u]].ready
            THEN entry'[policies'[u]].outcome = "ok"
            ELSE check'[policies'[u]].state # "none" /\ check'[policies'[u]].token = u
      BY <1>3, <1>5, <1>6, <1>8, <1>10 DEF MapLinked, Runner
    <2>3. QED
      BY <1>1, <1>5, <1>7, <2>1, <2>2 DEF MapLinked
  <1>12. CallsLinked'
    <2>1. \A b \in Caller : call[b].state = "waiting" /\ ~entry'[call[b].entry].ready =>
            /\ ~entry[call[b].entry].ready
            /\ check'[call[b].entry] = check[call[b].entry]
      <3> SUFFICES ASSUME NEW b \in Caller, call[b].state = "waiting",
                          ~entry'[call[b].entry].ready
                   PROVE  /\ ~entry[call[b].entry].ready
                          /\ check'[call[b].entry] = check[call[b].entry]
        BY Zenon
      <3>1. call[b].entry \in Entry /\ call[b].entry \in Runner /\ call[b].entry # r
        BY <1>6, <1>8 DEF Runner
      <3>2. QED
        BY <1>3, <1>6, <1>8, <3>1
    <2>2. QED
      BY <1>3, <1>4, <2>1 DEF CallsLinked
  <1>13. Counted'
    <2>1. Held(policies') \in SUBSET Held(policies)
      BY <1>5, Zenon DEF Held
    <2>2. IsFiniteSet(Held(policies)) /\ Cardinality(Held(policies)) <= MaxPolicies
      BY Zenon DEF Counted
    <2>3. /\ IsFiniteSet(Held(policies'))
          /\ Cardinality(Held(policies')) <= Cardinality(Held(policies))
      BY <2>1, <2>2, FS_Subset, Zenon
    <2>4. Cardinality(Held(policies')) \in Nat /\ Cardinality(Held(policies)) \in Nat
      BY <2>2, <2>3, FS_CardinalityType, Zenon
    <2>5. /\ IsFiniteSet(Checking')
          /\ authSlots' = Cardinality(Checking') /\ authSlots' <= MaxAuthChecks
      BY <1>2, EndCheckCounted, Zenon DEF EndCheck
    <2>6. QED
      BY <2>2, <2>3, <2>4, <2>5 DEF Counted
  <1>14. ChecksTimed'
    BY <1>3, <1>4 DEF ChecksTimed, Running, Promise!PermittedSince, Promise!ForbiddenSince
  <1>15. PoliciesTimed'
    <2>1. now \in Nat /\ check[r].started \in Nat /\ now <= check[r].started + CheckTimeout
      <3>1. check[r] \in Check
        BY <1>2, Zenon DEF TypeOK
      <3>2. QED
        BY <1>2, <3>1 DEF ChecksTimed, TypeOK, Check, Running
    <2>2. \A d \in Entry : entry'[d].expires <= now + TTL
      <3> SUFFICES ASSUME NEW d \in Entry PROVE entry'[d].expires <= now + TTL
        BY Zenon
      <3>1. entry'[d] \in {entry[d], heap[r], FreshEntry}
        BY <1>6, <1>7, Zenon
      <3>2. entry[d].expires <= now + TTL /\ heap[r].expires <= now + TTL
        BY <1>6, <2>1 DEF PoliciesTimed
      <3>3. FreshEntry.expires <= now + TTL
        BY <2>1 DEF FreshEntry
      <3>4. QED
        BY <3>1, <3>2, <3>3, Zenon
    <2>3. /\ outcome = "ok" =>
               Promise!PermittedSince(t, now + TTL - (TTL + CheckTimeout))
          /\ outcome = "denied" => Promise!ForbiddenSince(t, now - CheckTimeout)
      BY <1>1, <2>1 DEF Supported, TypeOK, Promise!PermittedSince, Promise!ForbiddenSince
    <2>4. \A b \in Caller : call[b].state = "waiting" /\ call[b].entry = r => call[b].token = t
      BY <1>1, Zenon DEF CallsLinked
    <2>5. \A u \in Token : policies'[u] # NoEntry /\ entry'[policies'[u]].ready =>
            Promise!PermittedSince(u, entry'[policies'[u]].expires - (TTL + CheckTimeout))
      <3> SUFFICES ASSUME NEW u \in Token, policies'[u] # NoEntry, entry'[policies'[u]].ready
                   PROVE  Promise!PermittedSince(u,
                                      entry'[policies'[u]].expires - (TTL + CheckTimeout))
        BY Zenon
      <3>1. CASE policies'[u] = r
        <4>1. outcome = "ok" /\ u = t
          BY <1>10, <3>1, Zenon
        <4>2. entry'[policies'[u]].expires = now + TTL
          BY <1>6, <1>8, <3>1, Zenon
        <4>3. QED
          BY <2>1, <2>3, <4>1, <4>2 DEF Promise!PermittedSince
      <3>2. CASE policies'[u] # r
        <4>1. policies'[u] = policies[u] /\ entry'[policies[u]] = entry[policies[u]]
          BY <1>5, <1>6, <1>8, <3>2
        <4>2. QED
          BY <4>1, Zenon DEF PoliciesTimed
      <3>3. QED
        BY <3>1, <3>2, Zenon
    <2>6. \A b \in Caller : call[b].state = "waiting" /\ entry'[call[b].entry].ready =>
            /\ entry'[call[b].entry].outcome = "ok" =>
                 /\ now < entry'[call[b].entry].expires
                 /\ Promise!PermittedSince(call[b].token,
                                     entry'[call[b].entry].expires - (TTL + CheckTimeout))
            /\ entry'[call[b].entry].outcome = "denied" =>
                 Promise!ForbiddenSince(call[b].token, now - CheckTimeout)
      <3> SUFFICES ASSUME NEW b \in Caller, call[b].state = "waiting",
                          entry'[call[b].entry].ready
                   PROVE  /\ entry'[call[b].entry].outcome = "ok" =>
                               /\ now < entry'[call[b].entry].expires
                               /\ Promise!PermittedSince(call[b].token,
                                     entry'[call[b].entry].expires - (TTL + CheckTimeout))
                          /\ entry'[call[b].entry].outcome = "denied" =>
                               Promise!ForbiddenSince(call[b].token, now - CheckTimeout)
        BY Zenon
      <3>1. CASE call[b].entry = r
        <4>1. call[b].token = t
          BY <2>4, <3>1, Zenon
        <4>2. /\ entry'[r].outcome = outcome
              /\ outcome = "ok" => entry'[r].expires = now + TTL
          BY <1>6, <1>8, <3>1
        <4>3. now < now + TTL
          BY <1>1, <2>1
        <4>4. outcome = "ok" =>
                /\ now < entry'[r].expires
                /\ Promise!PermittedSince(t, entry'[r].expires - (TTL + CheckTimeout))
          BY <2>1, <2>3, <4>2, <4>3 DEF Promise!PermittedSince
        <4>5. QED
          BY <2>3, <3>1, <4>1, <4>2, <4>4, Zenon
      <3>2. CASE call[b].entry # r
        <4>1. entry'[call[b].entry] = entry[call[b].entry]
          BY <1>6, <1>8, <3>2
        <4>2. QED
          BY <4>1, Zenon DEF PoliciesTimed
      <3>3. QED
        BY <3>1, <3>2, Zenon
    <2>7. QED
      BY <1>4, <2>2, <2>5, <2>6, Zenon
      DEF PoliciesTimed, Promise!PermittedSince, Promise!ForbiddenSince
  <1>16. QED
    BY <1>9, <1>11, <1>12, <1>13, <1>14, <1>15

(* A caller that checked by itself returns with its own result.            *)
LEMMA ReturnInv ==
    ASSUME AuthInv, NEW r \in Caller, NEW outcome \in Outcome, check[r].state # "none",
           SlotReturned(r), EndCheck(r, outcome)
    PROVE  AuthInv'
  <1> USE RelayAuthAssumption DEF AuthInv
  <1>1. r \in Runner /\ r \notin Entry /\ NoCheck \in Check /\ NoCheck.state = "none"
    BY Zenon DEF Runner, NoCheck, Check
  <1>2. /\ check'[r].state = "none"
        /\ \A s \in Runner : s # r => check'[s] = check[s]
        /\ \A e \in Entry : check'[e] = check[e]
        /\ check' \in [Runner -> Check]
    BY <1>1, Zenon DEF EndCheck, TypeOK, Runner
  <1>3. call' = [call EXCEPT ![r].state = outcome] /\ UNCHANGED <<now, policyVars, entry, policies>>
    BY <1>1, Zenon DEF EndCheck
  <1>4. /\ call' \in [Caller -> Call]
        /\ call'[r].state = outcome
        /\ outcome \notin {"waiting", "backend"}
        /\ \A b \in Caller : b # r => call'[b] = call[b]
    BY <1>3 DEF TypeOK, Call, CallState, Outcome
  <1>5. call[r].state = "backend"
    BY Zenon DEF CallsLinked
  <1>6. TypeOK'
    BY <1>1, <1>2, <1>3, <1>4, EndCheckCounted, Zenon DEF EndCheck, TypeOK, policyVars
  <1>7. \A e \in Entry : Referenced(e)' <=> Referenced(e)
    BY <1>2, <1>3, <1>4, <1>5 DEF Referenced
  <1>8. MapLinked'
    BY <1>2, <1>3, <1>7 DEF MapLinked, TypeOK
  <1>9. CallsLinked'
    BY <1>2, <1>3, <1>4 DEF CallsLinked, Runner
  <1>10. Counted'
    <2>1. /\ IsFiniteSet(Checking')
          /\ authSlots' = Cardinality(Checking') /\ authSlots' <= MaxAuthChecks
      BY <1>1, EndCheckCounted, Zenon DEF EndCheck
    <2>2. QED
      BY <1>3, <2>1 DEF Counted, Held
  <1>11. ChecksTimed'
    BY <1>2, <1>3
    DEF ChecksTimed, Running, policyVars, Promise!PermittedSince, Promise!ForbiddenSince
  <1>12. PoliciesTimed'
    BY <1>3, <1>4 DEF PoliciesTimed, policyVars, Promise!PermittedSince, Promise!ForbiddenSince
  <1>13. QED
    BY <1>6, <1>8, <1>9, <1>10, <1>11, <1>12

(* However a check ends.                                                   *)
LEMMA EndCheckInv ==
    ASSUME AuthInv, NEW r \in Runner, NEW outcome \in Outcome, check[r].state # "none",
           r \in Entry => outcome \in Answer,
           Supported(r, outcome), SlotReturned(r), EndCheck(r, outcome)
    PROVE  AuthInv'
  BY PublishInv, ReturnInv, Zenon DEF Runner

(* A step of a check that does not end it: it keeps its token and its      *)
(* start, and what it has learnt is true now.                              *)
LEMMA OngoingInv ==
    ASSUME AuthInv, NEW r \in Runner, NEW k \in Check,
           check[r].state # "none", k.state \in Running,
           k.token = check[r].token, k.started = check[r].started,
           k.state = "answered" => k.answer = IF permitted[k.token] THEN "ok" ELSE "denied",
           check' = [check EXCEPT ![r] = k],
           IF check[r].state \in Running THEN authSlots' = authSlots
           ELSE authSlots < MaxAuthChecks /\ authSlots' = authSlots + 1,
           UNCHANGED <<now, policyVars, policies, entry, call>>
    PROVE  AuthInv'
  <1> USE RelayAuthAssumption DEF AuthInv, policyVars
  <1>1. /\ check'[r] = k /\ k.state # "none" /\ k.state # "start"
        /\ \A s \in Runner : s # r => check'[s] = check[s]
        /\ check' \in [Runner -> Check]
    BY Zenon DEF TypeOK, Running
  <1>2. \A s \in Runner : /\ check'[s].state = "none" <=> check[s].state = "none"
                          /\ check'[s].token = check[s].token
                          /\ check'[s].started = check[s].started
    BY <1>1, Zenon
  <1>3. TypeOK'
    BY <1>1 DEF TypeOK
  <1>4. MapLinked'
    <2>1. \A e \in Entry : e \in Runner
      BY Zenon DEF Runner
    <2>2. \A u \in Token : policies[u] # NoEntry => policies[u] \in Runner
      BY <2>1, Zenon DEF TypeOK
    <2>3. \A e \in Entry : Referenced(e)' <=> Referenced(e)
      BY <1>2, <2>1 DEF Referenced
    <2>4. QED
      BY <1>2, <2>1, <2>2, <2>3 DEF MapLinked
  <1>5. CallsLinked'
    BY <1>2 DEF CallsLinked, Runner
  <1>6. Counted'
    <2>1. Checking' = Checking \cup {r}
      BY <1>1, ZenonT(30) DEF Checking
    <2>2. r \in Checking <=> check[r].state \in Running
      BY Zenon DEF Checking
    <2>3. /\ IsFiniteSet(Checking \cup {r})
          /\ Cardinality(Checking \cup {r}) =
               IF r \in Checking THEN Cardinality(Checking) ELSE Cardinality(Checking) + 1
      BY FS_AddElement, Zenon DEF Counted
    <2>4. QED
      BY <2>1, <2>2, <2>3 DEF Counted, Held, TypeOK
  <1>7. ChecksTimed'
    <2>1. check[r].started <= now /\ now <= check[r].started + CheckTimeout
      BY DEF ChecksTimed, TypeOK, Check, Running
    <2>2. QED
      BY <1>1, <1>2, <2>1 DEF ChecksTimed, Promise!PermittedSince, Promise!ForbiddenSince
  <1>8. PoliciesTimed'
    BY Zenon DEF PoliciesTimed, Promise!PermittedSince, Promise!ForbiddenSince
  <1>9. QED
    BY <1>3, <1>4, <1>5, <1>6, <1>7, <1>8, Zenon

(* Every step of authorizeBackend.                                         *)
LEMMA CheckStepInv ==
    ASSUME AuthInv, NEW r \in Runner, CheckStep(r)
    PROVE  AuthInv'
  <1> USE RelayAuthAssumption
  <1>0. check[r] \in Check /\ check[r].started \in Nat
    BY Zenon DEF AuthInv, TypeOK, Check
  <1>1. CASE CheckStart(r)
    <2> DEFINE k == [check[r] EXCEPT !.state = "asking", !.started = now]
    <2>1. check[r].started = now
      BY <1>1, Zenon DEF CheckStart, AuthInv, ChecksTimed
    <2>2. /\ k \in Check /\ k.state = "asking" /\ k.token = check[r].token
          /\ k.started = check[r].started
      BY <1>0, <2>1, Zenon DEF Check, Running
    <2>3. check' = [check EXCEPT ![r] = k]
      BY <1>1, Zenon DEF CheckStart
    <2>4. QED
      BY <1>1, <2>2, <2>3, OngoingInv, Zenon DEF CheckStart, Running
  <1>2. CASE CheckRefused(r)
    BY <1>2, EndCheckInv, Zenon DEF CheckRefused, Outcome, Answer, Supported, SlotReturned, Running
  <1>3. CASE Evaluate(r)
    <2> DEFINE a == IF permitted[check[r].token] THEN "ok" ELSE "denied"
               k == [check[r] EXCEPT !.state = "answered", !.answer = a]
    <2>1. a \in {"ok", "denied"}
      BY Zenon
    <2>2. check' = [check EXCEPT ![r].state = "answered", ![r].answer = a]
      BY <1>3, Zenon DEF Evaluate
    <2> HIDE DEF a
    <2>3. check' = [check EXCEPT ![r] = k]
      BY <2>2, Zenon
    <2>4. /\ k \in Check /\ k.state = "answered" /\ k.token = check[r].token
          /\ k.started = check[r].started /\ k.answer = a
      BY <1>0, <2>1, Zenon DEF Check, Running
    <2>5. k.answer = IF permitted[k.token] THEN "ok" ELSE "denied"
      BY <2>4, Zenon DEF a
    <2>6. QED
      BY <1>3, <2>3, <2>4, <2>5, OngoingInv, Zenon DEF Evaluate, Running
  <1>4. CASE Receive(r)
    <2>1. check[r].answer \in {"ok", "denied"}
      BY <1>0, Zenon DEF Check
    <2>2. Supported(r, check[r].answer)
      BY <1>4, Zenon DEF Receive, AuthInv, ChecksTimed, Supported
    <2>3. QED
      BY <1>4, <2>1, <2>2, EndCheckInv, Zenon DEF Receive, Release, Outcome, Answer, SlotReturned, Running
  <1>5. CASE Unusable(r)
    BY <1>5, EndCheckInv, Zenon DEF Unusable, Release, Outcome, Answer, Supported, SlotReturned, Running
  <1>6. CASE Transient(r)
    <2> DEFINE k == [check[r] EXCEPT !.state = "backoff"]
    <2>1. /\ k \in Check /\ k.state = "backoff" /\ k.token = check[r].token
          /\ k.started = check[r].started
      BY <1>0, Zenon DEF Check, Running
    <2>2. check' = [check EXCEPT ![r] = k]
      BY <1>6, Zenon DEF Transient
    <2>3. QED
      BY <1>6, <2>1, <2>2, OngoingInv, Zenon DEF Transient, Running
  <1>7. CASE GiveUp(r)
    BY <1>7, EndCheckInv, Zenon DEF GiveUp, Release, Outcome, Answer, Supported, SlotReturned, Running
  <1>8. CASE Retry(r)
    <2> DEFINE n == check[r].attempt + 1
               k == [check[r] EXCEPT !.state = "asking", !.attempt = n]
    <2>1. /\ k \in Check /\ k.state = "asking" /\ k.token = check[r].token
          /\ k.started = check[r].started
      <3>1. n \in Nat
        BY <1>0 DEF Check
      <3> HIDE DEF n
      <3>2. QED
        BY <1>0, <3>1, Zenon DEF Check, Running
    <2>2. check' = [check EXCEPT ![r] = k]
      BY <1>8, Zenon DEF Retry
    <2>3. QED
      BY <1>8, <2>1, <2>2, OngoingInv, Zenon DEF Retry, Running
  <1>9. CASE Timeout(r)
    BY <1>9, EndCheckInv, Zenon DEF Timeout, Release, Outcome, Answer, Supported, SlotReturned, Running
  <1>10. QED
    BY <1>1, <1>2, <1>3, <1>4, <1>5, <1>6, <1>7, <1>8, <1>9 DEF CheckStep

(* Every step of a call of authorize.                                      *)
LEMMA CallStepInv ==
    ASSUME AuthInv, NEW c \in Caller, CallStep(c)
    PROVE  AuthInv'
  <1>1. CASE \E t \in Token : \/ AuthorizeMalformed(c, t) \/ AuthorizeShared(c, t)
                              \/ AuthorizeNew(c, t) \/ AuthorizeUncached(c, t)
    BY <1>1, AuthorizeMalformedInv, AuthorizeSharedInv, AuthorizeNewInv, AuthorizeUncachedInv, Zenon
  <1>2. CASE Wake(c)
    <2>1. entry[call[c].entry].outcome \in Outcome
      BY <1>2, Zenon DEF Wake, AuthInv, TypeOK, CallsLinked, EntryState, Answer, Outcome
    <2>2. QED
      BY <1>2, <2>1, LeaveInv, Zenon DEF Wake
  <1>3. CASE CancelWaiting(c)
    BY <1>3, LeaveInv, Zenon DEF CancelWaiting, Outcome
  <1>4. CASE CancelBackend(c)
    BY <1>4, EndCheckInv, RelayAuthAssumption, Zenon
    DEF CancelBackend, Release, Outcome, Running, Runner, Supported, SlotReturned
  <1>5. CASE Done(c)
    BY <1>5, DoneInv, Zenon
  <1>6. QED
    BY <1>1, <1>2, <1>3, <1>4, <1>5, Zenon DEF CallStep

(* A second passes only when no check is overdue and no waiter is about to *)
(* run, so deadlines and fresh answers survive it.                         *)
LEMMA TickInv == AuthInv /\ Tick => AuthInv'
  <1> SUFFICES ASSUME AuthInv, Tick PROVE AuthInv'
    BY Zenon
  <1> USE RelayAuthAssumption DEF AuthInv
  <1>1. /\ now' = now + 1
        /\ UNCHANGED <<permitted, lastYes, lastNo, changes, policies, entry, check, authSlots,
                       call>>
    BY Zenon DEF Tick, policyVars
  <1>2. TypeOK'
    BY <1>1 DEF TypeOK
  <1>3. MapLinked' /\ CallsLinked' /\ Counted'
    BY <1>1, ZenonT(30) DEF MapLinked, CallsLinked, Counted, Referenced, Held, Checking
  <1>4. ChecksTimed'
    <2>1. \A r \in Runner :
            /\ check[r].state # "start"
            /\ check[r].state \in Running => now < check[r].started + CheckTimeout
      BY Zenon DEF Tick
    <2>2. \A r \in Runner : check[r].started \in Nat
      BY Zenon DEF TypeOK, Check
    <2>3. QED
      BY <1>1, <2>1, <2>2
      DEF ChecksTimed, TypeOK, Promise!PermittedSince, Promise!ForbiddenSince
  <1>5. PoliciesTimed'
    <2>1. \A c \in Caller : call[c].state = "waiting" => ~entry[call[c].entry].ready
      BY Zenon DEF Tick
    <2>2. \A e \in Entry : entry[e].expires \in Nat
      BY Zenon DEF TypeOK, EntryState
    <2>3. QED
      BY <1>1, <2>1, <2>2 DEF PoliciesTimed, TypeOK, Promise!PermittedSince
  <1>6. QED
    BY <1>2, <1>3, <1>4, <1>5

LEMMA AuthStutterInv == AuthInv /\ UNCHANGED vars => AuthInv'
  <1> SUFFICES ASSUME AuthInv, UNCHANGED vars PROVE AuthInv'
    BY Zenon
  <1> USE DEF AuthInv, vars
  <1>1. TypeOK' /\ MapLinked' /\ CallsLinked' /\ Counted'
    BY ZenonT(30) DEF TypeOK, MapLinked, CallsLinked, Counted, Referenced, Held, Checking
  <1>2. ChecksTimed' /\ PoliciesTimed'
    BY Zenon DEF ChecksTimed, PoliciesTimed, Promise!PermittedSince, Promise!ForbiddenSince
  <1>3. QED
    BY <1>1, <1>2, Zenon

LEMMA AuthNextInv == AuthInv /\ [Next]_vars => AuthInv'
  <1> SUFFICES ASSUME AuthInv, [Next]_vars PROVE AuthInv'
    BY Zenon
  <1>1. CASE PolicyStep
    BY <1>1, PolicyStepInv, Zenon
  <1>2. CASE \E c \in Caller : CallStep(c)
    BY <1>2, CallStepInv, Zenon
  <1>3. CASE \E r \in Runner : CheckStep(r)
    BY <1>3, CheckStepInv
  <1>4. CASE Tick
    BY <1>4, TickInv
  <1>5. CASE UNCHANGED vars
    BY <1>5, AuthStutterInv, Zenon
  <1>6. QED
    BY <1>1, <1>2, <1>3, <1>4, <1>5, Zenon DEF Next

(* The inductive invariant of the authorization cache (auth.go:23-157).    *)
THEOREM AuthInvariant == Spec => []AuthInv
  BY AuthInitInv, AuthNextInv, PTL DEF Spec

(* Type correctness of the cache, its entries, checks and calls.           *)
THEOREM AuthTypeCorrect == Spec => []TypeOK
  <1>1. AuthInv => TypeOK
    BY Zenon DEF AuthInv
  <1>2. QED
    BY <1>1, AuthInvariant, PTL

(* However many callers, tokens and checks there are: a check in flight is *)
(* the one the map holds for its token, no failure is cached, the map and  *)
(* the slots stay within their limits, and every slot is held by a check   *)
(* that runs (authorize and authorizeBackend, auth.go:23-100).             *)
THEOREM CacheSoundTheorem == Spec => []CacheSound
  <1>1. AuthInv => CacheSound
    BY Zenon DEF AuthInv, CacheSound, MapLinked, Counted, Checking
  <1>2. QED
    BY <1>1, AuthInvariant, PTL

(* No waiter is stranded on an entry that nobody is checking, whatever the *)
(* map drops, replaces or fails (authorize, auth.go:33-78).                *)
THEOREM WaitersServedTheorem == Spec => []WaitersServed
  <1>1. AuthInv => WaitersServed
    BY Zenon DEF AuthInv, WaitersServed, CallsLinked
  <1>2. QED
    BY <1>1, AuthInvariant, PTL

-----------------------------------------------------------------------------
(* The refinement.  A step that leaves the calls alone is a stutter for    *)
(* Authorizer; one that moves a single call is judged by that call.        *)
LEMMA SameCalls == call' = call => AbstractCall' = AbstractCall
  BY Zenon DEF AbstractCall

LEMMA OneCall ==
    ASSUME NEW c \in Caller, \A b \in Caller \ {c} : call'[b] = call[b]
    PROVE  AbstractCall' = [AbstractCall EXCEPT ![c] =
               [state |-> AbstractState(call'[c].state), token |-> call'[c].token,
                began |-> call'[c].began]]
  BY Zenon DEF AbstractCall

LEMMA OneReturn ==
    ASSUME NEW c \in Caller, NEW outcome \in Outcome,
           \A b \in Caller \ {c} : call'[b] = call[b],
           call'[c].state = outcome, call'[c].token = call[c].token,
           call'[c].began = call[c].began
    PROVE  AbstractCall' = [AbstractCall EXCEPT ![c].state = outcome]
  <1>1. AbstractState(outcome) = outcome
    BY Zenon DEF AbstractState, Outcome
  <1>2. QED
    BY <1>1, Zenon DEF AbstractCall

(* What a call may return, from what its check or its entry says.          *)
LEMMA MayReturnFromCheck ==
    ASSUME AuthInv, NEW r \in Caller, NEW outcome \in Outcome, check[r].state # "none",
           Supported(r, outcome)
    PROVE  Promise!MayReturn(call[r].token, outcome)
  <1> USE RelayAuthAssumption DEF AuthInv
  <1>1. /\ check[r].token = call[r].token /\ call[r].token \in Token
        /\ check[r].started \in Nat /\ now \in Nat
        /\ now <= check[r].started + CheckTimeout
    BY DEF CallsLinked, ChecksTimed, TypeOK, Check, Running, Runner
  <1>2. Promise!PolicyAge \in Nat /\ Promise!PolicyAge >= CheckTimeout
    BY DEF Promise!PolicyAge
  <1>3. lastYes[call[r].token] \in Int /\ lastNo[call[r].token] \in Int
    BY <1>1, Zenon DEF TypeOK
  <1>4. QED
    BY <1>1, <1>2, <1>3
    DEF Supported, Promise!MayReturn, Promise!PermittedSince, Promise!ForbiddenSince

LEMMA MayReturnFromEntry ==
    ASSUME AuthInv, NEW c \in Caller, call[c].state = "waiting", entry[call[c].entry].ready
    PROVE  Promise!MayReturn(call[c].token, entry[call[c].entry].outcome)
  <1> USE RelayAuthAssumption DEF AuthInv
  <1>1. /\ call[c].entry \in Entry /\ call[c].token \in Token /\ TTL > 0
        /\ entry[call[c].entry].expires \in Nat /\ now \in Nat
    BY Zenon DEF CallsLinked, TypeOK, EntryState
  <1>2. Promise!PolicyAge = TTL + CheckTimeout - 1
    BY <1>1, Zenon DEF Promise!PolicyAge
  <1>3. lastYes[call[c].token] \in Int /\ lastNo[call[c].token] \in Int
    BY <1>1, Zenon DEF TypeOK
  <1>4. CASE entry[call[c].entry].outcome = "ok"
    <2>1. /\ now < entry[call[c].entry].expires
          /\ Promise!PermittedSince(call[c].token,
                                    entry[call[c].entry].expires - (TTL + CheckTimeout))
      BY <1>4, Zenon DEF PoliciesTimed
    <2>2. Promise!PermittedSince(call[c].token, now - Promise!PolicyAge)
      BY <1>1, <1>2, <1>3, <2>1 DEF Promise!PermittedSince
    <2>3. QED
      BY <1>4, <2>2, Zenon DEF Promise!MayReturn
  <1>5. CASE entry[call[c].entry].outcome = "denied"
    <2>1. Promise!ForbiddenSince(call[c].token, now - CheckTimeout)
      BY <1>5, Zenon DEF PoliciesTimed
    <2>2. QED
      BY <1>5, <2>1, Zenon DEF Promise!MayReturn
  <1>6. QED
    BY <1>4, <1>5, Zenon DEF Promise!MayReturn

LEMMA EndCheckRefines ==
    ASSUME AuthInv, NEW r \in Runner, NEW outcome \in Outcome, check[r].state # "none",
           Supported(r, outcome),
           EndCheck(r, outcome)
    PROVE  Promise!Next \/ UNCHANGED Promise!vars
  <1> USE RelayAuthAssumption
  <1>1. CASE r \in Entry /\ Publish(r, outcome)
    BY <1>1, SameCalls DEF EndCheck, Publish, policyVars, Promise!vars
  <1>2. CASE r \in Caller /\ call' = [call EXCEPT ![r].state = outcome]
    <2>1. /\ call'[r].state = outcome /\ call'[r].token = call[r].token
          /\ call'[r].began = call[r].began
          /\ \A b \in Caller \ {r} : call'[b] = call[b]
      BY <1>2 DEF AuthInv, TypeOK, Call
    <2>2. AbstractCall' = [AbstractCall EXCEPT ![r].state = outcome]
      BY <1>2, <2>1, OneReturn, Zenon
    <2>3. AbstractCall[r].state = "busy" /\ AbstractCall[r].token = call[r].token
      BY <1>2, Zenon DEF AuthInv, CallsLinked, AbstractCall, AbstractState
    <2>4. Promise!MayReturn(call[r].token, outcome)
      BY <1>2, MayReturnFromCheck, Zenon
    <2>5. Promise!Return(r, outcome)
      BY <2>2, <2>3, <2>4 DEF Promise!Return, EndCheck, policyVars
    <2>6. QED
      BY <1>2, <2>5, Zenon DEF Promise!Next, Promise!Outcome, Outcome
  <1>3. QED
    BY <1>1, <1>2 DEF EndCheck

LEMMA LeaveRefines ==
    ASSUME AuthInv, NEW c \in Caller, NEW outcome \in Outcome, call[c].state = "waiting",
           call' = [call EXCEPT ![c].state = outcome, ![c].entry = NoEntry],
           UNCHANGED <<now, policyVars>>,
           Promise!MayReturn(call[c].token, outcome)
    PROVE  Promise!Next
  <1>1. /\ call'[c].state = outcome /\ call'[c].token = call[c].token
        /\ call'[c].began = call[c].began
        /\ \A b \in Caller \ {c} : call'[b] = call[b]
    BY Zenon DEF AuthInv, TypeOK, Call
  <1>2. AbstractCall' = [AbstractCall EXCEPT ![c].state = outcome]
    BY <1>1, OneReturn, Zenon
  <1>3. AbstractCall[c].state = "busy" /\ AbstractCall[c].token = call[c].token
    BY Zenon DEF AbstractCall, AbstractState
  <1>4. Promise!Return(c, outcome)
    BY <1>2, <1>3, Zenon DEF Promise!Return, policyVars
  <1>5. QED
    BY <1>4, Zenon DEF Promise!Next, Promise!Outcome, Outcome

LEMMA BeginRefines ==
    ASSUME AuthInv, NEW c \in Caller, NEW t \in Token, NEW s \in {"waiting", "backend"},
           NEW e \in Entry \cup {NoEntry}, call[c].state = "idle",
           call' = [call EXCEPT ![c] = NewCall(s, t, e)],
           UNCHANGED <<now, policyVars>>
    PROVE  Promise!Next
  <1>1. /\ call'[c].state = s /\ call'[c].token = t /\ call'[c].began = now
        /\ \A b \in Caller \ {c} : call'[b] = call[b]
    BY Zenon DEF AuthInv, TypeOK, NewCall
  <1>2. AbstractState(s) = "busy" /\ AbstractCall[c].state = "idle"
    BY Zenon DEF AbstractState, AbstractCall
  <1>3. AbstractCall' = [AbstractCall EXCEPT ![c] = [state |-> "busy", token |-> t,
                                                     began |-> now]]
    BY <1>1, <1>2, OneCall
  <1>4. Promise!Begin(c, t)
    BY <1>2, <1>3, Zenon DEF Promise!Begin, policyVars
  <1>5. QED
    BY <1>4, Zenon DEF Promise!Next

LEMMA CallStepRefines ==
    ASSUME AuthInv, NEW c \in Caller, CallStep(c)
    PROVE  Promise!Next \/ UNCHANGED Promise!vars
  <1> USE RelayAuthAssumption
  <1>1. ASSUME NEW t \in Token, AuthorizeMalformed(c, t) PROVE Promise!Next
    <2>1. /\ call'[c].state = "denied" /\ call'[c].token = t /\ call'[c].began = now
          /\ \A b \in Caller \ {c} : call'[b] = call[b]
      BY <1>1, Zenon DEF AuthorizeMalformed, AuthInv, TypeOK, NewCall
    <2>2. AbstractState("denied") = "denied" /\ AbstractCall[c].state = "idle"
      BY <1>1, Zenon DEF AuthorizeMalformed, AbstractState, AbstractCall
    <2>3. AbstractCall' = [AbstractCall EXCEPT ![c] = [state |-> "denied", token |-> t,
                                                       began |-> now]]
      BY <2>1, <2>2, OneCall, Zenon
    <2>4. Promise!Refuse(c, t)
      BY <1>1, <2>2, <2>3, Zenon DEF AuthorizeMalformed, Promise!Refuse, policyVars
    <2>5. QED
      BY <2>4, Zenon DEF Promise!Next
  <1>2. ASSUME NEW t \in Token, AuthorizeShared(c, t) PROVE Promise!Next
    BY <1>2, BeginRefines, Zenon DEF AuthorizeShared, AuthInv, TypeOK
  <1>3. ASSUME NEW t \in Token, AuthorizeNew(c, t) PROVE Promise!Next
    BY <1>3, BeginRefines, Zenon DEF AuthorizeNew
  <1>4. ASSUME NEW t \in Token, AuthorizeUncached(c, t) PROVE Promise!Next
    BY <1>4, BeginRefines, Zenon DEF AuthorizeUncached
  <1>5. CASE Wake(c)
    <2>1. entry[call[c].entry].outcome \in Outcome
      BY <1>5, Zenon DEF Wake, AuthInv, TypeOK, CallsLinked, EntryState, Answer, Outcome
    <2>2. QED
      BY <1>5, <2>1, LeaveRefines, MayReturnFromEntry, Zenon DEF Wake
  <1>6. CASE CancelWaiting(c)
    <2>1. Promise!MayReturn(call[c].token, "cancelled")
      BY Zenon DEF Promise!MayReturn
    <2>2. QED
      BY <1>6, <2>1, LeaveRefines, Zenon DEF CancelWaiting, Outcome
  <1>7. CASE CancelBackend(c)
    BY <1>7, EndCheckRefines, Zenon DEF CancelBackend, Outcome, Running, Runner, Supported
  <1>8. CASE Done(c)
    <2>1. /\ call'[c].state = "idle" /\ call'[c].token = NoToken /\ call'[c].began = 0
          /\ \A b \in Caller \ {c} : call'[b] = call[b]
      BY <1>8, Zenon DEF Done, AuthInv, TypeOK, NoCall
    <2>2. AbstractState("idle") = "idle" /\ AbstractCall[c].state \in Promise!Outcome
      BY <1>8, Zenon DEF Done, AbstractState, AbstractCall, Outcome, Promise!Outcome
    <2>3. AbstractCall' = [AbstractCall EXCEPT ![c] = Promise!NoCall]
      BY <2>1, <2>2, OneCall, Zenon DEF Promise!NoCall
    <2>4. Promise!Done(c)
      BY <1>8, <2>2, <2>3, Zenon DEF Done, Promise!Done, policyVars
    <2>5. QED
      BY <2>4, Zenon DEF Promise!Next
  <1>9. QED
    BY <1>1, <1>2, <1>3, <1>4, <1>5, <1>6, <1>7, <1>8 DEF CallStep

LEMMA CheckStepRefines ==
    ASSUME AuthInv, NEW r \in Runner, CheckStep(r)
    PROVE  Promise!Next \/ UNCHANGED Promise!vars
  <1>1. CASE CheckStart(r) \/ Evaluate(r) \/ Transient(r) \/ Retry(r)
    BY <1>1, SameCalls
    DEF CheckStart, Evaluate, Transient, Retry, policyVars, Promise!vars
  <1>2. CASE Receive(r)
    <2>1. check[r].answer \in {"ok", "denied"}
      BY Zenon DEF AuthInv, TypeOK, Check
    <2>2. Supported(r, check[r].answer)
      BY <1>2, Zenon DEF Receive, AuthInv, ChecksTimed, Supported
    <2>3. QED
      BY <1>2, <2>1, <2>2, EndCheckRefines DEF Receive, Outcome
  <1>3. CASE CheckRefused(r) \/ Unusable(r) \/ GiveUp(r) \/ Timeout(r)
    BY <1>3, EndCheckRefines, Zenon
    DEF CheckRefused, Unusable, GiveUp, Timeout, Outcome, Running, Supported
  <1>4. QED
    BY <1>1, <1>2, <1>3 DEF CheckStep

(* The clock of the cache waits for a call at least as long as Authorizer  *)
(* promises: a busy call's check started no later than the call.           *)
LEMMA TickRefines == AuthInv /\ Tick => Promise!Next
  <1> SUFFICES ASSUME AuthInv, Tick PROVE Promise!Next
    BY Zenon
  <1> USE RelayAuthAssumption DEF AuthInv
  <1>1. ASSUME NEW c \in Caller, AbstractCall[c].state = "busy"
        PROVE  now < AbstractCall[c].began + CheckTimeout
    <2>1. call[c].state \in {"waiting", "backend"} /\ AbstractCall[c].began = call[c].began
      BY <1>1, Zenon DEF AbstractCall, AbstractState, TypeOK, Call, CallState, Outcome
    <2>2. PICK r \in Runner : check[r].state # "none" /\ check[r].started <= call[c].began
      <3>1. CASE call[c].state = "waiting"
        BY <3>1, Zenon DEF CallsLinked, Tick, Runner
      <3>2. CASE call[c].state = "backend"
        BY <3>2, Zenon DEF CallsLinked, Runner
      <3>3. QED
        BY <2>1, <3>1, <3>2, Zenon
    <2>3. check[r].started \in Nat /\ call[c].began \in Nat /\ now \in Nat
          /\ now < check[r].started + CheckTimeout
      BY <2>2, Zenon DEF Tick, TypeOK, Check, Call, Running
    <2>4. QED
      BY <2>1, <2>2, <2>3
  <1>2. AbstractCall' = AbstractCall
    BY SameCalls, Zenon DEF Tick
  <1>3. Promise!Tick
    BY <1>1, <1>2, Zenon DEF Tick, Promise!Tick, policyVars
  <1>4. QED
    BY <1>3, Zenon DEF Promise!Next

LEMMA InitRefines == Init => Promise!Init
  <1> SUFFICES ASSUME Init PROVE Promise!Init
    BY Zenon
  <1>1. AbstractCall = [c \in Caller |-> Promise!NoCall]
    BY Zenon DEF Init, AbstractCall, AbstractState, NoCall, Promise!NoCall
  <1>2. QED
    BY <1>1, Zenon DEF Init, Promise!Init, Never, Promise!Never

LEMMA StepRefines == AuthInv /\ [Next]_vars => [Promise!Next]_(Promise!vars)
  <1> SUFFICES ASSUME AuthInv, [Next]_vars PROVE Promise!Next \/ UNCHANGED Promise!vars
    BY Zenon
  <1>1. CASE PolicyStep
    <2>1. PICK t \in Token : Grant(t) \/ Revoke(t)
      BY <1>1, Zenon DEF PolicyStep
    <2>2. AbstractCall' = AbstractCall
      BY <2>1, SameCalls, Zenon DEF Grant, Revoke
    <2>3. Promise!Grant(t) \/ Promise!Revoke(t)
      BY <2>1, <2>2, Zenon DEF Grant, Revoke, Promise!Grant, Promise!Revoke
    <2>4. QED
      BY <2>3, Zenon DEF Promise!Next
  <1>2. CASE \E c \in Caller : CallStep(c)
    BY <1>2, CallStepRefines, Zenon
  <1>3. CASE \E r \in Runner : CheckStep(r)
    BY <1>3, CheckStepRefines, Zenon
  <1>4. CASE Tick
    BY <1>4, TickRefines, Zenon
  <1>5. CASE UNCHANGED vars
    BY <1>5, SameCalls, Zenon DEF vars, Promise!vars
  <1>6. QED
    BY <1>1, <1>2, <1>3, <1>4, <1>5, Zenon DEF Next

(* Refinement, for any cache size, number of slots, callers and timings:   *)
(* what authorize returns, and when, is what Authorizer promises, so the   *)
(* bounds proved of the watcher rest on the cache (auth.go:23-157).        *)
THEOREM ImplementsAuthorizerTheorem == Spec => ImplementsAuthorizer
  <1>1. Spec => Promise!Init /\ [][Promise!Next]_(Promise!vars)
    BY InitRefines, StepRefines, AuthInvariant, PTL DEF Spec
  <1>2. QED
    BY <1>1, Zenon DEF ImplementsAuthorizer, Promise!Spec
=============================================================================
