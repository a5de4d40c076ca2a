----------------------------- MODULE RelayProofs -----------------------------
(***************************************************************************)
(* The inductive invariant of the relay's authorization cache, for any     *)
(* callers, tokens, entries, slots, time to live and check timeout: it     *)
(* ties the three references to an entry (the map, its goroutine, its      *)
(* waiters) together, and dates every answer.  This module shows that it   *)
(* holds at the start and that the steps of the callers preserve it;       *)
(* AuthorizerProofs does the checks and the clock, and has the theorems.   *)
(* Two sections follow: the race of RelayDial, for any addresses, and the  *)
(* backups of Archives, for any number of files kept.                      *)
(***************************************************************************)
EXTENDS RelayAuth, RelayDial, Archives, FiniteSetTheorems, TLAPS

-----------------------------------------------------------------------------
(* The checks that hold a slot.                                            *)
Checking == {r \in Runner : check[r].state \in Running}

(* The map and the goroutines name each other: a check in flight is the    *)
(* one the map holds for its token, an entry of the map is a policy or is  *)
(* in flight, and it serves one token.  What nothing refers to is unused.  *)
MapLinked ==
    /\ \A e \in Entry : check[e].state # "none" =>
        check[e].token \in WellFormed /\ policies[check[e].token] = e /\ ~entry[e].ready
    /\ \A t \in Token : policies[t] # NoEntry =>
        /\ TTL > 0
        /\ IF entry[policies[t]].ready
           THEN entry[policies[t]].outcome = "ok"
           ELSE check[policies[t]].state # "none" /\ check[policies[t]].token = t
    /\ \A t, u \in Token : policies[t] # NoEntry /\ policies[t] = policies[u] => t = u
    /\ \A e \in Entry : ~Referenced(e) => entry[e] = FreshEntry

(* A busy call hangs on a check of its own token that started no later.    *)
CallsLinked ==
    \A c \in Caller :
        /\ call[c].state = "waiting" =>
            /\ call[c].entry \in Entry
            /\ call[c].token \in WellFormed
            /\ TTL > 0
            /\ ~entry[call[c].entry].ready =>
                /\ check[call[c].entry].state # "none"
                /\ check[call[c].entry].token = call[c].token
                /\ check[call[c].entry].started <= call[c].began
        /\ call[c].state = "backend" <=> check[c].state # "none"
        /\ check[c].state # "none" =>
            /\ check[c].token \in WellFormed
            /\ check[c].token = call[c].token
            /\ check[c].started <= call[c].began

Counted ==
    /\ IsFiniteSet(Held(policies))
    /\ Cardinality(Held(policies)) <= MaxPolicies
    /\ IsFiniteSet(Checking)
    /\ authSlots = Cardinality(Checking)
    /\ authSlots <= MaxAuthChecks

(* A check never outlives its deadline, and the answer it has received was *)
(* true at some instant since it started.                                  *)
ChecksTimed ==
    \A r \in Runner :
        /\ check[r].state = "start" => check[r].started = now
        /\ check[r].state \in Running =>
            check[r].started <= now /\ now <= check[r].started + CheckTimeout
        /\ check[r].state = "answered" =>
            /\ check[r].answer = "ok" =>
                Promise!PermittedSince(check[r].token, check[r].started)
            /\ check[r].answer = "denied" =>
                Promise!ForbiddenSince(check[r].token, check[r].started)

(* A policy was true since its check started; a waiter that is being woken *)
(* finds it unexpired, because no time passes before it runs.              *)
PoliciesTimed ==
    /\ \A e \in Entry : entry[e].expires <= now + TTL
    /\ \A t \in Token : policies[t] # NoEntry /\ entry[policies[t]].ready =>
        Promise!PermittedSince(t, entry[policies[t]].expires - (TTL + CheckTimeout))
    /\ \A c \in Caller : call[c].state = "waiting" /\ entry[call[c].entry].ready =>
        /\ entry[call[c].entry].outcome = "ok" =>
            /\ now < entry[call[c].entry].expires
            /\ Promise!PermittedSince(call[c].token,
                                      entry[call[c].entry].expires - (TTL + CheckTimeout))
        /\ entry[call[c].entry].outcome = "denied" =>
            Promise!ForbiddenSince(call[c].token, now - CheckTimeout)

AuthInv == TypeOK /\ MapLinked /\ CallsLinked /\ Counted /\ ChecksTimed /\ PoliciesTimed

-----------------------------------------------------------------------------
LEMMA AuthInitInv == Init => AuthInv
  <1> SUFFICES ASSUME Init PROVE AuthInv
    BY Zenon
  <1> USE RelayAuthAssumption DEF Init
  <1>1. NoCheck \in Check /\ NoCall \in Call /\ FreshEntry \in EntryState /\ Never \in Int
    BY DEF NoCheck, Check, NoCall, Call, CallState, FreshEntry, EntryState, Answer, Never
  <1>2. TypeOK
    BY <1>1, Zenon DEF TypeOK
  <1>3. /\ \A r \in Runner : check[r].state = "none"
        /\ \A c \in Caller : call[c].state = "idle"
        /\ \A e \in Entry : entry[e] = FreshEntry /\ ~entry[e].ready /\ entry[e].expires = 0
    BY Zenon DEF NoCheck, NoCall, FreshEntry
  <1>4. MapLinked /\ CallsLinked /\ ChecksTimed /\ PoliciesTimed
    BY <1>3 DEF MapLinked, CallsLinked, ChecksTimed, PoliciesTimed, Runner, Running
  <1>5. Held(policies) = {} /\ Checking = {}
    BY <1>3, Zenon DEF Held, Checking, Running
  <1>6. Counted
    BY <1>5, FS_EmptySet DEF Counted
  <1>7. QED
    BY <1>2, <1>4, <1>6, Zenon DEF AuthInv

(* Granting or withdrawing access rewrites no answer already given: it     *)
(* dates the change, and every answer in the cache is older.               *)
LEMMA PolicyStepInv == AuthInv /\ PolicyStep => AuthInv'
  <1> SUFFICES ASSUME AuthInv, NEW t \in Token, Grant(t) \/ Revoke(t) PROVE AuthInv'
    BY Zenon DEF PolicyStep
  <1> USE RelayAuthAssumption DEF AuthInv, Grant, Revoke
  <1>1. UNCHANGED <<now, policies, entry, check, authSlots, call>>
    BY Zenon
  <1>2. TypeOK'
    <2>1. permitted' \in [Token -> BOOLEAN]
      BY Zenon DEF TypeOK
    <2>2. lastYes' \in [Token -> Int] /\ lastNo' \in [Token -> Int] /\ changes' \in Nat
      BY DEF TypeOK
    <2>3. QED
      BY <1>1, <2>1, <2>2, Zenon DEF TypeOK
  <1>3. MapLinked' /\ CallsLinked' /\ Counted'
    BY <1>1 DEF MapLinked, CallsLinked, Counted, Referenced, Held, Checking
  <1>4. \A u \in Token : \A x \in Int : x <= now =>
          /\ Promise!PermittedSince(u, x) => Promise!PermittedSince(u, x)'
          /\ Promise!ForbiddenSince(u, x) => Promise!ForbiddenSince(u, x)'
    BY DEF TypeOK, Promise!PermittedSince, Promise!ForbiddenSince
  <1>5. ChecksTimed'
    BY <1>1, <1>4 DEF ChecksTimed, TypeOK, Check, CallsLinked, MapLinked, Runner, Running
  <1>6. PoliciesTimed'
    <2>1. \A e \in Entry : entry[e].expires \in Nat
      BY Zenon DEF TypeOK, EntryState
    <2>2. \A e \in Entry : entry[e].expires - (TTL + CheckTimeout) \in Int
                          /\ entry[e].expires - (TTL + CheckTimeout) <= now
      BY <2>1 DEF PoliciesTimed, TypeOK
    <2>3. now - CheckTimeout \in Int /\ now - CheckTimeout <= now
      BY DEF TypeOK
    <2>4. \A u \in Token : policies[u] # NoEntry => policies[u] \in Entry
      BY Zenon DEF TypeOK
    <2>5. QED
      BY <1>1, <1>4, <2>2, <2>3, <2>4, Zenon DEF PoliciesTimed, CallsLinked
  <1>7. QED
    BY <1>2, <1>3, <1>5, <1>6, Zenon

(* Garbage collection keeps what is referenced and resets the rest.        *)
LEMMA CollectedProperties ==
    ASSUME NEW heap \in [Entry -> EntryState], entry' = Collected(heap)
    PROVE  /\ entry' \in [Entry -> EntryState]
           /\ \A e \in Entry : Referenced(e)' => entry'[e] = heap[e]
           /\ \A e \in Entry : ~Referenced(e)' => entry'[e] = FreshEntry
  <1>1. FreshEntry \in EntryState
    BY Zenon DEF FreshEntry, EntryState, Answer
  <1>2. entry' = [e \in Entry |-> IF Referenced(e)' THEN heap[e] ELSE FreshEntry]
    BY Zenon DEF Collected
  <1>3. QED
    BY <1>1, <1>2, Zenon

(* Sweeping a full map drops published entries only, never one in flight.  *)
LEMMA RoomProperties ==
    ASSUME AuthInv
    PROVE  /\ Room(policies) \in [Token -> Entry \cup {NoEntry}]
           /\ \A t \in Token :
                \/ Room(policies)[t] = policies[t]
                \/ /\ Room(policies)[t] = NoEntry
                   /\ policies[t] \in Entry
                   /\ entry[policies[t]].ready
           /\ IsFiniteSet(Held(Room(policies)))
           /\ Cardinality(Held(Room(policies))) \in Nat
           /\ Cardinality(Held(Room(policies))) <= MaxPolicies
  <1> USE RelayAuthAssumption
  <1>1. /\ Room(policies) \in [Token -> Entry \cup {NoEntry}]
        /\ \A t \in Token :
                \/ Room(policies)[t] = policies[t]
                \/ /\ Room(policies)[t] = NoEntry
                   /\ policies[t] \in Entry
                   /\ entry[policies[t]].ready
    BY Zenon DEF AuthInv, TypeOK, Room, Swept, Expired
  <1>2. Held(Room(policies)) \in SUBSET Held(policies)
    BY <1>1, Zenon DEF Held
  <1>3. IsFiniteSet(Held(policies)) /\ Cardinality(Held(policies)) <= MaxPolicies
    BY Zenon DEF AuthInv, Counted
  <1>4. /\ IsFiniteSet(Held(Room(policies)))
        /\ Cardinality(Held(Room(policies))) <= Cardinality(Held(policies))
    BY <1>2, <1>3, FS_Subset, Zenon
  <1>5. Cardinality(Held(policies)) \in Nat /\ Cardinality(Held(Room(policies))) \in Nat
    BY <1>3, <1>4, FS_CardinalityType, Zenon
  <1>6. QED
    BY <1>1, <1>3, <1>4, <1>5

(* A call that is not busy and does not become so is no concern of the     *)
(* cache: a malformed credential, or a caller taking its result.           *)
LEMMA IdleCallInv ==
    ASSUME AuthInv, NEW c \in Caller, NEW n \in Call,
           call[c].state \notin {"waiting", "backend"},
           n.state \notin {"waiting", "backend"},
           call' = [call EXCEPT ![c] = n],
           UNCHANGED <<now, policyVars, policies, entry, check, authSlots>>
    PROVE  AuthInv'
  <1> USE RelayAuthAssumption DEF AuthInv, policyVars
  <1>1. TypeOK'
    BY Zenon DEF TypeOK
  <1>2. \A b \in Caller : \/ call'[b] = call[b]
                          \/ /\ b = c
                             /\ call'[b].state \notin {"waiting", "backend"}
    BY Zenon DEF TypeOK
  <1>3. \A e \in Entry : Referenced(e)' <=> Referenced(e)
    BY <1>2, Zenon DEF Referenced
  <1>4. MapLinked'
    BY <1>3 DEF MapLinked
  <1>5. CallsLinked'
    BY <1>2 DEF CallsLinked
  <1>6. Counted' /\ ChecksTimed'
    BY Zenon DEF Counted, Held, Checking, ChecksTimed, Promise!PermittedSince, Promise!ForbiddenSince
  <1>7. PoliciesTimed'
    BY <1>2 DEF PoliciesTimed, Promise!PermittedSince, Promise!ForbiddenSince
  <1>8. QED
    BY <1>1, <1>4, <1>5, <1>6, <1>7

LEMMA AuthorizeMalformedInv ==
    ASSUME AuthInv, NEW c \in Caller, NEW t \in Token, AuthorizeMalformed(c, t)
    PROVE  AuthInv'
  <1>1. NewCall("denied", t, NoEntry) \in Call /\ NewCall("denied", t, NoEntry).state = "denied"
    BY Zenon DEF NewCall, Call, CallState, Outcome, AuthInv, TypeOK
  <1>2. QED
    BY <1>1, IdleCallInv, Zenon DEF AuthorizeMalformed

LEMMA DoneInv ==
    ASSUME AuthInv, NEW c \in Caller, Done(c)
    PROVE  AuthInv'
  <1>1. NoCall \in Call /\ NoCall.state = "idle"
    BY Zenon DEF NoCall, Call, CallState
  <1>2. QED
    BY <1>1, IdleCallInv, Zenon DEF Done, Outcome

(* Joining an entry that is in flight or holds an unexpired policy.        *)
LEMMA AuthorizeSharedInv ==
    ASSUME AuthInv, NEW c \in Caller, NEW t \in Token, AuthorizeShared(c, t)
    PROVE  AuthInv'
  <1> USE RelayAuthAssumption DEF AuthInv, policyVars
  <1> DEFINE e == policies[t]
             n == [state |-> "waiting", token |-> t, entry |-> e, began |-> now]
  <1>1. /\ call[c].state = "idle"
        /\ t \in WellFormed
        /\ TTL > 0
        /\ e \in Entry
        /\ entry[e].ready => now < entry[e].expires
        /\ call' = [call EXCEPT ![c] = n]
        /\ UNCHANGED <<now, permitted, lastYes, lastNo, changes, policies, entry, check, authSlots>>
    BY Zenon DEF AuthorizeShared, NewCall, Usable, TypeOK
  <1>2. TypeOK'
    BY <1>1, Zenon DEF TypeOK, Call, CallState
  <1>3. call'[c] = n /\ \A b \in Caller : b # c => call'[b] = call[b]
    BY <1>1, Zenon DEF TypeOK
  <1>4. \A d \in Entry : Referenced(d) => Referenced(d)'
    BY <1>1, <1>3 DEF Referenced
  <1>5. MapLinked'
    BY <1>1, <1>4, Zenon DEF MapLinked
  <1>6. CallsLinked'
    <2>1. ~entry[e].ready => check[e].state # "none" /\ check[e].token = t
      BY <1>1 DEF MapLinked
    <2>2. check[e].state # "none" => check[e].started <= now
      BY <1>1 DEF ChecksTimed, TypeOK, Check, Runner, Running
    <2>3. QED
      BY <1>1, <1>3, <2>1, <2>2 DEF CallsLinked
  <1>7. Counted' /\ ChecksTimed'
    BY <1>1, Zenon DEF Counted, Held, Checking, ChecksTimed,
                Promise!PermittedSince, Promise!ForbiddenSince
  <1>8. PoliciesTimed'
    <2>1. entry[e].ready => /\ entry[e].outcome = "ok"
                            /\ Promise!PermittedSince(t, entry[e].expires - (TTL + CheckTimeout))
      BY <1>1 DEF MapLinked, PoliciesTimed
    <2>2. QED
      BY <1>1, <1>3, <2>1, SMTT(30) DEF PoliciesTimed, Promise!PermittedSince, Promise!ForbiddenSince
  <1>9. QED
    BY <1>2, <1>5, <1>6, <1>7, <1>8

LEMMA NewCheckProperties ==
    ASSUME AuthInv, NEW t \in Token
    PROVE  /\ NewCheck(t) \in Check
           /\ NewCheck(t).state = "start" /\ NewCheck(t).token = t /\ NewCheck(t).started = now
  BY RelayAuthAssumption, Zenon DEF NewCheck, NoCheck, Check, AuthInv, TypeOK

(* A new entry is one nothing refers to, so it carries nothing over from   *)
(* its last use; the map gains it within its limit.                        *)
LEMMA AuthorizeNewInv ==
    ASSUME AuthInv, NEW c \in Caller, NEW t \in Token, AuthorizeNew(c, t)
    PROVE  AuthInv'
  <1> USE RelayAuthAssumption DEF AuthInv, policyVars
  <1> DEFINE p == Room(policies)
             k == NewCheck(t)
  <1>1. PICK e \in Entry :
        /\ ~Referenced(e)
        /\ policies' = [p EXCEPT ![t] = e]
        /\ check' = [check EXCEPT ![e] = k]
        /\ call' = [call EXCEPT ![c] = [state |-> "waiting", token |-> t, entry |-> e,
                                        began |-> now]]
    BY Zenon DEF AuthorizeNew, NewCall
  <1>2. /\ call[c].state = "idle"
        /\ t \in WellFormed
        /\ TTL > 0
        /\ ~Usable(policies[t])
        /\ ~Full(p)
        /\ entry' = Collected(entry)
        /\ UNCHANGED <<now, permitted, lastYes, lastNo, changes, authSlots>>
    BY Zenon DEF AuthorizeNew
  <1>3. /\ p \in [Token -> Entry \cup {NoEntry}]
        /\ \A u \in Token : \/ p[u] = policies[u]
                            \/ p[u] = NoEntry /\ policies[u] \in Entry /\ entry[policies[u]].ready
        /\ IsFiniteSet(Held(p))
        /\ Cardinality(Held(p)) \in Nat
    BY RoomProperties
  <1>4. /\ policies'[t] = e /\ \A u \in Token : u # t => policies'[u] = p[u]
        /\ check'[e] = k /\ k.state = "start" /\ k.token = t /\ k.started = now
        /\ \A r \in Runner : r # e => check'[r] = check[r]
        /\ call'[c].state = "waiting" /\ call'[c].token = t /\ call'[c].entry = e
        /\ call'[c].began = now
        /\ \A b \in Caller : b # c => call'[b] = call[b]
    BY <1>1, <1>3, NewCheckProperties DEF TypeOK, Runner
  <1> HIDE DEF k, p
  <1>5. /\ entry' \in [Entry -> EntryState]
        /\ \A d \in Entry : Referenced(d)' => entry'[d] = entry[d]
        /\ \A d \in Entry : ~Referenced(d)' => entry'[d] = FreshEntry
    BY <1>2, CollectedProperties, Zenon DEF TypeOK
  <1>6. /\ check[e].state = "none"
        /\ \A u \in Token : policies[u] # e
        /\ \A b \in Caller : call[b].state = "waiting" => call[b].entry # e
        /\ entry[e] = FreshEntry
    BY <1>1, Zenon DEF Referenced, MapLinked
  <1>7. /\ \A d \in Entry : check'[d].state # "none" => entry'[d] = entry[d]
        /\ \A u \in Token : policies'[u] # NoEntry =>
             policies'[u] \in Entry /\ entry'[policies'[u]] = entry[policies'[u]]
        /\ \A b \in Caller : call'[b].state = "waiting" =>
             call'[b].entry \in Entry /\ entry'[call'[b].entry] = entry[call'[b].entry]
    BY <1>3, <1>4, <1>5 DEF Referenced, CallsLinked
  <1>8. TypeOK'
    <2>1. k \in Check
      BY NewCheckProperties, Zenon DEF k
    <2>2. QED
      BY <1>1, <1>2, <1>3, <1>5, <2>1, Zenon DEF TypeOK, Call, CallState, Runner
  <1>9. policies[t] # NoEntry => entry[policies[t]].ready
    BY <1>2, Zenon DEF Usable
  <1>10. entry[e].ready = FALSE /\ entry[e].expires = 0
    BY <1>6 DEF FreshEntry
  <1>11. MapLinked'
    <2>1. \A d \in Entry : check'[d].state # "none" =>
            check'[d].token \in WellFormed /\ policies'[check'[d].token] = d /\ ~entry'[d].ready
      BY <1>2, <1>3, <1>4, <1>7, <1>9, <1>10, SMTT(30) DEF MapLinked, Runner
    <2>2. \A u \in Token : policies'[u] # NoEntry =>
            IF entry'[policies'[u]].ready
            THEN entry'[policies'[u]].outcome = "ok"
            ELSE check'[policies'[u]].state # "none" /\ check'[policies'[u]].token = u
      BY <1>3, <1>4, <1>6, <1>7, <1>10 DEF MapLinked, Runner
    <2>3. \A u, w \in Token : policies'[u] # NoEntry /\ policies'[u] = policies'[w] => u = w
      BY <1>3, <1>4, <1>6, SMTT(30) DEF MapLinked
    <2>4. QED
      BY <1>2, <1>5, <2>1, <2>2, <2>3, Zenon DEF MapLinked
  <1>12. CallsLinked'
    BY <1>2, <1>4, <1>6, <1>7, <1>10, SMTT(30) DEF CallsLinked, Runner, TypeOK
  <1>13. Counted'
    <2>1. Held(policies') = Held(p) \cup {t}
      BY <1>3, <1>4 DEF Held
    <2>2. /\ IsFiniteSet(Held(policies'))
          /\ Cardinality(Held(policies')) <= Cardinality(Held(p)) + 1
      <3>1. /\ IsFiniteSet(Held(p) \cup {t})
            /\ Cardinality(Held(p) \cup {t}) =
                 IF t \in Held(p) THEN Cardinality(Held(p)) ELSE Cardinality(Held(p)) + 1
        BY <1>3, FS_AddElement, Zenon
      <3>2. QED
        BY <1>3, <2>1, <3>1
    <2>3. Cardinality(Held(p)) + 1 <= MaxPolicies
      BY <1>2, <1>3 DEF Full
    <2>4. Cardinality(Held(policies')) \in Nat
      BY <2>2, FS_CardinalityType, Zenon
    <2>5. Checking' = Checking
      BY <1>4, <1>6, SMTT(30) DEF Checking, Running, Runner
    <2>6. QED
      BY <1>2, <1>3, <2>2, <2>3, <2>4, <2>5 DEF Counted
  <1>14. ChecksTimed'
    BY <1>2, <1>4, SMTT(30) DEF ChecksTimed, Runner, Running,
                      Promise!PermittedSince, Promise!ForbiddenSince
  <1>15. PoliciesTimed'
    <2>1. \A d \in Entry : entry'[d].expires <= now + TTL
      BY <1>5 DEF PoliciesTimed, FreshEntry, TypeOK
    <2>2. \A u \in Token : policies'[u] # NoEntry /\ entry'[policies'[u]].ready =>
            policies'[u] = policies[u]
      BY <1>3, <1>4, <1>7, <1>10
    <2>3. QED
      BY <1>2, <1>4, <1>7, <1>10, <2>1, <2>2, SMTT(30)
      DEF PoliciesTimed, Promise!PermittedSince, Promise!ForbiddenSince
  <1>16. QED
    BY <1>8, <1>11, <1>12, <1>13, <1>14, <1>15

(* A caller that finds no room checks by itself; the sweep still happens.  *)
LEMMA AuthorizeUncachedInv ==
    ASSUME AuthInv, NEW c \in Caller, NEW t \in Token, AuthorizeUncached(c, t)
    PROVE  AuthInv'
  <1> USE RelayAuthAssumption DEF AuthInv, policyVars
  <1> DEFINE k == NewCheck(t)
  <1>0. /\ call[c].state = "idle" /\ t \in WellFormed
        /\ UNCHANGED <<now, permitted, lastYes, lastNo, changes, authSlots>>
    BY Zenon DEF AuthorizeUncached
  <1>1. /\ policies' = IF TTL > 0 THEN Room(policies) ELSE policies
        /\ check' = [check EXCEPT ![c] = k]
        /\ call' = [call EXCEPT ![c] = [state |-> "backend", token |-> t, entry |-> NoEntry,
                                        began |-> now]]
        /\ entry' = Collected(entry)
    BY Zenon DEF AuthorizeUncached, NewCall
  <1>2. /\ policies' \in [Token -> Entry \cup {NoEntry}]
        /\ \A u \in Token : policies'[u] # NoEntry => policies'[u] = policies[u]
        /\ \A u \in Token : policies[u] # NoEntry /\ ~entry[policies[u]].ready =>
             policies'[u] = policies[u]
        /\ IsFiniteSet(Held(policies'))
        /\ Cardinality(Held(policies')) <= MaxPolicies
    <2>1. CASE TTL > 0
      BY <1>1, <2>1, RoomProperties
    <2>2. CASE ~(TTL > 0)
      BY <1>1, <2>2 DEF TypeOK, Counted
    <2>3. QED
      BY <2>1, <2>2, Zenon
  <1>3. /\ check'[c] = k /\ k.state = "start" /\ k.token = t /\ k.started = now
        /\ \A r \in Runner : r # c => check'[r] = check[r]
        /\ call'[c].state = "backend" /\ call'[c].token = t /\ call'[c].began = now
        /\ \A b \in Caller : b # c => call'[b] = call[b]
    BY <1>1, NewCheckProperties DEF TypeOK, Runner
  <1> HIDE DEF k
  <1>4. /\ entry' \in [Entry -> EntryState]
        /\ \A d \in Entry : Referenced(d)' => entry'[d] = entry[d]
        /\ \A d \in Entry : ~Referenced(d)' => entry'[d] = FreshEntry
    BY <1>1, CollectedProperties, Zenon DEF TypeOK
  <1>5. /\ \A d \in Entry : check'[d] = check[d]
        /\ \A d \in Entry : check[d].state # "none" => entry'[d] = entry[d]
        /\ \A u \in Token : policies'[u] # NoEntry =>
             policies'[u] \in Entry /\ entry'[policies'[u]] = entry[policies'[u]]
        /\ \A b \in Caller : call'[b].state = "waiting" =>
             call'[b].entry \in Entry /\ entry'[call'[b].entry] = entry[call'[b].entry]
    BY <1>2, <1>3, <1>4 DEF Referenced, CallsLinked, Runner
  <1>6. TypeOK'
    <2>1. k \in Check
      BY NewCheckProperties, Zenon DEF k
    <2>2. QED
      BY <1>0, <1>1, <1>2, <1>4, <2>1, Zenon DEF TypeOK, Call, CallState, Runner
  <1>7. MapLinked'
    <2>1. \A d \in Entry : check'[d].state # "none" =>
            check'[d].token \in WellFormed /\ policies'[check'[d].token] = d /\ ~entry'[d].ready
      BY <1>2, <1>5, SMTT(30) DEF MapLinked
    <2>2. QED
      BY <1>2, <1>4, <1>5, <2>1, SMTT(30) DEF MapLinked
  <1>8. CallsLinked'
    BY <1>0, <1>3, <1>5 DEF CallsLinked, Runner, TypeOK
  <1>9. Counted'
    <2>1. Checking' = Checking
      BY <1>0, <1>3, Zenon DEF Checking, Running, Runner, CallsLinked
    <2>2. QED
      BY <1>0, <1>2, <2>1, Zenon DEF Counted
  <1>10. ChecksTimed'
    BY <1>0, <1>3, SMTT(30) DEF ChecksTimed, Runner, Running,
                      Promise!PermittedSince, Promise!ForbiddenSince
  <1>11. PoliciesTimed'
    <2>1. \A d \in Entry : entry'[d].expires <= now + TTL
      BY <1>4 DEF PoliciesTimed, FreshEntry, TypeOK
    <2>2. QED
      BY <1>0, <1>2, <1>3, <1>5, <2>1, SMTT(30)
      DEF PoliciesTimed, Promise!PermittedSince, Promise!ForbiddenSince
  <1>12. QED
    BY <1>6, <1>7, <1>8, <1>9, <1>10, <1>11

(* A waiter that leaves, woken or cancelled, may be the last reference to  *)
(* its entry, but never to a check: that one goes on for the others.       *)
LEMMA LeaveInv ==
    ASSUME AuthInv, NEW c \in Caller, NEW outcome \in Outcome,
           call[c].state = "waiting",
           call' = [call EXCEPT ![c].state = outcome, ![c].entry = NoEntry],
           entry' = Collected(entry),
           UNCHANGED <<now, policyVars, policies, check, authSlots>>
    PROVE  AuthInv'
  <1> USE RelayAuthAssumption DEF AuthInv, policyVars
  <1>1. /\ call' \in [Caller -> Call]
        /\ call'[c].state = outcome
        /\ outcome \notin {"waiting", "backend"}
        /\ \A b \in Caller : b # c => call'[b] = call[b]
    <2> DEFINE n == [call[c] EXCEPT !.state = outcome, !.entry = NoEntry]
    <2>0. call \in [Caller -> Call]
      BY Zenon DEF TypeOK
    <2>1. call[c] \in Call /\ outcome \in CallState /\ outcome \notin {"waiting", "backend"}
      BY Zenon DEF TypeOK, CallState, Outcome
    <2>2. n \in Call /\ n.state = outcome
      BY <2>1, Zenon DEF Call
    <2>3. call' = [call EXCEPT ![c] = n]
      BY Zenon
    <2> HIDE DEF n
    <2>4. QED
      BY <2>1, <2>2, <2>3, <2>0, Zenon
  <1>2. /\ entry' \in [Entry -> EntryState]
        /\ \A d \in Entry : Referenced(d)' => entry'[d] = entry[d]
        /\ \A d \in Entry : ~Referenced(d)' => entry'[d] = FreshEntry
    BY CollectedProperties, Zenon DEF TypeOK
  <1>3. /\ \A d \in Entry : check[d].state # "none" => entry'[d] = entry[d]
        /\ \A u \in Token : policies[u] # NoEntry =>
             policies[u] \in Entry /\ entry'[policies[u]] = entry[policies[u]]
        /\ \A b \in Caller : call'[b].state = "waiting" =>
             call'[b].entry \in Entry /\ entry'[call'[b].entry] = entry[call'[b].entry]
    BY <1>1, <1>2 DEF Referenced, CallsLinked, TypeOK
  <1>4. TypeOK'
    BY <1>1, <1>2, Zenon DEF TypeOK
  <1>5. MapLinked'
    BY <1>2, <1>3 DEF MapLinked
  <1>6. CallsLinked'
    BY <1>1, <1>3 DEF CallsLinked
  <1>7. Counted' /\ ChecksTimed'
    BY Zenon DEF Counted, Held, Checking, ChecksTimed, Promise!PermittedSince, Promise!ForbiddenSince
  <1>8. PoliciesTimed'
    <2>1. \A d \in Entry : entry'[d].expires <= now + TTL
      BY <1>2 DEF PoliciesTimed, FreshEntry, TypeOK
    <2>2. QED
      BY <1>1, <1>3, <2>1 DEF PoliciesTimed, Promise!PermittedSince, Promise!ForbiddenSince
  <1>9. QED
    BY <1>4, <1>5, <1>6, <1>7, <1>8

-----------------------------------------------------------------------------
(* Reaching a destination.  While the caller races with time left, only it *)
(* ends attempts of its round: the errors it counts are the attempts that  *)
(* are gone.  A connection is open only in the hands of its goroutine, or  *)
(* as the one returned.                                                    *)
Ended == {x \in Address : attempt[<<round, x>>] = "gone"}

DialPlaces ==
    /\ round \in {1, 2} /\ dialer \in {"race", "pause", "back"}
    /\ attempt \in [Attempt -> {"none", "waits", "dials", "connected",
                                "refused", "other", "gone"}]
    /\ won # NoConn => dialer = "back"
    /\ dialer = "pause" => round = 1
    /\ round = 1 => \A a \in Attempt : a[1] = 2 => attempt[a] = "none"

DialInv ==
    /\ DialPlaces
    /\ \A a \in Attempt : a \in socket => attempt[a] = "connected" \/ (a = won /\ attempt[a] = "gone")
    /\ dialer = "race" /\ ~hung => taken = Cardinality(Ended)
    /\ dialer = "back" /\ won = NoConn /\ ~hung => Ended = Address

LEMMA EndedFinite == IsFiniteSet(Ended) /\ Cardinality(Ended) \in Nat /\ Cardinality(Address) \in Nat
  <1>1. IsFiniteSet(Address) /\ Ended \subseteq Address
    BY AddressAssumption, Zenon DEF Ended
  <1>2. IsFiniteSet(Ended)
    BY <1>1, FS_Subset, Zenon
  <1>3. QED
    BY <1>1, <1>2, FS_CardinalityType, Zenon

LEMMA DialInitInv == DialInit => DialInv
  <1> SUFFICES ASSUME DialInit PROVE DialInv
    BY Zenon
  <1>1. DialPlaces /\ Ended = {}
    BY AddressAssumption DEF DialInit, DialPlaces, Attempt, Ended
  <1>2. Cardinality(Ended) = 0
    BY <1>1, FS_EmptySet, Zenon
  <1>3. QED
    BY <1>1, <1>2, Zenon DEF DialInit, DialInv

(* A goroutine's step: only a[1]'s context lets it end.                    *)
LEMMA AttemptInv ==
    ASSUME DialInv, NEW a \in Attempt, AttemptStep(a)
    PROVE  DialInv'
  <1> USE DEF DialInv, DialPlaces
  <1>1. PICK next \in {"dials", "connected", "refused", "other", "gone"} :
            /\ attempt' = [attempt EXCEPT ![a] = next]
            /\ attempt[a] \notin {"none", "gone"}
            /\ next = "gone" => CtxDone(a[1])
            /\ next # "connected" => a \notin socket'
            /\ \A b \in Attempt : b \in socket' => b \in socket \/ b = a
    BY Zenon DEF AttemptStep, StartDial, Connects, DialFails, LoserLeaves, Offers
  <1>2. UNCHANGED <<round, dialer, taken, hung, won>>
    BY Zenon DEF AttemptStep, StartDial, Connects, DialFails, LoserLeaves
  <1>3. DialPlaces'
    BY <1>1, <1>2
  <1>4. \A b \in Attempt : b # a => attempt'[b] = attempt[b]
    BY <1>1, Zenon
  <1>5. \A x \in Address : <<round, x>> \in Attempt
    BY Zenon DEF Attempt
  <1>6. Ended \subseteq Ended'
    BY <1>1, <1>2, <1>4, <1>5 DEF Ended
  <1>7. dialer = "race" /\ ~hung => Ended' = Ended
    BY <1>1, <1>2, <1>4, <1>5 DEF Ended, CtxDone
  <1>8. Ended' \subseteq Address
    BY Zenon DEF Ended
  <1>9. QED
    BY <1>1, <1>2, <1>3, <1>4, <1>6, <1>7, <1>8, Zenon

(* The caller's step; an error it takes is one more attempt that is gone.  *)
LEMMA CallerInv ==
    ASSUME DialInv, CallerStep
    PROVE  DialInv'
  <1> USE DEF DialInv, DialPlaces
  <1>1. CASE CallerHangsUp
    BY <1>1, Zenon DEF CallerHangsUp, Ended
  <1>2. CASE RaceAgain
    <2>1. round = 1 /\ round' = 2 /\ dialer = "pause" /\ dialer' = "race" /\ taken' = 0
          /\ UNCHANGED <<hung, socket, won>> /\ won = NoConn
      BY <1>2, Zenon DEF RaceAgain
    <2>2. Ended' = {}
      BY <1>2, <2>1, Zenon DEF RaceAgain, Ended, Attempt
    <2>3. Cardinality(Ended') = 0
      BY <2>2, FS_EmptySet, Zenon
    <2>4. QED
      BY <1>2, <2>1, <2>2, <2>3 DEF RaceAgain
  <1>3. ASSUME NEW a \in Attempt, TakeConn(a) PROVE DialInv'
    BY <1>3, AddressAssumption, Zenon DEF TakeConn, Attempt
  <1>4. ASSUME NEW a \in Attempt, TakeError(a) PROVE DialInv'
    <2>1. PICK x \in Address : a = <<round, x>>
      BY <1>4 DEF TakeError, Attempt
    <2>2. /\ attempt[a] # "gone" /\ attempt[a] # "connected" /\ dialer = "race"
          /\ attempt' = [attempt EXCEPT ![a] = "gone"] /\ UNCHANGED <<round, hung, socket, won>>
          /\ taken' = taken + 1 /\ dialer' \in {"race", "pause", "back"}
          /\ dialer' = "race" \/ ~(taken' < Cardinality(Address))
          /\ dialer' = "pause" => round = 1
      BY <1>4, Zenon DEF TakeError, AfterError
    <2>3. Ended' = Ended \cup {x} /\ x \notin Ended
      BY <2>1, <2>2 DEF Ended, Attempt
    <2>4. Cardinality(Ended') = Cardinality(Ended) + 1
      BY <2>3, EndedFinite, FS_AddElement, Zenon
    <2>5. DialPlaces'
      BY <1>4, <2>2 DEF TakeError
    <2>6. ~hung /\ dialer' = "back" => Ended' = Address
      <3> SUFFICES ASSUME ~hung, dialer' = "back" PROVE Ended' = Address
        BY Zenon
      <3>1. ~(Cardinality(Ended') < Cardinality(Address)) /\ Cardinality(Ended') \in Nat
        BY <2>2, <2>4, EndedFinite
      <3>2. Ended' \subseteq Address /\ IsFiniteSet(Address)
        BY AddressAssumption, Zenon DEF Ended
      <3>3. Cardinality(Ended') <= Cardinality(Address)
        BY <3>2, FS_Subset, Zenon
      <3>4. Cardinality(Ended') = Cardinality(Address)
        BY <3>1, <3>3, EndedFinite
      <3>5. QED
        BY <3>2, <3>4, FS_Subset, Zenon
    <2>7. QED
      BY <2>2, <2>4, <2>5, <2>6
  <1>5. QED
    BY <1>1, <1>2, <1>3, <1>4 DEF CallerStep

LEMMA DialNextInv == DialInv /\ [DialNext]_dialVars => DialInv'
  <1> SUFFICES ASSUME DialInv, [DialNext]_dialVars PROVE DialInv'
    BY Zenon
  <1>1. CASE Hang
    BY <1>1, Zenon DEF Hang, DialInv, DialPlaces
  <1>2. CASE UNCHANGED dialVars
    BY <1>2, Zenon DEF dialVars, DialInv, DialPlaces, Ended
  <1>3. QED
    BY <1>1, <1>2, AttemptInv, CallerInv, Zenon DEF DialNext

(* For any number of addresses: connectTCP gives up with time left only    *)
(* when every address of its last race failed, and no connection of that   *)
(* race is open (relay/policy.go dialTCP, relay/responses.go connectTCP).  *)
THEOREM GivesUpHonestlyTheorem == DialSpec => []GivesUpHonestly
  <1>1. DialInv => GivesUpHonestly
    <2> SUFFICES ASSUME DialInv, dialer = "back", won = NoConn, ~hung, NEW x \in Address
                 PROVE  attempt[<<round, x>>] = "gone" /\ <<round, x>> \notin socket
      BY Zenon DEF GivesUpHonestly
    <2>1. <<round, x>> \in Attempt /\ <<round, x>> # NoConn /\ x \in Ended
      BY AddressAssumption DEF DialInv, DialPlaces, Attempt
    <2>2. QED
      BY <2>1, Zenon DEF DialInv, Ended
  <1>2. QED
    BY <1>1, DialInitInv, DialNextInv, PTL DEF DialSpec

-----------------------------------------------------------------------------
(* The backups.  A job that reads has the version of the PKI it began      *)
(* with, since the lock keeps others out, and what a job means to remove   *)
(* is behind BackupKeep newer archives: that stays so, as made only grows. *)
Activity == {"idle", "begun", "read", "copy", "list", "prune"}
Backup == [name : Nat, from : Nat, to : Nat, todo : SUBSET Nat, at : Activity]
Later(n) == {m \in made : m > n}
Spare(n) == 0 < BackupKeep /\ BackupKeep <= Cardinality(Later(n))

JobInv(j) ==
    /\ job[j].at = "read" => job[j].from = pkiVersion
    /\ job[j].at = "copy" => job[j].from = job[j].to
    /\ \A n \in job[j].todo : Spare(n)

ArchiveInv ==
    /\ pkiVersion \in Nat /\ second \in Nat
    /\ made \subseteq Nat /\ IsFiniteSet(made) /\ Names \subseteq made
    /\ job \in [Job -> Backup] /\ \A j \in Job : JobInv(j)
    /\ \A a \in archives : a.whole
    /\ \A n \in made : ~Spare(n) => n \in Names

(* Every set of numbers has a smallest: of the sets of the elements below  *)
(* one of them, an inclusion-minimal one is empty.                         *)
LEMMA SmallestOf ==
    ASSUME NEW T \in SUBSET Nat, T # {} PROVE \E x \in T : \A y \in T : x <= y
  <1> DEFINE Below(x) == {y \in T : y < x}
             F == {Below(x) : x \in T}
             R == StrictSubsetOrdering(Nat)
  <1>1. ASSUME NEW x \in T PROVE Below(x) \in FiniteSubsetsOf(Nat)
    <2>1. IsFiniteSet(Below(x))
      BY FS_BoundedSetOfNaturals
    <2>2. QED
      BY <2>1, Zenon DEF FiniteSubsetsOf
  <1>2. F \subseteq FiniteSubsetsOf(Nat) /\ F # {}
    BY <1>1, Zenon
  <1>3. IsWellFoundedOn(R, FiniteSubsetsOf(Nat))
    BY FS_StrictSubsetOrderingWellFounded, Zenon
  <1> HIDE DEF F, R
  <1>4. PICK U \in F : \A V \in F : ~ (<<V, U>> \in R)
    BY <1>2, <1>3, WFMin, Zenon
  <1>5. PICK x \in T : U = Below(x)
    BY Zenon DEF F
  <1>6. ASSUME NEW y \in T, y < x PROVE FALSE
    <2>0. x \in Nat /\ y \in Nat /\ y < x /\ ~(y < y) /\ \A z \in Nat : z < y => z < x
      BY <1>6
    <2>1. Below(y) \in F /\ Below(y) \subseteq U /\ y \in U /\ y \notin Below(y)
      BY <1>5, <2>0, Zenon DEF F
    <2>2. Below(y) \in SUBSET Nat /\ U \in SUBSET Nat /\ Below(y) # U
      BY <1>5, <2>1, Zenon
    <2>3. <<Below(y), U>> \in R
      BY <2>1, <2>2, Zenon DEF R, StrictSubsetOrdering
    <2>4. QED
      BY <1>4, <2>1, <2>3, Zenon
  <1>7. QED
    BY <1>6

LEMMA MinIn == ASSUME NEW T \in SUBSET Nat, T # {} PROVE Min(T) \in T
  BY SmallestOf, Zenon DEF Min

(* Archives that are newer remain newer.                                   *)
LEMMA SpareStays ==
    ASSUME made \subseteq made', IsFiniteSet(made'), NEW n, Spare(n) PROVE Spare(n)'
  <1>1. Later(n) \in SUBSET Later(n)' /\ Later(n)' \in SUBSET made'
    BY Zenon DEF Later
  <1>2. IsFiniteSet(Later(n)')
    BY <1>1, FS_Subset, Zenon
  <1>3. IsFiniteSet(Later(n)) /\ Cardinality(Later(n)) <= Cardinality(Later(n)')
    BY <1>1, <1>2, FS_Subset, Zenon
  <1>4. Cardinality(Later(n)) \in Nat /\ Cardinality(Later(n)') \in Nat
    BY <1>2, <1>3, FS_CardinalityType, Zenon
  <1>5. QED
    BY <1>3, <1>4, ArchivesAssumption DEF Spare

(* A job changes, and nothing else that matters.                           *)
LEMMA OneJob ==
    ASSUME ArchiveInv, NEW j \in Job, NEW b \in Backup, job' = [job EXCEPT ![j] = b],
           UNCHANGED <<pkiVersion, archives, made, second>>,
           b.at = "read" => b.from = pkiVersion, b.at = "copy" => b.from = b.to,
           \A n \in b.todo : Spare(n)
    PROVE  ArchiveInv'
  <1>1. job' \in [Job -> Backup] /\ \A k \in Job : job'[k] = IF k = j THEN b ELSE job[k]
    BY Zenon DEF ArchiveInv
  <1>2. \A n : Spare(n)' <=> Spare(n)
    BY Zenon DEF Spare, Later
  <1>3. \A k \in Job : JobInv(k)'
    BY <1>1, <1>2, Zenon DEF ArchiveInv, JobInv
  <1>4. QED
    BY <1>1, <1>2, <1>3, Zenon DEF ArchiveInv, Names

LEMMA NoJobIs == NoJob \in Backup /\ NoJob.at = "idle" /\ NoJob.todo = {}
  BY Zenon DEF NoJob, Backup, Activity

LEMMA ArchiveInitInv == ArchiveInit => ArchiveInv
  <1> SUFFICES ASSUME ArchiveInit PROVE ArchiveInv
    BY Zenon
  <1>1. Names = {} /\ made = {} /\ IsFiniteSet(made)
    BY FS_EmptySet, Zenon DEF ArchiveInit, Names
  <1>2. QED
    BY <1>1, NoJobIs, Zenon DEF ArchiveInit, ArchiveInv, JobInv

LEMMA backup_nowInv == ASSUME ArchiveInv, NEW j \in Job, backup_now(j) PROVE ArchiveInv'
  <1> DEFINE b == [NoJob EXCEPT !.name = second, !.at = "begun"]
  <1>1. b \in Backup /\ b.at = "begun" /\ b.todo = {}
    BY Zenon DEF ArchiveInv, NoJob, Backup, Activity
  <1>2. job' = [job EXCEPT ![j] = b] /\ UNCHANGED <<pkiVersion, archives, made, second>>
    BY Zenon DEF backup_now
  <1> HIDE DEF b
  <1>3. QED
    BY <1>1, <1>2, OneJob, Zenon

(* A job stops, done or broken.                                            *)
LEMMA JobStops ==
    ASSUME ArchiveInv, NEW j \in Job, job' = [job EXCEPT ![j] = NoJob],
           UNCHANGED <<pkiVersion, archives, made, second>>
    PROVE  ArchiveInv'
  BY NoJobIs, OneJob, Zenon

LEMMA CopyInv ==
    ASSUME ArchiveInv, NEW j \in Job, job[j].at = "copy", create(j) PROVE ArchiveInv'
  <1> DEFINE b == [job[j] EXCEPT !.at = "list"]
  <1>1. /\ archives' = {a \in archives : a.name # job[j].name} \cup
                        {[name |-> job[j].name, whole |-> job[j].from = job[j].to]}
        /\ job' = [job EXCEPT ![j] = b]
        /\ made' = made \cup {job[j].name} /\ UNCHANGED <<pkiVersion, second>>
    BY Zenon DEF create
  <1>2. job[j] \in Backup /\ JobInv(j) /\ job[j].from = job[j].to
    BY Zenon DEF ArchiveInv, JobInv
  <1>3. b \in Backup /\ b.at = "list" /\ b.todo = job[j].todo
    BY <1>2, Zenon DEF Backup, Activity
  <1> HIDE DEF b
  <1>4. made' \subseteq Nat /\ made \subseteq made' /\ IsFiniteSet(made')
    BY <1>1, <1>2, FS_AddElement, Zenon DEF ArchiveInv, Backup
  <1>5. \A n : Spare(n) => Spare(n)'
    BY <1>4, SpareStays, Zenon
  <1>6. PICK new : /\ archives' = {a \in archives : a.name # job[j].name} \cup {new}
                   /\ new.name = job[j].name /\ new.whole
    <2> DEFINE new == [name |-> job[j].name, whole |-> job[j].from = job[j].to]
    <2>1. new.name = job[j].name /\ new.whole
      BY <1>2, Zenon
    <2>2. QED
      BY <1>1, <2>1, Zenon
  <1>a. Names' = Names \cup {job[j].name}
    BY <1>6, Zenon DEF Names
  <1>7. \A a \in archives' : a.whole
    BY <1>6, Zenon DEF ArchiveInv
  <1>8. job' \in [Job -> Backup] /\ \A k \in Job : job'[k] = IF k = j THEN b ELSE job[k]
    BY <1>1, <1>3, Zenon DEF ArchiveInv
  <1>9. \A k \in Job : JobInv(k)'
    BY <1>1, <1>2, <1>3, <1>5, <1>8 DEF ArchiveInv, JobInv
  <1>10. Names' \subseteq made' /\ \A n \in made' : ~Spare(n)' => n \in Names'
    BY <1>1, <1>5, <1>a, Zenon DEF ArchiveInv
  <1>11. QED
    BY <1>1, <1>4, <1>7, <1>8, <1>9, <1>10 DEF ArchiveInv

LEMMA ListInv ==
    ASSUME ArchiveInv, NEW j \in Job, job[j].at = "list", create(j) PROVE ArchiveInv'
  <1> DEFINE b == [job[j] EXCEPT !.at = "prune", !.todo = Outdated]
  <1>1. job' = [job EXCEPT ![j] = b] /\ UNCHANGED <<pkiVersion, archives, made, second>>
    BY Zenon DEF create
  <1>2. Outdated \in SUBSET Nat
    BY Zenon DEF ArchiveInv, Outdated
  <1>3. ASSUME NEW n \in Outdated PROVE Spare(n)
    <2> DEFINE kept == {m \in Names : m > n}
    <2>1. Later(n) \in SUBSET made /\ kept \in SUBSET Later(n)
      BY Zenon DEF ArchiveInv, Later
    <2>2. IsFiniteSet(Later(n))
      BY <2>1, FS_Subset DEF ArchiveInv
    <2>3. IsFiniteSet(kept) /\ Cardinality(kept) <= Cardinality(Later(n))
      BY <2>1, <2>2, FS_Subset
    <2>4. Cardinality(kept) \in Nat /\ Cardinality(Later(n)) \in Nat
      BY <2>2, <2>3, FS_CardinalityType, Zenon
    <2>5. BackupKeep > 0 /\ Cardinality(kept) >= BackupKeep
      BY <1>3, Zenon DEF Outdated
    <2> HIDE DEF kept
    <2>6. QED
      BY <2>3, <2>4, <2>5, ArchivesAssumption DEF Spare
  <1>4. b \in Backup /\ b.at = "prune" /\ b.todo = Outdated
    BY <1>2, Zenon DEF ArchiveInv, Backup, Activity
  <1> HIDE DEF b
  <1>5. QED
    BY <1>1, <1>3, <1>4, OneJob, Zenon

LEMMA PruneInv ==
    ASSUME ArchiveInv, NEW j \in Job, job[j].at = "prune", job[j].todo # {}, create(j)
    PROVE  ArchiveInv'
  <1> DEFINE old == Min(job[j].todo)
  <1>1. job[j] \in Backup /\ job[j].todo \in SUBSET Nat
    BY Zenon DEF ArchiveInv, Backup
  <1>2. old \in job[j].todo /\ Spare(old)
    BY <1>1, MinIn DEF ArchiveInv, JobInv
  <1>3. /\ archives' = {a \in archives : a.name # old} /\ UNCHANGED <<pkiVersion, made, second>>
        /\ job' = [job EXCEPT ![j] = IF old \in Names THEN [job[j] EXCEPT !.todo = job[j].todo \ {old}]
                                     ELSE NoJob]
    BY Zenon DEF create
  <1> HIDE DEF old
  <1>4. \A n : Spare(n)' <=> Spare(n)
    BY <1>3, Zenon DEF Spare, Later
  <1>5. PICK b \in Backup : /\ job' = [job EXCEPT ![j] = b] /\ b.at \in {"prune", "idle"}
                            /\ b.todo \subseteq job[j].todo
    <2>1. CASE old \in Names
      <3> DEFINE c == [job[j] EXCEPT !.todo = job[j].todo \ {old}]
      <3>1. c \in Backup /\ c.at = "prune" /\ c.todo \subseteq job[j].todo
        BY <1>1, Zenon DEF Backup
      <3>2. job' = [job EXCEPT ![j] = c]
        BY <1>3, <2>1, Zenon
      <3> HIDE DEF c
      <3>3. QED
        BY <3>1, <3>2, Zenon
    <2>2. CASE old \notin Names
      <3>1. job' = [job EXCEPT ![j] = NoJob]
        BY <1>3, <2>2, Zenon
      <3>2. QED
        BY <3>1, NoJobIs, Zenon
    <2>3. QED
      BY <2>1, <2>2, Zenon
  <1>6. job' \in [Job -> Backup] /\ \A k \in Job : job'[k] = IF k = j THEN b ELSE job[k]
    BY <1>5, Zenon DEF ArchiveInv
  <1>7. \A k \in Job : JobInv(k)'
    BY <1>3, <1>4, <1>5, <1>6 DEF ArchiveInv, JobInv
  <1>8. Names' = Names \ {old}
    BY <1>3, Zenon DEF Names
  <1>9. \A n \in made' : ~Spare(n)' => n \in Names'
    BY <1>2, <1>3, <1>4, <1>8, Zenon DEF ArchiveInv
  <1>10. QED
    BY <1>3, <1>6, <1>7, <1>8, <1>9, Zenon DEF ArchiveInv

LEMMA createInv == ASSUME ArchiveInv, NEW j \in Job, create(j) PROVE ArchiveInv'
  <1>1. job[j] \in Backup /\ JobInv(j) /\ pkiVersion \in Nat
    BY Zenon DEF ArchiveInv
  <1>2. CASE job[j].at = "begun"
    <2> DEFINE b == [job[j] EXCEPT !.at = "read", !.from = pkiVersion]
    <2>1. b \in Backup /\ b.at = "read" /\ b.from = pkiVersion /\ b.todo = job[j].todo
      BY <1>1, Zenon DEF Backup, Activity
    <2>2. job' = [job EXCEPT ![j] = b] /\ UNCHANGED <<pkiVersion, archives, made, second>>
      BY <1>2, Zenon DEF create
    <2> HIDE DEF b
    <2>3. QED
      BY <1>1, <2>1, <2>2, OneJob, Zenon DEF JobInv
  <1>3. CASE job[j].at = "read"
    <2> DEFINE b == [job[j] EXCEPT !.at = "copy", !.to = pkiVersion]
    <2>1. b \in Backup /\ b.at = "copy" /\ b.from = job[j].from /\ b.to = pkiVersion /\ b.todo = job[j].todo
      BY <1>1, Zenon DEF Backup, Activity
    <2>2. job' = [job EXCEPT ![j] = b] /\ UNCHANGED <<pkiVersion, archives, made, second>>
      BY <1>3, Zenon DEF create
    <2> HIDE DEF b
    <2>3. QED
      BY <1>1, <1>3, <2>1, <2>2, OneJob, Zenon DEF JobInv
  <1>4. CASE job[j].at = "prune" /\ job[j].todo = {}
    BY <1>4, JobStops DEF create
  <1>5. QED
    BY <1>2, <1>3, <1>4, CopyInv, ListInv, PruneInv, SMTT(30) DEF create

LEMMA ArchiveNextInv == ArchiveInv /\ [ArchiveNext]_archiveVars => ArchiveInv'
  <1> SUFFICES ASSUME ArchiveInv, [ArchiveNext]_archiveVars PROVE ArchiveInv'
    BY Zenon
  <1>1. ASSUME UNCHANGED <<archives, job, made>>, pkiVersion' \in Nat, second' \in Nat,
               pkiVersion' = pkiVersion \/ ~pki_lock
        PROVE  ArchiveInv'
    BY <1>1, Zenon DEF ArchiveInv, JobInv, Spare, Later, Names, pki_lock
  <1>2. CASE ChangePki \/ Second \/ UNCHANGED archiveVars
    BY <1>1, <1>2 DEF ChangePki, Second, archiveVars, ArchiveInv
  <1>3. ASSUME NEW j \in Job, Break(j) PROVE ArchiveInv'
    BY <1>3, JobStops, Zenon DEF Break
  <1>4. QED
    BY <1>2, <1>3, backup_nowInv, createInv DEF ArchiveNext

(* BackupsWhole, for any number of backups at once and any number to keep: *)
(* a file with an archive's name is the PKI of one moment, and pruning     *)
(* never takes one of the newest BackupKeep, nor any when that is 0        *)
(* (create of ui/app/backup.py).                                           *)
THEOREM BackupsWholeTheorem == ArchiveSpec => []BackupsWhole
  <1>1. ArchiveInv => BackupsWhole
    <2> SUFFICES ASSUME ArchiveInv, NEW n \in made, BackupKeep = 0 \/ Cardinality(Later(n)) < BackupKeep
                 PROVE  n \in Names
      BY Zenon DEF ArchiveInv, BackupsWhole, Later
    <2>1. Later(n) \in SUBSET made
      BY Zenon DEF Later
    <2>2. Cardinality(Later(n)) \in Nat
      BY <2>1, FS_Subset, FS_CardinalityType, Zenon DEF ArchiveInv
    <2>3. QED
      BY <2>2, ArchivesAssumption DEF ArchiveInv, Spare
  <1>2. QED
    BY <1>1, ArchiveInitInv, ArchiveNextInv, PTL DEF ArchiveSpec
=============================================================================
