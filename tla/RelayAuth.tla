------------------------------ MODULE RelayAuth ------------------------------
(***************************************************************************)
(* The authorization cache of the Apple relay (relay/auth.go).             *)
(*                                                                         *)
(* Request handlers and flow watchers call authorize concurrently.  The    *)
(* first caller of a token puts an in-flight policyEntry into the map and  *)
(* starts a goroutine that asks the policy service; later callers wait on  *)
(* the same entry, or reuse its policy until it expires.  A full map sends *)
(* the caller to the policy service by itself.  A "runner" is whoever runs *)
(* authorizeBackend: an entry's goroutine (named by the entry) or a caller.*)
(*                                                                         *)
(* Entries are pointers: a waiter keeps its entry after the map has        *)
(* dropped it.  An entry nobody references any more is garbage-collected:  *)
(* it returns to its zero value and may be allocated again.                *)
(*                                                                         *)
(* A definition followed by one of the same form, such as UsableForever    *)
(* before Usable, is a seeded fault: the specification does not use it; it *)
(* shows that a property fails when the code makes that mistake.           *)
(***************************************************************************)
EXTENDS Integers, FiniteSets

CONSTANTS
    Token, WellFormed, NoToken, Caller, TTL, CheckTimeout, MaxTime,
    Entry,          \* policyEntry objects
    NoEntry,        \* the nil *policyEntry
    MaxPolicies,    \* how many entries the map may hold (1024)
    MaxAuthChecks,  \* the capacity of relayServer.authSlots
    MaxAttempts,    \* requests one check may send (3)
    MaxChanges      \* bound: grants and revocations in a behaviour

ASSUME RelayAuthAssumption ==
    /\ WellFormed \subseteq Token
    /\ NoToken \notin Token
    /\ TTL \in Nat
    /\ CheckTimeout \in Nat \ {0}
    /\ MaxTime \in Nat
    /\ NoEntry \notin Entry
    /\ Caller \cap Entry = {}
    /\ MaxPolicies \in Nat
    /\ MaxAuthChecks \in Nat
    /\ MaxAttempts \in Nat \ {0}
    /\ MaxChanges \in Nat

VARIABLES
    now,         \* the clock, in seconds
    permitted,   \* what the policy service would answer now
    lastYes,     \* when a token last ceased to be permitted
    lastNo,      \* when a token last became permitted
    changes,     \* how often that has changed
    policies,    \* relayServer.policies: the entry of each token, or NoEntry
    entry,       \* the policyEntry objects
    check,       \* check[r]: the run of authorizeBackend by runner r
    authSlots,   \* how many tokens relayServer.authSlots holds
    call         \* call[c]: the call of authorize that c is in, or its result

policyVars == <<permitted, lastYes, lastNo, changes>>
vars == <<now, permitted, lastYes, lastNo, changes, policies, entry, check, authSlots, call>>

-----------------------------------------------------------------------------
Outcome == {"ok", "denied", "unavailable", "cancelled"}
Answer == {"ok", "denied", "unavailable"}
Runner == Entry \cup Caller
Never == 0 - (TTL + CheckTimeout + 1)

(* "ready" says that the channel is closed; until then expires is zero.    *)
EntryState == [ready : BOOLEAN, outcome : Answer, expires : Nat]
FreshEntry == [ready |-> FALSE, outcome |-> "unavailable", expires |-> 0]

Running == {"asking", "answered", "backoff"}
Check == [state : {"none", "start"} \cup Running, token : Token \cup {NoToken}, attempt : Nat,
          started : Nat, answer : {"ok", "denied"}]

CallState == {"idle", "waiting", "backend"} \cup Outcome
Call == [state : CallState, token : Token \cup {NoToken}, entry : Entry \cup {NoEntry},
         began : Nat]

NoCheck == [state |-> "none", token |-> NoToken, attempt |-> 0, started |-> 0,
            answer |-> "denied"]
NoCall == [state |-> "idle", token |-> NoToken, entry |-> NoEntry, began |-> 0]

Init ==
    /\ now = 0
    /\ permitted \in {p \in [Token -> BOOLEAN] : \A t \in Token \ WellFormed : ~p[t]}
    /\ lastYes = [t \in Token |-> Never]
    /\ lastNo = [t \in Token |-> Never]
    /\ changes = 0
    /\ policies = [t \in Token |-> NoEntry]
    /\ entry = [e \in Entry |-> FreshEntry]
    /\ check = [r \in Runner |-> NoCheck]
    /\ authSlots = 0
    /\ call = [c \in Caller |-> NoCall]

-----------------------------------------------------------------------------
(* The policy service (ui/app/policy_server.py) as the relay sees it: an   *)
(* administrator changes what it answers.                                  *)
Grant(t) ==
    /\ t \in WellFormed
    /\ ~permitted[t]
    /\ permitted' = [permitted EXCEPT ![t] = TRUE]
    /\ lastNo' = [lastNo EXCEPT ![t] = now]
    /\ changes < MaxChanges /\ changes' = changes + 1
    /\ UNCHANGED <<now, lastYes, policies, entry, check, authSlots, call>>

Revoke(t) ==
    /\ permitted[t]
    /\ permitted' = [permitted EXCEPT ![t] = FALSE]
    /\ lastYes' = [lastYes EXCEPT ![t] = now]
    /\ changes < MaxChanges /\ changes' = changes + 1
    /\ UNCHANGED <<now, lastNo, policies, entry, check, authSlots, call>>

-----------------------------------------------------------------------------
(* authorize: the entry may be shared while in flight or unexpired.        *)
UsableForever(e) == e # NoEntry
Usable(e) == e # NoEntry /\ (~entry[e].ready \/ now < entry[e].expires)

ExpiredInFlight(e) == e # NoEntry /\ ~(now < entry[e].expires)
Expired(e) == e # NoEntry /\ entry[e].ready /\ ~(now < entry[e].expires)

(* A full map first loses its expired entries.                             *)
Held(p) == {t \in Token : p[t] # NoEntry}
Full(p) == Cardinality(Held(p)) >= MaxPolicies
Swept(p) == [t \in Token |-> IF Expired(p[t]) THEN NoEntry ELSE p[t]]
Room(p) == IF Full(p) THEN Swept(p) ELSE p

(* The map, the goroutine and the waiters keep an entry alive.             *)
Referenced(e) ==
    \/ check[e].state # "none"
    \/ \E t \in Token : policies[t] = e
    \/ \E c \in Caller : call[c].state = "waiting" /\ call[c].entry = e
Collected(heap) == [e \in Entry |-> IF Referenced(e)' THEN heap[e] ELSE FreshEntry]

NewCheck(t) == [NoCheck EXCEPT !.state = "start", !.token = t, !.started = now]
NewCall(state, t, e) ==
    [state |-> state, token |-> t, entry |-> e, began |-> now]

(* Bound: a call starts early enough for the clock to reach its deadline.  *)
Horizon == now + CheckTimeout <= MaxTime

AuthorizeMalformed(c, t) ==
    /\ call[c].state = "idle"
    /\ t \notin WellFormed
    /\ call' = [call EXCEPT ![c] = NewCall("denied", t, NoEntry)]
    /\ UNCHANGED <<now, policyVars, policies, entry, check, authSlots>>

AuthorizeShared(c, t) ==
    /\ call[c].state = "idle"
    /\ Horizon
    /\ t \in WellFormed
    /\ TTL > 0
    /\ Usable(policies[t])
    /\ call' = [call EXCEPT ![c] = NewCall("waiting", t, policies[t])]
    /\ UNCHANGED <<now, policyVars, policies, entry, check, authSlots>>

(* The caller creates the entry and starts its goroutine.                  *)
AuthorizeNew(c, t) ==
    /\ call[c].state = "idle"
    /\ Horizon
    /\ t \in WellFormed
    /\ TTL > 0
    /\ ~Usable(policies[t])
    /\ ~Full(Room(policies))
    /\ \E e \in Entry :
        /\ ~Referenced(e)
        /\ policies' = [Room(policies) EXCEPT ![t] = e]
        /\ check' = [check EXCEPT ![e] = NewCheck(t)]
        /\ call' = [call EXCEPT ![c] = NewCall("waiting", t, e)]
    /\ entry' = Collected(entry)
    /\ UNCHANGED <<now, policyVars, authSlots>>

(* No cache configured, or no room in it: the caller checks by itself.     *)
AuthorizeUncached(c, t) ==
    /\ call[c].state = "idle"
    /\ Horizon
    /\ t \in WellFormed
    /\ TTL > 0 => ~Usable(policies[t]) /\ Full(Room(policies))
    /\ policies' = IF TTL > 0 THEN Room(policies) ELSE policies
    /\ check' = [check EXCEPT ![c] = NewCheck(t)]
    /\ call' = [call EXCEPT ![c] = NewCall("backend", t, NoEntry)]
    /\ entry' = Collected(entry)
    /\ UNCHANGED <<now, policyVars, authSlots>>

-----------------------------------------------------------------------------
(* The end of a check.  The goroutine of entry r publishes the result to   *)
(* all waiters and takes a failed entry out of the map, in one critical    *)
(* section; a caller that checked by itself simply returns.                *)
Published(outcome) == [ready |-> TRUE, outcome |-> outcome, expires |-> now + TTL]

Publish(r, outcome) ==
    /\ policies' = IF outcome = "ok" THEN policies
                   ELSE [policies EXCEPT ![check[r].token] = NoEntry]
    /\ UNCHANGED call
    /\ entry' = Collected([entry EXCEPT ![r] = Published(outcome)])

EndCheck(r, outcome) ==
    /\ check' = [check EXCEPT ![r] = NoCheck]
    /\ \/ r \in Entry /\ Publish(r, outcome)
       \/ /\ r \in Caller
          /\ call' = [call EXCEPT ![r].state = outcome]
          /\ UNCHANGED <<entry, policies>>
    /\ UNCHANGED <<now, policyVars>>

(* authorizeBackend takes a slot or gives up at once.                      *)
CheckStart(r) ==
    /\ check[r].state = "start"
    /\ authSlots < MaxAuthChecks
    /\ authSlots' = authSlots + 1
    /\ check' = [check EXCEPT ![r].state = "asking", ![r].started = now]
    /\ UNCHANGED <<now, policyVars, policies, entry, call>>

CheckRefused(r) ==
    /\ check[r].state = "start"
    /\ authSlots >= MaxAuthChecks
    /\ EndCheck(r, "unavailable")
    /\ UNCHANGED authSlots

(* The policy service decides; its reply may take a while to arrive.       *)
Evaluate(r) ==
    /\ check[r].state = "asking"
    /\ check' = [check EXCEPT ![r].state = "answered",
                   ![r].answer = IF permitted[check[r].token] THEN "ok" ELSE "denied"]
    /\ UNCHANGED <<now, policyVars, policies, entry, authSlots, call>>

Release == authSlots' = authSlots - 1

Receive(r) ==
    /\ check[r].state = "answered"
    /\ EndCheck(r, check[r].answer)
    /\ Release

(* A status that is not retried, or a body that does not decode.           *)
Unusable(r) ==
    /\ check[r].state \in {"asking", "answered"}
    /\ EndCheck(r, "unavailable")
    /\ Release

(* A transport error or a 502, 503 or 504: wait and retry, or give up.     *)
Transient(r) ==
    /\ check[r].state \in {"asking", "answered"}
    /\ check[r].attempt < MaxAttempts - 1
    /\ check' = [check EXCEPT ![r].state = "backoff"]
    /\ UNCHANGED <<now, policyVars, policies, entry, authSlots, call>>

GiveUp(r) ==
    /\ check[r].state \in {"asking", "answered"}
    /\ check[r].attempt = MaxAttempts - 1
    /\ EndCheck(r, "unavailable")
    /\ Release

Retry(r) ==
    /\ check[r].state = "backoff"
    /\ check' = [check EXCEPT ![r].state = "asking", ![r].attempt = @ + 1]
    /\ UNCHANGED <<now, policyVars, policies, entry, authSlots, call>>

Timeout(r) ==
    /\ check[r].state \in Running
    /\ now >= check[r].started + CheckTimeout
    /\ EndCheck(r, "unavailable")
    /\ Release

-----------------------------------------------------------------------------
(* A waiter sees the closed channel, or its own context ends first.        *)
Wake(c) ==
    /\ call[c].state = "waiting"
    /\ entry[call[c].entry].ready
    /\ call' = [call EXCEPT ![c].state = entry[call[c].entry].outcome,
                            ![c].entry = NoEntry]
    /\ UNCHANGED <<now, policyVars, policies, check, authSlots>>
    /\ entry' = Collected(entry)

CancelWaitingStopsCheck(c) ==
    /\ call[c].state = "waiting"
    /\ call' = [call EXCEPT ![c].state = "cancelled", ![c].entry = NoEntry]
    /\ check' = [check EXCEPT ![call[c].entry] = NoCheck]
    /\ authSlots' = IF check[call[c].entry].state \in Running THEN authSlots - 1 ELSE authSlots
    /\ UNCHANGED <<now, policyVars, policies>>
    /\ entry' = Collected(entry)
CancelWaiting(c) ==
    /\ call[c].state = "waiting"
    /\ call' = [call EXCEPT ![c].state = "cancelled", ![c].entry = NoEntry]
    /\ UNCHANGED <<now, policyVars, policies, check, authSlots>>
    /\ entry' = Collected(entry)

CancelBackend(c) ==
    /\ call[c].state = "backend"
    /\ check[c].state \in Running
    /\ EndCheck(c, "cancelled")
    /\ Release

Done(c) ==
    /\ call[c].state \in Outcome
    /\ call' = [call EXCEPT ![c] = NoCall]
    /\ UNCHANGED <<now, policyVars, policies, entry, check, authSlots>>

(* Goroutines that can run do so, and timers fire, before a second passes. *)
Tick ==
    /\ now < MaxTime
    /\ \A r \in Runner :
        /\ check[r].state # "start"
        /\ check[r].state \in Running => now < check[r].started + CheckTimeout
    /\ \A c \in Caller : call[c].state = "waiting" => ~entry[call[c].entry].ready
    /\ now' = now + 1
    /\ UNCHANGED <<policyVars, policies, entry, check, authSlots, call>>

PolicyStep == \E t \in Token : Grant(t) \/ Revoke(t)
CallStep(c) ==
    \/ \E t \in Token : \/ AuthorizeMalformed(c, t) \/ AuthorizeShared(c, t)
                        \/ AuthorizeNew(c, t) \/ AuthorizeUncached(c, t)
    \/ Wake(c) \/ CancelWaiting(c) \/ CancelBackend(c) \/ Done(c)
CheckStep(r) ==
    \/ CheckStart(r) \/ CheckRefused(r) \/ Evaluate(r) \/ Receive(r) \/ Unusable(r)
    \/ Transient(r) \/ GiveUp(r) \/ Retry(r) \/ Timeout(r)

Next ==
    \/ PolicyStep
    \/ \E c \in Caller : CallStep(c)
    \/ \E r \in Runner : CheckStep(r)
    \/ Tick

Spec == Init /\ [][Next]_vars

(* The runtime schedules goroutines and timers, and time passes however    *)
(* busy the relay is (Tick is disabled while a goroutine is about to run,  *)
(* hence strong fairness).  Nothing is assumed of the policy service: it   *)
(* may never answer.                                                       *)
Fairness ==
    /\ SF_vars(Tick)
    /\ \A r \in Runner : WF_vars(CheckStart(r) \/ CheckRefused(r))
                         /\ WF_vars(Retry(r)) /\ WF_vars(Timeout(r))
    /\ \A c \in Caller : WF_vars(Wake(c))

FairSpec == Spec /\ Fairness

-----------------------------------------------------------------------------
TypeOK ==
    /\ now \in Nat
    /\ permitted \in [Token -> BOOLEAN]
    /\ lastYes \in [Token -> Int]
    /\ lastNo \in [Token -> Int]
    /\ changes \in Nat
    /\ policies \in [Token -> Entry \cup {NoEntry}]
    /\ entry \in [Entry -> EntryState]
    /\ check \in [Runner -> Check]
    /\ authSlots \in Nat
    /\ call \in [Caller -> Call]

(* The map is sound.  A shared check is always the one it names for the   *)
(* token: so there is at most one per token, and the entry a failed check  *)
(* deletes by key (auth.go:69) is its own, never a newer one.  Failures    *)
(* are shared with those already waiting but never cached: what the map    *)
(* offers to later callers is a check in flight or a policy.  It never     *)
(* outgrows its limit.  And the slots of authSlots are held by exactly the *)
(* checks that talk to the policy service, at most MaxAuthChecks, although *)
(* callers, timeouts and cancellations end them in any order.              *)
CacheSound ==
    /\ \A e \in Entry : check[e].state # "none" => policies[check[e].token] = e
    /\ \A t \in Token : policies[t] # NoEntry /\ entry[policies[t]].ready =>
        entry[policies[t]].outcome = "ok"
    /\ Cardinality(Held(policies)) <= MaxPolicies
    /\ authSlots = Cardinality({r \in Runner : check[r].state \in Running})
    /\ authSlots <= MaxAuthChecks

(* A waiter is never stranded: the entry it holds is either published or   *)
(* still being checked for the waiter's own token, whatever the map has    *)
(* dropped or replaced meanwhile.                                          *)
WaitersServed ==
    \A c \in Caller : call[c].state = "waiting" =>
        \/ entry[call[c].entry].ready
        \/ /\ check[call[c].entry].state # "none"
           /\ check[call[c].entry].token = call[c].token

(* What a caller sees is what Authorizer promises.                         *)
AbstractState(s) == IF s \in {"waiting", "backend"} THEN "busy" ELSE s
AbstractCall ==
    [c \in Caller |-> [state |-> AbstractState(call[c].state),
                       token |-> call[c].token, began |-> call[c].began]]
Promise == INSTANCE Authorizer WITH call <- AbstractCall

(* Refinement: every behaviour of the cache is one of Authorizer's.        *)
ImplementsAuthorizer == Promise!Spec

(* Every call returns, even if the policy service never answers and other  *)
(* callers give up waiting on the shared check.                            *)
CallsReturn ==
    \A c \in Caller : call[c].state \in {"waiting", "backend"} ~> call[c].state \in Outcome
=============================================================================
