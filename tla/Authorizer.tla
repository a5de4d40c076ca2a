----------------------------- MODULE Authorizer -----------------------------
(***************************************************************************)
(* What relayServer.authorize promises its callers, without saying how.    *)
(*                                                                         *)
(* A call made at time "began" returns within CheckTimeout.  It may always *)
(* return an error.  When it returns a policy, the policy service held the *)
(* credential permitted at most PolicyAge seconds before; when it reports  *)
(* a denial, the service held it forbidden at most CheckTimeout seconds    *)
(* before.  The clock counts whole seconds.                                *)
(*                                                                         *)
(* RelayAuth implements this module; RelayWatch is built on it.            *)
(***************************************************************************)
EXTENDS Integers

CONSTANTS
    Token,         \* Authorization header values
    WellFormed,    \* those that start with "Bearer " and are short enough
    NoToken,       \* the token of a caller that makes no call
    Caller,        \* goroutines that call authorize
    TTL,           \* relayServer.policyTTL
    CheckTimeout,  \* the deadline of one check against the policy service
    MaxTime        \* bound: the last instant of the clock

ASSUME AuthorizerAssumption ==
    /\ WellFormed \subseteq Token
    /\ NoToken \notin Token
    /\ TTL \in Nat
    /\ CheckTimeout \in Nat \ {0}
    /\ MaxTime \in Nat

VARIABLES
    now,           \* the clock
    permitted,     \* what the policy service would answer at this instant
    lastYes,       \* lastYes[t]: when t last ceased to be permitted
    lastNo,        \* lastNo[t]: when t last became permitted
    call           \* call[c]: the call c is making, or its result

vars == <<now, permitted, lastYes, lastNo, call>>

Outcome == {"ok", "denied", "unavailable", "cancelled"}

(* Longer ago than any answer may be.                                      *)
Never == 0 - (TTL + CheckTimeout + 1)

(* The oldest a policy may be: a cached one is used only before it expires *)
(* and its check may have taken CheckTimeout; with no cache (TTL = 0) only *)
(* the check counts.                                                       *)
PolicyAge == IF TTL > 0 THEN TTL + CheckTimeout - 1 ELSE CheckTimeout

Call == [state : {"idle", "busy"} \cup Outcome, token : Token \cup {NoToken}, began : Nat]
NoCall == [state |-> "idle", token |-> NoToken, began |-> 0]

(* The service permitted (forbade) t at some instant since x.              *)
PermittedSince(t, x) == permitted[t] \/ lastYes[t] >= x
ForbiddenSince(t, x) == ~permitted[t] \/ lastNo[t] >= x

Init ==
    /\ now = 0
    /\ permitted \in {p \in [Token -> BOOLEAN] : \A t \in Token \ WellFormed : ~p[t]}
    /\ lastYes = [t \in Token |-> Never]
    /\ lastNo = [t \in Token |-> Never]
    /\ call = [c \in Caller |-> NoCall]

(* An administrator grants or withdraws access.                            *)
Grant(t) ==
    /\ t \in WellFormed
    /\ ~permitted[t]
    /\ permitted' = [permitted EXCEPT ![t] = TRUE]
    /\ lastNo' = [lastNo EXCEPT ![t] = now]
    /\ UNCHANGED <<now, lastYes, call>>

Revoke(t) ==
    /\ permitted[t]
    /\ permitted' = [permitted EXCEPT ![t] = FALSE]
    /\ lastYes' = [lastYes EXCEPT ![t] = now]
    /\ UNCHANGED <<now, lastNo, call>>

Begin(c, t) ==
    /\ call[c].state = "idle"
    /\ call' = [call EXCEPT ![c] = [state |-> "busy", token |-> t, began |-> now]]
    /\ UNCHANGED <<now, permitted, lastYes, lastNo>>

(* The results a call on token t may have now.                             *)
MayReturn(t, outcome) ==
    /\ outcome = "ok" => PermittedSince(t, now - PolicyAge)
    /\ outcome = "denied" => ForbiddenSince(t, now - CheckTimeout)

Return(c, outcome) ==
    /\ call[c].state = "busy"
    /\ MayReturn(call[c].token, outcome)
    /\ call' = [call EXCEPT ![c].state = outcome]
    /\ UNCHANGED <<now, permitted, lastYes, lastNo>>

(* A malformed credential is denied on the spot.                           *)
Refuse(c, t) ==
    /\ call[c].state = "idle"
    /\ t \notin WellFormed
    /\ call' = [call EXCEPT ![c] = [state |-> "denied", token |-> t, began |-> now]]
    /\ UNCHANGED <<now, permitted, lastYes, lastNo>>

Done(c) ==
    /\ call[c].state \in Outcome
    /\ call' = [call EXCEPT ![c] = NoCall]
    /\ UNCHANGED <<now, permitted, lastYes, lastNo>>

(* Time passes only while no call is overdue.                              *)
Tick ==
    /\ now < MaxTime
    /\ \A c \in Caller : call[c].state = "busy" => now < call[c].began + CheckTimeout
    /\ now' = now + 1
    /\ UNCHANGED <<permitted, lastYes, lastNo, call>>

Next ==
    \/ \E t \in Token : Grant(t) \/ Revoke(t)
    \/ \E c \in Caller, t \in Token : Begin(c, t) \/ Refuse(c, t)
    \/ \E c \in Caller, outcome \in Outcome : Return(c, outcome)
    \/ \E c \in Caller : Done(c)
    \/ Tick

Spec == Init /\ [][Next]_vars
=============================================================================
