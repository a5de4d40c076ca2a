----------------------------- MODULE RelayWatch -----------------------------
(***************************************************************************)
(* How long a relay flow may outlive its permission.                       *)
(*                                                                         *)
(* A request is authorized once (relay/main.go ServeHTTP), its destination *)
(* is resolved and dialled, and from then on a watcher re-authorizes the   *)
(* flow at every tick of its ticker and closes it on any other answer than *)
(* a policy.  The calls of authorize are those of Authorizer, which        *)
(* RelayAuth implements; a flow makes one at a time.                       *)
(*                                                                         *)
(* KeepUnavailable is a seeded fault, not used by the specification: with  *)
(* it in place of Keep, a property fails.                                  *)
(***************************************************************************)
EXTENDS Authorizer

CONSTANTS
    Recheck,      \* relayServer.recheck, the watcher's period
    SetupTimeout  \* resolving (5 s) and then dialling (5 s) a destination

(* A check is over before the next tick is due (3 s and 5 s), so the       *)
(* ticker never drops a tick.                                              *)
ASSUME RelayWatchAssumption ==
    /\ Recheck \in Nat \ {0}
    /\ CheckTimeout <= Recheck
    /\ SetupTimeout \in Nat

VARIABLE flow     \* flow[c]: the flow of the handler c

watchVars == <<now, permitted, lastYes, lastNo, call, flow>>

Live == {"open", "recheck"}

(* "since" is when the flow was admitted (setup) or opened; "tick" is when *)
(* the ticker fires next.                                                  *)
Flow == [state : {"none", "auth", "setup"} \cup Live, token : Token \cup {NoToken},
         since : Nat, tick : Nat]
NoFlow == [state |-> "none", token |-> NoToken, since |-> 0, tick |-> 0]

(* The longest a permission that ended can keep a flow open that was open  *)
(* when it ended; and any flow, one still being authorized included.       *)
OpenBound == PolicyAge + Recheck + CheckTimeout
AnyBound == OpenBound + SetupTimeout

WatchInit == Init /\ flow = [c \in Caller |-> NoFlow]

-----------------------------------------------------------------------------
(* Bound: permission ends early enough for the clock to show the effect.   *)
Administer ==
    /\ \E t \in Token : Grant(t) \/ (now + AnyBound < MaxTime /\ Revoke(t))
    /\ UNCHANGED flow

Request(c, t) ==
    /\ flow[c].state = "none"
    /\ Begin(c, t) \/ Refuse(c, t)
    /\ flow' = [flow EXCEPT ![c] = [NoFlow EXCEPT !.state = "auth", !.token = t]]

Authorized(c) ==
    /\ flow[c].state \in {"auth", "recheck"}
    /\ \E outcome \in Outcome : Return(c, outcome)
    /\ UNCHANGED flow

(* The handler goes on with a policy and rejects the request otherwise.    *)
Admit(c) ==
    /\ flow[c].state = "auth"
    /\ call[c].state = "ok"
    /\ Done(c)
    /\ flow' = [flow EXCEPT ![c].state = "setup", ![c].since = now]

Reject(c) ==
    /\ flow[c].state = "auth"
    /\ call[c].state \in Outcome \ {"ok"}
    /\ Done(c)
    /\ flow' = [flow EXCEPT ![c] = NoFlow]

(* The destination answered: the flow opens and its ticker starts.         *)
Dialled(c) ==
    /\ flow[c].state = "setup"
    /\ flow' = [flow EXCEPT ![c].state = "open", ![c].since = now, ![c].tick = now + Recheck]
    /\ UNCHANGED vars

(* watch: a tick asks for authorization again.                             *)
Fire(c) ==
    /\ flow[c].state = "open"
    /\ now >= flow[c].tick
    /\ Begin(c, flow[c].token)
    /\ flow' = [flow EXCEPT ![c].state = "recheck", ![c].tick = @ + Recheck]

(* A policy keeps the flow open until the next tick.                       *)
KeepUnavailable(c) ==
    /\ flow[c].state = "recheck"
    /\ call[c].state \in {"ok", "unavailable"}
    /\ Done(c)
    /\ flow' = [flow EXCEPT ![c].state = "open"]
Keep(c) ==
    /\ flow[c].state = "recheck"
    /\ call[c].state = "ok"
    /\ Done(c)
    /\ flow' = [flow EXCEPT ![c].state = "open"]

(* A denial or an error closes the flow.                                   *)
Close(c) ==
    /\ flow[c].state = "recheck"
    /\ call[c].state \in Outcome \ {"ok"}
    /\ Done(c)
    /\ flow' = [flow EXCEPT ![c] = NoFlow]

(* The destination cannot be reached in time, or the peers end the flow.   *)
End(c) ==
    /\ flow[c].state \in {"setup", "open"}
    /\ flow' = [flow EXCEPT ![c] = NoFlow]
    /\ UNCHANGED vars

(* Timers fire and goroutines run before a second passes.                  *)
Advance ==
    /\ \A c \in Caller :
        /\ flow[c].state = "setup" => now < flow[c].since + SetupTimeout
        /\ flow[c].state = "open" => now < flow[c].tick
        /\ flow[c].state \in {"auth", "recheck"} => call[c].state = "busy"
    /\ Tick
    /\ UNCHANGED flow

FlowStep(c) ==
    \/ \E t \in Token : Request(c, t)
    \/ Authorized(c) \/ Admit(c) \/ Reject(c) \/ Dialled(c)
    \/ Fire(c) \/ Keep(c) \/ Close(c) \/ End(c)

WatchNext == Administer \/ Advance \/ \E c \in Caller : FlowStep(c)

WatchSpec == WatchInit /\ [][WatchNext]_watchVars

(* Time passes however busy the relay is (Advance is disabled while a      *)
(* goroutine is about to run, hence strong fairness); authorize returns;   *)
(* the runtime runs ready goroutines.                                      *)
WatchFairness ==
    /\ SF_watchVars(Advance)
    /\ \A c \in Caller : /\ WF_watchVars(Authorized(c))
                         /\ WF_watchVars(Admit(c) \/ Reject(c) \/ Keep(c) \/ Close(c))
                         /\ WF_watchVars(Fire(c))
                         /\ WF_watchVars(End(c) /\ flow[c].state = "setup")

FairWatchSpec == WatchSpec /\ WatchFairness

-----------------------------------------------------------------------------
WatchTypeOK ==
    /\ now \in Nat
    /\ permitted \in [Token -> BOOLEAN]
    /\ lastYes \in [Token -> Int]
    /\ lastNo \in [Token -> Int]
    /\ call \in [Caller -> Call]
    /\ flow \in [Caller -> Flow]

Stale(c) == flow[c].state \in Live /\ ~permitted[flow[c].token]

(* A flow that was open when its permission ended is closed at most        *)
(* OpenBound seconds later: the answer of its last good check may be       *)
(* PolicyAge old, the next tick comes Recheck later, and its check may     *)
(* take CheckTimeout (watch, main.go:51-76).                               *)
OpenFlowsEnd ==
    \A c \in Caller : Stale(c) /\ flow[c].since <= lastYes[flow[c].token] =>
        now <= lastYes[flow[c].token] + OpenBound

(* A flow that was still being authorized, resolved or dialled when its    *)
(* permission ended may even open after that; it is closed at most         *)
(* AnyBound seconds after the permission ended.                            *)
AnyFlowEnds ==
    \A c \in Caller : Stale(c) => now <= lastYes[flow[c].token] + AnyBound

(* Both bounds hold, whatever checks are slow, fail or find the policy     *)
(* service unavailable.                                                    *)
FlowsEnd == OpenFlowsEnd /\ AnyFlowEnds

(* The documented bound for active flows (main.go:49-50,                  *)
(* README.md:202-203): recheck period, check timeout and cache lifetime,   *)
(* about nine seconds.                                                     *)
DocumentedBound ==
    \A c \in Caller : Stale(c) /\ flow[c].since <= lastYes[flow[c].token] =>
        now <= lastYes[flow[c].token] + Recheck + CheckTimeout + TTL

(* A flow without permission does not stay open for ever.                  *)
StaleFlowsEnd == \A c \in Caller : Stale(c) ~> ~Stale(c)
=============================================================================
