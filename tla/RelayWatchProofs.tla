-------------------------- MODULE RelayWatchProofs --------------------------
(***************************************************************************)
(* For any timings, callers and tokens: the bounds of RelayWatch, the      *)
(* stream of RelayStream and the sessions and streams of WebSessions, one  *)
(* section each.                                                           *)
(*                                                                         *)
(* The bounds are not inductive.  Good adds, for every flow, how its       *)
(* position is tied to the clock and to the end of its permission: where   *)
(* the next tick lies, how long the present check has run, and how far a   *)
(* good answer reaches.  SessionsEnd needs that no session ended before    *)
(* its stream's last look (EndsLater), and that looks are not late         *)
(* (StreamsLooked).                                                        *)
(***************************************************************************)
EXTENDS RelayWatch, RelayStream, WebSessions, TLAPS

Checking(c) == flow[c].state \in {"auth", "recheck"}

(* A flow's call is in step with it, and neither is overdue.               *)
InStep(c) ==
    /\ ~Checking(c) => call[c].state = "idle"
    /\ Checking(c) =>
        /\ call[c].state # "idle"
        /\ call[c].token = flow[c].token
        /\ call[c].began <= now
        /\ now <= call[c].began + CheckTimeout
    /\ flow[c].state # "none" => flow[c].token \in Token
    /\ flow[c].state \in {"setup", "open", "recheck"} => flow[c].since <= now
    /\ flow[c].state = "setup" => now <= flow[c].since + SetupTimeout
    /\ flow[c].state = "open" => now <= flow[c].tick /\ flow[c].tick <= now + Recheck
    /\ flow[c].state = "recheck" => flow[c].tick = call[c].began + Recheck

(* What is left to a flow whose permission has ended at time x.            *)
Reach(c, x) ==
    /\ Checking(c) /\ call[c].state = "ok" => now <= x + PolicyAge
    /\ flow[c].state = "setup" => flow[c].since <= x + PolicyAge
    /\ flow[c].state = "open" =>
        /\ flow[c].tick <= x + PolicyAge + SetupTimeout + Recheck
        /\ flow[c].since <= x => flow[c].tick <= x + PolicyAge + Recheck
    /\ flow[c].state = "recheck" =>
        /\ call[c].began <= x + PolicyAge + SetupTimeout + Recheck
        /\ flow[c].since <= x => call[c].began <= x + PolicyAge + Recheck

Good(c) ==
    /\ InStep(c)
    /\ flow[c].state # "none" /\ ~permitted[flow[c].token] => Reach(c, lastYes[flow[c].token])

WatchInv == WatchTypeOK /\ (\A t \in Token : lastYes[t] <= now) /\ \A c \in Caller : Good(c)

-----------------------------------------------------------------------------
USE AuthorizerAssumption, RelayWatchAssumption

LEMMA InitInv == WatchInit => WatchInv
  BY DEF WatchInit, Init, WatchInv, WatchTypeOK, Good, InStep, Checking, NoFlow, NoCall, Flow,
         Call, Never, Live, Outcome

(* The steps of one flow leave the clock and the permissions alone, so the *)
(* other flows stay good.                                                  *)
LEMMA OtherFlows ==
  ASSUME WatchInv, NEW c \in Caller, WatchTypeOK', Good(c)',
         UNCHANGED <<now, permitted, lastYes, lastNo>>,
         \A d \in Caller \ {c} : flow'[d] = flow[d] /\ call'[d] = call[d]
  PROVE  WatchInv'
  BY DEF WatchInv, Good, InStep, Reach, Checking

LEMMA FlowStepInv == ASSUME WatchInv, NEW c \in Caller, FlowStep(c) PROVE WatchInv'
<1> USE DEF WatchInv, WatchTypeOK
<1>1. ASSUME NEW t \in Token, Request(c, t) PROVE WatchInv'
  <2>1. WatchTypeOK'
    <3>1. call' \in [Caller -> Call]
      BY <1>1 DEF Request, Begin, Refuse, Call, Outcome
    <3>2. flow' \in [Caller -> Flow]
      BY <1>1, Zenon DEF Request, Flow, NoFlow
    <3> QED
      BY <1>1, <3>1, <3>2, Zenon DEF Request, Begin, Refuse
  <2>2. Good(c)'
    BY <1>1 DEF Request, Begin, Refuse, Flow, Call, NoFlow, Good, InStep, Reach, Checking
  <2> QED
    BY <1>1, <2>1, <2>2, OtherFlows, Zenon DEF Request, Begin, Refuse
<1>2. CASE Authorized(c)
  <2>1. WatchTypeOK'
    BY <1>2 DEF Authorized, Return, Call
  <2>2. Good(c)'
    BY <1>2 DEF Authorized, Return, MayReturn, PermittedSince, Call, Flow, Outcome, Good, InStep,
                Reach, Checking, PolicyAge
  <2> QED
    BY <1>2, <2>1, <2>2, OtherFlows, Zenon DEF Authorized, Return
<1>3. CASE Admit(c) \/ Reject(c)
  <2>1. WatchTypeOK'
    <3>1. call' \in [Caller -> Call]
      BY <1>3 DEF Admit, Reject, Done, Call, NoCall
    <3>2. flow' \in [Caller -> Flow]
      <4>1. CASE Admit(c)
        <5> DEFINE f == [flow[c] EXCEPT !.state = "setup", !.since = now]
        <5>1. f \in Flow
          BY Zenon DEF Flow
        <5>2. flow' = [flow EXCEPT ![c] = f]
          BY <4>1, Zenon DEF Admit
        <5> HIDE DEF f
        <5>3. QED
          BY <5>1, <5>2, Zenon
      <4>2. CASE Reject(c)
        <5>1. NoFlow \in Flow
          BY Zenon DEF Flow, NoFlow
        <5>2. QED
          BY <4>2, <5>1, Zenon DEF Reject
      <4>3. QED
        BY <1>3, <4>1, <4>2, Zenon
    <3> QED
      BY <1>3, <3>1, <3>2, Zenon DEF Admit, Reject, Done
  <2>2. Good(c)'
    BY <1>3 DEF Admit, Reject, Done, Call, NoCall, Flow, NoFlow, Good, InStep, Reach, Checking
  <2> QED
    BY <1>3, <2>1, <2>2, OtherFlows, Zenon DEF Admit, Reject, Done
<1>4. CASE Dialled(c) \/ End(c)
  <2>1. WatchTypeOK'
    BY <1>4 DEF Dialled, End, vars, Flow, NoFlow, Live
  <2>2. Good(c)'
    BY <1>4 DEF Dialled, End, vars, Flow, NoFlow, Good, InStep, Reach, Checking, PolicyAge
  <2> QED
    BY <1>4, <2>1, <2>2, OtherFlows, Zenon DEF Dialled, End, vars
<1>5. CASE Fire(c)
  <2>1. WatchTypeOK'
    BY <1>5 DEF Fire, Begin, Call, Flow, Live, Good, InStep
  <2>2. Good(c)'
    BY <1>5 DEF Fire, Begin, Call, Flow, Good, InStep, Reach, Checking
  <2> QED
    BY <1>5, <2>1, <2>2, OtherFlows, Zenon DEF Fire, Begin
<1>6. CASE Keep(c) \/ Close(c)
  <2>1. WatchTypeOK'
    <3>1. call' \in [Caller -> Call]
      BY <1>6 DEF Keep, Close, Done, Call, NoCall
    <3>2. flow' \in [Caller -> Flow]
      BY <1>6 DEF Keep, Close, Flow, NoFlow, Live
    <3> QED
      BY <1>6, <3>1, <3>2, Zenon DEF Keep, Close, Done
  <2>2. CASE Keep(c)
    <3>1. call'[c].state = "idle" /\ flow'[c] = [flow[c] EXCEPT !.state = "open"]
      BY <2>2, Zenon DEF Keep, Done, NoCall
    <3>2. Good(c)'
      BY <2>2, <3>1 DEF Keep, Done, Call, Flow, Good, InStep, Reach, Checking, PolicyAge
    <3> QED
      BY <2>1, <2>2, <3>2, OtherFlows, Zenon DEF Keep, Done
  <2>3. CASE Close(c)
    <3>1. Good(c)'
      BY <2>3 DEF Close, Done, Call, NoCall, Flow, NoFlow, Good, InStep, Reach, Checking
    <3> QED
      BY <2>1, <2>3, <3>1, OtherFlows, Zenon DEF Close, Done
  <2> QED
    BY <1>6, <2>2, <2>3, Zenon
<1> QED
  BY <1>1, <1>2, <1>3, <1>4, <1>5, <1>6, Zenon DEF FlowStep

LEMMA AdministerInv == ASSUME WatchInv, Administer PROVE WatchInv'
<1>1. PICK t \in Token : Grant(t) \/ Revoke(t)
  BY Zenon DEF Administer
<1>2. WatchTypeOK' /\ (\A u \in Token : lastYes'[u] <= now')
  <2>1. CASE Grant(t)
    BY <2>1 DEF Administer, Grant, WatchInv, WatchTypeOK
  <2>2. CASE Revoke(t)
    BY <2>2 DEF Administer, Revoke, WatchInv, WatchTypeOK
  <2> QED
    BY <1>1, <2>1, <2>2, Zenon
<1>3. ASSUME NEW c \in Caller PROVE Good(c)'
  <2> flow[c] \in Flow /\ call[c] \in Call
    BY Zenon DEF WatchInv, WatchTypeOK
  <2>1. InStep(c)'
    BY <1>1 DEF Administer, Grant, Revoke, WatchInv, Good, InStep, Checking
  <2>2. CASE flow[c].token # t
    BY <1>1, <2>1, <2>2 DEF Administer, Grant, Revoke, WatchInv, WatchTypeOK, Good, Reach, Checking,
                            InStep
  <2>3. CASE flow[c].token = t
    BY <1>1, <2>1, <2>3 DEF Administer, Grant, Revoke, WatchInv, WatchTypeOK, Good, InStep, Reach,
                            Checking, PolicyAge, Flow, Call
  <2> QED
    BY <2>2, <2>3, Zenon
<1> QED
  BY <1>2, <1>3, Zenon DEF WatchInv

LEMMA AdvanceInv == ASSUME WatchInv, Advance PROVE WatchInv'
<1>1. WatchTypeOK' /\ (\A u \in Token : lastYes'[u] <= now')
  BY DEF Advance, Tick, WatchInv, WatchTypeOK
<1>2. ASSUME NEW c \in Caller PROVE Good(c)'
  <2> flow[c] \in Flow /\ call[c] \in Call
    BY Zenon DEF WatchInv, WatchTypeOK
  <2> QED
    BY DEF Advance, Tick, WatchInv, WatchTypeOK, Good, InStep, Reach, Checking, Flow, Call
<1> QED
  BY <1>1, <1>2, Zenon DEF WatchInv

LEMMA StutterInv == ASSUME WatchInv, UNCHANGED watchVars PROVE WatchInv'
  BY DEF WatchInv, watchVars, WatchTypeOK, Good, InStep, Reach, Checking

(* The inductive invariant of the watcher.                                 *)
THEOREM WatchInvariant == WatchSpec => []WatchInv
<1>1. WatchInv /\ [WatchNext]_watchVars => WatchInv'
  BY FlowStepInv, AdministerInv, AdvanceInv, StutterInv, Zenon DEF WatchNext
<1> QED
  BY <1>1, InitInv, PTL DEF WatchSpec

(* A flow that was open when its permission ended outlives it by at most   *)
(* OpenBound seconds, for every choice of timeouts and periods (watch,     *)
(* main.go:51-76).                                                         *)
THEOREM OpenFlowsEndTheorem == WatchSpec => []OpenFlowsEnd
<1>1. WatchInv => OpenFlowsEnd
  BY DEF WatchInv, WatchTypeOK, Good, InStep, Reach, Checking, OpenFlowsEnd, Stale, Live, OpenBound,
         PolicyAge, Flow, Call
<1> QED
  BY <1>1, WatchInvariant, PTL

(* Any flow, one still being set up included, outlives its permission by   *)
(* at most AnyBound seconds (ServeHTTP and watch, main.go:51-253).         *)
THEOREM AnyFlowEndsTheorem == WatchSpec => []AnyFlowEnds
<1>1. WatchInv => AnyFlowEnds
  BY DEF WatchInv, WatchTypeOK, Good, InStep, Reach, Checking, AnyFlowEnds, Stale, Live, OpenBound,
         AnyBound, PolicyAge, Flow, Call
<1> QED
  BY <1>1, WatchInvariant, PTL

(* Both bounds of the watcher (watch, main.go:51-76).                      *)
THEOREM FlowsEndTheorem == WatchSpec => []FlowsEnd
<1>1. OpenFlowsEnd /\ AnyFlowEnds => FlowsEnd
  BY Zenon DEF FlowsEnd
<1> QED
  BY <1>1, OpenFlowsEndTheorem, AnyFlowEndsTheorem, PTL

(* Type correctness of the watcher's state.                                *)
THEOREM WatchTypeCorrect == WatchSpec => []WatchTypeOK
<1>1. WatchInv => WatchTypeOK
  BY Zenon DEF WatchInv
<1> QED
  BY <1>1, WatchInvariant, PTL

-----------------------------------------------------------------------------
(* The end of a stream.  What a reset needs: a refused recheck, a lost     *)
(* client or a broken destination.                                         *)
Reason == denied \/ peer = "lost" \/ dest = "broken"
Aborting == {"abort", "abort_check", "abort_reset"}

(* Where the goroutines can be, and where abort lets them go on.           *)
StreamPlaces ==
    /\ kind \in {"tcp", "udp"}
    /\ DOMAIN step = Goroutine /\ DOMAIN resume = Goroutine
    /\ step["watch"] \in {"watch", "gone"} \cup Aborting
    /\ step["up"] \in {"none", "read", "write", "ended", "failed", "gone"} \cup Aborting
    /\ step["handler"] \in {"header", "read", "write", "mark", "mark_failed", "release", "join",
                            "finish", "join_watch", "returned"} \cup Aborting
    /\ step["watch"] \in Aborting => resume["watch"] = "gone"
    /\ step["up"] \in Aborting => resume["up"] = "gone"
    /\ step["handler"] \in Aborting => resume["handler"] \in {"finish", "release"}

(* Nobody is on the way to a reset without a reason, unless the stream is  *)
(* complete, and a copy that failed had one or the response is over.       *)
StreamReasons ==
    /\ deadline => Reason
    /\ once # "unused" => Reason \/ complete
    /\ \A g \in Goroutine : /\ step[g] \in Aborting => Reason \/ complete
                            /\ step[g] = "abort_reset" => Reason
    /\ kind = "tcp" /\ step["up"] = "failed" => Reason \/ responseDone
    /\ step["handler"] = "mark_failed" => Reason

(* The sides of a TCP stream are closed by abort, or after the response.   *)
StreamSides ==
    /\ kind = "tcp" /\ ~(body /\ conn) =>
         once # "unused" \/ responseDone \/ step["handler"] = "returned"
    /\ step["handler"] \in {"mark", "mark_failed"} => kind = "tcp"
    /\ kind = "tcp" /\ (\/ step["handler"] \in {"release", "join"}
                        \/ step["handler"] \in Aborting /\ resume["handler"] = "release")
         => responseDone
    /\ responseDone => step["handler"] \notin {"header", "read", "write", "mark", "mark_failed"}

(* The order in which the three end.                                       *)
StreamOrder ==
    /\ (\/ step["handler"] = "header"
        \/ step["handler"] \in Aborting /\ resume["handler"] = "finish") => step["up"] = "none"
    /\ step["handler"] \in {"finish", "join_watch", "returned"} => step["up"] \in {"none", "gone"}
    /\ complete => step["handler"] \in {"join_watch", "returned"}
    /\ step["handler"] = "returned" => ~conn /\ step["watch"] = "gone"

StreamInv == StreamPlaces /\ StreamReasons /\ StreamSides /\ StreamOrder

LEMMA StreamInitInv == StreamInit => StreamInv
  <1> SUFFICES ASSUME StreamInit PROVE StreamInv
    BY Zenon
  <1> USE DEF StreamInit, Goroutine, Aborting
  <1>1. StreamPlaces
    BY Zenon DEF StreamPlaces
  <1>2. StreamReasons
    BY DEF StreamReasons
  <1>3. StreamSides /\ StreamOrder
    BY Zenon DEF StreamSides, StreamOrder
  <1>4. QED
    BY <1>1, <1>2, <1>3, Zenon DEF StreamInv

LEMMA StreamNextInv == StreamInv /\ [StreamNext]_streamVars => StreamInv'
  <1> SUFFICES ASSUME StreamInv, [StreamNext]_streamVars PROVE StreamInv'
    BY Zenon
  <1> USE DEF StreamInv, StreamPlaces, StreamReasons, StreamSides, StreamOrder, Reason, Aborting,
              Goroutine, flags, peers, sides, aborts, Goes, Aborts
  <1>1. CASE ClientEnds
    BY <1>1 DEF ClientEnds
  <1>2. CASE ClientLost
    BY <1>2 DEF ClientLost
  <1>3. CASE DestEnds
    BY <1>3 DEF DestEnds
  <1>4. CASE DestBreaks
    BY <1>4 DEF DestBreaks
  <1>5. ASSUME NEW g \in Goroutine, AbortStep(g) PROVE StreamInv'
    <2>1. CASE AbortClose(g)
      BY <2>1 DEF AbortClose
    <2>2. CASE AbortCheck(g)
      BY <2>2 DEF AbortCheck
    <2>3. CASE AbortReset(g)
      BY <2>3 DEF AbortReset
    <2>4. CASE AbortAgain(g)
      BY <2>4 DEF AbortAgain
    <2>5. QED
      BY <1>5, <2>1, <2>2, <2>3, <2>4, Zenon DEF AbortStep
  <1>6. CASE WatchDenies
    BY <1>6 DEF WatchDenies
  <1>7. CASE WatchEnds
    BY <1>7 DEF WatchEnds
  <1>8. CASE UpMoves
    BY <1>8 DEF UpMoves
  <1>9. CASE UpEnds
    BY <1>9 DEF UpEnds
  <1>10. CASE UpFails
    BY <1>10 DEF UpFails
  <1>11. CASE UpDone
    BY <1>11, ZenonT(30) DEF UpDone
  <1>12. CASE DownMoves
    BY <1>12 DEF DownMoves
  <1>13. CASE DownEnds
    BY <1>13 DEF DownEnds
  <1>14. CASE SendHeader
    BY <1>14 DEF SendHeader
  <1>15. CASE DownFails
    BY <1>15 DEF DownFails
  <1>16. CASE Mark
    BY <1>16 DEF Mark
  <1>17. CASE ReleaseSides
    BY <1>17 DEF ReleaseSides
  <1>18. CASE Join
    BY <1>18 DEF Join
  <1>19. CASE Finish
    BY <1>19 DEF Finish
  <1>20. CASE HandlerReturns
    BY <1>20 DEF HandlerReturns
  <1>21. CASE UNCHANGED streamVars
    BY <1>21 DEF streamVars
  <1>22. QED
    BY <1>1, <1>2, <1>3, <1>4, <1>5, <1>6, <1>7, <1>8, <1>9, <1>10, <1>11, <1>12, <1>13,
       <1>14, <1>15, <1>16, <1>17, <1>18, <1>19, <1>20, <1>21, Zenon DEF StreamNext, HandlerStep, UpStep

(* Whatever order the three goroutines of an HTTP/2 flow end in: a normal  *)
(* end never resets the stream, and the handler returns last, with the     *)
(* connection closed (watchHTTP2 and proxyHTTP2TCP, http2.go:153-222).     *)
THEOREM StreamCleanTheorem == StreamSpec => []StreamClean
  <1>1. StreamInv => StreamClean
    BY Zenon DEF StreamInv, StreamReasons, StreamOrder, StreamClean, Reason
  <1>2. QED
    BY <1>1, StreamInitInv, StreamNextInv, PTL DEF StreamSpec

-----------------------------------------------------------------------------
(* Web sessions and their streams (main.py, db.py).                        *)

Handling == {"none", "rehash", "session", "extend", "replace", "sign out others", "remove"}
WebCall == [op : Handling, password : Nat, token : SessionToken \cup {0}]
Flag == BOOLEAN
Account == [role : {"admin", "client"}, exists : Flag, password : Nat, old : Flag]
SessionRow == [password : Nat, expires : Nat] \cup {NoSession}
SessionTypes ==
    /\ hour \in Nat /\ crossed \in BOOLEAN
    /\ user \in Account
    /\ session \in [SessionToken -> SessionRow]
    /\ serving \in [WebRequest -> WebCall]
    /\ stream \in [Stream -> [token : SessionToken \cup {0}, checked : Nat]]
    /\ lost \in [SessionToken -> Int]

(* Also of an account that was removed, whose sessions do not work.        *)
PasswordsKept ==
    ~Changing /\ ~crossed =>
        \A t \in SessionToken : session[t] # NoSession => session[t].password = user.password

(* When a session ended, for the given rows and times of loss.             *)
EndOf(rows, gone, t) == IF rows[t] = NoSession THEN gone[t] ELSE rows[t].expires + 1

(* No session ended before the last look at it.                            *)
EndsLater(rows, gone) ==
    \A s \in Stream : stream[s] # Unopened =>
        EndOf(rows, gone, stream[s].token) >= stream[s].checked

(* A stream was looked at in time.                                         *)
Looked(s) ==
    /\ stream[s].token \in SessionToken
    /\ stream[s].checked <= hour /\ hour <= stream[s].checked + SessionRecheck + 1
StreamsLooked == \A s \in Stream : stream[s] # Unopened => Looked(s)

SessionInv ==
    /\ SessionTypes /\ PasswordsKept /\ StreamsLooked /\ EndsLater(session, lost)
    /\ subscribers = {s \in Stream : stream[s] # Unopened}

LEMMA FlagHas == TRUE \in Flag /\ FALSE \in Flag
  BY Zenon DEF Flag

LEMMA SetPassword ==
    ASSUME NEW u \in Account, NEW p \in Nat, NEW f \in Flag
    PROVE  /\ [u EXCEPT !.password = p, !.old = f] \in Account
           /\ [u EXCEPT !.password = p, !.old = f].password = p
  BY Zenon DEF Account

LEMMA NewPasswordGives == ASSUME user \in Account, NewPassword PROVE user' \in Account
  <1>1. user.password + 1 \in Nat
    BY DEF Account
  <1>2. [user EXCEPT !.password = user.password + 1, !.old = FALSE] \in Account
    BY <1>1, FlagHas, SetPassword, Zenon
  <1>3. QED
    BY <1>2, Zenon DEF NewPassword

LEMMA SessionInitInv == SessionInit => SessionInv
  <1> SUFFICES ASSUME SessionInit PROVE SessionInv
    BY Zenon
  <1>1. Free \in WebCall /\ NoSession \in SessionRow
    BY Zenon DEF Free, WebCall, Handling, NoSession, SessionRow
  <1>a. {TRUE} \subseteq Flag /\ BOOLEAN = Flag
    BY Zenon DEF Flag
  <1>2. user \in Account
    <2>1. PICK T : T = {TRUE}
      BY Zenon
    <2>2. user \in [role : {"admin", "client"}, exists : T, password : {1}, old : Flag]
      BY <1>a, <2>1, Zenon DEF SessionInit
    <2>3. T \subseteq Flag
      BY <1>a, <2>1, Zenon
    <2>4. QED
      BY <2>2, <2>3 DEF Account
  <1>3. \A s \in Stream : stream[s] = Unopened /\ Unopened.checked = 0 /\ Unopened.token = 0
    BY Zenon DEF SessionInit, Unopened
  <1>4. SessionTypes
    <2>1. crossed \in BOOLEAN
      BY Zenon DEF SessionInit
    <2>2. QED
      BY <1>1, <1>2, <2>1 DEF SessionInit, SessionTypes, Unopened
  <1>5. PasswordsKept
    BY Zenon DEF SessionInit, PasswordsKept
  <1>6. QED
    BY <1>3, <1>4, <1>5, Zenon DEF SessionInit, SessionInv, StreamsLooked, EndsLater

(* What a handler does next, and whether a password change is on its way.  *)
LEMMA CallGives ==
    ASSUME SessionInv, NEW c \in WebRequest, NEW r \in WebCall,
           serving' = [serving EXCEPT ![c] = r]
    PROVE  /\ serving' \in [WebRequest -> WebCall]
           /\ r.op = "sign out others" => Changing'
           /\ serving[c].op # "sign out others" => (Changing => Changing')
  BY Zenon DEF SessionInv, SessionTypes, Changing

LEMMA AnsweredGives ==
    ASSUME SessionInv, NEW c \in WebRequest, Answered(c)
    PROVE  /\ serving' \in [WebRequest -> WebCall]
           /\ serving[c].op # "sign out others" => (Changing => Changing')
  <1>1. Free \in WebCall
    BY Zenon DEF Free, WebCall, Handling
  <1>2. QED
    BY <1>1, CallGives, Zenon DEF Answered

LEMMA CallAtGives ==
    ASSUME SessionInv, NEW c \in WebRequest, NEW op \in Handling, CallAt(c, op)
    PROVE  /\ serving' \in [WebRequest -> WebCall]
           /\ op = "sign out others" => Changing'
           /\ serving[c].op # "sign out others" => (Changing => Changing')
  <1>1. PICK r : r = [serving[c] EXCEPT !.op = op]
    BY Zenon
  <1>2. r \in WebCall /\ r.op = op
    <2>1. serving[c] \in WebCall
      BY Zenon DEF SessionInv, SessionTypes
    <2>2. QED
      BY <1>1, <2>1 DEF WebCall
  <1>3. serving' = [serving EXCEPT ![c] = r]
    BY <1>1, Zenon DEF CallAt
  <1>4. QED
    BY <1>2, <1>3, CallGives, Zenon

(* The account and the rows as they were, whatever the handlers do.        *)
LEMMA CallKeeps ==
    ASSUME SessionInv, serving' \in [WebRequest -> WebCall], Changing => Changing',
           UNCHANGED <<user, session, stream, subscribers, lost, crossed, hour>>
    PROVE  SessionInv'
  <1>1. SessionTypes'
    BY Zenon DEF SessionInv, SessionTypes
  <1>2. PasswordsKept'
    BY Zenon DEF SessionInv, PasswordsKept
  <1>3. StreamsLooked' /\ EndsLater(session, lost)'
    BY Zenon DEF SessionInv, StreamsLooked, Looked, EndsLater
  <1>4. QED
    BY <1>1, <1>2, <1>3, Zenon DEF SessionInv

(* A deletion notes when a session that is watched ended.                  *)
LEMMA LoseEnds ==
    ASSUME SessionInv, NEW ts \in SUBSET SessionToken, Lose(ts),
           NEW rows, \A t \in ts : rows[t] = NoSession,
           \A t \in SessionToken \ ts : /\ rows[t] = NoSession <=> session[t] = NoSession
                                        /\ rows[t].expires = session[t].expires
    PROVE  EndsLater(rows, lost') /\ lost' \in [SessionToken -> Int]
  <1> USE DEF SessionInv
  <1>1. lost' \in [SessionToken -> Int]
    BY DEF Lose, SessionTypes, SessionRow, NoSession
  <1>2. ASSUME NEW s \in Stream, stream[s] # Unopened
        PROVE  EndOf(rows, lost', stream[s].token) >= stream[s].checked
    <2>1. PICK t \in SessionToken : t = stream[s].token
      BY <1>2, Zenon DEF StreamsLooked, Looked
    <2>2. /\ stream[s].checked \in Nat /\ stream[s].checked <= hour /\ hour \in Nat
          /\ session[t].expires \in Int /\ lost[t] \in Int
      BY <1>2 DEF SessionTypes, SessionRow, NoSession, StreamsLooked, Looked
    <2>3. EndOf(session, lost, t) >= stream[s].checked
      BY <1>2, <2>1, Zenon DEF EndsLater
    <2>4. CASE t \notin ts \/ session[t] = NoSession
      <3>1. lost'[t] = lost[t]
        BY <2>4, Zenon DEF Lose
      <3>2. EndOf(rows, lost', t) = EndOf(session, lost, t)
        BY <2>4, <3>1, Zenon DEF EndOf
      <3>3. QED
        BY <2>1, <2>3, <3>2, Zenon
    <2>5. CASE t \in ts /\ session[t] # NoSession
      <3>1. lost'[t] = IF session[t].expires >= hour THEN hour ELSE session[t].expires + 1
        BY <2>1, <2>5, Zenon DEF Lose
      <3>2. session[t].expires + 1 >= stream[s].checked
        BY <2>3, <2>5, Zenon DEF EndOf
      <3>3. lost'[t] >= stream[s].checked
        BY <2>2, <3>1, <3>2, Zenon
      <3>4. QED
        BY <2>1, <2>5, <3>3, Zenon DEF EndOf
    <2>6. QED
      BY <2>4, <2>5, Zenon
  <1>3. QED
    BY <1>1, <1>2, Zenon DEF EndsLater

LEMMA DeleteGives ==
    ASSUME SessionInv, NEW ts \in SUBSET SessionToken, DeleteSessions(ts)
    PROVE  /\ EndsLater(session', lost') /\ lost' \in [SessionToken -> Int]
           /\ session' \in [SessionToken -> SessionRow]
           /\ \A t \in SessionToken : session'[t] # NoSession =>
                t \notin ts /\ session'[t] = session[t]
  <1>1. \A t \in SessionToken : session'[t] = IF t \in ts THEN NoSession ELSE session[t]
    BY Zenon DEF DeleteSessions
  <1>2. EndsLater(session', lost') /\ lost' \in [SessionToken -> Int]
    BY <1>1, LoseEnds, Zenon DEF DeleteSessions
  <1>3. session' \in [SessionToken -> SessionRow]
    BY Zenon DEF DeleteSessions, SessionInv, SessionTypes, SessionRow, NoSession
  <1>4. QED
    BY <1>1, <1>2, <1>3, Zenon

(* A step that leaves the streams and the clock alone.                     *)
LEMMA StreamsKept ==
    ASSUME SessionInv, UNCHANGED <<stream, subscribers, hour>>,
           EndsLater(session', lost')
    PROVE  /\ StreamsLooked' /\ EndsLater(session, lost)'
           /\ subscribers' = {s \in Stream : stream'[s] # Unopened}
  BY SMTT(30) DEF SessionInv, StreamsLooked, Looked, EndsLater

(* A session that is new to streams, or whose life grows.                  *)
LEMMA LongerEnds ==
    ASSUME SessionInv, NEW rows, NEW k \in SessionToken,
           \A t \in SessionToken \ {k} : rows[t] = session[t],
           \/ rows[k] = session[k]
           \/ /\ rows[k] # NoSession /\ rows[k].expires = hour + SessionTTL
           \/ \A s \in Stream : stream[s].token # k
    PROVE  EndsLater(rows, lost)
  <1> SUFFICES ASSUME NEW s \in Stream, stream[s] # Unopened
               PROVE  EndOf(rows, lost, stream[s].token) >= stream[s].checked
    BY Zenon DEF EndsLater
  <1>1. /\ stream[s].token \in SessionToken /\ stream[s].checked <= hour
        /\ stream[s].checked \in Nat /\ hour \in Nat
    BY Zenon DEF SessionInv, StreamsLooked, Looked, SessionTypes
  <1>2. EndOf(session, lost, stream[s].token) >= stream[s].checked
    BY Zenon DEF SessionInv, EndsLater
  <1>3. CASE rows[stream[s].token] = session[stream[s].token]
    BY <1>2, <1>3, Zenon DEF EndOf
  <1>4. CASE rows[stream[s].token] # session[stream[s].token]
    BY <1>1, <1>4, WebSessionsAssumption DEF EndOf
  <1>5. QED
    BY <1>3, <1>4, SMTT(30)

LEMMA loginInv == ASSUME SessionInv, NEW c \in WebRequest, login(c) PROVE SessionInv'
  <1>0. user \in Account /\ serving[c] \in WebCall /\ hour \in Nat
    BY Zenon DEF SessionInv, SessionTypes
  <1>1. CASE UNCHANGED <<user, session, lost, crossed>> /\ serving[c] = Free
    <2>r. PICK r : r = [op |-> IF user.old THEN "rehash" ELSE "session",
                        password |-> user.password, token |-> 0]
      BY Zenon
    <2>1. serving' = [serving EXCEPT ![c] = r]
      BY <1>1, <2>r DEF login, Free
    <2>2. r \in WebCall /\ serving[c].op # "sign out others"
      BY <1>0, <1>1, <2>r DEF WebCall, Handling, Account, Free
    <2>3. QED
      BY <1>1, <2>1, <2>2, CallGives, CallKeeps, Zenon DEF login
  <1>2. CASE serving[c].op = "rehash"
    <2>1. /\ user' = IF user.exists THEN [user EXCEPT !.password = serving[c].password,
                                                     !.old = FALSE] ELSE user
          /\ crossed' = (crossed \/ user.password # serving[c].password)
          /\ CallAt(c, "session") /\ UNCHANGED <<session, lost, stream, subscribers, hour>>
      BY <1>2 DEF login, Free
    <2>2. serving' \in [WebRequest -> WebCall] /\ (Changing => Changing')
      BY <1>2, <2>1, CallAtGives, Zenon DEF Handling
    <2>3. user' \in Account /\ (~crossed' => user'.password = user.password /\ ~crossed)
      BY <1>0, <2>1, FlagHas, Zenon DEF Account, WebCall
    <2>4. SessionTypes'
      BY <2>1, <2>2, <2>3, Zenon DEF SessionInv, SessionTypes
    <2>5. PasswordsKept'
      BY <2>1, <2>2, <2>3, Zenon DEF SessionInv, PasswordsKept
    <2>6. QED
      BY <2>1, <2>4, <2>5, StreamsKept, Zenon DEF SessionInv
  <1>3. CASE serving[c].op = "session"
    <2>r. PICK r : r = [password |-> serving[c].password, expires |-> hour + SessionTTL]
      BY ZenonT(30)
    <2>1. PICK k \in SessionToken :
            /\ session[k] = NoSession /\ \A s \in Stream : stream[s].token # k
            /\ session' = [session EXCEPT ![k] = r]
            /\ crossed' = (crossed \/ user.password # serving[c].password)
            /\ Answered(c) /\ UNCHANGED <<user, lost, stream, subscribers, hour>>
      BY <1>3, <2>r DEF login, Free
    <2>2. /\ r \in SessionRow /\ r.password = serving[c].password
          /\ \A t \in SessionToken : session'[t] = IF t = k THEN r ELSE session[t]
      BY <1>0, <2>1, <2>r, WebSessionsAssumption DEF WebCall, SessionRow, SessionInv, SessionTypes
    <2>3. serving' \in [WebRequest -> WebCall] /\ (Changing => Changing')
      BY <1>3, <2>1, AnsweredGives, Zenon
    <2>4. SessionTypes'
      BY <2>1, <2>2, <2>3, Zenon DEF SessionInv, SessionTypes
    <2>5. PasswordsKept'
      BY <2>1, <2>2, <2>3, Zenon DEF SessionInv, PasswordsKept
    <2>6. EndsLater(session', lost')
      BY <2>1, <2>2, LongerEnds, Zenon
    <2>7. QED
      BY <2>1, <2>4, <2>5, <2>6, StreamsKept, Zenon DEF SessionInv
  <1>4. QED
    BY <1>1, <1>2, <1>3, Zenon DEF login

LEMMA get_session_userInv ==
    ASSUME SessionInv, NEW c \in WebRequest, get_session_user(c) PROVE SessionInv'
  <1>0. serving[c] \in WebCall /\ hour \in Nat
    BY Zenon DEF SessionInv, SessionTypes
  <1>1. CASE UNCHANGED session /\ serving[c] = Free
    <2>1. PICK t \in LiveSessions :
            /\ serving' = [serving EXCEPT ![c] = [op |-> "extend", password |-> 0, token |-> t]]
      BY <1>1 DEF get_session_user, Free
    <2>r. PICK r : r = [op |-> "extend", password |-> 0, token |-> t]
      BY Zenon
    <2>2. r \in WebCall /\ serving[c].op # "sign out others"
      BY <2>r, <1>1, <2>1 DEF WebCall, Handling, LiveSessions, Free
    <2>3. QED
      BY <2>r, <1>1, <2>1, <2>2, CallGives, CallKeeps, Zenon DEF get_session_user
  <1>2. CASE serving[c].op = "extend"
    <2>1. /\ session' = [session EXCEPT ![serving[c].token] =
                IF @ = NoSession THEN @ ELSE [@ EXCEPT !.expires = hour + SessionTTL]]
          /\ Answered(c) /\ UNCHANGED <<user, stream, subscribers, lost, crossed, hour>>
      BY <1>2 DEF get_session_user, Free
    <2>2. serving' \in [WebRequest -> WebCall] /\ (Changing => Changing')
      BY <1>2, <2>1, AnsweredGives, Zenon
    <2>a. \A t \in SessionToken :
            /\ session'[t] \in SessionRow /\ session'[t].password = session[t].password
            /\ session[t] = NoSession => session'[t] = NoSession
      BY <1>0, <2>1, WebSessionsAssumption DEF SessionInv, SessionTypes, SessionRow, NoSession
    <2>b. SessionTypes'
      BY <2>1, <2>2, <2>a, Zenon DEF SessionInv, SessionTypes
    <2>3. PasswordsKept'
      BY <2>1, <2>2, <2>a, Zenon DEF SessionInv, PasswordsKept
    <2>4. EndsLater(session', lost')
      <3>1. CASE serving[c].token \in SessionToken
        <4>1. PICK k \in SessionToken : k = serving[c].token
          BY <3>1, Zenon
        <4>2. /\ \A t \in SessionToken \ {k} : session'[t] = session[t]
              /\ session[k] = NoSession => session'[k] = session[k]
              /\ session[k] # NoSession => session'[k].expires = hour + SessionTTL
          BY <2>1, <4>1 DEF SessionInv, SessionTypes
        <4>3. session[k] # NoSession => session'[k] # NoSession
          BY <4>2, WebSessionsAssumption DEF NoSession, SessionInv, SessionTypes
        <4>4. QED
          <5>1. \/ session'[k] = session[k]
                \/ session'[k] # NoSession /\ session'[k].expires = hour + SessionTTL
            BY <4>2, <4>3, Zenon
          <5>2. EndsLater(session', lost)
            BY <4>2, <5>1, LongerEnds, Zenon
          <5>3. QED
            BY <2>1, <5>2, Zenon
      <3>2. CASE serving[c].token \notin SessionToken
        <4>1. session' = session
          BY <2>1, <3>2 DEF SessionInv, SessionTypes
        <4>2. QED
          BY <2>1, <4>1, Zenon DEF SessionInv
      <3>3. QED
        BY <3>1, <3>2, Zenon
    <2>5. QED
      BY <2>1, <2>b, <2>3, <2>4, StreamsKept, Zenon DEF SessionInv
  <1>3. QED
    BY <1>1, <1>2, Zenon DEF get_session_user

LEMMA change_passwordInv ==
    ASSUME SessionInv, NEW c \in WebRequest, change_password(c) PROVE SessionInv'
  <1>0. user \in Account /\ serving[c] \in WebCall
    BY Zenon DEF SessionInv, SessionTypes
  <1>1. CASE serving[c] = Free
    <2>1. PICK t \in LiveSessions :
            /\ serving' = [serving EXCEPT ![c] = [op |-> "replace", password |-> user.password, token |-> t]]
            /\ UNCHANGED <<user, session, lost, crossed>>
      BY <1>1 DEF change_password, Free
    <2>r. PICK r : r = [op |-> "replace", password |-> user.password, token |-> t]
      BY Zenon
    <2>2. r \in WebCall /\ serving[c].op # "sign out others"
      BY <2>r, <1>0, <1>1, <2>1 DEF WebCall, Handling, LiveSessions, Free, Account
    <2>3. QED
      BY <2>r, <2>1, <2>2, CallGives, CallKeeps, Zenon DEF change_password
  <1>2. CASE serving[c].op = "replace"
    <2>1. /\ NewPassword /\ CallAt(c, "sign out others")
          /\ crossed' = (crossed \/ user.password # serving[c].password)
          /\ UNCHANGED <<session, lost, stream, subscribers, hour>>
      <3>1. serving[c] # Free /\ serving[c].op # "sign out others"
        BY <1>2 DEF Free
      <3>2. QED
        BY <1>2, <3>1, Zenon DEF change_password
    <2>2. serving' \in [WebRequest -> WebCall] /\ Changing'
      BY <2>1, CallAtGives, Zenon DEF Handling
    <2>3. user' \in Account
      BY <1>0, <2>1, NewPasswordGives, ZenonT(30)
    <2>4. SessionTypes' /\ PasswordsKept'
      BY <2>1, <2>2, <2>3, Zenon DEF SessionInv, SessionTypes, PasswordsKept
    <2>5. QED
      BY <2>1, <2>4, StreamsKept, Zenon DEF SessionInv
  <1>3. CASE serving[c].op = "sign out others"
    <2>1. PICK kept : kept = serving[c].token
      BY Zenon
    <2>2. /\ Answered(c) /\ UNCHANGED <<user, crossed, stream, subscribers, hour>>
          /\ Lose(SessionToken \ {kept})
          /\ session' = [t \in SessionToken |->
                IF t # kept \/ session[t] = NoSession THEN NoSession
                ELSE [session[t] EXCEPT !.password = user.password]]
      <3>1. serving[c] # Free
        <4>1. Free.op = "none"
          BY Zenon DEF Free
        <4>2. QED
          BY <1>3, <4>1, Zenon
      <3>2. serving[c].op # "replace"
        BY <1>3, Zenon
      <3>3. QED
        BY <1>3, <2>1, <3>1, <3>2, Zenon DEF change_password
    <2>3. /\ \A t \in SessionToken \ {kept} : session'[t] = NoSession
          /\ kept \in SessionToken /\ session[kept] = NoSession => session'[kept] = NoSession
          /\ kept \in SessionToken /\ session[kept] # NoSession =>
                session'[kept] = [session[kept] EXCEPT !.password = user.password]
      BY <2>2, Zenon
    <2>4. kept \in SessionToken =>
            /\ session'[kept] = NoSession <=> session[kept] = NoSession
            /\ session'[kept].expires = session[kept].expires
      <3> SUFFICES ASSUME kept \in SessionToken, session[kept] # NoSession
                   PROVE  /\ session'[kept] # NoSession
                          /\ session'[kept].expires = session[kept].expires
        BY <2>3, Zenon
      <3>1. session[kept] \in SessionRow
        BY Zenon DEF SessionInv, SessionTypes
      <3>2. QED
        BY <2>3, <3>1 DEF NoSession, SessionRow
    <2>5. EndsLater(session', lost') /\ lost' \in [SessionToken -> Int]
      <3>1. PICK ts \in SUBSET SessionToken : ts = SessionToken \ {kept}
        BY Zenon
      <3>2. \A t \in ts : session'[t] = NoSession
        BY <2>3, <3>1, Zenon
      <3>3. \A t \in SessionToken \ ts : /\ session'[t] = NoSession <=> session[t] = NoSession
                                         /\ session'[t].expires = session[t].expires
        BY <2>4, <3>1, Zenon
      <3>4. Lose(ts)
        BY <2>2, <3>1, Zenon
      <3>5. QED
        BY <3>2, <3>3, <3>4, LoseEnds, Zenon
    <2>a. \A t \in SessionToken : /\ session'[t] \in SessionRow
                                  /\ session'[t] # NoSession => session'[t].password = user.password
      <3> SUFFICES ASSUME NEW t \in SessionToken
                   PROVE  /\ session'[t] \in SessionRow
                          /\ session'[t] # NoSession => session'[t].password = user.password
        BY Zenon
      <3>1. session[t] \in SessionRow /\ NoSession \in SessionRow /\ user.password \in Nat
        BY <1>0, Zenon DEF SessionInv, SessionTypes, NoSession, SessionRow, Account
      <3>2. QED
        BY <2>3, <3>1, Zenon DEF SessionRow
    <2>b. serving' \in [WebRequest -> WebCall]
      BY <2>2, AnsweredGives, Zenon
    <2>6. SessionTypes'
      BY <2>2, <2>5, <2>a, <2>b, Zenon DEF SessionInv, SessionTypes
    <2>7. PasswordsKept'
      BY <2>2, <2>a, Zenon DEF PasswordsKept
    <2>8. QED
      BY <2>2, <2>5, <2>6, <2>7, StreamsKept, Zenon DEF SessionInv
  <1>4. QED
    BY <1>1, <1>2, <1>3, Zenon DEF change_password

LEMMA AccountInv ==
    ASSUME SessionInv,
           \/ set_portal_account_sessions \/ rollup_sessions
           \/ \E t \in LiveSessions : logout(t)
           \/ \E c \in WebRequest : disable_portal_sessions(c)
    PROVE  SessionInv'
  <1>1. CASE set_portal_account_sessions
    <2>1. DeleteSessions(SessionToken) /\ SessionToken \in SUBSET SessionToken
      BY <1>1, Zenon DEF set_portal_account_sessions
    <2>a. user' \in Account
      BY <1>1, NewPasswordGives, Zenon DEF set_portal_account_sessions, SessionInv, SessionTypes
    <2>2. SessionTypes'
      BY <1>1, <2>1, <2>a, DeleteGives, Zenon DEF set_portal_account_sessions, SessionInv, SessionTypes
    <2>3. PasswordsKept'
      BY <2>1, DeleteGives, Zenon DEF PasswordsKept
    <2>4. QED
      BY <1>1, <2>1, <2>2, <2>3, DeleteGives, StreamsKept, Zenon
      DEF set_portal_account_sessions, SessionInv
  <1>2. ASSUME NEW ts \in SUBSET SessionToken, DeleteSessions(ts),
               UNCHANGED <<user, stream, subscribers, crossed, hour>>,
               serving' \in [WebRequest -> WebCall],
               Changing => Changing'
        PROVE  SessionInv'
    <2>1. SessionTypes'
      BY <1>2, DeleteGives, Zenon DEF SessionInv, SessionTypes
    <2>2. PasswordsKept'
      BY <1>2, DeleteGives, Zenon DEF SessionInv, PasswordsKept
    <2>3. QED
      BY <1>2, <2>1, <2>2, DeleteGives, StreamsKept, Zenon DEF SessionInv
  <1>3. CASE rollup_sessions
    BY <1>2, <1>3, Zenon DEF rollup_sessions, SessionInv, SessionTypes, Changing
  <1>4. ASSUME NEW t \in LiveSessions, logout(t) PROVE SessionInv'
    BY <1>2, <1>4, Zenon DEF logout, SessionInv, SessionTypes, Changing, LiveSessions
  <1>5. ASSUME NEW c \in WebRequest, disable_portal_sessions(c) PROVE SessionInv'
    <2>1. CASE serving[c] = Free
      <3>1. /\ DeleteSessions(SessionToken) /\ CallAt(c, "remove")
            /\ UNCHANGED <<user, stream, subscribers, crossed, hour>>
        BY <1>5, <2>1 DEF disable_portal_sessions, CallAt, Free
      <3>2. serving' \in [WebRequest -> WebCall] /\ (Changing => Changing')
        <4>1. "remove" \in Handling /\ serving[c].op # "sign out others"
          BY <2>1 DEF Handling, Free
        <4>2. QED
          BY <3>1, <4>1, CallAtGives, Zenon
      <3>3. QED
        BY <1>2, <3>1, <3>2, Zenon
    <2>2. CASE serving[c].op = "remove"
      <3>1. /\ user' = [user EXCEPT !.exists = FALSE] /\ Answered(c)
            /\ UNCHANGED <<session, lost, stream, subscribers, crossed, hour>>
        BY <1>5, <2>2 DEF disable_portal_sessions, Free
      <3>2. serving' \in [WebRequest -> WebCall] /\ (Changing => Changing')
        BY <2>2, <3>1, AnsweredGives, Zenon
      <3>3. user' \in Account /\ user'.password = user.password
        BY <3>1, FlagHas, Zenon DEF SessionInv, SessionTypes, Account
      <3>4. SessionTypes' /\ PasswordsKept'
        BY <3>1, <3>2, <3>3, Zenon DEF SessionInv, SessionTypes, PasswordsKept
      <3>5. QED
        BY <3>1, <3>4, StreamsKept, Zenon DEF SessionInv
    <2>3. QED
      BY <1>5, <2>1, <2>2, Zenon DEF disable_portal_sessions
  <1>6. QED
    BY <1>1, <1>3, <1>4, <1>5, Zenon

LEMMA close_streamInv == ASSUME SessionInv, NEW s \in Stream, close_stream(s) PROVE SessionInv'
  <1>1. \A r \in Stream : stream'[r] = IF r = s THEN Unopened ELSE stream[r]
    BY Zenon DEF close_stream, SessionInv, SessionTypes
  <1>2. SessionTypes'
    BY DEF close_stream, SessionInv, SessionTypes, Unopened
  <1>3. PasswordsKept'
    BY Zenon DEF close_stream, SessionInv, PasswordsKept, Changing
  <1>4. StreamsLooked'
    BY <1>1, Zenon DEF close_stream, SessionInv, StreamsLooked, Looked
  <1>5. EndsLater(session, lost)'
    <2> SUFFICES ASSUME NEW r \in Stream, stream'[r] # Unopened
                 PROVE  EndOf(session', lost', stream'[r].token) >= stream'[r].checked
      BY Zenon DEF EndsLater
    <2>1. r # s /\ stream'[r] = stream[r] /\ stream[r] # Unopened
      BY <1>1, Zenon
    <2>2. PICK t \in SessionToken : t = stream[r].token
      BY <2>1, Zenon DEF SessionInv, StreamsLooked, Looked
    <2>3. lost'[t] = lost[t] /\ session' = session
      BY <2>1, <2>2, Zenon DEF close_stream
    <2>4. EndOf(session', lost', t) = EndOf(session, lost, t)
      BY <2>3, Zenon DEF EndOf
    <2>5. QED
      BY <2>1, <2>2, <2>4, Zenon DEF SessionInv, EndsLater
  <1>6. subscribers' = {r \in Stream : stream'[r] # Unopened}
    BY <1>1, Zenon DEF close_stream, SessionInv
  <1>7. QED
    BY <1>2, <1>3, <1>4, <1>5, <1>6, Zenon DEF SessionInv

(* A look that finds the session working, or the first one.                *)
LEMMA LookInv ==
    ASSUME SessionInv, NEW s \in Stream, NEW t \in LiveSessions,
           stream' = [stream EXCEPT ![s] = [token |-> t, checked |-> hour]],
           subscribers' = subscribers \cup {s},
           UNCHANGED <<user, session, serving, lost, crossed, hour>>
    PROVE  SessionInv'
  <1>1. /\ t \in SessionToken /\ session[t] # NoSession /\ session[t].expires >= hour
        /\ session[t].expires \in Int /\ hour \in Nat /\ SessionRecheck \in Nat
    BY WebSessionsAssumption DEF LiveSessions, LiveSession, SessionInv, SessionTypes, SessionRow, NoSession
  <1>2. \A r \in Stream : stream'[r] = IF r = s THEN [token |-> t, checked |-> hour]
                                       ELSE stream[r]
    BY SMTT(30) DEF SessionInv, SessionTypes
  <1>3. [token |-> t, checked |-> hour] # Unopened
    BY <1>1, WebSessionsAssumption, Zenon DEF Unopened
  <1>4. SessionTypes'
    BY <1>1, SMTT(30) DEF SessionInv, SessionTypes
  <1>5. PasswordsKept'
    BY Zenon DEF SessionInv, PasswordsKept, Changing
  <1>6. StreamsLooked'
    BY <1>1, <1>2 DEF SessionInv, StreamsLooked, Looked
  <1>7. EndsLater(session, lost)'
    BY <1>1, <1>2 DEF SessionInv, EndsLater, EndOf
  <1>8. subscribers' = {r \in Stream : stream'[r] # Unopened}
    BY <1>2, <1>3, Zenon DEF SessionInv
  <1>9. QED
    BY <1>4, <1>5, <1>6, <1>7, <1>8, Zenon DEF SessionInv

LEMMA WebStreamInv ==
    ASSUME SessionInv, NEW s \in Stream, open_stream(s) \/ recheck(s) \/ disconnect(s)
    PROVE  SessionInv'
  <1>1. CASE open_stream(s)
    BY <1>1, LookInv, Zenon DEF open_stream
  <1>2. CASE recheck(s) /\ stream[s].token \in LiveSessions
    <2>1. stream' = [stream EXCEPT ![s] = [token |-> stream[s].token, checked |-> hour]]
      BY <1>2 DEF recheck, SessionInv, SessionTypes
    <2>2. subscribers' = subscribers \cup {s}
      BY <1>2, Zenon DEF recheck, Due, SessionInv
    <2>3. QED
      BY <1>2, <2>1, <2>2, LookInv, Zenon DEF recheck
  <1>3. CASE close_stream(s)
    BY <1>3, close_streamInv, SMTT(30)
  <1>4. QED
    BY <1>1, <1>2, <1>3, Zenon DEF recheck, disconnect

LEMMA SessionTickInv == SessionInv /\ SessionTick => SessionInv'
  <1> SUFFICES ASSUME SessionInv, SessionTick PROVE SessionInv'
    BY Zenon
  <1>0. SessionTypes' /\ EndsLater(session, lost)'
    BY DEF SessionTick, SessionInv, SessionTypes, EndsLater
  <1>1. PasswordsKept'
    BY Zenon DEF SessionTick, SessionInv, PasswordsKept, Changing
  <1>2. StreamsLooked'
    BY WebSessionsAssumption DEF SessionTick, SessionInv, SessionTypes, StreamsLooked, Looked, Due
  <1>3. QED
    BY <1>0, <1>1, <1>2, Zenon DEF SessionTick, SessionInv

LEMMA SessionNextInv == SessionInv /\ [SessionNext]_sessionVars => SessionInv'
  <1> SUFFICES ASSUME SessionInv, [SessionNext]_sessionVars PROVE SessionInv'
    BY Zenon
  <1>1. CASE UNCHANGED sessionVars
    BY <1>1, Zenon DEF sessionVars, SessionInv, SessionTypes, PasswordsKept, Changing, StreamsLooked,
                Looked, EndsLater
  <1>2. QED
    BY <1>1, loginInv, get_session_userInv, change_passwordInv, AccountInv, WebStreamInv,
       SessionTickInv, SMTT(30) DEF SessionNext

(* Once a password change is through, no session of an earlier password    *)
(* works unless a sign-in crossed the change; a stream outlives its session *)
(* by at most the recheck time, and a closed one leaves no queue behind    *)
(* (change_password, stream), for any sessions, streams, handlers and times. *)
THEOREM SessionsEndTheorem == SessionSpec => []SessionsEnd
  <1>1. SessionInv => SessionsEnd
    <2> SUFFICES ASSUME SessionInv PROVE SessionsEnd
      BY SMTT(30)
    <2>1. OldSessionsGone
      BY Zenon DEF SessionInv, PasswordsKept, OldSessionsGone, LiveSessions
    <2>2. ASSUME NEW s \in Stream, stream[s] # Unopened
          PROVE  hour - GoneSince(stream[s].token) <= SessionRecheck + 1
      <3>1. PICK t \in SessionToken : t = stream[s].token
        BY <2>2, Zenon DEF SessionInv, StreamsLooked, Looked
      <3>2. /\ GoneSince(t) \in Int /\ hour \in Nat /\ stream[s].checked \in Nat
            /\ SessionRecheck \in Nat
        BY WebSessionsAssumption DEF GoneSince, SessionInv, SessionTypes, SessionRow, NoSession
      <3>3. GoneSince(t) >= stream[s].checked
        BY <2>2, <3>1, Zenon DEF SessionInv, EndsLater, EndOf, GoneSince
      <3>4. hour <= stream[s].checked + SessionRecheck + 1
        BY <2>2, Zenon DEF SessionInv, StreamsLooked, Looked
      <3>5. QED
        BY <3>1, <3>2, <3>3, <3>4
    <2>3. QED
      BY <2>1, <2>2, Zenon DEF SessionsEnd, StreamsEnd, SessionInv
  <1>2. QED
    BY <1>1, SessionInitInv, SessionNextInv, PTL DEF SessionSpec
=============================================================================
