----------------------------- MODULE RelayDial -----------------------------
(***************************************************************************)
(* Reaching a TCP destination (relay/policy.go dialTCP, relay/responses.go *)
(* connectTCP).  One goroutine per validated address waits its turn, dials *)
(* and offers its result on an unbuffered channel; the caller takes the    *)
(* first connection.  When every address fails and the last error is       *)
(* "refused", the whole race is run once more after a pause, inside the    *)
(* same five seconds.                                                      *)
(*                                                                         *)
(* An attempt is a pair <<round, address>>.  The staggered start (200 ms   *)
(* per address) is a timer each goroutine waits for; the order in which    *)
(* the timers are served is left open.                                     *)
(* A definition in front of one of the same form is a seeded fault.        *)
(***************************************************************************)
EXTENDS Naturals, FiniteSets

CONSTANTS Address,   \* the validated numeric addresses
          NoConn     \* connectTCP returned no connection

ASSUME AddressAssumption == IsFiniteSet(Address) /\ NoConn \notin {1, 2} \X Address

Attempt == {1, 2} \X Address

VARIABLES round,      \* the race the caller is in
          dialer,     \* "race", "pause" (150 ms) or "back" (returned)
          attempt,    \* the goroutine of each attempt
          taken,      \* results received in this round
          hung,       \* the context is done: five seconds, or the request ended
          socket,     \* connections established and not closed
          won         \* the connection returned
dialVars == <<round, dialer, attempt, taken, hung, socket, won>>

DialInit ==
    /\ round = 1 /\ dialer = "race"
    /\ attempt = [a \in Attempt |-> IF a[1] = 1 THEN "waits" ELSE "none"]
    /\ taken = 0 /\ hung = FALSE /\ socket = {} /\ won = NoConn

(* The context of a round is done when its dialTCP returned (the deferred  *)
(* cancel) or connectTCP's own context is.                                 *)
CtxDone(r) == hung \/ r < round \/ dialer # "race"

(* The five seconds pass, or the request is cancelled.                     *)
Hang == ~hung /\ hung' = TRUE
        /\ UNCHANGED <<round, dialer, attempt, taken, socket, won>>

(* The goroutine's timer fires, or the context ends first.                 *)
StartDial(a) ==
    /\ attempt[a] = "waits"
    /\ \E next \in {"dials"} \cup (IF CtxDone(a[1]) THEN {"gone"} ELSE {}) :
           attempt' = [attempt EXCEPT ![a] = next]
    /\ UNCHANGED <<round, dialer, taken, hung, socket, won>>

(* DialContext connects, possibly just as its context ends.                *)
Connects(a) ==
    /\ attempt[a] = "dials"
    /\ attempt' = [attempt EXCEPT ![a] = "connected"]
    /\ socket' = socket \cup {a}
    /\ UNCHANGED <<round, dialer, taken, hung, won>>

(* DialContext fails: refused, another error, or its context is done.      *)
DialFails(a) ==
    /\ attempt[a] = "dials"
    /\ \E e \in {"refused", "other"} : attempt' = [attempt EXCEPT ![a] = e]
    /\ UNCHANGED <<round, dialer, taken, hung, socket, won>>

Offers(a) == attempt[a] \in {"connected", "refused", "other"}

(* The caller receives a connection and returns it, cancelling the round.  *)
TakeConn(a) ==
    /\ dialer = "race" /\ a[1] = round /\ attempt[a] = "connected"
    /\ attempt' = [attempt EXCEPT ![a] = "gone"]
    /\ won' = a /\ dialer' = "back"
    /\ UNCHANGED <<round, taken, hung, socket>>

(* What follows an error: the next result; after the last one a refused    *)
(* connection is tried again, once, while time is left.                    *)
AfterErrorGivesUp(e) ==
    dialer' = IF e = "refused" /\ round = 1 /\ ~hung THEN "pause" ELSE "back"
AfterError(e) ==
    dialer' = IF taken' < Cardinality(Address) THEN "race"
              ELSE IF e = "refused" /\ round = 1 /\ ~hung THEN "pause" ELSE "back"

(* The caller receives an error.                                           *)
TakeError(a) ==
    /\ dialer = "race" /\ a[1] = round /\ attempt[a] \in {"refused", "other"}
    /\ attempt' = [attempt EXCEPT ![a] = "gone"]
    /\ taken' = taken + 1
    /\ AfterError(attempt[a])
    /\ UNCHANGED <<round, hung, socket, won>>

(* The caller's select sees the context done, while racing or pausing.     *)
CallerHangsUp ==
    /\ dialer \in {"race", "pause"} /\ hung /\ dialer' = "back"
    /\ UNCHANGED <<round, attempt, taken, hung, socket, won>>

(* The pause is over: the same addresses once more.                        *)
RaceAgain ==
    /\ dialer = "pause" /\ dialer' = "race" /\ round' = 2 /\ taken' = 0
    /\ attempt' = [a \in Attempt |-> IF a[1] = 2 THEN "waits" ELSE attempt[a]]
    /\ UNCHANGED <<hung, socket, won>>

(* Nobody takes the result: the goroutine sees its context done and closes *)
(* the connection it made.                                                 *)
LoserLeavesLeaky(a) ==
    /\ Offers(a) /\ CtxDone(a[1])
    /\ attempt' = [attempt EXCEPT ![a] = "gone"]
    /\ UNCHANGED <<round, dialer, taken, hung, socket, won>>
LoserLeaves(a) ==
    /\ Offers(a) /\ CtxDone(a[1])
    /\ attempt' = [attempt EXCEPT ![a] = "gone"] /\ socket' = socket \ {a}
    /\ UNCHANGED <<round, dialer, taken, hung, won>>

AttemptStep(a) == StartDial(a) \/ Connects(a) \/ DialFails(a) \/ LoserLeaves(a)
CallerStep == CallerHangsUp \/ RaceAgain \/ \E a \in Attempt : TakeConn(a) \/ TakeError(a)

DialNext == Hang \/ CallerStep \/ \E a \in Attempt : AttemptStep(a)

DialSpec == DialInit /\ [][DialNext]_dialVars

-----------------------------------------------------------------------------
DialTypeOK ==
    /\ round \in {1, 2} /\ dialer \in {"race", "pause", "back"}
    /\ attempt \in [Attempt -> {"none", "waits", "dials", "connected",
                                "refused", "other", "gone"}]
    /\ taken \in 0 .. Cardinality(Address)
    /\ hung \in BOOLEAN /\ socket \subseteq Attempt /\ won \in Attempt \cup {NoConn}

(* connectTCP gives up with time left only when every address of the last  *)
(* race failed: "a broken first address must not stall connections when    *)
(* the hostname also has a reachable address".                             *)
GivesUpHonestly ==
    dialer = "back" /\ won = NoConn /\ ~hung =>
        \A a \in Address : attempt[<<round, a>>] = "gone" /\ <<round, a>> \notin socket

Settled ==
    /\ dialer = "back" /\ socket = {won} \ {NoConn}
    /\ \A a \in Attempt : attempt[a] \in {"none", "gone"}

(* However the attempts, the retry, the timeout and the caller's choice    *)
(* interleave, connectTCP returns, every goroutine it started ends, and    *)
(* the only connection left open is the one it returned.                   *)
DialsSettle == hung \/ (\E a \in Attempt : attempt[a] = "dials") ~> Settled
=============================================================================
