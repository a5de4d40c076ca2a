---------------------------- MODULE OneTimeCode ----------------------------
(***************************************************************************)
(* The one-time codes of one client (bin/oath.sh, which OpenVPN runs       *)
(* synchronously).  Time is counted in the 30-second steps of TOTP and a   *)
(* code is the step it belongs to; oathtool -w 1 accepts the codes of the  *)
(* neighbouring steps too.  The state files in /tmp keep the last codes    *)
(* accepted and the wrong codes in a row.  Requests refused before the     *)
(* files are read (no secret, another user name) change nothing.           *)
(* A definition in front of one of the same form is a seeded fault.        *)
(***************************************************************************)
EXTENDS Integers, Sequences

CONSTANTS
    Kept,       \* codes the state file keeps (tail -n 4 and the new one)
    Replay,     \* how long a kept code counts, in steps (120 s)
    MaxFails,   \* wrong codes in a row before the wait
    LockFor,    \* the wait, in steps (300 s)
    MaxCodeTime

(* A code is valid for two steps after it was accepted at the earliest,    *)
(* and there are five codes between those valid then and those valid now.  *)
ASSUME OneTimeCodeAssumption ==
    /\ Kept \in Nat /\ Kept >= 5 /\ Replay \in Nat /\ Replay >= 2
    /\ MaxFails \in Nat \ {0} /\ LockFor \in Nat \ {0} /\ MaxCodeTime \in Nat

VARIABLES
    codeTime,
    used,       \* $state: [time, code] of the codes accepted lately
    fails,      \* $state.fail: [count, last]
    accepted,   \* how often each code was accepted
    wrong       \* times of the latest wrong codes since one was accepted

codeVars == <<codeTime, used, fails, accepted, wrong>>

Code == -1 .. MaxCodeTime + 1
NoFails == [count |-> 0, last |-> -LockFor]

CodeInit ==
    /\ codeTime = 0 /\ used = <<>> /\ fails = NoFails
    /\ accepted = [c \in Code |-> 0] /\ wrong = <<>>

LastOf(s, n) == IF Len(s) > n THEN SubSeq(s, Len(s) - n + 1, Len(s)) ELSE s

(* fails: the wrong codes in a row that still count.                       *)
Failures == IF codeTime - fails.last >= LockFor THEN 0 ELSE fails.count

Valid(c) == c \in codeTime - 1 .. codeTime + 1
AlreadyUsed(c) == \E i \in DOMAIN used : used[i].code = c /\ codeTime - used[i].time <= Replay

(* Replay protection: the file keeps the last codes.                       *)
RememberedShort(c) == LastOf(Append(used, [time |-> codeTime, code |-> c]), Kept - 1)
Remembered(c) == LastOf(Append(used, [time |-> codeTime, code |-> c]), Kept)

WrongCode ==
    /\ Failures < MaxFails
    /\ fails' = [count |-> Failures + 1, last |-> codeTime]
    /\ wrong' = LastOf(Append(wrong, codeTime), MaxFails + 1)
    /\ UNCHANGED <<codeTime, used, accepted>>

(* A code that was used is refused and counts neither way.                 *)
RightCode(c) ==
    /\ Failures < MaxFails /\ Valid(c) /\ ~AlreadyUsed(c)
    /\ used' = Remembered(c) /\ fails' = NoFails
    /\ accepted' = [accepted EXCEPT ![c] = @ + 1] /\ wrong' = <<>>
    /\ UNCHANGED codeTime

CodeTick == codeTime < MaxCodeTime /\ codeTime' = codeTime + 1
            /\ UNCHANGED <<used, fails, accepted, wrong>>

CodeNext == WrongCode \/ CodeTick \/ \E c \in Code : RightCode(c)

CodeSpec == CodeInit /\ [][CodeNext]_codeVars

-----------------------------------------------------------------------------
CodeTypeOK ==
    /\ codeTime \in 0 .. MaxCodeTime
    /\ used \in Seq([time : 0 .. MaxCodeTime, code : Code]) /\ Len(used) <= Kept
    /\ fails \in [count : 0 .. MaxFails, last : Int]
    /\ accepted \in [Code -> Nat] /\ wrong \in Seq(0 .. MaxCodeTime)

(* "A code that was already accepted cannot be replayed", however many     *)
(* other codes are accepted while it is valid: the five the file keeps are *)
(* exactly enough.  "After 5 wrong codes in a row the client waits 5       *)
(* minutes": of any MaxFails + 1 wrong codes in a row the last was tried   *)
(* LockFor after the first.                                                *)
CodesGuarded ==
    /\ \A c \in Code : accepted[c] <= 1
    /\ Len(wrong) > MaxFails => wrong[MaxFails + 1] - wrong[1] >= LockFor
=============================================================================
