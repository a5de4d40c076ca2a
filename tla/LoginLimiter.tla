---------------------------- MODULE LoginLimiter ----------------------------
(***************************************************************************)
(* The sign-in throttle (LoginLimiter in ui/app/auth.py, login in          *)
(* ui/app/main.py).  A sign-in counts for its address and for its          *)
(* address|user key; both must let it through.  The password is checked    *)
(* after the limiter has answered, by several requests at once.            *)
(* A definition in front of one of the same form is a seeded fault.        *)
(***************************************************************************)
EXTENDS Integers, Sequences

CONSTANTS
    Name,           \* user names tried from one address
    Visitor,        \* requests that may run at once
    Address,        \* the key of the address
    AddressLimit,   \* IP_ATTEMPTS
    Threshold, MaxDelay, MaxKeys, Forget,
    MaxClock

VARIABLES
    entries,        \* _state: [key, failures, until], oldest attempt first
    checking,       \* checking[v]: the name v's password is checked for
    passed,         \* passed[k]: when the attempts counted for k went ahead
    clock

limiterVars == <<entries, checking, passed, clock>>

LimitKey == Name \cup {Address}
NoName == "nothing"
limit(k) == IF k = Address THEN AddressLimit ELSE Threshold
Known(k) == \E i \in DOMAIN entries : entries[i].key = k
EntryOf(k) == IF Known(k) THEN entries[CHOOSE i \in DOMAIN entries : entries[i].key = k]
            ELSE [key |-> k, failures |-> 0, until |-> 0]

LimiterInit ==
    /\ entries = <<>>
    /\ checking = [v \in Visitor |-> NoName]
    /\ passed = [k \in LimitKey |-> <<>>]
    /\ clock = 0

Delay(k, failures) ==
    IF failures < limit(k) THEN 0
    ELSE LET d == 2^(failures - limit(k) + 1) IN IF d < MaxDelay THEN d ELSE MaxDelay

Forgotten(k) == clock - EntryOf(k).until > Forget
Counted(k) ==
    LET failures == (IF Forgotten(k) THEN 0 ELSE EntryOf(k).failures) + 1
    IN [key |-> k, failures |-> failures, until |-> clock + Delay(k, failures)]

(* Entries of the keys in ks are dropped; beyond MaxKeys the oldest go.    *)
Without(ks) == SelectSeq(entries, LAMBDA e : e.key \notin ks)
LatestKeys(s) == IF Len(s) > MaxKeys THEN SubSeq(s, Len(s) - MaxKeys + 1, Len(s)) ELSE s
KeysOf(s) == {s[i].key : i \in DOMAIN s}

(* attempt: the failure is counted before the password is checked.         *)
attemptUncounted(v, name) ==
    /\ checking[v] = NoName
    /\ \A k \in {Address, name} : EntryOf(k).until <= clock
    /\ passed' = [k \in LimitKey |-> IF k \in {Address, name} THEN Append(passed[k], clock) ELSE passed[k]]
    /\ checking' = [checking EXCEPT ![v] = name]
    /\ UNCHANGED <<entries, clock>>
attempt(v, name) ==
    /\ checking[v] = NoName
    /\ \A k \in {Address, name} : EntryOf(k).until <= clock
    /\ entries' = LatestKeys(Without({Address, name}) \o <<Counted(Address), Counted(name)>>)
    /\ passed' = [k \in LimitKey |->
                    IF k \notin KeysOf(entries') THEN <<>>
                    ELSE IF k \in {Address, name}
                         THEN Append(IF Forgotten(k) THEN <<>> ELSE passed[k], clock)
                         ELSE passed[k]]
    /\ checking' = [checking EXCEPT ![v] = name]
    /\ UNCHANGED clock

(* login after the answer: a right password takes both counts back.        *)
success(v) ==
    /\ checking[v] # NoName
    /\ entries' = Without({Address, checking[v]})
    /\ passed' = [k \in LimitKey |-> IF k \in {Address, checking[v]} THEN <<>> ELSE passed[k]]
    /\ checking' = [checking EXCEPT ![v] = NoName]
    /\ UNCHANGED clock

login_failed(v) ==
    /\ checking[v] # NoName
    /\ checking' = [checking EXCEPT ![v] = NoName]
    /\ UNCHANGED <<entries, passed, clock>>

LimiterTick ==
    /\ clock < MaxClock /\ clock' = clock + 1
    /\ UNCHANGED <<entries, checking, passed>>

LimiterNext ==
    \/ \E v \in Visitor :
        \/ \E name \in Name : attempt(v, name)
        \/ success(v) \/ login_failed(v)
    \/ LimiterTick

-----------------------------------------------------------------------------
LimiterTypeOK ==
    /\ \A i \in DOMAIN entries :
        entries[i].key \in LimitKey /\ entries[i].failures \in Nat /\ entries[i].until \in Nat
    /\ checking \in [Visitor -> Name \cup {NoName}]
    /\ passed \in [LimitKey -> Seq(0..MaxClock)]
    /\ clock \in 0..MaxClock

(* However many sign-ins arrive at once, the attempts that go ahead for a  *)
(* key back off: from its limit on, each waits twice as long after the one *)
(* before it, up to the maximum.  The count starts again only after a      *)
(* right password, a long pause or when the key is among the oldest.       *)
BacksOff ==
    \A k \in LimitKey : \A i \in limit(k)..(Len(passed[k]) - 1) :
        passed[k][i + 1] - passed[k][i] >= Delay(k, i)
=============================================================================
