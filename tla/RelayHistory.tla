---------------------------- MODULE RelayHistory ----------------------------
(***************************************************************************)
(* The relay's visits as the UI stores them (ui/app/relay_history.py).  A  *)
(* thread polls the relay's bounded list of sessions and writes the rows   *)
(* that changed since its last turn.  The relay restarts, forgets ended    *)
(* sessions and may not answer; a write may fail; the UI restarts; and a   *)
(* client may be created again.  One client with one credential.           *)
(* A definition in front of one of the same form is a seeded fault.        *)
(***************************************************************************)
EXTENDS Integers, FiniteSets, FiniteSetsExt

CONSTANTS
    Idle,           \* IDLE_SECONDS, in polls
    Shown,          \* polls after which a sample no longer counts as active
    MaxSessions, MaxTraffic, MaxHistoryTime

(* Times in whole polls.                                                   *)
ASSUME HistoryAssumption == Shown \in Nat /\ MaxHistoryTime \in Nat

VARIABLES
    instance,       \* the relay process
    relay,          \* relay[i]: its session number i, or Absent
    row,            \* row[i]: the row of session i in relay_sessions, or Absent
    _seen,          \* _seen[i]: the snapshot of i that was stored, or Absent
    quiet,          \* quiet[i]: when session i last had a flow
    turned,         \* the last step was a successful turn
    time

historyVars == <<instance, relay, row, _seen, quiet, turned, time>>

Id == 1..MaxSessions
Absent == [absent |-> TRUE]
Have(f) == {i \in Id : f[i] # Absent}

HistoryInit ==
    /\ instance = 1
    /\ relay = [i \in Id |-> Absent]
    /\ row = [i \in Id |-> Absent]
    /\ _seen = [i \in Id |-> Absent]
    /\ quiet = [i \in Id |-> 0]
    /\ turned = FALSE
    /\ time = 0

-----------------------------------------------------------------------------
(* The relay, see module RelayFlow.                                        *)
RelayStep == turned' = FALSE /\ UNCHANGED <<row, _seen, time>>

Flow(i) ==
    /\ \/ /\ i \in Have(relay)
          /\ ~relay[i].active /\ time - relay[i].last <= Idle
          /\ relay' = [relay EXCEPT ![i].active = TRUE]
       \/ /\ \A j \in Id : j >= i => relay[j] = Absent /\ row[j] = Absent /\ quiet[j] = 0
          /\ \A j \in 1..(i - 1) : quiet[j] # 0
          /\ relay' = [relay EXCEPT ![i] = [instance |-> instance, active |-> TRUE, bytes |-> 0,
                                            started |-> time, last |-> time]]
    /\ quiet' = [quiet EXCEPT ![i] = MaxHistoryTime + 1]
    /\ UNCHANGED instance /\ RelayStep

Bytes(i) ==
    /\ i \in Have(relay) /\ relay[i].active /\ relay[i].bytes < MaxTraffic
    /\ relay' = [relay EXCEPT ![i].bytes = @ + 1]
    /\ UNCHANGED <<instance, quiet>> /\ RelayStep

FlowEnds(i) ==
    /\ i \in Have(relay) /\ relay[i].active
    /\ relay' = [relay EXCEPT ![i].active = FALSE, ![i].last = time]
    /\ quiet' = [quiet EXCEPT ![i] = time + 1]
    /\ UNCHANGED instance /\ RelayStep

Forget(i) ==
    /\ i \in Have(relay) /\ ~relay[i].active
    /\ relay' = [relay EXCEPT ![i] = Absent]
    /\ UNCHANGED <<instance, quiet>> /\ RelayStep

RelayRestarts ==
    /\ instance' = instance + 1
    /\ \E i \in Have(relay) : TRUE
    /\ relay' = [i \in Id |-> Absent]
    /\ quiet' = [i \in Id |-> IF i \in Have(relay) /\ relay[i].active THEN time + 1 ELSE quiet[i]]
    /\ RelayStep

(* sessionSnapshot: a session with a flow was last seen now.               *)
Snapshot(i) ==
    IF relay[i] = Absent THEN Absent
    ELSE [relay[i] EXCEPT !.last = IF relay[i].active THEN time ELSE @]

-----------------------------------------------------------------------------
Greater(a, b) == IF a >= b THEN a ELSE b

(* The visit that a new row continues.                                     *)
Previous(i) ==
    {j \in Have(row) : /\ row[j].owner = "client"
                       /\ row[j].last >= relay[i].started - Idle
                       /\ row[j].started <= relay[i].started}
group(i) ==
    IF Previous(i) = {} THEN i
    ELSE row[CHOOSE j \in Previous(i) : \A k \in Previous(i) : row[k].last <= row[j].last].grp

(* record: rows of earlier relay processes have no flows any more; a new   *)
(* row joins a visit, an old one keeps its owner and its greatest counts.  *)
(* The client here has a name and a credential (record skips the rows of   *)
(* others), and no row gets as old as the year after which it is deleted.  *)
record(changed) ==
    row' = [i \in Id |->
             IF i \notin changed
             THEN IF row[i] # Absent /\ row[i].instance # instance
                  THEN [row[i] EXCEPT !.active = FALSE] ELSE row[i]
             ELSE LET s == Snapshot(i)
                  IN IF row[i] = Absent
                     THEN [owner |-> "client", grp |-> group(i), active |-> s.active, bytes |-> s.bytes,
                           started |-> s.started, last |-> s.last, sampled |-> time, instance |-> instance]
                     ELSE [row[i] EXCEPT !.last = Greater(@, s.last), !.bytes = Greater(@, s.bytes),
                                         !.active = s.active, !.sampled = time]]

(* One turn of RelayCollector.run.  What is stored is remembered only once *)
(* it is stored; a turn may fail, or the relay may not be ready.           *)
runRemembersFirst ==
    LET changed == {i \in Have(relay) : _seen[i] # Snapshot(i)}
    IN /\ _seen' = [i \in Id |-> Snapshot(i)]
       /\ \/ record(changed) /\ turned' = TRUE
          \/ UNCHANGED row /\ turned' = FALSE
       /\ UNCHANGED <<instance, relay, quiet, time>>
run ==
    LET changed == {i \in Have(relay) : _seen[i] # Snapshot(i)}
    IN /\ record(changed)
       /\ _seen' = [i \in Id |-> Snapshot(i)]
       /\ turned' = TRUE
       /\ UNCHANGED <<instance, relay, quiet, time>>

UIRestarts ==
    /\ _seen' = [i \in Id |-> Absent]
    /\ turned' = FALSE
    /\ UNCHANGED <<instance, relay, row, quiet, time>>

(* archive_client_history, for the relay's rows.                           *)
ClientCreatedAgain ==
    /\ row' = [i \in Id |-> IF row[i] = Absent THEN Absent ELSE [row[i] EXCEPT !.owner = "archived"]]
    /\ turned' = FALSE
    /\ UNCHANGED <<instance, relay, _seen, quiet, time>>

HistoryTick ==
    /\ time < MaxHistoryTime /\ time' = time + 1
    /\ turned' = FALSE
    /\ UNCHANGED <<instance, relay, row, _seen, quiet>>

HistoryNext ==
    \/ \E i \in Id : Flow(i) \/ Bytes(i) \/ FlowEnds(i) \/ Forget(i)
    \/ RelayRestarts \/ run \/ UIRestarts \/ ClientCreatedAgain \/ HistoryTick

HistorySpec == HistoryInit /\ [][HistoryNext]_historyVars

-----------------------------------------------------------------------------
(* sessions: a row counts as active only while its sample is recent.       *)
ShownActive(i) == i \in Have(row) /\ row[i].active /\ row[i].sampled >= time - Shown

HistoryTypeOK ==
    /\ instance \in 1..(MaxSessions + 1) /\ time \in 0..MaxHistoryTime
    /\ \A i \in Have(row) : row[i].grp \in 1..i /\ row[i].bytes \in 0..MaxTraffic
    /\ \A i \in Have(relay) : relay[i].instance = instance

(* After a turn every session with an open flow is shown as active, though *)
(* only changed rows are written, and a session without one is shown as    *)
(* active for at most the age of a sample, also when the relay died or     *)
(* forgot it.                                                              *)
ActiveShown ==
    /\ turned => \A i \in Have(relay) : relay[i].active => ShownActive(i)
    /\ \A i \in Id : ShownActive(i) /\ (relay[i] = Absent \/ ~relay[i].active) =>
        time - (quiet[i] - 1) <= Shown

(* Whatever turn failed and whichever process restarted, every session     *)
(* that the thread takes as stored is stored with its counts, and never    *)
(* with more: writing only changed rows loses nothing, and writing a row   *)
(* again after a restart counts nothing twice.  And what is shown as       *)
(* active is.                                                              *)
RelayRowsStored ==
    /\ \A i \in Have(_seen) :
        i \in Have(row) /\ row[i].bytes = _seen[i].bytes /\ row[i].last = _seen[i].last
    /\ \A i \in Have(row) \cap Have(relay) : row[i].bytes <= relay[i].bytes
    /\ ActiveShown
=============================================================================
