----------------------------- MODULE Supervisor -----------------------------
(***************************************************************************)
(* The supervisor loop of docker-entrypoint.sh: it starts OpenVPN, waits   *)
(* for it, looks after it once a minute, restarts it when it exits and     *)
(* ends it on a stop signal.                                               *)
(*                                                                         *)
(* Bash runs a trap between two commands and interrupts wait for it, so    *)
(* the signal handler is a step of its own that may come between any two   *)
(* steps of the loop.  The lease directory and the reaper are in           *)
(* ClientAccess; log rotation and the firewall check of maintain change    *)
(* nothing the loop looks at.                                              *)
(*                                                                         *)
(* A definition in front of one of the same form (AgainUnchecked before    *)
(* Again) is a seeded fault that the specification does not use.           *)
(***************************************************************************)
EXTENDS Integers

CONSTANTS
    StatusMinutes,   \* the status file of a healthy OpenVPN is younger
    MaxUnhealthy     \* unhealthy minutes in a row before OpenVPN is killed

(* 3 and 3 in the code (find -mmin -3, UNHEALTHY >= 3).                    *)
ASSUME SupervisorAssumption ==
    StatusMinutes \in Nat /\ StatusMinutes > 1 /\ MaxUnhealthy \in Nat \ {0}

VARIABLES
    pc,          \* where the loop is
    stop,        \* STOP
    pid,         \* OVPN_PID is set
    unhealthy,   \* UNHEALTHY
    ovpn,        \* the OpenVPN process
    term,        \* a SIGTERM has been sent to it
    age,         \* minutes since the status file was written
    silent,      \* ... and since this process wrote it, or was started
    due          \* the minute of the loop's sleep is over

supervisorVars == <<pc, stop, pid, unhealthy, ovpn, term, age, silent, due>>

Alive == {"starting", "up", "hung"}
Ended == {"exited", "failed"}
Older(n) == IF n < StatusMinutes + MaxUnhealthy THEN n + 1 ELSE n

SupervisorInit ==
    /\ pc = "prepare" /\ stop = FALSE /\ pid = FALSE /\ unhealthy = 0
    /\ ovpn = "none" /\ term = FALSE
    /\ age \in {0, StatusMinutes} /\ silent = 0 /\ due = FALSE

-----------------------------------------------------------------------------
(* The loop.                                                               *)

(* The firewall is installed and the lease directory cleared; a command    *)
(* that fails here ends the script (set -e).                               *)
Prepare ==
    /\ pc = "prepare"
    /\ pc' \in {"check", "failed"}
    /\ UNCHANGED <<stop, pid, unhealthy, ovpn, term, age, silent, due>>

CheckStop ==
    /\ pc = "check"
    /\ pc' = IF stop THEN "exited" ELSE "spawn"
    /\ UNCHANGED <<stop, pid, unhealthy, ovpn, term, age, silent, due>>

Spawn ==
    /\ pc = "spawn"
    /\ ovpn' = "starting" /\ term' = FALSE /\ silent' = 0
    /\ pc' = "record"
    /\ UNCHANGED <<stop, pid, unhealthy, age, due>>

RecordPid ==
    /\ pc = "record"
    /\ pid' = TRUE
    /\ pc' = "again"
    /\ UNCHANGED <<stop, unhealthy, ovpn, term, age, silent, due>>

(* A stop signal that found no OVPN_PID is passed on now.                  *)
AgainUnchecked ==
    /\ pc = "again"
    /\ unhealthy' = 0
    /\ due' = FALSE
    /\ pc' = "wait"
    /\ UNCHANGED <<stop, pid, ovpn, term, age, silent>>
AgainUncounted ==
    /\ pc = "again"
    /\ term' = (term \/ stop)
    /\ due' = FALSE
    /\ pc' = "wait"
    /\ UNCHANGED <<stop, pid, unhealthy, ovpn, age, silent>>
Again ==
    /\ pc = "again"
    /\ term' = (term \/ stop)
    /\ unhealthy' = 0
    /\ due' = FALSE
    /\ pc' = "wait"
    /\ UNCHANGED <<stop, pid, ovpn, age, silent>>

(* wait returns because OpenVPN has exited or because the minute is over;  *)
(* after a signal the loop waits again unless OpenVPN is gone.             *)
WaitSignalled ==
    /\ pc = "wait"
    /\ \/ (ovpn = "dead" \/ stop) /\ pc' = "reap"
       \/ ovpn # "dead" /\ due /\ pc' = "health"
    /\ due' = FALSE
    /\ UNCHANGED <<stop, pid, unhealthy, ovpn, term, age, silent>>
Wait ==
    /\ pc = "wait"
    /\ \/ ovpn = "dead" /\ pc' = "reap"
       \/ ovpn # "dead" /\ due /\ pc' = "health"
    /\ due' = FALSE
    /\ UNCHANGED <<stop, pid, unhealthy, ovpn, term, age, silent>>

(* maintain: healthcheck.sh looks for the process and at the status file.  *)
Healthy == ovpn \in Alive /\ age < StatusMinutes

Maintain ==
    /\ pc = "health"
    /\ LET n == IF Healthy THEN 0 ELSE unhealthy + 1
       IN IF n >= MaxUnhealthy
          THEN ovpn' = "dead" /\ unhealthy' = 0
          ELSE ovpn' = ovpn /\ unhealthy' = n
    /\ pc' = "wait"
    /\ UNCHANGED <<stop, pid, term, age, silent, due>>

Reap ==
    /\ pc = "reap"
    /\ pid' = FALSE
    /\ pc' = IF stop THEN "exited" ELSE "pause"
    /\ UNCHANGED <<stop, unhealthy, ovpn, term, age, silent, due>>

Pause ==
    /\ pc = "pause"
    /\ pc' = IF stop THEN "exited" ELSE "prepare"
    /\ UNCHANGED <<stop, pid, unhealthy, ovpn, term, age, silent, due>>

Loop == Prepare \/ CheckStop \/ Spawn \/ RecordPid \/ Again \/ Wait \/ Maintain
            \/ Reap \/ Pause

-----------------------------------------------------------------------------
(* on_term, between any two commands of the loop.                          *)
OnTerm ==
    /\ pc \notin Ended
    /\ stop' = TRUE
    /\ term' = (term \/ pid)
    /\ UNCHANGED <<pc, pid, unhealthy, ovpn, age, silent, due>>

(* Docker (restart: unless-stopped) or the operator starts the container   *)
(* again.                                                                  *)
Boot ==
    /\ pc \in Ended
    /\ pc' = "prepare" /\ stop' = FALSE /\ pid' = FALSE /\ unhealthy' = 0
    /\ ovpn' = "none" /\ term' = FALSE /\ silent' = 0 /\ due' = FALSE
    /\ UNCHANGED age

(* OpenVPN: it comes up, hangs, exits by itself (a crash, or a restart     *)
(* asked for in the web UI), or on the signal.                             *)
ComeUp ==
    /\ ovpn = "starting"
    /\ ovpn' = "up" /\ age' = 0 /\ silent' = 0
    /\ UNCHANGED <<pc, stop, pid, unhealthy, term, due>>

Hangs ==
    /\ ovpn \in {"starting", "up"}
    /\ ovpn' = "hung"
    /\ UNCHANGED <<pc, stop, pid, unhealthy, term, age, silent, due>>

Exit ==
    /\ ovpn \in {"starting", "up"}
    /\ ovpn' = "dead"
    /\ UNCHANGED <<pc, stop, pid, unhealthy, term, age, silent, due>>

(* A minute passes while the loop waits; OpenVPN writes its status file    *)
(* every five seconds when it is up.                                       *)
Minute ==
    /\ pc = "wait" /\ ~due
    /\ due' = TRUE
    /\ age' = IF ovpn = "up" THEN 0 ELSE Older(age)
    /\ silent' = IF ovpn = "up" THEN 0 ELSE Older(silent)
    /\ UNCHANGED <<pc, stop, pid, unhealthy, ovpn, term>>

SupervisorNext == Loop \/ OnTerm \/ Boot \/ ComeUp \/ Hangs \/ Exit \/ Minute

SupervisorSpec == SupervisorInit /\ [][SupervisorNext]_supervisorVars

(* The script runs, time passes, and an OpenVPN that is not hung obeys the *)
(* signal.                                                                 *)
SupervisorFairness ==
    /\ WF_supervisorVars(Loop) /\ WF_supervisorVars(Minute)
    /\ WF_supervisorVars(term /\ Exit)

SupervisorFairSpec == SupervisorSpec /\ SupervisorFairness

-----------------------------------------------------------------------------
SupervisorTypeOK ==
    /\ pc \in {"prepare", "check", "spawn", "record", "again", "wait", "health",
               "reap", "pause"} \cup Ended
    /\ stop \in BOOLEAN /\ pid \in BOOLEAN /\ term \in BOOLEAN /\ due \in BOOLEAN
    /\ ovpn \in {"none", "dead"} \cup Alive
    /\ unhealthy \in 0..(MaxUnhealthy - 1) /\ age \in Nat /\ silent \in Nat

(* The loop never leaves an OpenVPN behind: none runs when the script has  *)
(* ended, pauses, or is about to start another one.                        *)
NoOrphan ==
    ovpn \in Alive => pc \in {"record", "again", "wait", "health"}

(* maintain kills only a process that has not written its status file for  *)
(* MaxUnhealthy minutes, however old a file it found and however unhealthy *)
(* the process before it was.                                              *)
KillsOnlySilent ==
    [][pc = "health" /\ ovpn \in Alive /\ ovpn' = "dead" /\ pc' = "wait"
           => silent >= MaxUnhealthy]_supervisorVars

(* A hung OpenVPN does not stay: the health check ends it.                 *)
HungEnds == ovpn = "hung" ~> ovpn # "hung"

(* A stop signal ends the container, wherever in the loop it arrives and   *)
(* whatever state OpenVPN is in.                                           *)
StopEnds == stop ~> pc \in Ended

(* The supervisor waits for nothing that does not come: both of the above. *)
ProcessesEnd == HungEnds /\ StopEnds
=============================================================================
