----------------------------- MODULE MCServices -----------------------------
(***************************************************************************)
(* What must keep running or come to an end, for TLC: the relay's          *)
(* permission calls, its dialling and its streams; the supervisor of       *)
(* OpenVPN, the management connection, the UI's watchdog, the move to      *)
(* PostgreSQL, the recovery of a checkout, and backups.  They are modelled *)
(* without common state; scene chooses the one that a behaviour is about.  *)
(***************************************************************************)
EXTENDS RelayAuth, RelayDial, RelayStream, Supervisor, Watchdog, Management, Migration,
        Recovery, Archives

VARIABLE scene

relayVars == <<vars, dialVars, streamVars>>
hostVars == <<managementVars, migrationVars, recoveryVars, archiveVars>>
processVars == <<supervisorVars, watchdogVars, hostVars>>
serviceVars == <<relayVars, processVars, scene>>

RelayScene == {"permissions", "dial", "stream"}
HostScene == {"management", "migration", "recovery", "archives"}

ServiceInit ==
    /\ scene \in {"supervisor", "watchdog"} \cup RelayScene \cup HostScene
    /\ Init /\ DialInit /\ StreamInit
    /\ SupervisorInit /\ WatchdogInit
    /\ ManagementInit /\ MigrationInit /\ RecoveryInit /\ ArchiveInit
    /\ scene # "permissions" => \A t \in WellFormed : permitted[t]
    /\ scene # "stream" => kind = "tcp"
    /\ scene # "migration" => source = "none" /\ ~generation
    /\ scene # "recovery" =>
            /\ code = "none"
            /\ \A c \in Config : <<stashed[c], target[c], file[c]>> = <<"base", "base", "base">>

RelayNext ==
    \/ scene = "permissions" /\ Next /\ UNCHANGED <<dialVars, streamVars>>
    \/ scene = "dial" /\ DialNext /\ UNCHANGED <<vars, streamVars>>
    \/ scene = "stream" /\ StreamNext /\ UNCHANGED <<vars, dialVars>>
    \/ /\ (scene = "dial" /\ dialer = "back") \/ (scene = "stream" /\ step["handler"] = "returned")
       /\ UNCHANGED relayVars

HostNext ==
    \/ /\ scene = "management" /\ ManagementNext
       /\ UNCHANGED <<migrationVars, recoveryVars, archiveVars>>
    \/ /\ scene = "migration" /\ MigrationNext
       /\ UNCHANGED <<managementVars, recoveryVars, archiveVars>>
    \/ /\ scene = "recovery" /\ RecoveryNext
       /\ UNCHANGED <<managementVars, migrationVars, archiveVars>>
    \/ /\ scene = "archives" /\ ArchiveNext
       /\ UNCHANGED <<managementVars, migrationVars, recoveryVars>>
    \/ scene \in HostScene /\ UNCHANGED hostVars      \* done, or at a bound

ProcessNext ==
    \/ scene = "supervisor" /\ SupervisorNext /\ UNCHANGED <<watchdogVars, hostVars>>
    \/ scene = "watchdog" /\ WatchdogNext /\ UNCHANGED <<supervisorVars, hostVars>>
    \/ HostNext /\ UNCHANGED <<supervisorVars, watchdogVars>>

ServiceNext ==
    /\ \/ RelayNext /\ UNCHANGED processVars
       \/ ProcessNext /\ UNCHANGED relayVars
    /\ UNCHANGED scene

In(s, A) == scene = s /\ A

(* RelayAuth: its fairness.  RelayDial: the five seconds pass, the caller  *)
(* runs, and a dial ends once its context is done.  RelayStream: its three *)
(* goroutines run; nothing is asked of the peers.                          *)
RelayFairness ==
    /\ SF_vars(In("permissions", Tick))
    /\ \A r \in Runner : /\ WF_vars(In("permissions", CheckStart(r) \/ CheckRefused(r)))
                         /\ WF_vars(In("permissions", Retry(r)))
                         /\ WF_vars(In("permissions", Timeout(r)))
    /\ \A c \in Caller : WF_vars(In("permissions", Wake(c)))
    /\ WF_dialVars(In("dial", Hang)) /\ WF_dialVars(In("dial", CallerStep))
    /\ \A a \in Attempt : WF_dialVars(In("dial", CtxDone(a[1]) /\ AttemptStep(a)))
    /\ WF_streamVars(In("stream", HandlerStep)) /\ WF_streamVars(In("stream", UpStep))
    /\ WF_streamVars(In("stream", WatchEnds))
    /\ \A g \in Goroutine : WF_streamVars(In("stream", AbortStep(g)))

(* Fairness of the supervisor; and of the UI: the collector and the        *)
(* watchdog run, time passes, and Docker restarts what ended.              *)
ProcessFairness ==
    /\ WF_supervisorVars(In("supervisor", Loop)) /\ WF_supervisorVars(In("supervisor", Minute))
    /\ WF_supervisorVars(In("supervisor", term /\ Exit))
    /\ WF_watchdogVars(In("watchdog", Turn)) /\ SF_watchdogVars(In("watchdog", Interval))
    /\ WF_watchdogVars(In("watchdog", Restart))

ServiceSpec == ServiceInit /\ [][ServiceNext]_serviceVars /\ RelayFairness /\ ProcessFairness
=============================================================================
