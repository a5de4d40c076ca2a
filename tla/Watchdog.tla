------------------------------ MODULE Watchdog ------------------------------
(***************************************************************************)
(* How a UI that no longer works is restarted: the collector thread's      *)
(* heartbeat (ui/app/collector.py), /healthz (ui/app/main.py), the         *)
(* watchdog thread (ui/app/watchdog.py) that asks for it and ends the      *)
(* process, and Docker's restart policy.                                   *)
(*                                                                         *)
(* Time passes in intervals of the watchdog.                               *)
(* A definition in front of one of the same form is a seeded fault.        *)
(***************************************************************************)
EXTENDS Integers

CONSTANTS
    MaxTurn,        \* intervals that a turn and the pause after it may take
    StaleAfter,     \* intervals without a new turn after which alive() fails
    Failures,       \* failed checks in a row before the process ends
    Grace           \* intervals before the first check

(* 4 and 4 intervals of 30 s in the code; alive() allows 180 s and twice   *)
(* the poll interval for a turn.                                           *)
ASSUME WatchdogAssumption ==
    /\ {MaxTurn, StaleAfter, Failures, Grace} \subseteq Nat \ {0}
    /\ MaxTurn < StaleAfter

VARIABLES
    process,        \* the UI's process: "up" or "ended"
    collecting,     \* the collector thread: "runs", "hangs" or "dead"
    web,            \* the web server answers
    beat,           \* intervals since the collector's last turn began
    failed,         \* the watchdog's count
    grace,          \* intervals until its first check
    ill             \* something hung or died since the last good check

watchdogVars == <<process, collecting, web, beat, failed, grace, ill>>

Working == process = "up" /\ collecting = "runs" /\ web

WatchdogInit ==
    /\ process = "up" /\ collecting = "runs" /\ web = TRUE
    /\ beat = 0 /\ failed = 0 /\ grace = Grace /\ ill = FALSE

-----------------------------------------------------------------------------
(* The collector's loop stores the time at the start of every turn.        *)
Turn ==
    /\ process = "up" /\ collecting = "runs"
    /\ beat' = 0
    /\ UNCHANGED <<process, collecting, web, failed, grace, ill>>

alive == collecting # "dead" /\ beat < StaleAfter

healthzWebOnly == web
healthz == web /\ alive

(* One turn of the watchdog's loop; die ends the process at once.          *)
Watch ==
    /\ grace' = IF grace > 0 THEN grace - 1 ELSE 0
    /\ failed' = IF grace > 0 \/ healthz THEN 0 ELSE failed + 1
    /\ process' = IF failed' >= Failures THEN "ended" ELSE "up"
    /\ ill' = (~Working \/ (ill /\ ~healthz))

(* An interval passes; a collector that does not hang begins a turn in     *)
(* time.  Time passes whatever comes and goes: strong fairness.            *)
Interval ==
    /\ process = "up"
    /\ collecting = "runs" => beat < MaxTurn
    /\ beat' = IF beat < StaleAfter THEN beat + 1 ELSE beat
    /\ Watch
    /\ UNCHANGED <<collecting, web>>

(* Docker: restart unless-stopped.                                         *)
Restart ==
    /\ process = "ended"
    /\ process' = "up" /\ collecting' = "runs" /\ web' = TRUE
    /\ beat' = 0 /\ failed' = 0 /\ grace' = Grace /\ ill' = FALSE

-----------------------------------------------------------------------------
(* A query, a file system or the event loop hangs, and may come back; the  *)
(* thread dies of an error outside the loop's try.                         *)
Ails ==
    /\ process = "up"
    /\ \/ collecting = "runs" /\ collecting' \in {"hangs", "dead"} /\ UNCHANGED web
       \/ web /\ web' = FALSE /\ UNCHANGED collecting
    /\ ill' = TRUE
    /\ UNCHANGED <<process, beat, failed, grace>>

Recovers ==
    /\ process = "up"
    /\ \/ collecting = "hangs" /\ collecting' = "runs" /\ UNCHANGED web
       \/ ~web /\ web' = TRUE /\ UNCHANGED collecting
    /\ UNCHANGED <<process, beat, failed, grace, ill>>

WatchdogNext == Turn \/ Interval \/ Restart \/ Ails \/ Recovers

-----------------------------------------------------------------------------
WatchdogTypeOK ==
    /\ process \in {"up", "ended"} /\ collecting \in {"runs", "hangs", "dead"}
    /\ {web, ill} \subseteq BOOLEAN
    /\ beat \in 0..StaleAfter /\ failed \in 0..Failures /\ grace \in 0..Grace

(* A collector that hangs or died does not stay that way, nor does a web   *)
(* server that does not answer: it comes back or the UI is restarted, also *)
(* when both come and go.  And the watchdog ends no process in which all   *)
(* that is wrong are slow turns.                                           *)
UiRestarts ==
    /\ []<>(process = "up" /\ collecting = "runs")
    /\ []<>(process = "up" /\ web)
    /\ [][process' = "ended" => ill]_watchdogVars
=============================================================================
