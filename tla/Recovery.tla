------------------------------ MODULE Recovery ------------------------------
(***************************************************************************)
(* bin/recover-checkout.py: a checkout that git pull left half updated is  *)
(* brought to origin/main, and runtime configuration that an earlier       *)
(* update left in a stash is put back.  A run may be cut short between any *)
(* two of its commands and started again.                                  *)
(*                                                                         *)
(* Of a file it matters whether it is the one of the old commit ("base"),  *)
(* of the stash ("saved"), of the new commit ("new"), the operator's own   *)
(* ("own"), or cut off in the middle of a write ("cut").                   *)
(* A definition in front of one of the same form is a seeded fault.        *)
(***************************************************************************)
EXTENDS Integers

CONSTANTS
    Config,         \* RUNTIME_CONFIGS
    MaxInterrupts

VARIABLES
    head,           \* the commit checked out: "old" or "target"
    stashed,        \* stashed[n]: the file in the operator's stash
    target,         \* target[n]: the file in origin/main
    file,           \* file[n]: the file in the working tree
    code,           \* local changes of code: "changed", "stashed" or "none"
    plan,           \* what the run will put back
    stage,           \* where the run is
    original,       \* file[n] before the first run
    interrupts

recoveryVars == <<head, stashed, target, file, code, plan, stage, original, interrupts>>
inputs == <<stashed, target, original>>

RecoveryInit ==
    /\ head = "old"
    /\ stashed \in [Config -> {"base", "saved"}]
    /\ target \in [Config -> {"base", "saved", "new"}]
    /\ file \in [Config -> {"base", "saved", "own"}]
    /\ code \in {"changed", "none"}
    /\ plan = {} /\ stage = "idle"
    /\ original = file
    /\ interrupts = 0

-----------------------------------------------------------------------------
(* The stash counts only if it was made on the commit that is checked out. *)
Stash(n) == head = "old" /\ stashed[n] # "base"

(* Files that the stash changed and that are not as it has them.  One that *)
(* was changed since, or that the update changes too, is left to the       *)
(* operator.                                                               *)
reviewNothing(n) == FALSE
review(n) == file[n] # "base" \/ target[n] \notin {"base", stashed[n]}

runtime_plan ==
    LET wanted == {n \in Config : Stash(n) /\ file[n] # stashed[n]}
    IN /\ stage = "idle"
       /\ IF \E n \in wanted : review(n)
          THEN stage' = "refused" /\ plan' = {}
          ELSE stage' = "planned" /\ plan' = wanted
       /\ UNCHANGED <<head, file, code, inputs, interrupts>>

stash_code ==
    /\ stage = "planned"
    /\ code' = IF code = "changed" THEN "stashed" ELSE code
    /\ stage' = "merge"
    /\ UNCHANGED <<head, file, plan, inputs, interrupts>>

(* Git fast-forwards unless it would overwrite a file changed locally.     *)
merge ==
    LET touched == {n \in Config : head = "old" /\ target[n] # "base"}
    IN /\ stage = "merge"
       /\ IF \E n \in touched : file[n] # "base"
          THEN stage' = "refused" /\ UNCHANGED <<head, file>>
          ELSE /\ stage' = "restore" /\ head' = "target"
               /\ file' = [n \in Config |-> IF n \in touched THEN target[n] ELSE file[n]]
       /\ UNCHANGED <<code, plan, inputs, interrupts>>

(* One file after the other is written in place.                           *)
restore_runtime ==
    /\ stage = "restore"
    /\ \/ \E n \in plan :
            IF file[n] = "cut"
            THEN file' = [file EXCEPT ![n] = stashed[n]] /\ plan' = plan \ {n}
            ELSE file' = [file EXCEPT ![n] = "cut"] /\ UNCHANGED plan
       \/ plan = {} /\ UNCHANGED <<file, plan>>
    /\ stage' = IF plan = {} THEN "finished" ELSE "restore"
    /\ UNCHANGED <<head, code, inputs, interrupts>>

Interrupt ==
    /\ stage \notin {"idle", "finished", "refused"}
    /\ interrupts < MaxInterrupts /\ interrupts' = interrupts + 1
    /\ stage' = "idle" /\ plan' = {}
    /\ UNCHANGED <<head, file, code, inputs>>

RecoveryNext == runtime_plan \/ stash_code \/ merge \/ restore_runtime \/ Interrupt

RecoverySpec == RecoveryInit /\ [][RecoveryNext]_recoveryVars

-----------------------------------------------------------------------------
RecoveryTypeOK ==
    /\ head \in {"old", "target"} /\ plan \subseteq Config
    /\ file \in [Config -> {"base", "saved", "new", "own", "cut"}]
    /\ stage \in {"idle", "planned", "merge", "restore", "finished", "refused"}
    /\ interrupts \in 0..MaxInterrupts

(* No run overwrites a configuration that only the working tree has, and a *)
(* run that was not interrupted either refuses with every file as it was,  *)
(* or ends with the stash's configuration in place.  (Interrupted after    *)
(* the merge, the next run no longer looks at the stash.)                  *)
RecoveryKeeps ==
    /\ \A n \in Config : original[n] = "own" => file[n] = "own"
    /\ stage = "refused" /\ interrupts = 0 => file = original
    /\ stage = "finished" /\ interrupts = 0 =>
        \A n \in Config : stashed[n] # "base" => file[n] = stashed[n]
=============================================================================
