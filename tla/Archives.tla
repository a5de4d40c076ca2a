------------------------------ MODULE Archives ------------------------------
(***************************************************************************)
(* The backups of the UI (ui/app/backup.py): the daily one of the          *)
(* maintenance thread and those of the Server page, which may overlap,     *)
(* fail and be cut short.                                                  *)
(*                                                                         *)
(* An archive holds the PKI as it was read file by file, so what matters   *)
(* of it is the first and the last version it saw.  Its name is the time   *)
(* at which it was begun; the clock is assumed not to go back.             *)
(* A definition in front of one of the same form is a seeded fault.        *)
(***************************************************************************)
EXTENDS Integers, FiniteSets, FiniteSetsExt

CONSTANTS
    Job,            \* calls of create
    BackupKeep,     \* backup_keep
    MaxSeconds, MaxBreaks

(* backup_keep is a number; with 0 no archive is ever pruned.              *)
ASSUME ArchivesAssumption == BackupKeep \in Nat

VARIABLES
    pkiVersion,     \* changes of the PKI so far, each under pki.lock
    archives,       \* the files with a final name
    job,            \* job[j]: what create is doing
    made,           \* names of the archives that were finished
    second,
    breaks

archiveVars == <<pkiVersion, archives, job, made, second, breaks>>

NoJob == [name |-> 0, from |-> 0, to |-> 0, todo |-> {}, at |-> "idle"]
Names == {a.name : a \in archives}

ArchiveInit ==
    /\ pkiVersion = 0
    /\ archives = {} /\ made = {}
    /\ job = [j \in Job |-> NoJob]
    /\ second = 1 /\ breaks = 0

(* No certificate is made or revoked while an archive is read.            *)
pki_lockIgnored == FALSE
pki_lock == \E j \in Job : job[j].at = "read"

(* archives()[:-keep], by name.                                            *)
Outdated == {n \in Names : BackupKeep > 0 /\ Cardinality({m \in Names : m > n}) >= BackupKeep}

-----------------------------------------------------------------------------
(* create begins: the Server page asks for it, or ensure_recent finds the  *)
(* last archive a day old.                                                 *)
backup_now(j) ==
    /\ job[j] = NoJob
    /\ job' = [job EXCEPT ![j] = [NoJob EXCEPT !.name = second, !.at = "begun"]]
    /\ UNCHANGED <<pkiVersion, archives, made, second, breaks>>

(* The archive is read under the lock into a private directory, copied to  *)
(* a partial file and renamed; then the oldest are removed one by one.     *)
create(j) ==
    /\ \/ /\ job[j].at = "begun" /\ ~pki_lock
          /\ job' = [job EXCEPT ![j].at = "read", ![j].from = pkiVersion]
          /\ UNCHANGED <<archives, made>>
       \/ /\ job[j].at = "read"
          /\ job' = [job EXCEPT ![j].at = "copy", ![j].to = pkiVersion]
          /\ UNCHANGED <<archives, made>>
       \/ /\ job[j].at = "copy"
          /\ archives' = {a \in archives : a.name # job[j].name} \cup
                          {[name |-> job[j].name, whole |-> job[j].from = job[j].to]}
          /\ job' = [job EXCEPT ![j].at = "list"]
          /\ made' = made \cup {job[j].name}
       \/ /\ job[j].at = "list"
          /\ job' = [job EXCEPT ![j].at = "prune", ![j].todo = Outdated]
          /\ UNCHANGED <<archives, made>>
       \/ /\ job[j].at = "prune" /\ job[j].todo # {}
          /\ LET old == Min(job[j].todo) IN
              /\ archives' = {a \in archives : a.name # old}
              /\ job' = [job EXCEPT ![j] = IF old \in Names THEN [job[j] EXCEPT !.todo = @ \ {old}]
                                           ELSE NoJob]     \* unlink fails: another job was first
          /\ UNCHANGED made
       \/ /\ job[j].at = "prune" /\ job[j].todo = {}
          /\ job' = [job EXCEPT ![j] = NoJob]
          /\ UNCHANGED <<archives, made>>
    /\ UNCHANGED <<pkiVersion, second, breaks>>

(* An error or the end of the process; a partial file has no final name.   *)
Break(j) ==
    /\ job[j] # NoJob
    /\ breaks < MaxBreaks /\ breaks' = breaks + 1
    /\ job' = [job EXCEPT ![j] = NoJob]
    /\ UNCHANGED <<pkiVersion, archives, made, second>>

ChangePki ==
    /\ ~pki_lock /\ pkiVersion < 1
    /\ pkiVersion' = pkiVersion + 1
    /\ UNCHANGED <<archives, job, made, second, breaks>>

Second ==
    /\ second < MaxSeconds /\ second' = second + 1
    /\ UNCHANGED <<pkiVersion, archives, job, made, breaks>>

ArchiveNext ==
    \/ \E j \in Job : backup_now(j) \/ create(j) \/ Break(j)
    \/ ChangePki \/ Second

ArchiveSpec == ArchiveInit /\ [][ArchiveNext]_archiveVars

-----------------------------------------------------------------------------
ArchiveTypeOK ==
    /\ archives \subseteq [name : 1..MaxSeconds, whole : BOOLEAN]
    /\ \A j \in Job : job[j].at \in {"idle", "begun", "read", "copy", "list", "prune"}
    /\ made \subseteq 1..MaxSeconds /\ breaks \in 0..MaxBreaks

(* A file with an archive's name is a complete copy of the PKI of one      *)
(* moment, and however many backups run, fail or prune at once, the newest *)
(* BackupKeep archives ever finished are there; all of them when it is 0.  *)
BackupsWhole ==
    /\ \A a \in archives : a.whole
    /\ \A n \in made : BackupKeep = 0 \/ Cardinality({m \in made : m > n}) < BackupKeep => n \in Names
=============================================================================
