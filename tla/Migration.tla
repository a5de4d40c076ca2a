----------------------------- MODULE Migration ------------------------------
(***************************************************************************)
(* The data of an earlier installation comes into PostgreSQL: the import   *)
(* of a SQLite file or the restore of a dump (ui/app/migrate_db.py), run   *)
(* by bin/upgrade-relay.sh, possibly twice at once, cut short and run      *)
(* again, while the UI (bootstrap in ui/app/main.py) may be started at any *)
(* time.                                                                   *)
(*                                                                         *)
(* The tables are abstracted to where their rows come from.                *)
(* A definition in front of one of the same form is a seeded fault.        *)
(***************************************************************************)
EXTENDS Integers

CONSTANTS
    Tool,           \* runs of migrate_db
    MaxCuts         \* processes cut short

VARIABLES
    source,         \* the file in db/: "sqlite", "dump" or "none"
    generation,     \* the dump comes from a database restored before
    tables,         \* whose rows the database has: the file's, or the UI's own
    marks,          \* the migration:... settings
    tool,           \* tool[t]: where the run is
    start,          \* where the UI is
    cuts

migrationVars == <<source, generation, tables, marks, tool, start, cuts>>

MigrationInit ==
    /\ source \in {"sqlite", "dump", "none"}
    /\ generation \in BOOLEAN
    /\ tables = {} /\ marks = {}
    /\ tool = [t \in Tool |-> "idle"]
    /\ start = "down"
    /\ cuts = 0

MigrationCut == cuts < MaxCuts /\ cuts' = cuts + 1
empty_database == tables = {} /\ marks = {}

-----------------------------------------------------------------------------
(* The checks, and again under the advisory lock in the transaction that   *)
(* copies the rows and sets the marker; any failure rolls it back.         *)
import_sqliteMarksLater(t) ==
    /\ source = "sqlite"
    /\ \/ /\ tool[t] = "idle"
          /\ tool' = [tool EXCEPT ![t] = IF "sqlite" \in marks THEN "done"
                                         ELSE IF empty_database THEN "import" ELSE "refused"]
          /\ UNCHANGED <<tables, marks>>
       \/ /\ tool[t] = "import"
          /\ tables' = tables \cup {"sqlite"}
          /\ tool' = [tool EXCEPT ![t] = "mark"] /\ UNCHANGED marks
       \/ /\ tool[t] = "mark"
          /\ marks' = marks \cup {"sqlite"}
          /\ tool' = [tool EXCEPT ![t] = "done"] /\ UNCHANGED tables
    /\ UNCHANGED <<source, generation, start, cuts>>
import_sqlite(t) ==
    /\ source = "sqlite"
    /\ \/ /\ tool[t] = "idle"
          /\ tool' = [tool EXCEPT ![t] = IF "sqlite" \in marks THEN "done"
                                         ELSE IF empty_database THEN "import" ELSE "refused"]
          /\ UNCHANGED <<tables, marks>>
       \/ /\ tool[t] = "import" /\ "sqlite" \notin marks /\ empty_database
          /\ tables' = {"sqlite"} /\ marks' = {"sqlite"}
          /\ tool' = [tool EXCEPT ![t] = "done"]
       \/ /\ tool[t] = "import"
          /\ tool' = [tool EXCEPT ![t] = IF "sqlite" \in marks THEN "done" ELSE "refused"]
          /\ UNCHANGED <<tables, marks>>
    /\ UNCHANGED <<source, generation, start, cuts>>

(* pg_restore is one transaction and fails on rows with the same keys; the *)
(* marker is a statement of its own after it.                              *)
restore_dump(t) ==
    /\ source = "dump"
    /\ \/ /\ tool[t] = "idle"
          /\ tool' = [tool EXCEPT ![t] = IF empty_database THEN "restore"
                                         ELSE IF "dump" \in marks THEN "done" ELSE "refused"]
          /\ UNCHANGED <<tables, marks>>
       \/ /\ tool[t] = "restore" /\ tables = {}
          /\ tables' = {"dump"} /\ marks' = marks \cup (IF generation THEN {"dump"} ELSE {})
          /\ tool' = [tool EXCEPT ![t] = "mark"]
       \/ /\ tool[t] = "restore"
          /\ tool' = [tool EXCEPT ![t] = "refused"] /\ UNCHANGED <<tables, marks>>
       \/ /\ tool[t] = "mark"
          /\ marks' = marks \cup {"dump"}
          /\ tool' = [tool EXCEPT ![t] = "done"] /\ UNCHANGED <<tables>>
    /\ UNCHANGED <<source, generation, start, cuts>>

(* main, with nothing to import.                                           *)
fresh_install(t) ==
    /\ source = "none" /\ tool[t] = "idle"
    /\ tool' = [tool EXCEPT ![t] = "done"]
    /\ UNCHANGED <<source, generation, tables, marks, start, cuts>>

-----------------------------------------------------------------------------
(* The UI does not start over a SQLite file that was not imported.  On an  *)
(* empty database it stores migration:identities, a row that every dump    *)
(* has too, and only then looks for an account and makes the first one.    *)
bootstrap_ui ==
    /\ \/ /\ start = "down" /\ ~(source = "sqlite" /\ marks = {})
          /\ start' = IF tables = {} THEN "new" ELSE "up"
          /\ UNCHANGED tables
       \/ /\ start = "new" /\ start' = "up"
          /\ tables' = IF tables = {} THEN {"ui"} ELSE tables
    /\ UNCHANGED <<source, generation, marks, tool, cuts>>

(* A run or the UI is cut short, or run again.                             *)
cut_short ==
    /\ MigrationCut
    /\ \/ \E t \in Tool : tool[t] # "idle" /\ tool' = [tool EXCEPT ![t] = "idle"] /\ UNCHANGED start
       \/ start # "down" /\ start' = "down" /\ UNCHANGED tool
    /\ UNCHANGED <<source, generation, tables, marks>>

MigrationNext ==
    \/ \E t \in Tool : import_sqlite(t) \/ restore_dump(t) \/ fresh_install(t)
    \/ bootstrap_ui
    \/ cut_short

MigrationSpec == MigrationInit /\ [][MigrationNext]_migrationVars

-----------------------------------------------------------------------------
MigrationTypeOK ==
    /\ tables \subseteq {"sqlite", "dump", "ui"} /\ marks \subseteq {"sqlite", "dump"}
    /\ tool \in [Tool -> {"idle", "import", "restore", "mark", "done", "refused"}]
    /\ start \in {"down", "new", "up"}
    /\ cuts \in 0..MaxCuts

(* The rows of an earlier installation are never mixed with others, and    *)
(* wherever a run is cut short the next step remains open: with a SQLite   *)
(* file the database is empty, so that the import can be run, or imported  *)
(* and marked, so that the UI starts.  A run that reports success left the *)
(* dump's rows.                                                            *)
ImportedWhole ==
    /\ \A one, other \in tables : one = other
    /\ source = "sqlite" => tables = marks /\ tables \subseteq {"sqlite"}
    /\ source = "dump" /\ (\E t \in Tool : tool[t] = "done") => "dump" \in tables
=============================================================================
