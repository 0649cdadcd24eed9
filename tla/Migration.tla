------------------------------ MODULE Migration ------------------------------
(***************************************************************************)
(* The start of the process up to the end of startup_resume_detection, and *)
(* in it the migration of the table runs (init_db, robot/app/db.py).       *)
(*                                                                         *)
(* The startup handler runs alone.  A statement of it that SQLite commits  *)
(* by itself is an action; what the transaction opened by the copying      *)
(* INSERT wrote is nowhere until the commit in init_db.  The old table     *)
(* has the columns that the indexes of schema.sql name, so that the schema *)
(* script succeeds.  What the handlers of a served process do to the       *)
(* tables is the subject of other modules: none of them changes what is    *)
(* decided here, and their connections find nothing to migrate.            *)
(***************************************************************************)
EXTENDS Naturals, RunLifecycle

CONSTANTS
  Runs,
  Statuses,           \* contents of the column status at the first start
  Canonical(_),       \* UPPER(TRIM(status))
  MaxCrashes          \* bound: restarts of the process

ASSUME MigrationAssumption ==
  /\ \A s \in RunStatus : Canonical(s) = s
  /\ MaxCrashes \in Nat

VARIABLES
  shape,      \* of the table runs: "absent", "legacy" or "canonical"
  rows,       \* runs.status, a function on the runs that have a row
  broken,     \* runs whose row a NOT NULL of the new table refuses
  carded,     \* runs with rows in run_cards, whose foreign key cascades
  leftover,   \* a table runs_new exists
  foreignKeys,\* the switch of the connection
  boot,       \* where the process is
  crashes

tables == <<shape, rows, broken, carded, leftover>>
vars == <<tables, foreignKeys, boot, crashes>>

Boot == {"down", "schema", "inspect", "create", "copy", "swap", "detect",
         "up", "failed"}

Init ==
  /\ \/ shape = "absent" /\ rows = <<>>
     \/ shape = "canonical" /\ rows \in [Runs -> Statuses \cap RunStatus]
     \/ shape = "legacy" /\ rows \in [Runs -> Statuses]
  /\ broken \in IF shape = "legacy" THEN SUBSET Runs ELSE {{}}
  /\ carded \in SUBSET DOMAIN rows
  /\ leftover = FALSE
  /\ foreignKeys = FALSE
  /\ boot = "down"
  /\ crashes = 0

-----------------------------------------------------------------------------
(* connect() switches the foreign keys on.                                 *)
Start ==
  /\ boot = "down"
  /\ boot' = "schema"
  /\ foreignKeys' = TRUE
  /\ UNCHANGED <<tables, crashes>>

(* The script creates what does not exist.                                 *)
ApplySchema ==
  /\ boot = "schema"
  /\ shape' = IF shape = "absent" THEN "canonical" ELSE shape
  /\ boot' = "inspect"
  /\ UNCHANGED <<rows, broken, carded, leftover, foreignKeys, crashes>>

(* Mutant of RequiresRebuild: the CHECK of the table is not looked at.     *)
NeverRebuilt == FALSE

RequiresRebuild == shape = "legacy"

(* Mutant of KeysWhileRebuilding: the PRAGMA is forgotten.                 *)
KeysStayOn == TRUE

KeysWhileRebuilding == FALSE

Inspect ==
  /\ boot = "inspect"
  /\ \/ /\ RequiresRebuild
        /\ boot' = "create"
        /\ foreignKeys' = KeysWhileRebuilding
     \/ /\ ~RequiresRebuild
        /\ boot' = "detect"
        /\ UNCHANGED foreignKeys
  /\ UNCHANGED <<tables, crashes>>

(* CREATE TABLE runs_new, outside any transaction.                         *)
CreateNew ==
  /\ boot = "create"
  /\ ~leftover
  /\ leftover' = TRUE
  /\ boot' = "copy"
  /\ UNCHANGED <<shape, rows, broken, carded, foreignKeys, crashes>>

(* It exists already: the startup handler raises, the server gives up.     *)
CreateRefused ==
  /\ boot = "create"
  /\ leftover
  /\ boot' = "failed"
  /\ foreignKeys' = TRUE
  /\ UNCHANGED <<tables, crashes>>

(* Mutant of Normalized: the value is copied as it is spelled.             *)
Verbatim(s) == s

(* _normalize_status_expr; NULL and CREATED are no canonical statuses.     *)
Normalized(s) == IF Canonical(s) \in RunStatus THEN Canonical(s) ELSE "IDLE"

(* INSERT INTO runs_new ... SELECT, against the constraints of the table.  *)
Copyable == broken = {} /\ \A r \in DOMAIN rows : Normalized(rows[r]) \in RunStatus

Copy ==
  /\ boot = "copy"
  /\ Copyable
  /\ boot' = "swap"
  /\ UNCHANGED <<tables, foreignKeys, crashes>>

CopyRefused ==
  /\ boot = "copy"
  /\ ~Copyable
  /\ boot' = "failed"
  /\ UNCHANGED <<tables, foreignKeys, crashes>>

(* DROP, RENAME and the commit.  With foreign keys on, the DROP deletes    *)
(* the rows of runs first, and theirs in run_cards with them.  The PRAGMA  *)
(* that should switch them on again comes inside the transaction, where    *)
(* SQLite ignores it.                                                      *)
Swap ==
  /\ boot = "swap"
  /\ shape' = "canonical"
  /\ rows' = [r \in DOMAIN rows |-> Normalized(rows[r])]
  /\ carded' = IF foreignKeys THEN {} ELSE carded
  /\ leftover' = FALSE
  /\ boot' = "detect"
  /\ UNCHANGED <<broken, foreignKeys, crashes>>

(* get_resume_candidates only reads; its connection is closed.             *)
Detect ==
  /\ boot = "detect"
  /\ boot' = "up"
  /\ foreignKeys' = FALSE
  /\ UNCHANGED <<tables, crashes>>

(* The process dies, or is stopped after a failed start: an open           *)
(* transaction rolls back, and SQLite drops the connection's settings.     *)
Crash ==
  /\ boot # "down"
  /\ crashes < MaxCrashes                          \* bound
  /\ crashes' = crashes + 1
  /\ boot' = "down"
  /\ foreignKeys' = FALSE
  /\ UNCHANGED tables

Booting ==
  \/ ApplySchema \/ Inspect \/ CreateNew \/ CreateRefused
  \/ Copy \/ CopyRefused \/ Swap \/ Detect

Next == Start \/ Booting \/ Crash

Spec == Init /\ [][Next]_vars

-----------------------------------------------------------------------------
(* The tables and the process have the types the code gives them.  A       *)
(* process that serves requests has the canonical table, in which every    *)
(* status is one the lifecycle knows (init_db comes before anything else); *)
(* runs_new is there only while there is something left to migrate.        *)
MigrationOK ==
  /\ shape \in {"absent", "legacy", "canonical"}
  /\ boot \in {"detect", "up"} => shape = "canonical"
  /\ shape = "absent" => rows = <<>> /\ boot \in {"down", "schema"}
  /\ shape = "canonical" => /\ \A r \in DOMAIN rows : rows[r] \in RunStatus
                            /\ ~leftover
                            /\ boot \notin {"create", "copy", "swap", "failed"}
  /\ carded \subseteq DOMAIN rows
  /\ leftover \in BOOLEAN /\ foreignKeys \in BOOLEAN
  /\ boot \in Boot /\ crashes \in Nat

(* What the service makes of the tables.                                   *)
Seen == [cards |-> carded, status |-> [r \in DOMAIN rows |-> Normalized(rows[r])]]

(* The migration loses nothing, wherever a crash cuts it off and however   *)
(* often the process starts: it never changes what the service makes of a  *)
(* run, its normalized status and its cards (the rebuild drops the table   *)
(* that run_cards refers to, with cascading foreign keys).                 *)
NothingLost == [][Seen' = Seen]_vars

(* A start fails only on what an interrupted or refused migration left     *)
(* behind: without a crash and with rows the new table accepts, it         *)
(* succeeds (init_db).                                                     *)
CleanStart == boot = "failed" => crashes > 0 \/ broken # {}

(* docs/canonical/milestones.json: "All runs restart-safe".  A start of    *)
(* the process succeeds, if the rows of the old table satisfy the          *)
(* constraints of the new one.                                             *)
StartSucceeds == broken = {} => boot # "failed"

=============================================================================
