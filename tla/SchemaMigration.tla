--------------------------- MODULE SchemaMigration ---------------------------
(***************************************************************************)
(* The schema of the SQLite file, which every process brings up to date    *)
(* for itself: init_db at the start of the API, the migration script, and  *)
(* the DAOs before each write.  sqlite3 opens a transaction at the first   *)
(* INSERT, UPDATE or DELETE; a CREATE, ALTER or DROP before that is        *)
(* committed on its own, one after it belongs to the transaction.          *)
(***************************************************************************)
EXTENDS SequencesExt

CONSTANTS
  Procs,      \* processes with the file open
  MaxTries,   \* _WRITE_LOCK_MAX_RETRIES
  MaxStarts   \* bound: starts of a process

ASSUME SchemaAssumption ==
  MaxTries \in Nat \ {0} /\ MaxStarts \in Nat \ {0} /\ "none" \notin Procs

VARIABLES
  db,    \* what is committed: columns of each table, rows of tasks and tasks_new
  txn,   \* the write transaction: whose, and what the file is to that process
  proc   \* where each process is

schemaVars == <<db, txn, proc>>

NoOne == "none"
OldRow == "old"
TaskRows == Procs \cup {OldRow}
Columns == {"id", "celery", "teacher", "fingerprint", "legacy"}
Tables == {"tasks", "tasks_new", "rubrics", "rubric_audit", "domain_split",
           "validation", "telemetry", "prompt_control"}

(* A table without columns does not exist.                                 *)
Files == [columns : [Tables -> SUBSET Columns], rows : SUBSET TaskRows, copy : SUBSET TaskRows]
-----------------------------------------------------------------------------
(* What the functions execute, statement by statement.                     *)
Create(table) == [op |-> "create", table |-> table, adds |-> <<>>]
AddTo(table, columns) == [op |-> "add", table |-> table, adds |-> columns]
Index(table, column) == [op |-> "index", table |-> table, adds |-> <<column>>]
Do(op) == [op |-> op, table |-> "tasks", adds |-> <<>>]

(* schema.sql: the tables, then the indexes.  Only one index is over a      *)
(* column that a table of an older file may lack.                          *)
SchemaScript ==
  <<Create("tasks"), Create("domain_split"), Create("telemetry"), Create("prompt_control"),
    Create("validation"), Create("rubrics"), Create("rubric_audit"),
    Index("rubrics", "fingerprint")>>

(* Mutant: the start of the API adds the one younger column only.          *)
EnsureCeleryColumn(celery) ==
  <<AddTo("tasks", IF celery THEN <<"celery">> ELSE <<"teacher">>)>>

EnsureTasksColumns(celery) ==
  <<AddTo("tasks", IF celery THEN <<"celery", "teacher">> ELSE <<"teacher">>)>>
EnsureRubricsSchema      == <<Create("rubrics"), AddTo("rubrics", <<"fingerprint">>)>>
EnsureRubricAuditSchema  == <<Create("rubric_audit")>>
EnsureDomainSplitTables  == <<Create("domain_split")>>
EnsureSkillValidation    == <<Create("validation")>>
EnsureRuntimeTelemetry   == <<Create("telemetry")>>
(* The seed rows of the flags and release tables open the transaction, as  *)
(* the row does that save_rubric inserts.                                  *)
EnsurePromptControl      == <<Create("prompt_control"), Do("seed")>>

DropLegacyColumns ==
  EnsureTasksColumns(TRUE) \o <<Do("drop_new"), Do("create_new"), Do("copy"), Do("swap")>>

Program(kind) ==
  CASE kind = "init" ->
         SchemaScript \o EnsureTasksColumns(TRUE) \o EnsureRubricsSchema
         \o EnsureRubricAuditSchema \o EnsureDomainSplitTables \o EnsureSkillValidation
         \o EnsureRuntimeTelemetry \o EnsurePromptControl
         \o <<Do("if_legacy")>> \o DropLegacyColumns \o <<Do("commit")>>
    [] kind = "script" -> <<Do("if_legacy")>> \o DropLegacyColumns \o <<Do("commit")>>
    [] kind = "dao" -> EnsureTasksColumns(FALSE) \o <<Do("insert"), Do("commit")>>
    [] kind = "rubric" -> EnsureRubricsSchema \o <<Do("seed"), Do("commit")>>

Kinds == {"init", "script", "dao", "rubric"}

(* The schema of a new table: schema.sql lacks the younger columns of the  *)
(* tasks, and only these.                                                  *)
NewColumns(table) ==
  CASE table = "tasks"   -> {"id", "celery"}
    [] table = "rubrics" -> {"id", "fingerprint"}
    [] OTHER             -> {"id"}

RebuiltColumns == {"id", "celery", "teacher"}
-----------------------------------------------------------------------------
SchemaTypeOK ==
  /\ db \in Files
  /\ txn.by \in Procs \cup {NoOne} /\ txn.view \in Files
  /\ \A p \in Procs :
       /\ proc[p].kind \in Kinds
       /\ proc[p].state \in {"running", "done", "failed"}
       /\ proc[p].at \in 1..Len(Program(proc[p].kind))
       /\ proc[p].seen \subseteq Columns
       /\ proc[p].tries \in 1..MaxTries
       /\ proc[p].starts \in 1..MaxStarts
       /\ proc[p].read \in BOOLEAN /\ proc[p].alone \in BOOLEAN

NoFile     == [columns |-> [t \in Tables |-> {}], rows |-> {}, copy |-> {}]
OldFile    == [NoFile EXCEPT !.columns["tasks"] = {"id", "legacy"}, !.rows = {OldRow}]
RubricFile == [OldFile EXCEPT !.columns["rubrics"] = {"id"}]
LaterFile  == [NoFile EXCEPT !.columns["tasks"] = {"id", "celery", "legacy"},
                             !.columns["rubrics"] = {"id", "fingerprint"},
                             !.rows = {OldRow}]

Begun(kind) == [kind |-> kind, state |-> "running", at |-> 1, read |-> FALSE, seen |-> {},
                tries |-> 1, starts |-> 1, alone |-> TRUE]

SchemaInit ==
  /\ db \in {NoFile, OldFile, RubricFile, LaterFile}
  /\ txn = [by |-> NoOne, view |-> NoFile]
  /\ proc \in [Procs -> {Begun(k) : k \in Kinds}]
-----------------------------------------------------------------------------
Op(p)   == Program(proc[p].kind)[proc[p].at]
View(p) == IF txn.by = p THEN txn.view ELSE db
At(p, op) == proc[p].state = "running" /\ Op(p).op = op
MayWrite(p) == txn.by \in {p, NoOne}

NoTransaction == [by |-> NoOne, view |-> NoFile]

(* Whoever is at work while another changes the schema is not alone.       *)
Moves(p, self) ==
  proc' = [q \in Procs |->
    IF q = p THEN self
    ELSE [proc[q] EXCEPT !.alone = @ /\ (db'.columns = db.columns \/ proc[q].state # "running")]]

Advance(p) == [proc[p] EXCEPT !.at = @ + 1, !.read = FALSE, !.seen = {}]
Jump(p, n) == [proc[p] EXCEPT !.at = n, !.read = FALSE, !.seen = {}]

(* A statement of DDL.                                                     *)
Define(p, file, self) ==
  /\ MayWrite(p)
  /\ IF txn.by = p THEN txn' = [txn EXCEPT !.view = file] /\ db' = db
                   ELSE db' = file /\ txn' = txn
  /\ Moves(p, self)

(* A statement that writes rows.                                           *)
Modify(p, file) ==
  /\ MayWrite(p)
  /\ txn' = [by |-> p, view |-> file]
  /\ db' = db
  /\ Moves(p, Advance(p))

(* An error that is not about a lock leaves the process, or the request.   *)
Fails(p) ==
  /\ txn' = IF txn.by = p THEN NoTransaction ELSE txn
  /\ db' = db
  /\ Moves(p, [Jump(p, 1) EXCEPT !.state = "failed"])

CreateTable(p) ==
  /\ At(p, "create")
  /\ LET t == Op(p).table IN
     Define(p, IF View(p).columns[t] # {} THEN View(p)
               ELSE [View(p) EXCEPT !.columns[t] = NewColumns(t)], Advance(p))

(* An index over a column the table lacks is an error.                     *)
CreateIndex(p) ==
  /\ At(p, "index")
  /\ IF \A i \in DOMAIN Op(p).adds : Op(p).adds[i] \in View(p).columns[Op(p).table]
     THEN Define(p, View(p), Advance(p)) ELSE Fails(p)

ReadColumns(p) ==
  /\ At(p, "add") /\ ~proc[p].read
  /\ proc' = [proc EXCEPT ![p].read = TRUE, ![p].seen = View(p).columns[Op(p).table]]
  /\ UNCHANGED <<db, txn>>

(* The columns to add that were not there when the columns were read.      *)
ToAdd(p) == {i \in DOMAIN Op(p).adds : Op(p).adds[i] \notin proc[p].seen}

(* ALTER TABLE ADD COLUMN for the first of them.                           *)
AddColumn(p) ==
  /\ At(p, "add") /\ proc[p].read
  /\ \/ ToAdd(p) = {} /\ UNCHANGED <<db, txn>> /\ Moves(p, Advance(p))
     \/ \E i \in ToAdd(p) :
          /\ \A j \in ToAdd(p) : i <= j
          /\ LET t == Op(p).table
                 c == Op(p).adds[i]
             IN IF View(p).columns[t] = {} \/ c \in View(p).columns[t] THEN Fails(p)
                ELSE Define(p, [View(p) EXCEPT !.columns[t] = @ \cup {c}],
                            [proc[p] EXCEPT !.seen = @ \cup {c}])

Seed(p) == At(p, "seed") /\ Modify(p, View(p))

(* _has_legacy_review_columns: if there are none, there is only the commit.*)
IfLegacy(p) ==
  /\ At(p, "if_legacy")
  /\ proc' = [proc EXCEPT ![p] =
       IF "legacy" \in View(p).columns["tasks"] THEN Advance(p)
       ELSE Jump(p, Len(Program(proc[p].kind)))]
  /\ UNCHANGED <<db, txn>>

(* Mutant: the leftover of an earlier migration is not cleared.            *)
DropNewSkipped(p) == At(p, "drop_new") /\ Define(p, View(p), Advance(p))

DropNew(p) ==
  /\ At(p, "drop_new")
  /\ Define(p, [View(p) EXCEPT !.columns["tasks_new"] = {}, !.copy = {}], Advance(p))

CreateNew(p) ==
  /\ At(p, "create_new") /\ MayWrite(p)
  /\ IF View(p).columns["tasks_new"] # {} THEN Fails(p)
     ELSE Define(p, [View(p) EXCEPT !.columns["tasks_new"] = RebuiltColumns], Advance(p))

(* Mutant: the copy is committed on its own.                               *)
CopyRowsCommitted(p) ==
  /\ At(p, "copy") /\ MayWrite(p)
  /\ IF View(p).columns["tasks_new"] = {} THEN Fails(p)
     ELSE Define(p, [View(p) EXCEPT !.copy = View(p).rows], Advance(p))

(* INSERT INTO tasks_new SELECT ... FROM tasks.                            *)
CopyRows(p) ==
  /\ At(p, "copy") /\ MayWrite(p)
  /\ IF View(p).columns["tasks_new"] = {} \/ View(p).columns["tasks"] = {} THEN Fails(p)
     ELSE Modify(p, [View(p) EXCEPT !.copy = View(p).rows])

(* DROP TABLE tasks and the renaming.                                      *)
SwapTables(p) ==
  /\ At(p, "swap")
  /\ Define(p, [View(p) EXCEPT !.columns["tasks"] = View(p).columns["tasks_new"],
                               !.columns["tasks_new"] = {},
                               !.rows = View(p).copy, !.copy = {}], Advance(p))

InsertRow(p) ==
  /\ At(p, "insert") /\ MayWrite(p)
  /\ IF "teacher" \in View(p).columns["tasks"]
     THEN Modify(p, [View(p) EXCEPT !.rows = @ \cup {p}])
     ELSE Fails(p)

Commit(p) ==
  /\ At(p, "commit")
  /\ db' = View(p)
  /\ txn' = IF txn.by = p THEN NoTransaction ELSE txn
  /\ Moves(p, [proc[p] EXCEPT !.state = "done"])

(* _execute_write_with_retry: the lock was not to be had in time.          *)
LockTimesOut(p) ==
  /\ proc[p].state = "running" /\ ~MayWrite(p)
  /\ Op(p).op \notin {"if_legacy", "commit"}
  /\ Op(p).op = "add" => proc[p].read
  /\ proc' = [proc EXCEPT ![p] =
       IF proc[p].tries = MaxTries THEN [Jump(p, 1) EXCEPT !.state = "failed", !.alone = FALSE]
       ELSE [Jump(p, 1) EXCEPT !.tries = @ + 1, !.alone = FALSE]]
  /\ UNCHANGED <<db, txn>>

(* The process dies, and what it had not committed with it.                *)
Crash(p) ==
  /\ proc[p].state = "running"
  /\ txn' = IF txn.by = p THEN NoTransaction ELSE txn
  /\ proc' = [proc EXCEPT ![p].state = "failed", ![p].alone = FALSE]
  /\ UNCHANGED db

(* Docker starts it again; a request is made again.                        *)
StartAgain(p) ==
  /\ proc[p].state # "running" /\ proc[p].starts < MaxStarts
  /\ proc' = [proc EXCEPT ![p] = [Begun(@.kind) EXCEPT !.starts = proc[p].starts + 1]]
  /\ UNCHANGED <<db, txn>>

SchemaNext ==
  \E p \in Procs :
    \/ CreateTable(p) \/ CreateIndex(p) \/ ReadColumns(p) \/ AddColumn(p) \/ Seed(p)
    \/ IfLegacy(p) \/ DropNew(p) \/ CreateNew(p) \/ CopyRows(p) \/ SwapTables(p) \/ InsertRow(p)
    \/ Commit(p) \/ LockTimesOut(p) \/ Crash(p) \/ StartAgain(p)

SchemaSpec == SchemaInit /\ [][SchemaNext]_schemaVars
-----------------------------------------------------------------------------
(* Whatever statement a process is at, dies at or rolls back, the others   *)
(* find the tasks table as TaskTable has it: a rebuild neither loses nor   *)
(* repeats nor misses a row that is committed while it copies, it is seen  *)
(* whole or not at all, and a row is written only with all its columns.    *)
Table == INSTANCE TaskTable WITH
  Writers <- Procs, columns <- db.columns["tasks"], rows <- db.rows

TableSpec == Table!Spec

(* A process that has brought the schema up to date finds every table and  *)
(* exactly the columns its queries name, of the tasks and of the rubrics,  *)
(* whatever the others, with stale reads of the columns, do to the file    *)
(* afterwards.                                                             *)
ReadyMeansMigrated ==
  \A p \in Procs : proc[p].state = "done" /\ proc[p].kind = "init" =>
    /\ \A t \in Tables \ {"tasks_new"} : db.columns[t] # {}
    /\ db.columns["tasks"] = {"id", "celery", "teacher"}
    /\ "fingerprint" \in db.columns["rubrics"]

(* What a dead process leaves behind stops nobody: only somebody who       *)
(* changes the schema at the same time can make the script, the saving of  *)
(* a rubric or a start of the API fail.  A file whose rubrics are older    *)
(* than their fingerprints is the exception: schema.sql indexes the column *)
(* before init_db comes to add it, so a start fails there until a rubric   *)
(* is read or saved.                                                       *)
LeftoversDoNotBlock ==
  [][\A p \in Procs :
       /\ proc[p].state = "running" /\ proc'[p].state = "failed"
       /\ proc[p].kind # "dao" /\ proc'[p].alone
       => proc[p].kind = "init" /\ db.columns["rubrics"] = {"id"}]_schemaVars
=============================================================================
