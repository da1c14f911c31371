------------------------------ MODULE QvdLoad ------------------------------
(***************************************************************************)
(* The load of a QVD package into a Databricks table                       *)
(* (qvd_to_databricks/databricks_executor.py, execute_qvd_migration) over  *)
(* the statement protocol it uses (execute_sql_statement): submit, poll    *)
(* until the statement has ended or the time is up, and never cancel.      *)
(*                                                                         *)
(* Loads of one package may overlap and be repeated.  They share the       *)
(* package directory (with its upload status file), the volume and the     *)
(* table.  Every Parquet file stands for one row of the source; a row of   *)
(* the table is a file and the number of the INSERT that put it there.     *)
(* The report a call writes and answers at its end is its record in        *)
(* `load'; logs and warnings are left out.                                 *)
(***************************************************************************)
EXTENDS Integers, FiniteSets, Measures

CONSTANTS
  Loads,      \* bound: calls of execute_qvd_migration
  Calls,      \* inputs: a mode, and whether to create a volume that is named
  Files       \* the Parquet part files of the package

ASSUME LoadAssumption ==
  /\ IsFiniteSet(Loads)
  /\ IsFiniteSet(Files) /\ Files # {}
  /\ Calls \subseteq {"generate_sql_only", "execute_ddl_only", "execute_ddl_load",
                     "full_migration"} \X BOOLEAN

VARIABLES
  package,        \* what the directory and the configuration hold
  uploadStatus,   \* volume_upload_status.json is there
  volume,         \* the files on the volume
  table,          \* the target table: its being there, the INSERTs done, its rows
  load,           \* the calls
  late            \* statements given up by their call and still open

qvdVars == <<package, uploadStatus, volume, table, load, late>>

Modes == {"generate_sql_only", "execute_ddl_only", "execute_ddl_load", "full_migration"}
Loading == {"execute_ddl_load", "full_migration"}
Stages == {"schema", "volume", "table", "insert_cast", "count"}

Unknown == -1   \* a count of None

RowsOf(t) == Cardinality(t.rows)
SourceRows == Cardinality(Files)

\* Inputs: the artifacts are there and validated, the report has the row_count
\* check, the connection fields are filled in, where Databricks reads from.
Packages == [ready : BOOLEAN, counted : BOOLEAN, config : BOOLEAN,
             path : {"none", "cloud", "volume"}]

\* wh: how the warehouse stands with the call's statement.  unread is history:
\* an answer without a state was taken for success.
NoLoad == [pc |-> "idle", mode |-> "generate_sql_only", volumeToo |-> FALSE,
           stage |-> "schema", wh |-> "none", count |-> Unknown,
           status |-> "none", failedAt |-> "none", unread |-> FALSE]

QvdTypeOK ==
  /\ package \in Packages
  /\ uploadStatus \in BOOLEAN
  /\ volume \subseteq Files
  /\ table \in [there : BOOLEAN, inserts : Nat, rows : SUBSET (Files \X Nat)]
  /\ load \in [Loads ->
       [pc : {"idle", "upload", "submit", "sent", "done", "raised"},
        mode : Modes, volumeToo : BOOLEAN, stage : Stages,
        wh : {"none", "open", "done", "failed"}, count : Nat \cup {Unknown},
        status : {"none", "failed", "success", "completed_with_warnings"},
        failedAt : Stages \cup {"none"}, unread : BOOLEAN]]
  /\ late \subseteq (Loads \X {"table", "insert_cast"})

QvdInit ==
  /\ package \in Packages
  /\ uploadStatus = FALSE
  /\ volume = {}
  /\ table = [there |-> FALSE, inserts |-> 0, rows |-> {}]
  /\ load = [r \in Loads |-> NoLoad]
  /\ late = {}

-----------------------------------------------------------------------------
(* Before the first statement.                                             *)

\* precheck_execution: errors make the call report at once.
PrecheckPasses(mode) ==
  /\ package.ready
  /\ mode # "generate_sql_only" => package.config
  /\ mode \in Loading => package.path # "none"

Fails(r, stage) ==
  load' = [load EXCEPT ![r].pc = "done", ![r].status = "failed",
                       ![r].failedAt = stage, ![r].wh = "none"]

\* test_databricks_connection; when only SQL is made it is not asked.
ConnectionPasses(mode, connects) == mode = "generate_sql_only" \/ connects

BeginLoad(r, call, connects) ==
  LET passes == PrecheckPasses(call[1]) /\ ConnectionPasses(call[1], connects)
  IN
  /\ load[r].pc = "idle"
  /\ load' = [load EXCEPT ![r] =
       [NoLoad EXCEPT !.mode = call[1], !.volumeToo = call[2],
         !.pc = IF passes THEN "upload" ELSE "done",
         !.status = IF passes THEN "success" ELSE "failed"]]
  /\ UNCHANGED <<package, uploadStatus, volume, table, late>>

\* Where the call goes when the files are taken to be in place.
Onward(mode) == IF mode = "generate_sql_only" THEN "done" ELSE "submit"

\* An upload status, of whatever outcome, is taken for an upload.
SkipUpload(r) ==
  /\ load[r].pc = "upload"
  /\ \/ uploadStatus
     \/ load[r].mode # "full_migration" \/ package.path # "volume"
  /\ load' = [load EXCEPT ![r].pc = Onward(load[r].mode)]
  /\ UNCHANGED <<package, uploadStatus, volume, table, late>>

MustUpload(r) ==
  /\ load[r].pc = "upload" /\ load[r].mode = "full_migration"
  /\ package.path = "volume" /\ ~uploadStatus

\* put_binary answers an error and does not raise, and nobody looks: every
\* file counts as uploaded, whichever of them arrive.
Upload(r, arrive) ==
  /\ MustUpload(r)
  /\ volume' = volume \cup arrive
  /\ uploadStatus' = TRUE
  /\ load' = [load EXCEPT ![r].pc = "submit"]
  /\ UNCHANGED <<package, table, late>>

\* The local directory is gone or empty: the status is written all the same.
UploadRefused(r) ==
  /\ MustUpload(r)
  /\ uploadStatus' = TRUE
  /\ Fails(r, "none")
  /\ UNCHANGED <<package, volume, table, late>>

\* A file cannot be read: the call ends without a report.
UploadRaises(r, arrive) ==
  /\ MustUpload(r)
  /\ volume' = volume \cup arrive
  /\ load' = [load EXCEPT ![r].pc = "raised"]
  /\ UNCHANGED <<package, uploadStatus, table, late>>

-----------------------------------------------------------------------------
(* One statement.  The warehouse is external.                              *)

\* The files the INSERT reads: a cloud path is not ours to fill.
Readable == IF package.path = "volume" THEN volume ELSE Files

CanExecute(stage) ==
  /\ stage = "insert_cast" => table.there /\ Readable # {}
  /\ stage = "count" => table.there

\* CREATE TABLE IF NOT EXISTS, and an INSERT of all that is read.
Created == [table EXCEPT !.there = TRUE]
Inserted == [table EXCEPT !.inserts = @ + 1,
                          !.rows = @ \cup (Readable \X {table.inserts + 1})]

Effect(stage) ==
  CASE stage = "table" -> Created [] stage = "insert_cast" -> Inserted [] OTHER -> table

\* The POST reaches the warehouse, or is lost on the way (it then never runs).
Submit(r) ==
  /\ load[r].pc = "submit"
  /\ \E wh \in {"open", "failed"} :
       load' = [load EXCEPT ![r].pc = "sent", ![r].wh = wh]
  /\ UNCHANGED <<package, uploadStatus, volume, table, late>>

WarehouseEnds(r) ==
  /\ load[r].pc = "sent" /\ load[r].wh = "open"
  /\ \/ /\ CanExecute(load[r].stage)
        /\ table' = Effect(load[r].stage)
        /\ load' = [load EXCEPT ![r].wh = "done", ![r].count =
             IF load[r].stage = "count" THEN RowsOf(table) ELSE Unknown]
     \/ /\ load' = [load EXCEPT ![r].wh = "failed"]
        /\ table' = table
  /\ UNCHANGED <<package, uploadStatus, volume, late>>

\* A statement its call has given up on ends.
LateEnd(r, stage) ==
  /\ <<r, stage>> \in late
  /\ late' = late \ {<<r, stage>>}
  /\ \/ CanExecute(stage) /\ table' = Effect(stage)
     \/ table' = table
  /\ UNCHANGED <<package, uploadStatus, volume, load>>

\* Of the statements, two change what is modelled, and matter when left open.
LeftOpen(r) ==
  IF load[r].wh = "open" /\ load[r].stage \in {"table", "insert_cast"}
  THEN {<<r, load[r].stage>>} ELSE {}

\* FAILED, CANCELED or CLOSED is read.
StatementFailed(r) ==
  /\ load[r].pc = "sent" /\ load[r].wh = "failed"
  /\ Fails(r, load[r].stage)
  /\ UNCHANGED <<package, uploadStatus, volume, table, late>>

\* Mutant: a statement that runs into the limit counts as done.
GivenUpPasses(r) ==
  /\ load[r].pc = "sent" /\ load[r].wh # "failed"
  /\ load' = [load EXCEPT ![r].pc = "done", ![r].wh = "none"]
  /\ late' = late \cup LeftOpen(r)
  /\ UNCHANGED <<package, uploadStatus, volume, table>>

\* Mutant: polling goes on as long as the statement is open.
GivenUpNever(r) ==
  /\ load[r].pc = "sent" /\ load[r].wh = "done"
  /\ Fails(r, load[r].stage)
  /\ UNCHANGED <<package, uploadStatus, volume, table, late>>

\* The POST or a poll is answered by an error, or the limit passes: the call
\* fails; the statement is not cancelled.
StatementGivenUp(r) ==
  /\ load[r].pc = "sent" /\ load[r].wh # "failed"
  /\ Fails(r, load[r].stage)
  /\ late' = late \cup LeftOpen(r)
  /\ UNCHANGED <<package, uploadStatus, volume, table>>

NextStage(l) ==
  CASE l.stage = "schema" -> IF l.volumeToo THEN "volume" ELSE "table"
    [] l.stage = "volume" -> "table"
    [] l.stage = "table" -> "insert_cast"
    [] OTHER -> "count"

IsLast(l) == l.stage = "count" \/ (l.stage = "table" /\ l.mode \notin Loading)

\* Mutant: only a table that holds too much is noticed.
VerdictTooMany(count) ==
  IF count # Unknown /\ package.counted /\ count > SourceRows
  THEN "completed_with_warnings" ELSE "success"

\* The comparison of counts, when both are known.
Verdict(count) ==
  IF count # Unknown /\ package.counted /\ count # SourceRows
  THEN "completed_with_warnings" ELSE "success"

\* Where a statement that counts as a success leaves the call.
Passed(l, count) ==
  [l EXCEPT !.wh = "none", !.count = count,
            !.pc = IF IsLast(l) THEN "done" ELSE "submit",
            !.stage = IF IsLast(l) THEN l.stage ELSE NextStage(l),
            !.status = IF l.stage = "count" THEN Verdict(count) ELSE l.status]

\* SUCCEEDED is read.
StatementPassed(r) ==
  /\ load[r].pc = "sent" /\ load[r].wh = "done"
  /\ load' = [load EXCEPT ![r] = Passed(@, @.count)]
  /\ UNCHANGED <<package, uploadStatus, volume, table, late>>

\* An answer without a state (an empty body, a page that is not JSON) counts
\* as a success too, and carries no count.
StatementUnread(r) ==
  /\ load[r].pc = "sent"
  /\ load' = [load EXCEPT ![r] = [Passed(@, Unknown) EXCEPT !.unread = TRUE]]
  /\ late' = late \cup LeftOpen(r)
  /\ UNCHANGED <<package, uploadStatus, volume, table>>

-----------------------------------------------------------------------------
Prepare(r) ==
  \/ SkipUpload(r) \/ UploadRefused(r)
  \/ \E arrive \in SUBSET Files : Upload(r, arrive) \/ UploadRaises(r, arrive)

Answer(r) == StatementFailed(r) \/ StatementGivenUp(r) \/ StatementPassed(r)

QvdNext ==
  \/ \E r \in Loads :
       \/ \E call \in Calls, connects \in BOOLEAN : BeginLoad(r, call, connects)
       \/ Prepare(r) \/ Submit(r) \/ WarehouseEnds(r)
       \/ Answer(r) \/ StatementUnread(r)
  \/ \E o \in late : LateEnd(o[1], o[2])

QvdSpec == QvdInit /\ [][QvdNext]_qvdVars

\* The call's thread keeps running, and every answer it waits for has a time
\* limit; an unreadable one is not promised.  That a statement ends is the
\* warehouse's affair.
QvdFairness ==
  \A r \in Loads : WF_qvdVars(Prepare(r) \/ Submit(r) \/ Answer(r))

-----------------------------------------------------------------------------
\* A load that reports success with a count, and was the only one to get as far
\* as its INSERT, has put every row of the package into the table exactly once:
\* neither a lost file nor a lost or late INSERT passes the comparison.
LoneLoadIsExact ==
  \A r \in Loads :
    /\ load[r].pc = "done" /\ load[r].status = "success"
    /\ load[r].stage = "count" /\ load[r].count # Unknown /\ package.counted
    /\ \A o \in Loads \ {r} : load[o].stage \notin {"insert_cast", "count"}
    => \A f \in Files : Cardinality({row \in table.rows : row[1] = f}) = 1

\* A statement that may still take effect after its call is over was reported:
\* the call failed, at the stage of that statement.  Only an answer without a
\* state hides one.
OpenIsReported ==
  \A r \in Loads, stage \in Stages :
    <<r, stage>> \in late /\ ~load[r].unread =>
      load[r].status = "failed" /\ load[r].failedAt = stage

\* Every call ends, also if the warehouse never finishes a statement.
LoadAnswers ==
  \A r \in Loads : load[r].pc # "idle" ~> load[r].pc \in {"done", "raised"}

\* Why it ends: whatever happens to a call, answers that are lost or unreadable
\* included, leaves it fewer phases, stages or answers to wait for.
LoadLeft(r) ==
  <<[idle |-> 3, upload |-> 2, submit |-> 1, sent |-> 1, done |-> 0, raised |-> 0][load[r].pc],
    [schema |-> 4, volume |-> 3, table |-> 2, insert_cast |-> 1, count |-> 0][load[r].stage],
    IF load[r].pc = "submit" THEN 2 ELSE IF load[r].wh = "open" THEN 1 ELSE 0>>
LoadProgress ==
  /\ [](\A r \in Loads : LoadLeft(r) \in [1..3 -> Nat])
  /\ [][\A r \in Loads : load'[r] # load[r] => Below(LoadLeft(r)', LoadLeft(r))]_qvdVars
=============================================================================
