----------------------------- MODULE ModelBuild -----------------------------
(***************************************************************************)
(* One POST /api/sfglue/build (sfglue_build of routes/deploy.py): compile  *)
(* the models into an order (ModelOrder), check that their sources have    *)
(* landed, then run them one by one on the warehouse, with the repair loop *)
(* of attempt_build_with_repair (dbt_build.py) around each.                *)
(*                                                                         *)
(* A statement is what it makes, the object of some model or something     *)
(* other than one CREATE, and a number that tells two texts apart. The     *)
(* warehouse may report a failure for a statement that it goes on to       *)
(* execute: execute_sql_statement gives up after 300 seconds or on a       *)
(* failed poll, without cancelling.                                        *)
(***************************************************************************)
EXTENDS ModelOrder

CONSTANTS
  MaxRepairs,    \* max_attempts
  NotACreate,    \* what a statement makes that assert_safe_ddl refuses
  AIKeepsTarget  \* the AI obeys "Keep the same CREATE OR REPLACE TARGET"

ASSUME BuildAssumption ==
  /\ MaxRepairs \in Nat
  /\ NotACreate \notin Models
  /\ AIKeepsTarget \in BOOLEAN

VARIABLES
  pc,       \* where the handler is
  pos,      \* position of the model at hand in order
  sql,      \* current_sql of the model at hand, a first statement between models
  attempt,  \* repair attempts begun for it, 0 between models
  status,   \* the results so far: per model, "none" if it has no entry yet
  answer,   \* the response
  before,   \* per model, what the catalog held when the request came
  object,   \* per model, what the catalog holds: "new" if this request made it
  late,     \* statements that were given up but may still take effect
  executed, \* history: what the statements sent to the warehouse make
  unread    \* history: models whose last answer was one without a state

buildVars ==
  <<pc, pos, sql, attempt, status, answer, before, object,
    late, executed, unread>>
vars == <<orderVars, buildVars>>

Statements == [makes : Models \cup {NotACreate}, draft : 0..MaxRepairs]
Built == {"created", "repaired"}
Current == order[pos]

TypeOK ==
  /\ OrderTypeOK
  /\ pc \in {"compile", "gate", "schemas", "next", "run", "dropView", "rerun",
             "ask", "retry", "answered"}
  /\ pos \in 1..(Len(Input) + 1)
  /\ sql \in Statements
  /\ attempt \in 0..MaxRepairs
  /\ status \in [Models -> Built \cup {"none", "failed", "skipped"}]
  /\ answer \in {"none", "success", "incomplete", "refused", "needsSource",
                "noSchema"}
  /\ before \in [Models -> {"absent", "table", "view"}]
  /\ object \in [Models -> {"absent", "table", "view", "new"}]
  /\ late \in SUBSET ({"create", "drop"} \X (Models \cup {NotACreate}))
  /\ executed \in SUBSET (Models \cup {NotACreate})
  /\ unread \in SUBSET Models

Compiled(m) == [makes |-> m, draft |-> 0]

Init ==
  /\ OrderInit
  /\ pc = "compile" /\ pos = 1
  /\ sql = Compiled(Input[1]) /\ attempt = 0
  /\ status = [m \in Models |-> "none"]
  /\ answer = "none"
  /\ before \in [Models -> {"absent", "table", "view"}]
  /\ object = before
  /\ late = {} /\ executed = {} /\ unread = {}

-----------------------------------------------------------------------------
(* Before the first model. *)

\* compile_models.
Compile ==
  /\ pc = "compile"
  /\ OrderNext
  /\ UNCHANGED buildVars

\* The guard on the compiled statements, each of which wraps a model that may
\* have been edited in one CREATE, ends the request if it refuses any.
StatementGate ==
  /\ pc = "compile"
  /\ loop = "sorted"
  /\ \/ pc' = "gate" /\ UNCHANGED answer
     \/ pc' = "answered" /\ answer' = "refused"
  /\ UNCHANGED <<orderVars, pos, sql, attempt, status, before,
                 object, late, executed, unread>>

\* _missing_source_tables: raw tables that are known to be missing end the request
\* with 409; that they are there, or a question that was not answered, does not.
SourceGate ==
  /\ pc = "gate"
  /\ \/ pc' = "schemas" /\ UNCHANGED answer
     \/ pc' = "answered" /\ answer' = "needsSource"
  /\ UNCHANGED <<orderVars, pos, sql, attempt, status, before,
                 object, late, executed, unread>>

CreateSchemas ==
  /\ pc = "schemas"
  /\ \/ pc' = "next" /\ UNCHANGED answer
     \/ pc' = "answered" /\ answer' = "noSchema"
  /\ UNCHANGED <<orderVars, pos, sql, attempt, status, before,
                 object, late, executed, unread>>

-----------------------------------------------------------------------------
(* The loop over the compiled models. *)

\* Mutant of Blocking: what was skipped does not hold up its dependents.
Blocking_FailedOnly(m) == {d \in Edges(m) : status[d] = "failed"}

\* depends_on[name] & failed_or_skipped.
Blocking(m) == {d \in Edges(m) : status[d] \in {"failed", "skipped"}}

SkipModel ==
  /\ pc = "next"
  /\ pos <= Len(order)
  /\ Blocking(Current) # {}
  /\ status' = [status EXCEPT ![Current] = "skipped"]
  /\ pos' = pos + 1
  /\ UNCHANGED <<orderVars, pc, sql, attempt, answer, before,
                 object, late, executed, unread>>

\* Mutant of BeginModel: a failed model does not hold up its dependents.
BeginModel_Unblocked ==
  /\ pc = "next"
  /\ pos <= Len(order)
  /\ pc' = "run"
  /\ sql' = Compiled(Current)
  /\ UNCHANGED <<orderVars, pos, attempt, status, answer, before,
                 object, late, executed, unread>>

BeginModel ==
  /\ pc = "next"
  /\ pos <= Len(order)
  /\ Blocking(Current) = {}
  /\ pc' = "run"
  /\ sql' = Compiled(Current)
  /\ UNCHANGED <<orderVars, pos, attempt, status, answer, before,
                 object, late, executed, unread>>

Respond ==
  /\ pc = "next"
  /\ pos > Len(order)
  /\ answer' = IF \A m \in Models : status[m] \in Built THEN "success"
               ELSE "incomplete"
  /\ pc' = "answered"
  /\ UNCHANGED <<orderVars, pos, sql, attempt, status, before,
                 object, late, executed, unread>>

-----------------------------------------------------------------------------
(* attempt_build_with_repair. *)

\* attempt_build_with_repair returns, with what it knew of the statement; the
\* entry of the model at hand is written and the loop goes on.
Enter(outcome) ==
  /\ status' = [status EXCEPT ![Current] = outcome]
  /\ pos' = pos + 1
  /\ pc' = "next"
  /\ sql' = Compiled(Input[1]) /\ attempt' = 0

\* The warehouse executes sql and says so.
Executes(outcome) ==
  /\ object' = [object EXCEPT ![sql.makes] = "new"]
  /\ executed' = executed \cup {sql.makes}
  /\ Enter(outcome)
  /\ UNCHANGED <<late, unread>>

\* An answer without a state (an empty body, a page that is not JSON) counts as
\* success, although the statement is still executing or never arrived.
Misread(outcome) ==
  /\ executed' = executed \cup {sql.makes}
  /\ late' \in {late, late \cup {<<"create", sql.makes>>}}
  /\ unread' = unread \cup {Current}
  /\ Enter(outcome)
  /\ UNCHANGED object

\* What execute_sql_statement calls a success.
Succeeds(outcome) == Executes(outcome) \/ Misread(outcome)

\* The warehouse reports an error; after a timeout or a lost poll the statement
\* may still be executing.
Refuses(next) ==
  /\ executed' = executed \cup {sql.makes}
  /\ late' \in {late, late \cup {<<"create", sql.makes>>}}
  /\ pc' = next
  /\ UNCHANGED <<sql, attempt, pos, status, object, unread>>

\* With no attempt left, the model has failed.
Exhausted == attempt = MaxRepairs

\* Mutant of FirstRun: a statement that was given up counts as created.
FirstRun_TimeoutCreates ==
  /\ pc = "run"
  /\ \/ Executes("created")
     \/ /\ late' = late \cup {<<"create", sql.makes>>}
        /\ Enter("created")
        /\ UNCHANGED <<object, executed, unread>>
  /\ UNCHANGED <<orderVars, answer, before>>

FirstRun ==
  /\ pc = "run"
  /\ \/ Succeeds("created")
     \/ object[Current] \in {"view", "new"} /\ Refuses("dropView")
     \/ Refuses("ask")
  /\ UNCHANGED <<orderVars, answer, before>>

\* Mutant of DropView: whatever has the name is dropped, and not rebuilt.
DropView_NoRerun ==
  /\ pc = "dropView"
  /\ object' = [object EXCEPT ![Current] = "absent"]
  /\ Enter("repaired")
  /\ UNCHANGED <<orderVars, answer, before, late, executed, unread>>

\* CANNOT_WRITE_INTO_VIEW: DROP VIEW IF EXISTS. Its outcome is not looked at.
DropView ==
  /\ pc = "dropView"
  /\ \/ object' = [object EXCEPT ![Current] = "absent"] /\ UNCHANGED late
     \/ UNCHANGED object /\ late' \in {late, late \cup {<<"drop", Current>>}}
  /\ pc' = "rerun"
  /\ UNCHANGED <<orderVars, pos, sql, attempt, status, answer,
                 before, executed, unread>>

Rerun ==
  /\ pc = "rerun"
  /\ Succeeds("repaired") \/ Refuses("ask")
  /\ UNCHANGED <<orderVars, answer, before>>

GiveUp ==
  /\ pc = "ask"
  /\ Exhausted
  /\ Enter("failed")
  /\ UNCHANGED <<orderVars, answer, before, object, late, executed,
                 unread>>

\* No AI is configured, its call raises, or its answer is empty or the statement
\* it was given.
NoRepair ==
  /\ pc = "ask"
  /\ ~Exhausted
  /\ Enter("failed")
  /\ UNCHANGED <<orderVars, answer, before, object, late, executed,
                 unread>>

\* What the AI may answer (external).
Answers ==
  {s \in Statements :
     /\ s.draft = attempt + 1
     /\ AIKeepsTarget => s.makes \in {Current, NotACreate}}

\* Mutant of Repair: the answer is run as it is.
Repair_Unguarded ==
  /\ pc = "ask"
  /\ ~Exhausted
  /\ sql' \in Answers
  /\ attempt' = attempt + 1
  /\ pc' = "retry"
  /\ UNCHANGED <<orderVars, pos, status, answer, before,
                 object, late, executed, unread>>

\* Mutant of Repair: the attempts are not counted.
Repair_Uncounted ==
  /\ pc = "ask"
  /\ ~Exhausted
  /\ sql' \in Answers
  /\ pc' = (IF sql'.makes = NotACreate THEN "ask" ELSE "retry")
  /\ UNCHANGED <<orderVars, pos, attempt, status, answer,
                 before, object, late, executed, unread>>

\* The AI rewrites the statement. An answer that is not one CREATE is refused
\* by the guard, and is what the next attempt starts from.
Repair ==
  /\ pc = "ask"
  /\ ~Exhausted
  /\ sql' \in Answers
  /\ attempt' = attempt + 1
  /\ pc' = (IF sql'.makes = NotACreate THEN "ask" ELSE "retry")
  /\ UNCHANGED <<orderVars, pos, status, answer, before,
                 object, late, executed, unread>>

Retry ==
  /\ pc = "retry"
  /\ Succeeds("repaired") \/ Refuses("ask")
  /\ UNCHANGED <<orderVars, answer, before>>

-----------------------------------------------------------------------------

\* A statement that was given up takes effect after all. DROP VIEW leaves
\* alone what is no view.
LateEffect ==
  \E d \in late :
    /\ late' = late \ {d}
    /\ object' =
         IF d[1] = "create" THEN [object EXCEPT ![d[2]] = "new"]
         ELSE [object EXCEPT ![d[2]] = IF @ = "view" THEN "absent" ELSE @]
    /\ UNCHANGED <<orderVars, pc, pos, sql, attempt, status,
                   answer, before, executed, unread>>

Handler ==
  \/ Compile \/ StatementGate \/ SourceGate \/ CreateSchemas
  \/ SkipModel \/ BeginModel \/ Respond
  \/ FirstRun \/ DropView \/ Rerun
  \/ GiveUp \/ NoRepair \/ Repair \/ Retry

Next == Handler \/ LateEffect

Spec == Init /\ [][Next]_vars

\* The request thread keeps running: every call it makes has a time limit. Late
\* effects need not come.
FairSpec == Spec /\ WF_vars(Handler)

-----------------------------------------------------------------------------
(* Properties. *)

\* No model counts as built on an upstream that was not built by the same
\* request: a failure or a skip reaches everything downstream, by way of the
\* order and of failed_or_skipped. (With a cycle there is no such order.)
BuiltOnBuilt ==
  ~hasCycle =>
    \A m \in Models : status[m] \in Built => \A d \in Edges(m) : status[d] \in Built

\* A request that is answered with success has made every table anew, but for
\* those whose answer could not be read; one that is not names a model that failed.
SuccessIsPopulated ==
  /\ answer = "success" => \A m \in Models : object[m] = "new" \/ m \in unread
  /\ answer = "incomplete" => \E m \in Models : status[m] = "failed"

\* Besides the DROP VIEW of a name read off the guarded statement, which the server
\* writes itself (dbt_build.py:359), only single CREATE statements reach the
\* warehouse, whatever the AI answers.
OnlyGuardedRuns == NotACreate \notin executed

\* What the catalog held under a model's name is never lost without the model
\* being reported as failed, although the view in its place may be dropped. Only
\* an answer without a state hides a loss.
LossIsReported ==
  answer # "none" =>
    \A m \in Models :
      before[m] # "absent" /\ object[m] = "absent" => status[m] = "failed" \/ m \in unread

\* What a caller sees of all this, whatever the graph, the warehouse and the AI:
\* refused before the first model, or one final entry per model, in an order that
\* follows the graph, skipped exactly below what was not built, and an answer
\* that sums these up.
Request == INSTANCE BuildRequest WITH
  upstream <- [m \in Models |-> Edges(m)],
  entry    <- status
ImplementsRequest == Request!Spec

\* Every request is answered: the repair loop ends.
BuildAnswers == <>(pc = "answered")

\* Why it ends: every step of the handler lowers what is left of the request, the
\* gates, the sort, the models, the repair attempts of the model at hand and the
\* statements of an attempt, whatever the warehouse and the AI answer; and what
\* takes effect late gives it nothing more to do.
Phase == [compile |-> 4, gate |-> 3, schemas |-> 2, next |-> 1, run |-> 1, dropView |-> 1,
          rerun |-> 1, ask |-> 1, retry |-> 1, answered |-> 0]
Point == [compile |-> 0, gate |-> 0, schemas |-> 0, next |-> 5, run |-> 4, dropView |-> 3,
          rerun |-> 2, ask |-> 1, retry |-> 2, answered |-> 0]
BuildLeft ==
  <<Phase[pc], SortLeft[1], SortLeft[2], SortLeft[3],
    Len(Input) + 1 - pos, MaxRepairs - attempt, Point[pc]>>
BuildProgress ==
  /\ [](BuildLeft \in [1..7 -> Nat])
  /\ [][/\ Handler => Below(BuildLeft', BuildLeft)
        /\ LateEffect => BuildLeft' = BuildLeft]_vars

\* "compiled is in dependency order, so a failed upstream has already been
\* processed" (deploy.py:292-293): a model has an entry only when the models it
\* reads have theirs. Not so for a graph with a cycle anywhere: all its models
\* run in input order then, also those that are neither on the cycle nor below
\* it, before upstreams that are not either. (A model on a cycle, or below one,
\* has no place after all its upstreams and is not asked for.)
OnOrBelowCycle == UNION {S \in SUBSET Models : Entangled(S)}
UpstreamProcessed ==
  \A m \in Models \ OnOrBelowCycle :
    status[m] # "none" => \A d \in Edges(m) : status[d] # "none"
=============================================================================
