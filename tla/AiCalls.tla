------------------------------ MODULE AiCalls ------------------------------
(***************************************************************************)
(* The AI calls of one conversion (snowflake_glue_migration.py).  A pool   *)
(* takes the transformation jobs, each job's thread opens a pool of its    *)
(* own for the tables the job writes, and every model call takes a permit  *)
(* of the process-wide _AI_GATE: _map_concurrent, _ai_text and its retries,*)
(* _ai_model_with_retry and its second round, and the enumeration of a     *)
(* job's tables, which asks the model without the gate.                    *)
(*                                                                         *)
(* What the model writes is its verdict: nothing, flagged or clean.  The   *)
(* memo of answers (_AI_CACHE) holds whatever earlier conversions left.    *)
(***************************************************************************)
EXTENDS Naturals, FiniteSets, Measures

CONSTANTS
  Transforms,     \* transformation jobs that are not procedural
  Tables,         \* tables they write
  JobOf,          \* the job that writes each
  Workers,        \* _AI_WORKERS
  MaxAttempts,    \* _AI_MAX_ATTEMPTS
  Known           \* jobs whose tables the catalog knows

ASSUME AiAssumption ==
  /\ IsFiniteSet(Tables) /\ IsFiniteSet(Transforms)
  /\ JobOf \in [Tables -> Transforms] /\ \A j \in Transforms : \E t \in Tables : JobOf[t] = j
  /\ Workers \in Nat \ {0} /\ MaxAttempts \in Nat \ {0}
  /\ Known \subseteq Transforms

VARIABLES
  transform, \* where each job's thread is
  outputs,   \* the tables a job is converted to; a single one is the job's own model
  model      \* the conversion of each table

aiVars == <<transform, outputs, model>>

Rounds == 2     \* 1 + _SFGLUE_RETRY_ROUNDS

\* best is what an earlier round left.
NotBegun == [pc |-> "queued", round |-> 1, attempt |-> 1, best |-> "none", out |-> "none"]

AiTypeOK ==
  /\ transform \in [Transforms -> {"queued", "enumerate", "tables", "done"}]
  /\ outputs \subseteq Tables
  /\ model \in [Tables -> [pc : {"queued", "gate", "call", "backoff", "done"},
                           round : 1..Rounds, attempt : 1..MaxAttempts,
                           best : {"none", "flagged"},
                           out : {"none", "clean", "flagged", "scaffold"}]]

AiInit ==
  /\ transform = [j \in Transforms |-> "queued"]
  /\ outputs = {}
  /\ model = [t \in Tables |-> NotBegun]

-----------------------------------------------------------------------------
(* The pools.                                                              *)

Written(j) == {t \in Tables : JobOf[t] = j}
RunningTransforms == {j \in Transforms : transform[j] \in {"enumerate", "tables"}}
RunningTables(j) == {t \in Written(j) : model[t].pc \in {"gate", "call", "backoff"}}

\* Mutant: one executor for all pools.
ThreadFreeShared(j) ==
  Cardinality(RunningTransforms) + Cardinality(UNION {RunningTables(i) : i \in Transforms}) < Workers

\* A pool has Workers threads of its own (or as many as it has items).
ThreadFree(j) == Cardinality(RunningTables(j)) < Workers

BeginTransform(j) ==
  /\ transform[j] = "queued" /\ Cardinality(RunningTransforms) < Workers
  /\ IF j \in Known /\ Cardinality(Written(j)) > 1
     THEN /\ transform' = [transform EXCEPT ![j] = "tables"]
          /\ outputs' = outputs \cup Written(j)
     ELSE /\ transform' = [transform EXCEPT ![j] = "enumerate"]
          /\ outputs' = outputs
  /\ UNCHANGED model

\* The model lists the job's tables, completely or not; a list of none, of one
\* and a call that fails make the job one model.
Enumerated(j) ==
  /\ transform[j] = "enumerate"
  /\ \E found \in SUBSET Written(j) :
       /\ found # {}
       /\ outputs' = outputs \cup found
  /\ transform' = [transform EXCEPT ![j] = "tables"]
  /\ UNCHANGED model

BeginTable(t) ==
  /\ t \in outputs /\ model[t].pc = "queued"
  /\ ThreadFree(JobOf[t])
  /\ model' = [model EXCEPT ![t].pc = "gate"]
  /\ UNCHANGED <<transform, outputs>>

JoinTables(j) ==
  /\ transform[j] = "tables"
  /\ \A t \in Written(j) \cap outputs : model[t].pc = "done"
  /\ transform' = [transform EXCEPT ![j] = "done"]
  /\ UNCHANGED <<outputs, model>>

-----------------------------------------------------------------------------
(* One table.                                                              *)

InGate == {t \in Tables : model[t].pc = "call"}

Acquire(t) ==
  /\ model[t].pc = "gate" /\ Cardinality(InGate) < Workers
  /\ model' = [model EXCEPT ![t].pc = "call"]
  /\ UNCHANGED <<transform, outputs>>

\* What the rounds so far have come to: a scaffold only if no round gave text.
Settled(m, best) ==
  [m EXCEPT !.pc = "done", !.out = IF best = "none" THEN "scaffold" ELSE best]

\* An answer ends the round: nothing ends the conversion, a flagged model is
\* asked for once more, with its flags in the prompt.
Judged(m, text) ==
  CASE text = "clean" -> [m EXCEPT !.pc = "done", !.out = "clean"]
    [] text = "flagged" /\ m.round < Rounds ->
         [m EXCEPT !.pc = "gate", !.round = @ + 1, !.attempt = 1, !.best = "flagged"]
    [] text = "flagged" /\ m.round >= Rounds -> Settled(m, "flagged")
    [] OTHER -> Settled(m, m.best)

\* The memo has the answer to this prompt.
Remembered(t) ==
  /\ model[t].pc = "gate" /\ model[t].attempt = 1
  /\ \E text \in {"clean", "flagged"} : model' = [model EXCEPT ![t] = Judged(@, text)]
  /\ UNCHANGED <<transform, outputs>>

Answered(t) ==
  /\ model[t].pc = "call"
  /\ \E text \in {"clean", "flagged", "nothing"} :
       model' = [model EXCEPT ![t] = Judged(@, text)]
  /\ UNCHANGED <<transform, outputs>>

\* A transient error: the permit is given back before the wait.
Postponed(m) == [m EXCEPT !.pc = "backoff", !.attempt = @ + 1]
Throttled(t) ==
  /\ model[t].pc = "call"
  /\ model' = [model EXCEPT ![t] =
       IF @.attempt < MaxAttempts THEN Postponed(@) ELSE Settled(@, @.best)]
  /\ UNCHANGED <<transform, outputs>>

\* Any other error.
Refused(t) ==
  /\ model[t].pc = "call"
  /\ model' = [model EXCEPT ![t] = Settled(@, @.best)]
  /\ UNCHANGED <<transform, outputs>>

WaitOver(t) ==
  /\ model[t].pc = "backoff"
  /\ model' = [model EXCEPT ![t].pc = "gate"]
  /\ UNCHANGED <<transform, outputs>>

-----------------------------------------------------------------------------
TransformThread(j) == Enumerated(j) \/ JoinTables(j)
TableThread(t) ==
  \/ BeginTable(t) \/ Acquire(t) \/ Remembered(t)
  \/ Answered(t) \/ Throttled(t) \/ Refused(t) \/ WaitOver(t)

AiNext ==
  \/ \E j \in Transforms : BeginTransform(j) \/ TransformThread(j)
  \/ \E t \in Tables : TableThread(t)

AiSpec == AiInit /\ [][AiNext]_aiVars

\* Threads run, and every provider call has a time limit.  That a conversion asks
\* for a job is not assumed.
AiFairness ==
  /\ \A j \in Transforms : WF_aiVars(TransformThread(j))
  /\ \A t \in Tables : WF_aiVars(TableThread(t))

-----------------------------------------------------------------------------
\* A job's thread that waits for its tables waits for something that can happen:
\* its tables are done, or one of them finds a thread, or somebody who holds a
\* permit or waits for one goes on.  That is what "they can't deadlock" of
\* _AI_GATE says of pools in pools.
CanGoOn(t) ==
  model[t].pc \in {"call", "backoff"} \/ (model[t].pc = "gate" /\ Cardinality(InGate) < Workers)
SomeoneGoesOn ==
  \A j \in Transforms :
    transform[j] = "tables" =>
      \/ \A t \in Written(j) \cap outputs : model[t].pc = "done"
      \/ \E t \in Written(j) \cap outputs : model[t].pc = "queued" /\ ThreadFree(j)
      \/ \E t \in Tables : CanGoOn(t)

\* A job that is done has at least one model, each of its models has come to
\* something, and a scaffold is one that no round gave any text for.  Nothing
\* of a job is converted before its tables are known.
DoneIsConverted ==
  \A j \in Transforms :
    LET its == Written(j) \cap outputs
    IN  /\ transform[j] = "done" =>
             its # {} /\ \A t \in its : model[t].out # "none"
        /\ \A t \in Written(j) :
             /\ model[t].pc # "queued" => t \in its /\ transform[j] \in {"tables", "done"}
             /\ model[t].out = "scaffold" => model[t].best = "none"

-----------------------------------------------------------------------------
\* Every job that is taken up is converted, though its thread waits for a pool
\* whose threads wait for permits: "they can't deadlock".
ConversionAnswers == \A j \in Transforms : transform[j] # "queued" ~> transform[j] = "done"

\* Why it ends: no answer, error or wait gives a table more rounds, attempts or
\* waits than it had, nor a job more phases. That something can always happen is
\* SomeoneGoesOn.
TableLeft(t) ==
  <<[queued |-> 2, gate |-> 1, call |-> 1, backoff |-> 1, done |-> 0][model[t].pc],
    Rounds - model[t].round, MaxAttempts - model[t].attempt,
    [queued |-> 0, backoff |-> 3, gate |-> 2, call |-> 1, done |-> 0][model[t].pc]>>
JobLeft(j) == [queued |-> 3, enumerate |-> 2, tables |-> 1, done |-> 0][transform[j]]
AiProgress ==
  /\ [](\A t \in Tables : TableLeft(t) \in [1..4 -> Nat])
  /\ [][/\ \A t \in Tables : model'[t] # model[t] => Below(TableLeft(t)', TableLeft(t))
        /\ \A j \in Transforms : transform'[j] # transform[j] => JobLeft(j)' < JobLeft(j)]_aiVars
=============================================================================
