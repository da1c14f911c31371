---------------------------- MODULE WorkflowPlan ----------------------------
(***************************************************************************)
(* From the workflow of the source to a Databricks job: a Glue workflow    *)
(* (parse_workflow_dag), the text of an Airflow DAG (parse_dag_source,     *)
(* parse_dag_factory_yaml) or what its API lists (fetch_airflow_dags)      *)
(* becomes one normal form, of which build_databricks_job makes a job,     *)
(* without the tasks nothing runs for.  The other way round,               *)
(* emit_target_airflow_yaml chains the converted artifacts into a DAG.     *)
(*                                                                         *)
(* A link is a chain of groups of tasks with >> or << between neighbours:  *)
(* a statement of a DAG, or two groups with >>, as a trigger between jobs, *)
(* set_downstream, the downstream ids of a task.  Tasks are known by a key *)
(* made of their name, which others may share.  What the plan is for, a    *)
(* run of the job in the order of its dependencies, is modelled to say     *)
(* what order that is.                                                     *)
(***************************************************************************)
EXTENDS Integers, FiniteSets, SequencesExt

CONSTANTS
  Flows,    \* the workflows to plan
  KeyOf     \* the key each task name is turned into

\* A key made of a key, as the API reader makes them, is that key.
ASSUME KeyAssumption ==
  \A f \in Flows : f.from = "api" =>
    \A t \in f.tasks : KeyOf[t] \in f.tasks => KeyOf[KeyOf[t]] = KeyOf[t]

\* The notebooks of a folder that the emitted DAG is made of.
ASSUME NotebooksAssumption == \A f \in Flows : IsFiniteSet(f.notebooks)

ASSUME LinksAssumption ==
  \A f \in Flows : \A l \in f.links :
    /\ l.groups \in Seq(SUBSET DOMAIN KeyOf) /\ l.ops \in Seq({">>", "<<"})
    /\ Len(l.groups) = Len(l.ops) + 1

VARIABLES
  flow,     \* the workflow
  links,    \* its links not yet read
  chain,    \* the groups of the link being read, as _chain has them so far
  deps,     \* the normal form: task -> the names it depends on
  job,      \* the job: task -> the keys it waits for
  done,     \* the tasks of the job that have run
  planned   \* where planning is

planVars == <<flow, links, chain, deps, job, done, planned>>

NotPlanned ==
  /\ links = {} /\ chain = <<>> /\ deps = <<>> /\ job = <<>> /\ done = {}
  /\ planned = "read"
PlanInit == flow \in Flows /\ NotPlanned

ReadFlow ==
  /\ planned = "read" /\ flow.from # "emit"
  /\ links' = flow.links /\ deps' = [t \in flow.tasks |-> {}] /\ planned' = "link"
  /\ UNCHANGED <<flow, chain, job, done>>

\* _chain, from its innermost operator outwards: each operand is put behind what
\* the left side came to, and << turns all of it round.
Operand(l) ==
  LET n == Len(chain)
      longer == Append(chain, l.groups[n + 1])
  IN  /\ planned = "link" /\ l \in links /\ n < Len(l.groups)
      /\ chain' = IF n > 0 /\ l.ops[n] = "<<" THEN Reverse(longer) ELSE longer
      /\ UNCHANGED <<flow, links, deps, job, done, planned>>

\* Every task of a group comes before every task of the next one; a name that is
\* not a task of the workflow is passed over, except as a dependency in YAML.
Pairs(groups) == {<<groups[i], groups[i + 1]>> : i \in 1..(Len(groups) - 1)}
Before(names) == IF flow.from = "yaml" THEN names ELSE names \cap flow.tasks

Link(l) ==
  /\ planned = "link" /\ l \in links /\ Len(chain) = Len(l.groups)
  /\ deps' = [t \in flow.tasks |->
                deps[t] \cup UNION {Before(p[1]) : p \in {q \in Pairs(chain) : t \in q[2]}}]
  /\ links' = links \ {l} /\ chain' = <<>>
  /\ UNCHANGED <<flow, job, done, planned>>

\* The links are read one after the other.
ReadLink ==
  /\ links # {}
  /\ LET l == CHOOSE x \in links : TRUE IN Operand(l) \/ Link(l)

\* The API lists downstream ids and their keys are left as they are; the other
\* readers make keys of them.
DepKey(name) == IF flow.from = "api" THEN name ELSE KeyOf[name]
DependsOn(t) == {DepKey(name) : name \in deps[t]}

\* Sensors and triggers of other DAGs are no tasks of a job, nor are glue-around
\* operators that were not converted.  Other tasks get a placeholder.  What is
\* dropped is a key, with every task that has it.
IsDropped(t) ==
  \/ flow.kind[t] \in {"sensor", "trigger_dag"}
  \/ t \notin flow.mapped /\ flow.kind[t] \in {"python", "bash", "empty"}
Dropped == {KeyOf[t] : t \in {u \in flow.tasks : IsDropped(u)}}
Kept == {t \in flow.tasks : KeyOf[t] \notin Dropped}

\* upstream_of: of the tasks that share a key, the last in the normal form, which
\* is sorted by the number of dependencies (and then by key: among equals the
\* source decides).
LastOfKey ==
  {last \in [Dropped -> flow.tasks] : \A k \in Dropped :
     /\ KeyOf[last[k]] = k
     /\ \A t \in flow.tasks : KeyOf[t] = k => Cardinality(deps[t]) <= Cardinality(deps[last[k]])}
UpstreamOf(keys, last) == UNION {DependsOn(last[k]) : k \in keys \cap Dropped}

\* Dropped tasks are passed over to what they depend on, until there is none:
\* the recursion finds the smallest set of keys that is closed under it.
AllKeys == {KeyOf[t] : t \in flow.tasks} \cup UNION {DependsOn(t) : t \in flow.tasks}
Reached(keys, last) ==
  {k \in AllKeys : \A C \in SUBSET AllKeys :
     keys \subseteq C /\ UpstreamOf(C, last) \subseteq C => k \in C}
\* Mutant: a dependency on a dropped task is dropped with it.
WaitsForKeptOnly(keys, last) == keys \ Dropped
WaitsFor(keys, last) == Reached(keys, last) \ Dropped

\* Dropped tasks that depend on one another are passed over without an end.
Endless(last) ==
  \E k \in Dropped : /\ k \in Reached(UpstreamOf({k}, last), last)
                      /\ \E t \in Kept : k \in Reached(DependsOn(t), last)

\* Each kept task is emitted, under its key: two of one key are two tasks of it.
BuildJob ==
  /\ planned = "link" /\ links = {}
  /\ \E last \in LastOfKey :
       IF Endless(last) THEN planned' = "failed" /\ UNCHANGED job
       ELSE /\ job' = [t \in Kept |-> WaitsFor(DependsOn(t), last)]
            /\ planned' = "planned"
  /\ UNCHANGED <<flow, links, chain, deps, done>>

\* The emitted DAG: one chain from the file sensor to the notification.  If any
\* notebook looks like an ingestion by its name, those that do not are left out.
OfKind(k) == SetToSeq({n \in flow.notebooks : flow.kind[n] = k})
FirstOf(k) == SubSeq(OfKind(k), 1, IF OfKind(k) = <<>> THEN 0 ELSE 1)
Ingested ==
  LET framework == ToSet(FirstOf("open") \o FirstOf("close"))
  IN  IF OfKind("ingest") # <<>> THEN OfKind("ingest") ELSE SetToSeq(flow.notebooks \ framework)
LayerTask(l) == IF l \in flow.layers THEN <<l>> ELSE <<>>
Built ==
  IF flow.cloud THEN <<"dbt_cloud">>
  ELSE LayerTask("staging") \o LayerTask("intermediate") \o LayerTask("marts")
Arrival == IF flow.arrival THEN <<"wait">> ELSE <<>>
\* Mutant: the batch is closed before the layers are built.
ChainCloseFirst ==
  Arrival \o FirstOf("open") \o Ingested \o FirstOf("close") \o Built \o <<"notify">>
Chain == Arrival \o FirstOf("open") \o Ingested \o Built \o FirstOf("close") \o <<"notify">>

EmitDag ==
  /\ planned = "read" /\ flow.from = "emit"
  /\ job' = [t \in ToSet(Chain) |->
               {Chain[i] : i \in {k \in DOMAIN Chain : k + 1 \in DOMAIN Chain /\ Chain[k + 1] = t}}]
  /\ planned' = "planned"
  /\ UNCHANGED <<flow, links, chain, deps, done>>

\* A run of the job: external, it only keeps to the dependencies.
TaskKey(t) == IF flow.from = "emit" THEN t ELSE KeyOf[t]
RunTask(t) ==
  /\ planned = "planned" /\ t \in DOMAIN job \ done
  /\ \A k \in job[t] : \E u \in done : TaskKey(u) = k
  /\ done' = done \cup {t}
  /\ UNCHANGED <<flow, links, chain, deps, job, planned>>

PlanNext ==
  \/ ReadFlow \/ ReadLink \/ BuildJob \/ EmitDag
  \/ \E t \in DOMAIN job : RunTask(t)

PlanSpec == PlanInit /\ [][PlanNext]_planVars
-----------------------------------------------------------------------------
\* What the source means by a link, in Airflow as in a trigger (external): in a
\* chain each operator orders its neighbours, x >> y as x before y, x << y as y
\* before x.
Meant(l) ==
  {IF l.ops[i] = ">>" THEN <<l.groups[i], l.groups[i + 1]>> ELSE <<l.groups[i + 1], l.groups[i]>>
     : i \in DOMAIN l.ops}

\* a comes before b in the workflow: every set that holds what follows a, and
\* with a task what follows it, holds b.
Follows(S) ==
  UNION {p[2] \cap flow.tasks : p \in {q \in UNION {Meant(l) : l \in flow.links} : q[1] \cap S # {}}}
Precedes(a, b) == \A C \in SUBSET flow.tasks : Follows(C \cup {a}) \subseteq C => b \in C

\* A task of the job runs only after every kept task that came before it in the
\* source.
OrderIsKept ==
  \A a, b \in flow.tasks : Precedes(a, b) /\ b \in done /\ a \in DOMAIN job => a \in done

\* What the order of a job hangs on: no two tasks have one key, and every chain
\* has only >>, or is a single << .
DistinctKeys == \A t, u \in flow.tasks : KeyOf[t] = KeyOf[u] => t = u
IsStraight(l) == (\A i \in DOMAIN l.ops : l.ops[i] = ">>") \/ Len(l.ops) = 1

\* With keys of their own and straight chains, tasks keep the order of the source,
\* however many dropped tasks lie between them (build_databricks_job rewires what
\* depends on a dropped task).
RunsInOrder ==
  flow.from # "emit" /\ DistinctKeys /\ (\A l \in flow.links : IsStraight(l)) => OrderIsKept

\* Stated of parse_dag_source, which "handles ... >>/<< chains", and not so: in
\* c << b << a the groups are turned round at each operator.
ChainsRunInOrder == flow.from = "python" /\ DistinctKeys => OrderIsKept

\* In the emitted DAG no layer is built before what is ingested has landed, and
\* the batch is open before anything lands and closed when all is built.
EmittedInOrder ==
  flow.from = "emit" =>
    LET within(names) == ToSet(names) \cap DOMAIN job
        ran(names) == within(names) \cap done # {}
    IN  /\ ran(Ingested) => within(FirstOf("open")) \subseteq done
        /\ ran(Built) => within(Ingested) \subseteq done
        /\ ran(FirstOf("close")) => within(Built) \subseteq done
=============================================================================
