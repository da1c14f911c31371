# Verification of the Snowflake + Glue → Databricks/dbt migration tool

TLA+ models of this repository's stateful parts, the TLC runs that check them on
small instances, and TLAPS proofs of nearly all the safety properties for every instance. Every
definition is translated from the source, and `PROJECT.json` ("map") names the
lines it stands for. Paths below are relative to the repository; `integrations/`
is `src/backend/integrations/`, `pages/` is `src/frontend/src/pages/`.

To check: `tlc -config X.cfg M.tla` for the runs of `PROJECT.json`, and
`tlapm M_proofs.tla` for the proofs.

## 1. The system

A browser application drives a Flask server. The pages keep everything they know
in one store (`src/frontend/src/store.js`); each step page, and the automated page
that runs all steps, calls HTTP endpoints and puts the answers in the store. The
server is stateless but for a few module-level tables; it talks to Snowflake, Glue,
Postgres, an AI provider and a Databricks workspace, and can start dbt locally.
Flask serves every request in a thread of its own.

| Component | State | Operations | Hard behaviour | What makes it correct |
|---|---|---|---|---|
| Local dbt runner (`integrations/dbt_local.py`) | `_JOBS`; per job status, log, process handle, temporary directory | start, status, cancel, prune; worker thread through debug/deps/build | cancel against every step of the worker; a child that outlives its handle; log cut while paged; restart | one final verdict; a cancel in flight decides it; nothing left behind; a running job is never evicted |
| DBT Agent page, run panel (`pages/snowflake-glue-dbt-agent.js`) | `_sfgRun`, `_sfgPollTimer` | run, poll, cancel, leave, return | interval polls, unlocked status reads, one error ends polling | the log in order and complete; finished only if it is; a running run is polled |
| Model compiler and build (`integrations/dbt_build.py`, `routes/deploy.py`) | the catalog; results of the request | sort, gate, create schemas, run, drop view, repair, retry | cycles, failing models, statements that execute after their timeout, untrusted AI answers | dependencies first; nothing built on a failed upstream; only single CREATEs run; losses are reported |
| Automated page (`pages/snowflake-glue-run.js`) over the store | `stage`, `abortCtl`, the visible container; conversion, build, reconciliation | start, stop, checkpoint, continue, run again | two async functions, cut at ten awaits, survive re-renders; other pages write the same keys | Stop reaches its run up to the checkpoint; never stuck; what is approved is built and verified |
| Manual pages (review, Databricks agent, DBT agent) | busy flags, edits, the same store keys | convert, build, verify all | answers that arrive after the material changed | results are about the conversion shown |
| SQL statement execution, QVD load (`src/qvd_to_databricks/databricks_executor.py`) | package directory, volume, table; the statement at the warehouse | upload, submit, poll, give up, compare counts, report | time limit without cancellation, lost polls, INSERT repeated, loads that overlap | a load that reports success is there once; what may still happen is reported |
| AWS SSO sessions (`integrations/aws_sso_auth.py`) | `_SESSIONS` (20) | start, poll, accounts, credentials | concurrent polls, pruning of live sessions | who has signed in stays signed in while the token is good |
| AI calls of the conversion engine (`integrations/snowflake_glue_migration.py`) | AI cache, semaphore | convert, with nested thread pools | pools in pools around one semaphore, retries inside | every job that is taken up is converted |
| Lineage (`integrations/snowflake_glue_lineage.py`) | none, but a graph that grows while names are resolved against it | build graph, walk back from a selection | order of resolution, names and files that are alike, cycles | the plan follows what feeds the selection |
| Plan and artifacts (`integrations/snowflake_glue_migration.py`, `routes/convert.py`) | artifacts by kind and name, contracts, review queue | plan, convert, scan, add what a Postgres source asks for | one name for several artifacts, contracts looked up under two names, additions after the gate | the gate knows all that was flagged; a contract fits its model |
| Orchestration (`integrations/orchestration_migration.py`, `airflow_migration.py`) | jobs in the workspace | read a workflow, plan a job, emit a DAG, deploy | dropped tasks, shared keys, two notions of a key, chains in both directions, list-then-create | order kept through dropped tasks; one job per workflow |
| Workspace push and run (`integrations/workspace_push.py`) | files and runs in the workspace | push, run and wait | delete-then-import, time limit, answers lost | nothing lost by a push |
| Reconciliation (`integrations/reconcile.py`) | none | suggest settings, fingerprint two tables, compare, report | two engines, one query at a time; fingerprints that collide | a pass means equal tables |
| Deploy, seed and test routes; type mapping; exports; connectors; pages without a run | none | pure functions, remote reads, forms | | |

## 2. Modules

`DbtRun` is the promise of one local run. `DbtJob` is the run in detail and
implements it. `DbtRegistry` is the table of runs; `DbtPoller` extends it with the
status endpoint and the page. `ModelOrder` is the dependency sort; `ModelBuild`
extends it with the rest of the build request, and `BuildRequest` is the promise of that
request, which it implements. `MigrationRun` is the automated page
with the store and the manual pages beside it; a whole build is one of its steps.

What those steps ask of the server is in two groups of modules. `AiCalls`, `SsoSession`,
`QvdLoad` and `JobDeploy` call a service and wait for it, and are concurrent; `MCServices`
puts them side by side. `Lineage`, `Conversion` (which extends it), `WorkflowPlan` and
`Reconcile` are what a migration computes; `MCConversion` puts them side by side. In both
the parts share no state, so interleaving them would multiply states and add no behaviour
of any part: the variable `part`, chosen at the start, says which of them moves. `MCDbtJob` does the
same with one run in detail and the registry.
`Measures` says when a tuple of numbers is below another, for the modules that state what they have
left to do.
`MCX` holds what an instance of `X` needs, and `X_proofs` the proofs about `X`, with those about a
module it builds on where they belong together: `DbtPoller_proofs` is also about `DbtRegistry`,
`Conversion_proofs` about `Lineage`, and `Services_proofs` about `AiCalls`,
`SsoSession`, `QvdLoad`, `JobDeploy` and `Reconcile`.

### DbtRun, DbtJob

One action per statement of `_run_steps` at which the worker touches the job, the
disk or a process: `DbtFound`, `AnnounceStep`, `Spawn`, `Register`, `Stream`, `Reap`,
`StepPassed` and the ways out (`DbtMissing`, `SpawnFails`, `StopBeforeStep`,
`StopAfterStep`, `StepFailed`, `StreamRaises`, `PublishResults`), then the `finally`
clause, `Cleanup`. `job["models"]` is set before the verdict and `get_status` takes no lock for
either, so each of the two ends with results is two steps: `StepFailed` and `ConcludeFailed`,
`PublishResults` and `ConcludeBuild`. `DbtRun` has one action for each (`Report`, `Conclude`): a
reader may see results while the run still says "running", never the other way round. `Popen` and `job["proc"] = proc` are two steps, since a cancel can
come between them. The cancel handler is four: `CancelFlag` (without the lock),
`CancelReadProc`, `CancelTerminate`, `CancelRemoveDir`. It may be called again when it
has returned; two handlers at once are not modelled. The child is external: it writes
to its directory (and makes it again after an `rmtree`), and exits when it likes.
The log is two counters, lines appended and lines kept, since the list is always the
tail of the stream.

### DbtRegistry, DbtPoller

`StartJob` is pruning and registration under `_JOBS_LOCK`. Time is the order in which
jobs ended, with any prefix of them past their time to live. `finished` and `ended_at`
are set in two steps, as in the code. `Restart` loses the table and the threads.

`get_status` is three steps, after the reads it makes: the log copy under the lock,
`status`, `finished`. The page's handlers are `ClickRun`/`RunStarted`/`RunNotStarted`,
`PollTick`/`Answered`/`PollFails`, `ClickCancel`/`CancelFails`, `LeavePage`/`EnterPage`.
A request in flight holds the arguments it was sent with; an answer is applied to the
`_sfgRun` of the moment. A log line is its number. `JobSettles` and `JobPrints` are the
steps `DbtRun` allows a job: that the worker takes no others is what `DbtJob` shows.

### ModelOrder, ModelBuild, BuildRequest

`ModelOrder` is `_topo_sort`, one action per loop iteration: `Seed`, `Pop`, `Relax`,
`Finish`. Its input is any ref() graph. Two file names that give one model name
(`a.sql` and `a`) are left out: the names of a request are taken to be distinct.

`ModelBuild` takes `sfglue_build` from there: `StatementGate`, `SourceGate` (409 when a
source has not landed), `CreateSchemas`, then per model `SkipModel` or `BeginModel` and
`attempt_build_with_repair`: `FirstRun`, `DropView` and `Rerun` on a view conflict,
`GiveUp`, `NoRepair`, `Repair`, `Retry`. A statement is what it makes and a draft
number. What `execute_sql_statement` answers is its own: the statement is executed and it says so
(`Executes`), it takes an answer without a state for a success (`Misread`; `unread` remembers for
which models), or it reports a failure after which the statement may still take effect
(`Refuses`, `LateEffect`), because neither the 300-second limit nor a lost poll cancels
it. The AI answers with any statement; `AIKeepsTarget` says that an answer which is one
CREATE makes the table it was asked for, as the prompt demands. The code does not check
that. The run assumes it, and so do the proofs of `SuccessIsPopulated` and `LossIsReported`; the others
do not need it. Which columns the repair prompt lists is text, and reading them changes nothing.
Of all statements only DROP VIEW is written by the server itself and not counted among those `OnlyGuardedRuns` is about.

`BuildRequest` knows the graph, the entries and the answer: `Enter` writes the entry of a model whose
upstreams have theirs, skipped exactly if one of them was not built, `Refuse` ends the request
before the first entry, `Respond` after the last. Which statements ran, how often and with what
effect is left open. The mapping is the identity on entries (`status`) and answer, and
`upstream` is what `_topo_sort` takes from the graph, `Edges`.

### MigrationRun

`startRun` and `continueRun` are cut at each `await`: a step runs from one answer to the
next request. What survives an await in a frame of the function is in `mine`; `stage`
and `abortCtl` are module-level, shared by all runs; the container each run captured is
replaced by the next re-render, so `mounted` holds the runs whose container is still the
visible one. A conversion is its number and a result is the number of the conversion it
is about, so that "built what was approved" is an equation. The manual pages' calls
capture what they send at the click and store the answer under its key, whatever has
happened meanwhile; one such call is in flight at a time. Left out: phase notes, which
are display; lineage and selection, which only feed the conversion; the edits of the
review page; what push and orchestration send.

### AiCalls

The pools of `_map_concurrent`, one over the jobs and one for each job's tables, are
`BeginTransform`, `BeginTable` and `JoinTables`, which waits; a permit of `_AI_GATE` is
held in `call` only: `Acquire`, then `Answered`, `Refused` or `Throttled`, which gives the
permit back before it sleeps (`WaitOver`). The memo (`Remembered`) answers without a
permit. The enumeration of a job's tables (`Enumerated`) calls the provider without the
gate. A flagged model is asked for once more (`Judged`).

### SsoSession

A dict keeps the order of its inserts: the table is the number of the insert that put each session
there, and 0 is a session that is not in it. `StartSession` prunes and `InsertSession` comes
later, after two calls to AWS without the lock. A poll is `BeginPoll`, then one of
`PollToken`, `PollExpired`, `PollAnswered`; `DateToken` is the second of two assignments,
between which the session has a token and no end, so that pruning takes it for dead.

### QvdLoad

`execute_qvd_migration` from its precheck (`BeginLoad`) over the upload (`Prepare`) to the
report, with one `Submit` for each statement and `Answer` for what `execute_sql_statement`
makes of it: `StatementPassed`, `StatementFailed`, `StatementGivenUp` (time limit or a lost
poll; not cancelled) and `StatementUnread` (an answer without a state, taken for success).
The statement ends at the warehouse by `WarehouseEnds` or, when its call is gone, `LateEnd`.
Calls overlap over one package, one volume and one table. The rows of a file are one row, and a row
is the file with the number of the INSERT that put it there, so that a file loaded twice shows.

### JobDeploy

`deploy_job` is `ListJobs`, `SendWrite`, and `Deployed` or `DeployFails`; the request takes
effect by `WriteEnds` also when its sender has given up. `push_to_workspace` is `Import`, `FindConflict`,
`DeleteNode` and the second import; `run_job_and_wait` is `RunNow` and its polls, with a run
that goes on after `GiveUp`. A job is the deploy that created it. What a run is started with and how a check
ends are part of the handlers and kept for completeness; no property is about them.

### Lineage, Conversion

`Lineage` is `build_lineage` (`ReadCatalog`; then, one at a time since each may add the node that the next
one finds, `Connect` for a reference and `Define` for a view the catalogue does not list, which
becomes a node when its DDL is reached; `Relate`), `upstream_subgraph` (`Select`, any set of
nodes, and `Walk`) and `build_migration_plan` (`BuildPlan`). Labels are sequences of parts. A path is a
folder, whose word names its layer, or a file in one, with its name and extension: the only dot of a path is
the one before the extension, so `_base_name` takes two files of one extension for the same. What a
script reads and writes is data, since finding it is text work. The lists the code goes through are
sets of records with their place in the list, and `Foremost` is the one it comes to next: nodes,
references and units of work alike. The lists of a plan are sets of tables and of the numbers of jobs.

`Conversion` is `run_conversion` and what `POST /api/sfglue/convert` adds: a unit of work for
each job, view and table, converted in the order of the code, so that a later artifact of a
name replaces an earlier one; then `Gate`, where the review queue becomes final and `schema.yml` looks up the contract of each model
(`Enforceable`: its own, or that of v for stg_v; of two the order of a set decides); then
the additions for a Postgres source and its control database. An artifact is what it was
made of and whether the review scan finds a marker in it; reject models and stored queries quote
what they were given and may hold one. `ModelName` makes model names of names, as sequences
of parts, so that stg_v can be the staging model of a table v and a model of its own.

### WorkflowPlan

`ReadFlow` and `ReadLink` make the normal form of a Glue workflow, the text of a DAG, a
dag-factory file or the Airflow API, `BuildJob` the job, `EmitDag` the other direction. A link is a
chain of groups with `>>` or `<<` between them, and `Operand` is one round of `_chain`, which turns the
groups round at each `<<`; chains in parentheses on the right of an operator, of which the code takes
the last group, are left out. Several tasks may have one key: all are dropped if one is, the
dependencies that count are the last one's (`LastOfKey`), and those that are kept are tasks of the
job each, under the same key. `RunTask`
is external: the job is run in the order of its dependencies, to say what order it has.
The recursion that passes over dropped tasks is the smallest closed set (`Reached`); where
the code would not return (`Endless`) the plan fails.

### Reconcile

`ReadColumns`, `CheckSchema`, six times `Query` (rows, keys, aggregates of each side), `Compare`,
`CheckContainment`, `Report`, for each pair. Every query sees the candidate as it is at that
moment, and `Rebuild` may change it once in between. The code compares all aggregates, counts among them, with a relative
tolerance (1e-6 unless the caller asks for another); two different values of the instance are further apart than
that, and the tolerance is not modelled. What a pass means has two parts. `PassIsEarned`: it was asked, and both
sides gave the same answers (`Alike`). And these answers stand for the values, which is a
matter of numbers. `PassMeansSame` is both.

## 3. Runs

| Run | Instance | States | Shows |
|---|---|---|---|
| `dbt_job` | one run with a log of 2, 3 lines of output; a registry of 5 jobs, limit 2 | 41 thousand | `CancelDecides`, `SuccessMeansBuilt`, `WorkerLeavesNothing`, `NoStartAfterCancel`, `TerminateEndsRun`, and `ImplementsRun`: refinement of `DbtRun`; `RunningIsRegistered`, `StartsBounded` |
| `dbt_poller` | 2 jobs, limit 1, log of 2, 3 lines, one request in flight | 0.9 million | `RunningIsPolled`, `LogInOrder`, `LogWithoutGap`, `FinishedMeansSettled`, `SettledIsNoticed` |
| `model_order` | all graphs of 4 models | 0.7 million | `DependenciesFirst`, `CycleIsExact`, `NothingLost`, `SortEnds` |
| `model_build` | the graphs of 3 models without self-references in which the first or the last reads none, one kind of object under every name at first, 1 repair, at most one answer without a state | 0.8 million | `BuiltOnBuilt`, `SuccessIsPopulated`, `OnlyGuardedRuns`, `LossIsReported`, `BuildAnswers`, and `ImplementsRequest`: refinement of `BuildRequest` |
| `migration_run` | 2 runs, 2 conversions | 2.1 million | `StopReachesItsRun`, `NeverStuck`, `PausedRunIsKept`, `LoneRunIsConsistent` |
| `services` | AI: 2 jobs, 3 tables, 2 workers, 2 attempts; sign-in: 3 sessions, 2 polls, table of 1; loads: 2 calls, 2 files, 5 packages; jobs: 2 deploys, 2 runs; push: 2 pushes, 2 paths, any tree before | 190 thousand | `ConversionAnswers`; `StaysSignedIn`; `LoneLoadIsExact`, `OpenIsReported`, `LoadAnswers`; `DuplicatesNeedOverlap`; `PushedIsThere` |
| `conversion` | lineage: 2 tables, a view and one known from its DDL only, 2 catalogue tables, a job of any reads and writes beside one that makes a dimension, csv files among the paths, selections of none, of each node and of each with the dimension; conversion: plans of jobs of every kind and of models that share names, at most two artifacts flagged at a time; workflows: all graphs of 3 links among 4 tasks, chains of three groups in each direction, shared keys and each other special form; reconciliation: all pairs of columns of 4 numbers, and of 3 numbers or NULLs | 132 thousand | `PlanFollowsLineage`; `GateCoversConversion`, `ContractFitsModel`; `RunsInOrder`, `EmittedInOrder`; `PassMeansSame` |
| `dbt_log_delivered` | 1 job | | a line of the log is not delivered |
| `build_upstream_processed` | 4 models, two of them in a cycle | | a model off the cycle is run before the one it reads |
| `migration_build_is_reviewed` | as `migration_run` | | an unreviewed conversion is built |
| `migration_outcomes_of_this_run` | 2 runs, the manual pages unused | | a second run shows the first one's build |
| `workflow_chains` | a DAG of 3 tasks, `c << b << a` | | the job runs c before b |

Every module with actors has a type invariant, and each is a theorem (`RegTypeOK` of the registry as part of the
page's). None is in a run, since each is proved.

Why the bounds are enough. A list of two lines with a third one printed is cut once:
cutting again repeats the situation, and `LogInOrder` and `LogWithoutGap` compare
neighbouring chunks. Five jobs with a limit of two let both passes of pruning choose
among several and still leave an overflow; two jobs in the poller let one be evicted
while a stale page asks for it. A single polled request (`MaxInFlight = 1`) is a
restriction that matters: with two overlapping polls `LogInOrder` does not hold (the
timer at `pages/snowflake-glue-dbt-agent.js:149` does not wait), and the run says what is
guaranteed when every answer comes within the interval. Four models have every
shape a counter can go wrong on: a diamond, a chain, a cycle with something above and
something below it. Three models are a chain and a fork for skips, in one or the other order of the
files; cycles of two models are among the graphs, fed by the third or beside it. A model below a
cycle and the cycle of all three are left to `model_order` and the proofs. A second repair
attempt adds a second refusal of the same kind, and a second unread answer a second excuse (the
proofs hold for any number of both, and any graph). Two
runs are enough for one to take the controller, the stage or the store from the other,
and two conversions for an approved one and another.

In `services` two calls of each kind are what a race takes: a list between another's list and
create, a push that deletes what another imported, a poll that removes the session another has
signed in, an INSERT late for one call and early for the next. The table keeps one session, and
pruning makes room before the start's own is put in: with three sign-ins, started in the order of their numbers, two
that began before either was in the table are both in it when the third prunes, which evicts the older
one also if it is signed in. The third is not polled. Two workers with three tables in two jobs fill both the pools and the gate;
with one executor for all pools they would lock up, which is the mutant of `ConversionAnswers`. Two
files tell a lost file from a doubled one.

In `conversion` the jobs range over every reference that is resolved differently (exact, alike,
ambiguous, new, a folder, a file with the extension of another, a view that is
there only after the references before its DDL); what they cannot show is a chain of more than a few steps, for which the
walk is the same step again. Three links among four tasks make every chain with two dropped tasks in
the middle, the forks and the cycles. Flags are independent of one another in the code; two at a time
are enough for one that is in the queue beside one that is not. Reconciliation is a claim about bounded data: two columns of
four numbers in 0..3 with equal count, range, cardinality, sum and sum of squares are equal, and
with more or larger numbers they need not be.

Deadlock is not checked where the system may come to rest: a build that was answered,
runs that ended with no further click, a conversion, a plan or a comparison that is finished. In `dbt_job` and `dbt_poller` it is.

### Fairness

`DbtJob`: the two threads keep running, and a child that was sent SIGTERM exits. Nothing
says that dbt ever ends by itself. `DbtPoller`: a set interval timer fires, the server
answers what it was asked and the browser delivers an answer or an error; nothing of
the user, dbt or the network. `ModelOrder` and `ModelBuild`: the request thread keeps running,
each remote call it makes has a time limit; late effects need not come. `MigrationRun`
has no fairness and claims no liveness: a fetch has no time limit, and users may stop.
`AiCalls` (`AiFairness`): the pools' threads run and every provider call has a time limit; nothing says a
conversion takes up a job. `QvdLoad` (`QvdFairness`): the call's thread runs, and each request and the
polling have a time limit; nothing of the warehouse, and no answer without a state is
promised. The other modules of `services` and all of `conversion` claim no liveness.

### Disagreements with what the repository says

- `dbt_local.py:12`: the log is streamed to the page. The verdict "dbt not found" is set
  before the line that explains it; the page stops polling in between. Lines after the
  copy at line 227 and lines cut from the list are missed the same way.
- `routes/deploy.py:292-293`: the compiled list is in dependency order. With a cycle
  anywhere it is the input order, and the warning is not looked at: models that have nothing to do
  with the cycle are run before those they read.
- `snowflake-glue-run.js:4-6`: what is built was reviewed. The conversion is read again
  after the precheck.
- `store.js:86-87`: results are cleared on re-analysis. `startRun` analyses again and
  clears none: a second run stands at its checkpoint beside the first one's build.
- `airflow_migration.py:147`: `_chain` flattens a chain "into ordered groups". It turns all groups so far round
  at each `<<`, so `c << b << a`, which Airflow runs as a, b, c, is read as a, c, b, and the job
  runs c without waiting for b.

Others were met while modelling and have no run of their own. The models follow the code.

- `dbt_local.py:13` says that results come from `run_results.json`, but a cancel after the last
  look at the flag removes the file before it is parsed, and the run is a success without models
  (line 177; `DbtJob` defines `SuccessShowsModels`).
- `routes/deploy.py:163-164` says the client sends the models with edits applied; the automated
  page sends them without (`snowflake-glue-run.js:325`).
- `snowflake_glue_migration.py:1095-1099` calls the review queue the gate until whose emptiness
  nothing ships. The convert route adds models of stored queries and of rejects after it. An untranslated
  query, or a rule that holds a marker and is quoted in a reject model (`dq_migration.py:177-184`), is
  not in the queue (`GateCoversConversion` says that nothing else is missing).
- `snowflake_glue_migration.py:2161-2162` keeps a job as one model "so nothing is dropped". Two
  jobs that write tables of one name make one model, the later one. Tables share a model in the same
  way (2567-2583), and then one contract: `ContractFitsModel` compares the last parts of names.
- `snowflake_glue_migration.py:1219-1222`: contracts are enforced on models "whose full column list" is known, and
  those "with an AI-derived (unknown) output schema" get none. A model stg_v of a job, whose columns are not
  known, gets the contract of a view v (`_model_alias_keys`, 1197-1204); if it has one of its own,
  the order of a set of two strings decides between them (1259). `ContractFitsModel` excepts both.
- `snowflake_glue_migration.py:55-59`: "no matter how the pools nest, at most `_AI_WORKERS`" calls
  are in flight. The enumeration of a job's tables asks the provider outside the gate.
- `snowflake_glue_lineage.py:525-531`: the subgraph is "exactly what feeds the selected tables".
  Declared foreign keys are followed too, and a job named like the table it writes has no edge to it.
  Files are told apart by their extension when no label is the same (40-43, 375): a job that reads
  one csv file is fed by the job that writes the only other.
- `airflow_migration.py:3-6`: DAGs get the same shape as workflows. Of the API's, the tasks'
  keys are sanitised (616) and the dependencies are not (618): a dependency on a task whose name is no key
  leads nowhere, and the job waits for a task it does not have.
- `airflow_migration.py:414-417`: when one notebook is an ingestion by its name, the others are not in the emitted
  DAG at all.
- `orchestration_migration.py`: dropped tasks that depend on one another are passed over without an end (180-184).
  Task ids that give one key (x-y and x.y) give two tasks of one `task_key` (202), are dropped both if
  one is (177), and what depended on them then waits for what the last of them in the list waits for (178).
  `RunsInOrder` is therefore stated of tasks with keys of their own.
- `reconcile.py:16-18`: row counts may differ by a tolerance and every column has a fingerprint. The
  counts in the fingerprint have a tolerance of their own, the relative 1e-6 of all aggregates (381-387), so a difference
  in rows that was allowed fails there, unless it is below that as well; key columns have
  none. A containment check that cannot be made passes.
- `routes/deploy.py:324-325` answers with success when every model is "created" or "repaired". An answer of the
  warehouse without a state is taken for a success (`databricks_executor.py:211-215`, 655), so a
  model can be "created" without a table: `SuccessIsPopulated` and `LossIsReported` except just these.
- `execute_qvd_migration` is an entry point of the toolkit; the application does not call it.

## 4. Proofs

All proofs are for any value of the constants: any log limit and output, any number of
jobs, runs, sessions, polls, calls, pushes and files, any list of models and graph, any number of
repairs, any catalogue, plan, workflow and tables.

Assumptions are the `ASSUME`s of the modules, which TLC evaluates on the instances. Limits are naturals,
what runs at once is finite, a value that stands for "none" is none of the others, model names are
distinct and there is at least one, a push has a path, notebooks are finitely many. Two say something about
data: a key made of a key is that key (`KeyAssumption`, for the API reader: replacing what is no
word character and cutting at 100 does nothing the second time), and what is compared are lists
(`RequestsAssumption`). Three theorems about the page have `MaxInFlight = 1` as a hypothesis and
two about builds have `AIKeepsTarget`; both are explained below.

- `DbtJob_proofs`. `TypeOK` and the four properties are not inductive: that a cancel in
  flight decides the verdict needs to know where the worker can be when it was `caught`,
  and that a child exists while the worker waits. `IInv` adds what each program point
  implies (`Idle`, `Phase`, `Waiting`, `Build`), that a set flag is found by the check
  after the step (`Caught`), and that after a returned cancel a worker about to spawn has
  no directory (`Returned`). `Refinement` maps each step to `LogLine`, `Report`, `Conclude` or a
  stutter; it needs that no results are set before the one step that reports them, and
  that a worker between the two writes has given no verdict yet (`Unsettled`, `Phase`).
- `DbtPoller_proofs`, the registry. `RunningIsRegistered` with the typing of the sets is inductive;
  `StartsBounded` follows from counting what an eviction leaves (`EvictionBound`). Every step of
  the page, of a request and of a job is a step of the registry or leaves it alone
  (`PollerImplementsRegistry`), so both hold under the page too.
- `DbtPoller_proofs`, the page. `RunningIsPolled` is inductive with the types, for any number of requests
  in flight. What the page shows is a matter of three parties, and `SoloInv` has a part for each: `PageInv` says
  what the page may hold between a click and its answer, `ShownInv` that the lines it shows come before the one its offset stands
  for and are all of those while nothing was cut, and `Current` that the request in flight is of the run
  on the page and from its offset, and that the list it has read is one the job once had. An answer
  then appends what comes next (`ChunkContinues`), and the verdict it brings was set. `Current` fails
  as soon as two requests are in flight, and so do the three properties: the interval timer
  (`pages/snowflake-glue-dbt-agent.js:149`) does not wait for the last answer. `MaxInFlight = 1` is the case of a server that
  answers within the interval, and the theorems say what is guaranteed there.
- `ModelOrder_proofs`. The heart is `CountsRight`: a model's counter is the number of its
  undrained dependencies, one more while the current node's dependents are still being
  gone through; and `QueuedRight`: a model is queued or drained exactly when its counter
  is zero. `DrainedFirst` gives the order; `Untangled`, that no member of a set in which
  each depends on another is ever drained, gives one half of the cycle flag, and the
  undrained models themselves are such a set for the other half.
- `ModelBuild_proofs`. `EntriesArePrefix` and `RunsUnblocked` say that a model is run only
  when all earlier ones have entries and none of its dependencies failed; with
  `DependenciesFirst` an entry "built" then has built upstreams. `LInv` accounts for objects:
  a model that lost its table or view, or may yet lose it to a late DROP VIEW, has failed or is the one
  at hand, and a skipped model goes back to a failed one. An answer of the AI that makes another
  model's table would break it, hence `AIKeepsTarget`, which `SuccessIsPopulated` and
  `LossIsReported` assume. The position in the list is bounded since the order repeats no model (`PosIs`).
- `ModelBuild_proofs`, the refinement. `BuildRefines` maps the step that writes an entry to `Enter`, the
  refusing ends of the gates to `Refuse`, and everything the repair loop does before its
  outcome to a stutter. It needs that an answer is sent once (`Unanswered`), that a model whose turn it is
  has no entry and its upstreams have theirs, if the graph has no cycle (`UpstreamsEntered`: every set with a model that
  reads none of the others is what the sort's flag decides), and that a model in the repair loop was
  not blocked when it began and is not since (`RunsUnblocked`).
- `MigrationRun_proofs`. The four properties are proved from one invariant, since each needs
  the others' view of the shared variables. `View` is what the screen implies: at most one run of
  the visible container is running, Start is hidden while it is, and if it is in its
  first part, the module's controller is its own. That is what makes Stop reach it, although
  `startRun` reads `abortCtl` after two awaits: a run whose controller was replaced is no longer
  mounted. `Owned` follows the only run started: nobody else moves `stage`, and the box on the screen was
  drawn from the conversion in the store. `Uncrossed` is what a run past its checkpoint
  may rely on while nothing wrote across it (`Works`), point by point until it ends.
- `Services_proofs`, AI calls. `SomeoneGoesOn` is the safety half of `ConversionAnswers`: a job that waits for
  its tables waits for something that can happen. It counts threads and permits: a pool
  without a free thread has a table that is taken up, and a gate without a permit left has a
  call that holds one. With one executor for all pools the first fails. `DoneIsConverted` needs that a job's tables are known before
  any of them is taken up (`AiInv`). Neither is in a run: the run asks for the liveness that implies the first.
- `Services_proofs`, sign-in. `StaysSignedIn` is about steps; `SsoInv` says which polls can be at a
  session: one the table has dropped is dead for good (`DroppedIsGone`), and two polls at one that is there know of each other
  (`PollsKnown`), so an answer "expired" can remove a token only where the property allows it.
  That pruning takes the oldest (`PrunedIsOld`) is about the numbers of the inserts.
- `Services_proofs`, load. `CallInv` is about each call: what is late belongs to a call that is over and
  has failed at that stage, or has misread an answer; that gives `OpenIsReported`. `LoneInv` is about a
  call that no other got as far as: at most one INSERT was done, and none while its own is
  still to come. A count equal to the number of files, with rows of one INSERT only, leaves every
  file once (`OneInsert`), which is `LoneLoadIsExact`.
- `Services_proofs`, jobs. `DuplicatesNeedOverlap` by `LoneCreate`: unless a list was answered while a create
  was open, at most one deploy is between deciding to create and the job's being there, and then there is
  no job. That a lost answer's create counts as open until it takes effect is what makes
  repeated deploys safe. `RunsAlone` gives the half about runs. `PushedIsThere` by `PushInv`: what a push
  has dealt with and not reported is in place, or another push has failed at it or is about to import
  it again.
- `Services_proofs`, comparison. `PassIsEarned` by `RecInv`: what has been asked so far
  are the answers of the tables (`Fetched`; of the candidate unless it was rebuilt), and a step goes on
  without a failure only if they agree (`AlikeStays`). A query that fails leaves a failure, so a pass has had all six
  answers; foreign keys do not take back what was found.
- `WorkflowPlan_proofs`. `RunsInOrder` without any induction on paths: the tasks that are held back
  by a kept one that has not run form a set closed under "comes before" (`HeldFollows`), and `Precedes` is
  membership in every such set. With keys of their own only the last task
  of a key is the only one. That the links are read as they are meant is an invariant of the reading
  (`LinksRead`, `ReadInto`), chain by chain, and holds of chains with only `>>` or a single `<<`. A dependency that is not a task, or not
  spelled as a key, holds its task back for good, which needs `KeyAssumption`. `EmittedInOrder` likewise
  without induction along the chain: every task waits for the one before it, so at any time what has run
  is closed under what comes `Earlier` (`EmitInv`), and the chain is put together of the
  pieces in the order the property names (`PieceBefore`).
- `Conversion_proofs`, lineage. Upstream is the smallest set that holds the selection and what feeds its
  members. The walk keeps below each such set, and when its frontier is empty it is one (`WalkInv`,
  `IncludedIsUpstream`): no induction on distance, and cycles need no care. That every job that
  writes into the scope is planned needs that an edge of a write, however its reference was resolved, ends at a
  table of the last name that was written (`WritesKnown`, `ResolvedAlike`).
- `Conversion_proofs`, artifacts. `GateCoversConversion` by `Queued`: what is flagged is in the queue or was made
  of a stored query or of the rules, as all later units can flag nothing else (`AdditionsAreLate`). `ContractFitsModel`
  by `ContractInv`: no contract is brought before the views (`InPart`), from where on a unit makes models of objects of
  their names only, so that what replaces a model keeps fitting its contract (`Listed`). That the
  jobs are merged first is what it rests on. What `schema.yml` enforces was looked up under one of two
  names (`LookedUp`), and the exception of the property is the second.

- Why things end. That a program stops getting anywhere has two causes, that it goes round or that it waits; the first
  is a matter of safety, and is proved. `SortLeft`, `BuildLeft`, `TableLeft` with `JobLeft`, and `LoadLeft` are tuples of
  naturals, and every step of the sort (`SortProgresses`), of a build's handler (`BuildProgresses`), of the AI
  calls (`AiProgresses`) and of a load (`LoadProgresses`) lowers its own in the order of `Measures`, while late effects
  and the steps of others do not raise it. So no graph, no refusing AI, no warehouse and no number of lost
  answers keeps one of these busy for ever. The walk back through the lineage (`WalkProgresses`)
  grows inside a finite set or shrinks its frontier, round cycles too. That these tuples are naturals
  is where the type invariants and the bounds of the counters are used. That the AI calls do not wait
  for one another is `SomeoneGoesOn`.

Only model-checked:

- All liveness: `TerminateEndsRun`, `SettledIsNoticed`, `SortEnds`, `BuildAnswers`, `ConversionAnswers`,
  `LoadAnswers`. Fairness and ENABLED are outside the prover, and so is the induction on tuples that takes the
  progress theorems to an end. The first two have no such measure: a run lasts as long as dbt does, and the page
  polls as long as the run lasts.
- The second half of `PassMeansSame`, that columns of equal fingerprints are equal. It is true of bounded
  data only; the first half is `PassIsEarnedAlways`.

## 5. Plan

Done: the core (local dbt, build, automated page), the services, the conversion, and the proofs of
what their runs check. Left:

1. `execute_sql_statement` on its own, poll by poll as in `QvdLoad`, with `ModelBuild`'s view of it (`Executes`,
   `Misread`, `Refuses`, `LateEffect`) as its abstract specification.
2. The test gate of `routes/deploy.py` (which table a declared key is looked up in) and the order
   of deploy and seed statements.

## 6. Not modelled

Text work: SQL rewriting and guarding, type names, reading scripts, prompts, YAML and notebook
generation, archives, the dialect normaliser. Rendering and forms. The trial run in DuckDB and the
connectors to Snowflake, Glue, Postgres and the AI providers, which keep no state. The loops of the deploy, seed
and test routes: independent statements with one result each; that the test gate may look up a
stale namesake (`routes/deploy.py:616`) and that a repaired statement is lost with its request
(`routes/deploy.py:319`) are hazards no property covers, the first a matter of names in a catalogue,
the second of what the code does not keep. The reference data lake scripts.
