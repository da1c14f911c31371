------------------------------- MODULE DbtJob -------------------------------
(***************************************************************************)
(* One local dbt-Core run: the worker thread of dbt_local.py               *)
(* (_run_and_cleanup, _run_steps), the dbt child process it starts for     *)
(* each step (debug, deps, build), and the cancel handler, which runs in a *)
(* request thread of its own at any time.                                  *)
(*                                                                         *)
(* The fields of the job dictionary are variables of their own. The log    *)
(* list always holds the most recent lines, so it is kept as two counters: *)
(* how many lines were ever appended and how many the list still has.      *)
(***************************************************************************)
EXTENDS Naturals

CONSTANTS
  MaxLogLines,  \* _MAX_LOG_LINES
  MaxPrinted    \* bound: lines of child output in a behaviour

ASSUME LogAssumption == MaxLogLines \in Nat \ {0} /\ MaxPrinted \in Nat

VARIABLES
  pc,         \* where the worker thread is
  step,       \* the dbt command the worker is at
  hasDeps,    \* the project has a packages.yml
  status, finished, ended, cancelled, models,  \* fields of the job
  proc,       \* job["proc"]: the step whose Popen handle is registered
  printed,    \* lines appended to job["logs"] so far
  kept,       \* len(job["logs"])
  child,      \* the current dbt child process
  signalled,  \* the current child has been sent SIGTERM
  dir,        \* the temporary project directory exists
  results,    \* target/run_results.json in it
  canceller,  \* where the cancel handler is
  held,       \* the Popen handle the cancel handler read
  raised,     \* history: an exception left _run_steps
  caught,     \* history: the cancel flag was set while a child was in flight
  returned,   \* history: a cancel call has returned
  built       \* history: dbt build exited with code 0

job == <<status, finished, ended, cancelled, models, proc>>
log == <<printed, kept>>
disk == <<dir, results>>
handler == <<canceller, held>>
history == <<raised, caught, returned, built>>
vars == <<pc, step, hasDeps, job, log, child, signalled, disk, handler, history>>

DbtSteps == {"debug", "deps", "build"}
NoProc == "none"

TypeOK ==
  /\ pc \in {"resolve", "explain", "check", "spawn", "register", "stream",
             "after", "failed", "results", "publish", "cleanup", "done"}
  /\ step \in DbtSteps
  /\ hasDeps \in BOOLEAN
  /\ status \in {"running", "success", "error", "cancelled"}
  /\ finished \in BOOLEAN /\ ended \in BOOLEAN /\ cancelled \in BOOLEAN
  /\ models \in {"none", "ok", "failed"}
  /\ proc \in DbtSteps \cup {NoProc}
  /\ printed \in Nat
  /\ kept \in 0..MaxLogLines
  /\ child \in {"none", "running", "ok", "failed"}
  /\ signalled \in BOOLEAN
  /\ dir \in BOOLEAN
  /\ results \in {"none", "ok", "failed"}
  /\ canceller \in {"idle", "lock", "terminate", "rmtree"}
  /\ held \in DbtSteps \cup {NoProc}
  /\ raised \in BOOLEAN /\ caught \in BOOLEAN
  /\ returned \in BOOLEAN /\ built \in BOOLEAN

\* start_dbt_run has written the project, registered the job and started the
\* thread.
Init ==
  /\ pc = "resolve" /\ step = "debug" /\ hasDeps \in BOOLEAN
  /\ status = "running" /\ finished = FALSE /\ ended = FALSE
  /\ cancelled = FALSE /\ models = "none" /\ proc = NoProc
  /\ printed = 0 /\ kept = 0
  /\ child = "none" /\ signalled = FALSE
  /\ dir = TRUE /\ results = "none"
  /\ canceller = "idle" /\ held = NoProc
  /\ raised = FALSE /\ caught = FALSE /\ returned = FALSE /\ built = FALSE

-----------------------------------------------------------------------------
(* Helpers of the worker. *)

\* _append_log: append, then delete what exceeds the limit from the front.
AppendLog ==
  /\ printed' = printed + 1
  /\ kept' = IF kept + 1 > MaxLogLines THEN MaxLogLines ELSE kept + 1

\* job.update(status=..., finished=True, ...).
Conclude(verdict) ==
  /\ status' = verdict
  /\ finished' = TRUE

\* _parse_run_results: best effort, an absent file counts as no results.
ParsedResults == IF dir THEN results ELSE "none"

NextStep == IF step = "debug" /\ hasDeps THEN "deps" ELSE "build"

\* rmtree(ignore_errors=True) removes the project, but may leave a directory
\* in which a live dbt process is still writing.
RemoveDir ==
  /\ dir' \in (IF child = "running" /\ dir THEN BOOLEAN ELSE {FALSE})
  /\ results' \in (IF dir' THEN {results, "none"} ELSE {"none"})

-----------------------------------------------------------------------------
(* The worker thread. *)

\* _find_dbt finds no executable: the verdict first, then the line that
\* explains it.
DbtMissing ==
  /\ pc = "resolve"
  /\ Conclude("error")
  /\ pc' = "explain"
  /\ UNCHANGED <<step, hasDeps, ended, cancelled, models, proc, log, child,
                 signalled, disk, handler, history>>

ExplainMissing ==
  /\ pc = "explain"
  /\ AppendLog
  /\ pc' = "cleanup"
  /\ UNCHANGED <<step, hasDeps, job, child, signalled, disk, handler, history>>

DbtFound ==
  /\ pc = "resolve"
  /\ pc' = "check"
  /\ UNCHANGED <<step, hasDeps, job, log, child, signalled, disk, handler,
                 history>>

\* Top of the loop over the steps: a set flag ends the run, otherwise the
\* step's banner is logged.
StopBeforeStep ==
  /\ pc = "check"
  /\ cancelled
  /\ Conclude("cancelled")
  /\ pc' = "cleanup"
  /\ UNCHANGED <<step, hasDeps, ended, cancelled, models, proc, log, child,
                 signalled, disk, handler, history>>

AnnounceStep ==
  /\ pc = "check"
  /\ ~cancelled
  /\ AppendLog
  /\ pc' = "spawn"
  /\ UNCHANGED <<step, hasDeps, job, child, signalled, disk, handler, history>>

\* subprocess.Popen starts the child in the project directory ...
Spawn ==
  /\ pc = "spawn"
  /\ dir
  /\ child' = "running"
  /\ signalled' = FALSE
  /\ pc' = "register"
  /\ UNCHANGED <<step, hasDeps, job, log, disk, handler, history>>

\* ... or raises, as it must when the directory is gone.
SpawnFails ==
  /\ pc = "spawn"
  /\ Conclude("error")
  /\ pc' = "cleanup"
  /\ UNCHANGED <<step, hasDeps, ended, cancelled, models, proc, log, child,
                 signalled, disk, handler, history>>

\* with job["lock"]: job["proc"] = proc, a separate step from Popen.
Register ==
  /\ pc = "register"
  /\ proc' = step
  /\ pc' = "stream"
  /\ UNCHANGED <<step, hasDeps, status, finished, ended, cancelled, models,
                 log, child, signalled, disk, handler, history>>

\* for line in proc.stdout: one line of the child's output is read and logged.
Stream ==
  /\ pc = "stream"
  /\ child = "running"
  /\ printed < MaxPrinted
  /\ AppendLog
  /\ UNCHANGED <<pc, step, hasDeps, job, child, signalled, disk, handler,
                 history>>

\* Output the server's locale cannot decode raises out of the loop; nothing in
\* _run_steps catches it and the child is left behind.
StreamRaises ==
  /\ pc = "stream"
  /\ raised' = TRUE
  /\ pc' = "cleanup"
  /\ UNCHANGED <<step, hasDeps, job, log, child, signalled, disk, handler,
                 caught, returned, built>>

\* Mutant of Reap: the handle is dropped without waiting for the process.
Reap_NoWait ==
  /\ pc = "stream"
  /\ child # "none"
  /\ proc' = NoProc
  /\ pc' = "after"
  /\ UNCHANGED <<step, hasDeps, status, finished, ended, cancelled, models,
                 log, child, signalled, disk, handler, history>>

\* Mutant of Reap: waits for a child that exits with code 0.
Reap_OnlySuccess ==
  /\ pc = "stream"
  /\ child = "ok"
  /\ proc' = NoProc
  /\ pc' = "after"
  /\ UNCHANGED <<step, hasDeps, status, finished, ended, cancelled, models,
                 log, child, signalled, disk, handler, history>>

\* proc.wait() returns, then job["proc"] = None.
Reap ==
  /\ pc = "stream"
  /\ child \in {"ok", "failed"}
  /\ proc' = NoProc
  /\ pc' = "after"
  /\ UNCHANGED <<step, hasDeps, status, finished, ended, cancelled, models,
                 log, child, signalled, disk, handler, history>>

\* After the step: the flag is looked at before the exit code.
StopAfterStep ==
  /\ pc = "after"
  /\ cancelled
  /\ Conclude("cancelled")
  /\ pc' = "cleanup"
  /\ UNCHANGED <<step, hasDeps, ended, cancelled, models, proc, log, child,
                 signalled, disk, handler, history>>

\* Mutant of StepFailed: the exit code is looked at before the flag.
StepFailed_ExitCodeFirst ==
  /\ pc = "after"
  /\ child = "failed"
  /\ models' = ParsedResults
  /\ pc' = "failed"
  /\ UNCHANGED <<step, hasDeps, status, finished, ended, cancelled, proc, log,
                 child, signalled, disk, handler, history>>

\* A step that exits with an error: job["models"] is set first ...
StepFailed ==
  /\ pc = "after"
  /\ ~cancelled
  /\ child = "failed"
  /\ models' = ParsedResults
  /\ pc' = "failed"
  /\ UNCHANGED <<step, hasDeps, status, finished, ended, cancelled, proc, log,
                 child, signalled, disk, handler, history>>

\* ... and the verdict follows in a write of its own. get_status takes no lock
\* for either, so the results can be read without it.
ConcludeFailed ==
  /\ pc = "failed"
  /\ Conclude("error")
  /\ pc' = "cleanup"
  /\ UNCHANGED <<step, hasDeps, ended, cancelled, models, proc, log, child,
                 signalled, disk, handler, history>>

\* Mutant of StepPassed: the exit code of the step is not looked at.
StepPassed_AnyExit ==
  /\ pc = "after"
  /\ ~cancelled
  /\ IF step = "build"
     THEN pc' = "results" /\ UNCHANGED step
     ELSE pc' = "check" /\ step' = NextStep
  /\ UNCHANGED <<hasDeps, job, log, child, signalled, disk, handler, history>>

StepPassed ==
  /\ pc = "after"
  /\ ~cancelled
  /\ child = "ok"
  /\ IF step = "build"
     THEN pc' = "results" /\ UNCHANGED step
     ELSE pc' = "check" /\ step' = NextStep
  /\ UNCHANGED <<hasDeps, job, log, child, signalled, disk, handler, history>>

\* After the last step the per-model results are published ...
PublishResults ==
  /\ pc = "results"
  /\ models' = ParsedResults
  /\ pc' = "publish"
  /\ UNCHANGED <<step, hasDeps, status, finished, ended, cancelled, proc, log,
                 child, signalled, disk, handler, history>>

\* ... and then decide; the flag is not looked at again.
ConcludeBuild ==
  /\ pc = "publish"
  /\ Conclude(IF models = "failed" THEN "error" ELSE "success")
  /\ pc' = "cleanup"
  /\ UNCHANGED <<step, hasDeps, ended, cancelled, models, proc, log, child,
                 signalled, disk, handler, history>>

\* The finally clause of _run_and_cleanup.
Cleanup ==
  /\ pc = "cleanup"
  /\ ended' = TRUE
  /\ RemoveDir
  /\ pc' = "done"
  /\ UNCHANGED <<step, hasDeps, status, finished, cancelled, models, proc, log,
                 child, signalled, handler, history>>

\* The worker's steps that do not depend on the child's output.
WorkerProgress ==
  \/ DbtMissing \/ ExplainMissing \/ DbtFound
  \/ StopBeforeStep \/ AnnounceStep
  \/ Spawn \/ SpawnFails \/ Register \/ Reap
  \/ StopAfterStep \/ StepFailed \/ ConcludeFailed \/ StepPassed
  \/ PublishResults \/ ConcludeBuild \/ Cleanup

Worker == WorkerProgress \/ Stream \/ StreamRaises

-----------------------------------------------------------------------------
(* The dbt child process (external: modelled from what the worker sees). *)

\* dbt writes target/ and logs/ under its working directory, and makes the
\* directories it misses.
ChildWrites ==
  /\ child = "running"
  /\ ~dir
  /\ dir' = TRUE
  /\ UNCHANGED <<pc, step, hasDeps, job, log, child, signalled, results,
                 handler, history>>

\* dbt exits. Only dbt build leaves run results, and always when it succeeds.
ChildExits ==
  /\ child = "running"
  /\ child' \in {"ok", "failed"}
  /\ IF step = "build"
     THEN /\ results' \in (IF child' = "ok" THEN {"ok", "failed"}
                           ELSE {"none", "ok", "failed"})
          /\ dir' = (dir \/ results' # "none")
     ELSE UNCHANGED disk
  /\ built' = (step = "build" /\ child' = "ok")
  /\ UNCHANGED <<pc, step, hasDeps, job, log, signalled, handler, raised,
                 caught, returned>>

-----------------------------------------------------------------------------
(* The cancel handler. *)

\* Mutant of CancelFlag: the handler publishes the verdict itself.
CancelFlag_Concludes ==
  /\ canceller = "idle"
  /\ cancelled' = TRUE
  /\ Conclude("cancelled")
  /\ caught' = (caught \/ pc \in {"register", "stream"})
  /\ canceller' = "lock"
  /\ UNCHANGED <<pc, step, hasDeps, ended, models, proc, log, child, signalled,
                 disk, held, raised, returned, built>>

\* cancel(): the job is found and its flag set, without the lock.
CancelFlag ==
  /\ canceller = "idle"
  /\ cancelled' = TRUE
  /\ caught' = (caught \/ pc \in {"register", "stream"})
  /\ canceller' = "lock"
  /\ UNCHANGED <<pc, step, hasDeps, status, finished, ended, models, proc, log,
                 child, signalled, disk, held, raised, returned, built>>

\* with job["lock"]: proc = job.get("proc").
CancelReadProc ==
  /\ canceller = "lock"
  /\ held' = proc
  /\ canceller' = (IF proc = NoProc THEN "rmtree" ELSE "terminate")
  /\ UNCHANGED <<pc, step, hasDeps, job, log, child, signalled, disk, history>>

\* proc.terminate(): no effect on a process that has exited meanwhile, nor on
\* the child of a later step.
CancelTerminate ==
  /\ canceller = "terminate"
  /\ signalled' = (signalled \/ (child = "running" /\ held = step))
  /\ canceller' = "rmtree"
  /\ UNCHANGED <<pc, step, hasDeps, job, log, child, disk, held, history>>

\* Mutant of CancelRemoveDir: the project directory is left to the worker.
CancelRemoveDir_Kept ==
  /\ canceller = "rmtree"
  /\ held' = NoProc
  /\ canceller' = "idle"
  /\ returned' = TRUE
  /\ UNCHANGED <<pc, step, hasDeps, job, log, child, signalled, disk, raised,
                 caught, built>>

\* rmtree of the project directory, and the call returns.
CancelRemoveDir ==
  /\ canceller = "rmtree"
  /\ RemoveDir
  /\ held' = NoProc
  /\ canceller' = "idle"
  /\ returned' = TRUE
  /\ UNCHANGED <<pc, step, hasDeps, job, log, child, signalled, raised, caught,
                 built>>

Canceller == CancelReadProc \/ CancelTerminate \/ CancelRemoveDir

-----------------------------------------------------------------------------

Next == Worker \/ ChildWrites \/ ChildExits \/ CancelFlag \/ Canceller

Spec == Init /\ [][Next]_vars

\* Both threads keep running, and a dbt process that was sent SIGTERM exits. No
\* fairness says that dbt ever exits by itself, that it prints something the
\* server cannot decode, or that anybody cancels.
Fairness ==
  /\ WF_vars(WorkerProgress)
  /\ WF_vars(Canceller)
  /\ WF_vars(signalled /\ ChildExits)

FairSpec == Spec /\ Fairness

-----------------------------------------------------------------------------
(* Properties. *)

\* The run as the status endpoint shows it.
Shown == INSTANCE DbtRun WITH
  verdict <- status, settled <- finished, reported <- models, lines <- printed

\* The worker implements DbtRun: whatever the worker, dbt and cancel callers
\* do, a run gets one verdict, its model results appear once, before it, the
\* verdict agrees with them, and neither changes afterwards (a cancel that
\* arrives between the two writes, or later, included).
ImplementsRun == Shown!Spec

\* A cancel that is received while a dbt process is in flight decides the
\* verdict: however that process ends, the run is never reported as a success
\* or as an error of its own (_run_steps looks at the flag before the exit
\* code, dbt_local.py:168).
CancelDecides == caught /\ finished => status = "cancelled"

\* Once a cancel call has returned, no dbt process is started any more: the
\* flag stops the next step and, if the worker is already past that check, the
\* removed directory makes Popen fail.
NoStartAfterCancel ==
  [][returned => ~(child # "running" /\ child' = "running")]_vars

\* A run reported as a success has had its dbt build exit with code 0.
SuccessMeansBuilt == status = "success" => built

\* When the worker is through, no dbt process is left running, the temporary
\* project is gone and the verdict is set, whichever way the run ended; only an
\* exception out of the output loop escapes this.
WorkerLeavesNothing ==
  pc = "done" /\ ~raised => child # "running" /\ ~dir /\ finished

\* A terminate that reaches a live dbt process ends the run: the worker gets
\* through to its cleanup.
TerminateEndsRun == signalled ~> pc = "done"

\* "Per-model results come from target/run_results.json" (dbt_local.py:13): a
\* run shown as a success shows the models dbt built. Not so when a cancel
\* removes the project between the last look at the flag and the parse.
SuccessShowsModels == status = "success" => models = "ok"
=============================================================================
