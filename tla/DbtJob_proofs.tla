---------------------------- MODULE DbtJob_proofs ----------------------------
(***************************************************************************)
(* Proofs about DbtJob: the worker implements DbtRun, a cancel received in *)
(* flight decides the verdict, no dbt process starts after a cancel has    *)
(* returned, a success is a built project, the worker leaves nothing       *)
(* behind. All of them for any log limit and any amount of output.         *)
(***************************************************************************)
EXTENDS DbtJob, TLAPS

\* The Boolean part of TypeOK, in a step of its own where it is disturbed.
FlagsOK ==
  /\ hasDeps \in BOOLEAN
  /\ finished \in BOOLEAN /\ ended \in BOOLEAN /\ cancelled \in BOOLEAN
  /\ signalled \in BOOLEAN
  /\ dir \in BOOLEAN
  /\ raised \in BOOLEAN /\ caught \in BOOLEAN
  /\ returned \in BOOLEAN /\ built \in BOOLEAN

\* Between two children no process runs and no handle is registered.
Idle == pc \in {"resolve", "check", "spawn"} => child # "running"

\* Before the verdict the job is as start_dbt_run made it, except that its
\* model results are out for the last step before the verdict.
Unsettled ==
  /\ status = "running" <=> ~finished
  /\ ~finished /\ pc \notin {"failed", "publish"} => models = "none"

\* The verdict is out exactly when the worker is past its loop, unless an
\* exception got it there.
Phase ==
  /\ finished => pc \in {"explain", "cleanup", "done"}
  /\ pc \in {"explain", "cleanup", "done"} => finished \/ raised
  /\ pc = "explain" => child # "running"
  /\ pc \in {"cleanup", "done"} /\ ~raised => child # "running"
  /\ raised => pc \in {"cleanup", "done"} /\ ~finished

\* While a step is waited for, its child exists; after the wait it has exited.
Waiting ==
  /\ pc \in {"register", "stream"} => child # "none"
  /\ pc \in {"after", "failed"} => child \in {"ok", "failed"}

\* What dbt build's exit code was is known until the next child starts.
Build ==
  /\ child = "ok" /\ step = "build" /\ pc \in {"stream", "register", "after"}
       => built
  /\ pc \in {"results", "publish"} => built /\ child # "running"
  /\ status = "success" => built

\* A flag set in flight is found by the check after the step.
Caught ==
  /\ caught => cancelled
  /\ caught => \/ pc \in {"register", "stream", "after"}
               \/ status = "cancelled"
               \/ raised

\* After a cancel has returned, a worker that is about to start a child finds
\* the directory gone.
Returned ==
  /\ returned => cancelled
  /\ canceller # "idle" => cancelled
  /\ returned /\ pc = "spawn" => ~dir

DirGone == pc = "done" /\ ~raised => ~dir

IInv ==
  /\ TypeOK
  /\ Idle
  /\ Unsettled
  /\ Phase
  /\ Waiting
  /\ Build
  /\ Caught
  /\ Returned
  /\ DirGone

-----------------------------------------------------------------------------

THEOREM InitIInv == Init => IInv
  <1> SUFFICES ASSUME Init
               PROVE  IInv
    OBVIOUS
  <1> USE LogAssumption DEF Init, DbtSteps, NoProc
  <1>1. TypeOK
    <2>1. FlagsOK
      BY Zenon DEF FlagsOK
    <2> QED
      BY <2>1 DEF TypeOK, FlagsOK
  <1>2. Idle
    BY DEF Idle
  <1>3. Unsettled
    BY DEF Unsettled
  <1>4. Phase
    BY DEF Phase
  <1>5. Waiting
    BY DEF Waiting
  <1>6. Build
    BY DEF Build
  <1>7. Caught
    BY DEF Caught
  <1>8. Returned
    BY DEF Returned
  <1>9. DirGone
    BY DEF DirGone
  <1> QED
    BY <1>1, <1>2, <1>3, <1>4, <1>5, <1>6, <1>7, <1>8, <1>9 DEF IInv

\* Each action of the worker, of dbt and of the cancel handler preserves the
\* invariant.
THEOREM NextIInv == IInv /\ [Next]_vars => IInv'
  <1> SUFFICES ASSUME IInv, [Next]_vars
               PROVE  IInv'
    OBVIOUS
  <1> USE LogAssumption
      DEF IInv, TypeOK, Idle, Unsettled, Phase, Waiting, Build, Caught,
          Returned, DirGone, DbtSteps, NoProc, job, log, disk, handler, history
  <1>1. CASE DbtMissing
    BY <1>1 DEF DbtMissing, Conclude
  <1>2. CASE ExplainMissing
    BY <1>2 DEF ExplainMissing, AppendLog
  <1>3. CASE DbtFound
    BY <1>3 DEF DbtFound
  <1>4. CASE StopBeforeStep
    BY <1>4 DEF StopBeforeStep, Conclude
  <1>5. CASE AnnounceStep
    BY <1>5 DEF AnnounceStep, AppendLog
  <1>6. CASE Spawn
    <2>1. TypeOK'
      <3>1. FlagsOK'
        BY <1>6, Zenon DEF Spawn, FlagsOK
      <3> QED
        BY <1>6, <3>1 DEF Spawn, FlagsOK
    <2>2. Idle'
      BY <1>6 DEF Spawn
    <2>3. Unsettled'
      BY <1>6 DEF Spawn
    <2>4. Phase'
      BY <1>6 DEF Spawn
    <2>5. Waiting'
      BY <1>6 DEF Spawn
    <2>6. Build'
      BY <1>6 DEF Spawn
    <2>7. Caught'
      BY <1>6 DEF Spawn
    <2>8. Returned'
      BY <1>6 DEF Spawn
    <2>9. DirGone'
      BY <1>6 DEF Spawn
    <2> QED
      BY <2>1, <2>2, <2>3, <2>4, <2>5, <2>6, <2>7, <2>8, <2>9
  <1>7. CASE SpawnFails
    BY <1>7 DEF SpawnFails, Conclude
  <1>8. CASE Register
    BY <1>8 DEF Register
  <1>9. CASE Reap
    BY <1>9 DEF Reap
  <1>10. CASE StopAfterStep
    BY <1>10 DEF StopAfterStep, Conclude
  <1>11. CASE StepFailed
    BY <1>11 DEF StepFailed, ParsedResults
  <1>12. CASE StepPassed
    BY <1>12 DEF StepPassed, NextStep
  <1>13. CASE PublishResults
    BY <1>13 DEF PublishResults, ParsedResults
  <1>14. CASE Cleanup
    <2>1. TypeOK'
      <3>1. FlagsOK'
        BY <1>14, Zenon DEF Cleanup, RemoveDir, FlagsOK
      <3> QED
        BY <1>14, <3>1 DEF Cleanup, RemoveDir, FlagsOK
    <2>2. Idle'
      BY <1>14 DEF Cleanup, RemoveDir
    <2>3. Unsettled'
      BY <1>14 DEF Cleanup, RemoveDir
    <2>4. Phase'
      BY <1>14 DEF Cleanup, RemoveDir
    <2>5. Waiting'
      BY <1>14 DEF Cleanup, RemoveDir
    <2>6. Build'
      BY <1>14 DEF Cleanup, RemoveDir
    <2>7. Caught'
      BY <1>14 DEF Cleanup, RemoveDir
    <2>8. Returned'
      BY <1>14 DEF Cleanup, RemoveDir
    <2>9. DirGone'
      BY <1>14 DEF Cleanup, RemoveDir
    <2> QED
      BY <2>1, <2>2, <2>3, <2>4, <2>5, <2>6, <2>7, <2>8, <2>9
  <1>15. CASE Stream
    BY <1>15 DEF Stream, AppendLog
  <1>16. CASE StreamRaises
    BY <1>16 DEF StreamRaises
  <1>17. CASE ChildWrites
    BY <1>17 DEF ChildWrites
  <1>18. CASE ChildExits
    <2>1. TypeOK'
      <3>1. FlagsOK'
        BY <1>18, Zenon DEF ChildExits, FlagsOK
      <3> QED
        BY <1>18, <3>1 DEF ChildExits, FlagsOK
    <2>2. Idle'
      BY <1>18 DEF ChildExits
    <2>3. Unsettled'
      BY <1>18 DEF ChildExits
    <2>4. Phase'
      BY <1>18 DEF ChildExits
    <2>5. Waiting'
      BY <1>18 DEF ChildExits
    <2>6. Build'
      BY <1>18 DEF ChildExits
    <2>7. Caught'
      BY <1>18 DEF ChildExits
    <2>8. Returned'
      BY <1>18 DEF ChildExits
    <2>9. DirGone'
      BY <1>18 DEF ChildExits
    <2> QED
      BY <2>1, <2>2, <2>3, <2>4, <2>5, <2>6, <2>7, <2>8, <2>9
  <1>19. CASE CancelFlag
    BY <1>19 DEF CancelFlag
  <1>20. CASE CancelReadProc
    BY <1>20 DEF CancelReadProc
  <1>21. CASE CancelTerminate
    BY <1>21 DEF CancelTerminate
  <1>22. CASE CancelRemoveDir
    <2>1. TypeOK'
      <3>1. FlagsOK'
        BY <1>22, Zenon DEF CancelRemoveDir, RemoveDir, FlagsOK
      <3> QED
        BY <1>22, <3>1 DEF CancelRemoveDir, RemoveDir, FlagsOK
    <2>2. Idle'
      BY <1>22 DEF CancelRemoveDir, RemoveDir
    <2>3. Unsettled'
      BY <1>22 DEF CancelRemoveDir, RemoveDir
    <2>4. Phase'
      BY <1>22 DEF CancelRemoveDir, RemoveDir
    <2>5. Waiting'
      BY <1>22 DEF CancelRemoveDir, RemoveDir
    <2>6. Build'
      BY <1>22 DEF CancelRemoveDir, RemoveDir
    <2>7. Caught'
      BY <1>22 DEF CancelRemoveDir, RemoveDir
    <2>8. Returned'
      BY <1>22 DEF CancelRemoveDir, RemoveDir
    <2>9. DirGone'
      BY <1>22 DEF CancelRemoveDir, RemoveDir
    <2> QED
      BY <2>1, <2>2, <2>3, <2>4, <2>5, <2>6, <2>7, <2>8, <2>9
  <1>23. CASE ConcludeFailed
    BY <1>23 DEF ConcludeFailed, Conclude
  <1>24. CASE ConcludeBuild
    BY <1>24 DEF ConcludeBuild, Conclude
  <1>25. CASE UNCHANGED vars
    BY <1>25 DEF vars
  <1> QED
    BY <1>1, <1>2, <1>3, <1>4, <1>5, <1>6, <1>7, <1>8, <1>9, <1>10, <1>11, <1>12, <1>13, <1>14, <1>15, <1>16, <1>17, <1>18, <1>19, <1>20, <1>21, <1>22, <1>23, <1>24, <1>25
    DEF Next, Worker, WorkerProgress, Canceller

THEOREM Inductive == Spec => []IInv
  <1>1. IInv /\ UNCHANGED vars => IInv'
    BY NextIInv
  <1> QED
    BY InitIInv, NextIInv, PTL DEF Spec

-----------------------------------------------------------------------------

\* The variables of DbtJob have their types; in particular the log list never
\* exceeds _MAX_LOG_LINES, however much dbt prints (_append_log).
THEOREM TypeCorrect == Spec => []TypeOK
  <1>1. IInv => TypeOK
    BY DEF IInv
  <1> QED
    BY <1>1, Inductive, PTL

\* A cancel received while a dbt process is in flight decides the verdict.
THEOREM CancelDecidesAlways == Spec => []CancelDecides
  <1>1. IInv => CancelDecides
    BY DEF IInv, Caught, Phase, CancelDecides
  <1> QED
    BY <1>1, Inductive, PTL

\* A run reported as a success is one whose dbt build exited with code 0.
THEOREM SuccessMeansBuiltAlways == Spec => []SuccessMeansBuilt
  <1>1. IInv => SuccessMeansBuilt
    BY DEF IInv, Build, SuccessMeansBuilt
  <1> QED
    BY <1>1, Inductive, PTL

\* A worker that is through leaves no process and no directory behind, and a
\* verdict, unless an exception ended it.
THEOREM WorkerLeavesNothingAlways == Spec => []WorkerLeavesNothing
  <1>1. IInv => WorkerLeavesNothing
    BY DEF IInv, Phase, DirGone, WorkerLeavesNothing
  <1> QED
    BY <1>1, Inductive, PTL

\* No dbt process is started once a cancel call has returned: only Spawn starts
\* one, and it needs the directory the cancel removed.
THEOREM NoStartAfterCancelAlways == Spec => NoStartAfterCancel
  <1>1. IInv /\ [Next]_vars
          => [returned => ~(child # "running" /\ child' = "running")]_vars
    <2> SUFFICES ASSUME IInv, [Next]_vars, returned, child # "running",
                        child' = "running"
                 PROVE  FALSE
      OBVIOUS
    <2>1. Spawn
      BY DEF Next, Worker, WorkerProgress, Canceller, vars, DbtMissing,
             ExplainMissing, DbtFound, StopBeforeStep, AnnounceStep, SpawnFails,
             Register, Reap, StopAfterStep, StepFailed, ConcludeFailed,
             StepPassed, PublishResults, ConcludeBuild, Cleanup, Stream, StreamRaises, ChildWrites,
             ChildExits, CancelFlag, CancelReadProc, CancelTerminate,
             CancelRemoveDir
    <2> QED
      BY <2>1 DEF Spawn, IInv, Returned
  <1> QED
    BY <1>1, Inductive, PTL DEF Spec, NoStartAfterCancel

-----------------------------------------------------------------------------
(* The refinement: a step of the worker that sets job["models"] is DbtRun's    *)
(* Report, one that sets the verdict its Conclude, one that logs its LogLine,  *)
(* and every other step stutters.                                              *)

\* The initial states of DbtJob are initial states of DbtRun.
THEOREM InitRefines == Init => Shown!Init
  BY DEF Init, Shown!Init

\* What each action does to the variables DbtRun sees.
LEMMA ReportingSteps ==
  ASSUME IInv, StepFailed \/ PublishResults
  PROVE  Shown!Report
  <1>1. ~finished /\ models = "none"
    BY DEF IInv, Phase, Unsettled, StepFailed, PublishResults
  <1>2. models' \in Shown!Reports
    BY DEF Shown!Reports, IInv, TypeOK, StepFailed, PublishResults,
           ParsedResults
  <1> QED
    BY <1>1, <1>2 DEF Shown!Report, StepFailed, PublishResults, log

LEMMA ConcludingSteps ==
  ASSUME IInv,
         \/ DbtMissing \/ StopBeforeStep \/ SpawnFails \/ StopAfterStep
         \/ ConcludeFailed \/ ConcludeBuild
  PROVE  Shown!Conclude
  <1>1. ~finished
    BY DEF IInv, Phase, DbtMissing, StopBeforeStep, SpawnFails, StopAfterStep,
           ConcludeFailed, ConcludeBuild
  <1>2. /\ finished' /\ status' \in Shown!Verdicts
        /\ models' = models /\ printed' = printed
    BY DEF Shown!Verdicts, DbtMissing, StopBeforeStep, SpawnFails,
           StopAfterStep, ConcludeFailed, ConcludeBuild, Conclude, log
  <1>3. /\ models = "failed" => status' = "error"
        /\ status' = "cancelled" => models = "none"
    BY <1>1 DEF IInv, Unsettled, DbtMissing, StopBeforeStep, SpawnFails,
                StopAfterStep, ConcludeFailed, ConcludeBuild, Conclude
  <1> QED
    BY <1>1, <1>2, <1>3
    DEF Shown!Conclude, DbtMissing, StopBeforeStep, SpawnFails, StopAfterStep,
        ConcludeFailed, ConcludeBuild, Conclude

LEMMA LoggingSteps ==
  ASSUME ExplainMissing \/ AnnounceStep \/ Stream
  PROVE  Shown!LogLine
  BY DEF ExplainMissing, AnnounceStep, Stream, AppendLog, Shown!LogLine, job

LEMMA OtherSteps ==
  ASSUME \/ DbtFound \/ Spawn \/ Register \/ Reap \/ StepPassed \/ Cleanup
         \/ StreamRaises \/ ChildWrites \/ ChildExits \/ CancelFlag
         \/ Canceller \/ UNCHANGED vars
  PROVE  UNCHANGED Shown!vars
  BY DEF DbtFound, Spawn, Register, Reap, StepPassed, Cleanup, StreamRaises,
         ChildWrites, ChildExits, CancelFlag, Canceller, CancelReadProc,
         CancelTerminate, CancelRemoveDir, vars, job, log, Shown!vars

\* DbtJob implements DbtRun: model results appear once and before the verdict,
\* which agrees with them; there is one verdict per run, and neither it nor the
\* results change once it is out, also under cancels at any moment.
THEOREM Refinement == Spec => ImplementsRun
  <1>1. IInv /\ [Next]_vars => [Shown!Next]_(Shown!vars)
    BY ReportingSteps, ConcludingSteps, LoggingSteps, OtherSteps
    DEF Next, Worker, WorkerProgress, Shown!Next
  <1> QED
    BY <1>1, InitRefines, Inductive, PTL DEF Spec, ImplementsRun, Shown!Spec
=============================================================================
