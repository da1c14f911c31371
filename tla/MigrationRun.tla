---------------------------- MODULE MigrationRun ----------------------------
(***************************************************************************)
(* The Automated migration page (frontend/src/pages/snowflake-glue-run.js) *)
(* over the store every page shares (frontend/src/store.js): the two async *)
(* functions startRun and continueRun, cut at each await, the module-level *)
(* stage and abortCtl they share, and the container each of them captured, *)
(* which a re-render of the application replaces.  Beside them the manual  *)
(* pages convert, build and verify over the same store keys.               *)
(*                                                                         *)
(* A conversion is its number, and a result is the conversion it is about. *)
(* Lineage, selection and source material only feed the conversions, and   *)
(* are left out.  What an HTTP endpoint does is chosen among its possible  *)
(* answers; that of POST /build is ModelBuild.                             *)
(***************************************************************************)
EXTENDS Naturals

CONSTANTS
  Runs,           \* bound: the clicks on "Run migration"
  NoRun,          \* abortCtl = null
  MaxConversions  \* bound: conversions made

ASSUME MigrationAssumption ==
  NoRun \notin Runs /\ MaxConversions \in Nat

VARIABLES
  stage, ctl, aborted,                   \* stage; the run that made abortCtl; signals aborted
  page, start, box, drawn, mounted,      \* what the user sees
  pc, mine,                              \* the runs and what their frames hold
  conv, build, recon,                    \* the store
  warehouse,                             \* the conversion whose build wrote last
  manual,                                \* the manual pages' call in flight
  made,                                  \* conversions so far
  approved, crossed                      \* history: see Continue and Crosses

moduleVars == <<stage, ctl, aborted>>
viewVars == <<page, start, box, drawn, mounted>>
resultVars == <<build, recon, warehouse>>
storeVars == <<conv, resultVars>>
historyVars == <<approved, crossed>>
vars == <<moduleVars, viewVars, pc, mine, storeVars, manual, made,
          historyVars>>

NoConv == 0
AnyConv == NoConv..MaxConversions

FirstPart == {"lineage", "review", "convert"}
SecondPart == {"precheck", "build", "reconcile", "push", "orchestrate", "workflow"}
Ended == {"done", "failed"}

Running(r) == pc[r] \in FirstPart \cup SecondPart

NoCall == [op |-> "none", conv |-> NoConv]

\* What a run keeps across its awaits: the abort signal it converts with, the
\* conversion its request is about, and whether it verified.
NoFrame == [signal |-> NoRun, conv |-> NoConv, verified |-> FALSE]

TypeOK ==
  /\ stage \in {"idle", "running1", "checkpoint", "running2", "done"}
  /\ ctl \in Runs \cup {NoRun} /\ aborted \subseteq Runs
  /\ page \in {"run", "other"} /\ start \in BOOLEAN
  /\ box \in {"none", "checkpoint", "done"} /\ drawn \in AnyConv
  /\ mounted \subseteq Runs
  /\ pc \in [Runs -> {"idle", "paused"} \cup FirstPart \cup SecondPart \cup Ended]
  /\ mine \in [Runs -> [signal : Runs \cup {NoRun}, conv : AnyConv,
                        verified : BOOLEAN]]
  /\ \A r \in Runs : pc[r] = "convert" => mine[r].signal # NoRun
  /\ {conv, build, recon, warehouse} \subseteq AnyConv
  /\ manual \in [op : {"none", "convert", "build", "recon"}, conv : AnyConv]
  /\ made \in 0..MaxConversions
  /\ approved \subseteq AnyConv /\ crossed \subseteq Runs

Init ==
  /\ stage = "idle" /\ ctl = NoRun /\ aborted = {}
  /\ page = "run" /\ start = TRUE /\ box = "none" /\ drawn = NoConv /\ mounted = {}
  /\ pc = [r \in Runs |-> "idle"]
  /\ mine = [r \in Runs |-> NoFrame]
  /\ conv = NoConv /\ build = NoConv /\ recon = NoConv /\ warehouse = NoConv
  /\ manual = NoCall /\ made = 0
  /\ approved = {} /\ crossed = {}

-----------------------------------------------------------------------------
(* The view. *)

\* renderSfGlueRunPage with the stage and conversion it reads: a new container,
\* so no run holds the visible one, with the Start button and the box of the
\* stage.
RenderRunPage(st, c) ==
  /\ start' = TRUE /\ mounted' = {}
  /\ box' = IF st \in {"checkpoint", "done"} THEN st ELSE "none"
  /\ drawn' = IF st = "checkpoint" THEN c ELSE NoConv

\* Mutant of Rerender: the store is mutated without notifying.
Rerender_Never(c) == UNCHANGED viewVars

\* store.set and navigate notify main.js, which renders the current page again.
Rerender(c) ==
  /\ page' = page
  /\ IF page = "run" THEN RenderRunPage(stage, c)
                     ELSE UNCHANGED <<start, box, drawn, mounted>>

LeavePage ==
  /\ page = "run" /\ page' = "other"
  /\ mounted' = {} /\ start' = FALSE /\ box' = "none" /\ drawn' = NoConv
  /\ UNCHANGED <<moduleVars, pc, mine, storeVars, manual, made, historyVars>>

OpenPage ==
  /\ page = "other" /\ page' = "run" /\ RenderRunPage(stage, conv)
  /\ UNCHANGED <<moduleVars, pc, mine, storeVars, manual, made, historyVars>>

\* setBusyUI, seen only by the user whose container it is.
ShowStart(r, shown) == start' = IF r \in mounted THEN shown ELSE start
DrawBox(r, b, c) ==
  /\ box' = IF r \in mounted THEN b ELSE box
  /\ drawn' = IF r \in mounted THEN c ELSE drawn

\* History: the store or the warehouse moved under the runs past their checkpoint.
Crosses(r) == crossed' = crossed \cup {s \in Runs \ {r} : pc[s] \in SecondPart}

Advance(r, to) == pc' = [pc EXCEPT ![r] = to]

\* Mutant of RunError: setBusyUI(false) is forgotten.
RunError_StaysBusy(r) ==
  /\ Advance(r, "failed")
  /\ mine' = [mine EXCEPT ![r] = NoFrame]
  /\ UNCHANGED <<moduleVars, viewVars>>

\* onRunError: the function ends, stage stays as it is.
RunError(r) ==
  /\ Advance(r, "failed") /\ ShowStart(r, TRUE)
  /\ mine' = [mine EXCEPT ![r] = NoFrame]
  /\ UNCHANGED <<moduleVars, page, box, drawn, mounted>>

-----------------------------------------------------------------------------
(* startRun. *)

\* Mutant of Start: the controller of the run before is kept.
Start_OldController(r) ==
  /\ page = "run" /\ start /\ pc[r] = "idle"
  /\ stage' = "running1" /\ ctl' = IF ctl = NoRun THEN r ELSE ctl
  /\ start' = FALSE /\ box' = "none" /\ drawn' = NoConv
  /\ mounted' = mounted \cup {r}
  /\ Advance(r, "lineage")
  /\ UNCHANGED <<aborted, page, mine, storeVars, manual, made, historyVars>>

\* Run migration, with a source connected and a destination set.
\* guardBeforeStart; resetRun; a controller of its own; the lineage request.
Start(r) ==
  /\ page = "run" /\ start /\ pc[r] = "idle"
  /\ stage' = "running1" /\ ctl' = r
  /\ start' = FALSE /\ box' = "none" /\ drawn' = NoConv
  /\ mounted' = mounted \cup {r}
  /\ Advance(r, "lineage")
  /\ UNCHANGED <<aborted, page, mine, storeVars, manual, made, historyVars>>

\* The lineage of the store is replaced, its results stay.  Without a Snowflake
\* table in it the run ends: FirstPartFailed.
LineageAnswered(r) ==
  /\ pc[r] = "lineage" /\ Advance(r, "review")
  /\ UNCHANGED <<moduleVars, viewVars, mine, storeVars, manual, made, historyVars>>

\* The convert request takes abortCtl.signal: the controller of the newest
\* start, or a TypeError when "Run again" has nulled it.
ReviewAnswered(r) ==
  /\ pc[r] = "review"
  /\ IF ctl = NoRun THEN RunError(r)
     ELSE /\ mine' = [mine EXCEPT ![r].signal = ctl]
          /\ Advance(r, "convert") /\ UNCHANGED <<moduleVars, viewVars>>
  /\ UNCHANGED <<storeVars, manual, made, historyVars>>

\* The checkpoint, or the rest of the run at once when hands-free is ticked.
ConvertAnswered(r) ==
  /\ pc[r] = "convert" /\ mine[r].signal \notin aborted /\ made < MaxConversions
  /\ conv' = made + 1 /\ made' = made + 1
  /\ \/ /\ stage' = "checkpoint" /\ Advance(r, "paused")
        /\ ShowStart(r, TRUE) /\ DrawBox(r, "checkpoint", conv')
        /\ Crosses(r) /\ UNCHANGED approved
     \/ /\ stage' = "running2" /\ Advance(r, "precheck")
        /\ ShowStart(r, FALSE) /\ DrawBox(r, "none", NoConv)
        /\ approved' = approved \cup {conv'}
        /\ crossed' = (crossed \ {r})
                        \cup {s \in Runs \ {r} : pc[s] \in SecondPart}
  /\ mine' = [mine EXCEPT ![r] = NoFrame]
  /\ UNCHANGED <<ctl, aborted, page, mounted, resultVars, manual>>

\* An endpoint failed, or Stop aborted the fetch.
FirstPartFailed(r) ==
  /\ pc[r] \in FirstPart /\ RunError(r)
  /\ UNCHANGED <<storeVars, manual, made, historyVars>>

\* Stop, shown while Start is not.
Stop ==
  /\ page = "run" /\ ~start /\ ctl # NoRun
  /\ aborted' = aborted \cup {ctl}
  /\ UNCHANGED <<stage, ctl, viewVars, pc, mine, storeVars, manual, made,
                 historyVars>>

-----------------------------------------------------------------------------
(* continueRun. *)

\* Continue -> Build & Reconcile, under the counts of the drawn conversion.
Continue(r) ==
  /\ page = "run" /\ box = "checkpoint" /\ pc[r] = "paused"
  /\ stage' = "running2" /\ start' = FALSE /\ box' = "none" /\ drawn' = NoConv
  /\ mounted' = mounted \cup {r}
  /\ Advance(r, "precheck")
  /\ approved' = approved \cup ({drawn} \ {NoConv})
  /\ crossed' = IF drawn = conv THEN crossed \ {r} ELSE crossed \cup {r}
  /\ UNCHANGED <<ctl, aborted, page, mine, storeVars, manual, made>>

\* The precheck is advisory: answered or failed, the build follows, of the
\* models the store holds by then.
PrecheckAnswered(r) ==
  /\ pc[r] = "precheck"
  /\ mine' = [mine EXCEPT ![r].conv = conv]
  /\ Advance(r, "build")
  /\ UNCHANGED <<moduleVars, viewVars, storeVars, manual, made, historyVars>>

\* Mutant of BuildAnswered: the answer is not stored.
BuildAnswered_NotStored(r) ==
  /\ pc[r] = "build" /\ mine[r].conv # NoConv
  /\ warehouse' = mine[r].conv
  /\ Advance(r, "reconcile") /\ mine' = [mine EXCEPT ![r].conv = conv]
  /\ Crosses(r)
  /\ UNCHANGED <<moduleVars, viewVars, conv, build, recon, manual, made, approved>>

\* The pairs to verify are those of the conversion the store holds by then.
BuildAnswered(r) ==
  /\ pc[r] = "build" /\ mine[r].conv # NoConv
  /\ build' = mine[r].conv /\ warehouse' = mine[r].conv
  /\ \/ /\ conv # NoConv /\ Advance(r, "reconcile")
        /\ mine' = [mine EXCEPT ![r].conv = conv]
     \/ /\ Advance(r, "push")                 \* no tables to verify
        /\ mine' = [mine EXCEPT ![r] = NoFrame]
  /\ Crosses(r)
  /\ UNCHANGED <<moduleVars, viewVars, conv, recon, manual, made,
                 approved>>

\* A request without models is refused; a lost answer may hide a build.
BuildFailed(r) ==
  /\ pc[r] = "build" /\ RunError(r)
  /\ \/ UNCHANGED <<warehouse, crossed>>
     \/ mine[r].conv # NoConv /\ warehouse' = mine[r].conv /\ Crosses(r)
  /\ UNCHANGED <<conv, build, recon, manual, made, approved>>

ReconcileAnswered(r) ==
  /\ pc[r] = "reconcile"
  /\ recon' = mine[r].conv
  /\ mine' = [mine EXCEPT ![r] = [NoFrame EXCEPT !.verified = TRUE]]
  /\ Advance(r, "push") /\ Crosses(r)
  /\ UNCHANGED <<moduleVars, viewVars, conv, build, warehouse, manual, made,
                 approved>>

ReconcileFailed(r) ==
  /\ pc[r] = "reconcile" /\ RunError(r)
  /\ UNCHANGED <<storeVars, manual, made, historyVars>>

\* stage, Start and the box, whoever else is running.
Finish(r) ==
  /\ stage' = "done" /\ Advance(r, "done")
  /\ ShowStart(r, TRUE) /\ DrawBox(r, "done", NoConv)
  /\ mine' = [mine EXCEPT ![r] = NoFrame]
  /\ UNCHANGED <<ctl, aborted, page, mounted>>

\* Push, orchestrate and the verification run: an error marks the phase and
\* the run goes on, and the job runs only when it was pushed and deployed.
PushAnswered(r) ==
  /\ pc[r] = "push"
  /\ Advance(r, "orchestrate")
  /\ UNCHANGED <<moduleVars, viewVars, mine, storeVars, manual, made,
                 historyVars>>

OrchestrateAnswered(r) ==
  /\ pc[r] = "orchestrate"
  /\ \/ Advance(r, "workflow") /\ UNCHANGED <<moduleVars, viewVars, mine>>
     \/ Finish(r)                              \* skipped
  /\ UNCHANGED <<storeVars, manual, made, historyVars>>

WorkflowAnswered(r) ==
  /\ pc[r] = "workflow" /\ Finish(r)
  /\ UNCHANGED <<storeVars, manual, made, historyVars>>

\* Run again, in the box of a finished run.
RunAgain ==
  /\ page = "run" /\ box = "done"
  /\ stage' = "idle" /\ ctl' = NoRun
  /\ page' = "run" /\ RenderRunPage("idle", conv)
  /\ UNCHANGED <<aborted, pc, mine, storeVars, manual, made, historyVars>>

-----------------------------------------------------------------------------
(* The other pages. *)

\* Another database or schema on the Connect page: patchSfGlueConfig with
\* invalidateLineage drops the analysis, the conversion and the results.
ChangeDatabase ==
  /\ page = "other"
  /\ conv' = NoConv /\ build' = NoConv /\ recon' = NoConv
  /\ crossed' = crossed \cup {s \in Runs : pc[s] \in SecondPart}
  /\ UNCHANGED <<moduleVars, viewVars, pc, mine, warehouse, manual, made, approved>>

\* Generate conversion, Build and Verify all: what each sends is read at the
\* click.  Bound: one such call is in flight at a time.
ManualCall(op, c) ==
  /\ page = "other" /\ manual = NoCall
  /\ manual' = [op |-> op, conv |-> c]
  /\ UNCHANGED <<moduleVars, viewVars, pc, mine, storeVars, made, historyVars>>

ManualConvert == made < MaxConversions /\ ManualCall("convert", NoConv)
ManualBuild == conv # NoConv /\ ManualCall("build", conv)
ManualReconcile == conv # NoConv /\ build # NoConv /\ ManualCall("recon", conv)

\* The answer is stored under its key, whatever was stored meanwhile.
ManualAnswered ==
  /\ manual # NoCall /\ manual' = NoCall
  /\ \/ /\ manual.op = "convert" /\ made < MaxConversions
        /\ conv' = made + 1 /\ made' = made + 1
        /\ UNCHANGED resultVars
     \/ /\ manual.op = "build" /\ build' = manual.conv /\ warehouse' = manual.conv
        /\ UNCHANGED <<conv, made, recon>>
     \/ /\ manual.op = "recon" /\ recon' = manual.conv
        /\ UNCHANGED <<conv, made, build, warehouse>>
  /\ Rerender(conv')
  /\ crossed' = crossed \cup {s \in Runs : pc[s] \in SecondPart}
  /\ UNCHANGED <<moduleVars, pc, mine, approved>>

\* A failed Build is stored as { error }, and may have built.
ManualFailed ==
  /\ manual # NoCall /\ manual' = NoCall /\ Rerender(conv)
  /\ \/ manual.op # "build" /\ UNCHANGED <<build, warehouse, crossed>>
     \/ /\ manual.op = "build" /\ build' = NoConv
        /\ warehouse' \in {warehouse, manual.conv}
        /\ crossed' = crossed \cup {s \in Runs : pc[s] \in SecondPart}
  /\ UNCHANGED <<moduleVars, pc, mine, conv, recon, made, approved>>

-----------------------------------------------------------------------------
\* The continuation of an await of run r.
Answered(r) ==
  \/ LineageAnswered(r) \/ ReviewAnswered(r) \/ ConvertAnswered(r)
  \/ FirstPartFailed(r) \/ PrecheckAnswered(r)
  \/ BuildAnswered(r) \/ BuildFailed(r)
  \/ ReconcileAnswered(r) \/ ReconcileFailed(r)
  \/ PushAnswered(r) \/ OrchestrateAnswered(r) \/ WorkflowAnswered(r)

User ==
  \/ LeavePage \/ OpenPage \/ Stop \/ RunAgain
  \/ \E r \in Runs : Start(r) \/ Continue(r)
  \/ ChangeDatabase \/ ManualConvert \/ ManualBuild \/ ManualReconcile

Next ==
  \/ User
  \/ \E r \in Runs : Answered(r)
  \/ ManualAnswered \/ ManualFailed

Spec == Init /\ [][Next]_vars

-----------------------------------------------------------------------------
(* Properties. *)

\* Up to its checkpoint, Stop is for the run in the visible container: a click
\* aborts the controller of that run, the convert request waits on its signal
\* (or will, and then fails at once), and Start is hidden, so no second run
\* takes the controller over.  This is all that Stop does: the requests before
\* the conversion and those of continueRun are made without a signal, and a
\* click on Stop during them aborts none of them.
StopReachesItsRun ==
  \A r \in mounted : pc[r] \in FirstPart =>
    ~start /\ ctl = r /\ (pc[r] = "convert" => mine[r].signal = r)

\* The page is never stuck: while it hides "Run migration" a run is going on
\* in the visible container, whose end, error or checkpoint shows it again.
NeverStuck ==
  page = "run" /\ ~start => \E r \in mounted : Running(r)

\* A run that nothing else wrote across, from its checkpoint to its end, leaves
\* one conversion everywhere: approved, built, held by the warehouse and the
\* store, and the one its reconciliation is about, if it had tables to verify.
LoneRunIsConsistent ==
  [][\A r \in Runs \ crossed : pc[r] # "done" /\ pc'[r] = "done" =>
       /\ build = conv /\ warehouse = conv /\ conv \in approved
       /\ mine[r].verified => recon = conv]_vars

\* A run paused at its checkpoint, the only one started, keeps it: the next
\* render offers Continue, and a Continue on the screen is always drawn over the
\* conversion the store holds, whatever was converted, built or dropped
\* meanwhile.  (The page that was opened again while the run converted shows
\* nothing until the next render: the box goes to the container it left.)
PausedRunIsKept ==
  \A r \in Runs :
    pc[r] = "paused" /\ (\A s \in Runs \ {r} : pc[s] = "idle") =>
      stage = "checkpoint" /\ (box = "checkpoint" => drawn = conv)

\* Stated by the head of run.js, and not so: every conversion a run builds into
\* the catalog was approved at the checkpoint or by hands-free.
BuildIsReviewed ==
  \A r \in Runs : pc[r] = "build" => mine[r].conv \in approved \cup {NoConv}

\* Stated by store.js of sfGlueResultDefaults, and not so: a new run never
\* inherits the outcome of a prior one, when it shows its conversion for review.
\* (With the manual pages unused, each build and reconciliation in the store is
\* a run's.)
OutcomesOfThisRun ==
  drawn # NoConv => {build, recon} \subseteq {NoConv, drawn}
=============================================================================
