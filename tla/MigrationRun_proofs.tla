------------------------ MODULE MigrationRun_proofs ------------------------
(***************************************************************************)
(* Proofs about the automated migration page, for any number of runs and   *)
(* conversions: Stop reaches a run up to its checkpoint, the page is never *)
(* stuck, a paused run is kept, and a run that nothing crossed leaves one  *)
(* conversion everywhere.                                                  *)
(***************************************************************************)
EXTENDS MigrationRun, TLAPS

\* The states of a run, and what its frame may hold.
States == {"idle", "paused"} \cup FirstPart \cup SecondPart \cup Ended
Frames == [signal : Runs \cup {NoRun}, conv : AnyConv, verified : BOOLEAN]

\* What the run page shows: a run goes on in the visible container only while
\* Start is hidden, alone, and in its first part with its own controller.
View ==
  /\ box # "none" => start
  /\ page = "other" => mounted = {} /\ box = "none"
  /\ \A r \in mounted :
       /\ Running(r) => ~start
       /\ \A s \in mounted : Running(r) /\ Running(s) => r = s
       /\ pc[r] \in FirstPart => ctl = r
       /\ pc[r] = "convert" => mine[r].signal = r
  /\ NeverStuck

\* The only run that was started owns the stage.
Lone(r) == \A s \in Runs \ {r} : pc[s] = "idle"
Owned ==
  \A r \in Runs : Lone(r) =>
    /\ pc[r] \in FirstPart => stage = "running1" /\ box = "none"
    /\ pc[r] = "paused" => /\ stage = "checkpoint" /\ box \in {"none", "checkpoint"}
                           /\ box = "checkpoint" => drawn = conv

\* A run past its checkpoint under which nothing moved works on the conversion of
\* the store, which was approved.
Works(r) ==
  /\ pc[r] \in {"precheck", "build"} => conv \in approved \cup {NoConv}
  /\ pc[r] \in {"build", "reconcile"} => mine[r].conv = conv
  /\ pc[r] \in SecondPart \ {"precheck", "build"} =>
       build = conv /\ warehouse = conv /\ conv \in approved
  /\ pc[r] \in {"push", "orchestrate", "workflow"} /\ mine[r].verified => recon = conv
Uncrossed == \A r \in Runs \ crossed : Works(r)

IInv == TypeOK /\ View /\ Owned /\ Uncrossed

LEMMA InitIInv == Init => IInv
<1>. SUFFICES ASSUME Init PROVE IInv
  OBVIOUS
<1>1. TypeOK
  BY MigrationAssumption DEF Init, TypeOK, AnyConv, NoConv, NoFrame, NoCall, FirstPart, SecondPart, Ended
<1>2. View /\ Owned /\ Uncrossed
  BY DEF Init, View, NeverStuck, Owned, Lone, Uncrossed, Works, FirstPart, SecondPart
<1>. QED
  BY <1>1, <1>2 DEF IInv

-----------------------------------------------------------------------------
(* The types. *)

LEMMA NoConvTyped == NoConv \in AnyConv
BY MigrationAssumption DEF AnyConv, NoConv

LEMMA FrameTyped ==
  /\ NoFrame \in Frames
  /\ \A f \in Frames : /\ \A c \in AnyConv : [f EXCEPT !.conv = c] \in Frames
                       /\ \A q \in Runs : [f EXCEPT !.signal = q] \in Frames /\ [f EXCEPT !.signal = q].signal = q
  /\ [NoFrame EXCEPT !.verified = TRUE] \in Frames
BY NoConvTyped DEF NoFrame, Frames

LEMMA StatesAre ==
  \A st \in {"idle", "paused", "lineage", "review", "convert", "precheck", "build", "reconcile",
             "push", "orchestrate", "workflow", "done", "failed"} : st \in States
BY DEF States, FirstPart, SecondPart, Ended

\* The types of the runs, and of what they share.
RunsTyped ==
  /\ pc \in [Runs -> States] /\ mine \in [Runs -> Frames]
  /\ \A r \in Runs : pc[r] = "convert" => mine[r].signal # NoRun
ViewTyped ==
  /\ stage \in {"idle", "running1", "checkpoint", "running2", "done"}
  /\ ctl \in Runs \cup {NoRun} /\ aborted \subseteq Runs
  /\ page \in {"run", "other"} /\ start \in BOOLEAN
  /\ box \in {"none", "checkpoint", "done"} /\ drawn \in AnyConv
  /\ mounted \subseteq Runs
StoreTyped ==
  /\ conv \in AnyConv /\ build \in AnyConv /\ recon \in AnyConv /\ warehouse \in AnyConv
  /\ manual \in [op : {"none", "convert", "build", "recon"}, conv : AnyConv]
  /\ made \in 0..MaxConversions
  /\ approved \subseteq AnyConv /\ crossed \subseteq Runs

LEMMA TypeParts == TypeOK <=> RunsTyped /\ ViewTyped /\ StoreTyped
<1>1. States = {"idle", "paused"} \cup FirstPart \cup SecondPart \cup Ended
      /\ Frames = [signal : Runs \cup {NoRun}, conv : AnyConv, verified : BOOLEAN]
  BY DEF States, Frames
<1>. QED
  BY <1>1 DEF TypeOK, RunsTyped, ViewTyped, StoreTyped

\* A run that goes on or ends, as every continuation of an await moves it.
LEMMA RunsMove ==
  ASSUME RunsTyped, NEW r \in Runs, NEW st \in States, NEW f \in Frames,
         pc' = [pc EXCEPT ![r] = st], mine' = [mine EXCEPT ![r] = f],
         st = "convert" => f.signal # NoRun
  PROVE  RunsTyped'
BY DEF RunsTyped

LEMMA RunsTypedStep == TypeOK /\ [Next]_vars => RunsTyped'
<1>. SUFFICES ASSUME TypeOK, [Next]_vars PROVE RunsTyped'
  OBVIOUS
<1>0. RunsTyped /\ ViewTyped /\ StoreTyped
  BY TypeParts
<1>1. ASSUME UNCHANGED <<pc, mine>> PROVE RunsTyped'
  BY <1>0, <1>1 DEF RunsTyped
<1>2. ASSUME NEW r \in Runs, NEW st \in States, Advance(r, st), UNCHANGED mine, st # "convert"
      PROVE  RunsTyped'
  BY <1>0, <1>2 DEF RunsTyped, Advance
<1>3. ASSUME NEW r \in Runs, RunError(r) PROVE RunsTyped'
  BY <1>0, <1>3, RunsMove, FrameTyped, StatesAre DEF RunError, Advance
<1>4. ASSUME NEW r \in Runs, Finish(r) PROVE RunsTyped'
  BY <1>0, <1>4, RunsMove, FrameTyped, StatesAre DEF Finish, Advance
<1>5. ASSUME NEW r \in Runs, Start(r) \/ Continue(r) PROVE RunsTyped'
  BY <1>2, <1>5, StatesAre DEF Start, Continue
<1>6. ASSUME NEW r \in Runs, Answered(r) PROVE RunsTyped'
  <2>1. CASE LineageAnswered(r) \/ PushAnswered(r)
    BY <1>2, <2>1, StatesAre DEF LineageAnswered, PushAnswered
  <2>2. CASE ReviewAnswered(r)
    <3>1. CASE ctl = NoRun
      BY <1>3, <2>2, <3>1 DEF ReviewAnswered
    <3>2. CASE ctl # NoRun
      <4>1. ctl \in Runs /\ mine[r] \in Frames
        BY <1>0, <3>2 DEF ViewTyped, RunsTyped
      <4>2. mine' = [mine EXCEPT ![r] = [mine[r] EXCEPT !.signal = ctl]] /\ pc' = [pc EXCEPT ![r] = "convert"]
        BY <1>0, <2>2, <3>2 DEF ReviewAnswered, Advance, RunsTyped
      <4>. QED
        BY <1>0, <4>1, <4>2, <3>2, RunsMove, FrameTyped, StatesAre
    <3>. QED
      BY <3>1, <3>2
  <2>3. CASE ConvertAnswered(r)
    BY <1>0, <2>3, RunsMove, FrameTyped, StatesAre DEF ConvertAnswered, Advance
  <2>4. CASE FirstPartFailed(r) \/ BuildFailed(r) \/ ReconcileFailed(r)
    BY <1>3, <2>4 DEF FirstPartFailed, BuildFailed, ReconcileFailed
  <2>5. CASE PrecheckAnswered(r)
    <3>1. mine' = [mine EXCEPT ![r] = [mine[r] EXCEPT !.conv = conv]] /\ pc' = [pc EXCEPT ![r] = "build"]
      BY <1>0, <2>5 DEF PrecheckAnswered, Advance, RunsTyped
    <3>. QED
      BY <1>0, <3>1, RunsMove, FrameTyped, StatesAre DEF StoreTyped, RunsTyped
  <2>6. CASE BuildAnswered(r)
    <3>1. CASE Advance(r, "reconcile") /\ mine' = [mine EXCEPT ![r].conv = conv]
      <4>1. mine' = [mine EXCEPT ![r] = [mine[r] EXCEPT !.conv = conv]]
        BY <3>1
      <4>. QED
        BY <1>0, <3>1, <4>1, RunsMove, FrameTyped, StatesAre DEF StoreTyped, RunsTyped, Advance
    <3>2. CASE Advance(r, "push") /\ mine' = [mine EXCEPT ![r] = NoFrame]
      BY <1>0, <3>2, RunsMove, FrameTyped, StatesAre DEF Advance
    <3>. QED
      BY <2>6, <3>1, <3>2 DEF BuildAnswered
  <2>7. CASE ReconcileAnswered(r)
    BY <1>0, <2>7, RunsMove, FrameTyped, StatesAre DEF ReconcileAnswered, Advance
  <2>8. CASE OrchestrateAnswered(r) \/ WorkflowAnswered(r)
    BY <1>2, <1>4, <2>8, StatesAre DEF OrchestrateAnswered, WorkflowAnswered
  <2>. QED
    BY <1>6, <2>1, <2>2, <2>3, <2>4, <2>5, <2>6, <2>7, <2>8 DEF Answered
<1>7. CASE UNCHANGED vars
  BY <1>1, <1>7 DEF vars
<1>8. CASE Next /\ UNCHANGED <<pc, mine>>
  BY <1>1, <1>8
<1>9. ASSUME LeavePage \/ OpenPage \/ Stop \/ RunAgain \/ ChangeDatabase \/ ManualConvert
             \/ ManualBuild \/ ManualReconcile \/ ManualAnswered \/ ManualFailed
      PROVE  UNCHANGED <<pc, mine>>
  BY <1>9 DEF LeavePage, OpenPage, Stop, RunAgain, ChangeDatabase, ManualConvert, ManualBuild,
     ManualReconcile, ManualCall, ManualAnswered, ManualFailed
<1>. QED
  BY <1>1, <1>5, <1>6, <1>7, <1>9 DEF Next, User

LEMMA ViewTypedStep == TypeOK /\ [Next]_vars => ViewTyped'
<1>. SUFFICES ASSUME TypeOK, [Next]_vars PROVE ViewTyped'
  OBVIOUS
<1>0. RunsTyped /\ ViewTyped /\ StoreTyped
  BY TypeParts
<1>1. ASSUME NEW st \in {"idle", "running1", "checkpoint", "running2", "done"}, NEW c \in AnyConv, RenderRunPage(st, c)
      PROVE  start' \in BOOLEAN /\ box' \in {"none", "checkpoint", "done"} /\ drawn' \in AnyConv /\ mounted' \subseteq Runs
  BY <1>1, MigrationAssumption DEF RenderRunPage, AnyConv, NoConv
<1>2. ASSUME NEW c \in AnyConv, Rerender(c), UNCHANGED moduleVars PROVE ViewTyped'
  BY <1>0, <1>1, <1>2 DEF Rerender, ViewTyped, moduleVars
<1>3. ASSUME UNCHANGED moduleVars, UNCHANGED viewVars PROVE ViewTyped'
  BY <1>0, <1>3 DEF ViewTyped, moduleVars, viewVars
<1>4. ASSUME NEW r \in Runs, RunError(r) PROVE ViewTyped'
  BY <1>0, <1>4 DEF RunError, ShowStart, ViewTyped, moduleVars
<1>5. ASSUME NEW r \in Runs, Finish(r) PROVE ViewTyped'
  BY <1>0, <1>5, NoConvTyped DEF Finish, ShowStart, DrawBox, ViewTyped
<1>6. ASSUME NEW r \in Runs, Start(r) \/ Continue(r) PROVE ViewTyped'
  BY <1>0, <1>6, NoConvTyped DEF Start, Continue, ViewTyped
<1>7. ASSUME NEW r \in Runs, ConvertAnswered(r) PROVE ViewTyped'
  <2>1. conv' \in AnyConv /\ NoConv \in AnyConv
    BY <1>0, <1>7, MigrationAssumption DEF ConvertAnswered, StoreTyped, AnyConv, NoConv
  <2>. QED
    BY <1>0, <1>7, <2>1 DEF ConvertAnswered, ShowStart, DrawBox, ViewTyped
<1>8. ASSUME NEW r \in Runs, Answered(r) PROVE ViewTyped'
  <2>1. ASSUME ReviewAnswered(r) \/ FirstPartFailed(r) \/ BuildFailed(r) \/ ReconcileFailed(r)
               \/ OrchestrateAnswered(r) \/ WorkflowAnswered(r)
        PROVE  RunError(r) \/ Finish(r) \/ UNCHANGED <<moduleVars, viewVars>>
    BY <2>1 DEF ReviewAnswered, FirstPartFailed, BuildFailed, ReconcileFailed, OrchestrateAnswered, WorkflowAnswered
  <2>2. ASSUME LineageAnswered(r) \/ PrecheckAnswered(r) \/ BuildAnswered(r) \/ ReconcileAnswered(r) \/ PushAnswered(r)
        PROVE  UNCHANGED <<moduleVars, viewVars>>
    BY <2>2 DEF LineageAnswered, PrecheckAnswered, BuildAnswered, ReconcileAnswered, PushAnswered
  <2>. QED
    BY <1>3, <1>4, <1>5, <1>7, <1>8, <2>1, <2>2 DEF Answered
<1>9. CASE LeavePage \/ OpenPage \/ Stop \/ RunAgain
  <2>1. CASE LeavePage
    BY <1>0, <2>1, NoConvTyped DEF LeavePage, ViewTyped, moduleVars
  <2>2. CASE OpenPage
    BY <1>0, <1>1, <2>2 DEF OpenPage, ViewTyped, StoreTyped, moduleVars
  <2>3. CASE Stop
    BY <1>0, <2>3 DEF Stop, ViewTyped, viewVars
  <2>4. CASE RunAgain
    BY <1>0, <1>1, <2>4 DEF RunAgain, ViewTyped, StoreTyped
  <2>. QED
    BY <1>9, <2>1, <2>2, <2>3, <2>4
<1>10. CASE ManualAnswered \/ ManualFailed
  <2>1. conv' \in AnyConv /\ conv \in AnyConv
    BY <1>0, <1>10, MigrationAssumption DEF ManualAnswered, ManualFailed, StoreTyped, AnyConv, NoConv
  <2>. QED
    BY <1>2, <1>10, <2>1 DEF ManualAnswered, ManualFailed
<1>11. CASE ChangeDatabase \/ ManualConvert \/ ManualBuild \/ ManualReconcile \/ UNCHANGED vars
  BY <1>3, <1>11 DEF ChangeDatabase, ManualConvert, ManualBuild, ManualReconcile, ManualCall, vars
<1>. QED
  BY <1>6, <1>8, <1>9, <1>10, <1>11 DEF Next, User

LEMMA StoreTypedStep == TypeOK /\ [Next]_vars => StoreTyped'
<1>. SUFFICES ASSUME TypeOK, [Next]_vars PROVE StoreTyped'
  OBVIOUS
<1>0. RunsTyped /\ ViewTyped /\ StoreTyped
  BY TypeParts
<1>1. ASSUME UNCHANGED <<storeVars, manual, made, historyVars>> PROVE StoreTyped'
  BY <1>0, <1>1 DEF StoreTyped, storeVars, resultVars, historyVars
<1>2. \A r \in Runs : mine[r].conv \in AnyConv
  BY <1>0 DEF RunsTyped, Frames
<1>3. NoConv \in AnyConv
  BY MigrationAssumption DEF AnyConv, NoConv
<1>4. ASSUME NEW r \in Runs, Start(r) \/ Continue(r) PROVE StoreTyped'
  BY <1>0, <1>1, <1>4 DEF Start, Continue, StoreTyped, ViewTyped, storeVars, resultVars
<1>5. ASSUME NEW r \in Runs, ConvertAnswered(r) PROVE StoreTyped'
  <2>1. conv' \in AnyConv /\ made' \in 0..MaxConversions
    BY <1>0, <1>5, MigrationAssumption DEF ConvertAnswered, StoreTyped, AnyConv, NoConv
  <2>. QED
    BY <1>0, <1>5, <2>1 DEF ConvertAnswered, Crosses, StoreTyped, resultVars
<1>6. ASSUME NEW r \in Runs, BuildAnswered(r) \/ BuildFailed(r) \/ ReconcileAnswered(r) PROVE StoreTyped'
  BY <1>0, <1>2, <1>6 DEF BuildAnswered, BuildFailed, ReconcileAnswered, Crosses, StoreTyped
<1>7. ASSUME NEW r \in Runs, Answered(r) PROVE StoreTyped'
  <2>1. ASSUME LineageAnswered(r) \/ ReviewAnswered(r) \/ FirstPartFailed(r) \/ PrecheckAnswered(r)
               \/ ReconcileFailed(r) \/ PushAnswered(r) \/ OrchestrateAnswered(r) \/ WorkflowAnswered(r)
        PROVE  UNCHANGED <<storeVars, manual, made, historyVars>>
    BY <2>1 DEF LineageAnswered, ReviewAnswered, FirstPartFailed, PrecheckAnswered, ReconcileFailed,
       PushAnswered, OrchestrateAnswered, WorkflowAnswered
  <2>. QED
    BY <1>1, <1>5, <1>6, <1>7, <2>1 DEF Answered
<1>8. CASE LeavePage \/ OpenPage \/ Stop \/ RunAgain \/ UNCHANGED vars
  BY <1>1, <1>8 DEF LeavePage, OpenPage, Stop, RunAgain, vars
<1>9. CASE ChangeDatabase
  BY <1>0, <1>3, <1>9 DEF ChangeDatabase, StoreTyped
<1>10. CASE ManualConvert \/ ManualBuild \/ ManualReconcile
  BY <1>0, <1>3, <1>10 DEF ManualConvert, ManualBuild, ManualReconcile, ManualCall, StoreTyped,
     storeVars, resultVars, historyVars
<1>11. CASE ManualAnswered \/ ManualFailed
  <2>1. manual.conv \in AnyConv /\ NoCall \in [op : {"none", "convert", "build", "recon"}, conv : AnyConv]
    BY <1>0, <1>3 DEF StoreTyped, NoCall
  <2>2. CASE ManualAnswered
    BY <1>0, <2>1, <2>2, MigrationAssumption DEF ManualAnswered, StoreTyped, resultVars, AnyConv, NoConv
  <2>3. CASE ManualFailed
    BY <1>0, <1>3, <2>1, <2>3 DEF ManualFailed, StoreTyped
  <2>. QED
    BY <1>11, <2>2, <2>3
<1>. QED
  BY <1>4, <1>7, <1>8, <1>9, <1>10, <1>11 DEF Next, User

LEMMA NextTypeOK == TypeOK /\ [Next]_vars => TypeOK'
<1>. SUFFICES ASSUME TypeOK, [Next]_vars PROVE TypeOK'
  OBVIOUS
<1>1. RunsTyped' /\ ViewTyped' /\ StoreTyped'
  BY RunsTypedStep, ViewTypedStep, StoreTypedStep
<1>. QED
  BY <1>1, TypeParts, PTL

-----------------------------------------------------------------------------
(* The view. *)

\* A step that leaves the view and the controller alone, and starts, ends or
\* resumes no run.
LEMMA ViewUntouched ==
  ASSUME View, UNCHANGED <<ctl, page, start, box, mounted>>,
         \A r \in mounted : /\ Running(r)' <=> Running(r)
                            /\ pc'[r] \in FirstPart => pc[r] \in FirstPart
                            /\ pc'[r] = "convert" => mine'[r].signal = r
  PROVE  View'
BY DEF View, NeverStuck

\* The page is drawn anew, for nobody who runs.
LEMMA ViewEmptied ==
  ASSUME mounted' = {}, page' = "run" => start', page' = "other" => box' = "none",
         box' # "none" => start', page' \in {"run", "other"}
  PROVE  View'
BY DEF View, NeverStuck

LEMMA RerenderView ==
  ASSUME TypeOK, View, UNCHANGED <<ctl, pc, mine>>, NEW c, Rerender(c)
  PROVE  View'
<1>1. CASE page = "run"
  BY <1>1, ViewEmptied DEF Rerender, RenderRunPage
<1>2. CASE page # "run"
  <2>1. UNCHANGED <<ctl, page, start, box, mounted, pc, mine>>
    BY <1>2 DEF Rerender
  <2>. QED
    BY <2>1 DEF View, NeverStuck, Running
<1>. QED
  BY <1>1, <1>2

\* A run comes to its end, an error or the checkpoint: Start is shown again to
\* whom it concerns.
LEMMA HaltKeepsView ==
  ASSUME TypeOK, View, NEW r \in Runs, NEW st \in Ended \cup {"paused"}, Advance(r, st), ShowStart(r, TRUE),
         UNCHANGED <<ctl, page, mounted>>, r \notin mounted => box' = box,
         mine' = [mine EXCEPT ![r] = NoFrame], Running(r)
  PROVE  View'
<1>0. pc \in [Runs -> States] /\ mine \in [Runs -> Frames] /\ mounted \subseteq Runs
  BY TypeParts DEF RunsTyped, ViewTyped
<1>1. /\ pc'[r] = st /\ \A s \in Runs \ {r} : pc'[s] = pc[s] /\ mine'[s] = mine[s]
      /\ ~Running(r)' /\ \A s \in Runs \ {r} : Running(s)' <=> Running(s)
      /\ pc'[r] \notin FirstPart
  BY <1>0 DEF Advance, Running, FirstPart, SecondPart, Ended
<1>2. CASE r \in mounted
  <2>1. start' /\ page = "run" /\ \A s \in mounted : ~Running(s)'
    BY <1>0, <1>1, <1>2, TypeParts DEF View, ShowStart, ViewTyped
  <2>2. \A s \in mounted : pc'[s] \notin FirstPart
    BY <2>1 DEF Running
  <2>. QED
    BY <2>1, <2>2 DEF View, NeverStuck, FirstPart
<1>3. CASE r \notin mounted
  <2>1. UNCHANGED <<start, box>>
    BY <1>3 DEF ShowStart
  <2>2. \A s \in mounted : s \in Runs \ {r}
    BY <1>0, <1>3
  <2>. QED
    BY <1>1, <2>1, <2>2 DEF View, NeverStuck
<1>. QED
  BY <1>2, <1>3

\* A click that shows a run in its container hides Start, which no other run had
\* hidden.
LEMMA StartKeepsView ==
  ASSUME TypeOK, View, start, page = "run", page' = "run", NEW r \in Runs, NEW st \in {"lineage", "precheck"},
         Advance(r, st), mounted' = mounted \cup {r}, ~start', box' = "none", UNCHANGED mine,
         st = "lineage" => ctl' = r
  PROVE  View'
<1>0. pc \in [Runs -> States] /\ mounted \subseteq Runs
  BY TypeParts DEF RunsTyped, ViewTyped
<1>1. \A s \in mounted \ {r} : pc'[s] = pc[s] /\ ~Running(s)
  BY <1>0 DEF Advance, View
<1>2. pc'[r] = st /\ Running(r)' /\ st # "convert" /\ (st \in FirstPart => ctl' = r)
  BY <1>0 DEF Advance, Running, FirstPart, SecondPart
<1>3. \A s \in mounted \ {r} : ~Running(s)' /\ pc'[s] \notin FirstPart
  BY <1>1 DEF Running
<1>4. \A s \in mounted \ {r} : pc'[s] # "convert"
  BY <1>3 DEF FirstPart
<1>. QED
  BY <1>2, <1>3, <1>4 DEF View, NeverStuck

\* A run goes on from one request to the next.
LEMMA GoOnKeepsView ==
  ASSUME TypeOK, View, NEW r \in Runs, NEW st \in SecondPart \cup {"review"}, Advance(r, st), Running(r),
         st = "review" => pc[r] \in FirstPart,
         UNCHANGED <<ctl, page, start, box, mounted>>, \A s \in Runs \ {r} : mine'[s] = mine[s]
  PROVE  View'
<1>0. pc \in [Runs -> States] /\ mounted \subseteq Runs
  BY TypeParts DEF RunsTyped, ViewTyped
<1>1. pc'[r] = st /\ Running(r)' /\ st # "convert" /\ (st \in FirstPart => pc[r] \in FirstPart)
  BY <1>0 DEF Advance, Running, FirstPart, SecondPart
<1>2. \A s \in mounted \ {r} : pc'[s] = pc[s] /\ (Running(s)' <=> Running(s))
  BY <1>0 DEF Advance, Running
<1>3. \A s \in mounted : (pc'[s] = "convert" => mine'[s].signal = s) /\ (Running(s)' <=> Running(s))
                         /\ (pc'[s] \in FirstPart => pc[s] \in FirstPart)
  BY <1>0, <1>1, <1>2 DEF View
<1>. QED
  BY <1>3, ViewUntouched

LEMMA ConvertKeepsView ==
  ASSUME TypeOK, View, NEW r \in Runs, ConvertAnswered(r)
  PROVE  View'
<1>0. pc \in [Runs -> States] /\ mounted \subseteq Runs /\ Running(r)
  BY TypeParts DEF RunsTyped, ViewTyped, ConvertAnswered, Running, FirstPart
<1>1. CASE Advance(r, "paused") /\ ShowStart(r, TRUE) /\ DrawBox(r, "checkpoint", conv')
  BY <1>0, <1>1, HaltKeepsView DEF ConvertAnswered, DrawBox
<1>2. CASE Advance(r, "precheck") /\ ShowStart(r, FALSE) /\ DrawBox(r, "none", NoConv)
  <2>1. ~start' \/ r \notin mounted
    BY <1>2 DEF ShowStart
  <2>2. r \in mounted => ~start /\ box = "none" /\ box' = "none"
    BY <1>0, <1>2 DEF View, DrawBox
  <2>3. UNCHANGED <<ctl, page, start, box, mounted>> /\ \A s \in Runs \ {r} : mine'[s] = mine[s]
    BY <1>2, <2>1, <2>2, TypeParts DEF ConvertAnswered, ShowStart, DrawBox, ViewTyped, RunsTyped
  <2>. QED
    BY <1>0, <1>2, <2>3, GoOnKeepsView DEF SecondPart
<1>. QED
  BY <1>1, <1>2 DEF ConvertAnswered

LEMMA ErrorKeepsView ==
  ASSUME TypeOK, View, NEW r \in Runs, RunError(r), Running(r)
  PROVE  View'
BY HaltKeepsView DEF RunError, Ended, moduleVars

LEMMA FinishKeepsView ==
  ASSUME TypeOK, View, NEW r \in Runs, Finish(r), Running(r)
  PROVE  View'
BY HaltKeepsView DEF Finish, DrawBox, Ended

LEMMA AnsweredKeepsView ==
  ASSUME TypeOK, View, NEW r \in Runs, Answered(r)
  PROVE  View'
<1>0. pc \in [Runs -> States] /\ mine \in [Runs -> Frames] /\ mounted \subseteq Runs
  BY TypeParts DEF RunsTyped, ViewTyped
<1>1. CASE LineageAnswered(r)
  BY <1>1, GoOnKeepsView DEF LineageAnswered, moduleVars, viewVars, Running, FirstPart
<1>2. CASE ReviewAnswered(r)
  <2>1. Running(r)
    BY <1>2 DEF ReviewAnswered, Running, FirstPart
  <2>2. CASE ctl = NoRun
    BY <1>2, <2>1, <2>2, ErrorKeepsView DEF ReviewAnswered
  <2>3. CASE ctl # NoRun
    <3>1. pc' = [pc EXCEPT ![r] = "convert"] /\ pc[r] \in FirstPart /\ UNCHANGED <<ctl, page, start, box, mounted>>
          /\ mine' = [mine EXCEPT ![r] = [mine[r] EXCEPT !.signal = ctl]]
      BY <1>2, <2>3 DEF ReviewAnswered, Advance, FirstPart, moduleVars, viewVars
    <3>2. mine'[r].signal = ctl
      BY <1>0, <3>1 DEF Frames
    <3>3. \A s \in mounted : (pc'[s] = "convert" => mine'[s].signal = s) /\ (Running(s)' <=> Running(s))
                             /\ (pc'[s] \in FirstPart => pc[s] \in FirstPart)
      BY <1>0, <3>1, <3>2 DEF View, Running, FirstPart
    <3>. QED
      BY <3>1, <3>3, ViewUntouched
  <2>. QED
    BY <2>2, <2>3
<1>3. CASE ConvertAnswered(r)
  BY <1>3, ConvertKeepsView
<1>4. CASE FirstPartFailed(r) \/ BuildFailed(r) \/ ReconcileFailed(r)
  BY <1>4, ErrorKeepsView DEF FirstPartFailed, BuildFailed, ReconcileFailed, Running, SecondPart
<1>5. CASE PrecheckAnswered(r) \/ BuildAnswered(r) \/ ReconcileAnswered(r) \/ PushAnswered(r)
  <2>1. Running(r) /\ UNCHANGED <<ctl, page, start, box, mounted>> /\ \A s \in Runs \ {r} : mine'[s] = mine[s]
    BY <1>0, <1>5 DEF PrecheckAnswered, BuildAnswered, ReconcileAnswered, PushAnswered, moduleVars, viewVars,
       Running, SecondPart
  <2>2. \E st \in SecondPart : Advance(r, st)
    BY <1>5 DEF PrecheckAnswered, BuildAnswered, ReconcileAnswered, PushAnswered, SecondPart
  <2>. QED
    BY <2>1, <2>2, GoOnKeepsView DEF SecondPart
<1>6. CASE OrchestrateAnswered(r) \/ WorkflowAnswered(r)
  <2>1. Running(r)
    BY <1>6 DEF OrchestrateAnswered, WorkflowAnswered, Running, SecondPart
  <2>2. CASE Advance(r, "workflow") /\ UNCHANGED <<moduleVars, viewVars, mine>>
    BY <2>1, <2>2, GoOnKeepsView DEF moduleVars, viewVars, SecondPart
  <2>. QED
    BY <1>6, <2>1, <2>2, FinishKeepsView DEF OrchestrateAnswered, WorkflowAnswered
<1>. QED
  BY <1>1, <1>2, <1>3, <1>4, <1>5, <1>6 DEF Answered

LEMMA NextView == TypeOK /\ View /\ [Next]_vars => View'
<1>. SUFFICES ASSUME TypeOK, View, [Next]_vars PROVE View'
  OBVIOUS
<1>0. page \in {"run", "other"}
  BY DEF TypeOK
<1>1. ASSUME UNCHANGED <<ctl, page, start, box, mounted, pc, mine>> PROVE View'
  BY <1>1 DEF View, NeverStuck, Running
<1>2. ASSUME NEW r \in Runs, Start(r) \/ Continue(r) PROVE View'
  BY <1>2, StartKeepsView DEF Start, Continue, View
<1>3. CASE LeavePage \/ OpenPage \/ RunAgain
  BY <1>3, ViewEmptied DEF LeavePage, OpenPage, RunAgain, RenderRunPage
<1>4. CASE Stop \/ ChangeDatabase \/ ManualConvert \/ ManualBuild \/ ManualReconcile \/ UNCHANGED vars
  BY <1>1, <1>4 DEF Stop, ChangeDatabase, ManualConvert, ManualBuild, ManualReconcile, ManualCall,
     vars, moduleVars, viewVars
<1>5. CASE ManualAnswered \/ ManualFailed
  BY <1>5, RerenderView DEF ManualAnswered, ManualFailed, moduleVars
<1>. QED
  BY <1>2, <1>3, <1>4, <1>5, AnsweredKeepsView DEF Next, User

-----------------------------------------------------------------------------
(* The only run that was started. *)

\* No run becomes idle again, so a run that is alone after a step was before.
LEMMA LoneStays == TypeOK /\ [Next]_vars => \A r \in Runs : Lone(r)' => Lone(r)
<1>. SUFFICES ASSUME TypeOK, [Next]_vars, NEW r \in Runs, NEW s \in Runs, pc'[s] = "idle"
              PROVE  pc[s] = "idle"
  BY DEF Lone
<1>0. pc \in [Runs -> States]
  BY TypeParts DEF RunsTyped
<1>1. ASSUME NEW q \in Runs, NEW st, Advance(q, st), st # "idle" PROVE pc[s] = "idle"
  BY <1>0, <1>1 DEF Advance
<1>2. CASE pc' = pc
  BY <1>2
<1>3. ASSUME NEW q \in Runs, RunError(q) \/ Finish(q) \/ Start(q) \/ Continue(q) PROVE pc[s] = "idle"
  BY <1>1, <1>3 DEF RunError, Finish, Start, Continue
<1>4. ASSUME NEW q \in Runs, Answered(q) PROVE pc[s] = "idle"
  BY <1>1, <1>3, <1>4 DEF Answered, LineageAnswered, ReviewAnswered, ConvertAnswered, FirstPartFailed,
     PrecheckAnswered, BuildAnswered, BuildFailed, ReconcileAnswered, ReconcileFailed, PushAnswered,
     OrchestrateAnswered, WorkflowAnswered
<1>5. ASSUME LeavePage \/ OpenPage \/ Stop \/ RunAgain \/ ChangeDatabase \/ ManualConvert
             \/ ManualBuild \/ ManualReconcile \/ ManualAnswered \/ ManualFailed \/ UNCHANGED vars
      PROVE  pc' = pc
  BY <1>5 DEF LeavePage, OpenPage, Stop, RunAgain, ChangeDatabase, ManualConvert, ManualBuild,
     ManualReconcile, ManualCall, ManualAnswered, ManualFailed, vars
<1>. QED
  BY <1>2, <1>3, <1>4, <1>5 DEF Next, User

\* What is owned by a run that is alone.
Owns(r) ==
  /\ pc[r] \in FirstPart => stage = "running1" /\ box = "none"
  /\ pc[r] = "paused" => /\ stage = "checkpoint" /\ box \in {"none", "checkpoint"}
                         /\ box = "checkpoint" => drawn = conv

\* A run that is alone is the only one that can have taken a step.
LEMMA NextOwned == TypeOK /\ View /\ Owned /\ [Next]_vars => Owned'
<1>. SUFFICES ASSUME TypeOK, View, Owned, [Next]_vars, NEW r \in Runs, Lone(r)' PROVE Owns(r)'
  BY DEF Owned, Owns
<1>0. pc \in [Runs -> States] /\ page \in {"run", "other"}
  BY TypeParts DEF RunsTyped, ViewTyped
<1>1. Lone(r) /\ Owns(r)
  BY LoneStays DEF Owned, Owns
<1>2. ASSUME UNCHANGED <<pc, stage, box, drawn, conv>> PROVE Owns(r)'
  BY <1>1, <1>2 DEF Owns
<1>3. ASSUME NEW q \in Runs, NEW st, Advance(q, st), st # "idle" PROVE q = r /\ pc'[r] = st
  BY <1>0, <1>3 DEF Advance, Lone
<1>4. ASSUME NEW q \in Runs, NEW st \in SecondPart \cup Ended, Advance(q, st) PROVE Owns(r)'
  BY <1>3, <1>4 DEF Owns, FirstPart, SecondPart, Ended
<1>5. ASSUME NEW q \in Runs, RunError(q) \/ Finish(q) \/ Continue(q) PROVE Owns(r)'
  BY <1>4, <1>5 DEF RunError, Finish, Continue, SecondPart, Ended
<1>6. ASSUME NEW q \in Runs, Start(q) PROVE Owns(r)'
  BY <1>3, <1>6 DEF Start, Owns, FirstPart
<1>7. ASSUME NEW q \in Runs, Answered(q) PROVE Owns(r)'
  <2>1. CASE LineageAnswered(q)
    <3>1. q = r /\ pc'[r] = "review" /\ UNCHANGED <<stage, box, drawn, conv>> /\ pc[r] \in FirstPart
      BY <1>3, <2>1 DEF LineageAnswered, moduleVars, viewVars, storeVars, FirstPart
    <3>. QED
      BY <1>1, <3>1 DEF Owns
  <2>2. CASE ReviewAnswered(q)
    <3>1. CASE RunError(q)
      BY <1>5, <3>1
    <3>2. CASE Advance(q, "convert") /\ UNCHANGED <<moduleVars, viewVars>>
      <4>1. q = r /\ pc'[r] = "convert" /\ UNCHANGED <<stage, box>> /\ pc[r] \in FirstPart
        BY <1>3, <2>2, <3>2 DEF ReviewAnswered, moduleVars, viewVars, FirstPart
      <4>. QED
        BY <1>1, <4>1 DEF Owns
    <3>. QED
      BY <2>2, <3>1, <3>2 DEF ReviewAnswered
  <2>3. CASE ConvertAnswered(q)
    <3>1. CASE stage' = "checkpoint" /\ Advance(q, "paused") /\ DrawBox(q, "checkpoint", conv')
      <4>1. q = r /\ pc'[r] = "paused" /\ pc[r] \in FirstPart
        BY <1>3, <2>3, <3>1 DEF ConvertAnswered, FirstPart
      <4>2. box = "none"
        BY <1>1, <4>1 DEF Owns
      <4>. QED
        BY <3>1, <4>1, <4>2 DEF Owns, DrawBox, FirstPart
    <3>2. CASE Advance(q, "precheck")
      BY <1>4, <3>2 DEF SecondPart
    <3>. QED
      BY <2>3, <3>1, <3>2 DEF ConvertAnswered
  <2>4. CASE FirstPartFailed(q) \/ BuildFailed(q) \/ ReconcileFailed(q)
    BY <1>5, <2>4 DEF FirstPartFailed, BuildFailed, ReconcileFailed
  <2>5. CASE PrecheckAnswered(q) \/ BuildAnswered(q) \/ ReconcileAnswered(q) \/ PushAnswered(q)
    BY <1>4, <2>5 DEF PrecheckAnswered, BuildAnswered, ReconcileAnswered, PushAnswered, SecondPart
  <2>6. CASE OrchestrateAnswered(q) \/ WorkflowAnswered(q)
    BY <1>4, <1>5, <2>6 DEF OrchestrateAnswered, WorkflowAnswered, SecondPart
  <2>. QED
    BY <1>7, <2>1, <2>2, <2>3, <2>4, <2>5, <2>6 DEF Answered
<1>8. ASSUME UNCHANGED <<pc, stage>>, page = "run", page' = "run", RenderRunPage(stage, conv') PROVE Owns(r)'
  BY <1>1, <1>8 DEF Owns, RenderRunPage
<1>9. ASSUME UNCHANGED <<pc, stage>>, page = "other", UNCHANGED <<page, box>> PROVE Owns(r)'
  BY <1>1, <1>9 DEF Owns, View
<1>10. CASE LeavePage
  BY <1>1, <1>10 DEF LeavePage, Owns, moduleVars
<1>11. CASE OpenPage
  BY <1>1, <1>11 DEF OpenPage, Owns, RenderRunPage, moduleVars, storeVars
<1>12. CASE Stop \/ ManualConvert \/ ManualBuild \/ ManualReconcile \/ UNCHANGED vars
  BY <1>2, <1>12 DEF Stop, ManualConvert, ManualBuild, ManualReconcile, ManualCall, vars, moduleVars,
     viewVars, storeVars
<1>13. CASE ChangeDatabase
  BY <1>9, <1>13 DEF ChangeDatabase, moduleVars, viewVars
<1>14. CASE ManualAnswered \/ ManualFailed
  <2>1. UNCHANGED <<pc, stage>> /\ Rerender(conv')
    BY <1>14 DEF ManualAnswered, ManualFailed, moduleVars
  <2>. QED
    BY <1>0, <1>8, <1>9, <2>1 DEF Rerender
<1>15. CASE RunAgain
  <2>1. pc[r] \notin FirstPart \cup {"paused"} /\ pc' = pc
    BY <1>1, <1>15 DEF RunAgain, Owns
  <2>. QED
    BY <2>1 DEF Owns
<1>. QED
  BY <1>5, <1>6, <1>7, <1>10, <1>11, <1>12, <1>13, <1>14, <1>15 DEF Next, User

-----------------------------------------------------------------------------
(* The runs that nothing crossed. *)

\* A step that moves nothing under the runs, and takes none on.
LEMMA WorksOn ==
  ASSUME Uncrossed, UNCHANGED <<conv, build, recon, warehouse>>, approved \subseteq approved',
         crossed \subseteq crossed',
         \A s \in Runs \ crossed' : pc'[s] \in SecondPart => pc'[s] = pc[s] /\ mine'[s] = mine[s]
  PROVE  Uncrossed'
<1>. SUFFICES ASSUME NEW s \in Runs \ crossed' PROVE Works(s)'
  BY DEF Uncrossed
<1>1. CASE pc'[s] \in SecondPart
  <2>1. pc'[s] = pc[s] /\ mine'[s] = mine[s] /\ Works(s)
    BY <1>1 DEF Uncrossed
  <2>. QED
    BY <2>1 DEF Works
<1>2. CASE pc'[s] \notin SecondPart
  BY <1>2 DEF Works, SecondPart
<1>. QED
  BY <1>1, <1>2

\* A step that moves something under the runs marks all but its own.
LEMMA WorksAlone ==
  ASSUME TypeOK, NEW r \in Runs, \A s \in Runs \ {r} : pc'[s] = pc[s] /\ (pc[s] \in SecondPart => s \in crossed'),
         r \notin crossed' => Works(r)'
  PROVE  Uncrossed'
<1>. SUFFICES ASSUME NEW s \in Runs \ crossed', s # r PROVE Works(s)'
  BY DEF Uncrossed
<1>1. pc'[s] \notin SecondPart
  OBVIOUS
<1>. QED
  BY <1>1 DEF Works, SecondPart

\* A step that moves something under the runs and is no run's own.
LEMMA WorksNone ==
  ASSUME pc' = pc, \A s \in Runs : pc[s] \in SecondPart => s \in crossed'
  PROVE  Uncrossed'
BY DEF Uncrossed, Works, SecondPart

LEMMA AnsweredUncrossed ==
  ASSUME TypeOK, Uncrossed, NEW r \in Runs, Answered(r)
  PROVE  Uncrossed'
<1>0. pc \in [Runs -> States] /\ mine \in [Runs -> Frames] /\ crossed \subseteq Runs
  BY TypeParts DEF RunsTyped, StoreTyped
<1>1. ASSUME RunError(r) PROVE Uncrossed' \/ ~UNCHANGED <<storeVars, historyVars>>
  BY <1>0, <1>1, WorksOn DEF RunError, Advance, SecondPart, storeVars, resultVars, historyVars
<1>2. ASSUME Finish(r), UNCHANGED <<storeVars, historyVars>> PROVE Uncrossed'
  BY <1>0, <1>2, WorksOn DEF Finish, Advance, SecondPart, storeVars, resultVars, historyVars
<1>3. CASE LineageAnswered(r)
  BY <1>0, <1>3, WorksOn DEF LineageAnswered, Advance, SecondPart, storeVars, resultVars, historyVars
<1>4. CASE ReviewAnswered(r)
  <2>1. CASE RunError(r)
    BY <1>1, <1>4, <2>1 DEF ReviewAnswered
  <2>2. CASE Advance(r, "convert") /\ mine' = [mine EXCEPT ![r].signal = ctl]
    BY <1>0, <1>4, <2>2, WorksOn DEF ReviewAnswered, Advance, SecondPart, storeVars, resultVars, historyVars
  <2>. QED
    BY <1>4, <2>1, <2>2 DEF ReviewAnswered
<1>5. CASE ConvertAnswered(r)
  <2>1. CASE Advance(r, "paused") /\ Crosses(r)
    <3>1. pc'[r] = "paused" /\ \A s \in Runs \ {r} : pc'[s] = pc[s] /\ (pc[s] \in SecondPart => s \in crossed')
      BY <1>0, <2>1 DEF Advance, Crosses
    <3>2. Works(r)'
      BY <3>1 DEF Works, SecondPart
    <3>. QED
      BY <3>1, <3>2, WorksAlone
  <2>2. CASE /\ Advance(r, "precheck") /\ approved' = approved \cup {conv'}
             /\ crossed' = (crossed \ {r}) \cup {s \in Runs \ {r} : pc[s] \in SecondPart}
    <3>1. pc'[r] = "precheck" /\ \A s \in Runs \ {r} : pc'[s] = pc[s] /\ (pc[s] \in SecondPart => s \in crossed')
      BY <1>0, <2>2 DEF Advance
    <3>2. Works(r)'
      BY <3>1, <2>2 DEF Works
    <3>. QED
      BY <3>1, <3>2, WorksAlone
  <2>. QED
    BY <1>5, <2>1, <2>2 DEF ConvertAnswered
<1>6. CASE FirstPartFailed(r) \/ ReconcileFailed(r)
  BY <1>1, <1>6 DEF FirstPartFailed, ReconcileFailed
<1>7. CASE PrecheckAnswered(r)
  <2>1. mine' = [mine EXCEPT ![r] = [mine[r] EXCEPT !.conv = conv]] /\ pc' = [pc EXCEPT ![r] = "build"]
        /\ pc[r] = "precheck" /\ UNCHANGED <<conv, build, recon, warehouse, approved, crossed>>
    BY <1>0, <1>7 DEF PrecheckAnswered, Advance, storeVars, resultVars, historyVars
  <2>2. mine'[r].conv = conv /\ pc'[r] = "build" /\ \A s \in Runs \ {r} : pc'[s] = pc[s] /\ mine'[s] = mine[s]
    BY <1>0, <2>1 DEF Frames
  <2>3. ASSUME NEW s \in Runs \ crossed' PROVE Works(s)'
    <3>1. Works(s)
      BY <2>1, <2>3 DEF Uncrossed
    <3>. QED
      BY <2>1, <2>2, <3>1 DEF Works, SecondPart
  <2>. QED
    BY <2>3 DEF Uncrossed
<1>8. CASE BuildAnswered(r)
  <2>1. \A s \in Runs \ {r} : pc'[s] = pc[s] /\ (pc[s] \in SecondPart => s \in crossed')
    BY <1>0, <1>8 DEF BuildAnswered, Advance, Crosses
  <2>2. /\ pc[r] = "build" /\ mine[r].conv # NoConv /\ UNCHANGED <<conv, recon, approved>>
        /\ build' = mine[r].conv /\ warehouse' = mine[r].conv
        /\ r \notin crossed' => r \notin crossed
    BY <1>8 DEF BuildAnswered, Crosses
  <2>3. r \notin crossed' => mine[r].conv = conv /\ conv \in approved
    BY <2>2 DEF Uncrossed, Works
  <2>4. CASE Advance(r, "reconcile") /\ mine' = [mine EXCEPT ![r].conv = conv]
    <3>1. mine' = [mine EXCEPT ![r] = [mine[r] EXCEPT !.conv = conv]]
      BY <2>4
    <3>2. mine'[r].conv = conv /\ pc'[r] = "reconcile"
      BY <1>0, <2>4, <3>1 DEF Frames, Advance
    <3>3. r \notin crossed' => Works(r)'
      BY <2>2, <2>3, <3>2 DEF Works
    <3>. QED
      BY <2>1, <3>3, WorksAlone
  <2>5. CASE Advance(r, "push") /\ mine' = [mine EXCEPT ![r] = NoFrame]
    <3>1. ~mine'[r].verified /\ pc'[r] = "push"
      BY <1>0, <2>5 DEF NoFrame, Advance
    <3>2. r \notin crossed' => Works(r)'
      BY <2>2, <2>3, <3>1 DEF Works
    <3>. QED
      BY <2>1, <3>2, WorksAlone
  <2>. QED
    BY <1>8, <2>4, <2>5 DEF BuildAnswered
<1>9. CASE BuildFailed(r)
  <2>1. pc' = [pc EXCEPT ![r] = "failed"] /\ mine' = [mine EXCEPT ![r] = NoFrame] /\ UNCHANGED <<conv, build, recon, approved>>
    BY <1>9 DEF BuildFailed, RunError, Advance
  <2>2. CASE UNCHANGED <<warehouse, crossed>>
    BY <1>0, <2>1, <2>2, WorksOn DEF SecondPart
  <2>3. CASE Crosses(r)
    <3>1. pc'[r] = "failed" /\ \A s \in Runs \ {r} : pc'[s] = pc[s] /\ (pc[s] \in SecondPart => s \in crossed')
      BY <1>0, <2>1, <2>3 DEF Crosses
    <3>2. Works(r)'
      BY <3>1 DEF Works, SecondPart
    <3>. QED
      BY <3>1, <3>2, WorksAlone
  <2>. QED
    BY <1>9, <2>2, <2>3 DEF BuildFailed
<1>10. CASE ReconcileAnswered(r)
  <2>1. \A s \in Runs \ {r} : pc'[s] = pc[s] /\ (pc[s] \in SecondPart => s \in crossed')
    BY <1>0, <1>10 DEF ReconcileAnswered, Advance, Crosses
  <2>2. /\ pc[r] = "reconcile" /\ pc'[r] = "push" /\ UNCHANGED <<conv, build, warehouse, approved>>
        /\ recon' = mine[r].conv /\ (r \notin crossed' => r \notin crossed)
    BY <1>0, <1>10 DEF ReconcileAnswered, Advance, Crosses
  <2>3. r \notin crossed' => mine[r].conv = conv /\ build = conv /\ warehouse = conv /\ conv \in approved
    BY <2>2 DEF Uncrossed, Works, SecondPart
  <2>4. r \notin crossed' => Works(r)'
    BY <2>2, <2>3 DEF Works
  <2>. QED
    BY <2>1, <2>4, WorksAlone
<1>11. ASSUME PushAnswered(r) \/ (OrchestrateAnswered(r) /\ Advance(r, "workflow") /\ UNCHANGED mine) PROVE Uncrossed'
  <2>1. /\ pc[r] \in {"push", "orchestrate"} /\ pc'[r] \in {"orchestrate", "workflow"} /\ mine' = mine
        /\ \A s \in Runs \ {r} : pc'[s] = pc[s]
        /\ UNCHANGED <<conv, build, recon, warehouse, approved, crossed>>
    BY <1>0, <1>11 DEF PushAnswered, OrchestrateAnswered, Advance, storeVars, resultVars, historyVars
  <2>2. ASSUME NEW s \in Runs \ crossed' PROVE Works(s)'
    <3>1. Works(s)
      BY <2>1, <2>2 DEF Uncrossed
    <3>. QED
      BY <2>1, <3>1 DEF Works, SecondPart
  <2>. QED
    BY <2>2 DEF Uncrossed
<1>12. CASE OrchestrateAnswered(r) \/ WorkflowAnswered(r)
  BY <1>2, <1>11, <1>12 DEF OrchestrateAnswered, WorkflowAnswered
<1>. QED
  BY <1>3, <1>4, <1>5, <1>6, <1>7, <1>8, <1>9, <1>10, <1>11, <1>12 DEF Answered

LEMMA NextUncrossed == TypeOK /\ Uncrossed /\ [Next]_vars => Uncrossed'
<1>. SUFFICES ASSUME TypeOK, Uncrossed, [Next]_vars PROVE Uncrossed'
  OBVIOUS
<1>0. pc \in [Runs -> States]
  BY TypeParts DEF RunsTyped
<1>1. ASSUME UNCHANGED <<pc, mine, storeVars, historyVars>> PROVE Uncrossed'
  BY <1>1, WorksOn DEF storeVars, resultVars, historyVars
<1>2. ASSUME NEW r \in Runs, Start(r) PROVE Uncrossed'
  BY <1>0, <1>2, WorksOn DEF Start, Advance, SecondPart, storeVars, resultVars, historyVars
<1>3. ASSUME NEW r \in Runs, Continue(r) PROVE Uncrossed'
  <2>1. /\ pc[r] = "paused" /\ pc'[r] = "precheck" /\ \A s \in Runs \ {r} : pc'[s] = pc[s]
        /\ mine' = mine /\ UNCHANGED <<conv, build, recon, warehouse>> /\ approved \subseteq approved'
        /\ crossed \ {r} \subseteq crossed'
    BY <1>0, <1>3 DEF Continue, Advance, storeVars, resultVars
  <2>2. r \notin crossed' => conv \in approved' \cup {NoConv}
    BY <1>3 DEF Continue
  <2>3. ASSUME NEW s \in Runs \ crossed' PROVE Works(s)'
    <3>1. CASE s = r
      BY <2>1, <2>2, <2>3, <3>1 DEF Works, SecondPart
    <3>2. CASE s # r
      <4>1. Works(s)
        BY <2>1, <2>3, <3>2 DEF Uncrossed
      <4>. QED
        BY <2>1, <3>2, <4>1 DEF Works
    <3>. QED
      BY <3>1, <3>2
  <2>. QED
    BY <2>3 DEF Uncrossed
<1>4. CASE LeavePage \/ OpenPage \/ Stop \/ RunAgain \/ ManualConvert \/ ManualBuild \/ ManualReconcile
           \/ UNCHANGED vars
  BY <1>1, <1>4 DEF LeavePage, OpenPage, Stop, RunAgain, ManualConvert, ManualBuild, ManualReconcile,
     ManualCall, vars
<1>5. CASE ChangeDatabase \/ ManualAnswered
  BY <1>5, WorksNone DEF ChangeDatabase, ManualAnswered
<1>6. CASE ManualFailed
  <2>1. pc' = pc /\ mine' = mine /\ UNCHANGED <<conv, recon, approved>>
    BY <1>6 DEF ManualFailed
  <2>2. CASE UNCHANGED <<build, warehouse, crossed>>
    BY <2>1, <2>2, WorksOn
  <2>3. CASE crossed' = crossed \cup {s \in Runs : pc[s] \in SecondPart}
    BY <2>1, <2>3, WorksNone
  <2>. QED
    BY <1>6, <2>2, <2>3 DEF ManualFailed
<1>. QED
  BY <1>2, <1>3, <1>4, <1>5, <1>6, AnsweredUncrossed DEF Next, User

-----------------------------------------------------------------------------
(* The theorems. *)

LEMMA Inductive == Spec => []IInv
<1>1. IInv /\ [Next]_vars => IInv'
  BY NextTypeOK, NextView, NextOwned, NextUncrossed DEF IInv
<1>. QED
  BY <1>1, InitIInv, PTL DEF Spec

\* All variables keep their types.
THEOREM TypeCorrect == Spec => []TypeOK
<1>1. IInv => TypeOK
  BY DEF IInv
<1>. QED
  BY <1>1, Inductive, PTL

\* Up to the checkpoint, Stop aborts the controller and the conversion of the run
\* in the visible container, however many runs were started and however often the
\* page was rendered. Nothing is said of the later part, which Stop does not reach.
THEOREM StopReachesItsRunAlways == Spec => []StopReachesItsRun
<1>1. IInv => StopReachesItsRun
  BY DEF IInv, View, StopReachesItsRun, Running, FirstPart
<1>. QED
  BY <1>1, Inductive, PTL

\* While "Run migration" is hidden, a run goes on in the visible container.
THEOREM NeverStuckAlways == Spec => []NeverStuck
<1>1. IInv => NeverStuck
  BY DEF IInv, View
<1>. QED
  BY <1>1, Inductive, PTL

\* The only run that was started keeps its checkpoint, over the conversion the
\* store holds.
THEOREM PausedRunIsKeptAlways == Spec => []PausedRunIsKept
<1>1. IInv => PausedRunIsKept
  BY DEF IInv, Owned, Lone, PausedRunIsKept
<1>. QED
  BY <1>1, Inductive, PTL

\* A run that nothing crossed ends with one conversion approved, built, verified
\* and held by the store and the warehouse.
THEOREM LoneRunIsConsistentAlways == Spec => LoneRunIsConsistent
<1>. DEFINE Consistent ==
       \A r \in Runs \ crossed : pc[r] # "done" /\ pc'[r] = "done" =>
         /\ build = conv /\ warehouse = conv /\ conv \in approved
         /\ mine[r].verified => recon = conv
<1>1. IInv /\ [Next]_vars => [Consistent]_vars
  <2>. SUFFICES ASSUME IInv, [Next]_vars, NEW r \in Runs \ crossed, pc[r] # "done", pc'[r] = "done"
                PROVE  pc[r] \in {"orchestrate", "workflow"}
    BY DEF IInv, Uncrossed, Works, SecondPart
  <2>1. pc \in [Runs -> States]
    BY TypeParts DEF IInv, RunsTyped
  <2>2. ASSUME NEW q \in Runs, NEW st, Advance(q, st), st # "done" PROVE FALSE
    BY <2>1, <2>2 DEF Advance
  <2>3. ASSUME NEW q \in Runs, Finish(q) PROVE q = r
    BY <2>1, <2>3 DEF Finish, Advance
  <2>. QED
    BY <2>1, <2>2, <2>3 DEF Next, User, vars, Answered, LineageAnswered, ReviewAnswered, ConvertAnswered, FirstPartFailed,
       PrecheckAnswered, BuildAnswered, BuildFailed, ReconcileAnswered, ReconcileFailed, PushAnswered,
       OrchestrateAnswered, WorkflowAnswered, RunError, Start, Continue, LeavePage, OpenPage, Stop, RunAgain, ChangeDatabase, ManualConvert, ManualBuild,
       ManualReconcile, ManualCall, ManualAnswered, ManualFailed
<1>. QED
  BY <1>1, Inductive, PTL DEF Spec, LoneRunIsConsistent
=============================================================================
