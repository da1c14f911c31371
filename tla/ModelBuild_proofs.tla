-------------------------- MODULE ModelBuild_proofs --------------------------
(***************************************************************************)
(* Proofs about a build request, for every list of models, every ref()     *)
(* graph and any number of repair attempts, whatever the warehouse and the *)
(* AI answer: what the answers of a request mean, that it implements       *)
(* BuildRequest, and that every step of it leaves less to do. They rest on *)
(* what ModelOrder_proofs shows of the order.                              *)
(***************************************************************************)
EXTENDS ModelBuild, ModelOrder_proofs

AtModel == pc \in {"run", "dropView", "rerun", "ask", "retry"}

\* The models with an entry are those before pos in the order.
EntriesArePrefix ==
  /\ \A m \in Models : status[m] # "none" => \E i \in 1..(pos - 1) : order[i] = m
  /\ \A i \in 1..(pos - 1) : i \in DOMAIN order /\ status[order[i]] # "none"

\* A model that is being run has no failed or skipped dependency.
RunsUnblocked == AtModel => pos \in DOMAIN order /\ Blocking(Current) = {}

\* The statement that is about to be sent is one CREATE.
NextIsGuarded ==
  pc \in {"run", "dropView", "rerun", "retry"} => sql.makes \in Models

Outcomes == Built \cup {"none", "failed", "skipped"}

BInv ==
  /\ IInv
  /\ pc # "compile" => loop = "sorted"
  /\ pc \in {"compile", "gate", "schemas"} => pos = 1
  /\ pos \in Nat \ {0}
  /\ status \in [Models -> Outcomes]
  /\ EntriesArePrefix
  /\ RunsUnblocked
  /\ BuiltOnBuilt
  /\ NextIsGuarded
  /\ executed \subseteq Models

LEMMA InitBInv == Init => BInv
<1>. SUFFICES ASSUME Init PROVE BInv
  OBVIOUS
<1>1. IInv
  BY InitIInv DEF Init
<1>2. /\ pc = "compile" /\ pos = 1 /\ executed = {}
      /\ status \in [Models -> Outcomes]
      /\ \A m \in Models : status[m] = "none"
  BY DEF Init, Outcomes
<1>3. 1..(pos - 1) = {}
  BY <1>2
<1>. QED
  BY <1>1, <1>2, <1>3
  DEF BInv, EntriesArePrefix, RunsUnblocked, AtModel, BuiltOnBuilt, Built, NextIsGuarded

\* The next entry keeps the entries a prefix of the order, and a model only
\* gets one as built when its dependencies have theirs as built.
LEMMA EntryStep ==
  ASSUME BInv, loop = "sorted", pos \in DOMAIN order, UNCHANGED orderVars,
         NEW outcome \in Outcomes \ {"none"},
         status' = [status EXCEPT ![Current] = outcome], pos' = pos + 1,
         outcome \in Built => Blocking(Current) = {}
  PROVE  /\ (status \in [Models -> Outcomes])'
         /\ EntriesArePrefix' /\ BuiltOnBuilt'
<1>1. /\ order' = order /\ hasCycle' = hasCycle /\ loop' = loop
      /\ \A m : Edges(m)' = Edges(m)
  BY DEF orderVars, Edges
<1>2. /\ order \in Seq(Models) /\ DOMAIN order = 1..Len(order) /\ Len(order) \in Nat
      /\ \A i, k \in DOMAIN order : order[i] = order[k] => i = k
      /\ Elements(order) = Models
  BY DEF BInv, IInv, OrderTypeOK, Result, NothingLost
<1>3. Current \in Models /\ pos \in Nat \ {0} /\ pos <= Len(order)
  BY <1>2 DEF Current, BInv
<1>4. /\ status \in [Models -> Outcomes] /\ (status \in [Models -> Outcomes])'
      /\ status'[Current] = outcome
      /\ \A m \in Models \ {Current} : status'[m] = status[m]
  BY <1>3 DEF BInv
<1>5. 1..(pos' - 1) = 1..(pos - 1) \cup {pos}
  BY <1>3
<1>6. EntriesArePrefix'
  <2>1. ASSUME NEW m \in Models, status'[m] # "none"
        PROVE  \E i \in 1..(pos' - 1) : order'[i] = m
    <3>1. CASE m = Current
      BY <1>1, <1>5, <3>1 DEF Current
    <3>2. CASE m # Current
      BY <1>1, <1>4, <1>5, <2>1, <3>2 DEF BInv, EntriesArePrefix
    <3>. QED
      BY <3>1, <3>2
  <2>2. ASSUME NEW i \in 1..(pos' - 1)
        PROVE  i \in DOMAIN order' /\ status'[order'[i]] # "none"
    <3>1. CASE i = pos
      BY <1>1, <1>4, <3>1 DEF Current
    <3>2. CASE i \in 1..(pos - 1)
      <4>1. i \in DOMAIN order /\ status[order[i]] # "none" /\ order[i] \in Models
        BY <1>2, <3>2 DEF BInv, EntriesArePrefix
      <4>. QED
        BY <1>1, <1>4, <4>1
    <3>. QED
      BY <1>5, <3>1, <3>2
  <2>. QED
    BY <2>1, <2>2 DEF EntriesArePrefix
<1>7. BuiltOnBuilt'
  <2>. SUFFICES ASSUME ~hasCycle, NEW m \in Models, status'[m] \in Built,
                       NEW d \in Edges(m)
                PROVE  status'[d] \in Built
    BY <1>1 DEF BuiltOnBuilt
  <2>1. \A i \in DOMAIN order : \A e \in Edges(order[i]) :
          \E k \in 1..(i - 1) : order[k] = e
    BY DEF BInv, IInv, Result, DependenciesFirst, Before
  <2>2. d \in Models /\ d # m
    BY DEF BInv, IInv, OrderTypeOK, Edges
  <2>3. CASE m = Current
    <3>1. PICK k \in 1..(pos - 1) : order[k] = d
      BY <2>1, <2>3 DEF Current
    <3>2. status[d] # "none"
      BY <3>1 DEF BInv, EntriesArePrefix
    <3>3. status[d] \notin {"failed", "skipped"}
      BY <1>4, <2>3 DEF Blocking
    <3>. QED
      BY <1>4, <2>2, <2>3, <3>2, <3>3 DEF Outcomes
  <2>4. CASE m # Current
    <3>1. status[m] \in Built /\ status[m] # "none"
      BY <1>4, <2>4 DEF Built
    <3>2. PICK i \in 1..(pos - 1) : order[i] = m
      BY <3>1 DEF BInv, EntriesArePrefix
    <3>3. PICK k \in 1..(i - 1) : order[k] = d
      BY <2>1, <3>2, <1>2, <1>3
    <3>4. d # Current
      BY <1>2, <1>3, <3>2, <3>3 DEF Current
    <3>. QED
      BY <1>4, <2>2, <3>1, <3>4 DEF BInv, BuiltOnBuilt
  <2>. QED
    BY <2>3, <2>4
<1>. QED
  BY <1>4, <1>6, <1>7

\* Steps that write no entry.
LEMMA QuietStep ==
  ASSUME BInv, UNCHANGED <<orderVars, status, pos>>
  PROVE  /\ IInv'
         /\ (status \in [Models -> Outcomes])' /\ (pos \in Nat \ {0})'
         /\ EntriesArePrefix' /\ BuiltOnBuilt'
         /\ Blocking(Current)' = Blocking(Current) /\ (DOMAIN order)' = DOMAIN order
         /\ Current' = Current /\ loop' = loop
<1>1. IInv'
  BY NextIInv DEF BInv
<1>2. /\ order' = order /\ hasCycle' = hasCycle /\ loop' = loop /\ refs' = refs
      /\ status' = status /\ pos' = pos
  BY DEF orderVars
<1>3. (\A m : Edges(m)' = Edges(m)) /\ Current' = Current
  BY <1>2 DEF Edges, Current
<1>4. EntriesArePrefix'
  BY <1>2 DEF BInv, EntriesArePrefix
<1>5. BuiltOnBuilt'
  BY <1>2, <1>3 DEF BInv, BuiltOnBuilt
<1>6. Blocking(Current)' = Blocking(Current)
  BY <1>2 DEF Blocking, Current, Edges
<1>. QED
  BY <1>1, <1>2, <1>3, <1>4, <1>5, <1>6 DEF BInv

\* The sort runs before anything else.
LEMMA CompileStep ==
  ASSUME BInv, Compile
  PROVE  BInv'
<1>1. /\ pc = "compile" /\ pc' = pc /\ pos' = pos /\ status' = status /\ sql' = sql
      /\ executed' = executed /\ pos = 1
  BY DEF Compile, buildVars, BInv
<1>2. IInv'
  BY NextIInv DEF BInv, Compile
<1>3. 1..(pos - 1) = {}
  BY <1>1
<1>4. \A m \in Models : status[m] = "none"
  BY <1>3 DEF BInv, EntriesArePrefix
<1>5. EntriesArePrefix' /\ BuiltOnBuilt'
  BY <1>1, <1>3, <1>4 DEF EntriesArePrefix, BuiltOnBuilt, Built
<1>. QED
  BY <1>1, <1>2, <1>5 DEF BInv, RunsUnblocked, AtModel, NextIsGuarded

\* A step that moves on to a model, or within its attempts, or away from it.
LEMMA MoveStep ==
  ASSUME BInv, UNCHANGED <<orderVars, status, pos>>,
         pc' # "compile" => loop = "sorted",
         pc' \in {"compile", "gate", "schemas"} => pc \in {"compile", "gate", "schemas"},
         AtModel' => pos \in DOMAIN order /\ Blocking(Current) = {},
         NextIsGuarded', executed' \subseteq Models
  PROVE  BInv'
<1>1. /\ IInv'
      /\ (status \in [Models -> Outcomes])' /\ (pos \in Nat \ {0})'
      /\ EntriesArePrefix' /\ BuiltOnBuilt'
      /\ Blocking(Current)' = Blocking(Current) /\ (DOMAIN order)' = DOMAIN order
      /\ Current' = Current /\ loop' = loop /\ pos' = pos
  BY QuietStep
<1>2. RunsUnblocked'
  BY <1>1 DEF RunsUnblocked
<1>3. pc' \in {"compile", "gate", "schemas"} => pos' = 1
  BY <1>1 DEF BInv
<1>4. pc' # "compile" => loop' = "sorted"
  BY <1>1
<1>. QED
  BY <1>1, <1>2, <1>3, <1>4 DEF BInv

\* A step that writes the entry of the model at hand.
LEMMA EnterStep ==
  ASSUME BInv, loop = "sorted", pos \in DOMAIN order, UNCHANGED orderVars,
         NEW outcome \in Outcomes \ {"none"}, pc' = "next",
         status' = [status EXCEPT ![Current] = outcome], pos' = pos + 1,
         outcome \in Built => Blocking(Current) = {},
         executed' \subseteq Models
  PROVE  BInv'
<1>2. /\ (status \in [Models -> Outcomes])'
      /\ EntriesArePrefix' /\ BuiltOnBuilt'
  BY EntryStep
<1>3. IInv' /\ loop' = loop
  BY NextIInv DEF BInv, orderVars
<1>4. pos' \in Nat \ {0}
  BY DEF BInv
<1>. QED
  BY <1>2, <1>3, <1>4 DEF BInv, RunsUnblocked, AtModel, NextIsGuarded

\* Either outcome of sending the statement at hand.
LEMMA SendStep ==
  ASSUME BInv, pc \in {"run", "rerun", "retry"}, UNCHANGED orderVars,
         NEW outcome \in Built, NEW next \in {"dropView", "ask"},
         Succeeds(outcome) \/ Refuses(next), next = "dropView" => pc = "run"
  PROVE  BInv'
<1>1. /\ loop = "sorted" /\ pos \in DOMAIN order /\ Blocking(Current) = {}
      /\ sql.makes \in Models
  BY DEF BInv, RunsUnblocked, AtModel, NextIsGuarded
<1>2. CASE Succeeds(outcome)
  <2>1. Enter(outcome) /\ executed' \subseteq Models
    BY <1>1, <1>2 DEF Succeeds, Executes, Misread, BInv
  <2>2. outcome \in Outcomes \ {"none"}
    BY DEF Outcomes, Built
  <2>. QED
    BY <1>1, <2>1, <2>2, EnterStep DEF Enter
<1>3. CASE Refuses(next)
  <2>1. /\ UNCHANGED <<orderVars, status, pos>> /\ pc' = next /\ sql' = sql
        /\ executed' \subseteq Models
    BY <1>1, <1>3 DEF Refuses, BInv
  <2>2. NextIsGuarded'
    BY <1>1, <2>1 DEF NextIsGuarded
  <2>. QED
    BY <1>1, <2>1, <2>2, MoveStep
<1>. QED
  BY <1>2, <1>3

LEMMA NextBInv == BInv /\ [Next]_vars => BInv'
<1>. SUFFICES ASSUME BInv, [Next]_vars PROVE BInv'
  OBVIOUS
<1>. USE DEF AtModel
<1>1. CASE Compile
  BY <1>1, CompileStep
<1>2. CASE StatementGate
  BY <1>2, MoveStep DEF StatementGate, NextIsGuarded, BInv
<1>3. CASE SourceGate
  BY <1>3, MoveStep DEF SourceGate, NextIsGuarded, BInv
<1>4. CASE CreateSchemas
  BY <1>4, MoveStep DEF CreateSchemas, NextIsGuarded, BInv
<1>5. CASE SkipModel
  <2>1. /\ loop = "sorted" /\ pos \in DOMAIN order /\ UNCHANGED orderVars
        /\ executed' \subseteq Models /\ pc' = "next" /\ pos' = pos + 1
        /\ status' = [status EXCEPT ![Current] = "skipped"]
    BY <1>5 DEF SkipModel, BInv, IInv, OrderTypeOK
  <2>2. "skipped" \in Outcomes \ {"none"} /\ "skipped" \notin Built
    BY DEF Outcomes, Built
  <2>. QED
    BY <2>1, <2>2, EnterStep
<1>6. CASE BeginModel
  <2>1. /\ UNCHANGED <<orderVars, status, pos>> /\ pc' = "run" /\ loop = "sorted"
        /\ executed' \subseteq Models /\ Blocking(Current) = {}
        /\ pos \in DOMAIN order /\ sql' = Compiled(Current)
    BY <1>6 DEF BeginModel, BInv, IInv, OrderTypeOK
  <2>2. Current \in Models
    BY <2>1 DEF BInv, IInv, OrderTypeOK, Current
  <2>3. NextIsGuarded'
    BY <2>1, <2>2 DEF NextIsGuarded, Compiled
  <2>. QED
    BY <2>1, <2>3, MoveStep
<1>7. CASE Respond
  BY <1>7, MoveStep DEF Respond, NextIsGuarded, BInv
<1>8. CASE FirstRun
  <2>1. /\ pc = "run" /\ UNCHANGED orderVars
        /\ Succeeds("created") \/ Refuses("dropView") \/ Refuses("ask")
    BY <1>8 DEF FirstRun
  <2>2. "created" \in Built
    BY DEF Built
  <2>. QED
    BY <2>1, <2>2, SendStep
<1>9. CASE DropView
  <2>1. /\ UNCHANGED <<orderVars, status, pos>> /\ pc' = "rerun" /\ loop = "sorted"
        /\ executed' \subseteq Models /\ sql' = sql /\ pc = "dropView"
    BY <1>9 DEF DropView, BInv
  <2>2. NextIsGuarded'
    BY <2>1 DEF BInv, NextIsGuarded
  <2>. QED
    BY <2>1, <2>2, MoveStep DEF BInv, RunsUnblocked
<1>10. CASE Rerun \/ Retry
  <2>1. /\ pc \in {"rerun", "retry"} /\ UNCHANGED orderVars
        /\ Succeeds("repaired") \/ Refuses("ask")
    BY <1>10 DEF Rerun, Retry
  <2>2. "repaired" \in Built
    BY DEF Built
  <2>. QED
    BY <2>1, <2>2, SendStep
<1>11. CASE GiveUp \/ NoRepair
  <2>1. /\ pc = "ask" /\ UNCHANGED orderVars /\ Enter("failed")
        /\ executed' \subseteq Models
    BY <1>11 DEF GiveUp, NoRepair, BInv
  <2>2. "failed" \in Outcomes \ {"none"} /\ "failed" \notin Built
    BY DEF Outcomes, Built
  <2>3. loop = "sorted" /\ pos \in DOMAIN order
    BY <2>1 DEF BInv, RunsUnblocked
  <2>. QED
    BY <2>1, <2>2, <2>3, EnterStep DEF Enter
<1>12. CASE Repair
  <2>1. /\ UNCHANGED <<orderVars, status, pos>> /\ pc = "ask" /\ sql' \in Statements
        /\ pc' = (IF sql'.makes = NotACreate THEN "ask" ELSE "retry")
        /\ executed' \subseteq Models
    BY <1>12 DEF Repair, Answers, BInv
  <2>2. NextIsGuarded'
    BY <2>1 DEF NextIsGuarded, Statements
  <2>. QED
    BY <2>1, <2>2, MoveStep DEF BInv, RunsUnblocked
<1>13. CASE LateEffect \/ UNCHANGED vars
  <2>1. /\ UNCHANGED <<orderVars, status, pos>> /\ pc' = pc /\ sql' = sql
        /\ executed' \subseteq Models
    BY <1>13 DEF LateEffect, vars, buildVars, BInv
  <2>2. NextIsGuarded'
    BY <2>1 DEF BInv, NextIsGuarded
  <2>. QED
    BY <2>1, <2>2, MoveStep DEF BInv, RunsUnblocked
<1>. QED
  BY <1>1, <1>2, <1>3, <1>4, <1>5, <1>6, <1>7, <1>8, <1>9, <1>10, <1>11, <1>12, <1>13
  DEF Next, Handler

LEMMA BuildInductive == Spec => []BInv
<1>. QED
  BY InitBInv, NextBInv, PTL DEF Spec

-----------------------------------------------------------------------------
(* The types of the rest. *)

Points == {"compile", "gate", "schemas", "next", "run", "dropView", "rerun", "ask", "retry", "answered"}

\* What the invariant does not speak of.
RestTyped ==
  /\ pc \in Points
  /\ sql \in Statements /\ attempt \in 0..MaxRepairs
  /\ answer \in {"none", "success", "incomplete", "refused", "needsSource", "noSchema"}
  /\ before \in [Models -> {"absent", "table", "view"}]
  /\ object \in [Models -> {"absent", "table", "view", "new"}]
  /\ late \subseteq {"create", "drop"} \X (Models \cup {NotACreate})
  /\ unread \subseteq Models

LEMMA CompiledIs == \A m \in Models : Compiled(m) \in Statements
BY BuildAssumption DEF Compiled, Statements

LEMMA FirstStatement == Compiled(Input[1]) \in Statements /\ 0 \in 0..MaxRepairs
<1>1. Input[1] \in Models
  BY InputAssumption DEF Models
<1>. QED
  BY <1>1, CompiledIs, BuildAssumption

LEMMA InitRest == Init => RestTyped
<1>. SUFFICES ASSUME Init PROVE RestTyped
  OBVIOUS
<1>2. sql \in Statements /\ attempt \in 0..MaxRepairs
  BY FirstStatement DEF Init
<1>. QED
  BY <1>2 DEF Init, RestTyped, Points

\* The object of the model at hand, or of a statement, is all a step changes.
LEMMA ObjectTyped ==
  ASSUME NEW o \in [Models -> {"absent", "table", "view", "new"}], NEW m,
         NEW x \in {"absent", "new"}
  PROVE  /\ [o EXCEPT ![m] = x] \in [Models -> {"absent", "table", "view", "new"}]
         /\ [o EXCEPT ![m] = IF @ = "view" THEN "absent" ELSE @]
              \in [Models -> {"absent", "table", "view", "new"}]
OBVIOUS

LEMMA SendTyped ==
  ASSUME RestTyped, NEW outcome, NEW next \in {"dropView", "ask"}, Succeeds(outcome) \/ Refuses(next),
         UNCHANGED <<answer, before>>, Current \in Models
  PROVE  RestTyped'
<1>1. sql.makes \in Models \cup {NotACreate}
  BY DEF RestTyped, Statements
<1>2. sql' \in Statements /\ attempt' \in 0..MaxRepairs /\ pc' \in Points /\ unread' \subseteq Models
  BY FirstStatement DEF Succeeds, Executes, Misread, Refuses, Enter, Points, RestTyped
<1>3. object' \in [Models -> {"absent", "table", "view", "new"}]
  BY ObjectTyped DEF Succeeds, Executes, Misread, Refuses, RestTyped
<1>4. late' \subseteq {"create", "drop"} \X (Models \cup {NotACreate})
  BY <1>1 DEF Succeeds, Executes, Misread, Refuses, RestTyped
<1>. QED
  BY <1>2, <1>3, <1>4 DEF RestTyped

LEMMA RestStep == BInv /\ RestTyped /\ [Next]_vars => RestTyped'
<1>. SUFFICES ASSUME BInv, RestTyped, [Next]_vars PROVE RestTyped'
  OBVIOUS
<1>0. AtModel => Current \in Models
  BY DEF BInv, RunsUnblocked, IInv, OrderTypeOK, Current
<1>1. CASE Compile \/ UNCHANGED vars
  BY <1>1 DEF Compile, vars, buildVars, RestTyped
<1>2. CASE StatementGate \/ SourceGate \/ CreateSchemas \/ SkipModel \/ Respond
  BY <1>2 DEF StatementGate, SourceGate, CreateSchemas, SkipModel, Respond, RestTyped, Points
<1>3. CASE BeginModel
  <2>1. Current \in Models /\ 0 \in 0..MaxRepairs
    BY <1>3, BuildAssumption DEF BeginModel, BInv, IInv, OrderTypeOK, Current
  <2>. QED
    BY <1>3, <2>1, CompiledIs DEF BeginModel, RestTyped, Points
<1>4. CASE FirstRun \/ Rerun \/ Retry
  BY <1>0, <1>4, SendTyped DEF FirstRun, Rerun, Retry, AtModel
<1>5. CASE DropView
  <2>1. Current \in Models
    BY <1>0, <1>5 DEF DropView, AtModel
  <2>2. object' \in [Models -> {"absent", "table", "view", "new"}]
    BY <1>5, ObjectTyped DEF DropView, RestTyped
  <2>3. late' \subseteq {"create", "drop"} \X (Models \cup {NotACreate})
    BY <1>5, <2>1 DEF DropView, RestTyped
  <2>. QED
    BY <1>5, <2>2, <2>3 DEF DropView, RestTyped, Points
<1>6. CASE GiveUp \/ NoRepair
  BY <1>6, FirstStatement DEF GiveUp, NoRepair, Enter, RestTyped, Points
<1>7. CASE Repair
  <2>1. sql' \in Statements /\ attempt' = attempt + 1 /\ attempt # MaxRepairs
    BY <1>7 DEF Repair, Answers, Exhausted
  <2>2. attempt' \in 0..MaxRepairs
    BY <2>1, BuildAssumption DEF RestTyped
  <2>. QED
    BY <1>7, <2>1, <2>2 DEF Repair, RestTyped, Points
<1>8. CASE LateEffect
  <2>1. object' \in [Models -> {"absent", "table", "view", "new"}]
    BY <1>8, ObjectTyped DEF LateEffect, RestTyped
  <2>2. late' \subseteq {"create", "drop"} \X (Models \cup {NotACreate})
    BY <1>8 DEF LateEffect, RestTyped
  <2>. QED
    BY <1>8, <2>1, <2>2 DEF LateEffect, RestTyped
<1>. QED
  BY <1>1, <1>2, <1>3, <1>4, <1>5, <1>6, <1>7, <1>8 DEF Next, Handler

\* The order is no longer than the request, and the place in it at most one past
\* its end.
LEMMA PosIs == BInv => pos \in 1..(Len(Input) + 1)
<1>. SUFFICES ASSUME BInv PROVE pos \in 1..(Len(Input) + 1)
  OBVIOUS
<1>1. pos \in Nat \ {0} /\ Len(Input) \in Nat
  BY ModelsFinite DEF BInv
<1>2. CASE pos = 1
  BY <1>1, <1>2
<1>3. CASE pos # 1
  <2>1. pos - 1 \in DOMAIN order
    BY <1>1, <1>3 DEF BInv, EntriesArePrefix
  <2>2. /\ order \in Seq(Models) /\ DOMAIN order = 1..Len(order) /\ Len(order) \in Nat
        /\ \A i, k \in DOMAIN order : order[i] = order[k] => i = k
    BY <1>3 DEF BInv, IInv, OrderTypeOK, Result, NothingLost
  <2>3. order \in Injection(1..Len(order), Models)
    BY <2>2 DEF Injection, IsInjective
  <2>4. Cardinality(1..Len(order)) <= Len(Input)
    BY <2>3, ModelsFinite, FS_Injection
  <2>5. Cardinality(1..Len(order)) = Len(order)
    BY <2>2, FS_Interval
  <2>. QED
    BY <1>1, <2>1, <2>2, <2>4, <2>5
<1>. QED
  BY <1>2, <1>3

\* The variables of a build request keep their types; no model is asked about more
\* often than is allowed.
THEOREM BuildTypeCorrect == Spec => []TypeOK
<1>1. BInv /\ RestTyped => TypeOK
  <2>. SUFFICES ASSUME BInv, RestTyped PROVE TypeOK
    OBVIOUS
  <2>1. OrderTypeOK /\ status \in [Models -> Built \cup {"none", "failed", "skipped"}]
        /\ executed \in SUBSET (Models \cup {NotACreate})
    BY DEF BInv, IInv, Outcomes
  <2>. QED
    BY <2>1, PosIs DEF RestTyped, TypeOK, Points
<1>. QED
  BY <1>1, InitRest, RestStep, BuildInductive, PTL DEF Spec

-----------------------------------------------------------------------------
\* No model counts as built on an upstream that this request did not build.
THEOREM BuiltOnBuiltAlways == Spec => []BuiltOnBuilt
<1>1. BInv => BuiltOnBuilt
  BY DEF BInv
<1>. QED
  BY <1>1, BuildInductive, PTL

\* Whatever the AI answers, only single CREATE statements are sent.
THEOREM OnlyGuardedRunsAlways == Spec => []OnlyGuardedRuns
<1>1. BInv => OnlyGuardedRuns
  BY BuildAssumption DEF BInv, OnlyGuardedRuns
<1>. QED
  BY <1>1, BuildInductive, PTL

-----------------------------------------------------------------------------
(* What is lost, and what success says. An answer of the AI that makes      *)
(* another table than the one it was asked for is left out here.            *)

\* The model at hand, whose object may be gone until a statement replaces it.
Trying(m) == pc \in {"rerun", "ask", "retry"} /\ m = Current
Accounted(m) == status[m] = "failed" \/ m \in unread \/ Trying(m)

CatalogTyped ==
  /\ before \in [Models -> {"absent", "table", "view"}]
  /\ object \in [Models -> {"absent", "table", "view", "new"}]
  /\ late \in SUBSET ({"create", "drop"} \X (Models \cup {NotACreate}))

\* Whoever lost its object, or may yet lose it to a late DROP VIEW, is accounted
\* for; a built model has its new object, or nobody has read what became of it.
ObjectsAccounted ==
  \A m \in Models :
    /\ before[m] # "absent" /\ object[m] = "absent" => Accounted(m)
    /\ <<"drop", m>> \in late /\ object[m] = "view" => Accounted(m)
    /\ status[m] \in Built => object[m] = "new" \/ m \in unread

\* A skip goes back to a failure, and the answer says what became of the models.
AnswerRight ==
  /\ (\E m \in Models : status[m] = "skipped") => \E m \in Models : status[m] = "failed"
  /\ pc # "answered" => answer = "none"
  /\ answer = "success" => \A m \in Models : status[m] \in Built
  /\ answer = "incomplete" => \E m \in Models : status[m] = "failed"

SendsCurrent == pc \in {"run", "dropView", "rerun", "retry"} => sql.makes = Current

LInv == CatalogTyped /\ ObjectsAccounted /\ AnswerRight /\ SendsCurrent

\* The model at hand has no entry yet.
LEMMA CurrentIsNew ==
  ASSUME BInv, loop = "sorted", pos \in DOMAIN order
  PROVE  Current \in Models /\ status[Current] = "none"
<1>1. /\ order \in Seq(Models) /\ DOMAIN order = 1..Len(order)
      /\ \A i, k \in DOMAIN order : order[i] = order[k] => i = k
  BY DEF BInv, IInv, OrderTypeOK, Result, NothingLost
<1>2. Current \in Models
  BY <1>1 DEF Current
<1>3. ASSUME status[Current] # "none" PROVE FALSE
  <2>1. PICK i \in 1..(pos - 1) : order[i] = Current
    BY <1>2, <1>3 DEF BInv, EntriesArePrefix
  <2>2. i \in DOMAIN order /\ i = pos
    BY <2>1, <1>1 DEF BInv, EntriesArePrefix, Current
  <2>. QED
    BY <2>1, <2>2 DEF BInv
<1>. QED
  BY <1>2, <1>3

LEMMA AtModelIsNew ==
  ASSUME BInv, AtModel
  PROVE  loop = "sorted" /\ pos \in DOMAIN order /\ Current \in Models /\ status[Current] = "none"
<1>1. loop = "sorted" /\ pos \in DOMAIN order
  BY DEF BInv, RunsUnblocked, AtModel
<1>. QED
  BY <1>1, CurrentIsNew

LEMMA InitLInv == Init => LInv
BY DEF Init, LInv, CatalogTyped, ObjectsAccounted, AnswerRight, SendsCurrent, Built

\* An entry for the model at hand that has its object, or has failed.
LEMMA EnterAccounts ==
  ASSUME LInv, Current \in Models, status \in [Models -> Outcomes], status[Current] = "none",
         pc # "answered", UNCHANGED <<order, answer, before>>, CatalogTyped',
         NEW outcome \in Outcomes \ {"none", "skipped"}, Enter(outcome),
         \A m \in Models \ {Current} : object'[m] = object[m],
         \A m \in Models \ {Current} : <<"drop", m>> \in late' => <<"drop", m>> \in late,
         unread \subseteq unread', outcome \in Built => object'[Current] = "new" \/ Current \in unread'
  PROVE  LInv'
<1>1. /\ status' = [status EXCEPT ![Current] = outcome] /\ pc' = "next"
      /\ status'[Current] = outcome /\ \A m \in Models \ {Current} : status'[m] = status[m]
  BY DEF Enter
<1>2. outcome \in Built \/ outcome = "failed"
  BY DEF Outcomes
<1>3. ObjectsAccounted'
  <2>. SUFFICES ASSUME NEW m \in Models
                PROVE  /\ before[m] # "absent" /\ object'[m] = "absent" => status'[m] = "failed" \/ m \in unread'
                       /\ <<"drop", m>> \in late' /\ object'[m] = "view" => status'[m] = "failed" \/ m \in unread'
                       /\ status'[m] \in Built => object'[m] = "new" \/ m \in unread'
    BY DEF ObjectsAccounted, Accounted
  <2>1. CASE m = Current
    BY <2>1, <1>1, <1>2 DEF Built
  <2>2. CASE m # Current
    BY <2>2, <1>1 DEF LInv, ObjectsAccounted, Accounted, Trying
  <2>. QED
    BY <2>1, <2>2
<1>4. AnswerRight'
  BY <1>1 DEF LInv, AnswerRight, Outcomes
<1>. QED
  BY <1>1, <1>3, <1>4 DEF LInv, SendsCurrent

\* A step that touches neither entries nor objects, and does not leave a model.
LEMMA StayAccounts ==
  ASSUME LInv, UNCHANGED <<order, pos, status, before, object, unread>>, CatalogTyped',
         \A m \in Models : <<"drop", m>> \in late' => <<"drop", m>> \in late,
         \A m : Trying(m) => Trying(m)',
         AnswerRight', SendsCurrent'
  PROVE  LInv'
BY DEF LInv, ObjectsAccounted, Accounted

\* Either outcome of sending the statement at hand.
LEMMA SendAccounts ==
  ASSUME BInv, LInv, pc \in {"run", "rerun", "retry"}, UNCHANGED <<order, answer, before>>,
         NEW outcome \in Built, NEW next \in {"dropView", "ask"},
         Succeeds(outcome) \/ Refuses(next), next = "dropView" => pc = "run"
  PROVE  LInv'
<1>1. /\ Current \in Models /\ status[Current] = "none" /\ sql.makes = Current
      /\ status \in [Models -> Outcomes]
  BY AtModelIsNew DEF AtModel, LInv, SendsCurrent, BInv
<1>2. CASE Succeeds(outcome)
  <2>1. /\ Enter(outcome) /\ unread \subseteq unread'
        /\ late' \in {late, late \cup {<<"create", Current>>}}
        /\ \/ object' = [object EXCEPT ![Current] = "new"]
           \/ object' = object /\ Current \in unread'
    BY <1>1, <1>2 DEF Succeeds, Executes, Misread
  <2>2. /\ CatalogTyped'
        /\ object'[Current] = "new" \/ Current \in unread'
        /\ \A m \in Models \ {Current} : object'[m] = object[m]
        /\ \A m \in Models : <<"drop", m>> \in late' => <<"drop", m>> \in late
    BY <1>1, <2>1 DEF LInv, CatalogTyped
  <2>3. outcome \in Outcomes \ {"none", "skipped"}
    BY DEF Outcomes, Built
  <2>. QED
    BY <1>1, <2>1, <2>2, <2>3, EnterAccounts
<1>3. CASE Refuses(next)
  <2>1. /\ UNCHANGED <<order, pos, status, before, object, sql, answer, unread>> /\ pc' = next
        /\ late' \in {late, late \cup {<<"create", Current>>}}
    BY <1>1, <1>3 DEF Refuses
  <2>2. CatalogTyped' /\ \A m \in Models : <<"drop", m>> \in late' => <<"drop", m>> \in late
    BY <1>1, <2>1 DEF LInv, CatalogTyped
  <2>3. (\A m : Trying(m) => Trying(m)') /\ SendsCurrent'
    BY <1>1, <2>1 DEF Trying, Current, SendsCurrent
  <2>4. AnswerRight'
    BY <2>1 DEF LInv, AnswerRight
  <2>. QED
    BY <2>1, <2>2, <2>3, <2>4, StayAccounts
<1>. QED
  BY <1>2, <1>3

\* Before the first model nothing is being tried, and when the last has its entry
\* every model has one.
LEMMA GatesAccount ==
  ASSUME BInv, LInv, Compile \/ StatementGate \/ SourceGate \/ CreateSchemas \/ BeginModel \/ Respond
  PROVE  LInv'
<1>1. /\ UNCHANGED <<pos, status, before, object, late, unread>> /\ answer = "none" /\ \A m : ~Trying(m)
      /\ pc' \in {"compile", "gate", "answered", "schemas", "next", "run"}
  BY DEF Compile, StatementGate, SourceGate, CreateSchemas, BeginModel, Respond, buildVars,
         LInv, AnswerRight, Trying
<1>2. CatalogTyped'
  BY <1>1 DEF LInv, CatalogTyped
<1>3. ObjectsAccounted'
  BY <1>1 DEF LInv, ObjectsAccounted, Accounted
<1>4. SendsCurrent'
  BY <1>1 DEF SendsCurrent, Compile, StatementGate, SourceGate, CreateSchemas, BeginModel, Respond,
              Compiled, Current, orderVars, buildVars
<1>5. AnswerRight'
  <2>1. CASE Respond
    <3>1. \A m \in Models : status[m] \in Outcomes \ {"none"}
      <4>1. /\ Elements(order) = Models /\ order \in Seq(Models) /\ pos > Len(order)
            /\ pos \in Nat \ {0}
        BY <2>1 DEF BInv, IInv, OrderTypeOK, Result, NothingLost, Respond
      <4>2. ASSUME NEW m \in Models PROVE status[m] # "none"
        <5>1. PICK i \in 1..Len(order) : order[i] = m
          BY <4>1 DEF Elements
        <5>. QED
          BY <4>1, <5>1 DEF BInv, EntriesArePrefix
      <4>. QED
        BY <4>2 DEF BInv
    <3>2. (\A m \in Models : status[m] \in Built) \/ \E m \in Models : status[m] = "failed"
      BY <3>1 DEF LInv, AnswerRight, Outcomes
    <3>. QED
      BY <1>1, <2>1, <3>2 DEF LInv, AnswerRight, Respond
  <2>2. CASE ~Respond
    BY <1>1, <2>2 DEF LInv, AnswerRight, Compile, StatementGate, SourceGate, CreateSchemas, BeginModel, buildVars
  <2>. QED
    BY <2>1, <2>2
<1>. QED
  BY <1>2, <1>3, <1>4, <1>5 DEF LInv

\* A skipped model has a failed or skipped dependency, so a failed model is there.
LEMMA SkipAccounts ==
  ASSUME BInv, LInv, SkipModel
  PROVE  LInv'
<1>1. /\ pc = "next" /\ pos \in DOMAIN order /\ loop = "sorted" /\ Blocking(Current) # {}
      /\ UNCHANGED <<orderVars, pc, sql, answer, before, object, late, unread>>
      /\ status' = [status EXCEPT ![Current] = "skipped"]
  BY DEF SkipModel, BInv, IInv, OrderTypeOK
<1>2. Current \in Models /\ status[Current] = "none" /\ status \in [Models -> Outcomes]
  BY <1>1, CurrentIsNew DEF BInv
<1>3. status'[Current] = "skipped" /\ \A m \in Models \ {Current} : status'[m] = status[m]
  BY <1>1, <1>2
<1>4. ObjectsAccounted'
  BY <1>1, <1>2, <1>3 DEF LInv, ObjectsAccounted, Accounted, Trying, Built
<1>5. AnswerRight'
  <2>1. PICK d \in Edges(Current) : status[d] \in {"failed", "skipped"}
    BY <1>1 DEF Blocking
  <2>2. d \in Models
    BY <2>1, <1>2 DEF BInv, IInv, OrderTypeOK, Edges
  <2>3. PICK f \in Models : status[f] = "failed"
    BY <2>1, <2>2 DEF LInv, AnswerRight
  <2>4. status'[f] = "failed"
    BY <2>3, <1>2, <1>3
  <2>. QED
    BY <2>4, <1>1 DEF LInv, AnswerRight
<1>. QED
  BY <1>1, <1>4, <1>5 DEF LInv, CatalogTyped, SendsCurrent

\* DROP VIEW takes the object of the model at hand, now or later.
LEMMA DropAccounts ==
  ASSUME BInv, LInv, DropView
  PROVE  LInv'
<1>1. /\ pc = "dropView" /\ pc' = "rerun" /\ Current \in Models /\ status[Current] = "none"
      /\ UNCHANGED <<order, pos, sql, status, answer, before, unread>>
      /\ \A m \in Models \ {Current} :
           object'[m] = object[m] /\ (<<"drop", m>> \in late' => <<"drop", m>> \in late)
  BY AtModelIsNew DEF DropView, AtModel, orderVars, LInv, CatalogTyped
<1>2. CatalogTyped'
  BY <1>1 DEF DropView, LInv, CatalogTyped
<1>3. Trying(Current)' /\ Current' = Current
  BY <1>1 DEF Trying, Current
<1>4. ObjectsAccounted'
  <2>. SUFFICES ASSUME NEW m \in Models
                PROVE  /\ before[m] # "absent" /\ object'[m] = "absent" => Accounted(m)'
                       /\ <<"drop", m>> \in late' /\ object'[m] = "view" => Accounted(m)'
                       /\ status'[m] \in Built => object'[m] = "new" \/ m \in unread'
    BY <1>1 DEF ObjectsAccounted
  <2>1. CASE m = Current
    BY <2>1, <1>1, <1>3 DEF Accounted, Built
  <2>2. CASE m # Current
    BY <2>2, <1>1 DEF LInv, ObjectsAccounted, Accounted, Trying
  <2>. QED
    BY <2>1, <2>2
<1>5. AnswerRight' /\ SendsCurrent'
  BY <1>1, <1>3 DEF LInv, AnswerRight, SendsCurrent
<1>. QED
  BY <1>2, <1>4, <1>5 DEF LInv

\* An answer of the AI makes the table at hand, or nothing.
LEMMA RepairAccounts ==
  ASSUME AIKeepsTarget, BInv, LInv, Repair
  PROVE  LInv'
<1>1. /\ UNCHANGED <<order, pos, status, before, object, late, answer, unread>>
      /\ pc = "ask" /\ sql'.makes \in {Current, NotACreate}
      /\ pc' = IF sql'.makes = NotACreate THEN "ask" ELSE "retry"
  BY DEF Repair, Answers, orderVars
<1>2. (\A m : Trying(m) => Trying(m)') /\ SendsCurrent' /\ CatalogTyped'
  BY <1>1 DEF Trying, Current, SendsCurrent, LInv, CatalogTyped
<1>3. AnswerRight'
  BY <1>1 DEF LInv, AnswerRight
<1>. QED
  BY <1>1, <1>2, <1>3, StayAccounts

\* What takes effect late makes a table new, or drops a view that is accounted for.
LEMMA LateAccounts ==
  ASSUME LInv, LateEffect
  PROVE  LInv'
<1>1. PICK d \in late :
        /\ late' = late \ {d}
        /\ object' = IF d[1] = "create" THEN [object EXCEPT ![d[2]] = "new"]
                     ELSE [object EXCEPT ![d[2]] = IF @ = "view" THEN "absent" ELSE @]
  BY DEF LateEffect
<1>2. UNCHANGED <<order, pc, pos, sql, status, answer, before, unread>> /\ \A m : Trying(m)' = Trying(m)
  BY DEF LateEffect, orderVars, Trying, Current
<1>3. d = <<d[1], d[2]>> /\ d[1] \in {"create", "drop"}
  BY <1>1 DEF LInv, CatalogTyped
<1>4. CatalogTyped'
  BY <1>1, <1>2 DEF LInv, CatalogTyped
<1>5. ObjectsAccounted'
  <2>. SUFFICES ASSUME NEW m \in Models
                PROVE  /\ before[m] # "absent" /\ object'[m] = "absent" => Accounted(m)
                       /\ <<"drop", m>> \in late' /\ object'[m] = "view" => Accounted(m)
                       /\ status[m] \in Built => object'[m] = "new" \/ m \in unread
    BY <1>2 DEF ObjectsAccounted, Accounted
  <2>1. CASE m # d[2] \/ (d[1] = "drop" /\ object[m] # "view")
    <3>1. object'[m] = object[m]
      BY <1>1, <1>3, <2>1 DEF LInv, CatalogTyped
    <3>. QED
      BY <3>1, <1>1 DEF LInv, ObjectsAccounted
  <2>2. CASE m = d[2] /\ d[1] = "create"
    BY <1>1, <2>2 DEF LInv, CatalogTyped
  <2>3. CASE m = d[2] /\ d[1] = "drop" /\ object[m] = "view"
    <3>1. object'[m] = "absent" /\ <<"drop", m>> \in late
      BY <1>1, <1>3, <2>3 DEF LInv, CatalogTyped
    <3>. QED
      BY <3>1, <2>3 DEF LInv, ObjectsAccounted
  <2>. QED
    BY <1>3, <2>1, <2>2, <2>3
<1>6. AnswerRight' /\ SendsCurrent'
  BY <1>2 DEF LInv, AnswerRight, SendsCurrent, Current
<1>. QED
  BY <1>4, <1>5, <1>6 DEF LInv

LEMMA NextLInv ==
  ASSUME AIKeepsTarget
  PROVE  BInv /\ LInv /\ [Next]_vars => LInv'
<1>. SUFFICES ASSUME BInv, LInv, [Next]_vars PROVE LInv'
  OBVIOUS
<1>1. CASE Compile \/ StatementGate \/ SourceGate \/ CreateSchemas \/ BeginModel \/ Respond
  BY <1>1, GatesAccount
<1>2. CASE SkipModel
  BY <1>2, SkipAccounts
<1>3. CASE FirstRun \/ Rerun \/ Retry
  <2>1. /\ pc \in {"run", "rerun", "retry"} /\ UNCHANGED <<order, answer, before>>
        /\ \/ Succeeds("created") \/ Succeeds("repaired") \/ Refuses("ask")
           \/ pc = "run" /\ Refuses("dropView")
    BY <1>3 DEF FirstRun, Rerun, Retry, orderVars
  <2>2. "created" \in Built /\ "repaired" \in Built
    BY DEF Built
  <2>. QED
    BY <2>1, <2>2, SendAccounts
<1>4. CASE DropView
  BY <1>4, DropAccounts
<1>5. CASE GiveUp \/ NoRepair
  <2>1. /\ pc = "ask" /\ Enter("failed") /\ UNCHANGED <<order, answer, before, object, late, unread>>
    BY <1>5 DEF GiveUp, NoRepair, orderVars
  <2>2. Current \in Models /\ status[Current] = "none" /\ status \in [Models -> Outcomes]
    BY <2>1, AtModelIsNew DEF AtModel, BInv
  <2>3. "failed" \in Outcomes \ {"none", "skipped"} /\ "failed" \notin Built /\ CatalogTyped'
    BY <2>1 DEF Outcomes, Built, LInv, CatalogTyped
  <2>. QED
    BY <2>1, <2>2, <2>3, EnterAccounts
<1>6. CASE Repair
  BY <1>6, RepairAccounts
<1>7. CASE LateEffect
  BY <1>7, LateAccounts
<1>8. CASE UNCHANGED vars
  BY <1>8 DEF vars, orderVars, buildVars, LInv, CatalogTyped, ObjectsAccounted, AnswerRight,
              SendsCurrent, Accounted, Trying, Current
<1>. QED
  BY <1>1, <1>2, <1>3, <1>4, <1>5, <1>6, <1>7, <1>8 DEF Next, Handler

\* If the AI keeps to the table it was asked for, no model loses what the catalog
\* held under its name without being reported as failed.
THEOREM LossIsReportedAlways == ASSUME AIKeepsTarget PROVE Spec => []LossIsReported
<1>1. LInv => LossIsReported
  BY DEF LInv, AnswerRight, ObjectsAccounted, Accounted, Trying, LossIsReported
<1>. QED
  BY <1>1, BuildInductive, InitLInv, NextLInv, PTL DEF Spec

\* If the AI keeps to the table it was asked for, an answered success has made
\* every table anew, and an answer that is none names a failed model.
THEOREM SuccessIsPopulatedAlways == ASSUME AIKeepsTarget PROVE Spec => []SuccessIsPopulated
<1>1. LInv => SuccessIsPopulated
  BY DEF LInv, AnswerRight, ObjectsAccounted, SuccessIsPopulated
<1>. QED
  BY <1>1, BuildInductive, InitLInv, NextLInv, PTL DEF Spec

-----------------------------------------------------------------------------
(* The refinement: a step that writes an entry is BuildRequest's Enter, the  *)
(* ways out before the first model are its Refuse, and the repair loop with  *)
(* all it does at the warehouse stutters.                                    *)

Unanswered == pc # "answered" => answer = "none"

LEMMA StaysUnanswered == Unanswered /\ [Next]_vars => Unanswered'
BY DEF Unanswered, Next, Handler, Compile, StatementGate, SourceGate, CreateSchemas, SkipModel,
       BeginModel, Respond, FirstRun, DropView, Rerun, GiveUp, NoRepair, Repair, Retry, LateEffect,
       Succeeds, Executes, Misread, Refuses, Enter, vars, buildVars

\* Before the first model no model has an entry.
LEMMA NoneEntered ==
  ASSUME BInv, pc \in {"compile", "gate", "schemas"}
  PROVE  \A m \in Models : status[m] = "none"
<1>1. pos = 1 /\ 1..(pos - 1) = {}
  BY DEF BInv
<1>. QED
  BY <1>1 DEF BInv, EntriesArePrefix

\* Past the last position every model has one.
LEMMA AllEntered ==
  ASSUME BInv, loop = "sorted", pos > Len(order)
  PROVE  \A m \in Models : status[m] # "none"
<1>1. Elements(order) = Models /\ order \in Seq(Models) /\ pos \in Nat \ {0}
  BY DEF BInv, IInv, OrderTypeOK, Result, NothingLost
<1>. TAKE m \in Models
<1>2. PICK i \in 1..Len(order) : order[i] = m
  BY <1>1 DEF Elements
<1>. QED
  BY <1>1, <1>2 DEF BInv, EntriesArePrefix

\* A graph without a cycle is one in which every set has a model that reads none
\* of the others; its sort then puts the upstreams of the model at hand before it.
LEMMA UpstreamsEntered ==
  ASSUME BInv, loop = "sorted", pos \in DOMAIN order, Request!Acyclic
  PROVE  \A d \in Edges(Current) : status[d] # "none"
<1>1. Current \in Models
  BY DEF BInv, IInv, OrderTypeOK, Current
<1>2. ~hasCycle
  <2>1. \A S \in SUBSET Models : ~Entangled(S)
    BY DEF Request!Acyclic, Entangled
  <2>. QED
    BY <2>1 DEF BInv, IInv, Result, CycleIsExact
<1>. TAKE d \in Edges(Current)
<1>3. PICK k \in 1..(pos - 1) : order[k] = d
  BY <1>2 DEF BInv, IInv, Result, DependenciesFirst, Before, Current
<1>. QED
  BY <1>3 DEF BInv, EntriesArePrefix

\* Writing the entry of the model at hand, skipped exactly if something blocks it.
LEMMA EnterRefines ==
  ASSUME BInv, Unanswered, pc # "answered", loop = "sorted", pos \in DOMAIN order,
         UNCHANGED <<orderVars, answer>>,
         NEW outcome \in Outcomes \ {"none"},
         status' = [status EXCEPT ![Current] = outcome],
         outcome = "skipped" <=> Blocking(Current) # {}
  PROVE  Request!Next
<1>1. Current \in Models /\ status[Current] = "none"
  BY CurrentIsNew
<1>2. answer = "none"
  BY DEF Unanswered
<1>3. Request!Acyclic => \A d \in Edges(Current) : status[d] # "none"
  BY UpstreamsEntered
<1>4. outcome = "skipped" <=> \E d \in Edges(Current) : status[d] \in Request!NotBuilt
  BY DEF Blocking, Request!NotBuilt
<1>5. [m \in Models |-> Edges(m)]' = [m \in Models |-> Edges(m)]
  BY DEF orderVars, Edges
<1>6. outcome \in Request!Built \cup Request!NotBuilt
  BY DEF Outcomes, Built, Request!Built, Request!NotBuilt
<1>7. Request!Enter(Current, outcome)
  BY <1>1, <1>2, <1>3, <1>4, <1>5 DEF Request!Enter
<1>. QED
  BY <1>1, <1>6, <1>7 DEF Request!Next

\* Within the attempts of a model: an entry that is no skip, or nothing to see.
LEMMA AttemptRefines ==
  ASSUME BInv, Unanswered, FirstRun \/ DropView \/ Rerun \/ GiveUp \/ NoRepair \/ Repair \/ Retry
  PROVE  [Request!Next]_(Request!vars)
<1>1. /\ pc # "answered" /\ loop = "sorted" /\ pos \in DOMAIN order /\ Blocking(Current) = {}
      /\ UNCHANGED <<orderVars, answer>>
  BY DEF BInv, RunsUnblocked, AtModel, FirstRun, DropView, Rerun, GiveUp, NoRepair, Repair, Retry
<1>2. \/ \E outcome \in {"created", "repaired", "failed"} :
           status' = [status EXCEPT ![Current] = outcome]
      \/ UNCHANGED status
  BY DEF FirstRun, DropView, Rerun, GiveUp, NoRepair, Repair, Retry, Succeeds, Executes, Misread,
         Refuses, Enter
<1>3. CASE UNCHANGED status
  <2>1. [m \in Models |-> Edges(m)]' = [m \in Models |-> Edges(m)]
    BY <1>1 DEF orderVars, Edges
  <2>. QED
    BY <1>1, <1>3, <2>1 DEF Request!vars
<1>4. CASE \E outcome \in {"created", "repaired", "failed"} :
             status' = [status EXCEPT ![Current] = outcome]
  <2>1. PICK outcome \in {"created", "repaired", "failed"} :
               status' = [status EXCEPT ![Current] = outcome]
    BY <1>4
  <2>2. outcome \in Outcomes \ {"none"} /\ (outcome = "skipped" <=> Blocking(Current) # {})
    BY <1>1 DEF Outcomes, Built
  <2>. QED
    BY <1>1, <2>1, <2>2, EnterRefines
<1>. QED
  BY <1>2, <1>3, <1>4

\* The gates let the request pass, or refuse it.
LEMMA GateRefines ==
  ASSUME BInv, Unanswered, StatementGate \/ SourceGate \/ CreateSchemas
  PROVE  [Request!Next]_(Request!vars)
<1>1. /\ pc \in {"compile", "gate", "schemas"} /\ UNCHANGED <<orderVars, status>>
      /\ answer' \in {answer, "refused", "needsSource", "noSchema"}
  BY DEF StatementGate, SourceGate, CreateSchemas
<1>2. answer = "none" /\ \A m \in Models : status[m] = "none"
  BY <1>1, NoneEntered DEF Unanswered
<1>3. [m \in Models |-> Edges(m)]' = [m \in Models |-> Edges(m)]
  BY <1>1 DEF orderVars, Edges
<1>. QED
  BY <1>1, <1>2, <1>3 DEF Request!vars, Request!Next, Request!Refuse

LEMMA StepRefines ==
  BInv /\ Unanswered /\ [Next]_vars => [Request!Next]_(Request!vars)
<1>. SUFFICES ASSUME BInv, Unanswered, [Next]_vars PROVE [Request!Next]_(Request!vars)
  OBVIOUS
<1>0. UNCHANGED <<refs, status, answer>> => UNCHANGED Request!vars
  BY DEF Edges, Request!vars
<1>1. CASE Compile
  BY <1>0, <1>1 DEF Compile, OrderNext, Seed, Pop, Relax, Finish, buildVars
<1>2. CASE StatementGate \/ SourceGate \/ CreateSchemas
  BY <1>2, GateRefines
<1>3. CASE SkipModel
  <2>1. /\ pc # "answered" /\ loop = "sorted" /\ pos \in DOMAIN order /\ Blocking(Current) # {}
        /\ UNCHANGED <<orderVars, answer>>
        /\ status' = [status EXCEPT ![Current] = "skipped"]
    BY <1>3 DEF SkipModel, BInv, IInv, OrderTypeOK
  <2>2. "skipped" \in Outcomes \ {"none"}
    BY DEF Outcomes
  <2>. QED
    BY <2>1, <2>2, EnterRefines
<1>4. CASE Respond
  <2>1. loop = "sorted" /\ pos > Len(order) /\ answer = "none" /\ UNCHANGED <<orderVars, status>>
    BY <1>4 DEF Respond, BInv, Unanswered
  <2>2. \A m \in Models : status[m] # "none"
    BY <2>1, AllEntered
  <2>3. [m \in Models |-> Edges(m)]' = [m \in Models |-> Edges(m)]
    BY <2>1 DEF orderVars, Edges
  <2>4. answer' = IF \A m \in Models : status[m] \in Request!Built THEN "success" ELSE "incomplete"
    BY <1>4 DEF Respond, Built, Request!Built
  <2>5. Request!Respond
    BY <2>1, <2>2, <2>3, <2>4 DEF Request!Respond
  <2>. QED
    BY <2>5 DEF Request!Next
<1>5. CASE FirstRun \/ DropView \/ Rerun \/ GiveUp \/ NoRepair \/ Repair \/ Retry
  BY <1>5, AttemptRefines
<1>6. CASE BeginModel \/ LateEffect \/ UNCHANGED vars
  BY <1>0, <1>6 DEF BeginModel, LateEffect, vars, buildVars, orderVars
<1>. QED
  BY <1>1, <1>2, <1>3, <1>4, <1>5, <1>6 DEF Next, Handler

LEMMA InitRefines == Init => Request!Init /\ Unanswered
<1>. SUFFICES ASSUME Init PROVE Request!Init /\ Unanswered
  OBVIOUS
<1>1. \A m \in Models : Edges(m) \in SUBSET Models /\ m \notin Edges(m)
  BY DEF Init, OrderInit, Edges
<1>2. [m \in Models |-> Edges(m)] \in [Models -> SUBSET Models]
  BY <1>1
<1>. QED
  BY <1>1, <1>2 DEF Init, Request!Init, Unanswered

\* A build request keeps what BuildRequest promises, for any list, graph and number
\* of repairs, whatever the warehouse and the AI do: it is refused before the first
\* model, or each model gets one final entry after those of its upstreams (unless
\* a cycle gave up the order), "skipped" exactly when an upstream was not built.
THEOREM BuildRefines == Spec => ImplementsRequest
<1>. QED
  BY BuildInductive, InitRefines, StaysUnanswered, StepRefines, PTL
  DEF Spec, ImplementsRequest, Request!Spec
-----------------------------------------------------------------------------
(* Why a request is answered. *)

\* The six other numbers of BuildLeft stand around the three of the sort.
BuildLeftIs ==
  /\ SortLeftIs /\ SortLeft \in [1..3 -> Nat] /\ BuildLeft \in [1..7 -> Nat]
  /\ BuildLeft[1] = Phase[pc]
  /\ BuildLeft[2] = SortLeft[1] /\ BuildLeft[3] = SortLeft[2] /\ BuildLeft[4] = SortLeft[3]
  /\ BuildLeft[5] = Len(Input) + 1 - pos
  /\ BuildLeft[6] = MaxRepairs - attempt
  /\ BuildLeft[7] = Point[pc]
  /\ Len(Input) \in Nat /\ pos \in Nat /\ attempt \in Nat

LEMMA BuildMeasured == BInv /\ RestTyped => BuildLeftIs
<1>. SUFFICES ASSUME BInv, RestTyped PROVE BuildLeftIs
  OBVIOUS
<1>. DEFINE a == Phase[pc]  b == SortLeft[1]  c == SortLeft[2]  d == SortLeft[3]
            e == Len(Input) + 1 - pos  f == MaxRepairs - attempt  g == Point[pc]
<1>1. SortLeftIs /\ SortLeft \in [1..3 -> Nat]
  BY SortMeasured DEF BInv, SortLeftIs, LeftIs
<1>2. a \in Nat /\ g \in Nat
  BY DEF RestTyped, Points, Phase, Point
<1>3. Len(Input) \in Nat /\ pos \in Nat /\ e \in Nat
  BY PosIs, ModelsFinite
<1>4. attempt \in Nat /\ f \in Nat
  BY BuildAssumption DEF RestTyped
<1>5. b \in Nat /\ c \in Nat /\ d \in Nat
  BY <1>1
<1>6. BuildLeft = <<a, b, c, d, e, f, g>>
  BY DEF BuildLeft
<1>. HIDE DEF a, b, c, d, e, f, g
<1>7. /\ BuildLeft \in [1..7 -> Nat]
      /\ BuildLeft[1] = a /\ BuildLeft[2] = b /\ BuildLeft[3] = c /\ BuildLeft[4] = d
      /\ BuildLeft[5] = e /\ BuildLeft[6] = f /\ BuildLeft[7] = g
  BY <1>2, <1>3, <1>4, <1>5, <1>6
<1>. QED
  BY <1>1, <1>3, <1>4, <1>7 DEF BuildLeftIs, a, b, c, d, e, f, g

\* A step of the handler is one of the sort, or leaves a phase, or the model at
\* hand, or begins an attempt, or goes on within one.
LEMMA BuildMoves ==
  ASSUME BInv, Handler
  PROVE  \/ OrderNext /\ pc' = pc
         \/ UNCHANGED orderVars /\ Phase[pc'] < Phase[pc]
         \/ UNCHANGED orderVars /\ Phase[pc'] = Phase[pc] /\ pos' = pos + 1
         \/ UNCHANGED <<orderVars, pos>> /\ Phase[pc'] = Phase[pc] /\ attempt' = attempt + 1
         \/ /\ UNCHANGED <<orderVars, pos, attempt>> /\ Phase[pc'] = Phase[pc]
            /\ Point[pc'] < Point[pc]
<1>1. CASE Compile
  BY <1>1 DEF Compile, buildVars
<1>2. CASE StatementGate \/ SourceGate \/ CreateSchemas \/ Respond
  <2>1. /\ UNCHANGED orderVars
        /\ \/ pc = "compile" /\ pc' \in {"gate", "answered"}
           \/ pc = "gate" /\ pc' \in {"schemas", "answered"}
           \/ pc = "schemas" /\ pc' \in {"next", "answered"}
           \/ pc = "next" /\ pc' = "answered"
    BY <1>2 DEF StatementGate, SourceGate, CreateSchemas, Respond
  <2>. QED
    BY <2>1 DEF Phase
<1>3. CASE SkipModel
  BY <1>3 DEF SkipModel
<1>4. CASE BeginModel
  <2>1. UNCHANGED <<orderVars, pos, attempt>> /\ pc = "next" /\ pc' = "run"
    BY <1>4 DEF BeginModel
  <2>. QED
    BY <2>1 DEF Phase, Point
<1>5. CASE FirstRun \/ DropView \/ Rerun \/ GiveUp \/ NoRepair \/ Repair \/ Retry
  <2>1. UNCHANGED orderVars /\ pc \in {"run", "dropView", "rerun", "ask", "retry"}
    BY <1>5 DEF FirstRun, DropView, Rerun, GiveUp, NoRepair, Repair, Retry
  <2>2. \/ pos' = pos + 1 /\ pc' = "next"
        \/ pos' = pos /\ attempt' = attempt + 1 /\ pc' \in {"ask", "retry"}
        \/ /\ pos' = pos /\ attempt' = attempt
           /\ \/ pc = "run" /\ pc' \in {"dropView", "ask"}
              \/ pc = "dropView" /\ pc' = "rerun"
              \/ pc \in {"rerun", "retry"} /\ pc' = "ask"
    BY <1>5 DEF FirstRun, DropView, Rerun, GiveUp, NoRepair, Repair, Retry, Succeeds, Executes,
                Misread, Refuses, Enter
  <2>. QED
    BY <2>1, <2>2 DEF Phase, Point
<1>. QED
  BY <1>1, <1>2, <1>3, <1>4, <1>5 DEF Handler

LEMMA BelowSeven ==
  ASSUME NEW a \in [1..7 -> Nat], NEW b \in [1..7 -> Nat], NEW i \in 1..7,
         a[i] < b[i], \A k \in 1..(i - 1) : a[k] = b[k]
  PROVE  Below(a, b)
BY DEF Below

\* A lower tuple within the sort is a lower tuple of the request.
LEMMA SortLowers ==
  ASSUME NEW s \in [1..3 -> Nat], NEW t \in [1..3 -> Nat], Below(t, s),
         NEW a \in [1..7 -> Nat], NEW b \in [1..7 -> Nat], a[1] = b[1],
         a[2] = t[1], a[3] = t[2], a[4] = t[3], b[2] = s[1], b[3] = s[2], b[4] = s[3]
  PROVE  Below(a, b)
<1>1. PICK i \in 1..3 : t[i] < s[i] /\ \A k \in 1..(i - 1) : t[k] = s[k]
  BY DEF Below
<1>2. CASE i = 1
  <2>1. a[2] < b[2] /\ \A k \in 1..(2 - 1) : k = 1
    BY <1>1, <1>2
  <2>. QED
    BY <2>1, BelowSeven
<1>3. CASE i = 2
  <2>1. t[1] = s[1] /\ t[2] < s[2]
    BY <1>1, <1>3
  <2>2. a[3] < b[3] /\ \A k \in 1..(3 - 1) : k = 1 \/ k = 2
    BY <2>1
  <2>3. \A k \in 1..(3 - 1) : a[k] = b[k]
    BY <2>1, <2>2
  <2>. QED
    BY <2>2, <2>3, BelowSeven
<1>4. CASE i = 3
  <2>1. t[1] = s[1] /\ t[2] = s[2] /\ t[3] < s[3]
    BY <1>1, <1>4
  <2>2. a[4] < b[4] /\ \A k \in 1..(4 - 1) : k = 1 \/ k = 2 \/ k = 3
    BY <2>1
  <2>3. \A k \in 1..(4 - 1) : a[k] = b[k]
    BY <2>1, <2>2
  <2>. QED
    BY <2>2, <2>3, BelowSeven
<1>. QED
  BY <1>2, <1>3, <1>4

LEMMA BuildGoesDown ==
  ASSUME BInv, BuildLeftIs, BuildLeftIs', Handler
  PROVE  Below(BuildLeft', BuildLeft)
<1>1. /\ SortLeft \in [1..3 -> Nat] /\ BuildLeft \in [1..7 -> Nat]
      /\ BuildLeft[1] = Phase[pc]
      /\ BuildLeft[2] = SortLeft[1] /\ BuildLeft[3] = SortLeft[2] /\ BuildLeft[4] = SortLeft[3]
      /\ BuildLeft[5] = Len(Input) + 1 - pos /\ BuildLeft[6] = MaxRepairs - attempt
      /\ BuildLeft[7] = Point[pc]
      /\ Len(Input) \in Nat /\ pos \in Nat /\ attempt \in Nat /\ MaxRepairs \in Nat
  BY BuildAssumption DEF BuildLeftIs
<1>2. /\ SortLeft' \in [1..3 -> Nat] /\ BuildLeft' \in [1..7 -> Nat]
      /\ BuildLeft'[1] = Phase[pc']
      /\ BuildLeft'[2] = SortLeft'[1] /\ BuildLeft'[3] = SortLeft'[2]
      /\ BuildLeft'[4] = SortLeft'[3]
      /\ BuildLeft'[5] = Len(Input) + 1 - pos' /\ BuildLeft'[6] = MaxRepairs - attempt'
      /\ BuildLeft'[7] = Point[pc']
  BY DEF BuildLeftIs, Phase, Point
<1>3. UNCHANGED orderVars => SortLeft' = SortLeft
  BY DEF orderVars, SortLeft
<1>4. CASE OrderNext /\ pc' = pc
  <2>1. Below(SortLeft', SortLeft)
    <3>1. SortLeftIs /\ SortLeftIs'
      BY DEF BuildLeftIs
    <3>. QED
      BY <1>4, <3>1, SortGoesDown DEF BInv
  <2>2. BuildLeft'[1] = BuildLeft[1]
    BY <1>1, <1>2, <1>4
  <2>3. /\ SortLeft' \in [1..3 -> Nat] /\ BuildLeft' \in [1..7 -> Nat]
        /\ BuildLeft'[2] = SortLeft'[1] /\ BuildLeft'[3] = SortLeft'[2]
        /\ BuildLeft'[4] = SortLeft'[3]
    BY <1>2
  <2>4. /\ SortLeft \in [1..3 -> Nat] /\ BuildLeft \in [1..7 -> Nat]
        /\ BuildLeft[2] = SortLeft[1] /\ BuildLeft[3] = SortLeft[2] /\ BuildLeft[4] = SortLeft[3]
    BY <1>1
  <2>. QED
    BY <2>1, <2>2, <2>3, <2>4, SortLowers
<1>5. CASE UNCHANGED orderVars /\ Phase[pc'] < Phase[pc]
  <2>1. BuildLeft'[1] < BuildLeft[1]
    BY <1>1, <1>2, <1>5
  <2>2. BuildLeft \in [1..7 -> Nat] /\ BuildLeft' \in [1..7 -> Nat] /\ 1 \in 1..7
    BY <1>1, <1>2
  <2>3. \A k \in 1..(1 - 1) : BuildLeft'[k] = BuildLeft[k]
    OBVIOUS
  <2>. QED
    BY <2>1, <2>2, <2>3, BelowSeven
<1>. DEFINE Same(n) == \A k \in 1..n : BuildLeft'[k] = BuildLeft[k]
<1>6. ASSUME UNCHANGED orderVars, Phase[pc'] = Phase[pc]
      PROVE  Same(4)
  <2>1. \A k \in 1..4 : k = 1 \/ k = 2 \/ k = 3 \/ k = 4
    OBVIOUS
  <2>. QED
    BY <1>1, <1>2, <1>3, <1>6, <2>1
<1>7. CASE UNCHANGED orderVars /\ Phase[pc'] = Phase[pc] /\ pos' = pos + 1
  <2>1. Same(4) /\ BuildLeft'[5] < BuildLeft[5]
    BY <1>1, <1>2, <1>6, <1>7
  <2>2. \A k \in 1..(5 - 1) : BuildLeft'[k] = BuildLeft[k]
    BY <2>1
  <2>. QED
    BY <1>1, <1>2, <2>1, <2>2, BelowSeven
<1>8. CASE UNCHANGED <<orderVars, pos>> /\ Phase[pc'] = Phase[pc] /\ attempt' = attempt + 1
  <2>1. Same(4) /\ BuildLeft'[5] = BuildLeft[5] /\ BuildLeft'[6] < BuildLeft[6]
    BY <1>1, <1>2, <1>6, <1>8
  <2>2. \A k \in 1..(6 - 1) : k \in 1..4 \/ k = 5
    OBVIOUS
  <2>3. \A k \in 1..(6 - 1) : BuildLeft'[k] = BuildLeft[k]
    BY <2>1, <2>2
  <2>. QED
    BY <1>1, <1>2, <2>1, <2>3, BelowSeven
<1>9. CASE /\ UNCHANGED <<orderVars, pos, attempt>> /\ Phase[pc'] = Phase[pc]
           /\ Point[pc'] < Point[pc]
  <2>1. /\ Same(4) /\ BuildLeft'[5] = BuildLeft[5] /\ BuildLeft'[6] = BuildLeft[6]
        /\ BuildLeft'[7] < BuildLeft[7]
    BY <1>1, <1>2, <1>6, <1>9
  <2>2. \A k \in 1..(7 - 1) : k \in 1..4 \/ k = 5 \/ k = 6
    OBVIOUS
  <2>3. \A k \in 1..(7 - 1) : BuildLeft'[k] = BuildLeft[k]
    BY <2>1, <2>2
  <2>. QED
    BY <1>1, <1>2, <2>1, <2>3, BelowSeven
<1>. QED
  BY <1>4, <1>5, <1>7, <1>8, <1>9, BuildMoves

LEMMA LateKeepsLeft == LateEffect => BuildLeft' = BuildLeft
BY DEF LateEffect, orderVars, BuildLeft, SortLeft

\* Whatever the warehouse and the AI answer, each step of the handler lowers what
\* is left of the request, for any list, graph and number of repairs, and nothing
\* else gives it more to do: it has finitely many steps before its answer.
THEOREM BuildProgresses == Spec => BuildProgress
<1>1. BuildLeftIs => BuildLeft \in [1..7 -> Nat]
  BY DEF BuildLeftIs
<1>2. BInv /\ BuildLeftIs /\ BuildLeftIs' /\ [Next]_vars
        => [/\ Handler => Below(BuildLeft', BuildLeft)
            /\ LateEffect => BuildLeft' = BuildLeft]_vars
  BY BuildGoesDown, LateKeepsLeft
<1>. QED
  BY <1>1, <1>2, BuildMeasured, BuildInductive, InitRest, RestStep, PTL DEF Spec, BuildProgress
=============================================================================
