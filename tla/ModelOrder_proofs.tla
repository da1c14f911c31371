-------------------------- MODULE ModelOrder_proofs --------------------------
(***************************************************************************)
(* Proofs about the build order, for every list of models and every ref()  *)
(* graph: the sort puts dependencies first, its cycle flag is exact, no    *)
(* model is lost or listed twice, and every iteration leaves less to do.   *)
(***************************************************************************)
EXTENDS ModelOrder, FiniteSetTheorems, TLAPS

Drained == Elements(ordered)

\* indeg counts the dependencies that are not drained, plus, while the
\* dependents of a drained model are gone through, the one not yet taken off.
CountsRight ==
  \A k \in DOMAIN Input :
    indeg[Input[k]] =
      Cardinality(Edges(Input[k]) \ Drained)
        + (IF loop = "relax" /\ k >= at /\ node \in Edges(Input[k]) THEN 1 ELSE 0)

\* The models whose count is zero are those that are queued or drained; in the
\* first loop, as far as it has come.
QueuedRight ==
  \A k \in DOMAIN Input :
    Input[k] \in Elements(queue) \cup Drained
      <=> indeg[Input[k]] = 0 /\ (loop = "seed" => k < at)

NoRepeats ==
  /\ \A i, k \in DOMAIN queue : queue[i] = queue[k] => i = k
  /\ \A i \in DOMAIN queue : queue[i] \notin Drained
  /\ \A i, k \in DOMAIN ordered : ordered[i] = ordered[k] => i = k
  /\ Cardinality(Drained) = Len(ordered)

DrainedFirst ==
  \A i \in DOMAIN ordered : \A d \in Edges(ordered[i]) : Before(ordered, d, i)

\* No model of an entangled set is ever drained.
Untangled ==
  \A S \in SUBSET Models : Entangled(S) => S \cap Drained = {}

Result == DependenciesFirst /\ CycleIsExact /\ NothingLost

IInv ==
  /\ OrderTypeOK /\ at \in DOMAIN Input
  /\ CountsRight /\ QueuedRight /\ NoRepeats
  /\ DrainedFirst /\ Untangled
  /\ Result

-----------------------------------------------------------------------------
(* Sequences and their elements. *)

LEMMA AppendElements ==
  ASSUME NEW T, NEW s \in Seq(T), NEW x \in T
  PROVE  /\ Append(s, x) \in Seq(T)
         /\ Elements(Append(s, x)) = Elements(s) \cup {x}
<1>. DEFINE t == Append(s, x)
<1>1. t \in Seq(T) /\ Len(t) = Len(s) + 1 /\ t[Len(s) + 1] = x
        /\ \A i \in 1..Len(s) : t[i] = s[i]
  OBVIOUS
<1>2. DOMAIN t = 1..(Len(s) + 1) /\ DOMAIN s = 1..Len(s) /\ Len(s) \in Nat
  BY <1>1
<1>. HIDE DEF t
<1>3. Elements(t) = Elements(s) \cup {x}
  BY <1>1, <1>2 DEF Elements
<1>. QED
  BY <1>1, <1>3 DEF t

LEMMA TailElements ==
  ASSUME NEW T, NEW s \in Seq(T), s # <<>>
  PROVE  /\ Tail(s) \in Seq(T) /\ Head(s) \in T
         /\ Head(s) \in Elements(s)
         /\ Elements(s) = Elements(Tail(s)) \cup {Head(s)}
<1>. DEFINE t == Tail(s)
<1>1. t \in Seq(T) /\ Len(t) = Len(s) - 1 /\ Head(s) = s[1] /\ Len(s) \in Nat \ {0}
        /\ \A i \in 1..Len(t) : t[i] = s[i + 1]
  OBVIOUS
<1>2. DOMAIN t = 1..(Len(s) - 1) /\ DOMAIN s = 1..Len(s)
  BY <1>1
<1>. HIDE DEF t
<1>3. s[1] \in Elements(s) /\ s[1] \in T
  BY <1>1, <1>2 DEF Elements
<1>4. \A y \in Elements(t) : y \in Elements(s)
  BY <1>1, <1>2 DEF Elements
<1>5. \A i \in 1..Len(s) : i = 1 \/ s[i] \in Elements(t)
  <2>1. TAKE i \in 1..Len(s)
  <2>2. CASE i # 1
    <3>1. i - 1 \in 1..(Len(s) - 1)
      BY <2>2, <1>1
    <3>2. t[i - 1] = s[i]
      BY <3>1, <1>1, <1>2
    <3>. QED
      BY <3>1, <3>2, <1>2 DEF Elements
  <2>. QED
    BY <2>2
<1>6. Elements(s) = Elements(t) \cup {s[1]}
  BY <1>2, <1>3, <1>4, <1>5 DEF Elements
<1>. QED
  BY <1>1, <1>3, <1>6 DEF t

\* As many models as names in the request.
LEMMA ModelsFinite ==
  IsFiniteSet(Models) /\ Cardinality(Models) = Len(Input) /\ Len(Input) \in Nat
<1>1. Len(Input) \in Nat /\ DOMAIN Input = 1..Len(Input)
  BY InputAssumption
<1>2. Input \in Bijection(1..Len(Input), Models)
  BY <1>1, InputAssumption DEF Models, Bijection, Injection, Surjection, IsInjective
<1>3. ExistsBijection(1..Len(Input), Models)
  BY <1>2 DEF ExistsBijection
<1>4. Cardinality(Models) = Len(Input)
  BY <1>1, <1>3, FS_CountingElements
<1>5. IsFiniteSet(Models)
  BY <1>1, <1>3, FS_NatBijection
<1>. QED
  BY <1>1, <1>4, <1>5

LEMMA EdgesFinite ==
  ASSUME OrderTypeOK, NEW n \in Models, NEW D
  PROVE  /\ Edges(n) \subseteq Models
         /\ IsFiniteSet(Edges(n) \ D)
         /\ Cardinality(Edges(n) \ D) \in Nat
<1>1. Edges(n) \subseteq Models
  BY DEF OrderTypeOK, Edges
<1>2. Edges(n) \ D \in SUBSET Models
  BY <1>1
<1>. QED
  BY <1>1, <1>2, ModelsFinite, FS_Subset, FS_CardinalityType

-----------------------------------------------------------------------------
(* The initial states. *)

LEMMA InitIInv == OrderInit => IInv
<1>. SUFFICES ASSUME OrderInit PROVE IInv
  OBVIOUS
<1>1. 1 \in DOMAIN Input /\ Input[1] \in Models
  BY InputAssumption DEF Models
<1>2. \A n \in Models : Cardinality(Edges(n)) \in Nat
  <2>1. TAKE n \in Models
  <2>2. Edges(n) \in SUBSET Models
    BY DEF OrderInit, Edges
  <2>. QED
    BY <2>2, ModelsFinite, FS_Subset, FS_CardinalityType
<1>3. OrderTypeOK /\ at \in DOMAIN Input
  <2>1. indeg \in [Models -> Nat]
    BY <1>2 DEF OrderInit
  <2>2. queue \in Seq(Models) /\ ordered \in Seq(Models) /\ order \in Seq(Models)
    BY DEF OrderInit
  <2>3. /\ refs \in [Models -> SUBSET Models] /\ loop = "seed" /\ at = 1
        /\ node = Input[1] /\ hasCycle = FALSE
    BY DEF OrderInit
  <2>. QED
    BY <1>1, <2>1, <2>2, <2>3 DEF OrderTypeOK
<1>4. Drained = {} /\ Elements(queue) = {}
  BY DEF OrderInit, Drained, Elements
<1>5. CountsRight
  <2>1. \A k \in DOMAIN Input : Input[k] \in Models
    BY DEF Models
  <2>2. \A n \in Models : indeg[n] = Cardinality(Edges(n)) /\ Edges(n) \ Drained = Edges(n)
    BY <1>4 DEF OrderInit
  <2>3. loop # "relax"
    BY DEF OrderInit
  <2>4. \A n \in Models : indeg[n] = Cardinality(Edges(n) \ Drained) + 0
    BY <1>2, <2>2
  <2>. QED
    BY <2>1, <2>3, <2>4 DEF CountsRight
<1>6. QueuedRight
  BY <1>4, InputAssumption DEF OrderInit, QueuedRight
<1>7. NoRepeats
  <2>1. queue = <<>> /\ ordered = <<>>
    BY DEF OrderInit
  <2>2. Len(ordered) = 0 /\ DOMAIN queue = {} /\ DOMAIN ordered = {}
    BY <2>1
  <2>. QED
    BY <1>4, <2>2, FS_EmptySet DEF NoRepeats
<1>8. DrainedFirst /\ Untangled
  <2>1. DOMAIN ordered = {}
    BY DEF OrderInit
  <2>. QED
    BY <1>4, <2>1 DEF DrainedFirst, Untangled
<1>9. Result
  BY DEF OrderInit, Result, DependenciesFirst, CycleIsExact, NothingLost
<1>. QED
  BY <1>3, <1>5, <1>6, <1>7, <1>8, <1>9 DEF IInv

-----------------------------------------------------------------------------
(* The loops. *)

LEMMA TypeStep ==
  ASSUME OrderTypeOK, refs' = refs, (loop \in {"seed", "drain", "relax", "sorted"})',
         (at \in DOMAIN Input)', (indeg \in [Models -> Nat])',
         (queue \in Seq(Models))', (ordered \in Seq(Models))',
         (order \in Seq(Models))', (node \in Models)', (hasCycle \in BOOLEAN)'
  PROVE  OrderTypeOK'
<1>1. at' \in Nat
  BY InputAssumption
<1>2. (refs \in [Models -> SUBSET Models])'
  BY DEF OrderTypeOK
<1>. QED
  BY <1>1, <1>2 DEF OrderTypeOK

\* The inner loops run over Input, and at stays inside.
LEMMA AdvanceAt ==
  ASSUME at \in DOMAIN Input, NEW next, Advance(next)
  PROVE  /\ at' \in DOMAIN Input
         /\ \/ at = Len(Input) /\ loop' = next /\ at' = 1
            \/ at < Len(Input) /\ loop' = loop /\ at' = at + 1
BY InputAssumption DEF Advance

LEMMA SeedIInv ==
  ASSUME IInv, Seed
  PROVE  IInv'
<1>. DEFINE n == Input[at]
<1>1. /\ n \in Models /\ at \in DOMAIN Input /\ DOMAIN Input = 1..Len(Input)
      /\ Len(Input) \in Nat
  BY InputAssumption DEF IInv, Models
<1>2. /\ at' \in DOMAIN Input
      /\ \/ at = Len(Input) /\ loop' = "drain" /\ at' = 1
         \/ at < Len(Input) /\ loop' = "seed" /\ at' = at + 1
  BY AdvanceAt DEF IInv, Seed
<1>3. queue \in Seq(Models)
  BY DEF IInv, OrderTypeOK
<1>4. /\ Append(queue, n) \in Seq(Models)
      /\ Elements(Append(queue, n)) = Elements(queue) \cup {n}
  BY <1>1, <1>3, AppendElements
<1>5. Drained' = Drained /\ \A m : Edges(m)' = Edges(m)
  BY DEF Seed, Drained, Elements, Edges
<1>6. n \notin Elements(queue) /\ n \notin Drained
  BY <1>1 DEF IInv, QueuedRight, Seed
<1>7. OrderTypeOK' /\ (at \in DOMAIN Input)'
  <2>1. /\ OrderTypeOK /\ (hasCycle \in BOOLEAN)' /\ refs' = refs
        /\ (indeg \in [Models -> Nat])' /\ (ordered \in Seq(Models))'
        /\ (order \in Seq(Models))' /\ (node \in Models)'
    BY DEF Seed, IInv, OrderTypeOK
  <2>2. queue' \in Seq(Models)
    BY <1>3, <1>4 DEF Seed
  <2>3. loop' \in {"seed", "drain", "relax", "sorted"}
    BY <1>2
  <2>. QED
    BY <1>2, <2>1, <2>2, <2>3, TypeStep
<1>8. CountsRight'
  BY <1>2, <1>5 DEF Seed, IInv, CountsRight
<1>9. QueuedRight'
  <2>1. Elements(queue') =
          IF indeg[n] = 0 THEN Elements(queue) \cup {n} ELSE Elements(queue)
    BY <1>4 DEF Seed
  <2>2. Elements(queue)' = Elements(queue')
    BY DEF Elements
  <2>. SUFFICES ASSUME NEW k \in DOMAIN Input
                PROVE  (Input[k] \in Elements(queue)' \cup Drained'
                          <=> indeg'[Input[k]] = 0 /\ (loop' = "seed" => k < at'))
    BY DEF QueuedRight
  <2>3. Input[k] \in Elements(queue) \cup Drained <=> indeg[Input[k]] = 0 /\ k < at
    BY DEF IInv, QueuedRight, Seed
  <2>4. k < at' \/ loop' = "drain" <=> k < at \/ k = at
    BY <1>1, <1>2
  <2>5. Input[k] = n <=> k = at
    BY <1>1, InputAssumption
  <2>6. indeg' = indeg
    BY DEF Seed
  <2>. QED
    BY <1>2, <1>5, <2>1, <2>2, <2>3, <2>4, <2>5, <2>6
<1>10. NoRepeats'
  <2>1. CASE indeg[n] = 0
    <3>1. queue' = Append(queue, n) /\ ordered' = ordered
      BY <2>1 DEF Seed
    <3>2. \A i \in DOMAIN queue : queue[i] # n
      BY <1>6 DEF Elements
    <3>. QED
      BY <1>3, <1>5, <1>6, <3>1, <3>2 DEF IInv, NoRepeats
  <2>2. CASE indeg[n] # 0
    BY <1>5, <2>2 DEF Seed, IInv, NoRepeats
  <2>. QED
    BY <2>1, <2>2
<1>11. DrainedFirst' /\ Untangled' /\ Result'
  BY <1>2, <1>5 DEF Seed, IInv, DrainedFirst, Before, Untangled, Entangled,
     Result, DependenciesFirst, CycleIsExact, NothingLost
<1>. QED
  BY <1>7, <1>8, <1>9, <1>10, <1>11 DEF IInv

LEMMA PopIInv ==
  ASSUME IInv, Pop
  PROVE  IInv'
<1>. DEFINE x == Head(queue)
<1>1. queue \in Seq(Models) /\ ordered \in Seq(Models) /\ queue # <<>>
  BY DEF IInv, OrderTypeOK, Pop
<1>2. /\ x \in Models /\ x \in Elements(queue)
      /\ Tail(queue) \in Seq(Models)
      /\ Elements(queue) = Elements(Tail(queue)) \cup {x}
  BY <1>1, TailElements
<1>3. /\ Append(ordered, x) \in Seq(Models)
      /\ Elements(Append(ordered, x)) = Drained \cup {x}
  BY <1>1, <1>2, AppendElements DEF Drained
<1>4. /\ Drained' = Drained \cup {x} /\ Elements(queue)' = Elements(Tail(queue))
      /\ \A m : Edges(m)' = Edges(m)
      /\ node' = x /\ loop = "drain" /\ loop' = "relax" /\ at' = 1 /\ indeg' = indeg
  BY <1>3 DEF Pop, Drained, Elements, Edges
<1>5. x \notin Drained
  BY <1>2 DEF Elements, IInv, NoRepeats
<1>6. DOMAIN Input = 1..Len(Input) /\ Len(Input) \in Nat /\ 1 \in DOMAIN Input
  BY InputAssumption
<1>7. PICK q \in DOMAIN Input : Input[q] = x
  BY <1>2 DEF Models
<1>8. indeg[x] = 0
  BY <1>2, <1>7 DEF IInv, QueuedRight
<1>9. Edges(x) \subseteq Drained
  <2>1. /\ IsFiniteSet(Edges(x) \ Drained)
        /\ Cardinality(Edges(x) \ Drained) \in Nat
    BY <1>2, EdgesFinite DEF IInv
  <2>2. indeg[x] = Cardinality(Edges(x) \ Drained) + 0
    BY <1>4, <1>7 DEF IInv, CountsRight
  <2>3. Edges(x) \ Drained = {}
    BY <1>8, <2>1, <2>2, FS_EmptySet
  <2>. QED
    BY <2>3
<1>10. OrderTypeOK' /\ (at \in DOMAIN Input)'
  <2>1. /\ OrderTypeOK /\ (hasCycle \in BOOLEAN)' /\ refs' = refs
        /\ (indeg \in [Models -> Nat])' /\ (order \in Seq(Models))'
    BY DEF Pop, IInv, OrderTypeOK
  <2>2. (queue \in Seq(Models))' /\ (ordered \in Seq(Models))' /\ (node \in Models)'
    BY <1>2, <1>3 DEF Pop
  <2>3. loop' \in {"seed", "drain", "relax", "sorted"} /\ at' \in DOMAIN Input
    BY <1>4, <1>6
  <2>. QED
    BY <2>1, <2>2, <2>3, TypeStep
<1>11. CountsRight'
  <2>. SUFFICES ASSUME NEW k \in DOMAIN Input
                PROVE  indeg[Input[k]] =
                         Cardinality(Edges(Input[k]) \ (Drained \cup {x}))
                           + (IF x \in Edges(Input[k]) THEN 1 ELSE 0)
    BY <1>4, <1>6 DEF CountsRight
  <2>. DEFINE left == Edges(Input[k]) \ Drained
  <2>1. IsFiniteSet(left) /\ Cardinality(left) \in Nat
    BY EdgesFinite DEF IInv, Models
  <2>2. Cardinality(left \ {x}) =
          IF x \in left THEN Cardinality(left) - 1 ELSE Cardinality(left)
    BY <2>1, FS_RemoveElement
  <2>3. left \ {x} = Edges(Input[k]) \ (Drained \cup {x})
    OBVIOUS
  <2>4. x \in left <=> x \in Edges(Input[k])
    BY <1>5
  <2>5. indeg[Input[k]] = Cardinality(left)
    BY <1>4, <2>1 DEF IInv, CountsRight
  <2>6. CASE x \in Edges(Input[k])
    <3>1. Cardinality(left \ {x}) = Cardinality(left) - 1
      BY <2>2, <2>4, <2>6
    <3>. HIDE DEF left
    <3>2. Cardinality(left \ {x}) + 1 = Cardinality(left)
      BY <2>1, <3>1
    <3>. QED
      BY <2>3, <2>5, <2>6, <3>2
  <2>7. CASE x \notin Edges(Input[k])
    <3>1. left \ {x} = left
      BY <2>7
    <3>. HIDE DEF left
    <3>. QED
      BY <2>1, <2>3, <2>5, <2>7, <3>1
  <2>. QED
    BY <2>6, <2>7
<1>12. QueuedRight'
  <2>1. Elements(queue)' \cup Drained' = Elements(queue) \cup Drained
    BY <1>2, <1>4
  <2>. QED
    BY <1>4, <2>1 DEF IInv, QueuedRight
<1>13. NoRepeats'
  <2>1. queue' = Tail(queue) /\ ordered' = Append(ordered, x)
    BY DEF Pop
  <2>2. DOMAIN queue = 1..Len(queue) /\ Len(queue) \in Nat /\ x = queue[1]
    BY <1>1
  <2>3. /\ DOMAIN queue' = 1..(Len(queue) - 1)
        /\ \A i \in DOMAIN queue' : queue'[i] = queue[i + 1]
    BY <1>1, <2>1
  <2>4. /\ \A i, k \in DOMAIN queue : queue[i] = queue[k] => i = k
        /\ \A i \in DOMAIN queue : queue[i] \notin Drained
    BY DEF IInv, NoRepeats
  <2>5. \A i, k \in DOMAIN queue' : queue'[i] = queue'[k] => i = k
    BY <2>2, <2>3, <2>4
  <2>6. \A i \in DOMAIN queue' : queue'[i] \notin Drained'
    BY <2>2, <2>3, <2>4, <1>1, <1>4
  <2>7. IsFiniteSet(Drained)
    <3>1. Drained \in SUBSET Models
      BY <1>1 DEF Drained, Elements
    <3>. QED
      BY <3>1, ModelsFinite, FS_Subset
  <2>8. Cardinality(Drained \cup {x}) = Cardinality(Drained) + 1
    BY <2>7, <1>5, FS_AddElement
  <2>9. Len(ordered') = Len(ordered) + 1
    BY <1>1, <1>2, <2>1
  <2>10. \A i, k \in DOMAIN ordered' : ordered'[i] = ordered'[k] => i = k
    <3>1. /\ DOMAIN ordered = 1..Len(ordered) /\ Len(ordered) \in Nat
          /\ DOMAIN ordered' = 1..(Len(ordered) + 1) /\ ordered'[Len(ordered) + 1] = x
          /\ \A i \in 1..Len(ordered) : ordered'[i] = ordered[i]
      BY <1>1, <1>2, <2>1
    <3>2. \A i \in DOMAIN ordered : ordered[i] # x
      BY <1>5 DEF Drained, Elements
    <3>. QED
      BY <3>1, <3>2 DEF IInv, NoRepeats
  <2>. QED
    BY <1>4, <2>5, <2>6, <2>8, <2>9, <2>10 DEF IInv, NoRepeats
<1>14. DrainedFirst'
  <2>1. ordered' = Append(ordered, x)
    BY DEF Pop
  <2>2. /\ DOMAIN ordered = 1..Len(ordered) /\ Len(ordered) \in Nat
        /\ DOMAIN ordered' = 1..(Len(ordered) + 1) /\ ordered'[Len(ordered) + 1] = x
        /\ \A i \in 1..Len(ordered) : ordered'[i] = ordered[i]
    BY <1>1, <1>2, <2>1
  <2>3. \A i \in 1..Len(ordered) : \A d \in Edges(ordered[i]) :
          \E k \in 1..(i - 1) : ordered[k] = d
    BY <2>2 DEF IInv, DrainedFirst, Before
  <2>4. \A d \in Edges(x) : \E k \in 1..Len(ordered) : ordered[k] = d
    BY <1>9, <2>2 DEF Drained, Elements
  <2>. SUFFICES ASSUME NEW i \in 1..(Len(ordered) + 1), NEW d \in Edges(ordered'[i])
                PROVE  \E k \in 1..(i - 1) : ordered'[k] = d
    BY <1>4, <2>2 DEF DrainedFirst, Before
  <2>5. CASE i = Len(ordered) + 1
    BY <2>2, <2>4, <2>5
  <2>6. CASE i \in 1..Len(ordered)
    <3>1. d \in Edges(ordered[i])
      BY <2>2, <2>6
    <3>2. PICK k \in 1..(i - 1) : ordered[k] = d
      BY <2>3, <2>6, <3>1
    <3>. QED
      BY <2>2, <2>6, <3>2
  <2>. QED
    BY <2>2, <2>5, <2>6
<1>15. Untangled'
  BY <1>4, <1>9 DEF IInv, Untangled, Entangled
<1>16. Result'
  BY <1>4 DEF Result, DependenciesFirst, CycleIsExact, NothingLost
<1>. QED
  BY <1>10, <1>11, <1>12, <1>13, <1>14, <1>15, <1>16 DEF IInv

LEMMA RelaxIInv ==
  ASSUME IInv, Relax
  PROVE  IInv'
<1>. DEFINE n == Input[at]
<1>1. /\ n \in Models /\ at \in DOMAIN Input /\ DOMAIN Input = 1..Len(Input)
      /\ Len(Input) \in Nat
      /\ \A k \in DOMAIN Input : Input[k] \in Models /\ (Input[k] = n <=> k = at)
  BY InputAssumption DEF IInv, Models
<1>2. /\ at' \in DOMAIN Input
      /\ \/ at = Len(Input) /\ loop' = "drain" /\ at' = 1
         \/ at < Len(Input) /\ loop' = "relax" /\ at' = at + 1
  BY AdvanceAt DEF IInv, Relax
<1>3. queue \in Seq(Models) /\ indeg \in [Models -> Nat] /\ loop = "relax"
  BY DEF IInv, OrderTypeOK, Relax
<1>4. /\ Append(queue, n) \in Seq(Models)
      /\ Elements(Append(queue, n)) = Elements(queue) \cup {n}
  BY <1>1, <1>3, AppendElements
<1>5. Drained' = Drained /\ node' = node /\ \A m : Edges(m)' = Edges(m)
  BY DEF Relax, Drained, Elements, Edges
<1>6. \A k \in DOMAIN Input : Cardinality(Edges(Input[k]) \ Drained) \in Nat
  BY <1>1, EdgesFinite DEF IInv
<1>7. \A k \in DOMAIN Input :
        indeg[Input[k]] = Cardinality(Edges(Input[k]) \ Drained)
                            + (IF k >= at /\ node \in Edges(Input[k]) THEN 1 ELSE 0)
  BY <1>3 DEF IInv, CountsRight
<1>8. CASE node \notin Edges(n)
  <2>1. indeg' = indeg /\ queue' = queue /\ ordered' = ordered
    BY <1>8 DEF Relax
  <2>2. OrderTypeOK' /\ (at \in DOMAIN Input)'
    <3>1. /\ OrderTypeOK /\ (hasCycle \in BOOLEAN)' /\ refs' = refs
          /\ (ordered \in Seq(Models))' /\ (order \in Seq(Models))'
          /\ (node \in Models)'
      BY DEF Relax, IInv, OrderTypeOK
    <3>2. (queue \in Seq(Models))' /\ (indeg \in [Models -> Nat])'
      BY <1>3, <2>1
    <3>3. loop' \in {"seed", "drain", "relax", "sorted"}
      BY <1>2
    <3>. QED
      BY <1>2, <3>1, <3>2, <3>3, TypeStep
  <2>3. CountsRight'
    <3>. SUFFICES ASSUME NEW k \in DOMAIN Input
                  PROVE  indeg[Input[k]] = Cardinality(Edges(Input[k]) \ Drained)
                           + (IF loop' = "relax" /\ k >= at' /\ node \in Edges(Input[k])
                              THEN 1 ELSE 0)
      BY <1>5, <2>1 DEF CountsRight
    <3>1. loop' = "relax" /\ k >= at' <=> k >= at /\ k # at
      BY <1>1, <1>2
    <3>2. k = at => node \notin Edges(Input[k])
      BY <1>8
    <3>. QED
      BY <1>7, <3>1, <3>2
  <2>4. QueuedRight'
    BY <1>2, <1>3, <1>5, <2>1 DEF IInv, QueuedRight, Elements
  <2>5. NoRepeats'
    BY <1>5, <2>1 DEF IInv, NoRepeats
  <2>. QED
    BY <1>2, <1>5, <2>1, <2>2, <2>3, <2>4, <2>5
    DEF IInv, DrainedFirst, Before, Untangled, Entangled,
        Result, DependenciesFirst, CycleIsExact, NothingLost
<1>9. CASE node \in Edges(n)
  <2>1. /\ indeg' = [indeg EXCEPT ![n] = @ - 1] /\ ordered' = ordered
        /\ queue' = IF indeg'[n] = 0 THEN Append(queue, n) ELSE queue
    BY <1>9 DEF Relax
  <2>2. indeg[n] = Cardinality(Edges(n) \ Drained) + 1
    BY <1>1, <1>6, <1>7, <1>9
  <2>3. Cardinality(Edges(n) \ Drained) \in Nat
    BY <1>1, <1>6
  <2>4. /\ indeg'[n] = indeg[n] - 1 /\ indeg' \in [Models -> Nat]
        /\ \A m \in Models \ {n} : indeg'[m] = indeg[m]
    BY <1>1, <1>3, <2>1, <2>2, <2>3
  <2>5. n \notin Elements(queue) /\ n \notin Drained
    BY <1>1, <2>2, <2>3 DEF IInv, QueuedRight
  <2>6. queue' \in Seq(Models)
    BY <1>3, <1>4, <2>1
  <2>7. OrderTypeOK' /\ (at \in DOMAIN Input)'
    <3>1. /\ OrderTypeOK /\ (hasCycle \in BOOLEAN)' /\ refs' = refs
          /\ (ordered \in Seq(Models))' /\ (order \in Seq(Models))'
          /\ (node \in Models)'
      BY DEF Relax, IInv, OrderTypeOK
    <3>2. loop' \in {"seed", "drain", "relax", "sorted"}
      BY <1>2
    <3>. QED
      BY <1>2, <2>4, <2>6, <3>1, <3>2, TypeStep
  <2>8. CountsRight'
    <3>. SUFFICES ASSUME NEW k \in DOMAIN Input
                  PROVE  indeg'[Input[k]] = Cardinality(Edges(Input[k]) \ Drained)
                           + (IF loop' = "relax" /\ k >= at' /\ node \in Edges(Input[k])
                              THEN 1 ELSE 0)
      BY <1>5 DEF CountsRight
    <3>1. loop' = "relax" /\ k >= at' <=> k >= at /\ k # at
      BY <1>1, <1>2
    <3>2. CASE k = at
      BY <2>2, <2>3, <2>4, <3>1, <3>2
    <3>3. CASE k # at
      <4>1. indeg'[Input[k]] = indeg[Input[k]]
        BY <1>1, <2>4, <3>3
      <4>. QED
        BY <1>7, <3>1, <3>3, <4>1
    <3>. QED
      BY <3>2, <3>3
  <2>9. Elements(queue)' = IF indeg'[n] = 0 THEN Elements(queue) \cup {n} ELSE Elements(queue)
    <3>1. Elements(queue)' = Elements(queue')
      BY DEF Elements
    <3>. QED
      BY <1>4, <2>1, <3>1
  <2>10. QueuedRight'
    <3>. SUFFICES ASSUME NEW k \in DOMAIN Input
                  PROVE  (Input[k] \in Elements(queue)' \cup Drained'
                            <=> indeg'[Input[k]] = 0)
      BY <1>2 DEF QueuedRight
    <3>1. Input[k] \in Elements(queue) \cup Drained <=> indeg[Input[k]] = 0
      BY <1>3 DEF IInv, QueuedRight
    <3>2. CASE k = at
      BY <1>5, <2>5, <2>9, <3>2
    <3>3. CASE k # at
      <4>1. Input[k] # n /\ indeg'[Input[k]] = indeg[Input[k]]
        BY <1>1, <2>4, <3>3
      <4>. QED
        BY <1>5, <2>9, <3>1, <4>1
    <3>. QED
      BY <3>2, <3>3
  <2>11. NoRepeats'
    <3>1. CASE indeg'[n] = 0
      <4>1. queue' = Append(queue, n)
        BY <2>1, <3>1
      <4>2. \A i \in DOMAIN queue : queue[i] # n
        BY <2>5 DEF Elements
      <4>. QED
        BY <1>3, <1>5, <2>1, <2>5, <4>1, <4>2 DEF IInv, NoRepeats
    <3>2. CASE indeg'[n] # 0
      BY <1>5, <2>1, <3>2 DEF IInv, NoRepeats
    <3>. QED
      BY <3>1, <3>2
  <2>. QED
    BY <1>2, <1>5, <2>1, <2>7, <2>8, <2>10, <2>11
    DEF IInv, DrainedFirst, Before, Untangled, Entangled,
        Result, DependenciesFirst, CycleIsExact, NothingLost
<1>. QED
  BY <1>8, <1>9

\* When the queue has run empty, what is left over, if anything, is entangled.
LEMMA StuckIsEntangled ==
  ASSUME IInv, loop = "drain", queue = <<>>, Drained # Models
  PROVE  Entangled(Models \ Drained)
<1>. DEFINE rest == Models \ Drained
<1>1. Drained \subseteq Models
  BY DEF IInv, OrderTypeOK, Drained, Elements
<1>2. rest # {}
  BY <1>1
<1>3. ASSUME NEW n \in rest
      PROVE  Edges(n) \cap rest # {}
  <2>1. PICK k \in DOMAIN Input : Input[k] = n
    BY DEF Models
  <2>2. Elements(queue) = {}
    BY DEF Elements
  <2>3. indeg[n] # 0
    BY <1>3, <2>1, <2>2 DEF IInv, QueuedRight
  <2>4. indeg[n] = Cardinality(Edges(n) \ Drained) + 0
    BY <2>1 DEF IInv, CountsRight
  <2>5. Cardinality(Edges(n) \ Drained) \in Nat /\ Edges(n) \subseteq Models
    BY <1>3, EdgesFinite DEF IInv
  <2>6. Edges(n) \ Drained # {}
    <3>1. Cardinality({}) + 0 = 0
      BY FS_EmptySet
    <3>. QED
      BY <2>3, <2>4, <3>1
  <2>. QED
    BY <2>5, <2>6
<1>. QED
  BY <1>2, <1>3 DEF Entangled

LEMMA FinishIInv ==
  ASSUME IInv, Finish
  PROVE  IInv'
<1>1. /\ loop = "drain" /\ loop' = "sorted" /\ queue = <<>> /\ at' = at /\ node' = node
      /\ ordered' = ordered /\ indeg' = indeg /\ queue' = queue /\ refs' = refs
  BY DEF Finish
<1>2. Drained' = Drained /\ (\A m : Edges(m)' = Edges(m))
        /\ (\A S : Entangled(S)' <=> Entangled(S))
  BY <1>1 DEF Drained, Elements, Edges, Entangled
<1>3. /\ ordered \in Seq(Models) /\ Input \in Seq(Models)
      /\ order' = IF hasCycle' THEN Input ELSE ordered
      /\ hasCycle' \in BOOLEAN
      /\ hasCycle' <=> Len(ordered) # Len(Input)
  BY InputAssumption DEF IInv, OrderTypeOK, Finish
<1>4. Drained = Models <=> Len(ordered) = Len(Input)
  <2>1. Drained \in SUBSET Models
    BY <1>3 DEF Drained, Elements
  <2>2. Cardinality(Drained) = Len(ordered)
    BY DEF IInv, NoRepeats
  <2>. QED
    BY <2>1, <2>2, ModelsFinite, FS_Subset
<1>5. OrderTypeOK'
  <2>1. OrderTypeOK /\ (indeg \in [Models -> Nat])' /\ (queue \in Seq(Models))'
          /\ (ordered \in Seq(Models))' /\ (node \in Models)' /\ (at \in DOMAIN Input)'
    BY <1>1 DEF IInv, OrderTypeOK
  <2>2. (order \in Seq(Models))'
    BY <1>3
  <2>3. loop' \in {"seed", "drain", "relax", "sorted"}
    BY <1>1
  <2>. QED
    BY <1>1, <1>3, <2>1, <2>2, <2>3, TypeStep
<1>6. CountsRight' /\ QueuedRight' /\ NoRepeats' /\ DrainedFirst' /\ Untangled'
  <2>1. CountsRight'
    BY <1>1, <1>2 DEF IInv, CountsRight
  <2>2. QueuedRight' /\ NoRepeats'
    BY <1>1, <1>2 DEF IInv, QueuedRight, NoRepeats, Elements
  <2>3. DrainedFirst' /\ Untangled'
    BY <1>1, <1>2 DEF IInv, DrainedFirst, Before, Untangled
  <2>. QED
    BY <2>1, <2>2, <2>3
<1>7. ASSUME Len(ordered) = Len(Input)
      PROVE  Result'
  <2>1. ~hasCycle' /\ order' = ordered
    BY <1>3, <1>7
  <2>2. DependenciesFirst'
    BY <1>1, <1>2, <2>1 DEF IInv, DrainedFirst, Before, DependenciesFirst
  <2>3. CycleIsExact'
    <3>1. \A S \in SUBSET Models : ~Entangled(S)
      BY <1>4, <1>7 DEF IInv, Untangled, Entangled
    <3>. QED
      BY <1>2, <2>1, <3>1 DEF CycleIsExact
  <2>4. NothingLost'
    <3>1. Elements(order') = Models
      BY <1>4, <1>7, <2>1 DEF Drained
    <3>. QED
      BY <2>1, <3>1 DEF NothingLost, Elements, IInv, NoRepeats
  <2>. QED
    BY <2>2, <2>3, <2>4 DEF Result
<1>8. ASSUME Len(ordered) # Len(Input)
      PROVE  Result'
  <2>1. hasCycle' /\ order' = Input
    BY <1>3, <1>8
  <2>2. DependenciesFirst'
    BY <2>1 DEF DependenciesFirst
  <2>3. CycleIsExact'
    <3>1. Entangled(Models \ Drained)
      BY <1>1, <1>4, <1>8, StuckIsEntangled
    <3>. QED
      BY <1>2, <2>1, <3>1 DEF CycleIsExact
  <2>4. NothingLost'
    <3>1. Elements(order') = Models
      BY <2>1 DEF Elements, Models
    <3>. QED
      BY <2>1, <3>1, InputAssumption DEF NothingLost, Elements
  <2>. QED
    BY <2>2, <2>3, <2>4 DEF Result
<1>. QED
  BY <1>1, <1>5, <1>6, <1>7, <1>8 DEF IInv

LEMMA NextIInv == IInv /\ [OrderNext]_orderVars => IInv'
<1>. SUFFICES ASSUME IInv, [OrderNext]_orderVars PROVE IInv'
  OBVIOUS
<1>1. CASE UNCHANGED orderVars
  <2>1. OrderTypeOK' /\ (at \in DOMAIN Input)'
    BY <1>1 DEF orderVars, IInv, OrderTypeOK
  <2>2. CountsRight'
    BY <1>1 DEF orderVars, IInv, CountsRight, Drained, Elements, Edges
  <2>3. QueuedRight'
    BY <1>1 DEF orderVars, IInv, QueuedRight, Drained, Elements
  <2>4. NoRepeats'
    BY <1>1 DEF orderVars, IInv, NoRepeats, Drained, Elements
  <2>5. DrainedFirst'
    BY <1>1 DEF orderVars, IInv, DrainedFirst, Before, Edges
  <2>6. Untangled'
    BY <1>1 DEF orderVars, IInv, Untangled, Entangled, Edges, Drained, Elements
  <2>7. DependenciesFirst' /\ NothingLost'
    BY <1>1 DEF orderVars, IInv, Result, DependenciesFirst, Before, Edges,
       NothingLost, Elements
  <2>8. CycleIsExact'
    BY <1>1 DEF orderVars, IInv, Result, CycleIsExact, Entangled, Edges
  <2>. QED
    BY <2>1, <2>2, <2>3, <2>4, <2>5, <2>6, <2>7, <2>8 DEF IInv, Result
<1>. QED
  BY <1>1, SeedIInv, PopIInv, RelaxIInv, FinishIInv DEF OrderNext

LEMMA Inductive == OrderSpec => []IInv
<1>. QED
  BY InitIInv, NextIInv, PTL DEF OrderSpec

-----------------------------------------------------------------------------
(* The properties. *)

\* The sort keeps its types for every request.
THEOREM TypeCorrect == OrderSpec => []OrderTypeOK
<1>1. IInv => OrderTypeOK
  BY DEF IInv
<1>. QED
  BY <1>1, Inductive, PTL

\* A build never reaches a model before the models it reads, unless a cycle is
\* flagged.
THEOREM DependenciesFirstAlways == OrderSpec => []DependenciesFirst
<1>1. IInv => DependenciesFirst
  BY DEF IInv, Result
<1>. QED
  BY <1>1, Inductive, PTL

\* The cycle flag is raised for exactly the graphs that have no such order.
THEOREM CycleIsExactAlways == OrderSpec => []CycleIsExact
<1>1. IInv => CycleIsExact
  BY DEF IInv, Result
<1>. QED
  BY <1>1, Inductive, PTL

\* The sort returns every model of the request, and none twice.
THEOREM NothingLostAlways == OrderSpec => []NothingLost
<1>1. IInv => NothingLost
  BY DEF IInv, Result
<1>. QED
  BY <1>1, Inductive, PTL
-----------------------------------------------------------------------------
(* Why the loops end. *)

LEMMA BelowThree ==
  ASSUME NEW a \in [1..3 -> Nat], NEW b \in [1..3 -> Nat],
         \/ a[1] < b[1]
         \/ a[1] = b[1] /\ a[2] < b[2]
         \/ a[1] = b[1] /\ a[2] = b[2] /\ a[3] < b[3]
  PROVE  Below(a, b)
<1>1. DOMAIN a = 1..3
  OBVIOUS
<1>2. CASE a[1] < b[1]
  <2>1. \A k \in 1..(1 - 1) : a[k] = b[k]
    OBVIOUS
  <2>. QED
    BY <1>1, <1>2, <2>1 DEF Below
<1>3. CASE a[1] = b[1] /\ a[2] < b[2]
  <2>1. \A k \in 1..(2 - 1) : k = 1
    OBVIOUS
  <2>2. \A k \in 1..(2 - 1) : a[k] = b[k]
    BY <1>3, <2>1
  <2>. QED
    BY <1>1, <1>3, <2>2 DEF Below
<1>4. CASE a[1] = b[1] /\ a[2] = b[2] /\ a[3] < b[3]
  <2>1. \A k \in 1..(3 - 1) : k = 1 \/ k = 2
    OBVIOUS
  <2>2. \A k \in 1..(3 - 1) : a[k] = b[k]
    BY <1>4, <2>1
  <2>. QED
    BY <1>1, <1>4, <2>2 DEF Below
<1>. QED
  BY <1>2, <1>3, <1>4

\* No more models are drained than there are, and what is left of each loop.
LeftIs(s, l, n, p) ==
  /\ s \in [1..3 -> Nat]
  /\ s[1] = IF l = "seed" THEN 2 ELSE IF l = "sorted" THEN 0 ELSE 1
  /\ s[2] = Len(Input) - n
  /\ s[3] = IF l \in {"seed", "relax"} THEN Len(Input) + 1 - p ELSE 0

LEMMA SortParts ==
  ASSUME NEW l \in {"seed", "drain", "relax", "sorted"}, NEW p \in 1..Len(Input),
         Len(Input) \in Nat, NEW n \in 0..Len(Input), NEW s,
         s = <<[seed |-> 2, drain |-> 1, relax |-> 1, sorted |-> 0][l],
               Len(Input) - n,
               IF l \in {"seed", "relax"} THEN Len(Input) + 1 - p ELSE 0>>
  PROVE  LeftIs(s, l, n, p)
<1>. DEFINE x == [seed |-> 2, drain |-> 1, relax |-> 1, sorted |-> 0][l]
            y == Len(Input) - n
            z == IF l \in {"seed", "relax"} THEN Len(Input) + 1 - p ELSE 0
<1>1. x = IF l = "seed" THEN 2 ELSE IF l = "sorted" THEN 0 ELSE 1
  OBVIOUS
<1>2. x \in Nat /\ y \in Nat /\ z \in Nat
  BY <1>1
<1>3. s = <<x, y, z>>
  OBVIOUS
<1>. HIDE DEF x, y, z
<1>4. s \in [1..3 -> Nat] /\ s[1] = x /\ s[2] = y /\ s[3] = z
  BY <1>2, <1>3
<1>. QED
  BY <1>1, <1>4 DEF LeftIs, y, z

LEMMA OrderedFits ==
  ASSUME OrderTypeOK, NoRepeats
  PROVE  Len(Input) \in Nat /\ Len(ordered) \in 0..Len(Input)
<1>1. ordered \in Seq(Models) /\ Cardinality(Drained) = Len(ordered)
  BY DEF OrderTypeOK, NoRepeats
<1>2. Drained \in SUBSET Models
  BY <1>1 DEF Drained, Elements
<1>. QED
  BY <1>1, <1>2, ModelsFinite, FS_Subset

SortLeftIs ==
  /\ LeftIs(SortLeft, loop, Len(ordered), at)
  /\ at \in 1..Len(Input) /\ Len(Input) \in Nat /\ Len(ordered) \in 0..Len(Input)

LEMMA SortMeasured == IInv => SortLeftIs
<1>. SUFFICES ASSUME IInv PROVE SortLeftIs
  OBVIOUS
<1>1. loop \in {"seed", "drain", "relax", "sorted"} /\ at \in 1..Len(Input)
  BY InputAssumption DEF IInv, OrderTypeOK
<1>2. Len(Input) \in Nat /\ Len(ordered) \in 0..Len(Input)
  BY OrderedFits DEF IInv
<1>. QED
  BY <1>1, <1>2, SortParts DEF SortLeft, SortLeftIs

\* How one iteration leaves the loop, the drained models and the position.
LEMMA SortMoves ==
  ASSUME IInv, OrderNext
  PROVE  \/ loop = "seed" /\ loop' = "drain"
         \/ loop = "seed" /\ loop' = "seed" /\ at' = at + 1 /\ Len(ordered') = Len(ordered)
         \/ loop = "drain" /\ loop' = "relax" /\ Len(ordered') = Len(ordered) + 1
         \/ loop = "relax" /\ loop' = "drain" /\ Len(ordered') = Len(ordered) /\ at \in 1..Len(Input)
         \/ loop = "relax" /\ loop' = "relax" /\ at' = at + 1 /\ Len(ordered') = Len(ordered)
         \/ loop = "drain" /\ loop' = "sorted"
<1>1. at \in DOMAIN Input /\ at \in 1..Len(Input) /\ ordered \in Seq(Models)
  BY InputAssumption DEF IInv, OrderTypeOK
<1>2. CASE Seed
  BY <1>1, <1>2, AdvanceAt DEF Seed
<1>3. CASE Pop
  <2>1. loop = "drain" /\ loop' = "relax" /\ ordered' = Append(ordered, Head(queue))
    BY <1>3 DEF Pop
  <2>. QED
    BY <1>1, <2>1
<1>4. CASE Relax
  BY <1>1, <1>4, AdvanceAt DEF Relax
<1>5. CASE Finish
  BY <1>5 DEF Finish
<1>. QED
  BY <1>2, <1>3, <1>4, <1>5 DEF OrderNext

LEMMA SortDown ==
  ASSUME NEW s, NEW t, NEW l, NEW m, NEW n \in 0..Len(Input), NEW k \in 0..Len(Input),
         NEW p \in 1..Len(Input), NEW q \in 1..Len(Input), Len(Input) \in Nat,
         LeftIs(s, l, n, p), LeftIs(t, m, k, q),
         \/ l = "seed" /\ m = "drain"
         \/ l = "seed" /\ m = "seed" /\ q = p + 1 /\ k = n
         \/ l = "drain" /\ m = "relax" /\ k = n + 1
         \/ l = "relax" /\ m = "drain" /\ k = n
         \/ l = "relax" /\ m = "relax" /\ q = p + 1 /\ k = n
         \/ l = "drain" /\ m = "sorted"
  PROVE  Below(t, s)
<1>1. s \in [1..3 -> Nat] /\ t \in [1..3 -> Nat]
  BY DEF LeftIs
<1>2. CASE (l = "seed" /\ m = "drain") \/ (l = "drain" /\ m = "sorted")
  <2>1. t[1] < s[1]
    BY <1>2 DEF LeftIs
  <2>. QED
    BY <1>1, <2>1, BelowThree
<1>3. CASE l = "drain" /\ m = "relax" /\ k = n + 1
  <2>1. t[1] = s[1] /\ t[2] < s[2]
    BY <1>3 DEF LeftIs
  <2>. QED
    BY <1>1, <2>1, BelowThree
<1>4. CASE l = "relax" /\ m = "drain" /\ k = n
  <2>1. t[1] = s[1] /\ t[2] = s[2] /\ t[3] < s[3]
    BY <1>4 DEF LeftIs
  <2>. QED
    BY <1>1, <2>1, BelowThree
<1>5. CASE l \in {"seed", "relax"} /\ m = l /\ q = p + 1 /\ k = n
  <2>1. t[1] = s[1] /\ t[2] = s[2] /\ t[3] < s[3]
    BY <1>5 DEF LeftIs
  <2>. QED
    BY <1>1, <2>1, BelowThree
<1>. QED
  BY <1>2, <1>3, <1>4, <1>5

LEMMA SortGoesDown ==
  ASSUME IInv, SortLeftIs, SortLeftIs', OrderNext
  PROVE  Below(SortLeft', SortLeft)
<1>1. /\ LeftIs(SortLeft, loop, Len(ordered), at)
      /\ at \in 1..Len(Input) /\ Len(Input) \in Nat /\ Len(ordered) \in 0..Len(Input)
      /\ LeftIs(SortLeft', loop', Len(ordered'), at')
      /\ at' \in 1..Len(Input) /\ Len(ordered') \in 0..Len(Input)
  BY DEF SortLeftIs
<1>. QED
  BY <1>1, SortMoves, SortDown

\* Whatever the graph, each iteration of a loop lowers what the sort has left to
\* do: it ends after finitely many, cycle or not.
THEOREM SortProgresses == OrderSpec => SortProgress
<1>1. SortLeftIs => SortLeft \in [1..3 -> Nat]
  BY DEF SortLeftIs, LeftIs
<1>2. IInv /\ SortLeftIs /\ SortLeftIs' /\ [OrderNext]_orderVars
        => [Below(SortLeft', SortLeft)]_orderVars
  BY SortGoesDown
<1>. QED
  BY <1>1, <1>2, SortMeasured, Inductive, PTL DEF OrderSpec, SortProgress
=============================================================================
