------------------------ MODULE WorkflowPlan_proofs ------------------------
(***************************************************************************)
(* Proofs about the job made of a workflow: whatever its links and the     *)
(* tasks dropped from it, as long as its keys are distinct and its chains  *)
(* straight, a kept task runs only after every kept task that came before  *)
(* it; and the emitted DAG runs in its order.                              *)
(***************************************************************************)
EXTENDS WorkflowPlan, FiniteSetTheorems, SequenceTheorems, TLAPS

\* The links read so far are in the dependencies.
LinksRead(ls) ==
  \A l \in ls : \A p \in Meant(l) : \A t \in p[2] \cap flow.tasks : \A b \in p[1] \cap flow.tasks :
    b \in deps[t]

\* What _chain has made so far of a straight link l.
Groups == SUBSET DOMAIN KeyOf
ReadInto(l) ==
  /\ chain \in Seq(Groups) /\ Len(chain) <= Len(l.groups)
  /\ (\A i \in DOMAIN l.ops : l.ops[i] = ">>") =>
       \A i \in 1..Len(chain) : chain[i] = l.groups[i]
  /\ Len(l.ops) = 1 /\ l.ops[1] = "<<" =>
       /\ Len(chain) = 1 => chain[1] = l.groups[1]
       /\ Len(chain) = 2 => chain[1] = l.groups[2] /\ chain[2] = l.groups[1]

Straight == \A l \in flow.links : IsStraight(l)
JobOf(last) == [t \in Kept |-> WaitsFor(DependsOn(t), last)]

\* The job follows the dependencies, and its run has followed the job.
IInv ==
  /\ flow \in Flows
  /\ flow.from # "emit" /\ Straight /\ planned \in {"link", "planned"} =>
       LinksRead(flow.links \ links)
  /\ planned = "link" => flow.from # "emit" /\ links \subseteq flow.links
  /\ planned = "read" => chain = <<>>
  /\ planned = "link" =>
       chain = <<>> \/ (links # {} /\ ReadInto(CHOOSE x \in links : TRUE))
  /\ flow.from # "emit" /\ planned = "planned" =>
       links = {} /\ \E last \in LastOfKey : job = JobOf(last)
  /\ planned # "planned" => done = {}
  /\ done \subseteq DOMAIN job
  /\ \A t \in done : \A k \in job[t] : \E u \in done : TaskKey(u) = k

LEMMA InitIInv == PlanInit => IInv
BY DEF PlanInit, NotPlanned, IInv

\* What a link holds.
LEMMA LinkIs ==
  ASSUME flow \in Flows, NEW l \in flow.links
  PROVE  /\ l.groups \in Seq(Groups) /\ l.ops \in Seq({">>", "<<"})
         /\ Len(l.groups) = Len(l.ops) + 1 /\ Len(l.ops) \in Nat /\ Len(l.groups) \in Nat
         /\ DOMAIN l.ops = 1..Len(l.ops)
BY LinksAssumption, LenProperties DEF Groups

\* An operand more, put behind the ones before it or, for a single <<, before it.
LEMMA OperandKeeps ==
  ASSUME IInv, links # {}, Operand(CHOOSE x \in links : TRUE)
  PROVE  IInv'
<1>0. PICK l : l = CHOOSE x \in links : TRUE
  OBVIOUS
<1>. DEFINE n == Len(chain)  longer == Append(chain, l.groups[n + 1])
<1>1. planned = "link" /\ l \in links /\ l \in flow.links
  BY <1>0 DEF Operand, IInv
<1>2. /\ UNCHANGED <<flow, links, deps, job, done, planned>> /\ n < Len(l.groups)
      /\ chain' = IF n > 0 /\ l.ops[n] = "<<" THEN Reverse(longer) ELSE longer
  BY <1>0 DEF Operand
<1>3. /\ l.groups \in Seq(Groups) /\ l.ops \in Seq({">>", "<<"})
      /\ Len(l.groups) = Len(l.ops) + 1 /\ Len(l.ops) \in Nat /\ Len(l.groups) \in Nat
      /\ DOMAIN l.ops = 1..Len(l.ops)
  BY <1>1, LinkIs DEF IInv
<1>4. ReadInto(l)
  <2>1. CASE chain = <<>>
    BY <2>1, <1>3 DEF ReadInto
  <2>2. CASE chain # <<>>
    BY <2>2, <1>0, <1>1 DEF IInv
  <2>. QED
    BY <2>1, <2>2
<1>5. ReadInto(l)'
  <2>. DEFINE c == chain  d == chain'
  <2>1. c \in Seq(Groups) /\ n \in Nat /\ l.groups[n + 1] \in Groups
    BY <1>2, <1>3, <1>4, ElementOfSeq, LenProperties DEF ReadInto
  <2>2. /\ longer \in Seq(Groups) /\ Len(longer) = n + 1 /\ longer[n + 1] = l.groups[n + 1]
        /\ \A i \in 1..n : longer[i] = c[i]
    BY <2>1, AppendProperties
  <2>. HIDE DEF longer
  <2>3. CASE n > 0 /\ l.ops[n] = "<<"
    <3>1. d = [i \in 1..(n + 1) |-> longer[(n + 1 - i) + 1]]
      BY <1>2, <2>2, <2>3 DEF Reverse
    <3>2. \A i \in 1..(n + 1) : longer[(n + 1 - i) + 1] \in Groups
      BY <2>1, <2>2, ElementOfSeq
    <3>3. d \in Seq(Groups) /\ Len(d) = n + 1
      <4>1. d \in [1..(n + 1) -> Groups]
        BY <3>1, <3>2
      <4>. QED
        BY <4>1, <2>1, SeqDef, LenProperties
    <3>4. n \in DOMAIN l.ops
      BY <1>2, <1>3, <2>1, <2>3
    <3>5. Len(l.ops) = 1 => n = 1
      BY <1>3, <3>4
    <3>6. n = 1 /\ c[1] = l.groups[1] => d[1] = l.groups[2] /\ d[2] = l.groups[1]
      BY <2>2, <3>1
    <3>7. ~(\A i \in DOMAIN l.ops : l.ops[i] = ">>")
      BY <2>3, <3>4
    <3>. QED
      BY <1>2, <1>3, <1>4, <2>1, <3>3, <3>5, <3>6, <3>7 DEF ReadInto
  <2>4. CASE ~(n > 0 /\ l.ops[n] = "<<")
    <3>1. d = longer
      BY <1>2, <2>4
    <3>2. Len(l.ops) = 1 /\ l.ops[1] = "<<" => n = 0
      BY <1>2, <1>3, <2>1, <2>4
    <3>3. d \in Seq(Groups) /\ Len(d) = n + 1 /\ Len(d) <= Len(l.groups)
      BY <1>2, <1>3, <2>1, <2>2, <3>1
    <3>4. ASSUME \A i \in DOMAIN l.ops : l.ops[i] = ">>" PROVE \A i \in 1..(n + 1) : d[i] = l.groups[i]
      <4>1. \A i \in 1..n : c[i] = l.groups[i]
        BY <3>4, <1>4 DEF ReadInto
      <4>. QED
        BY <4>1, <2>1, <2>2, <3>1
    <3>5. n = 0 => d[1] = l.groups[1]
      BY <2>2, <3>1
    <3>. QED
      BY <3>2, <3>3, <3>4, <3>5 DEF ReadInto
  <2>. QED
    BY <2>3, <2>4
<1>6. (CHOOSE x \in links : TRUE)' = l
  BY <1>0, <1>2
<1>7. LinksRead(flow.links \ links)' <=> LinksRead(flow.links \ links)
  BY <1>2 DEF LinksRead, Meant
<1>. QED
  BY <1>1, <1>2, <1>5, <1>6, <1>7 DEF IInv, Straight, IsStraight, TaskKey

\* A straight link is read as it is meant.
LEMMA ReadAsMeant ==
  ASSUME flow \in Flows, NEW l \in flow.links, IsStraight(l), ReadInto(l), Len(chain) = Len(l.groups)
  PROVE  Meant(l) \subseteq Pairs(chain)
<1>1. /\ Len(l.groups) = Len(l.ops) + 1 /\ Len(l.ops) \in Nat
      /\ DOMAIN l.ops = 1..Len(l.ops) /\ l.ops \in Seq({">>", "<<"})
  BY LinkIs
<1>. SUFFICES ASSUME NEW i \in DOMAIN l.ops
              PROVE  (IF l.ops[i] = ">>" THEN <<l.groups[i], l.groups[i + 1]>>
                      ELSE <<l.groups[i + 1], l.groups[i]>>) \in Pairs(chain)
  BY DEF Meant
<1>2. i \in 1..(Len(chain) - 1) /\ i \in 1..Len(chain) /\ i + 1 \in 1..Len(chain)
  BY <1>1
<1>3. <<chain[i], chain[i + 1]>> \in Pairs(chain)
  BY <1>2 DEF Pairs
<1>4. CASE \A j \in DOMAIN l.ops : l.ops[j] = ">>"
  <2>1. chain[i] = l.groups[i] /\ chain[i + 1] = l.groups[i + 1]
    BY <1>2, <1>4 DEF ReadInto
  <2>. QED
    BY <1>3, <1>4, <2>1
<1>5. CASE Len(l.ops) = 1 /\ l.ops[1] = "<<"
  <2>1. i = 1 /\ Len(chain) = 2
    BY <1>1, <1>5
  <2>2. chain[1] = l.groups[2] /\ chain[2] = l.groups[1]
    BY <1>5, <2>1 DEF ReadInto
  <2>3. l.ops[i] # ">>" /\ i + 1 = 2
    BY <1>5, <2>1
  <2>. QED
    BY <1>3, <2>1, <2>2, <2>3
<1>6. Len(l.ops) = 1 => l.ops[1] \in {">>", "<<"}
  BY <1>1, ElementOfSeq
<1>. QED
  BY <1>1, <1>4, <1>5, <1>6 DEF IsStraight

LEMMA LinkKeeps ==
  ASSUME IInv, links # {}, Link(CHOOSE x \in links : TRUE)
  PROVE  IInv'
<1>0. PICK l : l = CHOOSE x \in links : TRUE
  OBVIOUS
<1>1. planned = "link" /\ l \in links /\ l \in flow.links /\ flow \in Flows
  BY <1>0 DEF Link, IInv
<1>2. /\ deps' = [t \in flow.tasks |->
                   deps[t] \cup UNION {Before(p[1]) : p \in {q \in Pairs(chain) : t \in q[2]}}]
      /\ links' = links \ {l} /\ chain' = <<>> /\ Len(chain) = Len(l.groups)
      /\ UNCHANGED <<flow, job, done, planned>>
  BY <1>0 DEF Link
<1>3. ReadInto(l)
  <2>1. chain # <<>>
    BY <1>1, <1>2, LinkIs
  <2>. QED
    BY <1>0, <1>1, <2>1 DEF IInv
<1>4. Straight => LinksRead(flow.links \ links)'
  <2>. SUFFICES ASSUME Straight, NEW m \in flow.links \ links', NEW p \in Meant(m),
                       NEW t \in p[2] \cap flow.tasks, NEW b \in p[1] \cap flow.tasks
                PROVE  b \in deps'[t]
    BY <1>2 DEF LinksRead, Meant
  <2>1. CASE m = l
    <3>1. p \in Pairs(chain)
      BY <2>1, <1>1, <1>2, <1>3, ReadAsMeant DEF Straight
    <3>2. b \in Before(p[1])
      BY DEF Before
    <3>. QED
      BY <3>1, <3>2, <1>2
  <2>2. CASE m # l
    <3>1. b \in deps[t]
      BY <2>2, <1>1, <1>2 DEF IInv, LinksRead
    <3>. QED
      BY <3>1, <1>2
  <2>. QED
    BY <2>1, <2>2
<1>5. flow.from # "emit" /\ links' \subseteq flow.links
  BY <1>1, <1>2 DEF IInv
<1>6. Straight' <=> Straight
  BY <1>2 DEF Straight, IsStraight
<1>. QED
  BY <1>1, <1>2, <1>4, <1>5, <1>6 DEF IInv, TaskKey

\* What is made of the workflow and its dependencies stays with them.
LEMMA DependenciesStay ==
  ASSUME UNCHANGED <<flow, links, deps>>
  PROVE  /\ LinksRead(flow.links \ links)' <=> LinksRead(flow.links \ links)
         /\ (Straight' <=> Straight) /\ LastOfKey' = LastOfKey /\ Kept' = Kept
         /\ \A last : JobOf(last)' = JobOf(last)
         /\ \A u : TaskKey(u)' = TaskKey(u)
<1>1. LinksRead(flow.links \ links)' <=> LinksRead(flow.links \ links)
  BY DEF LinksRead, Meant
<1>2. (Straight' <=> Straight) /\ \A u : TaskKey(u)' = TaskKey(u)
  BY DEF Straight, IsStraight, TaskKey
<1>3. Dropped' = Dropped /\ Kept' = Kept /\ \A t : DependsOn(t)' = DependsOn(t)
  BY DEF Dropped, IsDropped, Kept, DependsOn, DepKey
<1>4. LastOfKey' = LastOfKey
  BY <1>3 DEF LastOfKey
<1>5. AllKeys' = AllKeys
  BY <1>3 DEF AllKeys
<1>6. \A keys, last : WaitsFor(keys, last)' = WaitsFor(keys, last)
  BY <1>3, <1>5 DEF WaitsFor, Reached, UpstreamOf
<1>7. \A last : JobOf(last)' = JobOf(last)
  BY <1>3, <1>6 DEF JobOf
<1>. QED
  BY <1>1, <1>2, <1>3, <1>4, <1>7

LEMMA BuildKeeps == ASSUME IInv, BuildJob PROVE IInv'
<1>1. /\ UNCHANGED <<flow, links, chain, deps, done>> /\ planned = "link" /\ links = {}
      /\ done = {} /\ flow.from # "emit"
  BY DEF BuildJob, IInv
<1>2. /\ LinksRead(flow.links \ links)' <=> LinksRead(flow.links \ links)
      /\ (Straight' <=> Straight) /\ LastOfKey' = LastOfKey /\ \A last : JobOf(last)' = JobOf(last)
  BY <1>1, DependenciesStay
<1>3. CASE planned' = "failed"
  BY <1>1, <1>3 DEF IInv
<1>4. CASE \E last \in LastOfKey : job' = JobOf(last) /\ planned' = "planned"
  BY <1>1, <1>2, <1>4 DEF IInv
<1>. QED
  BY <1>3, <1>4 DEF BuildJob, JobOf

LEMMA NextIInv == IInv /\ [PlanNext]_planVars => IInv'
<1>. SUFFICES ASSUME IInv, [PlanNext]_planVars PROVE IInv'
  OBVIOUS
<1>1. CASE ReadFlow
  BY <1>1 DEF ReadFlow, IInv, LinksRead, TaskKey
<1>2. CASE ReadLink
  BY <1>2, OperandKeeps, LinkKeeps DEF ReadLink
<1>3. CASE BuildJob
  BY <1>3, BuildKeeps
<1>4. CASE EmitDag
  BY <1>4 DEF EmitDag, IInv
<1>5. ASSUME NEW t \in DOMAIN job, RunTask(t) PROVE IInv'
  <2>1. /\ UNCHANGED <<flow, links, chain, deps, job, planned>> /\ planned = "planned"
        /\ done' = done \cup {t} /\ \A k \in job[t] : \E u \in done : TaskKey(u) = k
    BY <1>5 DEF RunTask
  <2>. QED
    BY <2>1, DependenciesStay DEF IInv
<1>6. CASE UNCHANGED planVars
  <2>1. UNCHANGED <<flow, links, chain, deps, job, done, planned>>
    BY <1>6 DEF planVars
  <2>2. \A l : ReadInto(l)' <=> ReadInto(l)
    BY <2>1 DEF ReadInto
  <2>. QED
    BY <2>1, <2>2, DependenciesStay DEF IInv
<1>. QED
  BY <1>1, <1>2, <1>3, <1>4, <1>5, <1>6 DEF PlanNext

LEMMA Inductive == PlanSpec => []IInv
<1>. QED
  BY InitIInv, NextIInv, PTL DEF PlanSpec

-----------------------------------------------------------------------------
\* What is waited for holds the dependencies, and, of a dropped one, theirs.
LEMMA ReachedSelf ==
  ASSUME NEW keys, NEW last, NEW d \in keys \cap AllKeys
  PROVE  d \in Reached(keys, last)
BY DEF Reached

LEMMA ReachedThrough ==
  ASSUME NEW keys, NEW last, NEW d \in keys \cap Dropped,
         NEW e \in Reached(UpstreamOf({d}, last), last)
  PROVE  e \in Reached(keys, last)
<1>. SUFFICES ASSUME NEW C \in SUBSET AllKeys, keys \subseteq C, UpstreamOf(C, last) \subseteq C
              PROVE  e \in C
  BY DEF Reached
<1>1. UpstreamOf({d}, last) \subseteq UpstreamOf(C, last)
  BY DEF UpstreamOf
<1>. QED
  BY <1>1 DEF Reached

\* A kept or unknown key of which nothing has run, and a task that such a key
\* keeps from running: its own, or one that is waited for through dropped tasks.
Missing == {k \in AllKeys \ Dropped : \A u \in done : KeyOf[u] # k}
HeldBy(d, last) == d \in Missing \/ (d \in Dropped /\ Reached(UpstreamOf({d}, last), last) \cap Missing # {})
Held(last) == {t \in flow.tasks : HeldBy(KeyOf[t], last)}

\* Whatever a held task comes before is held.
LEMMA HeldFollows ==
  ASSUME IInv, planned = "planned", flow.from # "emit", DistinctKeys, Straight,
         NEW last \in LastOfKey, job = JobOf(last)
  PROVE  Follows(Held(last)) \subseteq Held(last)
<1>. SUFFICES ASSUME NEW l \in flow.links, NEW p \in Meant(l), NEW b \in p[1] \cap Held(last),
                     NEW t \in p[2] \cap flow.tasks
              PROVE  t \in Held(last)
  BY DEF Follows
<1>. DEFINE d == DepKey(b)  k == KeyOf[t]
<1>0. links = {} /\ LinksRead(flow.links)
  BY DEF IInv
<1>1. b \in flow.tasks /\ HeldBy(KeyOf[b], last)
  BY DEF Held
<1>2. d \in DependsOn(t) /\ d \in AllKeys
  <2>1. b \in deps[t]
    BY <1>0, <1>1 DEF LinksRead
  <2>. QED
    BY <2>1 DEF DependsOn, AllKeys
<1>3. HeldBy(d, last)
  <2>1. CASE d = KeyOf[b]
    BY <1>1, <2>1
  <2>2. CASE d # KeyOf[b]
    <3>1. flow.from = "api" /\ d = b
      BY <2>2 DEF DepKey
    <3>2. ASSUME NEW z \in flow.tasks, d = KeyOf[z] PROVE FALSE
      <4>1. KeyOf[d] = d
        BY <3>1, <3>2, <1>1, KeyAssumption DEF IInv
      <4>. QED
        BY <4>1, <3>1, <2>2
    <3>3. d \notin Dropped
      BY <3>2 DEF Dropped
    <3>4. done \subseteq flow.tasks
      BY DEF IInv, JobOf, Kept
    <3>. QED
      BY <1>2, <3>2, <3>3, <3>4 DEF HeldBy, Missing
  <2>. QED
    BY <2>1, <2>2
<1>4. Reached(DependsOn(t), last) \cap Missing # {}
  <2>1. CASE d \in Missing
    BY <2>1, <1>2, ReachedSelf
  <2>2. CASE d \in Dropped /\ Reached(UpstreamOf({d}, last), last) \cap Missing # {}
    BY <2>2, <1>2, ReachedThrough
  <2>. QED
    BY <1>3, <2>1, <2>2 DEF HeldBy
<1>5. CASE k \in Dropped
  <2>1. last[k] = t
    BY <1>5 DEF LastOfKey, DistinctKeys
  <2>2. UpstreamOf({k}, last) = DependsOn(t)
    BY <2>1, <1>5 DEF UpstreamOf
  <2>. QED
    BY <1>4, <1>5, <2>2 DEF Held, HeldBy
<1>6. CASE k \notin Dropped
  <2>1. k \in AllKeys /\ t \in Kept
    BY <1>6 DEF AllKeys, Kept
  <2>2. ASSUME NEW u \in done, KeyOf[u] = k PROVE FALSE
    <3>1. u = t
      BY <2>2 DEF IInv, JobOf, Kept, DistinctKeys
    <3>2. job[t] = Reached(DependsOn(t), last) \ Dropped
      BY <2>1 DEF JobOf, WaitsFor
    <3>3. PICK m \in job[t] : m \in Missing
      BY <1>4, <3>2 DEF Missing
    <3>4. \E v \in done : KeyOf[v] = m
      BY <3>1, <2>2 DEF IInv, TaskKey
    <3>. QED
      BY <3>3, <3>4 DEF Missing
  <2>3. k \in Missing
    BY <1>6, <2>1, <2>2 DEF Missing
  <2>. QED
    BY <2>3 DEF Held, HeldBy
<1>. QED
  BY <1>5, <1>6

\* With distinct keys and straight chains, no task of the job runs before a kept
\* task that came before it in the source, through any number of dropped ones.
THEOREM RunsInOrderAlways == PlanSpec => []RunsInOrder
<1>1. IInv => RunsInOrder
  <2>. SUFFICES ASSUME IInv, flow.from # "emit", DistinctKeys, Straight,
                       NEW a \in flow.tasks, NEW b \in flow.tasks,
                       Precedes(a, b), b \in done, a \in DOMAIN job, a \notin done
                PROVE  FALSE
    BY DEF RunsInOrder, OrderIsKept, Straight
  <2>1. planned = "planned" /\ \E last \in LastOfKey : job = JobOf(last)
    BY DEF IInv
  <2>2. PICK last \in LastOfKey : job = JobOf(last)
    BY <2>1
  <2>3. done \subseteq Kept /\ a \in Kept
    BY <2>2 DEF IInv, JobOf
  <2>4. a \in Held(last)
    <3>1. \A u \in done : KeyOf[u] # KeyOf[a]
      BY <2>3 DEF DistinctKeys, Kept
    <3>. QED
      BY <2>3, <3>1 DEF Held, HeldBy, Missing, AllKeys, Kept
  <2>5. b \in Held(last)
    <3>1. Held(last) \cup {a} = Held(last) /\ Held(last) \in SUBSET flow.tasks
      BY <2>4 DEF Held
    <3>. QED
      BY <3>1, <2>1, <2>2, HeldFollows DEF Precedes
  <2>6. b \in Kept
    BY <2>3
  <2>. QED
    BY <2>5, <2>6 DEF Held, HeldBy, Missing, Kept
<1>. QED
  BY <1>1, Inductive, PTL

-----------------------------------------------------------------------------
(* The emitted DAG.                                                        *)

LEMMA SetToSeqIs ==
  ASSUME NEW S, IsFiniteSet(S)
  PROVE  SetToSeq(S) \in Seq(S)
<1>. DEFINE n == Cardinality(S)
<1>1. n \in Nat /\ \E f \in [1..n -> S] : IsInjective(f)
  <2>1. n \in Nat /\ ExistsBijection(1..n, S)
    BY FS_CardinalityType
  <2>. QED
    BY <2>1 DEF ExistsBijection, Bijection, Injection, IsInjective
<1>2. SetToSeq(S) \in [1..n -> S]
  BY <1>1 DEF SetToSeq
<1>. HIDE DEF n
<1>. QED
  BY <1>1, <1>2, SeqDef

\* What the chain is made of.
ChainTasks == flow.notebooks
            \cup {"wait", "dbt_cloud", "staging", "intermediate", "marts", "notify"}

LEMMA OneTask == ASSUME NEW S, NEW x \in S PROVE <<x>> \in Seq(S)
OBVIOUS

LEMMA PiecesAre ==
  ASSUME flow \in Flows
  PROVE  /\ Arrival \in Seq(ChainTasks) /\ Ingested \in Seq(ChainTasks) /\ Built \in Seq(ChainTasks)
         /\ FirstOf("open") \in Seq(ChainTasks) /\ FirstOf("close") \in Seq(ChainTasks)
         /\ <<"notify">> \in Seq(ChainTasks)
<1>1. \A k : OfKind(k) \in Seq(flow.notebooks)
  <2>. TAKE k
  <2>. DEFINE S == {n \in flow.notebooks : flow.kind[n] = k}
  <2>1. IsFiniteSet(S)
    BY NotebooksAssumption, FS_Subset
  <2>2. OfKind(k) \in Seq(S)
    BY <2>1, SetToSeqIs DEF OfKind
  <2>. QED
    BY <2>2, SeqMonotonic
<1>2. \A k : FirstOf(k) \in Seq(ChainTasks)
  <2>. TAKE k
  <2>. DEFINE all == OfKind(k)
  <2>1. all \in Seq(flow.notebooks)
    BY <1>1
  <2>. HIDE DEF all
  <2>2. CASE all = <<>>
    <3>1. FirstOf(k) = SubSeq(all, 1, 0)
      BY <2>2 DEF FirstOf, all
    <3>. QED
      BY <3>1, SubSeqEmpty, EmptySeq
  <2>3. CASE all # <<>>
    <3>1. FirstOf(k) = SubSeq(all, 1, 1)
      BY <2>3 DEF FirstOf, all
    <3>2. Len(all) \in Nat \ {0}
      BY <2>1, <2>3, EmptySeq
    <3>3. \A i \in 1..1 : all[i] \in ChainTasks
      BY <2>1, <3>2, ElementOfSeq DEF ChainTasks
    <3>. QED
      BY <3>1, <3>3, SubSeqProperties
  <2>. QED
    BY <2>2, <2>3
<1>3. Ingested \in Seq(ChainTasks)
  <2>1. OfKind("ingest") \in Seq(ChainTasks)
    BY <1>1, SeqMonotonic DEF ChainTasks
  <2>2. \A T : SetToSeq(flow.notebooks \ T) \in Seq(ChainTasks)
    <3>. TAKE T
    <3>1. IsFiniteSet(flow.notebooks \ T)
      BY NotebooksAssumption, FS_Subset
    <3>2. SetToSeq(flow.notebooks \ T) \in Seq(flow.notebooks \ T)
      BY <3>1, SetToSeqIs
    <3>. QED
      BY <3>2, SeqMonotonic DEF ChainTasks
  <2>. QED
    BY <2>1, <2>2 DEF Ingested
<1>4. Built \in Seq(ChainTasks)
  <2>1. \A l \in {"staging", "intermediate", "marts"} : LayerTask(l) \in Seq(ChainTasks)
    <3>. TAKE l \in {"staging", "intermediate", "marts"}
    <3>1. <<l>> \in Seq(ChainTasks) /\ <<>> \in Seq(ChainTasks)
      BY OneTask, EmptySeq DEF ChainTasks
    <3>. QED
      BY <3>1 DEF LayerTask
  <2>2. LayerTask("staging") \o LayerTask("intermediate") \in Seq(ChainTasks)
    BY <2>1, ConcatProperties
  <2>3. (LayerTask("staging") \o LayerTask("intermediate")) \o LayerTask("marts") \in Seq(ChainTasks)
    BY <2>1, <2>2, ConcatProperties
  <2>4. <<"dbt_cloud">> \in Seq(ChainTasks)
    BY OneTask DEF ChainTasks
  <2>. QED
    BY <2>3, <2>4 DEF Built
<1>5. Arrival \in Seq(ChainTasks) /\ <<"notify">> \in Seq(ChainTasks)
  <2>1. <<"wait">> \in Seq(ChainTasks) /\ <<"notify">> \in Seq(ChainTasks) /\ <<>> \in Seq(ChainTasks)
    BY OneTask, EmptySeq DEF ChainTasks
  <2>. QED
    BY <2>1 DEF Arrival
<1>. QED
  BY <1>2, <1>3, <1>4, <1>5

\* Where the elements of a piece are in a chain.
LEMMA PieceAt ==
  ASSUME NEW S, NEW p \in Seq(S), NEW x \in Seq(S), NEW q \in Seq(S)
  PROVE  /\ (p \o x) \o q \in Seq(S)
         /\ \A i \in 1..Len(x) : /\ Len(p) + i \in 1..Len((p \o x) \o q)
                                 /\ ((p \o x) \o q)[Len(p) + i] = x[i]
<1>. DEFINE y == p \o x  c == y \o q
<1>1. /\ y \in Seq(S) /\ Len(y) = Len(p) + Len(x)
      /\ \A i \in 1..(Len(p) + Len(x)) : y[i] = IF i <= Len(p) THEN p[i] ELSE x[i - Len(p)]
  BY ConcatProperties
<1>2. y \in Seq(S)
  BY <1>1
<1>. HIDE DEF y
<1>3. /\ c \in Seq(S) /\ Len(c) = Len(y) + Len(q)
      /\ \A i \in 1..(Len(y) + Len(q)) : c[i] = IF i <= Len(y) THEN y[i] ELSE q[i - Len(y)]
  BY <1>2, ConcatProperties
<1>4. Len(p) \in Nat /\ Len(x) \in Nat /\ Len(q) \in Nat
  BY LenProperties
<1>. HIDE DEF c
<1>5. /\ c \in Seq(S)
      /\ \A i \in 1..Len(x) : Len(p) + i \in 1..Len(c) /\ c[Len(p) + i] = x[i]
  BY <1>1, <1>3, <1>4
<1>. QED
  BY <1>5 DEF c, y

\* Of two pieces that follow each other in a chain all of the first comes before
\* any of the second: whatever is closed under what comes earlier in the chain
\* holds the first if it holds some of the second.
Earlier(c, D) == \A i, j \in DOMAIN c : i < j /\ c[j] \in D => c[i] \in D

LEMMA PieceBefore ==
  ASSUME NEW S, NEW p \in Seq(S), NEW x \in Seq(S), NEW y \in Seq(S), NEW q \in Seq(S),
         NEW D, Earlier(((p \o x) \o y) \o q, D), NEW b \in ToSet(y), b \in D
  PROVE  ToSet(x) \subseteq D
<1>1. PICK r \in Seq(S) : r = p \o x /\ Len(r) = Len(p) + Len(x)
  BY ConcatProperties
<1>2. PICK u \in Seq(S) : u = y \o q
  BY ConcatProperties
<1>3. (r \o y) \o q = (p \o x) \o u
  <2>1. (r \o y) \o q = r \o (y \o q)
    BY ConcatAssociative
  <2>. QED
    BY <1>1, <1>2, <2>1
<1>4. PICK c \in Seq(S) : c = (r \o y) \o q
  BY PieceAt
<1>5. \A i \in 1..Len(x) : Len(p) + i \in 1..Len(c) /\ c[Len(p) + i] = x[i]
  <2>1. \A i \in 1..Len(x) : /\ Len(p) + i \in 1..Len((p \o x) \o u)
                             /\ ((p \o x) \o u)[Len(p) + i] = x[i]
    BY PieceAt
  <2>. QED
    BY <1>3, <1>4, <2>1
<1>6. \A j \in 1..Len(y) : Len(r) + j \in 1..Len(c) /\ c[Len(r) + j] = y[j]
  <2>1. \A j \in 1..Len(y) : /\ Len(r) + j \in 1..Len((r \o y) \o q)
                             /\ ((r \o y) \o q)[Len(r) + j] = y[j]
    BY PieceAt
  <2>. QED
    BY <1>4, <2>1
<1>7. /\ Len(p) \in Nat /\ Len(x) \in Nat /\ Len(y) \in Nat /\ Len(c) \in Nat
      /\ DOMAIN c = 1..Len(c) /\ DOMAIN x = 1..Len(x) /\ DOMAIN y = 1..Len(y)
  BY LenProperties
<1>8. PICK j \in 1..Len(y) : y[j] = b
  BY <1>7 DEF ToSet
<1>. SUFFICES ASSUME NEW i \in 1..Len(x) PROVE x[i] \in D
  BY <1>7 DEF ToSet
<1>9. Len(p) + i \in DOMAIN c /\ c[Len(p) + i] = x[i]
  BY <1>5, <1>7
<1>10. Len(r) + j \in DOMAIN c /\ c[Len(r) + j] \in D /\ Len(p) + i < Len(r) + j
  BY <1>1, <1>6, <1>7, <1>8
<1>11. Earlier(c, D)
  BY <1>1, <1>4
<1>. QED
  BY <1>9, <1>10, <1>11 DEF Earlier

\* The last two pieces are one.
LEMMA PiecesMerge ==
  ASSUME NEW S, NEW t \in Seq(S), NEW x \in Seq(S), NEW q \in Seq(S),
         NEW D, Earlier((t \o x) \o q, D)
  PROVE  \E u \in Seq(S) : Earlier(t \o u, D)
<1>1. (t \o x) \o q = t \o (x \o q)
  BY ConcatAssociative
<1>2. x \o q \in Seq(S)
  BY ConcatProperties
<1>. QED
  BY <1>1, <1>2

\* The three orders of a chain of six pieces.
InTurn(o, i, b, l, D) ==
  /\ ToSet(i) \cap D # {} => ToSet(o) \subseteq D
  /\ ToSet(b) \cap D # {} => ToSet(i) \subseteq D
  /\ ToSet(l) \cap D # {} => ToSet(b) \subseteq D

LEMMA ChainBefore ==
  ASSUME NEW S, NEW a \in Seq(S), NEW o \in Seq(S), NEW i \in Seq(S), NEW b \in Seq(S),
         NEW l \in Seq(S), NEW n \in Seq(S),
         NEW D, Earlier(((((a \o o) \o i) \o b) \o l) \o n, D)
  PROVE  InTurn(o, i, b, l, D)
<1>1. PICK p \in Seq(S) : p = a \o o
  BY ConcatProperties
<1>2. PICK r \in Seq(S) : r = p \o i
  BY ConcatProperties
<1>3. PICK t \in Seq(S) : t = r \o b
  BY ConcatProperties
<1>4. Earlier((t \o l) \o n, D)
  BY <1>1, <1>2, <1>3
<1>5. PICK u \in Seq(S) : Earlier(t \o u, D)
  BY <1>4, PiecesMerge, Zenon
<1>6. PICK v \in Seq(S) : Earlier(r \o v, D)
  <2>1. Earlier((r \o b) \o u, D)
    BY <1>3, <1>5
  <2>. QED
    BY <2>1, PiecesMerge, Zenon
<1>7. ASSUME NEW z \in ToSet(l), z \in D PROVE ToSet(b) \subseteq D
  <2>1. Earlier(((r \o b) \o l) \o n, D)
    BY <1>3, <1>4
  <2>. QED
    BY <1>7, <2>1, PieceBefore, Zenon
<1>8. ASSUME NEW z \in ToSet(b), z \in D PROVE ToSet(i) \subseteq D
  <2>1. Earlier(((p \o i) \o b) \o u, D)
    BY <1>2, <1>3, <1>5
  <2>. QED
    BY <1>8, <2>1, PieceBefore, Zenon
<1>9. ASSUME NEW z \in ToSet(i), z \in D PROVE ToSet(o) \subseteq D
  <2>1. Earlier(((a \o o) \o i) \o v, D)
    BY <1>1, <1>2, <1>6
  <2>. QED
    BY <1>9, <2>1, PieceBefore, Zenon
<1>. QED
  BY <1>7, <1>8, <1>9 DEF InTurn

\* Every task of the chain waits for the one before it, and the run keeps to it.
EmitInv ==
  flow.from = "emit" =>
    /\ planned \in {"read", "planned"}
    /\ planned = "read" => DOMAIN job = {}
    /\ planned = "planned" =>
         /\ \A i \in DOMAIN Chain : i + 1 \in DOMAIN Chain => Chain[i] \in job[Chain[i + 1]]
         /\ Earlier(Chain, done)

LEMMA ChainIs ==
  ASSUME flow \in Flows
  PROVE  Chain \in Seq(ChainTasks) /\ Len(Chain) \in Nat /\ DOMAIN Chain = 1..Len(Chain)
<1>1. Chain \in Seq(ChainTasks)
  BY PiecesAre, ConcatProperties DEF Chain
<1>. QED
  BY <1>1, LenProperties

LEMMA ChainStays ==
  ASSUME UNCHANGED flow
  PROVE  Chain' = Chain
BY DEF Chain, Arrival, FirstOf, OfKind, Ingested, Built, LayerTask

LEMMA EmitInvKeeps == IInv /\ EmitInv /\ [PlanNext]_planVars => EmitInv'
<1>. SUFFICES ASSUME IInv, EmitInv, [PlanNext]_planVars, flow'.from = "emit" PROVE EmitInv'
  BY DEF EmitInv
<1>0. UNCHANGED flow /\ flow.from = "emit"
  BY DEF PlanNext, ReadFlow, ReadLink, Operand, Link, BuildJob, EmitDag, RunTask, planVars
<1>. DEFINE c == Chain
<1>1. c' = c /\ Len(c) \in Nat /\ DOMAIN c = 1..Len(c)
  BY <1>0, ChainStays, ChainIs DEF IInv
<1>2. CASE EmitDag
  <2>1. planned' = "planned" /\ done' = {}
    BY <1>2 DEF EmitDag, IInv
  <2>2. \A i \in DOMAIN c : i + 1 \in DOMAIN c => c[i] \in job'[c[i + 1]]
    <3>. SUFFICES ASSUME NEW i \in DOMAIN c, i + 1 \in DOMAIN c PROVE c[i] \in job'[c[i + 1]]
      OBVIOUS
    <3>1. c[i + 1] \in ToSet(c)
      BY DEF ToSet
    <3>2. job'[c[i + 1]] = {c[n] : n \in {k \in DOMAIN c : k + 1 \in DOMAIN c /\ c[k + 1] = c[i + 1]}}
      BY <1>2, <3>1 DEF EmitDag
    <3>. QED
      BY <3>2
  <2>. HIDE DEF c
  <2>. QED
    BY <1>1, <2>1, <2>2 DEF EmitInv, Earlier, c
<1>3. ASSUME NEW k \in DOMAIN job, RunTask(k) PROVE EmitInv'
  <2>1. planned = "planned" /\ planned' = "planned" /\ job' = job /\ done' = done \cup {k}
        /\ job[k] \subseteq done
    BY <1>0, <1>3 DEF RunTask, TaskKey
  <2>2. /\ \A i \in DOMAIN c : i + 1 \in DOMAIN c => c[i] \in job[c[i + 1]]
        /\ Earlier(c, done)
    BY <1>0, <2>1 DEF EmitInv
  <2>. HIDE DEF c
  <2>3. Earlier(c, done')
    <3>. SUFFICES ASSUME NEW i \in DOMAIN c, NEW j \in DOMAIN c, i < j, c[j] \in done'
                  PROVE  c[i] \in done'
      BY DEF Earlier
    <3>1. CASE c[j] \in done
      BY <2>1, <2>2, <3>1 DEF Earlier
    <3>2. CASE c[j] = k
      <4>1. j - 1 \in DOMAIN c /\ (j - 1) + 1 = j /\ (i < j - 1 \/ i = j - 1)
        BY <1>1
      <4>2. c[j - 1] \in done
        BY <2>1, <2>2, <3>2, <4>1
      <4>. QED
        BY <2>1, <2>2, <4>1, <4>2 DEF Earlier
    <3>. QED
      BY <2>1, <3>1, <3>2
  <2>. QED
    BY <1>0, <1>1, <2>1, <2>2, <2>3 DEF EmitInv, c
<1>4. CASE UNCHANGED planVars
  <2>1. UNCHANGED <<flow, job, done, planned>>
    BY <1>4 DEF planVars
  <2>. QED
    BY <1>1, <2>1 DEF EmitInv, Earlier
<1>5. CASE ReadFlow \/ ReadLink \/ BuildJob
  BY <1>0, <1>5 DEF ReadFlow, ReadLink, Operand, Link, BuildJob, EmitInv
<1>. QED
  BY <1>2, <1>3, <1>4, <1>5 DEF PlanNext

\* The emitted DAG opens the batch before anything is ingested, ingests all before
\* a layer is built, and builds all before it closes the batch, in every order of
\* the notebooks and with any of them missing.
THEOREM EmittedInOrderAlways == PlanSpec => []EmittedInOrder
<1>1. PlanInit => EmitInv
  BY DEF PlanInit, NotPlanned, EmitInv
<1>2. IInv /\ EmitInv => EmittedInOrder
  <2>. SUFFICES ASSUME IInv, EmitInv, flow.from = "emit" PROVE EmittedInOrder
    BY DEF EmittedInOrder
  <2>1. CASE DOMAIN job = {}
    BY <2>1 DEF EmittedInOrder
  <2>2. CASE planned = "planned"
    <3>. DEFINE o == FirstOf("open")  l == FirstOf("close")  i == Ingested  b == Built
                a == Arrival  n == <<"notify">>  c == Chain
    <3>1. /\ a \in Seq(ChainTasks) /\ i \in Seq(ChainTasks) /\ b \in Seq(ChainTasks)
          /\ o \in Seq(ChainTasks) /\ l \in Seq(ChainTasks) /\ n \in Seq(ChainTasks)
      BY PiecesAre DEF IInv
    <3>2. c = ((((a \o o) \o i) \o b) \o l) \o n
      BY DEF Chain
    <3>3. Earlier(c, done)
      BY <2>2 DEF EmitInv
    <3>. HIDE DEF o, l, i, b, a, n, c
    <3>4. Earlier(((((a \o o) \o i) \o b) \o l) \o n, done)
      BY <3>2, <3>3
    <3>5. InTurn(o, i, b, l, done)
      BY <3>1, <3>4, ChainBefore, Zenon
    <3>. QED
      BY <3>5 DEF InTurn, EmittedInOrder, o, i, b, l
  <2>. QED
    BY <2>1, <2>2 DEF EmitInv
<1>. QED
  BY <1>1, <1>2, EmitInvKeeps, Inductive, PTL DEF PlanSpec
=============================================================================
