----------------------------- MODULE ModelOrder -----------------------------
(***************************************************************************)
(* The build order of the generated dbt models: _topo_sort of              *)
(* backend/integrations/dbt_build.py on the dependencies compile_models    *)
(* reads off the ref() tags. One step per loop iteration.                  *)
(***************************************************************************)
EXTENDS Naturals, Sequences, FiniteSets, Measures

CONSTANT Input   \* the model names, in the order of the request's dictionary

Models == {Input[i] : i \in DOMAIN Input}

\* The route rejects an empty request, and the keys of a dictionary differ.
ASSUME InputAssumption ==
  /\ Input \in Seq(Models)
  /\ Input # <<>>
  /\ \A i, k \in DOMAIN Input : Input[i] = Input[k] => i = k

VARIABLES
  refs,      \* per model, the models its SQL names in ref() tags
  loop,      \* which loop runs: "seed", "drain", "relax"; "sorted" at the end
  at,        \* position of the inner loop in Input
  indeg,     \* dependencies of a model that are not drained yet
  queue,     \* models whose turn has come
  node,      \* the model being drained
  ordered,   \* the models drained so far
  order,     \* the result, once sorted
  hasCycle   \* the flag returned with it

orderVars == <<refs, loop, at, indeg, queue, node, ordered, order, hasCycle>>

\* depends_on: a ref to the model itself does not count.
Edges(n) == refs[n] \ {n}

Elements(s) == {s[i] : i \in DOMAIN s}

OrderTypeOK ==
  /\ refs \in [Models -> SUBSET Models]
  /\ loop \in {"seed", "drain", "relax", "sorted"}
  /\ at \in Nat
  /\ indeg \in [Models -> Nat]
  /\ queue \in Seq(Models) /\ ordered \in Seq(Models) /\ order \in Seq(Models)
  /\ node \in Models
  /\ hasCycle \in BOOLEAN

\* indeg counts each dependency once: edges[name] is a set.
OrderInit ==
  /\ refs \in [Models -> SUBSET Models]
  /\ loop = "seed" /\ at = 1
  /\ indeg = [n \in Models |-> Cardinality(Edges(n))]
  /\ queue = <<>> /\ ordered = <<>> /\ order = <<>>
  /\ node = Input[1]
  /\ hasCycle = FALSE

Advance(next) ==
  IF at = Len(Input) THEN loop' = next /\ at' = 1 ELSE at' = at + 1 /\ UNCHANGED loop

\* queue = [n for n in names if indeg[n] == 0]
Seed ==
  /\ loop = "seed"
  /\ queue' = IF indeg[Input[at]] = 0 THEN Append(queue, Input[at]) ELSE queue
  /\ Advance("drain")
  /\ UNCHANGED <<refs, indeg, node, ordered, order, hasCycle>>

Pop ==
  /\ loop = "drain"
  /\ queue # <<>>
  /\ node' = Head(queue)
  /\ queue' = Tail(queue)
  /\ ordered' = Append(ordered, Head(queue))
  /\ loop' = "relax" /\ at' = 1
  /\ UNCHANGED <<refs, indeg, order, hasCycle>>

\* Mutant of Relax: a dependent is queued as soon as one dependency is drained.
Relax_AnyDrained ==
  /\ loop = "relax"
  /\ LET n == Input[at] IN
       IF node \in Edges(n)
       THEN /\ indeg' = [indeg EXCEPT ![n] = @ - 1]
            /\ queue' = IF n \in Elements(queue) \cup Elements(ordered)
                        THEN queue ELSE Append(queue, n)
       ELSE UNCHANGED <<indeg, queue>>
  /\ Advance("drain")
  /\ UNCHANGED <<refs, node, ordered, order, hasCycle>>

\* Mutant of Relax: the counter is only compared, never reaches zero by one.
Relax_OffByOne ==
  /\ loop = "relax"
  /\ LET n == Input[at] IN
       IF node \in Edges(n)
       THEN /\ indeg' = [indeg EXCEPT ![n] = @ - 1]
            /\ queue' = IF indeg[n] = 0 THEN Append(queue, n) ELSE queue
       ELSE UNCHANGED <<indeg, queue>>
  /\ Advance("drain")
  /\ UNCHANGED <<refs, node, ordered, order, hasCycle>>

\* for dep in dependents[node]: the dependents, in input order.
Relax ==
  /\ loop = "relax"
  /\ LET n == Input[at] IN
       IF node \in Edges(n)
       THEN /\ indeg' = [indeg EXCEPT ![n] = @ - 1]
            /\ queue' = IF indeg'[n] = 0 THEN Append(queue, n) ELSE queue
       ELSE UNCHANGED <<indeg, queue>>
  /\ Advance("drain")
  /\ UNCHANGED <<refs, node, ordered, order, hasCycle>>

\* Mutant of Finish: a sort that got stuck returns what it has.
Finish_Partial ==
  /\ loop = "drain"
  /\ queue = <<>>
  /\ hasCycle' = (Len(ordered) # Len(Input))
  /\ order' = ordered
  /\ loop' = "sorted"
  /\ UNCHANGED <<refs, at, indeg, queue, node, ordered>>

\* Mutant of Finish: the loop runs until every model is drained.
Finish_WaitsForAll ==
  /\ loop = "drain"
  /\ Len(ordered) = Len(Input)
  /\ hasCycle' = FALSE
  /\ order' = ordered
  /\ loop' = "sorted"
  /\ UNCHANGED <<refs, at, indeg, queue, node, ordered>>

\* Not every model drained: the whole sort falls back to the input order.
Finish ==
  /\ loop = "drain"
  /\ queue = <<>>
  /\ hasCycle' = (Len(ordered) # Len(Input))
  /\ order' = IF hasCycle' THEN Input ELSE ordered
  /\ loop' = "sorted"
  /\ UNCHANGED <<refs, at, indeg, queue, node, ordered>>

OrderNext == Seed \/ Pop \/ Relax \/ Finish

OrderSpec == OrderInit /\ [][OrderNext]_orderVars /\ WF_orderVars(OrderNext)

-----------------------------------------------------------------------------
(* Properties. *)

\* A set of models in which each depends on another of them. There is one
\* exactly when the ref() graph has a cycle that is longer than a self-reference.
Entangled(S) == S # {} /\ \A n \in S : Edges(n) \cap S # {}

Before(s, d, i) == \E k \in 1..(i - 1) : s[k] = d

\* The order a build runs in puts every model after all the models it reads,
\* whenever the sort does not flag a cycle.
DependenciesFirst ==
  loop = "sorted" /\ ~hasCycle =>
    \A i \in DOMAIN order : \A d \in Edges(order[i]) : Before(order, d, i)

\* The flag is exact: it is raised for the graphs that have no such order, and
\* only for these.
CycleIsExact ==
  loop = "sorted" => (hasCycle <=> \E S \in SUBSET Models : Entangled(S))

\* Cycle or not, every model is built, and none twice.
NothingLost ==
  loop = "sorted" =>
    /\ Elements(order) = Models
    /\ \A i, k \in DOMAIN order : order[i] = order[k] => i = k

\* The loops end for every graph.
SortEnds == <>(loop = "sorted")

\* Why they end: every iteration lowers what is left of the loops, the models to
\* drain and the positions to go through, with or without a cycle.
SortLeft ==
  <<[seed |-> 2, drain |-> 1, relax |-> 1, sorted |-> 0][loop],
    Len(Input) - Len(ordered),
    IF loop \in {"seed", "relax"} THEN Len(Input) + 1 - at ELSE 0>>
SortProgress ==
  /\ [](SortLeft \in [1..3 -> Nat])
  /\ [][Below(SortLeft', SortLeft)]_orderVars
=============================================================================
