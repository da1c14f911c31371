------------------------------ MODULE Lineage ------------------------------
(***************************************************************************)
(* From catalogue and scripts to a migration plan: build_lineage merges    *)
(* the tables of both systems, the views and the jobs into one graph,      *)
(* upstream_subgraph walks back from the tables picked, and                *)
(* build_migration_plan sorts the tables in scope and the jobs that make   *)
(* them.  What a script reads and writes is the data of its job, as        *)
(* parse_pyspark_io answers it.                                            *)
(*                                                                         *)
(* A label is the sequence of its parts between dots.  A path is a folder  *)
(* <<"s3://", word>> where word names its layer, or a file in it, with its *)
(* name and extension.  References are resolved in the order the code      *)
(* meets them, one a step: each may add the node a later one finds.  What  *)
(* the code goes through in order is a set of records with their places.   *)
(***************************************************************************)
EXTENDS Integers, FiniteSets, SequencesExt

CONSTANT Sources  \* what the catalogues and scripts may say

VARIABLES
  source,          \* what they say
  nodes, edges,    \* the graph
  todo,            \* references not yet resolved
  stage,
  selected,        \* the nodes the user picks
  included, frontier,
  plan

lineageVars == <<source, nodes, edges, todo, stage, selected, included, frontier, plan>>

\* Jobs are the numbers they have in the source.
NoPlan == [targets |-> {}, ingestion |-> {}, transformation |-> {}, publish |-> {}, bronze |-> {}]

NoLineage ==
  /\ nodes = {} /\ edges = {} /\ todo = {} /\ stage = "read"
  /\ selected = {} /\ included = {} /\ frontier = {} /\ plan = NoPlan
LineageInit == source \in Sources /\ NoLineage
-----------------------------------------------------------------------------
\* A place is the part of the input, the element of it and what of that; the one
\* that is before all others is dealt with first.
Sooner(a, b) ==
  \/ a[1] < b[1]
  \/ a[1] = b[1] /\ (a[2] < b[2] \/ (a[2] = b[2] /\ a[3] < b[3]))
Foremost(S) == {x \in S : \A y \in S \ {x} : Sooner(x.place, y.place)}

IsPath(label) == Head(label) = "s3://"
IsFile(label) == IsPath(label) /\ Len(label) = 4
Word(path) == path[2]
\* The only dot of a path is the one before its extension.
Parts(label) ==
  IF IsFile(label) THEN {Front(label), <<Last(label)>>}
  ELSE IF IsPath(label) THEN {label} ELSE {<<p>> : p \in ToSet(label)}
\* The part after the last dot, by which tables of two systems are taken for the
\* same, and so are two files of one extension.
Base(label) == IF IsPath(label) /\ ~IsFile(label) THEN label ELSE <<Last(label)>>

\* The layer a word names, the serving words first.
Layer(word) ==
  CASE word \in {"gold", "publish", "serving", "mart", "semantic"} -> "gold"
    [] word \in {"silver", "curated", "conformed", "refined", "processed"} -> "silver"
    [] word \in {"bronze", "landing", "raw", "staging"} -> "bronze"
    [] OTHER -> "none"
GlueLayer(label) == IF Layer(Head(label)) = "none" THEN "bronze" ELSE Layer(Head(label))
Curated == {"silver", "gold", "mart", "curated", "refined", "serving", "conformed", "publish"}
GoldNames == {"dim_a", "fact_a", "mart_a"}

Id(n) == <<n.kind, n.label>>
IdsOf(ns) == {Id(n) : n \in ns}
Ids == IdsOf(nodes)
Node(id) == CHOOSE n \in nodes : Id(n) = id
Physical(id) == id[1] \in {"sf", "glue"}

NodeAt(kind, label, type, place) == [kind |-> kind, label |-> label, type |-> type, place |-> place]
AddNode(ns, kind, label, type) ==
  IF <<kind, label>> \in IdsOf(ns) THEN ns
  ELSE ns \cup {NodeAt(kind, label, type, <<4, Cardinality(ns), 0>>)}

\* A list of a catalogue; what it lists again is there already.
Catalogued(part, kind, labels, type) ==
  {NodeAt(kind, labels[k], type[k], <<part, k, 0>>) :
     k \in {i \in DOMAIN labels : \A j \in 1..(i - 1) : labels[j] # labels[i]}}

Score(a, b) == Cardinality(Parts(a) \cap Parts(b))

\* The full name, else the one table of that last part, or of several the one
\* that shares most parts with the reference; else a new node.
Resolve(ns, ref, asTarget) ==
  LET exact == {n \in ns : n.label = ref}
      alike == {n \in ns : Base(n.label) = Base(ref)}
      best == {n \in alike : \A m \in alike \ {n} : Score(ref, n.label) > Score(ref, m.label)}
      kind == IF asTarget THEN "tgt" ELSE "ext"
      type == IF asTarget /\ ~IsPath(ref) THEN "silver" ELSE "source"
  IN  IF exact \cup best # {}
      THEN {[ns |-> ns, id |-> Id(n)] : n \in Foremost(IF exact # {} THEN exact ELSE best)}
      ELSE {[ns |-> AddNode(ns, kind, ref, type), id |-> <<kind, ref>>]}

\* The references in the order they are resolved: each view's DDL, which first
\* names the view, then each job's reads and writes.  A job that names nothing is
\* left out.
Reference(place, role, of, ref) == [place |-> place, role |-> role, of |-> of, ref |-> ref]
OfView(k) ==
  LET v == source.ddl[k]
      view == <<"sf", v.label>>
  IN  {Reference(<<1, k, 0>>, "define", view, v.label)}
      \cup {Reference(<<1, k, i>>, "view", view, v.deps[i]) : i \in DOMAIN v.deps}
OfJob(k) ==
  LET j == source.jobs[k]
      job == <<"job", <<j.name>>>>
  IN  {Reference(<<2, k, i>>, "read", job, j.reads[i]) : i \in DOMAIN j.reads}
      \cup {Reference(<<2, k, Len(j.reads) + i>>, "write", job, j.writes[i]) : i \in DOMAIN j.writes}
References ==
  (UNION {OfView(k) : k \in DOMAIN source.ddl}) \cup (UNION {OfJob(k) : k \in DOMAIN source.jobs})

ReadCatalog ==
  /\ stage = "read"
  /\ nodes' = LET each(list, type) == [k \in DOMAIN list |-> type]
                  t == Catalogued(1, "sf", source.tables, each(source.tables, "silver"))
                  v == Catalogued(2, "sf", source.views, each(source.views, "gold"))
              IN  t \cup {n \in v : Id(n) \notin IdsOf(t)}
                  \cup Catalogued(3, "glue", source.glue,
                                 [k \in DOMAIN source.glue |-> GlueLayer(source.glue[k])])
  /\ todo' = References /\ stage' = "connect"
  /\ UNCHANGED <<source, edges, selected, included, frontier, plan>>

\* A view the catalogue does not list is a node from its DDL on: what is resolved
\* before does not find it.
Define ==
  /\ stage = "connect"
  /\ \E r \in Foremost(todo) :
       /\ r.role = "define"
       /\ nodes' = AddNode(nodes, r.of[1], r.ref, "gold") /\ todo' = todo \ {r}
  /\ UNCHANGED <<source, edges, stage, selected, included, frontier, plan>>

\* A node feeds the view or job that reads it, and a job what it writes.
Connect ==
  /\ stage = "connect"
  /\ \E r \in Foremost(todo) :
       LET there == IF r.role = "view" THEN nodes ELSE AddNode(nodes, "job", r.of[2], "job")
           edge(id) == IF r.role = "write" THEN [from |-> r.of, to |-> id, role |-> r.role]
                       ELSE [from |-> id, to |-> r.of, role |-> r.role]
       IN  /\ r.role # "define"
           /\ \E met \in Resolve(there, r.ref, r.role = "write") :
                /\ nodes' = met.ns
                /\ edges' = edges \cup (IF met.id = r.of THEN {} ELSE {edge(met.id)})
                /\ todo' = todo \ {r}
  /\ UNCHANGED <<source, stage, selected, included, frontier, plan>>

\* A catalogue table feeds, or is a copy of, a warehouse table of its name;
\* declared foreign keys join tables that exist.
Relate ==
  /\ stage = "connect" /\ todo = {}
  /\ LET glue == ToSet(source.glue)
         firstOf(label) == Id(CHOOSE n \in Foremost({m \in nodes : m.label = label}) : TRUE)
         labels == {n.label : n \in nodes}
         known == {k \in DOMAIN source.fks : source.fks[k][1] \in labels /\ source.fks[k][2] \in labels}
     IN  edges' = edges
           \cup {[from |-> <<"glue", p[1]>>, to |-> p[2], role |-> IF GlueLayer(p[1]) = "bronze" THEN "load" ELSE "copy"]
                  : p \in {q \in glue \X Ids : q[2][1] = "sf" /\ Base(q[2][2]) = Base(q[1])}}
           \cup {e \in {[from |-> firstOf(source.fks[k][1]), to |-> firstOf(source.fks[k][2]), role |-> "fk"]
                         : k \in known} : e.from # e.to}
  /\ stage' = "built"
  /\ UNCHANGED <<source, nodes, todo, selected, included, frontier, plan>>

\* Any of the nodes, or none; what is no node is ignored.
Select(S) ==
  /\ stage = "built"
  /\ selected' = S /\ included' = S /\ frontier' = S /\ stage' = "walk"
  /\ UNCHANGED <<source, nodes, edges, todo, plan>>

\* One node of the frontier is expanded.
Fed(S) == {e.from : e \in {d \in edges : d.to \in S}}
\* Mutant: what is found is included, but only tables are followed.
ExpandedTables(cur) ==
  [included |-> included \cup Fed({cur}),
   frontier |-> (frontier \ {cur}) \cup {id \in Fed({cur}) \ included : Physical(id)}]
Expanded(cur) == [included |-> included \cup Fed({cur}), frontier |-> (frontier \ {cur}) \cup (Fed({cur}) \ included)]

Walk ==
  /\ stage = "walk"
  /\ \E cur \in frontier :
       /\ included' = Expanded(cur).included /\ frontier' = Expanded(cur).frontier
  /\ UNCHANGED <<source, nodes, edges, todo, stage, selected, plan>>
-----------------------------------------------------------------------------
Known == {n.label : n \in {m \in nodes : Physical(Id(m))}}
ScopedBases == {Base(id[2]) : id \in included}

\* Ingestion lands what comes from outside; a job over the curated layers, or
\* mostly over known tables, transforms.
Kind(job) ==
  LET paths == {l \in ToSet(job.reads) \cup ToSet(job.writes) : IsPath(l)}
      readBronze == \E l \in ToSet(job.reads) : IsPath(l) /\ Word(l) = "bronze"
      known == {k \in DOMAIN job.reads : ~IsPath(job.reads[k]) /\ job.reads[k] \in Known}
      outside == DOMAIN job.reads \ known
  IN  IF (\E l \in paths : Word(l) \in Curated) \/ readBronze THEN "transformation"
      ELSE IF job.external /\ known = {} THEN "ingestion"
      ELSE IF job.reads = <<>> THEN "ingestion"
      ELSE IF known # {} /\ outside = {} THEN "transformation"
      ELSE IF Cardinality(outside) >= Cardinality(known) THEN "ingestion" ELSE "transformation"

TableWrites(job) == {l \in ToSet(job.writes) : ~IsPath(l)}
InScope(job) == \E l \in ToSet(job.writes) : Base(l) \in ScopedBases

\* Jobs that land data are foundational, and so are those that name no table.
Wanted(job) ==
  \/ InScope(job) \/ TableWrites(job) = {}
  \/ Kind(job) = "ingestion" /\ job.external

NodeLayer(id) ==
  LET n == Node(id)
  IN  IF n.kind = "sf" /\ n.type # "gold" /\ Last(n.label) \in GoldNames THEN "gold" ELSE n.type
Target(id) == [id |-> id, layer |-> NodeLayer(id), base |-> Last(id[2])]

BuildPlan ==
  /\ stage = "walk" /\ frontier = {}
  /\ LET jobs == source.jobs
         ours == {k \in DOMAIN jobs : ~jobs[k].publish /\ Wanted(jobs[k])}
         ingestion == {k \in ours : Kind(jobs[k]) = "ingestion"}
     IN  plan' = [targets |-> {Target(id) : id \in {i \in included : Physical(i)}},
                  publish |-> {k \in DOMAIN jobs : jobs[k].publish},
                  ingestion |-> ingestion,
                  transformation |-> {k \in ours : Kind(jobs[k]) = "transformation"},
                  bronze |-> {Last(l) : l \in UNION {TableWrites(jobs[k]) : k \in ingestion}}
                             \cup {Last(g) : g \in {l \in ToSet(source.glue) : GlueLayer(l) = "silver"}}]
  /\ stage' = "planned"
  /\ UNCHANGED <<source, nodes, edges, todo, selected, included, frontier>>

LineageNext ==
  \/ ReadCatalog \/ Define \/ Connect \/ Relate \/ Walk \/ BuildPlan
  \/ \E S \in SUBSET Ids : Select(S)

LineageSpec == LineageInit /\ [][LineageNext]_lineageVars
-----------------------------------------------------------------------------
\* All that feeds the selection, over any number of steps: the smallest set that
\* holds what feeds the selection and what feeds the set.
Feeders == {e.from : e \in edges}
Upstream ==
  selected \cup {f \in Feeders : \A D \in SUBSET Feeders : Fed(selected \cup D) \subseteq D => f \in D}

\* Why the walk back ends, on graphs with cycles too: expanding a node finds new
\* ones among those that feed anything, or leaves fewer to expand.
WalkProgress ==
  [][Walk =>
       /\ included \subseteq included' /\ included' \subseteq selected \cup Feeders
       /\ included' = included => frontier' \subseteq frontier /\ frontier' # frontier]_lineageVars

\* The plan has as targets exactly the tables that feed what was picked, and
\* every job that writes into what feeds it (build_migration_plan).
PlanFollowsLineage ==
  stage = "planned" => LET feeding == Upstream IN
    /\ {t.id : t \in plan.targets} = {id \in feeding : Physical(id)}
    /\ \A e \in edges : e.role = "write" /\ e.to \in feeding =>
         \E k \in plan.ingestion \cup plan.transformation \cup plan.publish :
           e.from = <<"job", <<source.jobs[k].name>>>>
=============================================================================
