------------------------- MODULE Conversion_proofs -------------------------
(***************************************************************************)
(* Proofs about a migration from the catalogues to the answer, for any     *)
(* catalogue and scripts, however jobs are split, whichever artifacts are  *)
(* flagged and wherever the additions fail: the plan follows the lineage,  *)
(* the review queue holds all that the conversion flagged, and contracts   *)
(* are enforced on models of what they list.                               *)
(***************************************************************************)
EXTENDS Conversion, TLAPS

\* Job k writes a table of the name of ref, and is the node id.
Writes(k, id, ref) ==
  /\ id = <<"job", <<source.jobs[k].name>>>>
  /\ \E l \in ToSet(source.jobs[k].writes) : Base(l) = Base(ref)
Written(id, ref) == \E k \in DOMAIN source.jobs : Writes(k, id, ref)

\* What the references and the edges of writes say is what the jobs write.
WritesKnown ==
  /\ \A r \in todo : r.role = "write" => Written(r.of, r.ref)
  /\ \A e \in edges : e.role = "write" => Written(e.from, e.to[2])

\* The walk has all it has expanded, and nothing that does not feed the selection.
WalkInv ==
  stage \in {"walk", "planned"} =>
    /\ selected \subseteq included /\ frontier \subseteq included
    /\ Fed(included \ frontier) \subseteq included
    /\ \A D \in SUBSET Feeders : Fed(selected \cup D) \subseteq D => included \subseteq selected \cup D

PlanInv ==
  stage = "planned" =>
    /\ frontier = {}
    /\ {t.id : t \in plan.targets} = {id \in included : Physical(id)}
    /\ \A k \in DOMAIN source.jobs :
         InScope(source.jobs[k]) => k \in plan.ingestion \cup plan.transformation \cup plan.publish

LineageInv == WritesKnown /\ WalkInv /\ PlanInv

\* Nothing is made up: what a reference is resolved to has its last part.
LEMMA ResolvedAlike ==
  ASSUME NEW ns, NEW ref, NEW asTarget, NEW met \in Resolve(ns, ref, asTarget)
  PROVE  Base(met.id[2]) = Base(ref)
<1>1. \A n : Id(n)[2] = n.label
  BY DEF Id
<1>2. \A S : Foremost(S) \subseteq S
  BY DEF Foremost
<1>. DEFINE exact == {n \in ns : n.label = ref}
            alike == {n \in ns : Base(n.label) = Base(ref)}
            best == {n \in alike : \A m \in alike \ {n} : Score(ref, n.label) > Score(ref, m.label)}
            kind == IF asTarget THEN "tgt" ELSE "ext"
            type == IF asTarget /\ ~IsPath(ref) THEN "silver" ELSE "source"
<1>3. CASE exact \cup best # {}
  <2>. DEFINE pool == IF exact # {} THEN exact ELSE best
  <2>1. met \in {[ns |-> ns, id |-> Id(n)] : n \in Foremost(pool)}
    BY <1>3, Zenon DEF Resolve
  <2>2. \A n \in pool : n.label = ref \/ Base(n.label) = Base(ref)
    OBVIOUS
  <2>. HIDE DEF pool
  <2>3. PICK n \in Foremost(pool) : met.id = Id(n)
    BY <2>1
  <2>4. n.label = ref \/ Base(n.label) = Base(ref)
    BY <1>2, <2>2, <2>3
  <2>. QED
    BY <1>1, <2>3, <2>4
<1>4. CASE ~(exact \cup best # {})
  <2>1. met \in {[ns |-> AddNode(ns, kind, ref, type), id |-> <<kind, ref>>]}
    BY <1>4 DEF Resolve
  <2>. QED
    BY <2>1
<1>. QED
  BY <1>3, <1>4

LEMMA WrittenStays ==
  ASSUME UNCHANGED source, NEW id, NEW ref
  PROVE  Written(id, ref)' = Written(id, ref)
BY DEF Written, Writes

LEMMA ReadKeeps ==
  ASSUME LineageInv, ReadCatalog
  PROVE  LineageInv'
<1>1. UNCHANGED <<source, edges>> /\ todo' = References /\ stage' = "connect"
  BY DEF ReadCatalog
<1>2. ASSUME NEW r \in References, r.role = "write" PROVE Written(r.of, r.ref)
  <2>1. \A k \in DOMAIN source.ddl : r \notin OfView(k)
    <3>. SUFFICES ASSUME NEW k \in DOMAIN source.ddl, r \in OfView(k) PROVE FALSE
      OBVIOUS
    <3>1. r.role \in {"define", "view"}
      BY DEF OfView, Reference
    <3>. QED
      BY <1>2, <3>1
  <2>2. PICK k \in DOMAIN source.jobs : r \in OfJob(k)
    BY <1>2, <2>1 DEF References
  <2>. DEFINE j == source.jobs[k]
  <2>3. PICK i \in DOMAIN j.writes :
          r = Reference(<<2, k, Len(j.reads) + i>>, "write", <<"job", <<j.name>>>>, j.writes[i])
    BY <1>2, <2>2 DEF OfJob, Reference
  <2>4. r.of = <<"job", <<j.name>>>> /\ r.ref = j.writes[i] /\ j.writes[i] \in ToSet(j.writes)
    BY <2>3 DEF Reference, ToSet
  <2>. QED
    BY <2>2, <2>4 DEF Written, Writes
<1>. QED
  BY <1>1, <1>2, WrittenStays DEF LineageInv, WritesKnown, WalkInv, PlanInv

LEMMA DefineKeeps ==
  ASSUME LineageInv, Define
  PROVE  LineageInv'
<1>1. UNCHANGED <<source, edges, stage>> /\ stage = "connect" /\ todo' \subseteq todo
  BY DEF Define
<1>. QED
  BY <1>1, WrittenStays DEF LineageInv, WritesKnown, WalkInv, PlanInv

LEMMA ConnectKeeps ==
  ASSUME LineageInv, Connect
  PROVE  LineageInv'
<1>1. PICK r \in Foremost(todo) :
       LET there == IF r.role = "view" THEN nodes ELSE AddNode(nodes, "job", r.of[2], "job")
           edge(id) == IF r.role = "write" THEN [from |-> r.of, to |-> id, role |-> r.role]
                       ELSE [from |-> id, to |-> r.of, role |-> r.role]
       IN  /\ r.role # "define"
           /\ \E met \in Resolve(there, r.ref, r.role = "write") :
                /\ nodes' = met.ns
                /\ edges' = edges \cup (IF met.id = r.of THEN {} ELSE {edge(met.id)})
                /\ todo' = todo \ {r}
  BY DEF Connect
<1>. DEFINE there == IF r.role = "view" THEN nodes ELSE AddNode(nodes, "job", r.of[2], "job")
            edge(id) == IF r.role = "write" THEN [from |-> r.of, to |-> id, role |-> r.role]
                        ELSE [from |-> id, to |-> r.of, role |-> r.role]
<1>2. PICK met \in Resolve(there, r.ref, r.role = "write") :
         edges' \subseteq edges \cup {edge(met.id)} /\ todo' = todo \ {r}
  BY <1>1
<1>3. UNCHANGED <<source, stage>> /\ stage = "connect" /\ r \in todo
  BY DEF Connect, Foremost
<1>4. Base(met.id[2]) = Base(r.ref)
  <2>. HIDE DEF there
  <2>. QED
    BY ResolvedAlike
<1>5. ASSUME NEW e \in edges', e.role = "write" PROVE Written(e.from, e.to[2])
  <2>1. CASE e \in edges
    BY <1>5, <2>1 DEF LineageInv, WritesKnown
  <2>2. CASE e = edge(met.id)
    <3>1. r.role = "write" /\ e.from = r.of /\ e.to = met.id
      BY <1>5, <2>2
    <3>2. Written(r.of, r.ref)
      BY <1>3, <3>1 DEF LineageInv, WritesKnown
    <3>. QED
      BY <1>4, <3>1, <3>2 DEF Written, Writes
  <2>. QED
    BY <1>2, <2>1, <2>2
<1>6. ASSUME NEW q \in todo', q.role = "write" PROVE Written(q.of, q.ref)
  BY <1>2, <1>6 DEF LineageInv, WritesKnown
<1>7. WritesKnown'
  <2>1. \A id, ref : Written(id, ref)' = Written(id, ref)
    BY <1>3, WrittenStays
  <2>. QED
    BY <1>5, <1>6, <2>1 DEF WritesKnown
<1>8. WalkInv' /\ PlanInv'
  BY <1>3 DEF WalkInv, PlanInv
<1>. QED
  BY <1>7, <1>8 DEF LineageInv

LEMMA RelateKeeps ==
  ASSUME LineageInv, Relate
  PROVE  LineageInv'
<1>1. UNCHANGED <<source, todo>> /\ stage' = "built"
  BY DEF Relate
<1>2. ASSUME NEW e \in edges', e.role = "write", e \notin edges PROVE FALSE
  <2>. DEFINE glue == ToSet(source.glue)
              firstOf(label) == Id(CHOOSE n \in Foremost({m \in nodes : m.label = label}) : TRUE)
              labels == {n.label : n \in nodes}
              known == {k \in DOMAIN source.fks : source.fks[k][1] \in labels /\ source.fks[k][2] \in labels}
              near == {q \in glue \X Ids : q[2][1] = "sf" /\ Base(q[2][2]) = Base(q[1])}
              load(p) == [from |-> <<"glue", p[1]>>, to |-> p[2],
                          role |-> IF GlueLayer(p[1]) = "bronze" THEN "load" ELSE "copy"]
              join(k) == [from |-> firstOf(source.fks[k][1]), to |-> firstOf(source.fks[k][2]), role |-> "fk"]
  <2>1. edges' = edges \cup {load(p) : p \in near} \cup {d \in {join(k) : k \in known} : d.from # d.to}
    BY Zenon DEF Relate
  <2>2. \A p : load(p).role # "write"
    OBVIOUS
  <2>3. \A k : join(k).role # "write"
    OBVIOUS
  <2>. HIDE DEF load, join, near, known
  <2>. QED
    BY <1>2, <2>1, <2>2, <2>3
<1>. QED
  BY <1>1, <1>2, WrittenStays DEF LineageInv, WritesKnown, WalkInv, PlanInv

LEMMA SelectKeeps ==
  ASSUME LineageInv, NEW S, Select(S)
  PROVE  LineageInv'
<1>1. UNCHANGED <<source, edges, todo>> /\ stage' = "walk"
      /\ selected' = S /\ included' = S /\ frontier' = S
  BY DEF Select
<1>2. WalkInv'
  BY <1>1 DEF WalkInv, Fed
<1>. QED
  BY <1>1, <1>2, WrittenStays DEF LineageInv, WritesKnown, PlanInv

LEMMA WalkKeeps ==
  ASSUME LineageInv, Walk
  PROVE  LineageInv'
<1>1. PICK cur \in frontier : /\ included' = included \cup Fed({cur})
                              /\ frontier' = (frontier \ {cur}) \cup (Fed({cur}) \ included)
  BY DEF Walk, Expanded
<1>2. UNCHANGED <<source, edges, todo, selected, stage>> /\ stage = "walk"
  BY DEF Walk
<1>3. /\ selected \subseteq included /\ frontier \subseteq included
      /\ Fed(included \ frontier) \subseteq included
  BY <1>2 DEF LineageInv, WalkInv
<1>4. selected' \subseteq included' /\ frontier' \subseteq included'
  BY <1>1, <1>2, <1>3
<1>5. Fed(included' \ frontier') \subseteq included'
  <2>1. included' \ frontier' \subseteq (included \ frontier) \cup {cur}
    BY <1>1
  <2>2. Fed(included' \ frontier') \subseteq Fed(included \ frontier) \cup Fed({cur})
    BY <2>1 DEF Fed
  <2>. QED
    BY <1>1, <1>3, <2>2
<1>6. ASSUME NEW D \in SUBSET Feeders, Fed(selected \cup D) \subseteq D
      PROVE  included' \subseteq selected \cup D
  <2>1. included \subseteq selected \cup D
    BY <1>2, <1>6 DEF LineageInv, WalkInv
  <2>2. Fed({cur}) \subseteq Fed(selected \cup D)
    BY <1>3, <2>1 DEF Fed
  <2>. QED
    BY <1>1, <1>6, <2>1, <2>2
<1>7. WalkInv'
  <2>1. Feeders' = Feeders /\ \A S : Fed(S)' = Fed(S)
    BY <1>2 DEF Feeders, Fed
  <2>2. Fed(included \ frontier)' = Fed(included' \ frontier')
    BY <1>2 DEF Fed
  <2>. QED
    BY <1>2, <1>4, <1>5, <1>6, <2>1, <2>2 DEF WalkInv
<1>8. WritesKnown'
  BY <1>2, WrittenStays DEF LineageInv, WritesKnown
<1>. QED
  BY <1>2, <1>7, <1>8 DEF LineageInv, PlanInv

LEMMA KindIs == ASSUME NEW j PROVE Kind(j) \in {"ingestion", "transformation"}
BY DEF Kind

LEMMA PlanKeeps ==
  ASSUME LineageInv, BuildPlan
  PROVE  LineageInv'
<1>1. UNCHANGED <<source, nodes, edges, todo, selected, included, frontier>>
      /\ stage = "walk" /\ stage' = "planned" /\ frontier = {}
  BY DEF BuildPlan
<1>. DEFINE ours == {k \in DOMAIN source.jobs : ~source.jobs[k].publish /\ Wanted(source.jobs[k])}
<1>2. /\ plan'.targets = {Target(id) : id \in {i \in included : Physical(i)}}
      /\ plan'.publish = {k \in DOMAIN source.jobs : source.jobs[k].publish}
      /\ plan'.ingestion = {k \in ours : Kind(source.jobs[k]) = "ingestion"}
      /\ plan'.transformation = {k \in ours : Kind(source.jobs[k]) = "transformation"}
  BY DEF BuildPlan
<1>3. {t.id : t \in plan'.targets} = {id \in included : Physical(id)}
  <2>1. \A id : Target(id).id = id
    BY DEF Target
  <2>. QED
    BY <1>2, <2>1
<1>4. ASSUME NEW k \in DOMAIN source.jobs, InScope(source.jobs[k])
      PROVE  k \in plan'.ingestion \cup plan'.transformation \cup plan'.publish
  <2>1. Wanted(source.jobs[k])
    BY <1>4 DEF Wanted
  <2>. QED
    BY <1>2, <2>1, KindIs
<1>5. PlanInv'
  <2>1. \A j : InScope(j)' = InScope(j)
    BY <1>1 DEF InScope, ScopedBases
  <2>. QED
    BY <1>1, <1>3, <1>4, <2>1 DEF PlanInv
<1>6. WalkInv'
  BY <1>1 DEF LineageInv, WalkInv, Fed, Feeders
<1>. QED
  BY <1>1, <1>5, <1>6, WrittenStays DEF LineageInv, WritesKnown

LEMMA LineageInvKeeps == LineageInv /\ [LineageNext]_lineageVars => LineageInv'
<1>. SUFFICES ASSUME LineageInv, [LineageNext]_lineageVars PROVE LineageInv'
  OBVIOUS
<1>1. CASE UNCHANGED lineageVars
  <2>1. \A j : InScope(j)' = InScope(j)
    BY <1>1 DEF InScope, ScopedBases, lineageVars
  <2>2. PlanInv' = PlanInv
    BY <1>1, <2>1 DEF PlanInv, lineageVars
  <2>. QED
    BY <1>1, <2>2, WrittenStays DEF lineageVars, LineageInv, WritesKnown, WalkInv, Fed, Feeders
<1>. QED
  BY <1>1, ReadKeeps, DefineKeeps, ConnectKeeps, RelateKeeps, SelectKeeps, WalkKeeps, PlanKeeps DEF LineageNext

\* The walk is over: what it holds is all that feeds the selection.
LEMMA IncludedIsUpstream ==
  ASSUME LineageInv, stage = "planned"
  PROVE  included = Upstream
<1>1. /\ selected \subseteq included /\ Fed(included) \subseteq included
      /\ \A D \in SUBSET Feeders : Fed(selected \cup D) \subseteq D => included \subseteq selected \cup D
  <2>1. included \ frontier = included
    BY DEF LineageInv, PlanInv
  <2>. QED
    BY <2>1 DEF LineageInv, WalkInv
<1>2. Upstream \subseteq included
  <2>. DEFINE D == included \cap Feeders
  <2>1. Fed(selected \cup D) \subseteq D
    BY <1>1 DEF Fed, Feeders
  <2>2. \A f \in Upstream \ selected : f \in D
    <3>1. D \in SUBSET Feeders
      OBVIOUS
    <3>. HIDE DEF D
    <3>. QED
      BY <2>1, <3>1 DEF Upstream
  <2>. QED
    BY <1>1, <2>2
<1>3. included \subseteq Upstream
  <2>. SUFFICES ASSUME NEW id \in included, id \notin selected PROVE id \in Upstream
    BY DEF Upstream
  <2>1. \A D \in SUBSET Feeders : Fed(selected \cup D) \subseteq D => id \in D
    BY <1>1
  <2>2. id \in Feeders
    <3>1. Fed(selected \cup Feeders) \subseteq Feeders
      BY DEF Fed, Feeders
    <3>. QED
      BY <2>1, <3>1
  <2>. QED
    BY <2>1, <2>2 DEF Upstream
<1>. QED
  BY <1>2, <1>3

LEMMA PlanFollows == LineageInv => PlanFollowsLineage
<1>. SUFFICES ASSUME LineageInv, stage = "planned" PROVE PlanFollowsLineage
  BY DEF PlanFollowsLineage
<1>1. included = Upstream
  BY IncludedIsUpstream
<1>2. ASSUME NEW e \in edges, e.role = "write", e.to \in included
      PROVE  \E k \in plan.ingestion \cup plan.transformation \cup plan.publish :
               e.from = <<"job", <<source.jobs[k].name>>>>
  <2>1. PICK k \in DOMAIN source.jobs : Writes(k, e.from, e.to[2])
    BY <1>2 DEF LineageInv, WritesKnown, Written
  <2>2. InScope(source.jobs[k])
    BY <1>2, <2>1 DEF Writes, InScope, ScopedBases
  <2>. QED
    BY <2>1, <2>2 DEF LineageInv, PlanInv, Writes
<1>. QED
  BY <1>1, <1>2 DEF PlanFollowsLineage, LineageInv, PlanInv

\* The targets of the plan are exactly the tables that feed what was picked, over
\* any number of steps and through any cycle, and every job that writes into what
\* feeds it is planned, in whatever order the references are met and resolved.
THEOREM PlanFollowsLineageAlways == ConversionSpec => []PlanFollowsLineage
<1>1. LineageInit => LineageInv
  BY DEF LineageInit, NoLineage, LineageInv, WritesKnown, WalkInv, PlanInv
<1>2. [ConversionNext]_conversionVars => [LineageNext]_lineageVars
  BY DEF ConversionNext, conversionVars, ConvNext, BeginConversion, ListWork, Convert, Gate,
         ConversionFails, ExtensionFails, AnswerConversion
<1>. QED
  BY <1>1, <1>2, LineageInvKeeps, PlanFollows, PTL DEF ConversionSpec

LEMMA WalkGoesDown ==
  ASSUME LineageInv, Walk
  PROVE  /\ included \subseteq included' /\ included' \subseteq selected \cup Feeders
         /\ included' = included => frontier' \subseteq frontier /\ frontier' # frontier
<1>1. PICK cur \in frontier : /\ included' = included \cup Fed({cur})
                              /\ frontier' = (frontier \ {cur}) \cup (Fed({cur}) \ included)
  BY DEF Walk, Expanded
<1>2. included \subseteq selected \cup Feeders
  <2>1. Fed(selected \cup Feeders) \subseteq Feeders
    BY DEF Fed, Feeders
  <2>2. Feeders \in SUBSET Feeders /\ stage = "walk"
    BY DEF Walk
  <2>. HIDE DEF Feeders
  <2>. QED
    BY <2>1, <2>2 DEF LineageInv, WalkInv
<1>3. Fed({cur}) \subseteq Feeders
  BY DEF Fed, Feeders
<1>4. ASSUME included' = included PROVE frontier' \subseteq frontier /\ frontier' # frontier
  <2>1. frontier' = frontier \ {cur}
    BY <1>1, <1>4
  <2>. QED
    BY <2>1
<1>. QED
  BY <1>1, <1>2, <1>3, <1>4

\* The walk back ends on every graph, with cycles too: each expansion finds new
\* nodes, of which there are no more than feed anything, or leaves fewer to expand.
THEOREM WalkProgresses == ConversionSpec => WalkProgress
<1>1. LineageInit => LineageInv
  BY DEF LineageInit, NoLineage, LineageInv, WritesKnown, WalkInv, PlanInv
<1>2. [ConversionNext]_conversionVars => [LineageNext]_lineageVars
  BY DEF ConversionNext, conversionVars, ConvNext, BeginConversion, ListWork, Convert, Gate,
         ConversionFails, ExtensionFails, AnswerConversion
<1>3. LineageInv /\ [LineageNext]_lineageVars =>
        [Walk => /\ included \subseteq included' /\ included' \subseteq selected \cup Feeders
                 /\ included' = included => frontier' \subseteq frontier /\ frontier' # frontier]_lineageVars
  BY WalkGoesDown
<1>. QED
  BY <1>1, <1>2, <1>3, LineageInvKeeps, PTL DEF ConversionSpec, WalkProgress
-----------------------------------------------------------------------------
\* What is added after the gate.
Additions == {Landing, Framework, StoredQueries, Rejects}
\* A late unit flags nothing but what is made of stored queries and rules, makes no
\* model of anything else, and brings no contract.
Late(u) ==
  /\ \A makes \in u.choices : \A k \in DOMAIN makes \ u.clean : makes[k][1] \in {"query", "rules"}
  /\ \A makes \in u.choices : \A k \in DOMAIN makes : k[1] = "model" => makes[k][1] \in {"query", "rules"}
  /\ u.brings = NoContract

\* What is flagged and not in the queue was made of a stored query or of rules.
Queued == \A k \in Flagged : k \in review \/ artifacts[k].of[1] \in {"query", "rules"}

GateInv ==
  /\ conv = "extend" => \A u \in work : Late(u)
  /\ conv \in {"extend", "answered"} => Queued

LEMMA UnitHas ==
  ASSUME NEW place, NEW choices, NEW clean, NEW brings
  PROVE  /\ Unit(place, choices, clean, brings).place = place
         /\ Unit(place, choices, clean, brings).choices = choices
         /\ Unit(place, choices, clean, brings).clean = clean
         /\ Unit(place, choices, clean, brings).brings = brings
BY DEF Unit

LEMMA MadeIs ==
  ASSUME NEW keys, NEW of
  PROVE  DOMAIN Made(keys, of) = keys /\ \A k \in keys : Made(keys, of)[k] = of
BY DEF Made

LEMMA UnflaggedHas ==
  ASSUME NEW place, NEW keys, NEW of
  PROVE  /\ Unflagged(place, keys, of).place = place
         /\ Unflagged(place, keys, of).choices = {Made(keys, of)}
         /\ Unflagged(place, keys, of).clean = keys
         /\ Unflagged(place, keys, of).brings = NoContract
BY UnitHas DEF Unflagged

LEMMA AdditionsAreLate == \A u \in Additions : Late(u)
<1>1. Late(Landing)
  BY UnflaggedHas, MadeIs DEF Late, Landing
<1>2. Late(Framework)
  BY UnflaggedHas, MadeIs DEF Late, Framework, ControlSchema
<1>3. Late(StoredQueries)
  <2>1. StoredQueries.brings = NoContract
    BY UnitHas DEF StoredQueries
  <2>2. ASSUME NEW makes \in StoredQueries.choices, NEW k \in DOMAIN makes PROVE makes[k][1] = "query"
    BY <2>2 DEF StoredQueries, Unit
  <2>. QED
    BY <2>1, <2>2 DEF Late
<1>4. Late(Rejects)
  <2>. DEFINE models == {<<"model", <<t, "rejects">>>> : t \in config.rules}
              noted == models \cup {<<"note", <<"rules">>>>}
  <2>1. /\ Rejects.choices = {Made(keys, <<"rules">>) : keys \in {models, noted}}
        /\ Rejects.brings = NoContract
    BY UnitHas DEF Rejects
  <2>. HIDE DEF models
  <2>2. ASSUME NEW makes \in Rejects.choices
        PROVE  \A k \in DOMAIN makes : makes[k][1] = "rules"
    <3>1. PICK keys \in {models, noted} : makes = Made(keys, <<"rules">>)
      BY <2>1
    <3>. QED
      BY <3>1, MadeIs
  <2>. QED
    BY <2>1, <2>2 DEF Late
<1>. QED
  BY <1>1, <1>2, <1>3, <1>4 DEF Additions

LEMMA LateUnitsAreLate == \A u \in LateUnits : Late(u)
BY AdditionsAreLate DEF LateUnits, Additions

\* What a conversion step makes replaces what had its name.
LEMMA Converted ==
  ASSUME NEW u, NEW makes \in u.choices, NEW flagged \in SUBSET (DOMAIN makes \ u.clean),
         artifacts' = [k \in DOMAIN makes \cup DOMAIN artifacts |->
                         IF k \in DOMAIN makes THEN [of |-> makes[k], flagged |-> k \in flagged]
                         ELSE artifacts[k]]
  PROVE  /\ DOMAIN artifacts' = DOMAIN makes \cup DOMAIN artifacts
         /\ \A k \in DOMAIN makes : /\ artifacts'[k].of = makes[k]
                                    /\ artifacts'[k].flagged = (k \in flagged)
         /\ \A k \in DOMAIN artifacts \ DOMAIN makes : artifacts'[k] = artifacts[k]
<1>1. \A k \in DOMAIN makes : artifacts'[k] = [of |-> makes[k], flagged |-> k \in flagged]
  OBVIOUS
<1>. QED
  BY <1>1

LEMMA ConvertKeepsGate == ASSUME GateInv, Convert PROVE GateInv'
<1>0. conv' = conv /\ conv \in {"convert", "extend"} /\ review' = review
  BY DEF Convert
<1>. SUFFICES ASSUME conv = "extend" PROVE GateInv'
  BY <1>0 DEF GateInv
<1>1. PICK u \in work : /\ work' = work \ {u}
       /\ \E makes \in u.choices : \E flagged \in SUBSET (DOMAIN makes \ u.clean) :
            artifacts' = [k \in DOMAIN makes \cup DOMAIN artifacts |->
                            IF k \in DOMAIN makes THEN [of |-> makes[k], flagged |-> k \in flagged]
                            ELSE artifacts[k]]
  BY DEF Convert, Foremost
<1>2. PICK makes \in u.choices : \E flagged \in SUBSET (DOMAIN makes \ u.clean) :
        artifacts' = [k \in DOMAIN makes \cup DOMAIN artifacts |->
                        IF k \in DOMAIN makes THEN [of |-> makes[k], flagged |-> k \in flagged]
                        ELSE artifacts[k]]
  BY <1>1
<1>3. PICK flagged \in SUBSET (DOMAIN makes \ u.clean) :
        artifacts' = [k \in DOMAIN makes \cup DOMAIN artifacts |->
                        IF k \in DOMAIN makes THEN [of |-> makes[k], flagged |-> k \in flagged]
                        ELSE artifacts[k]]
  BY <1>2
<1>4. Late(u)
  BY <1>1 DEF GateInv
<1>5. ASSUME NEW k \in Flagged' PROVE k \in review \/ artifacts'[k].of[1] \in {"query", "rules"}
  <2>1. k \in DOMAIN artifacts' /\ artifacts'[k].flagged
    BY <1>5 DEF Flagged
  <2>2. CASE k \in DOMAIN makes
    <3>1. k \in flagged /\ artifacts'[k].of = makes[k]
      BY <1>3, <2>1, <2>2, Converted
    <3>. QED
      BY <1>4, <3>1 DEF Late
  <2>3. CASE k \notin DOMAIN makes
    <3>1. k \in DOMAIN artifacts /\ artifacts'[k] = artifacts[k]
      BY <1>3, <2>1, <2>3
    <3>2. k \in Flagged
      BY <2>1, <3>1 DEF Flagged
    <3>. QED
      BY <3>1, <3>2 DEF GateInv, Queued
  <2>. QED
    BY <2>2, <2>3
<1>. QED
  BY <1>0, <1>1, <1>5 DEF GateInv, Queued

LEMMA NextGateInv == GateInv /\ [ConversionNext]_conversionVars => GateInv'
<1>. SUFFICES ASSUME GateInv, [ConversionNext]_conversionVars PROVE GateInv'
  OBVIOUS
<1>1. ASSUME UNCHANGED convVars PROVE GateInv'
  BY <1>1 DEF convVars, GateInv, Queued, Flagged
<1>2. CASE BeginConversion
  BY <1>2 DEF BeginConversion, GateInv
<1>3. CASE ListWork
  BY <1>3 DEF ListWork, GateInv
<1>4. CASE Convert
  BY <1>4, ConvertKeepsGate
<1>5. CASE Gate
  <2>1. \A u \in work' : Late(u)
    BY <1>5, LateUnitsAreLate DEF Gate
  <2>2. Queued'
    BY <1>5 DEF Gate, Queued, Scan, Flagged
  <2>. QED
    BY <1>5, <2>1, <2>2 DEF Gate, GateInv
<1>6. CASE ConversionFails
  BY <1>6 DEF ConversionFails, GateInv
<1>7. CASE ExtensionFails
  <2>1. \A u \in work' : Late(u)
    BY <1>7 DEF ExtensionFails, GateInv
  <2>2. Queued'
    BY <1>7 DEF ExtensionFails, GateInv, Queued, Flagged
  <2>. QED
    BY <1>7, <2>1, <2>2 DEF ExtensionFails, GateInv
<1>8. CASE AnswerConversion
  BY <1>8 DEF AnswerConversion, GateInv, Queued, Flagged
<1>. QED
  BY <1>1, <1>2, <1>3, <1>4, <1>5, <1>6, <1>7, <1>8 DEF ConversionNext, ConvNext, conversionVars

\* The queue, and the ship gate with it, covers all that run_conversion flagged;
\* past an open gate only models of stored queries and of rules ship with a marker.
THEOREM GateCoversConversionAlways == ConversionSpec => []GateCoversConversion
<1>1. ConvInit => GateInv
  BY DEF ConvInit, GateInv
<1>2. GateInv => GateCoversConversion
  BY DEF GateInv, Queued, GateCoversConversion, FromConversion
<1>. QED
  BY <1>1, <1>2, NextGateInv, PTL DEF ConversionSpec
-----------------------------------------------------------------------------
\* What may be the model m of a table or view.
MayBe(m, of) ==
  \/ of[1] \in {"query", "rules"}
  \/ of[1] \in {"view", "table"} /\ ModelOf(of) = m

\* From the views on, a unit makes the models of views and tables, and only such a
\* unit brings a contract, with the model it is for.
InPart(u) ==
  /\ u.place[1] \in 1..6
  /\ u.place[1] >= Part.view =>
       \A makes \in u.choices : \A k \in DOMAIN makes : k[1] = "model" => MayBe(k[2], makes[k])
  /\ DOMAIN u.brings # {} => u.place[1] >= Part.view
  /\ \A m \in DOMAIN u.brings :
       /\ ModelOf(u.brings[m]) = m
       /\ \A makes \in u.choices : <<"model", m>> \in DOMAIN makes

\* Every contract has its model.
Listed ==
  \A m \in DOMAIN contracts :
    /\ ModelOf(contracts[m]) = m
    /\ <<"model", m>> \in DOMAIN artifacts /\ MayBe(m, artifacts[<<"model", m>>].of)

\* What is enforced was looked up under one of the two names of the model.
LookedUp ==
  \A m \in DOMAIN enforced : \E k \in DOMAIN contracts : enforced[m] = contracts[k] /\ m \in {k, Staging(k)}

ContractInv ==
  /\ conv \in {"idle", "gathered"} => DOMAIN contracts = {}
  /\ conv = "convert" =>
       /\ \A u \in work : InPart(u)
       /\ DOMAIN contracts # {} => \A u \in work : u.place[1] >= Part.view
  /\ conv = "extend" => \A u \in work : Late(u)
  /\ conv \in {"convert", "extend", "answered"} => Listed
  /\ conv \in {"extend", "answered"} => LookedUp

LEMMA NoneBrought == DOMAIN NoContract = {}
BY DEF NoContract

\* A unit of a part before the views brings no contract.
LEMMA EarlyInPart ==
  ASSUME NEW u, u.place[1] \in 1..4, u.brings = NoContract
  PROVE  InPart(u)
BY NoneBrought DEF InPart, Part

LEMMA ContractIs ==
  ASSUME NEW of
  PROVE  /\ DOMAIN Contract(of) \subseteq {ModelOf(of)}
         /\ \A m \in DOMAIN Contract(of) : Contract(of)[m] = of
BY DEF Contract

\* A unit of a view or table: it makes the model the contract it brings is for.
LEMMA ObjectInPart ==
  ASSUME NEW u, NEW keys, NEW of,
         u.place[1] \in 5..6, u.choices = {Made(keys, of)}, of[1] \in {"view", "table"},
         \A k \in keys : k[1] = "model" => k[2] = ModelOf(of),
         \/ u.brings = NoContract
         \/ u.brings = Contract(of) /\ <<"model", ModelOf(of)>> \in keys
  PROVE  InPart(u)
<1>1. \A makes \in u.choices : DOMAIN makes = keys /\ \A k \in keys : makes[k] = of
  BY MadeIs
<1>2. \A makes \in u.choices : \A k \in DOMAIN makes : k[1] = "model" => MayBe(k[2], makes[k])
  BY <1>1 DEF MayBe
<1>3. ASSUME NEW m \in DOMAIN u.brings
      PROVE  ModelOf(u.brings[m]) = m /\ \A makes \in u.choices : <<"model", m>> \in DOMAIN makes
  <2>1. u.brings = Contract(of) /\ <<"model", ModelOf(of)>> \in keys
    BY <1>3, NoneBrought
  <2>2. m = ModelOf(of) /\ u.brings[m] = of
    BY <1>3, <2>1, ContractIs
  <2>. QED
    BY <1>1, <2>1, <2>2
<1>. QED
  BY <1>2, <1>3 DEF InPart, Part

LEMMA ViewInPart == \A n : InPart(ViewUnit(n))
<1>. TAKE n
<1>. DEFINE of == <<"view", n.label>>
            u == ViewUnit(n)
            keys == ModelsNamed({ModelOf(of)})
<1>1. u.place = <<5, n.place[1], n.place[2]>> /\ u.choices = {Made(keys, of)} /\ u.brings = Contract(of)
  <2>1. u = Unit(<<Part.view, n.place[1], n.place[2]>>, {Made(keys, of)}, {}, Contract(of))
    BY Zenon DEF ViewUnit
  <2>2. Part.view = 5
    BY DEF Part
  <2>. HIDE DEF u, keys, of
  <2>. QED
    BY <2>1, <2>2, UnitHas
<1>2. keys = {<<"model", ModelOf(of)>>}
  BY DEF ModelsNamed
<1>3. of[1] = "view" /\ u.place[1] \in 5..6
  BY <1>1
<1>. HIDE DEF u, keys, of
<1>4. \A k \in keys : k[1] = "model" => k[2] = ModelOf(of)
  BY <1>2
<1>5. InPart(u)
  BY <1>1, <1>2, <1>3, <1>4, ObjectInPart
<1>. QED
  BY <1>5 DEF u

LEMMA TableInPart == \A n : InPart(TableUnit(n))
<1>. TAKE n
<1>. DEFINE base == Last(n.label)
            of == <<"table", n.label>>
            u == TableUnit(n)
            staged == IF base \in plan.bronze THEN {ModelOf(of)} ELSE {}
            keys == {<<"ddl", <<base>>>>} \cup ModelsNamed(staged)
<1>1. /\ u.place = <<6, n.place[1], n.place[2]>> /\ u.choices = {Made(keys, of)}
      /\ u.brings = IF staged = {} THEN NoContract ELSE Contract(of)
  <2>1. u = Unit(<<Part.table, n.place[1], n.place[2]>>, {Made(keys, of)}, keys,
                 IF staged = {} THEN NoContract ELSE Contract(of))
    BY Zenon DEF TableUnit
  <2>2. Part.table = 6
    BY DEF Part
  <2>. HIDE DEF u, keys, of, base, staged
  <2>. QED
    BY <2>1, <2>2, UnitHas
<1>2. of[1] = "table" /\ u.place[1] \in 5..6
  BY <1>1
<1>3. staged = {} \/ staged = {ModelOf(of)}
  OBVIOUS
<1>. HIDE DEF u, of, staged
<1>4. \A k \in keys : k[1] = "model" => k[2] = ModelOf(of)
  BY <1>3 DEF ModelsNamed
<1>5. staged # {} => <<"model", ModelOf(of)>> \in keys
  BY <1>3 DEF ModelsNamed
<1>. HIDE DEF keys
<1>6. InPart(u)
  BY <1>1, <1>2, <1>4, <1>5, ObjectInPart
<1>. QED
  BY <1>6 DEF u

LEMMA UnitsInPart == \A u \in Units : InPart(u)
<1>1. \A k : InPart(IngestionUnit(k))
  <2>. TAKE k
  <2>1. IngestionUnit(k).place = <<1, k, 0>> /\ IngestionUnit(k).brings = NoContract
    BY UnitHas DEF IngestionUnit, Part
  <2>. QED
    BY <2>1, EarlyInPart
<1>2. \A k : InPart(TransformUnit(k))
  <2>. TAKE k
  <2>1. TransformUnit(k).place = <<2, k, 0>> /\ TransformUnit(k).brings = NoContract
    BY UnitHas DEF TransformUnit, Part
  <2>. QED
    BY <2>1, EarlyInPart
<1>3. InPart(ControlNotes)
  <2>1. ControlNotes.place = <<3, 0, 0>> /\ ControlNotes.brings = NoContract
    BY UnflaggedHas DEF ControlNotes, Part
  <2>. QED
    BY <2>1, EarlyInPart
<1>4. \A k : InPart(PublishUnit(k))
  <2>. TAKE k
  <2>1. PublishUnit(k).place = <<4, k, 0>> /\ PublishUnit(k).brings = NoContract
    BY UnitHas DEF PublishUnit, Part
  <2>. QED
    BY <2>1, EarlyInPart
<1>. QED
  BY <1>1, <1>2, <1>3, <1>4, ViewInPart, TableInPart DEF Units

LEMMA ConvertKeepsContracts == ASSUME ContractInv, Convert PROVE ContractInv'
<1>1. conv' = conv /\ conv \in {"convert", "extend"}
  BY DEF Convert
<1>2. PICK u \in Foremost(work) :
       /\ \E makes \in u.choices : \E flagged \in SUBSET (DOMAIN makes \ u.clean) :
            artifacts' = [k \in DOMAIN makes \cup DOMAIN artifacts |->
                            IF k \in DOMAIN makes THEN [of |-> makes[k], flagged |-> k \in flagged]
                            ELSE artifacts[k]]
       /\ contracts' = [m \in DOMAIN u.brings \cup DOMAIN contracts |->
                          IF m \in DOMAIN u.brings THEN u.brings[m] ELSE contracts[m]]
       /\ work' = work \ {u}
  BY DEF Convert
<1>3. PICK makes \in u.choices : \E flagged \in SUBSET (DOMAIN makes \ u.clean) :
        artifacts' = [k \in DOMAIN makes \cup DOMAIN artifacts |->
                        IF k \in DOMAIN makes THEN [of |-> makes[k], flagged |-> k \in flagged]
                        ELSE artifacts[k]]
  BY <1>2
<1>4. PICK flagged \in SUBSET (DOMAIN makes \ u.clean) :
        artifacts' = [k \in DOMAIN makes \cup DOMAIN artifacts |->
                        IF k \in DOMAIN makes THEN [of |-> makes[k], flagged |-> k \in flagged]
                        ELSE artifacts[k]]
  BY <1>3
<1>5. /\ DOMAIN artifacts' = DOMAIN makes \cup DOMAIN artifacts
      /\ \A k \in DOMAIN makes : artifacts'[k].of = makes[k]
      /\ \A k \in DOMAIN artifacts \ DOMAIN makes : artifacts'[k] = artifacts[k]
  BY <1>4, Converted
<1>6. /\ DOMAIN contracts' = DOMAIN u.brings \cup DOMAIN contracts
      /\ \A m \in DOMAIN u.brings : contracts'[m] = u.brings[m]
      /\ \A m \in DOMAIN contracts \ DOMAIN u.brings : contracts'[m] = contracts[m]
  BY <1>2
<1>7. u \in work /\ \A v \in work \ {u} : Sooner(u.place, v.place)
  BY <1>2 DEF Foremost
<1>8. Listed
  BY <1>1 DEF ContractInv
<1>9. CASE conv = "convert"
  <2>1. /\ \A v \in work : InPart(v)
        /\ DOMAIN contracts # {} => \A v \in work : v.place[1] >= Part.view
    BY <1>9 DEF ContractInv
  <2>2. ASSUME DOMAIN contracts' # {} PROVE \A v \in work : v.place[1] >= Part.view
    <3>1. CASE DOMAIN contracts # {}
      BY <2>1, <3>1
    <3>2. CASE DOMAIN u.brings # {}
      <4>1. u.place[1] >= Part.view
        BY <1>7, <2>1, <3>2 DEF InPart
      <4>2. ASSUME NEW v \in work \ {u} PROVE v.place[1] >= Part.view
        <5>1. u.place[1] \in 1..6 /\ v.place[1] \in 1..6
          BY <1>7, <2>1 DEF InPart
        <5>2. u.place[1] < v.place[1] \/ u.place[1] = v.place[1]
          BY <1>7 DEF Sooner
        <5>. QED
          BY <4>1, <5>1, <5>2 DEF Part
      <4>. QED
        BY <4>1, <4>2
    <3>. QED
      BY <1>6, <2>2, <3>1, <3>2
  <2>3. ASSUME NEW m \in DOMAIN contracts'
        PROVE  /\ ModelOf(contracts'[m]) = m
               /\ <<"model", m>> \in DOMAIN artifacts' /\ MayBe(m, artifacts'[<<"model", m>>].of)
    <3>. DEFINE key == <<"model", m>>
    <3>1. ModelOf(contracts'[m]) = m
      BY <1>6, <1>7, <1>8, <2>1 DEF InPart, Listed
    <3>2. key \in DOMAIN makes \/ (m \in DOMAIN contracts /\ key \in DOMAIN artifacts)
      BY <1>6, <1>7, <1>8, <2>1 DEF InPart, Listed
    <3>3. CASE key \in DOMAIN makes
      <4>1. u.place[1] >= Part.view
        BY <1>7, <2>2
      <4>2. MayBe(key[2], makes[key])
        BY <1>7, <2>1, <3>3, <4>1 DEF InPart
      <4>. QED
        BY <1>5, <3>1, <3>3, <4>2
    <3>4. CASE key \notin DOMAIN makes
      BY <1>5, <1>8, <3>1, <3>2, <3>4 DEF Listed
    <3>. QED
      BY <3>3, <3>4
  <2>4. Listed'
    BY <2>3 DEF Listed
  <2>. QED
    BY <1>1, <1>2, <1>9, <2>1, <2>2, <2>4 DEF ContractInv
<1>10. CASE conv = "extend"
  <2>1. Late(u)
    BY <1>7, <1>10 DEF ContractInv
  <2>2. DOMAIN contracts' = DOMAIN contracts /\ \A m \in DOMAIN contracts : contracts'[m] = contracts[m]
    BY <1>6, <2>1, NoneBrought DEF Late
  <2>3. ASSUME NEW m \in DOMAIN contracts
        PROVE  <<"model", m>> \in DOMAIN artifacts' /\ MayBe(m, artifacts'[<<"model", m>>].of)
    <3>. DEFINE key == <<"model", m>>
    <3>1. key \in DOMAIN artifacts /\ MayBe(m, artifacts[key].of)
      BY <1>8 DEF Listed
    <3>2. CASE key \in DOMAIN makes
      <4>1. makes[key][1] \in {"query", "rules"}
        BY <2>1, <3>2 DEF Late
      <4>. QED
        BY <1>5, <3>2, <4>1 DEF MayBe
    <3>3. CASE key \notin DOMAIN makes
      BY <1>5, <3>1, <3>3
    <3>. QED
      BY <3>2, <3>3
  <2>4. Listed'
    BY <1>8, <2>2, <2>3 DEF Listed
  <2>5. \A v \in work' : Late(v)
    BY <1>2, <1>10 DEF ContractInv
  <2>6. LookedUp'
    <3>1. UNCHANGED enforced
      BY DEF Convert
    <3>. QED
      BY <1>10, <2>2, <3>1 DEF ContractInv, LookedUp
  <2>. QED
    BY <1>1, <1>10, <2>4, <2>5, <2>6 DEF ContractInv
<1>. QED
  BY <1>1, <1>9, <1>10

LEMMA NextContractInv == ContractInv /\ [ConversionNext]_conversionVars => ContractInv'
<1>. SUFFICES ASSUME ContractInv, [ConversionNext]_conversionVars PROVE ContractInv'
  OBVIOUS
<1>1. ASSUME UNCHANGED convVars PROVE ContractInv'
  BY <1>1 DEF convVars, ContractInv, Listed, LookedUp
<1>2. CASE BeginConversion
  BY <1>2 DEF BeginConversion, ContractInv
<1>3. CASE ListWork
  <2>1. DOMAIN contracts' = {} /\ conv' = "convert" /\ \A u \in work' : InPart(u)
    BY <1>3, UnitsInPart DEF ListWork, ContractInv
  <2>. QED
    BY <2>1 DEF ContractInv, Listed
<1>4. CASE Convert
  BY <1>4, ConvertKeepsContracts
<1>5. CASE Gate
  <2>1. \A u \in work' : Late(u)
    BY <1>5, LateUnitsAreLate DEF Gate
  <2>2. LookedUp'
    <3>. DEFINE typed == {m \in ModelsMade : Enforceable(m) # {}}
    <3>1. PICK key \in [typed -> DOMAIN contracts] :
            /\ \A m \in typed : key[m] \in Enforceable(m)
            /\ enforced' = [m \in typed |-> contracts[key[m]]]
      BY <1>5 DEF Gate
    <3>2. UNCHANGED contracts
      BY <1>5 DEF Gate
    <3>. HIDE DEF typed
    <3>3. ASSUME NEW m \in typed
          PROVE  \E k \in DOMAIN contracts : enforced'[m] = contracts[k] /\ m \in {k, Staging(k)}
      BY <3>1 DEF Enforceable
    <3>. QED
      BY <3>1, <3>2, <3>3 DEF LookedUp
  <2>. QED
    BY <1>5, <2>1, <2>2 DEF Gate, ContractInv, Listed
<1>6. CASE ConversionFails
  BY <1>6 DEF ConversionFails, ContractInv
<1>7. CASE ExtensionFails
  <2>1. \A u \in work' : Late(u)
    BY <1>7 DEF ExtensionFails, ContractInv
  <2>. QED
    BY <1>7, <2>1 DEF ExtensionFails, ContractInv, Listed, LookedUp
<1>8. CASE AnswerConversion
  BY <1>8 DEF AnswerConversion, ContractInv, Listed, LookedUp
<1>. QED
  BY <1>1, <1>2, <1>3, <1>4, <1>5, <1>6, <1>7, <1>8 DEF ConversionNext, ConvNext, conversionVars

LEMMA ContractsFit == ContractInv => ContractFitsModel
<1>. SUFFICES ASSUME ContractInv, conv = "answered" PROVE ContractFitsModel
  BY DEF ContractFitsModel
<1>1. Listed /\ LookedUp
  BY DEF ContractInv
<1>2. ASSUME NEW m \in DOMAIN contracts PROVE Fits(m, contracts[m])
  BY <1>1 DEF Listed, MayBe, Fits
<1>3. ASSUME NEW m \in DOMAIN enforced PROVE Fits(m, enforced[m]) \/ m = Staging(ModelOf(enforced[m]))
  <2>1. PICK k \in DOMAIN contracts : enforced[m] = contracts[k] /\ m \in {k, Staging(k)}
    BY <1>1 DEF LookedUp
  <2>. QED
    BY <1>1, <1>2, <2>1 DEF Listed
<1>. QED
  BY <1>2, <1>3 DEF ContractFitsModel

\* However jobs are split and whatever names they share with tables and views, the
\* columns a contract lists are those of what its model is made of or of a view or
\* table with the same model: the jobs are merged before the first contract, and
\* what comes after the views has models of views and tables only.  A contract is
\* enforced elsewhere only on the stg_ model of the name.
THEOREM ContractFitsModelAlways == ConversionSpec => []ContractFitsModel
<1>1. ConvInit => ContractInv
  BY DEF ConvInit, ContractInv
<1>. QED
  BY <1>1, ContractsFit, NextContractInv, PTL DEF ConversionSpec
=============================================================================
