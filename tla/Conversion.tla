---------------------------- MODULE Conversion ----------------------------
(***************************************************************************)
(* From the plan to what is shipped.  run_conversion turns the jobs, views *)
(* and tables of the plan into notebooks, models, DDL and notes, queues    *)
(* for review what its converters flagged and answers the ship gate; the   *)
(* route then adds what a Postgres source and its control database ask     *)
(* for.  Artifacts are held by kind and name, so a later one of the same   *)
(* name replaces an earlier one.                                           *)
(*                                                                         *)
(* Each unit of work is one step.  Jobs are converted side by side but     *)
(* merged in the order of the plan, so that order is what shows.  An       *)
(* artifact is what it was made of and whether its text holds a marker     *)
(* the review queue is built from: a failed AI call leaves one.             *)
(***************************************************************************)
EXTENDS Lineage

CONSTANTS
  ModelName,      \* the model name of a table or job; stg_v is <<"stg", "v">>
  Procedural,     \* jobs whose script is not relational: ported as notebooks
  ScriptOutputs,  \* the tables that can be read off the script of each job
  WithAi,         \* whether a provider is bound
  Configs         \* what may be asked for beyond the plan

VARIABLES
  columns,        \* the tables and views whose columns were fetched
  config,         \* what scripts and source databases ask for beyond the plan
  work,           \* the units still to convert
  artifacts,      \* <<kind, name>> -> what it is made of, and flagged or not
  contracts,      \* model -> the view or table whose columns are its contract
  enforced,       \* model -> the contract schema.yml enforces on it
  review,         \* the review queue of the answer
  conv            \* where the conversion is

convVars == <<columns, config, work, artifacts, contracts, enforced, review, conv>>
conversionVars == <<lineageVars, convVars>>

NoConfig == [driven |-> FALSE, postgres |-> FALSE, framework |-> FALSE, queries |-> <<>>, rules |-> {}]

ConvInit ==
  /\ columns = {} /\ config = NoConfig /\ work = {} /\ artifacts = <<>> /\ contracts = <<>>
  /\ enforced = <<>> /\ review = {} /\ conv = "idle"

\* Mutant: jobs are merged after the views and tables they may share a name with.
PartJobsLast ==
  [ingestion |-> 1, transformation |-> 7, control |-> 3, publish |-> 4, view |-> 5, table |-> 6]
\* The order in which the parts of a plan are merged.
Part == [ingestion |-> 1, transformation |-> 2, control |-> 3, publish |-> 4, view |-> 5, table |-> 6]

\* A unit: its place, what it may make, what of it cannot be flagged, and the
\* contracts it brings.
Unit(place, choices, clean, brings) ==
  [place |-> place, choices |-> choices, clean |-> clean, brings |-> brings]
NoContract == [m \in {} |-> m]
Made(keys, of) == [k \in keys |-> of]
Named(names) == {ModelName[n] : n \in names}
Staging(model) == <<"stg">> \o model
ModelsNamed(names) == {<<"model", n>> : n \in names}

\* A job is split by the catalogue tables of the layer its paths write, or read
\* from the layer below.
OutputLayer(job) ==
  LET layers(refs) == {Layer(Word(l)) : l \in {r \in ToSet(refs) : IsPath(r)}}
  IN  IF "gold" \in layers(job.writes) THEN "gold"
      ELSE IF "silver" \in layers(job.writes) THEN "silver"
      ELSE IF "silver" \in layers(job.reads) THEN "gold"
      ELSE IF "bronze" \in layers(job.reads) THEN "silver" ELSE "none"
CatalogOutputs(job) ==
  {Last(n.label) : n \in {m \in nodes : m.kind = "glue" /\ GlueLayer(m.label) = OutputLayer(job)}}

\* One model for each of at least two tables: of the catalogue, else of those the
\* script shows once the provider has listed any; or one of the whole job.
ModelsOf(job) ==
  LET whole == Named({job.name})
      split(tables) == IF Cardinality(tables) >= 2 THEN tables ELSE whole
      listed == CatalogOutputs(job)
  IN  IF ~WithAi THEN {whole}
      ELSE IF Cardinality(listed) >= 2 THEN {Named(listed)}
      ELSE {whole} \cup {split(Named(ScriptOutputs[job.name]))}

IngestionUnit(k) ==
  LET j == source.jobs[k]
  IN  Unit(<<Part.ingestion, k, 0>>, {Made({<<"notebook", <<j.name>>>>}, <<"job", j.name>>)}, {}, NoContract)
TransformUnit(k) ==
  LET j == source.jobs[k]
      place == <<Part.transformation, k, 0>>
      note == <<"note", <<j.name, "transform">>>>
  IN  IF j.name \in Procedural
      THEN Unit(place, {Made({<<"notebook", <<j.name, "transform">>>>, note}, <<"job", j.name>>)},
                {note}, NoContract)
      ELSE Unit(place, {Made(ModelsNamed(names), <<"job", j.name>>) : names \in ModelsOf(j)},
                {}, NoContract)
Unflagged(place, keys, of) == Unit(place, {Made(keys, of)}, keys, NoContract)
\* Scripts that read a control table get notes to set it up in the destination.
ControlNotes == Unflagged(<<Part.control, 0, 0>>, {<<"note", <<"control">>>>}, <<"scripts">>)
PublishUnit(k) ==
  LET j == source.jobs[k]
  IN  Unit(<<Part.publish, k, 0>>, {Made({<<"note", <<j.name>>>>}, <<"job", j.name>>)}, {}, NoContract)

ScopedNodes(type) ==
  {n \in nodes : n.kind = "sf" /\ Id(n) \in included /\ (n.type = "gold") = (type = "view")}
\* The model that is made of a view or table.
ModelOf(of) ==
  LET model == ModelName[Last(of[2])] IN IF of[1] = "view" THEN model ELSE Staging(model)
Contract(of) == [m \in (IF of[2] \in columns THEN {ModelOf(of)} ELSE {}) |-> of]

ViewUnit(n) ==
  LET of == <<"view", n.label>>
  IN  Unit(<<Part.view, n.place[1], n.place[2]>>, {Made(ModelsNamed({ModelOf(of)}), of)}, {}, Contract(of))
\* A table has a staging model only if it is landed in bronze.
TableUnit(n) ==
  LET base == Last(n.label)
      of == <<"table", n.label>>
      staged == IF base \in plan.bronze THEN {ModelOf(of)} ELSE {}
      keys == {<<"ddl", <<base>>>>} \cup ModelsNamed(staged)
  IN  Unit(<<Part.table, n.place[1], n.place[2]>>, {Made(keys, of)}, keys,
           IF staged = {} THEN NoContract ELSE Contract(of))

Units ==
  {IngestionUnit(k) : k \in plan.ingestion} \cup {TransformUnit(k) : k \in plan.transformation}
  \cup (IF config.driven THEN {ControlNotes} ELSE {})
  \cup {PublishUnit(k) : k \in plan.publish}
  \cup {ViewUnit(n) : n \in ScopedNodes("view")} \cup {TableUnit(n) : n \in ScopedNodes("table")}

\* The route gathers columns and asks the source databases; any of it may fail.
BeginConversion ==
  /\ stage = "planned" /\ conv = "idle"
  /\ columns' \in SUBSET {n.label : n \in nodes}
  /\ config' \in Configs /\ conv' = "gathered"
  /\ UNCHANGED <<lineageVars, work, artifacts, contracts, enforced, review>>

ListWork ==
  /\ conv = "gathered"
  /\ work' = Units /\ conv' = "convert"
  /\ UNCHANGED <<lineageVars, columns, config, artifacts, contracts, enforced, review>>

Convert ==
  /\ conv \in {"convert", "extend"}
  /\ \E u \in Foremost(work) :
       /\ \E makes \in u.choices : \E flagged \in SUBSET (DOMAIN makes \ u.clean) :
            artifacts' = [k \in DOMAIN makes \cup DOMAIN artifacts |->
                            IF k \in DOMAIN makes THEN [of |-> makes[k], flagged |-> k \in flagged]
                            ELSE artifacts[k]]
       /\ contracts' = [m \in DOMAIN u.brings \cup DOMAIN contracts |->
                          IF m \in DOMAIN u.brings THEN u.brings[m] ELSE contracts[m]]
       /\ work' = work \ {u}
  /\ UNCHANGED <<lineageVars, columns, config, enforced, review, conv>>

Flagged == {k \in DOMAIN artifacts : artifacts[k].flagged}
\* Mutant: the notes are not scanned.
ScanWithoutNotes == {k \in Flagged : k[1] # "note"}
Scan == Flagged

\* Beyond the plan: a notebook that lands the Postgres tables, the control schema
\* with the notebooks of its framework, a model for each stored query (the last of
\* a name wins), and one of rejects for each table with rules, beside a note of the
\* rules that cannot be one.  Both quote the rules as they are, markers and all.
Landing == Unflagged(<<1, 0, 0>>, {<<"notebook", <<"postgres">>>>}, <<"landing">>)
ControlSchema == {<<"ddl", <<"control">>>>}
Framework == Unflagged(<<2, 0, 0>>, ControlSchema \cup {<<"notebook", <<"framework">>>>}, <<"framework">>)
StoredQueries ==
  LET q == config.queries
      last(m) == CHOOSE i \in DOMAIN q :
                   ModelName[q[i]] = m /\ \A j \in (i + 1)..Len(q) : ModelName[q[j]] # m
  IN  Unit(<<3, 0, 0>>, {[k \in ModelsNamed(Named(ToSet(q))) |-> <<"query", last(k[2])>>]},
           {}, NoContract)
Rejects ==
  LET models == {<<"model", <<t, "rejects">>>> : t \in config.rules}
      noted == models \cup {<<"note", <<"rules">>>>}
  IN  Unit(<<4, 0, 0>>, {Made(keys, <<"rules">>) : keys \in {models, noted}}, {}, NoContract)

LateUnits ==
  (IF config.postgres THEN {Landing} ELSE {})
  \cup (IF config.framework THEN {Framework, StoredQueries, Rejects} ELSE {})

\* The contracts schema.yml may enforce on a model: its own or, on stg_v, that of v.
Enforceable(model) == {m \in DOMAIN contracts : model \in {m, Staging(m)}}
ModelsMade == {k[2] : k \in {a \in DOMAIN artifacts : a[1] = "model"}}

\* The end of run_conversion: schema.yml and the review queue, and with it the ship
\* gate, are final.  Of two contracts a set of their names decides.
Gate ==
  /\ conv = "convert" /\ work = {}
  /\ LET typed == {m \in ModelsMade : Enforceable(m) # {}}
     IN  \E key \in [typed -> DOMAIN contracts] :
           /\ \A m \in typed : key[m] \in Enforceable(m)
           /\ enforced' = [m \in typed |-> contracts[key[m]]]
  /\ review' = Scan
  /\ work' = LateUnits /\ conv' = "extend"
  /\ UNCHANGED <<lineageVars, columns, config, artifacts, contracts>>

\* The conversion cannot be made: nothing of it is answered.
ConversionFails ==
  /\ conv = "convert"
  /\ conv' = "failed" /\ artifacts' = <<>> /\ contracts' = <<>> /\ work' = {}
  /\ UNCHANGED <<lineageVars, columns, config, enforced, review>>

\* An addition fails: that of Postgres alone is skipped, one of the control
\* database ends them.  What was added stays.
ExtensionFails ==
  /\ conv = "extend" /\ work # {}
  /\ work' = IF Landing \in work THEN work \ {Landing} ELSE {}
  /\ UNCHANGED <<lineageVars, columns, config, artifacts, contracts, enforced, review, conv>>

AnswerConversion ==
  /\ conv = "extend" /\ work = {}
  /\ conv' = "answered"
  /\ UNCHANGED <<lineageVars, columns, config, work, artifacts, contracts, enforced, review>>

\* What is exported: the dbt project, and the bundle around it.
Project == {k \in DOMAIN artifacts : k[1] = "model"}
Exported == Project \cup {k \in DOMAIN artifacts : k[1] \in {"ddl", "notebook"}}

ConvNext ==
  \/ BeginConversion \/ ListWork \/ Convert \/ Gate
  \/ ConversionFails \/ ExtensionFails \/ AnswerConversion

ConversionNext ==
  \/ LineageNext /\ UNCHANGED convVars
  \/ ConvNext
ConversionSpec == LineageInit /\ ConvInit /\ [][ConversionNext]_conversionVars
-----------------------------------------------------------------------------
FromConversion(k) == artifacts[k].of[1] \in {"job", "view", "table"}

\* Nothing run_conversion flagged and still holds is missing from the review
\* queue, so its gate opens only on artifacts without a marker; what ships with a
\* marker past an open gate was made of a stored query or of the rules, after the
\* queue (scan_untranslatable and gate of run_conversion, and what convert adds).
GateCoversConversion ==
  /\ conv \in {"extend", "answered"} =>
       \A k \in Flagged : FromConversion(k) => k \in review
  /\ conv = "answered" /\ review = {} =>
       \A k \in Flagged \cap Exported : artifacts[k].of[1] \in {"query", "rules"}

\* The model is there, made of a view or table of the name that the listed one has:
\* no job stands in its place.  What a control database asks for may: it comes
\* after the contracts.
Fits(model, listed) ==
  /\ <<"model", model>> \in DOMAIN artifacts
  /\ LET of == artifacts[<<"model", model>>].of
     IN  \/ of[1] \in {"query", "rules"}
         \/ of[1] \in {"view", "table"} /\ ModelOf(of) = ModelOf(listed)

\* The columns a contract lists, which test_specs checks on the warehouse and
\* schema.yml enforces, are those of what the model is made of or of its namesake,
\* whatever jobs share its name; but on a stg_v schema.yml may enforce the contract
\* of the view v (columns_by_model, _model_alias_keys).
ContractFitsModel ==
  conv = "answered" =>
    /\ \A m \in DOMAIN contracts : Fits(m, contracts[m])
    /\ \A m \in DOMAIN enforced :
         Fits(m, enforced[m]) \/ m = Staging(ModelOf(enforced[m]))
=============================================================================
