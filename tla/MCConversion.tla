---------------------------- MODULE MCConversion ----------------------------
(* What a migration computes, on small instances: its scope and artifacts,    *)
(* the order of its workflow, and the comparison of what it built.  They      *)
(* share no state, so one of them moves in each behaviour.                     *)
EXTENDS Conversion, WorkflowPlan, Reconcile

VARIABLE part
MCvars == <<part, conversionVars, planVars, recVars>>

(* Lineage and conversion: one job of any reads and writes, files of one        *)
(* extension among them, beside one that makes a dimension, with a view known   *)
(* only from a DDL that comes after one that reads it; a plan of jobs of every   *)
(* kind; and models that share their names, with and without stg_.             *)
Glue(n, r, w, x, p) == [name |-> n, reads |-> r, writes |-> w, external |-> x, publish |-> p]
T(a) == <<"db", "sales", a>>
Path(w) == <<"s3://", w>>
Csv(w, n) == <<"s3://", w, n, "csv">>
Refs == {<<"a">>, <<"b">>, <<"late">>, <<"silver", "new">>, Path("silver"), Path("landing"), Csv("landing", "x")}
Some == {<<>>} \cup {<<r>> : r \in Refs}
Graph == [tables |-> <<T("a"), T("dim_a")>>, views |-> <<T("v")>>,
          ddl |-> <<[label |-> T("v"), deps |-> <<T("a"), <<"b">>, T("late")>>],
                    [label |-> <<"db", "ops", "late">>, deps |-> <<>>]>>,
          glue |-> <<<<"raw_x", "b">>, <<"silver", "a">>>>, fks |-> <<<<T("dim_a"), T("a")>>>>, jobs |-> <<>>]
MCGraphs ==
  {[Graph EXCEPT !.jobs = <<Glue("j1", r, w, x, FALSE),
                            Glue("j2", <<<<"silver", "new">>, Csv("raw", "y")>>, <<T("dim_a")>>, FALSE, FALSE)>>]
    : r \in Some \cup {<<T("a"), Path("landing")>>}, w \in Some, x \in BOOLEAN}

Shop == [tables |-> <<T("a")>>, views |-> <<T("v")>>, ddl |-> <<[label |-> T("v"), deps |-> <<T("a")>>]>>,
         fks |-> <<>>,
         glue |-> <<<<"raw_x", "b">>, <<"silver", "a">>, <<"gold", "v">>, <<"gold", "w">>>>,
         jobs |-> <<Glue("in", <<Path("landing")>>, <<<<"a">>>>, TRUE, FALSE),
                    Glue("t1", <<Path("silver")>>, <<Path("gold")>>, FALSE, FALSE),
                    Glue("t2", <<Path("bronze")>>, <<>>, FALSE, FALSE),
                    Glue("p", <<>>, <<>>, FALSE, TRUE)>>]
\* A view stg_a beside the table a, and a job that makes a model stg_v beside the view v.
Namesakes == [Shop EXCEPT !.views = <<T("v"), T("stg_a")>>, !.glue = <<<<"raw_x", "b">>, <<"silver", "a">>>>,
                          !.ddl[1].deps = <<T("a"), T("stg_a")>>,
                          !.jobs = <<Glue("t2", <<Path("bronze")>>, <<>>, FALSE, FALSE)>>]
MCShops == {Shop, [Shop EXCEPT !.jobs[3] = Glue("proc", <<Path("silver")>>, <<>>, FALSE, FALSE)], Namesakes}
MCSources == MCGraphs \cup MCShops
MCOutputs == [j \in {"in", "t1", "t2", "proc", "p"} |-> IF j = "t2" THEN {"v", "stg_v"} ELSE {}]
MCModelName ==
  [n \in {"a", "v", "w", "q", "in", "t1", "t2", "proc", "stg_a", "stg_v"} |->
     CASE n = "stg_a" -> <<"stg", "a">> [] n = "stg_v" -> <<"stg", "v">> [] OTHER -> <<n>>]
MaxFlagged == 2
MCConfigs == {NoConfig, [driven |-> TRUE, postgres |-> TRUE, framework |-> TRUE,
                         queries |-> <<"v", "q", "q">>, rules |-> {"a"}]}
Picks == IF source \in MCShops THEN {{<<"sf", T("v")>>}}
         ELSE {{}} \cup {{i} : i \in Ids} \cup {{i, <<"sf", T("dim_a")>>} : i \in Ids}

MigrationNext ==
  /\ stage = "planned" => source \in MCShops
  /\ ConversionNext
  /\ stage = "built" => selected' \in Picks
  /\ Cardinality(Flagged') <= MaxFlagged
  /\ conv' = "gathered" => columns' \in {{}, {T("a"), T("v")}, {T("stg_a"), T("v")}}

(* Workflows: three links between four tasks of which two may be dropped;       *)
(* chains of three groups in every direction; groups; a dependency that is no   *)
(* task; dropped tasks in a circle; tasks that share a key; an API's list of a   *)
(* task whose name is no key; and what is emitted.                               *)
L(a, b) == [groups |-> <<a, b>>, ops |-> <<">>">>]
Flow(from, kinds, mapped, ls) ==
  [from |-> from, tasks |-> DOMAIN kinds, kind |-> kinds, mapped |-> mapped, links |-> ls,
   notebooks |-> {}, layers |-> {}, arrival |-> FALSE, cloud |-> FALSE]
Emitted(kinds, arrival, cloud, layers) ==
  [Flow("emit", kinds, {}, {}) EXCEPT !.tasks = {}, !.notebooks = DOMAIN kinds,
                                     !.arrival = arrival, !.cloud = cloud, !.layers = layers]
Four == {"a", "b", "c", "d"}
Kinds == {[t \in Four |-> CASE t = "b" -> kb [] t = "c" -> kc [] OTHER -> "glue_job"]
           : kb \in {"sensor", "python"}, kc \in {"python", "glue_job"}}
Links == {{L({p[1]}, {p[2]}) : p \in s}
           : s \in {x \in SUBSET {p \in Four \X Four : p[1] # p[2]} : Cardinality(x) = 3}}
Notebooks(other) ==
  [n \in {"o", "o2", "c", "i", "j"} |->
     CASE n \in {"o", "o2"} -> "open" [] n = "c" -> "close" [] n = "i" -> other [] OTHER -> "other"]
Arrows == {">>", "<<"}
Chains ==
  {[groups |-> <<{"a"}, m, {"d"}>>, ops |-> <<o, p>>] : m \in {{"b"}, {"b", "c"}}, o, p \in Arrows}
  \cup {[groups |-> <<{"d"}, {"b", "c"}>>, ops |-> <<"<<">>]}
SharedKeys(kinds, mapped) ==
  Flow("python", kinds, mapped, {L({"a"}, {"x-y"}), L({"a"}, {"x.y"}), L({"x-y"}, {"d"}), L({"b"}, {"x.y"})})
Sharing ==
  [t \in {"a", "b", "d", "x-y", "x.y"} |-> IF t = "x-y" THEN "sensor" ELSE "glue_job"]
NoFlow == Emitted(<<>>, FALSE, FALSE, {})
MCFlows ==
  {Flow("python", k, m, l) : k \in Kinds, m \in {{}, {"b"}}, l \in Links}
  \cup {Flow("glue", k, {"b", "c"}, {L({"a", "b"}, {"c", "d"})}) : k \in Kinds}
  \cup {Flow("yaml", k, {}, {L({"gone"}, {"a"}), L({"a"}, {"b"}), L({"b"}, {"d"})}) : k \in Kinds}
  \cup {Flow("python", k, {}, {L({"b"}, {"c"}), L({"c"}, {"b"}), L({"b"}, {"d"})}) : k \in Kinds}
  \cup {Flow("python", k, m, {c}) : k \in Kinds, m \in {{}, {"b"}}, c \in Chains}
  \cup {SharedKeys(Sharing, {}), SharedKeys([Sharing EXCEPT !["x-y"] = "glue_job"], {})}
  \cup {Flow("api", [t \in {"x-y", "a"} |-> "glue_job"], {}, {L({"x-y"}, {"a"})})}
  \cup {NoFlow}
  \cup {Emitted(Notebooks(other), arrival, cloud, {"staging", "marts"})
         : other \in {"ingest", "other"}, arrival \in BOOLEAN, cloud \in BOOLEAN}
MCKeyOf == [t \in Four \cup {"x-y", "x.y", "gone"} |-> IF t \in {"x-y", "x.y"} THEN "x_y" ELSE t]

\* For the finding: c << b << a.
MCBackward ==
  {NoFlow, Flow("python", [t \in {"a", "b", "c"} |-> "glue_job"], {},
                {[groups |-> <<{"c"}, {"b"}, {"a"}>>, ops |-> <<"<<", "<<">>]})}

(* Reconciliation: every pair of columns of four small numbers, and of three    *)
(* numbers or NULLs, up to the order of rows; and pairs of other kinds.          *)
Sorted(n, values) ==
  {s \in [1..n -> values] : \A i \in 1..(n - 1) : s[i] = Null \/ (s[i + 1] # Null /\ s[i] <= s[i + 1])}
Rows(ms) == [i \in DOMAIN ms |-> [k |-> i, m |-> ms[i]]]
Typed(t, rows) == [types |-> [k |-> "num", m |-> t], rows |-> rows]
Compares(a, b) ==
  [source |-> Typed("num", Rows(a)), candidate |-> Typed("num", Rows(b)), key |-> {"k"},
   exclude |-> {}, refused |-> FALSE, tolerance |-> 0, orphans |-> <<>>, rebuilt |-> Rows(b)]
Plain == Compares(<<0, 1>>, <<0, 1>>)
Odd == {[Plain EXCEPT !.refused = TRUE], [Plain EXCEPT !.candidate = Typed("text", Rows(<<0, 1>>))],
        [Plain EXCEPT !.candidate.rows = <<>>, !.rebuilt = Rows(<<0, 1>>)],
        [Plain EXCEPT !.rebuilt = Rows(<<1, 1>>)], [Plain EXCEPT !.orphans = <<0, 2>>],
        [Plain EXCEPT !.key = {}], [Plain EXCEPT !.key = {"z"}], [Plain EXCEPT !.exclude = {"m"}],
        [Plain EXCEPT !.candidate = [types |-> [k |-> "num"], rows |-> <<[k |-> 1], [k |-> 2]>>],
                      !.rebuilt = <<[k |-> 1], [k |-> 2]>>],
        [Compares(<<0, 1, 2>>, <<0, 1>>) EXCEPT !.tolerance = 50],
        [Plain EXCEPT !.source.rows = <<[k |-> 1, m |-> 0], [k |-> 1, m |-> 1], [k |-> Null, m |-> 1]>>]}
MCRequests ==
  {<<Compares(a, b)>> : a, b \in Sorted(4, 0..3)}
  \cup {<<Compares(a, b)>> : a, b \in Sorted(3, (0..2) \cup {Null})}
  \cup {<<p>> : p \in Odd} \cup {<<Plain, p>> : p \in Odd} \cup {<<>>}
MCIdColumns == <<"k">>

MCInit ==
  /\ \/ part = "migration" /\ source \in Sources /\ flow = NoFlow /\ pairs = <<>>
     \/ part = "workflow" /\ source = Shop /\ flow \in Flows /\ pairs = <<>>
     \/ part = "reconcile" /\ source = Shop /\ flow = NoFlow /\ pairs \in Requests
  /\ NoLineage /\ ConvInit /\ NotPlanned /\ NotCompared

MCNext ==
  /\ \/ part = "migration" /\ MigrationNext /\ UNCHANGED <<planVars, recVars>>
     \/ part = "workflow" /\ PlanNext /\ UNCHANGED <<conversionVars, recVars>>
     \/ part = "reconcile" /\ RecNext /\ UNCHANGED <<conversionVars, planVars>>
  /\ UNCHANGED part

MCSpec == MCInit /\ [][MCNext]_MCvars
=============================================================================
