---------------------------- MODULE MCModelBuild ----------------------------
(* ModelBuild over the ref() graphs of three models in which the first or  *)
(* the last reads none (all graphs are left to ModelOrder), a catalog that *)
(* holds the same kind of object under every name at first, and at most    *)
(* one model whose answer comes without a state.  And, for the finding,    *)
(* over four: a mart listed before what it reads, beside a cycle of two.   *)
EXTENDS ModelBuild

ThreeModels == <<"stg_a", "silver_b", "dim_c">>

MCInit ==
  /\ Init
  /\ \A m \in Models : m \notin refs[m]
  /\ refs["stg_a"] = {} \/ refs["dim_c"] = {}
  /\ \A m, n \in Models : before[m] = before[n]

MCSpec ==
  MCInit /\ [][Next /\ Cardinality(unread') <= 1]_vars /\ WF_vars(Handler)

FourModels == <<"dim_c", "stg_a", "silver_b", "silver_d">>
BesideACycle ==
  [m \in Models |-> CASE m = "dim_c"    -> {"stg_a"}
                      [] m = "stg_a"    -> {}
                      [] m = "silver_b" -> {"silver_d"}
                      [] m = "silver_d" -> {"silver_b"}]

FindingInit ==
  /\ Init
  /\ refs = BesideACycle
  /\ \A m, n \in Models : before[m] = before[n]

FindingSpec == FindingInit /\ [][Next]_vars
=============================================================================
