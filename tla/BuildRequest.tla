---------------------------- MODULE BuildRequest ----------------------------
(***************************************************************************)
(* What one POST /api/sfglue/build promises to whoever reads its answer    *)
(* (sfglue_build of backend/integrations/routes/deploy.py): the request is *)
(* refused before any model was touched, or every model gets exactly one   *)
(* entry, in an order that follows the ref() graph, an entry is "skipped"  *)
(* exactly for a model whose upstream was not built, and the answer sums   *)
(* the entries up.                                                         *)
(*                                                                         *)
(* ModelBuild (sort, gates, loop, repair, a warehouse that answers late or *)
(* not at all) is shown to implement this module.                          *)
(***************************************************************************)

CONSTANT Models

VARIABLES
  upstream,  \* per model, the models its SQL reads
  entry,     \* results[...]["status"], "none" before the model has its entry
  answer     \* the response, "none" before it is sent

vars == <<upstream, entry, answer>>

Built == {"created", "repaired"}
NotBuilt == {"failed", "skipped"}

\* Every set of models has one that reads none of the others.
Acyclic ==
  \A S \in SUBSET Models : S # {} => \E m \in S : upstream[m] \cap S = {}

Init ==
  /\ upstream \in [Models -> SUBSET Models]
  /\ \A m \in Models : m \notin upstream[m]
  /\ entry = [m \in Models |-> "none"]
  /\ answer = "none"

\* The entry of a model. With a cycle anywhere no order is promised, and only
\* the upstreams that have their entries can hold a model up.
Enter(m, outcome) ==
  /\ answer = "none"
  /\ entry[m] = "none"
  /\ Acyclic => \A d \in upstream[m] : entry[d] # "none"
  /\ outcome = "skipped" <=> \E d \in upstream[m] : entry[d] \in NotBuilt
  /\ entry' = [entry EXCEPT ![m] = outcome]
  /\ UNCHANGED <<upstream, answer>>

\* The guard, a missing source or a schema that cannot be made.
Refuse ==
  /\ answer = "none"
  /\ \A m \in Models : entry[m] = "none"
  /\ answer' \in {"refused", "needsSource", "noSchema"}
  /\ UNCHANGED <<upstream, entry>>

Respond ==
  /\ answer = "none"
  /\ \A m \in Models : entry[m] # "none"
  /\ answer' = IF \A m \in Models : entry[m] \in Built THEN "success" ELSE "incomplete"
  /\ UNCHANGED <<upstream, entry>>

Next ==
  \/ \E m \in Models, outcome \in Built \cup NotBuilt : Enter(m, outcome)
  \/ Refuse \/ Respond

Spec == Init /\ [][Next]_vars
=============================================================================
