------------------------------ MODULE MCDbtJob ------------------------------
(* The local dbt runner on small instances: one run in detail, and the job    *)
(* registry with five runs of which it keeps two when it can.  They share no   *)
(* state here, so one of them moves in each behaviour.                         *)
EXTENDS DbtJob, DbtRegistry

VARIABLE part
MCvars == <<part, vars, regVars>>

MCInit == part \in {"job", "registry"} /\ Init /\ RegInit

\* Jobs are alike, and are started in the order of their numbers.
MCNext ==
  /\ \/ part = "job" /\ Next /\ UNCHANGED regVars
     \/ /\ part = "registry" /\ RegNext /\ UNCHANGED vars
        /\ \A j \in started' \ started : \A i \in Jobs : i < j => i \in started
  /\ UNCHANGED part

MCSpec ==
  /\ MCInit /\ [][MCNext]_MCvars
  /\ WF_vars(part = "job" /\ WorkerProgress)
  /\ WF_vars(part = "job" /\ Canceller)
  /\ WF_vars(part = "job" /\ signalled /\ ChildExits)
=============================================================================
