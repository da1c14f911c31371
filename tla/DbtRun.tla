------------------------------- MODULE DbtRun -------------------------------
(***************************************************************************)
(* What one local dbt run promises to whoever watches it through the       *)
(* status endpoint of backend/integrations/dbt_local.py: the run is        *)
(* "running" until it gets exactly one verdict, its model results appear   *)
(* once, before the verdict, which agrees with them and after which        *)
(* neither changes, and its log only grows.                                *)
(*                                                                         *)
(* DbtJob (worker thread, dbt child processes, cancel handler) is shown to *)
(* implement this module; DbtPoller builds the status endpoint and the DBT *)
(* Agent page on top of it.                                                *)
(***************************************************************************)
EXTENDS Naturals

VARIABLES
  verdict,   \* job["status"]: "running", or how the run ended
  settled,   \* job["finished"]
  reported,  \* job["models"], as far as a reader can tell results apart
  lines      \* lines ever appended to job["logs"]

vars == <<verdict, settled, reported, lines>>

Verdicts == {"success", "error", "cancelled"}

\* job["models"] is empty, all successful, or has a failed node.
Reports == {"none", "ok", "failed"}

TypeOK ==
  /\ verdict \in Verdicts \cup {"running"}
  /\ settled \in BOOLEAN
  /\ reported \in Reports
  /\ lines \in Nat

Init ==
  /\ verdict = "running"
  /\ settled = FALSE
  /\ reported = "none"
  /\ lines = 0

\* A line of dbt output, or one of the runner's own, reaches the log. The line
\* that explains a missing dbt comes after the verdict.
LogLine ==
  /\ lines' = lines + 1
  /\ UNCHANGED <<verdict, settled, reported>>

\* job["models"] is set, while the status still says "running": a reader sees
\* the results before the verdict, and sees them once.
Report ==
  /\ ~settled
  /\ reported = "none"
  /\ reported' \in Reports
  /\ UNCHANGED <<verdict, settled, lines>>

\* The one job.update(...) that ends a run. A failed node makes the run an
\* error, and a cancelled run shows no results.
Conclude ==
  /\ ~settled
  /\ settled' = TRUE
  /\ verdict' \in Verdicts
  /\ reported = "failed" => verdict' = "error"
  /\ verdict' = "cancelled" => reported = "none"
  /\ UNCHANGED <<reported, lines>>

Next == LogLine \/ Report \/ Conclude

Spec == Init /\ [][Next]_vars
=============================================================================
