----------------------------- MODULE MCDbtPoller -----------------------------
(* DbtPoller with two runs, logs that are cut once, and one request at a time. *)
EXTENDS DbtPoller
=============================================================================
