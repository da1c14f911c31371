--------------------------- MODULE MCMigrationRun ---------------------------
(* Two runs of the migration page, side by side with the manual pages. *)
EXTENDS MigrationRun, TLC

CONSTANTS r1, r2
TwoRuns == {r1, r2}

\* For the finding about results that stay: nobody uses the manual pages, so
\* that every result in the store is a run's.
RunsOnly == Init /\ [][Next /\ manual' = NoCall]_vars
=============================================================================
