----------------------------- MODULE MCServices -----------------------------
(* The parts of the tool that call a service and wait, on small instances:    *)
(* the AI provider, AWS sign-in, the loads of a warehouse, its jobs and its    *)
(* files.  They share no state but what a run of a job needs in place, so one  *)
(* of them moves in each behaviour.                                            *)
EXTENDS AiCalls, SsoSession, QvdLoad, JobDeploy

VARIABLE part
MCvars == <<part, aiVars, ssoVars, qvdVars, jobVars>>

MCJobOf == [t \in Tables |-> IF t = "c" THEN "j2" ELSE "j1"]
MCCalls == {<<"full_migration", FALSE>>, <<"execute_ddl_only", TRUE>>,
            <<"generate_sql_only", FALSE>>}
MCKindOf == [x \in Paths |-> IF x = CHOOSE y \in Paths : TRUE THEN "notebook" ELSE "file"]

\* A package is short of one thing or of none, and read from a volume or a cloud.
Whole == [ready |-> TRUE, counted |-> TRUE, config |-> TRUE, path |-> "volume"]
MCPackages == {Whole, [Whole EXCEPT !.ready = FALSE], [Whole EXCEPT !.config = FALSE],
               [Whole EXCEPT !.path = "none"], [Whole EXCEPT !.path = "cloud"]}
Empty == [x \in Paths |-> "none"]

\* Of the sign-ins, which start in the order of their numbers, the last is only
\* started, so that the start of a third prunes a table of two.
MCSsoNext ==
  /\ SsoNext
  /\ \A s \in starting' \ starting : \A t \in Sessions : t < s => ~Fresh(t)
  /\ \A p \in Polls : asked'[p] # asked[p] => asked'[p] = NoPoll \/ asked'[p].of < 3

MCInit ==
  /\ part \in {"ai", "sso", "load", "jobs", "push"}
  /\ AiInit /\ SsoInit /\ QvdInit /\ JobInit
  /\ package \in (IF part = "load" THEN MCPackages ELSE {Whole})
  /\ part # "push" => node \in (IF part = "jobs" THEN {Empty, MCKindOf} ELSE {Empty})

MCNext ==
  /\ \/ part = "ai" /\ AiNext /\ UNCHANGED <<ssoVars, qvdVars, jobVars>>
     \/ part = "sso" /\ MCSsoNext /\ UNCHANGED <<aiVars, qvdVars, jobVars>>
     \/ part = "load" /\ QvdNext /\ UNCHANGED <<aiVars, ssoVars, jobVars>>
     \/ /\ \/ part = "jobs" /\ (DeployNext \/ CheckNext)
           \/ part = "push" /\ PushNext
        /\ UNCHANGED <<aiVars, ssoVars, qvdVars>>
  /\ UNCHANGED part

MCSpec == MCInit /\ [][MCNext]_MCvars /\ AiFairness /\ QvdFairness
=============================================================================
