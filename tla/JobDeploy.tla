----------------------------- MODULE JobDeploy -----------------------------
(***************************************************************************)
(* What the tool does to the jobs and files of a Databricks workspace for  *)
(* one workflow: create or update its job (deploy_job, by list and then    *)
(* reset or create), push notebooks and project files (push_to_workspace,  *)
(* by import, and delete and import again when a node of another type is   *)
(* in the way), and run the job and wait (run_job_and_wait).               *)
(*                                                                         *)
(* Flask serves each call in a thread of its own, so calls overlap and are *)
(* repeated.  A request may take effect although its answer is lost, and   *)
(* after its sender has given up.  The settings a deploy sends are the     *)
(* deploy itself; a node of the workspace is its kind.  All other jobs of  *)
(* a deploy request are dealt with one after the other in the same way.    *)
(***************************************************************************)
EXTENDS Naturals, FiniteSets

CONSTANTS
  Deploys, Pushes, Checks,   \* bounds: the calls of each of the three
  Paths,                     \* what a push writes
  KindOf,                    \* the kind each path is imported as
  NoDeploy

ASSUME DeployAssumption ==
  /\ IsFiniteSet(Deploys) /\ NoDeploy \notin Deploys
  /\ Paths # {} /\ KindOf \in [Paths -> {"notebook", "file"}]

VARIABLES
  jobs,      \* the job each create made, as the deploy whose settings it has
  deploy,    \* the deploy calls
  open,      \* deploys whose write was sent and has not taken effect
  raced,     \* history: a list was answered while a create was open
  node,      \* the workspace tree
  push,      \* the push calls
  check,     \* the run calls
  run        \* the run each of them started, with the settings it runs

deployVars == <<jobs, deploy, open, raced>>
pushVars == <<node, push>>
checkVars == <<check, run>>
jobVars == <<deployVars, pushVars, checkVars>>

\* A job is known by the deploy that created it.
JobsThere == {j \in Deploys : jobs[j] # NoDeploy}

JobTypeOK ==
  /\ jobs \in [Deploys -> Deploys \cup {NoDeploy}]
  /\ deploy \in [Deploys -> [pc : {"idle", "write", "sent", "done"}, ok : BOOLEAN,
                             target : Deploys \cup {NoDeploy}]]
  /\ open \subseteq Deploys /\ raced \in BOOLEAN
  /\ node \in [Paths -> {"none", "notebook", "file"}]
  /\ push \in [Pushes -> [pc : {"idle", "import", "delete", "again", "done"},
                          todo : SUBSET Paths, at : Paths, failed : SUBSET Paths]]
  /\ check \in [Checks -> [pc : {"idle", "poll", "done"}, verdict : BOOLEAN]]
  /\ run \in [Checks -> [state : {"none", "active", "SUCCESS", "FAILED", "SKIPPED"},
                         job : Deploys \cup {NoDeploy}, settings : Deploys \cup {NoDeploy}]]

JobInit ==
  /\ jobs = [d \in Deploys |-> NoDeploy]
  /\ deploy = [d \in Deploys |-> [pc |-> "idle", ok |-> FALSE, target |-> NoDeploy]]
  /\ open = {} /\ raced = FALSE
  /\ node \in [Paths -> {"none", "notebook", "file"}]
  /\ push = [p \in Pushes |-> [pc |-> "idle", todo |-> {}, failed |-> {},
                               at |-> CHOOSE x \in Paths : TRUE]]
  /\ check = [c \in Checks |-> [pc |-> "idle", verdict |-> FALSE]]
  /\ run = [c \in Checks |-> [state |-> "none", job |-> NoDeploy, settings |-> NoDeploy]]

-----------------------------------------------------------------------------
(* Deploy.                                                                 *)

\* Mutant: the answer of jobs/list is not looked at.
FirstMatchNone(found) == found = NoDeploy

\* The first job of the listing that has the tag of the workflow.
FirstMatch(found) ==
  IF JobsThere = {} THEN found = NoDeploy ELSE found \in JobsThere

IsCreate(d) == deploy[d].target = NoDeploy

ListJobs(d) ==
  /\ deploy[d].pc = "idle"
  /\ \E found \in Deploys \cup {NoDeploy} :
       /\ FirstMatch(found)
       /\ deploy' = [deploy EXCEPT ![d].pc = "write", ![d].target = found]
  /\ raced' = (raced \/ \E o \in Deploys : /\ IsCreate(o)
                                           /\ deploy[o].pc = "write" \/ o \in open)
  /\ UNCHANGED <<jobs, open>>

\* A request that fails is answered with its error; nothing more is tried.
DeployFails(d) ==
  /\ deploy[d].pc \in {"idle", "sent"}
  /\ deploy' = [deploy EXCEPT ![d].pc = "done"]
  /\ UNCHANGED <<jobs, open, raced>>

SendWrite(d) ==
  /\ deploy[d].pc = "write"
  /\ deploy' = [deploy EXCEPT ![d].pc = "sent"]
  /\ open' = open \cup {d}
  /\ UNCHANGED <<jobs, raced>>

\* jobs/reset or jobs/create takes effect at the workspace, or is dropped.
WriteEnds(d) ==
  /\ d \in open
  /\ open' = open \ {d}
  /\ \/ jobs' = [jobs EXCEPT ![IF IsCreate(d) THEN d ELSE deploy[d].target] = d]
     \/ jobs' = jobs
  /\ UNCHANGED <<deploy, raced>>

Deployed(d) ==
  /\ deploy[d].pc = "sent" /\ d \notin open
  /\ jobs[IF IsCreate(d) THEN d ELSE deploy[d].target] # NoDeploy
  /\ deploy' = [deploy EXCEPT ![d].pc = "done", ![d].ok = TRUE]
  /\ UNCHANGED <<jobs, open, raced>>

-----------------------------------------------------------------------------
(* Push.                                                                   *)

\* build_push_plan
BeginPush(p) ==
  /\ push[p].pc = "idle"
  /\ \E x \in Paths :
       push' = [push EXCEPT ![p].pc = "import", ![p].at = x, ![p].todo = Paths \ {x}]
  /\ UNCHANGED node

\* The result of one item is noted, and the loop goes on with the next.
ItemDone(p, failed) ==
  LET q == push[p]
      noted == [q EXCEPT !.failed = IF failed THEN @ \cup {q.at} ELSE @]
  IN IF q.todo = {} THEN push' = [push EXCEPT ![p] = [noted EXCEPT !.pc = "done"]]
     ELSE \E x \in q.todo :
            push' = [push EXCEPT ![p] = [noted EXCEPT !.pc = "import", !.at = x,
                                                      !.todo = @ \ {x}]]

Conflict(x) == node[x] \notin {"none", KindOf[x]}

\* mkdirs and the import with overwrite: it takes the place of nothing or of a
\* node of its own kind.
Import(p) ==
  /\ push[p].pc \in {"import", "again"} /\ ~Conflict(push[p].at)
  /\ node' = [node EXCEPT ![push[p].at] = KindOf[push[p].at]]
  /\ \E lost \in BOOLEAN : ItemDone(p, lost)

\* RESOURCE_ALREADY_EXISTS
FindConflict(p) ==
  /\ push[p].pc = "import" /\ Conflict(push[p].at)
  /\ push' = [push EXCEPT ![p].pc = "delete"]
  /\ UNCHANGED node

\* The answer of the delete is not looked at.
DeleteNode(p) ==
  /\ push[p].pc = "delete"
  /\ push' = [push EXCEPT ![p].pc = "again"]
  /\ node' \in {node, [node EXCEPT ![push[p].at] = "none"]}

\* Mutant: only the first import's error is noted.
ImportFailsQuietly(p) ==
  /\ push[p].pc \in {"import", "again"}
  /\ ItemDone(p, push[p].pc = "import")
  /\ UNCHANGED node

\* mkdirs or an import fails: also the second one, when the node is gone.
ImportFails(p) ==
  /\ push[p].pc \in {"import", "again"}
  /\ ItemDone(p, TRUE)
  /\ UNCHANGED node

-----------------------------------------------------------------------------
(* Run and wait.                                                           *)

\* The job has max_concurrent_runs = 1: a run beside an active one is skipped.
Started(j) ==
  [state |-> IF \E c \in Checks : run[c].state = "active" /\ run[c].job = j
             THEN "SKIPPED" ELSE "active",
   job |-> j, settings |-> jobs[j]]

\* run-now, of a job a deploy has answered with; its answer may be lost.
RunNow(c, d) ==
  LET j == IF IsCreate(d) THEN d ELSE deploy[d].target IN
  /\ check[c].pc = "idle" /\ deploy[d].ok
  /\ \E lost \in BOOLEAN :
       check' = [check EXCEPT ![c].pc = IF lost THEN "done" ELSE "poll"]
  /\ run' = [run EXCEPT ![c] = Started(j)]

RunNowFails(c) ==
  /\ check[c].pc = "idle" /\ \E d \in Deploys : deploy[d].ok
  /\ check' = [check EXCEPT ![c].pc = "done"]
  /\ UNCHANGED run

\* A run can only succeed when everything it runs is in place.
RunEnds(c) ==
  /\ run[c].state = "active"
  /\ \E result \in {"SUCCESS", "FAILED"} :
       /\ result = "SUCCESS" => \A x \in Paths : node[x] = KindOf[x]
       /\ run' = [run EXCEPT ![c].state = result]
  /\ UNCHANGED check

\* A poll finds the run at its end.
PollEnds(c) ==
  /\ check[c].pc = "poll" /\ run[c].state # "active"
  /\ check' = [check EXCEPT ![c].pc = "done", ![c].verdict = (run[c].state = "SUCCESS")]
  /\ UNCHANGED run

\* A poll fails, or the limit passes: the run goes on, unwatched.
GiveUp(c) ==
  /\ check[c].pc = "poll"
  /\ check' = [check EXCEPT ![c].pc = "done"]
  /\ UNCHANGED run

-----------------------------------------------------------------------------
DeployStep(d) == ListJobs(d) \/ DeployFails(d) \/ SendWrite(d) \/ WriteEnds(d) \/ Deployed(d)
PushStep(p) == Import(p) \/ FindConflict(p) \/ DeleteNode(p) \/ ImportFails(p)
CheckStep(c) == PollEnds(c) \/ GiveUp(c)

DeployNext == (\E d \in Deploys : DeployStep(d)) /\ UNCHANGED <<pushVars, checkVars>>
PushNext == (\E p \in Pushes : BeginPush(p) \/ PushStep(p)) /\ UNCHANGED <<deployVars, checkVars>>
CheckNext ==
  /\ \E c \in Checks : \/ \E d \in Deploys : RunNow(c, d)
                        \/ RunNowFails(c) \/ RunEnds(c) \/ CheckStep(c)
  /\ UNCHANGED <<deployVars, pushVars>>

JobNext == DeployNext \/ PushNext \/ CheckNext

JobSpec == JobInit /\ [][JobNext]_jobVars

-----------------------------------------------------------------------------
\* deploy_job makes a second job of a workflow only if a call listed the jobs
\* while the create of another was under way, be it after that one's answer was
\* lost: calls one after the other, failed and repeated ones too, keep to one.
\* Only then can two of its runs be active at once (max_concurrent_runs is a limit
\* of each job), also when a run was given up and is asked for again.
DuplicatesNeedOverlap ==
  ~raced =>
    /\ \A i, j \in JobsThere : i = j
    /\ \A c, o \in Checks : run[c].state = "active" /\ run[o].state = "active" => c = o

\* A push that has not reported an item has left it in place, in its kind.  Only
\* a push beside it, that found the node in the way before this one replaced it,
\* can have deleted the new one, and that one imports it again or reports it.
PushedIsThere ==
  \A p \in Pushes, x \in Paths :
    push[p].pc = "done" /\ x \notin push[p].failed =>
      \/ node[x] = KindOf[x]
      \/ \E o \in Pushes \ {p} : \/ x \in push[o].failed
                                \/ (push[o].pc = "again" /\ push[o].at = x)
=============================================================================
