----------------------------- MODULE DbtRegistry -----------------------------
(***************************************************************************)
(* The job registry of backend/integrations/dbt_local.py: the dictionary   *)
(* _JOBS, filled by start_dbt_run and thinned by _prune_jobs. A job here   *)
(* is only what pruning and the status endpoint look at; DbtJob models how *)
(* it runs.                                                                *)
(*                                                                         *)
(* Time is abstracted to the order in which jobs ended: at a start, the    *)
(* jobs that ended longest ago, any number of them, may have outlived      *)
(* _JOB_TTL_SECS.                                                          *)
(***************************************************************************)
EXTENDS Naturals, FiniteSets

CONSTANTS
  Jobs,     \* job ids (uuid4 prefixes: never reused)
  MaxJobs   \* _MAX_JOBS

ASSUME RegistryAssumption == IsFiniteSet(Jobs) /\ MaxJobs \in Nat

VARIABLES
  registry,  \* _JOBS: the ids it holds
  started,   \* ids given out so far
  settled,   \* jobs whose "finished" is set
  endRank,   \* order of "ended_at": 0 while it is not set
  lost       \* jobs whose server process died with them

regVars == <<registry, started, settled, endRank, lost>>

RegTypeOK ==
  /\ registry \in SUBSET Jobs
  /\ started \in SUBSET Jobs
  /\ settled \in SUBSET Jobs
  /\ endRank \in [Jobs -> 0..Cardinality(Jobs)]
  /\ lost \in SUBSET Jobs

RegInit ==
  /\ registry = {}
  /\ started = {}
  /\ settled = {}
  /\ endRank = [j \in Jobs |-> 0]
  /\ lost = {}

Running == started \ (settled \cup lost)

-----------------------------------------------------------------------------

\* The time-to-live pass of _prune_jobs: finished jobs whose end lies too far
\* back. A job without an "ended_at" counts as ending now.
Expired(gone) ==
  /\ gone \subseteq {j \in registry \cap settled : endRank[j] > 0}
  /\ \A i \in gone, j \in registry \cap settled :
       0 < endRank[j] /\ endRank[j] < endRank[i] => j \in gone

Excess(n) == IF n > MaxJobs THEN n - MaxJobs ELSE 0

\* Mutant of Overflowing: the oldest jobs go, finished or not.
Overflowing_AnyJob(left, gone) ==
  /\ gone \subseteq left
  /\ Cardinality(gone) = Excess(Cardinality(left))
  /\ \A i \in gone, j \in left \ gone : endRank[i] <= endRank[j]

\* Mutant of Overflowing: one job at most makes room.
Overflowing_One(left, gone) ==
  /\ gone \subseteq left \cap settled
  /\ Cardinality(gone) = IF Excess(Cardinality(left)) > 0 /\ left \cap settled # {}
                         THEN 1 ELSE 0
  /\ \A i \in gone, j \in (left \cap settled) \ gone : endRank[i] <= endRank[j]

\* The size pass: of the finished jobs the longest ended go first ("ended_at"
\* defaults to 0) until the registry fits or no finished job is left.
Overflowing(left, gone) ==
  /\ gone \subseteq left \cap settled
  /\ \/ Cardinality(gone) = Excess(Cardinality(left))
     \/ gone = left \cap settled /\ Cardinality(gone) < Excess(Cardinality(left))
  /\ \A i \in gone, j \in (left \cap settled) \ gone : endRank[i] <= endRank[j]

\* start_dbt_run, under _JOBS_LOCK: prune first, then register the new job.
StartJob(j) ==
  /\ j \notin started
  /\ started' = started \cup {j}
  /\ \E expired \in SUBSET registry :
       /\ Expired(expired)
       /\ \E overflow \in SUBSET (registry \ expired) :
            /\ Overflowing(registry \ expired, overflow)
            /\ registry' = (registry \ (expired \cup overflow)) \cup {j}
  /\ UNCHANGED <<settled, endRank, lost>>

\* job.update(..., finished=True) in the worker.
SettleJob(j) ==
  /\ j \in Running
  /\ settled' = settled \cup {j}
  /\ UNCHANGED <<registry, started, endRank, lost>>

\* The finally clause: job["ended_at"] = time.time(), a step later. A job that
\* was evicted in between is still stamped.
EndJob(j) ==
  /\ j \in settled \ lost
  /\ endRank[j] = 0
  /\ endRank' = [endRank EXCEPT ![j] = Cardinality({i \in Jobs : endRank[i] > 0}) + 1]
  /\ UNCHANGED <<registry, started, settled, lost>>

\* The server process restarts: the registry is gone, and with it the daemon
\* threads of the running jobs.
Restart ==
  /\ started # {}
  /\ registry' = {}
  /\ lost' = started
  /\ UNCHANGED <<started, settled, endRank>>

RegNext ==
  \/ \E j \in Jobs : StartJob(j) \/ SettleJob(j) \/ EndJob(j)
  \/ Restart

RegSpec == RegInit /\ [][RegNext]_regVars

-----------------------------------------------------------------------------
(* Properties. *)

\* A job that is still running is never evicted, so its status can always be
\* asked for: both passes of _prune_jobs only take finished jobs.
RunningIsRegistered == Running \subseteq registry

\* The registry is bounded: a start leaves at most one job more than the larger
\* of _MAX_JOBS and the number of jobs that cannot be evicted yet.
StartsBounded ==
  [][registry' # registry /\ registry' # {} =>
       Cardinality(registry') <=
         1 + (IF Cardinality(Running) > MaxJobs THEN Cardinality(Running)
              ELSE MaxJobs)]_regVars
=============================================================================
