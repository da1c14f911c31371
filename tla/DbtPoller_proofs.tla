-------------------------- MODULE DbtPoller_proofs --------------------------
(***************************************************************************)
(* Proofs about the job registry and the page that polls it.  Of the       *)
(* registry: no start ever evicts a running job, and a start leaves a      *)
(* bounded registry, for any set of jobs and any _MAX_JOBS.  Of the page:  *)
(* every step of the two together is one of the registry or leaves it, a   *)
(* running run is polled, and, while a request is answered before the      *)
(* next is sent, the log is in order and a finished run is a settled job.  *)
(***************************************************************************)
EXTENDS DbtPoller, FiniteSetTheorems, SequenceTheorems, TLAPS

-----------------------------------------------------------------------------
(* The registry. *)

\* The registry only holds jobs of the living server process, and only a
\* started job can be in any of the other sets.
RegInv ==
  /\ registry \in SUBSET Jobs
  /\ started \in SUBSET Jobs
  /\ registry \subseteq started \ lost
  /\ lost \subseteq started
  /\ RunningIsRegistered

\* The jobs that a start with these evictions leaves over are at most as many
\* as _MAX_JOBS or as the jobs that are not finished.
LEMMA EvictionBound ==
  ASSUME NEW left \in SUBSET Jobs, NEW gone, Overflowing(left, gone)
  PROVE  \/ Cardinality(left \ gone) <= MaxJobs
         \/ left \ gone = left \ settled
<1>1. IsFiniteSet(left)
  BY RegistryAssumption, FS_Subset
<1>2. IsFiniteSet(gone) /\ gone \subseteq left
  BY <1>1, FS_Subset DEF Overflowing
<1>3. Cardinality(left) \in Nat /\ Cardinality(gone) \in Nat
  BY <1>1, <1>2, FS_CardinalityType
<1>4. Cardinality(left \ gone) = Cardinality(left) - Cardinality(gone)
  <2>1. left \cap gone = gone
    BY <1>2
  <2>. QED
    BY <2>1, <1>1, FS_Difference
<1>5. CASE Cardinality(gone) = Excess(Cardinality(left))
  BY <1>3, <1>4, <1>5, RegistryAssumption DEF Excess
<1>6. CASE gone = left \cap settled
  BY <1>6
<1>. QED
  BY <1>5, <1>6 DEF Overflowing

LEMMA RegInitInv == RegInit => RegInv
BY DEF RegInit, RegInv, RunningIsRegistered, Running

\* No pass of _prune_jobs takes a job that is not finished.
LEMMA StartKeeps ==
  ASSUME RegInv, NEW j \in Jobs, StartJob(j)
  PROVE  RegInv'
BY DEF RegInv, StartJob, Expired, Overflowing, RunningIsRegistered, Running

LEMMA RegNextInv == RegInv /\ [RegNext]_regVars => RegInv'
<1>. SUFFICES ASSUME RegInv, [RegNext]_regVars PROVE RegInv'
  OBVIOUS
<1>1. CASE \E j \in Jobs : StartJob(j)
  BY <1>1, StartKeeps
<1>2. CASE \E j \in Jobs : SettleJob(j)
  BY <1>2 DEF SettleJob, RegInv, RunningIsRegistered, Running
<1>3. CASE \E j \in Jobs : EndJob(j)
  BY <1>3 DEF EndJob, RegInv, RunningIsRegistered, Running
<1>4. CASE Restart
  BY <1>4 DEF Restart, RegInv, RunningIsRegistered, Running
<1>5. CASE UNCHANGED regVars
  BY <1>5 DEF regVars, RegInv, RunningIsRegistered, Running
<1>. QED
  BY <1>1, <1>2, <1>3, <1>4, <1>5 DEF RegNext

LEMMA RegInductive == RegSpec => []RegInv
<1>. QED
  BY RegInitInv, RegNextInv, PTL DEF RegSpec

\* A running job is never evicted, so its status can always be asked for.
THEOREM RunningIsRegisteredAlways == RegSpec => []RunningIsRegistered
<1>1. RegInv => RunningIsRegistered
  BY DEF RegInv
<1>. QED
  BY <1>1, RegInductive, PTL

\* What a start leaves registered is one job more than _MAX_JOBS, or than the
\* jobs that still run.
LEMMA StartBound ==
  ASSUME RegInv, NEW j \in Jobs, StartJob(j)
  PROVE  Cardinality(registry') <=
           1 + (IF Cardinality(Running) > MaxJobs THEN Cardinality(Running)
                ELSE MaxJobs)
<1>0. PICK expired \in SUBSET registry :
        \E overflow \in SUBSET (registry \ expired) :
          /\ Overflowing(registry \ expired, overflow)
          /\ registry' = (registry \ (expired \cup overflow)) \cup {j}
  BY DEF StartJob
<1>1. PICK overflow \in SUBSET (registry \ expired) :
        /\ Overflowing(registry \ expired, overflow)
        /\ registry' = (registry \ (expired \cup overflow)) \cup {j}
  BY <1>0
<1>. DEFINE left == registry \ expired
            stay == left \ overflow
<1>2. IsFiniteSet(Running) /\ IsFiniteSet(stay)
  <2>1. Running \subseteq Jobs /\ stay \subseteq Jobs
    BY DEF RegInv, Running
  <2>. QED
    BY <2>1, RegistryAssumption, FS_Subset
<1>3. Cardinality(Running) \in Nat /\ Cardinality(stay) \in Nat
  BY <1>2, FS_CardinalityType
<1>4. Cardinality(stay) <= MaxJobs \/ Cardinality(stay) <= Cardinality(Running)
  <2>1. left \in SUBSET Jobs
    BY DEF RegInv
  <2>2. Cardinality(stay) <= MaxJobs \/ stay = left \ settled
    BY <2>1, <1>1, EvictionBound
  <2>3. left \ settled \subseteq Running
    BY DEF RegInv, Running
  <2>4. CASE stay = left \ settled
    <3>1. stay \subseteq Running
      BY <2>3, <2>4
    <3>. QED
      BY <3>1, <1>2, FS_Subset
  <2>. QED
    BY <2>2, <2>4
<1>5. Cardinality(registry') <= Cardinality(stay) + 1
  <2>1. registry' = stay \cup {j}
    BY <1>1
  <2>2. Cardinality(stay \cup {j}) =
          IF j \in stay THEN Cardinality(stay) ELSE Cardinality(stay) + 1
    BY <1>2, FS_AddElement
  <2>. QED
    BY <2>1, <2>2, <1>3
<1>6. Cardinality(registry') \in Nat
  <2>1. IsFiniteSet(stay \cup {j})
    BY <1>2, FS_AddElement
  <2>2. registry' = stay \cup {j}
    BY <1>1
  <2>. QED
    BY <2>1, <2>2, FS_CardinalityType
<1>. HIDE DEF stay
<1>. QED
  BY <1>3, <1>4, <1>5, <1>6, RegistryAssumption

\* The registry is bounded after every start.
THEOREM StartsBoundedAlways == RegSpec => StartsBounded
<1>. DEFINE Bound ==
       registry' # registry /\ registry' # {} =>
         Cardinality(registry') <=
           1 + (IF Cardinality(Running) > MaxJobs THEN Cardinality(Running)
                ELSE MaxJobs)
<1>1. RegInv /\ [RegNext]_regVars => [Bound]_regVars
  <2>. SUFFICES ASSUME RegInv, [RegNext]_regVars, registry' # registry,
                       registry' # {}
                PROVE  \E j \in Jobs : StartJob(j)
    BY StartBound
  <2>. QED
    BY DEF RegNext, SettleJob, EndJob, Restart, regVars
<1>. QED
  BY <1>1, RegInductive, PTL DEF RegSpec, StartsBounded

\* The types of the registry: ranks count ends, of which there is one a job.
LEMMA RegTypeStep == RegTypeOK /\ [RegNext]_regVars => RegTypeOK'
<1>. SUFFICES ASSUME RegTypeOK, [RegNext]_regVars PROVE RegTypeOK'
  OBVIOUS
<1>1. ASSUME NEW j \in Jobs, StartJob(j) PROVE RegTypeOK'
  BY <1>1 DEF StartJob, RegTypeOK
<1>2. ASSUME NEW j \in Jobs, SettleJob(j) PROVE RegTypeOK'
  BY <1>2 DEF SettleJob, RegTypeOK
<1>3. ASSUME NEW j \in Jobs, EndJob(j) PROVE RegTypeOK'
  <2>. DEFINE ended == {i \in Jobs : endRank[i] > 0}
  <2>1. ended \subseteq Jobs /\ j \notin ended
    BY <1>3 DEF EndJob, RegTypeOK
  <2>2. IsFiniteSet(ended) /\ IsFiniteSet(Jobs) /\ Cardinality(ended) < Cardinality(Jobs)
    <3>1. IsFiniteSet(Jobs) /\ ended # Jobs
      BY <2>1, RegistryAssumption
    <3>2. IsFiniteSet(ended) /\ Cardinality(ended) <= Cardinality(Jobs)
          /\ (Cardinality(ended) = Cardinality(Jobs) => ended = Jobs)
      BY <2>1, <3>1, FS_Subset
    <3>. QED
      BY <3>1, <3>2, FS_CardinalityType
  <2>3. Cardinality(ended) + 1 \in 0..Cardinality(Jobs)
    BY <2>2, FS_CardinalityType
  <2>. HIDE DEF ended
  <2>4. endRank' = [endRank EXCEPT ![j] = Cardinality(ended) + 1] /\ UNCHANGED <<registry, started, settled, lost>>
    BY <1>3 DEF EndJob, ended
  <2>. QED
    BY <2>3, <2>4 DEF RegTypeOK
<1>4. CASE Restart
  BY <1>4 DEF Restart, RegTypeOK
<1>5. CASE UNCHANGED regVars
  BY <1>5 DEF regVars, RegTypeOK
<1>. QED
  BY <1>1, <1>2, <1>3, <1>4, <1>5 DEF RegNext

LEMMA RegTypeInit == RegInit => RegTypeOK
<1>1. Cardinality(Jobs) \in Nat
  BY RegistryAssumption, FS_CardinalityType
<1>. QED
  BY <1>1 DEF RegInit, RegTypeOK

-----------------------------------------------------------------------------
(* The page and the registry together. *)

\* A step of the two is one of the registry or leaves it alone.
LEMMA RegistryStep == [Next]_vars => [RegNext]_regVars
<1>. SUFFICES ASSUME [Next]_vars PROVE RegNext \/ UNCHANGED regVars
  BY DEF regVars
<1>1. ASSUME NEW j \in Jobs, JobPrints(j) \/ JobSettles(j) \/ JobEnds(j) \/ StartHandler(j)
      PROVE  RegNext \/ UNCHANGED regVars
  BY <1>1 DEF JobPrints, JobSettles, JobEnds, StartHandler, RegNext
<1>2. ASSUME NEW q \in Reqs, Endpoint(q) \/ PollTick(q) \/ Answered(q) \/ PollFails(q)
      PROVE  UNCHANGED regVars
  BY <1>2 DEF Endpoint, StatusLogs, StatusVerdict, StatusFinished, PollTick, Answered, PollFails
<1>3. CASE ServerRestarts
  BY <1>3 DEF ServerRestarts, RegNext
<1>4. CASE ClickRun \/ RunStarted \/ RunNotStarted \/ ClickCancel \/ CancelFails \/ LeavePage \/ EnterPage
  BY <1>4 DEF ClickRun, RunStarted, RunNotStarted, ClickCancel, CancelFails, LeavePage, EnterPage
<1>5. CASE UNCHANGED vars
  BY <1>5 DEF vars
<1>. QED
  BY <1>1, <1>2, <1>3, <1>4, <1>5 DEF Next

\* The registry under the page and its requests is the registry of DbtRegistry,
\* whose theorems hold there too.
THEOREM PollerImplementsRegistry == Spec => RegSpec
<1>1. Init => RegInit
  BY DEF Init
<1>. QED
  BY <1>1, RegistryStep, PTL DEF Spec, RegSpec

-----------------------------------------------------------------------------
(* The types. *)

Requests ==
  [at : {"idle", "sent", "logs", "status", "answered", "unknown"},
   job : Jobs \cup {NoJob}, since : 0..MaxLogLines,
   total : 0..MaxPrinted, size : 0..MaxLogLines,
   status : Verdicts \cup {"", "running"}, finished : BOOLEAN]
LogLines == Jobs \X (1..MaxPrinted)
RunRecords ==
  [job : Jobs \cup {NoJob}, running : BOOLEAN, finished : BOOLEAN,
   status : Verdicts \cup {"", "running"}, offset : 0..MaxLogLines, cancelling : BOOLEAN]

\* The lines a job keeps are the last of those it printed, up to the limit.
Cut(n) == IF n > MaxLogLines THEN MaxLogLines ELSE n
JobsTyped ==
  /\ lines \in [Jobs -> 0..MaxPrinted] /\ verdict \in [Jobs -> Verdicts \cup {"running"}]
  /\ kept = [j \in Jobs |-> Cut(lines[j])]
\* A request in flight has what the page sent, and a cut list.
ReqTyped ==
  /\ req \in [Reqs -> Requests]
  /\ \A q \in Reqs : /\ req[q].at \notin {"idle", "unknown"} => req[q].job \in Jobs
                     /\ req[q].size <= req[q].total
PageTyped ==
  /\ run \in RunRecords /\ timer \in BOOLEAN /\ onPage \in BOOLEAN
  /\ post \in [at : {"none", "sent", "answered"}, job : Jobs \cup {NoJob}]
Typed == RegTypeOK /\ JobsTyped /\ ReqTyped /\ PageTyped /\ shown \in Seq(LogLines)

LEMMA CutIs == \A n \in 0..MaxPrinted : Cut(n) \in 0..MaxLogLines /\ Cut(n) <= n
BY PollerAssumption DEF Cut

LEMMA IdleTyped == Idle \in Requests /\ Unknown \in Requests
                   /\ Idle.at = "idle" /\ Unknown.at = "unknown" /\ Idle.size <= Idle.total /\ Unknown.size <= Unknown.total
<1>1. 0 \in 0..MaxLogLines /\ 0 \in 0..MaxPrinted
  BY PollerAssumption
<1>2. Idle \in Requests
  BY <1>1 DEF Idle, Requests
<1>3. /\ Idle.at = "idle" /\ Idle.size = 0 /\ Idle.total = 0
      /\ Unknown.at = "unknown" /\ Unknown.size = 0 /\ Unknown.total = 0
  BY DEF Idle, Unknown
<1>4. Unknown \in Requests
  BY <1>2 DEF Unknown, Requests
<1>. QED
  BY <1>2, <1>3, <1>4

LEMMA ChunkTyped ==
  ASSUME NEW r \in Requests, r.job \in Jobs, r.size <= r.total
  PROVE  Chunk(r) \in Seq(LogLines)
<1>. DEFINE n == IF r.since < r.size THEN r.size - r.since ELSE 0
            line(i) == <<r.job, r.total - r.size + r.since + i>>
<1>0. r.since \in 0..MaxLogLines /\ r.size \in 0..MaxLogLines /\ r.total \in 0..MaxPrinted
  BY DEF Requests
<1>1. r.since \in Nat /\ r.size \in Nat /\ r.total \in 0..MaxPrinted /\ MaxPrinted \in Nat
  BY <1>0, PollerAssumption
<1>2. n \in Nat /\ \A i \in 1..n : r.total - r.size + r.since + i \in 1..MaxPrinted
  BY <1>1
<1>3. \A i \in 1..n : line(i) \in LogLines
  BY <1>2 DEF LogLines
<1>. HIDE DEF n, line
<1>4. [i \in 1..n |-> line(i)] \in Seq(LogLines)
  BY <1>2, <1>3
<1>. QED
  BY <1>4 DEF Chunk, n, line

LEMMA EmptyTyped == <<>> \in Seq(LogLines)
<1>. DEFINE S == LogLines
<1>. HIDE DEF S
<1>1. <<>> \in Seq(S)
  OBVIOUS
<1>. QED
  BY <1>1 DEF S

LEMMA TypedIsTypeOK == Typed => TypeOK
<1>. SUFFICES ASSUME Typed PROVE TypeOK
  OBVIOUS
<1>1. kept \in [Jobs -> 0..MaxLogLines] /\ lines \in [Jobs -> 0..MaxPrinted]
  BY CutIs DEF Typed, JobsTyped
<1>. QED
  BY <1>1 DEF Typed, JobsTyped, ReqTyped, PageTyped, Requests, RunRecords, LogLines, TypeOK

LEMMA InitTyped == Init => Typed
<1>. SUFFICES ASSUME Init PROVE Typed
  OBVIOUS
<1>1. RegTypeOK /\ shown \in Seq(LogLines)
  BY RegTypeInit, EmptyTyped DEF Init
<1>2. JobsTyped
  <2>1. lines = [j \in Jobs |-> 0] /\ kept = [j \in Jobs |-> 0] /\ verdict = [j \in Jobs |-> "running"]
    BY DEF Init
  <2>2. Cut(0) = 0 /\ 0 \in 0..MaxPrinted
    BY PollerAssumption DEF Cut
  <2>3. kept = [j \in Jobs |-> Cut(lines[j])]
    <3>1. \A j \in Jobs : Cut(lines[j]) = 0
      BY <2>1, <2>2
    <3>. QED
      BY <2>1, <3>1
  <2>. QED
    BY <2>1, <2>2, <2>3 DEF JobsTyped
<1>3. ReqTyped
  <2>1. req \in [Reqs -> Requests] /\ \A q \in Reqs : req[q] = Idle
    BY IdleTyped DEF Init
  <2>. QED
    BY <2>1, IdleTyped DEF ReqTyped
<1>4. PageTyped
  <2>1. 0 \in 0..MaxLogLines
    BY PollerAssumption
  <2>2. run \in RunRecords
    BY <2>1 DEF Init, RunRecords
  <2>. QED
    BY <2>2 DEF Init, PageTyped
<1>. QED
  BY <1>1, <1>2, <1>3, <1>4 DEF Typed

\* One request is at another point, with what that asks for.
LEMMA ReqMoves ==
  ASSUME ReqTyped, NEW q \in Reqs, NEW r \in Requests, req' = [req EXCEPT ![q] = r],
         r.at \notin {"idle", "unknown"} => r.job \in Jobs, r.size <= r.total
  PROVE  ReqTyped'
BY DEF ReqTyped

LEMMA EndpointTyped ==
  ASSUME Typed, NEW q \in Reqs, Endpoint(q)
  PROVE  ReqTyped'
<1>0. ReqTyped /\ JobsTyped /\ req \in [Reqs -> Requests] /\ req[q] \in Requests
  BY DEF Typed, ReqTyped
<1>1. req[q].at \in {"sent", "logs", "status"} /\ req[q].job \in Jobs
  BY <1>0 DEF Endpoint, StatusLogs, StatusVerdict, StatusFinished, ReqTyped
<1>. DEFINE j == req[q].job
<1>2. lines[j] \in 0..MaxPrinted /\ kept[j] \in 0..MaxLogLines /\ kept[j] <= lines[j]
      /\ verdict[j] \in Verdicts \cup {"running"}
  BY <1>0, <1>1, CutIs DEF JobsTyped
<1>3. CASE StatusLogs(q)
  <2>1. CASE req' = [req EXCEPT ![q] = Unknown]
    <3>1. Unknown.at \notin {"idle", "unknown"} => Unknown.job \in Jobs
      BY IdleTyped
    <3>. QED
      BY <1>0, <2>1, <3>1, IdleTyped, ReqMoves
  <2>2. CASE req' = [req EXCEPT ![q] = [req[q] EXCEPT !.at = "logs", !.total = lines[j], !.size = kept[j]]]
    <3>. DEFINE r == [req[q] EXCEPT !.at = "logs", !.total = lines[j], !.size = kept[j]]
    <3>1. r \in Requests /\ r.job \in Jobs /\ r.size <= r.total
      BY <1>0, <1>1, <1>2 DEF Requests
    <3>. HIDE DEF r
    <3>. QED
      BY <1>0, <2>2, <3>1, ReqMoves DEF r
  <2>. QED
    BY <1>3, <2>1, <2>2 DEF StatusLogs
<1>4. CASE StatusVerdict(q)
  <2>. DEFINE r == [req[q] EXCEPT !.at = "status", !.status = verdict[j]]
  <2>1. r \in Requests /\ r.job \in Jobs /\ r.size <= r.total
    BY <1>0, <1>1, <1>2 DEF Requests, ReqTyped
  <2>2. req' = [req EXCEPT ![q] = r]
    BY <1>4 DEF StatusVerdict
  <2>. HIDE DEF r
  <2>. QED
    BY <1>0, <2>1, <2>2, ReqMoves
<1>5. CASE StatusFinished(q)
  <2>. DEFINE over == (req[q].job \in settled)
              r == [req[q] EXCEPT !.at = "answered", !.finished = over]
  <2>a. over \in BOOLEAN
    OBVIOUS
  <2>2. req' = [req EXCEPT ![q] = r]
    BY <1>5 DEF StatusFinished
  <2>. HIDE DEF over
  <2>0. r \in Requests /\ r.job = req[q].job /\ r.size = req[q].size /\ r.total = req[q].total
    BY <1>0, <2>a DEF Requests
  <2>1. r \in Requests /\ r.job \in Jobs /\ r.size <= r.total
    BY <1>0, <1>1, <2>0 DEF ReqTyped
  <2>. HIDE DEF r
  <2>. QED
    BY <1>0, <2>1, <2>2, ReqMoves
<1>. QED
  BY <1>3, <1>4, <1>5 DEF Endpoint

\* A request is over.
LEMMA IdleAgain ==
  ASSUME ReqTyped, NEW q \in Reqs, req' = [req EXCEPT ![q] = Idle]
  PROVE  ReqTyped'
BY IdleTyped, ReqMoves

LEMMA AnsweredTyped ==
  ASSUME Typed, NEW q \in Reqs, Answered(q)
  PROVE  PageTyped' /\ shown' \in Seq(LogLines) /\ ReqTyped'
<1>0. ReqTyped /\ req[q] \in Requests /\ req[q].job \in Jobs /\ req[q].size <= req[q].total
  BY DEF Typed, ReqTyped, Answered
<1>1. shown' \in Seq(LogLines)
  BY <1>0, ChunkTyped DEF Typed, Answered
<1>2. req[q].size \in 0..MaxLogLines /\ req[q].status \in Verdicts \cup {"", "running"} /\ req[q].finished \in BOOLEAN
  BY <1>0 DEF Requests
<1>3. run' \in RunRecords
  <2>1. run \in RunRecords
    BY DEF Typed, PageTyped
  <2>2. CASE req[q].finished
    BY <1>2, <2>1, <2>2 DEF Answered, RunRecords
  <2>3. CASE ~req[q].finished
    BY <1>2, <2>1, <2>3 DEF Answered, RunRecords
  <2>. QED
    BY <2>2, <2>3
<1>4. timer' \in BOOLEAN
  BY DEF Answered
<1>5. PageTyped'
  BY <1>3, <1>4 DEF Answered, Typed, PageTyped
<1>6. ReqTyped'
  BY <1>0, IdleAgain DEF Answered
<1>. QED
  BY <1>1, <1>5, <1>6

LEMMA NextTyped == Typed /\ [Next]_vars => Typed'
<1>. SUFFICES ASSUME Typed, [Next]_vars PROVE Typed'
  OBVIOUS
<1>0. RegTypeOK'
  BY RegistryStep, RegTypeStep DEF Typed
<1>1. ASSUME UNCHANGED jobVars, UNCHANGED req, UNCHANGED <<run, timer, onPage, shown, post>> PROVE Typed'
  BY <1>0, <1>1 DEF Typed, JobsTyped, ReqTyped, PageTyped, jobVars
<1>2. ASSUME NEW j \in Jobs, JobPrints(j) PROVE Typed'
  <2>1. JobsTyped'
    <3>1. lines \in [Jobs -> 0..MaxPrinted] /\ kept = [i \in Jobs |-> Cut(lines[i])] /\ MaxPrinted \in Nat /\ MaxLogLines \in Nat
      BY PollerAssumption DEF Typed, JobsTyped
    <3>2. lines' = [lines EXCEPT ![j] = lines[j] + 1] /\ lines[j] + 1 \in 0..MaxPrinted /\ verdict' = verdict
      BY <1>2, <3>1 DEF JobPrints
    <3>3. kept' = [kept EXCEPT ![j] = IF kept[j] + 1 > MaxLogLines THEN MaxLogLines ELSE kept[j] + 1]
      BY <1>2 DEF JobPrints
    <3>4. (IF kept[j] + 1 > MaxLogLines THEN MaxLogLines ELSE kept[j] + 1) = Cut(lines[j] + 1)
      BY <3>1 DEF Cut
    <3>5. kept' = [i \in Jobs |-> Cut(lines'[i])]
      BY <3>1, <3>2, <3>3, <3>4
    <3>. QED
      BY <3>1, <3>2, <3>5 DEF Typed, JobsTyped
  <2>. QED
    BY <1>0, <1>2, <2>1 DEF JobPrints, Typed, ReqTyped, PageTyped, pageVars
<1>3. ASSUME NEW j \in Jobs, JobSettles(j) PROVE Typed'
  BY <1>0, <1>3 DEF JobSettles, Typed, JobsTyped, ReqTyped, PageTyped, pageVars
<1>4. ASSUME NEW j \in Jobs, JobEnds(j) \/ StartHandler(j) PROVE Typed'
  BY <1>0, <1>4 DEF JobEnds, StartHandler, Typed, JobsTyped, ReqTyped, PageTyped, jobVars, pageVars
<1>5. CASE ServerRestarts
  <2>1. req \in [Reqs -> Requests] /\ \A q \in Reqs : req'[q] \in {req[q], Unknown}
    BY <1>5 DEF ServerRestarts, Typed, ReqTyped
  <2>2. req' \in [Reqs -> Requests]
    BY <1>5, <2>1, IdleTyped DEF ServerRestarts
  <2>4. ReqTyped'
    BY <2>1, <2>2, IdleTyped DEF Typed, ReqTyped
  <2>. QED
    BY <1>0, <1>5, <2>4 DEF ServerRestarts, Typed, JobsTyped, PageTyped, jobVars, pageVars
<1>6. ASSUME NEW q \in Reqs, Endpoint(q) PROVE Typed'
  <2>1. UNCHANGED <<jobVars, post, pageVars>>
    BY <1>6 DEF Endpoint, StatusLogs, StatusVerdict, StatusFinished
  <2>. QED
    BY <1>0, <1>6, <2>1, EndpointTyped DEF Typed, JobsTyped, PageTyped, jobVars, pageVars
<1>7. ASSUME NEW q \in Reqs, PollTick(q) PROVE Typed'
  <2>. DEFINE r == [Idle EXCEPT !.at = "sent", !.job = run.job, !.since = run.offset]
  <2>1. run.job \in Jobs /\ run.offset \in 0..MaxLogLines
    BY <1>7 DEF PollTick, Typed, PageTyped, RunRecords
  <2>2. r \in Requests /\ r.job \in Jobs /\ r.size = Idle.size /\ r.total = Idle.total
    BY <2>1, IdleTyped DEF Requests
  <2>3. req' = [req EXCEPT ![q] = r]
    BY <1>7 DEF PollTick
  <2>. HIDE DEF r
  <2>4. ReqTyped'
    BY <2>2, <2>3, ReqMoves, IdleTyped DEF Typed
  <2>. QED
    BY <1>0, <1>7, <2>4 DEF PollTick, Typed, JobsTyped, PageTyped, jobVars, pageVars
<1>8. ASSUME NEW q \in Reqs, Answered(q) PROVE Typed'
  BY <1>0, <1>8, AnsweredTyped DEF Answered, Typed, JobsTyped, jobVars
<1>9. ASSUME NEW q \in Reqs, PollFails(q) PROVE Typed'
  <2>1. ReqTyped'
    BY <1>9, IdleAgain DEF PollFails, Typed
  <2>. QED
    BY <1>0, <1>9, <2>1 DEF PollFails, Typed, JobsTyped, PageTyped, RunRecords, Verdicts, jobVars
<1>10. CASE ClickRun \/ RunStarted \/ RunNotStarted
  <2>0. 0 \in 0..MaxLogLines
    BY PollerAssumption
  <2>1. PageTyped'
    <3>1. run \in RunRecords /\ timer \in BOOLEAN /\ onPage \in BOOLEAN
          /\ post.job \in Jobs \cup {NoJob}
      BY DEF Typed, PageTyped
    <3>. DEFINE job == post.job
    <3>2. post' \in [at : {"none", "sent", "answered"}, job : Jobs \cup {NoJob}]
          /\ timer' \in BOOLEAN /\ onPage' \in BOOLEAN
      <4>1. post' = [at |-> "sent", job |-> NoJob] \/ post' = [at |-> "none", job |-> NoJob]
        BY <1>10 DEF ClickRun, RunStarted, RunNotStarted
      <4>2. (timer' = timer \/ timer' = TRUE) /\ onPage' = onPage
        BY <1>10 DEF ClickRun, RunStarted, RunNotStarted
      <4>3. post' \in [at : {"none", "sent", "answered"}, job : Jobs \cup {NoJob}]
        BY <4>1
      <4>4. timer' \in BOOLEAN /\ onPage' \in BOOLEAN
        BY <3>1, <4>2, Zenon
      <4>. QED
        BY <4>3, <4>4
    <3>3. ClickRun => run' \in RunRecords
      BY <2>0 DEF ClickRun, RunRecords, Verdicts
    <3>4. RunStarted => run' = [run EXCEPT !.job = job]
      BY DEF RunStarted
    <3>5. RunNotStarted => run' \in RunRecords
      BY <3>1 DEF RunNotStarted, RunRecords, Verdicts
    <3>. HIDE DEF job
    <3>6. job \in Jobs \cup {NoJob}
      BY <3>1 DEF job
    <3>7. RunStarted => run' \in RunRecords
      BY <3>1, <3>4, <3>6 DEF RunRecords
    <3>. QED
      BY <1>10, <3>2, <3>3, <3>5, <3>7 DEF PageTyped
  <2>2. shown' \in Seq(LogLines)
    BY <1>10, EmptyTyped DEF ClickRun, RunStarted, RunNotStarted, Typed
  <2>. QED
    BY <1>0, <1>10, <2>1, <2>2 DEF ClickRun, RunStarted, RunNotStarted, Typed, JobsTyped, ReqTyped, jobVars
<1>11. CASE ClickCancel \/ CancelFails \/ LeavePage \/ EnterPage
  <2>1. PageTyped'
    BY <1>11 DEF ClickCancel, CancelFails, LeavePage, EnterPage, Typed, PageTyped, RunRecords
  <2>. QED
    BY <1>0, <1>11, <2>1 DEF ClickCancel, CancelFails, LeavePage, EnterPage, Typed, JobsTyped, ReqTyped, jobVars
<1>12. CASE UNCHANGED vars
  BY <1>1, <1>12 DEF vars, pageVars
<1>. QED
  BY <1>2, <1>3, <1>4, <1>5, <1>6, <1>7, <1>8, <1>9, <1>10, <1>11, <1>12 DEF Next

LEMMA TypedAlways == Spec => []Typed
<1>. QED
  BY InitTyped, NextTyped, PTL DEF Spec

\* All variables of the page, its requests and the jobs keep their types.
THEOREM TypeCorrect == Spec => []TypeOK
<1>. QED
  BY TypedAlways, TypedIsTypeOK, PTL

-----------------------------------------------------------------------------
(* A run that is shown as running is polled: inductive as it stands. *)

LEMMA PolledStep == Typed /\ RunningIsPolled /\ [Next]_vars => RunningIsPolled'
<1>. SUFFICES ASSUME Typed, RunningIsPolled, [Next]_vars PROVE RunningIsPolled'
  OBVIOUS
<1>0. run \in RunRecords
  BY DEF Typed, PageTyped
<1>1. CASE UNCHANGED <<run, timer, onPage>>
  BY <1>1 DEF RunningIsPolled
<1>2. ASSUME NEW j \in Jobs, JobPrints(j) \/ JobSettles(j) \/ JobEnds(j) \/ StartHandler(j)
      PROVE  UNCHANGED <<run, timer, onPage>>
  BY <1>2 DEF JobPrints, JobSettles, JobEnds, StartHandler, pageVars
<1>3. ASSUME NEW q \in Reqs, Endpoint(q) \/ PollTick(q) PROVE UNCHANGED <<run, timer, onPage>>
  BY <1>3 DEF Endpoint, StatusLogs, StatusVerdict, StatusFinished, PollTick, pageVars
<1>4. ASSUME NEW q \in Reqs, Answered(q) PROVE RunningIsPolled'
  <2>. DEFINE status == req[q].status
              size == req[q].size
  <2>1. onPage' = onPage /\ timer' = (timer /\ ~req[q].finished)
    BY <1>4 DEF Answered
  <2>2. CASE req[q].finished
    <3>1. run' = [run EXCEPT !.status = status, !.offset = size, !.running = FALSE,
                             !.cancelling = FALSE, !.finished = TRUE]
      BY <1>4, <2>2 DEF Answered
    <3>. HIDE DEF status, size
    <3>2. ~run'.running
      BY <1>0, <3>1 DEF RunRecords
    <3>. QED
      BY <3>2 DEF RunningIsPolled
  <2>3. CASE ~req[q].finished
    <3>1. run' = [run EXCEPT !.status = status, !.offset = size]
      BY <1>4, <2>3 DEF Answered
    <3>. HIDE DEF status, size
    <3>2. run'.running = run.running /\ run'.job = run.job
      BY <1>0, <3>1 DEF RunRecords
    <3>. QED
      BY <2>1, <2>3, <3>2 DEF RunningIsPolled
  <2>. QED
    BY <2>2, <2>3
<1>5. ASSUME NEW q \in Reqs, PollFails(q) PROVE RunningIsPolled'
  BY <1>0, <1>5 DEF PollFails, RunRecords, RunningIsPolled
<1>6. CASE ServerRestarts
  BY <1>1, <1>6 DEF ServerRestarts, pageVars
<1>7. CASE ClickRun
  BY <1>7 DEF ClickRun, RunningIsPolled
<1>8. CASE RunStarted \/ LeavePage
  BY <1>8 DEF RunStarted, LeavePage, RunningIsPolled
<1>9. CASE RunNotStarted
  BY <1>0, <1>9 DEF RunNotStarted, RunRecords, RunningIsPolled
<1>10. CASE ClickCancel \/ CancelFails
  BY <1>0, <1>10 DEF ClickCancel, CancelFails, RunRecords, RunningIsPolled
<1>11. CASE EnterPage
  BY <1>11 DEF EnterPage, RunningIsPolled
<1>12. CASE UNCHANGED vars
  BY <1>1, <1>12 DEF vars, pageVars
<1>. QED
  BY <1>1, <1>2, <1>3, <1>4, <1>5, <1>6, <1>7, <1>8, <1>9, <1>10, <1>11, <1>12 DEF Next

\* A run the page shows as running is being polled, however many requests are
\* in flight and whatever comes back: the page never waits for nothing.
THEOREM RunningIsPolledAlways == Spec => []RunningIsPolled
<1>1. Init => RunningIsPolled
  <2>. SUFFICES ASSUME Init PROVE ~run.running
    BY DEF RunningIsPolled
  <2>. QED
    BY DEF Init
<1>. QED
  BY <1>1, TypedAlways, PolledStep, PTL DEF Spec

-----------------------------------------------------------------------------
(* The log on the page, while one status request at a time is in flight.   *)
(* With two the offset of a late answer is stale, and none of this holds.  *)

Below(s, n) == \A i \in DOMAIN s : s[i][2] <= n
Gapless(s) == \A i \in DOMAIN s : s[i][2] = i
LinesOf(s, j) ==
  /\ \A i \in DOMAIN s : s[i][1] = j
  /\ \A i, k \in DOMAIN s : i < k => s[i][2] < s[k][2]

\* From the click to its answer a run has no job; without a job it has no log,
\* and with one the timer only runs while the run does.
PageInv ==
  /\ post.at # "none" => run.running /\ ~run.finished /\ run.job = NoJob
  /\ post.at = "answered" => post.job \in Jobs
  /\ run.job = NoJob => shown = <<>> /\ run.offset = 0 /\ ~run.finished
  /\ timer /\ run.job # NoJob => run.running
  /\ run.finished => run.job \in settled

\* The lines on the page precede the one the offset stands for, and are all of
\* those while nothing has been cut.
ShownInv ==
  run.job # NoJob =>
    /\ run.offset <= kept[run.job]
    /\ Below(shown, lines[run.job] - kept[run.job] + run.offset)
    /\ lines[run.job] <= MaxLogLines => Len(shown) = run.offset /\ Gapless(shown)

\* A request in flight is of the run on the page and from its offset, and the
\* list it has read is one the job had.
Current(r) ==
  /\ r.at # "idle" => run.running /\ run.job # NoJob /\ post.at = "none"
  /\ r.at \notin {"idle", "unknown"} => r.job = run.job /\ r.since = run.offset
  /\ r.at \in {"logs", "status", "answered"} =>
       /\ r.size = Cut(r.total) /\ r.since <= r.size /\ r.total <= lines[r.job]
       /\ Below(shown, r.total - r.size + r.since)
  /\ r.at = "answered" /\ r.finished => r.job \in settled

SoloInv == PageInv /\ ShownInv /\ LogInOrder /\ Current(req[1])

LEMMA SoloReqs == MaxInFlight = 1 => Reqs = {1}
BY DEF Reqs

LEMMA FirstReq == 1 \in Reqs
BY PollerAssumption DEF Reqs

LEMMA KeptIs ==
  ASSUME JobsTyped, NEW j \in Jobs
  PROVE  lines[j] \in 0..MaxPrinted /\ kept[j] = Cut(lines[j]) /\ kept[j] \in 0..MaxLogLines
BY CutIs DEF JobsTyped

\* The more lines, the more of them cut off and the more kept.
LEMMA CutMonotone ==
  ASSUME NEW m \in 0..MaxPrinted, NEW n \in 0..MaxPrinted, m <= n
  PROVE  Cut(m) <= Cut(n) /\ m - Cut(m) <= n - Cut(n)
BY PollerAssumption DEF Cut

LEMMA BelowMore ==
  ASSUME NEW s \in Seq(LogLines), NEW m \in Int, NEW n \in Int, m <= n, Below(s, m)
  PROVE  Below(s, n)
<1>. SUFFICES ASSUME NEW i \in DOMAIN s PROVE s[i][2] <= n
  BY DEF Below
<1>1. s[i] \in LogLines /\ s[i][2] <= m
  BY DEF Below
<1>2. s[i][2] \in 1..MaxPrinted
  BY <1>1 DEF LogLines
<1>3. s[i][2] \in Int
  BY <1>2, PollerAssumption
<1>. QED
  BY <1>1, <1>3

\* What an answer adds carries on where the page's log stopped.
LEMMA ChunkContinues ==
  ASSUME NEW s \in Seq(LogLines), NEW r \in Requests, r.job \in Jobs,
         r.size <= r.total, r.since <= r.size,
         LinesOf(s, r.job), Below(s, r.total - r.size + r.since)
  PROVE  /\ LinesOf(s \o Chunk(r), r.job)
         /\ Below(s \o Chunk(r), r.total)
         /\ Len(s \o Chunk(r)) = Len(s) + r.size - r.since
         /\ Gapless(s) /\ Len(s) = r.since /\ r.total = r.size => Gapless(s \o Chunk(r))
<1>. DEFINE c == Chunk(r)
            t == s \o c
            base == r.total - r.size + r.since
            n == r.size - r.since
<1>0. r.since \in 0..MaxLogLines /\ r.size \in 0..MaxLogLines /\ r.total \in 0..MaxPrinted
  BY DEF Requests
<1>1. r.since \in Nat /\ r.size \in Nat /\ r.total \in Nat /\ base \in Nat /\ n \in Nat /\ base + n = r.total
  BY <1>0, PollerAssumption
<1>2. c \in Seq(LogLines) /\ Len(s) \in Nat
  BY ChunkTyped
<1>3. Len(c) = n /\ \A i \in 1..n : c[i] = <<r.job, base + i>>
  <2>1. (IF r.since < r.size THEN r.size - r.since ELSE 0) = n
    BY <1>1
  <2>2. c = [i \in 1..n |-> <<r.job, base + i>>]
    BY <2>1 DEF Chunk
  <2>. HIDE DEF c, n, base
  <2>. QED
    BY <1>1, <1>2, <2>2
<1>. HIDE DEF c, n, base
<1>4. t \in Seq(LogLines) /\ Len(t) = Len(s) + n /\ DOMAIN t = 1..(Len(s) + n)
      /\ (\A i \in 1..Len(s) : t[i] = s[i])
      /\ (\A i \in 1..n : t[Len(s) + i] = c[i])
  <2>1. /\ t \in Seq(LogLines) /\ Len(t) = Len(s) + n
        /\ \A i \in 1..(Len(s) + n) : t[i] = IF i <= Len(s) THEN s[i] ELSE c[i - Len(s)]
    BY <1>2, <1>3, ConcatProperties
  <2>. HIDE DEF t
  <2>2. DOMAIN t = 1..(Len(s) + n)
    BY <2>1
  <2>3. \A i \in 1..Len(s) : t[i] = s[i]
    BY <1>1, <1>2, <2>1
  <2>4. \A i \in 1..n : t[Len(s) + i] = c[i]
    <3>. TAKE i \in 1..n
    <3>1. Len(s) + i \in 1..(Len(s) + n) /\ ~(Len(s) + i <= Len(s)) /\ (Len(s) + i) - Len(s) = i
      BY <1>1, <1>2
    <3>. QED
      BY <2>1, <3>1
  <2>. QED
    BY <2>1, <2>2, <2>3, <2>4
<1>5. \A i \in 1..Len(s) : t[i][1] = r.job /\ t[i][2] <= base /\ t[i][2] \in Nat
  <2>. TAKE i \in 1..Len(s)
  <2>1. t[i] = s[i] /\ s[i] \in LogLines /\ s[i][1] = r.job /\ s[i][2] <= base
    BY <1>4 DEF LinesOf, Below, base
  <2>2. s[i][2] \in 1..MaxPrinted
    BY <2>1 DEF LogLines
  <2>. QED
    BY <2>1, <2>2, PollerAssumption
<1>6. \A i \in (Len(s) + 1)..(Len(s) + n) : t[i] = <<r.job, base + (i - Len(s))>>
  <2>. TAKE i \in (Len(s) + 1)..(Len(s) + n)
  <2>1. i - Len(s) \in 1..n /\ i = Len(s) + (i - Len(s))
    BY <1>1, <1>2
  <2>. QED
    BY <1>3, <1>4, <2>1
<1>. HIDE DEF t
<1>7. \A i \in DOMAIN t : t[i][1] = r.job
  <2>. TAKE i \in DOMAIN t
  <2>1. i \in 1..Len(s) \/ i \in (Len(s) + 1)..(Len(s) + n)
    BY <1>1, <1>2, <1>4
  <2>. QED
    BY <1>5, <1>6, <2>1
<1>8. \A i, k \in DOMAIN t : i < k => t[i][2] < t[k][2]
  <2>. SUFFICES ASSUME NEW i \in DOMAIN t, NEW k \in DOMAIN t, i < k PROVE t[i][2] < t[k][2]
    OBVIOUS
  <2>0. i \in Nat /\ k \in Nat
    BY <1>1, <1>2, <1>4
  <2>1. CASE k \in 1..Len(s)
    <3>1. i \in 1..Len(s)
      BY <1>1, <1>2, <1>4, <2>0, <2>1
    <3>2. t[i] = s[i] /\ t[k] = s[k] /\ s[i][2] < s[k][2]
      BY <1>4, <2>1, <3>1 DEF t, LinesOf
    <3>. QED
      BY <3>2
  <2>2. CASE k \in (Len(s) + 1)..(Len(s) + n)
    <3>1. t[k][2] = base + (k - Len(s))
      BY <1>6, <2>2
    <3>2. CASE i \in 1..Len(s)
      BY <1>1, <1>2, <1>5, <2>0, <2>2, <3>1, <3>2
    <3>3. CASE i \in (Len(s) + 1)..(Len(s) + n)
      <4>1. t[i][2] = base + (i - Len(s))
        BY <1>6, <3>3
      <4>. QED
        BY <1>1, <1>2, <2>0, <3>1, <4>1
    <3>. QED
      BY <1>1, <1>2, <1>4, <2>0, <3>2, <3>3
  <2>. QED
    BY <1>1, <1>2, <1>4, <2>1, <2>2
<1>9. Below(t, r.total)
  <2>. SUFFICES ASSUME NEW i \in DOMAIN t PROVE t[i][2] <= r.total
    BY DEF Below
  <2>1. CASE i \in 1..Len(s)
    BY <1>1, <1>5, <2>1
  <2>2. CASE i \in (Len(s) + 1)..(Len(s) + n)
    <3>1. t[i][2] = base + (i - Len(s))
      BY <1>6, <2>2
    <3>. QED
      BY <1>1, <1>2, <2>2, <3>1
  <2>. QED
    BY <1>1, <1>2, <1>4, <2>1, <2>2
<1>10. ASSUME Gapless(s), Len(s) = r.since, r.total = r.size PROVE Gapless(t)
  <2>. SUFFICES ASSUME NEW i \in DOMAIN t PROVE t[i][2] = i
    BY DEF Gapless
  <2>1. CASE i \in 1..Len(s)
    <3>1. t[i] = s[i] /\ s[i][2] = i
      BY <1>4, <1>10, <2>1 DEF t, Gapless
    <3>. QED
      BY <3>1
  <2>2. CASE i \in (Len(s) + 1)..(Len(s) + n)
    <3>1. t[i][2] = base + (i - Len(s))
      BY <1>6, <2>2
    <3>2. base = Len(s)
      BY <1>1, <1>10 DEF base
    <3>. QED
      BY <1>1, <1>2, <2>2, <3>1, <3>2
  <2>. QED
    BY <1>1, <1>2, <1>4, <2>1, <2>2
<1>11. Len(t) = Len(s) + r.size - r.since
  BY <1>1, <1>2, <1>4 DEF n, t
<1>. QED
  BY <1>7, <1>8, <1>9, <1>10, <1>11 DEF LinesOf, t, c

\* Jobs print, settle and end while the page and its request stay as they are.
LEMMA LinesGrow ==
  ASSUME Typed, JobsTyped', SoloInv, \A j \in Jobs : lines[j] <= lines'[j],
         settled \subseteq settled', UNCHANGED <<run, shown, timer, post, req>>
  PROVE  SoloInv'
<1>0. run \in RunRecords /\ JobsTyped /\ shown \in Seq(LogLines)
  BY DEF Typed, PageTyped
<1>1. ASSUME NEW j \in Jobs
      PROVE  /\ lines[j] \in 0..MaxPrinted /\ lines'[j] \in 0..MaxPrinted /\ lines[j] <= lines'[j]
             /\ kept[j] = Cut(lines[j]) /\ kept'[j] = Cut(lines'[j])
  BY <1>0 DEF JobsTyped
<1>2. PageInv'
  BY DEF SoloInv, PageInv
<1>3. ShownInv'
  <2>. SUFFICES ASSUME run.job # NoJob
                PROVE  /\ run.offset <= kept'[run.job]
                       /\ Below(shown, lines'[run.job] - kept'[run.job] + run.offset)
                       /\ lines'[run.job] <= MaxLogLines => Len(shown) = run.offset /\ Gapless(shown)
    BY DEF ShownInv, Below, Gapless
  <2>. DEFINE m == lines[run.job]
              n == lines'[run.job]
              o == run.offset
  <2>1. run.job \in Jobs /\ o \in 0..MaxLogLines
    BY <1>0 DEF RunRecords
  <2>2. /\ m \in 0..MaxPrinted /\ n \in 0..MaxPrinted /\ m <= n
        /\ kept[run.job] = Cut(m) /\ kept'[run.job] = Cut(n)
    BY <1>1, <2>1
  <2>3. /\ o <= Cut(m) /\ Below(shown, m - Cut(m) + o)
        /\ m <= MaxLogLines => Len(shown) = o /\ Gapless(shown)
    BY <2>2 DEF SoloInv, ShownInv
  <2>. HIDE DEF m, n, o
  <2>4. /\ Cut(m) <= Cut(n) /\ m - Cut(m) <= n - Cut(n)
        /\ Cut(m) \in 0..MaxLogLines /\ Cut(n) \in 0..MaxLogLines
    BY <2>2, CutMonotone, CutIs
  <2>5. o <= Cut(n) /\ (n <= MaxLogLines => m <= MaxLogLines)
    BY <2>1, <2>2, <2>3, <2>4, PollerAssumption
  <2>6. /\ m - Cut(m) + o \in Int /\ n - Cut(n) + o \in Int
        /\ m - Cut(m) + o <= n - Cut(n) + o
    BY <2>1, <2>2, <2>4, PollerAssumption
  <2>7. Below(shown, n - Cut(n) + o)
    BY <1>0, <2>3, <2>6, BelowMore
  <2>. QED
    BY <2>2, <2>3, <2>5, <2>7 DEF n, o
<1>4. LogInOrder'
  BY DEF SoloInv, LogInOrder
<1>5. Current(req[1])'
  <2>1. Current(req[1])
    BY DEF SoloInv
  <2>2. ASSUME req[1].at \in {"logs", "status", "answered"} PROVE req[1].total <= lines'[req[1].job]
    <3>1. req[1].job = run.job /\ run.job # NoJob /\ req[1].total <= lines[req[1].job]
      BY <2>1, <2>2 DEF Current
    <3>2. req[1].job \in Jobs
      BY <1>0, <3>1 DEF RunRecords
    <3>3. req[1].size = Cut(req[1].total) /\ req[1].total <= lines[req[1].job]
      BY <2>1, <2>2 DEF Current
    <3>. DEFINE t == req[1].total
                j == req[1].job
    <3>4. t \in 0..MaxPrinted
      BY FirstReq DEF Typed, ReqTyped, Requests
    <3>5. t <= lines[j] /\ lines[j] <= lines'[j] /\ lines[j] \in 0..MaxPrinted /\ lines'[j] \in 0..MaxPrinted
      BY <1>1, <3>2, <3>3
    <3>. HIDE DEF t, j
    <3>6. t <= lines'[j]
      BY <3>4, <3>5, PollerAssumption
    <3>. QED
      BY <3>6 DEF t, j
  <2>. QED
    BY <2>1, <2>2 DEF Current, Below
<1>. QED
  BY <1>2, <1>3, <1>4, <1>5 DEF SoloInv

\* The page changes nothing its log or its request depends on.
LEMMA SameView ==
  ASSUME SoloInv, UNCHANGED <<lines, kept, settled, post, req, shown>>,
         run'.job = run.job, run'.offset = run.offset,
         run'.running = run.running, run'.finished = run.finished,
         timer' /\ run.job # NoJob => run.running
  PROVE  SoloInv'
<1>1. PageInv'
  BY DEF SoloInv, PageInv
<1>2. ShownInv'
  BY DEF SoloInv, ShownInv, Below, Gapless
<1>3. LogInOrder'
  BY DEF SoloInv, LogInOrder
<1>4. Current(req[1])'
  BY DEF SoloInv, Current, Below
<1>. QED
  BY <1>1, <1>2, <1>3, <1>4 DEF SoloInv

\* Only the request is another.
LEMMA RequestOnly ==
  ASSUME SoloInv, UNCHANGED <<lines, kept, settled, post, run, timer, shown>>, Current(req'[1])
  PROVE  SoloInv'
<1>1. PageInv'
  BY DEF SoloInv, PageInv
<1>2. ShownInv'
  BY DEF SoloInv, ShownInv, Below, Gapless
<1>3. LogInOrder'
  BY DEF SoloInv, LogInOrder
<1>4. Current(req[1])'
  BY DEF Current, Below
<1>. QED
  BY <1>1, <1>2, <1>3, <1>4 DEF SoloInv

\* The endpoint reads a list that is longer than what the page has.
LEMMA EndpointSolo ==
  ASSUME Typed, SoloInv, Endpoint(1)
  PROVE  SoloInv'
<1>. DEFINE r == req[1]
            j == r.job
<1>0. /\ JobsTyped /\ run \in RunRecords /\ shown \in Seq(LogLines)
      /\ req \in [Reqs -> Requests] /\ 1 \in Reqs /\ r \in Requests /\ Current(r)
  BY FirstReq DEF Typed, PageTyped, ReqTyped, SoloInv
<1>1. UNCHANGED <<lines, kept, settled, post, run, timer, shown>>
  BY DEF Endpoint, StatusLogs, StatusVerdict, StatusFinished, regVars, jobVars, pageVars
<1>2. /\ r.at \in {"sent", "logs", "status"} /\ j = run.job /\ r.since = run.offset
      /\ run.running /\ run.job # NoJob /\ post.at = "none"
  BY <1>0 DEF Endpoint, StatusLogs, StatusVerdict, StatusFinished, Current
<1>3. j \in Jobs /\ r.since \in 0..MaxLogLines
  BY <1>0, <1>2 DEF RunRecords, Requests
<1>4. CASE StatusLogs(1)
  <2>1. CASE req' = [req EXCEPT ![1] = Unknown]
    <3>1. req'[1] = Unknown
      BY <1>0, <2>1
    <3>2. Current(Unknown)
      BY <1>2, IdleTyped DEF Current
    <3>. QED
      BY <1>1, <3>1, <3>2, RequestOnly
  <2>2. CASE req' = [req EXCEPT ![1] = [r EXCEPT !.at = "logs", !.total = lines[j], !.size = kept[j]]]
    <3>. DEFINE m == lines[j]
                k == kept[j]
                s == [r EXCEPT !.at = "logs", !.total = m, !.size = k]
    <3>1. m \in 0..MaxPrinted /\ k = Cut(m) /\ k \in 0..MaxLogLines
      BY <1>0, <1>3, KeptIs
    <3>2. r.since <= k /\ Below(shown, m - k + r.since)
      BY <1>2 DEF SoloInv, ShownInv
    <3>3. req'[1] = s
      BY <1>0, <2>2
    <3>. HIDE DEF m, k
    <3>4. s.at = "logs" /\ s.job = j /\ s.total = m /\ s.size = k /\ s.since = r.since
      BY <1>0 DEF Requests
    <3>5. m <= m
      BY <3>1, PollerAssumption
    <3>. HIDE DEF s
    <3>6. Current(s)
      BY <1>2, <3>1, <3>2, <3>4, <3>5 DEF Current, m
    <3>. QED
      BY <1>1, <3>3, <3>6, RequestOnly
  <2>. QED
    BY <1>4, <2>1, <2>2 DEF StatusLogs
<1>5. CASE StatusVerdict(1)
  <2>. DEFINE v == verdict[j]
              s == [r EXCEPT !.at = "status", !.status = v]
  <2>1. req'[1] = s /\ r.at = "logs"
    BY <1>0, <1>5 DEF StatusVerdict
  <2>. HIDE DEF v
  <2>2. /\ s.at = "status" /\ s.job = r.job /\ s.total = r.total /\ s.size = r.size
        /\ s.since = r.since
    BY <1>0 DEF Requests
  <2>. HIDE DEF s
  <2>3. Current(s)
    BY <1>0, <1>2, <2>1, <2>2 DEF Current
  <2>. QED
    BY <1>1, <2>1, <2>3, RequestOnly
<1>6. CASE StatusFinished(1)
  <2>. DEFINE over == (j \in settled)
              s == [r EXCEPT !.at = "answered", !.finished = over]
  <2>1. req'[1] = s /\ r.at = "status"
    BY <1>0, <1>6 DEF StatusFinished
  <2>a. over => j \in settled
    OBVIOUS
  <2>. HIDE DEF over
  <2>2. /\ s.at = "answered" /\ s.job = r.job /\ s.total = r.total /\ s.size = r.size
        /\ s.since = r.since /\ s.finished = over
    BY <1>0 DEF Requests
  <2>. HIDE DEF s
  <2>3. Current(s)
    BY <1>0, <1>2, <2>1, <2>2, <2>a DEF Current
  <2>. QED
    BY <1>1, <2>1, <2>3, RequestOnly
<1>. QED
  BY <1>4, <1>5, <1>6 DEF Endpoint

\* A request is sent for the run on the page.
LEMMA PollSolo ==
  ASSUME Typed, SoloInv, PollTick(1)
  PROVE  SoloInv'
<1>. DEFINE j == run.job
            o == run.offset
            s == [Idle EXCEPT !.at = "sent", !.job = j, !.since = o]
<1>0. req \in [Reqs -> Requests] /\ 1 \in Reqs
  BY FirstReq DEF Typed, ReqTyped
<1>1. UNCHANGED <<lines, kept, settled, post, run, timer, shown>>
  BY DEF PollTick, regVars, jobVars, pageVars
<1>2. req'[1] = s /\ run.running /\ run.job # NoJob /\ post.at = "none"
  BY <1>0 DEF PollTick, SoloInv, PageInv
<1>. HIDE DEF j, o
<1>3. s.at = "sent" /\ s.job = j /\ s.since = o
  BY DEF Idle
<1>. HIDE DEF s
<1>4. Current(s)
  BY <1>2, <1>3 DEF Current, j, o
<1>. QED
  BY <1>1, <1>2, <1>4, RequestOnly

\* With the server its answer is lost.
LEMMA RestartSolo ==
  ASSUME Typed, SoloInv, ServerRestarts
  PROVE  SoloInv'
<1>0. req \in [Reqs -> Requests] /\ 1 \in Reqs /\ Current(req[1])
  BY FirstReq DEF Typed, ReqTyped, SoloInv
<1>1. UNCHANGED <<lines, kept, settled, post, run, timer, shown>>
  BY DEF ServerRestarts, Restart, jobVars, pageVars
<1>2. CASE req[1].at \in {"idle", "unknown"}
  <2>1. req'[1] = req[1]
    BY <1>0, <1>2 DEF ServerRestarts
  <2>. QED
    BY <1>0, <1>1, <2>1, RequestOnly
<1>3. CASE req[1].at \notin {"idle", "unknown"}
  <2>1. req'[1] = Unknown
    BY <1>0, <1>3 DEF ServerRestarts
  <2>2. Current(Unknown)
    BY <1>0, <1>3, IdleTyped DEF Current
  <2>. QED
    BY <1>1, <2>1, <2>2, RequestOnly
<1>. QED
  BY <1>2, <1>3

\* While there is no request nothing is asked of one, and an empty log is in
\* order for any job.
LEMMA NoRequest == ASSUME req'[1].at = "idle" PROVE Current(req[1])'
BY DEF Current

LEMMA EmptyLog ==
  ASSUME shown' = <<>>, run'.offset = 0, JobsTyped', run'.job \in Jobs \cup {NoJob}
  PROVE  ShownInv' /\ LogInOrder'
<1>1. LogInOrder'
  BY DEF LogInOrder
<1>2. ShownInv'
  <2>. SUFFICES ASSUME run'.job # NoJob
                PROVE  /\ 0 <= kept'[run'.job]
                       /\ Below(<<>>, lines'[run'.job] - kept'[run'.job] + run'.offset)
                       /\ Len(<<>>) = 0 /\ Gapless(<<>>)
    BY DEF ShownInv, Below, Gapless
  <2>. DEFINE n == lines'[run'.job]
  <2>1. kept'[run'.job] = Cut(n) /\ n \in 0..MaxPrinted
    BY DEF JobsTyped
  <2>. HIDE DEF n
  <2>2. Cut(n) \in 0..MaxLogLines
    BY <2>1, CutIs
  <2>3. 0 <= Cut(n)
    BY <2>2, PollerAssumption
  <2>. QED
    BY <2>1, <2>3 DEF Below, Gapless
<1>. QED
  BY <1>1, <1>2

LEMMA StartSolo ==
  ASSUME Typed, JobsTyped', SoloInv, NEW j \in Jobs, StartHandler(j)
  PROVE  SoloInv'
<1>1. /\ UNCHANGED <<lines, kept, settled, run, timer, shown, req>>
      /\ post.at = "sent" /\ post'.at = "answered" /\ post'.job = j
  BY DEF StartHandler, StartJob, jobVars, pageVars
<1>2. PageInv'
  BY <1>1 DEF SoloInv, PageInv
<1>3. ShownInv' /\ LogInOrder'
  BY <1>1 DEF SoloInv, ShownInv, LogInOrder, Below, Gapless
<1>4. Current(req[1])'
  BY <1>1 DEF SoloInv, Current
<1>. QED
  BY <1>2, <1>3, <1>4 DEF SoloInv

LEMMA ClickSolo ==
  ASSUME Typed, JobsTyped', SoloInv, ClickRun
  PROVE  SoloInv'
<1>1. /\ UNCHANGED <<lines, kept, settled, req, timer>> /\ ~run.running
      /\ shown' = <<>> /\ post'.at = "sent"
      /\ run'.job = NoJob /\ run'.offset = 0 /\ run'.running /\ ~run'.finished
  BY DEF ClickRun, regVars, jobVars
<1>2. PageInv'
  BY <1>1 DEF PageInv
<1>3. ShownInv' /\ LogInOrder'
  BY <1>1, EmptyLog
<1>4. Current(req[1])'
  BY <1>1, NoRequest DEF SoloInv, Current
<1>. QED
  BY <1>2, <1>3, <1>4 DEF SoloInv

LEMMA StartedSolo ==
  ASSUME Typed, JobsTyped', SoloInv, RunStarted
  PROVE  SoloInv'
<1>. DEFINE j == post.job
<1>0. run \in RunRecords
  BY DEF Typed, PageTyped
<1>1. /\ UNCHANGED <<lines, kept, settled, req, shown>> /\ timer'
      /\ post.at = "answered" /\ post'.at = "none"
      /\ run' = [run EXCEPT !.job = j]
  BY DEF RunStarted, regVars, jobVars
<1>2. /\ j \in Jobs /\ run.job = NoJob /\ shown = <<>> /\ run.offset = 0
      /\ run.running /\ ~run.finished /\ req[1].at = "idle"
  BY <1>1 DEF SoloInv, PageInv, Current
<1>. HIDE DEF j
<1>3. /\ run'.job = j /\ run'.offset = run.offset
      /\ run'.running = run.running /\ run'.finished = run.finished
  BY <1>0, <1>1 DEF RunRecords
<1>4. PageInv'
  BY <1>1, <1>2, <1>3, PollerAssumption DEF PageInv
<1>5. ShownInv' /\ LogInOrder'
  BY <1>1, <1>2, <1>3, EmptyLog
<1>6. Current(req[1])'
  BY <1>1, <1>2, NoRequest
<1>. QED
  BY <1>4, <1>5, <1>6 DEF SoloInv

LEMMA NotStartedSolo ==
  ASSUME Typed, JobsTyped', SoloInv, RunNotStarted
  PROVE  SoloInv'
<1>0. run \in RunRecords
  BY DEF Typed, PageTyped
<1>1. /\ UNCHANGED <<lines, kept, settled, req, shown, timer>>
      /\ post.at # "none" /\ post'.at = "none"
      /\ run' = [run EXCEPT !.running = FALSE, !.status = "error"]
  BY DEF RunNotStarted, regVars, jobVars
<1>2. /\ run.job = NoJob /\ shown = <<>> /\ run.offset = 0
      /\ ~run.finished /\ req[1].at = "idle"
  BY <1>1 DEF SoloInv, PageInv, Current
<1>3. run'.job = run.job /\ run'.offset = run.offset /\ run'.finished = run.finished
  BY <1>0, <1>1 DEF RunRecords
<1>4. PageInv'
  BY <1>1, <1>2, <1>3 DEF PageInv
<1>5. ShownInv' /\ LogInOrder'
  BY <1>1, <1>2, <1>3, EmptyLog
<1>6. Current(req[1])'
  BY <1>1, <1>2, NoRequest
<1>. QED
  BY <1>4, <1>5, <1>6 DEF SoloInv

LEMMA FailsSolo ==
  ASSUME Typed, SoloInv, PollFails(1)
  PROVE  SoloInv'
<1>0. run \in RunRecords /\ req \in [Reqs -> Requests] /\ 1 \in Reqs
  BY FirstReq DEF Typed, PageTyped, ReqTyped
<1>1. /\ UNCHANGED <<lines, kept, settled, post, shown>> /\ ~timer'
      /\ run' = [run EXCEPT !.running = FALSE, !.cancelling = FALSE, !.status = "error"]
      /\ req'[1] = Idle /\ req[1].at # "idle"
  BY <1>0 DEF PollFails, regVars, jobVars
<1>2. run'.job = run.job /\ run'.offset = run.offset /\ run'.finished = run.finished
  BY <1>0, <1>1 DEF RunRecords
<1>3. PageInv'
  BY <1>1, <1>2 DEF SoloInv, PageInv, Current
<1>4. ShownInv' /\ LogInOrder'
  BY <1>1, <1>2 DEF SoloInv, ShownInv, LogInOrder, Below, Gapless
<1>5. Current(req[1])'
  BY <1>1, IdleTyped, NoRequest
<1>. QED
  BY <1>3, <1>4, <1>5 DEF SoloInv

\* The answer carries on where the log stopped, and moves the offset along.
LEMMA AnsweredSolo ==
  ASSUME Typed, SoloInv, Answered(1)
  PROVE  SoloInv'
<1>. DEFINE r == req[1]
            size == r.size
            status == r.status
            j == run.job
            n == lines[j]
<1>0. /\ run \in RunRecords /\ req \in [Reqs -> Requests] /\ 1 \in Reqs
      /\ r \in Requests /\ Current(r) /\ JobsTyped /\ shown \in Seq(LogLines)
  BY FirstReq DEF Typed, PageTyped, ReqTyped, SoloInv
<1>1. /\ UNCHANGED <<lines, kept, settled, post>> /\ timer' = (timer /\ ~r.finished)
      /\ shown' = shown \o Chunk(r) /\ req'[1] = Idle /\ r.at = "answered"
  BY <1>0 DEF Answered, regVars, jobVars
<1>2. /\ run.running /\ j # NoJob /\ post.at = "none" /\ r.job = j /\ r.since = run.offset
      /\ size = Cut(r.total) /\ r.since <= size /\ r.total <= n
      /\ Below(shown, r.total - size + r.since)
      /\ r.finished => j \in settled
  BY <1>0, <1>1 DEF Current
<1>3. /\ j \in Jobs /\ r.total \in 0..MaxPrinted /\ size \in 0..MaxLogLines
      /\ r.since \in 0..MaxLogLines
  BY <1>0, <1>2 DEF RunRecords, Requests
<1>4. n \in 0..MaxPrinted /\ kept[j] = Cut(n) /\ Cut(n) \in 0..MaxLogLines
  BY <1>0, <1>3, KeptIs
<1>5. size <= r.total /\ size <= Cut(n) /\ r.total <= n - Cut(n) + size
  <2>. DEFINE t == r.total
  <2>1. t \in 0..MaxPrinted /\ size = Cut(t) /\ t <= n
    BY <1>2, <1>3
  <2>. HIDE DEF t, size, n
  <2>2. Cut(t) <= t /\ Cut(t) <= Cut(n) /\ t - Cut(t) <= n - Cut(n)
    BY <1>4, <2>1, CutIs, CutMonotone
  <2>3. size <= t /\ size <= Cut(n) /\ t <= n - Cut(n) + size
    BY <1>3, <1>4, <2>1, <2>2, PollerAssumption
  <2>. QED
    BY <2>3 DEF t
<1>6. /\ run'.job = j /\ run'.offset = size
      /\ IF r.finished THEN ~run'.running /\ run'.finished
         ELSE run'.running = run.running /\ run'.finished = run.finished
  <2>1. CASE r.finished
    <3>1. run' = [run EXCEPT !.status = status, !.offset = size, !.running = FALSE,
                             !.cancelling = FALSE, !.finished = TRUE]
      BY <2>1 DEF Answered
    <3>. HIDE DEF status, size
    <3>. QED
      BY <1>0, <2>1, <3>1 DEF RunRecords
  <2>2. CASE ~r.finished
    <3>1. run' = [run EXCEPT !.status = status, !.offset = size]
      BY <2>2 DEF Answered
    <3>. HIDE DEF status, size
    <3>. QED
      BY <1>0, <2>2, <3>1 DEF RunRecords
  <2>. QED
    BY <2>1, <2>2
<1>7. PageInv'
  BY <1>1, <1>2, <1>6 DEF SoloInv, PageInv
<1>8. LinesOf(shown, r.job)
  BY <1>2 DEF SoloInv, LogInOrder, LinesOf
<1>9. /\ LinesOf(shown', r.job) /\ Below(shown', r.total)
      /\ Len(shown') = Len(shown) + size - r.since
      /\ Gapless(shown) /\ Len(shown) = r.since /\ r.total = size => Gapless(shown')
  BY <1>0, <1>1, <1>2, <1>3, <1>5, <1>8, ChunkContinues
<1>10. shown' \in Seq(LogLines)
  BY <1>0, <1>1, <1>2, <1>3, <1>5, ChunkTyped, ConcatProperties
<1>11. Below(shown', n - Cut(n) + size)
  <2>. DEFINE t == r.total
              m == n - Cut(n) + size
  <2>1. t \in Int /\ m \in Int /\ t <= m
    BY <1>3, <1>4, <1>5, PollerAssumption
  <2>2. Below(shown', t)
    BY <1>9
  <2>. HIDE DEF t, m
  <2>3. Below(shown', m)
    BY <1>10, <2>1, <2>2, BelowMore
  <2>. QED
    BY <2>3 DEF m
<1>12. ASSUME n <= MaxLogLines PROVE Len(shown') = size /\ Gapless(shown')
  <2>1. r.total <= MaxLogLines
    BY <1>2, <1>3, <1>4, <1>12, PollerAssumption
  <2>2. r.total = size
    BY <1>2, <1>3, <2>1, PollerAssumption DEF Cut
  <2>3. Len(shown) = r.since /\ Gapless(shown)
    BY <1>2, <1>12 DEF SoloInv, ShownInv
  <2>. QED
    BY <1>3, <1>9, <2>2, <2>3, PollerAssumption
<1>13. ShownInv'
  <2>1. kept'[run'.job] = Cut(n) /\ lines'[run'.job] = n /\ run'.offset = size
    BY <1>1, <1>4, <1>6
  <2>. HIDE DEF size, n
  <2>. QED
    BY <1>5, <1>11, <1>12, <2>1 DEF ShownInv, Below, Gapless
<1>14. LogInOrder'
  BY <1>2, <1>6, <1>9 DEF LogInOrder, LinesOf
<1>15. Current(req[1])'
  BY <1>1, IdleTyped, NoRequest
<1>. QED
  BY <1>7, <1>13, <1>14, <1>15 DEF SoloInv

LEMMA SoloInit == Init => SoloInv
<1>. SUFFICES ASSUME Init PROVE SoloInv
  OBVIOUS
<1>1. /\ shown = <<>> /\ post.at = "none" /\ req = [q \in Reqs |-> Idle] /\ settled = {}
      /\ run.job = NoJob /\ run.offset = 0 /\ ~run.finished
  BY DEF Init, RegInit
<1>2. PageInv
  BY <1>1 DEF PageInv
<1>3. ShownInv /\ LogInOrder
  BY <1>1 DEF ShownInv, LogInOrder
<1>4. Current(req[1])
  BY <1>1, FirstReq, IdleTyped DEF Current
<1>. QED
  BY <1>2, <1>3, <1>4 DEF SoloInv

LEMMA SoloStep ==
  ASSUME MaxInFlight = 1
  PROVE  Typed /\ SoloInv /\ [Next]_vars => SoloInv'
<1>. SUFFICES ASSUME Typed, SoloInv, [Next]_vars PROVE SoloInv'
  OBVIOUS
<1>0. JobsTyped' /\ Typed' /\ run \in RunRecords
  BY NextTyped DEF Typed, PageTyped
<1>1. ASSUME UNCHANGED <<lines, run, shown, timer, post, req>>, settled \subseteq settled'
      PROVE  SoloInv'
  <2>1. \A j \in Jobs : lines[j] <= lines'[j]
    <3>. TAKE j \in Jobs
    <3>1. lines[j] \in 0..MaxPrinted
      BY DEF Typed, JobsTyped
    <3>2. lines[j] \in Nat
      BY <3>1, PollerAssumption
    <3>. QED
      BY <1>1, <3>2
  <2>. QED
    BY <1>0, <1>1, <2>1, LinesGrow
<1>2. ASSUME NEW j \in Jobs, JobPrints(j) PROVE SoloInv'
  <2>1. UNCHANGED <<run, shown, timer, post, req>> /\ settled = settled'
    BY <1>2 DEF JobPrints, pageVars, regVars
  <2>2. \A i \in Jobs : lines[i] <= lines'[i]
    <3>. TAKE i \in Jobs
    <3>1. lines \in [Jobs -> 0..MaxPrinted] /\ lines' = [lines EXCEPT ![j] = lines[j] + 1]
      BY <1>2 DEF JobPrints, Typed, JobsTyped
    <3>2. lines[i] \in Nat /\ (lines'[i] = lines[i] \/ lines'[i] = lines[i] + 1)
      BY <3>1, PollerAssumption
    <3>. QED
      BY <3>2
  <2>. QED
    BY <1>0, <2>1, <2>2, LinesGrow
<1>3. ASSUME NEW j \in Jobs, JobSettles(j) \/ JobEnds(j) PROVE SoloInv'
  BY <1>1, <1>3 DEF JobSettles, JobEnds, SettleJob, EndJob, jobVars, pageVars
<1>4. ASSUME NEW j \in Jobs, StartHandler(j) PROVE SoloInv'
  BY <1>0, <1>4, StartSolo
<1>5. ASSUME NEW q \in Reqs, Endpoint(q) \/ PollTick(q) \/ Answered(q) \/ PollFails(q) PROVE SoloInv'
  <2>1. q = 1
    BY SoloReqs
  <2>. QED
    BY <1>5, <2>1, EndpointSolo, PollSolo, AnsweredSolo, FailsSolo
<1>6. CASE ServerRestarts
  BY <1>6, RestartSolo
<1>7. CASE ClickRun \/ RunStarted \/ RunNotStarted
  BY <1>0, <1>7, ClickSolo, StartedSolo, NotStartedSolo
<1>8. CASE ClickCancel \/ CancelFails
  <2>1. /\ UNCHANGED <<lines, kept, settled, post, req, shown, timer>>
        /\ run'.job = run.job /\ run'.offset = run.offset
        /\ run'.running = run.running /\ run'.finished = run.finished
    BY <1>0, <1>8 DEF ClickCancel, CancelFails, RunRecords, regVars, jobVars
  <2>2. timer' /\ run.job # NoJob => run.running
    BY <2>1 DEF SoloInv, PageInv
  <2>. QED
    BY <2>1, <2>2, SameView
<1>9. CASE LeavePage \/ EnterPage
  <2>1. UNCHANGED <<lines, kept, settled, post, req, shown, run>>
    BY <1>9 DEF LeavePage, EnterPage, regVars, jobVars
  <2>2. timer' /\ run.job # NoJob => run.running
    BY <1>9 DEF LeavePage, EnterPage, SoloInv, PageInv
  <2>. QED
    BY <2>1, <2>2, SameView
<1>10. CASE UNCHANGED vars
  BY <1>1, <1>10 DEF vars, regVars, jobVars, pageVars
<1>. QED
  BY <1>2, <1>3, <1>4, <1>5, <1>6, <1>7, <1>8, <1>9, <1>10 DEF Next

LEMMA SoloAlways ==
  ASSUME MaxInFlight = 1
  PROVE  Spec => [](Typed /\ SoloInv)
<1>1. Typed /\ SoloInv /\ [Next]_vars => SoloInv'
  BY SoloStep
<1>. QED
  BY <1>1, SoloInit, TypedAlways, PTL DEF Spec

\* Every line the page shows is one of the job it shows, and none comes twice
\* or out of order, as long as requests do not overlap.
THEOREM LogInOrderAlways ==
  ASSUME MaxInFlight = 1
  PROVE  Spec => []LogInOrder
<1>1. Typed /\ SoloInv => LogInOrder
  BY DEF SoloInv
<1>. QED
  BY <1>1, SoloAlways, PTL

\* While the log of a job has not been cut the page shows it without a gap:
\* however many lines arrive between the polls, no line is skipped.
THEOREM LogWithoutGapAlways ==
  ASSUME MaxInFlight = 1
  PROVE  Spec => []LogWithoutGap
<1>1. Typed /\ SoloInv => LogWithoutGap
  BY DEF SoloInv, ShownInv, Gapless, LogWithoutGap
<1>. QED
  BY <1>1, SoloAlways, PTL

\* The page calls a run finished only when the worker of its job has set
\* "finished", across restarts of the server and new runs of the page.
THEOREM FinishedMeansSettledAlways ==
  ASSUME MaxInFlight = 1
  PROVE  Spec => []FinishedMeansSettled
<1>1. Typed /\ SoloInv => FinishedMeansSettled
  BY DEF SoloInv, PageInv, FinishedMeansSettled
<1>. QED
  BY <1>1, SoloAlways, PTL
=============================================================================
