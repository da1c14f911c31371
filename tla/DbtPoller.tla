------------------------------ MODULE DbtPoller ------------------------------
(***************************************************************************)
(* The DBT Agent page watching local dbt runs: _sfgRun and its poll timer  *)
(* (frontend/src/pages/snowflake-glue-dbt-agent.js), the HTTP requests it  *)
(* sends, and the status endpoint (get_status of dbt_local.py) that        *)
(* answers them from the jobs of DbtRegistry, one read at a time while     *)
(* the worker of the job goes on.                                          *)
(*                                                                         *)
(* A log line is its number. The list of a job holds the last kept[j] of   *)
(* its lines[j] lines, which is what "since" and "logOffset" index.        *)
(***************************************************************************)
EXTENDS DbtRegistry, Sequences

CONSTANTS
  NoJob,        \* _sfgRun.jobId = null
  MaxLogLines,  \* _MAX_LOG_LINES
  MaxPrinted,   \* bound: lines a job prints
  MaxInFlight   \* bound: status requests of the page in flight at once

ASSUME PollerAssumption ==
  /\ NoJob \notin Jobs
  /\ MaxLogLines \in Nat \ {0} /\ MaxPrinted \in Nat /\ MaxInFlight \in Nat \ {0}

VARIABLES
  lines, kept, verdict,  \* per job: lines printed, len(logs), status
  post,    \* the POST that starts a run
  req,     \* the status requests
  run,     \* _sfgRun without the log text
  shown,   \* _sfgRun.logs: the lines appended to it, in order
  timer,   \* _sfgPollTimer is set
  onPage   \* the DBT Agent page is the rendered one

jobVars == <<lines, kept, verdict>>
pageVars == <<run, shown, timer, onPage>>
vars == <<regVars, jobVars, post, req, pageVars>>

Verdicts == {"success", "error", "cancelled"}
Reqs == 1..MaxInFlight

\* A status request: the arguments it was sent with, and what the endpoint has
\* read for it so far.
Idle == [at |-> "idle", job |-> NoJob, since |-> 0,
         total |-> 0, size |-> 0, status |-> "", finished |-> FALSE]
Unknown == [Idle EXCEPT !.at = "unknown"]

TypeOK ==
  /\ RegTypeOK
  /\ lines \in [Jobs -> 0..MaxPrinted]
  /\ kept \in [Jobs -> 0..MaxLogLines]
  /\ verdict \in [Jobs -> Verdicts \cup {"running"}]
  /\ post \in [at : {"none", "sent", "answered"}, job : Jobs \cup {NoJob}]
  /\ req \in [Reqs -> [at : {"idle", "sent", "logs", "status", "answered", "unknown"},
                       job : Jobs \cup {NoJob}, since : 0..MaxLogLines,
                       total : 0..MaxPrinted, size : 0..MaxLogLines,
                       status : Verdicts \cup {"", "running"}, finished : BOOLEAN]]
  /\ run \in [job : Jobs \cup {NoJob}, running : BOOLEAN, finished : BOOLEAN,
              status : Verdicts \cup {"", "running"},
              offset : 0..MaxLogLines, cancelling : BOOLEAN]
  /\ shown \in Seq(Jobs \X (1..MaxPrinted))
  /\ timer \in BOOLEAN /\ onPage \in BOOLEAN

Init ==
  /\ RegInit
  /\ lines = [j \in Jobs |-> 0]
  /\ kept = [j \in Jobs |-> 0]
  /\ verdict = [j \in Jobs |-> "running"]
  /\ post = [at |-> "none", job |-> NoJob]
  /\ req = [q \in Reqs |-> Idle]
  /\ run = [job |-> NoJob, running |-> FALSE, finished |-> FALSE, status |-> "",
            offset |-> 0, cancelling |-> FALSE]
  /\ shown = <<>>
  /\ timer = FALSE /\ onPage = TRUE

-----------------------------------------------------------------------------
(* The jobs on the server, as DbtRun shows them. *)

\* _append_log. Every line precedes the verdict, except the one that explains a
\* missing dbt.
JobPrints(j) ==
  /\ j \in Running \/ (j \in settled \ lost /\ verdict[j] = "error" /\ endRank[j] = 0)
  /\ lines[j] < MaxPrinted
  /\ lines' = [lines EXCEPT ![j] = @ + 1]
  /\ kept' = [kept EXCEPT ![j] = IF @ + 1 > MaxLogLines THEN MaxLogLines ELSE @ + 1]
  /\ UNCHANGED <<regVars, verdict, post, req, pageVars>>

\* The verdict: DbtRun's Conclude.
JobSettles(j) ==
  /\ SettleJob(j)
  /\ verdict' \in {[verdict EXCEPT ![j] = v] : v \in Verdicts}
  /\ UNCHANGED <<lines, kept, post, req, pageVars>>

JobEnds(j) ==
  /\ EndJob(j)
  /\ UNCHANGED <<jobVars, post, req, pageVars>>

\* The requests in flight die with the server process.
ServerRestarts ==
  /\ Restart
  /\ req' = [q \in Reqs |-> IF req[q].at \in {"idle", "unknown"} THEN req[q]
                            ELSE Unknown]
  /\ UNCHANGED <<jobVars, post, pageVars>>

\* POST /api/dbt-local/run-sfglue on the server.
StartHandler(j) ==
  /\ post.at = "sent"
  /\ StartJob(j)
  /\ post' = [at |-> "answered", job |-> j]
  /\ UNCHANGED <<jobVars, req, pageVars>>

-----------------------------------------------------------------------------
(* get_status, read by read. *)

\* The job is looked up; the log list is copied under the job's lock. A job
\* that is not registered is answered with 404.
StatusLogs(q) ==
  /\ req[q].at = "sent"
  /\ req' = [req EXCEPT ![q] =
       IF req[q].job \in registry
       THEN [req[q] EXCEPT !.at = "logs", !.total = lines[req[q].job], !.size = kept[req[q].job]]
       ELSE Unknown]
  /\ UNCHANGED <<regVars, jobVars, post, pageVars>>

\* job["status"], summary and models are read afterwards, without the lock ...
StatusVerdict(q) ==
  /\ req[q].at = "logs"
  /\ req' = [req EXCEPT ![q] = [req[q] EXCEPT !.at = "status", !.status = verdict[req[q].job]]]
  /\ UNCHANGED <<regVars, jobVars, post, pageVars>>

\* ... and job["finished"] last.
StatusFinished(q) ==
  /\ req[q].at = "status"
  /\ req' = [req EXCEPT ![q] =
               [req[q] EXCEPT !.at = "answered", !.finished = (req[q].job \in settled)]]
  /\ UNCHANGED <<regVars, jobVars, post, pageVars>>

-----------------------------------------------------------------------------
(* The page. *)

\* Mutant of ClickRun: the old _sfgRun is reused and its flag not cleared.
ClickRun_KeepsFinished ==
  /\ onPage
  /\ ~run.running
  /\ post.at = "none"
  /\ started # Jobs
  /\ run' = [run EXCEPT !.job = NoJob, !.running = TRUE, !.status = "running",
                        !.offset = 0]
  /\ shown' = <<>>
  /\ post' = [at |-> "sent", job |-> NoJob]
  /\ UNCHANGED <<regVars, jobVars, req, timer, onPage>>

\* runSfgDbtLocal: the button is enabled while no run is. A fresh _sfgRun
\* replaces the old one before the POST is sent.
ClickRun ==
  /\ onPage
  /\ ~run.running
  /\ post.at = "none"
  /\ started # Jobs
  /\ run' = [job |-> NoJob, running |-> TRUE, finished |-> FALSE,
             status |-> "running", offset |-> 0, cancelling |-> FALSE]
  /\ shown' = <<>>
  /\ post' = [at |-> "sent", job |-> NoJob]
  /\ UNCHANGED <<regVars, jobVars, req, timer, onPage>>

\* The answer names the job, and startSfgPolling replaces the timer: also when
\* the user has left the page meanwhile.
RunStarted ==
  /\ post.at = "answered"
  /\ run' = [run EXCEPT !.job = post.job]
  /\ timer' = TRUE
  /\ post' = [at |-> "none", job |-> NoJob]
  /\ UNCHANGED <<regVars, jobVars, req, shown, onPage>>

\* The POST fails, before or after the server has acted on it.
RunNotStarted ==
  /\ post.at # "none"
  /\ run' = [run EXCEPT !.running = FALSE, !.status = "error"]
  /\ post' = [at |-> "none", job |-> NoJob]
  /\ UNCHANGED <<regVars, jobVars, req, shown, timer, onPage>>

\* The interval timer fires: one more status request from the current offset,
\* whether or not earlier ones have been answered.
PollTick(q) ==
  /\ timer
  /\ run.job # NoJob
  /\ req[q].at = "idle"
  /\ req' = [req EXCEPT ![q] = [Idle EXCEPT !.at = "sent", !.job = run.job, !.since = run.offset]]
  /\ UNCHANGED <<regVars, jobVars, post, pageVars>>

\* Mutant of Chunk: "since" names the last line already seen.
Chunk_SkipsOne(r) ==
  [i \in 1..(IF r.since + 1 < r.size THEN r.size - r.since - 1 ELSE 0) |->
     <<r.job, r.total - r.size + r.since + 1 + i>>]

\* logs[since:] of the copied list, as line numbers.
Chunk(r) ==
  [i \in 1..(IF r.since < r.size THEN r.size - r.since ELSE 0) |->
     <<r.job, r.total - r.size + r.since + i>>]

\* Mutant of Answered: the page asks for the whole log every time.
Answered_KeepsOffset(q) ==
  LET r == req[q] IN
  /\ r.at = "answered"
  /\ shown' = shown \o Chunk(r)
  /\ run' = IF r.finished
            THEN [run EXCEPT !.status = r.status, !.running = FALSE,
                             !.cancelling = FALSE, !.finished = TRUE]
            ELSE [run EXCEPT !.status = r.status]
  /\ timer' = (timer /\ ~r.finished)
  /\ req' = [req EXCEPT ![q] = Idle]
  /\ UNCHANGED <<regVars, jobVars, post, onPage>>

\* A status answer is applied to whatever run the page shows now; a finished
\* one stops the polling.
Answered(q) ==
  LET r == req[q] IN
  /\ r.at = "answered"
  /\ shown' = shown \o Chunk(r)
  /\ run' = IF r.finished
            THEN [run EXCEPT !.status = r.status, !.offset = r.size,
                             !.running = FALSE, !.cancelling = FALSE,
                             !.finished = TRUE]
            ELSE [run EXCEPT !.status = r.status, !.offset = r.size]
  /\ timer' = (timer /\ ~r.finished)
  /\ req' = [req EXCEPT ![q] = Idle]
  /\ UNCHANGED <<regVars, jobVars, post, onPage>>

\* Mutant of PollFails: polling stops but the run is still shown as running.
PollFails_StaysRunning(q) ==
  /\ req[q].at # "idle"
  /\ run' = [run EXCEPT !.cancelling = FALSE, !.status = "error"]
  /\ timer' = FALSE
  /\ req' = [req EXCEPT ![q] = Idle]
  /\ UNCHANGED <<regVars, jobVars, post, shown, onPage>>

\* One failed request, a 404 or a network error, ends the polling for good.
PollFails(q) ==
  /\ req[q].at # "idle"
  /\ run' = [run EXCEPT !.running = FALSE, !.cancelling = FALSE, !.status = "error"]
  /\ timer' = FALSE
  /\ req' = [req EXCEPT ![q] = Idle]
  /\ UNCHANGED <<regVars, jobVars, post, shown, onPage>>

\* cancelSfgDbtLocal: the button shows "Stopping"; if the call fails it is
\* offered again.
ClickCancel ==
  /\ onPage
  /\ run.job # NoJob /\ run.running /\ ~run.cancelling
  /\ run' = [run EXCEPT !.cancelling = TRUE]
  /\ UNCHANGED <<regVars, jobVars, post, req, shown, timer, onPage>>

CancelFails ==
  /\ run.cancelling
  /\ run' = [run EXCEPT !.cancelling = FALSE]
  /\ UNCHANGED <<regVars, jobVars, post, req, shown, timer, onPage>>

\* destroySfGlueDbtAgentPage stops the timer; requests stay in flight.
LeavePage ==
  /\ onPage
  /\ onPage' = FALSE
  /\ timer' = FALSE
  /\ UNCHANGED <<regVars, jobVars, post, req, run, shown>>

\* Mutant of EnterPage: an in-flight run is not picked up again.
EnterPage_NoResume ==
  /\ ~onPage
  /\ onPage' = TRUE
  /\ UNCHANGED <<regVars, jobVars, post, req, run, shown, timer>>

\* Rendering the page resumes the polling of a run in flight.
EnterPage ==
  /\ ~onPage
  /\ onPage' = TRUE
  /\ timer' = (timer \/ (run.job # NoJob /\ run.running))
  /\ UNCHANGED <<regVars, jobVars, post, req, run, shown>>

-----------------------------------------------------------------------------

Endpoint(q) == StatusLogs(q) \/ StatusVerdict(q) \/ StatusFinished(q)

Next ==
  \/ \E j \in Jobs :
       JobPrints(j) \/ JobSettles(j) \/ JobEnds(j) \/ StartHandler(j)
  \/ \E q \in Reqs :
       Endpoint(q) \/ PollTick(q) \/ Answered(q) \/ PollFails(q)
  \/ ServerRestarts
  \/ ClickRun \/ RunStarted \/ RunNotStarted
  \/ ClickCancel \/ CancelFails
  \/ LeavePage \/ EnterPage

Spec == Init /\ [][Next]_vars

\* The timer keeps firing while it is set, the endpoint answers what it was
\* asked, and the browser delivers an answer or an error. Nothing is assumed of
\* the user, of dbt or of the network.
Fairness ==
  \A q \in Reqs : /\ WF_vars(PollTick(q))
                  /\ WF_vars(Endpoint(q))
                  /\ WF_vars(Answered(q) \/ PollFails(q))

FairSpec == Spec /\ Fairness

-----------------------------------------------------------------------------
(* Properties. *)

\* A run the page shows as running is being polled: there is no state in which
\* the page waits for news that nothing will bring.
RunningIsPolled == onPage /\ run.running /\ run.job # NoJob => timer

\* Every line the page shows is a line of the job it shows, and no line comes
\* twice or out of order. Holds while a status request is answered before the
\* next one is sent (MaxInFlight = 1).
LogInOrder ==
  /\ \A i \in DOMAIN shown : shown[i][1] = run.job
  /\ \A i, k \in DOMAIN shown : i < k => shown[i][2] < shown[k][2]

\* As long as the log has not been cut, the page shows it without a gap.
LogWithoutGap ==
  run.job # NoJob /\ lines[run.job] <= MaxLogLines
    => \A i \in DOMAIN shown : shown[i][2] = i

\* The page calls a run finished only when its job is.
FinishedMeansSettled == run.finished => run.job \in settled

\* A run whose job has settled does not stay "running" on the page, unless the
\* user leaves.
SettledIsNoticed ==
  (run.running /\ run.job \in settled) ~> (~run.running \/ ~onPage)

\* "stdout streamed into an in-memory log the status endpoint pages through"
\* (dbt_local.py:12): when the page has seen the run finish, it has been given
\* every line. Not so when the log was cut between two polls, since the offset
\* indexes the list and not the stream, nor when the last lines arrive between
\* the copy of the log and the read of "finished".
LogDelivered ==
  run.finished => Len(shown) = lines[run.job]
=============================================================================
