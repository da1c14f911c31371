--------------------------- MODULE Services_proofs ---------------------------
(***************************************************************************)
(* Proofs about the parts of the tool that call a service and wait: the    *)
(* AI calls of a conversion, the table of AWS sign-in sessions, the loads  *)
(* of QVD packages into a warehouse, the jobs and files of a workspace,    *)
(* and the comparison of two tables query by query. All hold for any       *)
(* number of calls in flight, overlapping, failing and answered late.      *)
(***************************************************************************)
EXTENDS AiCalls, SsoSession, QvdLoad, JobDeploy, Reconcile, FiniteSetTheorems, SequenceTheorems, TLAPS

-----------------------------------------------------------------------------
(* The AI calls of a conversion.                                           *)

AiRecords ==
  [pc : {"queued", "gate", "call", "backoff", "done"}, round : 1..Rounds,
   attempt : 1..MaxAttempts, best : {"none", "flagged"},
   out : {"none", "clean", "flagged", "scaffold"}]

\* A conversion has come to something when it is done, to a scaffold only
\* without any text.
Fine(m) ==
  /\ m.pc = "done" <=> m.out # "none"
  /\ m.out = "scaffold" => m.best = "none"

AiTyped ==
  /\ transform \in [Transforms -> {"queued", "enumerate", "tables", "done"}]
  /\ outputs \subseteq Tables /\ model \in [Tables -> AiRecords]

\* Tables are taken up once their job knows them, and a job is done after them.
AiInv ==
  /\ AiTyped
  /\ \A t \in Tables :
       /\ Fine(model[t])
       /\ model[t].pc # "queued" => t \in outputs
       /\ t \in outputs => transform[JobOf[t]] \in {"tables", "done"}
       /\ t \in outputs /\ transform[JobOf[t]] = "done" => model[t].pc = "done"
  /\ \A j \in Transforms :
       transform[j] \in {"tables", "done"} => Written(j) \cap outputs # {}

LEMMA AiInitKeeps == AiInit => AiInv
<1>. SUFFICES ASSUME AiInit PROVE AiInv
  OBVIOUS
<1>1. NotBegun \in AiRecords /\ Fine(NotBegun) /\ NotBegun.pc = "queued"
  BY AiAssumption DEF NotBegun, AiRecords, Rounds, Fine
<1>2. AiTyped /\ outputs = {} /\ \A t \in Tables : model[t] = NotBegun
  BY <1>1 DEF AiInit, AiTyped
<1>3. \A j \in Transforms : transform[j] = "queued"
  BY DEF AiInit
<1>. QED
  BY <1>1, <1>2, <1>3 DEF AiInv

\* What an attempt, an answer or their failure makes of a conversion.
LEMMA SettledIs ==
  ASSUME NEW m \in AiRecords, NEW best \in {m.best, "flagged"}, best = "none" => m.best = "none"
  PROVE  Settled(m, best) \in AiRecords /\ Fine(Settled(m, best)) /\ Settled(m, best).pc = "done"
<1>1. m.best \in {"none", "flagged"}
  BY DEF AiRecords
<1>2. CASE best = "none"
  BY <1>1, <1>2 DEF Settled, AiRecords, Fine
<1>3. CASE best # "none"
  <2>1. best = "flagged"
    BY <1>1, <1>3
  <2>. QED
    BY <2>1 DEF Settled, AiRecords, Fine
<1>. QED
  BY <1>2, <1>3

LEMMA JudgedIs ==
  ASSUME NEW m \in AiRecords, Fine(m), m.pc # "done", NEW text \in {"clean", "flagged", "nothing"}
  PROVE  Judged(m, text) \in AiRecords /\ Fine(Judged(m, text)) /\ Judged(m, text).pc # "queued"
<1>1. /\ m.pc \in {"queued", "gate", "call", "backoff", "done"} /\ m.round \in {1, 2}
      /\ m.best \in {"none", "flagged"} /\ m.out = "none" /\ 1 \in 1..MaxAttempts
  BY AiAssumption DEF AiRecords, Rounds, Fine
<1>2. CASE text = "clean"
  <2>1. Judged(m, text) = [m EXCEPT !.pc = "done", !.out = "clean"]
    BY <1>2 DEF Judged
  <2>. QED
    BY <2>1 DEF AiRecords, Fine
<1>3. CASE text = "flagged" /\ m.round < Rounds
  <2>1. Judged(m, text) = [m EXCEPT !.pc = "gate", !.round = m.round + 1, !.attempt = 1, !.best = "flagged"]
    BY <1>1, <1>3 DEF Judged, Rounds
  <2>2. m.round + 1 \in 1..Rounds
    BY <1>1, <1>3 DEF Rounds
  <2>. QED
    BY <1>1, <2>1, <2>2 DEF AiRecords, Fine
<1>4. CASE text = "flagged" /\ ~(m.round < Rounds)
  <2>1. Judged(m, text) = Settled(m, "flagged")
    BY <1>1, <1>4 DEF Judged, Rounds
  <2>. QED
    BY <2>1, SettledIs
<1>5. CASE text = "nothing"
  <2>1. Judged(m, text) = Settled(m, m.best)
    BY <1>5 DEF Judged
  <2>. QED
    BY <2>1, SettledIs
<1>. QED
  BY <1>2, <1>3, <1>4, <1>5

\* A step of one conversion.
LEMMA TableMoves ==
  ASSUME AiInv, NEW t \in Tables, NEW r \in AiRecords, Fine(r), r.pc # "queued",
         t \in outputs, model[t].pc # "done",
         model' = [model EXCEPT ![t] = r], UNCHANGED <<transform, outputs>>
  PROVE  AiInv'
<1>1. /\ model' \in [Tables -> AiRecords] /\ model'[t] = r
      /\ \A o \in Tables \ {t} : model'[o] = model[o]
  BY DEF AiInv, AiTyped
<1>2. AiTyped'
  BY <1>1 DEF AiInv, AiTyped
<1>3. transform[JobOf[t]] # "done"
  BY DEF AiInv
<1>4. \A o \in Tables :
        /\ Fine(model'[o])
        /\ model'[o].pc # "queued" => o \in outputs
        /\ o \in outputs => transform[JobOf[o]] \in {"tables", "done"}
        /\ o \in outputs /\ transform[JobOf[o]] = "done" => model'[o].pc = "done"
  <2>. TAKE o \in Tables
  <2>1. CASE o = t
    BY <1>1, <1>3, <2>1 DEF AiInv
  <2>2. CASE o # t
    BY <1>1, <2>2 DEF AiInv
  <2>. QED
    BY <2>1, <2>2
<1>. QED
  BY <1>2, <1>4 DEF AiInv, Written

LEMMA TableKeeps ==
  ASSUME AiInv, NEW t \in Tables, TableThread(t)
  PROVE  AiInv'
<1>. DEFINE m == model[t]
<1>1. m \in AiRecords /\ Fine(m) /\ (m.pc # "queued" => t \in outputs)
  BY DEF AiInv, AiTyped
<1>2. CASE BeginTable(t)
  <2>1. [m EXCEPT !.pc = "gate"] \in AiRecords /\ Fine([m EXCEPT !.pc = "gate"])
    BY <1>1, <1>2 DEF BeginTable, AiRecords, Fine
  <2>2. model' = [model EXCEPT ![t] = [m EXCEPT !.pc = "gate"]]
    BY <1>2 DEF BeginTable
  <2>3. t \in outputs /\ m.pc = "queued" /\ UNCHANGED <<transform, outputs>>
    BY <1>2 DEF BeginTable
  <2>. QED
    BY <2>1, <2>2, <2>3, TableMoves DEF AiRecords
<1>3. CASE Acquire(t)
  <2>1. [m EXCEPT !.pc = "call"] \in AiRecords /\ Fine([m EXCEPT !.pc = "call"])
    BY <1>1, <1>3 DEF Acquire, AiRecords, Fine
  <2>2. model' = [model EXCEPT ![t] = [m EXCEPT !.pc = "call"]]
    BY <1>3 DEF Acquire
  <2>. QED
    BY <1>1, <1>3, <2>1, <2>2, TableMoves DEF Acquire, AiRecords
<1>4. CASE Remembered(t) \/ Answered(t)
  <2>1. PICK text \in {"clean", "flagged", "nothing"} : model' = [model EXCEPT ![t] = Judged(m, text)]
    BY <1>4 DEF Remembered, Answered
  <2>2. m.pc \in {"gate", "call"} /\ UNCHANGED <<transform, outputs>>
    BY <1>4 DEF Remembered, Answered
  <2>3. Judged(m, text) \in AiRecords /\ Fine(Judged(m, text)) /\ Judged(m, text).pc # "queued"
    BY <1>1, <2>2, JudgedIs
  <2>. QED
    BY <1>1, <2>1, <2>2, <2>3, TableMoves
<1>5. CASE (Throttled(t) /\ ~(m.attempt < MaxAttempts)) \/ Refused(t)
  <2>1. /\ model' = [model EXCEPT ![t] = Settled(m, m.best)]
        /\ m.pc = "call" /\ UNCHANGED <<transform, outputs>>
    BY <1>5 DEF Throttled, Refused
  <2>2. Settled(m, m.best) \in AiRecords /\ Fine(Settled(m, m.best)) /\ Settled(m, m.best).pc = "done"
    BY <1>1, SettledIs
  <2>. QED
    BY <1>1, <2>1, <2>2, TableMoves
<1>6. CASE Throttled(t) /\ m.attempt < MaxAttempts
  <2>. DEFINE r == Postponed(m)
  <2>1. model' = [model EXCEPT ![t] = r] /\ m.pc = "call" /\ UNCHANGED <<transform, outputs>>
    BY <1>6 DEF Throttled
  <2>2. m.attempt \in 1..MaxAttempts
    BY <1>1 DEF AiRecords
  <2>3. m.attempt + 1 \in 1..MaxAttempts
    BY <1>6, <2>2, AiAssumption
  <2>4. r \in AiRecords /\ Fine(r) /\ r.pc = "backoff"
    BY <1>1, <2>1, <2>3 DEF AiRecords, Fine, Postponed
  <2>. HIDE DEF r
  <2>. QED
    BY <1>1, <2>1, <2>4, TableMoves
<1>7. CASE WaitOver(t)
  <2>1. [m EXCEPT !.pc = "gate"] \in AiRecords /\ Fine([m EXCEPT !.pc = "gate"])
    BY <1>1, <1>7 DEF WaitOver, AiRecords, Fine
  <2>2. model' = [model EXCEPT ![t] = [m EXCEPT !.pc = "gate"]]
    BY <1>7 DEF WaitOver
  <2>. QED
    BY <1>1, <1>7, <2>1, <2>2, TableMoves DEF WaitOver, AiRecords
<1>. QED
  BY <1>2, <1>3, <1>4, <1>5, <1>6, <1>7 DEF TableThread

\* A job learns its tables once, before any of them is taken up.
LEMMA TablesKnown ==
  ASSUME AiInv, NEW j \in Transforms, transform[j] \in {"queued", "enumerate"},
         NEW found \in SUBSET Written(j), found # {},
         transform' = [transform EXCEPT ![j] = "tables"], outputs' = outputs \cup found,
         UNCHANGED model
  PROVE  AiInv'
<1>1. /\ transform'[j] = "tables" /\ \A i \in Transforms \ {j} : transform'[i] = transform[i]
      /\ transform' \in [Transforms -> {"queued", "enumerate", "tables", "done"}]
  BY DEF AiInv, AiTyped
<1>2. AiTyped'
  BY <1>1 DEF AiInv, AiTyped, Written
<1>3. \A t \in Tables : JobOf[t] \in Transforms
  BY AiAssumption
<1>4. \A t \in found : t \in Tables /\ JobOf[t] = j
  BY DEF Written
<1>5. \A i \in Transforms : transform'[i] \in {"tables", "done"} => Written(i) \cap outputs' # {}
  BY <1>1 DEF AiInv
<1>6. \A t \in Tables :
        /\ t \in outputs' => transform'[JobOf[t]] \in {"tables", "done"}
        /\ t \in outputs' /\ transform'[JobOf[t]] = "done" => model[t].pc = "done"
  BY <1>1, <1>3, <1>4 DEF AiInv
<1>. QED
  BY <1>2, <1>5, <1>6 DEF AiInv, Written

LEMMA TransformKeeps ==
  ASSUME AiInv, NEW j \in Transforms, BeginTransform(j) \/ TransformThread(j)
  PROVE  AiInv'
<1>0. \A t \in Tables : JobOf[t] \in Transforms
  BY AiAssumption
<1>1. CASE BeginTransform(j) /\ j \in Known /\ Cardinality(Written(j)) > 1
  <2>1. Written(j) # {}
    BY AiAssumption DEF Written
  <2>. QED
    BY <1>1, <2>1, TablesKnown DEF BeginTransform
<1>2. CASE BeginTransform(j) /\ ~(j \in Known /\ Cardinality(Written(j)) > 1)
  <2>1. /\ transform[j] = "queued" /\ transform' = [transform EXCEPT ![j] = "enumerate"]
        /\ UNCHANGED <<outputs, model>>
    BY <1>2 DEF BeginTransform
  <2>2. /\ transform'[j] = "enumerate" /\ \A i \in Transforms \ {j} : transform'[i] = transform[i]
        /\ AiTyped'
    BY <2>1 DEF AiInv, AiTyped
  <2>. QED
    BY <1>0, <2>1, <2>2 DEF AiInv, Written
<1>3. CASE Enumerated(j)
  BY <1>3, TablesKnown DEF Enumerated
<1>4. CASE JoinTables(j)
  <2>1. /\ transform[j] = "tables" /\ transform' = [transform EXCEPT ![j] = "done"]
        /\ \A t \in Written(j) \cap outputs : model[t].pc = "done"
        /\ UNCHANGED <<outputs, model>>
    BY <1>4 DEF JoinTables
  <2>2. /\ transform'[j] = "done" /\ \A i \in Transforms \ {j} : transform'[i] = transform[i]
        /\ AiTyped'
    BY <2>1 DEF AiInv, AiTyped
  <2>. QED
    BY <1>0, <2>1, <2>2 DEF AiInv, Written
<1>. QED
  BY <1>1, <1>2, <1>3, <1>4 DEF TransformThread

LEMMA AiAlways == AiSpec => []AiInv
<1>1. AiInv /\ [AiNext]_aiVars => AiInv'
  <2>. SUFFICES ASSUME AiInv, [AiNext]_aiVars PROVE AiInv'
    OBVIOUS
  <2>1. CASE UNCHANGED aiVars
    BY <2>1 DEF aiVars, AiInv, AiTyped, Written
  <2>. QED
    BY <2>1, TransformKeeps, TableKeeps DEF AiNext
<1>. QED
  BY <1>1, AiInitKeeps, PTL DEF AiSpec

\* The variables of a conversion's AI calls keep their types: no more rounds and
\* attempts than are allowed.
THEOREM AiTypeCorrect == AiSpec => []AiTypeOK
<1>1. AiInv => AiTypeOK
  BY DEF AiInv, AiTyped, AiRecords, AiTypeOK
<1>. QED
  BY <1>1, AiAlways, PTL

\* No thread of the nested pools waits for a thread or a permit that never comes
\* free, for any number of jobs, tables and workers.
THEOREM SomeoneGoesOnAlways == AiSpec => []SomeoneGoesOn
<1>1. AiInv => SomeoneGoesOn
  <2>. SUFFICES ASSUME AiInv, NEW j \in Transforms, transform[j] = "tables",
                       NEW t \in Written(j) \cap outputs, model[t].pc # "done",
                       ~\E o \in Written(j) \cap outputs : model[o].pc = "queued" /\ ThreadFree(j)
                PROVE  \E o \in Tables : CanGoOn(o)
    BY DEF SomeoneGoesOn
  <2>1. Workers \in Nat /\ 0 < Workers
    BY AiAssumption
  <2>2. \E o \in Tables : model[o].pc \in {"gate", "call", "backoff"}
    <3>1. CASE model[t].pc = "queued"
      <4>1. ~(Cardinality(RunningTables(j)) < Workers)
        BY <3>1 DEF ThreadFree
      <4>2. RunningTables(j) # {}
        BY <2>1, <4>1, FS_EmptySet
      <4>. QED
        BY <4>2 DEF RunningTables, Written
    <3>2. CASE model[t].pc # "queued"
      BY <3>2 DEF AiInv, AiTyped, AiRecords, Written
    <3>. QED
      BY <3>1, <3>2
  <2>3. CASE InGate = {}
    BY <2>1, <2>2, <2>3, FS_EmptySet DEF CanGoOn
  <2>4. CASE InGate # {}
    BY <2>4 DEF InGate, CanGoOn
  <2>. QED
    BY <2>3, <2>4
<1>. QED
  BY <1>1, AiAlways, PTL

\* A job that is done was converted, each of its models to something, and to a
\* scaffold only when no round gave text.
THEOREM DoneIsConvertedAlways == AiSpec => []DoneIsConverted
<1>1. AiInv => DoneIsConverted
  <2>. SUFFICES ASSUME AiInv, NEW j \in Transforms
                PROVE  /\ transform[j] = "done" =>
                            /\ Written(j) \cap outputs # {}
                            /\ \A t \in Written(j) \cap outputs : model[t].out # "none"
                       /\ \A t \in Written(j) :
                            /\ model[t].pc # "queued" =>
                                 t \in Written(j) \cap outputs /\ transform[j] \in {"tables", "done"}
                            /\ model[t].out = "scaffold" => model[t].best = "none"
    BY DEF DoneIsConverted
  <2>. QED
    BY DEF AiInv, Fine, Written
<1>. QED
  BY <1>1, AiAlways, PTL

-----------------------------------------------------------------------------
(* The sign-in sessions.                                                   *)

SessionRecords == [late : BOOLEAN, token : BOOLEAN, life : {"unset", "ahead", "passed"},
                   spent : BOOLEAN, shared : BOOLEAN]

PollsTyped ==
  /\ place \in [Sessions -> Nat] /\ inserts \in Nat
  /\ session \in [Sessions -> [late : BOOLEAN, token : BOOLEAN,
                               life : {"unset", "ahead", "passed"},
                               spent : BOOLEAN, shared : BOOLEAN]]
  /\ asked \in [Polls -> [pc : {"idle", "late", "ask", "date"}, of : Sessions]]

\* Poll p is at session s.
AtOf(p, s) == asked[p].pc # "idle" /\ asked[p].of = s

\* A session that is not in the table and that a poll is at has been dropped.
DroppedIsGone ==
  \A p \in Polls : \A s \in Sessions :
    AtOf(p, s) /\ s \notin sessions => s \notin starting /\ session[s] = Gone

\* Two polls at a session in the table know of each other, and a poll that could
\* still remove a session with a token is not the one that got it.
PollsKnown ==
  \A p \in Polls : \A s \in sessions :
    AtOf(p, s) =>
      /\ \A o \in Polls \ {p} : AtOf(o, s) => session[s].shared
      /\ session[s].token /\ asked[p].pc # "date" => session[s].shared

StartingIsOut == starting \cap sessions = {} /\ starting \subseteq Sessions
                 /\ \A s \in starting : session[s] = New

SsoInv == PollsTyped /\ StartingIsOut /\ DroppedIsGone /\ PollsKnown

LEMMA KeepKeeps ==
  ASSUME PollsTyped, NEW kept \in SUBSET sessions, Keep(kept), UNCHANGED inserts
  PROVE  /\ place' \in [Sessions -> Nat] /\ inserts' \in Nat
         /\ session' \in [Sessions -> SessionRecords]
         /\ sessions' = kept
         /\ \A s \in kept : session'[s] = session[s]
         /\ \A s \in Sessions \ sessions : session'[s] = session[s]
         /\ \A s \in sessions \ kept : session'[s] = Gone
<1>1. Gone \in SessionRecords
  BY DEF Gone, New, SessionRecords
<1>2. sessions \subseteq Sessions
  BY DEF sessions
<1>3. sessions' = kept
  BY <1>2 DEF Keep, sessions, PollsTyped
<1>. QED
  BY <1>1, <1>2, <1>3 DEF Keep, PollsTyped, SessionRecords

\* One session is marked, or gets its token or the end of one.
LEMMA MarkKeeps ==
  ASSUME PollsTyped, NEW s \in Sessions, NEW r \in SessionRecords,
         session' = [session EXCEPT ![s] = r]
  PROVE  /\ session' \in [Sessions -> SessionRecords] /\ session'[s] = r
         /\ \A x \in Sessions \ {s} : session'[x] = session[x]
  BY DEF PollsTyped, SessionRecords

LEMMA MarkedIs ==
  ASSUME NEW r \in SessionRecords
  PROVE  /\ [r EXCEPT !.late = TRUE] \in SessionRecords
         /\ [r EXCEPT !.late = TRUE].shared = r.shared
         /\ [r EXCEPT !.late = TRUE].token = r.token
         /\ [r EXCEPT !.life = "passed"] \in SessionRecords
         /\ [r EXCEPT !.life = "passed"].shared = r.shared
         /\ [r EXCEPT !.life = "passed"].token = r.token
         /\ [r EXCEPT !.spent = TRUE] \in SessionRecords
         /\ [r EXCEPT !.spent = TRUE].shared = r.shared
         /\ [r EXCEPT !.spent = TRUE].token = r.token
         /\ [r EXCEPT !.spent = TRUE, !.token = TRUE] \in SessionRecords
         /\ [r EXCEPT !.spent = TRUE, !.token = TRUE].shared = r.shared
         /\ [r EXCEPT !.spent = TRUE, !.token = TRUE].token = TRUE
  BY DEF SessionRecords

LEMMA StartKeeps ==
  ASSUME SsoInv, NEW s \in Sessions, StartSession(s)
  PROVE  SsoInv'
<1>. DEFINE kept == Pruned
<1>1. kept \in SUBSET sessions /\ Keep(kept) /\ UNCHANGED <<inserts, asked>> /\ PollsTyped
      /\ starting' = starting \cup {s} /\ Fresh(s)
  BY DEF StartSession, Pruned, SsoInv
<1>. HIDE DEF kept
<1>2. /\ place' \in [Sessions -> Nat] /\ inserts' \in Nat
      /\ session' \in [Sessions -> SessionRecords]
      /\ sessions' = kept
      /\ \A x \in kept : session'[x] = session[x]
      /\ \A x \in Sessions \ sessions : session'[x] = session[x]
      /\ \A x \in sessions \ kept : session'[x] = Gone
  BY <1>1, KeepKeeps
<1>3. PollsTyped'
  BY <1>1, <1>2 DEF PollsTyped, SessionRecords
<1>4. StartingIsOut'
  BY <1>1, <1>2 DEF SsoInv, StartingIsOut, Fresh
<1>5. DroppedIsGone'
  <2>. SUFFICES ASSUME NEW p \in Polls, NEW x \in Sessions, AtOf(p, x)', x \notin sessions'
                PROVE  x \notin starting' /\ session'[x] = Gone
    BY DEF DroppedIsGone
  <2>1. AtOf(p, x)
    BY <1>1 DEF AtOf
  <2>2. x # s
    <3>1. session[s] = New /\ s \notin sessions
      BY <1>1 DEF Fresh
    <3>2. New # Gone
      BY DEF New, Gone
    <3>. QED
      BY <2>1, <3>1, <3>2 DEF SsoInv, DroppedIsGone
  <2>. QED
    BY <1>1, <1>2, <2>1, <2>2 DEF SsoInv, DroppedIsGone, StartingIsOut
<1>6. PollsKnown'
  BY <1>1, <1>2 DEF SsoInv, PollsKnown, AtOf
<1>. QED
  BY <1>3, <1>4, <1>5, <1>6 DEF SsoInv

LEMMA InsertKeeps ==
  ASSUME SsoInv, NEW s \in Sessions, InsertSession(s)
  PROVE  SsoInv'
<1>1. CASE UNCHANGED <<place, inserts>>
  BY <1>1 DEF InsertSession, SsoInv, PollsTyped, StartingIsOut, DroppedIsGone, PollsKnown,
              AtOf, sessions
<1>2. CASE place' = [place EXCEPT ![s] = inserts + 1] /\ inserts' = inserts + 1
  <2>1. /\ place' \in [Sessions -> Nat] /\ inserts' \in Nat /\ s \in starting
        /\ starting' = starting \ {s} /\ UNCHANGED <<session, asked>>
    BY <1>2 DEF InsertSession, SsoInv, PollsTyped
  <2>2. sessions' = sessions \cup {s}
    BY <1>2, <2>1 DEF sessions, SsoInv, PollsTyped
  <2>3. session[s] = New /\ s \notin sessions
    BY <2>1 DEF SsoInv, StartingIsOut
  <2>4. \A p \in Polls : ~AtOf(p, s)
    BY <2>1, <2>3 DEF SsoInv, DroppedIsGone
  <2>. QED
    BY <2>1, <2>2, <2>3, <2>4
       DEF SsoInv, PollsTyped, StartingIsOut, DroppedIsGone, PollsKnown, AtOf
<1>. QED
  BY <1>1, <1>2 DEF InsertSession

LEMMA BeginPollKeeps ==
  ASSUME SsoInv, NEW p \in Polls, NEW s \in Sessions, BeginPoll(p, s)
  PROVE  SsoInv'
<1>. DEFINE known == session[s].shared \/ \E o \in Polls : AtOf(o, s)
<1>1. /\ asked[p].pc = "idle" /\ s \in sessions /\ session[s].token = FALSE
      /\ sessions' = sessions /\ UNCHANGED <<place, inserts, starting>>
  BY DEF BeginPoll, sessions, SsoInv, PollsTyped
<1>2. known \in BOOLEAN
  BY DEF SsoInv, PollsTyped
<1>3. session' = [session EXCEPT ![s].shared = known]
  BY DEF BeginPoll, AtOf
<1>. HIDE DEF known
<1>4. /\ session' \in [Sessions -> SessionRecords]
      /\ \A x \in Sessions \ {s} : session'[x] = session[x]
      /\ session'[s].token = FALSE /\ session'[s].shared = known
  BY <1>1, <1>2, <1>3 DEF SsoInv, PollsTyped, SessionRecords
<1>5. /\ asked' \in [Polls -> [pc : {"idle", "late", "ask", "date"}, of : Sessions]]
      /\ asked'[p].of = s /\ asked'[p].pc \in {"late", "ask"}
      /\ \A o \in Polls \ {p} : asked'[o] = asked[o]
  BY DEF BeginPoll, SsoInv, PollsTyped
<1>6. PollsTyped'
  BY <1>1, <1>4, <1>5 DEF SsoInv, PollsTyped, SessionRecords
<1>7. StartingIsOut'
  BY <1>1, <1>4 DEF SsoInv, StartingIsOut
<1>8. DroppedIsGone'
  BY <1>1, <1>4, <1>5 DEF SsoInv, DroppedIsGone, AtOf
<1>9. PollsKnown'
  <2>. SUFFICES ASSUME NEW q \in Polls, NEW x \in sessions', AtOf(q, x)'
                PROVE  /\ \A o \in Polls \ {q} : AtOf(o, x)' => session'[x].shared
                       /\ session'[x].token /\ asked'[q].pc # "date" => session'[x].shared
    BY DEF PollsKnown
  <2>1. x \in Sessions
    BY <1>1 DEF sessions
  <2>2. CASE x = s
    <3>. SUFFICES ASSUME NEW o \in Polls \ {q}, AtOf(o, x)'
                  PROVE  session'[x].shared
      BY <1>4, <2>2
    <3>1. AtOf(o, s) \/ AtOf(q, s)
      BY <1>5, <2>2 DEF AtOf
    <3>. QED
      BY <1>4, <2>2, <3>1 DEF known
  <2>3. CASE x # s
    BY <1>1, <1>4, <1>5, <2>1, <2>3 DEF SsoInv, PollsKnown, AtOf
  <2>. QED
    BY <2>2, <2>3
<1>. QED
  BY <1>6, <1>7, <1>8, <1>9 DEF SsoInv

\* A poll that answers is at no session any more.
LEMMA AnswerIdles ==
  ASSUME PollsTyped, NEW p \in Polls, AnswerPoll(p)
  PROVE  /\ asked' \in [Polls -> [pc : {"idle", "late", "ask", "date"}, of : Sessions]]
         /\ asked'[p].pc = "idle"
         /\ \A o \in Polls \ {p} : asked'[o] = asked[o]
<1>1. asked[p].of \in Sessions
  BY DEF PollsTyped
<1>2. NoPoll.of \in Sessions /\ NoPoll.pc = "idle"
      /\ NoPoll = [pc |-> "idle", of |-> NoPoll.of]
  BY <1>1 DEF NoPoll
<1>. QED
  BY <1>2 DEF AnswerPoll, PollsTyped

LEMMA ExpiredKeeps ==
  ASSUME SsoInv, NEW p \in Polls, PollExpired(p)
  PROVE  SsoInv'
<1>. DEFINE kept == sessions \ {Of(p)}
<1>1. kept \in SUBSET sessions /\ Keep(kept) /\ UNCHANGED <<inserts, starting>> /\ PollsTyped
      /\ AnswerPoll(p)
  BY DEF PollExpired, SsoInv
<1>. HIDE DEF kept
<1>2. /\ place' \in [Sessions -> Nat] /\ inserts' \in Nat
      /\ session' \in [Sessions -> SessionRecords]
      /\ sessions' = kept
      /\ \A x \in kept : session'[x] = session[x]
      /\ \A x \in Sessions \ sessions : session'[x] = session[x]
      /\ \A x \in sessions \ kept : session'[x] = Gone
  BY <1>1, KeepKeeps
<1>3. /\ asked' \in [Polls -> [pc : {"idle", "late", "ask", "date"}, of : Sessions]]
      /\ asked'[p].pc = "idle"
      /\ \A o \in Polls \ {p} : asked'[o] = asked[o]
  BY <1>1, AnswerIdles
<1>4. \A o \in Polls : \A x \in Sessions : AtOf(o, x)' => AtOf(o, x) /\ asked'[o] = asked[o]
  BY <1>3 DEF AtOf
<1>5. PollsTyped'
  BY <1>2, <1>3 DEF PollsTyped, SessionRecords
<1>6. StartingIsOut'
  BY <1>1, <1>2 DEF SsoInv, StartingIsOut
<1>7. DroppedIsGone'
  BY <1>1, <1>2, <1>4 DEF SsoInv, DroppedIsGone, StartingIsOut
<1>8. PollsKnown'
  BY <1>1, <1>2, <1>4 DEF SsoInv, PollsKnown, sessions
<1>. QED
  BY <1>5, <1>6, <1>7, <1>8 DEF SsoInv

LEMMA TokenKeeps ==
  ASSUME SsoInv, NEW p \in Polls, PollToken(p)
  PROVE  SsoInv'
<1>. DEFINE s == Of(p)
<1>1. /\ asked[p].pc = "ask" /\ AtOf(p, s) /\ s \in sessions /\ s \in Sessions
      /\ sessions' = sessions /\ UNCHANGED <<place, inserts, starting>> /\ PollsTyped
  BY DEF PollToken, Holds, AtOf, Of, sessions, SsoInv
<1>2. /\ session' \in [Sessions -> SessionRecords]
      /\ \A x \in Sessions \ {s} : session'[x] = session[x]
      /\ session'[s].shared = session[s].shared
  <2>. DEFINE r == session[s]
  <2>0. r \in SessionRecords
    BY <1>1 DEF PollsTyped, SessionRecords
  <2>1. CASE session' = [session EXCEPT ![s] = [r EXCEPT !.spent = TRUE]]
    BY <1>1, <2>0, <2>1, MarkKeeps, MarkedIs
  <2>2. CASE session' = [session EXCEPT ![s] = [r EXCEPT !.spent = TRUE, !.token = TRUE]]
    BY <1>1, <2>0, <2>2, MarkKeeps, MarkedIs
  <2>. QED
    BY <2>1, <2>2 DEF PollToken
<1>3. /\ asked' \in [Polls -> [pc : {"idle", "late", "ask", "date"}, of : Sessions]]
      /\ \A o \in Polls \ {p} : asked'[o] = asked[o]
      /\ \/ asked'[p].pc = "idle" /\ session'[s].token = session[s].token
         \/ asked'[p].pc = "date" /\ asked'[p].of = s
  <2>1. CASE AnswerPoll(p) /\ session' = [session EXCEPT ![Of(p)].spent = TRUE]
    <3>1. session'[s].token = session[s].token
      BY <1>1, <2>1 DEF PollsTyped
    <3>. QED
      BY <1>1, <2>1, <3>1, AnswerIdles
  <2>2. CASE /\ asked' = [asked EXCEPT ![p].pc = "date"]
             /\ session' = [session EXCEPT ![Of(p)].spent = TRUE, ![Of(p)].token = TRUE]
    BY <1>1, <2>2 DEF PollsTyped, Of
  <2>. QED
    BY <2>1, <2>2 DEF PollToken
<1>. HIDE DEF s
<1>4. PollsTyped'
  BY <1>1, <1>2, <1>3 DEF PollsTyped, SessionRecords
<1>5. StartingIsOut'
  BY <1>1, <1>2 DEF SsoInv, StartingIsOut
<1>6. DroppedIsGone'
  BY <1>1, <1>2, <1>3 DEF SsoInv, DroppedIsGone, AtOf
<1>7. PollsKnown'
  <2>. SUFFICES ASSUME NEW q \in Polls, NEW x \in sessions', AtOf(q, x)'
                PROVE  /\ \A o \in Polls \ {q} : AtOf(o, x)' => session'[x].shared
                       /\ session'[x].token /\ asked'[q].pc # "date" => session'[x].shared
    BY DEF PollsKnown
  <2>1. x \in Sessions /\ x \in sessions
    BY <1>1 DEF sessions
  <2>2. \A o \in Polls : AtOf(o, x)' => AtOf(o, x)
    BY <1>1, <1>3 DEF AtOf
  <2>3. CASE x # s
    <3>1. q # p => asked'[q] = asked[q]
      BY <1>3
    <3>2. q # p
      BY <1>3, <2>3 DEF AtOf
    <3>. QED
      BY <1>2, <2>1, <2>2, <2>3, <3>1, <3>2 DEF SsoInv, PollsKnown
  <2>4. CASE x = s
    <3>1. \A o \in Polls \ {q} : AtOf(o, x)' => session'[x].shared
      BY <1>2, <2>1, <2>2, <2>4 DEF SsoInv, PollsKnown
    <3>2. q # p => session[s].shared
      BY <1>1, <2>1, <2>2, <2>4 DEF SsoInv, PollsKnown
    <3>3. q = p => asked'[q].pc = "date"
      BY <1>3 DEF AtOf
    <3>. QED
      BY <1>2, <2>4, <3>1, <3>2, <3>3
  <2>. QED
    BY <2>3, <2>4
<1>. QED
  BY <1>4, <1>5, <1>6, <1>7 DEF SsoInv

LEMMA DateKeeps ==
  ASSUME SsoInv, NEW p \in Polls, DateToken(p) \/ PollAnswered(p)
  PROVE  SsoInv'
<1>1. /\ sessions' = sessions /\ UNCHANGED <<place, inserts, starting>> /\ PollsTyped
      /\ sessions \subseteq Sessions /\ AnswerPoll(p)
  BY DEF DateToken, PollAnswered, sessions, SsoInv
<1>2. /\ session' \in [Sessions -> SessionRecords]
      /\ \A x \in Sessions \ sessions : session'[x] = session[x]
      /\ \A x \in Sessions : /\ session'[x].shared = session[x].shared
                             /\ session'[x].token = session[x].token
  <2>1. CASE DateToken(p)
    BY <1>1, <2>1 DEF DateToken, Holds, PollsTyped, SessionRecords
  <2>2. CASE PollAnswered(p)
    BY <1>1, <2>2 DEF PollAnswered, PollsTyped, SessionRecords
  <2>. QED
    BY <2>1, <2>2
<1>3. /\ asked' \in [Polls -> [pc : {"idle", "late", "ask", "date"}, of : Sessions]]
      /\ asked'[p].pc = "idle"
      /\ \A o \in Polls \ {p} : asked'[o] = asked[o]
  BY <1>1, AnswerIdles
<1>4. \A o \in Polls : \A x \in Sessions : AtOf(o, x)' => AtOf(o, x) /\ asked'[o] = asked[o]
  BY <1>3 DEF AtOf
<1>5. PollsTyped'
  BY <1>1, <1>2, <1>3 DEF PollsTyped, SessionRecords
<1>6. StartingIsOut'
  BY <1>1, <1>2 DEF SsoInv, StartingIsOut
<1>7. DroppedIsGone'
  BY <1>1, <1>2, <1>4 DEF SsoInv, DroppedIsGone
<1>8. PollsKnown'
  BY <1>1, <1>2, <1>4 DEF SsoInv, PollsKnown
<1>. QED
  BY <1>5, <1>6, <1>7, <1>8 DEF SsoInv

LEMMA ElapseKeeps ==
  ASSUME SsoInv, NEW s \in Sessions, Elapse(s)
  PROVE  SsoInv'
<1>1. /\ sessions' = sessions /\ UNCHANGED <<place, inserts, starting, asked>>
      /\ sessions \subseteq Sessions
  BY DEF Elapse, sessions
<1>2. /\ session' \in [Sessions -> SessionRecords]
      /\ \A x \in Sessions \ sessions : session'[x] = session[x]
      /\ \A x \in Sessions : /\ session'[x].shared = session[x].shared
                             /\ session'[x].token = session[x].token
  <2>. DEFINE r == session[s]
  <2>0. r \in SessionRecords /\ PollsTyped /\ s \in sessions
    BY DEF SsoInv, PollsTyped, SessionRecords, Elapse
  <2>1. CASE session' = [session EXCEPT ![s] = [r EXCEPT !.late = TRUE]]
    <3>. DEFINE q == [r EXCEPT !.late = TRUE]
    <3>1. q \in SessionRecords /\ q.shared = session[s].shared /\ q.token = session[s].token
      BY <2>0, MarkedIs
    <3>2. session' = [session EXCEPT ![s] = q]
      BY <2>1
    <3>. HIDE DEF q, r
    <3>3. /\ session' \in [Sessions -> SessionRecords] /\ session'[s] = q
          /\ \A x \in Sessions \ {s} : session'[x] = session[x]
      BY <2>0, <3>1, <3>2, MarkKeeps
    <3>. QED
      BY <2>0, <3>1, <3>3
  <2>2. CASE session' = [session EXCEPT ![s] = [r EXCEPT !.life = "passed"]]
    <3>. DEFINE q == [r EXCEPT !.life = "passed"]
    <3>1. q \in SessionRecords /\ q.shared = session[s].shared /\ q.token = session[s].token
      BY <2>0, MarkedIs
    <3>2. session' = [session EXCEPT ![s] = q]
      BY <2>2
    <3>. HIDE DEF q, r
    <3>3. /\ session' \in [Sessions -> SessionRecords] /\ session'[s] = q
          /\ \A x \in Sessions \ {s} : session'[x] = session[x]
      BY <2>0, <3>1, <3>2, MarkKeeps
    <3>. QED
      BY <2>0, <3>1, <3>3
  <2>. QED
    BY <2>1, <2>2 DEF Elapse
<1>3. PollsTyped'
  BY <1>1, <1>2 DEF SsoInv, PollsTyped, SessionRecords
<1>. QED
  BY <1>1, <1>2, <1>3 DEF SsoInv, StartingIsOut, DroppedIsGone, PollsKnown, AtOf

LEMMA SsoInitKeeps == SsoInit => SsoInv
<1>. SUFFICES ASSUME SsoInit PROVE SsoInv
  OBVIOUS
<1>1. NoPoll \in [pc : {"idle", "late", "ask", "date"}, of : Sessions] /\ New \in SessionRecords
  BY SsoAssumption DEF NoPoll, New, SessionRecords
<1>2. PollsTyped /\ sessions = {} /\ starting = {} /\ \A p \in Polls : asked[p].pc = "idle"
  BY <1>1 DEF SsoInit, PollsTyped, SessionRecords, sessions, NoPoll
<1>. QED
  BY <1>2 DEF SsoInv, StartingIsOut, DroppedIsGone, PollsKnown, AtOf

LEMMA SsoNextKeeps == SsoInv /\ [SsoNext]_ssoVars => SsoInv'
<1>. SUFFICES ASSUME SsoInv, [SsoNext]_ssoVars PROVE SsoInv'
  OBVIOUS
<1>1. CASE UNCHANGED ssoVars
  BY <1>1 DEF ssoVars, SsoInv, PollsTyped, StartingIsOut, DroppedIsGone, PollsKnown, AtOf,
              sessions
<1>2. CASE \E s \in Sessions : StartSession(s) \/ InsertSession(s) \/ Elapse(s)
  BY <1>2, StartKeeps, InsertKeeps, ElapseKeeps
<1>3. CASE \E p \in Polls : \/ \E s \in Sessions : BeginPoll(p, s)
                            \/ PollExpired(p) \/ PollToken(p)
                            \/ DateToken(p) \/ PollAnswered(p)
  BY <1>3, BeginPollKeeps, ExpiredKeeps, TokenKeeps, DateKeeps
<1>. QED
  BY <1>1, <1>2, <1>3 DEF SsoNext

\* A session that pruning drops is dead, or outnumbered.
LEMMA PrunedIsOld ==
  ASSUME PollsTyped, NEW s \in sessions, s \notin Pruned
  PROVE  Dead(s) \/ Outnumbered(s)
<1>. DEFINE alive == {x \in sessions : ~Dead(x)}
<1>1. CASE s \in alive
  <2>1. Cardinality(Younger(s, alive)) \in Nat /\ Cardinality(Younger(s, sessions)) \in Nat
        /\ Cardinality(Younger(s, alive)) <= Cardinality(Younger(s, sessions))
    <3>1. IsFiniteSet(Younger(s, sessions))
      BY SsoAssumption, FS_Subset DEF Younger, sessions
    <3>2. Younger(s, alive) \subseteq Younger(s, sessions)
      BY DEF Younger
    <3>. QED
      BY <3>1, <3>2, FS_Subset, FS_CardinalityType
  <2>2. ~(Cardinality(Younger(s, alive)) < MaxSessions)
    BY <1>1 DEF Pruned
  <2>. QED
    BY <2>1, <2>2, SsoAssumption DEF Outnumbered
<1>. QED
  BY <1>1

LEMMA SignedOutWhy ==
  ASSUME SsoInv, SsoNext, NEW s \in Sessions, SignedIn(s), ~SignedIn(s)'
  PROVE  \/ Outnumbered(s)
         \/ session[s].shared
         \/ session[s].late /\ session[s].life # "ahead"
<1>1. PollsTyped /\ s \in sessions /\ session[s].token = TRUE
  BY DEF SsoInv, SignedIn, PollsTyped
<1>2. CASE \E x \in Sessions : StartSession(x)
  <2>1. PICK x \in Sessions : StartSession(x)
    BY <1>2
  <2>2. Keep(Pruned) /\ Pruned \in SUBSET sessions /\ UNCHANGED inserts
    BY <2>1 DEF StartSession, Pruned
  <2>3. s \notin Pruned
    BY <1>1, <2>2, KeepKeeps DEF SignedIn
  <2>. QED
    BY <1>1, <2>3, PrunedIsOld DEF Dead
<1>3. CASE \E p \in Polls : PollExpired(p)
  <2>1. PICK p \in Polls : PollExpired(p)
    BY <1>3
  <2>2. Keep(sessions \ {Of(p)}) /\ UNCHANGED inserts /\ asked[p].pc \in {"late", "ask"}
    BY <2>1 DEF PollExpired, Holds
  <2>3. s = Of(p)
    BY <1>1, <2>2, KeepKeeps DEF SignedIn
  <2>4. AtOf(p, s) /\ asked[p].pc # "date"
    BY <2>2, <2>3 DEF AtOf, Of
  <2>. QED
    BY <1>1, <2>4 DEF SsoInv, PollsKnown
<1>4. CASE \E x \in Sessions : InsertSession(x) \/ Elapse(x)
  <2>1. PICK x \in Sessions : InsertSession(x) \/ Elapse(x)
    BY <1>4
  <2>2. s \in sessions'
    BY <1>1, <2>1 DEF InsertSession, Elapse, sessions, PollsTyped
  <2>3. session'[s].token = TRUE
    BY <1>1, <2>1 DEF InsertSession, Elapse, PollsTyped
  <2>. QED
    BY <2>2, <2>3 DEF SignedIn
<1>5. CASE \E p \in Polls : \/ \E x \in Sessions : BeginPoll(p, x)
                            \/ PollToken(p) \/ DateToken(p) \/ PollAnswered(p)
  <2>1. s \in sessions'
    BY <1>1, <1>5 DEF BeginPoll, PollToken, DateToken, PollAnswered, sessions
  <2>2. session'[s].token = TRUE
    <3>1. CASE \E p \in Polls, x \in Sessions : BeginPoll(p, x)
      BY <1>1, <3>1 DEF BeginPoll, PollsTyped
    <3>2. CASE \E p \in Polls : PollToken(p)
      <4>1. PICK p \in Polls : PollToken(p)
        BY <3>2
      <4>2. Of(p) \in Sessions
        BY <1>1, <4>1 DEF Of, PollsTyped
      <4>. QED
        BY <1>1, <4>1, <4>2 DEF PollToken, PollsTyped
    <3>3. CASE \E p \in Polls : DateToken(p) \/ PollAnswered(p)
      BY <1>1, <3>3 DEF DateToken, PollAnswered, PollsTyped
    <3>. QED
      BY <1>5, <3>1, <3>2, <3>3
  <2>. QED
    BY <2>1, <2>2 DEF SignedIn
<1>. QED
  BY <1>2, <1>3, <1>4, <1>5 DEF SsoNext

LEMMA SsoAlways == SsoSpec => []SsoInv
<1>. QED
  BY SsoInitKeeps, SsoNextKeeps, PTL DEF SsoSpec

\* The variables of the table of sessions and of its polls keep their types.
THEOREM SsoTypeCorrect == SsoSpec => []SsoTypeOK
<1>1. SsoInv => SsoTypeOK
  BY DEF SsoInv, PollsTyped, StartingIsOut, SsoTypeOK
<1>. QED
  BY <1>1, SsoAlways, PTL

\* A user who has signed in stays signed in while the token is good, unless as
\* many sessions as the table keeps have been started since, two polls of the
\* session overlapped, or it was pruned before the end of its token was written.
THEOREM StaysSignedInAlways == SsoSpec => StaysSignedIn
<1>1. SsoInv /\ [SsoNext]_ssoVars =>
        [\A s \in Sessions :
            SignedIn(s) /\ ~SignedIn(s)' =>
              \/ Outnumbered(s)
              \/ session[s].shared
              \/ session[s].late /\ session[s].life # "ahead"]_ssoVars
  BY SignedOutWhy
<1>. QED
  BY <1>1, SsoAlways, PTL DEF SsoSpec, StaysSignedIn

-----------------------------------------------------------------------------
(* The load of a package.                                                  *)

LoadRecords ==
  [pc : {"idle", "upload", "submit", "sent", "done", "raised"},
   mode : Modes, volumeToo : BOOLEAN, stage : Stages,
   wh : {"none", "open", "done", "failed"}, count : Nat \cup {Unknown},
   status : {"none", "failed", "success", "completed_with_warnings"},
   failedAt : Stages \cup {"none"}, unread : BOOLEAN]
LoadTyped == load \in [Loads -> LoadRecords]

\* Every row was put there by an INSERT that is over.
TableTyped ==
  /\ table \in [there : BOOLEAN, inserts : Nat, rows : SUBSET (Files \X Nat)]
  /\ table.rows \subseteq Files \X (1..table.inserts)

LateTyped == late \subseteq Loads \X {"table", "insert_cast"}
QvdTyped == package \in Packages /\ uploadStatus \in BOOLEAN /\ volume \subseteq Files
            /\ LoadTyped /\ TableTyped /\ LateTyped

LEMMA RowsCount ==
  ASSUME NEW t, t.inserts \in Nat, t.rows \subseteq Files \X (1..t.inserts)
  PROVE  IsFiniteSet(t.rows) /\ RowsOf(t) \in Nat
<1>. DEFINE n == t.inserts
            all == Files \X (1..n)
<1>1. n \in Nat /\ t.rows \subseteq all
  OBVIOUS
<1>2. IsFiniteSet(1..n)
  BY <1>1, FS_Interval
<1>3. IsFiniteSet(all)
  BY <1>2, LoadAssumption, FS_Product
<1>. HIDE DEF all
<1>4. IsFiniteSet(t.rows)
  BY <1>1, <1>3, FS_Subset
<1>. QED
  BY <1>4, FS_CardinalityType DEF RowsOf

\* Where a statement that counts as a success leaves the call.
LEMMA PassedRecord ==
  ASSUME NEW l \in LoadRecords, NEW count \in Nat \cup {Unknown}
  PROVE  /\ Passed(l, count) \in LoadRecords
         /\ Passed(l, count).unread = l.unread /\ Passed(l, count).wh = "none"
         /\ Passed(l, count).count = count
         /\ Passed(l, count).pc = IF IsLast(l) THEN "done" ELSE "submit"
         /\ Passed(l, count).stage = IF IsLast(l) THEN l.stage ELSE NextStage(l)
         /\ Passed(l, count).status = IF l.stage = "count" THEN Verdict(count) ELSE l.status
<1>1. Verdict(count) \in {"success", "completed_with_warnings"}
  BY DEF Verdict
<1>2. NextStage(l) \in Stages
  BY DEF NextStage, Stages, LoadRecords
<1>. DEFINE pc == IF IsLast(l) THEN "done" ELSE "submit"
             stage == IF IsLast(l) THEN l.stage ELSE NextStage(l)
             status == IF l.stage = "count" THEN Verdict(count) ELSE l.status
<1>3. Passed(l, count) = [l EXCEPT !.wh = "none", !.count = count, !.pc = pc, !.stage = stage,
                                   !.status = status]
  BY DEF Passed
<1>4. pc \in {"done", "submit"} /\ stage \in Stages
  BY <1>2 DEF LoadRecords
<1>5. status \in {"none", "failed", "success", "completed_with_warnings"}
  BY <1>1 DEF LoadRecords
<1>. HIDE DEF pc, stage, status
<1>6. /\ Passed(l, count) \in LoadRecords
      /\ Passed(l, count).unread = l.unread /\ Passed(l, count).wh = "none"
      /\ Passed(l, count).count = count
      /\ Passed(l, count).pc = pc /\ Passed(l, count).stage = stage
      /\ Passed(l, count).status = status
  BY <1>3, <1>4, <1>5 DEF LoadRecords
<1>. QED
  BY <1>6 DEF pc, stage, status

\* What one call does to its record, whatever else happens: its next record.
LoadMoves(r, l) == load' = [load EXCEPT ![r] = l]

LEMMA MovesTyped ==
  ASSUME LoadTyped, NEW r \in Loads, NEW l \in LoadRecords, LoadMoves(r, l)
  PROVE  LoadTyped' /\ load'[r] = l /\ \A o \in Loads \ {r} : load'[o] = load[o]
BY DEF LoadTyped, LoadMoves

\* A call that has come to its INSERT, and one whose INSERT may still take effect.
Past(r) == load[r].stage \in {"insert_cast", "count"}
InsertOpen(r) ==
  \/ load[r].stage = "insert_cast" /\ load[r].pc = "submit"
  \/ load[r].stage = "insert_cast" /\ load[r].pc = "sent" /\ load[r].wh = "open"
  \/ <<r, "insert_cast">> \in late

\* What is late is of a call that is over and has reported it, or has misread an
\* answer; an INSERT is late once its call is past it.
CallInv(r) ==
  /\ load[r].pc \in {"idle", "upload"} => load[r].stage = "schema"
  /\ load[r].pc = "idle" => ~load[r].unread
  /\ ~load[r].unread =>
       \A stage \in Stages : <<r, stage>> \in late =>
         load[r].pc = "done" /\ load[r].status = "failed" /\ load[r].failedAt = stage
  /\ <<r, "insert_cast">> \in late =>
       Past(r) /\ (load[r].stage = "insert_cast" => load[r].pc \notin {"submit", "sent"})
  /\ load[r].stage # "count" => load[r].count = Unknown
  /\ load[r].count # Unknown => load[r].count <= RowsOf(table)
  /\ load[r].pc = "done" /\ load[r].status = "success" /\ load[r].stage = "count" =>
       load[r].count = Unknown \/ ~package.counted \/ load[r].count = SourceRows

\* One INSERT at most has been done by a call that no other call got as far as,
\* and none while its own is still to come.
Lone(r) == \A o \in Loads \ {r} : ~Past(o)
LoneInv(r) ==
  Lone(r) => table.inserts \in {0, 1} /\ (~Past(r) \/ InsertOpen(r) => table.inserts = 0)

QvdInv == QvdTyped /\ \A r \in Loads : CallInv(r) /\ LoneInv(r)

LEMMA CallStays ==
  ASSUME NEW r \in Loads, CallInv(r), load'[r] = load[r], package' = package, TableTyped, TableTyped',
         load[r].count \in Nat \cup {Unknown},
         RowsOf(table) <= RowsOf(table'), \A s : <<r, s>> \in late' => <<r, s>> \in late
  PROVE  CallInv(r)'
<1>1. RowsOf(table) \in Nat
  BY RowsCount DEF TableTyped
<1>2. RowsOf(table') \in Nat
  BY RowsCount DEF TableTyped
<1>. DEFINE m == RowsOf(table)
            n == RowsOf(table')
            c == load[r].count
<1>3. m \in Nat /\ n \in Nat /\ m <= n /\ c \in Nat \cup {Unknown} /\ (c # Unknown => c <= m)
  BY <1>1, <1>2 DEF CallInv
<1>. HIDE DEF m, n, c
<1>4. c # Unknown => c <= n
  BY <1>3
<1>. QED
  BY <1>4 DEF CallInv, Past, m, n, c, SourceRows

\* One call moves, and with it the table: by its INSERT if at all.
LEMMA CallMoves ==
  ASSUME QvdInv, QvdTyped', NEW r \in Loads, package' = package,
         RowsOf(table) <= RowsOf(table'),
         \A o \in Loads \ {r} : load'[o] = load[o],
         \A o \in Loads \ {r}, s \in Stages : <<o, s>> \in late' => <<o, s>> \in late,
         CallInv(r)', Past(r) => Past(r)',
         \/ /\ table'.inserts = table.inserts
            /\ ~Past(r)' \/ InsertOpen(r)' => ~Past(r) \/ InsertOpen(r)
         \/ /\ table'.inserts = table.inserts + 1
            /\ Past(r) /\ InsertOpen(r) /\ ~InsertOpen(r)'
  PROVE  QvdInv'
<1>1. ASSUME NEW o \in Loads PROVE CallInv(o)'
  <2>1. CASE o = r
    BY <2>1
  <2>2. CASE o # r
    <3>1. \A s : <<o, s>> \in late' => <<o, s>> \in late
      BY <2>2 DEF QvdTyped, LateTyped, Stages
    <3>2. load[o].count \in Nat \cup {Unknown} /\ TableTyped /\ TableTyped' /\ CallInv(o)
      BY DEF QvdInv, QvdTyped, LoadTyped, LoadRecords
    <3>. QED
      BY <2>2, <3>1, <3>2, CallStays
  <2>. QED
    BY <2>1, <2>2
<1>2. ASSUME NEW o \in Loads PROVE LoneInv(o)'
  <2>0. LoneInv(o)
    BY DEF QvdInv
  <2>1. Lone(o)' => Lone(o)
    BY DEF Lone, Past
  <2>2. CASE /\ table'.inserts = table.inserts
             /\ ~Past(r)' \/ InsertOpen(r)' => ~Past(r) \/ InsertOpen(r)
    <3>1. ~Past(o)' \/ InsertOpen(o)' => ~Past(o) \/ InsertOpen(o)
      <4>1. CASE o = r
        BY <2>2, <4>1
      <4>2. CASE o # r
        BY <4>2 DEF Past, InsertOpen, Stages
      <4>. QED
        BY <4>1, <4>2
    <3>. QED
      BY <2>0, <2>1, <2>2, <3>1 DEF LoneInv
  <2>3. CASE /\ table'.inserts = table.inserts + 1
             /\ Past(r) /\ InsertOpen(r) /\ ~InsertOpen(r)'
    <3>1. CASE o = r
      BY <2>0, <2>1, <2>3, <3>1 DEF LoneInv
    <3>2. CASE o # r
      <4>1. ~Lone(o)'
        BY <2>3, <3>2 DEF Lone
      <4>. QED
        BY <4>1 DEF LoneInv
    <3>. QED
      BY <3>1, <3>2
  <2>. QED
    BY <2>2, <2>3
<1>. QED
  BY <1>1, <1>2 DEF QvdInv

LEMMA CallOnly ==
  ASSUME QvdInv, QvdTyped', NEW r \in Loads, package' = package, table' = table,
         \A o \in Loads \ {r} : load'[o] = load[o],
         \A o \in Loads \ {r}, s \in Stages : <<o, s>> \in late' => <<o, s>> \in late,
         CallInv(r)', Past(r) => Past(r)',
         ~Past(r)' \/ InsertOpen(r)' => ~Past(r) \/ InsertOpen(r)
  PROVE  QvdInv'
<1>1. RowsOf(table) \in Nat
  BY RowsCount DEF QvdInv, QvdTyped, TableTyped
<1>2. RowsOf(table) <= RowsOf(table')
  BY <1>1
<1>3. table'.inserts = table.inserts
  OBVIOUS
<1>. QED
  BY <1>2, <1>3, CallMoves

LEMMA BeginKeeps ==
  ASSUME QvdInv, NEW r \in Loads, NEW call \in Calls, NEW connects \in BOOLEAN,
         BeginLoad(r, call, connects)
  PROVE  QvdInv'
<1>. DEFINE passes == PrecheckPasses(call[1]) /\ ConnectionPasses(call[1], connects)
            pc == IF passes THEN "upload" ELSE "done"
            status == IF passes THEN "success" ELSE "failed"
            l == [NoLoad EXCEPT !.mode = call[1], !.volumeToo = call[2], !.pc = pc, !.status = status]
<1>1. /\ load[r].pc = "idle" /\ load' = [load EXCEPT ![r] = l]
      /\ UNCHANGED <<package, uploadStatus, volume, table, late>>
  BY DEF BeginLoad
<1>2. call[1] \in Modes /\ call[2] \in BOOLEAN /\ pc \in {"upload", "done"} /\ status \in {"success", "failed"}
  BY LoadAssumption DEF Modes
<1>. HIDE DEF pc, status
<1>3. /\ l \in LoadRecords /\ l.stage = "schema" /\ l.count = Unknown /\ ~l.unread /\ l.pc = pc
  BY <1>2 DEF NoLoad, LoadRecords, Stages
<1>. HIDE DEF l
<1>4. LoadTyped' /\ load'[r] = l /\ \A o \in Loads \ {r} : load'[o] = load[o]
  BY <1>1, <1>3, MovesTyped DEF QvdInv, QvdTyped, LoadMoves
<1>5. QvdTyped'
  BY <1>1, <1>4 DEF QvdInv, QvdTyped, TableTyped, LateTyped
<1>6. CallInv(r) /\ load[r].stage = "schema" /\ ~load[r].unread
  BY <1>1 DEF QvdInv, CallInv
<1>7. \A s \in Stages : <<r, s>> \notin late
  BY <1>1, <1>6 DEF CallInv
<1>8. CallInv(r)'
  BY <1>1, <1>2, <1>3, <1>4, <1>7 DEF CallInv, Stages
<1>9. ~Past(r) /\ ~Past(r)'
  BY <1>3, <1>4, <1>6 DEF Past
<1>. QED
  BY <1>1, <1>4, <1>5, <1>8, <1>9, CallOnly

LEMMA PrepareKeeps ==
  ASSUME QvdInv, NEW r \in Loads, Prepare(r)
  PROVE  QvdInv'
<1>0. load \in [Loads -> LoadRecords] /\ load[r] \in LoadRecords /\ CallInv(r)
  BY DEF QvdInv, QvdTyped, LoadTyped
<1>1. load[r].pc = "upload" /\ UNCHANGED <<package, table, late>>
  BY DEF Prepare, SkipUpload, UploadRefused, Upload, UploadRaises, MustUpload
<1>2. uploadStatus' \in BOOLEAN /\ volume' \subseteq Files
  BY DEF Prepare, SkipUpload, UploadRefused, Upload, UploadRaises, QvdInv, QvdTyped
<1>3. PICK pc \in {"submit", "done", "raised"} :
        \/ load' = [load EXCEPT ![r].pc = pc]
        \/ load' = [load EXCEPT ![r].pc = "done", ![r].status = "failed",
                                ![r].failedAt = "none", ![r].wh = "none"]
  <2>1. CASE SkipUpload(r)
    BY <2>1 DEF SkipUpload, Onward
  <2>2. CASE UploadRefused(r)
    BY <2>2 DEF UploadRefused, Fails
  <2>3. CASE \E arrive \in SUBSET Files : Upload(r, arrive) \/ UploadRaises(r, arrive)
    BY <2>3 DEF Upload, UploadRaises
  <2>. QED
    BY <2>1, <2>2, <2>3 DEF Prepare
<1>4. /\ load' \in [Loads -> LoadRecords] /\ \A o \in Loads \ {r} : load'[o] = load[o]
      /\ load'[r].stage = load[r].stage /\ load'[r].count = load[r].count
      /\ load'[r].unread = load[r].unread /\ load'[r].pc \in {"submit", "done", "raised"}
  <2>1. CASE load' = [load EXCEPT ![r].pc = pc]
    BY <1>0, <2>1 DEF LoadRecords
  <2>2. CASE load' = [load EXCEPT ![r].pc = "done", ![r].status = "failed",
                                ![r].failedAt = "none", ![r].wh = "none"]
    BY <1>0, <2>2 DEF LoadRecords
  <2>. QED
    BY <1>3, <2>1, <2>2
<1>5. QvdTyped'
  BY <1>1, <1>2, <1>4 DEF QvdInv, QvdTyped, LoadTyped, TableTyped, LateTyped
<1>6. load[r].stage = "schema" /\ load[r].count = Unknown
  BY <1>0, <1>1 DEF CallInv
<1>7. /\ ~load[r].unread => \A s \in Stages : <<r, s>> \notin late
      /\ <<r, "insert_cast">> \notin late
  BY <1>0, <1>1, <1>6 DEF CallInv, Past
<1>8. CallInv(r)'
  BY <1>1, <1>4, <1>6, <1>7 DEF CallInv
<1>9. ~Past(r) /\ ~Past(r)'
  BY <1>4, <1>6 DEF Past
<1>. QED
  BY <1>1, <1>4, <1>5, <1>8, <1>9, CallOnly

LEMMA SubmitKeeps ==
  ASSUME QvdInv, NEW r \in Loads, Submit(r)
  PROVE  QvdInv'
<1>0. load \in [Loads -> LoadRecords] /\ load[r] \in LoadRecords /\ CallInv(r)
  BY DEF QvdInv, QvdTyped, LoadTyped
<1>1. load[r].pc = "submit" /\ UNCHANGED <<package, uploadStatus, volume, table, late>>
  BY DEF Submit
<1>2. PICK wh \in {"open", "failed"} : load' = [load EXCEPT ![r].pc = "sent", ![r].wh = wh]
  BY DEF Submit
<1>3. /\ load' \in [Loads -> LoadRecords] /\ \A o \in Loads \ {r} : load'[o] = load[o]
      /\ load'[r].stage = load[r].stage /\ load'[r].count = load[r].count
      /\ load'[r].unread = load[r].unread /\ load'[r].pc = "sent"
  BY <1>0, <1>2 DEF LoadRecords
<1>4. QvdTyped'
  BY <1>1, <1>3 DEF QvdInv, QvdTyped, LoadTyped, TableTyped, LateTyped
<1>5. CallInv(r)'
  BY <1>0, <1>1, <1>3 DEF CallInv, Past
<1>6. (Past(r) <=> Past(r)') /\ (InsertOpen(r)' => InsertOpen(r))
  BY <1>1, <1>3 DEF Past, InsertOpen
<1>. QED
  BY <1>1, <1>3, <1>4, <1>5, <1>6, CallOnly

LEMMA LeftOpenIs ==
  ASSUME NEW r
  PROVE  /\ LeftOpen(r) \subseteq {<<r, load[r].stage>>}
         /\ LeftOpen(r) # {} => load[r].wh = "open" /\ load[r].stage \in {"table", "insert_cast"}
BY DEF LeftOpen

LEMMA FailedKeeps ==
  ASSUME QvdInv, NEW r \in Loads, StatementFailed(r) \/ StatementGivenUp(r)
  PROVE  QvdInv'
<1>0. load \in [Loads -> LoadRecords] /\ load[r] \in LoadRecords /\ CallInv(r)
  BY DEF QvdInv, QvdTyped, LoadTyped
<1>. DEFINE stage == load[r].stage
            kept == IF StatementFailed(r) THEN {} ELSE LeftOpen(r)
<1>1. /\ load[r].pc = "sent" /\ UNCHANGED <<package, uploadStatus, volume, table>>
      /\ load' = [load EXCEPT ![r].pc = "done", ![r].status = "failed",
                              ![r].failedAt = stage, ![r].wh = "none"]
      /\ late' = late \cup kept
  BY DEF StatementFailed, StatementGivenUp, Fails
<1>2. /\ stage \in Stages /\ kept \subseteq {<<r, stage>>} /\ kept \subseteq Loads \X {"table", "insert_cast"}
      /\ (kept # {} => load[r].wh = "open")
  BY <1>0, LeftOpenIs DEF LoadRecords
<1>. HIDE DEF stage, kept
<1>3. /\ load' \in [Loads -> LoadRecords] /\ \A o \in Loads \ {r} : load'[o] = load[o]
      /\ load'[r].stage = load[r].stage /\ load'[r].count = load[r].count
      /\ load'[r].unread = load[r].unread /\ load'[r].pc = "done"
      /\ load'[r].status = "failed" /\ load'[r].failedAt = stage
  BY <1>0, <1>1, <1>2 DEF LoadRecords
<1>4. QvdTyped'
  BY <1>1, <1>2, <1>3 DEF QvdInv, QvdTyped, LoadTyped, TableTyped, LateTyped
<1>5. load[r].stage = stage
  BY DEF stage
<1>6. /\ ~load[r].unread => \A s \in Stages : <<r, s>> \notin late
      /\ <<r, "insert_cast">> \in late => Past(r)
  BY <1>0, <1>1 DEF CallInv
<1>7. CallInv(r)'
  BY <1>0, <1>1, <1>2, <1>3, <1>5, <1>6 DEF CallInv, Past
<1>8. Past(r) <=> Past(r)'
  BY <1>3 DEF Past
<1>9. InsertOpen(r)' => InsertOpen(r)
  BY <1>1, <1>2, <1>3, <1>5 DEF InsertOpen
<1>10. \A o \in Loads \ {r}, s \in Stages : <<o, s>> \in late' => <<o, s>> \in late
  BY <1>1, <1>2
<1>. QED
  BY <1>1, <1>3, <1>4, <1>7, <1>8, <1>9, <1>10, CallOnly

\* A statement that counts as a success, read or not.
LEMMA PassedKeeps ==
  ASSUME QvdInv, NEW r \in Loads, StatementPassed(r) \/ StatementUnread(r)
  PROVE  QvdInv'
<1>0. load \in [Loads -> LoadRecords] /\ load[r] \in LoadRecords /\ CallInv(r)
  BY DEF QvdInv, QvdTyped, LoadTyped
<1>. DEFINE stage == load[r].stage
            read == StatementPassed(r)
            count == IF read THEN load[r].count ELSE Unknown
            kept == IF read THEN {} ELSE LeftOpen(r)
            q == Passed(load[r], count)
            l == IF read THEN q ELSE [q EXCEPT !.unread = TRUE]
<1>1. /\ load[r].pc = "sent" /\ UNCHANGED <<package, uploadStatus, volume, table>>
      /\ load' = [load EXCEPT ![r] = l]
      /\ late' = late \cup kept /\ (read => load[r].wh = "done")
  BY <1>0 DEF StatementPassed, StatementUnread
<1>2. /\ stage \in Stages /\ kept \subseteq {<<r, stage>>} /\ kept \subseteq Loads \X {"table", "insert_cast"}
      /\ (kept # {} => load[r].wh = "open" /\ ~read) /\ count \in Nat \cup {Unknown}
      /\ (count = load[r].count \/ count = Unknown)
  BY <1>0, LeftOpenIs DEF LoadRecords
<1>. HIDE DEF read, count, kept
<1>3. /\ q \in LoadRecords /\ q.unread = load[r].unread /\ q.count = count
      /\ q.pc = (IF IsLast(load[r]) THEN "done" ELSE "submit")
      /\ q.stage = (IF IsLast(load[r]) THEN stage ELSE NextStage(load[r]))
      /\ q.status = (IF stage = "count" THEN Verdict(count) ELSE load[r].status)
  BY <1>0, <1>2, PassedRecord
<1>. HIDE DEF q
<1>4. /\ l \in LoadRecords /\ l.count = q.count /\ l.pc = q.pc /\ l.stage = q.stage /\ l.status = q.status
      /\ l.unread = (IF read THEN q.unread ELSE TRUE)
  <2>1. CASE read
    BY <1>3, <2>1
  <2>2. CASE ~read
    BY <1>3, <2>2 DEF LoadRecords
  <2>. QED
    BY <2>1, <2>2
<1>. HIDE DEF l
<1>5. LoadTyped' /\ load'[r] = l /\ \A o \in Loads \ {r} : load'[o] = load[o]
  BY <1>0, <1>1, <1>4, MovesTyped DEF LoadTyped, LoadMoves
<1>6. QvdTyped'
  BY <1>1, <1>2, <1>5 DEF QvdInv, QvdTyped, TableTyped, LateTyped
<1>7. /\ ~load[r].unread => \A s \in Stages : <<r, s>> \notin late
      /\ <<r, "insert_cast">> \in late => stage = "count"
  BY <1>0, <1>1 DEF CallInv, Past
\* Where the next statement is.
<1>8. CASE stage = "count"
  <2>1. l.pc = "done" /\ l.stage = "count" /\ l.status = Verdict(count)
    BY <1>3, <1>4, <1>8 DEF IsLast
  <2>2. l.status = "success" => count = Unknown \/ ~package.counted \/ count = SourceRows
    BY <2>1 DEF Verdict
  <2>3. kept = {}
    BY <1>2, <1>8
  <2>4. CallInv(r)'
    BY <1>0, <1>1, <1>2, <1>3, <1>4, <1>5, <1>7, <1>8, <2>1, <2>2, <2>3 DEF CallInv, Past, SourceRows
  <2>5. Past(r)' /\ (InsertOpen(r)' => InsertOpen(r))
    BY <1>1, <1>5, <2>1, <2>3 DEF Past, InsertOpen
  <2>6. \A o \in Loads \ {r}, s \in Stages : <<o, s>> \in late' => <<o, s>> \in late
    BY <1>1, <1>2
  <2>. QED
    BY <1>1, <1>5, <1>6, <2>4, <2>5, <2>6, CallOnly
<1>9. CASE stage # "count"
  <2>1. count = Unknown /\ <<r, "insert_cast">> \notin late
    BY <1>0, <1>2, <1>7, <1>9 DEF CallInv
  <2>2. /\ l.pc \in {"done", "submit"}
        /\ stage = "insert_cast" => l.stage = "count" /\ l.pc = "submit"
        /\ l.pc = "done" => l.stage = "table" /\ stage = "table"
    <3>1. stage = "insert_cast" => ~IsLast(load[r])
      BY DEF IsLast
    <3>2. IsLast(load[r]) => stage = "table"
      BY <1>9 DEF IsLast
    <3>3. stage = "insert_cast" => NextStage(load[r]) = "count"
      BY DEF NextStage
    <3>. QED
      BY <1>3, <1>4, <3>1, <3>2, <3>3
  <2>3. <<r, "insert_cast">> \in late' => stage = "insert_cast"
    BY <1>1, <1>2, <2>1
  <2>4. ~l.unread => late' = late /\ ~load[r].unread
    BY <1>1, <1>2, <1>3, <1>4
  <2>5. CallInv(r)'
    BY <1>3, <1>4, <1>5, <1>7, <2>1, <2>2, <2>3, <2>4 DEF CallInv, Past
  <2>6. Past(r) => Past(r)'
    BY <1>5, <1>9, <2>2 DEF Past
  <2>7. ~Past(r)' \/ InsertOpen(r)' => ~Past(r) \/ InsertOpen(r)
    <3>1. CASE stage # "insert_cast"
      BY <1>9, <3>1 DEF Past
    <3>2. CASE stage = "insert_cast"
      <4>1. Past(r)' /\ l.stage = "count"
        BY <1>5, <2>2, <3>2 DEF Past
      <4>2. InsertOpen(r)' => kept # {}
        BY <1>1, <1>5, <2>1, <4>1 DEF InsertOpen
      <4>3. kept # {} => InsertOpen(r)
        BY <1>1, <1>2, <3>2 DEF InsertOpen
      <4>. QED
        BY <4>1, <4>2, <4>3
    <3>. QED
      BY <3>1, <3>2
  <2>8. \A o \in Loads \ {r}, s \in Stages : <<o, s>> \in late' => <<o, s>> \in late
    BY <1>1, <1>2
  <2>. QED
    BY <1>1, <1>5, <1>6, <2>5, <2>6, <2>7, <2>8, CallOnly
<1>. QED
  BY <1>8, <1>9

\* What a statement does to the table.
LEMMA EffectIs ==
  ASSUME TableTyped, volume \subseteq Files, NEW stage, table' = Effect(stage)
  PROVE  /\ TableTyped' /\ RowsOf(table) <= RowsOf(table')
         /\ table'.inserts = IF stage = "insert_cast" THEN table.inserts + 1 ELSE table.inserts
<1>1. CASE stage = "table"
  <2>1. table' = [table EXCEPT !.there = TRUE]
    BY <1>1 DEF Effect, Created
  <2>2. TableTyped' /\ table'.rows = table.rows /\ table'.inserts = table.inserts
    BY <2>1 DEF TableTyped
  <2>3. RowsOf(table) \in Nat /\ RowsOf(table') = RowsOf(table)
    BY <2>2, RowsCount DEF TableTyped, RowsOf
  <2>. QED
    BY <1>1, <2>2, <2>3
<1>2. CASE stage = "insert_cast"
  <2>. DEFINE n == table.inserts
              more == table.rows \cup (Readable \X {n + 1})
  <2>1. table' = [table EXCEPT !.inserts = n + 1, !.rows = more]
    BY <1>2 DEF Effect, Inserted, TableTyped
  <2>2. n \in Nat /\ table.rows \subseteq Files \X (1..n) /\ Readable \subseteq Files
    BY DEF TableTyped, Readable
  <2>3. more \subseteq Files \X (1..(n + 1)) /\ more \in SUBSET (Files \X Nat) /\ n + 1 \in Nat
        /\ table.rows \subseteq more
    BY <2>2
  <2>. HIDE DEF n, more
  <2>4. TableTyped' /\ table'.rows = more /\ table'.inserts = n + 1
    BY <2>1, <2>3 DEF TableTyped
  <2>5. IsFiniteSet(table'.rows) /\ table.rows \subseteq table'.rows
    BY <2>3, <2>4, RowsCount DEF TableTyped
  <2>6. RowsOf(table) <= RowsOf(table')
    BY <2>5, FS_Subset DEF RowsOf
  <2>. QED
    BY <1>2, <2>4, <2>6 DEF n
<1>3. CASE stage \notin {"table", "insert_cast"}
  <2>1. table' = table
    BY <1>3 DEF Effect
  <2>2. RowsOf(table) \in Nat
    BY RowsCount DEF TableTyped
  <2>. QED
    BY <1>3, <2>1, <2>2 DEF TableTyped
<1>. QED
  BY <1>1, <1>2, <1>3

LEMMA EndsKeeps ==
  ASSUME QvdInv, NEW r \in Loads, WarehouseEnds(r)
  PROVE  QvdInv'
<1>0. load \in [Loads -> LoadRecords] /\ load[r] \in LoadRecords /\ CallInv(r)
      /\ TableTyped /\ volume \subseteq Files
  BY DEF QvdInv, QvdTyped, LoadTyped
<1>. DEFINE stage == load[r].stage
<1>1. /\ load[r].pc = "sent" /\ load[r].wh = "open"
      /\ UNCHANGED <<package, uploadStatus, volume, late>>
  BY DEF WarehouseEnds
<1>2. CASE table' = Effect(stage) /\ load' = [load EXCEPT ![r].wh = "done", ![r].count =
             IF stage = "count" THEN RowsOf(table) ELSE Unknown]
  <2>. DEFINE n == RowsOf(table)
              count == IF stage = "count" THEN n ELSE Unknown
  <2>1. n \in Nat /\ count \in Nat \cup {Unknown}
    BY <1>0, RowsCount DEF TableTyped
  <2>2. load' = [load EXCEPT ![r].wh = "done", ![r].count = count]
    BY <1>2
  <2>. HIDE DEF n, count
  <2>3. /\ load' \in [Loads -> LoadRecords] /\ \A o \in Loads \ {r} : load'[o] = load[o]
        /\ load'[r].stage = stage /\ load'[r].count = count /\ load'[r].wh = "done"
        /\ load'[r].unread = load[r].unread /\ load'[r].pc = "sent"
    BY <1>0, <1>1, <2>1, <2>2 DEF LoadRecords
  <2>4. /\ TableTyped' /\ RowsOf(table) <= RowsOf(table')
        /\ table'.inserts = IF stage = "insert_cast" THEN table.inserts + 1 ELSE table.inserts
    BY <1>0, <1>2, EffectIs
  <2>5. QvdTyped'
    BY <1>1, <2>3, <2>4 DEF QvdInv, QvdTyped, LoadTyped, LateTyped
  <2>6. /\ (stage # "count" => count = Unknown) /\ (count # Unknown => count = RowsOf(table))
    BY DEF count, n
  <2>7. count # Unknown => count <= RowsOf(table')
    BY <2>4, <2>6
  <2>8. CallInv(r)'
    BY <1>0, <1>1, <2>3, <2>6, <2>7 DEF CallInv, Past
  <2>9. Past(r) <=> Past(r)'
    BY <2>3 DEF Past
  <2>10. \/ /\ table'.inserts = table.inserts
            /\ ~Past(r)' \/ InsertOpen(r)' => ~Past(r) \/ InsertOpen(r)
         \/ /\ table'.inserts = table.inserts + 1
            /\ Past(r) /\ InsertOpen(r) /\ ~InsertOpen(r)'
    <3>1. CASE stage = "insert_cast"
      <4>1. <<r, "insert_cast">> \notin late
        BY <1>0, <1>1, <3>1 DEF CallInv
      <4>. QED
        BY <1>1, <2>3, <2>4, <3>1, <4>1 DEF Past, InsertOpen
    <3>2. CASE stage # "insert_cast"
      BY <1>1, <2>3, <2>4, <2>9, <3>2 DEF InsertOpen
    <3>. QED
      BY <3>1, <3>2
  <2>. QED
    BY <1>1, <2>3, <2>4, <2>5, <2>8, <2>9, <2>10, CallMoves
<1>3. CASE load' = [load EXCEPT ![r].wh = "failed"] /\ table' = table
  <2>1. /\ load' \in [Loads -> LoadRecords] /\ \A o \in Loads \ {r} : load'[o] = load[o]
        /\ load'[r].stage = stage /\ load'[r].count = load[r].count /\ load'[r].wh = "failed"
        /\ load'[r].unread = load[r].unread /\ load'[r].pc = "sent"
    BY <1>0, <1>1, <1>3 DEF LoadRecords
  <2>2. QvdTyped'
    BY <1>1, <1>3, <2>1 DEF QvdInv, QvdTyped, LoadTyped, TableTyped, LateTyped
  <2>3. CallInv(r)'
    BY <1>0, <1>1, <1>3, <2>1 DEF CallInv, Past
  <2>4. (Past(r) <=> Past(r)') /\ (InsertOpen(r)' => InsertOpen(r))
    BY <1>1, <2>1 DEF Past, InsertOpen
  <2>. QED
    BY <1>1, <1>3, <2>1, <2>2, <2>3, <2>4, CallOnly
<1>. QED
  BY <1>2, <1>3 DEF WarehouseEnds

LEMMA LateEndKeeps ==
  ASSUME QvdInv, NEW r, NEW stage, LateEnd(r, stage)
  PROVE  QvdInv'
<1>0. /\ <<r, stage>> \in late /\ late' = late \ {<<r, stage>>}
      /\ UNCHANGED <<package, uploadStatus, volume, load>>
      /\ table' = Effect(stage) \/ table' = table
  BY DEF LateEnd
<1>1. /\ r \in Loads /\ stage \in {"table", "insert_cast"}
      /\ TableTyped /\ volume \subseteq Files /\ CallInv(r)
  BY <1>0 DEF QvdInv, QvdTyped, LateTyped
<1>2. /\ TableTyped' /\ RowsOf(table) <= RowsOf(table')
      /\ \/ table'.inserts = table.inserts
         \/ table'.inserts = table.inserts + 1 /\ stage = "insert_cast"
  <2>1. CASE table' = Effect(stage)
    BY <1>1, <2>1, EffectIs
  <2>2. CASE table' = table
    <3>1. RowsOf(table) \in Nat
      BY <1>1, RowsCount DEF TableTyped
    <3>. QED
      BY <1>1, <2>2, <3>1 DEF TableTyped
  <2>. QED
    BY <1>0, <2>1, <2>2
<1>3. QvdTyped'
  BY <1>0, <1>2 DEF QvdInv, QvdTyped, LoadTyped, LateTyped
<1>4. \A s : <<r, s>> \in late' => <<r, s>> \in late
  BY <1>0
<1>5. load[r].count \in Nat \cup {Unknown}
  BY <1>1 DEF QvdInv, QvdTyped, LoadTyped, LoadRecords
<1>6. CallInv(r)'
  BY <1>0, <1>1, <1>2, <1>4, <1>5, CallStays
<1>7. (Past(r) <=> Past(r)') /\ (InsertOpen(r)' => InsertOpen(r))
  BY <1>0 DEF Past, InsertOpen
<1>8. stage = "insert_cast" => Past(r) /\ InsertOpen(r) /\ ~InsertOpen(r)'
  BY <1>0, <1>1 DEF CallInv, InsertOpen, Past
<1>. QED
  BY <1>0, <1>1, <1>2, <1>3, <1>4, <1>6, <1>7, <1>8, CallMoves

LEMMA QvdNextKeeps == QvdInv /\ [QvdNext]_qvdVars => QvdInv'
<1>. SUFFICES ASSUME QvdInv, [QvdNext]_qvdVars PROVE QvdInv'
  OBVIOUS
<1>1. ASSUME NEW r \in Loads, NEW call \in Calls, NEW connects \in BOOLEAN, BeginLoad(r, call, connects)
      PROVE  QvdInv'
  BY <1>1, BeginKeeps
<1>2. ASSUME NEW r \in Loads, Prepare(r) \/ Submit(r) \/ WarehouseEnds(r) \/ Answer(r) \/ StatementUnread(r)
      PROVE  QvdInv'
  BY <1>2, PrepareKeeps, SubmitKeeps, EndsKeeps, FailedKeeps, PassedKeeps DEF Answer
<1>3. ASSUME NEW r, NEW stage, LateEnd(r, stage) PROVE QvdInv'
  BY <1>3, LateEndKeeps
<1>4. CASE UNCHANGED qvdVars
  BY <1>4 DEF qvdVars, QvdInv, QvdTyped, LoadTyped, TableTyped, LateTyped, CallInv, LoneInv, Lone, Past,
              InsertOpen, RowsOf, SourceRows
<1>. QED
  BY <1>1, <1>2, <1>3, <1>4 DEF QvdNext

LEMMA QvdInitKeeps == QvdInit => QvdInv
<1>. SUFFICES ASSUME QvdInit PROVE QvdInv
  OBVIOUS
<1>1. /\ load = [r \in Loads |-> NoLoad] /\ NoLoad \in LoadRecords
      /\ NoLoad.pc = "idle" /\ NoLoad.stage = "schema" /\ ~NoLoad.unread /\ NoLoad.count = Unknown
  BY DEF QvdInit, NoLoad, LoadRecords, Modes, Stages
<1>2. TableTyped /\ LateTyped /\ table.inserts = 0 /\ late = {}
  BY DEF QvdInit, TableTyped, LateTyped
<1>3. QvdTyped
  BY <1>1, <1>2 DEF QvdInit, QvdTyped, LoadTyped
<1>4. ASSUME NEW r \in Loads PROVE CallInv(r) /\ LoneInv(r)
  BY <1>1, <1>2 DEF CallInv, LoneInv
<1>. QED
  BY <1>3, <1>4 DEF QvdInv

LEMMA QvdAlways == QvdSpec => []QvdInv
<1>. QED
  BY QvdInitKeeps, QvdNextKeeps, PTL DEF QvdSpec

\* The variables of a load keep their types.
THEOREM QvdTypeCorrect == QvdSpec => []QvdTypeOK
<1>1. QvdInv => QvdTypeOK
  BY DEF QvdInv, QvdTyped, LoadTyped, LoadRecords, TableTyped, LateTyped, QvdTypeOK
<1>. QED
  BY <1>1, QvdAlways, PTL

\* No call ends with a statement that may still change the table unless it has
\* failed at that statement, or has taken an answer without a state for a success.
THEOREM OpenIsReportedAlways == QvdSpec => []OpenIsReported
<1>1. QvdInv => OpenIsReported
  BY DEF QvdInv, CallInv, OpenIsReported
<1>. QED
  BY <1>1, QvdAlways, PTL

\* As many rows as the package has, of one INSERT, are every row of it once.
LEMMA OneInsert ==
  ASSUME TableTyped, table.inserts \in {0, 1}, SourceRows <= RowsOf(table)
  PROVE  \A f \in Files : Cardinality({row \in table.rows : row[1] = f}) = 1
<1>. DEFINE once == Files \X {1}
<1>1. table.rows \subseteq once
  BY DEF TableTyped
<1>2. IsFiniteSet(once) /\ Cardinality(once) = Cardinality(Files)
  <2>1. IsFiniteSet({1}) /\ Cardinality({1}) = 1
    BY FS_Singleton
  <2>2. IsFiniteSet(once) /\ Cardinality(once) = Cardinality(Files) * 1
    BY <2>1, LoadAssumption, FS_Product
  <2>3. Cardinality(Files) \in Nat
    BY LoadAssumption, FS_CardinalityType
  <2>. QED
    BY <2>2, <2>3
<1>. HIDE DEF once
<1>3. Cardinality(table.rows) <= Cardinality(once) /\ IsFiniteSet(table.rows)
      /\ (Cardinality(table.rows) = Cardinality(once) => table.rows = once)
  BY <1>1, <1>2, FS_Subset
<1>4. Cardinality(table.rows) \in Nat /\ Cardinality(once) \in Nat
  BY <1>2, <1>3, FS_CardinalityType
<1>5. table.rows = once
  BY <1>2, <1>3, <1>4 DEF SourceRows, RowsOf
<1>. TAKE f \in Files
<1>6. {row \in table.rows : row[1] = f} = {<<f, 1>>}
  BY <1>5 DEF once
<1>. QED
  BY <1>6, FS_Singleton

\* A load that reports success with a count, and was the only one to get as far as
\* its INSERT, has put every row of the package into the table exactly once, for
\* any number of files, overlapping loads and late or lost statements.
THEOREM LoneLoadIsExactAlways == QvdSpec => []LoneLoadIsExact
<1>1. QvdInv => LoneLoadIsExact
  <2>. SUFFICES ASSUME QvdInv, NEW r \in Loads,
                       load[r].pc = "done", load[r].status = "success",
                       load[r].stage = "count", load[r].count # Unknown, package.counted,
                       \A o \in Loads \ {r} : load[o].stage \notin {"insert_cast", "count"}
                PROVE  \A f \in Files : Cardinality({row \in table.rows : row[1] = f}) = 1
    BY DEF LoneLoadIsExact
  <2>1. load[r].count = SourceRows /\ load[r].count <= RowsOf(table)
    BY DEF QvdInv, CallInv
  <2>2. table.inserts \in {0, 1}
    BY DEF QvdInv, LoneInv, Lone, Past
  <2>. QED
    BY <2>1, <2>2, OneInsert DEF QvdInv, QvdTyped
<1>. QED
  BY <1>1, QvdAlways, PTL

-----------------------------------------------------------------------------
(* The jobs of a workflow.                                                 *)

\* The part of the state the property is about.
JobsTyped ==
  /\ jobs \in [Deploys -> Deploys \cup {NoDeploy}]
  /\ deploy \in [Deploys -> [pc : {"idle", "write", "sent", "done"}, ok : BOOLEAN,
                             target : Deploys \cup {NoDeploy}]]
  /\ open \subseteq Deploys /\ raced \in BOOLEAN
  /\ run \in [Checks -> [state : {"none", "active", "SUCCESS", "FAILED", "SKIPPED"},
                         job : Deploys \cup {NoDeploy}, settings : Deploys \cup {NoDeploy}]]

\* The job a deploy writes, and a deploy whose create may yet take effect.
JobOfDeploy(d) == IF IsCreate(d) THEN d ELSE deploy[d].target
Creating(d) == IsCreate(d) /\ (deploy[d].pc = "write" \/ d \in open)

\* What a deploy has found or made stays: no job ever goes away.
TargetsThere ==
  \A d \in Deploys :
    /\ ~IsCreate(d) => deploy[d].target \in JobsThere
    /\ deploy[d].pc = "idle" => IsCreate(d)
    /\ deploy[d].pc \in {"idle", "write"} => d \notin open
    /\ deploy[d].ok => JobOfDeploy(d) \in JobsThere /\ deploy[d].pc = "done"

\* While one deploy creates there is no job, and no other deploy creates.
LoneCreate ==
  ~raced =>
    /\ \A d, o \in Deploys : Creating(d) /\ Creating(o) => d = o
    /\ \A d \in Deploys : Creating(d) => JobsThere = {}
    /\ \A i, j \in JobsThere : i = j

\* Of one job at most one run is active.
RunsAlone ==
  /\ \A c \in Checks : run[c].state = "active" => run[c].job \in JobsThere
  /\ \A c, o \in Checks :
       run[c].state = "active" /\ run[o].state = "active" /\ run[c].job = run[o].job => c = o

JobInv == JobsTyped /\ TargetsThere /\ LoneCreate /\ RunsAlone

LEMMA JobInitKeeps == JobInit => JobInv
<1>. SUFFICES ASSUME JobInit PROVE JobInv
  OBVIOUS
<1>1. JobsTyped
  BY DEF JobInit, JobsTyped
<1>2. \A d \in Deploys : IsCreate(d) /\ ~Creating(d) /\ ~deploy[d].ok /\ d \notin open
  BY DEF JobInit, IsCreate, Creating
<1>3. JobsThere = {} /\ \A c \in Checks : run[c].state = "none"
  BY DEF JobInit, JobsThere
<1>. QED
  BY <1>1, <1>2, <1>3 DEF JobInv, TargetsThere, LoneCreate, RunsAlone

\* A listing either sees the one job there is or begins the one create.
LEMMA ListKeeps ==
  ASSUME JobInv, NEW d \in Deploys, ListJobs(d), UNCHANGED <<pushVars, checkVars>>
  PROVE  JobInv'
<1>1. PICK found \in Deploys \cup {NoDeploy} :
        /\ FirstMatch(found)
        /\ deploy' = [deploy EXCEPT ![d].pc = "write", ![d].target = found]
  BY DEF ListJobs
<1>2. /\ deploy'[d] = [deploy[d] EXCEPT !.pc = "write", !.target = found]
      /\ \A o \in Deploys \ {d} : deploy'[o] = deploy[o]
  BY <1>1 DEF JobInv, JobsTyped
<1>3. UNCHANGED <<jobs, open, run>> /\ JobsThere' = JobsThere
  BY DEF ListJobs, checkVars, JobsThere
<1>4. IsCreate(d)' <=> JobsThere = {}
  BY <1>1, <1>2, DeployAssumption DEF IsCreate, FirstMatch, JobsThere, JobInv, JobsTyped
<1>5. \A o \in Deploys \ {d} : IsCreate(o)' = IsCreate(o) /\ Creating(o)' = Creating(o)
  BY <1>2, <1>3 DEF IsCreate, Creating
<1>6. JobsTyped'
  <2>1. raced' \in BOOLEAN
    BY DEF ListJobs, JobInv, JobsTyped
  <2>2. DOMAIN deploy' = Deploys /\ deploy' = [o \in Deploys |-> deploy'[o]]
    BY <1>1 DEF JobInv, JobsTyped
  <2>. QED
    BY <2>1, <2>2, <1>1, <1>2, <1>3 DEF JobInv, JobsTyped
<1>7. TargetsThere'
  BY <1>1, <1>2, <1>3, <1>4, <1>5
  DEF JobInv, JobsTyped, TargetsThere, ListJobs, FirstMatch, IsCreate, JobOfDeploy, JobsThere
<1>8. LoneCreate'
  <2>1. SUFFICES ASSUME ~raced' PROVE LoneCreate'
    BY DEF LoneCreate
  <2>2. ~raced /\ \A o \in Deploys : ~Creating(o)
    BY <2>1 DEF ListJobs, Creating, JobInv, JobsTyped
  <2>. QED
    BY <2>2, <1>3, <1>4, <1>5 DEF JobInv, LoneCreate, Creating
<1>9. RunsAlone'
  BY <1>3 DEF JobInv, RunsAlone
<1>. QED
  BY <1>6, <1>7, <1>8, <1>9 DEF JobInv

\* A write that takes effect ends the create, if it is one.
LEMMA WriteKeeps ==
  ASSUME JobInv, NEW d \in Deploys, WriteEnds(d), UNCHANGED <<pushVars, checkVars>>
  PROVE  JobInv'
<1>1. UNCHANGED <<deploy, raced, run>> /\ open' = open \ {d} /\ d \in open
  BY DEF WriteEnds, checkVars
<1>2. \A o \in Deploys : IsCreate(o)' = IsCreate(o) /\ JobOfDeploy(o)' = JobOfDeploy(o)
  BY <1>1 DEF IsCreate, JobOfDeploy
<1>3. JobOfDeploy(d) \in Deploys
  BY DEF JobInv, JobsTyped, IsCreate, JobOfDeploy
<1>4. JobsThere' = JobsThere \/ JobsThere' = JobsThere \cup {JobOfDeploy(d)}
  BY <1>3, DeployAssumption DEF WriteEnds, JobsThere, JobOfDeploy, JobInv, JobsTyped
<1>5. ~IsCreate(d) => JobsThere' = JobsThere
  BY <1>4 DEF JobInv, TargetsThere, JobOfDeploy
<1>6. JobsTyped'
  BY <1>1, <1>3, DeployAssumption DEF WriteEnds, JobOfDeploy, JobInv, JobsTyped
<1>7. TargetsThere'
  BY <1>1, <1>2, <1>4 DEF JobInv, TargetsThere
<1>8. LoneCreate'
  <2>1. \A o \in Deploys : Creating(o)' => Creating(o) /\ o # d
    BY <1>1, <1>2 DEF Creating, JobInv, TargetsThere
  <2>2. CASE IsCreate(d)
    <3>1. Creating(d)
      BY <1>1, <2>2 DEF Creating
    <3>. QED
      BY <3>1, <2>1, <1>1, <1>4 DEF JobInv, LoneCreate
  <2>3. CASE ~IsCreate(d)
    BY <2>1, <2>3, <1>1, <1>5 DEF JobInv, LoneCreate
  <2>. QED
    BY <2>2, <2>3
<1>9. RunsAlone'
  BY <1>1, <1>4 DEF JobInv, RunsAlone
<1>. QED
  BY <1>6, <1>7, <1>8, <1>9 DEF JobInv

\* Sending and answering neither find nor make a job.
LEMMA AnswerKeeps ==
  ASSUME JobInv, NEW d \in Deploys, DeployFails(d) \/ SendWrite(d) \/ Deployed(d),
         UNCHANGED <<pushVars, checkVars>>
  PROVE  JobInv'
<1>1. UNCHANGED <<jobs, raced, run>> /\ JobsThere' = JobsThere
  BY DEF DeployFails, SendWrite, Deployed, checkVars, JobsThere
<1>2. JobsTyped'
  BY <1>1 DEF JobInv, JobsTyped, DeployFails, SendWrite, Deployed
<1>3. \A o \in Deploys : deploy'[o].target = deploy[o].target /\ IsCreate(o)' = IsCreate(o)
  BY DEF JobInv, JobsTyped, DeployFails, SendWrite, Deployed, IsCreate
<1>4. \A o \in Deploys : Creating(o)' => Creating(o)
  BY <1>3 DEF JobInv, JobsTyped, TargetsThere, DeployFails, SendWrite, Deployed, Creating
<1>5. TargetsThere'
  BY <1>1, <1>3 DEF JobInv, JobsTyped, TargetsThere, DeployFails, SendWrite, Deployed, JobOfDeploy, JobsThere
<1>. QED
  BY <1>1, <1>2, <1>4, <1>5 DEF JobInv, LoneCreate, RunsAlone

\* A run is started of a job that is there, and skipped beside an active one.
LEMMA CheckKeeps ==
  ASSUME JobInv, CheckNext
  PROVE  JobInv'
<1>1. UNCHANGED <<jobs, deploy, open, raced>> /\ JobsThere' = JobsThere
  BY DEF CheckNext, deployVars, JobsThere
<1>2. TargetsThere' /\ LoneCreate'
  BY <1>1 DEF JobInv, TargetsThere, LoneCreate, Creating, IsCreate, JobOfDeploy
<1>3. JobsTyped' /\ RunsAlone'
  <2>1. CASE UNCHANGED run
    BY <1>1, <2>1 DEF JobInv, JobsTyped, RunsAlone
  <2>2. ASSUME NEW c \in Checks, RunEnds(c) PROVE JobsTyped' /\ RunsAlone'
    BY <1>1, <2>2 DEF JobInv, JobsTyped, RunsAlone, RunEnds
  <2>3. ASSUME NEW c \in Checks, NEW d \in Deploys, RunNow(c, d) PROVE JobsTyped' /\ RunsAlone'
    <3>1. /\ JobOfDeploy(d) \in JobsThere /\ JobOfDeploy(d) \in Deploys
          /\ run' = [run EXCEPT ![c] = Started(JobOfDeploy(d))]
      BY <2>3 DEF RunNow, JobOfDeploy, JobInv, TargetsThere, JobsThere
    <3>2. JobsTyped'
      BY <1>1, <3>1 DEF JobInv, JobsTyped, Started
    <3>3. /\ run'[c] = Started(JobOfDeploy(d))
          /\ \A o \in Checks \ {c} : run'[o] = run[o]
      BY <3>1 DEF JobInv, JobsTyped
    <3>4. /\ run'[c].job = JobOfDeploy(d)
          /\ run'[c].state = "active" =>
               ~\E o \in Checks : run[o].state = "active" /\ run[o].job = JobOfDeploy(d)
      BY <3>3 DEF Started
    <3>. QED
      BY <1>1, <3>1, <3>2, <3>3, <3>4 DEF JobInv, RunsAlone
  <2>. QED
    BY <2>1, <2>2, <2>3 DEF CheckNext, RunNowFails, CheckStep, PollEnds, GiveUp
<1>. QED
  BY <1>2, <1>3 DEF JobInv

LEMMA JobNextKeeps == JobInv /\ [JobNext]_jobVars => JobInv'
<1>. SUFFICES ASSUME JobInv, [JobNext]_jobVars PROVE JobInv'
  OBVIOUS
<1>1. CASE DeployNext
  BY <1>1, ListKeeps, WriteKeeps, AnswerKeeps DEF DeployNext, DeployStep
<1>2. CASE CheckNext
  BY <1>2, CheckKeeps
<1>3. CASE PushNext \/ UNCHANGED jobVars
  <2>1. UNCHANGED <<deployVars, checkVars>>
    BY <1>3 DEF PushNext, jobVars
  <2>. QED
    BY <2>1 DEF deployVars, checkVars, JobInv, JobsTyped, TargetsThere, LoneCreate, RunsAlone,
                JobsThere, Creating, IsCreate, JobOfDeploy
<1>. QED
  BY <1>1, <1>2, <1>3 DEF JobNext

LEMMA JobAlways == JobSpec => []JobInv
<1>. QED
  BY JobInitKeeps, JobNextKeeps, PTL DEF JobSpec

\* Two jobs of one workflow, and so two active runs, need a deploy that lists while
\* another's create is under way; no sequence of failing or repeated calls makes them.
THEOREM DuplicatesNeedOverlapAlways == JobSpec => []DuplicatesNeedOverlap
<1>1. JobInv => DuplicatesNeedOverlap
  BY DEF JobInv, LoneCreate, RunsAlone, DuplicatesNeedOverlap
<1>. QED
  BY <1>1, JobAlways, PTL

-----------------------------------------------------------------------------
PushesTyped ==
  /\ node \in [Paths -> {"none", "notebook", "file"}]
  /\ push \in [Pushes -> [pc : {"idle", "import", "delete", "again", "done"},
                          todo : SUBSET Paths, at : Paths, failed : SUBSET Paths]]

\* The items a push is through with.
Dealt(p) ==
  {x \in Paths : push[p].pc = "done" \/ (push[p].pc # "idle" /\ x \notin push[p].todo /\ x # push[p].at)}
\* Another push has failed at x or is about to import it again.
Answerable(o, x) == x \in push[o].failed \/ (push[o].pc = "again" /\ push[o].at = x)
InPlace(p, x) == node[x] = KindOf[x] \/ \E o \in Pushes \ {p} : Answerable(o, x)

PushInv ==
  /\ PushesTyped
  /\ \A p \in Pushes : \A x \in Dealt(p) \ push[p].failed : InPlace(p, x)

\* The end of an item: nothing but the item is dealt with, and reported if it failed.
LEMMA ItemDoneDeals ==
  ASSUME PushesTyped, NEW p \in Pushes, NEW failed \in BOOLEAN, ItemDone(p, failed),
         push[p].pc \in {"import", "again"}
  PROVE  /\ \A o \in Pushes \ {p} : push'[o] = push[o]
         /\ push'[p].pc \in {"import", "done"}
         /\ push'[p].failed = IF failed THEN push[p].failed \cup {push[p].at} ELSE push[p].failed
         /\ Dealt(p)' \subseteq Dealt(p) \cup {push[p].at}
         /\ push' \in [Pushes -> [pc : {"idle", "import", "delete", "again", "done"},
                                todo : SUBSET Paths, at : Paths, failed : SUBSET Paths]]
<1>. DEFINE q == push[p]
            fails == IF failed THEN q.failed \cup {q.at} ELSE q.failed
            noted == [q EXCEPT !.failed = fails]
<1>1. q \in [pc : {"idle", "import", "delete", "again", "done"},
             todo : SUBSET Paths, at : Paths, failed : SUBSET Paths]
  BY DEF PushesTyped
<1>2. noted = [q EXCEPT !.failed = fails] /\ fails \in SUBSET Paths
  BY <1>1
<1>3. CASE q.todo = {} /\ push' = [push EXCEPT ![p] = [noted EXCEPT !.pc = "done"]]
  BY <1>1, <1>2, <1>3 DEF PushesTyped, Dealt
<1>4. ASSUME NEW x \in q.todo,
             push' = [push EXCEPT ![p] = [noted EXCEPT !.pc = "import", !.at = x, !.todo = @ \ {x}]]
      PROVE  /\ \A o \in Pushes \ {p} : push'[o] = push[o]
             /\ push'[p].pc = "import" /\ push'[p].failed = fails
             /\ Dealt(p)' \subseteq Dealt(p) \cup {q.at}
             /\ push' \in [Pushes -> [pc : {"idle", "import", "delete", "again", "done"},
                                    todo : SUBSET Paths, at : Paths, failed : SUBSET Paths]]
  BY <1>1, <1>2, <1>4 DEF PushesTyped, Dealt
<1>5. \/ q.todo = {} /\ push' = [push EXCEPT ![p] = [noted EXCEPT !.pc = "done"]]
      \/ \E x \in q.todo :
           push' = [push EXCEPT ![p] = [noted EXCEPT !.pc = "import", !.at = x, !.todo = @ \ {x}]]
  BY DEF ItemDone
<1>. QED
  BY <1>3, <1>4, <1>5 DEF PushesTyped

\* An import, made or failed, ends the item: it is in place or reported.
LEMMA ImportKeeps ==
  ASSUME PushInv, NEW p \in Pushes, Import(p) \/ ImportFails(p)
  PROVE  PushInv'
<1>. DEFINE x == push[p].at
<1>1. PICK failed \in BOOLEAN :
        /\ ItemDone(p, failed)
        /\ node' = [node EXCEPT ![x] = KindOf[x]] \/ (failed /\ node' = node)
  BY DEF Import, ImportFails
<1>2. push[p].pc \in {"import", "again"}
  BY DEF Import, ImportFails
<1>3. /\ \A o \in Pushes \ {p} : push'[o] = push[o]
      /\ push'[p].failed = IF failed THEN push[p].failed \cup {x} ELSE push[p].failed
      /\ Dealt(p)' \subseteq Dealt(p) \cup {x}
      /\ push' \in [Pushes -> [pc : {"idle", "import", "delete", "again", "done"},
                             todo : SUBSET Paths, at : Paths, failed : SUBSET Paths]]
  BY <1>1, <1>2, ItemDoneDeals DEF PushInv
<1>4. x \in Paths /\ PushesTyped'
  BY <1>1, <1>3, DeployAssumption DEF PushInv, PushesTyped
<1>5. \A y \in Paths : node[y] = KindOf[y] => node'[y] = KindOf[y]
  BY <1>1 DEF PushInv, PushesTyped
<1>6. node'[x] = KindOf[x] \/ x \in push'[p].failed
  BY <1>1, <1>3, <1>4 DEF PushInv, PushesTyped
<1>7. \A o \in Pushes, y \in Paths : Answerable(o, y) => Answerable(o, y)' \/ node'[y] = KindOf[y]
  <2>. SUFFICES ASSUME NEW o \in Pushes, NEW y \in Paths, Answerable(o, y)
                PROVE  Answerable(o, y)' \/ node'[y] = KindOf[y]
    OBVIOUS
  <2>1. CASE o # p
    BY <2>1, <1>3 DEF Answerable
  <2>2. CASE o = p
    BY <2>2, <1>3, <1>6 DEF Answerable
  <2>. QED
    BY <2>1, <2>2
<1>8. ASSUME NEW o \in Pushes, NEW y \in Dealt(o)' \ push'[o].failed PROVE InPlace(o, y)'
  <2>1. y \in Paths /\ y \notin push[o].failed
    BY <1>3, <1>8 DEF Dealt
  <2>2. y \in Dealt(o) \/ (o = p /\ y = x)
    BY <1>3, <1>8 DEF Dealt
  <2>3. CASE y \in Dealt(o)
    <3>1. InPlace(o, y)
      BY <2>1, <2>3 DEF PushInv
    <3>. QED
      BY <3>1, <2>1, <1>5, <1>7 DEF InPlace
  <2>4. CASE o = p /\ y = x
    BY <2>4, <1>6, <1>8 DEF InPlace
  <2>. QED
    BY <2>2, <2>3, <2>4
<1>. QED
  BY <1>4, <1>8 DEF PushInv

\* Who deletes a node answers for it until it is imported again.
LEMMA DeleteKeeps ==
  ASSUME PushInv, NEW p \in Pushes, DeleteNode(p)
  PROVE  PushInv'
<1>. DEFINE x == push[p].at
<1>1. /\ push[p].pc = "delete" /\ push'[p] = [push[p] EXCEPT !.pc = "again"]
      /\ \A o \in Pushes \ {p} : push'[o] = push[o]
      /\ \A y \in Paths \ {x} : node'[y] = node[y]
  BY DEF DeleteNode, PushInv, PushesTyped
<1>2. PushesTyped'
  BY DEF DeleteNode, PushInv, PushesTyped
<1>3. /\ push'[p].pc = "again" /\ push'[p].at = x /\ push'[p].failed = push[p].failed
      /\ push'[p].todo = push[p].todo
  BY <1>1 DEF PushInv, PushesTyped
<1>4. ASSUME NEW o \in Pushes, NEW y \in Dealt(o)' \ push'[o].failed PROVE InPlace(o, y)'
  <2>1. y \in Dealt(o) \ push[o].failed /\ y \in Paths /\ (o = p => y # x)
    BY <1>1, <1>3, <1>4 DEF Dealt
  <2>2. InPlace(o, y)
    BY <2>1 DEF PushInv
  <2>3. CASE y = x
    BY <2>1, <2>3, <1>3 DEF InPlace, Answerable
  <2>4. CASE y # x
    BY <2>1, <2>2, <2>4, <1>1, <1>3 DEF InPlace, Answerable
  <2>. QED
    BY <2>3, <2>4
<1>. QED
  BY <1>2, <1>4 DEF PushInv

\* Beginning a push and finding a node in the way deal with nothing.
LEMMA LookKeeps ==
  ASSUME PushInv, NEW p \in Pushes, BeginPush(p) \/ FindConflict(p)
  PROVE  PushInv'
<1>1. node' = node /\ push[p].pc # "done"
  BY DEF BeginPush, FindConflict
<1>2. /\ PushesTyped'
      /\ push'[p].pc \in {"import", "delete"} /\ push'[p].failed = push[p].failed
      /\ \A o \in Pushes \ {p} : push'[o] = push[o]
      /\ Dealt(p)' \subseteq Dealt(p) /\ push[p].pc # "again"
  <2>1. CASE BeginPush(p)
    <3>1. PICK x \in Paths :
            push' = [push EXCEPT ![p].pc = "import", ![p].at = x, ![p].todo = Paths \ {x}]
      BY <2>1 DEF BeginPush
    <3>2. push'[p] = [push[p] EXCEPT !.pc = "import", !.at = x, !.todo = Paths \ {x}]
      BY <3>1 DEF PushInv, PushesTyped
    <3>3. /\ push'[p].pc = "import" /\ push'[p].at = x /\ push'[p].todo = Paths \ {x}
          /\ push'[p].failed = push[p].failed
      BY <3>2 DEF PushInv, PushesTyped
    <3>4. PushesTyped' /\ \A o \in Pushes \ {p} : push'[o] = push[o]
      <4>. DEFINE begun == [push[p] EXCEPT !.pc = "import", !.at = x, !.todo = Paths \ {x}]
      <4>1. begun \in [pc : {"idle", "import", "delete", "again", "done"},
                       todo : SUBSET Paths, at : Paths, failed : SUBSET Paths]
        BY DEF PushInv, PushesTyped
      <4>2. push' = [push EXCEPT ![p] = begun]
        BY <3>1 DEF PushInv, PushesTyped
      <4>. HIDE DEF begun
      <4>. QED
        BY <1>1, <4>1, <4>2 DEF PushInv, PushesTyped
    <3>. QED
      BY <2>1, <3>3, <3>4 DEF BeginPush, Dealt
  <2>2. CASE FindConflict(p)
    <3>1. push'[p] = [push[p] EXCEPT !.pc = "delete"] /\ push[p].pc = "import"
      BY <2>2 DEF FindConflict, PushInv, PushesTyped
    <3>2. /\ push'[p].pc = "delete" /\ push'[p].at = push[p].at /\ push'[p].todo = push[p].todo
          /\ push'[p].failed = push[p].failed
      BY <3>1 DEF PushInv, PushesTyped
    <3>3. PushesTyped' /\ \A o \in Pushes \ {p} : push'[o] = push[o]
      BY <1>1, <2>2 DEF FindConflict, PushInv, PushesTyped
    <3>. QED
      BY <3>1, <3>2, <3>3 DEF Dealt
  <2>. QED
    BY <2>1, <2>2
<1>4. ASSUME NEW o \in Pushes, NEW y \in Dealt(o)' \ push'[o].failed PROVE InPlace(o, y)'
  <2>1. y \in Dealt(o) \ push[o].failed
    BY <1>2, <1>4 DEF Dealt
  <2>2. InPlace(o, y)
    BY <2>1 DEF PushInv
  <2>. QED
    BY <2>2, <1>1, <1>2 DEF InPlace, Answerable
<1>. QED
  BY <1>2, <1>4 DEF PushInv

LEMMA NextPushInv == PushInv /\ [JobNext]_jobVars => PushInv'
<1>. SUFFICES ASSUME PushInv, [JobNext]_jobVars PROVE PushInv'
  OBVIOUS
<1>1. CASE PushNext
  BY <1>1, ImportKeeps, DeleteKeeps, LookKeeps DEF PushNext, PushStep
<1>2. CASE UNCHANGED pushVars
  BY <1>2 DEF pushVars, PushInv, PushesTyped, Dealt, InPlace, Answerable
<1>. QED
  BY <1>1, <1>2 DEF JobNext, DeployNext, CheckNext, jobVars

\* What a push has not reported is in its place, or another push that was at the
\* same node answers for it.
THEOREM PushedIsThereAlways == JobSpec => []PushedIsThere
<1>1. JobInit => PushInv
  BY DeployAssumption DEF JobInit, PushInv, PushesTyped, Dealt
<1>2. PushInv => PushedIsThere
  BY DEF PushInv, PushesTyped, PushedIsThere, Dealt, InPlace, Answerable
<1>. QED
  BY <1>1, <1>2, NextPushInv, PTL DEF JobSpec

\* The answers of the run calls.
ChecksTyped == check \in [Checks -> [pc : {"idle", "poll", "done"}, verdict : BOOLEAN]]

LEMMA ChecksStep == ChecksTyped /\ [JobNext]_jobVars => ChecksTyped'
<1>1. CASE UNCHANGED check
  BY <1>1 DEF ChecksTyped
<1>2. ASSUME ChecksTyped, NEW c \in Checks,
             \/ \E d \in Deploys : RunNow(c, d)
             \/ RunNowFails(c) \/ RunEnds(c) \/ CheckStep(c)
      PROVE  ChecksTyped'
  BY <1>2 DEF ChecksTyped, RunNow, RunNowFails, RunEnds, CheckStep, PollEnds, GiveUp
<1>. QED
  BY <1>1, <1>2 DEF JobNext, DeployNext, PushNext, CheckNext, jobVars, checkVars

\* The variables of deploys, pushes and runs keep their types.
THEOREM JobTypeCorrect == JobSpec => []JobTypeOK
<1>1. JobInit => PushInv /\ ChecksTyped
  BY DeployAssumption DEF JobInit, PushInv, PushesTyped, Dealt, ChecksTyped
<1>2. JobInv /\ PushInv /\ ChecksTyped => JobTypeOK
  BY DEF JobInv, JobsTyped, PushInv, PushesTyped, ChecksTyped, JobTypeOK
<1>. QED
  BY <1>1, <1>2, JobAlways, NextPushInv, ChecksStep, PTL DEF JobSpec

-----------------------------------------------------------------------------
(* The comparison of two tables.                                           *)

\* A comparison has these fields, and those by side have both.
Form(r) ==
  /\ r = [pc |-> r.pc, key |-> r.key, cols |-> r.cols, asked |-> r.asked,
          counts |-> r.counts, badKeys |-> r.badKeys, agg |-> r.agg, failures |-> r.failures]
  /\ r.asked \in 0..6
  /\ r.cols = [s \in Sides |-> r.cols[s]] /\ r.counts = [s \in Sides |-> r.counts[s]]
  /\ r.badKeys = [s \in Sides |-> r.badKeys[s]] /\ r.agg = [s \in Sides |-> r.agg[s]]

\* What was answered is what was asked of the tables as they are.
Fetched ==
  LET rows == Pair.source.rows
      fingerprint(t) == [c \in Compared |-> Aggregates(t, c, ComparedAsNumber(c))]
  IN  /\ rec.asked >= 1 => rec.counts["source"] = Len(rows)
      /\ rec.asked >= 2 => rec.badKeys["source"] = BadKeys(rows, rec.key)
      /\ rec.asked >= 3 => rec.agg["source"] = fingerprint(rows)
      /\ ~moved =>
           /\ rec.asked >= 4 => rec.counts["candidate"] = Len(now)
           /\ rec.asked >= 5 => rec.badKeys["candidate"] = BadKeys(now, rec.key)
           /\ rec.asked >= 6 => rec.agg["candidate"] = fingerprint(now)

SameColumns ==
  Cols("source") = Cols("candidate") /\ Drifted = {} /\ rec.key \subseteq Cols("source")

RecTyped ==
  /\ pairs \in Requests /\ results \in Seq(BOOLEAN) /\ IsList(now) /\ Form(rec)
  /\ Len(results) <= Len(pairs)
  /\ rec.pc \in {"pair", "parity", "query", "compare", "references", "verdict"}

RecInv ==
  /\ RecTyped
  /\ rec.pc # "pair" => Len(results) < Len(pairs) /\ ~Pair.refused
  /\ \A i \in 1..Len(results) : results[i] => ~pairs[i].refused /\ pairs[i].source.rows # <<>>
  /\ rec.pc \in {"pair", "parity"} => rec.asked = 0
  /\ rec.pc = "query" => rec.asked <= 5
  /\ rec.pc = "compare" => rec.asked = 6
  /\ rec.pc \in {"query", "compare"} => Fetched /\ (rec.failures = {} => SameColumns)
  /\ rec.pc \in {"references", "verdict"} /\ rec.failures = {} => Alike

LEMMA RowsAreLists ==
  ASSUME pairs \in Requests
  PROVE  /\ pairs \in Seq(ToSet(pairs))
         /\ \A i \in 1..Len(pairs) : /\ IsList(pairs[i].source.rows)
                                     /\ IsList(pairs[i].candidate.rows) /\ IsList(pairs[i].rebuilt)
<1>1. /\ pairs \in Seq(ToSet(pairs))
      /\ \A p \in ToSet(pairs) : IsList(p.source.rows) /\ IsList(p.candidate.rows) /\ IsList(p.rebuilt)
  BY RequestsAssumption DEF IsList
<1>. QED
  BY <1>1 DEF ToSet

LEMMA NoRows == IsList(<<>>)
BY DEF IsList

LEMMA CandidateIsList ==
  ASSUME pairs \in Requests, NEW n \in Nat
  PROVE  IsList(FirstRows(SubSeq(pairs, n + 1, Len(pairs))))
<1>. DEFINE rest == SubSeq(pairs, n + 1, Len(pairs))
<1>1. pairs \in Seq(ToSet(pairs)) /\ Len(pairs) \in Nat
  BY RowsAreLists
<1>2. CASE n + 1 <= Len(pairs)
  <2>1. n + 1 \in 1..Len(pairs) /\ Len(pairs) \in (n + 1)..Len(pairs)
    BY <1>1, <1>2
  <2>2. Head(rest) = pairs[n + 1]
    BY <1>1, <2>1, HeadTailOfSubSeq
  <2>3. IsList(pairs[n + 1].candidate.rows)
    BY <2>1, RowsAreLists
  <2>. HIDE DEF rest
  <2>. QED
    BY <2>2, <2>3, NoRows DEF FirstRows
<1>3. CASE ~(n + 1 <= Len(pairs))
  <2>1. rest = <<>>
    BY <1>1, <1>3
  <2>. QED
    BY <2>1, NoRows DEF FirstRows
<1>. QED
  BY <1>2, <1>3

LEMMA BadKeysCounts ==
  ASSUME NEW rows, IsList(rows), NEW key
  PROVE  BadKeys(rows, key) \in Nat
<1>. DEFINE keyOf(i) == [c \in key |-> rows[i][c]]
            groups == {keyOf(i) : i \in DOMAIN rows}
            twice == {g \in groups : Cardinality({i \in DOMAIN rows : keyOf(i) = g}) > 1}
            partial == {i \in DOMAIN rows : \E c \in key : rows[i][c] = Null}
<1>1. IsFiniteSet(DOMAIN rows)
  <2>1. DOMAIN rows = 1..Len(rows) /\ Len(rows) \in Nat
    BY DEF IsList
  <2>. QED
    BY <2>1, FS_Interval
<1>2. IsFiniteSet(groups)
  <2>. DEFINE f == [i \in DOMAIN rows |-> keyOf(i)]
  <2>. HIDE DEF keyOf
  <2>1. f \in Surjection(DOMAIN rows, groups)
    BY DEF Surjection
  <2>. HIDE DEF f, groups
  <2>. QED
    BY <1>1, <2>1, FS_Surjection
<1>3. Cardinality(twice) \in Nat /\ Cardinality(partial) \in Nat
  <2>1. twice \subseteq groups /\ partial \subseteq DOMAIN rows
    OBVIOUS
  <2>. HIDE DEF twice, groups, partial
  <2>. QED
    BY <1>1, <1>2, <2>1, FS_Subset, FS_CardinalityType
<1>4. BadKeys(rows, key) = IF key = {} THEN 0 ELSE Cardinality(twice) + Cardinality(partial)
  BY Zenon DEF BadKeys
<1>. HIDE DEF twice, partial
<1>. QED
  BY <1>3, <1>4

\* The fields of a comparison that has moved on.
Keeps(q, r) ==
  /\ q.key = r.key /\ q.cols = r.cols /\ q.asked = r.asked
  /\ q.counts = r.counts /\ q.badKeys = r.badKeys /\ q.agg = r.agg

Moved(r, pc, failures) == [r EXCEPT !.pc = pc, !.failures = failures]

LEMMA FieldsChange ==
  ASSUME NEW p, NEW k, NEW c, NEW a, NEW n, NEW b, NEW g, NEW f, NEW r,
         r = [pc |-> p, key |-> k, cols |-> c, asked |-> a,
              counts |-> n, badKeys |-> b, agg |-> g, failures |-> f]
  PROVE  /\ \A pc, x, q : q = [r EXCEPT !.pc = pc, !.failures = x] =>
              q = [pc |-> pc, key |-> k, cols |-> c, asked |-> a,
                   counts |-> n, badKeys |-> b, agg |-> g, failures |-> x]
         /\ \A pc, x, q : q = [r EXCEPT !.asked = x, !.pc = pc] =>
              q = [pc |-> pc, key |-> k, cols |-> c, asked |-> x,
                   counts |-> n, badKeys |-> b, agg |-> g, failures |-> f]
<1>1. ASSUME NEW pc, NEW x, NEW q, q = [r EXCEPT !.pc = pc, !.failures = x]
      PROVE  q = [pc |-> pc, key |-> k, cols |-> c, asked |-> a,
                  counts |-> n, badKeys |-> b, agg |-> g, failures |-> x]
  BY <1>1
<1>2. ASSUME NEW pc, NEW x, NEW q, q = [r EXCEPT !.asked = x, !.pc = pc]
      PROVE  q = [pc |-> pc, key |-> k, cols |-> c, asked |-> x,
                  counts |-> n, badKeys |-> b, agg |-> g, failures |-> f]
  BY <1>2
<1>. QED
  BY <1>1, <1>2, Zenon

LEMMA MovedOn ==
  ASSUME NEW r, Form(r), NEW pc, NEW failures
  PROVE  /\ Form(Moved(r, pc, failures)) /\ Keeps(Moved(r, pc, failures), r)
         /\ Moved(r, pc, failures).pc = pc /\ Moved(r, pc, failures).failures = failures
<1>. DEFINE q == Moved(r, pc, failures)
<1>1. q = [pc |-> pc, key |-> r.key, cols |-> r.cols, asked |-> r.asked,
           counts |-> r.counts, badKeys |-> r.badKeys, agg |-> r.agg, failures |-> failures]
  <2>1. r = [pc |-> r.pc, key |-> r.key, cols |-> r.cols, asked |-> r.asked,
             counts |-> r.counts, badKeys |-> r.badKeys, agg |-> r.agg, failures |-> r.failures]
    BY DEF Form
  <2>. DEFINE p == r.pc k == r.key c == r.cols a == r.asked
              n == r.counts b == r.badKeys g == r.agg f == r.failures
  <2>2. r = [pc |-> p, key |-> k, cols |-> c, asked |-> a,
             counts |-> n, badKeys |-> b, agg |-> g, failures |-> f]
    BY <2>1
  <2>a. q = [r EXCEPT !.pc = pc, !.failures = failures]
    BY DEF Moved
  <2>. HIDE DEF p, k, c, a, n, b, g, f, q
  <2>3. q = [pc |-> pc, key |-> k, cols |-> c, asked |-> a,
             counts |-> n, badKeys |-> b, agg |-> g, failures |-> failures]
    BY <2>2, <2>a, FieldsChange
  <2>. QED
    BY <2>3 DEF k, c, a, n, b, g
<1>. HIDE DEF q
<1>2. Form(q) /\ Keeps(q, r) /\ q.pc = pc /\ q.failures = failures
  BY <1>1 DEF Form, Keeps
<1>. QED
  BY <1>2 DEF q

LEMMA BlankForm == Form(Blank) /\ Blank.pc = "pair" /\ Blank.asked = 0
BY DEF Form, Blank, Sides

LEMMA SameQuestion ==
  ASSUME UNCHANGED <<pairs, results>>, rec'.cols = rec.cols, rec'.key = rec.key
  PROVE  /\ Pair' = Pair /\ Compared' = Compared
         /\ \A c : ComparedAsNumber(c)' = ComparedAsNumber(c)
         /\ SameColumns' = SameColumns
<1>1. Pair' = Pair
  BY DEF Pair
<1>2. \A s : Cols(s)' = Cols(s)
  BY DEF Cols
<1>3. \A s, c : Numeric(s, c)' = Numeric(s, c)
  BY DEF Numeric
<1>4. Compared' = Compared
  BY <1>1, <1>2 DEF Compared, Shared
<1>5. \A c : ComparedAsNumber(c)' = ComparedAsNumber(c)
  BY <1>3 DEF ComparedAsNumber
<1>6. Drifted' = Drifted
  BY <1>2, <1>3 DEF Drifted
<1>. QED
  BY <1>1, <1>2, <1>4, <1>5, <1>6 DEF SameColumns

LEMMA PairStays == ASSUME UNCHANGED <<pairs, results>> PROVE Pair' = Pair
BY DEF Pair

\* A verdict that a pass is right is added and the next pair begun.
LEMMA NextPairKeeps ==
  ASSUME RecInv, NEW verdict \in BOOLEAN, Len(results) < Len(pairs),
         verdict => ~Pair.refused /\ Pair.source.rows # <<>>,
         NextPair(verdict), UNCHANGED pairs
  PROVE  RecInv'
<1>1. /\ results' = Append(results, verdict) /\ rec' = Blank
      /\ now' = FirstRows(SubSeq(pairs, Len(results) + 2, Len(pairs)))
  BY DEF NextPair
<1>2. /\ results \in Seq(BOOLEAN) /\ Len(results) \in Nat
      /\ pairs \in Requests /\ Len(pairs) \in Nat
  BY RowsAreLists DEF RecInv, RecTyped
<1>3. results' \in Seq(BOOLEAN) /\ Len(results') = Len(results) + 1
  BY <1>1, <1>2
<1>4. IsList(now')
  <2>1. Len(results) + 1 \in Nat /\ (Len(results) + 1) + 1 = Len(results) + 2
    BY <1>2
  <2>. QED
    BY <1>1, <1>2, <2>1, CandidateIsList
<1>5. RecTyped'
  <2>1. Len(results') <= Len(pairs')
    BY <1>2, <1>3
  <2>. QED
    BY <1>1, <1>2, <1>3, <1>4, <2>1, BlankForm DEF RecTyped
<1>6. ASSUME NEW i \in 1..Len(results'), results'[i]
      PROVE  ~pairs[i].refused /\ pairs[i].source.rows # <<>>
  <2>1. CASE i = Len(results) + 1
    <3>1. results'[i] = verdict
      BY <1>1, <1>2, <2>1
    <3>. QED
      BY <1>6, <2>1, <3>1 DEF Pair
  <2>2. CASE i # Len(results) + 1
    <3>1. i \in 1..Len(results)
      BY <1>2, <1>3, <2>2
    <3>2. results'[i] = results[i]
      BY <1>1, <1>2, <3>1
    <3>. QED
      BY <1>6, <3>1, <3>2 DEF RecInv
  <2>. QED
    BY <2>1, <2>2
<1>. QED
  BY <1>1, <1>5, <1>6, BlankForm DEF RecInv

LEMMA ReadColumnsKeeps == ASSUME RecInv, ReadColumns PROVE RecInv'
<1>1. PICK read \in SUBSET Sides : \E key :
        rec' = [rec EXCEPT !.pc = "parity",
                           !.cols = [s \in Sides |-> IF s \in read THEN Pair[s].types ELSE <<>>], !.key = key]
  BY DEF ReadColumns
<1>2. UNCHANGED <<pairs, now, results>> /\ Len(results) < Len(pairs) /\ ~Pair.refused /\ rec.pc = "pair"
  BY DEF ReadColumns
<1>3. Form(rec') /\ rec'.pc = "parity" /\ rec'.asked = rec.asked
  <2>. PICK key : rec' = [rec EXCEPT !.pc = "parity",
                    !.cols = [s \in Sides |-> IF s \in read THEN Pair[s].types ELSE <<>>], !.key = key]
    BY <1>1
  <2>. DEFINE cols == [s \in Sides |-> IF s \in read THEN Pair[s].types ELSE <<>>]
  <2>1. rec' = [pc |-> "parity", key |-> key, cols |-> cols, asked |-> rec.asked,
                counts |-> rec.counts, badKeys |-> rec.badKeys, agg |-> rec.agg, failures |-> rec.failures]
    BY DEF RecInv, RecTyped, Form
  <2>2. cols = [s \in Sides |-> cols[s]]
    OBVIOUS
  <2>. HIDE DEF cols
  <2>. QED
    BY <2>1, <2>2 DEF RecInv, RecTyped, Form
<1>. QED
  BY <1>2, <1>3, PairStays DEF RecInv, RecTyped

LEMMA CheckSchemaKeeps == ASSUME RecInv, CheckSchema PROVE RecInv'
<1>. DEFINE keyless == ~Unreadable /\ ~(rec.key \subseteq Cols("source") \cap Cols("candidate"))
            bad == (IF Unreadable THEN {"columns"} ELSE {})
                   \cup (IF ~Unreadable /\ OneSided # {} THEN {"parity"} ELSE {})
                   \cup (IF ~Unreadable /\ Drifted # {} THEN {"drift"} ELSE {})
                   \cup (IF keyless THEN {"key"} ELSE {})
            pc == IF Unreadable \/ keyless THEN Onwards ELSE "query"
<1>1. /\ rec' = [rec EXCEPT !.pc = pc, !.failures = bad]
      /\ UNCHANGED <<pairs, now, moved, results>> /\ rec.pc = "parity"
  BY DEF CheckSchema
<1>2. bad = {} => SameColumns /\ ~(Unreadable \/ keyless)
  BY DEF SameColumns, OneSided
<1>3. pc \in {"references", "verdict", "query"} /\ (pc = "query" <=> ~(Unreadable \/ keyless))
  BY DEF Onwards
<1>. HIDE DEF pc, bad, keyless
<1>4. Form(rec') /\ rec'.pc = pc /\ rec'.failures = bad /\ Keeps(rec', rec)
  <2>1. Form(rec)
    BY DEF RecInv, RecTyped
  <2>2. rec' = Moved(rec, pc, bad)
    BY <1>1 DEF Moved
  <2>. QED
    BY <2>1, <2>2, MovedOn
<1>5. rec'.asked = 0 /\ rec'.cols = rec.cols /\ rec'.key = rec.key
  BY <1>1, <1>4 DEF Keeps, RecInv
<1>6. Pair' = Pair /\ SameColumns' = SameColumns
  BY <1>1, <1>5, SameQuestion
<1>7. Fetched'
  BY <1>5 DEF Fetched
<1>. QED
  BY <1>1, <1>2, <1>3, <1>4, <1>5, <1>6, <1>7 DEF RecInv, RecTyped

\* What a query changes.
LEMMA QueryAnswers ==
  ASSUME RecInv, Query
  PROVE  /\ Form(rec') /\ rec'.asked = rec.asked + 1
         /\ rec'.key = rec.key /\ rec'.cols = rec.cols /\ rec'.failures = rec.failures
         /\ rec'.pc = IF rec.asked = 5 THEN "compare" ELSE "query"
         /\ rec'.counts = IF rec.asked % 3 = 0
                          THEN [rec.counts EXCEPT ![SideAsked] = Len(RowsOn(SideAsked))] ELSE rec.counts
         /\ rec'.badKeys = IF rec.asked % 3 = 1
                           THEN [rec.badKeys EXCEPT ![SideAsked] = BadKeys(RowsOn(SideAsked), rec.key)]
                           ELSE rec.badKeys
         /\ rec'.agg = IF rec.asked % 3 = 2
                       THEN [rec.agg EXCEPT ![SideAsked] =
                               [c \in Compared |-> Aggregates(RowsOn(SideAsked), c, ComparedAsNumber(c))]]
                       ELSE rec.agg
<1>. DEFINE s == SideAsked
            next == IF rec.asked = 5 THEN "compare" ELSE "query"
            answered == [rec EXCEPT !.asked = @ + 1, !.pc = next]
            print == [c \in Compared |-> Aggregates(RowsOn(s), c, ComparedAsNumber(c))]
            count == Len(RowsOn(s))
            badkeys == BadKeys(RowsOn(s), rec.key)
<1>1. /\ rec' = CASE rec.asked % 3 = 0 -> [answered EXCEPT !.counts[s] = count]
                  [] rec.asked % 3 = 1 -> [answered EXCEPT !.badKeys[s] = badkeys]
                  [] OTHER -> [answered EXCEPT !.agg[s] = print]
      /\ rec.pc = "query"
  BY Zenon DEF Query
<1>2. Form(rec) /\ rec.asked \in 0..5 /\ s \in Sides
  BY <1>1 DEF RecInv, RecTyped, Form, SideAsked, Sides
<1>. HIDE DEF s, next, print, count, badkeys
<1>3. answered = [pc |-> next, key |-> rec.key, cols |-> rec.cols, asked |-> rec.asked + 1,
                  counts |-> rec.counts, badKeys |-> rec.badKeys, agg |-> rec.agg, failures |-> rec.failures]
  <2>1. rec = [pc |-> rec.pc, key |-> rec.key, cols |-> rec.cols, asked |-> rec.asked,
               counts |-> rec.counts, badKeys |-> rec.badKeys, agg |-> rec.agg, failures |-> rec.failures]
    BY <1>2 DEF Form
  <2>. DEFINE p == rec.pc k == rec.key o == rec.cols a == rec.asked
              n == rec.counts b == rec.badKeys g == rec.agg f == rec.failures
  <2>2. rec = [pc |-> p, key |-> k, cols |-> o, asked |-> a,
               counts |-> n, badKeys |-> b, agg |-> g, failures |-> f]
    BY <2>1
  <2>3. answered = [rec EXCEPT !.asked = a + 1, !.pc = next]
    OBVIOUS
  <2>. HIDE DEF p, k, o, a, n, b, g, f, answered
  <2>4. answered = [pc |-> next, key |-> k, cols |-> o, asked |-> a + 1,
                    counts |-> n, badKeys |-> b, agg |-> g, failures |-> f]
    BY <2>2, <2>3, FieldsChange
  <2>. QED
    BY <2>4 DEF k, o, a, n, b, g, f
<1>. HIDE DEF answered
<1>4. rec.asked + 1 \in 0..6
  BY <1>2
<1>5. /\ [rec.counts EXCEPT ![s] = count] = [x \in Sides |-> [rec.counts EXCEPT ![s] = count][x]]
      /\ [rec.badKeys EXCEPT ![s] = badkeys] = [x \in Sides |-> [rec.badKeys EXCEPT ![s] = badkeys][x]]
      /\ [rec.agg EXCEPT ![s] = print] = [x \in Sides |-> [rec.agg EXCEPT ![s] = print][x]]
  BY <1>2 DEF Form
<1>6. CASE rec.asked % 3 = 0
  <2>1. rec' = [pc |-> next, key |-> rec.key, cols |-> rec.cols, asked |-> rec.asked + 1,
                counts |-> [rec.counts EXCEPT ![s] = count], badKeys |-> rec.badKeys, agg |-> rec.agg,
                failures |-> rec.failures]
    BY <1>1, <1>3, <1>6
  <2>. QED
    BY <1>2, <1>4, <1>5, <1>6, <2>1 DEF Form, s, next, count
<1>7. CASE rec.asked % 3 = 1
  <2>1. rec' = [pc |-> next, key |-> rec.key, cols |-> rec.cols, asked |-> rec.asked + 1,
                counts |-> rec.counts, badKeys |-> [rec.badKeys EXCEPT ![s] = badkeys], agg |-> rec.agg,
                failures |-> rec.failures]
    BY <1>1, <1>3, <1>7
  <2>. QED
    BY <1>2, <1>4, <1>5, <1>7, <2>1 DEF Form, s, next, badkeys
<1>8. CASE rec.asked % 3 = 2
  <2>1. rec' = [pc |-> next, key |-> rec.key, cols |-> rec.cols, asked |-> rec.asked + 1,
                counts |-> rec.counts, badKeys |-> rec.badKeys, agg |-> [rec.agg EXCEPT ![s] = print],
                failures |-> rec.failures]
    BY <1>1, <1>3, <1>8
  <2>. QED
    BY <1>2, <1>4, <1>5, <1>8, <2>1 DEF Form, s, next, print
<1>. QED
  BY <1>2, <1>6, <1>7, <1>8

LEMMA QueryKeeps == ASSUME RecInv, Query PROVE RecInv'
<1>1. UNCHANGED <<pairs, now, moved, results>> /\ rec.pc = "query"
  BY DEF Query
<1>2. /\ Form(rec') /\ rec'.asked = rec.asked + 1
      /\ rec'.key = rec.key /\ rec'.cols = rec.cols /\ rec'.failures = rec.failures
      /\ rec'.pc = IF rec.asked = 5 THEN "compare" ELSE "query"
  BY QueryAnswers
<1>3. Form(rec) /\ rec.asked \in 0..5 /\ Fetched /\ (rec.failures = {} => SameColumns)
  BY <1>1 DEF RecInv, RecTyped, Form
<1>4. /\ Pair' = Pair /\ Compared' = Compared /\ SameColumns' = SameColumns
      /\ \A c : ComparedAsNumber(c)' = ComparedAsNumber(c)
  BY <1>1, <1>2, SameQuestion
<1>5. SideAsked = IF rec.asked < 3 THEN "source" ELSE "candidate"
  BY DEF SideAsked
<1>6. RowsOn("source") = Pair.source.rows /\ RowsOn("candidate") = now
  BY DEF RowsOn
<1>. DEFINE rows == Pair.source.rows
            print(t) == [c \in Compared |-> Aggregates(t, c, ComparedAsNumber(c))]
<1>7. \A t : [c \in Compared' |-> Aggregates(t, c, ComparedAsNumber(c)')] = print(t)
  BY <1>4
<1>8. /\ rec.asked >= 1 => rec.counts["source"] = Len(rows)
      /\ rec.asked >= 2 => rec.badKeys["source"] = BadKeys(rows, rec.key)
      /\ rec.asked >= 3 => rec.agg["source"] = print(rows)
      /\ ~moved => /\ rec.asked >= 4 => rec.counts["candidate"] = Len(now)
                   /\ rec.asked >= 5 => rec.badKeys["candidate"] = BadKeys(now, rec.key)
                   /\ rec.asked >= 6 => rec.agg["candidate"] = print(now)
  BY <1>3 DEF Fetched
<1>9. /\ rec'.asked >= 1 => rec'.counts["source"] = Len(rows)
      /\ rec'.asked >= 2 => rec'.badKeys["source"] = BadKeys(rows, rec.key)
      /\ rec'.asked >= 3 => rec'.agg["source"] = print(rows)
      /\ ~moved => /\ rec'.asked >= 4 => rec'.counts["candidate"] = Len(now)
                   /\ rec'.asked >= 5 => rec'.badKeys["candidate"] = BadKeys(now, rec.key)
                   /\ rec'.asked >= 6 => rec'.agg["candidate"] = print(now)
  <2>. HIDE DEF print
  <2>1. /\ rec'.counts = IF rec.asked % 3 = 0
                         THEN [rec.counts EXCEPT ![SideAsked] = Len(RowsOn(SideAsked))] ELSE rec.counts
        /\ rec'.badKeys = IF rec.asked % 3 = 1
                          THEN [rec.badKeys EXCEPT ![SideAsked] = BadKeys(RowsOn(SideAsked), rec.key)]
                          ELSE rec.badKeys
        /\ rec'.agg = IF rec.asked % 3 = 2
                      THEN [rec.agg EXCEPT ![SideAsked] = print(RowsOn(SideAsked))] ELSE rec.agg
    BY QueryAnswers DEF print
  <2>2. /\ DOMAIN rec.counts = {"source", "candidate"} /\ DOMAIN rec.badKeys = {"source", "candidate"}
        /\ DOMAIN rec.agg = {"source", "candidate"}
    BY <1>3 DEF Form, Sides
  <2>3. rec'.asked = rec.asked + 1
    BY <1>2
  <2>a. CASE rec.asked = 0
    BY <1>5, <1>6, <2>1, <2>2, <2>3, <2>a
  <2>b. CASE rec.asked = 1
    BY <1>5, <1>6, <1>8, <2>1, <2>2, <2>3, <2>b
  <2>c. CASE rec.asked = 2
    BY <1>5, <1>6, <1>8, <2>1, <2>2, <2>3, <2>c
  <2>d. CASE rec.asked = 3
    BY <1>5, <1>6, <1>8, <2>1, <2>2, <2>3, <2>d
  <2>e. CASE rec.asked = 4
    BY <1>5, <1>6, <1>8, <2>1, <2>2, <2>3, <2>e
  <2>f. CASE rec.asked = 5
    BY <1>5, <1>6, <1>8, <2>1, <2>2, <2>3, <2>f
  <2>. QED
    BY <1>3, <2>a, <2>b, <2>c, <2>d, <2>e, <2>f
<1>10. Fetched'
  <2>. HIDE DEF print
  <2>. QED
    BY <1>1, <1>2, <1>4, <1>7, <1>9 DEF Fetched
<1>. QED
  BY <1>1, <1>2, <1>3, <1>4, <1>10 DEF RecInv, RecTyped

LEMMA QueryFailsKeeps == ASSUME RecInv, QueryFails PROVE RecInv'
<1>1. /\ rec' = [rec EXCEPT !.pc = Onwards, !.failures = rec.failures \cup {SideAsked}]
      /\ UNCHANGED <<pairs, now, moved, results>> /\ rec.pc = "query"
  BY DEF QueryFails
<1>2. /\ Form(rec') /\ rec'.pc = Onwards /\ rec'.failures = rec.failures \cup {SideAsked}
  <2>1. Form(rec)
    BY DEF RecInv, RecTyped
  <2>2. rec' = Moved(rec, Onwards, rec.failures \cup {SideAsked})
    BY <1>1 DEF Moved
  <2>. QED
    BY <2>1, <2>2, MovedOn
<1>3. rec'.failures # {} /\ rec'.pc \in {"references", "verdict"}
  BY <1>2 DEF Onwards
<1>. QED
  BY <1>1, <1>2, <1>3, PairStays DEF RecInv, RecTyped

LEMMA CompareKeeps == ASSUME RecInv, Compare PROVE RecInv'
<1>. DEFINE empty == \E s \in Sides : rec.counts[s] = 0
            found == IF empty THEN {"empty"}
                     ELSE (IF RowsDiffer THEN {"rows"} ELSE {})
                          \cup (IF \E s \in Sides : rec.badKeys[s] > 0 THEN {"keys"} ELSE {})
                          \cup Differing
<1>1. /\ rec' = [rec EXCEPT !.pc = Onwards, !.failures = rec.failures \cup found]
      /\ UNCHANGED <<pairs, now, moved, results>> /\ rec.pc = "compare"
  BY DEF Compare
<1>2. found = {} => /\ \A s \in Sides : rec.counts[s] # 0 /\ ~(rec.badKeys[s] > 0)
                    /\ Differing = {}
  OBVIOUS
<1>. HIDE DEF found
<1>3. Form(rec') /\ rec'.pc = Onwards /\ rec'.failures = rec.failures \cup found /\ Keeps(rec', rec)
  <2>1. Form(rec)
    BY DEF RecInv, RecTyped
  <2>2. rec' = Moved(rec, Onwards, rec.failures \cup found)
    BY <1>1 DEF Moved
  <2>. QED
    BY <2>1, <2>2, MovedOn
<1>4. rec'.pc \in {"references", "verdict"}
  BY <1>3 DEF Onwards
<1>5. /\ Pair' = Pair /\ Compared' = Compared /\ SameColumns' = SameColumns
      /\ \A c : ComparedAsNumber(c)' = ComparedAsNumber(c)
  BY <1>1, <1>3, SameQuestion DEF Keeps
<1>6. ASSUME rec'.failures = {} PROVE Alike'
  <2>1. SameColumns /\ Fetched /\ rec.asked = 6 /\ found = {}
    BY <1>1, <1>3, <1>6 DEF RecInv
  <2>2. /\ Len(Pair.source.rows) # 0 /\ ~(BadKeys(Pair.source.rows, rec.key) > 0)
        /\ ~moved => Len(now) # 0 /\ ~(BadKeys(now, rec.key) > 0)
    BY <1>2, <2>1 DEF Fetched, Sides
  <2>3. IsList(Pair.source.rows) /\ IsList(now)
    <3>1. Len(results) + 1 \in 1..Len(pairs)
      BY <1>1, RowsAreLists DEF RecInv, RecTyped
    <3>. QED
      BY <3>1, RowsAreLists DEF RecInv, RecTyped, Pair
  <2>4. BadKeys(Pair.source.rows, rec.key) \in Nat /\ BadKeys(now, rec.key) \in Nat
    BY <2>3, BadKeysCounts
  <2>5. ASSUME ~moved, NEW c \in Compared
        PROVE  Aggregates(Pair.source.rows, c, ComparedAsNumber(c)) = Aggregates(now, c, ComparedAsNumber(c))
    <3>1. rec.agg["source"][c] = rec.agg["candidate"][c]
      BY <1>2, <2>1 DEF Differing
    <3>2. /\ rec.agg["source"][c] = Aggregates(Pair.source.rows, c, ComparedAsNumber(c))
          /\ rec.agg["candidate"][c] = Aggregates(now, c, ComparedAsNumber(c))
      BY <2>1, <2>5 DEF Fetched
    <3>. QED
      BY <3>1, <3>2
  <2>6. /\ Pair.source.rows # <<>> /\ BadKeys(Pair.source.rows, rec.key) = 0
        /\ ~moved => now # <<>> /\ BadKeys(now, rec.key) = 0
    BY <2>2, <2>4
  <2>7. Alike
    BY <2>1, <2>5, <2>6 DEF Alike, SameColumns
  <2>. QED
    BY <1>1, <1>3, <1>5, <2>1, <2>7 DEF Alike, SameColumns, Keeps
<1>. QED
  BY <1>1, <1>3, <1>4, <1>5, <1>6 DEF RecInv, RecTyped

LEMMA AlikeStays ==
  ASSUME UNCHANGED <<pairs, results, now, moved>>, Keeps(rec', rec), Alike
  PROVE  Alike'
<1>1. /\ Pair' = Pair /\ Compared' = Compared /\ SameColumns' = SameColumns
      /\ \A c : ComparedAsNumber(c)' = ComparedAsNumber(c)
  BY SameQuestion DEF Keeps
<1>. QED
  BY <1>1 DEF Alike, SameColumns, Keeps

LEMMA CheckContainmentKeeps == ASSUME RecInv, CheckContainment PROVE RecInv'
<1>1. PICK found : rec' = [rec EXCEPT !.pc = "verdict", !.failures = rec.failures \cup found]
  <2>1. PICK answered \in BOOLEAN :
          rec' = [rec EXCEPT !.pc = "verdict",
                    !.failures = IF answered /\ \E i \in DOMAIN Pair.orphans : Pair.orphans[i] > 0
                                 THEN @ \cup {"orphans"} ELSE @]
    BY DEF CheckContainment
  <2>2. CASE answered /\ \E i \in DOMAIN Pair.orphans : Pair.orphans[i] > 0
    BY <2>1, <2>2
  <2>3. CASE ~(answered /\ \E i \in DOMAIN Pair.orphans : Pair.orphans[i] > 0)
    <3>1. rec' = [rec EXCEPT !.pc = "verdict", !.failures = rec.failures \cup {}]
      BY <2>1, <2>3
    <3>. QED
      BY <3>1
  <2>. QED
    BY <2>2, <2>3
<1>2. UNCHANGED <<pairs, now, moved, results>> /\ rec.pc = "references"
  BY DEF CheckContainment
<1>3. Form(rec') /\ rec'.pc = "verdict" /\ rec'.failures = rec.failures \cup found /\ Keeps(rec', rec)
  <2>1. Form(rec)
    BY DEF RecInv, RecTyped
  <2>2. rec' = Moved(rec, "verdict", rec.failures \cup found)
    BY <1>1 DEF Moved
  <2>. QED
    BY <2>1, <2>2, MovedOn
<1>4. rec'.failures = {} => Alike'
  BY <1>2, <1>3, AlikeStays DEF RecInv
<1>. QED
  BY <1>2, <1>3, <1>4, PairStays DEF RecInv, RecTyped

LEMMA RebuildKeeps == ASSUME RecInv, Rebuild PROVE RecInv'
<1>1. /\ UNCHANGED <<pairs, rec, results>> /\ moved' = TRUE /\ now' = Pair.rebuilt
      /\ rec.pc \in {"query", "compare", "references"}
  BY DEF Rebuild
<1>2. IsList(now')
  <2>1. Len(results) + 1 \in 1..Len(pairs)
    BY <1>1, RowsAreLists DEF RecInv, RecTyped
  <2>. QED
    BY <1>1, <2>1, RowsAreLists DEF RecInv, RecTyped, Pair
<1>3. /\ Pair' = Pair /\ Compared' = Compared /\ SameColumns' = SameColumns
      /\ \A c : ComparedAsNumber(c)' = ComparedAsNumber(c)
  BY <1>1, SameQuestion
<1>4. Fetched => Fetched'
  BY <1>1, <1>3 DEF Fetched
<1>5. Alike => Alike'
  BY <1>1, <1>3 DEF Alike, SameColumns
<1>. QED
  BY <1>1, <1>2, <1>3, <1>4, <1>5 DEF RecInv, RecTyped

LEMMA NextRecInv == RecInv /\ [RecNext]_recVars => RecInv'
<1>. SUFFICES ASSUME RecInv, [RecNext]_recVars PROVE RecInv'
  OBVIOUS
<1>1. CASE UNCHANGED recVars
  <2>1. UNCHANGED <<pairs, results, now, moved, rec>>
    BY <1>1 DEF recVars
  <2>2. /\ Pair' = Pair /\ Compared' = Compared /\ SameColumns' = SameColumns
        /\ \A c : ComparedAsNumber(c)' = ComparedAsNumber(c)
    BY <2>1, SameQuestion
  <2>3. Fetched => Fetched'
    BY <2>1, <2>2 DEF Fetched
  <2>4. Alike => Alike'
    BY <2>1, AlikeStays DEF Keeps
  <2>. QED
    BY <2>1, <2>2, <2>3, <2>4 DEF RecInv, RecTyped
<1>2. CASE RefusePair
  BY <1>2, NextPairKeeps DEF RefusePair
<1>3. CASE Report
  <2>1. /\ Len(results) < Len(pairs) /\ ~Pair.refused
        /\ rec.failures = {} => Pair.source.rows # <<>>
    BY <1>3 DEF Report, RecInv, Alike
  <2>. QED
    BY <1>3, <2>1, NextPairKeeps DEF Report
<1>. QED
  BY <1>1, <1>2, <1>3, ReadColumnsKeeps, CheckSchemaKeeps, QueryKeeps, QueryFailsKeeps,
     CompareKeeps, CheckContainmentKeeps, RebuildKeeps DEF RecNext

LEMMA InitRecInv == RecInit => RecInv
<1>. SUFFICES ASSUME RecInit PROVE RecInv
  OBVIOUS
<1>1. pairs \in Requests /\ now = FirstRows(pairs) /\ rec = Blank /\ results = <<>>
  BY DEF RecInit, NotCompared
<1>2. pairs \in Seq(ToSet(pairs)) /\ Len(pairs) \in Nat
  BY <1>1, RowsAreLists
<1>3. IsList(now)
  <2>1. CASE pairs = <<>>
    BY <1>1, <2>1, NoRows DEF FirstRows
  <2>2. CASE pairs # <<>>
    <3>1. Head(pairs) = pairs[1] /\ 1 \in 1..Len(pairs)
      BY <1>2, <2>2
    <3>. QED
      BY <1>1, <2>2, <3>1, RowsAreLists DEF FirstRows
  <2>. QED
    BY <2>1, <2>2
<1>. QED
  BY <1>1, <1>2, <1>3, BlankForm DEF RecInv, RecTyped

\* A pair passes only on what was asked of both sides, for any tables and any
\* request, whichever queries fail and whenever the candidate is rebuilt: that the
\* same fingerprint means the same values is what only small columns show.
THEOREM PassIsEarnedAlways == RecSpec => []PassIsEarned
<1>1. RecInv => PassIsEarned
  <2>. SUFFICES ASSUME RecInv PROVE PassIsEarned
    OBVIOUS
  <2>1. rec.pc = "verdict" /\ rec.failures = {} => Alike
    BY DEF RecInv
  <2>2. ASSUME AllPassed
        PROVE  /\ pairs # <<>>
               /\ \A i \in DOMAIN pairs : ~pairs[i].refused /\ pairs[i].source.rows # <<>>
    <3>1. /\ pairs \in Seq(ToSet(pairs)) /\ results \in Seq(BOOLEAN) /\ Len(results) = Len(pairs)
          /\ results # <<>> /\ \A i \in DOMAIN results : results[i]
      BY <2>2, RowsAreLists DEF AllPassed, Reported, RecInv, RecTyped
    <3>2. DOMAIN pairs = 1..Len(results) /\ DOMAIN results = 1..Len(results)
      BY <3>1
    <3>3. pairs # <<>>
      BY <3>1
    <3>. QED
      BY <3>1, <3>2, <3>3 DEF RecInv
  <2>. QED
    BY <2>1, <2>2 DEF PassIsEarned
<1>. QED
  BY <1>1, InitRecInv, NextRecInv, PTL DEF RecSpec
-----------------------------------------------------------------------------
(* Why conversions and loads end.                                          *)

LEMMA BelowTuple ==
  ASSUME NEW a, NEW b, {1, 2, 3} \subseteq DOMAIN a,
         \/ a[1] < b[1]
         \/ a[1] = b[1] /\ a[2] < b[2]
         \/ a[1] = b[1] /\ a[2] = b[2] /\ a[3] < b[3]
         \/ 4 \in DOMAIN a /\ a[1] = b[1] /\ a[2] = b[2] /\ a[3] = b[3] /\ a[4] < b[4]
  PROVE  Below(a, b)
<1>1. CASE a[1] < b[1]
  <2>1. 1 \in DOMAIN a /\ \A k \in 1..(1 - 1) : a[k] = b[k]
    OBVIOUS
  <2>. QED
    BY <1>1, <2>1 DEF Below
<1>2. CASE a[1] = b[1] /\ a[2] < b[2]
  <2>1. \A k \in 1..(2 - 1) : k = 1
    OBVIOUS
  <2>2. 2 \in DOMAIN a /\ \A k \in 1..(2 - 1) : a[k] = b[k]
    BY <1>2, <2>1
  <2>. QED
    BY <1>2, <2>2 DEF Below
<1>3. CASE a[1] = b[1] /\ a[2] = b[2] /\ a[3] < b[3]
  <2>1. \A k \in 1..(3 - 1) : k = 1 \/ k = 2
    OBVIOUS
  <2>2. 3 \in DOMAIN a /\ \A k \in 1..(3 - 1) : a[k] = b[k]
    BY <1>3, <2>1
  <2>. QED
    BY <1>3, <2>2 DEF Below
<1>4. CASE 4 \in DOMAIN a /\ a[1] = b[1] /\ a[2] = b[2] /\ a[3] = b[3] /\ a[4] < b[4]
  <2>1. \A k \in 1..(4 - 1) : k = 1 \/ k = 2 \/ k = 3
    OBVIOUS
  <2>2. \A k \in 1..(4 - 1) : a[k] = b[k]
    BY <1>4, <2>1
  <2>. QED
    BY <1>4, <2>2 DEF Below
<1>. QED
  BY <1>1, <1>2, <1>3, <1>4

\* What a conversion has left, read off its record.
TableLeftIs(s, m) ==
  /\ s \in [1..4 -> Nat]
  /\ s[1] = IF m.pc = "queued" THEN 2 ELSE IF m.pc = "done" THEN 0 ELSE 1
  /\ s[2] = Rounds - m.round
  /\ s[3] = MaxAttempts - m.attempt
  /\ s[4] = IF m.pc = "backoff" THEN 3 ELSE IF m.pc = "gate" THEN 2
            ELSE IF m.pc = "call" THEN 1 ELSE 0

LEMMA TableTuple ==
  ASSUME NEW m \in AiRecords, NEW s,
         s = <<[queued |-> 2, gate |-> 1, call |-> 1, backoff |-> 1, done |-> 0][m.pc],
               Rounds - m.round, MaxAttempts - m.attempt,
               [queued |-> 0, backoff |-> 3, gate |-> 2, call |-> 1, done |-> 0][m.pc]>>
  PROVE  TableLeftIs(s, m)
<1>. DEFINE x == [queued |-> 2, gate |-> 1, call |-> 1, backoff |-> 1, done |-> 0][m.pc]
            y == Rounds - m.round
            z == MaxAttempts - m.attempt
            w == [queued |-> 0, backoff |-> 3, gate |-> 2, call |-> 1, done |-> 0][m.pc]
<1>1. /\ m.pc \in {"queued", "gate", "call", "backoff", "done"} /\ m.round \in 1..Rounds
      /\ m.attempt \in 1..MaxAttempts
  BY DEF AiRecords
<1>2. /\ x = IF m.pc = "queued" THEN 2 ELSE IF m.pc = "done" THEN 0 ELSE 1
      /\ w = IF m.pc = "backoff" THEN 3 ELSE IF m.pc = "gate" THEN 2
             ELSE IF m.pc = "call" THEN 1 ELSE 0
  BY <1>1
<1>3. x \in Nat /\ w \in Nat
  BY <1>2
<1>4. y \in Nat /\ z \in Nat
  BY <1>1, AiAssumption DEF Rounds
<1>5. s = <<x, y, z, w>>
  OBVIOUS
<1>. HIDE DEF x, y, z, w
<1>6. s \in [1..4 -> Nat] /\ s[1] = x /\ s[2] = y /\ s[3] = z /\ s[4] = w
  BY <1>3, <1>4, <1>5
<1>. QED
  BY <1>2, <1>6 DEF TableLeftIs, y, z

\* What a step of a conversion can be.
GoesOnTo(m, r) ==
  \/ m.pc = "queued" /\ r.pc = "gate"
  \/ m.pc \in {"gate", "call"} /\ r.pc = "done"
  \/ m.pc \in {"gate", "call"} /\ r.pc = "gate" /\ r.round = m.round + 1
  \/ m.pc = "call" /\ r.pc = "backoff" /\ r.round = m.round /\ r.attempt = m.attempt + 1
  \/ m.pc = "gate" /\ r.pc = "call" /\ r.round = m.round /\ r.attempt = m.attempt
  \/ m.pc = "backoff" /\ r.pc = "gate" /\ r.round = m.round /\ r.attempt = m.attempt

LEMMA TableDown ==
  ASSUME NEW m \in AiRecords, NEW r \in AiRecords, GoesOnTo(m, r), NEW s, NEW t,
         TableLeftIs(s, m), TableLeftIs(t, r)
  PROVE  Below(t, s)
<1>1. /\ m.round \in Int /\ r.round \in Int /\ m.attempt \in Int /\ r.attempt \in Int
      /\ Rounds \in Int /\ MaxAttempts \in Int
  BY AiAssumption DEF AiRecords, Rounds
<1>2. DOMAIN t = 1..4 /\ {1, 2, 3} \subseteq DOMAIN t /\ 4 \in DOMAIN t
  BY DEF TableLeftIs
<1>3. \/ t[1] < s[1]
      \/ t[1] = s[1] /\ t[2] < s[2]
      \/ t[1] = s[1] /\ t[2] = s[2] /\ t[3] < s[3]
      \/ t[1] = s[1] /\ t[2] = s[2] /\ t[3] = s[3] /\ t[4] < s[4]
  BY <1>1 DEF TableLeftIs, GoesOnTo
<1>. QED
  BY <1>2, <1>3, BelowTuple

LEMMA JudgedGoesOn ==
  ASSUME NEW m \in AiRecords, NEW text \in {"clean", "flagged", "nothing"}
  PROVE  \/ Judged(m, text).pc = "done"
         \/ Judged(m, text).pc = "gate" /\ Judged(m, text).round = m.round + 1
<1>1. m.round \in {1, 2}
  BY DEF AiRecords, Rounds
<1>2. CASE text = "clean"
  <2>1. Judged(m, text) = [m EXCEPT !.pc = "done", !.out = "clean"]
    BY <1>2 DEF Judged
  <2>. QED
    BY <2>1 DEF AiRecords
<1>3. CASE text = "flagged" /\ m.round < Rounds
  <2>1. Judged(m, text) = [m EXCEPT !.pc = "gate", !.round = m.round + 1, !.attempt = 1, !.best = "flagged"]
    BY <1>1, <1>3 DEF Judged, Rounds
  <2>. QED
    BY <2>1 DEF AiRecords
<1>4. CASE text = "flagged" /\ ~(m.round < Rounds)
  <2>1. Judged(m, text) = Settled(m, "flagged")
    BY <1>1, <1>4 DEF Judged, Rounds
  <2>. QED
    BY <2>1, SettledIs
<1>5. CASE text = "nothing"
  <2>1. Judged(m, text) = Settled(m, m.best)
    BY <1>5 DEF Judged
  <2>. QED
    BY <2>1, SettledIs
<1>. QED
  BY <1>2, <1>3, <1>4, <1>5

LEMMA TableGoesOn ==
  ASSUME AiInv, NEW t \in Tables, TableThread(t)
  PROVE  /\ GoesOnTo(model[t], model'[t])
         /\ \A o \in Tables \ {t} : model'[o] = model[o]
         /\ UNCHANGED transform
<1>. DEFINE m == model[t]
<1>1. m \in AiRecords /\ model \in [Tables -> AiRecords]
  BY DEF AiInv, AiTyped
<1>2. CASE BeginTable(t) \/ Acquire(t) \/ WaitOver(t)
  <2>1. PICK pc \in {"gate", "call"} :
          /\ model' = [model EXCEPT ![t].pc = pc] /\ UNCHANGED transform
          /\ \/ m.pc = "queued" /\ pc = "gate"
             \/ m.pc = "gate" /\ pc = "call"
             \/ m.pc = "backoff" /\ pc = "gate"
    BY <1>2 DEF BeginTable, Acquire, WaitOver
  <2>2. /\ model'[t].pc = pc /\ model'[t].round = m.round /\ model'[t].attempt = m.attempt
        /\ \A o \in Tables \ {t} : model'[o] = model[o]
    BY <1>1, <2>1 DEF AiRecords
  <2>3. GoesOnTo(m, model'[t])
    <3>1. CASE m.pc = "queued" /\ pc = "gate"
      BY <2>2, <3>1 DEF GoesOnTo
    <3>2. CASE (m.pc = "gate" /\ pc = "call") \/ (m.pc = "backoff" /\ pc = "gate")
      BY <2>2, <3>2 DEF GoesOnTo
    <3>. QED
      BY <2>1, <3>1, <3>2
  <2>. QED
    BY <2>1, <2>2, <2>3
<1>3. CASE Remembered(t) \/ Answered(t)
  <2>1. PICK text \in {"clean", "flagged", "nothing"} :
          model' = [model EXCEPT ![t] = Judged(m, text)] /\ UNCHANGED transform
    BY <1>3 DEF Remembered, Answered
  <2>2. m.pc \in {"gate", "call"}
    BY <1>3 DEF Remembered, Answered
  <2>3. model'[t] = Judged(m, text) /\ \A o \in Tables \ {t} : model'[o] = model[o]
    BY <1>1, <2>1
  <2>4. \/ Judged(m, text).pc = "done"
        \/ Judged(m, text).pc = "gate" /\ Judged(m, text).round = m.round + 1
    BY <1>1, JudgedGoesOn
  <2>. QED
    BY <2>1, <2>2, <2>3, <2>4 DEF GoesOnTo
<1>4. CASE (Throttled(t) /\ ~(m.attempt < MaxAttempts)) \/ Refused(t)
  <2>1. model' = [model EXCEPT ![t] = Settled(m, m.best)] /\ m.pc = "call" /\ UNCHANGED transform
    BY <1>4 DEF Throttled, Refused
  <2>2. model'[t] = Settled(m, m.best) /\ \A o \in Tables \ {t} : model'[o] = model[o]
    BY <1>1, <2>1
  <2>3. Settled(m, m.best).pc = "done"
    BY <1>1, SettledIs
  <2>. QED
    BY <2>1, <2>2, <2>3 DEF GoesOnTo
<1>5. CASE Throttled(t) /\ m.attempt < MaxAttempts
  <2>1. model' = [model EXCEPT ![t] = Postponed(m)] /\ m.pc = "call" /\ UNCHANGED transform
    BY <1>5 DEF Throttled
  <2>2. model'[t] = Postponed(m) /\ \A o \in Tables \ {t} : model'[o] = model[o]
    BY <1>1, <2>1
  <2>3. /\ Postponed(m).pc = "backoff" /\ Postponed(m).round = m.round
        /\ Postponed(m).attempt = m.attempt + 1
    BY <1>1 DEF Postponed, AiRecords
  <2>. QED
    BY <2>1, <2>2, <2>3 DEF GoesOnTo
<1>. QED
  BY <1>2, <1>3, <1>4, <1>5 DEF TableThread

JobLeftIs == \A j \in Transforms :
  JobLeft(j) = IF transform[j] = "queued" THEN 3 ELSE IF transform[j] = "enumerate" THEN 2
               ELSE IF transform[j] = "tables" THEN 1 ELSE 0

AiLeftIs ==
  JobLeftIs /\ \A t \in Tables : model[t] \in AiRecords /\ TableLeftIs(TableLeft(t), model[t])

LEMMA AiMeasured == AiInv => AiLeftIs
<1>. SUFFICES ASSUME AiInv PROVE AiLeftIs
  OBVIOUS
<1>1. JobLeftIs
  BY DEF AiInv, AiTyped, JobLeftIs, JobLeft
<1>2. ASSUME NEW t \in Tables PROVE model[t] \in AiRecords /\ TableLeftIs(TableLeft(t), model[t])
  <2>1. model[t] \in AiRecords
    BY DEF AiInv, AiTyped
  <2>. QED
    BY <2>1, TableTuple DEF TableLeft
<1>. QED
  BY <1>1, <1>2 DEF AiLeftIs

LEMMA AiGoesDown ==
  ASSUME AiInv, AiLeftIs, AiLeftIs', AiNext
  PROVE  /\ \A t \in Tables : model'[t] # model[t] => Below(TableLeft(t)', TableLeft(t))
         /\ \A j \in Transforms : transform'[j] # transform[j] => JobLeft(j)' < JobLeft(j)
<1>1. CASE \E t \in Tables : TableThread(t)
  <2>1. PICK t \in Tables : TableThread(t)
    BY <1>1
  <2>2. /\ GoesOnTo(model[t], model'[t]) /\ UNCHANGED transform
        /\ \A o \in Tables \ {t} : model'[o] = model[o]
    BY <2>1, TableGoesOn
  <2>3. /\ model[t] \in AiRecords /\ TableLeftIs(TableLeft(t), model[t])
        /\ model'[t] \in AiRecords /\ TableLeftIs(TableLeft(t)', model'[t])
    BY DEF AiLeftIs
  <2>4. Below(TableLeft(t)', TableLeft(t))
    BY <2>2, <2>3, TableDown
  <2>. QED
    BY <2>2, <2>4
<1>2. CASE \E j \in Transforms : BeginTransform(j) \/ TransformThread(j)
  <2>1. PICK j \in Transforms : BeginTransform(j) \/ TransformThread(j)
    BY <1>2
  <2>2. UNCHANGED model
    BY <2>1 DEF BeginTransform, TransformThread, Enumerated, JoinTables
  <2>3. PICK next \in {"enumerate", "tables", "done"} :
          /\ transform' = [transform EXCEPT ![j] = next]
          /\ \/ transform[j] = "queued" /\ next \in {"enumerate", "tables"}
             \/ transform[j] = "enumerate" /\ next = "tables"
             \/ transform[j] = "tables" /\ next = "done"
    BY <2>1 DEF BeginTransform, TransformThread, Enumerated, JoinTables
  <2>4. transform'[j] = next /\ \A i \in Transforms \ {j} : transform'[i] = transform[i]
    BY <2>3 DEF AiInv, AiTyped
  <2>5. JobLeft(j)' < JobLeft(j)
    BY <2>3, <2>4 DEF AiLeftIs, JobLeftIs
  <2>. QED
    BY <2>2, <2>4, <2>5
<1>. QED
  BY <1>1, <1>2 DEF AiNext

\* For any number of jobs, tables, workers, rounds and attempts, no answer, error or
\* wait gives a conversion more to do than it had: with SomeoneGoesOn, it ends.
THEOREM AiProgresses == AiSpec => AiProgress
<1>1. AiInv => AiLeftIs
  BY AiMeasured
<1>2. AiLeftIs => \A t \in Tables : TableLeft(t) \in [1..4 -> Nat]
  BY DEF AiLeftIs, TableLeftIs
<1>3. AiInv /\ AiLeftIs /\ AiLeftIs' /\ [AiNext]_aiVars
        => [/\ \A t \in Tables : model'[t] # model[t] => Below(TableLeft(t)', TableLeft(t))
            /\ \A j \in Transforms : transform'[j] # transform[j] => JobLeft(j)' < JobLeft(j)]_aiVars
  BY AiGoesDown
<1>. QED
  BY <1>1, <1>2, <1>3, AiAlways, PTL DEF AiSpec, AiProgress

\* What a load has left, read off its record.
StageLeft(l) ==
  IF l.stage = "schema" THEN 4 ELSE IF l.stage = "volume" THEN 3 ELSE IF l.stage = "table" THEN 2
  ELSE IF l.stage = "insert_cast" THEN 1 ELSE 0
LoadLeftIs(s, l) ==
  /\ s \in [1..3 -> Nat]
  /\ s[1] = IF l.pc = "idle" THEN 3 ELSE IF l.pc = "upload" THEN 2
            ELSE IF l.pc \in {"submit", "sent"} THEN 1 ELSE 0
  /\ s[2] = StageLeft(l)
  /\ s[3] = IF l.pc = "submit" THEN 2 ELSE IF l.wh = "open" THEN 1 ELSE 0

LEMMA LoadTuple ==
  ASSUME NEW l \in LoadRecords, NEW s,
         s = <<[idle |-> 3, upload |-> 2, submit |-> 1, sent |-> 1, done |-> 0, raised |-> 0][l.pc],
               [schema |-> 4, volume |-> 3, table |-> 2, insert_cast |-> 1, count |-> 0][l.stage],
               IF l.pc = "submit" THEN 2 ELSE IF l.wh = "open" THEN 1 ELSE 0>>
  PROVE  LoadLeftIs(s, l)
<1>. DEFINE x == [idle |-> 3, upload |-> 2, submit |-> 1, sent |-> 1, done |-> 0, raised |-> 0][l.pc]
            y == [schema |-> 4, volume |-> 3, table |-> 2, insert_cast |-> 1, count |-> 0][l.stage]
            z == IF l.pc = "submit" THEN 2 ELSE IF l.wh = "open" THEN 1 ELSE 0
<1>1. /\ l.pc \in {"idle", "upload", "submit", "sent", "done", "raised"}
      /\ l.stage \in {"schema", "volume", "table", "insert_cast", "count"}
  BY DEF LoadRecords, Stages
<1>2. x = IF l.pc = "idle" THEN 3 ELSE IF l.pc = "upload" THEN 2
          ELSE IF l.pc \in {"submit", "sent"} THEN 1 ELSE 0
  BY <1>1
<1>3. y = StageLeft(l)
  BY <1>1 DEF StageLeft
<1>4. x \in Nat /\ y \in Nat /\ z \in Nat
  BY <1>2, <1>3 DEF StageLeft
<1>5. s = <<x, y, z>>
  OBVIOUS
<1>. HIDE DEF x, y, z
<1>6. s \in [1..3 -> Nat] /\ s[1] = x /\ s[2] = y /\ s[3] = z
  BY <1>4, <1>5
<1>. QED
  BY <1>2, <1>3, <1>6 DEF LoadLeftIs, z

\* What a step of a load can be.
LoadGoesTo(l, n) ==
  \/ l.pc = "idle" /\ n.pc \in {"upload", "done"}
  \/ l.pc = "upload" /\ n.pc \in {"submit", "done", "raised"}
  \/ l.pc = "submit" /\ n.pc = "sent" /\ n.stage = l.stage
  \/ l.pc = "sent" /\ n.pc = "done"
  \/ l.pc = "sent" /\ n.pc = "submit" /\ StageLeft(n) < StageLeft(l)
  \/ l.pc = "sent" /\ n.pc = "sent" /\ n.stage = l.stage /\ l.wh = "open" /\ n.wh # "open"

LEMMA LoadDown ==
  ASSUME NEW l, NEW n, LoadGoesTo(l, n), NEW s, NEW t, LoadLeftIs(s, l), LoadLeftIs(t, n)
  PROVE  Below(t, s)
<1>1. DOMAIN t = 1..3 /\ {1, 2, 3} \subseteq DOMAIN t
  BY DEF LoadLeftIs
<1>2. n.stage = l.stage => StageLeft(n) = StageLeft(l)
  BY DEF StageLeft
<1>3. \/ t[1] < s[1]
      \/ t[1] = s[1] /\ t[2] < s[2]
      \/ t[1] = s[1] /\ t[2] = s[2] /\ t[3] < s[3]
  BY <1>2 DEF LoadLeftIs, LoadGoesTo
<1>. QED
  BY <1>1, <1>3, BelowTuple

LEMMA LoadGoesOn ==
  ASSUME QvdInv, NEW r \in Loads,
         \/ \E call \in Calls, connects \in BOOLEAN : BeginLoad(r, call, connects)
         \/ Prepare(r) \/ Submit(r) \/ WarehouseEnds(r) \/ Answer(r) \/ StatementUnread(r)
  PROVE  LoadGoesTo(load[r], load'[r]) /\ \A o \in Loads \ {r} : load'[o] = load[o]
<1>. DEFINE m == load[r]
<1>1. load \in [Loads -> LoadRecords] /\ m \in LoadRecords
  BY DEF QvdInv, QvdTyped, LoadTyped
<1>2. CASE \E call \in Calls, connects \in BOOLEAN : BeginLoad(r, call, connects)
  <2>1. PICK call \in Calls, connects \in BOOLEAN : BeginLoad(r, call, connects)
    BY <1>2
  <2>. DEFINE passes == PrecheckPasses(call[1]) /\ ConnectionPasses(call[1], connects)
              pc == IF passes THEN "upload" ELSE "done"
              status == IF passes THEN "success" ELSE "failed"
              l == [NoLoad EXCEPT !.mode = call[1], !.volumeToo = call[2], !.pc = pc, !.status = status]
  <2>2. m.pc = "idle" /\ load' = [load EXCEPT ![r] = l]
    BY <2>1 DEF BeginLoad
  <2>3. pc \in {"upload", "done"}
    OBVIOUS
  <2>. HIDE DEF pc, status
  <2>4. l.pc = pc
    BY DEF NoLoad
  <2>. HIDE DEF l
  <2>5. load'[r] = l /\ \A o \in Loads \ {r} : load'[o] = load[o]
    BY <1>1, <2>2
  <2>. QED
    BY <2>2, <2>3, <2>4, <2>5 DEF LoadGoesTo
<1>3. CASE Prepare(r)
  <2>1. m.pc = "upload"
    BY <1>3 DEF Prepare, SkipUpload, UploadRefused, Upload, UploadRaises, MustUpload
  <2>2. PICK pc \in {"submit", "done", "raised"} :
          \/ load' = [load EXCEPT ![r].pc = pc]
          \/ load' = [load EXCEPT ![r].pc = "done", ![r].status = "failed",
                                  ![r].failedAt = "none", ![r].wh = "none"]
    <3>1. CASE SkipUpload(r)
      BY <3>1 DEF SkipUpload, Onward
    <3>2. CASE UploadRefused(r)
      BY <3>2 DEF UploadRefused, Fails
    <3>3. CASE \E arrive \in SUBSET Files : Upload(r, arrive) \/ UploadRaises(r, arrive)
      BY <3>3 DEF Upload, UploadRaises
    <3>. QED
      BY <1>3, <3>1, <3>2, <3>3 DEF Prepare
  <2>3. load'[r].pc \in {"submit", "done", "raised"} /\ \A o \in Loads \ {r} : load'[o] = load[o]
    <3>1. CASE load' = [load EXCEPT ![r].pc = pc]
      BY <1>1, <3>1 DEF LoadRecords
    <3>2. CASE load' = [load EXCEPT ![r].pc = "done", ![r].status = "failed",
                                    ![r].failedAt = "none", ![r].wh = "none"]
      BY <1>1, <3>2 DEF LoadRecords
    <3>. QED
      BY <2>2, <3>1, <3>2
  <2>. QED
    BY <2>1, <2>3 DEF LoadGoesTo
<1>4. CASE Submit(r)
  <2>1. PICK wh \in {"open", "failed"} : load' = [load EXCEPT ![r].pc = "sent", ![r].wh = wh]
    BY <1>4 DEF Submit
  <2>2. /\ m.pc = "submit" /\ load'[r].pc = "sent" /\ load'[r].stage = m.stage
        /\ \A o \in Loads \ {r} : load'[o] = load[o]
    BY <1>1, <1>4, <2>1 DEF Submit, LoadRecords
  <2>. QED
    BY <2>2 DEF LoadGoesTo
<1>5. CASE WarehouseEnds(r)
  <2>1. m.pc = "sent" /\ m.wh = "open"
    BY <1>5 DEF WarehouseEnds
  <2>2. PICK count :
          \/ load' = [load EXCEPT ![r].wh = "done", ![r].count = count]
          \/ load' = [load EXCEPT ![r].wh = "failed"]
    BY <1>5 DEF WarehouseEnds
  <2>3. /\ load'[r].pc = "sent" /\ load'[r].stage = m.stage /\ load'[r].wh # "open"
        /\ \A o \in Loads \ {r} : load'[o] = load[o]
    BY <1>1, <2>1, <2>2 DEF LoadRecords
  <2>. QED
    BY <2>1, <2>3 DEF LoadGoesTo
<1>6. CASE StatementFailed(r) \/ StatementGivenUp(r)
  <2>1. /\ m.pc = "sent"
        /\ load' = [load EXCEPT ![r].pc = "done", ![r].status = "failed",
                                ![r].failedAt = m.stage, ![r].wh = "none"]
    BY <1>6 DEF StatementFailed, StatementGivenUp, Fails
  <2>2. load'[r].pc = "done" /\ \A o \in Loads \ {r} : load'[o] = load[o]
    BY <1>1, <2>1 DEF LoadRecords
  <2>. QED
    BY <2>1, <2>2 DEF LoadGoesTo
<1>7. CASE StatementPassed(r) \/ StatementUnread(r)
  <2>1. PICK count \in Nat \cup {Unknown} :
          /\ m.pc = "sent"
          /\ \/ load' = [load EXCEPT ![r] = Passed(m, count)]
             \/ load' = [load EXCEPT ![r] = [Passed(m, count) EXCEPT !.unread = TRUE]]
    <3>1. m.count \in Nat \cup {Unknown}
      BY <1>1 DEF LoadRecords
    <3>. QED
      BY <1>7, <3>1 DEF StatementPassed, StatementUnread
  <2>2. /\ Passed(m, count) \in LoadRecords
        /\ Passed(m, count).pc = IF IsLast(m) THEN "done" ELSE "submit"
        /\ Passed(m, count).stage = IF IsLast(m) THEN m.stage ELSE NextStage(m)
    BY <1>1, PassedRecord
  <2>3. /\ load'[r].pc = Passed(m, count).pc /\ load'[r].stage = Passed(m, count).stage
        /\ \A o \in Loads \ {r} : load'[o] = load[o]
    BY <1>1, <2>1, <2>2 DEF LoadRecords
  <2>4. CASE IsLast(m)
    BY <2>1, <2>2, <2>3, <2>4 DEF LoadGoesTo
  <2>5. CASE ~IsLast(m)
    <3>1. m.stage \in {"schema", "volume", "table", "insert_cast"}
      BY <1>1, <2>5 DEF IsLast, LoadRecords, Stages
    <3>2. \/ m.stage = "schema" /\ load'[r].stage \in {"volume", "table"}
          \/ m.stage = "volume" /\ load'[r].stage = "table"
          \/ m.stage = "table" /\ load'[r].stage = "insert_cast"
          \/ m.stage = "insert_cast" /\ load'[r].stage = "count"
      BY <2>2, <2>3, <2>5, <3>1 DEF NextStage
    <3>3. StageLeft(load'[r]) < StageLeft(m)
      BY <3>2 DEF StageLeft
    <3>. QED
      BY <2>1, <2>2, <2>3, <2>5, <3>3 DEF LoadGoesTo
  <2>. QED
    BY <2>4, <2>5
<1>. QED
  BY <1>2, <1>3, <1>4, <1>5, <1>6, <1>7 DEF Answer

LoadsLeft == \A r \in Loads : LoadLeftIs(LoadLeft(r), load[r])

LEMMA LoadsMeasured == QvdInv => LoadsLeft
<1>. SUFFICES ASSUME QvdInv, NEW r \in Loads PROVE LoadLeftIs(LoadLeft(r), load[r])
  BY DEF LoadsLeft
<1>1. load[r] \in LoadRecords
  BY DEF QvdInv, QvdTyped, LoadTyped
<1>. QED
  BY <1>1, LoadTuple DEF LoadLeft

LEMMA LoadsGoDown ==
  ASSUME QvdInv, LoadsLeft, LoadsLeft', QvdNext
  PROVE  \A r \in Loads : load'[r] # load[r] => Below(LoadLeft(r)', LoadLeft(r))
<1>1. ASSUME NEW r \in Loads,
             \/ \E call \in Calls, connects \in BOOLEAN : BeginLoad(r, call, connects)
             \/ Prepare(r) \/ Submit(r) \/ WarehouseEnds(r) \/ Answer(r) \/ StatementUnread(r)
      PROVE  \A o \in Loads : load'[o] # load[o] => Below(LoadLeft(o)', LoadLeft(o))
  <2>1. LoadGoesTo(load[r], load'[r]) /\ \A o \in Loads \ {r} : load'[o] = load[o]
    BY <1>1, LoadGoesOn
  <2>2. LoadLeftIs(LoadLeft(r), load[r]) /\ LoadLeftIs(LoadLeft(r)', load'[r])
    BY DEF LoadsLeft
  <2>3. Below(LoadLeft(r)', LoadLeft(r))
    BY <2>1, <2>2, LoadDown
  <2>. QED
    BY <2>1, <2>3
<1>2. CASE \E o \in late : LateEnd(o[1], o[2])
  BY <1>2 DEF LateEnd
<1>. QED
  BY <1>1, <1>2 DEF QvdNext

\* For any number of loads and files, whatever happens to a call leaves it fewer
\* phases, stages or answers to wait for; other calls and late statements leave it
\* as it is. So it has finitely many steps before its report.
THEOREM LoadProgresses == QvdSpec => LoadProgress
<1>1. LoadsLeft => \A r \in Loads : LoadLeft(r) \in [1..3 -> Nat]
  BY DEF LoadsLeft, LoadLeftIs
<1>2. QvdInv /\ LoadsLeft /\ LoadsLeft' /\ [QvdNext]_qvdVars
        => [\A r \in Loads : load'[r] # load[r] => Below(LoadLeft(r)', LoadLeft(r))]_qvdVars
  BY LoadsGoDown
<1>. QED
  BY <1>1, <1>2, LoadsMeasured, QvdAlways, PTL DEF QvdSpec, LoadProgress
=============================================================================
