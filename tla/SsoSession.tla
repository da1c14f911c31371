----------------------------- MODULE SsoSession -----------------------------
(***************************************************************************)
(* The table of AWS sign-in sessions (aws_sso_auth.py): start, poll, and   *)
(* what accounts and credentials need.  The table is a dict in insertion   *)
(* order (here the number of each session's insert), pruned before a start *)
(* inserts; a poll reads a session, asks AWS without the lock, and writes  *)
(* what it got into the session it read.                                   *)
(* Requests run in threads of their own.  AWS is external.  A restart of   *)
(* the process empties the table, and is left out.                         *)
(***************************************************************************)
EXTENDS Naturals, FiniteSets

CONSTANTS
  Sessions,       \* bound: the start calls, each with the session it makes
  Polls,          \* bound: poll calls in flight at once
  MaxSessions     \* _MAX_SESSIONS

ASSUME SsoAssumption ==
  Sessions # {} /\ IsFiniteSet(Sessions) /\ IsFiniteSet(Polls) /\ MaxSessions \in Nat

VARIABLES
  place,      \* _SESSIONS: the insert that put each session there, 0 if it is not
  inserts,    \* how many inserts there were
  starting,   \* starts that have pruned and not inserted
  session,    \* what each session holds
  asked       \* what each poll in flight is at, and of which session

ssoVars == <<place, inserts, starting, session, asked>>

\* late: now > expires_at.  life: token_expires_at, not set, ahead or passed.
\* spent: AWS has given a token for the device code, which the user may approve
\* at any time.  shared is history: two polls were at the session at once.
New == [late |-> FALSE, token |-> FALSE, life |-> "unset", spent |-> FALSE,
        shared |-> FALSE]
Gone == [New EXCEPT !.late = TRUE]
NoPoll == [pc |-> "idle", of |-> CHOOSE s \in Sessions : TRUE]

SsoTypeOK ==
  /\ place \in [Sessions -> Nat] /\ inserts \in Nat /\ starting \subseteq Sessions
  /\ session \in [Sessions -> [late : BOOLEAN, token : BOOLEAN,
                               life : {"unset", "ahead", "passed"},
                               spent : BOOLEAN, shared : BOOLEAN]]
  /\ asked \in [Polls -> [pc : {"idle", "late", "ask", "date"}, of : Sessions]]

SsoInit ==
  /\ place = [s \in Sessions |-> 0] /\ inserts = 0 /\ starting = {}
  /\ session = [s \in Sessions |-> New]
  /\ asked = [p \in Polls |-> NoPoll]

-----------------------------------------------------------------------------
sessions == {s \in Sessions : place[s] # 0}

\* Those of some that came into the table after s.
Younger(s, some) == {o \in some : place[o] > place[s]}

\* Mutant: a session dies with its login window.
DeadWithWindow(s) == session[s].late

Dead(s) == session[s].late /\ session[s].life # "ahead"

\* _prune: the dead first, then the oldest, down to the limit.
Pruned ==
  LET alive == {s \in sessions : ~Dead(s)}
  IN {s \in alive : Cardinality(Younger(s, alive)) < MaxSessions}

\* The table becomes `kept'.  What a dropped session holds is of no more use: a
\* poll that is still at it writes what nobody will read.
Keep(kept) ==
  /\ place' = [s \in Sessions |-> IF s \in kept THEN place[s] ELSE 0]
  /\ session' = [s \in Sessions |-> IF s \in sessions \ kept THEN Gone ELSE session[s]]

Fresh(s) == s \notin starting /\ s \notin sessions /\ session[s] = New

StartSession(s) ==
  /\ Fresh(s)
  /\ Keep(Pruned)
  /\ starting' = starting \cup {s}
  /\ UNCHANGED <<inserts, asked>>

\* RegisterClient and StartDeviceAuthorization have answered, or failed (the
\* call is then as if it had not begun, but for its pruning).
InsertSession(s) ==
  /\ s \in starting
  /\ starting' = starting \ {s}
  /\ \/ place' = [place EXCEPT ![s] = inserts + 1] /\ inserts' = inserts + 1
     \/ UNCHANGED <<place, inserts>>
  /\ UNCHANGED <<session, asked>>

\* A poll of a session that is there and has no token (all others answer at
\* once); its time is looked at before anything is asked.
BeginPoll(p, s) ==
  /\ asked[p].pc = "idle" /\ s \in sessions /\ ~session[s].token
  /\ asked' = [asked EXCEPT ![p] =
       [pc |-> IF session[s].late THEN "late" ELSE "ask", of |-> s]]
  /\ session' = [session EXCEPT ![s].shared =
       @ \/ \E o \in Polls : asked[o].pc # "idle" /\ asked[o].of = s]
  /\ UNCHANGED <<place, inserts, starting>>

Of(p) == asked[p].of
AnswerPoll(p) == asked' = [asked EXCEPT ![p] = NoPoll]
Holds(p, pc) == asked[p].pc = pc /\ Of(p) \in sessions

\* The window was over, or AWS says Expired, of a code that was not approved in
\* time (by its own clock) or has been used: the session is removed, whatever it
\* holds by now.
PollExpired(p) ==
  /\ Holds(p, "late") \/ Holds(p, "ask")
  /\ Keep(sessions \ {Of(p)})
  /\ AnswerPoll(p)
  /\ UNCHANGED <<inserts, starting>>

\* CreateToken spends the code; its answer may be lost.  The token is in the
\* session before the time it ends.
PollToken(p) ==
  /\ Holds(p, "ask") /\ ~session[Of(p)].spent
  /\ \/ /\ session' = [session EXCEPT ![Of(p)].spent = TRUE, ![Of(p)].token = TRUE]
        /\ asked' = [asked EXCEPT ![p].pc = "date"]
     \/ /\ session' = [session EXCEPT ![Of(p)].spent = TRUE]
        /\ AnswerPoll(p)
  /\ UNCHANGED <<place, inserts, starting>>

DateToken(p) ==
  /\ Holds(p, "date")
  /\ session' = [session EXCEPT ![Of(p)].life = "ahead"]
  /\ AnswerPoll(p)
  /\ UNCHANGED <<place, inserts, starting>>

\* AuthorizationPending, SlowDown, or an error that removes nothing; or whatever
\* comes of a poll whose session has been dropped.
PollAnswered(p) ==
  /\ asked[p].pc # "idle" /\ (asked[p].pc = "ask" \/ Of(p) \notin sessions)
  /\ AnswerPoll(p)
  /\ UNCHANGED <<place, inserts, starting, session>>

\* The login window passes, and later the token ends.
Elapse(s) ==
  /\ s \in sessions
  /\ \/ ~session[s].late /\ session' = [session EXCEPT ![s].late = TRUE]
     \/ session[s].life = "ahead" /\ session' = [session EXCEPT ![s].life = "passed"]
  /\ UNCHANGED <<place, inserts, starting, asked>>

SsoNext ==
  \/ \E s \in Sessions : StartSession(s) \/ InsertSession(s) \/ Elapse(s)
  \/ \E p \in Polls : \/ \E s \in Sessions : BeginPoll(p, s)
                      \/ PollExpired(p) \/ PollToken(p)
                      \/ DateToken(p) \/ PollAnswered(p)

SsoSpec == SsoInit /\ [][SsoNext]_ssoVars

-----------------------------------------------------------------------------
\* accounts and credentials go to AWS for a session that is there and has a
\* token, and answer "Not authorized yet." for every other.
SignedIn(s) == s \in sessions /\ session[s].token

\* At least MaxSessions sessions are younger than s.
Outnumbered(s) == Cardinality(Younger(s, sessions)) >= MaxSessions

\* A user who has signed in stays signed in while the token is good, unless as
\* many sessions as the table keeps have been started since, two polls of the
\* session overlapped, or the table is pruned between the two assignments of the
\* token and of its end.
StaysSignedIn ==
  [][\A s \in Sessions :
       SignedIn(s) /\ ~SignedIn(s)' =>
         \/ Outnumbered(s)
         \/ session[s].shared
         \/ session[s].late /\ session[s].life # "ahead"]_ssoVars
=============================================================================
