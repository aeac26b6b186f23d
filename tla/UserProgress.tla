---------------------------- MODULE UserProgress ----------------------------
(***************************************************************************)
(* The progress of users on questions: the table UserProgress, and what    *)
(* the /judge and /setCompleted handlers of the oj_server do to it through *)
(* UserProgressControl.  Each handler reads the row of its user and its    *)
(* question with one SQL statement and writes it with another, an INSERT   *)
(* or an UPDATE of absolute values, with no transaction or lock around     *)
(* them; every statement has a connection of its own and may fail.         *)
(*                                                                         *)
(* A session outlives its user and a cookie its session: with the user     *)
(* gone, or the name read through end(), the SELECT succeeds without a row *)
(* and the id used is the one `new User()' left unset, any id.  Names are  *)
(* ones that SQL reads as they stand (Accounts says what others do).       *)
(*                                                                         *)
(* The time of completion follows is_completed and is left out.  The       *)
(* judging that /judge goes on to is JudgeDispatch and leaves the tables   *)
(* alone: for them the handler is over.  The page posts /setCompleted when *)
(* a program ended without a signal, but the handler takes it from anyone  *)
(* at any time.                                                            *)
(***************************************************************************)
EXTENDS Integers, FiniteSets

CONSTANTS
  Threads,      \* worker threads of the HTTP server
  Users,
  Questions,
  NoRow,        \* the table has no row for a key
  NoJob,        \* a thread has no request
  Faults,       \* statements that may fail: "user", "select", "write"
  MaxRequests   \* bound on the requests received

Keys == Users \X Questions
Rows == [isCompleted : BOOLEAN, attemptCount : Nat]
Ops == {"judge", "complete"}
Jobs == [op : Ops, key : Keys]
Places == {"idle", "user", "query", "write"}

ASSUME ThreadsAssumption == IsFiniteSet(Threads)
ASSUME FaultAssumption == Faults \subseteq {"user", "select", "write"}
ASSUME NoneAssumption ==
  NoRow \notin Rows /\ NoRow \notin Keys /\ NoJob \notin Jobs
ASSUME RequestAssumption == MaxRequests \in Nat

VARIABLES
  users,      \* ids in the table User
  questions,  \* ids in the table questions
  rows,       \* the table UserProgress, by its UNIQUE key
  sessions,   \* users whose cookie the oj_server knows
  pc,         \* per thread: where its handler is
  job,        \* per thread: its request
  row,        \* per thread: the key it works on, once the user's id is read
  up,         \* per thread: the row its handler read, NoRow for progressId 0
  requests,   \* requests received
  judged,     \* history, per key: /judge requests received
  reported,   \* history, per key: /setCompleted requests received
  late,       \* history: keys with a /setCompleted that was not the first
  strays,     \* history, per key: requests that came to it with an unset id
  astray,     \* history: keys a /setCompleted came to with an unset id
  overlapped, \* history: keys with two handlers at once
  disturbed   \* history: keys with a failed statement, a restart, or a
              \* request without a session or a user

local   == <<pc, job, row, up>>
tables  == <<users, questions, rows>>
counted == <<judged, reported, late>>
history == <<counted, strays, astray, overlapped, disturbed>>
vars    == <<tables, sessions, local, requests, history>>

TypeOK ==
  /\ users \in SUBSET Users
  /\ questions \in SUBSET Questions
  /\ rows \in [Keys -> Rows \cup {NoRow}]
  /\ sessions \in SUBSET Users
  /\ pc \in [Threads -> Places]
  /\ job \in [Threads -> Jobs \cup {NoJob}]
  /\ row \in [Threads -> Keys \cup {NoRow}]
  /\ up \in [Threads -> Rows \cup {NoRow}]
  /\ requests \in 0 .. MaxRequests
  /\ judged \in [Keys -> Nat]
  /\ reported \in [Keys -> Nat]
  /\ late \in SUBSET Keys
  /\ strays \in [Keys -> Nat]
  /\ astray \in SUBSET Keys
  /\ overlapped \in SUBSET Keys
  /\ disturbed \in SUBSET Keys

Init ==
  /\ users = Users
  /\ questions = Questions
  /\ rows = [k \in Keys |-> NoRow]
  /\ sessions = Users
  /\ pc = [t \in Threads |-> "idle"]
  /\ job = [t \in Threads |-> NoJob]
  /\ row = [t \in Threads |-> NoRow]
  /\ up = [t \in Threads |-> NoRow]
  /\ requests = 0
  /\ judged = [k \in Keys |-> 0]
  /\ reported = [k \in Keys |-> 0]
  /\ late = {}
  /\ strays = [k \in Keys |-> 0]
  /\ astray = {}
  /\ overlapped = {}
  /\ disturbed = {}

-----------------------------------------------------------------------------
Goto(t, place) == pc' = [pc EXCEPT ![t] = place]

\* The handler of thread t works on row k, or has a request for it.
WorksOn(t, k) == job[t] # NoJob /\ k \in {job[t].key, row[t]}
Busy(k) == \E t \in Threads : WorksOn(t, k)

\* A request comes to row k, which these threads may be working on.
Meet(k, ts) ==
  overlapped' = IF \E t \in ts : WorksOn(t, k)
                  THEN overlapped \cup {k} ELSE overlapped

Disturb(k) == disturbed' = disturbed \cup {k}

\* The handler is over, as far as the progress goes.
Finish(t) ==
  /\ Goto(t, "idle")
  /\ job' = [job EXCEPT ![t] = NoJob]
  /\ row' = [row EXCEPT ![t] = NoRow]
  /\ up' = [up EXCEPT ![t] = NoRow]

\* A statement fails: no connection, or an error from the server.
Fails(statement) == statement \in Faults

\* What the SELECTs find for thread t.
UserFound(t)   == job[t].key[1] \in users \cap sessions
SelectedRow(t) == rows[row[t]]

\* The requests sent for row k, and those that came to it.
Sent(k) == judged[k] + reported[k]
Came(k) == Sent(k) + strays[k]

\* One more request of its kind for row k.
Count(op, k) ==
  /\ IF op = "judge"
       THEN judged' = [judged EXCEPT ![k] = @ + 1] /\ UNCHANGED reported
       ELSE reported' = [reported EXCEPT ![k] = @ + 1] /\ UNCHANGED judged
  /\ late' = IF op = "complete" /\ Sent(k) > 0 THEN late \cup {k} ELSE late

-----------------------------------------------------------------------------
(***************************************************************************)
(* The handlers.                                                           *)
(***************************************************************************)
Receive(t, op, k) ==
  /\ pc[t] = "idle"
  /\ requests < MaxRequests
  /\ requests' = requests + 1
  /\ job' = [job EXCEPT ![t] = [op |-> op, key |-> k]]
  /\ Goto(t, "user")
  /\ Count(op, k)
  /\ Meet(k, Threads)
  /\ UNCHANGED <<tables, sessions, row, up, strays, astray, disturbed>>

\* The id is unset, and happens to make row k of it.
Stray(t, k) ==
  /\ row' = [row EXCEPT ![t] = k]
  /\ strays' = [strays EXCEPT ![k] = @ + 1]
  /\ astray' = IF job[t].op = "complete" THEN astray \cup {k} ELSE astray
  /\ Meet(k, Threads \ {t})
  /\ disturbed' = disturbed \cup {k, job[t].key}

\* When the user cannot be read, the progress is skipped; when the user or
\* the session is gone, the handler goes on with an unset id.
GetUserInfo(t) ==
  /\ pc[t] = "user"
  /\ \/ /\ UserFound(t)
        /\ row' = [row EXCEPT ![t] = job[t].key]
        /\ Goto(t, "query")
        /\ UNCHANGED <<job, up, strays, astray, overlapped, disturbed>>
     \/ /\ ~UserFound(t)
        /\ \E u \in Users : Stray(t, <<u, job[t].key[2]>>)
        /\ Goto(t, "query")
        /\ UNCHANGED <<job, up>>
     \/ /\ Fails("user")
        /\ Finish(t)
        /\ Disturb(job[t].key)
        /\ UNCHANGED <<strays, astray, overlapped>>
  /\ UNCHANGED <<tables, sessions, requests, counted>>

\* A SELECT that fails and one that finds no row are not told apart.
QueryProgress(t) ==
  /\ pc[t] = "query"
  /\ \/ /\ up' = [up EXCEPT ![t] = SelectedRow(t)]
        /\ UNCHANGED disturbed
     \/ /\ Fails("select")
        /\ UNCHANGED up
        /\ Disturb(row[t])
  /\ Goto(t, "write")
  /\ UNCHANGED <<tables, sessions, job, row, requests, counted, strays,
                 astray, overlapped>>

\* The INSERT fails on a key that has a row, and on a user or a question that
\* is gone; on a server in strict mode also always, for its completed_time is
\* 0, which is one of the failures of a write.
AddUserProgress(k, r) ==
  rows' = IF rows[k] = NoRow /\ k[1] \in users /\ k[2] \in questions
            THEN [rows EXCEPT ![k] = r] ELSE rows

\* Mutant: the UPDATE's WHERE clause does not name the user.
UpdateUserProgressAll(k, r) ==
  rows' = [l \in Keys |-> IF l[2] = k[2] /\ rows[l] # NoRow
                            THEN r ELSE rows[l]]

\* The UPDATE stores the values it is given, and changes nothing without a row.
UpdateUserProgress(k, r) ==
  rows' = IF rows[k] # NoRow THEN [rows EXCEPT ![k] = r] ELSE rows

\* Mutant: the row is completed whichever handler wrote it.
WrittenCompleted(op, r) ==
  [isCompleted |-> TRUE, attemptCount |-> r.attemptCount + 1]

\* Mutant: the UPDATE of a judge forgets that the row was completed.
WrittenForgetful(op, r) ==
  [isCompleted |-> op = "complete", attemptCount |-> r.attemptCount + 1]

\* What AddOrUpdateUserProgress and setCompleted make of the row they read.
Written(op, r) ==
  [isCompleted  |-> r.isCompleted \/ op = "complete",
   attemptCount |-> r.attemptCount + 1]

\* The row they insert: `new UserProgress()', whatever the request.
NewRow == [isCompleted |-> FALSE, attemptCount |-> 0]

\* Mutant: /judge inserts its row but never updates it.
WriteProgressOnce(t) ==
  /\ pc[t] = "write"
  /\ \/ /\ up[t] # NoRow
        /\ IF job[t].op = "complete"
             THEN UpdateUserProgress(row[t], Written(job[t].op, up[t]))
             ELSE UNCHANGED rows
     \/ /\ up[t] = NoRow
        /\ AddUserProgress(row[t], NewRow)
  /\ Finish(t)
  /\ UNCHANGED <<users, questions, sessions, requests, history>>

WriteProgress(t) ==
  /\ pc[t] = "write"
  /\ \/ /\ up[t] # NoRow
        /\ UpdateUserProgress(row[t], Written(job[t].op, up[t]))
        /\ UNCHANGED disturbed
     \/ /\ up[t] = NoRow
        /\ AddUserProgress(row[t], NewRow)
        /\ UNCHANGED disturbed
     \/ /\ Fails("write")
        /\ UNCHANGED rows
        /\ Disturb(row[t])
  /\ Finish(t)
  /\ UNCHANGED <<users, questions, sessions, requests, counted, strays, astray,
                 overlapped>>

\* An administrator deletes a question or a user: ON DELETE CASCADE takes
\* their rows.
DeleteQuestion(q) ==
  /\ q \in questions
  /\ questions' = questions \ {q}
  /\ rows' = [k \in Keys |-> IF k[2] = q THEN NoRow ELSE rows[k]]
  /\ UNCHANGED <<users, sessions, local, requests, history>>

DeleteUser(u) ==
  /\ u \in users
  /\ users' = users \ {u}
  /\ rows' = [k \in Keys |-> IF k[1] = u THEN NoRow ELSE rows[k]]
  /\ UNCHANGED <<questions, sessions, local, requests, history>>

\* Logging in and out (Accounts), here one session for a user.
Login(u) ==
  /\ u \in users
  /\ sessions' = sessions \cup {u}
  /\ UNCHANGED <<tables, local, requests, history>>

Logout(u) ==
  /\ sessions' = sessions \ {u}
  /\ UNCHANGED <<tables, local, requests, history>>

\* The process ends, which reading through end() may also do, and is started
\* again: the requests under way are lost, and every session.
Restart ==
  /\ sessions' = {}
  /\ pc' = [t \in Threads |-> "idle"]
  /\ job' = [t \in Threads |-> NoJob]
  /\ row' = [t \in Threads |-> NoRow]
  /\ up' = [t \in Threads |-> NoRow]
  /\ disturbed' = disturbed \cup {k \in Keys : Busy(k)}
  /\ UNCHANGED <<tables, requests, counted, strays, astray, overlapped>>

-----------------------------------------------------------------------------
Handle(t) == GetUserInfo(t) \/ QueryProgress(t) \/ WriteProgress(t)

Next ==
  \/ \E t \in Threads, op \in Ops, k \in Keys : Receive(t, op, k)
  \/ \E t \in Threads : Handle(t)
  \/ \E q \in Questions : DeleteQuestion(q)
  \/ \E u \in Users : DeleteUser(u) \/ Login(u) \/ Logout(u)
  \/ Restart

Spec == Init /\ [][Next]_vars

-----------------------------------------------------------------------------
(***************************************************************************)
(* Properties.                                                             *)
(***************************************************************************)
HasRow(k) == rows[k] # NoRow
Exists(k) == k[1] \in users /\ k[2] \in questions

\* Whatever requests overlap and whatever statements fail, a row never shows
\* more attempts than requests came to it: attempts get lost, none appears,
\* and the request that made the row is not among them (UpdateUserProgress).
\* A request that came with an unset id is one of them.
AttemptsBacked ==
  \A k \in Keys : HasRow(k) => rows[k].attemptCount < Came(k)

\* A row shows as completed only after a /setCompleted that found it made by
\* an earlier request: one sent for its user, or one that came to it with an
\* unset id, because its session or its user was gone (setCompleted).
CompletedWasReported ==
  \A k \in Keys : HasRow(k) /\ rows[k].isCompleted =>
    (reported[k] > 0 \/ k \in astray) /\ rows[k].attemptCount > 0

\* A row whose requests came one after the other without a failed statement is
\* exact, whatever happens to the other rows at the same time: every request
\* but the one that made it is counted, and it is completed once a request
\* other than that one reports it; the first request is forgotten even when it
\* is the report.
UndisturbedExact ==
  \A k \in Keys :
    ~Busy(k) /\ k \notin disturbed \cup overlapped /\ Exists(k) =>
      IF Sent(k) = 0
        THEN ~HasRow(k)
        ELSE rows[k] = [isCompleted  |-> k \in late,
                        attemptCount |-> Sent(k) - 1]

\* Until two handlers are at a row at once, what it shows only grows: although
\* each stores absolute values that it read in an earlier statement, no write
\* takes back an attempt or a completion, whatever statements fail, sessions
\* go stale and restarts come in between (AddOrUpdateUserProgress).
ProgressGrows ==
  [][\A k \in Keys : k \notin overlapped /\ HasRow(k) /\ HasRow(k)' =>
       /\ rows'[k].attemptCount >= rows[k].attemptCount
       /\ rows[k].isCompleted => rows'[k].isCompleted]_vars

\* "Each judge updates the submission count once": with no request under way
\* on it and nothing that went wrong before, a row shows at least the judges
\* received for it.
EveryJudgeCounted ==
  \A k \in Keys :
    /\ ~Busy(k) /\ k \notin disturbed \cup overlapped
    /\ judged[k] > 0 /\ Exists(k)
    => HasRow(k) /\ rows[k].attemptCount >= judged[k]

=============================================================================
