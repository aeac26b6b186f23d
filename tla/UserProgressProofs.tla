------------------------- MODULE UserProgressProofs -------------------------
(***************************************************************************)
(* Proofs about UserProgress, for any number of threads, users, questions  *)
(* and requests: types, what a row may count, when it is completed, and    *)
(* that it only grows.                                                     *)
(***************************************************************************)
EXTENDS UserProgress, FiniteSetTheorems, TLAPS

-----------------------------------------------------------------------------
(***************************************************************************)
(* The inductive invariant.  What a thread works on fits where it is.      *)
(***************************************************************************)
JobsFit ==
  \A t \in Threads :
    /\ pc[t] = "idle" <=> job[t] = NoJob
    /\ pc[t] \in {"idle", "user"} => row[t] = NoRow
    /\ pc[t] \in {"query", "write"} => row[t] \in Keys
    /\ pc[t] # "write" => up[t] = NoRow

\* The threads whose request came to row k and which have not written it yet,
\* and the requests that came beyond them.
Pending(k) ==
  {t \in Threads : \/ pc[t] = "user" /\ job[t].key = k
                   \/ pc[t] \in {"query", "write"} /\ row[t] = k}
Room(k) == Came(k) - Cardinality(Pending(k))

\* What row k shows, and what a thread is about to write on top of, is less.
Roomy(k) ==
  /\ Room(k) >= 0
  /\ HasRow(k) => rows[k].attemptCount < Room(k)
  /\ \A t \in Threads :
       pc[t] = "write" /\ row[t] = k /\ up[t] # NoRow =>
         up[t].attemptCount < Room(k)

\* A report came to row k.
Claimed(k) == reported[k] > 0 \/ k \in astray

Reports(k) ==
  /\ \A t \in Threads :
       /\ pc[t] = "user" /\ job[t] = [op |-> "complete", key |-> k]
            => Claimed(k)
       /\ pc[t] \in {"query", "write"} /\ row[t] = k /\ job[t].op = "complete"
            => Claimed(k)
       /\ pc[t] = "write" /\ row[t] = k /\ up[t] # NoRow =>
            (up[t].isCompleted => Claimed(k))
  /\ HasRow(k) =>
       (rows[k].isCompleted => Claimed(k) /\ rows[k].attemptCount > 0)

Counted == \A k \in Keys : Roomy(k) /\ Reports(k)

\* Until handlers met at row k, one alone works on it, with the row as it is.
Alone(k) ==
  k \notin overlapped =>
    /\ \A t, u \in Threads : WorksOn(t, k) /\ WorksOn(u, k) => t = u
    /\ \A t \in Threads :
         pc[t] = "write" /\ row[t] = k /\ up[t] # NoRow /\ HasRow(k) =>
           up[t] = rows[k]

\* The row after n requests.
Shows(k, n) ==
  IF n = 0 THEN rows[k] = NoRow
           ELSE HasRow(k) /\ rows[k].attemptCount = n - 1

InOrder(t, k) ==
  /\ job[t].key = k
  /\ pc[t] # "user" => row[t] = k
  /\ Sent(k) > 0
  /\ job[t].op = "complete" => (k \in late <=> Sent(k) > 1)
  /\ Exists(k) =>
       /\ Shows(k, Sent(k) - 1)
       /\ job[t].op = "judge" /\ HasRow(k) =>
            (rows[k].isCompleted <=> k \in late)
       /\ pc[t] = "write" => up[t] = rows[k]

Orderly(k) ==
  k \notin disturbed \cup overlapped =>
    /\ k \in late => Sent(k) > 1
    /\ \A t \in Threads : WorksOn(t, k) => InOrder(t, k)
    /\ ~Busy(k) /\ Exists(k) =>
         /\ Shows(k, Sent(k))
         /\ HasRow(k) => (rows[k].isCompleted <=> k \in late)

IInv ==
  /\ TypeOK /\ JobsFit /\ Counted
  /\ \A k \in Keys : Alone(k) /\ Orderly(k)

-----------------------------------------------------------------------------
(***************************************************************************)
(* Lemmas about the steps of a thread.                                     *)
(***************************************************************************)
\* Everything of thread t is as it was.
Stays(t) == UNCHANGED <<pc[t], job[t], row[t], up[t]>>

\* Nothing of what happened to the keys is forgotten.
Grow ==
  \A k \in Keys :
    /\ Sent(k)' >= Sent(k) /\ Came(k)' >= Came(k)
    /\ reported'[k] >= reported[k]
    /\ k \in late => k \in late'
    /\ k \in astray => k \in astray'
    /\ k \in overlapped => k \in overlapped'
    /\ k \in disturbed => k \in disturbed'

\* What is counted are numbers.
LEMMA Numbers ==
  TypeOK => \A k \in Keys :
              /\ judged[k] \in Nat /\ reported[k] \in Nat /\ strays[k] \in Nat
              /\ Sent(k) \in Nat /\ Came(k) \in Nat
  BY DEF TypeOK, Sent, Came

LEMMA NumbersNext ==
  TypeOK' => \A k \in Keys : (/\ Sent(k) \in Nat /\ Came(k) \in Nat
                              /\ reported[k] \in Nat)'
  BY DEF TypeOK, Sent, Came

LEMMA Finished ==
  ASSUME TypeOK, NEW t \in Threads, Finish(t)
  PROVE  /\ pc'[t] = "idle" /\ job'[t] = NoJob
         /\ row'[t] = NoRow /\ up'[t] = NoRow
         /\ \A u \in Threads \ {t} : Stays(u)
         /\ pc' \in [Threads -> Places]
         /\ job' \in [Threads -> Jobs \cup {NoJob}]
         /\ row' \in [Threads -> Keys \cup {NoRow}]
         /\ up' \in [Threads -> Rows \cup {NoRow}]
  BY DEF Finish, Goto, TypeOK, Stays, Places

\* A request for row l.
LEMMA Received ==
  ASSUME TypeOK, JobsFit, NEW t \in Threads, NEW op \in Ops, NEW l \in Keys,
         Receive(t, op, l)
  PROVE  /\ pc[t] = "idle" /\ job[t] = NoJob /\ row[t] = NoRow
         /\ pc'[t] = "user" /\ row'[t] = NoRow /\ up'[t] = NoRow
         /\ job'[t] = [op |-> op, key |-> l] /\ job'[t] # NoJob
         /\ \A u \in Threads \ {t} : Stays(u)
         /\ UNCHANGED <<users, questions, rows, strays, astray, disturbed>>
  BY NoneAssumption DEF Receive, Goto, JobsFit, TypeOK, Stays, tables, Jobs

LEMMA ReceivedCounts ==
  ASSUME TypeOK, NEW t \in Threads, NEW op \in Ops, NEW l \in Keys,
         Receive(t, op, l)
  PROVE  /\ Sent(l)' = Sent(l) + 1 /\ Came(l)' = Came(l) + 1
         /\ reported'[l] = IF op = "complete" THEN reported[l] + 1
                                              ELSE reported[l]
         /\ \A k \in Keys \ {l} : /\ judged'[k] = judged[k]
                                  /\ reported'[k] = reported[k]
  <1>1. ASSUME NEW k \in Keys
        PROVE  /\ judged'[k] = IF k = l /\ op = "judge"
                                 THEN judged[k] + 1 ELSE judged[k]
               /\ reported'[k] = IF k = l /\ op = "complete"
                                   THEN reported[k] + 1 ELSE reported[k]
               /\ strays'[k] = strays[k]
    BY DEF Receive, Count, TypeOK, Ops
  <1>2. Sent(l)' = Sent(l) + 1 /\ Came(l)' = Came(l) + 1
    BY <1>1, Numbers DEF Sent, Came, Ops
  <1> QED
    BY <1>1, <1>2

\* What a request for row l adds to the histories.
LEMMA ReceivedMarks ==
  ASSUME NEW t \in Threads, NEW op \in Ops, NEW l \in Keys, Receive(t, op, l),
         NEW k \in Keys
  PROVE  /\ k \in late' <=>
              k \in late \/ (k = l /\ op = "complete" /\ Sent(l) > 0)
         /\ k \in overlapped' <=> k \in overlapped \/ (k = l /\ Busy(l))
  <1>1. /\ Busy(l) => overlapped' = overlapped \cup {l}
        /\ ~Busy(l) => overlapped' = overlapped
    BY DEF Receive, Meet, Busy
  <1>2. /\ op = "complete" /\ Sent(l) > 0 => late' = late \cup {l}
        /\ ~(op = "complete" /\ Sent(l) > 0) => late' = late
    BY DEF Receive, Count
  <1>3. k \in overlapped' <=> k \in overlapped \/ (k = l /\ Busy(l))
    BY <1>1, Zenon
  <1>4. k \in late' <=>
          k \in late \/ (k = l /\ op = "complete" /\ Sent(l) > 0)
    BY <1>2, Zenon
  <1> QED
    BY <1>3, <1>4

\* Reading the user: the row of the request, any row of the question, or none.
LEMMA UserRead ==
  ASSUME TypeOK, JobsFit, NEW t \in Threads, GetUserInfo(t)
  PROVE  /\ pc[t] = "user" /\ row[t] = NoRow /\ up[t] = NoRow
         /\ job[t] \in Jobs /\ job[t] # NoJob /\ job[t].key \in Keys
         /\ UNCHANGED <<tables, sessions, requests, counted>>
         /\ \A u \in Threads \ {t} : Stays(u)
         /\ \/ /\ Finish(t) /\ Disturb(job[t].key)
               /\ UNCHANGED <<strays, astray, overlapped>>
            \/ /\ pc'[t] = "query" /\ UNCHANGED <<job, up>>
               /\ pc' \in [Threads -> Places]
               /\ row' = [row EXCEPT ![t] = job[t].key]
               /\ UNCHANGED <<strays, astray, overlapped, disturbed>>
            \/ /\ pc'[t] = "query" /\ UNCHANGED <<job, up>>
               /\ pc' \in [Threads -> Places]
               /\ \E l \in Keys : Stray(t, l)
  <1>1. /\ pc[t] = "user" /\ row[t] = NoRow /\ up[t] = NoRow
        /\ job[t] \in Jobs /\ job[t] # NoJob /\ job[t].key \in Keys
        /\ UNCHANGED <<tables, sessions, requests, counted>>
    BY DEF GetUserInfo, JobsFit, TypeOK, Jobs
  <1>2. CASE /\ Goto(t, "query") /\ UNCHANGED <<job, up>>
             /\ row' = [row EXCEPT ![t] = job[t].key]
             /\ UNCHANGED <<strays, astray, overlapped, disturbed>>
    BY <1>1, <1>2 DEF Goto, TypeOK, Stays, Places
  <1>3. ASSUME NEW u \in Users, Stray(t, <<u, job[t].key[2]>>),
               Goto(t, "query"), UNCHANGED <<job, up>>
        PROVE  /\ \A v \in Threads \ {t} : Stays(v)
               /\ pc'[t] = "query" /\ pc' \in [Threads -> Places]
               /\ \E l \in Keys : Stray(t, l)
    <2>1. <<u, job[t].key[2]>> \in Keys
      BY <1>1 DEF Keys
    <2>2. \A v \in Threads \ {t} : Stays(v)
      BY <1>3 DEF Stray, Goto, TypeOK, Stays
    <2> QED
      BY <1>3, <2>1, <2>2 DEF Goto, TypeOK, Places
  <1>4. CASE /\ Finish(t) /\ Disturb(job[t].key)
             /\ UNCHANGED <<strays, astray, overlapped>>
    BY <1>1, <1>4, Finished
  <1> QED
    BY <1>1, <1>2, <1>3, <1>4 DEF GetUserInfo

LEMMA Strayed ==
  ASSUME TypeOK, NEW t \in Threads, NEW l \in Keys, Stray(t, l),
         UNCHANGED counted
  PROVE  /\ row'[t] = l
         /\ \A k \in Keys :
              /\ Sent(k)' = Sent(k)
              /\ Came(k)' = IF k = l THEN Came(k) + 1 ELSE Came(k)
              /\ k \in astray' <=>
                   k \in astray \/ (k = l /\ job[t].op = "complete")
              /\ k \in overlapped' <=>
                   \/ k \in overlapped
                   \/ k = l /\ \E u \in Threads \ {t} : WorksOn(u, l)
              /\ k \in disturbed' <=>
                   k \in disturbed \/ k = l \/ k = job[t].key
  <1>1. ASSUME NEW k \in Keys
        PROVE  /\ Sent(k)' = Sent(k)
               /\ Came(k)' = IF k = l THEN Came(k) + 1 ELSE Came(k)
    <2>1. strays'[k] = IF k = l THEN strays[k] + 1 ELSE strays[k]
      BY DEF Stray, TypeOK
    <2> QED
      BY <2>1, Numbers DEF Sent, Came, counted
  <1>2. row'[t] = l
    BY DEF Stray, TypeOK
  <1>3. ASSUME NEW k \in Keys
        PROVE  /\ k \in astray' <=>
                    k \in astray \/ (k = l /\ job[t].op = "complete")
               /\ k \in overlapped' <=>
                    \/ k \in overlapped
                    \/ k = l /\ \E u \in Threads \ {t} : WorksOn(u, l)
               /\ k \in disturbed' <=>
                    k \in disturbed \/ k = l \/ k = job[t].key
    <2> DEFINE Met == \E u \in Threads \ {t} : WorksOn(u, l)
    <2>1. /\ Met => overlapped' = overlapped \cup {l}
          /\ ~Met => overlapped' = overlapped
      BY DEF Stray, Meet
    <2>2. /\ job[t].op = "complete" => astray' = astray \cup {l}
          /\ job[t].op # "complete" => astray' = astray
          /\ disturbed' = disturbed \cup {l, job[t].key}
      BY DEF Stray
    <2>3. k \in overlapped' <=> k \in overlapped \/ (k = l /\ Met)
      <3> HIDE DEF Met
      <3>1. CASE Met
        BY <2>1, <3>1, Zenon
      <3>2. CASE ~Met
        BY <2>1, <3>2, Zenon
      <3> QED
        BY <3>1, <3>2
    <2>4. /\ k \in astray' <=>
               k \in astray \/ (k = l /\ job[t].op = "complete")
          /\ k \in disturbed' <=>
               k \in disturbed \/ k = l \/ k = job[t].key
      BY <2>2, Zenon
    <2> QED
      BY <2>3, <2>4
  <1> QED
    BY <1>1, <1>2, <1>3

\* Reading the row and writing it.
LEMMA Queried ==
  ASSUME TypeOK, JobsFit, NEW t \in Threads, QueryProgress(t)
  PROVE  /\ pc[t] = "query" /\ pc'[t] = "write" /\ row[t] \in Keys
         /\ job[t] # NoJob
         /\ UNCHANGED <<tables, sessions, job, row, requests, counted, strays,
                        astray, overlapped>>
         /\ \A u \in Threads \ {t} : Stays(u)
         /\ pc' \in [Threads -> Places]
         /\ up' \in [Threads -> Rows \cup {NoRow}]
         /\ \/ up'[t] = rows[row[t]] /\ disturbed' = disturbed
            \/ up'[t] = NoRow /\ Disturb(row[t])
  <1>1. pc[t] = "query" /\ row[t] \in Keys /\ job[t] # NoJob /\ up[t] = NoRow
    BY DEF QueryProgress, JobsFit
  <1> QED
    BY <1>1 DEF QueryProgress, SelectedRow, Goto, TypeOK, Stays, Places

LEMMA Wrote ==
  ASSUME TypeOK, JobsFit, NEW t \in Threads, WriteProgress(t)
  PROVE  /\ pc[t] = "write" /\ row[t] \in Keys /\ job[t] # NoJob
         /\ job[t] \in Jobs
         /\ Finish(t)
         /\ UNCHANGED <<users, questions, sessions, requests, counted, strays,
                        astray, overlapped>>
         /\ \A k \in Keys \ {row[t]} : rows'[k] = rows[k]
         /\ rows' \in [Keys -> Rows \cup {NoRow}]
         /\ \/ disturbed' = disturbed
            \/ Disturb(row[t]) /\ UNCHANGED rows
  <1>1. /\ pc[t] = "write" /\ row[t] \in Keys /\ job[t] # NoJob
        /\ job[t] \in Jobs
    BY DEF WriteProgress, JobsFit, TypeOK
  <1>2. NewRow \in Rows
    BY DEF NewRow, Rows
  <1>3. ASSUME up[t] # NoRow PROVE Written(job[t].op, up[t]) \in Rows
    <2>1. up[t].attemptCount + 1 \in Nat
      BY <1>3 DEF TypeOK, Rows
    <2>2. (up[t].isCompleted \/ job[t].op = "complete") \in BOOLEAN
      OBVIOUS
    <2> QED
      BY <2>1, <2>2, Zenon DEF Rows, Written
  <1>4. /\ \A k \in Keys \ {row[t]} : rows'[k] = rows[k]
        /\ rows' \in [Keys -> Rows \cup {NoRow}]
    BY <1>1, <1>2, <1>3 DEF WriteProgress, AddUserProgress, UpdateUserProgress,
       TypeOK
  <1> QED
    BY <1>1, <1>4 DEF WriteProgress

-----------------------------------------------------------------------------
LEMMA InitTypes == Init => TypeOK /\ JobsFit
  BY RequestAssumption, NoneAssumption
     DEF Init, TypeOK, JobsFit, Places

LEMMA TypeStep == TypeOK /\ JobsFit /\ [Next]_vars => TypeOK'
  <1> SUFFICES ASSUME TypeOK, JobsFit, [Next]_vars PROVE TypeOK'
    OBVIOUS
  <1>1. ASSUME NEW t \in Threads, NEW op \in Ops, NEW k \in Keys,
               Receive(t, op, k)
        PROVE  TypeOK'
    <2>1. job' \in [Threads -> Jobs \cup {NoJob}]
      BY <1>1 DEF Receive, TypeOK, Jobs
    <2>2. pc' \in [Threads -> Places] /\ overlapped' \in SUBSET Keys
      BY <1>1 DEF Receive, Goto, Places, TypeOK, Meet
    <2>3. requests' \in 0 .. MaxRequests
      BY <1>1, RequestAssumption DEF Receive, TypeOK
    <2>4. /\ judged' \in [Keys -> Nat] /\ reported' \in [Keys -> Nat]
          /\ late' \in SUBSET Keys
      BY <1>1 DEF Receive, Count, TypeOK
    <2>5. UNCHANGED <<tables, sessions, row, up, strays, astray, disturbed>>
      BY <1>1 DEF Receive
    <2> QED
      BY <2>1, <2>2, <2>3, <2>4, <2>5 DEF TypeOK, tables
  <1>2. ASSUME NEW t \in Threads, GetUserInfo(t) PROVE TypeOK'
    <2>0. UNCHANGED <<tables, sessions, requests, counted>>
            /\ job[t].key \in Keys
      BY <1>2, UserRead
    <2>1. CASE /\ Finish(t) /\ Disturb(job[t].key)
               /\ UNCHANGED <<strays, astray, overlapped>>
      BY <2>0, <2>1, Finished DEF TypeOK, Disturb, tables, counted
    <2>2. CASE /\ UNCHANGED <<job, up>> /\ pc' \in [Threads -> Places]
               /\ row' = [row EXCEPT ![t] = job[t].key]
               /\ UNCHANGED <<strays, astray, overlapped, disturbed>>
      BY <2>0, <2>2 DEF TypeOK, tables, counted
    <2>3. ASSUME UNCHANGED <<job, up>>, pc' \in [Threads -> Places],
                 NEW l \in Keys, Stray(t, l)
          PROVE  TypeOK'
      BY <2>0, <2>3 DEF TypeOK, Stray, Meet, tables, counted
    <2> QED
      BY <1>2, <2>1, <2>2, <2>3, UserRead
  <1>3. ASSUME NEW t \in Threads, QueryProgress(t) PROVE TypeOK'
    <2>1. disturbed' \in SUBSET Keys
      BY <1>3, Queried DEF Disturb, TypeOK
    <2> QED
      BY <1>3, <2>1, Queried DEF TypeOK, tables, counted
  <1>4. ASSUME NEW t \in Threads, WriteProgress(t) PROVE TypeOK'
    <2>1. disturbed' \in SUBSET Keys
      BY <1>4, Wrote DEF Disturb, TypeOK
    <2> QED
      BY <1>4, <2>1, Wrote, Finished DEF TypeOK, counted
  <1>5. ASSUME (\E q \in Questions : DeleteQuestion(q))
                 \/ (\E u \in Users : DeleteUser(u))
        PROVE  TypeOK'
    <2>1. rows' \in [Keys -> Rows \cup {NoRow}]
      BY <1>5 DEF DeleteQuestion, DeleteUser, TypeOK
    <2> QED
      BY <1>5, <2>1 DEF DeleteQuestion, DeleteUser, TypeOK, local, history,
         counted
  <1>6. ASSUME NEW u \in Users, Login(u) \/ Logout(u) PROVE TypeOK'
    BY <1>6 DEF Login, Logout, TypeOK, tables, local, history, counted
  <1>7. CASE Restart
    BY <1>7 DEF Restart, TypeOK, tables, Places, counted
  <1>8. CASE UNCHANGED vars
    BY <1>8 DEF vars, TypeOK, tables, local, history, counted
  <1> QED
    BY <1>1, <1>2, <1>3, <1>4, <1>5, <1>6, <1>7, <1>8 DEF Next, Handle

-----------------------------------------------------------------------------
\* What the threads work on.
LEMMA JobsStep == TypeOK /\ JobsFit /\ [Next]_vars => JobsFit'
  <1> SUFFICES ASSUME TypeOK, JobsFit, [Next]_vars PROVE JobsFit'
    OBVIOUS
  <1>1. ASSUME NEW t \in Threads, NEW op \in Ops, NEW k \in Keys,
               Receive(t, op, k)
        PROVE  JobsFit'
    <2>1. /\ pc'[t] = "user" /\ row'[t] = NoRow /\ up'[t] = NoRow
          /\ job'[t] # NoJob
          /\ \A u \in Threads \ {t} : Stays(u)
      BY <1>1, Received
    <2> QED
      BY <2>1 DEF JobsFit, Stays
  <1>2. ASSUME NEW t \in Threads, GetUserInfo(t) PROVE JobsFit'
    <2>1. CASE Finish(t)
      BY <2>1, Finished DEF JobsFit, Stays
    <2>2. CASE /\ pc'[t] = "query" /\ UNCHANGED <<job, up>>
               /\ \E l \in Keys : row'[t] = l
      BY <1>2, <2>2, UserRead DEF JobsFit, Stays
    <2>3. ASSUME NEW l \in Keys, row' = [row EXCEPT ![t] = l] \/ Stray(t, l)
          PROVE  row'[t] = l
      BY <2>3 DEF Stray, TypeOK
    <2> QED
      BY <1>2, <2>1, <2>2, <2>3, UserRead
  <1>3. ASSUME NEW t \in Threads, QueryProgress(t) PROVE JobsFit'
    BY <1>3, Queried DEF JobsFit, Stays
  <1>4. ASSUME NEW t \in Threads, WriteProgress(t) PROVE JobsFit'
    BY <1>4, Wrote, Finished DEF JobsFit, Stays
  <1>5. CASE UNCHANGED local
    BY <1>5 DEF JobsFit, local
  <1>6. CASE Restart
    BY <1>6 DEF Restart, JobsFit
  <1> QED
    BY <1>1, <1>2, <1>3, <1>4, <1>5, <1>6 DEF Next, Handle, DeleteQuestion,
       DeleteUser, Login, Logout, vars

LEMMA GrowStep == TypeOK /\ JobsFit /\ [Next]_vars => Grow
  <1> SUFFICES ASSUME TypeOK, JobsFit, [Next]_vars PROVE Grow
    OBVIOUS
  <1>0. \A k \in Keys : /\ Sent(k) \in Nat /\ Came(k) \in Nat
                        /\ reported[k] \in Nat
    BY Numbers
  <1>1. ASSUME NEW t \in Threads, NEW op \in Ops, NEW k \in Keys,
               Receive(t, op, k)
        PROVE  Grow
    <2> SUFFICES ASSUME NEW l \in Keys
                 PROVE  /\ Sent(l)' >= Sent(l) /\ Came(l)' >= Came(l)
                        /\ reported'[l] >= reported[l]
                        /\ l \in late => l \in late'
                        /\ l \in astray => l \in astray'
                        /\ l \in overlapped => l \in overlapped'
                        /\ l \in disturbed => l \in disturbed'
      BY DEF Grow
    <2>1. UNCHANGED <<astray, disturbed>>
      BY <1>1, Received
    <2>a. /\ l \in late => l \in late'
          /\ l \in overlapped => l \in overlapped'
      BY <1>1, ReceivedMarks
    <2>2. /\ Sent(l) \in Nat /\ Came(l) \in Nat /\ reported[l] \in Nat
      BY <1>0
    <2>3. CASE l = k
      <3>1. /\ Sent(l)' = Sent(l) + 1 /\ Came(l)' = Came(l) + 1
            /\ reported'[l] \in {reported[l], reported[l] + 1}
        BY <1>1, <2>3, ReceivedCounts
      <3> QED
        BY <2>1, <2>a, <2>2, <3>1
    <2>4. CASE l # k
      <3>1. /\ Sent(l)' = Sent(l) /\ Came(l)' = Came(l)
            /\ reported'[l] = reported[l]
        <4>1. /\ judged'[l] = judged[l] /\ reported'[l] = reported[l]
              /\ strays' = strays
          BY <1>1, <2>4 DEF Receive, Count, TypeOK
        <4> QED
          BY <4>1 DEF Sent, Came
      <3> QED
        BY <2>1, <2>a, <2>2, <3>1
    <2> QED
      BY <2>3, <2>4
  <1>a. ASSUME UNCHANGED <<counted, strays>>, astray \subseteq astray',
               overlapped \subseteq overlapped', disturbed \subseteq disturbed'
        PROVE  Grow
    BY <1>0, <1>a DEF Grow, Sent, Came, counted
  <1>2. ASSUME NEW t \in Threads, GetUserInfo(t) PROVE Grow
    <2>1. UNCHANGED counted
      BY <1>2, UserRead
    <2>2. ASSUME NEW l \in Keys, Stray(t, l) PROVE Grow
      <3>1. ASSUME NEW k \in Keys
            PROVE  /\ Sent(k)' >= Sent(k) /\ Came(k)' >= Came(k)
                   /\ k \in astray => k \in astray'
                   /\ k \in overlapped => k \in overlapped'
                   /\ k \in disturbed => k \in disturbed'
        <4>1. /\ Sent(k)' = Sent(k)
              /\ Came(k)' = IF k = l THEN Came(k) + 1 ELSE Came(k)
              /\ k \in astray => k \in astray'
              /\ k \in overlapped => k \in overlapped'
              /\ k \in disturbed => k \in disturbed'
          BY <2>1, <2>2, Strayed
        <4> QED
          BY <1>0, <4>1
      <3> QED
        BY <1>0, <2>1, <3>1 DEF Grow, counted
    <2>3. CASE UNCHANGED <<strays, astray, overlapped>>
                 /\ disturbed \subseteq disturbed'
      BY <2>1, <2>3, <1>a
    <2> QED
      BY <1>2, <2>2, <2>3, UserRead DEF Disturb
  <1>3. ASSUME NEW t \in Threads, QueryProgress(t) PROVE Grow
    BY <1>3, <1>a, Queried DEF Disturb
  <1>4. ASSUME NEW t \in Threads, WriteProgress(t) PROVE Grow
    BY <1>4, <1>a, Wrote DEF Disturb
  <1>5. CASE UNCHANGED history
    BY <1>5, <1>a DEF history
  <1>6. CASE Restart
    BY <1>6, <1>a DEF Restart
  <1> QED
    BY <1>1, <1>2, <1>3, <1>4, <1>5, <1>6 DEF Next, Handle, DeleteQuestion,
       DeleteUser, Login, Logout, vars

-----------------------------------------------------------------------------
(***************************************************************************)
(* Where a thread, its request and the rows come from.                     *)
(***************************************************************************)
\* What a thread can do in a step, or have done to it.
LEMMA OwnStep ==
  ASSUME TypeOK, JobsFit, [Next]_vars, NEW u \in Threads
  PROVE  \/ Stays(u)
         \/ pc'[u] = "idle" /\ job'[u] = NoJob
         \/ \E op \in Ops, k \in Keys : Receive(u, op, k)
         \/ GetUserInfo(u) /\ pc'[u] = "query" /\ UNCHANGED <<job, up>>
         \/ QueryProgress(u)
  <1>1. ASSUME NEW t \in Threads, NEW op \in Ops, NEW k \in Keys,
               Receive(t, op, k)
        PROVE  Stays(u) \/ u = t
    BY <1>1, Received
  <1>2. ASSUME NEW t \in Threads, GetUserInfo(t)
        PROVE  \/ Stays(u)
               \/ pc'[u] = "idle" /\ job'[u] = NoJob
               \/ u = t /\ pc'[u] = "query" /\ UNCHANGED <<job, up>>
    BY <1>2, UserRead, Finished
  <1>3. ASSUME NEW t \in Threads, QueryProgress(t) PROVE Stays(u) \/ u = t
    BY <1>3, Queried
  <1>4. ASSUME NEW t \in Threads, WriteProgress(t)
        PROVE  Stays(u) \/ (pc'[u] = "idle" /\ job'[u] = NoJob)
    BY <1>4, Wrote, Finished
  <1>5. CASE UNCHANGED local
    BY <1>5 DEF local, Stays
  <1>6. CASE Restart
    BY <1>6 DEF Restart
  <1> QED
    BY <1>1, <1>2, <1>3, <1>4, <1>5, <1>6 DEF Next, Handle, DeleteQuestion,
       DeleteUser, Login, Logout, vars

LEMMA RowsStep ==
  ASSUME TypeOK, JobsFit, [Next]_vars, NEW k \in Keys, HasRow(k)'
  PROVE  \/ HasRow(k) /\ rows'[k] = rows[k]
         \/ \E t \in Threads :
              /\ WriteProgress(t) /\ row[t] = k
              /\ \/ up[t] # NoRow /\ rows'[k] = Written(job[t].op, up[t])
                 \/ up[t] = NoRow /\ rows[k] = NoRow /\ rows'[k] = NewRow
  <1> USE DEF HasRow
  <1>1. ASSUME NEW t \in Threads, WriteProgress(t)
        PROVE  \/ HasRow(k) /\ rows'[k] = rows[k]
               \/ /\ row[t] = k
                  /\ \/ up[t] # NoRow /\ rows'[k] = Written(job[t].op, up[t])
                     \/ up[t] = NoRow /\ rows[k] = NoRow /\ rows'[k] = NewRow
    BY <1>1 DEF WriteProgress, AddUserProgress, UpdateUserProgress, TypeOK
  <1>2. CASE UNCHANGED rows
    BY <1>2
  <1>3. CASE (\E q \in Questions : DeleteQuestion(q))
               \/ (\E u \in Users : DeleteUser(u))
    BY <1>3 DEF DeleteQuestion, DeleteUser, TypeOK
  <1> QED
    BY <1>1, <1>2, <1>3 DEF Next, Handle, Receive, GetUserInfo, QueryProgress,
       Login, Logout, Restart, vars, tables

-----------------------------------------------------------------------------
(***************************************************************************)
(* Room: requests that came, less those whose handler has yet to write.    *)
(***************************************************************************)
LEMMA PendingFinite ==
  ASSUME NEW k
  PROVE  IsFiniteSet(Pending(k)) /\ Cardinality(Pending(k)) \in Nat
  <1>1. Pending(k) \in SUBSET Threads
    BY DEF Pending
  <1> QED
    BY <1>1, ThreadsAssumption, FS_Subset, FS_CardinalityType

\* A step that adds a pending thread to k and a request for k leaves the room,
\* one that adds none leaves it too, and one that takes a thread away makes
\* more.
LEMMA RoomKept ==
  ASSUME TypeOK, TypeOK', NEW k \in Keys, NEW t \in Threads,
         Pending(k)' \subseteq Pending(k) \cup {t},
         Came(k)' = Came(k) + 1
  PROVE  Room(k)' >= Room(k)
  <1>1. /\ Cardinality(Pending(k)) \in Nat /\ IsFiniteSet(Pending(k))
        /\ Came(k) \in Nat
    BY PendingFinite, Numbers
  <1>2. /\ IsFiniteSet(Pending(k) \cup {t})
        /\ Cardinality(Pending(k) \cup {t}) =
             IF t \in Pending(k) THEN Cardinality(Pending(k))
                                 ELSE Cardinality(Pending(k)) + 1
    BY <1>1, FS_AddElement
  <1>3. /\ Cardinality(Pending(k)') <= Cardinality(Pending(k) \cup {t})
        /\ Cardinality(Pending(k)') \in Nat
    BY <1>2, FS_Subset, FS_CardinalityType
  <1> QED
    BY <1>1, <1>2, <1>3 DEF Room

LEMMA RoomMade ==
  ASSUME TypeOK, TypeOK', NEW k \in Keys, NEW t \in Pending(k),
         Pending(k)' \subseteq Pending(k) \ {t}, Came(k)' >= Came(k)
  PROVE  Room(k)' >= Room(k) + 1
  <1>1. /\ Cardinality(Pending(k)) \in Nat /\ IsFiniteSet(Pending(k))
        /\ Came(k) \in Nat /\ Came(k)' \in Nat
    BY PendingFinite, Numbers, NumbersNext
  <1>2. /\ IsFiniteSet(Pending(k) \ {t})
        /\ Cardinality(Pending(k) \ {t}) = Cardinality(Pending(k)) - 1
    BY <1>1, FS_RemoveElement
  <1>3. /\ Cardinality(Pending(k)') <= Cardinality(Pending(k) \ {t})
        /\ Cardinality(Pending(k)') \in Nat
    BY <1>2, FS_Subset, FS_CardinalityType
  <1> QED
    BY <1>1, <1>2, <1>3 DEF Room

LEMMA RoomStayed ==
  ASSUME TypeOK, TypeOK', NEW k \in Keys,
         Pending(k)' \subseteq Pending(k), Came(k)' >= Came(k)
  PROVE  Room(k)' >= Room(k)
  <1>1. /\ Cardinality(Pending(k)) \in Nat /\ IsFiniteSet(Pending(k))
        /\ Came(k) \in Nat /\ Came(k)' \in Nat
    BY PendingFinite, Numbers, NumbersNext
  <1>2. /\ Cardinality(Pending(k)') <= Cardinality(Pending(k))
        /\ Cardinality(Pending(k)') \in Nat
    BY <1>1, FS_Subset, FS_CardinalityType
  <1> QED
    BY <1>1, <1>2 DEF Room

\* No step takes room away, and a write makes some.
LEMMA RoomStep ==
  ASSUME TypeOK, TypeOK', JobsFit, [Next]_vars
  PROVE  /\ \A k \in Keys : Room(k)' >= Room(k)
         /\ \A t \in Threads, k \in Keys :
              WriteProgress(t) /\ k = row[t] => Room(k)' >= Room(k) + 1
  <1>a. ASSUME NEW k \in Keys,
               \A u \in Threads : u \in Pending(k)' => u \in Pending(k)
        PROVE  Room(k)' >= Room(k)
    <2>1. Pending(k)' \subseteq Pending(k)
      BY <1>a DEF Pending
    <2>2. Came(k)' >= Came(k)
      BY GrowStep DEF Grow
    <2> QED
      BY <2>1, <2>2, RoomStayed
  <1>b. ASSUME NEW k \in Keys, NEW t \in Threads, Came(k)' = Came(k) + 1,
               \A u \in Threads \ {t} : u \in Pending(k)' => u \in Pending(k)
        PROVE  Room(k)' >= Room(k)
    <2>1. Pending(k)' \subseteq Pending(k) \cup {t}
      BY <1>b DEF Pending
    <2> QED
      BY <1>b, <2>1, RoomKept
  <1>c. ASSUME NEW k \in Keys, NEW u \in Threads, Stays(u)
        PROVE  u \in Pending(k)' => u \in Pending(k)
    BY <1>c DEF Stays, Pending
  <1>1. ASSUME NEW t \in Threads, NEW op \in Ops, NEW l \in Keys,
               Receive(t, op, l), NEW k \in Keys
        PROVE  Room(k)' >= Room(k)
    <2>1. \A u \in Threads \ {t} : u \in Pending(k)' => u \in Pending(k)
      BY <1>1, <1>c, Received
    <2>2. CASE k = l
      BY <1>1, <1>b, <2>1, <2>2, ReceivedCounts
    <2>3. CASE k # l
      <3>1. pc'[t] = "user" /\ job'[t].key = l
        BY <1>1 DEF Receive, Goto, TypeOK
      <3>2. t \notin Pending(k)'
        BY <2>3, <3>1 DEF Pending
      <3> QED
        BY <1>a, <2>1, <3>2
    <2> QED
      BY <2>2, <2>3
  <1>2. ASSUME NEW t \in Threads, GetUserInfo(t), NEW k \in Keys
        PROVE  Room(k)' >= Room(k)
    <2>0. /\ pc[t] = "user" /\ UNCHANGED counted
          /\ \A u \in Threads \ {t} : u \in Pending(k)' => u \in Pending(k)
      BY <1>2, <1>c, UserRead
    <2>1. CASE Finish(t)
      <3>1. t \notin Pending(k)'
        BY <2>1, Finished DEF Pending
      <3> QED
        BY <1>a, <2>0, <3>1
    <2>2. CASE row' = [row EXCEPT ![t] = job[t].key] /\ pc'[t] = "query"
      <3>1. t \in Pending(k)' => t \in Pending(k)
        BY <2>0, <2>2 DEF Pending, TypeOK
      <3> QED
        BY <1>a, <2>0, <3>1
    <2>3. ASSUME NEW l \in Keys, Stray(t, l), pc'[t] = "query"
          PROVE  Room(k)' >= Room(k)
      <3>1. CASE k = l
        BY <1>b, <2>0, <2>3, <3>1, Strayed
      <3>2. CASE k # l
        <4>1. t \notin Pending(k)'
          BY <2>0, <2>3, <3>2, Strayed DEF Pending
        <4> QED
          BY <1>a, <2>0, <4>1
      <3> QED
        BY <3>1, <3>2
    <2> QED
      BY <1>2, <2>1, <2>2, <2>3, UserRead
  <1>3. ASSUME NEW t \in Threads, QueryProgress(t), NEW k \in Keys
        PROVE  Room(k)' >= Room(k)
    <2>1. t \in Pending(k)' => t \in Pending(k)
      BY <1>3, Queried DEF Pending
    <2> QED
      BY <1>3, <1>a, <1>c, <2>1, Queried
  <1>4. ASSUME NEW t \in Threads, WriteProgress(t), NEW k \in Keys
        PROVE  /\ Room(k)' >= Room(k)
               /\ k = row[t] => Room(k)' >= Room(k) + 1
    <2>1. \A u \in Threads : u \in Pending(k)' => u \in Pending(k) /\ u # t
      <3>1. t \notin Pending(k)'
        BY <1>4, Wrote, Finished DEF Pending
      <3> QED
        BY <1>4, <1>c, <3>1, Wrote, Finished
    <2>2. ASSUME k = row[t] PROVE Room(k)' >= Room(k) + 1
      <3>1. t \in Pending(k)
        BY <1>4, <2>2, Wrote DEF Pending
      <3>2. Pending(k)' \subseteq Pending(k) \ {t}
        BY <2>1 DEF Pending
      <3>3. Came(k)' >= Came(k)
        BY GrowStep DEF Grow
      <3> QED
        BY <3>1, <3>2, <3>3, RoomMade
    <2> QED
      BY <1>a, <2>1, <2>2
  <1>5. ASSUME NEW k \in Keys, UNCHANGED local PROVE Room(k)' >= Room(k)
    BY <1>5, <1>a DEF Pending, local
  <1>6. ASSUME NEW k \in Keys, Restart PROVE Room(k)' >= Room(k)
    BY <1>6, <1>a DEF Restart, Pending
  <1> QED
    BY <1>1, <1>2, <1>3, <1>4, <1>5, <1>6 DEF Next, Handle, DeleteQuestion,
       DeleteUser, Login, Logout, vars

-----------------------------------------------------------------------------
(***************************************************************************)
(* What rows count, and when they are completed.                           *)
(***************************************************************************)
\* Reading a field that was given a disjunction.
LEMMA CompletedField ==
  ASSUME NEW r, NEW a, NEW b, NEW n,
         r = [isCompleted |-> a \/ b, attemptCount |-> n]
  PROVE  r.isCompleted <=> a \/ b
  BY Zenon

LEMMA CountedStep ==
  TypeOK /\ TypeOK' /\ JobsFit /\ Counted /\ [Next]_vars => Counted'
  <1> SUFFICES ASSUME TypeOK, TypeOK', JobsFit, Counted, [Next]_vars,
                      NEW k \in Keys
               PROVE  Roomy(k)' /\ Reports(k)'
    BY DEF Counted
  <1>0. /\ Roomy(k) /\ Reports(k)
        /\ Room(k) \in Int /\ Room(k)' \in Int
        /\ Room(k)' >= Room(k)
    <2>1. Cardinality(Pending(k)) \in Nat /\ Cardinality(Pending(k)') \in Nat
      <3>1. Pending(k)' \in SUBSET Threads
        BY DEF Pending
      <3> QED
        BY <3>1, PendingFinite, ThreadsAssumption, FS_Subset,
           FS_CardinalityType
    <2>2. Came(k) \in Nat /\ Came(k)' \in Nat
      BY Numbers, NumbersNext
    <2>3. Room(k) \in Int /\ Room(k)' \in Int
      BY <2>1, <2>2 DEF Room
    <2> QED
      BY <2>3, RoomStep DEF Counted
  <1>c. Claimed(k) => Claimed(k)'
    <2>1. /\ reported'[k] >= reported[k] /\ (k \in astray => k \in astray')
          /\ reported[k] \in Nat /\ reported'[k] \in Nat
      BY GrowStep DEF Grow, TypeOK
    <2> QED
      BY <2>1 DEF Claimed
  <1>1. ASSUME HasRow(k)'
        PROVE  /\ rows'[k].attemptCount < Room(k)'
               /\ rows'[k].isCompleted =>
                    Claimed(k)' /\ rows'[k].attemptCount > 0
    <2>1. CASE HasRow(k) /\ rows'[k] = rows[k]
      <3>1. rows[k].attemptCount \in Nat
        BY <2>1 DEF HasRow, TypeOK, Rows
      <3> QED
        BY <1>0, <1>c, <2>1, <3>1 DEF Roomy, Reports
    <2>2. ASSUME NEW t \in Threads, WriteProgress(t), row[t] = k,
                 up[t] # NoRow, rows'[k] = Written(job[t].op, up[t])
          PROVE  /\ rows'[k].attemptCount < Room(k)'
                 /\ rows'[k].isCompleted =>
                      Claimed(k)' /\ rows'[k].attemptCount > 0
      <3>0. rows'[k] = [isCompleted |->
                           up[t].isCompleted \/ job[t].op = "complete",
                        attemptCount |-> up[t].attemptCount + 1]
        BY <2>2 DEF Written
      <3>1. /\ up[t].attemptCount \in Nat
            /\ up[t].attemptCount < Room(k)
            /\ Room(k)' >= Room(k) + 1
            /\ rows'[k].attemptCount = up[t].attemptCount + 1
        <4>1. up[t].attemptCount \in Nat
          BY <2>2 DEF TypeOK, Rows
        <4>2. rows'[k].attemptCount = up[t].attemptCount + 1
          BY <3>0
        <4>3. up[t].attemptCount < Room(k)
          BY <1>0, <2>2 DEF WriteProgress, Roomy
        <4> QED
          BY <2>2, <4>1, <4>2, <4>3, RoomStep
      <3>2. rows'[k].isCompleted =>
              up[t].isCompleted \/ job[t].op = "complete"
        BY <3>0, CompletedField, Zenon
      <3>3. rows'[k].isCompleted => Claimed(k)
        BY <1>0, <2>2, <3>2 DEF Reports, WriteProgress
      <3> QED
        BY <1>0, <1>c, <3>1, <3>3
    <2>3. ASSUME NEW t \in Threads, WriteProgress(t), row[t] = k,
                 rows'[k] = NewRow
          PROVE  /\ rows'[k].attemptCount < Room(k)'
                 /\ ~rows'[k].isCompleted
      <3>1. Room(k)' >= Room(k) + 1 /\ Room(k) >= 0
        BY <1>0, <2>3, RoomStep DEF Roomy
      <3> QED
        BY <1>0, <2>3, <3>1 DEF NewRow
    <2> QED
      BY <1>1, <2>1, <2>2, <2>3, RowsStep
  <1>2. ASSUME NEW u \in Threads, pc'[u] = "write", row'[u] = k,
               up'[u] # NoRow
        PROVE  /\ up'[u].attemptCount < Room(k)'
               /\ up'[u].isCompleted => Claimed(k)'
    <2>1. CASE Stays(u)
      <3>1. /\ up[u].attemptCount \in Nat
            /\ up[u] # NoRow /\ pc[u] = "write" /\ row[u] = k /\ up'[u] = up[u]
        BY <1>2, <2>1 DEF Stays, TypeOK, Rows
      <3> QED
        BY <1>0, <1>c, <3>1 DEF Roomy, Reports
    <2>2. CASE QueryProgress(u)
      <3>1. up'[u] = rows[k] /\ HasRow(k) /\ rows[k].attemptCount \in Nat
        BY <1>2, <2>2, Queried DEF HasRow, TypeOK, Rows
      <3> QED
        BY <1>0, <1>c, <3>1 DEF Roomy, Reports
    <2>3. ASSUME NEW op \in Ops, NEW l \in Keys, Receive(u, op, l)
          PROVE  pc'[u] = "user"
      BY <2>3 DEF Receive, Goto, TypeOK
    <2> QED
      BY <1>2, <2>1, <2>2, <2>3, OwnStep
  <1>3. Roomy(k)'
    BY <1>0, <1>1, <1>2 DEF Roomy
  <1>4. ASSUME NEW u \in Threads, pc'[u] = "user",
               job'[u] = [op |-> "complete", key |-> k]
        PROVE  Claimed(k)'
    <2>1. CASE Stays(u)
      BY <1>0, <1>c, <1>4, <2>1 DEF Reports, Stays
    <2>2. ASSUME NEW op \in Ops, NEW l \in Keys, Receive(u, op, l)
          PROVE  Claimed(k)'
      <3>1. op = "complete" /\ l = k
        BY <1>4, <2>2 DEF Receive, TypeOK
      <3>2. reported'[k] = reported[k] + 1 /\ reported[k] \in Nat
        BY <2>2, <3>1 DEF Receive, Count, TypeOK
      <3> QED
        BY <3>2 DEF Claimed
    <2>3. CASE QueryProgress(u)
      BY <1>4, <2>3, Queried
    <2> QED
      BY <1>4, <2>1, <2>2, <2>3, OwnStep
  <1>5. ASSUME NEW u \in Threads, pc'[u] \in {"query", "write"},
               row'[u] = k, job'[u].op = "complete"
        PROVE  Claimed(k)'
    <2>1. CASE Stays(u)
      BY <1>0, <1>c, <1>5, <2>1 DEF Reports, Stays
    <2>2. ASSUME NEW op \in Ops, NEW l \in Keys, Receive(u, op, l)
          PROVE  pc'[u] = "user"
      BY <2>2 DEF Receive, Goto, TypeOK
    <2>3. CASE QueryProgress(u)
      <3>1. pc[u] = "query" /\ row[u] = k /\ job[u].op = "complete"
        BY <1>5, <2>3, Queried
      <3> QED
        BY <1>0, <1>c, <3>1 DEF Reports
    <2>4. CASE GetUserInfo(u) /\ pc'[u] = "query" /\ UNCHANGED <<job, up>>
      <3>0. /\ pc[u] = "user" /\ job[u] \in Jobs /\ job[u].op = "complete"
            /\ UNCHANGED counted
        BY <1>5, <2>4, UserRead
      <3>1. CASE row' = [row EXCEPT ![u] = job[u].key]
        <4>1. job[u].key = k
          BY <1>5, <3>1 DEF TypeOK
        <4>2. job[u] = [op |-> "complete", key |-> k]
          BY <3>0, <4>1 DEF Jobs
        <4> QED
          BY <1>0, <1>c, <3>0, <4>2 DEF Reports
      <3>2. ASSUME NEW l \in Keys, Stray(u, l) PROVE Claimed(k)'
        <4>1. l = k
          BY <1>5, <3>2 DEF Stray, TypeOK
        <4>2. k \in astray'
          BY <3>0, <3>2, <4>1 DEF Stray
        <4> QED
          BY <4>2 DEF Claimed
      <3>3. ~Finish(u)
        BY <2>4, Finished
      <3> QED
        BY <2>4, <3>1, <3>2, <3>3, UserRead
    <2> QED
      BY <1>5, <2>1, <2>2, <2>3, <2>4, OwnStep
  <1>6. Reports(k)'
    BY <1>0, <1>1, <1>2, <1>4, <1>5 DEF Reports
  <1> QED
    BY <1>3, <1>6

-----------------------------------------------------------------------------
(***************************************************************************)
(* Until handlers meet at a row, one alone works on it.                    *)
(***************************************************************************)
\* A thread that comes to work on a row nobody met at finds it free.
LEMMA WorksStep ==
  ASSUME TypeOK, JobsFit, [Next]_vars, NEW k \in Keys, k \notin overlapped',
         NEW t \in Threads, WorksOn(t, k)'
  PROVE  \/ WorksOn(t, k)
         \/ \A u \in Threads \ {t} : ~WorksOn(u, k) /\ ~WorksOn(u, k)'
  <1>1. CASE Stays(t)
    BY <1>1 DEF Stays, WorksOn
  <1>2. CASE job'[t] = NoJob
    BY <1>2 DEF WorksOn
  <1>3. ASSUME NEW op \in Ops, NEW l \in Keys, Receive(t, op, l)
        PROVE  \A u \in Threads \ {t} : ~WorksOn(u, k) /\ ~WorksOn(u, k)'
    <2>1. k = l
      <3>1. row'[t] = NoRow
        BY <1>3, Received
      <3>2. job'[t].key = l
        BY <1>3 DEF Receive, TypeOK
      <3> QED
        BY <3>1, <3>2, NoneAssumption DEF WorksOn
    <2>2. ~Busy(k)
      BY <1>3, <2>1, ReceivedMarks
    <2>3. \A u \in Threads \ {t} : Stays(u)
      BY <1>3, Received
    <2> QED
      BY <2>2, <2>3 DEF Busy, Stays, WorksOn
  <1>4. CASE GetUserInfo(t) /\ pc'[t] = "query" /\ UNCHANGED <<job, up>>
    <2>0. /\ ~Finish(t) /\ UNCHANGED counted
          /\ \A u \in Threads \ {t} : Stays(u)
          /\ job'[t] = job[t] /\ job[t] # NoJob
      BY <1>4, UserRead, Finished
    <2>1. CASE k = job[t].key
      BY <2>0, <2>1 DEF WorksOn
    <2>2. CASE k # job[t].key
      <3>0. row'[t] = k
        BY <2>0, <2>2 DEF WorksOn
      <3>1. PICK l \in Keys : Stray(t, l)
        <4>1. ~(row' = [row EXCEPT ![t] = job[t].key])
          BY <2>2, <3>0 DEF TypeOK
        <4> QED
          BY <1>4, <2>0, <4>1, UserRead
      <3>2. l = k
        BY <3>0, <3>1 DEF Stray, TypeOK
      <3>3. \A u \in Threads \ {t} : ~WorksOn(u, k)
        BY <2>0, <3>1, <3>2, Strayed
      <3>4. \A u \in Threads \ {t} : WorksOn(u, k)' => WorksOn(u, k)
        BY <2>0 DEF WorksOn, Stays
      <3> QED
        BY <3>3, <3>4
    <2> QED
      BY <2>1, <2>2
  <1>5. CASE QueryProgress(t)
    BY <1>5, Queried DEF WorksOn
  <1> QED
    BY <1>1, <1>2, <1>3, <1>4, <1>5, OwnStep

LEMMA AloneStep ==
  ASSUME TypeOK, JobsFit, [Next]_vars, NEW k \in Keys, Alone(k)
  PROVE  Alone(k)'
  <1> SUFFICES ASSUME k \notin overlapped'
               PROVE  /\ \A t, u \in Threads :
                           WorksOn(t, k)' /\ WorksOn(u, k)' => t = u
                      /\ \A t \in Threads :
                           pc'[t] = "write" /\ row'[t] = k /\ up'[t] # NoRow
                             /\ HasRow(k)' => up'[t] = rows'[k]
    BY DEF Alone
  <1>0. k \notin overlapped
    BY GrowStep DEF Grow
  <1>1. ASSUME NEW t \in Threads, NEW u \in Threads,
               WorksOn(t, k)', WorksOn(u, k)', t # u
        PROVE  FALSE
    <2>1. WorksOn(t, k) /\ WorksOn(u, k)
      BY <1>1, WorksStep
    <2> QED
      BY <1>0, <1>1, <2>1 DEF Alone
  <1>2. ASSUME NEW t \in Threads, pc'[t] = "write", row'[t] = k,
               up'[t] # NoRow, HasRow(k)'
        PROVE  up'[t] = rows'[k]
    <2>1. CASE Stays(t)
      <3>1. /\ pc[t] = "write" /\ row[t] = k /\ up[t] # NoRow
            /\ up'[t] = up[t] /\ WorksOn(t, k)
        BY <1>2, <2>1 DEF Stays, JobsFit, WorksOn
      <3>2. CASE HasRow(k) /\ rows'[k] = rows[k]
        BY <1>0, <3>1, <3>2 DEF Alone
      <3>3. ASSUME NEW v \in Threads, WriteProgress(v), row[v] = k
            PROVE  FALSE
        <4>1. WorksOn(v, k) /\ pc'[v] = "idle"
          BY <3>3, Wrote, Finished DEF WorksOn
        <4>2. v = t
          BY <1>0, <3>1, <4>1 DEF Alone
        <4> QED
          BY <1>2, <4>1, <4>2
      <3> QED
        BY <1>2, <3>2, <3>3, RowsStep
    <2>2. CASE QueryProgress(t)
      <3>1. row[t] = k /\ up'[t] = rows[row[t]] /\ rows' = rows
        BY <1>2, <2>2, Queried DEF tables
      <3> QED
        BY <3>1
    <2>3. ASSUME NEW op \in Ops, NEW l \in Keys, Receive(t, op, l)
          PROVE  pc'[t] = "user"
      BY <2>3 DEF Receive, Goto, TypeOK
    <2> QED
      BY <1>2, <2>1, <2>2, <2>3, OwnStep
  <1> QED
    BY <1>1, <1>2

-----------------------------------------------------------------------------
(***************************************************************************)
(* What is exact while nothing disturbs a key and no handlers meet at it.  *)
(***************************************************************************)
\* Key k stays in order when the threads that work on it stand still.
LEMMA Elsewhere ==
  ASSUME NEW k \in Keys, Orderly(k),
         k \notin disturbed \cup overlapped,
         \A u \in Threads : \/ Stays(u)
                            \/ ~WorksOn(u, k) /\ ~WorksOn(u, k)',
         judged'[k] = judged[k], reported'[k] = reported[k],
         k \in late' <=> k \in late,
         Exists(k)' => Exists(k) /\ rows'[k] = rows[k]
  PROVE  Orderly(k)'
  <1>1. \A u \in Threads : WorksOn(u, k)' <=> WorksOn(u, k)
    BY DEF WorksOn, Stays
  <1>2. Sent(k)' = Sent(k)
    BY DEF Sent
  <1>3. ASSUME NEW u \in Threads, WorksOn(u, k)' PROVE InOrder(u, k)'
    <2>1. WorksOn(u, k) /\ Stays(u)
      BY <1>1, <1>3
    <2>2. InOrder(u, k)
      BY <2>1 DEF Orderly
    <2> QED
      BY <1>2, <2>1, <2>2 DEF InOrder, Stays, Shows, HasRow
  <1>4. Busy(k)' <=> Busy(k)
    BY <1>1 DEF Busy
  <1>5. ASSUME ~Busy(k)', Exists(k)'
        PROVE  /\ Shows(k, Sent(k))'
               /\ HasRow(k)' => (rows'[k].isCompleted <=> k \in late')
    <2>1. /\ Shows(k, Sent(k))
          /\ HasRow(k) => (rows[k].isCompleted <=> k \in late)
      BY <1>4, <1>5 DEF Orderly
    <2> QED
      BY <1>2, <1>5, <2>1 DEF Shows, HasRow
  <1>6. k \in late' => Sent(k)' > 1
    BY <1>2 DEF Orderly
  <1> QED
    BY <1>3, <1>5, <1>6 DEF Orderly

\* The step of the one thread at its key: the others stay off it.
LEMMA AloneStays ==
  ASSUME NEW k \in Keys, NEW t \in Threads,
         \A u \in Threads \ {t} : Stays(u) /\ ~WorksOn(u, k),
         k \in late' => Sent(k)' > 1,
         WorksOn(t, k)', InOrder(t, k)'
  PROVE  Orderly(k)'
  <1>1. \A u \in Threads \ {t} : ~WorksOn(u, k)'
    BY DEF WorksOn, Stays
  <1>2. Busy(k)'
    BY DEF Busy
  <1> QED
    BY <1>1, <1>2 DEF Orderly

LEMMA OrderlyReceive ==
  ASSUME TypeOK, JobsFit, NEW k \in Keys, Orderly(k),
         k \notin disturbed \cup overlapped, k \notin overlapped',
         NEW t \in Threads, NEW op \in Ops, NEW l \in Keys, Receive(t, op, l)
  PROVE  Orderly(k)'
  <1>1. /\ job[t] = NoJob /\ row[t] = NoRow /\ pc'[t] = "user"
        /\ row'[t] = NoRow /\ job'[t] # NoJob
        /\ \A u \in Threads \ {t} : Stays(u)
        /\ UNCHANGED <<users, questions, rows>>
    BY Received
  <1>2. job'[t].op = op /\ job'[t].key = l
    BY DEF Receive, TypeOK
  <1>3. CASE k # l
    <2>1. judged'[k] = judged[k] /\ reported'[k] = reported[k]
      BY <1>3 DEF Receive, Count, TypeOK
    <2>2. ~WorksOn(t, k) /\ ~WorksOn(t, k)'
      BY <1>1, <1>2, <1>3, NoneAssumption DEF WorksOn
    <2>3. k \in late' <=> k \in late
      BY <1>3, ReceivedMarks
    <2> QED
      BY <1>1, <2>1, <2>2, <2>3, Elsewhere DEF Exists
  <1>4. CASE k = l
    <2>1. ~Busy(k)
      BY <1>4, ReceivedMarks
    <2>2. /\ \A u \in Threads \ {t} : Stays(u) /\ ~WorksOn(u, k)
          /\ WorksOn(t, k)'
      BY <1>1, <1>2, <1>4, <2>1 DEF Busy, WorksOn
    <2>3. /\ Sent(k)' = Sent(k) + 1 /\ Sent(k) \in Nat
          /\ Sent(k)' - 1 = Sent(k)
      BY <1>4, Numbers, ReceivedCounts
    <2>4. k \in late => Sent(k) > 1
      BY DEF Orderly
    <2>5. /\ op = "complete" => (k \in late' <=> Sent(k)' > 1)
          /\ op # "complete" => (k \in late' <=> k \in late)
          /\ k \in late' => Sent(k)' > 1
      <3>1. k \in late' <=>
              k \in late \/ (op = "complete" /\ Sent(k) > 0)
        BY <1>4, ReceivedMarks
      <3> QED
        BY <2>3, <2>4, <3>1
    <2>6. ASSUME Exists(k)'
          PROVE  /\ Shows(k, Sent(k) - 1)'
                 /\ op = "judge" /\ HasRow(k)' =>
                      (rows'[k].isCompleted <=> k \in late')
      <3>1. Exists(k)
        BY <1>1, <2>6 DEF Exists
      <3>2. /\ Shows(k, Sent(k))
            /\ HasRow(k) => (rows[k].isCompleted <=> k \in late)
        BY <2>1, <3>1 DEF Orderly
      <3>3. Shows(k, Sent(k) - 1)'
        BY <1>1, <2>3, <3>2 DEF Shows, HasRow
      <3> QED
        BY <1>1, <2>5, <3>2, <3>3 DEF HasRow
    <2>7. InOrder(t, k)'
      BY <1>1, <1>2, <1>4, <2>3, <2>5, <2>6 DEF InOrder
    <2> QED
      BY <2>2, <2>5, <2>7, AloneStays
  <1> QED
    BY <1>3, <1>4

\* A thread that works on an undisturbed key is alone with it, on its row.
LEMMA OnItsRow ==
  ASSUME TypeOK, JobsFit, NEW k \in Keys, Orderly(k), Alone(k),
         k \notin disturbed \cup overlapped,
         NEW t \in Threads, job[t] # NoJob, k \in {job[t].key, row[t]}
  PROVE  /\ k = job[t].key /\ WorksOn(t, k) /\ InOrder(t, k)
         /\ pc[t] # "user" => k = row[t]
         /\ \A u \in Threads \ {t} : ~WorksOn(u, k)
  <1>1. WorksOn(t, k)
    BY DEF WorksOn
  <1>2. InOrder(t, k)
    BY <1>1 DEF Orderly
  <1>3. \A u \in Threads \ {t} : ~WorksOn(u, k)
    BY <1>1 DEF Alone
  <1> QED
    BY <1>1, <1>2, <1>3 DEF InOrder

\* Reading the user: whatever id is used instead, its key is disturbed.
LEMMA OrderlyUser ==
  ASSUME TypeOK, JobsFit, NEW k \in Keys, Orderly(k), Alone(k),
         k \notin disturbed \cup overlapped, k \notin disturbed',
         NEW t \in Threads, GetUserInfo(t)
  PROVE  Orderly(k)'
  <1>0. /\ pc[t] = "user" /\ row[t] = NoRow /\ job[t] # NoJob
        /\ UNCHANGED <<users, questions, rows, judged, reported, late>>
        /\ \A u \in Threads \ {t} : Stays(u)
    BY UserRead DEF tables, counted
  <1>a. ASSUME k # job[t].key, ~WorksOn(t, k)' PROVE Orderly(k)'
    <2>1. ~WorksOn(t, k)
      BY <1>0, <1>a, NoneAssumption DEF WorksOn
    <2> QED
      BY <1>0, <1>a, <2>1, Elsewhere DEF Exists
  <1>1. CASE Finish(t) /\ Disturb(job[t].key)
    <2>1. k # job[t].key
      BY <1>1 DEF Disturb
    <2>2. ~WorksOn(t, k)'
      BY <1>1, Finished DEF WorksOn
    <2> QED
      BY <1>a, <2>1, <2>2
  <1>2. CASE /\ pc'[t] = "query" /\ UNCHANGED <<job, up>>
             /\ row' = [row EXCEPT ![t] = job[t].key]
    <2>0. row'[t] = job[t].key /\ job'[t] = job[t]
      BY <1>2 DEF TypeOK
    <2>1. CASE k = job[t].key
      <3>1. /\ InOrder(t, k)
            /\ \A u \in Threads \ {t} : ~WorksOn(u, k)
        BY <1>0, <2>1, OnItsRow
      <3>2. Sent(k)' = Sent(k)
        BY <1>0 DEF Sent
      <3>3. WorksOn(t, k)'
        BY <1>0, <2>0, <2>1 DEF WorksOn
      <3>4. InOrder(t, k)'
        BY <1>0, <1>2, <2>0, <2>1, <3>1, <3>2 DEF InOrder, Shows, HasRow,
           Exists
      <3>5. k \in late' => Sent(k)' > 1
        BY <1>0, <3>2 DEF Orderly
      <3> QED
        BY <1>0, <3>1, <3>3, <3>4, <3>5, AloneStays
    <2>2. CASE k # job[t].key
      BY <1>a, <2>0, <2>2 DEF WorksOn
    <2> QED
      BY <2>1, <2>2
  <1>3. ASSUME NEW l \in Keys, Stray(t, l), UNCHANGED job
        PROVE  Orderly(k)'
    <2>1. row'[t] = l /\ k # l /\ k # job[t].key
      BY <1>3 DEF Stray, TypeOK
    <2>2. ~WorksOn(t, k)'
      BY <1>3, <2>1 DEF WorksOn
    <2> QED
      BY <1>a, <2>1, <2>2
  <1> QED
    BY <1>1, <1>2, <1>3, UserRead

LEMMA OrderlyQuery ==
  ASSUME TypeOK, JobsFit, NEW k \in Keys, Orderly(k), Alone(k),
         k \notin disturbed \cup overlapped, k \notin disturbed',
         NEW t \in Threads, QueryProgress(t)
  PROVE  Orderly(k)'
  <1>0. /\ pc[t] = "query" /\ pc'[t] = "write" /\ job[t] # NoJob
        /\ UNCHANGED <<users, questions, rows, job, row, judged, reported,
                       late>>
        /\ \A u \in Threads \ {t} : Stays(u)
        /\ up'[t] = rows[row[t]] \/ row[t] \in disturbed'
    BY Queried DEF tables, counted, Disturb
  <1>1. CASE k \in {job[t].key, row[t]}
    <2>1. /\ k = job[t].key /\ k = row[t] /\ WorksOn(t, k)
          /\ InOrder(t, k)
          /\ \A u \in Threads \ {t} : ~WorksOn(u, k)
      BY <1>0, <1>1, OnItsRow
    <2>2. Sent(k)' = Sent(k)
      BY <1>0 DEF Sent
    <2>3. WorksOn(t, k)'
      BY <1>0, <2>1 DEF WorksOn
    <2>4. InOrder(t, k)'
      BY <1>0, <2>1, <2>2 DEF InOrder, Shows, HasRow, Exists
    <2>5. k \in late' => Sent(k)' > 1
      BY <1>0, <2>2 DEF Orderly
    <2> QED
      BY <1>0, <2>1, <2>3, <2>4, <2>5, AloneStays
  <1>2. CASE k \notin {job[t].key, row[t]}
    <2>1. ~WorksOn(t, k) /\ ~WorksOn(t, k)'
      BY <1>0, <1>2 DEF WorksOn
    <2> QED
      BY <1>0, <2>1, Elsewhere DEF Exists
  <1> QED
    BY <1>1, <1>2

\* Writing brings the row up to the request.
LEMMA OrderlyWrite ==
  ASSUME TypeOK, JobsFit, NEW k \in Keys, Orderly(k), Alone(k),
         k \notin disturbed \cup overlapped, k \notin disturbed',
         NEW t \in Threads, WriteProgress(t)
  PROVE  Orderly(k)'
  <1>0. /\ pc[t] = "write" /\ job[t] # NoJob /\ row[t] \in Keys
        /\ job[t] \in Jobs /\ job'[t] = NoJob
        /\ UNCHANGED <<users, questions, judged, reported, late>>
        /\ \A u \in Threads \ {t} : Stays(u)
        /\ \A l \in Keys \ {row[t]} : rows'[l] = rows[l]
    BY Wrote, Finished DEF counted
  <1>1. CASE k \in {job[t].key, row[t]}
    <2>1. /\ k = row[t] /\ InOrder(t, k)
          /\ \A u \in Threads \ {t} : ~WorksOn(u, k)
      BY <1>0, <1>1, OnItsRow
    <2>2. \A u \in Threads : ~WorksOn(u, k)'
      BY <1>0, <2>1 DEF WorksOn, Stays
    <2>3. /\ Sent(k)' = Sent(k) /\ Sent(k) \in Nat /\ Sent(k) > 0
          /\ k \in late => Sent(k) > 1
      BY <1>0, <2>1, Numbers DEF Sent, InOrder, Orderly
    <2>4. ASSUME Exists(k)'
          PROVE  /\ HasRow(k)' /\ rows'[k].attemptCount = Sent(k) - 1
                 /\ rows'[k].isCompleted <=> k \in late
      <3>1. /\ Exists(k) /\ Shows(k, Sent(k) - 1)
            /\ job[t].op = "judge" /\ HasRow(k) =>
                 (rows[k].isCompleted <=> k \in late)
            /\ job[t].op = "complete" => (k \in late <=> Sent(k) > 1)
            /\ up[t] = rows[k]
        BY <1>0, <2>1, <2>4 DEF Exists, InOrder
      <3>2. CASE Sent(k) = 1
        <4>1. rows[k] = NoRow /\ up[t] = NoRow
          BY <3>1, <3>2 DEF Shows
        <4>2. rows'[k] = NewRow
          <5>1. ~Disturb(row[t])
            BY <2>1 DEF Disturb
          <5>2. AddUserProgress(k, NewRow)
            BY <2>1, <4>1, <5>1 DEF WriteProgress
          <5> QED
            BY <3>1, <4>1, <5>2 DEF AddUserProgress, Exists, TypeOK
        <4>3. NewRow \in Rows /\ ~NewRow.isCompleted /\ NewRow.attemptCount = 0
          BY DEF NewRow, Rows
        <4>4. HasRow(k)'
          BY <4>2, <4>3, NoneAssumption DEF HasRow
        <4>5. k \notin late
          BY <2>3, <3>2
        <4> QED
          BY <3>2, <4>2, <4>3, <4>4, <4>5
      <3>3. CASE Sent(k) # 1
        <4>1. /\ HasRow(k) /\ rows[k].attemptCount = Sent(k) - 2
              /\ up[t] # NoRow
          BY <2>3, <3>1, <3>3 DEF Shows, HasRow
        <4>2. rows'[k] = Written(job[t].op, rows[k])
          <5>1. ~Disturb(row[t])
            BY <2>1 DEF Disturb
          <5>2. UpdateUserProgress(k, Written(job[t].op, up[t]))
            BY <2>1, <4>1, <5>1 DEF WriteProgress
          <5> QED
            BY <3>1, <4>1, <5>2 DEF UpdateUserProgress, HasRow, TypeOK
        <4>3. rows'[k] = [isCompleted |-> rows[k].isCompleted
                                            \/ job[t].op = "complete",
                          attemptCount |-> rows[k].attemptCount + 1]
          BY <4>2 DEF Written
        <4>4. /\ rows'[k].attemptCount = Sent(k) - 1
              /\ HasRow(k)'
          <5>1. up[t] # NoRow /\ rows[k].attemptCount + 1 = Sent(k) - 1
            BY <2>3, <4>1
          <5>2. rows'[k].attemptCount = rows[k].attemptCount + 1
            BY <4>3
          <5>3. rows'[k] \in Rows
            <6>1. (rows[k].isCompleted \/ job[t].op = "complete") \in BOOLEAN
              OBVIOUS
            <6>2. rows[k].attemptCount + 1 \in Nat
              BY <2>3, <3>3, <4>1
            <6>3. [isCompleted |-> rows[k].isCompleted
                                     \/ job[t].op = "complete",
                   attemptCount |-> rows[k].attemptCount + 1] \in Rows
              BY <6>1, <6>2, Zenon DEF Rows
            <6> QED
              BY <4>3, <6>3, Zenon
          <5> QED
            BY <5>1, <5>2, <5>3, NoneAssumption DEF HasRow
        <4>5. rows'[k].isCompleted <=>
                rows[k].isCompleted \/ job[t].op = "complete"
          BY <4>3, CompletedField, Zenon
        <4>6. CASE job[t].op = "judge"
          <5>1. rows[k].isCompleted <=> k \in late
            BY <3>1, <4>1, <4>6
          <5> QED
            BY <4>4, <4>5, <4>6, <5>1
        <4>7. CASE job[t].op = "complete"
          <5>1. k \in late
            BY <2>3, <3>1, <3>3, <4>7
          <5> QED
            BY <4>4, <4>5, <4>7, <5>1
        <4> QED
          BY <1>0, <4>6, <4>7 DEF Jobs, Ops
      <3> QED
        BY <3>2, <3>3
    <2>5. Exists(k)' =>
            /\ Shows(k, Sent(k))'
            /\ HasRow(k)' => (rows'[k].isCompleted <=> k \in late')
      BY <1>0, <2>3, <2>4 DEF Shows
    <2>6. k \in late' => Sent(k)' > 1
      BY <1>0, <2>3
    <2> QED
      BY <2>2, <2>5, <2>6 DEF Orderly
  <1>2. CASE k \notin {job[t].key, row[t]}
    <2>1. ~WorksOn(t, k) /\ ~WorksOn(t, k)'
      BY <1>0, <1>2 DEF WorksOn
    <2> QED
      BY <1>0, <1>2, <2>1, Elsewhere DEF Exists
  <1> QED
    BY <1>1, <1>2

LEMMA OrderlyStep ==
  ASSUME TypeOK, JobsFit, [Next]_vars, NEW k \in Keys, Orderly(k), Alone(k)
  PROVE  Orderly(k)'
  <1> SUFFICES ASSUME k \notin disturbed' \cup overlapped' PROVE Orderly(k)'
    BY DEF Orderly
  <1>0. k \notin disturbed \cup overlapped
    BY GrowStep DEF Grow
  <1>a. ASSUME UNCHANGED <<local, counted>>,
               Exists(k)' => Exists(k) /\ rows'[k] = rows[k]
        PROVE  Orderly(k)'
    <2>1. \A u \in Threads : Stays(u)
      BY <1>a DEF local, Stays
    <2> QED
      BY <1>0, <1>a, <2>1, Elsewhere DEF counted
  <1>1. ASSUME NEW t \in Threads, NEW op \in Ops, NEW l \in Keys,
               Receive(t, op, l)
        PROVE  Orderly(k)'
    BY <1>0, <1>1, OrderlyReceive
  <1>2. ASSUME NEW t \in Threads, Handle(t) PROVE Orderly(k)'
    BY <1>0, <1>2, OrderlyUser, OrderlyQuery, OrderlyWrite DEF Handle
  <1>3. ASSUME NEW q \in Questions, DeleteQuestion(q) PROVE Orderly(k)'
    BY <1>a, <1>3 DEF DeleteQuestion, Exists, history
  <1>4. ASSUME NEW u \in Users, DeleteUser(u) PROVE Orderly(k)'
    BY <1>a, <1>4 DEF DeleteUser, Exists, history
  <1>5. ASSUME NEW u \in Users, Login(u) \/ Logout(u) PROVE Orderly(k)'
    BY <1>a, <1>5 DEF Login, Logout, Exists, tables, history
  <1>6. CASE Restart
    <2>1. ~Busy(k)
      BY <1>6 DEF Restart
    <2>2. \A t \in Threads : ~WorksOn(t, k) /\ ~WorksOn(t, k)'
      BY <1>6, <2>1 DEF Restart, Busy, WorksOn
    <2> QED
      BY <1>0, <1>6, <2>2, Elsewhere DEF Restart, Exists, tables, counted
  <1>7. CASE UNCHANGED vars
    BY <1>a, <1>7 DEF vars, tables, history, Exists
  <1> QED
    BY <1>1, <1>2, <1>3, <1>4, <1>5, <1>6, <1>7 DEF Next

-----------------------------------------------------------------------------
(***************************************************************************)
(* The theorems.                                                           *)
(***************************************************************************)
LEMMA CountedInit == Init => Counted
  <1> SUFFICES ASSUME Init, NEW k \in Keys PROVE Roomy(k) /\ Reports(k)
    BY DEF Counted
  <1>1. Pending(k) = {}
    BY DEF Init, Pending
  <1>2. Room(k) = 0
    BY <1>1, FS_EmptySet DEF Room, Came, Sent, Init
  <1> QED
    BY <1>2 DEF Init, Roomy, Reports, HasRow

LEMMA OrderlyInit ==
  ASSUME Init, NEW k \in Keys
  PROVE  Alone(k) /\ Orderly(k)
  <1>1. \A t \in Threads : ~WorksOn(t, k) /\ pc[t] = "idle"
    BY DEF Init, WorksOn
  <1>2. Sent(k) = 0 /\ rows[k] = NoRow /\ k \notin late
    BY DEF Init, Sent
  <1> QED
    BY <1>1, <1>2 DEF Alone, Orderly, Shows, HasRow

\* IInv holds in every state of every behaviour.
THEOREM ProgressInvariant == Spec => []IInv
  <1>1. Init => IInv
    BY InitTypes, CountedInit, OrderlyInit DEF IInv
  <1>2. IInv /\ [Next]_vars => IInv'
    <2> SUFFICES ASSUME IInv, [Next]_vars PROVE IInv'
      OBVIOUS
    <2>1. TypeOK' /\ JobsFit'
      BY TypeStep, JobsStep DEF IInv
    <2>2. Counted'
      BY <2>1, CountedStep DEF IInv
    <2>3. \A k \in Keys : Alone(k)' /\ Orderly(k)'
      BY AloneStep, OrderlyStep DEF IInv
    <2> QED
      BY <2>1, <2>2, <2>3 DEF IInv
  <1> QED
    BY <1>1, <1>2, PTL DEF Spec

\* Every variable keeps its type.
THEOREM TypeCorrect == Spec => []TypeOK
  <1>1. IInv => TypeOK
    BY DEF IInv
  <1> QED
    BY <1>1, ProgressInvariant, PTL

\* However many handlers read a row before any of them writes it, and whatever
\* fails, it never shows more attempts than requests came to it, those with an
\* unset id included (UpdateUserProgress).
THEOREM AttemptsCorrect == Spec => []AttemptsBacked
  <1>1. IInv => AttemptsBacked
    <2> SUFFICES ASSUME IInv, NEW k \in Keys, HasRow(k)
                 PROVE  rows[k].attemptCount < Came(k)
      BY DEF AttemptsBacked
    <2>1. rows[k].attemptCount \in Nat /\ Came(k) \in Nat
      BY Numbers DEF IInv, TypeOK, HasRow, Rows
    <2>2. rows[k].attemptCount < Room(k)
      BY DEF IInv, Counted, Roomy
    <2>3. Cardinality(Pending(k)) \in Nat
      BY PendingFinite
    <2> QED
      BY <2>1, <2>2, <2>3 DEF Room
  <1> QED
    BY <1>1, ProgressInvariant, PTL

\* A row is completed only after a report that was sent for it or came to it
\* with an unset id, on a row an earlier request made (setCompleted).
THEOREM CompletedCorrect == Spec => []CompletedWasReported
  <1>1. IInv => CompletedWasReported
    BY DEF IInv, Counted, Reports, Claimed, CompletedWasReported
  <1> QED
    BY <1>1, ProgressInvariant, PTL

\* A row whose requests came one after the other without a failed statement is
\* exact, whatever other threads do to other rows.
THEOREM ExactCorrect == Spec => []UndisturbedExact
  <1>1. IInv => UndisturbedExact
    <2> SUFFICES ASSUME IInv, NEW k \in Keys, ~Busy(k), Exists(k),
                        k \notin disturbed \cup overlapped
                 PROVE  IF Sent(k) = 0
                          THEN ~HasRow(k)
                          ELSE rows[k] = [isCompleted  |-> k \in late,
                                          attemptCount |-> Sent(k) - 1]
      BY DEF UndisturbedExact
    <2>1. /\ Shows(k, Sent(k))
          /\ HasRow(k) => (rows[k].isCompleted <=> k \in late)
      BY DEF IInv, Orderly
    <2>2. CASE Sent(k) = 0
      BY <2>1, <2>2 DEF Shows, HasRow
    <2>3. CASE Sent(k) # 0
      <3>1. /\ HasRow(k) /\ rows[k].attemptCount = Sent(k) - 1
            /\ rows[k].isCompleted <=> k \in late
        BY <2>1, <2>3 DEF Shows
      <3>2. rows[k] \in Rows
        BY <3>1 DEF IInv, TypeOK, HasRow
      <3>3. rows[k].isCompleted = (k \in late)
        <4>1. rows[k].isCompleted \in BOOLEAN
          BY <3>2 DEF Rows
        <4> QED
          BY <3>1, <4>1
      <3>4. rows[k] = [isCompleted  |-> rows[k].isCompleted,
                       attemptCount |-> rows[k].attemptCount]
        BY <3>2 DEF Rows
      <3> QED
        BY <2>3, <3>1, <3>3, <3>4
    <2> QED
      BY <2>2, <2>3
  <1> QED
    BY <1>1, ProgressInvariant, PTL

\* Until two handlers are at a row at once, what it shows only grows, whatever
\* fails, goes stale or restarts (AddOrUpdateUserProgress).
THEOREM GrowsCorrect == Spec => ProgressGrows
  <1>1. ASSUME IInv, [Next]_vars, NEW k \in Keys,
               k \notin overlapped, HasRow(k), HasRow(k)'
        PROVE  /\ rows'[k].attemptCount >= rows[k].attemptCount
               /\ rows[k].isCompleted => rows'[k].isCompleted
    <2>0. /\ TypeOK /\ JobsFit /\ Alone(k)
          /\ rows[k] \in Rows /\ rows[k].attemptCount \in Nat
      BY <1>1 DEF IInv, TypeOK, HasRow, Rows
    <2>1. CASE rows'[k] = rows[k]
      BY <2>0, <2>1
    <2>2. ASSUME NEW t \in Threads, WriteProgress(t), row[t] = k,
                 up[t] # NoRow, rows'[k] = Written(job[t].op, up[t])
          PROVE  /\ rows'[k].attemptCount >= rows[k].attemptCount
                 /\ rows[k].isCompleted => rows'[k].isCompleted
      <3>1. up[t] = rows[k]
        BY <1>1, <2>0, <2>2 DEF Alone, WriteProgress
      <3>2. rows'[k] = [isCompleted |-> rows[k].isCompleted
                                          \/ job[t].op = "complete",
                        attemptCount |-> rows[k].attemptCount + 1]
        BY <2>2, <3>1 DEF Written
      <3>3. rows'[k].attemptCount = rows[k].attemptCount + 1
        BY <3>2
      <3>4. rows[k].isCompleted => rows'[k].isCompleted
        BY <3>2, CompletedField, Zenon
      <3> QED
        BY <2>0, <3>3, <3>4
    <2> QED
      BY <1>1, <2>0, <2>1, <2>2, RowsStep DEF HasRow
  <1>2. IInv /\ [Next]_vars =>
          [\A k \in Keys : k \notin overlapped /\ HasRow(k) /\ HasRow(k)' =>
             /\ rows'[k].attemptCount >= rows[k].attemptCount
             /\ rows[k].isCompleted => rows'[k].isCompleted]_vars
    BY <1>1
  <1> QED
    BY <1>2, ProgressInvariant, PTL DEF Spec, ProgressGrows

=============================================================================
