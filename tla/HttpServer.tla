------------------------------ MODULE HttpServer ------------------------------
(***************************************************************************)
(* The HTTP server both programs stand on (cpp-httplib): the thread in     *)
(* listen() that accepts connections and queues them, the pool of worker   *)
(* threads with its mutex and condition variable, the keep-alive loop of a *)
(* connection, and the end of the server when accept() fails.              *)
(*                                                                         *)
(* A worker serves one connection at a time, up to MaxKeep requests of it, *)
(* and waits in between: until a request comes, the client closes or the   *)
(* keep-alive timeout passes.  A handler is one step that ends (JudgeDis-  *)
(* patch and CompileRun are two of them); one that throws is answered with *)
(* 500 and is not told apart.  The pool's mutex covers the evaluation of a *)
(* waiting worker's predicate and the push or pop that follows, so each    *)
(* such section is one step.  Clients send the next request of a           *)
(* connection after the answer to the last, and always a whole one.        *)
(***************************************************************************)
EXTENDS Integers, Sequences, FiniteSets, SequencesExt

CONSTANTS
  Workers,      \* the threads of the pool
  Connections,  \* connections clients make
  NoConn,       \* no connection
  MaxKeep,      \* keep_alive_max_count_
  MaxSent       \* per connection: bound on the requests sent on it

ASSUME WorkersAssumption == IsFiniteSet(Workers) /\ Workers # {}
ASSUME ConnectionsAssumption == NoConn \notin Connections
ASSUME KeepAssumption == MaxKeep \in Nat \ {0}
ASSUME BoundAssumption == MaxSent \in [Connections -> Nat]

VARIABLES
  listener,  \* where listen_internal is
  accepted,  \* the socket accept() returned, on its way to the queue
  jobs,      \* ThreadPool::jobs_
  shutdown,  \* ThreadPool::shutdown_
  pc,        \* per worker: where it is
  conn,      \* per worker: the connection of its job
  count,     \* per worker: process_server_socket_core's count
  stage,     \* per connection: how far it has come
  sent,      \* per connection: requests the client has sent
  served,    \* per connection: responses the client got
  asksClose, \* per connection: its last request says "Connection: close"
  toldClose, \* per connection: so does its last response
  hungUp,    \* per connection: has the client closed it
  timedOut   \* history, per connection: the keep-alive timeout passed

pool    == <<jobs, shutdown, pc, conn, count>>
client  == <<sent, served, asksClose, toldClose, hungUp>>
vars    == <<listener, accepted, pool, stage, client, timedOut>>

TypeOK ==
  /\ listener \in {"accept", "enqueue", "shutdown", "join", "returned"}
  /\ accepted \in Connections \cup {NoConn}
  /\ jobs \in Seq(Connections)
  /\ shutdown \in BOOLEAN
  /\ pc \in [Workers -> {"asleep", "check", "wait", "handle", "close",
                         "exited"}]
  /\ conn \in [Workers -> Connections \cup {NoConn}]
  /\ count \in [Workers -> 0 .. MaxKeep]
  /\ stage \in [Connections -> {"new", "backlog", "accepted", "closed"}]
  /\ sent \in [Connections -> Nat]
  /\ served \in [Connections -> Nat]
  /\ asksClose \in [Connections -> BOOLEAN]
  /\ toldClose \in [Connections -> BOOLEAN]
  /\ hungUp \in [Connections -> BOOLEAN]
  /\ timedOut \in [Connections -> BOOLEAN]

Init ==
  /\ listener = "accept"
  /\ accepted = NoConn
  /\ jobs = << >>
  /\ shutdown = FALSE
  /\ pc = [w \in Workers |-> "check"]
  /\ conn = [w \in Workers |-> NoConn]
  /\ count = [w \in Workers |-> 0]
  /\ stage = [c \in Connections |-> "new"]
  /\ sent = [c \in Connections |-> 0]
  /\ served = [c \in Connections |-> 0]
  /\ asksClose = [c \in Connections |-> FALSE]
  /\ toldClose = [c \in Connections |-> FALSE]
  /\ hungUp = [c \in Connections |-> FALSE]
  /\ timedOut = [c \in Connections |-> FALSE]

-----------------------------------------------------------------------------
Goto(w, place) == pc' = [pc EXCEPT ![w] = place]
Asleep == {w \in Workers : pc[w] = "asleep"}

(***************************************************************************)
(* Clients: the browser, and the Client of the oj_server.                  *)
(***************************************************************************)
Connect(c) ==
  /\ stage[c] = "new"
  /\ listener \in {"accept", "enqueue"}
  /\ stage' = [stage EXCEPT ![c] = "backlog"]
  /\ UNCHANGED <<listener, accepted, pool, client, timedOut>>

\* A client sends its next request unless it was told that the server closes.
Send(c) ==
  /\ stage[c] \in {"backlog", "accepted"}
  /\ ~hungUp[c] /\ ~toldClose[c] /\ ~asksClose[c]
  /\ sent[c] = served[c] /\ sent[c] < MaxSent[c]
  /\ sent' = [sent EXCEPT ![c] = @ + 1]
  /\ \E close \in BOOLEAN : asksClose' = [asksClose EXCEPT ![c] = close]
  /\ UNCHANGED <<listener, accepted, pool, stage, served, toldClose, hungUp,
                 timedOut>>

HangUp(c) ==
  /\ stage[c] \in {"backlog", "accepted"}
  /\ ~hungUp[c]
  /\ hungUp' = [hungUp EXCEPT ![c] = TRUE]
  /\ UNCHANGED <<listener, accepted, pool, stage, sent, served, asksClose,
                 toldClose, timedOut>>

(***************************************************************************)
(* listen_internal.                                                        *)
(***************************************************************************)
Accept(c) ==
  /\ listener = "accept"
  /\ stage[c] = "backlog"
  /\ stage' = [stage EXCEPT ![c] = "accepted"]
  /\ accepted' = c
  /\ listener' = "enqueue"
  /\ UNCHANGED <<pool, client, timedOut>>

\* accept() fails with something else than EMFILE, which is tried again: the
\* listening socket is closed, and what waits in its backlog is reset.
AcceptFails ==
  /\ listener = "accept"
  /\ stage' = [c \in Connections |->
                 IF stage[c] = "backlog" THEN "closed" ELSE stage[c]]
  /\ listener' = "shutdown"
  /\ UNCHANGED <<accepted, pool, client, timedOut>>

\* notify_one wakes one waiting thread, if there is one.
NotifyOne ==
  \/ /\ Asleep # {}
     /\ \E w \in Asleep : Goto(w, "check")
  \/ /\ Asleep = {}
     /\ UNCHANGED pc

\* Mutant: notify only when the queue was empty.
EnqueueNotifyFirst ==
  /\ listener = "enqueue"
  /\ jobs' = Append(jobs, accepted)
  /\ IF jobs = << >> THEN NotifyOne ELSE UNCHANGED pc
  /\ accepted' = NoConn
  /\ listener' = "accept"
  /\ UNCHANGED <<shutdown, conn, count, stage, client, timedOut>>

Enqueue ==
  /\ listener = "enqueue"
  /\ jobs' = Append(jobs, accepted)
  /\ NotifyOne
  /\ accepted' = NoConn
  /\ listener' = "accept"
  /\ UNCHANGED <<shutdown, conn, count, stage, client, timedOut>>

\* shutdown_ is set under the mutex, then every waiting thread is notified.
Shutdown ==
  /\ listener = "shutdown"
  /\ shutdown' = TRUE
  /\ pc' = [w \in Workers |-> IF w \in Asleep THEN "check" ELSE pc[w]]
  /\ listener' = "join"
  /\ UNCHANGED <<accepted, jobs, conn, count, stage, client, timedOut>>

Join ==
  /\ listener = "join"
  /\ \A w \in Workers : pc[w] = "exited"
  /\ listener' = "returned"
  /\ UNCHANGED <<accepted, pool, stage, client, timedOut>>

(***************************************************************************)
(* The loop of a worker.                                                   *)
(***************************************************************************)
\* cond_.wait: the predicate is looked at before every sleep.
Sleep(w) ==
  /\ pc[w] = "check"
  /\ jobs = << >> /\ ~shutdown
  /\ Goto(w, "asleep")
  /\ UNCHANGED <<listener, accepted, jobs, shutdown, conn, count, stage,
                 client, timedOut>>

\* A condition variable may wake a thread for no reason.
WakeUp(w) ==
  /\ pc[w] = "asleep"
  /\ Goto(w, "check")
  /\ UNCHANGED <<listener, accepted, jobs, shutdown, conn, count, stage,
                 client, timedOut>>

\* Mutant: the job is read under the mutex and removed by nobody.
TakeJobFront(w) ==
  /\ pc[w] = "check"
  /\ jobs # << >>
  /\ conn' = [conn EXCEPT ![w] = Head(jobs)]
  /\ count' = [count EXCEPT ![w] = MaxKeep]
  /\ Goto(w, "wait")
  /\ UNCHANGED <<listener, accepted, jobs, shutdown, stage, client, timedOut>>

\* Mutant: the job queued last is taken first.
TakeJobLast(w) ==
  /\ pc[w] = "check"
  /\ jobs # << >>
  /\ conn' = [conn EXCEPT ![w] = jobs[Len(jobs)]]
  /\ jobs' = SubSeq(jobs, 1, Len(jobs) - 1)
  /\ count' = [count EXCEPT ![w] = MaxKeep]
  /\ Goto(w, "wait")
  /\ UNCHANGED <<listener, accepted, shutdown, stage, client, timedOut>>

TakeJob(w) ==
  /\ pc[w] = "check"
  /\ jobs # << >>
  /\ conn' = [conn EXCEPT ![w] = Head(jobs)]
  /\ jobs' = Tail(jobs)
  /\ count' = [count EXCEPT ![w] = MaxKeep]
  /\ Goto(w, "wait")
  /\ UNCHANGED <<listener, accepted, shutdown, stage, client, timedOut>>

\* Mutant: the loop ends on shutdown whatever is queued.
ExitAtOnce(w) ==
  /\ pc[w] = "check"
  /\ shutdown
  /\ Goto(w, "exited")
  /\ UNCHANGED <<listener, accepted, jobs, shutdown, conn, count, stage,
                 client, timedOut>>

Exit(w) ==
  /\ pc[w] = "check"
  /\ shutdown /\ jobs = << >>
  /\ Goto(w, "exited")
  /\ UNCHANGED <<listener, accepted, jobs, shutdown, conn, count, stage,
                 client, timedOut>>

(***************************************************************************)
(* process_server_socket_core: the keep-alive loop of a connection.        *)
(***************************************************************************)
\* keep_alive: the socket is readable, with a request or the end of the stream.
\* At the end getline fails and the loop is over.
Readable(w) ==
  /\ pc[w] = "wait"
  /\ \/ sent[conn[w]] > served[conn[w]] /\ Goto(w, "handle")
     \/ /\ sent[conn[w]] = served[conn[w]] /\ hungUp[conn[w]]
        /\ Goto(w, "close")
  /\ UNCHANGED <<listener, accepted, jobs, shutdown, conn, count, stage,
                 client, timedOut>>

\* Mutant: the timeout runs for the first request only.
KeepAliveTimeoutFirst(w) ==
  /\ pc[w] = "wait"
  /\ sent[conn[w]] = 0 /\ ~hungUp[conn[w]]
  /\ timedOut' = [timedOut EXCEPT ![conn[w]] = TRUE]
  /\ Goto(w, "close")
  /\ UNCHANGED <<listener, accepted, jobs, shutdown, conn, count, stage,
                 client>>

\* Nothing came for keep_alive_timeout_sec_.  A request that comes before the
\* socket is closed is lost.
KeepAliveTimeout(w) ==
  /\ pc[w] = "wait"
  /\ sent[conn[w]] = served[conn[w]] /\ ~hungUp[conn[w]]
  /\ timedOut' = [timedOut EXCEPT ![conn[w]] = TRUE]
  /\ Goto(w, "close")
  /\ UNCHANGED <<listener, accepted, jobs, shutdown, conn, count, stage,
                 client>>

\* Mutant: off by one, no response announces the end of the count.
LastOneLate(w) == count[w] = 0

\* close_connection: this is the last request the loop takes.
LastOne(w) == count[w] = 1

\* The header of write_response_core.
SaysClose(w) == LastOne(w) \/ asksClose[conn[w]]

\* process_request: the handler runs and its response is written.  Writing to a
\* client that is gone may fail, which ends the loop.
Handle(w) ==
  /\ pc[w] = "handle"
  /\ LET c == conn[w]
     IN  /\ served' = [served EXCEPT ![c] = @ + 1]
         /\ toldClose' = [toldClose EXCEPT ![c] = SaysClose(w)]
         /\ count' = [count EXCEPT ![w] = IF asksClose[c] THEN @ ELSE @ - 1]
         /\ \/ /\ ~asksClose[c] /\ count[w] > 1
               /\ Goto(w, "wait")
            \/ /\ asksClose[c] \/ count[w] = 1 \/ hungUp[c]
               /\ Goto(w, "close")
  /\ UNCHANGED <<listener, accepted, jobs, shutdown, conn, stage, sent,
                 asksClose, hungUp, timedOut>>

\* process_and_close_socket ends, and the worker looks for its next job.
Close(w) ==
  /\ pc[w] = "close"
  /\ stage' = [stage EXCEPT ![conn[w]] = "closed"]
  /\ conn' = [conn EXCEPT ![w] = NoConn]
  /\ count' = [count EXCEPT ![w] = 0]
  /\ Goto(w, "check")
  /\ UNCHANGED <<listener, accepted, jobs, shutdown, client, timedOut>>

-----------------------------------------------------------------------------
Listen == (\E c \in Connections : Accept(c)) \/ Enqueue \/ Shutdown \/ Join

Work(w) ==
  \/ Sleep(w) \/ TakeJob(w) \/ Exit(w)
  \/ Readable(w) \/ KeepAliveTimeout(w) \/ Handle(w) \/ Close(w)

Clients == \E c \in Connections : Connect(c) \/ Send(c) \/ HangUp(c)

Next ==
  \/ Clients
  \/ Listen \/ AcceptFails
  \/ \E w \in Workers : Work(w) \/ WakeUp(w)

Spec == Init /\ [][Next]_vars

(***************************************************************************)
(* Threads that can run are run, handlers end, and the keep-alive timeout  *)
(* passes.  Clients may do nothing for ever, accept() need never fail, and *)
(* no thread is ever woken for nothing.                                    *)
(***************************************************************************)
FairSpec ==
  /\ Spec
  /\ WF_vars(Listen)
  /\ \A w \in Workers : WF_vars(Work(w))

-----------------------------------------------------------------------------
(***************************************************************************)
(* Properties.                                                             *)
(***************************************************************************)
Checking == {w \in Workers : pc[w] = "check"}
Serving  == {w \in Workers : pc[w] \in {"wait", "handle", "close"}}

\* An accepted connection is in one place until it is closed: on its way to the
\* queue, at one position of the queue, or with one worker.  No two workers
\* ever serve the same one, and none is forgotten.
ConnectionsOwned ==
  /\ IsInjective(jobs)
  /\ \A v, w \in Serving : conn[v] = conn[w] => v = w
  /\ \A w \in Serving : conn[w] \notin ToSet(jobs) \cup {accepted}
  /\ accepted \notin ToSet(jobs)
  /\ \A c \in Connections : stage[c] = "accepted" <=>
       c \in ToSet(jobs) \cup {accepted} \cup {conn[w] : w \in Serving}

\* No wake-up is lost: while a worker sleeps, at least as many are on their way
\* to the queue as there are jobs in it, although notify_one may have met a
\* thread that another overtook (ThreadPool::enqueue, worker).
NoLostWakeUp == Asleep # {} => Len(jobs) <= Cardinality(Checking)

\* listen() returns only after every connection that was accepted has been
\* served and closed, those still queued at the shutdown included.
ShutdownDrains ==
  /\ \A w \in Workers : pc[w] = "exited" => shutdown /\ jobs = << >>
  /\ listener = "returned" =>
       \A c \in Connections : stage[c] # "accepted"

\* A client that sends its next request when the last response did not say
\* "Connection: close" gets an answer, unless it came too late for the
\* keep-alive timeout: the limit on requests never closes a connection that was
\* promised to stay open.
LastResponseTells ==
  \A w \in Workers : pc[w] = "close" =>
    \/ sent[conn[w]] = served[conn[w]]
    \/ timedOut[conn[w]]

\* No connection keeps its worker, or its place in the queue, for ever.
EveryConnectionClosed ==
  \A c \in Connections : (stage[c] = "accepted") ~> (stage[c] = "closed")

(***************************************************************************)
(* The server implements ConnectionService, a place for each worker.       *)
(***************************************************************************)
PhaseOf(c) ==
  IF stage[c] # "accepted" THEN stage[c]
  ELSE IF c \in ToSet(jobs) \cup {accepted} THEN "line"
  ELSE IF \E w \in Workers : pc[w] = "close" /\ conn[w] = c THEN "closing"
  ELSE "serving"

Service == INSTANCE ConnectionService WITH
  Places <- Cardinality(Workers),
  server <- CASE listener \in {"accept", "enqueue"} -> "listening"
              [] listener \in {"shutdown", "join"}  -> "stopping"
              [] OTHER -> "returned",
  phase  <- [c \in Connections |-> PhaseOf(c)],
  line   <- IF accepted = NoConn THEN jobs ELSE Append(jobs, accepted),
  asks   <- asksClose,
  told   <- toldClose

\* To its clients the pool is one line with as many places as workers: what the
\* mutex, the condition variable and the keep-alive count do shows in no other
\* way (listen_internal, ThreadPool, process_server_socket_core).
ImplementsService == Service!Spec

=============================================================================
