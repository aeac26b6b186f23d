# A TLA+ model of distributed-oj

distributed-oj is an online judge: an `oj_server` serves the pages, keeps
users, questions and progress in MySQL and sends each submitted program to one
of several `compile_server`s, which compile it, run it under limits and return
its output.  This directory holds the specification of the parts of it whose
correctness depends on the order in which things happen, the TLC
configurations that check them, and machine-checked proofs of every safety
property and every refinement.

## 1. Inventory

| Component | State | Operations | Hard behaviour | What makes it correct |
|---|---|---|---|---|
| **Judge dispatch** `oj_control.hpp`: `Machine`, `LoadBalance`, `Control::Judge`; `oj_server.cc`: `Recovery` | `machines` (load each), `online`, `offline`, `mtx`; per request: the chosen id | `SmartChoice`, `IncLoad`/`DecLoad`/`UpdateStatus`, `OfflineMachine`, `OnlineMachine`, `ShowMachines`, the retry loop | all HTTP worker threads share it; network requests are made while `mtx` is held; a verdict on a machine is acted on after the lock was released; a signal handler takes the same mutex; requests are refused, time out or fail, and a try that timed out goes on at its machine | no machine lost or listed twice; indices stay valid; a judge is tried on online machines only, given up only when there is none, and does not return to one that failed; every request is answered, from its last try; loads count what is in flight; a machine is offline for a reason |
| **Compile and run** `compile_server/*.hpp`, `FileUtil`, `PathUtil` | files of `./temp`, the name counter, child processes, descriptors | `Start`: name, write source and input, compile, run, reply, remove files | several jobs at once in one or several processes; children outlive a crash; every step may fail | a job is answered once, from its own files; the status tells how far it went; files and descriptors do not outlive their job |
| **User progress** `UserProgressControl`, `UserProgressModel` | one row per user and question | `AddOrUpdateUserProgress`, `setCompleted`, the reading pages | read, then write absolute values, in two SQL statements without a transaction; either may fail; users and questions are deleted meanwhile, sessions go stale | no attempt and no completion without a request that came to the row, rows that were not disturbed are exact, a row only grows until two handlers are at it |
| **Sessions and accounts** `sessions`, `UserControl`, `UserModel` | the session map in memory, the table `User` | register, login, logout, edit, add and delete users, check the administrator | a `std::map` shared without a lock; names pasted in SQL as they were sent; sessions of renamed or deleted users; check and use in two statements; restart | a session acts for the user that opened it and lasts until it is ended; rights come from administrators |
| **Questions** `Model`, `Control` | the table `questions` | list, show, add, modify, delete | deletion while a handler is between its statements | the cascade is not undone |
| **Host status** `HostStatusUtil`, `/status` | previous figures, in static variables | one function per figure | shared by the threads without a lock, one path leaves locals unset, the reader throws on some figures | differences add up; a figure is one the reader takes |
| **HTTP server** cpp-httplib: `listen_internal`, `ThreadPool`, `process_server_socket_core` | the job queue, the condition variable, `shutdown_`, the request count of each connection | accept, enqueue, sleep and wake, take, serve a kept-alive connection, close, shut down | wake-ups that meet the wrong thread; accept that fails; a timeout that races a request; the limit of requests per connection | a connection is with one thread until it is closed; no wake-up lost; shutdown drains; the last response says so |
| **Limits** `Runner::SetProcLimit` | none | two `setrlimit` calls | 32-bit product | the limit set is the limit asked for |
| MySQL client, JSON, pages, log | none | | | modelled from their use, or not at all |

Interaction: the page posts to `/judge/N`; a worker thread of the `oj_server`
takes the connection, finds the session, updates the progress row, then runs
`Control::Judge`, which asks every online machine for `/status`, posts to one
`/compile_and_run` and copies the reply to the page; a page that sees status 0
posts `/setCompleted/N`.  Both servers stand on the same HTTP library.
`PROJECT.json` lists the hazards of the code, each with its line and the
properties that would catch it.

## 2. Modules

| Module | Models | Code |
|---|---|---|
| `JudgeService` | what a judge may expect of the dispatcher, with no lock, load or list | promise of `Control::Judge` and `LoadBalance` |
| `JudgeDispatch` | the dispatcher | `oj_control.hpp` 43-453, `oj_server.cc` 24-520 |
| `JudgeCluster` | dispatcher and compile servers together | `oj_control.hpp` 163-453, `runner.hpp` 89-98, `compile_server.cc` 43-51, `httplib.h` (pool, client, timeouts) |
| `CompileService` | what a client may expect of a compile server, with no file, clock or child | promise of `CompileAndRun::Start` |
| `CompileRun` | the compile server | `compile_run.hpp` 58-203, `compiler.hpp` 25-71, `runner.hpp` 44-115, `util.hpp` 40-279, `compile_server.cc` 43-51 |
| `UserProgress` | the progress table and its two writers | `oj_control.hpp` 397-729, `oj_model2.hpp` 51-512, `oj_server.cc` 32-521, `UserProgress.sql` |
| `Accounts` | the table `User`, the session map, the handlers that change them | `oj_server.cc` 32-252, `oj_control.hpp` 465-607, `oj_model2.hpp` 40-377, `util.hpp` 329-343, `User.sql` |
| `HostStatus` | the figures of `/status` and their poller | `compile_server.cc` 22-39, `util.hpp` 53-145, `oj_control.hpp` 80-103, `httplib.h` 3770-3795 |
| `ConnectionService` | what a client may expect of the HTTP server, with no thread, mutex or socket | promise of `Server::listen` |
| `HttpServer` | accepting, the thread pool, kept-alive connections, shutdown | `httplib.h` 503-4729 |
| `ListLemmas` | lemmas about lists without repetition, used by two proof modules | |
| `JudgeDispatchProofs`, `JudgeClusterProofs`, `CompileRunProofs`, `UserProgressProofs`, `AccountsProofs`, `HostStatusProofs`, `HttpServerProofs` | proofs about the module of that name | |
| `MCJudgeDispatch`, `MCJudgeCluster`, `MCCompileRun`, `MCUserProgress`, `MCAccounts`, `MCHostStatus`, `MCHttpServer` | instances for TLC | |

The modules meet where the components do, each by what it shows of itself:

- `JudgeDispatch` and `JudgeCluster` implement the same `JudgeService`.  The
  first has the lock, the lists and the loads and takes a reply as a choice
  from `PostReplies`; the second has the machines that make the replies and
  takes the choice of a machine as one step.
- `JudgeDispatch` has the refresh outcomes `StatusReplies`; `HostStatus` shows
  when `"throw"` is one of them.
- A worker of `HttpServer` runs its handler as one step, `Handle`; the handlers
  of `JudgeDispatch`, `UserProgress`, `Accounts`, `HostStatus` and `CompileRun`
  are what such a step does.  `JudgeCluster` has the pool of each machine as a
  number of workers and a set of queued tries.
- `CompileRun` details the time a try of `JudgeCluster` is `"running"`.
- `UserProgress` ends its `/judge` where `Control::Judge` begins, which leaves
  the tables alone, and has the sessions of `Accounts` as the set of users whose
  cookie is known.

### JudgeDispatch

`pc[t]` is the place of a worker thread in `Judge`, and each action is one
access to shared state:

| Code | Actions |
|---|---|
| a `/judge` request reaches `Judge` | `Request` |
| `SmartChoice`: lock and size; nothing online; one refresh per machine; a refresh that throws; the scan; unlock | `SmartChoiceLock`, `SmartChoiceEmpty`, `UpdateStatus`, `UpdateStatusThrows`, `ScanStart`, `ScanStep`, `SmartChoiceUnlock` |
| `IncLoad` and `Post` | `StartPost`, then `PostOk`, `PostError` or `PostNoReply` |
| `OfflineMachine`, `ShowMachines` | `OfflineLock`, `OfflineMachine`, `ShowMachines` |
| SIGQUIT, `Recovery`, `OnlineMachine` | `Signal`, `OnlineLock`, `OnlineMachine` |

A handler runs on top of its thread: while `hpc[p] # "none"` the thread's own
actions are disabled.  The kernel prefers the main thread, which waits in
`accept()` and never holds `mtx`; while the signal is masked there (a handler
is running) it goes to another thread.  A machine's own mutex covers one access
to its load, so such an access is one step and that mutex is not a variable.
Loads are numbers modulo `LoadMod`, for `uint64_t`.  The weights of the load
formula are data: a refresh brings any load of `StatusLoads`.  What is judged
(the question's text and limits) does not influence the dispatching and is
left out.

The refinement mapping to `JudgeService` takes the set of online machines for
`up`, the place of a thread for its `stage`, and its chosen machine for its
`target`.  The step that tries a machine is `SmartChoiceUnlock`; the scan makes
sure that its choice is still online at that moment.

### JudgeCluster

`tries[j]` is the list of the tries of judge `j`, each with its machine and
what became of it: queued, running, answered or lost.  A judge that gives up on
a try (`NoReply`: the 5 s of the client, a refused or reset connection) goes to
`OfflineMachine`, but its try stays where it is; a worker takes it (`Take`) and
its reply goes to nobody (`Reply` with a try that is not the one waited for).
`Crash` loses what a machine has queued and running, `Start` brings it back
empty.  `RecoveryMachine` is SIGQUIT.

Time is not counted.  `prompt` is a choice made once: where it holds, a reply
comes in time unless something holds it up for ever (`HeldUp`: the try is lost,
the program does not end, or such programs have all the workers of the
machine); where it does not, any try may time out.  `stuck` are the judges
whose program does not end, which `waitpid` without a timeout waits for.

### CompileRun

A job is one request; its thread is `Start(j)`, its children `Children(j)`.
`dir` maps paths to inodes and `disk` inodes to contents, because an open
descriptor survives the removal or the replacement of its path.  A content is
the set of jobs whose data went into it, which is all that "whose output is
this?" needs.  `Failures` lists the steps that may fail.  A crash of a process
ends its jobs and resets its counter; files and children stay.  Status values:
-3, -2, -1 and 0 as in the code, 1 for every signal number.  g++ may fail on
any source, the program may write, be killed or end with any exit code.

`CompileService` sees of this the phase of a job, its name, the jobs named
before it arrived and the jobs whose data its reply holds.  A job without a
program is answered without a name; a crash is `Lose`.

### UserProgress

`rows` is the table by its UNIQUE key, `row[t]` the key a handler works on and
`up[t]` the row it read (a `progressId` of 0 is `NoRow`).  One action per SQL
statement: `GetUserInfo`, `QueryProgress`, `WriteProgress`.  `WriteProgress` is
the rest of both `AddOrUpdateUserProgress` and `setCompleted`: they differ in
`is_completed` only (`Written`), and insert the same default row (`NewRow`).
Both requests (`Ops`) come at any time, from anyone: the page posts
`/setCompleted` when a program was not ended by a signal, but its handler asks
for nothing of the kind.

Users log in and out, questions and users are deleted at any time, with ON
DELETE CASCADE, and `Restart` ends every session and every handler.  A request
whose session or user is gone goes on and leads to any id (`Stray`): `end()` is
read without a comparison, `new User()` leaves the id unset, and an empty result
counts as success.  Names are ones that SQL reads as they stand.
`completed_time` follows `is_completed` and is left out; that a MySQL server in
strict mode refuses the `completed_time` of 0 in an INSERT is one of the
failures of a write.

Histories tell the properties what was asked for: `judged` and `reported` count
the requests sent for a key, `strays` those that came to it with an unset id,
`late` and `astray` are the keys with a report after the first request and with
a report under an unset id, `overlapped` those with two handlers at once, and
`disturbed` those with a failed statement, a stale request or a restart.

### Accounts

`accounts` is the table `User` by id (`NoUser`: no row), `sessions` the map by
cookie (`NoName`: no node).  A session holds a NAME, and every request looks
that name up in the table again.

| Code | Actions |
|---|---|
| a request arrives | `Receive` |
| `sessions.find` | `FindSession` |
| the login query; the assignment to `sessions[id]` | `LoginUser`, `StoreSession` |
| `sessions.erase` of `/logout` | `EraseSession` |
| `IsAdmin`, then the statement it guards | `IsAdmin`, then `EditUser`, `DeleteUser` or `AddUser` |
| `/register` | `Register` |
| any of these statements, with a name in it that SQL does not read as it stands | `Splice` |
| the process ends and is started again | `Restart` |

Every statement pastes the name between apostrophes as it was sent.  `Literal`
are the names that SQL reads as they stand; the actions named for the handlers
need one (`Plain`).  With another name the statement is another statement:
`Splice` lets a query give any row or none, so that a login or a check of the
rights succeeds, and lets a write leave any table of `SplicedTables`.  The
history `spliced` remembers it.  `Forms` are the rows and bodies there are.

The map has no lock.  A thread between two steps is in the middle of its use of
the map, and `Missed(t)` says that another thread is at a write.  A search that
is `Missed` may find its node, none, or another one that was stored, or freed
(`Seen`; `Nobody` is garbage).  Two writes that overlap are undefined and leave
the tree `broken` until the process ends: from then on every search may find or
miss any node, and `sessions` is only what the map should hold.  Passwords are
kept as given: salt and hash only hide them.

### HostStatus

`counters` are the kernel's, `prev` the static variables, `sample[t]` and
`diff[t]` the locals of a handler; the figures are made in the order of the
handler, and each is `Sample`, two times `Subtract`, two times `Store`. `Tick`
lets the kernel count at any time.  A host without `eth0` leaves the locals of
the network figure unset (`Unset`), one without `sda` zero.  `Poll` and
`Timeout` are the poller's side, under the mutex of the dispatcher; a timed-out
poll leaves its handler running.  `Readable` is what `asUInt64` takes: no
negative figure, no infinite quotient, and null (0/0) as 0.

### HttpServer

| Code | Actions |
|---|---|
| the client | `Connect`, `Send`, `HangUp` |
| `listen_internal`: `accept`, a failed `accept`, `enqueue` with `notify_one`, `shutdown` with `notify_all`, `join` | `Accept`, `AcceptFails`, `Enqueue`, `Shutdown`, `Join` |
| `ThreadPool::worker`: the wait, spurious wake-ups, the pop, the end | `Sleep`, `WakeUp`, `TakeJob`, `Exit` |
| `process_server_socket_core`: `keep_alive`, `process_request`, `close_socket` | `Readable`, `KeepAliveTimeout`, `Handle`, `Close` |

A section under the mutex of the pool is one step: `cond_.wait` looks at the
predicate and either sleeps (`Sleep`), or goes on to the pop (`TakeJob`) or to
the end of the thread (`Exit`), all without giving the mutex back.  EMFILE is
tried again and changes nothing.

`ConnectionService` sees of this one line of connections and a number of
places.  A connection that `accept` returned is in the line, the one on its way
to the queue at its end (`PhaseOf`, `line`); it is being served while a worker
has it, and closing once that worker has left the keep-alive loop.  Sleeping,
waking, `Enqueue` and `Shutdown` are stutters; `Readable` is one unless it
finds the end of the stream.

## 3. Runs

Bounds are named constants (`MaxRequests`, `MaxSignals`, `MaxClock`,
`MaxCrashes`, `MaxRecoveries`, `MaxRestarts`, `MaxUsers`, `MaxLogins`,
`MaxTicks`, `MaxPolls`, `MaxSent`) that guard only the arrival of requests,
signals, ticks, rows and crashes.

| Run | Instance | Shows |
|---|---|---|
| `dispatch_safety` | 2 threads, 3 machines, every outcome, 2 requests, 2 signals, loads mod 4 | lists are a partition, mutual exclusion, stable snapshot, failed machines avoided, least load chosen, loads count judges, `JudgeService` implemented |
| `dispatch_answers` | 2 threads, 2 machines, replies 200 or none, one signal | every judge is answered, within a number of steps counted beforehand; the recovery ends; no lock is left |
| `cluster` | 2 judges, 2 machines with one worker each, programs that do not end, one crash, one SIGQUIT | results are of last tries, a machine gets a program once per recovery, machines go offline for a cause, `JudgeService` implemented |
| `compile_safety` | 2 jobs, one process, every failure, a crash, 3 clock values | names, replies, files, descriptors and status belong to their job, `CompileService` implemented |
| `compile_answers` | 2 jobs on two processes that share a directory and give equal names, every failure | every job ends |
| `progress_safety` | 2 threads, 2 users on one question, both requests in any order, every failure, deletions, logins, logouts, restarts, 3 requests | no attempt and no completion that no request accounts for, exact where nothing overlapped, only growing until two handlers meet |
| `accounts` | 2 threads, an administrator and a user, room for a third, 4 names of which `odd` is not literal, 8 forms, 2 logins, 4 requests, every failure, a restart | where rights come from, whom a session speaks for, how long it lasts |
| `host_status` | 2 threads, 2 ticks, 2 polls, hosts with and without the devices, an unset local of -1 | when polls overlap, that differences add up, when a poll throws |
| `http_server` | 2 workers, 3 connections with up to 3, 1 and 0 requests, at most 2 per connection | connections have one owner, no lost wake-up, shutdown drains, the limit is announced, every connection ends, `ConnectionService` implemented |

Why the bounds are enough: two threads give every pairwise interleaving of the
critical sections and of verdicts against recoveries, three machines allow one
to be chosen, one to have failed and one to be tried next.  A judge makes any
number of turns, so two requests already meet at every place of the loop;
`dispatch_answers` lets a thread judge again.  The second recovery is the one
whose handler runs on a worker thread.  With one worker for each machine of the
cluster, one program that does not end blocks a machine and the other judge
queues behind it; one recovery brings a judge back to the machine that still
runs its first try.  Two jobs are enough for a name or a file to be shared,
three clock values for a name before, during and after a crash.  Three progress
requests give a row that was inserted, read by two handlers and written by
both.  Four account requests are two logins and two changes, so that rights can
be earned, used and withdrawn in between; the third name is the one a row is
renamed to, the fourth, `odd`, is spliced and leaves the table empty (`Emptied`)
or with rights given to a stranger (`Promoted`).  Two polls are one that timed out and one that overlaps it.  Three
connections on two workers keep one in the queue, and a limit of two requests
with three to send reaches it.  `LoadMod = 4` is larger than any count of two
threads, and wraps at once below 0.  What these instances suggest about safety
is proved in section 5 without any bound.

Some properties hold under a condition that they state.  `ChoosesLeastLoaded`
is exact for scans during which no other judge counted itself (`calm`): a scan
does not hold the locks of the loads.  `LoadCountsInFlight` speaks of the
machines whose load nothing has replaced (`overwritten` has the others).
`DownHasCause` is about an environment in which replies are `prompt`.
`SessionsLast` and `SessionsSpeakForOwner` speak of maps whose writes never
overlapped (`broken`), searches beside a write allowed.  `UndisturbedExact`
leaves out rows with overlapping requests, failed statements, stale requests or
restarts (`overlapped`, `disturbed`), `ProgressGrows` only those with
overlapping ones.  `AttemptsBacked` and `CompletedWasReported` hold for every
row and take a request with an unset id for one that came to that row: a stale
session can add an attempt to another user's row, and complete it.  `DifferencesAddUp` and `ThrowNeedsOverlap` leave out
overlapping polls.  `RightsComeFromAdmins` speaks of the time before somebody
logs in with the password of a first administrator, and before a statement has
a name in it that SQL does not read as it stands (`spliced`), which
`SessionsSpeakForOwner` leaves out as well: such names can give anyone rights.  `EveryJudgeAnswered` needs
that a status other than 200 and a refresh that throws are absent, as in
`dispatch_answers`: each of them alone breaks it.

### Disagreements

Each of these runs checks a sentence of the documentation or a comment and
finds it violated by what the code does.

| Run | Said | Done |
|---|---|---|
| `wraps` | "mutex protects the list and the loads, the distribution is accurate" (`Interview_Technical_Stories.md:38`) | two judges chose one machine; one gets no reply and resets its load to 0, the other is answered and its `load--` wraps; the recovery lists the machine online with that load, and it is shunned until a `/status` reply replaces the figure |
| `status_throws` | "the switch is automatic, the user does not notice" (`Interview_Technical_Stories.md:41`) | a figure that `asUInt64` refuses throws past `mtx.unlock()`; every later judge waits |
| `judge_uncounted` | "every judge updates the submission count" (`oj_server.cc:501`) | the first one inserts 0 |

Other disagreements met while modelling, for which no run is kept:

- "A machine whose request fails is put offline" (`Interview_QA.md:24`), but a
  status other than 200 leaves it online, and the loop may choose it for ever.
- "File names never repeat, even in one millisecond" (`Interview_QA.md:61`), but
  increment and read of the counter are two operations, and two jobs may read
  one number (`NamesOrdered` speaks of jobs that do not overlap).
- A second SIGQUIT during a recovery may interrupt the worker that holds `mtx`,
  whose handler then waits for itself (`dispatch_answers` sends one signal for
  this reason).
- Processes sharing a directory can answer with each other's data
  (`RepliesAreOwn` speaks of jobs with a name of their own).
- A failed `execl` ends with status 0 (`StatusTellsStage` is silent about 0).
- A judge's late UPDATE takes a completion back (`UndisturbedExact` leaves out
  rows with overlapping requests).
- Rights withdrawn between `IsAdmin` and the statement it guards do not stop
  that statement (`RightsComeFromAdmins` says who may have rights at all).
- The descriptors opened before an `open` that fails are not closed
  (`DescriptorsReturned` allows at most two for each failure).

## 4. Fairness

Safety runs use `Spec`, without fairness.  `FairSpec` of `JudgeDispatch` is
weak fairness of each thread's judge steps and of each handler's steps: a
thread that can run is run, and a network request has an outcome because the
HTTP client has a connection and a read timeout.  Nothing makes clients send
requests or an operator send signals.  A thread waiting for `mtx` gets it
under weak fairness because the requests of an instance are bounded, so `mtx`
is at last continuously free; a `std::mutex` promises no more.  `FairSpec` of
`CompileRun` is weak fairness of each job's thread and children: g++ ends, and
the program ends, which RLIMIT_CPU sees to for a program that computes.  A
program that sleeps is bounded by nothing in the code; `EveryJobAnswered` does
not speak of it, and `JudgeCluster` has it as `stuck`.  `FairSpec` of
`HttpServer` is weak fairness of the listening thread and of each worker: the
operating system runs them, a handler ends and the keep-alive timeout passes.
Clients may stop at any time, `accept` need not fail, and no spurious wake-up
is ever counted on.

## 5. Proofs

Every safety property and every refinement that a passing run checks is proved
as a theorem of the specification, from the named ASSUMEs of its module only:
for any sets of threads, machines, jobs, users and connections (finite where
they are counted) and any bounds.  `PROJECT.json` lists the theorems.
Some theorems state more than a run checks; what they say (`LoadsBounded`,
`RemainingBounded`, `TriesBounded`, `WorkersFit`, `SeparateReplies`,
`SomeoneWorks`) is defined beside its proof.

`JudgeDispatchProofs`, for any set of outcomes and any load width:

- `DispatchInvariant`: `IInv == TypeOK /\ MutualExclusion /\ SnapshotStable` is
  inductive.  Neither conjunct is inductive alone: that a refresh writes the
  load of a configured machine needs the index to be within `online`
  (`SnapshotStable`); that the size stays right while a scan runs needs that
  whoever changes `online` holds `mtx` (`MutualExclusion`), which in turn needs
  that a handler inside `OnlineMachine` does not run on top of a critical
  section of its own thread.
- `TypeCorrect`, `MutexCorrect`, `SnapshotCorrect`: its parts.
- `PartitionCorrect`: `MachinesPartitioned`, from what erase, push_back and
  insert do to a list without repetition (`ListLemmas`) and from the fact that
  only two steps touch the lists.
- `FailedCorrect`: `NeverRetriesFailed`.  A failed machine is not online, and a
  scan chooses only among online machines.
- `DispatchImplementsService`: the initial state maps to the initial state, and
  each action to the action of `JudgeService` it stands for or to a stutter;
  `SmartChoiceUnlock` needs `SnapshotStable`, `OnlineMachine` needs
  `MachinesPartitioned`.
- `ReleaseCorrect`: `LockIsReleased`, from an invariant that says who holds
  `mtx` at each place.
- `LoadsCorrect`: `LoadCountsInFlight`.  Counting up and down commutes with
  wrapping, and a machine whose load nothing replaced has never been offline
  (`NeverReset`), so every judge in flight on it is still counted.
- `ChoiceCorrect`: `ChoosesLeastLoaded`.  During a calm scan the machine kept is
  the first of least load among those already looked at.
- `RunOutCorrect`: `JudgesRunOut`, the safety half of `EveryJudgeAnswered`, for
  any number of judges, machines and signals.  `Remaining(t)` counts the turns a
  judge may still make and the steps left of this one.  A judge that ends a turn
  without an answer takes its machine off the list, or finds that another judge
  did so since it was chosen (`Gone`); a list that a recovery fills again is
  paid for by that recovery (`OfflineMachineLength`, `OnlineMachineLength`), and
  one turn weighs more than all steps within a turn (`TurnsWeighMore`).
  `RemainingBounded` bounds the measure: a judge that is not answered after
  `StepBound` steps does not exist.  What stays with TLC of `EveryJudgeAnswered`
  is that a judge can always take its next step, which needs the scheduler.
- `LoadsBounded`: where nothing replaced a load, it is at most the number of
  threads, of which there are fewer than a load has values.  That is what
  `LoadNeverWraps` claims of the machines online and the run `wraps` refutes:
  the theorem leaves only refreshes and resets as the cause.

`JudgeClusterProofs`: `TriesPerMachine` is not inductive, because a judge may
have as many tries at a machine as are allowed and the machine be online.
`Paced` counts more closely: a machine that is online, and that the judge does
not concern now, has one try of it left to give.  `Caused` carries the cause of
`DownHasCause` through the time between a judge that gives up and the machine
that goes offline: a try is lost only to a crash, and otherwise the judge's own
program, or those that have all the workers of the machine, do not end.
`PlacesFit` says that a judge that waits has a try and one that ended has an
answer.  `ClusterImplementsService` maps every step to a step of `JudgeService`
or a stutter; late replies are stutters.  `BoundedCorrect` (`TriesBounded`) adds
the machines up: with finitely many of them the loop of a judge ends, because
its tries, each told by its machine and its place among those at that machine,
are no more than there are such pairs.  `WorkersCorrect` (`WorkersFit`) says
that a machine runs at most `Workers` programs, those of judges that have given
up included, so the test for a pool that is held up in `HeldUp`, which asks for
exactly `Workers`, misses none.

`CompileRunProofs`: `Invariant` is built in layers.  `Base` has types, what a
job has at each place (`Stages`), the order of names (`Numbered`: a name given
earlier has an earlier time or a smaller number) and the count of descriptors.
`FilesHaveOwners` and `DataFits` say whose files are on the disk and whose data
is in them; `Statuses` follows the status through the failing steps; `Privates`
says that what a job whose name is its own wrote is still there when it reads
it, through the reply (`RepliesAreOwn` follows from it and from `DataFits`).
`ServiceCorrect` maps every step to a step of `CompileService` or a stutter.
`SeparateCorrect` (`SeparateReplies`) says what a deployment can rely on: with a
directory for each process, a job that was alone in `UniqFileName` while it got
its name is answered from its own files.  `InItsDir` (a name lies in the
directory of its process) keeps other processes out, and `NamesOrdered` those
named at another time.

`UserProgressProofs`: `AttemptsBacked` is not inductive, because a handler that
has read and not yet written may add one.  `Counted` takes such handlers away
from the requests that came to a row (`Came`, `Room`) and says that the row, and
the copies handlers hold of it, are below what is left; it also follows the
report a completion needs (`Claimed`) through the handlers that carry one.
`Alone` says that until two handlers were at a row at once, at most one works on
it and the copy it holds is the row as it is; with this alone `GrowsCorrect`
(`ProgressGrows`), an action property, follows, because a write then replaces
what it was computed from.  `Orderly` adds for rows that nothing disturbed what
they show after each number of requests, at each place of the one handler, which
gives `UndisturbedExact`.  `JobsFit` says what a thread holds where.

`AccountsProofs`: `Guarded` says that as long as no first administrator has
logged in and no name was spliced, no session and no thread bears the name of
one and no thread is past its check; that includes the threads that read
another's name from a map that is written or broken.  `UniqueNames` is the
UNIQUE key and `OwnersBear` what a session knows of its row, both while no name
was spliced; `Lasting` is the end of a session, while the map is not broken.

`HostStatusProofs`: while requests have not overlapped, at most one handler is
busy, and every fact about the static variables is about that one. `OneAtATime`
ties overlaps to timeouts, `Sums` says that what was given out is what was
stored or is about to be, `Regular` that previous figure, sample and counter
only grow in this order, so that no difference is one the reader refuses.

`HttpServerProofs`: `PlacesFit` says where a worker has a connection,
`ConnectionsOwned` and `NoLostWakeUp` are inductive with it, and `Answered`
says what a worker that closes a connection has answered.  `NoLostWakeUp` is
the delicate one: a worker that takes a job removes one from both sides of its
inequality, and `Enqueue` adds to the right side unless nobody sleeps.
`ServerImplementsService` maps every step to a step of `ConnectionService` or a
stutter.  Three facts carry it: `PhasesRight` says that the phase of a
connection is told by where the connection is (from `ConnectionsOwned`);
`CountFits` that what is left of a worker's count and the responses given add
up to `MaxKeep`, so that the announcement comes with the last response; and
`PlaceFree` that a worker at the queue leaves a place free, because the workers
that serve are mapped onto the connections served.  `SomeoneCorrect` (`SomeoneWorks`)
is the safety half of `EveryConnectionClosed`: an accepted connection is about
to be queued, is served, or is queued while a worker is awake.

The type invariant of every module is proved (`TypeCorrect`); only that of
`JudgeDispatch`, where the width of the loads is at stake, is also run.

Only model-checked: the liveness properties `EveryJudgeAnswered`,
`RecoveryCompletes`, `EveryJobAnswered` and `EveryConnectionClosed`, as
fairness and ENABLED are beyond the prover.

## 6. Not modelled, and why

- The limits of a program: two system calls without state.  `CompileRun` takes
  every end of a program as possible, so no property depends on them.  That
  `_mem*1024` is a product of `int`s is listed among the hazards.
- The time of completion, for which `localtime` returns a buffer shared by all
  threads: data that no decision depends on, listed among the hazards.
- Adding and modifying questions: one statement each, which changes texts only.
  Deleting one is in `UserProgress`.
- What a judge says of a program.  Status 0 is any program that was not ended by
  a signal: a failing test prints its message and exits 0, and a question that
  could not be read is judged without tests.  "Completed" in the table means
  that a request said so, and no property claims more.
- What a statement does whose name SQL does not read as it stands, beyond
  `Splice`; `UserProgress` has no such names.
- What the map does after two writes at once.  `broken` stands for it, and no
  property of the map is claimed from then on.
- A clock that is set back, which `GetTimeMs` would follow: `Tick` only advances,
  and `NamesOrdered` across a restart rests on that.
- A signal that lands on a judge that holds `mtx`, where liveness is concerned.
  `dispatch_safety` has two signals and such handlers; `RecoveryCompletes` is
  checked with one, which the main thread takes.
- Where replies are prompt (`DownHasCause`), the wait in a full queue behind
  programs that do end.  The other behaviours of `JudgeCluster` have it: there
  any try may time out, wherever it is.
- Bodies that do not parse, whose exceptions end a handler before it has changed
  anything.
- The pages, the log, the file-based question model (not compiled), the tables
  nothing uses, question data and experiments.
- The vendored headers.  The MySQL client's declarations (about 20,000 lines)
  have no behaviour of their own.  Of `httplib.h` (6,708 lines) the threads and
  connections are modelled; parsing, multipart, ranges, compression, TLS,
  proxies, digest authentication and static files are not used by the project
  or do not depend on the order of things.  The project's own C++ is about
  3,000 lines, so the share of all lines the models stand for is small.

## 7. Plan

The model has the components that keep state.  What could still be added:
`HttpServer` and the handlers of one server as one specification, so that a
pool whose workers all wait in `Control::Judge` shows (the cluster has this for
the compile servers only); a client that sends its parts slowly, which holds a
worker for the read timeout; and, where a prover with temporal support is at
hand, the liveness properties.
