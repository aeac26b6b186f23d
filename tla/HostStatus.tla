----------------------------- MODULE HostStatus -----------------------------
(***************************************************************************)
(* The /status handler of a compile server, and the oj_server polling it.  *)
(* Three figures are differences: a handler reads a pair of counters of    *)
(* the kernel, subtracts what the previous /status read, and stores its    *)
(* own in static variables shared by all threads without a lock.  The      *)
(* figures go back as JSON numbers, and the oj_server reads them with      *)
(* asUInt64, which throws on a negative or an infinite one; JudgeDispatch  *)
(* has that as the status reply "throw", and this module shows where it    *)
(* comes from.  The figures that are not differences are left out.         *)
(*                                                                         *)
(* The polls of an oj_server are made under LoadBalance's mutex, one after *)
(* the other; a poll that times out leaves its handler running.            *)
(***************************************************************************)
EXTENDS Integers, FiniteSets, Sequences

CONSTANTS
  Threads,   \* worker threads of the compile server
  NoThread,  \* no poll is waited for
  Unset,     \* what an uninitialized local may hold
  MaxTicks,  \* bound on what the kernel counts
  MaxPolls   \* bound on the polls

Order   == <<"cpu", "network", "disk">>
Figures == {Order[n] : n \in DOMAIN Order}
Pairs   == {1, 2}

ASSUME UnsetAssumption == Unset \subseteq Int
ASSUME BoundAssumption == MaxPolls \in Nat
ASSUME ThreadsAssumption == NoThread \notin Threads /\ Threads # {}

VARIABLES
  missing,    \* devices without a line: "network" (eth0), "disk" (sda)
  counters,   \* per figure: total and idle, rx and tx, read and written
  prev,       \* the static variables
  pc,         \* per thread: "idle", "sample", "subtract", "store", "reply"
  figure,     \* per thread: the number of the figure it works on
  part,       \* per thread: which of the two variables is next
  sample,     \* per thread: the counters it read
  diff,       \* per thread: the differences it made
  waiting,    \* the thread whose reply the poll waits for
  got,        \* what the last poll came to
  polls,
  reported,   \* history, per figure: the sum of the differences made
  overlapped, \* history: have two /status requests been handled at once
  late        \* history: has a poll timed out

kernel   == <<missing, counters>>
handlers == <<pc, figure, part, sample, diff>>
vars == <<missing, counters, prev, handlers, waiting, got, polls, reported,
          overlapped, late>>

IntPairs == [Pairs -> Int]
Zero     == [i \in Pairs |-> 0]

TypeOK ==
  /\ missing \subseteq {"network", "disk"}
  /\ counters \in [Figures -> [Pairs -> Nat]]
  /\ prev \in [Figures -> IntPairs]
  /\ pc \in [Threads -> {"idle", "sample", "subtract", "store", "reply"}]
  /\ figure \in [Threads -> DOMAIN Order]
  /\ part \in [Threads -> Pairs]
  /\ sample \in [Threads -> IntPairs]
  /\ diff \in [Threads -> [Figures -> IntPairs]]
  /\ waiting \in Threads \cup {NoThread}
  /\ got \in {"none", "ok", "throw", "fail"}
  /\ polls \in 0 .. MaxPolls
  /\ reported \in [Figures -> IntPairs]
  /\ overlapped \in BOOLEAN
  /\ late \in BOOLEAN

Init ==
  /\ missing \in SUBSET {"network", "disk"}
  /\ counters = [f \in Figures |-> Zero]
  /\ prev = [f \in Figures |-> Zero]
  /\ pc = [t \in Threads |-> "idle"]
  /\ figure = [t \in Threads |-> 1]
  /\ part = [t \in Threads |-> 1]
  /\ sample = [t \in Threads |-> Zero]
  /\ diff = [t \in Threads |-> [f \in Figures |-> Zero]]
  /\ waiting = NoThread
  /\ got = "none"
  /\ polls = 0
  /\ reported = [f \in Figures |-> Zero]
  /\ overlapped = FALSE
  /\ late = FALSE

-----------------------------------------------------------------------------
\* What the kernel may add to a pair of counters: the total of the processor
\* includes its idle time.
Increments(f) ==
  IF f = "cpu" THEN {<<1, 0>>, <<1, 1>>} ELSE {<<1, 0>>, <<0, 1>>}

Ticks == counters["cpu"][1]
           + counters["network"][1] + counters["network"][2]
           + counters["disk"][1] + counters["disk"][2]

Tick(f) ==
  /\ f \notin missing
  /\ Ticks < MaxTicks
  /\ \E inc \in Increments(f) :
       counters' = [counters EXCEPT ![f] =
                      [i \in Pairs |-> counters[f][i] + inc[i]]]
  /\ UNCHANGED <<missing, prev, handlers, waiting, got, polls, reported,
                 overlapped, late>>

-----------------------------------------------------------------------------
(***************************************************************************)
(* The oj_server's side: Machine::UpdateStatus under the mutex.            *)
(***************************************************************************)
\* The handler of a new request: thread t is free.
Accept(t) ==
  /\ pc[t] = "idle"
  /\ polls < MaxPolls
  /\ polls' = polls + 1
  /\ pc' = [pc EXCEPT ![t] = "sample"]
  /\ figure' = [figure EXCEPT ![t] = 1]
  /\ overlapped' = (overlapped \/ \E u \in Threads : pc[u] # "idle")

\* Mutant: the mutex is not held while the status is fetched.
PollUnlocked(t) ==
  /\ Accept(t)
  /\ waiting' = t
  /\ UNCHANGED <<kernel, prev, part, sample, diff, got, reported, late>>

Poll(t) ==
  /\ waiting = NoThread
  /\ Accept(t)
  /\ waiting' = t
  /\ UNCHANGED <<kernel, prev, part, sample, diff, got, reported, late>>

\* Five seconds without an answer.
Timeout ==
  /\ waiting # NoThread
  /\ waiting' = NoThread
  /\ got' = "fail"
  /\ late' = TRUE
  /\ UNCHANGED <<kernel, prev, handlers, polls, reported, overlapped>>

-----------------------------------------------------------------------------
(***************************************************************************)
(* The handler: get_cpu_usage, get_network_usage and get_disk_io_usage.    *)
(***************************************************************************)
At(t) == Order[figure[t]]

\* What the file of the kernel tells: without its line, the locals for the
\* network keep what they held, those for the disk are zero.
Readings(f) ==
  IF f \notin missing THEN {counters[f]}
  ELSE IF f = "network" THEN [Pairs -> Unset] ELSE {Zero}

Sample(t) ==
  /\ pc[t] = "sample"
  /\ \E r \in Readings(At(t)) : sample' = [sample EXCEPT ![t] = r]
  /\ pc' = [pc EXCEPT ![t] = "subtract"]
  /\ part' = [part EXCEPT ![t] = 1]
  /\ UNCHANGED <<kernel, prev, figure, diff, waiting, got, polls, reported,
                 overlapped, late>>

\* Mutant: the previous figure minus the new one.
DifferenceSwapped(t) == prev[At(t)][part[t]] - sample[t][part[t]]

Difference(t) == sample[t][part[t]] - prev[At(t)][part[t]]

Subtract(t) ==
  /\ pc[t] = "subtract"
  /\ diff' = [diff EXCEPT ![t][At(t)][part[t]] = Difference(t)]
  /\ reported' = [reported EXCEPT ![At(t)][part[t]] = @ + Difference(t)]
  /\ part' = [part EXCEPT ![t] = 3 - part[t]]
  /\ pc' = IF part[t] = 2 THEN [pc EXCEPT ![t] = "store"] ELSE pc
  /\ UNCHANGED <<kernel, prev, figure, sample, waiting, got, polls,
                 overlapped, late>>

\* After the last figure come the others, and the 10 ms of get_response_time.
NextFigure(t) ==
  IF figure[t] = Len(Order)
    THEN pc' = [pc EXCEPT ![t] = "reply"] /\ UNCHANGED figure
    ELSE /\ pc' = [pc EXCEPT ![t] = "sample"]
         /\ figure' = [figure EXCEPT ![t] = @ + 1]

\* Mutant: the second static variable is not stored.
StoreFirstOnly(t) ==
  /\ pc[t] = "store"
  /\ prev' = [prev EXCEPT ![At(t)][1] = sample[t][1]]
  /\ NextFigure(t)
  /\ UNCHANGED <<kernel, part, sample, diff, waiting, got, polls, reported,
                 overlapped, late>>

Store(t) ==
  /\ pc[t] = "store"
  /\ prev' = [prev EXCEPT ![At(t)][part[t]] = sample[t][part[t]]]
  /\ part' = [part EXCEPT ![t] = 3 - part[t]]
  /\ IF part[t] = 2 THEN NextFigure(t) ELSE UNCHANGED <<pc, figure>>
  /\ UNCHANGED <<kernel, sample, diff, waiting, got, polls, reported,
                 overlapped, late>>

\* asUInt64 takes the figure.  The share of the processor is a quotient: 0/0
\* is written as null, which reads as 0, another x/0 is infinite.
Readable(f, d) ==
  IF f # "cpu" THEN d[1] + d[2] >= 0
  ELSE IF d[1] = 0 THEN d[2] = 0
  ELSE IF d[1] > 0 THEN d[2] <= d[1] ELSE d[2] >= d[1]

Outcome(t) ==
  IF \A f \in Figures : Readable(f, diff[t][f]) THEN "ok" ELSE "throw"

\* A reply nobody waits for any more is dropped.
Reply(t) ==
  /\ pc[t] = "reply"
  /\ IF waiting = t
       THEN waiting' = NoThread /\ got' = Outcome(t)
       ELSE UNCHANGED <<waiting, got>>
  /\ pc' = [pc EXCEPT ![t] = "idle"]
  /\ figure' = [figure EXCEPT ![t] = 1]
  /\ sample' = [sample EXCEPT ![t] = Zero]
  /\ diff' = [diff EXCEPT ![t] = [f \in Figures |-> Zero]]
  /\ UNCHANGED <<kernel, prev, part, polls, reported, overlapped, late>>

-----------------------------------------------------------------------------
Handle(t) == Sample(t) \/ Subtract(t) \/ Store(t) \/ Reply(t)

Next ==
  \/ \E f \in Figures : Tick(f)
  \/ \E t \in Threads : Poll(t) \/ Handle(t)
  \/ Timeout

Spec == Init /\ [][Next]_vars

-----------------------------------------------------------------------------
(***************************************************************************)
(* Properties.                                                             *)
(***************************************************************************)
Quiet == \A t \in Threads : pc[t] = "idle"

\* The polls of one oj_server meet in a compile server only after one of them
\* timed out: the mutex covers the whole of UpdateStatus.
OverlapNeedsTimeout == overlapped => late

\* Without overlapping requests nothing is counted twice or left out: the
\* differences given out so far add up to what the counters were last read as,
\* in spite of each being made of two static variables.
DifferencesAddUp ==
  Quiet /\ ~overlapped => reported = prev

\* A poll throws only after requests overlapped, or on a host whose network
\* interface is not called eth0, where the locals are read without being set.
ThrowNeedsOverlap ==
  got = "throw" => overlapped \/ "network" \in missing

=============================================================================
