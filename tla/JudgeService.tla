---------------------------- MODULE JudgeService ----------------------------
(***************************************************************************)
(* What Control::Judge and the LoadBalance it owns promise to a worker     *)
(* thread of the oj_server, with no lock, no load figures and no order of  *)
(* the machine lists: a judge is tried on one machine at a time, each of   *)
(* them up when it was picked; it is given up only at a moment when no     *)
(* machine is up; a machine goes down only because a judge that was trying *)
(* it got no reply; and a recovery brings every machine back.              *)
(***************************************************************************)
EXTENDS FiniteSets

CONSTANTS
  Threads,    \* worker threads of the HTTP server
  Machines    \* the compile servers the configuration lists

VARIABLES
  up,         \* machines a judge may be sent to
  stage,      \* per thread: where its judge is
  target,     \* per thread: {m} while its judge concerns machine m, else {}
  answer      \* per thread: how its last judge ended

vars == <<up, stage, target, answer>>

Answers == {"none", "result", "unavailable", "error"}
Stages  == {"idle", "waiting", "trying", "suspect"}

TypeOK ==
  /\ up \in SUBSET Machines
  /\ stage \in [Threads -> Stages]
  /\ target \in [Threads -> SUBSET Machines]
  /\ answer \in [Threads -> Answers]

Init ==
  /\ up = Machines
  /\ stage = [t \in Threads |-> "idle"]
  /\ target = [t \in Threads |-> {}]
  /\ answer = [t \in Threads |-> "none"]

Move(t, from, to) ==
  /\ stage[t] = from
  /\ stage' = [stage EXCEPT ![t] = to]

Answer(t, a) == answer' = [answer EXCEPT ![t] = a]
Release(t)   == target' = [target EXCEPT ![t] = {}]

Submit(t) ==
  /\ Move(t, "idle", "waiting")
  /\ Answer(t, "none")
  /\ UNCHANGED <<up, target>>

\* A machine is picked among those that are up now.
Try(t) ==
  /\ Move(t, "waiting", "trying")
  /\ \E m \in up : target' = [target EXCEPT ![t] = {m}]
  /\ UNCHANGED <<up, answer>>

\* A judge is abandoned only when there is nobody to send it to.
GiveUp(t) ==
  /\ up = {}
  /\ Move(t, "waiting", "idle")
  /\ Answer(t, "unavailable")
  /\ UNCHANGED <<up, target>>

\* The selection itself fails: the client is told of a server error.
Fail(t) ==
  /\ Move(t, "waiting", "idle")
  /\ Answer(t, "error")
  /\ UNCHANGED <<up, target>>

Succeed(t) ==
  /\ Move(t, "trying", "idle")
  /\ Answer(t, "result")
  /\ Release(t)
  /\ UNCHANGED up

\* The machine answered, but with no result: another choice is made.
Refused(t) ==
  /\ Move(t, "trying", "waiting")
  /\ Release(t)
  /\ UNCHANGED <<up, answer>>

Suspect(t) ==
  /\ Move(t, "trying", "suspect")
  /\ UNCHANGED <<up, target, answer>>

\* A suspected machine goes down, unless another judge took it down before.
TakeDown(t) ==
  /\ Move(t, "suspect", "waiting")
  /\ up' = up \ target[t]
  /\ Release(t)
  /\ UNCHANGED answer

RecoverAll ==
  /\ up' = Machines
  /\ UNCHANGED <<stage, target, answer>>

Next ==
  \/ \E t \in Threads :
       \/ Submit(t) \/ Try(t) \/ GiveUp(t) \/ Fail(t)
       \/ Succeed(t) \/ Refused(t) \/ Suspect(t) \/ TakeDown(t)
  \/ RecoverAll

Spec == Init /\ [][Next]_vars

=============================================================================
