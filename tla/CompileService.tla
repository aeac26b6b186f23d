---------------------------- MODULE CompileService ----------------------------
(***************************************************************************)
(* What the users of a compile_server may expect of CompileAndRun::Start,  *)
(* with no clock, counter, file or child process: a job gets a name that   *)
(* no job named before it arrived has, is answered at most once, and from  *)
(* nothing but the data of the jobs that have its name.  A crash loses the *)
(* jobs of its process and no other.                                       *)
(***************************************************************************)
CONSTANTS
  Jobs,      \* requests
  Servers,   \* compile_server processes
  ServerOf,  \* the process each job is sent to
  Names      \* file names

VARIABLES
  phase,   \* per job: "new", "working", "answered", "refused" or "lost"
  name,    \* per job: {its name}, or {} before it has one
  before,  \* per job: the jobs of its process named before it arrived
  reply    \* per job: the jobs whose data its reply holds

vars == <<phase, name, before, reply>>

Init ==
  /\ phase = [j \in Jobs |-> "new"]
  /\ name = [j \in Jobs |-> {}]
  /\ before = [j \in Jobs |-> {}]
  /\ reply = [j \in Jobs |-> {}]

\* The jobs that have j's name, j among them once it has one.
Peers(j) == {k \in Jobs : name[k] # {} /\ name[k] = name[j]}

\* A job arrives.
Accept(j) ==
  /\ phase[j] = "new"
  /\ phase' = [phase EXCEPT ![j] = "working"]
  /\ before' = [before EXCEPT ![j] =
                  {k \in Jobs : ServerOf[k] = ServerOf[j] /\ name[k] # {}}]
  /\ UNCHANGED <<name, reply>>

\* A job without a program needs no name.
AcceptEmpty(j) ==
  /\ phase[j] = "new"
  /\ phase' = [phase EXCEPT ![j] = "working"]
  /\ UNCHANGED <<name, before, reply>>

Refuse(j) ==
  /\ phase[j] = "new"
  /\ phase' = [phase EXCEPT ![j] = "refused"]
  /\ UNCHANGED <<name, before, reply>>

Baptise(j) ==
  /\ phase[j] = "working" /\ name[j] = {}
  /\ \E n \in Names :
       /\ \A k \in before[j] : name[k] # {n}
       /\ name' = [name EXCEPT ![j] = {n}]
  /\ UNCHANGED <<phase, before, reply>>

Answer(j) ==
  /\ phase[j] = "working"
  /\ phase' = [phase EXCEPT ![j] = "answered"]
  /\ \E r \in SUBSET Peers(j) : reply' = [reply EXCEPT ![j] = r]
  /\ UNCHANGED <<name, before>>

Lose(s) ==
  /\ phase' = [j \in Jobs |-> IF ServerOf[j] = s /\ phase[j] = "working"
                                THEN "lost" ELSE phase[j]]
  /\ UNCHANGED <<name, before, reply>>

Next ==
  \/ \E j \in Jobs : Accept(j) \/ AcceptEmpty(j) \/ Refuse(j) \/ Baptise(j)
                     \/ Answer(j)
  \/ \E s \in Servers : Lose(s)

Spec == Init /\ [][Next]_vars

=============================================================================
