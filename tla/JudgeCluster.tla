---------------------------- MODULE JudgeCluster ----------------------------
(***************************************************************************)
(* The oj_server and its compile servers together: every try of a judge is *)
(* a connection to one machine, whose thread pool has a bounded number of  *)
(* workers and a queue before them.  The client gives up on a try after    *)
(* five seconds without a reply, or when the connection is refused or      *)
(* reset; the machine does not notice: the request waits in its queue, is  *)
(* run, and its reply is written to nobody.  Runner::Run waits for the     *)
(* program without a limit on the time that passes, so one that sleeps     *)
(* holds its worker for ever.                                              *)
(*                                                                         *)
(* The dispatcher inside is JudgeService, which JudgeDispatch implements,  *)
(* and which this module implements too; a machine's pool is HttpServer,   *)
(* and what a worker does with a request CompileRun.  No compile server    *)
(* answers a job of the oj_server with another status than 200, so that    *)
(* branch of Judge is left to JudgeDispatch.                               *)
(***************************************************************************)
EXTENDS Integers, FiniteSets, Sequences

CONSTANTS
  Judges,         \* requests to judge a program
  Machines,       \* compile servers
  Workers,        \* worker threads of a compile server
  MaxRecoveries,  \* bound on the SIGQUITs
  MaxCrashes      \* bound on the crashes of compile servers

ASSUME BoundAssumption ==
  /\ Workers \in Nat \ {0}
  /\ MaxRecoveries \in Nat /\ MaxCrashes \in Nat

VARIABLES
  prompt,     \* the environment: does a try that nothing holds up get its
              \* reply within five seconds
  up,         \* machines the oj_server has online
  pc,         \* per judge: where its handler is
  tries,      \* per judge: its tries, a machine and what became of each
  answer,     \* per judge: how it ended
  alive,      \* machines whose compile_server runs
  stuck,      \* judges whose program never ends
  recoveries,
  crashes,
  struck      \* history: machines that crashed

bounded == <<recoveries, crashes>>
vars == <<prompt, up, pc, tries, answer, alive, stuck, bounded, struck>>

States   == {"queued", "running", "answered", "lost"}
Attempts == [at : Machines, state : States]

TypeOK ==
  /\ prompt \in BOOLEAN
  /\ up \in SUBSET Machines
  /\ pc \in [Judges -> {"idle", "choose", "wait", "offline", "done"}]
  /\ tries \in [Judges -> Seq(Attempts)]
  /\ answer \in [Judges -> {"none", "result", "unavailable"}]
  /\ alive \in SUBSET Machines
  /\ stuck \in SUBSET Judges
  /\ recoveries \in 0 .. MaxRecoveries
  /\ crashes \in 0 .. MaxCrashes
  /\ struck \in SUBSET Machines

Init ==
  /\ prompt \in BOOLEAN
  /\ up = Machines
  /\ pc = [j \in Judges |-> "idle"]
  /\ tries = [j \in Judges |-> <<>>]
  /\ answer = [j \in Judges |-> "none"]
  /\ alive = Machines
  /\ stuck = {}
  /\ recoveries = 0
  /\ crashes = 0
  /\ struck = {}

-----------------------------------------------------------------------------
Move(j, from, to) == pc[j] = from /\ pc' = [pc EXCEPT ![j] = to]

Last(j)    == Len(tries[j])
Current(j) == tries[j][Last(j)]

\* Try n of judge j comes to a state.
Becomes(j, n, state) == tries' = [tries EXCEPT ![j][n].state = state]

\* The tries that have a worker of machine m.
Running(m) ==
  {k \in UNION {{j} \X DOMAIN tries[j] : j \in Judges} :
     tries[k[1]][k[2]] = [at |-> m, state |-> "running"]}

\* Nothing will come of the last try of judge j: it is lost, its program does
\* not end, or programs that do not end have all the workers.
HeldUp(j) ==
  \/ Current(j).state = "lost"
  \/ j \in stuck
  \/ /\ Current(j).state = "queued"
     /\ Cardinality({k \in Running(Current(j).at) : k[1] \in stuck}) = Workers

-----------------------------------------------------------------------------
(***************************************************************************)
(* The oj_server.                                                          *)
(***************************************************************************)
\* A request arrives, with a program that ends or one that does not; where
\* replies need not be prompt, any program may run as long as one that never
\* ends.
Submit(j) ==
  /\ Move(j, "idle", "choose")
  /\ \/ UNCHANGED stuck
     \/ prompt /\ stuck' = stuck \cup {j}
  /\ UNCHANGED <<prompt, up, tries, answer, alive, bounded, struck>>

\* SmartChoice, under the mutex, where the load figures may favour any machine,
\* and the connection: the request is written and the machine has it queued.
Choose(j) ==
  /\ Move(j, "choose", "wait")
  /\ \E m \in up :
       LET state == IF m \in alive THEN "queued" ELSE "lost"
           a     == [at |-> m, state |-> state]
       IN  tries' = [tries EXCEPT ![j] = Append(@, a)]
  /\ UNCHANGED <<prompt, up, answer, alive, stuck, bounded, struck>>

GiveUp(j) ==
  /\ up = {}
  /\ Move(j, "choose", "done")
  /\ answer' = [answer EXCEPT ![j] = "unavailable"]
  /\ UNCHANGED <<prompt, up, tries, alive, stuck, bounded, struck>>

\* The connection is refused or reset, or the time for reading is over.  Where
\* replies are prompt a try behind programs that do end is answered in time;
\* that its wait in the queue alone may take too long is left to the others.
NoReply(j) ==
  /\ Move(j, "wait", "offline")
  /\ ~prompt \/ HeldUp(j)
  /\ UNCHANGED <<prompt, up, tries, answer, alive, stuck, bounded, struck>>

\* Mutant: the id is taken for a place in the list of those online.
OfflineAnother(j) ==
  /\ Move(j, "offline", "choose")
  /\ \E m \in up : up' = up \ {m}
  /\ UNCHANGED <<prompt, tries, answer, alive, stuck, bounded, struck>>

OfflineMachine(j) ==
  /\ Move(j, "offline", "choose")
  /\ up' = up \ {Current(j).at}
  /\ UNCHANGED <<prompt, tries, answer, alive, stuck, bounded, struck>>

\* SIGQUIT.
RecoveryMachine ==
  /\ recoveries < MaxRecoveries
  /\ recoveries' = recoveries + 1
  /\ up' = Machines
  /\ UNCHANGED <<prompt, pc, tries, answer, alive, stuck, crashes, struck>>

-----------------------------------------------------------------------------
(***************************************************************************)
(* The compile servers.                                                    *)
(***************************************************************************)
\* A worker takes a request, whether or not its client still waits.
Take(j, n) ==
  /\ tries[j][n].state = "queued"
  /\ Cardinality(Running(tries[j][n].at)) < Workers
  /\ Becomes(j, n, "running")
  /\ UNCHANGED <<prompt, up, pc, answer, alive, stuck, bounded, struck>>

\* Mutant: a late reply is taken for the one of the try under way.
ReplyToAny(j, n) ==
  /\ tries[j][n].state = "running"
  /\ j \notin stuck
  /\ IF pc[j] # "done"
       THEN /\ Becomes(j, n, "answered")
            /\ pc' = [pc EXCEPT ![j] = "done"]
            /\ answer' = [answer EXCEPT ![j] = "result"]
       ELSE /\ Becomes(j, n, "lost")
            /\ UNCHANGED <<pc, answer>>
  /\ UNCHANGED <<prompt, up, alive, stuck, bounded, struck>>

\* The program ends; the reply is read, or written to a closed connection.
Reply(j, n) ==
  /\ tries[j][n].state = "running"
  /\ j \notin stuck
  /\ IF n = Last(j) /\ pc[j] = "wait"
       THEN /\ Becomes(j, n, "answered")
            /\ pc' = [pc EXCEPT ![j] = "done"]
            /\ answer' = [answer EXCEPT ![j] = "result"]
       ELSE /\ Becomes(j, n, "lost")
            /\ UNCHANGED <<pc, answer>>
  /\ UNCHANGED <<prompt, up, alive, stuck, bounded, struck>>

\* A compile server crashes with what it has, and is started again.
Crash(m) ==
  /\ m \in alive
  /\ crashes < MaxCrashes
  /\ crashes' = crashes + 1
  /\ alive' = alive \ {m}
  /\ struck' = struck \cup {m}
  /\ tries' = [j \in Judges |-> [n \in DOMAIN tries[j] |->
       IF tries[j][n].at = m /\ tries[j][n].state \in {"queued", "running"}
         THEN [tries[j][n] EXCEPT !.state = "lost"] ELSE tries[j][n]]]
  /\ UNCHANGED <<prompt, up, pc, answer, stuck, recoveries>>

Start(m) ==
  /\ m \notin alive
  /\ alive' = alive \cup {m}
  /\ UNCHANGED <<prompt, up, pc, tries, answer, stuck, bounded, struck>>

-----------------------------------------------------------------------------
Dispatch(j) ==
  Choose(j) \/ GiveUp(j) \/ NoReply(j) \/ OfflineMachine(j)

Serve(j) == \E n \in DOMAIN tries[j] : Take(j, n) \/ Reply(j, n)

Next ==
  \/ \E j \in Judges : Submit(j) \/ Dispatch(j) \/ Serve(j)
  \/ \E m \in Machines : Crash(m) \/ Start(m)
  \/ RecoveryMachine

Spec == Init /\ [][Next]_vars

-----------------------------------------------------------------------------
(***************************************************************************)
(* Properties.                                                             *)
(***************************************************************************)
\* A judge with a result has it from its last try, and from no earlier one
\* that was still queued or running when it was given up.
ResultIsOfLastTry ==
  \A j \in Judges : \A n \in DOMAIN tries[j] :
    tries[j][n].state = "answered" <=> n = Last(j) /\ answer[j] = "result"

\* However tries time out, connections break and machines come back, a machine
\* is given the program of a judge once, and once more per recovery.
TriesPerMachine ==
  \A j \in Judges, m \in Machines :
    Cardinality({n \in DOMAIN tries[j] : tries[j][n].at = m})
      <= recoveries + 1

\* When replies are prompt, a machine that never crashed is offline only
\* because it was given a program that does not end, which keeps a worker.  The
\* wait behind many programs that do end, which may be longer than the client
\* waits, is no cause here (NoReply).
DownHasCause ==
  prompt =>
    \A m \in Machines \ up :
      \/ m \in struck
      \/ \E j \in stuck : \E n \in DOMAIN tries[j] : tries[j][n].at = m

(***************************************************************************)
(* The cluster implements JudgeService.                                    *)
(***************************************************************************)
StageOf(place) ==
  CASE place \in {"idle", "done"} -> "idle"
    [] place = "choose" -> "waiting"
    [] place = "wait" -> "trying"
    [] place = "offline" -> "suspect"

Service == INSTANCE JudgeService WITH
  Threads <- Judges,
  stage   <- [j \in Judges |-> StageOf(pc[j])],
  target  <- [j \in Judges |->
                IF StageOf(pc[j]) \in {"trying", "suspect"}
                  THEN {Current(j).at} ELSE {}]

\* The promise of the dispatcher holds with real machines behind it: whatever
\* happens to the tries, a judge sees picks, replies and failures in the order
\* JudgeService allows, and late replies change nothing it shows.
ImplementsService == Service!Spec

=============================================================================
