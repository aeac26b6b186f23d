---------------------------- MODULE JudgeDispatch ----------------------------
(***************************************************************************)
(* The judge path of the oj_server: Control::Judge, run by each worker     *)
(* thread of the HTTP server, the LoadBalance object all threads share     *)
(* (the online and offline lists and the mutex mtx), the Machine load      *)
(* counters, and the SIGQUIT handler that puts every machine back online.  *)
(*                                                                         *)
(* A thread of the model takes one step per access to shared state.        *)
(* Critical sections are kept as separate lock, work and unlock steps      *)
(* because SmartChoice performs network requests while it holds mtx and a  *)
(* signal can interrupt its thread there.  A Machine's own mutex covers a  *)
(* single access to its load, so each such access is one atomic step.      *)
(*                                                                         *)
(* Machines are named by their index in the vector `machines'.  Loads are  *)
(* uint64_t in the code and numbers modulo LoadMod here.                   *)
(***************************************************************************)
EXTENDS Integers, Sequences, FiniteSets, SequencesExt

CONSTANTS
  Threads,        \* worker threads of the HTTP server
  Main,           \* the thread in listen(); it takes the signals when it can
  NoThread,       \* "nobody holds mtx"
  NumMachines,    \* machines in service_machine.conf
  LoadMod,        \* loads wrap at this value (2^64 in the code)
  StatusLoads,    \* loads a /status reply can amount to
  StatusReplies,  \* outcomes of GET /status: "ok", "fail", "throw"
  PostReplies,    \* outcomes of POST /compile_and_run: "200", "error", "noreply"
  MaxRequests,    \* bound on the judge requests received
  MaxSignals      \* bound on the SIGQUITs sent

Machines  == 0 .. NumMachines - 1
Processes == Threads \cup {Main}

ASSUME ThreadsAssumption ==
  /\ IsFiniteSet(Threads)
  /\ Main \notin Threads /\ NoThread \notin Threads \cup {Main}
ASSUME MachinesAssumption == NumMachines \in Nat
ASSUME LoadAssumption ==
  /\ LoadMod \in Nat \ {0}
  /\ StatusLoads \subseteq 0 .. LoadMod - 1
ASSUME ReplyAssumption ==
  /\ StatusReplies \subseteq {"ok", "fail", "throw"}
  /\ PostReplies \subseteq {"200", "error", "noreply"}
ASSUME BoundAssumption == MaxRequests \in Nat /\ MaxSignals \in Nat

VARIABLES
  online,    \* LoadBalance::online
  offline,   \* LoadBalance::offline
  load,      \* Machine::load
  mtx,       \* the holder of LoadBalance::mtx
  pc,        \* per worker: where it is in Judge
  num,       \* per worker: SmartChoice's online_num
  idx,       \* per worker: position of SmartChoice's loops, from 1
  minLoad,   \* per worker: SmartChoice's min_load
  sel,       \* per worker: Judge's id
  answer,    \* per worker: how its last judge ended
  hpc,       \* per process: where it is in the signal handler
  failed,    \* history: machines a worker's judge saw fail and put offline,
             \* since its request and since the last recovery
  requests,  \* judge requests received
  signals,   \* SIGQUITs sent
  overwritten, \* history: machines whose load a refresh or reset replaced
  calm       \* history: no load has changed since the scan under way began

locals == <<num, idx, minLoad, sel>>
ghosts == <<overwritten, calm>>
vars   == <<online, offline, load, mtx, pc, num, idx, minLoad, sel, answer,
            hpc, failed, requests, signals, overwritten, calm>>

PCs == {"idle", "choose", "refresh", "scan", "chosen", "posting",
        "offline", "offlining", "show"}
HandlerPCs == {"none", "lock", "in"}
Answers == {"none", "result", "unavailable", "error"}

TypeOK ==
  /\ online \in Seq(Machines)
  /\ offline \in Seq(Machines)
  /\ load \in [Machines -> 0 .. LoadMod - 1]
  /\ mtx \in Processes \cup {NoThread}
  /\ pc \in [Threads -> PCs]
  /\ num \in [Threads -> Nat]
  /\ idx \in [Threads -> Nat]
  /\ minLoad \in [Threads -> 0 .. LoadMod - 1]
  /\ sel \in [Threads -> Machines \cup {0}]
  /\ answer \in [Threads -> Answers]
  /\ hpc \in [Processes -> HandlerPCs]
  /\ failed \in [Threads -> SUBSET Machines]
  /\ requests \in 0 .. MaxRequests
  /\ signals \in 0 .. MaxSignals
  /\ overwritten \in SUBSET Machines
  /\ calm \in BOOLEAN

(***************************************************************************)
(* LoadConf puts every machine online, in the order of the file, with a    *)
(* load of 0.                                                              *)
(***************************************************************************)
Init ==
  /\ online = [i \in 1 .. NumMachines |-> i - 1]
  /\ offline = << >>
  /\ load = [m \in Machines |-> 0]
  /\ mtx = NoThread
  /\ pc = [t \in Threads |-> "idle"]
  /\ num = [t \in Threads |-> 0]
  /\ idx = [t \in Threads |-> 0]
  /\ minLoad = [t \in Threads |-> 0]
  /\ sel = [t \in Threads |-> 0]
  /\ answer = [t \in Threads |-> "none"]
  /\ hpc = [p \in Processes |-> "none"]
  /\ failed = [t \in Threads |-> {}]
  /\ requests = 0
  /\ signals = 0
  /\ overwritten = {}
  /\ calm = FALSE

-----------------------------------------------------------------------------
\* A worker runs its own code only when no handler runs on top of it.
At(t, place) == pc[t] = place /\ hpc[t] = "none"
Goto(t, place) == pc' = [pc EXCEPT ![t] = place]

Lock(p) == mtx = NoThread /\ mtx' = p
Unlock  == mtx' = NoThread

Reply(t, a) == answer' = [answer EXCEPT ![t] = a]

\* `int online_num', `i' and `min_load' end with SmartChoice.
LeaveSmartChoice(t) ==
  /\ num' = [num EXCEPT ![t] = 0]
  /\ idx' = [idx EXCEPT ![t] = 0]
  /\ minLoad' = [minLoad EXCEPT ![t] = 0]

\* `int id = 0' is declared anew by each turn of Judge's loop.
NewTurn(t) == sel' = [sel EXCEPT ![t] = 0]

IncLoad(m) == load' = [load EXCEPT ![m] = (@ + 1) % LoadMod]
\* Mutant: a signed counter that does not wrap.
DecLoadSigned(m) == load' = [load EXCEPT ![m] = @ - 1]

DecLoad(m) == load' = [load EXCEPT ![m] = (@ - 1) % LoadMod]

-----------------------------------------------------------------------------
(***************************************************************************)
(* A judge request reaches a worker, which runs Judge up to its loop.  A   *)
(* body that does not parse or convert throws before the loop and changes  *)
(* nothing here: such a request is left out.                               *)
(***************************************************************************)
Request(t) ==
  /\ At(t, "idle")
  /\ requests < MaxRequests
  /\ requests' = requests + 1
  /\ Reply(t, "none")
  /\ failed' = [failed EXCEPT ![t] = {}]
  /\ Goto(t, "choose")
  /\ UNCHANGED <<online, offline, load, mtx, locals, hpc, signals, ghosts>>

(***************************************************************************)
(* SmartChoice.                                                            *)
(***************************************************************************)
\* Mutant: the size of online is read under mtx, the loops run without it.
SmartChoiceSnapshot(t) ==
  /\ At(t, "choose")
  /\ mtx = NoThread
  /\ num' = [num EXCEPT ![t] = Len(online)]
  /\ idx' = [idx EXCEPT ![t] = 1]
  /\ Goto(t, "refresh")
  /\ UNCHANGED <<online, offline, load, mtx, minLoad, sel, answer, hpc,
                 failed, requests, signals, ghosts>>

SmartChoiceLock(t) ==
  /\ At(t, "choose")
  /\ Lock(t)
  /\ num' = [num EXCEPT ![t] = Len(online)]
  /\ idx' = [idx EXCEPT ![t] = 1]
  /\ Goto(t, "refresh")
  /\ UNCHANGED <<online, offline, load, minLoad, sel, answer, hpc, failed,
                 requests, signals, ghosts>>

\* Mutant: the early return without its unlock().
SmartChoiceEmptyLocked(t) ==
  /\ At(t, "refresh")
  /\ num[t] = 0
  /\ Reply(t, "unavailable")
  /\ LeaveSmartChoice(t)
  /\ Goto(t, "idle")
  /\ UNCHANGED <<online, offline, load, mtx, sel, hpc, failed, requests,
                 signals, ghosts>>

\* Mutant: off by one, a single online machine counts as none.
SmartChoiceEmptyOne(t) ==
  /\ At(t, "refresh")
  /\ num[t] <= 1
  /\ Unlock
  /\ Reply(t, "unavailable")
  /\ LeaveSmartChoice(t)
  /\ Goto(t, "idle")
  /\ UNCHANGED <<online, offline, load, sel, hpc, failed, requests, signals,
                 ghosts>>

\* No machine is online: Judge leaves its loop with an empty out_json.
SmartChoiceEmpty(t) ==
  /\ At(t, "refresh")
  /\ num[t] = 0
  /\ Unlock
  /\ Reply(t, "unavailable")
  /\ LeaveSmartChoice(t)
  /\ Goto(t, "idle")
  /\ UNCHANGED <<online, offline, load, sel, hpc, failed, requests, signals,
                 ghosts>>

\* One Machine::UpdateStatus: a network request made while mtx is held.  A
\* reply that is missing or is not valid JSON leaves the last load in place.
UpdateStatus(t) ==
  /\ At(t, "refresh")
  /\ idx[t] \in 1 .. num[t]
  /\ \/ /\ "ok" \in StatusReplies
        /\ \E l \in StatusLoads : load' = [load EXCEPT ![online[idx[t]]] = l]
        /\ overwritten' = overwritten \cup {online[idx[t]]}
     \/ /\ "fail" \in StatusReplies
        /\ UNCHANGED <<load, overwritten>>
  /\ idx' = [idx EXCEPT ![t] = @ + 1]
  /\ UNCHANGED <<online, offline, mtx, pc, num, minLoad, sel, answer, hpc,
                 failed, requests, signals, calm>>

\* A figure that asUInt64 cannot represent throws through SmartChoice and
\* Judge to the HTTP server, which answers 500.  mtx, locked by a bare
\* lock(), stays locked.
UpdateStatusThrows(t) ==
  /\ "throw" \in StatusReplies
  /\ At(t, "refresh")
  /\ idx[t] \in 1 .. num[t]
  /\ Reply(t, "error")
  /\ LeaveSmartChoice(t)
  /\ Goto(t, "idle")
  /\ UNCHANGED <<online, offline, load, mtx, sel, hpc, failed, requests,
                 signals, ghosts>>

ScanStart(t) ==
  /\ At(t, "refresh")
  /\ num[t] > 0 /\ idx[t] = num[t] + 1
  /\ sel' = [sel EXCEPT ![t] = online[1]]
  /\ minLoad' = [minLoad EXCEPT ![t] = load[online[1]]]
  /\ idx' = [idx EXCEPT ![t] = 1]
  /\ Goto(t, "scan")
  /\ calm' = TRUE
  /\ UNCHANGED <<online, offline, load, mtx, num, answer, hpc, failed,
                 requests, signals, overwritten>>

\* Mutant: >= in the comparison, so that the last of equals wins.
ScanStepLast(t) ==
  /\ At(t, "scan")
  /\ idx[t] \in 1 .. num[t]
  /\ LET m == online[idx[t]]
     IN  IF minLoad[t] >= load[m]
           THEN /\ minLoad' = [minLoad EXCEPT ![t] = load[m]]
                /\ sel' = [sel EXCEPT ![t] = m]
           ELSE UNCHANGED <<minLoad, sel>>
  /\ idx' = [idx EXCEPT ![t] = @ + 1]
  /\ UNCHANGED <<online, offline, load, mtx, pc, num, answer, hpc, failed,
                 requests, signals, ghosts>>

ScanStep(t) ==
  /\ At(t, "scan")
  /\ idx[t] \in 1 .. num[t]
  /\ LET m == online[idx[t]]
     IN  IF minLoad[t] > load[m]
           THEN /\ minLoad' = [minLoad EXCEPT ![t] = load[m]]
                /\ sel' = [sel EXCEPT ![t] = m]
           ELSE UNCHANGED <<minLoad, sel>>
  /\ idx' = [idx EXCEPT ![t] = @ + 1]
  /\ UNCHANGED <<online, offline, load, mtx, pc, num, answer, hpc, failed,
                 requests, signals, ghosts>>

SmartChoiceUnlock(t) ==
  /\ At(t, "scan")
  /\ idx[t] = num[t] + 1
  /\ Unlock
  /\ LeaveSmartChoice(t)
  /\ Goto(t, "chosen")
  /\ calm' = FALSE
  /\ UNCHANGED <<online, offline, load, sel, answer, hpc, failed, requests,
                 signals, overwritten>>

(***************************************************************************)
(* The turn of Judge's loop after SmartChoice returned true.               *)
(***************************************************************************)
StartPost(t) ==
  /\ At(t, "chosen")
  /\ IncLoad(sel[t])
  /\ Goto(t, "posting")
  /\ calm' = FALSE
  /\ UNCHANGED <<online, offline, mtx, locals, answer, hpc, failed, requests,
                 signals, overwritten>>

PostOk(t) ==
  /\ "200" \in PostReplies
  /\ At(t, "posting")
  /\ DecLoad(sel[t])
  /\ Reply(t, "result")
  /\ NewTurn(t)
  /\ Goto(t, "idle")
  /\ calm' = FALSE
  /\ UNCHANGED <<online, offline, mtx, num, idx, minLoad, hpc, failed,
                 requests, signals, overwritten>>

\* Mutant: no DecLoad before the loop turns again.
PostErrorCounted(t) ==
  /\ "error" \in PostReplies
  /\ At(t, "posting")
  /\ NewTurn(t)
  /\ Goto(t, "choose")
  /\ UNCHANGED <<online, offline, load, mtx, num, idx, minLoad, answer, hpc,
                 failed, requests, signals, ghosts>>

\* Any status but 200: the loop turns again, the machine stays online.
PostError(t) ==
  /\ "error" \in PostReplies
  /\ At(t, "posting")
  /\ DecLoad(sel[t])
  /\ NewTurn(t)
  /\ Goto(t, "choose")
  /\ calm' = FALSE
  /\ UNCHANGED <<online, offline, mtx, num, idx, minLoad, answer, hpc, failed,
                 requests, signals, overwritten>>

\* Mutant: no reply treated like a status other than 200.
PostNoReplyRetried(t) ==
  /\ "noreply" \in PostReplies
  /\ At(t, "posting")
  /\ DecLoad(sel[t])
  /\ NewTurn(t)
  /\ Goto(t, "choose")
  /\ UNCHANGED <<online, offline, mtx, num, idx, minLoad, answer, hpc, failed,
                 requests, signals, ghosts>>

\* No reply: no connection, a broken one, or the client's read timeout.
PostNoReply(t) ==
  /\ "noreply" \in PostReplies
  /\ At(t, "posting")
  /\ Goto(t, "offline")
  /\ UNCHANGED <<online, offline, load, mtx, locals, answer, hpc, failed,
                 requests, signals, ghosts>>

OfflineLock(t) ==
  /\ At(t, "offline")
  /\ Lock(t)
  /\ Goto(t, "offlining")
  /\ UNCHANGED <<online, offline, load, locals, answer, hpc, failed, requests,
                 signals, ghosts>>

\* Mutant: the machine joins offline even when it was not found in online.
OfflineMachineAlways(t) ==
  /\ At(t, "offlining")
  /\ \/ \E i \in DOMAIN online :
          /\ online[i] = sel[t]
          /\ load' = [load EXCEPT ![sel[t]] = 0]
          /\ overwritten' = overwritten \cup {sel[t]}
          /\ online' = RemoveAt(online, i)
     \/ /\ \A i \in DOMAIN online : online[i] # sel[t]
        /\ UNCHANGED <<online, load, overwritten>>
  /\ offline' = Append(offline, sel[t])
  /\ Unlock
  /\ failed' = [failed EXCEPT ![t] = @ \cup {sel[t]}]
  /\ NewTurn(t)
  /\ Goto(t, "show")
  /\ UNCHANGED <<num, idx, minLoad, answer, hpc, requests, signals, calm>>

\* Mutant: the head of online goes down instead of the machine asked for.
OfflineMachineHead(t) ==
  /\ At(t, "offlining")
  /\ IF Len(online) > 0
       THEN /\ load' = [load EXCEPT ![sel[t]] = 0]
            /\ overwritten' = overwritten \cup {sel[t]}
            /\ online' = Tail(online)
            /\ offline' = Append(offline, Head(online))
       ELSE UNCHANGED <<online, offline, load, overwritten>>
  /\ Unlock
  /\ failed' = [failed EXCEPT ![t] = @ \cup {sel[t]}]
  /\ NewTurn(t)
  /\ Goto(t, "show")
  /\ UNCHANGED <<num, idx, minLoad, answer, hpc, requests, signals, calm>>

\* OfflineMachine: the first position of `which' in online, if there is one.
OfflineMachine(t) ==
  /\ At(t, "offlining")
  /\ \/ \E i \in DOMAIN online :
          /\ online[i] = sel[t]
          /\ \A j \in 1 .. i - 1 : online[j] # sel[t]
          /\ load' = [load EXCEPT ![sel[t]] = 0]
          /\ overwritten' = overwritten \cup {sel[t]}
          /\ online' = RemoveAt(online, i)
          /\ offline' = Append(offline, sel[t])
     \/ /\ \A i \in DOMAIN online : online[i] # sel[t]
        /\ UNCHANGED <<online, offline, load, overwritten>>
  /\ Unlock
  /\ failed' = [failed EXCEPT ![t] = @ \cup {sel[t]}]
  /\ NewTurn(t)
  /\ Goto(t, "show")
  /\ UNCHANGED <<num, idx, minLoad, answer, hpc, requests, signals, calm>>

\* ShowMachines reads both lists under mtx, and the loop turns again: its whole
\* section is one step because it changes nothing and nobody waits in it.
ShowMachines(t) ==
  /\ At(t, "show")
  /\ mtx = NoThread
  /\ Goto(t, "choose")
  /\ UNCHANGED <<online, offline, load, mtx, locals, answer, hpc, failed,
                 requests, signals, ghosts>>

-----------------------------------------------------------------------------
(***************************************************************************)
(* SIGQUIT.  The kernel gives the signal to the main thread unless that    *)
(* one is in the handler, where the signal is masked, and then to any      *)
(* other thread where it is not; the handler runs on top of whatever that  *)
(* thread was doing.                                                       *)
(***************************************************************************)
Signal(p) ==
  /\ signals < MaxSignals
  /\ hpc[p] = "none"
  /\ p = Main \/ hpc[Main] # "none"
  /\ signals' = signals + 1
  /\ hpc' = [hpc EXCEPT ![p] = "lock"]
  /\ UNCHANGED <<online, offline, load, mtx, pc, locals, answer, failed,
                 requests, ghosts>>

\* Mutant: the handler does not lock mtx.
OnlineLockMissing(p) ==
  /\ hpc[p] = "lock"
  /\ hpc' = [hpc EXCEPT ![p] = "in"]
  /\ UNCHANGED <<online, offline, load, mtx, pc, locals, answer, failed,
                 requests, signals, ghosts>>

OnlineLock(p) ==
  /\ hpc[p] = "lock"
  /\ Lock(p)
  /\ hpc' = [hpc EXCEPT ![p] = "in"]
  /\ UNCHANGED <<online, offline, load, pc, locals, answer, failed, requests,
                 signals, ghosts>>

OnlineMachine(p) ==
  /\ hpc[p] = "in"
  /\ online' = online \o offline
  /\ offline' = << >>
  /\ Unlock
  /\ hpc' = [hpc EXCEPT ![p] = "none"]
  /\ failed' = [t \in Threads |-> {}]
  /\ UNCHANGED <<load, pc, locals, answer, requests, signals, ghosts>>

-----------------------------------------------------------------------------
SmartChoice(t) ==
  \/ SmartChoiceLock(t) \/ SmartChoiceEmpty(t)
  \/ UpdateStatus(t) \/ UpdateStatusThrows(t)
  \/ ScanStart(t) \/ ScanStep(t) \/ SmartChoiceUnlock(t)

Judge(t) ==
  \/ SmartChoice(t)
  \/ StartPost(t) \/ PostOk(t) \/ PostError(t) \/ PostNoReply(t)
  \/ OfflineLock(t) \/ OfflineMachine(t) \/ ShowMachines(t)

Recovery(p) == OnlineLock(p) \/ OnlineMachine(p)

Next ==
  \/ \E t \in Threads : Request(t) \/ Judge(t)
  \/ \E p \in Processes : Signal(p) \/ Recovery(p)

Spec == Init /\ [][Next]_vars

(***************************************************************************)
(* A thread that can run is eventually run, and a request to a compile     *)
(* server eventually has an outcome: the HTTP client gives up by itself    *)
(* after its connection and read timeouts.  Nothing makes clients send     *)
(* requests or operators send signals.                                     *)
(***************************************************************************)
FairSpec ==
  /\ Spec
  /\ \A t \in Threads : WF_vars(Judge(t))
  /\ \A p \in Processes : WF_vars(Recovery(p))

-----------------------------------------------------------------------------
(***************************************************************************)
(* Properties.                                                             *)
(***************************************************************************)
OnlineSet  == ToSet(online)
OfflineSet == ToSet(offline)

\* Worker t is between a lock() and the unlock() that goes with it.
InCS(t) == pc[t] \in {"refresh", "scan", "offlining"}

\* No machine is ever lost or listed twice: whatever the order in which judges
\* put machines offline and recoveries put them online, each machine is at one
\* position of one of the two lists (OfflineMachine, OnlineMachine).
MachinesPartitioned ==
  /\ IsInjective(online)
  /\ IsInjective(offline)
  /\ OnlineSet \cap OfflineSet = {}
  /\ OnlineSet \cup OfflineSet = Machines

\* The critical sections of mtx exclude each other, those of the signal
\* handler from those of the thread it interrupted included.
MutualExclusion ==
  /\ \A t \in Threads : InCS(t) => mtx = t
  /\ \A p \in Processes : hpc[p] = "in" => mtx = p
  /\ \A t \in Threads : InCS(t) => hpc[t] # "in"

\* SmartChoice indexes online with the size it read at its beginning, across
\* the network requests of the refresh: the list has that size to the end, and
\* the machine chosen so far is on it.  What Judge keeps of the choice after
\* the unlock is a configured machine.
SnapshotStable ==
  \A t \in Threads :
    /\ pc[t] \in {"refresh", "scan"} =>
         num[t] = Len(online) /\ idx[t] \in 1 .. num[t] + 1
    /\ pc[t] = "scan" => sel[t] \in OnlineSet
    /\ pc[t] \in {"chosen", "posting", "offline", "offlining"} =>
         sel[t] \in Machines

\* A judge that got no reply from a machine, and put it offline, does not go
\* back to it unless a recovery came in between ("try another machine"):
\* nothing else brings a machine back online.
NeverRetriesFailed ==
  \A t \in Threads :
    /\ failed[t] \cap OnlineSet = {}
    /\ pc[t] \in {"scan", "chosen", "posting"} => sel[t] \notin failed[t]

\* When no refresh throws, mtx has a holder only while that holder is in a
\* critical section: no path of SmartChoice, OfflineMachine or OnlineMachine
\* leaves without its unlock().
LockIsReleased ==
  "throw" \notin StatusReplies =>
    \/ mtx = NoThread
    \/ mtx \in Threads /\ InCS(mtx)
    \/ hpc[mtx] = "in"

\* SmartChoice returns the machine of least load, the first of them in online:
\* exactly so when no other judge started or ended a post during the scan,
\* which does not hold their locks (IncLoad, DecLoad).
ChoosesLeastLoaded ==
  [][\A t \in Threads :
       pc[t] = "scan" /\ pc'[t] = "chosen" /\ calm =>
         \E i \in DOMAIN online :
           /\ online[i] = sel'[t]
           /\ \A j \in DOMAIN online : load[sel'[t]] <= load[online[j]]
           /\ \A j \in 1 .. i - 1 : load[sel'[t]] < load[online[j]]]_vars

\* Judges that have counted themselves on m and not yet been taken off.
InFlight(m) ==
  {t \in Threads : pc[t] \in {"posting", "offline", "offlining"} /\ sel[t] = m}

\* The load of a machine is the number of judges in flight on it until a
\* refresh or a reset replaces it: every way out of a turn undoes its IncLoad,
\* by a DecLoad or by taking the machine offline (IncLoad, DecLoad).
LoadCountsInFlight ==
  \A m \in Machines \ overwritten :
    load[m] = Cardinality(InFlight(m)) % LoadMod

\* While no refresh overwrites a load, the load of a machine that can be chosen
\* is at most the number of judges that can be in flight: the figure SmartChoice
\* compares never went below zero and around.
LoadNeverWraps == \A m \in OnlineSet : load[m] <= Cardinality(Threads)

\* What a judge may still do, in steps of its own.  A turn of its loop ends with
\* one machine less online, by its own hand or by another judge's, and a machine
\* returns only by a recovery under way or still to come.
Handlers == {p \in Processes : hpc[p] # "none"}
RecoveriesLeft == MaxSignals - signals + Cardinality(Handlers)

\* The machine t works with was put offline by another judge.
Gone(t) ==
  /\ pc[t] \in {"chosen", "posting", "offline", "offlining"}
  /\ sel[t] \notin OnlineSet

TriesLeft(t) ==
  NumMachines * RecoveriesLeft + Len(online) + IF Gone(t) THEN 1 ELSE 0

Turn == 2 * NumMachines + 8

StepsLeft(t) ==
  CASE pc[t] = "idle"      -> 0
    [] pc[t] = "show"      -> Turn
    [] pc[t] = "choose"    -> Turn - 1
    [] pc[t] = "refresh"   -> 2 * num[t] + 7 - idx[t]
    [] pc[t] = "scan"      -> num[t] + 6 - idx[t]
    [] pc[t] = "chosen"    -> 4
    [] pc[t] = "posting"   -> 3
    [] pc[t] = "offline"   -> 2
    [] pc[t] = "offlining" -> 1

Remaining(t) == Turn * TriesLeft(t) + StepsLeft(t)

\* A judge runs out of things to try: each of its steps, in the two loops of
\* SmartChoice and in the loop of Judge, brings its end nearer, and nothing that
\* other judges, recoveries or the clients do puts it off (no status but 200,
\* which leaves the machine online).
JudgesRunOut ==
  [][\A t \in Threads : "error" \notin PostReplies /\ pc[t] # "idle" =>
       /\ Remaining(t)' <= Remaining(t)
       /\ <<pc[t], idx[t]>>' # <<pc[t], idx[t]>> =>
            Remaining(t)' < Remaining(t)]_vars

\* Every judge request is answered: with the result of a compile server or,
\* when all of them are offline, with nothing.
EveryJudgeAnswered ==
  \A t \in Threads : (pc[t] # "idle") ~> (pc[t] = "idle")

\* Every SIGQUIT handler returns, and so the machines come back.
RecoveryCompletes ==
  \A p \in Processes : (hpc[p] # "none") ~> (hpc[p] = "none")

(***************************************************************************)
(* The dispatcher implements JudgeService.                                 *)
(***************************************************************************)
StageOf(place) ==
  CASE place = "idle" -> "idle"
    [] place \in {"chosen", "posting"} -> "trying"
    [] place \in {"offline", "offlining"} -> "suspect"
    [] OTHER -> "waiting"

Service == INSTANCE JudgeService WITH
  up     <- OnlineSet,
  stage  <- [t \in Threads |-> StageOf(pc[t])],
  target <- [t \in Threads |->
               IF StageOf(pc[t]) \in {"trying", "suspect"}
                 THEN {sel[t]} ELSE {}]

\* Seen through the set of online machines, every step of the dispatcher is a
\* step of the service it stands for or changes nothing the service shows.
ImplementsService == Service!Spec

=============================================================================
