------------------------- MODULE JudgeDispatchProofs -------------------------
(***************************************************************************)
(* Proofs about JudgeDispatch, for any number of workers, machines,        *)
(* requests and signals, and for every choice of the replies.              *)
(*                                                                         *)
(* MutualExclusion is proved from the types of pc, hpc and mtx.  It gives  *)
(* SnapshotStable, without which the reads of online by SmartChoice are    *)
(* not even well typed: the three are proved together as IInv.  What the   *)
(* lists contain (MachinesPartitioned), what a judge avoids                *)
(* (NeverRetriesFailed) and the refinement of JudgeService rest on IInv    *)
(* and on the lemmas about lists without repetition of ListLemmas.         *)
(*                                                                         *)
(* The second part is about the mutex and the load counters: every path    *)
(* gives mtx back, every path takes back the load it counted, and the scan *)
(* finds the least.                                                        *)
(*                                                                         *)
(* The last part is what can be proved of termination without fairness:    *)
(* every step of a judge lowers a bounded measure that no other step       *)
(* raises (JudgesRunOut).                                                  *)
(***************************************************************************)
EXTENDS JudgeDispatch, ListLemmas, FiniteSetTheorems

IInv == TypeOK /\ MutualExclusion /\ SnapshotStable

(***************************************************************************)
(* Mutual exclusion.                                                       *)
(***************************************************************************)
\* No thread is in a critical section when the server starts.
LEMMA MutexInit == Init => MutualExclusion
  BY DEF Init, MutualExclusion, InCS, Processes

\* Every lock() is guarded by mtx, every other step leaves a section alone.
LEMMA MutexStep ==
  ASSUME TypeOK, MutualExclusion, [Next]_vars
  PROVE  MutualExclusion'
  <1> USE ThreadsAssumption DEF TypeOK, MutualExclusion, InCS, Processes, PCs,
          HandlerPCs, At, Goto
  <1>1. ASSUME NEW t \in Threads, SmartChoiceLock(t) PROVE MutualExclusion'
    BY <1>1 DEF SmartChoiceLock, Lock
  <1>2. ASSUME NEW t \in Threads, SmartChoiceEmpty(t) PROVE MutualExclusion'
    BY <1>2 DEF SmartChoiceEmpty, Unlock
  <1>3. ASSUME NEW t \in Threads, UpdateStatusThrows(t) PROVE MutualExclusion'
    BY <1>3 DEF UpdateStatusThrows
  <1>4. ASSUME NEW t \in Threads, SmartChoiceUnlock(t) PROVE MutualExclusion'
    BY <1>4 DEF SmartChoiceUnlock, Unlock
  <1>5. ASSUME NEW t \in Threads, OfflineLock(t) PROVE MutualExclusion'
    BY <1>5 DEF OfflineLock, Lock
  <1>6. ASSUME NEW t \in Threads, OfflineMachine(t) PROVE MutualExclusion'
    BY <1>6 DEF OfflineMachine, Unlock
  <1>7. ASSUME NEW p \in Processes, OnlineLock(p) PROVE MutualExclusion'
    BY <1>7 DEF OnlineLock, Lock
  <1>8. ASSUME NEW p \in Processes, OnlineMachine(p) PROVE MutualExclusion'
    BY <1>8 DEF OnlineMachine, Unlock
  <1>9. ASSUME NEW p \in Processes, Signal(p) PROVE MutualExclusion'
    BY <1>9 DEF Signal
  <1>10. ASSUME NEW t \in Threads,
                \/ Request(t) \/ UpdateStatus(t) \/ ScanStart(t) \/ ScanStep(t)
                \/ StartPost(t) \/ PostOk(t) \/ PostError(t) \/ PostNoReply(t)
                \/ ShowMachines(t)
         PROVE  MutualExclusion'
    BY <1>10 DEF Request, UpdateStatus, ScanStart, ScanStep, StartPost, PostOk,
       PostError, PostNoReply, ShowMachines
  <1>11. CASE UNCHANGED vars
    BY <1>11 DEF vars
  <1> QED
    BY <1>1, <1>2, <1>3, <1>4, <1>5, <1>6, <1>7, <1>8, <1>9, <1>10, <1>11
    DEF Next, Judge, SmartChoice, Recovery

(***************************************************************************)
(* The snapshot of online that SmartChoice works with.                     *)
(***************************************************************************)
\* No scan is under way when the server starts.
LEMMA SnapshotInit == Init => SnapshotStable
  BY DEF Init, SnapshotStable

\* Only the holder of mtx changes online, so a scan's size stays right, and
\* the machine a thread chose comes from the list.
LEMMA SnapshotStep ==
  ASSUME TypeOK, MutualExclusion, SnapshotStable, [Next]_vars
  PROVE  SnapshotStable'
  <1> USE ThreadsAssumption DEF TypeOK, SnapshotStable, OnlineSet, PCs, At, Goto
  <1>0. Len(online) \in Nat /\ DOMAIN online = 1 .. Len(online)
    BY LenProperties
  <1>1. ASSUME NEW t \in Threads, SmartChoiceLock(t) PROVE SnapshotStable'
    BY <1>0, <1>1 DEF SmartChoiceLock, Lock
  <1>2. ASSUME NEW t \in Threads, UpdateStatus(t) PROVE SnapshotStable'
    BY <1>0, <1>2 DEF UpdateStatus
  <1>3. ASSUME NEW t \in Threads, ScanStart(t) PROVE SnapshotStable'
    <2>1. 1 \in DOMAIN online
      BY <1>0, <1>3 DEF ScanStart
    <2>2. online[1] \in ToSet(online)
      BY <2>1 DEF ToSet
    <2> QED
      BY <1>0, <1>3, <2>2 DEF ScanStart
  <1>4. ASSUME NEW t \in Threads, ScanStep(t) PROVE SnapshotStable'
    <2>1. online[idx[t]] \in ToSet(online)
      BY <1>0, <1>4 DEF ScanStep, ToSet
    <2> QED
      BY <1>0, <1>4, <2>1 DEF ScanStep
  <1>5. ASSUME NEW t \in Threads,
               SmartChoiceEmpty(t) \/ UpdateStatusThrows(t)
                 \/ SmartChoiceUnlock(t)
        PROVE  SnapshotStable'
    <2>1. \A m \in ToSet(online) : m \in Machines
      BY <1>0, ElementOfSeq DEF ToSet
    <2> QED
      BY <1>5, <2>1 DEF SmartChoiceEmpty, UpdateStatusThrows,
         SmartChoiceUnlock, LeaveSmartChoice
  <1>6. ASSUME NEW t \in Threads,
               \/ Request(t) \/ StartPost(t) \/ PostOk(t) \/ PostError(t)
               \/ PostNoReply(t) \/ OfflineLock(t) \/ ShowMachines(t)
        PROVE  SnapshotStable'
    BY <1>6 DEF Request, StartPost, PostOk, PostError, PostNoReply,
       OfflineLock, ShowMachines, NewTurn, locals
  <1>7. ASSUME NEW t \in Threads, OfflineMachine(t) PROVE SnapshotStable'
    <2>1. \A u \in Threads : pc[u] \notin {"refresh", "scan"}
      BY <1>7 DEF OfflineMachine, MutualExclusion, InCS
    <2> QED
      BY <1>7, <2>1 DEF OfflineMachine, NewTurn
  <1>8. ASSUME NEW p \in Processes, OnlineMachine(p) PROVE SnapshotStable'
    <2>1. \A u \in Threads : pc[u] \notin {"refresh", "scan"}
      BY <1>8 DEF OnlineMachine, MutualExclusion, InCS
    <2> QED
      BY <1>8, <2>1 DEF OnlineMachine, locals
  <1>9. ASSUME NEW p \in Processes, Signal(p) \/ OnlineLock(p)
        PROVE  SnapshotStable'
    BY <1>9 DEF Signal, OnlineLock, locals
  <1>10. CASE UNCHANGED vars
    BY <1>10 DEF vars, locals
  <1> QED
    BY <1>1, <1>2, <1>3, <1>4, <1>5, <1>6, <1>7, <1>8, <1>9, <1>10
    DEF Next, Judge, SmartChoice, Recovery

(***************************************************************************)
(* Types.                                                                  *)
(***************************************************************************)
\* Loads are kept in the width of the counter.
LEMMA LoadsWrap ==
  ASSUME NEW n \in 0 .. LoadMod - 1
  PROVE  /\ (n + 1) % LoadMod \in 0 .. LoadMod - 1
         /\ (n - 1) % LoadMod \in 0 .. LoadMod - 1
  BY LoadAssumption

\* The initial state is well typed.
LEMMA TypeInit == Init => TypeOK
  <1> SUFFICES ASSUME Init PROVE TypeOK
    OBVIOUS
  <1>1. online \in Seq(Machines)
    BY MachinesAssumption DEF Init, Machines
  <1>2. 0 \in 0 .. LoadMod - 1
    BY LoadAssumption
  <1>3. calm \in BOOLEAN
    BY DEF Init
  <1> QED
    BY <1>1, <1>2, <1>3, BoundAssumption
    DEF Init, TypeOK, PCs, HandlerPCs, Answers, Processes

\* Every step keeps the types: the machine it touches is a configured one.
LEMMA TypeStep ==
  ASSUME TypeOK, SnapshotStable, [Next]_vars
  PROVE  TypeOK'
  <1> USE DEF TypeOK, At, Goto, PCs, HandlerPCs, Answers, ghosts
  <1>0. Len(online) \in Nat /\ DOMAIN online = 1 .. Len(online)
        /\ \A i \in 1 .. Len(online) : online[i] \in Machines
    BY LenProperties, ElementOfSeq
  <1>1. ASSUME NEW t \in Threads, Request(t) PROVE TypeOK'
    BY <1>1, BoundAssumption DEF Request, Reply, locals
  <1>2. ASSUME NEW t \in Threads, SmartChoiceLock(t) PROVE TypeOK'
    BY <1>0, <1>2 DEF SmartChoiceLock, Lock, Processes
  <1>3. ASSUME NEW t \in Threads, SmartChoiceEmpty(t) PROVE TypeOK'
    BY <1>3, LoadAssumption
    DEF SmartChoiceEmpty, Unlock, Reply, LeaveSmartChoice
  <1>4. ASSUME NEW t \in Threads, UpdateStatus(t) PROVE TypeOK'
    <2>1. load' \in [Machines -> 0 .. LoadMod - 1]
      BY <1>4, LoadAssumption DEF UpdateStatus
    <2>2. idx' \in [Threads -> Nat]
      BY <1>4 DEF UpdateStatus
    <2>3. overwritten' \in SUBSET Machines
      <3>1. online[idx[t]] \in Machines
        BY <1>0, <1>4 DEF UpdateStatus, SnapshotStable
      <3> QED
        BY <1>4, <3>1 DEF UpdateStatus
    <2> QED
      BY <1>4, <2>1, <2>2, <2>3 DEF UpdateStatus
  <1>5. ASSUME NEW t \in Threads, UpdateStatusThrows(t) PROVE TypeOK'
    BY <1>5, LoadAssumption
    DEF UpdateStatusThrows, Reply, LeaveSmartChoice
  <1>6. ASSUME NEW t \in Threads, ScanStart(t) PROVE TypeOK'
    <2>1. online[1] \in Machines
      BY <1>0, <1>6 DEF ScanStart, SnapshotStable
    <2> QED
      BY <1>6, <2>1 DEF ScanStart
  <1>7. ASSUME NEW t \in Threads, ScanStep(t) PROVE TypeOK'
    <2> DEFINE m == online[idx[t]]
    <2>1. m \in Machines
      BY <1>0, <1>7 DEF ScanStep, SnapshotStable
    <2>2. idx' \in [Threads -> Nat]
      BY <1>7 DEF ScanStep
    <2>3. /\ minLoad' \in [Threads -> 0 .. LoadMod - 1]
          /\ sel' \in [Threads -> Machines \cup {0}]
      <3>1. load[m] \in 0 .. LoadMod - 1
        BY <2>1
      <3>2. CASE minLoad[t] > load[m]
        BY <1>7, <2>1, <3>1, <3>2 DEF ScanStep
      <3>3. CASE ~(minLoad[t] > load[m])
        BY <1>7, <3>3 DEF ScanStep
      <3> QED
        BY <3>2, <3>3
    <2> QED
      BY <1>7, <2>2, <2>3 DEF ScanStep
  <1>8. ASSUME NEW t \in Threads, SmartChoiceUnlock(t) PROVE TypeOK'
    <2>1. calm' \in BOOLEAN
      BY <1>8 DEF SmartChoiceUnlock
    <2>2. minLoad' \in [Threads -> 0 .. LoadMod - 1]
      BY <1>8, LoadAssumption DEF SmartChoiceUnlock, LeaveSmartChoice
    <2> QED
      BY <1>8, <2>1, <2>2 DEF SmartChoiceUnlock, Unlock, LeaveSmartChoice
  <1>9. ASSUME NEW t \in Threads, StartPost(t) PROVE TypeOK'
    <2>1. load' \in [Machines -> 0 .. LoadMod - 1]
      BY <1>9, LoadsWrap DEF StartPost, IncLoad
    <2> QED
      BY <1>9, <2>1 DEF StartPost, locals
  <1>10. ASSUME NEW t \in Threads, PostOk(t) \/ PostError(t) PROVE TypeOK'
    <2>1. load' = [load EXCEPT ![sel[t]] = (@ - 1) % LoadMod]
      BY <1>10 DEF PostOk, PostError, DecLoad
    <2>2. load' \in [Machines -> 0 .. LoadMod - 1]
      BY <2>1, LoadsWrap
    <2> QED
      BY <1>10, <2>2 DEF PostOk, PostError, Reply, NewTurn
  <1>11. ASSUME NEW t \in Threads,
                PostNoReply(t) \/ OfflineLock(t) \/ ShowMachines(t)
         PROVE  TypeOK'
    BY <1>11 DEF PostNoReply, OfflineLock, ShowMachines, Lock, locals, Processes
  <1>12. ASSUME NEW t \in Threads, OfflineMachine(t) PROVE TypeOK'
    <2>1. /\ online' \in Seq(Machines) /\ offline' \in Seq(Machines)
          /\ load' \in [Machines -> 0 .. LoadMod - 1]
          /\ failed' \in [Threads -> SUBSET Machines]
          /\ overwritten' \in SUBSET Machines
      <3>1. CASE \E i \in DOMAIN online :
                   /\ online[i] = sel[t]
                   /\ load' = [load EXCEPT ![sel[t]] = 0]
                   /\ overwritten' = overwritten \cup {sel[t]}
                   /\ online' = RemoveAt(online, i)
                   /\ offline' = Append(offline, sel[t])
        <4>1. PICK i \in DOMAIN online :
                   /\ online[i] = sel[t]
                   /\ load' = [load EXCEPT ![sel[t]] = 0]
                   /\ overwritten' = overwritten \cup {sel[t]}
                   /\ online' = RemoveAt(online, i)
                   /\ offline' = Append(offline, sel[t])
          BY <3>1
        <4>2. sel[t] \in Machines
          BY <1>0, <4>1
        <4>3. online' \in Seq(Machines)
          BY <4>1, RemoveAtIsShift
        <4>4. offline' \in Seq(Machines)
          BY <4>1, <4>2, AppendProperties
        <4> QED
          BY <1>12, <4>1, <4>2, <4>3, <4>4, LoadAssumption DEF OfflineMachine
      <3>2. CASE UNCHANGED <<online, offline, load, overwritten>>
        BY <1>12, <3>2 DEF OfflineMachine, SnapshotStable
      <3> QED
        BY <1>12, <3>1, <3>2 DEF OfflineMachine
    <2> QED
      BY <1>12, <2>1 DEF OfflineMachine, Unlock, NewTurn
  <1>13. ASSUME NEW p \in Processes, Signal(p) \/ OnlineLock(p) PROVE TypeOK'
    <2>1. CASE Signal(p)
      BY <1>13, <2>1, BoundAssumption DEF Signal, locals
    <2>2. CASE OnlineLock(p)
      BY <1>13, <2>2 DEF OnlineLock, Lock, locals
    <2> QED
      BY <1>13, <2>1, <2>2
  <1>14. ASSUME NEW p \in Processes, OnlineMachine(p) PROVE TypeOK'
    <2>1. online' \in Seq(Machines) /\ offline' \in Seq(Machines)
      BY <1>14, ConcatProperties, EmptySeq DEF OnlineMachine
    <2> QED
      BY <1>14, <2>1 DEF OnlineMachine, Unlock, locals
  <1>15. CASE UNCHANGED vars
    BY <1>15 DEF vars, locals
  <1> QED
    BY <1>1, <1>2, <1>3, <1>4, <1>5, <1>6, <1>7, <1>8, <1>9, <1>10, <1>11,
       <1>12, <1>13, <1>14, <1>15
    DEF Next, Judge, SmartChoice, Recovery

\* The three hold together: mutual exclusion protects the snapshot, and the
\* snapshot keeps every read of online within its bounds.
THEOREM DispatchInvariant == Spec => []IInv
  <1>1. Init => IInv
    BY TypeInit, MutexInit, SnapshotInit DEF IInv
  <1>2. IInv /\ [Next]_vars => IInv'
    BY TypeStep, MutexStep, SnapshotStep DEF IInv
  <1> QED
    BY <1>1, <1>2, PTL DEF Spec

\* Every variable keeps its type; in particular every machine index that
\* Judge and SmartChoice use is one of a configured machine.
THEOREM TypeCorrect == Spec => []TypeOK
  <1>1. IInv => TypeOK
    BY DEF IInv
  <1> QED
    BY <1>1, DispatchInvariant, PTL

\* At most one thread, or the handler on top of another, is in a critical
\* section of mtx.
THEOREM MutexCorrect == Spec => []MutualExclusion
  <1>1. IInv => MutualExclusion
    BY DEF IInv
  <1> QED
    BY <1>1, DispatchInvariant, PTL

\* The list SmartChoice walks keeps its size from the lock to the unlock.
THEOREM SnapshotCorrect == Spec => []SnapshotStable
  <1>1. IInv => SnapshotStable
    BY DEF IInv
  <1> QED
    BY <1>1, DispatchInvariant, PTL

(***************************************************************************)
(* What the two lists hold.                                                *)
(***************************************************************************)

\* OfflineMachine either moves its machine or finds it gone.
LEMMA OfflineMachineMoves ==
  ASSUME TypeOK, MachinesPartitioned, NEW t \in Threads, OfflineMachine(t)
  PROVE  /\ OnlineSet' = OnlineSet \ {sel[t]}
         /\ IsInjective(online') /\ IsInjective(offline')
         /\ OnlineSet' \cap OfflineSet' = {}
         /\ OnlineSet' \cup OfflineSet' = Machines
  <1> USE DEF OnlineSet, OfflineSet
  <1>0. /\ IsInjective(online) /\ IsInjective(offline)
        /\ online \in Seq(Machines) /\ offline \in Seq(Machines)
        /\ ToSet(online) \cap ToSet(offline) = {}
        /\ ToSet(online) \cup ToSet(offline) = Machines
    BY DEF TypeOK, MachinesPartitioned
  <1>1. CASE \E i \in DOMAIN online :
               /\ online[i] = sel[t]
               /\ online' = RemoveAt(online, i)
               /\ offline' = Append(offline, sel[t])
    <2>1. PICK i \in DOMAIN online :
               /\ online[i] = sel[t]
               /\ online' = RemoveAt(online, i)
               /\ offline' = Append(offline, sel[t])
      BY <1>1
    <2>2. sel[t] \in ToSet(online)
      BY <2>1 DEF ToSet
    <2>3. /\ IsInjective(online')
          /\ ToSet(online') = ToSet(online) \ {sel[t]}
      BY <1>0, <2>1, RemoveAtDistinct
    <2>4. sel[t] \in Machines /\ sel[t] \notin ToSet(offline)
      BY <1>0, <2>2
    <2>5. /\ IsInjective(offline')
          /\ ToSet(offline') = ToSet(offline) \cup {sel[t]}
      BY <1>0, <2>1, <2>4, AppendDistinct
    <2> QED
      BY <1>0, <2>2, <2>3, <2>5
  <1>2. CASE /\ \A i \in DOMAIN online : online[i] # sel[t]
             /\ UNCHANGED <<online, offline>>
    <2>1. sel[t] \notin ToSet(online)
      BY <1>2 DEF ToSet
    <2> QED
      BY <1>0, <1>2, <2>1
  <1> QED
    BY <1>1, <1>2 DEF OfflineMachine

\* OnlineMachine leaves every machine online and none offline.
LEMMA OnlineMachineRestores ==
  ASSUME TypeOK, MachinesPartitioned, NEW p \in Processes, OnlineMachine(p)
  PROVE  /\ OnlineSet' = Machines /\ OfflineSet' = {}
         /\ IsInjective(online') /\ IsInjective(offline')
  <1>1. /\ IsInjective(online) /\ IsInjective(offline)
        /\ online \in Seq(Machines) /\ offline \in Seq(Machines)
        /\ ToSet(online) \cap ToSet(offline) = {}
        /\ ToSet(online) \cup ToSet(offline) = Machines
    BY DEF TypeOK, MachinesPartitioned, OnlineSet, OfflineSet
  <1>2. online' = online \o offline /\ offline' = << >>
    BY DEF OnlineMachine
  <1>3. IsInjective(online') /\ ToSet(online') = Machines
    <2>1. /\ IsInjective(online \o offline)
          /\ ToSet(online \o offline) = ToSet(online) \cup ToSet(offline)
      BY <1>1, ConcatDistinct
    <2> QED
      BY <1>1, <1>2, <2>1
  <1>4. IsInjective(offline') /\ ToSet(offline') = {}
    BY <1>2 DEF IsInjective, ToSet
  <1> QED
    BY <1>3, <1>4 DEF OnlineSet, OfflineSet

\* Every other step leaves both lists alone.
LEMMA OtherStepsKeepLists ==
  ASSUME [Next]_vars,
         \A t \in Threads : ~OfflineMachine(t),
         \A p \in Processes : ~OnlineMachine(p)
  PROVE  UNCHANGED <<online, offline>>
  BY DEF Next, Judge, SmartChoice, Recovery, vars, Request, SmartChoiceLock,
     SmartChoiceEmpty, UpdateStatus, UpdateStatusThrows, ScanStart, ScanStep,
     SmartChoiceUnlock, StartPost, PostOk, PostError, PostNoReply, OfflineLock,
     ShowMachines, Signal, OnlineLock

\* LoadConf lists every machine once, all of them online.
LEMMA PartitionInit == Init => MachinesPartitioned
  <1> SUFFICES ASSUME Init PROVE MachinesPartitioned
    OBVIOUS
  <1>1. online = [i \in 1 .. NumMachines |-> i - 1] /\ offline = << >>
    BY DEF Init
  <1>2. IsInjective(online) /\ IsInjective(offline)
    BY <1>1, MachinesAssumption DEF IsInjective
  <1>3. ToSet(offline) = {}
    BY <1>1 DEF ToSet
  <1>4. ToSet(online) = Machines
    <2>1. ASSUME NEW m \in Machines PROVE m \in ToSet(online)
      <3>1. m + 1 \in DOMAIN online /\ online[m + 1] = m
        BY <1>1, MachinesAssumption DEF Machines
      <3> QED
        BY <3>1 DEF ToSet
    <2>2. ASSUME NEW i \in DOMAIN online PROVE online[i] \in Machines
      BY <1>1, MachinesAssumption DEF Machines
    <2> QED
      BY <2>1, <2>2 DEF ToSet
  <1> QED
    BY <1>2, <1>3, <1>4 DEF MachinesPartitioned, OnlineSet, OfflineSet

\* The two steps that move machines keep the lists a partition.
LEMMA PartitionStep ==
  ASSUME TypeOK, MachinesPartitioned, [Next]_vars
  PROVE  MachinesPartitioned'
  <1>1. ASSUME NEW t \in Threads, OfflineMachine(t)
        PROVE  MachinesPartitioned'
    BY <1>1, OfflineMachineMoves DEF MachinesPartitioned
  <1>2. ASSUME NEW p \in Processes, OnlineMachine(p)
        PROVE  MachinesPartitioned'
    <2>1. /\ OnlineSet' = Machines /\ OfflineSet' = {}
          /\ IsInjective(online') /\ IsInjective(offline')
      BY <1>2, OnlineMachineRestores
    <2> QED
      BY <2>1 DEF MachinesPartitioned, Machines
  <1>3. CASE UNCHANGED <<online, offline>>
    BY <1>3 DEF MachinesPartitioned, OnlineSet, OfflineSet
  <1> QED
    BY <1>1, <1>2, <1>3, OtherStepsKeepLists

\* No machine is lost from the two lists, listed twice or invented, for any
\* number of machines and any interleaving of judges and recoveries.
THEOREM PartitionCorrect == Spec => []MachinesPartitioned
  <1>1. TypeOK /\ MachinesPartitioned /\ [Next]_vars => MachinesPartitioned'
    BY PartitionStep
  <1> QED
    BY <1>1, PartitionInit, TypeCorrect, PTL DEF Spec

(***************************************************************************)
(* A judge does not return to a machine it saw fail.                       *)
(***************************************************************************)
\* A machine that failed leaves online and only a recovery, which empties
\* failed, brings it back.
LEMMA FailedStep ==
  ASSUME IInv, MachinesPartitioned, NeverRetriesFailed, [Next]_vars
  PROVE  NeverRetriesFailed'
  <1> USE DEF IInv, TypeOK, NeverRetriesFailed, At, Goto, PCs
  <1>1. ASSUME NEW t \in Threads, OfflineMachine(t)
        PROVE  NeverRetriesFailed'
    <2>1. OnlineSet' = OnlineSet \ {sel[t]}
      BY <1>1, OfflineMachineMoves
    <2> QED
      BY <1>1, <2>1 DEF OfflineMachine, NewTurn
  <1>2. ASSUME NEW p \in Processes, OnlineMachine(p)
        PROVE  NeverRetriesFailed'
    BY <1>2 DEF OnlineMachine
  <1>3. ASSUME NEW t \in Threads, ScanStart(t) \/ ScanStep(t)
        PROVE  NeverRetriesFailed'
    <2>1. sel'[t] \in OnlineSet' /\ OnlineSet' = OnlineSet
      <3>1. SnapshotStable'
        BY <1>3, SnapshotStep DEF Next, Judge, SmartChoice
      <3>2. pc'[t] = "scan"
        BY <1>3 DEF ScanStart, ScanStep
      <3>3. OnlineSet' = OnlineSet
        BY <1>3 DEF ScanStart, ScanStep, OnlineSet
      <3> QED
        BY <3>1, <3>2, <3>3 DEF SnapshotStable
    <2>2. \A u \in Threads \ {t} : sel'[u] = sel[u] /\ pc'[u] = pc[u]
      BY <1>3 DEF ScanStart, ScanStep
    <2>3. failed' = failed
      BY <1>3 DEF ScanStart, ScanStep
    <2> QED
      BY <2>1, <2>2, <2>3
  <1>4. ASSUME NEW t \in Threads,
               \/ SmartChoiceLock(t) \/ SmartChoiceEmpty(t) \/ UpdateStatus(t)
               \/ UpdateStatusThrows(t) \/ SmartChoiceUnlock(t)
        PROVE  NeverRetriesFailed'
    BY <1>4 DEF SmartChoiceLock, SmartChoiceEmpty, UpdateStatus, OnlineSet,
       UpdateStatusThrows, SmartChoiceUnlock
  <1>5. ASSUME NEW t \in Threads,
               \/ Request(t) \/ StartPost(t) \/ PostOk(t) \/ PostError(t)
               \/ PostNoReply(t) \/ OfflineLock(t) \/ ShowMachines(t)
        PROVE  NeverRetriesFailed'
    BY <1>5 DEF Request, StartPost, PostOk, PostError, PostNoReply, OnlineSet,
       OfflineLock, ShowMachines, NewTurn, locals
  <1>6. ASSUME NEW p \in Processes, Signal(p) \/ OnlineLock(p)
        PROVE  NeverRetriesFailed'
    BY <1>6 DEF Signal, OnlineLock, locals, OnlineSet
  <1>7. CASE UNCHANGED vars
    BY <1>7 DEF vars, locals, OnlineSet
  <1> QED
    BY <1>1, <1>2, <1>3, <1>4, <1>5, <1>6, <1>7
    DEF Next, Judge, SmartChoice, Recovery

\* "Request failed: try another machine": the next choices of the same judge
\* avoid the machine until a recovery.
THEOREM FailedCorrect == Spec => []NeverRetriesFailed
  <1>1. Init => NeverRetriesFailed
    BY DEF Init, NeverRetriesFailed
  <1>2. /\ IInv /\ MachinesPartitioned /\ NeverRetriesFailed /\ [Next]_vars
        => NeverRetriesFailed'
    BY FailedStep
  <1> QED
    BY <1>1, <1>2, DispatchInvariant, PartitionCorrect, PTL DEF Spec

(***************************************************************************)
(* The dispatcher implements JudgeService.                                 *)
(***************************************************************************)
\* The initial states map to initial states of the service.
LEMMA RefinementInit == Init => Service!Init
  <1> SUFFICES ASSUME Init PROVE Service!Init
    OBVIOUS
  <1>1. OnlineSet = Machines
    BY PartitionInit DEF MachinesPartitioned, OnlineSet, OfflineSet, Init, ToSet
  <1> QED
    BY <1>1 DEF Init, Service!Init, StageOf

\* The shown state after a step of thread t that moves its judge from place a
\* to place b and leaves the other threads where they were.
Moves(t, a, b) ==
  /\ pc[t] = a
  /\ pc' = [pc EXCEPT ![t] = b]
  /\ \A u \in Threads \ {t} : sel'[u] = sel[u]

ShownStage  == [t \in Threads |-> StageOf(pc[t])]
ShownTarget == [t \in Threads |->
                  IF StageOf(pc[t]) \in {"trying", "suspect"}
                    THEN {sel[t]} ELSE {}]

Shows(t, a, b) ==
  /\ ShownStage[t] = StageOf(a)
  /\ ShownTarget[t] =
       IF StageOf(a) \in {"trying", "suspect"} THEN {sel[t]} ELSE {}
  /\ ShownStage' = [ShownStage EXCEPT ![t] = StageOf(b)]
  /\ ShownTarget' = [ShownTarget EXCEPT ![t] =
       IF StageOf(b) \in {"trying", "suspect"} THEN {sel'[t]} ELSE {}]

\* A move of one judge changes what is shown of that thread and no other.
LEMMA ShownStep ==
  ASSUME TypeOK, NEW t \in Threads, NEW a \in PCs, NEW b \in PCs, Moves(t, a, b)
  PROVE  Shows(t, a, b)
  <1> USE DEF TypeOK, Moves
  <1>1. pc'[t] = b /\ \A u \in Threads \ {t} : pc'[u] = pc[u]
    OBVIOUS
  <1>2. ShownStage' = [u \in Threads |-> StageOf(pc'[u])]
    BY DEF ShownStage, StageOf
  <1>3. ShownTarget' = [u \in Threads |->
                          IF StageOf(pc'[u]) \in {"trying", "suspect"}
                            THEN {sel'[u]} ELSE {}]
    BY DEF ShownTarget, StageOf
  <1> HIDE DEF StageOf
  <1> QED
    BY <1>1, <1>2, <1>3 DEF ShownStage, ShownTarget, Shows

\* The stage shown for each place of Judge.
LEMMA StageValues ==
  /\ StageOf("idle") = "idle"
  /\ StageOf("choose") = "waiting" /\ StageOf("refresh") = "waiting"
  /\ StageOf("scan") = "waiting"   /\ StageOf("show") = "waiting"
  /\ StageOf("chosen") = "trying"  /\ StageOf("posting") = "trying"
  /\ StageOf("offline") = "suspect" /\ StageOf("offlining") = "suspect"
  BY DEF StageOf

\* A step of a judge between two places that show the same, and that keeps its
\* machine if it shows one, changes nothing the service shows.
LEMMA SilentMove ==
  ASSUME TypeOK, NEW t \in Threads, NEW a \in PCs, NEW b \in PCs, Moves(t, a, b),
         StageOf(a) = StageOf(b),
         StageOf(a) = "waiting" \/ sel' = sel,
         UNCHANGED <<online, answer>>
  PROVE  UNCHANGED <<OnlineSet, ShownStage, ShownTarget, answer>>
  <1>1. Shows(t, a, b)
    BY ShownStep
  <1>2. ShownStage' = ShownStage
    BY <1>1 DEF Shows, ShownStage
  <1>3. ShownTarget' = ShownTarget
    BY <1>1 DEF Shows, ShownTarget
  <1> QED
    BY <1>2, <1>3 DEF OnlineSet

\* Every step of the dispatcher is a step of the service or a stutter.
LEMMA RefinementStep ==
  ASSUME IInv, MachinesPartitioned, [Next]_vars
  PROVE  [Service!Next]_(Service!vars)
  <1> DEFINE Silent == UNCHANGED <<OnlineSet, ShownStage, ShownTarget, answer>>
             ServiceStep == [Service!Next]_(Service!vars)
  <1> USE StageValues
  <1>s. Silent => ServiceStep
    BY DEF Service!vars, ShownStage, ShownTarget
  <1>t. TypeOK
    BY DEF IInv
  <1>1. ASSUME NEW t \in Threads, Request(t) PROVE ServiceStep
    <2>1. Moves(t, "idle", "choose") /\ online' = online
      BY <1>1 DEF Request, At, Goto, Moves, locals
    <2>2. /\ ShownStage[t] = "idle" /\ ShownTarget[t] = {}
          /\ ShownStage' = [ShownStage EXCEPT ![t] = "waiting"]
          /\ ShownTarget' = [ShownTarget EXCEPT ![t] = {}]
      <3>1. Shows(t, "idle", "choose")
        BY <1>t, <2>1, ShownStep DEF PCs
      <3> QED
        BY <2>1, <3>1 DEF Shows
    <2>3. ShownTarget' = ShownTarget /\ OnlineSet' = OnlineSet
      BY <2>1, <2>2 DEF ShownTarget, OnlineSet
    <2>4. Service!Submit(t)
      BY <1>1, <2>2, <2>3 DEF Service!Submit, Service!Move, Service!Answer,
         Request, Reply, ShownStage, ShownTarget
    <2> QED
      BY <2>4 DEF Service!Next
  <1>2. ASSUME NEW t \in Threads, SmartChoiceLock(t) PROVE ServiceStep
    <2>1. Moves(t, "choose", "refresh") /\ UNCHANGED <<online, answer>>
      BY <1>2 DEF SmartChoiceLock, At, Goto, Moves
    <2>2. Silent
      BY <1>t, <2>1, SilentMove DEF PCs
    <2> QED
      BY <2>2, <1>s
  <1>3. ASSUME NEW t \in Threads, SmartChoiceEmpty(t) PROVE ServiceStep
    <2>1. Moves(t, "refresh", "idle") /\ online' = online
      BY <1>3 DEF SmartChoiceEmpty, At, Goto, Moves
    <2>2. /\ ShownStage[t] = "waiting" /\ ShownTarget[t] = {}
          /\ ShownStage' = [ShownStage EXCEPT ![t] = "idle"]
          /\ ShownTarget' = [ShownTarget EXCEPT ![t] = {}]
      <3>1. Shows(t, "refresh", "idle")
        BY <1>t, <2>1, ShownStep DEF PCs
      <3> QED
        BY <2>1, <3>1 DEF Shows
    <2>3. ShownTarget' = ShownTarget /\ OnlineSet' = OnlineSet
      BY <2>1, <2>2 DEF ShownTarget, OnlineSet
    <2>4. OnlineSet = {}
      <3>1. Len(online) = 0
        BY <1>3 DEF SmartChoiceEmpty, At, IInv, SnapshotStable
      <3>2. DOMAIN online = 1 .. Len(online)
        BY <1>t, LenProperties DEF TypeOK
      <3> QED
        BY <3>1, <3>2 DEF OnlineSet, ToSet
    <2>5. Service!GiveUp(t)
      BY <1>3, <2>2, <2>3, <2>4 DEF Service!GiveUp, Service!Move,
         Service!Answer, SmartChoiceEmpty, Reply, ShownStage, ShownTarget
    <2> QED
      BY <2>5 DEF Service!Next
  <1>4. ASSUME NEW t \in Threads, UpdateStatus(t) PROVE ServiceStep
    <2>1. Silent
      BY <1>4 DEF UpdateStatus, OnlineSet, ShownStage, ShownTarget
    <2> QED
      BY <2>1, <1>s
  <1>5. ASSUME NEW t \in Threads, UpdateStatusThrows(t) PROVE ServiceStep
    <2>1. Moves(t, "refresh", "idle") /\ online' = online
      BY <1>5 DEF UpdateStatusThrows, At, Goto, Moves
    <2>2. /\ ShownStage[t] = "waiting" /\ ShownTarget[t] = {}
          /\ ShownStage' = [ShownStage EXCEPT ![t] = "idle"]
          /\ ShownTarget' = [ShownTarget EXCEPT ![t] = {}]
      <3>1. Shows(t, "refresh", "idle")
        BY <1>t, <2>1, ShownStep DEF PCs
      <3> QED
        BY <2>1, <3>1 DEF Shows
    <2>3. ShownTarget' = ShownTarget /\ OnlineSet' = OnlineSet
      BY <2>1, <2>2 DEF ShownTarget, OnlineSet
    <2>4. Service!Fail(t)
      BY <1>5, <2>2, <2>3 DEF Service!Fail, Service!Move, Service!Answer,
         UpdateStatusThrows, Reply, ShownStage, ShownTarget
    <2> QED
      BY <2>4 DEF Service!Next
  <1>6. ASSUME NEW t \in Threads, ScanStart(t) PROVE ServiceStep
    <2>1. Moves(t, "refresh", "scan") /\ UNCHANGED <<online, answer>>
      BY <1>6, <1>t DEF ScanStart, At, Goto, Moves, TypeOK
    <2>2. Silent
      BY <1>t, <2>1, SilentMove DEF PCs
    <2> QED
      BY <2>2, <1>s
  <1>7. ASSUME NEW t \in Threads, ScanStep(t) PROVE ServiceStep
    <2>1. Moves(t, "scan", "scan") /\ UNCHANGED <<online, answer>>
      BY <1>7, <1>t DEF ScanStep, At, Moves, TypeOK
    <2>2. Silent
      BY <1>t, <2>1, SilentMove DEF PCs
    <2> QED
      BY <2>2, <1>s
  <1>8. ASSUME NEW t \in Threads, SmartChoiceUnlock(t) PROVE ServiceStep
    <2>1. Moves(t, "scan", "chosen") /\ UNCHANGED <<online, answer, sel>>
      BY <1>8 DEF SmartChoiceUnlock, At, Goto, Moves
    <2>2. /\ ShownStage[t] = "waiting"
          /\ ShownStage' = [ShownStage EXCEPT ![t] = "trying"]
          /\ ShownTarget' = [ShownTarget EXCEPT ![t] = {sel[t]}]
      <3>1. Shows(t, "scan", "chosen")
        BY <1>t, <2>1, ShownStep DEF PCs
      <3> QED
        BY <2>1, <3>1 DEF Shows
    <2>3. sel[t] \in OnlineSet /\ OnlineSet' = OnlineSet
      BY <1>8, <2>1 DEF SmartChoiceUnlock, At, IInv, SnapshotStable, OnlineSet
    <2>4. Service!Try(t)
      BY <2>1, <2>2, <2>3 DEF Service!Try, Service!Move, ShownStage, ShownTarget
    <2> QED
      BY <2>4 DEF Service!Next
  <1>9. ASSUME NEW t \in Threads, StartPost(t) PROVE ServiceStep
    <2>1. Moves(t, "chosen", "posting") /\ UNCHANGED <<online, answer, sel>>
      BY <1>9 DEF StartPost, At, Goto, Moves, locals
    <2>2. Silent
      BY <1>t, <2>1, SilentMove DEF PCs
    <2> QED
      BY <2>2, <1>s
  <1>10. ASSUME NEW t \in Threads, PostOk(t) PROVE ServiceStep
    <2>1. Moves(t, "posting", "idle") /\ online' = online
      BY <1>10, <1>t DEF PostOk, At, Goto, Moves, NewTurn, TypeOK
    <2>2. /\ ShownStage[t] = "trying"
          /\ ShownStage' = [ShownStage EXCEPT ![t] = "idle"]
          /\ ShownTarget' = [ShownTarget EXCEPT ![t] = {}]
      <3>1. Shows(t, "posting", "idle")
        BY <1>t, <2>1, ShownStep DEF PCs
      <3> QED
        BY <2>1, <3>1 DEF Shows
    <2>3. OnlineSet' = OnlineSet
      BY <2>1 DEF OnlineSet
    <2>4. Service!Succeed(t)
      BY <1>10, <2>2, <2>3 DEF Service!Succeed, Service!Move, Service!Answer,
         Service!Release, PostOk, Reply, ShownStage, ShownTarget
    <2> QED
      BY <2>4 DEF Service!Next
  <1>11. ASSUME NEW t \in Threads, PostError(t) PROVE ServiceStep
    <2>1. Moves(t, "posting", "choose") /\ UNCHANGED <<online, answer>>
      BY <1>11, <1>t DEF PostError, At, Goto, Moves, NewTurn, TypeOK
    <2>2. /\ ShownStage[t] = "trying"
          /\ ShownStage' = [ShownStage EXCEPT ![t] = "waiting"]
          /\ ShownTarget' = [ShownTarget EXCEPT ![t] = {}]
      <3>1. Shows(t, "posting", "choose")
        BY <1>t, <2>1, ShownStep DEF PCs
      <3> QED
        BY <2>1, <3>1 DEF Shows
    <2>3. OnlineSet' = OnlineSet
      BY <2>1 DEF OnlineSet
    <2>4. Service!Refused(t)
      BY <2>1, <2>2, <2>3 DEF Service!Refused, Service!Move, Service!Release,
         ShownStage, ShownTarget
    <2> QED
      BY <2>4 DEF Service!Next
  <1>12. ASSUME NEW t \in Threads, PostNoReply(t) PROVE ServiceStep
    <2>1. Moves(t, "posting", "offline") /\ UNCHANGED <<online, answer, sel>>
      BY <1>12 DEF PostNoReply, At, Goto, Moves, locals
    <2>2. /\ ShownStage[t] = "trying" /\ ShownTarget[t] = {sel[t]}
          /\ ShownStage' = [ShownStage EXCEPT ![t] = "suspect"]
          /\ ShownTarget' = [ShownTarget EXCEPT ![t] = {sel[t]}]
      <3>1. Shows(t, "posting", "offline")
        BY <1>t, <2>1, ShownStep DEF PCs
      <3> QED
        BY <2>1, <3>1 DEF Shows
    <2>3. ShownTarget' = ShownTarget /\ OnlineSet' = OnlineSet
      BY <2>1, <2>2 DEF ShownTarget, OnlineSet
    <2>4. Service!Suspect(t)
      BY <2>1, <2>2, <2>3 DEF Service!Suspect, Service!Move,
         ShownStage, ShownTarget
    <2> QED
      BY <2>4 DEF Service!Next
  <1>13. ASSUME NEW t \in Threads, OfflineLock(t) PROVE ServiceStep
    <2>1. Moves(t, "offline", "offlining") /\ UNCHANGED <<online, answer, sel>>
      BY <1>13 DEF OfflineLock, At, Goto, Moves, locals
    <2>2. Silent
      BY <1>t, <2>1, SilentMove DEF PCs
    <2> QED
      BY <2>2, <1>s
  <1>14. ASSUME NEW t \in Threads, OfflineMachine(t) PROVE ServiceStep
    <2>1. Moves(t, "offlining", "show") /\ answer' = answer
      BY <1>14, <1>t DEF OfflineMachine, At, Goto, Moves, NewTurn, TypeOK
    <2>2. /\ ShownStage[t] = "suspect" /\ ShownTarget[t] = {sel[t]}
          /\ ShownStage' = [ShownStage EXCEPT ![t] = "waiting"]
          /\ ShownTarget' = [ShownTarget EXCEPT ![t] = {}]
      <3>1. Shows(t, "offlining", "show")
        BY <1>t, <2>1, ShownStep DEF PCs
      <3> QED
        BY <2>1, <3>1 DEF Shows
    <2>3. OnlineSet' = OnlineSet \ {sel[t]}
      BY <1>14, <1>t, OfflineMachineMoves
    <2>4. Service!TakeDown(t)
      BY <2>1, <2>2, <2>3 DEF Service!TakeDown, Service!Move, Service!Release,
         ShownStage, ShownTarget
    <2> QED
      BY <2>4 DEF Service!Next
  <1>15. ASSUME NEW t \in Threads, ShowMachines(t) PROVE ServiceStep
    <2>1. Moves(t, "show", "choose") /\ UNCHANGED <<online, answer, sel>>
      BY <1>15 DEF ShowMachines, At, Goto, Moves, locals
    <2>2. Silent
      BY <1>t, <2>1, SilentMove DEF PCs
    <2> QED
      BY <2>2, <1>s
  <1>16. ASSUME NEW p \in Processes, Signal(p) \/ OnlineLock(p)
         PROVE  ServiceStep
    <2>1. Silent
      BY <1>16 DEF Signal, OnlineLock, locals, OnlineSet, ShownStage,
         ShownTarget
    <2> QED
      BY <2>1, <1>s
  <1>17. ASSUME NEW p \in Processes, OnlineMachine(p) PROVE ServiceStep
    <2>1. OnlineSet' = Machines
      BY <1>17, <1>t, OnlineMachineRestores
    <2>2. UNCHANGED <<pc, sel, answer>>
      BY <1>17 DEF OnlineMachine, locals
    <2>3. UNCHANGED <<ShownStage, ShownTarget, answer>>
      BY <2>2 DEF ShownStage, ShownTarget
    <2>4. Service!RecoverAll
      BY <2>1, <2>3 DEF Service!RecoverAll, ShownStage, ShownTarget
    <2> QED
      BY <2>4 DEF Service!Next
  <1>18. CASE UNCHANGED vars
    <2>1. Silent
      BY <1>18 DEF vars, locals, OnlineSet, ShownStage, ShownTarget
    <2> QED
      BY <2>1, <1>s
  <1> QED
    BY <1>1, <1>2, <1>3, <1>4, <1>5, <1>6, <1>7, <1>8, <1>9, <1>10, <1>11,
       <1>12, <1>13, <1>14, <1>15, <1>16, <1>17, <1>18
    DEF Next, Judge, SmartChoice, Recovery

\* The dispatcher keeps the promise of JudgeService: a judge is sent only to
\* machines that are online, is given up only when none is, and each recovery
\* brings all of them back.
THEOREM DispatchImplementsService == Spec => ImplementsService
  <1>1. /\ IInv /\ MachinesPartitioned /\ [Next]_vars
        => [Service!Next]_(Service!vars)
    BY RefinementStep
  <1> QED
    BY <1>1, RefinementInit, DispatchInvariant, PartitionCorrect, PTL
    DEF Spec, ImplementsService, Service!Spec

-----------------------------------------------------------------------------
(***************************************************************************)
(* Counting modulo the width of the counter.                               *)
(***************************************************************************)
\* A number has one quotient and one remainder.
LEMMA RemainderUnique ==
  ASSUME NEW M \in Nat \ {0}, NEW a \in Int, NEW q \in Int,
         NEW r \in 0 .. M - 1, a = M * q + r
  PROVE  a % M = r
  OBVIOUS

\* Counting up commutes with wrapping.
LEMMA WrapUp ==
  ASSUME NEW M \in Nat \ {0}, NEW c \in Nat
  PROVE  ((c % M) + 1) % M = (c + 1) % M
  <1> DEFINE q == c \div M
             r == c % M
  <1>1. c = M * q + r /\ q \in Int /\ r \in 0 .. M - 1
    OBVIOUS
  <1> HIDE DEF q, r
  <1>2. CASE r + 1 < M
    <2>1. c + 1 = M * q + (r + 1) /\ r + 1 \in 0 .. M - 1
      BY <1>1, <1>2
    <2>2. (c + 1) % M = r + 1
      BY <1>1, <2>1, RemainderUnique
    <2>3. (r + 1) % M = r + 1
      BY <2>1
    <2> QED
      BY <2>2, <2>3 DEF r
  <1>3. CASE r + 1 = M
    <2>1. c + 1 = M * (q + 1) + 0
      BY <1>1, <1>3
    <2>2. (c + 1) % M = 0
      BY <1>1, <2>1, RemainderUnique
    <2>3. M = M * 1 + 0
      OBVIOUS
    <2>4. (r + 1) % M = 0
      BY <1>3, <2>3, RemainderUnique
    <2> QED
      BY <2>2, <2>4 DEF r
  <1> QED
    BY <1>1, <1>2, <1>3

\* Counting down commutes with wrapping.
LEMMA WrapDown ==
  ASSUME NEW M \in Nat \ {0}, NEW c \in Nat \ {0}
  PROVE  ((c % M) - 1) % M = (c - 1) % M
  <1> DEFINE q == c \div M
             r == c % M
  <1>1. c = M * q + r /\ q \in Int /\ r \in 0 .. M - 1
    OBVIOUS
  <1> HIDE DEF q, r
  <1>2. CASE r > 0
    <2>1. c - 1 = M * q + (r - 1) /\ r - 1 \in 0 .. M - 1
      BY <1>1, <1>2
    <2>2. (c - 1) % M = r - 1
      BY <1>1, <2>1, RemainderUnique
    <2>3. (r - 1) % M = r - 1
      BY <2>1
    <2> QED
      BY <2>2, <2>3 DEF r
  <1>3. CASE r = 0
    <2>1. M - 1 \in 0 .. M - 1
      OBVIOUS
    <2>2. \A d, k \in Int : d = M * k + (M - 1) => d % M = M - 1
      BY <2>1, RemainderUnique
    <2>3. c - 1 = M * (q - 1) + (M - 1) /\ c - 1 \in Int /\ q - 1 \in Int
      BY <1>1, <1>3
    <2>4. r - 1 = M * (0 - 1) + (M - 1) /\ r - 1 \in Int /\ 0 - 1 \in Int
      BY <1>1, <1>3
    <2>5. (c - 1) % M = M - 1
      BY <2>2, <2>3
    <2>6. (r - 1) % M = M - 1
      BY <2>2, <2>4
    <2> QED
      BY <2>5, <2>6 DEF r
  <1> QED
    BY <1>1, <1>2, <1>3

(***************************************************************************)
(* mtx is given back.                                                      *)
(***************************************************************************)
\* mtx is free, or its holder is in a section.
Held == \/ mtx = NoThread
        \/ mtx \in Threads /\ InCS(mtx)
        \/ hpc[mtx] = "in"

\* A step that takes mtx enters a section, a step that leaves one gives it
\* back; the throwing refresh, which does not, is excluded.
LEMMA ReleaseStep ==
  ASSUME IInv, LockIsReleased, [Next]_vars
  PROVE  LockIsReleased'
  <1> SUFFICES ASSUME "throw" \notin StatusReplies PROVE Held'
    BY DEF LockIsReleased, Held
  <1>h. Held
    BY DEF LockIsReleased, Held
  <1> USE ThreadsAssumption
      DEF IInv, TypeOK, InCS, PCs, HandlerPCs, Processes, At, Goto, Held
  <1>1. ASSUME NEW t \in Threads, SmartChoiceLock(t) \/ OfflineLock(t)
        PROVE  Held'
    BY <1>1 DEF SmartChoiceLock, OfflineLock, Lock
  <1>2. ASSUME NEW t \in Threads,
               \/ SmartChoiceEmpty(t) \/ SmartChoiceUnlock(t)
               \/ OfflineMachine(t)
        PROVE  Held'
    BY <1>2 DEF SmartChoiceEmpty, SmartChoiceUnlock, OfflineMachine, Unlock
  <1>3. ASSUME NEW t \in Threads,
               \/ Request(t) \/ UpdateStatus(t) \/ ScanStart(t) \/ ScanStep(t)
               \/ StartPost(t) \/ PostOk(t) \/ PostError(t) \/ PostNoReply(t)
               \/ ShowMachines(t)
        PROVE  Held'
    BY <1>h, <1>3 DEF Request, UpdateStatus, ScanStart, ScanStep, StartPost,
       PostOk, PostError, PostNoReply, ShowMachines
  <1>4. ASSUME NEW t \in Threads PROVE ~UpdateStatusThrows(t)
    BY DEF UpdateStatusThrows
  <1>5. ASSUME NEW p \in Processes, OnlineLock(p) PROVE Held'
    BY <1>5 DEF OnlineLock, Lock
  <1>6. ASSUME NEW p \in Processes, OnlineMachine(p) PROVE Held'
    BY <1>6 DEF OnlineMachine, Unlock
  <1>7. ASSUME NEW p \in Processes, Signal(p) PROVE Held'
    BY <1>h, <1>7 DEF Signal
  <1>8. CASE UNCHANGED vars
    BY <1>h, <1>8 DEF vars
  <1> QED
    BY <1>1, <1>2, <1>3, <1>4, <1>5, <1>6, <1>7, <1>8
    DEF Next, Judge, SmartChoice, Recovery

\* With status replies that are always readable, no path of SmartChoice,
\* OfflineMachine or the SIGQUIT handler leaves mtx locked behind it.
THEOREM ReleaseCorrect == Spec => []LockIsReleased
  <1>1. Init => LockIsReleased
    BY DEF Init, LockIsReleased
  <1>2. IInv /\ LockIsReleased /\ [Next]_vars => LockIsReleased'
    BY ReleaseStep
  <1> QED
    BY <1>1, <1>2, DispatchInvariant, PTL DEF Spec

(***************************************************************************)
(* Loads count the judges in flight.                                       *)
(***************************************************************************)
\* A machine whose load was never replaced has never been put offline.
NeverReset == Machines \ overwritten \subseteq OnlineSet

\* OfflineMachine resets the load of every machine it takes off the list.
LEMMA ResetStep ==
  ASSUME IInv, MachinesPartitioned, NeverReset, [Next]_vars
  PROVE  NeverReset'
  <1> USE DEF NeverReset, ghosts, locals
  <1>1. ASSUME NEW t \in Threads, OfflineMachine(t) PROVE NeverReset'
    <2>1. OnlineSet' = OnlineSet \ {sel[t]}
      BY <1>1, OfflineMachineMoves DEF IInv
    <2>2. \/ overwritten' = overwritten \cup {sel[t]}
          \/ sel[t] \notin OnlineSet /\ overwritten' = overwritten
      BY <1>1 DEF OfflineMachine, OnlineSet, ToSet
    <2> QED
      BY <2>1, <2>2
  <1>2. ASSUME NEW p \in Processes, OnlineMachine(p) PROVE NeverReset'
    BY <1>2, OnlineMachineRestores DEF IInv
  <1>3. ASSUME UNCHANGED online, overwritten \subseteq overwritten'
        PROVE  NeverReset'
    BY <1>3 DEF OnlineSet
  <1>4. ASSUME NEW t \in Threads,
               \/ Request(t) \/ SmartChoiceLock(t) \/ SmartChoiceEmpty(t)
               \/ UpdateStatus(t) \/ UpdateStatusThrows(t) \/ ScanStart(t)
               \/ ScanStep(t) \/ SmartChoiceUnlock(t) \/ StartPost(t)
               \/ PostOk(t) \/ PostError(t) \/ PostNoReply(t)
               \/ OfflineLock(t) \/ ShowMachines(t)
        PROVE  UNCHANGED online /\ overwritten \subseteq overwritten'
    BY <1>4 DEF Request, SmartChoiceLock, SmartChoiceEmpty, UpdateStatus,
       UpdateStatusThrows, ScanStart, ScanStep, SmartChoiceUnlock, StartPost,
       PostOk, PostError, PostNoReply, OfflineLock, ShowMachines
  <1>5. ASSUME NEW p \in Processes, Signal(p) \/ OnlineLock(p)
        PROVE  UNCHANGED online /\ overwritten \subseteq overwritten'
    BY <1>5 DEF Signal, OnlineLock
  <1>6. UNCHANGED vars => UNCHANGED online /\ overwritten \subseteq overwritten'
    BY DEF vars
  <1> QED
    BY <1>1, <1>2, <1>3, <1>4, <1>5, <1>6
    DEF Next, Judge, SmartChoice, Recovery

\* A step that keeps the loads, the judges in flight and their machines keeps
\* the count.
LEMMA CountKept ==
  ASSUME LoadCountsInFlight, NEW m \in Machines \ overwritten',
         overwritten \subseteq overwritten', load'[m] = load[m],
         InFlight(m)' = InFlight(m)
  PROVE  load'[m] = Cardinality(InFlight(m)') % LoadMod
  BY DEF LoadCountsInFlight

\* Every IncLoad goes with a judge that takes off and every DecLoad with one
\* that lands.
LEMMA CountStep ==
  ASSUME IInv, NeverReset, LoadCountsInFlight, [Next]_vars
  PROVE  LoadCountsInFlight'
  <1> SUFFICES ASSUME NEW m \in Machines \ overwritten'
               PROVE  load'[m] = Cardinality(InFlight(m)') % LoadMod
    BY DEF LoadCountsInFlight, Machines
  <1> USE DEF IInv, TypeOK, At, Goto, PCs, ghosts, locals
  <1> DEFINE Keeps == /\ overwritten \subseteq overwritten'
                      /\ load'[m] = load[m]
                      /\ InFlight(m)' = InFlight(m)
  <1>f. IsFiniteSet(InFlight(m)) /\ Cardinality(InFlight(m)) \in Nat
    BY ThreadsAssumption, FS_Subset, FS_CardinalityType DEF InFlight
  <1>1. ASSUME NEW t \in Threads, StartPost(t)
        PROVE  load'[m] = Cardinality(InFlight(m)') % LoadMod
    <2>0. m \in Machines \ overwritten /\ load[m] \in 0 .. LoadMod - 1
      BY <1>1 DEF StartPost
    <2>1. CASE sel[t] = m
      <3>1. InFlight(m)' = InFlight(m) \cup {t} /\ t \notin InFlight(m)
        BY <1>1, <2>1 DEF StartPost, InFlight
      <3>2. Cardinality(InFlight(m)') = Cardinality(InFlight(m)) + 1
        BY <1>f, <3>1, FS_AddElement
      <3>3. load'[m] = (load[m] + 1) % LoadMod
        BY <1>1, <2>0, <2>1 DEF StartPost, IncLoad
      <3>4. load[m] = Cardinality(InFlight(m)) % LoadMod
        BY <2>0 DEF LoadCountsInFlight
      <3> QED
        BY <1>f, <3>2, <3>3, <3>4, LoadAssumption, WrapUp
    <2>2. CASE sel[t] # m
      <3>1. Keeps
        BY <1>1, <2>2 DEF StartPost, IncLoad, InFlight
      <3> QED
        BY <3>1, CountKept
    <2> QED
      BY <2>1, <2>2
  <1>2. ASSUME NEW t \in Threads, PostOk(t) \/ PostError(t)
        PROVE  load'[m] = Cardinality(InFlight(m)') % LoadMod
    <2>0. m \in Machines \ overwritten /\ load[m] \in 0 .. LoadMod - 1
      BY <1>2 DEF PostOk, PostError
    <2>1. CASE sel[t] = m
      <3>1. /\ InFlight(m)' = InFlight(m) \ {t}
            /\ t \in InFlight(m)
        BY <1>2, <2>1 DEF PostOk, PostError, InFlight, NewTurn
      <3>2. Cardinality(InFlight(m)') = Cardinality(InFlight(m)) - 1
        BY <1>f, <3>1, FS_RemoveElement
      <3>e. Cardinality(InFlight(m)) # 0
        BY <1>f, <3>1, FS_EmptySet
      <3>3. load'[m] = (load[m] - 1) % LoadMod
        BY <1>2, <2>0, <2>1 DEF PostOk, PostError, DecLoad
      <3>4. load[m] = Cardinality(InFlight(m)) % LoadMod
        BY <2>0 DEF LoadCountsInFlight
      <3> QED
        BY <1>f, <3>2, <3>e, <3>3, <3>4, LoadAssumption, WrapDown
    <2>2. CASE sel[t] # m
      <3>1. Keeps
        BY <1>2, <2>2 DEF PostOk, PostError, DecLoad, InFlight, NewTurn
      <3> QED
        BY <3>1, CountKept
    <2> QED
      BY <2>1, <2>2
  <1>3. ASSUME NEW t \in Threads, OfflineMachine(t) PROVE Keeps
    <2>1. sel[t] # m
      <3>1. m \in OnlineSet \/ m \in overwritten
        BY DEF NeverReset
      <3> QED
        BY <1>3, <3>1 DEF OfflineMachine, OnlineSet, ToSet
    <2>2. load'[m] = load[m] /\ overwritten \subseteq overwritten'
      BY <1>3, <2>1 DEF OfflineMachine
    <2>3. InFlight(m)' = InFlight(m)
      BY <1>3, <2>1 DEF OfflineMachine, InFlight, NewTurn
    <2> QED
      BY <2>2, <2>3
  <1>4. ASSUME NEW t \in Threads, UpdateStatus(t) PROVE Keeps
    <2>1. InFlight(m)' = InFlight(m)
      BY <1>4 DEF UpdateStatus, InFlight
    <2>2. overwritten \subseteq overwritten' /\ load'[m] = load[m]
      BY <1>4 DEF UpdateStatus
    <2> QED
      BY <2>1, <2>2
  <1>5. ASSUME NEW t \in Threads, ScanStart(t) \/ ScanStep(t) PROVE Keeps
    <2>1. InFlight(m)' = InFlight(m)
      BY <1>5 DEF ScanStart, ScanStep, InFlight
    <2>2. UNCHANGED <<load, overwritten>>
      BY <1>5 DEF ScanStart, ScanStep
    <2> QED
      BY <2>1, <2>2
  <1>6. ASSUME NEW t \in Threads,
               \/ Request(t) \/ SmartChoiceLock(t) \/ SmartChoiceEmpty(t)
               \/ UpdateStatusThrows(t) \/ SmartChoiceUnlock(t)
               \/ PostNoReply(t) \/ OfflineLock(t) \/ ShowMachines(t)
        PROVE  Keeps
    BY <1>6 DEF Request, SmartChoiceLock, SmartChoiceEmpty, InFlight,
       UpdateStatusThrows, SmartChoiceUnlock, PostNoReply, OfflineLock,
       ShowMachines
  <1>7. ASSUME NEW p \in Processes,
               Signal(p) \/ OnlineLock(p) \/ OnlineMachine(p)
        PROVE  Keeps
    BY <1>7 DEF Signal, OnlineLock, OnlineMachine, InFlight
  <1>8. UNCHANGED vars => Keeps
    BY DEF vars, InFlight
  <1>9. Keeps => load'[m] = Cardinality(InFlight(m)') % LoadMod
    BY CountKept
  <1> QED
    BY <1>1, <1>2, <1>3, <1>4, <1>5, <1>6, <1>7, <1>8, <1>9
    DEF Next, Judge, SmartChoice, Recovery

\* A load that no refresh or reset has replaced is the number of judges on the
\* machine, however many workers count up and down at once.
THEOREM LoadsCorrect == Spec => []LoadCountsInFlight
  <1>1. Init => NeverReset
    BY PartitionInit DEF Init, NeverReset, MachinesPartitioned, OfflineSet, ToSet
  <1>2. Init => LoadCountsInFlight
    <2> SUFFICES ASSUME Init, NEW m \in Machines
                 PROVE  load[m] = Cardinality(InFlight(m)) % LoadMod
      BY DEF LoadCountsInFlight
    <2>1. InFlight(m) = {}
      BY DEF Init, InFlight
    <2>2. Cardinality(InFlight(m)) = 0
      BY <2>1, FS_EmptySet
    <2> QED
      BY <2>2, LoadAssumption DEF Init
  <1>3. /\ IInv /\ MachinesPartitioned /\ NeverReset /\ LoadCountsInFlight
        /\ [Next]_vars
        => NeverReset' /\ LoadCountsInFlight'
    BY ResetStep, CountStep
  <1> QED
    BY <1>1, <1>2, <1>3, DispatchInvariant, PartitionCorrect, PTL DEF Spec

\* A load stays within the number of workers, and so never goes below zero and
\* around, on every machine whose load no refresh and no reset has replaced: the
\* replacement under a judge in flight is the only way to a wrapped load.
THEOREM LoadsBounded ==
  Spec => [](Cardinality(Threads) < LoadMod =>
               \A m \in Machines \ overwritten : load[m] <= Cardinality(Threads))
  <1>1. LoadCountsInFlight =>
          (Cardinality(Threads) < LoadMod =>
             \A m \in Machines \ overwritten : load[m] <= Cardinality(Threads))
    <2> SUFFICES ASSUME LoadCountsInFlight, Cardinality(Threads) < LoadMod,
                        NEW m \in Machines \ overwritten
                 PROVE  load[m] <= Cardinality(Threads)
      OBVIOUS
    <2> DEFINE n == Cardinality(InFlight(m))
    <2>1. /\ n \in Nat /\ Cardinality(Threads) \in Nat
          /\ n <= Cardinality(Threads)
      <3>1. InFlight(m) \subseteq Threads
        BY DEF InFlight
      <3> QED
        BY <3>1, ThreadsAssumption, FS_Subset, FS_CardinalityType
    <2>2. load[m] = n % LoadMod
      BY DEF LoadCountsInFlight
    <2> HIDE DEF n
    <2>3. n \in 0 .. LoadMod - 1 /\ n = LoadMod * 0 + n
      BY <2>1, LoadAssumption
    <2>4. n % LoadMod = n
      BY <2>1, <2>3, LoadAssumption, RemainderUnique
    <2> QED
      BY <2>1, <2>2, <2>4
  <1> QED
    BY <1>1, LoadsCorrect, PTL

(***************************************************************************)
(* The scan chooses the least loaded machine.                              *)
(***************************************************************************)
\* The choice so far of a scan during which no load changed: the first of the
\* least loaded among the machines it has looked at.
FirstLeast(t) ==
  /\ minLoad[t] = load[sel[t]]
  /\ \E i \in DOMAIN online :
       /\ online[i] = sel[t]
       /\ \A k \in DOMAIN online :
            /\ k < idx[t] => load[sel[t]] <= load[online[k]]
            /\ k < i => load[sel[t]] < load[online[k]]

ScansWell == calm => \A t \in Threads : pc[t] = "scan" => FirstLeast(t)

\* A load is a number.
LEMMA LoadsAreNumbers ==
  ASSUME TypeOK
  PROVE  /\ \A i \in DOMAIN online : online[i] \in Machines
         /\ \A m \in Machines : load[m] \in Int
         /\ DOMAIN online = 1 .. Len(online) /\ Len(online) \in Nat
  <1>1. DOMAIN online = 1 .. Len(online) /\ Len(online) \in Nat
    BY LenProperties DEF TypeOK
  <1>2. \A i \in 1 .. Len(online) : online[i] \in Machines
    BY ElementOfSeq DEF TypeOK
  <1>3. \A m \in Machines : load[m] \in Int
    BY LoadAssumption DEF TypeOK
  <1> QED
    BY <1>1, <1>2, <1>3

\* One more machine is looked at.
LEMMA ScanStepWell ==
  ASSUME IInv, NEW t \in Threads, FirstLeast(t), ScanStep(t)
  PROVE  FirstLeast(t)'
  <1>t. TypeOK /\ idx[t] \in DOMAIN online
    <2>1. TypeOK /\ num[t] = Len(online)
      BY DEF IInv, SnapshotStable, ScanStep, At
    <2> QED
      BY <2>1, LoadsAreNumbers DEF ScanStep
  <1> DEFINE n == idx[t]
             m == online[n]
  <1>1. /\ UNCHANGED <<online, load>> /\ idx'[t] = n + 1 /\ n \in Nat
    BY <1>t, LoadsAreNumbers DEF ScanStep, TypeOK
  <1>2. PICK i \in DOMAIN online :
          /\ online[i] = sel[t]
          /\ \A k \in DOMAIN online :
               /\ k < n => load[sel[t]] <= load[online[k]]
               /\ k < i => load[sel[t]] < load[online[k]]
    BY DEF FirstLeast
  <1>3. minLoad[t] = load[sel[t]]
    BY DEF FirstLeast
  <1>n. /\ \A k \in DOMAIN online : load[online[k]] \in Int /\ k \in Nat
        /\ load[m] \in Int /\ load[sel[t]] \in Int
    BY <1>t, <1>2, LoadsAreNumbers
  <1>4. CASE load[sel[t]] > load[m]
    <2>1. sel'[t] = m /\ minLoad'[t] = load[m]
      BY <1>t, <1>3, <1>4 DEF ScanStep, TypeOK
    <2>2. \A k \in DOMAIN online :
            /\ k < n + 1 => load[m] <= load[online[k]]
            /\ k < n => load[m] < load[online[k]]
      <3> SUFFICES ASSUME NEW k \in DOMAIN online
                   PROVE  /\ k < n + 1 => load[m] <= load[online[k]]
                          /\ k < n => load[m] < load[online[k]]
        OBVIOUS
      <3> HIDE DEF n, m
      <3>1. k < n => load[sel[t]] <= load[online[k]]
        BY <1>2
      <3>2. k < n => load[m] < load[online[k]]
        BY <3>1, <1>4, <1>n
      <3>3. k < n + 1 => k < n \/ online[k] = m
        BY <1>1, <1>n DEF m
      <3> QED
        BY <3>2, <3>3, <1>n
    <2>3. n \in DOMAIN online' /\ online'[n] = sel'[t]
      BY <1>t, <1>1, <2>1
    <2> QED
      BY <1>1, <2>1, <2>2, <2>3 DEF FirstLeast
  <1>5. CASE ~(load[sel[t]] > load[m])
    <2>1. sel'[t] = sel[t] /\ minLoad'[t] = minLoad[t]
      BY <1>3, <1>5 DEF ScanStep
    <2>2. \A k \in DOMAIN online :
            k < n + 1 => load[sel[t]] <= load[online[k]]
      <3> SUFFICES ASSUME NEW k \in DOMAIN online, k < n + 1
                   PROVE  load[sel[t]] <= load[online[k]]
        OBVIOUS
      <3> HIDE DEF n, m
      <3>1. k < n \/ online[k] = m
        BY <1>1, <1>n DEF m
      <3> QED
        BY <3>1, <1>2, <1>5, <1>n
    <2> QED
      BY <1>1, <1>2, <1>3, <2>1, <2>2 DEF FirstLeast
  <1> QED
    BY <1>4, <1>5

\* Loads and the list change in other places only when no scan is under way,
\* or are noticed.
LEMMA ScansStep ==
  ASSUME IInv, IInv', ScansWell, [Next]_vars
  PROVE  ScansWell'
  <1>t. TypeOK /\ MutualExclusion
    BY DEF IInv
  <1> DEFINE NoScan == \A u \in Threads : pc'[u] # "scan"
             Kept == /\ UNCHANGED <<online, load>>
                     /\ calm' => calm
                     /\ \A u \in Threads : pc'[u] = "scan" =>
                          /\ pc[u] = "scan"
                          /\ UNCHANGED <<sel[u], minLoad[u], idx[u]>>
  <1>a. NoScan \/ ~calm' => ScansWell'
    BY DEF ScansWell
  <1>k. Kept => ScansWell'
    BY DEF ScansWell, FirstLeast
  <1>1. ASSUME NEW t \in Threads, ScanStart(t) PROVE ScansWell'
    <2>1. /\ pc'[t] = "scan" /\ sel'[t] = online[1]
          /\ minLoad'[t] = load[online[1]] /\ idx'[t] = 1
          /\ UNCHANGED <<online, load>> /\ Len(online) > 0
      <3>1. num[t] = Len(online)
        BY <1>1 DEF ScanStart, At, IInv, SnapshotStable
      <3> QED
        BY <1>1, <1>t, <3>1 DEF ScanStart, Goto, TypeOK
    <2>2. FirstLeast(t)'
      <3>1. 1 \in DOMAIN online /\ \A k \in DOMAIN online : ~(k < 1)
        BY <1>t, <2>1, LoadsAreNumbers
      <3> QED
        BY <2>1, <3>1 DEF FirstLeast
    <2>3. \A u \in Threads : pc'[u] = "scan" => u = t
      BY <2>1 DEF IInv, MutualExclusion, InCS
    <2> QED
      BY <2>2, <2>3 DEF ScansWell
  <1>2. ASSUME NEW t \in Threads, ScanStep(t) PROVE ScansWell'
    <2>1. calm' = calm /\ pc' = pc /\ pc[t] = "scan"
      BY <1>2 DEF ScanStep, At, ghosts
    <2>2. calm => FirstLeast(t)'
      BY <1>2, <2>1, ScanStepWell DEF ScansWell
    <2>3. \A u \in Threads : pc'[u] = "scan" => u = t
      BY <2>1, <1>t DEF MutualExclusion, InCS
    <2> QED
      BY <2>1, <2>2, <2>3 DEF ScansWell
  <1>3. ASSUME NEW t \in Threads,
               \/ StartPost(t) \/ PostOk(t) \/ PostError(t)
               \/ SmartChoiceUnlock(t)
        PROVE  ~calm'
    BY <1>3 DEF StartPost, PostOk, PostError, SmartChoiceUnlock
  <1>4. ASSUME NEW t \in Threads, UpdateStatus(t) \/ OfflineMachine(t)
        PROVE  NoScan
    <2>1. InCS(t) /\ pc[t] # "scan" /\ mtx = t
      BY <1>4, <1>t DEF UpdateStatus, OfflineMachine, At, InCS, MutualExclusion
    <2>2. \A u \in Threads : pc[u] # "scan"
      BY <1>t, <2>1 DEF InCS, MutualExclusion
    <2>3. \A u \in Threads : pc'[u] = pc[u] \/ pc'[u] = "show"
      BY <1>4, <1>t DEF UpdateStatus, OfflineMachine, Goto, TypeOK
    <2> QED
      BY <2>2, <2>3
  <1>5. ASSUME NEW p \in Processes, OnlineMachine(p) PROVE NoScan
    <2>1. mtx = p /\ hpc[p] = "in"
      BY <1>5, <1>t DEF OnlineMachine, MutualExclusion
    <2>2. \A u \in Threads : pc[u] # "scan"
      BY <1>t, <2>1 DEF InCS, MutualExclusion
    <2> QED
      BY <1>5, <2>2 DEF OnlineMachine
  <1>6. ASSUME NEW t \in Threads,
               \/ SmartChoiceLock(t) \/ SmartChoiceEmpty(t)
               \/ UpdateStatusThrows(t)
        PROVE  Kept
    <2>1. UNCHANGED <<online, load, calm, sel>> /\ pc[t] # "scan"
      BY <1>6 DEF SmartChoiceLock, SmartChoiceEmpty, UpdateStatusThrows,
         ghosts, At
    <2>2. \A u \in Threads \ {t} : UNCHANGED <<pc[u], idx[u], minLoad[u]>>
      BY <1>6, <1>t DEF SmartChoiceLock, SmartChoiceEmpty,
         UpdateStatusThrows, LeaveSmartChoice, Goto, TypeOK
    <2>3. pc'[t] # "scan"
      BY <1>6, <1>t DEF SmartChoiceLock, SmartChoiceEmpty,
         UpdateStatusThrows, Goto, TypeOK
    <2> QED
      BY <2>1, <2>2, <2>3
  <1>7. ASSUME NEW t \in Threads,
               \/ Request(t) \/ PostNoReply(t) \/ OfflineLock(t)
               \/ ShowMachines(t)
        PROVE  Kept
    <2>1. UNCHANGED <<online, load, calm, sel, idx, minLoad>>
      BY <1>7 DEF Request, PostNoReply, OfflineLock, ShowMachines, ghosts,
         locals
    <2>2. pc'[t] # "scan" /\ \A u \in Threads \ {t} : pc'[u] = pc[u]
      BY <1>7, <1>t DEF Request, PostNoReply, OfflineLock, ShowMachines, Goto,
         TypeOK
    <2> QED
      BY <2>1, <2>2
  <1>8. ASSUME NEW p \in Processes, Signal(p) \/ OnlineLock(p)
        PROVE  Kept
    BY <1>8 DEF Signal, OnlineLock, ghosts, locals
  <1>9. UNCHANGED vars => Kept
    BY DEF vars, ghosts, locals
  <1> QED
    BY <1>a, <1>k, <1>1, <1>2, <1>3, <1>4, <1>5, <1>6, <1>7, <1>8, <1>9
    DEF Next, Judge, SmartChoice, Recovery

\* A scan ends only with the unlock of its thread.
LEMMA ChoiceIsUnlock ==
  ASSUME IInv, [Next]_vars, NEW t \in Threads,
         pc[t] = "scan", pc'[t] = "chosen"
  PROVE  SmartChoiceUnlock(t)
  <1>t. TypeOK
    BY DEF IInv
  <1>1. ASSUME NEW u \in Threads, Request(u) \/ Judge(u)
        PROVE  SmartChoiceUnlock(t)
    <2>1. CASE SmartChoiceUnlock(u)
      BY <1>t, <2>1 DEF SmartChoiceUnlock, Goto, TypeOK
    <2>2. CASE ~SmartChoiceUnlock(u)
      <3>1. pc' = pc \/ \E place \in PCs \ {"chosen"} : Goto(u, place)
        BY <1>1, <2>2 DEF Request, Judge, SmartChoice, SmartChoiceLock,
           SmartChoiceEmpty, UpdateStatus, UpdateStatusThrows, ScanStart,
           ScanStep, StartPost, PostOk, PostError, PostNoReply, OfflineLock,
           OfflineMachine, ShowMachines, PCs
      <3> QED
        BY <1>t, <3>1 DEF Goto, TypeOK
    <2> QED
      BY <2>1, <2>2
  <1>2. ASSUME NEW p \in Processes, Signal(p) \/ Recovery(p)
        PROVE  pc' = pc
    BY <1>2 DEF Signal, Recovery, OnlineLock, OnlineMachine
  <1>3. UNCHANGED vars => pc' = pc
    BY DEF vars
  <1> QED
    BY <1>1, <1>2, <1>3 DEF Next

\* SmartChoice returns the first of the least loaded machines, unless another
\* judge changed a load during its scan.
THEOREM ChoiceCorrect == Spec => ChoosesLeastLoaded
  <1>1. Init => ScansWell
    BY DEF Init, ScansWell
  <1>2. IInv /\ IInv' /\ ScansWell /\ [Next]_vars => ScansWell'
    BY ScansStep
  <1> DEFINE Least == \A t \in Threads :
        pc[t] = "scan" /\ pc'[t] = "chosen" /\ calm =>
          \E i \in DOMAIN online :
            /\ online[i] = sel'[t]
            /\ \A j \in DOMAIN online : load[sel'[t]] <= load[online[j]]
            /\ \A j \in 1 .. i - 1 : load[sel'[t]] < load[online[j]]
  <1>3. IInv /\ ScansWell /\ [Next]_vars => Least
    <2> SUFFICES ASSUME IInv, ScansWell, [Next]_vars, NEW t \in Threads,
                        pc[t] = "scan", pc'[t] = "chosen", calm
                 PROVE  \E i \in DOMAIN online :
                          /\ online[i] = sel'[t]
                          /\ \A j \in DOMAIN online :
                               load[sel'[t]] <= load[online[j]]
                          /\ \A j \in 1 .. i - 1 :
                               load[sel'[t]] < load[online[j]]
      OBVIOUS
    <2>1. /\ sel' = sel /\ idx[t] = Len(online) + 1
          /\ DOMAIN online = 1 .. Len(online) /\ Len(online) \in Nat
      <3>1. sel' = sel /\ idx[t] = num[t] + 1
        BY ChoiceIsUnlock DEF SmartChoiceUnlock
      <3>2. num[t] = Len(online) /\ TypeOK
        BY DEF IInv, SnapshotStable
      <3> QED
        BY <3>1, <3>2, LoadsAreNumbers
    <2>2. PICK i \in DOMAIN online :
            /\ online[i] = sel[t]
            /\ \A k \in DOMAIN online :
                 /\ k < idx[t] => load[sel[t]] <= load[online[k]]
                 /\ k < i => load[sel[t]] < load[online[k]]
      BY DEF ScansWell, FirstLeast
    <2>3. \A j \in 1 .. i - 1 : j \in DOMAIN online /\ j < i
      BY <2>1, <2>2
    <2>4. \A j \in DOMAIN online : j < idx[t]
      BY <2>1
    <2> QED
      BY <2>1, <2>2, <2>3, <2>4
  <1>4. IInv /\ ScansWell /\ [Next]_vars => [Least]_vars
    BY <1>3
  <1> QED
    BY <1>1, <1>2, <1>4, DispatchInvariant, PTL DEF Spec, ChoosesLeastLoaded

-----------------------------------------------------------------------------
(***************************************************************************)
(* A judge runs out of things to try.                                      *)
(***************************************************************************)
\* The two lists hold the machines of the file between them.
ListsFull == Len(online) + Len(offline) = NumMachines

\* OfflineMachine takes one machine off, or finds that another judge did.
LEMMA OfflineMachineLength ==
  ASSUME TypeOK, NEW t \in Threads, OfflineMachine(t)
  PROVE  \/ /\ sel[t] \in OnlineSet
            /\ Len(online') = Len(online) - 1
            /\ Len(offline') = Len(offline) + 1
         \/ /\ sel[t] \notin OnlineSet
            /\ UNCHANGED <<online, offline>>
  <1>1. CASE \E i \in DOMAIN online :
               /\ online[i] = sel[t]
               /\ online' = RemoveAt(online, i)
               /\ offline' = Append(offline, sel[t])
    <2>1. PICK i \in DOMAIN online :
               /\ online[i] = sel[t]
               /\ online' = RemoveAt(online, i)
               /\ offline' = Append(offline, sel[t])
      BY <1>1
    <2>2. Len(online') = Len(online) - 1
      BY <2>1, RemoveAtIsShift DEF TypeOK
    <2>3. sel[t] \in OnlineSet
      BY <2>1 DEF OnlineSet, ToSet
    <2>4. online[i] \in Machines
      BY <2>1, ElementOfSeq, LenProperties DEF TypeOK
    <2>5. Len(offline') = Len(offline) + 1
      BY <2>1, <2>4, AppendProperties DEF TypeOK
    <2> QED
      BY <2>2, <2>3, <2>5
  <1>2. CASE /\ \A i \in DOMAIN online : online[i] # sel[t]
             /\ UNCHANGED <<online, offline>>
    BY <1>2 DEF OnlineSet, ToSet
  <1> QED
    BY <1>1, <1>2 DEF OfflineMachine

\* A recovery moves all of offline.
LEMMA OnlineMachineLength ==
  ASSUME TypeOK, ListsFull, NEW p \in Processes, OnlineMachine(p)
  PROVE  Len(online') = NumMachines /\ Len(offline') = 0
  <1>1. Len(online \o offline) = Len(online) + Len(offline)
    BY ConcatProperties DEF TypeOK
  <1> QED
    BY <1>1 DEF OnlineMachine, ListsFull

\* What one list loses the other gains.
LEMMA ListsFullStep ==
  ASSUME TypeOK, ListsFull, [Next]_vars
  PROVE  ListsFull'
  <1>0. Len(online) \in Nat /\ Len(offline) \in Nat
    BY LenProperties DEF TypeOK
  <1>1. ASSUME NEW t \in Threads, OfflineMachine(t) PROVE ListsFull'
    BY <1>0, <1>1, OfflineMachineLength DEF ListsFull
  <1>2. ASSUME NEW p \in Processes, OnlineMachine(p) PROVE ListsFull'
    <2>1. Len(online') = NumMachines /\ Len(offline') = 0
      BY <1>2, OnlineMachineLength
    <2> QED
      BY <2>1, MachinesAssumption DEF ListsFull
  <1>3. CASE UNCHANGED <<online, offline>>
    BY <1>3 DEF ListsFull
  <1> QED
    BY <1>1, <1>2, <1>3, OtherStepsKeepLists

\* All machines start online.
LEMMA ListsFullInit == Init => ListsFull
  <1> SUFFICES ASSUME Init PROVE ListsFull
    OBVIOUS
  <1>1. Len(online) = NumMachines
    <2>1. DOMAIN online = 1 .. NumMachines
      BY DEF Init
    <2>2. DOMAIN online = 1 .. Len(online) /\ Len(online) \in Nat
      BY TypeInit, LenProperties DEF TypeOK
    <2> QED
      BY <2>1, <2>2, MachinesAssumption
  <1>2. Len(offline) = 0
    BY DEF Init
  <1> QED
    BY <1>1, <1>2, MachinesAssumption DEF ListsFull

\* The recoveries left are a number.
LEMMA RecoveriesAreNumbers ==
  ASSUME TypeOK
  PROVE  /\ RecoveriesLeft \in Nat
         /\ IsFiniteSet(Handlers)
         /\ Cardinality(Handlers) \in Nat
  <1>1. IsFiniteSet(Processes)
    BY ThreadsAssumption, FS_AddElement DEF Processes
  <1>2. IsFiniteSet(Handlers)
    BY <1>1, FS_Subset DEF Handlers
  <1>3. Cardinality(Handlers) \in Nat
    BY <1>2, FS_CardinalityType
  <1>4. MaxSignals - signals \in Nat
    BY BoundAssumption DEF TypeOK
  <1> QED
    BY <1>2, <1>3, <1>4 DEF RecoveriesLeft

\* A recovery stays one from the signal until its OnlineMachine.
LEMMA RecoveriesStep ==
  ASSUME TypeOK, NEW p \in Processes
  PROVE  /\ Signal(p) \/ OnlineLock(p) => RecoveriesLeft' = RecoveriesLeft
         /\ OnlineMachine(p) => RecoveriesLeft' = RecoveriesLeft - 1
  <1>1. IsFiniteSet(Handlers) /\ Cardinality(Handlers) \in Nat
    BY RecoveriesAreNumbers
  <1>2. signals \in Int /\ MaxSignals \in Int
    BY BoundAssumption DEF TypeOK
  <1>3. ASSUME Signal(p) PROVE RecoveriesLeft' = RecoveriesLeft
    <2>1. Handlers' = Handlers \cup {p} /\ p \notin Handlers
      BY <1>3 DEF Signal, Handlers, TypeOK
    <2>2. Cardinality(Handlers') = Cardinality(Handlers) + 1
      BY <1>1, <2>1, FS_AddElement
    <2> QED
      BY <1>1, <1>2, <1>3, <2>2 DEF Signal, RecoveriesLeft
  <1>4. ASSUME OnlineLock(p) PROVE RecoveriesLeft' = RecoveriesLeft
    <2>1. Handlers' = Handlers
      BY <1>4 DEF OnlineLock, Handlers, TypeOK
    <2> QED
      BY <1>4, <2>1 DEF OnlineLock, RecoveriesLeft
  <1>5. ASSUME OnlineMachine(p) PROVE RecoveriesLeft' = RecoveriesLeft - 1
    <2>1. Handlers' = Handlers \ {p} /\ p \in Handlers
      BY <1>5 DEF OnlineMachine, Handlers, TypeOK
    <2>2. Cardinality(Handlers') = Cardinality(Handlers) - 1
      BY <1>1, <2>1, FS_RemoveElement
    <2> QED
      BY <1>1, <1>2, <1>5, <2>2 DEF OnlineMachine, RecoveriesLeft
  <1> QED
    BY <1>3, <1>4, <1>5

\* Turns weigh more than the steps within one.
LEMMA TurnsWeighMore ==
  ASSUME NEW T \in Nat, NEW a \in Nat, NEW b \in Nat,
         NEW r \in Int, NEW s \in Int
  PROVE  /\ b <= a /\ s <= r => T * b + s <= T * a + r
         /\ b <= a /\ s < r => T * b + s < T * a + r
         /\ b < a /\ s < T + r => T * b + s < T * a + r
  <1>1. ASSUME b <= a PROVE T * b <= T * a
    <2>1. PICK d \in Nat : a = b + d
      BY <1>1
    <2>2. T * a = T * b + T * d /\ T * d \in Nat
      BY <2>1
    <2> QED
      BY <2>2
  <1>2. ASSUME b < a PROVE T * b + T <= T * a
    <2>1. PICK d \in Nat : a = b + 1 + d
      BY <1>2
    <2>2. T * a = T * b + T + T * d /\ T * d \in Nat
      BY <2>1
    <2> QED
      BY <2>2
  <1> DEFINE Ta == T * a
             Tb == T * b
  <1>3. Ta \in Int /\ Tb \in Int
    OBVIOUS
  <1> HIDE DEF Ta, Tb
  <1>4. /\ b <= a => Tb <= Ta
        /\ b < a => Tb + T <= Ta
    BY <1>1, <1>2 DEF Ta, Tb
  <1>5. /\ b <= a /\ s <= r => Tb + s <= Ta + r
        /\ b <= a /\ s < r => Tb + s < Ta + r
        /\ b < a /\ s < T + r => Tb + s < Ta + r
    BY <1>3, <1>4
  <1> QED
    BY <1>5 DEF Ta, Tb

\* What is left to try is a number, and what is left of a turn less than a turn.
LEMMA StepsAreNumbers ==
  ASSUME IInv, ListsFull, NEW t \in Threads
  PROVE  /\ TriesLeft(t) \in Nat /\ Turn \in Nat
         /\ StepsLeft(t) \in 0 .. Turn
         /\ Len(online) \in 0 .. NumMachines
         /\ RecoveriesLeft \in Nat /\ NumMachines * RecoveriesLeft \in Nat
  <1>t. TypeOK /\ SnapshotStable
    BY DEF IInv
  <1>1. Len(online) \in 0 .. NumMachines
    <2>1. Len(online) \in Nat /\ Len(offline) \in Nat
      BY <1>t, LenProperties DEF TypeOK
    <2> QED
      BY <2>1, MachinesAssumption DEF ListsFull
  <1>2. RecoveriesLeft \in Nat /\ NumMachines * RecoveriesLeft \in Nat
    BY <1>t, RecoveriesAreNumbers, MachinesAssumption
  <1>3. TriesLeft(t) \in Nat
    BY <1>1, <1>2 DEF TriesLeft
  <1>4. Turn \in Nat
    BY MachinesAssumption DEF Turn
  <1>5. StepsLeft(t) \in 0 .. Turn
    <2>1. pc[t] \in PCs
      BY <1>t DEF TypeOK
    <2>2. pc[t] \in {"refresh", "scan"} =>
            num[t] \in 0 .. NumMachines /\ idx[t] \in 1 .. num[t] + 1
      BY <1>t, <1>1 DEF SnapshotStable
    <2>3. CASE pc[t] = "refresh"
      BY <2>2, <2>3, MachinesAssumption DEF StepsLeft, Turn
    <2>4. CASE pc[t] = "scan"
      BY <2>2, <2>4, MachinesAssumption DEF StepsLeft, Turn
    <2>5. CASE pc[t] \notin {"refresh", "scan"}
      <3>1. StepsLeft(t) \in {0, 1, 2, 3, 4, Turn - 1, Turn}
        BY <2>1, <2>5 DEF StepsLeft, PCs
      <3> QED
        BY <3>1, MachinesAssumption DEF Turn
    <2> QED
      BY <2>3, <2>4, <2>5
  <1> QED
    BY <1>1, <1>2, <1>3, <1>4, <1>5

\* A judge that does not move keeps its place in the turn.
LEMMA StepsKept ==
  ASSUME NEW t \in Threads, UNCHANGED <<pc[t], idx[t], num[t]>>
  PROVE  StepsLeft(t)' = StepsLeft(t)
  BY DEF StepsLeft

\* Tries change only with the lists, the recoveries and the machine of t.
LEMMA TriesKept ==
  ASSUME UNCHANGED online, RecoveriesLeft' = RecoveriesLeft,
         NEW t \in Threads, Gone(t)' => Gone(t),
         IInv, ListsFull
  PROVE  TriesLeft(t)' <= TriesLeft(t)
  <1>1. Len(online) \in Nat /\ NumMachines * RecoveriesLeft \in Nat
    BY StepsAreNumbers
  <1> DEFINE base == NumMachines * RecoveriesLeft + Len(online)
  <1>2. base \in Nat
    BY <1>1
  <1>3. TriesLeft(t) = base + IF Gone(t) THEN 1 ELSE 0
    BY DEF TriesLeft
  <1>4. TriesLeft(t)' = base + IF Gone(t)' THEN 1 ELSE 0
    BY DEF TriesLeft
  <1> HIDE DEF base
  <1> QED
    BY <1>2, <1>3, <1>4

\* The worker a step belongs to; the others stay where they are.
LEMMA OthersStay ==
  ASSUME TypeOK, NEW u \in Threads, Request(u) \/ Judge(u)
  PROVE  /\ \A t \in Threads \ {u} :
              UNCHANGED <<pc[t], idx[t], num[t], sel[t]>>
         /\ UNCHANGED <<hpc, signals>>
         /\ OfflineMachine(u) \/ UNCHANGED online
  <1> USE DEF TypeOK, Goto, LeaveSmartChoice, NewTurn, locals
  <1>1. CASE \/ Request(u) \/ SmartChoiceLock(u) \/ SmartChoiceEmpty(u)
             \/ UpdateStatus(u) \/ UpdateStatusThrows(u)
    BY <1>1 DEF Request, SmartChoiceLock, SmartChoiceEmpty, UpdateStatus,
       UpdateStatusThrows
  <1>2. CASE \/ ScanStart(u) \/ ScanStep(u) \/ SmartChoiceUnlock(u)
             \/ StartPost(u) \/ PostOk(u) \/ PostError(u) \/ PostNoReply(u)
    BY <1>2 DEF ScanStart, ScanStep, SmartChoiceUnlock, StartPost, PostOk,
       PostError, PostNoReply
  <1>3. CASE OfflineLock(u) \/ OfflineMachine(u) \/ ShowMachines(u)
    BY <1>3 DEF OfflineLock, OfflineMachine, ShowMachines
  <1> QED
    BY <1>1, <1>2, <1>3 DEF Judge, SmartChoice

\* Within a turn every step of a judge brings its end nearer; the step that
\* ends the turn uses up a machine, put offline by it or by another judge.
LEMMA OwnStepNearer ==
  ASSUME IInv, ListsFull, NEW t \in Threads, Judge(t),
         "error" \notin PostReplies
  PROVE  \/ TriesLeft(t)' <= TriesLeft(t) /\ StepsLeft(t)' < StepsLeft(t)
         \/ TriesLeft(t)' < TriesLeft(t) /\ StepsLeft(t)' < Turn + StepsLeft(t)
  <1> DEFINE Nearer ==
        TriesLeft(t)' <= TriesLeft(t) /\ StepsLeft(t)' < StepsLeft(t)
  <1>t. TypeOK /\ SnapshotStable
    BY DEF IInv
  <1>n. /\ Len(online) \in 0 .. NumMachines /\ RecoveriesLeft \in Nat
        /\ NumMachines * RecoveriesLeft \in Nat /\ NumMachines \in Nat
    BY StepsAreNumbers, MachinesAssumption
  <1>r. RecoveriesLeft' = RecoveriesLeft
    <2>1. UNCHANGED <<hpc, signals>>
      BY <1>t, OthersStay
    <2>2. Handlers' = Handlers
      BY <2>1 DEF Handlers
    <2> QED
      BY <2>1, <2>2 DEF RecoveriesLeft
  <1>k. ASSUME UNCHANGED online, Gone(t)' => Gone(t),
               StepsLeft(t)' < StepsLeft(t)
        PROVE  Nearer
    BY <1>k, <1>r, TriesKept
  <1> USE DEF At, Goto, TypeOK
  <1>1. CASE SmartChoiceLock(t)
    <2>1. /\ pc[t] = "choose" /\ pc'[t] = "refresh" /\ online' = online
          /\ num'[t] = Len(online) /\ idx'[t] = 1
      BY <1>1, <1>t DEF SmartChoiceLock
    <2>2. StepsLeft(t)' = 2 * Len(online) + 7 - 1 /\ StepsLeft(t) = Turn - 1
      BY <2>1 DEF StepsLeft
    <2>3. StepsLeft(t)' < StepsLeft(t)
      BY <1>n, <2>2 DEF Turn
    <2>4. ~Gone(t)'
      BY <2>1 DEF Gone
    <2> QED
      BY <1>k, <2>1, <2>3, <2>4
  <1>2. CASE SmartChoiceEmpty(t) \/ UpdateStatusThrows(t)
    <2>1. pc[t] = "refresh" /\ pc'[t] = "idle" /\ online' = online
      BY <1>2, <1>t DEF SmartChoiceEmpty, UpdateStatusThrows
    <2>2. num[t] = Len(online) /\ idx[t] \in 1 .. num[t] + 1
      BY <1>t, <2>1 DEF SnapshotStable
    <2>3. StepsLeft(t)' = 0 /\ StepsLeft(t) = 2 * num[t] + 7 - idx[t]
      BY <2>1 DEF StepsLeft
    <2>4. StepsLeft(t)' < StepsLeft(t)
      BY <1>n, <2>2, <2>3
    <2>5. ~Gone(t)'
      BY <2>1 DEF Gone
    <2> QED
      BY <1>k, <2>1, <2>4, <2>5
  <1>3. CASE UpdateStatus(t)
    <2>1. /\ pc[t] = "refresh" /\ UNCHANGED <<online, pc, num, sel>>
          /\ idx'[t] = idx[t] + 1
      BY <1>3, <1>t DEF UpdateStatus
    <2>2. num[t] \in Nat /\ idx[t] \in Nat
      BY <1>t
    <2>3. /\ StepsLeft(t) = 2 * num[t] + 7 - idx[t]
          /\ StepsLeft(t)' = 2 * num[t] + 7 - (idx[t] + 1)
      BY <2>1 DEF StepsLeft
    <2>4. Gone(t)' => Gone(t)
      BY <2>1 DEF Gone, OnlineSet
    <2> QED
      BY <1>k, <2>1, <2>2, <2>3, <2>4
  <1>4. CASE ScanStart(t)
    <2>1. /\ pc[t] = "refresh" /\ pc'[t] = "scan" /\ UNCHANGED <<online, num>>
          /\ idx[t] = num[t] + 1 /\ idx'[t] = 1
      BY <1>4, <1>t DEF ScanStart
    <2>2. num[t] \in Nat
      BY <1>t
    <2>3. /\ StepsLeft(t) = 2 * num[t] + 7 - idx[t]
          /\ StepsLeft(t)' = num[t] + 6 - 1
      BY <2>1 DEF StepsLeft
    <2>4. ~Gone(t)'
      BY <2>1 DEF Gone
    <2> QED
      BY <1>k, <2>1, <2>2, <2>3, <2>4
  <1>5. CASE ScanStep(t)
    <2>1. /\ pc[t] = "scan" /\ UNCHANGED <<online, pc, num>>
          /\ idx'[t] = idx[t] + 1
      BY <1>5, <1>t DEF ScanStep
    <2>2. num[t] \in Nat /\ idx[t] \in Nat
      BY <1>t
    <2>3. /\ StepsLeft(t) = num[t] + 6 - idx[t]
          /\ StepsLeft(t)' = num[t] + 6 - (idx[t] + 1)
      BY <2>1 DEF StepsLeft
    <2>4. ~Gone(t)'
      BY <2>1 DEF Gone
    <2> QED
      BY <1>k, <2>1, <2>2, <2>3, <2>4
  <1>6. CASE SmartChoiceUnlock(t)
    <2>1. /\ pc[t] = "scan" /\ pc'[t] = "chosen" /\ UNCHANGED <<online, sel>>
          /\ idx[t] = num[t] + 1
      BY <1>6, <1>t DEF SmartChoiceUnlock
    <2>2. num[t] \in Nat
      BY <1>t
    <2>3. StepsLeft(t) = num[t] + 6 - idx[t] /\ StepsLeft(t)' = 4
      BY <2>1 DEF StepsLeft
    <2>4. ~Gone(t)'
      BY <1>t, <2>1 DEF Gone, OnlineSet, SnapshotStable
    <2> QED
      BY <1>k, <2>1, <2>2, <2>3, <2>4
  <1>7. CASE StartPost(t) \/ PostNoReply(t) \/ OfflineLock(t)
    <2>1. /\ UNCHANGED <<online, sel>>
          /\ \/ pc[t] = "chosen" /\ pc'[t] = "posting"
             \/ pc[t] = "posting" /\ pc'[t] = "offline"
             \/ pc[t] = "offline" /\ pc'[t] = "offlining"
      BY <1>7, <1>t DEF StartPost, PostNoReply, OfflineLock, locals
    <2>2. StepsLeft(t)' < StepsLeft(t)
      BY <2>1 DEF StepsLeft
    <2>3. Gone(t)' => Gone(t)
      BY <2>1 DEF Gone, OnlineSet
    <2> QED
      BY <1>k, <2>1, <2>2, <2>3
  <1>8. CASE PostOk(t)
    <2>1. pc[t] = "posting" /\ pc'[t] = "idle" /\ online' = online
      BY <1>8, <1>t DEF PostOk
    <2>2. StepsLeft(t)' < StepsLeft(t) /\ ~Gone(t)'
      BY <2>1 DEF StepsLeft, Gone
    <2> QED
      BY <1>k, <2>1, <2>2
  <1>9. ~PostError(t)
    BY DEF PostError
  <1>10. CASE OfflineMachine(t)
    <2>1. pc[t] = "offlining" /\ pc'[t] = "show"
      BY <1>10, <1>t DEF OfflineMachine
    <2>2. StepsLeft(t) = 1 /\ StepsLeft(t)' = Turn /\ ~Gone(t)'
      BY <2>1 DEF StepsLeft, Gone
    <2>3. \/ Len(online') = Len(online) - 1
          \/ Gone(t) /\ Len(online') = Len(online)
      BY <1>10, <1>t, <2>1, OfflineMachineLength DEF Gone
    <2>4. TriesLeft(t)' = NumMachines * RecoveriesLeft + Len(online')
      BY <1>r, <1>n, <2>2, <2>3 DEF TriesLeft
    <2>5. TriesLeft(t)' < TriesLeft(t)
      BY <1>n, <2>3, <2>4 DEF TriesLeft
    <2>6. StepsLeft(t)' < Turn + StepsLeft(t)
      BY <1>n, <2>2 DEF Turn
    <2> QED
      BY <2>5, <2>6
  <1>11. CASE ShowMachines(t)
    <2>1. pc[t] = "show" /\ pc'[t] = "choose" /\ online' = online
      BY <1>11, <1>t DEF ShowMachines
    <2>2. StepsLeft(t) = Turn /\ StepsLeft(t)' = Turn - 1 /\ ~Gone(t)'
      BY <2>1 DEF StepsLeft, Gone
    <2>3. StepsLeft(t)' < StepsLeft(t)
      BY <1>n, <2>2 DEF Turn
    <2> QED
      BY <1>k, <2>1, <2>2, <2>3
  <1> QED
    BY <1>1, <1>2, <1>3, <1>4, <1>5, <1>6, <1>7, <1>8, <1>9, <1>10, <1>11
    DEF Judge, SmartChoice

\* Nothing that another worker does puts a judge off: a machine it takes offline
\* is one less for every judge, the one at work with it included.
LEMMA OtherStepNoFarther ==
  ASSUME IInv, ListsFull, NEW t \in Threads, NEW u \in Threads \ {t},
         Request(u) \/ Judge(u)
  PROVE  /\ UNCHANGED <<pc[t], idx[t], num[t]>>
         /\ TriesLeft(t)' <= TriesLeft(t)
  <1>t. TypeOK
    BY DEF IInv
  <1>n. /\ Len(online) \in 0 .. NumMachines /\ RecoveriesLeft \in Nat
        /\ NumMachines * RecoveriesLeft \in Nat /\ NumMachines \in Nat
    BY StepsAreNumbers, MachinesAssumption
  <1>1. /\ UNCHANGED <<pc[t], idx[t], num[t], sel[t]>>
        /\ UNCHANGED <<hpc, signals>>
        /\ OfflineMachine(u) \/ UNCHANGED online
    BY <1>t, OthersStay
  <1>r. RecoveriesLeft' = RecoveriesLeft
    <2>1. Handlers' = Handlers
      BY <1>1 DEF Handlers
    <2> QED
      BY <1>1, <2>1 DEF RecoveriesLeft
  <1>2. CASE UNCHANGED online
    <2>1. Gone(t)' => Gone(t)
      BY <1>1, <1>2 DEF Gone, OnlineSet
    <2> QED
      BY <1>1, <1>2, <1>r, <2>1, TriesKept
  <1>3. CASE OfflineMachine(u) /\ ~UNCHANGED online
    <2>1. Len(online') = Len(online) - 1
      BY <1>t, <1>3, OfflineMachineLength
    <2>2. /\ TriesLeft(t)' = NumMachines * RecoveriesLeft + (Len(online) - 1)
                               + IF Gone(t)' THEN 1 ELSE 0
          /\ TriesLeft(t) = NumMachines * RecoveriesLeft + Len(online)
                               + IF Gone(t) THEN 1 ELSE 0
      BY <1>r, <2>1 DEF TriesLeft
    <2>3. TriesLeft(t)' <= TriesLeft(t)
      <3> DEFINE base == NumMachines * RecoveriesLeft
      <3>1. base \in Nat
        BY <1>n
      <3> HIDE DEF base
      <3>2. CASE Gone(t)'
        BY ONLY <1>n, <2>2, <3>1, <3>2 DEF base
      <3>3. CASE ~Gone(t)'
        BY ONLY <1>n, <2>2, <3>1, <3>3 DEF base
      <3> QED
        BY <3>2, <3>3
    <2> QED
      BY <1>1, <2>3
  <1> QED
    BY <1>1, <1>2, <1>3

\* A recovery gives back at most the machines it was counted for.
LEMMA RecoveryNoFarther ==
  ASSUME IInv, MachinesPartitioned, ListsFull, NEW t \in Threads,
         NEW p \in Processes, Signal(p) \/ OnlineLock(p) \/ OnlineMachine(p)
  PROVE  /\ UNCHANGED <<pc[t], idx[t], num[t]>>
         /\ TriesLeft(t)' <= TriesLeft(t)
  <1>t. TypeOK /\ SnapshotStable
    BY DEF IInv
  <1>n. /\ Len(online) \in 0 .. NumMachines /\ RecoveriesLeft \in Nat
        /\ NumMachines * RecoveriesLeft \in Nat /\ NumMachines \in Nat
    BY StepsAreNumbers, MachinesAssumption
  <1>1. UNCHANGED <<pc, idx, num, sel>>
    BY DEF Signal, OnlineLock, OnlineMachine, locals
  <1>2. CASE Signal(p) \/ OnlineLock(p)
    <2>1. UNCHANGED online /\ RecoveriesLeft' = RecoveriesLeft
      BY <1>2, <1>t, RecoveriesStep DEF Signal, OnlineLock
    <2>2. Gone(t)' => Gone(t)
      BY <1>1, <2>1 DEF Gone, OnlineSet
    <2> QED
      BY <1>1, <2>1, <2>2, TriesKept
  <1>3. CASE OnlineMachine(p)
    <2>1. RecoveriesLeft' = RecoveriesLeft - 1 /\ Len(online') = NumMachines
      BY <1>3, <1>t, RecoveriesStep, OnlineMachineLength
    <2>2. ~Gone(t)'
      <3>1. OnlineSet' = Machines
        BY <1>3, <1>t, OnlineMachineRestores
      <3> QED
        BY <1>1, <1>t, <3>1 DEF Gone, SnapshotStable
    <2>3. TriesLeft(t)' = NumMachines * (RecoveriesLeft - 1) + NumMachines
      BY <1>n, <2>1, <2>2 DEF TriesLeft
    <2>4. NumMachines * (RecoveriesLeft - 1) + NumMachines
            = NumMachines * RecoveriesLeft
      BY <1>n
    <2>5. TriesLeft(t) >= NumMachines * RecoveriesLeft
      BY <1>n DEF TriesLeft
    <2>6. TriesLeft(t)' <= TriesLeft(t)
      <3> DEFINE base == NumMachines * RecoveriesLeft
      <3>1. base \in Nat /\ TriesLeft(t)' = base /\ TriesLeft(t) >= base
        BY <1>n, <2>3, <2>4, <2>5
      <3>2. TriesLeft(t) \in Nat
        BY StepsAreNumbers
      <3> HIDE DEF base
      <3> QED
        BY <3>1, <3>2
    <2> QED
      BY <1>1, <2>6
  <1> QED
    BY <1>2, <1>3

\* Every handler that runs was started by a signal of its own.
HandlersCounted == Cardinality(Handlers) <= signals

\* A handler comes with its signal.
LEMMA HandlersCountedStep ==
  ASSUME TypeOK, HandlersCounted, [Next]_vars
  PROVE  HandlersCounted'
  <1>n. /\ Cardinality(Handlers) \in Nat /\ signals \in Nat
        /\ MaxSignals \in Nat /\ IsFiniteSet(Handlers)
    BY RecoveriesAreNumbers, BoundAssumption DEF TypeOK
  <1>1. ASSUME NEW p \in Processes, Signal(p) PROVE HandlersCounted'
    <2>1. Handlers' = Handlers \cup {p} /\ p \notin Handlers
      BY <1>1 DEF Signal, Handlers, TypeOK
    <2>2. Cardinality(Handlers') = Cardinality(Handlers) + 1
      BY <1>n, <2>1, FS_AddElement
    <2> QED
      BY <1>1, <1>n, <2>2 DEF Signal, HandlersCounted
  <1>2. ASSUME NEW p \in Processes, OnlineLock(p) \/ OnlineMachine(p)
        PROVE  HandlersCounted'
    <2>1. Handlers' \subseteq Handlers /\ signals' = signals
      BY <1>2 DEF OnlineLock, OnlineMachine, Handlers, TypeOK
    <2>2. /\ Cardinality(Handlers') <= Cardinality(Handlers)
          /\ Cardinality(Handlers') \in Nat
      BY <1>n, <2>1, FS_Subset, FS_CardinalityType
    <2> QED
      BY <1>n, <2>1, <2>2 DEF HandlersCounted
  <1>3. ASSUME NEW t \in Threads, Request(t) \/ Judge(t)
        PROVE  UNCHANGED <<hpc, signals>>
    BY <1>3, OthersStay
  <1>4. UNCHANGED vars => UNCHANGED <<hpc, signals>>
    BY DEF vars
  <1>5. UNCHANGED <<hpc, signals>> => HandlersCounted'
    BY DEF HandlersCounted, Handlers
  <1> QED
    BY <1>1, <1>2, <1>3, <1>4, <1>5 DEF Next, Recovery

\* No handler runs when the server starts.
LEMMA HandlersCountedInit == Init => HandlersCounted
  <1> SUFFICES ASSUME Init PROVE HandlersCounted
    OBVIOUS
  <1>1. Handlers = {}
    BY DEF Init, Handlers
  <1> QED
    BY <1>1, FS_EmptySet DEF Init, HandlersCounted

\* The tries of a judge and its steps within a turn are bounded.
TriesMost == NumMachines * (MaxSignals + 1) + 1

MeasuresBounded ==
  \A t \in Threads :
    TriesLeft(t) \in 0 .. TriesMost /\ StepsLeft(t) \in 0 .. Turn

\* At most all machines are online, at first and after each recovery.
LEMMA MeasuresAreBounded ==
  ASSUME IInv, ListsFull, HandlersCounted
  PROVE  MeasuresBounded
  <1> SUFFICES ASSUME NEW t \in Threads
               PROVE  /\ TriesLeft(t) \in 0 .. TriesMost
                      /\ StepsLeft(t) \in 0 .. Turn
    BY DEF MeasuresBounded
  <1>1. /\ TriesLeft(t) \in Nat /\ StepsLeft(t) \in 0 .. Turn
        /\ Len(online) \in 0 .. NumMachines
        /\ RecoveriesLeft \in Nat
    BY StepsAreNumbers
  <1>2. RecoveriesLeft <= MaxSignals
    BY RecoveriesAreNumbers, BoundAssumption
    DEF RecoveriesLeft, HandlersCounted, IInv, TypeOK
  <1>3. NumMachines * RecoveriesLeft <= NumMachines * MaxSignals
    BY <1>1, <1>2, MachinesAssumption, BoundAssumption, TurnsWeighMore
  <1>4. /\ NumMachines * RecoveriesLeft \in Int
        /\ NumMachines * MaxSignals \in Int
        /\ NumMachines * (MaxSignals + 1) = NumMachines * MaxSignals + NumMachines
    BY <1>1, MachinesAssumption, BoundAssumption
  <1>5. TriesLeft(t) <= TriesMost
    <2> DEFINE x == NumMachines * RecoveriesLeft
               y == NumMachines * MaxSignals
               g == IF Gone(t) THEN 1 ELSE 0
    <2>1. TriesLeft(t) = x + Len(online) + g /\ g \in 0 .. 1
      BY DEF TriesLeft
    <2>2. TriesMost = y + NumMachines + 1
      BY <1>4 DEF TriesMost
    <2>3. x \in Int /\ y \in Int /\ x <= y
      BY <1>3, <1>4
    <2> HIDE DEF x, y, g
    <2> QED
      BY <1>1, <2>1, <2>2, <2>3, MachinesAssumption
  <1>6. TriesMost \in Nat
    BY MachinesAssumption, BoundAssumption DEF TriesMost
  <1> QED
    BY <1>1, <1>5, <1>6

\* Every step of a judge lowers what remains, every other step leaves it.
LEMMA RunOutStep ==
  ASSUME IInv, MachinesPartitioned, ListsFull, MeasuresBounded,
         MeasuresBounded', [Next]_vars, NEW t \in Threads,
         "error" \notin PostReplies, pc[t] # "idle"
  PROVE  /\ Remaining(t)' <= Remaining(t)
         /\ <<pc[t], idx[t]>>' # <<pc[t], idx[t]>> =>
              Remaining(t)' < Remaining(t)
  <1> DEFINE a == TriesLeft(t)
             r == StepsLeft(t)
             b == TriesLeft(t)'
             s == StepsLeft(t)'
  <1>1. a \in Nat /\ r \in Int /\ Turn \in Nat
    BY StepsAreNumbers
  <1>2. b \in Nat /\ s \in Int
    BY <1>1 DEF MeasuresBounded
  <1>3. Remaining(t) = Turn * a + r /\ Remaining(t)' = Turn * b + s
    BY DEF Remaining
  <1>4. /\ b <= a /\ s <= r => Turn * b + s <= Turn * a + r
        /\ b <= a /\ s < r => Turn * b + s < Turn * a + r
        /\ b < a /\ s < Turn + r => Turn * b + s < Turn * a + r
    <2> HIDE DEF a, b, r, s
    <2> QED
      BY <1>1, <1>2, TurnsWeighMore
  <1>5. Turn * a + r \in Int /\ Turn * b + s \in Int
    <2> HIDE DEF a, b, r, s
    <2> QED
      BY <1>1, <1>2
  <1>6. ASSUME Judge(t) PROVE Turn * b + s < Turn * a + r
    BY <1>4, <1>6, OwnStepNearer
  <1>7. ASSUME UNCHANGED <<pc[t], idx[t], num[t]>>, b <= a
        PROVE  /\ Turn * b + s <= Turn * a + r
               /\ <<pc[t], idx[t]>>' = <<pc[t], idx[t]>>
    <2>1. s = r
      BY <1>7, StepsKept
    <2> QED
      BY <1>1, <1>2, <1>4, <1>7, <2>1
  <1>8. ASSUME NEW u \in Threads \ {t}, Request(u) \/ Judge(u)
        PROVE  UNCHANGED <<pc[t], idx[t], num[t]>> /\ b <= a
    BY <1>8, OtherStepNoFarther
  <1>9. ASSUME NEW p \in Processes, Signal(p) \/ Recovery(p)
        PROVE  UNCHANGED <<pc[t], idx[t], num[t]>> /\ b <= a
    BY <1>9, RecoveryNoFarther DEF Recovery
  <1>10. ASSUME UNCHANGED vars
         PROVE  UNCHANGED <<pc[t], idx[t], num[t]>> /\ b <= a
    <2>1. UNCHANGED <<pc, idx, num, sel, online, hpc, signals>>
      BY <1>10 DEF vars, locals
    <2>2. TriesLeft(t)' = TriesLeft(t)
      BY <2>1 DEF TriesLeft, RecoveriesLeft, Handlers, Gone, OnlineSet
    <2> QED
      BY <1>1, <2>1, <2>2
  <1>11. ~Request(t)
    BY DEF Request, At
  <1> HIDE DEF a, b, r, s
  <1>12. CASE Judge(t)
    BY <1>3, <1>5, <1>6, <1>12
  <1>13. CASE ~Judge(t)
    BY <1>3, <1>7, <1>8, <1>9, <1>10, <1>11, <1>13 DEF Next
  <1> QED
    BY <1>12, <1>13

\* The lists hold every machine, and the measures are bounded, in every state.
LEMMA MeasuresCorrect ==
  Spec => [](IInv /\ MachinesPartitioned /\ ListsFull /\ MeasuresBounded)
  <1>1. TypeOK /\ ListsFull /\ [Next]_vars => ListsFull'
    BY ListsFullStep
  <1>2. TypeOK /\ HandlersCounted /\ [Next]_vars => HandlersCounted'
    BY HandlersCountedStep
  <1>3. IInv /\ ListsFull /\ HandlersCounted => MeasuresBounded
    BY MeasuresAreBounded
  <1> QED
    BY <1>1, <1>2, <1>3, ListsFullInit, HandlersCountedInit, TypeCorrect,
       DispatchInvariant, PartitionCorrect, PTL DEF Spec

\* Every step of a judge brings its end nearer and no other step puts it off,
\* for any number of workers, machines and recoveries: a judge whose steps are
\* taken is answered, unless a compile server keeps answering with errors.
THEOREM RunOutCorrect == Spec => JudgesRunOut
  <1> DEFINE Runs == \A t \in Threads :
        "error" \notin PostReplies /\ pc[t] # "idle" =>
          /\ Remaining(t)' <= Remaining(t)
          /\ <<pc[t], idx[t]>>' # <<pc[t], idx[t]>> =>
               Remaining(t)' < Remaining(t)
  <1>1. /\ IInv /\ MachinesPartitioned /\ ListsFull /\ MeasuresBounded
        /\ MeasuresBounded' /\ [Next]_vars
        => [Runs]_vars
    BY RunOutStep
  <1> QED
    BY <1>1, MeasuresCorrect, PTL DEF Spec, JudgesRunOut

\* What remains of a judge is bounded by the configuration alone.  With
\* RunOutCorrect: a judge takes at most this many steps from its request to its
\* answer, however many workers it shares the machines with.
StepBound == Turn * TriesMost + Turn

THEOREM RemainingBounded ==
  Spec => [](\A t \in Threads : Remaining(t) \in 0 .. StepBound)
  <1>1. IInv /\ ListsFull /\ MeasuresBounded
        => \A t \in Threads : Remaining(t) \in 0 .. StepBound
    <2> SUFFICES ASSUME IInv, ListsFull, MeasuresBounded, NEW t \in Threads
                 PROVE  Remaining(t) \in 0 .. StepBound
      OBVIOUS
    <2> DEFINE a == TriesLeft(t)
               r == StepsLeft(t)
    <2>1. Turn \in Nat /\ TriesMost \in Nat
      BY MachinesAssumption, BoundAssumption DEF Turn, TriesMost
    <2>2. a \in 0 .. TriesMost /\ r \in 0 .. Turn
      BY DEF MeasuresBounded
    <2> HIDE DEF a, r
    <2>3. Turn * a + r <= Turn * TriesMost + Turn
      BY <2>1, <2>2, TurnsWeighMore
    <2>4. Turn * a + r \in Nat /\ Turn * TriesMost + Turn \in Nat
      BY <2>1, <2>2
    <2>5. Turn * a + r \in 0 .. Turn * TriesMost + Turn
      BY <2>3, <2>4
    <2> QED
      BY <2>5 DEF Remaining, StepBound, a, r
  <1> QED
    BY <1>1, MeasuresCorrect, PTL

=============================================================================
