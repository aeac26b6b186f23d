-------------------------- MODULE JudgeClusterProofs --------------------------
(***************************************************************************)
(* Proofs about JudgeCluster, for any judges, machines, workers, crashes   *)
(* and recoveries: whose result a judge shows, how often a machine is      *)
(* given a program, what takes a machine offline, and that the whole       *)
(* implements JudgeService.                                                *)
(***************************************************************************)
EXTENDS JudgeCluster, SequenceTheorems, FiniteSetTheorems, TLAPS

-----------------------------------------------------------------------------
(***************************************************************************)
(* What the steps do to the tries.                                         *)
(***************************************************************************)
Places == {"idle", "choose", "wait", "offline", "done"}

LEMMA TriesAre ==
  ASSUME TypeOK, NEW i \in Judges
  PROVE  /\ tries[i] \in Seq(Attempts)
         /\ Last(i) \in Nat /\ DOMAIN tries[i] = 1 .. Last(i)
         /\ \A k \in 1 .. Last(i) : tries[i][k] \in Attempts
  <1>1. tries[i] \in Seq(Attempts)
    BY DEF TypeOK
  <1>2. Last(i) \in Nat /\ DOMAIN tries[i] = 1 .. Last(i)
    BY <1>1, LenProperties DEF Last
  <1> QED
    BY <1>1, <1>2, ElementOfSeq DEF Last

LEMMA AttemptIs ==
  /\ \A a \in Attempts : a.at \in Machines /\ a.state \in States
  /\ \A a \in Attempts, s \in States :
       /\ [a EXCEPT !.state = s] \in Attempts
       /\ [a EXCEPT !.state = s].at = a.at
       /\ [a EXCEPT !.state = s].state = s
  /\ \A m \in Machines, s \in States : [at |-> m, state |-> s] \in Attempts
  BY DEF Attempts

\* Judge i has the tries it had, each at the machine it was at.
Same(i) ==
  /\ Last(i)' = Last(i)
  /\ \A k \in 1 .. Last(i) : tries'[i][k].at = tries[i][k].at

\* Only try n of judge j changes its state.
LEMMA BecomesOne ==
  ASSUME TypeOK, NEW j \in Judges, NEW n \in DOMAIN tries[j],
         NEW s \in States, Becomes(j, n, s)
  PROVE  /\ tries' \in [Judges -> Seq(Attempts)]
         /\ \A i \in Judges : Same(i)
         /\ \A i \in Judges, k \in Nat :
              k \in 1 .. Last(i) /\ <<i, k>> # <<j, n>> =>
                tries'[i][k].state = tries[i][k].state
         /\ tries'[j][n].state = s
  <1> DEFINE r == [tries[j][n] EXCEPT !.state = s]
             u == [tries[j] EXCEPT ![n] = r]
  <1>1. /\ tries[j] \in Seq(Attempts) /\ n \in 1 .. Len(tries[j])
        /\ tries[j][n] \in Attempts
    BY TriesAre DEF Last
  <1>2. r \in Attempts /\ r.at = tries[j][n].at /\ r.state = s
    BY <1>1, AttemptIs
  <1>3. tries' = [tries EXCEPT ![j] = u]
    BY DEF Becomes
  <1> HIDE DEF r
  <1>4. /\ u \in Seq(Attempts) /\ Len(u) = Len(tries[j])
        /\ \A k \in 1 .. Len(tries[j]) : u[k] = IF k = n THEN r ELSE tries[j][k]
    BY <1>1, <1>2, ExceptSeq
  <1> HIDE DEF u
  <1>5. tries' \in [Judges -> Seq(Attempts)] /\ tries'[j] = u
        /\ \A i \in Judges : i # j => tries'[i] = tries[i]
    BY <1>3, <1>4 DEF TypeOK
  <1>6. \A i \in Judges : Same(i)
    BY <1>1, <1>2, <1>4, <1>5 DEF Same, Last
  <1>7. \A i \in Judges, k \in Nat :
          k \in 1 .. Last(i) /\ <<i, k>> # <<j, n>> =>
            tries'[i][k].state = tries[i][k].state
    BY <1>4, <1>5 DEF Last
  <1> QED
    BY <1>1, <1>2, <1>4, <1>5, <1>6, <1>7

\* One more try of judge j.
LEMMA ChooseOne ==
  ASSUME TypeOK, NEW j \in Judges, Choose(j)
  PROVE  /\ tries' \in [Judges -> Seq(Attempts)]
         /\ \A i \in Judges \ {j} : tries'[i] = tries[i]
         /\ Last(j)' = Last(j) + 1
         /\ \A k \in 1 .. Last(j) : tries'[j][k] = tries[j][k]
         /\ \E m \in up : \E s \in {"queued", "lost"} :
              /\ Current(j)' = [at |-> m, state |-> s]
              /\ s = "lost" => m \notin alive
  <1>1. PICK m \in up, s \in {"queued", "lost"} :
          /\ tries' = [tries EXCEPT ![j] = Append(@, [at |-> m, state |-> s])]
          /\ s = "lost" => m \notin alive
    BY DEF Choose
  <1> DEFINE a == [at |-> m, state |-> s]
             u == Append(tries[j], a)
  <1>2. a \in Attempts
    BY AttemptIs DEF TypeOK, States
  <1>3. tries' = [tries EXCEPT ![j] = u]
    BY <1>1
  <1> HIDE DEF a
  <1>4. /\ u \in Seq(Attempts) /\ Len(u) = Len(tries[j]) + 1
        /\ \A k \in 1 .. Len(tries[j]) : u[k] = tries[j][k]
        /\ u[Len(tries[j]) + 1] = a
    BY <1>2, TriesAre, AppendProperties
  <1> HIDE DEF u
  <1>5. /\ tries' \in [Judges -> Seq(Attempts)] /\ tries'[j] = u
        /\ \A i \in Judges \ {j} : tries'[i] = tries[i]
    BY <1>3, <1>4 DEF TypeOK
  <1>6. Current(j)' = a
    BY <1>4, <1>5 DEF Current, Last
  <1> QED
    BY <1>1, <1>4, <1>5, <1>6 DEF Last, a

\* A crash loses tries of its machine.
LEMMA CrashLoses ==
  ASSUME TypeOK, NEW m \in Machines, Crash(m)
  PROVE  /\ tries' \in [Judges -> Seq(Attempts)]
         /\ \A i \in Judges : Same(i)
         /\ \A i \in Judges, k \in Nat : k \in 1 .. Last(i) =>
              \/ tries'[i][k].state = tries[i][k].state
              \/ /\ tries'[i][k].state = "lost"
                 /\ tries[i][k].state # "answered"
                 /\ tries[i][k].at = m
  <1> DEFINE new(i, k) ==
        IF tries[i][k].at = m /\ tries[i][k].state \in {"queued", "running"}
          THEN [tries[i][k] EXCEPT !.state = "lost"] ELSE tries[i][k]
  <1>1. tries' = [i \in Judges |-> [k \in DOMAIN tries[i] |-> new(i, k)]]
    BY DEF Crash
  <1>2. ASSUME NEW i \in Judges
        PROVE  /\ tries'[i] \in Seq(Attempts) /\ Last(i)' = Last(i)
               /\ \A k \in 1 .. Last(i) : tries'[i][k] = new(i, k)
               /\ \A k \in 1 .. Last(i) : new(i, k) \in Attempts
    <2>1. \A k \in 1 .. Last(i) : new(i, k) \in Attempts
      BY TriesAre, AttemptIs DEF States
    <2>2. tries'[i] = [k \in 1 .. Last(i) |-> new(i, k)] /\ Last(i) \in Nat
      BY <1>1, TriesAre
    <2> HIDE DEF new
    <2>3. tries'[i] \in [1 .. Last(i) -> Attempts]
      BY <2>1, <2>2
    <2>4. tries'[i] \in Seq(Attempts)
      BY <2>2, <2>3, SeqDef
    <2>5. Last(i)' = Last(i)
      BY <2>2, <2>3, <2>4, LenProperties DEF Last
    <2> QED
      BY <2>1, <2>2, <2>4, <2>5
  <1>3. tries' \in [Judges -> Seq(Attempts)]
    <2>1. DOMAIN tries' = Judges /\ tries' = [i \in Judges |-> tries'[i]]
      BY <1>1
    <2> QED
      BY <1>2, <2>1
  <1>4. ASSUME NEW i \in Judges, NEW k \in 1 .. Last(i)
        PROVE  /\ tries'[i][k].at = tries[i][k].at
               /\ \/ tries'[i][k].state = tries[i][k].state
                  \/ /\ tries'[i][k].state = "lost"
                     /\ tries[i][k].state # "answered"
                     /\ tries[i][k].at = m
    <2>1. tries[i][k] \in Attempts /\ tries'[i][k] = new(i, k)
      BY <1>2, TriesAre
    <2> QED
      BY <2>1, AttemptIs DEF States
  <1> QED
    BY <1>2, <1>3, <1>4 DEF Same

-----------------------------------------------------------------------------
(***************************************************************************)
(* The inductive invariant.                                                *)
(***************************************************************************)
\* A judge that waits has made a try, and one that ended has an answer.
PlacesFit ==
  \A j \in Judges :
    /\ pc[j] \in {"wait", "offline"} => Last(j) > 0
    /\ answer[j] = "none" <=> pc[j] # "done"

\* A judge concerns machine m, and may still concern it again.
Concerns(j, m) == pc[j] \in {"wait", "offline"} /\ Current(j).at = m

TriesAt(j, m) == {n \in DOMAIN tries[j] : tries[j][n].at = m}

\* A machine that is online and that judge j does not concern has a try of it
\* to give.
Paced ==
  \A j \in Judges, m \in Machines :
    /\ Cardinality(TriesAt(j, m)) <= recoveries + 1
    /\ m \in up /\ ~Concerns(j, m) /\ pc[j] # "done" =>
         Cardinality(TriesAt(j, m)) <= recoveries

Cause(m) ==
  \/ m \in struck
  \/ \E j \in stuck : \E n \in DOMAIN tries[j] : tries[j][n].at = m

\* What makes a judge give up on a try that nothing else holds up is the crash
\* of the machine or a program that does not end.
Caused ==
  /\ Machines \ alive \subseteq struck
  /\ \A j \in Judges :
       pc[j] = "wait" /\ Current(j).state = "lost" => Current(j).at \in struck
  /\ prompt => \A j \in Judges : pc[j] = "offline" => Cause(Current(j).at)
  /\ DownHasCause

IInv == TypeOK /\ PlacesFit /\ ResultIsOfLastTry /\ Paced /\ Caused

LEMMA InitInv == Init => IInv
  <1> SUFFICES ASSUME Init PROVE IInv
    OBVIOUS
  <1> USE DEF Init
  <1>1. /\ << >> \in Seq(Attempts) /\ DOMAIN << >> = {}
        /\ \A j \in Judges : tries[j] = << >>
    BY EmptySeq, LenProperties
  <1>2. TypeOK
    BY <1>1, BoundAssumption DEF TypeOK
  <1>3. PlacesFit
    BY DEF PlacesFit
  <1>4. ResultIsOfLastTry
    BY <1>1 DEF ResultIsOfLastTry
  <1>5. Paced
    <2>1. \A j \in Judges, m \in Machines : TriesAt(j, m) = {}
      BY <1>1 DEF TriesAt
    <2>2. \A j \in Judges, m \in Machines : Cardinality(TriesAt(j, m)) = 0
      BY <2>1, FS_EmptySet
    <2> QED
      BY <2>2 DEF Paced
  <1>6. Caused
    BY DEF Caused, DownHasCause
  <1> QED
    BY <1>2, <1>3, <1>4, <1>5, <1>6 DEF IInv

-----------------------------------------------------------------------------
LEMMA Moved ==
  ASSUME TypeOK, NEW j \in Judges, NEW from, NEW to \in Places,
         Move(j, from, to)
  PROVE  /\ pc[j] = from /\ pc'[j] = to
         /\ \A i \in Judges \ {j} : pc'[i] = pc[i]
         /\ pc' \in [Judges -> Places]
  BY DEF Move, TypeOK, Places

\* Take and Reply act on one try.
LEMMA ServeOne ==
  ASSUME TypeOK, NEW j \in Judges, NEW n \in DOMAIN tries[j],
         Take(j, n) \/ Reply(j, n)
  PROVE  \E s \in States : Becomes(j, n, s)
  BY DEF Take, Reply, States

LEMMA TypeStep == TypeOK /\ [Next]_vars => TypeOK'
  <1> SUFFICES ASSUME TypeOK, [Next]_vars PROVE TypeOK'
    OBVIOUS
  <1> USE DEF TypeOK, Places
  <1>1. ASSUME NEW j \in Judges, Submit(j) PROVE TypeOK'
    <2>1. pc' \in [Judges -> Places]
      BY <1>1, Moved DEF Submit
    <2> QED
      BY <1>1, <2>1 DEF Submit, bounded
  <1>2. ASSUME NEW j \in Judges, Choose(j) PROVE TypeOK'
    <2>1. pc' \in [Judges -> Places]
      BY <1>2, Moved DEF Choose
    <2>2. tries' \in [Judges -> Seq(Attempts)]
      BY <1>2, ChooseOne
    <2> QED
      BY <1>2, <2>1, <2>2 DEF Choose, bounded
  <1>3. ASSUME NEW j \in Judges, GiveUp(j) \/ NoReply(j) \/ OfflineMachine(j)
        PROVE  TypeOK'
    <2>1. pc' \in [Judges -> Places]
      BY <1>3, Moved DEF GiveUp, NoReply, OfflineMachine
    <2> QED
      BY <1>3, <2>1 DEF GiveUp, NoReply, OfflineMachine, bounded
  <1>4. ASSUME NEW j \in Judges, NEW n \in DOMAIN tries[j],
               Take(j, n) \/ Reply(j, n)
        PROVE  TypeOK'
    <2>1. tries' \in [Judges -> Seq(Attempts)]
      BY <1>4, ServeOne, BecomesOne
    <2> QED
      BY <1>4, <2>1 DEF Take, Reply, bounded
  <1>5. ASSUME NEW m \in Machines, Crash(m) PROVE TypeOK'
    <2>1. tries' \in [Judges -> Seq(Attempts)]
      BY <1>5, CrashLoses
    <2>2. crashes' \in 0 .. MaxCrashes
      BY <1>5, BoundAssumption DEF Crash
    <2> QED
      BY <1>5, <2>1, <2>2 DEF Crash
  <1>6. ASSUME NEW m \in Machines, Start(m) PROVE TypeOK'
    BY <1>6 DEF Start, bounded
  <1>7. CASE RecoveryMachine
    <2>1. recoveries' \in 0 .. MaxRecoveries
      BY <1>7, BoundAssumption DEF RecoveryMachine
    <2> QED
      BY <1>7, <2>1 DEF RecoveryMachine
  <1>8. CASE UNCHANGED vars
    BY <1>8 DEF vars, bounded
  <1> QED
    BY <1>1, <1>2, <1>3, <1>4, <1>5, <1>6, <1>7, <1>8
    DEF Next, Dispatch, Serve

\* No step takes a try back or moves it to another machine, and the steps that
\* add none are all but Choose.
LEMMA TriesStay ==
  ASSUME TypeOK, [Next]_vars
  PROVE  /\ \A i \in Judges :
              /\ 1 .. Last(i) \subseteq 1 .. Last(i)'
              /\ \A k \in 1 .. Last(i) : tries'[i][k].at = tries[i][k].at
         /\ \A i \in Judges : Same(i) \/ Choose(i)
         /\ stuck \subseteq stuck' /\ struck \subseteq struck'
         /\ prompt' = prompt
  <1>0. \A i \in Judges : Last(i) \in Nat
    BY TriesAre
  <1>1. ASSUME NEW j \in Judges, Choose(j)
        PROVE  /\ \A i \in Judges \ {j} : Same(i)
               /\ Last(j)' = Last(j) + 1
               /\ \A k \in 1 .. Last(j) : tries'[j][k].at = tries[j][k].at
               /\ UNCHANGED <<stuck, struck, prompt>>
    BY <1>1, ChooseOne DEF Choose, Same, Last
  <1>2. ASSUME NEW j \in Judges, NEW n \in DOMAIN tries[j],
               Take(j, n) \/ Reply(j, n)
        PROVE  /\ \A i \in Judges : Same(i)
               /\ UNCHANGED <<stuck, struck, prompt>>
    <2>1. \A i \in Judges : Same(i)
      BY <1>2, ServeOne, BecomesOne
    <2> QED
      BY <1>2, <2>1 DEF Take, Reply
  <1>3. ASSUME NEW m \in Machines, Crash(m)
        PROVE  /\ \A i \in Judges : Same(i)
               /\ stuck \subseteq stuck' /\ struck \subseteq struck'
               /\ prompt' = prompt
    <2>1. \A i \in Judges : Same(i)
      BY <1>3, CrashLoses
    <2> QED
      BY <1>3, <2>1 DEF Crash
  <1>4. ASSUME tries' = tries PROVE \A i \in Judges : Same(i)
    BY <1>4 DEF Same, Last
  <1>5. ASSUME NEW j \in Judges,
               Submit(j) \/ GiveUp(j) \/ NoReply(j) \/ OfflineMachine(j)
        PROVE  /\ UNCHANGED <<tries, struck, prompt>>
               /\ stuck \subseteq stuck'
    BY <1>5 DEF Submit, GiveUp, NoReply, OfflineMachine
  <1>6. ASSUME NEW m \in Machines, Start(m)
        PROVE  UNCHANGED <<tries, stuck, struck, prompt>>
    BY <1>6 DEF Start
  <1>7. RecoveryMachine \/ UNCHANGED vars =>
          UNCHANGED <<tries, stuck, struck, prompt>>
    BY DEF RecoveryMachine, vars
  <1>8. /\ \A i \in Judges : Same(i) \/ Choose(i)
        /\ stuck \subseteq stuck' /\ struck \subseteq struck'
        /\ prompt' = prompt
    BY <1>1, <1>2, <1>3, <1>4, <1>5, <1>6, <1>7 DEF Next, Dispatch, Serve
  <1>9. ASSUME NEW i \in Judges
        PROVE  /\ 1 .. Last(i) \subseteq 1 .. Last(i)'
               /\ \A k \in 1 .. Last(i) : tries'[i][k].at = tries[i][k].at
    <2>1. CASE Same(i)
      BY <2>1 DEF Same
    <2>2. CASE Choose(i)
      BY <1>0, <1>1, <2>2
    <2> QED
      BY <1>8, <2>1, <2>2
  <1> QED
    BY <1>8, <1>9

LEMMA CauseStays ==
  ASSUME TypeOK, TypeOK', [Next]_vars, NEW m, Cause(m)
  PROVE  Cause(m)'
  <1>1. stuck \subseteq Judges
    BY DEF TypeOK
  <1>2. CASE m \in struck
    BY <1>2, TriesStay DEF Cause
  <1>3. CASE \E j \in stuck : \E n \in DOMAIN tries[j] : tries[j][n].at = m
    <2>1. PICK j \in stuck : \E n \in DOMAIN tries[j] : tries[j][n].at = m
      BY <1>3
    <2>2. PICK n \in DOMAIN tries[j] : tries[j][n].at = m
      BY <2>1
    <2>3. j \in Judges /\ n \in 1 .. Last(j)
      BY <1>1, <2>2, TriesAre
    <2>4. DOMAIN tries'[j] = 1 .. Last(j)'
      <3>1. tries'[j] \in Seq(Attempts)
        BY <2>3 DEF TypeOK
      <3> QED
        BY <3>1, LenProperties DEF Last
    <2>5. n \in DOMAIN tries'[j] /\ tries'[j][n].at = m /\ j \in stuck'
      BY <2>2, <2>3, <2>4, TriesStay
    <2> QED
      BY <2>5 DEF Cause
  <1> QED
    BY <1>2, <1>3 DEF Cause

-----------------------------------------------------------------------------
\* A judge that a step of another one passes by: nothing of it changes but the
\* states of its tries.
LEMMA PlacesStep ==
  TypeOK /\ TypeOK' /\ PlacesFit /\ [Next]_vars => PlacesFit'
  <1> SUFFICES ASSUME TypeOK, TypeOK', PlacesFit, [Next]_vars,
                      NEW i \in Judges
               PROVE  /\ pc'[i] \in {"wait", "offline"} => Last(i)' > 0
                      /\ answer'[i] = "none" <=> pc'[i] # "done"
    BY DEF PlacesFit
  <1>t. /\ Last(i) \in Nat /\ Last(i)' \in Nat
        /\ Last(i) > 0 => Last(i)' > 0
    <2>1. Last(i) \in Nat
      BY TriesAre
    <2>2. Last(i)' \in Nat
      <3>1. tries'[i] \in Seq(Attempts)
        BY DEF TypeOK
      <3> QED
        BY <3>1, LenProperties DEF Last
    <2>3. 1 .. Last(i) \subseteq 1 .. Last(i)'
      BY TriesStay
    <2> QED
      BY <2>1, <2>2, <2>3
  <1>p. /\ pc[i] \in {"wait", "offline"} => Last(i) > 0
        /\ answer[i] = "none" <=> pc[i] # "done"
    BY DEF PlacesFit
  <1>k. ASSUME UNCHANGED <<pc[i], answer[i]>>
        PROVE  /\ pc'[i] \in {"wait", "offline"} => Last(i)' > 0
               /\ answer'[i] = "none" <=> pc'[i] # "done"
    BY <1>k, <1>t, <1>p
  <1>1. ASSUME NEW j \in Judges, Submit(j) \/ Dispatch(j)
        PROVE  \/ UNCHANGED <<pc[i], answer[i]>>
               \/ /\ pc'[i] \in {"wait", "offline"} => Last(i)' > 0
                  /\ answer'[i] = "none" <=> pc'[i] # "done"
    <2>1. CASE i # j
      <3>1. pc'[i] = pc[i]
        BY <1>1, <2>1 DEF Submit, Dispatch, Choose, GiveUp, NoReply,
           OfflineMachine, Move, TypeOK
      <3>2. answer'[i] = answer[i]
        BY <1>1, <2>1 DEF Submit, Dispatch, Choose, GiveUp, NoReply,
           OfflineMachine, TypeOK
      <3> QED
        BY <3>1, <3>2
    <2>2. CASE i = j
      <3>1. CASE Submit(j) \/ OfflineMachine(j)
        <4>1. pc[i] # "done" /\ pc'[i] = "choose" /\ answer'[i] = answer[i]
          BY <2>2, <3>1 DEF Submit, OfflineMachine, Move, TypeOK
        <4> QED
          BY <4>1, <1>p
      <3>2. CASE Choose(j)
        <4>1. pc[i] = "choose" /\ pc'[i] = "wait" /\ answer'[i] = answer[i]
          BY <2>2, <3>2 DEF Choose, Move, TypeOK
        <4>2. Last(i)' = Last(i) + 1
          BY <2>2, <3>2, ChooseOne
        <4> QED
          BY <4>1, <4>2, <1>p, <1>t
      <3>3. CASE GiveUp(j)
        BY <2>2, <3>3 DEF GiveUp, Move, TypeOK
      <3>4. CASE NoReply(j)
        <4>1. pc[i] = "wait" /\ pc'[i] = "offline" /\ answer'[i] = answer[i]
          BY <2>2, <3>4 DEF NoReply, Move, TypeOK
        <4> QED
          BY <4>1, <1>p, <1>t
      <3> QED
        BY <1>1, <3>1, <3>2, <3>3, <3>4 DEF Dispatch
    <2> QED
      BY <2>1, <2>2
  <1>2. ASSUME NEW j \in Judges, NEW n \in DOMAIN tries[j], Take(j, n)
        PROVE  UNCHANGED <<pc[i], answer[i]>>
    BY <1>2 DEF Take
  <1>3. ASSUME NEW j \in Judges, NEW n \in DOMAIN tries[j], Reply(j, n)
        PROVE  \/ UNCHANGED <<pc[i], answer[i]>>
               \/ pc'[i] = "done" /\ answer'[i] = "result"
    BY <1>3 DEF Reply, TypeOK
  <1>4. ASSUME NEW m \in Machines, Crash(m) \/ Start(m)
        PROVE  UNCHANGED <<pc[i], answer[i]>>
    BY <1>4 DEF Crash, Start
  <1>5. RecoveryMachine \/ UNCHANGED vars => UNCHANGED <<pc[i], answer[i]>>
    BY DEF RecoveryMachine, vars
  <1> QED
    BY <1>k, <1>1, <1>2, <1>3, <1>4, <1>5 DEF Next, Serve

-----------------------------------------------------------------------------
(***************************************************************************)
(* A result is that of the last try.                                       *)
(***************************************************************************)
\* Judge i has its result from its last try, or has none.
FromLast(i) ==
  \A n \in 1 .. Last(i) :
    tries[i][n].state = "answered" <=> n = Last(i) /\ answer[i] = "result"

\* A judge whose tries keep their states, answered or not, keeps its result.
LEMMA FromLastKept ==
  ASSUME NEW i \in Judges, FromLast(i), Same(i), answer'[i] = answer[i],
         \A k \in 1 .. Last(i) :
           tries'[i][k].state = "answered" <=> tries[i][k].state = "answered"
  PROVE  FromLast(i)'
  BY DEF FromLast, Same

LEMMA ResultStep ==
  TypeOK /\ TypeOK' /\ PlacesFit /\ ResultIsOfLastTry /\ [Next]_vars
    => ResultIsOfLastTry'
  <1> SUFFICES ASSUME TypeOK, TypeOK', PlacesFit, ResultIsOfLastTry,
                      [Next]_vars
               PROVE  ResultIsOfLastTry'
    OBVIOUS
  <1> SUFFICES ASSUME NEW i \in Judges PROVE FromLast(i)'
    <2>1. ASSUME NEW j \in Judges PROVE DOMAIN tries'[j] = 1 .. Last(j)'
      <3>1. tries'[j] \in Seq(Attempts)
        BY DEF TypeOK
      <3> QED
        BY <3>1, LenProperties DEF Last
    <2> QED
      BY <2>1 DEF ResultIsOfLastTry, FromLast
  <1>f. FromLast(i)
    BY TriesAre DEF ResultIsOfLastTry, FromLast
  <1>l. Last(i) \in Nat
    BY TriesAre
  <1>1. ASSUME NEW j \in Judges, Choose(j) PROVE FromLast(i)'
    <2>1. CASE i # j
      BY <1>1, <1>f, <2>1, ChooseOne DEF Choose, FromLast, Last
    <2>2. CASE i = j
      <3>1. /\ answer'[i] = "none" /\ answer[i] = "none"
            /\ Last(i)' = Last(i) + 1
            /\ \A k \in 1 .. Last(i) : tries'[i][k] = tries[i][k]
        BY <1>1, <2>2, ChooseOne DEF Choose, Move, PlacesFit
      <3>2. tries'[i][Last(i)'].state # "answered"
        <4>1. PICK m \in up, s \in {"queued", "lost"} :
                Current(j)' = [at |-> m, state |-> s]
          BY <1>1, ChooseOne
        <4>2. tries'[i][Last(i)'] = [at |-> m, state |-> s]
          BY <2>2, <4>1 DEF Current
        <4>3. tries'[i][Last(i)'].state = s
          BY <4>2
        <4> QED
          BY <4>3
      <3>3. \A k \in 1 .. Last(i) : tries[i][k].state # "answered"
        BY <1>f, <3>1 DEF FromLast
      <3>4. \A k \in 1 .. Last(i)' : tries'[i][k].state # "answered"
        BY <1>l, <3>1, <3>2, <3>3
      <3> QED
        BY <3>1, <3>4 DEF FromLast
    <2> QED
      BY <2>1, <2>2
  <1>2. ASSUME NEW j \in Judges, NEW n \in DOMAIN tries[j], Take(j, n)
        PROVE  FromLast(i)'
    <2>1. /\ tries[j][n].state = "queued" /\ Becomes(j, n, "running")
          /\ "running" \in States /\ answer' = answer
      BY <1>2 DEF Take, States
    <2>2. /\ Same(i)
          /\ \A k \in 1 .. Last(i) :
               tries'[i][k].state = "answered"
                 <=> tries[i][k].state = "answered"
      <3>1. Same(i)
        BY <2>1, BecomesOne
      <3>2. ASSUME NEW k \in 1 .. Last(i)
            PROVE  tries'[i][k].state = "answered"
                     <=> tries[i][k].state = "answered"
        <4>1. CASE <<i, k>> = <<j, n>>
          BY <2>1, <4>1, BecomesOne
        <4>2. CASE <<i, k>> # <<j, n>>
          BY <1>l, <2>1, <4>2, BecomesOne
        <4> QED
          BY <4>1, <4>2
      <3> QED
        BY <3>1, <3>2
    <2> QED
      BY <1>f, <2>1, <2>2, FromLastKept
  <1>3. ASSUME NEW j \in Judges, NEW n \in DOMAIN tries[j], Reply(j, n)
        PROVE  FromLast(i)'
    <2>1. tries[j][n].state = "running"
      BY <1>3 DEF Reply
    <2>2. CASE n = Last(j) /\ pc[j] = "wait"
      <3>1. /\ Becomes(j, n, "answered") /\ "answered" \in States
            /\ answer' = [answer EXCEPT ![j] = "result"]
        BY <1>3, <2>2 DEF Reply, States
      <3>2. CASE i = j
        <4>1. answer'[i] = "result" /\ answer[i] = "none"
          BY <2>2, <3>1, <3>2 DEF TypeOK, PlacesFit
        <4>2. Last(i)' = Last(i) /\ tries'[i][Last(i)].state = "answered"
          BY <2>2, <3>1, <3>2, BecomesOne DEF Same
        <4>3. ASSUME NEW k \in 1 .. Last(i), k # Last(i)
              PROVE  tries'[i][k].state # "answered"
          <5>1. tries'[i][k].state = tries[i][k].state
            BY <1>l, <2>2, <3>1, <3>2, <4>3, BecomesOne
          <5> QED
            BY <1>f, <4>1, <5>1 DEF FromLast
        <4> QED
          BY <4>1, <4>2, <4>3 DEF FromLast
      <3>3. CASE i # j
        <4>1. /\ Same(i) /\ answer'[i] = answer[i]
              /\ \A k \in 1 .. Last(i) :
                   tries'[i][k].state = tries[i][k].state
          BY <1>l, <3>1, <3>3, BecomesOne DEF TypeOK
        <4> QED
          BY <1>f, <4>1, FromLastKept
      <3> QED
        BY <3>2, <3>3
    <2>3. CASE ~(n = Last(j) /\ pc[j] = "wait")
      <3>1. Becomes(j, n, "lost") /\ "lost" \in States /\ answer' = answer
        BY <1>3, <2>3 DEF Reply, States
      <3>2. Same(i)
        BY <3>1, BecomesOne
      <3>3. ASSUME NEW k \in 1 .. Last(i)
            PROVE  tries'[i][k].state = "answered"
                     <=> tries[i][k].state = "answered"
        <4>1. CASE <<i, k>> = <<j, n>>
          BY <2>1, <3>1, <4>1, BecomesOne
        <4>2. CASE <<i, k>> # <<j, n>>
          BY <1>l, <3>1, <4>2, BecomesOne
        <4> QED
          BY <4>1, <4>2
      <3> QED
        BY <1>f, <3>1, <3>2, <3>3, FromLastKept
    <2> QED
      BY <2>2, <2>3
  <1>4. ASSUME NEW m \in Machines, Crash(m) PROVE FromLast(i)'
    <2>1. Same(i) /\ answer' = answer
      BY <1>4, CrashLoses DEF Crash
    <2>2. \A k \in 1 .. Last(i) :
            tries'[i][k].state = "answered" <=> tries[i][k].state = "answered"
      BY <1>4, <1>l, CrashLoses
    <2> QED
      BY <1>f, <2>1, <2>2, FromLastKept
  <1>5. ASSUME NEW j \in Judges, GiveUp(j) PROVE FromLast(i)'
    <2>1. /\ tries' = tries /\ pc[j] = "choose"
          /\ answer' = [answer EXCEPT ![j] = "unavailable"]
      BY <1>5 DEF GiveUp, Move
    <2>2. answer'[i] = "result" <=> answer[i] = "result"
      BY <2>1 DEF TypeOK, PlacesFit
    <2> QED
      BY <1>f, <2>1, <2>2 DEF FromLast, Last
  <1>6. ASSUME UNCHANGED <<tries, answer>> PROVE FromLast(i)'
    BY <1>6, <1>f DEF FromLast, Last
  <1>7. ASSUME NEW j \in Judges, Submit(j) \/ NoReply(j) \/ OfflineMachine(j)
        PROVE  UNCHANGED <<tries, answer>>
    BY <1>7 DEF Submit, NoReply, OfflineMachine
  <1>8. ASSUME NEW m \in Machines, Start(m) PROVE UNCHANGED <<tries, answer>>
    BY <1>8 DEF Start
  <1>9. RecoveryMachine \/ UNCHANGED vars => UNCHANGED <<tries, answer>>
    BY DEF RecoveryMachine, vars
  <1> QED
    BY <1>1, <1>2, <1>3, <1>4, <1>5, <1>6, <1>7, <1>8, <1>9
    DEF Next, Dispatch, Serve

-----------------------------------------------------------------------------
(***************************************************************************)
(* How often a machine is given a program.                                 *)
(***************************************************************************)
LEMMA CountIsNat ==
  ASSUME TypeOK, NEW i \in Judges, NEW m \in Machines
  PROVE  IsFiniteSet(TriesAt(i, m)) /\ Cardinality(TriesAt(i, m)) \in Nat
  <1>1. DOMAIN tries[i] = 1 .. Last(i) /\ Last(i) \in Nat
    BY TriesAre
  <1>2. IsFiniteSet(1 .. Last(i))
    BY <1>1, FS_Interval
  <1>3. TriesAt(i, m) \in SUBSET (1 .. Last(i))
    BY <1>1 DEF TriesAt
  <1> QED
    BY <1>2, <1>3, FS_Subset, FS_CardinalityType

\* The tries of judge i that are at a machine, and the one under way.
LEMMA SameTries ==
  ASSUME TypeOK, TypeOK', NEW i \in Judges, Same(i)
  PROVE  /\ \A m \in Machines : TriesAt(i, m)' = TriesAt(i, m)
         /\ Last(i) > 0 => Current(i)'.at = Current(i).at
  <1>1. /\ DOMAIN tries[i] = 1 .. Last(i) /\ Last(i) \in Nat
        /\ DOMAIN tries'[i] = 1 .. Last(i)'
    <2>1. tries'[i] \in Seq(Attempts)
      BY DEF TypeOK
    <2> QED
      BY <2>1, TriesAre, LenProperties DEF Last
  <1>2. \A m \in Machines : TriesAt(i, m)' = TriesAt(i, m)
    BY <1>1 DEF TriesAt, Same
  <1>3. Last(i) > 0 => Current(i)'.at = Current(i).at
    BY <1>1 DEF Current, Same
  <1> QED
    BY <1>2, <1>3

\* A try adds itself to those at its machine.
LEMMA ChooseCounts ==
  ASSUME TypeOK, TypeOK', NEW i \in Judges, Choose(i)
  PROVE  \E m \in up :
           /\ Current(i)'.at = m /\ m \in Machines
           /\ Cardinality(TriesAt(i, m))' = Cardinality(TriesAt(i, m)) + 1
           /\ \A k \in Machines \ {m} : TriesAt(i, k)' = TriesAt(i, k)
  <1>1. PICK m \in up, s \in {"queued", "lost"} :
          Current(i)' = [at |-> m, state |-> s]
    BY ChooseOne
  <1> DEFINE n == Last(i) + 1
  <1>2. /\ DOMAIN tries[i] = 1 .. Last(i) /\ Last(i) \in Nat
        /\ DOMAIN tries'[i] = 1 .. n
        /\ \A k \in 1 .. Last(i) : tries'[i][k] = tries[i][k]
        /\ Last(i)' = n
    <2>1. tries'[i] \in Seq(Attempts)
      BY DEF TypeOK
    <2> QED
      BY <2>1, ChooseOne, TriesAre, LenProperties DEF Last
  <1>3. tries'[i][n].at = m /\ Current(i)'.at = m /\ m \in Machines
    <2>1. Current(i)'.at = m
      BY <1>1
    <2> QED
      BY <1>2, <2>1 DEF Current, TypeOK
  <1>4. TriesAt(i, m)' = TriesAt(i, m) \cup {n} /\ n \notin TriesAt(i, m)
    BY <1>2, <1>3 DEF TriesAt
  <1>5. Cardinality(TriesAt(i, m)') = Cardinality(TriesAt(i, m)) + 1
    BY <1>3, <1>4, CountIsNat, FS_AddElement
  <1>6. \A k \in Machines \ {m} : TriesAt(i, k)' = TriesAt(i, k)
    BY <1>2, <1>3 DEF TriesAt
  <1> QED
    BY <1>3, <1>5, <1>6

LEMMA PacedStep ==
  TypeOK /\ TypeOK' /\ PlacesFit /\ Paced /\ [Next]_vars => Paced'
  <1> SUFFICES ASSUME TypeOK, TypeOK', PlacesFit, Paced, [Next]_vars,
                      NEW i \in Judges, NEW m \in Machines
               PROVE  /\ Cardinality(TriesAt(i, m))' <= recoveries' + 1
                      /\ /\ m \in up' /\ ~Concerns(i, m)' /\ pc'[i] # "done"
                         => Cardinality(TriesAt(i, m))' <= recoveries'
    BY DEF Paced
  <1> DEFINE C == Cardinality(TriesAt(i, m))
             Stays == /\ Same(i) /\ recoveries' = recoveries
                      /\ m \in up' => m \in up
                      /\ m \in up' /\ ~Concerns(i, m)' /\ pc'[i] # "done" =>
                           ~Concerns(i, m) /\ pc[i] # "done"
  <1>n. C \in Nat /\ recoveries \in Nat
    BY CountIsNat DEF TypeOK
  <1>p. /\ C <= recoveries + 1
        /\ m \in up /\ ~Concerns(i, m) /\ pc[i] # "done" => C <= recoveries
    BY DEF Paced
  <1>w. pc[i] \in {"wait", "offline"} => Last(i) > 0
    BY DEF PlacesFit
  <1>s. ASSUME Stays
        PROVE  /\ C' <= recoveries' + 1
               /\ m \in up' /\ ~Concerns(i, m)' /\ pc'[i] # "done" =>
                    C' <= recoveries'
    <2>1. C' = C
      BY <1>s, SameTries
    <2> QED
      BY <1>s, <1>p, <2>1
  <1>1. CASE Choose(i)
    <2>1. PICK h \in up :
            /\ Current(i)'.at = h /\ h \in Machines
            /\ Cardinality(TriesAt(i, h))' = Cardinality(TriesAt(i, h)) + 1
            /\ \A k \in Machines \ {h} : TriesAt(i, k)' = TriesAt(i, k)
      BY <1>1, ChooseCounts
    <2>2. /\ recoveries' = recoveries /\ up' = up
          /\ pc[i] = "choose" /\ pc'[i] = "wait"
      BY <1>1 DEF Choose, Move, TypeOK, bounded
    <2>3. m \in up => C <= recoveries
      BY <1>p, <2>2 DEF Concerns
    <2>4. CASE m = h
      <3>1. C' = C + 1 /\ C <= recoveries
        BY <2>1, <2>3, <2>4
      <3>2. Concerns(i, m)'
        BY <2>1, <2>2, <2>4 DEF Concerns
      <3> QED
        BY <1>n, <2>2, <3>1, <3>2
    <2>5. CASE m # h
      <3>1. C' = C
        BY <2>1, <2>5
      <3> QED
        BY <1>n, <1>p, <2>2, <2>3, <3>1
    <2> QED
      BY <2>4, <2>5
  <1>2. ASSUME ~Choose(i), Submit(i) \/ Dispatch(i) PROVE Stays
    <2>1. Same(i) /\ recoveries' = recoveries
      BY <1>2, TriesStay DEF Submit, Dispatch, GiveUp, NoReply,
         OfflineMachine, bounded
    <2>2. CASE Submit(i)
      BY <2>1, <2>2 DEF Submit, Move, Concerns
    <2>3. CASE GiveUp(i)
      BY <2>1, <2>3 DEF GiveUp, Move, TypeOK
    <2>4. CASE NoReply(i)
      <3>1. /\ up' = up /\ pc[i] = "wait" /\ pc'[i] = "offline"
        BY <2>4 DEF NoReply, Move, TypeOK
      <3>2. Current(i)'.at = Current(i).at
        BY <1>w, <2>1, <3>1, SameTries
      <3> QED
        BY <2>1, <3>1, <3>2 DEF Concerns
    <2>5. CASE OfflineMachine(i)
      <3>1. up' = up \ {Current(i).at} /\ pc[i] = "offline"
        BY <2>5 DEF OfflineMachine, Move
      <3> QED
        BY <2>1, <3>1 DEF Concerns
    <2> QED
      BY <1>2, <2>2, <2>3, <2>4, <2>5 DEF Dispatch
  <1>k. ASSUME ~Choose(i), pc'[i] = pc[i] \/ pc'[i] = "done",
               recoveries' = recoveries, up' \subseteq up
        PROVE  Stays
    <2>1. Same(i)
      BY <1>k, TriesStay
    <2>2. CASE pc'[i] = "done"
      BY <1>k, <2>1, <2>2
    <2>3. CASE pc'[i] = pc[i]
      <3>1. pc[i] \in {"wait", "offline"} => Current(i)'.at = Current(i).at
        BY <1>w, <2>1, SameTries
      <3> QED
        BY <1>k, <2>1, <2>3, <3>1 DEF Concerns
    <2> QED
      BY <1>k, <2>2, <2>3
  <1>3. ASSUME NEW j \in Judges \ {i}, Submit(j) \/ Dispatch(j)
        PROVE  /\ pc'[i] = pc[i] /\ recoveries' = recoveries
               /\ up' \subseteq up
    BY <1>3 DEF Submit, Dispatch, Choose, GiveUp, NoReply, OfflineMachine,
       Move, TypeOK, bounded
  <1>4. ASSUME NEW j \in Judges, NEW n \in DOMAIN tries[j],
               Take(j, n) \/ Reply(j, n)
        PROVE  /\ pc'[i] = pc[i] \/ pc'[i] = "done"
               /\ recoveries' = recoveries /\ up' \subseteq up
    BY <1>4 DEF Take, Reply, TypeOK, bounded
  <1>5. ASSUME NEW k \in Machines, Crash(k) \/ Start(k)
        PROVE  /\ pc'[i] = pc[i] /\ recoveries' = recoveries
               /\ up' \subseteq up
    BY <1>5 DEF Crash, Start, bounded
  <1>6. ASSUME UNCHANGED vars
        PROVE  /\ pc'[i] = pc[i] /\ recoveries' = recoveries
               /\ up' \subseteq up
    BY <1>6 DEF vars, bounded
  <1>7. CASE RecoveryMachine
    <2>1. tries' = tries /\ recoveries' = recoveries + 1
      BY <1>7 DEF RecoveryMachine
    <2>2. C' = C
      BY <2>1 DEF TriesAt
    <2> QED
      BY <1>n, <1>p, <2>1, <2>2
  <1> QED
    BY <1>1, <1>2, <1>s, <1>k, <1>3, <1>4, <1>5, <1>6, <1>7 DEF Next, Serve

-----------------------------------------------------------------------------
(***************************************************************************)
(* What takes a machine offline.                                           *)
(***************************************************************************)
\* A try that is held up is at a machine that crashed, or has its worker, or
\* its machine's workers, kept by programs that do not end.
LEMMA HeldUpHasCause ==
  ASSUME TypeOK, PlacesFit, Caused, NEW i \in Judges, pc[i] = "wait", HeldUp(i)
  PROVE  Cause(Current(i).at)
  <1>1. Last(i) > 0 /\ Last(i) \in DOMAIN tries[i]
    BY TriesAre DEF PlacesFit
  <1>2. CASE Current(i).state = "lost"
    BY <1>2 DEF Caused, Cause
  <1>3. CASE i \in stuck
    BY <1>1, <1>3 DEF Cause, Current
  <1>4. CASE Cardinality({k \in Running(Current(i).at) : k[1] \in stuck})
               = Workers
    <2>1. {k \in Running(Current(i).at) : k[1] \in stuck} # {}
      BY <1>4, FS_EmptySet, BoundAssumption
    <2>2. PICK k \in Running(Current(i).at) : k[1] \in stuck
      BY <2>1
    <2>3. /\ k \in UNION {{j} \X DOMAIN tries[j] : j \in Judges}
          /\ tries[k[1]][k[2]].at = Current(i).at
      BY <2>2 DEF Running
    <2>4. PICK j \in Judges : k \in {j} \X DOMAIN tries[j]
      BY <2>3
    <2>5. k[1] = j /\ k[2] \in DOMAIN tries[j]
      BY <2>4
    <2> QED
      BY <2>2, <2>3, <2>5 DEF Cause
  <1> QED
    BY <1>2, <1>3, <1>4 DEF HeldUp

\* A judge waits in vain only for a machine that crashed.
LostAt(i) ==
  pc[i] = "wait" /\ Current(i).state = "lost" => Current(i).at \in struck

LEMMA LostStep ==
  ASSUME TypeOK, TypeOK', PlacesFit, Caused, [Next]_vars, NEW i \in Judges
  PROVE  LostAt(i)'
  <1>l. LostAt(i)
    BY DEF Caused, LostAt
  <1>w. /\ pc[i] = "wait" => Last(i) > 0
        /\ Last(i) \in Nat
    BY TriesAre DEF PlacesFit
  <1>k. ASSUME pc'[i] = "wait" =>
                 /\ pc[i] = "wait"
                 /\ Current(i)' = Current(i),
               struck \subseteq struck'
        PROVE  LostAt(i)'
    BY <1>l, <1>k DEF LostAt
  <1>1. CASE Choose(i)
    <2>1. PICK m \in up, s \in {"queued", "lost"} :
            /\ Current(i)' = [at |-> m, state |-> s]
            /\ s = "lost" => m \notin alive
      BY <1>1, ChooseOne
    <2>2. Current(i)'.at = m /\ Current(i)'.state = s /\ m \in Machines
      BY <2>1 DEF TypeOK
    <2>3. struck' = struck
      BY <1>1 DEF Choose
    <2> QED
      BY <2>1, <2>2, <2>3 DEF LostAt, Caused
  <1>2. ASSUME NEW j \in Judges, j # i, Choose(j) PROVE LostAt(i)'
    <2>1. tries'[i] = tries[i] /\ pc'[i] = pc[i] /\ struck' = struck
      BY <1>2, ChooseOne DEF Choose, Move, TypeOK
    <2> QED
      BY <2>1, <1>k DEF Current, Last
  <1>3. ASSUME NEW j \in Judges, NEW n \in DOMAIN tries[j],
               NEW s \in States, Becomes(j, n, s), struck' = struck,
               s = "lost" /\ pc'[i] = "wait" => <<i, Last(i)>> # <<j, n>>,
               pc'[i] = "wait" => pc[i] = "wait"
        PROVE  LostAt(i)'
    <2> SUFFICES ASSUME pc'[i] = "wait" PROVE LostAt(i)'
      BY DEF LostAt
    <2>1. /\ Last(i)' = Last(i) /\ Last(i) \in 1 .. Last(i)
          /\ Current(i)'.at = Current(i).at
      <3>1. Same(i)
        BY <1>3, BecomesOne
      <3> QED
        BY <3>1, <1>3, <1>w, SameTries DEF Same
    <2>2. CASE <<i, Last(i)>> = <<j, n>>
      <3>1. Current(i)'.state = s
        BY <1>3, <2>1, <2>2, BecomesOne DEF Current
      <3> QED
        BY <1>3, <2>2, <3>1 DEF LostAt
    <2>3. CASE <<i, Last(i)>> # <<j, n>>
      <3>1. tries'[i][Last(i)].state = tries[i][Last(i)].state
        BY <1>3, <1>w, <2>1, <2>3, BecomesOne
      <3>2. Current(i)'.state = Current(i).state
        BY <2>1, <3>1 DEF Current
      <3> QED
        BY <1>3, <1>l, <2>1, <3>2 DEF LostAt
    <2> QED
      BY <2>2, <2>3
  <1>4. ASSUME NEW j \in Judges, NEW n \in DOMAIN tries[j], Take(j, n)
        PROVE  LostAt(i)'
    BY <1>3, <1>4 DEF Take, States
  <1>5. ASSUME NEW j \in Judges, NEW n \in DOMAIN tries[j], Reply(j, n)
        PROVE  LostAt(i)'
    <2>1. CASE n = Last(j) /\ pc[j] = "wait"
      <3>1. /\ Becomes(j, n, "answered") /\ "answered" \in States
            /\ struck' = struck
            /\ pc'[i] = "wait" => pc[i] = "wait"
        BY <1>5, <2>1 DEF Reply, TypeOK, States
      <3> QED
        BY <1>3, <3>1
    <2>2. CASE ~(n = Last(j) /\ pc[j] = "wait")
      <3>1. /\ Becomes(j, n, "lost") /\ "lost" \in States
            /\ struck' = struck /\ pc' = pc
        BY <1>5, <2>2 DEF Reply, States
      <3>2. pc'[i] = "wait" => <<i, Last(i)>> # <<j, n>>
        BY <2>2, <3>1
      <3> QED
        BY <1>3, <3>1, <3>2
    <2> QED
      BY <2>1, <2>2
  <1>6. ASSUME NEW m \in Machines, Crash(m) PROVE LostAt(i)'
    <2> SUFFICES ASSUME pc'[i] = "wait" PROVE LostAt(i)'
      BY DEF LostAt
    <2>1. pc[i] = "wait" /\ struck' = struck \cup {m}
      BY <1>6 DEF Crash
    <2>2. /\ Last(i)' = Last(i) /\ Last(i) \in 1 .. Last(i)
          /\ Current(i)'.at = Current(i).at
      <3>1. Same(i)
        BY <1>6, CrashLoses
      <3> QED
        BY <2>1, <3>1, <1>w, SameTries DEF Same
    <2>3. \/ Current(i)'.state = Current(i).state
          \/ Current(i).at = m
      BY <1>6, <1>w, <2>2, CrashLoses DEF Current
    <2> QED
      BY <1>l, <2>1, <2>2, <2>3 DEF LostAt
  <1>7. ASSUME NEW j \in Judges,
               Submit(j) \/ GiveUp(j) \/ NoReply(j) \/ OfflineMachine(j)
        PROVE  LostAt(i)'
    <2>1. /\ tries' = tries /\ struck' = struck
          /\ pc'[i] = "wait" => pc[i] = "wait"
      BY <1>7 DEF Submit, GiveUp, NoReply, OfflineMachine, Move, TypeOK
    <2> QED
      BY <2>1, <1>k DEF Current, Last
  <1>8. ASSUME UNCHANGED <<tries, struck, pc>> PROVE LostAt(i)'
    BY <1>8, <1>k DEF Current, Last
  <1>9. ASSUME NEW m \in Machines, Start(m)
        PROVE  UNCHANGED <<tries, struck, pc>>
    BY <1>9 DEF Start
  <1>10. RecoveryMachine \/ UNCHANGED vars => UNCHANGED <<tries, struck, pc>>
    BY DEF RecoveryMachine, vars
  <1> QED
    BY <1>1, <1>2, <1>4, <1>5, <1>6, <1>7, <1>8, <1>9, <1>10
    DEF Next, Dispatch, Serve

LEMMA CausedStep ==
  TypeOK /\ TypeOK' /\ PlacesFit /\ Caused /\ [Next]_vars => Caused'
  <1> SUFFICES ASSUME TypeOK, TypeOK', PlacesFit, Caused, [Next]_vars
               PROVE  Caused'
    OBVIOUS
  <1>1. Machines \ alive' \subseteq struck'
    <2>1. ASSUME NEW m \in Machines, Crash(m) \/ Start(m)
          PROVE  Machines \ alive' \subseteq struck'
      BY <2>1 DEF Crash, Start, Caused
    <2>2. ASSUME NEW j \in Judges, Submit(j) \/ Dispatch(j) \/ Serve(j)
          PROVE  UNCHANGED <<alive, struck>>
      BY <2>2 DEF Submit, Dispatch, Serve, Choose, GiveUp, NoReply,
         OfflineMachine, Take, Reply
    <2>3. RecoveryMachine \/ UNCHANGED vars => UNCHANGED <<alive, struck>>
      BY DEF RecoveryMachine, vars
    <2> QED
      BY <2>1, <2>2, <2>3 DEF Next, Caused
  <1>2. \A i \in Judges : LostAt(i)'
    BY LostStep
  <1>3. ASSUME prompt', NEW i \in Judges, pc'[i] = "offline"
        PROVE  Cause(Current(i).at)'
    <2>0. prompt
      BY <1>3, TriesStay
    <2>1. CASE NoReply(i)
      <3>1. PICK m : m = Current(i).at /\ Cause(m)
        BY <2>0, <2>1, HeldUpHasCause DEF NoReply, Move
      <3>2. Current(i)' = Current(i)
        BY <2>1 DEF NoReply, Current, Last
      <3>3. Cause(m)'
        BY <3>1, CauseStays
      <3> QED
        BY <3>1, <3>2, <3>3 DEF Cause
    <2>2. CASE ~NoReply(i)
      <3>1. pc[i] = "offline"
        <4>1. ASSUME NEW j \in Judges, Submit(j) \/ Dispatch(j) \/ Serve(j)
              PROVE  pc[i] = "offline"
          BY <1>3, <2>2, <4>1 DEF Submit, Dispatch, Serve, Choose, GiveUp,
             NoReply, OfflineMachine, Take, Reply, Move, TypeOK
        <4>2. ASSUME NEW m \in Machines, Crash(m) \/ Start(m)
              PROVE  pc' = pc
          BY <4>2 DEF Crash, Start
        <4>3. RecoveryMachine \/ UNCHANGED vars => pc' = pc
          BY DEF RecoveryMachine, vars
        <4> QED
          BY <1>3, <4>1, <4>2, <4>3 DEF Next
      <3>2. Same(i)
        BY <3>1, TriesStay DEF Choose, Move
      <3>3. Current(i)'.at = Current(i).at
        BY <3>1, <3>2, SameTries DEF PlacesFit
      <3>4. PICK m : m = Current(i).at /\ Cause(m)
        BY <2>0, <3>1 DEF Caused
      <3>5. Cause(m)'
        BY <3>4, CauseStays
      <3> QED
        BY <3>3, <3>4, <3>5 DEF Cause
    <2> QED
      BY <2>1, <2>2
  <1>4. ASSUME prompt', NEW m \in Machines \ up' PROVE Cause(m)'
    <2>0. prompt
      BY <1>4, TriesStay
    <2>1. CASE m \notin up
      BY <2>0, <2>1, CauseStays DEF Caused, DownHasCause, Cause
    <2>2. CASE m \in up
      <3>1. \E j \in Judges : OfflineMachine(j)
        <4>1. ASSUME NEW j \in Judges, Submit(j) \/ Dispatch(j) \/ Serve(j)
              PROVE  OfflineMachine(j)
          BY <1>4, <2>2, <4>1 DEF Submit, Dispatch, Serve, Choose, GiveUp,
             NoReply, Take, Reply
        <4>2. ASSUME NEW k \in Machines, Crash(k) \/ Start(k)
              PROVE  up' = up
          BY <4>2 DEF Crash, Start
        <4>3. ~RecoveryMachine /\ ~UNCHANGED vars
          BY <1>4, <2>2 DEF RecoveryMachine, vars
        <4> QED
          BY <1>4, <2>2, <4>1, <4>2, <4>3 DEF Next
      <3>2. PICK j \in Judges : OfflineMachine(j)
        BY <3>1
      <3>3. m = Current(j).at /\ pc[j] = "offline"
        BY <1>4, <2>2, <3>2 DEF OfflineMachine, Move
      <3>4. Cause(m)
        BY <2>0, <3>3 DEF Caused
      <3> QED
        BY <3>4, CauseStays
    <2> QED
      BY <2>1, <2>2
  <1>5. DownHasCause'
    BY <1>4 DEF DownHasCause, Cause
  <1> QED
    BY <1>1, <1>2, <1>3, <1>5 DEF Caused, LostAt

-----------------------------------------------------------------------------
\* The invariant holds throughout, for any number of judges and machines, any
\* number of workers and any number of crashes and recoveries.
THEOREM ClusterInvariant == Spec => []IInv
  <1>1. IInv /\ [Next]_vars => IInv'
    <2> SUFFICES ASSUME IInv, [Next]_vars PROVE IInv'
      OBVIOUS
    <2>1. TypeOK /\ PlacesFit /\ ResultIsOfLastTry /\ Paced /\ Caused
      BY DEF IInv
    <2>2. TypeOK'
      BY <2>1, TypeStep
    <2> QED
      BY <2>1, <2>2, PlacesStep, ResultStep, PacedStep, CausedStep DEF IInv
  <1> QED
    BY <1>1, InitInv, PTL DEF Spec

\* Every variable keeps its type: judges end only in the ways the service has.
THEOREM TypeCorrect == Spec => []TypeOK
  <1>1. IInv => TypeOK
    BY DEF IInv
  <1> QED
    BY <1>1, ClusterInvariant, PTL

\* A judge shows the result of its last try; the reply to one that was given
\* up is shown to nobody.
THEOREM ResultCorrect == Spec => []ResultIsOfLastTry
  <1>1. IInv => ResultIsOfLastTry
    BY DEF IInv
  <1> QED
    BY <1>1, ClusterInvariant, PTL

\* Each machine gets a judge's program once, and once more per recovery.
THEOREM TriesCorrect == Spec => []TriesPerMachine
  <1>1. IInv => TriesPerMachine
    BY DEF IInv, Paced, TriesAt, TriesPerMachine
  <1> QED
    BY <1>1, ClusterInvariant, PTL

\* Where replies are prompt, only a crash or a program that does not end takes
\* a machine offline.
THEOREM CauseCorrect == Spec => []DownHasCause
  <1>1. IInv => DownHasCause
    BY DEF IInv, Caused
  <1> QED
    BY <1>1, ClusterInvariant, PTL

-----------------------------------------------------------------------------
(***************************************************************************)
(* The cluster implements JudgeService.                                    *)
(***************************************************************************)
ShownStage  == [j \in Judges |-> StageOf(pc[j])]
ShownTarget == [j \in Judges |->
                  IF StageOf(pc[j]) \in {"trying", "suspect"}
                    THEN {Current(j).at} ELSE {}]

LEMMA StagesAre ==
  /\ StageOf("idle") = "idle" /\ StageOf("done") = "idle"
  /\ StageOf("choose") = "waiting"
  /\ StageOf("wait") = "trying" /\ StageOf("offline") = "suspect"
  BY DEF StageOf

\* A step that moves judge j shows as a move of it and of no other.
LEMMA ShownMove ==
  ASSUME TypeOK, PlacesFit, TypeOK', NEW j \in Judges,
         NEW from \in Places, NEW to \in Places, Move(j, from, to),
         \A i \in Judges \ {j} : Same(i)
  PROVE  /\ ShownStage[j] = StageOf(from)
         /\ ShownStage' = [ShownStage EXCEPT ![j] = StageOf(to)]
         /\ ShownTarget[j] = IF from \in {"wait", "offline"}
                               THEN {Current(j).at} ELSE {}
         /\ ShownTarget' = [ShownTarget EXCEPT ![j] =
                              IF to \in {"wait", "offline"}
                                THEN {Current(j)'.at} ELSE {}]
  <1>1. /\ pc[j] = from /\ pc'[j] = to
        /\ \A i \in Judges \ {j} : pc'[i] = pc[i]
    BY Moved
  <1>2. \A p \in Places :
          StageOf(p) \in {"trying", "suspect"} <=> p \in {"wait", "offline"}
    BY DEF Places, StageOf
  <1>3. \A i \in Judges : pc[i] \in Places /\ pc'[i] \in Places
    BY DEF TypeOK, Places
  <1>4. \A i \in Judges \ {j} :
          pc[i] \in {"wait", "offline"} => Current(i)'.at = Current(i).at
    BY SameTries DEF PlacesFit
  <1>5. ShownStage[j] = StageOf(from)
    BY <1>1 DEF ShownStage
  <1>6. ShownStage' = [ShownStage EXCEPT ![j] = StageOf(to)]
    BY <1>1 DEF ShownStage
  <1>7. \A i \in Judges :
          /\ ShownTarget[i] = IF pc[i] \in {"wait", "offline"}
                                THEN {Current(i).at} ELSE {}
          /\ ShownTarget'[i] = IF pc'[i] \in {"wait", "offline"}
                                 THEN {Current(i)'.at} ELSE {}
    BY <1>2, <1>3 DEF ShownTarget
  <1>8. \A i \in Judges \ {j} : ShownTarget'[i] = ShownTarget[i]
    BY <1>1, <1>4, <1>7
  <1>9. /\ DOMAIN ShownTarget = Judges /\ DOMAIN ShownTarget' = Judges
        /\ ShownTarget = [i \in Judges |-> ShownTarget[i]]
        /\ ShownTarget' = [i \in Judges |-> ShownTarget'[i]]
    BY DEF ShownTarget
  <1>10. /\ ShownTarget[j] = IF from \in {"wait", "offline"}
                               THEN {Current(j).at} ELSE {}
         /\ ShownTarget'[j] = IF to \in {"wait", "offline"}
                                THEN {Current(j)'.at} ELSE {}
    BY <1>1, <1>7
  <1>11. ShownTarget' = [ShownTarget EXCEPT ![j] =
                           IF to \in {"wait", "offline"}
                             THEN {Current(j)'.at} ELSE {}]
    BY <1>8, <1>9, <1>10
  <1> QED
    BY <1>5, <1>6, <1>10, <1>11

\* A step that moves no judge shows nothing of the tries.
LEMMA ShownStays ==
  ASSUME TypeOK, PlacesFit, TypeOK', pc' = pc, \A i \in Judges : Same(i)
  PROVE  UNCHANGED <<ShownStage, ShownTarget>>
  <1>1. \A i \in Judges :
          pc[i] \in {"wait", "offline"} => Current(i)'.at = Current(i).at
    BY SameTries DEF PlacesFit
  <1>2. \A i \in Judges :
          StageOf(pc[i]) \in {"trying", "suspect"}
            => pc[i] \in {"wait", "offline"}
    BY DEF StageOf, TypeOK
  <1> QED
    BY <1>1, <1>2 DEF ShownStage, ShownTarget

LEMMA RefinementInit == Init => Service!Init
  BY StagesAre DEF Init, Service!Init

LEMMA RefinementStep ==
  ASSUME IInv, IInv', [Next]_vars
  PROVE  [Service!Next]_(Service!vars)
  <1>i. TypeOK /\ TypeOK' /\ PlacesFit
    BY DEF IInv
  <1> DEFINE Step == [Service!Next]_(Service!vars)
  <1>s. ASSUME UNCHANGED <<up, ShownStage, ShownTarget, answer>> PROVE Step
    BY <1>s DEF Service!vars, ShownStage, ShownTarget
  <1>o. ASSUME NEW j \in Judges, Choose(j)
        PROVE  \A i \in Judges \ {j} : Same(i)
    BY <1>o, <1>i, ChooseOne DEF Same, Last
  <1>u. tries' = tries =>
          /\ \A i \in Judges : Same(i)
          /\ \A i \in Judges : Current(i)' = Current(i)
    BY DEF Same, Last, Current
  <1>1. ASSUME NEW j \in Judges, Submit(j) PROVE Step
    <2>1. /\ ShownStage[j] = "idle"
          /\ ShownStage' = [ShownStage EXCEPT ![j] = "waiting"]
          /\ ShownTarget[j] = {}
          /\ ShownTarget' = [ShownTarget EXCEPT ![j] = {}]
      BY <1>1, <1>i, <1>u, ShownMove, StagesAre DEF Submit, Places
    <2>2. ShownTarget' = ShownTarget
      BY <2>1 DEF ShownTarget
    <2>3. answer' = [answer EXCEPT ![j] = "none"] /\ up' = up
      BY <1>1, <1>i DEF Submit, Move, PlacesFit, TypeOK
    <2>4. Service!Submit(j)
      BY <2>1, <2>2, <2>3 DEF Service!Submit, Service!Move, Service!Answer,
         ShownStage, ShownTarget
    <2> QED
      BY <2>4 DEF Service!Next
  <1>2. ASSUME NEW j \in Judges, Choose(j) PROVE Step
    <2>1. PICK m \in up, s \in {"queued", "lost"} :
            Current(j)' = [at |-> m, state |-> s]
      BY <1>2, <1>i, ChooseOne
    <2>2. Current(j)'.at = m
      BY <2>1
    <2>3. /\ ShownStage[j] = "waiting"
          /\ ShownStage' = [ShownStage EXCEPT ![j] = "trying"]
          /\ ShownTarget' = [ShownTarget EXCEPT ![j] = {m}]
      BY <1>2, <1>i, <1>o, <2>2, ShownMove, StagesAre DEF Choose, Places
    <2>4. Service!Try(j)
      BY <1>2, <2>3 DEF Choose, Service!Try, Service!Move, ShownStage,
         ShownTarget
    <2> QED
      BY <2>4 DEF Service!Next
  <1>3. ASSUME NEW j \in Judges, GiveUp(j) PROVE Step
    <2>1. /\ ShownStage[j] = "waiting"
          /\ ShownStage' = [ShownStage EXCEPT ![j] = "idle"]
          /\ ShownTarget[j] = {}
          /\ ShownTarget' = [ShownTarget EXCEPT ![j] = {}]
      BY <1>3, <1>i, <1>u, ShownMove, StagesAre DEF GiveUp, Places
    <2>2. ShownTarget' = ShownTarget
      BY <2>1 DEF ShownTarget
    <2>3. Service!GiveUp(j)
      BY <1>3, <2>1, <2>2 DEF GiveUp, Service!GiveUp, Service!Move,
         Service!Answer, ShownStage, ShownTarget
    <2> QED
      BY <2>3 DEF Service!Next
  <1>4. ASSUME NEW j \in Judges, NoReply(j) PROVE Step
    <2>1. /\ ShownStage[j] = "trying"
          /\ ShownStage' = [ShownStage EXCEPT ![j] = "suspect"]
          /\ ShownTarget[j] = {Current(j).at}
          /\ ShownTarget' = [ShownTarget EXCEPT ![j] = {Current(j).at}]
      BY <1>4, <1>i, <1>u, ShownMove, StagesAre DEF NoReply, Places
    <2>2. ShownTarget' = ShownTarget
      BY <2>1 DEF ShownTarget
    <2>3. Service!Suspect(j)
      BY <1>4, <2>1, <2>2 DEF NoReply, Service!Suspect, Service!Move,
         ShownStage, ShownTarget
    <2> QED
      BY <2>3 DEF Service!Next
  <1>5. ASSUME NEW j \in Judges, OfflineMachine(j) PROVE Step
    <2>1. /\ ShownStage[j] = "suspect"
          /\ ShownStage' = [ShownStage EXCEPT ![j] = "waiting"]
          /\ ShownTarget[j] = {Current(j).at}
          /\ ShownTarget' = [ShownTarget EXCEPT ![j] = {}]
      BY <1>5, <1>i, <1>u, ShownMove, StagesAre DEF OfflineMachine, Places
    <2>2. Service!TakeDown(j)
      BY <1>5, <2>1 DEF OfflineMachine, Service!TakeDown, Service!Move,
         Service!Release, ShownStage, ShownTarget
    <2> QED
      BY <2>2 DEF Service!Next
  <1>6. ASSUME NEW j \in Judges, NEW n \in DOMAIN tries[j], Take(j, n)
        PROVE  Step
    <2>1. \A i \in Judges : Same(i)
      BY <1>6, <1>i, ServeOne, BecomesOne
    <2>2. UNCHANGED <<pc, up, answer>>
      BY <1>6 DEF Take
    <2> QED
      BY <1>i, <1>s, <2>1, <2>2, ShownStays
  <1>7. ASSUME NEW j \in Judges, NEW n \in DOMAIN tries[j], Reply(j, n)
        PROVE  Step
    <2>1. \A i \in Judges : Same(i)
      BY <1>7, <1>i, ServeOne, BecomesOne
    <2>2. CASE n = Last(j) /\ pc[j] = "wait"
      <3>1. /\ Move(j, "wait", "done") /\ up' = up
            /\ answer' = [answer EXCEPT ![j] = "result"]
        BY <1>7, <2>2 DEF Reply, Move
      <3>2. /\ ShownStage[j] = "trying"
            /\ ShownStage' = [ShownStage EXCEPT ![j] = "idle"]
            /\ ShownTarget' = [ShownTarget EXCEPT ![j] = {}]
        BY <1>i, <2>1, <3>1, ShownMove, StagesAre DEF Places
      <3>3. Service!Succeed(j)
        BY <3>1, <3>2 DEF Service!Succeed, Service!Move, Service!Answer,
           Service!Release, ShownStage, ShownTarget
      <3> QED
        BY <3>3 DEF Service!Next
    <2>3. CASE ~(n = Last(j) /\ pc[j] = "wait")
      <3>1. UNCHANGED <<pc, up, answer>>
        BY <1>7, <2>3 DEF Reply
      <3> QED
        BY <1>i, <1>s, <2>1, <3>1, ShownStays
    <2> QED
      BY <2>2, <2>3
  <1>8. ASSUME NEW m \in Machines, Crash(m) \/ Start(m) PROVE Step
    <2>1. \A i \in Judges : Same(i)
      BY <1>8, <1>i, <1>u, CrashLoses DEF Start
    <2>2. UNCHANGED <<pc, up, answer>>
      BY <1>8 DEF Crash, Start
    <2> QED
      BY <1>i, <1>s, <2>1, <2>2, ShownStays
  <1>9. CASE RecoveryMachine
    <2>1. UNCHANGED <<pc, tries, answer>> /\ up' = Machines
      BY <1>9 DEF RecoveryMachine
    <2>2. UNCHANGED <<ShownStage, ShownTarget>>
      BY <1>i, <1>u, <2>1, ShownStays
    <2>3. Service!RecoverAll
      BY <2>1, <2>2 DEF Service!RecoverAll, ShownStage, ShownTarget
    <2> QED
      BY <2>3 DEF Service!Next
  <1>10. CASE UNCHANGED vars
    <2>1. UNCHANGED <<pc, tries, up, answer>>
      BY <1>10 DEF vars
    <2> QED
      BY <1>i, <1>s, <1>u, <2>1, ShownStays
  <1> QED
    BY <1>1, <1>2, <1>3, <1>4, <1>5, <1>6, <1>7, <1>8, <1>9, <1>10
    DEF Next, Dispatch, Serve

\* With machines, pools, crashes and late replies behind it, a judge still
\* sees no more than JudgeService allows.
THEOREM ClusterImplementsService == Spec => ImplementsService
  <1>1. IInv /\ IInv' /\ [Next]_vars => [Service!Next]_(Service!vars)
    BY RefinementStep
  <1> QED
    BY <1>1, RefinementInit, ClusterInvariant, PTL
    DEF Spec, ImplementsService, Service!Spec

-----------------------------------------------------------------------------
(***************************************************************************)
(* The loop of a judge ends.                                               *)
(***************************************************************************)
\* A judge is tried at most once per machine and recovery in all: its loop ends.
TriesBounded ==
  \A j \in Judges :
    Cardinality(DOMAIN tries[j]) <= Cardinality(Machines) * (recoveries + 1)

\* The tries of a judge, each told by its machine and its place among those at
\* that machine, are not more than there are such pairs.
LEMMA CountTries ==
  ASSUME IInv, IsFiniteSet(Machines), NEW j \in Judges
  PROVE  Cardinality(DOMAIN tries[j])
           <= Cardinality(Machines) * (recoveries + 1)
  <1> DEFINE D == DOMAIN tries[j]
             B == 0 .. recoveries
             Upto(n) == {i \in 1 .. n : tries[j][i].at = tries[j][n].at}
             f == [n \in D |-> <<tries[j][n].at, Cardinality(Upto(n)) - 1>>]
  <1>0. TypeOK /\ recoveries \in Nat
    BY BoundAssumption DEF IInv, TypeOK
  <1>1. /\ D = 1 .. Last(j) /\ Last(j) \in Nat
        /\ \A n \in D : tries[j][n].at \in Machines
    BY <1>0, TriesAre, AttemptIs
  <1>2. ASSUME NEW n \in D
        PROVE  /\ IsFiniteSet(Upto(n))
               /\ Cardinality(Upto(n)) \in 1 .. recoveries + 1
    <2>1. IsFiniteSet(1 .. n)
      BY <1>1, FS_Interval
    <2>2. IsFiniteSet(Upto(n)) /\ Cardinality(Upto(n)) \in Nat
      BY <2>1, FS_Subset, FS_CardinalityType
    <2>3. n \in Upto(n)
      BY <1>1
    <2>4. Cardinality(Upto(n)) # 0
      BY <2>2, <2>3, FS_EmptySet
    <2>5. Upto(n) \subseteq TriesAt(j, tries[j][n].at)
      BY <1>1 DEF TriesAt
    <2>6. /\ IsFiniteSet(TriesAt(j, tries[j][n].at))
          /\ Cardinality(TriesAt(j, tries[j][n].at)) \in Nat
          /\ Cardinality(TriesAt(j, tries[j][n].at)) <= recoveries + 1
      BY <1>0, <1>1, CountIsNat DEF IInv, Paced
    <2>7. Cardinality(Upto(n)) <= Cardinality(TriesAt(j, tries[j][n].at))
      BY <2>5, <2>6, FS_Subset
    <2> QED
      BY <1>0, <2>2, <2>4, <2>6, <2>7
  <1>3. \A n \in D : f[n] \in Machines \X B
    <2> SUFFICES ASSUME NEW n \in D PROVE f[n] \in Machines \X B
      OBVIOUS
    <2>1. Cardinality(Upto(n)) - 1 \in B
      <3>1. Cardinality(Upto(n)) \in 1 .. recoveries + 1
        BY <1>2
      <3> HIDE DEF Upto
      <3> QED
        BY <1>0, <3>1
    <2> HIDE DEF Upto, B
    <2> QED
      BY <1>1, <2>1
  <1>4. ASSUME NEW m \in D, NEW n \in D, m < n, tries[j][m].at = tries[j][n].at
        PROVE  Cardinality(Upto(m)) # Cardinality(Upto(n))
    <2>1. Upto(m) \subseteq Upto(n) /\ n \in Upto(n) /\ n \notin Upto(m)
      BY <1>1, <1>4
    <2>2. IsFiniteSet(Upto(n)) /\ Upto(m) # Upto(n)
      BY <1>2, <2>1
    <2> QED
      BY <2>1, <2>2, FS_Subset
  <1> HIDE DEF Upto
  <1>5. \A m, n \in D : f[m] = f[n] => m = n
    <2> SUFFICES ASSUME NEW m \in D, NEW n \in D, f[m] = f[n], m # n
                 PROVE  FALSE
      OBVIOUS
    <2>1. /\ tries[j][m].at = tries[j][n].at
          /\ Cardinality(Upto(m)) - 1 = Cardinality(Upto(n)) - 1
      OBVIOUS
    <2>2. Cardinality(Upto(m)) = Cardinality(Upto(n))
      <3>1. /\ Cardinality(Upto(m)) \in 1 .. recoveries + 1
            /\ Cardinality(Upto(n)) \in 1 .. recoveries + 1
        BY <1>2
      <3> QED
        BY <1>0, <2>1, <3>1
    <2>3. m < n \/ n < m
      BY <1>1
    <2> QED
      BY <1>4, <2>1, <2>2, <2>3
  <1>6. f \in Injection(D, Machines \X B)
    <2>1. f \in [D -> Machines \X B]
      BY <1>3
    <2>2. DOMAIN f = D
      OBVIOUS
    <2> HIDE DEF f, D, B
    <2> QED
      BY <2>2, <1>5, <2>1 DEF Injection, IsInjective
  <1>7. /\ IsFiniteSet(Machines \X B)
        /\ Cardinality(Machines \X B) = Cardinality(Machines) * (recoveries + 1)
    <2>1. IsFiniteSet(B) /\ Cardinality(B) = recoveries + 1
      BY <1>0, FS_Interval
    <2> QED
      BY <2>1, FS_Product
  <1> HIDE DEF D, B, f
  <1>8. Cardinality(D) <= Cardinality(Machines \X B)
    BY <1>6, <1>7, FS_Injection
  <1> QED
    BY <1>7, <1>8 DEF D

\* However often machines crash, time out and come back, the loop of a judge
\* ends: with finitely many machines it sends its program only so often.
THEOREM BoundedCorrect == IsFiniteSet(Machines) => (Spec => []TriesBounded)
  <1> SUFFICES ASSUME IsFiniteSet(Machines) PROVE Spec => []TriesBounded
    OBVIOUS
  <1>1. IInv => TriesBounded
    BY CountTries DEF TriesBounded
  <1> QED
    BY <1>1, ClusterInvariant, PTL

-----------------------------------------------------------------------------
(***************************************************************************)
(* A machine runs no more programs than its pool has workers.              *)
(***************************************************************************)
\* A machine never runs more programs at a time than it has workers, those
\* whose judges have long gone elsewhere included.
WorkersFit ==
  \A m \in Machines :
    IsFiniteSet(Running(m)) /\ Cardinality(Running(m)) <= Workers

\* Try n of judge i has a worker of machine m.
HasWorker(i, n, m) ==
  n \in 1 .. Last(i) /\ tries[i][n].at = m /\ tries[i][n].state = "running"

\* The tries that Running(m) holds.
RunningHolds ==
  \A m \in Machines : \A k : k \in Running(m) <=>
    \E i \in Judges : \E n \in Nat : k = <<i, n>> /\ HasWorker(i, n, m)

LEMMA RunningAre == TypeOK => RunningHolds
  <1> SUFFICES ASSUME TypeOK, NEW m \in Machines
               PROVE  \A k : k \in Running(m) <=>
                        \E i \in Judges : \E n \in Nat :
                          k = <<i, n>> /\ HasWorker(i, n, m)
    BY DEF RunningHolds
  <1>1. \A i \in Judges :
          /\ DOMAIN tries[i] = 1 .. Last(i) /\ Last(i) \in Nat
          /\ \A n \in 1 .. Last(i) : tries[i][n] \in Attempts
    BY TriesAre
  <1>2. \A a \in Attempts :
          a = [at |-> m, state |-> "running"] <=> a.at = m /\ a.state = "running"
    BY DEF Attempts
  <1>3. ASSUME NEW k, k \in Running(m)
        PROVE  \E i \in Judges : \E n \in Nat :
                 k = <<i, n>> /\ HasWorker(i, n, m)
    <2>1. PICK i \in Judges : k \in {i} \X DOMAIN tries[i]
      BY <1>3 DEF Running
    <2>2. PICK n \in 1 .. Last(i) : k = <<i, n>>
      BY <1>1, <2>1
    <2>3. tries[i][n] = [at |-> m, state |-> "running"]
      BY <1>3, <2>2 DEF Running
    <2> QED
      BY <1>1, <1>2, <2>2, <2>3 DEF HasWorker
  <1>4. ASSUME NEW i \in Judges, NEW n \in Nat, HasWorker(i, n, m)
        PROVE  <<i, n>> \in Running(m)
    <2>1. n \in DOMAIN tries[i]
      BY <1>1, <1>4 DEF HasWorker
    <2>2. tries[i][n] = [at |-> m, state |-> "running"]
      BY <1>1, <1>2, <1>4 DEF HasWorker
    <2>3. <<i, n>> \in UNION {{j} \X DOMAIN tries[j] : j \in Judges}
      BY <2>1
    <2> QED
      BY <2>2, <2>3 DEF Running
  <1> QED
    BY <1>3, <1>4

LEMMA RunningWillBe == TypeOK' => RunningHolds'
  BY RunningAre, PTL

\* A step that gives no try a worker leaves every machine as many or fewer.
LEMMA FewerRun ==
  ASSUME TypeOK, TypeOK', WorkersFit,
         \A i \in Judges : \A n \in 1 .. Last(i)' :
           tries'[i][n].state = "running" =>
             /\ n \in 1 .. Last(i) /\ tries[i][n].state = "running"
             /\ tries'[i][n].at = tries[i][n].at
  PROVE  WorkersFit'
  <1> SUFFICES ASSUME NEW m \in Machines
               PROVE  /\ IsFiniteSet(Running(m)')
                      /\ Cardinality(Running(m)') <= Workers
    BY DEF WorkersFit
  <1>1. ASSUME NEW k, k \in Running(m)' PROVE k \in Running(m)
    <2>1. PICK i \in Judges, n \in Nat : k = <<i, n>> /\ HasWorker(i, n, m)'
      BY <1>1, RunningWillBe DEF RunningHolds
    <2>2. HasWorker(i, n, m)
      BY <2>1 DEF HasWorker
    <2> QED
      BY <2>1, <2>2, RunningAre DEF RunningHolds
  <1>2. IsFiniteSet(Running(m)) /\ Cardinality(Running(m)) <= Workers
    BY DEF WorkersFit
  <1>3. /\ IsFiniteSet(Running(m)')
        /\ Cardinality(Running(m)') <= Cardinality(Running(m))
    <2>1. Running(m)' \in SUBSET Running(m)
      BY <1>1
    <2> QED
      BY <1>2, <2>1, FS_Subset
  <1>4. Cardinality(Running(m)) \in Nat /\ Cardinality(Running(m)') \in Nat
    BY <1>2, <1>3, FS_CardinalityType
  <1> QED
    BY <1>2, <1>3, <1>4, BoundAssumption

\* Take gives one try a worker, where one is free.
LEMMA TakeFits ==
  ASSUME TypeOK, TypeOK', WorkersFit,
         NEW j \in Judges, NEW n \in DOMAIN tries[j], Take(j, n)
  PROVE  WorkersFit'
  <1> SUFFICES ASSUME NEW m \in Machines
               PROVE  /\ IsFiniteSet(Running(m)')
                      /\ Cardinality(Running(m)') <= Workers
    BY DEF WorkersFit
  <1>0. /\ \A i \in Judges : Same(i)
        /\ \A i \in Judges, k \in Nat :
             k \in 1 .. Last(i) /\ <<i, k>> # <<j, n>> =>
               tries'[i][k].state = tries[i][k].state
        /\ \A i \in Judges : Last(i) \in Nat
    BY BecomesOne, TriesAre DEF Take, States
  <1>1. \A i \in Judges : \A k \in Nat :
          HasWorker(i, k, m)' /\ <<i, k>> # <<j, n>> => HasWorker(i, k, m)
    BY <1>0 DEF HasWorker, Same
  <1>2. n \in 1 .. Last(j) /\ tries'[j][n].at = tries[j][n].at
    BY <1>0, TriesAre DEF Same
  <1>3. \A k : k \in Running(m)' => k = <<j, n>> \/ k \in Running(m)
    <2> SUFFICES ASSUME NEW k, k \in Running(m)', k # <<j, n>>
                 PROVE  k \in Running(m)
      OBVIOUS
    <2>1. PICK i \in Judges, l \in Nat : k = <<i, l>> /\ HasWorker(i, l, m)'
      BY RunningWillBe DEF RunningHolds
    <2> QED
      BY <1>1, <2>1, RunningAre DEF RunningHolds
  <1>4. /\ IsFiniteSet(Running(m)) /\ Cardinality(Running(m)) <= Workers
        /\ Cardinality(Running(m)) \in Nat
    BY FS_CardinalityType DEF WorkersFit
  <1>5. CASE tries[j][n].at # m
    <2>1. \A k : k \in Running(m)' => k # <<j, n>>
      <3> SUFFICES ASSUME <<j, n>> \in Running(m)' PROVE FALSE
        OBVIOUS
      <3>1. PICK i \in Judges, l \in Nat :
              <<j, n>> = <<i, l>> /\ HasWorker(i, l, m)'
        BY RunningWillBe DEF RunningHolds
      <3> QED
        BY <1>2, <1>5, <3>1 DEF HasWorker
    <2>2. Running(m)' \in SUBSET Running(m)
      BY <1>3, <2>1
    <2>3. /\ IsFiniteSet(Running(m)')
          /\ Cardinality(Running(m)') <= Cardinality(Running(m))
      BY <1>4, <2>2, FS_Subset
    <2> QED
      BY <1>4, <2>3, FS_CardinalityType, BoundAssumption
  <1>6. CASE tries[j][n].at = m
    <2> DEFINE more == Running(m) \cup {<<j, n>>}
    <2>1. Cardinality(Running(m)) < Workers
      BY <1>6 DEF Take
    <2>2. IsFiniteSet(more) /\ Cardinality(more) <= Cardinality(Running(m)) + 1
      <3>1. /\ IsFiniteSet(more)
            /\ \/ Cardinality(more) = Cardinality(Running(m))
               \/ Cardinality(more) = Cardinality(Running(m)) + 1
        BY <1>4, FS_AddElement, Zenon
      <3> HIDE DEF more
      <3> QED
        BY <1>4, <3>1
    <2>3. Running(m)' \in SUBSET more
      BY <1>3
    <2> HIDE DEF more
    <2>4. /\ IsFiniteSet(Running(m)')
          /\ Cardinality(Running(m)') <= Cardinality(more)
      BY <2>2, <2>3, FS_Subset
    <2>5. Cardinality(more) \in Nat /\ Cardinality(Running(m)') \in Nat
      BY <2>2, <2>4, FS_CardinalityType
    <2> QED
      BY <1>4, <2>1, <2>2, <2>4, <2>5, BoundAssumption
  <1> QED
    BY <1>5, <1>6

LEMMA WorkersStep ==
  TypeOK /\ TypeOK' /\ WorkersFit /\ [Next]_vars => WorkersFit'
  <1> SUFFICES ASSUME TypeOK, TypeOK', WorkersFit, [Next]_vars
               PROVE  WorkersFit'
    OBVIOUS
  <1> DEFINE NoneTaken ==
        \A i \in Judges : \A n \in 1 .. Last(i)' :
          tries'[i][n].state = "running" =>
            /\ n \in 1 .. Last(i) /\ tries[i][n].state = "running"
            /\ tries'[i][n].at = tries[i][n].at
  <1>0. \A i \in Judges : Last(i) \in Nat
    BY TriesAre
  <1>1. ASSUME NEW j \in Judges, Choose(j) PROVE NoneTaken
    <2>1. Current(j)'.state # "running"
      BY <1>1, ChooseOne
    <2>2. /\ \A i \in Judges \ {j} : tries'[i] = tries[i]
          /\ Last(j)' = Last(j) + 1
          /\ \A k \in 1 .. Last(j) : tries'[j][k] = tries[j][k]
      BY <1>1, ChooseOne
    <2>3. tries'[j][Last(j) + 1].state # "running"
      BY <2>1, <2>2 DEF Current
    <2>4. \A i \in Judges \ {j} : Last(i)' = Last(i)
      BY <2>2 DEF Last
    <2> QED
      BY <1>0, <2>2, <2>3, <2>4
  <1>2. ASSUME NEW j \in Judges, NEW n \in DOMAIN tries[j], Reply(j, n)
        PROVE  NoneTaken
    <2>1. PICK s \in {"answered", "lost"} : Becomes(j, n, s)
      BY <1>2 DEF Reply
    <2>2. /\ \A i \in Judges : Same(i)
          /\ \A i \in Judges, k \in Nat :
               k \in 1 .. Last(i) /\ <<i, k>> # <<j, n>> =>
                 tries'[i][k].state = tries[i][k].state
          /\ tries'[j][n].state = s
      BY <2>1, BecomesOne DEF States
    <2> QED
      BY <1>0, <2>2 DEF Same
  <1>3. ASSUME NEW m \in Machines, Crash(m) PROVE NoneTaken
    <2>1. /\ \A i \in Judges : Same(i)
          /\ \A i \in Judges, k \in Nat : k \in 1 .. Last(i) =>
               \/ tries'[i][k].state = tries[i][k].state
               \/ tries'[i][k].state = "lost"
      BY <1>3, CrashLoses
    <2> QED
      BY <1>0, <2>1 DEF Same
  <1>4. ASSUME tries' = tries PROVE NoneTaken
    BY <1>4 DEF Last
  <1>5. ASSUME NEW j \in Judges,
               Submit(j) \/ GiveUp(j) \/ NoReply(j) \/ OfflineMachine(j)
        PROVE  tries' = tries
    BY <1>5 DEF Submit, GiveUp, NoReply, OfflineMachine
  <1>6. ASSUME NEW m \in Machines, Start(m) PROVE tries' = tries
    BY <1>6 DEF Start
  <1>7. RecoveryMachine \/ UNCHANGED vars => tries' = tries
    BY DEF RecoveryMachine, vars
  <1>8. NoneTaken \/ \E j \in Judges : \E n \in DOMAIN tries[j] : Take(j, n)
    <2> HIDE DEF NoneTaken
    <2> QED
      BY <1>1, <1>2, <1>3, <1>4, <1>5, <1>6, <1>7 DEF Next, Dispatch, Serve
  <1> QED
    BY <1>8, FewerRun, TakeFits

\* A compile server never runs more programs at a time than its pool has
\* workers, however many connections the oj_server gave up (ThreadPool::worker).
THEOREM WorkersCorrect == Spec => []WorkersFit
  <1>1. Init => WorkersFit
    <2> SUFFICES ASSUME Init, NEW m \in Machines
                 PROVE  /\ IsFiniteSet(Running(m))
                        /\ Cardinality(Running(m)) <= Workers
      BY DEF WorkersFit
    <2>1. Running(m) = {}
      BY DEF Init, Running
    <2> QED
      BY <2>1, FS_EmptySet, BoundAssumption
  <1>2. IInv => TypeOK
    BY DEF IInv
  <1> QED
    BY <1>1, <1>2, ClusterInvariant, WorkersStep, PTL DEF Spec

=============================================================================
