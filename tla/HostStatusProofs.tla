--------------------------- MODULE HostStatusProofs ---------------------------
(***************************************************************************)
(* Proofs about HostStatus, for any number of threads and any counts of    *)
(* the kernel.  The static variables are not protected, and what keeps     *)
(* them right is that requests do not overlap: while they never have, at   *)
(* most one handler is busy and every fact is about that one.              *)
(***************************************************************************)
EXTENDS HostStatus, TLAPS

-----------------------------------------------------------------------------
(***************************************************************************)
(* The inductive invariant.                                                *)
(***************************************************************************)
Busy(t) == pc[t] # "idle"
Alone(t) == \A u \in Threads : Busy(u) => u = t

\* The poll that is waited for has a busy handler, and is the only one that has
\* until a poll times out.
OneAtATime ==
  /\ ~overlapped => \A t, u \in Threads : Busy(t) /\ Busy(u) => t = u
  /\ waiting # NoThread => Busy(waiting)
  /\ ~late => \A t \in Threads : Busy(t) => waiting = t
  /\ OverlapNeedsTimeout

\* Handler t has given out the difference of variable i of figure f, and has
\* not yet stored the whole figure.
Given(t, f, i) ==
  /\ At(t) = f
  /\ \/ pc[t] = "store"
     \/ pc[t] = "subtract" /\ i < part[t]

\* What was given out adds up to the static variables, or to the sample that
\* will replace them.
SumsFit(t) ==
  \A f \in Figures, i \in Pairs :
    /\ Given(t, f, i) => reported[f][i] = sample[t][i]
    /\ ~Given(t, f, i) => reported[f][i] = prev[f][i]
    /\ pc[t] = "store" /\ At(t) = f /\ i < part[t] => prev[f][i] = sample[t][i]

Sums == ~overlapped => \A t \in Threads : Alone(t) => SumsFit(t)

IInv1 == TypeOK /\ OneAtATime /\ Sums

-----------------------------------------------------------------------------
LEMMA OrderFacts ==
  /\ DOMAIN Order = 1 .. 3 /\ Len(Order) = 3
  /\ Order[1] = "cpu" /\ Order[2] = "network" /\ Order[3] = "disk"
  /\ Figures = {"cpu", "network", "disk"}
  /\ \A n \in 1 .. 3 : Order[n] \in Figures
  <1>1. /\ DOMAIN Order = 1 .. 3 /\ Len(Order) = 3
        /\ Order[1] = "cpu" /\ Order[2] = "network" /\ Order[3] = "disk"
    BY DEF Order
  <1>2. Figures = {Order[1], Order[2], Order[3]}
    BY <1>1 DEF Figures
  <1> QED
    BY <1>1, <1>2

LEMMA AtIsFigure == ASSUME TypeOK, NEW t \in Threads
                    PROVE  At(t) \in Figures /\ figure[t] \in 1 .. 3
  BY OrderFacts DEF At, TypeOK

LEMMA ZeroType == Zero \in IntPairs /\ \A i \in Pairs : Zero[i] = 0
  BY DEF Zero, IntPairs

LEMMA InitInv == Init => IInv1
  <1> SUFFICES ASSUME Init PROVE IInv1
    OBVIOUS
  <1>1. TypeOK
    <2>1. /\ Zero \in [Pairs -> Nat] /\ 1 \in DOMAIN Order /\ 1 \in Pairs
          /\ 0 \in 0 .. MaxPolls
      BY OrderFacts, BoundAssumption DEF Zero, Pairs
    <2> QED
      BY <2>1, ZeroType DEF Init, TypeOK
  <1>2. OneAtATime
    BY DEF Init, OneAtATime, Busy, OverlapNeedsTimeout
  <1>3. Sums
    BY DEF Init, Sums, SumsFit, Given
  <1> QED
    BY <1>1, <1>2, <1>3 DEF IInv1

LEMMA TypeStep == TypeOK /\ [Next]_vars => TypeOK'
  <1> SUFFICES ASSUME TypeOK, [Next]_vars PROVE TypeOK'
    OBVIOUS
  <1> USE DEF TypeOK
  <1>1. ASSUME NEW f \in Figures, Tick(f) PROVE TypeOK'
    <2>1. PICK inc \in Increments(f) :
            counters' = [counters EXCEPT ![f] =
                           [i \in Pairs |-> counters[f][i] + inc[i]]]
      BY <1>1 DEF Tick
    <2>2. \A i \in Pairs : inc[i] \in Nat
      BY <2>1 DEF Increments, Pairs
    <2>3. [i \in Pairs |-> counters[f][i] + inc[i]] \in [Pairs -> Nat]
      BY <2>2
    <2>4. counters' \in [Figures -> [Pairs -> Nat]]
      BY <2>1, <2>3
    <2> QED
      BY <1>1, <2>4 DEF Tick, handlers
  <1>2. ASSUME NEW t \in Threads, Poll(t) PROVE TypeOK'
    <2>1. polls' \in 0 .. MaxPolls
      BY <1>2, BoundAssumption DEF Poll, Accept
    <2>2. figure' \in [Threads -> DOMAIN Order]
      BY <1>2, OrderFacts DEF Poll, Accept
    <2>3. overlapped' \in BOOLEAN
      BY <1>2 DEF Poll, Accept
    <2>4. /\ pc' = [pc EXCEPT ![t] = "sample"] /\ waiting' = t
          /\ UNCHANGED <<missing, counters, prev, part, sample, diff, got,
                         reported, late>>
      BY <1>2 DEF Poll, Accept, kernel
    <2> QED
      BY <2>1, <2>2, <2>3, <2>4
  <1>3. CASE Timeout
    BY <1>3 DEF Timeout, kernel, handlers
  <1>4. ASSUME NEW t \in Threads, Sample(t) PROVE TypeOK'
    <2>1. PICK r \in Readings(At(t)) : sample' = [sample EXCEPT ![t] = r]
      BY <1>4 DEF Sample
    <2>2. counters[At(t)] \in [Pairs -> Int]
      BY AtIsFigure
    <2>3. r \in IntPairs
      BY <2>1, <2>2, UnsetAssumption, ZeroType DEF Readings, IntPairs
    <2>4. /\ pc' = [pc EXCEPT ![t] = "subtract"]
          /\ part' = [part EXCEPT ![t] = 1]
          /\ UNCHANGED <<missing, counters, prev, figure, diff, waiting, got,
                         polls, reported, overlapped, late>>
      BY <1>4 DEF Sample, kernel
    <2> QED
      BY <2>1, <2>3, <2>4 DEF Pairs
  <1>5. ASSUME NEW t \in Threads, Subtract(t) PROVE TypeOK'
    <2> DEFINE f == At(t)
               p == part[t]
               d == Difference(t)
    <2>1. f \in Figures /\ p \in Pairs
      BY AtIsFigure
    <2>2. d \in Int
      BY <2>1 DEF Difference, IntPairs
    <2>3. /\ diff' = [diff EXCEPT ![t][f][p] = d]
          /\ reported' = [reported EXCEPT ![f][p] = @ + d]
          /\ part' = [part EXCEPT ![t] = 3 - p]
          /\ pc' \in {pc, [pc EXCEPT ![t] = "store"]}
          /\ UNCHANGED <<missing, counters, prev, figure, sample, waiting,
                         got, polls, overlapped, late>>
      BY <1>5 DEF Subtract, kernel
    <2> HIDE DEF f, p, d
    <2>4. diff' \in [Threads -> [Figures -> IntPairs]]
      BY <2>1, <2>2, <2>3 DEF IntPairs
    <2>5. reported' \in [Figures -> IntPairs]
      BY <2>1, <2>2, <2>3 DEF IntPairs
    <2>6. part' \in [Threads -> Pairs]
      BY <2>1, <2>3 DEF Pairs
    <2> QED
      BY <2>3, <2>4, <2>5, <2>6
  <1>6. ASSUME NEW t \in Threads, Store(t) PROVE TypeOK'
    <2> DEFINE f == At(t)
               p == part[t]
    <2>1. f \in Figures /\ p \in Pairs /\ sample[t][p] \in Int
      BY AtIsFigure DEF IntPairs
    <2>2. /\ prev' = [prev EXCEPT ![f][p] = sample[t][p]]
          /\ part' = [part EXCEPT ![t] = 3 - p]
          /\ UNCHANGED <<missing, counters, sample, diff, waiting, got, polls,
                         reported, overlapped, late>>
      BY <1>6 DEF Store, kernel
    <2>3. NextFigure(t) \/ UNCHANGED <<pc, figure>>
      BY <1>6 DEF Store
    <2> HIDE DEF f, p
    <2>4. prev' \in [Figures -> IntPairs]
      BY <2>1, <2>2 DEF IntPairs
    <2>5. part' \in [Threads -> Pairs]
      BY <2>1, <2>2 DEF Pairs
    <2>6. /\ pc' \in [Threads -> {"idle", "sample", "subtract", "store",
                                  "reply"}]
          /\ figure' \in [Threads -> DOMAIN Order]
      BY <2>3, OrderFacts, AtIsFigure DEF NextFigure
    <2> QED
      BY <2>2, <2>4, <2>5, <2>6
  <1>7. ASSUME NEW t \in Threads, Reply(t) PROVE TypeOK'
    <2>1. figure' \in [Threads -> DOMAIN Order]
      BY <1>7, OrderFacts DEF Reply
    <2>2. /\ sample' \in [Threads -> IntPairs]
          /\ diff' \in [Threads -> [Figures -> IntPairs]]
      BY <1>7, ZeroType DEF Reply
    <2>3. /\ waiting' \in Threads \cup {NoThread}
          /\ got' \in {"none", "ok", "throw", "fail"}
      BY <1>7 DEF Reply, Outcome
    <2>4. /\ pc' = [pc EXCEPT ![t] = "idle"]
          /\ UNCHANGED <<missing, counters, prev, part, polls, reported,
                         overlapped, late>>
      BY <1>7 DEF Reply, kernel
    <2> QED
      BY <2>1, <2>2, <2>3, <2>4
  <1>8. CASE UNCHANGED vars
    BY <1>8 DEF vars, kernel, handlers
  <1> QED
    BY <1>1, <1>2, <1>3, <1>4, <1>5, <1>6, <1>7, <1>8 DEF Next, Handle

-----------------------------------------------------------------------------
(***************************************************************************)
(* Requests overlap only after a timeout.                                  *)
(***************************************************************************)
LEMMA OneStep == TypeOK /\ TypeOK' /\ OneAtATime /\ [Next]_vars => OneAtATime'
  <1> SUFFICES ASSUME TypeOK, TypeOK', OneAtATime, [Next]_vars
               PROVE  OneAtATime'
    OBVIOUS
  <1> USE DEF OneAtATime, OverlapNeedsTimeout, Busy
  <1>1. ASSUME NEW f \in Figures, Tick(f) PROVE OneAtATime'
    BY <1>1 DEF Tick, handlers
  <1>2. ASSUME NEW t \in Threads, Poll(t) PROVE OneAtATime'
    <2>1. /\ waiting = NoThread /\ waiting' = t /\ late' = late
          /\ pc' = [pc EXCEPT ![t] = "sample"]
          /\ overlapped' <=> overlapped \/ \E u \in Threads : pc[u] # "idle"
      BY <1>2 DEF Poll, Accept
    <2>2. ~late => \A u \in Threads : pc[u] = "idle"
      BY <2>1, ThreadsAssumption
    <2>3. \A u \in Threads \ {t} : pc'[u] = pc[u]
      BY <2>1 DEF TypeOK
    <2>4. pc'[t] = "sample"
      BY <2>1 DEF TypeOK
    <2> QED
      BY <2>1, <2>2, <2>3, <2>4
  <1>3. CASE Timeout
    BY <1>3 DEF Timeout, handlers
  <1>4. ASSUME NEW t \in Threads, Sample(t) \/ Subtract(t) \/ Store(t)
        PROVE  OneAtATime'
    <2>1. UNCHANGED <<waiting, late, overlapped>>
      BY <1>4 DEF Sample, Subtract, Store
    <2>2. /\ pc[t] # "idle"
          /\ \/ pc' = pc
             \/ \E place \in {"sample", "subtract", "store", "reply"} :
                  pc' = [pc EXCEPT ![t] = place]
      BY <1>4 DEF Sample, Subtract, Store, NextFigure
    <2>3. \A u \in Threads : pc'[u] # "idle" <=> pc[u] # "idle"
      BY <2>2 DEF TypeOK
    <2>4. waiting # NoThread => waiting \in Threads
      BY DEF TypeOK
    <2> QED
      BY <2>1, <2>3, <2>4
  <1>5. ASSUME NEW t \in Threads, Reply(t) PROVE OneAtATime'
    <2>1. /\ waiting' = IF waiting = t THEN NoThread ELSE waiting
          /\ UNCHANGED <<late, overlapped>>
          /\ pc[t] # "idle" /\ pc' = [pc EXCEPT ![t] = "idle"]
      BY <1>5 DEF Reply
    <2>2. pc'[t] = "idle" /\ \A u \in Threads \ {t} : pc'[u] = pc[u]
      BY <2>1 DEF TypeOK
    <2>3. waiting # NoThread => waiting \in Threads
      BY DEF TypeOK
    <2> QED
      BY <2>1, <2>2, <2>3
  <1>6. CASE UNCHANGED vars
    BY <1>6 DEF vars, handlers
  <1> QED
    BY <1>1, <1>2, <1>3, <1>4, <1>5, <1>6 DEF Next, Handle

-----------------------------------------------------------------------------
(***************************************************************************)
(* The sums.                                                               *)
(***************************************************************************)
\* The busy handler is alone as long as requests never overlapped.
LEMMA BusyIsAlone ==
  ASSUME TypeOK, OneAtATime, ~overlapped, NEW t \in Threads, Busy(t)
  PROVE  Alone(t)
  BY DEF OneAtATime, Alone

LEMMA SumsStep ==
  TypeOK /\ TypeOK' /\ OneAtATime /\ OneAtATime' /\ Sums /\ [Next]_vars
    => Sums'
  <1> SUFFICES ASSUME TypeOK, TypeOK', OneAtATime, OneAtATime', Sums,
                      [Next]_vars, ~overlapped',
                      NEW v \in Threads, Alone(v)'
               PROVE  SumsFit(v)'
    BY DEF Sums
  <1>1. ASSUME NEW f \in Figures, Tick(f) PROVE SumsFit(v)'
    BY <1>1 DEF Tick, handlers, Sums, Alone, Busy, SumsFit, Given, At
  <1>2. ASSUME NEW t \in Threads, Poll(t) PROVE SumsFit(v)'
    <2>1. /\ UNCHANGED <<prev, reported>>
          /\ ~overlapped /\ \A u \in Threads : pc[u] = "idle"
          /\ pc' = [pc EXCEPT ![t] = "sample"]
      BY <1>2 DEF Poll, Accept
    <2>2. SumsFit(v)
      BY <2>1 DEF Sums, Alone, Busy
    <2>3. \A f \in Figures, i \in Pairs : reported[f][i] = prev[f][i]
      BY <2>1, <2>2 DEF SumsFit, Given
    <2>4. pc'[v] \notin {"subtract", "store"}
      BY <2>1 DEF TypeOK
    <2> QED
      BY <2>1, <2>3, <2>4 DEF SumsFit, Given
  <1>3. CASE Timeout
    BY <1>3 DEF Timeout, handlers, Sums, Alone, Busy, SumsFit, Given, At
  <1>4. ASSUME NEW t \in Threads, Sample(t) PROVE SumsFit(v)'
    <2>1. /\ UNCHANGED <<prev, reported, overlapped, figure>>
          /\ pc[t] = "sample" /\ pc' = [pc EXCEPT ![t] = "subtract"]
          /\ part' = [part EXCEPT ![t] = 1]
      BY <1>4 DEF Sample
    <2>2. pc'[t] = "subtract" /\ part'[t] = 1
      BY <2>1 DEF TypeOK
    <2>3. v = t
      BY <2>2 DEF Alone, Busy
    <2>4. SumsFit(t)
      BY <2>1, BusyIsAlone DEF Sums, Busy
    <2>5. \A f \in Figures, i \in Pairs : reported[f][i] = prev[f][i]
      BY <2>1, <2>4 DEF SumsFit, Given
    <2>6. \A f \in Figures, i \in Pairs : ~Given(t, f, i)'
      BY <2>2 DEF Given, Pairs
    <2> QED
      BY <2>1, <2>2, <2>3, <2>5, <2>6 DEF SumsFit
  <1>5. ASSUME NEW t \in Threads, Subtract(t) PROVE SumsFit(v)'
    <2> DEFINE f == At(t)
               p == part[t]
    <2>1. /\ UNCHANGED <<prev, sample, overlapped, figure>>
          /\ pc[t] = "subtract"
          /\ reported' = [reported EXCEPT ![f][p] = @ + Difference(t)]
          /\ part' = [part EXCEPT ![t] = 3 - p]
          /\ pc' = IF p = 2 THEN [pc EXCEPT ![t] = "store"] ELSE pc
      BY <1>5 DEF Subtract
    <2>2. f \in Figures /\ p \in Pairs /\ f' = f
      BY <2>1, AtIsFigure DEF TypeOK, At
    <2>3. /\ pc'[t] = IF p = 2 THEN "store" ELSE "subtract"
          /\ part'[t] = 3 - p
      BY <2>1 DEF TypeOK
    <2>4. v = t
      BY <2>3 DEF Alone, Busy
    <2>5. SumsFit(t)
      BY <2>1, BusyIsAlone DEF Sums, Busy
    <2>6. /\ prev[f][p] \in Int /\ sample[t][p] \in Int
          /\ reported \in [Figures -> [Pairs -> Int]]
      BY <2>2 DEF TypeOK, IntPairs
    <2>7. reported[f][p] = prev[f][p]
      BY <2>1, <2>2, <2>5 DEF SumsFit, Given, Pairs
    <2>8. Difference(t) = sample[t][p] - prev[f][p]
      BY DEF Difference
    <2> HIDE DEF f, p
    <2>9. reported'[f][p] = sample[t][p]
      BY <2>1, <2>2, <2>6, <2>7, <2>8
    <2>10. \A g \in Figures, i \in Pairs :
             g # f \/ i # p => reported'[g][i] = reported[g][i]
      BY <2>1, <2>2, <2>6
    <2>11. \A g \in Figures, i \in Pairs :
             Given(t, g, i)' <=> (Given(t, g, i) \/ (g = f /\ i = p))
      BY <2>1, <2>2, <2>3 DEF Given, Pairs, f, p
    <2>12. ~(pc'[t] = "store" /\ part'[t] = 2)
      BY <2>2, <2>3 DEF Pairs
    <2>13. ASSUME NEW g \in Figures, NEW i \in Pairs
           PROVE  /\ Given(t, g, i)' => reported'[g][i] = sample[t][i]
                  /\ ~Given(t, g, i)' => reported'[g][i] = prev[g][i]
                  /\ ~(pc'[t] = "store" /\ i < part'[t])
      <3>1. ~(pc'[t] = "store" /\ i < part'[t])
        BY <2>2, <2>3 DEF Pairs
      <3>2. CASE g = f /\ i = p
        BY <3>1, <3>2, <2>9, <2>11
      <3>3. CASE g # f \/ i # p
        BY <3>1, <3>3, <2>5, <2>10, <2>11 DEF SumsFit
      <3> QED
        BY <3>2, <3>3
    <2> QED
      BY <2>1, <2>4, <2>13 DEF SumsFit
  <1>6. ASSUME NEW t \in Threads, Store(t) PROVE SumsFit(v)'
    <2> DEFINE f == At(t)
               p == part[t]
    <2>1. /\ UNCHANGED <<reported, sample, overlapped>>
          /\ pc[t] = "store"
          /\ prev' = [prev EXCEPT ![f][p] = sample[t][p]]
          /\ part' = [part EXCEPT ![t] = 3 - p]
      BY <1>6 DEF Store
    <2>2. /\ f \in Figures /\ p \in Pairs
          /\ prev \in [Figures -> [Pairs -> Int]]
      BY AtIsFigure DEF TypeOK, IntPairs
    <2>3. SumsFit(t)
      BY <2>1, BusyIsAlone DEF Sums, Busy
    <2>4. /\ \A i \in Pairs : reported[f][i] = sample[t][i]
          /\ \A i \in Pairs : i < p => prev[f][i] = sample[t][i]
          /\ \A g \in Figures : g # f =>
               \A i \in Pairs : reported[g][i] = prev[g][i]
      BY <2>1, <2>2, <2>3 DEF SumsFit, Given
    <2>5. CASE p = 2
      <3>1. NextFigure(t)
        BY <1>6, <2>5 DEF Store
      <3>2. pc'[t] \in {"sample", "reply"}
        BY <3>1 DEF NextFigure, TypeOK
      <3>3. v = t
        BY <3>2 DEF Alone, Busy
      <3> HIDE DEF f, p
      <3>4. prev'[f][2] = sample[t][2] /\ prev'[f][1] = prev[f][1]
        BY <2>1, <2>2, <2>5 DEF Pairs
      <3>5. \A g \in Figures : g # f => prev'[g] = prev[g]
        BY <2>1, <2>2
      <3>6. \A i \in Pairs : prev'[f][i] = sample[t][i]
        BY <2>4, <2>5, <3>4 DEF Pairs
      <3>7. \A g \in Figures, i \in Pairs : reported'[g][i] = prev'[g][i]
        BY <2>1, <2>4, <3>5, <3>6
      <3> QED
        BY <3>2, <3>3, <3>7 DEF SumsFit, Given
    <2>6. CASE p = 1
      <3>1. UNCHANGED <<pc, figure>>
        BY <1>6, <2>6 DEF Store
      <3>2. v = t
        BY <2>1, <3>1 DEF Alone, Busy
      <3>3. f' = f /\ part'[t] = 2
        BY <2>1, <2>6, <3>1 DEF At, TypeOK
      <3>4. \A g \in Figures, i \in Pairs : Given(t, g, i)' <=> g = f
        BY <2>1, <3>1, <3>3 DEF Given
      <3> HIDE DEF f, p
      <3>5. prev'[f][1] = sample[t][1]
        BY <2>1, <2>2, <2>6 DEF Pairs
      <3>6. \A g \in Figures : g # f => prev'[g] = prev[g]
        BY <2>1, <2>2
      <3>7. \A i \in Pairs : i < part'[t] => i = 1
        BY <3>3 DEF Pairs
      <3>8. ASSUME NEW g \in Figures, NEW i \in Pairs
            PROVE  /\ Given(t, g, i)' => reported'[g][i] = sample'[t][i]
                   /\ ~Given(t, g, i)' => reported'[g][i] = prev'[g][i]
        BY <2>1, <2>4, <3>4, <3>6
      <3>9. ASSUME NEW g \in Figures, NEW i \in Pairs, At(t)' = g,
                   i < part'[t]
            PROVE  prev'[g][i] = sample'[t][i]
        BY <2>1, <3>3, <3>5, <3>7, <3>9 DEF f
      <3> QED
        BY <3>2, <3>8, <3>9 DEF SumsFit
    <2> QED
      BY <2>2, <2>5, <2>6 DEF Pairs
  <1>7. ASSUME NEW t \in Threads, Reply(t) PROVE SumsFit(v)'
    <2>1. /\ UNCHANGED <<prev, reported, overlapped>>
          /\ pc[t] = "reply" /\ pc' = [pc EXCEPT ![t] = "idle"]
      BY <1>7 DEF Reply
    <2>2. Alone(t) /\ SumsFit(t)
      BY <2>1, BusyIsAlone DEF Sums, Busy
    <2>3. \A f \in Figures, i \in Pairs : reported[f][i] = prev[f][i]
      BY <2>1, <2>2 DEF SumsFit, Given
    <2>4. pc'[v] = "idle"
      BY <2>1, <2>2 DEF Alone, Busy, TypeOK
    <2> QED
      BY <2>1, <2>3, <2>4 DEF SumsFit, Given
  <1>8. CASE UNCHANGED vars
    BY <1>8 DEF vars, handlers, Sums, Alone, Busy, SumsFit, Given, At
  <1> QED
    BY <1>1, <1>2, <1>3, <1>4, <1>5, <1>6, <1>7, <1>8 DEF Next, Handle

-----------------------------------------------------------------------------
(***************************************************************************)
(* The differences are those of counters that only grow.                   *)
(***************************************************************************)
\* Going from a to b is something the kernel counts: the processor is idle for
\* no longer than the time that passed.
Grows(f, a, b) ==
  /\ a[1] <= b[1] /\ a[2] <= b[2]
  /\ f = "cpu" => b[2] - a[2] <= b[1] - a[1]

\* Figure number n of the reply of t is made.
Made(t, n) ==
  /\ Busy(t)
  /\ n < figure[t] \/ (n = figure[t] /\ pc[t] \in {"store", "reply"})

\* The static variables, the sample and the counters follow each other, and the
\* figures made so far are differences of them.
FollowsKernel(t) ==
  /\ \A f \in Figures :
       (At(t) = f /\ pc[t] = "store") \/ Grows(f, prev[f], counters[f])
  /\ pc[t] = "subtract" => Grows(At(t), prev[At(t)], sample[t])
  /\ pc[t] \in {"subtract", "store"} =>
       Grows(At(t), sample[t], counters[At(t)])
  /\ pc[t] = "subtract" /\ part[t] = 2 =>
       diff[t][At(t)][1] = sample[t][1] - prev[At(t)][1]
  /\ \A n \in 1 .. 3 : Made(t, n) => Grows(Order[n], Zero, diff[t][Order[n]])
  /\ pc[t] = "reply" => figure[t] = 3

Regular ==
  /\ "disk" \in missing => \A i \in Pairs : counters["disk"][i] = 0
  /\ ~overlapped /\ "network" \notin missing =>
       \A t \in Threads : Alone(t) => FollowsKernel(t)
  /\ ThrowNeedsOverlap

IInv == IInv1 /\ Regular

LEMMA OrderDiffers ==
  \A m, n \in 1 .. 3 : Order[m] = Order[n] => m = n
  BY OrderFacts

LEMMA GrowsFurther ==
  ASSUME NEW f \in Figures,
         NEW a \in IntPairs, NEW b \in IntPairs, NEW c \in IntPairs,
         Grows(f, a, b), Grows(f, b, c)
  PROVE  Grows(f, a, c)
  BY DEF Grows, IntPairs, Pairs

LEMMA SameGrows ==
  ASSUME NEW f \in Figures, NEW a \in IntPairs PROVE Grows(f, a, a)
  BY DEF Grows, IntPairs, Pairs

LEMMA CountersType ==
  TypeOK => \A f \in Figures : counters[f] \in IntPairs /\ prev[f] \in IntPairs
  BY DEF TypeOK, IntPairs

\* Until the interface is not called eth0, a sample is the counters.
LEMMA SampleIsCounters ==
  ASSUME TypeOK, Regular, "network" \notin missing, NEW f \in Figures,
         NEW r \in Readings(f)
  PROVE  r = counters[f]
  <1>1. CASE f \notin missing
    BY <1>1 DEF Readings
  <1>2. CASE f \in missing
    <2>1. f = "disk" /\ r = Zero
      BY <1>2 DEF Readings, TypeOK
    <2>2. counters["disk"] = [i \in Pairs |-> 0]
      BY <1>2, <2>1, OrderFacts DEF Regular, TypeOK
    <2> QED
      BY <2>1, <2>2 DEF Zero
  <1> QED
    BY <1>1, <1>2

LEMMA InitRegular == Init => Regular
  <1> SUFFICES ASSUME Init PROVE Regular
    OBVIOUS
  <1>1. \A f \in Figures : Grows(f, prev[f], counters[f])
    BY ZeroType, SameGrows DEF Init
  <1>2. counters["disk"] = Zero
    BY OrderFacts DEF Init
  <1>3. \A t \in Threads : pc[t] = "idle"
    BY DEF Init
  <1>4. \A t \in Threads : FollowsKernel(t)
    BY <1>1, <1>3 DEF FollowsKernel, Made, Busy
  <1>5. ThrowNeedsOverlap
    BY DEF Init, ThrowNeedsOverlap
  <1> QED
    BY <1>2, <1>4, <1>5, ZeroType DEF Regular

\* A reply made of such differences is one the oj_server can read.
LEMMA ReplyIsReadable ==
  ASSUME TypeOK, NEW t \in Threads, FollowsKernel(t), pc[t] = "reply"
  PROVE  Outcome(t) = "ok"
  <1>1. \A n \in 1 .. 3 : Grows(Order[n], Zero, diff[t][Order[n]])
    BY DEF FollowsKernel, Made, Busy
  <1>2. ASSUME NEW n \in 1 .. 3 PROVE Readable(Order[n], diff[t][Order[n]])
    <2> DEFINE d == diff[t][Order[n]]
    <2>1. d[1] \in Int /\ d[2] \in Int
      BY OrderFacts DEF TypeOK, IntPairs, Pairs
    <2>2. Grows(Order[n], Zero, d)
      BY <1>1
    <2>3. Zero[1] = 0 /\ Zero[2] = 0
      BY ZeroType DEF Pairs
    <2> HIDE DEF d
    <2>4. 0 <= d[1] /\ 0 <= d[2] /\ (Order[n] = "cpu" => d[2] <= d[1])
      BY <2>1, <2>2, <2>3 DEF Grows
    <2>5. CASE Order[n] # "cpu"
      BY <2>1, <2>4, <2>5 DEF Readable, d
    <2>6. CASE Order[n] = "cpu"
      BY <2>1, <2>4, <2>6 DEF Readable, d
    <2> QED
      BY <2>5, <2>6
  <1>3. \A f \in Figures : Readable(f, diff[t][f])
    BY <1>2, OrderFacts
  <1> QED
    BY <1>3 DEF Outcome

LEMMA FollowsStep ==
  ASSUME TypeOK, TypeOK', OneAtATime, Sums, Regular, [Next]_vars,
         ~overlapped', "network" \notin missing', NEW v \in Threads, Alone(v)'
  PROVE  FollowsKernel(v)'
  <1>0. missing' = missing
    BY DEF Next, Tick, Poll, Timeout, Handle, Sample, Subtract, Store, Reply,
           kernel, vars
  <1>1. ASSUME NEW f \in Figures, Tick(f) PROVE FollowsKernel(v)'
    <2>1. /\ UNCHANGED <<prev, pc, figure, part, sample, diff, overlapped>>
          /\ \E inc \in Increments(f) :
               counters' = [counters EXCEPT ![f] =
                              [i \in Pairs |-> counters[f][i] + inc[i]]]
      BY <1>1 DEF Tick, handlers
    <2>2. FollowsKernel(v)
      BY <1>0, <2>1 DEF Regular, Alone, Busy
    <2>3. PICK inc \in Increments(f) :
            counters' = [counters EXCEPT ![f] =
                           [i \in Pairs |-> counters[f][i] + inc[i]]]
      BY <2>1
    <2>4. /\ inc[1] \in Nat /\ inc[2] \in Nat
          /\ f = "cpu" => inc[2] <= inc[1]
      BY <2>3 DEF Increments
    <2>5. /\ counters'[f][1] = counters[f][1] + inc[1]
          /\ counters'[f][2] = counters[f][2] + inc[2]
          /\ \A g \in Figures : g # f => counters'[g] = counters[g]
          /\ counters[f][1] \in Int /\ counters[f][2] \in Int
      BY <2>3 DEF TypeOK, Pairs
    <2>6. Grows(f, counters[f], counters'[f])
      BY <2>4, <2>5 DEF Grows
    <2>7. \A g \in Figures : Grows(g, counters[g], counters'[g])
      BY <2>5, <2>6, SameGrows, CountersType
    <2>8. /\ \A g \in Figures : counters'[g] \in IntPairs
          /\ sample[v] \in IntPairs /\ At(v) \in Figures
      BY AtIsFigure DEF TypeOK, IntPairs
    <2>9. At(v)' = At(v)
      BY <2>1 DEF At
    <2>10. \A g \in Figures :
             (At(v) = g /\ pc[v] = "store") \/ Grows(g, prev[g], counters'[g])
      BY <2>2, <2>7, <2>8, GrowsFurther, CountersType DEF FollowsKernel
    <2>11. pc[v] \in {"subtract", "store"} =>
             Grows(At(v), sample[v], counters'[At(v)])
      BY <2>2, <2>7, <2>8, GrowsFurther, CountersType DEF FollowsKernel
    <2>12. \A n \in 1 .. 3 : Made(v, n)' <=> Made(v, n)
      BY <2>1 DEF Made, Busy
    <2> QED
      BY <2>1, <2>2, <2>9, <2>10, <2>11, <2>12 DEF FollowsKernel
  <1>2. ASSUME NEW t \in Threads, Poll(t) PROVE FollowsKernel(v)'
    <2>1. /\ UNCHANGED <<counters, prev, sample, diff, part>>
          /\ ~overlapped /\ \A u \in Threads : pc[u] = "idle"
          /\ pc' = [pc EXCEPT ![t] = "sample"]
          /\ figure' = [figure EXCEPT ![t] = 1]
      BY <1>2 DEF Poll, Accept, kernel
    <2>2. FollowsKernel(v)
      BY <1>0, <2>1 DEF Regular, Alone, Busy
    <2>3. \A f \in Figures : Grows(f, prev[f], counters[f])
      BY <2>1, <2>2 DEF FollowsKernel
    <2>4. pc'[v] = "idle" \/ (pc'[v] = "sample" /\ figure'[v] = 1)
      BY <2>1 DEF TypeOK
    <2>5. \A n \in 1 .. 3 : ~Made(v, n)'
      BY <2>4 DEF Made, Busy
    <2> QED
      BY <2>1, <2>3, <2>4, <2>5 DEF FollowsKernel
  <1>3. CASE Timeout
    <2>1. /\ UNCHANGED <<counters, prev, pc, figure, part, sample, diff,
                         overlapped>>
      BY <1>3 DEF Timeout, handlers, kernel
    <2>2. FollowsKernel(v)
      BY <1>0, <2>1 DEF Regular, Alone, Busy
    <2> QED
      BY <2>1, <2>2 DEF FollowsKernel, Made, Busy, At
  <1>4. ASSUME NEW t \in Threads, Sample(t) PROVE FollowsKernel(v)'
    <2>1. /\ UNCHANGED <<counters, prev, diff, overlapped, figure>>
          /\ pc[t] = "sample" /\ pc' = [pc EXCEPT ![t] = "subtract"]
          /\ part' = [part EXCEPT ![t] = 1]
          /\ \E r \in Readings(At(t)) : sample' = [sample EXCEPT ![t] = r]
      BY <1>4 DEF Sample, kernel
    <2>2. pc'[t] = "subtract" /\ part'[t] = 1
      BY <2>1 DEF TypeOK
    <2>3. v = t
      BY <2>2 DEF Alone, Busy
    <2>4. FollowsKernel(t)
      BY <1>0, <2>1, BusyIsAlone DEF Regular, Busy
    <2>5. At(t) \in Figures /\ At(t)' = At(t)
      BY <2>1, AtIsFigure DEF At
    <2>6. sample'[t] = counters[At(t)]
      BY <1>0, <2>1, <2>5, SampleIsCounters DEF TypeOK
    <2>7. \A f \in Figures : Grows(f, prev[f], counters[f])
      BY <2>1, <2>4 DEF FollowsKernel
    <2>8. Grows(At(t), counters[At(t)], counters[At(t)])
      BY <2>5, SameGrows, CountersType
    <2>9. \A n \in 1 .. 3 : Made(t, n)' <=> Made(t, n)
      BY <2>1, <2>2 DEF Made, Busy
    <2>10. \A n \in 1 .. 3 :
             Made(t, n)' => Grows(Order[n], Zero, diff'[t][Order[n]])
      BY <2>1, <2>4, <2>9 DEF FollowsKernel
    <2> QED
      BY <2>1, <2>2, <2>3, <2>5, <2>6, <2>7, <2>8, <2>10 DEF FollowsKernel
  <1>5. ASSUME NEW t \in Threads, Subtract(t) PROVE FollowsKernel(v)'
    <2> DEFINE f == At(t)
               p == part[t]
               q == diff[t]
    <2>1. /\ UNCHANGED <<counters, prev, sample, overlapped, figure>>
          /\ pc[t] = "subtract"
          /\ diff' = [diff EXCEPT ![t][f][p] = Difference(t)]
          /\ part' = [part EXCEPT ![t] = 3 - p]
          /\ pc' = IF p = 2 THEN [pc EXCEPT ![t] = "store"] ELSE pc
      BY <1>5 DEF Subtract, kernel
    <2>2. /\ f \in Figures /\ p \in Pairs /\ f' = f
          /\ figure[t] \in 1 .. 3 /\ f = Order[figure[t]]
      BY <2>1, AtIsFigure DEF TypeOK, At
    <2>3. /\ pc'[t] = IF p = 2 THEN "store" ELSE "subtract"
          /\ part'[t] = 3 - p
      BY <2>1 DEF TypeOK
    <2>4. v = t
      BY <2>3 DEF Alone, Busy
    <2>5. FollowsKernel(t)
      BY <1>0, <2>1, BusyIsAlone DEF Regular, Busy
    <2>6. /\ \A g \in Figures : Grows(g, prev[g], counters[g])
          /\ Grows(f, prev[f], sample[t])
          /\ Grows(f, sample[t], counters[f])
      BY <2>1, <2>5 DEF FollowsKernel
    <2>7. /\ sample[t][1] \in Int /\ sample[t][2] \in Int
          /\ prev[f][1] \in Int /\ prev[f][2] \in Int
      BY <2>2 DEF TypeOK, IntPairs, Pairs
    <2>8. Difference(t) = sample[t][p] - prev[f][p]
      BY DEF Difference
    <2>9. /\ diff'[t][f][p] = Difference(t)
          /\ \A i \in Pairs : i # p => diff'[t][f][i] = q[f][i]
          /\ \A g \in Figures : g # f => diff'[t][g] = q[g]
      <3>1. diff \in [Threads -> [Figures -> [Pairs -> Int]]]
        BY DEF TypeOK, IntPairs
      <3> HIDE DEF f, p
      <3> QED
        BY <2>1, <2>2, <3>1
    <2>10. pc'[t] = "subtract" /\ part'[t] = 2 =>
             diff'[t][f][1] = sample[t][1] - prev[f][1]
      <3> HIDE DEF f, p
      <3> QED
        BY <2>2, <2>3, <2>8, <2>9 DEF Pairs
    <2>11. pc'[t] = "store" => Grows(f, Zero, diff'[t][f])
      <3> SUFFICES ASSUME p = 2 PROVE Grows(f, Zero, diff'[t][f])
        BY <2>3
      <3>1. q[f][1] = sample[t][1] - prev[f][1]
        BY <2>1, <2>5 DEF FollowsKernel
      <3> HIDE DEF f, p, q
      <3>2. /\ diff'[t][f][1] = sample[t][1] - prev[f][1]
            /\ diff'[t][f][2] = sample[t][2] - prev[f][2]
        BY <2>8, <2>9, <3>1 DEF Pairs
      <3>3. Zero[1] = 0 /\ Zero[2] = 0
        BY ZeroType DEF Pairs
      <3> QED
        BY <2>6, <2>7, <3>2, <3>3 DEF Grows
    <2>12. ASSUME NEW n \in 1 .. 3, Made(t, n)'
           PROVE  Grows(Order[n], Zero, diff'[t][Order[n]])
      <3>1. CASE n = figure[t]
        <4>1. pc'[t] = "store"
          BY <2>1, <2>3, <2>12, <3>1 DEF Made
        <4> QED
          BY <2>2, <2>11, <3>1, <4>1
      <3>2. CASE n # figure[t]
        <4>1. Made(t, n) /\ Order[n] # f /\ Order[n] \in Figures
          BY <2>1, <2>2, <2>12, <3>2, OrderDiffers, OrderFacts DEF Made, Busy
        <4>2. Grows(Order[n], Zero, q[Order[n]])
          BY <2>5, <4>1 DEF FollowsKernel
        <4> HIDE DEF f, q
        <4> QED
          BY <2>9, <4>1, <4>2
      <3> QED
        BY <3>1, <3>2
    <2>13. pc'[t] # "reply"
      BY <2>3
    <2> HIDE DEF p, q
    <2> QED
      BY <2>1, <2>2, <2>3, <2>4, <2>6, <2>10, <2>12, <2>13 DEF FollowsKernel
  <1>6. ASSUME NEW t \in Threads, Store(t) PROVE FollowsKernel(v)'
    <2> DEFINE f == At(t)
               p == part[t]
    <2>1. /\ UNCHANGED <<counters, sample, diff, overlapped>>
          /\ pc[t] = "store"
          /\ prev' = [prev EXCEPT ![f][p] = sample[t][p]]
          /\ part' = [part EXCEPT ![t] = 3 - p]
      BY <1>6 DEF Store, kernel
    <2>2. /\ f \in Figures /\ p \in Pairs /\ figure[t] \in 1 .. 3
          /\ f = Order[figure[t]]
          /\ prev \in [Figures -> [Pairs -> Int]]
      BY AtIsFigure DEF TypeOK, IntPairs, At
    <2>3. FollowsKernel(t) /\ SumsFit(t)
      BY <1>0, <2>1, BusyIsAlone DEF Regular, Sums, Busy
    <2>4. /\ \A g \in Figures : g # f => Grows(g, prev[g], counters[g])
          /\ Grows(f, sample[t], counters[f])
          /\ Grows(f, Zero, diff[t][f])
          /\ \A n \in 1 .. 3 : n < figure[t] =>
               Grows(Order[n], Zero, diff[t][Order[n]])
      BY <2>1, <2>2, <2>3 DEF FollowsKernel, Made, Busy
    <2>5. \A g \in Figures : g # f => prev'[g] = prev[g]
      <3> HIDE DEF f, p
      <3> QED
        BY <2>1, <2>2
    <2>6. CASE p = 2
      <3>1. NextFigure(t)
        BY <1>6, <2>6 DEF Store
      <3>2. \/ /\ pc'[t] = "reply" /\ figure'[t] = figure[t]
               /\ figure[t] = 3
            \/ pc'[t] = "sample" /\ figure'[t] = figure[t] + 1
        BY <3>1, OrderFacts DEF NextFigure, TypeOK
      <3>3. v = t
        BY <3>2 DEF Alone, Busy
      <3>4. /\ prev'[f][1] = sample[t][1] /\ prev'[f][2] = sample[t][2]
        <4>1. prev[f][1] = sample[t][1]
          BY <2>1, <2>2, <2>3, <2>6 DEF SumsFit, Pairs
        <4> HIDE DEF f, p
        <4> QED
          BY <2>1, <2>2, <2>6, <4>1 DEF Pairs
      <3>5. Grows(f, prev'[f], counters[f])
        BY <2>4, <3>4 DEF Grows
      <3>6. \A g \in Figures : Grows(g, prev'[g], counters'[g])
        BY <2>1, <2>4, <2>5, <3>5
      <3>7. \A n \in 1 .. 3 : Made(t, n)' => n <= figure[t]
        BY <2>2, <3>2 DEF Made
      <3>8. \A n \in 1 .. 3 : n <= figure[t] =>
              Grows(Order[n], Zero, diff'[t][Order[n]])
        BY <2>1, <2>2, <2>4
      <3> HIDE DEF f, p
      <3> QED
        BY <3>2, <3>3, <3>6, <3>7, <3>8 DEF FollowsKernel
    <2>7. CASE p = 1
      <3>1. UNCHANGED <<pc, figure>>
        BY <1>6, <2>7 DEF Store
      <3>2. v = t
        BY <2>1, <3>1 DEF Alone, Busy
      <3>3. f' = f
        BY <3>1 DEF At
      <3>4. \A n \in 1 .. 3 : Made(t, n)' <=> Made(t, n)
        BY <3>1 DEF Made, Busy
      <3>5. \A g \in Figures : g # f => Grows(g, prev'[g], counters'[g])
        BY <2>1, <2>4, <2>5
      <3>6. \A n \in 1 .. 3 :
              Made(t, n)' => Grows(Order[n], Zero, diff'[t][Order[n]])
        BY <2>1, <2>3, <3>4 DEF FollowsKernel
      <3>7. Grows(f', sample'[t], counters'[f'])
        BY <2>1, <2>4, <3>3
      <3> HIDE DEF p
      <3> QED
        BY <2>1, <3>1, <3>2, <3>3, <3>5, <3>6, <3>7 DEF FollowsKernel
    <2> QED
      BY <2>2, <2>6, <2>7 DEF Pairs
  <1>7. ASSUME NEW t \in Threads, Reply(t) PROVE FollowsKernel(v)'
    <2>1. /\ UNCHANGED <<counters, prev, overlapped>>
          /\ pc[t] = "reply" /\ pc' = [pc EXCEPT ![t] = "idle"]
      BY <1>7 DEF Reply, kernel
    <2>2. Alone(t) /\ FollowsKernel(t)
      BY <1>0, <2>1, BusyIsAlone DEF Regular, Busy
    <2>3. \A f \in Figures : Grows(f, prev[f], counters[f])
      BY <2>1, <2>2 DEF FollowsKernel
    <2>4. pc'[v] = "idle"
      BY <2>1, <2>2 DEF Alone, Busy, TypeOK
    <2>5. \A n \in 1 .. 3 : ~Made(v, n)'
      BY <2>4 DEF Made, Busy
    <2> QED
      BY <2>1, <2>3, <2>4, <2>5 DEF FollowsKernel
  <1>8. CASE UNCHANGED vars
    <2>1. /\ UNCHANGED <<counters, prev, pc, figure, part, sample, diff,
                         overlapped>>
      BY <1>8 DEF vars, handlers, kernel
    <2>2. FollowsKernel(v)
      BY <1>0, <2>1 DEF Regular, Alone, Busy
    <2> QED
      BY <2>1, <2>2 DEF FollowsKernel, Made, Busy, At
  <1> QED
    BY <1>1, <1>2, <1>3, <1>4, <1>5, <1>6, <1>7, <1>8 DEF Next, Handle

LEMMA RegularStep == IInv /\ TypeOK' /\ [Next]_vars => Regular'
  <1> SUFFICES ASSUME IInv, TypeOK', [Next]_vars PROVE Regular'
    OBVIOUS
  <1>1. TypeOK /\ OneAtATime /\ Sums /\ Regular
    BY DEF IInv, IInv1
  <1>2. missing' = missing
    BY DEF Next, Tick, Poll, Timeout, Handle, Sample, Subtract, Store, Reply,
           kernel, vars
  <1>3. "disk" \in missing => counters'["disk"] = counters["disk"]
    <2>1. CASE \E f \in Figures : Tick(f)
      BY <1>1, <2>1, OrderFacts DEF Tick, TypeOK
    <2>2. CASE ~(\E f \in Figures : Tick(f))
      BY <2>2 DEF Next, Poll, Timeout, Handle, Sample, Subtract, Store, Reply,
                  kernel, vars
    <2> QED
      BY <2>1, <2>2
  <1>4. ThrowNeedsOverlap'
    <2>1. CASE \E t \in Threads : Reply(t)
      <3>1. PICK t \in Threads : Reply(t)
        BY <2>1
      <3>2. /\ pc[t] = "reply" /\ overlapped' = overlapped
            /\ got' = Outcome(t) \/ got' = got
        BY <3>1 DEF Reply
      <3>3. ~overlapped /\ "network" \notin missing => Outcome(t) = "ok"
        BY <1>1, <3>2, BusyIsAlone, ReplyIsReadable DEF Regular, Busy
      <3> QED
        BY <1>1, <1>2, <3>2, <3>3 DEF ThrowNeedsOverlap, Regular
    <2>2. CASE ~\E t \in Threads : Reply(t)
      <3>1. /\ got' \in {got, "fail"}
            /\ overlapped => overlapped'
        <4>1. CASE \E t \in Threads : Poll(t)
          BY <4>1 DEF Poll, Accept
        <4>2. CASE ~\E t \in Threads : Poll(t)
          BY <2>2, <4>2 DEF Next, Tick, Timeout, Handle, Sample, Subtract,
                            Store, vars
        <4> QED
          BY <4>1, <4>2
      <3> QED
        BY <1>1, <1>2, <3>1 DEF ThrowNeedsOverlap, Regular
    <2> QED
      BY <2>1, <2>2
  <1>5. ~overlapped' /\ "network" \notin missing' =>
          \A t \in Threads : Alone(t)' => FollowsKernel(t)'
    BY <1>1, FollowsStep
  <1> QED
    BY <1>1, <1>2, <1>3, <1>4, <1>5 DEF Regular

-----------------------------------------------------------------------------
(***************************************************************************)
(* The theorems.                                                           *)
(***************************************************************************)
\* The invariant above holds of every state the handlers and polls reach.
THEOREM StatusInvariant == Spec => []IInv
  <1>1. Init => IInv
    BY InitInv, InitRegular DEF IInv
  <1>2. IInv /\ [Next]_vars => IInv'
    <2> SUFFICES ASSUME IInv, [Next]_vars PROVE IInv'
      OBVIOUS
    <2>1. TypeOK /\ OneAtATime /\ Sums
      BY DEF IInv, IInv1
    <2>2. TypeOK'
      BY <2>1, TypeStep
    <2>3. OneAtATime'
      BY <2>1, <2>2, OneStep
    <2>4. Sums'
      BY <2>1, <2>2, <2>3, SumsStep
    <2>5. Regular'
      BY <2>2, RegularStep
    <2> QED
      BY <2>2, <2>3, <2>4, <2>5 DEF IInv, IInv1
  <1> QED
    BY <1>1, <1>2, PTL DEF Spec

\* Every variable of the handlers and of the poll has its type.
THEOREM TypeCorrect == Spec => []TypeOK
  <1>1. IInv => TypeOK
    BY DEF IInv, IInv1
  <1> QED
    BY <1>1, StatusInvariant, PTL

\* The mutex of LoadBalance keeps the polls of one oj_server apart in every
\* compile server, until one of them times out (Machine::UpdateStatus).
THEOREM OverlapCorrect == Spec => []OverlapNeedsTimeout
  <1>1. IInv => OverlapNeedsTimeout
    BY DEF IInv, IInv1, OneAtATime
  <1> QED
    BY <1>1, StatusInvariant, PTL

\* While requests do not overlap, no counter is left out of the differences or
\* counted twice (the static variables of HostStatusUtil).
THEOREM SumsCorrect == Spec => []DifferencesAddUp
  <1>1. IInv => DifferencesAddUp
    <2> SUFFICES ASSUME IInv, Quiet, ~overlapped PROVE reported = prev
      BY DEF DifferencesAddUp
    <2>1. PICK t \in Threads : TRUE
      BY ThreadsAssumption
    <2>2. SumsFit(t) /\ pc[t] = "idle"
      BY <2>1 DEF IInv, IInv1, Sums, Alone, Busy, Quiet
    <2>3. \A f \in Figures, i \in Pairs : reported[f][i] = prev[f][i]
      BY <2>2 DEF SumsFit, Given
    <2>4. /\ reported \in [Figures -> [Pairs -> Int]]
          /\ prev \in [Figures -> [Pairs -> Int]]
      BY DEF IInv, IInv1, TypeOK, IntPairs
    <2>5. \A f \in Figures : reported[f] = prev[f]
      BY <2>3, <2>4
    <2> QED
      BY <2>4, <2>5
  <1> QED
    BY <1>1, StatusInvariant, PTL

\* However often a host is polled, asUInt64 throws only after overlapping
\* requests or without an interface eth0 (get_network_usage).
THEOREM ThrowCorrect == Spec => []ThrowNeedsOverlap
  <1>1. IInv => ThrowNeedsOverlap
    BY DEF IInv, Regular
  <1> QED
    BY <1>1, StatusInvariant, PTL

=============================================================================
