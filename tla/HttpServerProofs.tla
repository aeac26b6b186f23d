--------------------------- MODULE HttpServerProofs ---------------------------
(***************************************************************************)
(* Proofs about HttpServer, for any number of workers, connections and     *)
(* requests: who owns a connection, that no wake-up is lost, what is done  *)
(* when listen() returns and what a last response says.                    *)
(***************************************************************************)
EXTENDS HttpServer, ListLemmas, FiniteSetTheorems

-----------------------------------------------------------------------------
(***************************************************************************)
(* The inductive invariant.                                                *)
(***************************************************************************)
\* Where the listener and the workers are, and what they hold there.
PlacesFit ==
  /\ accepted # NoConn <=> listener = "enqueue"
  /\ shutdown <=> listener \in {"join", "returned"}
  /\ \A w \in Workers :
       /\ w \in Serving <=> conn[w] # NoConn
       /\ pc[w] \in {"wait", "handle"} => count[w] > 0
       /\ pc[w] = "exited" => shutdown /\ jobs = << >>
  /\ listener = "returned" => \A w \in Workers : pc[w] = "exited"

\* A client waits for its answer before it sends again, and a worker that
\* closes a connection has answered all that will ever be sent on it, or the
\* keep-alive timeout has passed.
Answered ==
  /\ \A c \in Connections : sent[c] \in {served[c], served[c] + 1}
  /\ \A w \in Workers :
       /\ pc[w] = "handle" => sent[conn[w]] = served[conn[w]] + 1
       /\ pc[w] = "close" =>
            \/ timedOut[conn[w]]
            \/ /\ sent[conn[w]] = served[conn[w]]
               /\ hungUp[conn[w]] \/ toldClose[conn[w]] \/ asksClose[conn[w]]

IInv ==
  TypeOK /\ PlacesFit /\ ConnectionsOwned /\ NoLostWakeUp /\ Answered

LEMMA InitInv == Init => IInv
  <1> SUFFICES ASSUME Init PROVE IInv
    OBVIOUS
  <1> USE DEF Init
  <1>1. TypeOK
    <2>1. 0 \in 0 .. MaxKeep /\ << >> \in Seq(Connections)
      BY KeepAssumption, EmptySeq
    <2> QED
      BY <2>1 DEF TypeOK
  <1>2. Serving = {} /\ Asleep = {} /\ ToSet(jobs) = {}
    BY DEF Serving, Asleep, ToSet
  <1>3. PlacesFit
    BY <1>2 DEF PlacesFit
  <1>4. ConnectionsOwned
    BY <1>2, ConnectionsAssumption DEF ConnectionsOwned, IsInjective
  <1>5. NoLostWakeUp
    BY <1>2 DEF NoLostWakeUp
  <1>6. Answered
    BY DEF Answered
  <1> QED
    BY <1>1, <1>3, <1>4, <1>5, <1>6 DEF IInv

-----------------------------------------------------------------------------
LEMMA TypeStep == TypeOK /\ PlacesFit /\ [Next]_vars => TypeOK'
  <1> SUFFICES ASSUME TypeOK, PlacesFit, [Next]_vars PROVE TypeOK'
    OBVIOUS
  <1> USE DEF TypeOK
  <1>0. \A w \in Workers : w \in Serving => conn[w] \in Connections
    BY DEF PlacesFit
  <1>1. ASSUME NEW c \in Connections, Connect(c) \/ Send(c) \/ HangUp(c)
        PROVE  TypeOK'
    <2>1. CASE Connect(c)
      BY <2>1 DEF Connect, pool, client
    <2>2. CASE Send(c)
      <3>1. sent' \in [Connections -> Nat]
        BY <2>2 DEF Send
      <3>2. asksClose' \in [Connections -> BOOLEAN]
        BY <2>2 DEF Send
      <3> QED
        BY <2>2, <3>1, <3>2 DEF Send, pool
    <2>3. CASE HangUp(c)
      BY <2>3 DEF HangUp, pool
    <2> QED
      BY <1>1, <2>1, <2>2, <2>3
  <1>2. ASSUME NEW c \in Connections, Accept(c) PROVE TypeOK'
    BY <1>2 DEF Accept, pool, client
  <1>3. CASE AcceptFails
    BY <1>3 DEF AcceptFails, pool, client
  <1>4. CASE Enqueue
    <2>1. jobs' \in Seq(Connections)
      BY <1>4, AppendProperties DEF Enqueue, PlacesFit
    <2> QED
      BY <1>4, <2>1 DEF Enqueue, NotifyOne, Goto, Asleep, client
  <1>5. CASE Shutdown
    BY <1>5 DEF Shutdown, client
  <1>6. CASE Join
    BY <1>6 DEF Join, pool, client
  <1>7. ASSUME NEW w \in Workers, Sleep(w) \/ WakeUp(w) \/ Exit(w)
        PROVE  TypeOK'
    BY <1>7 DEF Sleep, WakeUp, Exit, Goto, client
  <1>8. ASSUME NEW w \in Workers, TakeJob(w) PROVE TypeOK'
    <2>1. jobs' \in Seq(Connections) /\ Head(jobs) \in Connections
      BY <1>8, HeadTailProperties DEF TakeJob
    <2> QED
      BY <1>8, <2>1, KeepAssumption DEF TakeJob, Goto, client
  <1>9. ASSUME NEW w \in Workers, Readable(w) \/ KeepAliveTimeout(w)
        PROVE  TypeOK'
    BY <1>9 DEF Readable, KeepAliveTimeout, Goto, client
  <1>10. ASSUME NEW w \in Workers, Handle(w) PROVE TypeOK'
    <2>1. conn[w] \in Connections /\ count[w] \in 1 .. MaxKeep
      BY <1>0, <1>10, KeepAssumption DEF Handle, Serving, PlacesFit
    <2>2. SaysClose(w) \in BOOLEAN
      BY <2>1 DEF SaysClose, LastOne
    <2>3. count' \in [Workers -> 0 .. MaxKeep]
      BY <1>10, <2>1, KeepAssumption DEF Handle
    <2>4. served' \in [Connections -> Nat]
      BY <1>10, <2>1 DEF Handle
    <2>5. toldClose' \in [Connections -> BOOLEAN]
      BY <1>10, <2>2 DEF Handle
    <2>6. pc' \in [Workers -> {"asleep", "check", "wait", "handle", "close",
                               "exited"}]
      BY <1>10 DEF Handle, Goto
    <2>7. UNCHANGED <<listener, accepted, jobs, shutdown, conn, stage, sent,
                      asksClose, hungUp, timedOut>>
      BY <1>10 DEF Handle
    <2> QED
      BY <2>3, <2>4, <2>5, <2>6, <2>7
  <1>11. ASSUME NEW w \in Workers, Close(w) PROVE TypeOK'
    <2>1. 0 \in 0 .. MaxKeep
      BY KeepAssumption
    <2> QED
      BY <1>11, <2>1 DEF Close, Goto, client
  <1>12. CASE UNCHANGED vars
    BY <1>12 DEF vars, pool, client
  <1> QED
    BY <1>1, <1>2, <1>3, <1>4, <1>5, <1>6, <1>7, <1>8, <1>9, <1>10, <1>11,
       <1>12 DEF Next, Clients, Listen, Work

\* Going to a place moves one worker.
LEMMA GotoMoves ==
  ASSUME TypeOK, NEW w \in Workers, NEW place, Goto(w, place)
  PROVE  pc'[w] = place /\ \A v \in Workers \ {w} : pc'[v] = pc[v]
  BY DEF Goto, TypeOK

\* Notifying changes the place of a sleeping worker, or of none.
LEMMA NotifyOneWakes ==
  ASSUME TypeOK, NotifyOne
  PROVE  /\ \A w \in Workers : pc'[w] = pc[w]
                                \/ (pc[w] = "asleep" /\ pc'[w] = "check")
         /\ \/ Asleep = {} /\ pc' = pc
            \/ \E v \in Asleep : pc' = [pc EXCEPT ![v] = "check"]
  <1>1. CASE Asleep = {} /\ UNCHANGED pc
    BY <1>1
  <1>2. CASE \E v \in Asleep : Goto(v, "check")
    <2>1. PICK v \in Asleep : pc' = [pc EXCEPT ![v] = "check"]
      BY <1>2 DEF Goto
    <2>2. pc[v] = "asleep" /\ DOMAIN pc = Workers
      BY DEF Asleep, TypeOK
    <2>3. ASSUME NEW w \in Workers
          PROVE  pc'[w] = pc[w] \/ (pc[w] = "asleep" /\ pc'[w] = "check")
      BY <2>1, <2>2
    <2> QED
      BY <2>1, <2>3
  <1> QED
    BY <1>1, <1>2 DEF NotifyOne

LEMMA PlacesStep == TypeOK /\ TypeOK' /\ PlacesFit /\ [Next]_vars => PlacesFit'
  <1> SUFFICES ASSUME TypeOK, TypeOK', PlacesFit, [Next]_vars PROVE PlacesFit'
    OBVIOUS
  <1> USE DEF PlacesFit, Serving
  <1>1. ASSUME NEW c \in Connections, Connect(c) \/ Send(c) \/ HangUp(c)
        PROVE  PlacesFit'
    BY <1>1 DEF Connect, Send, HangUp, pool
  <1>2. ASSUME NEW c \in Connections, Accept(c) PROVE PlacesFit'
    BY <1>2, ConnectionsAssumption DEF Accept, pool
  <1>3. CASE AcceptFails
    BY <1>3 DEF AcceptFails, pool
  <1>4. CASE Enqueue
    <2>1. \A w \in Workers : pc'[w] = pc[w]
                               \/ (pc[w] = "asleep" /\ pc'[w] = "check")
      BY <1>4, NotifyOneWakes DEF Enqueue
    <2>2. ~shutdown /\ \A w \in Workers : pc[w] # "exited"
      BY <1>4 DEF Enqueue
    <2> QED
      BY <1>4, <2>1, <2>2 DEF Enqueue
  <1>5. CASE Shutdown
    BY <1>5 DEF Shutdown, Asleep
  <1>6. CASE Join
    BY <1>6 DEF Join, pool
  <1>7. ASSUME NEW w \in Workers, Sleep(w) \/ WakeUp(w) \/ Exit(w)
        PROVE  PlacesFit'
    BY <1>7 DEF Sleep, WakeUp, Exit, Goto, TypeOK
  <1>8. ASSUME NEW w \in Workers, TakeJob(w) PROVE PlacesFit'
    <2>1. Head(jobs) # NoConn
      BY <1>8, HeadTailProperties, ConnectionsAssumption DEF TakeJob, TypeOK
    <2>2. MaxKeep > 0
      BY KeepAssumption
    <2>3. \A v \in Workers : pc[v] # "exited"
      BY <1>8 DEF TakeJob
    <2> QED
      BY <1>8, <2>1, <2>2, <2>3 DEF TakeJob, Goto, TypeOK
  <1>9. ASSUME NEW w \in Workers, Readable(w) \/ KeepAliveTimeout(w)
        PROVE  PlacesFit'
    <2>1. /\ pc[w] = "wait"
          /\ UNCHANGED <<listener, accepted, jobs, shutdown, conn, count>>
      BY <1>9 DEF Readable, KeepAliveTimeout
    <2>2. Goto(w, "handle") \/ Goto(w, "close")
      BY <1>9 DEF Readable, KeepAliveTimeout
    <2>3. /\ pc'[w] \in {"handle", "close"}
          /\ \A v \in Workers \ {w} : pc'[v] = pc[v]
      BY <2>2, GotoMoves
    <2>4. listener # "returned"
      BY <2>1
    <2> QED
      BY <2>1, <2>3, <2>4
  <1>10. ASSUME NEW w \in Workers, Handle(w) PROVE PlacesFit'
    <2>1. count[w] \in Nat
      BY DEF TypeOK
    <2>2. /\ pc[w] = "handle"
          /\ UNCHANGED <<listener, accepted, jobs, shutdown, conn>>
      BY <1>10 DEF Handle
    <2>3. \/ pc' = [pc EXCEPT ![w] = "close"]
          \/ /\ pc' = [pc EXCEPT ![w] = "wait"]
             /\ ~asksClose[conn[w]] /\ count[w] > 1
      BY <1>10 DEF Handle, Goto
    <2>4. /\ \A v \in Workers \ {w} : count'[v] = count[v]
          /\ ~asksClose[conn[w]] => count'[w] = count[w] - 1
      <3>1. count' = [count EXCEPT ![w] = IF asksClose[conn[w]]
                                            THEN @ ELSE @ - 1]
        BY <1>10 DEF Handle
      <3>2. count \in [Workers -> 0 .. MaxKeep]
        BY DEF TypeOK
      <3> QED
        BY <3>1, <3>2
    <2>5. DOMAIN pc = Workers
      BY DEF TypeOK
    <2>6. /\ \A v \in Workers \ {w} : pc'[v] = pc[v]
          /\ pc'[w] \in {"close", "wait"}
          /\ pc'[w] = "wait" => ~asksClose[conn[w]] /\ count[w] > 1
      BY <2>3, <2>5
    <2>7. ~shutdown \/ listener # "returned"
      BY <2>2, <1>10
    <2>8. pc'[w] = "wait" => count'[w] > 0
      BY <2>1, <2>4, <2>6
    <2> QED
      BY <2>2, <2>4, <2>6, <2>7, <2>8
  <1>11. ASSUME NEW w \in Workers, Close(w) PROVE PlacesFit'
    BY <1>11 DEF Close, Goto, TypeOK
  <1>12. CASE UNCHANGED vars
    BY <1>12 DEF vars, pool
  <1> QED
    BY <1>1, <1>2, <1>3, <1>4, <1>5, <1>6, <1>7, <1>8, <1>9, <1>10, <1>11,
       <1>12 DEF Next, Clients, Listen, Work

-----------------------------------------------------------------------------
(***************************************************************************)
(* Who owns a connection.                                                  *)
(***************************************************************************)
\* A step that moves no connection keeps every one where it is.
LEMMA NothingMoves ==
  ASSUME ConnectionsOwned, UNCHANGED <<jobs, accepted, conn>>,
         Serving' = Serving,
         \A c \in Connections : stage'[c] = "accepted" <=> stage[c] = "accepted"
  PROVE  ConnectionsOwned'
  BY DEF ConnectionsOwned

LEMMA OwnedStep ==
  TypeOK /\ TypeOK' /\ PlacesFit /\ ConnectionsOwned /\ [Next]_vars
    => ConnectionsOwned'
  <1> SUFFICES ASSUME TypeOK, TypeOK', PlacesFit, ConnectionsOwned, [Next]_vars
               PROVE  ConnectionsOwned'
    OBVIOUS
  <1>1. ASSUME NEW c \in Connections, Connect(c) \/ Send(c) \/ HangUp(c)
        PROVE  ConnectionsOwned'
    <2>1. UNCHANGED <<jobs, accepted, conn, pc>>
      BY <1>1 DEF Connect, Send, HangUp, pool
    <2>2. \A d \in Connections :
            stage'[d] = "accepted" <=> stage[d] = "accepted"
      BY <1>1 DEF Connect, Send, HangUp, TypeOK
    <2>3. Serving' = Serving
      BY <2>1 DEF Serving
    <2> QED
      BY <2>1, <2>2, <2>3, NothingMoves
  <1>2. ASSUME NEW c \in Connections, Accept(c) PROVE ConnectionsOwned'
    <2>1. /\ UNCHANGED <<jobs, conn, pc>> /\ accepted' = c
          /\ stage[c] # "accepted" /\ accepted = NoConn
          /\ stage' = [stage EXCEPT ![c] = "accepted"]
      BY <1>2 DEF Accept, pool, PlacesFit
    <2>2. Serving' = Serving
      BY <2>1 DEF Serving
    <2>3. c \notin ToSet(jobs) \cup {conn[w] : w \in Serving}
      BY <2>1 DEF ConnectionsOwned
    <2>4. ASSUME NEW d \in Connections
          PROVE  stage'[d] = "accepted" <=>
                   d \in ToSet(jobs) \cup {c} \cup {conn[w] : w \in Serving}
      <3>1. CASE d = c
        BY <3>1, <2>1 DEF TypeOK
      <3>2. CASE d # c
        <4>1. stage'[d] = stage[d] /\ d # NoConn
          BY <3>2, <2>1, ConnectionsAssumption DEF TypeOK
        <4> QED
          BY <3>2, <4>1, <2>1 DEF ConnectionsOwned
      <3> QED
        BY <3>1, <3>2
    <2> QED
      BY <2>1, <2>2, <2>3, <2>4 DEF ConnectionsOwned
  <1>3. CASE AcceptFails
    <2>1. UNCHANGED <<jobs, accepted, conn, pc>>
      BY <1>3 DEF AcceptFails, pool
    <2>2. \A d \in Connections :
            stage'[d] = "accepted" <=> stage[d] = "accepted"
      BY <1>3 DEF AcceptFails
    <2>3. Serving' = Serving
      BY <2>1 DEF Serving
    <2> QED
      BY <2>1, <2>2, <2>3, NothingMoves
  <1>4. CASE Enqueue
    <2>1. /\ UNCHANGED <<conn, stage>> /\ NotifyOne
          /\ jobs' = Append(jobs, accepted) /\ accepted' = NoConn
          /\ accepted \in Connections
      BY <1>4 DEF Enqueue, PlacesFit, TypeOK
    <2>2. Serving' = Serving
      BY <2>1, NotifyOneWakes DEF Serving
    <2>3. /\ jobs \in Seq(Connections) /\ IsInjective(jobs)
          /\ accepted \notin ToSet(jobs)
      BY DEF TypeOK, ConnectionsOwned
    <2>4. /\ IsInjective(jobs')
          /\ ToSet(jobs') = ToSet(jobs) \cup {accepted}
      BY <2>1, <2>3, AppendDistinct
    <2>5. NoConn \notin ToSet(jobs')
      BY <2>1, <2>4, <2>3, ConnectionsAssumption, ElementOfSeq DEF ToSet
    <2>6. \A w \in Serving : conn[w] # NoConn
      BY DEF PlacesFit, Serving
    <2>7. ASSUME NEW c \in Connections
          PROVE  stage'[c] = "accepted" <=>
                   c \in ToSet(jobs') \cup {NoConn}
                           \cup {conn[w] : w \in Serving}
      BY <2>1, <2>4, ConnectionsAssumption DEF ConnectionsOwned
    <2> QED
      BY <2>1, <2>2, <2>4, <2>5, <2>6, <2>7 DEF ConnectionsOwned
  <1>5. CASE Shutdown \/ Join
    <2>1. UNCHANGED <<jobs, accepted, conn, stage>>
      BY <1>5 DEF Shutdown, Join, pool
    <2>2. Serving' = Serving
      <3>1. CASE Shutdown
        BY <3>1 DEF Shutdown, Serving, Asleep
      <3>2. CASE Join
        BY <3>2 DEF Join, pool, Serving
      <3> QED
        BY <1>5, <3>1, <3>2
    <2> QED
      BY <2>1, <2>2, NothingMoves
  <1>6. ASSUME NEW w \in Workers,
               \/ Sleep(w) \/ WakeUp(w) \/ Exit(w) \/ Readable(w)
               \/ KeepAliveTimeout(w) \/ Handle(w)
        PROVE  ConnectionsOwned'
    <2>1. UNCHANGED <<jobs, accepted, conn, stage>>
      BY <1>6 DEF Sleep, WakeUp, Exit, Readable, KeepAliveTimeout, Handle
    <2>2. Serving' = Serving
      <3>1. CASE Sleep(w) \/ WakeUp(w) \/ Exit(w)
        BY <3>1 DEF Sleep, WakeUp, Exit, Goto, Serving, TypeOK
      <3>2. CASE Readable(w) \/ KeepAliveTimeout(w) \/ Handle(w)
        <4>1. w \in Serving
          BY <3>2 DEF Readable, KeepAliveTimeout, Handle, Serving
        <4>2. Goto(w, "wait") \/ Goto(w, "handle") \/ Goto(w, "close")
          BY <3>2 DEF Readable, KeepAliveTimeout, Handle
        <4>3. /\ pc'[w] \in {"wait", "handle", "close"}
              /\ \A v \in Workers \ {w} : pc'[v] = pc[v]
          BY <4>2, GotoMoves
        <4> QED
          BY <4>1, <4>3 DEF Serving
      <3> QED
        BY <1>6, <3>1, <3>2
    <2> QED
      BY <2>1, <2>2, NothingMoves
  <1>7. ASSUME NEW w \in Workers, TakeJob(w) PROVE ConnectionsOwned'
    <2> DEFINE h == Head(jobs)
    <2>1. /\ UNCHANGED <<accepted, stage>> /\ jobs' = Tail(jobs)
          /\ conn' = [conn EXCEPT ![w] = h]
          /\ pc' = [pc EXCEPT ![w] = "wait"] /\ w \notin Serving
          /\ jobs # << >>
      BY <1>7 DEF TakeJob, Goto, Serving
    <2>2. jobs \in Seq(Connections) /\ IsInjective(jobs)
      BY DEF TypeOK, ConnectionsOwned
    <2>3. /\ IsInjective(jobs') /\ h \in ToSet(jobs) /\ h \in Connections
          /\ ToSet(jobs') = ToSet(jobs) \ {h}
      BY <2>1, <2>2, TailDistinct
    <2> HIDE DEF h
    <2>4. Serving' = Serving \cup {w}
      <3>1. pc'[w] = "wait" /\ \A v \in Workers \ {w} : pc'[v] = pc[v]
        BY <2>1 DEF TypeOK
      <3> QED
        BY <3>1 DEF Serving
    <2>5. conn'[w] = h /\ \A v \in Workers \ {w} : conn'[v] = conn[v]
      BY <2>1 DEF TypeOK
    <2>6. h # accepted /\ \A v \in Serving : conn[v] # h
      BY <2>3 DEF ConnectionsOwned
    <2>7. Serving \subseteq Workers \ {w}
      BY <2>1 DEF Serving
    <2>8. \A v \in Serving : conn'[v] = conn[v]
      BY <2>5, <2>7
    <2>9. \A u, v \in Serving' : conn'[u] = conn'[v] => u = v
      BY <2>4, <2>5, <2>6, <2>8 DEF ConnectionsOwned
    <2>10. \A v \in Serving' : conn'[v] \notin ToSet(jobs') \cup {accepted'}
      BY <2>1, <2>3, <2>4, <2>5, <2>6, <2>8 DEF ConnectionsOwned
    <2>11. accepted' \notin ToSet(jobs')
      BY <2>1, <2>3 DEF ConnectionsOwned
    <2>12. {conn'[v] : v \in Serving'} = {conn[v] : v \in Serving} \cup {h}
      BY <2>4, <2>5, <2>8
    <2>13. \A c \in Connections : stage'[c] = "accepted" <=>
             c \in ToSet(jobs') \cup {accepted'} \cup {conn'[v] : v \in Serving'}
      BY <2>1, <2>3, <2>12 DEF ConnectionsOwned
    <2> QED
      BY <2>3, <2>9, <2>10, <2>11, <2>13 DEF ConnectionsOwned
  <1>8. ASSUME NEW w \in Workers, Close(w) PROVE ConnectionsOwned'
    <2> DEFINE h == conn[w]
    <2>1. /\ UNCHANGED <<accepted, jobs>> /\ w \in Serving
          /\ conn' = [conn EXCEPT ![w] = NoConn]
          /\ pc' = [pc EXCEPT ![w] = "check"]
          /\ stage' = [stage EXCEPT ![h] = "closed"]
      BY <1>8 DEF Close, Goto, Serving
    <2>2. h \in Connections
      BY <2>1 DEF PlacesFit, TypeOK
    <2>3. /\ h \notin ToSet(jobs) \cup {accepted}
          /\ \A v \in Serving : conn[v] = h => v = w
      BY <2>1 DEF ConnectionsOwned
    <2> HIDE DEF h
    <2>4. Serving' = Serving \ {w}
      BY <2>1 DEF Serving, TypeOK
    <2>5. \A v \in Serving' : v # w /\ v \in Serving /\ conn'[v] = conn[v]
      BY <2>1, <2>4 DEF Serving, TypeOK
    <2>6. {conn'[v] : v \in Serving'} = {conn[v] : v \in Serving} \ {h}
      <3>1. \A v \in Serving : v # w => v \in Serving' /\ conn[v] # h
        BY <2>3, <2>4
      <3>2. conn[w] = h
        BY DEF h
      <3> QED
        BY <2>5, <3>1, <3>2
    <2>7. \A c \in Connections :
            stage'[c] = "accepted" <=> stage[c] = "accepted" /\ c # h
      BY <2>1, <2>2 DEF TypeOK
    <2>8. \A c \in Connections : stage'[c] = "accepted" <=>
            c \in ToSet(jobs') \cup {accepted'} \cup {conn'[v] : v \in Serving'}
      BY <2>1, <2>3, <2>6, <2>7 DEF ConnectionsOwned
    <2> QED
      BY <2>1, <2>5, <2>8 DEF ConnectionsOwned
  <1>9. CASE UNCHANGED vars
    <2>1. UNCHANGED <<jobs, accepted, conn, stage, pc>>
      BY <1>9 DEF vars, pool
    <2>2. Serving' = Serving
      BY <2>1 DEF Serving
    <2> QED
      BY <2>1, <2>2, NothingMoves
  <1> QED
    BY <1>1, <1>2, <1>3, <1>4, <1>5, <1>6, <1>7, <1>8, <1>9
       DEF Next, Clients, Listen, Work

-----------------------------------------------------------------------------
(***************************************************************************)
(* No wake-up is lost: a step takes a job and a checking worker off        *)
(* together, or brings a checking worker with the job.                     *)
(***************************************************************************)
LEMMA CheckingFinite == IsFiniteSet(Checking) /\ Cardinality(Checking) \in Nat
  BY WorkersAssumption, FS_Subset, FS_CardinalityType DEF Checking

\* A step that leaves the queue alone, puts no worker to sleep and calls none
\* that was checking away loses no wake-up.
LEMMA MoreChecking ==
  ASSUME NoLostWakeUp, jobs' = jobs, jobs \in Seq(Connections),
         Asleep' \subseteq Asleep, Checking \subseteq Checking'
  PROVE  NoLostWakeUp'
  <1>1. IsFiniteSet(Checking') /\ Cardinality(Checking') \in Nat
    <2>1. Checking' \subseteq Workers
      BY DEF Checking
    <2> QED
      BY <2>1, WorkersAssumption, FS_Subset, FS_CardinalityType
  <1>2. Cardinality(Checking) <= Cardinality(Checking')
    BY <1>1, FS_Subset
  <1>3. Len(jobs) \in Nat
    BY LenProperties
  <1> QED
    BY <1>1, <1>2, <1>3, CheckingFinite DEF NoLostWakeUp

LEMMA WakeStep ==
  TypeOK /\ TypeOK' /\ PlacesFit /\ NoLostWakeUp /\ [Next]_vars
    => NoLostWakeUp'
  <1> SUFFICES ASSUME TypeOK, TypeOK', PlacesFit, NoLostWakeUp, [Next]_vars
               PROVE  NoLostWakeUp'
    OBVIOUS
  <1>0. jobs \in Seq(Connections) /\ Len(jobs) \in Nat
    BY LenProperties DEF TypeOK
  <1>1. ASSUME NEW c \in Connections,
               Connect(c) \/ Send(c) \/ HangUp(c) \/ Accept(c)
        PROVE  NoLostWakeUp'
    <2>1. UNCHANGED <<jobs, pc>>
      BY <1>1 DEF Connect, Send, HangUp, Accept, pool
    <2> QED
      BY <2>1 DEF NoLostWakeUp, Asleep, Checking
  <1>2. CASE AcceptFails \/ Join
    <2>1. UNCHANGED <<jobs, pc>>
      BY <1>2 DEF AcceptFails, Join, pool
    <2> QED
      BY <2>1 DEF NoLostWakeUp, Asleep, Checking
  <1>3. CASE Enqueue
    <2>1. /\ NotifyOne /\ jobs' = Append(jobs, accepted)
          /\ accepted \in Connections
      BY <1>3 DEF Enqueue, PlacesFit, TypeOK
    <2>2. Len(jobs') = Len(jobs) + 1
      BY <1>0, <2>1, AppendProperties
    <2>3. CASE Asleep = {} /\ pc' = pc
      BY <2>3 DEF NoLostWakeUp, Asleep
    <2>4. ASSUME NEW v \in Asleep, pc' = [pc EXCEPT ![v] = "check"]
          PROVE  NoLostWakeUp'
      <3>1. v \in Workers /\ v \notin Checking /\ DOMAIN pc = Workers
        BY DEF Asleep, Checking, TypeOK
      <3>2. Checking' = Checking \cup {v}
        BY <2>4, <3>1 DEF Checking
      <3>3. Cardinality(Checking') = Cardinality(Checking) + 1
        BY <3>1, <3>2, CheckingFinite, FS_AddElement
      <3>4. Len(jobs) <= Cardinality(Checking)
        BY DEF NoLostWakeUp
      <3> QED
        BY <1>0, <2>2, <3>3, <3>4, CheckingFinite DEF NoLostWakeUp
    <2> QED
      BY <2>1, <2>3, <2>4, NotifyOneWakes
  <1>4. CASE Shutdown
    <2>1. Asleep' = {}
      BY <1>4 DEF Shutdown, Asleep
    <2> QED
      BY <2>1 DEF NoLostWakeUp
  <1>5. ASSUME NEW w \in Workers, Sleep(w) \/ Exit(w) PROVE NoLostWakeUp'
    <2>1. jobs' = << >>
      BY <1>5 DEF Sleep, Exit
    <2>2. Cardinality(Checking') \in Nat
      <3>1. Checking' \subseteq Workers
        BY DEF Checking
      <3> QED
        BY <3>1, WorkersAssumption, FS_Subset, FS_CardinalityType
    <2>3. Len(jobs') = 0
      BY <2>1
    <2> QED
      BY <2>2, <2>3 DEF NoLostWakeUp
  <1>6. ASSUME NEW w \in Workers, WakeUp(w) PROVE NoLostWakeUp'
    <2>1. jobs' = jobs /\ pc[w] = "asleep" /\ pc' = [pc EXCEPT ![w] = "check"]
      BY <1>6 DEF WakeUp, Goto
    <2>2. Asleep' \subseteq Asleep /\ Checking \subseteq Checking'
      BY <2>1 DEF Asleep, Checking, TypeOK
    <2> QED
      BY <1>0, <2>1, <2>2, MoreChecking
  <1>7. ASSUME NEW w \in Workers, TakeJob(w) PROVE NoLostWakeUp'
    <2>1. /\ jobs # << >> /\ jobs' = Tail(jobs)
          /\ pc[w] = "check" /\ pc' = [pc EXCEPT ![w] = "wait"]
      BY <1>7 DEF TakeJob, Goto
    <2>2. Len(jobs') = Len(jobs) - 1
      BY <1>0, <2>1, HeadTailProperties
    <2>3. w \in Checking /\ Checking' = Checking \ {w} /\ Asleep' = Asleep
      BY <2>1 DEF Asleep, Checking, TypeOK
    <2>4. Cardinality(Checking') = Cardinality(Checking) - 1
      BY <2>3, CheckingFinite, FS_RemoveElement
    <2> QED
      BY <1>0, <2>2, <2>3, <2>4, CheckingFinite DEF NoLostWakeUp
  <1>8. ASSUME NEW w \in Workers,
               \/ Readable(w) \/ KeepAliveTimeout(w) \/ Handle(w) \/ Close(w)
        PROVE  NoLostWakeUp'
    <2>1. jobs' = jobs
      BY <1>8 DEF Readable, KeepAliveTimeout, Handle, Close
    <2>2. /\ pc[w] \notin {"asleep", "check"}
          /\ \E place \in {"wait", "handle", "close", "check"} :
               pc' = [pc EXCEPT ![w] = place]
      BY <1>8 DEF Readable, KeepAliveTimeout, Handle, Close, Goto
    <2>3. Asleep' \subseteq Asleep /\ Checking \subseteq Checking'
      BY <2>2 DEF Asleep, Checking, TypeOK
    <2> QED
      BY <1>0, <2>1, <2>3, MoreChecking
  <1>9. CASE UNCHANGED vars
    BY <1>9 DEF vars, pool, NoLostWakeUp, Asleep, Checking
  <1> QED
    BY <1>1, <1>2, <1>3, <1>4, <1>5, <1>6, <1>7, <1>8, <1>9
       DEF Next, Clients, Listen, Work

-----------------------------------------------------------------------------
(***************************************************************************)
(* What has been answered when a connection is closed.                     *)
(***************************************************************************)
LEMMA AnsweredStep ==
  TypeOK /\ TypeOK' /\ PlacesFit /\ ConnectionsOwned /\ Answered /\ [Next]_vars
    => Answered'
  <1> SUFFICES ASSUME TypeOK, TypeOK', PlacesFit, ConnectionsOwned, Answered,
                      [Next]_vars
               PROVE  Answered'
    OBVIOUS
  <1>0. \A w \in Workers : w \in Serving => conn[w] \in Connections
    BY DEF PlacesFit, TypeOK
  <1>13. \A w \in Workers : pc[w] \in {"wait", "handle", "close"} =>
           conn[w] \in Connections
    BY <1>0 DEF Serving
  <1>1. ASSUME NEW c \in Connections, Connect(c) \/ Accept(c) PROVE Answered'
    BY <1>1 DEF Connect, Accept, pool, client, Answered
  <1>2. ASSUME NEW c \in Connections, Send(c) PROVE Answered'
    <2>1. /\ UNCHANGED <<pc, conn, served, toldClose, hungUp, timedOut>>
          /\ ~hungUp[c] /\ ~toldClose[c] /\ ~asksClose[c]
          /\ sent[c] = served[c]
          /\ sent' = [sent EXCEPT ![c] = @ + 1]
          /\ \A d \in Connections \ {c} : asksClose'[d] = asksClose[d]
      BY <1>2 DEF Send, pool, TypeOK
    <2>2. sent'[c] = served[c] + 1
          /\ \A d \in Connections \ {c} : sent'[d] = sent[d]
      BY <2>1 DEF TypeOK
    <2>3. ASSUME NEW w \in Workers, pc[w] = "handle"
          PROVE  sent'[conn[w]] = served[conn[w]] + 1
      <3>1. conn[w] \in Connections /\ sent[conn[w]] = served[conn[w]] + 1
        BY <1>13, <2>3 DEF Answered
      <3>2. conn[w] # c
        BY <2>1, <3>1 DEF TypeOK
      <3> QED
        BY <2>2, <3>1, <3>2
    <2>4. ASSUME NEW w \in Workers, pc[w] = "close", ~timedOut[conn[w]]
          PROVE  /\ sent'[conn[w]] = served[conn[w]]
                 /\ \/ hungUp[conn[w]] \/ toldClose[conn[w]]
                    \/ asksClose'[conn[w]]
      <3>1. conn[w] \in Connections
        BY <1>13, <2>4
      <3>2. /\ sent[conn[w]] = served[conn[w]]
            /\ hungUp[conn[w]] \/ toldClose[conn[w]] \/ asksClose[conn[w]]
        BY <2>4 DEF Answered
      <3>3. conn[w] # c
        BY <2>1, <3>2
      <3> QED
        BY <2>1, <2>2, <3>1, <3>2, <3>3
    <2>5. \A d \in Connections : sent'[d] \in {served[d], served[d] + 1}
      BY <2>2 DEF Answered
    <2> QED
      BY <2>1, <2>3, <2>4, <2>5 DEF Answered
  <1>3. ASSUME NEW c \in Connections, HangUp(c) PROVE Answered'
    <2>1. /\ UNCHANGED <<pc, conn, sent, served, asksClose, toldClose,
                         timedOut>>
          /\ \A d \in Connections : hungUp[d] => hungUp'[d]
      BY <1>3 DEF HangUp, pool, TypeOK
    <2> QED
      BY <1>13, <2>1 DEF Answered
  <1>4. CASE AcceptFails \/ Join
    BY <1>4 DEF AcceptFails, Join, pool, client, Answered
  <1>5. CASE Enqueue \/ Shutdown
    <2>1. UNCHANGED <<conn, sent, served, asksClose, toldClose, hungUp,
                      timedOut>>
      BY <1>5 DEF Enqueue, Shutdown, client
    <2>2. \A w \in Workers : pc'[w] = pc[w] \/ pc'[w] = "check"
      <3>1. CASE Enqueue
        BY <3>1, NotifyOneWakes DEF Enqueue
      <3>2. CASE Shutdown
        BY <3>2 DEF Shutdown, Asleep
      <3> QED
        BY <1>5, <3>1, <3>2
    <2> QED
      BY <2>1, <2>2 DEF Answered
  <1>6. ASSUME NEW w \in Workers, Sleep(w) \/ WakeUp(w) \/ Exit(w)
        PROVE  Answered'
    <2>1. UNCHANGED <<conn, sent, served, asksClose, toldClose, hungUp,
                      timedOut>>
      BY <1>6 DEF Sleep, WakeUp, Exit, client
    <2>2. \A v \in Workers : \/ pc'[v] = pc[v]
                             \/ pc'[v] \in {"asleep", "check", "exited"}
      BY <1>6 DEF Sleep, WakeUp, Exit, Goto, TypeOK
    <2> QED
      BY <2>1, <2>2 DEF Answered
  <1>7. ASSUME NEW w \in Workers, TakeJob(w) \/ Close(w) PROVE Answered'
    <2>1. UNCHANGED <<sent, served, asksClose, toldClose, hungUp, timedOut>>
      BY <1>7 DEF TakeJob, Close, client
    <2>2. /\ pc'[w] \in {"wait", "check"}
          /\ \A v \in Workers \ {w} : pc'[v] = pc[v] /\ conn'[v] = conn[v]
      BY <1>7 DEF TakeJob, Close, Goto, TypeOK
    <2> QED
      BY <2>1, <2>2 DEF Answered
  <1>8. ASSUME NEW w \in Workers, Readable(w) PROVE Answered'
    <2>1. UNCHANGED <<conn, sent, served, asksClose, toldClose, hungUp,
                      timedOut>>
      BY <1>8 DEF Readable, client
    <2>2. /\ pc[w] = "wait" /\ \A v \in Workers \ {w} : pc'[v] = pc[v]
          /\ \/ /\ sent[conn[w]] > served[conn[w]]
                /\ pc'[w] = "handle"
             \/ /\ sent[conn[w]] = served[conn[w]] /\ hungUp[conn[w]]
                /\ pc'[w] = "close"
      BY <1>8 DEF Readable, Goto, TypeOK
    <2>3. /\ served[conn[w]] \in Nat
          /\ sent[conn[w]] \in {served[conn[w]], served[conn[w]] + 1}
      BY <1>13, <2>2 DEF Answered, TypeOK
    <2>4. pc'[w] = "handle" => sent[conn[w]] = served[conn[w]] + 1
      BY <2>2, <2>3
    <2> QED
      BY <2>1, <2>2, <2>4 DEF Answered
  <1>9. ASSUME NEW w \in Workers, KeepAliveTimeout(w) PROVE Answered'
    <2>1. /\ UNCHANGED <<conn, sent, served, asksClose, toldClose, hungUp>>
          /\ pc[w] = "wait" /\ pc' = [pc EXCEPT ![w] = "close"]
          /\ timedOut' = [timedOut EXCEPT ![conn[w]] = TRUE]
      BY <1>9 DEF KeepAliveTimeout, Goto, client
    <2>2. \A c \in Connections : timedOut[c] => timedOut'[c]
      BY <2>1 DEF TypeOK
    <2>3. timedOut'[conn[w]]
      BY <1>13, <2>1 DEF TypeOK
    <2>4. pc'[w] = "close" /\ \A v \in Workers \ {w} : pc'[v] = pc[v]
      BY <2>1 DEF TypeOK
    <2> QED
      BY <1>13, <2>1, <2>2, <2>3, <2>4 DEF Answered
  <1>10. ASSUME NEW w \in Workers, Handle(w) PROVE Answered'
    <2> DEFINE d == conn[w]
    <2>1. /\ UNCHANGED <<conn, sent, asksClose, hungUp, timedOut>>
          /\ pc[w] = "handle"
          /\ served' = [served EXCEPT ![d] = @ + 1]
          /\ toldClose' = [toldClose EXCEPT ![d] = SaysClose(w)]
          /\ \/ pc' = [pc EXCEPT ![w] = "wait"]
             \/ /\ pc' = [pc EXCEPT ![w] = "close"]
                /\ asksClose[d] \/ count[w] = 1 \/ hungUp[d]
      BY <1>10 DEF Handle, Goto
    <2>2. d \in Connections /\ w \in Serving /\ sent[d] = served[d] + 1
      BY <1>13, <2>1 DEF Answered, Serving
    <2>3. ASSUME NEW v \in Workers, v # w, pc[v] \in {"handle", "close"}
          PROVE  conn[v] \in Connections /\ conn[v] # d
      BY <1>13, <2>2, <2>3 DEF ConnectionsOwned, Serving
    <2> HIDE DEF d
    <2>4. /\ served'[d] = served[d] + 1
          /\ \A c \in Connections \ {d} : served'[c] = served[c]
      BY <2>1, <2>2 DEF TypeOK
    <2>5. \A c \in Connections \ {d} : toldClose'[c] = toldClose[c]
      BY <2>1, <2>2 DEF TypeOK
    <2>6. toldClose'[d] = SaysClose(w)
      BY <2>1, <2>2 DEF TypeOK
    <2>7. /\ pc'[w] \in {"wait", "close"}
          /\ pc'[w] = "close" => asksClose[d] \/ count[w] = 1 \/ hungUp[d]
          /\ \A v \in Workers \ {w} : pc'[v] = pc[v]
      BY <2>1 DEF TypeOK
    <2>8. pc'[w] = "close" => hungUp[d] \/ toldClose'[d] \/ asksClose[d]
      BY <2>6, <2>7 DEF SaysClose, LastOne
    <2>9. \A c \in Connections : sent'[c] \in {served'[c], served'[c] + 1}
      BY <2>1, <2>2, <2>4 DEF Answered
    <2>10. conn'[w] = d
      BY <2>1 DEF d
    <2>11. ASSUME NEW v \in Workers
           PROVE  /\ pc'[v] = "handle" =>
                       sent'[conn'[v]] = served'[conn'[v]] + 1
                  /\ pc'[v] = "close" =>
                       \/ timedOut'[conn'[v]]
                       \/ /\ sent'[conn'[v]] = served'[conn'[v]]
                          /\ \/ hungUp'[conn'[v]] \/ toldClose'[conn'[v]]
                             \/ asksClose'[conn'[v]]
      <3>1. CASE v = w
        BY <3>1, <2>1, <2>2, <2>4, <2>7, <2>8, <2>10
      <3>2. CASE v # w
        <4>1. pc'[v] = pc[v] /\ conn'[v] = conn[v]
          BY <3>2, <2>1, <2>7
        <4>2. pc[v] \in {"handle", "close"} =>
                /\ served'[conn[v]] = served[conn[v]]
                /\ toldClose'[conn[v]] = toldClose[conn[v]]
          BY <3>2, <2>3, <2>4, <2>5
        <4> QED
          BY <4>1, <4>2, <2>1 DEF Answered
      <3> QED
        BY <3>1, <3>2
    <2> QED
      BY <2>9, <2>11 DEF Answered
  <1>11. CASE UNCHANGED vars
    BY <1>11 DEF vars, pool, client, Answered
  <1> QED
    BY <1>1, <1>2, <1>3, <1>4, <1>5, <1>6, <1>7, <1>8, <1>9, <1>10, <1>11
       DEF Next, Clients, Listen, Work

-----------------------------------------------------------------------------
(***************************************************************************)
(* The theorems.                                                           *)
(***************************************************************************)
\* The invariant above holds of every state listen() and the workers reach.
THEOREM ServerInvariant == Spec => []IInv
  <1>1. Init => IInv
    BY InitInv
  <1>2. IInv /\ [Next]_vars => IInv'
    <2> SUFFICES ASSUME IInv, [Next]_vars PROVE IInv'
      OBVIOUS
    <2>1. /\ TypeOK /\ PlacesFit /\ ConnectionsOwned /\ NoLostWakeUp
          /\ Answered
      BY DEF IInv
    <2>2. TypeOK'
      BY <2>1, TypeStep
    <2>3. PlacesFit'
      BY <2>1, <2>2, PlacesStep
    <2>4. ConnectionsOwned'
      BY <2>1, <2>2, OwnedStep
    <2>5. NoLostWakeUp'
      BY <2>1, <2>2, WakeStep
    <2>6. Answered'
      BY <2>1, <2>2, AnsweredStep
    <2> QED
      BY <2>2, <2>3, <2>4, <2>5, <2>6 DEF IInv
  <1> QED
    BY <1>1, <1>2, PTL DEF Spec

\* Every variable of the server has its type (svr_sock_, jobs_, the keep-alive
\* count and the rest).
THEOREM TypeCorrect == Spec => []TypeOK
  <1>1. IInv => TypeOK
    BY DEF IInv
  <1> QED
    BY <1>1, ServerInvariant, PTL

\* However many connections and workers there are, the queue and the pool give
\* each accepted connection one place (listen_internal, ThreadPool).
THEOREM OwnedCorrect == Spec => []ConnectionsOwned
  <1>1. IInv => ConnectionsOwned
    BY DEF IInv
  <1> QED
    BY <1>1, ServerInvariant, PTL

\* notify_one after each push is enough for any pool: never does a worker sleep
\* while more jobs are queued than workers are on their way to them.
THEOREM WakeUpCorrect == Spec => []NoLostWakeUp
  <1>1. IInv => NoLostWakeUp
    BY DEF IInv
  <1> QED
    BY <1>1, ServerInvariant, PTL

\* The pool is drained before listen() returns (ThreadPool::shutdown).
THEOREM DrainsCorrect == Spec => []ShutdownDrains
  <1>1. IInv => ShutdownDrains
    <2> SUFFICES ASSUME IInv PROVE ShutdownDrains
      OBVIOUS
    <2>1. \A w \in Workers : pc[w] = "exited" => shutdown /\ jobs = << >>
      BY DEF IInv, PlacesFit
    <2>2. ASSUME listener = "returned", NEW c \in Connections
          PROVE  stage[c] # "accepted"
      <3>1. \A w \in Workers : pc[w] = "exited"
        BY <2>2 DEF IInv, PlacesFit
      <3>2. Serving = {}
        BY <3>1 DEF Serving
      <3>3. jobs = << >>
        BY <2>1, <3>1, WorkersAssumption
      <3>4. ToSet(jobs) = {}
        BY <3>3 DEF ToSet
      <3>5. accepted = NoConn
        BY <2>2 DEF IInv, PlacesFit
      <3> QED
        BY <3>2, <3>4, <3>5, ConnectionsAssumption
           DEF IInv, ConnectionsOwned
    <2> QED
      BY <2>1, <2>2 DEF ShutdownDrains
  <1> QED
    BY <1>1, ServerInvariant, PTL

\* Whatever keep_alive_max_count_ is, no request sent in time on a connection
\* promised to stay open goes unanswered (process_server_socket_core).
THEOREM LastResponseCorrect == Spec => []LastResponseTells
  <1>1. IInv => LastResponseTells
    BY DEF IInv, Answered, LastResponseTells
  <1> QED
    BY <1>1, ServerInvariant, PTL

-----------------------------------------------------------------------------
(***************************************************************************)
(* The server implements ConnectionService.                                *)
(***************************************************************************)
\* The keep-alive count and the responses given add up, and a connection that
\* no worker has seen got none.
CountFits ==
  /\ \A w \in Workers : pc[w] \in {"wait", "handle"} =>
       count[w] + served[conn[w]] = MaxKeep
  /\ \A c \in Connections :
       stage[c] \in {"new", "backlog"} \/ c \in ToSet(jobs) \cup {accepted} =>
         served[c] = 0

LEMMA CountInit == Init => CountFits
  BY ConnectionsAssumption DEF Init, CountFits, ToSet

LEMMA CountStep ==
  ASSUME IInv, IInv', CountFits, [Next]_vars
  PROVE  CountFits'
  <1>t. /\ TypeOK /\ TypeOK' /\ PlacesFit /\ ConnectionsOwned
    BY DEF IInv
  <1>0. \A w \in Workers : w \in Serving => conn[w] \in Connections
    BY <1>t DEF PlacesFit, TypeOK
  <1> DEFINE Kept ==
        /\ served' = served
        /\ \A w \in Workers : pc'[w] \in {"wait", "handle"} =>
             /\ pc[w] \in {"wait", "handle"}
             /\ UNCHANGED <<conn[w], count[w]>>
        /\ \A c \in Connections :
             stage'[c] \in {"new", "backlog"}
               \/ c \in ToSet(jobs') \cup {accepted'} =>
             stage[c] \in {"new", "backlog"} \/ c \in ToSet(jobs) \cup {accepted}
  <1>k. Kept => CountFits'
    BY DEF CountFits
  <1>1. ASSUME NEW c \in Connections, Connect(c) \/ Send(c) \/ HangUp(c)
        PROVE  Kept
    <2>1. /\ UNCHANGED <<served, pc, conn, count, jobs, accepted>>
          /\ \A d \in Connections : stage'[d] = stage[d] \/ stage[d] = "new"
      BY <1>1, <1>t DEF Connect, Send, HangUp, pool, client, TypeOK
    <2> QED
      BY <2>1
  <1>2. ASSUME NEW c \in Connections, Accept(c) PROVE Kept
    <2>1. /\ UNCHANGED <<served, pc, conn, count, jobs>> /\ accepted' = c
          /\ stage[c] = "backlog" /\ stage' = [stage EXCEPT ![c] = "accepted"]
      BY <1>2 DEF Accept, pool, client
    <2>2. \A d \in Connections \ {c} : stage'[d] = stage[d]
      BY <2>1, <1>t DEF TypeOK
    <2> QED
      BY <2>1, <2>2
  <1>3. ASSUME AcceptFails PROVE Kept
    <2>1. /\ UNCHANGED <<served, pc, conn, count, jobs, accepted>>
          /\ \A d \in Connections : stage'[d] = stage[d] \/ stage'[d] = "closed"
      BY <1>3, <1>t DEF AcceptFails, pool, client, TypeOK
    <2>2. \A d \in Connections :
            stage'[d] \in {"new", "backlog"} => stage'[d] = stage[d]
      BY <2>1
    <2> QED
      BY <2>1, <2>2
  <1>4. ASSUME Enqueue PROVE Kept
    <2>1. /\ UNCHANGED <<served, conn, count, stage>>
          /\ jobs' = Append(jobs, accepted) /\ accepted' = NoConn
          /\ accepted \in Connections
      BY <1>4, <1>t DEF Enqueue, client, PlacesFit, TypeOK
    <2>2. ToSet(jobs') = ToSet(jobs) \cup {accepted}
      BY <1>t, <2>1, AppendDistinct DEF ConnectionsOwned, TypeOK
    <2>3. \A w \in Workers : pc'[w] = pc[w] \/ pc'[w] = "check"
      BY <1>4, <1>t, NotifyOneWakes DEF Enqueue
    <2>4. \A w \in Workers :
            pc'[w] \in {"wait", "handle"} => pc[w] \in {"wait", "handle"}
      BY <2>3
    <2>5. \A c \in Connections :
            c \in ToSet(jobs') \cup {accepted'} => c \in ToSet(jobs) \cup {accepted}
      BY <2>1, <2>2, ConnectionsAssumption
    <2> QED
      BY <2>1, <2>4, <2>5
  <1>5. ASSUME Shutdown \/ Join PROVE Kept
    <2>1. UNCHANGED <<served, conn, count, stage, jobs, accepted>>
      BY <1>5 DEF Shutdown, Join, pool, client
    <2>2. \A w \in Workers : pc'[w] = pc[w] \/ pc'[w] = "check"
      BY <1>5 DEF Shutdown, Join, pool
    <2>3. \A w \in Workers :
            pc'[w] \in {"wait", "handle"} => pc[w] \in {"wait", "handle"}
      BY <2>2
    <2> QED
      BY <2>1, <2>3
  <1>6. ASSUME NEW w \in Workers,
               \/ Sleep(w) \/ WakeUp(w) \/ Exit(w) \/ Readable(w)
               \/ KeepAliveTimeout(w)
        PROVE  Kept
    <2>1. UNCHANGED <<served, conn, count, stage, jobs, accepted>>
      BY <1>6 DEF Sleep, WakeUp, Exit, Readable, KeepAliveTimeout, client
    <2>2. \/ pc[w] = "wait"
          \/ \E place \in {"asleep", "check", "exited"} : Goto(w, place)
      BY <1>6 DEF Sleep, WakeUp, Exit, Readable, KeepAliveTimeout
    <2>3. \E place \in {"asleep", "check", "exited", "handle", "close"} :
            Goto(w, place)
      BY <1>6 DEF Sleep, WakeUp, Exit, Readable, KeepAliveTimeout
    <2>4. \A v \in Workers \ {w} : pc'[v] = pc[v]
      BY <1>t, <2>3, GotoMoves
    <2>5. pc'[w] \in {"wait", "handle"} => pc[w] = "wait"
      BY <1>t, <2>2, GotoMoves
    <2> QED
      BY <2>1, <2>4, <2>5
  <1>7. ASSUME NEW w \in Workers, TakeJob(w) PROVE CountFits'
    <2> DEFINE h == Head(jobs)
    <2>1. /\ UNCHANGED <<served, stage, accepted>> /\ jobs' = Tail(jobs)
          /\ jobs # << >>
          /\ conn' = [conn EXCEPT ![w] = h]
          /\ count' = [count EXCEPT ![w] = MaxKeep]
          /\ Goto(w, "wait")
      BY <1>7 DEF TakeJob, client
    <2>2. h \in Connections /\ h \in ToSet(jobs) /\ ToSet(jobs') \subseteq ToSet(jobs)
      BY <1>t, <2>1, TailDistinct DEF TypeOK, ConnectionsOwned
    <2>3. served[h] = 0
      BY <2>2 DEF CountFits
    <2>4. /\ \A v \in Workers \ {w} : UNCHANGED <<pc[v], conn[v], count[v]>>
          /\ conn'[w] = h /\ count'[w] = MaxKeep
      <3> HIDE DEF h
      <3>1. \A v \in Workers \ {w} : pc'[v] = pc[v]
        BY <1>t, <2>1, GotoMoves
      <3> QED
        BY <1>t, <2>1, <3>1 DEF TypeOK
    <2> HIDE DEF h
    <2>5. count'[w] + served'[conn'[w]] = MaxKeep
      BY <2>1, <2>3, <2>4, KeepAssumption
    <2>6. ASSUME NEW v \in Workers, pc'[v] \in {"wait", "handle"}
          PROVE  count'[v] + served'[conn'[v]] = MaxKeep
      <3>1. CASE v = w
        BY <3>1, <2>5
      <3>2. CASE v # w
        BY <3>2, <2>1, <2>4, <2>6 DEF CountFits
      <3> QED
        BY <3>1, <3>2
    <2>7. \A c \in Connections :
            stage'[c] \in {"new", "backlog"}
              \/ c \in ToSet(jobs') \cup {accepted'} => served'[c] = 0
      BY <2>1, <2>2 DEF CountFits
    <2> QED
      BY <2>6, <2>7 DEF CountFits
  <1>8. ASSUME NEW w \in Workers, Handle(w) PROVE CountFits'
    <2> DEFINE d == conn[w]
    <2>1. /\ UNCHANGED <<stage, accepted, jobs, conn>>
          /\ served' = [served EXCEPT ![d] = @ + 1]
          /\ count' = [count EXCEPT ![w] = IF asksClose[d] THEN @ ELSE @ - 1]
          /\ pc[w] = "handle"
          /\ \/ ~asksClose[d] /\ Goto(w, "wait")
             \/ Goto(w, "close")
      BY <1>8 DEF Handle
    <2>2. w \in Serving /\ d \in Connections
      BY <1>0, <2>1 DEF Serving
    <2>3. /\ d \notin ToSet(jobs) \cup {accepted} /\ stage[d] = "accepted"
          /\ \A v \in Serving : conn[v] = d => v = w
      BY <1>t, <2>2 DEF ConnectionsOwned
    <2>4. count[w] + served[d] = MaxKeep /\ count[w] \in Int /\ served[d] \in Int
      BY <1>t, <2>1, <2>2 DEF CountFits, TypeOK
    <2> HIDE DEF d
    <2>5. /\ \A c \in Connections \ {d} : served'[c] = served[c]
          /\ served'[d] = served[d] + 1
      BY <1>t, <2>1, <2>2 DEF TypeOK
    <2>6. /\ \A v \in Workers \ {w} : pc'[v] = pc[v] /\ count'[v] = count[v]
          /\ pc'[w] = "wait" => ~asksClose[d]
          /\ pc'[w] \in {"wait", "close"}
      <3>1. \A v \in Workers \ {w} : pc'[v] = pc[v]
        BY <1>t, <2>1, GotoMoves
      <3>2. pc'[w] \in {"wait", "close"} /\ (pc'[w] = "wait" => ~asksClose[d])
        BY <1>t, <2>1, GotoMoves
      <3>3. \A v \in Workers \ {w} : count'[v] = count[v]
        BY <1>t, <2>1 DEF TypeOK
      <3> QED
        BY <3>1, <3>2, <3>3
    <2>7. ~asksClose[d] => count'[w] = count[w] - 1
      BY <1>t, <2>1 DEF TypeOK
    <2>8. conn'[w] = d
      BY <2>1 DEF d
    <2>9. ASSUME NEW v \in Workers, pc'[v] \in {"wait", "handle"}
          PROVE  count'[v] + served'[conn'[v]] = MaxKeep
      <3>1. CASE v = w
        BY <3>1, <2>4, <2>5, <2>6, <2>7, <2>8, <2>9
      <3>2. CASE v # w
        <4>1. v \in Serving /\ pc[v] \in {"wait", "handle"}
          BY <3>2, <2>6, <2>9 DEF Serving
        <4>2. conn[v] \in Connections \ {d}
          BY <1>0, <2>3, <3>2, <4>1
        <4> QED
          BY <2>1, <2>5, <2>6, <3>2, <4>1, <4>2 DEF CountFits
      <3> QED
        BY <3>1, <3>2
    <2>10. \A c \in Connections :
            stage'[c] \in {"new", "backlog"}
              \/ c \in ToSet(jobs') \cup {accepted'} => served'[c] = 0
      BY <2>1, <2>3, <2>5 DEF CountFits
    <2> QED
      BY <2>9, <2>10 DEF CountFits
  <1>9. ASSUME NEW w \in Workers, Close(w) PROVE Kept
    <2>1. /\ UNCHANGED <<served, jobs, accepted>> /\ Goto(w, "check")
          /\ stage' = [stage EXCEPT ![conn[w]] = "closed"]
          /\ conn' = [conn EXCEPT ![w] = NoConn]
          /\ count' = [count EXCEPT ![w] = 0]
      BY <1>9 DEF Close, client
    <2>2. /\ \A v \in Workers \ {w} : UNCHANGED <<pc[v], conn[v], count[v]>>
          /\ pc'[w] = "check"
      <3>1. pc'[w] = "check" /\ \A v \in Workers \ {w} : pc'[v] = pc[v]
        BY <1>t, <2>1, GotoMoves
      <3> QED
        BY <1>t, <2>1, <3>1 DEF TypeOK
    <2>3. \A c \in Connections : stage'[c] = stage[c] \/ stage'[c] = "closed"
      BY <1>t, <2>1 DEF TypeOK
    <2> QED
      BY <2>1, <2>2, <2>3
  <1>10. UNCHANGED vars => Kept
    BY DEF vars, pool, client
  <1> QED
    BY <1>k, <1>1, <1>2, <1>3, <1>4, <1>5, <1>6, <1>7, <1>8, <1>9, <1>10
    DEF Next, Clients, Listen, Work

\* What the service shows of the server.
ShownPhase  == [c \in Connections |-> PhaseOf(c)]
ShownLine   == IF accepted = NoConn THEN jobs ELSE Append(jobs, accepted)
ShownServer ==
  CASE listener \in {"accept", "enqueue"} -> "listening"
    [] listener \in {"shutdown", "join"}  -> "stopping"
    [] OTHER -> "returned"

\* An accepted connection is in the line or with one worker, and its phase says
\* which.
PhasesRight ==
  \A c \in Connections :
    /\ stage[c] # "accepted" => PhaseOf(c) = stage[c]
    /\ c \in ToSet(jobs) \cup {accepted} => PhaseOf(c) = "line"
    /\ \A w \in Serving : conn[w] = c =>
         PhaseOf(c) = IF pc[w] = "close" THEN "closing" ELSE "serving"
    /\ \/ stage[c] # "accepted" \/ c \in ToSet(jobs) \cup {accepted}
       \/ \E w \in Serving : conn[w] = c

LEMMA PhasesFollow == IInv => PhasesRight
  <1> SUFFICES ASSUME IInv, NEW c \in Connections
               PROVE  /\ stage[c] # "accepted" => PhaseOf(c) = stage[c]
                      /\ c \in ToSet(jobs) \cup {accepted} => PhaseOf(c) = "line"
                      /\ \A w \in Serving : conn[w] = c =>
                           PhaseOf(c) = IF pc[w] = "close"
                                          THEN "closing" ELSE "serving"
                      /\ \/ stage[c] # "accepted"
                         \/ c \in ToSet(jobs) \cup {accepted}
                         \/ \E w \in Serving : conn[w] = c
    BY DEF PhasesRight
  <1>t. ConnectionsOwned
    BY DEF IInv
  <1>1. stage[c] = "accepted" <=>
          c \in ToSet(jobs) \cup {accepted} \cup {conn[w] : w \in Serving}
    BY <1>t DEF ConnectionsOwned
  <1>2. stage[c] # "accepted" => PhaseOf(c) = stage[c]
    BY DEF PhaseOf
  <1>3. c \in ToSet(jobs) \cup {accepted} => PhaseOf(c) = "line"
    BY <1>1 DEF PhaseOf
  <1>4. ASSUME NEW w \in Serving, conn[w] = c
        PROVE  PhaseOf(c) = IF pc[w] = "close" THEN "closing" ELSE "serving"
    <2>1. stage[c] = "accepted" /\ c \notin ToSet(jobs) \cup {accepted}
      BY <1>1, <1>4, <1>t DEF ConnectionsOwned
    <2>2. ASSUME NEW v \in Workers, pc[v] = "close", conn[v] = c
          PROVE  v = w
      BY <1>4, <1>t, <2>2 DEF ConnectionsOwned, Serving
    <2>3. (\E v \in Workers : pc[v] = "close" /\ conn[v] = c) <=> pc[w] = "close"
      BY <1>4, <2>2 DEF Serving
    <2>4. CASE pc[w] = "close"
      <3>1. \E v \in Workers : pc[v] = "close" /\ conn[v] = c
        BY <2>3, <2>4
      <3> QED
        BY <2>1, <2>4, <3>1 DEF PhaseOf
    <2>5. CASE pc[w] # "close"
      <3>1. ~\E v \in Workers : pc[v] = "close" /\ conn[v] = c
        BY <2>3, <2>5
      <3> QED
        BY <2>1, <2>5, <3>1 DEF PhaseOf
    <2> QED
      BY <2>4, <2>5
  <1>5. \/ stage[c] # "accepted" \/ c \in ToSet(jobs) \cup {accepted}
        \/ \E w \in Serving : conn[w] = c
    BY <1>1
  <1> QED
    BY <1>2, <1>3, <1>4, <1>5

LEMMA PhasesFollowNext == IInv' => PhasesRight'
  BY PhasesFollow, PTL

\* A connection that no step touches shows no change.
LEMMA PhaseKept ==
  ASSUME PhasesRight, PhasesRight', NEW c \in Connections,
         UNCHANGED stage[c],
         c \in ToSet(jobs) \cup {accepted} => c \in ToSet(jobs') \cup {accepted'},
         \A w \in Serving : conn[w] = c =>
           w \in Serving' /\ conn'[w] = c /\ (pc'[w] = "close" <=> pc[w] = "close")
  PROVE  PhaseOf(c)' = PhaseOf(c)
  <1>1. CASE stage[c] # "accepted"
    BY <1>1 DEF PhasesRight
  <1>2. CASE c \in ToSet(jobs) \cup {accepted}
    BY <1>2 DEF PhasesRight
  <1>3. ASSUME NEW w \in Serving, conn[w] = c PROVE PhaseOf(c)' = PhaseOf(c)
    <2>1. PhaseOf(c) = IF pc[w] = "close" THEN "closing" ELSE "serving"
      BY <1>3 DEF PhasesRight
    <2>2. /\ w \in Serving' /\ conn'[w] = c
          /\ pc'[w] = "close" <=> pc[w] = "close"
      BY <1>3
    <2>3. PhaseOf(c)' = IF pc'[w] = "close" THEN "closing" ELSE "serving"
      BY <2>2 DEF PhasesRight
    <2> QED
      BY <2>1, <2>2, <2>3
  <1> QED
    BY <1>1, <1>2, <1>3 DEF PhasesRight

\* One connection moves to another phase, all others stay.
LEMMA OneMoves ==
  ASSUME NEW c \in Connections, NEW new,
         PhaseOf(c)' = new,
         \A d \in Connections \ {c} : PhaseOf(d)' = PhaseOf(d)
  PROVE  ShownPhase' = [ShownPhase EXCEPT ![c] = new]
  BY DEF ShownPhase

\* A worker that looks for a job leaves a place free.
LEMMA PlaceFree ==
  ASSUME IInv, PhasesRight, NEW w \in Workers, w \notin Serving
  PROVE  Cardinality({c \in Connections : PhaseOf(c) \in {"serving", "closing"}})
           < Cardinality(Workers)
  <1> DEFINE T == {c \in Connections : PhaseOf(c) \in {"serving", "closing"}}
             f == [v \in Serving |-> conn[v]]
  <1>1. \A v \in Serving : conn[v] \in T
    <2> SUFFICES ASSUME NEW v \in Serving PROVE conn[v] \in T
      OBVIOUS
    <2>1. conn[v] \in Connections
      BY DEF IInv, PlacesFit, TypeOK, Serving
    <2> QED
      BY <2>1 DEF PhasesRight
  <1>2. ASSUME NEW c \in T PROVE \E v \in Serving : conn[v] = c
    <2>1. PhaseOf(c) \notin {"new", "backlog", "closed", "line"}
      BY <1>2
    <2>2. stage[c] \in {"new", "backlog", "accepted", "closed"}
      BY <1>2 DEF IInv, TypeOK
    <2> QED
      BY <1>2, <2>1, <2>2 DEF PhasesRight
  <1>3. f \in Surjection(Serving, T)
    BY <1>1, <1>2 DEF Surjection
  <1>4. Serving \subseteq Workers \ {w} /\ IsFiniteSet(Workers \ {w})
    BY WorkersAssumption, FS_RemoveElement DEF Serving
  <1>5. /\ IsFiniteSet(Serving)
        /\ Cardinality(Serving) <= Cardinality(Workers \ {w})
    BY <1>4, FS_Subset
  <1>6. Cardinality(Workers \ {w}) = Cardinality(Workers) - 1
    BY WorkersAssumption, FS_RemoveElement
  <1> HIDE DEF T, f
  <1>7. IsFiniteSet(T) /\ Cardinality(T) <= Cardinality(Serving)
    BY <1>3, <1>5, FS_Surjection
  <1>8. /\ Cardinality(T) \in Nat /\ Cardinality(Serving) \in Nat
        /\ Cardinality(Workers) \in Nat
    BY <1>5, <1>7, WorkersAssumption, FS_CardinalityType
  <1>9. Cardinality(T) < Cardinality(Workers)
    BY <1>5, <1>6, <1>7, <1>8
  <1> QED
    BY <1>9 DEF T

\* The pool starts as the service does: an empty line and no one in a place.
LEMMA ServiceInit == Init => Service!Init
  <1> SUFFICES ASSUME Init PROVE Service!Init
    OBVIOUS
  <1>1. ShownPhase = [c \in Connections |-> "new"]
    <2>1. \A c \in Connections : PhaseOf(c) = "new"
      BY DEF Init, PhaseOf
    <2> QED
      BY <2>1 DEF ShownPhase
  <1>2. ShownServer = "listening" /\ ShownLine = << >>
    BY DEF Init, ShownServer, ShownLine
  <1> QED
    BY <1>1, <1>2 DEF Init, Service!Init, ShownPhase, ShownServer, ShownLine

\* The service counts as the server does.
LEMMA SameCardinality ==
  ASSUME NEW S PROVE Service!Cardinality(S) = Cardinality(S)
  BY Zenon DEF Service!Cardinality, Cardinality

\* Every step of the server is a step of the service or shows nothing.
LEMMA ServiceStep ==
  ASSUME IInv, IInv', CountFits, [Next]_vars
  PROVE  [Service!Next]_(Service!vars)
  <1> DEFINE Goal == [Service!Next]_(Service!vars)
             Rest == UNCHANGED <<sent, served, asksClose, toldClose, hungUp>>
             Silent == UNCHANGED <<ShownServer, ShownPhase, ShownLine>> /\ Rest
  <1>t. TypeOK /\ TypeOK' /\ PlacesFit /\ ConnectionsOwned /\ Answered
    BY DEF IInv
  <1>p. PhasesRight /\ PhasesRight'
    BY PhasesFollow, PhasesFollowNext
  <1>s. Silent => Goal
    BY DEF Service!vars, ShownServer, ShownPhase, ShownLine
  <1>c. \A w \in Workers : w \in Serving => conn[w] \in Connections
    BY <1>t DEF PlacesFit, TypeOK
  <1>a. ASSUME UNCHANGED <<jobs, accepted, conn>>,
               \A v \in Serving : v \in Serving'
                 /\ (pc'[v] = "close" <=> pc[v] = "close")
        PROVE  \A d \in Connections :
                 stage'[d] = stage[d] => PhaseOf(d)' = PhaseOf(d)
    BY <1>p, <1>a, PhaseKept
  <1>1. ASSUME NEW c \in Connections, Connect(c) PROVE Goal
    <2>1. /\ UNCHANGED <<jobs, accepted, conn, pc, listener>> /\ Rest
          /\ stage[c] = "new" /\ stage' = [stage EXCEPT ![c] = "backlog"]
          /\ ShownServer = "listening"
      BY <1>1 DEF Connect, pool, client, ShownServer
    <2>2. PhaseOf(c) = "new" /\ PhaseOf(c)' = "backlog"
      <3>1. stage'[c] = "backlog"
        BY <1>t, <2>1 DEF TypeOK
      <3> QED
        BY <1>p, <2>1, <3>1 DEF PhasesRight
    <2>3. \A d \in Connections \ {c} : PhaseOf(d)' = PhaseOf(d)
      BY <1>a, <1>t, <2>1 DEF TypeOK, Serving
    <2>4. ShownPhase' = [ShownPhase EXCEPT ![c] = "backlog"]
      BY <2>2, <2>3, OneMoves
    <2>5. ShownPhase[c] = "new"
      BY <2>2 DEF ShownPhase
    <2>6. ShownLine' = ShownLine /\ ShownServer' = ShownServer
      BY <2>1 DEF ShownLine, ShownServer
    <2>7. Service!Connect(c)
      BY <2>1, <2>4, <2>5, <2>6
      DEF Service!Connect, Service!Moves, ShownPhase, ShownLine, ShownServer
    <2> QED
      BY <2>7 DEF Service!Next
  <1>2. ASSUME NEW c \in Connections, Send(c) \/ HangUp(c) PROVE Goal
    <2>1. /\ UNCHANGED <<jobs, accepted, conn, pc, listener, stage>>
          /\ stage[c] \in {"backlog", "accepted"}
      BY <1>2 DEF Send, HangUp, pool
    <2>2. ShownPhase' = ShownPhase
      <3>1. \A d \in Connections : PhaseOf(d)' = PhaseOf(d)
        BY <1>a, <2>1 DEF Serving
      <3> QED
        BY <3>1 DEF ShownPhase
    <2>3. ShownLine' = ShownLine /\ ShownServer' = ShownServer
      BY <2>1 DEF ShownLine, ShownServer
    <2>4. ShownPhase[c] \in {"backlog", "line", "serving", "closing"}
      <3>1. PhaseOf(c) \in {"backlog", "line", "serving", "closing"}
        BY <1>p, <2>1 DEF PhasesRight
      <3> QED
        BY <3>1 DEF ShownPhase
    <2>5. CASE Send(c)
      <3>1. Service!Send(c)
        BY <2>2, <2>3, <2>4, <2>5
        DEF Service!Send, Service!Open, Send, ShownPhase, ShownLine, ShownServer
      <3> QED
        BY <3>1 DEF Service!Next
    <2>6. CASE HangUp(c)
      <3>1. Service!HangUp(c)
        BY <2>2, <2>3, <2>4, <2>6
        DEF Service!HangUp, Service!Open, HangUp, ShownPhase, ShownLine,
            ShownServer
      <3> QED
        BY <3>1 DEF Service!Next
    <2> QED
      BY <1>2, <2>5, <2>6
  <1>3. ASSUME NEW c \in Connections, Accept(c) PROVE Goal
    <2>1. /\ UNCHANGED <<jobs, conn, pc>> /\ Rest
          /\ accepted = NoConn /\ accepted' = c /\ c # NoConn
          /\ stage[c] = "backlog" /\ stage' = [stage EXCEPT ![c] = "accepted"]
          /\ ShownServer = "listening" /\ ShownServer' = "listening"
      BY <1>3, <1>t, ConnectionsAssumption
      DEF Accept, pool, client, ShownServer, PlacesFit
    <2>2. PhaseOf(c) = "backlog" /\ PhaseOf(c)' = "line"
      BY <1>p, <2>1 DEF PhasesRight
    <2>3. ASSUME NEW d \in Connections \ {c} PROVE PhaseOf(d)' = PhaseOf(d)
      <3>1. stage'[d] = stage[d] /\ d # NoConn
        BY <1>t, <2>1, ConnectionsAssumption DEF TypeOK
      <3> QED
        BY <1>p, <2>1, <3>1, PhaseKept DEF Serving
    <2>4. ShownPhase' = [ShownPhase EXCEPT ![c] = "line"]
      BY <2>2, <2>3, OneMoves
    <2>5. ShownPhase[c] = "backlog"
      BY <2>2 DEF ShownPhase
    <2>6. ShownLine' = Append(ShownLine, c)
      BY <2>1 DEF ShownLine
    <2>7. Service!Accept(c)
      BY <2>1, <2>4, <2>5, <2>6
      DEF Service!Accept, Service!Moves, ShownPhase, ShownLine, ShownServer
    <2> QED
      BY <2>7 DEF Service!Next
  <1>4. ASSUME AcceptFails PROVE Goal
    <2>1. /\ UNCHANGED <<jobs, accepted, conn, pc>> /\ Rest
          /\ stage' = [c \in Connections |->
                         IF stage[c] = "backlog" THEN "closed" ELSE stage[c]]
          /\ ShownServer = "listening" /\ ShownServer' = "stopping"
      BY <1>4 DEF AcceptFails, pool, client, ShownServer
    <2>2. ASSUME NEW d \in Connections
          PROVE  PhaseOf(d)' = IF PhaseOf(d) = "backlog" THEN "closed"
                                                         ELSE PhaseOf(d)
      <3>1. CASE stage[d] = "backlog"
        <4>1. PhaseOf(d) = "backlog"
          BY <1>p, <3>1 DEF PhasesRight
        <4>2. stage'[d] = "closed"
          BY <2>1, <3>1
        <4>3. PhaseOf(d)' = "closed"
          BY <1>p, <4>2 DEF PhasesRight
        <4> QED
          BY <4>1, <4>3
      <3>2. CASE stage[d] # "backlog"
        <4>1. PhaseOf(d) # "backlog"
          BY <3>2 DEF PhaseOf
        <4>2. PhaseOf(d)' = PhaseOf(d)
          BY <1>a, <2>1, <3>2 DEF Serving
        <4> QED
          BY <4>1, <4>2
      <3> QED
        BY <3>1, <3>2
    <2>3. ShownPhase' = [c \in Connections |->
                           IF ShownPhase[c] = "backlog" THEN "closed"
                                                        ELSE ShownPhase[c]]
      BY <2>2 DEF ShownPhase
    <2>4. ShownLine' = ShownLine
      BY <2>1 DEF ShownLine
    <2>5. Service!Stop
      BY <2>1, <2>3, <2>4
      DEF Service!Stop, ShownPhase, ShownLine, ShownServer
    <2> QED
      BY <2>5 DEF Service!Next
  <1>5. ASSUME Enqueue PROVE Goal
    <2>1. /\ UNCHANGED <<conn, stage>> /\ Rest
          /\ jobs' = Append(jobs, accepted) /\ accepted' = NoConn
          /\ accepted \in Connections /\ accepted # NoConn
          /\ ShownServer = "listening" /\ ShownServer' = "listening"
      BY <1>5, <1>t, ConnectionsAssumption
      DEF Enqueue, client, PlacesFit, TypeOK, ShownServer
    <2>2. ToSet(jobs') = ToSet(jobs) \cup {accepted}
      BY <1>t, <2>1, AppendDistinct DEF ConnectionsOwned, TypeOK
    <2>3. \A w \in Serving : w \in Serving' /\ pc'[w] = pc[w]
      BY <1>5, <1>t, NotifyOneWakes DEF Enqueue, Serving
    <2>4. \A d \in Connections : PhaseOf(d)' = PhaseOf(d)
      BY <1>p, <2>1, <2>2, <2>3, PhaseKept
    <2>5. ShownPhase' = ShownPhase
      BY <2>4 DEF ShownPhase
    <2>6. ShownLine' = ShownLine
      BY <2>1 DEF ShownLine
    <2> QED
      BY <1>s, <2>1, <2>5, <2>6
  <1>6. ASSUME Shutdown PROVE Goal
    <2>1. /\ UNCHANGED <<jobs, accepted, conn, stage>> /\ Rest
          /\ UNCHANGED ShownServer
          /\ \A w \in Serving : w \in Serving' /\ pc'[w] = pc[w]
      BY <1>6 DEF Shutdown, client, ShownServer, Serving, Asleep
    <2>2. \A d \in Connections : PhaseOf(d)' = PhaseOf(d)
      BY <1>a, <2>1
    <2>3. ShownPhase' = ShownPhase /\ ShownLine' = ShownLine
      BY <2>1, <2>2 DEF ShownPhase, ShownLine
    <2> QED
      BY <1>s, <2>1, <2>3
  <1>7. ASSUME Join PROVE Goal
    <2>1. /\ UNCHANGED <<jobs, accepted, conn, stage, pc, shutdown>> /\ Rest
          /\ ShownServer = "stopping" /\ ShownServer' = "returned"
          /\ \A w \in Workers : pc[w] = "exited"
          /\ accepted = NoConn
      BY <1>7, <1>t DEF Join, pool, client, ShownServer, PlacesFit
    <2>2. ShownPhase' = ShownPhase /\ ShownLine' = ShownLine
      <3>1. \A d \in Connections : PhaseOf(d)' = PhaseOf(d)
        BY <1>a, <2>1 DEF Serving
      <3> QED
        BY <2>1, <3>1 DEF ShownPhase, ShownLine
    <2>3. jobs = << >> /\ ShownLine = << >>
      BY <1>t, <2>1, WorkersAssumption DEF PlacesFit, ShownLine
    <2>4. {c \in Connections : ShownPhase[c] \in {"serving", "closing"}} = {}
      <3>1. Serving = {} /\ ToSet(jobs) = {}
        BY <2>1, <2>3 DEF Serving, ToSet
      <3>2. ASSUME NEW c \in Connections
            PROVE  PhaseOf(c) \notin {"serving", "closing"}
        <4>1. stage[c] \in {"new", "backlog", "closed"}
          BY <1>t, <2>1, <3>1, ConnectionsAssumption DEF ConnectionsOwned, TypeOK
        <4> QED
          BY <1>p, <4>1 DEF PhasesRight
      <3> QED
        BY <3>2 DEF ShownPhase
    <2>5. Service!Return
      BY <2>1, <2>2, <2>3, <2>4
      DEF Service!Return, Service!Taken, ShownPhase, ShownLine, ShownServer
    <2> QED
      BY <2>5 DEF Service!Next
  <1>8. ASSUME NEW w \in Workers, Sleep(w) \/ WakeUp(w) \/ Exit(w) PROVE Goal
    <2>1. /\ UNCHANGED <<listener, jobs, accepted, conn, stage>> /\ Rest
          /\ w \notin Serving
      BY <1>8 DEF Sleep, WakeUp, Exit, client, Serving
    <2>2. \A v \in Workers \ {w} : pc'[v] = pc[v]
      BY <1>8, <1>t, GotoMoves DEF Sleep, WakeUp, Exit
    <2>3. \A d \in Connections : PhaseOf(d)' = PhaseOf(d)
      BY <1>a, <2>1, <2>2 DEF Serving
    <2>4. UNCHANGED <<ShownPhase, ShownLine, ShownServer>>
      BY <2>1, <2>3 DEF ShownPhase, ShownLine, ShownServer
    <2> QED
      BY <1>s, <2>1, <2>4
  <1>9. ASSUME NEW w \in Workers, TakeJob(w) PROVE Goal
    <2>0. PICK h \in Connections : h = Head(jobs)
      BY <1>9, <1>t DEF TakeJob, TypeOK
    <2>1. /\ UNCHANGED <<listener, accepted, stage>> /\ Rest
          /\ jobs # << >> /\ jobs' = Tail(jobs) /\ w \notin Serving
          /\ conn' = [conn EXCEPT ![w] = h] /\ Goto(w, "wait")
      BY <1>9, <2>0 DEF TakeJob, client, Serving
    <2>2. /\ h \in Connections /\ h \in ToSet(jobs)
          /\ ToSet(jobs') = ToSet(jobs) \ {h}
      BY <1>t, <2>0, <2>1, TailDistinct DEF TypeOK, ConnectionsOwned
    <2>4. /\ pc'[w] = "wait" /\ conn'[w] = h
          /\ \A v \in Workers \ {w} : pc'[v] = pc[v] /\ conn'[v] = conn[v]
      <3>1. pc'[w] = "wait" /\ \A v \in Workers \ {w} : pc'[v] = pc[v]
        BY <1>t, <2>1, GotoMoves
      <3> QED
        BY <1>t, <2>1, <3>1 DEF TypeOK
    <2>5. PhaseOf(h) = "line" /\ PhaseOf(h)' = "serving"
      <3>1. w \in Serving'
        BY <2>4 DEF Serving
      <3> QED
        BY <1>p, <2>2, <2>4, <3>1 DEF PhasesRight
    <2>6. ASSUME NEW d \in Connections \ {h} PROVE PhaseOf(d)' = PhaseOf(d)
      <3>1. \A v \in Serving : v \in Serving' /\ conn'[v] = conn[v]
                                 /\ pc'[v] = pc[v]
        BY <2>1, <2>4 DEF Serving
      <3> QED
        BY <1>p, <2>1, <2>2, <3>1, PhaseKept
    <2>7. ShownPhase' = [ShownPhase EXCEPT ![h] = "serving"]
      BY <2>2, <2>5, <2>6, OneMoves
    <2>8. ShownPhase[h] = "line"
      BY <2>2, <2>5 DEF ShownPhase
    <2>9. /\ ShownLine # << >> /\ h = Head(ShownLine)
          /\ ShownLine' = Tail(ShownLine)
      <3>1. CASE accepted = NoConn
        BY <2>0, <2>1, <3>1 DEF ShownLine
      <3>2. CASE accepted # NoConn
        <4>1. jobs \in Seq(Connections) /\ accepted \in Connections
          BY <1>t, <3>2 DEF TypeOK
        <4>2. /\ Head(Append(jobs, accepted)) = Head(jobs)
              /\ Tail(Append(jobs, accepted)) = Append(Tail(jobs), accepted)
              /\ Append(jobs, accepted) # << >>
          BY <2>1, <4>1, AppendTail
        <4> QED
          BY <2>0, <2>1, <3>2, <4>2 DEF ShownLine
      <3> QED
        BY <3>1, <3>2
    <2>10. Cardinality({c \in Connections :
                          ShownPhase[c] \in {"serving", "closing"}})
             < Cardinality(Workers)
      <3>1. {c \in Connections : ShownPhase[c] \in {"serving", "closing"}}
              = {c \in Connections : PhaseOf(c) \in {"serving", "closing"}}
        BY DEF ShownPhase
      <3> QED
        BY <1>p, <2>1, <3>1, PlaceFree
    <2>11. ShownServer' = ShownServer
      BY <2>1 DEF ShownServer
    <2>12. Service!Begin
      <3>1. Service!Cardinality(Service!Taken) < Cardinality(Workers)
        BY <2>10, SameCardinality DEF Service!Taken, ShownPhase
      <3>2. Service!Moves(h, "line", "serving")
        BY <2>7, <2>8 DEF Service!Moves, ShownPhase
      <3> QED
        BY <2>1, <2>9, <2>11, <3>1, <3>2
        DEF Service!Begin, ShownLine, ShownServer
    <2> QED
      BY <2>12 DEF Service!Next
  <1>10. ASSUME NEW w \in Workers, Readable(w) \/ KeepAliveTimeout(w)
         PROVE  Goal
    <2>0. PICK h \in Connections : h = conn[w]
      BY <1>10, <1>c DEF Readable, KeepAliveTimeout, Serving
    <2>1. /\ UNCHANGED <<listener, accepted, jobs, conn, stage>> /\ Rest
          /\ pc[w] = "wait"
          /\ \/ Goto(w, "handle")
             \/ Goto(w, "close") /\ sent[h] = served[h]
      BY <1>10, <2>0 DEF Readable, KeepAliveTimeout, client
    <2>2. w \in Serving
      BY <2>1 DEF Serving
    <2>3. UNCHANGED <<ShownLine, ShownServer>>
      BY <2>1 DEF ShownLine, ShownServer
    <2>4. CASE Goto(w, "handle")
      <3>1. pc'[w] = "handle" /\ \A v \in Workers \ {w} : pc'[v] = pc[v]
        BY <1>t, <2>4, GotoMoves
      <3>2. \A v \in Serving : v \in Serving'
                                 /\ (pc'[v] = "close" <=> pc[v] = "close")
        BY <2>1, <3>1 DEF Serving
      <3>3. ShownPhase' = ShownPhase
        BY <1>a, <2>1, <3>2 DEF ShownPhase
      <3> QED
        BY <1>s, <2>1, <2>3, <3>3
    <2>5. CASE Goto(w, "close") /\ sent[h] = served[h]
      <3>1. pc'[w] = "close" /\ \A v \in Workers \ {w} : pc'[v] = pc[v]
        BY <1>t, <2>5, GotoMoves
      <3>2. PhaseOf(h) = "serving" /\ PhaseOf(h)' = "closing"
        <4>1. w \in Serving' /\ conn'[w] = h
          BY <2>0, <2>1, <3>1 DEF Serving
        <4> QED
          BY <1>p, <2>0, <2>1, <2>2, <3>1, <4>1 DEF PhasesRight
      <3>3. ASSUME NEW d \in Connections \ {h} PROVE PhaseOf(d)' = PhaseOf(d)
        <4>1. \A v \in Serving : conn[v] = d =>
                v \in Serving' /\ conn'[v] = conn[v] /\ pc'[v] = pc[v]
          BY <2>0, <2>1, <3>1 DEF Serving
        <4> QED
          BY <1>p, <2>1, <4>1, PhaseKept
      <3>4. ShownPhase' = [ShownPhase EXCEPT ![h] = "closing"]
        BY <2>2, <3>2, <3>3, OneMoves
      <3>5. ShownPhase[h] = "serving"
        BY <2>2, <3>2 DEF ShownPhase
      <3>6. Service!Leave(h)
        BY <2>1, <2>3, <2>5, <3>4, <3>5
        DEF Service!Leave, Service!Moves, ShownPhase, ShownLine, ShownServer
      <3> QED
        BY <2>2, <3>6 DEF Service!Next
    <2> QED
      BY <2>1, <2>4, <2>5
  <1>11. ASSUME NEW w \in Workers, Handle(w) PROVE Goal
    <2>0. PICK h \in Connections : h = conn[w]
      BY <1>11, <1>c DEF Handle, Serving
    <2>1. /\ UNCHANGED <<listener, accepted, jobs, conn, stage>>
          /\ UNCHANGED <<sent, asksClose, hungUp>>
          /\ served' = [served EXCEPT ![h] = @ + 1]
          /\ toldClose' = [toldClose EXCEPT ![h] = SaysClose(w)]
          /\ pc[w] = "handle"
          /\ \/ /\ ~asksClose[h] /\ count[w] > 1
                /\ Goto(w, "wait")
             \/ /\ asksClose[h] \/ count[w] = 1 \/ hungUp[h]
                /\ Goto(w, "close")
      BY <1>11, <2>0 DEF Handle
    <2>2. w \in Serving /\ sent[h] = served[h] + 1
      BY <1>t, <2>0, <2>1 DEF Serving, Answered
    <2>3. /\ served[h] \in Nat /\ count[w] \in Nat /\ count[w] > 0
          /\ count[w] + served[h] = MaxKeep
      BY <1>t, <2>0, <2>1, <2>2 DEF TypeOK, PlacesFit, CountFits
    <2>4. SaysClose(w) <=> (asksClose[h] \/ served[h] + 1 = MaxKeep)
      BY <2>0, <2>3 DEF SaysClose, LastOne
    <2>5. SaysClose(w) = (asksClose[h] \/ served[h] + 1 = MaxKeep)
      <3>1. SaysClose(w) \in BOOLEAN
        BY <1>t, <2>0 DEF SaysClose, LastOne, TypeOK
      <3> QED
        BY <2>4, <3>1
    <2>6. /\ conn'[w] = h /\ conn[w] = h
          /\ count[w] = 1 <=> served[h] + 1 = MaxKeep
      BY <2>0, <2>1, <2>3
    <2>7. toldClose'[h] = (asksClose[h] \/ served[h] + 1 = MaxKeep)
      BY <1>t, <2>1, <2>2, <2>5 DEF TypeOK
    <2>8. UNCHANGED <<ShownLine, ShownServer>>
      BY <2>1 DEF ShownLine, ShownServer
    <2>9. ShownPhase[h] = "serving"
      <3>1. PhaseOf(h) = "serving"
        BY <1>p, <2>1, <2>2, <2>6 DEF PhasesRight
      <3> QED
        BY <2>2, <3>1 DEF ShownPhase
    <2>10. served[h] < sent[h] /\ served[h] < MaxKeep
      BY <2>2, <2>3
    <2>11. \/ ~toldClose'[h] /\ ShownPhase' = ShownPhase
           \/ /\ toldClose'[h] \/ hungUp[h]
              /\ ShownPhase' = [ShownPhase EXCEPT ![h] = "closing"]
      <3>1. CASE ~asksClose[h] /\ count[w] > 1 /\ Goto(w, "wait")
        <4>1. pc'[w] = "wait" /\ \A v \in Workers \ {w} : pc'[v] = pc[v]
          BY <1>t, <3>1, GotoMoves
        <4>2. \A v \in Serving : v \in Serving'
                                   /\ (pc'[v] = "close" <=> pc[v] = "close")
          BY <2>1, <4>1 DEF Serving
        <4>3. ShownPhase' = ShownPhase
          BY <1>a, <2>1, <4>2 DEF ShownPhase
        <4>4. ~toldClose'[h]
          <5>1. ~(asksClose[h] \/ served[h] + 1 = MaxKeep)
            BY <2>3, <2>6, <3>1
          <5> QED
            BY <2>7, <5>1, Zenon
        <4> QED
          BY <4>3, <4>4
      <3>2. CASE /\ asksClose[h] \/ count[w] = 1 \/ hungUp[h]
                 /\ Goto(w, "close")
        <4>1. pc'[w] = "close" /\ \A v \in Workers \ {w} : pc'[v] = pc[v]
          BY <1>t, <3>2, GotoMoves
        <4>2. PhaseOf(h)' = "closing"
          <5>1. w \in Serving'
            BY <4>1 DEF Serving
          <5> QED
            BY <1>p, <2>2, <2>6, <4>1, <5>1 DEF PhasesRight
        <4>3. ASSUME NEW d \in Connections \ {h} PROVE PhaseOf(d)' = PhaseOf(d)
          <5>1. \A v \in Serving : conn[v] = d =>
                  v \in Serving' /\ conn'[v] = conn[v] /\ pc'[v] = pc[v]
            BY <2>1, <2>6, <4>1 DEF Serving
          <5> QED
            BY <1>p, <2>1, <5>1, PhaseKept
        <4>4. ShownPhase' = [ShownPhase EXCEPT ![h] = "closing"]
          BY <2>2, <4>2, <4>3, OneMoves
        <4>5. toldClose'[h] \/ hungUp[h]
          BY <2>6, <2>7, <3>2
        <4> QED
          BY <4>4, <4>5
      <3> QED
        BY <2>1, <3>1, <3>2
    <2>12. toldClose' = [toldClose EXCEPT ![h] =
                           asksClose[h] \/ served[h] + 1 = MaxKeep]
      BY <2>1, <2>5
    <2>13. Service!Respond(h)
      BY <2>1, <2>8, <2>9, <2>10, <2>11, <2>12
      DEF Service!Respond, Service!Moves, ShownPhase, ShownLine, ShownServer
    <2> QED
      BY <2>2, <2>13 DEF Service!Next
  <1>12. ASSUME NEW w \in Workers, Close(w) PROVE Goal
    <2>0. PICK h \in Connections : h = conn[w]
      BY <1>12, <1>c DEF Close, Serving
    <2>1. /\ UNCHANGED <<listener, accepted, jobs>> /\ Rest
          /\ pc[w] = "close" /\ Goto(w, "check")
          /\ stage' = [stage EXCEPT ![h] = "closed"]
          /\ conn' = [conn EXCEPT ![w] = NoConn]
      BY <1>12, <2>0 DEF Close, client
    <2>2. w \in Serving /\ conn[w] = h
      BY <2>0, <2>1 DEF Serving
    <2>3. /\ \A v \in Workers \ {w} : pc'[v] = pc[v] /\ conn'[v] = conn[v]
          /\ \A d \in Connections \ {h} : stage'[d] = stage[d]
          /\ stage'[h] = "closed"
      <3>1. \A v \in Workers \ {w} : pc'[v] = pc[v]
        BY <1>t, <2>1, GotoMoves
      <3> QED
        BY <1>t, <2>1, <2>2, <3>1 DEF TypeOK
    <2>4. PhaseOf(h) = "closing" /\ PhaseOf(h)' = "closed"
      BY <1>p, <2>1, <2>2, <2>3 DEF PhasesRight
    <2>5. ASSUME NEW d \in Connections \ {h} PROVE PhaseOf(d)' = PhaseOf(d)
      <3>1. \A v \in Serving : conn[v] = d =>
              v \in Serving' /\ conn'[v] = conn[v] /\ pc'[v] = pc[v]
        BY <2>2, <2>3 DEF Serving
      <3> QED
        BY <1>p, <2>1, <2>3, <3>1, PhaseKept
    <2>6. ShownPhase' = [ShownPhase EXCEPT ![h] = "closed"]
      BY <2>2, <2>4, <2>5, OneMoves
    <2>7. ShownPhase[h] = "closing"
      BY <2>2, <2>4 DEF ShownPhase
    <2>8. UNCHANGED <<ShownLine, ShownServer>>
      BY <2>1 DEF ShownLine, ShownServer
    <2>9. Service!Close(h)
      BY <2>1, <2>6, <2>7, <2>8
      DEF Service!Close, Service!Moves, ShownPhase, ShownLine, ShownServer
    <2> QED
      BY <2>2, <2>9 DEF Service!Next
  <1>13. UNCHANGED vars => Goal
    <2> SUFFICES ASSUME UNCHANGED vars PROVE Silent
      BY <1>s
    <2>1. /\ UNCHANGED <<listener, accepted, jobs, conn, stage, pc>> /\ Rest
      BY DEF vars, pool, client
    <2>2. \A d \in Connections : PhaseOf(d)' = PhaseOf(d)
      BY <1>a, <2>1 DEF Serving
    <2> QED
      BY <2>1, <2>2 DEF ShownServer, ShownPhase, ShownLine
  <1> QED
    BY <1>1, <1>2, <1>3, <1>4, <1>5, <1>6, <1>7, <1>8, <1>9, <1>10, <1>11,
       <1>12, <1>13 DEF Next, Clients, Listen, Work

\* For any pool, any number of connections and any keep-alive count the server
\* keeps the promise of ConnectionService: one line, served in order, as many at
\* a time as there are workers, a response for every request up to the count.
THEOREM ServerImplementsService == Spec => ImplementsService
  <1>1. IInv /\ IInv' /\ CountFits /\ [Next]_vars => CountFits'
    BY CountStep
  <1>2. IInv /\ IInv' /\ CountFits /\ [Next]_vars
          => [Service!Next]_(Service!vars)
    BY ServiceStep
  <1> QED
    BY <1>1, <1>2, CountInit, ServiceInit, ServerInvariant, PTL
    DEF Spec, ImplementsService, Service!Spec

-----------------------------------------------------------------------------
(***************************************************************************)
(* No accepted connection is left to sleeping threads.                     *)
(***************************************************************************)
\* What an accepted connection waits for is under way: listen_internal is about
\* to queue it, a worker serves it, or a worker is awake that will come to the
\* queue.  Together with the fairness of the threads this is why none waits for
\* ever.
SomeoneWorks ==
  \A c \in Connections : stage[c] = "accepted" =>
    \/ listener = "enqueue" /\ accepted = c
    \/ \E w \in Serving : conn[w] = c
    \/ c \in ToSet(jobs) /\ Checking \cup Serving # {}

\* No accepted connection is left to threads that all sleep or have ended, at
\* the shutdown either (ThreadPool::worker, ThreadPool::shutdown).
THEOREM SomeoneCorrect == Spec => []SomeoneWorks
  <1>1. ASSUME IInv, NEW c \in Connections, stage[c] = "accepted"
        PROVE  \/ listener = "enqueue" /\ accepted = c
               \/ \E w \in Serving : conn[w] = c
               \/ c \in ToSet(jobs) /\ Checking \cup Serving # {}
    <2>0. TypeOK /\ PlacesFit /\ ConnectionsOwned /\ NoLostWakeUp
      BY <1>1 DEF IInv
    <2>1. c \in ToSet(jobs) \cup {accepted} \cup {conn[w] : w \in Serving}
      BY <1>1, <2>0 DEF ConnectionsOwned
    <2>2. CASE c = accepted
      BY <2>0, <2>2, ConnectionsAssumption DEF PlacesFit
    <2>3. CASE c \in ToSet(jobs)
      <3>1. jobs # << >> /\ Len(jobs) \in Nat /\ Len(jobs) > 0
        <4>1. jobs \in Seq(Connections) /\ jobs # << >>
          BY <2>0, <2>3 DEF TypeOK, ToSet
        <4> QED
          BY <4>1
      <3>2. CASE Asleep # {}
        <4>1. Len(jobs) <= Cardinality(Checking)
          BY <2>0, <3>2 DEF NoLostWakeUp
        <4>2. Checking # {}
          <5>1. Cardinality({}) = 0
            BY FS_EmptySet
          <5> QED
            BY <3>1, <4>1, <5>1
        <4> QED
          BY <2>3, <4>2
      <3>3. CASE Asleep = {}
        <4>1. PICK w \in Workers : TRUE
          BY WorkersAssumption
        <4>2. pc[w] # "exited" /\ pc[w] # "asleep"
          BY <2>0, <3>1, <3>3 DEF PlacesFit, Asleep
        <4>3. w \in Checking \cup Serving
          BY <2>0, <4>2 DEF TypeOK, Checking, Serving
        <4> QED
          BY <2>3, <4>3
      <3> QED
        BY <3>2, <3>3
    <2> QED
      BY <2>1, <2>2, <2>3
  <1>2. IInv => SomeoneWorks
    BY <1>1 DEF SomeoneWorks
  <1> QED
    BY <1>2, ServerInvariant, PTL

=============================================================================
