----------------------- MODULE RequestDispatchProofs ------------------------
(***************************************************************************)
(* Proofs about RequestDispatch: for any connections, requests and keys,   *)
(* the queues keep the order that SerialRequests promises, every queue has *)
(* its drain task, a closed connection leaves nothing behind, and no       *)
(* handler outlives a graceful exit.                                       *)
(***************************************************************************)
EXTENDS RequestDispatch, FiniteSetTheorems, WellFoundedInduction, TLAPS

\* The request was dispatched.
Sent(r) == phase[r] \notin {"new", "rejected"}

\* A request has its parameters and its place once it was dispatched, from a
\* connection that had been initialized; its callback lasts while it asks.
RequestInv ==
    \A r \in Reqs :
        /\ ~Sent(r) => /\ request[r] = Unsent /\ arrived[r] = 0 /\ drain[r] = "none"
                       /\ r \notin contexts \cup sessions
        /\ Sent(r) => /\ request[r] \in Request
                      /\ 0 < arrived[r] /\ arrived[r] <= arrivals
                      /\ conn[request[r].conn] \notin {"absent", "open"}
        /\ r \in callbacks <=> phase[r] = "asking"

\* The gate of a connection that closes, or that the task leaves without
\* being forced, is closed; nothing closes any more once the task has left.
GateInv ==
    \A c \in Conns :
        /\ conn[c] \in {"closing", "closed"} => ~accepting[c]
        /\ loop # "serving" => conn[c] # "closing"
        /\ loop # "serving" /\ shutdown # "forced" /\ conn[c] \in {"open", "initialized"}
             => ~accepting[c]

\* The queues in the map and the drain tasks belong to each other.
DrainInv ==
    /\ \A t \in Reqs : drain[t] # "none" => Sent(t) /\ request[t].key \in DOMAIN queues
    /\ \A t, u \in Reqs :
         drain[t] # "none" /\ drain[u] # "none" /\ request[t].key = request[u].key => t = u
    /\ \A k \in DOMAIN queues : \E t \in Reqs : drain[t] # "none" /\ request[t].key = k

\* A queue holds the queued requests of its key, in the order of arrival.
QueueHolds ==
    \A k \in DOMAIN queues : \A i \in 1..Len(queues[k]) :
        phase[queues[k][i]] = "queued" /\ request[queues[k][i]].key = k
QueueSorted ==
    \A k \in DOMAIN queues : \A i, j \in 1..Len(queues[k]) :
        i < j => arrived[queues[k][i]] < arrived[queues[k][j]]
QueueComplete ==
    \A r \in Reqs : phase[r] = "queued" =>
        /\ request[r].key \in DOMAIN queues
        /\ \E i \in 1..Len(queues[request[r].key]) : queues[request[r].key][i] = r

\* A batch holds popped requests of the key of its task, one of them or reads
\* only, all of which arrived before what is still queued.
BatchHolds ==
    \A t \in Reqs :
        /\ drain[t] # "joining" => batch[t] = {}
        /\ \A r \in batch[t] : Sent(r) /\ phase[r] # "queued" /\ request[r].key = request[t].key
BatchReads ==
    \A t \in Reqs : \A r, s \in batch[t] : r # s => IsRead(r)
BatchFirst ==
    \A t \in Reqs : \A r \in batch[t] : \A k \in DOMAIN queues : \A i \in 1..Len(queues[k]) :
        k = request[t].key => arrived[r] < arrived[queues[k][i]]

\* Every request of a key that was popped and is not settled is in a batch.
BatchComplete ==
    \A r \in Reqs : phase[r] \in {"ready"} \cup InFlight /\ request[r].key # NoKey =>
        \E t \in Reqs : drain[t] = "joining" /\ r \in batch[t]

QueueInv == QueueHolds /\ QueueSorted /\ QueueComplete
BatchInv == BatchHolds /\ BatchReads /\ BatchFirst /\ BatchComplete

Order == DrainInv /\ QueueInv /\ BatchInv
Safe  == RequestInv /\ GateInv /\ ClosedIsClean /\ GracefulExit
Inv   == TypeOK /\ Safe /\ Order

----------------------------------------------------------------------------
(* The operators *)

\* The fields of a request.
LEMMA RequestFields ==
    ASSUME NEW x \in Request
    PROVE  /\ x.conn \in Conns /\ x.key \in Keys \cup {NoKey} /\ x.access \in Access
           /\ x.asks \in BOOLEAN /\ x.command \in BOOLEAN
  BY DEF Request

\* A set of naturals has a least element.
LEMMA LeastNat ==
    ASSUME NEW T, T \subseteq Nat, T # {}
    PROVE  \E n \in T : \A m \in T : n <= m
  <1> DEFINE R == OpToRel(<, Nat)
  <1>1. \A n, m \in Nat : n < m => <<n, m>> \in R
    BY DEF OpToRel
  <1>2. IsWellFoundedOn(R, Nat)
    BY NatLessThanWellFounded
  <1> HIDE DEF R
  <1>3. PICK n \in T : \A m \in T : ~(<<m, n>> \in R)
    BY <1>2, WFMin
  <1>4. \A m \in T : ~(m < n)
    BY <1>1, <1>3
  <1> QED
    BY <1>4

\* A drain task takes one request, or reads only.
LEMMA PopCountIs ==
    ASSUME NEW q \in Seq(Reqs), q # <<>>
    PROVE  /\ PopCount(q) \in 1..Len(q)
           /\ PopCount(q) > 1 => \A i \in 1..PopCount(q) : IsRead(q[i])
  <1> DEFINE Good(n) == /\ n > 1 => \A i \in 1..n : IsRead(q[i])
                        /\ n = Len(q) \/ ~IsRead(q[1]) \/ ~IsRead(q[n + 1])
             T == {i \in 1..Len(q) : ~IsRead(q[i])}
  <1>1. Len(q) \in Nat /\ Len(q) >= 1
    OBVIOUS
  <1>2. \E n \in 1..Len(q) : Good(n)
    <2>1. CASE T = {}
      BY <1>1, <2>1
    <2>2. CASE T # {}
      <3>0. T \subseteq Nat
        BY <1>1
      <3>1. PICK m \in T : \A i \in T : m <= i
        <4> HIDE DEF T
        <4> QED
          BY <2>2, <3>0, LeastNat
      <3>2. CASE m = 1
        <4>1. 1 \in 1..Len(q) /\ ~IsRead(q[1]) /\ ~(1 > 1)
          BY <1>1, <3>1, <3>2
        <4> QED
          BY <4>1
      <3>3. CASE m # 1
        <4>1. m - 1 \in 1..Len(q) /\ ~IsRead(q[(m - 1) + 1])
          BY <1>1, <3>1, <3>3
        <4>2. \A i \in 1..(m - 1) : IsRead(q[i])
          BY <1>1, <3>1
        <4> QED
          BY <4>1, <4>2
      <3> QED
        BY <3>2, <3>3
    <2> QED
      BY <2>1, <2>2
  <1>3. PopCount(q) = CHOOSE n \in 1..Len(q) : Good(n)
    BY DEF PopCount
  <1> HIDE DEF Good
  <1>4. PopCount(q) \in 1..Len(q) /\ Good(PopCount(q))
    BY <1>2, <1>3
  <1> QED
    BY <1>4 DEF Good

----------------------------------------------------------------------------
(* Types, connections and gates *)

\* The initial states satisfy the invariant.
LEMMA InitInv == Init => Inv
  <1> SUFFICES ASSUME Init PROVE Inv
    OBVIOUS
  <1> USE DispatchAssumption
  <1>1. TypeOK
    <2>1. accepting \in [Conns -> BOOLEAN]
      BY Zenon DEF Init
    <2> QED
      BY <2>1 DEF Init, TypeOK, Phases
  <1>2. RequestInv /\ GateInv
    BY DEF Init, RequestInv, GateInv, Sent
  <1>3. Order
    BY DEF Init, Order, DrainInv, QueueInv, QueueHolds, QueueSorted, QueueComplete,
           BatchInv, BatchHolds, BatchReads, BatchFirst, BatchComplete, InFlight, Sent
  <1>4. ClosedIsClean /\ GracefulExit
    BY DEF Init, ClosedIsClean, GracefulExit
  <1> QED
    BY <1>1, <1>2, <1>3, <1>4 DEF Inv, Safe

\* Every step keeps the types.
LEMMA TypeStep ==
    ASSUME Inv, Next
    PROVE  TypeOK'
  <1> USE DispatchAssumption DEF Inv, TypeOK, loopVars, gateVars, queueVars, ownedVars, history,
          Phases, InFlight, Settled
  <1>1. ASSUME NEW c \in Conns, ConnectionOpened(c) \/ Initialize(c) \/ ConnectionClosed(c)
        PROVE  TypeOK'
    BY <1>1 DEF ConnectionOpened, Initialize, ConnectionClosed, CloseGate
  <1>2. ASSUME NEW c \in Conns, ConnectionReleased(c) PROVE TypeOK'
    BY <1>2 DEF ConnectionReleased
  <1>3. ASSUME NEW r \in Reqs, NEW x \in Offer[r], Dispatch(r, x) PROVE TypeOK'
    <2>0. x \in Request /\ x.key \in Keys \cup {NoKey}
      BY RequestFields
    <2>1. request' \in [Reqs -> Request \cup {Unsent}]
      BY <1>3, <2>0 DEF Dispatch
    <2>2. DOMAIN queues' \subseteq Keys /\ \A k \in DOMAIN queues' : queues'[k] \in Seq(Reqs)
      <3>1. CASE x.key = NoKey
        BY <1>3, <3>1 DEF Dispatch
      <3>2. CASE x.key # NoKey /\ x.key \in DOMAIN queues
        <4>1. queues' = [queues EXCEPT ![x.key] = Append(queues[x.key], r)]
          BY <1>3, <3>2 DEF Dispatch
        <4>2. Append(queues[x.key], r) \in Seq(Reqs)
          BY <3>2
        <4> QED
          BY <4>1, <4>2
      <3>3. CASE x.key # NoKey /\ x.key \notin DOMAIN queues
        <4>1. queues' = [j \in DOMAIN queues \cup {x.key} |-> IF j = x.key THEN <<r>> ELSE queues[j]]
          BY <1>3, <3>3 DEF Dispatch
        <4> QED
          BY <2>0, <3>3, <4>1
      <3> QED
        BY <3>1, <3>2, <3>3
    <2>3. phase' \in [Reqs -> Phases] /\ drain' \in [Reqs -> {"none", "popping", "joining"}]
      BY <1>3 DEF Dispatch
    <2>4. arrivals' \in Nat /\ arrived' \in [Reqs -> Nat] /\ contexts' \subseteq Reqs
      BY <1>3 DEF Dispatch
    <2> QED
      BY <1>3, <2>1, <2>2, <2>3, <2>4 DEF Dispatch
  <1>4. ASSUME NEW r \in Reqs, NEW x \in Offer[r], Reject(r, x) PROVE TypeOK'
    BY <1>4 DEF Reject
  <1>5. ASSUME NEW t \in Reqs, DrainPop(t) PROVE TypeOK'
    <2> DEFINE k == request[t].key
               q == queues[k]
               n == PopCount(q)
    <2>1. /\ k \in DOMAIN queues /\ q \in Seq(Reqs) /\ q # <<>>
          /\ queues' = [queues EXCEPT ![k] = SubSeq(q, n + 1, Len(q))]
          /\ batch' = [batch EXCEPT ![t] = Batch(q, n)]
          /\ phase' = [r \in Reqs |-> IF r \in Batch(q, n) THEN "ready" ELSE phase[r]]
          /\ drain' = [drain EXCEPT ![t] = "joining"]
          /\ UNCHANGED <<loopVars, gateVars, request, ownedVars, history>>
      BY <1>5 DEF DrainPop
    <2>2. n \in 1..Len(q)
      BY <2>1, PopCountIs
    <2> HIDE DEF n, q, k
    <2>3. Batch(q, n) \subseteq Reqs /\ SubSeq(q, n + 1, Len(q)) \in Seq(Reqs)
      BY <2>1, <2>2 DEF Batch
    <2> QED
      BY <2>1, <2>3
  <1>6. ASSUME NEW t \in Reqs, DrainReturn(t) PROVE TypeOK'
    BY <1>6 DEF DrainReturn, DropQueue
  <1>7. ASSUME NEW t \in Reqs, DrainJoined(t) PROVE TypeOK'
    BY <1>7 DEF DrainJoined
  <1>8. ASSUME NEW r \in Reqs, GateRun(r) PROVE TypeOK'
    BY <1>8 DEF GateRun, PassGate
  <1>9. ASSUME NEW r \in Reqs, AskClient(r) PROVE TypeOK'
    BY <1>9 DEF AskClient
  <1>10. ASSUME NEW r \in Reqs, ClientAnswers(r) PROVE TypeOK'
    BY <1>10 DEF ClientAnswers
  <1>11. ASSUME NEW r \in Reqs, AskTimesOut(r) PROVE TypeOK'
    BY <1>11 DEF AskTimesOut
  <1>12. ASSUME NEW r \in Reqs, HandlerReturns(r) PROVE TypeOK'
    BY <1>12 DEF HandlerReturns
  <1>13. ASSUME NEW r \in Reqs, CommandStarts(r) PROVE TypeOK'
    BY <1>13 DEF CommandStarts
  <1>14. ASSUME NEW r \in Reqs, CommandExits(r) PROVE TypeOK'
    BY <1>14 DEF CommandExits
  <1>15. ASSUME NEW n \in 0..MaxRunning, FirstSignal(n) \/ TurnsChange(n) PROVE TypeOK'
    BY <1>15 DEF FirstSignal, TurnsChange
  <1>16. ASSUME SecondSignal \/ Drained PROVE TypeOK'
    BY <1>16 DEF SecondSignal, Drained
  <1>17. ASSUME Finish \/ TransportEnds PROVE TypeOK'
    <2>1. accepting' \in [Conns -> BOOLEAN]
      BY <1>17 DEF Finish, TransportEnds, LeaveLoop, GateAfterLoop
    <2> QED
      BY <1>17, <2>1 DEF Finish, TransportEnds, LeaveLoop
  <1> QED
    BY <1>1, <1>2, <1>3, <1>4, <1>5, <1>6, <1>7, <1>8, <1>9, <1>10, <1>11, <1>12, <1>13,
       <1>14, <1>15, <1>16, <1>17 DEF Next

\* The requests that the drain task t pops.
Popped(t) == Batch(queues[request[t].key], PopCount(queues[request[t].key]))

\* They are queued requests of the task's key: one of them, or reads.
LEMMA PoppedAre ==
    ASSUME Inv, NEW t \in Reqs, DrainPop(t)
    PROVE  /\ Popped(t) \subseteq Reqs
           /\ \A r \in Popped(t) : phase[r] = "queued" /\ request[r].key = request[t].key
           /\ \A r, s \in Popped(t) : r # s => IsRead(r)
           /\ phase' = [r \in Reqs |-> IF r \in Popped(t) THEN "ready" ELSE phase[r]]
  <1> DEFINE q == queues[request[t].key]
             n == PopCount(q)
  <1>1. /\ request[t].key \in DOMAIN queues /\ q \in Seq(Reqs) /\ q # <<>>
        /\ phase' = [r \in Reqs |-> IF r \in Batch(q, n) THEN "ready" ELSE phase[r]]
    BY DEF DrainPop, Inv, TypeOK
  <1>2. n \in 1..Len(q) /\ (n > 1 => \A i \in 1..n : IsRead(q[i]))
    BY <1>1, PopCountIs
  <1>3. \A i \in 1..Len(q) : phase[q[i]] = "queued" /\ request[q[i]].key = request[t].key
    BY <1>1 DEF Inv, Order, QueueInv, QueueHolds
  <1>4. Popped(t) = {q[i] : i \in 1..n}
    BY DEF Popped, Batch
  <1> HIDE DEF n, q
  <1>5. Popped(t) \subseteq Reqs /\ \A r \in Popped(t) : phase[r] = "queued" /\ request[r].key = request[t].key
    BY <1>1, <1>2, <1>3, <1>4
  <1>6. \A r, s \in Popped(t) : r # s => IsRead(r)
    BY <1>1, <1>2, <1>4
  <1> QED
    BY <1>1, <1>5, <1>6 DEF Popped, q, n

\* A request keeps its parameters and its place; gates close with their
\* connections and with the loop and never reopen; what is clean stays clean.
LEMMA SafeStep ==
    ASSUME Inv, Next, TypeOK'
    PROVE  Safe'
  <1>0. \A r \in Reqs : Sent(r) => request[r].conn \in Conns
    BY RequestFields DEF Inv, Safe, RequestInv
  <1> USE DispatchAssumption, <1>0 DEF Inv, TypeOK, loopVars, gateVars, queueVars, ownedVars, history,
          Serving, InFlight, Sent, Safe, RequestInv, GateInv, ClosedIsClean, GracefulExit, Tokens, Of
  <1>1. ASSUME NEW c \in Conns, ConnectionOpened(c) PROVE Safe'
    BY <1>1 DEF ConnectionOpened
  <1>2. ASSUME NEW c \in Conns, Initialize(c) PROVE Safe'
    BY <1>2 DEF Initialize
  <1>3. ASSUME NEW c \in Conns, ConnectionClosed(c) PROVE Safe'
    BY <1>3 DEF ConnectionClosed, CloseGate
  <1>4. ASSUME NEW c \in Conns, ConnectionReleased(c) PROVE Safe'
    BY <1>4 DEF ConnectionReleased, Tokens, Of
  <1>5. ASSUME NEW r \in Reqs, NEW x \in Offer[r], Dispatch(r, x) PROVE Safe'
    BY <1>5 DEF Dispatch
  <1>6. ASSUME NEW r \in Reqs, NEW x \in Offer[r], Reject(r, x) PROVE Safe'
    BY <1>6 DEF Reject
  <1>7. ASSUME NEW t \in Reqs, DrainPop(t) PROVE Safe'
    <2>1. /\ drain[t] = "popping" /\ drain' = [drain EXCEPT ![t] = "joining"]
          /\ UNCHANGED <<loopVars, gateVars, request, ownedVars, history>>
      BY <1>7 DEF DrainPop
    <2> QED
      BY <1>7, <2>1, PoppedAre
  <1>8. ASSUME NEW t \in Reqs, DrainReturn(t) PROVE Safe'
    BY <1>8 DEF DrainReturn
  <1>9. ASSUME NEW t \in Reqs, DrainJoined(t) PROVE Safe'
    BY <1>9 DEF DrainJoined
  <1>10. ASSUME NEW r \in Reqs, GateRun(r) PROVE Safe'
    BY <1>10 DEF GateRun, PassGate
  <1>11. ASSUME NEW r \in Reqs, AskClient(r) PROVE Safe'
    BY <1>11 DEF AskClient
  <1>12. ASSUME NEW r \in Reqs, ClientAnswers(r) PROVE Safe'
    BY <1>12 DEF ClientAnswers
  <1>13. ASSUME NEW r \in Reqs, AskTimesOut(r) PROVE Safe'
    BY <1>13 DEF AskTimesOut
  <1>14. ASSUME NEW r \in Reqs, HandlerReturns(r) PROVE Safe'
    BY <1>14 DEF HandlerReturns
  <1>15. ASSUME NEW r \in Reqs, CommandStarts(r) PROVE Safe'
    BY <1>15 DEF CommandStarts
  <1>16. ASSUME NEW r \in Reqs, CommandExits(r) PROVE Safe'
    BY <1>16 DEF CommandExits
  <1>17. ASSUME NEW n \in 0..MaxRunning, FirstSignal(n) PROVE Safe'
    BY <1>17 DEF FirstSignal
  <1>18. ASSUME NEW n \in 0..MaxRunning, TurnsChange(n) PROVE Safe'
    BY <1>18 DEF TurnsChange
  <1>19. ASSUME SecondSignal PROVE Safe'
    BY <1>19 DEF SecondSignal
  <1>20. ASSUME Finish PROVE Safe'
    BY <1>20 DEF Finish, LeaveLoop, GateAfterLoop
  <1>21. ASSUME TransportEnds PROVE Safe'
    BY <1>21 DEF TransportEnds, LeaveLoop, GateAfterLoop
  <1>22. ASSUME Drained PROVE Safe'
    <2>1. ASSUME NEW r \in Reqs, phase[r] \in InFlight PROVE FALSE
      <3>1. Sent(r) /\ request[r].conn \in Conns /\ r \in Tokens(request[r].conn)
        BY <2>1
      <3>2. conn[request[r].conn] \in {"initialized", "closing", "closed"}
        BY <3>1
      <3>3. conn[request[r].conn] # "closing"
        BY <1>22, <3>1 DEF Drained
      <3> QED
        BY <1>22, <3>1, <3>2, <3>3 DEF Drained
    <2>2. GracefulExit'
      BY <1>22, <2>1 DEF Drained
    <2> QED
      BY <1>22, <2>2 DEF Drained
  <1> QED
    BY <1>1, <1>2, <1>3, <1>4, <1>5, <1>6, <1>7, <1>8, <1>9, <1>10, <1>11, <1>12, <1>13, <1>14,
       <1>15, <1>16, <1>17, <1>18, <1>19, <1>20, <1>21, <1>22 DEF Next

----------------------------------------------------------------------------
(* Queues, drain tasks and batches *)

\* What a queue holds is a request.
LEMMA QueueTyped ==
    ASSUME Inv, NEW k \in DOMAIN queues
    PROVE  /\ queues[k] \in Seq(Reqs) /\ Len(queues[k]) \in Nat
           /\ \A i \in 1..Len(queues[k]) : queues[k][i] \in Reqs
  BY DEF Inv, TypeOK

\* A request goes on that is in no queue.
Advances(r) ==
    \/ phase'[r] = phase[r]
    \/ phase[r] = "new" /\ phase'[r] = "rejected"
    \/ phase[r] \in {"ready"} \cup InFlight /\ phase'[r] \in InFlight \cup {"ended", "dropped"}

\* Handlers go on, and requests are rejected, without disturbing the queues.
LEMMA HandlerOrder ==
    ASSUME Inv, UNCHANGED <<request, queueVars, arrived>>, \A r \in Reqs : Advances(r)
    PROVE  Order'
  <1> USE QueueTyped DEF Inv, Order, queueVars, InFlight, Advances
  <1>1. DrainInv'
    BY DEF DrainInv, Sent
  <1>2. QueueHolds'
    BY DEF QueueInv, QueueHolds
  <1>3. QueueSorted' /\ QueueComplete'
    BY DEF QueueInv, QueueSorted, QueueComplete
  <1>4. BatchHolds' /\ BatchReads'
    <2> HIDE QueueTyped
    <2>1. \A t \in Reqs : \A r \in batch[t] : r \in Reqs
      BY DEF TypeOK
    <2>2. BatchHolds'
      BY <2>1 DEF BatchInv, BatchHolds, Sent
    <2> QED
      BY <2>2 DEF BatchInv, BatchReads, IsRead
  <1>5. BatchFirst' /\ BatchComplete'
    BY DEF BatchInv, BatchFirst, BatchComplete
  <1> QED
    BY <1>1, <1>2, <1>3, <1>4, <1>5 DEF QueueInv, BatchInv

\* The task that finds its queue empty removes it, with nothing of its key left.
LEMMA ReturnOrder ==
    ASSUME Inv, NEW t \in Reqs, DrainReturn(t)
    PROVE  Order'
  <1> DEFINE k == request[t].key
  <1> USE QueueTyped DEF Inv, Order
  <1>1. /\ drain[t] = "popping" /\ k \in DOMAIN queues /\ queues[k] = <<>> /\ batch[t] = {}
        /\ queues' = [j \in DOMAIN queues \ {k} |-> queues[j]] /\ drain' = [drain EXCEPT ![t] = "none"]
        /\ UNCHANGED <<request, phase, batch, arrived>>
    BY DEF DrainReturn, DropQueue, DrainInv, BatchInv, BatchHolds, history
  <1>2. \A u \in Reqs : drain'[u] # "none" => u # t /\ drain'[u] = drain[u] /\ request[u].key # k
    BY <1>1 DEF DrainInv, TypeOK
  <1>3. \A j \in DOMAIN queues' : j \in DOMAIN queues /\ j # k /\ queues'[j] = queues[j]
    BY <1>1
  <1>4. DrainInv'
    BY <1>1, <1>2, <1>3 DEF DrainInv, Sent, TypeOK
  <1>5. QueueHolds' /\ QueueSorted'
    BY <1>1, <1>3 DEF QueueInv, QueueHolds, QueueSorted
  <1>6. QueueComplete'
    <2>1. ASSUME NEW r \in Reqs, phase[r] = "queued" PROVE request[r].key # k
      <3>1. Len(queues[k]) = 0
        BY <1>1
      <3> QED
        BY <2>1, <3>1 DEF QueueInv, QueueComplete
    <2> QED
      BY <1>1, <2>1 DEF QueueInv, QueueComplete
  <1>7. BatchHolds' /\ BatchReads'
    BY <1>1 DEF BatchInv, BatchHolds, BatchReads, Sent, IsRead, TypeOK
  <1>8. BatchFirst'
    BY <1>1, <1>3 DEF BatchInv, BatchFirst
  <1>9. BatchComplete'
    BY <1>1 DEF BatchInv, BatchComplete, TypeOK
  <1> QED
    BY <1>4, <1>5, <1>6, <1>7, <1>8, <1>9 DEF QueueInv, BatchInv

\* A batch that is over.
LEMMA JoinedOrder ==
    ASSUME Inv, NEW t \in Reqs, DrainJoined(t)
    PROVE  Order'
  <1> USE QueueTyped DEF Inv, Order
  <1>1. /\ drain[t] = "joining" /\ \A r \in batch[t] : phase[r] \in Settled
        /\ batch' = [batch EXCEPT ![t] = {}] /\ drain' = [drain EXCEPT ![t] = "popping"]
        /\ UNCHANGED <<request, phase, queues, arrived>>
    BY DEF DrainJoined, history
  <1>2. DrainInv'
    BY <1>1 DEF DrainInv, Sent, TypeOK
  <1>3. QueueInv'
    BY <1>1 DEF QueueInv, QueueHolds, QueueSorted, QueueComplete
  <1>4. BatchHolds' /\ BatchReads' /\ BatchFirst'
    BY <1>1 DEF BatchInv, BatchHolds, BatchReads, BatchFirst, Sent, IsRead, TypeOK
  <1>5. BatchComplete'
    BY <1>1 DEF BatchInv, BatchComplete, TypeOK, Settled, InFlight
  <1> QED
    BY <1>2, <1>3, <1>4, <1>5 DEF BatchInv

\* A request without a scope, or one that goes to the end of the queue of its
\* key, which may be new.
LEMMA DispatchOrder ==
    ASSUME Inv, NEW r \in Reqs, NEW x \in Offer[r], Dispatch(r, x)
    PROVE  Order'
  <1> DEFINE k == x.key
  <1> SUFFICES DrainInv' /\ QueueHolds' /\ QueueSorted' /\ QueueComplete'
               /\ BatchHolds' /\ BatchReads' /\ BatchFirst' /\ BatchComplete'
    BY DEF Order, QueueInv, BatchInv
  <1>1. /\ TypeOK /\ RequestInv /\ DrainInv /\ QueueHolds /\ QueueSorted /\ QueueComplete
        /\ BatchHolds /\ BatchReads /\ BatchFirst /\ BatchComplete
    BY DEF Inv, Safe, Order, QueueInv, BatchInv
  <1>2. \A j \in DOMAIN queues : /\ Len(queues[j]) \in Nat
                                /\ \A i \in 1..Len(queues[j]) : queues[j][i] \in Reqs
    BY <1>1 DEF TypeOK
  <1>3. k \in Keys \cup {NoKey} /\ NoKey \notin DOMAIN queues
    BY <1>1, RequestFields, DispatchAssumption DEF TypeOK
  <1>4. phase[r] = "new" /\ drain[r] = "none"
    BY <1>1 DEF Dispatch, RequestInv, Sent
  <1>5. /\ phase'[r] = IF k = NoKey THEN "ready" ELSE "queued"
        /\ \A s \in Reqs : s # r => phase'[s] = phase[s]
    BY <1>1 DEF TypeOK, Dispatch
  <1>6. request'[r].key = k /\ \A s \in Reqs : s # r => request'[s] = request[s]
    BY <1>1 DEF TypeOK, Dispatch
  <1>7. arrived' = [arrived EXCEPT ![r] = arrivals + 1] /\ batch' = batch
    BY DEF Dispatch
  <1>8. \A s \in Reqs : arrived[s] \in Nat /\ arrived[s] <= arrivals /\ arrivals \in Nat
    BY <1>1 DEF TypeOK, RequestInv
  <1>9. /\ \A s \in Reqs : s # r => arrived'[s] = arrived[s] /\ arrived[s] < arrived'[r]
        /\ \A s \in Reqs : arrived'[s] \in Nat
    BY <1>1, <1>7, <1>8 DEF TypeOK
  <1>10. \A j \in DOMAIN queues : \A i \in 1..Len(queues[j]) : queues[j][i] # r
    BY <1>1, <1>2, <1>4 DEF QueueHolds
  <1>11. batch[r] = {} /\ \A t \in Reqs : \A s \in batch[t] : s \in Reqs /\ s # r
    BY <1>1, <1>4 DEF BatchHolds, Sent, TypeOK
  <1>12. \A t \in Reqs : t # r => drain'[t] = drain[t]
    BY <1>1 DEF Dispatch, TypeOK
  <1>13. drain'[r] # "joining"
    BY <1>1, <1>4 DEF Dispatch, TypeOK
  <1>14. BatchHolds'
    BY <1>1, <1>5, <1>6, <1>7, <1>11, <1>12 DEF BatchHolds, Sent, TypeOK
  <1>15. BatchReads'
    BY <1>1, <1>6, <1>7, <1>11 DEF BatchReads, IsRead, TypeOK
  <1>16. BatchComplete'
    BY <1>1, <1>4, <1>5, <1>6, <1>7, <1>12 DEF BatchComplete, InFlight
  <1>17. CASE k = NoKey
    <2>1. UNCHANGED <<queues, drain>>
      BY <1>17 DEF Dispatch
    <2>2. DrainInv'
      BY <1>1, <1>4, <1>5, <1>6, <2>1 DEF DrainInv, Sent
    <2>3. QueueHolds'
      BY <1>1, <1>2, <1>5, <1>6, <1>10, <2>1 DEF QueueHolds
    <2>4. QueueSorted'
      BY <1>1, <1>2, <1>9, <1>10, <2>1 DEF QueueSorted
    <2>5. QueueComplete'
      BY <1>1, <1>5, <1>6, <1>17, <2>1 DEF QueueComplete
    <2>6. BatchFirst'
      BY <1>1, <1>2, <1>6, <1>7, <1>9, <1>10, <1>11, <2>1 DEF BatchFirst
    <2> QED
      BY <1>14, <1>15, <1>16, <2>2, <2>3, <2>4, <2>5, <2>6
  <1>18. CASE k # NoKey /\ k \in DOMAIN queues
    <2>1. drain' = drain /\ queues' = [queues EXCEPT ![k] = Append(queues[k], r)]
      BY <1>18 DEF Dispatch
    <2>2. DOMAIN queues' = DOMAIN queues /\ \A j \in DOMAIN queues : j # k => queues'[j] = queues[j]
      BY <2>1
    <2>3. /\ Len(queues'[k]) = Len(queues[k]) + 1 /\ queues'[k][Len(queues[k]) + 1] = r
          /\ \A i \in 1..Len(queues[k]) : queues'[k][i] = queues[k][i]
      BY <1>1, <1>18, <2>1 DEF TypeOK
    <2>4. \A i \in 1..Len(queues'[k]) : i \in 1..Len(queues[k]) \/ (i = Len(queues[k]) + 1 /\ queues'[k][i] = r)
      BY <1>2, <1>18, <2>3
    <2>5. DrainInv'
      BY <1>1, <1>4, <1>5, <1>6, <2>1, <2>2 DEF DrainInv, Sent
    <2>6. QueueHolds'
      BY <1>1, <1>2, <1>5, <1>6, <1>10, <1>18, <2>2, <2>3, <2>4 DEF QueueHolds
    <2>7. QueueSorted'
      <3>1. \A i, j \in 1..Len(queues'[k]) : i < j => i \in 1..Len(queues[k])
        BY <1>2, <1>18, <2>3
      <3>2. ASSUME NEW i \in 1..Len(queues'[k]), NEW j \in 1..Len(queues'[k]), i < j
            PROVE  arrived'[queues'[k][i]] < arrived'[queues'[k][j]]
        <4>1. i \in 1..Len(queues[k]) /\ queues'[k][i] = queues[k][i] /\ queues[k][i] \in Reqs \ {r}
          BY <1>2, <1>10, <1>18, <2>3, <3>1, <3>2
        <4>2. CASE j = Len(queues[k]) + 1
          BY <1>9, <2>3, <4>1, <4>2
        <4>3. CASE j \in 1..Len(queues[k])
          <5>1. queues'[k][j] = queues[k][j] /\ queues[k][j] \in Reqs \ {r}
            BY <1>2, <1>10, <1>18, <2>3, <4>3
          <5>2. arrived[queues[k][i]] < arrived[queues[k][j]]
            BY <1>1, <1>18, <3>2, <4>1, <4>3 DEF QueueSorted
          <5> QED
            BY <1>9, <4>1, <5>1, <5>2
        <4> QED
          BY <2>4, <4>2, <4>3
      <3>3. \A m \in DOMAIN queues : m # k => \A i, j \in 1..Len(queues[m]) :
               i < j => arrived'[queues[m][i]] < arrived'[queues[m][j]]
        BY <1>1, <1>2, <1>9, <1>10 DEF QueueSorted
      <3> QED
        BY <2>2, <3>2, <3>3 DEF QueueSorted
    <2>8. QueueComplete'
      <3>1. ASSUME NEW s \in Reqs, phase'[s] = "queued", s # r
            PROVE  /\ request'[s].key \in DOMAIN queues'
                   /\ \E i \in 1..Len(queues'[request'[s].key]) : queues'[request'[s].key][i] = s
        BY <1>1, <1>2, <1>5, <1>6, <1>18, <2>2, <2>3, <3>1 DEF QueueComplete
      <3>2. /\ request'[r].key \in DOMAIN queues'
            /\ \E i \in 1..Len(queues'[request'[r].key]) : queues'[request'[r].key][i] = r
        BY <1>2, <1>6, <1>18, <2>2, <2>3
      <3> QED
        BY <3>1, <3>2 DEF QueueComplete
    <2>9. BatchFirst'
      <3> SUFFICES ASSUME NEW t \in Reqs, NEW s \in batch[t], NEW m \in DOMAIN queues,
                          NEW i \in 1..Len(queues'[m]), m = request'[t].key
                   PROVE  arrived'[s] < arrived'[queues'[m][i]]
        BY <1>7, <2>2 DEF BatchFirst
      <3>1. s \in Reqs \ {r} /\ m = request[t].key /\ arrived'[s] = arrived[s]
        BY <1>6, <1>9, <1>11
      <3>2. CASE m = k /\ i = Len(queues[k]) + 1
        BY <1>9, <2>3, <3>1, <3>2
      <3>3. CASE i \in 1..Len(queues[m])
        <4>1. queues'[m][i] = queues[m][i] /\ queues[m][i] \in Reqs \ {r}
          BY <1>2, <1>10, <2>2, <2>3, <3>3
        <4>2. arrived[s] < arrived[queues[m][i]]
          BY <1>1, <3>1, <3>3 DEF BatchFirst
        <4> QED
          BY <1>9, <3>1, <4>1, <4>2
      <3> QED
        BY <2>2, <2>4, <3>2, <3>3
    <2> QED
      BY <1>14, <1>15, <1>16, <2>5, <2>6, <2>7, <2>8, <2>9
  <1>19. CASE k # NoKey /\ k \notin DOMAIN queues
    <2>1. /\ drain' = [drain EXCEPT ![r] = "popping"]
          /\ queues' = [j \in DOMAIN queues \cup {k} |-> IF j = k THEN <<r>> ELSE queues[j]]
      BY <1>19 DEF Dispatch
    <2>2. /\ DOMAIN queues' = DOMAIN queues \cup {k} /\ \A j \in DOMAIN queues : j # k /\ queues'[j] = queues[j]
      BY <1>19, <2>1
    <2>3. Len(queues'[k]) = 1 /\ queues'[k][1] = r
      BY <2>1
    <2>4. /\ drain'[r] = "popping" /\ \A t \in Reqs : drain[t] # "none" => request[t].key # k
      BY <1>1, <1>19, <2>1 DEF DrainInv, TypeOK
    <2>5. DrainInv'
      BY <1>1, <1>4, <1>5, <1>6, <1>12, <1>19, <2>2, <2>4 DEF DrainInv, Sent
    <2>6. QueueHolds'
      BY <1>1, <1>2, <1>5, <1>6, <1>10, <1>19, <2>2, <2>3 DEF QueueHolds
    <2>7. QueueSorted'
      BY <1>1, <1>2, <1>9, <1>10, <1>19, <2>2, <2>3 DEF QueueSorted
    <2>8. QueueComplete'
      BY <1>1, <1>5, <1>6, <1>19, <2>2, <2>3 DEF QueueComplete
    <2>9. \A t \in Reqs : batch[t] # {} => t # r /\ request[t].key # k
      BY <1>1, <1>11, <2>4 DEF BatchHolds
    <2>10. BatchFirst'
      BY <1>1, <1>2, <1>6, <1>7, <1>9, <1>10, <1>11, <2>2, <2>9 DEF BatchFirst
    <2> QED
      BY <1>14, <1>15, <1>16, <2>5, <2>6, <2>7, <2>8, <2>10
  <1> QED
    BY <1>17, <1>18, <1>19

\* The drain task pops from the front: what it pops is a batch, and arrived
\* before what stays.
LEMMA PopOrder ==
    ASSUME Inv, NEW t \in Reqs, DrainPop(t)
    PROVE  Order'
  <1> DEFINE k == request[t].key
             q == queues[k]
             n == PopCount(q)
  <1> SUFFICES DrainInv' /\ QueueHolds' /\ QueueSorted' /\ QueueComplete'
               /\ BatchHolds' /\ BatchReads' /\ BatchFirst' /\ BatchComplete'
    BY DEF Order, QueueInv, BatchInv
  <1>1. /\ TypeOK /\ DrainInv /\ QueueHolds /\ QueueSorted /\ QueueComplete
        /\ BatchHolds /\ BatchReads /\ BatchFirst /\ BatchComplete
    BY DEF Inv, Order, QueueInv, BatchInv
  <1>2. drain[t] = "popping" /\ k \in DOMAIN queues /\ q \in Seq(Reqs) /\ q # <<>>
    BY <1>1 DEF DrainPop, TypeOK
  <1>3. UNCHANGED <<request, arrived>>
    BY DEF DrainPop, history
  <1>4. queues' = [queues EXCEPT ![k] = SubSeq(q, n + 1, Len(q))]
    BY DEF DrainPop
  <1>5. batch' = [batch EXCEPT ![t] = Popped(t)] /\ drain' = [drain EXCEPT ![t] = "joining"]
    BY DEF DrainPop, Popped
  <1>6. n \in 1..Len(q) /\ Len(q) \in Nat
    BY <1>2, PopCountIs
  <1>7. Popped(t) = {q[i] : i \in 1..n}
    BY DEF Popped, Batch
  <1>8. \A j \in DOMAIN queues : \A i \in 1..Len(queues[j]) :
          /\ queues[j][i] \in Reqs /\ phase[queues[j][i]] = "queued" /\ request[queues[j][i]].key = j
    BY <1>1 DEF TypeOK, QueueHolds
  <1>9. \A i \in 1..Len(q) : q[i] \in Reqs /\ arrived[q[i]] \in Nat /\ request[q[i]].key = k
    BY <1>1, <1>2, <1>8 DEF TypeOK
  <1>10. \A i, j \in 1..Len(q) : i < j => arrived[q[i]] < arrived[q[j]]
    BY <1>1, <1>2 DEF QueueSorted
  <1>11. DOMAIN queues' = DOMAIN queues /\ \A j \in DOMAIN queues : j # k => queues'[j] = queues[j]
    BY <1>4
  <1>12. queues'[k] = SubSeq(q, n + 1, Len(q))
    BY <1>2, <1>4
  <1> HIDE DEF q, n
  <1>13. Len(queues'[k]) = Len(q) - n /\ \A i \in 1..(Len(q) - n) : queues'[k][i] = q[n + i]
    BY <1>2, <1>6, <1>12
  <1>14. \A i \in 1..Len(queues'[k]) : n + i \in 1..Len(q) /\ queues'[k][i] = q[n + i]
    BY <1>6, <1>13
  <1>15. \A m \in 1..n : m \in 1..Len(q) /\ \A i \in 1..Len(queues'[k]) : m < n + i
    BY <1>6, <1>13
  <1>16. /\ Popped(t) \subseteq Reqs
         /\ \A r \in Popped(t) : phase'[r] = "ready" /\ phase[r] = "queued" /\ request[r].key = k
         /\ \A r \in Reqs : r \notin Popped(t) => phase'[r] = phase[r]
         /\ \A r, s \in Popped(t) : r # s => IsRead(r)
    BY PoppedAre
  <1>17. /\ batch'[t] = Popped(t) /\ drain'[t] = "joining"
         /\ \A u \in Reqs : u # t => batch'[u] = batch[u] /\ drain'[u] = drain[u]
    BY <1>1, <1>5 DEF TypeOK
  <1>18. \A r \in Popped(t) : \A i \in 1..Len(queues'[k]) : arrived[r] < arrived[queues'[k][i]]
    <2> SUFFICES ASSUME NEW m \in 1..n, NEW i \in 1..Len(queues'[k])
                 PROVE  arrived[q[m]] < arrived[queues'[k][i]]
      BY <1>7
    <2> QED
      BY <1>10, <1>14, <1>15
  <1>19. \A j \in DOMAIN queues : \A i \in 1..Len(queues'[j]) : queues'[j][i] \in Reqs \ Popped(t)
    <2>1. \A i \in 1..Len(queues'[k]) : queues'[k][i] \in Reqs /\ arrived[queues'[k][i]] \in Nat
      BY <1>9, <1>14
    <2>2. \A i \in 1..Len(queues'[k]) : queues'[k][i] \notin Popped(t)
      BY <1>18, <2>1
    <2> QED
      BY <1>8, <1>11, <1>16, <2>1, <2>2
  <1>20. DrainInv'
    BY <1>1, <1>2, <1>3, <1>11, <1>16, <1>17 DEF DrainInv, Sent
  <1>21. QueueHolds'
    <2>1. \A i \in 1..Len(queues'[k]) : phase[queues'[k][i]] = "queued" /\ request[queues'[k][i]].key = k
      BY <1>2, <1>8, <1>14 DEF q
    <2> QED
      BY <1>3, <1>8, <1>11, <1>16, <1>19, <2>1 DEF QueueHolds
  <1>22. QueueSorted'
    <2>1. \A i, j \in 1..Len(queues'[k]) : i < j => n + i < n + j
      BY <1>6, <1>13
    <2>2. \A i, j \in 1..Len(queues'[k]) : i < j => arrived[queues'[k][i]] < arrived[queues'[k][j]]
      BY <1>10, <1>14, <2>1
    <2> QED
      BY <1>1, <1>3, <1>11, <2>2 DEF QueueSorted
  <1>23. QueueComplete'
    <2> SUFFICES ASSUME NEW r \in Reqs, phase'[r] = "queued"
                 PROVE  /\ request[r].key \in DOMAIN queues'
                        /\ \E i \in 1..Len(queues'[request[r].key]) : queues'[request[r].key][i] = r
      BY <1>3 DEF QueueComplete
    <2>1. phase[r] = "queued" /\ r \notin Popped(t)
      BY <1>16
    <2>2. CASE request[r].key = k
      <3>1. PICK i \in 1..Len(q) : q[i] = r
        BY <1>1, <2>1, <2>2 DEF QueueComplete, q
      <3>2. i \notin 1..n
        BY <1>7, <2>1, <3>1
      <3>3. i - n \in 1..Len(queues'[k]) /\ n + (i - n) = i
        BY <1>6, <1>13, <3>2
      <3>4. queues'[k][i - n] = r
        BY <1>14, <3>1, <3>3
      <3> QED
        BY <1>2, <1>11, <2>2, <3>3, <3>4
    <2>3. CASE request[r].key # k
      BY <1>1, <1>11, <2>1, <2>3 DEF QueueComplete
    <2> QED
      BY <2>2, <2>3
  <1>24. BatchHolds'
    <2>1. \A u \in Reqs : \A r \in batch[u] : r \in Reqs
      BY <1>1 DEF TypeOK
    <2> QED
      BY <1>3, <1>1, <1>16, <1>17, <2>1 DEF BatchHolds, Sent
  <1>25. BatchReads'
    BY <1>1, <1>3, <1>16, <1>17 DEF BatchReads, IsRead
  <1>26. BatchFirst'
    <2>1. \A u \in Reqs : u # t /\ batch[u] # {} => request[u].key # k
      BY <1>1, <1>2 DEF DrainInv, BatchHolds
    <2> QED
      BY <1>1, <1>3, <1>11, <1>17, <1>18, <2>1 DEF BatchFirst
  <1>27. BatchComplete'
    BY <1>1, <1>2, <1>3, <1>16, <1>17 DEF BatchComplete
  <1> QED
    BY <1>20, <1>21, <1>22, <1>23, <1>24, <1>25, <1>26, <1>27

\* Every step keeps the order.
LEMMA OrderStep ==
    ASSUME Inv, Next, TypeOK'
    PROVE  Order'
  <1>1. ASSUME UNCHANGED <<request, phase, queueVars, history>> PROVE Order'
    <2>1. \A r \in Reqs : Advances(r)
      BY <1>1 DEF Advances
    <2> QED
      BY <1>1, <2>1, HandlerOrder DEF history
  <1>2. ASSUME NEW c \in Conns, \/ ConnectionOpened(c) \/ Initialize(c)
                                \/ ConnectionClosed(c) \/ ConnectionReleased(c)
        PROVE  Order'
    BY <1>1, <1>2 DEF ConnectionOpened, Initialize, ConnectionClosed, ConnectionReleased
  <1>3. ASSUME NEW r \in Reqs, NEW p, phase' = [phase EXCEPT ![r] = p],
               \/ phase[r] = "new" /\ p = "rejected"
               \/ phase[r] \in {"ready"} \cup InFlight /\ p \in InFlight \cup {"ended", "dropped"},
               UNCHANGED <<request, queueVars, history>>
        PROVE  Order'
    <2>1. \A s \in Reqs : Advances(s)
      BY <1>3 DEF Advances, Inv, TypeOK
    <2> QED
      BY <1>3, <2>1, HandlerOrder DEF history
  <1>4. ASSUME NEW r \in Reqs, NEW x \in Offer[r], Reject(r, x) PROVE Order'
    BY <1>3, <1>4 DEF Reject
  <1>5. ASSUME NEW r \in Reqs, GateRun(r) \/ AskClient(r) \/ AskTimesOut(r) PROVE Order'
    BY <1>3, <1>5 DEF GateRun, PassGate, AskClient, AskTimesOut, InFlight
  <1>6. ASSUME NEW r \in Reqs, ClientAnswers(r) PROVE Order'
    BY <1>3, <1>6 DEF ClientAnswers, InFlight, Inv, Safe, RequestInv
  <1>7. ASSUME NEW r \in Reqs, HandlerReturns(r) \/ CommandStarts(r) PROVE Order'
    BY <1>3, <1>7 DEF HandlerReturns, CommandStarts, InFlight
  <1>8. ASSUME NEW r \in Reqs, CommandExits(r) PROVE Order'
    BY <1>1, <1>8 DEF CommandExits
  <1>9. ASSUME NEW n \in 0..MaxRunning, FirstSignal(n) \/ TurnsChange(n) PROVE Order'
    BY <1>1, <1>9 DEF FirstSignal, TurnsChange
  <1>10. ASSUME SecondSignal \/ Finish \/ TransportEnds \/ Drained PROVE Order'
    BY <1>1, <1>10 DEF SecondSignal, Finish, TransportEnds, LeaveLoop, Drained
  <1> QED
    BY <1>2, <1>3, <1>4, <1>5, <1>6, <1>7, <1>8, <1>9, <1>10,
       DispatchOrder, PopOrder, ReturnOrder, JoinedOrder DEF Next

----------------------------------------------------------------------------
(* The theorems *)

\* The invariant holds in every state of every behaviour (processor task,
\* RequestSerializationQueues, ConnectionRpcGate).
THEOREM Invariance == Spec => []Inv
  <1>1. Inv /\ UNCHANGED vars => Inv'
    <2> SUFFICES ASSUME Inv, UNCHANGED vars PROVE Inv'
      OBVIOUS
    <2>1. TypeOK' /\ Safe'
      BY DEF Inv, TypeOK, Safe, RequestInv, GateInv, ClosedIsClean, GracefulExit, Sent, Tokens, Of,
             vars, loopVars, gateVars, queueVars, ownedVars, history
    <2>2. \A r \in Reqs : Advances(r)
      BY DEF Advances, vars
    <2>3. Order'
      BY <2>2, HandlerOrder DEF vars, history
    <2> QED
      BY <2>1, <2>3 DEF Inv
  <1>2. Inv /\ Next => Inv'
    BY TypeStep, SafeStep, OrderStep DEF Inv
  <1>3. Inv /\ [Next]_vars => Inv'
    BY <1>1, <1>2
  <1> QED
    BY InitInv, <1>3, PTL DEF Spec

\* Every variable keeps its type (the processor task and what it shares).
THEOREM TypeCorrect == Spec => []TypeOK
  <1>1. Inv => TypeOK
    BY DEF Inv
  <1> QED
    BY Invariance, <1>1, PTL

\* A queue in the map has exactly one drain task, and a key without a queue
\* none: enqueue and the task that removes the empty queue never miss each
\* other (RequestSerializationQueues).
THEOREM QueuesAreServed == Spec => []QueueServed
  <1>1. Inv => QueueServed
    <2> SUFFICES ASSUME Inv, NEW k \in Keys
                 PROVE  Cardinality({t \in Reqs : drain[t] # "none" /\ request[t].key = k})
                          = IF k \in DOMAIN queues THEN 1 ELSE 0
      BY DEF QueueServed
    <2> DEFINE T == {t \in Reqs : drain[t] # "none" /\ request[t].key = k}
    <2>1. CASE k \in DOMAIN queues
      <3>1. PICK t \in Reqs : drain[t] # "none" /\ request[t].key = k
        BY <2>1 DEF Inv, Order, DrainInv
      <3>2. T = {t}
        BY <3>1 DEF Inv, Order, DrainInv
      <3> QED
        BY <2>1, <3>2, FS_Singleton
    <2>2. CASE k \notin DOMAIN queues
      <3>1. T = {}
        BY <2>2 DEF Inv, Order, DrainInv
      <3> QED
        BY <2>2, <3>1, FS_EmptySet
    <2> QED
      BY <2>1, <2>2
  <1> QED
    BY Invariance, <1>1, PTL

\* A connection that was closed leaves no handler, request context, callback
\* or command session behind (connection_closed, ConnectionRpcGate::shutdown).
THEOREM ClosedLeavesNothing == Spec => []ClosedIsClean
  <1>1. Inv => ClosedIsClean
    BY DEF Inv, Safe
  <1> QED
    BY Invariance, <1>1, PTL

\* A processor task that returns unforced leaves no handler in progress, and
\* none starts later, whatever is still queued.
THEOREM ExitIsGraceful == Spec => []GracefulExit
  <1>1. Inv => GracefulExit
    BY DEF Inv, Safe
  <1> QED
    BY Invariance, <1>1, PTL

----------------------------------------------------------------------------
(* The refinement of SerialRequests *)

\* What a request's phase is to SerialRequests.
StatusOf(p) == CASE p \in {"new", "rejected"} -> "new"
                 [] p \in {"queued", "ready"} -> "waiting"
                 [] p \in InFlight            -> "active"
                 [] OTHER                     -> "over"

Status == [r \in Reqs |-> StatusOf(phase[r])]
Scope  == [r \in Reqs |-> [key |-> request[r].key, access |-> request[r].access]]

\* The initial states are initial there.
LEMMA SerialInit == Init => Serial!Init
  <1> SUFFICES ASSUME Init PROVE Serial!Init
    OBVIOUS
  <1>1. Status = [r \in Reqs |-> "new"]
    <2>1. StatusOf("new") = "new"
      BY DEF StatusOf, InFlight
    <2> QED
      BY <2>1 DEF Init, Status
  <1>2. Scope \in [Reqs -> Serial!Scopes]
    BY DEF Init, Scope, Serial!Scopes, Serial!Access, Unsent
  <1> QED
    BY <1>1, <1>2 DEF Status, StatusOf, Scope, Serial!Init, Init

\* A request is dispatched: it arrives there.
LEMMA SerialArrive ==
    ASSUME Inv, NEW r \in Reqs, NEW x \in Offer[r], Dispatch(r, x)
    PROVE  Serial!Arrive(r)
  <1>1. TypeOK /\ RequestInv /\ x \in Request
    BY DispatchAssumption DEF Inv, Safe
  <1>2. /\ phase[r] = "new" /\ request' = [request EXCEPT ![r] = x]
        /\ arrived' = [arrived EXCEPT ![r] = arrivals + 1]
        /\ phase' = [phase EXCEPT ![r] = IF x.key = NoKey THEN "ready" ELSE "queued"]
    BY DEF Dispatch
  <1>3. Status[r] = "new" /\ Status' = [Status EXCEPT ![r] = "waiting"]
    BY <1>1, <1>2 DEF TypeOK, Status, StatusOf, InFlight
  <1>4. Scope'[r] = [key |-> x.key, access |-> x.access] /\ Scope' = [Scope EXCEPT ![r] = Scope'[r]]
    BY <1>1, <1>2 DEF TypeOK, Scope
  <1>5. Scope'[r] \in Serial!Scopes
    BY <1>1, <1>4, RequestFields DEF Serial!Scopes, Serial!Access, Access
  <1>6. \A s \in Reqs : arrived[s] < arrived'[r]
    BY <1>1, <1>2 DEF TypeOK, RequestInv
  <1>7. arrived' = [arrived EXCEPT ![r] = arrived'[r]]
    BY <1>1, <1>2 DEF TypeOK
  <1> QED
    BY <1>3, <1>4, <1>5, <1>6, <1>7 DEF Status, StatusOf, Scope, Serial!Arrive

\* A handler starts: whatever it must wait for is over.  An earlier request
\* of its key is not queued, because what is queued arrived after the batch,
\* and not in progress, because it would be in the same batch.
LEMMA SerialStart ==
    ASSUME Inv, NEW r \in Reqs, phase[r] = "ready", phase' = [phase EXCEPT ![r] = "running"],
           UNCHANGED <<request, history>>
    PROVE  Serial!Start(r)
  <1>1. /\ TypeOK /\ RequestInv /\ DrainInv /\ QueueHolds /\ QueueSorted /\ QueueComplete
        /\ BatchHolds /\ BatchReads /\ BatchFirst /\ BatchComplete
    BY DEF Inv, Safe, Order, QueueInv, BatchInv
  <1>2. ASSUME NEW s \in Reqs, 0 < arrived[s], arrived[s] < arrived[r],
               request[s].key = request[r].key, request[s].key # NoKey,
               ~(request[s].access = "SharedRead" /\ request[r].access = "SharedRead")
        PROVE  StatusOf(phase[s]) = "over"
    <2>1. arrived[s] \in Nat /\ arrived[r] \in Nat /\ s # r
      BY <1>1, <1>2 DEF TypeOK
    <2>2. PICK t \in Reqs : drain[t] = "joining" /\ r \in batch[t]
      BY <1>1, <1>2 DEF BatchComplete
    <2>3. request[t].key = request[r].key /\ request[t].key \in DOMAIN queues
      BY <1>1, <2>2 DEF BatchHolds, DrainInv
    <2>4. phase[s] # "queued"
      <3> SUFFICES ASSUME phase[s] = "queued" PROVE FALSE
        OBVIOUS
      <3>1. PICK i \in 1..Len(queues[request[s].key]) : queues[request[s].key][i] = s
        BY <1>1 DEF QueueComplete
      <3>2. arrived[r] < arrived[s]
        BY <1>1, <1>2, <2>2, <2>3, <3>1 DEF BatchFirst
      <3> QED
        BY <1>2, <2>1, <3>2
    <2>5. phase[s] \notin {"ready"} \cup InFlight
      <3> SUFFICES ASSUME phase[s] \in {"ready"} \cup InFlight PROVE FALSE
        OBVIOUS
      <3>1. PICK u \in Reqs : drain[u] = "joining" /\ s \in batch[u]
        BY <1>1, <1>2 DEF BatchComplete
      <3>2. u = t
        BY <1>1, <1>2, <2>2, <2>3, <3>1 DEF BatchHolds, DrainInv
      <3>3. IsRead(r) /\ IsRead(s)
        BY <1>1, <2>1, <2>2, <3>1, <3>2 DEF BatchReads
      <3> QED
        BY <1>2, <3>3 DEF IsRead
    <2>6. phase[s] \notin {"new", "rejected"}
      BY <1>1, <1>2 DEF RequestInv, Sent
    <2> QED
      BY <2>4, <2>5, <2>6 DEF StatusOf, InFlight
  <1>3. Status[r] = "waiting" /\ Status' = [Status EXCEPT ![r] = "active"]
    BY <1>1 DEF TypeOK, Status, StatusOf, InFlight
  <1>4. Scope' = Scope /\ arrived' = arrived
    BY DEF Scope, history
  <1>5. \A s \in Reqs : Status[s] = StatusOf(phase[s]) /\ Scope[s].key = request[s].key
                        /\ Scope[s].access = request[s].access
    BY DEF Status, Scope
  <1>6. \A s \in Reqs : Serial!Before(s, r) /\ Serial!Conflict(s, r) => Status[s] = "over"
    BY <1>2, <1>5 DEF Serial!Before, Serial!Conflict, Scope
  <1> QED
    BY <1>3, <1>4, <1>6 DEF Status, StatusOf, Scope, Serial!Start

\* A request is over: its handler has returned, or its gate is closed.
LEMMA SerialFinish ==
    ASSUME Inv, NEW r \in Reqs, phase[r] \in {"ready"} \cup InFlight, NEW p \in {"ended", "dropped"},
           phase' = [phase EXCEPT ![r] = p], UNCHANGED <<request, history>>
    PROVE  Serial!Finish(r)
  <1>1. Status[r] \in {"waiting", "active"} /\ Status' = [Status EXCEPT ![r] = "over"]
    BY DEF Inv, TypeOK, Status, StatusOf, InFlight
  <1>2. Scope' = Scope /\ arrived' = arrived
    BY DEF Scope, history
  <1> QED
    BY <1>1, <1>2 DEF Status, StatusOf, Scope, Serial!Finish

\* Every other step is invisible there.
LEMMA SerialStutter ==
    ASSUME UNCHANGED <<request, history>>,
           \A r \in Reqs : StatusOf(phase'[r]) = StatusOf(phase[r])
    PROVE  UNCHANGED Serial!vars
  <1>1. Status' = Status
    BY DEF Status
  <1>2. Scope' = Scope /\ arrived' = arrived
    BY DEF Scope, history
  <1> QED
    BY <1>1, <1>2 DEF Status, StatusOf, Scope, Serial!vars

\* Every step of the server is a step of SerialRequests, or none.
LEMMA SerialStep ==
    ASSUME Inv, Next
    PROVE  [Serial!Next]_Serial!vars
  <1>1. ASSUME UNCHANGED <<request, phase, history>> PROVE UNCHANGED Serial!vars
    BY <1>1, SerialStutter
  <1>2. ASSUME NEW c \in Conns, \/ ConnectionOpened(c) \/ Initialize(c)
                                \/ ConnectionClosed(c) \/ ConnectionReleased(c)
        PROVE  UNCHANGED Serial!vars
    BY <1>1, <1>2 DEF ConnectionOpened, Initialize, ConnectionClosed, ConnectionReleased
  <1>3. ASSUME NEW r \in Reqs, NEW x \in Offer[r], Dispatch(r, x) PROVE Serial!Next
    BY <1>3, SerialArrive DEF Serial!Next
  <1>4. ASSUME NEW r \in Reqs, NEW p, phase' = [phase EXCEPT ![r] = p],
               StatusOf(phase[r]) = StatusOf(p), UNCHANGED <<request, history>>
        PROVE  UNCHANGED Serial!vars
    <2>1. \A s \in Reqs : StatusOf(phase'[s]) = StatusOf(phase[s])
      BY <1>4 DEF Inv, TypeOK
    <2> QED
      BY <1>4, <2>1, SerialStutter
  <1>5. ASSUME NEW r \in Reqs, NEW x \in Offer[r], Reject(r, x) PROVE UNCHANGED Serial!vars
    <2>1. StatusOf("new") = StatusOf("rejected")
      BY DEF StatusOf, InFlight
    <2> QED
      BY <1>4, <1>5, <2>1 DEF Reject
  <1>6. ASSUME NEW t \in Reqs, DrainPop(t) PROVE UNCHANGED Serial!vars
    <2>1. StatusOf("queued") = StatusOf("ready")
      BY DEF StatusOf, InFlight
    <2>2. \A s \in Reqs : StatusOf(phase'[s]) = StatusOf(phase[s])
      BY <1>6, <2>1, PoppedAre
    <2> QED
      BY <1>6, <2>2, SerialStutter DEF DrainPop
  <1>7. ASSUME NEW t \in Reqs, DrainReturn(t) \/ DrainJoined(t) PROVE UNCHANGED Serial!vars
    BY <1>1, <1>7 DEF DrainReturn, DrainJoined
  <1>8. ASSUME NEW r \in Reqs, GateRun(r) PROVE Serial!Next
    BY <1>8, SerialStart, SerialFinish DEF GateRun, PassGate, Serial!Next
  <1>9. \A p, q \in InFlight : StatusOf(p) = StatusOf(q)
    BY DEF StatusOf, InFlight
  <1>10. ASSUME NEW r \in Reqs, AskClient(r) \/ ClientAnswers(r) \/ AskTimesOut(r)
         PROVE  UNCHANGED Serial!vars
    <2>1. phase[r] \in InFlight /\ UNCHANGED <<request, history>>
      BY <1>10 DEF AskClient, ClientAnswers, AskTimesOut, Inv, Safe, RequestInv, InFlight
    <2>2. \E p \in InFlight : phase' = [phase EXCEPT ![r] = p]
      BY <1>10 DEF AskClient, ClientAnswers, AskTimesOut, InFlight
    <2> QED
      BY <1>4, <1>9, <2>1, <2>2
  <1>11. ASSUME NEW r \in Reqs, HandlerReturns(r) \/ CommandStarts(r) PROVE Serial!Next
    BY <1>11, SerialFinish DEF HandlerReturns, CommandStarts, InFlight, Serial!Next
  <1>12. ASSUME NEW r \in Reqs, CommandExits(r) PROVE UNCHANGED Serial!vars
    BY <1>1, <1>12 DEF CommandExits
  <1>13. ASSUME NEW n \in 0..MaxRunning, FirstSignal(n) \/ TurnsChange(n) PROVE UNCHANGED Serial!vars
    BY <1>1, <1>13 DEF FirstSignal, TurnsChange
  <1>14. ASSUME SecondSignal \/ Finish \/ TransportEnds \/ Drained PROVE UNCHANGED Serial!vars
    BY <1>1, <1>14 DEF SecondSignal, Finish, TransportEnds, LeaveLoop, Drained
  <1> QED
    BY <1>2, <1>3, <1>5, <1>6, <1>7, <1>8, <1>10, <1>11, <1>12, <1>13, <1>14 DEF Next

\* The queues keep what SerialRequests promises: requests of one key that are
\* not both reads run one after the other in the order of their arrival,
\* whatever the batches, closing gates and racing enqueues
\* (RequestSerializationQueues, ConnectionRpcGate::run).
THEOREM Refinement == Spec => SerialOrder
  <1>1. Inv /\ [Next]_vars => [Serial!Next]_Serial!vars
    <2>1. UNCHANGED vars => UNCHANGED <<request, history>> /\ \A r \in Reqs : StatusOf(phase'[r]) = StatusOf(phase[r])
      BY DEF vars
    <2>2. UNCHANGED vars => UNCHANGED Serial!vars
      BY <2>1, SerialStutter
    <2> QED
      BY <2>2, SerialStep
  <1> QED
    BY Invariance, SerialInit, <1>1, PTL DEF Spec, SerialOrder, Serial!Spec

=============================================================================
