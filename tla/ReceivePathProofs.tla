-------------------------- MODULE ReceivePathProofs --------------------------
(***************************************************************************)
(* Proofs about ReceivePath, for any number of adapters, any streams of    *)
(* segments and any arrival order, signals and spurious wake-ups included. *)
(***************************************************************************)
EXTENDS ReceivePath, SegmentQueueProofs

(***************************************************************************)
(* A segment is in one place only: two receiver threads never hold the     *)
(* same one, and none that is in a hand, or still on the network, is in    *)
(* the queue.  The assertions of SegmentQueue::enqueue() follow from it.   *)
(***************************************************************************)
Holds(a, k, n) == pc[a] = "enqueue" /\ hand[a] = [kind |-> k, seq |-> n]

OnePlace ==
  \A k \in Kinds, n \in Nat :
    /\ n \in net[k] => n \notin Accepted(rq[k])
    /\ \A a \in Adapters :
         Holds(a, k, n) => /\ n \notin net[k]
                           /\ n \notin Accepted(rq[k])
                           /\ \A b \in Adapters : Holds(b, k, n) => a = b

IInv == TypeOK /\ QueuesInOrder /\ OnePlace

-----------------------------------------------------------------------------
\* In a state of IInv every hand holds a segment that the queue takes.
LEMMA HandsHold ==
  ASSUME IInv
  PROVE  AssertionsNeverFail
<1>. SUFFICES ASSUME NEW a \in Adapters, pc[a] = "enqueue"
              PROVE  AssertionsHold(rq[hand[a].kind], hand[a].seq)
  BY DEF AssertionsNeverFail
<1>. DEFINE k == hand[a].kind
            n == hand[a].seq
<1>1. k \in Kinds /\ n \in Nat /\ hand[a] = [kind |-> k, seq |-> n]
  BY DEF IInv, TypeOK, Segments
<1>2. rq[k] \in QueueType
  BY <1>1 DEF IInv, TypeOK, QueueType
<1>3. n \notin Accepted(rq[k])
  BY <1>1 DEF IInv, OnePlace, Holds
<1>. QED  BY <1>1, <1>2, <1>3, NotAccepted

\* A step by which no segment moves forward keeps OnePlace.
LEMMA NothingMoves ==
  ASSUME OnePlace,
         \A k \in Kinds : /\ net'[k] \subseteq net[k]
                          /\ Accepted(rq'[k]) = Accepted(rq[k]),
         \A a \in Adapters, k \in Kinds, n \in Nat :
           Holds(a, k, n)' => Holds(a, k, n)
  PROVE  OnePlace'
<1>. SUFFICES ASSUME NEW k \in Kinds, NEW n \in Nat
              PROVE  /\ n \in net'[k] => n \notin Accepted(rq'[k])
                     /\ \A a \in Adapters : Holds(a, k, n)' =>
                          /\ n \notin net'[k]
                          /\ n \notin Accepted(rq'[k])
                          /\ \A b \in Adapters : Holds(b, k, n)' => a = b
  BY DEF OnePlace
<1>1. n \in net'[k] => n \in net[k]
  OBVIOUS
<1>2. Accepted(rq'[k]) = Accepted(rq[k])
  OBVIOUS
<1>. QED  BY <1>1, <1>2, Zenon DEF OnePlace

\* At the start everything is on the network and the queues are empty.
LEMMA InitIInv ==
  ASSUME Init
  PROVE  IInv
<1>1. TypeOK
  <2>1. net \in [Kinds -> SUBSET Nat]
    <3>1. \A k \in Kinds : Total[k] \in Nat
      BY ConstantsAssumption
    <3>2. \A k \in Kinds : 0..(Total[k] - 1) \in SUBSET Nat
      BY <3>1
    <3>. QED  BY <3>2 DEF Init
  <2>2. rq \in [Kinds -> QueueType]
    <3>1. <<>> \in Seq(Nat)
      OBVIOUS
    <3>2. EmptyQueue \in QueueType
      BY <3>1 DEF EmptyQueue, QueueType
    <3>. QED  BY <3>2 DEF Init
  <2>3. hand \in [Adapters -> Segments]
    BY DEF Init, Segments, Kinds
  <2>4. /\ pc \in [Enqueuers -> {"loop", "enqueue", "wake", "clear", "ended"}]
        /\ cpc \in [Kinds -> {"dequeue", "waiting", "woken", "crashed",
                              "waitReceiving", "blocked", "disconnect"}]
        /\ errno \in [Adapters -> {"none", "EINTR"}]
        /\ signals \in Nat /\ isWait \in BOOLEAN
    BY DEF Init
  <2>6. waitSeq \in [Kinds -> 0..(UInt32Size - 1)]
    <3>1. 0 \in 0..(UInt32Size - 1)
      BY ConstantsAssumption
    <3>. QED  BY <3>1 DEF Init
  <2>5. buf \in [Kinds -> Seq(Nat)] /\ delivered \in [Kinds -> Seq(Seq(Nat))]
    BY DEF Init
  <2>. QED  BY <2>1, <2>2, <2>3, <2>4, <2>5, <2>6, Zenon DEF TypeOK, QueueType
<1>2. QueuesInOrder
  BY DEF Init, QueuesInOrder, EmptyQueue, MainContinuous, PendingInOrder
<1>3. OnePlace
  <2>1. \A k \in Kinds : Accepted(rq[k]) = {}
    BY DEF Init, EmptyQueue, Accepted, ToSet
  <2>2. \A a \in Adapters : pc[a] # "enqueue"
    BY DEF Init, Enqueuers
  <2>. QED  BY <2>1, <2>2 DEF OnePlace, Holds
<1>. QED  BY <1>1, <1>2, <1>3 DEF IInv

(***************************************************************************)
(* SegmentManager::enqueue() on a receive queue: the segment moves from    *)
(* the thread's hand to the queue.                                         *)
(***************************************************************************)
LEMMA EnqueueReceivedIInv ==
  ASSUME IInv, NEW a \in Adapters, EnqueueReceived(a)
  PROVE  IInv'
<1>. DEFINE k == hand[a].kind
            n == hand[a].seq
<1>1. /\ k \in Kinds /\ n \in Nat /\ hand[a] = [kind |-> k, seq |-> n]
      /\ pc[a] = "enqueue" /\ a \in Enqueuers
  BY DEF IInv, TypeOK, Segments, EnqueueReceived, Enqueuers
<1>2. InOrder(rq[k]) /\ AssertionsHold(rq[k], n)
  BY <1>1 DEF IInv, TypeOK, QueuesInOrder, InOrder, QueueType, EnqueueReceived
<1>3. /\ InOrder(Enqueue(rq[k], n))
      /\ Accepted(Enqueue(rq[k], n)) = Accepted(rq[k]) \cup {n}
  BY <1>1, <1>2, EnqueueInOrder
<1>4. rq' = [rq EXCEPT ![k] = Enqueue(rq[k], n)]
  BY DEF EnqueueReceived
<1>5. pc' \in [Enqueuers -> {"loop", "enqueue", "wake", "clear", "ended"}]
      /\ pc'[a] # "enqueue" /\ \A b \in Enqueuers : b # a => pc'[b] = pc[b]
  BY <1>1 DEF EnqueueReceived, AfterEnqueue, IInv, TypeOK
<1>6. UNCHANGED <<netVars, buf, delivered, waitVars>>
  BY DEF EnqueueReceived
<1>7. cpc' = cpc \/ cpc' = [cpc EXCEPT ![k] = "woken"]
  BY DEF EnqueueReceived
<1>. HIDE DEF k, n
<1>8. TypeOK'
  <2>1. rq' \in [Kinds -> QueueType]
    BY <1>1, <1>3, <1>4 DEF IInv, TypeOK, InOrder, QueueType
  <2>2. cpc' \in [Kinds -> {"dequeue", "waiting", "woken", "crashed",
                            "waitReceiving", "blocked", "disconnect"}]
    BY <1>1, <1>7 DEF IInv, TypeOK
  <2>. QED  BY <1>5, <1>6, <2>1, <2>2 DEF IInv, TypeOK, QueueType, netVars, waitVars
<1>9. QueuesInOrder'
  BY <1>1, <1>3, <1>4 DEF IInv, TypeOK, QueuesInOrder, InOrder
<1>10. OnePlace'
  <2>. SUFFICES ASSUME NEW l \in Kinds, NEW m \in Nat
                PROVE  /\ m \in net'[l] => m \notin Accepted(rq'[l])
                       /\ \A b \in Adapters : Holds(b, l, m)' =>
                            /\ m \notin net'[l]
                            /\ m \notin Accepted(rq'[l])
                            /\ \A c \in Adapters : Holds(c, l, m)' => b = c
    BY DEF OnePlace
  <2>1. net' = net /\ hand' = hand
    BY <1>6 DEF netVars
  <2>2. Holds(a, k, n)
    BY <1>1 DEF Holds
  <2>3. Accepted(rq'[l]) = Accepted(rq[l]) \/ l = k
    BY <1>4 DEF IInv, TypeOK
  <2>4. l = k => Accepted(rq'[l]) = Accepted(rq[k]) \cup {n}
    BY <1>1, <1>3, <1>4 DEF IInv, TypeOK
  <2>5. \A b \in Adapters : Holds(b, l, m)' => b # a /\ Holds(b, l, m)
    BY <1>5, <2>1 DEF Holds, Enqueuers
  <2>6. n \notin net[k] /\ \A b \in Adapters : Holds(b, k, n) => b = a
    BY <1>1, <2>2, Zenon DEF IInv, OnePlace
  <2>7. /\ m \in net[l] => m \notin Accepted(rq[l])
        /\ \A b \in Adapters : Holds(b, l, m) =>
             /\ m \notin net[l]
             /\ m \notin Accepted(rq[l])
             /\ \A c \in Adapters : Holds(c, l, m) => b = c
    BY Zenon DEF IInv, OnePlace
  <2>8. m \in Accepted(rq'[l]) => m \in Accepted(rq[l]) \/ (l = k /\ m = n)
    BY <2>3, <2>4
  <2>. QED  BY <2>1, <2>5, <2>6, <2>7, <2>8
<1>. QED  BY <1>8, <1>9, <1>10 DEF IInv

(***************************************************************************)
(* recv_from_segment_manager() takes a segment from the main list.         *)
(***************************************************************************)
LEMMA DequeueSegmentIInv ==
  ASSUME IInv, NEW k \in Kinds, DequeueSegment(k)
  PROVE  IInv'
<1>1. InOrder(rq[k]) /\ rq[k].main # <<>>
  BY DEF IInv, TypeOK, QueuesInOrder, InOrder, QueueType, DequeueSegment
<1>2. /\ InOrder(Dequeue(rq[k]))
      /\ Accepted(Dequeue(rq[k])) = Accepted(rq[k])
      /\ Head(rq[k].main) \in Nat
  BY <1>1, DequeueInOrder
<1>3. rq' = [rq EXCEPT ![k] = Dequeue(rq[k])] /\ UNCHANGED <<netVars, pc, waitVars>>
  BY DEF DequeueSegment, Take
<1>4. TypeOK'
  <2>1. rq' \in [Kinds -> QueueType]
    BY <1>2, <1>3 DEF IInv, TypeOK, InOrder, QueueType
  <2>. DEFINE n == Head(rq[k].main)
              message == Append(buf[k], n)
  <2>2. message \in Seq(Nat) /\ <<>> \in Seq(Nat)
    BY <1>2 DEF IInv, TypeOK
  <2>3. \/ delivered' = [delivered EXCEPT ![k] = Append(delivered[k], message)]
           /\ buf' = [buf EXCEPT ![k] = <<>>]
        \/ delivered' = delivered /\ buf' = [buf EXCEPT ![k] = message]
    BY DEF DequeueSegment, Take
  <2>4. cpc' = [cpc EXCEPT ![k] = "waitReceiving"]
        \/ cpc' = [cpc EXCEPT ![k] = "dequeue"]
    BY DEF DequeueSegment, Take
  <2>. HIDE DEF message
  <2>5. Append(delivered[k], message) \in Seq(Seq(Nat))
    BY <2>2 DEF IInv, TypeOK
  <2>6. delivered' \in [Kinds -> Seq(Seq(Nat))] /\ buf' \in [Kinds -> Seq(Nat)]
    <3>. DEFINE d == Append(delivered[k], message)
                M == Seq(Nat)
    <3>1. d \in Seq(M) /\ message \in M /\ <<>> \in M
          /\ delivered \in [Kinds -> Seq(M)] /\ buf \in [Kinds -> M]
      BY <2>2, <2>5 DEF IInv, TypeOK
    <3>2. \/ delivered' = [delivered EXCEPT ![k] = d]
             /\ buf' = [buf EXCEPT ![k] = <<>>]
          \/ delivered' = delivered /\ buf' = [buf EXCEPT ![k] = message]
      BY <2>3
    <3>. HIDE DEF d, M
    <3>3. delivered' \in [Kinds -> Seq(M)] /\ buf' \in [Kinds -> M]
      BY <3>1, <3>2
    <3>. QED  BY <3>3 DEF M
  <2>7. cpc' \in [Kinds -> {"dequeue", "waiting", "woken", "crashed",
                            "waitReceiving", "blocked", "disconnect"}]
    BY <2>4 DEF IInv, TypeOK
  <2>. QED  BY <1>3, <2>1, <2>6, <2>7, Zenon
            DEF IInv, TypeOK, QueueType, netVars, waitVars
<1>5. QueuesInOrder'
  BY <1>2, <1>3 DEF IInv, TypeOK, QueuesInOrder, InOrder
<1>6. OnePlace'
  <2>1. \A l \in Kinds : net'[l] \subseteq net[l]
                         /\ Accepted(rq'[l]) = Accepted(rq[l])
    BY <1>2, <1>3 DEF IInv, TypeOK, netVars
  <2>2. \A a \in Adapters, l \in Kinds, n \in Nat :
          Holds(a, l, n)' => Holds(a, l, n)
    BY <1>3 DEF Holds, netVars
  <2>. QED  BY <2>1, <2>2, NothingMoves DEF IInv
<1>. QED  BY <1>4, <1>5, <1>6 DEF IInv

(***************************************************************************)
(* A receiver thread reads a segment: it moves from the network to the     *)
(* thread's hand, or is thrown away because of a stale EINTR.              *)
(***************************************************************************)
LEMMA ReceiveSegmentIInv ==
  ASSUME IInv, NEW a \in Adapters, ReceiveSegment(a)
  PROVE  IInv'
<1>0. PICK k \in Kinds : \E n \in net[k] :
        /\ net' = [net EXCEPT ![k] = net[k] \ {n}]
        /\ \/ UNCHANGED <<hand, pc>>
           \/ /\ hand' = [hand EXCEPT ![a] = [kind |-> k, seq |-> n]]
              /\ pc' = [pc EXCEPT ![a] = "enqueue"]
  BY DEF ReceiveSegment
<1>1. PICK n \in net[k] :
        /\ net' = [net EXCEPT ![k] = net[k] \ {n}]
        /\ \/ UNCHANGED <<hand, pc>>
           \/ /\ hand' = [hand EXCEPT ![a] = [kind |-> k, seq |-> n]]
              /\ pc' = [pc EXCEPT ![a] = "enqueue"]
  BY <1>0
<1>2. /\ UNCHANGED <<errno, signals, rq, cpc, buf, delivered, waitVars>>
      /\ pc[a] = "loop" /\ a \in Enqueuers
  BY DEF ReceiveSegment, Enqueuers
<1>3. n \in Nat
  BY <1>1 DEF IInv, TypeOK
<1>4. TypeOK'
  <2>1. net' \in [Kinds -> SUBSET Nat]
    BY <1>1 DEF IInv, TypeOK
  <2>2. [kind |-> k, seq |-> n] \in Segments
    BY <1>3 DEF Segments
  <2>3. /\ hand' \in [Adapters -> Segments]
        /\ pc' \in [Enqueuers -> {"loop", "enqueue", "wake", "clear", "ended"}]
    BY <1>1, <1>2, <2>2 DEF IInv, TypeOK
  <2>. QED  BY <1>2, <2>1, <2>3, Zenon DEF IInv, TypeOK, waitVars
<1>5. QueuesInOrder'
  BY <1>2 DEF IInv, QueuesInOrder
<1>6. OnePlace'
  <2>. SUFFICES ASSUME NEW l \in Kinds, NEW m \in Nat
                PROVE  /\ m \in net'[l] => m \notin Accepted(rq'[l])
                       /\ \A b \in Adapters : Holds(b, l, m)' =>
                            /\ m \notin net'[l]
                            /\ m \notin Accepted(rq'[l])
                            /\ \A c \in Adapters : Holds(c, l, m)' => b = c
    BY DEF OnePlace
  <2>1. /\ m \in net'[l] => m \in net[l]
        /\ l = k /\ m = n => m \notin net'[l]
    BY <1>1 DEF IInv, TypeOK
  <2>2. \A b \in Adapters :
          Holds(b, l, m)' => Holds(b, l, m) \/ (b = a /\ l = k /\ m = n)
    BY <1>1, <1>2 DEF Holds, IInv, TypeOK, Enqueuers
  <2>3. /\ m \in net[l] => m \notin Accepted(rq[l])
        /\ \A b \in Adapters : Holds(b, l, m) =>
             /\ m \notin net[l]
             /\ m \notin Accepted(rq[l])
             /\ \A c \in Adapters : Holds(c, l, m) => b = c
    BY Zenon DEF IInv, OnePlace
  <2>4. rq' = rq /\ n \in net[k]
    BY <1>1, <1>2
  <2>. QED  BY <2>1, <2>2, <2>3, <2>4
<1>. QED  BY <1>4, <1>5, <1>6 DEF IInv

\* Steps that move no segment and change no queue.
LEMMA ControlStepIInv ==
  ASSUME IInv, TypeOK', UNCHANGED <<net, hand, rq>>,
         \A a \in Adapters : pc'[a] = "enqueue" => pc[a] = "enqueue"
  PROVE  IInv'
<1>1. QueuesInOrder'
  BY DEF IInv, QueuesInOrder
<1>2. \A a \in Adapters, k \in Kinds, n \in Nat :
        Holds(a, k, n)' => Holds(a, k, n)
  BY DEF Holds
<1>3. OnePlace'
  BY <1>2, NothingMoves DEF IInv
<1>. QED  BY <1>1, <1>3 DEF IInv

(***************************************************************************)
(* The inductive step of IInv, one case per action.                        *)
(***************************************************************************)
LEMMA NextIInv ==
  ASSUME IInv, [Next]_vars
  PROVE  IInv'
<1>. USE DEF Kinds, Enqueuers
<1>1. ASSUME NEW a \in Adapters, ReceiveSegment(a)
      PROVE  IInv'
  BY <1>1, ReceiveSegmentIInv
<1>2. ASSUME NEW a \in Adapters, ReceiveInterrupted(a)
      PROVE  IInv'
  <2>1. TypeOK'
    BY <1>2 DEF IInv, TypeOK, ReceiveInterrupted, waitVars
  <2>. QED  BY <1>2, <2>1, ControlStepIInv DEF ReceiveInterrupted
<1>3. ASSUME NEW a \in Adapters, ReceiveBroken(a)
      PROVE  IInv'
  <2>1. TypeOK'
    BY <1>3 DEF IInv, TypeOK, ReceiveBroken, netVars, waitVars
  <2>2. \A b \in Adapters : pc'[b] = "enqueue" => pc[b] = "enqueue"
    BY <1>3 DEF IInv, TypeOK, ReceiveBroken
  <2>. QED  BY <1>3, <2>1, <2>2, ControlStepIInv DEF ReceiveBroken, netVars
<1>4. ASSUME NEW a \in Adapters, EnqueueReceived(a)
      PROVE  IInv'
  BY <1>4, EnqueueReceivedIInv
<1>5. CASE EnqueueToSend
  <2>1. TypeOK'
    BY <1>5 DEF IInv, TypeOK, EnqueueToSend, AfterEnqueue, netVars, waitVars
  <2>2. \A b \in Adapters : pc'[b] = "enqueue" => pc[b] = "enqueue"
    BY <1>5 DEF IInv, TypeOK, EnqueueToSend, AfterEnqueue
  <2>. QED  BY <1>5, <2>1, <2>2, ControlStepIInv DEF EnqueueToSend, netVars
<1>6. ASSUME NEW t \in Enqueuers, NotifyReceivingDone(t)
      PROVE  IInv'
  <2>1. TypeOK'
    BY <1>6 DEF IInv, TypeOK, NotifyReceivingDone, netVars, waitVars
  <2>2. \A b \in Adapters : pc'[b] = "enqueue" => pc[b] = "enqueue"
    BY <1>6 DEF IInv, TypeOK, NotifyReceivingDone
  <2>. QED  BY <1>6, <2>1, <2>2, ControlStepIInv DEF NotifyReceivingDone, netVars
<1>7. ASSUME NEW t \in Enqueuers, ClearIsWaitReceiving(t)
      PROVE  IInv'
  <2>1. TypeOK'
    BY <1>7 DEF IInv, TypeOK, ClearIsWaitReceiving, netVars
  <2>2. \A b \in Adapters : pc'[b] = "enqueue" => pc[b] = "enqueue"
    BY <1>7 DEF IInv, TypeOK, ClearIsWaitReceiving
  <2>. QED  BY <1>7, <2>1, <2>2, ControlStepIInv DEF ClearIsWaitReceiving, netVars
<1>8. ASSUME NEW k \in Kinds, DequeueSegment(k)
      PROVE  IInv'
  BY <1>8, DequeueSegmentIInv
<1>9. ASSUME NEW k \in Kinds, WaitForDequeue(k) \/ DequeueNull(k) \/ SpuriousWakeup(k)
      PROVE  IInv'
  <2>1. TypeOK'
    <3>1. \E w \in {"dequeue", "waiting", "woken", "crashed"} :
            cpc' = [cpc EXCEPT ![k] = w]
      BY <1>9 DEF WaitForDequeue, DequeueNull, SpuriousWakeup
    <3>2. cpc' \in [Kinds -> {"dequeue", "waiting", "woken", "crashed",
                              "waitReceiving", "blocked", "disconnect"}]
      BY <3>1 DEF IInv, TypeOK
    <3>3. UNCHANGED <<net, hand, errno, pc, rq, buf, delivered, waitVars>>
      BY <1>9 DEF WaitForDequeue, DequeueNull, SpuriousWakeup, netVars
    <3>4. signals' \in Nat
      BY <1>9 DEF IInv, TypeOK, WaitForDequeue, DequeueNull, SpuriousWakeup, netVars
    <3>. QED  BY <3>2, <3>3, <3>4, Zenon DEF IInv, TypeOK, waitVars
  <2>2. UNCHANGED <<net, hand, rq, pc>>
    BY <1>9 DEF WaitForDequeue, DequeueNull, SpuriousWakeup, netVars
  <2>. QED  BY <2>1, <2>2, ControlStepIInv
<1>10. CASE WaitReceiving
  <2>1. \A k \in Kinds : FinalSeq(k) % UInt32Size \in 0..(UInt32Size - 1)
    BY ConstantsAssumption DEF FinalSeq
  <2>2. waitSeq' \in [Kinds -> 0..(UInt32Size - 1)]
    BY <1>10, <2>1 DEF WaitReceiving
  <2>3. isWait' \in BOOLEAN /\ UNCHANGED <<netVars, pc, rq, buf, delivered>>
    BY <1>10 DEF WaitReceiving
  <2>4. cpc' \in [Kinds -> {"dequeue", "waiting", "woken", "crashed",
                            "waitReceiving", "blocked", "disconnect"}]
    BY <1>10 DEF IInv, TypeOK, WaitReceiving
  <2>5. TypeOK'
    BY <2>2, <2>3, <2>4, Zenon DEF IInv, TypeOK, netVars
  <2>. QED  BY <2>3, <2>5, ControlStepIInv DEF netVars
<1>11. CASE SpuriousWaitReceiving
  <2>1. TypeOK'
    BY <1>11 DEF IInv, TypeOK, SpuriousWaitReceiving, waitVars
  <2>. QED  BY <1>11, <2>1, ControlStepIInv DEF SpuriousWaitReceiving
<1>12. CASE UNCHANGED vars
  <2>1. TypeOK'
    BY <1>12, Zenon DEF IInv, TypeOK, vars, netVars, waitVars
  <2>. QED  BY <1>12, <2>1, ControlStepIInv DEF vars, netVars
<1>. QED
  BY <1>1, <1>2, <1>3, <1>4, <1>5, <1>6, <1>7, <1>8, <1>9, <1>10, <1>11, <1>12
  DEF Next, Receiver, CheckDone, Consumer

-----------------------------------------------------------------------------
(***************************************************************************)
(* The inductive invariant holds in every reachable state.                 *)
(***************************************************************************)
THEOREM InductiveInvariant == Spec => []IInv
<1>1. Init => IInv
  BY InitIInv
<1>2. IInv /\ [Next]_vars => IInv'
  BY NextIInv
<1>. QED  BY <1>1, <1>2, PTL DEF Spec

(***************************************************************************)
(* Type correctness of the receive path: the queue operations, the state   *)
(* machines of the threads and wait_receiving() keep every variable in its *)
(* type.                                                                   *)
(***************************************************************************)
THEOREM TypeCorrect == Spec => []TypeOK
<1>1. IInv => TypeOK
  BY DEF IInv
<1>. QED  BY <1>1, InductiveInvariant, PTL

(***************************************************************************)
(* Whatever the adapters and the arrival order, SegmentQueue::enqueue()    *)
(* and dequeue() keep the main list without gaps and the pending list      *)
(* sorted and behind the gap (SegmentQueue.h:116-117).                     *)
(***************************************************************************)
THEOREM ReceiveQueuesInOrder == Spec => []QueuesInOrder
<1>1. IInv => QueuesInOrder
  BY DEF IInv
<1>. QED  BY <1>1, InductiveInvariant, PTL

(***************************************************************************)
(* As long as the peer hands each segment to one adapter once, no          *)
(* assertion of SegmentQueue::enqueue() aborts the process, however many   *)
(* receiver threads race for the queue.                                    *)
(***************************************************************************)
THEOREM ReceiveAssertionsHold == Spec => []AssertionsNeverFail
<1>1. IInv => AssertionsNeverFail
  BY HandsHold
<1>. QED  BY <1>1, InductiveInvariant, PTL

-----------------------------------------------------------------------------
(***************************************************************************)
(* Before the first signal no segment is thrown away: each one is on the   *)
(* network, in a hand or accepted by the queue.  errno has to be part of   *)
(* it, because receive_buffer() drops a segment when it is EINTR.          *)
(***************************************************************************)
Somewhere(k, n) ==
  n \in net[k] \/ n \in Accepted(rq[k]) \/ \E a \in Adapters : Holds(a, k, n)

NothingDropped ==
  signals = 0 =>
    /\ \A a \in Adapters : errno[a] = "none"
    /\ \A k \in Kinds, n \in Nat : n \in 0..(Total[k] - 1) <=> Somewhere(k, n)

(***************************************************************************)
(* wait_receiving() is called once; from then on the numbers it waits for  *)
(* stay, and whoever is about to wake it up has seen that the queues have  *)
(* got that far, which they do not lose again.                             *)
(***************************************************************************)
Waited == cpc["control"] \in {"blocked", "disconnect"}
FarEnough == \A k \in Kinds : rq[k].expected >= waitSeq[k]

WaitSound ==
  /\ isWait => Waited
  /\ Waited => \A k \in Kinds : waitSeq[k] = FinalSeq(k) % UInt32Size
  /\ \A t \in Enqueuers : pc[t] = "wake" => Waited /\ FarEnough
  /\ signals = 0 /\ cpc["control"] = "disconnect" => FarEnough

\* A step that moves no segment keeps NothingDropped.
LEMMA NothingDroppedStays ==
  ASSUME NothingDropped, signals' = signals, errno' = errno, net' = net,
         \A k \in Kinds : Accepted(rq'[k]) = Accepted(rq[k]),
         \A a \in Adapters, k \in Kinds, n \in Nat : Holds(a, k, n)' <=> Holds(a, k, n)
  PROVE  NothingDropped'
<1>1. \A k \in Kinds, n \in Nat : Somewhere(k, n)' <=> Somewhere(k, n)
  BY DEF Somewhere
<1>. QED  BY <1>1 DEF NothingDropped

\* A signal or a spurious wake-up ends what is promised.
LEMMA SignalEnds ==
  ASSUME TypeOK, signals' = signals + 1
  PROVE  NothingDropped'
<1>1. signals' # 0
  BY DEF TypeOK
<1>. QED  BY <1>1 DEF NothingDropped

\* A segment moves from the network to a hand.
LEMMA ReceivedIsHeld ==
  ASSUME IInv, NothingDropped, NEW a \in Adapters, ReceiveSegment(a)
  PROVE  NothingDropped'
<1>. SUFFICES ASSUME signals = 0
              PROVE  NothingDropped'
  BY DEF NothingDropped, ReceiveSegment
<1>1. /\ UNCHANGED <<signals, errno, rq>> /\ pc[a] = "loop" /\ errno[a] = "none"
      /\ a \in Enqueuers
  BY DEF ReceiveSegment, NothingDropped, Enqueuers
<1>. DEFINE Received(l, m) == /\ net' = [net EXCEPT ![l] = net[l] \ {m}]
                              /\ hand' = [hand EXCEPT ![a] = [kind |-> l, seq |-> m]]
                              /\ pc' = [pc EXCEPT ![a] = "enqueue"]
<1>. PICK k \in Kinds : \E m \in net[k] : Received(k, m)
  BY <1>1 DEF ReceiveSegment
<1>2. PICK n \in net[k] : Received(k, n)
  OBVIOUS
<1>3. ASSUME NEW l \in Kinds, NEW m \in Nat
      PROVE  Somewhere(l, m)' <=> Somewhere(l, m)
  <2>1. m \in net[l] <=> m \in net'[l] \/ (l = k /\ m = n)
    BY <1>2 DEF IInv, TypeOK
  <2>2. Holds(a, l, m)' <=> l = k /\ m = n
    BY <1>1, <1>2 DEF Holds, IInv, TypeOK
  <2>3. ~Holds(a, l, m)
    BY <1>1 DEF Holds
  <2>4. \A b \in Adapters : b # a => (Holds(b, l, m)' <=> Holds(b, l, m))
    BY <1>1, <1>2 DEF Holds, IInv, TypeOK, Enqueuers
  <2>. QED  BY <1>1, <2>1, <2>2, <2>3, <2>4 DEF Somewhere
<1>. QED  BY <1>1, <1>3 DEF NothingDropped

\* A segment moves from a hand to the queue.
LEMMA EnqueuedIsAccepted ==
  ASSUME IInv, NothingDropped, NEW a \in Adapters, EnqueueReceived(a)
  PROVE  NothingDropped' /\ \A l \in Kinds : rq'[l].expected >= rq[l].expected
<1>. DEFINE k == hand[a].kind
            n == hand[a].seq
<1>1. /\ k \in Kinds /\ n \in Nat /\ hand[a] = [kind |-> k, seq |-> n]
      /\ pc[a] = "enqueue" /\ a \in Enqueuers
  BY DEF IInv, TypeOK, Segments, EnqueueReceived, Enqueuers
<1>2. InOrder(rq[k]) /\ AssertionsHold(rq[k], n)
  BY <1>1 DEF IInv, TypeOK, QueuesInOrder, InOrder, QueueType, EnqueueReceived
<1>3. /\ Accepted(Enqueue(rq[k], n)) = Accepted(rq[k]) \cup {n}
      /\ Enqueue(rq[k], n).expected >= rq[k].expected
  BY <1>1, <1>2, EnqueueInOrder
<1>4. rq' = [rq EXCEPT ![k] = Enqueue(rq[k], n)] /\ UNCHANGED <<net, hand, errno, signals>>
  BY DEF EnqueueReceived, netVars
<1>5. pc'[a] # "enqueue" /\ \A b \in Enqueuers : b # a => pc'[b] = pc[b]
  BY <1>1 DEF EnqueueReceived, AfterEnqueue, IInv, TypeOK
<1>. HIDE DEF k, n
<1>6. rq \in [Kinds -> QueueType]
  BY DEF IInv, TypeOK, QueueType
<1>7. \A l \in Kinds : rq'[l] = IF l = k THEN Enqueue(rq[k], n) ELSE rq[l]
  BY <1>1, <1>4, <1>6
<1>8. ASSUME NEW l \in Kinds, NEW m \in Nat
      PROVE  Somewhere(l, m)' <=> Somewhere(l, m)
  <2>1. m \in Accepted(rq'[l]) <=> m \in Accepted(rq[l]) \/ (l = k /\ m = n)
    BY <1>3, <1>7
  <2>2. Holds(a, l, m) <=> l = k /\ m = n
    BY <1>1 DEF Holds
  <2>3. ~Holds(a, l, m)'
    BY <1>5 DEF Holds
  <2>4. \A b \in Adapters : b # a => (Holds(b, l, m)' <=> Holds(b, l, m))
    BY <1>4, <1>5 DEF Holds, Enqueuers
  <2>. QED  BY <1>4, <2>1, <2>2, <2>3, <2>4 DEF Somewhere
<1>9. NothingDropped'
  BY <1>4, <1>8 DEF NothingDropped
<1>10. ASSUME NEW l \in Kinds
       PROVE  rq'[l].expected >= rq[l].expected
  <2>1. rq[l].expected \in Nat
    BY <1>6 DEF QueueType
  <2>2. l # k => rq'[l].expected = rq[l].expected
    BY <1>7
  <2>3. l = k => rq'[l].expected = Enqueue(rq[k], n).expected
    BY <1>7
  <2>. QED  BY <1>3, <2>1, <2>2, <2>3
<1>. QED  BY <1>9, <1>10

\* Taking a segment from the main list leaves what the queue has accepted.
LEMMA TakenIsAccepted ==
  ASSUME IInv, NothingDropped, NEW k \in Kinds, DequeueSegment(k)
  PROVE  NothingDropped' /\ \A l \in Kinds : rq'[l].expected = rq[l].expected
<1>1. InOrder(rq[k]) /\ rq[k].main # <<>> /\ rq \in [Kinds -> QueueType]
  BY DEF IInv, TypeOK, QueuesInOrder, InOrder, QueueType, DequeueSegment
<1>2. /\ Accepted(Dequeue(rq[k])) = Accepted(rq[k])
      /\ Dequeue(rq[k]).expected = rq[k].expected
  BY <1>1, DequeueInOrder DEF Dequeue, QueueType
<1>3. /\ rq' = [rq EXCEPT ![k] = Dequeue(rq[k])]
      /\ UNCHANGED <<net, hand, errno, signals, pc>>
  BY DEF DequeueSegment, Take, netVars
<1>4. \A l \in Kinds : rq'[l] = IF l = k THEN Dequeue(rq[k]) ELSE rq[l]
  BY <1>1, <1>3
<1>5. NothingDropped'
  BY <1>2, <1>3, <1>4, NothingDroppedStays DEF Holds
<1>. QED  BY <1>2, <1>4, <1>5

-----------------------------------------------------------------------------
\* The queues never fall back behind a number they have reached.
LEMMA FarEnoughStays ==
  ASSUME TypeOK, TypeOK', FarEnough, waitSeq' = waitSeq,
         \A k \in Kinds : rq'[k].expected >= rq[k].expected
  PROVE  FarEnough'
<1>. SUFFICES ASSUME NEW k \in Kinds
              PROVE  rq'[k].expected >= waitSeq'[k]
  BY DEF FarEnough
<1>1. rq[k].expected \in Nat /\ rq'[k].expected \in Nat /\ waitSeq[k] \in Int
  BY ConstantsAssumption DEF TypeOK
<1>. QED  BY <1>1 DEF FarEnough

\* What is left to show of a step that leaves the numbers waited for alone.
LEMMA WaitSoundStep ==
  ASSUME TypeOK, TypeOK', WaitSound, waitSeq' = waitSeq,
         \A k \in Kinds : rq'[k].expected >= rq[k].expected,
         isWait' => isWait,
         Waited' <=> Waited,
         \A t \in Enqueuers : pc'[t] = "wake" => pc[t] = "wake" \/ (isWait /\ FarEnough'),
         signals' = 0 /\ cpc'["control"] = "disconnect" =>
           signals = 0 /\ (cpc["control"] = "disconnect" \/ FarEnough)
  PROVE  WaitSound'
<1>1. FarEnough => FarEnough'
  BY FarEnoughStays
<1>2. isWait' => Waited'
  BY DEF WaitSound
<1>3. Waited' => \A k \in Kinds : waitSeq'[k] = FinalSeq(k) % UInt32Size
  BY DEF WaitSound
<1>4. \A t \in Enqueuers : pc'[t] = "wake" => Waited' /\ FarEnough'
  BY <1>1 DEF WaitSound
<1>5. signals' = 0 /\ cpc'["control"] = "disconnect" => FarEnough'
  BY <1>1 DEF WaitSound
<1>. QED  BY <1>2, <1>3, <1>4, <1>5, Zenon DEF WaitSound

\* check_receiving_done() decides on the queues as they are then.
LEMMA AfterEnqueueWakes ==
  ASSUME TypeOK, NEW t \in Enqueuers, NEW q, q = rq', AfterEnqueue(t, q),
         waitSeq' = waitSeq
  PROVE  \A u \in Enqueuers : pc'[u] = "wake" => pc[u] = "wake" \/ (isWait /\ FarEnough')
<1>. SUFFICES ASSUME NEW u \in Enqueuers, pc'[u] = "wake", pc[u] # "wake"
              PROVE  isWait /\ FarEnough'
  OBVIOUS
<1>1. u = t /\ ReceivingDone(q)
  BY DEF AfterEnqueue, TypeOK
<1>. QED  BY <1>1 DEF ReceivingDone, FarEnough

DeliveryInv == IInv /\ NothingDropped /\ WaitSound

(***************************************************************************)
(* The inductive step of DeliveryInv, one case per action.                 *)
(***************************************************************************)
LEMMA NextDeliveryInv ==
  ASSUME DeliveryInv, [Next]_vars
  PROVE  DeliveryInv'
<1>1. IInv /\ NothingDropped /\ WaitSound
  BY DEF DeliveryInv
<1>2. IInv'
  BY <1>1, NextIInv
<1>3. TypeOK /\ TypeOK' /\ signals \in Nat /\ cpc \in [Kinds -> {"dequeue", "waiting",
        "woken", "crashed", "waitReceiving", "blocked", "disconnect"}]
      /\ pc \in [Enqueuers -> {"loop", "enqueue", "wake", "clear", "ended"}]
      /\ "control" \in Kinds
  BY <1>1, <1>2 DEF IInv, TypeOK, Kinds
<1>4. \A k \in Kinds : rq[k].expected \in Nat
  BY <1>3 DEF TypeOK
<1>. SUFFICES NothingDropped' /\ WaitSound'
  BY <1>2 DEF DeliveryInv
<1>5. ASSUME NEW a \in Adapters, ReceiveSegment(a)
      PROVE  NothingDropped' /\ WaitSound'
  <2>1. /\ UNCHANGED <<rq, cpc, isWait, waitSeq, signals>>
        /\ a \in Enqueuers /\ (pc' = pc \/ pc' = [pc EXCEPT ![a] = "enqueue"])
    BY <1>5 DEF ReceiveSegment, waitVars, Enqueuers
  <2>2. WaitSound'
    BY <1>1, <1>3, <1>4, <2>1, WaitSoundStep DEF Waited
  <2>. QED  BY <1>1, <1>5, <2>2, ReceivedIsHeld
<1>6. ASSUME NEW a \in Adapters, ReceiveInterrupted(a) \/ ReceiveBroken(a)
      PROVE  NothingDropped' /\ WaitSound'
  <2>1. /\ UNCHANGED <<net, hand, rq, cpc, isWait, waitSeq>>
        /\ signals' = signals + 1 \/ UNCHANGED <<signals, errno>>
        /\ a \in Enqueuers /\ pc[a] = "loop"
        /\ pc' = pc \/ pc' = [pc EXCEPT ![a] = "ended"]
    BY <1>6 DEF ReceiveInterrupted, ReceiveBroken, netVars, waitVars, Enqueuers
  <2>2. WaitSound'
    BY <1>1, <1>3, <1>4, <2>1, WaitSoundStep DEF Waited
  <2>3. NothingDropped'
    <3>1. \A b \in Adapters, k \in Kinds, n \in Nat : Holds(b, k, n)' <=> Holds(b, k, n)
      BY <1>3, <2>1 DEF Holds, Enqueuers
    <3>. QED  BY <1>1, <1>3, <2>1, <3>1, SignalEnds, NothingDroppedStays
  <2>. QED  BY <2>2, <2>3
<1>7. ASSUME NEW a \in Adapters, EnqueueReceived(a)
      PROVE  NothingDropped' /\ WaitSound'
  <2>1. NothingDropped' /\ \A l \in Kinds : rq'[l].expected >= rq[l].expected
    BY <1>1, <1>7, EnqueuedIsAccepted
  <2>2. /\ UNCHANGED <<signals, isWait, waitSeq>> /\ AfterEnqueue(a, rq') /\ a \in Enqueuers
        /\ \/ cpc' = cpc
           \/ cpc[hand[a].kind] = "waiting" /\ cpc' = [cpc EXCEPT ![hand[a].kind] = "woken"]
    BY <1>7 DEF EnqueueReceived, netVars, waitVars, Enqueuers
  <2>3. hand[a].kind \in Kinds
    BY <1>3 DEF TypeOK, Segments
  <2>4. /\ Waited' <=> Waited
        /\ cpc'["control"] = "disconnect" => cpc["control"] = "disconnect"
    BY <1>3, <2>2, <2>3 DEF Waited
  <2>5. \A u \in Enqueuers : pc'[u] = "wake" => pc[u] = "wake" \/ (isWait /\ FarEnough')
    BY <1>3, <2>2, AfterEnqueueWakes
  <2>6. WaitSound'
    BY <1>1, <1>3, <2>1, <2>2, <2>4, <2>5, WaitSoundStep
  <2>. QED  BY <2>1, <2>6
<1>8. CASE EnqueueToSend
  <2>1. /\ UNCHANGED <<net, hand, errno, signals, rq, cpc, isWait, waitSeq>>
        /\ AfterEnqueue(SendCaller, rq) /\ SendCaller \in Enqueuers
        /\ pc[SendCaller] = "loop"
    BY <1>8 DEF EnqueueToSend, netVars, waitVars, Enqueuers
  <2>2. \A u \in Enqueuers : pc'[u] = "wake" => pc[u] = "wake" \/ (isWait /\ FarEnough')
    BY <1>3, <2>1, AfterEnqueueWakes
  <2>3. WaitSound'
    BY <1>1, <1>3, <1>4, <2>1, <2>2, WaitSoundStep DEF Waited
  <2>4. \A b \in Adapters, k \in Kinds, n \in Nat : Holds(b, k, n)' <=> Holds(b, k, n)
    BY <1>3, <2>1 DEF Holds, Enqueuers, AfterEnqueue
  <2>. QED  BY <1>1, <2>1, <2>3, <2>4, NothingDroppedStays
<1>9. ASSUME NEW t \in Enqueuers, NotifyReceivingDone(t)
      PROVE  NothingDropped' /\ WaitSound'
  <2>1. /\ UNCHANGED <<net, hand, errno, signals, rq, isWait, waitSeq>> /\ pc[t] = "wake"
        /\ pc' = [pc EXCEPT ![t] = "clear"]
        /\ \/ cpc' = cpc
           \/ cpc["control"] = "blocked" /\ cpc' = [cpc EXCEPT !["control"] = "disconnect"]
    BY <1>9 DEF NotifyReceivingDone, netVars, waitVars
  <2>2. FarEnough
    BY <1>1, <2>1 DEF WaitSound
  <2>3. Waited' <=> Waited
    BY <1>3, <2>1 DEF Waited
  <2>4. WaitSound'
    BY <1>1, <1>3, <1>4, <2>1, <2>2, <2>3, WaitSoundStep
  <2>5. \A b \in Adapters, k \in Kinds, n \in Nat : Holds(b, k, n)' <=> Holds(b, k, n)
    BY <1>3, <2>1 DEF Holds, Enqueuers
  <2>. QED  BY <1>1, <2>1, <2>4, <2>5, NothingDroppedStays
<1>10. ASSUME NEW t \in Enqueuers, ClearIsWaitReceiving(t)
       PROVE  NothingDropped' /\ WaitSound'
  <2>1. /\ UNCHANGED <<net, hand, errno, signals, rq, cpc, waitSeq>> /\ pc[t] = "clear"
        /\ pc' = [pc EXCEPT ![t] = "loop"] /\ ~isWait'
    BY <1>10 DEF ClearIsWaitReceiving, netVars
  <2>2. WaitSound'
    BY <1>1, <1>3, <1>4, <2>1, WaitSoundStep DEF Waited
  <2>3. \A b \in Adapters, k \in Kinds, n \in Nat : Holds(b, k, n)' <=> Holds(b, k, n)
    BY <1>3, <2>1 DEF Holds, Enqueuers
  <2>. QED  BY <1>1, <2>1, <2>2, <2>3, NothingDroppedStays
<1>11. ASSUME NEW k \in Kinds, DequeueSegment(k)
       PROVE  NothingDropped' /\ WaitSound'
  <2>1. NothingDropped' /\ \A l \in Kinds : rq'[l].expected = rq[l].expected
    BY <1>1, <1>11, TakenIsAccepted
  <2>2. /\ UNCHANGED <<signals, pc, isWait, waitSeq>> /\ cpc[k] \in {"dequeue", "woken"}
        /\ \/ cpc' = [cpc EXCEPT ![k] = "waitReceiving"]
           \/ cpc' = [cpc EXCEPT ![k] = "dequeue"]
    BY <1>11 DEF DequeueSegment, Take, netVars, waitVars
  <2>3. /\ Waited' <=> Waited
        /\ cpc'["control"] = "disconnect" => cpc["control"] = "disconnect"
    BY <1>3, <2>2 DEF Waited
  <2>4. \A l \in Kinds : rq'[l].expected >= rq[l].expected
    BY <1>4, <2>1
  <2>5. WaitSound'
    BY <1>1, <1>3, <2>2, <2>3, <2>4, WaitSoundStep
  <2>. QED  BY <2>1, <2>5
<1>12. ASSUME NEW k \in Kinds, WaitForDequeue(k) \/ DequeueNull(k) \/ SpuriousWakeup(k)
       PROVE  NothingDropped' /\ WaitSound'
  <2>1. /\ UNCHANGED <<net, hand, rq, pc, isWait, waitSeq>>
        /\ signals' = signals + 1 \/ UNCHANGED <<signals, errno>>
        /\ cpc[k] \in {"dequeue", "woken", "waiting"}
        /\ \E w \in {"waiting", "dequeue", "crashed", "woken"} : cpc' = [cpc EXCEPT ![k] = w]
    BY <1>12 DEF WaitForDequeue, DequeueNull, SpuriousWakeup, netVars, waitVars
  <2>2. /\ Waited' <=> Waited
        /\ cpc'["control"] = "disconnect" => cpc["control"] = "disconnect"
    BY <1>3, <2>1 DEF Waited
  <2>3. signals' = 0 => signals = 0
    BY <1>3, <2>1
  <2>4. WaitSound'
    BY <1>1, <1>3, <1>4, <2>1, <2>2, <2>3, WaitSoundStep
  <2>5. \A b \in Adapters, l \in Kinds, n \in Nat : Holds(b, l, n)' <=> Holds(b, l, n)
    BY <2>1 DEF Holds
  <2>. QED  BY <1>1, <1>3, <2>1, <2>4, <2>5, SignalEnds, NothingDroppedStays
<1>13. CASE WaitReceiving
  <2>1. /\ UNCHANGED <<net, hand, errno, signals, pc, rq>> /\ cpc["control"] = "waitReceiving"
        /\ cpc' = [cpc EXCEPT !["control"] = "blocked"]
        /\ \A k \in Kinds : waitSeq'[k] = FinalSeq(k) % UInt32Size
    BY <1>13 DEF WaitReceiving, netVars
  <2>2. \A t \in Enqueuers : pc[t] # "wake"
    BY <1>1, <2>1 DEF WaitSound, Waited
  <2>3. cpc'["control"] = "blocked"
    BY <1>3, <2>1
  <2>4. WaitSound'
    BY <2>1, <2>2, <2>3 DEF WaitSound, Waited
  <2>5. \A b \in Adapters, k \in Kinds, n \in Nat : Holds(b, k, n)' <=> Holds(b, k, n)
    BY <2>1 DEF Holds
  <2>. QED  BY <1>1, <2>1, <2>4, <2>5, NothingDroppedStays
<1>14. CASE SpuriousWaitReceiving
  <2>1. /\ UNCHANGED <<net, hand, errno, pc, rq, isWait, waitSeq>>
        /\ signals' = signals + 1 /\ cpc["control"] = "blocked"
        /\ cpc' = [cpc EXCEPT !["control"] = "disconnect"]
    BY <1>14 DEF SpuriousWaitReceiving, waitVars
  <2>2. (Waited' <=> Waited) /\ signals' # 0
    BY <1>3, <2>1 DEF Waited
  <2>3. WaitSound'
    BY <1>1, <1>3, <1>4, <2>1, <2>2, WaitSoundStep
  <2>. QED  BY <1>3, <2>1, <2>3, SignalEnds
<1>15. CASE UNCHANGED vars
  <2>1. UNCHANGED <<net, hand, errno, signals, pc, rq, cpc, isWait, waitSeq>>
    BY <1>15 DEF vars, netVars, waitVars
  <2>2. WaitSound'
    BY <1>1, <1>3, <1>4, <2>1, WaitSoundStep DEF Waited
  <2>3. \A b \in Adapters, k \in Kinds, n \in Nat : Holds(b, k, n)' <=> Holds(b, k, n)
    BY <2>1 DEF Holds
  <2>. QED  BY <1>1, <2>1, <2>2, <2>3, NothingDroppedStays
<1>. QED
  BY <1>5, <1>6, <1>7, <1>8, <1>9, <1>10, <1>11, <1>12, <1>13, <1>14, <1>15
  DEF Next, Receiver, CheckDone, Consumer

\* At the start every segment is on the network and nobody waits.
LEMMA InitDeliveryInv ==
  ASSUME Init
  PROVE  DeliveryInv
<1>1. IInv
  BY InitIInv
<1>2. NothingDropped
  <2>1. \A a \in Adapters : errno[a] = "none"
    BY DEF Init
  <2>2. ASSUME NEW k \in Kinds, NEW n \in Nat
        PROVE  n \in 0..(Total[k] - 1) <=> Somewhere(k, n)
    <3>1. net[k] = 0..(Total[k] - 1)
      BY DEF Init
    <3>2. \A a \in Adapters : ~Holds(a, k, n)
      BY DEF Init, Holds, Enqueuers
    <3>3. rq[k] = EmptyQueue
      BY DEF Init
    <3>4. Accepted(EmptyQueue) = {}
      BY DEF Accepted, EmptyQueue, ToSet
    <3>. QED  BY <3>1, <3>2, <3>3, <3>4 DEF Somewhere
  <2>. QED  BY <2>1, <2>2 DEF NothingDropped
<1>3. WaitSound
  <2>1. cpc["control"] = "dequeue" /\ ~isWait /\ \A t \in Enqueuers : pc[t] = "loop"
    BY DEF Init, Kinds
  <2>. QED  BY <2>1 DEF WaitSound, Waited
<1>. QED  BY <1>1, <1>2, <1>3 DEF DeliveryInv

\* DeliveryInv is an invariant.
LEMMA DeliveryInvariant == Spec => []DeliveryInv
<1>1. Init => DeliveryInv
  BY InitDeliveryInv
<1>2. DeliveryInv /\ [Next]_vars => DeliveryInv'
  BY NextDeliveryInv
<1>. QED  BY <1>1, <1>2, PTL DEF Spec

(***************************************************************************)
(* As long as no signal interrupts a receiver thread, receive_buffer() and *)
(* enqueue() lose no segment: every segment the peer has sent is on the    *)
(* network, in a receiver thread's hand or accepted by its queue.          *)
(***************************************************************************)
THEOREM ReceiveDiscardsNothing == Spec => []NoSegmentDiscarded
<1>1. DeliveryInv => NoSegmentDiscarded
  <2>. SUFFICES ASSUME DeliveryInv, signals = 0, NEW k \in Kinds
                PROVE  0..(Total[k] - 1) = net[k] \cup InHand(k) \cup Accepted(rq[k])
    BY DEF NoSegmentDiscarded
  <2>1. /\ net[k] \subseteq Nat /\ hand \in [Adapters -> Segments]
        /\ rq[k] \in QueueType /\ Total[k] \in Nat
    BY ConstantsAssumption DEF DeliveryInv, IInv, TypeOK, QueueType
  <2>2. Accepted(rq[k]) \subseteq Nat
    <3>1. rq[k].expected \in Nat /\ rq[k].pending \in Seq(Nat)
      BY <2>1 DEF QueueType
    <3>2. ToSet(rq[k].pending) \subseteq Nat
      BY <3>1, ElementOf
    <3>. QED  BY <3>1, <3>2 DEF Accepted
  <2>3. \A n : n \in InHand(k) <=> n \in Nat /\ \E a \in Adapters : Holds(a, k, n)
    <3>1. \A a \in Adapters : hand[a].seq \in Nat
                              /\ hand[a] = [kind |-> hand[a].kind, seq |-> hand[a].seq]
      BY <2>1 DEF Segments
    <3>. QED  BY <3>1 DEF InHand, Holds
  <2>4. \A n \in Nat : n \in 0..(Total[k] - 1) <=> Somewhere(k, n)
    BY DEF DeliveryInv, NothingDropped
  <2>. QED  BY <2>1, <2>2, <2>3, <2>4 DEF Somewhere
<1>. QED  BY <1>1, DeliveryInvariant, PTL

(***************************************************************************)
(* disconnect_on_peer_command() does not disconnect before both streams    *)
(* have got to the numbers the peer announced, unless its wait returns     *)
(* spuriously: check_receiving_done() is raced by other enqueuing threads, *)
(* and clears mIsWaitReceiving in a later step than the one that reads it. *)
(***************************************************************************)
THEOREM DisconnectionWaitsForSegments == Spec => []RemainingSegmentsReceived
<1>1. DeliveryInv => RemainingSegmentsReceived
  <2>. SUFFICES ASSUME DeliveryInv, signals = 0, cpc["control"] = "disconnect",
                       NEW k \in Kinds
                PROVE  rq[k].expected >= FinalSeq(k)
    BY DEF RemainingSegmentsReceived
  <2>1. rq[k].expected >= FinalSeq(k) % UInt32Size
    BY DEF DeliveryInv, WaitSound, Waited, FarEnough
  <2>2. /\ FinalSeq(k) \in -1..(UInt32Size - 1) /\ UInt32Size \in Nat \ {0}
        /\ rq[k].expected \in Nat
    BY ConstantsAssumption DEF FinalSeq, DeliveryInv, IInv, TypeOK
  <2>3. FinalSeq(k) % UInt32Size >= FinalSeq(k)
    BY <2>2
  <2>. QED  BY <2>1, <2>2, <2>3
<1>. QED  BY <1>1, DeliveryInvariant, PTL
-----------------------------------------------------------------------------
(***************************************************************************)
(* ReceivePath implements OrderedDelivery: whatever the adapters, the      *)
(* arrival order, the signals and the spurious wake-ups do,                *)
(* recv_from_segment_manager() returns whole messages, in sequence order   *)
(* and once each.                                                          *)
(***************************************************************************)

\* Only segments that the peer sends are on the network and in hands.
InRange ==
  \A k \in Kinds :
    /\ net[k] \subseteq 0..(Total[k] - 1)
    /\ \A a \in Adapters, n \in Nat : Holds(a, k, n) => n \in 0..(Total[k] - 1)

\* Segment b[i] is the i-th one from number first, and ends no message.
Fragment(b, first, ends) ==
  \A i \in 1..Len(b) : b[i] = first + i - 1 /\ b[i] \notin ends

(***************************************************************************)
(* The buffer of a consumer holds the segments between the last message it *)
(* returned and the head of the queue, and no end of a message.            *)
(***************************************************************************)
Buffered ==
  \A k \in Kinds :
    /\ Channel!NextSeq(delivered[k]) \in Nat
    /\ Taken(rq[k]) = Channel!NextSeq(delivered[k]) + Len(buf[k])
    /\ Fragment(buf[k], Channel!NextSeq(delivered[k]), Ends[k])

RInv == IInv /\ InRange /\ Buffered

-----------------------------------------------------------------------------
\* A message is what the loop of recv_from_segment_manager() has appended.
LEMMA AppendedMessage ==
  ASSUME NEW b \in Seq(Nat), NEW first \in Nat, NEW ends,
         Fragment(b, first, ends)
  PROVE  Append(b, first + Len(b)) = Channel!Message(first, first + Len(b))
<1>. DEFINE n == first + Len(b)
            m == Append(b, n)
<1>1. Len(b) \in Nat /\ n \in Nat /\ n - first + 1 = Len(b) + 1
  OBVIOUS
<1>2. /\ m \in Seq(Nat) /\ Len(m) = Len(b) + 1
      /\ m = [i \in 1..(Len(b) + 1) |-> m[i]]
  BY <1>1
<1>3. ASSUME NEW i \in 1..(Len(b) + 1)
      PROVE  m[i] = first + i - 1
  <2>1. CASE i \in 1..Len(b)
    <3>1. m[i] = b[i]
      BY <2>1, <1>1
    <3>. QED  BY <3>1, <2>1 DEF Fragment
  <2>2. CASE i = Len(b) + 1
    BY <2>2, <1>1
  <2>. QED  BY <2>1, <2>2, <1>1
<1>4. Channel!Message(first, n) = [i \in 1..(Len(b) + 1) |-> first + i - 1]
  BY <1>1 DEF Channel!Message
<1>. HIDE DEF m, n
<1>5. m = [i \in 1..(Len(b) + 1) |-> first + i - 1]
  BY <1>2, <1>3
<1>. QED  BY <1>4, <1>5 DEF m, n

\* The number after an appended message.
LEMMA NextAfter ==
  ASSUME NEW d \in Seq(Seq(Nat)), NEW b \in Seq(Nat), NEW n \in Nat
  PROVE  Channel!NextSeq(Append(d, Append(b, n))) = n + 1
<1>. DEFINE m == Append(b, n)
            e == Append(d, m)
<1>1. m \in Seq(Nat) /\ m[Len(m)] = n
  OBVIOUS
<1>. HIDE DEF m
<1>2. Len(e) = Len(d) + 1 /\ e[Len(e)] = m /\ e # <<>>
  BY <1>1
<1>. HIDE DEF e
<1>3. Channel!NextSeq(e) = m[Len(m)] + 1
  BY <1>2 DEF Channel!NextSeq
<1>. QED  BY <1>1, <1>3 DEF e, m

-----------------------------------------------------------------------------
\* The empty queues are the empty channel.
LEMMA InitRefines ==
  ASSUME Init
  PROVE  RInv /\ Channel!Init
<1>1. IInv
  BY InitIInv
<1>2. \A a \in Adapters : pc[a] # "enqueue"
  BY DEF Init, Enqueuers
<1>3. InRange
  BY <1>2 DEF InRange, Holds, Init
<1>4. \A k \in Kinds : delivered[k] = <<>> /\ buf[k] = <<>> /\ rq[k] = EmptyQueue
  BY DEF Init
<1>5. Buffered
  <2>1. Channel!NextSeq(<<>>) = 0
    BY DEF Channel!NextSeq
  <2>2. Taken(EmptyQueue) = 0 /\ \A k \in Kinds : Fragment(<<>>, 0, Ends[k])
    BY DEF Taken, EmptyQueue, Fragment
  <2>. QED  BY <1>4, <2>1, <2>2 DEF Buffered
<1>6. Accepted(EmptyQueue) = {}
  BY DEF Accepted, EmptyQueue, ToSet
<1>7. Channel!Init
  <2>1. [k \in Kinds |-> Accepted(rq[k])] = [k \in Kinds |-> {}]
    BY <1>4, <1>6
  <2>2. delivered = [k \in Kinds |-> <<>>]
    BY DEF Init
  <2>. QED  BY <2>1, <2>2 DEF Channel!Init
<1>. QED  BY <1>1, <1>3, <1>5, <1>7 DEF RInv

-----------------------------------------------------------------------------
\* A step that changes neither a queue nor what a consumer has is a stutter.
LEMMA StutterRefines ==
  ASSUME RInv, UNCHANGED <<rq, buf, delivered>>
  PROVE  Buffered' /\ UNCHANGED Channel!vars
BY DEF RInv, Buffered, Channel!vars, Channel!NextSeq

\* A step that hands out no segment keeps InRange.
LEMMA NothingReceived ==
  ASSUME RInv, UNCHANGED <<net, hand>>,
         \A a \in Adapters : pc'[a] = "enqueue" => pc[a] = "enqueue"
  PROVE  InRange'
<1>1. \A a \in Adapters, k \in Kinds, n \in Nat :
        Holds(a, k, n)' => Holds(a, k, n)
  BY DEF Holds
<1>2. net' = net
  OBVIOUS
<1>. QED  BY <1>1, <1>2 DEF RInv, InRange

(***************************************************************************)
(* enqueue() is the arrival of its segment.                                *)
(***************************************************************************)
LEMMA EnqueueReceivedRefines ==
  ASSUME RInv, NEW a \in Adapters, EnqueueReceived(a)
  PROVE  InRange' /\ Buffered' /\ Channel!Next
<1>. DEFINE k == hand[a].kind
            n == hand[a].seq
<1>1. /\ k \in Kinds /\ n \in Nat /\ hand[a] = [kind |-> k, seq |-> n]
      /\ pc[a] = "enqueue" /\ a \in Enqueuers
  BY DEF RInv, IInv, TypeOK, Segments, EnqueueReceived, Enqueuers
<1>2. Holds(a, k, n)
  BY <1>1 DEF Holds
<1>3. n \in 0..(Total[k] - 1) /\ n \notin Accepted(rq[k])
  BY <1>1, <1>2, Zenon DEF RInv, InRange, IInv, OnePlace
<1>4. InOrder(rq[k]) /\ AssertionsHold(rq[k], n)
  BY <1>1 DEF RInv, IInv, TypeOK, QueuesInOrder, InOrder, QueueType, EnqueueReceived
<1>5. /\ Accepted(Enqueue(rq[k], n)) = Accepted(rq[k]) \cup {n}
      /\ Taken(Enqueue(rq[k], n)) = Taken(rq[k])
  BY <1>1, <1>4, EnqueueInOrder
<1>6. /\ rq' = [rq EXCEPT ![k] = Enqueue(rq[k], n)]
      /\ UNCHANGED <<net, hand, buf, delivered>>
  BY DEF EnqueueReceived, netVars
<1>7. \A b \in Adapters : pc'[b] = "enqueue" => pc[b] = "enqueue"
  BY <1>1 DEF EnqueueReceived, AfterEnqueue, RInv, IInv, TypeOK, Enqueuers
<1>8. rq \in [Kinds -> QueueType]
  BY DEF RInv, IInv, TypeOK, QueueType
<1>. HIDE DEF k, n
<1>9. InRange'
  BY <1>6, <1>7, NothingReceived
<1>10. Buffered'
  <2>1. \A l \in Kinds : Taken(rq'[l]) = Taken(rq[l])
    BY <1>1, <1>5, <1>6, <1>8
  <2>2. buf' = buf /\ delivered' = delivered
    BY <1>6
  <2>. QED  BY <2>1, <2>2 DEF RInv, Buffered, Channel!NextSeq
<1>11. Channel!Next
  <2>. DEFINE f == [l \in Kinds |-> Accepted(rq[l])]
              g == [l \in Kinds |-> Accepted(rq'[l])]
  <2>1. \A l \in Kinds : Accepted(rq'[l]) =
           IF l = k THEN Accepted(rq[l]) \cup {n} ELSE Accepted(rq[l])
    BY <1>1, <1>5, <1>6, <1>8
  <2>2. g = [f EXCEPT ![k] = f[k] \cup {n}]
    BY <1>1, <2>1
  <2>3. n \notin f[k] /\ UNCHANGED delivered
    BY <1>1, <1>3, <1>6
  <2>4. Channel!Arrive(k, n)
    BY <2>2, <2>3 DEF Channel!Arrive
  <2>. QED  BY <1>1, <1>3, <2>4 DEF Channel!Next
<1>. QED  BY <1>9, <1>10, <1>11

(***************************************************************************)
(* Taking the segment that ends a message is its delivery; taking another  *)
(* one is a stutter.                                                       *)
(***************************************************************************)
LEMMA DequeueSegmentRefines ==
  ASSUME RInv, NEW k \in Kinds, DequeueSegment(k)
  PROVE  InRange' /\ Buffered' /\ (Channel!Next \/ UNCHANGED Channel!vars)
<1>. DEFINE n == Head(rq[k].main)
            first == Channel!NextSeq(delivered[k])
            b == buf[k]
<1>1. InOrder(rq[k]) /\ rq[k].main # <<>>
  BY DEF RInv, IInv, TypeOK, QueuesInOrder, InOrder, QueueType, DequeueSegment
<1>2. /\ Accepted(Dequeue(rq[k])) = Accepted(rq[k])
      /\ n \in Nat /\ n = Taken(rq[k])
      /\ Taken(Dequeue(rq[k])) = Taken(rq[k]) + 1
      /\ Taken(rq[k]) < rq[k].expected
  BY <1>1, DequeueInOrder
<1>3. rq' = [rq EXCEPT ![k] = Dequeue(rq[k])] /\ UNCHANGED <<net, hand, pc>>
  BY DEF DequeueSegment, Take, netVars
<1>4. rq \in [Kinds -> QueueType] /\ b \in Seq(Nat) /\ delivered[k] \in Seq(Seq(Nat))
  BY DEF RInv, IInv, TypeOK, QueueType
<1>5. /\ first \in Nat
      /\ n = first + Len(b)
      /\ Fragment(b, first, Ends[k])
  BY <1>2 DEF RInv, Buffered
<1>6. \/ /\ n \in Ends[k]
         /\ delivered' = [delivered EXCEPT ![k] = Append(delivered[k], Append(b, n))]
         /\ buf' = [buf EXCEPT ![k] = <<>>]
      \/ /\ n \notin Ends[k]
         /\ delivered' = delivered
         /\ buf' = [buf EXCEPT ![k] = Append(b, n)]
  BY DEF DequeueSegment, Take
<1>7. /\ delivered \in [Kinds -> Seq(Seq(Nat))] /\ buf \in [Kinds -> Seq(Nat)]
      /\ rq[k].expected \in Nat /\ Len(b) \in Nat
  BY <1>4 DEF RInv, IInv, TypeOK, QueueType
<1>8. Taken(rq'[k]) = n + 1 /\ \A l \in Kinds : l # k => rq'[l] = rq[l]
  BY <1>2, <1>3, <1>4
<1>9. \A l \in Kinds : l # k => delivered'[l] = delivered[l] /\ buf'[l] = buf[l]
  BY <1>6, <1>7
<1>10. \A l \in Kinds : l # k =>
         /\ Channel!NextSeq(delivered'[l]) \in Nat
         /\ Taken(rq'[l]) = Channel!NextSeq(delivered'[l]) + Len(buf'[l])
         /\ Fragment(buf'[l], Channel!NextSeq(delivered'[l]), Ends[l])
  BY <1>8, <1>9 DEF RInv, Buffered
<1>11. InRange'
  BY <1>3, NothingReceived
<1>12. [l \in Kinds |-> Accepted(rq'[l])] = [l \in Kinds |-> Accepted(rq[l])]
  BY <1>2, <1>3, <1>4
<1>. HIDE DEF n, first, b
<1>13. CASE n \in Ends[k]
  <2>1. /\ delivered' = [delivered EXCEPT ![k] = Append(delivered[k], Append(b, n))]
        /\ buf' = [buf EXCEPT ![k] = <<>>]
    BY <1>6, <1>13
  <2>2. delivered'[k] = Append(delivered[k], Append(b, n)) /\ buf'[k] = <<>>
    BY <2>1, <1>7
  <2>3. Channel!NextSeq(delivered'[k]) = n + 1
    BY <2>2, <1>2, <1>4, NextAfter
  <2>4. Buffered'
    <3>1. Fragment(<<>>, n + 1, Ends[k]) /\ Len(<<>>) = 0
      BY DEF Fragment
    <3>2. /\ Channel!NextSeq(delivered'[k]) \in Nat
          /\ Taken(rq'[k]) = Channel!NextSeq(delivered'[k]) + Len(buf'[k])
          /\ Fragment(buf'[k], Channel!NextSeq(delivered'[k]), Ends[k])
      BY <2>2, <2>3, <3>1, <1>2, <1>8
    <3>3. \A l \in Kinds :
            /\ Channel!NextSeq(delivered'[l]) \in Nat
            /\ Taken(rq'[l]) = Channel!NextSeq(delivered'[l]) + Len(buf'[l])
            /\ Fragment(buf'[l], Channel!NextSeq(delivered'[l]), Ends[l])
      BY <3>2, <1>10
    <3>. QED  BY <3>3 DEF Buffered, Channel!NextSeq
  <2>5. Append(b, n) = Channel!Message(first, n)
    BY <1>4, <1>5, AppendedMessage
  <2>6. n >= first /\ first..n \subseteq Accepted(rq[k])
    <3>1. n >= first /\ first..n \subseteq 0..(rq[k].expected - 1)
      BY <1>2, <1>5, <1>7
    <3>. QED  BY <3>1 DEF Accepted
  <2>7. first..n \cap Ends[k] = {n}
    <3>1. ASSUME NEW x \in first..n, x # n
          PROVE  x \notin Ends[k]
      <4>1. x - first + 1 \in 1..Len(b) /\ first + (x - first + 1) - 1 = x
        BY <3>1, <1>5, <1>7, <1>2
      <4>2. b[x - first + 1] = x
        BY <4>1, <1>5 DEF Fragment
      <4>. QED  BY <4>1, <4>2, <1>5 DEF Fragment
    <3>2. n \in first..n
      BY <1>2, <1>5, <2>6
    <3>. QED  BY <3>1, <3>2, <1>13
  <2>8. Channel!Deliver(k, n)
    <3>1. [l \in Kinds |-> Accepted(rq[l])][k] = Accepted(rq[k])
      OBVIOUS
    <3>2. delivered' = [delivered EXCEPT ![k] =
                          Append(delivered[k], Channel!Message(first, n))]
      BY <2>1, <2>5
    <3>. QED  BY <2>6, <2>7, <3>1, <3>2, <1>12 DEF Channel!Deliver, first
  <2>9. Channel!Next
    BY <2>8, <1>13 DEF Channel!Next
  <2>. QED  BY <2>4, <2>9, <1>11
<1>14. CASE n \notin Ends[k]
  <2>1. delivered' = delivered /\ buf' = [buf EXCEPT ![k] = Append(b, n)]
    BY <1>6, <1>14
  <2>2. buf'[k] = Append(b, n) /\ delivered'[k] = delivered[k]
    BY <2>1, <1>7
  <2>3. Len(Append(b, n)) = Len(b) + 1
    BY <1>2, <1>4
  <2>4. Fragment(Append(b, n), first, Ends[k])
    <3>. SUFFICES ASSUME NEW i \in 1..(Len(b) + 1)
                  PROVE  /\ Append(b, n)[i] = first + i - 1
                         /\ Append(b, n)[i] \notin Ends[k]
      BY <2>3 DEF Fragment
    <3>1. CASE i \in 1..Len(b)
      <4>1. Append(b, n)[i] = b[i]
        BY <3>1, <1>2, <1>4
      <4>. QED  BY <4>1, <3>1, <1>5 DEF Fragment
    <3>2. CASE i = Len(b) + 1
      <4>1. Append(b, n)[i] = n
        BY <3>2, <1>2, <1>4
      <4>2. first + i - 1 = n
        BY <3>2, <1>5, <1>7
      <4>. QED  BY <4>1, <4>2, <1>14
    <3>. QED  BY <3>1, <3>2, <1>7
  <2>5. Buffered'
    <3>1. Channel!NextSeq(delivered'[k]) = first
      BY <2>2 DEF first
    <3>2. /\ Channel!NextSeq(delivered'[k]) \in Nat
          /\ Taken(rq'[k]) = Channel!NextSeq(delivered'[k]) + Len(buf'[k])
          /\ Fragment(buf'[k], Channel!NextSeq(delivered'[k]), Ends[k])
      BY <2>2, <2>3, <2>4, <3>1, <1>5, <1>7, <1>8
    <3>3. \A l \in Kinds :
            /\ Channel!NextSeq(delivered'[l]) \in Nat
            /\ Taken(rq'[l]) = Channel!NextSeq(delivered'[l]) + Len(buf'[l])
            /\ Fragment(buf'[l], Channel!NextSeq(delivered'[l]), Ends[l])
      BY <3>2, <1>10
    <3>. QED  BY <3>3 DEF Buffered, Channel!NextSeq
  <2>6. UNCHANGED Channel!vars
    BY <2>1, <1>12 DEF Channel!vars
  <2>. QED  BY <2>5, <2>6, <1>11
<1>. QED  BY <1>13, <1>14

(***************************************************************************)
(* A receiver thread takes a segment from the network.                     *)
(***************************************************************************)
LEMMA ReceiveSegmentRefines ==
  ASSUME RInv, NEW a \in Adapters, ReceiveSegment(a)
  PROVE  InRange' /\ Buffered' /\ UNCHANGED Channel!vars
<1>1. PICK k \in Kinds : \E n \in net[k] :
        /\ net' = [net EXCEPT ![k] = net[k] \ {n}]
        /\ \/ UNCHANGED <<hand, pc>>
           \/ /\ hand' = [hand EXCEPT ![a] = [kind |-> k, seq |-> n]]
              /\ pc' = [pc EXCEPT ![a] = "enqueue"]
  BY DEF ReceiveSegment
<1>2. PICK n \in net[k] :
        /\ net' = [net EXCEPT ![k] = net[k] \ {n}]
        /\ \/ UNCHANGED <<hand, pc>>
           \/ /\ hand' = [hand EXCEPT ![a] = [kind |-> k, seq |-> n]]
              /\ pc' = [pc EXCEPT ![a] = "enqueue"]
  BY <1>1
<1>3. Buffered' /\ UNCHANGED Channel!vars
  BY StutterRefines DEF ReceiveSegment
<1>4. \A l \in Kinds : net'[l] \subseteq net[l]
  BY <1>2 DEF RInv, IInv, TypeOK
<1>5. n \in 0..(Total[k] - 1)
  BY <1>2 DEF RInv, InRange
<1>6. \A c \in Adapters, l \in Kinds, m \in Nat :
        Holds(c, l, m)' => Holds(c, l, m) \/ (l = k /\ m = n)
  <2>. SUFFICES ASSUME NEW c \in Adapters, NEW l \in Kinds, NEW m \in Nat,
                       Holds(c, l, m)', ~Holds(c, l, m)
                PROVE  l = k /\ m = n
    OBVIOUS
  <2>1. pc'[c] = "enqueue" /\ hand'[c] = [kind |-> l, seq |-> m]
    BY DEF Holds
  <2>2. ~UNCHANGED <<hand, pc>>
    BY <2>1 DEF Holds
  <2>3. /\ hand' = [hand EXCEPT ![a] = [kind |-> k, seq |-> n]]
        /\ pc' = [pc EXCEPT ![a] = "enqueue"]
    BY <1>2, <2>2
  <2>4. DOMAIN hand = Adapters /\ DOMAIN pc = Enqueuers /\ c \in Enqueuers
    BY DEF RInv, IInv, TypeOK, Enqueuers
  <2>5. CASE c = a
    BY <2>1, <2>3, <2>4, <2>5
  <2>6. CASE c # a
    BY <2>1, <2>3, <2>4, <2>6 DEF Holds
  <2>. QED  BY <2>5, <2>6
<1>7. InRange'
  BY <1>4, <1>5, <1>6 DEF RInv, InRange
<1>. QED  BY <1>3, <1>7
-----------------------------------------------------------------------------
(***************************************************************************)
(* Every other step keeps the queues, the buffers and the messages, and    *)
(* hands out no segment.                                                   *)
(***************************************************************************)
LEMMA OtherStepsRefine ==
  ASSUME RInv,
         \/ \E a \in Adapters : ReceiveInterrupted(a) \/ ReceiveBroken(a)
         \/ EnqueueToSend
         \/ \E t \in Enqueuers : CheckDone(t)
         \/ \E k \in Kinds : WaitForDequeue(k) \/ DequeueNull(k)
                             \/ SpuriousWakeup(k)
         \/ WaitReceiving
         \/ SpuriousWaitReceiving
         \/ UNCHANGED vars
  PROVE  InRange' /\ Buffered' /\ UNCHANGED Channel!vars
<1>1. UNCHANGED <<rq, buf, delivered>> /\ UNCHANGED <<net, hand>>
  BY DEF ReceiveInterrupted, ReceiveBroken, EnqueueToSend, CheckDone,
         NotifyReceivingDone, ClearIsWaitReceiving, WaitForDequeue,
         DequeueNull, SpuriousWakeup, WaitReceiving, SpuriousWaitReceiving,
         netVars, vars
<1>2. \/ pc' = pc
      \/ \E t \in Enqueuers, v \in {"loop", "wake", "clear", "ended"} :
           pc' = [pc EXCEPT ![t] = v]
  BY DEF ReceiveInterrupted, ReceiveBroken, EnqueueToSend, CheckDone,
         NotifyReceivingDone, ClearIsWaitReceiving, WaitForDequeue,
         DequeueNull, SpuriousWakeup, WaitReceiving, SpuriousWaitReceiving,
         AfterEnqueue, Enqueuers, vars
<1>3. DOMAIN pc = Enqueuers
  BY DEF RInv, IInv, TypeOK
<1>4. \A a \in Adapters : pc'[a] = "enqueue" => pc[a] = "enqueue"
  BY <1>2, <1>3 DEF Enqueuers
<1>. QED  BY <1>1, <1>4, StutterRefines, NothingReceived

\* Every step of the receive path is a step of the channel or none.
LEMMA StepRefines ==
  ASSUME RInv, [Next]_vars
  PROVE  RInv' /\ [Channel!Next]_(Channel!vars)
<1>1. IInv'
  BY NextIInv DEF RInv
<1>2. SUFFICES InRange' /\ Buffered' /\ [Channel!Next]_(Channel!vars)
  BY <1>1 DEF RInv
<1>3. CASE \E a \in Adapters : EnqueueReceived(a)
  BY <1>3, EnqueueReceivedRefines
<1>4. CASE \E k \in Kinds : DequeueSegment(k)
  BY <1>4, DequeueSegmentRefines
<1>5. CASE \E a \in Adapters : ReceiveSegment(a)
  BY <1>5, ReceiveSegmentRefines
<1>6. CASE \/ \E a \in Adapters : ReceiveInterrupted(a) \/ ReceiveBroken(a)
           \/ EnqueueToSend
           \/ \E t \in Enqueuers : CheckDone(t)
           \/ \E k \in Kinds : WaitForDequeue(k) \/ DequeueNull(k)
                               \/ SpuriousWakeup(k)
           \/ WaitReceiving
           \/ SpuriousWaitReceiving
           \/ UNCHANGED vars
  BY <1>6, OtherStepsRefine
<1>. QED  BY <1>3, <1>4, <1>5, <1>6 DEF Next, Receiver, Consumer

(***************************************************************************)
(* For every number of adapters, every length of the two streams, every    *)
(* split into messages, and with any signals and spurious wake-ups: what   *)
(* recv_from_segment_manager() returns is a behaviour of OrderedDelivery,  *)
(* messages whole, in sequence order and once each.                        *)
(***************************************************************************)
THEOREM ReceivePathIsOrderedChannel == Spec => IsOrderedChannel
<1>1. Init => RInv /\ Channel!Init
  BY InitRefines
<1>2. RInv /\ [Next]_vars => RInv' /\ [Channel!Next]_(Channel!vars)
  BY StepRefines
<1>. QED  BY <1>1, <1>2, PTL DEF Spec, IsOrderedChannel, Channel!Spec
=============================================================================
