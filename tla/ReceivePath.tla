----------------------------- MODULE ReceivePath -----------------------------
(***************************************************************************)
(* The receiving half of the Linux side: one ReceiverThread per adapter    *)
(* fills the two receive queues of the SegmentManager, and one consumer    *)
(* per queue reassembles messages in recv_from_segment_manager(): the      *)
(* application thread for data, the ControlMessageReceiver thread for      *)
(* control.  The control consumer also runs the wait of                    *)
(* disconnect_on_peer_command() when it meets a Disconnect message.        *)
(*                                                                         *)
(* The peer hands every segment to some adapter once.  As it may send a    *)
(* failed segment again after later ones, and by another adapter, the      *)
(* segments reach the receiver threads in any order.  A step of the model  *)
(* is a region under one mutex, or one system call.  A condition variable  *)
(* is the set of threads whose pc is "waiting"; a notified thread has to   *)
(* get the mutex again before it continues.                                *)
(***************************************************************************)
EXTENDS SegmentQueue, FiniteSets

CONSTANTS
  Adapters,         \* network adapters, each with its receiver thread
  SendCaller,       \* a thread that enqueues to a send queue
  Total,            \* [Kinds -> Nat]: segments the peer sends
  Ends,             \* [Kinds -> SUBSET Nat]: segments without kSegFlagMF
  DisconnectSeqs,   \* final segments of the peer's Disconnect messages
  FinalControl,     \* final_seq_no_control of those messages
  FinalData,        \* final_seq_no_data of those messages, as the peer wrote it
  UInt32Size,       \* number of uint32_t values
  MaxSignals        \* bound: system calls interrupted by a signal, and waits
                    \* that return without a notification

Kinds == {"control", "data"}

ASSUME ConstantsAssumption ==
  /\ SendCaller \notin Adapters
  /\ Total \in [Kinds -> Nat]
  /\ Ends \in [Kinds -> SUBSET Nat]
  /\ \A k \in Kinds : Total[k] > 0 => Total[k] - 1 \in Ends[k]
  /\ DisconnectSeqs \subseteq Ends["control"]
  /\ UInt32Size \in Nat \ {0}
  /\ FinalControl \in -1..(UInt32Size - 1)   \* -1: nothing was sent
  /\ FinalData \in -1..(UInt32Size - 1)
  /\ \A k \in Kinds : Total[k] < UInt32Size
  /\ MaxSignals \in Nat

Enqueuers == Adapters \cup {SendCaller}

VARIABLES
  net,        \* segments no receiver thread has read yet, per kind
  pc,         \* where each enqueuing thread is
  hand,       \* the segment each receiver thread has read
  errno,      \* the errno of each receiver thread
  signals,    \* number of signals and spurious wake-ups so far
  rq,         \* mSegmentQueues[kSQRecvControl] and [kSQRecvData]
  cpc,        \* where each consumer is
  buf,        \* segments of the message a consumer is reassembling
  delivered,  \* messages returned by recv_from_segment_manager()
  isWait,     \* mIsWaitReceiving
  waitSeq     \* mWaitSeqNoControl and mWaitSeqNoData

netVars == <<net, hand, errno, signals>>
waitVars == <<isWait, waitSeq>>
vars == <<netVars, pc, rq, cpc, buf, delivered, waitVars>>

Segments == [kind : Kinds, seq : Nat]

TypeOK ==
  /\ net \in [Kinds -> SUBSET Nat]
  /\ pc \in [Enqueuers -> {"loop", "enqueue", "wake", "clear", "ended"}]
  /\ hand \in [Adapters -> Segments]
  /\ errno \in [Adapters -> {"none", "EINTR"}]
  /\ signals \in Nat
  /\ rq \in [Kinds -> [main : Seq(Nat), pending : Seq(Nat), expected : Nat]]
  /\ cpc \in [Kinds -> {"dequeue", "waiting", "woken", "crashed",
                        "waitReceiving", "blocked", "disconnect"}]
  /\ buf \in [Kinds -> Seq(Nat)]
  /\ delivered \in [Kinds -> Seq(Seq(Nat))]
  /\ isWait \in BOOLEAN
  /\ waitSeq \in [Kinds -> 0..(UInt32Size - 1)]

Init ==
  /\ net = [k \in Kinds |-> 0..(Total[k] - 1)]
  /\ pc = [t \in Enqueuers |-> "loop"]
  /\ hand = [a \in Adapters |-> [kind |-> "data", seq |-> 0]]
  /\ errno = [a \in Adapters |-> "none"]
  /\ signals = 0
  /\ rq = [k \in Kinds |-> EmptyQueue]
  /\ cpc = [k \in Kinds |-> "dequeue"]
  /\ buf = [k \in Kinds |-> <<>>]
  /\ delivered = [k \in Kinds |-> <<>>]
  /\ isWait = FALSE
  /\ waitSeq = [k \in Kinds |-> 0]

-----------------------------------------------------------------------------
(***************************************************************************)
(* ReceiverThread                                                          *)
(***************************************************************************)

\* Mutant: the segment is read with MSG_PEEK and stays in the socket.
MutantReceivePeek(a) ==
  /\ pc[a] = "loop"
  /\ \E k \in Kinds : \E n \in net[k] :
       /\ hand' = [hand EXCEPT ![a] = [kind |-> k, seq |-> n]]
       /\ pc' = [pc EXCEPT ![a] = "enqueue"]
  /\ UNCHANGED <<net, errno, signals, rq, cpc, buf, delivered, waitVars>>

\* receive_buffer() looks at errno before it looks at the result.  Nothing
\* ever resets errno, so a full segment is thrown away after an EINTR.
ReceiveSegment(a) ==
  /\ pc[a] = "loop"
  /\ \E k \in Kinds : \E n \in net[k] :
       /\ net' = [net EXCEPT ![k] = @ \ {n}]
       /\ IF errno[a] = "EINTR"
          THEN UNCHANGED <<hand, pc>>                        \* RES_CONTINUE
          ELSE /\ hand' = [hand EXCEPT ![a] = [kind |-> k, seq |-> n]]
               /\ pc' = [pc EXCEPT ![a] = "enqueue"]         \* RES_OK
  /\ UNCHANGED <<errno, signals, rq, cpc, buf, delivered, waitVars>>

\* poll() returns -1 with EINTR: RES_CONTINUE.
ReceiveInterrupted(a) ==
  /\ pc[a] = "loop"
  /\ signals < MaxSignals
  /\ signals' = signals + 1
  /\ errno' = [errno EXCEPT ![a] = "EINTR"]
  /\ UNCHANGED <<net, hand, pc, rq, cpc, buf, delivered, waitVars>>

\* The peer closed the connection (recv() = 0): RES_BREAK, the loop ends.
ReceiveBroken(a) ==
  /\ pc[a] = "loop"
  /\ errno[a] # "EINTR"
  /\ pc' = [pc EXCEPT ![a] = "ended"]
  /\ UNCHANGED <<netVars, rq, cpc, buf, delivered, waitVars>>

-----------------------------------------------------------------------------
(***************************************************************************)
(* SegmentManager::enqueue                                                 *)
(***************************************************************************)

\* mDequeueLock[k] is held by a thread that is still in enqueue().
Locked(k) == \E a \in Adapters : pc[a] \in {"wake", "clear"} /\ hand[a].kind = k

\* Mutant: one of the two streams is enough.
MutantReceivingDone(q) ==
  /\ isWait
  /\ \E k \in Kinds : q[k].expected >= waitSeq[k]

\* check_receiving_done(), up to the decision to wake the waiting thread.
ReceivingDone(q) ==
  /\ isWait
  /\ \A k \in Kinds : q[k].expected >= waitSeq[k]

AfterEnqueue(t, q) ==
  pc' = [pc EXCEPT ![t] = IF ReceivingDone(q) THEN "wake" ELSE "loop"]

EnqueueReceived(a) ==
  LET k == hand[a].kind
      n == hand[a].seq
      q == [rq EXCEPT ![k] = Enqueue(@, n)]
  IN  /\ pc[a] = "enqueue"
      /\ ~Locked(k)
      /\ AssertionsHold(rq[k], n)
      /\ rq' = q
      /\ cpc' = IF ContinuousSegmentEnqueued(rq[k], n) /\ cpc[k] = "waiting"
                THEN [cpc EXCEPT ![k] = "woken"]
                ELSE cpc
      /\ AfterEnqueue(a, q)
      /\ UNCHANGED <<netVars, buf, delivered, waitVars>>

\* enqueue() on a send queue calls check_receiving_done() too.
EnqueueToSend ==
  /\ pc[SendCaller] = "loop"
  /\ AfterEnqueue(SendCaller, rq)
  /\ UNCHANGED <<netVars, rq, cpc, buf, delivered, waitVars>>

\* The end of check_receiving_done(), outside mWaitReceivingMutex.
NotifyReceivingDone(t) ==
  /\ pc[t] = "wake"
  /\ pc' = [pc EXCEPT ![t] = "clear"]
  /\ cpc' = IF cpc["control"] = "blocked"
            THEN [cpc EXCEPT !["control"] = "disconnect"]
            ELSE cpc
  /\ UNCHANGED <<netVars, rq, buf, delivered, waitVars>>

ClearIsWaitReceiving(t) ==
  /\ pc[t] = "clear"
  /\ pc' = [pc EXCEPT ![t] = "loop"]
  /\ isWait' = FALSE
  /\ UNCHANGED <<netVars, rq, cpc, buf, delivered, waitSeq>>

-----------------------------------------------------------------------------
(***************************************************************************)
(* SegmentManager::dequeue, called by recv_from_segment_manager.  The      *)
(* consumer is in the loop over continuation segments iff buf # <<>>.      *)
(***************************************************************************)

\* Mutant: the buffer of the previous message is not reset.
MutantTakeKeepsBuffer(k) ==
  LET n == Head(rq[k].main)
      message == Append(buf[k], n)
  IN  /\ rq' = [rq EXCEPT ![k] = Dequeue(@)]
      /\ delivered' = IF n \in Ends[k]
                      THEN [delivered EXCEPT ![k] = Append(@, message)]
                      ELSE delivered
      /\ buf' = [buf EXCEPT ![k] = message]
      /\ cpc' = [cpc EXCEPT ![k] = "dequeue"]
      /\ UNCHANGED <<netVars, pc, waitVars>>

\* A segment is taken; the message is complete when kSegFlagMF is not set.
Take(k) ==
  LET n == Head(rq[k].main)
      message == Append(buf[k], n)
  IN  /\ rq' = [rq EXCEPT ![k] = Dequeue(@)]
      /\ IF n \in Ends[k]
         THEN /\ delivered' = [delivered EXCEPT ![k] = Append(@, message)]
              /\ buf' = [buf EXCEPT ![k] = <<>>]
              /\ cpc' = [cpc EXCEPT ![k] =
                           IF k = "control" /\ n \in DisconnectSeqs
                           THEN "waitReceiving" ELSE "dequeue"]
         ELSE /\ buf' = [buf EXCEPT ![k] = message]
              /\ cpc' = [cpc EXCEPT ![k] = "dequeue"]
              /\ UNCHANGED delivered
      /\ UNCHANGED <<netVars, pc, waitVars>>

DequeueSegment(k) ==
  /\ cpc[k] \in {"dequeue", "woken"}
  /\ ~Locked(k)
  /\ rq[k].main # <<>>
  /\ Take(k)

\* wait_for_dequeue_locked(): wait once, without a loop.
WaitForDequeue(k) ==
  /\ cpc[k] = "dequeue"
  /\ ~Locked(k)
  /\ rq[k].main = <<>>
  /\ cpc' = [cpc EXCEPT ![k] = "waiting"]
  /\ UNCHANGED <<netVars, pc, rq, buf, delivered, waitVars>>

\* The wait returned but the queue is empty: dequeue() returns NULL.  The
\* first loop tries again; the second one dereferences the NULL pointer.
DequeueNull(k) ==
  /\ cpc[k] = "woken"
  /\ ~Locked(k)
  /\ rq[k].main = <<>>
  /\ cpc' = [cpc EXCEPT ![k] = IF buf[k] = <<>> THEN "dequeue" ELSE "crashed"]
  /\ UNCHANGED <<netVars, pc, rq, buf, delivered, waitVars>>

SpuriousWakeup(k) ==
  /\ signals < MaxSignals
  /\ cpc[k] = "waiting"
  /\ cpc' = [cpc EXCEPT ![k] = "woken"]
  /\ signals' = signals + 1
  /\ UNCHANGED <<net, hand, errno, pc, rq, buf, delivered, waitVars>>

-----------------------------------------------------------------------------
\* The number the peer put in its Disconnect message: its last segment.
FinalSeq(k) == IF k = "control" THEN FinalControl ELSE FinalData

\* Mutant: waits for the segment before, and keeps its number signed.
MutantWaitReceivingSigned ==
  /\ cpc["control"] = "waitReceiving"
  /\ isWait' = TRUE
  /\ waitSeq' = [k \in Kinds |-> FinalSeq(k) - 1]
  /\ cpc' = [cpc EXCEPT !["control"] = "blocked"]
  /\ UNCHANGED <<netVars, pc, rq, buf, delivered>>

(***************************************************************************)
(* disconnect_on_peer_command(): wait_receiving() sets the flag and waits, *)
(* without a look at what has already arrived.  The numbers are parsed     *)
(* with stoul into a uint32_t, so that the peer's -1 becomes the greatest  *)
(* value.  Once woken the thread sends the ack and disconnects: the model  *)
(* ends there, with the first wait.  A thread that is still between the    *)
(* test and the end of check_receiving_done() would notify the next wait,  *)
(* of the disconnection of another adapter, or clear its flag.             *)
(***************************************************************************)
WaitReceiving ==
  /\ cpc["control"] = "waitReceiving"
  /\ isWait' = TRUE
  /\ waitSeq' = [k \in Kinds |-> FinalSeq(k) % UInt32Size]
  /\ cpc' = [cpc EXCEPT !["control"] = "blocked"]
  /\ UNCHANGED <<netVars, pc, rq, buf, delivered>>

SpuriousWaitReceiving ==
  /\ signals < MaxSignals
  /\ cpc["control"] = "blocked"
  /\ cpc' = [cpc EXCEPT !["control"] = "disconnect"]
  /\ signals' = signals + 1
  /\ UNCHANGED <<net, hand, errno, pc, rq, buf, delivered, waitVars>>

-----------------------------------------------------------------------------
Receiver(a) == ReceiveSegment(a) \/ ReceiveInterrupted(a) \/ ReceiveBroken(a)
               \/ EnqueueReceived(a)

CheckDone(t) == NotifyReceivingDone(t) \/ ClearIsWaitReceiving(t)

Consumer(k) == DequeueSegment(k) \/ WaitForDequeue(k) \/ DequeueNull(k)

Next ==
  \/ \E a \in Adapters : Receiver(a)
  \/ EnqueueToSend
  \/ \E t \in Enqueuers : CheckDone(t)
  \/ \E k \in Kinds : Consumer(k) \/ SpuriousWakeup(k)
  \/ WaitReceiving
  \/ SpuriousWaitReceiving

Spec == Init /\ [][Next]_vars

(***************************************************************************)
(* Threads that hold a lock or can run do run: the scheduler never stops   *)
(* one for ever.  Nothing is assumed of the peer, of signals, of spurious  *)
(* wake-ups or of an application that may never send.                      *)
(***************************************************************************)
Fairness ==
  /\ \A a \in Adapters : WF_vars(EnqueueReceived(a))
  /\ \A t \in Enqueuers : WF_vars(CheckDone(t))
  /\ \A k \in Kinds : WF_vars(Consumer(k))
  /\ WF_vars(WaitReceiving)

FairSpec == Spec /\ Fairness

-----------------------------------------------------------------------------
\* The segments a receiver thread has read and not yet enqueued.
InHand(k) == {hand[a].seq : a \in {b \in Adapters : pc[b] = "enqueue"
                                                     /\ hand[b].kind = k}}

\* The number of segments of kind k that a consumer has taken.
Consumed(k) == rq[k].expected - Len(rq[k].main)

(***************************************************************************)
(* SegmentQueue.h:116-117 "In-order & Continuous", "In-order &             *)
(* Noncontinuous": whatever order the adapters deliver in, the main list   *)
(* has no gap and the pending list is sorted and starts after the gap.     *)
(***************************************************************************)
QueuesInOrder == \A k \in Kinds : MainContinuous(rq[k]) /\ PendingInOrder(rq[k])

(***************************************************************************)
(* The assertions of SegmentQueue::enqueue() never fail: no two receiver   *)
(* threads hold the same segment, none holds one the queue already has.    *)
(***************************************************************************)
AssertionsNeverFail ==
  \A a \in Adapters :
    pc[a] = "enqueue" => AssertionsHold(rq[hand[a].kind], hand[a].seq)

(***************************************************************************)
(* A segment read from a socket is never lost between receive_buffer() and *)
(* the queue: it is on the network, in a receiver thread's hand or in the  *)
(* queue (or was consumed).  After a signal this is not so: the EINTR left *)
(* in errno makes receive_buffer() drop what it has received.              *)
(***************************************************************************)
NoSegmentDiscarded ==
  signals = 0 =>
    \A k \in Kinds :
      0..(Total[k] - 1) = net[k] \cup InHand(k) \cup Accepted(rq[k])

(***************************************************************************)
(* When disconnect_on_peer_command() goes on to disconnect, the segments   *)
(* before the last ones the peer announced have been received.             *)
(* SegmentManager.cpp:234 speaks of "all the remaining segments", but      *)
(* check_receiving_done() compares the next expected number by >=, so that *)
(* the last segments themselves may still be missing.                      *)
(***************************************************************************)
RemainingSegmentsReceived ==
  signals = 0 /\ cpc["control"] = "disconnect" =>
    \A k \in Kinds : rq[k].expected >= FinalSeq(k)

(***************************************************************************)
(* No lost wake-up: every data segment that has joined the main list is    *)
(* eventually taken by the application, whatever the other threads do.     *)
(***************************************************************************)
DataConsumed ==
  \A n \in 0..(Total["data"] - 1) :
    (rq["data"].expected > n) ~> (Consumed("data") > n \/ signals > 0)

(***************************************************************************)
(* Each queue is an ordered channel: messages come out whole, in the order *)
(* sent, once each, and only when all their segments have arrived.         *)
(***************************************************************************)
Channel == INSTANCE OrderedDelivery
             WITH arrived <- [k \in Kinds |-> Accepted(rq[k])]

IsOrderedChannel == Channel!Spec
=============================================================================
