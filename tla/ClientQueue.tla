------------------------------ MODULE ClientQueue ------------------------------
(***************************************************************************)
(* The receiving half of the Android client: the receive queues of         *)
(* SegmentManager.java, the ReceiverThread of each adapter that fills      *)
(* them, the threads that dequeue, and the QueueWatcherThread that asks    *)
(* the server to retransmit.  The call of waitReceiving() is commented out *)
(* in disconnectOnPeerCommand(), so that checkReceivingDone() does nothing *)
(* and is left out.                                                        *)
(*                                                                         *)
(* Of the server its sender threads are modelled, one per link: a segment  *)
(* goes out once, in the order of sequence numbers but over any link, and  *)
(* again when the client asks for it.  What is to be sent again enters the *)
(* failed list, which notifies nobody: a sender that waits in dequeue()    *)
(* finds it when something else is enqueued (modules SendPath and          *)
(* SegmentPool are the server in full).  A link that breaks loses what is  *)
(* on it; requests of the client are taken to arrive, and at once.         *)
(***************************************************************************)
EXTENDS Integers, Sequences, SequencesExt, FiniteSets, FiniteSetsExt

CONSTANTS
  Links,      \* the adapters over which segments arrive
  Kinds,      \* the kinds of segments, "control" and "data"
  NumSegs,    \* bound: segments of each kind
  MaxLosses,  \* bound: links that break
  MaxCopies,  \* bound: copies of a segment that cannot leave the pending queue yet
  LinkLength  \* bound: segments on a link

ASSUME ClientQueueAssumption ==
  /\ Kinds \subseteq {"control", "data"} /\ Kinds # {} /\ NumSegs \in Nat
  /\ MaxLosses \in Nat /\ MaxCopies \in Nat \ {0} /\ LinkLength \in Nat \ {0}

VARIABLES
  \* the server and the links
  sent,      \* number of segments of each kind sent so far
  link,      \* segments on each link
  failed,    \* mFailedSegmentList: segments the client has asked for
  awake,     \* links whose sender thread does not wait in dequeue()
  losses,    \* number of links that broke
  \* SegmentManager.java
  expected,  \* mExpectedSeqNo
  queue,     \* mQueues: sequence numbers, in the order they will be dequeued
  pending,   \* mPendingQueue
  taken,     \* number of segments of each kind that were dequeued
  \* threads
  rpc,       \* where each ReceiverThread is
  rkind,     \* the kind of the segment it has enqueued
  dpc,       \* where the thread that dequeues each kind is
  prev,      \* mPrevLastSeqNoControl and mPrevLastSeqNoData
  changed,   \* mPrevLastChangeTS is not null
  steady     \* every adapter is Active or Disconnected

wireVars == <<sent, link, failed, awake, losses>>
queueVars == <<expected, queue, pending>>
watchVars == <<prev, changed, steady>>
receivingVars == <<wireVars, queueVars, taken, rpc, rkind, dpc, watchVars>>

Segs == Kinds \X (0..NumSegs - 1)

\* Types of the state of SegmentQueue and SegmentManager on the Android side
ReceivingTypeOK ==
  /\ sent \in [Kinds -> Nat] /\ losses \in 0..MaxLosses
  /\ \A k \in Kinds : sent[k] <= NumSegs
  /\ link \in [Links -> Seq(Segs)]
  /\ failed \subseteq Segs /\ awake \subseteq Links
  /\ expected \in [Kinds -> Nat] /\ taken \in [Kinds -> Nat]
  /\ queue \in [Kinds -> Seq(Nat)] /\ pending \in [Kinds -> Seq(Nat)]
  /\ rpc \in [Links -> {"read", "notify"}]
  /\ rkind \in [Links -> Kinds]
  /\ dpc \in [Kinds -> {"dequeue", "waiting", "woken"}]
  /\ prev \in [Kinds -> Nat]
  /\ {changed, steady} \subseteq BOOLEAN

ReceivingInit ==
  /\ sent = [k \in Kinds |-> 0] /\ losses = 0
  /\ failed = {} /\ awake = {}
  /\ link = [l \in Links |-> <<>>]
  /\ expected = [k \in Kinds |-> 0] /\ taken = [k \in Kinds |-> 0]
  /\ queue = [k \in Kinds |-> <<>>] /\ pending = [k \in Kinds |-> <<>>]
  /\ rpc = [l \in Links |-> "read"] /\ rkind = [l \in Links |-> CHOOSE k \in Kinds : TRUE]
  /\ dpc = [k \in Kinds |-> "dequeue"]
  /\ prev = [k \in Kinds |-> 0] /\ changed = FALSE /\ steady = TRUE

-----------------------------------------------------------------------------
(***************************************************************************)
(* The server and the links                                                *)
(***************************************************************************)
\* Something is enqueued, which wakes every sender up; so does a wait that ends early.
ServerEnqueue ==
  /\ awake' = Links
  /\ UNCHANGED <<sent, link, failed, losses, queueVars, taken, rpc, rkind, dpc, watchVars>>

\* A sender finds neither a failed segment nor one in the queues.
ServerWaits(l) ==
  /\ l \in awake /\ failed = {}
  /\ awake' = awake \ {l}
  /\ UNCHANGED <<sent, link, failed, losses, queueVars, taken, rpc, rkind, dpc, watchVars>>

ServerSend(k, l) ==
  /\ l \in awake /\ sent[k] < NumSegs /\ Len(link[l]) < LinkLength
  /\ sent' = [sent EXCEPT ![k] = @ + 1]
  /\ link' = [link EXCEPT ![l] = Append(@, <<k, sent[k]>>)]
  /\ UNCHANGED <<failed, awake, losses, queueVars, taken, rpc, rkind, dpc, watchVars>>

\* Copies of a segment in the pending queue and on the links.
Copies(s) ==
  Cardinality({i \in DOMAIN pending[s[1]] : pending[s[1]][i] = s[2]})
  + Cardinality({l \in Links : s \in Range(link[l])})

ServerResend(s, l) ==
  /\ l \in awake /\ s \in failed /\ Len(link[l]) < LinkLength
  /\ s[2] <= expected[s[1]] \/ Copies(s) < MaxCopies
  /\ failed' = failed \ {s}
  /\ link' = [link EXCEPT ![l] = Append(@, s)]
  /\ UNCHANGED <<sent, awake, losses, queueVars, taken, rpc, rkind, dpc, watchVars>>

LinkBreaks(l) ==
  /\ link[l] # <<>> /\ losses < MaxLosses
  /\ losses' = losses + 1
  /\ link' = [link EXCEPT ![l] = <<>>]
  /\ UNCHANGED <<sent, failed, awake, queueVars, taken, rpc, rkind, dpc, watchVars>>

-----------------------------------------------------------------------------
(***************************************************************************)
(* SegmentManager.enqueue()                                                *)
(***************************************************************************)

(***************************************************************************)
(* The walk stops after it has passed the first segment with a greater     *)
(* number, and the new segment is added where the walk stopped.            *)
(***************************************************************************)
InsertPending(p, n) ==
  LET greater == {i \in DOMAIN p : p[i] > n}
      at == IF greater = {} THEN Len(p) ELSE Min(greater)
  IN  SubSeq(p, 1, at) \o <<n>> \o SubSeq(p, at + 1, Len(p))

\* Mutant: an obsolete segment is moved to the queue like a continuous one.
MutantWalkKeepsObsolete(acc, n) ==
  IF acc.stop \/ n > acc.e THEN [acc EXCEPT !.stop = TRUE, !.p = Append(@, n)]
  ELSE [acc EXCEPT !.e = @ + 1, !.q = Append(@, n)]

(***************************************************************************)
(* A step of the second walk: an obsolete segment is dropped, a continuous *)
(* one moves to the queue, and the first future segment ends the walk.     *)
(***************************************************************************)
Walk(acc, n) ==
  IF acc.stop \/ n > acc.e THEN [acc EXCEPT !.stop = TRUE, !.p = Append(@, n)]
  ELSE IF n < acc.e THEN acc
  ELSE [acc EXCEPT !.e = @ + 1, !.q = Append(@, n)]

\* The second walk: the expected number, the queue and what stays pending.
Drain(e, q, p) ==
  LET walked[i \in 0..Len(p)] ==
        IF i = 0 THEN [e |-> e, q |-> q, p |-> <<>>, stop |-> FALSE]
                 ELSE Walk(walked[i - 1], p[i])
  IN  walked[Len(p)]

\* The queue after segment n, which is not a duplicate, was enqueued.
Enqueued(k, n) ==
  IF n = expected[k] THEN Drain(n + 1, Append(queue[k], n), pending[k])
                     ELSE Drain(expected[k], queue[k], InsertPending(pending[k], n))

(***************************************************************************)
(* One turn of the ReceiverThread: a duplicate is ignored, with an early   *)
(* return; otherwise mDequeueCond is notified if a segment entered the     *)
(* queue.                                                                  *)
(***************************************************************************)
ReceiveSegment(l) ==
  /\ rpc[l] = "read" /\ link[l] # <<>>
  /\ LET k == Head(link[l])[1]
         n == Head(link[l])[2]
         after == Enqueued(k, n) IN
       IF n < expected[k]
       THEN UNCHANGED <<queueVars, rpc, rkind>>
       ELSE /\ expected' = [expected EXCEPT ![k] = after.e]
            /\ queue' = [queue EXCEPT ![k] = after.q]
            /\ pending' = [pending EXCEPT ![k] = after.p]
            /\ rpc' = [rpc EXCEPT ![l] = IF after.q = queue[k] THEN "read" ELSE "notify"]
            /\ rkind' = [rkind EXCEPT ![l] = k]
  /\ link' = [link EXCEPT ![l] = Tail(@)]
  /\ UNCHANGED <<sent, failed, awake, losses, taken, dpc, watchVars>>

\* wakeUpDequeueWaiting(), under the monitor of mDequeueCond.
NotifyDequeue(l) ==
  /\ rpc[l] = "notify"
  /\ rpc' = [rpc EXCEPT ![l] = "read"]
  /\ dpc' = [dpc EXCEPT ![rkind[l]] = IF @ = "waiting" THEN "woken" ELSE @]
  /\ UNCHANGED <<wireVars, queueVars, taken, rkind, watchVars>>

-----------------------------------------------------------------------------
(***************************************************************************)
(* SegmentManager.dequeue() for a receive queue                            *)
(***************************************************************************)

\* Mutant: the length is tested before the monitor of mDequeueCond is entered.
MutantDequeueTestsFirst(k) ==
  \/ /\ dpc[k] = "dequeue" /\ queue[k] = <<>>
     /\ dpc' = [dpc EXCEPT ![k] = "woken"] /\ UNCHANGED <<queue, taken>>
     /\ UNCHANGED <<wireVars, expected, pending, rpc, rkind, watchVars>>
  \/ /\ dpc[k] = "woken"
     /\ dpc' = [dpc EXCEPT ![k] = "waiting"]
     /\ UNCHANGED <<wireVars, queueVars, taken, rpc, rkind, watchVars>>
  \/ /\ dpc[k] = "dequeue" /\ queue[k] # <<>>
     /\ queue' = [queue EXCEPT ![k] = Tail(@)]
     /\ taken' = [taken EXCEPT ![k] = @ + 1]
     /\ UNCHANGED <<wireVars, expected, pending, rpc, rkind, dpc, watchVars>>

\* An empty queue after the wait makes dequeue() return null; callers retry.
Dequeue(k) ==
  /\ dpc[k] \in {"dequeue", "woken"}
  /\ IF queue[k] # <<>>
     THEN /\ queue' = [queue EXCEPT ![k] = Tail(@)]
          /\ taken' = [taken EXCEPT ![k] = @ + 1]
          /\ dpc' = [dpc EXCEPT ![k] = "dequeue"]
     ELSE /\ dpc' = [dpc EXCEPT ![k] = IF @ = "dequeue" THEN "waiting" ELSE "dequeue"]
          /\ UNCHANGED <<queue, taken>>
  /\ UNCHANGED <<wireVars, expected, pending, rpc, rkind, watchVars>>

SpuriousDequeueWakeup(k) ==
  /\ dpc[k] = "waiting"
  /\ dpc' = [dpc EXCEPT ![k] = "woken"]
  /\ UNCHANGED <<wireVars, queueVars, taken, rpc, rkind, watchVars>>

-----------------------------------------------------------------------------
(***************************************************************************)
(* Retransmission                                                          *)
(***************************************************************************)

\* Mutant: the walk takes the expected number for the last one received.
MutantMissing(k) ==
  {n \in UNION {(expected[k] + 1)..(m - 1) : m \in Range(pending[k])} :
     \E i \in DOMAIN pending[k] :
       n < pending[k][i] /\ \A j \in 1..(i - 1) : pending[k][j] < n}

(***************************************************************************)
(* The numbers __checkAndRequestRetransmitMissingSegment() asks for: in    *)
(* front of a pending segment, behind what is expected and behind every    *)
(* segment that the walk has passed.                                       *)
(***************************************************************************)
Missing(k) ==
  {n \in UNION {expected[k]..(m - 1) : m \in Range(pending[k])} :
     \E i \in DOMAIN pending[k] :
       n < pending[k][i] /\ \A j \in 1..(i - 1) : pending[k][j] < n}

\* retransmit_missing_segments_by_peer() on the server notifies nobody.
RequestRetransmit == failed' = failed \cup UNION {{k} \X Missing(k) : k \in Kinds}

LastSeqNo == [k \in Kinds |-> expected[k] - 1]

(***************************************************************************)
(* checkAndNotifyQueueStatus(): isAdaptersSwitching() returns true when    *)
(* every adapter is Active or Disconnected, so that the watcher works only *)
(* while one of them is not.  Whether the threshold has passed is a        *)
(* choice.  Segments before the first of a kind cannot be asked for.       *)
(***************************************************************************)
WatchQueue ==
  /\ ~steady
  /\ \A k \in Kinds : LastSeqNo[k] >= 0
  /\ IF prev # LastSeqNo
     THEN /\ prev' = LastSeqNo /\ changed' = TRUE
          /\ UNCHANGED failed
     ELSE /\ changed /\ RequestRetransmit
          /\ UNCHANGED <<prev, changed>>
  /\ UNCHANGED <<sent, link, awake, losses, queueVars, taken, rpc, rkind, dpc, steady>>

\* An adapter begins to connect, sleep or disconnect.
BeginTransition ==
  /\ steady /\ steady' = FALSE
  /\ UNCHANGED <<wireVars, queueVars, taken, rpc, rkind, dpc, prev, changed>>

\* It is done; a disconnection ends with a check for missing segments.
EndTransition(isDisconnection) ==
  /\ ~steady /\ steady' = TRUE
  /\ IF isDisconnection THEN RequestRetransmit ELSE UNCHANGED failed
  /\ UNCHANGED <<sent, link, awake, losses, queueVars, taken, rpc, rkind, dpc, prev, changed>>

-----------------------------------------------------------------------------
ReceivingNext ==
  \/ ServerEnqueue
  \/ \E k \in Kinds, l \in Links : ServerSend(k, l)
  \/ \E s \in failed, l \in Links : ServerResend(s, l)
  \/ \E l \in Links : ServerWaits(l) \/ LinkBreaks(l) \/ ReceiveSegment(l) \/ NotifyDequeue(l)
  \/ \E k \in Kinds : Dequeue(k) \/ SpuriousDequeueWakeup(k)
  \/ WatchQueue \/ BeginTransition
  \/ \E isDisconnection \in BOOLEAN : EndTransition(isDisconnection)

ReceivingSpec == ReceivingInit /\ [][ReceivingNext]_receivingVars

(***************************************************************************)
(* The receiver threads and the threads that dequeue are running threads;  *)
(* the watcher wakes up every second, so that it acts when it could do so  *)
(* again and again.  A sender that does not wait takes the failed          *)
(* segments, the oldest first, whenever its link has room.                 *)
(* Nothing is assumed of what the server enqueues.                         *)
(***************************************************************************)
ReceivingFairness ==
  /\ \A l \in Links : WF_receivingVars(ReceiveSegment(l) \/ NotifyDequeue(l))
  /\ \A k \in Kinds : WF_receivingVars(Dequeue(k))
  /\ \A s \in Segs : SF_receivingVars(\E l \in Links : ServerResend(s, l))
  /\ SF_receivingVars(WatchQueue)

ReceivingFairSpec == ReceivingSpec /\ ReceivingFairness

-----------------------------------------------------------------------------
(***************************************************************************)
(* Exactly once and in order: what was dequeued, followed by what is in    *)
(* the queue, is 0, 1, 2, ... up to the expected number, although links    *)
(* reorder, lose and repeat segments (enqueue(), dequeue()); and types.    *)
(***************************************************************************)
ReceivedInOrder ==
  /\ ReceivingTypeOK
  /\ \A k \in Kinds :
       /\ taken[k] + Len(queue[k]) = expected[k]
       /\ \A i \in DOMAIN queue[k] : queue[k][i] = taken[k] + i - 1

(***************************************************************************)
(* No lost wake-up: a thread waits in dequeue() only while its queue is    *)
(* empty or a receiver thread is about to notify it.                       *)
(***************************************************************************)
NoLostWakeup ==
  \A k \in Kinds : dpc[k] = "waiting" /\ queue[k] # <<>> =>
    \E l \in Links : rpc[l] = "notify" /\ rkind[l] = k

(***************************************************************************)
(* If adapters again and again leave the steady states, so that the        *)
(* watcher may work, and it has seen the last numbers change, and if the   *)
(* server again and again enqueues something, so that its senders look     *)
(* into the failed list, no segment stays pending for ever: the ones       *)
(* before it are asked for until they arrive, in whatever order they were  *)
(* inserted.  Without the second condition it may wait for ever.           *)
(***************************************************************************)
PendingIsDelivered ==
  []<>(~steady /\ changed) /\ []<>(awake # {}) =>
    \A k \in Kinds : []<>(\A n \in Range(pending[k]) : n < expected[k])
=============================================================================
