---------------------------- MODULE SegmentQueue ----------------------------
(***************************************************************************)
(* The reordering queue of linux/core/inc/SegmentQueue.h as operators on   *)
(* a record.  A segment is represented by its sequence number: its other   *)
(* header fields never influence the queue.                                *)
(*                                                                         *)
(*   main      mMainQueue,    segments in order and without gaps           *)
(*   pending   mPendingQueue, segments that arrived ahead of a gap         *)
(*   expected  mExpectedSeqNo                                              *)
(*                                                                         *)
(* mQueueLength is Len(main): it is changed together with mMainQueue,      *)
(* under the same mDequeueLock.  Sequence numbers are uint32_t in the      *)
(* code; here they are naturals, for streams of fewer than 2^32 segments.  *)
(***************************************************************************)
EXTENDS Integers, Sequences, SequencesExt

EmptyQueue == [main |-> <<>>, pending |-> <<>>, expected |-> 0]

(***************************************************************************)
(* The list position at which the walk over mPendingQueue stops: that of   *)
(* the first segment with a greater number, or the end of the list.        *)
(***************************************************************************)
InsertPosition(pending, n) ==
  CHOOSE i \in 1..(Len(pending) + 1) :
    /\ \A j \in 1..(i - 1) : ~(pending[j] > n)
    /\ i <= Len(pending) => pending[i] > n

\* Mutant: append instead of a sorted insertion.
MutantInsertAtEnd(pending, n) == Append(pending, n)

InsertPending(pending, n) == InsertAt(pending, InsertPosition(pending, n), n)

(***************************************************************************)
(* How many segments at the head of mPendingQueue continue the stream.     *)
(***************************************************************************)
DrainLength(pending, expected) ==
  CHOOSE k \in 0..Len(pending) :
    /\ \A i \in 1..k : pending[i] = expected + i - 1
    /\ k < Len(pending) => pending[k + 1] # expected + k

\* Mutant: the first pending segment behind a gap is popped before the break.
MutantDrainPopsOneMore(q) ==
  LET k == DrainLength(q.pending, q.expected)
  IN  [main     |-> q.main \o SubSeq(q.pending, 1, k),
       pending  |-> SubSeq(q.pending, k + 2, Len(q.pending)),
       expected |-> q.expected + k]

\* The loop that moves those segments to mMainQueue.
Drain(q) ==
  LET k == DrainLength(q.pending, q.expected)
  IN  [main     |-> q.main \o SubSeq(q.pending, 1, k),
       pending  |-> SubSeq(q.pending, k + 1, Len(q.pending)),
       expected |-> q.expected + k]

\* enqueue() up to the final loop: the segment goes to one of the two lists.
Place(q, n) ==
  IF n = q.expected
  THEN [q EXCEPT !.main = Append(@, n), !.expected = @ + 1]
  ELSE [q EXCEPT !.pending = InsertPending(@, n)]

\* Mutant: the final loop is missing.
MutantEnqueueNoDrain(q, n) == Place(q, n)

Enqueue(q, n) == Drain(Place(q, n))

\* Mutant: true only if the final loop ran.
MutantContinuousIfDrained(q, n) == Enqueue(q, n).expected > q.expected + 1

\* The value enqueue() returns: did mMainQueue grow?
ContinuousSegmentEnqueued(q, n) == Enqueue(q, n).expected # q.expected

\* The two assertions of enqueue(); the process aborts when one fails.
AssertionsHold(q, n) ==
  n # q.expected => n > q.expected /\ n \notin ToSet(q.pending)

Dequeue(q) == [q EXCEPT !.main = Tail(@)]

-----------------------------------------------------------------------------
(***************************************************************************)
(* What the two comments on the lists promise: mMainQueue is "In-order &   *)
(* Continuous" and ends just before mExpectedSeqNo, mPendingQueue is       *)
(* "In-order & Noncontinuous" and starts after it.                         *)
(***************************************************************************)
MainContinuous(q) ==
  \A i \in 1..Len(q.main) : q.main[i] = q.expected - Len(q.main) + i - 1

PendingInOrder(q) ==
  /\ \A i \in 1..Len(q.pending) : q.pending[i] > q.expected
  /\ \A i, j \in 1..Len(q.pending) : i < j => q.pending[i] < q.pending[j]

\* The numbers the queue has accepted so far.
Accepted(q) == 0..(q.expected - 1) \cup ToSet(q.pending)
=============================================================================
