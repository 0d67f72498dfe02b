------------------------------- MODULE SendPath -------------------------------
(***************************************************************************)
(* The sending half of the Linux side.  Threads of the application and of  *)
(* the control plane call send_to_segment_manager(), which reserves a run  *)
(* of sequence numbers and enqueues one segment after the other; one       *)
(* SenderThread per adapter takes segments from the failed list, from the  *)
(* send queues or from neither, and writes them to its socket.  All        *)
(* connected adapters send at the same time: during a handover there are   *)
(* two of them.                                                            *)
(*                                                                         *)
(* A step is a region under one mutex or one system call.  A condition     *)
(* variable is the set of threads at the pc of its wait; no wait of        *)
(* SenderThread.h or of the SegmentManager is in a loop, so a notified     *)
(* thread goes on without a second look at the flag, and so does one that  *)
(* wakes up without a notification (SpuriousWakeup).                       *)
(***************************************************************************)
EXTENDS SegmentQueue, FiniteSets

CONSTANTS
  Adapters,      \* the network adapters, each with its sender thread
  Callers,       \* threads that call send_to_segment_manager()
  CallerKind,    \* [Callers -> Kinds]: is_control of a caller's messages
  Lengths,       \* numbers of segments of a message
  MaxSeq,        \* bound, [Kinds -> Nat]: segments per stream
  MaxFailures,   \* bound: errors of the send() system call
  FailureKinds,  \* the errors among "soft" (EINTR, EAGAIN) and "hard"
  MaxSpurious    \* bound: wake-ups without a notification

Kinds == {"control", "data"}
NoSeq == -1      \* stands for a member the constructor leaves uninitialized

ASSUME SendAssumption ==
  /\ CallerKind \in [Callers -> Kinds]
  /\ Lengths \subseteq Nat \ {0}
  /\ MaxSeq \in [Kinds -> Nat]
  /\ MaxFailures \in Nat
  /\ FailureKinds \subseteq {"soft", "hard"}
  /\ MaxSpurious \in Nat

VARIABLES
  nextSeq,    \* mNextSeqNo, per kind
  todo,       \* the segments a caller has reserved and not yet enqueued
  sq,         \* mSegmentQueues[kSQSendControl] and [kSQSendData]
  failed,     \* mFailedSegmentList
  sent,       \* mSentSegmentLists, split by the adapter that sent
  spc,        \* where each sender thread is
  hand,       \* segment_to_send of each sender thread
  lastSeq,    \* mLastSeqNoControl and mLastSeqNoData of each sender thread
  enabled,    \* mIsLoopEnabled
  paused,     \* mIsLoopPaused
  loopEnds,   \* mIsLoopEnds
  state,      \* mState of each ServerAdapter
  onPurpose,  \* mIsDisconnectingOnPurpose
  sock,       \* state of each ServerSocket
  errno,      \* errno of each sender thread, as sender_loop() tells it apart
  failures,   \* number of send() errors so far
  spurious    \* number of wake-ups without a notification so far

callerVars == <<nextSeq, todo>>
listVars == <<failed, sent, lastSeq>>
flagVars == <<enabled, paused, loopEnds>>
adapterVars == <<state, onPurpose>>
sockVars == <<sock, errno, failures, spurious>>
sendVars == <<callerVars, sq, listVars, spc, hand, flagVars, adapterVars, sockVars>>

Segments == [kind : Kinds, seq : Nat]

SenderPCs ==
  {"idle", "enableWait", "begin", "loop", "checkPaused", "suspend",
   "waitResume", "resumeWait", "resumed", "setActive", "popFailed", "dequeue",
   "deqWait", "deqWoken", "have", "send", "sendConnecting", "socket",
   "sendError", "sent", "end1", "end2", "end3"}

AdapterStates == {"Disconnected", "Connecting", "Active", "Disconnecting",
                  "GoingSleeping", "Sleeping", "WakingUp"}

\* Types of the state of the send queues and of the sender threads
SendTypeOK ==
  /\ nextSeq \in [Kinds -> Nat]
  /\ todo \in [Callers -> [first : Nat, last : Int]]
  /\ \A c \in Callers : todo[c].first <= todo[c].last + 1
  /\ sq \in [Kinds -> [main : Seq(Nat), pending : Seq(Nat), expected : Nat]]
  /\ failed \in Seq(Segments)
  /\ sent \in [Adapters -> SUBSET Segments]
  /\ spc \in [Adapters -> SenderPCs]
  /\ hand \in [Adapters -> Segments]
  /\ lastSeq \in [Adapters -> [Kinds -> Nat \cup {NoSeq}]]
  /\ enabled \in [Adapters -> BOOLEAN]
  /\ paused \in [Adapters -> BOOLEAN]
  /\ loopEnds \in [Adapters -> BOOLEAN]
  /\ state \in [Adapters -> AdapterStates]
  /\ onPurpose \in [Adapters -> BOOLEAN]
  /\ sock \in [Adapters -> {"closed", "opening", "opened"}]
  /\ errno \in [Adapters -> {"zero", "soft", "hard"}]
  /\ failures \in Nat /\ spurious \in Nat

\* The threads are launched; the adapters in connected have been connected,
\* and those in asleep have just been put to sleep.
SendInit(connected, asleep) ==
  /\ nextSeq = [k \in Kinds |-> 0]
  /\ todo = [c \in Callers |-> [first |-> 0, last |-> -1]]
  /\ sq = [k \in Kinds |-> EmptyQueue]
  /\ failed = <<>>
  /\ sent = [a \in Adapters |-> {}]
  /\ spc = [a \in Adapters |-> IF a \in asleep THEN "waitResume" ELSE "idle"]
  /\ hand = [a \in Adapters |-> [kind |-> "data", seq |-> 0]]
  /\ lastSeq = [a \in Adapters |-> [k \in Kinds |-> NoSeq]]
  /\ enabled = [a \in Adapters |-> a \in connected]
  /\ paused = [a \in Adapters |-> a \in asleep]
  /\ loopEnds \in [Adapters -> BOOLEAN]
  /\ \A a \in asleep : ~loopEnds[a]
  /\ state = [a \in Adapters |-> CASE a \in asleep    -> "Sleeping"
                                   [] a \in connected \ asleep -> "Active"
                                   [] OTHER -> "Disconnected"]
  /\ onPurpose = [a \in Adapters |-> FALSE]
  /\ sock = [a \in Adapters |-> IF a \in connected THEN "opened" ELSE "closed"]
  /\ errno = [a \in Adapters |-> "zero"]
  /\ failures = 0 /\ spurious = 0

-----------------------------------------------------------------------------
(***************************************************************************)
(* send_to_segment_manager()                                               *)
(***************************************************************************)

Busy(c) == todo[c].first <= todo[c].last

\* Mutant: one number is reserved for the whole message.
MutantReserveOne(c, n) ==
  LET k == CallerKind[c]
  IN  /\ ~Busy(c)
      /\ nextSeq[k] + n <= MaxSeq[k]
      /\ nextSeq' = [nextSeq EXCEPT ![k] = @ + 1]
      /\ todo' = [todo EXCEPT ![c] = [first |-> nextSeq[k],
                                      last  |-> nextSeq[k] + n - 1]]

\* get_next_seq_no(): a run of n numbers belongs to the calling thread.
Reserve(c, n) ==
  LET k == CallerKind[c]
  IN  /\ ~Busy(c)
      /\ nextSeq[k] + n <= MaxSeq[k]
      /\ nextSeq' = [nextSeq EXCEPT ![k] = @ + n]
      /\ todo' = [todo EXCEPT ![c] = [first |-> nextSeq[k],
                                      last  |-> nextSeq[k] + n - 1]]

SendToSegmentManager(c) ==
  /\ \E n \in Lengths : Reserve(c, n)
  /\ UNCHANGED <<sq, listVars, spc, hand, flagVars, adapterVars, sockVars>>

\* wake_up_dequeue_waiting(): every sender waiting for a segment is notified.
WakeUpDequeueWaiting ==
  [a \in Adapters |-> IF spc[a] = "deqWait" THEN "deqWoken" ELSE spc[a]]

\* enqueue() of the next segment of the message.
EnqueueToSend(c) ==
  LET k == CallerKind[c]
      n == todo[c].first
  IN  /\ Busy(c)
      /\ AssertionsHold(sq[k], n)
      /\ todo' = [todo EXCEPT ![c].first = @ + 1]
      /\ sq' = [sq EXCEPT ![k] = Enqueue(@, n)]
      /\ spc' = IF ContinuousSegmentEnqueued(sq[k], n)
                THEN WakeUpDequeueWaiting ELSE spc
      /\ UNCHANGED <<nextSeq, listVars, hand, flagVars, adapterVars, sockVars>>

-----------------------------------------------------------------------------
(***************************************************************************)
(* SenderThread::run()                                                     *)
(***************************************************************************)

Goto(a, label) == spc' = [spc EXCEPT ![a] = label]

WaitUntilEnableLoop(a) ==
  /\ spc[a] = "idle"
  /\ Goto(a, IF enabled[a] THEN "begin" ELSE "enableWait")
  /\ UNCHANGED <<callerVars, sq, listVars, hand, flagVars, adapterVars, sockVars>>

\* Mutant: the flag of an earlier loop is not reset.
MutantBeginLoopKeepsEnds(a) ==
  /\ spc[a] = "begin"
  /\ Goto(a, "loop")
  /\ UNCHANGED <<callerVars, sq, listVars, hand, flagVars, adapterVars, sockVars>>

BeginLoop(a) ==
  /\ spc[a] = "begin"
  /\ loopEnds' = [loopEnds EXCEPT ![a] = FALSE]
  /\ Goto(a, "loop")
  /\ UNCHANGED <<callerVars, sq, listVars, hand, enabled, paused, adapterVars, sockVars>>

\* After sender_loop(): three flags, each under its own mutex.
EndLoop(a) ==
  /\ \/ /\ spc[a] = "end1"
        /\ enabled' = [enabled EXCEPT ![a] = FALSE]
        /\ Goto(a, "end2")
        /\ UNCHANGED <<paused, loopEnds>>
     \/ /\ spc[a] = "end2"
        /\ paused' = [paused EXCEPT ![a] = FALSE]
        /\ Goto(a, "end3")
        /\ UNCHANGED <<enabled, loopEnds>>
     \/ /\ spc[a] = "end3"
        /\ loopEnds' = [loopEnds EXCEPT ![a] = TRUE]
        /\ Goto(a, "idle")
        /\ UNCHANGED <<enabled, paused>>
  /\ UNCHANGED <<callerVars, sq, listVars, hand, adapterVars, sockVars>>

-----------------------------------------------------------------------------
(***************************************************************************)
(* SenderThread::sender_loop()                                             *)
(***************************************************************************)

CheckEnabled(a) ==
  /\ spc[a] = "loop"
  /\ Goto(a, IF enabled[a] THEN "checkPaused" ELSE "end1")
  /\ UNCHANGED <<callerVars, sq, listVars, hand, flagVars, adapterVars, sockVars>>

CheckPaused(a) ==
  /\ spc[a] = "checkPaused"
  /\ Goto(a, IF paused[a] THEN "suspend" ELSE "popFailed")
  /\ UNCHANGED <<callerVars, sq, listVars, hand, flagVars, adapterVars, sockVars>>

\* set_state(kSleeping), then wait_until_resume_loop(), once.
Suspend(a) ==
  /\ spc[a] = "suspend"
  /\ state' = [state EXCEPT ![a] = "Sleeping"]
  /\ Goto(a, "waitResume")
  /\ UNCHANGED <<callerVars, sq, listVars, hand, flagVars, onPurpose, sockVars>>

WaitUntilResumeLoop(a) ==
  /\ spc[a] = "waitResume"
  /\ Goto(a, IF paused[a] THEN "resumeWait" ELSE "resumed")
  /\ UNCHANGED <<callerVars, sq, listVars, hand, flagVars, adapterVars, sockVars>>

\* The state is read, and set in another step.  mIsLoopEnabled is not read
\* again before the next segment is taken.
Resumed(a) ==
  /\ spc[a] = "resumed"
  /\ Goto(a, IF state[a] \in {"Disconnecting", "Disconnected"}
             THEN "checkPaused" ELSE "setActive")
  /\ UNCHANGED <<callerVars, sq, listVars, hand, flagVars, adapterVars, sockVars>>

SetActive(a) ==
  /\ spc[a] = "setActive"
  /\ state' = [state EXCEPT ![a] = "Active"]
  /\ Goto(a, "checkPaused")
  /\ UNCHANGED <<callerVars, sq, listVars, hand, flagVars, onPurpose, sockVars>>

PopFailedSegment(a) ==
  /\ spc[a] = "popFailed"
  /\ IF failed = <<>>
     THEN Goto(a, "dequeue") /\ UNCHANGED <<failed, hand>>
     ELSE /\ hand' = [hand EXCEPT ![a] = Head(failed)]
          /\ failed' = Tail(failed)
          /\ Goto(a, "have")
  /\ UNCHANGED <<callerVars, sq, sent, lastSeq, flagVars, adapterVars, sockVars>>

\* get_target_queue_type(): control segments first.
TargetQueue == IF sq["control"].main # <<>> THEN "control" ELSE "data"
SendQueuesEmpty == \A k \in Kinds : sq[k].main = <<>>

\* dequeue(kDeqSendControlData): at most one wait, then NULL if still empty.
DequeueToSend(a) ==
  /\ spc[a] \in {"dequeue", "deqWoken"}
  /\ IF SendQueuesEmpty
     THEN /\ Goto(a, IF spc[a] = "dequeue" THEN "deqWait" ELSE "loop")
          /\ UNCHANGED <<sq, hand>>
     ELSE /\ hand' = [hand EXCEPT ![a] = [kind |-> TargetQueue,
                                          seq  |-> Head(sq[TargetQueue].main)]]
          /\ sq' = [sq EXCEPT ![TargetQueue] = Dequeue(@)]
          /\ Goto(a, "have")
  /\ UNCHANGED <<callerVars, listVars, flagVars, adapterVars, sockVars>>

\* add_failed_segment_to_list(): nobody is notified.
AddFailedSegment(a) == failed' = Append(failed, hand[a])

\* Mutant: a paused sender drops the segment it has just taken.
MutantHaveSegmentDrops(a) ==
  /\ spc[a] = "have"
  /\ Goto(a, IF paused[a] THEN "loop" ELSE "send")
  /\ UNCHANGED <<callerVars, sq, listVars, hand, flagVars, adapterVars, sockVars>>

HaveSegment(a) ==
  /\ spc[a] = "have"
  /\ IF paused[a]
     THEN AddFailedSegment(a) /\ Goto(a, "loop")
     ELSE UNCHANGED failed /\ Goto(a, "send")
  /\ UNCHANGED <<callerVars, sq, sent, lastSeq, hand, flagVars, adapterVars, sockVars>>

\* ServerAdapter::send() up to the socket.
AdapterSend(a) ==
  /\ \/ /\ spc[a] = "send"
        /\ Goto(a, CASE state[a] = "Active"     -> "socket"
                     [] state[a] = "Connecting" -> "sendConnecting"
                     [] OTHER                   -> "sendError")
     \/ /\ spc[a] = "sendConnecting"                     \* polls every 200 ms
        /\ state[a] = "Active"
        /\ Goto(a, "socket")
  /\ UNCHANGED <<callerVars, sq, listVars, hand, flagVars, adapterVars, sockVars>>

\* ServerSocket::send().  A hard error closes the socket; -1 from a socket
\* that is not open leaves errno as it was.
SocketSend(a) ==
  /\ spc[a] = "socket"
  /\ \/ /\ sock[a] = "opened"
        /\ Goto(a, "sent")
        /\ UNCHANGED sockVars
     \/ /\ sock[a] = "opened"
        /\ failures < MaxFailures
        /\ \E e \in FailureKinds :
             /\ errno' = [errno EXCEPT ![a] = e]
             /\ sock' = IF e = "hard" THEN [sock EXCEPT ![a] = "closed"] ELSE sock
        /\ failures' = failures + 1
        /\ Goto(a, "sendError")
        /\ UNCHANGED spurious
     \/ /\ sock[a] # "opened"
        /\ Goto(a, "sendError")
        /\ UNCHANGED sockVars
  /\ UNCHANGED <<callerVars, sq, listVars, hand, flagVars, adapterVars>>

\* Mutant: a hard error ends the loop before the segment is saved.
MutantSendErrorBreaksFirst(a) ==
  /\ spc[a] = "sendError"
  /\ IF onPurpose[a] \/ errno[a] = "hard"
     THEN Goto(a, "end1") /\ UNCHANGED failed
     ELSE AddFailedSegment(a) /\ Goto(a, "loop")
  /\ UNCHANGED <<callerVars, sq, sent, lastSeq, hand, flagVars, adapterVars, sockVars>>

\* The segment goes to the failed list in every case; the loop ends on a
\* disconnection on purpose and on what errno calls a hard error.
SendError(a) ==
  /\ spc[a] = "sendError"
  /\ AddFailedSegment(a)
  /\ Goto(a, IF onPurpose[a] \/ errno[a] = "hard" THEN "end1" ELSE "loop")
  /\ UNCHANGED <<callerVars, sq, sent, lastSeq, hand, flagVars, adapterVars, sockVars>>

\* set_last_seq_no_*() and add_sent_segment_to_list().
SegmentSent(a) ==
  /\ spc[a] = "sent"
  /\ lastSeq' = [lastSeq EXCEPT ![a][hand[a].kind] = hand[a].seq]
  /\ sent' = [sent EXCEPT ![a] = @ \cup {hand[a]}]
  /\ Goto(a, "loop")
  /\ UNCHANGED <<callerVars, sq, failed, hand, flagVars, adapterVars, sockVars>>

\* A condition variable may let its thread go without a notification:
\* wait_until_enable_loop(), wait_until_resume_loop() and dequeue() return.
SpuriousWakeup(a) ==
  /\ spurious < MaxSpurious
  /\ spurious' = spurious + 1
  /\ \/ spc[a] = "enableWait" /\ Goto(a, "begin")
     \/ spc[a] = "resumeWait" /\ Goto(a, "resumed")
     \/ spc[a] = "deqWait" /\ Goto(a, "deqWoken")
  /\ UNCHANGED <<callerVars, sq, listVars, hand, flagVars, adapterVars,
                 sock, errno, failures>>

-----------------------------------------------------------------------------
Caller(c) == SendToSegmentManager(c) \/ EnqueueToSend(c)

Sender(a) ==
  \/ WaitUntilEnableLoop(a) \/ BeginLoop(a) \/ EndLoop(a)
  \/ CheckEnabled(a) \/ CheckPaused(a)
  \/ PopFailedSegment(a) \/ DequeueToSend(a) \/ HaveSegment(a)
  \/ AdapterSend(a) \/ SocketSend(a) \/ SendError(a) \/ SegmentSent(a)

\* The do-while loop of a sender thread that finds itself paused.
PausedSender(a) ==
  Suspend(a) \/ WaitUntilResumeLoop(a) \/ Resumed(a) \/ SetActive(a)

(***************************************************************************)
(* The component on its own: every adapter stays connected, nobody sends   *)
(* commands, so that no sender is ever paused.  Module Handover composes   *)
(* it, and the paused senders, with the commands.                          *)
(***************************************************************************)
Init == SendInit(Adapters, {})
Next ==
  \/ \E c \in Callers : Caller(c)
  \/ \E a \in Adapters : Sender(a) \/ SpuriousWakeup(a)
Spec == Init /\ [][Next]_sendVars

\* Runnable threads run; an application need never send.
SendFairness ==
  /\ \A c \in Callers : WF_sendVars(EnqueueToSend(c))
  /\ \A a \in Adapters : WF_sendVars(Sender(a))

FairSpec == Spec /\ SendFairness

-----------------------------------------------------------------------------
\* A sender thread at one of these places owns the segment in its hand.
HoldsSegment(a) ==
  spc[a] \in {"have", "send", "sendConnecting", "socket", "sendError", "sent"}

\* How many owners segment s has, and the two kinds of places it can be at.
Reserved(c, s) == CallerKind[c] = s.kind /\ s.seq \in todo[c].first..todo[c].last
Queued(s) == s.seq \in ToSet(sq[s.kind].main) \cup ToSet(sq[s.kind].pending)

Owners(s) ==
  {<<"caller", c>> : c \in {d \in Callers : Reserved(d, s)}}
  \cup {<<"queue", s.kind>> : x \in {y \in {s} : Queued(y)}}
  \cup {<<"failed", i>> : i \in {j \in 1..Len(failed) : failed[j] = s}}
  \cup {<<"hand", a>> : a \in {b \in Adapters : HoldsSegment(b) /\ hand[b] = s}}
  \cup {<<"sent", a>> : a \in {b \in Adapters : s \in sent[b]}}

(***************************************************************************)
(* No segment is lost and none is duplicated, whatever the sender threads, *)
(* the errors and the commands do: a number that get_next_seq_no() gave    *)
(* out is at one place, from the caller over the queue, a sender's hand    *)
(* and the failed list to the sent list.  A second copy would make the     *)
(* peer's SegmentQueue abort, a lost one would block its stream.           *)
(***************************************************************************)
SegmentsConserved ==
  \A k \in Kinds : \A n \in 0..(nextSeq[k] - 1) :
    Cardinality(Owners([kind |-> k, seq |-> n])) = 1

\* Both send queues are in order although callers enqueue concurrently, and
\* the state of the senders is that of the code.
SendQueuesInOrder ==
  /\ SendTypeOK
  /\ \A k \in Kinds : MainContinuous(sq[k]) /\ PendingInOrder(sq[k])

(***************************************************************************)
(* The assertions of SegmentQueue::enqueue() hold for every caller: two    *)
(* threads never reserve the same number.                                  *)
(***************************************************************************)
SendAssertionsNeverFail ==
  \A c \in Callers : Busy(c) => AssertionsHold(sq[CallerKind[c]], todo[c].first)

SentSegments == UNION {sent[a] : a \in Adapters}

(***************************************************************************)
(* As long as no sender thread ended on a hard error, every segment a      *)
(* caller reserved is eventually sent by some adapter: no wake-up of a     *)
(* waiting sender thread is lost and no segment stays in a list for ever.  *)
(***************************************************************************)
EventuallySent ==
  \A k \in Kinds : \A n \in 0..(MaxSeq[k] - 1) :
    (nextSeq[k] > n) ~> \/ [kind |-> k, seq |-> n] \in SentSegments
                        \/ \E a \in Adapters : errno[a] = "hard"
=============================================================================
