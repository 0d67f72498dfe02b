---------------------------- MODULE HandoverProofs ----------------------------
(***************************************************************************)
(* Proofs about SendPath, for any number of adapters, callers and          *)
(* segments and any errors of the sockets, and about Handover, for any     *)
(* number of switches and requests of the peer on top of it.  The lemmas   *)
(* on the steps of a caller and of a sender serve both: the commands of    *)
(* Handover pause, resume, enable and disable the same senders.            *)
(***************************************************************************)
EXTENDS Handover, SegmentQueueProofs, FiniteSetTheorems

(***************************************************************************)
(* Part 1: SendPath                                                        *)
(***************************************************************************)
\* Where segment s is once a sender has taken it from its queue.
InFailed(s, i) == i \in 1..Len(failed) /\ failed[i] = s
InHand(s, a) == HoldsSegment(a) /\ hand[a] = s
InSent(s, a) == s \in sent[a]

\* dequeue() has returned the segment to a sender.
Left(s) == s.seq < Taken(sq[s.kind])

QueuesSound == \A k \in Kinds : InOrder(sq[k])

(***************************************************************************)
(* Up to the queue: a number below mNextSeqNo is reserved by one caller or *)
(* has been accepted by the queue, and no other number is.                 *)
(***************************************************************************)
Upstream ==
  \A s \in Segments :
    /\ \A c \in Callers : Reserved(c, s) =>
         /\ s.seq < nextSeq[s.kind]
         /\ s.seq \notin Accepted(sq[s.kind])
         /\ \A d \in Callers : Reserved(d, s) => c = d
    /\ s.seq \in Accepted(sq[s.kind]) => s.seq < nextSeq[s.kind]
    /\ s.seq < nextSeq[s.kind] =>
         s.seq \in Accepted(sq[s.kind]) \/ \E c \in Callers : Reserved(c, s)

(***************************************************************************)
(* Behind the queue: a segment that has left it is in the failed list, in  *)
(* a hand or sent, at one place of one of them, and no other segment is.   *)
(***************************************************************************)
FailedOnce(s) ==
  \A i \in Nat : InFailed(s, i) =>
    /\ Left(s)
    /\ \A j \in Nat : InFailed(s, j) => i = j
    /\ \A a \in Adapters : ~InHand(s, a) /\ ~InSent(s, a)

HandOnce(s) ==
  \A a \in Adapters : InHand(s, a) =>
    /\ Left(s)
    /\ \A b \in Adapters : ~InSent(s, b) /\ (InHand(s, b) => a = b)

SentOnce(s) ==
  \A a \in Adapters : InSent(s, a) =>
    Left(s) /\ \A b \in Adapters : InSent(s, b) => a = b

NotGone(s) ==
  Left(s) => \/ \E i \in Nat : InFailed(s, i)
             \/ \E a \in Adapters : InHand(s, a) \/ InSent(s, a)

Placed(s) == FailedOnce(s) /\ HandOnce(s) /\ SentOnce(s) /\ NotGone(s)

Downstream == \A s \in Segments : Placed(s)

SendInv == SendTypeOK /\ QueuesSound /\ Upstream /\ Downstream

\* The parts of SendTypeOK that steps leave alone together.
CallersTyped ==
  /\ nextSeq \in [Kinds -> Nat]
  /\ todo \in [Callers -> [first : Nat, last : Int]]
  /\ \A c \in Callers : todo[c].first <= todo[c].last + 1

ListsTyped ==
  /\ failed \in Seq(Segments)
  /\ sent \in [Adapters -> SUBSET Segments]
  /\ hand \in [Adapters -> Segments]
  /\ lastSeq \in [Adapters -> [Kinds -> Nat \cup {NoSeq}]]

FlagsTyped ==
  /\ enabled \in [Adapters -> BOOLEAN]
  /\ paused \in [Adapters -> BOOLEAN]
  /\ loopEnds \in [Adapters -> BOOLEAN]
  /\ state \in [Adapters -> AdapterStates]
  /\ onPurpose \in [Adapters -> BOOLEAN]
  /\ sock \in [Adapters -> {"closed", "opening", "opened"}]
  /\ errno \in [Adapters -> {"zero", "soft", "hard"}]
  /\ failures \in Nat /\ spurious \in Nat

-----------------------------------------------------------------------------
\* A function changed at one argument keeps its domain and its range.
LEMMA Updated ==
  ASSUME NEW S, NEW T, NEW f \in [S -> T], NEW x \in S, NEW v \in T
  PROVE  [f EXCEPT ![x] = v] \in [S -> T]
  OBVIOUS

\* The type invariant is the conjunction of its parts.
LEMMA TypeParts ==
  SendTypeOK <=> /\ CallersTyped /\ ListsTyped /\ FlagsTyped
                 /\ sq \in [Kinds -> QueueType]
                 /\ spc \in [Adapters -> SenderPCs]
  BY Zenon DEF SendTypeOK, CallersTyped, ListsTyped, FlagsTyped, QueueType

\* The same split of the types after a step.
LEMMA TypePartsPrimed ==
  SendTypeOK' <=> /\ CallersTyped' /\ ListsTyped' /\ FlagsTyped'
                  /\ sq' \in [Kinds -> QueueType]
                  /\ spc' \in [Adapters -> SenderPCs]
  BY Zenon DEF SendTypeOK, CallersTyped, ListsTyped, FlagsTyped, QueueType

\* What the queues and the callers do not change stays at the queues.
LEMMA QuietUpstream ==
  ASSUME Upstream, UNCHANGED callerVars,
         \A k \in Kinds : Accepted(sq'[k]) = Accepted(sq[k])
  PROVE  Upstream'
<1>. SUFFICES ASSUME NEW s \in Segments
              PROVE  /\ \A c \in Callers : Reserved(c, s)' =>
                          /\ s.seq < nextSeq'[s.kind]
                          /\ s.seq \notin Accepted(sq'[s.kind])
                          /\ \A d \in Callers : Reserved(d, s)' => c = d
                     /\ s.seq \in Accepted(sq'[s.kind]) => s.seq < nextSeq'[s.kind]
                     /\ s.seq < nextSeq'[s.kind] =>
                          \/ s.seq \in Accepted(sq'[s.kind])
                          \/ \E c \in Callers : Reserved(c, s)'
  BY Zenon DEF Upstream
<1>1. s.kind \in Kinds
  BY DEF Segments
<1>2. Accepted(sq'[s.kind]) = Accepted(sq[s.kind]) /\ nextSeq' = nextSeq
  BY <1>1 DEF callerVars
<1>3. \A c \in Callers : Reserved(c, s)' <=> Reserved(c, s)
  BY DEF Reserved, callerVars
<1>. QED  BY <1>2, <1>3, Zenon DEF Upstream

\* A segment that has left its queue stays where it is.
LEMMA QuietDownstream ==
  ASSUME Downstream, ListsTyped, UNCHANGED <<failed, sent>>,
         \A k \in Kinds : Taken(sq'[k]) = Taken(sq[k]),
         \A a \in Adapters : HoldsSegment(a)' <=> HoldsSegment(a),
         \A a \in Adapters : HoldsSegment(a) => hand'[a] = hand[a]
  PROVE  Downstream'
<1>. SUFFICES ASSUME NEW s \in Segments
              PROVE  Placed(s)'
  BY DEF Downstream
<1>1. Left(s)' <=> Left(s)
  BY DEF Segments, Left
<1>2. \A a : InSent(s, a)' <=> InSent(s, a)
  BY DEF InSent
<1>3. \A a \in Adapters : InHand(s, a)' <=> InHand(s, a)
  BY DEF InHand
<1>4. \A i : InFailed(s, i)' <=> InFailed(s, i)
  BY DEF InFailed
<1>5. Placed(s)
  BY DEF Downstream
<1>. QED
  BY <1>1, <1>2, <1>3, <1>4, <1>5, Zenon
  DEF Placed, FailedOnce, HandOnce, SentOnce, NotGone

(***************************************************************************)
(* A step that moves no segment: callers, queues, lists and hands are left *)
(* alone, and who holds a segment holds it still.                          *)
(***************************************************************************)
LEMMA QuietStep ==
  ASSUME SendInv, UNCHANGED <<callerVars, sq, listVars, hand>>,
         spc' \in [Adapters -> SenderPCs], FlagsTyped',
         \A a \in Adapters : HoldsSegment(a)' <=> HoldsSegment(a)
  PROVE  SendInv'
<1>1. /\ CallersTyped /\ ListsTyped /\ FlagsTyped /\ sq \in [Kinds -> QueueType]
      /\ QueuesSound /\ Upstream /\ Downstream
  BY TypeParts, Zenon DEF SendInv
<1>2. CallersTyped' /\ ListsTyped'
  BY <1>1, Zenon DEF CallersTyped, ListsTyped, callerVars, listVars
<1>3. sq' \in [Kinds -> QueueType]
  BY <1>1
<1>4. SendTypeOK'
  BY <1>2, <1>3, TypePartsPrimed, Zenon
<1>5. QueuesSound'
  BY <1>1 DEF QueuesSound
<1>6. Upstream'
  BY <1>1, QuietUpstream
<1>7. Downstream'
  BY <1>1, QuietDownstream DEF listVars
<1>. QED  BY <1>4, <1>5, <1>6, <1>7 DEF SendInv

\* Where a sender that holds a segment is.
Holding == {"have", "send", "sendConnecting", "socket", "sendError", "sent"}

\* A sender goes on from one place to another.
LEMMA GotoKeeps ==
  ASSUME spc \in [Adapters -> SenderPCs], NEW a \in Adapters,
         NEW l \in SenderPCs, Goto(a, l)
  PROVE  /\ spc' \in [Adapters -> SenderPCs]
         /\ HoldsSegment(a)' <=> l \in Holding
         /\ \A b \in Adapters : b # a => (HoldsSegment(b)' <=> HoldsSegment(b))
<1>1. spc' = [spc EXCEPT ![a] = l]
  BY DEF Goto
<1>2. spc' \in [Adapters -> SenderPCs]
  BY <1>1, Updated, Zenon
<1>3. spc'[a] = l /\ \A b \in Adapters : b # a => spc'[b] = spc[b]
  BY <1>1
<1>. QED  BY <1>2, <1>3 DEF HoldsSegment, Holding

\* A sender goes on without taking or giving up a segment.
LEMMA QuietGoto ==
  ASSUME SendInv, NEW a \in Adapters, NEW l \in SenderPCs, Goto(a, l),
         UNCHANGED <<callerVars, sq, listVars, hand>>, FlagsTyped',
         l \in Holding <=> HoldsSegment(a)
  PROVE  SendInv'
<1>1. spc \in [Adapters -> SenderPCs]
  BY DEF SendInv, SendTypeOK
<1>2. /\ spc' \in [Adapters -> SenderPCs]
      /\ \A b \in Adapters : HoldsSegment(b)' <=> HoldsSegment(b)
  BY <1>1, GotoKeeps
<1>. QED  BY <1>2, QuietStep

\* SenderThread::run() around the loop, and the tests of its flags.
LEMMA LoopStep ==
  ASSUME SendInv, NEW a \in Adapters,
         \/ WaitUntilEnableLoop(a) \/ BeginLoop(a) \/ EndLoop(a)
         \/ CheckEnabled(a) \/ CheckPaused(a)
  PROVE  SendInv'
<1>1. FlagsTyped
  BY TypeParts, Zenon DEF SendInv
<1>2. UNCHANGED <<callerVars, sq, listVars, hand, adapterVars, sockVars>>
  BY DEF WaitUntilEnableLoop, BeginLoop, EndLoop, CheckEnabled, CheckPaused, flagVars
<1>3. TRUE \in BOOLEAN /\ FALSE \in BOOLEAN
  OBVIOUS
<1>4. FlagsTyped'
  <2>1. enabled' = enabled \/ enabled' = [enabled EXCEPT ![a] = FALSE]
    BY DEF WaitUntilEnableLoop, BeginLoop, EndLoop, CheckEnabled, CheckPaused, flagVars
  <2>2. paused' = paused \/ paused' = [paused EXCEPT ![a] = FALSE]
    BY DEF WaitUntilEnableLoop, BeginLoop, EndLoop, CheckEnabled, CheckPaused, flagVars
  <2>3. \/ loopEnds' = loopEnds \/ loopEnds' = [loopEnds EXCEPT ![a] = FALSE]
        \/ loopEnds' = [loopEnds EXCEPT ![a] = TRUE]
    BY DEF WaitUntilEnableLoop, BeginLoop, EndLoop, CheckEnabled, CheckPaused, flagVars
  <2>4. enabled' \in [Adapters -> BOOLEAN]
    BY <1>1, <1>3, <2>1, Updated, Zenon DEF FlagsTyped
  <2>5. paused' \in [Adapters -> BOOLEAN]
    BY <1>1, <1>3, <2>2, Updated, Zenon DEF FlagsTyped
  <2>6. loopEnds' \in [Adapters -> BOOLEAN]
    BY <1>1, <1>3, <2>3, Updated, Zenon DEF FlagsTyped
  <2>. QED
    BY <1>1, <1>2, <2>4, <2>5, <2>6, Zenon DEF FlagsTyped, adapterVars, sockVars
<1>5. ~HoldsSegment(a)
  BY DEF HoldsSegment, WaitUntilEnableLoop, BeginLoop, EndLoop, CheckEnabled, CheckPaused
<1>6. \E l \in SenderPCs : Goto(a, l) /\ l \notin Holding
  <2>1. \E l \in {"begin", "enableWait", "loop", "end1", "end2", "end3", "idle",
                  "checkPaused", "suspend", "popFailed"} : Goto(a, l)
    BY DEF WaitUntilEnableLoop, BeginLoop, EndLoop, CheckEnabled, CheckPaused
  <2>. QED  BY <2>1 DEF SenderPCs, Holding
<1>. QED  BY <1>2, <1>4, <1>5, <1>6, QuietGoto

\* A paused sender: SenderThread.cpp suspends and resumes it with nothing in
\* its hand.
LEMMA PausedSenderStep ==
  ASSUME SendInv, NEW a \in Adapters, PausedSender(a)
  PROVE  SendInv'
<1>. USE DEF PausedSender
<1>1. FlagsTyped
  BY TypeParts, Zenon DEF SendInv
<1>2. UNCHANGED <<callerVars, sq, listVars, hand, flagVars, onPurpose, sockVars>>
  BY DEF Suspend, WaitUntilResumeLoop, Resumed, SetActive, adapterVars
<1>3. FlagsTyped'
  <2>1. \/ state' = state \/ state' = [state EXCEPT ![a] = "Sleeping"]
        \/ state' = [state EXCEPT ![a] = "Active"]
    BY DEF Suspend, WaitUntilResumeLoop, Resumed, SetActive, adapterVars
  <2>2. state' \in [Adapters -> AdapterStates]
    BY <1>1, <2>1 DEF FlagsTyped, AdapterStates
  <2>. QED  BY <1>1, <1>2, <2>2, Zenon DEF FlagsTyped, flagVars, sockVars
<1>4. ~HoldsSegment(a)
  BY DEF HoldsSegment, Suspend, WaitUntilResumeLoop, Resumed, SetActive
<1>5. \E l \in SenderPCs : Goto(a, l) /\ l \notin Holding
  <2>1. \E l \in {"waitResume", "resumeWait", "resumed", "checkPaused", "setActive"} :
          Goto(a, l)
    BY DEF Suspend, WaitUntilResumeLoop, Resumed, SetActive
  <2>. QED  BY <2>1 DEF SenderPCs, Holding
<1>. QED  BY <1>2, <1>3, <1>4, <1>5, QuietGoto

\* ServerAdapter::send() and ServerSocket::send() keep the segment in hand.
LEMMA TransmitStep ==
  ASSUME SendInv, NEW a \in Adapters, AdapterSend(a) \/ SocketSend(a)
  PROVE  SendInv'
<1>1. FlagsTyped
  BY TypeParts, Zenon DEF SendInv
<1>2. UNCHANGED <<callerVars, sq, listVars, hand, flagVars, adapterVars>>
  BY DEF AdapterSend, SocketSend
<1>3. FlagsTyped'
  <2>1. \/ UNCHANGED sockVars
        \/ /\ \E e \in FailureKinds : errno' = [errno EXCEPT ![a] = e]
           /\ sock' = sock \/ sock' = [sock EXCEPT ![a] = "closed"]
           /\ failures' = failures + 1 /\ spurious' = spurious
    BY DEF AdapterSend, SocketSend
  <2>2. FailureKinds \subseteq {"zero", "soft", "hard"}
    BY SendAssumption
  <2>3. /\ sock' \in [Adapters -> {"closed", "opening", "opened"}]
        /\ errno' \in [Adapters -> {"zero", "soft", "hard"}]
        /\ failures' \in Nat /\ spurious' \in Nat
    BY <1>1, <2>1, <2>2 DEF FlagsTyped, sockVars
  <2>. QED  BY <1>1, <1>2, <2>3, Zenon DEF FlagsTyped, flagVars, adapterVars
<1>4. HoldsSegment(a)
  BY DEF HoldsSegment, AdapterSend, SocketSend
<1>5. \E l \in SenderPCs : Goto(a, l) /\ l \in Holding
  <2>1. \E l \in {"socket", "sendConnecting", "sendError", "sent"} : Goto(a, l)
    BY DEF AdapterSend, SocketSend
  <2>. QED  BY <2>1 DEF SenderPCs, Holding
<1>. QED  BY <1>2, <1>3, <1>4, <1>5, QuietGoto

\* A sender goes on and moves a segment behind the queue: what is left to
\* show of such a step.
LEMMA MovingGoto ==
  ASSUME SendInv, NEW a \in Adapters, NEW l \in SenderPCs, Goto(a, l),
         UNCHANGED <<callerVars, flagVars, adapterVars, sockVars>>,
         sq' \in [Kinds -> QueueType], QueuesSound',
         \A k \in Kinds : Accepted(sq'[k]) = Accepted(sq[k]),
         ListsTyped', Downstream'
  PROVE  SendInv'
<1>1. CallersTyped /\ FlagsTyped /\ spc \in [Adapters -> SenderPCs] /\ Upstream
  BY TypeParts, Zenon DEF SendInv
<1>2. CallersTyped' /\ FlagsTyped'
  BY <1>1, Zenon DEF CallersTyped, FlagsTyped, callerVars, flagVars, adapterVars, sockVars
<1>3. spc' \in [Adapters -> SenderPCs]
  BY <1>1, GotoKeeps
<1>4. SendTypeOK'
  BY <1>2, <1>3, TypePartsPrimed, Zenon
<1>5. Upstream'
  BY <1>1, QuietUpstream
<1>. QED  BY <1>4, <1>5 DEF SendInv

\* Head and tail of the failed list.
LEMMA FailedHead ==
  ASSUME ListsTyped, failed # <<>>
  PROVE  /\ Head(failed) \in Segments /\ Tail(failed) \in Seq(Segments)
         /\ \A s : InFailed(s, 1) <=> s = Head(failed)
         /\ \A s, i : i \in 1..Len(Tail(failed)) /\ Tail(failed)[i] = s
                        <=> i \in Nat \ {0} /\ InFailed(s, i + 1)
<1>1. failed \in Seq(Segments)
  BY DEF ListsTyped
<1>2. /\ Len(failed) \in Nat \ {0} /\ Head(failed) = failed[1]
      /\ Tail(failed) \in Seq(Segments) /\ Len(Tail(failed)) = Len(failed) - 1
      /\ \A i \in 1..(Len(failed) - 1) : Tail(failed)[i] = failed[i + 1]
      /\ failed[1] \in Segments
  BY <1>1
<1>3. ASSUME NEW s, NEW i
      PROVE  i \in 1..Len(Tail(failed)) /\ Tail(failed)[i] = s
               <=> i \in Nat \ {0} /\ InFailed(s, i + 1)
  <2>1. i \in 1..Len(Tail(failed)) <=> i \in Nat \ {0} /\ i + 1 \in 1..Len(failed)
    BY <1>2
  <2>2. i \in 1..Len(Tail(failed)) => Tail(failed)[i] = failed[i + 1]
    BY <1>2
  <2>. QED  BY <2>1, <2>2 DEF InFailed
<1>4. 1 \in 1..Len(failed)
  BY <1>2
<1>. QED  BY <1>2, <1>3, <1>4 DEF InFailed

(***************************************************************************)
(* pop_failed_segment(): the first segment of the failed list moves to the *)
(* hand of the sender.                                                     *)
(***************************************************************************)
LEMMA PopFailedStep ==
  ASSUME SendInv, NEW a \in Adapters, PopFailedSegment(a)
  PROVE  SendInv'
<1>1. /\ FlagsTyped /\ ListsTyped /\ Downstream /\ QueuesSound
      /\ sq \in [Kinds -> QueueType] /\ spc \in [Adapters -> SenderPCs]
  BY TypeParts, Zenon DEF SendInv
<1>2. ~HoldsSegment(a)
  BY DEF HoldsSegment, PopFailedSegment
<1>3. UNCHANGED <<callerVars, sq, sent, lastSeq, flagVars, adapterVars, sockVars>>
  BY DEF PopFailedSegment
<1>4. CASE failed = <<>>
  <2>1. Goto(a, "dequeue") /\ UNCHANGED <<failed, hand>>
    BY <1>4 DEF PopFailedSegment
  <2>2. "dequeue" \in SenderPCs /\ "dequeue" \notin Holding
    BY DEF SenderPCs, Holding
  <2>3. UNCHANGED <<callerVars, sq, listVars, hand>>
    BY <1>3, <2>1 DEF listVars
  <2>4. FlagsTyped'
    BY <1>1, <1>3, Zenon DEF FlagsTyped, flagVars, adapterVars, sockVars
  <2>. QED  BY <1>2, <2>1, <2>2, <2>3, <2>4, QuietGoto
<1>5. CASE failed # <<>>
  <2>. DEFINE m == Head(failed)
  <2>1. /\ hand' = [hand EXCEPT ![a] = m] /\ failed' = Tail(failed)
        /\ Goto(a, "have")
    BY <1>5 DEF PopFailedSegment
  <2>2. "have" \in SenderPCs /\ "have" \in Holding
    BY DEF SenderPCs, Holding
  <2>3. /\ m \in Segments /\ Tail(failed) \in Seq(Segments)
        /\ \A s : InFailed(s, 1) <=> s = m
        /\ \A s, i : i \in 1..Len(Tail(failed)) /\ Tail(failed)[i] = s
                       <=> i \in Nat \ {0} /\ InFailed(s, i + 1)
    BY <1>1, <1>5, FailedHead
  <2>. HIDE DEF m
  <2>4. ListsTyped'
    BY <1>1, <1>3, <2>1, <2>3 DEF ListsTyped
  <2>5. Downstream'
    <3>. SUFFICES ASSUME NEW s \in Segments
                  PROVE  Placed(s)'
      BY DEF Downstream
    <3>1. Left(s)' <=> Left(s)
      BY <1>3 DEF Left
    <3>2. \A b : InSent(s, b)' <=> InSent(s, b)
      BY <1>3 DEF InSent
    <3>3. \A i : InFailed(s, i)' <=> i \in Nat \ {0} /\ InFailed(s, i + 1)
      BY <2>1, <2>3 DEF InFailed
    <3>4. InHand(s, a)' <=> s = m
      <4>1. HoldsSegment(a)' /\ hand'[a] = m
        BY <1>1, <2>1, <2>2, GotoKeeps DEF ListsTyped
      <4>. QED  BY <4>1 DEF InHand
    <3>5. \A b \in Adapters : b # a => (InHand(s, b)' <=> InHand(s, b))
      <4>1. \A b \in Adapters : b # a => (HoldsSegment(b)' <=> HoldsSegment(b))
        BY <1>1, <2>1, <2>2, GotoKeeps
      <4>2. \A b \in Adapters : b # a => hand'[b] = hand[b]
        BY <1>1, <2>1 DEF ListsTyped
      <4>. QED  BY <4>1, <4>2 DEF InHand
    <3>6. ~InHand(s, a)
      BY <1>2 DEF InHand
    <3>7. Placed(s)
      BY <1>1 DEF Downstream
    <3>8. \A i, j \in Nat : i + 1 = j + 1 => i = j
      OBVIOUS
    <3>9. \A i \in Nat : i + 1 \in Nat /\ (i # 0 => i + 1 # 1)
      OBVIOUS
    <3>10. FailedOnce(s)'
      <4>. SUFFICES ASSUME NEW i \in Nat, InFailed(s, i)'
                    PROVE  /\ Left(s)'
                           /\ \A j \in Nat : InFailed(s, j)' => i = j
                           /\ \A b \in Adapters : ~InHand(s, b)' /\ ~InSent(s, b)'
        BY DEF FailedOnce
      <4>1. i \in Nat \ {0} /\ i + 1 \in Nat /\ InFailed(s, i + 1)
        BY <3>3
      <4>2. /\ Left(s) /\ \A j \in Nat : InFailed(s, j) => i + 1 = j
            /\ \A b \in Adapters : ~InHand(s, b) /\ ~InSent(s, b)
        BY <3>7, <4>1, Zenon DEF Placed, FailedOnce
      <4>3. \A j \in Nat : InFailed(s, j)' => i = j
        <5>. SUFFICES ASSUME NEW j \in Nat, InFailed(s, j)'
                      PROVE  i = j
          OBVIOUS
        <5>1. j + 1 \in Nat /\ InFailed(s, j + 1)
          BY <3>3
        <5>2. i + 1 = j + 1
          BY <4>2, <5>1
        <5>. QED  BY <5>2
      <4>4. s # m
        <5>1. i + 1 # 1
          BY <4>1
        <5>2. ~InFailed(s, 1)
          BY <4>2, <5>1
        <5>. QED  BY <2>3, <5>2
      <4>. QED  BY <3>1, <3>2, <3>4, <3>5, <4>2, <4>3, <4>4
    <3>11. s = m => /\ Left(s)
                    /\ \A b \in Adapters : ~InHand(s, b) /\ ~InSent(s, b)
      BY <2>3, <3>7 DEF Placed, FailedOnce
    <3>12. HandOnce(s)'
      <4>1. HandOnce(s)
        BY <3>7 DEF Placed
      <4>. QED  BY <3>1, <3>2, <3>4, <3>5, <3>11, <4>1, Zenon DEF HandOnce
    <3>13. SentOnce(s)'
      BY <3>1, <3>2, <3>7, Zenon DEF Placed, SentOnce
    <3>14. NotGone(s)'
      <4>. SUFFICES ASSUME Left(s)
                    PROVE  \/ \E i \in Nat : InFailed(s, i)'
                           \/ \E b \in Adapters : InHand(s, b)' \/ InSent(s, b)'
        BY <3>1 DEF NotGone
      <4>1. ASSUME NEW i \in Nat, InFailed(s, i), s # m
            PROVE  \E j \in Nat : InFailed(s, j)'
        <5>1. i # 1 /\ i # 0
          BY <2>3, <4>1 DEF InFailed
        <5>2. i - 1 \in Nat \ {0} /\ (i - 1) + 1 = i
          BY <5>1
        <5>3. InFailed(s, i - 1)'
          BY <3>3, <4>1, <5>2
        <5>. QED  BY <5>2, <5>3
      <4>. QED  BY <3>2, <3>4, <3>5, <3>6, <3>7, <4>1, Zenon DEF Placed, NotGone
    <3>. QED  BY <3>10, <3>12, <3>13, <3>14 DEF Placed
  <2>6. /\ sq' \in [Kinds -> QueueType] /\ QueuesSound'
        /\ \A k \in Kinds : Accepted(sq'[k]) = Accepted(sq[k])
    BY <1>1, <1>3 DEF QueuesSound
  <2>. QED  BY <1>3, <2>1, <2>2, <2>4, <2>5, <2>6, MovingGoto
<1>. QED  BY <1>4, <1>5

\* The failed list with one more segment at its end.
LEMMA FailedAppended ==
  ASSUME ListsTyped, NEW m \in Segments
  PROVE  /\ Append(failed, m) \in Seq(Segments)
         /\ \A s, i : i \in 1..Len(Append(failed, m)) /\ Append(failed, m)[i] = s
                        <=> InFailed(s, i) \/ (i = Len(failed) + 1 /\ s = m)
         /\ Len(failed) + 1 \in Nat
         /\ \A s : ~InFailed(s, Len(failed) + 1)
<1>1. failed \in Seq(Segments)
  BY DEF ListsTyped
<1>2. /\ Append(failed, m) \in Seq(Segments)
      /\ Len(failed) \in Nat
      /\ Len(Append(failed, m)) = Len(failed) + 1
      /\ \A i \in 1..Len(failed) : Append(failed, m)[i] = failed[i]
      /\ Append(failed, m)[Len(failed) + 1] = m
  BY <1>1
<1>3. \A i : /\ i \in 1..(Len(failed) + 1) <=> i \in 1..Len(failed) \/ i = Len(failed) + 1
             /\ ~(i \in 1..Len(failed) /\ i = Len(failed) + 1)
  BY <1>2
<1>. QED  BY <1>2, <1>3 DEF InFailed

(***************************************************************************)
(* add_failed_segment_to_list() by a sender that gives its segment up: the *)
(* segment moves from the hand to the end of the failed list.              *)
(***************************************************************************)
LEMMA AddFailedStep ==
  ASSUME SendInv, NEW a \in Adapters, HoldsSegment(a), AddFailedSegment(a),
         NEW l \in SenderPCs, l \notin Holding, Goto(a, l),
         UNCHANGED <<callerVars, sq, sent, lastSeq, hand, flagVars, adapterVars, sockVars>>
  PROVE  SendInv'
<1>1. /\ ListsTyped /\ Downstream /\ QueuesSound
      /\ sq \in [Kinds -> QueueType] /\ spc \in [Adapters -> SenderPCs]
  BY TypeParts, Zenon DEF SendInv
<1>. DEFINE m == hand[a]
            k == Len(failed) + 1
<1>2. m \in Segments /\ failed' = Append(failed, m)
  BY <1>1 DEF ListsTyped, AddFailedSegment
<1>. HIDE DEF m
<1>3. /\ Append(failed, m) \in Seq(Segments)
      /\ \A s, i : i \in 1..Len(Append(failed, m)) /\ Append(failed, m)[i] = s
                     <=> InFailed(s, i) \/ (i = k /\ s = m)
      /\ k \in Nat
      /\ \A s : ~InFailed(s, k)
  BY <1>1, <1>2, FailedAppended
<1>. HIDE DEF k
<1>4. ListsTyped'
  BY <1>1, <1>2, <1>3 DEF ListsTyped
<1>5. Downstream'
  <2>. SUFFICES ASSUME NEW s \in Segments
                PROVE  Placed(s)'
    BY DEF Downstream
  <2>1. Left(s)' <=> Left(s)
    BY DEF Left
  <2>2. \A b : InSent(s, b)' <=> InSent(s, b)
    BY DEF InSent
  <2>3. \A i : InFailed(s, i)' <=> InFailed(s, i) \/ (i = k /\ s = m)
    BY <1>2, <1>3 DEF InFailed
  <2>4. /\ ~HoldsSegment(a)'
        /\ \A b \in Adapters : b # a => (HoldsSegment(b)' <=> HoldsSegment(b))
    BY <1>1, GotoKeeps
  <2>5. /\ ~InHand(s, a)'
        /\ \A b \in Adapters : b # a => (InHand(s, b)' <=> InHand(s, b))
    BY <2>4 DEF InHand
  <2>6. InHand(s, a) <=> s = m
    BY DEF InHand, m
  <2>7. Placed(s)
    BY <1>1 DEF Downstream
  <2>8. s = m => /\ Left(s) /\ \A i \in Nat : ~InFailed(s, i)
                 /\ \A b \in Adapters : ~InSent(s, b) /\ (InHand(s, b) => a = b)
    BY <2>6, <2>7, Zenon DEF Placed, FailedOnce, HandOnce
  <2>9. FailedOnce(s)'
    <3>1. FailedOnce(s)
      BY <2>7 DEF Placed
    <3>. QED
      BY <1>3, <2>1, <2>2, <2>3, <2>5, <2>8, <3>1, Zenon DEF FailedOnce
  <2>10. HandOnce(s)'
    <3>1. HandOnce(s)
      BY <2>7 DEF Placed
    <3>. QED  BY <2>1, <2>2, <2>5, <3>1, Zenon DEF HandOnce
  <2>11. SentOnce(s)'
    BY <2>1, <2>2, <2>7, Zenon DEF Placed, SentOnce
  <2>12. NotGone(s)'
    <3>1. NotGone(s)
      BY <2>7 DEF Placed
    <3>. QED  BY <1>3, <2>1, <2>2, <2>3, <2>5, <2>6, <3>1, Zenon DEF NotGone
  <2>. QED  BY <2>9, <2>10, <2>11, <2>12 DEF Placed
<1>6. /\ sq' \in [Kinds -> QueueType] /\ QueuesSound'
      /\ \A j \in Kinds : Accepted(sq'[j]) = Accepted(sq[j])
  BY <1>1 DEF QueuesSound
<1>. QED  BY <1>4, <1>5, <1>6, MovingGoto

\* The two places where a sender gives its segment up.
LEMMA GiveUpStep ==
  ASSUME SendInv, NEW a \in Adapters, HaveSegment(a) \/ SendError(a)
  PROVE  SendInv'
<1>1. FlagsTyped
  BY TypeParts, Zenon DEF SendInv
<1>2. HoldsSegment(a)
  BY DEF HoldsSegment, HaveSegment, SendError
<1>3. UNCHANGED <<callerVars, sq, sent, lastSeq, hand, flagVars, adapterVars, sockVars>>
  BY DEF HaveSegment, SendError
<1>4. CASE UNCHANGED failed /\ Goto(a, "send")
  <2>1. "send" \in SenderPCs /\ "send" \in Holding
    BY DEF SenderPCs, Holding
  <2>2. UNCHANGED <<callerVars, sq, listVars, hand>>
    BY <1>3, <1>4 DEF listVars
  <2>3. FlagsTyped'
    BY <1>1, <1>3, Zenon DEF FlagsTyped, flagVars, adapterVars, sockVars
  <2>. QED  BY <1>2, <1>4, <2>1, <2>2, <2>3, QuietGoto
<1>5. CASE AddFailedSegment(a) /\ \E l \in {"loop", "end1"} : Goto(a, l)
  <2>1. \A l \in {"loop", "end1"} : l \in SenderPCs /\ l \notin Holding
    BY DEF SenderPCs, Holding
  <2>. QED  BY <1>2, <1>3, <1>5, <2>1, AddFailedStep
<1>6. \/ UNCHANGED failed /\ Goto(a, "send")
      \/ AddFailedSegment(a) /\ \E l \in {"loop", "end1"} : Goto(a, l)
  BY DEF HaveSegment, SendError
<1>. QED  BY <1>4, <1>5, <1>6

(***************************************************************************)
(* add_sent_segment_to_list(): the segment moves from the hand to the sent *)
(* list, for good.                                                         *)
(***************************************************************************)
LEMMA SegmentSentStep ==
  ASSUME SendInv, NEW a \in Adapters, SegmentSent(a)
  PROVE  SendInv'
<1>1. /\ ListsTyped /\ Downstream /\ QueuesSound
      /\ sq \in [Kinds -> QueueType] /\ spc \in [Adapters -> SenderPCs]
  BY TypeParts, Zenon DEF SendInv
<1>. DEFINE m == hand[a]
<1>2. m \in Segments /\ sent' = [sent EXCEPT ![a] = @ \cup {m}]
  BY <1>1 DEF ListsTyped, SegmentSent
<1>3. /\ UNCHANGED <<callerVars, sq, failed, hand, flagVars, adapterVars, sockVars>>
      /\ Goto(a, "loop") /\ HoldsSegment(a)
  BY DEF SegmentSent, HoldsSegment
<1>4. ListsTyped'
  <2>1. lastSeq' \in [Adapters -> [Kinds -> Nat \cup {NoSeq}]]
    BY <1>1 DEF ListsTyped, SegmentSent, Segments
  <2>2. sent' \in [Adapters -> SUBSET Segments]
    BY <1>1, <1>2 DEF ListsTyped
  <2>. QED  BY <1>1, <1>3, <2>1, <2>2 DEF ListsTyped
<1>5. "loop" \in SenderPCs /\ "loop" \notin Holding
  BY DEF SenderPCs, Holding
<1>6. Downstream'
  <2>. SUFFICES ASSUME NEW s \in Segments
                PROVE  Placed(s)'
    BY DEF Downstream
  <2>1. Left(s)' <=> Left(s)
    BY <1>3 DEF Left
  <2>2. \A i : InFailed(s, i)' <=> InFailed(s, i)
    BY <1>3 DEF InFailed
  <2>3. \A b \in Adapters : InSent(s, b)' <=> InSent(s, b) \/ (b = a /\ s = m)
    BY <1>1, <1>2 DEF InSent, ListsTyped
  <2>4. /\ ~HoldsSegment(a)'
        /\ \A b \in Adapters : b # a => (HoldsSegment(b)' <=> HoldsSegment(b))
    BY <1>1, <1>3, <1>5, GotoKeeps
  <2>5. /\ ~InHand(s, a)'
        /\ \A b \in Adapters : b # a => (InHand(s, b)' <=> InHand(s, b))
    BY <1>3, <2>4 DEF InHand
  <2>6. InHand(s, a) <=> s = m
    BY <1>3 DEF InHand
  <2>. HIDE DEF m
  <2>7. Placed(s)
    BY <1>1 DEF Downstream
  <2>8. s = m => /\ Left(s) /\ \A i \in Nat : ~InFailed(s, i)
                 /\ \A b \in Adapters : ~InSent(s, b) /\ (InHand(s, b) => a = b)
    BY <2>6, <2>7, Zenon DEF Placed, FailedOnce, HandOnce
  <2>9. FailedOnce(s)'
    <3>1. FailedOnce(s)
      BY <2>7 DEF Placed
    <3>. QED  BY <2>1, <2>2, <2>3, <2>5, <2>8, <3>1, Zenon DEF FailedOnce
  <2>10. HandOnce(s)'
    <3>1. HandOnce(s)
      BY <2>7 DEF Placed
    <3>. QED  BY <2>1, <2>3, <2>5, <2>8, <3>1, Zenon DEF HandOnce
  <2>11. SentOnce(s)'
    <3>1. SentOnce(s)
      BY <2>7 DEF Placed
    <3>. QED  BY <2>1, <2>3, <2>8, <3>1, Zenon DEF SentOnce
  <2>12. NotGone(s)'
    <3>1. NotGone(s)
      BY <2>7 DEF Placed
    <3>. QED  BY <2>1, <2>2, <2>3, <2>5, <2>6, <3>1, Zenon DEF NotGone
  <2>. QED  BY <2>9, <2>10, <2>11, <2>12 DEF Placed
<1>7. /\ sq' \in [Kinds -> QueueType] /\ QueuesSound'
      /\ \A j \in Kinds : Accepted(sq'[j]) = Accepted(sq[j])
  BY <1>1, <1>3 DEF QueuesSound
<1>. QED  BY <1>3, <1>4, <1>5, <1>6, <1>7, MovingGoto

(***************************************************************************)
(* dequeue(): the head of the control queue, or of the data queue, moves   *)
(* to the hand of the sender.                                              *)
(***************************************************************************)
LEMMA DequeueStep ==
  ASSUME SendInv, NEW a \in Adapters, DequeueToSend(a)
  PROVE  SendInv'
<1>1. /\ FlagsTyped /\ ListsTyped /\ Downstream /\ QueuesSound
      /\ sq \in [Kinds -> QueueType] /\ spc \in [Adapters -> SenderPCs]
  BY TypeParts, Zenon DEF SendInv
<1>2. ~HoldsSegment(a)
  BY DEF HoldsSegment, DequeueToSend
<1>3. UNCHANGED <<callerVars, listVars, flagVars, adapterVars, sockVars>>
  BY DEF DequeueToSend
<1>4. CASE SendQueuesEmpty
  <2>1. UNCHANGED <<sq, hand>> /\ \E l \in {"deqWait", "loop"} : Goto(a, l)
    BY <1>4 DEF DequeueToSend
  <2>2. \A l \in {"deqWait", "loop"} : l \in SenderPCs /\ l \notin Holding
    BY DEF SenderPCs, Holding
  <2>3. FlagsTyped'
    BY <1>1, <1>3, Zenon DEF FlagsTyped, flagVars, adapterVars, sockVars
  <2>. QED  BY <1>2, <1>3, <2>1, <2>2, <2>3, QuietGoto
<1>5. CASE ~SendQueuesEmpty
  <2>. DEFINE t == TargetQueue
              m == [kind |-> t, seq |-> Head(sq[t].main)]
  <2>1. /\ hand' = [hand EXCEPT ![a] = m]
        /\ sq' = [sq EXCEPT ![t] = Dequeue(sq[t])]
        /\ Goto(a, "have")
    BY <1>5 DEF DequeueToSend
  <2>2. t \in Kinds /\ sq[t].main # <<>>
    BY <1>5 DEF TargetQueue, SendQueuesEmpty, Kinds
  <2>. HIDE DEF t
  <2>3. InOrder(sq[t])
    BY <1>1, <2>2 DEF QueuesSound
  <2>4. /\ InOrder(Dequeue(sq[t])) /\ Accepted(Dequeue(sq[t])) = Accepted(sq[t])
        /\ Head(sq[t].main) \in Nat /\ Head(sq[t].main) = Taken(sq[t])
        /\ Taken(Dequeue(sq[t])) = Taken(sq[t]) + 1
    BY <2>2, <2>3, DequeueInOrder
  <2>5. \A k \in Kinds : /\ k # t => sq'[k] = sq[k]
                         /\ k = t => sq'[k] = Dequeue(sq[t])
    BY <1>1, <2>1
  <2>6. m \in Segments
    BY <2>2, <2>4 DEF Segments
  <2>7. "have" \in SenderPCs /\ "have" \in Holding
    BY DEF SenderPCs, Holding
  <2>8. ASSUME NEW s \in Segments
        PROVE  /\ Left(s)' <=> Left(s) \/ s = m
               /\ s = m => ~Left(s)
    <3>1. /\ s.kind \in Kinds /\ s.seq \in Nat
          /\ s = [kind |-> s.kind, seq |-> s.seq]
      BY DEF Segments
    <3>2. s = m <=> s.kind = t /\ s.seq = Taken(sq[t])
      BY <2>4, <3>1
    <3>3. Left(s)' <=> s.seq < Taken(sq'[s.kind])
      BY DEF Left
    <3>4. Left(s) <=> s.seq < Taken(sq[s.kind])
      BY DEF Left
    <3>5. CASE s.kind # t
      <4>1. Taken(sq'[s.kind]) = Taken(sq[s.kind])
        BY <2>5, <3>1, <3>5
      <4>. QED  BY <3>2, <3>3, <3>4, <3>5, <4>1
    <3>6. CASE s.kind = t
      <4>1. Taken(sq'[s.kind]) = Taken(sq[t]) + 1
        BY <2>4, <2>5, <3>1, <3>6
      <4>2. Taken(sq[t]) \in Nat
        BY <2>4
      <4>3. s.seq < Taken(sq[t]) + 1 <=> s.seq < Taken(sq[t]) \/ s.seq = Taken(sq[t])
        BY <3>1, <4>2
      <4>4. s.seq = Taken(sq[t]) => ~(s.seq < Taken(sq[t]))
        BY <3>1, <4>2
      <4>. QED  BY <3>2, <3>3, <3>4, <3>6, <4>1, <4>3, <4>4, Zenon
    <3>. QED  BY <3>5, <3>6
  <2>. HIDE DEF m
  <2>9. ListsTyped'
    BY <1>1, <1>3, <2>1, <2>6 DEF ListsTyped, listVars
  <2>10. Downstream'
    <3>. SUFFICES ASSUME NEW s \in Segments
                  PROVE  Placed(s)'
      BY DEF Downstream
    <3>1. (Left(s)' <=> Left(s) \/ s = m) /\ (s = m => ~Left(s))
      BY <2>8
    <3>2. \A b : InSent(s, b)' <=> InSent(s, b)
      BY <1>3 DEF InSent, listVars
    <3>3. \A i : InFailed(s, i)' <=> InFailed(s, i)
      BY <1>3 DEF InFailed, listVars
    <3>4. InHand(s, a)' <=> s = m
      <4>1. HoldsSegment(a)' /\ hand'[a] = m
        BY <1>1, <2>1, <2>7, GotoKeeps DEF ListsTyped
      <4>. QED  BY <4>1 DEF InHand
    <3>5. \A b \in Adapters : b # a => (InHand(s, b)' <=> InHand(s, b))
      <4>1. \A b \in Adapters : b # a => (HoldsSegment(b)' <=> HoldsSegment(b))
        BY <1>1, <2>1, <2>7, GotoKeeps
      <4>2. \A b \in Adapters : b # a => hand'[b] = hand[b]
        BY <1>1, <2>1 DEF ListsTyped
      <4>. QED  BY <4>1, <4>2 DEF InHand
    <3>6. ~InHand(s, a)
      BY <1>2 DEF InHand
    <3>7. FailedOnce(s) /\ HandOnce(s) /\ SentOnce(s) /\ NotGone(s)
      BY <1>1 DEF Downstream, Placed
    <3>8. s = m => /\ \A i \in Nat : ~InFailed(s, i)
                   /\ \A b \in Adapters : ~InHand(s, b) /\ ~InSent(s, b)
      BY <3>1, <3>7, Zenon DEF FailedOnce, HandOnce, SentOnce
    <3>9. FailedOnce(s)'
      BY <3>1, <3>2, <3>3, <3>4, <3>5, <3>7, <3>8, Zenon DEF FailedOnce
    <3>10. HandOnce(s)'
      BY <3>1, <3>2, <3>4, <3>5, <3>7, <3>8, Zenon DEF HandOnce
    <3>11. SentOnce(s)'
      BY <3>1, <3>2, <3>7, Zenon DEF SentOnce
    <3>12. NotGone(s)'
      BY <3>1, <3>2, <3>3, <3>4, <3>5, <3>6, <3>7, Zenon DEF NotGone
    <3>. QED  BY <3>9, <3>10, <3>11, <3>12 DEF Placed
  <2>11. sq' \in [Kinds -> QueueType]
    BY <1>1, <2>1, <2>2, <2>4, Updated, Zenon DEF InOrder
  <2>12. QueuesSound'
    BY <1>1, <2>4, <2>5 DEF QueuesSound
  <2>13. \A k \in Kinds : Accepted(sq'[k]) = Accepted(sq[k])
    BY <2>4, <2>5
  <2>. QED  BY <1>3, <2>1, <2>7, <2>9, <2>10, <2>11, <2>12, <2>13, MovingGoto
<1>. QED  BY <1>4, <1>5

\* Every step of SenderThread.
LEMMA SenderInv ==
  ASSUME SendInv, NEW a \in Adapters, Sender(a)
  PROVE  SendInv'
<1>1. CASE \/ WaitUntilEnableLoop(a) \/ BeginLoop(a) \/ EndLoop(a)
           \/ CheckEnabled(a) \/ CheckPaused(a)
  BY <1>1, LoopStep
<1>2. CASE PopFailedSegment(a)
  BY <1>2, PopFailedStep
<1>3. CASE DequeueToSend(a)
  BY <1>3, DequeueStep
<1>4. CASE HaveSegment(a) \/ SendError(a)
  BY <1>4, GiveUpStep
<1>5. CASE AdapterSend(a) \/ SocketSend(a)
  BY <1>5, TransmitStep
<1>6. CASE SegmentSent(a)
  BY <1>6, SegmentSentStep
<1>. QED  BY <1>1, <1>2, <1>3, <1>4, <1>5, <1>6 DEF Sender

\* A thread whose wait returns without a notification holds nothing.
LEMMA SpuriousStep ==
  ASSUME SendInv, NEW a \in Adapters, SpuriousWakeup(a)
  PROVE  SendInv'
<1>1. FlagsTyped
  BY TypeParts, Zenon DEF SendInv
<1>2. /\ UNCHANGED <<callerVars, sq, listVars, hand, flagVars, adapterVars>>
      /\ UNCHANGED <<sock, errno, failures>> /\ spurious' = spurious + 1
  BY DEF SpuriousWakeup
<1>3. FlagsTyped'
  <2>1. spurious' \in Nat
    BY <1>1, <1>2 DEF FlagsTyped
  <2>. QED  BY <1>1, <1>2, <2>1, Zenon DEF FlagsTyped, flagVars, adapterVars
<1>4. ~HoldsSegment(a)
  BY DEF HoldsSegment, SpuriousWakeup
<1>5. \E l \in SenderPCs : Goto(a, l) /\ l \notin Holding
  <2>1. \E l \in {"begin", "resumed", "deqWoken"} : Goto(a, l)
    BY DEF SpuriousWakeup
  <2>. QED  BY <2>1 DEF SenderPCs, Holding
<1>. QED  BY <1>2, <1>3, <1>4, <1>5, QuietGoto

-----------------------------------------------------------------------------
\* The numbers of a message that is about to be reserved.
LEMMA ReserveTyped ==
  ASSUME CallersTyped, NEW c \in Callers, NEW n \in Nat \ {0}, Reserve(c, n)
  PROVE  CallersTyped'
<1>. DEFINE k == CallerKind[c]
            r == [first |-> nextSeq[k], last |-> nextSeq[k] + n - 1]
<1>1. k \in Kinds /\ nextSeq[k] \in Nat
  BY SendAssumption DEF CallersTyped
<1>2. /\ nextSeq' = [nextSeq EXCEPT ![k] = nextSeq[k] + n]
      /\ todo' = [todo EXCEPT ![c] = r]
  BY DEF Reserve
<1>3. r \in [first : Nat, last : Int] /\ r.first <= r.last + 1
  BY <1>1
<1>. HIDE DEF k, r
<1>4. nextSeq' \in [Kinds -> Nat]
  BY <1>1, <1>2 DEF CallersTyped
<1>5. /\ todo' \in [Callers -> [first : Nat, last : Int]]
      /\ \A d \in Callers : todo'[d].first <= todo'[d].last + 1
  BY <1>2, <1>3 DEF CallersTyped
<1>. QED  BY <1>4, <1>5 DEF CallersTyped

(***************************************************************************)
(* get_next_seq_no(): the numbers reserved belong to the calling thread    *)
(* and to nobody else.                                                     *)
(***************************************************************************)
LEMMA ReserveUpstream ==
  ASSUME CallersTyped, Upstream, NEW c \in Callers, NEW n \in Nat \ {0},
         Reserve(c, n), sq' = sq
  PROVE  Upstream'
<1>. DEFINE k == CallerKind[c]
            b == nextSeq[k]
<1>1. k \in Kinds /\ b \in Nat /\ ~Busy(c)
  BY SendAssumption DEF CallersTyped, Reserve
<1>2. /\ nextSeq' = [nextSeq EXCEPT ![k] = b + n]
      /\ todo' = [todo EXCEPT ![c] = [first |-> b, last |-> b + n - 1]]
  BY DEF Reserve
<1>. SUFFICES ASSUME NEW s \in Segments
              PROVE  /\ \A d \in Callers : Reserved(d, s)' =>
                          /\ s.seq < nextSeq'[s.kind]
                          /\ s.seq \notin Accepted(sq'[s.kind])
                          /\ \A e \in Callers : Reserved(e, s)' => d = e
                     /\ s.seq \in Accepted(sq'[s.kind]) => s.seq < nextSeq'[s.kind]
                     /\ s.seq < nextSeq'[s.kind] =>
                          \/ s.seq \in Accepted(sq'[s.kind])
                          \/ \E d \in Callers : Reserved(d, s)'
  BY Zenon DEF Upstream
<1>3. s.kind \in Kinds /\ s.seq \in Nat /\ nextSeq[s.kind] \in Nat
  BY DEF Segments, CallersTyped
<1>4. \A d \in Callers : d # c => (Reserved(d, s)' <=> Reserved(d, s))
  BY <1>2 DEF Reserved, CallersTyped
<1>5. Reserved(c, s)' <=> s.kind = k /\ s.seq \in b..(b + n - 1)
  <2>1. todo'[c] = [first |-> b, last |-> b + n - 1]
    BY <1>2 DEF CallersTyped
  <2>. HIDE DEF b
  <2>. QED  BY <2>1 DEF Reserved
<1>6. ~Reserved(c, s)
  BY <1>1, <1>3 DEF Reserved, Busy, CallersTyped
<1>7. /\ \A d \in Callers : Reserved(d, s) =>
           /\ s.seq < nextSeq[s.kind]
           /\ s.seq \notin Accepted(sq[s.kind])
           /\ \A e \in Callers : Reserved(e, s) => d = e
      /\ s.seq \in Accepted(sq[s.kind]) => s.seq < nextSeq[s.kind]
      /\ s.seq < nextSeq[s.kind] =>
           \/ s.seq \in Accepted(sq[s.kind])
           \/ \E d \in Callers : Reserved(d, s)
  BY Zenon DEF Upstream
<1>8. /\ s.seq < nextSeq'[s.kind] <=> s.seq < nextSeq[s.kind] \/ Reserved(c, s)'
      /\ Reserved(c, s)' => ~(s.seq < nextSeq[s.kind])
  <2>1. CASE s.kind # k
    <3>1. nextSeq'[s.kind] = nextSeq[s.kind]
      BY <1>2, <1>3, <2>1 DEF CallersTyped
    <3>. QED  BY <1>5, <2>1, <3>1
  <2>2. CASE s.kind = k
    <3>1. nextSeq'[s.kind] = b + n /\ nextSeq[s.kind] = b
      BY <1>1, <1>2, <2>2 DEF CallersTyped
    <3>2. Reserved(c, s)' <=> s.seq \in b..(b + n - 1)
      BY <1>5, <2>2
    <3>. HIDE DEF b
    <3>3. /\ s.seq < b + n <=> s.seq < b \/ s.seq \in b..(b + n - 1)
          /\ s.seq \in b..(b + n - 1) => ~(s.seq < b)
      BY <1>1, <1>3
    <3>. QED  BY <3>1, <3>2, <3>3, Zenon
  <2>. QED  BY <2>1, <2>2
<1>9. sq' = sq
  OBVIOUS
<1>. QED  BY <1>4, <1>6, <1>7, <1>8, <1>9, Zenon

(***************************************************************************)
(* A thread reserves the numbers of a message, and changes nothing of what *)
(* follows the queues but flags.                                           *)
(***************************************************************************)
LEMMA ReserveStep ==
  ASSUME SendInv, NEW c \in Callers, NEW n \in Nat \ {0}, Reserve(c, n),
         UNCHANGED <<sq, listVars, spc, hand>>, FlagsTyped'
  PROVE  SendInv'
<1>1. /\ CallersTyped /\ ListsTyped /\ QueuesSound /\ Upstream /\ Downstream
      /\ sq \in [Kinds -> QueueType] /\ spc \in [Adapters -> SenderPCs]
  BY TypeParts, Zenon DEF SendInv
<1>2. CallersTyped' /\ Upstream'
  BY <1>1, ReserveTyped, ReserveUpstream
<1>3. ListsTyped'
  BY <1>1, Zenon DEF ListsTyped, listVars
<1>4. /\ sq' \in [Kinds -> QueueType] /\ spc' \in [Adapters -> SenderPCs]
      /\ QueuesSound'
  BY <1>1 DEF QueuesSound
<1>5. SendTypeOK'
  BY <1>2, <1>3, <1>4, TypePartsPrimed, Zenon
<1>6. Downstream'
  BY <1>1, QuietDownstream DEF listVars, HoldsSegment
<1>. QED  BY <1>2, <1>4, <1>5, <1>6 DEF SendInv

(***************************************************************************)
(* A number that a caller is about to enqueue passes the assertions of     *)
(* SegmentQueue::enqueue().                                                *)
(***************************************************************************)
LEMMA CallersAssertionsHold ==
  ASSUME SendInv
  PROVE  SendAssertionsNeverFail
<1>. SUFFICES ASSUME NEW c \in Callers, Busy(c)
              PROVE  AssertionsHold(sq[CallerKind[c]], todo[c].first)
  BY DEF SendAssertionsNeverFail
<1>. DEFINE k == CallerKind[c]
            n == todo[c].first
            s == [kind |-> k, seq |-> n]
<1>1. CallersTyped /\ sq \in [Kinds -> QueueType]
  BY TypeParts, Zenon DEF SendInv
<1>2. k \in Kinds /\ n \in Nat /\ todo[c].last \in Int /\ n <= todo[c].last
  BY <1>1, SendAssumption DEF CallersTyped, Busy
<1>3. n \in todo[c].first..todo[c].last
  BY <1>2
<1>. HIDE DEF n
<1>4. s \in Segments /\ s.kind = k /\ s.seq = n
  BY <1>2 DEF Segments
<1>5. Reserved(c, s)
  BY <1>3, <1>4 DEF Reserved
<1>. HIDE DEF s
<1>6. n \notin Accepted(sq[k])
  BY <1>4, <1>5 DEF SendInv, Upstream
<1>. QED  BY <1>1, <1>2, <1>6, NotAccepted DEF n

(***************************************************************************)
(* enqueue() of a message's next segment: its number moves from the caller *)
(* to the queue.                                                           *)
(***************************************************************************)
LEMMA EnqueueStep ==
  ASSUME SendInv, NEW c \in Callers, EnqueueToSend(c)
  PROVE  SendInv'
<1>. DEFINE k == CallerKind[c]
            n == todo[c].first
            l == todo[c].last
<1>1. /\ CallersTyped /\ ListsTyped /\ FlagsTyped /\ QueuesSound /\ Upstream
      /\ Downstream /\ sq \in [Kinds -> QueueType] /\ spc \in [Adapters -> SenderPCs]
  BY TypeParts, Zenon DEF SendInv
<1>2. k \in Kinds /\ n \in Nat /\ l \in Int /\ n <= l
  BY <1>1, SendAssumption DEF CallersTyped, EnqueueToSend, Busy
<1>3. /\ todo' = [todo EXCEPT ![c].first = n + 1]
      /\ sq' = [sq EXCEPT ![k] = Enqueue(sq[k], n)]
      /\ AssertionsHold(sq[k], n)
      /\ UNCHANGED <<nextSeq, listVars, hand, flagVars, adapterVars, sockVars>>
  BY DEF EnqueueToSend
<1>4. spc' = spc \/ spc' = WakeUpDequeueWaiting
  BY DEF EnqueueToSend
<1>5. todo[c] = [first |-> n, last |-> l]
  BY <1>1 DEF CallersTyped
<1>. HIDE DEF k, n, l
<1>6. InOrder(sq[k])
  BY <1>1, <1>2 DEF QueuesSound
<1>7. /\ InOrder(Enqueue(sq[k], n))
      /\ Accepted(Enqueue(sq[k], n)) = Accepted(sq[k]) \cup {n}
      /\ Taken(Enqueue(sq[k], n)) = Taken(sq[k])
  BY <1>2, <1>3, <1>6, EnqueueInOrder
<1>8. \A j \in Kinds : /\ j # k => sq'[j] = sq[j]
                       /\ j = k => sq'[j] = Enqueue(sq[k], n)
  BY <1>1, <1>3
<1>9. spc' \in [Adapters -> SenderPCs]
  <2>1. "deqWoken" \in SenderPCs
    BY DEF SenderPCs
  <2>. QED  BY <1>1, <1>4, <2>1 DEF WakeUpDequeueWaiting
<1>10. \A a \in Adapters : HoldsSegment(a)' <=> HoldsSegment(a)
  BY <1>1, <1>4 DEF WakeUpDequeueWaiting, HoldsSegment
<1>11. todo' = [todo EXCEPT ![c] = [first |-> n + 1, last |-> l]]
  <2>1. [todo[c] EXCEPT !.first = n + 1] = [first |-> n + 1, last |-> l]
    <3>1. [[first |-> n, last |-> l] EXCEPT !.first = n + 1]
            = [first |-> n + 1, last |-> l]
      OBVIOUS
    <3>. QED  BY <1>5, <3>1, Zenon
  <2>2. todo' = [todo EXCEPT ![c] = [todo[c] EXCEPT !.first = n + 1]]
    BY <1>3, Zenon
  <2>. QED  BY <2>1, <2>2, Zenon
<1>12. CallersTyped'
  <2>1. [first |-> n + 1, last |-> l] \in [first : Nat, last : Int] /\ n + 1 <= l + 1
    BY <1>2
  <2>2. /\ todo' \in [Callers -> [first : Nat, last : Int]]
        /\ \A d \in Callers : todo'[d].first <= todo'[d].last + 1
    BY <1>1, <1>11, <2>1 DEF CallersTyped
  <2>. QED  BY <1>1, <1>3, <2>2 DEF CallersTyped
<1>13. sq' \in [Kinds -> QueueType]
  BY <1>1, <1>2, <1>3, <1>7, Updated, Zenon DEF InOrder
<1>14. SendTypeOK'
  <2>1. ListsTyped' /\ FlagsTyped'
    BY <1>1, <1>3, Zenon
    DEF ListsTyped, FlagsTyped, listVars, flagVars, adapterVars, sockVars
  <2>. QED  BY <1>9, <1>12, <1>13, <2>1, TypePartsPrimed, Zenon
<1>15. QueuesSound'
  BY <1>1, <1>7, <1>8 DEF QueuesSound
<1>16. Downstream'
  <2>1. \A j \in Kinds : Taken(sq'[j]) = Taken(sq[j])
    BY <1>7, <1>8
  <2>. QED  BY <1>1, <1>3, <1>10, <2>1, QuietDownstream DEF listVars
<1>17. Upstream'
  <2>. SUFFICES ASSUME NEW s \in Segments
                PROVE  /\ \A d \in Callers : Reserved(d, s)' =>
                            /\ s.seq < nextSeq'[s.kind]
                            /\ s.seq \notin Accepted(sq'[s.kind])
                            /\ \A e \in Callers : Reserved(e, s)' => d = e
                       /\ s.seq \in Accepted(sq'[s.kind]) => s.seq < nextSeq'[s.kind]
                       /\ s.seq < nextSeq'[s.kind] =>
                            \/ s.seq \in Accepted(sq'[s.kind])
                            \/ \E d \in Callers : Reserved(d, s)'
    BY Zenon DEF Upstream
  <2>. DEFINE moved == s.kind = k /\ s.seq = n
  <2>1. s.kind \in Kinds /\ s.seq \in Nat /\ nextSeq' = nextSeq
    BY <1>3 DEF Segments
  <2>2. \A d \in Callers : d # c => (Reserved(d, s)' <=> Reserved(d, s))
    BY <1>1, <1>11 DEF Reserved, CallersTyped
  <2>3. (Reserved(c, s)' <=> Reserved(c, s) /\ ~moved) /\ (moved => Reserved(c, s))
    <3>1. todo'[c] = [first |-> n + 1, last |-> l]
      BY <1>1, <1>11 DEF CallersTyped
    <3>2. Reserved(c, s)' <=> k = s.kind /\ s.seq \in (n + 1)..l
      BY <3>1 DEF Reserved, k
    <3>3. Reserved(c, s) <=> k = s.kind /\ s.seq \in n..l
      BY <1>5 DEF Reserved, k
    <3>4. /\ s.seq \in (n + 1)..l <=> s.seq \in n..l /\ s.seq # n
          /\ s.seq = n => s.seq \in n..l
      BY <1>2, <2>1
    <3>. QED  BY <3>2, <3>3, <3>4, Zenon
  <2>4. s.seq \in Accepted(sq'[s.kind]) <=> s.seq \in Accepted(sq[s.kind]) \/ moved
    BY <1>7, <1>8, <2>1
  <2>. HIDE DEF moved
  <2>5. /\ \A d \in Callers : Reserved(d, s) =>
             /\ s.seq < nextSeq[s.kind]
             /\ s.seq \notin Accepted(sq[s.kind])
             /\ \A e \in Callers : Reserved(e, s) => d = e
        /\ s.seq \in Accepted(sq[s.kind]) => s.seq < nextSeq[s.kind]
        /\ s.seq < nextSeq[s.kind] =>
             \/ s.seq \in Accepted(sq[s.kind])
             \/ \E d \in Callers : Reserved(d, s)
    BY <1>1, Zenon DEF Upstream
  <2>. QED  BY <2>1, <2>2, <2>3, <2>4, <2>5, Zenon
<1>. QED  BY <1>14, <1>15, <1>16, <1>17 DEF SendInv

\* Every step of send_to_segment_manager().
LEMMA CallerInv ==
  ASSUME SendInv, NEW c \in Callers, Caller(c)
  PROVE  SendInv'
<1>1. CASE SendToSegmentManager(c)
  <2>1. PICK n \in Lengths : Reserve(c, n)
    BY <1>1 DEF SendToSegmentManager
  <2>2. n \in Nat \ {0}
    BY SendAssumption
  <2>3. UNCHANGED <<sq, listVars, spc, hand, flagVars, adapterVars, sockVars>>
    BY <1>1 DEF SendToSegmentManager
  <2>4. FlagsTyped'
    <3>1. FlagsTyped
      BY TypeParts, Zenon DEF SendInv
    <3>. QED  BY <2>3, <3>1, Zenon DEF FlagsTyped, flagVars, adapterVars, sockVars
  <2>. QED  BY <2>1, <2>2, <2>3, <2>4, ReserveStep
<1>2. CASE EnqueueToSend(c)
  BY <1>2, EnqueueStep
<1>. QED  BY <1>1, <1>2 DEF Caller

-----------------------------------------------------------------------------
\* Nothing has been reserved and no sender holds anything at the start.
LEMMA SendInitInv ==
  ASSUME NEW C, NEW A, SendInit(C, A)
  PROVE  SendInv
<1>1. CallersTyped
  BY DEF SendInit, CallersTyped
<1>2. ListsTyped
  <2>1. [kind |-> "data", seq |-> 0] \in Segments
    BY DEF Segments, Kinds
  <2>. QED  BY <2>1 DEF SendInit, ListsTyped
<1>3. FlagsTyped
  <2>1. enabled \in [Adapters -> BOOLEAN]
    <3>1. enabled = [a \in Adapters |-> a \in C]
      BY DEF SendInit
    <3>2. \A a \in Adapters : (a \in C) \in BOOLEAN
      OBVIOUS
    <3>. QED  BY <3>1, <3>2, Zenon
  <2>2. paused \in [Adapters -> BOOLEAN]
    <3>1. paused = [a \in Adapters |-> a \in A]
      BY DEF SendInit
    <3>2. \A a \in Adapters : (a \in A) \in BOOLEAN
      OBVIOUS
    <3>. QED  BY <3>1, <3>2, Zenon
  <2>3. onPurpose \in [Adapters -> BOOLEAN] /\ loopEnds \in [Adapters -> BOOLEAN]
    BY DEF SendInit
  <2>4. state \in [Adapters -> AdapterStates]
    <3>1. \A a \in Adapters : state[a] \in {"Sleeping", "Active", "Disconnected"}
      BY DEF SendInit
    <3>2. state = [a \in Adapters |-> state[a]]
      BY DEF SendInit
    <3>. QED  BY <3>1, <3>2 DEF AdapterStates
  <2>5. /\ sock \in [Adapters -> {"closed", "opening", "opened"}]
        /\ errno \in [Adapters -> {"zero", "soft", "hard"}]
        /\ failures \in Nat /\ spurious \in Nat
    BY DEF SendInit
  <2>. QED  BY <2>1, <2>2, <2>3, <2>4, <2>5 DEF FlagsTyped
<1>4. spc \in [Adapters -> SenderPCs] /\ \A a \in Adapters : ~HoldsSegment(a)
  BY DEF SendInit, SenderPCs, HoldsSegment
<1>5. sq = [k \in Kinds |-> EmptyQueue]
  BY DEF SendInit
<1>6. /\ EmptyQueue \in QueueType /\ InOrder(EmptyQueue)
      /\ Accepted(EmptyQueue) = {} /\ Taken(EmptyQueue) = 0
  <2>1. <<>> \in Seq(Nat)
    OBVIOUS
  <2>2. EmptyQueue \in QueueType
    BY <2>1 DEF EmptyQueue, QueueType
  <2>3. MainContinuous(EmptyQueue) /\ PendingInOrder(EmptyQueue)
    BY DEF EmptyQueue, MainContinuous, PendingInOrder
  <2>4. Accepted(EmptyQueue) = {}
    BY DEF EmptyQueue, Accepted, ToSet
  <2>5. Taken(EmptyQueue) = 0
    BY DEF EmptyQueue, Taken
  <2>. QED  BY <2>2, <2>3, <2>4, <2>5 DEF InOrder
<1>7. sq \in [Kinds -> QueueType] /\ QueuesSound
  BY <1>5, <1>6 DEF QueuesSound
<1>8. SendTypeOK
  BY <1>1, <1>2, <1>3, <1>4, <1>7, TypeParts
<1>9. ASSUME NEW s \in Segments
      PROVE  /\ ~Left(s) /\ s.seq \notin Accepted(sq[s.kind])
             /\ ~(s.seq < nextSeq[s.kind])
             /\ \A c \in Callers : ~Reserved(c, s)
             /\ \A i \in Nat : ~InFailed(s, i)
             /\ \A a \in Adapters : ~InHand(s, a) /\ ~InSent(s, a)
  <2>1. s.kind \in Kinds /\ s.seq \in Nat
    BY DEF Segments
  <2>2. sq[s.kind] = EmptyQueue /\ nextSeq[s.kind] = 0
    BY <1>5, <2>1 DEF SendInit
  <2>3. ~Left(s) /\ s.seq \notin Accepted(sq[s.kind]) /\ ~(s.seq < nextSeq[s.kind])
    BY <1>6, <2>1, <2>2 DEF Left
  <2>4. \A c \in Callers : ~Reserved(c, s)
    BY <2>1 DEF SendInit, Reserved
  <2>5. \A i \in Nat : ~InFailed(s, i)
    BY DEF SendInit, InFailed
  <2>6. \A a \in Adapters : ~InHand(s, a) /\ ~InSent(s, a)
    BY <1>4 DEF SendInit, InHand, InSent
  <2>. QED  BY <2>3, <2>4, <2>5, <2>6
<1>10. Upstream
  BY <1>9, Zenon DEF Upstream
<1>11. Downstream
  BY <1>9, Zenon DEF Downstream, Placed, FailedOnce, HandOnce, SentOnce, NotGone
<1>. QED  BY <1>7, <1>8, <1>10, <1>11 DEF SendInv

\* The owners of a segment, place by place.
LEMMA OwnersOf ==
  ASSUME NEW s, ListsTyped
  PROVE  \A x : x \in Owners(s) <=>
           \/ \E c \in Callers : Reserved(c, s) /\ x = <<"caller", c>>
           \/ Queued(s) /\ x = <<"queue", s.kind>>
           \/ \E i \in Nat : InFailed(s, i) /\ x = <<"failed", i>>
           \/ \E a \in Adapters : InHand(s, a) /\ x = <<"hand", a>>
           \/ \E a \in Adapters : InSent(s, a) /\ x = <<"sent", a>>
<1>1. \A i : i \in 1..Len(failed) => i \in Nat
  OBVIOUS
<1>. QED  BY <1>1, Zenon DEF Owners, InFailed, InHand, InSent

(***************************************************************************)
(* In a state of SendInv every reserved number has exactly one owner.      *)
(***************************************************************************)
LEMMA OneOwner ==
  ASSUME SendInv
  PROVE  SegmentsConserved
<1>. SUFFICES ASSUME NEW k \in Kinds, NEW n \in 0..(nextSeq[k] - 1)
              PROVE  Cardinality(Owners([kind |-> k, seq |-> n])) = 1
  BY DEF SegmentsConserved
<1>. DEFINE s == [kind |-> k, seq |-> n]
<1>1. /\ ListsTyped /\ QueuesSound /\ Upstream /\ Downstream
      /\ nextSeq[k] \in Nat
  BY TypeParts DEF SendInv, CallersTyped
<1>2. s \in Segments /\ s.kind = k /\ s.seq = n /\ n \in Nat /\ n < nextSeq[k]
  BY <1>1 DEF Segments
<1>. HIDE DEF s
<1>3. InOrder(sq[k])
  BY <1>1 DEF QueuesSound
<1>4. /\ Left(s) => n \in Accepted(sq[k])
      /\ Queued(s) <=> n \in Accepted(sq[k]) /\ ~Left(s)
  BY <1>2, <1>3, QueuedWhen DEF Left, Queued
<1>5. /\ \A c \in Callers : Reserved(c, s) =>
           /\ n \notin Accepted(sq[k])
           /\ \A d \in Callers : Reserved(d, s) => c = d
      /\ n \in Accepted(sq[k]) \/ \E c \in Callers : Reserved(c, s)
  BY <1>1, <1>2, Zenon DEF Upstream
<1>6. FailedOnce(s) /\ HandOnce(s) /\ SentOnce(s) /\ NotGone(s)
  BY <1>1, <1>2 DEF Downstream, Placed
<1>7. \A x : x \in Owners(s) <=>
        \/ \E c \in Callers : Reserved(c, s) /\ x = <<"caller", c>>
        \/ Queued(s) /\ x = <<"queue", s.kind>>
        \/ \E i \in Nat : InFailed(s, i) /\ x = <<"failed", i>>
        \/ \E a \in Adapters : InHand(s, a) /\ x = <<"hand", a>>
        \/ \E a \in Adapters : InSent(s, a) /\ x = <<"sent", a>>
  BY <1>1, OwnersOf
<1>8. \E x : Owners(s) = {x}
  <2>1. ASSUME NEW c \in Callers, Reserved(c, s)
        PROVE  Owners(s) = {<<"caller", c>>}
    <3>1. ~Left(s) /\ ~Queued(s)
      BY <1>4, <1>5, <2>1
    <3>2. \A y : y \in Owners(s) <=> y = <<"caller", c>>
      BY <1>5, <1>6, <1>7, <2>1, <3>1, Zenon DEF FailedOnce, HandOnce, SentOnce
    <3>. QED  BY <3>2
  <2>2. ASSUME n \in Accepted(sq[k]), ~Left(s)
        PROVE  Owners(s) = {<<"queue", s.kind>>}
    <3>1. Queued(s) /\ \A c \in Callers : ~Reserved(c, s)
      BY <1>4, <1>5, <2>2
    <3>2. \A y : y \in Owners(s) <=> y = <<"queue", s.kind>>
      BY <1>6, <1>7, <2>2, <3>1, Zenon DEF FailedOnce, HandOnce, SentOnce
    <3>. QED  BY <3>2
  <2>3. Left(s) => ~Queued(s) /\ \A c \in Callers : ~Reserved(c, s)
    BY <1>4, <1>5, Zenon
  <2>4. ASSUME Left(s), NEW i \in Nat, InFailed(s, i)
        PROVE  Owners(s) = {<<"failed", i>>}
    <3>1. /\ \A j \in Nat : InFailed(s, j) => i = j
          /\ \A a \in Adapters : ~InHand(s, a) /\ ~InSent(s, a)
      BY <1>6, <2>4, Zenon DEF FailedOnce
    <3>2. \A y : y \in Owners(s) <=> y = <<"failed", i>>
      BY <1>7, <2>3, <2>4, <3>1, Zenon
    <3>. QED  BY <3>2
  <2>5. ASSUME Left(s), NEW a \in Adapters, InHand(s, a)
        PROVE  Owners(s) = {<<"hand", a>>}
    <3>1. /\ \A b \in Adapters : ~InSent(s, b) /\ (InHand(s, b) => a = b)
          /\ \A i \in Nat : ~InFailed(s, i)
      BY <1>6, <2>5, Zenon DEF FailedOnce, HandOnce
    <3>2. \A y : y \in Owners(s) <=> y = <<"hand", a>>
      BY <1>7, <2>3, <2>5, <3>1, Zenon
    <3>. QED  BY <3>2
  <2>6. ASSUME Left(s), NEW a \in Adapters, InSent(s, a)
        PROVE  Owners(s) = {<<"sent", a>>}
    <3>1. /\ \A b \in Adapters : ~InHand(s, b) /\ (InSent(s, b) => a = b)
          /\ \A i \in Nat : ~InFailed(s, i)
      BY <1>6, <2>6, Zenon DEF FailedOnce, HandOnce, SentOnce
    <3>2. \A y : y \in Owners(s) <=> y = <<"sent", a>>
      BY <1>7, <2>3, <2>6, <3>1, Zenon
    <3>. QED  BY <3>2
  <2>7. \/ \E c \in Callers : Reserved(c, s)
        \/ n \in Accepted(sq[k]) /\ ~Left(s)
        \/ Left(s) /\ \E i \in Nat : InFailed(s, i)
        \/ Left(s) /\ \E a \in Adapters : InHand(s, a)
        \/ Left(s) /\ \E a \in Adapters : InSent(s, a)
    BY <1>5, <1>6, Zenon DEF NotGone
  <2>8. CASE \E c \in Callers : Reserved(c, s)
    BY <2>1, <2>8, Zenon
  <2>9. CASE n \in Accepted(sq[k]) /\ ~Left(s)
    BY <2>2, <2>9, Zenon
  <2>10. CASE Left(s) /\ \E i \in Nat : InFailed(s, i)
    BY <2>4, <2>10, Zenon
  <2>11. CASE Left(s) /\ \E a \in Adapters : InHand(s, a)
    BY <2>5, <2>11, Zenon
  <2>12. CASE Left(s) /\ \E a \in Adapters : InSent(s, a)
    BY <2>6, <2>12, Zenon
  <2>. QED  BY <2>7, <2>8, <2>9, <2>10, <2>11, <2>12, Zenon
<1>9. PICK x : Owners(s) = {x}
  BY <1>8
<1>. QED  BY <1>9, FS_Singleton DEF s

\* SendInv has the type invariant and the order of the queues as a part.
LEMMA SoundQueues ==
  ASSUME SendInv
  PROVE  SendQueuesInOrder
  BY DEF SendInv, QueuesSound, InOrder, SendQueuesInOrder

\* The step of one sender leaves the invariant also of a whole step.
LEMMA SendNextInv ==
  ASSUME SendInv, [Next]_sendVars
  PROVE  SendInv'
<1>1. CASE \E c \in Callers : Caller(c)
  BY <1>1, CallerInv
<1>2. CASE \E a \in Adapters : Sender(a) \/ SpuriousWakeup(a)
  BY <1>2, SenderInv, SpuriousStep
<1>3. CASE UNCHANGED sendVars
  <2>1. UNCHANGED <<callerVars, sq, listVars, spc, hand, flagVars, adapterVars, sockVars>>
    BY <1>3 DEF sendVars
  <2>2. FlagsTyped /\ spc \in [Adapters -> SenderPCs]
    BY TypeParts, Zenon DEF SendInv
  <2>3. FlagsTyped'
    BY <2>1, <2>2, Zenon DEF FlagsTyped, flagVars, adapterVars, sockVars
  <2>. QED  BY <2>1, <2>2, <2>3, QuietStep DEF HoldsSegment
<1>. QED  BY <1>1, <1>2, <1>3 DEF Next

(***************************************************************************)
(* SendInv is an invariant of the senders and callers on their own.        *)
(***************************************************************************)
LEMMA SendInvariant == Spec => []SendInv
<1>1. Init => SendInv
  BY SendInitInv DEF Init
<1>2. SendInv /\ [Next]_sendVars => SendInv'
  BY SendNextInv
<1>. QED  BY <1>1, <1>2, PTL DEF Spec

(***************************************************************************)
(* No segment that a caller of send_to_segment_manager() reserved is lost  *)
(* or duplicated on its way to the sent list.                              *)
(***************************************************************************)
THEOREM SendConservesSegments == Spec => []SegmentsConserved
  BY SendInvariant, OneOwner, PTL

(***************************************************************************)
(* Both send queues are in order although any number of threads enqueue    *)
(* concurrently, and every variable keeps its type.                        *)
(***************************************************************************)
THEOREM SendKeepsQueuesInOrder == Spec => []SendQueuesInOrder
  BY SendInvariant, SoundQueues, PTL

(***************************************************************************)
(* The assertions of SegmentQueue::enqueue() hold for every caller.        *)
(***************************************************************************)
THEOREM SendAssertionsHold == Spec => []SendAssertionsNeverFail
  BY SendInvariant, CallersAssertionsHold, PTL

-----------------------------------------------------------------------------
(***************************************************************************)
(* Part 2: Handover                                                        *)
(***************************************************************************)
\* The types of the commands' own variables.
CommandsTyped ==
  /\ cpc \in [Commanders -> CommanderPCs]
  /\ tgt \in [Commanders -> Adapters]
  /\ old \in [Commanders -> AdapterStates]
  /\ after \in {"monitor", "sleep", "slept"}
  /\ ns \in {"ready", "switching"}
  /\ ongoing \in BOOLEAN
  /\ next \in Adapters /\ active \in Adapters
  /\ switches \in 0..MaxSwitches
  /\ requests \in 0..MaxPeerRequests

(***************************************************************************)
(* An adapter is Sleeping from the moment its sender says so to the moment *)
(* the sender itself, or a command, sets another state; in between the     *)
(* sender is in wait_until_resume_loop() or on its way out of it.          *)
(***************************************************************************)
SleeperWaits ==
  \A a \in Adapters : state[a] = "Sleeping" =>
    spc[a] \in {"waitResume", "resumeWait", "resumed", "setActive"}

HandoverInv == SendInv /\ CommandsTyped /\ SleeperWaits

-----------------------------------------------------------------------------
\* The switching thread sends its requests like any caller of the send path.
LEMMA MonitorIsCaller == Monitor \in Callers /\ Monitor # Peer
  BY HandoverAssumption

\* Where the callback of an operation of ServerAdapter leads.
LEMMA CallbackTyped ==
  ASSUME NEW c, NEW b, NEW o \in {"connect", "sleep", "disconnect"}
  PROVE  Callback(c, o, b) \in {"peerDone", "crashed", "doneFalse",
                                "connected", "slept", "doneTrue"}
  BY DEF Callback

\* The operations of a commander change single flags and states of its target.
FlagUpdate(a) ==
  /\ enabled' = enabled \/ \E b \in BOOLEAN : enabled' = [enabled EXCEPT ![a] = b]
  /\ paused' = paused \/ \E b \in BOOLEAN : paused' = [paused EXCEPT ![a] = b]
  /\ loopEnds' = loopEnds
  /\ state' = state \/ \E s \in AdapterStates : state' = [state EXCEPT ![a] = s]
  /\ onPurpose' = onPurpose \/ \E b \in BOOLEAN : onPurpose' = [onPurpose EXCEPT ![a] = b]
  /\ \/ sock' = sock
     \/ \E s \in {"closed", "opening", "opened"} : sock' = [sock EXCEPT ![a] = s]
  /\ errno' = errno /\ failures' = failures
  /\ spurious' \in {spurious, spurious + 1}

\* Such an update of a flag, a state or a label stays in its type.
LEMMA FlagUpdateTyped ==
  ASSUME FlagsTyped, NEW a \in Adapters, FlagUpdate(a)
  PROVE  FlagsTyped'
<1>1. enabled' \in [Adapters -> BOOLEAN]
  BY Updated, Zenon DEF FlagsTyped, FlagUpdate
<1>2. paused' \in [Adapters -> BOOLEAN]
  BY Updated, Zenon DEF FlagsTyped, FlagUpdate
<1>3. onPurpose' \in [Adapters -> BOOLEAN]
  BY Updated, Zenon DEF FlagsTyped, FlagUpdate
<1>4. state' \in [Adapters -> AdapterStates]
  BY Updated, Zenon DEF FlagsTyped, FlagUpdate
<1>5. sock' \in [Adapters -> {"closed", "opening", "opened"}]
  BY Updated, Zenon DEF FlagsTyped, FlagUpdate
<1>6. spurious' \in Nat
  BY DEF FlagsTyped, FlagUpdate
<1>. QED
  BY <1>1, <1>2, <1>3, <1>4, <1>5, <1>6, Zenon DEF FlagsTyped, FlagUpdate

\* What a command does to the sender threads: it notifies some that wait.  A
\* spurious wake-up does no more.
Notifies ==
  \/ spc' = spc
  \/ spc' = WakeUpDequeueWaiting
  \/ \E a \in Adapters : spc[a] = "enableWait" /\ Goto(a, "begin")
  \/ \E a \in Adapters : spc[a] = "resumeWait" /\ Goto(a, "resumed")
  \/ \E a \in Adapters : spc[a] = "deqWait" /\ Goto(a, "deqWoken")

\* A notification of wake_up_dequeue_waiting() or of a flag changes no owner.
LEMMA NotifiesKeeps ==
  ASSUME spc \in [Adapters -> SenderPCs], Notifies
  PROVE  /\ spc' \in [Adapters -> SenderPCs]
         /\ \A a \in Adapters : HoldsSegment(a)' <=> HoldsSegment(a)
         /\ \A a \in Adapters : \/ spc'[a] = spc[a]
                                \/ spc[a] = "deqWait" /\ spc'[a] = "deqWoken"
                                \/ spc[a] = "enableWait" /\ spc'[a] = "begin"
                                \/ spc[a] = "resumeWait" /\ spc'[a] = "resumed"
<1>1. {"deqWoken", "begin", "resumed"} \subseteq SenderPCs
  BY DEF SenderPCs
<1>2. spc' \in [Adapters -> SenderPCs]
  BY <1>1 DEF Notifies, Goto, WakeUpDequeueWaiting
<1>3. \A a \in Adapters : \/ spc'[a] = spc[a]
                          \/ spc[a] = "deqWait" /\ spc'[a] = "deqWoken"
                          \/ spc[a] = "enableWait" /\ spc'[a] = "begin"
                          \/ spc[a] = "resumeWait" /\ spc'[a] = "resumed"
  BY DEF Notifies, Goto, WakeUpDequeueWaiting
<1>4. \A a \in Adapters : HoldsSegment(a)' <=> HoldsSegment(a)
  BY <1>3 DEF HoldsSegment
<1>. QED  BY <1>2, <1>3, <1>4

(***************************************************************************)
(* A command moves no segment: it changes flags and states, notifies       *)
(* threads and, as any other caller, reserves the number of a request.     *)
(***************************************************************************)
LEMMA CommandKeepsSendInv ==
  ASSUME SendInv, NEW a \in Adapters, FlagUpdate(a), Notifies,
         UNCHANGED <<sq, listVars, hand>>,
         UNCHANGED callerVars \/ ((\E c \in Callers : SendRequest(c)) /\ spc' = spc)
  PROVE  SendInv'
<1>1. FlagsTyped /\ spc \in [Adapters -> SenderPCs]
  BY TypeParts, Zenon DEF SendInv
<1>2. FlagsTyped'
  BY <1>1, FlagUpdateTyped
<1>3. CASE UNCHANGED callerVars
  BY <1>1, <1>2, <1>3, NotifiesKeeps, QuietStep
<1>4. CASE (\E c \in Callers : SendRequest(c)) /\ spc' = spc
  <2>1. PICK c \in Callers : Reserve(c, 1)
    BY <1>4 DEF SendRequest
  <2>2. 1 \in Nat \ {0}
    OBVIOUS
  <2>. QED  BY <1>2, <1>4, <2>1, <2>2, ReserveStep
<1>. QED  BY <1>3, <1>4

\* All that a command does to the sending half.
CommandEffect(a) ==
  /\ FlagUpdate(a) /\ Notifies
  /\ UNCHANGED <<sq, listVars, hand>>
  /\ UNCHANGED callerVars \/ ((\E c \in Callers : SendRequest(c)) /\ spc' = spc)
  /\ \/ state' = state
     \/ \E s \in AdapterStates \ {"Sleeping"} : state' = [state EXCEPT ![a] = s]

\* A command that only reads touches nothing of the sending half.
LEMMA UnchangedEffect ==
  ASSUME UNCHANGED sendVars, NEW a
  PROVE  CommandEffect(a)
  BY DEF CommandEffect, FlagUpdate, Notifies, sendVars, flagVars, adapterVars, sockVars

\* A spurious wake-up of a sender does what a notification does, ...
LEMMA SpuriousSenderEffect ==
  ASSUME NEW a \in Adapters, SpuriousWakeup(a)
  PROVE  CommandEffect(a)
<1>1. Notifies
  BY DEF SpuriousWakeup, Notifies
<1>2. FlagUpdate(a)
  BY DEF SpuriousWakeup, FlagUpdate, flagVars, adapterVars
<1>. QED  BY <1>1, <1>2 DEF CommandEffect, SpuriousWakeup, adapterVars

\* ... and one of a commander moves that commander.
LEMMA SpuriousLoopEffect ==
  ASSUME NEW c, NEW a, SpuriousLoopEnds(c)
  PROVE  CommandEffect(a)
<1>1. Notifies
  BY DEF SpuriousLoopEnds, Notifies
<1>2. FlagUpdate(a)
  BY DEF SpuriousLoopEnds, FlagUpdate, flagVars, adapterVars
<1>. QED  BY <1>1, <1>2 DEF CommandEffect, SpuriousLoopEnds, adapterVars

\* connect() and wake_up(), up to the socket.
LEMMA ConnectEffect ==
  ASSUME NEW c \in Commanders, CommandsTyped,
         \/ Connect(c) \/ SetConnecting(c) \/ OpenSocket(c) \/ Accept(c)
         \/ EnableLoop(c) \/ ConnectDone(c)
  PROVE  CommandEffect(tgt[c])
<1>. DEFINE a == tgt[c]
<1>1. a \in Adapters
  BY DEF CommandsTyped
<1>2. /\ TRUE \in BOOLEAN /\ FALSE \in BOOLEAN
      /\ {"Connecting", "Disconnected", "Active"} \subseteq AdapterStates \ {"Sleeping"}
  BY DEF AdapterStates
<1>. USE DEF CommandEffect, FlagUpdate, Notifies
<1>3. CASE Connect(c)
  BY <1>3, UnchangedEffect DEF Connect, Elsewhere
<1>4. CASE SetConnecting(c)
  BY <1>2, <1>4 DEF SetConnecting, SetState, flagVars, adapterVars, sockVars
<1>5. CASE OpenSocket(c)
  <2>1. /\ sock' = sock \/ sock' = [sock EXCEPT ![a] = "opening"]
        /\ errno' = errno /\ failures' = failures /\ spurious' = spurious
    BY <1>5 DEF OpenSocket, SetSock, sockVars
  <2>2. UNCHANGED callerVars \/ \E d \in Callers : SendRequest(d)
    BY <1>5, MonitorIsCaller DEF OpenSocket
  <2>3. UNCHANGED <<sq, listVars, spc, hand, flagVars, adapterVars>>
    BY <1>5 DEF OpenSocket
  <2>. QED  BY <2>1, <2>2, <2>3 DEF flagVars, adapterVars
<1>6. CASE Accept(c)
  BY <1>2, <1>6 DEF Accept, SetState, SetSock, flagVars, adapterVars
<1>7. CASE EnableLoop(c)
  <2>1. spc' = spc \/ (spc[a] = "enableWait" /\ Goto(a, "begin"))
    BY <1>7 DEF EnableLoop, Goto
  <2>2. /\ enabled' = [enabled EXCEPT ![a] = TRUE]
        /\ UNCHANGED <<callerVars, sq, listVars, hand, paused, loopEnds, adapterVars, sockVars>>
    BY <1>7 DEF EnableLoop
  <2>3. Notifies
    BY <1>1, <2>1
  <2>4. FlagUpdate(a)
    BY <1>2, <2>2, Zenon DEF adapterVars, sockVars
  <2>. HIDE DEF FlagUpdate, Notifies
  <2>. QED  BY <2>2, <2>3, <2>4 DEF adapterVars
<1>8. CASE ConnectDone(c)
  BY <1>2, <1>8 DEF ConnectDone, SetState, flagVars, adapterVars, sockVars
<1>. QED  BY <1>3, <1>4, <1>5, <1>6, <1>7, <1>8

\* wake_up() and sleep().
LEMMA SleepEffect ==
  ASSUME NEW c \in Commanders, CommandsTyped,
         \/ WakeUp(c) \/ WakeUpPaused(c) \/ SetWakingUp(c) \/ ResumeLoop(c)
         \/ Sleep(c) \/ SleepPaused(c) \/ SetGoingSleeping(c) \/ PauseLoop(c)
         \/ WakeUpDequeue(c)
  PROVE  CommandEffect(tgt[c])
<1>. DEFINE a == tgt[c]
<1>1. a \in Adapters
  BY DEF CommandsTyped
<1>2. /\ TRUE \in BOOLEAN /\ FALSE \in BOOLEAN
      /\ {"WakingUp", "GoingSleeping"} \subseteq AdapterStates \ {"Sleeping"}
  BY DEF AdapterStates
<1>. USE DEF CommandEffect, FlagUpdate, Notifies
<1>3. CASE WakeUp(c) \/ Sleep(c) \/ SleepPaused(c)
  BY <1>3, UnchangedEffect DEF WakeUp, Sleep, SleepPaused, Elsewhere
<1>4. CASE WakeUpPaused(c)
  <2>1. UNCHANGED callerVars \/ \E d \in Callers : SendRequest(d)
    BY <1>4, MonitorIsCaller DEF WakeUpPaused
  <2>2. UNCHANGED <<sq, listVars, spc, hand, flagVars, adapterVars, sockVars>>
    BY <1>4 DEF WakeUpPaused
  <2>. QED  BY <2>1, <2>2 DEF flagVars, adapterVars, sockVars
<1>5. CASE SetWakingUp(c)
  BY <1>2, <1>5 DEF SetWakingUp, SetState, flagVars, adapterVars, sockVars
<1>6. CASE ResumeLoop(c)
  <2>1. spc' = spc \/ (spc[a] = "resumeWait" /\ Goto(a, "resumed"))
    BY <1>6 DEF ResumeLoop, Resume, Goto
  <2>2. /\ paused' = [paused EXCEPT ![a] = FALSE]
        /\ UNCHANGED <<callerVars, sq, listVars, hand, enabled, loopEnds, adapterVars, sockVars>>
    BY <1>6 DEF ResumeLoop, Resume
  <2>3. Notifies
    BY <1>1, <2>1
  <2>4. FlagUpdate(a)
    BY <1>2, <2>2, Zenon DEF adapterVars, sockVars
  <2>. HIDE DEF FlagUpdate, Notifies
  <2>. QED  BY <2>2, <2>3, <2>4 DEF adapterVars
<1>7. CASE SetGoingSleeping(c)
  BY <1>2, <1>7 DEF SetGoingSleeping, SetState, flagVars, adapterVars, sockVars
<1>8. CASE PauseLoop(c)
  <2>1. /\ paused' = [paused EXCEPT ![a] = TRUE]
        /\ UNCHANGED <<callerVars, sq, listVars, spc, hand, enabled, loopEnds,
                        adapterVars, sockVars>>
    BY <1>8 DEF PauseLoop
  <2>2. FlagUpdate(a)
    BY <1>2, <2>1, Zenon DEF adapterVars, sockVars
  <2>3. Notifies
    BY <2>1
  <2>. HIDE DEF FlagUpdate, Notifies
  <2>. QED  BY <2>1, <2>2, <2>3 DEF adapterVars
<1>9. CASE WakeUpDequeue(c)
  BY <1>9 DEF WakeUpDequeue, flagVars, adapterVars, sockVars
<1>. QED  BY <1>3, <1>4, <1>5, <1>6, <1>7, <1>8, <1>9

\* disconnect_on_command() and disconnect_internal().
LEMMA DisconnectEffect ==
  ASSUME CommandsTyped, Disconnection(Monitor)
  PROVE  CommandEffect(tgt[Monitor])
<1>. DEFINE c == Monitor
            a == tgt[c]
<1>1. a \in Adapters
  BY DEF CommandsTyped, Commanders
<1>2. /\ TRUE \in BOOLEAN /\ FALSE \in BOOLEAN
      /\ {"Disconnecting", "Disconnected"} \subseteq AdapterStates \ {"Sleeping"}
  BY DEF AdapterStates
<1>. USE DEF CommandEffect, FlagUpdate, Notifies
<1>3. CASE DisconnectOnCommand(c) \/ ReadOldState(c) \/ WaitLoopEnds(c)
  BY <1>3, UnchangedEffect DEF DisconnectOnCommand, ReadOldState, WaitLoopEnds, Elsewhere
<1>4. CASE StartDisconnectingOnPurpose(c)
  <2>1. \E d \in Callers : SendRequest(d)
    BY <1>4, MonitorIsCaller DEF StartDisconnectingOnPurpose
  <2>2. /\ UNCHANGED <<sq, listVars, spc, hand, flagVars, state, sockVars>>
        /\ onPurpose' = [onPurpose EXCEPT ![a] = TRUE]
    BY <1>4 DEF StartDisconnectingOnPurpose
  <2>. QED  BY <1>2, <2>1, <2>2 DEF flagVars, sockVars
<1>5. CASE SetDisconnecting(c)
  BY <1>2, <1>5 DEF SetDisconnecting, SetState, flagVars, adapterVars, sockVars
<1>6. CASE DisableLoop(c)
  BY <1>2, <1>6 DEF DisableLoop, flagVars, adapterVars, sockVars
<1>7. CASE ResumeDisabled(c)
  <2>1. spc' = spc \/ (spc[a] = "resumeWait" /\ Goto(a, "resumed"))
    BY <1>7 DEF ResumeDisabled, Resume, Goto
  <2>2. /\ paused' = [paused EXCEPT ![a] = FALSE]
        /\ UNCHANGED <<callerVars, sq, listVars, hand, enabled, loopEnds, adapterVars, sockVars>>
    BY <1>7 DEF ResumeDisabled, Resume
  <2>3. Notifies
    BY <1>1, <2>1
  <2>4. FlagUpdate(a)
    BY <1>2, <2>2, Zenon DEF adapterVars, sockVars
  <2>. HIDE DEF FlagUpdate, Notifies
  <2>. QED  BY <2>2, <2>3, <2>4 DEF adapterVars
<1>8. CASE CloseSocket(c)
  BY <1>8 DEF CloseSocket, SetSock, flagVars, adapterVars
<1>9. CASE FinishDisconnectingOnPurpose(c)
  BY <1>2, <1>9 DEF FinishDisconnectingOnPurpose, flagVars, sockVars
<1>10. CASE SetDisconnected(c)
  BY <1>2, <1>10 DEF SetDisconnected, SetState, flagVars, adapterVars, sockVars
<1>. QED
  BY <1>3, <1>4, <1>5, <1>6, <1>7, <1>8, <1>9, <1>10 DEF Disconnection

\* A command leaves a sleeping adapter's sender where it was, or resumes it.
LEMMA CommandKeepsSleepers ==
  ASSUME SendInv, SleeperWaits, NEW a \in Adapters, CommandEffect(a)
  PROVE  SleeperWaits'
<1>1. spc \in [Adapters -> SenderPCs] /\ state \in [Adapters -> AdapterStates]
  BY DEF SendInv, SendTypeOK
<1>. SUFFICES ASSUME NEW b \in Adapters, state'[b] = "Sleeping"
              PROVE  spc'[b] \in {"waitResume", "resumeWait", "resumed", "setActive"}
  BY DEF SleeperWaits
<1>2. state[b] = "Sleeping"
  BY <1>1 DEF CommandEffect
<1>3. spc[b] \in {"waitResume", "resumeWait", "resumed", "setActive"}
  BY <1>2 DEF SleeperWaits
<1>4. \/ spc'[b] = spc[b] \/ spc[b] = "deqWait" \/ spc[b] = "enableWait"
      \/ spc'[b] = "resumed"
  BY <1>1, NotifiesKeeps DEF CommandEffect
<1>. QED  BY <1>3, <1>4

\* A sender's step keeps it too.
LEMMA SenderKeepsSleepers ==
  ASSUME SendInv, SleeperWaits, NEW a \in Adapters, Sender(a) \/ PausedSender(a)
  PROVE  SleeperWaits'
<1>1. spc \in [Adapters -> SenderPCs] /\ state \in [Adapters -> AdapterStates]
  BY DEF SendInv, SendTypeOK
<1>2. CASE Sender(a)
  <2>1. /\ state' = state /\ spc[a] \notin {"waitResume", "resumeWait", "resumed", "setActive"}
        /\ \E l : Goto(a, l)
    BY <1>2 DEF Sender, WaitUntilEnableLoop, BeginLoop, EndLoop, CheckEnabled,
         CheckPaused, PopFailedSegment, DequeueToSend, HaveSegment, AdapterSend,
         SocketSend, SendError, SegmentSent, adapterVars
  <2>. QED  BY <1>1, <2>1 DEF SleeperWaits, Goto
<1>3. CASE Suspend(a)
  BY <1>1, <1>3 DEF Suspend, Goto, SleeperWaits
<1>4. CASE WaitUntilResumeLoop(a)
  BY <1>1, <1>4 DEF WaitUntilResumeLoop, Goto, SleeperWaits, adapterVars
<1>5. CASE Resumed(a)
  BY <1>1, <1>5 DEF Resumed, Goto, SleeperWaits, adapterVars
<1>6. CASE SetActive(a)
  BY <1>1, <1>6 DEF SetActive, Goto, SleeperWaits
<1>. QED  BY <1>2, <1>3, <1>4, <1>5, <1>6 DEF PausedSender

-----------------------------------------------------------------------------
\* The variables of the transaction and of the requests.
SwitchTyped ==
  /\ after \in {"monitor", "sleep", "slept"}
  /\ ns \in {"ready", "switching"}
  /\ ongoing \in BOOLEAN
  /\ next \in Adapters /\ active \in Adapters
  /\ switches \in 0..MaxSwitches
  /\ requests \in 0..MaxPeerRequests

\* The types of the commands' state, split in two.
LEMMA CommandParts ==
  CommandsTyped <=> /\ cpc \in [Commanders -> CommanderPCs]
                    /\ tgt \in [Commanders -> Adapters]
                    /\ old \in [Commanders -> AdapterStates]
                    /\ SwitchTyped
  BY Zenon DEF CommandsTyped, SwitchTyped

\* The same split after a step.
LEMMA CommandPartsPrimed ==
  CommandsTyped' <=> /\ cpc' \in [Commanders -> CommanderPCs]
                     /\ tgt' \in [Commanders -> Adapters]
                     /\ old' \in [Commanders -> AdapterStates]
                     /\ SwitchTyped'
  BY Zenon DEF CommandsTyped, SwitchTyped

\* A commander goes on within an operation, or begins one on an adapter.
LEMMA CommandGoesOn ==
  ASSUME CommandsTyped, NEW c \in Commanders, NEW l \in CommanderPCs,
         Jump(c, l) \/ \E a \in Adapters : Call(c, l, a),
         old' \in [Commanders -> AdapterStates], SwitchTyped'
  PROVE  CommandsTyped'
<1>1. cpc' \in [Commanders -> CommanderPCs] /\ tgt' \in [Commanders -> Adapters]
  BY DEF CommandsTyped, Jump, Call
<1>. QED  BY <1>1, CommandPartsPrimed

\* The operations of ServerAdapter go on to the next label or to a callback.
LEMMA OperationTyped ==
  ASSUME CommandsTyped, NEW c \in Commanders, AdapterOperation(c)
  PROVE  CommandsTyped'
<1>1. \E l \in CommanderPCs : Jump(c, l)
  <2>1. \A b : \A o \in {"connect", "sleep"} : Callback(c, o, b) \in CommanderPCs
    BY CallbackTyped DEF CommanderPCs
  <2>2. {"setConnecting", "openSocket", "accept", "enableLoop", "connectDone",
         "wakeUpPaused", "setWakingUp", "resumeLoop", "sleepPaused",
         "setGoingSleeping", "pauseLoop", "wakeUpDequeue"} \subseteq CommanderPCs
    BY DEF CommanderPCs
  <2>3. CASE Connect(c) \/ SetConnecting(c) \/ OpenSocket(c)
    BY <2>1, <2>2, <2>3 DEF Connect, SetConnecting, OpenSocket
  <2>4. CASE Accept(c) \/ EnableLoop(c) \/ ConnectDone(c)
    BY <2>1, <2>2, <2>4 DEF Accept, EnableLoop, ConnectDone
  <2>5. CASE WakeUp(c) \/ WakeUpPaused(c) \/ SetWakingUp(c) \/ ResumeLoop(c)
    BY <2>1, <2>2, <2>5 DEF WakeUp, WakeUpPaused, SetWakingUp, ResumeLoop
  <2>6. CASE Sleep(c) \/ SleepPaused(c) \/ SetGoingSleeping(c)
    BY <2>1, <2>2, <2>6 DEF Sleep, SleepPaused, SetGoingSleeping
  <2>7. CASE PauseLoop(c) \/ WakeUpDequeue(c)
    BY <2>1, <2>2, <2>7 DEF PauseLoop, WakeUpDequeue
  <2>. QED  BY <2>3, <2>4, <2>5, <2>6, <2>7 DEF AdapterOperation
<1>2. old' = old
  BY DEF AdapterOperation, Connect, SetConnecting, OpenSocket, Accept, EnableLoop,
     ConnectDone, WakeUp, WakeUpPaused, SetWakingUp, ResumeLoop, Sleep,
     SleepPaused, SetGoingSleeping, PauseLoop, WakeUpDequeue, Elsewhere
<1>3. /\ after' = after \/ after' = "slept"
      /\ UNCHANGED <<ns, ongoing, next, active, switches, requests>>
  BY DEF AdapterOperation, Connect, SetConnecting, OpenSocket, Accept, EnableLoop,
     ConnectDone, WakeUp, WakeUpPaused, SetWakingUp, ResumeLoop, Sleep,
     SleepPaused, SetGoingSleeping, PauseLoop, WakeUpDequeue, switchVars
<1>4. SwitchTyped'
  <2>1. after' \in {"monitor", "sleep", "slept"}
    BY <1>3 DEF CommandsTyped
  <2>. QED  BY <1>3, <2>1, CommandParts, Zenon DEF SwitchTyped
<1>5. old' \in [Commanders -> AdapterStates]
  BY <1>2 DEF CommandsTyped
<1>. QED  BY <1>1, <1>4, <1>5, CommandGoesOn

\* The steps of disconnect_on_command() keep the commands' types.
LEMMA DisconnectionTyped ==
  ASSUME SendInv, CommandsTyped, Disconnection(Monitor)
  PROVE  CommandsTyped'
<1>. DEFINE c == Monitor
<1>1. c \in Commanders
  BY DEF Commanders
<1>2. \E l \in CommanderPCs : Jump(c, l)
  <2>1. \A b : Callback(c, "disconnect", b) \in CommanderPCs
    BY CallbackTyped DEF CommanderPCs
  <2>2. {"pollDisconnect", "startOnPurpose", "readOldState", "setDisconnecting",
         "disableLoop", "resumeDisabled", "closeSocket", "waitLoopEnds",
         "loopEndsWait", "finishOnPurpose", "setDisconnected"} \subseteq CommanderPCs
    BY DEF CommanderPCs
  <2>3. CASE DisconnectOnCommand(c)
    BY <2>1, <2>2, <2>3 DEF DisconnectOnCommand
  <2>4. CASE StartDisconnectingOnPurpose(c) \/ ReadOldState(c) \/ SetDisconnecting(c)
    BY <2>2, <2>4 DEF StartDisconnectingOnPurpose, ReadOldState, SetDisconnecting
  <2>5. CASE DisableLoop(c) \/ ResumeDisabled(c) \/ CloseSocket(c)
    BY <2>2, <2>5 DEF DisableLoop, ResumeDisabled, CloseSocket
  <2>6. CASE WaitLoopEnds(c) \/ FinishDisconnectingOnPurpose(c) \/ SetDisconnected(c)
    BY <2>1, <2>2, <2>6 DEF WaitLoopEnds, FinishDisconnectingOnPurpose, SetDisconnected
  <2>. QED  BY <2>3, <2>4, <2>5, <2>6 DEF Disconnection
<1>3. old' = old \/ old' = [old EXCEPT ![c] = state[tgt[c]]]
  BY DEF Disconnection, DisconnectOnCommand, StartDisconnectingOnPurpose, ReadOldState,
     SetDisconnecting, DisableLoop, ResumeDisabled, CloseSocket, WaitLoopEnds,
     FinishDisconnectingOnPurpose, SetDisconnected, Elsewhere
<1>4. old' \in [Commanders -> AdapterStates]
  <2>1. state[tgt[c]] \in AdapterStates
    BY <1>1 DEF SendInv, SendTypeOK, CommandsTyped
  <2>. QED  BY <1>1, <1>3, <2>1 DEF CommandsTyped
<1>5. UNCHANGED switchVars
  BY DEF Disconnection, DisconnectOnCommand, StartDisconnectingOnPurpose, ReadOldState,
     SetDisconnecting, DisableLoop, ResumeDisabled, CloseSocket, WaitLoopEnds,
     FinishDisconnectingOnPurpose, SetDisconnected
<1>6. SwitchTyped'
  BY <1>5, CommandParts, Zenon DEF SwitchTyped, switchVars
<1>. QED  BY <1>1, <1>2, <1>4, <1>6, CommandGoesOn

\* The transaction, the policy's decision and the peer's requests.
SwitchStep ==
  DecideSwitch \/ Transaction \/ PeerRequest \/ PeerSetSwitching \/ PeerDone

\* The transaction itself only reads the adapters' states.
LEMMA SwitchStepElsewhere ==
  ASSUME SwitchStep
  PROVE  Elsewhere
  BY DEF SwitchStep, DecideSwitch, Transaction, PeerRequest, PeerSetSwitching,
     PeerDone, SwitchAdapters, StartSwitch, ConnectOrWakeUp, DoneSwitch,
     ConnectNextAdapterCallback, SleepPrevAdapterCallback, PollSleeping

\* The transaction and the requests of the peer keep the commands' types.
LEMMA SwitchStepTyped ==
  ASSUME CommandsTyped, SwitchStep
  PROVE  CommandsTyped'
<1>1. Monitor \in Commanders /\ Peer \in Commanders
  BY DEF Commanders
<1>2. old' \in [Commanders -> AdapterStates]
  BY SwitchStepElsewhere DEF Elsewhere, CommandsTyped
<1>3. \E c \in Commanders, l \in CommanderPCs :
        Jump(c, l) \/ \E a \in Adapters : Call(c, l, a)
  <2>1. {"monitor", "switch", "start", "connectOrWakeUp", "connected", "slept",
         "pollSleeping", "doneTrue", "doneFalse", "crashed", "peer", "peerSet",
         "connect", "wakeUp", "sleep", "disconnect"} \subseteq CommanderPCs
    BY DEF CommanderPCs
  <2>2. next \in Adapters /\ active \in Adapters
    BY DEF CommandsTyped
  <2>3. CASE DecideSwitch \/ SwitchAdapters
    BY <1>1, <2>1, <2>3 DEF DecideSwitch, SwitchAdapters
  <2>4. CASE StartSwitch
    <3>1. \E l \in {"connected", "connectOrWakeUp", "doneFalse"} : Call(Monitor, l, next)
      BY <2>4 DEF StartSwitch
    <3>. QED  BY <1>1, <2>1, <2>2, <3>1
  <2>5. CASE ConnectOrWakeUp
    <3>1. \E l \in {"connect", "wakeUp", "monitor"} : Jump(Monitor, l)
      BY <2>5 DEF ConnectOrWakeUp
    <3>. QED  BY <1>1, <2>1, <3>1
  <2>6. CASE ConnectNextAdapterCallback
    <3>1. \E l \in {"doneTrue", "slept", "sleep", "doneFalse"} : Call(Monitor, l, active)
      BY <2>6 DEF ConnectNextAdapterCallback
    <3>. QED  BY <1>1, <2>1, <2>2, <3>1
  <2>7. CASE SleepPrevAdapterCallback
    <3>1. \E l \in {"crashed", "doneTrue", "pollSleeping", "disconnect", "doneFalse"} :
            Jump(Monitor, l)
      BY <2>7 DEF SleepPrevAdapterCallback
    <3>. QED  BY <1>1, <2>1, <3>1
  <2>8. CASE PollSleeping
    BY <1>1, <2>1, <2>8 DEF PollSleeping
  <2>9. CASE DoneSwitch
    BY <1>1, <2>1, <2>9 DEF DoneSwitch, CommandsTyped
  <2>10. CASE PeerRequest
    BY <1>1, <2>1, <2>10 DEF PeerRequest
  <2>11. CASE PeerSetSwitching
    <3>1. PeerOperations \subseteq {"connect", "sleep", "wakeUp"}
      BY HandoverAssumption
    <3>. QED  BY <1>1, <2>1, <2>11, <3>1 DEF PeerSetSwitching, OnReceiveNormalMessage
  <2>12. CASE PeerDone
    BY <1>1, <2>1, <2>12 DEF PeerDone
  <2>. QED
    BY <2>3, <2>4, <2>5, <2>6, <2>7, <2>8, <2>9, <2>10, <2>11, <2>12
    DEF SwitchStep, Transaction
<1>4. SwitchTyped'
  <2>. USE DEF SwitchStep, Transaction, DecideSwitch, SwitchAdapters, StartSwitch,
         ConnectOrWakeUp, ConnectNextAdapterCallback, SleepPrevAdapterCallback,
         PollSleeping, DoneSwitch, PeerRequest, PeerSetSwitching, PeerDone, switchVars
  <2>1. after' = after \/ after' = "sleep" \/ after' = "monitor"
    OBVIOUS
  <2>2. ns' = ns \/ ns' = "ready" \/ ns' = "switching"
    OBVIOUS
  <2>3. ongoing' = ongoing \/ ongoing' = TRUE \/ ongoing' = FALSE
    BY Zenon
  <2>4. next' = next \/ next' \in Adapters
    OBVIOUS
  <2>5. active' = active \/ active' = next
    OBVIOUS
  <2>6. switches' = switches \/ (switches < MaxSwitches /\ switches' = switches + 1)
    OBVIOUS
  <2>7. requests' = requests \/ (requests < MaxPeerRequests /\ requests' = requests + 1)
    OBVIOUS
  <2>8. MaxSwitches \in Nat /\ MaxPeerRequests \in Nat
    BY HandoverAssumption
  <2>9. switches' \in 0..MaxSwitches /\ requests' \in 0..MaxPeerRequests
    BY <2>6, <2>7, <2>8 DEF CommandsTyped
  <2>10. ongoing' \in BOOLEAN
    BY <2>3, Zenon DEF CommandsTyped
  <2>11. /\ after' \in {"monitor", "sleep", "slept"} /\ ns' \in {"ready", "switching"}
         /\ next' \in Adapters /\ active' \in Adapters
    BY <2>1, <2>2, <2>4, <2>5 DEF CommandsTyped
  <2>. QED  BY <2>9, <2>10, <2>11 DEF SwitchTyped
<1>. QED  BY <1>2, <1>3, <1>4, CommandGoesOn

-----------------------------------------------------------------------------
\* One adapter is connected, some have been put to sleep, nothing is sent.
LEMMA HandoverInitInv ==
  ASSUME HandoverInit
  PROVE  HandoverInv
<1>1. PICK asleep \in SUBSET (Adapters \ {FirstActive}) :
        SendInit({FirstActive} \cup asleep, asleep)
  BY DEF HandoverInit
<1>2. SendInv
  BY <1>1, SendInitInv
<1>3. CommandsTyped
  <2>1. cpc \in [Commanders -> CommanderPCs] /\ old \in [Commanders -> AdapterStates]
    BY DEF HandoverInit, CommanderPCs, AdapterStates
  <2>2. /\ tgt \in [Commanders -> Adapters] /\ next \in Adapters /\ active \in Adapters
        /\ switches \in 0..MaxSwitches /\ requests \in 0..MaxPeerRequests
    BY HandoverAssumption DEF HandoverInit
  <2>3. /\ after \in {"monitor", "sleep", "slept"} /\ ns \in {"ready", "switching"}
        /\ ongoing \in BOOLEAN
    BY DEF HandoverInit
  <2>. QED  BY <2>1, <2>2, <2>3 DEF CommandsTyped
<1>4. SleeperWaits
  <2>1. \A a \in Adapters : a \notin asleep => state[a] # "Sleeping"
    BY <1>1 DEF SendInit
  <2>2. \A a \in Adapters : a \in asleep => spc[a] = "waitResume"
    BY <1>1 DEF SendInit
  <2>. QED  BY <2>1, <2>2 DEF SleeperWaits
<1>. QED  BY <1>2, <1>3, <1>4 DEF HandoverInv

\* A command keeps what is said of the senders and of the segments.
LEMMA CommandInv ==
  ASSUME HandoverInv, NEW a \in Adapters, CommandEffect(a), CommandsTyped'
  PROVE  HandoverInv'
<1>1. SendInv'
  BY CommandKeepsSendInv DEF CommandEffect, HandoverInv
<1>2. SleeperWaits'
  BY CommandKeepsSleepers DEF HandoverInv
<1>. QED  BY <1>1, <1>2 DEF HandoverInv

\* The commands' own variables stay typed when they are left alone.
LEMMA CommandsUnchanged ==
  ASSUME CommandsTyped, UNCHANGED commandVars
  PROVE  CommandsTyped'
  BY Zenon DEF CommandsTyped, commandVars, switchVars

(***************************************************************************)
(* Every step of the senders, of the callers and of both commanders keeps  *)
(* HandoverInv.                                                            *)
(***************************************************************************)
LEMMA HandoverNextInv ==
  ASSUME HandoverInv, [HandoverNext]_vars
  PROVE  HandoverInv'
<1>. USE DEF HandoverInv
<1>1. ASSUME NEW c \in Callers, CallerStep(c)
      PROVE  HandoverInv'
  <2>1. Caller(c) /\ UNCHANGED commandVars
    BY <1>1 DEF CallerStep, Caller
  <2>2. SendInv'
    BY <2>1, CallerInv
  <2>3. CommandsTyped'
    BY <2>1, CommandsUnchanged
  <2>4. SleeperWaits'
    <3>1. spc \in [Adapters -> SenderPCs]
      BY DEF SendInv, SendTypeOK
    <3>2. state' = state /\ (spc' = spc \/ spc' = WakeUpDequeueWaiting)
      BY <2>1 DEF Caller, SendToSegmentManager, EnqueueToSend, adapterVars
    <3>. QED  BY <3>1, <3>2 DEF SleeperWaits, WakeUpDequeueWaiting
  <2>. QED  BY <2>2, <2>3, <2>4
<1>2. ASSUME NEW a \in Adapters, SenderStep(a)
      PROVE  HandoverInv'
  <2>1. SendInv'
    BY <1>2, SenderInv, PausedSenderStep DEF SenderStep
  <2>2. SleeperWaits'
    BY <1>2, SenderKeepsSleepers DEF SenderStep
  <2>3. cpc' \in [Commanders -> CommanderPCs]
    <3>1. "finishOnPurpose" \in CommanderPCs
      BY DEF CommanderPCs
    <3>. QED  BY <1>2, <3>1 DEF SenderStep, CommandsTyped
  <2>4. UNCHANGED <<tgt, old, switchVars>>
    BY <1>2 DEF SenderStep
  <2>5. CommandsTyped'
    BY <2>3, <2>4, Zenon DEF CommandsTyped, switchVars
  <2>. QED  BY <2>1, <2>2, <2>5
<1>3. ASSUME NEW c \in Commanders, AdapterOperation(c)
      PROVE  HandoverInv'
  <2>1. CommandEffect(tgt[c])
    BY <1>3, ConnectEffect, SleepEffect DEF AdapterOperation
  <2>2. tgt[c] \in Adapters /\ CommandsTyped'
    BY <1>3, OperationTyped DEF CommandsTyped
  <2>. QED  BY <2>1, <2>2, CommandInv
<1>4. CASE Disconnection(Monitor)
  <2>1. CommandEffect(tgt[Monitor]) /\ CommandsTyped'
    BY <1>4, DisconnectEffect, DisconnectionTyped
  <2>2. tgt[Monitor] \in Adapters
    BY DEF CommandsTyped, Commanders
  <2>. QED  BY <2>1, <2>2, CommandInv
<1>5. CASE SwitchStep
  <2>1. UNCHANGED sendVars /\ CommandsTyped'
    BY <1>5, SwitchStepElsewhere, SwitchStepTyped DEF Elsewhere
  <2>. QED  BY <2>1, UnchangedEffect, CommandInv, HandoverAssumption
<1>6. CASE UNCHANGED vars
  <2>1. UNCHANGED sendVars /\ UNCHANGED commandVars
    BY <1>6 DEF vars
  <2>. QED  BY <2>1, UnchangedEffect, CommandsUnchanged, CommandInv, HandoverAssumption
<1>7. ASSUME NEW a \in Adapters, SpuriousSenderWakeup(a)
      PROVE  HandoverInv'
  <2>1. SpuriousWakeup(a) /\ UNCHANGED commandVars
    BY <1>7 DEF SpuriousSenderWakeup
  <2>. QED  BY <2>1, SpuriousSenderEffect, CommandsUnchanged, CommandInv
<1>8. CASE SpuriousLoopEnds(Monitor)
  <2>1. tgt[Monitor] \in Adapters /\ Monitor \in Commanders
    BY DEF CommandsTyped, Commanders
  <2>2. CommandEffect(tgt[Monitor])
    BY <1>8, SpuriousLoopEffect
  <2>3. /\ cpc' = [cpc EXCEPT ![Monitor] = "finishOnPurpose"]
        /\ UNCHANGED <<tgt, old, switchVars>>
    BY <1>8 DEF SpuriousLoopEnds, Jump
  <2>4. cpc' \in [Commanders -> CommanderPCs]
    BY <2>1, <2>3 DEF CommandsTyped, CommanderPCs
  <2>5. CommandsTyped'
    BY <2>3, <2>4, Zenon DEF CommandsTyped, switchVars
  <2>. QED  BY <2>1, <2>2, <2>5, CommandInv
<1>. QED
  BY <1>1, <1>2, <1>3, <1>4, <1>5, <1>6, <1>7, <1>8 DEF HandoverNext, SwitchStep

\* HandoverInv is an invariant.
LEMMA HandoverInvariant == HandoverSpec => []HandoverInv
<1>1. HandoverInit => HandoverInv
  BY HandoverInitInv
<1>2. HandoverInv /\ [HandoverNext]_vars => HandoverInv'
  BY HandoverNextInv
<1>. QED  BY <1>1, <1>2, PTL DEF HandoverSpec

(***************************************************************************)
(* Types of the adapters', the commands' and the transaction's state.      *)
(***************************************************************************)
THEOREM HandoverTypeCorrect == HandoverSpec => []TypeOK
<1>1. HandoverInv => TypeOK
  BY Zenon DEF HandoverInv, SendInv, CommandsTyped, TypeOK
<1>. QED  BY <1>1, HandoverInvariant, PTL

(***************************************************************************)
(* No handover loses or duplicates a segment: whatever the switches, the   *)
(* peer's requests and the errors of the sockets, a number that            *)
(* get_next_seq_no() gave out has exactly one owner.                       *)
(***************************************************************************)
THEOREM HandoverConservesSegments == HandoverSpec => []SegmentsConserved
<1>1. HandoverInv => SegmentsConserved
  BY OneOwner DEF HandoverInv
<1>. QED  BY <1>1, HandoverInvariant, PTL

(***************************************************************************)
(* The assertions of SegmentQueue::enqueue() hold during handovers too,    *)
(* when the network monitor's requests are enqueued among the others.      *)
(***************************************************************************)
THEOREM HandoverAssertionsHold == HandoverSpec => []SendAssertionsNeverFail
<1>1. HandoverInv => SendAssertionsNeverFail
  BY CallersAssertionsHold DEF HandoverInv
<1>. QED  BY <1>1, HandoverInvariant, PTL

(***************************************************************************)
(* A sleeping adapter's sender holds no segment: it gave back what it had. *)
(***************************************************************************)
THEOREM SleepersHoldNothing == HandoverSpec => []SleepingHoldsNothing
<1>1. HandoverInv => SleepingHoldsNothing
  BY DEF HandoverInv, SleeperWaits, SleepingHoldsNothing, HoldsSegment
<1>. QED  BY <1>1, HandoverInvariant, PTL

-----------------------------------------------------------------------------
(***************************************************************************)
(* The switch on its own: Undisturbed, the peer has sent no request, so    *)
(* that Monitor is the only thread that commands adapters, and no wait has *)
(* returned without a notification.  What each state of an adapter  *)
(* then says of its sender thread and of the place of Monitor:             *)
(***************************************************************************)
Outside == {"idle", "enableWait"}          \* not in sender_loop()
Waiting == {"waitResume", "resumeWait"}    \* in wait_until_resume_loop()
PausedPCs == Waiting \cup {"suspend", "resumed", "setActive"}

ConnectingPCs == {"openSocket", "accept", "enableLoop"}
GoingSleepingPCs == {"pauseLoop", "wakeUpDequeue", "slept", "pollSleeping"}
StoppingPCs == {"closeSocket", "waitLoopEnds", "loopEndsWait"}
StoppedPCs == {"finishOnPurpose", "setDisconnected"}

At(a, labels) == tgt[Monitor] = a /\ cpc[Monitor] \in labels

AdapterSound(a) ==
  /\ spc[a] \notin Outside \cup {"begin"} => ~loopEnds[a]
  /\ spc[a] = "suspend" => paused[a]
  /\ state[a] = "Disconnected" => spc[a] \in Outside /\ ~enabled[a] /\ ~paused[a]
  /\ state[a] = "Connecting" =>
       /\ ~paused[a] /\ spc[a] \notin PausedPCs
       /\ \/ At(a, {"connectDone"})
          \/ At(a, ConnectingPCs) /\ spc[a] \in Outside /\ ~enabled[a]
  /\ state[a] = "Active" => ~paused[a] /\ spc[a] \notin PausedPCs
  /\ state[a] = "GoingSleeping" =>
       /\ spc[a] \notin PausedPCs \ {"suspend"}
       /\ At(a, GoingSleepingPCs)
       /\ At(a, {"pauseLoop"}) => ~paused[a]
  /\ state[a] = "Sleeping" => paused[a] /\ spc[a] \in Waiting
  /\ state[a] = "WakingUp" =>
       \/ At(a, {"resumeLoop"}) /\ paused[a] /\ spc[a] \in Waiting
       \/ ~At(a, {"resumeLoop"}) /\ ~paused[a] /\ spc[a] \in PausedPCs \ {"suspend"}
  /\ state[a] = "Disconnecting" =>
       \/ At(a, {"disableLoop"}) /\ paused[a] /\ spc[a] \in Waiting
       \/ At(a, {"resumeDisabled"}) /\ paused[a] /\ spc[a] \in Waiting /\ ~enabled[a]
       \/ /\ At(a, StoppingPCs) /\ ~paused[a] /\ ~enabled[a]
          /\ spc[a] \notin {"begin", "suspend", "setActive"}
       \/ At(a, StoppedPCs) /\ ~paused[a] /\ ~enabled[a] /\ spc[a] \in Outside

(***************************************************************************)
(* The state of its target that Monitor has made sure of, or has set.      *)
(***************************************************************************)
TargetSound ==
  LET label == cpc[Monitor]
      s == state[tgt[Monitor]]
  IN  /\ label = "setConnecting" => s = "Disconnected"
      /\ label \in ConnectingPCs \cup {"connectDone"} => s = "Connecting"
      /\ label \in {"wakeUpPaused", "setWakingUp", "disconnect", "startOnPurpose",
                    "readOldState", "setDisconnecting"} => s = "Sleeping"
      /\ label = "resumeLoop" => s = "WakingUp"
      /\ label \in {"sleep", "sleepPaused", "setGoingSleeping"} => s = "Active"
      /\ label = "pauseLoop" => s = "GoingSleeping"
      /\ label \in GoingSleepingPCs => s \in {"GoingSleeping", "Sleeping"}
      /\ label \in {"disableLoop", "resumeDisabled"} \cup StoppingPCs \cup StoppedPCs
           => s = "Disconnecting"

(***************************************************************************)
(* The phases of a switch: the next adapter is connected or woken up while *)
(* the active one is awake, then the active one is put to sleep and        *)
(* disconnected while the next one is awake.                               *)
(***************************************************************************)
Awake == {"Active", "WakingUp"}
BeforePCs == {"monitor", "switch", "start", "doneFalse"}
FirstPhase == {"connectOrWakeUp", "connect", "setConnecting", "connectDone", "wakeUp",
               "wakeUpPaused", "setWakingUp", "resumeLoop"} \cup ConnectingPCs
SecondPhase == {"sleep", "sleepPaused", "setGoingSleeping", "disconnect", "startOnPurpose",
                "readOldState", "setDisconnecting", "disableLoop", "resumeDisabled"}
               \cup GoingSleepingPCs \cup StoppingPCs \cup StoppedPCs

MonitorSound ==
  LET label == cpc[Monitor]
  IN  /\ label \in BeforePCs \cup FirstPhase \cup SecondPhase \cup {"connected", "doneTrue"}
      /\ label \in {"setDisconnecting", "disableLoop"} => old[Monitor] = "Sleeping"
      /\ label \notin {"monitor", "switch"} => ongoing
      /\ label # "monitor" => next # active
      /\ label \in BeforePCs \cup FirstPhase \cup {"connected"} => state[active] \in Awake
      /\ label \in SecondPhase \cup {"connected", "doneTrue"} => state[next] \in Awake
      /\ label \in FirstPhase => tgt[Monitor] = next
      /\ label \in SecondPhase => tgt[Monitor] = active

SoloInv ==
  /\ cpc[Peer] = "peer" /\ after = "monitor"
  /\ \A a \in Adapters : AdapterSound(a)
  /\ TargetSound /\ MonitorSound

\* What is said of an adapter depends on its own state and on where Monitor
\* is in an operation on it.
LEMMA OtherAdapter ==
  ASSUME NEW b, AdapterSound(b),
         state'[b] = state[b], spc'[b] = spc[b], paused'[b] = paused[b],
         enabled'[b] = enabled[b], loopEnds'[b] = loopEnds[b],
         \A labels : At(b, labels)' <=> At(b, labels)
  PROVE  AdapterSound(b)'
  BY Zenon DEF AdapterSound

\* Monitor goes on with its operation.
LEMMA MonitorJumps ==
  ASSUME CommandsTyped, NEW l, Jump(Monitor, l)
  PROVE  /\ cpc'[Monitor] = l /\ cpc'[Peer] = cpc[Peer] /\ tgt' = tgt
         /\ tgt[Monitor] \in Adapters
         /\ \A b : b # tgt[Monitor] => \A labels : ~At(b, labels) /\ ~At(b, labels)'
<1>1. Monitor \in Commanders /\ Peer \in Commanders /\ Monitor # Peer
  BY MonitorIsCaller DEF Commanders
<1>2. cpc'[Monitor] = l /\ cpc'[Peer] = cpc[Peer] /\ tgt' = tgt /\ tgt[Monitor] \in Adapters
  BY <1>1 DEF CommandsTyped, Jump
<1>. QED  BY <1>2 DEF At

\* The step changes nothing of an adapter that is not the target.
OnlyTarget ==
  \A b \in Adapters : b # tgt[Monitor] =>
    /\ state'[b] = state[b] /\ spc'[b] = spc[b] /\ paused'[b] = paused[b]
    /\ enabled'[b] = enabled[b] /\ loopEnds'[b] = loopEnds[b]

\* A step of Monitor is sound for every adapter if it is for its target.
LEMMA TargetOnly ==
  ASSUME SoloInv, CommandsTyped, NEW l, Jump(Monitor, l), OnlyTarget,
         AdapterSound(tgt[Monitor])'
  PROVE  \A b \in Adapters : AdapterSound(b)'
<1>. SUFFICES ASSUME NEW b \in Adapters, b # tgt[Monitor]
              PROVE  AdapterSound(b)'
  <2>1. tgt'[Monitor] = tgt[Monitor]
    BY MonitorJumps
  <2>. QED  BY <2>1
<1>1. \A labels : At(b, labels)' <=> At(b, labels)
  BY MonitorJumps
<1>2. AdapterSound(b)
  BY DEF SoloInv
<1>. QED  BY <1>1, <1>2, OtherAdapter, Zenon DEF OnlyTarget

\* The facts about types that the steps of Monitor need.
LEMMA SoloTypes ==
  ASSUME HandoverInv
  PROVE  /\ CommandsTyped /\ tgt[Monitor] \in Adapters
         /\ next \in Adapters /\ active \in Adapters
         /\ state \in [Adapters -> AdapterStates] /\ spc \in [Adapters -> SenderPCs]
         /\ enabled \in [Adapters -> BOOLEAN] /\ paused \in [Adapters -> BOOLEAN]
  BY DEF HandoverInv, SendInv, SendTypeOK, CommandsTyped, Commanders

\* What is left to show of a step of Monitor's operation.
LEMMA SoloStep ==
  ASSUME HandoverInv, SoloInv, NEW l, Jump(Monitor, l), after' = after, OnlyTarget,
         AdapterSound(tgt[Monitor])', TargetSound', MonitorSound'
  PROVE  SoloInv'
<1>1. CommandsTyped
  BY SoloTypes
<1>2. cpc'[Peer] = "peer" /\ after' = "monitor"
  BY <1>1, MonitorJumps DEF SoloInv
<1>3. \A b \in Adapters : AdapterSound(b)'
  BY <1>1, TargetOnly
<1>. QED  BY <1>2, <1>3 DEF SoloInv

\* The callbacks of the switch find their transaction.
LEMMA MonitorCallback ==
  ASSUME ongoing
  PROVE  /\ \A o : Callback(Monitor, o, FALSE) = "doneFalse"
         /\ Callback(Monitor, "connect", TRUE) = "connected"
         /\ Callback(Monitor, "sleep", TRUE) = "slept"
         /\ Callback(Monitor, "disconnect", TRUE) = "doneTrue"
  BY MonitorIsCaller DEF Callback

USE DEF Outside, Waiting, PausedPCs, ConnectingPCs, GoingSleepingPCs, StoppingPCs,
        StoppedPCs, BeforePCs, FirstPhase, SecondPhase, Awake

\* connect() of an adapter that is not disconnected fails at once.
LEMMA ConnectSolo ==
  ASSUME HandoverInv, SoloInv, Connect(Monitor)
  PROVE  SoloInv'
<1>. DEFINE a == tgt[Monitor]
<1>1. /\ CommandsTyped /\ a \in Adapters /\ next \in Adapters /\ active \in Adapters
      /\ state \in [Adapters -> AdapterStates] /\ spc \in [Adapters -> SenderPCs]
      /\ enabled \in [Adapters -> BOOLEAN] /\ paused \in [Adapters -> BOOLEAN]
  BY SoloTypes
<1>2. cpc[Monitor] = "connect" /\ AdapterSound(a) /\ TargetSound /\ MonitorSound /\ ongoing
  BY <1>1 DEF Connect, SoloInv, MonitorSound
<1>3. UNCHANGED <<loopEnds, after, ongoing, next, active, state, enabled, paused, spc, old>>
  BY <1>1, <1>2 DEF Connect, Elsewhere, sendVars, flagVars, adapterVars, switchVars
<1>4. \E l : /\ Jump(Monitor, l)
             /\ ((l = "setConnecting" /\ state[a] = "Disconnected") \/ l = "doneFalse")
  BY <1>1, <1>2, MonitorCallback DEF Connect, TargetSound, AdapterSound
<1>5. PICK l : /\ Jump(Monitor, l)
               /\ ((l = "setConnecting" /\ state[a] = "Disconnected") \/ l = "doneFalse")
  BY <1>4
<1>6. cpc'[Monitor] = l /\ tgt' = tgt
  BY <1>1, <1>5, MonitorJumps
<1>8. OnlyTarget
  BY <1>3 DEF OnlyTarget
<1>9. AdapterSound(a)'
  BY <1>1, <1>2, <1>3, <1>5, <1>6 DEF AdapterSound, TargetSound, At
<1>10. TargetSound'
  BY <1>1, <1>2, <1>3, <1>5, <1>6 DEF TargetSound, AdapterSound
<1>11. MonitorSound'
  BY <1>1, <1>2, <1>3, <1>5, <1>6 DEF MonitorSound, TargetSound, AdapterSound
<1>. QED  BY <1>3, <1>5, <1>8, <1>9, <1>10, <1>11, SoloStep

\* The adapter is Connecting; its sender is outside its loop.
LEMMA SetConnectingSolo ==
  ASSUME HandoverInv, SoloInv, SetConnecting(Monitor)
  PROVE  SoloInv'
<1>. DEFINE a == tgt[Monitor]
<1>1. /\ CommandsTyped /\ a \in Adapters /\ next \in Adapters /\ active \in Adapters
      /\ state \in [Adapters -> AdapterStates] /\ spc \in [Adapters -> SenderPCs]
      /\ enabled \in [Adapters -> BOOLEAN] /\ paused \in [Adapters -> BOOLEAN]
  BY SoloTypes
<1>2. cpc[Monitor] = "setConnecting" /\ AdapterSound(a) /\ TargetSound /\ MonitorSound /\ ongoing
  BY <1>1 DEF SetConnecting, SoloInv, MonitorSound
<1>3. UNCHANGED <<loopEnds, after, ongoing, next, active, enabled, paused, spc, old>>
  BY <1>1, <1>2 DEF SetConnecting, SetState, flagVars, adapterVars, switchVars
<1>. DEFINE l == "openSocket"
<1>5. Jump(Monitor, l)
  BY <1>1, <1>2, MonitorCallback DEF SetConnecting, TargetSound, MonitorSound, AdapterSound
<1>6. cpc'[Monitor] = l /\ tgt' = tgt
  BY <1>1, <1>5, MonitorJumps
<1>7. /\ state'[a] = "Connecting" /\ \A b \in Adapters : b # a => state'[b] = state[b]
  BY <1>1 DEF SetConnecting, SetState, flagVars, adapterVars, switchVars, Commanders, CommandsTyped
<1>8. OnlyTarget
  BY <1>3, <1>7 DEF OnlyTarget
<1>9. AdapterSound(a)'
  BY <1>1, <1>2, <1>3, <1>5, <1>6, <1>7 DEF AdapterSound, TargetSound, At
<1>10. TargetSound'
  BY <1>1, <1>2, <1>3, <1>5, <1>6, <1>7 DEF TargetSound, AdapterSound
<1>11. MonitorSound'
  BY <1>1, <1>2, <1>3, <1>5, <1>6, <1>7 DEF MonitorSound, TargetSound, AdapterSound
<1>. QED  BY <1>3, <1>5, <1>8, <1>9, <1>10, <1>11, SoloStep

\* The sender threads do not notice that the socket is opened.
LEMMA OpenSocketSolo ==
  ASSUME HandoverInv, SoloInv, OpenSocket(Monitor)
  PROVE  SoloInv'
<1>. DEFINE a == tgt[Monitor]
<1>1. /\ CommandsTyped /\ a \in Adapters /\ next \in Adapters /\ active \in Adapters
      /\ state \in [Adapters -> AdapterStates] /\ spc \in [Adapters -> SenderPCs]
      /\ enabled \in [Adapters -> BOOLEAN] /\ paused \in [Adapters -> BOOLEAN]
  BY SoloTypes
<1>2. cpc[Monitor] = "openSocket" /\ AdapterSound(a) /\ TargetSound /\ MonitorSound /\ ongoing
  BY <1>1 DEF OpenSocket, SoloInv, MonitorSound
<1>3. UNCHANGED <<loopEnds, after, ongoing, next, active, state, enabled, paused, spc, old>>
  BY <1>1, <1>2 DEF OpenSocket, flagVars, adapterVars, switchVars
<1>4. \E l : Jump(Monitor, l) /\ (l = "accept" \/ l = "enableLoop")
  BY <1>1, <1>2, MonitorCallback DEF OpenSocket, TargetSound, AdapterSound
<1>5. PICK l : Jump(Monitor, l) /\ (l = "accept" \/ l = "enableLoop")
  BY <1>4
<1>6. cpc'[Monitor] = l /\ tgt' = tgt
  BY <1>1, <1>5, MonitorJumps
<1>8. OnlyTarget
  BY <1>3 DEF OnlyTarget
<1>9. AdapterSound(a)'
  BY <1>1, <1>2, <1>3, <1>5, <1>6 DEF AdapterSound, TargetSound, At
<1>10. TargetSound'
  BY <1>1, <1>2, <1>3, <1>5, <1>6 DEF TargetSound, AdapterSound
<1>11. MonitorSound'
  BY <1>1, <1>2, <1>3, <1>5, <1>6 DEF MonitorSound, TargetSound, AdapterSound
<1>. QED  BY <1>3, <1>5, <1>8, <1>9, <1>10, <1>11, SoloStep

\* The peer connects.
LEMMA AcceptedSolo ==
  ASSUME HandoverInv, SoloInv, Accept(Monitor),
         Jump(Monitor, "enableLoop"), UNCHANGED adapterVars
  PROVE  SoloInv'
<1>. DEFINE a == tgt[Monitor]
<1>1. /\ CommandsTyped /\ a \in Adapters /\ next \in Adapters /\ active \in Adapters
      /\ state \in [Adapters -> AdapterStates] /\ spc \in [Adapters -> SenderPCs]
      /\ enabled \in [Adapters -> BOOLEAN] /\ paused \in [Adapters -> BOOLEAN]
  BY SoloTypes
<1>2. cpc[Monitor] = "accept" /\ AdapterSound(a) /\ TargetSound /\ MonitorSound /\ ongoing
  BY <1>1 DEF Accept, SoloInv, MonitorSound
<1>3. UNCHANGED <<loopEnds, after, ongoing, next, active, state, enabled, paused, spc, old>>
  BY <1>1, <1>2 DEF Accept, SetState, flagVars, adapterVars, switchVars
<1>. DEFINE l == "enableLoop"
<1>5. Jump(Monitor, l)
  BY <1>1, <1>2, MonitorCallback DEF Accept, TargetSound, MonitorSound, AdapterSound
<1>6. cpc'[Monitor] = l /\ tgt' = tgt
  BY <1>1, <1>5, MonitorJumps
<1>8. OnlyTarget
  BY <1>3 DEF OnlyTarget
<1>9. AdapterSound(a)'
  BY <1>1, <1>2, <1>3, <1>5, <1>6 DEF AdapterSound, TargetSound, At
<1>10. TargetSound'
  BY <1>1, <1>2, <1>3, <1>5, <1>6 DEF TargetSound, AdapterSound
<1>11. MonitorSound'
  BY <1>1, <1>2, <1>3, <1>5, <1>6 DEF MonitorSound, TargetSound, AdapterSound
<1>. QED  BY <1>3, <1>5, <1>8, <1>9, <1>10, <1>11, SoloStep

\* The connection fails: the adapter is disconnected as it was before.
LEMMA NotAcceptedSolo ==
  ASSUME HandoverInv, SoloInv, Accept(Monitor),
         Jump(Monitor, Callback(Monitor, "connect", FALSE)), SetState(Monitor, "Disconnected")
  PROVE  SoloInv'
<1>. DEFINE a == tgt[Monitor]
<1>1. /\ CommandsTyped /\ a \in Adapters /\ next \in Adapters /\ active \in Adapters
      /\ state \in [Adapters -> AdapterStates] /\ spc \in [Adapters -> SenderPCs]
      /\ enabled \in [Adapters -> BOOLEAN] /\ paused \in [Adapters -> BOOLEAN]
  BY SoloTypes
<1>2. cpc[Monitor] = "accept" /\ AdapterSound(a) /\ TargetSound /\ MonitorSound /\ ongoing
  BY <1>1 DEF Accept, SoloInv, MonitorSound
<1>3. UNCHANGED <<loopEnds, after, ongoing, next, active, enabled, paused, spc, old>>
  BY <1>1, <1>2 DEF Accept, SetState, flagVars, adapterVars, switchVars
<1>. DEFINE l == "doneFalse"
<1>5. Jump(Monitor, l)
  BY <1>1, <1>2, MonitorCallback DEF Accept, TargetSound, MonitorSound, AdapterSound
<1>6. cpc'[Monitor] = l /\ tgt' = tgt
  BY <1>1, <1>5, MonitorJumps
<1>7. /\ state'[a] = "Disconnected" /\ \A b \in Adapters : b # a => state'[b] = state[b]
  BY <1>1 DEF Accept, SetState, flagVars, adapterVars, switchVars, Commanders, CommandsTyped
<1>8. OnlyTarget
  BY <1>3, <1>7 DEF OnlyTarget
<1>9. AdapterSound(a)'
  BY <1>1, <1>2, <1>3, <1>5, <1>6, <1>7 DEF AdapterSound, TargetSound, At
<1>10. TargetSound'
  BY <1>1, <1>2, <1>3, <1>5, <1>6, <1>7 DEF TargetSound, AdapterSound
<1>11. MonitorSound'
  BY <1>1, <1>2, <1>3, <1>5, <1>6, <1>7 DEF MonitorSound, TargetSound, AdapterSound
<1>. QED  BY <1>3, <1>5, <1>8, <1>9, <1>10, <1>11, SoloStep

\* enable_loop() lets the sender of the connecting adapter into its loop.
LEMMA EnableLoopSolo ==
  ASSUME HandoverInv, SoloInv, EnableLoop(Monitor)
  PROVE  SoloInv'
<1>. DEFINE a == tgt[Monitor]
<1>1. /\ CommandsTyped /\ a \in Adapters /\ next \in Adapters /\ active \in Adapters
      /\ state \in [Adapters -> AdapterStates] /\ spc \in [Adapters -> SenderPCs]
      /\ enabled \in [Adapters -> BOOLEAN] /\ paused \in [Adapters -> BOOLEAN]
  BY SoloTypes
<1>2. cpc[Monitor] = "enableLoop" /\ AdapterSound(a) /\ TargetSound /\ MonitorSound /\ ongoing
  BY <1>1 DEF EnableLoop, SoloInv, MonitorSound
<1>3. UNCHANGED <<loopEnds, after, ongoing, next, active, state, paused, old>>
  BY <1>1, <1>2 DEF EnableLoop, flagVars, adapterVars, switchVars
<1>. DEFINE l == "connectDone"
<1>5. Jump(Monitor, l)
  BY <1>1, <1>2, MonitorCallback DEF EnableLoop, TargetSound, MonitorSound, AdapterSound
<1>6. cpc'[Monitor] = l /\ tgt' = tgt
  BY <1>1, <1>5, MonitorJumps
<1>7. /\ enabled'[a] = TRUE /\ \A b \in Adapters : b # a => enabled'[b] = enabled[b]
      /\ spc'[a] = IF spc[a] = "enableWait" THEN "begin" ELSE spc[a]
      /\ \A b \in Adapters : b # a => spc'[b] = spc[b]
  BY <1>1 DEF EnableLoop, flagVars, adapterVars, switchVars, Commanders, CommandsTyped
<1>8. OnlyTarget
  BY <1>3, <1>7 DEF OnlyTarget
<1>9. AdapterSound(a)'
  BY <1>1, <1>2, <1>3, <1>5, <1>6, <1>7 DEF AdapterSound, TargetSound, At
<1>10. TargetSound'
  BY <1>1, <1>2, <1>3, <1>5, <1>6, <1>7 DEF TargetSound, AdapterSound
<1>11. MonitorSound'
  BY <1>1, <1>2, <1>3, <1>5, <1>6, <1>7 DEF MonitorSound, TargetSound, AdapterSound
<1>. QED  BY <1>3, <1>5, <1>8, <1>9, <1>10, <1>11, SoloStep

\* The adapter is Active.
LEMMA ConnectDoneSolo ==
  ASSUME HandoverInv, SoloInv, ConnectDone(Monitor)
  PROVE  SoloInv'
<1>. DEFINE a == tgt[Monitor]
<1>1. /\ CommandsTyped /\ a \in Adapters /\ next \in Adapters /\ active \in Adapters
      /\ state \in [Adapters -> AdapterStates] /\ spc \in [Adapters -> SenderPCs]
      /\ enabled \in [Adapters -> BOOLEAN] /\ paused \in [Adapters -> BOOLEAN]
  BY SoloTypes
<1>2. cpc[Monitor] = "connectDone" /\ AdapterSound(a) /\ TargetSound /\ MonitorSound /\ ongoing
  BY <1>1 DEF ConnectDone, SoloInv, MonitorSound
<1>3. UNCHANGED <<loopEnds, after, ongoing, next, active, enabled, paused, spc, old>>
  BY <1>1, <1>2 DEF ConnectDone, SetState, flagVars, adapterVars, switchVars
<1>. DEFINE l == "connected"
<1>5. Jump(Monitor, l)
  BY <1>1, <1>2, MonitorCallback DEF ConnectDone, TargetSound, MonitorSound, AdapterSound
<1>6. cpc'[Monitor] = l /\ tgt' = tgt
  BY <1>1, <1>5, MonitorJumps
<1>7. /\ state'[a] = "Active" /\ \A b \in Adapters : b # a => state'[b] = state[b]
  BY <1>1 DEF ConnectDone, SetState, flagVars, adapterVars, switchVars, Commanders, CommandsTyped
<1>8. OnlyTarget
  BY <1>3, <1>7 DEF OnlyTarget
<1>9. AdapterSound(a)'
  BY <1>1, <1>2, <1>3, <1>5, <1>6, <1>7 DEF AdapterSound, TargetSound, At
<1>10. TargetSound'
  BY <1>1, <1>2, <1>3, <1>5, <1>6, <1>7 DEF TargetSound, AdapterSound
<1>11. MonitorSound'
  BY <1>1, <1>2, <1>3, <1>5, <1>6, <1>7 DEF MonitorSound, TargetSound, AdapterSound
<1>. QED  BY <1>3, <1>5, <1>8, <1>9, <1>10, <1>11, SoloStep

\* wake_up() of an adapter that does not sleep fails at once.
LEMMA WakeUpSolo ==
  ASSUME HandoverInv, SoloInv, WakeUp(Monitor)
  PROVE  SoloInv'
<1>. DEFINE a == tgt[Monitor]
<1>1. /\ CommandsTyped /\ a \in Adapters /\ next \in Adapters /\ active \in Adapters
      /\ state \in [Adapters -> AdapterStates] /\ spc \in [Adapters -> SenderPCs]
      /\ enabled \in [Adapters -> BOOLEAN] /\ paused \in [Adapters -> BOOLEAN]
  BY SoloTypes
<1>2. cpc[Monitor] = "wakeUp" /\ AdapterSound(a) /\ TargetSound /\ MonitorSound /\ ongoing
  BY <1>1 DEF WakeUp, SoloInv, MonitorSound
<1>3. UNCHANGED <<loopEnds, after, ongoing, next, active, state, enabled, paused, spc, old>>
  BY <1>1, <1>2 DEF WakeUp, Elsewhere, sendVars, flagVars, adapterVars, switchVars
<1>4. \E l : Jump(Monitor, l) /\ ((l = "wakeUpPaused" /\ state[a] = "Sleeping") \/ l = "doneFalse")
  BY <1>1, <1>2, MonitorCallback DEF WakeUp, TargetSound, AdapterSound
<1>5. PICK l : /\ Jump(Monitor, l)
               /\ ((l = "wakeUpPaused" /\ state[a] = "Sleeping") \/ l = "doneFalse")
  BY <1>4
<1>6. cpc'[Monitor] = l /\ tgt' = tgt
  BY <1>1, <1>5, MonitorJumps
<1>8. OnlyTarget
  BY <1>3 DEF OnlyTarget
<1>9. AdapterSound(a)'
  BY <1>1, <1>2, <1>3, <1>5, <1>6 DEF AdapterSound, TargetSound, At
<1>10. TargetSound'
  BY <1>1, <1>2, <1>3, <1>5, <1>6 DEF TargetSound, AdapterSound
<1>11. MonitorSound'
  BY <1>1, <1>2, <1>3, <1>5, <1>6 DEF MonitorSound, TargetSound, AdapterSound
<1>. QED  BY <1>3, <1>5, <1>8, <1>9, <1>10, <1>11, SoloStep

\* The sender of a sleeping adapter is paused.
LEMMA WakeUpPausedSolo ==
  ASSUME HandoverInv, SoloInv, WakeUpPaused(Monitor)
  PROVE  SoloInv'
<1>. DEFINE a == tgt[Monitor]
<1>1. /\ CommandsTyped /\ a \in Adapters /\ next \in Adapters /\ active \in Adapters
      /\ state \in [Adapters -> AdapterStates] /\ spc \in [Adapters -> SenderPCs]
      /\ enabled \in [Adapters -> BOOLEAN] /\ paused \in [Adapters -> BOOLEAN]
  BY SoloTypes
<1>2. cpc[Monitor] = "wakeUpPaused" /\ AdapterSound(a) /\ TargetSound /\ MonitorSound /\ ongoing
  BY <1>1 DEF WakeUpPaused, SoloInv, MonitorSound
<1>3. UNCHANGED <<loopEnds, after, ongoing, next, active, state, enabled, paused, spc, old>>
  BY <1>1, <1>2 DEF WakeUpPaused, flagVars, adapterVars, switchVars
<1>4. \E l : Jump(Monitor, l) /\ (l = "setWakingUp" \/ l = "doneFalse")
  BY <1>1, <1>2, MonitorCallback DEF WakeUpPaused, TargetSound, AdapterSound
<1>5. PICK l : Jump(Monitor, l) /\ (l = "setWakingUp" \/ l = "doneFalse")
  BY <1>4
<1>6. cpc'[Monitor] = l /\ tgt' = tgt
  BY <1>1, <1>5, MonitorJumps
<1>8. OnlyTarget
  BY <1>3 DEF OnlyTarget
<1>9. AdapterSound(a)'
  BY <1>1, <1>2, <1>3, <1>5, <1>6 DEF AdapterSound, TargetSound, At
<1>10. TargetSound'
  BY <1>1, <1>2, <1>3, <1>5, <1>6 DEF TargetSound, AdapterSound
<1>11. MonitorSound'
  BY <1>1, <1>2, <1>3, <1>5, <1>6 DEF MonitorSound, TargetSound, AdapterSound
<1>. QED  BY <1>3, <1>5, <1>8, <1>9, <1>10, <1>11, SoloStep

\* The sender is told to resume in a later step.
LEMMA SetWakingUpSolo ==
  ASSUME HandoverInv, SoloInv, SetWakingUp(Monitor)
  PROVE  SoloInv'
<1>. DEFINE a == tgt[Monitor]
<1>1. /\ CommandsTyped /\ a \in Adapters /\ next \in Adapters /\ active \in Adapters
      /\ state \in [Adapters -> AdapterStates] /\ spc \in [Adapters -> SenderPCs]
      /\ enabled \in [Adapters -> BOOLEAN] /\ paused \in [Adapters -> BOOLEAN]
  BY SoloTypes
<1>2. cpc[Monitor] = "setWakingUp" /\ AdapterSound(a) /\ TargetSound /\ MonitorSound /\ ongoing
  BY <1>1 DEF SetWakingUp, SoloInv, MonitorSound
<1>3. UNCHANGED <<loopEnds, after, ongoing, next, active, enabled, paused, spc, old>>
  BY <1>1, <1>2 DEF SetWakingUp, SetState, flagVars, adapterVars, switchVars
<1>. DEFINE l == "resumeLoop"
<1>5. Jump(Monitor, l)
  BY <1>1, <1>2, MonitorCallback DEF SetWakingUp, TargetSound, MonitorSound, AdapterSound
<1>6. cpc'[Monitor] = l /\ tgt' = tgt
  BY <1>1, <1>5, MonitorJumps
<1>7. /\ state'[a] = "WakingUp" /\ \A b \in Adapters : b # a => state'[b] = state[b]
  BY <1>1 DEF SetWakingUp, SetState, flagVars, adapterVars, switchVars, Commanders, CommandsTyped
<1>8. OnlyTarget
  BY <1>3, <1>7 DEF OnlyTarget
<1>9. AdapterSound(a)'
  BY <1>1, <1>2, <1>3, <1>5, <1>6, <1>7 DEF AdapterSound, TargetSound, At
<1>10. TargetSound'
  BY <1>1, <1>2, <1>3, <1>5, <1>6, <1>7 DEF TargetSound, AdapterSound
<1>11. MonitorSound'
  BY <1>1, <1>2, <1>3, <1>5, <1>6, <1>7 DEF MonitorSound, TargetSound, AdapterSound
<1>. QED  BY <1>3, <1>5, <1>8, <1>9, <1>10, <1>11, SoloStep

\* resume_loop() lets the sender out of its wait.
LEMMA ResumeLoopSolo ==
  ASSUME HandoverInv, SoloInv, ResumeLoop(Monitor)
  PROVE  SoloInv'
<1>. DEFINE a == tgt[Monitor]
<1>1. /\ CommandsTyped /\ a \in Adapters /\ next \in Adapters /\ active \in Adapters
      /\ state \in [Adapters -> AdapterStates] /\ spc \in [Adapters -> SenderPCs]
      /\ enabled \in [Adapters -> BOOLEAN] /\ paused \in [Adapters -> BOOLEAN]
  BY SoloTypes
<1>2. cpc[Monitor] = "resumeLoop" /\ AdapterSound(a) /\ TargetSound /\ MonitorSound /\ ongoing
  BY <1>1 DEF ResumeLoop, SoloInv, MonitorSound
<1>3. UNCHANGED <<loopEnds, after, ongoing, next, active, state, enabled, old>>
  BY <1>1, <1>2 DEF ResumeLoop, Resume, flagVars, adapterVars, switchVars
<1>. DEFINE l == "connected"
<1>5. Jump(Monitor, l)
  BY <1>1, <1>2, MonitorCallback DEF ResumeLoop, TargetSound, MonitorSound, AdapterSound
<1>6. cpc'[Monitor] = l /\ tgt' = tgt
  BY <1>1, <1>5, MonitorJumps
<1>7. /\ paused'[a] = FALSE /\ \A b \in Adapters : b # a => paused'[b] = paused[b]
      /\ spc'[a] = IF spc[a] = "resumeWait" THEN "resumed" ELSE spc[a]
      /\ \A b \in Adapters : b # a => spc'[b] = spc[b]
  BY <1>1 DEF ResumeLoop, Resume, flagVars, adapterVars, switchVars, Commanders, CommandsTyped
<1>8. OnlyTarget
  BY <1>3, <1>7 DEF OnlyTarget
<1>9. AdapterSound(a)'
  BY <1>1, <1>2, <1>3, <1>5, <1>6, <1>7 DEF AdapterSound, TargetSound, At
<1>10. TargetSound'
  BY <1>1, <1>2, <1>3, <1>5, <1>6, <1>7 DEF TargetSound, AdapterSound
<1>11. MonitorSound'
  BY <1>1, <1>2, <1>3, <1>5, <1>6, <1>7 DEF MonitorSound, TargetSound, AdapterSound
<1>. QED  BY <1>3, <1>5, <1>8, <1>9, <1>10, <1>11, SoloStep

\* sleep() finds the adapter Active.
LEMMA SleepSolo ==
  ASSUME HandoverInv, SoloInv, Sleep(Monitor)
  PROVE  SoloInv'
<1>. DEFINE a == tgt[Monitor]
<1>1. /\ CommandsTyped /\ a \in Adapters /\ next \in Adapters /\ active \in Adapters
      /\ state \in [Adapters -> AdapterStates] /\ spc \in [Adapters -> SenderPCs]
      /\ enabled \in [Adapters -> BOOLEAN] /\ paused \in [Adapters -> BOOLEAN]
  BY SoloTypes
<1>2. cpc[Monitor] = "sleep" /\ AdapterSound(a) /\ TargetSound /\ MonitorSound /\ ongoing
  BY <1>1 DEF Sleep, SoloInv, MonitorSound
<1>3. UNCHANGED <<loopEnds, after, ongoing, next, active, state, enabled, paused, spc, old>>
  BY <1>1, <1>2 DEF Sleep, Elsewhere, sendVars, flagVars, adapterVars, switchVars
<1>. DEFINE l == "sleepPaused"
<1>5. Jump(Monitor, l)
  BY <1>1, <1>2, MonitorCallback DEF Sleep, TargetSound, MonitorSound, AdapterSound
<1>6. cpc'[Monitor] = l /\ tgt' = tgt
  BY <1>1, <1>5, MonitorJumps
<1>8. OnlyTarget
  BY <1>3 DEF OnlyTarget
<1>9. AdapterSound(a)'
  BY <1>1, <1>2, <1>3, <1>5, <1>6 DEF AdapterSound, TargetSound, At
<1>10. TargetSound'
  BY <1>1, <1>2, <1>3, <1>5, <1>6 DEF TargetSound, AdapterSound
<1>11. MonitorSound'
  BY <1>1, <1>2, <1>3, <1>5, <1>6 DEF MonitorSound, TargetSound, AdapterSound
<1>. QED  BY <1>3, <1>5, <1>8, <1>9, <1>10, <1>11, SoloStep

\* sleep() finds the sender of an Active adapter not paused.
LEMMA SleepPausedSolo ==
  ASSUME HandoverInv, SoloInv, SleepPaused(Monitor)
  PROVE  SoloInv'
<1>. DEFINE a == tgt[Monitor]
<1>1. /\ CommandsTyped /\ a \in Adapters /\ next \in Adapters /\ active \in Adapters
      /\ state \in [Adapters -> AdapterStates] /\ spc \in [Adapters -> SenderPCs]
      /\ enabled \in [Adapters -> BOOLEAN] /\ paused \in [Adapters -> BOOLEAN]
  BY SoloTypes
<1>2. cpc[Monitor] = "sleepPaused" /\ AdapterSound(a) /\ TargetSound /\ MonitorSound /\ ongoing
  BY <1>1 DEF SleepPaused, SoloInv, MonitorSound
<1>4. ~paused[a]
  BY <1>1, <1>2 DEF AdapterSound, TargetSound
<1>3. UNCHANGED <<loopEnds, after, ongoing, next, active, state, enabled, paused, spc, old>>
  BY <1>2, <1>4 DEF SleepPaused, Elsewhere, sendVars, flagVars, adapterVars, switchVars
<1>. DEFINE l == "setGoingSleeping"
<1>5. Jump(Monitor, l)
  BY <1>1, <1>2, MonitorCallback DEF SleepPaused, TargetSound, MonitorSound, AdapterSound
<1>6. cpc'[Monitor] = l /\ tgt' = tgt
  BY <1>1, <1>5, MonitorJumps
<1>8. OnlyTarget
  BY <1>3 DEF OnlyTarget
<1>9. AdapterSound(a)'
  BY <1>1, <1>2, <1>3, <1>5, <1>6 DEF AdapterSound, TargetSound, At
<1>10. TargetSound'
  BY <1>1, <1>2, <1>3, <1>5, <1>6 DEF TargetSound, AdapterSound
<1>11. MonitorSound'
  BY <1>1, <1>2, <1>3, <1>5, <1>6 DEF MonitorSound, TargetSound, AdapterSound
<1>. QED  BY <1>3, <1>5, <1>8, <1>9, <1>10, <1>11, SoloStep

\* The sender is paused in a later step.
LEMMA SetGoingSleepingSolo ==
  ASSUME HandoverInv, SoloInv, SetGoingSleeping(Monitor)
  PROVE  SoloInv'
<1>. DEFINE a == tgt[Monitor]
<1>1. /\ CommandsTyped /\ a \in Adapters /\ next \in Adapters /\ active \in Adapters
      /\ state \in [Adapters -> AdapterStates] /\ spc \in [Adapters -> SenderPCs]
      /\ enabled \in [Adapters -> BOOLEAN] /\ paused \in [Adapters -> BOOLEAN]
  BY SoloTypes
<1>2. cpc[Monitor] = "setGoingSleeping" /\ AdapterSound(a) /\ TargetSound /\ MonitorSound /\ ongoing
  BY <1>1 DEF SetGoingSleeping, SoloInv, MonitorSound
<1>3. UNCHANGED <<loopEnds, after, ongoing, next, active, enabled, paused, spc, old>>
  BY <1>1, <1>2 DEF SetGoingSleeping, SetState, flagVars, adapterVars, switchVars
<1>. DEFINE l == "pauseLoop"
<1>5. Jump(Monitor, l)
  BY <1>1, <1>2, MonitorCallback DEF SetGoingSleeping, TargetSound, MonitorSound, AdapterSound
<1>6. cpc'[Monitor] = l /\ tgt' = tgt
  BY <1>1, <1>5, MonitorJumps
<1>7. /\ state'[a] = "GoingSleeping" /\ \A b \in Adapters : b # a => state'[b] = state[b]
  BY <1>1 DEF SetGoingSleeping, SetState, flagVars, adapterVars, switchVars, Commanders,
              CommandsTyped
<1>8. OnlyTarget
  BY <1>3, <1>7 DEF OnlyTarget
<1>9. AdapterSound(a)'
  BY <1>1, <1>2, <1>3, <1>5, <1>6, <1>7 DEF AdapterSound, TargetSound, At
<1>10. TargetSound'
  BY <1>1, <1>2, <1>3, <1>5, <1>6, <1>7 DEF TargetSound, AdapterSound
<1>11. MonitorSound'
  BY <1>1, <1>2, <1>3, <1>5, <1>6, <1>7 DEF MonitorSound, TargetSound, AdapterSound
<1>. QED  BY <1>3, <1>5, <1>8, <1>9, <1>10, <1>11, SoloStep

\* pause_loop(): from here on the sender may suspend itself.
LEMMA PauseLoopSolo ==
  ASSUME HandoverInv, SoloInv, PauseLoop(Monitor)
  PROVE  SoloInv'
<1>. DEFINE a == tgt[Monitor]
<1>1. /\ CommandsTyped /\ a \in Adapters /\ next \in Adapters /\ active \in Adapters
      /\ state \in [Adapters -> AdapterStates] /\ spc \in [Adapters -> SenderPCs]
      /\ enabled \in [Adapters -> BOOLEAN] /\ paused \in [Adapters -> BOOLEAN]
  BY SoloTypes
<1>2. cpc[Monitor] = "pauseLoop" /\ AdapterSound(a) /\ TargetSound /\ MonitorSound /\ ongoing
  BY <1>1 DEF PauseLoop, SoloInv, MonitorSound
<1>3. UNCHANGED <<loopEnds, after, ongoing, next, active, state, enabled, spc, old>>
  BY <1>1, <1>2 DEF PauseLoop, flagVars, adapterVars, switchVars
<1>. DEFINE l == "wakeUpDequeue"
<1>5. Jump(Monitor, l)
  BY <1>1, <1>2, MonitorCallback DEF PauseLoop, TargetSound, MonitorSound, AdapterSound
<1>6. cpc'[Monitor] = l /\ tgt' = tgt
  BY <1>1, <1>5, MonitorJumps
<1>7. /\ paused'[a] = TRUE /\ \A b \in Adapters : b # a => paused'[b] = paused[b]
  BY <1>1 DEF PauseLoop, flagVars, adapterVars, switchVars, Commanders, CommandsTyped
<1>8. OnlyTarget
  BY <1>3, <1>7 DEF OnlyTarget
<1>9. AdapterSound(a)'
  BY <1>1, <1>2, <1>3, <1>5, <1>6, <1>7 DEF AdapterSound, TargetSound, At
<1>10. TargetSound'
  BY <1>1, <1>2, <1>3, <1>5, <1>6, <1>7 DEF TargetSound, AdapterSound
<1>11. MonitorSound'
  BY <1>1, <1>2, <1>3, <1>5, <1>6, <1>7 DEF MonitorSound, TargetSound, AdapterSound
<1>. QED  BY <1>3, <1>5, <1>8, <1>9, <1>10, <1>11, SoloStep

\* disconnect_on_command() finds the adapter Sleeping.
LEMMA DisconnectOnCommandSolo ==
  ASSUME HandoverInv, SoloInv, DisconnectOnCommand(Monitor),
         cpc[Monitor] = "disconnect"
  PROVE  SoloInv'
<1>. DEFINE a == tgt[Monitor]
<1>1. /\ CommandsTyped /\ a \in Adapters /\ next \in Adapters /\ active \in Adapters
      /\ state \in [Adapters -> AdapterStates] /\ spc \in [Adapters -> SenderPCs]
      /\ enabled \in [Adapters -> BOOLEAN] /\ paused \in [Adapters -> BOOLEAN]
  BY SoloTypes
<1>2. cpc[Monitor] = "disconnect" /\ AdapterSound(a) /\ TargetSound /\ MonitorSound /\ ongoing
  BY <1>1 DEF DisconnectOnCommand, SoloInv, MonitorSound
<1>3. UNCHANGED <<loopEnds, after, ongoing, next, active, state, enabled, paused, spc, old>>
  BY <1>1, <1>2 DEF DisconnectOnCommand, Elsewhere, sendVars, flagVars, adapterVars, switchVars
<1>. DEFINE l == "startOnPurpose"
<1>5. Jump(Monitor, l)
  BY <1>1, <1>2, MonitorCallback DEF DisconnectOnCommand, TargetSound, MonitorSound, AdapterSound
<1>6. cpc'[Monitor] = l /\ tgt' = tgt
  BY <1>1, <1>5, MonitorJumps
<1>8. OnlyTarget
  BY <1>3 DEF OnlyTarget
<1>9. AdapterSound(a)'
  BY <1>1, <1>2, <1>3, <1>5, <1>6 DEF AdapterSound, TargetSound, At
<1>10. TargetSound'
  BY <1>1, <1>2, <1>3, <1>5, <1>6 DEF TargetSound, AdapterSound
<1>11. MonitorSound'
  BY <1>1, <1>2, <1>3, <1>5, <1>6 DEF MonitorSound, TargetSound, AdapterSound
<1>. QED  BY <1>3, <1>5, <1>8, <1>9, <1>10, <1>11, SoloStep

\* The request to the peer leaves the sleeping adapter asleep.
LEMMA StartDisconnectingOnPurposeSolo ==
  ASSUME HandoverInv, SoloInv, StartDisconnectingOnPurpose(Monitor)
  PROVE  SoloInv'
<1>. DEFINE a == tgt[Monitor]
<1>1. /\ CommandsTyped /\ a \in Adapters /\ next \in Adapters /\ active \in Adapters
      /\ state \in [Adapters -> AdapterStates] /\ spc \in [Adapters -> SenderPCs]
      /\ enabled \in [Adapters -> BOOLEAN] /\ paused \in [Adapters -> BOOLEAN]
  BY SoloTypes
<1>2. cpc[Monitor] = "startOnPurpose" /\ AdapterSound(a) /\ TargetSound /\ MonitorSound /\ ongoing
  BY <1>1 DEF StartDisconnectingOnPurpose, SoloInv, MonitorSound
<1>3. UNCHANGED <<loopEnds, after, ongoing, next, active, state, enabled, paused, spc, old>>
  BY <1>1, <1>2 DEF StartDisconnectingOnPurpose, flagVars, adapterVars, switchVars
<1>. DEFINE l == "readOldState"
<1>5. Jump(Monitor, l)
  BY <1>1, <1>2, MonitorCallback DEF StartDisconnectingOnPurpose, TargetSound, MonitorSound,
                                     AdapterSound
<1>6. cpc'[Monitor] = l /\ tgt' = tgt
  BY <1>1, <1>5, MonitorJumps
<1>8. OnlyTarget
  BY <1>3 DEF OnlyTarget
<1>9. AdapterSound(a)'
  BY <1>1, <1>2, <1>3, <1>5, <1>6 DEF AdapterSound, TargetSound, At
<1>10. TargetSound'
  BY <1>1, <1>2, <1>3, <1>5, <1>6 DEF TargetSound, AdapterSound
<1>11. MonitorSound'
  BY <1>1, <1>2, <1>3, <1>5, <1>6 DEF MonitorSound, TargetSound, AdapterSound
<1>. QED  BY <1>3, <1>5, <1>8, <1>9, <1>10, <1>11, SoloStep

\* oldState is kSleeping.
LEMMA ReadOldStateSolo ==
  ASSUME HandoverInv, SoloInv, ReadOldState(Monitor)
  PROVE  SoloInv'
<1>. DEFINE a == tgt[Monitor]
<1>1. /\ CommandsTyped /\ a \in Adapters /\ next \in Adapters /\ active \in Adapters
      /\ state \in [Adapters -> AdapterStates] /\ spc \in [Adapters -> SenderPCs]
      /\ enabled \in [Adapters -> BOOLEAN] /\ paused \in [Adapters -> BOOLEAN]
  BY SoloTypes
<1>2. cpc[Monitor] = "readOldState" /\ AdapterSound(a) /\ TargetSound /\ MonitorSound /\ ongoing
  BY <1>1 DEF ReadOldState, SoloInv, MonitorSound
<1>3. UNCHANGED <<loopEnds, after, ongoing, next, active, state, enabled, paused, spc>>
  BY <1>1, <1>2 DEF ReadOldState, sendVars, flagVars, adapterVars, switchVars
<1>. DEFINE l == "setDisconnecting"
<1>5. Jump(Monitor, l)
  BY <1>1, <1>2, MonitorCallback DEF ReadOldState, TargetSound, MonitorSound, AdapterSound
<1>6. cpc'[Monitor] = l /\ tgt' = tgt
  BY <1>1, <1>5, MonitorJumps
<1>7. /\ old'[Monitor] = state[a]
  BY <1>1 DEF ReadOldState, sendVars, flagVars, adapterVars, switchVars, Commanders, CommandsTyped
<1>8. OnlyTarget
  BY <1>3, <1>7 DEF OnlyTarget
<1>9. AdapterSound(a)'
  BY <1>1, <1>2, <1>3, <1>5, <1>6, <1>7 DEF AdapterSound, TargetSound, At
<1>10. TargetSound'
  BY <1>1, <1>2, <1>3, <1>5, <1>6, <1>7 DEF TargetSound, AdapterSound
<1>11. MonitorSound'
  BY <1>1, <1>2, <1>3, <1>5, <1>6, <1>7 DEF MonitorSound, TargetSound, AdapterSound
<1>. QED  BY <1>3, <1>5, <1>8, <1>9, <1>10, <1>11, SoloStep

\* The sender still waits to be resumed.
LEMMA SetDisconnectingSolo ==
  ASSUME HandoverInv, SoloInv, SetDisconnecting(Monitor)
  PROVE  SoloInv'
<1>. DEFINE a == tgt[Monitor]
<1>1. /\ CommandsTyped /\ a \in Adapters /\ next \in Adapters /\ active \in Adapters
      /\ state \in [Adapters -> AdapterStates] /\ spc \in [Adapters -> SenderPCs]
      /\ enabled \in [Adapters -> BOOLEAN] /\ paused \in [Adapters -> BOOLEAN]
  BY SoloTypes
<1>2. cpc[Monitor] = "setDisconnecting" /\ AdapterSound(a) /\ TargetSound /\ MonitorSound /\ ongoing
  BY <1>1 DEF SetDisconnecting, SoloInv, MonitorSound
<1>3. UNCHANGED <<loopEnds, after, ongoing, next, active, enabled, paused, spc, old>>
  BY <1>1, <1>2 DEF SetDisconnecting, SetState, flagVars, adapterVars, switchVars
<1>. DEFINE l == "disableLoop"
<1>5. Jump(Monitor, l)
  BY <1>1, <1>2, MonitorCallback DEF SetDisconnecting, TargetSound, MonitorSound, AdapterSound
<1>6. cpc'[Monitor] = l /\ tgt' = tgt
  BY <1>1, <1>5, MonitorJumps
<1>7. /\ state'[a] = "Disconnecting" /\ \A b \in Adapters : b # a => state'[b] = state[b]
  BY <1>1 DEF SetDisconnecting, SetState, flagVars, adapterVars, switchVars, Commanders,
              CommandsTyped
<1>8. OnlyTarget
  BY <1>3, <1>7 DEF OnlyTarget
<1>9. AdapterSound(a)'
  BY <1>1, <1>2, <1>3, <1>5, <1>6, <1>7 DEF AdapterSound, TargetSound, At
<1>10. TargetSound'
  BY <1>1, <1>2, <1>3, <1>5, <1>6, <1>7 DEF TargetSound, AdapterSound
<1>11. MonitorSound'
  BY <1>1, <1>2, <1>3, <1>5, <1>6, <1>7 DEF MonitorSound, TargetSound, AdapterSound
<1>. QED  BY <1>3, <1>5, <1>8, <1>9, <1>10, <1>11, SoloStep

\* The loop is disabled before the sender is resumed.
LEMMA DisableLoopSolo ==
  ASSUME HandoverInv, SoloInv, DisableLoop(Monitor)
  PROVE  SoloInv'
<1>. DEFINE a == tgt[Monitor]
<1>1. /\ CommandsTyped /\ a \in Adapters /\ next \in Adapters /\ active \in Adapters
      /\ state \in [Adapters -> AdapterStates] /\ spc \in [Adapters -> SenderPCs]
      /\ enabled \in [Adapters -> BOOLEAN] /\ paused \in [Adapters -> BOOLEAN]
  BY SoloTypes
<1>2. cpc[Monitor] = "disableLoop" /\ AdapterSound(a) /\ TargetSound /\ MonitorSound /\ ongoing
  BY <1>1 DEF DisableLoop, SoloInv, MonitorSound
<1>3. UNCHANGED <<loopEnds, after, ongoing, next, active, state, paused, spc, old>>
  BY <1>1, <1>2 DEF DisableLoop, flagVars, adapterVars, switchVars
<1>. DEFINE l == "resumeDisabled"
<1>5. Jump(Monitor, l)
  BY <1>1, <1>2, MonitorCallback DEF DisableLoop, TargetSound, MonitorSound, AdapterSound
<1>6. cpc'[Monitor] = l /\ tgt' = tgt
  BY <1>1, <1>5, MonitorJumps
<1>7. /\ enabled'[a] = FALSE /\ \A b \in Adapters : b # a => enabled'[b] = enabled[b]
  BY <1>1 DEF DisableLoop, flagVars, adapterVars, switchVars, Commanders, CommandsTyped
<1>8. OnlyTarget
  BY <1>3, <1>7 DEF OnlyTarget
<1>9. AdapterSound(a)'
  BY <1>1, <1>2, <1>3, <1>5, <1>6, <1>7 DEF AdapterSound, TargetSound, At
<1>10. TargetSound'
  BY <1>1, <1>2, <1>3, <1>5, <1>6, <1>7 DEF TargetSound, AdapterSound
<1>11. MonitorSound'
  BY <1>1, <1>2, <1>3, <1>5, <1>6, <1>7 DEF MonitorSound, TargetSound, AdapterSound
<1>. QED  BY <1>3, <1>5, <1>8, <1>9, <1>10, <1>11, SoloStep

\* The sender is resumed and will find its loop disabled.
LEMMA ResumeDisabledSolo ==
  ASSUME HandoverInv, SoloInv, ResumeDisabled(Monitor)
  PROVE  SoloInv'
<1>. DEFINE a == tgt[Monitor]
<1>1. /\ CommandsTyped /\ a \in Adapters /\ next \in Adapters /\ active \in Adapters
      /\ state \in [Adapters -> AdapterStates] /\ spc \in [Adapters -> SenderPCs]
      /\ enabled \in [Adapters -> BOOLEAN] /\ paused \in [Adapters -> BOOLEAN]
  BY SoloTypes
<1>2. cpc[Monitor] = "resumeDisabled" /\ AdapterSound(a) /\ TargetSound /\ MonitorSound /\ ongoing
  BY <1>1 DEF ResumeDisabled, SoloInv, MonitorSound
<1>3. UNCHANGED <<loopEnds, after, ongoing, next, active, state, enabled, old>>
  BY <1>1, <1>2 DEF ResumeDisabled, Resume, flagVars, adapterVars, switchVars
<1>. DEFINE l == "closeSocket"
<1>5. Jump(Monitor, l)
  BY <1>1, <1>2, MonitorCallback DEF ResumeDisabled, TargetSound, MonitorSound, AdapterSound
<1>6. cpc'[Monitor] = l /\ tgt' = tgt
  BY <1>1, <1>5, MonitorJumps
<1>7. /\ paused'[a] = FALSE /\ \A b \in Adapters : b # a => paused'[b] = paused[b]
      /\ spc'[a] = IF spc[a] = "resumeWait" THEN "resumed" ELSE spc[a]
      /\ \A b \in Adapters : b # a => spc'[b] = spc[b]
  BY <1>1 DEF ResumeDisabled, Resume, flagVars, adapterVars, switchVars, Commanders, CommandsTyped
<1>8. OnlyTarget
  BY <1>3, <1>7 DEF OnlyTarget
<1>9. AdapterSound(a)'
  BY <1>1, <1>2, <1>3, <1>5, <1>6, <1>7 DEF AdapterSound, TargetSound, At
<1>10. TargetSound'
  BY <1>1, <1>2, <1>3, <1>5, <1>6, <1>7 DEF TargetSound, AdapterSound
<1>11. MonitorSound'
  BY <1>1, <1>2, <1>3, <1>5, <1>6, <1>7 DEF MonitorSound, TargetSound, AdapterSound
<1>. QED  BY <1>3, <1>5, <1>8, <1>9, <1>10, <1>11, SoloStep

\* Closing the socket changes nothing of the flags.
LEMMA CloseSocketSolo ==
  ASSUME HandoverInv, SoloInv, CloseSocket(Monitor)
  PROVE  SoloInv'
<1>. DEFINE a == tgt[Monitor]
<1>1. /\ CommandsTyped /\ a \in Adapters /\ next \in Adapters /\ active \in Adapters
      /\ state \in [Adapters -> AdapterStates] /\ spc \in [Adapters -> SenderPCs]
      /\ enabled \in [Adapters -> BOOLEAN] /\ paused \in [Adapters -> BOOLEAN]
  BY SoloTypes
<1>2. cpc[Monitor] = "closeSocket" /\ AdapterSound(a) /\ TargetSound /\ MonitorSound /\ ongoing
  BY <1>1 DEF CloseSocket, SoloInv, MonitorSound
<1>3. UNCHANGED <<loopEnds, after, ongoing, next, active, state, enabled, paused, spc, old>>
  BY <1>1, <1>2 DEF CloseSocket, flagVars, adapterVars, switchVars
<1>. DEFINE l == "waitLoopEnds"
<1>5. Jump(Monitor, l)
  BY <1>1, <1>2, MonitorCallback DEF CloseSocket, TargetSound, MonitorSound, AdapterSound
<1>6. cpc'[Monitor] = l /\ tgt' = tgt
  BY <1>1, <1>5, MonitorJumps
<1>8. OnlyTarget
  BY <1>3 DEF OnlyTarget
<1>9. AdapterSound(a)'
  BY <1>1, <1>2, <1>3, <1>5, <1>6 DEF AdapterSound, TargetSound, At
<1>10. TargetSound'
  BY <1>1, <1>2, <1>3, <1>5, <1>6 DEF TargetSound, AdapterSound
<1>11. MonitorSound'
  BY <1>1, <1>2, <1>3, <1>5, <1>6 DEF MonitorSound, TargetSound, AdapterSound
<1>. QED  BY <1>3, <1>5, <1>8, <1>9, <1>10, <1>11, SoloStep

\* mIsLoopEnds is that of the loop the sender was in.
LEMMA WaitLoopEndsSolo ==
  ASSUME HandoverInv, SoloInv, WaitLoopEnds(Monitor)
  PROVE  SoloInv'
<1>. DEFINE a == tgt[Monitor]
<1>1. /\ CommandsTyped /\ a \in Adapters /\ next \in Adapters /\ active \in Adapters
      /\ state \in [Adapters -> AdapterStates] /\ spc \in [Adapters -> SenderPCs]
      /\ enabled \in [Adapters -> BOOLEAN] /\ paused \in [Adapters -> BOOLEAN]
  BY SoloTypes
<1>2. cpc[Monitor] = "waitLoopEnds" /\ AdapterSound(a) /\ TargetSound /\ MonitorSound /\ ongoing
  BY <1>1 DEF WaitLoopEnds, SoloInv, MonitorSound
<1>3. UNCHANGED <<loopEnds, after, ongoing, next, active, state, enabled, paused, spc, old>>
  BY <1>1, <1>2 DEF WaitLoopEnds, Elsewhere, sendVars, flagVars, adapterVars, switchVars
<1>4. \E l : Jump(Monitor, l) /\ ((l = "finishOnPurpose" /\ loopEnds[a]) \/ l = "loopEndsWait")
  BY <1>1, <1>2, MonitorCallback DEF WaitLoopEnds, TargetSound, AdapterSound
<1>5. PICK l : Jump(Monitor, l) /\ ((l = "finishOnPurpose" /\ loopEnds[a]) \/ l = "loopEndsWait")
  BY <1>4
<1>6. cpc'[Monitor] = l /\ tgt' = tgt
  BY <1>1, <1>5, MonitorJumps
<1>8. OnlyTarget
  BY <1>3 DEF OnlyTarget
<1>9. AdapterSound(a)'
  BY <1>1, <1>2, <1>3, <1>5, <1>6 DEF AdapterSound, TargetSound, At
<1>10. TargetSound'
  BY <1>1, <1>2, <1>3, <1>5, <1>6 DEF TargetSound, AdapterSound
<1>11. MonitorSound'
  BY <1>1, <1>2, <1>3, <1>5, <1>6 DEF MonitorSound, TargetSound, AdapterSound
<1>. QED  BY <1>3, <1>5, <1>8, <1>9, <1>10, <1>11, SoloStep

\* The sender has left its loop and cannot enter it again.
LEMMA FinishDisconnectingOnPurposeSolo ==
  ASSUME HandoverInv, SoloInv, FinishDisconnectingOnPurpose(Monitor)
  PROVE  SoloInv'
<1>. DEFINE a == tgt[Monitor]
<1>1. /\ CommandsTyped /\ a \in Adapters /\ next \in Adapters /\ active \in Adapters
      /\ state \in [Adapters -> AdapterStates] /\ spc \in [Adapters -> SenderPCs]
      /\ enabled \in [Adapters -> BOOLEAN] /\ paused \in [Adapters -> BOOLEAN]
  BY SoloTypes
<1>2. cpc[Monitor] = "finishOnPurpose" /\ AdapterSound(a) /\ TargetSound /\ MonitorSound /\ ongoing
  BY <1>1 DEF FinishDisconnectingOnPurpose, SoloInv, MonitorSound
<1>3. UNCHANGED <<loopEnds, after, ongoing, next, active, state, enabled, paused, spc, old>>
  BY <1>1, <1>2 DEF FinishDisconnectingOnPurpose, flagVars, adapterVars, switchVars
<1>. DEFINE l == "setDisconnected"
<1>5. Jump(Monitor, l)
  BY <1>1, <1>2, MonitorCallback DEF FinishDisconnectingOnPurpose, TargetSound, MonitorSound,
                                     AdapterSound
<1>6. cpc'[Monitor] = l /\ tgt' = tgt
  BY <1>1, <1>5, MonitorJumps
<1>8. OnlyTarget
  BY <1>3 DEF OnlyTarget
<1>9. AdapterSound(a)'
  BY <1>1, <1>2, <1>3, <1>5, <1>6 DEF AdapterSound, TargetSound, At
<1>10. TargetSound'
  BY <1>1, <1>2, <1>3, <1>5, <1>6 DEF TargetSound, AdapterSound
<1>11. MonitorSound'
  BY <1>1, <1>2, <1>3, <1>5, <1>6 DEF MonitorSound, TargetSound, AdapterSound
<1>. QED  BY <1>3, <1>5, <1>8, <1>9, <1>10, <1>11, SoloStep

\* The adapter is Disconnected with its sender outside the loop.
LEMMA SetDisconnectedSolo ==
  ASSUME HandoverInv, SoloInv, SetDisconnected(Monitor)
  PROVE  SoloInv'
<1>. DEFINE a == tgt[Monitor]
<1>1. /\ CommandsTyped /\ a \in Adapters /\ next \in Adapters /\ active \in Adapters
      /\ state \in [Adapters -> AdapterStates] /\ spc \in [Adapters -> SenderPCs]
      /\ enabled \in [Adapters -> BOOLEAN] /\ paused \in [Adapters -> BOOLEAN]
  BY SoloTypes
<1>2. cpc[Monitor] = "setDisconnected" /\ AdapterSound(a) /\ TargetSound /\ MonitorSound /\ ongoing
  BY <1>1 DEF SetDisconnected, SoloInv, MonitorSound
<1>3. UNCHANGED <<loopEnds, after, ongoing, next, active, enabled, paused, spc, old>>
  BY <1>1, <1>2 DEF SetDisconnected, SetState, flagVars, adapterVars, switchVars
<1>. DEFINE l == "doneTrue"
<1>5. Jump(Monitor, l)
  BY <1>1, <1>2, MonitorCallback DEF SetDisconnected, TargetSound, MonitorSound, AdapterSound
<1>6. cpc'[Monitor] = l /\ tgt' = tgt
  BY <1>1, <1>5, MonitorJumps
<1>7. /\ state'[a] = "Disconnected" /\ \A b \in Adapters : b # a => state'[b] = state[b]
  BY <1>1 DEF SetDisconnected, SetState, flagVars, adapterVars, switchVars, Commanders,
              CommandsTyped
<1>8. OnlyTarget
  BY <1>3, <1>7 DEF OnlyTarget
<1>9. AdapterSound(a)'
  BY <1>1, <1>2, <1>3, <1>5, <1>6, <1>7 DEF AdapterSound, TargetSound, At
<1>10. TargetSound'
  BY <1>1, <1>2, <1>3, <1>5, <1>6, <1>7 DEF TargetSound, AdapterSound
<1>11. MonitorSound'
  BY <1>1, <1>2, <1>3, <1>5, <1>6, <1>7 DEF MonitorSound, TargetSound, AdapterSound
<1>. QED  BY <1>3, <1>5, <1>8, <1>9, <1>10, <1>11, SoloStep

(***************************************************************************)
(* wake_up_dequeue_waiting() notifies the senders of all adapters; none of *)
(* them leaves its loop or its wait for a resumption.                      *)
(***************************************************************************)
LEMMA WakeUpDequeueSolo ==
  ASSUME HandoverInv, SoloInv, WakeUpDequeue(Monitor)
  PROVE  SoloInv'
<1>. DEFINE a == tgt[Monitor]
<1>1. /\ CommandsTyped /\ a \in Adapters /\ next \in Adapters /\ active \in Adapters
      /\ state \in [Adapters -> AdapterStates] /\ spc \in [Adapters -> SenderPCs]
  BY SoloTypes
<1>2. /\ cpc[Monitor] = "wakeUpDequeue" /\ TargetSound /\ MonitorSound /\ ongoing
      /\ \A b \in Adapters : AdapterSound(b)
  BY DEF WakeUpDequeue, SoloInv, MonitorSound
<1>3. UNCHANGED <<loopEnds, after, ongoing, next, active, state, enabled, paused, old>>
  BY DEF WakeUpDequeue, flagVars, adapterVars, switchVars
<1>4. Jump(Monitor, "slept")
  BY <1>2, MonitorCallback DEF WakeUpDequeue
<1>5. /\ cpc'[Monitor] = "slept" /\ cpc'[Peer] = cpc[Peer] /\ tgt' = tgt
  BY <1>1, <1>4, MonitorJumps
<1>6. \A b \in Adapters :
        spc'[b] = spc[b] \/ (spc[b] = "deqWait" /\ spc'[b] = "deqWoken")
  BY <1>1 DEF WakeUpDequeue, WakeUpDequeueWaiting
<1>7. ASSUME NEW b \in Adapters
      PROVE  AdapterSound(b)'
  <2>1. AdapterSound(b) /\ (spc'[b] = spc[b] \/ (spc[b] = "deqWait" /\ spc'[b] = "deqWoken"))
    BY <1>2, <1>6
  <2>. QED  BY <1>2, <1>3, <1>5, <2>1 DEF AdapterSound, At
<1>8. TargetSound'
  BY <1>2, <1>3, <1>5 DEF TargetSound
<1>9. MonitorSound'
  BY <1>2, <1>3, <1>5 DEF MonitorSound
<1>. QED  BY <1>3, <1>5, <1>7, <1>8, <1>9 DEF SoloInv

-----------------------------------------------------------------------------
\* Where Monitor is in no operation on an adapter.
TransactionPCs == {"monitor", "switch", "start", "connectOrWakeUp", "connected",
                   "slept", "pollSleeping", "doneTrue", "doneFalse"}

(***************************************************************************)
(* The transaction leaves the adapters alone; Monitor begins an operation  *)
(* on one, or waits for the one that it has told to sleep.                 *)
(***************************************************************************)
LEMMA TransactionAdapters ==
  ASSUME NEW b, AdapterSound(b), cpc[Monitor] \in TransactionPCs,
         UNCHANGED <<spc, enabled, paused, loopEnds, state>>,
         cpc'[Monitor] # "resumeLoop",
         state[b] = "GoingSleeping" =>
           cpc'[Monitor] \in {"slept", "pollSleeping"} /\ tgt' = tgt
  PROVE  AdapterSound(b)'
<1>1. /\ state[b] # "Connecting" /\ state[b] # "Disconnecting" /\ ~At(b, {"resumeLoop"})
  BY DEF AdapterSound, At, TransactionPCs
<1>2. ~At(b, {"resumeLoop"})'
  BY DEF At
<1>3. state[b] = "GoingSleeping" =>
        /\ spc[b] \notin PausedPCs \ {"suspend"}
        /\ At(b, GoingSleepingPCs)' /\ ~At(b, {"pauseLoop"})'
  BY DEF AdapterSound, At
<1>4. /\ spc[b] \notin Outside \cup {"begin"} => ~loopEnds[b]
      /\ spc[b] = "suspend" => paused[b]
      /\ state[b] = "Disconnected" => spc[b] \in Outside /\ ~enabled[b] /\ ~paused[b]
      /\ state[b] = "Active" => ~paused[b] /\ spc[b] \notin PausedPCs
      /\ state[b] = "Sleeping" => paused[b] /\ spc[b] \in Waiting
      /\ state[b] = "WakingUp" => ~paused[b] /\ spc[b] \in PausedPCs \ {"suspend"}
  BY <1>1 DEF AdapterSound
<1>. QED  BY <1>1, <1>2, <1>3, <1>4, Zenon DEF AdapterSound

\* Only an adapter that Monitor waits for is on its way to sleep.
LEMMA NobodyGoesToSleep ==
  ASSUME SoloInv, cpc[Monitor] \in TransactionPCs \ {"slept", "pollSleeping"},
         NEW b \in Adapters
  PROVE  state[b] # "GoingSleeping"
  BY DEF SoloInv, AdapterSound, At, TransactionPCs

\* What is left to show of a step of the transaction.
LEMMA TransactionStep ==
  ASSUME HandoverInv, SoloInv, SwitchStep, cpc[Monitor] \in TransactionPCs,
         NEW l, l # "resumeLoop",
         Jump(Monitor, l) \/ \E a \in Adapters : Call(Monitor, l, a),
         after' = "monitor",
         \A b \in Adapters : state[b] = "GoingSleeping" =>
           l \in {"slept", "pollSleeping"} /\ tgt' = tgt,
         TargetSound', MonitorSound'
  PROVE  SoloInv'
<1>1. /\ Monitor \in Commanders /\ Peer \in Commanders /\ Monitor # Peer
      /\ cpc \in [Commanders -> CommanderPCs]
  BY SoloTypes, MonitorIsCaller DEF Commanders, CommandsTyped
<1>2. cpc'[Monitor] = l /\ cpc'[Peer] = "peer"
  BY <1>1 DEF Jump, Call, SoloInv
<1>3. UNCHANGED <<spc, enabled, paused, loopEnds, state>>
  BY SwitchStepElsewhere DEF Elsewhere, sendVars, flagVars, adapterVars
<1>4. \A b \in Adapters : AdapterSound(b)'
  BY <1>2, <1>3, TransactionAdapters DEF SoloInv
<1>. QED  BY <1>2, <1>4 DEF SoloInv

\* The policy decides on another adapter, and the transaction begins.
LEMMA BeginSolo ==
  ASSUME HandoverInv, SoloInv, DecideSwitch \/ SwitchAdapters
  PROVE  SoloInv'
<1>1. Monitor \in Commanders /\ cpc \in [Commanders -> CommanderPCs]
  BY SoloTypes DEF Commanders, CommandsTyped
<1>2. /\ cpc[Monitor] \in {"monitor", "switch"} /\ after' = "monitor"
      /\ MonitorSound /\ active' = active /\ state' = state
  BY DEF DecideSwitch, SwitchAdapters, SoloInv, Elsewhere, sendVars, adapterVars
<1>3. \E l \in {"monitor", "switch", "start"} :
        /\ Jump(Monitor, l)
        /\ l = "start" => ongoing'
        /\ l # "monitor" => next' # active
  BY DEF DecideSwitch, SwitchAdapters, SoloInv, MonitorSound
<1>4. PICK l \in {"monitor", "switch", "start"} :
        /\ Jump(Monitor, l)
        /\ l = "start" => ongoing'
        /\ l # "monitor" => next' # active
  BY <1>3
<1>5. cpc'[Monitor] = l
  BY <1>1, <1>4 DEF Jump
<1>6. TargetSound'
  BY <1>5 DEF TargetSound
<1>7. MonitorSound'
  BY <1>2, <1>4, <1>5 DEF MonitorSound
<1>8. \A b \in Adapters : state[b] # "GoingSleeping"
  BY <1>2, NobodyGoesToSleep DEF TransactionPCs
<1>9. SwitchStep
  BY DEF SwitchStep, Transaction
<1>. QED
  BY <1>2, <1>4, <1>6, <1>7, <1>8, <1>9, TransactionStep DEF TransactionPCs

\* start() and connect_or_wake_up() begin with the next adapter.
LEMMA StartSolo ==
  ASSUME HandoverInv, SoloInv, StartSwitch \/ ConnectOrWakeUp
  PROVE  SoloInv'
<1>1. /\ Monitor \in Commanders /\ cpc \in [Commanders -> CommanderPCs]
      /\ tgt \in [Commanders -> Adapters] /\ next \in Adapters
  BY SoloTypes DEF Commanders, CommandsTyped
<1>2. /\ cpc[Monitor] \in {"start", "connectOrWakeUp"} /\ after' = "monitor"
      /\ MonitorSound /\ UNCHANGED <<active, next, ongoing, state>>
  BY DEF StartSwitch, ConnectOrWakeUp, SoloInv, Elsewhere, sendVars, adapterVars, switchVars
<1>3. \E l \in {"connected", "connectOrWakeUp", "doneFalse", "connect", "wakeUp", "monitor"} :
        /\ Jump(Monitor, l) \/ Call(Monitor, l, next)
        /\ l = "connected" => state[next] = "Active"
        /\ tgt'[Monitor] = next
  <2>1. CASE StartSwitch
    <3>1. \E l \in {"connected", "connectOrWakeUp", "doneFalse"} :
            Call(Monitor, l, next) /\ (l = "connected" => state[next] = "Active")
      BY <2>1 DEF StartSwitch
    <3>. QED  BY <1>1, <3>1 DEF Call
  <2>2. CASE ConnectOrWakeUp
    <3>1. \E l \in {"connect", "wakeUp", "monitor"} : Jump(Monitor, l)
      BY <2>2 DEF ConnectOrWakeUp
    <3>2. tgt[Monitor] = next
      BY <1>2, <2>2 DEF ConnectOrWakeUp, MonitorSound
    <3>. QED  BY <1>1, <3>1, <3>2 DEF Jump
  <2>. QED  BY <2>1, <2>2
<1>4. PICK l \in {"connected", "connectOrWakeUp", "doneFalse", "connect", "wakeUp", "monitor"} :
        /\ Jump(Monitor, l) \/ Call(Monitor, l, next)
        /\ l = "connected" => state[next] = "Active"
        /\ tgt'[Monitor] = next
  BY <1>3
<1>5. cpc'[Monitor] = l
  BY <1>1, <1>4 DEF Jump, Call
<1>6. TargetSound'
  BY <1>5 DEF TargetSound
<1>7. MonitorSound'
  BY <1>2, <1>4, <1>5 DEF MonitorSound
<1>8. \A b \in Adapters : state[b] # "GoingSleeping"
  BY <1>2, NobodyGoesToSleep DEF TransactionPCs
<1>9. SwitchStep
  BY DEF SwitchStep, Transaction
<1>. QED
  BY <1>1, <1>2, <1>4, <1>6, <1>7, <1>8, <1>9, TransactionStep DEF TransactionPCs

\* connect_next_adapter_callback() goes on with the active adapter, which is
\* awake: it is put to sleep, or the switch is given up.
LEMMA ConnectedSolo ==
  ASSUME HandoverInv, SoloInv, ConnectNextAdapterCallback
  PROVE  SoloInv'
<1>1. /\ Monitor \in Commanders /\ cpc \in [Commanders -> CommanderPCs]
      /\ tgt \in [Commanders -> Adapters] /\ active \in Adapters
  BY SoloTypes DEF Commanders, CommandsTyped
<1>2. /\ cpc[Monitor] = "connected" /\ MonitorSound
      /\ UNCHANGED <<active, next, ongoing, state>>
  BY DEF ConnectNextAdapterCallback, SoloInv, Elsewhere, sendVars, adapterVars
<1>3. state[active] \in Awake
  BY <1>2 DEF MonitorSound
<1>4. after' = "monitor"
  BY <1>3 DEF ConnectNextAdapterCallback, SoloInv
<1>5. PICK l \in {"sleep", "doneFalse"} :
        Call(Monitor, l, active) /\ (l = "sleep" => state[active] = "Active")
  BY <1>3 DEF ConnectNextAdapterCallback
<1>6. cpc'[Monitor] = l /\ tgt'[Monitor] = active
  BY <1>1, <1>5 DEF Call
<1>7. TargetSound'
  BY <1>2, <1>5, <1>6 DEF TargetSound
<1>8. MonitorSound'
  BY <1>2, <1>3, <1>5, <1>6 DEF MonitorSound
<1>9. \A b \in Adapters : state[b] # "GoingSleeping"
  BY <1>2, NobodyGoesToSleep DEF TransactionPCs
<1>10. SwitchStep
  BY DEF SwitchStep, Transaction
<1>. QED
  BY <1>1, <1>2, <1>4, <1>5, <1>7, <1>8, <1>9, <1>10, TransactionStep DEF TransactionPCs

\* sleep_prev_adapter_callback() waits for an adapter that goes to sleep and
\* disconnects one that sleeps.
LEMMA SleptSolo ==
  ASSUME HandoverInv, SoloInv, SleepPrevAdapterCallback \/ PollSleeping
  PROVE  SoloInv'
<1>1. /\ Monitor \in Commanders /\ cpc \in [Commanders -> CommanderPCs]
      /\ tgt \in [Commanders -> Adapters] /\ active \in Adapters
  BY SoloTypes DEF Commanders, CommandsTyped
<1>2. /\ cpc[Monitor] \in {"slept", "pollSleeping"} /\ MonitorSound /\ TargetSound
      /\ UNCHANGED <<active, next, ongoing, state>> /\ after' = "monitor"
  BY DEF SleepPrevAdapterCallback, PollSleeping, SoloInv, Elsewhere, sendVars,
     adapterVars, switchVars
<1>3. /\ ongoing /\ tgt[Monitor] = active
      /\ state[active] \in {"GoingSleeping", "Sleeping"}
  BY <1>2 DEF MonitorSound, TargetSound
<1>4. PICK l \in {"pollSleeping", "disconnect"} :
        /\ Jump(Monitor, l)
        /\ l = "disconnect" => state[active] = "Sleeping"
  BY <1>3 DEF SleepPrevAdapterCallback, PollSleeping
<1>5. cpc'[Monitor] = l /\ tgt' = tgt
  BY <1>1, <1>4 DEF Jump
<1>6. TargetSound'
  BY <1>2, <1>3, <1>4, <1>5 DEF TargetSound
<1>7. MonitorSound'
  BY <1>2, <1>3, <1>4, <1>5 DEF MonitorSound
<1>8. ASSUME NEW b \in Adapters, state[b] = "GoingSleeping"
      PROVE  l \in {"slept", "pollSleeping"} /\ tgt' = tgt
  <2>1. b = active
    BY <1>3, <1>8 DEF SoloInv, AdapterSound, At
  <2>. QED  BY <1>4, <1>5, <1>8, <2>1
<1>9. SwitchStep
  BY DEF SwitchStep, Transaction
<1>. QED
  BY <1>2, <1>4, <1>6, <1>7, <1>8, <1>9, TransactionStep DEF TransactionPCs

\* done(): the next adapter becomes the active one, or the active one stays.
LEMMA DoneSolo ==
  ASSUME HandoverInv, SoloInv, DoneSwitch
  PROVE  SoloInv'
<1>1. /\ Monitor \in Commanders /\ cpc \in [Commanders -> CommanderPCs]
      /\ tgt \in [Commanders -> Adapters]
  BY SoloTypes DEF Commanders, CommandsTyped
<1>2. /\ cpc[Monitor] \in {"doneTrue", "doneFalse"} /\ MonitorSound
      /\ after' = "monitor" /\ Jump(Monitor, "monitor") /\ UNCHANGED <<next, state>>
      /\ active' = IF cpc[Monitor] = "doneTrue" THEN next ELSE active
  BY DEF DoneSwitch, SoloInv, Elsewhere, sendVars, adapterVars
<1>3. cpc'[Monitor] = "monitor"
  BY <1>1, <1>2 DEF Jump
<1>4. TargetSound'
  BY <1>3 DEF TargetSound
<1>5. MonitorSound'
  BY <1>2, <1>3 DEF MonitorSound
<1>6. \A b \in Adapters : state[b] # "GoingSleeping"
  BY <1>2, NobodyGoesToSleep DEF TransactionPCs
<1>7. SwitchStep
  BY DEF SwitchStep, Transaction
<1>. QED
  BY <1>2, <1>4, <1>5, <1>6, <1>7, TransactionStep DEF TransactionPCs

-----------------------------------------------------------------------------
(***************************************************************************)
(* The sender threads.  What a step of sender a is for everybody else: it  *)
(* may wake up Monitor when it has left its loop.                          *)
(***************************************************************************)
LEMMA SenderElsewhere ==
  ASSUME HandoverInv, SoloInv, NEW a \in Adapters, SenderStep(a)
  PROVE  /\ UNCHANGED <<tgt, old, after, ongoing, next, active>> /\ cpc'[Peer] = "peer"
         /\ cpc'[Monitor] = IF cpc[Monitor] = "loopEndsWait" /\ tgt[Monitor] = a
                               /\ spc[a] = "end3"
                            THEN "finishOnPurpose" ELSE cpc[Monitor]
         /\ \A b \in Adapters \ {a} :
              /\ state'[b] = state[b] /\ spc'[b] = spc[b] /\ paused'[b] = paused[b]
              /\ enabled'[b] = enabled[b] /\ loopEnds'[b] = loopEnds[b]
<1>1. /\ Monitor \in Commanders /\ Peer \in Commanders /\ Monitor # Peer
      /\ cpc \in [Commanders -> CommanderPCs]
      /\ state \in [Adapters -> AdapterStates] /\ spc \in [Adapters -> SenderPCs]
      /\ enabled \in [Adapters -> BOOLEAN] /\ paused \in [Adapters -> BOOLEAN]
      /\ loopEnds \in [Adapters -> BOOLEAN]
  BY SoloTypes, MonitorIsCaller
     DEF Commanders, CommandsTyped, HandoverInv, SendInv, SendTypeOK
<1>2. /\ UNCHANGED <<tgt, old, after, ongoing, next, active>> /\ cpc[Peer] = "peer"
      /\ cpc' = [c \in Commanders |->
                   IF cpc[c] = "loopEndsWait" /\ tgt[c] = a /\ spc[a] = "end3"
                   THEN "finishOnPurpose" ELSE cpc[c]]
  BY DEF SenderStep, switchVars, SoloInv
<1>3. \E l : spc' = [spc EXCEPT ![a] = l]
  BY DEF SenderStep, Sender, PausedSender, WaitUntilEnableLoop, BeginLoop, EndLoop,
     CheckEnabled, CheckPaused, PopFailedSegment, DequeueToSend, HaveSegment, AdapterSend,
     SocketSend, SendError, SegmentSent, Suspend, WaitUntilResumeLoop, Resumed, SetActive,
     Goto
<1>4. /\ state' = state \/ (\E s : state' = [state EXCEPT ![a] = s])
      /\ paused' = paused \/ paused' = [paused EXCEPT ![a] = FALSE]
      /\ enabled' = enabled \/ enabled' = [enabled EXCEPT ![a] = FALSE]
      /\ loopEnds' = loopEnds \/ (\E s : loopEnds' = [loopEnds EXCEPT ![a] = s])
  BY DEF SenderStep, Sender, PausedSender, WaitUntilEnableLoop, BeginLoop, EndLoop,
     CheckEnabled, CheckPaused, PopFailedSegment, DequeueToSend, HaveSegment, AdapterSend,
     SocketSend, SendError, SegmentSent, Suspend, WaitUntilResumeLoop, Resumed, SetActive,
     adapterVars, flagVars
<1>5. \A b \in Adapters \ {a} :
        /\ state'[b] = state[b] /\ spc'[b] = spc[b] /\ paused'[b] = paused[b]
        /\ enabled'[b] = enabled[b] /\ loopEnds'[b] = loopEnds[b]
  <2>. TAKE b \in Adapters \ {a}
  <2>1. spc'[b] = spc[b]
    BY <1>1, <1>3
  <2>2. state'[b] = state[b]
    BY <1>1, <1>4
  <2>3. paused'[b] = paused[b] /\ enabled'[b] = enabled[b]
    BY <1>1, <1>4
  <2>4. loopEnds'[b] = loopEnds[b]
    BY <1>1, <1>4
  <2>. QED  BY <2>1, <2>2, <2>3, <2>4
<1>. QED  BY <1>1, <1>2, <1>5

\* What is left to show of a step of sender a.
LEMMA SenderSoloStep ==
  ASSUME HandoverInv, SoloInv, NEW a \in Adapters, SenderStep(a),
         AdapterSound(a)', TargetSound', MonitorSound'
  PROVE  SoloInv'
<1>1. cpc'[Peer] = "peer" /\ after' = "monitor"
  BY SenderElsewhere DEF SoloInv
<1>2. ASSUME NEW b \in Adapters, b # a
      PROVE  AdapterSound(b)'
  <2>1. \A labels : At(b, labels)' <=> At(b, labels)
    BY <1>2, SenderElsewhere DEF At
  <2>2. /\ state'[b] = state[b] /\ spc'[b] = spc[b] /\ paused'[b] = paused[b]
        /\ enabled'[b] = enabled[b] /\ loopEnds'[b] = loopEnds[b]
    BY <1>2, SenderElsewhere
  <2>3. AdapterSound(b)
    BY DEF SoloInv
  <2>. QED  BY <2>1, <2>2, <2>3, OtherAdapter
<1>. QED  BY <1>1, <1>2 DEF SoloInv

\* Inside sender_loop(), from one segment to the next.
SegmentPCs == {"popFailed", "dequeue", "deqWoken", "have", "send", "sendConnecting",
               "socket", "sendError", "sent"}

(***************************************************************************)
(* A step of sender a that changes neither a flag nor the adapter's state: *)
(* from where to where it goes, and what it has read.                      *)
(***************************************************************************)
SenderMove(a) ==
  \/ spc[a] = "idle" /\ spc'[a] = IF enabled[a] THEN "begin" ELSE "enableWait"
  \/ spc[a] = "loop" /\ spc'[a] \in {"checkPaused", "end1"}
  \/ spc[a] = "checkPaused" /\ spc'[a] = IF paused[a] THEN "suspend" ELSE "popFailed"
  \/ spc[a] \in SegmentPCs /\ spc'[a] \in SegmentPCs \cup {"deqWait", "loop", "end1"}
  \/ spc[a] = "waitResume" /\ spc'[a] = IF paused[a] THEN "resumeWait" ELSE "resumed"
  \/ /\ spc[a] = "resumed"
     /\ spc'[a] = IF state[a] \in {"Disconnecting", "Disconnected"}
                  THEN "checkPaused" ELSE "setActive"

\* The steps of the sender thread that are nothing but such a move.
LEMMA SenderMoves ==
  ASSUME SendTypeOK, NEW a \in Adapters, Sender(a) \/ PausedSender(a),
         ~BeginLoop(a), ~EndLoop(a), ~Suspend(a), ~SetActive(a)
  PROVE  UNCHANGED <<state, enabled, paused, loopEnds>> /\ SenderMove(a)
<1>1. spc \in [Adapters -> SenderPCs]
  BY DEF SendTypeOK
<1>2. UNCHANGED <<state, enabled, paused, loopEnds>>
  BY DEF Sender, PausedSender, WaitUntilEnableLoop, CheckEnabled, CheckPaused,
     PopFailedSegment, DequeueToSend, HaveSegment, AdapterSend, SocketSend, SendError,
     SegmentSent, WaitUntilResumeLoop, Resumed, adapterVars, flagVars
<1>3. CASE WaitUntilEnableLoop(a)
  BY <1>1, <1>2, <1>3 DEF WaitUntilEnableLoop, Goto, SenderMove
<1>4. CASE CheckEnabled(a) \/ CheckPaused(a)
  BY <1>1, <1>2, <1>4 DEF CheckEnabled, CheckPaused, Goto, SenderMove
<1>5. CASE PopFailedSegment(a) \/ HaveSegment(a)
  BY <1>1, <1>2, <1>5 DEF PopFailedSegment, HaveSegment, Goto, SenderMove, SegmentPCs
<1>6. CASE DequeueToSend(a)
  <2>1. spc[a] \in SegmentPCs /\ \E l \in {"deqWait", "loop", "have"} : Goto(a, l)
    BY <1>6 DEF DequeueToSend, SegmentPCs
  <2>. QED  BY <1>1, <1>2, <2>1 DEF Goto, SenderMove, SegmentPCs
<1>7. CASE AdapterSend(a)
  <2>1. spc[a] \in SegmentPCs /\ \E l \in {"socket", "sendConnecting", "sendError"} : Goto(a, l)
    BY <1>7 DEF AdapterSend, SegmentPCs
  <2>. QED  BY <1>1, <1>2, <2>1 DEF Goto, SenderMove, SegmentPCs
<1>8. CASE SocketSend(a) \/ SendError(a) \/ SegmentSent(a)
  <2>1. spc[a] \in SegmentPCs /\ \E l \in {"sent", "sendError", "end1", "loop"} : Goto(a, l)
    BY <1>8 DEF SocketSend, SendError, SegmentSent, SegmentPCs
  <2>. QED  BY <1>1, <1>2, <2>1 DEF Goto, SenderMove, SegmentPCs
<1>9. CASE WaitUntilResumeLoop(a) \/ Resumed(a)
  BY <1>1, <1>2, <1>9 DEF WaitUntilResumeLoop, Resumed, Goto, SenderMove
<1>. QED
  BY <1>3, <1>4, <1>5, <1>6, <1>7, <1>8, <1>9 DEF Sender, PausedSender

\* A sender that only moves keeps what the states say of it: what it reads
\* is still so, because Monitor changes it only where that is sound.
LEMMA MoveSolo ==
  ASSUME HandoverInv, SoloInv, NEW a \in Adapters, SenderStep(a), SenderMove(a),
         UNCHANGED <<state, enabled, paused, loopEnds>>
  PROVE  SoloInv'
<1>1. /\ UNCHANGED <<tgt, old, ongoing, next, active>> /\ cpc'[Monitor] = cpc[Monitor]
  <2>1. spc[a] # "end3"
    BY DEF SenderMove, SegmentPCs
  <2>. QED  BY <2>1, SenderElsewhere
<1>2. AdapterSound(a) /\ TargetSound /\ MonitorSound
  BY DEF SoloInv
<1>3. TargetSound' /\ MonitorSound'
  BY <1>1, <1>2 DEF TargetSound, MonitorSound
<1>4. \A labels : At(a, labels)' <=> At(a, labels)
  BY <1>1 DEF At
<1>5. AdapterSound(a)'
  BY <1>1, <1>2 DEF AdapterSound, SenderMove, SegmentPCs, At
<1>. QED  BY <1>3, <1>5, SenderSoloStep

\* The sender enters sender_loop(): the end of the last loop is forgotten.
LEMMA BeginLoopSolo ==
  ASSUME HandoverInv, SoloInv, NEW a \in Adapters, SenderStep(a), BeginLoop(a)
  PROVE  SoloInv'
<1>1. /\ UNCHANGED <<tgt, old, ongoing, next, active>> /\ cpc'[Monitor] = cpc[Monitor]
  BY SenderElsewhere DEF BeginLoop
<1>2. AdapterSound(a) /\ TargetSound /\ MonitorSound
  BY DEF SoloInv
<1>3. /\ UNCHANGED <<state, enabled, paused>> /\ spc[a] = "begin" /\ spc'[a] = "loop"
      /\ ~loopEnds'[a]
  BY DEF BeginLoop, Goto, adapterVars, HandoverInv, SendInv, SendTypeOK
<1>4. TargetSound' /\ MonitorSound'
  BY <1>1, <1>2, <1>3 DEF TargetSound, MonitorSound
<1>5. AdapterSound(a)'
  BY <1>1, <1>2, <1>3 DEF AdapterSound, At
<1>. QED  BY <1>4, <1>5, SenderSoloStep

\* The sender leaves sender_loop(), and lets Monitor finish a disconnection.
LEMMA EndLoopSolo ==
  ASSUME HandoverInv, SoloInv, NEW a \in Adapters, SenderStep(a), EndLoop(a)
  PROVE  SoloInv'
<1>1. /\ UNCHANGED <<tgt, old, ongoing, next, active>>
      /\ cpc'[Monitor] = IF cpc[Monitor] = "loopEndsWait" /\ tgt[Monitor] = a
                            /\ spc[a] = "end3"
                         THEN "finishOnPurpose" ELSE cpc[Monitor]
  BY SenderElsewhere
<1>2. AdapterSound(a) /\ TargetSound /\ MonitorSound
  BY DEF SoloInv
<1>3. /\ UNCHANGED state /\ loopEnds \in [Adapters -> BOOLEAN]
      /\ enabled \in [Adapters -> BOOLEAN] /\ paused \in [Adapters -> BOOLEAN]
      /\ spc \in [Adapters -> SenderPCs]
  BY DEF EndLoop, adapterVars, HandoverInv, SendInv, SendTypeOK
<1>4. \/ spc[a] = "end1" /\ spc'[a] = "end2" /\ ~enabled'[a] /\ UNCHANGED <<paused, loopEnds>>
      \/ spc[a] = "end2" /\ spc'[a] = "end3" /\ ~paused'[a] /\ UNCHANGED <<enabled, loopEnds>>
      \/ spc[a] = "end3" /\ spc'[a] = "idle" /\ UNCHANGED <<enabled, paused>>
  BY <1>3 DEF EndLoop, Goto
<1>5. TargetSound' /\ MonitorSound'
  BY <1>1, <1>2, <1>3 DEF TargetSound, MonitorSound
<1>6. AdapterSound(a)'
  BY <1>1, <1>2, <1>3, <1>4 DEF AdapterSound, At
<1>. QED  BY <1>5, <1>6, SenderSoloStep

\* Only an adapter that Monitor has told to sleep goes to sleep.
LEMMA SuspendSolo ==
  ASSUME HandoverInv, SoloInv, NEW a \in Adapters, SenderStep(a), Suspend(a)
  PROVE  SoloInv'
<1>1. /\ UNCHANGED <<tgt, old, ongoing, next, active>> /\ cpc'[Monitor] = cpc[Monitor]
  BY SenderElsewhere DEF Suspend
<1>2. AdapterSound(a) /\ TargetSound /\ MonitorSound
  BY DEF SoloInv
<1>3. /\ UNCHANGED <<enabled, paused, loopEnds>>
      /\ spc[a] = "suspend" /\ spc'[a] = "waitResume" /\ state'[a] = "Sleeping"
      /\ \A b \in Adapters \ {a} : state'[b] = state[b]
      /\ state[a] \in AdapterStates
      /\ next \in Adapters /\ active \in Adapters /\ tgt[Monitor] \in Adapters
  BY SoloTypes DEF Suspend, Goto, flagVars, HandoverInv, SendInv, SendTypeOK
<1>4. state[a] = "GoingSleeping" /\ paused[a] /\ At(a, GoingSleepingPCs \ {"pauseLoop"})
  BY <1>2, <1>3 DEF AdapterSound, At, AdapterStates
<1>5. TargetSound' /\ MonitorSound'
  BY <1>1, <1>2, <1>3, <1>4 DEF TargetSound, MonitorSound, At
<1>6. AdapterSound(a)'
  BY <1>1, <1>2, <1>3, <1>4 DEF AdapterSound, At
<1>. QED  BY <1>5, <1>6, SenderSoloStep

\* Only an adapter that Monitor has woken up becomes active again.
LEMMA SetActiveSolo ==
  ASSUME HandoverInv, SoloInv, NEW a \in Adapters, SenderStep(a), SetActive(a)
  PROVE  SoloInv'
<1>1. /\ UNCHANGED <<tgt, old, ongoing, next, active>> /\ cpc'[Monitor] = cpc[Monitor]
  BY SenderElsewhere DEF SetActive
<1>2. AdapterSound(a) /\ TargetSound /\ MonitorSound
  BY DEF SoloInv
<1>3. /\ UNCHANGED <<enabled, paused, loopEnds>>
      /\ spc[a] = "setActive" /\ spc'[a] = "checkPaused" /\ state'[a] = "Active"
      /\ \A b \in Adapters \ {a} : state'[b] = state[b]
      /\ state[a] \in AdapterStates
      /\ next \in Adapters /\ active \in Adapters /\ tgt[Monitor] \in Adapters
  BY SoloTypes DEF SetActive, Goto, flagVars, HandoverInv, SendInv, SendTypeOK
<1>4. state[a] = "WakingUp" /\ ~paused[a] /\ ~At(a, {"resumeLoop"})
  BY <1>2, <1>3 DEF AdapterSound, At, AdapterStates
<1>5. TargetSound' /\ MonitorSound'
  BY <1>1, <1>2, <1>3, <1>4 DEF TargetSound, MonitorSound, At
<1>6. AdapterSound(a)'
  BY <1>1, <1>2, <1>3, <1>4 DEF AdapterSound, At
<1>. QED  BY <1>5, <1>6, SenderSoloStep

\* The caller threads do not touch the adapters; a sender that waits for a
\* segment is woken up.
LEMMA CallerSolo ==
  ASSUME HandoverInv, SoloInv, NEW c \in Callers, CallerStep(c)
  PROVE  SoloInv'
<1>1. /\ UNCHANGED <<cpc, tgt, old, after, ongoing, next, active>>
      /\ UNCHANGED <<state, enabled, paused, loopEnds>>
  BY DEF CallerStep, EnqueueToSend, SendToSegmentManager, commandVars, switchVars,
     adapterVars, flagVars
<1>2. spc' = spc \/ spc' = WakeUpDequeueWaiting
  BY DEF CallerStep, EnqueueToSend, SendToSegmentManager
<1>3. spc \in [Adapters -> SenderPCs]
  BY SoloTypes
<1>4. ASSUME NEW b \in Adapters
      PROVE  AdapterSound(b)'
  <2>1. AdapterSound(b) /\ (spc'[b] = spc[b] \/ (spc[b] = "deqWait" /\ spc'[b] = "deqWoken"))
    BY <1>2, <1>3 DEF SoloInv, WakeUpDequeueWaiting
  <2>. QED  BY <1>1, <2>1 DEF AdapterSound, At
<1>5. TargetSound' /\ MonitorSound' /\ cpc'[Peer] = "peer" /\ after' = "monitor"
  BY <1>1 DEF SoloInv, TargetSound, MonitorSound
<1>. QED  BY <1>4, <1>5 DEF SoloInv

\* The first adapter is connected, others sleep or are disconnected.
LEMMA SoloInitInv ==
  ASSUME HandoverInit
  PROVE  SoloInv
<1>1. PICK asleep \in SUBSET (Adapters \ {FirstActive}) :
        SendInit({FirstActive} \cup asleep, asleep)
  BY DEF HandoverInit
<1>2. /\ Monitor \in Commanders /\ Peer \in Commanders /\ Monitor # Peer
      /\ FirstActive \in Adapters
  BY MonitorIsCaller, HandoverAssumption DEF Commanders
<1>3. /\ cpc[Monitor] = "monitor" /\ cpc[Peer] = "peer" /\ after = "monitor"
      /\ active = FirstActive
  BY <1>2 DEF HandoverInit
<1>4. ASSUME NEW a \in Adapters
      PROVE  AdapterSound(a) /\ (a = FirstActive => state[a] = "Active")
  <2>1. /\ spc[a] = IF a \in asleep THEN "waitResume" ELSE "idle"
        /\ enabled[a] <=> a \in {FirstActive} \cup asleep
        /\ paused[a] <=> a \in asleep
        /\ a \in asleep => ~loopEnds[a]
    BY <1>1 DEF SendInit
  <2>2. state[a] = IF a \in asleep THEN "Sleeping"
                   ELSE IF a = FirstActive THEN "Active" ELSE "Disconnected"
    BY <1>1 DEF SendInit
  <2>. QED  BY <1>1, <2>1, <2>2 DEF AdapterSound
<1>5. TargetSound
  BY <1>3 DEF TargetSound
<1>6. MonitorSound
  BY <1>2, <1>3, <1>4 DEF MonitorSound
<1>. QED  BY <1>3, <1>4, <1>5, <1>6 DEF SoloInv

\* A peer that has sent no request commands nothing.
LEMMA PeerIsQuiet ==
  ASSUME cpc[Peer] = "peer"
  PROVE  ~AdapterOperation(Peer) /\ ~PeerSetSwitching /\ ~PeerDone
<1>1. ~AdapterOperation(Peer)
  BY DEF AdapterOperation, Connect, SetConnecting, OpenSocket, Accept, EnableLoop,
     ConnectDone, WakeUp, WakeUpPaused, SetWakingUp, ResumeLoop, Sleep, SleepPaused,
     SetGoingSleeping, PauseLoop, WakeUpDequeue
<1>2. ~PeerSetSwitching /\ ~PeerDone
  BY DEF PeerSetSwitching, PeerDone
<1>. QED  BY <1>1, <1>2

\* Every operation of Monitor on an adapter keeps SoloInv.
LEMMA OperationSolo ==
  ASSUME HandoverInv, SoloInv, AdapterOperation(Monitor)
  PROVE  SoloInv'
<1>1. CASE Connect(Monitor) \/ SetConnecting(Monitor) \/ OpenSocket(Monitor)
  BY <1>1, ConnectSolo, SetConnectingSolo, OpenSocketSolo
<1>2. CASE Accept(Monitor)
  BY <1>2, AcceptedSolo, NotAcceptedSolo DEF Accept
<1>3. CASE EnableLoop(Monitor) \/ ConnectDone(Monitor)
  BY <1>3, EnableLoopSolo, ConnectDoneSolo
<1>4. CASE WakeUp(Monitor) \/ WakeUpPaused(Monitor) \/ SetWakingUp(Monitor) \/ ResumeLoop(Monitor)
  BY <1>4, WakeUpSolo, WakeUpPausedSolo, SetWakingUpSolo, ResumeLoopSolo
<1>5. CASE Sleep(Monitor) \/ SleepPaused(Monitor) \/ SetGoingSleeping(Monitor)
           \/ PauseLoop(Monitor) \/ WakeUpDequeue(Monitor)
  BY <1>5, SleepSolo, SleepPausedSolo, SetGoingSleepingSolo, PauseLoopSolo, WakeUpDequeueSolo
<1>. QED  BY <1>1, <1>2, <1>3, <1>4, <1>5 DEF AdapterOperation

\* So does every step of a disconnection.
LEMMA DisconnectionSolo ==
  ASSUME HandoverInv, SoloInv, Disconnection(Monitor)
  PROVE  SoloInv'
<1>1. CASE DisconnectOnCommand(Monitor)
  <2>1. cpc[Monitor] = "disconnect"
    BY <1>1 DEF DisconnectOnCommand, SoloInv, MonitorSound
  <2>. QED  BY <1>1, <2>1, DisconnectOnCommandSolo
<1>2. CASE StartDisconnectingOnPurpose(Monitor) \/ ReadOldState(Monitor)
           \/ SetDisconnecting(Monitor)
  BY <1>2, StartDisconnectingOnPurposeSolo, ReadOldStateSolo, SetDisconnectingSolo
<1>3. CASE DisableLoop(Monitor) \/ ResumeDisabled(Monitor) \/ CloseSocket(Monitor)
  BY <1>3, DisableLoopSolo, ResumeDisabledSolo, CloseSocketSolo
<1>4. CASE WaitLoopEnds(Monitor) \/ FinishDisconnectingOnPurpose(Monitor)
           \/ SetDisconnected(Monitor)
  BY <1>4, WaitLoopEndsSolo, FinishDisconnectingOnPurposeSolo, SetDisconnectedSolo
<1>. QED  BY <1>1, <1>2, <1>3, <1>4 DEF Disconnection

\* Requests and spurious wake-ups are only ever counted up.
LEMMA DisturbancesRemain ==
  ASSUME HandoverInv, [HandoverNext]_vars, Undisturbed'
  PROVE  /\ Undisturbed
         /\ ~PeerRequest /\ ~SpuriousLoopEnds(Monitor)
         /\ \A a \in Adapters : ~SpuriousSenderWakeup(a)
<1>1. requests \in Nat /\ spurious \in Nat
  BY HandoverAssumption DEF HandoverInv, CommandsTyped, SendInv, SendTypeOK
<1>2. ~PeerRequest
  BY <1>1 DEF PeerRequest, Undisturbed
<1>3. ~SpuriousLoopEnds(Monitor)
  BY <1>1 DEF SpuriousLoopEnds, Undisturbed
<1>4. \A a \in Adapters : ~SpuriousSenderWakeup(a)
  BY <1>1 DEF SpuriousSenderWakeup, SpuriousWakeup, Undisturbed
<1>5. Undisturbed
  <2>1. CASE \E c \in Callers : CallerStep(c)
    BY <2>1 DEF CallerStep, EnqueueToSend, SendToSegmentManager, commandVars, switchVars,
       sockVars, Undisturbed
  <2>2. ASSUME NEW a \in Adapters, SenderStep(a)
        PROVE  Undisturbed
    <3>1. requests' = requests
      BY <2>2 DEF SenderStep, switchVars
    <3>2. CASE Sender(a)
      BY <3>1, <3>2 DEF Sender, WaitUntilEnableLoop, BeginLoop, EndLoop, CheckEnabled,
         CheckPaused, PopFailedSegment, DequeueToSend, HaveSegment, AdapterSend,
         SocketSend, SendError, SegmentSent, sockVars, Undisturbed
    <3>3. CASE PausedSender(a)
      BY <3>1, <3>3 DEF PausedSender, Suspend, WaitUntilResumeLoop, Resumed, SetActive,
         sockVars, Undisturbed
    <3>. QED  BY <2>2, <3>2, <3>3 DEF SenderStep
  <2>3. ASSUME NEW c \in Commanders, AdapterOperation(c)
        PROVE  Undisturbed
    BY <2>3 DEF AdapterOperation, Connect, SetConnecting, OpenSocket, Accept, EnableLoop,
       ConnectDone, WakeUp, WakeUpPaused, SetWakingUp, ResumeLoop, Sleep, SleepPaused,
       SetGoingSleeping, PauseLoop, WakeUpDequeue, Elsewhere, SetSock, sendVars,
       switchVars, sockVars, Undisturbed
  <2>4. CASE Disconnection(Monitor)
    BY <2>4 DEF Disconnection, DisconnectOnCommand, StartDisconnectingOnPurpose,
       ReadOldState, SetDisconnecting, DisableLoop, ResumeDisabled, CloseSocket,
       WaitLoopEnds, FinishDisconnectingOnPurpose, SetDisconnected, Elsewhere, SetSock,
       sendVars, switchVars, sockVars, Undisturbed
  <2>5. CASE DecideSwitch \/ Transaction \/ PeerSetSwitching \/ PeerDone
    BY <2>5 DEF Transaction, DecideSwitch, SwitchAdapters, StartSwitch, ConnectOrWakeUp,
       ConnectNextAdapterCallback, SleepPrevAdapterCallback, PollSleeping, DoneSwitch,
       PeerSetSwitching, PeerDone, Elsewhere, sendVars, switchVars, sockVars, Undisturbed
  <2>6. CASE UNCHANGED vars
    BY <2>6 DEF vars, sendVars, commandVars, switchVars, sockVars, Undisturbed
  <2>. QED
    BY <1>2, <1>3, <1>4, <2>1, <2>2, <2>3, <2>4, <2>5, <2>6 DEF HandoverNext
<1>. QED  BY <1>2, <1>3, <1>4, <1>5

\* Every step that disturbs nothing keeps SoloInv.
LEMMA SoloNextInv ==
  ASSUME HandoverInv, SoloInv, [HandoverNext]_vars, Undisturbed'
  PROVE  SoloInv'
<1>1. CASE \E c \in Callers : CallerStep(c)
  BY <1>1, CallerSolo
<1>2. ASSUME NEW a \in Adapters, SenderStep(a)
      PROVE  SoloInv'
  <2>1. SendTypeOK /\ (Sender(a) \/ PausedSender(a))
    BY <1>2 DEF SenderStep, HandoverInv, SendInv
  <2>2. CASE ~BeginLoop(a) /\ ~EndLoop(a) /\ ~Suspend(a) /\ ~SetActive(a)
    BY <1>2, <2>1, <2>2, SenderMoves, MoveSolo
  <2>. QED
    BY <1>2, <2>2, BeginLoopSolo, EndLoopSolo, SuspendSolo, SetActiveSolo
<1>3. CASE \E c \in Commanders : AdapterOperation(c)
  <2>1. AdapterOperation(Monitor)
    BY <1>3, PeerIsQuiet DEF Commanders, SoloInv
  <2>. QED  BY <2>1, OperationSolo
<1>4. CASE Disconnection(Monitor)
  BY <1>4, DisconnectionSolo
<1>5. CASE DecideSwitch \/ Transaction
  BY <1>5, BeginSolo, StartSolo, ConnectedSolo, SleptSolo, DoneSolo DEF Transaction
<1>6. CASE PeerSetSwitching \/ PeerDone
  BY <1>6, PeerIsQuiet DEF SoloInv
<1>7. CASE UNCHANGED vars
  <2>1. /\ UNCHANGED <<cpc, tgt, old, after, ongoing, next, active>>
        /\ UNCHANGED <<spc, state, enabled, paused, loopEnds>>
    BY <1>7 DEF vars, sendVars, commandVars, switchVars, flagVars, adapterVars
  <2>2. \A b \in Adapters : AdapterSound(b)'
    BY <2>1 DEF SoloInv, AdapterSound, At
  <2>3. TargetSound' /\ MonitorSound' /\ cpc'[Peer] = "peer" /\ after' = "monitor"
    BY <2>1 DEF SoloInv, TargetSound, MonitorSound
  <2>. QED  BY <2>2, <2>3 DEF SoloInv
<1>. QED
  BY <1>1, <1>2, <1>3, <1>4, <1>5, <1>6, <1>7, DisturbancesRemain DEF HandoverNext

\* SoloInv holds until the first request or spurious wake-up.
LEMMA SoloInvariant == HandoverSpec => [](HandoverInv /\ (Undisturbed => SoloInv))
<1>1. HandoverInit => HandoverInv /\ (Undisturbed => SoloInv)
  BY HandoverInitInv, SoloInitInv
<1>2. /\ HandoverInv /\ (Undisturbed => SoloInv)
      /\ [HandoverNext]_vars
      => (HandoverInv /\ (Undisturbed => SoloInv))'
  BY HandoverNextInv, SoloNextInv, DisturbancesRemain
<1>. QED  BY <1>1, <1>2, PTL DEF HandoverSpec

(***************************************************************************)
(* disconnect_internal() waits for the right loop's end: when an adapter   *)
(* is Disconnected its sender thread has left sender_loop().  For any      *)
(* number of adapters, callers, switches and send errors, until a wait     *)
(* returns without a notification (wait_until_loop_ends() waits once, and  *)
(* then does not look at the flag again) or a request of the peer comes    *)
(* between the steps of the switch.                                        *)
(***************************************************************************)
THEOREM SwitchLeavesSenderIdle == HandoverSpec => []DisconnectedSenderIdle
<1>1. HandoverInv /\ (Undisturbed => SoloInv) => DisconnectedSenderIdle
  <2>1. HandoverInv => TypeOK
    BY Zenon DEF HandoverInv, SendInv, CommandsTyped, TypeOK
  <2>. QED  BY <2>1 DEF SoloInv, AdapterSound, DisconnectedSenderIdle
<1>. QED  BY <1>1, SoloInvariant, PTL

(***************************************************************************)
(* The switch is seamless: while the previous adapter is disconnected the  *)
(* next one is active or waking up, and every callback of the switch finds *)
(* its transaction.  Until the same disturbances.                          *)
(***************************************************************************)
THEOREM SwitchIsSeamless == HandoverSpec => []NextAdapterReady
<1>1. HandoverInv /\ (Undisturbed => SoloInv) => NextAdapterReady
  <2>. SUFFICES ASSUME HandoverInv, SoloInv, Undisturbed
                PROVE  NextAdapterReady
    BY DEF NextAdapterReady
  <2>1. cpc[Monitor] # "crashed"
    BY DEF SoloInv, MonitorSound
  <2>2. ASSUME state[active] = "Disconnecting"
        PROVE  state[next] \in Awake
    <3>1. AdapterSound(active) /\ MonitorSound
      BY SoloTypes DEF SoloInv
    <3>2. cpc[Monitor] \in SecondPhase
      BY <2>2, <3>1 DEF AdapterSound, At
    <3>. QED  BY <3>1, <3>2 DEF MonitorSound
  <2>. QED  BY <2>1, <2>2 DEF NextAdapterReady
<1>. QED  BY <1>1, SoloInvariant, PTL
=============================================================================
