------------------------------ MODULE SegmentPool ------------------------------
(***************************************************************************)
(* The memory of the segments of the Linux server.  A segment is written   *)
(* into a block of the free list, or a new one, and the block travels: the *)
(* send queue, a sender, the failed list if it could not be sent, the sent *)
(* list after that, where it stays until the client has acknowledged it,   *)
(* and the free list again.  The client asks for missing segments, which   *)
(* puts blocks of the sent list into the failed list without taking them   *)
(* out.  The receivers take blocks of the same free list, and the          *)
(* application gives them back.                                            *)
(*                                                                         *)
(* One kind of segment is modelled: the lists of control and data segments *)
(* have nothing in common but the failed list.  A block is identified with *)
(* its address; the content of a block is the sequence number of its       *)
(* segment, NumSegs for that of a segment of the client.                   *)
(***************************************************************************)
EXTENDS Integers, Sequences, FiniteSets, SequencesExt

CONSTANTS
  Senders,           \* sender threads, one per adapter
  NumSegs,           \* bound: segments the application sends
  NumReceived,       \* bound: blocks the receivers take
  NumRequests,       \* bound: queue status and retransmission messages
  kSegFreeThreshold  \* length of the free list that makes it shrink

ASSUME SegmentPoolAssumption ==
  /\ IsFiniteSet(Senders) /\ kSegFreeThreshold \in Nat \ {0}
  /\ {NumSegs, NumReceived, NumRequests} \subseteq Nat

SeqNos == 0..NumSegs - 1
Foreign == NumSegs
Blocks == 1..NumSegs + NumReceived
Nothing == 0

VARIABLES
  heap,     \* blocks that are allocated
  content,  \* what every block contains
  free,     \* mFreeList and mFreeSegmentListSize, and who shrinks it under the lock
  queue,    \* the send queue
  failed,   \* mFailedSegmentList
  sent,     \* mSentSegmentLists
  sender,   \* the block every sender has, and what it does with it
  received, \* receive queue, and the number of segments received
  client,   \* segments on their way, received by the client, and its messages
  control,  \* the control message receiver: its message, and where it is in the sent list
  reused,   \* a block was given to the free list while it was in use
  raced     \* two threads have changed the free list at the same time

vars == <<heap, content, free, queue, failed, sent, sender, received, client, control, reused, raced>>

\* An acknowledgement of a range of segments, or a request to send them again.
Messages == [type : {"status", "retransmit"}, first : SeqNos, last : SeqNos]
NoMessage == [type |-> "none", first |-> 0, last |-> 0]

\* Types of the free, sent and failed lists of SegmentManager.cpp
TypeOK ==
  /\ heap \subseteq Blocks /\ content \in [Blocks -> 0..NumSegs]
  /\ free \in [list : Seq(Blocks), size : Nat, locked : BOOLEAN]
  /\ queue \in Seq(Blocks) /\ failed \in Seq(Blocks) /\ sent \in Seq(Blocks)
  /\ sender \in [Senders -> [pc : {"idle", "have", "sent"}, block : Blocks \cup {Nothing}]]
  /\ received \in [queue : Seq(Blocks), count : 0..NumReceived, leaked : 0..NumReceived]
  /\ client \in [link : SUBSET SeqNos, got : SUBSET SeqNos, inbox : Seq(Messages), requests : 0..NumRequests,
                 written : 0..NumSegs]
  /\ control \in [pc : {"idle", "deallocate", "retransmit", "check", "shrink", "shrinking"},
                  msg : Messages \cup {NoMessage}, at : Nat \ {0}]
  /\ reused \in BOOLEAN /\ raced \in BOOLEAN

Init ==
  /\ heap = {} /\ content = [b \in Blocks |-> 0]
  /\ free = [list |-> <<>>, size |-> 0, locked |-> FALSE]
  /\ queue = <<>> /\ failed = <<>> /\ sent = <<>>
  /\ sender = [s \in Senders |-> [pc |-> "idle", block |-> Nothing]]
  /\ received = [queue |-> <<>>, count |-> 0, leaked |-> 0]
  /\ client = [link |-> {}, got |-> {}, inbox |-> <<>>, requests |-> 0, written |-> 0]
  /\ control = [pc |-> "idle", msg |-> NoMessage, at |-> 1] /\ reused = FALSE /\ raced = FALSE

-----------------------------------------------------------------------------
(***************************************************************************)
(* The free list, a record pool of the list, its size and the heap         *)
(***************************************************************************)
Pool == [list |-> free.list, size |-> free.size, heap |-> heap]

\* The block pop_free_segment() returns, and what is left.
PoppedBlock(pool) ==
  IF pool.size = 0 THEN CHOOSE b \in Blocks \ pool.heap : TRUE ELSE Head(pool.list)

PopFreeSegment(pool) ==
  IF pool.size = 0 THEN [pool EXCEPT !.heap = @ \cup {PoppedBlock(pool)}]
  ELSE [pool EXCEPT !.list = Tail(@), !.size = @ - 1]

ShrinkFreeSegmentList(pool, threshold) ==
  LET n == IF pool.size > threshold THEN pool.size - threshold ELSE 0 IN
    [list |-> SubSeq(pool.list, n + 1, Len(pool.list)), size |-> pool.size - n,
     heap |-> pool.heap \ ToSet(SubSeq(pool.list, 1, n))]

AddFreeSegment(pool, block) ==
  LET added == [list |-> <<block>> \o pool.list, size |-> pool.size + 1, heap |-> pool.heap] IN
    IF added.size > kSegFreeThreshold THEN ShrinkFreeSegmentList(added, kSegFreeThreshold \div 2) ELSE added

SetPool(pool, locked) ==
  /\ free' = [list |-> pool.list, size |-> pool.size, locked |-> locked]
  /\ heap' = pool.heap

\* The free list is used without the lock at this moment.
Shrinking == control.pc = "shrinking"

\* The blocks that the sending of segments still needs, apart from the sent list.
InUse == ToSet(queue) \cup ToSet(failed) \cup {sender[s].block : s \in Senders}

-----------------------------------------------------------------------------
(***************************************************************************)
(* send_to_segment_manager() for one segment                               *)
(***************************************************************************)
Write ==
  /\ client.written < NumSegs /\ ~free.locked
  /\ LET b == PoppedBlock(Pool) IN
       /\ SetPool(PopFreeSegment(Pool), FALSE)
       /\ content' = [content EXCEPT ![b] = client.written]
       /\ queue' = Append(queue, b)
  /\ client' = [client EXCEPT !.written = @ + 1] /\ raced' = Shrinking
  /\ UNCHANGED <<failed, sent, sender, received, control, reused>>

(***************************************************************************)
(* A sender: pop_failed_segment() else dequeue(), then send(), and then    *)
(* add_failed_segment_to_list() or add_sent_segment_to_list()              *)
(***************************************************************************)
Take(s) ==
  /\ sender[s].pc = "idle"
  /\ \/ /\ failed # <<>>
        /\ sender' = [sender EXCEPT ![s] = [pc |-> "have", block |-> Head(failed)]]
        /\ failed' = Tail(failed) /\ UNCHANGED queue
     \/ /\ failed = <<>> /\ queue # <<>>
        /\ sender' = [sender EXCEPT ![s] = [pc |-> "have", block |-> Head(queue)]]
        /\ queue' = Tail(queue) /\ UNCHANGED failed
  /\ UNCHANGED <<heap, content, free, sent, received, client, control, reused, raced>>

Send(s) ==
  /\ sender[s].pc = "have"
  /\ sender' = [sender EXCEPT ![s] = [pc |-> "sent", block |-> sender[s].block]]
  /\ client' = [client EXCEPT !.link = @ \cup ({content[sender[s].block]} \cap SeqNos)]
  /\ UNCHANGED <<heap, content, free, queue, failed, sent, received, control, reused, raced>>

SendFail(s) ==
  /\ sender[s].pc = "have"
  /\ failed' = Append(failed, sender[s].block)
  /\ sender' = [sender EXCEPT ![s] = [pc |-> "idle", block |-> Nothing]]
  /\ UNCHANGED <<heap, content, free, queue, sent, received, client, control, reused, raced>>

\* Mutant: the position of a segment is not looked for.
MutantAddSentSegment(list, block) == Append(list, block)

\* The position behind which add_sent_segment_to_list() stops, walking from the end.
SentPosition(list, block) ==
  CHOOSE p \in 0..Len(list) :
    /\ \A i \in p + 1..Len(list) : content[list[i]] > content[block]
    /\ p > 0 => content[list[p]] <= content[block]

\* The list after it: a segment that is there already is not inserted again.
AddSentSegment(list, block) ==
  LET p == SentPosition(list, block) IN
    IF p > 0 /\ content[list[p]] = content[block] THEN list ELSE InsertAt(list, p + 1, block)

\* The control message receiver holds the lock of the sent list while it walks it.
SentListLocked == control.pc \in {"deallocate", "retransmit"}

AddSent(s) ==
  /\ sender[s].pc = "sent" /\ ~SentListLocked
  /\ sent' = AddSentSegment(sent, sender[s].block)
  /\ sender' = [sender EXCEPT ![s] = [pc |-> "idle", block |-> Nothing]]
  /\ UNCHANGED <<heap, content, free, queue, failed, received, client, control, reused, raced>>

-----------------------------------------------------------------------------
(***************************************************************************)
(* A receiver: the block it has popped, with a segment of the client, goes *)
(* into the receive queue.  Blocks that it pops for nothing are in no list *)
(* any more: one where it means to give one back after a segment, and one  *)
(* for every time-out and every acknowledgement.                           *)
(***************************************************************************)
Receive ==
  /\ received.count + received.leaked < NumReceived /\ ~free.locked
  /\ LET b == PoppedBlock(Pool) IN
       /\ SetPool(PopFreeSegment(Pool), FALSE)
       /\ content' = [content EXCEPT ![b] = Foreign]
       /\ received' = [received EXCEPT !.queue = Append(@, b), !.count = @ + 1]
  /\ raced' = Shrinking
  /\ UNCHANGED <<queue, failed, sent, sender, client, control, reused>>

LeakBlock ==
  /\ received.count + received.leaked < NumReceived /\ ~free.locked
  /\ SetPool(PopFreeSegment(Pool), FALSE)
  /\ received' = [received EXCEPT !.leaked = @ + 1] /\ raced' = Shrinking
  /\ UNCHANGED <<content, queue, failed, sent, sender, client, control, reused>>

(***************************************************************************)
(* recv_from_segment_manager() gives the block back: push_front() and,     *)
(* still under the lock, the shrinking                                     *)
(***************************************************************************)
GiveBack ==
  /\ received.queue # <<>> /\ ~free.locked
  /\ received' = [received EXCEPT !.queue = Tail(@)]
  /\ free' = [list |-> <<Head(received.queue)>> \o free.list, size |-> free.size + 1, locked |-> TRUE]
  /\ raced' = Shrinking
  /\ UNCHANGED <<heap, content, queue, failed, sent, sender, client, control, reused>>

ShrinkAndUnlock ==
  /\ free.locked
  /\ SetPool(IF free.size > kSegFreeThreshold
             THEN ShrinkFreeSegmentList(Pool, kSegFreeThreshold \div 2) ELSE Pool, FALSE)
  /\ raced' = Shrinking
  /\ UNCHANGED <<content, queue, failed, sent, sender, received, client, control, reused>>

-----------------------------------------------------------------------------
(***************************************************************************)
(* The client: segments arrive or are lost, it sends its queue status, the *)
(* last number up to which it has everything, or asks for a gap: what lies *)
(* between the expected segment, or one that is pending, and another one   *)
(* that is pending.  As the pending list is not sorted, there may be       *)
(* segments in between that the client has.                                *)
(***************************************************************************)
\* getLastSeqNo() is last: the next segment is the first that is missing.
IsLastSeqNo(last) == last + 1 \notin client.got /\ \A n \in 0..last : n \in client.got

ClientReceive ==
  /\ \E n \in client.link : client' = [client EXCEPT !.link = @ \ {n}, !.got = @ \cup {n}]
  /\ UNCHANGED <<heap, content, free, queue, failed, sent, sender, received, control, reused, raced>>

Lose ==
  /\ \E n \in client.link : client' = [client EXCEPT !.link = @ \ {n}]
  /\ UNCHANGED <<heap, content, free, queue, failed, sent, sender, received, control, reused, raced>>

ClientRequest ==
  /\ client.requests < NumRequests
  /\ \E msg \in Messages :
       /\ \/ msg.type = "status" /\ msg.first = 0 /\ IsLastSeqNo(msg.last)
          \/ /\ msg.type = "retransmit" /\ msg.first <= msg.last /\ msg.last + 1 \in client.got
             /\ \E next \in 0..msg.first : /\ IsLastSeqNo(next - 1)
                                          /\ (msg.first = next \/ msg.first - 1 \in client.got)
       /\ client' = [client EXCEPT !.inbox = Append(@, msg), !.requests = @ + 1]
  /\ UNCHANGED <<heap, content, free, queue, failed, sent, sender, received, control, reused, raced>>

-----------------------------------------------------------------------------
(***************************************************************************)
(* The control message receiver                                            *)
(***************************************************************************)
\* on_receive_queue_status_message() and on_receive_retransmit_request_message()
HandleMessage ==
  /\ control.pc = "idle" /\ client.inbox # <<>>
  /\ LET msg == Head(client.inbox) IN
       control' = [pc |-> IF msg.type = "status" THEN "deallocate" ELSE "retransmit", msg |-> msg, at |-> 1]
  /\ client' = [client EXCEPT !.inbox = Tail(@)]
  /\ UNCHANGED <<heap, content, free, queue, failed, sent, sender, received, reused, raced>>

\* The end of a walk over the sent list.
AtEnd == control.at > Len(sent)
Advance == control' = [control EXCEPT !.at = @ + 1]
Leave(pc) == control' = [pc |-> pc, msg |-> NoMessage, at |-> 1]

\* Mutant: one segment more than acknowledged is released.
MutantDeallocateSentSegmentsByPeer ==
  /\ control.pc = "deallocate" /\ ~AtEnd
  /\ LET block == sent[control.at] IN
       IF content[block] <= control.msg.last + 1
       THEN /\ ~free.locked
            /\ SetPool(AddFreeSegment(Pool, block), FALSE)
            /\ sent' = RemoveAt(sent, control.at)
            /\ reused' = (reused \/ block \in InUse)
            /\ UNCHANGED control
       ELSE Advance /\ UNCHANGED <<heap, free, sent, reused>>
  /\ UNCHANGED <<content, queue, failed, sender, received, client, raced>>

(***************************************************************************)
(* deallocate_sent_segments_by_peer(): one segment of the sent list.       *)
(***************************************************************************)
DeallocateSentSegmentsByPeer ==
  /\ control.pc = "deallocate" /\ ~AtEnd
  /\ LET block == sent[control.at] IN
       IF content[block] <= control.msg.last
       THEN /\ ~free.locked
            /\ SetPool(AddFreeSegment(Pool, block), FALSE)
            /\ sent' = RemoveAt(sent, control.at)
            /\ reused' = (reused \/ block \in InUse)
            /\ UNCHANGED control
       ELSE Advance /\ UNCHANGED <<heap, free, sent, reused>>
  /\ UNCHANGED <<content, queue, failed, sender, received, client, raced>>

\* After the last one the lock of the sent list is released.
Deallocated ==
  /\ control.pc = "deallocate" /\ AtEnd
  /\ Leave("check")
  /\ UNCHANGED <<heap, content, free, queue, failed, sent, sender, received, client, reused, raced>>

\* It looks at the size once more, without the lock of the free list.
CheckSize ==
  /\ control.pc = "check"
  /\ Leave(IF free.size > kSegFreeThreshold THEN "shrink" ELSE "idle")
  /\ UNCHANGED <<heap, content, free, queue, failed, sent, sender, received, client, reused, raced>>

(***************************************************************************)
(* The shrinking without the lock: the condition of the loop, and its body *)
(* that frees one block.  Another use of the list in between, or a lock    *)
(* that is held when the body runs, is a data race.                        *)
(***************************************************************************)
ShrinkLoop ==
  /\ control.pc = "shrink"
  /\ Leave(IF free.size > kSegFreeThreshold \div 2 THEN "shrinking" ELSE "idle")
  /\ UNCHANGED <<heap, content, free, queue, failed, sent, sender, received, client, reused, raced>>

ShrinkUnlocked ==
  /\ Shrinking /\ free.size > kSegFreeThreshold \div 2 /\ Leave("shrink")
  /\ raced' = free.locked
  /\ SetPool(ShrinkFreeSegmentList(Pool, free.size - 1), free.locked)
  /\ UNCHANGED <<content, queue, failed, sent, sender, received, client, reused>>

\* Mutant: only the first of the requested segments is sent again.
MutantRetransmitMissingSegmentsByPeer ==
  /\ control.pc = "retransmit" /\ ~AtEnd
  /\ LET block == sent[control.at] IN
       failed' = IF content[block] = control.msg.first THEN Append(failed, block) ELSE failed
  /\ Advance
  /\ UNCHANGED <<heap, content, free, queue, sent, sender, received, client, reused, raced>>

\* retransmit_missing_segments_by_peer(): one segment of the sent list.
RetransmitMissingSegmentsByPeer ==
  /\ control.pc = "retransmit" /\ ~AtEnd
  /\ LET block == sent[control.at] IN
       failed' = IF content[block] \in control.msg.first..control.msg.last
                 THEN Append(failed, block) ELSE failed
  /\ Advance
  /\ UNCHANGED <<heap, content, free, queue, sent, sender, received, client, reused, raced>>

\* After the last one; the segments it has not found are logged.
Retransmitted ==
  /\ control.pc = "retransmit" /\ AtEnd
  /\ Leave("idle")
  /\ UNCHANGED <<heap, content, free, queue, failed, sent, sender, received, client, reused, raced>>

Next ==
  /\ ~raced
  /\ \/ Write \/ Receive \/ LeakBlock \/ GiveBack \/ ShrinkAndUnlock \/ ClientReceive \/ Lose \/ ClientRequest
     \/ HandleMessage \/ DeallocateSentSegmentsByPeer \/ Deallocated \/ CheckSize
     \/ ShrinkLoop \/ ShrinkUnlocked
     \/ RetransmitMissingSegmentsByPeer \/ Retransmitted
     \/ \E s \in Senders : Take(s) \/ Send(s) \/ SendFail(s) \/ AddSent(s)

Spec == Init /\ [][Next]_vars

-----------------------------------------------------------------------------
Contents(blocks) == {content[b] : b \in blocks \ {Nothing}}

(***************************************************************************)
(* "This function releases the segment which is not further used."         *)
(* (SegmentManager.cpp:379): a block in the free list is in no other list  *)
(* and with no sender.  The code violates it: a segment that waits in the  *)
(* failed list for its retransmission is released when the client, which   *)
(* has received it in the meantime, acknowledges it.                       *)
(***************************************************************************)
ReleasedIsUnused == ToSet(free.list) \cap InUse = {}

(***************************************************************************)
(* A segment the client does not have is in a block that will be sent, or  *)
(* in the sent list where a retransmission finds it, even if it is on its  *)
(* way: neither the release of acknowledged segments nor the reuse of      *)
(* blocks by the receivers loses one, whatever the order of sending,       *)
(* losing and acknowledging.  (Unless a block was released in use.)        *)
(***************************************************************************)
NothingLost == ~reused =>
  \A n \in 0..client.written - 1 : n \in client.got \cup Contents(InUse \cup ToSet(sent))

(***************************************************************************)
(* The lists are sound.  The sent list is strictly ascending, so that a    *)
(* segment is in it once and released once, though two senders append to   *)
(* it in any order and a retransmitted segment is added again.  The free   *)
(* list has its counted length, no block twice, only allocated blocks, and *)
(* never more than kSegFreeThreshold of them outside the lock.  And types. *)
(***************************************************************************)
ListsSound ==
  /\ TypeOK
  /\ ~reused => \A i, j \in 1..Len(sent) : i < j => content[sent[i]] < content[sent[j]]
  /\ ~reused /\ ~raced =>
       /\ free.size = Len(free.list) /\ IsInjective(free.list) /\ ToSet(free.list) \subseteq heap
       /\ ~free.locked => free.size <= kSegFreeThreshold

(***************************************************************************)
(* A client that asks for a gap will get it: when the walk over the sent   *)
(* list ends, every segment asked for is in the failed list or with a      *)
(* sender, unless the client has received it, whatever the senders took,   *)
(* sent and could not send meanwhile                                       *)
(* (retransmit_missing_segments_by_peer()).                                *)
(***************************************************************************)
RetransmittedIsSent ==
  [][ control.pc = "retransmit" /\ control'.pc = "idle" /\ ~reused
      => \A n \in control.msg.first..control.msg.last : n \in client.got \cup Contents(InUse) ]_vars
=============================================================================
