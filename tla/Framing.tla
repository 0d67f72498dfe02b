------------------------------- MODULE Framing --------------------------------
(***************************************************************************)
(* From a message to the byte stream and back: Core::send() puts a header  *)
(* before the message, cuts it into segments and queues them; the sender   *)
(* thread writes each segment to the socket of its adapter and the         *)
(* receiver thread of the peer reads it there, both in as many pieces as   *)
(* the system calls take; Core::receive() puts the message together again. *)
(*                                                                         *)
(* sender says which program sends: the Linux server or the Android        *)
(* client.  They differ in how they share the serialized packet and the    *)
(* sequence numbers between the calling threads and in the offset of the   *)
(* reassembly; only system calls of the server are interrupted by signals  *)
(* (SIGCHLD, handled without SA_RESTART).  The queues are reduced to what  *)
(* modules SegmentQueue and ClientQueue show of them: segments leave in    *)
(* the order of their numbers, and a second one with the same number is    *)
(* dropped.                                                                *)
(*                                                                         *)
(* A packet is a sequence of units [of, at]: the unit at position at of    *)
(* the packet that of is sending.                                          *)
(***************************************************************************)
EXTENDS Integers, Sequences, SequencesExt

CONSTANTS
  Callers,        \* threads that call send(), once each
  Kind,           \* [Callers -> Kinds]: the kind of the message
  Length,         \* [Callers -> Nat]: its length
  SegSize,        \* kSegSize: payload of a segment
  ProtHeaderSize, \* kProtHeaderSize
  OffsetModulus,  \* 2^16: offset is a uint16_t in recv_from_segment_manager()
  Parts,          \* pieces in which a segment goes through the socket
  SocketSize,     \* bound: pieces the socket holds before send() blocks
  MaxInterrupts   \* bound: interrupted system calls

Kinds == {"control", "data"}

ASSUME FramingAssumption ==
  /\ Kind \in [Callers -> Kinds]
  /\ Length \in [Callers -> Nat \ {0}]
  /\ {SegSize, ProtHeaderSize, OffsetModulus, Parts, SocketSize}
       \subseteq Nat \ {0}
  /\ ProtHeaderSize < SegSize
  /\ MaxInterrupts \in Nat

VARIABLES
  sender,      \* "linux" or "android"
  pc,          \* where each caller is
  static,      \* sSerializedVector of the Android ProtocolManager
  vector,      \* the packet each caller passes to send_to_segment_manager()
  seqNo,       \* allocated_seq_no
  offset,      \* offset in send_to_segment_manager()
  nextSeqNo,   \* mNextSeqNo of each kind
  sendQueue,   \* segments in the send queues, in the order of their numbers
  sent,        \* segments taken from each send queue
  failed,      \* the failed list
  sending,     \* what the sender thread is doing: a segment, and parts of it
  stream,      \* parts in the socket
  buffer,      \* parts the receiver thread has read
  garbled,     \* a buffer was not one segment
  recvQueue,   \* segments in the receive queues
  taken,       \* segments taken from each receive queue
  partial,     \* the message each receive() is putting together
  received,    \* what receive() returned, for each kind
  overflow,    \* a segment was copied outside its message
  interrupts,  \* number of interrupted calls so far
  overlapped   \* calls of send() by the client overlapped

sendVars == <<pc, static, vector, seqNo, offset, nextSeqNo, overlapped>>
socketVars == <<sent, failed, sending, stream, buffer, garbled, interrupts>>
receiveVars == <<taken, partial, received, overflow>>
vars == <<sender, sendVars, sendQueue, socketVars, recvQueue, receiveVars>>

Idle == [segment |-> <<>>, parts |-> 0]
NoMessage == [cont |-> FALSE, out |-> <<>>, offset |-> 0]

PacketSize(c) == ProtHeaderSize + Length[c]
Packet(c) == [i \in 1..PacketSize(c) |-> [of |-> c, at |-> i]]
Payload(c) == SubSeq(Packet(c), ProtHeaderSize + 1, PacketSize(c))
NumSegments(c) == (PacketSize(c) + SegSize - 1) \div SegSize

Init ==
  /\ sender \in {"linux", "android"}
  /\ pc = [c \in Callers |-> "send"]
  /\ static = <<>>
  /\ vector = [c \in Callers |-> <<>>]
  /\ seqNo = [c \in Callers |-> 0]
  /\ offset = [c \in Callers |-> 0]
  /\ nextSeqNo = [k \in Kinds |-> 0]
  /\ sendQueue = [k \in Kinds |-> {}]
  /\ sent = [k \in Kinds |-> 0]
  /\ failed = <<>>
  /\ sending = Idle
  /\ stream = <<>>
  /\ buffer = <<>>
  /\ garbled = FALSE
  /\ recvQueue = [k \in Kinds |-> {}]
  /\ taken = [k \in Kinds |-> 0]
  /\ partial = [k \in Kinds |-> NoMessage]
  /\ received = [k \in Kinds |-> <<>>]
  /\ overflow = FALSE
  /\ interrupts = 0
  /\ overlapped = FALSE

Go(c, label) == pc' = [pc EXCEPT ![c] = label]
-------------------------------------------------------------------------------
(* Core::send(), ProtocolManager and send_to_segment_manager() *)

\* serialize() of the server: the packet is a vector of the call's own
Serialize(c) ==
  /\ sender = "linux" /\ pc[c] = "send"
  /\ vector' = [vector EXCEPT ![c] = Packet(c)]
  /\ Go(c, "reserve")
  /\ UNCHANGED <<sender, static, seqNo, offset, nextSeqNo, overlapped,
                 sendQueue, socketVars, recvQueue, receiveVars>>

\* serialize() of the client: the packet is a static variable ...
SerializeStatic(c) ==
  /\ sender = "android" /\ pc[c] = "send"
  /\ static' = Packet(c)
  /\ Go(c, "packet")
  /\ overlapped' = (overlapped \/ \E d \in Callers \ {c} :
                                    pc[d] \notin {"send", "sent", "threw"})
  /\ UNCHANGED <<sender, vector, seqNo, offset, nextSeqNo, sendQueue,
                 socketVars, recvQueue, receiveVars>>

\* ... that send_packet() reads
SendPacket(c) ==
  /\ pc[c] = "packet"
  /\ vector' = [vector EXCEPT ![c] = static]
  /\ Go(c, "reserve")
  /\ UNCHANGED <<sender, static, seqNo, offset, nextSeqNo, overlapped,
                 sendQueue, socketVars, recvQueue, receiveVars>>

\* get_next_seq_no() reserves the numbers of all segments under a lock
Reserve(c) ==
  /\ sender = "linux" /\ pc[c] = "reserve"
  /\ seqNo' = [seqNo EXCEPT ![c] = nextSeqNo[Kind[c]]]
  /\ nextSeqNo' = [nextSeqNo EXCEPT ![Kind[c]] = @ + NumSegments(c)]
  /\ Go(c, "enqueue")
  /\ UNCHANGED <<sender, static, vector, offset, overlapped, sendQueue,
                 socketVars, recvQueue, receiveVars>>

\* getNextSeqNo() of the client has no lock: it reads the number, ...
ReserveRead(c) ==
  /\ sender = "android" /\ pc[c] = "reserve"
  /\ seqNo' = [seqNo EXCEPT ![c] = nextSeqNo[Kind[c]]]
  /\ Go(c, "write")
  /\ UNCHANGED <<sender, static, vector, offset, nextSeqNo, overlapped,
                 sendQueue, socketVars, recvQueue, receiveVars>>

\* ... and then reads it again, to add the length: calls may have come between
ReserveWrite(c) ==
  /\ pc[c] = "write"
  /\ nextSeqNo' = [nextSeqNo EXCEPT ![Kind[c]] = @ + NumSegments(c)]
  /\ Go(c, "enqueue")
  /\ UNCHANGED <<sender, static, vector, seqNo, offset, overlapped, sendQueue,
                 socketVars, recvQueue, receiveVars>>

\* Mutant: a segment that comes after a later one is dropped
MutantEnqueue(queue, segment) ==
  IF \E s \in queue : s.seqNo >= segment.seqNo THEN queue
  ELSE queue \cup {segment}

\* SegmentQueue::enqueue() and the client's queue, as seen from outside
Enqueue(queue, segment) ==
  IF \E s \in queue : s.seqNo = segment.seqNo THEN queue
  ELSE queue \cup {segment}

\* Length of the segment that caller c cuts off next
SegLen(c) == IF PacketSize(c) - offset[c] < SegSize
             THEN PacketSize(c) - offset[c] ELSE SegSize

\* A turn of the loop of send_to_segment_manager(): cut off and enqueue a
\* segment.  All but the last have the MF flag.  The vector of the client may
\* be that of another call, and end too early: arraycopy() throws.
EnqueueSegment(c) ==
  LET end == offset[c] + SegLen(c)
  IN /\ pc[c] = "enqueue"
     /\ IF end > Len(vector[c])
          THEN Go(c, "threw") /\ UNCHANGED <<sendQueue, seqNo, offset>>
          ELSE /\ sendQueue' = [sendQueue EXCEPT ![Kind[c]] = Enqueue(@,
                    [seqNo |-> seqNo[c], kind |-> Kind[c], mf |-> end < PacketSize(c),
                     data |-> SubSeq(vector[c], offset[c] + 1, end)])]
               /\ seqNo' = [seqNo EXCEPT ![c] = @ + 1]
               /\ offset' = [offset EXCEPT ![c] = end]
               /\ Go(c, IF end < PacketSize(c) THEN "enqueue" ELSE "sent")
     /\ UNCHANGED <<sender, static, vector, nextSeqNo, overlapped, socketVars,
                    recvQueue, receiveVars>>
-------------------------------------------------------------------------------
(* The sender thread and the socket *)

\* The segment with the next number of kind k is in the queue
Ready(queue, n, k) == \E s \in queue[k] : s.seqNo = n[k]

\* The sender thread takes a failed segment, a control or a data segment
TakeSegment ==
  /\ sending = Idle
  /\ IF failed # <<>>
       THEN /\ sending' = [segment |-> Head(failed), parts |-> 0]
            /\ failed' = Tail(failed)
            /\ UNCHANGED sent
       ELSE LET k == IF Ready(sendQueue, sent, "control") THEN "control" ELSE "data"
            IN /\ Ready(sendQueue, sent, k)
               /\ \E s \in sendQueue[k] :
                    /\ s.seqNo = sent[k]
                    /\ sending' = [segment |-> s, parts |-> 0]
               /\ sent' = [sent EXCEPT ![k] = @ + 1]
               /\ UNCHANGED failed
  /\ UNCHANGED <<sender, sendVars, sendQueue, stream, buffer, garbled,
                 interrupts, recvQueue, receiveVars>>

\* A turn of the loop of send_impl(): the system call takes a piece
SendPart ==
  /\ sending # Idle
  /\ Len(stream) < SocketSize
  /\ stream' = Append(stream, [segment |-> sending.segment,
                               part |-> sending.parts + 1])
  /\ sending' = IF sending.parts + 1 = Parts THEN Idle
                ELSE [sending EXCEPT !.parts = @ + 1]
  /\ UNCHANGED <<sender, sendVars, sendQueue, sent, failed, buffer, garbled,
                 interrupts, recvQueue, receiveVars>>

\* ... or is interrupted: send_impl() returns -1, whatever was sent before, and
\* the sender thread puts the whole segment into the failed list and goes on
SendInterrupted ==
  /\ sender = "linux" /\ interrupts < MaxInterrupts
  /\ sending # Idle
  /\ failed' = Append(failed, sending.segment)
  /\ sending' = Idle
  /\ interrupts' = interrupts + 1
  /\ UNCHANGED <<sender, sendVars, sendQueue, sent, stream, buffer, garbled,
                 recvQueue, receiveVars>>

\* A turn of the loop of receive_impl().  The wait for data that precedes the
\* loop may time out, before anything is read.
ReadPart ==
  /\ stream # <<>>
  /\ ~garbled /\ Len(buffer) < Parts
  /\ buffer' = Append(buffer, Head(stream))
  /\ stream' = Tail(stream)
  /\ UNCHANGED <<sender, sendVars, sendQueue, sent, failed, sending, garbled,
                 interrupts, recvQueue, receiveVars>>

\* recv() is interrupted: receive_impl() returns -1, and the receiver thread
\* starts again with an empty buffer
ReadInterrupted ==
  /\ sender = "android" /\ interrupts < MaxInterrupts
  /\ ~garbled /\ Len(buffer) < Parts
  /\ buffer' = <<>>
  /\ interrupts' = interrupts + 1
  /\ UNCHANGED <<sender, sendVars, sendQueue, sent, failed, sending, stream,
                 garbled, recvQueue, receiveVars>>

\* The buffer is full: the receiver thread reads the header and enqueues the
\* segment.  A buffer that is not one segment has no header to speak of, and
\* what the program does with it is left open.
EnqueueReceived ==
  /\ ~garbled /\ Len(buffer) = Parts
  /\ LET segment == buffer[1].segment
     IN IF \A i \in 1..Parts : buffer[i] = [segment |-> segment, part |-> i]
        THEN /\ recvQueue' = [recvQueue EXCEPT
                  ![segment.kind] = Enqueue(@, segment)]
             /\ buffer' = <<>>
             /\ UNCHANGED garbled
        ELSE garbled' = TRUE /\ UNCHANGED <<recvQueue, buffer>>
  /\ UNCHANGED <<sender, sendVars, sendQueue, sent, failed, sending, stream,
                 interrupts, receiveVars>>
-------------------------------------------------------------------------------
(* recv_from_segment_manager() *)

\* memcpy(): the units of data in out, from position at (counted from 0)
Copy(out, at, data) ==
  [i \in 1..Len(out) |-> IF i - at \in 1..Len(data) THEN data[i - at] ELSE out[i]]

\* Mutant: the header of the message counts
MutantAdvance(at, n) == IF at = 0 THEN n + ProtHeaderSize ELSE at + n

\* The offset of the server's loop is a uint16_t
Advance(at, n) ==
  IF sender = "android" THEN (at + n) % OffsetModulus ELSE at + n

\* The segment whose header is parsed says whose packet it starts
HeaderLength(segment) == Length[segment.data[1].of]

\* A segment is copied to the message; the first one starts with the header,
\* which tells the length of the message.  The message ends with the segment
\* that has no MF flag.
Reassemble(k) ==
  /\ Ready(recvQueue, taken, k)
  /\ \E s \in recvQueue[k] :
       /\ s.seqNo = taken[k]
       /\ LET start == IF partial[k].cont THEN partial[k]
                ELSE [cont |-> TRUE, offset |-> 0,
                      out |-> [i \in 1..HeaderLength(s) |-> [of |-> s.data[1].of,
                                                             at |-> 0]]]
              data == IF partial[k].cont THEN s.data
                      ELSE SubSeq(s.data, ProtHeaderSize + 1, Len(s.data))
              out == Copy(start.out, start.offset, data)
          IN /\ overflow' = (overflow \/ start.offset + Len(data) > Len(out))
             /\ IF s.mf
                  THEN /\ partial' = [partial EXCEPT ![k] =
                            [cont |-> TRUE, out |-> out,
                             offset |-> Advance(start.offset, Len(data))]]
                       /\ UNCHANGED received
                  ELSE /\ received' = [received EXCEPT ![k] = Append(@, out)]
                       /\ partial' = [partial EXCEPT ![k] = NoMessage]
  /\ taken' = [taken EXCEPT ![k] = @ + 1]
  /\ UNCHANGED <<sender, sendVars, sendQueue, socketVars, recvQueue>>
-------------------------------------------------------------------------------
CallerStep(c) ==
  \/ Serialize(c) \/ SerializeStatic(c) \/ SendPacket(c)
  \/ Reserve(c) \/ ReserveRead(c) \/ ReserveWrite(c)
  \/ EnqueueSegment(c)

SocketStep ==
  \/ TakeSegment \/ SendPart
  \/ ReadPart \/ EnqueueReceived

Progress ==
  \/ \E c \in Callers : CallerStep(c)
  \/ SocketStep
  \/ \E k \in Kinds : Reassemble(k)

Next == Progress \/ SendInterrupted \/ ReadInterrupted

Spec == Init /\ [][Next]_vars

\* Some thread goes on as long as one can
FairSpec == Spec /\ WF_vars(Progress)
-------------------------------------------------------------------------------
(* Properties *)

IsSegment(s) ==
  /\ s.seqNo \in Nat /\ s.kind \in Kinds /\ s.mf \in BOOLEAN
  /\ Len(s.data) \in 1..SegSize
  /\ \A i \in 1..Len(s.data) : s.data[i].at \in 1..PacketSize(s.data[i].of)

\* Types; a caller never takes more units than its packet has, and a message
\* under reassembly has room for what was announced
TypeOK ==
  /\ sender \in {"linux", "android"}
  /\ pc \in [Callers -> {"send", "packet", "reserve", "write", "enqueue",
                         "sent", "threw"}]
  /\ \A c \in Callers : offset[c] \in 0..PacketSize(c)
  /\ seqNo \in [Callers -> Nat] /\ nextSeqNo \in [Kinds -> Nat]
  /\ \A k \in Kinds : /\ \A s \in sendQueue[k] \cup recvQueue[k] : IsSegment(s)
                      /\ sent[k] \in 0..nextSeqNo[k] \/ overlapped
                      /\ taken[k] \in 0..sent[k]
  /\ sending = Idle \/ (IsSegment(sending.segment) /\ sending.parts \in 0..Parts - 1)
  /\ Len(buffer) \in 0..Parts
  /\ \A k \in Kinds : partial[k].cont \in BOOLEAN /\ partial[k].offset \in Nat
  /\ garbled \in BOOLEAN /\ overflow \in BOOLEAN /\ overlapped \in BOOLEAN
  /\ interrupts \in 0..MaxInterrupts

\* Nothing disturbed the transfer: no system call was interrupted, and the
\* client sent one message at a time
Undisturbed == interrupts = 0 /\ ~overlapped

\* The server can reassemble messages of at most OffsetModulus units
Fits(c) == sender = "android" => Length[c] <= OffsetModulus

\* If the client sends one message at a time and no message is longer than an
\* offset can be, then every message that receive() returns is one that was
\* sent, whole and unmixed with others, and is returned once, and nothing is
\* written outside it, as long as every buffer was one segment.  That is so
\* until a system call is interrupted, whatever the pieces in which segments go
\* through the sockets.  And types
MessageIntact ==
  /\ TypeOK
  /\ interrupts = 0 => ~garbled
  /\ ~overlapped /\ ~garbled /\ (\A c \in Callers : Fits(c)) =>
       /\ ~overflow
       /\ \A k \in Kinds :
            /\ \A m \in ToSet(received[k]) :
                 \E c \in Callers : Kind[c] = k /\ m = Payload(c)
            /\ IsInjective(received[k])

\* Every message that was sent is received
EverythingArrives ==
  <>(\/ ~Undisturbed
     \/ \A c \in Callers : ~Fits(c) \/ Payload(c) \in ToSet(received[Kind[c]]))
===============================================================================
