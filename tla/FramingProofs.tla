---------------------------- MODULE FramingProofs ----------------------------
(***************************************************************************)
(* Proofs about Framing, for any callers, lengths, sizes and interrupts:   *)
(* a message that receive() returns is one that was sent, whole.           *)
(***************************************************************************)
EXTENDS Framing, SequenceTheorems, TLAPS

\* For the least element of a set of natural numbers.
Order == INSTANCE SegmentQueueProofs

(***************************************************************************)
(* The packet of caller c is cut into the units after End(c, j) up to      *)
(* End(c, j + 1), for each j below NumSegments(c).                         *)
(***************************************************************************)
End(c, j) == IF j = NumSegments(c) THEN PacketSize(c) ELSE SegSize * j

\* How much of its packet a caller has cut off, and its first number.
CutOff(c, n) == CHOOSE j \in 0..NumSegments(c) : n = End(c, j)
Cuts(c) == CutOff(c, offset[c])
Base(c) == seqNo[c] - Cuts(c)
After(c) == Base(c) + NumSegments(c)

\* The calls that have reserved their numbers; the ones under way.
Reserved(c, k) == pc[c] \in {"enqueue", "sent"} /\ Kind[c] = k
Active(c) == pc[c] \in {"packet", "reserve", "write", "enqueue"}

\* Segment j of the packet of caller c.
Segment(c, j) ==
  [seqNo |-> Base(c) + j, kind |-> Kind[c], mf |-> j + 1 < NumSegments(c),
   data |-> SubSeq(Packet(c), End(c, j) + 1, End(c, j + 1))]

\* The message of caller c of which n units have been copied.
Partly(c, n) ==
  [i \in 1..Length[c] |-> [of |-> c, at |-> IF i <= n THEN ProtHeaderSize + i ELSE 0]]

-----------------------------------------------------------------------------
Places == [of : Callers, at : Nat]
Units == {u \in Places : u.at \in 1..PacketSize(u.of)}
Segments == {s \in [seqNo : Nat, kind : Kinds, mf : BOOLEAN, data : Seq(Units)] :
               Len(s.data) \in 1..SegSize}
Pieces == [segment : Segments, part : 1..Parts]
Vectors == {<<>>} \cup {Packet(c) : c \in Callers}

\* Types of what the callers have.
CallersTyped ==
  /\ sender \in {"linux", "android"}
  /\ pc \in [Callers -> {"send", "packet", "reserve", "write", "enqueue", "sent", "threw"}]
  /\ static \in Vectors /\ vector \in [Callers -> Vectors]
  /\ seqNo \in [Callers -> Nat] /\ nextSeqNo \in [Kinds -> Nat]
  /\ offset \in [Callers -> Nat] /\ overlapped \in BOOLEAN
  /\ \A c \in Callers :
       /\ offset[c] <= PacketSize(c)
       /\ pc[c] = "enqueue" => offset[c] < PacketSize(c)
       /\ pc[c] \in {"send", "packet", "reserve", "write"} => offset[c] = 0

\* Types of the queues and of the socket.
SocketTyped ==
  /\ sendQueue \in [Kinds -> SUBSET Segments] /\ recvQueue \in [Kinds -> SUBSET Segments]
  /\ \A k \in Kinds : \A s \in sendQueue[k] \cup recvQueue[k] : s.kind = k
  /\ sent \in [Kinds -> Nat]
  /\ failed \in Seq(Segments)
  /\ sending = Idle \/ sending \in [segment : Segments, parts : 0..Parts - 1]
  /\ stream \in Seq(Pieces)
  /\ buffer \in Seq(Pieces) /\ Len(buffer) <= Parts
  /\ garbled \in BOOLEAN /\ interrupts \in 0..MaxInterrupts

\* Types of the reassembly.
ReceiveTyped ==
  /\ taken \in [Kinds -> Nat]
  /\ partial \in [Kinds -> [cont : BOOLEAN, out : Seq(Places), offset : Nat]]
  /\ received \in [Kinds -> Seq(Seq(Places))]
  /\ overflow \in BOOLEAN

(***************************************************************************)
(* The segments that have left the send queues.  They were in there, with  *)
(* a number that has been taken.                                           *)
(***************************************************************************)
Carried ==
  {failed[i] : i \in 1..Len(failed)}
  \cup {s \in Segments : sending # Idle /\ s = sending.segment}
  \cup {stream[i].segment : i \in 1..Len(stream)}
  \cup {buffer[i].segment : i \in 1..Len(buffer)}
  \cup UNION {recvQueue[k] : k \in Kinds}

Passed(s) == s \in sendQueue[s.kind] /\ s.seqNo < sent[s.kind]

CarriedSound ==
  /\ \A s \in Carried : Passed(s)
  /\ \A k \in Kinds : taken[k] <= sent[k]

(***************************************************************************)
(* Unless calls of the client overlap, every caller sends its own packet,  *)
(* the reserved numbers follow each other without a gap, and the segments  *)
(* in the send queue are those that were cut off.                          *)
(***************************************************************************)
PacketsSound ==
  /\ sender = "android" => \A c, d \in Callers : Active(c) /\ Active(d) => c = d
  /\ \A c \in Callers :
       /\ pc[c] # "threw"
       /\ pc[c] = "packet" => static = Packet(c)
       /\ pc[c] \in {"reserve", "write", "enqueue"} => vector[c] = Packet(c)
       /\ pc[c] \in {"packet", "write"} => sender = "android"
       /\ pc[c] = "write" => seqNo[c] = nextSeqNo[Kind[c]]

CutsSound ==
  \A c \in Callers : Reserved(c, Kind[c]) =>
    /\ Cuts(c) \in 0..NumSegments(c) /\ offset[c] = End(c, Cuts(c))
    /\ pc[c] = "enqueue" <=> Cuts(c) < NumSegments(c)
    /\ Base(c) \in Nat /\ After(c) <= nextSeqNo[Kind[c]]

\* A number at which a packet begins or will begin.
Begins(n, k) == n = nextSeqNo[k] \/ \E c \in Callers : Reserved(c, k) /\ Base(c) = n

NumbersSound ==
  \A k \in Kinds : \A c \in Callers : Reserved(c, k) =>
    /\ Begins(After(c), k)
    /\ \A d \in Callers : Reserved(d, k) /\ c # d => After(c) <= Base(d) \/ After(d) <= Base(c)

QueueSound ==
  \A k \in Kinds :
    /\ sent[k] <= nextSeqNo[k]
    /\ \A s \in sendQueue[k] :
         \E c \in Callers : Reserved(c, k) /\ \E j \in 0..Cuts(c) - 1 : s = Segment(c, j)

SendSound == PacketsSound /\ CutsSound /\ NumbersSound /\ QueueSound

(***************************************************************************)
(* Unless a call was interrupted, the pieces that are read and still in    *)
(* the socket are those of whole segments, one after the other; the last   *)
(* one may still be under way.                                             *)
(***************************************************************************)
Pipe == buffer \o stream

Follows(piece, next) ==
  IF next.part = 1 THEN piece.part = Parts
  ELSE piece = [segment |-> next.segment, part |-> next.part - 1]

PipeSound ==
  /\ ~garbled
  /\ Len(Pipe) > 0 => Pipe[1].part = 1
  /\ \A i \in 1..Len(Pipe) - 1 : Follows(Pipe[i], Pipe[i + 1])
  /\ IF sending.parts = 0
     THEN Len(Pipe) > 0 => Pipe[Len(Pipe)].part = Parts
     ELSE Len(Pipe) > 0 /\ Pipe[Len(Pipe)] = [segment |-> sending.segment, part |-> sending.parts]

(***************************************************************************)
(* A message under reassembly is that of the caller to whom the next       *)
(* number belongs, as far as its segments were taken; and what was         *)
(* returned are messages whose segments were all taken.                    *)
(***************************************************************************)
Assembling(k, c, j) ==
  /\ Reserved(c, k) /\ j \in 1..NumSegments(c) - 1 /\ taken[k] = Base(c) + j
  /\ partial[k] = [cont |-> TRUE, out |-> Partly(c, End(c, j) - ProtHeaderSize),
                   offset |-> End(c, j) - ProtHeaderSize]

Returned(m, k) ==
  \E c \in Callers : Reserved(c, k) /\ m = Payload(c) /\ After(c) <= taken[k]

ReassemblySound ==
  /\ ~overflow
  /\ \A k \in Kinds :
       /\ \/ partial[k] = NoMessage /\ Begins(taken[k], k)
          \/ \E c \in Callers : \E j \in 1..NumSegments(c) - 1 : Assembling(k, c, j)
       /\ \A i \in 1..Len(received[k]) : Returned(received[k][i], k)
       /\ IsInjective(received[k])

FInv ==
  /\ CallersTyped /\ SocketTyped /\ ReceiveTyped /\ CarriedSound
  /\ ~overlapped => SendSound
  /\ interrupts = 0 => PipeSound
  /\ ~overlapped /\ (\A c \in Callers : Fits(c)) => ReassemblySound

-----------------------------------------------------------------------------
(***************************************************************************)
(* Lengths                                                                 *)
(***************************************************************************)
LEMMA Constants ==
  /\ Kind \in [Callers -> Kinds] /\ SegSize \in Nat \ {0} /\ ProtHeaderSize \in Nat \ {0}
  /\ OffsetModulus \in Nat \ {0} /\ Parts \in Nat \ {0} /\ ProtHeaderSize < SegSize
  /\ MaxInterrupts \in Nat
  /\ \A c \in Callers : Length[c] \in Nat \ {0} /\ Kind[c] \in Kinds
BY FramingAssumption DEF FramingAssumption

LEMMA Sizes ==
  ASSUME NEW c \in Callers
  PROVE  /\ PacketSize(c) \in Nat /\ PacketSize(c) = ProtHeaderSize + Length[c]
         /\ PacketSize(c) > ProtHeaderSize /\ Length[c] \in Nat \ {0}
BY Constants DEF PacketSize

\* The quotient that a division rounds up to.
LEMMA RoundedUp ==
  ASSUME NEW x \in Nat \ {0}, NEW s \in Nat \ {0}
  PROVE  LET n == (x + s - 1) \div s IN
         n \in Nat \ {0} /\ s * (n - 1) < x /\ x <= s * n
<1>. DEFINE y == x + s - 1
            n == y \div s
<1>1. y \in Nat /\ y >= s
  OBVIOUS
<1>. HIDE DEF y
<1>2. n \in Nat /\ s * n <= y /\ y < s * n + s
  BY <1>1
<1>. HIDE DEF n
<1>3. n # 0
  BY <1>1, <1>2
<1>4. s * (n - 1) = s * n - s
  BY <1>2
<1>. QED
  BY <1>1, <1>2, <1>3, <1>4 DEF n, y

LEMMA Products ==
  ASSUME NEW s \in Nat \ {0}, NEW i \in Nat, NEW j \in Nat, i < j
  PROVE  /\ s * i \in Nat /\ s * j \in Nat /\ s * (i + 1) = s * i + s /\ s * i + s <= s * j
<1>1. j = i + 1 + (j - i - 1) /\ j - i - 1 \in Nat
  OBVIOUS
<1>. DEFINE d == j - i - 1
<1>2. d \in Nat /\ j = i + 1 + d
  BY <1>1
<1>. HIDE DEF d
<1>3. s * j = s * i + s + s * d /\ s * d \in Nat /\ s * i \in Nat
  BY <1>2
<1>. QED
  BY <1>3

\* Where the segments of a packet end.
LEMMA Ends ==
  ASSUME NEW c \in Callers
  PROVE  /\ NumSegments(c) \in Nat \ {0}
         /\ End(c, 0) = 0 /\ End(c, NumSegments(c)) = PacketSize(c)
         /\ \A j \in 0..NumSegments(c) : End(c, j) \in Nat /\ End(c, j) <= PacketSize(c)
         /\ \A i, j \in 0..NumSegments(c) : i < j => End(c, i) < End(c, j)
         /\ \A j \in 0..NumSegments(c) - 1 :
              End(c, j + 1) = IF PacketSize(c) - End(c, j) < SegSize THEN PacketSize(c)
                              ELSE End(c, j) + SegSize
         /\ End(c, 1) > ProtHeaderSize
<1>. DEFINE n == NumSegments(c)
            x == PacketSize(c)
<1>1. x \in Nat \ {0} /\ SegSize \in Nat \ {0} /\ ProtHeaderSize \in Nat /\ ProtHeaderSize < SegSize /\ x > ProtHeaderSize
  BY Constants, Sizes
<1>. HIDE DEF x
<1>2. n \in Nat \ {0} /\ SegSize * (n - 1) < x /\ x <= SegSize * n
  BY <1>1, RoundedUp DEF NumSegments, x
<1>. HIDE DEF n
<1>3. SegSize * 0 = 0
  BY <1>1
<1>4. /\ End(c, n) = x
      /\ \A j \in 0..n - 1 : End(c, j) = SegSize * j
  BY <1>2 DEF End, n, x
<1>5. ASSUME NEW j \in 0..n - 1 PROVE SegSize * j \in Nat /\ SegSize * j < x
  <2>1. CASE j = n - 1
    <3>1. SegSize * j \in Nat
      BY <1>1, <1>2
    <3>. QED
      BY <1>2, <2>1, <3>1
  <2>2. CASE j < n - 1
    <3>1. j \in Nat /\ n - 1 \in Nat
      BY <1>2
    <3>2. SegSize * j \in Nat /\ SegSize * (n - 1) \in Nat /\ SegSize * j + SegSize <= SegSize * (n - 1)
      BY <1>1, <2>2, <3>1, Products
    <3>. QED
      BY <1>1, <1>2, <3>2
  <2>. QED
    BY <1>2, <2>1, <2>2
<1>6. \A j \in 0..n : End(c, j) \in Nat /\ End(c, j) <= x
  <2>1. SUFFICES ASSUME NEW j \in 0..n PROVE End(c, j) \in Nat /\ End(c, j) <= x
    OBVIOUS
  <2>2. CASE j = n
    BY <1>1, <1>4, <2>2
  <2>3. CASE j # n
    <3>1. j \in 0..n - 1
      BY <1>2, <2>3
    <3>. QED
      BY <1>1, <1>4, <1>5, <3>1
  <2>. QED
    BY <2>2, <2>3
<1>7. \A i, j \in 0..n : i < j => End(c, i) < End(c, j)
  <2>1. SUFFICES ASSUME NEW i \in 0..n, NEW j \in 0..n, i < j PROVE End(c, i) < End(c, j)
    OBVIOUS
  <2>2. i \in 0..n - 1 /\ i \in Nat /\ j \in Nat
    BY <1>2, <2>1
  <2>3. End(c, i) = SegSize * i /\ SegSize * i \in Nat /\ SegSize * i < x
    BY <1>4, <1>5, <2>2
  <2>4. CASE j = n
    BY <1>4, <2>3, <2>4
  <2>5. CASE j # n
    <3>1. j \in 0..n - 1
      BY <1>2, <2>5
    <3>2. End(c, j) = SegSize * j
      BY <1>4, <3>1
    <3>3. SegSize * j \in Nat /\ SegSize * i + SegSize <= SegSize * j
      BY <1>1, <2>1, <2>2, Products
    <3>. QED
      BY <1>1, <2>3, <3>2, <3>3
  <2>. QED
    BY <2>4, <2>5
<1>8. ASSUME NEW j \in 0..n - 1
      PROVE  End(c, j + 1) = IF x - End(c, j) < SegSize THEN x ELSE End(c, j) + SegSize
  <2>1. End(c, j) = SegSize * j /\ SegSize * j \in Nat
    BY <1>4, <1>5
  <2>2. SegSize * (j + 1) = SegSize * j + SegSize
    BY <1>1, <1>2
  <2>3. CASE j = n - 1
    <3>1. j + 1 = n
      BY <1>2, <2>3
    <3>2. End(c, j + 1) = x /\ x <= SegSize * (j + 1)
      BY <1>2, <1>4, <3>1
    <3>. QED
      BY <1>1, <2>1, <2>2, <3>2
  <2>4. CASE j # n - 1
    <3>1. j + 1 \in 0..n - 1
      BY <1>2, <2>4
    <3>2. End(c, j + 1) = SegSize * (j + 1) /\ SegSize * (j + 1) < x
      BY <1>4, <1>5, <3>1
    <3>. QED
      BY <1>1, <2>1, <2>2, <3>2
  <2>. QED
    BY <2>3, <2>4
<1>9. End(c, 0) = 0
  BY <1>2, <1>3, <1>4
<1>10. End(c, 1) > ProtHeaderSize
  <2>1. 0 \in 0..n - 1 /\ 0 + 1 = 1
    BY <1>2
  <2>2. End(c, 1) = IF x - 0 < SegSize THEN x ELSE 0 + SegSize
    BY <1>8, <1>9, <2>1
  <2>. QED
    BY <1>1, <2>2
<1>. QED
  BY <1>2, <1>4, <1>6, <1>7, <1>8, <1>9, <1>10 DEF n, x

\* How much was cut off is told by the offset.
LEMMA CutsAt ==
  ASSUME NEW c \in Callers, NEW j \in 0..NumSegments(c)
  PROVE  CutOff(c, End(c, j)) = j
<1>1. \A i \in 0..NumSegments(c) : End(c, j) = End(c, i) => i = j
  <2>1. SUFFICES ASSUME NEW i \in 0..NumSegments(c), End(c, i) = End(c, j), i # j PROVE FALSE
    OBVIOUS
  <2>2. i < j \/ j < i
    BY <2>1, Ends
  <2>3. End(c, i) \in Nat /\ End(c, j) \in Nat
    BY Ends
  <2>. QED
    BY <2>1, <2>2, <2>3, Ends
<1>. QED
  BY <1>1 DEF CutOff

-----------------------------------------------------------------------------
(***************************************************************************)
(* Packets                                                                 *)
(***************************************************************************)
LEMMA Packets ==
  ASSUME NEW c \in Callers
  PROVE  /\ Packet(c) \in Seq(Units) /\ Len(Packet(c)) = PacketSize(c)
         /\ \A i \in 1..PacketSize(c) : Packet(c)[i] = [of |-> c, at |-> i]
         /\ Units \subseteq Places
<1>1. PacketSize(c) \in Nat
  BY Sizes
<1>2. \A i \in 1..PacketSize(c) : [of |-> c, at |-> i] \in Units
  BY <1>1 DEF Units, Places
<1>3. Packet(c) \in [1..PacketSize(c) -> Units]
  BY <1>2 DEF Packet
<1>4. Packet(c) \in Seq(Units)
  BY <1>1, <1>3
<1>5. Len(Packet(c)) = PacketSize(c)
  BY <1>1, <1>3, <1>4
<1>. QED
  BY <1>4, <1>5 DEF Packet, Units

\* A message that is copied completely.
LEMMA Payloads ==
  ASSUME NEW c \in Callers
  PROVE  /\ Partly(c, Length[c]) = Payload(c)
         /\ \A n \in Nat : Partly(c, n) \in Seq(Places) /\ Len(Partly(c, n)) = Length[c]
         /\ \A d \in Callers : Payload(c) = Payload(d) => c = d
<1>1. \A e \in Callers : Partly(e, Length[e]) = Payload(e)
  <2>1. SUFFICES ASSUME NEW e \in Callers PROVE Partly(e, Length[e]) = Payload(e)
    OBVIOUS
  <2>2. /\ Length[e] \in Nat \ {0} /\ ProtHeaderSize \in Nat
        /\ PacketSize(e) = ProtHeaderSize + Length[e]
    BY Sizes, Constants
  <2>3. Payload(e) = [i \in 1..Length[e] |-> Packet(e)[ProtHeaderSize + i]]
    <3>1. PacketSize(e) - (ProtHeaderSize + 1) + 1 = Length[e]
      BY <2>2
    <3>2. \A i \in 1..Length[e] : i + (ProtHeaderSize + 1) - 1 = ProtHeaderSize + i
      BY <2>2
    <3>3. SubSeq(Packet(e), ProtHeaderSize + 1, PacketSize(e))
          = [i \in 1..Length[e] |-> Packet(e)[i + (ProtHeaderSize + 1) - 1]]
      BY <2>2, <3>1
    <3>. QED
      BY <3>2, <3>3 DEF Payload
  <2>4. \A i \in 1..Length[e] : Packet(e)[ProtHeaderSize + i] = [of |-> e, at |-> ProtHeaderSize + i]
    BY <2>2, Packets
  <2>. QED
    BY <2>2, <2>3, <2>4 DEF Partly
<1>2. ASSUME NEW n \in Nat PROVE Partly(c, n) \in Seq(Places) /\ Len(Partly(c, n)) = Length[c]
  <2>1. Length[c] \in Nat /\ ProtHeaderSize \in Nat
    BY Sizes, Constants
  <2>2. Partly(c, n) \in [1..Length[c] -> Places]
    BY <2>1 DEF Partly, Places
  <2>. QED
    BY <2>1, <2>2
<1>3. ASSUME NEW d \in Callers, Payload(c) = Payload(d) PROVE c = d
  <2>1. 1 \in 1..Length[c] /\ 1 \in 1..Length[d]
    BY Sizes
  <2>2. Partly(c, Length[c])[1].of = c /\ Partly(d, Length[d])[1].of = d
    BY <2>1 DEF Partly
  <2>. QED
    BY <1>1, <1>3, <2>2
<1>. QED
  BY <1>1, <1>2, <1>3

\* memcpy() of the units after the first n, up to m.
LEMMA CopyPart ==
  ASSUME NEW c \in Callers, NEW n \in Nat, NEW m \in Nat, n <= m, m <= Length[c],
         NEW data \in Seq(Units), Len(data) = m - n,
         \A i \in 1..m - n : data[i] = [of |-> c, at |-> ProtHeaderSize + n + i]
  PROVE  Copy(Partly(c, n), n, data) = Partly(c, m)
<1>1. Length[c] \in Nat /\ ProtHeaderSize \in Nat
  BY Sizes, Constants
<1>2. DOMAIN Partly(c, n) = 1..Length[c] /\ Len(Partly(c, n)) = Length[c]
  BY Payloads DEF Partly
<1>3. ASSUME NEW i \in 1..Length[c]
      PROVE  (IF i - n \in 1..Len(data) THEN data[i - n] ELSE Partly(c, n)[i])
             = [of |-> c, at |-> IF i <= m THEN ProtHeaderSize + i ELSE 0]
  <2>1. CASE i - n \in 1..Len(data)
    <3>1. i - n \in 1..m - n /\ i <= m /\ ProtHeaderSize + n + (i - n) = ProtHeaderSize + i
      BY <1>1, <2>1
    <3>. QED
      BY <2>1, <3>1
  <2>2. CASE ~(i - n \in 1..Len(data))
    <3>1. i <= n <=> i <= m
      BY <2>2
    <3>. QED
      BY <2>2, <3>1 DEF Partly
  <2>. QED
    BY <2>1, <2>2
<1>. QED
  BY <1>2, <1>3 DEF Copy, Partly

\* The units of a sequence after the first a, up to b.
LEMMA Slice ==
  ASSUME NEW S, NEW p \in Seq(S), NEW a \in Nat, NEW b \in Nat, a <= b, b <= Len(p)
  PROVE  /\ SubSeq(p, a + 1, b) \in Seq(S) /\ Len(SubSeq(p, a + 1, b)) = b - a
         /\ \A i \in 1..b - a : SubSeq(p, a + 1, b)[i] = p[a + i]
<1>1. \A i \in a + 1..b : p[i] \in S
  OBVIOUS
<1>2. a + 1 \in Int /\ b \in Int
  OBVIOUS
<1>3. /\ SubSeq(p, a + 1, b) \in Seq(S)
      /\ Len(SubSeq(p, a + 1, b)) = IF a + 1 <= b THEN b - (a + 1) + 1 ELSE 0
      /\ \A i \in 1..b - (a + 1) + 1 : SubSeq(p, a + 1, b)[i] = p[a + 1 + i - 1]
  BY <1>1, <1>2, SubSeqProperties
<1>4. b - (a + 1) + 1 = b - a /\ \A i \in 1..b - a : a + 1 + i - 1 = a + i
  OBVIOUS
<1>. QED
  BY <1>3, <1>4

\* The units of a segment.
LEMMA SegmentData ==
  ASSUME NEW c \in Callers, NEW j \in 0..NumSegments(c) - 1
  PROVE  LET data == SubSeq(Packet(c), End(c, j) + 1, End(c, j + 1)) IN
         /\ data \in Seq(Units) /\ Len(data) = End(c, j + 1) - End(c, j)
         /\ Len(data) \in 1..SegSize
         /\ \A i \in 1..Len(data) : data[i] = [of |-> c, at |-> End(c, j) + i]
<1>. DEFINE p == Packet(c)
            a == End(c, j)
            b == End(c, j + 1)
            data == SubSeq(p, a + 1, b)
<1>1. /\ PacketSize(c) \in Nat /\ SegSize \in Nat /\ a \in Nat /\ b \in Nat
      /\ a < b /\ b <= PacketSize(c) /\ b - a <= SegSize
  <2>1. j \in 0..NumSegments(c) /\ j + 1 \in 0..NumSegments(c) /\ j < j + 1
    BY Ends
  <2>2. a < b
    BY <2>1, Ends
  <2>. QED
    BY <2>1, <2>2, Ends, Sizes, Constants
<1>2. /\ p \in Seq(Units) /\ Len(p) = PacketSize(c)
      /\ \A i \in 1..PacketSize(c) : p[i] = [of |-> c, at |-> i]
  BY Packets
<1>. HIDE DEF p, a, b
<1>3. /\ data \in Seq(Units) /\ Len(data) = b - a
      /\ \A i \in 1..b - a : data[i] = p[a + i]
  <2>1. a <= b /\ b <= Len(p)
    BY <1>1, <1>2
  <2>. QED
    BY <1>1, <1>2, <2>1, Slice
<1>4. ASSUME NEW i \in 1..b - a PROVE data[i] = [of |-> c, at |-> a + i]
  <2>1. a + i \in 1..PacketSize(c)
    BY <1>1
  <2>. QED
    BY <1>2, <1>3, <2>1
<1>5. b - a \in 1..SegSize
  BY <1>1
<1>. QED
  BY <1>3, <1>4, <1>5 DEF p, a, b

\* The first segment starts a message, without its header.
LEMMA FirstPart ==
  ASSUME NEW c \in Callers, NEW first, first = SubSeq(Packet(c), End(c, 0) + 1, End(c, 0 + 1))
  PROVE  LET data == SubSeq(first, ProtHeaderSize + 1, Len(first))
             start == [i \in 1..Length[first[1].of] |-> [of |-> first[1].of, at |-> 0]] IN
         /\ Len(data) = End(c, 1) - ProtHeaderSize
         /\ Copy(start, 0, data) = Partly(c, End(c, 1) - ProtHeaderSize)
<1>. DEFINE data == SubSeq(first, ProtHeaderSize + 1, Len(first))
            m == End(c, 1) - ProtHeaderSize
<1>1. /\ first \in Seq(Units) /\ Len(first) = End(c, 1)
      /\ \A i \in 1..End(c, 1) : first[i] = [of |-> c, at |-> i]
  <2>1. 0 \in 0..NumSegments(c) - 1 /\ End(c, 0) = 0 /\ End(c, 1) \in Nat /\ 0 + 1 = 1
    <3>1. 1 \in 0..NumSegments(c)
      BY Ends
    <3>. QED
      BY <3>1, Ends
  <2>2. /\ first \in Seq(Units) /\ Len(first) = End(c, 0 + 1) - End(c, 0)
        /\ \A i \in 1..Len(first) : first[i] = [of |-> c, at |-> End(c, 0) + i]
    BY <2>1, SegmentData
  <2>. QED
    BY <2>1, <2>2
<1>2. /\ End(c, 1) \in Nat /\ End(c, 1) > ProtHeaderSize /\ ProtHeaderSize \in Nat
      /\ m \in Nat /\ m <= Length[c] /\ Length[c] \in Nat
  <2>1. 1 \in 0..NumSegments(c)
    BY Ends
  <2>. QED
    BY <2>1, Ends, Sizes, Constants
<1>3. [i \in 1..Length[first[1].of] |-> [of |-> first[1].of, at |-> 0]] = Partly(c, 0)
  <2>1. first[1].of = c
    <3>1. 1 \in 1..End(c, 1)
      BY <1>2
    <3>. DEFINE u == [of |-> c, at |-> 1]
    <3>2. first[1] = u
      BY <1>1, <3>1
    <3>3. u.of = c
      OBVIOUS
    <3>. HIDE DEF u
    <3>. QED
      BY <3>2, <3>3
  <2>2. \A i \in 1..Length[c] : ~(i <= 0)
    BY <1>2
  <2>. QED
    BY <2>1, <2>2 DEF Partly
<1>4. /\ data \in Seq(Units) /\ Len(data) = m
      /\ \A i \in 1..m : data[i] = [of |-> c, at |-> ProtHeaderSize + 0 + i]
  <2>1. /\ SubSeq(first, ProtHeaderSize + 1, End(c, 1)) \in Seq(Units)
        /\ Len(SubSeq(first, ProtHeaderSize + 1, End(c, 1))) = m
        /\ \A i \in 1..m : SubSeq(first, ProtHeaderSize + 1, End(c, 1))[i] = first[ProtHeaderSize + i]
    <3>. DEFINE h == ProtHeaderSize
                e == End(c, 1)
    <3>1. h <= e /\ e <= Len(first) /\ m = e - h
      BY <1>1, <1>2
    <3>2. first \in Seq(Units) /\ h \in Nat /\ e \in Nat
      BY <1>1, <1>2
    <3>. HIDE DEF data, m, h, e
    <3>3. /\ SubSeq(first, h + 1, e) \in Seq(Units) /\ Len(SubSeq(first, h + 1, e)) = e - h
          /\ \A i \in 1..e - h : SubSeq(first, h + 1, e)[i] = first[h + i]
      BY <3>1, <3>2, Slice
    <3>. QED
      BY <3>1, <3>3 DEF h, e
  <2>2. data = SubSeq(first, ProtHeaderSize + 1, End(c, 1))
    BY <1>1
  <2>. HIDE DEF data
  <2>3. ASSUME NEW i \in 1..m PROVE data[i] = [of |-> c, at |-> ProtHeaderSize + 0 + i]
    <3>1. ProtHeaderSize + i \in 1..End(c, 1) /\ ProtHeaderSize + 0 + i = ProtHeaderSize + i
      BY <1>2
    <3>. QED
      BY <1>1, <2>1, <2>2, <3>1
  <2>. QED
    BY <2>1, <2>2, <2>3
<1>. HIDE DEF data, m
<1>5. 0 \in Nat /\ 0 <= m /\ m - 0 = m
  BY <1>2
<1>6. Copy(Partly(c, 0), 0, data) = Partly(c, m)
  BY <1>2, <1>4, <1>5, CopyPart
<1>. QED
  BY <1>3, <1>4, <1>6 DEF data, m

\* Every other one goes behind what was copied before.
LEMMA NextPart ==
  ASSUME NEW c \in Callers, NEW j \in 1..NumSegments(c) - 1, NEW data,
         data = SubSeq(Packet(c), End(c, j) + 1, End(c, j + 1))
  PROVE  LET n == End(c, j) - ProtHeaderSize
             m == End(c, j + 1) - ProtHeaderSize IN
         /\ n \in Nat /\ m \in Nat /\ n < m /\ m <= Length[c] /\ n + Len(data) = m
         /\ Copy(Partly(c, n), n, data) = Partly(c, m)
<1>. DEFINE n == End(c, j) - ProtHeaderSize
            m == End(c, j + 1) - ProtHeaderSize
<1>1. /\ j \in 0..NumSegments(c) - 1 /\ j \in 0..NumSegments(c) /\ j + 1 \in 0..NumSegments(c)
      /\ 1 \in 0..NumSegments(c) /\ (j = 1 \/ 1 < j) /\ j < j + 1
  BY Ends
<1>2. /\ End(c, j) \in Nat /\ End(c, j + 1) \in Nat /\ End(c, j) < End(c, j + 1)
      /\ End(c, j + 1) <= PacketSize(c) /\ End(c, j) > ProtHeaderSize
  <2>1. End(c, 1) = End(c, j) \/ End(c, 1) < End(c, j)
    BY <1>1, Ends
  <2>2. End(c, 1) \in Nat /\ End(c, 1) > ProtHeaderSize /\ End(c, j) \in Nat /\ ProtHeaderSize \in Nat
    BY <1>1, Ends, Constants
  <2>3. End(c, j) < End(c, j + 1) /\ End(c, j + 1) \in Nat /\ End(c, j + 1) <= PacketSize(c)
    BY <1>1, Ends
  <2>. QED
    BY <2>1, <2>2, <2>3
<1>3. /\ data \in Seq(Units) /\ Len(data) = End(c, j + 1) - End(c, j)
      /\ \A i \in 1..Len(data) : data[i] = [of |-> c, at |-> End(c, j) + i]
  BY <1>1, SegmentData
<1>4. ProtHeaderSize \in Nat /\ PacketSize(c) = ProtHeaderSize + Length[c] /\ Length[c] \in Nat
  BY Constants, Sizes
<1>5. n \in Nat /\ m \in Nat /\ n < m /\ m <= Length[c] /\ Len(data) = m - n /\ n + Len(data) = m
  <2>1. n \in Nat /\ m \in Nat /\ n < m /\ m <= Length[c] /\ m - n = End(c, j + 1) - End(c, j)
    <3>. DEFINE h == ProtHeaderSize
                e == End(c, j)
                f == End(c, j + 1)
                l == Length[c]
    <3>1. h \in Nat /\ e \in Nat /\ f \in Nat /\ l \in Nat /\ e < f /\ f <= h + l /\ e > h
      BY <1>2, <1>4
    <3>. HIDE DEF h, e, f, l
    <3>2. e - h \in Nat /\ f - h \in Nat /\ e - h < f - h /\ f - h <= l /\ (f - h) - (e - h) = f - e
      BY <3>1
    <3>. QED
      BY <3>2 DEF h, e, f, l
  <2>2. Len(data) = m - n
    BY <1>3, <2>1
  <2>. HIDE DEF n, m
  <2>3. n + (m - n) = m
    BY <2>1
  <2>4. n + Len(data) = m
    BY <2>2, <2>3
  <2>. QED
    BY <2>1, <2>2, <2>4
<1>6. ASSUME NEW i \in 1..m - n PROVE data[i] = [of |-> c, at |-> ProtHeaderSize + n + i]
  <2>1. ProtHeaderSize + n + i = End(c, j) + i
    BY <1>2, <1>4
  <2>. HIDE DEF n, m
  <2>2. i \in 1..Len(data)
    BY <1>5
  <2>. QED
    BY <1>3, <2>1, <2>2
<1>. HIDE DEF n, m
<1>7. Copy(Partly(c, n), n, data) = Partly(c, m)
  <2>1. n <= m
    BY <1>5
  <2>. QED
    BY <1>3, <1>5, <1>6, <2>1, CopyPart
<1>. QED
  BY <1>5, <1>7 DEF n, m

\* memcpy() stays in the message.
LEMMA CopyTyped ==
  ASSUME NEW out \in Seq(Places), NEW at \in Nat, NEW data \in Seq(Units)
  PROVE  Copy(out, at, data) \in Seq(Places) /\ Len(Copy(out, at, data)) = Len(out)
<1>1. Units \subseteq Places
  BY DEF Units
<1>2. \A i \in 1..Len(out) : (IF i - at \in 1..Len(data) THEN data[i - at] ELSE out[i]) \in Places
  BY <1>1
<1>3. Copy(out, at, data) \in [1..Len(out) -> Places] /\ Len(out) \in Nat
  BY <1>2 DEF Copy
<1>. QED
  BY <1>3

-----------------------------------------------------------------------------
(***************************************************************************)
(* Types                                                                   *)
(***************************************************************************)
LEMMA VectorsTyped ==
  \A v \in Vectors : v \in Seq(Units) /\ Len(v) \in Nat
<1>1. <<>> \in Seq(Units)
  OBVIOUS
<1>2. \A c \in Callers : Packet(c) \in Seq(Units)
  BY Packets
<1>3. \A v \in Seq(Units) : Len(v) \in Nat
  OBVIOUS
<1>4. \A v \in Vectors : v \in Seq(Units)
  BY <1>1, <1>2 DEF Vectors
<1>. QED
  BY <1>3, <1>4

\* The units that a caller cuts off next.
LEMMA NextCut ==
  ASSUME CallersTyped, NEW c \in Callers, pc[c] = "enqueue"
  PROVE  /\ offset[c] \in Nat /\ offset[c] + SegLen(c) \in Nat /\ offset[c] < offset[c] + SegLen(c)
         /\ offset[c] + SegLen(c) <= PacketSize(c) /\ SegLen(c) \in 1..SegSize
<1>1. offset[c] \in Nat /\ offset[c] < PacketSize(c)
  BY DEF CallersTyped
<1>2. PacketSize(c) \in Nat /\ SegSize \in Nat \ {0}
  BY Sizes, Constants
<1>. QED
  BY <1>1, <1>2 DEF SegLen

\* What it puts into the send queue.
Cut(c) == [seqNo |-> seqNo[c], kind |-> Kind[c],
           mf |-> offset[c] + SegLen(c) < PacketSize(c),
           data |-> SubSeq(vector[c], offset[c] + 1, offset[c] + SegLen(c))]

LEMMA CutTyped ==
  ASSUME CallersTyped, NEW c \in Callers, pc[c] = "enqueue",
         ~(offset[c] + SegLen(c) > Len(vector[c]))
  PROVE  Cut(c) \in Segments /\ Cut(c).kind = Kind[c]
<1>. DEFINE end == offset[c] + SegLen(c)
            data == SubSeq(vector[c], offset[c] + 1, end)
<1>1. /\ offset[c] \in Nat /\ end \in Nat /\ offset[c] < end /\ end - offset[c] \in 1..SegSize
  BY NextCut, Constants
<1>2. vector[c] \in Seq(Units) /\ Len(vector[c]) \in Nat
  BY VectorsTyped DEF CallersTyped
<1>3. data \in Seq(Units) /\ Len(data) = end - offset[c]
  <2>1. offset[c] <= end /\ end <= Len(vector[c])
    BY <1>1, <1>2
  <2>. HIDE DEF end
  <2>. QED
    BY <1>1, <1>2, <2>1, Slice
<1>4. seqNo[c] \in Nat /\ Kind[c] \in Kinds /\ (end < PacketSize(c)) \in BOOLEAN
  BY Constants DEF CallersTyped
<1>5. Cut(c) = [seqNo |-> seqNo[c], kind |-> Kind[c], mf |-> end < PacketSize(c), data |-> data]
  BY DEF Cut
<1>. HIDE DEF data, end
<1>. QED
  BY <1>1, <1>3, <1>4, <1>5 DEF Segments

LEMMA CallersTypedStep ==
  ASSUME CallersTyped, [Next]_vars
  PROVE  CallersTyped'
<1>. USE DEF CallersTyped
<1>1. ASSUME NEW c \in Callers, Serialize(c) PROVE CallersTyped'
  <2>1. Packet(c) \in Vectors
    BY DEF Vectors
  <2>. QED
    BY <1>1, <2>1 DEF Serialize, Go
<1>2. ASSUME NEW c \in Callers, SerializeStatic(c) PROVE CallersTyped'
  <2>1. Packet(c) \in Vectors
    BY DEF Vectors
  <2>2. overlapped' \in BOOLEAN
    BY <1>2 DEF SerializeStatic
  <2>. QED
    BY <1>2, <2>1, <2>2 DEF SerializeStatic, Go
<1>3. ASSUME NEW c \in Callers, SendPacket(c) PROVE CallersTyped'
  BY <1>3 DEF SendPacket, Go
<1>4. ASSUME NEW c \in Callers, Reserve(c) PROVE CallersTyped'
  <2>1. NumSegments(c) \in Nat /\ Kind[c] \in Kinds /\ offset[c] = 0 /\ PacketSize(c) > 0
    BY <1>4, Ends, Constants, Sizes DEF Reserve
  <2>2. nextSeqNo' \in [Kinds -> Nat] /\ seqNo' \in [Callers -> Nat]
    BY <1>4, <2>1 DEF Reserve
  <2>. QED
    BY <1>4, <2>1, <2>2 DEF Reserve, Go
<1>5. ASSUME NEW c \in Callers, ReserveRead(c) PROVE CallersTyped'
  <2>1. Kind[c] \in Kinds
    BY Constants
  <2>2. seqNo' \in [Callers -> Nat]
    BY <1>5, <2>1 DEF ReserveRead
  <2>. QED
    BY <1>5, <2>2 DEF ReserveRead, Go
<1>6. ASSUME NEW c \in Callers, ReserveWrite(c) PROVE CallersTyped'
  <2>1. NumSegments(c) \in Nat /\ Kind[c] \in Kinds /\ offset[c] = 0 /\ PacketSize(c) > 0
    BY <1>6, Ends, Constants, Sizes DEF ReserveWrite
  <2>2. nextSeqNo' \in [Kinds -> Nat]
    BY <1>6, <2>1 DEF ReserveWrite
  <2>. QED
    BY <1>6, <2>1, <2>2 DEF ReserveWrite, Go
<1>7. ASSUME NEW c \in Callers, EnqueueSegment(c) PROVE CallersTyped'
  <2>1. pc[c] = "enqueue"
    BY <1>7 DEF EnqueueSegment
  <2>. DEFINE end == offset[c] + SegLen(c)
  <2>2. end \in Nat /\ end <= PacketSize(c) /\ PacketSize(c) \in Nat
    BY <2>1, NextCut, Sizes
  <2>. HIDE DEF end
  <2>3. UNCHANGED <<sender, static, vector, nextSeqNo, overlapped>>
    BY <1>7 DEF EnqueueSegment
  <2>4. CASE end > Len(vector[c])
    <3>1. UNCHANGED <<seqNo, offset>> /\ pc' = [pc EXCEPT ![c] = "threw"]
      BY <1>7, <2>4 DEF EnqueueSegment, Go, end
    <3>. QED
      BY <2>3, <3>1
  <2>5. CASE ~(end > Len(vector[c]))
    <3>1. /\ seqNo' = [seqNo EXCEPT ![c] = @ + 1] /\ offset' = [offset EXCEPT ![c] = end]
          /\ pc' = [pc EXCEPT ![c] = IF end < PacketSize(c) THEN "enqueue" ELSE "sent"]
      BY <1>7, <2>5 DEF EnqueueSegment, Go, end
    <3>2. seqNo' \in [Callers -> Nat] /\ offset' \in [Callers -> Nat]
      BY <2>2, <3>1
    <3>. QED
      BY <2>2, <2>3, <3>1, <3>2
  <2>. QED
    BY <2>4, <2>5
<1>8. CASE UNCHANGED sender /\ UNCHANGED sendVars
  BY <1>8 DEF sendVars
<1>. QED
  BY <1>1, <1>2, <1>3, <1>4, <1>5, <1>6, <1>7, <1>8
     DEF Next, Progress, CallerStep, SocketStep, TakeSegment, SendPart, ReadPart, EnqueueReceived,
         Reassemble, SendInterrupted, ReadInterrupted, vars

\* Adding a segment to a queue, or dropping it.
LEMMA Enqueued ==
  ASSUME NEW queue, NEW s
  PROVE  /\ queue \subseteq Enqueue(queue, s)
         /\ Enqueue(queue, s) \subseteq queue \cup {s}
BY DEF Enqueue

\* A turn of the loop of send_to_segment_manager() that does not throw.
LEMMA Enqueues ==
  ASSUME NEW c \in Callers, EnqueueSegment(c)
  PROVE  /\ pc[c] = "enqueue" /\ UNCHANGED <<sender, static, vector, nextSeqNo, overlapped>>
         /\ UNCHANGED socketVars /\ UNCHANGED recvQueue /\ UNCHANGED receiveVars
         /\ offset[c] + SegLen(c) > Len(vector[c]) =>
              UNCHANGED <<sendQueue, seqNo, offset>> /\ pc' = [pc EXCEPT ![c] = "threw"]
         /\ ~(offset[c] + SegLen(c) > Len(vector[c])) =>
              /\ sendQueue' = [sendQueue EXCEPT ![Kind[c]] = Enqueue(@, Cut(c))]
              /\ seqNo' = [seqNo EXCEPT ![c] = @ + 1]
              /\ offset' = [offset EXCEPT ![c] = offset[c] + SegLen(c)]
              /\ pc' = [pc EXCEPT ![c] = IF offset[c] + SegLen(c) < PacketSize(c)
                                         THEN "enqueue" ELSE "sent"]
<1>. DEFINE end == offset[c] + SegLen(c)
<1>1. /\ pc[c] = "enqueue" /\ UNCHANGED <<sender, static, vector, nextSeqNo, overlapped>>
      /\ UNCHANGED socketVars /\ UNCHANGED recvQueue /\ UNCHANGED receiveVars
  BY DEF EnqueueSegment
<1>2. end > Len(vector[c]) =>
        UNCHANGED <<sendQueue, seqNo, offset>> /\ pc' = [pc EXCEPT ![c] = "threw"]
  BY DEF EnqueueSegment, Go
<1>3. ~(end > Len(vector[c])) =>
        /\ sendQueue' = [sendQueue EXCEPT ![Kind[c]] = Enqueue(@, Cut(c))]
        /\ seqNo' = [seqNo EXCEPT ![c] = @ + 1]
        /\ offset' = [offset EXCEPT ![c] = end]
        /\ pc' = [pc EXCEPT ![c] = IF end < PacketSize(c) THEN "enqueue" ELSE "sent"]
  BY DEF EnqueueSegment, Go, Cut
<1>. QED
  BY <1>1, <1>2, <1>3

LEMMA SendQueueTyped ==
  ASSUME CallersTyped, SocketTyped, [Next]_vars
  PROVE  /\ sendQueue' \in [Kinds -> SUBSET Segments]
         /\ \A k \in Kinds : /\ \A s \in sendQueue'[k] : s.kind = k
                             /\ sendQueue[k] \subseteq sendQueue'[k]
<1>1. ASSUME NEW c \in Callers, EnqueueSegment(c), ~(offset[c] + SegLen(c) > Len(vector[c]))
      PROVE  /\ sendQueue' \in [Kinds -> SUBSET Segments]
             /\ \A k \in Kinds : /\ \A s \in sendQueue'[k] : s.kind = k
                                 /\ sendQueue[k] \subseteq sendQueue'[k]
  <2>1. pc[c] = "enqueue" /\ sendQueue' = [sendQueue EXCEPT ![Kind[c]] = Enqueue(@, Cut(c))]
    BY <1>1, Enqueues
  <2>2. Cut(c) \in Segments /\ Cut(c).kind = Kind[c] /\ Kind[c] \in Kinds
    BY <1>1, <2>1, CutTyped, Constants
  <2>3. sendQueue \in [Kinds -> SUBSET Segments] /\ \A k \in Kinds : \A s \in sendQueue[k] : s.kind = k
    BY DEF SocketTyped
  <2>4. /\ sendQueue[Kind[c]] \subseteq Enqueue(sendQueue[Kind[c]], Cut(c))
        /\ Enqueue(sendQueue[Kind[c]], Cut(c)) \subseteq sendQueue[Kind[c]] \cup {Cut(c)}
    BY Enqueued
  <2>5. Enqueue(sendQueue[Kind[c]], Cut(c)) \in SUBSET Segments
    BY <2>2, <2>3, <2>4
  <2>6. \A k \in Kinds : sendQueue'[k] = IF k = Kind[c] THEN Enqueue(sendQueue[Kind[c]], Cut(c))
                                         ELSE sendQueue[k]
    BY <2>1, <2>3
  <2>7. sendQueue' \in [Kinds -> SUBSET Segments]
    BY <2>1, <2>3, <2>5
  <2>. QED
    BY <2>2, <2>3, <2>4, <2>6, <2>7
<1>2. CASE UNCHANGED sendQueue
  BY <1>2 DEF SocketTyped
<1>3. ASSUME NEW c \in Callers, EnqueueSegment(c), offset[c] + SegLen(c) > Len(vector[c])
      PROVE  UNCHANGED sendQueue
  BY <1>3, Enqueues
<1>. QED
  BY <1>1, <1>2, <1>3
     DEF Next, Progress, CallerStep, SocketStep, TakeSegment, SendPart, ReadPart, EnqueueReceived,
         Reassemble, SendInterrupted, ReadInterrupted, vars, Serialize, SerializeStatic,
         SendPacket, Reserve, ReserveRead, ReserveWrite

\* What the sender thread takes from a send queue.
LEMMA Takes ==
  ASSUME SocketTyped, TakeSegment, failed = <<>>
  PROVE  \E k \in Kinds : \E s \in sendQueue[k] :
           /\ s.seqNo = sent[k] /\ s \in Segments /\ s.kind = k
           /\ sending' = [segment |-> s, parts |-> 0]
           /\ sent' = [sent EXCEPT ![k] = @ + 1] /\ UNCHANGED failed
<1>. DEFINE k == IF Ready(sendQueue, sent, "control") THEN "control" ELSE "data"
<1>1. k \in Kinds
  BY DEF Kinds
<1>2. \E s \in sendQueue[k] : s.seqNo = sent[k] /\ sending' = [segment |-> s, parts |-> 0]
  BY DEF TakeSegment
<1>3. sent' = [sent EXCEPT ![k] = @ + 1] /\ UNCHANGED failed
  BY DEF TakeSegment
<1>. HIDE DEF k
<1>4. \A s \in sendQueue[k] : s \in Segments /\ s.kind = k
  BY <1>1 DEF SocketTyped
<1>. QED
  BY <1>1, <1>2, <1>3, <1>4

LEMMA SocketTypedStep ==
  ASSUME CallersTyped, SocketTyped, [Next]_vars
  PROVE  SocketTyped'
<1>. DEFINE Q == /\ sendQueue' \in [Kinds -> SUBSET Segments]
                 /\ \A k \in Kinds : \A s \in sendQueue'[k] : s.kind = k
            R == /\ recvQueue' \in [Kinds -> SUBSET Segments]
                 /\ \A k \in Kinds : \A s \in recvQueue'[k] : s.kind = k
<1>1. Q
  BY SendQueueTyped
<1>. HIDE DEF Q, R
<1>2. CASE UNCHANGED recvQueue /\ UNCHANGED socketVars
  <2>1. R
    BY <1>2 DEF R, SocketTyped
  <2>. QED
    BY <1>1, <1>2, <2>1 DEF Q, R, SocketTyped, socketVars
<1>3. CASE TakeSegment
  <2>1. R
    BY <1>3 DEF R, SocketTyped, TakeSegment
  <2>2. UNCHANGED <<stream, buffer, garbled, interrupts>>
    BY <1>3 DEF TakeSegment
  <2>3. sent' \in [Kinds -> Nat] /\ failed' \in Seq(Segments) /\ sending' \in [segment : Segments, parts : 0..Parts - 1]
    <3>1. 0 \in 0..Parts - 1
      BY Constants
    <3>2. CASE failed # <<>>
      <4>1. sent' = sent /\ failed' = Tail(failed) /\ sending' = [segment |-> Head(failed), parts |-> 0]
        BY <1>3, <3>2 DEF TakeSegment
      <4>2. failed \in Seq(Segments) /\ sent \in [Kinds -> Nat]
        BY DEF SocketTyped
      <4>3. Head(failed) \in Segments /\ Tail(failed) \in Seq(Segments)
        BY <3>2, <4>2
      <4>. QED
        BY <3>1, <4>1, <4>2, <4>3
    <3>3. CASE failed = <<>>
      <4>1. PICK k \in Kinds : \E s \in sendQueue[k] :
                /\ s.seqNo = sent[k] /\ s \in Segments /\ s.kind = k
                /\ sending' = [segment |-> s, parts |-> 0]
                /\ sent' = [sent EXCEPT ![k] = @ + 1] /\ UNCHANGED failed
        BY <1>3, <3>3, Takes
      <4>. QED
        BY <3>1, <4>1 DEF SocketTyped
    <3>. QED
      BY <3>2, <3>3
  <2>. QED
    BY <1>1, <2>1, <2>2, <2>3 DEF Q, R, SocketTyped
<1>4. CASE SendPart
  <2>1. R
    BY <1>4 DEF R, SocketTyped, SendPart
  <2>2. UNCHANGED <<sent, failed, buffer, garbled, interrupts>>
    BY <1>4 DEF SendPart
  <2>3. sending \in [segment : Segments, parts : 0..Parts - 1] /\ stream \in Seq(Pieces) /\ Parts \in Nat \ {0}
    BY <1>4, Constants DEF SocketTyped, SendPart
  <2>4. [segment |-> sending.segment, part |-> sending.parts + 1] \in Pieces
    BY <2>3 DEF Pieces
  <2>5. stream' \in Seq(Pieces)
    BY <1>4, <2>3, <2>4 DEF SendPart
  <2>6. sending' = Idle \/ sending' \in [segment : Segments, parts : 0..Parts - 1]
    <3>1. CASE sending.parts + 1 = Parts
      BY <1>4, <3>1 DEF SendPart
    <3>2. CASE sending.parts + 1 # Parts
      <4>1. sending' = [sending EXCEPT !.parts = @ + 1]
        BY <1>4, <3>2 DEF SendPart
      <4>2. sending.parts + 1 \in 0..Parts - 1
        BY <2>3, <3>2
      <4>. QED
        BY <2>3, <4>1, <4>2
    <3>. QED
      BY <3>1, <3>2
  <2>. QED
    BY <1>1, <2>1, <2>2, <2>5, <2>6 DEF Q, R, SocketTyped
<1>5. CASE SendInterrupted
  <2>1. R
    BY <1>5 DEF R, SocketTyped, SendInterrupted
  <2>2. UNCHANGED <<sent, stream, buffer, garbled>> /\ sending' = Idle
    BY <1>5 DEF SendInterrupted
  <2>3. sending \in [segment : Segments, parts : 0..Parts - 1] /\ failed \in Seq(Segments)
    BY <1>5 DEF SocketTyped, SendInterrupted
  <2>4. failed' \in Seq(Segments)
    BY <1>5, <2>3 DEF SendInterrupted
  <2>5. interrupts' \in 0..MaxInterrupts
    BY <1>5, Constants DEF SendInterrupted, SocketTyped
  <2>. QED
    BY <1>1, <2>1, <2>2, <2>4, <2>5 DEF Q, R, SocketTyped
<1>6. CASE ReadPart
  <2>1. R
    BY <1>6 DEF R, SocketTyped, ReadPart
  <2>2. UNCHANGED <<sent, failed, sending, garbled, interrupts>>
    BY <1>6 DEF ReadPart
  <2>3. stream \in Seq(Pieces) /\ buffer \in Seq(Pieces) /\ Parts \in Nat \ {0} /\ stream # <<>>
        /\ Len(buffer) < Parts
    BY <1>6, Constants DEF SocketTyped, ReadPart
  <2>4. stream' = Tail(stream) /\ buffer' = Append(buffer, Head(stream))
    BY <1>6 DEF ReadPart
  <2>5. stream' \in Seq(Pieces) /\ buffer' \in Seq(Pieces) /\ Len(buffer') <= Parts
    BY <2>3, <2>4
  <2>. QED
    BY <1>1, <2>1, <2>2, <2>5 DEF Q, R, SocketTyped
<1>7. CASE ReadInterrupted
  <2>1. R
    BY <1>7 DEF R, SocketTyped, ReadInterrupted
  <2>2. UNCHANGED <<sent, failed, sending, stream, garbled>> /\ buffer' = <<>>
    BY <1>7 DEF ReadInterrupted
  <2>3. interrupts' \in 0..MaxInterrupts
    BY <1>7, Constants DEF ReadInterrupted, SocketTyped
  <2>4. buffer' \in Seq(Pieces) /\ Len(buffer') <= Parts
    BY <2>2, Constants
  <2>. QED
    BY <1>1, <2>1, <2>2, <2>3, <2>4 DEF Q, R, SocketTyped
<1>8. CASE EnqueueReceived
  <2>1. UNCHANGED <<sent, failed, sending, stream, interrupts>>
    BY <1>8 DEF EnqueueReceived
  <2>. DEFINE s == buffer[1].segment
  <2>2. s \in Segments /\ Parts \in Nat \ {0}
    <3>1. 1 \in 1..Len(buffer) /\ buffer \in Seq(Pieces)
      BY <1>8, Constants DEF EnqueueReceived, SocketTyped
    <3>2. buffer[1] \in Pieces
      BY <3>1
    <3>. QED
      BY <3>2, Constants DEF Pieces
  <2>. HIDE DEF s
  <2>3. CASE UNCHANGED <<recvQueue, buffer>> /\ garbled' = TRUE
    <3>1. R
      BY <2>3 DEF R, SocketTyped
    <3>. QED
      BY <1>1, <2>1, <2>3, <3>1 DEF Q, R, SocketTyped
  <2>4. CASE /\ recvQueue' = [recvQueue EXCEPT ![s.kind] = Enqueue(@, s)]
             /\ buffer' = <<>> /\ UNCHANGED garbled
    <3>1. s.kind \in Kinds /\ recvQueue \in [Kinds -> SUBSET Segments]
          /\ \A k \in Kinds : \A t \in recvQueue[k] : t.kind = k
      BY <2>2 DEF Segments, SocketTyped
    <3>2. Enqueue(recvQueue[s.kind], s) \subseteq recvQueue[s.kind] \cup {s}
      BY Enqueued
    <3>3. Enqueue(recvQueue[s.kind], s) \in SUBSET Segments
      BY <2>2, <3>1, <3>2
    <3>4. recvQueue' \in [Kinds -> SUBSET Segments]
      BY <2>4, <3>1, <3>3
    <3>5. \A k \in Kinds : recvQueue'[k] = IF k = s.kind THEN Enqueue(recvQueue[s.kind], s)
                                           ELSE recvQueue[k]
      BY <2>4, <3>1
    <3>6. R
      BY <3>1, <3>2, <3>4, <3>5 DEF R
    <3>7. buffer' \in Seq(Pieces) /\ Len(buffer') <= Parts
      BY <2>2, <2>4
    <3>. QED
      BY <1>1, <2>1, <2>4, <3>6, <3>7 DEF Q, R, SocketTyped
  <2>. QED
    BY <1>8, <2>3, <2>4 DEF EnqueueReceived, s
<1>. QED
  BY <1>2, <1>3, <1>4, <1>5, <1>6, <1>7, <1>8
     DEF Next, Progress, CallerStep, SocketStep, Reassemble, vars, Serialize, SerializeStatic,
         SendPacket, Reserve, ReserveRead, ReserveWrite, EnqueueSegment

\* A turn of receive() takes one segment ...
Start(k, s) ==
  IF partial[k].cont THEN partial[k]
  ELSE [cont |-> TRUE, offset |-> 0,
        out |-> [i \in 1..Length[s.data[1].of] |-> [of |-> s.data[1].of, at |-> 0]]]
Data(k, s) ==
  IF partial[k].cont THEN s.data ELSE SubSeq(s.data, ProtHeaderSize + 1, Len(s.data))
Out(k, s) == Copy(Start(k, s).out, Start(k, s).offset, Data(k, s))

\* ... and copies it.
CopySegment(k, s) ==
  /\ s \in recvQueue[k] /\ s.seqNo = taken[k]
  /\ overflow' = (overflow \/ Start(k, s).offset + Len(Data(k, s)) > Len(Out(k, s)))
  /\ IF s.mf
       THEN /\ partial' = [partial EXCEPT ![k] =
                 [cont |-> TRUE, out |-> Out(k, s),
                  offset |-> Advance(Start(k, s).offset, Len(Data(k, s)))]]
            /\ UNCHANGED received
       ELSE /\ received' = [received EXCEPT ![k] = Append(@, Out(k, s))]
            /\ partial' = [partial EXCEPT ![k] = NoMessage]
  /\ taken' = [taken EXCEPT ![k] = @ + 1]
  /\ UNCHANGED <<sender, sendVars, sendQueue, socketVars, recvQueue>>

LEMMA Reassembles ==
  ASSUME NEW k \in Kinds, Reassemble(k)
  PROVE  \E s \in recvQueue[k] : CopySegment(k, s)
BY DEF Reassemble, CopySegment, Start, Data, Out, HeaderLength

\* The pieces of a message that receive() works on.
LEMMA WorkTyped ==
  ASSUME SocketTyped, ReceiveTyped, NEW k \in Kinds, NEW s \in recvQueue[k]
  PROVE  /\ s \in Segments /\ Data(k, s) \in Seq(Units)
         /\ Start(k, s).out \in Seq(Places) /\ Start(k, s).offset \in Nat
         /\ Out(k, s) \in Seq(Places) /\ Len(Out(k, s)) = Len(Start(k, s).out)
<1>1. s \in Segments
  BY DEF SocketTyped
<1>2. s.data \in Seq(Units) /\ Len(s.data) \in 1..SegSize
  BY <1>1 DEF Segments
<1>3. partial[k] \in [cont : BOOLEAN, out : Seq(Places), offset : Nat]
  BY DEF ReceiveTyped
<1>4. Data(k, s) \in Seq(Units)
  <2>1. SubSeq(s.data, ProtHeaderSize + 1, Len(s.data)) \in Seq(Units)
    <3>1. ProtHeaderSize + 1 \in Int /\ ProtHeaderSize + 1 >= 1 /\ Len(s.data) \in Int
      BY <1>2, Constants
    <3>2. \A i \in ProtHeaderSize + 1..Len(s.data) : s.data[i] \in Units
      BY <1>2, <3>1
    <3>. QED
      BY <3>1, <3>2, SubSeqProperties
  <2>. QED
    BY <1>2, <2>1 DEF Data
<1>5. Start(k, s).out \in Seq(Places) /\ Start(k, s).offset \in Nat
  <2>1. CASE partial[k].cont
    BY <1>3, <2>1 DEF Start
  <2>2. CASE ~partial[k].cont
    <3>1. s.data[1] \in Units
      BY <1>2
    <3>. DEFINE d == s.data[1].of
                out == [i \in 1..Length[d] |-> [of |-> d, at |-> 0]]
    <3>2. d \in Callers
      BY <3>1 DEF Units, Places
    <3>3. Start(k, s) = [cont |-> TRUE, offset |-> 0, out |-> out]
      BY <2>2 DEF Start
    <3>. HIDE DEF d
    <3>4. out \in [1..Length[d] -> Places] /\ Length[d] \in Nat
      BY <3>2, Constants DEF Places
    <3>5. out \in Seq(Places)
      BY <3>4
    <3>. HIDE DEF out
    <3>. QED
      BY <3>3, <3>5
  <2>. QED
    BY <2>1, <2>2
<1>. QED
  BY <1>1, <1>4, <1>5, CopyTyped DEF Out

LEMMA ReceiveTypedStep ==
  ASSUME CallersTyped, SocketTyped, ReceiveTyped, [Next]_vars
  PROVE  ReceiveTyped'
<1>1. ASSUME NEW k \in Kinds, Reassemble(k) PROVE ReceiveTyped'
  <2>1. PICK s \in recvQueue[k] : CopySegment(k, s)
    BY <1>1, Reassembles
  <2>2. /\ Data(k, s) \in Seq(Units) /\ Start(k, s).offset \in Nat /\ Out(k, s) \in Seq(Places)
    BY WorkTyped
  <2>3. Advance(Start(k, s).offset, Len(Data(k, s))) \in Nat
    <3>1. Len(Data(k, s)) \in Nat
      BY <2>2
    <3>2. Start(k, s).offset + Len(Data(k, s)) \in Nat
      BY <2>2, <3>1
    <3>. QED
      BY <3>2, Constants DEF Advance
  <2>4. taken' \in [Kinds -> Nat]
    BY <2>1 DEF CopySegment, ReceiveTyped
  <2>5. overflow' \in BOOLEAN
    BY <2>1 DEF CopySegment, ReceiveTyped
  <2>6. NoMessage \in [cont : BOOLEAN, out : Seq(Places), offset : Nat]
    BY DEF NoMessage
  <2>7. partial' \in [Kinds -> [cont : BOOLEAN, out : Seq(Places), offset : Nat]]
    <3>. DEFINE next == [cont |-> TRUE, out |-> Out(k, s),
                         offset |-> Advance(Start(k, s).offset, Len(Data(k, s)))]
    <3>1. next \in [cont : BOOLEAN, out : Seq(Places), offset : Nat]
      BY <2>2, <2>3
    <3>2. partial' = [partial EXCEPT ![k] = next] \/ partial' = [partial EXCEPT ![k] = NoMessage]
      BY <2>1 DEF CopySegment
    <3>. HIDE DEF next
    <3>3. partial \in [Kinds -> [cont : BOOLEAN, out : Seq(Places), offset : Nat]]
      BY DEF ReceiveTyped
    <3>. QED
      BY <2>6, <3>1, <3>2, <3>3
  <2>8. received' \in [Kinds -> Seq(Seq(Places))]
    <3>1. received[k] \in Seq(Seq(Places)) /\ received \in [Kinds -> Seq(Seq(Places))]
      BY DEF ReceiveTyped
    <3>2. Append(received[k], Out(k, s)) \in Seq(Seq(Places))
      BY <2>2, <3>1
    <3>3. received' = received \/ received' = [received EXCEPT ![k] = Append(received[k], Out(k, s))]
      BY <2>1 DEF CopySegment
    <3>. QED
      BY <3>1, <3>2, <3>3
  <2>. QED
    BY <2>4, <2>5, <2>7, <2>8 DEF ReceiveTyped
<1>2. CASE UNCHANGED receiveVars
  BY <1>2 DEF receiveVars, ReceiveTyped
<1>. QED
  BY <1>1, <1>2
     DEF Next, Progress, CallerStep, SocketStep, TakeSegment, SendPart, ReadPart, EnqueueReceived,
         SendInterrupted, ReadInterrupted, vars, Serialize, SerializeStatic, SendPacket, Reserve,
         ReserveRead, ReserveWrite, EnqueueSegment

-----------------------------------------------------------------------------
(***************************************************************************)
(* What is carried from the send queues to the receive queues              *)
(***************************************************************************)
LEMMA CarriedIn ==
  /\ \A i \in 1..Len(failed) : failed[i] \in Carried
  /\ sending # Idle /\ sending.segment \in Segments => sending.segment \in Carried
  /\ \A i \in 1..Len(stream) : stream[i].segment \in Carried
  /\ \A i \in 1..Len(buffer) : buffer[i].segment \in Carried
  /\ \A k \in Kinds : recvQueue[k] \subseteq Carried
BY DEF Carried

LEMMA CarriedTyped ==
  ASSUME SocketTyped
  PROVE  Carried \subseteq Segments
<1>1. \A i \in 1..Len(failed) : failed[i] \in Segments
  BY DEF SocketTyped
<1>2. \A p \in Pieces : p.segment \in Segments
  BY DEF Pieces
<1>3. \A i \in 1..Len(stream) : stream[i].segment \in Segments
  <2>1. \A i \in 1..Len(stream) : stream[i] \in Pieces
    BY DEF SocketTyped
  <2>. QED
    BY <1>2, <2>1
<1>4. \A i \in 1..Len(buffer) : buffer[i].segment \in Segments
  <2>1. \A i \in 1..Len(buffer) : buffer[i] \in Pieces
    BY DEF SocketTyped
  <2>. QED
    BY <1>2, <2>1
<1>5. \A k \in Kinds : recvQueue[k] \subseteq Segments
  BY DEF SocketTyped
<1>. QED
  BY <1>1, <1>3, <1>4, <1>5 DEF Carried

\* Nothing but the segments taken from the send queue is new.
LEMMA CarriedGrows ==
  ASSUME CallersTyped, SocketTyped, [Next]_vars, NEW s \in Carried'
  PROVE  s \in Carried \/ (TakeSegment /\ failed = <<>> /\ s = sending'.segment)
<1>. USE CarriedIn
<1>0. \/ \E i \in 1..Len(failed') : s = failed'[i]
      \/ sending' # Idle /\ s = sending'.segment
      \/ \E i \in 1..Len(stream') : s = stream'[i].segment
      \/ \E i \in 1..Len(buffer') : s = buffer'[i].segment
      \/ \E k \in Kinds : s \in recvQueue'[k]
  BY DEF Carried
<1>a. sending # Idle => sending.segment \in Carried
  BY DEF SocketTyped
<1>1. CASE UNCHANGED <<socketVars, recvQueue>>
  BY <1>1 DEF Carried, socketVars
<1>2. CASE TakeSegment
  <2>1. UNCHANGED <<stream, buffer, recvQueue>>
    BY <1>2 DEF TakeSegment
  <2>2. CASE failed = <<>>
    <3>1. UNCHANGED failed
      BY <1>2, <2>2 DEF TakeSegment
    <3>. QED
      BY <1>2, <2>1, <2>2, <3>1 DEF Carried
  <2>3. CASE failed # <<>>
    <3>1. failed' = Tail(failed) /\ sending'.segment = Head(failed) /\ failed \in Seq(Segments)
      BY <1>2, <2>3 DEF TakeSegment, SocketTyped
    <3>2. /\ Head(failed) = failed[1] /\ 1 \in 1..Len(failed)
          /\ \A i \in 1..Len(failed') : failed'[i] = failed[i + 1] /\ i + 1 \in 1..Len(failed)
      BY <2>3, <3>1
    <3>3. Head(failed) \in Carried /\ \A i \in 1..Len(failed') : failed'[i] \in Carried
      BY <3>2
    <3>. QED
      BY <1>0, <2>1, <3>1, <3>3
  <2>. QED
    BY <2>2, <2>3
<1>3. CASE SendPart
  <2>1. UNCHANGED <<failed, buffer, recvQueue>> /\ sending # Idle
    BY <1>3 DEF SendPart
  <2>. DEFINE piece == [segment |-> sending.segment, part |-> sending.parts + 1]
  <2>2. stream' = Append(stream, piece) /\ stream \in Seq(Pieces)
    BY <1>3 DEF SendPart, SocketTyped
  <2>3. sending.segment \in Segments
    BY <2>1 DEF SocketTyped
  <2>4. sending.segment \in Carried
    BY <2>1, <2>3
  <2>5. \A i \in 1..Len(stream') : stream'[i] = piece \/ (i \in 1..Len(stream) /\ stream'[i] = stream[i])
    <3>. HIDE DEF piece
    <3>. QED
      BY <2>2
  <2>6. \A i \in 1..Len(stream') : stream'[i].segment \in Carried
    BY <2>4, <2>5
  <2>7. sending' # Idle => sending'.segment = sending.segment
    <3>1. sending \in [segment : Segments, parts : 0..Parts - 1]
      BY <2>1 DEF SocketTyped
    <3>. QED
      BY <1>3, <3>1 DEF SendPart
  <2>. QED
    BY <1>0, <2>1, <2>4, <2>6, <2>7
<1>4. CASE SendInterrupted
  <2>1. UNCHANGED <<stream, buffer, recvQueue>> /\ sending # Idle /\ sending' = Idle
    BY <1>4 DEF SendInterrupted
  <2>2. sending.segment \in Segments
    BY <2>1 DEF SocketTyped
  <2>3. failed' = Append(failed, sending.segment) /\ failed \in Seq(Segments)
    BY <1>4 DEF SendInterrupted, SocketTyped
  <2>4. \A i \in 1..Len(failed') : failed'[i] \in Carried
    <3>1. \A i \in 1..Len(failed') : failed'[i] = sending.segment \/ (i \in 1..Len(failed) /\ failed'[i] = failed[i])
      BY <2>3
    <3>. QED
      BY <2>1, <2>2, <3>1
  <2>. QED
    BY <1>0, <2>1, <2>4
<1>5. CASE ReadPart
  <2>1. UNCHANGED <<failed, sending, recvQueue>>
    BY <1>5 DEF ReadPart
  <2>2. /\ stream' = Tail(stream) /\ buffer' = Append(buffer, Head(stream))
        /\ stream \in Seq(Pieces) /\ buffer \in Seq(Pieces) /\ stream # <<>>
    BY <1>5 DEF ReadPart, SocketTyped
  <2>3. /\ Head(stream) = stream[1] /\ 1 \in 1..Len(stream)
        /\ \A i \in 1..Len(stream') : stream'[i] = stream[i + 1] /\ i + 1 \in 1..Len(stream)
    BY <2>2
  <2>4. \A i \in 1..Len(buffer') : buffer'[i] = Head(stream) \/ (i \in 1..Len(buffer) /\ buffer'[i] = buffer[i])
    BY <2>2
  <2>5. /\ \A i \in 1..Len(stream') : stream'[i].segment \in Carried
        /\ \A i \in 1..Len(buffer') : buffer'[i].segment \in Carried
    BY <2>3, <2>4
  <2>. QED
    BY <1>0, <1>a, <2>1, <2>5
<1>6. CASE ReadInterrupted
  <2>1. UNCHANGED <<failed, sending, stream, recvQueue>> /\ buffer' = <<>>
    BY <1>6 DEF ReadInterrupted
  <2>2. ~\E i \in 1..Len(buffer') : s = buffer'[i].segment
    BY <2>1
  <2>. QED
    BY <1>0, <1>a, <2>1, <2>2
<1>7. CASE EnqueueReceived
  <2>1. UNCHANGED <<failed, sending, stream>>
    BY <1>7 DEF EnqueueReceived
  <2>. DEFINE t == buffer[1].segment
  <2>2. t \in Carried /\ buffer \in Seq(Pieces)
    <3>1. 1 \in 1..Len(buffer)
      BY <1>7, Constants DEF EnqueueReceived
    <3>. QED
      BY <3>1 DEF SocketTyped
  <2>3. CASE UNCHANGED <<recvQueue, buffer>>
    BY <1>0, <1>a, <2>1, <2>3
  <2>4. CASE /\ recvQueue' = [recvQueue EXCEPT ![t.kind] = Enqueue(@, t)]
             /\ buffer' = <<>>
    <3>1. \A k \in Kinds : recvQueue'[k] \subseteq recvQueue[k] \cup {t}
      <4>. HIDE DEF t
      <4>1. recvQueue \in [Kinds -> SUBSET Segments]
        BY DEF SocketTyped
      <4>2. \A k \in Kinds : recvQueue'[k] = IF k = t.kind THEN Enqueue(recvQueue[k], t) ELSE recvQueue[k]
        BY <2>4, <4>1
      <4>. QED
        BY <4>2, Enqueued
    <3>2. ~\E i \in 1..Len(buffer') : s = buffer'[i].segment
      BY <2>4
    <3>. HIDE DEF t
    <3>3. \A k \in Kinds : recvQueue'[k] \subseteq Carried
      BY <2>2, <3>1
    <3>. QED
      BY <1>0, <1>a, <2>1, <3>2, <3>3
  <2>. QED
    BY <1>7, <2>3, <2>4 DEF EnqueueReceived
<1>. QED
  BY <1>1, <1>2, <1>3, <1>4, <1>5, <1>6, <1>7
     DEF Next, Progress, CallerStep, SocketStep, Reassemble, vars, Serialize, SerializeStatic,
         SendPacket, Reserve, ReserveRead, ReserveWrite, EnqueueSegment

LEMMA CarriedStep ==
  ASSUME CallersTyped, SocketTyped, ReceiveTyped, CarriedSound, [Next]_vars
  PROVE  CarriedSound'
<1>1. \A k \in Kinds : sendQueue[k] \subseteq sendQueue'[k]
  BY SendQueueTyped
<1>2. SocketTyped' /\ ReceiveTyped'
  BY SocketTypedStep, ReceiveTypedStep
<1>3. \A k \in Kinds : sent[k] <= sent'[k]
  <2>1. sent \in [Kinds -> Nat]
    BY DEF SocketTyped
  <2>2. CASE UNCHANGED sent
    BY <2>1, <2>2
  <2>3. CASE TakeSegment
    BY <2>1, <2>3 DEF TakeSegment
  <2>. QED
    BY <2>2, <2>3
       DEF Next, Progress, CallerStep, SocketStep, SendPart, ReadPart, EnqueueReceived, Reassemble,
           SendInterrupted, ReadInterrupted, vars, socketVars, Serialize, SerializeStatic,
           SendPacket, Reserve, ReserveRead, ReserveWrite, EnqueueSegment
<1>4. ASSUME NEW s \in Carried' PROVE Passed(s)'
  <2>1. CASE s \in Carried
    <3>1. s \in sendQueue[s.kind] /\ s.seqNo < sent[s.kind]
      BY <2>1 DEF CarriedSound, Passed
    <3>2. s \in Segments
      BY <2>1, CarriedTyped
    <3>3. s.kind \in Kinds /\ s.seqNo \in Nat
      BY <3>2 DEF Segments
    <3>4. sent[s.kind] \in Nat /\ sent'[s.kind] \in Nat
      BY <1>2, <3>3 DEF SocketTyped
    <3>. QED
      BY <1>1, <1>3, <3>1, <3>3, <3>4 DEF Passed
  <2>2. CASE TakeSegment /\ failed = <<>> /\ s = sending'.segment
    <3>1. PICK k \in Kinds : \E t \in sendQueue[k] :
              /\ t.seqNo = sent[k] /\ t \in Segments /\ t.kind = k
              /\ sending' = [segment |-> t, parts |-> 0]
              /\ sent' = [sent EXCEPT ![k] = @ + 1] /\ UNCHANGED failed
      BY <2>2, Takes
    <3>2. s \in sendQueue[k] /\ s.seqNo = sent[k] /\ s.kind = k
      BY <2>2, <3>1
    <3>3. sent[k] \in Nat /\ sent'[k] = sent[k] + 1
      BY <3>1 DEF SocketTyped
    <3>. QED
      BY <1>1, <3>2, <3>3 DEF Passed
  <2>. QED
    BY <2>1, <2>2, CarriedGrows
<1>5. ASSUME NEW k \in Kinds PROVE taken'[k] <= sent'[k]
  <2>1. taken[k] \in Nat /\ sent[k] \in Nat /\ sent'[k] \in Nat /\ taken[k] <= sent[k] /\ sent[k] <= sent'[k]
    BY <1>2, <1>3 DEF ReceiveTyped, SocketTyped, CarriedSound
  <2>2. CASE UNCHANGED taken
    BY <2>1, <2>2
  <2>3. ASSUME NEW l \in Kinds, Reassemble(l) PROVE taken'[k] <= sent'[k]
    <3>1. PICK s \in recvQueue[l] : CopySegment(l, s)
      BY <2>3, Reassembles
    <3>2. taken' = [taken EXCEPT ![l] = @ + 1] /\ s.seqNo = taken[l] /\ sent' = sent
      BY <3>1 DEF CopySegment, socketVars
    <3>3. s \in Carried /\ s.kind = l
      BY CarriedIn DEF SocketTyped
    <3>4. s.seqNo < sent[l]
      BY <3>3 DEF CarriedSound, Passed
    <3>5. taken \in [Kinds -> Nat] /\ sent \in [Kinds -> Nat]
      BY DEF ReceiveTyped, SocketTyped
    <3>. QED
      BY <2>1, <3>2, <3>4, <3>5
  <2>. QED
    BY <2>2, <2>3
       DEF Next, Progress, CallerStep, SocketStep, TakeSegment, SendPart, ReadPart, EnqueueReceived,
           SendInterrupted, ReadInterrupted, vars, receiveVars, Serialize, SerializeStatic,
           SendPacket, Reserve, ReserveRead, ReserveWrite, EnqueueSegment
<1>. QED
  BY <1>4, <1>5 DEF CarriedSound

-----------------------------------------------------------------------------
(***************************************************************************)
(* What the callers put into the send queues                               *)
(***************************************************************************)
\* The sound steps of the callers keep what was reserved.
Kept ==
  /\ \A c \in Callers, k \in Kinds :
       Reserved(c, k) => Reserved(c, k)' /\ Base(c)' = Base(c) /\ Cuts(c) <= Cuts(c)'
  /\ \A n \in Nat, k \in Kinds : Begins(n, k) => Begins(n, k)'

LEMMA ReservedKind ==
  \A c \in Callers : \A k \in Kinds : Reserved(c, k) => k = Kind[c] /\ Reserved(c, Kind[c])
BY DEF Reserved

\* Types of what the callers have reserved.
LEMMA BasesTyped ==
  ASSUME CutsSound, CallersTyped, NEW c \in Callers, NEW k \in Kinds, Reserved(c, k)
  PROVE  /\ k = Kind[c] /\ Base(c) \in Nat /\ Cuts(c) \in 0..NumSegments(c) /\ seqNo[c] = Base(c) + Cuts(c)
         /\ NumSegments(c) \in Nat \ {0} /\ After(c) = Base(c) + NumSegments(c)
         /\ After(c) <= nextSeqNo[k] /\ nextSeqNo[k] \in Nat /\ offset[c] = End(c, Cuts(c))
         /\ pc[c] = "enqueue" <=> Cuts(c) < NumSegments(c)
<1>1. k = Kind[c] /\ Reserved(c, Kind[c])
  BY DEF Reserved
<1>2. seqNo[c] \in Nat /\ nextSeqNo[k] \in Nat
  BY DEF CallersTyped
<1>3. /\ Cuts(c) \in 0..NumSegments(c) /\ offset[c] = End(c, Cuts(c))
      /\ pc[c] = "enqueue" <=> Cuts(c) < NumSegments(c)
      /\ Base(c) \in Nat /\ After(c) <= nextSeqNo[Kind[c]]
  BY <1>1 DEF CutsSound
<1>4. NumSegments(c) \in Nat \ {0}
  BY Ends
<1>5. seqNo[c] = Base(c) + Cuts(c)
  BY <1>2, <1>3, <1>4 DEF Base
<1>. QED
  BY <1>1, <1>2, <1>3, <1>4, <1>5 DEF After

\* A step that changes nothing of that.
LEMMA SendFrame ==
  ASSUME CallersTyped, CutsSound, NumbersSound,
         UNCHANGED <<offset, nextSeqNo>>,
         \A c \in Callers, k \in Kinds : Reserved(c, k)' <=> Reserved(c, k),
         \A c \in Callers, k \in Kinds :
           Reserved(c, k) => seqNo'[c] = seqNo[c] /\ (pc'[c] = "enqueue" <=> pc[c] = "enqueue")
  PROVE  CutsSound' /\ NumbersSound' /\ Kept
<1>1. \A c \in Callers, k \in Kinds : Reserved(c, k) =>
        Cuts(c)' = Cuts(c) /\ Base(c)' = Base(c) /\ After(c)' = After(c)
  BY DEF Cuts, Base, After
<1>2. \A n \in Nat, k \in Kinds : Begins(n, k)' <=> Begins(n, k)
  BY <1>1 DEF Begins
<1>3. CutsSound'
  BY <1>1, Constants DEF CutsSound
<1>4. NumbersSound'
  <2>1. ASSUME NEW k \in Kinds, NEW c \in Callers, Reserved(c, k)
        PROVE  Begins(After(c), k) /\ After(c) \in Nat
    BY <2>1, BasesTyped DEF NumbersSound
  <2>2. ASSUME NEW k \in Kinds, NEW c \in Callers, Reserved(c, k)
        PROVE  Begins(After(c), k)'
    <3>1. Begins(After(c), k) /\ After(c) \in Nat
      BY <2>1, <2>2
    <3>2. \A n \in Nat : n = After(c) => Begins(n, k)'
      BY <1>2, <3>1
    <3>. QED
      BY <1>1, <2>2, <3>1, <3>2 DEF Begins
  <2>. QED
    BY <1>1, <2>2 DEF NumbersSound
<1>5. Kept
  <2>1. ASSUME NEW c \in Callers, NEW k \in Kinds, Reserved(c, k)
        PROVE  Cuts(c) <= Cuts(c)'
    BY <1>1, <2>1, BasesTyped
  <2>. QED
    BY <1>1, <1>2, <2>1 DEF Kept
<1>. QED
  BY <1>3, <1>4, <1>5

\* get_next_seq_no(): the numbers after all others.
LEMMA ReserveFrame ==
  ASSUME CallersTyped, CutsSound, NumbersSound, NEW c \in Callers,
         pc[c] \in {"reserve", "write"}, pc' = [pc EXCEPT ![c] = "enqueue"],
         seqNo' = [seqNo EXCEPT ![c] = nextSeqNo[Kind[c]]],
         nextSeqNo' = [nextSeqNo EXCEPT ![Kind[c]] = nextSeqNo[Kind[c]] + NumSegments(c)],
         UNCHANGED offset
  PROVE  CutsSound' /\ NumbersSound' /\ Kept
         /\ \A k \in Kinds : nextSeqNo[k] <= nextSeqNo'[k]
<1>. DEFINE kind == Kind[c]
<1>1. /\ kind \in Kinds /\ NumSegments(c) \in Nat \ {0} /\ offset[c] = 0 /\ nextSeqNo \in [Kinds -> Nat]
      /\ seqNo \in [Callers -> Nat]
      /\ pc \in [Callers -> {"send", "packet", "reserve", "write", "enqueue", "sent", "threw"}]
  BY Constants, Ends DEF CallersTyped
<1>2. /\ \A d \in Callers \ {c} : pc'[d] = pc[d] /\ seqNo'[d] = seqNo[d] /\ offset'[d] = offset[d]
      /\ pc[c] \notin {"enqueue", "sent"} /\ pc'[c] = "enqueue" /\ seqNo'[c] = nextSeqNo[kind]
      /\ nextSeqNo'[kind] = nextSeqNo[kind] + NumSegments(c)
      /\ \A k \in Kinds \ {kind} : nextSeqNo'[k] = nextSeqNo[k]
  BY <1>1
<1>3. /\ \A d \in Callers \ {c} : /\ Cuts(d)' = Cuts(d) /\ Base(d)' = Base(d) /\ After(d)' = After(d)
                                  /\ \A k \in Kinds : Reserved(d, k)' <=> Reserved(d, k)
      /\ \A k \in Kinds : Reserved(c, k)' <=> k = kind
      /\ \A k \in Kinds : ~Reserved(c, k)
  BY <1>2 DEF Cuts, Base, After, Reserved
<1>4. Cuts(c)' = 0 /\ Base(c)' = nextSeqNo[kind] /\ After(c)' = nextSeqNo'[kind]
  <2>1. 0 \in 0..NumSegments(c) /\ offset'[c] = End(c, 0)
    BY <1>1, Ends
  <2>2. Cuts(c)' = 0
    BY <2>1, CutsAt DEF Cuts
  <2>3. Base(c)' = nextSeqNo[kind]
    BY <1>1, <1>2, <2>2 DEF Base
  <2>. QED
    BY <1>2, <2>2, <2>3 DEF After
<1>5. \A d \in Callers, k \in Kinds : Reserved(d, k) =>
        /\ d # c /\ Base(d) \in Nat /\ After(d) \in Nat /\ After(d) <= nextSeqNo[k] /\ Cuts(d) \in Nat
        /\ Base(d) < After(d)
  BY <1>3, BasesTyped
<1>6. \A n \in Nat, k \in Kinds : Begins(n, k) => Begins(n, k)'
  <2>1. SUFFICES ASSUME NEW n \in Nat, NEW k \in Kinds, Begins(n, k) PROVE Begins(n, k)'
    OBVIOUS
  <2>2. CASE n = nextSeqNo[k] /\ k = kind
    <3>1. Reserved(c, k)' /\ Base(c)' = n
      BY <1>3, <1>4, <2>2
    <3>. QED
      BY <3>1 DEF Begins
  <2>3. CASE n = nextSeqNo[k] /\ k # kind
    BY <1>2, <2>3 DEF Begins
  <2>4. CASE \E d \in Callers : Reserved(d, k) /\ Base(d) = n
    <3>1. PICK d \in Callers : Reserved(d, k) /\ Base(d) = n
      BY <2>4
    <3>2. Reserved(d, k)' /\ Base(d)' = n
      BY <1>3, <3>1
    <3>. QED
      BY <3>2 DEF Begins
  <2>. QED
    BY <2>1, <2>2, <2>3, <2>4 DEF Begins
<1>7. \A k \in Kinds : nextSeqNo[k] <= nextSeqNo'[k]
  BY <1>1, <1>2
<1>8. CutsSound'
  <2>1. SUFFICES ASSUME NEW d \in Callers, Reserved(d, Kind[d])'
                 PROVE  /\ Cuts(d)' \in 0..NumSegments(d) /\ offset'[d] = End(d, Cuts(d)')
                        /\ pc'[d] = "enqueue" <=> Cuts(d)' < NumSegments(d)
                        /\ Base(d)' \in Nat /\ After(d)' <= nextSeqNo'[Kind[d]]
    BY DEF CutsSound
  <2>2. CASE d = c
    BY <1>1, <1>2, <1>4, <2>2, Ends
  <2>3. CASE d # c
    <3>1. Kind[d] \in Kinds
      BY Constants
    <3>2. Reserved(d, Kind[d])
      BY <1>3, <2>1, <2>3, <3>1
    <3>3. nextSeqNo[Kind[d]] <= nextSeqNo'[Kind[d]] /\ nextSeqNo[Kind[d]] \in Nat /\ nextSeqNo'[Kind[d]] \in Nat
          /\ After(d) \in Nat
      BY <1>1, <1>2, <1>5, <1>7, <3>1, <3>2
    <3>4. /\ Cuts(d) \in 0..NumSegments(d) /\ offset[d] = End(d, Cuts(d))
          /\ pc[d] = "enqueue" <=> Cuts(d) < NumSegments(d)
          /\ Base(d) \in Nat /\ After(d) <= nextSeqNo[Kind[d]]
      BY <3>2 DEF CutsSound
    <3>5. After(d)' <= nextSeqNo'[Kind[d]]
      BY <1>3, <2>3, <3>3, <3>4
    <3>. QED
      BY <1>2, <1>3, <2>3, <3>4, <3>5
  <2>. QED
    BY <2>2, <2>3
<1>9. NumbersSound'
  <2>1. SUFFICES ASSUME NEW k \in Kinds, NEW d \in Callers, Reserved(d, k)'
                 PROVE  /\ Begins(After(d), k)'
                        /\ \A e \in Callers : Reserved(e, k)' /\ d # e =>
                             After(d)' <= Base(e)' \/ After(e)' <= Base(d)'
    BY DEF NumbersSound
  <2>2. Begins(After(d), k)'
    <3>1. CASE d = c
      BY <1>3, <1>4, <2>1, <3>1 DEF Begins
    <3>2. CASE d # c
      <4>1. Reserved(d, k)
        BY <1>3, <2>1, <3>2
      <4>2. Begins(After(d), k) /\ After(d) \in Nat
        BY <1>5, <4>1 DEF NumbersSound
      <4>3. \A n \in Nat : n = After(d) => Begins(n, k)'
        BY <1>6, <4>2
      <4>. QED
        BY <1>3, <3>2, <4>2, <4>3 DEF Begins
    <3>. QED
      BY <3>1, <3>2
  <2>3. ASSUME NEW e \in Callers, Reserved(e, k)', d # e
        PROVE  After(d)' <= Base(e)' \/ After(e)' <= Base(d)'
    <3>1. CASE d = c
      <4>1. Reserved(e, k) /\ k = kind
        BY <1>3, <2>1, <2>3, <3>1
      <4>. QED
        BY <1>3, <1>4, <1>5, <2>3, <3>1, <4>1
    <3>2. CASE e = c
      <4>1. Reserved(d, k) /\ k = kind
        BY <1>3, <2>1, <2>3, <3>2
      <4>. QED
        BY <1>3, <1>4, <1>5, <2>3, <3>2, <4>1
    <3>3. CASE d # c /\ e # c
      <4>1. Reserved(d, k) /\ Reserved(e, k)
        BY <1>3, <2>1, <2>3, <3>3
      <4>. QED
        BY <1>3, <2>3, <3>3, <4>1 DEF NumbersSound
    <3>. QED
      BY <3>1, <3>2, <3>3
  <2>. QED
    BY <2>2, <2>3
<1>10. Kept
  <2>1. ASSUME NEW d \in Callers, NEW k \in Kinds, Reserved(d, k)
        PROVE  Reserved(d, k)' /\ Base(d)' = Base(d) /\ Cuts(d) <= Cuts(d)'
    BY <1>3, <1>5, <2>1
  <2>. QED
    BY <1>6, <2>1 DEF Kept
<1>. QED
  BY <1>7, <1>8, <1>9, <1>10

\* The segments in the queues stay those of their callers.
LEMMA QueueKept ==
  ASSUME CallersTyped, CallersTyped', CutsSound, CutsSound', QueueSound, Kept,
         NEW k \in Kinds, NEW s \in sendQueue[k]
  PROVE  \E c \in Callers : Reserved(c, k)' /\ \E j \in 0..Cuts(c)' - 1 : s = Segment(c, j)'
<1>1. PICK c \in Callers : Reserved(c, k) /\ \E j \in 0..Cuts(c) - 1 : s = Segment(c, j)
  BY DEF QueueSound
<1>2. PICK j \in 0..Cuts(c) - 1 : s = Segment(c, j)
  BY <1>1
<1>3. Reserved(c, k)' /\ Base(c)' = Base(c) /\ Cuts(c) <= Cuts(c)'
  BY <1>1 DEF Kept
<1>4. Segment(c, j)' = Segment(c, j)
  BY <1>3 DEF Segment
<1>5. Cuts(c) \in Nat
  BY <1>1, BasesTyped
<1>6. Cuts(c)' \in Nat
  <2>1. Reserved(c, Kind[c])'
    BY <1>3 DEF Reserved
  <2>2. Cuts(c)' \in 0..NumSegments(c) /\ NumSegments(c) \in Nat
    BY <2>1, Ends DEF CutsSound
  <2>. QED
    BY <2>2
<1>7. j \in 0..Cuts(c)' - 1
  BY <1>3, <1>5, <1>6
<1>. QED
  BY <1>2, <1>3, <1>4, <1>7

\* A segment in a send queue and its number.
LEMMA InQueue ==
  ASSUME CallersTyped, CutsSound, QueueSound, NEW k \in Kinds, NEW s \in sendQueue[k]
  PROVE  \E c \in Callers : \E j \in 0..NumSegments(c) - 1 :
           /\ Reserved(c, k) /\ s = Segment(c, j) /\ s.seqNo = Base(c) + j
           /\ s.mf = (j + 1 < NumSegments(c))
           /\ s.data = SubSeq(Packet(c), End(c, j) + 1, End(c, j + 1))
           /\ s.seqNo < nextSeqNo[k] /\ s.seqNo \in Nat
<1>1. PICK c \in Callers : Reserved(c, k) /\ \E j \in 0..Cuts(c) - 1 : s = Segment(c, j)
  BY DEF QueueSound
<1>2. PICK j \in 0..Cuts(c) - 1 : s = Segment(c, j)
  BY <1>1
<1>3. /\ Base(c) \in Nat /\ Cuts(c) \in 0..NumSegments(c) /\ NumSegments(c) \in Nat
      /\ After(c) = Base(c) + NumSegments(c) /\ After(c) <= nextSeqNo[k] /\ nextSeqNo[k] \in Nat
  BY <1>1, BasesTyped
<1>4. j \in 0..NumSegments(c) - 1
  BY <1>3
<1>5. /\ s.seqNo = Base(c) + j /\ s.mf = (j + 1 < NumSegments(c))
      /\ s.data = SubSeq(Packet(c), End(c, j) + 1, End(c, j + 1))
  BY <1>2 DEF Segment
<1>6. s.seqNo < nextSeqNo[k] /\ s.seqNo \in Nat
  BY <1>3, <1>4, <1>5
<1>. QED
  BY <1>1, <1>2, <1>4, <1>5, <1>6

\* A segment that is cut off is the next one of its packet.
LEMMA CutSound ==
  ASSUME CallersTyped, SendSound, NEW c \in Callers, EnqueueSegment(c)
  PROVE  /\ ~(offset[c] + SegLen(c) > Len(vector[c])) /\ Reserved(c, Kind[c])
         /\ Cuts(c) \in 0..NumSegments(c) - 1 /\ offset[c] + SegLen(c) = End(c, Cuts(c) + 1)
         /\ offset[c] + SegLen(c) < PacketSize(c) <=> Cuts(c) + 1 < NumSegments(c)
         /\ Cut(c) = Segment(c, Cuts(c))
<1>. DEFINE j == Cuts(c)
            end == offset[c] + SegLen(c)
<1>1. pc[c] = "enqueue" /\ Reserved(c, Kind[c]) /\ Kind[c] \in Kinds
  BY Constants DEF EnqueueSegment, Reserved
<1>2. vector[c] = Packet(c) /\ Len(vector[c]) = PacketSize(c)
  BY <1>1, Packets DEF SendSound, PacketsSound
<1>3. /\ j \in 0..NumSegments(c) /\ j < NumSegments(c) /\ offset[c] = End(c, j)
      /\ NumSegments(c) \in Nat /\ seqNo[c] = Base(c) + j
  BY <1>1, BasesTyped DEF SendSound
<1>4. end \in Nat /\ end <= PacketSize(c) /\ PacketSize(c) \in Nat /\ offset[c] \in Nat
  BY <1>1, NextCut, Sizes
<1>. HIDE DEF j
<1>5. j \in 0..NumSegments(c) - 1 /\ j + 1 \in 0..NumSegments(c) /\ NumSegments(c) \in 0..NumSegments(c)
  BY <1>3
<1>6. end = End(c, j + 1)
  <2>1. End(c, j + 1) = IF PacketSize(c) - End(c, j) < SegSize THEN PacketSize(c)
                        ELSE End(c, j) + SegSize
    BY <1>5, Ends
  <2>. QED
    BY <1>3, <1>4, <2>1 DEF SegLen
<1>. HIDE DEF end
<1>7. end < PacketSize(c) <=> j + 1 < NumSegments(c)
  <2>1. j + 1 = NumSegments(c) => End(c, j + 1) = PacketSize(c)
    BY Ends
  <2>2. j + 1 < NumSegments(c) => End(c, j + 1) < PacketSize(c)
    <3>1. j + 1 < NumSegments(c) => End(c, j + 1) < End(c, NumSegments(c))
      BY <1>5, Ends
    <3>. QED
      BY <3>1, Ends
  <2>. QED
    BY <1>4, <1>5, <1>6, <2>1, <2>2
<1>8. Cut(c) = Segment(c, j)
  <2>1. Cut(c) = [seqNo |-> Base(c) + j, kind |-> Kind[c], mf |-> end < PacketSize(c),
                  data |-> SubSeq(Packet(c), End(c, j) + 1, End(c, j + 1))]
    BY <1>2, <1>3, <1>6 DEF Cut, end
  <2>2. (end < PacketSize(c)) = (j + 1 < NumSegments(c))
    BY <1>7
  <2>. QED
    BY <2>1, <2>2 DEF Segment
<1>9. ~(end > Len(vector[c]))
  BY <1>2, <1>4
<1>. QED
  BY <1>1, <1>5, <1>6, <1>7, <1>8, <1>9 DEF end, j

LEMMA EnqueueStep ==
  ASSUME CallersTyped, CallersTyped', SocketTyped, SendSound, NEW c \in Callers, EnqueueSegment(c)
  PROVE  SendSound' /\ Kept
<1>0. PICK j \in 0..NumSegments(c) - 1 : j = Cuts(c)
  BY CutSound
<1>1. /\ Reserved(c, Kind[c]) /\ j \in 0..NumSegments(c) - 1 /\ Cut(c) = Segment(c, j)
      /\ ~(offset[c] + SegLen(c) > Len(vector[c])) /\ offset[c] + SegLen(c) = End(c, j + 1)
      /\ offset[c] + SegLen(c) < PacketSize(c) <=> j + 1 < NumSegments(c)
  BY <1>0, CutSound
<1>2. /\ UNCHANGED <<sender, static, vector, nextSeqNo, overlapped>> /\ pc[c] = "enqueue"
      /\ sendQueue' = [sendQueue EXCEPT ![Kind[c]] = Enqueue(@, Cut(c))]
      /\ seqNo' = [seqNo EXCEPT ![c] = @ + 1] /\ offset' = [offset EXCEPT ![c] = End(c, j + 1)]
      /\ pc' = [pc EXCEPT ![c] = IF j + 1 < NumSegments(c) THEN "enqueue" ELSE "sent"]
      /\ sent' = sent
  <2>1. UNCHANGED socketVars => sent' = sent
    BY DEF socketVars
  <2>. QED
    BY <1>1, <2>1, Enqueues
<1>3. /\ Base(c) \in Nat /\ NumSegments(c) \in Nat \ {0} /\ seqNo[c] = Base(c) + j /\ Kind[c] \in Kinds
  BY <1>0, <1>1, BasesTyped, Constants DEF SendSound
<1>4. /\ seqNo \in [Callers -> Nat] /\ offset \in [Callers -> Nat]
      /\ pc \in [Callers -> {"send", "packet", "reserve", "write", "enqueue", "sent", "threw"}]
  BY DEF CallersTyped
<1>5. \A d \in Callers \ {c} : pc'[d] = pc[d] /\ seqNo'[d] = seqNo[d] /\ offset'[d] = offset[d]
  BY <1>2, <1>4
<1>6. Cuts(c)' = j + 1 /\ Base(c)' = Base(c)
  <2>1. j + 1 \in 0..NumSegments(c) /\ offset'[c] = End(c, j + 1) /\ seqNo'[c] = seqNo[c] + 1
    BY <1>1, <1>2, <1>3, <1>4
  <2>2. Cuts(c)' = j + 1
    BY <2>1, CutsAt DEF Cuts
  <2>3. Base(c)' = seqNo'[c] - Cuts(c)'
    BY DEF Base
  <2>. QED
    BY <1>1, <1>3, <2>1, <2>2, <2>3
<1>7. \A d \in Callers : Base(d)' = Base(d) /\ After(d)' = After(d)
  BY <1>5, <1>6 DEF Base, After, Cuts
<1>8. \A d \in Callers, k \in Kinds : Reserved(d, k)' <=> Reserved(d, k)
  <2>1. pc'[c] \in {"enqueue", "sent"}
    BY <1>2, <1>4
  <2>. QED
    BY <1>2, <1>5, <2>1 DEF Reserved
<1>9. \A n \in Nat, k \in Kinds : Begins(n, k)' <=> Begins(n, k)
  BY <1>2, <1>7, <1>8 DEF Begins
<1>10. Kept
  <2>1. ASSUME NEW d \in Callers, NEW k \in Kinds, Reserved(d, k) PROVE Cuts(d) <= Cuts(d)'
    <3>1. Cuts(d) \in Nat
      BY <2>1, BasesTyped DEF SendSound
    <3>2. CASE d = c
      BY <1>0, <1>6, <3>1, <3>2
    <3>3. CASE d # c
      BY <1>5, <3>1, <3>3 DEF Cuts
    <3>. QED
      BY <3>2, <3>3
  <2>. QED
    BY <1>7, <1>8, <1>9, <2>1 DEF Kept
<1>11. CutsSound'
  <2>1. SUFFICES ASSUME NEW d \in Callers, Reserved(d, Kind[d])'
                 PROVE  /\ Cuts(d)' \in 0..NumSegments(d) /\ offset'[d] = End(d, Cuts(d)')
                        /\ pc'[d] = "enqueue" <=> Cuts(d)' < NumSegments(d)
                        /\ Base(d)' \in Nat /\ After(d)' <= nextSeqNo'[Kind[d]]
    BY DEF CutsSound
  <2>2. Reserved(d, Kind[d])
    BY <1>8, <2>1, Constants
  <2>3. /\ Cuts(d) \in 0..NumSegments(d) /\ offset[d] = End(d, Cuts(d))
        /\ pc[d] = "enqueue" <=> Cuts(d) < NumSegments(d)
        /\ Base(d) \in Nat /\ After(d) <= nextSeqNo[Kind[d]]
    BY <2>2 DEF SendSound, CutsSound
  <2>4. Base(d)' \in Nat /\ After(d)' <= nextSeqNo'[Kind[d]]
    BY <1>2, <1>7, <2>3
  <2>5. CASE d = c
    <3>1. j + 1 \in 0..NumSegments(c)
      BY <1>1, <1>3
    <3>2. pc'[c] = "enqueue" <=> j + 1 < NumSegments(c)
      BY <1>2, <1>4
    <3>3. offset'[c] = End(c, j + 1)
      BY <1>2, <1>4
    <3>. QED
      BY <1>6, <2>4, <2>5, <3>1, <3>2, <3>3
  <2>6. CASE d # c
    <3>1. Cuts(d)' = Cuts(d)
      BY <1>5, <2>6 DEF Cuts
    <3>. QED
      BY <1>5, <2>3, <2>4, <2>6, <3>1
  <2>. QED
    BY <2>5, <2>6
<1>12. NumbersSound'
  <2>1. ASSUME NEW k \in Kinds, NEW d \in Callers, Reserved(d, k)'
        PROVE  Begins(After(d), k)'
    <3>1. Begins(After(d), k) /\ After(d) \in Nat
      BY <1>8, <2>1, BasesTyped DEF SendSound, NumbersSound
    <3>2. \A n \in Nat : n = After(d) => Begins(n, k)'
      BY <1>9, <3>1
    <3>. QED
      BY <1>7, <3>1, <3>2 DEF Begins
  <2>. QED
    BY <1>7, <1>8, <2>1 DEF SendSound, NumbersSound
<1>13. QueueSound'
  <2>1. ASSUME NEW k \in Kinds PROVE sent'[k] <= nextSeqNo'[k]
    BY <1>2 DEF SendSound, QueueSound
  <2>2. ASSUME NEW k \in Kinds, NEW s \in sendQueue'[k]
        PROVE  \E d \in Callers : Reserved(d, k)' /\ \E i \in 0..Cuts(d)' - 1 : s = Segment(d, i)'
    <3>1. s \in sendQueue[k] \/ (k = Kind[c] /\ s = Segment(c, j))
      <4>1. sendQueue \in [Kinds -> SUBSET Segments]
        BY DEF SocketTyped
      <4>2. sendQueue'[k] = IF k = Kind[c] THEN Enqueue(sendQueue[k], Cut(c)) ELSE sendQueue[k]
        BY <1>2, <4>1
      <4>. QED
        BY <1>1, <2>2, <4>2, Enqueued
    <3>2. CASE s \in sendQueue[k]
      BY <1>10, <1>11, <3>2, QueueKept DEF SendSound
    <3>3. CASE k = Kind[c] /\ s = Segment(c, j)
      <4>1. Reserved(c, k)' /\ Segment(c, j)' = Segment(c, j)
        BY <1>1, <1>7, <1>8, <3>3 DEF Segment
      <4>2. j \in 0..Cuts(c)' - 1
        BY <1>1, <1>3, <1>6
      <4>. QED
        BY <3>3, <4>1, <4>2
    <3>. QED
      BY <3>1, <3>2, <3>3
  <2>. QED
    BY <2>1, <2>2 DEF QueueSound
<1>14. PacketsSound'
  <2>1. pc'[c] \in {"enqueue", "sent"}
    BY <1>2, <1>4
  <2>2. \A d \in Callers : Active(d)' => Active(d)
    BY <1>2, <1>5 DEF Active
  <2>. QED
    BY <1>2, <1>5, <2>1, <2>2 DEF SendSound, PacketsSound
<1>. QED
  BY <1>10, <1>11, <1>12, <1>13, <1>14 DEF SendSound

\* Only the sender thread takes from the send queues, and only callers add.
LEMMA SendStep ==
  ASSUME CallersTyped, SocketTyped, SendSound, [Next]_vars, ~overlapped'
  PROVE  SendSound' /\ Kept
<1>1. CallersTyped' /\ SocketTyped'
  BY CallersTypedStep, SocketTypedStep
<1>2. nextSeqNo \in [Kinds -> Nat] /\ sent \in [Kinds -> Nat]
  BY DEF CallersTyped, SocketTyped
<1>. DEFINE Pcs == {"send", "packet", "reserve", "write", "enqueue", "sent", "threw"}
<1>3. pc \in [Callers -> Pcs] /\ vector \in [Callers -> Vectors]
      /\ seqNo \in [Callers -> Nat]
  BY DEF CallersTyped
<1>3a. seqNo' = seqNo => \A c \in Callers : seqNo' = [seqNo EXCEPT ![c] = seqNo'[c]]
  BY <1>3
\* A caller that changes no number but its own, and reserves none.
<1>4. ASSUME NEW c \in Callers, NEW label \in Pcs, pc' = [pc EXCEPT ![c] = label],
             pc[c] \notin {"enqueue", "sent"}, label \notin {"enqueue", "sent"},
             seqNo' = [seqNo EXCEPT ![c] = seqNo'[c]],
             UNCHANGED <<offset, nextSeqNo, sendQueue, sent>>, PacketsSound'
      PROVE  SendSound' /\ Kept
  <2>1. \A d \in Callers : pc'[d] = IF d = c THEN label ELSE pc[d]
    BY <1>3, <1>4
  <2>2. \A d \in Callers, k \in Kinds : Reserved(d, k)' <=> Reserved(d, k)
    BY <1>4, <2>1 DEF Reserved
  <2>3. \A d \in Callers, k \in Kinds :
          Reserved(d, k) => seqNo'[d] = seqNo[d] /\ (pc'[d] = "enqueue" <=> pc[d] = "enqueue")
    <3>1. \A d \in Callers \ {c} : seqNo'[d] = seqNo[d]
      BY <1>3, <1>4
    <3>. QED
      BY <1>4, <2>1, <3>1 DEF Reserved
  <2>4. CutsSound' /\ NumbersSound' /\ Kept
    BY <1>4, <2>2, <2>3, SendFrame DEF SendSound
  <2>5. QueueSound'
    BY <1>1, <1>4, <2>4, QueueKept DEF SendSound, QueueSound
  <2>. QED
    BY <1>4, <2>4, <2>5 DEF SendSound
\* A caller that reserves its numbers.
<1>5. ASSUME NEW c \in Callers, pc[c] \in {"reserve", "write"}, pc' = [pc EXCEPT ![c] = "enqueue"],
             seqNo' = [seqNo EXCEPT ![c] = nextSeqNo[Kind[c]]],
             nextSeqNo' = [nextSeqNo EXCEPT ![Kind[c]] = nextSeqNo[Kind[c]] + NumSegments(c)],
             UNCHANGED <<sender, static, vector, offset, sendQueue, sent>>
      PROVE  SendSound' /\ Kept
  <2>1. /\ CutsSound' /\ NumbersSound' /\ Kept /\ \A k \in Kinds : nextSeqNo[k] <= nextSeqNo'[k]
    BY <1>5, ReserveFrame DEF SendSound
  <2>2. \A k \in Kinds : sent'[k] <= nextSeqNo'[k]
    <3>1. nextSeqNo' \in [Kinds -> Nat]
      BY <1>1 DEF CallersTyped
    <3>. QED
      BY <1>2, <1>5, <2>1, <3>1 DEF SendSound, QueueSound
  <2>3. QueueSound'
    BY <1>1, <1>5, <2>1, <2>2, QueueKept DEF SendSound, QueueSound
  <2>4. PacketsSound'
    <3>1. \A d \in Callers : pc'[d] = IF d = c THEN "enqueue" ELSE pc[d]
      BY <1>3, <1>5
    <3>2. \A d \in Callers : Active(d)' <=> Active(d)
      BY <1>5, <3>1 DEF Active
    <3>3. \A d \in Callers : pc[d] = "write" => sender = "android" /\ Active(d)
      BY DEF SendSound, PacketsSound, Active
    <3>4. Active(c)
      BY <1>5 DEF Active
    <3>5. \A d \in Callers : d # c => pc[d] # "write"
      BY <3>3, <3>4 DEF SendSound, PacketsSound
    <3>. QED
      BY <1>5, <3>1, <3>2, <3>5 DEF SendSound, PacketsSound
  <2>. QED
    BY <2>1, <2>3, <2>4 DEF SendSound
<1>6. ASSUME UNCHANGED <<sender, sendVars, sendQueue>>, NEW k \in Kinds,
             sent' = sent \/ (sent' = [sent EXCEPT ![k] = @ + 1] /\ \E s \in sendQueue[k] : s.seqNo = sent[k])
      PROVE  SendSound' /\ Kept
  <2>1. UNCHANGED <<pc, static, vector, seqNo, offset, nextSeqNo>>
    BY <1>6 DEF sendVars
  <2>2. CutsSound' /\ NumbersSound' /\ Kept
    BY <2>1, SendFrame DEF SendSound, Reserved
  <2>3. PacketsSound'
    BY <1>6, <2>1 DEF SendSound, PacketsSound, Active
  <2>4. \A l \in Kinds : sent'[l] <= nextSeqNo'[l]
    <3>1. \A l \in Kinds : sent[l] <= nextSeqNo[l]
      BY DEF SendSound, QueueSound
    <3>2. CASE sent' = sent
      BY <2>1, <3>1, <3>2
    <3>3. CASE sent' = [sent EXCEPT ![k] = @ + 1] /\ \E s \in sendQueue[k] : s.seqNo = sent[k]
      <4>1. sent[k] < nextSeqNo[k]
        BY <3>3, InQueue DEF SendSound
      <4>. QED
        BY <1>2, <2>1, <3>1, <3>3, <4>1
    <3>. QED
      BY <1>6, <3>2, <3>3
  <2>5. QueueSound'
    BY <1>1, <1>6, <2>2, <2>4, QueueKept DEF SendSound, QueueSound
  <2>. QED
    BY <2>2, <2>3, <2>5 DEF SendSound
<1>7. ASSUME NEW c \in Callers, Serialize(c) PROVE SendSound' /\ Kept
  <2>1. /\ pc[c] = "send" /\ pc' = [pc EXCEPT ![c] = "reserve"] /\ sender = "linux"
        /\ vector' = [vector EXCEPT ![c] = Packet(c)]
        /\ UNCHANGED <<sender, static, seqNo, offset, nextSeqNo, sendQueue, sent>>
    BY <1>7 DEF Serialize, Go, socketVars
  <2>2. PacketsSound'
    BY <1>3, <2>1 DEF SendSound, PacketsSound
  <2>. QED
    BY <1>3a, <1>4, <2>1, <2>2
<1>8. ASSUME NEW c \in Callers, SerializeStatic(c) PROVE SendSound' /\ Kept
  <2>1. /\ pc[c] = "send" /\ pc' = [pc EXCEPT ![c] = "packet"] /\ sender = "android"
        /\ static' = Packet(c) /\ \A d \in Callers \ {c} : pc[d] \in {"send", "sent", "threw"}
        /\ UNCHANGED <<sender, vector, seqNo, offset, nextSeqNo, sendQueue, sent>>
    BY <1>8 DEF SerializeStatic, Go, socketVars
  <2>2. \A d \in Callers \ {c} : ~Active(d)'
    BY <1>3, <2>1 DEF Active
  <2>3. PacketsSound'
    BY <1>3, <2>1, <2>2 DEF SendSound, PacketsSound
  <2>. QED
    BY <1>3a, <1>4, <2>1, <2>3
<1>9. ASSUME NEW c \in Callers, SendPacket(c) PROVE SendSound' /\ Kept
  <2>1. /\ pc[c] = "packet" /\ pc' = [pc EXCEPT ![c] = "reserve"]
        /\ vector' = [vector EXCEPT ![c] = static]
        /\ UNCHANGED <<sender, static, seqNo, offset, nextSeqNo, sendQueue, sent>>
    BY <1>9 DEF SendPacket, Go, socketVars
  <2>2. \A d \in Callers : Active(d)' <=> Active(d)
    BY <1>3, <2>1 DEF Active
  <2>3. PacketsSound'
    BY <1>3, <2>1, <2>2 DEF SendSound, PacketsSound
  <2>. QED
    BY <1>3a, <1>4, <2>1, <2>3
<1>10. ASSUME NEW c \in Callers, Reserve(c) PROVE SendSound' /\ Kept
  <2>1. /\ pc[c] \in {"reserve", "write"} /\ pc' = [pc EXCEPT ![c] = "enqueue"]
        /\ seqNo' = [seqNo EXCEPT ![c] = nextSeqNo[Kind[c]]]
        /\ nextSeqNo' = [nextSeqNo EXCEPT ![Kind[c]] = nextSeqNo[Kind[c]] + NumSegments(c)]
        /\ UNCHANGED <<sender, static, vector, offset, sendQueue, sent>>
    BY <1>10 DEF Reserve, Go, socketVars
  <2>. QED
    BY <1>5, <2>1
<1>11. ASSUME NEW c \in Callers, ReserveRead(c) PROVE SendSound' /\ Kept
  <2>1. /\ pc[c] = "reserve" /\ pc' = [pc EXCEPT ![c] = "write"] /\ sender = "android"
        /\ seqNo' = [seqNo EXCEPT ![c] = nextSeqNo[Kind[c]]]
        /\ UNCHANGED <<sender, static, vector, offset, nextSeqNo, sendQueue, sent>>
    BY <1>11 DEF ReserveRead, Go, socketVars
  <2>2. seqNo'[c] = nextSeqNo[Kind[c]]
    BY <1>3, <2>1
  <2>3. seqNo' = [seqNo EXCEPT ![c] = seqNo'[c]]
    BY <2>1, <2>2
  <2>4. \A d \in Callers : Active(d)' <=> Active(d)
    BY <1>3, <2>1 DEF Active
  <2>5. Active(c) /\ \A d \in Callers : pc[d] = "write" => Active(d)
    BY <2>1 DEF Active
  <2>6. \A d \in Callers : pc'[d] = "write" => d = c
    BY <1>3, <2>1, <2>5 DEF SendSound, PacketsSound
  <2>7. PacketsSound'
    BY <1>3, <2>1, <2>2, <2>4, <2>6 DEF SendSound, PacketsSound
  <2>. QED
    BY <1>4, <2>1, <2>3, <2>7
<1>12. ASSUME NEW c \in Callers, ReserveWrite(c) PROVE SendSound' /\ Kept
  <2>1. /\ pc[c] = "write" /\ pc' = [pc EXCEPT ![c] = "enqueue"] /\ seqNo' = seqNo
        /\ nextSeqNo' = [nextSeqNo EXCEPT ![Kind[c]] = nextSeqNo[Kind[c]] + NumSegments(c)]
        /\ UNCHANGED <<sender, static, vector, offset, sendQueue, sent>>
    BY <1>12 DEF ReserveWrite, Go, socketVars
  <2>2. seqNo[c] = nextSeqNo[Kind[c]]
    BY <2>1 DEF SendSound, PacketsSound
  <2>5. nextSeqNo' = [nextSeqNo EXCEPT ![Kind[c]] = seqNo[c] + NumSegments(c)]
    BY <2>1, <2>2
  <2>3. seqNo \in [Callers -> Nat]
    BY DEF CallersTyped
  <2>4. seqNo' = [seqNo EXCEPT ![c] = nextSeqNo[Kind[c]]]
    BY <2>1, <2>2, <2>3
  <2>. QED
    BY <1>5, <2>1, <2>2, <2>4, <2>5
<1>13. CASE UNCHANGED <<sender, sendVars, sendQueue>> /\ sent' = sent
  BY <1>6, <1>13 DEF Kinds
<1>14. CASE TakeSegment
  <2>1. UNCHANGED <<sender, sendVars, sendQueue>>
    BY <1>14 DEF TakeSegment
  <2>2. CASE failed # <<>>
    BY <1>13, <1>14, <2>1, <2>2 DEF TakeSegment
  <2>3. CASE failed = <<>>
    <3>1. PICK k \in Kinds : \E s \in sendQueue[k] :
              /\ s.seqNo = sent[k] /\ s \in Segments /\ s.kind = k
              /\ sending' = [segment |-> s, parts |-> 0]
              /\ sent' = [sent EXCEPT ![k] = @ + 1] /\ UNCHANGED failed
      BY <1>14, <2>3, Takes
    <3>2. sent' = [sent EXCEPT ![k] = @ + 1] /\ \E s \in sendQueue[k] : s.seqNo = sent[k]
      BY <3>1
    <3>. QED
      BY <1>6, <2>1, <3>2
  <2>. QED
    BY <2>2, <2>3
<1>15. ASSUME NEW c \in Callers, EnqueueSegment(c) PROVE SendSound' /\ Kept
  BY <1>1, <1>15, EnqueueStep
<1>. QED
  BY <1>7, <1>8, <1>9, <1>10, <1>11, <1>12, <1>13, <1>14, <1>15
     DEF Next, Progress, CallerStep, SocketStep, SendPart, ReadPart, EnqueueReceived, Reassemble,
         SendInterrupted, ReadInterrupted, vars, socketVars

-----------------------------------------------------------------------------
(***************************************************************************)
(* The pieces of the segments                                              *)
(***************************************************************************)
LEMMA PiecesTyped ==
  ASSUME SocketTyped
  PROVE  /\ buffer \in Seq(Pieces) /\ stream \in Seq(Pieces) /\ Pipe \in Seq(Pieces)
         /\ Len(Pipe) = Len(buffer) + Len(stream) /\ Len(Pipe) \in Nat
         /\ \A i \in 1..Len(buffer) : Pipe[i] = buffer[i]
         /\ \A i \in 1..Len(stream) : Pipe[Len(buffer) + i] = stream[i]
         /\ \A i \in 1..Len(Pipe) : Pipe[i].part \in 1..Parts
                                    /\ Pipe[i] = [segment |-> Pipe[i].segment, part |-> Pipe[i].part]
<1>1. buffer \in Seq(Pieces) /\ stream \in Seq(Pieces)
  BY DEF SocketTyped
<1>2. /\ Pipe \in Seq(Pieces) /\ Len(Pipe) = Len(buffer) + Len(stream) /\ Len(Pipe) \in Nat
      /\ \A i \in 1..Len(buffer) : Pipe[i] = buffer[i]
      /\ \A i \in 1..Len(stream) : Pipe[Len(buffer) + i] = stream[i]
  BY <1>1 DEF Pipe
<1>3. \A p \in Pieces : p.part \in 1..Parts /\ p = [segment |-> p.segment, part |-> p.part]
  BY DEF Pieces
<1>4. \A i \in 1..Len(Pipe) : Pipe[i] \in Pieces
  BY <1>2
<1>. QED
  BY <1>1, <1>2, <1>3, <1>4

\* A full buffer is one segment.
LEMMA FullBuffer ==
  ASSUME SocketTyped, PipeSound, Len(buffer) = Parts
  PROVE  \A i \in 1..Parts : Pipe[i] = [segment |-> Pipe[1].segment, part |-> i]
<1>. DEFINE Whole(i) == Pipe[i] = [segment |-> Pipe[1].segment, part |-> i]
            Bad == {i \in Nat : i \in 1..Parts /\ ~Whole(i)}
<1>1. Parts \in Nat \ {0} /\ Len(Pipe) >= Parts /\ Len(Pipe) \in Nat
  BY PiecesTyped, Constants DEF SocketTyped
<1>2. SUFFICES ASSUME Bad # {} PROVE FALSE
  OBVIOUS
<1>3. PICK i \in Bad : \A j \in Bad : i <= j
  BY <1>2, Order!LeastNatural
<1>4. i \in 1..Parts /\ i \in 1..Len(Pipe) /\ ~Whole(i)
  BY <1>1, <1>3
<1>5. i # 1
  <2>1. Pipe[1].part = 1 /\ Pipe[1] = [segment |-> Pipe[1].segment, part |-> Pipe[1].part]
    BY <1>1, PiecesTyped DEF PipeSound
  <2>. QED
    BY <1>4, <2>1
<1>6. i - 1 \in 1..Parts /\ i - 1 \in 1..Len(Pipe) - 1 /\ i - 1 + 1 = i
  BY <1>1, <1>4, <1>5
<1>7. Whole(i - 1)
  BY <1>3, <1>6
<1>8. Follows(Pipe[i - 1], Pipe[i])
  BY <1>6 DEF PipeSound
<1>9. Pipe[i - 1].part = i - 1 /\ Pipe[i - 1].segment = Pipe[1].segment
  BY <1>7
<1>10. Pipe[i].part # 1
  BY <1>6, <1>8, <1>9 DEF Follows
<1>11. Pipe[i - 1].segment = Pipe[i].segment /\ Pipe[i - 1].part = Pipe[i].part - 1
  BY <1>8, <1>10 DEF Follows
<1>12. Pipe[i].part = i /\ Pipe[i] = [segment |-> Pipe[i].segment, part |-> Pipe[i].part]
  <2>1. Pipe[i].part \in 1..Parts /\ Pipe[i] = [segment |-> Pipe[i].segment, part |-> Pipe[i].part]
    BY <1>4, PiecesTyped
  <2>. QED
    BY <1>4, <1>9, <1>11, <2>1, Constants
<1>. QED
  BY <1>4, <1>9, <1>11, <1>12

LEMMA PipeStep ==
  ASSUME SocketTyped, SocketTyped', interrupts = 0 => PipeSound, [Next]_vars, interrupts' = 0
  PROVE  PipeSound'
<1>1. CASE UNCHANGED <<sending, stream, buffer, garbled, interrupts>>
  <2>1. Pipe' = Pipe
    BY <1>1 DEF Pipe
  <2>. QED
    BY <1>1, <2>1 DEF PipeSound, Follows
<1>2. CASE TakeSegment
  <2>1. UNCHANGED <<stream, buffer, garbled, interrupts>> /\ sending = Idle
    BY <1>2 DEF TakeSegment
  <2>2. sending'.parts = 0 /\ sending.parts = 0
    BY <1>2, <2>1 DEF TakeSegment, Idle
  <2>3. Pipe' = Pipe
    BY <2>1 DEF Pipe
  <2>. QED
    BY <2>1, <2>2, <2>3 DEF PipeSound, Follows
<1>3. CASE SendPart
  <2>. DEFINE piece == [segment |-> sending.segment, part |-> sending.parts + 1]
  <2>1. UNCHANGED <<buffer, garbled, interrupts>> /\ sending # Idle /\ stream' = Append(stream, piece)
    BY <1>3 DEF SendPart
  <2>2. sending \in [segment : Segments, parts : 0..Parts - 1] /\ Parts \in Nat \ {0}
    BY <2>1, Constants DEF SocketTyped
  <2>3. PipeSound
    BY <2>1
  <2>. DEFINE p == Pipe
  <2>4. p \in Seq(Pieces) /\ Len(p) \in Nat
    BY PiecesTyped
  <2>5. Pipe' = Append(p, piece)
    <3>1. buffer \in Seq(Pieces) /\ stream \in Seq(Pieces) /\ piece \in Pieces
      BY <2>2, PiecesTyped DEF Pieces
    <3>. HIDE DEF piece
    <3>2. buffer \o Append(stream, piece) = Append(buffer \o stream, piece)
      BY <3>1
    <3>. QED
      BY <2>1, <3>2 DEF Pipe
  <2>6. /\ Len(Pipe') = Len(p) + 1 /\ Pipe'[Len(p) + 1] = piece
        /\ \A i \in 1..Len(p) : Pipe'[i] = p[i]
    <3>. HIDE DEF piece, p
    <3>. QED
      BY <2>4, <2>5
  <2>7. piece.part = sending.parts + 1 /\ piece.segment = sending.segment
    OBVIOUS
  <2>8. Len(p) > 0 => Follows(p[Len(p)], piece)
    <3>1. CASE sending.parts = 0
      BY <2>3, <2>7, <3>1 DEF PipeSound, Follows
    <3>2. CASE sending.parts # 0
      <4>1. p[Len(p)] = [segment |-> sending.segment, part |-> sending.parts]
        BY <2>3, <3>2 DEF PipeSound
      <4>2. piece.part # 1 /\ piece.part - 1 = sending.parts
        BY <2>2, <2>7, <3>2
      <4>. QED
        BY <2>7, <4>1, <4>2 DEF Follows
    <3>. QED
      BY <3>1, <3>2
  <2>9. Pipe'[1].part = 1
    <3>1. CASE Len(p) = 0
      <4>1. sending.parts = 0
        BY <2>3, <3>1 DEF PipeSound
      <4>. QED
        BY <2>6, <2>7, <3>1, <4>1
    <3>2. CASE Len(p) # 0
      BY <2>3, <2>4, <2>6, <3>2 DEF PipeSound
    <3>. QED
      BY <3>1, <3>2
  <2>10. \A i \in 1..Len(Pipe') - 1 : Follows(Pipe'[i], Pipe'[i + 1])
    <3>. HIDE DEF piece
    <3>1. SUFFICES ASSUME NEW i \in 1..Len(Pipe') - 1 PROVE Follows(Pipe'[i], Pipe'[i + 1])
      OBVIOUS
    <3>2. i \in 1..Len(p)
      BY <2>4, <2>6
    <3>3. CASE i = Len(p)
      BY <2>4, <2>6, <2>8, <3>2, <3>3
    <3>4. CASE i # Len(p)
      <4>1. i \in 1..Len(p) - 1 /\ i + 1 \in 1..Len(p)
        BY <2>4, <3>2, <3>4
      <4>2. Follows(p[i], p[i + 1])
        BY <2>3, <4>1 DEF PipeSound
      <4>. QED
        BY <2>6, <3>2, <4>1, <4>2
    <3>. QED
      BY <3>3, <3>4
  <2>11. IF sending'.parts = 0
         THEN Pipe'[Len(Pipe')].part = Parts
         ELSE Pipe'[Len(Pipe')] = [segment |-> sending'.segment, part |-> sending'.parts]
    <3>1. CASE sending.parts + 1 = Parts
      <4>1. sending'.parts = 0
        BY <1>3, <3>1 DEF SendPart, Idle
      <4>. QED
        BY <2>6, <2>7, <3>1, <4>1
    <3>2. CASE sending.parts + 1 # Parts
      <4>1. sending' = [sending EXCEPT !.parts = @ + 1]
        BY <1>3, <3>2 DEF SendPart
      <4>2. sending'.parts = sending.parts + 1 /\ sending'.segment = sending.segment /\ sending'.parts # 0
        BY <2>2, <4>1
      <4>. QED
        BY <2>6, <4>2
    <3>. QED
      BY <3>1, <3>2
  <2>12. Len(Pipe') > 0 /\ ~garbled'
    BY <2>1, <2>3, <2>4, <2>6 DEF PipeSound
  <2>. QED
    BY <2>9, <2>10, <2>11, <2>12 DEF PipeSound
<1>4. CASE ReadPart
  <2>1. /\ UNCHANGED <<sending, garbled, interrupts>> /\ stream # <<>>
        /\ buffer' = Append(buffer, Head(stream)) /\ stream' = Tail(stream)
    BY <1>4 DEF ReadPart
  <2>2. buffer \in Seq(Pieces) /\ stream \in Seq(Pieces)
    BY PiecesTyped
  <2>3. Pipe' = Pipe
    <3>1. Append(buffer, Head(stream)) \o Tail(stream) = buffer \o stream
      BY <2>1, <2>2
    <3>. QED
      BY <2>1, <3>1 DEF Pipe
  <2>. QED
    BY <2>1, <2>3 DEF PipeSound, Follows
<1>5. CASE EnqueueReceived
  <2>1. /\ UNCHANGED <<sending, stream, interrupts>> /\ Len(buffer) = Parts /\ Parts \in Nat \ {0}
    BY <1>5, Constants DEF EnqueueReceived
  <2>2. PipeSound
    BY <2>1
  <2>3. \A i \in 1..Parts : Pipe[i] = [segment |-> Pipe[1].segment, part |-> i] /\ Pipe[i] = buffer[i]
    BY <2>1, <2>2, FullBuffer, PiecesTyped
  <2>4. \A i \in 1..Parts : buffer[i] = [segment |-> buffer[1].segment, part |-> i]
    <3>1. 1 \in 1..Parts
      BY <2>1
    <3>. QED
      BY <2>3, <3>1
  <2>5. buffer' = <<>> /\ UNCHANGED garbled
    BY <1>5, <2>4 DEF EnqueueReceived
  <2>. DEFINE p == Pipe
  <2>6. /\ p \in Seq(Pieces) /\ Len(p) = Parts + Len(stream) /\ Len(stream) \in Nat /\ stream \in Seq(Pieces)
        /\ \A i \in 1..Len(stream) : stream[i] = p[Parts + i]
    BY <2>1, PiecesTyped
  <2>7. Pipe' = stream
    BY <2>1, <2>5, <2>6 DEF Pipe
  <2>8. p[Parts].part = Parts
    <3>1. Parts \in 1..Parts
      BY <2>1
    <3>2. Pipe[Parts] = [segment |-> Pipe[1].segment, part |-> Parts]
      BY <2>3, <3>1
    <3>. QED
      BY <3>2
  <2>9. Len(stream) > 0 => stream[1].part = 1
    <3>1. SUFFICES ASSUME Len(stream) > 0 PROVE stream[1].part = 1
      OBVIOUS
    <3>2. 1 \in 1..Len(stream) /\ Parts \in 1..Len(p) - 1 /\ Parts + 1 \in 1..Len(p)
      BY <2>1, <2>6, <3>1
    <3>3. stream[1] = p[Parts + 1] /\ Follows(p[Parts], p[Parts + 1])
      BY <2>2, <2>6, <3>2 DEF PipeSound
    <3>4. p[Parts + 1].part \in 1..Parts
      BY <3>2, PiecesTyped
    <3>5. CASE p[Parts + 1].part # 1
      <4>1. p[Parts] = [segment |-> p[Parts + 1].segment, part |-> p[Parts + 1].part - 1]
        BY <3>3, <3>5 DEF Follows
      <4>2. p[Parts].part = p[Parts + 1].part - 1
        BY <4>1
      <4>. QED
        BY <2>1, <2>8, <3>4, <4>2
    <3>. QED
      BY <3>3, <3>5
  <2>10. \A i \in 1..Len(stream) - 1 : Follows(stream[i], stream[i + 1])
    <3>1. SUFFICES ASSUME NEW i \in 1..Len(stream) - 1 PROVE Follows(stream[i], stream[i + 1])
      OBVIOUS
    <3>2. /\ i \in 1..Len(stream) /\ i + 1 \in 1..Len(stream) /\ Parts + i \in 1..Len(p) - 1
          /\ Parts + (i + 1) = Parts + i + 1
      BY <2>1, <2>6
    <3>3. Follows(p[Parts + i], p[Parts + i + 1])
      BY <2>2, <3>2 DEF PipeSound
    <3>4. stream[i] = p[Parts + i] /\ stream[i + 1] = p[Parts + i + 1]
      BY <2>6, <3>2
    <3>. QED
      BY <3>3, <3>4
  <2>11. IF sending.parts = 0
         THEN Len(stream) > 0 => stream[Len(stream)].part = Parts
         ELSE Len(stream) > 0 /\ stream[Len(stream)] = [segment |-> sending.segment, part |-> sending.parts]
    <3>1. Len(p) > 0
      BY <2>1, <2>6
    <3>2. Len(stream) > 0 => stream[Len(stream)] = p[Len(p)]
      BY <2>6
    <3>3. CASE sending.parts = 0
      BY <2>2, <3>1, <3>2, <3>3 DEF PipeSound
    <3>4. CASE sending.parts # 0
      <4>1. p[Len(p)] = [segment |-> sending.segment, part |-> sending.parts]
        BY <2>2, <3>4 DEF PipeSound
      <4>2. Len(stream) # 0
        <5>1. SUFFICES ASSUME Len(stream) = 0 PROVE FALSE
          OBVIOUS
        <5>2. Len(p) = Parts
          BY <2>1, <2>6, <5>1
        <5>3. sending.parts = Parts
          BY <2>8, <4>1, <5>2
        <5>4. sending.parts \in 0..Parts - 1
          BY <2>1, <3>4 DEF SocketTyped, Idle
        <5>. QED
          BY <2>1, <5>3, <5>4
      <4>. QED
        BY <2>6, <3>2, <3>4, <4>1, <4>2
    <3>. QED
      BY <3>3, <3>4
  <2>. QED
    BY <2>1, <2>2, <2>5, <2>7, <2>9, <2>10, <2>11 DEF PipeSound
<1>6. CASE SendInterrupted
  BY <1>6 DEF SendInterrupted, SocketTyped
<1>7. CASE ReadInterrupted
  BY <1>7 DEF ReadInterrupted, SocketTyped
<1>. QED
  BY <1>1, <1>2, <1>3, <1>4, <1>5, <1>6, <1>7
     DEF Next, Progress, CallerStep, SocketStep, Reassemble, vars, socketVars, Serialize,
         SerializeStatic, SendPacket, Reserve, ReserveRead, ReserveWrite, EnqueueSegment

-----------------------------------------------------------------------------
(***************************************************************************)
(* What receive() puts together                                            *)
(***************************************************************************)
\* Two callers with numbers in common are one.
LEMMA NumbersTell ==
  ASSUME CallersTyped, CutsSound, NumbersSound, NEW k \in Kinds,
         NEW c \in Callers, NEW d \in Callers, Reserved(c, k), Reserved(d, k),
         NEW i \in 0..NumSegments(c) - 1, NEW j \in 0..NumSegments(d) - 1,
         Base(c) + i = Base(d) + j
  PROVE  c = d /\ i = j
<1>1. /\ Base(c) \in Nat /\ NumSegments(c) \in Nat \ {0} /\ After(c) = Base(c) + NumSegments(c)
      /\ Base(d) \in Nat /\ NumSegments(d) \in Nat \ {0} /\ After(d) = Base(d) + NumSegments(d)
  BY BasesTyped
<1>2. c # d => After(c) <= Base(d) \/ After(d) <= Base(c)
  BY DEF NumbersSound
<1>3. c = d
  BY <1>1, <1>2
<1>. QED
  BY <1>1, <1>3

\* The segment with the next number is the next one of its message, and
\* completes the message as far as it goes.
LEMMA NextIsCopied ==
  ASSUME CallersTyped, SocketTyped, ReceiveTyped, CarriedSound, SendSound, ReassemblySound,
         NEW k \in Kinds, NEW s \in recvQueue[k], s.seqNo = taken[k]
  PROVE  \E c \in Callers : \E j \in 0..NumSegments(c) - 1 :
           /\ Reserved(c, k) /\ taken[k] = Base(c) + j /\ s.mf = (j + 1 < NumSegments(c))
           /\ Out(k, s) = Partly(c, End(c, j + 1) - ProtHeaderSize)
           /\ Start(k, s).offset + Len(Data(k, s)) = End(c, j + 1) - ProtHeaderSize
           /\ End(c, j + 1) - ProtHeaderSize \in 0..Length[c]
<1>1. s \in sendQueue[k] /\ s.seqNo < sent[k]
  <2>1. s \in Carried /\ s.kind = k
    BY CarriedIn DEF SocketTyped
  <2>. QED
    BY <2>1 DEF CarriedSound, Passed
<1>. DEFINE Is(c, j) ==
        /\ Reserved(c, k) /\ s.seqNo = Base(c) + j /\ s.mf = (j + 1 < NumSegments(c))
        /\ s.data = SubSeq(Packet(c), End(c, j) + 1, End(c, j + 1))
        /\ s.seqNo < nextSeqNo[k]
<1>2. PICK c \in Callers : \E j \in 0..NumSegments(c) - 1 : Is(c, j)
  BY <1>1, InQueue DEF SendSound
<1>3. PICK j \in 0..NumSegments(c) - 1 : Is(c, j)
  BY <1>2
<1>4. Reserved(c, k) /\ taken[k] = Base(c) + j /\ taken[k] < nextSeqNo[k]
  BY <1>3
<1>5. s.mf = (j + 1 < NumSegments(c)) /\ s.data = SubSeq(Packet(c), End(c, j) + 1, End(c, j + 1))
  BY <1>3
<1>. HIDE DEF Is
<1>. DEFINE Copied == /\ Out(k, s) = Partly(c, End(c, j + 1) - ProtHeaderSize)
                      /\ Start(k, s).offset + Len(Data(k, s)) = End(c, j + 1) - ProtHeaderSize
                      /\ End(c, j + 1) - ProtHeaderSize \in 0..Length[c]
<1>6. NumSegments(c) \in Nat \ {0} /\ Base(c) \in Nat
  BY <1>4, <1>5, BasesTyped DEF SendSound
<1>7. ASSUME partial[k] = NoMessage, Begins(taken[k], k) PROVE Copied
  <2>1. nextSeqNo[k] \in Nat
    BY DEF CallersTyped
  <2>2. PICK d \in Callers : Reserved(d, k) /\ Base(d) = taken[k]
    BY <1>4, <1>6, <1>7, <2>1 DEF Begins
  <2>3. NumSegments(d) \in Nat \ {0} /\ Base(d) \in Nat
    BY <2>2, BasesTyped DEF SendSound
  <2>4. 0 \in 0..NumSegments(d) - 1 /\ Base(c) + j = Base(d) + 0
    BY <1>4, <1>5, <2>2, <2>3
  <2>5. c = d /\ j = 0
    BY <1>4, <1>5, <2>2, <2>4, NumbersTell DEF SendSound
  <2>6. s.data = SubSeq(Packet(c), End(c, 0) + 1, End(c, 0 + 1))
    BY <1>4, <1>5, <2>5
  <2>7. ~partial[k].cont
    BY <1>7 DEF NoMessage
  <2>8. /\ Data(k, s) = SubSeq(s.data, ProtHeaderSize + 1, Len(s.data)) /\ Start(k, s).offset = 0
        /\ Start(k, s).out = [i \in 1..Length[s.data[1].of] |-> [of |-> s.data[1].of, at |-> 0]]
    BY <2>7 DEF Data, Start
  <2>9. /\ Len(Data(k, s)) = End(c, 1) - ProtHeaderSize
        /\ Out(k, s) = Partly(c, End(c, 1) - ProtHeaderSize)
    <3>1. LET data == SubSeq(s.data, ProtHeaderSize + 1, Len(s.data))
              start == [i \in 1..Length[s.data[1].of] |-> [of |-> s.data[1].of, at |-> 0]] IN
          /\ Len(data) = End(c, 1) - ProtHeaderSize
          /\ Copy(start, 0, data) = Partly(c, End(c, 1) - ProtHeaderSize)
      BY <2>6, FirstPart
    <3>. QED
      BY <2>8, <3>1, Zenon DEF Out
  <2>10. End(c, 1) - ProtHeaderSize \in 0..Length[c]
    <3>1. 1 \in 0..NumSegments(c)
      BY <1>6
    <3>2. /\ End(c, 1) \in Nat /\ End(c, 1) > ProtHeaderSize /\ End(c, 1) <= PacketSize(c)
          /\ PacketSize(c) = ProtHeaderSize + Length[c] /\ ProtHeaderSize \in Nat /\ Length[c] \in Nat
      BY <3>1, Ends, Sizes, Constants
    <3>. QED
      BY <3>2
  <2>11. Start(k, s).offset + Len(Data(k, s)) = End(c, 1) - ProtHeaderSize
    <3>. DEFINE e == End(c, 1) - ProtHeaderSize
    <3>1. Start(k, s).offset = 0
      BY <2>8
    <3>2. Len(Data(k, s)) = e
      BY <2>9
    <3>3. e \in Nat
      BY <2>10
    <3>. HIDE DEF e
    <3>4. Start(k, s).offset + Len(Data(k, s)) = e
      BY <3>1, <3>2, <3>3
    <3>. QED
      BY <3>4 DEF e
  <2>12. j + 1 = 1
    BY <2>5
  <2>. QED
    BY <2>9, <2>10, <2>11, <2>12
<1>8. ASSUME NEW d \in Callers, NEW i \in 1..NumSegments(d) - 1, Assembling(k, d, i)
      PROVE  Copied
  <2>. DEFINE n == End(c, j) - ProtHeaderSize
              m == End(c, j + 1) - ProtHeaderSize
  <2>1. /\ Reserved(d, k) /\ taken[k] = Base(d) + i
        /\ partial[k] = [cont |-> TRUE, out |-> Partly(d, End(d, i) - ProtHeaderSize),
                         offset |-> End(d, i) - ProtHeaderSize]
    BY <1>8 DEF Assembling
  <2>2. NumSegments(d) \in Nat /\ i \in 0..NumSegments(d) - 1 /\ Base(c) + j = Base(d) + i
    BY <1>4, <1>5, <2>1, Ends
  <2>3. c = d /\ i = j
    BY <1>4, <1>5, <2>1, <2>2, NumbersTell DEF SendSound
  <2>4. /\ Data(k, s) = s.data /\ Start(k, s).out = Partly(c, n) /\ Start(k, s).offset = n
    BY <2>1, <2>3 DEF Data, Start
  <2>5. j \in 1..NumSegments(c) - 1
    BY <2>3
  <2>6. /\ n \in Nat /\ m \in Nat /\ n < m /\ m <= Length[c] /\ n + Len(s.data) = m
        /\ Copy(Partly(c, n), n, s.data) = Partly(c, m)
    BY <1>4, <1>5, <2>5, NextPart
  <2>7. Length[c] \in Nat
    BY Sizes
  <2>. HIDE DEF n, m
  <2>8. Out(k, s) = Partly(c, m) /\ Start(k, s).offset + Len(Data(k, s)) = m /\ m \in 0..Length[c]
    BY <2>4, <2>6, <2>7 DEF Out
  <2>. QED
    BY <2>8 DEF m
<1>9. Copied
  BY <1>7, <1>8 DEF ReassemblySound
<1>. QED
  BY <1>4, <1>5, <1>9

\* Whatever the callers do, the messages under way stay theirs.
LEMMA ReassemblyKept ==
  ASSUME CallersTyped, ReceiveTyped, ReassemblySound, Kept, UNCHANGED receiveVars
  PROVE  ReassemblySound'
<1>1. UNCHANGED <<taken, partial, received, overflow>>
  BY DEF receiveVars
<1>2. ASSUME NEW k \in Kinds
      PROVE  \/ partial'[k] = NoMessage /\ Begins(taken[k], k)'
             \/ \E c \in Callers : \E j \in 1..NumSegments(c) - 1 : Assembling(k, c, j)'
  <2>1. CASE partial[k] = NoMessage /\ Begins(taken[k], k)
    <3>1. taken[k] \in Nat
      BY DEF ReceiveTyped
    <3>2. \A n \in Nat : n = taken[k] => Begins(n, k)'
      BY <2>1, <3>1 DEF Kept
    <3>. QED
      BY <1>1, <2>1, <3>1, <3>2 DEF Begins
  <2>2. ASSUME NEW c \in Callers, NEW j \in 1..NumSegments(c) - 1, Assembling(k, c, j)
        PROVE  Assembling(k, c, j)'
    BY <1>1, <2>2 DEF Assembling, Kept
  <2>. QED
    BY <2>1, <2>2 DEF ReassemblySound
<1>3. ASSUME NEW k \in Kinds, NEW i \in 1..Len(received[k]), Returned(received[k][i], k)
      PROVE  Returned(received[k][i], k)'
  BY <1>1, <1>3 DEF Returned, Kept, After
<1>. QED
  BY <1>1, <1>2, <1>3 DEF ReassemblySound

\* receive() copies a segment to where it belongs, and returns what is whole.
LEMMA ReassemblyStep ==
  ASSUME CallersTyped, SocketTyped, ReceiveTyped, CarriedSound, SendSound, ReassemblySound,
         \A c \in Callers : Fits(c), NEW k \in Kinds, Reassemble(k)
  PROVE  ReassemblySound'
<1>1. PICK s \in recvQueue[k] : CopySegment(k, s)
  BY Reassembles
<1>. DEFINE Next1(c, j) ==
        /\ Reserved(c, k) /\ taken[k] = Base(c) + j /\ s.mf = (j + 1 < NumSegments(c))
        /\ Out(k, s) = Partly(c, End(c, j + 1) - ProtHeaderSize)
        /\ Start(k, s).offset + Len(Data(k, s)) = End(c, j + 1) - ProtHeaderSize
        /\ End(c, j + 1) - ProtHeaderSize \in 0..Length[c]
<1>2. s.seqNo = taken[k]
  BY <1>1 DEF CopySegment
<1>3. PICK c \in Callers : \E j \in 0..NumSegments(c) - 1 : Next1(c, j)
  BY <1>2, NextIsCopied
<1>4. PICK j \in 0..NumSegments(c) - 1 : Next1(c, j)
  BY <1>3
<1>. DEFINE m == End(c, j + 1) - ProtHeaderSize
<1>5. Reserved(c, k) /\ taken[k] = Base(c) + j
  BY <1>4
<1>5a. s.mf <=> j + 1 < NumSegments(c)
  BY <1>4
<1>5b. Out(k, s) = Partly(c, m) /\ Start(k, s).offset + Len(Data(k, s)) = m
  BY <1>4
<1>5c. m \in 0..Length[c]
  BY <1>4
<1>. HIDE DEF Next1
<1>6. /\ k = Kind[c] /\ Base(c) \in Nat /\ NumSegments(c) \in Nat \ {0} /\ Length[c] \in Nat \ {0}
      /\ After(c) = Base(c) + NumSegments(c)
  BY <1>5, BasesTyped, Sizes DEF SendSound
<1>7. /\ UNCHANGED <<pc, seqNo, offset, nextSeqNo>> /\ taken' = [taken EXCEPT ![k] = @ + 1]
      /\ overflow' = (overflow \/ Start(k, s).offset + Len(Data(k, s)) > Len(Out(k, s)))
  BY <1>1 DEF CopySegment, sendVars
<1>8. /\ \A d \in Callers, l \in Kinds : Reserved(d, l)' <=> Reserved(d, l)
      /\ \A d \in Callers : Base(d)' = Base(d) /\ After(d)' = After(d)
  BY <1>7 DEF Reserved, Base, After, Cuts
<1>9. \A n \in Nat, l \in Kinds : Begins(n, l) <=> Begins(n, l)'
  BY <1>7, <1>8 DEF Begins
<1>10. /\ taken \in [Kinds -> Nat] /\ partial \in [Kinds -> [cont : BOOLEAN, out : Seq(Places), offset : Nat]]
       /\ received \in [Kinds -> Seq(Seq(Places))]
  BY DEF ReceiveTyped
<1>11. /\ taken'[k] = taken[k] + 1 /\ taken'[k] = Base(c) + (j + 1) /\ \A l \in Kinds \ {k} : taken'[l] = taken[l]
  <2>1. /\ taken'[k] = taken[k] + 1 /\ \A l \in Kinds \ {k} : taken'[l] = taken[l]
    BY <1>7, <1>10
  <2>2. taken[k] + 1 = Base(c) + (j + 1)
    BY <1>5, <1>6
  <2>. QED
    BY <2>1, <2>2
<1>12. ~overflow'
  <2>1. Len(Partly(c, m)) = Length[c]
    <3>1. m \in Nat
      BY <1>5c
    <3>. QED
      BY <3>1, Payloads
  <2>2. m \in 0..Length[c] /\ ~overflow
    BY <1>5c DEF ReassemblySound
  <2>. HIDE DEF m
  <2>3. ~(Start(k, s).offset + Len(Data(k, s)) > Len(Out(k, s)))
    BY <1>5b, <1>6, <2>1, <2>2
  <2>. QED
    BY <1>7, <2>2, <2>3
\* What the reassembly of the other kind has is not touched.
<1>13. ASSUME NEW l \in Kinds, partial'[l] = partial[l], taken'[l] = taken[l]
       PROVE  \/ partial'[l] = NoMessage /\ Begins(taken[l], l)'
              \/ \E d \in Callers : \E i \in 1..NumSegments(d) - 1 : Assembling(l, d, i)'
  <2>1. CASE partial[l] = NoMessage /\ Begins(taken[l], l)
    <3>1. taken[l] \in Nat
      BY <1>10
    <3>2. \A n \in Nat : n = taken[l] => Begins(n, l)'
      BY <1>9, <2>1, <3>1
    <3>. QED
      BY <1>13, <2>1, <3>1, <3>2 DEF Begins
  <2>2. ASSUME NEW d \in Callers, NEW i \in 1..NumSegments(d) - 1, Assembling(l, d, i)
        PROVE  Assembling(l, d, i)'
    BY <1>8, <1>13, <2>2 DEF Assembling
  <2>. QED
    BY <2>1, <2>2 DEF ReassemblySound
<1>14. ASSUME NEW l \in Kinds, NEW x, Returned(x, l) PROVE Returned(x, l)'
  <2>1. PICK d \in Callers : Reserved(d, l) /\ x = Payload(d) /\ After(d) <= taken[l]
    BY <1>14 DEF Returned
  <2>2. After(d) \in Nat /\ taken[l] \in Nat /\ taken[l] <= taken'[l] /\ taken'[l] \in Nat
    <3>1. After(d) \in Nat
      BY <2>1, BasesTyped DEF SendSound
    <3>2. CASE l = k
      BY <1>10, <1>11, <3>1, <3>2
    <3>3. CASE l # k
      BY <1>10, <1>11, <3>1, <3>3
    <3>. QED
      BY <3>2, <3>3
  <2>3. Reserved(d, l)' /\ After(d)' <= taken'[l]
    BY <1>8, <2>1, <2>2
  <2>. QED
    BY <2>1, <2>3 DEF Returned
<1>15. CASE s.mf
  <2>1. /\ UNCHANGED received
        /\ partial' = [partial EXCEPT ![k] = [cont |-> TRUE, out |-> Out(k, s),
                                              offset |-> Advance(Start(k, s).offset, Len(Data(k, s)))]]
    BY <1>1, <1>15 DEF CopySegment
  <2>2. m < Length[c]
    <3>1. j + 1 \in 0..NumSegments(c) /\ NumSegments(c) \in 0..NumSegments(c) /\ j + 1 < NumSegments(c)
      BY <1>5a, <1>6, <1>15
    <3>2. End(c, j + 1) < PacketSize(c) /\ End(c, j + 1) \in Nat /\ PacketSize(c) = ProtHeaderSize + Length[c]
      BY <3>1, Ends, Sizes
    <3>. QED
      BY <1>6, <3>2, Constants
  <2>3. Advance(Start(k, s).offset, Len(Data(k, s))) = m
    <3>1. sender = "android" => Length[c] <= OffsetModulus
      BY DEF Fits
    <3>2. sender = "android" => m % OffsetModulus = m
      <4>1. m \in Nat /\ OffsetModulus \in Nat \ {0}
        BY <1>5c, Constants
      <4>. HIDE DEF m
      <4>2. sender = "android" => m < OffsetModulus
        BY <1>6, <2>2, <3>1, <4>1, Constants
      <4>3. \A x \in Nat : \A y \in Nat \ {0} : x < y => x % y = x
        OBVIOUS
      <4>. QED
        BY <4>1, <4>2, <4>3
    <3>. HIDE DEF m
    <3>. QED
      BY <1>5b, <3>2 DEF Advance
  <2>4. partial' = [partial EXCEPT ![k] = [cont |-> TRUE, out |-> Partly(c, m), offset |-> m]]
    BY <1>5b, <2>1, <2>3
  <2>5. Assembling(k, c, j + 1)'
    <3>1. j + 1 \in 1..NumSegments(c) - 1
      BY <1>5a, <1>6, <1>15
    <3>2. partial'[k] = [cont |-> TRUE, out |-> Partly(c, m), offset |-> m]
      BY <1>10, <2>4
    <3>. QED
      BY <1>5, <1>8, <1>11, <3>1, <3>2 DEF Assembling
  <2>6. j + 1 \in 1..NumSegments(c) - 1
    BY <1>5a, <1>6, <1>15
  <2>7. \A l \in Kinds \ {k} : partial'[l] = partial[l]
    BY <2>4
  <2>8. ASSUME NEW l \in Kinds
        PROVE  \/ partial'[l] = NoMessage /\ Begins(taken[l], l)'
               \/ \E d \in Callers : \E i \in 1..NumSegments(d) - 1 : Assembling(l, d, i)'
    <3>1. CASE l = k
      BY <2>5, <2>6, <3>1
    <3>2. CASE l # k
      BY <1>11, <1>13, <2>7, <3>2
    <3>. QED
      BY <3>1, <3>2
  <2>9. ASSUME NEW l \in Kinds, NEW i \in 1..Len(received'[l]) PROVE Returned(received[l][i], l)'
    <3>1. PICK x : x = received[l][i]
      OBVIOUS
    <3>2. Returned(x, l)
      BY <2>1, <2>9, <3>1 DEF ReassemblySound
    <3>3. Returned(x, l)' /\ x = received'[l][i]
      BY <1>14, <2>1, <3>1, <3>2
    <3>. QED
      BY <3>3 DEF Returned
  <2>. QED
    BY <1>12, <2>1, <2>8, <2>9 DEF ReassemblySound
<1>16. CASE ~s.mf
  <2>1. /\ received' = [received EXCEPT ![k] = Append(@, Out(k, s))]
        /\ partial' = [partial EXCEPT ![k] = NoMessage]
    BY <1>1, <1>16 DEF CopySegment
  <2>2. j + 1 = NumSegments(c)
    BY <1>5a, <1>6, <1>16
  <2>3. m = Length[c]
    <3>1. End(c, j + 1) = PacketSize(c)
      BY <2>2, Ends
    <3>. QED
      BY <3>1, Sizes, Constants
  <2>4. Out(k, s) = Payload(c)
    <3>. HIDE DEF m
    <3>. QED
      BY <1>5b, <2>3, Payloads
  <2>5. taken'[k] = After(c)
    BY <1>6, <1>11, <2>2
  <2>6. Begins(taken[k], k)'
    <3>1. Begins(After(c), k) /\ After(c) \in Nat
      BY <1>5, <1>6 DEF SendSound, NumbersSound
    <3>2. \A n \in Nat : n = After(c) => Begins(n, k)'
      BY <1>9, <3>1
    <3>. QED
      BY <2>5, <3>1, <3>2 DEF Begins
  <2>7. partial'[k] = NoMessage /\ \A l \in Kinds \ {k} : partial'[l] = partial[l]
    BY <1>10, <2>1
  <2>8. ASSUME NEW l \in Kinds
        PROVE  \/ partial'[l] = NoMessage /\ Begins(taken[l], l)'
               \/ \E d \in Callers : \E i \in 1..NumSegments(d) - 1 : Assembling(l, d, i)'
    <3>1. CASE l = k
      BY <2>6, <2>7, <3>1
    <3>2. CASE l # k
      BY <1>11, <1>13, <2>7, <3>2
    <3>. QED
      BY <3>1, <3>2
  <2>9. /\ received'[k] = Append(received[k], Payload(c)) /\ received[k] \in Seq(Seq(Places))
        /\ \A l \in Kinds \ {k} : received'[l] = received[l]
    BY <1>10, <2>1, <2>4
  <2>10. /\ Len(received'[k]) = Len(received[k]) + 1 /\ Len(received[k]) \in Nat
         /\ received'[k][Len(received[k]) + 1] = Payload(c)
         /\ \A i \in 1..Len(received[k]) : received'[k][i] = received[k][i]
    BY <2>9
  <2>11. Returned(Payload(c), k)'
    <3>1. After(c)' <= taken'[k]
      BY <1>6, <1>8, <2>5
    <3>. QED
      BY <1>5, <1>8, <3>1 DEF Returned
  <2>12. ASSUME NEW l \in Kinds, NEW i \in 1..Len(received'[l]) PROVE Returned(received[l][i], l)'
    <3>1. PICK x : x = received'[l][i]
      OBVIOUS
    <3>2. CASE l = k /\ i = Len(received[k]) + 1
      BY <2>10, <2>11, <3>2 DEF Returned
    <3>3. CASE ~(l = k /\ i = Len(received[k]) + 1)
      <4>1. i \in 1..Len(received[l]) /\ x = received[l][i]
        <5>1. CASE l = k
          <6>1. i \in 1..Len(received[k]) + 1 /\ i # Len(received[k]) + 1
            BY <2>10, <2>12, <3>3, <5>1
          <6>2. i \in 1..Len(received[k])
            BY <2>10, <6>1
          <6>. QED
            BY <2>10, <3>1, <5>1, <6>2
        <5>2. CASE l # k
          BY <2>9, <2>12, <3>1, <5>2
        <5>. QED
          BY <5>1, <5>2
      <4>2. Returned(x, l)
        BY <4>1 DEF ReassemblySound
      <4>3. Returned(x, l)'
        BY <1>14, <4>2
      <4>. QED
        BY <3>1, <4>3 DEF Returned
    <3>. QED
      BY <3>2, <3>3
  <2>13. \A i \in 1..Len(received[k]) : received[k][i] # Payload(c)
    <3>1. SUFFICES ASSUME NEW i \in 1..Len(received[k]), received[k][i] = Payload(c) PROVE FALSE
      OBVIOUS
    <3>2. PICK d \in Callers : Reserved(d, k) /\ received[k][i] = Payload(d) /\ After(d) <= taken[k]
      BY DEF ReassemblySound, Returned
    <3>3. d = c
      BY <3>1, <3>2, Payloads
    <3>. QED
      BY <1>5, <1>6, <2>2, <3>2, <3>3
  <2>14. \A l \in Kinds : IsInjective(received'[l])
    <3>1. \A l \in Kinds : IsInjective(received[l])
      BY DEF ReassemblySound
    <3>. DEFINE n == Len(received[k])
    <3>2. ASSUME NEW a \in DOMAIN received'[k], NEW b \in DOMAIN received'[k],
                 received'[k][a] = received'[k][b]
          PROVE  a = b
      <4>1. received'[k] \in Seq(Seq(Places))
        BY <2>4, <2>9, <1>1, WorkTyped
      <4>2. DOMAIN received'[k] = 1..Len(received[k]) + 1 /\ DOMAIN received[k] = 1..Len(received[k])
        BY <2>9, <2>10, <4>1
      <4>3. \A x, y \in DOMAIN received[k] : received[k][x] = received[k][y] => x = y
        BY <3>1 DEF IsInjective
      <4>. HIDE DEF n
      <4>4. CASE a \in 1..n /\ b \in 1..n
        BY <2>10, <3>2, <4>2, <4>3, <4>4 DEF n
      <4>5. CASE a = n + 1 /\ b \in 1..n
        BY <2>10, <2>13, <3>2, <4>5 DEF n
      <4>6. CASE a \in 1..n /\ b = n + 1
        BY <2>10, <2>13, <3>2, <4>6 DEF n
      <4>7. n \in Nat /\ a \in 1..n + 1 /\ b \in 1..n + 1
        BY <2>10, <4>2 DEF n
      <4>. QED
        BY <4>4, <4>5, <4>6, <4>7
    <3>3. IsInjective(received'[k])
      BY <3>2 DEF IsInjective
    <3>. QED
      BY <2>9, <3>1, <3>3
  <2>. QED
    BY <1>12, <2>8, <2>12, <2>14 DEF ReassemblySound
<1>. QED
  BY <1>15, <1>16

-----------------------------------------------------------------------------
(***************************************************************************)
(* The inductive invariant                                                 *)
(***************************************************************************)
LEMMA FInvInit == Init => FInv
<1>. SUFFICES ASSUME Init PROVE FInv
  OBVIOUS
<1>. USE DEF Init
<1>1. CallersTyped
  <2>1. /\ static \in Vectors /\ vector \in [Callers -> Vectors]
        /\ pc \in [Callers -> {"send", "packet", "reserve", "write", "enqueue", "sent", "threw"}]
    BY DEF Vectors
  <2>2. \A c \in Callers : pc[c] = "send" /\ offset[c] = 0 /\ 0 <= PacketSize(c)
    BY Sizes
  <2>3. seqNo \in [Callers -> Nat] /\ nextSeqNo \in [Kinds -> Nat] /\ offset \in [Callers -> Nat]
    OBVIOUS
  <2>4. sender \in {"linux", "android"} /\ overlapped \in BOOLEAN
    OBVIOUS
  <2>. QED
    BY <2>1, <2>2, <2>3, <2>4 DEF CallersTyped
<1>2. SocketTyped
  <2>1. /\ sendQueue \in [Kinds -> SUBSET Segments] /\ recvQueue \in [Kinds -> SUBSET Segments]
        /\ \A k \in Kinds : sendQueue[k] \cup recvQueue[k] = {}
    OBVIOUS
  <2>2. failed \in Seq(Segments) /\ stream \in Seq(Pieces) /\ buffer \in Seq(Pieces) /\ Len(buffer) <= Parts
    BY Constants
  <2>3. sent \in [Kinds -> Nat] /\ garbled \in BOOLEAN /\ sending = Idle
    OBVIOUS
  <2>4. interrupts \in 0..MaxInterrupts
    BY Constants
  <2>. QED
    BY <2>1, <2>2, <2>3, <2>4 DEF SocketTyped
<1>3. ReceiveTyped
  <2>1. NoMessage \in [cont : BOOLEAN, out : Seq(Places), offset : Nat]
    BY DEF NoMessage
  <2>2. partial \in [Kinds -> [cont : BOOLEAN, out : Seq(Places), offset : Nat]]
    BY <2>1
  <2>3. received \in [Kinds -> Seq(Seq(Places))]
    OBVIOUS
  <2>. QED
    BY <2>2, <2>3 DEF ReceiveTyped
<1>4. CarriedSound
  <2>1. Carried = {}
    BY DEF Carried
  <2>. QED
    BY <2>1 DEF CarriedSound
<1>5. \A c \in Callers : ~Active(c) /\ \A k \in Kinds : ~Reserved(c, k)
  BY DEF Reserved, Active
<1>6. SendSound
  <2>1. PacketsSound
    <3>1. \A c \in Callers : pc[c] = "send"
      OBVIOUS
    <3>2. \A c \in Callers : pc[c] \notin {"threw", "packet", "reserve", "write", "enqueue"}
      BY <3>1
    <3>. HIDE DEF Init
    <3>. QED
      BY <1>5, <3>2 DEF PacketsSound
  <2>2. CutsSound
    BY <1>5, Constants DEF CutsSound
  <2>3. NumbersSound /\ QueueSound
    BY <1>5 DEF NumbersSound, QueueSound
  <2>. QED
    BY <2>1, <2>2, <2>3 DEF SendSound
<1>7. PipeSound
  <2>1. Pipe = <<>> /\ Len(Pipe) = 0 /\ sending.parts = 0
    BY DEF Pipe, Idle
  <2>. QED
    BY <2>1 DEF PipeSound
<1>8. ReassemblySound
  <2>1. \A k \in Kinds : partial[k] = NoMessage /\ Begins(taken[k], k)
    BY DEF Begins
  <2>2. \A k \in Kinds : received[k] = <<>> /\ Len(received[k]) = 0 /\ IsInjective(received[k])
    BY DEF IsInjective
  <2>. QED
    BY <2>1, <2>2 DEF ReassemblySound
<1>. QED
  BY <1>1, <1>2, <1>3, <1>4, <1>6, <1>7, <1>8 DEF FInv

\* Calls that overlapped, and interrupts, are not forgotten.
LEMMA Disturbed ==
  ASSUME SocketTyped, [Next]_vars
  PROVE  /\ overlapped => overlapped'
         /\ interrupts' = 0 => interrupts = 0
<1>1. interrupts \in Nat
  BY Constants DEF SocketTyped
<1>2. ASSUME NEW c \in Callers, SerializeStatic(c)
      PROVE  overlapped => overlapped'
  BY <1>2, Zenon DEF SerializeStatic
<1>3. UNCHANGED overlapped \/ \E c \in Callers : SerializeStatic(c)
  BY DEF Next, Progress, CallerStep, SocketStep, TakeSegment, SendPart, ReadPart, EnqueueReceived,
         Reassemble, SendInterrupted, ReadInterrupted, vars, sendVars, Serialize, SendPacket,
         Reserve, ReserveRead, ReserveWrite, EnqueueSegment
<1>4. UNCHANGED interrupts \/ interrupts' = interrupts + 1
  BY DEF Next, Progress, CallerStep, SocketStep, TakeSegment, SendPart, ReadPart, EnqueueReceived,
         Reassemble, SendInterrupted, ReadInterrupted, vars, socketVars, Serialize,
         SerializeStatic, SendPacket, Reserve, ReserveRead, ReserveWrite, EnqueueSegment
<1>5. overlapped => overlapped'
  BY <1>2, <1>3, Zenon
<1>6. interrupts' = 0 => interrupts = 0
  BY <1>1, <1>4
<1>. QED
  BY <1>5, <1>6, Zenon

LEMMA FInvStep == FInv /\ [Next]_vars => FInv'
<1>. SUFFICES ASSUME FInv, [Next]_vars PROVE FInv'
  OBVIOUS
<1>1. CallersTyped /\ SocketTyped /\ ReceiveTyped /\ CarriedSound
  BY DEF FInv
<1>2. CallersTyped' /\ SocketTyped' /\ ReceiveTyped' /\ CarriedSound'
  BY <1>1, CallersTypedStep, SocketTypedStep, ReceiveTypedStep, CarriedStep
<1>3. ASSUME ~overlapped' PROVE SendSound /\ SendSound' /\ Kept
  <2>1. SendSound
    BY <1>1, <1>3, Disturbed DEF FInv, CallersTyped
  <2>. QED
    BY <1>1, <1>3, <2>1, SendStep
<1>4. ASSUME interrupts' = 0 PROVE PipeSound'
  <2>1. interrupts = 0 => PipeSound
    BY DEF FInv
  <2>. QED
    BY <1>1, <1>2, <1>4, <2>1, PipeStep
<1>5. ASSUME ~overlapped', \A c \in Callers : Fits(c)' PROVE ReassemblySound'
  <2>1. UNCHANGED sender
    BY DEF Next, Progress, CallerStep, SocketStep, TakeSegment, SendPart, ReadPart, EnqueueReceived,
           Reassemble, SendInterrupted, ReadInterrupted, vars, Serialize, SerializeStatic,
           SendPacket, Reserve, ReserveRead, ReserveWrite, EnqueueSegment
  <2>2. \A c \in Callers : Fits(c)
    BY <1>5, <2>1 DEF Fits
  <2>3. ~overlapped
    BY <1>1, <1>5, Disturbed DEF CallersTyped
  <2>4. ReassemblySound /\ SendSound /\ Kept
    BY <1>3, <1>5, <2>2, <2>3 DEF FInv
  <2>5. ASSUME NEW k \in Kinds, Reassemble(k) PROVE ReassemblySound'
    BY <1>1, <2>2, <2>4, <2>5, ReassemblyStep
  <2>6. CASE UNCHANGED receiveVars
    BY <1>1, <2>4, <2>6, ReassemblyKept
  <2>. QED
    BY <2>5, <2>6
       DEF Next, Progress, CallerStep, SocketStep, TakeSegment, SendPart, ReadPart, EnqueueReceived,
           SendInterrupted, ReadInterrupted, vars, Serialize, SerializeStatic, SendPacket, Reserve,
           ReserveRead, ReserveWrite, EnqueueSegment
<1>. QED
  BY <1>2, <1>3, <1>4, <1>5 DEF FInv

LEMMA SegmentsFit == \A s \in Segments : IsSegment(s)
<1>1. SUFFICES ASSUME NEW s \in Segments PROVE IsSegment(s)
  OBVIOUS
<1>2. s.seqNo \in Nat /\ s.kind \in Kinds /\ s.mf \in BOOLEAN /\ s.data \in Seq(Units) /\ Len(s.data) \in 1..SegSize
  BY DEF Segments
<1>3. \A i \in 1..Len(s.data) : s.data[i] \in Units
  BY <1>2
<1>. QED
  BY <1>2, <1>3 DEF IsSegment, Units

LEMMA MessageIntactFollows == FInv => MessageIntact
<1>. SUFFICES ASSUME FInv PROVE MessageIntact
  OBVIOUS
<1>1. CallersTyped /\ SocketTyped /\ ReceiveTyped /\ CarriedSound
  BY DEF FInv
<1>2. TypeOK
  <2>1. \A c \in Callers : offset[c] \in 0..PacketSize(c)
    BY <1>1, Sizes DEF CallersTyped
  <2>2. \A k \in Kinds : /\ \A s \in sendQueue[k] \cup recvQueue[k] : IsSegment(s)
                         /\ sent[k] \in 0..nextSeqNo[k] \/ overlapped
                         /\ taken[k] \in 0..sent[k]
    <3>1. \A k \in Kinds : \A s \in sendQueue[k] \cup recvQueue[k] : IsSegment(s)
      BY <1>1, SegmentsFit DEF SocketTyped
    <3>2. \A k \in Kinds : sent[k] \in Nat /\ taken[k] \in Nat /\ nextSeqNo[k] \in Nat /\ taken[k] <= sent[k]
      BY <1>1 DEF SocketTyped, ReceiveTyped, CallersTyped, CarriedSound
    <3>3. ~overlapped => \A k \in Kinds : sent[k] <= nextSeqNo[k]
      BY DEF FInv, SendSound, QueueSound
    <3>. QED
      BY <3>1, <3>2, <3>3
  <2>3. sending = Idle \/ (IsSegment(sending.segment) /\ sending.parts \in 0..Parts - 1)
    BY <1>1, SegmentsFit DEF SocketTyped
  <2>4. Len(buffer) \in 0..Parts
    <3>1. Len(buffer) \in Nat /\ Len(buffer) <= Parts
      BY <1>1 DEF SocketTyped
    <3>. QED
      BY <3>1, Constants
  <2>5. \A k \in Kinds : partial[k].cont \in BOOLEAN /\ partial[k].offset \in Nat
    BY <1>1 DEF ReceiveTyped
  <2>. QED
    BY <1>1, <2>1, <2>2, <2>3, <2>4, <2>5 DEF TypeOK, CallersTyped, SocketTyped, ReceiveTyped
<1>3. interrupts = 0 => ~garbled
  BY DEF FInv, PipeSound
<1>4. ASSUME ~overlapped, \A c \in Callers : Fits(c)
      PROVE  /\ ~overflow
             /\ \A k \in Kinds :
                  /\ \A m \in ToSet(received[k]) :
                       \E c \in Callers : Kind[c] = k /\ m = Payload(c)
                  /\ IsInjective(received[k])
  <2>1. ReassemblySound
    BY <1>4 DEF FInv
  <2>2. ASSUME NEW k \in Kinds, NEW m \in ToSet(received[k])
        PROVE  \E c \in Callers : Kind[c] = k /\ m = Payload(c)
    <3>1. received[k] \in Seq(Seq(Places))
      BY <1>1 DEF ReceiveTyped
    <3>2. PICK i \in 1..Len(received[k]) : m = received[k][i]
      <4>1. DOMAIN received[k] = 1..Len(received[k])
        BY <3>1
      <4>2. ToSet(received[k]) = {received[k][i] : i \in DOMAIN received[k]}
        BY DEF ToSet
      <4>. QED
        BY <2>2, <4>1, <4>2
    <3>3. Returned(m, k)
      BY <2>1, <3>2 DEF ReassemblySound
    <3>. QED
      BY <3>3 DEF Returned, Reserved
  <2>. QED
    BY <2>1, <2>2 DEF ReassemblySound
<1>. QED
  BY <1>2, <1>3, <1>4 DEF MessageIntact

\* Unless calls of the client overlap or a message is longer than an offset can
\* be, every message that receive() returns is one that was sent, whole, and
\* none is returned twice, as long as what the receiver thread reads is whole
\* segments; and it is until a system call is interrupted.
THEOREM MessagesIntact == Spec => []MessageIntact
<1>1. Init => FInv
  BY FInvInit
<1>2. FInv /\ [Next]_vars => FInv'
  BY FInvStep
<1>3. FInv => MessageIntact
  BY MessageIntactFollows
<1>. QED
  BY <1>1, <1>2, <1>3, PTL DEF Spec
=============================================================================
