-------------------------- MODULE SegmentPoolProofs --------------------------
(***************************************************************************)
(* Proofs about SegmentPool, for any senders, segments, losses, messages   *)
(* of the client and thresholds of the free list.                          *)
(***************************************************************************)
EXTENDS SegmentPool, FiniteSetTheorems, TLAPS

\* For the least element of a set of natural numbers.
Order == INSTANCE SegmentQueueProofs

\* The blocks with segments of the application, and all that are not free.
Live == (InUse \cup ToSet(sent)) \ {Nothing}
Used == Live \cup ToSet(received.queue)

(***************************************************************************)
(* A pool whose free list has its counted length and holds allocated       *)
(* blocks, each once and none of the used ones.                            *)
(***************************************************************************)
PoolTyped(pool) ==
  /\ pool \in [list : Seq(Blocks), size : Nat, heap : SUBSET Blocks]
  /\ pool.size = Len(pool.list)

PoolSound(pool, used) ==
  /\ PoolTyped(pool) /\ IsInjective(pool.list)
  /\ ToSet(pool.list) \subseteq pool.heap /\ used \subseteq pool.heap
  /\ ToSet(pool.list) \cap used = {}

\* Only that many blocks were ever allocated, and so there is one to allocate.
HeapBounded ==
  /\ PoolTyped(Pool)
  /\ received.count + received.leaked <= NumReceived
  /\ Cardinality(heap) <= client.written + (received.count + received.leaked)

Ascending(list) == \A i, j \in 1..Len(list) : i < j => content[list[i]] < content[list[j]]

\* Every segment of the application is in one block, in the sent list in order.
BlocksSound == ~reused =>
  /\ \A b \in Live : content[b] < client.written
  /\ \A b, c \in Live : content[b] = content[c] => b = c
  /\ Ascending(sent)
  /\ \A b \in ToSet(received.queue) : content[b] = Foreign

MemorySound == ~reused /\ ~raced =>
  /\ PoolSound(Pool, Used)
  /\ IsInjective(received.queue)
  /\ ~free.locked => free.size <= kSegFreeThreshold

\* A message of client c acknowledges what it has, or asks for what was written.
MessageSound(msg, c, torn) ==
  /\ msg.type = "status" => \A n \in 0..msg.last : n \in c.got
  /\ msg.type = "retransmit" /\ ~torn => msg.last < c.written

ClientSound ==
  /\ ~reused => client.got \cup client.link \subseteq 0..client.written - 1
  /\ \A i \in DOMAIN client.inbox : MessageSound(client.inbox[i], client, reused)
  /\ SentListLocked => control.msg \in Messages /\ MessageSound(control.msg, client, reused)
  /\ control.pc = "deallocate" => control.msg.type = "status"
  /\ control.pc = "retransmit" => control.msg.type = "retransmit"

\* What the walk of a retransmission has passed will be sent.
WalkSound == ~reused /\ control.pc = "retransmit" =>
  \A i \in 1..Len(sent) :
    i < control.at /\ content[sent[i]] \in control.msg.first..control.msg.last
    => sent[i] \in InUse

SendersSound == \A s \in Senders : sender[s].pc = "idle" <=> sender[s].block = Nothing

PInv == /\ TypeOK /\ HeapBounded /\ BlocksSound /\ MemorySound /\ ClientSound
        /\ WalkSound /\ SendersSound /\ NothingLost
-----------------------------------------------------------------------------
(***************************************************************************)
(* Lists                                                                   *)
(***************************************************************************)

\* push_back().
LEMMA PushBack ==
  ASSUME NEW S, NEW s \in Seq(S), NEW e \in S
  PROVE  /\ Append(s, e) \in Seq(S)
         /\ ToSet(Append(s, e)) = ToSet(s) \cup {e}
         /\ IsInjective(s) /\ e \notin ToSet(s) => IsInjective(Append(s, e))
<1>. DEFINE t == Append(s, e)
<1>1. /\ t \in Seq(S) /\ Len(t) = Len(s) + 1 /\ Len(s) \in Nat
      /\ DOMAIN s = 1..Len(s) /\ DOMAIN t = 1..Len(s) + 1
      /\ \A i \in 1..Len(s) : t[i] = s[i]
      /\ t[Len(s) + 1] = e
  OBVIOUS
<1>. HIDE DEF t
<1>2. ToSet(t) = ToSet(s) \cup {e}
  BY <1>1 DEF ToSet
<1>3. ASSUME IsInjective(s), e \notin ToSet(s) PROVE IsInjective(t)
  BY <1>1, <1>3 DEF IsInjective, ToSet
<1>. QED
  BY <1>1, <1>2, <1>3 DEF t

\* push_front().
LEMMA PushFront ==
  ASSUME NEW S, NEW s \in Seq(S), NEW e \in S
  PROVE  /\ <<e>> \o s \in Seq(S) /\ Len(<<e>> \o s) = Len(s) + 1
         /\ ToSet(<<e>> \o s) = ToSet(s) \cup {e}
         /\ IsInjective(s) /\ e \notin ToSet(s) => IsInjective(<<e>> \o s)
<1>. DEFINE t == <<e>> \o s
<1>1. /\ t \in Seq(S) /\ Len(t) = Len(s) + 1 /\ Len(s) \in Nat
      /\ DOMAIN s = 1..Len(s) /\ DOMAIN t = 1..Len(s) + 1
      /\ t[1] = e
      /\ \A i \in 1..Len(s) : t[i + 1] = s[i]
  OBVIOUS
<1>. HIDE DEF t
<1>a. \A i \in DOMAIN t : i = 1 \/ (i - 1 \in DOMAIN s /\ t[i] = s[i - 1])
  BY <1>1
<1>2. ToSet(t) = ToSet(s) \cup {e}
  <2>1. ToSet(t) \subseteq ToSet(s) \cup {e}
    BY <1>1, <1>a DEF ToSet
  <2>2. e \in ToSet(t)
    BY <1>1 DEF ToSet
  <2>3. ToSet(s) \subseteq ToSet(t)
    BY <1>1 DEF ToSet
  <2>. QED
    BY <2>1, <2>2, <2>3
<1>3. ASSUME IsInjective(s), e \notin ToSet(s) PROVE IsInjective(t)
  BY <1>1, <1>a, <1>3 DEF IsInjective, ToSet
<1>. QED
  BY <1>1, <1>2, <1>3 DEF t

\* What is left of a list of which the first n elements are gone.
LEMMA DropFront ==
  ASSUME NEW S, NEW s \in Seq(S), NEW n \in 0..Len(s)
  PROVE  /\ SubSeq(s, n + 1, Len(s)) \in Seq(S)
         /\ Len(SubSeq(s, n + 1, Len(s))) = Len(s) - n
         /\ ToSet(SubSeq(s, n + 1, Len(s))) \subseteq ToSet(s)
         /\ ToSet(SubSeq(s, 1, n)) \subseteq ToSet(s)
         /\ IsInjective(s) =>
              /\ IsInjective(SubSeq(s, n + 1, Len(s)))
              /\ ToSet(SubSeq(s, n + 1, Len(s))) \cap ToSet(SubSeq(s, 1, n)) = {}
<1>. DEFINE t == SubSeq(s, n + 1, Len(s))
            u == SubSeq(s, 1, n)
<1>1. /\ t \in Seq(S) /\ Len(t) = Len(s) - n /\ Len(s) \in Nat
      /\ DOMAIN s = 1..Len(s) /\ DOMAIN t = 1..Len(s) - n
      /\ \A i \in 1..Len(s) - n : t[i] = s[i + n]
  OBVIOUS
<1>2. DOMAIN u = 1..n /\ \A i \in 1..n : u[i] = s[i]
  OBVIOUS
<1>. HIDE DEF t, u
<1>3. ToSet(t) \subseteq ToSet(s) /\ ToSet(u) \subseteq ToSet(s)
  <2>1. \A i \in DOMAIN t : i + n \in DOMAIN s /\ t[i] = s[i + n]
    BY <1>1
  <2>2. \A i \in DOMAIN u : i \in DOMAIN s /\ u[i] = s[i]
    BY <1>1, <1>2
  <2>. QED
    BY <2>1, <2>2 DEF ToSet
<1>4. ASSUME IsInjective(s) PROVE IsInjective(t) /\ ToSet(t) \cap ToSet(u) = {}
  <2>1. IsInjective(t)
    <3>1. ASSUME NEW i \in DOMAIN t, NEW j \in DOMAIN t, t[i] = t[j] PROVE i = j
      <4>1. i + n \in DOMAIN s /\ j + n \in DOMAIN s /\ s[i + n] = s[j + n]
        BY <1>1, <3>1
      <4>2. i + n = j + n
        BY <1>4, <4>1 DEF IsInjective
      <4>. QED
        BY <1>1, <4>2
    <3>. QED
      BY <3>1 DEF IsInjective
  <2>2. ASSUME NEW x \in ToSet(t), x \in ToSet(u) PROVE FALSE
    <3>1. PICK i \in 1..Len(s) - n : x = s[i + n]
      BY <1>1 DEF ToSet
    <3>2. PICK j \in 1..n : x = s[j]
      BY <1>2, <2>2 DEF ToSet
    <3>3. i + n \in DOMAIN s /\ j \in DOMAIN s /\ i + n # j
      BY <1>1
    <3>. QED
      BY <1>4, <3>1, <3>2, <3>3 DEF IsInjective
  <2>. QED
    BY <2>1, <2>2
<1>. QED
  BY <1>1, <1>3, <1>4 DEF t, u

\* pop_front().
LEMMA PopFront ==
  ASSUME NEW S, NEW s \in Seq(S), s # <<>>
  PROVE  /\ Head(s) \in S /\ Tail(s) \in Seq(S) /\ Len(Tail(s)) = Len(s) - 1
         /\ ToSet(s) = {Head(s)} \cup ToSet(Tail(s))
         /\ IsInjective(s) => IsInjective(Tail(s)) /\ Head(s) \notin ToSet(Tail(s))
<1>. DEFINE t == Tail(s)
<1>1. /\ t \in Seq(S) /\ Len(t) = Len(s) - 1 /\ Len(s) \in Nat \ {0}
      /\ DOMAIN s = 1..Len(s) /\ DOMAIN t = 1..Len(s) - 1
      /\ \A i \in 1..Len(s) - 1 : t[i] = s[i + 1]
      /\ Head(s) = s[1] /\ s[1] \in S
  OBVIOUS
<1>. HIDE DEF t
<1>a. \A i \in DOMAIN s : i = 1 \/ (i - 1 \in DOMAIN t /\ s[i] = t[i - 1])
  BY <1>1
<1>2. ToSet(s) = {Head(s)} \cup ToSet(t)
  <2>1. ToSet(s) \subseteq {Head(s)} \cup ToSet(t)
    BY <1>1, <1>a DEF ToSet
  <2>2. Head(s) \in ToSet(s)
    BY <1>1 DEF ToSet
  <2>3. ToSet(t) \subseteq ToSet(s)
    BY <1>1 DEF ToSet
  <2>. QED
    BY <2>1, <2>2, <2>3
<1>3. ASSUME IsInjective(s) PROVE IsInjective(t) /\ Head(s) \notin ToSet(t)
  <2>1. \A i \in DOMAIN t : i + 1 \in DOMAIN s /\ i + 1 # 1 /\ t[i] = s[i + 1]
    BY <1>1
  <2>2. 1 \in DOMAIN s
    BY <1>1
  <2>3. Head(s) \notin ToSet(t)
    BY <1>1, <1>3, <2>1, <2>2 DEF IsInjective, ToSet
  <2>4. ASSUME NEW i \in DOMAIN t, NEW j \in DOMAIN t, t[i] = t[j] PROVE i = j
    <3>1. i + 1 = j + 1
      BY <1>3, <2>1, <2>4 DEF IsInjective
    <3>. QED
      BY <1>1, <3>1
  <2>. QED
    BY <2>3, <2>4 DEF IsInjective
<1>. QED
  BY <1>1, <1>2, <1>3 DEF t
-----------------------------------------------------------------------------
(***************************************************************************)
(* The free list                                                           *)
(***************************************************************************)

\* pop_free_segment() returns a block that is not in use, and may allocate it.
LEMMA Popped ==
  ASSUME NEW pool, PoolTyped(pool), Blocks \ pool.heap # {}
  PROVE  /\ PoolTyped(PopFreeSegment(pool)) /\ PoppedBlock(pool) \in Blocks
         /\ PopFreeSegment(pool).heap = pool.heap \cup (IF pool.size = 0 THEN {PoppedBlock(pool)} ELSE {})
         /\ PopFreeSegment(pool).size <= pool.size
         /\ \A used : PoolSound(pool, used) =>
              /\ PoppedBlock(pool) \notin used
              /\ PoolSound(PopFreeSegment(pool), used \cup {PoppedBlock(pool)})
<1>. DEFINE popped == PopFreeSegment(pool)
            b == PoppedBlock(pool)
<1>1. CASE pool.size = 0
  <2>1. b \in Blocks \ pool.heap
    BY <1>1 DEF PoppedBlock
  <2>2. popped = [list |-> pool.list, size |-> pool.size, heap |-> pool.heap \cup {b}]
    BY <1>1 DEF PopFreeSegment, PoolTyped
  <2>. HIDE DEF popped, b
  <2>3. PoolTyped(popped) /\ b \in Blocks /\ popped.size <= pool.size
    BY <2>1, <2>2 DEF PoolTyped
  <2>5. popped.heap = pool.heap \cup (IF pool.size = 0 THEN {b} ELSE {})
    BY <1>1, <2>2
  <2>4. ASSUME NEW used, PoolSound(pool, used)
        PROVE  b \notin used /\ PoolSound(popped, used \cup {b})
    BY <2>1, <2>2, <2>3, <2>4 DEF PoolSound
  <2>. QED
    BY <1>1, <2>3, <2>4, <2>5, Zenon DEF popped, b
<1>2. CASE pool.size # 0
  <2>1. /\ pool.list # <<>> /\ Head(pool.list) \in Blocks
        /\ Tail(pool.list) \in Seq(Blocks) /\ Len(Tail(pool.list)) = pool.size - 1
        /\ ToSet(pool.list) = {Head(pool.list)} \cup ToSet(Tail(pool.list))
        /\ IsInjective(pool.list) =>
             IsInjective(Tail(pool.list)) /\ Head(pool.list) \notin ToSet(Tail(pool.list))
    <3>1. pool.list # <<>> /\ pool.list \in Seq(Blocks)
      BY <1>2 DEF PoolTyped
    <3>. QED
      BY <3>1, PopFront DEF PoolTyped
  <2>2. popped = [list |-> Tail(pool.list), size |-> pool.size - 1, heap |-> pool.heap]
    BY <1>2 DEF PopFreeSegment, PoolTyped
  <2>3. b = Head(pool.list)
    BY <1>2 DEF PoppedBlock
  <2>. HIDE DEF popped, b
  <2>4. PoolTyped(popped) /\ b \in Blocks /\ popped.size <= pool.size
    BY <1>2, <2>1, <2>2, <2>3 DEF PoolTyped
  <2>5. ASSUME NEW used, PoolSound(pool, used)
        PROVE  b \notin used /\ PoolSound(popped, used \cup {b})
    BY <2>1, <2>2, <2>3, <2>4, <2>5 DEF PoolSound
  <2>6. popped.heap = pool.heap \cup (IF pool.size = 0 THEN {b} ELSE {})
    BY <1>2, <2>2
  <2>. QED
    BY <1>2, <2>4, <2>5, <2>6, Zenon DEF popped, b
<1>. QED
  BY <1>1, <1>2

\* shrink_free_segment_list() frees only blocks of the free list.
LEMMA Shrunk ==
  ASSUME NEW pool, PoolTyped(pool), NEW threshold \in Nat
  PROVE  LET shrunk == ShrinkFreeSegmentList(pool, threshold) IN
         /\ PoolTyped(shrunk) /\ shrunk.heap \subseteq pool.heap
         /\ shrunk.size <= threshold
         /\ \A used : PoolSound(pool, used) => PoolSound(shrunk, used)
<1>. DEFINE n == IF pool.size > threshold THEN pool.size - threshold ELSE 0
            shrunk == ShrinkFreeSegmentList(pool, threshold)
            rest == SubSeq(pool.list, n + 1, Len(pool.list))
            freed == SubSeq(pool.list, 1, n)
<1>1. /\ pool.list \in Seq(Blocks) /\ pool.size = Len(pool.list) /\ pool.size \in Nat
      /\ pool.heap \subseteq Blocks /\ n \in 0..Len(pool.list)
      /\ pool.size - n <= threshold
  BY DEF PoolTyped
<1>2. shrunk = [list |-> rest, size |-> pool.size - n, heap |-> pool.heap \ ToSet(freed)]
  BY DEF ShrinkFreeSegmentList
<1>. HIDE DEF n
<1>3. /\ rest \in Seq(Blocks) /\ Len(rest) = Len(pool.list) - n
      /\ ToSet(rest) \subseteq ToSet(pool.list) /\ ToSet(freed) \subseteq ToSet(pool.list)
      /\ IsInjective(pool.list) =>
           IsInjective(rest) /\ ToSet(rest) \cap ToSet(freed) = {}
  BY <1>1, DropFront
<1>. HIDE DEF shrunk, rest, freed
<1>4. PoolTyped(shrunk) /\ shrunk.heap \subseteq pool.heap /\ shrunk.size <= threshold
  BY <1>1, <1>2, <1>3 DEF PoolTyped
<1>5. ASSUME NEW used, PoolSound(pool, used) PROVE PoolSound(shrunk, used)
  BY <1>2, <1>3, <1>4, <1>5 DEF PoolSound
<1>. QED
  BY <1>4, <1>5 DEF shrunk

\* push_front() on the free list, whose block is not used any more.
LEMMA Pushed ==
  ASSUME NEW pool, PoolTyped(pool), NEW b \in Blocks
  PROVE  LET pushed == [list |-> <<b>> \o pool.list, size |-> pool.size + 1, heap |-> pool.heap] IN
         /\ PoolTyped(pushed)
         /\ \A used, others : PoolSound(pool, used) /\ b \in used /\ others \subseteq used \ {b}
              => PoolSound(pushed, others)
<1>. DEFINE pushed == [list |-> <<b>> \o pool.list, size |-> pool.size + 1, heap |-> pool.heap]
            list == <<b>> \o pool.list
<1>1. /\ pool.list \in Seq(Blocks) /\ pool.size = Len(pool.list) /\ pool.size \in Nat
      /\ pool.heap \subseteq Blocks
  BY DEF PoolTyped
<1>2. /\ list \in Seq(Blocks) /\ Len(list) = Len(pool.list) + 1
      /\ ToSet(list) = ToSet(pool.list) \cup {b}
      /\ IsInjective(pool.list) /\ b \notin ToSet(pool.list) => IsInjective(list)
  BY <1>1, PushFront
<1>. HIDE DEF list
<1>3. pushed = [list |-> list, size |-> pool.size + 1, heap |-> pool.heap]
  BY DEF list
<1>. HIDE DEF pushed
<1>4. PoolTyped(pushed)
  BY <1>1, <1>2, <1>3 DEF PoolTyped
<1>5. ASSUME NEW used, NEW others, PoolSound(pool, used), b \in used, others \subseteq used \ {b}
      PROVE  PoolSound(pushed, others)
  BY <1>2, <1>3, <1>4, <1>5 DEF PoolSound
<1>. QED
  BY <1>4, <1>5 DEF pushed

\* add_free_segment_to_list().
LEMMA Added ==
  ASSUME NEW pool, PoolTyped(pool), NEW b \in Blocks
  PROVE  LET added == AddFreeSegment(pool, b) IN
         /\ PoolTyped(added) /\ added.heap \subseteq pool.heap
         /\ added.size <= kSegFreeThreshold
         /\ \A used, others : PoolSound(pool, used) /\ b \in used /\ others \subseteq used \ {b}
              => PoolSound(added, others)
<1>. DEFINE pushed == [list |-> <<b>> \o pool.list, size |-> pool.size + 1, heap |-> pool.heap]
            half == kSegFreeThreshold \div 2
            shrunk == ShrinkFreeSegmentList(pushed, half)
<1>1. /\ PoolTyped(pushed) /\ pushed.heap = pool.heap
      /\ \A used, others : PoolSound(pool, used) /\ b \in used /\ others \subseteq used \ {b}
           => PoolSound(pushed, others)
  BY Pushed
<1>3. half \in Nat /\ half <= kSegFreeThreshold /\ kSegFreeThreshold \in Nat
  BY SegmentPoolAssumption DEF SegmentPoolAssumption
<1>4. AddFreeSegment(pool, b) = IF pushed.size > kSegFreeThreshold THEN shrunk ELSE pushed
  BY DEF AddFreeSegment
<1>. HIDE DEF pushed, half
<1>5. /\ PoolTyped(shrunk) /\ shrunk.heap \subseteq pushed.heap /\ shrunk.size <= half
      /\ \A used : PoolSound(pushed, used) => PoolSound(shrunk, used)
  BY <1>1, <1>3, Shrunk
<1>. HIDE DEF shrunk
<1>6. CASE pushed.size > kSegFreeThreshold
  <2>1. shrunk.size <= kSegFreeThreshold
    BY <1>3, <1>5 DEF PoolTyped
  <2>. QED
    BY <1>1, <1>4, <1>5, <1>6, <2>1
<1>7. CASE ~(pushed.size > kSegFreeThreshold)
  <2>1. pushed.size <= kSegFreeThreshold
    BY <1>1, <1>3, <1>7 DEF PoolTyped
  <2>. QED
    BY <1>1, <1>4, <1>7, <2>1
<1>. QED
  BY <1>6, <1>7
-----------------------------------------------------------------------------
(***************************************************************************)
(* The sent list                                                           *)
(***************************************************************************)
LEMMA Concatenation ==
  ASSUME NEW S, NEW s \in Seq(S), NEW t \in Seq(S)
  PROVE  /\ s \o t \in Seq(S) /\ Len(s \o t) = Len(s) + Len(t)
         /\ \A i \in 1..Len(s) : (s \o t)[i] = s[i]
         /\ \A i \in Len(s) + 1..Len(s) + Len(t) : (s \o t)[i] = t[i - Len(s)]
  OBVIOUS

\* A block contains a sequence number, or that of a segment of the client.
LEMMA ContentTyped ==
  ASSUME TypeOK
  PROVE  \A b \in Blocks : content[b] \in Nat /\ content[b] <= NumSegs
<1>1. NumSegs \in Nat
  BY SegmentPoolAssumption DEF SegmentPoolAssumption
<1>2. content \in [Blocks -> 0..NumSegs]
  BY DEF TypeOK
<1>. QED
  BY <1>1, <1>2

\* The walk from the end of the sent list stops.
LEMMA SentPositionExists ==
  ASSUME TypeOK, NEW list \in Seq(Blocks), NEW block \in Blocks
  PROVE  LET p == SentPosition(list, block) IN
         /\ p \in 0..Len(list)
         /\ \A i \in p + 1..Len(list) : content[list[i]] > content[block]
         /\ p > 0 => content[list[p]] <= content[block]
<1>. DEFINE Behind(p) == \A i \in p + 1..Len(list) : content[list[i]] > content[block]
            P == {p \in 0..Len(list) : Behind(p)}
<1>1. Len(list) \in Nat /\ Len(list) \in P
  OBVIOUS
<1>2. PICK p \in P : \A q \in P : p <= q
  <2>1. P \subseteq Nat /\ P # {}
    BY <1>1
  <2>. HIDE DEF P
  <2>. QED
    BY <2>1, Order!LeastNatural
<1>3. p \in 0..Len(list) /\ Behind(p)
  BY <1>2
<1>4. ASSUME p > 0, ~(content[list[p]] <= content[block]) PROVE FALSE
  <2>1. p \in 1..Len(list) /\ list[p] \in Blocks /\ p - 1 \in 0..Len(list)
    BY <1>1, <1>3, <1>4
  <2>2. content[list[p]] \in Nat /\ content[block] \in Nat
    BY <2>1, ContentTyped
  <2>3. content[list[p]] > content[block]
    BY <1>4, <2>2
  <2>4. \A i \in (p - 1) + 1..Len(list) : i = p \/ i \in p + 1..Len(list)
    BY <1>1, <2>1
  <2>5. Behind(p - 1)
    BY <1>3, <2>3, <2>4
  <2>6. p - 1 \in P
    BY <2>1, <2>5
  <2>. HIDE DEF P
  <2>7. p <= p - 1
    BY <1>2, <2>6
  <2>. QED
    BY <2>1, <2>7
<1>. QED
  BY <1>3, <1>4 DEF SentPosition

(***************************************************************************)
(* add_sent_segment_to_list() keeps the list ascending, unless the segment *)
(* is in it already.                                                       *)
(***************************************************************************)
LEMMA SentAdded ==
  ASSUME TypeOK, NEW list \in Seq(Blocks), NEW block \in Blocks
  PROVE  LET added == AddSentSegment(list, block) IN
         /\ added \in Seq(Blocks)
         /\ \/ added = list /\ \E i \in 1..Len(list) : content[list[i]] = content[block]
            \/ /\ ToSet(added) = ToSet(list) \cup {block}
               /\ Ascending(list) => Ascending(added)
<1>. DEFINE p == SentPosition(list, block)
            added == InsertAt(list, p + 1, block)
<1>1. /\ p \in 0..Len(list)
      /\ \A i \in p + 1..Len(list) : content[list[i]] > content[block]
      /\ p > 0 => content[list[p]] <= content[block]
  BY SentPositionExists
<1>. HIDE DEF p
<1>2. CASE p > 0 /\ content[list[p]] = content[block]
  <2>1. p \in 1..Len(list) /\ AddSentSegment(list, block) = list
    BY <1>1, <1>2 DEF AddSentSegment, p
  <2>. QED
    BY <1>2, <2>1
<1>3. CASE ~(p > 0 /\ content[list[p]] = content[block])
  <2>1. AddSentSegment(list, block) = added
    BY <1>3 DEF AddSentSegment, p
  <2>2. /\ added \in Seq(Blocks) /\ Len(added) = Len(list) + 1 /\ Len(list) \in Nat
        /\ DOMAIN added = 1..Len(list) + 1 /\ DOMAIN list = 1..Len(list)
        /\ \A i \in 1..p : added[i] = list[i]
        /\ added[p + 1] = block
        /\ \A i \in p + 1..Len(list) : added[i + 1] = list[i]
    <3>1. /\ SubSeq(list, 1, p) \in Seq(Blocks) /\ Len(SubSeq(list, 1, p)) = p
          /\ \A i \in 1..p : SubSeq(list, 1, p)[i] = list[i]
      BY <1>1
    <3>2. /\ SubSeq(list, p + 1, Len(list)) \in Seq(Blocks)
          /\ Len(SubSeq(list, p + 1, Len(list))) = Len(list) - p
          /\ \A i \in 1..Len(list) - p : SubSeq(list, p + 1, Len(list))[i] = list[i + p]
      BY <1>1
    <3>. DEFINE u == SubSeq(list, 1, p)
                v == SubSeq(list, p + 1, Len(list))
    <3>3. added = (u \o <<block>>) \o v
      <4>1. (p + 1) - 1 = p
        BY <1>1
      <4>. QED
        BY <4>1 DEF InsertAt
    <3>. HIDE DEF u, v, added
    <3>4. /\ u \in Seq(Blocks) /\ Len(u) = p /\ v \in Seq(Blocks) /\ Len(v) = Len(list) - p
          /\ \A i \in 1..p : u[i] = list[i]
          /\ \A i \in 1..Len(list) - p : v[i] = list[i + p]
      BY <3>1, <3>2 DEF u, v
    <3>. DEFINE w == u \o <<block>>
    <3>7. /\ w \in Seq(Blocks) /\ Len(w) = p + 1 /\ w[p + 1] = block
          /\ \A i \in 1..p : w[i] = u[i]
      BY <1>1, <3>4
    <3>8. added = w \o v
      BY <3>3
    <3>. HIDE DEF w
    <3>11. /\ added \in Seq(Blocks) /\ Len(added) = Len(w) + Len(v)
           /\ \A i \in 1..Len(w) : added[i] = w[i]
           /\ \A i \in Len(w) + 1..Len(w) + Len(v) : added[i] = v[i - Len(w)]
      <4>1. w \in Seq(Blocks) /\ v \in Seq(Blocks)
        BY <3>4, <3>7
      <4>2. /\ w \o v \in Seq(Blocks) /\ Len(w \o v) = Len(w) + Len(v)
            /\ \A i \in 1..Len(w) : (w \o v)[i] = w[i]
            /\ \A i \in Len(w) + 1..Len(w) + Len(v) : (w \o v)[i] = v[i - Len(w)]
        BY <4>1, Concatenation
      <4>. QED
        BY <3>8, <4>2, Zenon
    <3>9. /\ added \in Seq(Blocks) /\ Len(added) = Len(list) + 1 /\ Len(list) \in Nat
          /\ \A i \in 1..p + 1 : added[i] = w[i]
      BY <1>1, <3>4, <3>7, <3>11
    <3>10. \A i \in 1..Len(list) - p : added[i + p + 1] = v[i]
      <4>1. SUFFICES ASSUME NEW i \in 1..Len(list) - p PROVE added[i + p + 1] = v[i]
        OBVIOUS
      <4>. DEFINE k == i + p + 1
      <4>1a. p \in Nat /\ Len(list) \in Nat /\ Len(w) = p + 1 /\ Len(v) = Len(list) - p
        BY <1>1, <3>4, <3>7
      <4>2. k \in Len(w) + 1..Len(w) + Len(v) /\ k - Len(w) = i
        BY <4>1a
      <4>. HIDE DEF k
      <4>3. added[k] = v[k - Len(w)]
        BY <3>11, <4>2
      <4>. QED
        BY <4>2, <4>3 DEF k
    <3>5. /\ \A i \in 1..p : added[i] = u[i]
          /\ added[p + 1] = block
      BY <1>1, <3>7, <3>9
    <3>6. ASSUME NEW i \in p + 1..Len(list) PROVE added[i + 1] = list[i]
      <4>1. i - p \in 1..Len(list) - p /\ (i - p) + p + 1 = i + 1 /\ (i - p) + p = i
        BY <1>1, <3>9
      <4>. QED
        BY <3>4, <3>10, <4>1
    <3>12. /\ DOMAIN added = 1..Len(list) + 1 /\ DOMAIN list = 1..Len(list)
      BY <3>9
    <3>13. \A i \in 1..p : added[i] = list[i]
      BY <3>4, <3>5
    <3>14. \A i \in p + 1..Len(list) : added[i + 1] = list[i]
      BY <3>6
    <3>. QED
      BY <3>5, <3>9, <3>12, <3>13, <3>14, Zenon
  <2>. HIDE DEF added
  <2>3. \A i \in 1..Len(list) + 1 :
          \/ i \in 1..p /\ added[i] = list[i]
          \/ i = p + 1 /\ added[i] = block
          \/ i - 1 \in p + 1..Len(list) /\ added[i] = list[i - 1]
    BY <1>1, <2>2
  <2>4. ToSet(added) = ToSet(list) \cup {block}
    <3>1. ToSet(added) \subseteq ToSet(list) \cup {block}
      <4>1. SUFFICES ASSUME NEW i \in 1..Len(list) + 1 PROVE added[i] \in ToSet(list) \cup {block}
        BY <2>2 DEF ToSet
      <4>2. CASE i \in 1..p /\ added[i] = list[i]
        BY <1>1, <2>2, <4>2 DEF ToSet
      <4>3. CASE i - 1 \in p + 1..Len(list) /\ added[i] = list[i - 1]
        <5>1. i - 1 \in DOMAIN list
          BY <1>1, <2>2, <4>3
        <5>. QED
          BY <4>3, <5>1 DEF ToSet
      <4>. QED
        BY <2>3, <4>2, <4>3
    <3>2. block \in ToSet(added)
      BY <1>1, <2>2 DEF ToSet
    <3>3. ASSUME NEW i \in 1..Len(list) PROVE list[i] \in ToSet(added)
      <4>1. CASE i \in 1..p
        BY <1>1, <2>2, <4>1 DEF ToSet
      <4>2. CASE i \in p + 1..Len(list)
        <5>1. i + 1 \in DOMAIN added /\ added[i + 1] = list[i]
          BY <1>1, <2>2, <4>2
        <5>. QED
          BY <5>1 DEF ToSet
      <4>. QED
        BY <1>1, <4>1, <4>2
    <3>4. ToSet(list) \subseteq ToSet(added)
      BY <2>2, <3>3 DEF ToSet
    <3>. QED
      BY <3>1, <3>2, <3>4
  <2>5. ASSUME Ascending(list), NEW i \in 1..Len(added), NEW j \in 1..Len(added), i < j
        PROVE  content[added[i]] < content[added[j]]
    <3>0. \A k \in 1..Len(list) : list[k] \in Blocks /\ content[list[k]] \in Nat
      BY ContentTyped
    <3>1. content[block] \in Nat
      BY ContentTyped
    <3>2. \A k \in 1..p : k \in 1..Len(list) /\ content[list[k]] < content[block]
      <4>1. p > 0 => content[list[p]] < content[block]
        BY <1>1, <1>3, <3>0, <3>1
      <4>2. \A k \in 1..p : k \in 1..Len(list) /\ p \in 1..Len(list)
        BY <1>1, <2>2
      <4>3. SUFFICES ASSUME NEW k \in 1..p PROVE content[list[k]] < content[block]
        BY <4>2
      <4>4. p > 0 /\ k \in 1..Len(list) /\ p \in 1..Len(list)
        BY <1>1, <4>2
      <4>5. CASE k < p
        <5>1. content[list[k]] < content[list[p]]
          BY <2>5, <4>4, <4>5 DEF Ascending
        <5>2. content[list[k]] \in Nat /\ content[list[p]] \in Nat
          BY <3>0, <4>4
        <5>. QED
          BY <3>1, <4>1, <4>4, <5>1, <5>2
      <4>6. CASE k = p
        BY <4>1, <4>4, <4>6
      <4>. QED
        BY <1>1, <4>5, <4>6
    <3>3. CASE i \in 1..p /\ j \in 1..p
      BY <1>1, <2>2, <2>5, <3>3 DEF Ascending
    <3>4. CASE i \in 1..p /\ j = p + 1
      BY <2>2, <3>2, <3>4
    <3>5. CASE i \in 1..p /\ j - 1 \in p + 1..Len(list)
      <4>1. added[j] = list[j - 1] /\ content[list[j - 1]] > content[block] /\ j - 1 \in 1..Len(list)
        BY <1>1, <2>2, <2>3, <3>5
      <4>. QED
        BY <2>2, <3>0, <3>1, <3>2, <3>5, <4>1
    <3>6. CASE i = p + 1 /\ j - 1 \in p + 1..Len(list)
      <4>1. added[j] = list[j - 1] /\ content[list[j - 1]] > content[block] /\ j - 1 \in 1..Len(list)
        BY <1>1, <2>2, <2>3, <3>6
      <4>. QED
        BY <2>2, <3>0, <3>1, <3>6, <4>1
    <3>7. CASE i - 1 \in p + 1..Len(list) /\ j - 1 \in p + 1..Len(list)
      <4>1. /\ added[i] = list[i - 1] /\ added[j] = list[j - 1]
            /\ i - 1 \in 1..Len(list) /\ j - 1 \in 1..Len(list) /\ i - 1 < j - 1
        BY <1>1, <2>2, <2>3, <2>5, <3>7
      <4>. QED
        BY <2>5, <4>1 DEF Ascending
    <3>8. i \in 1..Len(list) + 1 /\ j \in 1..Len(list) + 1
      BY <2>2
    <3>9. /\ i \in 1..p \/ i = p + 1 \/ i - 1 \in p + 1..Len(list)
          /\ j \in 1..p \/ j = p + 1 \/ j - 1 \in p + 1..Len(list)
      BY <2>3, <3>8
    <3>. QED
      BY <1>1, <2>2, <2>5, <3>3, <3>4, <3>5, <3>6, <3>7, <3>9
  <2>. QED
    BY <2>1, <2>2, <2>4, <2>5 DEF Ascending, added
<1>. QED
  BY <1>2, <1>3

\* erase(): an ascending list does not hold the segment any more.
LEMMA Erased ==
  ASSUME TypeOK, NEW list \in Seq(Blocks), NEW n \in 1..Len(list)
  PROVE  /\ RemoveAt(list, n) \in Seq(Blocks)
         /\ ToSet(RemoveAt(list, n)) \subseteq ToSet(list)
         /\ ToSet(list) \ {list[n]} \subseteq ToSet(RemoveAt(list, n))
         /\ Ascending(list) =>
              Ascending(RemoveAt(list, n)) /\ list[n] \notin ToSet(RemoveAt(list, n))
<1>. DEFINE rest == RemoveAt(list, n)
            u == SubSeq(list, 1, n - 1)
            v == SubSeq(list, n + 1, Len(list))
<1>1. /\ u \in Seq(Blocks) /\ Len(u) = n - 1 /\ v \in Seq(Blocks) /\ Len(v) = Len(list) - n
      /\ \A i \in 1..n - 1 : u[i] = list[i]
      /\ \A i \in 1..Len(list) - n : v[i] = list[i + n]
      /\ Len(list) \in Nat /\ DOMAIN list = 1..Len(list)
  OBVIOUS
<1>2. rest = u \o v
  BY DEF RemoveAt
<1>. HIDE DEF rest, u, v
<1>3. /\ rest \in Seq(Blocks) /\ Len(rest) = Len(list) - 1 /\ DOMAIN rest = 1..Len(list) - 1
      /\ \A i \in 1..n - 1 : rest[i] = u[i]
      /\ \A i \in 1..Len(list) - n : rest[i + n - 1] = v[i]
  <2>1. /\ rest \in Seq(Blocks) /\ Len(rest) = Len(u) + Len(v)
        /\ \A i \in 1..Len(u) : rest[i] = u[i]
        /\ \A i \in Len(u) + 1..Len(u) + Len(v) : rest[i] = v[i - Len(u)]
    <3>1. u \in Seq(Blocks) /\ v \in Seq(Blocks)
      BY <1>1
    <3>. QED
      BY <1>2, <3>1, Concatenation
  <2>2. \A i \in 1..n - 1 : rest[i] = u[i]
    BY <1>1, <2>1
  <2>3. ASSUME NEW i \in 1..Len(list) - n PROVE rest[i + n - 1] = v[i]
    <3>1. i + n - 1 \in Len(u) + 1..Len(u) + Len(v) /\ (i + n - 1) - Len(u) = i
      BY <1>1
    <3>. QED
      BY <2>1, <3>1
  <2>4. Len(rest) = Len(list) - 1
    BY <1>1, <2>1
  <2>5. DOMAIN rest = 1..Len(list) - 1
    BY <2>1, <2>4
  <2>. QED
    BY <2>1, <2>2, <2>3, <2>4, <2>5
<1>4. \A i \in n..Len(list) - 1 : rest[i] = list[i + 1]
  <2>1. SUFFICES ASSUME NEW i \in n..Len(list) - 1 PROVE rest[i] = list[i + 1]
    OBVIOUS
  <2>. DEFINE k == i - n + 1
  <2>2. k \in 1..Len(list) - n /\ k + n - 1 = i /\ k + n = i + 1
    BY <1>1
  <2>. HIDE DEF k
  <2>3. rest[k + n - 1] = v[k] /\ v[k] = list[k + n]
    BY <1>1, <1>3, <2>2
  <2>. QED
    BY <2>2, <2>3
<1>5. \A i \in 1..Len(list) - 1 :
        \/ i < n /\ rest[i] = list[i] /\ i \in 1..Len(list)
        \/ i >= n /\ rest[i] = list[i + 1] /\ i + 1 \in 1..Len(list)
  BY <1>1, <1>3, <1>4
<1>6. ToSet(rest) \subseteq ToSet(list)
  <2>1. \A i \in DOMAIN rest : \E k \in DOMAIN list : rest[i] = list[k]
    BY <1>1, <1>3, <1>5
  <2>. QED
    BY <2>1 DEF ToSet
<1>7. ASSUME NEW i \in 1..Len(list), i # n PROVE list[i] \in ToSet(rest)
  <2>1. CASE i < n
    <3>1. i \in 1..n - 1 /\ i \in DOMAIN rest
      BY <1>1, <1>3, <2>1
    <3>2. rest[i] = list[i]
      BY <1>1, <1>3, <3>1
    <3>. QED
      BY <3>1, <3>2 DEF ToSet
  <2>2. CASE i > n
    <3>1. i - 1 \in DOMAIN rest /\ rest[i - 1] = list[i]
      BY <1>1, <1>3, <1>4, <2>2
    <3>. QED
      BY <3>1 DEF ToSet
  <2>. QED
    BY <1>7, <2>1, <2>2
<1>8. ToSet(list) \ {list[n]} \subseteq ToSet(rest)
  BY <1>1, <1>7 DEF ToSet
<1>9. ASSUME Ascending(list) PROVE Ascending(rest) /\ list[n] \notin ToSet(rest)
  <2>1. Ascending(rest)
    <3>1. SUFFICES ASSUME NEW i \in 1..Len(list) - 1, NEW j \in 1..Len(list) - 1, i < j
                   PROVE  content[rest[i]] < content[rest[j]]
      BY <1>3 DEF Ascending
    <3>2. PICK k \in 1..Len(list) : rest[i] = list[k] /\ (k = i \/ (k = i + 1 /\ i >= n))
      BY <1>5
    <3>3. PICK l \in 1..Len(list) : rest[j] = list[l] /\ ((l = j /\ j < n) \/ l = j + 1)
      BY <1>5
    <3>4. k < l
      BY <3>1, <3>2, <3>3
    <3>. QED
      BY <1>9, <3>2, <3>3, <3>4 DEF Ascending
  <2>2. ASSUME NEW i \in 1..Len(list) - 1, rest[i] = list[n] PROVE FALSE
    <3>1. PICK k \in 1..Len(list) : rest[i] = list[k] /\ k # n
      BY <1>5
    <3>2. k < n \/ n < k
      BY <3>1
    <3>3. content[list[k]] < content[list[n]] \/ content[list[n]] < content[list[k]]
      BY <1>9, <3>2 DEF Ascending
    <3>4. content[list[n]] \in Nat
      BY ContentTyped
    <3>. QED
      BY <2>2, <3>1, <3>3, <3>4
  <2>. QED
    BY <1>3, <2>1, <2>2 DEF ToSet
<1>. QED
  BY <1>3, <1>6, <1>8, <1>9 DEF rest
-----------------------------------------------------------------------------
(***************************************************************************)
(* The blocks that are allocated, and those in use                         *)
(***************************************************************************)

\* One block more.
LEMMA OneMore ==
  ASSUME NEW S, IsFiniteSet(S), NEW x, NEW T, T \subseteq S \cup {x}
  PROVE  Cardinality(T) \in Nat /\ Cardinality(S) \in Nat /\ Cardinality(T) <= Cardinality(S) + 1
<1>1. IsFiniteSet(S \cup {x}) /\ Cardinality(S \cup {x}) <= Cardinality(S) + 1
  <2>1. IsFiniteSet(S \cup {x}) /\ Cardinality(S \cup {x}) = IF x \in S THEN Cardinality(S) ELSE Cardinality(S) + 1
    BY FS_AddElement
  <2>2. Cardinality(S) \in Nat
    BY FS_CardinalityType
  <2>. QED
    BY <2>1, <2>2
<1>2. IsFiniteSet(T) /\ Cardinality(T) <= Cardinality(S \cup {x})
  BY <1>1, FS_Subset
<1>3. Cardinality(T) \in Nat /\ Cardinality(S) \in Nat /\ Cardinality(S \cup {x}) \in Nat
  BY <1>1, <1>2, FS_CardinalityType
<1>. QED
  BY <1>1, <1>2, <1>3

\* No more blocks than those.
LEMMA NoMore ==
  ASSUME NEW S, S \subseteq Blocks, NEW T, T \subseteq S
  PROVE  /\ IsFiniteSet(S) /\ Cardinality(S) \in Nat
         /\ Cardinality(T) \in Nat /\ Cardinality(T) <= Cardinality(S)
<1>1. IsFiniteSet(Blocks)
  BY SegmentPoolAssumption, FS_Interval DEF Blocks, SegmentPoolAssumption
<1>. QED
  BY <1>1, FS_Subset, FS_CardinalityType

\* There is a block to allocate.
LEMMA CanAllocate ==
  ASSUME NEW h, h \subseteq Blocks, Cardinality(h) < NumSegs + NumReceived
  PROVE  Blocks \ h # {}
<1>1. SUFFICES ASSUME h = Blocks PROVE FALSE
  OBVIOUS
<1>2. NumSegs + NumReceived \in Nat
  BY SegmentPoolAssumption DEF SegmentPoolAssumption
<1>3. Cardinality(Blocks) = NumSegs + NumReceived
  BY <1>2, FS_Interval DEF Blocks
<1>. QED
  BY <1>1, <1>2, <1>3

\* Every member of these sets is a block.
LEMMA UsedTyped ==
  ASSUME TypeOK
  PROVE  /\ Nothing \notin Blocks /\ Live \subseteq Blocks
         /\ InUse \subseteq Blocks \cup {Nothing}
         /\ ToSet(sent) \subseteq Blocks /\ ToSet(received.queue) \subseteq Blocks
<1>1. \A list \in Seq(Blocks) : ToSet(list) \subseteq Blocks
  BY DEF ToSet
<1>2. Nothing \notin Blocks
  BY SegmentPoolAssumption DEF Nothing, Blocks, SegmentPoolAssumption
<1>3. \A s \in Senders : sender[s].block \in Blocks \cup {Nothing}
  BY DEF TypeOK
<1>4. /\ ToSet(queue) \subseteq Blocks /\ ToSet(failed) \subseteq Blocks
      /\ ToSet(sent) \subseteq Blocks /\ ToSet(received.queue) \subseteq Blocks
  BY <1>1 DEF TypeOK
<1>. QED
  BY <1>2, <1>3, <1>4 DEF Live, InUse

\* What a step of one sender does to the blocks the senders have.
LEMMA Held ==
  ASSUME NEW f, NEW s \in Senders, NEW p, NEW b, f = [t \in Senders |-> f[t]]
  PROVE  LET g == [f EXCEPT ![s] = [pc |-> p, block |-> b]] IN
         /\ {g[t].block : t \in Senders} \subseteq {f[t].block : t \in Senders} \cup {b}
         /\ {f[t].block : t \in Senders} \subseteq {g[t].block : t \in Senders} \cup {f[s].block}
         /\ b \in {g[t].block : t \in Senders}
<1>. DEFINE g == [f EXCEPT ![s] = [pc |-> p, block |-> b]]
<1>1. \A t \in Senders : t # s => g[t] = f[t]
  OBVIOUS
<1>2. g[s].block = b
  OBVIOUS
<1>. HIDE DEF g
<1>3. /\ {g[t].block : t \in Senders} \subseteq {f[t].block : t \in Senders} \cup {b}
      /\ {f[t].block : t \in Senders} \subseteq {g[t].block : t \in Senders} \cup {f[s].block}
      /\ b \in {g[t].block : t \in Senders}
  BY <1>1, <1>2
<1>. QED
  BY <1>3 DEF g

\* A sender takes a block out of a list and has it.
LEMMA TakeMoves ==
  ASSUME TypeOK, SendersSound, NEW s \in Senders, Take(s)
  PROVE  InUse' \ {Nothing} = InUse \ {Nothing}
<1>. DEFINE held == {sender[t].block : t \in Senders}
<1>1. sender = [t \in Senders |-> sender[t]] /\ sender[s].block = Nothing
  BY DEF TypeOK, SendersSound, Take
<1>2. ASSUME NEW b, sender' = [sender EXCEPT ![s] = [pc |-> "have", block |-> b]]
      PROVE  held' \subseteq held \cup {b} /\ held \subseteq held' \cup {Nothing} /\ b \in held'
  BY <1>1, <1>2, Held
<1>. HIDE DEF held
<1>3. CASE /\ failed # <<>> /\ failed' = Tail(failed) /\ queue' = queue
           /\ sender' = [sender EXCEPT ![s] = [pc |-> "have", block |-> Head(failed)]]
  <2>1. ToSet(failed) = {Head(failed)} \cup ToSet(failed')
    BY <1>3, PopFront DEF TypeOK
  <2>2. held' \subseteq held \cup {Head(failed)} /\ held \subseteq held' \cup {Nothing} /\ Head(failed) \in held'
    BY <1>2, <1>3
  <2>3. InUse = ToSet(queue) \cup ToSet(failed) \cup held /\ InUse' = ToSet(queue) \cup ToSet(failed') \cup held'
    BY <1>3 DEF InUse, held
  <2>. QED
    BY <2>1, <2>2, <2>3
<1>4. CASE /\ queue # <<>> /\ queue' = Tail(queue) /\ failed' = failed
           /\ sender' = [sender EXCEPT ![s] = [pc |-> "have", block |-> Head(queue)]]
  <2>1. ToSet(queue) = {Head(queue)} \cup ToSet(queue')
    BY <1>4, PopFront DEF TypeOK
  <2>2. held' \subseteq held \cup {Head(queue)} /\ held \subseteq held' \cup {Nothing} /\ Head(queue) \in held'
    BY <1>2, <1>4
  <2>3. InUse = ToSet(queue) \cup ToSet(failed) \cup held /\ InUse' = ToSet(queue') \cup ToSet(failed) \cup held'
    BY <1>4 DEF InUse, held
  <2>. QED
    BY <2>1, <2>2, <2>3
<1>. QED
  BY <1>3, <1>4 DEF Take

\* Sending does not move a block.
LEMMA SendMoves ==
  ASSUME TypeOK, NEW s \in Senders, Send(s)
  PROVE  InUse' = InUse
<1>1. \A t \in Senders : sender'[t].block = sender[t].block
  BY DEF TypeOK, Send
<1>. QED
  BY <1>1 DEF InUse, Send

\* A block that could not be sent is in the failed list.
LEMMA SendFailMoves ==
  ASSUME TypeOK, SendersSound, NEW s \in Senders, SendFail(s)
  PROVE  /\ sender[s].block \in Blocks /\ sender[s].block \in Live
         /\ InUse' \ {Nothing} = InUse \ {Nothing}
<1>. DEFINE held == {sender[t].block : t \in Senders}
            b == sender[s].block
<1>1. sender = [t \in Senders |-> sender[t]] /\ b \in Blocks /\ b \in held
  BY DEF TypeOK, SendersSound, SendFail
<1>2. held' \subseteq held \cup {Nothing} /\ held \subseteq held' \cup {b}
  BY <1>1, Held DEF SendFail
<1>. HIDE DEF held, b
<1>3. ToSet(failed') = ToSet(failed) \cup {b}
  <2>1. failed \in Seq(Blocks) /\ failed' = Append(failed, b)
    BY DEF TypeOK, SendFail, b
  <2>. QED
    BY <1>1, <2>1, PushBack
<1>4. InUse = ToSet(queue) \cup ToSet(failed) \cup held /\ InUse' = ToSet(queue) \cup ToSet(failed') \cup held'
  BY DEF InUse, held, SendFail
<1>5. b # Nothing
  BY <1>1, UsedTyped
<1>. QED
  BY <1>1, <1>2, <1>3, <1>4, <1>5 DEF b, Live

\* A block that was sent is in the sent list.
LEMMA AddSentMoves ==
  ASSUME TypeOK, SendersSound, BlocksSound, NEW s \in Senders, AddSent(s)
  PROVE  /\ sender[s].block \in Blocks /\ sent' \in Seq(Blocks)
         /\ ~reused => Live' = Live /\ Ascending(sent)'
<1>. DEFINE held == {sender[t].block : t \in Senders}
            b == sender[s].block
<1>1. sender = [t \in Senders |-> sender[t]] /\ b \in Blocks /\ b \in held
  BY DEF TypeOK, SendersSound, AddSent
<1>2. held' \subseteq held \cup {Nothing} /\ held \subseteq held' \cup {b}
  BY <1>1, Held DEF AddSent
<1>3. sent \in Seq(Blocks) /\ sent' = AddSentSegment(sent, b) /\ content' = content /\ b # Nothing
  BY <1>1, UsedTyped DEF TypeOK, AddSent
<1>. HIDE DEF held, b
<1>4. /\ sent' \in Seq(Blocks)
      /\ \/ sent' = sent /\ \E i \in 1..Len(sent) : content[sent[i]] = content[b]
         \/ /\ ToSet(sent') = ToSet(sent) \cup {b}
            /\ Ascending(sent) => Ascending(sent')
  BY <1>1, <1>3, SentAdded
<1>5. InUse = ToSet(queue) \cup ToSet(failed) \cup held /\ InUse' = ToSet(queue) \cup ToSet(failed) \cup held'
  BY DEF InUse, held, AddSent
<1>6. ASSUME ~reused PROVE Live' = Live /\ Ascending(sent)'
  <2>1. b \in Live
    BY <1>1, <1>3, <1>5 DEF Live
  <2>2. ToSet(sent') = ToSet(sent) \cup {b} /\ Ascending(sent')
    <3>1. CASE sent' = sent /\ \E i \in 1..Len(sent) : content[sent[i]] = content[b]
      <4>1. PICK i \in 1..Len(sent) : content[sent[i]] = content[b]
        BY <3>1
      <4>2. sent[i] \in ToSet(sent) /\ sent[i] \in Live
        BY <1>3, UsedTyped DEF ToSet, Live
      <4>3. sent[i] = b
        BY <1>6, <2>1, <4>1, <4>2 DEF BlocksSound
      <4>. QED
        BY <1>6, <3>1, <4>2, <4>3 DEF BlocksSound
    <3>. QED
      BY <1>4, <1>6, <3>1 DEF BlocksSound
  <2>3. Ascending(sent)'
    BY <1>3, <2>2 DEF Ascending
  <2>4. Live' = (InUse' \cup ToSet(sent')) \ {Nothing} /\ Live = (InUse \cup ToSet(sent)) \ {Nothing}
    BY DEF Live
  <2>. HIDE DEF Live
  <2>. QED
    BY <1>1, <1>2, <1>5, <2>2, <2>3, <2>4
<1>. QED
  BY <1>1, <1>4, <1>6 DEF b

\* A block that is asked for is in the sent list and will be sent, too.
LEMMA RetransmitMoves ==
  ASSUME TypeOK, RetransmitMissingSegmentsByPeer
  PROVE  /\ sent[control.at] \in ToSet(sent) /\ failed' \in Seq(Blocks)
         /\ ToSet(failed') = ToSet(failed) \cup
              IF content[sent[control.at]] \in control.msg.first..control.msg.last THEN {sent[control.at]} ELSE {}
         /\ Live' = Live /\ InUse \subseteq InUse'
<1>. DEFINE b == sent[control.at]
            asked == content[b] \in control.msg.first..control.msg.last
<1>1. b \in Blocks /\ b \in ToSet(sent)
  <2>1. control.at \in 1..Len(sent) /\ sent \in Seq(Blocks)
    <3>1. control.at \in Nat \ {0} /\ sent \in Seq(Blocks)
      BY DEF TypeOK
    <3>2. ~(control.at > Len(sent))
      BY DEF RetransmitMissingSegmentsByPeer, AtEnd
    <3>. QED
      BY <3>1, <3>2
  <2>. QED
    BY <2>1 DEF ToSet
<1>2. failed' = IF asked THEN Append(failed, b) ELSE failed
  BY DEF RetransmitMissingSegmentsByPeer
<1>3. failed \in Seq(Blocks)
  BY DEF TypeOK
<1>. HIDE DEF b, asked
<1>4. /\ failed' \in Seq(Blocks)
      /\ ToSet(failed') = ToSet(failed) \cup IF asked THEN {b} ELSE {}
  BY <1>1, <1>2, <1>3, PushBack
<1>5. queue' = queue /\ sender' = sender /\ sent' = sent
  BY DEF RetransmitMissingSegmentsByPeer
<1>6. Live' = Live /\ InUse \subseteq InUse'
  <2>1. ToSet(failed) \subseteq ToSet(failed') /\ ToSet(failed') \subseteq ToSet(failed) \cup ToSet(sent)
    BY <1>1, <1>4
  <2>2. InUse \subseteq InUse' /\ InUse' \subseteq InUse \cup ToSet(sent)
    BY <1>5, <2>1 DEF InUse
  <2>. QED
    BY <1>5, <2>2 DEF Live
<1>. QED
  BY <1>1, <1>4, <1>6 DEF b, asked
-----------------------------------------------------------------------------
(***************************************************************************)
(* Types, and the blocks that are allocated                                *)
(***************************************************************************)
LEMMA SetPoolIs ==
  ASSUME NEW pool, PoolTyped(pool), NEW locked \in BOOLEAN, SetPool(pool, locked)
  PROVE  /\ Pool' = pool /\ PoolTyped(Pool)'
         /\ free' \in [list : Seq(Blocks), size : Nat, locked : BOOLEAN]
         /\ free'.size = pool.size /\ free'.locked = locked
         /\ heap' = pool.heap /\ heap' \subseteq Blocks
<1>1. /\ free' = [list |-> pool.list, size |-> pool.size, locked |-> locked]
      /\ heap' = pool.heap
  BY DEF SetPool
<1>2. pool \in [list : Seq(Blocks), size : Nat, heap : SUBSET Blocks]
  BY DEF PoolTyped
<1>3. Pool' = pool
  BY <1>1, <1>2 DEF Pool
<1>. QED
  BY <1>1, <1>2, <1>3 DEF PoolTyped

\* The steps that take blocks out of the free list find one.
LEMMA Pops ==
  ASSUME TypeOK, HeapBounded, SetPool(PopFreeSegment(Pool), FALSE),
         \/ client.written < NumSegs
         \/ received.count + received.leaked < NumReceived
  PROVE  /\ PoolTyped(Pool) /\ Blocks \ Pool.heap # {}
         /\ PoolTyped(PopFreeSegment(Pool)) /\ PoppedBlock(Pool) \in Blocks
         /\ Pool' = PopFreeSegment(Pool) /\ PoolTyped(Pool') /\ ~free'.locked
         /\ free'.size <= free.size
         /\ free' \in [list : Seq(Blocks), size : Nat, locked : BOOLEAN]
         /\ heap' \subseteq Blocks /\ heap' \subseteq heap \cup {PoppedBlock(Pool)}
<1>1. /\ heap \subseteq Blocks /\ PoolTyped(Pool) /\ Pool.heap = heap /\ Pool.size = free.size
      /\ Cardinality(heap) <= client.written + (received.count + received.leaked)
      /\ received.count + received.leaked <= NumReceived
  BY DEF TypeOK, HeapBounded, Pool
<1>2. Cardinality(heap) < NumSegs + NumReceived
  <2>1. /\ client.written \in Nat /\ client.written <= NumSegs
        /\ received.count \in Nat /\ received.leaked \in Nat
    BY SegmentPoolAssumption DEF TypeOK, SegmentPoolAssumption
  <2>2. Cardinality(heap) \in Nat /\ NumSegs \in Nat /\ NumReceived \in Nat
    BY <1>1, NoMore, SegmentPoolAssumption DEF SegmentPoolAssumption
  <2>. QED
    BY <1>1, <2>1, <2>2
<1>3. Blocks \ Pool.heap # {}
  BY <1>1, <1>2, CanAllocate
<1>4. /\ PoolTyped(PopFreeSegment(Pool)) /\ PoppedBlock(Pool) \in Blocks
      /\ PopFreeSegment(Pool).heap = heap \cup (IF Pool.size = 0 THEN {PoppedBlock(Pool)} ELSE {})
      /\ PopFreeSegment(Pool).size <= free.size
  BY <1>1, <1>3, Popped
<1>6. /\ Pool' = PopFreeSegment(Pool) /\ free'.locked = FALSE
      /\ free' \in [list : Seq(Blocks), size : Nat, locked : BOOLEAN]
      /\ free'.size = PopFreeSegment(Pool).size
      /\ heap' = PopFreeSegment(Pool).heap /\ heap' \subseteq Blocks
  BY <1>4, SetPoolIs
<1>. QED
  BY <1>1, <1>3, <1>4, <1>6

\* The other steps allocate nothing.
LEMMA GiveBackPushes ==
  ASSUME TypeOK, HeapBounded, GiveBack
  PROVE  LET pushed == [list |-> <<Head(received.queue)>> \o Pool.list, size |-> Pool.size + 1, heap |-> Pool.heap] IN
         /\ Head(received.queue) \in Blocks /\ Tail(received.queue) \in Seq(Blocks)
         /\ Pool' = pushed /\ PoolTyped(Pool') /\ free'.locked
         /\ free' \in [list : Seq(Blocks), size : Nat, locked : BOOLEAN]
         /\ heap' = heap
<1>. DEFINE b == Head(received.queue)
            pushed == [list |-> <<b>> \o Pool.list, size |-> Pool.size + 1, heap |-> Pool.heap]
<1>1. b \in Blocks /\ Tail(received.queue) \in Seq(Blocks)
  <2>1. received.queue \in Seq(Blocks) /\ received.queue # <<>>
    BY DEF TypeOK, GiveBack
  <2>. QED
    BY <2>1, PopFront
<1>2. PoolTyped(Pool) /\ Pool.list = free.list /\ Pool.size = free.size /\ Pool.heap = heap
  BY DEF HeapBounded, Pool
<1>3. PoolTyped(pushed)
  BY <1>1, <1>2, Pushed
<1>4. free' = [list |-> <<b>> \o free.list, size |-> free.size + 1, locked |-> TRUE] /\ heap' = heap
  BY DEF GiveBack
<1>5. SetPool(pushed, TRUE)
  BY <1>2, <1>4 DEF SetPool
<1>. HIDE DEF b, pushed
<1>6. /\ Pool' = pushed /\ free'.locked = TRUE /\ PoolTyped(Pool')
      /\ free' \in [list : Seq(Blocks), size : Nat, locked : BOOLEAN]
  BY <1>3, <1>5, SetPoolIs
<1>. QED
  BY <1>1, <1>4, <1>6 DEF b, pushed

LEMMA HalfTyped == kSegFreeThreshold \div 2 \in Nat /\ kSegFreeThreshold \div 2 <= kSegFreeThreshold
  BY SegmentPoolAssumption DEF SegmentPoolAssumption

LEMMA ShrinkAndUnlockShrinks ==
  ASSUME TypeOK, HeapBounded, ShrinkAndUnlock
  PROVE  LET shrunk == ShrinkFreeSegmentList(Pool, kSegFreeThreshold \div 2) IN
         /\ PoolTyped(Pool) /\ PoolTyped(Pool') /\ ~free'.locked
         /\ \/ Pool' = Pool \/ Pool' = shrunk
         /\ free'.size <= kSegFreeThreshold
         /\ free' \in [list : Seq(Blocks), size : Nat, locked : BOOLEAN]
         /\ heap' \subseteq heap
<1>. DEFINE half == kSegFreeThreshold \div 2
            shrunk == ShrinkFreeSegmentList(Pool, half)
<1>1. PoolTyped(Pool) /\ Pool.size = free.size /\ Pool.heap = heap
  BY DEF HeapBounded, Pool
<1>. HIDE DEF half
<1>2. PoolTyped(shrunk) /\ shrunk.heap \subseteq heap /\ shrunk.size <= half
  BY <1>1, HalfTyped, Shrunk DEF half
<1>3. \/ free.size > kSegFreeThreshold /\ SetPool(shrunk, FALSE)
      \/ ~(free.size > kSegFreeThreshold) /\ SetPool(Pool, FALSE)
  BY DEF ShrinkAndUnlock, half
<1>. HIDE DEF shrunk
<1>4. ASSUME NEW pool, PoolTyped(pool), SetPool(pool, FALSE)
      PROVE  /\ Pool' = pool /\ PoolTyped(Pool') /\ free'.locked = FALSE
             /\ free' \in [list : Seq(Blocks), size : Nat, locked : BOOLEAN]
             /\ free'.size = pool.size /\ heap' = pool.heap
  BY <1>4, SetPoolIs
<1>5. kSegFreeThreshold \in Nat /\ free.size \in Nat /\ half \in Nat /\ half <= kSegFreeThreshold
  BY SegmentPoolAssumption, HalfTyped DEF SegmentPoolAssumption, TypeOK, half
<1>6. CASE free.size > kSegFreeThreshold /\ SetPool(shrunk, FALSE)
  <2>1. shrunk.size <= kSegFreeThreshold
    BY <1>2, <1>5 DEF PoolTyped
  <2>2. /\ Pool' = shrunk /\ PoolTyped(Pool') /\ free'.locked = FALSE
        /\ free' \in [list : Seq(Blocks), size : Nat, locked : BOOLEAN]
        /\ free'.size = shrunk.size /\ heap' = shrunk.heap
    BY <1>2, <1>4, <1>6
  <2>. QED
    BY <1>1, <1>2, <2>1, <2>2 DEF shrunk, half
<1>7. CASE ~(free.size > kSegFreeThreshold) /\ SetPool(Pool, FALSE)
  <2>1. /\ Pool' = Pool /\ PoolTyped(Pool') /\ free'.locked = FALSE
        /\ free' \in [list : Seq(Blocks), size : Nat, locked : BOOLEAN]
        /\ free'.size = free.size /\ heap' = heap
    BY <1>1, <1>4, <1>7
  <2>. QED
    BY <1>1, <1>5, <1>7, <2>1
<1>. QED
  BY <1>3, <1>6, <1>7

LEMMA ShrinkUnlockedShrinks ==
  ASSUME TypeOK, HeapBounded, ShrinkUnlocked
  PROVE  /\ PoolTyped(Pool) /\ PoolTyped(Pool')
         /\ \A used : PoolSound(Pool, used) => PoolSound(Pool', used)
         /\ free'.size <= free.size
         /\ free'.locked = free.locked
         /\ free' \in [list : Seq(Blocks), size : Nat, locked : BOOLEAN]
         /\ heap' \subseteq heap
<1>. DEFINE rest == free.size - 1
            shrunk == ShrinkFreeSegmentList(Pool, rest)
<1>1. PoolTyped(Pool) /\ Pool.heap = heap /\ free.locked \in BOOLEAN /\ free.size \in Nat
  BY DEF HeapBounded, Pool, TypeOK
<1>2. rest \in Nat /\ rest <= free.size
  <2>1. free.size > kSegFreeThreshold \div 2
    BY DEF ShrinkUnlocked
  <2>. QED
    BY <1>1, <2>1, HalfTyped
<1>3. SetPool(shrunk, free.locked)
  BY DEF ShrinkUnlocked
<1>. HIDE DEF rest
<1>4. /\ PoolTyped(shrunk) /\ shrunk.heap \subseteq heap /\ shrunk.size <= rest
      /\ \A used : PoolSound(Pool, used) => PoolSound(shrunk, used)
  BY <1>1, <1>2, Shrunk
<1>. HIDE DEF shrunk
<1>5. /\ Pool' = shrunk /\ PoolTyped(Pool') /\ free'.locked = free.locked
      /\ free' \in [list : Seq(Blocks), size : Nat, locked : BOOLEAN]
      /\ free'.size = shrunk.size /\ heap' = shrunk.heap
  BY <1>1, <1>3, <1>4, SetPoolIs
<1>6. free'.size <= free.size
  <2>1. free'.size \in Nat
    BY <1>5
  <2>. QED
    BY <1>1, <1>2, <1>4, <1>5, <2>1
<1>. QED
  BY <1>1, <1>4, <1>5, <1>6

\* A segment of the sent list that is released.
LEMMA Released ==
  ASSUME TypeOK, HeapBounded, DeallocateSentSegmentsByPeer, content[sent[control.at]] <= control.msg.last
  PROVE  LET b == sent[control.at] IN
         /\ b \in ToSet(sent) /\ b \in Blocks
         /\ PoolTyped(Pool) /\ PoolTyped(Pool') /\ Pool' = AddFreeSegment(Pool, b)
         /\ free'.size <= kSegFreeThreshold /\ ~free'.locked
         /\ free' \in [list : Seq(Blocks), size : Nat, locked : BOOLEAN]
         /\ heap' \subseteq heap
         /\ sent' \in Seq(Blocks)
         /\ ToSet(sent') \subseteq ToSet(sent) /\ ToSet(sent) \ {b} \subseteq ToSet(sent')
         /\ Ascending(sent) => Ascending(sent') /\ b \notin ToSet(sent')
<1>. DEFINE b == sent[control.at]
<1>1. control.at \in 1..Len(sent) /\ sent \in Seq(Blocks)
  <2>1. control.at \in Nat \ {0} /\ sent \in Seq(Blocks)
    BY DEF TypeOK
  <2>2. ~(control.at > Len(sent))
    BY DEF DeallocateSentSegmentsByPeer, AtEnd
  <2>. QED
    BY <2>1, <2>2
<1>2. b \in Blocks /\ b \in ToSet(sent)
  BY <1>1 DEF ToSet
<1>3. SetPool(AddFreeSegment(Pool, b), FALSE) /\ sent' = RemoveAt(sent, control.at)
  BY DEF DeallocateSentSegmentsByPeer
<1>4. PoolTyped(Pool) /\ Pool.heap = heap
  BY DEF HeapBounded, Pool
<1>5. /\ sent' \in Seq(Blocks)
      /\ ToSet(sent') \subseteq ToSet(sent) /\ ToSet(sent) \ {b} \subseteq ToSet(sent')
      /\ Ascending(sent) => Ascending(sent') /\ b \notin ToSet(sent')
  BY <1>1, <1>3, Erased
<1>. HIDE DEF b
<1>6. /\ PoolTyped(AddFreeSegment(Pool, b)) /\ AddFreeSegment(Pool, b).heap \subseteq heap
      /\ AddFreeSegment(Pool, b).size <= kSegFreeThreshold
  BY <1>2, <1>4, Added
<1>7. /\ Pool' = AddFreeSegment(Pool, b) /\ PoolTyped(Pool') /\ free'.locked = FALSE
      /\ free' \in [list : Seq(Blocks), size : Nat, locked : BOOLEAN]
      /\ free'.size = AddFreeSegment(Pool, b).size /\ heap' = AddFreeSegment(Pool, b).heap
  BY <1>3, <1>6, SetPoolIs
<1>. QED
  BY <1>2, <1>4, <1>5, <1>6, <1>7 DEF b
LEMMA Counted ==
  ASSUME NEW bound \in Nat, NEW n \in 0..bound, n < bound
  PROVE  n + 1 \in 0..bound
  OBVIOUS

LEMMA TypesKept ==
  ASSUME TypeOK, HeapBounded, SendersSound, [Next]_vars
  PROVE  TypeOK'
<1>. DEFINE ClientType == [link : SUBSET SeqNos, got : SUBSET SeqNos, inbox : Seq(Messages), requests : 0..NumRequests,
                           written : 0..NumSegs]
            ControlType == [pc : {"idle", "deallocate", "retransmit", "check", "shrink", "shrinking"},
                            msg : Messages \cup {NoMessage}, at : Nat \ {0}]
<1>0. /\ NumSegs \in Nat /\ NumReceived \in Nat /\ NumRequests \in Nat
      /\ SeqNos \subseteq 0..NumSegs
  <2>1. NumSegs \in Nat /\ NumReceived \in Nat /\ NumRequests \in Nat
    BY SegmentPoolAssumption DEF SegmentPoolAssumption
  <2>. QED
    BY <2>1 DEF SeqNos
<1>a. client \in ClientType /\ control \in ControlType
  BY DEF TypeOK
<1>b. /\ client.link \subseteq SeqNos /\ client.got \subseteq SeqNos /\ client.inbox \in Seq(Messages)
      /\ client.requests \in 0..NumRequests /\ client.written \in 0..NumSegs
      /\ received.queue \in Seq(Blocks) /\ received.count \in 0..NumReceived
      /\ received.leaked \in 0..NumReceived
  BY DEF TypeOK
<1>c. ASSUME NEW pc \in {"idle", "deallocate", "retransmit", "check", "shrink", "shrinking"},
             NEW msg \in Messages \cup {NoMessage}, NEW at \in Nat \ {0}
      PROVE  [pc |-> pc, msg |-> msg, at |-> at] \in ControlType
  OBVIOUS
<1>d. control.at + 1 \in Nat \ {0}
  BY <1>a
<1>e. ASSUME Advance PROVE control' \in ControlType
  BY <1>a, <1>d, <1>e DEF Advance
<1>f. ASSUME NEW pc \in {"idle", "deallocate", "retransmit", "check", "shrink", "shrinking"}, Leave(pc) PROVE control' \in ControlType
  BY <1>c, <1>f DEF Leave
<1>. USE DEF TypeOK
<1>1. CASE Write
  <2>1. /\ free' \in [list : Seq(Blocks), size : Nat, locked : BOOLEAN] /\ heap' \subseteq Blocks
        /\ PoppedBlock(Pool) \in Blocks
    BY <1>1, Pops DEF Write
  <2>2. content' \in [Blocks -> 0..NumSegs] /\ queue' \in Seq(Blocks)
    BY <1>0, <1>1, <2>1, PushBack DEF Write
  <2>3. client' \in ClientType
    <3>1. client.written + 1 \in 0..NumSegs
      BY <1>0, <1>1, <1>b, Counted DEF Write
    <3>. QED
      BY <1>1, <1>a, <3>1 DEF Write
  <2>. QED
    BY <1>1, <2>1, <2>2, <2>3 DEF Write, Shrinking
<1>2. CASE Receive
  <2>1. /\ free' \in [list : Seq(Blocks), size : Nat, locked : BOOLEAN] /\ heap' \subseteq Blocks
        /\ PoppedBlock(Pool) \in Blocks
    BY <1>2, Pops DEF Receive
  <2>2. content' \in [Blocks -> 0..NumSegs]
    <3>1. Foreign \in 0..NumSegs
      BY <1>0 DEF Foreign
    <3>2. content' = [content EXCEPT ![PoppedBlock(Pool)] = Foreign]
      BY <1>2 DEF Receive
    <3>. QED
      BY <2>1, <3>1, <3>2
  <2>3. Append(received.queue, PoppedBlock(Pool)) \in Seq(Blocks)
    BY <2>1, PushBack
  <2>4. received.count + 1 \in 0..NumReceived
    <3>1. received.count + received.leaked < NumReceived
      BY <1>2 DEF Receive
    <3>. HIDE DEF TypeOK
    <3>. QED
      BY <1>0, <1>b, <3>1
  <2>5. received' \in [queue : Seq(Blocks), count : 0..NumReceived, leaked : 0..NumReceived]
    BY <1>2, <1>b, <2>3, <2>4 DEF Receive
  <2>. QED
    BY <1>2, <2>1, <2>2, <2>5 DEF Receive, Shrinking
<1>17. CASE LeakBlock
  <2>1. /\ free' \in [list : Seq(Blocks), size : Nat, locked : BOOLEAN] /\ heap' \subseteq Blocks
    BY <1>17, Pops DEF LeakBlock
  <2>2. received.leaked + 1 \in 0..NumReceived
    <3>1. received.count + received.leaked < NumReceived
      BY <1>17 DEF LeakBlock
    <3>. HIDE DEF TypeOK
    <3>. QED
      BY <1>0, <1>b, <3>1
  <2>3. received' \in [queue : Seq(Blocks), count : 0..NumReceived, leaked : 0..NumReceived]
    BY <1>17, <1>b, <2>2 DEF LeakBlock
  <2>4. raced' \in BOOLEAN
    BY <1>17 DEF LeakBlock, Shrinking
  <2>. QED
    BY <1>17, <2>1, <2>3, <2>4 DEF LeakBlock
<1>3. CASE GiveBack
  <2>1. /\ free' \in [list : Seq(Blocks), size : Nat, locked : BOOLEAN] /\ heap' = heap
        /\ Tail(received.queue) \in Seq(Blocks)
    BY <1>3, GiveBackPushes
  <2>2. received' \in [queue : Seq(Blocks), count : 0..NumReceived, leaked : 0..NumReceived]
    BY <1>3, <2>1 DEF GiveBack
  <2>. QED
    BY <1>3, <2>1, <2>2 DEF GiveBack, Shrinking
<1>4. CASE ShrinkAndUnlock
  <2>1. free' \in [list : Seq(Blocks), size : Nat, locked : BOOLEAN] /\ heap' \subseteq heap
    BY <1>4, ShrinkAndUnlockShrinks
  <2>. QED
    BY <1>4, <2>1 DEF ShrinkAndUnlock, Shrinking
<1>5. CASE ClientReceive \/ Lose
  <2>1. client' \in ClientType
    <3>1. PICK n \in client.link : \/ client' = [client EXCEPT !.link = @ \ {n}, !.got = @ \cup {n}]
                                    \/ client' = [client EXCEPT !.link = @ \ {n}]
      BY <1>5 DEF ClientReceive, Lose
    <3>2. client.link \ {n} \subseteq SeqNos /\ client.got \cup {n} \subseteq SeqNos
      BY <1>b
    <3>3. CASE client' = [client EXCEPT !.link = @ \ {n}, !.got = @ \cup {n}]
      BY <1>a, <3>2, <3>3
    <3>4. CASE client' = [client EXCEPT !.link = @ \ {n}]
      BY <1>a, <3>2, <3>4
    <3>. QED
      BY <3>1, <3>3, <3>4
  <2>3. UNCHANGED <<heap, content, free, queue, failed, sent, sender, received, control, reused, raced>>
    BY <1>5 DEF ClientReceive, Lose
  <2>. QED
    BY <2>1, <2>3
<1>6. CASE ClientRequest
  <2>1. PICK msg \in Messages : client' = [client EXCEPT !.inbox = Append(@, msg), !.requests = @ + 1]
    BY <1>6 DEF ClientRequest
  <2>2. client.inbox \in Seq(Messages) /\ client.requests \in 0..NumRequests /\ client.requests < NumRequests
    BY <1>6 DEF ClientRequest
  <2>3. Append(client.inbox, msg) \in Seq(Messages) /\ client.requests + 1 \in 0..NumRequests
    <3>1. client.requests + 1 \in 0..NumRequests
      BY <1>0, <2>2, Counted
    <3>. QED
      BY <2>1, <2>2, <3>1, PushBack
  <2>4. client' \in ClientType
    BY <1>a, <2>1, <2>3
  <2>. QED
    BY <1>6, <2>4 DEF ClientRequest
<1>7. CASE HandleMessage
  <2>1. Head(client.inbox) \in Messages /\ Tail(client.inbox) \in Seq(Messages)
    BY <1>7, PopFront DEF HandleMessage
  <2>2. client' \in ClientType
    BY <1>7, <1>a, <2>1 DEF HandleMessage
  <2>3. control' \in ControlType
    BY <1>7, <1>c, <2>1 DEF HandleMessage
  <2>. QED
    BY <1>7, <2>2, <2>3 DEF HandleMessage
<1>8. CASE DeallocateSentSegmentsByPeer
  <2>1. CASE content[sent[control.at]] <= control.msg.last
    <3>1. /\ free' \in [list : Seq(Blocks), size : Nat, locked : BOOLEAN] /\ heap' \subseteq heap
          /\ sent' \in Seq(Blocks)
      BY <1>8, <2>1, Released
    <3>2. reused' \in BOOLEAN
      BY <1>8 DEF DeallocateSentSegmentsByPeer
    <3>. QED
      BY <1>8, <2>1, <3>1, <3>2 DEF DeallocateSentSegmentsByPeer
  <2>2. CASE ~(content[sent[control.at]] <= control.msg.last)
    <3>1. control' \in ControlType
      BY <1>8, <1>e, <2>2 DEF DeallocateSentSegmentsByPeer
    <3>. QED
      BY <1>8, <2>2, <3>1 DEF DeallocateSentSegmentsByPeer
  <2>. QED
    BY <2>1, <2>2
<1>9. CASE Deallocated \/ CheckSize \/ ShrinkLoop \/ Retransmitted
  <2>1. \E pc \in {"idle", "deallocate", "retransmit", "check", "shrink", "shrinking"} : Leave(pc)
    BY <1>9 DEF Deallocated, CheckSize, ShrinkLoop, Retransmitted
  <2>2. control' \in ControlType
    BY <1>f, <2>1
  <2>. QED
    BY <1>9, <2>2 DEF Deallocated, CheckSize, ShrinkLoop, Retransmitted
<1>10. CASE ShrinkUnlocked
  <2>1. free' \in [list : Seq(Blocks), size : Nat, locked : BOOLEAN] /\ heap' \subseteq heap
    BY <1>10, ShrinkUnlockedShrinks
  <2>2. control' \in ControlType
    BY <1>10, <1>f DEF ShrinkUnlocked
  <2>. QED
    BY <1>10, <2>1, <2>2 DEF ShrinkUnlocked
<1>11. CASE RetransmitMissingSegmentsByPeer
  <2>1. failed' \in Seq(Blocks)
    BY <1>11, RetransmitMoves
  <2>2. control' \in ControlType
    BY <1>11, <1>e DEF RetransmitMissingSegmentsByPeer
  <2>. QED
    BY <1>11, <2>1, <2>2 DEF RetransmitMissingSegmentsByPeer
<1>12. ASSUME NEW s \in Senders, Take(s) PROVE TypeOK'
  <2>1. CASE failed # <<>> /\ failed' = Tail(failed) /\ queue' = queue
             /\ sender' = [sender EXCEPT ![s] = [pc |-> "have", block |-> Head(failed)]]
    <3>1. Head(failed) \in Blocks /\ Tail(failed) \in Seq(Blocks)
      BY <2>1, PopFront
    <3>. QED
      BY <1>12, <2>1, <3>1 DEF Take
  <2>2. CASE queue # <<>> /\ queue' = Tail(queue) /\ failed' = failed
             /\ sender' = [sender EXCEPT ![s] = [pc |-> "have", block |-> Head(queue)]]
    <3>1. Head(queue) \in Blocks /\ Tail(queue) \in Seq(Blocks)
      BY <2>2, PopFront
    <3>. QED
      BY <1>12, <2>2, <3>1 DEF Take
  <2>. QED
    BY <1>12, <2>1, <2>2 DEF Take
<1>13. ASSUME NEW s \in Senders, Send(s) PROVE TypeOK'
  <2>1. sender' \in [Senders -> [pc : {"idle", "have", "sent"}, block : Blocks \cup {Nothing}]]
    BY <1>13 DEF Send
  <2>2. client' \in ClientType
    BY <1>13, <1>a DEF Send
  <2>. QED
    BY <1>13, <2>1, <2>2 DEF Send
<1>14. ASSUME NEW s \in Senders, SendFail(s) PROVE TypeOK'
  <2>1. failed' \in Seq(Blocks)
    BY <1>14, SendFailMoves, PushBack DEF SendFail
  <2>. QED
    BY <1>14, <2>1 DEF SendFail
<1>15. ASSUME NEW s \in Senders, AddSent(s) PROVE TypeOK'
  <2>1. sender[s].block \in Blocks
    BY <1>15 DEF AddSent, SendersSound
  <2>2. sent' \in Seq(Blocks)
    BY <1>15, <2>1, SentAdded DEF AddSent
  <2>. QED
    BY <1>15, <2>2 DEF AddSent
<1>16. CASE UNCHANGED vars
  BY <1>16 DEF vars
<1>. QED
  BY <1>1, <1>2, <1>3, <1>4, <1>5, <1>6, <1>7, <1>8, <1>9, <1>10, <1>11, <1>12, <1>13, <1>14, <1>15, <1>16,
     <1>17 DEF Next
LEMMA HeapKept ==
  ASSUME TypeOK, HeapBounded, TypeOK', [Next]_vars
  PROVE  HeapBounded'
<1>0. /\ client.written \in Nat /\ received.count \in Nat /\ received.leaked \in Nat
      /\ heap \subseteq Blocks /\ PoolTyped(Pool) /\ received.count + received.leaked <= NumReceived
      /\ Cardinality(heap) <= client.written + (received.count + received.leaked)
  BY SegmentPoolAssumption DEF TypeOK, HeapBounded, SegmentPoolAssumption
<1>1. ASSUME PoolTyped(Pool'), heap' \subseteq heap, client'.written = client.written,
             received'.count = received.count, received'.leaked = received.leaked
      PROVE  HeapBounded'
  <2>1. /\ Cardinality(heap) \in Nat /\ Cardinality(heap') \in Nat
        /\ Cardinality(heap') <= Cardinality(heap)
    BY <1>0, <1>1, NoMore
  <2>2. Cardinality(heap') <= client'.written + (received'.count + received'.leaked)
    BY <1>0, <1>1, <2>1
  <2>. QED
    BY <1>0, <1>1, <2>2 DEF HeapBounded, PoolTyped
<1>2. CASE Write
  <2>1. PoolTyped(Pool') /\ heap' \subseteq heap \cup {PoppedBlock(Pool)}
    BY <1>2, Pops DEF Write
  <2>2. /\ client'.written = client.written + 1 /\ received' = received
    BY <1>2 DEF Write, TypeOK
  <2>3. Cardinality(heap') \in Nat /\ Cardinality(heap) \in Nat /\ Cardinality(heap') <= Cardinality(heap) + 1
    BY <1>0, <2>1, NoMore, OneMore
  <2>4. Cardinality(heap') <= client'.written + (received'.count + received'.leaked)
    BY <1>0, <2>2, <2>3
  <2>. QED
    BY <1>0, <2>1, <2>2, <2>4 DEF HeapBounded, PoolTyped
<1>3. CASE Receive \/ LeakBlock
  <2>1. PoolTyped(Pool') /\ heap' \subseteq heap \cup {PoppedBlock(Pool)}
    BY <1>3, Pops DEF Receive, LeakBlock
  <2>2. /\ client' = client /\ received.count + received.leaked < NumReceived
        /\ \/ received'.count = received.count + 1 /\ received'.leaked = received.leaked
           \/ received'.count = received.count /\ received'.leaked = received.leaked + 1
    BY <1>3 DEF Receive, LeakBlock, TypeOK
  <2>3. Cardinality(heap') \in Nat /\ Cardinality(heap) \in Nat /\ Cardinality(heap') <= Cardinality(heap) + 1
    BY <1>0, <2>1, NoMore, OneMore
  <2>4. /\ Cardinality(heap') <= client'.written + (received'.count + received'.leaked)
        /\ received'.count + received'.leaked <= NumReceived
    BY <1>0, <2>2, <2>3, SegmentPoolAssumption DEF SegmentPoolAssumption
  <2>. QED
    BY <2>1, <2>4 DEF HeapBounded, PoolTyped
<1>4. CASE GiveBack
  <2>1. PoolTyped(Pool') /\ heap' = heap
    BY <1>4, GiveBackPushes
  <2>2. client' = client /\ received'.count = received.count /\ received'.leaked = received.leaked
    BY <1>4 DEF GiveBack, TypeOK
  <2>. QED
    BY <1>1, <2>1, <2>2
<1>5. CASE ShrinkAndUnlock
  <2>1. PoolTyped(Pool') /\ heap' \subseteq heap
    BY <1>5, ShrinkAndUnlockShrinks
  <2>. QED
    BY <1>1, <1>5, <2>1 DEF ShrinkAndUnlock
<1>6. CASE ShrinkUnlocked
  <2>1. PoolTyped(Pool') /\ heap' \subseteq heap
    BY <1>6, ShrinkUnlockedShrinks
  <2>. QED
    BY <1>1, <1>6, <2>1 DEF ShrinkUnlocked
<1>7. CASE DeallocateSentSegmentsByPeer /\ content[sent[control.at]] <= control.msg.last
  <2>1. PoolTyped(Pool') /\ heap' \subseteq heap
    BY <1>7, Released
  <2>. QED
    BY <1>1, <1>7, <2>1 DEF DeallocateSentSegmentsByPeer
<1>8. ASSUME UNCHANGED <<heap, free, received>>, client'.written = client.written PROVE HeapBounded'
  <2>1. Pool' = Pool
    BY <1>8 DEF Pool
  <2>. QED
    BY <1>0, <1>1, <1>8, <2>1
<1>9. CASE DeallocateSentSegmentsByPeer /\ ~(content[sent[control.at]] <= control.msg.last)
  BY <1>8, <1>9 DEF DeallocateSentSegmentsByPeer
<1>10. CASE ClientReceive \/ Lose \/ ClientRequest \/ HandleMessage
  <2>1. UNCHANGED <<heap, free, received>>
    BY <1>10 DEF ClientReceive, Lose, ClientRequest, HandleMessage
  <2>2. client = [link |-> client.link, got |-> client.got, inbox |-> client.inbox,
                  requests |-> client.requests, written |-> client.written]
    BY DEF TypeOK
  <2>3. CASE ClientReceive \/ Lose
    <3>1. PICK n \in client.link : \/ client' = [client EXCEPT !.link = @ \ {n}, !.got = @ \cup {n}]
                                    \/ client' = [client EXCEPT !.link = @ \ {n}]
      BY <2>3 DEF ClientReceive, Lose
    <3>. QED
      BY <1>8, <2>1, <2>2, <3>1
  <2>4. CASE ClientRequest
    <3>1. PICK msg : client' = [client EXCEPT !.inbox = Append(@, msg), !.requests = @ + 1]
      BY <2>4 DEF ClientRequest
    <3>. QED
      BY <1>8, <2>1, <2>2, <3>1
  <2>5. CASE HandleMessage
    BY <1>8, <2>1, <2>2, <2>5 DEF HandleMessage
  <2>. QED
    BY <1>10, <2>3, <2>4, <2>5
<1>11. CASE Deallocated \/ CheckSize \/ ShrinkLoop \/ RetransmitMissingSegmentsByPeer \/ Retransmitted
  BY <1>8, <1>11 DEF Deallocated, CheckSize, ShrinkLoop, RetransmitMissingSegmentsByPeer, Retransmitted
<1>12. ASSUME NEW s \in Senders, Take(s) \/ Send(s) \/ SendFail(s) \/ AddSent(s) PROVE HeapBounded'
  <2>1. UNCHANGED <<heap, free, received>>
    BY <1>12 DEF Take, Send, SendFail, AddSent
  <2>2. CASE Send(s)
    <3>1. client = [link |-> client.link, got |-> client.got, inbox |-> client.inbox,
                    requests |-> client.requests, written |-> client.written]
      BY DEF TypeOK
    <3>. QED
      BY <1>8, <2>1, <2>2, <3>1 DEF Send
  <2>3. CASE Take(s) \/ SendFail(s) \/ AddSent(s)
    BY <1>8, <2>1, <2>3 DEF Take, SendFail, AddSent
  <2>. QED
    BY <1>12, <2>2, <2>3
<1>13. CASE UNCHANGED vars
  BY <1>8, <1>13 DEF vars
<1>. QED
  BY <1>2, <1>3, <1>4, <1>5, <1>6, <1>7, <1>9, <1>10, <1>11, <1>12, <1>13 DEF Next

LEMMA SendersKept ==
  ASSUME TypeOK, SendersSound, [Next]_vars
  PROVE  SendersSound'
<1>1. \A b \in Blocks : b # Nothing
  BY UsedTyped
<1>2. ASSUME NEW s \in Senders, NEW p, NEW b, p = "idle" <=> b = Nothing,
             sender' = [sender EXCEPT ![s] = [pc |-> p, block |-> b]]
      PROVE  SendersSound'
  BY <1>2 DEF SendersSound, TypeOK
<1>3. ASSUME NEW s \in Senders, Take(s) PROVE SendersSound'
  <2>1. \/ failed # <<>> /\ sender' = [sender EXCEPT ![s] = [pc |-> "have", block |-> Head(failed)]]
        \/ queue # <<>> /\ sender' = [sender EXCEPT ![s] = [pc |-> "have", block |-> Head(queue)]]
    BY <1>3 DEF Take
  <2>2. /\ failed # <<>> => Head(failed) \in Blocks
        /\ queue # <<>> => Head(queue) \in Blocks
    BY PopFront DEF TypeOK
  <2>3. ASSUME NEW b \in Blocks, sender' = [sender EXCEPT ![s] = [pc |-> "have", block |-> b]]
        PROVE  SendersSound'
    <3>1. "have" = "idle" <=> b = Nothing
      BY <1>1
    <3>. QED
      BY <1>2, <2>3, <3>1
  <2>. QED
    BY <2>1, <2>2, <2>3
<1>4. ASSUME NEW s \in Senders, Send(s) PROVE SendersSound'
  <2>1. sender[s].block # Nothing
    BY <1>4 DEF Send, SendersSound
  <2>2. "sent" = "idle" <=> sender[s].block = Nothing
    BY <2>1
  <2>3. sender' = [sender EXCEPT ![s] = [pc |-> "sent", block |-> sender[s].block]]
    BY <1>4 DEF Send
  <2>. QED
    BY <1>2, <2>2, <2>3
<1>5. ASSUME NEW s \in Senders, SendFail(s) \/ AddSent(s) PROVE SendersSound'
  BY <1>2, <1>5 DEF SendFail, AddSent
<1>6. ASSUME sender' = sender PROVE SendersSound'
  BY <1>6 DEF SendersSound
<1>7. CASE \/ Write \/ Receive \/ LeakBlock \/ GiveBack \/ ShrinkAndUnlock
           \/ ClientReceive \/ Lose \/ ClientRequest \/ HandleMessage
  BY <1>6, <1>7 DEF Write, Receive, LeakBlock, GiveBack, ShrinkAndUnlock, ClientReceive, Lose, ClientRequest, HandleMessage
<1>8. CASE \/ DeallocateSentSegmentsByPeer \/ Deallocated \/ CheckSize \/ ShrinkLoop \/ ShrinkUnlocked
           \/ RetransmitMissingSegmentsByPeer \/ Retransmitted
  BY <1>6, <1>8 DEF DeallocateSentSegmentsByPeer, Deallocated, CheckSize, ShrinkLoop, ShrinkUnlocked,
                    RetransmitMissingSegmentsByPeer, Retransmitted
<1>9. CASE UNCHANGED vars
  BY <1>6, <1>9 DEF vars
<1>. QED
  BY <1>3, <1>4, <1>5, <1>7, <1>8, <1>9 DEF Next

-----------------------------------------------------------------------------
(***************************************************************************)
(* What leaves a part of the invariant alone                               *)
(***************************************************************************)
LEMMA MessageKept ==
  ASSUME NEW msg \in Messages, NEW c, NEW d, NEW torn, NEW torn2,
         MessageSound(msg, c, torn), c.got \subseteq d.got,
         c.written \in Nat, d.written \in Nat, c.written <= d.written, ~torn2 => ~torn
  PROVE  MessageSound(msg, d, torn2)
<1>1. msg.last \in Int
  BY DEF Messages, SeqNos
<1>. QED
  BY <1>1 DEF MessageSound

LEMMA BlocksKept ==
  ASSUME BlocksSound, NothingLost, ~reused' => ~reused, ~reused' => Live' = Live,
         ~reused' => Ascending(sent)', content' = content,
         ToSet(received'.queue) \subseteq ToSet(received.queue),
         client'.written = client.written, client.got \subseteq client'.got
  PROVE  BlocksSound' /\ NothingLost'
<1>1. ASSUME ~reused' PROVE BlocksSound'
  BY <1>1 DEF BlocksSound
<1>2. ASSUME ~reused', NEW n \in 0..client'.written - 1, n \notin client'.got
      PROVE  n \in Contents(InUse \cup ToSet(sent))'
  <2>1. n \in Contents(InUse \cup ToSet(sent))
    BY <1>2 DEF NothingLost
  <2>2. PICK b \in Live : content[b] = n
    BY <2>1 DEF Contents, Live
  <2>3. b \in Live' /\ content'[b] = n
    BY <1>2, <2>2
  <2>. HIDE DEF Live
  <2>. QED
    BY <2>3 DEF Contents, Live
<1>. QED
  BY <1>1, <1>2 DEF BlocksSound, NothingLost

LEMMA MemoryKept ==
  ASSUME MemorySound, ~reused' => ~reused, ~raced' => ~raced,
         heap' = heap, free' = free, received' = received,
         ~reused' => Used' \subseteq Used
  PROVE  MemorySound'
<1>1. Pool' = Pool
  BY DEF Pool
<1>2. ASSUME ~reused', PoolSound(Pool, Used) PROVE PoolSound(Pool', Used')
  <2>. HIDE DEF Used, Pool
  <2>. QED
    BY <1>1, <1>2 DEF PoolSound
<1>. QED
  BY <1>2 DEF MemorySound, PoolSound, PoolTyped

LEMMA ClientKept ==
  ASSUME TypeOK, TypeOK', ClientSound, client.got \subseteq client'.got,
         client.written <= client'.written, ~reused' => ~reused,
         ~reused' => client'.got \cup client'.link \subseteq 0..client'.written - 1,
         \A i \in DOMAIN client'.inbox : \E j \in DOMAIN client.inbox : client'.inbox[i] = client.inbox[j],
         \/ control'.pc \notin {"deallocate", "retransmit"}
         \/ control'.pc = control.pc /\ control'.msg = control.msg
  PROVE  ClientSound'
<1>1. client.written \in Nat /\ client'.written \in Nat
  BY SegmentPoolAssumption DEF TypeOK, SegmentPoolAssumption
<1>2. \A msg \in Messages : MessageSound(msg, client, reused) => MessageSound(msg, client', reused')
  BY <1>1, MessageKept
<1>3. ASSUME NEW i \in DOMAIN client'.inbox PROVE MessageSound(client'.inbox[i], client', reused')
  <2>1. PICK j \in DOMAIN client.inbox : client'.inbox[i] = client.inbox[j]
    OBVIOUS
  <2>2. client.inbox \in Seq(Messages)
    BY DEF TypeOK
  <2>3. client.inbox[j] \in Messages /\ MessageSound(client.inbox[j], client, reused)
    BY <2>2 DEF ClientSound
  <2>. QED
    BY <1>2, <2>1, <2>3
<1>4. ASSUME SentListLocked'
      PROVE  /\ control'.msg \in Messages /\ MessageSound(control'.msg, client', reused')
             /\ control'.pc = "deallocate" => control'.msg.type = "status"
             /\ control'.pc = "retransmit" => control'.msg.type = "retransmit"
  <2>1. control'.pc = control.pc /\ control'.msg = control.msg /\ SentListLocked
    BY <1>4 DEF SentListLocked
  <2>2. control.msg \in Messages /\ MessageSound(control.msg, client, reused)
    BY <2>1 DEF ClientSound
  <2>. QED
    BY <1>2, <2>1, <2>2 DEF ClientSound
<1>. QED
  BY <1>3, <1>4 DEF ClientSound, SentListLocked

LEMMA WalkKept ==
  ASSUME TypeOK, WalkSound, ~reused' => ~reused,
         control'.pc = "retransmit" =>
           /\ control' = control /\ sent' = sent
           /\ ~reused' => \A b \in ToSet(sent) : content'[b] = content[b],
         InUse \ {Nothing} \subseteq InUse'
  PROVE  WalkSound'
<1>1. SUFFICES ASSUME ~reused', control'.pc = "retransmit", NEW i \in 1..Len(sent'), i < control'.at,
                      content'[sent'[i]] \in control'.msg.first..control'.msg.last
               PROVE  sent'[i] \in InUse'
  BY DEF WalkSound
<1>2. control' = control /\ sent' = sent /\ \A b \in ToSet(sent) : content'[b] = content[b]
  BY <1>1
<1>3. sent[i] \in ToSet(sent) /\ sent[i] \in Blocks /\ sent[i] # Nothing
  <2>1. sent[i] \in ToSet(sent)
    <3>1. sent \in Seq(Blocks) /\ i \in 1..Len(sent)
      BY <1>1, <1>2 DEF TypeOK
    <3>. QED
      BY <3>1 DEF ToSet
  <2>. QED
    BY <2>1, UsedTyped
<1>4. sent[i] \in InUse
  BY <1>1, <1>2, <1>3 DEF WalkSound
<1>. QED
  BY <1>2, <1>3, <1>4
-----------------------------------------------------------------------------
(***************************************************************************)
(* The steps                                                               *)
(***************************************************************************)
SoundStep == BlocksSound' /\ MemorySound' /\ ClientSound' /\ WalkSound' /\ NothingLost'

\* A new segment is in a block that nothing uses, and behind all others.
LEMMA WriteSound ==
  ASSUME PInv, TypeOK', Write, ~raced
  PROVE  SoundStep
<1>. DEFINE b == PoppedBlock(Pool)
<1>. USE DEF PInv
<1>1. /\ PoolTyped(Pool) /\ Blocks \ Pool.heap # {} /\ b \in Blocks
      /\ Pool' = PopFreeSegment(Pool) /\ ~free'.locked /\ free'.size <= free.size
  BY Pops DEF Write
<1>2. /\ content' = [content EXCEPT ![b] = client.written] /\ queue' = Append(queue, b)
      /\ client' = [client EXCEPT !.written = @ + 1]
      /\ UNCHANGED <<failed, sent, sender, received, control, reused>>
  BY DEF Write
<1>. HIDE DEF b, PInv
<1>3. /\ client.written \in Nat /\ client.written < NumSegs /\ client'.written = client.written + 1
      /\ client'.got = client.got /\ client'.link = client.link /\ client'.inbox = client.inbox
  BY <1>2, SegmentPoolAssumption DEF PInv, TypeOK, Write, SegmentPoolAssumption
<1>4. InUse' = InUse \cup {b} /\ Live' = Live \cup {b} /\ Used' = Used \cup {b}
  <2>1. ToSet(queue') = ToSet(queue) \cup {b}
    <3>1. queue \in Seq(Blocks) /\ queue' = Append(queue, b)
      BY <1>2 DEF PInv, TypeOK
    <3>. QED
      BY <1>1, <3>1, PushBack
  <2>2. InUse' = InUse \cup {b}
    BY <1>2, <2>1 DEF InUse
  <2>3. b # Nothing
    BY <1>1, UsedTyped DEF PInv
  <2>. QED
    BY <1>2, <2>2, <2>3 DEF Live, Used
<1>5. ASSUME ~reused
      PROVE  /\ b \notin Used
             /\ PoolSound(Pool', Used \cup {b})
             /\ b \notin Live /\ b \notin ToSet(sent) /\ b \notin ToSet(received.queue)
             /\ \A c \in Live \cup ToSet(sent) \cup ToSet(received.queue) : content'[c] = content[c]
             /\ content'[b] = client.written
  <2>1. PoolSound(Pool, Used)
    BY <1>5 DEF PInv, MemorySound
  <2>2. b \notin Used /\ PoolSound(Pool', Used \cup {b})
    BY <1>1, <2>1, Popped DEF b
  <2>3. Live \cup ToSet(sent) \cup ToSet(received.queue) \subseteq Used /\ Used \subseteq Blocks
    BY UsedTyped DEF PInv, Used, Live
  <2>4. content \in [Blocks -> 0..NumSegs]
    BY DEF PInv, TypeOK
  <2>. QED
    BY <1>1, <1>2, <2>2, <2>3, <2>4
<1>6. ASSUME ~reused' PROVE BlocksSound'
  <2>0. ~reused
    BY <1>2, <1>6
  <2>1. /\ \A c \in Live : content[c] < client.written /\ content[c] \in Nat
        /\ \A c, d \in Live : content[c] = content[d] => c = d
        /\ Ascending(sent)
        /\ \A c \in ToSet(received.queue) : content[c] = Foreign
    BY <2>0, ContentTyped, UsedTyped DEF PInv, BlocksSound
  <2>2. \A c \in Live' : content'[c] < client'.written
    BY <1>3, <1>4, <1>5, <2>0, <2>1
  <2>3. \A c, d \in Live' : content'[c] = content'[d] => c = d
    BY <1>3, <1>4, <1>5, <2>0, <2>1
  <2>4. Ascending(sent)'
    <3>1. \A i \in 1..Len(sent) : sent[i] \in ToSet(sent)
      <4>1. sent \in Seq(Blocks)
        BY DEF PInv, TypeOK
      <4>. QED
        BY <4>1 DEF ToSet
    <3>. QED
      BY <1>2, <1>5, <2>0, <2>1, <3>1 DEF Ascending
  <2>5. \A c \in ToSet(received.queue)' : content'[c] = Foreign
    BY <1>2, <1>5, <2>0, <2>1
  <2>. QED
    BY <2>2, <2>3, <2>4, <2>5 DEF BlocksSound
<1>7. MemorySound'
  <2>1. ASSUME ~reused', ~raced' PROVE PoolSound(Pool, Used)' /\ IsInjective(received.queue)'
    BY <1>2, <1>4, <1>5, <2>1 DEF PInv, MemorySound
  <2>2. ASSUME ~reused', ~raced' PROVE free'.size <= kSegFreeThreshold
    <3>1. free.size <= kSegFreeThreshold
      BY <1>2, <2>2 DEF PInv, MemorySound, Write
    <3>2. free.size \in Nat /\ free'.size \in Nat /\ kSegFreeThreshold \in Nat
      BY SegmentPoolAssumption DEF PInv, TypeOK, SegmentPoolAssumption
    <3>. QED
      BY <1>1, <3>1, <3>2
  <2>. QED
    BY <2>1, <2>2 DEF MemorySound
<1>8. ClientSound'
  <2>1. ASSUME ~reused' PROVE client'.got \cup client'.link \subseteq 0..client'.written - 1
    BY <1>2, <1>3, <2>1 DEF PInv, ClientSound
  <2>2. client.written <= client'.written
    BY <1>3
  <2>. QED
    BY <1>2, <1>3, <2>1, <2>2, ClientKept DEF PInv
<1>9. WalkSound'
  <2>1. InUse \ {Nothing} \subseteq InUse'
    BY <1>4
  <2>. QED
    BY <1>2, <1>5, <2>1, WalkKept DEF PInv
<1>10. ASSUME ~reused', NEW n \in 0..client'.written - 1, n \notin client'.got
       PROVE  n \in Contents(InUse \cup ToSet(sent))'
  <2>1. PICK c \in Live' : content'[c] = n
    <3>1. CASE n = client.written
      BY <1>2, <1>4, <1>5, <1>10, <3>1
    <3>2. CASE n # client.written
      <4>1. n \in 0..client.written - 1
        BY <1>3, <3>2
      <4>2. n \in Contents(InUse \cup ToSet(sent))
        BY <1>2, <1>3, <1>10, <4>1 DEF PInv, NothingLost
      <4>3. PICK c \in Live : content[c] = n
        BY <4>2 DEF Contents, Live
      <4>. QED
        BY <1>2, <1>4, <1>5, <1>10, <4>3
    <3>. QED
      BY <3>1, <3>2
  <2>. QED
    BY <2>1 DEF Contents, Live
<1>11. BlocksSound' /\ NothingLost'
  BY <1>6, <1>10 DEF BlocksSound, NothingLost
<1>. QED
  BY <1>7, <1>8, <1>9, <1>11 DEF SoundStep

\* A segment of the client is in a block that nothing uses.
LEMMA ReceiveSound ==
  ASSUME PInv, TypeOK', Receive, ~raced
  PROVE  SoundStep
<1>. DEFINE b == PoppedBlock(Pool)
<1>. USE DEF PInv
<1>1. /\ PoolTyped(Pool) /\ Blocks \ Pool.heap # {} /\ b \in Blocks
      /\ Pool' = PopFreeSegment(Pool) /\ ~free'.locked /\ free'.size <= free.size
  BY Pops DEF Receive
<1>2. /\ content' = [content EXCEPT ![b] = Foreign]
      /\ received'.queue = Append(received.queue, b)
      /\ UNCHANGED <<queue, failed, sent, sender, client, control, reused>>
  BY DEF Receive, TypeOK
<1>. HIDE DEF b, PInv
<1>3. InUse' = InUse /\ Live' = Live /\ Used' = Used \cup {b} /\ ToSet(received'.queue) = ToSet(received.queue) \cup {b}
  <2>1. ToSet(received'.queue) = ToSet(received.queue) \cup {b}
    <3>1. received.queue \in Seq(Blocks)
      BY DEF PInv, TypeOK
    <3>. QED
      BY <1>1, <1>2, <3>1, PushBack
  <2>2. InUse' = InUse
    BY <1>2 DEF InUse
  <2>. QED
    BY <1>2, <2>1, <2>2 DEF Live, Used
<1>4. ASSUME ~reused
      PROVE  /\ b \notin Live /\ b \notin ToSet(sent) /\ b \notin ToSet(received.queue)
             /\ PoolSound(Pool', Used \cup {b})
             /\ \A d \in Live \cup ToSet(sent) \cup ToSet(received.queue) : content'[d] = content[d]
             /\ content'[b] = Foreign
  <2>1. PoolSound(Pool, Used)
    BY <1>4 DEF PInv, MemorySound
  <2>2. b \notin Used /\ PoolSound(Pool', Used \cup {b})
    BY <1>1, <2>1, Popped DEF b
  <2>5. Live \cup ToSet(sent) \cup ToSet(received.queue) \subseteq Used /\ Used \subseteq Blocks
    BY UsedTyped DEF PInv, Used, Live
  <2>6. content \in [Blocks -> 0..NumSegs]
    BY DEF PInv, TypeOK
  <2>. QED
    BY <1>1, <1>2, <2>2, <2>5, <2>6
<1>5. ASSUME ~reused' PROVE BlocksSound'
  <2>0. ~reused
    BY <1>2, <1>5
  <2>1. /\ \A d \in Live : content[d] < client.written
        /\ \A d, e \in Live : content[d] = content[e] => d = e
        /\ Ascending(sent)
        /\ \A d \in ToSet(received.queue) : content[d] = Foreign
    BY <2>0 DEF PInv, BlocksSound
  <2>2. \A d \in Live' : content'[d] < client'.written
    BY <1>2, <1>3, <1>4, <2>0, <2>1
  <2>3. \A d, e \in Live' : content'[d] = content'[e] => d = e
    BY <1>3, <1>4, <2>0, <2>1
  <2>4. Ascending(sent)'
    <3>1. \A i \in 1..Len(sent) : sent[i] \in ToSet(sent)
      <4>1. sent \in Seq(Blocks)
        BY DEF PInv, TypeOK
      <4>. QED
        BY <4>1 DEF ToSet
    <3>. QED
      BY <1>2, <1>4, <2>0, <2>1, <3>1 DEF Ascending
  <2>5. \A d \in ToSet(received'.queue) : content'[d] = Foreign
    BY <1>3, <1>4, <2>0, <2>1
  <2>. QED
    BY <2>2, <2>3, <2>4, <2>5 DEF BlocksSound
<1>6. MemorySound'
  <2>1. ASSUME ~reused', ~raced' PROVE PoolSound(Pool, Used)'
    BY <1>2, <1>3, <1>4, <2>1
  <2>2. ASSUME ~reused', ~raced' PROVE IsInjective(received.queue)'
    BY <1>1, <1>2, <1>4, <2>2, PushBack DEF PInv, MemorySound, TypeOK
  <2>3. ASSUME ~reused', ~raced' PROVE free'.size <= kSegFreeThreshold
    <3>1. free.size <= kSegFreeThreshold
      BY <1>2, <2>3 DEF PInv, MemorySound, Receive
    <3>2. free.size \in Nat /\ free'.size \in Nat /\ kSegFreeThreshold \in Nat
      BY SegmentPoolAssumption DEF PInv, TypeOK, SegmentPoolAssumption
    <3>. QED
      BY <1>1, <3>1, <3>2
  <2>. QED
    BY <2>1, <2>2, <2>3 DEF MemorySound
<1>7. ClientSound'
  <2>1. client.written <= client'.written
    BY <1>2, SegmentPoolAssumption DEF PInv, TypeOK, SegmentPoolAssumption
  <2>2. ~reused' => client'.got \cup client'.link \subseteq 0..client'.written - 1
    BY <1>2 DEF PInv, ClientSound
  <2>. QED
    BY <1>2, <2>1, <2>2, ClientKept DEF PInv
<1>8. WalkSound'
  <2>1. InUse \ {Nothing} \subseteq InUse'
    BY <1>3
  <2>. QED
    BY <1>2, <1>4, <2>1, WalkKept DEF PInv
<1>9. ASSUME ~reused', NEW n \in 0..client'.written - 1, n \notin client'.got
       PROVE  n \in Contents(InUse \cup ToSet(sent))'
  <2>1. PICK d \in Live : content[d] = n
    <3>1. n \in Contents(InUse \cup ToSet(sent))
      BY <1>2, <1>9 DEF PInv, NothingLost
    <3>. QED
      BY <3>1 DEF Contents, Live
  <2>2. d \in Live' /\ content'[d] = n
    BY <1>2, <1>3, <1>4, <1>9, <2>1
  <2>. QED
    BY <2>2 DEF Contents, Live
<1>10. BlocksSound' /\ NothingLost'
  BY <1>5, <1>9 DEF BlocksSound, NothingLost
<1>. QED
  BY <1>6, <1>7, <1>8, <1>10 DEF SoundStep

\* The steps that leave every list but the free list alone, and the client.
LEMMA ListsKept ==
  ASSUME PInv, TypeOK',
         UNCHANGED <<content, queue, failed, sent, sender, client, reused>>, received'.queue = received.queue,
         \/ control'.pc \notin {"deallocate", "retransmit"}
         \/ control' = control
  PROVE  BlocksSound' /\ ClientSound' /\ WalkSound' /\ NothingLost' /\ Used' = Used
<1>1. InUse' = InUse /\ Live' = Live /\ Used' = Used
  BY DEF InUse, Live, Used
<1>2. BlocksSound' /\ NothingLost'
  <2>1. ASSUME ~reused' PROVE Ascending(sent)'
    BY <2>1 DEF PInv, BlocksSound, Ascending
  <2>. QED
    BY <1>1, <2>1, BlocksKept DEF PInv
<1>3. ClientSound'
  <2>1. client.written <= client'.written
    BY SegmentPoolAssumption DEF PInv, TypeOK, SegmentPoolAssumption
  <2>2. ~reused' => client'.got \cup client'.link \subseteq 0..client'.written - 1
    BY DEF PInv, ClientSound
  <2>. QED
    BY <2>1, <2>2, ClientKept DEF PInv
<1>4. WalkSound'
  <2>1. InUse \ {Nothing} \subseteq InUse'
    BY <1>1
  <2>. QED
    BY <2>1, WalkKept DEF PInv
<1>. QED
  BY <1>1, <1>2, <1>3, <1>4

\* A block that is lost was in no other list.
LEMMA LeakBlockSound ==
  ASSUME PInv, TypeOK', LeakBlock, ~raced
  PROVE  SoundStep
<1>1. /\ PoolTyped(Pool) /\ Blocks \ Pool.heap # {}
      /\ Pool' = PopFreeSegment(Pool) /\ ~free'.locked /\ free'.size <= free.size
  BY Pops DEF PInv, LeakBlock
<1>2. received'.queue = received.queue /\ UNCHANGED <<content, queue, failed, sent, sender, client, control, reused>>
  BY DEF LeakBlock, PInv, TypeOK
<1>3. BlocksSound' /\ ClientSound' /\ WalkSound' /\ NothingLost' /\ Used' = Used
  BY <1>2, ListsKept
<1>4. ASSUME ~reused' PROVE PoolSound(Pool, Used)' /\ IsInjective(received.queue)'
  <2>1. PoolSound(Pool, Used) /\ IsInjective(received.queue)
    BY <1>2, <1>4 DEF PInv, MemorySound
  <2>2. PoolSound(Pool', Used \cup {PoppedBlock(Pool)})
    BY <1>1, <2>1, Popped
  <2>. QED
    BY <1>2, <1>3, <2>1, <2>2 DEF PoolSound
<1>5. ASSUME ~reused' PROVE free'.size <= kSegFreeThreshold
  <2>1. free.size <= kSegFreeThreshold
    BY <1>2, <1>5 DEF PInv, MemorySound, LeakBlock
  <2>2. free.size \in Nat /\ free'.size \in Nat /\ kSegFreeThreshold \in Nat
    BY SegmentPoolAssumption DEF PInv, TypeOK, SegmentPoolAssumption
  <2>. QED
    BY <1>1, <2>1, <2>2
<1>6. MemorySound'
  BY <1>4, <1>5 DEF MemorySound
<1>. QED
  BY <1>3, <1>6 DEF SoundStep

\* The application gives back a block that is in no other list.
LEMMA GiveBackSound ==
  ASSUME PInv, TypeOK', GiveBack, ~raced
  PROVE  SoundStep
<1>. DEFINE b == Head(received.queue)
            pushed == [list |-> <<b>> \o Pool.list, size |-> Pool.size + 1, heap |-> Pool.heap]
<1>. USE DEF PInv
<1>1. b \in Blocks /\ Pool' = pushed /\ free'.locked
  BY GiveBackPushes
<1>2. /\ received'.queue = Tail(received.queue) /\ received.queue # <<>> /\ received.queue \in Seq(Blocks)
      /\ UNCHANGED <<content, queue, failed, sent, sender, client, control, reused>>
  BY DEF GiveBack, TypeOK
<1>3. PoolTyped(Pool)
  BY DEF HeapBounded
<1>4. \A used, others : PoolSound(Pool, used) /\ b \in used /\ others \subseteq used \ {b} => PoolSound(pushed, others)
  BY <1>1, <1>3, Pushed
<1>. HIDE DEF pushed, PInv
<1>5. /\ ToSet(received.queue) = {b} \cup ToSet(received'.queue)
      /\ IsInjective(received.queue) => IsInjective(received'.queue) /\ b \notin ToSet(received'.queue)
  BY <1>2, PopFront
<1>. HIDE DEF b
<1>6. InUse' = InUse /\ Live' = Live /\ Used' = Live \cup ToSet(received'.queue)
  BY <1>2 DEF InUse, Live, Used
<1>7. MemorySound'
  <2>1. ASSUME ~reused', ~raced' PROVE PoolSound(Pool, Used)' /\ IsInjective(received.queue)'
    <3>1. PoolSound(Pool, Used) /\ IsInjective(received.queue) /\ ~reused
      BY <1>2, <2>1 DEF PInv, MemorySound
    <3>2. b \notin Live
      <4>1. content[b] = Foreign
        BY <1>5, <3>1 DEF PInv, BlocksSound
      <4>2. client.written <= NumSegs /\ NumSegs \in Nat /\ client.written \in Nat
        BY SegmentPoolAssumption DEF PInv, TypeOK, SegmentPoolAssumption
      <4>3. b \in Live => content[b] < client.written
        BY <3>1 DEF PInv, BlocksSound
      <4>. QED
        BY <4>1, <4>2, <4>3 DEF Foreign
    <3>3. b \in Used /\ Used' \subseteq Used \ {b}
      <4>1. Used = Live \cup ToSet(received.queue)
        BY DEF Used
      <4>. QED
        BY <1>5, <1>6, <3>1, <3>2, <4>1
    <3>. QED
      BY <1>1, <1>4, <1>5, <3>1, <3>3
  <2>. QED
    BY <1>1, <2>1 DEF MemorySound
<1>8. BlocksSound' /\ NothingLost'
  <2>1. ASSUME ~reused' PROVE Ascending(sent)'
    BY <1>2, <2>1 DEF PInv, BlocksSound, Ascending
  <2>2. ToSet(received'.queue) \subseteq ToSet(received.queue)
    BY <1>5
  <2>. QED
    BY <1>2, <1>6, <2>1, <2>2, BlocksKept DEF PInv
<1>9. ClientSound'
  <2>1. client.written <= client'.written
    BY <1>2, SegmentPoolAssumption DEF PInv, TypeOK, SegmentPoolAssumption
  <2>2. ~reused' => client'.got \cup client'.link \subseteq 0..client'.written - 1
    BY <1>2 DEF PInv, ClientSound
  <2>. QED
    BY <1>2, <2>1, <2>2, ClientKept DEF PInv
<1>10. WalkSound'
  <2>1. InUse \ {Nothing} \subseteq InUse'
    BY <1>6
  <2>. QED
    BY <1>2, <2>1, WalkKept DEF PInv
<1>. QED
  BY <1>7, <1>8, <1>9, <1>10 DEF SoundStep

LEMMA ShrinkAndUnlockSound ==
  ASSUME PInv, TypeOK', ShrinkAndUnlock, ~raced
  PROVE  SoundStep
<1>. DEFINE shrunk == ShrinkFreeSegmentList(Pool, kSegFreeThreshold \div 2)
<1>1. UNCHANGED <<content, queue, failed, sent, sender, received, client, control, reused>>
  BY DEF ShrinkAndUnlock
<1>2. BlocksSound' /\ ClientSound' /\ WalkSound' /\ NothingLost' /\ Used' = Used
  BY <1>1, ListsKept
<1>3. /\ PoolTyped(Pool) /\ (Pool' = Pool \/ Pool' = shrunk)
      /\ free'.size <= kSegFreeThreshold
  BY ShrinkAndUnlockShrinks DEF PInv
<1>4. \A used : PoolSound(Pool, used) => PoolSound(shrunk, used)
  BY <1>3, HalfTyped, Shrunk
<1>. HIDE DEF shrunk
<1>5. ASSUME ~reused', ~raced' PROVE PoolSound(Pool, Used)' /\ IsInjective(received.queue)'
  BY <1>1, <1>2, <1>3, <1>4, <1>5 DEF PInv, MemorySound
<1>6. MemorySound'
  BY <1>3, <1>5 DEF MemorySound
<1>. QED
  BY <1>2, <1>6 DEF SoundStep

\* Shrinking without the lock is sound unless another thread has the lock.
LEMMA ShrinkUnlockedSound ==
  ASSUME PInv, TypeOK', ShrinkUnlocked, ~raced
  PROVE  SoundStep
<1>1. UNCHANGED <<content, queue, failed, sent, sender, received, client, reused>>
  BY DEF ShrinkUnlocked
<1>2. BlocksSound' /\ ClientSound' /\ WalkSound' /\ NothingLost' /\ Used' = Used
  <2>1. control'.pc \notin {"deallocate", "retransmit"}
    BY DEF ShrinkUnlocked, Leave
  <2>. QED
    BY <1>1, <2>1, ListsKept
<1>3. /\ \A used : PoolSound(Pool, used) => PoolSound(Pool', used)
      /\ free'.size <= free.size /\ free'.locked = free.locked
  BY ShrinkUnlockedShrinks DEF PInv
<1>4. ASSUME ~reused', ~raced' PROVE PoolSound(Pool, Used)' /\ IsInjective(received.queue)'
  BY <1>1, <1>2, <1>3, <1>4 DEF PInv, MemorySound
<1>5. ASSUME ~reused', ~free'.locked PROVE free'.size <= kSegFreeThreshold
  <2>1. free.size <= kSegFreeThreshold
    BY <1>1, <1>3, <1>5 DEF PInv, MemorySound
  <2>2. free.size \in Nat /\ free'.size \in Nat /\ kSegFreeThreshold \in Nat
    BY SegmentPoolAssumption DEF PInv, TypeOK, SegmentPoolAssumption
  <2>. QED
    BY <1>3, <2>1, <2>2
<1>6. MemorySound'
  BY <1>4, <1>5 DEF MemorySound
<1>. QED
  BY <1>2, <1>6 DEF SoundStep

LEMMA LeaveSound ==
  ASSUME PInv, TypeOK', Deallocated \/ CheckSize \/ ShrinkLoop \/ Retransmitted, ~raced
  PROVE  SoundStep
<1>1. /\ UNCHANGED <<heap, content, free, queue, failed, sent, sender, received, client, reused, raced>>
      /\ control'.pc \notin {"deallocate", "retransmit"}
  BY DEF Deallocated, CheckSize, ShrinkLoop, Retransmitted, Leave
<1>2. BlocksSound' /\ ClientSound' /\ WalkSound' /\ NothingLost' /\ Used' = Used
  BY <1>1, ListsKept
<1>3. MemorySound'
  BY <1>1, <1>2, MemoryKept DEF PInv
<1>. QED
  BY <1>2, <1>3 DEF SoundStep

\* A segment is released that the client has, and that nothing else uses.
LEMMA DeallocateSound ==
  ASSUME PInv, TypeOK', DeallocateSentSegmentsByPeer, ~raced
  PROVE  SoundStep
<1>. DEFINE b == sent[control.at]
<1>1. CASE content[b] <= control.msg.last
  <2>1. /\ b \in ToSet(sent) /\ b \in Blocks /\ PoolTyped(Pool) /\ Pool' = AddFreeSegment(Pool, b)
        /\ free'.size <= kSegFreeThreshold
        /\ ToSet(sent') \subseteq ToSet(sent) /\ ToSet(sent) \ {b} \subseteq ToSet(sent')
        /\ Ascending(sent) => Ascending(sent') /\ b \notin ToSet(sent')
    BY <1>1, Released DEF PInv
  <2>2. /\ UNCHANGED <<content, queue, failed, sender, received, client, control, raced>>
        /\ reused' = (reused \/ b \in InUse)
    BY <1>1 DEF DeallocateSentSegmentsByPeer
  <2>3. \A used, others : PoolSound(Pool, used) /\ b \in used /\ others \subseteq used \ {b}
          => PoolSound(Pool', others)
    BY <2>1, Added
  <2>. HIDE DEF b
  <2>4. InUse' = InUse
    BY <2>2 DEF InUse
  <2>5. ASSUME ~reused'
        PROVE  /\ ~reused /\ b \notin InUse /\ b \in Live /\ b \notin ToSet(sent')
               /\ Live' = Live \ {b} /\ b \notin ToSet(received.queue)
               /\ Ascending(sent')
    <3>1. ~reused /\ b \notin InUse
      BY <2>2, <2>5 DEF PInv, TypeOK
    <3>2. b \notin ToSet(sent') /\ Ascending(sent')
      BY <2>1, <3>1 DEF PInv, BlocksSound
    <3>3. b \in Live
      BY <2>1, UsedTyped DEF PInv, Live
    <3>4. Live' = Live \ {b}
      BY <2>1, <2>4, <3>1, <3>2 DEF Live
    <3>5. b \notin ToSet(received.queue)
      <4>1. client.written <= NumSegs /\ NumSegs \in Nat /\ client.written \in Nat
        BY SegmentPoolAssumption DEF PInv, TypeOK, SegmentPoolAssumption
      <4>2. content[b] < client.written /\ (b \in ToSet(received.queue) => content[b] = Foreign)
        BY <3>1, <3>3 DEF PInv, BlocksSound
      <4>. QED
        BY <4>1, <4>2 DEF Foreign
    <3>. QED
      BY <3>1, <3>2, <3>3, <3>4, <3>5
  <2>6. BlocksSound'
    <3>1. ASSUME ~reused' PROVE Ascending(sent)'
      BY <2>2, <2>5, <3>1 DEF Ascending
    <3>2. ASSUME ~reused' PROVE Live' \subseteq Live /\ ~reused
      BY <2>5, <3>2
    <3>. HIDE DEF Live
    <3>. QED
      BY <2>2, <3>1, <3>2 DEF PInv, BlocksSound
  <2>7. MemorySound'
    <3>1. ASSUME ~reused', ~raced' PROVE PoolSound(Pool, Used)'
      <4>1. Used = Live \cup ToSet(received.queue) /\ Used' = Live' \cup ToSet(received.queue)
        BY <2>2 DEF Used
      <4>2. b \in Used /\ Used' \subseteq Used \ {b}
        BY <2>5, <3>1, <4>1
      <4>3. PoolSound(Pool, Used)
        BY <2>2, <2>5, <3>1 DEF PInv, MemorySound
      <4>. QED
        BY <2>3, <4>2, <4>3
    <3>. QED
      BY <2>1, <2>2, <2>5, <3>1 DEF PInv, MemorySound
  <2>8. ClientSound'
    <3>1. client.written <= client'.written
      BY <2>2, SegmentPoolAssumption DEF PInv, TypeOK, SegmentPoolAssumption
    <3>2. ~reused' => client'.got \cup client'.link \subseteq 0..client'.written - 1
      BY <2>2, <2>5 DEF PInv, ClientSound
    <3>. QED
      BY <2>2, <2>5, <3>1, <3>2, ClientKept DEF PInv
  <2>9. WalkSound'
    BY <2>2 DEF WalkSound, DeallocateSentSegmentsByPeer
  <2>10. ASSUME ~reused', NEW n \in 0..client'.written - 1, n \notin client'.got
         PROVE  n \in Contents(InUse \cup ToSet(sent))'
    <3>1. PICK c \in Live : content[c] = n
      <4>1. n \in Contents(InUse \cup ToSet(sent))
        BY <2>2, <2>5, <2>10 DEF PInv, NothingLost
      <4>. QED
        BY <4>1 DEF Contents, Live
    <3>2. c # b
      <4>1. \A m \in 0..control.msg.last : m \in client.got
        BY DEF PInv, ClientSound, MessageSound, SentListLocked, DeallocateSentSegmentsByPeer
      <4>2. content[b] \in Nat
        BY <2>1, ContentTyped DEF PInv
      <4>3. control.msg.last \in Int
        BY DEF PInv, ClientSound, SentListLocked, DeallocateSentSegmentsByPeer, Messages, SeqNos
      <4>4. content[b] \in client.got
        BY <1>1, <4>1, <4>2, <4>3 DEF b
      <4>. QED
        BY <2>2, <2>10, <3>1, <4>4
    <3>3. c \in Live' /\ content'[c] = n
      BY <2>2, <2>5, <2>10, <3>1, <3>2
    <3>. QED
      BY <3>3 DEF Contents, Live
  <2>11. NothingLost'
    BY <2>10 DEF NothingLost
  <2>. QED
    BY <2>6, <2>7, <2>8, <2>9, <2>11 DEF SoundStep
<1>2. CASE ~(content[b] <= control.msg.last)
  <2>1. /\ UNCHANGED <<heap, content, free, queue, failed, sent, sender, received, client, reused, raced>>
        /\ control.pc = "deallocate" /\ control' = [control EXCEPT !.at = @ + 1]
    BY <1>2 DEF DeallocateSentSegmentsByPeer, Advance
  <2>2. control'.pc = control.pc /\ control'.msg = control.msg
    BY <2>1 DEF PInv, TypeOK
  <2>3. InUse' = InUse /\ Live' = Live /\ Used' = Used
    BY <2>1 DEF InUse, Live, Used
  <2>4. BlocksSound' /\ NothingLost'
    <3>1. ASSUME ~reused' PROVE Ascending(sent)'
      BY <2>1, <3>1 DEF PInv, BlocksSound, Ascending
    <3>. QED
      BY <2>1, <2>3, <3>1, BlocksKept DEF PInv
  <2>5. ClientSound'
    <3>1. client.written <= client'.written
      BY <2>1, SegmentPoolAssumption DEF PInv, TypeOK, SegmentPoolAssumption
    <3>2. ~reused' => client'.got \cup client'.link \subseteq 0..client'.written - 1
      BY <2>1 DEF PInv, ClientSound
    <3>. QED
      BY <2>1, <2>2, <3>1, <3>2, ClientKept DEF PInv
  <2>6. WalkSound'
    BY <2>1, <2>2 DEF WalkSound
  <2>7. MemorySound'
    BY <2>1, <2>3, MemoryKept DEF PInv
  <2>. QED
    BY <2>4, <2>5, <2>6, <2>7 DEF SoundStep
<1>. QED
  BY <1>1, <1>2
\* A walk over the sent list starts before its first segment.
LEMMA HandleMessageSound ==
  ASSUME PInv, TypeOK', HandleMessage, ~raced
  PROVE  SoundStep
<1>. DEFINE msg == Head(client.inbox)
<1>1. /\ UNCHANGED <<heap, content, free, queue, failed, sent, sender, received, reused, raced>>
      /\ client.inbox # <<>> /\ client.inbox \in Seq(Messages)
      /\ control' = [pc |-> IF msg.type = "status" THEN "deallocate" ELSE "retransmit", msg |-> msg, at |-> 1]
      /\ client'.inbox = Tail(client.inbox) /\ client'.got = client.got
      /\ client'.link = client.link /\ client'.written = client.written
  BY DEF PInv, TypeOK, HandleMessage
<1>2. /\ msg \in Messages /\ msg = client.inbox[1] /\ 1 \in DOMAIN client.inbox
      /\ client'.inbox \in Seq(Messages)
      /\ \A i \in DOMAIN client'.inbox : i + 1 \in DOMAIN client.inbox /\ client'.inbox[i] = client.inbox[i + 1]
  BY <1>1
<1>. HIDE DEF msg
<1>3. client.written \in Nat /\ client'.written \in Nat
  BY SegmentPoolAssumption DEF PInv, TypeOK, SegmentPoolAssumption
<1>4. \A m \in Messages : MessageSound(m, client, reused) => MessageSound(m, client', reused')
  <2>1. client.got \subseteq client'.got /\ client.written <= client'.written
    BY <1>1, <1>3
  <2>. QED
    BY <1>1, <1>3, <2>1, MessageKept
<1>5. \A i \in DOMAIN client.inbox : client.inbox[i] \in Messages /\ MessageSound(client.inbox[i], client, reused)
  BY <1>1 DEF PInv, ClientSound
<1>6. ClientSound'
  <2>1. ASSUME NEW i \in DOMAIN client'.inbox PROVE MessageSound(client'.inbox[i], client', reused')
    BY <1>2, <1>4, <1>5
  <2>2. control'.msg = msg /\ MessageSound(msg, client', reused')
    BY <1>1, <1>2, <1>4, <1>5
  <2>3. /\ control'.pc = "deallocate" => msg.type = "status"
        /\ control'.pc = "retransmit" => msg.type = "retransmit"
    <3>1. msg.type \in {"status", "retransmit"}
      BY <1>2 DEF Messages
    <3>. QED
      BY <1>1, <3>1
  <2>4. ~reused' => client'.got \cup client'.link \subseteq 0..client'.written - 1
    BY <1>1 DEF PInv, ClientSound
  <2>. QED
    BY <1>2, <2>1, <2>2, <2>3, <2>4 DEF ClientSound
<1>7. InUse' = InUse /\ Live' = Live /\ Used' = Used
  BY <1>1 DEF InUse, Live, Used
<1>8. BlocksSound' /\ NothingLost'
  <2>1. ASSUME ~reused' PROVE Ascending(sent)'
    BY <1>1, <2>1 DEF PInv, BlocksSound, Ascending
  <2>. QED
    BY <1>1, <1>7, <2>1, BlocksKept DEF PInv
<1>9. MemorySound'
  BY <1>1, <1>7, MemoryKept DEF PInv
<1>10. WalkSound'
  <2>1. \A i \in 1..Len(sent') : ~(i < control'.at)
    BY <1>1
  <2>. QED
    BY <2>1 DEF WalkSound
<1>. QED
  BY <1>6, <1>8, <1>9, <1>10 DEF SoundStep

\* The steps of the client and of the senders, which leave the memory alone.
LEMMA Unmoved ==
  ASSUME PInv, TypeOK',
         UNCHANGED <<heap, content, free, received, control, reused, raced>>,
         ~reused' => Live' = Live /\ Ascending(sent)',
         control.pc = "retransmit" => sent' = sent,
         InUse \ {Nothing} \subseteq InUse',
         client'.written = client.written, client.got \subseteq client'.got
  PROVE  BlocksSound' /\ MemorySound' /\ WalkSound' /\ NothingLost'
<1>1. BlocksSound' /\ NothingLost'
  BY BlocksKept DEF PInv
<1>2. MemorySound'
  <2>1. ~reused' => Used' \subseteq Used
    BY DEF Used
  <2>. QED
    BY <2>1, MemoryKept DEF PInv
<1>3. WalkSound'
  BY WalkKept DEF PInv
<1>. QED
  BY <1>1, <1>2, <1>3

LEMMA ClientStepSound ==
  ASSUME PInv, TypeOK', ClientReceive \/ Lose, ~raced
  PROVE  SoundStep
<1>1. /\ UNCHANGED <<heap, content, free, queue, failed, sent, sender, received, control, reused, raced>>
      /\ \E n \in client.link : \/ client' = [client EXCEPT !.link = @ \ {n}, !.got = @ \cup {n}]
                                \/ client' = [client EXCEPT !.link = @ \ {n}]
  BY DEF ClientReceive, Lose
<1>2. /\ client'.written = client.written /\ client.got \subseteq client'.got /\ client'.inbox = client.inbox
      /\ client'.got \cup client'.link \subseteq client.got \cup client.link
  <2>1. PICK n \in client.link : \/ client' = [client EXCEPT !.link = @ \ {n}, !.got = @ \cup {n}]
                                  \/ client' = [client EXCEPT !.link = @ \ {n}]
    BY <1>1
  <2>2. /\ client'.written = client.written /\ client'.inbox = client.inbox
        /\ client'.link = client.link \ {n}
        /\ client'.got = client.got \cup {n} \/ client'.got = client.got
    <3>1. client = [link |-> client.link, got |-> client.got, inbox |-> client.inbox,
                    requests |-> client.requests, written |-> client.written]
      BY DEF PInv, TypeOK
    <3>2. CASE client' = [client EXCEPT !.link = @ \ {n}, !.got = @ \cup {n}]
      BY <3>1, <3>2
    <3>3. CASE client' = [client EXCEPT !.link = @ \ {n}]
      BY <3>1, <3>3
    <3>. QED
      BY <2>1, <3>2, <3>3
  <2>. QED
    BY <2>1, <2>2
<1>3. InUse' = InUse /\ Live' = Live
  BY <1>1 DEF InUse, Live
<1>4. BlocksSound' /\ MemorySound' /\ WalkSound' /\ NothingLost'
  <2>1. ASSUME ~reused' PROVE Ascending(sent)'
    BY <1>1, <2>1 DEF PInv, BlocksSound, Ascending
  <2>2. InUse \ {Nothing} \subseteq InUse'
    BY <1>3
  <2>. QED
    BY <1>1, <1>2, <1>3, <2>1, <2>2, Unmoved
<1>5. ClientSound'
  <2>1. client.written <= client'.written
    <3>1. client.written \in Nat
      BY SegmentPoolAssumption DEF PInv, TypeOK, SegmentPoolAssumption
    <3>. QED
      BY <1>2, <3>1
  <2>2. ~reused' => client'.got \cup client'.link \subseteq 0..client'.written - 1
    BY <1>1, <1>2 DEF PInv, ClientSound
  <2>. QED
    BY <1>1, <1>2, <2>1, <2>2, ClientKept DEF PInv
<1>. QED
  BY <1>4, <1>5 DEF SoundStep

\* What the client has and lacks makes its message a sound one.
LEMMA ClientRequestSound ==
  ASSUME PInv, TypeOK', ClientRequest, ~raced
  PROVE  SoundStep
<1>1. PICK msg \in Messages :
        /\ \/ msg.type = "status" /\ IsLastSeqNo(msg.last)
           \/ msg.type = "retransmit" /\ msg.last + 1 \in client.got
        /\ client' = [client EXCEPT !.inbox = Append(@, msg), !.requests = @ + 1]
  BY DEF ClientRequest
<1>2. UNCHANGED <<heap, content, free, queue, failed, sent, sender, received, control, reused, raced>>
  BY DEF ClientRequest
<1>3. /\ client.inbox \in Seq(Messages) /\ client'.inbox = Append(client.inbox, msg)
      /\ client'.got = client.got /\ client'.link = client.link /\ client'.written = client.written
  BY <1>1 DEF PInv, TypeOK
<1>4. InUse' = InUse /\ Live' = Live
  BY <1>2 DEF InUse, Live
<1>5. BlocksSound' /\ MemorySound' /\ WalkSound' /\ NothingLost'
  <2>1. ASSUME ~reused' PROVE Ascending(sent)'
    BY <1>2, <2>1 DEF PInv, BlocksSound, Ascending
  <2>2. InUse \ {Nothing} \subseteq InUse' /\ client.got \subseteq client'.got
    BY <1>3, <1>4
  <2>. QED
    BY <1>2, <1>3, <1>4, <2>1, <2>2, Unmoved
<1>6. client.written \in Nat
  BY SegmentPoolAssumption DEF PInv, TypeOK, SegmentPoolAssumption
<1>7. MessageSound(msg, client, reused)
  <2>1. msg.last \in Int
    BY <1>1 DEF Messages, SeqNos
  <2>2. ASSUME msg.type = "retransmit", ~reused PROVE msg.last < client.written
    <3>1. msg.last + 1 \in client.got
      BY <1>1, <2>2
    <3>2. msg.last + 1 \in 0..client.written - 1
      BY <2>2, <3>1 DEF PInv, ClientSound
    <3>. QED
      BY <1>6, <2>1, <3>2
  <2>3. ASSUME msg.type = "status" PROVE \A n \in 0..msg.last : n \in client.got
    BY <1>1, <2>3 DEF IsLastSeqNo
  <2>. QED
    BY <2>2, <2>3 DEF MessageSound
<1>8. \A m \in Messages : MessageSound(m, client, reused) => MessageSound(m, client', reused')
  <2>1. /\ client.got \subseteq client'.got /\ client.written <= client'.written
        /\ client'.written \in Nat
    BY <1>3, <1>6
  <2>. QED
    BY <1>2, <1>6, <2>1, MessageKept
<1>9. ClientSound'
  <2>1. ASSUME NEW i \in DOMAIN client'.inbox PROVE MessageSound(client'.inbox[i], client', reused')
    <3>1. client'.inbox[i] = msg \/ (i \in DOMAIN client.inbox /\ client'.inbox[i] = client.inbox[i])
      BY <1>3
    <3>2. i \in DOMAIN client.inbox => client.inbox[i] \in Messages /\ MessageSound(client.inbox[i], client, reused)
      BY <1>3 DEF PInv, ClientSound
    <3>. QED
      BY <1>1, <1>7, <1>8, <3>1, <3>2
  <2>2. ASSUME SentListLocked' PROVE control'.msg \in Messages /\ MessageSound(control'.msg, client', reused')
    <3>1. control.msg \in Messages /\ MessageSound(control.msg, client, reused)
      BY <1>2, <2>2 DEF PInv, ClientSound, SentListLocked
    <3>. QED
      BY <1>2, <1>8, <3>1
  <2>3. ~reused' => client'.got \cup client'.link \subseteq 0..client'.written - 1
    BY <1>2, <1>3 DEF PInv, ClientSound
  <2>4. /\ control'.pc = "deallocate" => control'.msg.type = "status"
        /\ control'.pc = "retransmit" => control'.msg.type = "retransmit"
    BY <1>2 DEF PInv, ClientSound
  <2>. QED
    BY <2>1, <2>2, <2>3, <2>4 DEF ClientSound
<1>. QED
  BY <1>5, <1>9 DEF SoundStep

\* The walk of a retransmission puts what was asked for into the failed list.
LEMMA RetransmitSound ==
  ASSUME PInv, TypeOK', RetransmitMissingSegmentsByPeer, ~raced
  PROVE  SoundStep
<1>. DEFINE b == sent[control.at]
<1>1. /\ b \in ToSet(sent) /\ Live' = Live /\ InUse \subseteq InUse'
      /\ content[b] \in control.msg.first..control.msg.last => b \in ToSet(failed')
  BY RetransmitMoves DEF PInv
<1>2. /\ UNCHANGED <<heap, content, free, queue, sent, sender, received, client, reused, raced>>
      /\ control.pc = "retransmit" /\ control' = [control EXCEPT !.at = @ + 1]
  BY DEF RetransmitMissingSegmentsByPeer, Advance
<1>. HIDE DEF b
<1>3. /\ control'.pc = control.pc /\ control'.msg = control.msg /\ control'.at = control.at + 1
      /\ control.at \in Nat
  BY <1>2 DEF PInv, TypeOK
<1>4. BlocksSound' /\ NothingLost'
  <2>1. ASSUME ~reused' PROVE Ascending(sent)'
    BY <1>2, <2>1 DEF PInv, BlocksSound, Ascending
  <2>. QED
    BY <1>1, <1>2, <2>1, BlocksKept DEF PInv
<1>5. MemorySound'
  <2>1. Used' = Used
    BY <1>1, <1>2 DEF Used
  <2>. QED
    BY <1>2, <2>1, MemoryKept DEF PInv
<1>6. ClientSound'
  <2>1. client.written <= client'.written
    BY <1>2, SegmentPoolAssumption DEF PInv, TypeOK, SegmentPoolAssumption
  <2>2. ~reused' => client'.got \cup client'.link \subseteq 0..client'.written - 1
    BY <1>2 DEF PInv, ClientSound
  <2>. QED
    BY <1>2, <1>3, <2>1, <2>2, ClientKept DEF PInv
<1>7. WalkSound'
  <2>1. SUFFICES ASSUME ~reused', NEW i \in 1..Len(sent), i < control.at + 1,
                        content[sent[i]] \in control.msg.first..control.msg.last
                 PROVE  sent[i] \in InUse'
    BY <1>2, <1>3 DEF WalkSound
  <2>2. CASE i < control.at
    BY <1>1, <1>2, <2>1, <2>2 DEF PInv, WalkSound
  <2>3. CASE i = control.at
    BY <1>1, <2>1, <2>3 DEF InUse, b
  <2>. QED
    BY <1>3, <2>1, <2>2, <2>3
<1>. QED
  BY <1>4, <1>5, <1>6, <1>7 DEF SoundStep

LEMMA TakeSound ==
  ASSUME PInv, TypeOK', NEW s \in Senders, Take(s), ~raced
  PROVE  SoundStep
<1>1. UNCHANGED <<heap, content, free, sent, received, client, control, reused, raced>>
  BY DEF Take
<1>2. InUse' \ {Nothing} = InUse \ {Nothing} /\ Live' = Live
  <2>1. InUse' \ {Nothing} = InUse \ {Nothing}
    BY TakeMoves DEF PInv
  <2>. QED
    BY <1>1, <2>1 DEF Live
<1>3. BlocksSound' /\ MemorySound' /\ WalkSound' /\ NothingLost'
  <2>1. ASSUME ~reused' PROVE Ascending(sent)'
    BY <1>1, <2>1 DEF PInv, BlocksSound, Ascending
  <2>2. InUse \ {Nothing} \subseteq InUse'
    BY <1>2
  <2>. QED
    BY <1>1, <1>2, <2>1, <2>2, Unmoved
<1>4. ClientSound'
  BY <1>1 DEF PInv, ClientSound, SentListLocked
<1>. QED
  BY <1>3, <1>4 DEF SoundStep

\* What is on its way to the client was written.
LEMMA SendSound ==
  ASSUME PInv, TypeOK', NEW s \in Senders, Send(s), ~raced
  PROVE  SoundStep
<1>1. /\ UNCHANGED <<heap, content, free, queue, failed, sent, received, control, reused, raced>>
      /\ client' = [client EXCEPT !.link = @ \cup ({content[sender[s].block]} \cap SeqNos)]
  BY DEF Send
<1>2. /\ client'.written = client.written /\ client'.got = client.got /\ client'.inbox = client.inbox
      /\ client'.link = client.link \cup ({content[sender[s].block]} \cap SeqNos)
  BY <1>1 DEF PInv, TypeOK
<1>3. InUse' = InUse /\ Live' = Live
  <2>1. InUse' = InUse
    BY SendMoves DEF PInv
  <2>. QED
    BY <1>1, <2>1 DEF Live
<1>4. BlocksSound' /\ MemorySound' /\ WalkSound' /\ NothingLost'
  <2>1. ASSUME ~reused' PROVE Ascending(sent)'
    BY <1>1, <2>1 DEF PInv, BlocksSound, Ascending
  <2>2. InUse \ {Nothing} \subseteq InUse' /\ client.got \subseteq client'.got
    BY <1>2, <1>3
  <2>. QED
    BY <1>1, <1>2, <1>3, <2>1, <2>2, Unmoved
<1>5. client.written \in Nat
  BY SegmentPoolAssumption DEF PInv, TypeOK, SegmentPoolAssumption
<1>6. ClientSound'
  <2>1. client.written <= client'.written
    BY <1>2, <1>5
  <2>2. ASSUME ~reused' PROVE client'.got \cup client'.link \subseteq 0..client'.written - 1
    <3>1. sender[s].block \in Live
      BY DEF PInv, SendersSound, Send, Live, InUse
    <3>2. content[sender[s].block] < client.written /\ content[sender[s].block] \in Nat
      BY <1>1, <2>2, <3>1, ContentTyped, UsedTyped DEF PInv, BlocksSound
    <3>3. content[sender[s].block] \in 0..client.written - 1
      BY <1>5, <3>2
    <3>. QED
      BY <1>1, <1>2, <2>2, <3>3 DEF PInv, ClientSound
  <2>. QED
    BY <1>1, <1>2, <2>1, <2>2, ClientKept DEF PInv
<1>. QED
  BY <1>4, <1>6 DEF SoundStep

LEMMA SendFailSound ==
  ASSUME PInv, TypeOK', NEW s \in Senders, SendFail(s), ~raced
  PROVE  SoundStep
<1>1. UNCHANGED <<heap, content, free, sent, received, client, control, reused, raced>>
  BY DEF SendFail
<1>2. InUse' \ {Nothing} = InUse \ {Nothing} /\ Live' = Live
  <2>1. InUse' \ {Nothing} = InUse \ {Nothing}
    BY SendFailMoves DEF PInv
  <2>. QED
    BY <1>1, <2>1 DEF Live
<1>3. BlocksSound' /\ MemorySound' /\ WalkSound' /\ NothingLost'
  <2>1. ASSUME ~reused' PROVE Ascending(sent)'
    BY <1>1, <2>1 DEF PInv, BlocksSound, Ascending
  <2>2. InUse \ {Nothing} \subseteq InUse'
    BY <1>2
  <2>. QED
    BY <1>1, <1>2, <2>1, <2>2, Unmoved
<1>4. ClientSound'
  BY <1>1 DEF PInv, ClientSound, SentListLocked
<1>. QED
  BY <1>3, <1>4 DEF SoundStep

\* While no walk is going on, a sent segment finds its place.
LEMMA AddSentSound ==
  ASSUME PInv, TypeOK', NEW s \in Senders, AddSent(s), ~raced
  PROVE  SoundStep
<1>1. /\ UNCHANGED <<heap, content, free, queue, failed, received, client, control, reused, raced>>
      /\ control.pc \notin {"deallocate", "retransmit"}
  BY DEF AddSent, SentListLocked
<1>2. ~reused => Live' = Live /\ Ascending(sent)'
  BY AddSentMoves DEF PInv
<1>3. BlocksSound' /\ NothingLost'
  BY <1>1, <1>2, BlocksKept DEF PInv
<1>4. MemorySound'
  <2>1. ~reused' => Used' \subseteq Used
    BY <1>1, <1>2 DEF Used
  <2>. QED
    BY <1>1, <2>1, MemoryKept DEF PInv
<1>5. WalkSound'
  BY <1>1 DEF WalkSound
<1>6. ClientSound'
  BY <1>1 DEF PInv, ClientSound, SentListLocked
<1>. QED
  BY <1>3, <1>4, <1>5, <1>6 DEF SoundStep

-----------------------------------------------------------------------------
(***************************************************************************)
(* The inductive invariant, and the properties that follow from it         *)
(***************************************************************************)
LEMMA PInvInit == Init => PInv
<1>. SUFFICES ASSUME Init PROVE PInv
  OBVIOUS
<1>0. NumSegs \in Nat /\ NumReceived \in Nat /\ NumRequests \in Nat /\ kSegFreeThreshold \in Nat
  BY SegmentPoolAssumption DEF SegmentPoolAssumption
<1>1. TypeOK
  <2>1. content \in [Blocks -> 0..NumSegs]
    BY <1>0 DEF Init
  <2>2. client \in [link : SUBSET SeqNos, got : SUBSET SeqNos, inbox : Seq(Messages), requests : 0..NumRequests,
                    written : 0..NumSegs]
    BY <1>0 DEF Init
  <2>3. received \in [queue : Seq(Blocks), count : 0..NumReceived, leaked : 0..NumReceived]
    BY <1>0 DEF Init
  <2>4. /\ sender \in [Senders -> [pc : {"idle", "have", "sent"}, block : Blocks \cup {Nothing}]]
        /\ free \in [list : Seq(Blocks), size : Nat, locked : BOOLEAN]
        /\ control \in [pc : {"idle", "deallocate", "retransmit", "check", "shrink", "shrinking"},
                        msg : Messages \cup {NoMessage}, at : Nat \ {0}]
    BY DEF Init
  <2>. QED
    BY <2>1, <2>2, <2>3, <2>4 DEF Init, TypeOK
<1>2. Pool = [list |-> <<>>, size |-> 0, heap |-> {}]
  BY DEF Init, Pool
<1>3. PoolTyped(Pool) /\ HeapBounded
  <2>1. PoolTyped(Pool)
    BY <1>2 DEF PoolTyped
  <2>2. Cardinality(heap) = 0
    BY FS_EmptySet DEF Init
  <2>. QED
    BY <1>0, <2>1, <2>2 DEF Init, HeapBounded
<1>4. ToSet(queue) = {} /\ ToSet(failed) = {} /\ ToSet(sent) = {} /\ ToSet(received.queue) = {}
  BY DEF Init, ToSet
<1>5. Live = {} /\ Used = {}
  <2>1. \A s \in Senders : sender[s].block = Nothing
    BY DEF Init
  <2>. QED
    BY <1>4, <2>1 DEF InUse, Live, Used
<1>6. BlocksSound
  BY <1>4, <1>5 DEF Init, BlocksSound, Ascending
<1>7. MemorySound
  <2>1. IsInjective(Pool.list) /\ IsInjective(received.queue) /\ ToSet(Pool.list) = {}
    BY <1>2 DEF Init, IsInjective, ToSet
  <2>. QED
    BY <1>0, <1>2, <1>3, <1>5, <2>1 DEF Init, MemorySound, PoolSound
<1>8. ClientSound /\ WalkSound /\ SendersSound /\ NothingLost
  BY DEF Init, ClientSound, SentListLocked, WalkSound, SendersSound, NothingLost
<1>. QED
  BY <1>1, <1>3, <1>6, <1>7, <1>8 DEF PInv

LEMMA PInvStep == PInv /\ [Next]_vars => PInv'
<1>. SUFFICES ASSUME PInv, [Next]_vars PROVE PInv'
  OBVIOUS
<1>1. TypeOK'
  BY TypesKept DEF PInv
<1>2. HeapBounded' /\ SendersSound'
  BY <1>1, HeapKept, SendersKept DEF PInv
<1>3. CASE Next
  <2>1. ~raced
    BY <1>3 DEF Next
  <2>2. ASSUME Write \/ Receive \/ LeakBlock \/ GiveBack \/ ShrinkAndUnlock PROVE SoundStep
    BY <1>1, <2>1, <2>2, WriteSound, ReceiveSound, LeakBlockSound, GiveBackSound, ShrinkAndUnlockSound
  <2>3. ASSUME ClientReceive \/ Lose \/ ClientRequest \/ HandleMessage PROVE SoundStep
    BY <1>1, <2>1, <2>3, ClientStepSound, ClientRequestSound, HandleMessageSound
  <2>4. ASSUME DeallocateSentSegmentsByPeer \/ Deallocated \/ CheckSize \/ ShrinkLoop \/ ShrinkUnlocked PROVE SoundStep
    BY <1>1, <2>1, <2>4, DeallocateSound, LeaveSound, ShrinkUnlockedSound
  <2>5. ASSUME RetransmitMissingSegmentsByPeer \/ Retransmitted PROVE SoundStep
    BY <1>1, <2>1, <2>5, RetransmitSound, LeaveSound
  <2>6. ASSUME NEW s \in Senders, Take(s) \/ Send(s) \/ SendFail(s) \/ AddSent(s) PROVE SoundStep
    BY <1>1, <2>1, <2>6, TakeSound, SendSound, SendFailSound, AddSentSound
  <2>7. SoundStep
    BY <1>3, <2>2, <2>3, <2>4, <2>5, <2>6 DEF Next
  <2>. QED
    BY <1>1, <1>2, <2>7 DEF SoundStep, PInv
<1>4. CASE UNCHANGED vars
  <2>1. InUse' = InUse /\ Live' = Live /\ Used' = Used /\ Pool' = Pool
    BY <1>4 DEF vars, InUse, Live, Used, Pool
  <2>2. BlocksSound' /\ MemorySound'
    BY <1>4, <2>1 DEF vars, PInv, BlocksSound, Ascending, MemorySound, PoolSound, PoolTyped
  <2>3. ClientSound' /\ WalkSound' /\ NothingLost'
    BY <1>4, <2>1 DEF vars, PInv, ClientSound, SentListLocked, WalkSound, NothingLost, Contents
  <2>. QED
    BY <1>1, <1>2, <2>2, <2>3 DEF PInv
<1>. QED
  BY <1>3, <1>4

(***************************************************************************)
(* The memory of the segments is sound, for any senders and bounds: until  *)
(* a block is released in use or two threads change the free list at once. *)
(***************************************************************************)
THEOREM PoolInvariant == Spec => []PInv
<1>. QED
  BY PInvInit, PInvStep, PTL DEF Spec

(***************************************************************************)
(* A segment the client does not have can still be sent                    *)
(* (deallocate_sent_segments_by_peer(), pop_free_segment()).               *)
(***************************************************************************)
THEOREM SegmentsKept == Spec => []NothingLost
<1>1. PInv => NothingLost
  BY DEF PInv
<1>. QED
  BY <1>1, PoolInvariant, PTL

(***************************************************************************)
(* The sent list is ascending, the free list has its counted length, its   *)
(* blocks once, and not more than kSegFreeThreshold of them                *)
(* (add_sent_segment_to_list(), add_free_segment_to_list()).               *)
(***************************************************************************)
THEOREM ListsAreSound == Spec => []ListsSound
<1>1. PInv => ListsSound
  <2>. SUFFICES ASSUME PInv PROVE ListsSound
    OBVIOUS
  <2>1. ~reused => \A i, j \in 1..Len(sent) : i < j => content[sent[i]] < content[sent[j]]
    BY DEF PInv, BlocksSound, Ascending
  <2>2. ~reused /\ ~raced =>
          /\ free.size = Len(free.list) /\ IsInjective(free.list) /\ ToSet(free.list) \subseteq heap
          /\ ~free.locked => free.size <= kSegFreeThreshold
    BY DEF PInv, MemorySound, PoolSound, PoolTyped, Pool
  <2>. QED
    BY <2>1, <2>2 DEF PInv, ListsSound
<1>. QED
  BY <1>1, PoolInvariant, PTL

(***************************************************************************)
(* What the client asks for is sent again, unless it has received it       *)
(* (retransmit_missing_segments_by_peer()).                                *)
(***************************************************************************)
THEOREM AskedForIsSent == Spec => RetransmittedIsSent
<1>. DEFINE Asked == control.pc = "retransmit" /\ control'.pc = "idle" /\ ~reused
              => \A n \in control.msg.first..control.msg.last : n \in client.got \cup Contents(InUse)
<1>1. PInv /\ [Next]_vars => Asked
  <2>. SUFFICES ASSUME PInv, [Next]_vars, control.pc = "retransmit", control'.pc = "idle", ~reused,
                       NEW n \in control.msg.first..control.msg.last, n \notin client.got
                PROVE  n \in Contents(InUse)
    OBVIOUS
  <2>1. Retransmitted
    <3>1. control' # control
      OBVIOUS
    <3>2. CASE Write \/ Receive \/ LeakBlock \/ GiveBack \/ ShrinkAndUnlock \/ ClientReceive \/ Lose \/ ClientRequest
      BY <3>1, <3>2 DEF Write, Receive, LeakBlock, GiveBack, ShrinkAndUnlock, ClientReceive, Lose, ClientRequest
    <3>3. CASE HandleMessage \/ DeallocateSentSegmentsByPeer \/ Deallocated \/ CheckSize \/ ShrinkLoop \/ ShrinkUnlocked
      BY <3>3 DEF HandleMessage, DeallocateSentSegmentsByPeer, Deallocated, CheckSize, ShrinkLoop, ShrinkUnlocked,
                  Shrinking
    <3>4. CASE RetransmitMissingSegmentsByPeer
      BY <3>4 DEF RetransmitMissingSegmentsByPeer, Advance, PInv, TypeOK
    <3>5. ASSUME NEW s \in Senders, Take(s) \/ Send(s) \/ SendFail(s) \/ AddSent(s) PROVE FALSE
      BY <3>1, <3>5 DEF Take, Send, SendFail, AddSent
    <3>6. CASE UNCHANGED vars
      BY <3>1, <3>6 DEF vars
    <3>. QED
      BY <3>2, <3>3, <3>4, <3>5, <3>6 DEF Next
  <2>2. /\ control.at > Len(sent) /\ Len(sent) \in Nat /\ control.at \in Nat
        /\ sent \in Seq(Blocks)
    BY <2>1 DEF Retransmitted, AtEnd, PInv, TypeOK
  <2>3. n \in 0..client.written - 1
    <3>1. control.msg \in Messages /\ control.msg.last < client.written
      BY DEF PInv, ClientSound, SentListLocked, MessageSound
    <3>2. control.msg.first \in Nat /\ control.msg.last \in Nat
      BY <3>1 DEF Messages, SeqNos
    <3>3. client.written \in Nat
      BY SegmentPoolAssumption DEF PInv, TypeOK, SegmentPoolAssumption
    <3>. QED
      BY <3>1, <3>2, <3>3
  <2>4. PICK b \in Live : content[b] = n
    <3>1. n \in Contents(InUse \cup ToSet(sent))
      BY <2>3 DEF PInv, NothingLost
    <3>. QED
      BY <3>1 DEF Contents, Live
  <2>5. b \in InUse
    <3>1. CASE b \in ToSet(sent)
      <4>1. PICK i \in 1..Len(sent) : b = sent[i]
        BY <2>2, <3>1 DEF ToSet
      <4>2. i < control.at
        BY <2>2
      <4>. QED
        BY <2>4, <4>1, <4>2 DEF PInv, WalkSound
    <3>. QED
      BY <3>1 DEF Live
  <2>. QED
    BY <2>4, <2>5 DEF Contents, Live
<1>. QED
  BY <1>1, PoolInvariant, PTL DEF Spec, RetransmittedIsSent

=============================================================================
