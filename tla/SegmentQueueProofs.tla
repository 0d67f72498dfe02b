-------------------------- MODULE SegmentQueueProofs --------------------------
(***************************************************************************)
(* Lemmas about the operators of SegmentQueue: what the walk over the      *)
(* pending list and the draining loop compute, and that enqueue() keeps    *)
(* both lists in order and adds exactly one segment.                       *)
(***************************************************************************)
EXTENDS SegmentQueue, SequenceTheorems, WellFoundedInduction, TLAPS

QueueType == [main : Seq(Nat), pending : Seq(Nat), expected : Nat]

\* What enqueue() keeps of a queue.
InOrder(q) == q \in QueueType /\ MainContinuous(q) /\ PendingInOrder(q)

\* How many segments have left the queue.
Taken(q) == q.expected - Len(q.main)

\* The list without the claim that its head is beyond mExpectedSeqNo.
Sorted(p) == \A i, j \in 1..Len(p) : i < j => p[i] < p[j]

\* A queue between Place() and Drain().
Drainable(q) ==
  /\ q \in QueueType
  /\ MainContinuous(q)
  /\ Sorted(q.pending)
  /\ \A i \in 1..Len(q.pending) : q.pending[i] >= q.expected

(***************************************************************************)
(* Every non-empty set of natural numbers has a least element.  It stands  *)
(* for the termination of both loops of SegmentQueue::enqueue().           *)
(***************************************************************************)
LEMMA LeastNatural ==
  ASSUME NEW T, T \subseteq Nat, T # {}
  PROVE  \E m \in T : \A k \in T : m <= k
<1>. DEFINE R == {ss \in Nat \X Nat : ss[1] < ss[2]}
<1>1. IsWellFoundedOn(R, Nat)
  BY NatLessThanWellFounded DEF OpToRel
<1>2. \A x, y \in Nat : (<<y, x>> \in R) <=> y < x
  OBVIOUS
<1>. HIDE DEF R
<1>3. \E x \in T : \A y \in T : ~(<<y, x>> \in R)
  BY <1>1, WFMin
<1>4. PICK x \in T : \A y \in T : ~(<<y, x>> \in R)
  BY <1>3
<1>5. \A y \in T : ~(y < x)
  BY <1>2, <1>4
<1>6. \A y \in T : x <= y
  BY <1>5
<1>. QED  BY <1>6

(***************************************************************************)
(* The walk over mPendingQueue stops at the first greater number.          *)
(***************************************************************************)
LEMMA InsertPositionProperties ==
  ASSUME NEW p \in Seq(Nat), NEW n \in Nat
  PROVE  LET i == InsertPosition(p, n)
         IN  /\ i \in 1..(Len(p) + 1)
             /\ \A j \in 1..(i - 1) : ~(p[j] > n)
             /\ i <= Len(p) => p[i] > n
<1>. DEFINE T == {i \in 1..(Len(p) + 1) : i <= Len(p) => p[i] > n}
<1>1. Len(p) + 1 \in T
  OBVIOUS
<1>2. T \subseteq Nat
  OBVIOUS
<1>3. PICK m \in T : \A k \in T : m <= k
  BY <1>1, <1>2, LeastNatural
<1>4. \A j \in 1..(m - 1) : ~(p[j] > n)
  <2>. SUFFICES ASSUME NEW j \in 1..(m - 1), p[j] > n
                PROVE  FALSE
    OBVIOUS
  <2>1. j \in T
    OBVIOUS
  <2>. QED  BY <1>3, <2>1
<1>5. /\ m \in 1..(Len(p) + 1)
      /\ \A j \in 1..(m - 1) : ~(p[j] > n)
      /\ m <= Len(p) => p[m] > n
  BY <1>4
<1>. QED  BY <1>5 DEF InsertPosition

(***************************************************************************)
(* The loop of enqueue() moves a maximal run of consecutive numbers.       *)
(***************************************************************************)
LEMMA DrainLengthProperties ==
  ASSUME NEW p \in Seq(Nat), NEW e \in Nat
  PROVE  LET k == DrainLength(p, e)
         IN  /\ k \in 0..Len(p)
             /\ \A i \in 1..k : p[i] = e + i - 1
             /\ k < Len(p) => p[k + 1] # e + k
<1>. DEFINE T == {k \in 0..Len(p) : k < Len(p) => p[k + 1] # e + k}
<1>1. Len(p) \in T
  OBVIOUS
<1>2. T \subseteq Nat
  OBVIOUS
<1>3. PICK m \in T : \A k \in T : m <= k
  BY <1>1, <1>2, LeastNatural
<1>4. \A i \in 1..m : p[i] = e + i - 1
  <2>. SUFFICES ASSUME NEW i \in 1..m, p[i] # e + i - 1
                PROVE  FALSE
    OBVIOUS
  <2>1. i - 1 \in T
    <3>1. i - 1 \in 0..Len(p)
      OBVIOUS
    <3>2. (i - 1) + 1 = i /\ e + (i - 1) = e + i - 1
      OBVIOUS
    <3>. QED  BY <3>1, <3>2
  <2>2. m <= i - 1
    BY <1>3, <2>1
  <2>. QED  BY <2>2
<1>5. /\ m \in 0..Len(p)
      /\ \A i \in 1..m : p[i] = e + i - 1
      /\ m < Len(p) => p[m + 1] # e + m
  BY <1>4
<1>. QED  BY <1>5 DEF DrainLength

\* Positions counted from the inserted element.
LEMMA ShiftedIndex ==
  \A L \in Nat : \A i \in 1..(L + 1) : \A j \in (i + 1)..(L + 1) :
    /\ j \in ((i - 1) + 2)..((i - 1) + 1 + (L - i + 1))
    /\ j - (i - 1) - 1 = j - i
    /\ j - i \in 1..(L - i + 1)
    /\ i + (j - i) - 1 = j - 1
  OBVIOUS

\* The elements of a \o <<n>> \o b.
LEMMA ConcatAround ==
  ASSUME NEW a \in Seq(Nat), NEW n \in Nat, NEW b \in Seq(Nat)
  PROVE  LET r == (a \o <<n>>) \o b
         IN  /\ r \in Seq(Nat)
             /\ Len(r) = Len(a) + 1 + Len(b)
             /\ \A j \in 1..Len(a) : r[j] = a[j]
             /\ r[Len(a) + 1] = n
             /\ \A j \in (Len(a) + 2)..(Len(a) + 1 + Len(b)) : r[j] = b[j - Len(a) - 1]
<1>. DEFINE c == a \o <<n>>
<1>1. /\ c \in Seq(Nat) /\ Len(c) = Len(a) + 1
      /\ \A j \in 1..Len(a) : c[j] = a[j]
      /\ c[Len(a) + 1] = n
  OBVIOUS
<1>. HIDE DEF c
<1>2. /\ c \o b \in Seq(Nat)
      /\ Len(c \o b) = Len(c) + Len(b)
  BY <1>1, ConcatProperties
<1>3. \A j \in 1..Len(c) : (c \o b)[j] = c[j]
  BY <1>1
<1>4. \A j \in (Len(c) + 1)..(Len(c) + Len(b)) : (c \o b)[j] = b[j - Len(c)]
  BY <1>1
<1>5. \A j \in 1..(Len(a) + 1) : (c \o b)[j] = c[j]
  BY <1>1, <1>3
<1>6. \A j \in 1..Len(a) : (c \o b)[j] = a[j]
  BY <1>1, <1>5
<1>7. (c \o b)[Len(a) + 1] = n
  BY <1>1, <1>5
<1>8. ASSUME NEW j \in (Len(a) + 2)..(Len(a) + 1 + Len(b))
      PROVE  (c \o b)[j] = b[j - Len(a) - 1]
  <2>1. j \in (Len(c) + 1)..(Len(c) + Len(b)) /\ j - Len(c) = j - Len(a) - 1
    BY <1>1
  <2>. QED  BY <1>4, <2>1
<1>. QED  BY <1>1, <1>2, <1>6, <1>7, <1>8 DEF c

(***************************************************************************)
(* InsertPending() puts n in and keeps everything else.                    *)
(***************************************************************************)
LEMMA InsertPendingProperties ==
  ASSUME NEW p \in Seq(Nat), NEW n \in Nat
  PROVE  LET r == InsertPending(p, n)
             i == InsertPosition(p, n)
         IN  /\ r \in Seq(Nat)
             /\ Len(r) = Len(p) + 1
             /\ \A j \in 1..(i - 1) : r[j] = p[j]
             /\ r[i] = n
             /\ \A j \in (i + 1)..(Len(p) + 1) : r[j] = p[j - 1]
<1>. SUFFICES ASSUME NEW i, i = InsertPosition(p, n), i \in 1..(Len(p) + 1)
              PROVE  LET r == InsertAt(p, i, n)
                     IN  /\ r \in Seq(Nat)
                         /\ Len(r) = Len(p) + 1
                         /\ \A j \in 1..(i - 1) : r[j] = p[j]
                         /\ r[i] = n
                         /\ \A j \in (i + 1)..(Len(p) + 1) : r[j] = p[j - 1]
  BY InsertPositionProperties DEF InsertPending
<1>. DEFINE a == SubSeq(p, 1, i - 1)
            b == SubSeq(p, i, Len(p))
            r == (a \o <<n>>) \o b
<1>1. a \in Seq(Nat) /\ Len(a) = i - 1 /\ \A j \in 1..(i - 1) : a[j] = p[j]
  OBVIOUS
<1>2. /\ b \in Seq(Nat) /\ Len(b) = Len(p) - i + 1
      /\ \A j \in 1..(Len(p) - i + 1) : b[j] = p[i + j - 1]
  OBVIOUS
<1>. HIDE DEF a, b
<1>3. /\ r \in Seq(Nat)
      /\ Len(r) = Len(a) + 1 + Len(b)
      /\ \A j \in 1..Len(a) : r[j] = a[j]
      /\ r[Len(a) + 1] = n
      /\ \A j \in (Len(a) + 2)..(Len(a) + 1 + Len(b)) : r[j] = b[j - Len(a) - 1]
  BY <1>1, <1>2, ConcatAround
<1>. HIDE DEF r
<1>4. Len(r) = Len(p) + 1 /\ r[i] = n
  <2>1. Len(a) = i - 1 /\ Len(b) = Len(p) - i + 1
    BY <1>1, <1>2
  <2>2. Len(a) + 1 = i /\ Len(a) + 1 + Len(b) = Len(p) + 1
    BY <2>1
  <2>3. Len(r) = Len(a) + 1 + Len(b) /\ r[Len(a) + 1] = n
    BY <1>3
  <2>. QED  BY <2>2, <2>3, Zenon
<1>5. \A j \in 1..(i - 1) : r[j] = p[j]
  BY <1>1, <1>3
<1>6. ASSUME NEW j \in (i + 1)..(Len(p) + 1)
      PROVE  r[j] = p[j - 1]
  <2>0. Len(p) \in Nat
    OBVIOUS
  <2>1. /\ j \in ((i - 1) + 2)..((i - 1) + 1 + (Len(p) - i + 1))
        /\ j - (i - 1) - 1 = j - i
        /\ j - i \in 1..(Len(p) - i + 1)
        /\ i + (j - i) - 1 = j - 1
    BY <2>0, ShiftedIndex, Zenon
  <2>2. r[j] = b[j - i]
    BY <1>1, <1>2, <1>3, <2>1
  <2>3. b[j - i] = p[i + (j - i) - 1]
    BY <1>2, <2>1
  <2>. QED  BY <2>1, <2>2, <2>3
<1>. QED  BY <1>3, <1>4, <1>5, <1>6 DEF r, a, b, InsertAt

\* The function r is p with n put in at position i.
Inserted(L, n, i, p, r) ==
  /\ \A j \in 1..(i - 1) : r[j] = p[j]
  /\ r[i] = n
  /\ \A j \in (i + 1)..(L + 1) : r[j] = p[j - 1]

(***************************************************************************)
(* A list r that is p with n put in at position i, between the smaller and *)
(* the greater numbers, is sorted.                                         *)
(***************************************************************************)
LEMMA InsertedSorted ==
  ASSUME NEW L \in Nat, NEW n \in Nat, NEW i \in 1..(L + 1),
         NEW p \in [1..L -> Nat], NEW r \in [1..(L + 1) -> Nat],
         Inserted(L, n, i, p, r),
         \A j, k \in 1..L : j < k => p[j] < p[k],
         \A j \in 1..(i - 1) : p[j] < n,
         \A j \in i..L : n < p[j]
  PROVE  \A j, k \in 1..(L + 1) : j < k => r[j] < r[k]
<1>. USE DEF Inserted
<1>. SUFFICES ASSUME NEW j \in 1..(L + 1), NEW k \in 1..(L + 1), j < k
              PROVE  r[j] < r[k]
  OBVIOUS
<1>1. CASE k < i
  <2>1. j \in 1..(i - 1) /\ k \in 1..(i - 1) /\ j \in 1..L /\ k \in 1..L
    BY <1>1
  <2>. QED  BY <2>1
<1>2. CASE k = i
  <2>1. j \in 1..(i - 1)
    BY <1>2
  <2>. QED  BY <1>2, <2>1
<1>3. CASE k > i
  <2>1. k \in (i + 1)..(L + 1) /\ k - 1 \in i..L /\ k - 1 \in 1..L
    BY <1>3
  <2>2. r[k] = p[k - 1] /\ n < p[k - 1] /\ p[k - 1] \in Nat
    BY <2>1
  <2>3. CASE j < i
    <3>1. j \in 1..(i - 1) /\ j \in 1..L
      BY <2>3
    <3>2. r[j] = p[j] /\ p[j] < n /\ p[j] \in Nat
      BY <3>1
    <3>. QED  BY <2>2, <3>2
  <2>4. CASE j = i
    BY <2>2, <2>4
  <2>5. CASE j > i
    <3>1. j \in (i + 1)..(L + 1) /\ j - 1 \in 1..L /\ j - 1 < k - 1
      BY <2>5
    <3>2. p[j - 1] < p[k - 1]
      BY <2>1, <3>1
    <3>3. r[j] = p[j - 1]
      BY <3>1
    <3>. QED  BY <2>2, <3>2, <3>3
  <2>. QED  BY <2>3, <2>4, <2>5
<1>. QED  BY <1>1, <1>2, <1>3

\* The elements of r are n and those of p.
InsertedElements(L, n, p, r) ==
  /\ \E j \in 1..(L + 1) : r[j] = n
  /\ \A j \in 1..(L + 1) : r[j] = n \/ \E k \in 1..L : r[j] = p[k]
  /\ \A k \in 1..L : \E j \in 1..(L + 1) : r[j] = p[k]

\* The range of such a list.
LEMMA InsertedRange ==
  ASSUME NEW L \in Nat, NEW n \in Nat, NEW i \in 1..(L + 1),
         NEW p \in [1..L -> Nat], NEW r \in [1..(L + 1) -> Nat],
         Inserted(L, n, i, p, r)
  PROVE  InsertedElements(L, n, p, r)
<1>. USE DEF Inserted, InsertedElements
<1>1. ASSUME NEW j \in 1..(L + 1)
      PROVE  r[j] = n \/ \E k \in 1..L : r[j] = p[k]
  <2>1. CASE j < i
    <3>1. j \in 1..(i - 1) /\ j \in 1..L
      BY <2>1
    <3>. QED  BY <3>1
  <2>2. CASE j > i
    <3>1. j \in (i + 1)..(L + 1) /\ j - 1 \in 1..L
      BY <2>2
    <3>. QED  BY <3>1
  <2>. QED  BY <2>1, <2>2
<1>2. ASSUME NEW k \in 1..L
      PROVE  \E j \in 1..(L + 1) : r[j] = p[k]
  <2>1. CASE k < i
    <3>1. k \in 1..(i - 1) /\ k \in 1..(L + 1)
      BY <2>1
    <3>. QED  BY <3>1
  <2>2. CASE ~(k < i)
    <3>1. k + 1 \in (i + 1)..(L + 1) /\ k + 1 \in 1..(L + 1) /\ (k + 1) - 1 = k
      BY <2>2
    <3>2. r[k + 1] = p[k]
      BY <3>1
    <3>. QED  BY <3>1, <3>2
  <2>. QED  BY <2>1, <2>2
<1>. QED  BY <1>1, <1>2

(***************************************************************************)
(* InsertPending() keeps the list sorted and adds n to it.                 *)
(***************************************************************************)
LEMMA InsertPendingSorted ==
  ASSUME NEW p \in Seq(Nat), NEW n \in Nat, Sorted(p), n \notin ToSet(p)
  PROVE  /\ InsertPending(p, n) \in Seq(Nat)
         /\ Sorted(InsertPending(p, n))
         /\ ToSet(InsertPending(p, n)) = ToSet(p) \cup {n}
<1>. DEFINE L == Len(p)
<1>1. PICK i \in 1..(L + 1) :
           /\ i = InsertPosition(p, n)
           /\ \A j \in 1..(i - 1) : ~(p[j] > n)
           /\ i <= L => p[i] > n
  BY InsertPositionProperties
<1>2. PICK r \in Seq(Nat) :
           /\ r = InsertPending(p, n)
           /\ Len(r) = L + 1
           /\ \A j \in 1..(i - 1) : r[j] = p[j]
           /\ r[i] = n
           /\ \A j \in (i + 1)..(L + 1) : r[j] = p[j - 1]
  BY <1>1, InsertPendingProperties
<1>3. /\ L \in Nat
      /\ p \in [1..L -> Nat] /\ r \in [1..(L + 1) -> Nat]
      /\ DOMAIN p = 1..L /\ DOMAIN r = 1..(L + 1)
  BY <1>2
<1>4. \A j, k \in 1..L : j < k => p[j] < p[k]
  BY DEF Sorted
<1>5. \A j \in 1..L : p[j] # n
  BY DEF ToSet
<1>. HIDE DEF L
<1>6. \A j \in 1..(i - 1) : p[j] < n
  <2>. SUFFICES ASSUME NEW j \in 1..(i - 1)
                PROVE  p[j] < n
    OBVIOUS
  <2>1. j \in 1..L
    BY <1>3
  <2>. QED  BY <2>1, <1>1, <1>3, <1>5
<1>7. \A j \in i..L : n < p[j]
  <2>. SUFFICES ASSUME NEW j \in i..L
                PROVE  n < p[j]
    OBVIOUS
  <2>1. i \in 1..L /\ j \in 1..L
    BY <1>3
  <2>2. p[i] > n /\ p[i] \in Nat /\ p[j] \in Nat
    BY <2>1, <1>1, <1>3
  <2>3. j = i \/ p[i] < p[j]
    BY <2>1, <1>4
  <2>. QED  BY <2>2, <2>3
<1>8. Inserted(L, n, i, p, r)
  BY <1>2 DEF Inserted
<1>9. \A j, k \in 1..(L + 1) : j < k => r[j] < r[k]
  BY <1>3, <1>4, <1>6, <1>7, <1>8, InsertedSorted
<1>10. InsertedElements(L, n, p, r)
  BY <1>3, <1>8, InsertedRange
<1>11. Sorted(r)
  BY <1>2, <1>9 DEF Sorted
<1>12. ToSet(r) = ToSet(p) \cup {n}
  <2>1. \A x \in ToSet(r) : x \in ToSet(p) \cup {n}
    BY <1>3, <1>10 DEF ToSet, InsertedElements
  <2>2. \A x \in ToSet(p) : x \in ToSet(r)
    BY <1>3, <1>10 DEF ToSet, InsertedElements
  <2>3. n \in ToSet(r)
    BY <1>3, <1>10 DEF ToSet, InsertedElements
  <2>. QED  BY <2>1, <2>2, <2>3
<1>. QED  BY <1>2, <1>11, <1>12

(***************************************************************************)
(* After a run of k consecutive numbers the rest of a sorted list is       *)
(* beyond the next number.                                                 *)
(***************************************************************************)
LEMMA BeyondRun ==
  ASSUME NEW p \in Seq(Nat), NEW e \in Nat, NEW k \in 0..Len(p),
         Sorted(p),
         \A i \in 1..Len(p) : p[i] >= e,
         \A i \in 1..k : p[i] = e + i - 1,
         k < Len(p) => p[k + 1] # e + k
  PROVE  \A i \in (k + 1)..Len(p) : p[i] > e + k
<1>. SUFFICES ASSUME NEW i \in (k + 1)..Len(p)
              PROVE  p[i] > e + k
  OBVIOUS
<1>1. k + 1 \in 1..Len(p) /\ i \in 1..Len(p) /\ k < Len(p)
  OBVIOUS
<1>2. p[k + 1] \in Nat /\ p[i] \in Nat /\ p[k + 1] # e + k
  BY <1>1
<1>3. p[k + 1] >= e + k
  <2>1. CASE k = 0
    BY <2>1, <1>1, <1>2
  <2>2. CASE k > 0
    <3>1. k \in 1..Len(p) /\ k \in 1..k /\ k < k + 1
      BY <2>2, <1>1
    <3>2. p[k] = e + k - 1 /\ p[k] < p[k + 1]
      BY <3>1, <1>1 DEF Sorted
    <3>. QED  BY <3>2, <1>2
  <2>. QED  BY <2>1, <2>2
<1>4. i = k + 1 \/ p[k + 1] < p[i]
  BY <1>1 DEF Sorted
<1>. QED  BY <1>2, <1>3, <1>4

\* SubSeq in the form in which it is used below.
LEMMA Split ==
  ASSUME NEW p \in Seq(Nat), NEW k \in 0..Len(p)
  PROVE  LET a == SubSeq(p, 1, k)
             b == SubSeq(p, k + 1, Len(p))
         IN  /\ a \in Seq(Nat) /\ Len(a) = k
             /\ \A i \in 1..k : a[i] = p[i]
             /\ b \in Seq(Nat) /\ Len(b) = Len(p) - k
             /\ \A i \in 1..(Len(p) - k) : b[i] = p[k + i]
<1>1. /\ SubSeq(p, 1, k) \in Seq(Nat) /\ Len(SubSeq(p, 1, k)) = k
      /\ \A i \in 1..k : SubSeq(p, 1, k)[i] = p[i]
  OBVIOUS
<1>2. /\ SubSeq(p, k + 1, Len(p)) \in Seq(Nat)
      /\ Len(SubSeq(p, k + 1, Len(p))) = Len(p) - k
  OBVIOUS
<1>3. \A i \in 1..(Len(p) - k) : SubSeq(p, k + 1, Len(p))[i] = p[k + i]
  <2>. SUFFICES ASSUME NEW i \in 1..(Len(p) - k)
                PROVE  SubSeq(p, k + 1, Len(p))[i] = p[k + i]
    OBVIOUS
  <2>1. SubSeq(p, k + 1, Len(p))[i] = p[(k + 1) + i - 1]
    OBVIOUS
  <2>2. (k + 1) + i - 1 = k + i
    OBVIOUS
  <2>. QED  BY <2>1, <2>2
<1>. QED  BY <1>1, <1>2, <1>3

\* Membership in the set of a sequence's elements.
LEMMA ElementOf ==
  ASSUME NEW p \in Seq(Nat)
  PROVE  \A x : x \in ToSet(p) <=> \E i \in 1..Len(p) : p[i] = x
<1>1. DOMAIN p = 1..Len(p)
  OBVIOUS
<1>. QED  BY <1>1, Zenon DEF ToSet

\* The numbers of a run moved from the pending list are accepted before and
\* after the move.
LEMMA SameElements ==
  ASSUME NEW p \in Seq(Nat), NEW b \in Seq(Nat), NEW e \in Nat,
         NEW k \in 0..Len(p),
         \A i \in 1..k : p[i] = e + i - 1,
         Len(b) = Len(p) - k,
         \A i \in 1..(Len(p) - k) : b[i] = p[k + i]
  PROVE  0..(e + k - 1) \cup ToSet(b) = 0..(e - 1) \cup ToSet(p)
<1>1. /\ \A x : x \in ToSet(p) <=> \E i \in 1..Len(p) : p[i] = x
      /\ \A x : x \in ToSet(b) <=> \E i \in 1..Len(b) : b[i] = x
  BY ElementOf
<1>2. ASSUME NEW x \in 0..(e + k - 1), x > e - 1
      PROVE  x \in ToSet(p)
  <2>1. x - e + 1 \in 1..k /\ x - e + 1 \in 1..Len(p)
    BY <1>2
  <2>2. p[x - e + 1] = x
    BY <2>1
  <2>. QED  BY <1>1, <2>1, <2>2
<1>3. ASSUME NEW x \in ToSet(b)
      PROVE  x \in ToSet(p)
  <2>1. PICK i \in 1..Len(b) : x = b[i]
    BY <1>1
  <2>2. k + i \in 1..Len(p) /\ x = p[k + i]
    BY <2>1
  <2>. QED  BY <1>1, <2>2
<1>4. ASSUME NEW x \in ToSet(p)
      PROVE  x \in 0..(e + k - 1) \cup ToSet(b)
  <2>1. PICK i \in 1..Len(p) : x = p[i]
    BY <1>1
  <2>2. CASE i <= k
    <3>1. i \in 1..k
      BY <2>2
    <3>. QED  BY <2>1, <3>1
  <2>3. CASE i > k
    <3>1. i - k \in 1..(Len(p) - k) /\ k + (i - k) = i
      BY <2>3
    <3>2. b[i - k] = p[i]
      BY <3>1
    <3>. QED  BY <1>1, <2>1, <3>1, <3>2
  <2>. QED  BY <2>2, <2>3
<1>5. 0..(e - 1) \subseteq 0..(e + k - 1)
  OBVIOUS
<1>6. \A x \in 0..(e + k - 1) : x \in 0..(e - 1) \/ x > e - 1
  OBVIOUS
<1>. QED  BY <1>2, <1>3, <1>4, <1>5, <1>6

(***************************************************************************)
(* The draining loop extends the main list by the run it takes from the    *)
(* pending list and leaves the pending list sorted, behind a gap.          *)
(***************************************************************************)
LEMMA DrainInOrder ==
  ASSUME NEW q, Drainable(q)
  PROVE  /\ InOrder(Drain(q))
         /\ Drain(q).expected >= q.expected
         /\ Accepted(Drain(q)) = Accepted(q)
         /\ Taken(Drain(q)) = Taken(q)
<1>. USE DEF Drainable
<1>. DEFINE m == q.main
            p == q.pending
            e == q.expected
            k == DrainLength(p, e)
            a == SubSeq(p, 1, k)
            b == SubSeq(p, k + 1, Len(p))
<1>1. m \in Seq(Nat) /\ p \in Seq(Nat) /\ e \in Nat
  BY DEF QueueType
<1>2. /\ k \in 0..Len(p)
      /\ \A i \in 1..k : p[i] = e + i - 1
      /\ k < Len(p) => p[k + 1] # e + k
  BY <1>1, DrainLengthProperties
<1>3. Drain(q) = [main |-> m \o a, pending |-> b, expected |-> e + k]
  BY DEF Drain
<1>. HIDE DEF k
<1>4. \A i \in (k + 1)..Len(p) : p[i] > e + k
  BY <1>1, <1>2, BeyondRun
<1>5. /\ a \in Seq(Nat) /\ Len(a) = k
      /\ \A i \in 1..k : a[i] = p[i]
      /\ b \in Seq(Nat) /\ Len(b) = Len(p) - k
      /\ \A i \in 1..(Len(p) - k) : b[i] = p[k + i]
  BY <1>1, <1>2, Split
<1>6. \A i \in 1..Len(m) : m[i] = e - Len(m) + i - 1
  BY DEF MainContinuous
<1>7. \A i, j \in 1..Len(p) : i < j => p[i] < p[j]
  BY DEF Sorted
<1>. HIDE DEF a, b, m, p, e
<1>8. m \o a \in Seq(Nat) /\ Len(m \o a) = Len(m) + k
  BY <1>1, <1>5, ConcatProperties
<1>9. ASSUME NEW i \in 1..(Len(m) + k)
      PROVE  (m \o a)[i] = (e + k) - (Len(m) + k) + i - 1
  <2>1. CASE i <= Len(m)
    <3>1. (m \o a)[i] = m[i] /\ i \in 1..Len(m)
      BY <2>1, <1>1, <1>2, <1>5
    <3>. QED  BY <3>1, <1>1, <1>2, <1>6
  <2>2. CASE i > Len(m)
    <3>1. i - Len(m) \in 1..k
      BY <2>2, <1>1, <1>2
    <3>2. (m \o a)[i] = a[i - Len(m)]
      BY <2>2, <1>1, <1>2, <1>5
    <3>3. a[i - Len(m)] = e + (i - Len(m)) - 1
      BY <3>1, <1>2, <1>5
    <3>. QED  BY <3>2, <3>3, <1>1, <1>2
  <2>3. i \in Int /\ Len(m) \in Nat
    BY <1>1, <1>2
  <2>4. i <= Len(m) \/ i > Len(m)
    BY <2>3
  <2>. QED  BY <2>1, <2>2, <2>4
<1>10. ASSUME NEW i \in 1..(Len(p) - k)
       PROVE  b[i] > e + k
  <2>1. k + i \in (k + 1)..Len(p)
    BY <1>1, <1>2
  <2>. QED  BY <2>1, <1>4, <1>5
<1>11. ASSUME NEW i \in 1..(Len(p) - k), NEW j \in 1..(Len(p) - k), i < j
       PROVE  b[i] < b[j]
  <2>1. k + i \in 1..Len(p) /\ k + j \in 1..Len(p) /\ k + i < k + j
    BY <1>1, <1>2, <1>11
  <2>2. p[k + i] < p[k + j]
    BY <2>1, <1>7
  <2>. QED  BY <2>2, <1>5
<1>12. Drain(q) \in QueueType
  BY <1>1, <1>2, <1>3, <1>5, <1>8 DEF QueueType
<1>13. MainContinuous(Drain(q))
  BY <1>3, <1>8, <1>9 DEF MainContinuous
<1>14. PendingInOrder(Drain(q))
  BY <1>3, <1>5, <1>10, <1>11 DEF PendingInOrder
<1>15. Drain(q).expected >= e
  BY <1>1, <1>2, <1>3
<1>16. 0..(e + k - 1) \cup ToSet(b) = 0..(e - 1) \cup ToSet(p)
  <2>1. e \in Nat /\ p \in Seq(Nat) /\ b \in Seq(Nat) /\ k \in 0..Len(p)
    BY <1>1, <1>2, <1>5
  <2>2. /\ \A i \in 1..k : p[i] = e + i - 1
        /\ Len(b) = Len(p) - k
        /\ \A i \in 1..(Len(p) - k) : b[i] = p[k + i]
    BY <1>2, <1>5
  <2>. QED  BY <2>1, <2>2, SameElements, Zenon
<1>17. Accepted(Drain(q)) = 0..(e + k - 1) \cup ToSet(b)
  <2>1. Drain(q).expected = e + k /\ Drain(q).pending = b
    BY <1>3
  <2>2. Accepted(Drain(q))
          = 0..(Drain(q).expected - 1) \cup ToSet(Drain(q).pending)
    BY DEF Accepted
  <2>. QED  BY <2>1, <2>2, <1>1, <1>2
<1>18. Accepted(q) = 0..(e - 1) \cup ToSet(p)
  BY DEF Accepted, e, p
<1>19. Taken(Drain(q)) = Taken(q)
  <2>1. Drain(q).expected = e + k /\ Drain(q).main = m \o a
    BY <1>3
  <2>2. Taken(Drain(q)) = (e + k) - (Len(m) + k)
    BY <2>1, <1>8 DEF Taken
  <2>3. Taken(q) = e - Len(m)
    BY DEF Taken, e, m
  <2>4. Len(m) \in Nat /\ k \in Nat
    BY <1>1, <1>2
  <2>. QED  BY <2>2, <2>3, <2>4, <1>1
<1>. QED
  BY <1>12, <1>13, <1>14, <1>15, <1>16, <1>17, <1>18, <1>19 DEF e, InOrder

(***************************************************************************)
(* enqueue() under its own assertions keeps the two lists as their         *)
(* comments describe them, the main list without gaps, the pending list    *)
(* sorted and behind a gap, and accepts exactly the segment it is given.   *)
(***************************************************************************)
LEMMA EnqueueInOrder ==
  ASSUME NEW q, NEW n \in Nat, InOrder(q), AssertionsHold(q, n)
  PROVE  /\ InOrder(Enqueue(q, n))
         /\ Enqueue(q, n).expected >= q.expected
         /\ Accepted(Enqueue(q, n)) = Accepted(q) \cup {n}
         /\ Taken(Enqueue(q, n)) = Taken(q)
<1>. DEFINE r == Place(q, n)
<1>1. q.main \in Seq(Nat) /\ q.pending \in Seq(Nat) /\ q.expected \in Nat
  BY DEF QueueType, InOrder
<1>2. Drainable(r) /\ r.expected >= q.expected
      /\ Accepted(r) = Accepted(q) \cup {n}
      /\ Taken(r) = Taken(q)
  <2>1. CASE n = q.expected
    <3>1. r = [main |-> Append(q.main, n), pending |-> q.pending,
               expected |-> q.expected + 1]
      BY <2>1 DEF Place, QueueType, InOrder
    <3>2. r \in QueueType
      BY <3>1, <1>1 DEF QueueType
    <3>3. MainContinuous(r)
      <4>1. Len(Append(q.main, n)) = Len(q.main) + 1
        BY <1>1
      <4>2. ASSUME NEW i \in 1..(Len(q.main) + 1)
            PROVE  Append(q.main, n)[i]
                     = (q.expected + 1) - (Len(q.main) + 1) + i - 1
        <5>1. CASE i \in 1..Len(q.main)
          <6>1. Append(q.main, n)[i] = q.main[i]
            BY <5>1, <1>1
          <6>2. q.main[i] = q.expected - Len(q.main) + i - 1
            BY <5>1 DEF MainContinuous, InOrder
          <6>. QED  BY <6>1, <6>2, <1>1
        <5>2. CASE i = Len(q.main) + 1
          BY <5>2, <1>1, <2>1
        <5>. QED  BY <5>1, <5>2, <1>1
      <4>. QED  BY <3>1, <4>1, <4>2 DEF MainContinuous
    <3>4. Sorted(r.pending)
      BY <3>1 DEF PendingInOrder, Sorted, InOrder
    <3>5. \A i \in 1..Len(r.pending) : r.pending[i] >= r.expected
      BY <3>1, <1>1 DEF PendingInOrder, InOrder
    <3>6. r.expected >= q.expected
      BY <3>1, <1>1
    <3>7. 0..((q.expected + 1) - 1) = 0..(q.expected - 1) \cup {n}
      BY <1>1, <2>1
    <3>8. Accepted(r) = Accepted(q) \cup {n}
      BY <3>1, <3>7 DEF Accepted
    <3>9. Taken(r) = Taken(q)
      BY <3>1, <1>1 DEF Taken
    <3>. QED  BY <3>2, <3>3, <3>4, <3>5, <3>6, <3>8, <3>9 DEF Drainable
  <2>2. CASE n # q.expected
    <3>. DEFINE p == InsertPending(q.pending, n)
    <3>1. r = [main |-> q.main, pending |-> p, expected |-> q.expected]
      BY <2>2 DEF Place, QueueType, InOrder
    <3>2. n > q.expected /\ n \notin ToSet(q.pending)
      BY <2>2 DEF AssertionsHold
    <3>3. Sorted(q.pending)
      BY DEF PendingInOrder, Sorted, InOrder
    <3>4. p \in Seq(Nat) /\ Sorted(p) /\ ToSet(p) = ToSet(q.pending) \cup {n}
      BY <1>1, <3>2, <3>3, InsertPendingSorted
    <3>. HIDE DEF p
    <3>5. \A x \in ToSet(q.pending) : x > q.expected
      BY <1>1, ElementOf DEF PendingInOrder, InOrder
    <3>6. \A i \in 1..Len(p) : p[i] \in ToSet(p)
      BY <3>4, ElementOf
    <3>7. ASSUME NEW i \in 1..Len(p)
          PROVE  p[i] >= q.expected
      <4>1. p[i] > q.expected
        BY <3>2, <3>4, <3>5, <3>6
      <4>2. p[i] \in Nat
        BY <3>4
      <4>. QED  BY <4>1, <4>2, <1>1
    <3>8. r \in QueueType
      BY <3>1, <3>4, <1>1 DEF QueueType
    <3>9. MainContinuous(r)
      BY <3>1 DEF MainContinuous, InOrder
    <3>10. Accepted(r) = Accepted(q) \cup {n}
      BY <3>1, <3>4 DEF Accepted
    <3>11. Taken(r) = Taken(q)
      BY <3>1 DEF Taken
    <3>. QED  BY <3>1, <3>4, <3>7, <3>8, <3>9, <3>10, <3>11, <1>1 DEF Drainable
  <2>. QED  BY <2>1, <2>2
<1>3. /\ InOrder(Drain(r)) /\ Drain(r).expected >= r.expected
      /\ Accepted(Drain(r)) = Accepted(r) /\ Taken(Drain(r)) = Taken(r)
  BY <1>2, DrainInOrder
<1>4. r.expected \in Nat /\ Drain(r).expected \in Nat
  BY <1>2, <1>3 DEF Drainable, InOrder, QueueType
<1>5. Enqueue(q, n) = Drain(r)
  BY DEF Enqueue
<1>. QED  BY <1>1, <1>2, <1>3, <1>4, <1>5

(***************************************************************************)
(* dequeue() takes the head of the main list and keeps everything else.    *)
(***************************************************************************)
LEMMA DequeueInOrder ==
  ASSUME NEW q, InOrder(q), q.main # <<>>
  PROVE  /\ InOrder(Dequeue(q))
         /\ Accepted(Dequeue(q)) = Accepted(q)
         /\ Head(q.main) \in Nat
         /\ Head(q.main) = Taken(q)
         /\ Taken(Dequeue(q)) = Taken(q) + 1
         /\ Taken(q) < q.expected
<1>1. q.main \in Seq(Nat) /\ q.pending \in Seq(Nat) /\ q.expected \in Nat
  BY DEF QueueType, InOrder
<1>2. Dequeue(q) = [main |-> Tail(q.main), pending |-> q.pending,
                    expected |-> q.expected]
  <2>. DEFINE t == Tail(q.main)
  <2>1. Dequeue(q) = [q EXCEPT !.main = t]
    BY DEF Dequeue
  <2>2. q = [main |-> q.main, pending |-> q.pending, expected |-> q.expected]
    BY DEF QueueType, InOrder
  <2>. HIDE DEF t
  <2>3. [q EXCEPT !.main = t] = [main |-> t, pending |-> q.pending,
                                 expected |-> q.expected]
    BY <2>2
  <2>. QED  BY <2>1, <2>3 DEF t
<1>3. /\ Len(q.main) \in Nat \ {0}
      /\ Tail(q.main) \in Seq(Nat) /\ Len(Tail(q.main)) = Len(q.main) - 1
      /\ \A i \in 1..(Len(q.main) - 1) : Tail(q.main)[i] = q.main[i + 1]
      /\ Head(q.main) \in Nat
  BY <1>1
<1>4. Dequeue(q) \in QueueType
  BY <1>1, <1>2, <1>3 DEF QueueType
<1>5. ASSUME NEW i \in 1..(Len(q.main) - 1)
      PROVE  Tail(q.main)[i] = q.expected - (Len(q.main) - 1) + i - 1
  <2>1. i + 1 \in 1..Len(q.main)
    BY <1>3
  <2>2. q.main[i + 1] = q.expected - Len(q.main) + (i + 1) - 1
    BY <2>1 DEF MainContinuous, InOrder
  <2>. QED  BY <2>2, <1>1, <1>3
<1>6. MainContinuous(Dequeue(q))
  BY <1>2, <1>3, <1>5 DEF MainContinuous
<1>7. PendingInOrder(Dequeue(q)) /\ Accepted(Dequeue(q)) = Accepted(q)
  BY <1>2 DEF PendingInOrder, Accepted, InOrder
<1>8. /\ Taken(q) = q.expected - Len(q.main)
      /\ Taken(Dequeue(q)) = q.expected - (Len(q.main) - 1)
  BY <1>2, <1>3 DEF Taken
<1>9. Taken(Dequeue(q)) = Taken(q) + 1 /\ Taken(q) < q.expected
  BY <1>1, <1>3, <1>8
<1>10. Head(q.main) = Taken(q)
  <2>1. 1 \in 1..Len(q.main) /\ Head(q.main) = q.main[1]
    BY <1>1, <1>3
  <2>2. q.main[1] = q.expected - Len(q.main) + 1 - 1
    BY <2>1 DEF MainContinuous, InOrder
  <2>. QED  BY <2>1, <2>2, <1>1, <1>3, <1>8
<1>. QED  BY <1>3, <1>4, <1>6, <1>7, <1>9, <1>10 DEF InOrder


\* A queue that has not accepted n passes the assertions of enqueue(n).
LEMMA NotAccepted ==
  ASSUME NEW q \in QueueType, NEW n \in Nat, n \notin Accepted(q)
  PROVE  AssertionsHold(q, n)
<1>1. q.expected \in Nat
  BY DEF QueueType
<1>2. n \notin 0..(q.expected - 1) /\ n \notin ToSet(q.pending)
  BY DEF Accepted
<1>. QED  BY <1>1, <1>2 DEF AssertionsHold

(***************************************************************************)
(* The numbers in the two lists are the accepted ones that dequeue() has   *)
(* not returned yet.                                                       *)
(***************************************************************************)
LEMMA QueuedWhen ==
  ASSUME NEW q, InOrder(q), NEW n \in Nat
  PROVE  /\ Taken(q) \in Nat
         /\ n < Taken(q) => n \in Accepted(q)
         /\ n \in ToSet(q.main) \cup ToSet(q.pending)
              <=> n \in Accepted(q) /\ ~(n < Taken(q))
<1>. DEFINE m == q.main
            p == q.pending
            e == q.expected
<1>1. m \in Seq(Nat) /\ p \in Seq(Nat) /\ e \in Nat
  BY DEF InOrder, QueueType
<1>2. \A i \in 1..Len(m) : m[i] = e - Len(m) + i - 1
  BY DEF InOrder, MainContinuous
<1>3. \A i \in 1..Len(p) : p[i] > e
  BY DEF InOrder, PendingInOrder
<1>4. \A x : x \in ToSet(m) <=> \E i \in 1..Len(m) : m[i] = x
  BY <1>1, ElementOf
<1>5. \A x : x \in ToSet(p) <=> \E i \in 1..Len(p) : p[i] = x
  BY <1>1, ElementOf
<1>6. Taken(q) = e - Len(m) /\ (n \in Accepted(q) <=> n < e \/ n \in ToSet(p))
  BY <1>1 DEF Taken, Accepted
<1>. HIDE DEF m, p, e
<1>7. e - Len(m) \in Nat
  <2>1. CASE Len(m) = 0
    BY <1>1, <2>1
  <2>2. CASE Len(m) # 0
    <3>1. 1 \in 1..Len(m) /\ m[1] \in Nat
      BY <1>1, <2>2
    <3>. QED  BY <1>1, <1>2, <3>1
  <2>. QED  BY <2>1, <2>2
<1>8. n \in ToSet(m) <=> n < e /\ ~(n < e - Len(m))
  <2>1. ASSUME n < e, ~(n < e - Len(m))
        PROVE  n \in ToSet(m)
    <3>. DEFINE i == n - (e - Len(m)) + 1
    <3>1. i \in 1..Len(m) /\ e - Len(m) + i - 1 = n
      BY <1>1, <2>1
    <3>. QED  BY <1>2, <1>4, <3>1
  <2>2. ASSUME NEW i \in 1..Len(m), m[i] = n
        PROVE  n < e /\ ~(n < e - Len(m))
    BY <1>1, <1>2, <2>2
  <2>. QED  BY <1>4, <2>1, <2>2
<1>9. n \in ToSet(p) => n > e
  BY <1>3, <1>5
<1>. QED  BY <1>1, <1>6, <1>7, <1>8, <1>9 DEF m, p
=============================================================================
