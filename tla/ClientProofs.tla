------------------------------ MODULE ClientProofs ------------------------------
(***************************************************************************)
(* Proofs about the Android client, in two parts that share no variable.   *)
(*                                                                         *)
(* ClientQueue, for any number of links, segments, copies and losses: the  *)
(* client receives exactly once and in order, and no wake-up of a thread   *)
(* in dequeue() is lost.                                                   *)
(*                                                                         *)
(* ClientSwitch, for any number of threads, calls, commands of the server  *)
(* and failures.                                                           *)
(***************************************************************************)
EXTENDS ClientQueue, ClientSwitch, FiniteSetTheorems, TLAPS

-----------------------------------------------------------------------------
(* ClientQueue *)

Order == INSTANCE SegmentQueueProofs

\* A segment's number.
Numbers == 0..(NumSegs - 1)

(***************************************************************************)
(* What the second walk of enqueue() keeps, t segments having been taken:  *)
(* the queue goes on where the taken ones end, up to the expected number.  *)
(***************************************************************************)
Continuous(t, e, q) ==
  t + Len(q) = e /\ \A i \in 1..Len(q) : q[i] = t + i - 1

WalkSound(t, acc) ==
  /\ acc \in [e : Nat, q : Seq(Nat), p : Seq(Numbers), stop : BOOLEAN]
  /\ Continuous(t, acc.e, acc.q)

\* The queue goes on when the expected segment is added to it.
LEMMA ContinuousAppend ==
  ASSUME NEW t \in Nat, NEW e \in Nat, NEW q \in Seq(Nat), Continuous(t, e, q)
  PROVE  Append(q, e) \in Seq(Nat) /\ Continuous(t, e + 1, Append(q, e))
<1>. DEFINE r == Append(q, e)
<1>1. /\ r \in Seq(Nat) /\ Len(r) = Len(q) + 1 /\ r[Len(q) + 1] = e
      /\ \A i \in 1..Len(q) : r[i] = q[i]
  OBVIOUS
<1>2. Len(q) \in Nat /\ t + Len(q) = e /\ \A i \in 1..Len(q) : q[i] = t + i - 1
  BY DEF Continuous
<1>. HIDE DEF r
<1>3. ASSUME NEW i \in 1..Len(r)
      PROVE  r[i] = t + i - 1
  <2>1. i \in 1..Len(q) \/ i = Len(q) + 1
    BY <1>1, <1>2
  <2>2. CASE i \in 1..Len(q)
    BY <1>1, <1>2, <2>2
  <2>3. CASE i = Len(q) + 1
    BY <1>1, <1>2, <2>3
  <2>. QED  BY <2>1, <2>2, <2>3
<1>. QED  BY <1>1, <1>2, <1>3 DEF Continuous, r

\* One step of the walk keeps it.
LEMMA WalkStep ==
  ASSUME NEW t \in Nat, NEW acc, WalkSound(t, acc), NEW n \in Numbers
  PROVE  WalkSound(t, Walk(acc, n))
<1>1. /\ acc \in [e : Nat, q : Seq(Nat), p : Seq(Numbers), stop : BOOLEAN]
      /\ acc.e \in Nat /\ acc.q \in Seq(Nat) /\ Continuous(t, acc.e, acc.q)
      /\ acc.p \in Seq(Numbers) /\ n \in Int
  BY ClientQueueAssumption DEF WalkSound, Numbers
<1>2. CASE acc.stop \/ n > acc.e
  <2>1. Append(acc.p, n) \in Seq(Numbers)
    BY <1>1
  <2>2. Walk(acc, n) = [acc EXCEPT !.stop = TRUE, !.p = Append(acc.p, n)]
    BY <1>2 DEF Walk
  <2>. QED  BY <1>1, <2>1, <2>2 DEF WalkSound
<1>3. CASE ~acc.stop /\ n < acc.e
  <2>1. Walk(acc, n) = acc
    BY <1>1, <1>3 DEF Walk
  <2>. QED  BY <2>1
<1>4. CASE ~acc.stop /\ n = acc.e
  <2>1. Walk(acc, n) = [acc EXCEPT !.e = acc.e + 1, !.q = Append(acc.q, acc.e)]
    BY <1>1, <1>4 DEF Walk
  <2>2. Append(acc.q, acc.e) \in Seq(Nat) /\ Continuous(t, acc.e + 1, Append(acc.q, acc.e))
    BY <1>1, ContinuousAppend
  <2>3. acc.e + 1 \in Nat
    BY <1>1
  <2>. DEFINE x == Append(acc.q, acc.e)
              y == acc.e + 1
  <2>. HIDE DEF x, y
  <2>4. [acc EXCEPT !.e = y, !.q = x] \in
          [e : Nat, q : Seq(Nat), p : Seq(Numbers), stop : BOOLEAN]
    BY <1>1, <2>2, <2>3 DEF x, y
  <2>5. [acc EXCEPT !.e = y, !.q = x].e = y /\ [acc EXCEPT !.e = y, !.q = x].q = x
    BY <1>1
  <2>. QED  BY <2>1, <2>2, <2>4, <2>5 DEF WalkSound, x, y
<1>. QED  BY <1>1, <1>2, <1>3, <1>4

-----------------------------------------------------------------------------
\* f is the run of the walk over p from acc, up to position m.
IsWalk(f, acc, p, m) ==
  f = [i \in 0..m |-> IF i = 0 THEN acc ELSE Walk(f[i - 1], p[i])]

\* A run can be continued by one step.
LEMMA WalkContinues ==
  ASSUME NEW acc, NEW p, NEW m \in Nat, NEW f, IsWalk(f, acc, p, m)
  PROVE  \E g : IsWalk(g, acc, p, m + 1)
<1>. DEFINE g == [i \in 0..(m + 1) |-> IF i <= m THEN f[i] ELSE Walk(f[m], p[m + 1])]
            h == [i \in 0..(m + 1) |-> IF i = 0 THEN acc ELSE Walk(g[i - 1], p[i])]
<1>1. \A i \in 0..m : f[i] = IF i = 0 THEN acc ELSE Walk(f[i - 1], p[i])
  BY DEF IsWalk
<1>2. ASSUME NEW i \in 0..(m + 1)
      PROVE  g[i] = h[i]
  <2>1. CASE i = 0
    <3>1. g[0] = f[0] /\ h[0] = acc
      BY <2>1
    <3>. QED  BY <1>1, <2>1, <3>1
  <2>2. CASE i \in 1..m
    <3>1. i \in 0..m /\ i - 1 \in 0..m /\ i # 0
      BY <2>2
    <3>2. g[i] = f[i] /\ g[i - 1] = f[i - 1]
      BY <3>1
    <3>3. h[i] = Walk(g[i - 1], p[i])
      BY <3>1
    <3>. QED  BY <1>1, <3>1, <3>2, <3>3
  <2>3. CASE i = m + 1
    <3>1. g[i] = Walk(f[m], p[i]) /\ i - 1 = m /\ i # 0
      BY <2>3
    <3>2. g[i - 1] = f[m]
      BY <3>1
    <3>3. h[i] = Walk(g[i - 1], p[i])
      BY <3>1
    <3>. QED  BY <3>1, <3>2, <3>3
  <2>. QED  BY <2>1, <2>2, <2>3
<1>3. g = h
  BY <1>2
<1>4. IsWalk(g, acc, p, m + 1)
  BY <1>3, Zenon DEF IsWalk
<1>. QED  BY <1>4

\* The walk comes to the end of the list.
LEMMA WalkEnds ==
  ASSUME NEW acc, NEW p, NEW m \in Nat
  PROVE  \E f : IsWalk(f, acc, p, m)
<1>. DEFINE T == {l \in Nat : ~\E f : IsWalk(f, acc, p, l)}
<1>. SUFFICES ASSUME T # {}
              PROVE  FALSE
  OBVIOUS
<1>1. PICK l \in T : \A k \in T : l <= k
  BY Order!LeastNatural
<1>2. l # 0
  <2>. DEFINE f == [i \in 0..0 |-> acc]
  <2>1. f = [i \in 0..0 |-> IF i = 0 THEN acc ELSE Walk(f[i - 1], p[i])]
    OBVIOUS
  <2>2. IsWalk(f, acc, p, 0)
    BY <2>1, Zenon DEF IsWalk
  <2>. QED  BY <2>2
<1>3. l - 1 \in Nat /\ l - 1 \notin T /\ (l - 1) + 1 = l
  BY <1>1, <1>2
<1>4. PICK f : IsWalk(f, acc, p, l - 1)
  BY <1>3
<1>5. \E g : IsWalk(g, acc, p, l)
  BY <1>3, <1>4, WalkContinues
<1>. QED  BY <1>5

\* The second walk of enqueue() ends in a sound state.
LEMMA DrainSound ==
  ASSUME NEW t \in Nat, NEW e \in Nat, NEW q \in Seq(Nat), NEW p \in Seq(Numbers),
         Continuous(t, e, q)
  PROVE  WalkSound(t, Drain(e, q, p))
<1>. DEFINE acc == [e |-> e, q |-> q, p |-> <<>>, stop |-> FALSE]
            w == CHOOSE f : f = [i \in 0..Len(p) |->
                                   IF i = 0 THEN acc ELSE Walk(f[i - 1], p[i])]
<1>1. Len(p) \in Nat /\ \A i \in 1..Len(p) : p[i] \in Numbers
  OBVIOUS
<1>2. WalkSound(t, acc)
  BY DEF WalkSound
<1>3. Drain(e, q, p) = w[Len(p)]
  BY Zenon DEF Drain
<1>. HIDE DEF acc
<1>4. w = [i \in 0..Len(p) |-> IF i = 0 THEN acc ELSE Walk(w[i - 1], p[i])]
  <2>1. \E f : f = [i \in 0..Len(p) |-> IF i = 0 THEN acc ELSE Walk(f[i - 1], p[i])]
    <3>1. \E f : IsWalk(f, acc, p, Len(p))
      BY <1>1, WalkEnds
    <3>. QED  BY <3>1, Zenon DEF IsWalk
  <2>. QED  BY <2>1
<1>. HIDE DEF w
<1>5. \A i \in 0..Len(p) : w[i] = IF i = 0 THEN acc ELSE Walk(w[i - 1], p[i])
  BY <1>4
<1>. DEFINE T == {i \in 0..Len(p) : ~WalkSound(t, w[i])}
<1>6. ASSUME T # {}
      PROVE  FALSE
  <2>1. T \subseteq Nat
    BY <1>1
  <2>2. PICK l \in T : \A k \in T : l <= k
    BY <1>6, <2>1, Order!LeastNatural
  <2>3. l # 0
    BY <1>1, <1>2, <1>5
  <2>4. l - 1 \in 0..Len(p) /\ l - 1 \notin T /\ l \in 1..Len(p)
    BY <1>1, <2>2, <2>3
  <2>5. WalkSound(t, w[l - 1]) /\ p[l] \in Numbers
    BY <1>1, <2>4
  <2>6. w[l] = Walk(w[l - 1], p[l])
    BY <1>5, <2>3, <2>4
  <2>. QED  BY <2>2, <2>5, <2>6, WalkStep
<1>. QED  BY <1>1, <1>3, <1>6

\* The first walk inserts the segment somewhere into the pending list.
LEMMA InsertPendingTyped ==
  ASSUME NEW p \in Seq(Numbers), NEW n \in Numbers
  PROVE  InsertPending(p, n) \in Seq(Numbers)
<1>. DEFINE greater == {i \in DOMAIN p : p[i] > n}
            at == IF greater = {} THEN Len(p) ELSE Min(greater)
<1>1. Len(p) \in Nat /\ DOMAIN p = 1..Len(p) /\ greater \subseteq 1..Len(p)
  OBVIOUS
<1>2. at \in 0..Len(p)
  <2>1. CASE greater = {}
    BY <1>1, <2>1
  <2>2. CASE greater # {}
    <3>1. greater \subseteq Nat
      BY <1>1
    <3>2. \E m \in greater : \A k \in greater : m <= k
      BY <2>2, <3>1, Order!LeastNatural
    <3>. HIDE DEF greater
    <3>3. Min(greater) \in greater
      BY <3>2 DEF Min
    <3>4. at = Min(greater)
      BY <2>2, Zenon
    <3>5. at \in 1..Len(p)
      BY <1>1, <3>3, <3>4, Zenon
    <3>. QED  BY <1>1, <3>5
  <2>. QED  BY <2>1, <2>2
<1>3. InsertPending(p, n) = SubSeq(p, 1, at) \o <<n>> \o SubSeq(p, at + 1, Len(p))
  BY DEF InsertPending
<1>. HIDE DEF at
<1>4. SubSeq(p, 1, at) \in Seq(Numbers) /\ SubSeq(p, at + 1, Len(p)) \in Seq(Numbers)
  BY <1>1, <1>2
<1>. QED  BY <1>3, <1>4

-----------------------------------------------------------------------------
(***************************************************************************)
(* The inductive invariant.  ReceivedInOrder needs the types of what is    *)
(* pending: a number that a link can carry.                                *)
(***************************************************************************)
InSequence == \A k \in Kinds : Continuous(taken[k], expected[k], queue[k])
PendingTyped == pending \in [Kinds -> Seq(Numbers)]

QueueInv == ReceivingTypeOK /\ InSequence /\ PendingTyped /\ NoLostWakeup

\* The queue after enqueue(), up to the notification.
LEMMA EnqueuedSound ==
  ASSUME QueueInv, NEW k \in Kinds, NEW n \in Numbers, ~(n < expected[k])
  PROVE  WalkSound(taken[k], Enqueued(k, n))
<1>1. /\ expected[k] \in Nat /\ taken[k] \in Nat /\ queue[k] \in Seq(Nat)
      /\ pending[k] \in Seq(Numbers) /\ Continuous(taken[k], expected[k], queue[k])
  BY DEF QueueInv, ReceivingTypeOK, InSequence, PendingTyped
<1>2. CASE n = expected[k]
  <2>1. Enqueued(k, n) = Drain(expected[k] + 1, Append(queue[k], expected[k]), pending[k])
    BY <1>2 DEF Enqueued
  <2>2. /\ Append(queue[k], expected[k]) \in Seq(Nat) /\ expected[k] + 1 \in Nat
        /\ Continuous(taken[k], expected[k] + 1, Append(queue[k], expected[k]))
    BY <1>1, ContinuousAppend
  <2>. QED  BY <1>1, <2>1, <2>2, DrainSound
<1>3. CASE n # expected[k]
  <2>1. Enqueued(k, n) = Drain(expected[k], queue[k], InsertPending(pending[k], n))
    BY <1>3 DEF Enqueued
  <2>2. InsertPending(pending[k], n) \in Seq(Numbers)
    BY <1>1, InsertPendingTyped
  <2>. QED  BY <1>1, <2>1, <2>2, DrainSound
<1>. QED  BY <1>2, <1>3

\* The retransmission requests name segments that exist.
LEMMA RequestTyped ==
  ASSUME QueueInv, RequestRetransmit
  PROVE  failed' \subseteq Segs
<1>1. ASSUME NEW k \in Kinds
      PROVE  Missing(k) \subseteq Numbers
  <2>1. expected[k] \in Nat /\ pending[k] \in Seq(Numbers)
    BY DEF QueueInv, ReceivingTypeOK, PendingTyped
  <2>2. \A m \in Range(pending[k]) : m \in Numbers
    BY <2>1 DEF Range
  <2>3. ASSUME NEW n \in Missing(k)
        PROVE  n \in Numbers
    <3>1. PICK m \in Range(pending[k]) : n \in expected[k]..(m - 1)
      BY DEF Missing
    <3>2. m \in 0..(NumSegs - 1)
      BY <2>2 DEF Numbers
    <3>. QED  BY <2>1, <3>1, <3>2, ClientQueueAssumption DEF Numbers
  <2>. QED  BY <2>3
<1>2. failed \subseteq Segs /\ failed' = failed \cup UNION {{k} \X Missing(k) : k \in Kinds}
  BY DEF QueueInv, ReceivingTypeOK, RequestRetransmit
<1>3. \A k \in Kinds : {k} \X Missing(k) \subseteq Segs
  BY <1>1 DEF Segs, Numbers
<1>. QED  BY <1>2, <1>3

\* Steps that leave the queues, and those who read and fill them, alone.
LEMMA QueueUntouched ==
  ASSUME QueueInv, ReceivingTypeOK', UNCHANGED <<queueVars, taken, rpc, rkind, dpc>>
  PROVE  QueueInv'
<1>1. InSequence' /\ PendingTyped'
  BY DEF QueueInv, InSequence, PendingTyped, queueVars
<1>2. NoLostWakeup'
  BY DEF QueueInv, NoLostWakeup, queueVars
<1>. QED  BY <1>1, <1>2 DEF QueueInv

\* A segment is enqueued: if the queue has grown, its reader is notified next.
LEMMA ReceiveInv ==
  ASSUME QueueInv, NEW l \in Links, ReceiveSegment(l)
  PROVE  QueueInv'
<1>. DEFINE k == Head(link[l])[1]
            n == Head(link[l])[2]
            after == Enqueued(k, n)
<1>1. link \in [Links -> Seq(Segs)] /\ link[l] # <<>> /\ rpc[l] = "read"
  BY DEF QueueInv, ReceivingTypeOK, ReceiveSegment
<1>2. Head(link[l]) \in Segs /\ Tail(link[l]) \in Seq(Segs)
  BY <1>1
<1>3. k \in Kinds /\ n \in Numbers
  BY <1>2 DEF Segs, Numbers
<1>4. /\ link' = [link EXCEPT ![l] = Tail(link[l])]
      /\ UNCHANGED <<sent, failed, awake, losses, taken, dpc, watchVars>>
  BY DEF ReceiveSegment
<1>5. link' \in [Links -> Seq(Segs)]
  BY <1>1, <1>2, <1>4
<1>6. CASE n < expected[k]
  <2>1. UNCHANGED <<queueVars, rpc, rkind>>
    BY <1>6 DEF ReceiveSegment
  <2>2. ReceivingTypeOK'
    BY <1>4, <1>5, <2>1, Zenon DEF QueueInv, ReceivingTypeOK, queueVars, watchVars
  <2>. QED  BY <1>4, <2>1, <2>2, QueueUntouched
<1>7. CASE ~(n < expected[k])
  <2>1. /\ expected' = [expected EXCEPT ![k] = after.e]
        /\ queue' = [queue EXCEPT ![k] = after.q]
        /\ pending' = [pending EXCEPT ![k] = after.p]
        /\ rpc' = [rpc EXCEPT ![l] = IF after.q = queue[k] THEN "read" ELSE "notify"]
        /\ rkind' = [rkind EXCEPT ![l] = k]
    BY <1>7 DEF ReceiveSegment
  <2>2. WalkSound(taken[k], after)
    BY <1>3, <1>7, EnqueuedSound
  <2>. HIDE DEF after, k, n
  <2>3. /\ after.e \in Nat /\ after.q \in Seq(Nat) /\ after.p \in Seq(Numbers)
        /\ Continuous(taken[k], after.e, after.q)
    BY <2>2 DEF WalkSound
  <2>4. /\ expected \in [Kinds -> Nat] /\ queue \in [Kinds -> Seq(Nat)]
        /\ pending \in [Kinds -> Seq(Numbers)] /\ taken \in [Kinds -> Nat]
        /\ rpc \in [Links -> {"read", "notify"}] /\ rkind \in [Links -> Kinds]
    BY DEF QueueInv, ReceivingTypeOK, PendingTyped
  <2>5. /\ expected' \in [Kinds -> Nat] /\ queue' \in [Kinds -> Seq(Nat)]
        /\ pending' \in [Kinds -> Seq(Numbers)]
        /\ rpc' \in [Links -> {"read", "notify"}] /\ rkind' \in [Links -> Kinds]
    BY <1>3, <2>1, <2>3, <2>4
  <2>6. pending' \in [Kinds -> Seq(Nat)]
    <3>1. Seq(Numbers) \subseteq Seq(Nat)
      BY ClientQueueAssumption DEF Numbers
    <3>. QED  BY <2>5, <3>1
  <2>7. ReceivingTypeOK'
    BY <1>4, <1>5, <2>5, <2>6, Zenon DEF QueueInv, ReceivingTypeOK, watchVars
  <2>8. InSequence'
    <3>1. \A m \in Kinds : /\ m = k => expected'[m] = after.e /\ queue'[m] = after.q
                           /\ m # k => expected'[m] = expected[m] /\ queue'[m] = queue[m]
      BY <2>1, <2>4
    <3>. QED  BY <1>4, <2>3, <3>1 DEF QueueInv, InSequence
  <2>9. NoLostWakeup'
    <3>. SUFFICES ASSUME NEW m \in Kinds, dpc'[m] = "waiting", queue'[m] # <<>>
                  PROVE  \E j \in Links : rpc'[j] = "notify" /\ rkind'[j] = m
      BY DEF NoLostWakeup
    <3>1. CASE m = k /\ after.q # queue[k]
      <4>1. rpc'[l] = "notify" /\ rkind'[l] = m
        BY <2>1, <2>4, <3>1
      <4>. QED  BY <4>1
    <3>2. CASE ~(m = k /\ after.q # queue[k])
      <4>1. queue'[m] = queue[m] /\ dpc[m] = "waiting"
        BY <1>4, <2>1, <2>4, <3>2
      <4>2. PICK j \in Links : rpc[j] = "notify" /\ rkind[j] = m
        BY <4>1 DEF QueueInv, NoLostWakeup
      <4>3. j # l
        BY <1>1, <4>2
      <4>4. rpc'[j] = "notify" /\ rkind'[j] = m
        BY <2>1, <2>4, <4>2, <4>3
      <4>. QED  BY <4>4
    <3>. QED  BY <3>1, <3>2
  <2>. QED  BY <2>5, <2>7, <2>8, <2>9 DEF QueueInv, PendingTyped
<1>. QED  BY <1>6, <1>7

\* The notification after an enqueue: the thread that waits is woken.
LEMMA NotifyInv ==
  ASSUME QueueInv, NEW l \in Links, NotifyDequeue(l)
  PROVE  QueueInv'
<1>. DEFINE woken == IF dpc[rkind[l]] = "waiting" THEN "woken" ELSE dpc[rkind[l]]
<1>1. /\ rpc \in [Links -> {"read", "notify"}] /\ rkind \in [Links -> Kinds]
      /\ dpc \in [Kinds -> {"dequeue", "waiting", "woken"}]
  BY DEF QueueInv, ReceivingTypeOK
<1>2. /\ rpc' = [rpc EXCEPT ![l] = "read"] /\ dpc' = [dpc EXCEPT ![rkind[l]] = woken]
      /\ UNCHANGED <<wireVars, queueVars, taken, rkind, watchVars>>
  BY DEF NotifyDequeue
<1>3. woken \in {"dequeue", "woken"}
  BY <1>1
<1>. HIDE DEF woken
<1>4. /\ rpc' \in [Links -> {"read", "notify"}]
      /\ dpc' \in [Kinds -> {"dequeue", "waiting", "woken"}]
  BY <1>1, <1>2, <1>3
<1>5. ReceivingTypeOK'
  BY <1>2, <1>4, Zenon DEF QueueInv, ReceivingTypeOK, wireVars, queueVars, watchVars
<1>6. InSequence' /\ PendingTyped'
  BY <1>2 DEF QueueInv, InSequence, PendingTyped, queueVars
<1>7. NoLostWakeup'
  <2>. SUFFICES ASSUME NEW m \in Kinds, dpc'[m] = "waiting", queue'[m] # <<>>
                PROVE  \E j \in Links : rpc'[j] = "notify" /\ rkind'[j] = m
    BY DEF NoLostWakeup
  <2>1. m # rkind[l] /\ dpc[m] = "waiting"
    BY <1>1, <1>2, <1>3
  <2>2. queue[m] # <<>>
    BY <1>2 DEF queueVars
  <2>3. PICK j \in Links : rpc[j] = "notify" /\ rkind[j] = m
    BY <2>1, <2>2 DEF QueueInv, NoLostWakeup
  <2>4. rpc'[j] = "notify" /\ rkind'[j] = m
    BY <1>1, <1>2, <2>1, <2>3
  <2>. QED  BY <2>4
<1>. QED  BY <1>5, <1>6, <1>7 DEF QueueInv

\* The queue goes on when its first segment is taken.
LEMMA ContinuousTail ==
  ASSUME NEW t \in Nat, NEW e \in Nat, NEW q \in Seq(Nat), q # <<>>, Continuous(t, e, q)
  PROVE  Tail(q) \in Seq(Nat) /\ Continuous(t + 1, e, Tail(q))
<1>1. /\ Tail(q) \in Seq(Nat) /\ Len(Tail(q)) = Len(q) - 1 /\ Len(q) \in Nat \ {0}
      /\ \A i \in 1..Len(Tail(q)) : Tail(q)[i] = q[i + 1]
  OBVIOUS
<1>2. t + Len(q) = e /\ \A i \in 1..Len(q) : q[i] = t + i - 1
  BY DEF Continuous
<1>3. ASSUME NEW i \in 1..Len(Tail(q))
      PROVE  Tail(q)[i] = (t + 1) + i - 1
  <2>1. i + 1 \in 1..Len(q)
    BY <1>1
  <2>. QED  BY <1>1, <1>2, <2>1
<1>. QED  BY <1>1, <1>2, <1>3 DEF Continuous

\* dequeue() takes the first segment, or waits because there is none.
LEMMA DequeueInv ==
  ASSUME QueueInv, NEW k \in Kinds, Dequeue(k)
  PROVE  QueueInv'
<1>1. /\ dpc \in [Kinds -> {"dequeue", "waiting", "woken"}]
      /\ queue \in [Kinds -> Seq(Nat)] /\ taken \in [Kinds -> Nat]
      /\ expected \in [Kinds -> Nat]
  BY DEF QueueInv, ReceivingTypeOK
<1>2. UNCHANGED <<wireVars, expected, pending, rpc, rkind, watchVars>>
  BY DEF Dequeue
<1>3. PendingTyped'
  BY <1>2 DEF QueueInv, PendingTyped
<1>4. CASE queue[k] # <<>>
  <2>1. /\ queue' = [queue EXCEPT ![k] = Tail(queue[k])]
        /\ taken' = [taken EXCEPT ![k] = taken[k] + 1]
        /\ dpc' = [dpc EXCEPT ![k] = "dequeue"]
    BY <1>4 DEF Dequeue
  <2>2. /\ Tail(queue[k]) \in Seq(Nat)
        /\ Continuous(taken[k] + 1, expected[k], Tail(queue[k]))
    BY <1>1, <1>4, ContinuousTail DEF QueueInv, InSequence
  <2>3. /\ queue' \in [Kinds -> Seq(Nat)] /\ taken' \in [Kinds -> Nat]
        /\ dpc' \in [Kinds -> {"dequeue", "waiting", "woken"}]
    BY <1>1, <2>1, <2>2
  <2>4. ReceivingTypeOK'
    BY <1>2, <2>3, Zenon DEF QueueInv, ReceivingTypeOK, wireVars, watchVars
  <2>5. \A m \in Kinds :
          /\ m = k => /\ queue'[m] = Tail(queue[m]) /\ taken'[m] = taken[m] + 1
                      /\ dpc'[m] = "dequeue"
          /\ m # k => queue'[m] = queue[m] /\ taken'[m] = taken[m] /\ dpc'[m] = dpc[m]
    BY <1>1, <2>1
  <2>6. InSequence'
    BY <1>2, <2>2, <2>5 DEF QueueInv, InSequence
  <2>7. NoLostWakeup'
    BY <1>2, <2>5 DEF QueueInv, NoLostWakeup
  <2>. QED  BY <1>3, <2>4, <2>6, <2>7 DEF QueueInv
<1>5. CASE queue[k] = <<>>
  <2>. DEFINE next == IF dpc[k] = "dequeue" THEN "waiting" ELSE "dequeue"
  <2>1. dpc' = [dpc EXCEPT ![k] = next] /\ UNCHANGED <<queue, taken>>
    BY <1>5 DEF Dequeue
  <2>2. next \in {"dequeue", "waiting", "woken"}
    OBVIOUS
  <2>. HIDE DEF next
  <2>3. dpc' \in [Kinds -> {"dequeue", "waiting", "woken"}]
    BY <1>1, <2>1, <2>2
  <2>4. ReceivingTypeOK'
    BY <1>2, <2>1, <2>3, Zenon DEF QueueInv, ReceivingTypeOK, wireVars, watchVars
  <2>5. InSequence'
    BY <1>2, <2>1 DEF QueueInv, InSequence
  <2>6. \A m \in Kinds : m # k => dpc'[m] = dpc[m]
    BY <1>1, <2>1
  <2>7. NoLostWakeup'
    BY <1>2, <1>5, <2>1, <2>6 DEF QueueInv, NoLostWakeup
  <2>. QED  BY <1>3, <2>4, <2>5, <2>7 DEF QueueInv
<1>. QED  BY <1>4, <1>5

\* A wait that ends without a notification.
LEMMA SpuriousInv ==
  ASSUME QueueInv, NEW k \in Kinds, SpuriousDequeueWakeup(k)
  PROVE  QueueInv'
<1>1. /\ dpc \in [Kinds -> {"dequeue", "waiting", "woken"}]
      /\ dpc' = [dpc EXCEPT ![k] = "woken"]
      /\ UNCHANGED <<wireVars, queueVars, taken, rpc, rkind, watchVars>>
  BY DEF QueueInv, ReceivingTypeOK, SpuriousDequeueWakeup
<1>2. dpc' \in [Kinds -> {"dequeue", "waiting", "woken"}]
  BY <1>1
<1>3. ReceivingTypeOK'
  BY <1>1, <1>2, Zenon DEF QueueInv, ReceivingTypeOK, wireVars, queueVars, watchVars
<1>4. InSequence' /\ PendingTyped'
  BY <1>1 DEF QueueInv, InSequence, PendingTyped, queueVars
<1>5. \A m \in Kinds : dpc'[m] = "waiting" => dpc[m] = "waiting"
  BY <1>1
<1>6. NoLostWakeup'
  BY <1>1, <1>5 DEF QueueInv, NoLostWakeup, queueVars
<1>. QED  BY <1>3, <1>4, <1>6 DEF QueueInv

-----------------------------------------------------------------------------
(***************************************************************************)
(* The senders of the server wake up or wait, put a segment on a link, for *)
(* the first time or again, or a link breaks.                              *)
(***************************************************************************)
LEMMA LinkInv ==
  ASSUME QueueInv, NEW l \in Links,
         \/ \E k \in Kinds : ServerSend(k, l)
         \/ \E s \in failed : ServerResend(s, l)
         \/ LinkBreaks(l) \/ ServerWaits(l)
  PROVE  QueueInv'
<1>1. /\ link \in [Links -> Seq(Segs)] /\ sent \in [Kinds -> Nat] /\ failed \subseteq Segs
      /\ awake \subseteq Links /\ losses \in 0..MaxLosses /\ \A k \in Kinds : sent[k] <= NumSegs
  BY DEF QueueInv, ReceivingTypeOK
<1>2. CASE \E k \in Kinds : ServerSend(k, l)
  <2>1. PICK k \in Kinds : ServerSend(k, l)
    BY <1>2
  <2>2. /\ sent[k] < NumSegs /\ sent' = [sent EXCEPT ![k] = sent[k] + 1]
        /\ link' = [link EXCEPT ![l] = Append(link[l], <<k, sent[k]>>)]
        /\ UNCHANGED <<failed, awake, losses, queueVars, taken, rpc, rkind, dpc, watchVars>>
    BY <2>1 DEF ServerSend
  <2>3. <<k, sent[k]>> \in Segs
    BY <1>1, <2>2, ClientQueueAssumption DEF Segs
  <2>4. Append(link[l], <<k, sent[k]>>) \in Seq(Segs)
    BY <1>1, <2>3
  <2>5. link' \in [Links -> Seq(Segs)]
    BY <1>1, <2>2, <2>4
  <2>6. sent' \in [Kinds -> Nat] /\ \A m \in Kinds : sent'[m] <= NumSegs
    BY <1>1, <2>2, ClientQueueAssumption
  <2>7. ReceivingTypeOK'
    BY <2>2, <2>5, <2>6, Zenon DEF QueueInv, ReceivingTypeOK, queueVars, watchVars
  <2>. QED  BY <2>2, <2>7, QueueUntouched
<1>3. CASE \E s \in failed : ServerResend(s, l)
  <2>1. PICK s \in failed : ServerResend(s, l)
    BY <1>3
  <2>2. /\ failed' = failed \ {s} /\ link' = [link EXCEPT ![l] = Append(link[l], s)]
        /\ UNCHANGED <<sent, awake, losses, queueVars, taken, rpc, rkind, dpc, watchVars>>
    BY <2>1 DEF ServerResend
  <2>3. Append(link[l], s) \in Seq(Segs) /\ failed' \subseteq Segs
    BY <1>1, <2>2
  <2>4. link' \in [Links -> Seq(Segs)]
    BY <1>1, <2>2, <2>3
  <2>5. ReceivingTypeOK'
    BY <2>2, <2>3, <2>4, Zenon DEF QueueInv, ReceivingTypeOK, queueVars, watchVars
  <2>. QED  BY <2>2, <2>5, QueueUntouched
<1>4. CASE LinkBreaks(l)
  <2>1. /\ losses < MaxLosses /\ losses' = losses + 1
        /\ link' = [link EXCEPT ![l] = <<>>]
        /\ UNCHANGED <<sent, failed, awake, queueVars, taken, rpc, rkind, dpc, watchVars>>
    BY <1>4 DEF LinkBreaks
  <2>2. link' \in [Links -> Seq(Segs)] /\ losses' \in 0..MaxLosses
    BY <1>1, <2>1, ClientQueueAssumption
  <2>3. ReceivingTypeOK'
    BY <2>1, <2>2, Zenon DEF QueueInv, ReceivingTypeOK, queueVars, watchVars
  <2>. QED  BY <2>1, <2>3, QueueUntouched
<1>5. CASE ServerWaits(l)
  <2>1. /\ awake' = awake \ {l}
        /\ UNCHANGED <<sent, link, failed, losses, queueVars, taken, rpc, rkind, dpc, watchVars>>
    BY <1>5 DEF ServerWaits
  <2>2. awake' \subseteq Links
    BY <1>1, <2>1
  <2>3. ReceivingTypeOK'
    BY <2>1, <2>2, Zenon DEF QueueInv, ReceivingTypeOK, queueVars, watchVars
  <2>. QED  BY <2>1, <2>3, QueueUntouched
<1>. QED  BY <1>2, <1>3, <1>4, <1>5

\* Something is enqueued on the server.
LEMMA ServerEnqueueInv ==
  ASSUME QueueInv, ServerEnqueue
  PROVE  QueueInv'
<1>1. /\ awake' \subseteq Links
      /\ UNCHANGED <<sent, link, failed, losses, queueVars, taken, rpc, rkind, dpc, watchVars>>
  BY DEF ServerEnqueue
<1>2. ReceivingTypeOK'
  BY <1>1, Zenon DEF QueueInv, ReceivingTypeOK, queueVars, watchVars
<1>. QED  BY <1>1, <1>2, QueueUntouched

\* The watcher and the transitions of adapters only ask for segments.
LEMMA WatchInv ==
  ASSUME QueueInv,
         \/ WatchQueue \/ BeginTransition
         \/ \E isDisconnection \in BOOLEAN : EndTransition(isDisconnection)
  PROVE  QueueInv'
<1>1. /\ failed \subseteq Segs /\ prev \in [Kinds -> Nat] /\ expected \in [Kinds -> Nat]
      /\ changed \in BOOLEAN /\ steady \in BOOLEAN
  BY Zenon DEF QueueInv, ReceivingTypeOK
<1>2. UNCHANGED <<sent, link, awake, losses, queueVars, taken, rpc, rkind, dpc>>
  BY Zenon DEF WatchQueue, BeginTransition, EndTransition, wireVars
<1>3. failed' \subseteq Segs
  <2>1. failed' = failed \/ RequestRetransmit
    BY Zenon DEF WatchQueue, BeginTransition, EndTransition, wireVars
  <2>. QED  BY <1>1, <2>1, RequestTyped
<1>4. prev' \in [Kinds -> Nat]
  <2>1. prev' = prev \/ (prev' = LastSeqNo /\ \A k \in Kinds : LastSeqNo[k] >= 0)
    BY Zenon DEF WatchQueue, BeginTransition, EndTransition
  <2>2. LastSeqNo \in [Kinds -> Int]
    BY <1>1 DEF LastSeqNo
  <2>3. ASSUME \A k \in Kinds : LastSeqNo[k] >= 0
        PROVE  LastSeqNo \in [Kinds -> Nat]
    BY <2>2, <2>3 DEF LastSeqNo
  <2>. QED  BY <1>1, <2>1, <2>3
<1>5. changed' \in BOOLEAN /\ steady' \in BOOLEAN
  <2>1. changed' = changed \/ changed' = TRUE
    BY Zenon DEF WatchQueue, BeginTransition, EndTransition
  <2>2. steady' = steady \/ steady' = TRUE \/ steady' = FALSE
    BY Zenon DEF WatchQueue, BeginTransition, EndTransition
  <2>. QED  BY <1>1, <2>1, <2>2, Zenon
<1>6. ReceivingTypeOK'
  BY <1>2, <1>3, <1>4, <1>5, Zenon DEF QueueInv, ReceivingTypeOK, queueVars
<1>. QED  BY <1>2, <1>6, QueueUntouched

-----------------------------------------------------------------------------
\* QueueInv is an invariant of the specification.
THEOREM QueueInvariant == ReceivingSpec => []QueueInv
<1>1. ReceivingInit => QueueInv
  <2>. SUFFICES ASSUME ReceivingInit
                PROVE  QueueInv
    OBVIOUS
  <2>1. (CHOOSE k \in Kinds : TRUE) \in Kinds
    BY ClientQueueAssumption
  <2>2. ReceivingTypeOK
    <3>1. /\ sent \in [Kinds -> Nat] /\ losses \in 0..MaxLosses
          /\ \A k \in Kinds : sent[k] <= NumSegs
          /\ link \in [Links -> Seq(Segs)] /\ failed \subseteq Segs
          /\ awake \subseteq Links /\ expected \in [Kinds -> Nat] /\ taken \in [Kinds -> Nat]
          /\ queue \in [Kinds -> Seq(Nat)] /\ pending \in [Kinds -> Seq(Nat)]
      BY ClientQueueAssumption DEF ReceivingInit
    <3>2. /\ rpc \in [Links -> {"read", "notify"}] /\ rkind \in [Links -> Kinds]
          /\ dpc \in [Kinds -> {"dequeue", "waiting", "woken"}]
          /\ prev \in [Kinds -> Nat]
      BY <2>1 DEF ReceivingInit
    <3>3. {changed, steady} \subseteq BOOLEAN
      BY Zenon DEF ReceivingInit
    <3>. QED  BY <3>1, <3>2, <3>3, Zenon DEF ReceivingTypeOK
  <2>3. InSequence /\ PendingTyped
    BY DEF ReceivingInit, InSequence, PendingTyped, Continuous
  <2>4. NoLostWakeup
    BY DEF ReceivingInit, NoLostWakeup
  <2>. QED  BY <2>2, <2>3, <2>4 DEF QueueInv
<1>2. QueueInv /\ [ReceivingNext]_receivingVars => QueueInv'
  <2>. SUFFICES ASSUME QueueInv, [ReceivingNext]_receivingVars
                PROVE  QueueInv'
    OBVIOUS
  <2>1. CASE UNCHANGED receivingVars
    <3>1. ReceivingTypeOK'
      BY <2>1, Zenon DEF QueueInv, ReceivingTypeOK, receivingVars, wireVars, queueVars, watchVars
    <3>. QED  BY <2>1, <3>1, QueueUntouched DEF receivingVars
  <2>2. CASE ReceivingNext
    BY <2>2, LinkInv, ServerEnqueueInv, ReceiveInv, NotifyInv, DequeueInv, SpuriousInv, WatchInv, Zenon
    DEF ReceivingNext
  <2>. QED  BY <2>1, <2>2
<1>. QED  BY <1>1, <1>2, PTL DEF ReceivingSpec

(***************************************************************************)
(* Exactly once and in order: whatever links break, whatever is sent again *)
(* and however often, the application takes 0, 1, 2, ... of each kind      *)
(* (SegmentManager.java: enqueue(), dequeue()).                            *)
(***************************************************************************)
THEOREM ClientReceivesInOrder == ReceivingSpec => []ReceivedInOrder
<1>1. QueueInv => ReceivedInOrder
  <2>. SUFFICES ASSUME QueueInv
                PROVE  ReceivedInOrder
    OBVIOUS
  <2>1. \A k \in Kinds : queue[k] \in Seq(Nat)
    BY DEF QueueInv, ReceivingTypeOK
  <2>. QED  BY <2>1 DEF QueueInv, InSequence, Continuous, ReceivedInOrder
<1>. QED  BY <1>1, QueueInvariant, PTL

(***************************************************************************)
(* No wake-up is lost between the enqueue and the notification, however    *)
(* many receiver threads enqueue (wakeUpDequeueWaiting(), dequeue()).      *)
(***************************************************************************)
THEOREM ClientWakeupsArrive == ReceivingSpec => []NoLostWakeup
<1>1. QueueInv => NoLostWakeup
  BY DEF QueueInv
<1>. QED  BY <1>1, QueueInvariant, PTL

-----------------------------------------------------------------------------
(* ClientSwitch *)

\* A thread that may still change its adapter or report (see Working).
Busy(t) == threads[t].pc \notin {"none", "late", "waitSender", "finishPurpose", "stuck"}

\* A thread that waits for the sender's end has reported already.
Reported ==
  \A t \in Threads :
    threads[t].pc \in {"waitSender", "finishPurpose", "stuck"} => threads[t].listener = "none"

(***************************************************************************)
(* There is one thread at a time.  Until the start has succeeded no        *)
(* command of the server is received; from then on the state of the        *)
(* switcher is Switching as long as there is a thread.                     *)
(***************************************************************************)
Undisturbed == core.calls < 2 /\ faults.wifi = 0

OneThread ==
  /\ core.calls < 2 => core.todo = <<>>
  /\ core.calls = 0 => /\ core.state = "Idle" /\ switcher.receiving = "off"
                       /\ \A t \in Threads : threads[t].pc = "none"
  /\ faults.wifi = 0 => \A t \in Threads : threads[t].pc # "late"
  /\ Undisturbed => \A t \in Threads : Busy(t) =>
       /\ IF threads[t].listener = "start" THEN switcher.receiving = "off"
          ELSE threads[t].listener \in {"request", "peer"} /\ Switching
       /\ \A u \in Threads : Busy(u) => t = u

\* What a thread knows of the resources of its adapter.
Released(a) ==
  adapter[a].socket = "Closed" /\ adapter[a].p2p = "Disconnected" /\ adapter[a].device = "Off"

ThreadSound(t) ==
  LET r == adapter[threads[t].adapter] IN
    /\ threads[t].pc = "connect" => Released(threads[t].adapter)
    /\ threads[t].pc = "turnOn" => r.p2p = "Disconnected"
    /\ threads[t].pc = "open" => r.p2p = "Connected"
    /\ threads[t].pc \in {"turnOn", "p2pConnect", "wifi", "open", "p2pDisconnect"} => r.socket = "Closed"

ResourcesSound ==
  Undisturbed =>
    /\ \A t \in Threads : ThreadSound(t)
    /\ \A a \in Adapters :
         (adapter[a].state = "Disconnected" /\ \A t \in Threads : Busy(t) => threads[t].adapter # a)
         => Released(a)

\* An adapter is Sleeping only while its sender is on its way to its wait, in it or out of it.
SleeperWaits ==
  \A a \in Adapters :
    adapter[a].state = "Sleeping" => sender[a].pc \in {"enterWait", "suspended", "wakeup"}

\* The number of segments in the hands of the senders.
Holds(a) == sender[a].pc \in {"have", "send"}
Held == (IF Holds(Bt) THEN 1 ELSE 0) + (IF Holds(Wfd) THEN 1 ELSE 0)

Conserved ==
  segments.written = segments.queue + segments.failed + segments.sent + Held

ThreadInv == Reported /\ OneThread /\ ResourcesSound

SwitchInv == TypeOK /\ Conserved /\ SleeperWaits /\ ThreadInv
-----------------------------------------------------------------------------
(* Types *)

CoreRecords ==
  [state : {"Idle", "Starting", "Ready", "Stopping"}, starting : BOOLEAN, stopping : BOOLEAN,
   count : Int, todo : Seq(Adapters), polling : BOOLEAN, calls : 0..MaxEvents, reports : Nat]
SwitcherRecords ==
  [state : {"Ready", "Switching"}, info : BOOLEAN,
   receiving : {"off", "on", "blocked", "finishing"}]
AdapterRecords ==
  [state : States, device : {"Off", "TurningOn", "On"},
   p2p : {"Disconnected", "Connecting", "Connected"}, socket : {"Closed", "Opened"},
   onPurpose : BOOLEAN, onPurposePeer : BOOLEAN]
ThreadRecords == [pc : ThreadPcs, adapter : Adapters, listener : Listeners, old : States]
SenderRecords ==
  [pc : SenderPcs, isOn : BOOLEAN, isSuspended : BOOLEAN, isWaiting : BOOLEAN, monitor : BOOLEAN]
ReceiverRecords == [pc : {"new", "loop", "read", "ended"}, isOn : BOOLEAN]
SegmentRecords ==
  [written : 0..MaxEvents, queue : 0..MaxEvents, failed : 0..MaxEvents, sent : 0..MaxEvents]
ServerRecords ==
  [inbox : Seq({"connect", "sleep", "wakeup", "disconnect", "priv", "ack"} \X Adapters),
   accepted : SUBSET Adapters, asked : SUBSET Adapters, commands : 0..MaxEvents]
FaultRecords == [socket : 0..MaxEvents, wifi : 0..MaxEvents]

\* TypeOK, with a name for the values of every variable.
LEMMA Types ==
  TypeOK <=> /\ crashed \in BOOLEAN /\ faults \in FaultRecords /\ spurious \in 0..MaxEvents
             /\ core \in CoreRecords /\ switcher \in SwitcherRecords
             /\ adapter \in [Adapters -> AdapterRecords] /\ threads \in [Threads -> ThreadRecords]
             /\ sender \in [Adapters -> SenderRecords] /\ receiver \in [Adapters -> ReceiverRecords]
             /\ segments \in SegmentRecords /\ server \in ServerRecords
  BY Zenon DEF TypeOK, CoreRecords, SwitcherRecords, AdapterRecords, ThreadRecords, SenderRecords,
               ReceiverRecords, SegmentRecords, ServerRecords, FaultRecords

\* The same of the next state.
LEMMA TypesNext ==
  TypeOK' <=> /\ crashed' \in BOOLEAN /\ faults' \in FaultRecords /\ spurious' \in 0..MaxEvents
              /\ core' \in CoreRecords /\ switcher' \in SwitcherRecords
              /\ adapter' \in [Adapters -> AdapterRecords] /\ threads' \in [Threads -> ThreadRecords]
              /\ sender' \in [Adapters -> SenderRecords]
              /\ receiver' \in [Adapters -> ReceiverRecords]
              /\ segments' \in SegmentRecords /\ server' \in ServerRecords
  BY Zenon DEF TypeOK, CoreRecords, SwitcherRecords, AdapterRecords, ThreadRecords, SenderRecords,
               ReceiverRecords, SegmentRecords, ServerRecords, FaultRecords

\* One value of a function is replaced.
LEMMA Updated ==
  ASSUME NEW D, NEW R, NEW f \in [D -> R], NEW x \in D, NEW y \in R
  PROVE  /\ [f EXCEPT ![x] = y] \in [D -> R]
         /\ [f EXCEPT ![x] = y][x] = y
         /\ \A z \in D \ {x} : [f EXCEPT ![x] = y][z] = f[z]
  OBVIOUS

\* An event within the bound may be counted.
LEMMA Bounded ==
  ASSUME TypeOK, MayHappen
  PROVE  /\ core.calls + 1 \in 0..MaxEvents /\ segments.written + 1 \in 0..MaxEvents
         /\ server.commands + 1 \in 0..MaxEvents /\ faults.socket + 1 \in 0..MaxEvents
         /\ faults.wifi + 1 \in 0..MaxEvents /\ spurious + 1 \in 0..MaxEvents
<1>1. /\ core.calls \in 0..MaxEvents /\ segments.written \in 0..MaxEvents
      /\ server.commands \in 0..MaxEvents /\ faults.socket \in 0..MaxEvents
      /\ faults.wifi \in 0..MaxEvents /\ spurious \in 0..MaxEvents
  BY Types DEF CoreRecords, SegmentRecords, ServerRecords, FaultRecords
<1>. QED  BY <1>1, ClientSwitchAssumption DEF MayHappen, Events

\* A report of a transaction leaves the calls and what is still to be stopped as they are.
SameCalls(c, d) == d \in CoreRecords /\ d.calls = c.calls /\ d.todo = c.todo

LEMMA CoreUpdated ==
  ASSUME NEW c \in CoreRecords, NEW x \in {"Idle", "Starting", "Ready", "Stopping"}, NEW n \in Nat
  PROVE  /\ SameCalls(c, [c EXCEPT !.state = x, !.reports = n])
         /\ SameCalls(c, [c EXCEPT !.starting = FALSE])
         /\ SameCalls(c, [c EXCEPT !.stopping = FALSE])
  BY DEF CoreRecords, SameCalls

LEMMA DoneTyped ==
  ASSUME NEW c \in CoreRecords, NEW b \in BOOLEAN
  PROVE  /\ SameCalls(c, DoneStart(c, b)) /\ SameCalls(c, DoneStartTx(c, b))
         /\ SameCalls(c, DoneStop(c, b)) /\ SameCalls(c, DoneStopTx(c, b))
<1>. DEFINE n == c.reports + 1
            x == IF b THEN "Ready" ELSE "Idle"
            y == IF b THEN "Idle" ELSE "Ready"
<1>1. /\ n \in Nat /\ x \in {"Idle", "Starting", "Ready", "Stopping"}
      /\ y \in {"Idle", "Starting", "Ready", "Stopping"}
  BY DEF CoreRecords
<1>2. /\ DoneStart(c, b) = [c EXCEPT !.state = x, !.reports = n]
      /\ DoneStop(c, b) = [c EXCEPT !.state = y, !.reports = n]
  BY DEF DoneStart, DoneStop
<1>. HIDE DEF n, x, y
<1>3. SameCalls(c, DoneStart(c, b)) /\ SameCalls(c, DoneStop(c, b))
  <2>1. SameCalls(c, [c EXCEPT !.state = x, !.reports = n])
    BY <1>1, CoreUpdated
  <2>2. SameCalls(c, [c EXCEPT !.state = y, !.reports = n])
    BY <1>1, CoreUpdated
  <2>. QED  BY <1>2, <2>1, <2>2, Zenon
<1>4. /\ SameCalls(DoneStart(c, b), DoneStartTx(c, b))
      /\ SameCalls(DoneStop(c, b), DoneStopTx(c, b))
  BY <1>1, <1>3, CoreUpdated, Zenon DEF DoneStartTx, DoneStopTx, SameCalls
<1>. QED  BY <1>3, <1>4, Zenon DEF SameCalls

\* The listeners call them.
LEMMA ReportTyped ==
  ASSUME core \in CoreRecords, switcher \in SwitcherRecords, NEW l \in Listeners, NEW b \in BOOLEAN
  PROVE  /\ SameCalls(core, CoreReported(l, b))
         /\ SwitcherReported(l, b) \in SwitcherRecords
         /\ l # "start" \/ ~b => (switcher.receiving = "off" => SwitcherReported(l, b).receiving = "off")
         /\ l \notin {"request", "peer"} => SwitcherReported(l, b).state = switcher.state
         /\ l = "none" => CoreReported(l, b) = core /\ SwitcherReported(l, b) = switcher
<1>. DEFINE c == [core EXCEPT !.count = @ - 1]
<1>1. SameCalls(core, c)
  BY DEF CoreRecords, SameCalls
<1>. HIDE DEF c
<1>2. SameCalls(c, DoneStopTx(c, TRUE)) /\ SameCalls(core, DoneStartTx(core, b))
      /\ SameCalls(core, DoneStopTx(core, FALSE)) /\ SameCalls(core, core)
  BY <1>1, DoneTyped, Zenon DEF SameCalls
<1>3. \/ CoreReported(l, b) = core
      \/ CoreReported(l, b) = DoneStartTx(core, b)
      \/ CoreReported(l, b) = DoneStopTx(core, FALSE)
      \/ CoreReported(l, b) = c
      \/ CoreReported(l, b) = DoneStopTx(c, TRUE)
  BY DEF CoreReported, c
<1>4. SameCalls(core, CoreReported(l, b))
  BY <1>1, <1>2, <1>3, Zenon DEF SameCalls
<1>5. Finished(switcher.receiving) \in {"off", "on", "blocked", "finishing"}
      /\ Finished("off") = "off"
  BY DEF Finished, SwitcherRecords
<1>6. /\ SwitcherReported(l, b) \in SwitcherRecords
      /\ l # "start" \/ ~b => (switcher.receiving = "off" => SwitcherReported(l, b).receiving = "off")
      /\ l \notin {"request", "peer"} => SwitcherReported(l, b).state = switcher.state
  BY <1>5 DEF SwitcherReported, SwitcherRecords
<1>7. l = "none" => CoreReported(l, b) = core /\ SwitcherReported(l, b) = switcher
  BY DEF CoreReported, SwitcherReported
<1>. QED  BY <1>4, <1>6, <1>7

\* A thread is created.
LEMMA SpawnTyped ==
  ASSUME threads \in [Threads -> ThreadRecords], Free # {},
         NEW ths \in [Threads -> ThreadRecords],
         NEW p \in ThreadPcs, NEW a \in Adapters, NEW l \in Listeners
  PROVE  /\ Spawn(ths, p, a, l) \in [Threads -> ThreadRecords]
         /\ \E t \in Free : /\ Spawn(ths, p, a, l)[t].pc = p
                            /\ Spawn(ths, p, a, l)[t].adapter = a
                            /\ Spawn(ths, p, a, l)[t].listener = l
                            /\ \A u \in Threads \ {t} : Spawn(ths, p, a, l)[u] = ths[u]
<1>. DEFINE t == CHOOSE t \in Free : TRUE
            r == [NoThread EXCEPT !.pc = p, !.adapter = a, !.listener = l]
<1>1. t \in Free /\ t \in Threads
  BY DEF Free
<1>2. r \in ThreadRecords /\ r.pc = p /\ r.adapter = a /\ r.listener = l
  BY DEF NoThread, ThreadRecords, States
<1>. HIDE DEF t, r
<1>3. /\ [ths EXCEPT ![t] = r] \in [Threads -> ThreadRecords]
      /\ [ths EXCEPT ![t] = r][t] = r
      /\ \A u \in Threads \ {t} : [ths EXCEPT ![t] = r][u] = ths[u]
  BY <1>1, <1>2, Updated
<1>4. Spawn(ths, p, a, l) = [ths EXCEPT ![t] = r]
  BY DEF Spawn, t, r
<1>. QED  BY <1>1, <1>2, <1>3, <1>4

\* mDequeueCond is notified: waiting senders move on.
LEMMA NotifiedTyped ==
  ASSUME NEW s \in [Adapters -> SenderRecords]
  PROVE  /\ DequeueNotified(s) \in [Adapters -> SenderRecords]
         /\ \A a \in Adapters :
              /\ s[a].pc # "waiting" => DequeueNotified(s)[a] = s[a]
              /\ s[a].pc = "waiting" => DequeueNotified(s)[a].pc = "woken"
<1>1. \A a \in Adapters : [s[a] EXCEPT !.pc = "woken"] \in SenderRecords
                          /\ [s[a] EXCEPT !.pc = "woken"].pc = "woken"
  BY DEF SenderRecords, SenderPcs
<1>. QED  BY <1>1 DEF DequeueNotified

\* The control receiver while it handles a message.
LEMMA HandlingTyped ==
  ASSUME switcher \in SwitcherRecords
  PROVE  Handling \in SwitcherRecords /\ Handling.state = switcher.state
  BY DEF Handling, SwitcherRecords

-----------------------------------------------------------------------------
(* Steps that no thread takes *)

\* What the steps of other threads may do to the adapters' resources: break a connection.
Kept(a) ==
  /\ adapter'[a].p2p = adapter[a].p2p /\ adapter'[a].device = adapter[a].device
  /\ adapter'[a].socket = adapter[a].socket \/ adapter'[a].socket = "Closed"
  /\ adapter'[a].state = "Disconnected" => adapter[a].state = "Disconnected"

\* What they may do to Core and NetworkSwitcher.
Passive ==
  /\ core'.calls \in Nat /\ core'.calls >= core.calls
  /\ core'.calls = 0 => core'.state = "Idle"
  /\ core'.calls < 2 => core'.todo = <<>>
  /\ switcher.receiving = "off" => switcher'.receiving = "off"
  /\ switcher.state = "Switching" => switcher'.state = "Switching"
  /\ faults'.wifi \in Nat /\ faults'.wifi >= faults.wifi

\* A thread that has reported and ends.
Ending(t) == ~Busy(t) /\ ~Busy(t)' /\ threads[t].pc # "none" /\ threads'[t].pc # "late"

\* A thread whose wait for the acknowledgement of the server is over.
Awoken(t) ==
  /\ threads[t].pc = "waitPeer" /\ threads'[t].pc = "finish"
  /\ threads'[t].adapter = threads[t].adapter /\ threads'[t].listener = threads[t].listener

\* A released adapter stays so, and a thread that knows something of it still knows it.
LEMMA KeptReleased ==
  ASSUME NEW a \in Adapters, Kept(a)
  PROVE  Released(a) => Released(a)'
  BY DEF Kept, Released

LEMMA KeptSound ==
  ASSUME NEW t \in Threads, threads[t].adapter \in Adapters, threads'[t] = threads[t],
         Kept(threads[t].adapter), ThreadSound(t)
  PROVE  ThreadSound(t)'
<1>1. Released(threads[t].adapter) => Released(threads[t].adapter)'
  BY KeptReleased
<1>. QED  BY <1>1 DEF Kept, ThreadSound

\* Such steps leave the threads and what they know alone.
LEMMA QuietStep ==
  ASSUME TypeOK, ThreadInv, Passive, Reported',
         \A t \in Threads : threads'[t] = threads[t] \/ Ending(t) \/ Awoken(t),
         \A a \in Adapters : Kept(a)
  PROVE  ThreadInv'
<1>1. /\ core.calls \in Nat /\ faults.wifi \in Nat
      /\ \A t \in Threads : threads[t].adapter \in Adapters
  BY Types, ClientSwitchAssumption DEF CoreRecords, FaultRecords, ThreadRecords
<1>2. /\ core'.calls < 2 => core.calls < 2
      /\ core'.calls = 0 => core.calls = 0
      /\ faults'.wifi = 0 => faults.wifi = 0
      /\ Undisturbed' => Undisturbed
  BY <1>1 DEF Passive, Undisturbed
<1>3. \A t \in Threads : Busy(t)' => /\ Busy(t) /\ threads'[t].adapter = threads[t].adapter
                                    /\ threads'[t].listener = threads[t].listener
  BY DEF Busy, Ending, Awoken
<1>4. \A t \in Threads : Busy(t) => Busy(t)' /\ threads'[t].adapter = threads[t].adapter
  BY DEF Busy, Ending, Awoken
<1>5. OneThread'
  <2>1. core'.calls < 2 => core'.todo = <<>>
    BY DEF Passive
  <2>2. core'.calls = 0 => /\ core'.state = "Idle" /\ switcher'.receiving = "off"
                           /\ \A t \in Threads : threads'[t].pc = "none"
    BY <1>2 DEF Passive, ThreadInv, OneThread, Ending, Awoken
  <2>3. faults'.wifi = 0 => \A t \in Threads : threads'[t].pc # "late"
    BY <1>2 DEF ThreadInv, OneThread, Ending, Awoken
  <2>4. ASSUME Undisturbed', NEW t \in Threads, Busy(t)'
        PROVE  /\ IF threads'[t].listener = "start" THEN switcher'.receiving = "off"
                  ELSE threads'[t].listener \in {"request", "peer"} /\ Switching'
               /\ \A u \in Threads : Busy(u)' => t = u
    BY <1>2, <1>3, <2>4 DEF Passive, ThreadInv, OneThread, Switching
  <2>. QED  BY <2>1, <2>2, <2>3, <2>4 DEF OneThread
<1>6. ResourcesSound'
  <2>. SUFFICES ASSUME Undisturbed'
                PROVE  /\ \A t \in Threads : ThreadSound(t)'
                       /\ \A a \in Adapters :
                            (/\ adapter'[a].state = "Disconnected"
                             /\ \A t \in Threads : Busy(t)' => threads'[t].adapter # a)
                            => Released(a)'
    BY DEF ResourcesSound
  <2>1. /\ \A t \in Threads : ThreadSound(t)
        /\ \A a \in Adapters :
             (/\ adapter[a].state = "Disconnected"
              /\ \A t \in Threads : Busy(t) => threads[t].adapter # a)
             => Released(a)
    BY <1>2 DEF ThreadInv, ResourcesSound
  <2>2. ASSUME NEW t \in Threads
        PROVE  ThreadSound(t)'
    <3>1. CASE threads'[t] = threads[t]
      BY <1>1, <2>1, <3>1, KeptSound
    <3>2. CASE Ending(t)
      BY <3>2 DEF Ending, Busy, ThreadSound
    <3>3. CASE Awoken(t)
      BY <3>3 DEF Awoken, ThreadSound
    <3>. QED  BY <3>1, <3>2, <3>3
  <2>3. ASSUME NEW a \in Adapters, adapter'[a].state = "Disconnected",
               \A t \in Threads : Busy(t)' => threads'[t].adapter # a
        PROVE  Released(a)'
    <3>1. adapter[a].state = "Disconnected" /\ \A t \in Threads : Busy(t) => threads[t].adapter # a
      BY <1>4, <2>3 DEF Kept
    <3>. QED  BY <2>1, <3>1, KeptReleased
  <2>. QED  BY <2>2, <2>3
<1>. QED  BY <1>5, <1>6 DEF ThreadInv

\* The same, when the threads stay as they are.
LEMMA IdleStep ==
  ASSUME TypeOK, ThreadInv, Passive, threads' = threads, \A a \in Adapters : Kept(a)
  PROVE  ThreadInv'
<1>1. Reported'
  BY DEF ThreadInv, Reported
<1>. QED  BY <1>1, QuietStep

\* Nothing is more passive than a step that leaves Core, switcher and faults alone.
LEMMA PassiveStep ==
  ASSUME TypeOK, ThreadInv, core' = core, switcher' = switcher, faults'.wifi = faults.wifi
  PROVE  Passive
<1>1. core.calls \in Nat /\ faults.wifi \in Nat
  BY Types, ClientSwitchAssumption DEF CoreRecords, FaultRecords
<1>. QED  BY <1>1 DEF Passive, ThreadInv, OneThread

-----------------------------------------------------------------------------
(* The senders and the receivers *)

\* Fields of one adapter's record are replaced.
LEMMA StateSet ==
  ASSUME NEW f \in [Adapters -> AdapterRecords], NEW a \in Adapters, NEW x \in States,
         NEW g, g = [f EXCEPT ![a].state = x]
  PROVE  /\ g \in [Adapters -> AdapterRecords] /\ g[a].state = x
         /\ \A b \in Adapters : /\ g[b].p2p = f[b].p2p /\ g[b].device = f[b].device
                                /\ g[b].socket = f[b].socket /\ (b # a => g[b] = f[b])
  BY DEF AdapterRecords

LEMMA SocketSet ==
  ASSUME NEW f \in [Adapters -> AdapterRecords], NEW a \in Adapters, NEW x \in {"Closed", "Opened"},
         NEW g, g = [f EXCEPT ![a].socket = x]
  PROVE  /\ g \in [Adapters -> AdapterRecords] /\ g[a].socket = x
         /\ \A b \in Adapters : /\ g[b].p2p = f[b].p2p /\ g[b].device = f[b].device
                                /\ g[b].state = f[b].state /\ (b # a => g[b] = f[b])
  BY DEF AdapterRecords

\* A sender moves on.
LEMMA PcSet ==
  ASSUME NEW f \in [Adapters -> SenderRecords], NEW a \in Adapters, NEW x \in SenderPcs
  PROVE  /\ [f EXCEPT ![a].pc = x] \in [Adapters -> SenderRecords]
         /\ [f EXCEPT ![a].pc = x][a].pc = x
         /\ \A b \in Adapters \ {a} : [f EXCEPT ![a].pc = x][b] = f[b]
  BY DEF SenderRecords

\* A step of the sender of a, and maybe a notification of the others.
Others(a) ==
  \A b \in Adapters \ {a} :
    \/ sender'[b].pc = sender[b].pc
    \/ sender[b].pc = "waiting" /\ sender'[b].pc = "woken"
    \/ sender[b].pc = "suspended" /\ sender'[b].pc = "wakeup"

LEMMA HeldChange ==
  ASSUME NEW a \in Adapters, Others(a)
  PROVE  /\ Held \in 0..2
         /\ Holds(a) => Held >= 1
         /\ Holds(a)' <=> Holds(a) => Held' = Held
         /\ Holds(a)' /\ ~Holds(a) => Held' = Held + 1
         /\ ~Holds(a)' /\ Holds(a) => Held' = Held - 1
<1>1. \A b \in Adapters \ {a} : Holds(b)' <=> Holds(b)
  BY DEF Others, Holds
<1>. QED  BY <1>1, ClientSwitchAssumption DEF Held, Adapters

\* A sender's step that keeps its adapter out of Sleeping, or itself in its wait.
LEMMA SleeperStays ==
  ASSUME SleeperWaits, NEW a \in Adapters, Others(a),
         \A b \in Adapters \ {a} : adapter'[b].state = "Sleeping" => adapter[b].state = "Sleeping",
         adapter'[a].state = "Sleeping" => sender'[a].pc \in {"enterWait", "suspended", "wakeup"}
  PROVE  SleeperWaits'
  BY DEF SleeperWaits, Others

\* A step of the sender or the receiver of a, of whose effects the segments are accounted for.
LEMMA WorkerStep ==
  ASSUME SwitchInv, NEW a \in Adapters, Others(a),
         UNCHANGED <<core, switcher, threads>>, faults'.wifi = faults.wifi,
         \A b \in Adapters : Kept(b) /\ (b # a => adapter'[b].state = adapter[b].state),
         adapter'[a].state = "Sleeping" => sender'[a].pc \in {"enterWait", "suspended", "wakeup"},
         TypeOK', Conserved'
  PROVE  SwitchInv'
<1>1. TypeOK /\ ThreadInv /\ SleeperWaits
  BY DEF SwitchInv
<1>2. ThreadInv'
  BY <1>1, PassiveStep, IdleStep
<1>3. SleeperWaits'
  BY <1>1, SleeperStays
<1>. QED  BY <1>2, <1>3 DEF SwitchInv

\* senderThreadLoop() before it takes a segment, and its wait while it is suspended.
LEMMA SenderMoves ==
  ASSUME SwitchInv, NEW a \in Adapters,
         SenderRun(a) \/ SenderLoop(a) \/ WaitSuspended(a) \/ SpuriousWakeup(a)
  PROVE  SwitchInv'
<1>1. /\ TypeOK /\ SleeperWaits /\ Conserved /\ sender \in [Adapters -> SenderRecords]
      /\ adapter \in [Adapters -> AdapterRecords] /\ sender[a] \in SenderRecords
  BY Types DEF SwitchInv
<1>2. \E q \in SenderRecords :
        /\ sender' = [sender EXCEPT ![a] = q]
        /\ q.pc \notin {"have", "send"} /\ sender[a].pc \notin {"have", "send"}
        /\ sender[a].pc \in {"enterWait", "suspended", "wakeup"} => q.pc \in {"suspended", "wakeup"}
  <2>1. CASE SenderRun(a)
    <3>. DEFINE q == [sender[a] EXCEPT !.pc = "loop", !.isOn = TRUE, !.isWaiting = FALSE,
                                       !.isSuspended = FALSE]
    <3>1. q \in SenderRecords /\ q.pc = "loop" /\ sender[a].pc = "starting"
          /\ sender' = [sender EXCEPT ![a] = q]
      BY <1>1, <2>1 DEF SenderRun, SenderAt, SenderRecords, SenderPcs
    <3>. QED  BY <3>1
  <2>2. CASE SenderLoop(a) \/ SpuriousWakeup(a)
    <3>1. PICK p \in {"ended", "suspend", "pop", "wakeup"} :
            /\ sender' = [sender EXCEPT ![a].pc = p]
            /\ sender[a].pc = "loop" \/ (sender[a].pc = "suspended" /\ p = "wakeup")
      BY <2>2 DEF SenderLoop, SpuriousWakeup, SenderGoto, SenderAt
    <3>. DEFINE q == [sender[a] EXCEPT !.pc = p]
    <3>2. q \in SenderRecords /\ q.pc = p /\ sender' = [sender EXCEPT ![a] = q]
      BY <1>1, <3>1 DEF SenderRecords, SenderPcs
    <3>. QED  BY <3>1, <3>2
  <2>3. CASE WaitSuspended(a)
    <3>. DEFINE q == [sender[a] EXCEPT !.pc = "suspended", !.monitor = sender[a].isSuspended]
    <3>1. q \in SenderRecords /\ q.pc = "suspended" /\ sender[a].pc = "enterWait"
          /\ sender' = [sender EXCEPT ![a] = q]
      BY <1>1, <2>3 DEF WaitSuspended, SenderAt, SenderRecords, SenderPcs
    <3>. QED  BY <3>1
  <2>. QED  BY <2>1, <2>2, <2>3
<1>3. PICK q \in SenderRecords :
        /\ sender' = [sender EXCEPT ![a] = q]
        /\ q.pc \notin {"have", "send"} /\ sender[a].pc \notin {"have", "send"}
        /\ sender[a].pc \in {"enterWait", "suspended", "wakeup"} => q.pc \in {"suspended", "wakeup"}
  BY <1>2
<1>4. /\ sender' \in [Adapters -> SenderRecords] /\ sender'[a] = q
      /\ \A b \in Adapters \ {a} : sender'[b] = sender[b]
  BY <1>1, <1>3, Updated
<1>5. Others(a) /\ ~Holds(a) /\ ~Holds(a)'
  BY <1>3, <1>4 DEF Others, Holds
<1>6. UNCHANGED <<core, switcher, adapter, threads, receiver, segments, server, faults>>
  BY Zenon DEF SenderRun, SenderLoop, WaitSuspended, SpuriousWakeup
<1>7. crashed' \in BOOLEAN /\ spurious' \in 0..MaxEvents
  <2>1. crashed \in BOOLEAN /\ spurious \in 0..MaxEvents
    BY <1>1, Types
  <2>2. crashed' \in BOOLEAN
    BY <2>1, Zenon DEF SenderRun, SenderLoop, WaitSuspended, SpuriousWakeup
  <2>3. spurious' = spurious \/ (MayHappen /\ spurious' = spurious + 1)
    BY Zenon DEF SenderRun, SenderLoop, WaitSuspended, SpuriousWakeup
  <2>. QED  BY <1>1, <2>1, <2>2, <2>3, Bounded
<1>8. TypeOK'
  BY <1>1, <1>4, <1>6, <1>7, Types, TypesNext, Zenon
<1>9. Conserved'
  BY <1>1, <1>5, <1>6, HeldChange DEF Conserved
<1>10. adapter'[a].state = "Sleeping" => sender'[a].pc \in {"enterWait", "suspended", "wakeup"}
  BY <1>1, <1>3, <1>4, <1>6 DEF SleeperWaits
<1>11. \A b \in Adapters : Kept(b) /\ adapter'[b].state = adapter[b].state
  BY <1>6 DEF Kept
<1>. QED  BY <1>5, <1>6, <1>8, <1>9, <1>10, <1>11, WorkerStep

\* onSuspendSender() and onWakeupSender() set the state of the adapter.
LEMMA SenderSleeps ==
  ASSUME SwitchInv, NEW a \in Adapters, OnSuspendSender(a) \/ OnWakeupSender(a)
  PROVE  SwitchInv'
<1>1. /\ TypeOK /\ SleeperWaits /\ Conserved /\ sender \in [Adapters -> SenderRecords]
      /\ adapter \in [Adapters -> AdapterRecords]
  BY Types DEF SwitchInv
<1>2. PICK p \in {"enterWait", "suspend", "pop"} : \E x \in {"Sleeping", "Active"} :
        /\ sender' = [sender EXCEPT ![a].pc = p] /\ adapter' = [adapter EXCEPT ![a].state = x]
        /\ p = "enterWait" <=> x = "Sleeping"
        /\ sender[a].pc \in {"suspend", "wakeup"}
  BY DEF OnSuspendSender, OnWakeupSender, SenderGoto, SenderAt
<1>3. PICK x \in {"Sleeping", "Active"} :
        /\ sender' = [sender EXCEPT ![a].pc = p] /\ adapter' = [adapter EXCEPT ![a].state = x]
        /\ p = "enterWait" <=> x = "Sleeping"
        /\ sender[a].pc \in {"suspend", "wakeup"}
  BY <1>2
<1>4. p \in SenderPcs /\ x \in States
  BY DEF SenderPcs, States
<1>5. /\ sender' \in [Adapters -> SenderRecords] /\ sender'[a].pc = p
      /\ \A b \in Adapters \ {a} : sender'[b] = sender[b]
  BY <1>1, <1>3, <1>4, PcSet, Zenon
<1>6. /\ adapter' \in [Adapters -> AdapterRecords] /\ adapter'[a].state = x
      /\ \A b \in Adapters : /\ adapter'[b].p2p = adapter[b].p2p
                             /\ adapter'[b].device = adapter[b].device
                             /\ adapter'[b].socket = adapter[b].socket
                             /\ b # a => adapter'[b] = adapter[b]
  BY <1>1, <1>3, <1>4, StateSet
<1>7. Others(a) /\ ~Holds(a) /\ ~Holds(a)'
  BY <1>3, <1>5 DEF Others, Holds
<1>8. UNCHANGED <<crashed, core, switcher, threads, receiver, segments, server, faults, spurious>>
  BY Zenon DEF OnSuspendSender, OnWakeupSender
<1>9. TypeOK'
  BY <1>1, <1>5, <1>6, <1>8, Types, TypesNext, Zenon
<1>10. Conserved'
  BY <1>1, <1>7, <1>8, HeldChange DEF Conserved
<1>11. \A b \in Adapters : Kept(b) /\ (b # a => adapter'[b].state = adapter[b].state)
  BY <1>3, <1>6 DEF Kept
<1>12. adapter'[a].state = "Sleeping" => sender'[a].pc \in {"enterWait", "suspended", "wakeup"}
  BY <1>3, <1>5, <1>6
<1>. QED  BY <1>7, <1>8, <1>9, <1>10, <1>11, <1>12, WorkerStep

\* popFailedSegment() or dequeue(): the segment comes into the sender's hands.
LEMMA SenderTakes ==
  ASSUME SwitchInv, NEW a \in Adapters, TakeSegment(a)
  PROVE  SwitchInv'
<1>1. /\ TypeOK /\ SleeperWaits /\ Conserved /\ sender \in [Adapters -> SenderRecords]
      /\ segments \in SegmentRecords
  BY Types DEF SwitchInv
<1>2. PICK p \in {"have", "loop", "waiting"} :
        /\ sender' = [sender EXCEPT ![a].pc = p] /\ sender[a].pc \in {"pop", "woken"}
        /\ \/ p = "have" /\ segments.failed > 0
              /\ segments' = [segments EXCEPT !.failed = @ - 1]
           \/ p = "have" /\ segments.queue > 0
              /\ segments' = [segments EXCEPT !.queue = @ - 1]
           \/ p # "have" /\ segments' = segments
  BY DEF TakeSegment, SenderGoto, SenderAt
<1>3. p \in SenderPcs
  BY DEF SenderPcs
<1>4. /\ sender' \in [Adapters -> SenderRecords] /\ sender'[a].pc = p
      /\ \A b \in Adapters \ {a} : sender'[b] = sender[b]
  BY <1>1, <1>2, <1>3, PcSet, Zenon
<1>5. Others(a) /\ ~Holds(a) /\ (Holds(a)' <=> p = "have")
  BY <1>2, <1>4 DEF Others, Holds
<1>6. UNCHANGED <<crashed, core, switcher, adapter, threads, receiver, server, faults, spurious>>
  BY Zenon DEF TakeSegment
<1>7. segments' \in SegmentRecords
  BY <1>1, <1>2, ClientSwitchAssumption DEF SegmentRecords
<1>8. TypeOK'
  BY <1>1, <1>4, <1>6, <1>7, Types, TypesNext, Zenon
<1>9. Held' = Held + (IF p = "have" THEN 1 ELSE 0) /\ Held \in 0..2
  BY <1>5, HeldChange
<1>10. segments'.written = segments'.queue + segments'.failed + segments'.sent + Held'
  BY <1>1, <1>2, <1>9, ClientSwitchAssumption DEF Conserved, SegmentRecords
<1>11. \A b \in Adapters : Kept(b) /\ adapter'[b].state = adapter[b].state
  BY <1>6 DEF Kept
<1>12. adapter'[a].state # "Sleeping"
  BY <1>1, <1>2, <1>6 DEF SleeperWaits
<1>. QED  BY <1>5, <1>6, <1>8, <1>10, <1>11, <1>12, WorkerStep DEF Conserved

\* addFailedSegmentToList(): the sender's segment goes to the failed list, and the others hear of it.
LEMMA FailedAdded ==
  ASSUME TypeOK, Conserved, NEW a \in Adapters, Holds(a), NEW p \in {"loop", "ended"},
         AddFailedSegment(a, p)
  PROVE  /\ sender' \in [Adapters -> SenderRecords] /\ sender'[a].pc = p /\ Others(a)
         /\ segments' \in SegmentRecords /\ Conserved'
<1>1. sender \in [Adapters -> SenderRecords] /\ segments \in SegmentRecords
  BY Types
<1>2. DequeueNotified(sender) \in [Adapters -> SenderRecords] /\ p \in SenderPcs
  BY <1>1, NotifiedTyped DEF SenderPcs
<1>3. /\ sender' \in [Adapters -> SenderRecords] /\ sender'[a].pc = p
      /\ \A b \in Adapters \ {a} : sender'[b] = DequeueNotified(sender)[b]
  BY <1>2, PcSet DEF AddFailedSegment
<1>4. Others(a) /\ ~Holds(a)'
  BY <1>1, <1>3, NotifiedTyped DEF Others, Holds
<1>5. Held' = Held - 1 /\ Held \in 0..2 /\ Held >= 1
  BY <1>4, HeldChange
<1>6. segments' = [segments EXCEPT !.failed = @ + 1]
  BY DEF AddFailedSegment
<1>7. segments' \in SegmentRecords
        /\ segments'.written = segments'.queue + segments'.failed + segments'.sent + Held'
  BY <1>1, <1>5, <1>6, ClientSwitchAssumption DEF Conserved, SegmentRecords
<1>. QED  BY <1>3, <1>4, <1>7 DEF Conserved

\* A sender with a segment looks at its adapter and at its flag.
LEMMA SenderHas ==
  ASSUME SwitchInv, NEW a \in Adapters, HaveSegment(a)
  PROVE  SwitchInv'
<1>1. /\ TypeOK /\ SleeperWaits /\ Conserved /\ sender \in [Adapters -> SenderRecords]
      /\ segments \in SegmentRecords /\ sender[a].pc = "have" /\ Holds(a)
  BY Types DEF SwitchInv, HaveSegment, SenderAt, Holds
<1>2. UNCHANGED <<crashed, core, switcher, adapter, threads, receiver, server, faults, spurious>>
  BY Zenon DEF HaveSegment
<1>3. AddFailedSegment(a, "loop") \/ (sender' = [sender EXCEPT ![a].pc = "send"] /\ segments' = segments)
  BY DEF HaveSegment, SenderGoto
<1>4. /\ sender' \in [Adapters -> SenderRecords] /\ Others(a)
      /\ segments' \in SegmentRecords /\ Conserved'
  <2>1. CASE AddFailedSegment(a, "loop")
    BY <1>1, <2>1, FailedAdded
  <2>2. CASE sender' = [sender EXCEPT ![a].pc = "send"] /\ segments' = segments
    <3>1. /\ sender' \in [Adapters -> SenderRecords] /\ sender'[a].pc = "send"
          /\ \A b \in Adapters \ {a} : sender'[b] = sender[b]
      <4>1. {"loop", "send"} \subseteq SenderPcs
        BY DEF SenderPcs
      <4>. QED  BY <1>1, <2>2, <4>1, PcSet
    <3>2. Others(a) /\ Holds(a)'
      BY <3>1 DEF Others, Holds
    <3>. QED  BY <1>1, <2>2, <3>1, <3>2, HeldChange DEF Conserved
  <2>. QED  BY <1>3, <2>1, <2>2
<1>5. TypeOK'
  BY <1>1, <1>2, <1>4, Types, TypesNext, Zenon
<1>6. \A b \in Adapters : Kept(b) /\ adapter'[b].state = adapter[b].state
  BY <1>2 DEF Kept
<1>7. adapter'[a].state # "Sleeping"
  BY <1>1, <1>2 DEF SleeperWaits
<1>. QED  BY <1>2, <1>4, <1>5, <1>6, <1>7, WorkerStep

\* A failure of a socket closes it, and is counted.
LEMMA SocketBreaks ==
  ASSUME TypeOK, NEW a \in Adapters,
         \/ faults' = faults /\ adapter' = adapter
         \/ /\ MayHappen /\ faults' = [faults EXCEPT !.socket = @ + 1]
            /\ adapter' = [adapter EXCEPT ![a].socket = "Closed"]
  PROVE  /\ faults' \in FaultRecords /\ faults'.wifi = faults.wifi
         /\ adapter' \in [Adapters -> AdapterRecords]
         /\ \A b \in Adapters : Kept(b) /\ adapter'[b].state = adapter[b].state
<1>1. faults \in FaultRecords /\ adapter \in [Adapters -> AdapterRecords]
  BY Types
<1>2. CASE faults' = faults /\ adapter' = adapter
  BY <1>1, <1>2 DEF Kept
<1>3. CASE /\ MayHappen /\ faults' = [faults EXCEPT !.socket = @ + 1]
           /\ adapter' = [adapter EXCEPT ![a].socket = "Closed"]
  <2>1. faults.socket + 1 \in 0..MaxEvents
    BY <1>3, Bounded
  <2>2. faults' \in FaultRecords /\ faults'.wifi = faults.wifi
    BY <1>1, <1>3, <2>1 DEF FaultRecords
  <2>3. /\ adapter' \in [Adapters -> AdapterRecords] /\ adapter'[a].socket = "Closed"
        /\ \A b \in Adapters : /\ adapter'[b].p2p = adapter[b].p2p
                               /\ adapter'[b].device = adapter[b].device
                               /\ adapter'[b].state = adapter[b].state
                               /\ b # a => adapter'[b] = adapter[b]
    <3>1. "Closed" \in {"Closed", "Opened"}
      OBVIOUS
    <3>. QED  BY <1>1, <1>3, <3>1, SocketSet
  <2>. QED  BY <2>2, <2>3 DEF Kept
<1>. QED  BY <1>2, <1>3

\* ClientAdapter.send().
LEMMA SenderSends ==
  ASSUME SwitchInv, NEW a \in Adapters, SendSegment(a)
  PROVE  SwitchInv'
<1>1. /\ TypeOK /\ SleeperWaits /\ Conserved /\ sender \in [Adapters -> SenderRecords]
      /\ segments \in SegmentRecords /\ sender[a].pc = "send" /\ Holds(a)
      /\ sender[a].isWaiting \in BOOLEAN /\ crashed \in BOOLEAN
  BY Types DEF SwitchInv, SendSegment, SenderAt, Holds, SenderRecords
<1>2. UNCHANGED <<core, switcher, threads, receiver, server, spurious>>
  BY Zenon DEF SendSegment
<1>3. \/ /\ segments' = [segments EXCEPT !.sent = @ + 1] /\ sender' = [sender EXCEPT ![a].pc = "loop"]
         /\ UNCHANGED <<adapter, crashed, faults>>
      \/ /\ \/ faults' = faults /\ adapter' = adapter
            \/ /\ MayHappen /\ faults' = [faults EXCEPT !.socket = @ + 1]
               /\ adapter' = [adapter EXCEPT ![a].socket = "Closed"]
         /\ AddFailedSegment(a, "ended") /\ crashed' = sender[a].isWaiting
  BY Zenon DEF SendSegment, SenderGoto
<1>4. /\ sender' \in [Adapters -> SenderRecords] /\ Others(a) /\ crashed' \in BOOLEAN
      /\ segments' \in SegmentRecords /\ Conserved'
  <2>1. CASE AddFailedSegment(a, "ended") /\ crashed' = sender[a].isWaiting
    BY <1>1, <2>1, FailedAdded
  <2>2. CASE /\ segments' = [segments EXCEPT !.sent = @ + 1] /\ sender' = [sender EXCEPT ![a].pc = "loop"]
             /\ UNCHANGED <<adapter, crashed, faults>>
    <3>1. /\ sender' \in [Adapters -> SenderRecords] /\ sender'[a].pc = "loop"
          /\ \A b \in Adapters \ {a} : sender'[b] = sender[b]
      <4>1. {"loop", "send"} \subseteq SenderPcs
        BY DEF SenderPcs
      <4>. QED  BY <1>1, <2>2, <4>1, PcSet
    <3>2. Others(a) /\ ~Holds(a)'
      BY <3>1 DEF Others, Holds
    <3>3. Held' = Held - 1 /\ Held \in 0..2 /\ Held >= 1
      BY <1>1, <3>2, HeldChange
    <3>4. segments' \in SegmentRecords
          /\ segments'.written = segments'.queue + segments'.failed + segments'.sent + Held'
      BY <1>1, <2>2, <3>3, ClientSwitchAssumption DEF Conserved, SegmentRecords
    <3>. QED  BY <1>1, <2>2, <3>1, <3>2, <3>4 DEF Conserved
  <2>. QED  BY <1>3, <2>1, <2>2
<1>5. /\ faults' \in FaultRecords /\ faults'.wifi = faults.wifi
      /\ adapter' \in [Adapters -> AdapterRecords]
      /\ \A b \in Adapters : Kept(b) /\ adapter'[b].state = adapter[b].state
  BY <1>1, <1>3, SocketBreaks
<1>6. TypeOK'
  BY <1>1, <1>2, <1>4, <1>5, Types, TypesNext, Zenon
<1>7. adapter'[a].state # "Sleeping"
  BY <1>1, <1>5 DEF SleeperWaits
<1>. QED  BY <1>2, <1>4, <1>5, <1>6, <1>7, WorkerStep

\* receiverThreadLoop().
LEMMA ReceiverMoves ==
  ASSUME SwitchInv, NEW a \in Adapters, Receive(a) \/ ReadSegment(a)
  PROVE  SwitchInv'
<1>1. /\ TypeOK /\ SleeperWaits /\ Conserved /\ receiver \in [Adapters -> ReceiverRecords]
  BY Types DEF SwitchInv
<1>2. UNCHANGED <<crashed, core, switcher, threads, sender, segments, server, spurious>>
  BY Zenon DEF Receive, ReadSegment
<1>3. \/ faults' = faults /\ adapter' = adapter
      \/ /\ MayHappen /\ faults' = [faults EXCEPT !.socket = @ + 1]
         /\ adapter' = [adapter EXCEPT ![a].socket = "Closed"]
  BY Zenon DEF Receive, ReadSegment
<1>4. PICK p \in {"read", "ended"} : receiver' = [receiver EXCEPT ![a].pc = p]
  BY DEF Receive, ReadSegment, ReceiverGoto
<1>5. receiver' \in [Adapters -> ReceiverRecords]
  BY <1>1, <1>4 DEF ReceiverRecords
<1>6. /\ faults' \in FaultRecords /\ faults'.wifi = faults.wifi
      /\ adapter' \in [Adapters -> AdapterRecords]
      /\ \A b \in Adapters : Kept(b) /\ adapter'[b].state = adapter[b].state
  BY <1>1, <1>3, SocketBreaks
<1>7. TypeOK'
  BY <1>1, <1>2, <1>5, <1>6, Types, TypesNext, Zenon
<1>8. Others(a) /\ Conserved'
  BY <1>1, <1>2 DEF Others, Conserved, Held, Holds
<1>9. adapter'[a].state = "Sleeping" => sender'[a].pc \in {"enterWait", "suspended", "wakeup"}
  BY <1>1, <1>2, <1>6 DEF SleeperWaits
<1>. QED  BY <1>2, <1>6, <1>7, <1>8, <1>9, WorkerStep

-----------------------------------------------------------------------------
(* Core and the server *)

\* A thread is created when, without disturbances, there is none.
LEMMA SpawnStep ==
  ASSUME TypeOK, ThreadInv, NEW t \in Threads, threads[t].pc = "none",
         threads'[t].pc \in {"connect", "disconnect"},
         \A u \in Threads \ {t} : threads'[u] = threads[u] \/ (Busy(u) /\ Busy(u)'),
         core'.calls \in Nat, core'.calls > 0, core'.calls >= core.calls,
         core'.calls < 2 => core'.todo = <<>>, faults' = faults,
         \A a \in Adapters : Kept(a) /\ adapter'[a].state = adapter[a].state,
         threads'[t].adapter \in Adapters,
         Undisturbed' =>
           /\ \A u \in Threads : ~Busy(u)
           /\ IF threads'[t].listener = "start" THEN switcher'.receiving = "off"
              ELSE threads'[t].listener \in {"request", "peer"} /\ switcher'.state = "Switching"
           /\ threads'[t].pc = "connect" => adapter[threads'[t].adapter].state = "Disconnected"
  PROVE  ThreadInv'
<1>1. core.calls \in Nat /\ faults.wifi \in Nat
  BY Types, ClientSwitchAssumption DEF CoreRecords, FaultRecords
<1>2. Undisturbed' => Undisturbed
  BY <1>1 DEF Undisturbed
<1>3. Reported'
  <2>1. \A u \in Threads : u = t \/ threads'[u] = threads[u] \/ Busy(u)'
    OBVIOUS
  <2>. QED  BY <2>1 DEF Reported, ThreadInv, Busy
<1>4. Undisturbed' => \A u \in Threads : Busy(u)' => u = t
  BY DEF Busy
<1>5. OneThread'
  <2>1. faults'.wifi = 0 => \A u \in Threads : threads'[u].pc # "late"
    <3>1. \A u \in Threads : u = t \/ threads'[u] = threads[u] \/ Busy(u)'
      OBVIOUS
    <3>. QED  BY <3>1 DEF ThreadInv, OneThread, Busy
  <2>2. core'.calls # 0
    OBVIOUS
  <2>3. ASSUME Undisturbed', NEW u \in Threads, Busy(u)'
        PROVE  /\ IF threads'[u].listener = "start" THEN switcher'.receiving = "off"
                  ELSE threads'[u].listener \in {"request", "peer"} /\ Switching'
               /\ \A v \in Threads : Busy(v)' => u = v
    BY <1>4, <2>3 DEF Switching
  <2>. QED  BY <2>1, <2>2, <2>3 DEF OneThread
<1>6. ResourcesSound'
  <2>. SUFFICES ASSUME Undisturbed'
                PROVE  /\ \A u \in Threads : ThreadSound(u)'
                       /\ \A a \in Adapters :
                            (/\ adapter'[a].state = "Disconnected"
                             /\ \A u \in Threads : Busy(u)' => threads'[u].adapter # a)
                            => Released(a)'
    BY DEF ResourcesSound
  <2>1. \A a \in Adapters : adapter[a].state = "Disconnected" => Released(a)
    BY <1>2 DEF ThreadInv, ResourcesSound
  <2>2. \A a \in Adapters : adapter'[a].state = "Disconnected" => Released(a)'
    BY <2>1, KeptReleased
  <2>3. ThreadSound(t)'
    BY <2>2 DEF ThreadSound
  <2>4. ASSUME NEW u \in Threads \ {t}
        PROVE  ThreadSound(u)'
    BY <1>4, <2>4 DEF ThreadSound, Busy
  <2>. QED  BY <2>2, <2>3, <2>4
<1>. QED  BY <1>3, <1>5, <1>6 DEF ThreadInv

\* A step that changes neither senders nor segments nor the adapters' states.
LEMMA CallStep ==
  ASSUME SwitchInv, UNCHANGED <<sender, segments>>, TypeOK', ThreadInv',
         \A a \in Adapters : adapter'[a].state = adapter[a].state
  PROVE  SwitchInv'
<1>1. Conserved' /\ SleeperWaits'
  BY DEF SwitchInv, Conserved, Held, Holds, SleeperWaits
<1>. QED  BY <1>1 DEF SwitchInv

\* A call of the application is counted.
LEMMA CallCounted ==
  ASSUME TypeOK, ThreadInv, MayHappen,
         NEW called, called = [core EXCEPT !.calls = @ + 1]
  PROVE  /\ called \in CoreRecords /\ called.calls = core.calls + 1
         /\ called.todo = core.todo /\ called.state = core.state /\ called.calls \in Nat
         /\ core.calls \in Nat
         /\ called.calls < 2 => core.calls = 0 /\ called.todo = <<>> /\ core.state = "Idle"
<1>1. core \in CoreRecords /\ core.calls + 1 \in 0..MaxEvents
  BY Types, Bounded
<1>2. /\ called \in CoreRecords /\ called.calls = core.calls + 1
      /\ called.todo = core.todo /\ called.state = core.state
  BY <1>1 DEF CoreRecords
<1>3. core.calls \in Nat /\ called.calls \in Nat
  BY <1>1, <1>2, ClientSwitchAssumption DEF CoreRecords
<1>. QED  BY <1>2, <1>3 DEF ThreadInv, OneThread

\* Core.startSC().
LEMMA StartKeeps ==
  ASSUME SwitchInv, Start
  PROVE  SwitchInv'
<1>. DEFINE called == [core EXCEPT !.calls = @ + 1]
            started == [called EXCEPT !.state = "Starting", !.starting = TRUE]
<1>1. /\ TypeOK /\ ThreadInv /\ MayHappen /\ threads \in [Threads -> ThreadRecords]
  BY Types DEF SwitchInv, Start
<1>2. UNCHANGED <<crashed, switcher, adapter, sender, receiver, segments, server, faults, spurious>>
  BY Zenon DEF Start
<1>3. \/ /\ threads' = threads
         /\ core' = DoneStart(called, FALSE) \/ core' = DoneStartTx(called, FALSE)
      \/ /\ core' = started /\ Free # {} /\ threads' = Spawn(threads, "connect", Bt, "start")
         /\ adapter[Bt].state = "Disconnected"
  BY DEF Start
<1>4. /\ called \in CoreRecords /\ called.calls = core.calls + 1
      /\ called.todo = core.todo /\ called.state = core.state /\ called.calls \in Nat
      /\ core.calls \in Nat
      /\ called.calls < 2 => core.calls = 0 /\ called.todo = <<>> /\ core.state = "Idle"
  BY <1>1, CallCounted
<1>5. SameCalls(called, DoneStart(called, FALSE)) /\ SameCalls(called, DoneStartTx(called, FALSE))
  BY <1>4, DoneTyped
<1>. HIDE DEF called
<1>6. SameCalls(called, started)
  BY <1>4 DEF CoreRecords, SameCalls
<1>. HIDE DEF started
<1>7. SameCalls(called, core')
  BY <1>3, <1>5, <1>6, Zenon
<1>8. core' \in CoreRecords /\ core'.calls = core.calls + 1 /\ (core'.calls < 2 => core'.todo = <<>>)
      /\ (core'.calls < 2 => core.calls = 0)
  BY <1>4, <1>7 DEF SameCalls
<1>9. \A a \in Adapters : Kept(a) /\ adapter'[a].state = adapter[a].state
  BY <1>2 DEF Kept
<1>10. CASE threads' = threads
  <2>1. faults.wifi \in Nat
    BY <1>1, Types, ClientSwitchAssumption DEF FaultRecords
  <2>2. Passive
    BY <1>2, <1>4, <1>8, <2>1 DEF Passive
  <2>3. ThreadInv'
    BY <1>1, <1>9, <1>10, <2>2, IdleStep
  <2>4. TypeOK'
    BY <1>1, <1>2, <1>8, <1>10, Types, TypesNext, Zenon
  <2>. QED  BY <1>2, <1>9, <2>3, <2>4, CallStep
<1>11. CASE /\ core' = started /\ Free # {} /\ threads' = Spawn(threads, "connect", Bt, "start")
            /\ adapter[Bt].state = "Disconnected"
  <2>1. "connect" \in ThreadPcs /\ Bt \in Adapters /\ "start" \in Listeners
    BY DEF ThreadPcs, Adapters, Listeners
  <2>2. threads' \in [Threads -> ThreadRecords]
    BY <1>1, <1>11, <2>1, SpawnTyped
  <2>3. PICK t \in Free : /\ threads'[t].pc = "connect" /\ threads'[t].adapter = Bt
                          /\ threads'[t].listener = "start"
                          /\ \A u \in Threads \ {t} : threads'[u] = threads[u]
    BY <1>1, <1>11, <2>1, SpawnTyped
  <2>4. t \in Threads /\ threads[t].pc = "none"
    BY DEF Free
  <2>5. Undisturbed' => switcher'.receiving = "off" /\ \A u \in Threads : ~Busy(u)
    BY <1>1, <1>2, <1>4, <1>8 DEF Undisturbed, ThreadInv, OneThread, Busy
  <2>6. ThreadInv'
    BY <1>1, <1>2, <1>4, <1>8, <1>9, <1>11, <2>1, <2>3, <2>4, <2>5, SpawnStep
  <2>7. TypeOK'
    BY <1>1, <1>2, <1>8, <2>2, Types, TypesNext, Zenon
  <2>. QED  BY <1>2, <1>9, <2>6, <2>7, CallStep
<1>. QED  BY <1>3, <1>10, <1>11

\* Core.stopSC().
LEMMA StopKeeps ==
  ASSUME SwitchInv, Stop
  PROVE  SwitchInv'
<1>. DEFINE called == [core EXCEPT !.calls = @ + 1]
            n == Cardinality({a \in Adapters : Connected(a)})
            all == <<Bt, Wfd>>
            stopping == [called EXCEPT !.state = "Stopping", !.stopping = TRUE, !.todo = all,
                                       !.count = n]
<1>1. /\ TypeOK /\ ThreadInv /\ MayHappen
  BY DEF SwitchInv, Stop
<1>2. UNCHANGED <<crashed, switcher, adapter, threads, sender, receiver, segments, server, faults,
                  spurious>>
  BY Zenon DEF Stop
<1>3. \/ core' = DoneStop(called, FALSE) \/ core' = DoneStopTx(called, FALSE)
      \/ core' = stopping /\ core.state = "Ready"
  BY DEF Stop
<1>4. /\ called \in CoreRecords /\ called.calls = core.calls + 1
      /\ called.todo = core.todo /\ called.state = core.state /\ called.calls \in Nat
      /\ core.calls \in Nat
      /\ called.calls < 2 => core.calls = 0 /\ called.todo = <<>> /\ core.state = "Idle"
  BY <1>1, CallCounted
<1>5. SameCalls(called, DoneStop(called, FALSE)) /\ SameCalls(called, DoneStopTx(called, FALSE))
  BY <1>4, DoneTyped
<1>6. n \in Nat
  <2>1. IsFiniteSet(Adapters)
    <3>1. IsFiniteSet({Bt}) /\ Adapters = {Bt} \cup {Wfd}
      BY FS_Singleton DEF Adapters
    <3>. QED  BY <3>1, FS_AddElement
  <2>2. IsFiniteSet({a \in Adapters : Connected(a)})
    BY <2>1, FS_Subset
  <2>. QED  BY <2>2, FS_CardinalityType
<1>. HIDE DEF called, n
<1>13. all \in Seq(Adapters)
  BY DEF Adapters
<1>. HIDE DEF all
<1>7. stopping \in CoreRecords /\ stopping.calls = called.calls
  <2>. DEFINE first == [called EXCEPT !.state = "Stopping", !.stopping = TRUE]
  <2>1. first \in CoreRecords /\ first.calls = called.calls
    BY <1>4 DEF CoreRecords
  <2>2. stopping = [first EXCEPT !.todo = all, !.count = n]
    BY <1>4 DEF CoreRecords
  <2>. HIDE DEF first
  <2>3. [first EXCEPT !.todo = all, !.count = n] \in CoreRecords
        /\ [first EXCEPT !.todo = all, !.count = n].calls = first.calls
    <3>1. ASSUME NEW c \in CoreRecords, NEW s \in Seq(Adapters), NEW i \in Int
          PROVE  [c EXCEPT !.todo = s, !.count = i] \in CoreRecords
                 /\ [c EXCEPT !.todo = s, !.count = i].calls = c.calls
      BY <3>1 DEF CoreRecords
    <3>2. n \in Int
      BY <1>6
    <3>. QED  BY <1>13, <2>1, <3>1, <3>2
  <2>. QED  BY <2>1, <2>2, <2>3, Zenon
<1>. HIDE DEF stopping
<1>8. core' \in CoreRecords /\ core'.calls = core.calls + 1 /\ (core'.calls < 2 => core'.todo = <<>>)
  BY <1>3, <1>4, <1>5, <1>7 DEF SameCalls
<1>9. faults.wifi \in Nat
  BY <1>1, Types, ClientSwitchAssumption DEF FaultRecords
<1>10. Passive /\ \A a \in Adapters : Kept(a) /\ adapter'[a].state = adapter[a].state
  BY <1>2, <1>4, <1>8, <1>9 DEF Passive, Kept
<1>11. ThreadInv'
  BY <1>1, <1>2, <1>10, IdleStep
<1>12. TypeOK'
  BY <1>1, <1>2, <1>8, Types, TypesNext, Zenon
<1>. QED  BY <1>2, <1>10, <1>11, <1>12, CallStep

\* An adapter's flags are set before the thread that disconnects it is created.
LEMMA PurposeSet ==
  ASSUME adapter \in [Adapters -> AdapterRecords], NEW a \in Adapters,
         \/ adapter' = adapter
         \/ adapter' = [adapter EXCEPT ![a].onPurpose = TRUE]
         \/ adapter' = [adapter EXCEPT ![a].onPurposePeer = TRUE]
         \/ adapter' = [adapter EXCEPT ![a].onPurpose = TRUE, ![a].onPurposePeer = TRUE]
  PROVE  /\ adapter' \in [Adapters -> AdapterRecords]
         /\ \A b \in Adapters : Kept(b) /\ adapter'[b].state = adapter[b].state
<1>1. CASE adapter' = adapter
  BY <1>1 DEF Kept
<1>. DEFINE r == [adapter[a] EXCEPT !.onPurpose = TRUE]
            s == [r EXCEPT !.onPurposePeer = TRUE]
            p == [adapter[a] EXCEPT !.onPurposePeer = TRUE]
<1>2. adapter[a] \in AdapterRecords
  OBVIOUS
<1>3. /\ r \in AdapterRecords /\ r.p2p = adapter[a].p2p /\ r.device = adapter[a].device
      /\ r.socket = adapter[a].socket /\ r.state = adapter[a].state
  BY <1>2 DEF AdapterRecords
<1>8. /\ p \in AdapterRecords /\ p.p2p = adapter[a].p2p /\ p.device = adapter[a].device
      /\ p.socket = adapter[a].socket /\ p.state = adapter[a].state
  BY <1>2 DEF AdapterRecords
<1>. HIDE DEF r, p
<1>4. /\ s \in AdapterRecords /\ s.p2p = adapter[a].p2p /\ s.device = adapter[a].device
      /\ s.socket = adapter[a].socket /\ s.state = adapter[a].state
  BY <1>3 DEF AdapterRecords
<1>. HIDE DEF s
<1>5. ASSUME NEW q \in {r, s, p}, adapter' = [adapter EXCEPT ![a] = q]
      PROVE  /\ adapter' \in [Adapters -> AdapterRecords]
             /\ \A b \in Adapters : Kept(b) /\ adapter'[b].state = adapter[b].state
  <2>1. /\ q \in AdapterRecords /\ q.p2p = adapter[a].p2p /\ q.device = adapter[a].device
        /\ q.socket = adapter[a].socket /\ q.state = adapter[a].state
    BY <1>3, <1>4, <1>8
  <2>2. /\ adapter' \in [Adapters -> AdapterRecords] /\ adapter'[a] = q
        /\ \A b \in Adapters \ {a} : adapter'[b] = adapter[b]
    BY <1>5, <2>1, Updated
  <2>. QED  BY <2>1, <2>2 DEF Kept
<1>6. CASE adapter' = [adapter EXCEPT ![a].onPurpose = TRUE]
  <2>1. adapter' = [adapter EXCEPT ![a] = r]
    BY <1>6 DEF r
  <2>. QED  BY <1>5, <2>1
<1>7. CASE adapter' = [adapter EXCEPT ![a].onPurpose = TRUE, ![a].onPurposePeer = TRUE]
  <2>1. adapter' = [adapter EXCEPT ![a] = s]
    BY <1>7 DEF r, s
  <2>. QED  BY <1>5, <2>1
<1>9. CASE adapter' = [adapter EXCEPT ![a].onPurposePeer = TRUE]
  <2>1. adapter' = [adapter EXCEPT ![a] = p]
    BY <1>9 DEF p
  <2>. QED  BY <1>5, <2>1
<1>. QED  BY <1>1, <1>6, <1>7, <1>9

\* StopCoreTransaction.start(): there were two calls before it.
LEMMA StopNextKeeps ==
  ASSUME SwitchInv, StopNext
  PROVE  SwitchInv'
<1>. DEFINE a == Head(core.todo)
            next == [core EXCEPT !.todo = Tail(@), !.polling = FALSE]
            polls == [core EXCEPT !.polling = TRUE]
<1>1. /\ TypeOK /\ ThreadInv /\ threads \in [Threads -> ThreadRecords] /\ core \in CoreRecords
      /\ adapter \in [Adapters -> AdapterRecords] /\ core.todo # <<>> /\ core.todo \in Seq(Adapters)
      /\ core.calls \in Nat /\ faults.wifi \in Nat /\ server \in ServerRecords
  BY Types, ClientSwitchAssumption DEF SwitchInv, StopNext, CoreRecords, FaultRecords
<1>2. UNCHANGED <<crashed, sender, receiver, segments, faults, spurious>> /\ switcher' = switcher
  BY Zenon DEF StopNext
<1>3. a \in Adapters /\ Tail(core.todo) \in Seq(Adapters)
  BY <1>1
<1>4. /\ next \in CoreRecords /\ next.calls = core.calls /\ polls \in CoreRecords
      /\ polls.calls = core.calls
  BY <1>1, <1>3 DEF CoreRecords
<1>5. core.calls >= 2
  BY <1>1 DEF ThreadInv, OneThread
<1>6. \/ core' = polls /\ adapter' = adapter /\ threads' = threads
      \/ /\ core' = next /\ adapter' = [adapter EXCEPT ![a].onPurpose = TRUE]
         /\ Free # {} /\ threads' = Spawn(threads, "disconnect", a, "stop")
      \/ /\ core' = DoneStopTx(next, FALSE) \/ core' = next
         /\ adapter' = adapter /\ threads' = threads
  BY DEF StopNext
<1>11. \/ server' = server
       \/ \E x \in SUBSET Adapters : server' = [server EXCEPT !.asked = x]
  <2>1. server.asked \cup {a} \in SUBSET Adapters
    BY <1>1, <1>3 DEF ServerRecords
  <2>2. server' = server \/ server' = [server EXCEPT !.asked = server.asked \cup {a}]
                         \/ server' = [server EXCEPT !.asked = server.asked]
    BY DEF StopNext
  <2>3. server.asked \in SUBSET Adapters
    BY <1>1 DEF ServerRecords
  <2>. QED  BY <2>1, <2>2, <2>3, Zenon
<1>12. server' \in ServerRecords
  BY <1>1, <1>11 DEF ServerRecords
<1>. HIDE DEF a, next, polls
<1>7. core' \in CoreRecords /\ core'.calls = core.calls
  <2>1. SameCalls(next, DoneStopTx(next, FALSE))
    BY <1>4, DoneTyped
  <2>. QED  BY <1>4, <1>6, <2>1, Zenon DEF SameCalls
<1>8. /\ adapter' \in [Adapters -> AdapterRecords]
      /\ \A b \in Adapters : Kept(b) /\ adapter'[b].state = adapter[b].state
  BY <1>1, <1>3, <1>6, PurposeSet
<1>9. CASE threads' = threads
  <2>1. Passive
    BY <1>1, <1>2, <1>5, <1>7 DEF Passive
  <2>2. ThreadInv'
    BY <1>1, <1>8, <1>9, <2>1, IdleStep
  <2>3. TypeOK'
    BY <1>1, <1>2, <1>7, <1>8, <1>9, <1>12, Types, TypesNext, Zenon
  <2>. QED  BY <1>2, <1>8, <2>2, <2>3, CallStep
<1>10. CASE Free # {} /\ threads' = Spawn(threads, "disconnect", a, "stop")
  <2>1. "disconnect" \in ThreadPcs /\ "stop" \in Listeners
    BY DEF ThreadPcs, Listeners
  <2>2. threads' \in [Threads -> ThreadRecords]
    BY <1>1, <1>3, <1>10, <2>1, SpawnTyped
  <2>3. PICK t \in Free : /\ threads'[t].pc = "disconnect" /\ threads'[t].adapter = a
                          /\ \A u \in Threads \ {t} : threads'[u] = threads[u]
    BY <1>1, <1>3, <1>10, <2>1, SpawnTyped
  <2>4. t \in Threads /\ threads[t].pc = "none"
    BY DEF Free
  <2>5. ~Undisturbed' /\ core'.calls > 0 /\ core'.calls >= core.calls /\ ~(core'.calls < 2)
    BY <1>1, <1>5, <1>7 DEF Undisturbed
  <2>6. ThreadInv'
    BY <1>1, <1>2, <1>3, <1>7, <1>8, <2>3, <2>4, <2>5, SpawnStep
  <2>7. TypeOK'
    BY <1>1, <1>2, <1>7, <1>8, <1>12, <2>2, Types, TypesNext, Zenon
  <2>. QED  BY <1>2, <1>8, <2>6, <2>7, CallStep
<1>. QED  BY <1>6, <1>9, <1>10

\* Core.send(): the segment is in the queue, and the senders hear of it.
LEMMA SendKeeps ==
  ASSUME SwitchInv, Send
  PROVE  SwitchInv'
<1>1. /\ TypeOK /\ ThreadInv /\ Conserved /\ SleeperWaits /\ MayHappen
      /\ sender \in [Adapters -> SenderRecords] /\ segments \in SegmentRecords
      /\ segments.written + 1 \in 0..MaxEvents
  BY Types, Bounded DEF SwitchInv, Send
<1>2. UNCHANGED <<crashed, core, switcher, adapter, threads, receiver, server, faults, spurious>>
  BY Zenon DEF Send
<1>3. sender' = DequeueNotified(sender)
      /\ segments' = [segments EXCEPT !.written = @ + 1, !.queue = @ + 1]
  BY DEF Send
<1>4. /\ sender' \in [Adapters -> SenderRecords]
      /\ \A a \in Adapters : sender'[a].pc = sender[a].pc
                             \/ (sender[a].pc = "waiting" /\ sender'[a].pc = "woken")
  BY <1>1, <1>3, NotifiedTyped
<1>5. Held' = Held /\ Held \in 0..2
  BY <1>4 DEF Held, Holds, Adapters
<1>6. segments' \in SegmentRecords
      /\ segments'.written = segments'.queue + segments'.failed + segments'.sent + Held'
  <2>1. /\ segments.queue \in Nat /\ segments.failed \in Nat /\ segments.sent \in Nat
        /\ segments.written \in Nat
        /\ segments.written = segments.queue + segments.failed + segments.sent + Held
    BY <1>1, ClientSwitchAssumption DEF Conserved, SegmentRecords
  <2>2. segments.queue + 1 \in 0..MaxEvents
    BY <1>1, <1>5, <2>1, ClientSwitchAssumption
  <2>. DEFINE w == segments.written + 1
              q == segments.queue + 1
  <2>3. segments' = [segments EXCEPT !.written = w, !.queue = q]
    BY <1>3
  <2>4. w = q + segments.failed + segments.sent + Held
    BY <1>5, <2>1
  <2>5. w \in 0..MaxEvents /\ q \in 0..MaxEvents
    BY <1>1, <2>2
  <2>. HIDE DEF w, q
  <2>6. /\ segments' \in SegmentRecords /\ segments'.written = w /\ segments'.queue = q
        /\ segments'.failed = segments.failed /\ segments'.sent = segments.sent
    BY <1>1, <2>3, <2>5 DEF SegmentRecords
  <2>. QED  BY <1>5, <2>4, <2>6
<1>7. SleeperWaits'
  BY <1>1, <1>2, <1>4 DEF SleeperWaits
<1>8. \A a \in Adapters : Kept(a)
  BY <1>2 DEF Kept
<1>9. ThreadInv'
  BY <1>1, <1>2, <1>8, PassiveStep, IdleStep
<1>10. TypeOK'
  BY <1>1, <1>2, <1>4, <1>6, Types, TypesNext, Zenon
<1>. QED  BY <1>6, <1>7, <1>9, <1>10 DEF SwitchInv, Conserved

\* The server sends a command, and the client waits for one.
LEMMA ServerKeeps ==
  ASSUME SwitchInv, NEW code \in {"connect", "sleep", "wakeup", "disconnect"}, NEW a \in Adapters,
         ServerCommand(code, a) \/ EnterReceive
  PROVE  SwitchInv'
<1>1. TypeOK /\ ThreadInv /\ server \in ServerRecords /\ switcher \in SwitcherRecords
      /\ core \in CoreRecords /\ faults.wifi \in Nat /\ core.calls \in Nat
  BY Types, ClientSwitchAssumption DEF SwitchInv, CoreRecords, FaultRecords
<1>2. UNCHANGED <<crashed, core, adapter, threads, sender, receiver, segments, faults, spurious>>
  BY Zenon DEF ServerCommand, EnterReceive
<1>3. server' \in ServerRecords /\ switcher' \in SwitcherRecords /\ Passive
  <2>1. CASE ServerCommand(code, a)
    <3>. DEFINE Codes == {"connect", "sleep", "wakeup", "disconnect", "priv", "ack"} \X Adapters
                added == IF <<code, a>> = <<"connect", Wfd>> THEN <<<<code, a>>, <<"priv", a>>>>
                         ELSE <<<<code, a>>>>
                inbox == server.inbox \o added
                n == server.commands + 1
                accepted == IF code = "disconnect" THEN server.accepted \ {a} ELSE server.accepted
    <3>1. n \in 0..MaxEvents
      BY <1>1, <2>1, Bounded DEF ServerCommand
    <3>2. added \in Seq(Codes)
      <4>1. <<code, a>> \in Codes /\ <<"priv", a>> \in Codes
        OBVIOUS
      <4>2. <<<<code, a>>>> \in Seq(Codes) /\ <<<<code, a>>, <<"priv", a>>>> \in Seq(Codes)
        BY <4>1
      <4>. QED  BY <4>2
    <3>3. server.inbox \in Seq(Codes) /\ server.accepted \in SUBSET Adapters
      BY <1>1 DEF ServerRecords
    <3>4. inbox \in Seq(Codes) /\ accepted \in SUBSET Adapters
      BY <3>2, <3>3
    <3>5. server' = [server EXCEPT !.commands = n, !.inbox = inbox, !.accepted = accepted]
          /\ switcher' = switcher
      BY <2>1 DEF ServerCommand
    <3>. HIDE DEF n, inbox, accepted
    <3>6. server' \in ServerRecords
      BY <1>1, <3>1, <3>4, <3>5 DEF ServerRecords
    <3>. QED  BY <1>1, <1>2, <3>5, <3>6, PassiveStep
  <2>2. CASE EnterReceive
    <3>1. server' = server /\ switcher' = [switcher EXCEPT !.receiving = "blocked"]
          /\ switcher.receiving = "on"
      BY <2>2, Zenon DEF EnterReceive
    <3>2. switcher' \in SwitcherRecords /\ switcher'.state = switcher.state
      BY <1>1, <3>1 DEF SwitcherRecords
    <3>. QED  BY <1>1, <1>2, <3>1, <3>2 DEF Passive, ThreadInv, OneThread
  <2>. QED  BY <2>1, <2>2
<1>4. \A b \in Adapters : Kept(b) /\ adapter'[b].state = adapter[b].state
  BY <1>2 DEF Kept
<1>5. ThreadInv'
  BY <1>1, <1>2, <1>3, <1>4, IdleStep
<1>6. TypeOK'
  BY <1>1, <1>2, <1>3, Types, TypesNext, Zenon
<1>. QED  BY <1>2, <1>4, <1>5, <1>6, CallStep

\* The server disconnects an adapter and says so.
LEMMA ServerAcknowledgesKeeps ==
  ASSUME SwitchInv, NEW a \in Adapters, ServerAcknowledges(a)
  PROVE  SwitchInv'
<1>1. TypeOK /\ ThreadInv /\ server \in ServerRecords
  BY Types DEF SwitchInv
<1>2. UNCHANGED <<crashed, core, switcher, adapter, threads, sender, receiver, segments, faults, spurious>>
  BY Zenon DEF ServerAcknowledges
<1>3. server' \in ServerRecords
  <2>. DEFINE asked == server.asked \ {a}
              accepted == server.accepted \ {a}
              inbox == <<<<"ack", a>>>>
  <2>1. asked \in SUBSET Adapters /\ accepted \in SUBSET Adapters
    BY <1>1 DEF ServerRecords
  <2>2. inbox \in Seq({"connect", "sleep", "wakeup", "disconnect", "priv", "ack"} \X Adapters)
    OBVIOUS
  <2>3. server' = [server EXCEPT !.asked = asked, !.accepted = accepted, !.inbox = inbox]
    BY DEF ServerAcknowledges
  <2>. HIDE DEF asked, accepted, inbox
  <2>. QED  BY <1>1, <2>1, <2>2, <2>3 DEF ServerRecords
<1>4. \A b \in Adapters : Kept(b) /\ adapter'[b].state = adapter[b].state
  BY <1>2 DEF Kept
<1>5. ThreadInv'
  BY <1>1, <1>2, <1>4, PassiveStep, IdleStep
<1>6. TypeOK'
  BY <1>1, <1>2, <1>3, Types, TypesNext, Zenon
<1>. QED  BY <1>2, <1>4, <1>5, <1>6, CallStep

-----------------------------------------------------------------------------
(* The commands of the server *)

\* A message is received only after the start has succeeded; without disturbances there is then
\* no thread unless the switcher is Switching.
LEMMA ReceivedTyped ==
  ASSUME TypeOK, ThreadInv, NEW code, NEW a, Received(code, a)
  PROVE  /\ server' \in ServerRecords /\ switcher.receiving # "off"
         /\ core.calls \in Nat /\ core.calls > 0 /\ faults.wifi \in Nat
         /\ core.calls < 2 => core.todo = <<>>
         /\ Undisturbed /\ ~Switching => \A u \in Threads : ~Busy(u)
<1>1. server \in ServerRecords /\ core.calls \in Nat /\ faults.wifi \in Nat
  BY Types, ClientSwitchAssumption DEF CoreRecords, FaultRecords
<1>2. server' = [server EXCEPT !.inbox = Tail(@)] /\ server.inbox # <<>>
      /\ switcher.receiving # "off"
  BY DEF Received
<1>3. Tail(server.inbox) \in Seq({"connect", "sleep", "wakeup", "disconnect", "priv", "ack"} \X Adapters)
  BY <1>1, <1>2 DEF ServerRecords
<1>4. server' \in ServerRecords
  BY <1>1, <1>2, <1>3 DEF ServerRecords
<1>. QED  BY <1>1, <1>2, <1>4 DEF ThreadInv, OneThread

\* The switcher handles a message, and may begin to switch.
LEMMA HandledTyped ==
  ASSUME switcher \in SwitcherRecords, NEW s,
         s = Handling \/ s = [Handling EXCEPT !.info = TRUE] \/ s = [Handling EXCEPT !.state = "Switching"]
  PROVE  /\ s \in SwitcherRecords
         /\ s = [Handling EXCEPT !.state = "Switching"] => s.state = "Switching"
         /\ switcher.state = "Switching" => s.state = "Switching"
<1>1. Handling \in SwitcherRecords /\ Handling.state = switcher.state
  BY HandlingTyped
<1>2. ASSUME NEW h \in SwitcherRecords
      PROVE  /\ [h EXCEPT !.info = TRUE] \in SwitcherRecords /\ [h EXCEPT !.info = TRUE].state = h.state
             /\ [h EXCEPT !.state = "Switching"] \in SwitcherRecords
             /\ [h EXCEPT !.state = "Switching"].state = "Switching"
  BY <1>2 DEF SwitcherRecords
<1>. QED  BY <1>1, <1>2

\* A message whose handling creates no thread.
LEMMA HandledPassive ==
  ASSUME TypeOK, ThreadInv, NEW code, NEW a, Received(code, a), core' = core, faults' = faults,
         \/ switcher' = Handling
         \/ switcher' = [Handling EXCEPT !.info = TRUE]
         \/ switcher' = [Handling EXCEPT !.state = "Switching"]
  PROVE  Passive /\ switcher' \in SwitcherRecords /\ server' \in ServerRecords
<1>1. switcher \in SwitcherRecords
  BY Types
<1>2. switcher' \in SwitcherRecords /\ (switcher.state = "Switching" => switcher'.state = "Switching")
  BY <1>1, HandledTyped
<1>. QED  BY <1>2, ReceivedTyped DEF Passive

\* The data to connect with.
LEMMA PrivateKeeps ==
  ASSUME SwitchInv, NEW a \in Adapters, PrivateMessage(a)
  PROVE  SwitchInv'
<1>1. TypeOK /\ ThreadInv
  BY DEF SwitchInv
<1>2. UNCHANGED <<crashed, core, adapter, threads, sender, receiver, segments, faults, spurious>>
  BY Zenon DEF PrivateMessage
<1>3. Passive /\ switcher' \in SwitcherRecords /\ server' \in ServerRecords
  BY <1>1, <1>2, HandledPassive DEF PrivateMessage
<1>4. \A b \in Adapters : Kept(b) /\ adapter'[b].state = adapter[b].state
  BY <1>2 DEF Kept
<1>5. ThreadInv'
  BY <1>1, <1>2, <1>3, <1>4, IdleStep
<1>6. TypeOK'
  BY <1>1, <1>2, <1>3, Types, TypesNext, Zenon
<1>. QED  BY <1>2, <1>4, <1>5, <1>6, CallStep

\* connectAdapterByPeer().
LEMMA ConnectByPeerKeeps ==
  ASSUME SwitchInv, NEW a \in Adapters, ConnectAdapterByPeer(a)
  PROVE  SwitchInv'
<1>1. TypeOK /\ ThreadInv /\ threads \in [Threads -> ThreadRecords] /\ switcher \in SwitcherRecords
  BY Types DEF SwitchInv
<1>2. UNCHANGED <<crashed, core, adapter, sender, receiver, segments, faults, spurious>>
  BY Zenon DEF ConnectAdapterByPeer
<1>3. Received("connect", a)
  BY DEF ConnectAdapterByPeer
<1>4. \A b \in Adapters : Kept(b) /\ adapter'[b].state = adapter[b].state
  BY <1>2 DEF Kept
<1>5. \/ switcher' = Handling /\ threads' = threads
      \/ /\ ~Switching /\ adapter[a].state = "Disconnected"
         /\ switcher' = [Handling EXCEPT !.state = "Switching"]
         /\ Free # {} /\ threads' = Spawn(threads, "connect", a, "request")
  BY DEF ConnectAdapterByPeer
<1>6. Passive /\ switcher' \in SwitcherRecords /\ server' \in ServerRecords
  BY <1>1, <1>2, <1>3, <1>5, HandledPassive
<1>7. CASE threads' = threads
  <2>1. ThreadInv'
    BY <1>1, <1>4, <1>6, <1>7, IdleStep
  <2>2. TypeOK'
    BY <1>1, <1>2, <1>6, <1>7, Types, TypesNext, Zenon
  <2>. QED  BY <1>2, <1>4, <2>1, <2>2, CallStep
<1>8. CASE /\ ~Switching /\ adapter[a].state = "Disconnected"
           /\ switcher' = [Handling EXCEPT !.state = "Switching"]
           /\ Free # {} /\ threads' = Spawn(threads, "connect", a, "request")
  <2>1. "connect" \in ThreadPcs /\ "request" \in Listeners
    BY DEF ThreadPcs, Listeners
  <2>2. threads' \in [Threads -> ThreadRecords]
    BY <1>1, <1>8, <2>1, SpawnTyped
  <2>3. PICK t \in Free : /\ threads'[t].pc = "connect" /\ threads'[t].adapter = a
                          /\ threads'[t].listener = "request"
                          /\ \A u \in Threads \ {t} : threads'[u] = threads[u]
    BY <1>1, <1>8, <2>1, SpawnTyped
  <2>4. t \in Threads /\ threads[t].pc = "none"
    BY DEF Free
  <2>5. /\ core'.calls \in Nat /\ core'.calls > 0 /\ core'.calls >= core.calls
        /\ core'.calls < 2 => core'.todo = <<>>
        /\ Undisturbed' => \A u \in Threads : ~Busy(u)
    BY <1>1, <1>2, <1>3, <1>8, ReceivedTyped DEF Undisturbed
  <2>6. switcher'.state = "Switching"
    BY <1>1, <1>8, HandledTyped
  <2>7. ThreadInv'
    BY <1>1, <1>2, <1>4, <1>8, <2>3, <2>4, <2>5, <2>6, SpawnStep
  <2>8. TypeOK'
    BY <1>1, <1>2, <1>6, <2>2, Types, TypesNext, Zenon
  <2>. QED  BY <1>2, <1>4, <2>7, <2>8, CallStep
<1>. QED  BY <1>5, <1>7, <1>8

\* mWaitForDisconnectAck is notified.
LEMMA PeerKnowsTyped ==
  ASSUME threads \in [Threads -> ThreadRecords], NEW a
  PROVE  /\ PeerKnows(a) \in [Threads -> ThreadRecords]
         /\ \A t \in Threads :
              \/ PeerKnows(a)[t] = threads[t]
              \/ /\ threads[t].pc = "waitPeer" /\ PeerKnows(a)[t].pc = "finish"
                 /\ PeerKnows(a)[t].adapter = threads[t].adapter
                 /\ PeerKnows(a)[t].listener = threads[t].listener
<1>1. \A t \in Threads : /\ [threads[t] EXCEPT !.pc = "finish"] \in ThreadRecords
                         /\ [threads[t] EXCEPT !.pc = "finish"].pc = "finish"
                         /\ [threads[t] EXCEPT !.pc = "finish"].adapter = threads[t].adapter
                         /\ [threads[t] EXCEPT !.pc = "finish"].listener = threads[t].listener
  BY DEF ThreadRecords, ThreadPcs
<1>. QED  BY <1>1 DEF PeerKnows

\* The acknowledgement of the server.
LEMMA AcknowledgeKeeps ==
  ASSUME SwitchInv, NEW a \in Adapters, AcknowledgeDisconnect(a)
  PROVE  SwitchInv'
<1>1. TypeOK /\ ThreadInv /\ threads \in [Threads -> ThreadRecords]
      /\ adapter \in [Adapters -> AdapterRecords]
  BY Types DEF SwitchInv
<1>2. UNCHANGED <<crashed, core, sender, receiver, segments, faults, spurious>>
  BY Zenon DEF AcknowledgeDisconnect
<1>3. /\ Received("ack", a) /\ switcher' = Handling /\ threads' = PeerKnows(a)
      /\ adapter' = [adapter EXCEPT ![a].onPurposePeer = TRUE]
  BY DEF AcknowledgeDisconnect
<1>4. Passive /\ switcher' \in SwitcherRecords /\ server' \in ServerRecords
  BY <1>1, <1>2, <1>3, HandledPassive
<1>5. /\ adapter' \in [Adapters -> AdapterRecords]
      /\ \A b \in Adapters : Kept(b) /\ adapter'[b].state = adapter[b].state
  BY <1>1, <1>3, PurposeSet
<1>6. /\ threads' \in [Threads -> ThreadRecords]
      /\ \A t \in Threads : threads'[t] = threads[t] \/ Awoken(t)
  BY <1>1, <1>3, PeerKnowsTyped DEF Awoken
<1>7. Reported'
  BY <1>1, <1>6 DEF ThreadInv, Reported, Awoken
<1>8. ThreadInv'
  BY <1>1, <1>4, <1>5, <1>6, <1>7, QuietStep
<1>9. TypeOK'
  BY <1>1, <1>2, <1>4, <1>5, <1>6, Types, TypesNext, Zenon
<1>. QED  BY <1>2, <1>5, <1>8, <1>9, CallStep

\* disconnectAdapterByPeer().
LEMMA DisconnectByPeerKeeps ==
  ASSUME SwitchInv, NEW a \in Adapters, DisconnectAdapterByPeer(a)
  PROVE  SwitchInv'
<1>1. TypeOK /\ ThreadInv /\ threads \in [Threads -> ThreadRecords] /\ switcher \in SwitcherRecords
      /\ adapter \in [Adapters -> AdapterRecords]
  BY Types DEF SwitchInv
<1>2. UNCHANGED <<crashed, core, sender, receiver, segments, faults, spurious>>
  BY Zenon DEF DisconnectAdapterByPeer
<1>3. Received("disconnect", a)
  BY DEF DisconnectAdapterByPeer
<1>4. \/ switcher' = Handling /\ threads' = threads /\ adapter' = adapter
      \/ /\ ~Switching /\ switcher' = [Handling EXCEPT !.state = "Switching"]
         /\ adapter' = [adapter EXCEPT ![a].onPurpose = TRUE, ![a].onPurposePeer = TRUE]
         /\ Free # {} /\ threads' = Spawn(PeerKnows(a), "disconnect", a, "peer")
  BY DEF DisconnectAdapterByPeer
<1>5. /\ adapter' \in [Adapters -> AdapterRecords]
      /\ \A b \in Adapters : Kept(b) /\ adapter'[b].state = adapter[b].state
  BY <1>1, <1>4, PurposeSet
<1>6. Passive /\ switcher' \in SwitcherRecords /\ server' \in ServerRecords
  BY <1>1, <1>2, <1>3, <1>4, HandledPassive
<1>7. CASE threads' = threads
  <2>1. ThreadInv'
    BY <1>1, <1>5, <1>6, <1>7, IdleStep
  <2>2. TypeOK'
    BY <1>1, <1>2, <1>5, <1>6, <1>7, Types, TypesNext, Zenon
  <2>. QED  BY <1>2, <1>5, <2>1, <2>2, CallStep
<1>8. CASE /\ ~Switching /\ switcher' = [Handling EXCEPT !.state = "Switching"]
           /\ Free # {} /\ threads' = Spawn(PeerKnows(a), "disconnect", a, "peer")
  <2>1. "disconnect" \in ThreadPcs /\ "peer" \in Listeners
        /\ PeerKnows(a) \in [Threads -> ThreadRecords]
    BY <1>1, PeerKnowsTyped DEF ThreadPcs, Listeners
  <2>2. threads' \in [Threads -> ThreadRecords]
    BY <1>1, <1>8, <2>1, SpawnTyped
  <2>3. PICK t \in Free : /\ threads'[t].pc = "disconnect" /\ threads'[t].adapter = a
                          /\ threads'[t].listener = "peer"
                          /\ \A u \in Threads \ {t} : threads'[u] = PeerKnows(a)[u]
    BY <1>1, <1>8, <2>1, SpawnTyped
  <2>4. t \in Threads /\ threads[t].pc = "none"
    BY DEF Free
  <2>5. /\ core'.calls \in Nat /\ core'.calls > 0 /\ core'.calls >= core.calls
        /\ core'.calls < 2 => core'.todo = <<>>
        /\ Undisturbed' => \A u \in Threads : ~Busy(u)
    BY <1>1, <1>2, <1>3, <1>8, ReceivedTyped DEF Undisturbed
  <2>6. switcher'.state = "Switching"
    BY <1>1, <1>8, HandledTyped
  <2>7. \A u \in Threads \ {t} : threads'[u] = threads[u] \/ (Busy(u) /\ Busy(u)')
    BY <1>1, <2>3, PeerKnowsTyped DEF Busy
  <2>8. ThreadInv'
    BY <1>1, <1>2, <1>5, <1>8, <2>3, <2>4, <2>5, <2>6, <2>7, SpawnStep
  <2>9. TypeOK'
    BY <1>1, <1>2, <1>5, <1>6, <2>2, Types, TypesNext, Zenon
  <2>. QED  BY <1>2, <1>5, <2>8, <2>9, CallStep
<1>. QED  BY <1>4, <1>7, <1>8

\* The suspended flag of a sender is set.
LEMMA SuspendedSet ==
  ASSUME NEW f \in [Adapters -> SenderRecords], NEW a \in Adapters, NEW g,
         g = [f EXCEPT ![a].isSuspended = TRUE] \/ g = [f EXCEPT ![a].isSuspended = FALSE]
  PROVE  g \in [Adapters -> SenderRecords] /\ \A b \in Adapters : g[b].pc = f[b].pc
<1>1. PICK r \in SenderRecords : g = [f EXCEPT ![a] = r] /\ r.pc = f[a].pc
  <2>1. ASSUME NEW x \in BOOLEAN
        PROVE  [f[a] EXCEPT !.isSuspended = x] \in SenderRecords
               /\ [f[a] EXCEPT !.isSuspended = x].pc = f[a].pc
    BY DEF SenderRecords
  <2>2. \/ g = [f EXCEPT ![a] = [f[a] EXCEPT !.isSuspended = TRUE]]
        \/ g = [f EXCEPT ![a] = [f[a] EXCEPT !.isSuspended = FALSE]]
    OBVIOUS
  <2>. QED  BY <2>1, <2>2, Zenon
<1>2. /\ g \in [Adapters -> SenderRecords] /\ g[a] = r
      /\ \A b \in Adapters \ {a} : g[b] = f[b]
  BY <1>1, Updated
<1>. QED  BY <1>1, <1>2

\* sleepAdapterByPeer() and wakeUpAdapterByPeer().
LEMMA SleepByPeerKeeps ==
  ASSUME SwitchInv, NEW a \in Adapters, SleepAdapterByPeer(a) \/ WakeUpAdapterByPeer(a)
  PROVE  SwitchInv'
<1>1. /\ TypeOK /\ ThreadInv /\ Conserved /\ SleeperWaits /\ sender \in [Adapters -> SenderRecords]
      /\ adapter \in [Adapters -> AdapterRecords] /\ crashed \in BOOLEAN
  BY Types DEF SwitchInv
<1>2. UNCHANGED <<core, threads, receiver, segments, faults, spurious>>
  BY Zenon DEF SleepAdapterByPeer, WakeUpAdapterByPeer
<1>3. PICK code : Received(code, a)
  BY DEF SleepAdapterByPeer, WakeUpAdapterByPeer
<1>4. /\ switcher' = Handling \/ switcher' = [Handling EXCEPT !.state = "Switching"]
      /\ crashed' \in BOOLEAN
  BY <1>1 DEF SleepAdapterByPeer, WakeUpAdapterByPeer
<1>5. /\ \/ adapter' = adapter
         \/ adapter' = [adapter EXCEPT ![a].state = "GoingSleep"]
         \/ adapter' = [adapter EXCEPT ![a].state = "WakingUp"]
      /\ \/ sender' = sender
         \/ sender' = DequeueNotified([sender EXCEPT ![a].isSuspended = TRUE])
         \/ sender' = [sender EXCEPT ![a].isSuspended = FALSE]
  BY Zenon DEF SleepAdapterByPeer, WakeUpAdapterByPeer
<1>6. Passive /\ switcher' \in SwitcherRecords /\ server' \in ServerRecords
  BY <1>1, <1>2, <1>3, <1>4, HandledPassive
<1>7. /\ adapter' \in [Adapters -> AdapterRecords]
      /\ \A b \in Adapters : Kept(b) /\ (adapter'[b].state = adapter[b].state
                                         \/ adapter'[b].state \in {"GoingSleep", "WakingUp"})
  <2>1. CASE adapter' = adapter
    BY <1>1, <2>1 DEF Kept
  <2>2. ASSUME NEW x \in {"GoingSleep", "WakingUp"}, adapter' = [adapter EXCEPT ![a].state = x]
        PROVE  /\ adapter' \in [Adapters -> AdapterRecords] /\ adapter'[a].state = x
               /\ \A b \in Adapters : /\ adapter'[b].p2p = adapter[b].p2p
                                      /\ adapter'[b].device = adapter[b].device
                                      /\ adapter'[b].socket = adapter[b].socket
                                      /\ (b # a => adapter'[b] = adapter[b])
    <3>1. x \in States
      BY DEF States
    <3>. QED  BY <1>1, <2>2, <3>1, StateSet
  <2>. QED  BY <1>5, <2>1, <2>2 DEF Kept
<1>8. /\ sender' \in [Adapters -> SenderRecords]
      /\ \A b \in Adapters : sender'[b].pc = sender[b].pc
                             \/ (sender[b].pc = "waiting" /\ sender'[b].pc = "woken")
  <2>0. ASSUME NEW g, g = [sender EXCEPT ![a].isSuspended = TRUE]
                      \/ g = [sender EXCEPT ![a].isSuspended = FALSE]
        PROVE  g \in [Adapters -> SenderRecords] /\ \A b \in Adapters : g[b].pc = sender[b].pc
    BY <1>1, <2>0, SuspendedSet
  <2>. DEFINE on == [sender EXCEPT ![a].isSuspended = TRUE]
  <2>1. on \in [Adapters -> SenderRecords] /\ \A b \in Adapters : on[b].pc = sender[b].pc
    BY <2>0, Zenon
  <2>2. CASE sender' = [sender EXCEPT ![a].isSuspended = FALSE]
    BY <2>0, <2>2, Zenon
  <2>. HIDE DEF on
  <2>3. CASE sender' = DequeueNotified(on)
    BY <2>1, <2>3, NotifiedTyped
  <2>. QED  BY <1>1, <1>5, <2>2, <2>3 DEF on
<1>9. ThreadInv'
  BY <1>1, <1>2, <1>6, <1>7, IdleStep
<1>10. Conserved'
  <2>1. \A b \in Adapters : Holds(b)' <=> Holds(b)
    BY <1>8 DEF Holds
  <2>2. Held' = Held
    BY <2>1 DEF Held, Adapters
  <2>. QED  BY <1>1, <1>2, <2>2 DEF Conserved
<1>11. SleeperWaits'
  BY <1>1, <1>7, <1>8 DEF SleeperWaits
<1>12. TypeOK'
  BY <1>1, <1>2, <1>4, <1>6, <1>7, <1>8, Types, TypesNext, Zenon
<1>. QED  BY <1>9, <1>10, <1>11, <1>12 DEF SwitchInv

-----------------------------------------------------------------------------
(* The threads that connect and disconnect *)

\* A step of a thread at work.  Without disturbances it is the only one, and what it says of its
\* adapter when it goes on or ends is all that matters.
LEMMA BusyStep ==
  ASSUME TypeOK, ThreadInv, NEW t \in Threads, Busy(t), NEW r \in ThreadRecords,
         NEW d \in Adapters, d = threads[t].adapter, threads' = [threads EXCEPT ![t] = r],
         core'.calls = core.calls, core'.todo = core.todo,
         faults'.wifi \in Nat, faults'.wifi >= faults.wifi,
         faults'.wifi = 0 => r.pc # "late",
         r.pc \in {"waitSender", "finishPurpose", "stuck"} => r.listener = "none",
         Busy(t)' => /\ switcher' = switcher
                     /\ r.listener = threads[t].listener /\ r.adapter = d,
         \A b \in Adapters \ {d} : adapter'[b] = adapter[b],
         Undisturbed' => /\ ThreadSound(t)'
                         /\ ~Busy(t)' /\ adapter'[d].state = "Disconnected" => Released(d)'
  PROVE  ThreadInv'
<1>1. core.calls \in Nat /\ faults.wifi \in Nat /\ threads \in [Threads -> ThreadRecords]
  BY Types, ClientSwitchAssumption DEF CoreRecords, FaultRecords
<1>2. threads'[t] = r /\ \A u \in Threads \ {t} : threads'[u] = threads[u]
  BY <1>1
<1>3. Undisturbed' => Undisturbed
  BY <1>1 DEF Undisturbed
<1>4. core.calls # 0
  BY <1>1 DEF ThreadInv, OneThread, Busy
<1>5. Reported'
  BY <1>2 DEF ThreadInv, Reported
<1>6. Undisturbed' => \A u \in Threads : Busy(u)' => u = t
  <2>1. \A u \in Threads \ {t} : Busy(u)' => Busy(u)
    BY <1>2 DEF Busy
  <2>. QED  BY <1>3, <2>1 DEF ThreadInv, OneThread
<1>7. OneThread'
  <2>1. faults'.wifi = 0 => \A u \in Threads : threads'[u].pc # "late"
    BY <1>1, <1>2 DEF ThreadInv, OneThread
  <2>2. core'.calls < 2 => core'.todo = <<>>
    BY DEF ThreadInv, OneThread
  <2>3. ASSUME Undisturbed', NEW u \in Threads, Busy(u)'
        PROVE  /\ IF threads'[u].listener = "start" THEN switcher'.receiving = "off"
                  ELSE threads'[u].listener \in {"request", "peer"} /\ Switching'
               /\ \A v \in Threads : Busy(v)' => u = v
    BY <1>2, <1>3, <1>6, <2>3 DEF ThreadInv, OneThread, Switching
  <2>. QED  BY <1>4, <2>1, <2>2, <2>3 DEF OneThread
<1>8. ResourcesSound'
  <2>. SUFFICES ASSUME Undisturbed'
                PROVE  /\ \A u \in Threads : ThreadSound(u)'
                       /\ \A a \in Adapters :
                            (/\ adapter'[a].state = "Disconnected"
                             /\ \A u \in Threads : Busy(u)' => threads'[u].adapter # a)
                            => Released(a)'
    BY DEF ResourcesSound
  <2>1. \A u \in Threads : ThreadSound(u)'
    BY <1>6 DEF ThreadSound, Busy
  <2>2. ASSUME NEW a \in Adapters, adapter'[a].state = "Disconnected",
               \A u \in Threads : Busy(u)' => threads'[u].adapter # a
        PROVE  Released(a)'
    <3>1. CASE a = d
      <4>1. ~Busy(t)'
        BY <1>2, <2>2, <3>1
      <4>. QED  BY <2>2, <3>1, <4>1
    <3>2. CASE a # d
      <4>1. adapter'[a] = adapter[a] /\ \A u \in Threads : Busy(u) => threads[u].adapter # a
        BY <1>3, <3>2 DEF ThreadInv, OneThread
      <4>. QED  BY <1>3, <2>2, <4>1 DEF ThreadInv, ResourcesSound, Released
    <3>. QED  BY <3>1, <3>2
  <2>. QED  BY <2>1, <2>2
<1>. QED  BY <1>5, <1>7, <1>8 DEF ThreadInv

\* What a thread does to the senders: it starts, wakes up and notifies them, and takes no segment.
LEMMA ThreadStepKeeps ==
  ASSUME SwitchInv, TypeOK', ThreadInv', segments' = segments,
         \A b \in Adapters :
           /\ \/ sender'[b].pc = sender[b].pc
              \/ sender[b].pc = "waiting" /\ sender'[b].pc = "woken"
              \/ sender[b].pc = "suspended" /\ sender'[b].pc = "wakeup"
              \/ sender[b].pc = "new" /\ sender'[b].pc = "starting"
           /\ adapter'[b].state = "Sleeping" => adapter[b].state = "Sleeping"
  PROVE  SwitchInv'
<1>1. \A b \in Adapters : Holds(b)' <=> Holds(b)
  BY DEF Holds
<1>2. Held' = Held
  BY <1>1 DEF Held, Adapters
<1>3. Conserved'
  BY <1>2 DEF SwitchInv, Conserved
<1>4. SleeperWaits'
  BY DEF SwitchInv, SleeperWaits
<1>. QED  BY <1>3, <1>4 DEF SwitchInv

\* A thread goes to its next statement.
LEMMA GotoRecord ==
  ASSUME threads \in [Threads -> ThreadRecords], NEW t \in Threads, NEW p \in ThreadPcs, Goto(t, p)
  PROVE  /\ threads' \in [Threads -> ThreadRecords]
         /\ \E r \in ThreadRecords :
              /\ threads' = [threads EXCEPT ![t] = r]
              /\ r.pc = p /\ r.adapter = threads[t].adapter /\ r.listener = threads[t].listener
<1>. DEFINE r == [threads[t] EXCEPT !.pc = p]
<1>1. r \in ThreadRecords /\ r.pc = p /\ r.adapter = threads[t].adapter
      /\ r.listener = threads[t].listener
  BY DEF ThreadRecords
<1>2. threads' = [threads EXCEPT ![t] = r]
  BY DEF Goto
<1>. HIDE DEF r
<1>3. threads' \in [Threads -> ThreadRecords]
  BY <1>1, <1>2, Updated
<1>. QED  BY <1>1, <1>2, <1>3

\* What a thread at pc p has to know of the record q of its adapter.
Fits(p, q) ==
  /\ p = "connect" => q.socket = "Closed" /\ q.p2p = "Disconnected" /\ q.device = "Off"
  /\ p = "turnOn" => q.p2p = "Disconnected"
  /\ p = "open" => q.p2p = "Connected"
  /\ p \in {"turnOn", "p2pConnect", "wifi", "open", "p2pDisconnect"} => q.socket = "Closed"

\* What the steps of the threads do to the senders: they start, wake up and notify them.
SenderKept(b) ==
  \/ sender'[b].pc = sender[b].pc
  \/ sender[b].pc = "waiting" /\ sender'[b].pc = "woken"
  \/ sender[b].pc = "suspended" /\ sender'[b].pc = "wakeup"
  \/ sender[b].pc = "new" /\ sender'[b].pc = "starting"

\* What a step of a thread leaves alone or keeps in its type.
Around ==
  /\ crashed' \in BOOLEAN /\ faults' \in FaultRecords /\ spurious' \in 0..MaxEvents
  /\ core' \in CoreRecords /\ switcher' \in SwitcherRecords /\ server' \in ServerRecords
  /\ sender' \in [Adapters -> SenderRecords] /\ receiver' \in [Adapters -> ReceiverRecords]
  /\ segments' = segments /\ faults'.wifi >= faults.wifi
  /\ core'.calls = core.calls /\ core'.todo = core.todo
  /\ \A b \in Adapters : SenderKept(b)

\* A thread at work, with record r after the step, changes its adapter's record to q: it goes on,
\* or it reports and ends.
LEMMA ThreadMoves ==
  ASSUME SwitchInv, NEW t \in Threads, Busy(t), NEW d \in Adapters, d = threads[t].adapter,
         NEW r \in ThreadRecords, threads' = [threads EXCEPT ![t] = r], r.adapter = d \/ ~Busy(t)',
         NEW q \in AdapterRecords, adapter' = [adapter EXCEPT ![d] = q], Around,
         q.state = "Sleeping" => adapter[d].state = "Sleeping",
         faults'.wifi = 0 => r.pc # "late",
         r.pc \in {"waitSender", "finishPurpose", "stuck"} => r.listener = "none",
         Busy(t)' => switcher' = switcher /\ r.listener = threads[t].listener,
         Undisturbed' =>
           /\ Fits(r.pc, q)
           /\ ~Busy(t)' /\ q.state = "Disconnected" =>
                q.socket = "Closed" /\ q.p2p = "Disconnected" /\ q.device = "Off"
  PROVE  SwitchInv'
<1>1. /\ TypeOK /\ ThreadInv /\ segments \in SegmentRecords
      /\ threads \in [Threads -> ThreadRecords] /\ adapter \in [Adapters -> AdapterRecords]
  BY Types DEF SwitchInv
<1>2. threads' \in [Threads -> ThreadRecords] /\ threads'[t] = r
  BY <1>1, Updated
<1>3. /\ adapter' \in [Adapters -> AdapterRecords] /\ adapter'[d] = q
      /\ \A b \in Adapters \ {d} : adapter'[b] = adapter[b]
  BY <1>1, Updated
<1>4. TypeOK'
  BY <1>1, <1>2, <1>3, TypesNext, Zenon DEF Around
<1>5. Undisturbed' => /\ ThreadSound(t)'
                      /\ ~Busy(t)' /\ adapter'[d].state = "Disconnected" => Released(d)'
  <2>. SUFFICES ASSUME Undisturbed'
                PROVE  /\ ThreadSound(t)'
                       /\ ~Busy(t)' /\ adapter'[d].state = "Disconnected" => Released(d)'
    OBVIOUS
  <2>1. CASE Busy(t)'
    <3>1. threads'[t].adapter = d
      BY <1>2, <2>1
    <3>. QED  BY <1>2, <1>3, <2>1, <3>1 DEF ThreadSound, Released, Fits
  <2>2. CASE ~Busy(t)'
    <3>1. ThreadSound(t)'
      BY <2>2 DEF ThreadSound, Busy
    <3>2. adapter'[d].state = "Disconnected" => Released(d)'
      BY <1>3, <2>2 DEF Released
    <3>. QED  BY <3>1, <3>2
  <2>. QED  BY <2>1, <2>2
<1>6. faults'.wifi \in Nat /\ faults'.wifi >= faults.wifi
  BY ClientSwitchAssumption DEF Around, FaultRecords
<1>7. Busy(t)' => switcher' = switcher /\ r.listener = threads[t].listener /\ r.adapter = d
  OBVIOUS
<1>8. core'.calls = core.calls /\ core'.todo = core.todo
  BY DEF Around
<1>9. ThreadInv'
  BY <1>1, <1>3, <1>5, <1>6, <1>7, <1>8, BusyStep
<1>10. \A b \in Adapters : SenderKept(b) /\ (adapter'[b].state = "Sleeping"
                                            => adapter[b].state = "Sleeping")
  BY <1>3 DEF Around
<1>. QED  BY <1>4, <1>9, <1>10, ThreadStepKeeps DEF Around, SenderKept

\* A step that only moves the thread and changes its adapter.
LEMMA QuietAround ==
  ASSUME SwitchInv,
         UNCHANGED <<crashed, core, switcher, sender, receiver, segments, server, faults, spurious>>
  PROVE  Around
<1>1. /\ crashed \in BOOLEAN /\ faults \in FaultRecords /\ spurious \in 0..MaxEvents
      /\ core \in CoreRecords /\ switcher \in SwitcherRecords /\ server \in ServerRecords
      /\ sender \in [Adapters -> SenderRecords] /\ receiver \in [Adapters -> ReceiverRecords]
  BY Types DEF SwitchInv
<1>2. faults.wifi \in Nat
  BY <1>1, ClientSwitchAssumption DEF FaultRecords
<1>. QED  BY <1>1, <1>2 DEF Around, SenderKept

\* What a thread knows of its adapter.
LEMMA Known ==
  ASSUME SwitchInv, NEW t \in Threads, NEW d, d = threads[t].adapter, Undisturbed
  PROVE  Fits(threads[t].pc, adapter[d])
  BY DEF SwitchInv, ThreadInv, ResourcesSound, ThreadSound, Released, Fits

\* There were no disturbances before if there are none now.
LEMMA StillUndisturbed ==
  ASSUME SwitchInv, Around, Undisturbed'
  PROVE  Undisturbed
<1>1. faults.wifi \in Nat /\ faults'.wifi \in Nat
  BY Types, ClientSwitchAssumption DEF SwitchInv, Around, FaultRecords
<1>. QED  BY <1>1 DEF Around, Undisturbed

\* A thread at work goes on.
LEMMA GoesOn ==
  ASSUME SwitchInv, NEW t \in Threads, Busy(t), NEW d \in Adapters, d = threads[t].adapter,
         NEW p \in ThreadPcs \ {"none", "late", "waitSender", "finishPurpose", "stuck"}, Goto(t, p),
         NEW q \in AdapterRecords, adapter' = [adapter EXCEPT ![d] = q], Around, switcher' = switcher,
         q.state = "Sleeping" => adapter[d].state = "Sleeping",
         Undisturbed => Fits(p, q)
  PROVE  SwitchInv'
<1>1. threads \in [Threads -> ThreadRecords]
  BY Types DEF SwitchInv
<1>2. PICK r \in ThreadRecords :
        /\ threads' = [threads EXCEPT ![t] = r]
        /\ r.pc = p /\ r.adapter = threads[t].adapter /\ r.listener = threads[t].listener
  BY <1>1, GotoRecord
<1>3. threads'[t] = r
  BY <1>1, <1>2, Updated
<1>4. Busy(t)'
  BY <1>2, <1>3 DEF Busy
<1>5. r.pc \notin {"late", "waitSender", "finishPurpose", "stuck"} /\ r.adapter = d
  BY <1>2
<1>6. Undisturbed' => Fits(r.pc, q)
  BY <1>2, StillUndisturbed
<1>. QED  BY <1>2, <1>4, <1>5, <1>6, ThreadMoves

\* The adapter of a thread, and its record.
LEMMA OfThread ==
  ASSUME SwitchInv, NEW t \in Threads
  PROVE  /\ threads[t].adapter \in Adapters /\ threads[t] \in ThreadRecords
         /\ adapter \in [Adapters -> AdapterRecords]
         /\ adapter[threads[t].adapter] \in AdapterRecords
         /\ adapter = [adapter EXCEPT ![threads[t].adapter] = adapter[threads[t].adapter]]
<1>1. threads[t] \in ThreadRecords /\ adapter \in [Adapters -> AdapterRecords]
  BY Types DEF SwitchInv
<1>2. threads[t].adapter \in Adapters
  BY <1>1 DEF ThreadRecords
<1>. QED  BY <1>1, <1>2

\* ConnectThread.run().
LEMMA ConnectRunKeeps ==
  ASSUME SwitchInv, NEW t \in Threads, ConnectRun(t)
  PROVE  SwitchInv'
<1>. DEFINE d == threads[t].adapter
            q == [adapter[d] EXCEPT !.state = "Connecting", !.device = "TurningOn"]
<1>1. d \in Adapters /\ adapter[d] \in AdapterRecords /\ adapter \in [Adapters -> AdapterRecords]
  BY OfThread
<1>2. /\ q \in AdapterRecords /\ q.state = "Connecting" /\ q.p2p = adapter[d].p2p
      /\ q.socket = adapter[d].socket
  BY <1>1 DEF AdapterRecords, States
<1>3. Around /\ switcher' = switcher
  BY QuietAround DEF ConnectRun
<1>4. adapter' = [adapter EXCEPT ![d] = q] /\ Goto(t, "turnOn") /\ Busy(t)
  BY DEF ConnectRun, At, Busy
<1>5. Undisturbed => Fits("turnOn", q)
  <2>1. Undisturbed => Fits("connect", adapter[d])
    BY Known DEF ConnectRun, At
  <2>. QED  BY <1>2, <2>1 DEF Fits
<1>6. "turnOn" \in ThreadPcs \ {"none", "late", "waitSender", "finishPurpose", "stuck"}
  BY DEF ThreadPcs
<1>7. d = threads[t].adapter /\ (q.state = "Sleeping" => adapter[d].state = "Sleeping")
  BY <1>2
<1>. HIDE DEF d, q
<1>. QED  BY <1>1, <1>2, <1>3, <1>4, <1>5, <1>6, <1>7, GoesOn

\* waitForDisconnectingOnPurposePeer().
LEMMA WaitForPeerKeeps ==
  ASSUME SwitchInv, NEW t \in Threads, WaitForDisconnectingOnPurposePeer(t)
  PROVE  SwitchInv'
<1>. DEFINE d == threads[t].adapter
            q == adapter[d]
<1>1. d \in Adapters /\ q \in AdapterRecords /\ adapter = [adapter EXCEPT ![d] = q]
  BY OfThread
<1>2. Around /\ switcher' = switcher
  BY QuietAround DEF WaitForDisconnectingOnPurposePeer
<1>3. adapter' = adapter /\ Goto(t, "waitPeer") /\ Busy(t)
  BY DEF WaitForDisconnectingOnPurposePeer, At, Busy
<1>4. adapter' = [adapter EXCEPT ![d] = q]
  BY <1>1, <1>3, Zenon
<1>5. Fits("waitPeer", q)
  BY DEF Fits
<1>6. "waitPeer" \in ThreadPcs \ {"none", "late", "waitSender", "finishPurpose", "stuck"}
  BY DEF ThreadPcs
<1>7. d = threads[t].adapter /\ (q.state = "Sleeping" => adapter[d].state = "Sleeping")
  OBVIOUS
<1>. HIDE DEF d, q
<1>. QED  BY <1>1, <1>2, <1>3, <1>4, <1>5, <1>6, <1>7, GoesOn

\* A thread reports and ends, or waits for the end of the sender.
LEMMA Ends ==
  ASSUME SwitchInv, NEW t \in Threads, Busy(t), NEW d \in Adapters, d = threads[t].adapter,
         NEW r \in ThreadRecords, threads' = [threads EXCEPT ![t] = r],
         r.pc \in {"none", "late", "waitSender"}, r.pc = "waitSender" => r.listener = "none",
         NEW q \in AdapterRecords, adapter' = [adapter EXCEPT ![d] = q], q.state # "Sleeping",
         NEW b \in BOOLEAN, Report(threads[t].listener, b),
         UNCHANGED <<crashed, sender, receiver, segments, server, spurious>>,
         faults' \in FaultRecords, faults'.wifi >= faults.wifi, faults'.wifi = 0 => r.pc # "late",
         Undisturbed' /\ q.state = "Disconnected" =>
           q.socket = "Closed" /\ q.p2p = "Disconnected" /\ q.device = "Off"
  PROVE  SwitchInv'
<1>1. /\ TypeOK /\ core \in CoreRecords /\ switcher \in SwitcherRecords /\ threads[t] \in ThreadRecords
      /\ crashed \in BOOLEAN /\ spurious \in 0..MaxEvents /\ server \in ServerRecords
      /\ sender \in [Adapters -> SenderRecords] /\ receiver \in [Adapters -> ReceiverRecords]
      /\ threads \in [Threads -> ThreadRecords]
  BY Types DEF SwitchInv
<1>2. threads[t].listener \in Listeners
  BY <1>1 DEF ThreadRecords
<1>3. SameCalls(core, core') /\ switcher' \in SwitcherRecords
  BY <1>1, <1>2, ReportTyped DEF Report
<1>4. Around
  BY <1>1, <1>3 DEF Around, SameCalls, SenderKept
<1>5. threads'[t] = r
  BY <1>1, Updated
<1>6. ~Busy(t)'
  BY <1>5 DEF Busy
<1>7. Fits(r.pc, q) /\ (r.pc \in {"waitSender", "finishPurpose", "stuck"} => r.listener = "none")
  BY DEF Fits
<1>8. /\ q.state = "Sleeping" => adapter[d].state = "Sleeping"
      /\ Undisturbed' =>
           /\ Fits(r.pc, q)
           /\ ~Busy(t)' /\ q.state = "Disconnected" =>
                q.socket = "Closed" /\ q.p2p = "Disconnected" /\ q.device = "Off"
  BY <1>7
<1>. QED  BY <1>4, <1>6, <1>7, <1>8, ThreadMoves

\* ConnectThread.onFail(): the step that failed left the adapter's record q.
LEMMA ConnectFails ==
  ASSUME SwitchInv, NEW t \in Threads, Busy(t), NEW d \in Adapters, d = threads[t].adapter,
         NEW q \in AdapterRecords, NEW p \in {"none", "late"},
         ConnectFail(t, [adapter EXCEPT ![d] = q], p),
         UNCHANGED <<crashed, sender, receiver, segments, server, spurious>>,
         faults' \in FaultRecords, faults'.wifi >= faults.wifi, faults'.wifi = 0 => p # "late",
         Undisturbed' => q.socket = "Closed" /\ q.p2p = "Disconnected" /\ q.device = "Off"
  PROVE  SwitchInv'
<1>. DEFINE s == [q EXCEPT !.state = "Disconnected"]
            r == [NoThread EXCEPT !.pc = p, !.adapter = threads[t].adapter]
<1>1. /\ s \in AdapterRecords /\ s.state = "Disconnected" /\ s.socket = q.socket
      /\ s.p2p = q.p2p /\ s.device = q.device
  BY DEF AdapterRecords, States
<1>2. adapter \in [Adapters -> AdapterRecords]
  BY OfThread
<1>3. adapter' = [adapter EXCEPT ![d] = s]
  BY <1>2 DEF ConnectFail
<1>4. r \in ThreadRecords /\ r.pc = p /\ threads' = [threads EXCEPT ![t] = r]
  BY DEF ConnectFail, NoThread, ThreadRecords, ThreadPcs, States, Listeners
<1>5. Report(threads[t].listener, FALSE) /\ FALSE \in BOOLEAN
  BY DEF ConnectFail
<1>. HIDE DEF s, r
<1>6. /\ r.pc \in {"none", "late", "waitSender"} /\ (r.pc = "waitSender" => r.listener = "none")
      /\ faults'.wifi = 0 => r.pc # "late"
      /\ s.state # "Sleeping"
      /\ Undisturbed' /\ s.state = "Disconnected" =>
           s.socket = "Closed" /\ s.p2p = "Disconnected" /\ s.device = "Off"
  BY <1>1, <1>4
<1>. QED  BY <1>1, <1>3, <1>4, <1>5, <1>6, Ends

\* One field of the adapter's record is set, or two.
LEMMA P2PSet ==
  ASSUME NEW r \in AdapterRecords, NEW x \in {"Disconnected", "Connecting", "Connected"},
         NEW y \in {"Off", "TurningOn", "On"}
  PROVE  /\ [r EXCEPT !.p2p = x] \in AdapterRecords /\ [r EXCEPT !.p2p = x].p2p = x
         /\ [r EXCEPT !.p2p = x].socket = r.socket /\ [r EXCEPT !.p2p = x].state = r.state
         /\ [r EXCEPT !.p2p = x, !.device = y] \in AdapterRecords
         /\ [r EXCEPT !.p2p = x, !.device = y].p2p = x
         /\ [r EXCEPT !.p2p = x, !.device = y].device = y
         /\ [r EXCEPT !.p2p = x, !.device = y].socket = r.socket
         /\ [r EXCEPT !.p2p = x, !.device = y].state = r.state
  BY DEF AdapterRecords

\* ConnectThread.onTurnOnResult().
LEMMA TurnOnKeeps ==
  ASSUME SwitchInv, NEW t \in Threads, TurnOn(t)
  PROVE  SwitchInv'
<1>. DEFINE d == threads[t].adapter
            q(x) == [adapter[d] EXCEPT !.p2p = x, !.device = "On"]
<1>1. d \in Adapters /\ adapter[d] \in AdapterRecords /\ adapter \in [Adapters -> AdapterRecords]
  BY OfThread
<1>2. \A x \in {"Disconnected", "Connecting"} :
        /\ q(x) \in AdapterRecords /\ q(x).socket = adapter[d].socket
        /\ q(x).state = adapter[d].state
        /\ [[adapter EXCEPT ![d].device = "On"] EXCEPT ![d].p2p = x] = [adapter EXCEPT ![d] = q(x)]
  BY <1>1 DEF AdapterRecords
<1>3. /\ UNCHANGED <<crashed, sender, receiver, segments, server, faults, spurious>>
      /\ threads[t].pc = "turnOn"
  BY DEF TurnOn, At
<1>4. Busy(t) /\ faults \in FaultRecords /\ faults.wifi \in Nat
  BY <1>3, Types, ClientSwitchAssumption DEF Busy, SwitchInv, FaultRecords
<1>5. Undisturbed => Fits("turnOn", adapter[d])
  BY <1>3, Known
<1>6. Undisturbed /\ adapter[d].p2p # "Disconnected" => FALSE
  BY <1>5 DEF Fits
<1>7. CASE /\ adapter[d].p2p # "Disconnected"
           /\ ConnectFail(t, [[adapter EXCEPT ![d].device = "On"] EXCEPT ![d].p2p = "Disconnected"],
                          "none")
  <2>1. ConnectFail(t, [adapter EXCEPT ![d] = q("Disconnected")], "none")
    BY <1>2, <1>7, Zenon
  <2>2. core'.calls = core.calls
    <3>1. core \in CoreRecords /\ switcher \in SwitcherRecords /\ threads[t].listener \in Listeners
      BY Types DEF SwitchInv, ThreadRecords
    <3>. QED  BY <1>7, <3>1, ReportTyped DEF ConnectFail, Report, SameCalls
  <2>3. ~Undisturbed'
    BY <1>3, <1>6, <1>7, <2>2 DEF Undisturbed
  <2>4. q("Disconnected") \in AdapterRecords /\ d = threads[t].adapter
        /\ faults' \in FaultRecords /\ faults'.wifi >= faults.wifi
    BY <1>2, <1>3, <1>4
  <2>. HIDE DEF d, q
  <2>. QED  BY <1>1, <1>3, <1>4, <2>1, <2>3, <2>4, ConnectFails
<1>8. CASE /\ adapter' = [[adapter EXCEPT ![d].device = "On"] EXCEPT ![d].p2p = "Connecting"]
           /\ Goto(t, "p2pConnect") /\ UNCHANGED <<core, switcher>>
  <2>1. adapter' = [adapter EXCEPT ![d] = q("Connecting")]
    BY <1>2, <1>8, Zenon
  <2>2. Undisturbed => Fits("p2pConnect", q("Connecting"))
    BY <1>2, <1>5 DEF Fits
  <2>3. Around
    BY <1>3, <1>8, QuietAround
  <2>4. "p2pConnect" \in ThreadPcs \ {"none", "late", "waitSender", "finishPurpose", "stuck"}
    BY DEF ThreadPcs
  <2>5. q("Connecting") \in AdapterRecords /\ d = threads[t].adapter
        /\ (q("Connecting").state = "Sleeping" => adapter[d].state = "Sleeping")
    BY <1>2
  <2>6. Goto(t, "p2pConnect") /\ switcher' = switcher
    BY <1>8
  <2>. HIDE DEF d, q
  <2>. QED  BY <1>1, <1>4, <2>1, <2>2, <2>3, <2>4, <2>5, <2>6, GoesOn
<1>. QED  BY <1>7, <1>8 DEF TurnOn

\* WfdP2PClient.connectImpl(): connected at once, waiting for the network, or failed.
LEMMA P2PConnectKeeps ==
  ASSUME SwitchInv, NEW t \in Threads, P2PConnect(t)
  PROVE  SwitchInv'
<1>. DEFINE d == threads[t].adapter
            on == [adapter[d] EXCEPT !.p2p = "Connected"]
            off == [adapter[d] EXCEPT !.p2p = "Disconnected", !.device = "Off"]
<1>1. /\ d \in Adapters /\ adapter[d] \in AdapterRecords /\ adapter \in [Adapters -> AdapterRecords]
      /\ adapter = [adapter EXCEPT ![d] = adapter[d]] /\ d = threads[t].adapter
  BY OfThread
<1>2. /\ on \in AdapterRecords /\ on.p2p = "Connected" /\ on.socket = adapter[d].socket
      /\ on.state = adapter[d].state /\ off \in AdapterRecords
  BY <1>1, P2PSet
<1>3. /\ UNCHANGED <<crashed, sender, receiver, segments, server, spurious>>
      /\ threads[t].pc = "p2pConnect"
  BY DEF P2PConnect, At
<1>4. TypeOK /\ Busy(t) /\ faults \in FaultRecords /\ faults.wifi \in Nat
  BY <1>3, Types, ClientSwitchAssumption DEF Busy, SwitchInv, FaultRecords
<1>5. Undisturbed => Fits("p2pConnect", adapter[d])
  BY <1>3, Known
<1>6. "open" \in ThreadPcs \ {"none", "late", "waitSender", "finishPurpose", "stuck"}
      /\ "wifi" \in ThreadPcs \ {"none", "late", "waitSender", "finishPurpose", "stuck"}
  BY DEF ThreadPcs
<1>7. CASE /\ adapter' = [adapter EXCEPT ![d].p2p = "Connected"] /\ Goto(t, "open")
           /\ UNCHANGED <<core, switcher, faults>>
  <2>1. adapter' = [adapter EXCEPT ![d] = on]
    BY <1>7
  <2>2. Undisturbed => Fits("open", on)
    BY <1>2, <1>5 DEF Fits
  <2>3. Around /\ switcher' = switcher /\ Goto(t, "open")
    BY <1>3, <1>7, QuietAround
  <2>. HIDE DEF d, on
  <2>. QED  BY <1>1, <1>2, <1>4, <1>6, <2>1, <2>2, <2>3, GoesOn
<1>8. CASE Goto(t, "wifi") /\ UNCHANGED <<core, switcher, adapter, faults>>
  <2>1. adapter' = [adapter EXCEPT ![d] = adapter[d]]
    BY <1>1, <1>8, Zenon
  <2>2. Undisturbed => Fits("wifi", adapter[d])
    BY <1>5 DEF Fits
  <2>3. Around /\ switcher' = switcher /\ Goto(t, "wifi")
    BY <1>3, <1>8, QuietAround
  <2>. HIDE DEF d
  <2>. QED  BY <1>1, <1>4, <1>6, <2>1, <2>2, <2>3, GoesOn
<1>9. CASE /\ MayHappen /\ faults' = [faults EXCEPT !.wifi = @ + 1]
           /\ ConnectFail(t, [adapter EXCEPT ![d] = off], "late")
  <2>1. faults.wifi + 1 \in 0..MaxEvents
    BY <1>4, <1>9, Bounded
  <2>2. faults' \in FaultRecords /\ faults'.wifi = faults.wifi + 1
    BY <1>4, <1>9, <2>1 DEF FaultRecords
  <2>3. faults'.wifi >= faults.wifi /\ faults'.wifi # 0 /\ ~Undisturbed'
    BY <1>4, <2>2 DEF Undisturbed
  <2>4. ConnectFail(t, [adapter EXCEPT ![d] = off], "late")
    BY <1>9
  <2>. HIDE DEF d, off
  <2>. QED  BY <1>1, <1>2, <1>3, <1>4, <2>2, <2>3, <2>4, ConnectFails
<1>10. \/ /\ adapter' = [adapter EXCEPT ![d].p2p = "Connected"] /\ Goto(t, "open")
          /\ UNCHANGED <<core, switcher, faults>>
       \/ Goto(t, "wifi") /\ UNCHANGED <<core, switcher, adapter, faults>>
       \/ /\ MayHappen /\ faults' = [faults EXCEPT !.wifi = @ + 1]
          /\ ConnectFail(t, [adapter EXCEPT ![d] = off], "late")
  BY Zenon DEF P2PConnect
<1>. QED  BY <1>7, <1>8, <1>9, <1>10

\* The network is there: a waiting thread goes on, or one that has failed before comes back.
LEMMA WifiConnectedKeeps ==
  ASSUME SwitchInv, NEW t \in Threads, WifiConnected(t)
  PROVE  SwitchInv'
<1>. DEFINE d == threads[t].adapter
            on == [adapter[d] EXCEPT !.p2p = "Connected"]
<1>1. /\ d \in Adapters /\ adapter[d] \in AdapterRecords /\ adapter \in [Adapters -> AdapterRecords]
      /\ d = threads[t].adapter
  BY OfThread
<1>2. /\ on \in AdapterRecords /\ on.p2p = "Connected" /\ on.socket = adapter[d].socket
      /\ on.state = adapter[d].state
  BY <1>1, P2PSet
<1>3. Around /\ switcher' = switcher /\ Goto(t, "open") /\ adapter' = [adapter EXCEPT ![d] = on]
  BY QuietAround DEF WifiConnected
<1>4. "open" \in ThreadPcs \ {"none", "late", "waitSender", "finishPurpose", "stuck"}
  BY DEF ThreadPcs
<1>5. CASE threads[t].pc = "wifi"
  <2>1. Undisturbed => Fits("wifi", adapter[d])
    BY <1>5, Known
  <2>2. Undisturbed => Fits("open", on)
    BY <1>2, <2>1 DEF Fits
  <2>3. Busy(t)
    BY <1>5 DEF Busy
  <2>. HIDE DEF d, on
  <2>. QED  BY <1>1, <1>2, <1>3, <1>4, <2>2, <2>3, GoesOn
<1>6. CASE threads[t].pc = "late"
  <2>1. /\ TypeOK /\ ThreadInv /\ threads \in [Threads -> ThreadRecords]
        /\ UNCHANGED <<crashed, core, switcher, sender, receiver, segments, server, faults, spurious>>
    BY Types DEF SwitchInv, WifiConnected
  <2>2. /\ threads' \in [Threads -> ThreadRecords] /\ threads'[t].pc = "open"
        /\ \A u \in Threads \ {t} : threads'[u] = threads[u]
    <3>1. "open" \in ThreadPcs
      BY DEF ThreadPcs
    <3>2. threads' = [threads EXCEPT ![t].pc = "open"]
      BY <1>3 DEF Goto
    <3>. QED  BY <2>1, <3>1, <3>2 DEF ThreadRecords
  <2>3. core.calls # 0 /\ faults.wifi # 0
    BY <1>6, <2>1 DEF ThreadInv, OneThread
  <2>4. ~Undisturbed'
    BY <2>1, <2>3 DEF Undisturbed
  <2>5. Reported'
    BY <2>1, <2>2 DEF ThreadInv, Reported
  <2>6. OneThread' /\ ResourcesSound'
    BY <2>1, <2>3, <2>4 DEF ThreadInv, OneThread, ResourcesSound
  <2>7. /\ adapter' \in [Adapters -> AdapterRecords] /\ adapter'[d] = on
        /\ \A b \in Adapters \ {d} : adapter'[b] = adapter[b]
    <3>. HIDE DEF d, on
    <3>. QED  BY <1>1, <1>2, <1>3, Updated
  <2>8. TypeOK'
    BY <2>1, <2>2, <2>7, Types, TypesNext, Zenon
  <2>9. \A b \in Adapters : adapter'[b].state = adapter[b].state
    BY <1>2, <2>7
  <2>. QED  BY <2>1, <2>5, <2>6, <2>8, <2>9, ThreadStepKeeps DEF ThreadInv
<1>. QED  BY <1>5, <1>6 DEF WifiConnected, At

\* A failure of a socket is counted.
LEMMA SocketFault ==
  ASSUME TypeOK, MayHappen, faults' = [faults EXCEPT !.socket = @ + 1]
  PROVE  faults' \in FaultRecords /\ faults'.wifi = faults.wifi /\ faults.wifi \in Nat
<1>1. faults \in FaultRecords /\ faults.socket + 1 \in 0..MaxEvents
  BY Types, Bounded
<1>. QED  BY <1>1, ClientSwitchAssumption DEF FaultRecords

\* SocketOpenThread: the socket is opened, or everything is undone.
LEMMA OpenSocketKeeps ==
  ASSUME SwitchInv, NEW t \in Threads, OpenSocket(t)
  PROVE  SwitchInv'
<1>. DEFINE d == threads[t].adapter
            on == [adapter[d] EXCEPT !.socket = "Opened"]
            x == P2PDisconnected(adapter[d].p2p)
            off == [adapter[d] EXCEPT !.p2p = x, !.device = "Off"]
<1>1. /\ d \in Adapters /\ adapter[d] \in AdapterRecords /\ adapter \in [Adapters -> AdapterRecords]
      /\ d = threads[t].adapter
  BY OfThread
<1>2. on \in AdapterRecords /\ on.state = adapter[d].state
  BY <1>1 DEF AdapterRecords
<1>3. x \in {"Disconnected", "Connecting", "Connected"}
      /\ (adapter[d].p2p = "Connected" => x = "Disconnected")
  BY DEF P2PDisconnected
<1>4. /\ off \in AdapterRecords /\ off.p2p = x /\ off.socket = adapter[d].socket
      /\ off.device = "Off"
  <2>1. ASSUME NEW k \in AdapterRecords, NEW v \in {"Disconnected", "Connecting", "Connected"}
        PROVE  /\ [k EXCEPT !.p2p = v, !.device = "Off"] \in AdapterRecords
               /\ [k EXCEPT !.p2p = v, !.device = "Off"].p2p = v
               /\ [k EXCEPT !.p2p = v, !.device = "Off"].socket = k.socket
               /\ [k EXCEPT !.p2p = v, !.device = "Off"].device = "Off"
    BY DEF AdapterRecords
  <2>. HIDE DEF x, d
  <2>. DEFINE k == adapter[d]
  <2>2. k \in AdapterRecords
    BY <1>1
  <2>. HIDE DEF k
  <2>3. /\ [k EXCEPT !.p2p = x, !.device = "Off"] \in AdapterRecords
        /\ [k EXCEPT !.p2p = x, !.device = "Off"].p2p = x
        /\ [k EXCEPT !.p2p = x, !.device = "Off"].socket = k.socket
        /\ [k EXCEPT !.p2p = x, !.device = "Off"].device = "Off"
    BY <1>3, <2>1, <2>2
  <2>. QED  BY <2>3, Zenon DEF k
<1>5. /\ UNCHANGED <<crashed, sender, receiver, segments, spurious>>
      /\ threads[t].pc = "open"
  BY DEF OpenSocket, At
<1>6. TypeOK /\ Busy(t) /\ server \in ServerRecords /\ faults.wifi \in Nat
  BY <1>5, Types, ClientSwitchAssumption DEF Busy, SwitchInv, FaultRecords
<1>7. Undisturbed => Fits("open", adapter[d])
  BY <1>5, Known
<1>8. CASE /\ adapter' = [adapter EXCEPT ![d].socket = "Opened"]
           /\ server' = [server EXCEPT !.accepted = @ \cup {d}]
           /\ Goto(t, "launch") /\ UNCHANGED <<core, switcher, faults>>
  <2>1. adapter' = [adapter EXCEPT ![d] = on] /\ switcher' = switcher /\ Goto(t, "launch")
    BY <1>8
  <2>2. Fits("launch", on)
    BY DEF Fits
  <2>3. server' \in ServerRecords
    BY <1>1, <1>6, <1>8 DEF ServerRecords
  <2>4. Around
    <3>1. /\ crashed \in BOOLEAN /\ faults \in FaultRecords /\ spurious \in 0..MaxEvents
          /\ core \in CoreRecords /\ switcher \in SwitcherRecords
          /\ sender \in [Adapters -> SenderRecords] /\ receiver \in [Adapters -> ReceiverRecords]
      BY Types DEF SwitchInv
    <3>. QED  BY <1>5, <1>6, <1>8, <2>3, <3>1 DEF Around, SenderKept
  <2>5. "launch" \in ThreadPcs \ {"none", "late", "waitSender", "finishPurpose", "stuck"}
    BY DEF ThreadPcs
  <2>. HIDE DEF d, on
  <2>. QED  BY <1>1, <1>2, <1>6, <2>1, <2>2, <2>4, <2>5, GoesOn
<1>9. CASE /\ adapter[d].socket = "Closed" /\ MayHappen
           /\ faults' = [faults EXCEPT !.socket = @ + 1]
           /\ ConnectFail(t, [adapter EXCEPT ![d] = off], "none") /\ server' = server
  <2>1. faults' \in FaultRecords /\ faults'.wifi = faults.wifi
    BY <1>6, <1>9, SocketFault
  <2>2. core'.calls = core.calls
    <3>1. core \in CoreRecords /\ switcher \in SwitcherRecords /\ threads[t].listener \in Listeners
      BY Types DEF SwitchInv, ThreadRecords
    <3>. QED  BY <1>9, <3>1, ReportTyped DEF ConnectFail, Report, SameCalls
  <2>3. Undisturbed' => Undisturbed
    BY <2>1, <2>2 DEF Undisturbed
  <2>4. Undisturbed' => off.socket = "Closed" /\ off.p2p = "Disconnected" /\ off.device = "Off"
    BY <1>3, <1>4, <1>7, <1>9, <2>3 DEF Fits
  <2>5. ConnectFail(t, [adapter EXCEPT ![d] = off], "none") /\ server' = server
    BY <1>9
  <2>6. faults'.wifi >= faults.wifi
    BY <1>6, <2>1
  <2>. HIDE DEF d, x, off
  <2>. QED  BY <1>1, <1>4, <1>5, <1>6, <2>1, <2>4, <2>5, <2>6, ConnectFails
<1>10. \/ /\ adapter' = [adapter EXCEPT ![d].socket = "Opened"]
          /\ server' = [server EXCEPT !.accepted = @ \cup {d}]
          /\ Goto(t, "launch") /\ UNCHANGED <<core, switcher, faults>>
       \/ /\ adapter[d].socket = "Closed" /\ MayHappen
          /\ faults' = [faults EXCEPT !.socket = @ + 1]
          /\ ConnectFail(t, [adapter EXCEPT ![d] = [@ EXCEPT !.p2p = x, !.device = "Off"]], "none")
          /\ server' = server
  BY Zenon DEF OpenSocket
<1>11. [adapter EXCEPT ![d] = [@ EXCEPT !.p2p = x, !.device = "Off"]] = [adapter EXCEPT ![d] = off]
  OBVIOUS
<1>. QED  BY <1>8, <1>9, <1>10, <1>11

\* The threads of the adapter are started.
LEMMA LaunchThreadsKeeps ==
  ASSUME SwitchInv, NEW t \in Threads, LaunchThreads(t)
  PROVE  SwitchInv'
<1>. DEFINE d == threads[t].adapter
<1>1. /\ d \in Adapters /\ adapter[d] \in AdapterRecords
      /\ adapter = [adapter EXCEPT ![d] = adapter[d]] /\ d = threads[t].adapter
  BY OfThread
<1>2. /\ faults \in FaultRecords /\ spurious \in 0..MaxEvents /\ server \in ServerRecords
      /\ core \in CoreRecords /\ switcher \in SwitcherRecords
      /\ sender \in [Adapters -> SenderRecords] /\ receiver \in [Adapters -> ReceiverRecords]
  BY Types DEF SwitchInv
<1>3. UNCHANGED <<core, switcher, adapter, segments, server, faults, spurious>>
  BY DEF LaunchThreads
<1>4. Busy(t) /\ Goto(t, "active") /\ crashed' \in BOOLEAN
  BY DEF LaunchThreads, At, Busy
<1>5. /\ sender' \in [Adapters -> SenderRecords]
      /\ \A b \in Adapters : sender'[b].pc = sender[b].pc
                             \/ (sender[b].pc = "new" /\ sender'[b].pc = "starting")
  <2>1. CASE sender' = sender
    BY <1>2, <2>1
  <2>2. CASE sender[d].pc = "new" /\ sender' = [sender EXCEPT ![d].pc = "starting"]
    <3>1. "starting" \in SenderPcs
      BY DEF SenderPcs
    <3>2. /\ sender' \in [Adapters -> SenderRecords] /\ sender'[d].pc = "starting"
          /\ \A b \in Adapters \ {d} : sender'[b] = sender[b]
      <4>. HIDE DEF d
      <4>. QED  BY <1>1, <1>2, <2>2, <3>1, PcSet
    <3>. QED  BY <2>2, <3>2
  <2>. QED  BY <2>1, <2>2 DEF LaunchThreads
<1>6. receiver' \in [Adapters -> ReceiverRecords]
  <2>1. [pc |-> "loop", isOn |-> TRUE] \in ReceiverRecords
    BY DEF ReceiverRecords
  <2>2. receiver' = receiver \/ receiver' = [receiver EXCEPT ![d] = [pc |-> "loop", isOn |-> TRUE]]
    BY DEF LaunchThreads
  <2>3. CASE receiver' = [receiver EXCEPT ![d] = [pc |-> "loop", isOn |-> TRUE]]
    <3>. DEFINE y == [pc |-> "loop", isOn |-> TRUE]
    <3>1. y \in ReceiverRecords /\ receiver' = [receiver EXCEPT ![d] = y]
      BY <2>1, <2>3
    <3>. HIDE DEF y, d
    <3>. QED  BY <1>1, <1>2, <3>1, Updated
  <2>. QED  BY <1>2, <2>2, <2>3
<1>7. Around
  <2>1. faults.wifi \in Nat
    BY <1>2, ClientSwitchAssumption DEF FaultRecords
  <2>. QED  BY <1>2, <1>3, <1>4, <1>5, <1>6, <2>1 DEF Around, SenderKept
<1>8. adapter' = [adapter EXCEPT ![d] = adapter[d]] /\ switcher' = switcher
  BY <1>1, <1>3, Zenon
<1>9. Fits("active", adapter[d])
  BY DEF Fits
<1>10. "active" \in ThreadPcs \ {"none", "late", "waitSender", "finishPurpose", "stuck"}
  BY DEF ThreadPcs
<1>. HIDE DEF d
<1>. QED  BY <1>1, <1>4, <1>7, <1>8, <1>9, <1>10, GoesOn

\* The adapter is Active, and the listener is called.
LEMMA ConnectDoneKeeps ==
  ASSUME SwitchInv, NEW t \in Threads, ConnectDone(t)
  PROVE  SwitchInv'
<1>. DEFINE d == threads[t].adapter
            q == [adapter[d] EXCEPT !.state = "Active"]
<1>1. /\ d \in Adapters /\ adapter[d] \in AdapterRecords /\ d = threads[t].adapter
  BY OfThread
<1>2. q \in AdapterRecords /\ q.state = "Active"
  BY <1>1 DEF AdapterRecords, States
<1>3. /\ UNCHANGED <<crashed, sender, receiver, segments, server, faults, spurious>>
      /\ adapter' = [adapter EXCEPT ![d] = q] /\ threads' = [threads EXCEPT ![t] = NoThread]
      /\ Report(threads[t].listener, TRUE) /\ Busy(t)
  BY DEF ConnectDone, At, Busy
<1>4. NoThread \in ThreadRecords /\ NoThread.pc = "none"
  BY DEF NoThread, ThreadRecords, ThreadPcs, Listeners, States, Adapters
<1>5. faults' \in FaultRecords /\ faults'.wifi >= faults.wifi
  <2>1. faults \in FaultRecords
    BY Types DEF SwitchInv
  <2>. QED  BY <1>3, <2>1, ClientSwitchAssumption DEF FaultRecords
<1>6. TRUE \in BOOLEAN
  OBVIOUS
<1>. HIDE DEF d, q
<1>. QED  BY <1>1, <1>2, <1>3, <1>4, <1>5, <1>6, Ends

\* DisconnectThread.run().
LEMMA DisconnectRunKeeps ==
  ASSUME SwitchInv, NEW t \in Threads, DisconnectRun(t)
  PROVE  SwitchInv'
<1>. DEFINE d == threads[t].adapter
            q == [adapter[d] EXCEPT !.state = "Disconnecting"]
            p == IF adapter[d].onPurpose /\ ~adapter[d].onPurposePeer THEN "enterWait" ELSE "finish"
            x == adapter[d].state
            r == [threads[t] EXCEPT !.pc = p, !.old = x]
<1>1. /\ d \in Adapters /\ adapter[d] \in AdapterRecords /\ threads[t] \in ThreadRecords
      /\ d = threads[t].adapter
  BY OfThread
<1>2. q \in AdapterRecords /\ q.state = "Disconnecting" /\ x \in States
  BY <1>1 DEF AdapterRecords, States
<1>3. p \in {"enterWait", "finish"}
  OBVIOUS
<1>4. /\ r \in ThreadRecords /\ r.pc = p /\ r.adapter = threads[t].adapter
      /\ r.listener = threads[t].listener
  <2>. HIDE DEF p, x
  <2>. QED  BY <1>1, <1>2, <1>3 DEF ThreadRecords, ThreadPcs
<1>5. Around /\ switcher' = switcher
  BY QuietAround DEF DisconnectRun
<1>6. /\ adapter' = [adapter EXCEPT ![d] = q] /\ threads' = [threads EXCEPT ![t] = r] /\ Busy(t)
  BY Zenon DEF DisconnectRun, At, Busy
<1>7. Fits(r.pc, q) /\ r.pc \notin {"none", "late", "waitSender", "finishPurpose", "stuck"}
  <2>. HIDE DEF r, p, q
  <2>. QED  BY <1>3, <1>4 DEF Fits
<1>8. threads'[t] = r
  <2>1. threads \in [Threads -> ThreadRecords]
    BY Types DEF SwitchInv
  <2>. HIDE DEF r
  <2>. QED  BY <1>4, <1>6, <2>1, Updated
<1>9. Busy(t)'
  BY <1>7, <1>8, Zenon DEF Busy
<1>10. /\ q.state = "Sleeping" => adapter[d].state = "Sleeping"
       /\ r.adapter = d
  BY <1>2, <1>4, Zenon
<1>. HIDE DEF d, q, r, p, x
<1>. QED  BY <1>1, <1>2, <1>4, <1>5, <1>6, <1>7, <1>9, <1>10, ThreadMoves

\* finish() of the sender and the receiver, which wakes up sleeping senders.
LEMMA FinishThreadsKeeps ==
  ASSUME SwitchInv, NEW t \in Threads, FinishThreads(t)
  PROVE  SwitchInv'
<1>. DEFINE d == threads[t].adapter
            s == [sender[d] EXCEPT !.isOn = FALSE, !.isSuspended = FALSE]
            off == [sender EXCEPT ![d] = s]
<1>1. /\ d \in Adapters /\ adapter[d] \in AdapterRecords
      /\ adapter = [adapter EXCEPT ![d] = adapter[d]] /\ d = threads[t].adapter
  BY OfThread
<1>2. /\ faults \in FaultRecords /\ spurious \in 0..MaxEvents /\ server \in ServerRecords
      /\ core \in CoreRecords /\ switcher \in SwitcherRecords /\ crashed \in BOOLEAN
      /\ sender \in [Adapters -> SenderRecords] /\ receiver \in [Adapters -> ReceiverRecords]
  BY Types DEF SwitchInv
<1>3. UNCHANGED <<crashed, core, switcher, adapter, segments, server, faults, spurious>>
  BY DEF FinishThreads
<1>4. Busy(t) /\ Goto(t, "close")
  BY DEF FinishThreads, At, Busy
<1>5. s \in SenderRecords /\ s.pc = sender[d].pc
  <2>1. ASSUME NEW k \in SenderRecords, NEW y \in BOOLEAN, NEW z \in BOOLEAN
        PROVE  [k EXCEPT !.isOn = y, !.isSuspended = z] \in SenderRecords
               /\ [k EXCEPT !.isOn = y, !.isSuspended = z].pc = k.pc
    BY DEF SenderRecords
  <2>2. sender[d] \in SenderRecords
    BY <1>1, <1>2
  <2>. QED  BY <2>1, <2>2, Zenon
<1>6. off \in [Adapters -> SenderRecords] /\ \A b \in Adapters : off[b].pc = sender[b].pc
  <2>. HIDE DEF d, s
  <2>1. /\ off \in [Adapters -> SenderRecords] /\ off[d] = s
        /\ \A b \in Adapters \ {d} : off[b] = sender[b]
    BY <1>1, <1>2, <1>5, Updated
  <2>. QED  BY <1>5, <2>1
<1>7. \/ sender' = off
      \/ sender' = [b \in Adapters |-> IF off[b].pc = "suspended" /\ ~off[b].monitor
                                       THEN [off[b] EXCEPT !.pc = "wakeup"] ELSE off[b]]
  BY Zenon DEF FinishThreads
<1>. HIDE DEF off, s
<1>8. /\ sender' \in [Adapters -> SenderRecords]
      /\ \A b \in Adapters : sender'[b].pc = sender[b].pc
                             \/ (sender[b].pc = "suspended" /\ sender'[b].pc = "wakeup")
  <2>1. \A b \in Adapters : [off[b] EXCEPT !.pc = "wakeup"] \in SenderRecords
                            /\ [off[b] EXCEPT !.pc = "wakeup"].pc = "wakeup"
    BY <1>6 DEF SenderRecords, SenderPcs
  <2>. QED  BY <1>6, <1>7, <2>1
<1>9. receiver' \in [Adapters -> ReceiverRecords]
  <2>1. ASSUME NEW y \in BOOLEAN
        PROVE  [receiver EXCEPT ![d].isOn = y] \in [Adapters -> ReceiverRecords]
    BY <1>1, <1>2 DEF ReceiverRecords
  <2>2. receiver' = [receiver EXCEPT ![d].isOn = FALSE]
    BY DEF FinishThreads
  <2>. QED  BY <2>1, <2>2, Zenon
<1>10. Around
  <2>1. faults.wifi \in Nat
    BY <1>2, ClientSwitchAssumption DEF FaultRecords
  <2>. QED  BY <1>2, <1>3, <1>8, <1>9, <2>1 DEF Around, SenderKept
<1>11. adapter' = [adapter EXCEPT ![d] = adapter[d]] /\ switcher' = switcher
  BY <1>1, <1>3, Zenon
<1>12. Fits("close", adapter[d])
  BY DEF Fits
<1>13. "close" \in ThreadPcs \ {"none", "late", "waitSender", "finishPurpose", "stuck"}
  BY DEF ThreadPcs
<1>. HIDE DEF d
<1>. QED  BY <1>1, <1>4, <1>10, <1>11, <1>12, <1>13, GoesOn

\* wakeUpDequeueWaiting() and close(), which may fail.
LEMMA CloseSocketKeeps ==
  ASSUME SwitchInv, NEW t \in Threads, CloseSocket(t)
  PROVE  SwitchInv'
<1>. DEFINE d == threads[t].adapter
            q == [adapter[d] EXCEPT !.socket = "Closed"]
<1>1. d \in Adapters /\ adapter[d] \in AdapterRecords /\ d = threads[t].adapter
  BY OfThread
<1>2. q \in AdapterRecords /\ q.socket = "Closed" /\ q.state = adapter[d].state
  BY <1>1 DEF AdapterRecords
<1>3. /\ TypeOK /\ faults \in FaultRecords /\ spurious \in 0..MaxEvents /\ server \in ServerRecords
      /\ core \in CoreRecords /\ switcher \in SwitcherRecords /\ crashed \in BOOLEAN
      /\ sender \in [Adapters -> SenderRecords] /\ receiver \in [Adapters -> ReceiverRecords]
  BY Types DEF SwitchInv
<1>4. /\ UNCHANGED <<crashed, core, switcher, receiver, segments, server, spurious>>
      /\ adapter' = [adapter EXCEPT ![d] = q] /\ sender' = DequeueNotified(sender) /\ Busy(t)
  BY DEF CloseSocket, At, Busy
<1>5. /\ sender' \in [Adapters -> SenderRecords]
      /\ \A b \in Adapters : sender'[b].pc = sender[b].pc
                             \/ (sender[b].pc = "waiting" /\ sender'[b].pc = "woken")
  BY <1>3, <1>4, NotifiedTyped
<1>6. PICK p \in {"p2pDisconnect", "fail"} :
        /\ Goto(t, p)
        /\ faults' = faults \/ (MayHappen /\ faults' = [faults EXCEPT !.socket = @ + 1])
  BY Zenon DEF CloseSocket
<1>7. faults' \in FaultRecords /\ faults'.wifi = faults.wifi /\ faults.wifi \in Nat
  BY <1>3, <1>6, SocketFault, ClientSwitchAssumption DEF FaultRecords
<1>8. Around
  BY <1>3, <1>4, <1>5, <1>7 DEF Around, SenderKept
<1>9. Fits(p, q)
  BY <1>2 DEF Fits
<1>10. p \in ThreadPcs \ {"none", "late", "waitSender", "finishPurpose", "stuck"}
  BY DEF ThreadPcs
<1>11. switcher' = switcher /\ (q.state = "Sleeping" => adapter[d].state = "Sleeping")
  BY <1>2, <1>4
<1>. HIDE DEF d, q
<1>. QED  BY <1>1, <1>2, <1>4, <1>6, <1>8, <1>9, <1>10, <1>11, GoesOn

\* P2PClient.disconnect() succeeds, or refuses and the adapter is Active again.
LEMMA P2PDisconnectKeeps ==
  ASSUME SwitchInv, NEW t \in Threads, P2PDisconnect(t)
  PROVE  SwitchInv'
<1>. DEFINE d == threads[t].adapter
            done == P2PDisconnected(adapter[d].p2p) = "Disconnected"
            gone == [adapter[d] EXCEPT !.p2p = "Disconnected", !.device = "Off",
                                       !.state = "Disconnected"]
            back == [adapter[d] EXCEPT !.p2p = "Connected", !.state = "Active"]
            q == IF done THEN gone ELSE back
            r == [threads[t] EXCEPT !.pc = "waitSender", !.listener = "none"]
<1>1. /\ d \in Adapters /\ adapter[d] \in AdapterRecords /\ threads[t] \in ThreadRecords
      /\ d = threads[t].adapter
  BY OfThread
<1>2. /\ gone \in AdapterRecords /\ gone.p2p = "Disconnected" /\ gone.device = "Off"
      /\ gone.state = "Disconnected" /\ gone.socket = adapter[d].socket
  BY <1>1 DEF AdapterRecords, States
<1>3. back \in AdapterRecords /\ back.state = "Active"
  BY <1>1 DEF AdapterRecords, States
<1>4. r \in ThreadRecords /\ r.pc = "waitSender" /\ r.listener = "none"
  BY <1>1 DEF ThreadRecords, ThreadPcs, Listeners
<1>5. /\ UNCHANGED <<crashed, sender, receiver, segments, server, faults, spurious>>
      /\ threads' = [threads EXCEPT ![t] = r] /\ threads[t].pc = "p2pDisconnect"
  BY Zenon DEF P2PDisconnect, At
<1>6. adapter' = [adapter EXCEPT ![d] = q] /\ Report(threads[t].listener, done)
  BY Zenon DEF P2PDisconnect
<1>7. Busy(t)
  BY <1>5 DEF Busy
<1>8. /\ faults' \in FaultRecords /\ faults'.wifi >= faults.wifi /\ faults' = faults
      /\ core \in CoreRecords /\ switcher \in SwitcherRecords /\ threads[t].listener \in Listeners
  <2>1. /\ faults \in FaultRecords /\ core \in CoreRecords /\ switcher \in SwitcherRecords
    BY Types DEF SwitchInv
  <2>. QED  BY <1>1, <1>5, <2>1, ClientSwitchAssumption DEF FaultRecords, ThreadRecords
<1>9. done \in BOOLEAN
  OBVIOUS
<1>. HIDE DEF d, gone, back, r, done
<1>10. core'.calls = core.calls
  BY <1>6, <1>8, <1>9, ReportTyped DEF Report, SameCalls
<1>11. Undisturbed' => adapter[d].socket = "Closed"
  <2>1. Undisturbed' => Undisturbed
    BY <1>8, <1>10 DEF Undisturbed
  <2>2. Undisturbed => Fits("p2pDisconnect", adapter[d])
    BY <1>1, <1>5, Known
  <2>. QED  BY <2>1, <2>2 DEF Fits
<1>12. /\ q \in AdapterRecords /\ q.state # "Sleeping"
       /\ Undisturbed' /\ q.state = "Disconnected" =>
            q.socket = "Closed" /\ q.p2p = "Disconnected" /\ q.device = "Off"
  BY <1>2, <1>3, <1>11
<1>. HIDE DEF q
<1>. QED  BY <1>1, <1>4, <1>5, <1>6, <1>7, <1>8, <1>9, <1>12, Ends

\* waitUntilFinish(), after the report.
LEMMA WaitUntilFinishKeeps ==
  ASSUME SwitchInv, NEW t \in Threads, WaitUntilFinish(t)
  PROVE  SwitchInv'
<1>. DEFINE d == threads[t].adapter
<1>1. /\ TypeOK /\ ThreadInv /\ threads \in [Threads -> ThreadRecords] /\ d \in Adapters
      /\ sender \in [Adapters -> SenderRecords]
  BY OfThread, Types DEF SwitchInv
<1>2. UNCHANGED <<crashed, core, switcher, adapter, receiver, segments, server, faults, spurious>>
  BY DEF WaitUntilFinish
<1>3. PICK p \in {"stuck", "finishPurpose"} :
        /\ Goto(t, p) /\ threads[t].pc = "waitSender"
        /\ sender' = sender \/ sender' = [sender EXCEPT ![d].isWaiting = TRUE]
  BY Zenon DEF WaitUntilFinish, At
<1>4. p \in ThreadPcs
  BY DEF ThreadPcs
<1>5. PICK r \in ThreadRecords :
        /\ threads' = [threads EXCEPT ![t] = r]
        /\ r.pc = p /\ r.adapter = threads[t].adapter /\ r.listener = threads[t].listener
  BY <1>1, <1>3, <1>4, GotoRecord
<1>6. /\ threads' \in [Threads -> ThreadRecords] /\ threads'[t] = r
      /\ \A u \in Threads \ {t} : threads'[u] = threads[u]
  BY <1>1, <1>5, Updated
<1>7. sender' \in [Adapters -> SenderRecords] /\ \A b \in Adapters : sender'[b].pc = sender[b].pc
  <2>1. ASSUME NEW y \in BOOLEAN
        PROVE  /\ [sender EXCEPT ![d].isWaiting = y] \in [Adapters -> SenderRecords]
               /\ \A b \in Adapters : [sender EXCEPT ![d].isWaiting = y][b].pc = sender[b].pc
    BY <1>1 DEF SenderRecords
  <2>2. CASE sender' = [sender EXCEPT ![d].isWaiting = TRUE]
    BY <2>1, <2>2, Zenon
  <2>. QED  BY <1>1, <1>3, <2>2
<1>8. Ending(t)
  BY <1>3, <1>5, <1>6 DEF Ending, Busy
<1>9. Reported'
  BY <1>1, <1>3, <1>5, <1>6 DEF ThreadInv, Reported
<1>10. Passive
  BY <1>1, <1>2, PassiveStep
<1>11. \A b \in Adapters : Kept(b)
  BY <1>2 DEF Kept
<1>12. ThreadInv'
  BY <1>1, <1>6, <1>8, <1>9, <1>10, <1>11, QuietStep
<1>13. TypeOK'
  BY <1>1, <1>2, <1>6, <1>7, Types, TypesNext, Zenon
<1>. QED  BY <1>2, <1>7, <1>12, <1>13, ThreadStepKeeps

\* finishDisconnectingOnPurpose() and onFail() of the disconnection.
LEMMA FinishPurposeKeeps ==
  ASSUME SwitchInv, NEW t \in Threads, FinishDisconnectingOnPurpose(t)
  PROVE  SwitchInv'
<1>. DEFINE d == threads[t].adapter
            x == IF threads[t].pc = "fail" THEN "Active" ELSE adapter[d].state
            q == [adapter[d] EXCEPT !.onPurpose = FALSE, !.onPurposePeer = FALSE, !.state = x]
<1>1. /\ TypeOK /\ ThreadInv /\ threads \in [Threads -> ThreadRecords] /\ d \in Adapters
      /\ adapter[d] \in AdapterRecords /\ adapter \in [Adapters -> AdapterRecords]
      /\ core \in CoreRecords /\ switcher \in SwitcherRecords /\ d = threads[t].adapter
      /\ threads[t].listener \in Listeners
  <2>1. threads[t] \in ThreadRecords
    BY OfThread
  <2>2. threads[t].listener \in Listeners
    BY <2>1 DEF ThreadRecords
  <2>. QED  BY <2>2, OfThread, Types DEF SwitchInv
<1>2. x \in States
  BY <1>1 DEF AdapterRecords, States
<1>3. /\ q \in AdapterRecords /\ q.state = x /\ q.p2p = adapter[d].p2p
      /\ q.socket = adapter[d].socket /\ q.device = adapter[d].device
  <2>. DEFINE m(y, z) == [adapter[d] EXCEPT !.onPurpose = y, !.onPurposePeer = z, !.state = x]
  <2>1. ASSUME NEW y \in BOOLEAN, NEW z \in BOOLEAN
        PROVE  /\ m(y, z) \in AdapterRecords /\ m(y, z).state = x /\ m(y, z).p2p = adapter[d].p2p
               /\ m(y, z).socket = adapter[d].socket /\ m(y, z).device = adapter[d].device
    <3>. HIDE DEF x, d
    <3>. QED  BY <1>1, <1>2 DEF AdapterRecords
  <2>2. q = m(FALSE, FALSE)
    OBVIOUS
  <2>. HIDE DEF m, x, d, q
  <2>3. FALSE \in BOOLEAN
    OBVIOUS
  <2>. QED  BY <2>1, <2>2, <2>3, Zenon
<1>4. /\ UNCHANGED <<crashed, sender, receiver, segments, server, faults, spurious>>
      /\ threads[t].pc \in {"finishPurpose", "fail"}
      /\ threads' = [threads EXCEPT ![t] = NoThread]
      /\ Report(threads[t].listener, FALSE)
  BY DEF FinishDisconnectingOnPurpose, At
<1>5. adapter' = [adapter EXCEPT ![d] = q]
  BY Zenon DEF FinishDisconnectingOnPurpose, At
<1>6. NoThread \in ThreadRecords /\ NoThread.pc = "none"
  BY DEF NoThread, ThreadRecords, ThreadPcs, Listeners, States, Adapters
<1>7. faults' \in FaultRecords /\ faults'.wifi >= faults.wifi
  <2>1. faults \in FaultRecords
    BY <1>1, Types
  <2>. QED  BY <1>4, <2>1, ClientSwitchAssumption DEF FaultRecords
<1>8. FALSE \in BOOLEAN
  OBVIOUS
<1>9. CASE threads[t].pc = "fail"
  <2>1. Busy(t) /\ q.state = "Active"
    BY <1>3, <1>9 DEF Busy
  <2>. HIDE DEF d, x, q
  <2>. QED  BY <1>1, <1>3, <1>4, <1>5, <1>6, <1>7, <1>8, <2>1, Ends
<1>10. CASE threads[t].pc = "finishPurpose"
  <2>1. threads[t].listener = "none"
    BY <1>1, <1>10 DEF ThreadInv, Reported
  <2>2. core' = core /\ switcher' = switcher
    BY <1>1, <1>4, <1>8, <2>1, ReportTyped DEF Report
  <2>3. x = adapter[d].state
    BY <1>10
  <2>. HIDE DEF d, x, q
  <2>4. /\ adapter' \in [Adapters -> AdapterRecords] /\ adapter'[d] = q
        /\ \A b \in Adapters \ {d} : adapter'[b] = adapter[b]
    BY <1>1, <1>3, <1>5, Updated
  <2>5. \A b \in Adapters : Kept(b) /\ adapter'[b].state = adapter[b].state
    BY <1>3, <2>3, <2>4 DEF Kept
  <2>6. /\ threads' \in [Threads -> ThreadRecords] /\ threads'[t] = NoThread
        /\ \A u \in Threads \ {t} : threads'[u] = threads[u]
    BY <1>1, <1>4, <1>6, Updated
  <2>7. Ending(t)
    BY <1>6, <1>10, <2>6 DEF Ending, Busy
  <2>8. Reported'
    BY <1>1, <1>6, <2>6 DEF ThreadInv, Reported
  <2>9. Passive
    BY <1>1, <1>4, <2>2, PassiveStep
  <2>10. ThreadInv'
    BY <1>1, <2>5, <2>6, <2>7, <2>8, <2>9, QuietStep
  <2>11. TypeOK'
    BY <1>1, <1>4, <2>2, <2>4, <2>6, Types, TypesNext, Zenon
  <2>. QED  BY <1>4, <2>5, <2>10, <2>11, ThreadStepKeeps
<1>. QED  BY <1>4, <1>9, <1>10

-----------------------------------------------------------------------------
(* The invariant *)

\* The constructors of Core, NetworkSwitcher and ClientAdapter establish the invariant.
LEMMA InitKeeps == Init => SwitchInv
<1>. SUFFICES ASSUME Init PROVE SwitchInv
  OBVIOUS
<1>1. TypeOK
  <2>1. 0 \in 0..MaxEvents
    BY ClientSwitchAssumption
  <2>2. /\ crashed \in BOOLEAN /\ faults \in FaultRecords /\ spurious \in 0..MaxEvents
        /\ segments \in SegmentRecords
    BY <2>1 DEF Init, FaultRecords, SegmentRecords
  <2>3. core \in CoreRecords /\ switcher \in SwitcherRecords
    BY <2>1 DEF Init, CoreRecords, SwitcherRecords
  <2>4. adapter \in [Adapters -> AdapterRecords]
    BY DEF Init, AdapterRecords, States
  <2>5. threads \in [Threads -> ThreadRecords]
    <3>1. NoThread \in ThreadRecords
      BY DEF NoThread, ThreadRecords, ThreadPcs, Listeners, States, Adapters
    <3>. QED  BY <3>1 DEF Init
  <2>6. sender \in [Adapters -> SenderRecords] /\ receiver \in [Adapters -> ReceiverRecords]
    BY DEF Init, SenderRecords, SenderPcs, ReceiverRecords
  <2>7. server \in ServerRecords
    BY <2>1 DEF Init, ServerRecords
  <2>. QED  BY <2>2, <2>3, <2>4, <2>5, <2>6, <2>7, Types, Zenon
<1>2. Conserved
  BY DEF Init, Conserved, Held, Holds, Adapters
<1>3. SleeperWaits
  BY DEF Init, SleeperWaits
<1>4. \A t \in Threads : threads[t].pc = "none" /\ ~Busy(t)
  BY DEF Init, NoThread, Busy
<1>5. Reported /\ OneThread
  BY <1>4 DEF Init, Reported, OneThread
<1>6. ResourcesSound
  BY <1>4 DEF Init, ResourcesSound, ThreadSound, Released
<1>. QED  BY <1>1, <1>2, <1>3, <1>5, <1>6 DEF SwitchInv, ThreadInv

\* Every step of ConnectThread, SocketOpenThread and DisconnectThread keeps the invariant.
LEMMA ThreadKeeps ==
  ASSUME SwitchInv, NEW t \in Threads, ThreadStep(t) \/ WifiConnected(t)
  PROVE  SwitchInv'
<1>1. CASE \/ ConnectRun(t) \/ TurnOn(t) \/ P2PConnect(t) \/ OpenSocket(t) \/ LaunchThreads(t)
           \/ ConnectDone(t) \/ WifiConnected(t)
  BY <1>1, ConnectRunKeeps, TurnOnKeeps, P2PConnectKeeps, OpenSocketKeeps, LaunchThreadsKeeps,
     ConnectDoneKeeps, WifiConnectedKeeps, Zenon
<1>2. CASE \/ DisconnectRun(t) \/ WaitForDisconnectingOnPurposePeer(t) \/ FinishThreads(t)
           \/ CloseSocket(t) \/ P2PDisconnect(t) \/ WaitUntilFinish(t)
           \/ FinishDisconnectingOnPurpose(t)
  BY <1>2, DisconnectRunKeeps, WaitForPeerKeeps, FinishThreadsKeeps, CloseSocketKeeps,
     P2PDisconnectKeeps, WaitUntilFinishKeeps, FinishPurposeKeeps, Zenon
<1>. QED  BY <1>1, <1>2, Zenon DEF ThreadStep

\* Every step of senderThreadLoop() and receiverThreadLoop(), and every command, keeps it.
LEMMA AdapterKeeps ==
  ASSUME SwitchInv, NEW a \in Adapters,
         HandleMessage(a) \/ SenderStep(a) \/ SpuriousWakeup(a) \/ Receive(a) \/ ReadSegment(a)
  PROVE  SwitchInv'
<1>1. CASE HandleMessage(a)
  BY <1>1, PrivateKeeps, ConnectByPeerKeeps, DisconnectByPeerKeeps, AcknowledgeKeeps,
     SleepByPeerKeeps, Zenon
     DEF HandleMessage
<1>2. CASE SenderStep(a) \/ SpuriousWakeup(a)
  BY <1>2, SenderMoves, SenderSleeps, SenderTakes, SenderHas, SenderSends, Zenon DEF SenderStep
<1>3. CASE Receive(a) \/ ReadSegment(a)
  BY <1>3, ReceiverMoves, Zenon
<1>. QED  BY <1>1, <1>2, <1>3, Zenon

(***************************************************************************)
(* The invariant of the client: its segments are accounted for, an adapter *)
(* that is Sleeping has its sender in its wait, and, as long as the        *)
(* application has not called the core a second time and no Wi-Fi receiver *)
(* was left behind, a single thread works and knows what its adapter       *)
(* holds.                                                                  *)
(***************************************************************************)
THEOREM SwitchInvariant == Spec => []SwitchInv
<1>1. SwitchInv /\ [Next]_vars => SwitchInv'
  <2>. SUFFICES ASSUME SwitchInv, [Next]_vars
                PROVE  SwitchInv'
    OBVIOUS
  <2>1. CASE Start \/ Stop \/ StopNext \/ Send
    BY <2>1, StartKeeps, StopKeeps, StopNextKeeps, SendKeeps, Zenon
  <2>2. CASE EnterReceive
             \/ \E code \in {"connect", "sleep", "wakeup", "disconnect"}, a \in Adapters :
                  ServerCommand(code, a)
    <3>1. "sleep" \in {"connect", "sleep", "wakeup", "disconnect"} /\ Bt \in Adapters
      BY DEF Adapters
    <3>. QED  BY <2>2, <3>1, ServerKeeps, Zenon
  <2>3. CASE \E a \in Adapters : HandleMessage(a) \/ SenderStep(a) \/ SpuriousWakeup(a)
                                 \/ Receive(a) \/ ReadSegment(a)
    BY <2>3, AdapterKeeps, Zenon
  <2>4. CASE \E t \in Threads : ThreadStep(t) \/ WifiConnected(t)
    BY <2>4, ThreadKeeps, Zenon
  <2>5. CASE UNCHANGED vars
    <3>1. /\ TypeOK /\ ThreadInv /\ Conserved /\ SleeperWaits
      BY DEF SwitchInv
    <3>2. UNCHANGED <<crashed, core, switcher, adapter, threads, sender, receiver, segments, server,
                      faults, spurious>>
      BY <2>5 DEF vars
    <3>3. TypeOK'
      BY <3>1, <3>2, Types, TypesNext, Zenon
    <3>4. Conserved' /\ SleeperWaits'
      BY <3>1, <3>2 DEF Conserved, Held, Holds, SleeperWaits
    <3>5. ThreadInv'
      <4>1. Passive
        BY <3>1, <3>2, PassiveStep
      <4>2. \A a \in Adapters : Kept(a)
        BY <3>2 DEF Kept
      <4>. QED  BY <3>1, <3>2, <4>1, <4>2, IdleStep
    <3>. QED  BY <3>3, <3>4, <3>5 DEF SwitchInv
  <2>6. CASE \E a \in Adapters : ServerAcknowledges(a)
    BY <2>6, ServerAcknowledgesKeeps, Zenon
  <2>. QED  BY <2>1, <2>2, <2>3, <2>4, <2>5, <2>6, Zenon DEF Next
<1>. QED  BY <1>1, InitKeeps, PTL DEF Spec

(***************************************************************************)
(* NetworkSwitcher's state keeps the threads of an adapter apart: whatever *)
(* the server commands and whatever fails, an adapter is connected or      *)
(* disconnected by one thread at a time, unless the application stops the  *)
(* core meanwhile or a Wi-Fi receiver was left behind.                     *)
(***************************************************************************)
THEOREM OneThreadPerAdapter == Spec => []OnePerAdapter
<1>1. SwitchInv => OnePerAdapter
  <2>. SUFFICES ASSUME SwitchInv, Undisturbed, NEW a \in Adapters
                PROVE  Cardinality(Working(a)) <= 1
    BY DEF OnePerAdapter, Undisturbed
  <2>1. \A t, u \in Working(a) : t = u
    BY DEF SwitchInv, ThreadInv, OneThread, Working, Busy
  <2>2. CASE Working(a) = {}
    BY <2>2, FS_EmptySet
  <2>3. CASE Working(a) # {}
    <3>1. PICK t \in Working(a) : TRUE
      BY <2>3
    <3>2. Working(a) = {t}
      BY <2>1, <3>1
    <3>3. Cardinality({t}) = 1
      BY FS_Singleton
    <3>. QED  BY <3>2, <3>3
  <2>. QED  BY <2>2, <2>3
<1>. QED  BY <1>1, SwitchInvariant, PTL

(***************************************************************************)
(* A ClientAdapter that is Disconnected and at rest has given back its     *)
(* socket, its P2P connection and its device, whichever step of connecting *)
(* or disconnecting failed.                                                *)
(***************************************************************************)
THEOREM DisconnectedReleases == Spec => []DisconnectedIsReleased
<1>1. SwitchInv => DisconnectedIsReleased
  <2>. SUFFICES ASSUME SwitchInv, Undisturbed, NEW a \in Adapters,
                       adapter[a].state = "Disconnected", Working(a) = {}
                PROVE  Released(a)
    BY DEF DisconnectedIsReleased, Undisturbed, Released
  <2>1. \A t \in Threads : Busy(t) => threads[t].adapter # a
    BY DEF Working, Busy
  <2>. QED  BY <2>1 DEF SwitchInv, ThreadInv, ResourcesSound
<1>. QED  BY <1>1, SwitchInvariant, PTL

(***************************************************************************)
(* No segment of the application is lost or sent twice by the sender       *)
(* threads of the client, with any number of calls, commands and failures, *)
(* and a Sleeping adapter has none in its sender's hands.                  *)
(***************************************************************************)
THEOREM ClientConservesSegments == Spec => []SegmentsConserved
<1>1. SwitchInv => SegmentsConserved
  <2>. SUFFICES ASSUME SwitchInv PROVE SegmentsConserved
    OBVIOUS
  <2>. DEFINE holders == {a \in Adapters : sender[a].pc \in {"have", "send"}}
  <2>1. Cardinality(holders) = Held
    <3>1. CASE Holds(Bt) /\ Holds(Wfd)
      <4>1. holders = {Bt, Wfd}
        BY <3>1 DEF Holds, Adapters
      <4>2. Cardinality({Bt, Wfd}) = 2
        <5>1. IsFiniteSet({Bt}) /\ Cardinality({Bt}) = 1
          BY FS_Singleton
        <5>2. Cardinality({Bt} \cup {Wfd}) = Cardinality({Bt}) + 1
          <6>1. Wfd \notin {Bt}
            BY ClientSwitchAssumption
          <6>. QED  BY <5>1, <6>1, FS_AddElement, Zenon
        <5>3. {Bt} \cup {Wfd} = {Bt, Wfd}
          OBVIOUS
        <5>. QED  BY <5>1, <5>2, <5>3
      <4>. QED  BY <3>1, <4>1, <4>2 DEF Held
    <3>2. CASE Holds(Bt) /\ ~Holds(Wfd)
      <4>1. holders = {Bt}
        BY <3>2 DEF Holds, Adapters
      <4>2. Cardinality({Bt}) = 1
        BY FS_Singleton
      <4>3. Held = 1
        BY <3>2 DEF Held
      <4>. QED  BY <4>1, <4>2, <4>3
    <3>3. CASE ~Holds(Bt) /\ Holds(Wfd)
      <4>1. holders = {Wfd}
        BY <3>3 DEF Holds, Adapters
      <4>2. Cardinality({Wfd}) = 1
        BY FS_Singleton
      <4>3. Held = 1
        BY <3>3 DEF Held
      <4>. QED  BY <4>1, <4>2, <4>3
    <3>4. CASE ~Holds(Bt) /\ ~Holds(Wfd)
      <4>1. holders = {}
        BY <3>4 DEF Holds, Adapters
      <4>2. Cardinality({}) = 0
        BY FS_EmptySet
      <4>3. Held = 0
        BY <3>4 DEF Held
      <4>. QED  BY <4>1, <4>2, <4>3
    <3>. QED  BY <3>1, <3>2, <3>3, <3>4
  <2>2. \A a \in holders : adapter[a].state # "Sleeping"
    BY DEF SwitchInv, SleeperWaits
  <2>. QED  BY <2>1, <2>2 DEF SwitchInv, Conserved, SegmentsConserved
<1>. QED  BY <1>1, SwitchInvariant, PTL
=============================================================================
