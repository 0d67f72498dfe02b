--------------------------- MODULE OrderedDelivery ---------------------------
(***************************************************************************)
(* What a pair of segment queues promises to the layer above: the segments *)
(* of each kind arrive in any order, and the messages they make up are     *)
(* delivered whole, in sequence order and exactly once.                    *)
(***************************************************************************)
EXTENDS Integers, Sequences

CONSTANTS
  Kinds,   \* independent streams
  Total,   \* [Kinds -> Nat]: segments sent in each stream
  Ends     \* [Kinds -> SUBSET Nat]: segments that end a message

VARIABLES
  arrived,    \* [Kinds -> SUBSET Nat]: segments that have arrived
  delivered   \* [Kinds -> Seq(Seq(Nat))]: messages delivered, oldest first

vars == <<arrived, delivered>>

\* The first segment after those of the messages in d.
NextSeq(d) ==
  IF d = <<>> THEN 0
  ELSE LET message == d[Len(d)] IN message[Len(message)] + 1

\* The message made of the segments first, ..., last.
Message(first, last) == [i \in 1..(last - first + 1) |-> first + i - 1]

Init ==
  /\ arrived = [k \in Kinds |-> {}]
  /\ delivered = [k \in Kinds |-> <<>>]

Arrive(k, n) ==
  /\ n \notin arrived[k]
  /\ arrived' = [arrived EXCEPT ![k] = @ \cup {n}]
  /\ UNCHANGED delivered

Deliver(k, last) ==
  LET first == NextSeq(delivered[k])
  IN  /\ last >= first
      /\ first..last \subseteq arrived[k]
      /\ first..last \cap Ends[k] = {last}
      /\ delivered' = [delivered EXCEPT ![k] = Append(@, Message(first, last))]
      /\ UNCHANGED arrived

Next ==
  \E k \in Kinds : \/ \E n \in 0..(Total[k] - 1) : Arrive(k, n)
                   \/ \E last \in Ends[k] : Deliver(k, last)

Spec == Init /\ [][Next]_vars
=============================================================================
