---------------------------- MODULE NearestHeap ----------------------------
(***************************************************************************)
(* The bounded max-heap with which every search and prefill keeps its n    *)
(* nearest: push_heap until it has n entries, then replace the largest by  *)
(* a nearer one.  An entry is a pair <<distance, id>>; Before is the order *)
(* of the pairs, the distance first.  A heap is the set of its entries:    *)
(* only its largest has a fixed place, slot 0.                             *)
(***************************************************************************)
EXTENDS SequencesExt

CONSTANT Before(_, _)

TopEntry(h) == CHOOSE x \in h : \A y \in h : x = y \/ Before(y, x)

\* heap[0].first; with no entry that is what the memory held before.
HeapTop(h, old) == IF h = {} THEN old ELSE TopEntry(h)[1]

Offer(h, x, n) ==
  IF Cardinality(h) < n THEN h \cup {x}
  ELSE IF TopEntry(h)[1] > x[1] THEN (h \ {TopEntry(h)}) \cup {x}
  ELSE h

\* std::ranges::sort of distinct entries: an entry's place is the number before it.
SortedBy(S, Precedes(_, _)) ==
  [i \in 1 .. Cardinality(S) |-> CHOOSE x \in S : Cardinality({y \in S : Precedes(y, x)}) = i - 1]

Sorted(S) == SortedBy(S, Before)
=============================================================================
