---------------------------- MODULE PagedVectors ----------------------------
(***************************************************************************)
(* What both searches work on: the non-empty pages of a loaded database    *)
(* and the scan of one page into a worker's heap.  Vectors are integers, a *)
(* vector's id is its page and its place in the page.                      *)
(***************************************************************************)
EXTENDS PageBound, FiniteSets, SequencesExt

CONSTANTS
  K,                    \* k
  Probes,               \* values of n_pages_to_probe, 0 for all pages
  Pages,                \* the pages with vectors: sequences of vectors, anchor first
  Queries               \* query vectors

ASSUME PagedVectorsAssumption ==
  /\ K \in Nat \ {0} /\ Queries \subseteq Int
  /\ Pages # <<>> /\ Probes \subseteq 0 .. Len(Pages)
  /\ Pages \in Seq(Seq(Int) \ {<<>>})

NumPages == Len(Pages)

\* get_max_dist_at: the radius batch prefill stored with the page
MaxDist(p) == Max({SquaredL2(Pages[p][1], Pages[p][i]) : i \in DOMAIN Pages[p]})

\* std::pair's order on <<distance, page>> and on <<distance, id>>
PageBefore(x, y) == x[1] < y[1] \/ (x[1] = y[1] /\ x[2] < y[2])
Before(x, y) == x[1] < y[1] \/ (x[1] = y[1] /\ PageBefore(x[2], y[2]))

INSTANCE NearestHeap

AnchorDistance(q, p) == <<SquaredL2(q, Pages[p][1]), p>>

\* dist_to_anchor_buffer as it should be: every page, nearest anchor first
SortedPages == [q \in Queries |-> SortedBy({AnchorDistance(q, p) : p \in DOMAIN Pages}, PageBefore)]

\* A full heap's worst entry rules the page out.
RuledOut(h, entry) ==
  Cardinality(h) = K /\ PruneExact(entry[1], MaxDist(entry[2]), TopEntry(h)[1])

Member(q, p, i) == <<SquaredL2(q, Pages[p][i]), <<p, i>>>>

\* The heap after the anchor and the next members of the page, by their number.
OfferMembers(h, q, p) ==
  LET after[i \in 0 .. Len(Pages[p])] ==
        IF i = 0 THEN h ELSE Offer(after[i - 1], Member(q, p, i), K)
  IN after

\* One page of the buffer: skipped when the heap rules it out, otherwise the
\* anchor and all members are offered.
ScanPage(h, q, entry) ==
  IF RuledOut(h, entry) THEN h
  ELSE OfferMembers(h, q, entry[2])[Len(Pages[entry[2]])]

(***************************************************************************)
(* What a heap vouches for, for the proofs: that it has K entries no       *)
(* farther than d; that an entry offered to it, or ruled out by it, is in  *)
(* it or no nearer than its K entries.                                     *)
(***************************************************************************)
Entries == Nat \X (Nat \X Nat)
IsHeap(h) == h \subseteq Entries /\ IsFiniteSet(h) /\ Cardinality(h) <= K
Dominated(h, d) == Cardinality(h) = K /\ \A e \in h : e[1] <= d
Covers(h, x) == x \in h \/ Dominated(h, x[1])

(***************************************************************************)
(* The answer both searches are measured by: the vectors of the probed     *)
(* pages, nearest first.                                                   *)
(***************************************************************************)
NumProbed(n) == IF n = 0 THEN NumPages ELSE n
ProbedPages(q, n) == {SortedPages[q][i][2] : i \in 1 .. NumProbed(n)}
Candidates ==
  [q \in Queries |->
    [n \in Probes |->
      UNION {{Member(q, p, i) : i \in DOMAIN Pages[p]} : p \in ProbedPages(q, n)}]]
Nearest == [q \in Queries |-> [n \in Probes |-> Sorted(Candidates[q][n])]]
=============================================================================
