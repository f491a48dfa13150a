--------------------------- MODULE KnnSearchProofs ---------------------------
(***************************************************************************)
(* find_k_nearest is exact unless a worker published a bound it had no K   *)
(* vectors for, whatever the interleaving, the pages, K, the number of     *)
(* workers and the morsel size.                                            *)
(***************************************************************************)
EXTENDS KnnSearch, PagedVectorsProofs

-----------------------------------------------------------------------------
(***************************************************************************)
(* The sorted buffer.                                                      *)
(***************************************************************************)
FreshBuffer(q) == [p \in 1 .. NumPages |-> AnchorDistance(q, p)]

\* Sorting the slots is sorting the set of their entries: no two are equal.
LEMMA SortedFreshBuffer ==
  ASSUME NEW q \in Queries
  PROVE  SortedBuffer(FreshBuffer(q)) = SortedPages[q]
<1> DEFINE b == FreshBuffer(q)
           A == 1 .. NumPages
           S == AnchorDistances(q)
           R == PageOrder(S)
           SlotBefore(i, j) == PageBefore(b[i], b[j]) \/ (b[i] = b[j] /\ i < j)
           Q == {ij \in A \X A : SlotBefore(ij[1], ij[2])}
           slot(i) == CHOOSE k \in A : Cardinality({j \in A : SlotBefore(j, k)}) = i - 1
           page(i) == CHOOSE x \in S : Cardinality({y \in S : PageBefore(y, x)}) = i - 1
<1>0. NumPages \in Nat /\ DOMAIN Pages = A
  BY PagesTyped
<1>1. IsFiniteSet(A) /\ Cardinality(A) = NumPages
  BY <1>0, FS_Interval
<1>2. /\ S \in SUBSET (Nat \X Nat) /\ IsFiniteSet(S) /\ Cardinality(S) = NumPages
      /\ Orders(R, S) /\ \A x \in S : SetLessThan(x, R, S) = {y \in S : PageBefore(y, x)}
  BY AnchorDistancesFinite, SortedByPage
<1>3. \A i \in A : b[i] = AnchorDistance(q, i) /\ b[i][2] = i /\ b[i] \in Nat \X Nat
  BY <1>0, AnchorTyped DEF FreshBuffer
<1>4. DOMAIN b = A /\ b \in Bijection(A, S)
  <2>1. DOMAIN b = A /\ b \in [A -> S]
    BY <1>0 DEF FreshBuffer, AnchorDistances
  <2>2. \A y \in S : \E i \in A : b[i] = y
    BY <1>0, <1>3 DEF AnchorDistances
  <2> HIDE DEF b, S
  <2> QED BY <1>3, <2>1, <2>2 DEF Bijection, Injection, Surjection, IsInjective
<1>5. SortedPages[q] = [i \in A |-> page(i)]
  <2>1. SortedPages[q] = SortedBy(S, PageBefore)
    BY DEF SortedPages, AnchorDistances
  <2>2. SortedBy(S, PageBefore) = [i \in 1 .. Cardinality(S) |-> page(i)]
    BY DEF SortedBy
  <2> HIDE DEF page
  <2> QED BY <1>2, <2>1, <2>2
<1>6. SortedBuffer(b) = [i \in A |-> b[slot(i)]]
  <2> DEFINE slots == SortedBy(DOMAIN b, SlotBefore)
  <2>1. slots = [i \in 1 .. Cardinality(DOMAIN b) |-> CHOOSE k \in DOMAIN b : Cardinality({j \in DOMAIN b : SlotBefore(j, k)}) = i - 1]
    BY DEF SortedBy
  <2>2. slots = [i \in A |-> slot(i)]
    <3> HIDE DEF b, slots, A, SlotBefore
    <3>1. Cardinality(DOMAIN b) = NumPages /\ DOMAIN b = A
      BY <1>1, <1>4
    <3> QED BY <2>1, <3>1 DEF A
  <2>3. SortedBuffer(b) = [i \in DOMAIN b |-> b[slots[i]]]
    BY DEF SortedBuffer
  <2> HIDE DEF b, slots, slot
  <2> QED BY <1>4, <2>2, <2>3
<1>7. \A x, y \in A : <<x, y>> \in Q <=> SlotBefore(x, y)
  OBVIOUS
<1>8. \A x, y \in A : <<x, y>> \in Q <=> <<b[x], b[y]>> \in R
  <2> TAKE x, y \in A
  <2>1. b[x] = b[y] => x = y
    BY <1>3
  <2>2. SlotBefore(x, y) <=> PageBefore(b[x], b[y])
    BY <1>0, <2>1
  <2>3. b[x] \in S /\ b[y] \in S
    BY <1>0, <1>3 DEF AnchorDistances
  <2> HIDE DEF b, Q, SlotBefore, S
  <2> QED BY <1>7, <2>2, <2>3 DEF PageOrder
<1>9. ASSUME NEW i \in A
      PROVE  b[slot(i)] = page(i)
  <2>1. \A k \in A : SetLessThan(k, Q, A) = {j \in A : SlotBefore(j, k)}
    BY <1>7 DEF SetLessThan
  <2> HIDE DEF b, Q, SlotBefore, S, R, A
  <2>2. i \in 1 .. Cardinality(S)
    BY <1>2 DEF A
  <2>3. /\ \E a \in A : Cardinality(SetLessThan(a, Q, A)) = i - 1
        /\ \A a \in A, x \in S :
             /\ Cardinality(SetLessThan(a, Q, A)) = i - 1
             /\ Cardinality(SetLessThan(x, R, S)) = i - 1
             => b[a] = x
    BY <1>2, <1>4, <1>8, <2>2, RanksCarried
  <2>4. slot(i) \in A /\ Cardinality(SetLessThan(slot(i), Q, A)) = i - 1
    BY <2>1, <2>3
  <2>5. \E x \in S : Cardinality(SetLessThan(x, R, S)) = i - 1
    BY <1>2, <2>2, Rank
  <2>6. page(i) \in S /\ Cardinality(SetLessThan(page(i), R, S)) = i - 1
    BY <1>2, <2>5
  <2> QED BY <2>3, <2>4, <2>6
<1> HIDE DEF slot, page, b, A
<1> QED BY <1>5, <1>6, <1>9 DEF b

-----------------------------------------------------------------------------
(***************************************************************************)
(* The workers' outputs, concatenated and sorted.                          *)
(***************************************************************************)
Found == UNION {heap[t] : t \in Threads}

Apart == \A t, u \in Threads : \A x \in heap[t] : x \in heap[u] => t = u

LEMMA FoundTyped ==
  ASSUME TypeOK
  PROVE  /\ IsFiniteSet(Threads) /\ Threads \subseteq Nat
         /\ Found \in SUBSET Entries /\ IsFiniteSet(Found)
         /\ \A t \in Threads : IsHeap(heap[t]) /\ heap[t] \in SUBSET Found
<1>1. \A t \in Threads : IsHeap(heap[t]) /\ heap[t] \in SUBSET Found
  BY DEF TypeOK, Found
<1>2. Found \in SUBSET Entries
  BY <1>1 DEF Found, IsHeap
<1>3. n_threads \in Nat \ {0}
  BY DEF TypeOK
<1>4. IsFiniteSet(Threads) /\ Threads \subseteq Nat
  BY <1>3, FS_Interval DEF Threads
<1>5. IsFiniteSet({heap[t] : t \in Threads})
  <2> DEFINE H == {heap[t] : t \in Threads}
             f == [t \in Threads |-> heap[t]]
  <2>1. f \in Surjection(Threads, H)
    BY DEF Surjection
  <2> HIDE DEF f, H
  <2>2. IsFiniteSet(H)
    BY <1>4, <2>1, FS_Surjection
  <2> QED BY <2>2 DEF H
<1>6. IsFiniteSet(Found)
  <2>1. \A h \in {heap[t] : t \in Threads} : IsFiniteSet(h)
    BY <1>1 DEF IsHeap
  <2> QED BY <1>5, <2>1, FS_UNION DEF Found
<1> QED BY <1>1, <1>2, <1>4, <1>6

\* Sorting the outputs is sorting the union of the heaps: no entry is in two.
LEMMA SortedOutputs ==
  ASSUME TypeOK, Apart
  PROVE  LET found == SortedBy(Outputs, OutputBefore)
         IN /\ Len(found) = Cardinality(Found)
            /\ \A i \in 1 .. Cardinality(Found) : found[i][1] = Sorted(Found)[i]
<1> DEFINE A == Outputs
           S == Found
           R == EntryOrder(S)
           f == [o \in A |-> o[1]]
           Q == {xy \in A \X A : OutputBefore(xy[1], xy[2])}
           found == SortedBy(A, OutputBefore)
           output(i) == CHOOSE x \in A : Cardinality({y \in A : OutputBefore(y, x)}) = i - 1
<1>1. /\ S \in SUBSET Entries /\ IsFiniteSet(S) /\ Cardinality(S) \in Nat
      /\ Orders(R, S) /\ Lists(Sorted(S), S, R) /\ Threads \subseteq Nat
  BY FoundTyped, SortedByDistance, FS_CardinalityType
<1>3. \A o \in A : o = <<o[1], o[2]>> /\ o[2] \in Threads /\ o[1] \in heap[o[2]] /\ o[1] \in S
  BY DEF Outputs, Found
<1>4. \A x, y \in A : x[1] = y[1] => x = y
  BY <1>3 DEF Apart
<1>5. f \in Bijection(A, S)
  <2>1. f \in [A -> S]
    BY <1>3
  <2>2. ASSUME NEW x \in S PROVE \E o \in A : f[o] = x
    <3>1. PICK t \in Threads : x \in heap[t]
      BY DEF Found
    <3>2. <<x, t>> \in A
      BY <3>1 DEF Outputs
    <3> HIDE DEF A
    <3> QED BY <3>2
  <2>3. \A x, y \in A : f[x] = f[y] => x = y
    BY <1>4
  <2> HIDE DEF f, A, S
  <2> QED BY <2>1, <2>2, <2>3 DEF Bijection, Injection, Surjection, IsInjective
<1>6. IsFiniteSet(A) /\ Cardinality(A) = Cardinality(S)
  <2>1. ExistsBijection(A, S)
    BY <1>5 DEF ExistsBijection
  <2>2. ExistsBijection(S, A)
    BY <2>1, Fun_ExistsBijSymmetric
  <2> QED BY <1>1, <2>2, FS_Bijection
<1>7. \A x, y \in A : <<x, y>> \in Q <=> OutputBefore(x, y)
  OBVIOUS
<1>8. \A x, y \in A : <<x, y>> \in Q <=> <<f[x], f[y]>> \in R
  <2> TAKE x, y \in A
  <2>1. x[2] \in Nat /\ y[2] \in Nat /\ x[1] \in S /\ y[1] \in S /\ (x[1] = y[1] => x = y)
    BY <1>1, <1>3, <1>4
  <2>2. OutputBefore(x, y) <=> Before(x[1], y[1])
    BY <2>1 DEF OutputBefore
  <2>3. f[x] = x[1] /\ f[y] = y[1]
    OBVIOUS
  <2> HIDE DEF f, A, Q, S
  <2> QED BY <1>7, <2>1, <2>2, <2>3 DEF EntryOrder
<1>9. found = [i \in 1 .. Cardinality(A) |-> output(i)]
  BY DEF SortedBy
<1>10. ASSUME NEW i \in 1 .. Cardinality(S)
       PROVE  output(i)[1] = Sorted(S)[i]
  <2>1. \A k \in A : SetLessThan(k, Q, A) = {j \in A : OutputBefore(j, k)}
    BY <1>7 DEF SetLessThan
  <2>2. \A o \in A : f[o] = o[1]
    OBVIOUS
  <2> HIDE DEF f, Q, S, R, A
  <2>3. /\ \E a \in A : Cardinality(SetLessThan(a, Q, A)) = i - 1
        /\ \A a \in A, x \in S :
             /\ Cardinality(SetLessThan(a, Q, A)) = i - 1
             /\ Cardinality(SetLessThan(x, R, S)) = i - 1
             => f[a] = x
    BY <1>1, <1>5, <1>8, RanksCarried
  <2>4. output(i) \in A /\ Cardinality(SetLessThan(output(i), Q, A)) = i - 1
    BY <2>1, <2>3
  <2>5. Sorted(S)[i] \in S /\ Cardinality(SetLessThan(Sorted(S)[i], R, S)) = i - 1
    BY <1>1 DEF Lists
  <2> QED BY <2>2, <2>3, <2>4, <2>5
<1> HIDE DEF output, found, A, S
<1>11. Len(found) = Cardinality(S) /\ \A i \in 1 .. Cardinality(S) : found[i] = output(i)
  BY <1>1, <1>6, <1>9
<1> QED BY <1>10, <1>11 DEF found, S, A

-----------------------------------------------------------------------------
(***************************************************************************)
(* A morsel.                                                               *)
(***************************************************************************)
Scans == [heap : SUBSET Entries, n_p : Nat, scanned : SUBSET Nat]

LEMMA VisitPageTyped ==
  ASSUME query \in Queries, NEW s \in Scans, NEW entry, entry[2] \in DOMAIN Pages, NEW bound
  PROVE  VisitPage(s, entry, bound) \in Scans
<1>1. ScanPage(s.heap, query, entry) \in SUBSET Entries /\ entry[2] \in Nat
  BY ScanPageTyped, PagesTyped DEF Scans
<1>2. s.n_p + 1 \in Nat /\ s.scanned \cup {entry[2]} \in SUBSET Nat
  BY <1>1 DEF Scans
<1>3. [s EXCEPT !.n_p = s.n_p + 1] \in Scans
  BY <1>2 DEF Scans
<1>4. [s EXCEPT !.heap = ScanPage(s.heap, query, entry), !.scanned = s.scanned \cup {entry[2]}] \in Scans
  BY <1>1, <1>2 DEF Scans
<1> QED BY <1>3, <1>4 DEF VisitPage

LEMMA VisitPagesDef ==
  ASSUME query \in Queries, NEW h \in SUBSET Entries, NEW pages, Len(pages) \in Nat,
         \A i \in 1 .. Len(pages) : pages[i][2] \in DOMAIN Pages, NEW bound
  PROVE  /\ VisitPages(h, pages, bound)[0] = [heap |-> h, n_p |-> 0, scanned |-> {}]
         /\ \A i \in 1 .. Len(pages) :
              VisitPages(h, pages, bound)[i] = VisitPage(VisitPages(h, pages, bound)[i - 1], pages[i], bound)
<1> DEFINE n == Len(pages)
           a == [heap |-> h, n_p |-> 0, scanned |-> {}]
           next == [ix \in (1 .. n) \X Scans |-> VisitPage(ix[2], pages[ix[1]], bound)]
           IsDef(f) == f = [i \in 0 .. n |-> IF i = 0 THEN a ELSE VisitPage(f[i - 1], pages[i], bound)]
<1>1. n \in Nat /\ a \in Scans
  BY DEF Scans
<1>2. next \in [(1 .. n) \X Scans -> Scans]
  <2>1. \A i \in 1 .. n : \A s \in Scans : VisitPage(s, pages[i], bound) \in Scans
    BY VisitPageTyped
  <2> QED BY <2>1
<1>3. PICK f \in [0 .. n -> Scans] : IsRecursion(f, a, n, next)
  <2> HIDE DEF next, n, a
  <2> QED BY <1>1, <1>2, RecursionExists
<1>4. IsDef(f)
  <2>1. ASSUME NEW i \in 0 .. n, i # 0
        PROVE  next[<<i, f[i - 1]>>] = VisitPage(f[i - 1], pages[i], bound)
    <3>1. i \in 1 .. n /\ i - 1 \in 0 .. n
      BY <1>1, <2>1
    <3>2. f[i - 1] \in Scans
      BY <3>1
    <3> HIDE DEF n
    <3> QED BY <3>1, <3>2
  <2> HIDE DEF next, n, a
  <2> QED BY <1>3, <2>1 DEF IsRecursion
<1>5. VisitPages(h, pages, bound) = CHOOSE g : IsDef(g)
  BY DEF VisitPages
<1>6. IsDef(VisitPages(h, pages, bound))
  <2> HIDE DEF IsDef
  <2> QED BY <1>4, <1>5
<1> HIDE DEF a
<1>7. VisitPages(h, pages, bound)[0] = a
  BY <1>1, <1>6
<1>8. \A i \in 1 .. n : VisitPages(h, pages, bound)[i] = VisitPage(VisitPages(h, pages, bound)[i - 1], pages[i], bound)
  BY <1>1, <1>6
<1> QED BY <1>7, <1>8 DEF a

\* Entries of the buffer with different pages, none of which the heap holds.
NewPages(h, pages) ==
  /\ Len(pages) \in Nat
  /\ \A i \in 1 .. Len(pages) :
       /\ pages[i][2] \in DOMAIN Pages /\ pages[i] = AnchorDistance(query, pages[i][2])
       /\ \A x \in h : x[2][1] # pages[i][2]
       /\ \A j \in 1 .. Len(pages) : pages[i][2] = pages[j][2] => i = j

\* What becomes of the heap over the first i pages.
MorselDone(h, pages, bound, i, s) ==
  /\ s \in Scans
  /\ IsHeap(s.heap) /\ Keeps(h, s.heap)
  /\ \A x \in s.heap : x \in h \/ \E j \in 1 .. i : x \in Members(query, pages[j][2])
  /\ \A j \in 1 .. i : \A x \in Members(query, pages[j][2]) :
       Covers(s.heap, x) \/ (x[1] > bound /\ bound # Infinity)
  /\ s.scanned \subseteq {pages[j][2] : j \in 1 .. i}
  /\ IsFiniteSet(s.scanned) /\ s.n_p + Cardinality(s.scanned) = i

LEMMA VisitPageKeeps ==
  ASSUME query \in Queries, NEW h, IsHeap(h), NEW pages, NewPages(h, pages),
         NEW bound \in Nat, NEW i \in 1 .. Len(pages), NEW s, MorselDone(h, pages, bound, i - 1, s),
         NEW next, next = VisitPage(s, pages[i], bound)
  PROVE  MorselDone(h, pages, bound, i, next)
<1> DEFINE p == pages[i][2]
<1>0. i \in Nat \ {0} /\ i - 1 \in Nat /\ 1 .. i = (1 .. i - 1) \cup {i} /\ i \notin 1 .. i - 1
  BY DEF NewPages
<1>1. p \in DOMAIN Pages /\ pages[i] = AnchorDistance(query, p) /\ pages[i][1] = SquaredL2(query, Pages[p][1])
  BY AnchorTyped DEF NewPages
<1>2. \A x \in Members(query, p) : x \in Entries /\ x[2][1] = p /\ x[1] \in Nat
  <2>1. \A j \in DOMAIN Pages[p] : Member(query, p, j) \in Entries /\ Member(query, p, j)[2] = <<p, j>>
                                   /\ Member(query, p, j)[1] \in Nat
    BY <1>1, MemberTyped
  <2> QED BY <2>1 DEF Members
<1>3. \A x \in s.heap : x[2][1] # p
  <2> SUFFICES ASSUME NEW x \in s.heap, x[2][1] = p PROVE FALSE
    OBVIOUS
  <2>1. x \notin h
    BY DEF NewPages
  <2>2. PICK j \in 1 .. i - 1 : x \in Members(query, pages[j][2])
    BY <2>1 DEF MorselDone
  <2>3. j \in 1 .. Len(pages) /\ j # i
    BY <1>0 DEF NewPages
  <2>4. x[2][1] = pages[j][2]
    <3>1. pages[j][2] \in DOMAIN Pages
      BY <2>3 DEF NewPages
    <3>2. \A k \in DOMAIN Pages[pages[j][2]] : Member(query, pages[j][2], k)[2] = <<pages[j][2], k>>
      BY <3>1, MemberTyped
    <3> QED BY <2>2, <3>2 DEF Members
  <2> QED BY <2>3, <2>4 DEF NewPages
<1>4. s \in Scans /\ s.n_p \in Nat /\ Cardinality(s.scanned) \in Nat
  BY FS_CardinalityType DEF MorselDone, Scans
<1>5. next \in Scans
  BY <1>1, <1>4, VisitPageTyped
<1>6. CASE PruneExact(pages[i][1], MaxDist(p), bound) \/ RuledOut(s.heap, pages[i])
  <2>1. next = [s EXCEPT !.n_p = s.n_p + 1]
    BY <1>6 DEF VisitPage
  <2>2. next.heap = s.heap /\ next.n_p = s.n_p + 1 /\ next.scanned = s.scanned
    BY <1>4, <2>1 DEF Scans
  <2>3. \A x \in Members(query, p) : Covers(next.heap, x) \/ (x[1] > bound /\ bound # Infinity)
    <3>1. CASE PruneExact(pages[i][1], MaxDist(p), bound)
      <4>1. \A x \in Members(query, p) : x[1] > bound
        BY <1>1, <3>1, PrunedIsFarther DEF Members
      <4>2. bound # Infinity
        <5>1. pages[i][1] + MaxDist(p) > bound
          BY <3>1 DEF PruneExact
        <5>2. pages[i][1] + MaxDist(p) < Infinity
          BY <1>1, KnnSearchAssumption
        <5>3. pages[i][1] + MaxDist(p) \in Int
          BY <1>1, MaxDistFacts, FirstVector, MemberTyped
        <5> QED BY <5>1, <5>2, <5>3, KnnSearchAssumption
      <4> QED BY <4>1, <4>2
    <3>2. CASE RuledOut(s.heap, pages[i])
      <4>1. IsHeap(s.heap)
        BY DEF MorselDone
      <4>2. \A k \in DOMAIN Pages[p] : Covers(s.heap, Member(query, p, k))
        BY <1>1, <3>2, <4>1, RuledOutIsCovered
      <4> QED BY <2>2, <4>2 DEF Members
    <3> QED BY <1>6, <3>1, <3>2
  <2>4. next.n_p + Cardinality(next.scanned) = i
    BY <1>0, <1>4, <2>2 DEF MorselDone
  <2> QED BY <1>0, <1>5, <2>2, <2>3, <2>4 DEF MorselDone
<1>7. CASE ~(PruneExact(pages[i][1], MaxDist(p), bound) \/ RuledOut(s.heap, pages[i]))
  <2> DEFINE g == ScanPage(s.heap, query, pages[i])
  <2>1. next = [s EXCEPT !.heap = g, !.scanned = s.scanned \cup {p}]
    BY <1>7 DEF VisitPage
  <2>2. /\ IsHeap(g) /\ g \subseteq s.heap \cup Members(query, p)
        /\ Keeps(s.heap, g) /\ \A x \in Members(query, p) : Covers(g, x)
    BY <1>1, <1>3, ScanPageKeeps DEF MorselDone
  <2> HIDE DEF g
  <2>3. next.heap = g /\ next.n_p = s.n_p /\ next.scanned = s.scanned \cup {p}
    BY <1>4, <2>1 DEF Scans
  <2>4. p \notin s.scanned
    <3>1. \A j \in 1 .. i - 1 : pages[j][2] # p
      BY <1>0 DEF NewPages
    <3> QED BY <3>1 DEF MorselDone
  <2>5. IsFiniteSet(next.scanned) /\ next.n_p + Cardinality(next.scanned) = i
    <3>1. IsFiniteSet(next.scanned) /\ Cardinality(next.scanned) = Cardinality(s.scanned) + 1
      <4> DEFINE old == s.scanned
      <4>1. IsFiniteSet(old) /\ p \notin old /\ next.scanned = old \cup {p}
        BY <2>3, <2>4 DEF MorselDone
      <4> HIDE DEF old, p
      <4>2. IsFiniteSet(old \cup {p}) /\ Cardinality(old \cup {p}) = Cardinality(old) + 1
        BY <4>1, FS_AddElement
      <4> QED BY <4>1, <4>2 DEF old
    <3>2. s.n_p \in Nat /\ Cardinality(s.scanned) \in Nat /\ s.n_p + Cardinality(s.scanned) = i - 1
      BY <1>0, FS_CardinalityType DEF MorselDone, Scans
    <3> QED BY <2>3, <3>1, <3>2
  <2>6. \A j \in 1 .. i : \A x \in Members(query, pages[j][2]) :
          Covers(g, x) \/ (x[1] > bound /\ bound # Infinity)
    <3> SUFFICES ASSUME NEW j \in 1 .. i - 1, NEW x \in Members(query, pages[j][2]), Covers(s.heap, x)
                 PROVE  Covers(g, x)
      BY <1>0, <2>2 DEF MorselDone
    <3>1. pages[j][2] \in DOMAIN Pages
      BY <1>0 DEF NewPages
    <3>2. x \in Entries
      BY <3>1, MemberTyped DEF Members
    <3> QED BY <2>2, <3>2 DEF Keeps
  <2>7. Keeps(h, g)
    BY <2>2 DEF Keeps, MorselDone
  <2>8. \A x \in g : x \in h \/ \E j \in 1 .. i : x \in Members(query, pages[j][2])
    BY <1>0, <2>2 DEF MorselDone
  <2>9. next.scanned \subseteq {pages[j][2] : j \in 1 .. i}
    BY <1>0, <2>3 DEF MorselDone
  <2> QED BY <1>5, <2>2, <2>3, <2>5, <2>6, <2>7, <2>8, <2>9 DEF MorselDone
<1> QED BY <1>6, <1>7

\* Over a whole morsel.
LEMMA VisitPagesKeep ==
  ASSUME query \in Queries, NEW h, IsHeap(h), NEW pages, NewPages(h, pages),
         NEW bound \in Nat, NEW n \in 0 .. Len(pages)
  PROVE  MorselDone(h, pages, bound, n, VisitPages(h, pages, bound)[n])
<1> DEFINE after(i) == VisitPages(h, pages, bound)[i]
           Good(i) == MorselDone(h, pages, bound, i, after(i))
           Bad == {i \in 0 .. Len(pages) : ~Good(i)}
<1>0. Len(pages) \in Nat /\ h \in SUBSET Entries /\ \A i \in 1 .. Len(pages) : pages[i][2] \in DOMAIN Pages
  BY DEF NewPages, IsHeap
<1>1. /\ after(0) = [heap |-> h, n_p |-> 0, scanned |-> {}]
      /\ \A i \in 1 .. Len(pages) : after(i) = VisitPage(after(i - 1), pages[i], bound)
  <2> HIDE DEF after
  <2> QED BY <1>0, VisitPagesDef DEF after
<1>2. Good(0)
  <2> HIDE DEF after
  <2>1. after(0).heap = h /\ after(0).n_p = 0 /\ after(0).scanned = {} /\ after(0) \in Scans
    BY <1>0, <1>1 DEF Scans
  <2>2. IsFiniteSet({}) /\ Cardinality({}) = 0
    BY FS_EmptySet
  <2>3. 1 .. 0 = {}
    OBVIOUS
  <2> DEFINE s == after(0)
  <2> HIDE DEF s
  <2>4. MorselDone(h, pages, bound, 0, s)
    <3>1. s.heap = h /\ s.n_p = 0 /\ s.scanned = {} /\ s \in Scans
      BY <2>1 DEF s
    <3>2. Cardinality(s.scanned) = 0
      BY <2>2, <3>1
    <3>3. s.n_p + Cardinality(s.scanned) = 0
      BY <3>1, <3>2
    <3> QED BY <2>2, <2>3, <3>1, <3>3 DEF MorselDone, Keeps
  <2> QED BY <2>4 DEF s
<1>3. ASSUME NEW i \in 1 .. Len(pages), Good(i - 1)
      PROVE  Good(i)
  <2> HIDE DEF after
  <2>1. after(i) = VisitPage(after(i - 1), pages[i], bound)
    BY <1>1
  <2> QED BY <1>3, <2>1, VisitPageKeeps
<1>4. Bad = {}
  <2> SUFFICES ASSUME NEW k \in Bad PROVE FALSE
    OBVIOUS
  <2>1. PICK i \in Bad : \A j \in Bad : i <= j
    <3>1. Bad \in SUBSET Nat
      BY <1>0
    <3> HIDE DEF Bad
    <3> QED BY <3>1, Least
  <2>2. i \in 0 .. Len(pages) /\ ~Good(i)
    OBVIOUS
  <2> HIDE DEF Good
  <2>3. i # 0
    BY <1>2, <2>2
  <2>4. i \in 1 .. Len(pages) /\ i - 1 \in 0 .. Len(pages) /\ ~(i <= i - 1)
    BY <1>0, <2>2, <2>3
  <2>5. Good(i - 1)
    BY <2>1, <2>4
  <2> QED BY <1>3, <2>2, <2>4, <2>5
<1> QED BY <1>4

-----------------------------------------------------------------------------
(***************************************************************************)
(* Places of the buffer and counts.                                        *)
(***************************************************************************)
SkipsOf(T, f) == UNION {{t} \X (1 .. f[t]) : t \in T}

\* One worker's count changes.
LEMMA SkipsChange ==
  ASSUME NEW T, IsFiniteSet(T), NEW f \in [T -> Nat], NEW g \in [T -> Nat], NEW t \in T,
         \A u \in T \ {t} : g[u] = f[u]
  PROVE  /\ Cardinality(SkipsOf(T, f)) \in Nat /\ Cardinality(SkipsOf(T, g)) \in Nat
         /\ Cardinality(SkipsOf(T, g)) = Cardinality(SkipsOf(T, f)) - f[t] + g[t]
<1> DEFINE block(h, u) == {u} \X (1 .. h[u])
           Rest(h) == UNION {block(h, u) : u \in T \ {t}}
<1>1. ASSUME NEW h \in [T -> Nat], NEW u \in T
      PROVE  IsFiniteSet(block(h, u)) /\ Cardinality(block(h, u)) = h[u]
  <2>1. h[u] \in Nat
    OBVIOUS
  <2>2. IsFiniteSet(1 .. h[u]) /\ Cardinality(1 .. h[u]) = h[u]
    BY <2>1, FS_Interval
  <2>3. IsFiniteSet({u}) /\ Cardinality({u}) = 1
    BY FS_Singleton
  <2> DEFINE A == {u}
             B == 1 .. h[u]
  <2>4. block(h, u) = A \X B
    OBVIOUS
  <2> HIDE DEF A, B, block
  <2>5. IsFiniteSet(A \X B) /\ Cardinality(A \X B) = Cardinality(A) * Cardinality(B)
    BY <2>2, <2>3, FS_Product DEF A, B
  <2>6. Cardinality(A) = 1 /\ Cardinality(B) = h[u]
    BY <2>2, <2>3 DEF A, B
  <2> QED BY <2>1, <2>4, <2>5, <2>6
<1>2. ASSUME NEW h \in [T -> Nat]
      PROVE  /\ Cardinality(Rest(h)) \in Nat
             /\ Cardinality(SkipsOf(T, h)) = Cardinality(Rest(h)) + h[t]
  <2>1. IsFiniteSet(Rest(h))
    <3> DEFINE B == {block(h, u) : u \in T \ {t}}
               k == [u \in T \ {t} |-> block(h, u)]
    <3>1. IsFiniteSet(T \ {t})
      BY FS_RemoveElement
    <3>2. k \in Surjection(T \ {t}, B)
      BY DEF Surjection
    <3>3. \A b \in B : IsFiniteSet(b)
      BY <1>1
    <3> HIDE DEF k, B
    <3>4. IsFiniteSet(B)
      BY <3>1, <3>2, FS_Surjection
    <3>5. IsFiniteSet(UNION B)
      BY <3>3, <3>4, FS_UNION
    <3> QED BY <3>5 DEF B
  <2>2. SkipsOf(T, h) = Rest(h) \cup block(h, t)
    BY DEF SkipsOf
  <2>3. Rest(h) \cap block(h, t) = {}
    OBVIOUS
  <2>4. IsFiniteSet(block(h, t)) /\ Cardinality(block(h, t)) = h[t]
    BY <1>1
  <2> DEFINE A == Rest(h)
             B == block(h, t)
  <2> HIDE DEF A, B
  <2>5. Cardinality(A \cup B) = Cardinality(A) + Cardinality(B) - Cardinality(A \cap B)
    BY <2>1, <2>4, FS_Union DEF A, B
  <2>6. Cardinality(A \cap B) = 0 /\ Cardinality(A) \in Nat
    BY <2>1, <2>3, FS_EmptySet, FS_CardinalityType DEF A, B
  <2>7. h[t] \in Nat /\ Cardinality(B) = h[t] /\ SkipsOf(T, h) = A \cup B
    BY <2>2, <2>4 DEF A, B
  <2>8. Cardinality(SkipsOf(T, h)) = Cardinality(A) + h[t]
    BY <2>5, <2>6, <2>7
  <2> QED BY <2>6, <2>8 DEF A
<1>3. Rest(f) = Rest(g)
  OBVIOUS
<1>4. f[t] \in Nat /\ g[t] \in Nat
  OBVIOUS
<1> HIDE DEF Rest
<1> QED BY <1>2, <1>3, <1>4

LEMMA NoSkips ==
  ASSUME NEW T, NEW f, \A t \in T : f[t] = 0
  PROVE  SkipsOf(T, f) = {}
  BY DEF SkipsOf

\* The slices of the fill cover the buffer.
LEMMA InSomeSlice ==
  ASSUME NEW n \in Nat, NEW nThreads \in Nat \ {0}, NEW i \in 1 .. n
  PROVE  \E t \in 0 .. nThreads - 1 : i \in SliceStart(n, nThreads, t) + 1 .. SliceEnd(n, nThreads, t)
<1> DEFINE start(t) == SliceStart(n, nThreads, t)
           end(t) == SliceEnd(n, nThreads, t)
           T == {t \in 0 .. nThreads - 1 : end(t) >= i}
<1>1. /\ start(0) = 0 /\ end(nThreads - 1) = n
      /\ \A t \in 1 .. nThreads - 1 : start(t) = end(t - 1)
  BY SlicesCover
<1>2. \A t \in 0 .. nThreads - 1 : start(t) \in Int /\ end(t) \in Int
  <2> TAKE t \in 0 .. nThreads - 1
  <2> DEFINE step == n \div nThreads
             nLeft == n % nThreads
  <2>1. step \in Nat /\ nLeft \in Nat
    OBVIOUS
  <2> HIDE DEF step, nLeft
  <2>2. (step + 1) * t \in Int /\ (step + 1) * nLeft \in Int /\ step * (t - nLeft) \in Int
    BY <2>1
  <2>3. start(t) = IF t < nLeft THEN (step + 1) * t ELSE (step + 1) * nLeft + step * (t - nLeft)
    BY DEF SliceStart, step, nLeft
  <2>4. start(t) \in Int
    BY <2>2, <2>3
  <2>5. end(t) = IF t < nLeft THEN (start(t) + step) + 1 ELSE IF start(t) + step > n THEN n ELSE start(t) + step
    BY DEF SliceEnd, step, nLeft
  <2> HIDE DEF start, end
  <2> QED BY <2>1, <2>4, <2>5
<1> HIDE DEF start, end
<1>3. nThreads - 1 \in T
  BY <1>1
<1>4. PICK t \in T : \A u \in T : t <= u
  <2>1. T \in SUBSET Nat
    OBVIOUS
  <2> HIDE DEF T
  <2> QED BY <1>3, <2>1, Least
<1>5. start(t) < i
  <2>1. CASE t = 0
    BY <1>1, <2>1
  <2>2. CASE t # 0
    <3>1. t \in 1 .. nThreads - 1 /\ t - 1 \in 0 .. nThreads - 1 /\ ~(t <= t - 1)
      BY <2>2
    <3>2. end(t - 1) < i
      BY <1>2, <1>4, <3>1
    <3> QED BY <1>1, <3>1, <3>2
  <2> QED BY <2>1, <2>2
<1>6. i \in start(t) + 1 .. end(t)
  BY <1>2, <1>5
<1> QED BY <1>6 DEF start, end

-----------------------------------------------------------------------------
(***************************************************************************)
(* A search under way.                                                     *)
(***************************************************************************)
Searching ==
  /\ TypeOK /\ phase = "search"
  /\ BufferIsFresh /\ PlacesTaken /\ HeapsApart /\ PagesAccounted
  /\ ~premature => VisitedCovered /\ BoundHeld

LEMMA Places ==
  ASSUME Searching
  PROVE  /\ MaxMorsel = NumProbed(probe) /\ MaxMorsel \in Nat \ {0} /\ MaxMorsel <= NumPages
         /\ dist_to_anchor_buffer = SortedPages[query]
         /\ \A i \in 1 .. MaxMorsel :
              /\ PageAt(i) \in DOMAIN Pages
              /\ dist_to_anchor_buffer[i] = AnchorDistance(query, PageAt(i))
              /\ \A j \in 1 .. MaxMorsel : PageAt(i) = PageAt(j) => i = j
         /\ Visited \subseteq 1 .. MaxMorsel /\ IsFiniteSet(Pending)
         /\ \A t \in Threads : ToDo(t) \subseteq 1 .. MaxMorsel
<1>1. query \in Queries /\ probe \in Probes /\ dist_to_anchor_buffer = SortedPages[query]
      /\ n_threads \in Nat /\ next_morsel \in Nat /\ morsel \in [Threads -> Nat]
  BY DEF Searching, TypeOK, BufferIsFresh
<1>2. MaxMorsel = NumProbed(probe)
  BY <1>1, SortedPagesFacts DEF MaxMorsel, NumProbed
<1>3. MaxMorsel \in Nat \ {0} /\ MaxMorsel <= NumPages /\ NumPages \in Nat
  BY <1>1, <1>2, NumProbedFacts, PagesTyped
<1>4. \A i \in 1 .. MaxMorsel : i \in 1 .. NumPages
  BY <1>3
<1>5. /\ \A j \in 1 .. NumPages :
           /\ PageAt(j) \in DOMAIN Pages
           /\ dist_to_anchor_buffer[j] = AnchorDistance(query, PageAt(j))
      /\ \A i, j \in 1 .. NumPages : PageAt(i) = PageAt(j) => i = j
  BY <1>1, SortedPagesFacts DEF PageAt
<1>6. \A t \in Threads : ToDo(t) \subseteq 1 .. MaxMorsel
  <2> TAKE t \in Threads
  <2>1. morsel[t] \in Nat /\ Step \in Nat
    BY <1>1, KnnSearchAssumption
  <2>2. Min({MaxMorsel, morsel[t] + Step}) \in Int /\ Min({MaxMorsel, morsel[t] + Step}) <= MaxMorsel
    <3> DEFINE m == morsel[t] + Step
               n == MaxMorsel
    <3>1. m \in Int /\ n \in Int
      BY <1>3, <2>1
    <3> HIDE DEF m, n
    <3>2. Min({n, m}) \in Int /\ Min({n, m}) <= n
      BY <3>1, MinOfTwo
    <3> QED BY <3>2 DEF m, n
  <2> QED BY <1>3, <2>1, <2>2 DEF ToDo
<1>7. Ahead \subseteq 1 .. MaxMorsel
  BY <1>1, <1>3 DEF Ahead
<1>8. IsFiniteSet(Pending)
  <2>1. IsFiniteSet(1 .. MaxMorsel)
    BY <1>3, FS_Interval
  <2>2. Pending \subseteq 1 .. MaxMorsel
    BY <1>6, <1>7 DEF Pending
  <2> QED BY <2>1, <2>2, FS_Subset
<1> QED BY <1>1, <1>2, <1>3, <1>4, <1>5, <1>6, <1>8 DEF Visited

\* An entry of a heap is a candidate, and its page's place has been visited.
LEMMA HeldFromVisited ==
  ASSUME Searching, NEW t \in Threads, NEW x \in heap[t]
  PROVE  /\ \E j \in Visited : x[2][1] = PageAt(j) /\ x \in Members(query, PageAt(j))
         /\ x \in Candidates[query][probe]
<1>1. PICK j \in Visited : \E i \in DOMAIN Pages[PageAt(j)] : x = Member(query, PageAt(j), i)
  BY DEF Searching, HeapsApart
<1>2. query \in Queries /\ probe \in Probes
  BY DEF Searching, TypeOK
<1>3. j \in 1 .. NumProbed(probe) /\ PageAt(j) \in DOMAIN Pages /\ PageAt(j) = SortedPages[query][j][2]
  BY Places DEF PageAt
<1>4. x \in Members(query, PageAt(j))
  BY <1>1 DEF Members
<1>5. x[2][1] = PageAt(j)
  BY <1>1, <1>2, <1>3, MemberTyped
<1>6. x \in Candidates[query][probe]
  BY <1>2, <1>3, <1>4, CandidatesFacts
<1> QED BY <1>4, <1>5, <1>6

LEMMA HeapsAreApart ==
  ASSUME Searching
  PROVE  Apart
  BY DEF Searching, HeapsApart, Apart

-----------------------------------------------------------------------------
(***************************************************************************)
(* Main's steps.                                                           *)
(***************************************************************************)
LEMMA InitIInv == Init => IInv
<1> SUFFICES ASSUME Init PROVE IInv
  OBVIOUS
<1>1. n_threads \in Nat \ {0} /\ Threads \subseteq Nat
  BY KnnSearchAssumption DEF Init, Threads
<1>2. IsHeap({})
  BY FS_EmptySet, PagedVectorsAssumption DEF IsHeap
<1>3. TypeOK
  <2>1. dist_to_anchor_buffer \in Seq(Nat \X Nat)
    BY DEF Init
  <2>2. heap \in [Threads -> SUBSET Entries] /\ \A t \in Threads : IsHeap(heap[t])
    BY <1>2 DEF Init
  <2> QED BY <1>1, <2>1, <2>2 DEF Init, TypeOK
<1>4. ~Answered
  BY DEF Init, Answered
<1> QED BY <1>3, <1>4 DEF Init, IInv, NoVectorTwice, ExactUnlessPremature, ExactAnswer

\* A search starts with every place ahead.
LEMMA StartSearchIInv ==
  ASSUME TypeOK, n_pruned = n_unscanned, query' \in Queries, probe' \in Probes, asked' \in Nat,
         StartSearch(FreshBuffer(query')),
         UNCHANGED <<n_threads, morsel, up_to_date_max, n_pruned, n_unscanned>>
  PROVE  IInv'
<1>0. /\ n_threads \in Nat \ {0} /\ Threads' = Threads /\ Threads \subseteq Nat /\ IsFiniteSet(Threads)
      /\ Infinity \in Nat
  BY FoundTyped, KnnSearchAssumption DEF TypeOK, Threads
<1>1. dist_to_anchor_buffer' = SortedPages[query'] /\ dist_to_anchor_buffer' \in Seq(Nat \X Nat)
      /\ Len(dist_to_anchor_buffer') = NumPages
  BY SortedFreshBuffer, SortedPagesFacts DEF StartSearch
<1>2. MaxMorsel' = NumProbed(probe') /\ MaxMorsel' \in Nat
  BY <1>1, NumProbedFacts DEF MaxMorsel, NumProbed
<1>3. \A t \in Threads : wpc'[t] = "fetch" /\ heap'[t] = {} /\ n_p'[t] = 0
  BY DEF StartSearch
<1>4. TypeOK'
  <2>1. \A t \in Threads : Top(t) \in Nat
    BY TopOfHeap DEF TypeOK, Top
  <2>2. slot0' \in [Threads -> Nat]
    BY <2>1 DEF StartSearch
  <2>3. IsHeap({})
    BY FS_EmptySet, PagedVectorsAssumption DEF IsHeap
  <2>4. heap' \in [Threads -> SUBSET Entries] /\ \A t \in Threads : IsHeap(heap'[t])
    BY <1>3, <2>3 DEF StartSearch
  <2>5. wpc' \in [Threads -> {"done", "fill", "fetch", "scan", "publish", "cas"}]
        /\ n_p' \in [Threads -> Nat] /\ next_morsel' \in Nat /\ shared_data' \in Nat
        /\ premature' \in BOOLEAN /\ phase' = "search"
    BY <1>0 DEF StartSearch
  <2> QED BY <1>0, <1>1, <2>2, <2>4, <2>5 DEF TypeOK
<1>5. \A t \in Threads : ToDo(t)' = {}
  BY <1>3 DEF ToDo
<1>6. Pending' = 1 .. MaxMorsel' /\ Visited' = {}
  <2>1. Ahead' = 1 .. MaxMorsel'
    BY DEF Ahead, StartSearch
  <2>2. Pending' = 1 .. MaxMorsel'
    BY <1>0, <1>5, <2>1 DEF Pending
  <2> QED BY <2>2 DEF Visited
<1>7. PagesAccounted'
  <2>1. Skips' = {}
    <3>1. SkipsOf(Threads, n_p') = {}
      BY <1>3, NoSkips
    <3> QED BY <1>0, <3>1 DEF Skips, SkipsOf
  <2>2. scanned' = {}
    BY DEF StartSearch
  <2>3. Cardinality({}) = 0
    BY FS_EmptySet
  <2>4. Cardinality(1 .. MaxMorsel') = MaxMorsel'
    BY <1>2, FS_Interval
  <2>5. n_pruned' = n_unscanned' /\ n_pruned' \in Nat
    BY DEF TypeOK
  <2>6. n_pruned' + Cardinality(Skips') + Cardinality(scanned') + Cardinality(Pending') = n_unscanned' + MaxMorsel'
    BY <1>2, <1>6, <2>1, <2>2, <2>3, <2>4, <2>5
  <2> QED BY <2>2, <2>6 DEF PagesAccounted
<1>8. PlacesTaken'
  BY <1>0, <1>3, <1>5 DEF PlacesTaken
<1>9. HeapsApart' /\ VisitedCovered'
  BY <1>0, <1>3, <1>6 DEF HeapsApart, VisitedCovered
<1>10. BoundHeld' /\ phase' = "search"
  BY DEF BoundHeld, StartSearch
<1>11. BufferIsFresh'
  BY <1>1 DEF BufferIsFresh
<1>12. ~Answered'
  BY <1>10 DEF Answered
<1> QED BY <1>4, <1>7, <1>8, <1>9, <1>10, <1>11, <1>12
        DEF IInv, NoVectorTwice, ExactUnlessPremature, ExactAnswer

LEMMA AskAloneIInv ==
  ASSUME IInv, NEW q \in Queries, NEW n \in Probes, AskAlone(q, n)
  PROVE  IInv'
<1>1. TypeOK /\ n_pruned = n_unscanned
  BY DEF IInv, AskAlone, Ask
<1>2. query' = q /\ probe' = n /\ asked' \in Nat
  BY <1>1 DEF AskAlone, Ask, TypeOK
<1>3. StartSearch(FreshBuffer(query'))
  BY <1>2 DEF AskAlone, FreshBuffer
<1>4. UNCHANGED <<n_threads, morsel, up_to_date_max, n_pruned, n_unscanned>>
  BY DEF AskAlone, Ask, workVars
<1> QED BY <1>1, <1>2, <1>3, <1>4, StartSearchIInv

LEMMA AskParallelIInv ==
  ASSUME IInv, NEW q \in Queries, NEW n \in Probes, AskParallel(q, n)
  PROVE  IInv'
<1>1. TypeOK /\ n_pruned = n_unscanned
  BY DEF IInv, AskParallel, Ask
<1>2. n_threads' = n_threads /\ Threads' = Threads
  BY DEF AskParallel, Ask, Threads
<1>3. dist_to_anchor_buffer' \in Seq(Nat \X Nat) /\ Len(dist_to_anchor_buffer') = NumPages
  <2>1. NumPages \in Nat
    BY PagesTyped
  <2>2. \A i \in 1 .. NumPages : i <= Len(dist_to_anchor_buffer) =>
                                   dist_to_anchor_buffer[i] \in Nat \X Nat
    BY <1>1 DEF TypeOK
  <2>3. dist_to_anchor_buffer' \in [1 .. NumPages -> Nat \X Nat]
    BY <2>2 DEF AskParallel
  <2> QED BY <2>1, <2>3
<1>4. \A t \in Threads : wpc'[t] = "fill"
  BY DEF AskParallel
<1>5. TypeOK'
  <2>1. asked' \in Nat /\ query' \in Queries /\ probe' \in Probes /\ phase' = "fill"
    BY <1>1 DEF AskParallel, Ask, TypeOK
  <2>2. wpc' \in [Threads -> {"done", "fill", "fetch", "scan", "publish", "cas"}]
    BY DEF AskParallel
  <2> QED BY <1>1, <1>2, <1>3, <2>1, <2>2 DEF TypeOK, AskParallel, Ask, workVars
<1>6. SlicesFilled'
  BY <1>2, <1>3, <1>4 DEF SlicesFilled
<1>7. phase' = "fill" /\ n_pruned' = n_unscanned' /\ ~Answered'
  BY <1>1 DEF AskParallel, Ask, Answered
<1> QED BY <1>5, <1>6, <1>7 DEF IInv, NoVectorTwice, ExactUnlessPremature, ExactAnswer

LEMMA FillSliceIInv ==
  ASSUME IInv, NEW t \in Threads, FillSlice(t)
  PROVE  IInv'
<1>1. phase = "fill" /\ TypeOK /\ SlicesFilled /\ n_pruned = n_unscanned
  BY DEF IInv, FillSlice, PlacesTaken, TypeOK
<1>2. n_threads' = n_threads /\ Threads' = Threads /\ query' = query /\ phase' = "fill"
  BY <1>1 DEF FillSlice, Threads
<1> DEFINE slice(u) == SliceStart(NumPages, n_threads, u) + 1 .. SliceEnd(NumPages, n_threads, u)
           buffer == dist_to_anchor_buffer
<1>3. NumPages \in Nat /\ DOMAIN Pages = 1 .. NumPages /\ buffer \in [1 .. NumPages -> Nat \X Nat]
      /\ query \in Queries
  BY <1>1, PagesTyped DEF TypeOK, SlicesFilled
<1>4. /\ DOMAIN buffer' = 1 .. NumPages
      /\ \A i \in 1 .. NumPages : buffer'[i] = IF i \in slice(t) THEN AnchorDistance(query, i) ELSE buffer[i]
      /\ buffer' = [i \in 1 .. NumPages |-> buffer'[i]]
  <2> HIDE DEF slice
  <2>1. DOMAIN buffer = 1 .. NumPages
    BY <1>3
  <2> QED BY <2>1 DEF FillSlice, slice
<1>5. buffer' \in Seq(Nat \X Nat) /\ Len(buffer') = NumPages
  <2>1. \A i \in 1 .. NumPages : buffer'[i] \in Nat \X Nat
    BY <1>3, <1>4, AnchorTyped
  <2>2. buffer' \in [1 .. NumPages -> Nat \X Nat]
    BY <1>4, <2>1
  <2> QED BY <1>3, <2>2
<1>6. wpc' \in [Threads -> {"done", "fill", "fetch", "scan", "publish", "cas"}]
      /\ wpc'[t] = "done" /\ \A u \in Threads \ {t} : wpc'[u] = wpc[u]
  BY <1>1 DEF FillSlice, TypeOK
<1>7. TypeOK'
  BY <1>1, <1>2, <1>5, <1>6 DEF TypeOK, FillSlice, workVars
<1>8. SlicesFilled'
  <2>1. \A u \in Threads : wpc'[u] \in {"fill", "done"}
    BY <1>1, <1>6 DEF SlicesFilled
  <2>2. ASSUME NEW u \in Threads, wpc'[u] = "done", NEW i \in slice(u), i \in 1 .. NumPages
        PROVE  buffer'[i] = AnchorDistance(query, i)
    <3>1. CASE i \in slice(t)
      BY <1>4, <2>2, <3>1
    <3>2. CASE i \notin slice(t)
      <4>1. u # t /\ wpc[u] = "done"
        BY <1>6, <2>2, <3>2
      <4>2. buffer[i] = AnchorDistance(query, i)
        BY <1>1, <1>3, <2>2, <4>1 DEF SlicesFilled
      <4> QED BY <1>4, <2>2, <3>2, <4>2
    <3> QED BY <3>1, <3>2
  <2> QED BY <1>2, <1>4, <1>5, <2>1, <2>2 DEF SlicesFilled
<1>9. n_pruned' = n_unscanned' /\ ~Answered'
  BY <1>1, <1>2 DEF FillSlice, Answered
<1> QED BY <1>2, <1>7, <1>8, <1>9 DEF IInv, NoVectorTwice, ExactUnlessPremature, ExactAnswer

LEMMA EndFillIInv ==
  ASSUME IInv, EndFill
  PROVE  IInv'
<1>1. phase = "fill" /\ TypeOK /\ SlicesFilled /\ n_pruned = n_unscanned
  BY DEF IInv, EndFill
<1>2. n_threads \in Nat \ {0} /\ Threads = 0 .. n_threads - 1 /\ NumPages \in Nat
  BY <1>1, PagesTyped DEF TypeOK, Threads
<1>3. DOMAIN dist_to_anchor_buffer = 1 .. NumPages
      /\ dist_to_anchor_buffer = [i \in 1 .. NumPages |-> dist_to_anchor_buffer[i]]
  BY <1>1, <1>2 DEF TypeOK, SlicesFilled
<1>4. ASSUME NEW i \in 1 .. NumPages
      PROVE  dist_to_anchor_buffer[i] = AnchorDistance(query, i)
  <2>1. PICK t \in Threads : i \in SliceStart(NumPages, n_threads, t) + 1 .. SliceEnd(NumPages, n_threads, t)
    BY <1>2, InSomeSlice
  <2> QED BY <1>1, <1>3, <2>1 DEF SlicesFilled, EndFill
<1>5. dist_to_anchor_buffer = FreshBuffer(query)
  BY <1>3, <1>4 DEF FreshBuffer
<1>6. query' = query /\ query' \in Queries /\ probe' \in Probes /\ asked' \in Nat
  BY <1>1 DEF EndFill, TypeOK
<1>7. StartSearch(FreshBuffer(query'))
  BY <1>5, <1>6 DEF EndFill
<1>8. UNCHANGED <<n_threads, morsel, up_to_date_max, n_pruned, n_unscanned>>
  BY DEF EndFill, workVars
<1> QED BY <1>1, <1>6, <1>7, <1>8, StartSearchIInv

\* When all workers are done every place has been visited.
LEMMA AllVisited ==
  ASSUME Searching, \A t \in Threads : wpc[t] = "done"
  PROVE  /\ Visited = 1 .. MaxMorsel /\ Skips = {}
         /\ n_unscanned + MaxMorsel - Cardinality(scanned) = n_pruned
<1>1. /\ MaxMorsel \in Nat /\ next_morsel \in Nat /\ n_threads \in Nat \ {0} /\ Threads = 0 .. n_threads - 1
      /\ n_pruned \in Nat /\ n_unscanned \in Nat
  BY Places DEF Searching, TypeOK, Threads
<1>2. \A t \in Threads : next_morsel >= MaxMorsel /\ n_p[t] = 0 /\ ToDo(t) = {}
  BY DEF Searching, PlacesTaken, ToDo
<1>3. next_morsel >= MaxMorsel
  <2>1. 0 \in Threads
    BY <1>1
  <2> QED BY <1>2, <2>1
<1>4. Pending = {}
  BY <1>1, <1>2, <1>3 DEF Pending, Ahead
<1>5. Skips = {}
  BY <1>2, NoSkips DEF Skips, SkipsOf
<1>6. Cardinality(Skips) = 0 /\ Cardinality(Pending) = 0
  BY <1>4, <1>5, FS_EmptySet
<1>7. Cardinality(scanned) \in Nat
  <2>1. IsFiniteSet(1 .. MaxMorsel)
    BY <1>1, FS_Interval
  <2>2. scanned \subseteq {PageAt(j) : j \in Visited}
    BY DEF Searching, PagesAccounted
  <2>3. scanned \subseteq DOMAIN Pages /\ DOMAIN Pages = 1 .. NumPages /\ NumPages \in Nat
    BY <2>2, Places, PagesTyped
  <2>4. IsFiniteSet(scanned)
    BY <2>3, FS_Interval, FS_Subset
  <2> QED BY <2>4, FS_CardinalityType
<1>8. n_pruned + Cardinality(Skips) + Cardinality(scanned) + Cardinality(Pending) = n_unscanned + MaxMorsel
  BY DEF Searching, PagesAccounted
<1> QED BY <1>1, <1>4, <1>5, <1>6, <1>7, <1>8 DEF Visited

\* The heaps then hold the K nearest, unless a bound was published too early.
LEMMA NearestFound ==
  ASSUME Searching, \A t \in Threads : wpc[t] = "done", ~premature,
         NEW i \in 1 .. Cardinality(Candidates[query][probe]), i <= K
  PROVE  i \in 1 .. Cardinality(Found) /\ Sorted(Found)[i][1] = Nearest[query][probe][i][1]
<1> DEFINE C == Candidates[query][probe]
<1>1. query \in Queries /\ probe \in Probes /\ VisitedCovered
  BY DEF Searching, TypeOK
<1>2. TypeOK
  BY DEF Searching
<1>3. Found \in SUBSET C
  BY HeldFromVisited DEF Found
<1>4. C \in SUBSET Entries /\ IsFiniteSet(C)
  BY <1>1, CandidatesFacts
<1>5. ASSUME NEW c \in C
      PROVE  c \in Found \/ \E D \in SUBSET Found : Cardinality(D) = K /\ \A x \in D : x[1] <= c[1]
  <2>1. PICK j \in 1 .. MaxMorsel : c \in Members(query, PageAt(j))
    <3>1. \E j \in 1 .. NumProbed(probe) : c \in Members(query, SortedPages[query][j][2])
      BY <1>1, CandidatesFacts
    <3> HIDE DEF C
    <3> QED BY <3>1, Places DEF PageAt
  <2>2. j \in Visited
    BY AllVisited
  <2>3. PICK t \in Threads : Covers(heap[t], c)
    BY <1>1, <2>1, <2>2 DEF VisitedCovered, Members
  <2>4. heap[t] \in SUBSET Found
    BY <1>2, FoundTyped
  <2> HIDE DEF C
  <2> QED BY <2>3, <2>4 DEF Covers, Dominated
<1>6. Nearest[query][probe] = Sorted(C)
  BY <1>1 DEF Nearest
<1>7. i \in 1 .. Cardinality(C)
  OBVIOUS
<1> HIDE DEF C
<1>8. i \in 1 .. Cardinality(Found) /\ Sorted(Found)[i][1] = Sorted(C)[i][1]
  BY <1>3, <1>4, <1>5, <1>7, SameDistances
<1> QED BY <1>6, <1>8

LEMMA CollectIInv ==
  ASSUME IInv, Collect
  PROVE  IInv'
<1>1. Searching /\ TypeOK /\ Apart /\ \A t \in Threads : wpc[t] = "done"
  BY HeapsAreApart DEF IInv, Collect, Searching
<1>2. query' = query /\ probe' = probe /\ n_threads' = n_threads /\ Threads' = Threads /\ phase' = "idle"
      /\ query \in Queries /\ probe \in Probes
  BY <1>1 DEF Collect, Threads, TypeOK
<1> DEFINE found == SortedBy(Outputs, OutputBefore)
           n == Cardinality(Found)
           s == Sorted(Found)
<1>3. n \in Nat /\ K \in Nat /\ Found \in SUBSET Entries /\ IsFiniteSet(Found)
  BY <1>1, FoundTyped, FS_CardinalityType, PagedVectorsAssumption
<1>4. Len(found) = n /\ \A i \in 1 .. n : found[i][1] = s[i]
  BY <1>1, SortedOutputs
<1>5. answer' = [i \in 1 .. K |-> IF i <= Len(found) THEN found[i][1] ELSE Unspecified]
  BY DEF Collect
<1> HIDE DEF found
<1>6. /\ \A i \in 1 .. K : i \in 1 .. n => answer'[i] = s[i]
      /\ \A i \in 1 .. K : i \notin 1 .. n => answer'[i] = Unspecified
  BY <1>3, <1>4, <1>5
<1>7. /\ s \in [1 .. n -> Found]
      /\ \A i \in 1 .. n : Cardinality(SetLessThan(s[i], EntryOrder(Found), Found)) = i - 1
  BY <1>3, SortedByDistance DEF Lists
<1> HIDE DEF s, n
<1>8. NoVectorTwice'
  <2> DEFINE F == {i \in 1 .. K : answer'[i] # Unspecified}
  <2>1. \A i \in F : i \in 1 .. n /\ answer'[i] = s[i]
    BY <1>6
  <2>2. \A i \in F : answer'[i] \in Candidates[query][probe]
    <3>1. Found \in SUBSET Candidates[query][probe]
      BY <1>1, HeldFromVisited DEF Found
    <3> QED BY <1>7, <2>1, <3>1
  <2>3. ASSUME NEW i \in F, NEW j \in F, answer'[i] = answer'[j]
        PROVE  i = j
    <3>1. i \in 1 .. n /\ j \in 1 .. n /\ s[i] = s[j]
      BY <2>1, <2>3
    <3>2. i - 1 = j - 1
      BY <1>7, <3>1
    <3> QED BY <1>3, <3>1, <3>2
  <2> QED BY <1>2, <2>2, <2>3 DEF NoVectorTwice
<1>9. ExactUnlessPremature'
  <2> SUFFICES ASSUME ~premature', NEW i \in 1 .. Min({K, Len(Nearest[query][probe])})
               PROVE  answer'[i][1] = Nearest[query][probe][i][1]
    BY <1>2 DEF ExactUnlessPremature, ExactAnswer
  <2>1. ~premature
    BY DEF Collect
  <2> DEFINE m == Cardinality(Candidates[query][probe])
  <2>2. Len(Nearest[query][probe]) = m /\ m \in Nat
    <3>1. IsFiniteSet(Candidates[query][probe]) /\ Nearest[query][probe] = Sorted(Candidates[query][probe])
      BY <1>2, CandidatesFacts DEF Nearest
    <3>2. m \in Nat
      BY <3>1, FS_CardinalityType
    <3>3. Sorted(Candidates[query][probe]) \in [1 .. m -> Candidates[query][probe]]
      BY <1>2, CandidatesFacts, SortedByDistance DEF Lists
    <3> HIDE DEF m
    <3> QED BY <3>1, <3>2, <3>3
  <2> HIDE DEF m
  <2>3. i \in Nat \ {0} /\ i <= K /\ i <= m
    <3>1. K \in Int /\ m \in Int
      BY <1>3, <2>2
    <3>2. Min({K, m}) \in Int /\ Min({K, m}) <= K /\ Min({K, m}) <= m
      BY <3>1, MinOfTwo
    <3>3. i \in 1 .. Min({K, m})
      BY <2>2
    <3> QED BY <1>3, <2>2, <3>2, <3>3
  <2>4. i \in 1 .. m
    BY <2>2, <2>3
  <2>5. i \in 1 .. n /\ s[i][1] = Nearest[query][probe][i][1]
    BY <1>1, <2>1, <2>3, <2>4, NearestFound DEF m, n, s
  <2> QED BY <1>3, <1>6, <2>3, <2>5
<1>10. n_unscanned' = n_pruned'
  BY <1>1, AllVisited DEF Collect
<1>11. TypeOK'
  <2>1. n_unscanned' \in Nat
    BY <1>1, <1>10 DEF Collect, TypeOK
  <2> QED BY <1>1, <1>2, <2>1 DEF TypeOK, Collect, workVars
<1>12. \A t \in Threads' : wpc'[t] = "done"
  BY <1>1, <1>2 DEF Collect
<1> QED BY <1>2, <1>8, <1>9, <1>10, <1>11, <1>12 DEF IInv

-----------------------------------------------------------------------------
(***************************************************************************)
(* The workers' steps.                                                     *)
(***************************************************************************)
\* Only in a search is a worker between fetch and done.
LEMMA WorkerSearches ==
  ASSUME IInv, NEW t \in Threads, wpc[t] \notin {"fill", "done"}
  PROVE  Searching
  BY DEF IInv, SlicesFilled, TypeOK, Searching

\* What a step that leaves heaps, counts and places alone keeps.
LEMMA QuietStep ==
  ASSUME Searching,
         UNCHANGED <<mainVars, next_morsel, morsel, heap, n_p, n_pruned, scanned, n_unscanned>>,
         \A t \in Threads : wpc'[t] = "scan" <=> wpc[t] = "scan"
  PROVE  /\ BufferIsFresh' /\ HeapsApart' /\ PagesAccounted' /\ (VisitedCovered => VisitedCovered')
         /\ Threads' = Threads /\ MaxMorsel' = MaxMorsel /\ phase' = "search"
         /\ \A t \in Threads : ToDo(t)' = ToDo(t)
<1>1. Threads' = Threads /\ MaxMorsel' = MaxMorsel /\ phase' = phase /\ query' = query
      /\ dist_to_anchor_buffer' = dist_to_anchor_buffer
  BY DEF mainVars, Threads, MaxMorsel
<1>2. \A t \in Threads : ToDo(t)' = ToDo(t)
  BY <1>1 DEF ToDo
<1>3. Pending' = Pending /\ Visited' = Visited
  BY <1>1, <1>2 DEF Pending, Ahead, Visited
<1>4. \A j : PageAt(j)' = PageAt(j)
  BY <1>1 DEF PageAt
<1>5. BufferIsFresh'
  BY <1>1 DEF BufferIsFresh, Searching
<1>6. HeapsApart'
  BY <1>1, <1>3, <1>4 DEF HeapsApart, Searching
<1>7. VisitedCovered => VisitedCovered'
  BY <1>1, <1>3, <1>4 DEF VisitedCovered
<1>8. PagesAccounted'
  <2>1. Skips' = Skips
    BY <1>1 DEF Skips
  <2> QED BY <1>1, <1>3, <1>4, <2>1 DEF PagesAccounted, Searching
<1> QED BY <1>1, <1>2, <1>5, <1>6, <1>7, <1>8 DEF Searching

LEMMA PublishIInv ==
  ASSUME IInv, NEW t \in Threads, Publish(t)
  PROVE  IInv'
<1>1. Searching /\ TypeOK /\ PlacesTaken
  BY WorkerSearches DEF Publish, Searching
<1>2. wpc[t] \in {"publish", "cas"} /\ wpc'[t] \in {"cas", "fetch"}
      /\ wpc' \in [Threads -> {"done", "fill", "fetch", "scan", "publish", "cas"}]
      /\ \A u \in Threads \ {t} : wpc'[u] = wpc[u] /\ up_to_date_max'[u] = up_to_date_max[u]
  BY <1>1 DEF Publish, TypeOK
<1>3. /\ BufferIsFresh' /\ HeapsApart' /\ PagesAccounted' /\ (VisitedCovered => VisitedCovered')
      /\ Threads' = Threads /\ MaxMorsel' = MaxMorsel /\ phase' = "search"
      /\ \A u \in Threads : ToDo(u)' = ToDo(u)
  BY <1>1, <1>2, QuietStep DEF Publish
<1>4. TypeOK'
  <2>1. up_to_date_max' \in [Threads -> Nat]
    <3>1. \E d \in {shared_data, 0} : up_to_date_max' = [up_to_date_max EXCEPT ![t] = d]
      BY DEF Publish
    <3>2. up_to_date_max \in [Threads -> Nat] /\ shared_data \in Nat
      BY <1>1 DEF TypeOK
    <3> QED BY <3>1, <3>2
  <2>2. UNCHANGED <<n_threads, phase, query, probe, asked, dist_to_anchor_buffer, next_morsel, shared_data,
                    morsel, heap, n_p, slot0, n_pruned, n_unscanned, premature>>
    BY DEF Publish, mainVars
  <2> QED BY <1>1, <1>2, <1>3, <2>1, <2>2 DEF TypeOK
<1>5. PlacesTaken'
  <2>1. \A u \in Threads : Top(u)' = Top(u)
    BY DEF Top, Publish
  <2>2. wpc'[t] = "cas" => up_to_date_max'[t] > Top(t)
    BY <1>1 DEF Publish, TypeOK
  <2>3. UNCHANGED <<next_morsel, morsel, n_p>>
    BY DEF Publish
  <2>4. ASSUME NEW u \in Threads
        PROVE  /\ wpc'[u] # "fill"
               /\ wpc'[u] = "done" => next_morsel' >= MaxMorsel' /\ n_p'[u] = 0
               /\ wpc'[u] = "scan" => morsel'[u] < MaxMorsel'
               /\ wpc'[u] = "cas" => up_to_date_max'[u] > Top(u)
    BY <1>1, <1>2, <1>3, <2>2, <2>3 DEF PlacesTaken
  <2> QED BY <1>1, <1>3, <2>1, <2>3, <2>4 DEF PlacesTaken
<1>6. ~premature' => VisitedCovered' /\ BoundHeld'
  BY <1>1, <1>3 DEF Searching, BoundHeld, Publish
<1>7. ~Answered'
  BY <1>3 DEF Answered
<1> QED BY <1>3, <1>4, <1>5, <1>6, <1>7 DEF IInv, NoVectorTwice, ExactUnlessPremature, ExactAnswer

LEMMA CompareExchangeIInv ==
  ASSUME IInv, NEW t \in Threads, CompareExchange(t)
  PROVE  IInv' /\ shared_data' <= shared_data
<1>1. Searching /\ TypeOK /\ PlacesTaken
  BY WorkerSearches DEF CompareExchange, Searching
<1>2. wpc[t] = "cas" /\ wpc'[t] = "fetch"
      /\ wpc' \in [Threads -> {"done", "fill", "fetch", "scan", "publish", "cas"}]
      /\ \A u \in Threads \ {t} : wpc'[u] = wpc[u] /\ up_to_date_max'[u] = up_to_date_max[u]
  BY <1>1 DEF CompareExchange, TypeOK
<1>3. /\ BufferIsFresh' /\ HeapsApart' /\ PagesAccounted' /\ (VisitedCovered => VisitedCovered')
      /\ Threads' = Threads /\ MaxMorsel' = MaxMorsel /\ phase' = "search"
      /\ \A u \in Threads : ToDo(u)' = ToDo(u)
  BY <1>1, <1>2, QuietStep DEF CompareExchange
<1>4. IsHeap(heap[t]) /\ slot0[t] \in Nat /\ shared_data \in Nat /\ up_to_date_max[t] \in Nat
  BY <1>1 DEF TypeOK
<1>5. Top(t) \in Nat /\ (Cardinality(heap[t]) = K => Dominated(heap[t], Top(t)))
  BY <1>4, TopOfHeap DEF Top
<1>6. shared_data' = Top(t) /\ shared_data' \in Nat /\ shared_data' <= shared_data
  BY <1>1, <1>2, <1>4, <1>5 DEF CompareExchange, PlacesTaken
<1>7. TypeOK'
  <2>1. premature' \in BOOLEAN
    BY DEF CompareExchange
  <2> QED BY <1>1, <1>2, <1>3, <1>6, <2>1 DEF TypeOK, CompareExchange, mainVars
<1>8. PlacesTaken'
  <2>1. \A u \in Threads : Top(u)' = Top(u)
    BY DEF Top, CompareExchange
  <2>2. UNCHANGED <<next_morsel, morsel, n_p>>
    BY DEF CompareExchange
  <2>3. ASSUME NEW u \in Threads
        PROVE  /\ wpc'[u] # "fill"
               /\ wpc'[u] = "done" => next_morsel' >= MaxMorsel' /\ n_p'[u] = 0
               /\ wpc'[u] = "scan" => morsel'[u] < MaxMorsel'
               /\ wpc'[u] = "cas" => up_to_date_max'[u] > Top(u)
    BY <1>1, <1>2, <1>3, <2>2 DEF PlacesTaken
  <2> QED BY <1>1, <1>3, <2>1, <2>2, <2>3 DEF PlacesTaken
<1>9. ~premature' => VisitedCovered' /\ BoundHeld'
  <2> SUFFICES ASSUME ~premature'
               PROVE  VisitedCovered' /\ BoundHeld'
    OBVIOUS
  <2>1. ~premature /\ ~(Cardinality(heap[t]) < K)
    BY DEF CompareExchange
  <2>2. Cardinality(heap[t]) = K
    BY <1>4, <2>1, FS_CardinalityType, PagedVectorsAssumption DEF IsHeap
  <2>3. Dominated(heap'[t], shared_data')
    BY <1>5, <1>6, <2>2 DEF CompareExchange
  <2>4. BoundHeld'
    BY <1>3, <2>3 DEF BoundHeld
  <2> QED BY <1>1, <1>3, <2>1, <2>4 DEF Searching
<1>10. ~Answered'
  BY <1>3 DEF Answered
<1> QED BY <1>3, <1>6, <1>7, <1>8, <1>9, <1>10 DEF IInv, NoVectorTwice, ExactUnlessPremature, ExactAnswer

LEMMA FetchMorselIInv ==
  ASSUME IInv, NEW t \in Threads, FetchMorsel(t)
  PROVE  IInv'
<1>1. Searching /\ TypeOK /\ PlacesTaken
  BY WorkerSearches DEF FetchMorsel, Fetch, Searching
<1>2. wpc[t] = "fetch" /\ next_morsel' = next_morsel + Step
      /\ wpc' \in [Threads -> {"done", "fill", "fetch", "scan", "publish", "cas"}]
      /\ \A u \in Threads \ {t} : wpc'[u] = wpc[u] /\ morsel'[u] = morsel[u] /\ n_p'[u] = n_p[u]
  BY <1>1 DEF FetchMorsel, Fetch, TypeOK
<1>3. Threads' = Threads /\ MaxMorsel' = MaxMorsel /\ phase' = "search" /\ query' = query
      /\ dist_to_anchor_buffer' = dist_to_anchor_buffer /\ UNCHANGED <<heap, scanned, shared_data, premature>>
      /\ n_unscanned' = n_unscanned /\ slot0' = slot0 /\ up_to_date_max' = up_to_date_max
  BY <1>1 DEF FetchMorsel, Fetch, mainVars, Threads, MaxMorsel, Searching
<1>4. next_morsel \in Nat /\ Step \in Nat /\ MaxMorsel \in Nat /\ IsFiniteSet(Threads)
      /\ morsel \in [Threads -> Nat] /\ n_p \in [Threads -> Nat] /\ n_p[t] \in Nat /\ n_pruned \in Nat
  BY <1>1, Places, FoundTyped, KnnSearchAssumption DEF TypeOK
<1>5. ToDo(t) = {} /\ \A u \in Threads \ {t} : ToDo(u)' = ToDo(u)
  BY <1>2, <1>3 DEF ToDo
<1>6. /\ TypeOK'
      /\ Pending' = Pending
      /\ n_pruned' + Cardinality(Skips') = n_pruned + Cardinality(Skips)
      /\ PlacesTaken'
  <2>0. UNCHANGED <<n_threads, phase, query, probe, asked, dist_to_anchor_buffer, shared_data,
                    heap, slot0, up_to_date_max, n_unscanned, premature>>
        /\ next_morsel' \in Nat /\ next_morsel <= next_morsel'
    BY <1>2, <1>4 DEF FetchMorsel, Fetch, mainVars
  <2>1. CASE next_morsel < MaxMorsel
    <3>1. /\ wpc'[t] = "scan" /\ morsel' = [morsel EXCEPT ![t] = next_morsel]
          /\ n_p' = n_p /\ n_pruned' = n_pruned
      BY <1>1, <1>4, <2>1 DEF FetchMorsel, Fetch, TypeOK
    <3>2. morsel' \in [Threads -> Nat] /\ morsel'[t] = next_morsel
      BY <1>4, <3>1
    <3>3. TypeOK'
      BY <1>1, <1>2, <1>3, <2>0, <3>1, <3>2 DEF TypeOK
    <3> DEFINE m == next_morsel + Step
    <3>4. ToDo(t)' = next_morsel + 1 .. Min({MaxMorsel, m})
      BY <1>3, <3>1, <3>2 DEF ToDo
    <3>5. Min({MaxMorsel, m}) = IF MaxMorsel <= m THEN MaxMorsel ELSE m
      <4>1. MaxMorsel \in Int /\ m \in Int
        BY <1>4
      <4> DEFINE n == MaxMorsel
      <4> HIDE DEF m, n
      <4>2. Min({n, m}) = IF n <= m THEN n ELSE m
        BY <4>1, MinOfTwo DEF n
      <4> QED BY <4>2 DEF n
    <3>6. Ahead' = m + 1 .. MaxMorsel
      BY <1>2, <1>3 DEF Ahead
    <3>7. Ahead = ToDo(t)' \cup Ahead' /\ \A j \in ToDo(t)' : j > next_morsel /\ j <= next_morsel'
      <4> DEFINE k == IF MaxMorsel <= m THEN MaxMorsel ELSE m
      <4>1. ToDo(t)' = next_morsel + 1 .. k
        BY <3>4, <3>5
      <4>2. Ahead = next_morsel + 1 .. MaxMorsel
        BY DEF Ahead
      <4>3. m \in Int /\ k \in Int /\ k <= MaxMorsel /\ k <= m /\ (k = MaxMorsel \/ k = m)
        BY <1>4
      <4>4. next_morsel' = m /\ next_morsel <= m
        BY <1>2, <1>4
      <4> HIDE DEF m, k
      <4> QED BY <1>4, <2>1, <3>6, <4>1, <4>2, <4>3, <4>4
    <3>8. Pending' = Pending
      <4>1. Pending' = Ahead' \cup UNION {ToDo(u)' : u \in Threads}
        BY <1>3 DEF Pending
      <4> HIDE DEF m
      <4> QED BY <1>5, <3>7, <4>1 DEF Pending
    <3>9. PlacesTaken'
      <4>1. \A u \in Threads \ {t} : \A j \in ToDo(u) : j <= next_morsel /\ j \in Int
        <5>1. \A u \in Threads : \A j \in ToDo(u) : j <= next_morsel
          BY <1>1 DEF PlacesTaken
        <5>2. \A u \in Threads : \A j \in ToDo(u) : j \in Int
          BY DEF ToDo
        <5> QED BY <5>1, <5>2
      <4>2. ASSUME NEW u \in Threads
            PROVE  \A j \in ToDo(u)' : j <= next_morsel' /\ \A v \in Threads \ {u} : j \notin ToDo(v)'
        <5>1. CASE u = t
          <6>1. \A j \in ToDo(t)' : ~(j <= next_morsel)
            BY <1>4, <3>4, <3>7
          <6> QED BY <1>5, <3>7, <4>1, <5>1, <6>1
        <5>2. CASE u # t
          <6>1. ToDo(u)' = ToDo(u)
            BY <1>5, <5>2
          <6>2. \A j \in ToDo(u) : j <= next_morsel' /\ j \notin ToDo(t)'
            BY <1>4, <2>0, <3>7, <4>1, <5>2
          <6>3. \A j \in ToDo(u) : \A v \in Threads \ {u} : j \notin ToDo(v)
            BY <1>1 DEF PlacesTaken
          <6> QED BY <1>5, <6>1, <6>2, <6>3
        <5> QED BY <5>1, <5>2
      <4>3. \A u \in Threads : Top(u)' = Top(u)
        BY <2>0 DEF Top
      <4>4. ASSUME NEW u \in Threads
            PROVE  /\ wpc'[u] # "fill"
                   /\ wpc'[u] = "done" => next_morsel' >= MaxMorsel' /\ n_p'[u] = 0
                   /\ wpc'[u] = "scan" => morsel'[u] < MaxMorsel'
                   /\ wpc'[u] = "cas" => up_to_date_max'[u] > Top(u)
        <5>1. CASE u = t
          BY <1>3, <2>1, <3>1, <3>2, <5>1
        <5>2. CASE u # t
          <6>1. wpc'[u] = wpc[u] /\ morsel'[u] = morsel[u]
            BY <1>2, <5>2
          <6> QED BY <1>1, <1>3, <1>4, <2>0, <3>1, <6>1 DEF PlacesTaken
        <5> QED BY <5>1, <5>2
      <4> QED BY <1>3, <4>2, <4>3, <4>4 DEF PlacesTaken
    <3>10. Skips' = Skips
      BY <1>3, <3>1 DEF Skips
    <3> QED BY <3>1, <3>3, <3>8, <3>9, <3>10
  <2>2. CASE next_morsel >= MaxMorsel
    <3>1. /\ wpc'[t] = "done" /\ n_p' = [n_p EXCEPT ![t] = 0]
          /\ n_pruned' = n_pruned + n_p[t] /\ morsel' = morsel
      BY <1>1, <1>4, <2>2 DEF FetchMorsel, Fetch, TypeOK
    <3>2. n_p' \in [Threads -> Nat] /\ n_p'[t] = 0 /\ n_pruned' \in Nat
      BY <1>4, <3>1
    <3>3. TypeOK'
      BY <1>1, <1>2, <1>3, <2>0, <3>1, <3>2 DEF TypeOK
    <3>4. \A u \in Threads : ToDo(u)' = ToDo(u)
      BY <1>5, <3>1 DEF ToDo
    <3>5. Ahead = {} /\ Ahead' = {}
      BY <1>2, <1>3, <1>4, <2>2 DEF Ahead
    <3>6. Pending' = Pending
      BY <1>3, <3>4, <3>5 DEF Pending
    <3>7. PlacesTaken'
      <4>1. \A u \in Threads : Top(u)' = Top(u)
        BY <2>0 DEF Top
      <4>2. ASSUME NEW u \in Threads
            PROVE  /\ wpc'[u] # "fill"
                   /\ wpc'[u] = "done" => next_morsel' >= MaxMorsel' /\ n_p'[u] = 0
                   /\ wpc'[u] = "scan" => morsel'[u] < MaxMorsel'
                   /\ wpc'[u] = "cas" => up_to_date_max'[u] > Top(u)
        <5>1. next_morsel' >= MaxMorsel'
          BY <1>3, <1>4, <2>0, <2>2
        <5>2. CASE u = t
          BY <3>1, <3>2, <5>1, <5>2
        <5>3. CASE u # t
          <6>1. wpc'[u] = wpc[u] /\ n_p'[u] = n_p[u]
            BY <1>2, <5>3
          <6> QED BY <1>1, <1>3, <2>0, <3>1, <5>1, <6>1 DEF PlacesTaken
        <5> QED BY <5>2, <5>3
      <4>3. ASSUME NEW u \in Threads, NEW j \in ToDo(u)
            PROVE  j <= next_morsel' /\ \A v \in Threads \ {u} : j \notin ToDo(v)
        <5>1. j <= next_morsel /\ \A v \in Threads \ {u} : j \notin ToDo(v)
          BY <1>1 DEF PlacesTaken
        <5>2. j \in Int
          BY DEF ToDo
        <5> QED BY <1>4, <2>0, <5>1, <5>2
      <4> QED BY <1>3, <3>4, <4>1, <4>2, <4>3 DEF PlacesTaken
    <3>8. n_pruned' + Cardinality(Skips') = n_pruned + Cardinality(Skips)
      <4>1. Skips = SkipsOf(Threads, n_p) /\ Skips' = SkipsOf(Threads, n_p')
        BY <1>3 DEF Skips, SkipsOf
      <4>2. /\ Cardinality(SkipsOf(Threads, n_p)) \in Nat
            /\ Cardinality(SkipsOf(Threads, n_p')) = Cardinality(SkipsOf(Threads, n_p)) - n_p[t] + n_p'[t]
        BY <1>2, <1>4, <3>2, SkipsChange
      <4> QED BY <1>4, <3>1, <3>2, <4>1, <4>2
    <3> QED BY <3>3, <3>6, <3>7, <3>8
  <2> QED BY <1>4, <2>1, <2>2
<1>7. BufferIsFresh'
  BY <1>1, <1>3 DEF BufferIsFresh, Searching
<1>8. Visited' = Visited /\ \A j : PageAt(j)' = PageAt(j)
  BY <1>3, <1>6 DEF Visited, PageAt
<1>9. HeapsApart' /\ (VisitedCovered => VisitedCovered')
  BY <1>1, <1>3, <1>8 DEF HeapsApart, VisitedCovered, Searching
<1>10. PagesAccounted'
  <2>1. scanned' \subseteq {PageAt(j)' : j \in Visited'}
    BY <1>1, <1>3, <1>8 DEF PagesAccounted, Searching
  <2>2. n_pruned + Cardinality(Skips) + Cardinality(scanned) + Cardinality(Pending) = n_unscanned + MaxMorsel
    BY <1>1 DEF Searching, PagesAccounted
  <2>3. n_pruned' + Cardinality(Skips') + Cardinality(scanned') + Cardinality(Pending') = n_unscanned' + MaxMorsel'
    BY <1>3, <1>6, <2>2
  <2> QED BY <2>1, <2>3 DEF PagesAccounted
<1>11. ~premature' => VisitedCovered' /\ BoundHeld'
  BY <1>1, <1>3, <1>9 DEF Searching, BoundHeld
<1>12. ~Answered'
  BY <1>3 DEF Answered
<1> QED BY <1>3, <1>6, <1>7, <1>9, <1>10, <1>11, <1>12
        DEF IInv, NoVectorTwice, ExactUnlessPremature, ExactAnswer

\* The entries of a worker's morsel are those of its places.
LEMMA MorselPlaces ==
  ASSUME Searching, NEW t \in Threads, wpc[t] = "scan"
  PROVE  LET pages == Morsel(morsel[t])
         IN /\ NewPages(heap[t], pages)
            /\ \A i \in 1 .. Len(pages) : morsel[t] + i \in ToDo(t) /\ pages[i][2] = PageAt(morsel[t] + i)
            /\ \A j \in ToDo(t) : j - morsel[t] \in 1 .. Len(pages) /\ PageAt(j) = pages[j - morsel[t]][2]
            /\ IsFiniteSet(ToDo(t)) /\ Cardinality(ToDo(t)) = Len(pages)
<1> DEFINE first == morsel[t]
           last == Min({MaxMorsel, first + Step})
           pages == Morsel(first)
           buffer == dist_to_anchor_buffer
<1>1. first \in Nat /\ Step \in Nat /\ MaxMorsel \in Nat /\ first < MaxMorsel /\ query \in Queries
      /\ MaxMorsel <= NumPages /\ NumPages \in Nat
  BY Places, KnnSearchAssumption, PagesTyped DEF Searching, TypeOK, PlacesTaken
<1>2. last \in Nat /\ first <= last /\ last <= MaxMorsel
  <2> DEFINE m == first + Step
             n == MaxMorsel
  <2>1. m \in Int /\ n \in Int /\ first <= m /\ first <= n /\ first \in Nat
    BY <1>1
  <2> HIDE DEF m, n, first
  <2>2. Min({n, m}) = (IF n <= m THEN n ELSE m) /\ Min({n, m}) \in Int /\ Min({n, m}) <= n
    BY <2>1, MinOfTwo
  <2>3. Min({n, m}) \in Nat /\ first <= Min({n, m}) /\ Min({n, m}) <= n
    BY <2>1, <2>2
  <2> QED BY <2>3 DEF m, n
<1>3. pages = SubSeq(buffer, first + 1, last)
  BY DEF Morsel
<1>4. ToDo(t) = first + 1 .. last
  BY DEF ToDo
<1>5. buffer \in Seq(Nat \X Nat) /\ Len(buffer) = NumPages
  BY <1>1, Places, SortedPagesFacts
<1> HIDE DEF first, last, pages, buffer
<1>6. Len(pages) = last - first /\ \A i \in 1 .. last - first : pages[i] = buffer[first + i]
  <2> DEFINE m == first + 1
  <2>1. m \in Int /\ last \in Int /\ \A i \in m .. last : i \in 1 .. NumPages
    BY <1>1, <1>2
  <2>2. \A i \in m .. last : buffer[i] \in Nat \X Nat
    BY <1>5, <2>1
  <2>3. /\ Len(SubSeq(buffer, m, last)) = IF m <= last THEN last - m + 1 ELSE 0
        /\ \A i \in 1 .. last - m + 1 : SubSeq(buffer, m, last)[i] = buffer[m + i - 1]
    <3> HIDE DEF m
    <3> QED BY <2>1, <2>2, SubSeqProperties
  <2>4. last - m + 1 = last - first /\ (~(m <= last) => last - first = 0)
    BY <1>1, <1>2
  <2>5. \A i \in Int : m + i - 1 = first + i
    BY <1>1
  <2>6. Len(pages) = last - first
    BY <1>3, <2>3, <2>4
  <2>7. ASSUME NEW i \in 1 .. last - first
        PROVE  pages[i] = buffer[first + i]
    <3>1. pages[i] = buffer[m + i - 1]
      BY <1>3, <2>3, <2>4
    <3> QED BY <2>5, <3>1
  <2> QED BY <2>6, <2>7
<1>7. \A i \in 1 .. Len(pages) :
        first + i \in ToDo(t) /\ first + i \in 1 .. MaxMorsel /\ pages[i] = buffer[first + i]
  BY <1>1, <1>2, <1>4, <1>6
<1>8. \A j \in 1 .. MaxMorsel : buffer[j][2] = PageAt(j)
  BY DEF PageAt, buffer
<1>9. \A j \in ToDo(t) : j - first \in 1 .. Len(pages) /\ first + (j - first) = j
  BY <1>1, <1>2, <1>4, <1>6
<1>10. IsFiniteSet(ToDo(t)) /\ Cardinality(ToDo(t)) = Len(pages)
  <2>1. first + 1 \in Int /\ last \in Int
    BY <1>1, <1>2
  <2>2. IsFiniteSet(first + 1 .. last)
        /\ Cardinality(first + 1 .. last) = IF first + 1 > last THEN 0 ELSE last - (first + 1) + 1
    BY <2>1, FS_Interval
  <2> QED BY <1>1, <1>2, <1>4, <1>6, <2>2
<1>11. NewPages(heap[t], pages)
  <2>1. Len(pages) \in Nat
    BY <1>1, <1>2, <1>6
  <2>2. ASSUME NEW i \in 1 .. Len(pages)
        PROVE  /\ pages[i][2] \in DOMAIN Pages /\ pages[i] = AnchorDistance(query, pages[i][2])
               /\ \A x \in heap[t] : x[2][1] # pages[i][2]
               /\ \A j \in 1 .. Len(pages) : pages[i][2] = pages[j][2] => i = j
    <3>1. pages[i] = buffer[first + i] /\ pages[i][2] = PageAt(first + i) /\ first + i \in 1 .. MaxMorsel
      BY <1>7, <1>8
    <3>2. PageAt(first + i) \in DOMAIN Pages /\ buffer[first + i] = AnchorDistance(query, PageAt(first + i))
      BY <3>1, Places DEF buffer
    <3>3. ASSUME NEW j \in 1 .. Len(pages), pages[i][2] = pages[j][2]
          PROVE  i = j
      <4>1. pages[j][2] = PageAt(first + j) /\ first + j \in 1 .. MaxMorsel
        BY <1>7, <1>8
      <4>2. first + i = first + j
        BY <3>1, <3>3, <4>1, Places
      <4> QED BY <1>1, <2>1, <4>2
    <3>4. ASSUME NEW x \in heap[t], x[2][1] = pages[i][2]
          PROVE  FALSE
      <4>1. PICK j \in Visited : x[2][1] = PageAt(j)
        BY HeldFromVisited
      <4>2. j \in 1 .. MaxMorsel /\ j \notin Pending
        BY DEF Visited
      <4>3. j = first + i
        BY <3>1, <3>4, <4>1, <4>2, Places
      <4> QED BY <1>7, <4>2, <4>3 DEF Pending
    <3> QED BY <3>1, <3>2, <3>3, <3>4
  <2> QED BY <2>1, <2>2 DEF NewPages
<1>12. \A j \in ToDo(t) : PageAt(j) = pages[j - first][2]
  <2> TAKE j \in ToDo(t)
  <2>1. j - first \in 1 .. Len(pages) /\ first + (j - first) = j
    BY <1>9
  <2> QED BY <1>7, <1>8, <2>1
<1> QED BY <1>7, <1>8, <1>9, <1>10, <1>11, <1>12 DEF pages, first

LEMMA ScanIInv ==
  ASSUME IInv, NEW t \in Threads, Scan(t)
  PROVE  IInv'
<1> DEFINE pages == Morsel(morsel[t])
           after == VisitPages(heap[t], pages, shared_data)[Len(pages)]
<1>1. Searching /\ TypeOK /\ PlacesTaken /\ wpc[t] = "scan"
  BY WorkerSearches DEF Scan, Searching
<1>2. query \in Queries /\ shared_data \in Nat /\ IsHeap(heap[t]) /\ IsFiniteSet(Threads)
      /\ heap \in [Threads -> SUBSET Entries] /\ n_p \in [Threads -> Nat] /\ MaxMorsel \in Nat
      /\ n_p[t] \in Nat /\ n_pruned \in Nat /\ n_unscanned \in Nat
  BY <1>1, FoundTyped, Places DEF TypeOK
<1>3. /\ NewPages(heap[t], pages)
      /\ \A i \in 1 .. Len(pages) : morsel[t] + i \in ToDo(t) /\ pages[i][2] = PageAt(morsel[t] + i)
      /\ \A j \in ToDo(t) : j - morsel[t] \in 1 .. Len(pages) /\ PageAt(j) = pages[j - morsel[t]][2]
      /\ IsFiniteSet(ToDo(t)) /\ Cardinality(ToDo(t)) = Len(pages)
  BY <1>1, MorselPlaces
<1>4. heap' = [heap EXCEPT ![t] = after.heap] /\ n_p' = [n_p EXCEPT ![t] = @ + after.n_p]
      /\ scanned' = scanned \cup after.scanned
  BY DEF Scan, ScanMorsel
<1>5. MorselDone(heap[t], pages, shared_data, Len(pages), after)
  <2> HIDE DEF pages
  <2>1. Len(pages) \in Nat
    BY <1>3 DEF NewPages
  <2>2. Len(pages) \in 0 .. Len(pages)
    BY <2>1
  <2> QED BY <1>2, <1>3, <2>2, VisitPagesKeep
<1> HIDE DEF pages, after
<1> DEFINE g == after.heap
<1>6. /\ IsHeap(g) /\ Keeps(heap[t], g)
      /\ \A x \in g : x \in heap[t] \/ \E j \in ToDo(t) : x \in Members(query, PageAt(j))
      /\ \A j \in ToDo(t) : \A x \in Members(query, PageAt(j)) :
           Covers(g, x) \/ (x[1] > shared_data /\ shared_data # Infinity)
      /\ after.n_p \in Nat /\ IsFiniteSet(after.scanned)
      /\ after.scanned \subseteq {PageAt(j) : j \in ToDo(t)}
      /\ after.n_p + Cardinality(after.scanned) = Cardinality(ToDo(t))
  <2>1. \A j \in ToDo(t) : \E i \in 1 .. Len(pages) : PageAt(j) = pages[i][2]
    BY <1>3
  <2>2. \A i \in 1 .. Len(pages) : \E j \in ToDo(t) : PageAt(j) = pages[i][2]
    BY <1>3
  <2>3. after \in Scans
    BY <1>5 DEF MorselDone
  <2>4. after.n_p \in Nat
    BY <2>3 DEF Scans
  <2>5. \A x \in g : x \in heap[t] \/ \E j \in ToDo(t) : x \in Members(query, PageAt(j))
    BY <1>5, <2>2 DEF MorselDone
  <2>6. \A j \in ToDo(t) : \A x \in Members(query, PageAt(j)) :
           Covers(g, x) \/ (x[1] > shared_data /\ shared_data # Infinity)
    BY <1>5, <2>1 DEF MorselDone
  <2>7. after.scanned \subseteq {PageAt(j) : j \in ToDo(t)}
    BY <1>5, <2>2 DEF MorselDone
  <2> QED BY <1>3, <1>5, <2>4, <2>5, <2>6, <2>7 DEF MorselDone
<1> HIDE DEF g
<1>7. /\ wpc' \in [Threads -> {"done", "fill", "fetch", "scan", "publish", "cas"}]
      /\ wpc'[t] \in {"publish", "fetch"} /\ \A u \in Threads \ {t} : wpc'[u] = wpc[u]
      /\ morsel' \in [Threads -> Nat] /\ \A u \in Threads \ {t} : morsel'[u] = morsel[u]
      /\ heap' \in [Threads -> SUBSET Entries] /\ heap'[t] = g /\ \A u \in Threads \ {t} : heap'[u] = heap[u]
      /\ n_p' \in [Threads -> Nat] /\ n_p'[t] = n_p[t] + after.n_p /\ \A u \in Threads \ {t} : n_p'[u] = n_p[u]
  <2>1. g \in SUBSET Entries
    BY <1>6 DEF IsHeap
  <2>2. heap' = [heap EXCEPT ![t] = g]
    BY <1>4 DEF g
  <2>3. n_p' \in [Threads -> Nat] /\ n_p'[t] = n_p[t] + after.n_p /\ \A u \in Threads \ {t} : n_p'[u] = n_p[u]
    BY <1>2, <1>4, <1>6
  <2>4. heap' \in [Threads -> SUBSET Entries] /\ heap'[t] = g /\ \A u \in Threads \ {t} : heap'[u] = heap[u]
    BY <1>2, <2>1, <2>2
  <2>5. morsel' \in [Threads -> Nat] /\ \A u \in Threads \ {t} : morsel'[u] = morsel[u]
    BY <1>1 DEF Scan, TypeOK
  <2>6. wpc' \in [Threads -> {"done", "fill", "fetch", "scan", "publish", "cas"}]
        /\ wpc'[t] \in {"publish", "fetch"} /\ \A u \in Threads \ {t} : wpc'[u] = wpc[u]
    BY <1>1 DEF Scan, TypeOK
  <2> QED BY <2>3, <2>4, <2>5, <2>6
<1>8. /\ UNCHANGED <<n_threads, phase, query, probe, asked, dist_to_anchor_buffer, next_morsel, shared_data,
                     up_to_date_max, n_pruned, slot0, premature, n_unscanned>>
      /\ Threads' = Threads /\ MaxMorsel' = MaxMorsel /\ phase' = "search"
      /\ \A j : PageAt(j)' = PageAt(j)
  BY <1>1 DEF Scan, mainVars, Threads, MaxMorsel, PageAt, Searching
<1>9. ToDo(t)' = {} /\ \A u \in Threads \ {t} : ToDo(u)' = ToDo(u)
  BY <1>7, <1>8 DEF ToDo
<1>10. /\ Pending' = Pending \ ToDo(t) /\ ToDo(t) \subseteq Pending
       /\ Visited' = Visited \cup ToDo(t)
  <2>1. ToDo(t) \subseteq Pending /\ ToDo(t) \subseteq 1 .. MaxMorsel
    BY <1>1, Places DEF Pending
  <2>2. \A j \in ToDo(t) : j \notin Ahead /\ \A u \in Threads \ {t} : j \notin ToDo(u)
    <3>1. \A j \in ToDo(t) : j <= next_morsel /\ \A u \in Threads \ {t} : j \notin ToDo(u)
      BY <1>1 DEF PlacesTaken
    <3>2. next_morsel \in Nat /\ \A j \in ToDo(t) : j \in Int
      BY <1>1, <2>1 DEF TypeOK
    <3> QED BY <1>2, <3>1, <3>2 DEF Ahead
  <2>3. Pending' = Ahead \cup UNION {ToDo(u)' : u \in Threads}
    BY <1>8 DEF Pending, Ahead
  <2>4. Pending' = Pending \ ToDo(t)
    BY <1>9, <2>2, <2>3 DEF Pending
  <2> QED BY <1>8, <2>1, <2>4 DEF Visited
<1>11. \A x \in g : x \notin heap[t] => \E j \in ToDo(t) : x \in Members(query, PageAt(j)) /\ x[2][1] = PageAt(j)
  <2>1. \A j \in ToDo(t) : PageAt(j) \in DOMAIN Pages
    BY <1>1, Places
  <2>2. \A j \in ToDo(t) : \A x \in Members(query, PageAt(j)) : x[2][1] = PageAt(j) /\ x \in Entries
    BY <1>2, <2>1, MemberTyped DEF Members
  <2> QED BY <1>6, <2>2
<1>12. \A x \in g : \A u \in Threads \ {t} : x \notin heap[u]
  <2> SUFFICES ASSUME NEW x \in g, NEW u \in Threads \ {t}, x \in heap[u] PROVE FALSE
    OBVIOUS
  <2>1. x \notin heap[t]
    BY <1>1 DEF Searching, HeapsApart
  <2>2. PICK j \in ToDo(t) : x[2][1] = PageAt(j)
    BY <1>11, <2>1
  <2>3. PICK k \in Visited : x[2][1] = PageAt(k)
    BY <1>1, HeldFromVisited
  <2>4. j = k
    BY <1>1, <2>2, <2>3, Places
  <2> QED BY <1>10, <2>4 DEF Visited
<1>13. HeapsApart'
  <2>1. ASSUME NEW u \in Threads, NEW x \in heap'[u]
        PROVE  \E j \in Visited' : \E i \in DOMAIN Pages[PageAt(j)] : x = Member(query, PageAt(j), i)
    <3>1. CASE \E v \in Threads : x \in heap[v]
      BY <1>1, <1>10, <3>1 DEF Searching, HeapsApart
    <3>2. CASE ~\E v \in Threads : x \in heap[v]
      <4>1. x \in g /\ x \notin heap[t]
        BY <1>7, <2>1, <3>2
      <4> QED BY <1>10, <1>11, <4>1 DEF Members
    <3> QED BY <3>1, <3>2
  <2>2. ASSUME NEW u \in Threads, NEW x \in heap'[u], NEW v \in Threads \ {u}, x \in heap'[v]
        PROVE  FALSE
    <3>1. CASE u = t
      BY <1>7, <1>12, <2>2, <3>1
    <3>2. CASE v = t
      BY <1>7, <1>12, <2>2, <3>2
    <3>3. CASE u # t /\ v # t
      <4>1. x \in heap[u] /\ x \in heap[v]
        BY <1>7, <2>2, <3>3
      <4> QED BY <1>1, <4>1 DEF Searching, HeapsApart
    <3> QED BY <3>1, <3>2, <3>3
  <2> QED BY <1>8, <2>1, <2>2 DEF HeapsApart
<1>14. \A u \in Threads : Keeps(heap[u], heap'[u])
  BY <1>6, <1>7 DEF Keeps
<1>15. ~premature' => VisitedCovered' /\ BoundHeld'
  <2> SUFFICES ASSUME ~premature' PROVE VisitedCovered' /\ BoundHeld'
    OBVIOUS
  <2>1. VisitedCovered /\ BoundHeld
    BY <1>1, <1>8 DEF Searching
  <2>2. shared_data # Infinity => \E u \in Threads : Dominated(heap'[u], shared_data)
    BY <1>2, <1>14, <2>1 DEF BoundHeld, Keeps
  <2>3. ASSUME NEW j \in Visited \cup ToDo(t), NEW i \in DOMAIN Pages[PageAt(j)]
        PROVE  \E u \in Threads : Covers(heap'[u], Member(query, PageAt(j), i))
    <3> DEFINE x == Member(query, PageAt(j), i)
    <3>1. x \in Entries /\ x[1] \in Nat
      <4>1. PageAt(j) \in DOMAIN Pages
        BY <1>1, Places
      <4> QED BY <1>2, <4>1, MemberTyped
    <3>2. CASE j \in Visited
      <4>1. PICK u \in Threads : Covers(heap[u], x)
        BY <2>1, <3>2 DEF VisitedCovered
      <4> HIDE DEF x
      <4> QED BY <1>14, <3>1, <4>1 DEF Keeps, x
    <3>3. CASE j \in ToDo(t)
      <4>1. Covers(g, x) \/ (x[1] > shared_data /\ shared_data # Infinity)
        BY <1>6, <3>3 DEF Members
      <4> HIDE DEF x
      <4>2. CASE Covers(g, x)
        BY <1>7, <4>2 DEF x
      <4>3. CASE x[1] > shared_data /\ shared_data # Infinity
        <5>1. PICK u \in Threads : Dominated(heap'[u], shared_data)
          BY <2>2, <4>3
        <5>2. \A e \in heap'[u] : e[1] \in Nat
          BY <1>7 DEF Entries
        <5>3. Dominated(heap'[u], x[1])
          BY <1>2, <3>1, <4>3, <5>1, <5>2 DEF Dominated
        <5> QED BY <5>3 DEF Covers, x
      <4> QED BY <4>1, <4>2, <4>3
    <3> QED BY <3>2, <3>3
  <2> QED BY <1>8, <1>10, <2>2, <2>3 DEF VisitedCovered, BoundHeld
<1>16. PagesAccounted'
  <2>1. scanned \subseteq {PageAt(j) : j \in Visited}
        /\ n_pruned + Cardinality(Skips) + Cardinality(scanned) + Cardinality(Pending) = n_unscanned + MaxMorsel
    BY <1>1 DEF Searching, PagesAccounted
  <2>2. scanned' \subseteq {PageAt(j) : j \in Visited'}
    BY <1>4, <1>6, <1>10, <2>1
  <2>3. scanned \cap after.scanned = {}
    <3> SUFFICES ASSUME NEW p \in scanned, p \in after.scanned PROVE FALSE
      OBVIOUS
    <3>1. PICK j \in Visited : p = PageAt(j)
      BY <2>1
    <3>2. PICK k \in ToDo(t) : p = PageAt(k)
      BY <1>6
    <3>3. j = k
      BY <1>1, <3>1, <3>2, Places
    <3> QED BY <1>10, <3>3 DEF Visited
  <2>4. IsFiniteSet(scanned)
    <3>1. scanned \subseteq DOMAIN Pages
      BY <1>1, <2>1, Places
    <3>2. IsFiniteSet(DOMAIN Pages)
      BY PagesTyped, FS_Interval
    <3> QED BY <3>1, <3>2, FS_Subset
  <2>5. /\ Cardinality(scanned) \in Nat /\ Cardinality(after.scanned) \in Nat
        /\ Cardinality(scanned') = Cardinality(scanned) + Cardinality(after.scanned)
    <3>1. Cardinality(scanned) \in Nat /\ Cardinality(after.scanned) \in Nat
      BY <1>6, <2>4, FS_CardinalityType
    <3>2. Cardinality(scanned \cup after.scanned)
            = Cardinality(scanned) + Cardinality(after.scanned) - Cardinality(scanned \cap after.scanned)
      BY <1>6, <2>4, FS_Union
    <3>3. Cardinality(scanned \cap after.scanned) = 0
      BY <2>3, FS_EmptySet
    <3> QED BY <1>4, <3>1, <3>2, <3>3
  <2>6. /\ Cardinality(Pending') = Cardinality(Pending) - Cardinality(ToDo(t))
        /\ Cardinality(Pending) \in Nat /\ Cardinality(ToDo(t)) \in Nat
    <3>1. IsFiniteSet(Pending) /\ IsFiniteSet(ToDo(t))
      BY <1>1, <1>3, Places
    <3>2. Cardinality(Pending \ ToDo(t)) = Cardinality(Pending) - Cardinality(Pending \cap ToDo(t))
      BY <3>1, FS_Difference
    <3>3. Pending \cap ToDo(t) = ToDo(t)
      BY <1>10
    <3> QED BY <1>10, <3>1, <3>2, <3>3, FS_CardinalityType
  <2>7. Cardinality(Skips') = Cardinality(Skips) + after.n_p /\ Cardinality(Skips) \in Nat
    <3>1. Skips = SkipsOf(Threads, n_p) /\ Skips' = SkipsOf(Threads, n_p')
      BY <1>8 DEF Skips, SkipsOf
    <3>2. /\ Cardinality(SkipsOf(Threads, n_p)) \in Nat
          /\ Cardinality(SkipsOf(Threads, n_p')) = Cardinality(SkipsOf(Threads, n_p)) - n_p[t] + n_p'[t]
      BY <1>2, <1>7, SkipsChange
    <3> QED BY <1>2, <1>6, <1>7, <3>1, <3>2
  <2>8. n_pruned' + Cardinality(Skips') + Cardinality(scanned') + Cardinality(Pending') = n_unscanned' + MaxMorsel'
    BY <1>2, <1>6, <1>8, <2>1, <2>5, <2>6, <2>7
  <2> QED BY <1>8, <2>2, <2>8 DEF PagesAccounted
<1>17. PlacesTaken'
  <2>1. ASSUME NEW u \in Threads
        PROVE  /\ wpc'[u] # "fill"
               /\ wpc'[u] = "done" => next_morsel' >= MaxMorsel' /\ n_p'[u] = 0
               /\ wpc'[u] = "scan" => morsel'[u] < MaxMorsel'
               /\ wpc'[u] = "cas" => up_to_date_max'[u] > Top(u)'
    <3>1. CASE u = t
      BY <1>7, <3>1
    <3>2. CASE u # t
      <4>1. Top(u)' = Top(u)
        BY <1>7, <1>8, <3>2 DEF Top
      <4> QED BY <1>1, <1>7, <1>8, <3>2, <4>1 DEF PlacesTaken
    <3> QED BY <3>1, <3>2
  <2>2. ASSUME NEW u \in Threads, NEW j \in ToDo(u)'
        PROVE  j <= next_morsel' /\ \A v \in Threads \ {u} : j \notin ToDo(v)'
    <3>1. u # t /\ j \in ToDo(u)
      BY <1>9, <2>2
    <3>2. j <= next_morsel /\ \A v \in Threads \ {u} : j \notin ToDo(v)
      BY <1>1, <3>1 DEF PlacesTaken
    <3> QED BY <1>8, <1>9, <3>2
  <2> QED BY <1>8, <2>1, <2>2 DEF PlacesTaken
<1>18. TypeOK'
  <2>1. \A u \in Threads : IsHeap(heap'[u])
    BY <1>1, <1>6, <1>7 DEF TypeOK
  <2> QED BY <1>1, <1>7, <1>8, <2>1 DEF TypeOK
<1>19. BufferIsFresh' /\ ~Answered'
  BY <1>1, <1>8 DEF Searching, BufferIsFresh, Answered
<1> QED BY <1>8, <1>13, <1>15, <1>16, <1>17, <1>18, <1>19
        DEF IInv, NoVectorTwice, ExactUnlessPremature, ExactAnswer

-----------------------------------------------------------------------------
(***************************************************************************)
(* The theorems.                                                           *)
(***************************************************************************)
LEMMA NextIInv ==
  ASSUME IInv, [Next]_vars
  PROVE  IInv'
<1>1. CASE UNCHANGED vars
  <2>1. /\ Threads' = Threads /\ MaxMorsel' = MaxMorsel /\ Answered' = Answered
        /\ \A t \in Threads : Top(t)' = Top(t) /\ ToDo(t)' = ToDo(t)
    BY <1>1 DEF vars, mainVars, workVars, Threads, MaxMorsel, Answered, Top, ToDo
  <2>2. TypeOK'
    BY <1>1, <2>1 DEF IInv, TypeOK, vars, mainVars, workVars
  <2>3. phase = "fill" => SlicesFilled'
    BY <1>1, <2>1 DEF IInv, SlicesFilled, vars, mainVars
  <2>4. phase = "search" => BufferIsFresh' /\ HeapsApart' /\ PagesAccounted' /\ (~premature => VisitedCovered')
    <3>1. phase = "search" => Searching
      BY DEF IInv, Searching
    <3>2. UNCHANGED <<mainVars, next_morsel, morsel, heap, n_p, n_pruned, scanned, n_unscanned, wpc>>
      BY <1>1 DEF vars, workVars
    <3> QED BY <3>1, <3>2, QuietStep DEF Searching
  <2>5. phase = "search" => PlacesTaken' /\ (~premature => BoundHeld')
    BY <1>1, <2>1 DEF IInv, PlacesTaken, BoundHeld, vars, mainVars, workVars
  <2>6. NoVectorTwice' /\ ExactUnlessPremature'
    BY <1>1, <2>1 DEF IInv, NoVectorTwice, ExactUnlessPremature, ExactAnswer, vars, mainVars
  <2> QED BY <1>1, <2>1, <2>2, <2>3, <2>4, <2>5, <2>6 DEF IInv, vars, mainVars, workVars
<1>2. CASE \E q \in Queries, n \in Probes : AskParallel(q, n) \/ AskAlone(q, n)
  BY <1>2, AskParallelIInv, AskAloneIInv
<1>3. CASE MainStep
  BY <1>3, EndFillIInv, CollectIInv DEF MainStep
<1>4. CASE \E t \in Threads : Worker(t)
  BY <1>4, FillSliceIInv, FetchMorselIInv, ScanIInv, PublishIInv, CompareExchangeIInv DEF Worker
<1> QED BY <1>1, <1>2, <1>3, <1>4 DEF Next

\* The inductive invariant: while a search runs, no place of the buffer is lost or
\* taken twice, no vector is in two workers' heaps, and, as long as no bound was
\* published too early, every visited vector is in a heap or no nearer than the K
\* entries of one.
THEOREM SpecIInv == Spec => []IInv
<1>1. Init => IInv
  BY InitIInv
<1>2. IInv /\ [Next]_vars => IInv'
  BY NextIInv
<1> QED BY <1>1, <1>2, PTL DEF Spec

\* With the page bound of mode exact, the answer has the distances of the K
\* nearest vectors of the probed pages, unless a worker published a bound it had no
\* K vectors for (README's claim for mode exact, which without that condition is
\* false).
THEOREM SpecExact == Spec => []ExactUnlessPremature
<1>1. IInv => ExactUnlessPremature
  BY DEF IInv
<1> QED BY <1>1, SpecIInv, PTL

\* No entry of an answer is a wrong distance or a vector already returned.
THEOREM SpecNoVectorTwice == Spec => []NoVectorTwice
<1>1. IInv => NoVectorTwice
  BY DEF IInv
<1> QED BY <1>1, SpecIInv, PTL

\* The fill leaves no distance of an earlier query and forgets no page, however the
\* pages are divided over the workers.
THEOREM SpecBufferIsFresh == Spec => []BufferIsFresh
<1>1. IInv => BufferIsFresh
  BY DEF IInv, BufferIsFresh
<1> QED BY <1>1, SpecIInv, PTL

\* After each query the pruning count is that of the pages no worker scanned.
THEOREM SpecPruningIsCounted == Spec => []PruningIsCounted
<1>1. IInv => PruningIsCounted
  BY DEF IInv, PruningIsCounted
<1> QED BY <1>1, SpecIInv, PTL

\* The bound the workers prune with never undercuts the K-th nearest distance.
THEOREM SpecBoundIsReached == Spec => []BoundIsReached
<1>1. IInv => BoundIsReached
  <2> SUFFICES ASSUME IInv, phase = "search", ~premature, shared_data # Infinity
               PROVE  LET nearest == Nearest[query][probe]
                      IN Len(nearest) >= K /\ shared_data >= nearest[K][1]
    BY DEF BoundIsReached
  <2> DEFINE C == Candidates[query][probe]
             n == Cardinality(C)
  <2>1. Searching /\ query \in Queries /\ probe \in Probes /\ shared_data \in Nat
    BY DEF IInv, Searching, TypeOK
  <2>2. PICK t \in Threads : Dominated(heap[t], shared_data)
    BY DEF IInv, BoundHeld
  <2>3. heap[t] \in SUBSET C /\ Cardinality(heap[t]) = K /\ \A x \in heap[t] : x[1] <= shared_data
    BY <2>1, <2>2, HeldFromVisited DEF Dominated
  <2>4. C \in SUBSET Entries /\ IsFiniteSet(C) /\ Nearest[query][probe] = Sorted(C) /\ K \in Nat \ {0}
    BY <2>1, CandidatesFacts, PagedVectorsAssumption DEF Nearest
  <2> HIDE DEF C
  <2>5. K <= Cardinality(heap[t])
    BY <2>3, <2>4
  <2>6. K \in 1 .. n /\ Sorted(C)[K] \in C /\ Sorted(C)[K][1] <= shared_data
    BY <2>1, <2>3, <2>4, <2>5, RankBound
  <2>7. n \in Nat /\ Len(Sorted(C)) = n
    <3>1. n \in Nat
      BY <2>4, FS_CardinalityType
    <3>2. Sorted(C) \in [1 .. n -> C]
      BY <2>4, SortedByDistance DEF Lists
    <3> HIDE DEF n
    <3> QED BY <3>1, <3>2
  <2>8. Sorted(C)[K][1] \in Nat
    BY <2>4, <2>6 DEF Entries
  <2> QED BY <2>1, <2>4, <2>6, <2>7, <2>8
<1> QED BY <1>1, SpecIInv, PTL

\* A worker that lost a race never puts an older, larger bound back.
THEOREM SpecBoundOnlyFalls == Spec => BoundOnlyFalls
<1>1. IInv /\ [Next]_vars => [phase = "search" /\ phase' = "search" => shared_data' <= shared_data]_vars
  <2> SUFFICES ASSUME IInv, Next, phase = "search", phase' = "search"
               PROVE  shared_data' <= shared_data
    OBVIOUS
  <2>1. shared_data \in Nat
    BY DEF IInv, TypeOK
  <2>2. CASE shared_data' = shared_data
    BY <2>1, <2>2
  <2>3. CASE shared_data' # shared_data
    <3>1. PICK t \in Threads : CompareExchange(t)
      BY <2>3 DEF Next, AskParallel, AskAlone, Ask, MainStep, EndFill, Collect,
                  Worker, FillSlice, FetchMorsel, Fetch, Scan, Publish, mainVars
    <3> QED BY <3>1, CompareExchangeIInv
  <2> QED BY <2>2, <2>3
<1> QED BY <1>1, SpecIInv, PTL DEF Spec, BoundOnlyFalls
=============================================================================
