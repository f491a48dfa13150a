-------------------------- MODULE BenchmarkProofs --------------------------
(***************************************************************************)
(* What the two benchmark programs rest on.                                *)
(*                                                                         *)
(* BaselineScan, for every base file, every k and every number of queries: *)
(* the rows of the baseline hold the k nearest vectors, a miss is a tie,   *)
(* and the summary is made of percentiles.  For the rows the argument is   *)
(* the usual one of a bounded priority queue: it holds the nearest K of    *)
(* the vectors offered so far, HeapIsNearest.                              *)
(*                                                                         *)
(* BenchmarkRun, for all option sets, any truth, page size and number of   *)
(* runs and kills: the metrics are honest, an exact search has the hits it *)
(* should have, copies in the index and bounds published early aside, and  *)
(* reusing an index leaves it alone.  The invariant says of the index path *)
(* whether it can be trusted (IndexTrue), of a run that builds what it has *)
(* made so far (OwnBuild), and of a loaded index and of what was found how *)
(* they relate to the options (Searched).                                  *)
(***************************************************************************)
EXTENDS BaselineScan, BenchmarkRun, FunctionTheorems, FiniteSetTheorems, SequenceTheorems, TLAPS

(***************************************************************************)
(* BaselineScan.                                                           *)
(***************************************************************************)
LEMMA EntryTyped ==
  ASSUME TypeOK, NEW q \in Queries, NEW id \in Ids
  PROVE  distance[q][id] \in Nat /\ Entry(q, id) = <<distance[q][id], id>>
  BY BaselineScanAssumption DEF TypeOK, Entry

LEMMA Positions ==
  /\ 0 \in Queries /\ 0 \in Ids /\ K \in Nat \ {0} /\ NBase \in Nat
  /\ \A id \in Ids : id \in Nat
  /\ \A q \in Queries : (q + 1) % NQuery \in Queries /\ q \in Nat
  /\ \A q \in Queries : q + 1 < NQuery => (q + 1) % NQuery = q + 1
  /\ \A q \in Queries : ~(q + 1 < NQuery) => (q + 1) % NQuery = 0 /\ q = NQuery - 1
<1> USE BaselineScanAssumption DEF Queries, Ids
<1>1. 0 \in Queries /\ 0 \in Ids /\ K \in Nat \ {0}
  OBVIOUS
<1>2. ASSUME NEW q \in Queries, q + 1 < NQuery
      PROVE  (q + 1) % NQuery = q + 1
  BY <1>2
<1>3. ASSUME NEW q \in Queries, ~(q + 1 < NQuery)
      PROVE  (q + 1) % NQuery = 0 /\ q = NQuery - 1
  <2>1. q + 1 = NQuery
    BY <1>3
  <2> QED BY <2>1
<1> QED BY <1>1, <1>2, <1>3

LEMMA InitIInv == Init => IInv
<1> SUFFICES ASSUME Init
             PROVE  IInv
  OBVIOUS
<1> USE DEF Init
<1>1. TypeOK
  <2>1. NoRow \in [Ranks -> Ids]
    BY Positions DEF NoRow
  <2>2. 0 \in 0 .. NBase
    BY Positions
  <2> QED BY <2>1, <2>2, Positions DEF TypeOK
<1>2. HeapIsNearest
  <2>1. Offered = {}
    BY DEF Offered
  <2> QED BY <2>1, FS_EmptySet, Positions DEF HeapIsNearest
<1>3. RowIsNearest
  BY Positions DEF RowIsNearest, Answered
<1> QED BY <1>1, <1>2, <1>3 DEF IInv

(***************************************************************************)
(* A vector is offered.                                                    *)
(***************************************************************************)
LEMMA OfferFacts ==
  ASSUME IInv, Scanning, NextVector
  PROVE  /\ TypeOK' /\ RowIsNearest'
         /\ Offered' = Offered \cup {Current} /\ Current \notin Offered
         /\ Current[1] \in Nat /\ Current[2] = vector_index
         /\ vector_index \in Nat /\ vector_index' = vector_index + 1
         /\ \A x \in Offered : x[1] \in Nat /\ x[2] \in Nat /\ x[2] < vector_index
                               /\ x = <<x[1], x[2]>>
<1> USE DEF IInv, Scanning, NextVector
<1>1. vector_index \in Ids /\ query_index \in Queries /\ vector_index' \in 0 .. NBase
  BY Positions DEF TypeOK, Ids
<1>2. TypeOK'
  BY <1>1 DEF TypeOK
<1>3. RowIsNearest'
  BY DEF RowIsNearest, Answered, Entry, RowIds
<1>4. Current = <<distance[query_index][vector_index], vector_index>> /\ Current[1] \in Nat
  BY <1>1, EntryTyped DEF Current
<1>5. 0 .. vector_index' - 1 = (0 .. vector_index - 1) \cup {vector_index}
  BY <1>1, Positions DEF Ids
<1>6. Offered' = Offered \cup {Current}
  BY <1>5 DEF Offered, Current, Entry
<1>7. ASSUME NEW x \in Offered
      PROVE  x[1] \in Nat /\ x[2] \in Nat /\ x[2] < vector_index /\ x = <<x[1], x[2]>>
  <2>1. PICK id \in 0 .. vector_index - 1 : x = Entry(query_index, id)
    BY DEF Offered
  <2>2. id \in Ids /\ id < vector_index /\ id \in Nat
    BY <1>1, Positions DEF Ids
  <2> QED BY <1>1, <2>1, <2>2, EntryTyped
<1>8. Current \notin Offered
  BY <1>1, <1>4, <1>7, Positions
<1> QED BY <1>1, <1>2, <1>3, <1>4, <1>6, <1>7, <1>8, Positions

LEMMA PushIInv == IInv /\ Push => IInv'
<1> SUFFICES ASSUME IInv, Push
             PROVE  IInv'
  OBVIOUS
<1>1. Scanning /\ NextVector /\ Cardinality(heap) < K /\ heap' = heap \cup {Current}
  BY DEF Push
<1>2. HeapIsNearest
  BY <1>1 DEF IInv, Scanning
<1>3. heap = Offered /\ Cardinality(heap) = vector_index /\ IsFiniteSet(heap)
  BY <1>1, <1>2 DEF HeapIsNearest
<1>4. IsFiniteSet(heap') /\ Cardinality(heap') = vector_index'
  BY <1>1, <1>3, OfferFacts, FS_AddElement
<1>5. HeapIsNearest'
  BY <1>1, <1>3, <1>4, OfferFacts, Positions DEF HeapIsNearest
<1> QED BY <1>1, <1>5, OfferFacts DEF IInv

LEMMA ReplaceIInv == IInv /\ Replace => IInv'
<1> SUFFICES ASSUME IInv, Replace
             PROVE  IInv'
  OBVIOUS
<1>1. Scanning /\ NextVector /\ ~(Cardinality(heap) < K)
  BY DEF Replace
<1>2. PICK top \in heap : /\ IsTop(top) /\ Current[1] < top[1]
                          /\ heap' = (heap \ {top}) \cup {Current}
  BY DEF Replace
<1>3. HeapIsNearest
  BY <1>1 DEF IInv, Scanning
<1>4. /\ heap \subseteq Offered /\ IsFiniteSet(heap) /\ Cardinality(heap) = K
      /\ \A x \in heap, y \in Offered \ heap : Before(x, y)
  <2>1. Cardinality(heap) \in Nat
    BY <1>3, FS_CardinalityType DEF HeapIsNearest
  <2> QED BY <1>1, <1>3, <2>1, Positions DEF HeapIsNearest
<1>5. IsFiniteSet(heap') /\ Cardinality(heap') = K
  <2>1. IsFiniteSet(heap \ {top}) /\ Cardinality(heap \ {top}) = K - 1
    BY <1>4, FS_RemoveElement
  <2>2. Current \notin heap \ {top}
    BY <1>1, <1>4, OfferFacts
  <2>3. Cardinality(heap') = K - 1 + 1
    BY <1>2, <2>1, <2>2, FS_AddElement
  <2> QED BY <1>2, <2>1, <2>3, FS_AddElement, Positions
<1>6. ASSUME NEW x \in heap', NEW y \in Offered' \ heap'
      PROVE  Before(x, y)
  <2>1. y \in Offered /\ (y = top \/ y \notin heap)
    BY <1>1, <1>2, <1>6, OfferFacts
  <2>2. Before(top, y) \/ y = top
    BY <1>4, <2>1
  <2>3. CASE x = Current
    <3>1. Current[1] < y[1]
      BY <1>1, <1>2, <1>4, <2>1, <2>2, OfferFacts DEF Before
    <3> QED BY <2>3, <3>1 DEF Before
  <2>4. CASE x \in heap /\ x # top
    BY <1>2, <1>4, <2>1, <2>4 DEF IsTop
  <2> QED BY <1>2, <1>6, <2>3, <2>4
<1>7. heap' \subseteq Offered'
  BY <1>1, <1>2, <1>4, OfferFacts
<1>8. HeapIsNearest'
  BY <1>5, <1>6, <1>7, Positions DEF HeapIsNearest
<1> QED BY <1>1, <1>8, OfferFacts DEF IInv

\* A vector that is no nearer than the top comes after it, being later in the file.
LEMMA KeepIInv == IInv /\ Keep => IInv'
<1> SUFFICES ASSUME IInv, Keep
             PROVE  IInv'
  OBVIOUS
<1>1. Scanning /\ NextVector /\ ~(Cardinality(heap) < K) /\ heap' = heap
  BY DEF Keep
<1>2. PICK top \in heap : IsTop(top) /\ ~(Current[1] < top[1])
  BY DEF Keep
<1>3. HeapIsNearest
  BY <1>1 DEF IInv, Scanning
<1>4. Before(top, Current)
  BY <1>1, <1>2, <1>3, OfferFacts DEF HeapIsNearest, Before
<1>5. ASSUME NEW x \in heap
      PROVE  Before(x, Current)
  <2>1. x = top \/ Before(x, top)
    BY <1>2, <1>5 DEF IsTop
  <2>2. /\ x[1] \in Nat /\ x[2] \in Nat /\ top[1] \in Nat /\ top[2] \in Nat
        /\ Current[1] \in Nat /\ Current[2] \in Nat
    BY <1>1, <1>2, <1>3, <1>5, OfferFacts DEF HeapIsNearest
  <2> QED BY <1>4, <2>1, <2>2 DEF Before
<1>6. HeapIsNearest'
  BY <1>1, <1>3, <1>5, OfferFacts DEF HeapIsNearest
<1> QED BY <1>1, <1>6, OfferFacts DEF IInv

(***************************************************************************)
(* The queue becomes the row.                                              *)
(***************************************************************************)
LEMMA PoppedIsHeap ==
  ASSUME IInv, pc = "scan", vector_index = NBase, NEW row \in Popped
  PROVE  \A x \in heap : \E rank \in Ranks : row[rank] = x
<1> USE DEF IInv
<1>1. IsFiniteSet(heap) /\ Cardinality(heap) = K
  <2>1. Cardinality(heap) \in Nat
    BY FS_CardinalityType DEF HeapIsNearest
  <2> QED BY <2>1, BaselineScanAssumption DEF HeapIsNearest
<1>2. Cardinality(Ranks) = K
  BY FS_Interval, Positions DEF Ranks
<1>3. \A x \in heap : x[1] \in Nat /\ x[2] \in Nat
  <2>1. ASSUME NEW x \in heap
        PROVE  x[1] \in Nat /\ x[2] \in Nat
    <3>1. PICK id \in 0 .. NBase - 1 : x = Entry(query_index, id)
      BY DEF HeapIsNearest, Offered
    <3> QED BY <3>1, EntryTyped, Positions DEF TypeOK, Ids
  <2> QED BY <2>1
<1>4. row \in Injection(Ranks, heap)
  <2>1. row \in [Ranks -> heap]
    BY DEF Popped
  <2>2. ASSUME NEW r \in Ranks, NEW s \in Ranks, r < s
        PROVE  row[r] # row[s]
    <3>1. Before(row[r], row[s])
      BY <2>2 DEF Popped
    <3> QED BY <1>3, <2>1, <3>1 DEF Before
  <2>3. \A r, s \in Ranks : r # s => r < s \/ s < r
    BY DEF Ranks
  <2> QED BY <2>1, <2>2, <2>3 DEF Injection, IsInjective
<1>5. row \in Surjection(Ranks, heap)
  BY <1>1, <1>2, <1>4, FS_Injection
<1> QED BY <1>5 DEF Surjection

LEMMA EmitRowIInv == IInv /\ EmitRow => IInv'
<1> SUFFICES ASSUME IInv, EmitRow
             PROVE  IInv'
  OBVIOUS
<1> USE DEF IInv
<1> DEFINE q == query_index
<1>1. PICK row \in Popped :
        results' = [results EXCEPT ![q] = [rank \in Ranks |-> row[rank][2]]]
  BY DEF EmitRow
<1>2. /\ pc = "scan" /\ vector_index = NBase /\ heap' = {} /\ vector_index' = 0
      /\ query_index' = (q + 1) % NQuery /\ distance' = distance
      /\ pc' = IF q + 1 < NQuery THEN "scan" ELSE "measure"
  BY DEF EmitRow
<1>3. HeapIsNearest /\ q \in Queries
  BY <1>2 DEF TypeOK
<1>4. ASSUME NEW rank \in Ranks
      PROVE  row[rank] \in heap /\ row[rank][2] \in Ids /\ row[rank] = Entry(q, row[rank][2])
  <2>1. row[rank] \in heap
    BY DEF Popped
  <2>2. PICK id \in 0 .. NBase - 1 : row[rank] = Entry(q, id)
    BY <1>2, <1>3, <2>1 DEF HeapIsNearest, Offered
  <2> QED BY <1>3, <2>1, <2>2, EntryTyped DEF Ids
<1>5. TypeOK'
  <2>1. [rank \in Ranks |-> row[rank][2]] \in [Ranks -> Ids]
    BY <1>4
  <2>2. 0 \in 0 .. NBase
    BY Positions
  <2> QED BY <1>1, <1>2, <1>3, <2>1, <2>2, Positions DEF TypeOK
<1>6. HeapIsNearest'
  <2>1. Offered' = {}
    BY <1>2 DEF Offered
  <2> QED BY <1>2, <2>1, FS_EmptySet, Positions DEF HeapIsNearest
<1>7. RowIsNearest'
  <2> SUFFICES ASSUME NEW p \in Queries, Answered(p)'
               PROVE  /\ \A r, s \in Ranks : r < s =>
                           Before(Entry(p, results'[p][r]), Entry(p, results'[p][s]))
                      /\ \A a \in RowIds(p)', b \in Ids \ RowIds(p)' :
                           Before(Entry(p, a), Entry(p, b))
    BY <1>2 DEF RowIsNearest, Entry
  <2>1. CASE p = q
    <3>1. \A rank \in Ranks : results'[p][rank] = row[rank][2]
      BY <1>1, <1>3, <2>1 DEF TypeOK
    <3>2. ASSUME NEW r \in Ranks, NEW s \in Ranks, r < s
          PROVE  Before(Entry(p, results'[p][r]), Entry(p, results'[p][s]))
      BY <1>4, <2>1, <3>1, <3>2 DEF Popped
    <3>3. ASSUME NEW a \in RowIds(p)', NEW b \in Ids \ RowIds(p)'
          PROVE  Before(Entry(p, a), Entry(p, b))
      <4>1. PICK rank \in Ranks : a = row[rank][2]
        BY <3>1 DEF RowIds
      <4>2. Entry(p, a) \in heap
        BY <1>4, <2>1, <4>1
      <4>3. Entry(p, b) \in Offered
        BY <1>2, <2>1 DEF Offered, Ids
      <4>4. Entry(p, b) \notin heap
        <5>1. SUFFICES ASSUME Entry(p, b) \in heap
                       PROVE  FALSE
          OBVIOUS
        <5>2. PICK other \in Ranks : row[other] = Entry(p, b)
          BY <1>2, <5>1, PoppedIsHeap
        <5>3. row[other][2] = b
          BY <5>2 DEF Entry
        <5> QED BY <3>1, <5>3 DEF RowIds
      <4> QED BY <1>3, <4>2, <4>3, <4>4 DEF HeapIsNearest
    <3> QED BY <3>2, <3>3
  <2>2. CASE p # q
    <3>1. p < q
      <4>1. CASE q + 1 < NQuery
        BY <1>2, <1>3, <2>2, <4>1, Positions DEF Answered, Queries
      <4>2. CASE ~(q + 1 < NQuery)
        BY <1>3, <2>2, <4>2, Positions, BaselineScanAssumption DEF Queries
      <4> QED BY <4>1, <4>2
    <3>2. results'[p] = results[p] /\ RowIds(p)' = RowIds(p) /\ Answered(p)
      BY <1>1, <2>2, <3>1 DEF TypeOK, RowIds, Answered
    <3> QED BY <3>2 DEF RowIsNearest
  <2> QED BY <2>1, <2>2
<1> QED BY <1>5, <1>6, <1>7

LEMMA MeasureIInv == IInv /\ MeasureQuery => IInv'
<1> SUFFICES ASSUME IInv, MeasureQuery
             PROVE  IInv'
  OBVIOUS
<1> USE DEF IInv
<1>1. /\ pc = "measure" /\ pc' \in {"measure", "done"} /\ query_index' = (query_index + 1) % NQuery
      /\ UNCHANGED <<distance, vector_index, heap, results>>
  BY DEF MeasureQuery
<1>2. TypeOK'
  BY <1>1, Positions DEF TypeOK
<1>3. RowIsNearest'
  BY <1>1 DEF RowIsNearest, Answered, Entry, RowIds
<1> QED BY <1>1, <1>2, <1>3

LEMMA NextIInv == IInv /\ [Next]_vars => IInv'
<1> SUFFICES ASSUME IInv, [Next]_vars
             PROVE  IInv'
  OBVIOUS
<1>1. CASE UNCHANGED vars
  BY <1>1 DEF vars, IInv, TypeOK, HeapIsNearest, Offered, RowIsNearest, Answered, Entry, RowIds
<1> QED BY <1>1, PushIInv, ReplaceIInv, KeepIInv, EmitRowIInv, MeasureIInv DEF Next, Finished

\* The queue of the query being scanned holds the nearest K of the vectors offered.
THEOREM SpecIInv == Spec => []IInv
  BY InitIInv, NextIInv, PTL DEF Spec

\* baseline.cpp:49-77: every row the baseline reports holds the K nearest vectors of
\* the file in order, ties to the earlier vector.
THEOREM SpecRowIsNearest == Spec => []RowIsNearest
<1>1. IInv => RowIsNearest
  BY DEF IInv
<1> QED BY <1>1, SpecIInv, PTL

(***************************************************************************)
(* Sums over finite sets.  The sum MapThenSumSet computes takes the members *)
(* in an order of its own; it is shown not to depend on it.                *)
(***************************************************************************)
\* Of some subsets of a finite set, one is the smallest.
LEMMA Smallest ==
  ASSUME NEW S, IsFiniteSet(S), NEW C \in SUBSET (SUBSET S), C # {}
  PROVE  \E s \in C : \A t \in C : Cardinality(s) <= Cardinality(t)
<1>1. \A t \in C : Cardinality(t) \in Nat
  BY FS_Subset, FS_CardinalityType
<1> DEFINE R == OpToRel(<, Nat)
           N == {Cardinality(t) : t \in C}
<1>2. IsWellFoundedOn(R, Nat)
  BY NatLessThanWellFounded
<1>3. R = {ss \in Nat \X Nat : ss[1] < ss[2]}
  BY Zenon DEF OpToRel
<1>4. N \in SUBSET Nat /\ N # {}
  BY <1>1
<1> HIDE DEF R, N
<1>5. PICK m \in N : \A k \in N : ~(<<k, m>> \in R)
  BY <1>2, <1>4, WFMin
<1>6. ASSUME NEW k \in N PROVE m <= k
  <2>1. k \in Nat /\ m \in Nat /\ <<k, m>> \in Nat \X Nat
    BY <1>4
  <2>2. ~(k < m)
    BY <1>3, <1>5, <2>1
  <2> QED BY <2>1, <2>2
<1> QED BY <1>5, <1>6 DEF N

First(s) == CHOOSE x \in s : TRUE

\* What MapThenSumSet computes for the subsets of S.
IsSum(sum, S, f) ==
  /\ IsFiniteSet(S) /\ f \in [S -> Int] /\ sum \in [SUBSET S -> Int]
  /\ sum = [s \in SUBSET S |-> IF s = {} THEN 0 ELSE f[First(s)] + sum[s \ {First(s)}]]

LEMMA SumExists ==
  ASSUME NEW S, IsFiniteSet(S), NEW f \in [S -> Int]
  PROVE  \E sum : IsSum(sum, S, f)
<1> DEFINE Step(sum, s) == IF s = {} THEN 0 ELSE f[First(s)] + sum[s \ {First(s)}]
           Small(n) == {s \in SUBSET S : Cardinality(s) <= n}
           SumsUpto(sum, n) == sum \in [Small(n) -> Int] /\ \A s \in Small(n) : sum[s] = Step(sum, s)
           Bad == {s \in SUBSET S : ~ \E sum : SumsUpto(sum, Cardinality(s))}
<1>1. \A s \in SUBSET S : IsFiniteSet(s) /\ Cardinality(s) \in Nat /\ Cardinality(s) <= Cardinality(S)
  BY FS_Subset, FS_CardinalityType
<1>2. ASSUME NEW s \in SUBSET S, s # {}
      PROVE  /\ First(s) \in s /\ First(s) \in S /\ s \ {First(s)} \in SUBSET S
             /\ Cardinality(s \ {First(s)}) = Cardinality(s) - 1 /\ f[First(s)] \in Int
  <2>1. First(s) \in s
    BY <1>2 DEF First
  <2> QED BY <1>1, <2>1, FS_RemoveElement
<1>3. Bad = {}
  <2> SUFFICES ASSUME Bad # {} PROVE FALSE
    OBVIOUS
  <2>1. PICK u \in Bad : \A t \in Bad : Cardinality(u) <= Cardinality(t)
    <3>1. Bad \in SUBSET (SUBSET S)
      OBVIOUS
    <3> HIDE DEF Bad
    <3> QED BY <3>1, Smallest
  <2> DEFINE n == Cardinality(u)
  <2>2. n \in Nat /\ u \in SUBSET S
    BY <1>1
  <2>3. u # {}
    <3> SUFFICES ASSUME u = {} PROVE FALSE
      OBVIOUS
    <3>1. n = 0 /\ \A s \in Small(n) : s = {}
      BY <1>1, FS_EmptySet
    <3>2. SumsUpto([s \in Small(n) |-> 0], n)
      BY <3>1
    <3> QED BY <3>2
  <2>4. PICK g : SumsUpto(g, n - 1)
    <3>1. Cardinality(u \ {First(u)}) = n - 1 /\ u \ {First(u)} \in SUBSET S
      BY <1>2, <2>2, <2>3
    <3>2. u \ {First(u)} \notin Bad
      <4> HIDE DEF Bad
      <4> QED BY <2>1, <2>2, <3>1
    <3> HIDE DEF SumsUpto
    <3>3. \E sum : SumsUpto(sum, Cardinality(u \ {First(u)}))
      BY <3>1, <3>2
    <3> QED BY <3>1, <3>3
  <2> DEFINE h == [s \in Small(n) |-> Step(g, s)]
  <2>5. \A s \in Small(n) : s # {} => s \ {First(s)} \in Small(n - 1)
    BY <1>1, <1>2, <2>2
  <2>6. h \in [Small(n) -> Int]
    <3>1. ASSUME NEW s \in Small(n) PROVE Step(g, s) \in Int
      BY <1>2, <2>4, <2>5
    <3> QED BY <3>1
  <2>7. \A s \in Small(n - 1) : s \in Small(n) /\ h[s] = g[s]
    BY <1>1, <2>2, <2>4
  <2>8. ASSUME NEW s \in Small(n) PROVE h[s] = Step(h, s)
    BY <2>5, <2>7
  <2> HIDE DEF h
  <2>9. SumsUpto(h, n)
    BY <2>6, <2>8
  <2> QED BY <2>2, <2>9
<1>4. PICK g : SumsUpto(g, Cardinality(S))
  <2>1. S \in SUBSET S /\ S \notin Bad
    BY <1>3
  <2> QED BY <2>1
<1>5. Small(Cardinality(S)) = SUBSET S
  BY <1>1
<1> QED BY <1>4, <1>5 DEF IsSum

\* Whatever satisfies the equation is a sum.
LEMMA SumTyped ==
  ASSUME NEW S, IsFiniteSet(S), NEW f \in [S -> Int], NEW sum,
         sum = [s \in SUBSET S |-> IF s = {} THEN 0 ELSE f[First(s)] + sum[s \ {First(s)}]]
  PROVE  IsSum(sum, S, f)
<1> DEFINE Bad == {s \in SUBSET S : sum[s] \notin Int}
<1>1. Bad = {}
  <2> SUFFICES ASSUME Bad # {} PROVE FALSE
    OBVIOUS
  <2>1. PICK s \in Bad : \A t \in Bad : Cardinality(s) <= Cardinality(t)
    <3>1. Bad \in SUBSET (SUBSET S)
      OBVIOUS
    <3> HIDE DEF Bad
    <3> QED BY <3>1, Smallest
  <2>2. s # {} /\ s \in SUBSET S
    BY <2>1
  <2> DEFINE x == First(s)
  <2>3. x \in s /\ s \ {x} \in SUBSET S /\ f[x] \in Int
    BY <2>2 DEF First
  <2>4. sum[s] = f[x] + sum[s \ {x}]
    BY <2>2
  <2> HIDE DEF x
  <2>5. s \ {x} \notin Bad
    <3>1. Cardinality(s) \in Nat /\ Cardinality(s \ {x}) = Cardinality(s) - 1
      BY <2>2, <2>3, FS_Subset, FS_CardinalityType, FS_RemoveElement
    <3> HIDE DEF Bad
    <3> QED BY <2>1, <3>1
  <2> QED BY <2>1, <2>3, <2>4, <2>5
<1>2. \A s \in SUBSET S : sum[s] \in Int
  BY <1>1
<1>3. sum \in [SUBSET S -> Int]
  <2> DEFINE g == [s \in SUBSET S |-> sum[s]]
  <2>1. sum = g /\ g \in [SUBSET S -> Int]
    BY <1>2
  <2> QED BY <2>1
<1> QED BY <1>3 DEF IsSum

LEMMA SumFacts ==
  ASSUME NEW S, NEW f, NEW sum, IsSum(sum, S, f)
  PROVE  /\ sum[{}] = 0
         /\ \A s \in SUBSET S : \A x \in s : sum[s] = f[x] + sum[s \ {x}]
<1>0. /\ sum[{}] = 0
      /\ \A s \in SUBSET S : s # {} => sum[s] = f[First(s)] + sum[s \ {First(s)}]
  BY DEF IsSum
<1>a. IsFiniteSet(S) /\ f \in [S -> Int] /\ sum \in [SUBSET S -> Int]
  BY DEF IsSum
<1>1. \A s \in SUBSET S : IsFiniteSet(s) /\ Cardinality(s) \in Nat
  BY <1>a, FS_Subset, FS_CardinalityType
<1> DEFINE Bad == {s \in SUBSET S : \E x \in s : sum[s] # f[x] + sum[s \ {x}]}
<1>2. Bad = {}
  <2> SUFFICES ASSUME Bad # {} PROVE FALSE
    OBVIOUS
  <2>1. PICK s \in Bad : \A t \in Bad : Cardinality(s) <= Cardinality(t)
    <3>1. Bad \in SUBSET (SUBSET S)
      OBVIOUS
    <3> HIDE DEF Bad
    <3> QED BY <1>a, <3>1, Smallest
  <2>2. PICK x \in s : sum[s] # f[x] + sum[s \ {x}]
    BY <2>1
  <2> DEFINE y == First(s)
  <2>3. y \in s /\ x \in S /\ y \in S /\ s \in SUBSET S /\ sum[s] = f[y] + sum[s \ {y}]
    BY <1>0, <2>1, <2>2 DEF First
  <2>4. x # y
    BY <2>2, <2>3
  <2> HIDE DEF y
  <2>5. s \ {x} \in SUBSET S /\ s \ {y} \in SUBSET S /\ (s \ {x}) \ {y} = (s \ {y}) \ {x}
    BY <2>3
  <2>6. /\ Cardinality(s) \in Nat
        /\ Cardinality(s \ {x}) = Cardinality(s) - 1 /\ Cardinality(s \ {y}) = Cardinality(s) - 1
    BY <1>1, <2>2, <2>3, FS_RemoveElement
  <2>7. s \ {x} \notin Bad /\ s \ {y} \notin Bad
    <3> HIDE DEF Bad
    <3> QED BY <2>1, <2>6
  <2>8. /\ sum[s \ {x}] = f[y] + sum[(s \ {x}) \ {y}]
        /\ sum[s \ {y}] = f[x] + sum[(s \ {y}) \ {x}]
    <3>1. y \in s \ {x} /\ x \in s \ {y}
      BY <2>2, <2>3, <2>4
    <3> QED BY <2>5, <2>7, <3>1
  <2>9. /\ sum[(s \ {x}) \ {y}] \in Int /\ f[x] \in Int /\ f[y] \in Int
        /\ sum[s] \in Int /\ sum[s \ {x}] \in Int /\ sum[s \ {y}] \in Int
    <3>1. (s \ {x}) \ {y} \in SUBSET S
      BY <2>3
    <3> QED BY <1>a, <2>3, <2>5, <3>1
  <2>10. sum[s] = f[y] + (f[x] + sum[(s \ {x}) \ {y}])
    BY <2>3, <2>5, <2>8
  <2>11. f[x] + sum[s \ {x}] = f[x] + (f[y] + sum[(s \ {x}) \ {y}])
    BY <2>8
  <2> DEFINE a == f[x]
             c == f[y]
             r == sum[(s \ {x}) \ {y}]
  <2>12. c + (a + r) = a + (c + r)
    <3>1. a \in Int /\ c \in Int /\ r \in Int
      BY <2>9
    <3> HIDE DEF a, c, r
    <3> QED BY <3>1
  <2> QED BY <2>2, <2>10, <2>11, <2>12
<1> QED BY <1>0, <1>2

\* Two sets matched one to one with equal values have equal sums.
LEMMA SumsMatch ==
  ASSUME NEW S, NEW f, NEW sumS, IsSum(sumS, S, f), NEW T, NEW g, NEW sumT, IsSum(sumT, T, g),
         NEW b \in Bijection(S, T), \A x \in S : f[x] = g[b[x]]
  PROVE  sumS[S] = sumT[T]
<1>1. b \in [S -> T] /\ (\A x, y \in S : b[x] = b[y] => x = y) /\ \A y \in T : \E x \in S : b[x] = y
  BY DEF Bijection, Injection, Surjection, IsInjective
<1>0. /\ sumS[{}] = 0 /\ sumT[{}] = 0
      /\ \A s \in SUBSET S : \A x \in s : sumS[s] = f[x] + sumS[s \ {x}]
      /\ \A s \in SUBSET T : \A x \in s : sumT[s] = g[x] + sumT[s \ {x}]
  <2>1. sumS[{}] = 0 /\ \A s \in SUBSET S : \A x \in s : sumS[s] = f[x] + sumS[s \ {x}]
    BY SumFacts
  <2>2. sumT[{}] = 0 /\ \A s \in SUBSET T : \A x \in s : sumT[s] = g[x] + sumT[s \ {x}]
    BY SumFacts
  <2> QED BY <2>1, <2>2
<1>a. IsFiniteSet(S)
  BY DEF IsSum
<1> DEFINE Image(s) == {b[x] : x \in s}
           Bad == {s \in SUBSET S : sumS[s] # sumT[Image(s)]}
<1>2. Bad = {}
  <2> SUFFICES ASSUME Bad # {} PROVE FALSE
    OBVIOUS
  <2>1. PICK s \in Bad : \A t \in Bad : Cardinality(s) <= Cardinality(t)
    <3>1. Bad \in SUBSET (SUBSET S)
      OBVIOUS
    <3> HIDE DEF Bad
    <3> QED BY <1>a, <3>1, Smallest
  <2>2. s # {}
    <3>1. Image({}) = {}
      OBVIOUS
    <3> QED BY <2>1, <3>1, <1>0
  <2>3. PICK x \in s : TRUE
    BY <2>2
  <2>4. /\ s \in SUBSET S /\ s \ {x} \in SUBSET S /\ x \in S /\ b[x] \in Image(s)
        /\ Image(s) \in SUBSET T /\ Image(s \ {x}) = Image(s) \ {b[x]}
    BY <1>1, <2>3
  <2>5. s \ {x} \notin Bad
    <3>1. Cardinality(s) \in Nat /\ Cardinality(s \ {x}) = Cardinality(s) - 1
      BY <1>a, <2>3, <2>4, FS_Subset, FS_CardinalityType, FS_RemoveElement
    <3> HIDE DEF Bad
    <3> QED BY <2>1, <3>1
  <2>6. sumS[s] = f[x] + sumS[s \ {x}]
    BY <2>3, <2>4, <1>0
  <2>7. sumT[Image(s)] = g[b[x]] + sumT[Image(s) \ {b[x]}]
    <3> HIDE DEF Image
    <3> QED BY <2>4, <1>0
  <2>8. sumS[s \ {x}] = sumT[Image(s \ {x})]
    BY <2>4, <2>5
  <2> QED BY <2>1, <2>4, <2>6, <2>7, <2>8
<1>3. Image(S) = T
  BY <1>1
<1> QED BY <1>2, <1>3

(***************************************************************************)
(* The measures: a ground truth that breaks ties its own way has the same  *)
(* distances as the row, so their sums agree.                              *)
(***************************************************************************)
RowDistance(q) == [rank \in Ranks |-> distance[q][results[q][rank]]]
TruthDistance(q, truth) == [id \in truth |-> distance[q][id]]

LEMMA RowSum ==
  ASSUME TypeOK, NEW q \in Queries
  PROVE  \E sum : /\ IsSum(sum, Ranks, RowDistance(q))
                  /\ RowTotal(q) = sum[Ranks]
<1> DEFINE f == RowDistance(q)
           Runs(sum) == sum = [s \in SUBSET Ranks |->
             IF s = {} THEN 0
             ELSE distance[q][results[q][CHOOSE x \in s : TRUE]] + sum[s \ {CHOOSE x \in s : TRUE}]]
<1>1. IsFiniteSet(Ranks) /\ f \in [Ranks -> Int]
  <2>1. \A rank \in Ranks : results[q][rank] \in Ids
    BY DEF TypeOK
  <2>2. \A id \in Ids : distance[q][id] \in Int
    BY EntryTyped
  <2>3. IsFiniteSet(Ranks)
    BY Positions, FS_Interval DEF Ranks
  <2> QED BY <2>1, <2>2, <2>3 DEF RowDistance
<1>2. ASSUME NEW sum
      PROVE  Runs(sum) <=> sum = [s \in SUBSET Ranks |-> IF s = {} THEN 0 ELSE f[First(s)] + sum[s \ {First(s)}]]
  <2>1. \A s \in SUBSET Ranks : s # {} => First(s) \in Ranks
    BY DEF First
  <2>2. \A rank \in Ranks : f[rank] = distance[q][results[q][rank]]
    BY DEF RowDistance
  <2> HIDE DEF f
  <2> QED BY <2>1, <2>2 DEF First
<1>3. \E sum : IsSum(sum, Ranks, f)
  <2> HIDE DEF f
  <2> QED BY <1>1, SumExists
<1>4. Runs(CHOOSE g : Runs(g))
  <2>1. \E sum : Runs(sum)
    <3> HIDE DEF f, Runs
    <3> QED BY <1>2, <1>3 DEF IsSum
  <2> HIDE DEF Runs
  <2> QED BY <2>1
<1>5. RowTotal(q) = (CHOOSE g : Runs(g))[Ranks]
  BY DEF RowTotal, MapThenSumSet, MapThenFoldSet
<1> DEFINE sum == CHOOSE g : Runs(g)
<1>6. sum = [s \in SUBSET Ranks |-> IF s = {} THEN 0 ELSE f[First(s)] + sum[s \ {First(s)}]]
  <2> HIDE DEF f, Runs
  <2> QED BY <1>2, <1>4
<1>7. IsSum(sum, Ranks, f)
  <2> HIDE DEF f, sum
  <2> QED BY <1>1, <1>6, SumTyped
<1> QED BY <1>5, <1>7
LEMMA TruthSum ==
  ASSUME TypeOK, NEW q \in Queries, NEW truth \in SUBSET Ids
  PROVE  \E sum : /\ IsSum(sum, truth, TruthDistance(q, truth))
                  /\ TruthTotal(q, truth) = sum[truth]
<1> DEFINE f == TruthDistance(q, truth)
           Runs(sum) == sum = [s \in SUBSET truth |->
             IF s = {} THEN 0
             ELSE distance[q][CHOOSE x \in s : TRUE] + sum[s \ {CHOOSE x \in s : TRUE}]]
<1>1. IsFiniteSet(truth) /\ f \in [truth -> Int]
  <2>1. \A id \in Ids : distance[q][id] \in Int
    BY EntryTyped
  <2>2. IsFiniteSet(Ids)
    BY Positions, FS_Interval DEF Ids
  <2> QED BY <2>1, <2>2, FS_Subset DEF TruthDistance
<1>2. ASSUME NEW sum
      PROVE  Runs(sum) <=> sum = [s \in SUBSET truth |-> IF s = {} THEN 0 ELSE f[First(s)] + sum[s \ {First(s)}]]
  <2>1. \A s \in SUBSET truth : s # {} => First(s) \in truth
    BY DEF First
  <2>2. \A id \in truth : f[id] = distance[q][id]
    BY DEF TruthDistance
  <2> HIDE DEF f
  <2> QED BY <2>1, <2>2 DEF First
<1>3. \E sum : IsSum(sum, truth, f)
  <2> HIDE DEF f
  <2> QED BY <1>1, SumExists
<1>4. Runs(CHOOSE g : Runs(g))
  <2>1. \E sum : Runs(sum)
    <3> HIDE DEF f, Runs
    <3> QED BY <1>2, <1>3 DEF IsSum
  <2> HIDE DEF Runs
  <2> QED BY <2>1
<1>5. TruthTotal(q, truth) = (CHOOSE g : Runs(g))[truth]
  BY DEF TruthTotal, MapThenSumSet, MapThenFoldSet
<1> DEFINE sum == CHOOSE g : Runs(g)
<1>6. sum = [s \in SUBSET truth |-> IF s = {} THEN 0 ELSE f[First(s)] + sum[s \ {First(s)}]]
  <2> HIDE DEF f, Runs
  <2> QED BY <1>2, <1>4
<1>7. IsSum(sum, truth, f)
  <2> HIDE DEF f, sum
  <2> QED BY <1>1, <1>6, SumTyped
<1> QED BY <1>5, <1>7

\* A row is K nearest too, so what it misses and what it has instead are as far.
LEMMA RowAndTruth ==
  ASSUME IInv, NEW q \in Queries, Answered(q), NEW truth \in NearestSets(q)
  PROVE  /\ \A a \in RowIds(q) \ truth, b \in truth \ RowIds(q) : distance[q][a] = distance[q][b]
         /\ RowIds(q) \in SUBSET Ids /\ truth \in SUBSET Ids
         /\ \A r, s \in Ranks : results[q][r] = results[q][s] => r = s
         /\ Cardinality(RowIds(q) \ truth) = Cardinality(truth \ RowIds(q))
         /\ IsFiniteSet(RowIds(q) \ truth) /\ IsFiniteSet(truth \ RowIds(q))
<1>1. /\ TypeOK /\ RowIsNearest /\ RowIds(q) \in SUBSET Ids /\ \A rank \in Ranks : results[q][rank] \in Ids
  BY DEF IInv, TypeOK, RowIds
<1>2. \A id \in Ids : distance[q][id] \in Nat /\ Entry(q, id)[1] = distance[q][id] /\ Entry(q, id)[2] = id
  BY <1>1, EntryTyped
<1>3. /\ truth \in SUBSET Ids /\ Cardinality(truth) = K
      /\ \A a \in truth, b \in Ids \ truth : distance[q][a] <= distance[q][b]
  BY DEF NearestSets
<1>4. \A a \in RowIds(q), b \in Ids \ RowIds(q) : distance[q][a] <= distance[q][b]
  BY <1>1, <1>2 DEF RowIsNearest, Before
<1>5. \A a \in RowIds(q) \ truth, b \in truth \ RowIds(q) : distance[q][a] = distance[q][b]
  BY <1>1, <1>2, <1>3, <1>4
<1>6. \A r, s \in Ranks : results[q][r] = results[q][s] => r = s
  <2> SUFFICES ASSUME NEW r \in Ranks, NEW s \in Ranks, results[q][r] = results[q][s], r < s
               PROVE  FALSE
    BY Positions DEF Ranks
  <2>1. Before(Entry(q, results[q][r]), Entry(q, results[q][r]))
    BY <1>1 DEF RowIsNearest
  <2>2. Entry(q, results[q][r])[1] \in Int /\ Entry(q, results[q][r])[2] \in Int
    BY <1>1, <1>2, Positions
  <2> QED BY <2>1, <2>2 DEF Before
<1>7. IsFiniteSet(Ids) /\ IsFiniteSet(Ranks) /\ Cardinality(Ranks) = K
  BY Positions, FS_Interval DEF Ids, Ranks
<1>8. IsFiniteSet(RowIds(q)) /\ Cardinality(RowIds(q)) = K
  <2> DEFINE row == [rank \in Ranks |-> results[q][rank]]
  <2>1. row \in Bijection(Ranks, RowIds(q))
    BY <1>6 DEF RowIds, Bijection, Injection, Surjection, IsInjective
  <2> QED BY <1>7, <2>1, FS_Bijection DEF ExistsBijection
<1>9. IsFiniteSet(truth)
  BY <1>3, <1>7, FS_Subset
<1>10. Cardinality(RowIds(q) \ truth) = Cardinality(truth \ RowIds(q))
  <2> DEFINE A == RowIds(q)
             B == truth
  <2>1. /\ Cardinality(A \ B) = Cardinality(A) - Cardinality(A \cap B)
        /\ Cardinality(B \ A) = Cardinality(B) - Cardinality(B \cap A)
    BY <1>8, <1>9, FS_Difference
  <2>2. A \cap B = B \cap A
    OBVIOUS
  <2> HIDE DEF A, B
  <2>3. Cardinality(A \ B) = Cardinality(B \ A)
    BY <1>3, <1>8, <2>1, <2>2 DEF A, B
  <2> QED BY <2>3 DEF A, B
<1> QED BY <1>1, <1>3, <1>5, <1>6, <1>8, <1>9, <1>10, FS_Difference

\* The average distance does not tell the two apart.
LEMMA TotalsAgree ==
  ASSUME IInv, NEW q \in Queries, Answered(q), NEW truth \in NearestSets(q)
  PROVE  RowTotal(q) = TruthTotal(q, truth) /\ RowTotal(q) \in Int
<1>1. PICK sumR : IsSum(sumR, Ranks, RowDistance(q)) /\ RowTotal(q) = sumR[Ranks]
  BY RowSum DEF IInv
<1>2. PICK sumT : IsSum(sumT, truth, TruthDistance(q, truth)) /\ TruthTotal(q, truth) = sumT[truth]
  BY RowAndTruth, TruthSum DEF IInv
<1> DEFINE A == RowIds(q) \ truth
           B == truth \ RowIds(q)
<1>3. PICK m \in Bijection(A, B) : TRUE
  <2>1. IsFiniteSet(A) /\ IsFiniteSet(B) /\ Cardinality(A) = Cardinality(B)
    BY RowAndTruth
  <2> HIDE DEF A, B
  <2> QED BY <2>1, FS_SameCardinalityBij DEF ExistsBijection
<1>4. m \in [A -> B] /\ (\A x, y \in A : m[x] = m[y] => x = y) /\ \A y \in B : \E x \in A : m[x] = y
  BY DEF Bijection, Injection, Surjection, IsInjective
<1> DEFINE b == [rank \in Ranks |-> IF results[q][rank] \in truth THEN results[q][rank] ELSE m[results[q][rank]]]
<1>5. \A rank \in Ranks : results[q][rank] \in RowIds(q) /\ (results[q][rank] \in A \/ results[q][rank] \in truth)
  BY DEF RowIds
<1>6. b \in Bijection(Ranks, truth)
  <2>1. b \in [Ranks -> truth]
    BY <1>4, <1>5
  <2>2. ASSUME NEW r \in Ranks, NEW s \in Ranks, b[r] = b[s] PROVE r = s
    <3>1. results[q][r] = results[q][s]
      BY <1>4, <1>5, <2>2
    <3> QED BY <3>1, RowAndTruth
  <2>3. ASSUME NEW id \in truth PROVE \E rank \in Ranks : b[rank] = id
    <3>1. CASE id \in RowIds(q)
      BY <3>1 DEF RowIds
    <3>2. CASE id \notin RowIds(q)
      <4>1. PICK x \in A : m[x] = id
        BY <1>4, <3>2
      <4>2. PICK rank \in Ranks : results[q][rank] = x
        BY <4>1 DEF RowIds
      <4> QED BY <4>1, <4>2
    <3> QED BY <3>1, <3>2
  <2> HIDE DEF b
  <2> QED BY <2>1, <2>2, <2>3 DEF Bijection, Injection, Surjection, IsInjective
<1>7. ASSUME NEW rank \in Ranks
      PROVE  RowDistance(q)[rank] = TruthDistance(q, truth)[b[rank]]
  <2>1. \A x \in A, y \in B : distance[q][x] = distance[q][y]
    BY RowAndTruth
  <2>2. b[rank] \in truth /\ distance[q][results[q][rank]] = distance[q][b[rank]]
    <3>1. CASE results[q][rank] \in truth
      BY <3>1
    <3>2. CASE results[q][rank] \notin truth
      <4>1. results[q][rank] \in A /\ b[rank] = m[results[q][rank]]
        BY <1>5, <3>2
      <4>2. b[rank] \in B
        BY <1>4, <4>1
      <4> HIDE DEF b, A
      <4> QED BY <2>1, <4>1, <4>2
    <3> QED BY <3>1, <3>2
  <2> QED BY <2>2 DEF RowDistance, TruthDistance
<1>8. RowTotal(q) = TruthTotal(q, truth)
  <2> HIDE DEF b
  <2> QED BY <1>1, <1>2, <1>6, <1>7, SumsMatch
<1>9. RowTotal(q) \in Int
  <2>1. sumR \in [SUBSET Ranks -> Int] /\ Ranks \in SUBSET Ranks
    BY <1>1 DEF IsSum
  <2> QED BY <1>1, <2>1
<1> QED BY <1>8, <1>9

LEMMA InitMeasures == Init => Measures
<1> SUFFICES ASSUME Init
             PROVE  Measures
  OBVIOUS
<1> QED BY BaselineScanAssumption DEF Init, Measures, Measured, Queries

LEMMA MeasureMeasures == MInv /\ MeasureQuery => Measures'
<1> SUFFICES ASSUME MInv, MeasureQuery
             PROVE  Measures'
  OBVIOUS
<1> DEFINE q == query_index
<1>1. PICK truth \in NearestSets(q) :
        /\ truths' = [truths EXCEPT ![q] = truth]
        /\ hits' = Append(hits, Hits(q, truth))
        /\ sums' = [results |-> sums.results + RowTotal(q), truth |-> sums.truth + TruthTotal(q, truth)]
  BY DEF MeasureQuery
<1>2. /\ pc = "measure" /\ query_index' = (query_index + 1) % NQuery
      /\ pc' = IF query_index + 1 < NQuery THEN "measure" ELSE "done"
      /\ UNCHANGED <<distance, vector_index, heap, results>>
  BY DEF MeasureQuery
<1>3. TypeOK /\ Measures /\ q \in Queries /\ q \in Nat /\ NQuery \in Nat
  BY Positions, BaselineScanAssumption DEF MInv, IInv, TypeOK
<1>4. RowTotal(q) = TruthTotal(q, truth) /\ RowTotal(q) \in Int
  BY <1>2, <1>3, TotalsAgree DEF MInv, Answered
<1>5. Measured = q /\ Measured' = q + 1
  BY <1>2, <1>3, Positions DEF Measured
<1>6. hits' \in Seq(Nat) /\ Len(hits') = Measured'
  <2>1. Hits(q, truth) \in Nat
    <3>1. IsFiniteSet(Ranks)
      BY Positions, FS_Interval DEF Ranks
    <3>2. {rank \in Ranks : results[q][rank] \in truth} \in SUBSET Ranks
      OBVIOUS
    <3> QED BY <3>1, <3>2, FS_Subset, FS_CardinalityType DEF Hits
  <2> QED BY <1>1, <1>3, <1>5, <2>1 DEF Measures
<1>7. sums' \in [results : Int, truth : Int] /\ sums'.results = sums'.truth
  BY <1>1, <1>3, <1>4 DEF Measures
<1>8. truth \in SUBSET Ids
  BY DEF NearestSets
<1>9. truths' \in [Queries -> SUBSET Ids]
  BY <1>1, <1>3, <1>8 DEF Measures
<1>10. ASSUME NEW p \in Queries, p < Measured'
       PROVE  truths'[p] \in NearestSets(p)'
  <2>1. NearestSets(p)' = NearestSets(p)
    BY <1>2 DEF NearestSets
  <2>2. CASE p = q
    BY <1>1, <1>3, <2>1, <2>2 DEF Measures
  <2>3. CASE p # q
    <3>1. p < Measured
      BY <1>3, <1>5, <1>10, <2>3, Positions
    <3> QED BY <1>1, <1>3, <2>1, <2>3, <3>1 DEF Measures
  <2> QED BY <2>2, <2>3
<1> QED BY <1>6, <1>7, <1>9, <1>10 DEF Measures

LEMMA NextMInv == MInv /\ [Next]_vars => MInv'
<1> SUFFICES ASSUME MInv, [Next]_vars
             PROVE  MInv'
  OBVIOUS
<1>1. IInv'
  BY NextIInv DEF MInv
<1>2. Measures
  BY DEF MInv
<1>3. ASSUME UNCHANGED <<distance, truths, sums, hits>>, Measured' = Measured
      PROVE  Measures'
  BY <1>2, <1>3 DEF Measures, NearestSets
<1>4. ASSUME UNCHANGED vars \/ Finished PROVE Measures'
  BY <1>3, <1>4 DEF vars, Finished, Measured
<1>5. ASSUME Push \/ Replace \/ Keep PROVE Measures'
  BY <1>3, <1>5 DEF Push, Replace, Keep, NextVector, Measured
<1>6. ASSUME EmitRow PROVE Measures'
  <2>1. query_index \in Queries
    BY DEF MInv, IInv, TypeOK
  <2>2. Measured = 0 /\ Measured' = 0
    BY <1>6, <2>1, Positions DEF EmitRow, Measured
  <2> QED BY <1>3, <1>6, <2>2 DEF EmitRow
<1>7. ASSUME MeasureQuery PROVE Measures'
  BY <1>7, MeasureMeasures
<1>8. Measures'
  BY <1>4, <1>5, <1>6, <1>7 DEF Next
<1> QED BY <1>1, <1>8 DEF MInv

LEMMA MeasuresTie == MInv => MissIsATie
<1> SUFFICES ASSUME MInv
             PROVE  MissIsATie
  OBVIOUS
<1>1. IInv /\ Measures /\ NQuery \in Nat /\ query_index \in Queries
  BY BaselineScanAssumption DEF MInv, IInv, TypeOK
<1>2. ASSUME NEW i \in DOMAIN hits, NEW missed \in truths[i - 1] \ RowIds(i - 1)
      PROVE  \E id \in RowIds(i - 1) \ truths[i - 1] : distance[i - 1][missed] = distance[i - 1][id]
  <2> DEFINE q == i - 1
  <2>1. i \in 1 .. Measured /\ Measured \in Nat /\ Measured <= NQuery
    BY <1>1, Positions DEF Measures, Measured, Queries
  <2>2. q \in Queries /\ q < Measured
    BY <1>1, <2>1 DEF Queries
  <2>3. Answered(q) /\ truths[q] \in NearestSets(q)
    BY <1>1, <2>2, Positions DEF Measures, Measured, Answered
  <2> DEFINE A == RowIds(q) \ truths[q]
             B == truths[q] \ RowIds(q)
  <2> HIDE DEF q
  <2>4. /\ \A a \in A, b \in B : distance[q][a] = distance[q][b]
        /\ Cardinality(A) = Cardinality(B) /\ IsFiniteSet(A) /\ IsFiniteSet(B)
    BY <1>1, <2>2, <2>3, RowAndTruth
  <2>5. missed \in B
    BY DEF q
  <2> HIDE DEF A, B
  <2>6. A # {}
    BY <2>4, <2>5, FS_EmptySet
  <2>7. \E id \in A : distance[q][missed] = distance[q][id]
    BY <2>4, <2>5, <2>6
  <2> QED BY <2>7 DEF A, q
<1>3. sums.results = sums.truth
  BY <1>1 DEF Measures
<1> QED BY <1>2, <1>3 DEF MissIsATie

\* benchmark_config.h:236-296: a recall of the baseline below 1 only tells of ties, and the
\* average distance is the ground truth's, for any files, k and ground truth.
THEOREM SpecMissIsATie == Spec => []MissIsATie
<1>1. Init => MInv
  BY InitIInv, InitMeasures DEF MInv
<1> QED BY <1>1, NextMInv, MeasuresTie, PTL DEF Spec

(***************************************************************************)
(* The summary of the example program.                                     *)
(***************************************************************************)
\* Those with fewer hits than i, and the earlier ones with as many.
Fewer(i) == {j \in DOMAIN hits : hits[j] < hits[i] \/ (hits[j] = hits[i] /\ j < i)}

LEMMA HitsFacts ==
  ASSUME hits \in Seq(Nat)
  PROVE  /\ DOMAIN hits = 1 .. Len(hits) /\ Len(hits) \in Nat
         /\ \A i \in DOMAIN hits : i \in Nat /\ hits[i] \in Nat
         /\ IsFiniteSet(DOMAIN hits) /\ Cardinality(DOMAIN hits) = Len(hits)
<1>1. /\ DOMAIN hits = 1 .. Len(hits) /\ Len(hits) \in Nat
      /\ \A i \in DOMAIN hits : i \in Nat /\ hits[i] \in Nat
  OBVIOUS
<1>2. IsFiniteSet(1 .. Len(hits)) /\ Cardinality(1 .. Len(hits)) = Len(hits)
  <2> DEFINE n == Len(hits)
  <2>1. n \in Nat
    BY <1>1
  <2> HIDE DEF n
  <2>2. IsFiniteSet(1 .. n) /\ Cardinality(1 .. n) = IF 1 > n THEN 0 ELSE n - 1 + 1
    BY <2>1, FS_Interval
  <2>3. IsFiniteSet(1 .. n) /\ Cardinality(1 .. n) = n
    BY <2>1, <2>2
  <2> QED BY <2>3 DEF n
<1> QED BY <1>1, <1>2

LEMMA FewerFacts ==
  ASSUME hits \in Seq(Nat)
  PROVE  /\ \A i \in DOMAIN hits : Cardinality(Fewer(i)) \in 0 .. Len(hits) - 1
         /\ \A i, j \in DOMAIN hits : i \in Fewer(j) => Cardinality(Fewer(i)) < Cardinality(Fewer(j))
<1> DEFINE D == DOMAIN hits
<1>1. /\ D = 1 .. Len(hits) /\ Len(hits) \in Nat /\ \A i \in D : i \in Nat /\ hits[i] \in Nat
      /\ IsFiniteSet(D) /\ Cardinality(D) = Len(hits)
  BY HitsFacts
<1>2. \A i \in D : Fewer(i) \in SUBSET D /\ i \notin Fewer(i)
  BY <1>1 DEF Fewer
<1>3. \A i, j \in D : i \in Fewer(j) => Fewer(i) \in SUBSET Fewer(j)
  BY <1>1 DEF Fewer
<1> HIDE DEF D
<1>4. \A i \in D : IsFiniteSet(Fewer(i)) /\ Cardinality(Fewer(i)) \in Nat
  BY <1>1, <1>2, FS_Subset, FS_CardinalityType
<1>5. ASSUME NEW i \in D PROVE Cardinality(Fewer(i)) \in 0 .. Len(hits) - 1
  <2>1. Cardinality(Fewer(i)) <= Cardinality(D) /\ (Cardinality(D) = Cardinality(Fewer(i)) => D = Fewer(i))
    BY <1>1, <1>2, FS_Subset
  <2> QED BY <1>1, <1>2, <1>4, <2>1
<1>6. ASSUME NEW i \in D, NEW j \in D, i \in Fewer(j)
      PROVE  Cardinality(Fewer(i)) < Cardinality(Fewer(j))
  <2>1. /\ Cardinality(Fewer(i)) <= Cardinality(Fewer(j))
        /\ Cardinality(Fewer(j)) = Cardinality(Fewer(i)) => Fewer(j) = Fewer(i)
    BY <1>3, <1>4, <1>6, FS_Subset
  <2> QED BY <1>2, <1>4, <1>6, <2>1
<1> QED BY <1>5, <1>6 DEF D

\* The counts can be sorted.
LEMMA SortedFacts ==
  ASSUME hits \in Seq(Nat)
  PROVE  /\ Sorted \in Arrangements
         /\ \A i, j \in DOMAIN hits : i < j => Sorted[i] <= Sorted[j]
<1> DEFINE D == DOMAIN hits
           place == [i \in D |-> Cardinality(Fewer(i)) + 1]
           order == [k \in D |-> CHOOSE i \in D : place[i] = k]
<1>1. /\ D = 1 .. Len(hits) /\ Len(hits) \in Nat /\ \A i \in D : i \in Nat /\ hits[i] \in Nat
      /\ IsFiniteSet(D) /\ Cardinality(D) = Len(hits)
  BY HitsFacts
<1>2. place \in [D -> D]
  BY <1>1, FewerFacts
<1>3. \A i, j \in D : i \in Fewer(j) => place[i] < place[j]
  BY FewerFacts
<1>4. \A i, j \in D : i = j \/ i \in Fewer(j) \/ j \in Fewer(i)
  BY <1>1 DEF Fewer
<1>5. \A i, j \in D : place[i] = place[j] => i = j
  BY <1>1, <1>2, <1>3, <1>4
<1>6. \A k \in D : \E i \in D : place[i] = k
  <2> HIDE DEF place, D
  <2>1. place \in Injection(D, D)
    BY <1>2, <1>5 DEF Injection, IsInjective
  <2>2. place \in Surjection(D, D)
    BY <1>1, <2>1, FS_Injection
  <2> QED BY <2>2 DEF Surjection
<1>7. \A k \in D : order[k] \in D /\ place[order[k]] = k
  <2> HIDE DEF place, D
  <2> QED BY <1>6
<1> HIDE DEF place
<1>8. order \in Bijection(D, D)
  <2>1. order \in [D -> D]
    BY <1>7
  <2>2. \A k, l \in D : order[k] = order[l] => k = l
    <3> HIDE DEF order, D
    <3> QED BY <1>7
  <2>3. \A i \in D : \E k \in D : order[k] = i
    <3> TAKE i \in D
    <3>1. place[i] \in D /\ order[place[i]] = i
      <4> HIDE DEF order, D
      <4> QED BY <1>2, <1>5, <1>7
    <3> HIDE DEF order, D
    <3> QED BY <3>1
  <2> HIDE DEF order, D
  <2> QED BY <2>1, <2>2, <2>3 DEF Bijection, Injection, Surjection, IsInjective
<1> DEFINE s == [i \in D |-> hits[order[i]]]
<1>9. ASSUME NEW k \in D, NEW l \in D, k < l PROVE s[k] <= s[l]
  <2>1. order[k] \in D /\ order[l] \in D /\ place[order[k]] < place[order[l]]
    BY <1>7, <1>9
  <2>2. order[k] \in Fewer(order[l])
    <3> HIDE DEF order, D
    <3>1. place[order[k]] \in Nat /\ place[order[l]] \in Nat
      BY <1>1, <1>2, <2>1
    <3>2. order[k] # order[l] /\ order[l] \notin Fewer(order[k])
      BY <1>3, <2>1, <3>1
    <3> QED BY <1>4, <2>1, <3>2
  <2>3. hits[order[k]] <= hits[order[l]]
    <3> HIDE DEF order, D
    <3>1. hits[order[k]] \in Nat /\ hits[order[l]] \in Nat
      BY <1>1, <2>1
    <3>2. hits[order[k]] < hits[order[l]] \/ hits[order[k]] = hits[order[l]]
      BY <2>2 DEF Fewer
    <3> QED BY <3>1, <3>2
  <2> HIDE DEF order
  <2> QED BY <2>3
<1>10. \E t \in Arrangements : \A i, j \in DOMAIN hits : i < j => t[i] <= t[j]
  <2> HIDE DEF order
  <2>1. s \in Arrangements
    BY <1>8 DEF Arrangements
  <2> HIDE DEF s
  <2> QED BY <1>9, <2>1
<1> QED BY <1>10 DEF Sorted

\* Fewer than m queries are below the m-th count, and m are up to it.
LEMMA OrderStatistic ==
  ASSUME hits \in Seq(Nat), NEW m \in DOMAIN hits
  PROVE  /\ Below(Sorted[m]) < m /\ m <= Upto(Sorted[m]) /\ Below(Sorted[m]) \in Nat
<1> DEFINE D == DOMAIN hits
           s == Sorted
<1>1. /\ D = 1 .. Len(hits) /\ Len(hits) \in Nat /\ \A i \in D : i \in Nat /\ hits[i] \in Nat
      /\ IsFiniteSet(D) /\ m \in Nat \ {0}
  BY HitsFacts
<1>2. PICK order \in Bijection(D, D) : s = [i \in D |-> hits[order[i]]]
  BY SortedFacts DEF Arrangements
<1>3. \A i, j \in D : i < j => s[i] <= s[j]
  BY SortedFacts
<1>4. /\ order \in [D -> D] /\ \A i, j \in D : order[i] = order[j] => i = j
      /\ \A i \in D : \E k \in D : order[k] = i
  BY DEF Bijection, Injection, Surjection, IsInjective
<1> HIDE DEF s
<1> DEFINE Image(n) == {order[k] : k \in 1 .. n}
<1>5. ASSUME NEW n \in {m - 1, m}
      PROVE  IsFiniteSet(Image(n)) /\ Cardinality(Image(n)) = n /\ Image(n) \in SUBSET D
  <2>1. 1 .. n \in SUBSET D /\ n \in Nat
    BY <1>1
  <2>2. IsFiniteSet(1 .. n) /\ Cardinality(1 .. n) = n
    BY <2>1, FS_Interval
  <2> DEFINE f == [k \in 1 .. n |-> order[k]]
  <2>3. f \in Bijection(1 .. n, Image(n))
    BY <1>4, <2>1 DEF Bijection, Injection, Surjection, IsInjective
  <2>4. ExistsBijection(1 .. n, Image(n))
    BY <2>3 DEF ExistsBijection
  <2>5. Image(n) \in SUBSET D
    <3>1. \A k \in 1 .. n : order[k] \in D
      <4> HIDE DEF D
      <4> QED BY <1>4, <2>1
    <3> HIDE DEF D
    <3> QED BY <3>1
  <2> HIDE DEF Image
  <2> QED BY <2>2, <2>4, <2>5, FS_Bijection
<1>6. Below(s[m]) < m /\ Below(s[m]) \in Nat
  <2> DEFINE B == {i \in D : hits[i] < s[m]}
  <2>1. B \subseteq Image(m - 1)
    <3> SUFFICES ASSUME NEW i \in B PROVE i \in Image(m - 1)
      OBVIOUS
    <3>1. PICK k \in D : order[k] = i
      BY <1>4
    <3>2. s[k] < s[m] /\ s[k] \in Nat /\ s[m] \in Nat
      BY <1>1, <1>2, <1>4, <3>1
    <3>3. k \in Nat \ {0} /\ m \in D /\ ~(k = m) /\ ~(m < k)
      BY <1>1, <1>3, <3>2
    <3>4. k \in 1 .. m - 1
      BY <1>1, <3>3
    <3> QED BY <3>1, <3>4
  <2>2. m - 1 \in {m - 1, m}
    OBVIOUS
  <2> HIDE DEF B, Image
  <2>3. IsFiniteSet(B) /\ Cardinality(B) <= m - 1
    BY <1>5, <2>1, <2>2, FS_Subset
  <2>4. Cardinality(B) \in Nat
    BY <2>3, FS_CardinalityType
  <2> QED BY <1>1, <2>3, <2>4 DEF B, Below
<1>7. m <= Upto(s[m])
  <2> DEFINE U == {i \in D : hits[i] <= s[m]}
  <2>1. Image(m) \subseteq U
    <3> SUFFICES ASSUME NEW k \in 1 .. m PROVE order[k] \in U
      OBVIOUS
    <3>1. k \in D /\ (k = m \/ k < m)
      BY <1>1
    <3>2. s[k] = hits[order[k]] /\ order[k] \in D /\ s[k] \in Nat
      BY <1>1, <1>2, <1>4, <3>1
    <3>3. s[k] <= s[m]
      BY <1>3, <3>1, <3>2
    <3> QED BY <3>2, <3>3
  <2>2. m \in {m - 1, m} /\ U \in SUBSET D
    OBVIOUS
  <2> HIDE DEF U, Image
  <2>3. IsFiniteSet(U) /\ Cardinality(Image(m)) <= Cardinality(U)
    BY <1>1, <2>1, <2>2, FS_Subset
  <2> QED BY <1>5, <2>2, <2>3 DEF U, Upto
<1> QED BY <1>6, <1>7 DEF s

LEMMA SummaryPercentile == MInv => SummaryIsPercentile
<1> SUFFICES ASSUME MInv, pc = "done", NQuery >= 4
             PROVE  /\ Below(Summary.p25) < NQuery \div 4 /\ NQuery \div 4 <= Upto(Summary.p25)
                    /\ Below(Summary.p50) < NQuery \div 2 /\ NQuery \div 2 <= Upto(Summary.p50)
                    /\ Below(Summary.min) = 0
  BY DEF SummaryIsPercentile
<1>1. hits \in Seq(Nat) /\ Len(hits) = NQuery /\ NQuery \in Nat
  BY BaselineScanAssumption DEF MInv, Measures, Measured
<1>2. 1 \in DOMAIN hits /\ NQuery \div 4 \in DOMAIN hits /\ NQuery \div 2 \in DOMAIN hits
  BY <1>1
<1>3. NQuery \div 4 # 0 /\ NQuery \div 2 # 0
  BY <1>1
<1>4. /\ Summary.p25 = Sorted[NQuery \div 4] /\ Summary.p50 = Sorted[NQuery \div 2]
      /\ Summary.min = Sorted[1]
  BY <1>3 DEF Summary
<1>5. Below(Sorted[1]) < 1 /\ Below(Sorted[1]) \in Nat
  BY <1>1, <1>2, OrderStatistic
<1>6. /\ Below(Sorted[NQuery \div 4]) < NQuery \div 4 /\ NQuery \div 4 <= Upto(Sorted[NQuery \div 4])
      /\ Below(Sorted[NQuery \div 2]) < NQuery \div 2 /\ NQuery \div 2 <= Upto(Sorted[NQuery \div 2])
  <2> DEFINE m == NQuery \div 4
             n == NQuery \div 2
  <2>1. m \in DOMAIN hits /\ n \in DOMAIN hits
    BY <1>2
  <2> HIDE DEF m, n
  <2>2. /\ Below(Sorted[m]) < m /\ m <= Upto(Sorted[m])
        /\ Below(Sorted[n]) < n /\ n <= Upto(Sorted[n])
    BY <1>1, <2>1, OrderStatistic
  <2> QED BY <2>2 DEF m, n
<1>7. Below(Sorted[1]) = 0
  BY <1>5
<1> QED BY <1>4, <1>6, <1>7

\* example/main.cpp:327-332: the summary reports the order statistics it names, for
\* any number of queries from four on.
THEOREM SpecSummaryIsPercentile == Spec => []SummaryIsPercentile
<1>1. Init => MInv
  BY InitIInv, InitMeasures DEF MInv
<1> QED BY <1>1, NextMInv, SummaryPercentile, PTL DEF Spec

(***************************************************************************)
(* BenchmarkRun.                                                           *)
(***************************************************************************)
LEMMA Sizes ==
  /\ Truth \in Seq(Nat) /\ Len(Truth) \in Nat /\ DOMAIN Truth = 1 .. Len(Truth)
  /\ Rows = FirstRows(Len(Truth))
  /\ GtWidth \in 1 .. Len(Truth) /\ NumNeighbours \in 1 .. GtWidth
  /\ NumNeighbours \in Nat \ {0} /\ NumNeighbours <= Len(Truth)
  /\ PageSize \in Nat \ {0} /\ PagesPerFile \in Nat \ {0}
  BY BenchmarkRunAssumption

LEMMA ConfigTyped ==
  ASSUME NEW c \in Configs
  PROVE  /\ c.reuse_index \in BOOLEAN /\ c.n_base \in Nat /\ c.k_in_gt \in Nat
         /\ c.program \in {"benchmark", "example"}
  BY BenchmarkRunAssumption

LEMMA FirstRowsSize ==
  ASSUME NEW n \in Nat
  PROVE  IsFiniteSet(FirstRows(n)) /\ Cardinality(FirstRows(n)) = n
  <1>1. 0 \in Int /\ n - 1 \in Int
    OBVIOUS
  <1>2. Cardinality(0 .. n - 1) = IF 0 > n - 1 THEN 0 ELSE (n - 1) - 0 + 1
    BY <1>1, FS_Interval
  <1>. QED
    BY <1>1, <1>2, FS_Interval DEF FirstRows

LEMMA IntervalSize ==
  ASSUME NEW n \in Nat
  PROVE  IsFiniteSet(1 .. n) /\ Cardinality(1 .. n) = n
  <1>1. Cardinality(1 .. n) = IF 1 > n THEN 0 ELSE n - 1 + 1
    BY FS_Interval
  <1>2. IsFiniteSet(1 .. n)
    BY FS_Interval
  <1>. QED
    BY <1>1, <1>2

\* Truth lists every row once.
LEMMA TruthOnce ==
  ASSUME NEW i \in DOMAIN Truth, NEW j \in DOMAIN Truth, Truth[i] = Truth[j]
  PROVE  i = j
  <1>. DEFINE L == Len(Truth)
  <1>1. IsFiniteSet(1 .. L) /\ Cardinality(1 .. L) = L
    BY Sizes, IntervalSize
  <1>2. IsFiniteSet(Rows) /\ Cardinality(Rows) = L
    BY Sizes, FirstRowsSize
  <1>3. Truth \in Surjection(1 .. L, Rows)
    <2>1. Rows = {Truth[n] : n \in 1 .. L}
      BY Sizes DEF Rows, ToSet
    <2>2. Truth \in [1 .. L -> Rows]
      BY <2>1, Sizes
    <2>. QED
      BY <2>1, <2>2 DEF Surjection
  <1>4. Truth \in Injection(1 .. L, Rows)
    BY <1>1, <1>2, <1>3, FS_SurjSameCardinalityImpliesInj
  <1>. QED
    BY <1>4, Sizes DEF Injection, IsInjective

\* The first k of the ground truth are k rows,
LEMMA TruthAtKSize == IsFiniteSet(TruthAtK) /\ Cardinality(TruthAtK) = NumNeighbours
  <1>. DEFINE k == NumNeighbours
              rank == [i \in 1 .. k |-> Truth[i]]
  <1>1. IsFiniteSet(1 .. k) /\ Cardinality(1 .. k) = k
    BY Sizes, IntervalSize
  <1>2. \A i \in 1 .. k : i \in DOMAIN Truth
    BY Sizes
  <1>3. rank \in Bijection(1 .. k, TruthAtK)
    <2>1. rank \in Surjection(1 .. k, TruthAtK)
      BY DEF TruthAtK, Surjection
    <2>2. rank \in Injection(1 .. k, TruthAtK)
      BY <1>2, <2>1, TruthOnce DEF Injection, Surjection, IsInjective
    <2>. QED
      BY <2>1, <2>2 DEF Bijection
  <1>. QED
    BY <1>1, <1>3, FS_Bijection DEF ExistsBijection

\* which are the rows of the first k ranks.
LEMMA RankOfTruth ==
  ASSUME NEW id \in Rows
  PROVE  Rank(id) \in DOMAIN Truth /\ (id \in TruthAtK <=> Rank(id) <= NumNeighbours)
  <1>1. PICK i \in DOMAIN Truth : Truth[i] = id
    BY DEF Rows, ToSet
  <1>2. Rank(id) \in DOMAIN Truth /\ Truth[Rank(id)] = id
    BY <1>1 DEF Rank
  <1>3. ASSUME id \in TruthAtK PROVE Rank(id) <= NumNeighbours
    <2>1. PICK j \in 1 .. NumNeighbours : Truth[j] = id
      BY <1>3 DEF TruthAtK
    <2>2. j \in DOMAIN Truth
      BY Sizes
    <2>3. j = Rank(id)
      BY <1>2, <2>1, <2>2, TruthOnce
    <2>. QED
      BY <2>3, Sizes
  <1>4. ASSUME Rank(id) <= NumNeighbours PROVE id \in TruthAtK
    <2>1. Rank(id) \in 1 .. NumNeighbours
      BY <1>2, <1>4, Sizes
    <2>. QED
      BY <1>2, <2>1 DEF TruthAtK
  <1>. QED
    BY <1>2, <1>3, <1>4

\* An entry before one of a neighbour is one of a neighbour.
LEMMA BeforeANeighbour ==
  ASSUME NEW d, NEW e, d[1] \in Rows, e[1] \in TruthAtK, Nearer(d, e)
  PROVE  d[1] \in TruthAtK
  <1>1. e[1] \in Rows
    <2>1. PICK i \in 1 .. NumNeighbours : Truth[i] = e[1]
      BY DEF TruthAtK
    <2>2. i \in DOMAIN Truth
      BY Sizes
    <2>. QED
      BY <2>1, <2>2 DEF Rows, ToSet
  <1>2. CASE d[1] = e[1]
    BY <1>2
  <1>3. CASE Rank(d[1]) < Rank(e[1])
    <2>1. Rank(d[1]) \in Nat /\ Rank(e[1]) \in Nat /\ NumNeighbours \in Nat
      BY <1>1, RankOfTruth, Sizes
    <2>. QED
      BY <1>1, <1>3, <2>1, RankOfTruth
  <1>. QED
    BY <1>2, <1>3 DEF Nearer

\* The k nearest of some entries have a hit for every neighbour among them, and
\* nothing but hits if all neighbours are among them.
LEMMA NearestInTruth ==
  ASSUME NEW entries, IsFiniteSet(entries), IdsOf(entries) \subseteq Rows,
         NEW ks \in Nearest(entries)
  PROVE  LET neighbours == {entry \in ks : entry[1] \in TruthAtK}
             within == TruthAtK \cap IdsOf(entries)
         IN  /\ Cardinality(neighbours) >= Cardinality(within)
             /\ TruthAtK \subseteq IdsOf(entries) => Cardinality(neighbours) = NumNeighbours
             /\ ~HasCopies(entries) => within \subseteq IdsOf(ks)
  <1>. DEFINE neighbours == {entry \in ks : entry[1] \in TruthAtK}
              within == TruthAtK \cap IdsOf(entries)
  <1>1. ks \subseteq entries /\ IsFiniteSet(ks) /\ Cardinality(ks) = NumNeighbours
    BY FS_Subset DEF Nearest, kSubset
  <1>2. \A d \in ks, e \in entries \ ks : Nearer(d, e)
    BY DEF Nearest
  <1>3. \A e \in entries : e[1] \in Rows
    BY DEF IdsOf
  <1>4. IsFiniteSet(within) /\ Cardinality(within) <= NumNeighbours
    BY TruthAtKSize, FS_Subset
  <1>5. ASSUME NEW e \in entries \ ks, e[1] \in TruthAtK
        PROVE  neighbours = ks
    BY <1>1, <1>2, <1>3, <1>5, BeforeANeighbour
  <1>6. ASSUME neighbours # ks
        PROVE  \A e \in entries : e[1] \in TruthAtK => e \in neighbours
    BY <1>5, <1>6
  <1>7. IsFiniteSet(neighbours)
    BY <1>1, FS_Subset
  <1>8. ASSUME neighbours # ks
        PROVE  Cardinality(neighbours) >= Cardinality(within)
    <2>. DEFINE id == [entry \in neighbours |-> entry[1]]
    <2>1. id \in Surjection(neighbours, within)
      <3>1. id \in [neighbours -> within]
        BY <1>1 DEF IdsOf
      <3>2. ASSUME NEW n \in within PROVE \E entry \in neighbours : id[entry] = n
        BY <1>6, <1>8 DEF IdsOf
      <3>. QED
        BY <3>1, <3>2 DEF Surjection
    <2>. QED
      BY <1>7, <2>1, FS_Surjection
  <1>9. Cardinality(neighbours) >= Cardinality(within)
    BY <1>1, <1>4, <1>8
  <1>10. ASSUME TruthAtK \subseteq IdsOf(entries) PROVE Cardinality(neighbours) = NumNeighbours
    <2>1. CASE neighbours = ks
      BY <1>1, <2>1
    <2>2. CASE neighbours # ks
      <3>1. within = TruthAtK
        BY <1>10
      <3>2. Cardinality(neighbours) <= NumNeighbours
        BY <1>1, FS_Subset
      <3>3. Cardinality(neighbours) >= NumNeighbours
        BY <1>9, <3>1, TruthAtKSize
      <3>4. Cardinality(neighbours) \in Nat /\ NumNeighbours \in Nat
        BY <1>7, FS_CardinalityType, Sizes
      <3>. QED
        BY <3>2, <3>3, <3>4
    <2>. QED
      BY <2>1, <2>2
  <1>11. ASSUME ~HasCopies(entries), NEW n \in within PROVE n \in IdsOf(ks)
    <2>1. PICK e \in entries : e[1] = n
      BY <1>11 DEF IdsOf
    <2>2. SUFFICES ASSUME e \notin ks PROVE FALSE
      BY <2>1 DEF IdsOf
    <2>3. \A d \in ks : d[1] \in TruthAtK /\ d[1] # n
      <3>1. neighbours = ks
        BY <1>5, <1>11, <2>1, <2>2
      <3>2. ASSUME NEW d \in ks PROVE d[1] # n
        BY <1>1, <1>11, <2>1, <2>2, <3>2 DEF HasCopies
      <3>. QED
        BY <3>1, <3>2
    <2>. DEFINE id == [d \in ks |-> d[1]]
    <2>4. id \in Injection(ks, TruthAtK \ {n})
      <3>1. id \in [ks -> TruthAtK \ {n}]
        BY <2>3
      <3>2. \A d, f \in ks : id[d] = id[f] => d = f
        BY <1>1, <1>11 DEF HasCopies
      <3>. QED
        BY <3>1, <3>2 DEF Injection, IsInjective
    <2>5. IsFiniteSet(TruthAtK \ {n}) /\ Cardinality(TruthAtK \ {n}) = NumNeighbours - 1
      BY TruthAtKSize, FS_RemoveElement
    <2>6. NumNeighbours <= NumNeighbours - 1
      BY <1>1, <2>4, <2>5, FS_Injection
    <2>. QED
      BY <2>6, Sizes
  <1>. QED
    BY <1>9, <1>10, <1>11

LEMMA InitBenchmarkInv == BenchmarkInit => BenchmarkInv
  <1>. SUFFICES ASSUME BenchmarkInit PROVE BenchmarkInv
    OBVIOUS
  <1>1. IndexTrue
    <2>1. <<>> \in Seq(SUBSET Entries)
      OBVIOUS
    <2>. QED
      BY <2>1 DEF BenchmarkInit, NoIndex, IndexTrue, Indexes
  <1>2. OwnBuild
    BY DEF BenchmarkInit, OwnBuild
  <1>3. Dispatched /\ Searched
    BY DEF BenchmarkInit, Dispatched, Searched, FaissStages, SpheresStages
  <1>4. HonestMetrics /\ ExactMeansFullRecall
    BY DEF BenchmarkInit, NoMetrics, HonestMetrics, ExactMeansFullRecall
  <1>. QED
    BY <1>1, <1>2, <1>3, <1>4 DEF BenchmarkInv

\* What a step keeps that leaves the index as it is,
LEMMA IndexKept ==
  ASSUME BenchmarkInv, index' = index
  PROVE  IndexTrue'
  BY DEF BenchmarkInv, IndexTrue, Stored

\* or the metrics, unless it ends the run well.
LEMMA MetricsKept ==
  ASSUME BenchmarkInv, metrics' = metrics,
         stage' # "idle" \/ outcome' # "ok" \/ UNCHANGED <<stage, outcome, config>>
  PROVE  HonestMetrics' /\ ExactMeansFullRecall'
  <1>1. HonestMetrics'
    BY DEF BenchmarkInv, HonestMetrics
  <1>2. ExactMeansFullRecall'
    BY DEF BenchmarkInv, ExactMeansFullRecall
  <1>. QED
    BY <1>1, <1>2

\* Between runs little is promised,
LEMMA IdleInv ==
  ASSUME BenchmarkInv, stage' = "idle", found' = {}, config' \in Configs, misused' \in BOOLEAN
  PROVE  OwnBuild' /\ Dispatched' /\ Searched'
  <1>1. OwnBuild'
    BY DEF OwnBuild
  <1>2. Dispatched'
    BY DEF Dispatched, FaissStages, SpheresStages
  <1>3. Searched'
    BY DEF Searched
  <1>. QED
    BY <1>1, <1>2, <1>3

\* so that a step which fails may leave whatever it finds.
LEMMA FailInv ==
  ASSUME BenchmarkInv, Fail \/ Die
  PROVE  BenchmarkInv'
  <1>1. /\ stage' = "idle" /\ outcome' \in {"failed", "killed"} /\ config' = config
        /\ index' = index /\ metrics' = metrics /\ misused' = FALSE /\ found' = {}
    BY DEF Fail, Die, Ends
  <1>2. config' \in Configs /\ misused' \in BOOLEAN
    BY <1>1 DEF BenchmarkInv, Dispatched
  <1>. QED
    BY <1>1, <1>2, IdleInv, IndexKept, MetricsKept DEF BenchmarkInv

LEMMA StartInv ==
  ASSUME BenchmarkInv, NEW c \in Configs, Start(c)
  PROVE  BenchmarkInv'
  <1>1. /\ index' = index /\ metrics' = metrics /\ config' = c /\ misused' \in BOOLEAN
        /\ found' = {}
    BY DEF Start, searchVars, BenchmarkInv, Dispatched, Searched
  <1>2. IndexTrue'
    BY <1>1, IndexKept
  <1>3. CASE /\ ValidConfig(c) /\ (c.program = "example" \/ c.engine = "spheres")
             /\ stage' = "read"
    <2>1. ~UsesFaiss(c)
      BY <1>3 DEF UsesFaiss
    <2>2. OwnBuild' /\ Dispatched' /\ Searched'
      BY <1>1, <1>3, <2>1 DEF OwnBuild, Dispatched, Searched, FaissStages, SpheresStages
    <2>3. HonestMetrics' /\ ExactMeansFullRecall'
      BY <1>1, <1>3, MetricsKept
    <2>. QED
      BY <1>2, <2>2, <2>3 DEF BenchmarkInv
  <1>4. CASE ValidConfig(c) /\ UsesFaiss(c) /\ stage' = "faiss_mode"
    <2>1. OwnBuild' /\ Dispatched' /\ Searched'
      BY <1>1, <1>4 DEF OwnBuild, Dispatched, Searched, FaissStages, SpheresStages
    <2>2. HonestMetrics' /\ ExactMeansFullRecall'
      BY <1>1, <1>4, MetricsKept
    <2>. QED
      BY <1>2, <2>1, <2>2 DEF BenchmarkInv
  <1>5. CASE stage' = "idle" /\ outcome' \in {"failed", "killed"}
    BY <1>1, <1>2, <1>5, IdleInv, MetricsKept DEF BenchmarkInv
  <1>. QED
    BY <1>3, <1>4, <1>5 DEF Start

\* A step that goes on, and whose own work is the index or the search.
LEMMA GoesOn ==
  ASSUME BenchmarkInv, metrics' = metrics, stage' # "idle",
         IndexTrue', OwnBuild', Dispatched', Searched'
  PROVE  BenchmarkInv'
  BY MetricsKept DEF BenchmarkInv

LEMMA ReadBaseInv ==
  ASSUME BenchmarkInv, ReadBase
  PROVE  BenchmarkInv'
  <1>1. CASE config.n_base > Len(Truth) /\ Fail
    BY <1>1, FailInv
  <1>2. CASE /\ stage' = (IF config.reuse_index THEN "load" ELSE "remove")
             /\ config' = config /\ config.n_base <= Len(Truth)
             /\ UNCHANGED <<index, metrics, visible, found, misused, premature>>
    <2>1. config.reuse_index \in BOOLEAN
      BY ConfigTyped DEF BenchmarkInv, Dispatched
    <2>2. stage = "read" /\ found = {}
      BY DEF ReadBase, BenchmarkInv, Searched
    <2>3. OwnBuild'
      BY <1>2, <2>1 DEF OwnBuild
    <2>4. Dispatched'
      BY <1>2, <2>1, <2>2
      DEF BenchmarkInv, Dispatched, FaissStages, SpheresStages
    <2>5. Searched'
      BY <1>2, <2>1, <2>2 DEF Searched
    <2>. QED
      BY <1>2, <2>1, <2>3, <2>4, <2>5, IndexKept, GoesOn
  <1>. QED
    BY <1>1, <1>2 DEF ReadBase, Goto, searchVars

LEMMA RemoveIndexInv ==
  ASSUME BenchmarkInv, RemoveIndex
  PROVE  BenchmarkInv'
  <1>1. /\ stage = "remove" /\ stage' = "create" /\ config' = config /\ index' = NoIndex
        /\ metrics' = metrics /\ found' = found /\ misused' = misused
    BY DEF RemoveIndex, Goto, searchVars
  <1>2. IndexTrue'
    <2>1. <<>> \in Seq(SUBSET Entries)
      OBVIOUS
    <2>. QED
      BY <1>1, <2>1 DEF NoIndex, IndexTrue, Indexes
  <1>3. OwnBuild'
    BY <1>1 DEF BenchmarkInv, OwnBuild, NoIndex
  <1>4. Dispatched' /\ Searched'
    BY <1>1 DEF BenchmarkInv, Dispatched, Searched, FaissStages, SpheresStages
  <1>. QED
    BY <1>1, <1>2, <1>3, <1>4, GoesOn

\* The files made in advance take so many pages.
LEMMA RoomInFiles ==
  ASSUME config.n_base \in Nat
  PROVE  NumFiles \in Nat /\ NumFiles * PagesPerFile \in Nat
  <1>. DEFINE d == PageSize * PagesPerFile
              q == config.n_base \div d
  <1>1. d \in Nat \ {0}
    BY Sizes
  <1>. HIDE DEF d
  <1>2. q \in Nat
    BY <1>1
  <1>. HIDE DEF q
  <1>3. (1 + q) * PagesPerFile \in Nat /\ 1 + q \in Nat
    BY <1>2, Sizes
  <1>. QED
    BY <1>3 DEF d, q, NumFiles

LEMMA AppendToSet ==
  ASSUME NEW s \in Seq(SUBSET Entries), NEW e \in SUBSET Entries
  PROVE  ToSet(Append(s, e)) = ToSet(s) \cup {e}
  <1>1. /\ Append(s, e) \in Seq(SUBSET Entries) /\ Len(Append(s, e)) = Len(s) + 1 /\ Len(s) \in Nat
        /\ \A i \in 1 .. Len(s) : Append(s, e)[i] = s[i]
        /\ Append(s, e)[Len(s) + 1] = e
    OBVIOUS
  <1>2. DOMAIN Append(s, e) = 1 .. Len(s) + 1 /\ DOMAIN s = 1 .. Len(s)
    BY <1>1
  <1>3. \A i \in 1 .. Len(s) + 1 : i \in 1 .. Len(s) \/ i = Len(s) + 1
    BY <1>1
  <1>. QED
    BY <1>1, <1>2, <1>3 DEF ToSet

LEMMA CreateDatabaseInv ==
  ASSUME BenchmarkInv, CreateDatabase
  PROVE  BenchmarkInv'
  <1>1. /\ stage = "create" /\ stage' \in {"create", "prefill"} /\ config' = config
        /\ metrics' = metrics /\ found' = found /\ misused' = misused
    BY DEF CreateDatabase, Goto, searchVars
  <1>2. /\ index \in Indexes
        /\ index.kind \in {"none", "no_config", "zero_config"}
        /\ index.pages = <<>> /\ ~index.whole
    BY <1>1 DEF BenchmarkInv, IndexTrue, OwnBuild
  <1>3. config.n_base \in Nat
    BY ConfigTyped DEF BenchmarkInv, Dispatched
  <1>4. Dispatched' /\ Searched'
    BY <1>1 DEF BenchmarkInv, Dispatched, Searched, FaissStages, SpheresStages
  <1>5. CASE /\ index' = [index EXCEPT !.kind = "no_config"] /\ stage' = "create"
    <2>1. IndexTrue'
      BY <1>2, <1>5 DEF IndexTrue, Indexes
    <2>2. OwnBuild'
      BY <1>1, <1>2, <1>5 DEF BenchmarkInv, OwnBuild
    <2>. QED
      BY <1>1, <1>4, <2>1, <2>2, GoesOn
  <1>6. CASE /\ index' = [index EXCEPT !.kind = "zero_config"] /\ stage' = "create"
    <2>1. IndexTrue'
      BY <1>2, <1>6 DEF IndexTrue, Indexes
    <2>2. OwnBuild'
      BY <1>1, <1>2, <1>6 DEF BenchmarkInv, OwnBuild
    <2>. QED
      BY <1>1, <1>4, <2>1, <2>2, GoesOn
  <1>7. CASE /\ index' = [index EXCEPT !.kind = "spheres", !.n_files = 1,
                                       !.count = config.n_base, !.mode = "spheres"]
             /\ stage' = "prefill"
    <2>1. IndexTrue'
      BY <1>2, <1>3, <1>7 DEF IndexTrue, Indexes
    <2>2. index'.pages = <<>>
      BY <1>2, <1>7 DEF Indexes
    <2>3. IdsOf(Stored') = {} /\ Len(index'.pages) = 0
      BY <2>2 DEF Stored, ToSet, IdsOf
    <2>4. NumFiles' = NumFiles
      BY <1>1 DEF NumFiles
    <2>5. 0 <= (NumFiles * PagesPerFile)'
      <3>1. NumFiles * PagesPerFile \in Nat
        BY <1>3, RoomInFiles
      <3>. QED
        BY <2>4, <3>1
    <2>6. OwnBuild'
      BY <1>1, <1>2, <1>7, <2>3, <2>5 DEF BenchmarkInv, OwnBuild, Indexes
    <2>. QED
      BY <1>1, <1>4, <2>1, <2>6, GoesOn
  <1>. QED
    BY <1>5, <1>6, <1>7 DEF CreateDatabase, Goto

LEMMA PrefillPageInv ==
  ASSUME BenchmarkInv, PrefillPage
  PROVE  BenchmarkInv'
  <1>1. CASE Die
    BY <1>1, FailInv
  <1>2. ASSUME NEW ids \in SUBSET Remaining, Min(Remaining) \in ids, NEW copies \in 0 .. PageSize - 1,
               Len(index.pages) < NumFiles * PagesPerFile,
               index' = [index EXCEPT !.pages =
                 Append(@, Once(ids) \cup {Min(Remaining)} \X (1 .. copies))],
               Goto("prefill"), UNCHANGED <<metrics, searchVars>>
        PROVE  BenchmarkInv'
    <2>. DEFINE first == Min(Remaining)
                page == Once(ids) \cup {first} \X (1 .. copies)
    <2>1. /\ stage = "prefill" /\ stage' = "prefill" /\ config' = config
      BY <1>2 DEF PrefillPage, Goto
    <2>2. /\ index \in Indexes
          /\ index.kind = "spheres" /\ ~index.whole /\ index.count = config.n_base
          /\ IdsOf(Stored) \subseteq FirstRows(config.n_base)
      BY <2>1 DEF BenchmarkInv, IndexTrue, OwnBuild
    <2>0. index.pages \in Seq(SUBSET Entries) /\ Len(index.pages) \in Nat
      <3>1. index.pages \in Seq(SUBSET Entries)
        BY <2>2 DEF Indexes
      <3>. QED
        BY <3>1
    <2>3. config.n_base \in Nat
      BY ConfigTyped DEF BenchmarkInv, Dispatched
    <2>4. IdsOf(page) \subseteq FirstRows(config.n_base) /\ page \in SUBSET Entries
      <3>1. ids \subseteq FirstRows(config.n_base) /\ ids \subseteq Nat /\ first \in ids
        BY <1>2, <2>3 DEF Remaining, FirstRows
      <3>. HIDE DEF first
      <3>2. 0 \in 0 .. PageSize - 1 /\ \A i \in 1 .. copies : i \in 0 .. PageSize - 1
        BY Sizes
      <3>3. \A entry \in page : entry \in Entries /\ entry[1] \in ids
        BY <3>1, <3>2 DEF Once, Entries
      <3>. QED
        BY <3>1, <3>3 DEF IdsOf
    <2>. HIDE DEF page
    <2>5. /\ index'.pages = Append(index.pages, page) /\ index'.pages \in Seq(SUBSET Entries)
          /\ Len(index'.pages) = Len(index.pages) + 1
          /\ index'.kind = index.kind /\ index'.whole = index.whole
          /\ index'.count = index.count
      <3>1. /\ index'.pages = Append(index.pages, page)
            /\ index'.kind = index.kind /\ index'.whole = index.whole
            /\ index'.count = index.count
        BY <1>2, <2>2 DEF Indexes, page
      <3>. QED
        BY <2>0, <2>4, <3>1
    <2>6. Stored' = Stored \cup page
      <3>1. ToSet(index'.pages) = ToSet(index.pages) \cup {page}
        <4>1. ToSet(Append(index.pages, page)) = ToSet(index.pages) \cup {page}
          BY <2>0, <2>4, AppendToSet
        <4>. QED
          BY <2>5, <4>1
      <3>. QED
        BY <3>1 DEF Stored
    <2>7. IndexTrue'
      BY <1>2, <2>2, <2>5 DEF IndexTrue, Indexes
    <2>8. OwnBuild'
      <3>1. NumFiles' = NumFiles /\ NumFiles * PagesPerFile \in Nat
        BY <2>1, <2>3, RoomInFiles DEF NumFiles
      <3>. DEFINE room == NumFiles * PagesPerFile
      <3>2. room \in Nat /\ Len(index.pages) \in Nat /\ Len(index.pages) < room
        BY <1>2, <2>0, <3>1
      <3>. HIDE DEF room
      <3>3. Len(index'.pages) <= room
        BY <2>5, <3>2
      <3>4. Len(index'.pages) <= (NumFiles * PagesPerFile)'
        BY <3>1, <3>3 DEF room
      <3>. QED
        BY <2>1, <2>2, <2>4, <2>5, <2>6, <3>4 DEF BenchmarkInv, OwnBuild, IdsOf
    <2>9. UNCHANGED <<metrics, found, misused>>
      BY <1>2 DEF searchVars
    <2>10. Dispatched' /\ Searched'
      BY <2>1, <2>9 DEF BenchmarkInv, Dispatched, Searched, FaissStages, SpheresStages
    <2>. QED
      BY <2>1, <2>7, <2>8, <2>9, <2>10, GoesOn
  <1>. QED
    BY <1>1, <1>2 DEF PrefillPage, searchVars

LEMMA CloseBuiltInv ==
  ASSUME BenchmarkInv, CloseBuilt
  PROVE  BenchmarkInv'
  <1>1. /\ stage = "prefill" /\ Remaining = {} /\ stage' = "load" /\ config' = config
        /\ index' = [index EXCEPT !.n_files = NumFiles, !.whole = TRUE]
        /\ UNCHANGED <<metrics, visible, found, misused, premature>>
    BY DEF CloseBuilt, Goto, searchVars
  <1>2. /\ index \in Indexes /\ index.kind = "spheres" /\ index.count = config.n_base
        /\ IdsOf(Stored) \subseteq FirstRows(config.n_base) /\ ~config.reuse_index
        /\ Len(index.pages) <= NumFiles * PagesPerFile /\ config.n_base <= Len(Truth)
    BY <1>1 DEF BenchmarkInv, IndexTrue, OwnBuild
  <1>3. NumFiles \in Nat
    BY ConfigTyped, RoomInFiles DEF BenchmarkInv, Dispatched
  <1>4. /\ index'.kind = "spheres" /\ index'.count = config.n_base /\ index'.whole
        /\ index'.pages = index.pages /\ index'.n_files = NumFiles
        /\ index' \in Indexes
    BY <1>1, <1>2, <1>3 DEF Indexes
  <1>5. IdsOf(Stored') = FirstRows(config.n_base)
    <2>1. IdsOf(Stored) = FirstRows(config.n_base)
      BY <1>1, <1>2 DEF Remaining
    <2>. QED
      BY <1>4, <2>1 DEF Stored
  <1>6. IndexTrue'
    BY <1>2, <1>4, <1>5 DEF IndexTrue
  <1>7. OwnBuild'
    BY <1>1, <1>2, <1>4 DEF OwnBuild
  <1>8. Dispatched' /\ Searched'
    BY <1>1 DEF BenchmarkInv, Dispatched, Searched, FaissStages, SpheresStages
  <1>. QED
    BY <1>1, <1>6, <1>7, <1>8, GoesOn

LEMMA MinOfPair ==
  ASSUME NEW a \in Nat, NEW b \in Nat, a <= b
  PROVE  Min({a, b}) = a
  BY DEF Min

\* A directory whose build was completed is read to its last page.
LEMMA WholeIsRead ==
  ASSUME BenchmarkInv, index.kind = "spheres", index.whole
  PROVE  UNION ToSet(SubSeq(index.pages, 1,
                            Min({Len(index.pages), index.n_files * PagesPerFile}))) = Stored
  <1>1. /\ index \in Indexes
        /\ Len(index.pages) <= index.n_files * PagesPerFile
    BY DEF BenchmarkInv, IndexTrue
  <1>2. index.pages \in Seq(SUBSET Entries) /\ index.n_files \in Nat
    BY <1>1 DEF Indexes
  <1>3. index.n_files * PagesPerFile \in Nat /\ Len(index.pages) \in Nat
    BY <1>2, Sizes
  <1>4. Min({Len(index.pages), index.n_files * PagesPerFile}) = Len(index.pages)
    BY <1>1, <1>3, MinOfPair
  <1>5. SubSeq(index.pages, 1, Len(index.pages)) = index.pages
    BY <1>2
  <1>. QED
    BY <1>1, <1>4, <1>5 DEF Stored

LEMMA LoadDatabaseInv ==
  ASSUME BenchmarkInv, LoadDatabase
  PROVE  BenchmarkInv'
  <1>1. CASE Die \/ Fail
    BY <1>1, FailInv
  <1>2. CASE /\ index.kind = "spheres"
             /\ visible' = UNION ToSet(SubSeq(index.pages, 1,
                             Min({Len(index.pages), index.n_files * PagesPerFile})))
             /\ misused' = (config.reuse_index
                              /\ (index.count # config.n_base \/ ~index.whole))
             /\ Goto("mode")
             /\ UNCHANGED <<index, metrics, found, premature>>
    <2>1. /\ stage = "load" /\ stage' = "mode" /\ config' = config
          /\ UNCHANGED <<index, metrics, found>> /\ misused' \in BOOLEAN
      BY <1>2 DEF LoadDatabase, Goto
    <2>2. config.reuse_index \in BOOLEAN
      BY ConfigTyped DEF BenchmarkInv, Dispatched
    <2>3. ~misused' => /\ visible' = Stored' /\ IdsOf(Stored') = FirstRows(config.n_base)
                       /\ config.n_base <= Len(Truth)
      <3>1. ~misused' => index.whole /\ index.count = config.n_base
        BY <1>2, <2>1, <2>2 DEF BenchmarkInv, OwnBuild
      <3>2. Stored' = Stored
        BY <2>1 DEF Stored
      <3>. QED
        BY <1>2, <3>1, <3>2, WholeIsRead DEF BenchmarkInv, IndexTrue
    <2>4. ~UsesFaiss(config)
      BY <2>1 DEF BenchmarkInv, Dispatched, SpheresStages
    <2>5. OwnBuild'
      BY <2>1 DEF OwnBuild
    <2>6. Dispatched'
      BY <2>1 DEF BenchmarkInv, Dispatched, FaissStages, SpheresStages
    <2>7. Searched'
      BY <1>2, <2>1, <2>3, <2>4 DEF BenchmarkInv, Searched
    <2>. QED
      BY <2>1, <2>5, <2>6, <2>7, IndexKept, GoesOn
  <1>. QED
    BY <1>1, <1>2 DEF LoadDatabase

LEMMA CheckModeInv ==
  ASSUME BenchmarkInv, CheckMode
  PROVE  BenchmarkInv'
  <1>1. CASE Fail
    BY <1>1, FailInv
  <1>2. CASE Goto("search") /\ UNCHANGED <<index, metrics, visible, found, misused, premature>>
    <2>1. stage = "mode" /\ stage' = "search" /\ config' = config
      BY <1>2 DEF CheckMode, Goto
    <2>2. OwnBuild'
      BY <2>1 DEF OwnBuild
    <2>3. Dispatched'
      BY <1>2, <2>1 DEF BenchmarkInv, Dispatched, FaissStages, SpheresStages
    <2>4. Searched'
      BY <1>2, <2>1 DEF BenchmarkInv, Searched, Stored
    <2>. QED
      BY <1>2, <2>1, <2>2, <2>3, <2>4, IndexKept, GoesOn
  <1>. QED
    BY <1>1, <1>2 DEF CheckMode, searchVars

LEMMA SearchInv ==
  ASSUME BenchmarkInv, Search
  PROVE  BenchmarkInv'
  <1>1. /\ stage = "search" /\ stage' = "evaluate" /\ config' = config
        /\ UNCHANGED <<index, metrics, visible, misused>>
    BY DEF Search, SearchAs, Goto
  <1>2. ~UsesFaiss(config) /\ ValidConfig(config)
    BY <1>1 DEF BenchmarkInv, Dispatched, SpheresStages
  <1>3. ~premature' /\ ExactSearch(config) => found' \in Nearest(visible)
    BY DEF Search, SearchAs
  <1>4. OwnBuild'
    BY <1>1 DEF OwnBuild
  <1>5. Dispatched'
    BY <1>1 DEF BenchmarkInv, Dispatched, FaissStages, SpheresStages
  <1>6. Stored' = Stored
    BY <1>1 DEF Stored
  <1>7. Searched'
    BY <1>1, <1>2, <1>3, <1>6 DEF BenchmarkInv, Searched
  <1>. QED
    BY <1>1, <1>4, <1>5, <1>7, IndexKept, GoesOn

LEMMA FaissModeInv ==
  ASSUME BenchmarkInv, FaissMode
  PROVE  BenchmarkInv'
  <1>1. CASE Fail
    BY <1>1, FailInv
  <1>2. CASE /\ config.mode \in {"flat", "hnsw", "ivf"}
             /\ Goto(IF config.reuse_index THEN "faiss_load" ELSE "faiss_build")
             /\ UNCHANGED <<index, metrics, visible, found, misused, premature>>
    <2>1. config.reuse_index \in BOOLEAN
      BY ConfigTyped DEF BenchmarkInv, Dispatched
    <2>2. /\ stage = "faiss_mode" /\ config' = config
          /\ stage' = IF config.reuse_index THEN "faiss_load" ELSE "faiss_build"
      BY <1>2 DEF FaissMode, Goto
    <2>3. OwnBuild'
      BY <2>1, <2>2 DEF OwnBuild
    <2>4. Dispatched'
      BY <1>2, <2>1, <2>2 DEF BenchmarkInv, Dispatched, FaissStages, SpheresStages
    <2>5. Searched'
      BY <1>2, <2>1, <2>2 DEF BenchmarkInv, Searched
    <2>. QED
      BY <1>2, <2>1, <2>2, <2>3, <2>4, <2>5, IndexKept, GoesOn
  <1>. QED
    BY <1>1, <1>2 DEF FaissMode, searchVars

LEMMA FaissBuildInv ==
  ASSUME BenchmarkInv, FaissBuild
  PROVE  BenchmarkInv'
  <1>1. CASE Fail
    BY <1>1, FailInv
  <1>2. CASE /\ config.n_base <= Len(Truth) /\ Goto("faiss_save")
             /\ UNCHANGED <<index, metrics, visible, found, misused, premature>>
    <2>1. stage = "faiss_build" /\ stage' = "faiss_save" /\ config' = config
      BY <1>2 DEF FaissBuild, Goto
    <2>2. OwnBuild'
      BY <1>2, <2>1 DEF BenchmarkInv, OwnBuild
    <2>3. Dispatched'
      BY <1>2, <2>1 DEF BenchmarkInv, Dispatched, FaissStages, SpheresStages
    <2>4. Searched'
      BY <1>2, <2>1 DEF BenchmarkInv, Searched
    <2>. QED
      BY <1>2, <2>1, <2>2, <2>3, <2>4, IndexKept, GoesOn
  <1>. QED
    BY <1>1, <1>2 DEF FaissBuild, searchVars

LEMMA FaissSaveInv ==
  ASSUME BenchmarkInv, FaissSave
  PROVE  BenchmarkInv'
  <1>1. CASE Fail
    BY <1>1, FailInv
  <1>2. CASE /\ index' = [kind |-> "faiss", n_files |-> 1,
                          pages |-> <<Once(FirstRows(config.n_base))>>,
                          count |-> config.n_base, mode |-> config.mode, whole |-> TRUE]
             /\ Goto("faiss_load")
             /\ UNCHANGED <<metrics, visible, found, misused, premature>>
    <2>1. stage = "faiss_save" /\ stage' = "faiss_load" /\ config' = config
      BY <1>2 DEF FaissSave, Goto
    <2>2. config.n_base \in Nat /\ config.mode \in {"flat", "hnsw", "ivf"}
      BY <2>1, ConfigTyped DEF BenchmarkInv, Dispatched, FaissStages
    <2>. DEFINE page == Once(FirstRows(config.n_base))
    <2>3. page \in SUBSET Entries /\ IdsOf(page) = FirstRows(config.n_base)
      <3>1. \A n \in FirstRows(config.n_base) : n \in Nat
        BY <2>2 DEF FirstRows
      <3>2. 0 \in 0 .. PageSize - 1
        BY Sizes
      <3>3. \A n \in FirstRows(config.n_base) : <<n, 0>> \in page
        BY DEF Once
      <3>4. \A entry \in page : /\ entry \in Entries
                                /\ entry[1] \in FirstRows(config.n_base)
        BY <3>1, <3>2 DEF Once, Entries
      <3>5. \A n \in FirstRows(config.n_base) : \E entry \in page : entry[1] = n
        BY <3>3
      <3>. HIDE DEF page
      <3>. QED
        BY <3>4, <3>5 DEF IdsOf
    <2>. HIDE DEF page
    <2>4. <<page>> \in Seq(SUBSET Entries)
      BY <2>3
    <2>5. index' \in Indexes
      BY <1>2, <2>2, <2>4 DEF Indexes, page
    <2>6. IdsOf(Stored') = FirstRows(config.n_base)
      <3>1. ToSet(<<page>>) = {page}
        BY DEF ToSet
      <3>2. index'.pages = <<page>>
        BY <1>2 DEF page
      <3>. QED
        BY <2>3, <3>1, <3>2 DEF Stored
    <2>7. IndexTrue'
      BY <1>2, <2>1, <2>5, <2>6 DEF BenchmarkInv, OwnBuild, IndexTrue
    <2>8. OwnBuild'
      BY <1>2, <2>1 DEF OwnBuild
    <2>9. Dispatched' /\ Searched'
      BY <1>2, <2>1 DEF BenchmarkInv, Dispatched, Searched, FaissStages, SpheresStages
    <2>. QED
      BY <1>2, <2>1, <2>7, <2>8, <2>9, GoesOn
  <1>. QED
    BY <1>1, <1>2 DEF FaissSave, searchVars

LEMMA FaissLoadInv ==
  ASSUME BenchmarkInv, FaissLoad
  PROVE  BenchmarkInv'
  <1>1. CASE Die \/ Fail
    BY <1>1, FailInv
  <1>2. CASE /\ index.kind = "faiss"
             /\ visible' = Stored
             /\ misused' = (config.reuse_index
                              /\ (index.count # config.n_base \/ index.mode # config.mode))
             /\ Goto(IF config.mode = "ivf" /\ ~config.reuse_index
                       THEN "write" ELSE "faiss_search")
             /\ UNCHANGED <<index, metrics, found, premature>>
    <2>1. config.reuse_index \in BOOLEAN
      BY ConfigTyped DEF BenchmarkInv, Dispatched
    <2>2. /\ stage = "faiss_load" /\ stage' \in {"write", "faiss_search"}
          /\ config' = config /\ misused' \in BOOLEAN /\ found' = {}
          /\ UsesFaiss(config) /\ ValidConfig(config)
      BY <1>2 DEF FaissLoad, Goto, BenchmarkInv, Dispatched, Searched, FaissStages
    <2>3. ~misused' => index.count = config.n_base /\ index.mode = config.mode
      BY <1>2, <2>1, <2>2 DEF BenchmarkInv, OwnBuild
    <2>4. /\ IdsOf(Stored) = FirstRows(index.count) /\ Stored' = Stored
          /\ index.count <= Len(Truth)
      BY <1>2 DEF BenchmarkInv, IndexTrue, Stored
    <2>5. OwnBuild'
      BY <2>2 DEF OwnBuild
    <2>6. Dispatched'
      BY <2>2 DEF BenchmarkInv, Dispatched, FaissStages, SpheresStages
    <2>7. Searched'
      BY <1>2, <2>2, <2>3, <2>4 DEF Searched
    <2>. QED
      BY <1>2, <2>2, <2>5, <2>6, <2>7, IndexKept, GoesOn
  <1>. QED
    BY <1>1, <1>2 DEF FaissLoad

LEMMA FaissSearchInv ==
  ASSUME BenchmarkInv, FaissSearch
  PROVE  BenchmarkInv'
  <1>1. CASE Fail
    BY <1>1, FailInv
  <1>2. CASE /\ found' \in (IF index.mode = "flat" THEN Nearest(visible)
                            ELSE kSubset(NumNeighbours, visible))
             /\ Goto("evaluate")
             /\ UNCHANGED <<index, metrics, visible, misused, premature>>
    <2>1. stage = "faiss_search" /\ stage' = "evaluate" /\ config' = config
      BY <1>2 DEF FaissSearch, Goto
    <2>2. UsesFaiss(config) /\ ValidConfig(config)
      BY <2>1 DEF BenchmarkInv, Dispatched, FaissStages
    <2>3. ~misused /\ ExactSearch(config) => found' \in Nearest(visible)
      <3>1. SUFFICES ASSUME ~misused, ExactSearch(config) PROVE found' \in Nearest(visible)
        OBVIOUS
      <3>2. index.mode = "flat"
        BY <2>1, <2>2, <3>1 DEF BenchmarkInv, Searched, ExactSearch
      <3>. QED
        BY <1>2, <3>2
    <2>4. OwnBuild'
      BY <2>1 DEF OwnBuild
    <2>5. Dispatched'
      BY <1>2, <2>1, <2>2 DEF BenchmarkInv, Dispatched, FaissStages, SpheresStages
    <2>6. Searched'
      BY <1>2, <2>1, <2>2, <2>3 DEF BenchmarkInv, Searched, Stored
    <2>. QED
      BY <1>2, <2>1, <2>4, <2>5, <2>6, IndexKept, GoesOn
  <1>. QED
    BY <1>1, <1>2 DEF FaissSearch

LEMMA EvaluateInv ==
  ASSUME BenchmarkInv, Evaluate
  PROVE  BenchmarkInv'
  <1>1. CASE Fail
    BY <1>1, FailInv
  <1>2. CASE InRange /\ Goto("write") /\ UNCHANGED <<index, metrics, visible, found, misused, premature>>
    <2>1. stage = "evaluate" /\ stage' = "write" /\ config' = config
      BY <1>2 DEF Evaluate, Goto
    <2>2. OwnBuild'
      BY <2>1 DEF OwnBuild
    <2>3. Dispatched'
      BY <1>2, <2>1 DEF BenchmarkInv, Dispatched, FaissStages, SpheresStages
    <2>4. InRange'
      BY <1>2, <2>1 DEF InRange
    <2>5. Searched'
      BY <1>2, <2>1, <2>4 DEF BenchmarkInv, Searched, Stored
    <2>. QED
      BY <1>2, <2>1, <2>2, <2>3, <2>5, IndexKept, GoesOn
  <1>. QED
    BY <1>1, <1>2 DEF Evaluate, searchVars

\* An index the run may use has finitely many entries, of its rows.
LEMMA VisibleFinite ==
  ASSUME BenchmarkInv, stage = "write", ~misused
  PROVE  /\ visible = Stored /\ IdsOf(visible) = FirstRows(config.n_base)
         /\ IsFiniteSet(visible)
  <1>1. visible = Stored /\ IdsOf(visible) = FirstRows(config.n_base) /\ index \in Indexes
    BY DEF BenchmarkInv, Searched, IndexTrue
  <1>2. index.pages \in Seq(SUBSET Entries)
    BY <1>1 DEF Indexes
  <1>3. visible \subseteq Entries
    BY <1>1, <1>2 DEF Stored, ToSet
  <1>4. \A entry \in visible : entry \in FirstRows(config.n_base) \X (0 .. PageSize - 1)
    BY <1>1, <1>3 DEF IdsOf, Entries
  <1>5. IsFiniteSet(FirstRows(config.n_base)) /\ IsFiniteSet(0 .. PageSize - 1)
    <2>1. 0 \in Int /\ PageSize - 1 \in Int
      BY Sizes
    <2>2. config.n_base \in Nat
      BY ConfigTyped DEF BenchmarkInv, Dispatched
    <2>. QED
      BY <2>1, <2>2, FirstRowsSize, FS_Interval
  <1>6. IsFiniteSet(FirstRows(config.n_base) \X (0 .. PageSize - 1))
    BY <1>5, FS_Product
  <1>. QED
    BY <1>1, <1>4, <1>6, FS_Subset

\* What write_json says of a run whose search found something.
LEMMA MetricsTrue ==
  ASSUME BenchmarkInv, stage = "write", found # {}, metrics' = Report, config' = config
  PROVE  /\ ExactMeansFullRecall' /\ metrics'.config = config
         /\ ~metrics'.misused => /\ metrics'.over = FirstRows(config.n_base)
                                 /\ metrics'.searched_mode = config.mode
  <1>. DEFINE within == TruthAtK \cap FirstRows(config.n_base)
  <1>1. /\ metrics'.config = config /\ metrics'.misused = misused
        /\ metrics'.premature = premature /\ metrics'.copies = HasCopies(visible)
        /\ metrics'.over = IdsOf(visible) /\ metrics'.found = IdsOf(found)
        /\ metrics'.hits = Cardinality(HitEntries)
        /\ metrics'.searched_mode = IF index.kind = "faiss" THEN index.mode ELSE config.mode
    BY DEF Report
  <1>2. /\ index.kind = (IF UsesFaiss(config) THEN "faiss" ELSE "spheres")
        /\ ~misused /\ UsesFaiss(config) => index.mode = config.mode
        /\ ~misused /\ ~premature /\ ExactSearch(config) => found \in Nearest(visible)
        /\ InRange /\ config.n_base \in Nat
    BY ConfigTyped DEF BenchmarkInv, Searched, Dispatched
  <1>3. ~misused => metrics'.searched_mode = config.mode /\ metrics'.over = FirstRows(config.n_base)
    BY <1>1, <1>2, VisibleFinite
  <1>4. ASSUME ~misused, ~premature, ExactSearch(config)
        PROVE  /\ metrics'.hits >= Cardinality(within)
               /\ config.program = "benchmark" => metrics'.hits = NumNeighbours
               /\ ~HasCopies(visible) => within \subseteq IdsOf(found)
    <2>1. IsFiniteSet(visible) /\ IdsOf(visible) = FirstRows(config.n_base)
      BY <1>4, VisibleFinite
    <2>2. found \in Nearest(visible)
      BY <1>2, <1>4
    <2>3. within = TruthAtK \cap IdsOf(visible)
      BY <2>1
    <2>4. config.program = "benchmark" => TruthAtK \subseteq IdsOf(visible)
      BY <1>2, <2>1 DEF InRange
    <2>5. IdsOf(visible) \subseteq Rows
      <3>1. config.n_base \in Nat /\ config.n_base <= Len(Truth)
        BY <1>4, ConfigTyped DEF BenchmarkInv, Searched, Dispatched
      <3>2. Rows = FirstRows(Len(Truth)) /\ Len(Truth) \in Nat
        BY BenchmarkRunAssumption
      <3>. QED
        BY <2>1, <3>1, <3>2 DEF FirstRows
    <2>6. /\ Cardinality(HitEntries) >= Cardinality(within)
          /\ TruthAtK \subseteq IdsOf(visible) => Cardinality(HitEntries) = NumNeighbours
          /\ ~HasCopies(visible) => within \subseteq IdsOf(found)
      BY <2>1, <2>2, <2>3, <2>5, NearestInTruth DEF HitEntries
    <2>. HIDE DEF within
    <2>. QED
      BY <1>1, <2>4, <2>6
  <1>5. ExactMeansFullRecall'
    BY <1>1, <1>4 DEF ExactMeansFullRecall
  <1>. QED
    BY <1>1, <1>3, <1>5

LEMMA MetricsWritten ==
  ASSUME BenchmarkInv, stage = "write", NEW complete \in BOOLEAN,
         metrics' = Metrics(complete), config' = config
  PROVE  HonestMetrics' /\ ExactMeansFullRecall'
  <1>1. CASE ~complete \/ found = {}
    <2>1. ~metrics'.recall
      BY <1>1 DEF Metrics, NoMetrics
    <2>. QED
      BY <2>1 DEF HonestMetrics, ExactMeansFullRecall
  <1>2. CASE complete /\ found # {}
    <2>0. metrics' = Report /\ found # {}
      BY <1>2 DEF Metrics
    <2>1. /\ ExactMeansFullRecall' /\ metrics'.config = config
          /\ ~metrics'.misused => /\ metrics'.over = FirstRows(config.n_base)
                                  /\ metrics'.searched_mode = config.mode
      BY <2>0, MetricsTrue
    <2>. QED
      BY <2>1 DEF HonestMetrics
  <1>. QED
    BY <1>1, <1>2

LEMMA WriteMetricsInv ==
  ASSUME BenchmarkInv, WriteMetrics
  PROVE  BenchmarkInv'
  <1>1. CASE Fail
    BY <1>1, FailInv
  <1>2. ASSUME NEW complete \in BOOLEAN, metrics' = Metrics(complete), Ends("ok"), index' = index
        PROVE  BenchmarkInv'
    <2>1. /\ stage = "write" /\ stage' = "idle" /\ config' = config
          /\ misused' = FALSE /\ found' = {}
      BY <1>2 DEF WriteMetrics, Ends
    <2>2. HonestMetrics' /\ ExactMeansFullRecall'
      BY <1>2, <2>1, MetricsWritten
    <2>3. config' \in Configs
      BY <2>1 DEF BenchmarkInv, Dispatched
    <2>. QED
      BY <1>2, <2>1, <2>2, <2>3, IndexKept, IdleInv DEF BenchmarkInv
  <1>. QED
    BY <1>1, <1>2 DEF WriteMetrics

LEMMA KillInv ==
  ASSUME BenchmarkInv, Kill
  PROVE  BenchmarkInv'
  <1>1. /\ stage' = "idle" /\ outcome' = "killed" /\ config' = config
        /\ misused' = FALSE /\ found' = {}
        /\ index' \in {index} \cup LeftBehind
        /\ metrics' = metrics \/ (stage = "write" /\ metrics' = Metrics(FALSE))
    BY DEF Kill, Ends
  <1>2. IndexTrue'
    <2>1. CASE index' = index
      BY <2>1, IndexKept
    <2>2. CASE index' \in LeftBehind
      <3>1. index' \in {[NoIndex EXCEPT !.kind = "torn"], [NoIndex EXCEPT !.kind = "no_config"]}
        BY <2>2 DEF LeftBehind
      <3>2. NoIndex \in Indexes /\ NoIndex.pages = <<>> /\ ~NoIndex.whole
        <4>1. <<>> \in Seq(SUBSET Entries)
          OBVIOUS
        <4>. QED
          BY <4>1 DEF NoIndex, Indexes
      <3>3. /\ index' \in Indexes /\ index'.kind \in {"torn", "no_config"}
            /\ index'.pages = <<>> /\ ~index'.whole
        BY <3>1, <3>2 DEF Indexes
      <3>. QED
        BY <3>3 DEF IndexTrue
    <2>. QED
      BY <1>1, <2>1, <2>2
  <1>3. HonestMetrics' /\ ExactMeansFullRecall'
    BY <1>1, MetricsKept, MetricsWritten
  <1>4. config' \in Configs /\ misused' \in BOOLEAN
    BY <1>1 DEF BenchmarkInv, Dispatched
  <1>. QED
    BY <1>1, <1>2, <1>3, <1>4, IdleInv DEF BenchmarkInv

LEMMA NextBenchmarkInv == BenchmarkInv /\ [BenchmarkNext]_runVars => BenchmarkInv'
  <1>. SUFFICES ASSUME BenchmarkInv, [BenchmarkNext]_runVars PROVE BenchmarkInv'
    OBVIOUS
  <1>1. ASSUME NEW c \in Configs, Start(c) PROVE BenchmarkInv'
    BY <1>1, StartInv
  <1>2. CASE ReadBase \/ RemoveIndex \/ CreateDatabase \/ PrefillPage \/ CloseBuilt
    BY <1>2, ReadBaseInv, RemoveIndexInv, CreateDatabaseInv, PrefillPageInv, CloseBuiltInv
  <1>3. CASE LoadDatabase \/ CheckMode \/ Search
    BY <1>3, LoadDatabaseInv, CheckModeInv, SearchInv
  <1>4. CASE FaissMode \/ FaissBuild \/ FaissSave \/ FaissLoad \/ FaissSearch
    BY <1>4, FaissModeInv, FaissBuildInv, FaissSaveInv, FaissLoadInv, FaissSearchInv
  <1>5. CASE Evaluate \/ WriteMetrics
    BY <1>5, EvaluateInv, WriteMetricsInv
  <1>6. CASE Kill
    BY <1>6, KillInv
  <1>7. CASE UNCHANGED runVars
    <2>1. UNCHANGED <<index, metrics, stage, config, outcome, visible, found, misused, premature>>
      BY <1>7 DEF runVars, searchVars
    <2>2. IndexTrue'
      BY <2>1, IndexKept
    <2>5. OwnBuild' /\ Dispatched'
      BY <2>1 DEF BenchmarkInv, OwnBuild, Stored, NumFiles, Dispatched
    <2>3. Searched'
      BY <2>1 DEF BenchmarkInv, Searched, Stored, InRange
    <2>4. HonestMetrics' /\ ExactMeansFullRecall'
      BY <2>1 DEF BenchmarkInv, HonestMetrics, ExactMeansFullRecall
    <2>. QED
      BY <2>2, <2>3, <2>4, <2>5 DEF BenchmarkInv
  <1>. QED
    BY <1>1, <1>2, <1>3, <1>4, <1>5, <1>6, <1>7 DEF BenchmarkNext, RunStep

\* What the index path, the loaded index, the search and the metrics say of each
\* other, in every state of any number of runs and kills.
THEOREM SpecBenchmarkInv == BenchmarkSpec => []BenchmarkInv
  BY InitBenchmarkInv, NextBenchmarkInv, PTL DEF BenchmarkSpec

\* A recall in the metrics was measured over the rows and by the index they name,
\* unless the run reused another one's index; and exit code 0 means it is this run's.
THEOREM SpecHonestMetrics == BenchmarkSpec => []HonestMetrics
  <1>1. BenchmarkInv => HonestMetrics
    BY DEF BenchmarkInv
  <1>. QED
    BY <1>1, SpecBenchmarkInv, PTL

\* A search the metrics describe as exact, in which no bound was published early, has a
\* hit for every neighbour among its rows, and has found them unless prefill stored copies.
THEOREM SpecExactMeansFullRecall == BenchmarkSpec => []ExactMeansFullRecall
  <1>1. BenchmarkInv => ExactMeansFullRecall
    BY DEF BenchmarkInv
  <1>. QED
    BY <1>1, SpecBenchmarkInv, PTL

\* A run that reuses the index leaves it as it is, however it ends: the steps that
\* write at the index path are those of a run that builds, and so are the places
\* where a kill leaves something unfinished.
THEOREM SpecReuseKeepsIndex == BenchmarkSpec => ReuseKeepsIndex
  <1>. DEFINE Keeps == stage # "idle" /\ config.reuse_index => index' = index
  <1>1. BenchmarkInv /\ [BenchmarkNext]_runVars => [Keeps]_runVars
    <2>. SUFFICES ASSUME BenchmarkInv, [BenchmarkNext]_runVars, stage # "idle",
                         config.reuse_index
                  PROVE  index' = index
      BY DEF runVars
    <2>1. stage \notin {"remove", "create", "prefill", "faiss_build", "faiss_save"}
      BY DEF BenchmarkInv, OwnBuild
    <2>2. ASSUME NEW c \in Configs, Start(c) PROVE index' = index
      BY <2>2 DEF Start
    <2>3. CASE ReadBase \/ RemoveIndex \/ CreateDatabase \/ PrefillPage \/ CloseBuilt
      BY <2>1, <2>3 DEF ReadBase, RemoveIndex, CreateDatabase, PrefillPage, CloseBuilt, Fail
    <2>4. CASE LoadDatabase \/ CheckMode \/ Search
      BY <2>4 DEF LoadDatabase, CheckMode, Search, SearchAs, Fail, Die
    <2>5. CASE FaissMode \/ FaissBuild \/ FaissSave \/ FaissLoad \/ FaissSearch
      BY <2>1, <2>5 DEF FaissMode, FaissBuild, FaissSave, FaissLoad, FaissSearch, Fail, Die
    <2>6. CASE Evaluate \/ WriteMetrics
      BY <2>6 DEF Evaluate, WriteMetrics, Fail
    <2>7. CASE Kill
      <3>1. LeftBehind = {}
        BY <2>1 DEF LeftBehind
      <3>. QED
        BY <2>7, <3>1 DEF Kill
    <2>8. CASE UNCHANGED runVars
      BY <2>8 DEF runVars
    <2>. QED
      BY <2>2, <2>3, <2>4, <2>5, <2>6, <2>7, <2>8 DEF BenchmarkNext, RunStep
  <1>2. BenchmarkSpec => [][Keeps]_runVars
    BY <1>1, SpecBenchmarkInv, PTL DEF BenchmarkSpec
  <1>. QED
    BY <1>2 DEF ReuseKeepsIndex
=============================================================================
