---------------------------- MODULE BaselineScan ----------------------------
(***************************************************************************)
(* The brute-force baseline and the measures all harnesses share.  For     *)
(* each query baseline::run offers every base vector, in the order of the  *)
(* file, to a priority queue of k pairs <<distance, index>>, and pops the  *)
(* queue into the row of results.  avg_squared_l2_distance and recall then *)
(* compare the rows with the ground truth, one query after the other;      *)
(* recall_summarize (the example program's) also keeps a hit count per     *)
(* query and reads percentiles off the sorted counts.                      *)
(*                                                                         *)
(* Distances are inputs: a query is the function from base vectors to its  *)
(* distance to them.  The ground truth may list any k nearest when several *)
(* vectors are at the same distance.  Averages are kept as sums.           *)
(***************************************************************************)
EXTENDS Integers, SequencesExt

CONSTANTS
  NBase, NQuery, K,     \* n_base_vectors, n_query_vectors, k
  DistanceRows          \* the queries looked at

Ids == 0 .. NBase - 1
Queries == 0 .. NQuery - 1

ASSUME BaselineScanAssumption ==
  /\ NBase \in Nat /\ NQuery \in Nat \ {0} /\ K \in 1 .. NBase
  /\ DistanceRows \subseteq [Ids -> Nat]

VARIABLES
  distance,             \* squared_l2 of each query and base vector
  pc,                   \* "scan", "measure" or "done"
  query_index, vector_index,
  heap,                 \* the priority queue: a set of pairs <<distance, index>>
  results,              \* per query its row: rank -> index
  truths,               \* history: the k ids of each query's ground-truth row
  sums,                 \* the two sums of distances: of the results, of the truth
  hits                  \* recall_vec: hits of each query measured so far

vars == <<distance, pc, query_index, vector_index, heap, results, truths, sums, hits>>

\* std::pair's order, of the pairs of one query
Before(x, y) == x[1] < y[1] \/ (x[1] = y[1] /\ x[2] < y[2])

Ranks == 0 .. K - 1
NoRow == [rank \in Ranks |-> 0]
Entry(q, id) == <<distance[q][id], id>>
Current == Entry(query_index, vector_index)

\* Faulty: std::greater, the queue's top is its nearest.
IsTopNearest(top) == \A x \in heap : x = top \/ Before(top, x)

IsTop(top) == \A x \in heap : x = top \/ Before(x, top)

Init ==
  /\ distance \in [Queries -> DistanceRows]
  /\ pc = "scan" /\ query_index = 0 /\ vector_index = 0
  /\ heap = {}
  /\ results = [q \in Queries |-> NoRow]
  /\ truths = [q \in Queries |-> {}]
  /\ sums = [results |-> 0, truth |-> 0]
  /\ hits = <<>>

(***************************************************************************)
(* The scan of one query.                                                  *)
(***************************************************************************)
Scanning == pc = "scan" /\ vector_index < NBase
NextVector ==
  /\ vector_index' = vector_index + 1
  /\ UNCHANGED <<distance, pc, query_index, results, truths, sums, hits>>

Push ==
  /\ Scanning /\ Cardinality(heap) < K
  /\ heap' = heap \cup {Current}
  /\ NextVector

\* Faulty: a later vector replaces an earlier one as far away.
ReplaceEqual ==
  /\ Scanning /\ ~(Cardinality(heap) < K)
  /\ \E top \in heap :
       /\ IsTop(top) /\ Current[1] <= top[1]
       /\ heap' = (heap \ {top}) \cup {Current}
  /\ NextVector

Replace ==
  /\ Scanning /\ ~(Cardinality(heap) < K)
  /\ \E top \in heap :
       /\ IsTop(top) /\ Current[1] < top[1]
       /\ heap' = (heap \ {top}) \cup {Current}
  /\ NextVector

Keep ==
  /\ Scanning /\ ~(Cardinality(heap) < K)
  /\ \E top \in heap : IsTop(top) /\ ~(Current[1] < top[1])
  /\ UNCHANGED heap
  /\ NextVector

\* The queue popped into the row, from its back to its front.
Popped ==
  {row \in [Ranks -> heap] : \A r, s \in Ranks : r < s => Before(row[r], row[s])}

EmitRow ==
  /\ pc = "scan" /\ vector_index = NBase
  /\ \E row \in Popped :
       results' = [results EXCEPT ![query_index] = [rank \in Ranks |-> row[rank][2]]]
  /\ heap' = {} /\ vector_index' = 0
  /\ query_index' = (query_index + 1) % NQuery
  /\ pc' = IF query_index + 1 < NQuery THEN "scan" ELSE "measure"
  /\ UNCHANGED <<distance, truths, sums, hits>>

(***************************************************************************)
(* The measures, in one pass.                                              *)
(***************************************************************************)
RowIds(q) == {results[q][rank] : rank \in Ranks}

\* What a ground-truth row may list: K vectors none of which is further than
\* any other vector.
NearestSets(q) ==
  {S \in SUBSET Ids : /\ Cardinality(S) = K
                      /\ \A a \in S, b \in Ids \ S : distance[q][a] <= distance[q][b]}

Hits(q, truth) == Cardinality({rank \in Ranks : results[q][rank] \in truth})

RowTotal(q) == MapThenSumSet(LAMBDA rank : distance[q][results[q][rank]], Ranks)
TruthTotal(q, truth) == MapThenSumSet(LAMBDA id : distance[q][id], truth)

MeasureQuery ==
  /\ pc = "measure"
  /\ \E truth \in NearestSets(query_index) :
       /\ truths' = [truths EXCEPT ![query_index] = truth]
       /\ hits' = Append(hits, Hits(query_index, truth))
       /\ sums' =
            [results |-> sums.results + RowTotal(query_index),
             truth |-> sums.truth + TruthTotal(query_index, truth)]
  /\ query_index' = (query_index + 1) % NQuery
  /\ pc' = IF query_index + 1 < NQuery THEN "measure" ELSE "done"
  /\ UNCHANGED <<distance, vector_index, heap, results>>

\* Before the first element of recall_vec, with fewer than four queries.
OutOfRange == 0 - 1

\* Faulty: the counts are not sorted.
SummaryUnsorted ==
  LET at(i) == IF i = 0 THEN OutOfRange ELSE hits[i]
  IN [min |-> at(1), p25 |-> at(NQuery \div 4), p50 |-> at(NQuery \div 2)]

\* std::ranges::sort(recall_vec)
Arrangements ==
  {[i \in DOMAIN hits |-> hits[order[i]]] : order \in Bijection(DOMAIN hits, DOMAIN hits)}
Sorted == CHOOSE s \in Arrangements : \A i, j \in DOMAIN hits : i < j => s[i] <= s[j]

\* return_result[3], [1], [2]
Summary ==
  LET at(i) == IF i = 0 THEN OutOfRange ELSE Sorted[i]
  IN [min |-> at(1), p25 |-> at(NQuery \div 4), p50 |-> at(NQuery \div 2)]

Finished == pc = "done" /\ UNCHANGED vars

Next == Push \/ Replace \/ Keep \/ EmitRow \/ MeasureQuery \/ Finished

Spec == Init /\ [][Next]_vars

(***************************************************************************)
(* Properties.                                                             *)
(***************************************************************************)
\* baseline.cpp:49-77: a row holds, nearest first, the K nearest vectors of the
\* whole file; of several at the same distance the earlier ones.
Answered(q) == pc # "scan" \/ q < query_index
RowIsNearest ==
  \A q \in Queries : Answered(q) =>
    /\ \A r, s \in Ranks : r < s => Before(Entry(q, results[q][r]), Entry(q, results[q][s]))
    /\ \A a \in RowIds(q), b \in Ids \ RowIds(q) : Before(Entry(q, a), Entry(q, b))

\* It holds because the queue has, of the vectors offered so far, the nearest K.
Offered == {Entry(query_index, id) : id \in 0 .. vector_index - 1}
HeapIsNearest ==
  /\ heap \subseteq Offered /\ IsFiniteSet(heap) /\ Cardinality(heap) <= K
  /\ Cardinality(heap) < K => heap = Offered /\ Cardinality(heap) = vector_index
  /\ \A x \in heap, y \in Offered \ heap : Before(x, y)
TypeOK ==
  /\ distance \in [Queries -> DistanceRows]
  /\ pc \in {"scan", "measure", "done"}
  /\ query_index \in Queries /\ vector_index \in 0 .. NBase
  /\ results \in [Queries -> [Ranks -> Ids]]
IInv == TypeOK /\ (pc = "scan" => HeapIsNearest) /\ RowIsNearest

\* benchmark_config.h:236-296: a recall of the baseline below 1 only tells of
\* ties: a missed vector is as far as one the row has in its place, and the
\* average distance is the ground truth's, whichever of several equally near
\* vectors that lists.
MissIsATie ==
  /\ \A i \in DOMAIN hits :
       hits[i] < K =>
         \A missed \in truths[i - 1] \ RowIds(i - 1) : \E id \in RowIds(i - 1) \ truths[i - 1] :
           distance[i - 1][missed] = distance[i - 1][id]
  /\ pc = "done" => sums.results = sums.truth

\* It holds because each ground-truth row measured so far, and the answered row beside
\* it, are K nearest.
Measured == IF pc = "scan" THEN 0 ELSE IF pc = "measure" THEN query_index ELSE NQuery
Measures ==
  /\ hits \in Seq(Nat) /\ Len(hits) = Measured
  /\ truths \in [Queries -> SUBSET Ids]
  /\ \A q \in Queries : q < Measured => truths[q] \in NearestSets(q)
  /\ sums \in [results : Int, truth : Int] /\ sums.results = sums.truth
MInv == IInv /\ Measures

\* example/main.cpp:327-332: with four queries or more a quarter of them have at
\* most the recall P25, half of them at most P50, and fewer have less.
Below(h) == Cardinality({i \in DOMAIN hits : hits[i] < h})
Upto(h) == Cardinality({i \in DOMAIN hits : hits[i] <= h})
SummaryIsPercentile ==
  pc = "done" /\ NQuery >= 4 =>
    /\ Below(Summary.p25) < NQuery \div 4 /\ NQuery \div 4 <= Upto(Summary.p25)
    /\ Below(Summary.p50) < NQuery \div 2 /\ NQuery \div 2 <= Upto(Summary.p50)
    /\ Below(Summary.min) = 0
=============================================================================
