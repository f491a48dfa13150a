---------------------------- MODULE BatchSearch ----------------------------
(***************************************************************************)
(* find_k_nearest_batch: many queries, each answered by one worker alone.  *)
(* The workers take morsels of queries; a worker ranks all pages for its   *)
(* query, scans them under the bound of its own heap only, and copies K    *)
(* slots of the heap to the query's row of the result.  Rows are disjoint, *)
(* so a query is one step.  Submitting and waiting is ForkJoin.            *)
(*                                                                         *)
(* A row is the set of its K entries, which the code leaves in heap order. *)
(* An entry carries the query (batch, place) it was computed for, since    *)
(* the heap's memory outlives the query.                                   *)
(***************************************************************************)
EXTENDS PagedVectors

CONSTANTS
  NumThreads,           \* n_threads
  Step,                 \* morsel_step: queries a worker takes at once
  BatchSizes,           \* n_queries of a call
  MaxBatches            \* bound: calls in one behaviour

ASSUME BatchSearchAssumption ==
  NumThreads \in Nat \ {0} /\ Step \in Nat \ {0} /\ BatchSizes \subseteq Nat \ {0}

VARIABLES
  phase,                \* main: "idle" or "search"
  asked,                \* calls so far
  queries, probe,       \* the call's arguments: vector_input2, n_pages_to_probe
  result,               \* vector_output_buffer4: query index -> row
  next_morsel,
  wpc,                  \* "done", "fetch" or "scan"
  current, limit,       \* the worker's next query and the end of its morsel
  memory                \* the K slots of its heap, as the last query left them

callVars == <<phase, asked, queries, probe>>
vars == <<callVars, result, next_morsel, wpc, current, limit, memory>>

Threads == 0 .. NumThreads - 1
MaxMorsel == Len(queries)

Tagged(entry, i) == [entry |-> entry, query |-> <<asked, i>>]
Zero(i) == [entry |-> <<0, <<0, i>>>>, query |-> <<0, 0>>]
Zeros == {Zero(i) : i \in 1 .. K}           \* value-initialised slots

Init ==
  /\ phase = "idle" /\ asked = 0
  /\ queries = <<>> /\ result = <<>> /\ probe \in Probes
  /\ next_morsel = 0
  /\ wpc = [t \in Threads |-> "done"]
  /\ current = [t \in Threads |-> 0] /\ limit = [t \in Threads |-> 0]
  /\ memory = [t \in Threads |-> Zeros]

Ask ==
  /\ phase = "idle" /\ asked < MaxBatches
  /\ \E n \in BatchSizes : queries' \in [1 .. n -> Queries]
  /\ probe' \in Probes
  /\ phase' = "search" /\ asked' = asked + 1
  /\ result' = [i \in DOMAIN queries' |-> Zeros]
  /\ next_morsel' = 0
  /\ wpc' = [t \in Threads |-> "fetch"]
  /\ UNCHANGED <<current, limit, memory>>

Return ==
  /\ phase = "search"
  /\ \A t \in Threads : wpc[t] = "done"
  /\ phase' = "idle"
  /\ UNCHANGED <<asked, queries, probe, result, next_morsel, wpc, current, limit, memory>>

\* Faulty: next_morsel is read, not advanced.
FetchMorselStuck(t) ==
  /\ wpc[t] = "fetch"
  /\ next_morsel' = next_morsel
  /\ current' = [current EXCEPT ![t] = next_morsel]
  /\ limit' = [limit EXCEPT ![t] = Min({MaxMorsel, next_morsel + Step})]
  /\ wpc' = [wpc EXCEPT ![t] = IF next_morsel >= MaxMorsel THEN "done" ELSE "scan"]
  /\ UNCHANGED <<callVars, result, memory>>

FetchMorsel(t) ==
  /\ wpc[t] = "fetch"
  /\ next_morsel' = next_morsel + Step
  /\ current' = [current EXCEPT ![t] = next_morsel]
  /\ limit' = [limit EXCEPT ![t] = Min({MaxMorsel, next_morsel + Step})]
  /\ wpc' = [wpc EXCEPT ![t] = IF next_morsel >= MaxMorsel THEN "done" ELSE "scan"]
  /\ UNCHANGED <<callVars, result, memory>>

\* The heap after the nearest pages, by their number, nearest anchor first.
ScanPages(q) ==
  LET after[i \in 0 .. NumPages] ==
        IF i = 0 THEN {} ELSE ScanPage(after[i - 1], q, SortedPages[q][i])
  IN after

\* Faulty: one page less than the budget.
HeapForShort == [q \in Queries |-> [n \in Probes |-> ScanPages(q)[NumProbed(n) - 1]]]

\* The heap after the probed pages.
HeapFor == [q \in Queries |-> [n \in Probes |-> ScanPages(q)[NumProbed(n)]]]

\* The heap overwrites the first slots; those behind it keep older entries,
\* which ones depends on the order of the old heap.
AnswerQuery(t) ==
  /\ wpc[t] = "scan"
  /\ LET i == current[t] + 1
         found == {Tagged(e, i) : e \in HeapFor[queries[i]][probe]}
     IN \E tail \in kSubset(K - Cardinality(found), memory[t]) :
          /\ memory' = [memory EXCEPT ![t] = found \cup tail]
          /\ result' = [result EXCEPT ![i] = found \cup tail]
  /\ current' = [current EXCEPT ![t] = @ + 1]
  /\ wpc' = [wpc EXCEPT ![t] = IF current[t] + 1 < limit[t] THEN "scan" ELSE "fetch"]
  /\ UNCHANGED <<callVars, next_morsel, limit>>

Worker(t) == FetchMorsel(t) \/ AnswerQuery(t)

Next == Ask \/ Return \/ \E t \in Threads : Worker(t)

Spec == Init /\ [][Next]_vars

(***************************************************************************)
(* Properties.                                                             *)
(***************************************************************************)
Own(i) == {x \in result[i] : x.query = <<asked, i>>}
Distances(S) == [d \in {x[1] : x \in S} |-> Cardinality({x \in S : x[1] = d})]

\* Every row answers its own query: the K nearest of the probed pages, with
\* nothing left over from the worker's earlier queries, whichever worker took
\* it and in which order; when the probed pages hold fewer than K vectors, all
\* of these are in the row.
RowsExact ==
  phase = "idle" =>
    \A i \in DOMAIN queries :
      LET nearest == Nearest[queries[i]][probe]
          found == {x.entry : x \in Own(i)}
      IN /\ found \subseteq Candidates[queries[i]][probe]
         /\ Distances(found) = Distances(ToSet(SubSeq(nearest, 1, Min({K, Len(nearest)}))))

\* A row that has its answer is not touched again while the batch runs: no two
\* workers take the same query.
RowWrittenOnce ==
  [][phase = "search" =>
       \A i \in DOMAIN queries : Own(i) # {} => result'[i] = result[i]]_vars

\* That holds because the morsels of two workers are disjoint, and what is still
\* to be answered is either ahead of next_morsel or in one worker's morsel.
ToDo(t) == IF wpc[t] = "scan" THEN current[t] .. limit[t] - 1 ELSE {}
TypeOK ==
  /\ phase \in {"idle", "search"} /\ asked \in Nat /\ next_morsel \in Nat
  /\ queries \in Seq(Queries)
  /\ result = [i \in DOMAIN queries |-> result[i]]
  /\ wpc \in [Threads -> {"done", "fetch", "scan"}]
  /\ current \in [Threads -> Nat] /\ limit \in [Threads -> Nat]
MorselsDisjoint == \A t, u \in Threads : t # u => ToDo(t) \cap ToDo(u) = {}
AheadUntaken ==
  \A t \in Threads : wpc[t] = "scan" =>
    current[t] < limit[t] /\ limit[t] <= next_morsel /\ limit[t] <= MaxMorsel
Answered(i) == i - 1 < next_morsel /\ \A t \in Threads : i - 1 \notin ToDo(t)
AnsweredOnce == \A i \in DOMAIN queries : Own(i) # {} => Answered(i)
IInv ==
  /\ TypeOK
  /\ phase = "idle" => \A t \in Threads : wpc[t] = "done"
  /\ phase = "search" => asked > 0 /\ MorselsDisjoint /\ AheadUntaken /\ AnsweredOnce

\* And the answers are right, because what a worker's heap still holds of other
\* queries carries other tags: of earlier calls, or of answered queries.
MemoryOlder ==
  \A t \in Threads : \A x \in memory[t] :
    x.query[1] < asked \/ (x.query[1] = asked /\ (asked = 0 \/ Answered(x.query[2])))
DoneWhenTaken == \A t \in Threads : wpc[t] = "done" => next_morsel >= MaxMorsel
AnswersRight ==
  \A i \in DOMAIN queries :
    Answered(i) => {x.entry : x \in Own(i)} = HeapFor[queries[i]][probe]
RInv ==
  /\ IInv /\ probe \in Probes
  /\ memory \in [Threads -> SUBSET [entry : Entries, query : Nat \X Nat]]
  /\ MemoryOlder /\ DoneWhenTaken /\ AnswersRight
=============================================================================
