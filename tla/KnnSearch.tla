----------------------------- MODULE KnnSearch -----------------------------
(***************************************************************************)
(* find_k_nearest: one query answered by all workers of the pool.  Main    *)
(* fills dist_to_anchor_buffer with the distance of the query to every     *)
(* page's anchor (in slices on the workers, or alone when there are few    *)
(* pages), sorts it, and lets the workers take morsels of pages from it.   *)
(* Each worker keeps a heap of its K nearest vectors; shared_data is the   *)
(* smallest heap top published so far and lets all workers skip pages.     *)
(*                                                                         *)
(* Submitting a job and waiting for it is ForkJoin (see ThreadPool.tla):   *)
(* here every worker starts when main starts the job and main goes on when *)
(* all are done.  A worker's step is one access of an atomic of the        *)
(* context plus the local work up to the next.                             *)
(***************************************************************************)
EXTENDS PagedVectors

CONSTANTS
  ThreadCounts,         \* values of n_threads
  Step,                 \* morsel_step of the search
  MaxTasks,             \* bound: tasks find_k_nearest gives to workers in one behaviour
  Infinity              \* above every sum of two distances

ASSUME KnnSearchAssumption ==
  /\ ThreadCounts \subseteq Nat \ {0} /\ Step \in Nat /\ Infinity \in Nat
  /\ \A q \in Queries, p \in DOMAIN Pages :
       SquaredL2(q, Pages[p][1]) + MaxDist(p) < Infinity

VARIABLES
  n_threads,            \* of the thread pool of the loaded database
  phase,                \* main: "idle", "fill" or "search"
  query, probe,         \* the call's arguments: vector_input2, n_pages_to_probe
  asked,                \* calls so far
  dist_to_anchor_buffer,\* pairs <<distance, page>>
  next_morsel,
  shared_data,
  wpc,                  \* where each worker is
  morsel,               \* its current morsel; 0 while it has none
  up_to_date_max,       \* what its compare-exchange expects; 0 outside the loop
  heap,                 \* its n_outputs nearest: set of <<distance, id>>
  n_p,                  \* pages it skipped in this search
  n_pruned,             \* pages skipped in all searches, of which the example
                        \* program reports the pruning rate
  slot0,                \* heap[0].first as the job found it, read while the heap is empty
  answer,               \* what the last call returned
  premature,            \* history: a heap with fewer than K entries was published
  scanned,              \* history: pages scanned in this search
  n_unscanned           \* history: pages the searches so far were to visit and did not

mainVars == <<n_threads, phase, query, probe, asked, dist_to_anchor_buffer, answer>>
workVars == <<morsel, up_to_date_max>>
vars == <<mainVars, workVars, next_morsel, shared_data, wpc, heap, n_p, n_pruned, slot0,
          premature, scanned, n_unscanned>>

Threads == 0 .. n_threads - 1

Top(t) == HeapTop(heap[t], slot0[t])

MaxMorsel == IF probe = 0 THEN Len(dist_to_anchor_buffer) ELSE probe

\* Faulty: a morsel begins with the last page of the one before.
MorselOverlaps(first) ==
  SubSeq(dist_to_anchor_buffer, Max({1, first}), Min({MaxMorsel, first + Step}))

\* The entries of the buffer the worker has taken.
Morsel(first) == SubSeq(dist_to_anchor_buffer, first + 1, Min({MaxMorsel, first + Step}))

\* The shared bound, as loaded before the morsel, skips pages even while the heap
\* is not full.
VisitPage(s, entry, bound) ==
  IF PruneExact(entry[1], MaxDist(entry[2]), bound) \/ RuledOut(s.heap, entry)
  THEN [s EXCEPT !.n_p = @ + 1]
  ELSE [s EXCEPT !.heap = ScanPage(@, query, entry), !.scanned = @ \cup {entry[2]}]

\* The heap after each page of a morsel, taken in buffer order, and the pages
\* skipped so far.
VisitPages(h, pages, bound) ==
  LET after[i \in 0 .. Len(pages)] ==
        IF i = 0 THEN [heap |-> h, n_p |-> 0, scanned |-> {}]
        ELSE VisitPage(after[i - 1], pages[i], bound)
  IN after

ScanMorsel(h, first, bound) == VisitPages(h, Morsel(first), bound)[Len(Morsel(first))]

\* A database that has just been loaded: its buffers are value-initialised.
Init ==
  /\ n_threads \in ThreadCounts
  /\ phase = "idle" /\ query \in Queries /\ probe \in Probes /\ asked = 0
  /\ dist_to_anchor_buffer = <<>>
  /\ next_morsel = 0 /\ shared_data = 0
  /\ wpc = [t \in Threads |-> "done"]
  /\ morsel = [t \in Threads |-> 0]
  /\ up_to_date_max = [t \in Threads |-> 0]
  /\ heap = [t \in Threads |-> {}]
  /\ slot0 = [t \in Threads |-> 0]
  /\ n_p = [t \in Threads |-> 0] /\ n_pruned = 0
  /\ answer = <<>> /\ premature = FALSE /\ scanned = {} /\ n_unscanned = 0

(***************************************************************************)
(* Main.                                                                   *)
(***************************************************************************)

\* std::ranges::sort of the buffer, in which slots may be equal.
SortedBuffer(buffer) ==
  LET SlotBefore(i, j) ==
        PageBefore(buffer[i], buffer[j]) \/ (buffer[i] = buffer[j] /\ i < j)
      slots == SortedBy(DOMAIN buffer, SlotBefore)
  IN [i \in DOMAIN buffer |-> buffer[slots[i]]]

\* Faulty: n_outputs is not reset.
StartSearchKeepsHeaps(buffer) ==
  /\ phase' = "search"
  /\ dist_to_anchor_buffer' = SortedBuffer(buffer)
  /\ next_morsel' = 0
  /\ shared_data' = Infinity
  /\ wpc' = [t \in Threads |-> "fetch"]
  /\ slot0' = [t \in Threads |-> Top(t)]
  /\ heap' = heap
  /\ n_p' = [t \in Threads |-> 0]
  /\ premature' = FALSE /\ scanned' = {}

\* Reset the shared state and submit FindKnn over the sorted buffer.  A worker
\* starts with n_outputs = 0 but with the old contents of its heap's memory.
StartSearch(buffer) ==
  /\ phase' = "search"
  /\ dist_to_anchor_buffer' = SortedBuffer(buffer)
  /\ next_morsel' = 0
  /\ shared_data' = Infinity
  /\ wpc' = [t \in Threads |-> "fetch"]
  /\ slot0' = [t \in Threads |-> Top(t)]
  /\ heap' = [t \in Threads |-> {}]
  /\ n_p' = [t \in Threads |-> 0]
  /\ premature' = FALSE /\ scanned' = {}

Ask(q, n) ==
  /\ phase = "idle" /\ (asked + 1) * n_threads <= MaxTasks
  /\ query' = q /\ probe' = n
  /\ asked' = asked + 1
  /\ UNCHANGED <<n_threads, workVars, n_pruned, n_unscanned, answer>>

\* Many pages: resize the buffer, keeping what it held, and fill it in slices.
AskParallel(q, n) ==
  /\ Ask(q, n)
  /\ NumPages > 2 * n_threads
  /\ phase' = "fill"
  /\ dist_to_anchor_buffer' =
       [i \in 1 .. NumPages |-> IF i <= Len(dist_to_anchor_buffer)
                                THEN dist_to_anchor_buffer[i] ELSE <<0, 0>>]
  /\ wpc' = [t \in Threads |-> "fill"]
  /\ UNCHANGED <<next_morsel, shared_data, heap, n_p, slot0, premature, scanned>>

\* Few pages: main fills the buffer itself.
AskAlone(q, n) ==
  /\ Ask(q, n)
  /\ NumPages <= 2 * n_threads
  /\ StartSearch([p \in 1 .. NumPages |-> AnchorDistance(q, p)])

EndFill ==
  /\ phase = "fill"
  /\ \A t \in Threads : wpc[t] = "done"
  /\ StartSearch(dist_to_anchor_buffer)
  /\ UNCHANGED <<n_threads, query, probe, asked, workVars, n_pruned, n_unscanned, answer>>

\* The workers' outputs copied into one buffer; an entry two workers hold is in
\* it twice.
Outputs == UNION {heap[t] \X {t} : t \in Threads}
OutputBefore(x, y) == Before(x[1], y[1]) \/ (x[1] = y[1] /\ x[2] < y[2])

\* Concatenate the workers' outputs, sort, return the first K.  Past the end of
\* the outputs the code reads what the memory happens to hold: Unspecified.
Unspecified == <<0 - 1, <<0, 0>>>>
Collect ==
  /\ phase = "search"
  /\ \A t \in Threads : wpc[t] = "done"
  /\ LET found == SortedBy(Outputs, OutputBefore)
     IN answer' = [i \in 1 .. K |-> IF i <= Len(found) THEN found[i][1] ELSE Unspecified]
  /\ phase' = "idle"
  /\ n_unscanned' = n_unscanned + MaxMorsel - Cardinality(scanned)
  /\ UNCHANGED <<n_threads, query, probe, asked, dist_to_anchor_buffer, workVars, next_morsel,
                 shared_data, wpc, heap, n_p, n_pruned, slot0, premature, scanned>>

MainStep == EndFill \/ Collect

(***************************************************************************)
(* Workers.                                                                *)
(***************************************************************************)
\* fill_dist_to_anchor_buffer_worker on the worker's slice
FillSlice(t) ==
  /\ wpc[t] = "fill"
  /\ dist_to_anchor_buffer' =
       [i \in DOMAIN dist_to_anchor_buffer |->
          IF i \in SliceStart(NumPages, n_threads, t) + 1 .. SliceEnd(NumPages, n_threads, t)
          THEN AnchorDistance(query, i) ELSE dist_to_anchor_buffer[i]]
  /\ wpc' = [wpc EXCEPT ![t] = "done"]
  /\ UNCHANGED <<n_threads, phase, query, probe, asked, answer, workVars, next_morsel, shared_data,
                 heap, n_p, n_pruned, slot0, premature, scanned, n_unscanned>>

\* Take the next morsel; when there is none, add up the skipped pages and leave.
Fetch(t, next, total) ==
  /\ wpc[t] = "fetch"
  /\ next_morsel' = next
  /\ \/ /\ next_morsel < MaxMorsel
        /\ morsel' = [morsel EXCEPT ![t] = next_morsel]
        /\ wpc' = [wpc EXCEPT ![t] = "scan"]
        /\ UNCHANGED <<n_p, n_pruned>>
     \/ /\ next_morsel >= MaxMorsel
        /\ n_pruned' = total /\ n_p' = [n_p EXCEPT ![t] = 0]
        /\ wpc' = [wpc EXCEPT ![t] = "done"]
        /\ UNCHANGED morsel
  /\ UNCHANGED <<mainVars, shared_data, up_to_date_max, heap, slot0, premature, scanned, n_unscanned>>

\* Faulty: a page is skipped between two morsels.
FetchMorselSkips(t) == Fetch(t, next_morsel + Step + 1, n_pruned + n_p[t])

\* Faulty: next_morsel is read, not advanced.
FetchMorselStuck(t) == Fetch(t, next_morsel, n_pruned + n_p[t])

\* Faulty: the count is stored, not added.
FetchMorselStores(t) == Fetch(t, next_morsel + Step, n_p[t])

FetchMorsel(t) == Fetch(t, next_morsel + Step, n_pruned + n_p[t])

\* Load the shared bound, scan the morsel, decide whether there is news.
Scan(t) ==
  /\ wpc[t] = "scan"
  /\ LET after == ScanMorsel(heap[t], morsel[t], shared_data)
     IN /\ heap' = [heap EXCEPT ![t] = after.heap]
        /\ n_p' = [n_p EXCEPT ![t] = @ + after.n_p]
        /\ scanned' = scanned \cup after.scanned
  /\ wpc' = [wpc EXCEPT ![t] = IF HeapTop(heap'[t], slot0[t]) < shared_data
                                  THEN "publish" ELSE "fetch"]
  /\ morsel' = [morsel EXCEPT ![t] = 0]
  /\ UNCHANGED <<mainVars, next_morsel, shared_data, up_to_date_max, n_pruned, slot0,
                 premature, n_unscanned>>

\* Reload the bound, also after a failed exchange; somebody else's may be as good
\* by now.
Publish(t) ==
  /\ wpc[t] = "publish" \/ (wpc[t] = "cas" /\ shared_data # up_to_date_max[t])
  /\ \/ /\ shared_data > Top(t)
        /\ up_to_date_max' = [up_to_date_max EXCEPT ![t] = shared_data]
        /\ wpc' = [wpc EXCEPT ![t] = "cas"]
     \/ /\ shared_data <= Top(t)
        /\ up_to_date_max' = [up_to_date_max EXCEPT ![t] = 0]
        /\ wpc' = [wpc EXCEPT ![t] = "fetch"]
  /\ UNCHANGED <<mainVars, next_morsel, shared_data, morsel, heap, n_p, n_pruned, slot0,
                 premature, scanned, n_unscanned>>

\* Faulty: stores the bound without comparing.
CompareExchangeBlind(t) ==
  /\ wpc[t] = "cas"
  /\ shared_data' = Top(t)
  /\ premature' = (premature \/ Cardinality(heap[t]) < K)
  /\ up_to_date_max' = [up_to_date_max EXCEPT ![t] = 0]
  /\ wpc' = [wpc EXCEPT ![t] = "fetch"]
  /\ UNCHANGED <<mainVars, next_morsel, morsel, heap, n_p, n_pruned, slot0, scanned, n_unscanned>>

\* compare_exchange_weak succeeds; when it fails the expected value is reloaded.
CompareExchange(t) ==
  /\ wpc[t] = "cas" /\ shared_data = up_to_date_max[t]
  /\ shared_data' = Top(t)
  /\ premature' = (premature \/ Cardinality(heap[t]) < K)
  /\ up_to_date_max' = [up_to_date_max EXCEPT ![t] = 0]
  /\ wpc' = [wpc EXCEPT ![t] = "fetch"]
  /\ UNCHANGED <<mainVars, next_morsel, morsel, heap, n_p, n_pruned, slot0, scanned, n_unscanned>>

Worker(t) == FillSlice(t) \/ FetchMorsel(t) \/ Scan(t) \/ Publish(t) \/ CompareExchange(t)

Next ==
  \/ \E q \in Queries, n \in Probes : AskParallel(q, n) \/ AskAlone(q, n)
  \/ MainStep
  \/ \E t \in Threads : Worker(t)

Spec == Init /\ [][Next]_vars

\* Some thread that can go on is scheduled, whichever; nobody has to ask.
FairSpec == Spec /\ WF_vars(MainStep \/ \E t \in Threads : Worker(t))

(***************************************************************************)
(* Properties.                                                             *)
(***************************************************************************)
Answered == phase = "idle" /\ asked > 0

\* README: mode exact uses an exact page bound, so the answer has the distances
\* of the K nearest vectors (of the probed pages, when there is a budget).
ExactAnswer ==
  Answered => LET nearest == Nearest[query][probe]
              IN \A i \in 1 .. Min({K, Len(nearest)}) : answer[i][1] = nearest[i][1]

\* Without the two ways a worker publishes a bound it has no K vectors for, the
\* answer is exact whatever the interleaving of the workers.
ExactUnlessPremature == ~premature => ExactAnswer

\* The published bound never undercuts the K-th nearest distance.
BoundIsReached ==
  phase = "search" /\ ~premature /\ shared_data # Infinity =>
    LET nearest == Nearest[query][probe]
    IN Len(nearest) >= K /\ shared_data >= nearest[K][1]

\* The answer's entries are candidates with their true distance, none returned
\* twice, even though workers race for morsels.
NoVectorTwice ==
  Answered =>
    LET found == {i \in 1 .. K : answer[i] # Unspecified}
    IN /\ \A i \in found : answer[i] \in Candidates[query][probe]
       /\ \A i, j \in found : answer[i] = answer[j] => i = j

\* Workers search on distances of this query only: after the fill, no slot
\* holds the distance of an earlier query and no page is missing.
BufferIsFresh ==
  phase = "search" => dist_to_anchor_buffer = SortedPages[query]

\* The pruning rate the example program reports counts every page no worker
\* scanned, and no other, once, although each worker counts for itself and adds
\* its count only when it leaves.
PruningIsCounted == phase = "idle" => n_pruned = n_unscanned

\* During a search the shared bound only falls: a late compare-exchange never
\* puts back an older, larger bound.
BoundOnlyFalls ==
  [][phase = "search" /\ phase' = "search" => shared_data' <= shared_data]_vars

\* Every query is answered: the workers run out of morsels and the
\* compare-exchange loop ends.
EveryQueryAnswered == (phase # "idle") ~> (phase = "idle")

(***************************************************************************)
(* Why they hold: the inductive invariant of KnnSearchProofs.              *)
(***************************************************************************)
\* Places of the buffer: a worker's morsel before it is scanned, those no worker
\* has taken yet, and those dealt with.
ToDo(t) == IF wpc[t] = "scan" THEN morsel[t] + 1 .. Min({MaxMorsel, morsel[t] + Step}) ELSE {}
Ahead == next_morsel + 1 .. MaxMorsel
Pending == Ahead \cup UNION {ToDo(t) : t \in Threads}
Visited == (1 .. MaxMorsel) \ Pending
PageAt(j) == dist_to_anchor_buffer[j][2]

TypeOK ==
  /\ n_threads \in Nat \ {0}
  /\ phase \in {"idle", "fill", "search"}
  /\ query \in Queries /\ probe \in Probes /\ asked \in Nat
  /\ dist_to_anchor_buffer \in Seq(Nat \X Nat)
  /\ next_morsel \in Nat /\ shared_data \in Nat
  /\ wpc \in [Threads -> {"done", "fill", "fetch", "scan", "publish", "cas"}]
  /\ morsel \in [Threads -> Nat] /\ up_to_date_max \in [Threads -> Nat]
  /\ heap \in [Threads -> SUBSET Entries] /\ \A t \in Threads : IsHeap(heap[t])
  /\ n_p \in [Threads -> Nat] /\ slot0 \in [Threads -> Nat]
  /\ n_pruned \in Nat /\ n_unscanned \in Nat
  /\ premature \in BOOLEAN

\* A slice that has been filled holds the distances of this query.
SlicesFilled ==
  /\ Len(dist_to_anchor_buffer) = NumPages
  /\ \A t \in Threads :
       /\ wpc[t] \in {"fill", "done"}
       /\ wpc[t] = "done" =>
            \A i \in SliceStart(NumPages, n_threads, t) + 1 .. SliceEnd(NumPages, n_threads, t) :
              i \in DOMAIN dist_to_anchor_buffer => dist_to_anchor_buffer[i] = AnchorDistance(query, i)

\* No two workers hold the same place; who leaves found no place untaken.
PlacesTaken ==
  \A t \in Threads :
    /\ wpc[t] # "fill"
    /\ wpc[t] = "done" => next_morsel >= MaxMorsel /\ n_p[t] = 0
    /\ wpc[t] = "scan" => morsel[t] < MaxMorsel
    /\ wpc[t] = "cas" => up_to_date_max[t] > Top(t)
    /\ \A j \in ToDo(t) : j <= next_morsel /\ \A u \in Threads \ {t} : j \notin ToDo(u)

\* Heaps hold vectors of visited pages, no vector is in two of them.
HeapsApart ==
  \A t \in Threads : \A x \in heap[t] :
    /\ \E j \in Visited : \E i \in DOMAIN Pages[PageAt(j)] : x = Member(query, PageAt(j), i)
    /\ \A u \in Threads \ {t} : x \notin heap[u]

\* A vector of a visited page is in a heap or no nearer than a full heap's K.
VisitedCovered ==
  \A j \in Visited : \A i \in DOMAIN Pages[PageAt(j)] :
    \E t \in Threads : Covers(heap[t], Member(query, PageAt(j), i))

\* The published bound is one some full heap has reached.
BoundHeld == shared_data # Infinity => \E t \in Threads : Dominated(heap[t], shared_data)

\* Every place is to be visited, or was and its page was scanned or counted.
Skips == UNION {{t} \X (1 .. n_p[t]) : t \in Threads}
PagesAccounted ==
  /\ scanned \subseteq {PageAt(j) : j \in Visited}
  /\ n_pruned + Cardinality(Skips) + Cardinality(scanned) + Cardinality(Pending)
       = n_unscanned + MaxMorsel

IInv ==
  /\ TypeOK
  /\ phase = "idle" => \A t \in Threads : wpc[t] = "done"
  /\ phase = "fill" => SlicesFilled
  /\ phase = "search" =>
       /\ BufferIsFresh /\ PlacesTaken /\ HeapsApart /\ PagesAccounted
       /\ ~premature => VisitedCovered /\ BoundHeld
  /\ phase # "search" => n_pruned = n_unscanned
  /\ NoVectorTwice /\ ExactUnlessPremature
=============================================================================
