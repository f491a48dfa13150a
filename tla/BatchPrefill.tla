---------------------------- MODULE BatchPrefill ----------------------------
(***************************************************************************)
(* Filling an empty database: batch_prefill_parallel with its workers, and *)
(* batch_prefill_single_threaded.  Each round makes one page: the first    *)
(* remaining vector is the anchor, its nearest vectors go with it.  In the *)
(* parallel version the workers take morsels of the remaining vectors,     *)
(* keep the nearest in a heap each, and share the smallest heap top to     *)
(* skip vectors; main concatenates the heaps in internal_buffer, sorts and *)
(* stores the first MaxInPage.                                             *)
(*                                                                         *)
(* A vector is a position in Coordinates.  A round's job is submitted and  *)
(* awaited as ForkJoin says.  Entries of a heap are pairs <<distance,      *)
(* index into the remaining vectors>>, the code's index plus one.          *)
(***************************************************************************)
EXTENDS PageBound, FiniteSets, SequencesExt

CONSTANTS
  Calls,                \* the calls considered: input (new_vectors), and parallel for
                        \* batch_prefill_parallel or not for batch_prefill
  NumThreads,           \* n_threads
  MaxInPage,            \* max_num_vectors_in_page
  PagesPerFile,         \* file_size / page_size
  Infinity              \* above every distance

ASSUME BatchPrefillAssumption ==
  /\ NumThreads \in Nat \ {0} /\ MaxInPage \in Nat \ {0, 1}
  /\ PagesPerFile \in Nat \ {0} /\ Infinity \in Nat
  /\ \A c \in Calls : c.parallel \in BOOLEAN /\ c.input \in Seq(Int)
  /\ \A c \in Calls : \A i, j \in DOMAIN c.input : SquaredL2(c.input[i], c.input[j]) < Infinity

VARIABLES
  Coordinates, parallel, \* this call
  remaining,            \* new_vectors: input positions not yet stored
  pages,                \* the pages made so far: vectors (anchor first) and max_dist
  phase,                \* main: "round", "workers", "done"
  buffer_size,          \* internal_buffer.size()
  grown,                \* history: internal_buffer was enlarged over copied outputs
  next_morsel, shared_data,
  wpc, morsel, current_global_max, up_to_date_max,
  heap,                 \* worker -> its n_outputs entries, as a set
  slot0                 \* worker -> heap[0].first as the round found it

vars == <<Coordinates, parallel, remaining, pages, phase, buffer_size, grown, next_morsel, shared_data,
          wpc, morsel, current_global_max, up_to_date_max, heap, slot0>>
mainVars == <<Coordinates, parallel, remaining, pages, phase, buffer_size, grown>>

Threads == 0 .. NumThreads - 1
Input == DOMAIN Coordinates

\* The files made in advance, one more than the quotient.
NumFiles == 1 + Len(Coordinates) \div (MaxInPage * PagesPerFile)
NumPages == NumFiles * PagesPerFile

\* morsel_step: set once, from the size of the whole input.
Step == (Len(Coordinates) \div NumThreads) \div 2

Before(x, y) == x[1] < y[1] \/ (x[1] = y[1] /\ x[2] < y[2])
INSTANCE NearestHeap

Top(t) == HeapTop(heap[t], slot0[t])

\* The entry of the vector at an index of the remaining ones.
Entry(i) == <<SquaredL2(Coordinates[remaining[i]], Coordinates[remaining[1]]), i>>

\* The heap h after the n remaining vectors behind the first ones; those farther
\* than bound are skipped.
OfferRange(h, first, n, size, bound) ==
  LET after[i \in 0 .. n] ==
        IF i = 0 THEN h
        ELSE IF Entry(first + i)[1] > bound THEN after[i - 1]
        ELSE Offer(after[i - 1], Entry(first + i), size)
  IN after[n]

\* What the first m elements of the sorted entries may be.
FirstSorted(entries, m) ==
  {row \in [1 .. m -> entries] :
     \A i \in 1 .. m :
       /\ \A j \in 1 .. m : i < j => Before(row[i], row[j])
       /\ \A x \in entries : Before(row[i], x) \/ \E j \in 1 .. m : row[j] = x}

\* A sequence without the elements erased from it.
Without(s, erased) ==
  LET rest[i \in 0 .. Len(s)] ==
        IF i = 0 THEN <<>>
        ELSE IF s[i] \in erased THEN rest[i - 1]
        ELSE Append(rest[i - 1], s[i])
  IN rest[Len(s)]

Init ==
  /\ \E c \in Calls : Coordinates = c.input /\ parallel = c.parallel
  /\ remaining = [i \in Input |-> i]
  /\ pages = <<>>
  /\ phase = "round"
  /\ buffer_size = MaxInPage * NumThreads /\ grown = FALSE
  /\ next_morsel = 0 /\ shared_data = 0
  /\ wpc = [t \in Threads |-> "done"]
  /\ morsel = [t \in Threads |-> 0]
  /\ current_global_max = [t \in Threads |-> 0]
  /\ up_to_date_max = [t \in Threads |-> 0]
  /\ heap = [t \in Threads |-> {}]
  /\ slot0 = [t \in Threads |-> 0]

(***************************************************************************)
(* Main.                                                                   *)
(***************************************************************************)

\* Faulty: the anchor is erased but not appended.
StorePageSkipsAnchor(entries) ==
  /\ pages' = Append(pages, [vectors |-> [i \in DOMAIN Tail(entries) |-> remaining[entries[i + 1][2]]],
                             max_dist |-> entries[Len(entries)][1]])
  /\ remaining' = Without(remaining, {remaining[entries[i][2]] : i \in DOMAIN entries})

\* Faulty: records the smallest distance as the radius.
StorePageFrontRadius(entries) ==
  /\ pages' = Append(pages, [vectors |-> [i \in DOMAIN entries |-> remaining[entries[i][2]]],
                             max_dist |-> entries[1][1]])
  /\ remaining' = Without(remaining, {remaining[entries[i][2]] : i \in DOMAIN entries})

\* Faulty: the last vector of the page is not erased.
StorePageKeepsLast(entries) ==
  /\ pages' = Append(pages, [vectors |-> [i \in DOMAIN entries |-> remaining[entries[i][2]]],
                             max_dist |-> entries[Len(entries)][1]])
  /\ remaining' = Without(remaining, {remaining[entries[i][2]] : i \in 1 .. Len(entries) - 1})

\* Append the vectors of the entries to the next page, record the largest of
\* their distances, and erase them from the remaining vectors.
StorePage(entries) ==
  /\ pages' = Append(pages, [vectors |-> [i \in DOMAIN entries |-> remaining[entries[i][2]]],
                             max_dist |-> entries[Len(entries)][1]])
  /\ remaining' = Without(remaining, {remaining[entries[i][2]] : i \in DOMAIN entries})

StartRound ==
  /\ phase = "round" /\ remaining # <<>> /\ parallel
  /\ shared_data' = Infinity /\ next_morsel' = 0
  /\ phase' = "workers"
  /\ wpc' = [t \in Threads |-> "fetch"]
  /\ slot0' = [t \in Threads |-> Top(t)]
  /\ heap' = [t \in Threads |-> {}]
  /\ UNCHANGED <<Coordinates, parallel, remaining, pages, buffer_size, grown, morsel,
                 current_global_max, up_to_date_max>>

\* The heaps have no entry in common: no two morsels have a vector in common.
AllOutputs == UNION {heap[t] : t \in Threads}
TempOffset == Cardinality(AllOutputs)

\* What internal_buffer still has after the copies and resize(temp_offset).  If
\* that is larger than the size the last round left, the entries from the old
\* size on are lost.  Heaps are copied in worker order; which entries of a heap
\* come last is left open.
Kept ==
  LET before(t) == Cardinality(UNION {heap[u] : u \in 0 .. t - 1})
  IN {kept \in SUBSET AllOutputs :
        \A t \in Threads :
          Cardinality(kept \cap heap[t]) =
            Max({0, Min({Cardinality(heap[t]), buffer_size - before(t)})})}

\* In place of a lost entry is a zero: distance 0, index 0, which is the anchor.
EndRound ==
  /\ phase = "workers"
  /\ \A t \in Threads : wpc[t] = "done"
  /\ \E kept \in Kept :
       LET zeros == TempOffset - Cardinality(kept)
           size == Min({MaxInPage, TempOffset})
       IN \E row \in FirstSorted(kept, size - zeros) :
            StorePage([i \in 1 .. size |-> IF i <= zeros THEN <<0, 1>> ELSE row[i - zeros]])
  /\ grown' = (grown \/ TempOffset > buffer_size)
  /\ buffer_size' = TempOffset
  /\ phase' = "round"
  /\ UNCHANGED <<Coordinates, parallel, next_morsel, shared_data, wpc, morsel, current_global_max,
                 up_to_date_max, heap, slot0>>

\* Faulty: one vector less than the page takes.
SerialRoundSmall ==
  /\ phase = "round" /\ remaining # <<>> /\ ~parallel
  /\ LET page == {Entry(1)} \cup OfferRange({}, 1, Len(remaining) - 1, MaxInPage - 2, Infinity)
     IN \E row \in FirstSorted(page, Cardinality(page)) : StorePage(row)
  /\ UNCHANGED <<Coordinates, parallel, phase, buffer_size, grown, next_morsel, shared_data, wpc, morsel,
                 current_global_max, up_to_date_max, heap, slot0>>

\* One round of batch_prefill_single_threaded: MaxInPage - 1 nearest of the rest.
\* (It stores them in heap order; only the anchor's place matters.)
SerialRound ==
  /\ phase = "round" /\ remaining # <<>> /\ ~parallel
  /\ LET page == {Entry(1)} \cup OfferRange({}, 1, Len(remaining) - 1, MaxInPage - 1, Infinity)
     IN \E row \in FirstSorted(page, Cardinality(page)) : StorePage(row)
  /\ UNCHANGED <<Coordinates, parallel, phase, buffer_size, grown, next_morsel, shared_data, wpc, morsel,
                 current_global_max, up_to_date_max, heap, slot0>>

Finish ==               \* nothing remains: refresh the caches, return
  /\ phase = "round" /\ remaining = <<>>
  /\ phase' = "done"
  /\ UNCHANGED <<Coordinates, parallel, remaining, pages, buffer_size, grown, next_morsel, shared_data,
                 wpc, morsel, current_global_max, up_to_date_max, heap, slot0>>

MainStep == StartRound \/ EndRound \/ SerialRound \/ Finish

(***************************************************************************)
(* Workers: batch_prefill_worker.                                          *)
(***************************************************************************)

\* Faulty: next_morsel is read, not advanced.
FetchMorselStuck(t) ==
  /\ wpc[t] = "fetch"
  /\ morsel' = [morsel EXCEPT ![t] = next_morsel]
  /\ next_morsel' = next_morsel
  /\ wpc' = [wpc EXCEPT ![t] = IF next_morsel >= Len(remaining) THEN "done" ELSE "scan"]
  /\ UNCHANGED <<mainVars, shared_data, current_global_max, up_to_date_max, heap, slot0>>

FetchMorsel(t) ==
  /\ wpc[t] = "fetch"
  /\ morsel' = [morsel EXCEPT ![t] = next_morsel]
  /\ next_morsel' = next_morsel + Step
  /\ wpc' = [wpc EXCEPT ![t] = IF next_morsel >= Len(remaining) THEN "done" ELSE "scan"]
  /\ UNCHANGED <<mainVars, shared_data, current_global_max, up_to_date_max, heap, slot0>>

Scan(t) ==
  /\ wpc[t] = "scan"
  /\ current_global_max' = [current_global_max EXCEPT ![t] = shared_data]
  /\ heap' = [heap EXCEPT ![t] = OfferRange(@, morsel[t], Min({Len(remaining) - morsel[t], Step}),
                                            MaxInPage, shared_data)]
  /\ wpc' = [wpc EXCEPT ![t] = IF HeapTop(heap'[t], slot0[t]) < shared_data
                                  THEN "publish" ELSE "fetch"]
  /\ UNCHANGED <<mainVars, next_morsel, shared_data, morsel, up_to_date_max, slot0>>

Publish(t) ==
  /\ wpc[t] = "publish"
  /\ up_to_date_max' = [up_to_date_max EXCEPT ![t] = shared_data]
  /\ wpc' = [wpc EXCEPT ![t] = IF shared_data <= Top(t) THEN "fetch" ELSE "cas"]
  /\ UNCHANGED <<mainVars, next_morsel, shared_data, morsel, current_global_max, heap, slot0>>

CompareExchange(t) ==
  /\ wpc[t] = "cas"
  /\ \/ /\ shared_data = up_to_date_max[t]
        /\ shared_data' = Top(t)
        /\ wpc' = [wpc EXCEPT ![t] = "fetch"]
        /\ UNCHANGED up_to_date_max
     \/ /\ shared_data # up_to_date_max[t]
        /\ up_to_date_max' = [up_to_date_max EXCEPT ![t] = shared_data]
        /\ wpc' = [wpc EXCEPT ![t] = IF shared_data <= Top(t) THEN "fetch" ELSE "cas"]
        /\ UNCHANGED shared_data
  /\ UNCHANGED <<mainVars, next_morsel, morsel, current_global_max, heap, slot0>>

Worker(t) == FetchMorsel(t) \/ Scan(t) \/ Publish(t) \/ CompareExchange(t)

Next == MainStep \/ \E t \in Threads : Worker(t)

Spec == Init /\ [][Next]_vars
FairSpec == Spec /\ WF_vars(MainStep) /\ \A t \in Threads : WF_vars(Worker(t))

(***************************************************************************)
(* Properties.                                                             *)
(***************************************************************************)
Stored == UNION {ToSet(pages[p].vectors) : p \in DOMAIN pages}

\* No input vector falls between the rounds, whatever the workers' bounds
\* skipped and whatever the buffer lost: it is stored or still remaining.
NothingLost == Stored \cup ToSet(remaining) = Input /\ Stored \cap ToSet(remaining) = {}

\* Every page is the ball searches take it for: its max_dist covers all members.
RadiusCovers ==
  \A p \in DOMAIN pages : \A v \in ToSet(pages[p].vectors) :
    SquaredL2(Coordinates[v], Coordinates[pages[p].vectors[1]]) <= pages[p].max_dist

\* README: mode exact is exact over the base vectors, so the built index holds
\* each of them once; a vector stored twice takes two of a query's k places.
StoredOnce ==
  \A p, q \in DOMAIN pages :
    \A i \in DOMAIN pages[p].vectors, j \in DOMAIN pages[q].vectors :
      pages[p].vectors[i] = pages[q].vectors[j] => p = q /\ i = j

\* The one way to store a vector twice is a round whose workers together had more
\* outputs than those of the round before.
StoredOnceUnlessGrown == ~grown => StoredOnce

\* Comment in batch_prefill_single_threaded: the database files are prepared
\* before the rounds.  With one thread no page is left short, so that every
\* round finds its page in them.
PagesSuffice == ~parallel => Len(pages) <= NumPages

\* Every page takes a vector from those that remain, whatever the bounds skipped
\* and the buffer lost: the rounds of the outer loop come to an end.
EachPageTakes == [][pages' # pages => Len(remaining') < Len(remaining)]_vars

\* The four invariants made inductive.  A heap has true entries of vectors that no other
\* heap has and no other worker is at; the anchor is in a heap, or about to be,
\* as soon as a morsel is taken, and stays; who is done leaves no morsel; and
\* with one thread only the last page is left short.
TypeOK ==
  /\ \E c \in Calls : Coordinates = c.input /\ parallel = c.parallel
  /\ remaining \in Seq(Input)
  /\ pages \in Seq([vectors : Seq(Input), max_dist : Nat])
  /\ phase \in {"round", "workers", "done"}
  /\ buffer_size \in Nat /\ grown \in BOOLEAN /\ next_morsel \in Nat /\ shared_data \in Nat
  /\ wpc \in [Threads -> {"fetch", "scan", "publish", "cas", "done"}]
  /\ morsel \in [Threads -> Nat] /\ slot0 \in [Threads -> Nat]
  /\ heap \in [Threads -> SUBSET (Nat \X Nat)] /\ \A t \in Threads : IsFiniteSet(heap[t])
HeapsTrue == \A t \in Threads : \A e \in heap[t] : e[2] \in DOMAIN remaining /\ e = Entry(e[2])
Owned(t) ==
  {e[2] : e \in heap[t]}
  \cup (IF wpc[t] = "scan" THEN morsel[t] + 1 .. morsel[t] + Step ELSE {})
HeapsApart ==
  /\ \A t \in Threads : Owned(t) \subseteq 1 .. next_morsel
  /\ \A t, u \in Threads : t # u => Owned(t) \cap Owned(u) = {}
Scanning(t, first) == wpc[t] = "scan" /\ morsel[t] = first
AnchorStays ==
  /\ \A t \in Threads : Scanning(t, 0) => heap[t] = {}
  /\ next_morsel > 0 => \E t \in Threads : <<0, 1>> \in heap[t] \/ Scanning(t, 0)
  /\ next_morsel > 0 => Step > 0
MorselsTaken ==
  \A t \in Threads :
    /\ wpc[t] = "scan" => morsel[t] < Len(remaining)
    /\ wpc[t] = "done" => next_morsel >= Len(remaining)
RoundInStep ==
  IF phase = "workers" THEN parallel /\ remaining # <<>> /\ HeapsTrue /\ HeapsApart /\ AnchorStays /\ MorselsTaken
  ELSE \A t \in Threads : wpc[t] = "done"
RemainingOnce == \A i, j \in DOMAIN remaining : remaining[i] = remaining[j] => i = j
FullPages ==
  ~parallel =>
    \/ Len(remaining) + MaxInPage * Len(pages) = Len(Coordinates)
    \/ remaining = <<>> /\ MaxInPage * (Len(pages) - 1) < Len(Coordinates)
IInv ==
  /\ TypeOK /\ RoundInStep /\ RemainingOnce /\ FullPages
  /\ NothingLost /\ RadiusCovers /\ StoredOnceUnlessGrown

\* The prefill ends.
PrefillEnds == <>(phase = "done")
=============================================================================
