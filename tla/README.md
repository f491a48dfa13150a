# A TLA+ model of SpheresDB and its benchmark

This directory holds TLA+ modules that model the vector database SpheresDB and
the harness that benchmarks it, TLC configurations that check them on small
instances, and proofs for the TLA+ proof system. Paths below are relative to
the repository; `EX`, `IF` and `DB` stand for
`spheres_with_pruning_count_and_customized_main/modules/execution/execution.cppm`,
`.../interface/interface.cppm` and `.../database/database.cppm`.

Run `tlc -config X.cfg M.tla` for a run and `tlapm M.tla` for a proof module.
`PROJECT.json` lists the runs, and for every definition the lines it models.

## 1. Inventory

SpheresDB keeps vectors in pages. A page is a ball: its first vector is the
anchor, the largest distance of a member to the anchor is its radius
(`max_dist`). A search ranks the pages by the distance of their anchors to the
query and skips those whose ball cannot hold anything near enough.

| Component | State it keeps | Operations | What makes it correct |
|---|---|---|---|
| thread pool (EX 498-575, 812-870) | `global_task_id`, one `job_done` flag per worker, the shared context, each worker's `task_id` | `submit_and_block`, `spheres_worker`, constructor, destructor | no lost wakeup, no stale flag, no access after free, the context not rewritten under a worker, each task run once by each worker |
| page bound (DB 52-73, distance.cppm) | none | `squared_l2_distance`, `prune_check_func` | a skipped page holds no nearer vector; the square-root-free form decides `d - m > w` |
| single-query search (IF 170-219, EX 656-666, 737-808) | `dist_to_anchor_buffer`, `next_morsel`, `shared_data`, a heap per worker | fill, sort, `find_knn_worker`, merge | the answer is exact in mode exact; nothing twice; the shared bound is always reached and only falls; every query is answered |
| batch search (IF 148-168, EX 668-735) | result rows, `next_morsel`, a heap per worker | `find_knn_batch_worker` | each row answers its own query, is written once; the batch returns |
| batch prefill (IF 64-134, EX 436-492, 608-654) | remaining vectors, `internal_buffer`, the next page, heaps, shared bound | rounds of one page each | no vector lost, none stored twice, radii cover their pages, the files made in advance suffice, it ends |
| insertion and storage (EX 97-434, storage) | pages in mapped files, caches of anchors and radii, `dist_to_anchor_buffer` | `insert_a_vector` with eight cases, eviction by recursion | radius exact, no page overflows, no vector lost, caches fresh, evictions end |
| database life cycle (DB, memorymap) | the config file's `n_files` | create, load, close | what a close saves a load finds; what a crash costs is bounded |
| spheres and FAISS harness (main.cpp, include, spheres, faiss) | the index and the metrics at two paths, over several runs | parse, build or reuse, load, search, evaluate, write | metrics describe the index and the search they name; reuse leaves the index alone |
| example program (example/main.cpp) | the same two paths | the same outline over SpheresDB, without two of the checks; `recall_summarize` | as above; the percentiles are percentiles |
| hnswlib, DuckDB and pgvector harness | an index file; a database file and its log; a table on a server, which several runs may use at once | stream the base file in, index, check the plan, query, report | every row under its own number; a run measures its own rows by the method it names, whatever runs before or beside it left |
| brute-force baseline (baseline.cpp), measures (benchmark_config.h 236-296) | a queue of k, the result rows | scan, pop, compare with the ground truth | the k nearest in order; a recall below 1 only tells of ties |
| Qwen embedding and tokenizer | - | numeric inference | - |

Interactions: the interface functions fill the pool's context, call
`submit_and_block` and read the workers' outputs afterwards. The workers of one
task meet in the atomics of the context (`next_morsel`, `shared_data`). A search
leaves `dist_to_anchor_buffer` to the next insert. Caches follow pages, the
config file follows the number of files, but only when the database is closed.
The harness runs are separate processes that meet in the files, or, with
pgvector, in one table of a server while both are running.

What is hard here: the wait/notify protocol on plain atomics; a bound shared
between workers whose heaps fill at different speed, in memory that outlives
the task; a merge buffer that is resized after it was written; inserts that
recurse; page contents and radius written one after the other into shared
mappings; OpenMP threads that read a buffer the next batch overwrites; runs that
drop and fill the same table statement by statement; and the reuse of whatever
index lies at a path. `PROJECT.json`
lists each of these hazards at its line, with the properties that watch it, or
the reason why none does.

## 2. Modules

    ForkJoin            what the pool promises (abstract)
      ^ implemented by
    ThreadPool          the pool's atomics, one action per access     ThreadPoolProofs
    PageBound           distances, bound, slices of the fill
    NearestHeap         the bounded heap all searches use
      ^        ^
    PagedVectors        loaded pages, scan of a page, reference   PagedVectorsProofs (and PageBound's)
      ^        ^
    KnnSearch  BatchSearch     KnnSearchProofs  BatchSearchProofs
    BatchPrefill        rounds of one page each               BatchPrefillProofs
    VectorStore         inserts, caches, close, crash, load       VectorStoreProofs

    Ingest              what a streaming harness promises of ingestion (abstract)
      ^ implemented by
    StreamIngest        reader, batches, OpenMP threads               HarnessProofs
    EngineRuns          runs on hnswlib, DuckDB, pgvector             HarnessProofs
    BenchmarkRun        runs on SpheresDB and FAISS, both programs    BenchmarkProofs
    BaselineScan        brute force and the measures                  BenchmarkProofs

    MCKnnSearch, MCBatchSearch, MCBatchPrefill, MCBenchmarkRun, MCBaselineScan give small data

How they compose: `ThreadPool` is shown to implement `ForkJoin`, and the modules
above it use that promise: a job starts on all workers with one context, main
goes on when all are done. `KnnSearch` and `BatchSearch` extend `PagedVectors`,
which combines `PageBound` and `NearestHeap`; `BatchPrefill` instantiates
`NearestHeap` too. `BenchmarkRun` uses what prefill and search do as its steps: a
page made of the first remaining vector and any others, the first perhaps several times;
in mode exact the k nearest of the entries stored, or, if a bound was published early, any. `EngineRuns` uses ingestion as one step that
stores every row or fails, which `StreamIngest` is shown to implement; with DuckDB, as the rows in order, of which a kill
leaves the first ones. `BaselineScan` shows that the brute-force answer
the searches are measured by is the K nearest.

**ThreadPool.** `mpc` and `wpc` are where main and the workers are. A C++
`atomic::wait(old)` is the check (`Wake`, `AwaitFlag`) or falling asleep (`Sleep`,
`SleepMain`) in one step with the check, as the futex below it does; a sleeper
only moves after a notify (`NotifyAll`, `NotifyOne`) and then checks again. The store
of a flag and its notify are separate steps. `Submit` and `Destroy` set the context
and enter the same sequence of `ResetFlag`, `Publish`, `NotifyAll`, `AwaitFlag`.

**PageBound, NearestHeap, PagedVectors.** Pure operators. Vectors are integers (or
points of the plane), distances are squared L2, so nothing rounds. A heap is a
set of pairs `<<distance, id>>`: only its largest element has a fixed slot in the
code. `HeapTop(h, old)` keeps the fact that slot 0 of an empty heap holds what
the memory held before.

**KnnSearch.** `AskParallel` / `AskAlone` are the two ways to fill the buffer,
`FillSlice` a worker's slice, `StartSearch` the reset and submission, `Collect` the
merge. A worker's morsel is `FetchMorsel` (fetch_add), `Scan` (load the bound, scan,
decide whether there is news), `Publish` (reload), `CompareExchange`. `premature` is
a history variable: a bound was published from a heap with fewer than K entries.
`n_p` is a worker's own count of skipped pages and `n_pruned` the sum of those that have
left; `n_threads` and `probe` are chosen once per behaviour and per query. A failed
`compare_exchange_weak` reloads the bound and decides again whether to publish:
`CompareExchange` is the exchange that succeeds, `Publish` also what follows one that does not.

**BatchSearch.** A query is one step of its worker (`AnswerQuery`), since rows and
heaps are disjoint; entries carry the query they were computed for, so that
leftovers of a worker's earlier queries can be told apart.

**BatchPrefill.** `StartRound`, the workers' steps as in KnnSearch, `EndRound` with
the copy into `internal_buffer`, its `resize`, the sort and the page. When the
resize enlarges the buffer, the copies behind its old size are lost (`Kept` is what
is left of them) and `{0, 0}` is in their place, which sorts first; `grown` remembers
that. `SerialRound` is the single-threaded version;
`Calls` says which inputs each version is called with.

**VectorStore.** One action per case of `insert_a_vector`, two for those that write
the page first and its radius second, `Close`, `Crash`, `Load`. Each call comes with a density
and so with one of `MaxNumVectors`, which may be all of the page. When no member is at the radius,
`find_victim` points to the slot behind the last vector. A page that has such a slot
keeps its content in `next_slot`, which is evicted like a vector (`Ghost`, all zero, in a new file). A full page has none: the write
then goes over the anchor's coordinates and the header of the next page. That is `Overrun`, which ends the
behaviour in the state "overrun", as what the files hold from then on is not followed. `exposed`
collects what a crash may cost: the vectors of files the config does not name yet, the vector
in hand or not yet under its page's radius, and those later written behind a page's last.
The writes of one slot (id and vector, and with an append the count) are one step.

**BenchmarkRun.** The steps of `run` for spheres and FAISS, and of the example
program's `run`, from `Start` (main and the validation of the options) to
`WriteMetrics`, with `Kill` at any point and what a half-written index looks like
afterwards (`LeftBehind`). An option set says which program it is for. The example
aborts where the benchmark exits with 1 (`Fail`), takes any mode it does not know as
exact (`CheckMode`) and has the check of ids commented out (`InRange`). `misused` marks
runs that reuse an index built for another count or mode, or never finished; the
properties about recall exclude these, since the code cannot tell. An index holds entries, a vector's id and which
copy of it this is: a round of prefill whose buffer grows stores its anchor again (`PrefillPage`).
An exact search finds the k nearest entries (`Nearest`) unless a bound was published early
(`premature`); then it may find anything, also what the buffers held before. The hits are counted
as `recall` does, one for each entry found (`HitEntries`).

**Ingest, StreamIngest.** `ReadBatch` fills the reader's one buffer and deals the rows of
the batch to the threads in any way; a thread's `addPoint` is a call with a pointer and a
label (`CallAddPoint`) and the copying of the vector (`FinishAddPoint`); `EndBatch` is the
barrier. DuckDB's appender and pgvector's COPY are the same loop with one thread.

**EngineRuns.** One action per statement of `run` (pgvector), per operation on the file
and its log (DuckDB), per save and load (hnswlib). A row in the store is named by the
run that put it there. DuckDB's appender is `AppendRows`: the rows arrive in the log in any number of commits, and
at any of them, or afterwards, the log may be moved into the file (`AutoCheckpoint`). For PostgreSQL the model has the locks that a COPY, DROP TABLE and CREATE
INDEX take, the primary key, the errors for a table that exists or does not, and
that a COPY is undone when its client goes. `Abort` is any other exception or a kill.
`shared` remembers that another run was active meanwhile, `refused` that a run ended on
what others had done.

**BaselineScan.** One action per base vector and branch (`Push`, `Replace`, `Keep`), then
`EmitRow` pops the queue; `MeasureQuery` is one query of `avg_squared_l2_distance` and
`recall` against any ground truth that breaks ties its own way; `Summary` is what
`recall_summarize` reads off the sorted hits (`Sorted`, a rearrangement that does not fall).

Definitions whose comment starts with "Faulty" are variants of the definition
that follows them, each with one plausible mistake. They are used by nothing;
put in the place of the real definition they make a property fail, which shows
that the property can.

## 3. Runs

| Run | Instance | Shows |
|---|---|---|
| ThreadPool | 4 workers, 2 submissions, shutdown (34 286 states) | memory safety, no lost wakeup, the context left alone, refinement of ForkJoin, no deadlock; submissions and destructor return |
| KnnSearch | 5 pages of up to 2, K = 2; two queries by 2 workers with the parallel fill, or one by 3 with the serial one; all pages or the nearest 2 (64 241 states) | exact over the probed pages unless a bound is published early; the bound is reached, only falls; buffer fresh; nothing twice; skipped pages counted; queries answered |
| BatchSearch | 2 workers, K = 3, all of 4 pages or 2, two batches of 1 or 3 in morsels of 2 (161 840 states) | each row holds all that was found for its own query, is written once |
| VectorStore | 6 vectors, 2 pages a file of 3, filled up to 2 or 3, 3 files, one close, one crash (442 638 states) | radius, no loss, caches, evictions take the farthest vector and tighten their page; every exact search reaches every vector but those a crash exposed; no write past a page before a crash; termination |
| BatchPrefill | parallel: 6 vectors, 2 workers, 3 a page; serial: all inputs of up to 5 vectors over 4 coordinates (69 184 states) | nothing lost, radii cover, stored once unless `grown`, serial pages fit the files, ends |
| BenchmarkRun | 3 runs of either program with one of 25 option sets on the same paths, 2 kills, a disk that may fill, copies of vectors in the pages, bounds published early (3 150 116 states) | metrics are of the index, the search and the run they name; an exact search's hits, and neighbours; reuse keeps the index |
| StreamIngest | 7 rows in batches of 3, 2 threads, a read that may fail (378 states) | no row with another's vector; all rows or an exception; it ends |
| EngineRuns | 3 runs by 2 clients, 2 or 3 rows, modes flat, hnsw and an unknown one, for each engine; exception or kill at any step, rows of DuckDB committed one by one or together (126 948 states) | rows of one run only in a store, all of them or DuckDB's first; honest alone; leftovers harmless; every run ends |
| BaselineScan | 4 queries from a set of rows with ties, 4 vectors, K = 2, every ground truth (27 981 states) | the K nearest in order; a miss is a tie; percentiles |

Why these bounds are enough. Two submissions are needed for a stale flag or a
skipped task id, and four workers for several sleepers while main is at any flag.
Five pages exceed twice two workers, which selects the parallel fill, and leave
an odd remainder for the slices; two queries are needed for what the first one
leaves in buffer and heaps; three workers can hold three different expected
values in the compare-exchange loop. The pages are such that the difference bound
would skip one that is needed. In BatchSearch the pages near one query hold
fewer than K vectors, so that older entries stay in the heap's memory, and for the
other one the second page is skipped. Six vectors and three to a page give two
rounds of full pages and rounds with leftovers. Six inserts reach a full page, an
eviction whose victim goes to another page, an eviction from a page with two vectors at its radius (1 and 7 around 4), a third file, and, after a crash in
the middle of an eviction, an eviction from the page it left behind, which finds no victim: with two vectors
to a page it takes the slot behind the last, with three it writes past the page. Four rows, two to a page, leave
room for a page with two entries of one neighbour, and k = 2 for an answer that is both. Two runs on
the same paths are needed for reuse, three for reuse of what a killed run left
after another. Seven rows in batches of three end in a short batch and overwrite the
buffer twice. Two clients with three runs give a run that overlaps two others one after the
other, and a run alone after two that overlapped. Four queries are the fewest whose
first quartile exists.
Deadlock is checked where the system has a last state it may stay in (ThreadPool,
StreamIngest, EngineRuns, BaselineScan); the other systems stop when their bounds are
used up.

### Where the code and its documentation disagree

Each of these runs checks one property and TLC finds a counterexample.

| Run | Property | What happens |
|---|---|---|
| KnnSearch_stale_slot | ExactAnswer | a worker with an empty heap publishes what its slot 0 held before (EX 795-798) |
| VectorStore_no_query | Case1OnlyWhenEmpty | inserts without a search before them all go to page 0 |
| BatchPrefill_twice | StoredOnce | the merge buffer is enlarged after the copies; the anchor is stored again |

On the usual data (a million vectors, pages of thousands, k = 100) the first one
needs a page with fewer than k vectors or a worker whose first morsel is pruned
entirely; the positive runs show that these are the only ways: without an early
publication (`premature`) every answer is exact.

The models also show the following; a reader gets the counterexample by the change
of a configuration named here.

- With `Step = 0` (`--spheres_morsel 0` is accepted) `EveryQueryAnswered` fails in
  KnnSearch: no worker ever leaves its loop. The prefill has the same loop when
  the input has fewer vectors than twice the threads (IF 93): with a parallel call of
  three vectors in `Calls`, `PrefillEnds` fails in BatchPrefill.
- In the parallel prefill a bound published early leaves pages short, and the
  files made in advance may then not suffice: `PagesSuffice` fails without its
  restriction to the serial version.
- A crash between a vector and its page's radius hides that vector from exact searches after
  the restart: it is among the exposed ones of `SearchMissesOnlyExposed`. The next eviction
  from that page finds no member at the radius and takes the slot behind the last for its victim's (EX 386-391, 199-211),
  which on a full page is the anchor's coordinates and the next page's header (EX 97-103), although the comment on case 4
  (EX 347-348) says that it finds the farthest vector: with `Case4FindsItsVictim` among its properties the run
  VectorStore fails. The other properties hold until a call has written past a full page, and `InsertTerminates` fails
  without its exception for that.
- `recall` counts every id of an answer that is in the ground truth, also one it has counted (benchmark_config.h 287-291).
  If prefill has stored a neighbour twice, an exact search returns it twice, and a recall of 1 is reported though another
  neighbour is missing: with `FullRecallFindsAll` among its invariants the run BenchmarkRun fails.
- A DuckDB run killed in its append leaves some of its rows in the file or the log. That the next run removes both files
  first is why this harms nobody (`LeftoversHarmless`, whose faulty variant leaves the log).
- On a full disk a run exits 0 with a torn metrics file (`WriteMetrics`), so that
  `HonestMetrics` speaks of metrics that can be read.
- `main.cpp` dispatches spheres and FAISS only; the other engines the README names
  (README.md:83) and the FAISS mode lsh are refused (`Start`, `FaissMode`). The adapters of
  pgvector, DuckDB and hnswlib use options (`pg_host`, `duckdb_hnsw_m`, `hnswlib_m` and
  others) that `BenchmarkConfig` no longer has; they are modelled as written, with those
  options taken as given.
- Cases 7 and 8 of `insert_a_vector` come after a case that always returns, so that the density
  of a file is never tested (EX 410): a new file is made whenever every page has an anchor.
- spheres' mode `ann` without a page budget is an exact search (`ExactSearch`).
- `recall_summarize` reads before its vector for fewer than four queries
  (example/main.cpp:330, `OutOfRange`): without its condition `SummaryIsPercentile` fails.
- Two overlapping runs on pgvector may both exit 0 with metrics over each other's rows, or a
  run without its index: `AloneIsHonest` fails without its condition `~m.shared`.

## 4. Fairness

Liveness of the pool, of prefill and of evictions is checked under
weak fairness of main's steps and of each worker:
the operating system schedules every thread that can go on. A sleeping thread has no
enabled step, so fairness does not hide a lost wakeup. KnnSearch needs less, that some
thread goes on while one can. StreamIngest asks that main and each thread of the parallel
loop go on, EngineRuns that each client whose statement is not waiting for a
lock does: PostgreSQL answers a statement it can run. Nothing obliges a client
to submit, ask, insert, close or start a run, and nothing makes a crash, an exception or
a kill happen. The compare-exchange is weak in the code; a spurious failure repeats the
loop with the same values, which is a stuttering step, and fairness of the worker
says that it does not fail for ever.

## 5. Proofs

`ThreadPoolProofs` proves for every number of workers and submissions what the run
ThreadPool checks for four and two (liveness excepted). The invariants are not inductive by
themselves: that no worker can touch freed memory depends on the flags, these on
the task ids, these on where main is. `IInv` adds `Phases`: between submissions all
workers are parked with their flags up and the current task id; while the flags
are being lowered exactly those main has passed are down; during a submission each
worker is pending, running or delivered, in terms of its id, flag and position;
flags main has waited for stay up. Then:

- `InitIInv`, `NextIInv` (one step per action) give `Invariance`, `Spec => []IInv`;
- `MemorySafety`, `CompleteResults`, `NoWakeupLost` follow from it;
- `StableContext`, `JobsOnce` are action properties, from the invariant and a step;
- `InitSimulation`, `StepSimulation` give `Refinement`, `Spec => ImplementsForkJoin`:
  lowering flags, notifying and sleeping are invisible, raising a flag delivers a result.

The first part of `PagedVectorsProofs` is about PageBound, for all integers, without an assumption. `PruneSound`: let D, V
and c be the squared length of query-anchor, of member-anchor and their dot
product, with the Cauchy-Schwarz inequality c*c <= D*V as hypothesis; then a page
the exact test skips has no member as near as W. `PruneSoundInPlane` discharges
the hypothesis for the code's distance in two coordinates. `BoundExact` is the README's
claim that the test decides `d - m > w`; `DifferencePrunesMore` that the shortcut prunes
at least as much; `PruneMonotone` that a lower bound prunes at least as much, which
is why sharing a bound is sound; `SlicesCover` that the slices tile the pages for
all numbers of pages and threads.

The rest of `PagedVectorsProofs` is what the two proofs about searches share: sets, sequences and heaps for any
pages, K and query. The library's induction theorems cannot be used here, so an
induction over the pages of a list or the members of a page takes the least number the
claim fails for (`Least`) and shows that the one before it fails too; `RecursionExists` builds,
the same way, the function a recursive definition denotes. A sorted set is given by ranks (`SortedBy`: an
entry's place is the number of entries before it); `Rank` shows that each place is taken. The
chain from a page to an answer is:

- `MaxDistFacts`, `PrunedIsFarther` (from `PruneSound`'s argument, in one dimension),
  `RuledOutIsCovered`: a page the bound rules out has no vector nearer than W;
- `OfferKeeps`, `OffersKeep`, `ScanPageKeeps`: a heap `Covers` a vector if it holds it or has K
  entries no farther; what is covered stays covered, and a page scanned or ruled out is covered;
- `SameDistances`: if F, a part of C, covers all of C, then F and C, sorted, have the same
  distances in the first K places. Which of equally near vectors is found is left open,
  as it is in the code.

`KnnSearchProofs` proves all invariants of the run KnnSearch and `BoundOnlyFalls`, for any pages,
queries, K, budget of pages, thread counts and step (also step 0, with which a search never
ends). None of them is inductive. `IInv` says of a search under way:

- `PlacesTaken`: what workers have taken (`Pending`) is disjoint and below `next_morsel`, so that the places
  of the buffer are ahead of it, pending at one worker, or `Visited`;
- `HeapsApart`: a heap's entries are vectors of visited pages with their true distances, and two heaps
  share none (hence `NoVectorTwice`: the merge of the heaps has no entry twice);
- `VisitedCovered`: unless `premature`, each vector of a visited page is covered by some worker's
  heap; at the end all pages are visited, so that the union of the heaps covers all candidates
  and `SameDistances` gives `ExactUnlessPremature`;
- `BoundHeld`: unless `premature`, a bound other than infinity is no smaller than the largest of K
  entries of one heap. That is why a page pruned by the shared bound is covered, by a heap
  that may be another worker's, and stays so: heaps only come nearer. `BoundIsReached` follows;
- `PagesAccounted`: each visited page was scanned or is counted in `n_p` of a worker or in `n_pruned`;
- `SlicesFilled`: slices that are done hold this query's distances, whatever the buffer held before.

The steps with substance are `ScanIInv` (by `VisitPagesKeep`, induction over the morsel), `CompareExchangeIInv`
and `CollectIInv`. `SortedFreshBuffer` says that the sort of the filled buffer gives the list `SortedPages` the
reference answer is defined by.

`BatchSearchProofs`, for any pages, queries, K, workers and morsel size. `RowWrittenOnce`
is not inductive: `IInv` adds that two workers' morsels are disjoint and end behind `next_morsel`, and
that no answered query is ahead of `next_morsel` or left in a morsel. `RowsExact` needs `RInv`, which
adds that what lies in a heap's memory carries the tag of an earlier call or of an answered
query (`MemoryOlder`; else a leftover could pass for an answer), that a worker stops only when the queries are
taken, and that an answered query's entries are exactly `HeapFor`. `ScanPagesKeep` and `RowDistances` show
that this heap has the distances of the nearest candidates.

`VectorStoreProofs` proves the invariants of the run VectorStore and `EvictionTightens`, for any vectors, densities, page and
file sizes and bounds on files, closes and crashes. After a write past a full page, which ends a behaviour, they say nothing
of the files; that there is none before a crash is part of `EvictionTightens`, by `VictimExists`. They assume `QueryFirst`: a client searches for
the vector it is about to insert, whose distances `insert_a_vector` then reads. Nothing in the repository calls it
yet; without a search `RadiusExact` and `TypeOK` are false, since case 1 puts a vector on page 0 without
looking at its radius or its room (run VectorStore_no_query). `IInv` says what is true in the middle of an insert too:

- `CachesTrue`: the caches are what the pages hold at every step, since each case refreshes them before the next
  looks; `BufferTrue`: the sorted distances are those of the vector in hand, so that `Best`
  is its nearest anchor (`BestPage`);
- `RadiiExact`: each radius is the farthest member's distance, except for the page that awaits `SetMax`; hence
  before a crash there is a member at the radius for case 4 to evict (`VictimExists`), the farthest one;
- `InHand`, `Holds`, `AllStored`: a vector is on one page of the files kept, once, or is the victim or the
  argument in hand, and never both: `NoVectorLost` says no less of the state between two calls;
- `NoneMissed`: whatever crashes there were, as long as no call has written past its page, a vector stored and not exposed lies within its page's stored
  radius, is in hand, or is on the page awaiting `SetMax`. With `OwnBound` (the exact test does not skip a page
  under a vector its radius covers) this gives `SearchMissesOnlyExposed`.

Cases 1, 2, 3, 5 and 6 put the vector on a page and are done; `TakesPlaces`, `TakesStores`, `TakesExact` and
`TakesMissesNone` say once what this keeps. Case 4 has its own lemmas (`Case4Pages`, `Case4IInv`), as the page it leaves
is wrong until `SetMax`. `EvictionTightens` (by `Case4EvictsFarthest` and `Case4Tightens`) says what a chain of evictions comes
down to: each takes the farthest vector, leaves fewer vectors at the old radius of its page, none beyond, and the other pages alone. That no chain is endless
follows by a well-founded order on the pages' radii, which is not proved; `InsertTerminates` checks it.

`BatchPrefillProofs` proves the four invariants of the run BatchPrefill and `EachPageTakes`, for every input, both versions, any number of
threads, page and file size, whatever the order of the workers. `IInv` says of a round under way:

- `HeapsTrue`: an entry is a remaining vector with its distance to the anchor, so that the largest entry of a page
  is its radius (`RadiusCovers`);
- `HeapsApart`: the vectors in a worker's heap, and those of the morsel it is at, are no other worker's and below
  `next_morsel`. Hence the outputs are distinct, and a page has a vector twice only by a zero in place of a lost
  copy, which needs a buffer that grew (`StoredOnceUnlessGrown`, with `RemainingOnce`);
- `AnchorStays`: once a morsel is taken the anchor is in a heap, or in the morsel a worker with an empty heap is at. As the
  nearest of all and the first of ties it is never replaced (`OfferRangeFacts`), and no shared bound skips
  distance 0. So a round that ends has an output, a page starts with its anchor, and at least one vector leaves `remaining` (`EachPageTakes`);
- `MorselsTaken`: who is done leaves none. `FullPages`, for one thread: every page but the last is full, from which
  `PagesSuffice` follows by `FactorBelow`.

`NothingLost` follows from `StoreFacts`: what is appended to the page is exactly what `Without` erases. The folds the
model is made of (`OfferRange`, `Without`) are recursive functions, whose values are rebuilt from `RecursionExists` and
`Induction`, as the induction theorems of the library cannot be used.

The first part of `HarnessProofs` is about StreamIngest, for any number of rows, batch size and threads. `IngestInv` adds to `OwnVector`
that the reader has taken exactly `added + rows` rows, the buffer holds them in order while
a batch is being added, every call that is open has the label of its place, and
each row of the batch is stored, called or to do (`NoRowForgotten`). `SpecOwnVector` and
`SpecImplementsIngest` follow; the abstract `Succeed` is the last `EndBatch`.

The second part is about EngineRuns, for any clients, engines, counts and queries. `IInv` says for each step of a
run nobody overlapped what the store must hold there (`Expects`; during DuckDB's append, that file and log together
hold its first rows, wherever a checkpoint has put them), that an open COPY has the table
to itself (`OpenCopyIsAlone`), that two active runs know of each other (`AloneOrShared`),
and is proved action by action; the three invariants of the run are parts of it. `StoreHoldsOneRun` says of DuckDB that
the rows in the file, and those a replay of the log would add, are the first ones of one run without a gap (`IsBeginning`),
of the others that they are all or none.

The first part of `BenchmarkProofs`: all invariants of the run BaselineScan, for any file, queries and K >= 1. For `RowIsNearest`
the invariant is that the
queue holds the nearest of the vectors offered so far, K of them or all (`HeapIsNearest`). For `MissIsATie` it adds that
each truth measured is K nearest and that the two sums have been equal so far (`Measures`): what only the row has is as far as
what only the truth has (`RowAndTruth`), which matches the two sets one to one, and matched sets have equal sums
(`SumsMatch`, with `SumFacts`: a sum does not depend on the order MapThenSumSet takes its members in). `SummaryIsPercentile`
follows since the hits can be sorted (`SortedFacts`) and the m-th of them has fewer than m below it (`OrderStatistic`).

The second part: `HonestMetrics`, `ExactMeansFullRecall` and `ReuseKeepsIndex` of the run BenchmarkRun, for all option
sets, any truth, k, page and file size and any number of runs and kills. `BenchmarkInv` follows an index from the run that
built it to the metrics of one that uses it:

- `IndexTrue`: an index whose build was completed (`whole`) holds the first `count` rows, and its pages are within the
  `n_files` its config file names, so that a load reads all of them (`WholeIsRead`);
- `OwnBuild`: a run that is between removing the index and loading it builds its own, on an empty path. That the steps
  which write at the index path belong to such runs is `ReuseKeepsIndex`, kills in the middle of a write included;
- `Dispatched`: each step belongs to the engine of the options, and its options were accepted;
- `Searched`: unless `misused`, what a search sees are the rows of its options, and, with FAISS, through an index of the
  mode they name; an exact search in which no bound was published early (`premature`) has found k entries
  none of the others is nearer than (`Nearest`).

That such entries are what KnnSearch finds is `SpecExact` above: the two modules meet in this step.
`NearestInTruth` then says that the answer has at least as many hits as there are neighbours it can see, and, if the index
has no copies, that it has found these neighbours; `TruthAtKSize` (the truth lists
each row once, `TruthOnce`) that the hits are all k where the ids were checked. With copies the second half is
false (`FullRecallFindsAll`, section 3), and with a bound published early both may be.

Constants are assumed to be what the modules' named assumptions say and nothing else.

TLC has checked `IInv` of KnnSearch, BatchPrefill and VectorStore, `RInv` of BatchSearch, `MInv` of BaselineScan and
`BenchmarkInv` of BenchmarkRun as invariants of the instances of their runs, that of VectorStore also with two crashes.

Every invariant and every action property of a run that passes is stated by a theorem. Only model-checked are the
liveness properties (`SubmissionReturns`, `ShutdownCompletes`, `EveryQueryAnswered`, `InsertTerminates`, `PrefillEnds`,
`IngestEnds`, `EveryRunEnds`), as the prover does not treat ENABLED and fairness; of `PrefillEnds` and `InsertTerminates` the proofs give what
decreases (`EachPageTakes`, which TLC has checked too, though it is not among the run's properties, and
`EvictionTightens`). The properties of the three runs that expect a violation are false.

## 6. Abstractions and what is not modelled

- Vectors are integers, a page number and a place are the id. Rounding, NaN and
  the normalised distances are left out, so exactness is that of the algorithm, not of
  its floating-point arithmetic.
- Heaps have no addresses: a k larger than a worker's buffer, and reads past the
  merged outputs (`Unspecified`), are not followed further.
- System calls whose results are not checked (posix_fallocate, mmap) succeed.
- `BenchmarkRun` does not follow how a bound comes to be published early, or the merge buffer to grow: a search may be `premature`
  at any time, and a round may store copies whenever more vectors remain than the last page took. It may thus do
  either where the code, with the data at hand, would not. When that happens is the business of KnnSearch and BatchPrefill.
- What a write past a full page leaves in the files (`Overrun`) is bytes of one field read as another; the behaviour ends there.
- The engines themselves (FAISS, hnswlib, DuckDB, PostgreSQL) are external: an exact index
  finds the nearest, an approximate one anything, perhaps too few. DuckDB may commit and
  checkpoint at any time during the append. The transport of a COPY is left out: its
  rows arrive together or not at all.
- How a row is sent to DuckDB or pgvector (array literals, the bytes of a binary COPY) and the
  parsing of options and files are conversions without control.
- The parallel victim search (EX 579-606) has no caller. Qwen inference and the
  tokenizer are numeric and textual data without control to check.
- That a batch returns is not checked: its workers' loop ends like that of the single-query
  search. That a run of the spheres or FAISS harness ends follows from the others, since its
  steps form no cycle.
- `load_database` assigns the context's spans a second time while workers may read them
  (DB 85); the values are those already there, so no model would tell the difference.
- The README's scripts directory is not part of the repository.

## 7. Plan

Done, in the order of their importance: the pool with its abstract promise and
proofs; the bound with its proofs; single-query search; prefill; insertion with
crashes; batch search; the harness of both programs; ingestion with its
abstract promise and proofs; runs on external engines with proofs; the baseline with proofs; the answers
of both searches with proofs; insertion with proofs; prefill and the harness of both programs with proofs. `VectorStoreProofs` and
`BatchPrefillProofs` repeat a few general lemmas (`Least`, squares) of `PagedVectorsProofs`, since they do not share the
constants of PagedVectors.

Next:

1. A module of the local buffers as one array with slices, for sizes at their limit
   (k, page capacity, buffer size, page budget).
2. Inserts interleaved with searches through one client, so that
   VectorStore's `Query` becomes KnnSearch's answer over its pages.
