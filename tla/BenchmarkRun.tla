---------------------------- MODULE BenchmarkRun ----------------------------
(***************************************************************************)
(* Runs of the two benchmark programs, one after the other, on one index   *)
(* path and one metrics path: parse the options, build or reuse the index, *)
(* load it, search, compare with the ground truth, write the metrics.      *)
(* Program "benchmark" is src/main.cpp, which dispatches to the engines    *)
(* spheres and faiss; program "example" is the library's example/main.cpp, *)
(* which always runs spheres, lets any mode pass, does not check the range *)
(* of the ids, and catches nothing.  A run exits 0 ("ok"), catches an      *)
(* exception and exits 1 ("failed"), or is "killed".                       *)
(*                                                                         *)
(* A base vector is its row number, which is also its id.  There is one    *)
(* query; Truth ranks all rows of the base file by distance to it.  A page *)
(* that prefill makes takes the first remaining vector, any others, and    *)
(* sometimes the first one again (see BatchPrefill.tla).  An exact search  *)
(* returns k nearest entries of the index unless a bound was published too *)
(* early (see KnnSearch.tla), any other search any k of them.  With a      *)
(* single query the percentiles of the example say nothing; they are in    *)
(* BaselineScan.tla.                                                       *)
(***************************************************************************)
EXTENDS FiniteSets, FiniteSetsExt, SequencesExt

CONSTANTS
  Configs,              \* the option sets a user may choose
  Truth,                \* rows of the base file, nearest to the query first
  GtWidth,              \* columns of the ground-truth file
  NumNeighbours,        \* k
  PageSize,             \* vectors a page takes
  PagesPerFile,         \* file_size / page_size
  MaxRuns, MaxKills     \* bounds: runs, and runs killed, in one behaviour

Rows == ToSet(Truth)
FirstRows(n) == 0 .. n - 1

ASSUME BenchmarkRunAssumption ==
  /\ Truth \in Seq(Nat) /\ Rows = FirstRows(Len(Truth))
  /\ GtWidth \in 1 .. Len(Truth) /\ NumNeighbours \in 1 .. GtWidth
  /\ PageSize \in Nat \ {0} /\ PagesPerFile \in Nat \ {0}
  /\ MaxRuns \in Nat /\ MaxKills \in Nat
  /\ \A c \in Configs : c.reuse_index \in BOOLEAN /\ c.n_base \in Nat /\ c.k_in_gt \in Nat
  /\ \A c \in Configs : c.program \in {"benchmark", "example"} /\ c.n_pages_to_probe \in Nat

VARIABLES
  index,                \* what is at the index path; count, mode, whole say who built it
  metrics,              \* what is at the metrics path
  run, kills,           \* runs started, runs killed
  stage, config,        \* the current run
  visible,              \* entries in the loaded index
  found,                \* entries the search returned
  outcome,              \* how the last run ended: "none", "ok", "failed", "killed"
  misused,              \* history: this run reuses an index that is not its own
  premature             \* history: its search may have pruned too much, or had no k vectors

searchVars == <<visible, found, misused, premature>>
runVars == <<index, metrics, run, kills, stage, config, outcome, searchVars>>

\* An entry of an index is the id of a vector and which copy of it this is.
Entries == Nat \X (0 .. PageSize - 1)
Once(ids) == ids \X {0}
IdsOf(entries) == {entry[1] : entry \in entries}
HasCopies(entries) == \E d, e \in entries : d[1] = e[1] /\ d # e

NoIndex == [kind |-> "none", n_files |-> 0, pages |-> <<>>, count |-> 0, mode |-> "", whole |-> FALSE]
NoMetrics == [recall |-> FALSE, hits |-> 0, found |-> {}, over |-> {}, copies |-> FALSE,
              config |-> CHOOSE c \in Configs : TRUE, searched_mode |-> "",
              misused |-> FALSE, premature |-> FALSE]

Stored == UNION ToSet(index.pages)
Remaining == FirstRows(config.n_base) \ IdsOf(Stored)
NumFiles == 1 + config.n_base \div (PageSize * PagesPerFile)

BenchmarkInit ==
  /\ index = NoIndex /\ metrics = NoMetrics
  /\ run = 0 /\ kills = 0 /\ stage = "idle" /\ config \in Configs
  /\ visible = {} /\ found = {} /\ outcome = "none" /\ misused = FALSE /\ premature = FALSE

(***************************************************************************)
(* How a step ends.                                                        *)
(***************************************************************************)
Goto(label) == stage' = label /\ UNCHANGED <<run, kills, config, outcome>>
Ends(how) ==
  /\ stage' = "idle" /\ outcome' = how
  /\ visible' = {} /\ found' = {} /\ misused' = FALSE /\ premature' = FALSE
  /\ UNCHANGED <<run, config>>

\* An exception: main catches it, the example program is aborted.
Fail ==
  /\ Ends(IF config.program = "benchmark" THEN "failed" ELSE "killed")
  /\ UNCHANGED <<index, metrics, kills>>
Die == Ends("killed") /\ UNCHANGED <<index, metrics, kills>>

(***************************************************************************)
(* main and parse_argv.                                                    *)
(***************************************************************************)
ValidConfig(c) == c.n_base # 0 /\ NumNeighbours <= c.k_in_gt /\ NumNeighbours <= c.n_base

UsesFaiss(c) == c.program = "benchmark" /\ c.engine = "faiss"

Start(c) ==
  /\ stage = "idle" /\ run < MaxRuns
  /\ run' = run + 1 /\ config' = c
  /\ \/ /\ ValidConfig(c) /\ (c.program = "example" \/ c.engine = "spheres")
        /\ stage' = "read" /\ UNCHANGED outcome
     \/ /\ ValidConfig(c) /\ UsesFaiss(c)
        /\ stage' = "faiss_mode" /\ UNCHANGED outcome
     \/ /\ ~ValidConfig(c) \/ (c.program = "benchmark" /\ c.engine \notin {"spheres", "faiss"})
        /\ outcome' = (IF c.program = "benchmark" THEN "failed" ELSE "killed")
        /\ UNCHANGED stage
  /\ UNCHANGED <<index, metrics, kills, searchVars>>

(***************************************************************************)
(* spheres_benchmark::run                                                  *)
(***************************************************************************)

\* Faulty: removes the index it should reuse.
ReadBaseRebuilds ==
  /\ stage = "read"
  /\ \/ config.n_base > Len(Truth) /\ Fail     \* truncated file
     \/ /\ config.n_base <= Len(Truth)
        /\ Goto("remove")
        /\ UNCHANGED <<index, metrics, searchVars>>

ReadBase ==
  /\ stage = "read"
  /\ \/ config.n_base > Len(Truth) /\ Fail     \* truncated file
     \/ /\ config.n_base <= Len(Truth)
        /\ Goto(IF config.reuse_index THEN "load" ELSE "remove")
        /\ UNCHANGED <<index, metrics, searchVars>>

RemoveIndex ==
  /\ stage = "remove"
  /\ index' = NoIndex
  /\ Goto("create")
  /\ UNCHANGED <<metrics, searchVars>>

\* create_database: directory and first data file, config file, its contents.
CreateDatabase ==
  /\ stage = "create"
  /\ \/ /\ index.kind = "none"
        /\ index' = [index EXCEPT !.kind = "no_config"]
        /\ Goto("create")
     \/ /\ index.kind = "no_config"
        /\ index' = [index EXCEPT !.kind = "zero_config"]
        /\ Goto("create")
     \/ /\ index.kind = "zero_config"
        /\ index' = [index EXCEPT !.kind = "spheres", !.n_files = 1,
                                  !.count = config.n_base, !.mode = "spheres"]
        /\ Goto("prefill")
  /\ UNCHANGED <<metrics, searchVars>>

\* A page past the files made in advance is undefined; here the process dies.
\* A merge buffer that has to grow, at most by the outputs that are more than the
\* last page's entries, stores the first vector again instead of what it lost.
PrefillPage ==
  /\ stage = "prefill" /\ Remaining # {}
  /\ \/ /\ Len(index.pages) < NumFiles * PagesPerFile
        /\ \E page \in SUBSET Remaining, copies \in 0 .. PageSize - 1 :
             /\ Min(Remaining) \in page /\ Cardinality(page) + copies <= PageSize
             /\ copies > 0 =>
                  /\ index.pages # <<>>
                  /\ copies <= Cardinality(Remaining) - Cardinality(Last(index.pages))
             /\ index' = [index EXCEPT !.pages =
                  Append(@, Once(page) \cup {Min(Remaining)} \X (1 .. copies))]
        /\ Goto("prefill")
        /\ UNCHANGED <<metrics, searchVars>>
     \/ Len(index.pages) >= NumFiles * PagesPerFile /\ Die

\* Faulty: the number of files is not saved.
CloseBuiltForgets ==           \* ~Database
  /\ stage = "prefill" /\ Remaining = {}
  /\ index' = [index EXCEPT !.whole = TRUE]
  /\ Goto("load")
  /\ UNCHANGED <<metrics, searchVars>>

CloseBuilt ==           \* ~Database
  /\ stage = "prefill" /\ Remaining = {}
  /\ index' = [index EXCEPT !.n_files = NumFiles, !.whole = TRUE]
  /\ Goto("load")
  /\ UNCHANGED <<metrics, searchVars>>

\* A config file without contents makes load_storage divide by its page size, 0.
LoadDatabase ==
  /\ stage = "load"
  /\ \/ index.kind = "zero_config" /\ Die
     \/ index.kind \notin {"spheres", "zero_config"} /\ Fail     \* failed to open file
     \/ /\ index.kind = "spheres"
        /\ visible' = UNION ToSet(SubSeq(index.pages, 1,
                                         Min({Len(index.pages), index.n_files * PagesPerFile})))
        /\ misused' = (config.reuse_index /\ (index.count # config.n_base \/ ~index.whole))
        /\ Goto("mode")
        /\ UNCHANGED <<index, metrics, found, premature>>

CheckMode ==
  /\ stage = "mode"
  /\ \/ /\ config.mode \in {"exact", "ann", "legacy_prune"} \/ config.program = "example"
        /\ Goto("search")
        /\ UNCHANGED <<index, metrics, searchVars>>
     \/ /\ config.mode \notin {"exact", "ann", "legacy_prune"} /\ config.program = "benchmark"
        /\ Fail     \* unknown Spheres mode

\* k entries of an index none of the others is nearer than.
Rank(id) == CHOOSE i \in DOMAIN Truth : Truth[i] = id
Nearer(d, e) == Rank(d[1]) < Rank(e[1]) \/ (d[1] = e[1] /\ d[2] < e[2])
Nearest(entries) ==
  {ks \in kSubset(NumNeighbours, entries) : \A d \in ks, e \in entries \ ks : Nearer(d, e)}

\* The mode that replaces the exact page bound by the difference of the squares.
PruneMode(program) == IF program = "benchmark" THEN "legacy_prune" ELSE "aggressive"
ExactSearch(c) ==
  IF UsesFaiss(c) THEN c.mode = "flat"
  ELSE c.mode # PruneMode(c.program) /\ c.n_pages_to_probe = 0

\* A bound published too early prunes any pages; with fewer than k vectors, in the
\* index or left by that, the code reads on in its buffer: old answers, or zeros.
SearchAs(exact) ==
  /\ stage = "search"
  /\ \/ /\ Cardinality(visible) >= NumNeighbours
        /\ found' \in (IF exact THEN Nearest(visible) ELSE kSubset(NumNeighbours, visible))
        /\ premature' = FALSE
     \/ /\ found' \in kSubset(NumNeighbours, (IdsOf(visible) \cup {0}) \X (0 .. NumNeighbours - 1))
        /\ premature' = TRUE
  /\ Goto("evaluate")
  /\ UNCHANGED <<index, metrics, visible, misused>>

\* Faulty: the difference bound is installed in every mode but its own.
SearchInverted == SearchAs(config.mode = PruneMode(config.program))

Search == SearchAs(ExactSearch(config))

(***************************************************************************)
(* faiss_benchmark::run                                                    *)
(***************************************************************************)
FaissMode ==
  /\ stage = "faiss_mode"
  /\ \/ /\ config.mode \in {"flat", "hnsw", "ivf"}
        /\ Goto(IF config.reuse_index THEN "faiss_load" ELSE "faiss_build")
        /\ UNCHANGED <<index, metrics, searchVars>>
     \/ config.mode \notin {"flat", "hnsw", "ivf"} /\ Fail     \* lsh, or unknown

FaissBuild ==           \* train, add_in_batches: all in memory
  /\ stage = "faiss_build"
  /\ \/ config.n_base > Len(Truth) /\ Fail     \* truncated file
     \/ /\ config.n_base <= Len(Truth)
        /\ Goto("faiss_save")
        /\ UNCHANGED <<index, metrics, searchVars>>

IsDirectory == index.kind \in {"no_config", "zero_config", "spheres"}

FaissSave ==
  /\ stage = "faiss_save"
  /\ \/ IsDirectory /\ Fail     \* cannot write index
     \/ /\ ~IsDirectory
        /\ index' = [kind |-> "faiss", n_files |-> 1, pages |-> <<Once(FirstRows(config.n_base))>>,
                     count |-> config.n_base, mode |-> config.mode, whole |-> TRUE]
        /\ Goto("faiss_load")
        /\ UNCHANGED <<metrics, searchVars>>

\* Setting the search parameters casts the index to the class of this run's
\* mode; if it was saved under another one, that may well kill the run.
FaissLoad ==
  /\ stage = "faiss_load"
  /\ \/ index.kind # "faiss" /\ Fail     \* cannot read index
     \/ index.kind = "faiss" /\ config.mode # "flat" /\ config.mode # index.mode /\ Die
     \/ /\ index.kind = "faiss"
        /\ visible' = Stored
        /\ misused' = (config.reuse_index /\ (index.count # config.n_base \/ index.mode # config.mode))
        /\ Goto(IF config.mode = "ivf" /\ ~config.reuse_index THEN "write" ELSE "faiss_search")
        /\ UNCHANGED <<index, metrics, found, premature>>

\* The approximate indexes may find any vectors, and fewer than k.
FaissSearch ==
  /\ stage = "faiss_search"
  /\ \/ /\ Cardinality(visible) < NumNeighbours \/ index.mode # "flat"
        /\ Fail     \* fewer than k neighbors
     \/ /\ Cardinality(visible) >= NumNeighbours
        /\ found' \in (IF index.mode = "flat" THEN Nearest(visible)
                       ELSE kSubset(NumNeighbours, visible))
        /\ Goto("evaluate")
        /\ UNCHANGED <<index, metrics, visible, misused, premature>>

(***************************************************************************)
(* Both: read_gt_vectors, avg_squared_l2_distance, recall, write_json.     *)
(***************************************************************************)
TruthAtK == {Truth[i] : i \in 1 .. NumNeighbours}

\* What avg_squared_l2_distance checks; in the example it is commented out.
InRange ==
  config.program = "example" \/ IdsOf(found) \cup TruthAtK \subseteq FirstRows(config.n_base)

Evaluate ==
  /\ stage = "evaluate"
  /\ \/ config.k_in_gt # GtWidth /\ Fail     \* invalid dimension
     \/ /\ config.k_in_gt = GtWidth /\ ~InRange
        /\ Fail     \* id out of range
     \/ /\ config.k_in_gt = GtWidth /\ InRange
        /\ Goto("write")
        /\ UNCHANGED <<index, metrics, searchVars>>

\* The entries found whose id is in the ground truth; two copies are two hits.
HitEntries == {entry \in found : entry[1] \in TruthAtK}

\* The fields, most of them options; all but recall, hits and config are history.
\* A file left incomplete has none one can read.
Report ==
  [recall |-> TRUE, hits |-> Cardinality(HitEntries), found |-> IdsOf(found),
   over |-> IdsOf(visible), copies |-> HasCopies(visible), config |-> config,
   searched_mode |-> IF index.kind = "faiss" THEN index.mode ELSE config.mode,
   misused |-> misused, premature |-> premature]
Metrics(complete) == IF ~complete \/ found = {} THEN NoMetrics ELSE Report

\* The stream is checked after opening, not after writing: on a full disk the
\* file is left incomplete, and the run ends as if it were whole.
WriteMetrics ==
  /\ stage = "write"
  /\ \/ Fail     \* failed to write
     \/ /\ \E complete \in BOOLEAN : metrics' = Metrics(complete)
        /\ Ends("ok")
        /\ UNCHANGED <<index, kills>>

(***************************************************************************)
(* The process is killed: out of memory, or by the user.  A file it was    *)
(* writing stays behind unfinished; a directory half removed lacks its     *)
(* config file, or a data file, which fails a load in the same way.        *)
(***************************************************************************)
LeftBehind ==
  CASE stage = "faiss_save" /\ ~IsDirectory -> {[NoIndex EXCEPT !.kind = "torn"]}
    [] stage = "remove" /\ IsDirectory -> {[NoIndex EXCEPT !.kind = "no_config"]}
    [] OTHER -> {}

Kill ==
  /\ stage # "idle" /\ kills < MaxKills
  /\ kills' = kills + 1
  /\ index' \in {index} \cup LeftBehind
  /\ metrics' \in (IF stage = "write" THEN {metrics, Metrics(FALSE)} ELSE {metrics})
  /\ Ends("killed")

RunStep ==
  \/ ReadBase \/ RemoveIndex \/ CreateDatabase \/ PrefillPage \/ CloseBuilt
  \/ LoadDatabase \/ CheckMode \/ Search
  \/ FaissMode \/ FaissBuild \/ FaissSave \/ FaissLoad \/ FaissSearch
  \/ Evaluate \/ WriteMetrics

BenchmarkNext == (\E c \in Configs : Start(c)) \/ RunStep \/ Kill

BenchmarkSpec == BenchmarkInit /\ [][BenchmarkNext]_runVars

(***************************************************************************)
(* Properties.                                                             *)
(***************************************************************************)
Indexes ==
  [kind : {"none", "no_config", "zero_config", "spheres", "faiss", "torn"},
   n_files : Nat, pages : Seq(SUBSET Entries), count : Nat,
   mode : {"", "spheres", "flat", "hnsw", "ivf"}, whole : BOOLEAN]

\* What is at the index path.  A directory without its config file, or with an
\* empty one, holds no pages; a build that was completed holds the first count
\* rows of the base file, and its pages are within the files it counts.
IndexTrue ==
  /\ index \in Indexes
  /\ index.kind \in {"none", "no_config", "zero_config"} => index.pages = <<>> /\ ~index.whole
  /\ index.kind = "faiss" => index.whole
  /\ index.kind = "spheres" /\ index.whole => Len(index.pages) <= index.n_files * PagesPerFile
  /\ index.kind \in {"spheres", "faiss"} /\ index.whole =>
       index.count <= Len(Truth) /\ IdsOf(Stored) = FirstRows(index.count)

\* A run that builds works on its own index, and has it complete when it loads.
OwnBuild ==
  /\ stage \in {"remove", "create", "prefill", "faiss_build", "faiss_save"} => ~config.reuse_index
  /\ stage \in {"remove", "create", "prefill", "faiss_save"} => config.n_base <= Len(Truth)
  /\ stage = "create" => index.kind \in {"none", "no_config", "zero_config"}
  /\ stage = "prefill" => /\ index.kind = "spheres" /\ index.count = config.n_base
                          /\ ~index.whole /\ IdsOf(Stored) \subseteq FirstRows(config.n_base)
                          /\ Len(index.pages) <= NumFiles * PagesPerFile
  /\ stage = "load" /\ ~config.reuse_index =>
       index.kind = "spheres" /\ index.count = config.n_base /\ index.whole
  /\ stage = "faiss_load" /\ ~config.reuse_index =>
       index.kind = "faiss" /\ index.count = config.n_base /\ index.mode = config.mode

\* The engine a step belongs to.
FaissStages == {"faiss_mode", "faiss_build", "faiss_save", "faiss_load", "faiss_search"}
SpheresStages == {"read", "remove", "create", "prefill", "load", "mode", "search"}
Dispatched ==
  /\ stage \in {"idle", "evaluate", "write"} \cup FaissStages \cup SpheresStages
  /\ config \in Configs /\ misused \in BOOLEAN
  /\ stage # "idle" => ValidConfig(config)
  /\ stage \in FaissStages => UsesFaiss(config)
  /\ stage \in FaissStages \ {"faiss_mode"} => config.mode \in {"flat", "hnsw", "ivf"}
  /\ stage \in SpheresStages => ~UsesFaiss(config)

\* Once an index is loaded: what a search sees of it, and what it has found.
Searched ==
  /\ stage \in {"mode", "search", "faiss_search", "evaluate", "write"} =>
       /\ index.kind = (IF UsesFaiss(config) THEN "faiss" ELSE "spheres")
       /\ ~misused => /\ visible = Stored /\ IdsOf(Stored) = FirstRows(config.n_base)
                      /\ config.n_base <= Len(Truth)
                      /\ UsesFaiss(config) => index.mode = config.mode
  /\ stage \notin {"evaluate", "write"} => found = {}
  /\ stage \in {"evaluate", "write"} /\ found # {} /\ ~misused /\ ~premature
     /\ ExactSearch(config) => found \in Nearest(visible)
  /\ stage = "write" /\ found # {} => InRange

\* A recall in the metrics was measured over exactly the first count rows and
\* by the index the mode names, whatever earlier runs, also killed ones and runs
\* of the other program, left at the path.  The only way around it is to reuse an
\* index built for another count or mode, or whose build was killed.  After exit
\* code 0 it is this run's recall, if the file has one (see WriteMetrics).
HonestMetrics ==
  metrics.recall =>
    /\ ~metrics.misused => /\ metrics.over = FirstRows(metrics.config.n_base)
                           /\ metrics.searched_mode = metrics.config.mode
    /\ outcome = "ok" /\ stage = "idle" => metrics.config = config

\* A search the metrics describe as exact (mode flat, or any mode of spheres with
\* the exact page bound, and no probe budget), in which no bound was published too
\* early, has a hit for every neighbour of the ground truth that was in its base
\* rows, and all of them if the program reports only when they all were; and it
\* has found these neighbours unless prefill has stored a vector several times.
ExactMeansFullRecall ==
  LET m == metrics
      within == TruthAtK \cap FirstRows(m.config.n_base)
  IN m.recall /\ ~m.misused /\ ~m.premature /\ ExactSearch(m.config) =>
       /\ m.hits >= Cardinality(within)
       /\ m.config.program = "benchmark" => m.hits = NumNeighbours
       /\ ~m.copies => within \subseteq m.found

\* README.md:47 and 83, benchmark_config.h:275-296: such a search reports the recall
\* of one for having found the whole ground truth.  Copies of one neighbour, which
\* the code counts as hits again, refute it.
FullRecallFindsAll ==
  LET m == metrics
  IN m.recall /\ ~m.misused /\ ~m.premature /\ ExactSearch(m.config) =>
       (m.hits = NumNeighbours => TruthAtK \subseteq m.found)

\* The inductive invariant.
BenchmarkInv ==
  IndexTrue /\ OwnBuild /\ Dispatched /\ Searched /\ HonestMetrics /\ ExactMeansFullRecall

\* A run that reuses the index leaves it as it is, however it ends.
ReuseKeepsIndex == [][stage # "idle" /\ config.reuse_index => index' = index]_runVars
=============================================================================
