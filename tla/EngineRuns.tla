----------------------------- MODULE EngineRuns -----------------------------
(***************************************************************************)
(* Runs of the harnesses that keep their vectors in somebody else's store: *)
(*   pgvector   a table of fixed name on a server, which several processes *)
(*              may use at once; every statement commits by itself         *)
(*   duckdb     a database file and its write-ahead log                    *)
(*   hnswlib    an index file                                              *)
(* run(config) is called with a configuration parse_argv accepts.  A run   *)
(* writes its metrics, or ends without: by an exception, or killed.  What  *)
(* it has put into the store stays there for the runs after it, and for    *)
(* those beside it.  By the README the benchmark script gives every run an *)
(* index path of its own, so only pgvector runs overlap here.              *)
(*                                                                         *)
(* Ingestion is one step that succeeds or fails (see StreamIngest.tla),    *)
(* with DuckDB several, of which a kill may leave the first.               *)
(* The engines are external: PostgreSQL's statements wait for its locks    *)
(* and fail on a missing or existing object, DuckDB commits to its log and *)
(* checkpoints into its file when asked to, when the log has grown, or on  *)
(* closing, and an index may return too few neighbours.                    *)
(***************************************************************************)
EXTENDS Naturals, FiniteSets

CONSTANTS
  Clients,              \* processes
  Engines, Modes,       \* engines looked at, values of --mode
  NumQueries, K,        \* n_query_vectors, k
  Counts,               \* values of n_base_vectors
  MaxRuns               \* bound: runs in one behaviour

ASSUME EngineRunsAssumption ==
  /\ Engines \subseteq {"pgvector", "duckdb", "hnswlib"}
  /\ NumQueries \in Nat \ {0} /\ K \in Nat \ {0} /\ MaxRuns \in Nat
  /\ Counts \subseteq {n \in Nat : n >= K}

VARIABLES
  engine,               \* the engine of this behaviour
  store,                \* what the table, or the file at the index path, holds
  wal,                  \* what only the log beside DuckDB's file holds
  pc, run, mode, count, \* per client: its next step, the number of its run, its options
  pending,              \* rows of its COPY not yet committed, or of its index in memory
  queried,              \* queries answered
  over, indexed,        \* the row sets that answered, and whether an index was there
  shared,               \* history: another run was active during this one
  refused,              \* history: the run ended on what others had done to the store
  metrics,              \* the metrics the client's last run wrote
  runs

optionVars == <<engine, run, mode, count>>
searchVars == <<queried, over, indexed>>
historyVars == <<shared, runs>>
vars == <<store, wal, pc, pending, optionVars, searchVars, historyVars, refused, metrics>>

\* A row in a store: the run that put it there, how many that run had, its number.
FirstRows(r, n, i) == {r} \X {n} \X (0 .. i - 1)
RowsOf(r, n) == FirstRows(r, n, n)
NoStore == [made |-> FALSE, rows |-> {}, index |-> FALSE]
NoMetrics == [run |-> 0, mode |-> "", rows |-> {}, over |-> {}, indexed |-> {}, shared |-> FALSE]
OwnRows(c) == RowsOf(run[c], count[c])
Filled(c, with_index) == [made |-> TRUE, rows |-> OwnRows(c), index |-> with_index]

\* hnswlib and DuckDB ignore --mode and report "hnsw".
ModeOf(c) == IF engine = "pgvector" THEN mode[c] ELSE "hnsw"

RowSets == SUBSET (Nat \X Nat \X Nat)
Stores == [made : BOOLEAN, rows : RowSets, index : BOOLEAN]

StepsOf(e) ==
  CASE e = "pgvector" ->
         {"drop", "create", "copy", "copying", "index", "analyze", "plan", "query"}
    [] e = "duckdb" ->
         {"remove", "remove_wal", "open", "append", "index_file", "checkpoint", "plan", "query"}
    [] e = "hnswlib" -> {"build", "save", "load", "query"}

TypeOK ==
  /\ engine \in Engines /\ store \in Stores /\ wal \in Stores
  /\ pc \in [Clients -> StepsOf(engine) \cup {"idle"}] /\ run \in [Clients -> Nat]
  /\ mode \in [Clients -> Modes \cup {""}] /\ count \in [Clients -> Nat]
  /\ pending \in [Clients -> RowSets]
  /\ queried \in [Clients -> 0 .. NumQueries]
  /\ over \in [Clients -> SUBSET RowSets]
  /\ indexed \in [Clients -> SUBSET BOOLEAN]
  /\ shared \in [Clients -> BOOLEAN] /\ refused \in [Clients -> BOOLEAN]
  /\ DOMAIN metrics = Clients /\ runs \in Nat

Init ==
  /\ engine \in Engines
  /\ store = NoStore /\ wal = NoStore
  /\ pc = [c \in Clients |-> "idle"]
  /\ run = [c \in Clients |-> 0]
  /\ mode = [c \in Clients |-> ""] /\ count = [c \in Clients |-> 0]
  /\ pending = [c \in Clients |-> {}]
  /\ queried = [c \in Clients |-> 0]
  /\ over = [c \in Clients |-> {}] /\ indexed = [c \in Clients |-> {}]
  /\ shared = [c \in Clients |-> FALSE] /\ refused = [c \in Clients |-> FALSE]
  /\ metrics = [c \in Clients |-> NoMetrics]
  /\ runs = 0

(***************************************************************************)
(* How a run begins, goes on and ends.                                     *)
(***************************************************************************)
FirstStep == CASE engine = "pgvector" -> "drop"
               [] engine = "duckdb" -> "remove"
               [] engine = "hnswlib" -> "build"

Start(c) ==
  /\ pc[c] = "idle" /\ runs < MaxRuns
  /\ engine = "pgvector" \/ \A d \in Clients : pc[d] = "idle"
  /\ runs' = runs + 1
  /\ run' = [run EXCEPT ![c] = runs + 1]
  /\ \E m \in Modes, n \in Counts : /\ mode' = [mode EXCEPT ![c] = m]
                                    /\ count' = [count EXCEPT ![c] = n]
  /\ shared' = [d \in Clients |->
                  IF d = c THEN \E e \in Clients \ {c} : pc[e] # "idle"
                  ELSE shared[d] \/ pc[d] # "idle"]
  /\ refused' = [refused EXCEPT ![c] = FALSE]
  /\ pc' = [pc EXCEPT ![c] = FirstStep]
  /\ metrics' = [metrics EXCEPT ![c] = NoMetrics]
  /\ UNCHANGED <<engine, store, wal, pending, searchVars>>

Goto(c, label) ==
  /\ pc' = [pc EXCEPT ![c] = label]
  /\ UNCHANGED <<optionVars, searchVars, historyVars, refused, metrics>>

\* The process is gone; the server aborts a COPY it has not ended.
Leave(c) ==
  /\ pc' = [pc EXCEPT ![c] = "idle"]
  /\ pending' = [pending EXCEPT ![c] = {}]
  /\ queried' = [queried EXCEPT ![c] = 0]
  /\ over' = [over EXCEPT ![c] = {}] /\ indexed' = [indexed EXCEPT ![c] = {}]
  /\ run' = [run EXCEPT ![c] = 0]
  /\ mode' = [mode EXCEPT ![c] = ""] /\ count' = [count EXCEPT ![c] = 0]
  /\ UNCHANGED <<engine, historyVars>>

Fail(c, because) ==
  /\ Leave(c)
  /\ refused' = [refused EXCEPT ![c] = because]
  /\ UNCHANGED <<store, wal, metrics>>

\* An error of the run's own (a data file, the connection, the disk), or a kill;
\* hnswlib's index file may be left torn.
Abort(c) ==
  /\ pc[c] # "idle"
  /\ \/ Fail(c, FALSE)
     \/ /\ pc[c] = "save"
        /\ store' = [NoStore EXCEPT !.made = TRUE]
        /\ Leave(c)
        /\ UNCHANGED <<wal, refused, metrics>>

(***************************************************************************)
(* pgvector_benchmark::run.  A COPY holds a lock on the table that DROP    *)
(* TABLE and CREATE INDEX wait for.                                        *)
(***************************************************************************)
NoOtherCopy(c) == \A d \in Clients \ {c} : pc[d] # "copying"

DropTable(c) ==
  /\ pc[c] = "drop" /\ NoOtherCopy(c)
  /\ store' = NoStore
  /\ Goto(c, "create")
  /\ UNCHANGED <<wal, pending>>

CreateTable(c) ==
  /\ pc[c] = "create"
  /\ \/ store.made /\ Fail(c, TRUE)     \* relation already exists
     \/ /\ ~store.made
        /\ store' = [NoStore EXCEPT !.made = TRUE]
        /\ Goto(c, "copy")
        /\ UNCHANGED <<wal, pending>>

StartCopy(c) ==
  /\ pc[c] = "copy"
  /\ \/ ~store.made /\ Fail(c, TRUE)     \* relation does not exist
     \/ /\ store.made
        /\ Goto(c, "copying")
        /\ UNCHANGED <<store, wal, pending>>

\* Faulty: a table without the primary key.
CopyRowsUnkeyed(c) ==
  /\ pc[c] = "copying" /\ pending[c] = {}
  /\ pending' = [pending EXCEPT ![c] = OwnRows(c)]
  /\ Goto(c, "copying")
  /\ UNCHANGED <<store, wal>>

\* Faulty: the server's refusal is not read back.
CopyRowsUnnoticed(c) ==
  /\ pc[c] = "copying" /\ pending[c] = {}
  /\ \A d \in Clients : pc[d] = "copying" => pending[d] = {}
  /\ store.rows = {}
  /\ pending' = [pending EXCEPT ![c] = OwnRows(c)]
  /\ Goto(c, "copying")
  /\ UNCHANGED <<store, wal>>

\* Every COPY begins with id 0, so the primary key makes the second of two wait
\* for the first, and fail if that commits.
CopyRows(c) ==
  /\ pc[c] = "copying" /\ pending[c] = {}
  /\ \A d \in Clients : pc[d] = "copying" => pending[d] = {}
  /\ \/ store.rows # {} /\ Fail(c, TRUE)     \* duplicate key
     \/ /\ store.rows = {}
        /\ pending' = [pending EXCEPT ![c] = OwnRows(c)]
        /\ Goto(c, "copying")
        /\ UNCHANGED <<store, wal>>

EndCopy(c) ==
  /\ pc[c] = "copying" /\ pending[c] # {}
  /\ store' = [store EXCEPT !.rows = @ \cup pending[c]]
  /\ pending' = [pending EXCEPT ![c] = {}]
  /\ Goto(c, "index")
  /\ UNCHANGED wal

CreateIndex(c) ==
  /\ pc[c] = "index"
  /\ \/ /\ mode[c] = "hnsw" /\ NoOtherCopy(c)
        /\ \/ ~store.made \/ store.index
           /\ Fail(c, TRUE)
     \/ /\ mode[c] = "hnsw" /\ NoOtherCopy(c)
        /\ store.made /\ ~store.index
        /\ store' = [store EXCEPT !.index = TRUE]
        /\ Goto(c, "analyze")
        /\ UNCHANGED <<wal, pending>>
     \/ mode[c] = "flat" /\ Goto(c, "analyze") /\ UNCHANGED <<store, wal, pending>>
     \/ mode[c] \notin {"hnsw", "flat"} /\ Fail(c, FALSE)     \* unknown pgvector mode

Analyze(c) ==
  /\ pc[c] = "analyze"
  /\ \/ ~store.made /\ Fail(c, TRUE)
     \/ store.made /\ Goto(c, "plan") /\ UNCHANGED <<store, wal, pending>>

\* EXPLAIN, in mode hnsw (DuckDB: always): the plan has to name the index, which
\* the optimizer need not choose.
CheckPlan(c) ==
  /\ pc[c] = "plan"
  /\ \/ ModeOf(c) = "hnsw" /\ ~store.index /\ Fail(c, TRUE)
     \/ ModeOf(c) = "hnsw" /\ store.index /\ Fail(c, FALSE)
     \/ /\ ModeOf(c) = "hnsw" => store.index
        /\ Goto(c, "query")
        /\ UNCHANGED <<store, wal, pending>>

(***************************************************************************)
(* duckdb_benchmark::run.  What commits is in the log until a checkpoint;  *)
(* opening a database replays whatever log lies beside it.                 *)
(***************************************************************************)
Merge(file, log) ==
  [made |-> file.made \/ log.made, rows |-> file.rows \cup log.rows, index |-> file.index \/ log.index]

RemoveFile(c) ==
  /\ pc[c] = "remove"
  /\ store' = NoStore
  /\ Goto(c, "remove_wal")
  /\ UNCHANGED <<wal, pending>>

\* Faulty: the log is left where it is.
RemoveLogNot(c) ==
  /\ pc[c] = "remove_wal"
  /\ Goto(c, "open")
  /\ UNCHANGED <<store, wal, pending>>

RemoveLog(c) ==
  /\ pc[c] = "remove_wal"
  /\ wal' = NoStore
  /\ Goto(c, "open")
  /\ UNCHANGED <<store, pending>>

OpenAndCreate(c) ==
  /\ pc[c] = "open"
  /\ \/ (store.made \/ wal.made) /\ Fail(c, TRUE)     \* table already exists
     \/ /\ ~store.made /\ ~wal.made
        /\ wal' = [NoStore EXCEPT !.made = TRUE]
        /\ Goto(c, "append")
        /\ UNCHANGED <<store, pending>>

\* No transaction is open: the appender commits what it has collected now and then,
\* and the rest when it is closed.
AppendRows(c) ==
  /\ pc[c] = "append"
  /\ \E n \in 1 .. count[c] :
       LET first == FirstRows(run[c], count[c], n)
       IN /\ ~(first \subseteq store.rows \cup wal.rows)
          /\ wal' = [wal EXCEPT !.rows = @ \cup (first \ store.rows)]
          /\ Goto(c, IF n = count[c] THEN "index_file" ELSE "append")
  /\ UNCHANGED <<store, pending>>

\* A commit that finds the log large, or closing the database after an exception
\* (Abort may follow), moves the log into the file.
AutoCheckpoint(c) ==
  /\ pc[c] \in {"append", "index_file", "checkpoint"}
  /\ wal # NoStore
  /\ store' = Merge(store, wal) /\ wal' = NoStore
  /\ Goto(c, pc[c])
  /\ UNCHANGED pending

IndexFile(c) ==
  /\ pc[c] = "index_file"
  /\ wal' = [wal EXCEPT !.index = TRUE]
  /\ Goto(c, "checkpoint")
  /\ UNCHANGED <<store, pending>>

Checkpoint(c) ==
  /\ pc[c] = "checkpoint"
  /\ store' = Merge(store, wal) /\ wal' = NoStore
  /\ Goto(c, "plan")
  /\ UNCHANGED pending

(***************************************************************************)
(* hnswlib_benchmark::run.                                                 *)
(***************************************************************************)
BuildInMemory(c) ==
  /\ pc[c] = "build"
  /\ pending' = [pending EXCEPT ![c] = OwnRows(c)]
  /\ Goto(c, "save")
  /\ UNCHANGED <<store, wal>>

\* Faulty: an index file that is there is used again.
SaveIndexOnce(c) ==
  /\ pc[c] = "save"
  /\ store' = IF store.index THEN store ELSE Filled(c, TRUE)
  /\ pending' = [pending EXCEPT ![c] = {}]
  /\ Goto(c, "load")
  /\ UNCHANGED wal

SaveIndex(c) ==
  /\ pc[c] = "save"
  /\ store' = [made |-> TRUE, rows |-> pending[c], index |-> TRUE]
  /\ pending' = [pending EXCEPT ![c] = {}]
  /\ Goto(c, "load")
  /\ UNCHANGED wal

LoadIndex(c) ==
  /\ pc[c] = "load"
  /\ \/ ~store.index /\ Fail(c, TRUE)     \* index seems to be corrupted
     \/ store.index /\ Goto(c, "query") /\ UNCHANGED <<store, wal, pending>>

(***************************************************************************)
(* The queries, one statement each; an answer of fewer than K rows ends    *)
(* the run, at the latest in recall.  Then the ground truth and metrics.   *)
(***************************************************************************)
Query(c) ==
  /\ pc[c] = "query" /\ queried[c] < NumQueries
  /\ \/ Cardinality(store.rows) < K /\ Fail(c, TRUE)
     \/ store.index /\ Fail(c, FALSE)
     \/ /\ Cardinality(store.rows) >= K
        /\ queried' = [queried EXCEPT ![c] = @ + 1]
        /\ over' = [over EXCEPT ![c] = @ \cup {store.rows}]
        /\ indexed' = [indexed EXCEPT ![c] = @ \cup {store.index}]
        /\ UNCHANGED <<store, wal, pc, pending, optionVars, historyVars, refused, metrics>>

Metrics(c) ==
  [run |-> run[c], mode |-> ModeOf(c), rows |-> OwnRows(c), over |-> over[c],
   indexed |-> indexed[c], shared |-> shared[c]]

Report(c) ==
  /\ pc[c] = "query" /\ queried[c] = NumQueries
  /\ \/ ~store.made /\ Fail(c, TRUE)     \* pg_total_relation_size, file_size
     \/ /\ store.made
        /\ metrics' = [metrics EXCEPT ![c] = Metrics(c)]
        /\ Leave(c)
        /\ UNCHANGED <<store, wal, refused>>

Step(c) ==
  \/ DropTable(c) \/ CreateTable(c) \/ StartCopy(c) \/ CopyRows(c) \/ EndCopy(c)
  \/ CreateIndex(c) \/ Analyze(c) \/ CheckPlan(c)
  \/ RemoveFile(c) \/ RemoveLog(c) \/ OpenAndCreate(c) \/ AppendRows(c) \/ IndexFile(c)
  \/ Checkpoint(c)
  \/ BuildInMemory(c) \/ SaveIndex(c) \/ LoadIndex(c)
  \/ Query(c) \/ Report(c)

Finished == runs = MaxRuns /\ (\A c \in Clients : pc[c] = "idle") /\ UNCHANGED vars

Next == (\E c \in Clients : Start(c) \/ Step(c) \/ AutoCheckpoint(c) \/ Abort(c)) \/ Finished

\* A process that waits for no lock goes on.
Spec == Init /\ [][Next]_vars /\ \A c \in Clients : WF_vars(Step(c))

(***************************************************************************)
(* Properties.                                                             *)
(***************************************************************************)
\* The rows of the first run in it, from the first on; all of them if complete.
IsBeginning(rows, complete) ==
  rows = {} \/ \E entry \in rows : \E i \in 1 .. entry[2] :
                 rows = FirstRows(entry[1], entry[2], i) /\ (complete => i = entry[2])

\* pgvector_benchmark.cpp:56-110, 149 and duckdb_benchmark.cpp:57-105: whatever runs
\* overlap and wherever they are killed, a store holds rows of one run only: all or
\* none of them in a table or an index file; in DuckDB's file, and in what opening it
\* with its log would show, the first ones without a gap.
StoreHoldsOneRun ==
  /\ \A a, b \in store.rows \cup wal.rows : a[1] = b[1] /\ a[2] = b[2]
  /\ IsBeginning(store.rows, engine # "duckdb")
  /\ store.rows # {} => IsBeginning(store.rows \cup wal.rows, engine # "duckdb")

\* A run no other overlapped with reports on its own rows and by the method its
\* mode names (flat: no index), whatever killed runs left in the store.
AloneIsHonest ==
  \A c \in Clients :
    LET m == metrics[c]
    IN m.run # 0 /\ ~m.shared => m.over = {m.rows} /\ m.indexed = {m.mode = "hnsw"}

\* Such a run never ends on something another run left behind either.
LeftoversHarmless == \A c \in Clients : refused[c] => shared[c]

\* The three made inductive.  A client at rest holds nothing; two are active only
\* on the server, and know it; an open COPY has the table for itself; and a run
\* that is alone finds at each step what its own steps before have put there.
IdleIsClean ==
  \A c \in Clients : pc[c] = "idle" =>
    pending[c] = {} /\ queried[c] = 0 /\ over[c] = {} /\ indexed[c] = {}
AloneOrShared ==
  /\ \A c, d \in Clients : c # d /\ pc[c] # "idle" /\ pc[d] # "idle" => shared[c]
  /\ engine # "pgvector" => \A c \in Clients : ~shared[c]
LogIsDuckDBs == engine # "duckdb" => wal = NoStore
OpenCopyIsAlone ==
  \A c \in Clients : pending[c] # {} =>
    /\ pc[c] \in {"copying", "save"} /\ pending[c] = OwnRows(c)
    /\ pc[c] = "copying" =>
         store.rows = {} /\ \A d \in Clients \ {c} : pc[d] = "copying" => pending[d] = {}
Expects(c, step, file, log, rows) ==
  /\ step \in {"create", "remove_wal", "open"} => file = NoStore
  /\ step \in {"copy", "copying"} => file = [NoStore EXCEPT !.made = TRUE]
  /\ step = "index" => file = Filled(c, FALSE)
  /\ step \in {"analyze", "plan", "query"} => file = Filled(c, ModeOf(c) = "hnsw")
  /\ step = "open" => log = NoStore
  /\ step = "append" => \E n \in 0 .. count[c] - 1 :
       Merge(file, log) =
         [made |-> TRUE, rows |-> FirstRows(run[c], count[c], n), index |-> FALSE]
  /\ step = "index_file" => Merge(file, log) = Filled(c, FALSE)
  /\ step = "checkpoint" => Merge(file, log) = Filled(c, TRUE)
  /\ step = "save" => rows = OwnRows(c)
  /\ step = "load" => file = Filled(c, TRUE)
InPhase(c) ==
  pc[c] # "idle" /\ ~shared[c] =>
    /\ count[c] >= K
    /\ Expects(c, pc[c], store, wal, pending[c])
    /\ over[c] = IF queried[c] = 0 THEN {} ELSE {OwnRows(c)}
    /\ indexed[c] = IF queried[c] = 0 THEN {} ELSE {ModeOf(c) = "hnsw"}
IInv ==
  /\ TypeOK /\ IdleIsClean /\ AloneOrShared /\ LogIsDuckDBs /\ OpenCopyIsAlone
  /\ \A c \in Clients : InPhase(c)
  /\ StoreHoldsOneRun /\ AloneIsHonest /\ LeftoversHarmless

\* Nobody waits for a lock for ever.
EveryRunEnds == \A c \in Clients : pc[c] # "idle" ~> pc[c] = "idle"
=============================================================================
