---------------------------- MODULE HarnessProofs ----------------------------
(***************************************************************************)
(* The harnesses over other engines.                                       *)
(*                                                                         *)
(* StreamIngest, for every number of rows, size of batch and number of     *)
(* threads: no label gets another row's vector, and the loop implements    *)
(* Ingest.  The barrier in EndBatch is what makes IngestInv inductive.     *)
(*                                                                         *)
(* EngineRuns, for any number of processes, runs and rows: a store never   *)
(* holds a mix of runs, and a run that no other overlapped with reports on *)
(* its own rows and ends on nothing that others left behind.  IInv says,   *)
(* of such a run, what each of its steps finds in the store; an action is  *)
(* proved from one of three facts: a step that goes on keeps IInv when the *)
(* next step finds what it expects (GoesOn), so does a failure that is not *)
(* the doing of others (Fails), and rest is a case of its own.             *)
(***************************************************************************)
EXTENDS EngineRuns, StreamIngest, FunctionTheorems, FiniteSetTheorems, TLAPS

(***************************************************************************)
(* StreamIngest.                                                           *)
(***************************************************************************)
LEMMA InitIngestInv == IngestInit => IngestInv
  BY StreamIngestAssumption
     DEF IngestInit, IngestInv, IngestTypeOK, ReaderInStep, CallsInStep, OwnVector, NoRowForgotten, Rows,
         Places, Threads, Nothing

LEMMA BatchRowsFit ==
  ASSUME IngestTypeOK, added < NBase
  PROVE  BatchRows \in 1 .. BatchSize /\ added + BatchRows <= NBase
  BY StreamIngestAssumption DEF IngestTypeOK, BatchRows

\* Reading over the buffer disturbs nobody: no thread is in a call.
LEMMA ReadBatchIInv == IngestInv /\ ReadBatch => IngestInv'
<1> SUFFICES ASSUME IngestInv, ReadBatch
             PROVE  IngestInv'
  OBVIOUS
<1> USE StreamIngestAssumption DEF IngestInv
<1>1. /\ rows' \in 1 .. BatchSize /\ added + rows' <= NBase
      /\ file_row = added /\ added < NBase /\ stage = "read"
  BY BatchRowsFit DEF ReadBatch, ReaderInStep
<1>2. PICK owner \in [Places -> Threads] :
        todo' = [t \in Threads |-> {place \in Places : place < rows' /\ owner[place] = t}]
  BY DEF ReadBatch
<1>3. \A t \in Threads : call[t] = Nothing
  BY <1>1 DEF CallsInStep
<1>4. IngestTypeOK'
  <2>1. buffer' \in [Places -> Rows \cup {Nothing}]
    BY <1>1 DEF IngestTypeOK, ReadBatch, Places, Rows
  <2>2. file_row' \in 0 .. NBase
    BY <1>1 DEF ReadBatch, IngestTypeOK
  <2>3. todo' \in [Threads -> SUBSET Places]
    BY <1>2
  <2> QED BY <1>1, <2>1, <2>2, <2>3 DEF IngestTypeOK, ReadBatch
<1>5. ReaderInStep'
  BY <1>1 DEF ReadBatch, ReaderInStep, Places, IngestTypeOK
<1>6. CallsInStep'
  <2> SUFFICES ASSUME NEW t \in Threads
               PROVE  call'[t] = Nothing /\ stage' = "add" /\ \A place \in todo'[t] : place < rows'
    BY DEF CallsInStep
  <2> QED BY <1>2, <1>3 DEF ReadBatch
<1>7. OwnVector'
  BY DEF OwnVector, ReadBatch
<1>8. NoRowForgotten'
  <2>1. ASSUME NEW place \in Places, place < rows'
        PROVE  \E t \in Threads : place \in todo'[t]
    BY <1>2, <2>1
  <2>2. \A row \in Rows : row < added' => <<row, row>> \in index'
    BY DEF NoRowForgotten, ReadBatch
  <2> QED BY <2>1, <2>2 DEF NoRowForgotten
<1> QED BY <1>4, <1>5, <1>6, <1>7, <1>8

LEMMA CallIInv == ASSUME IngestInv, NEW t \in Threads, CallAddPoint(t) PROVE IngestInv'
<1> USE StreamIngestAssumption DEF IngestInv
<1>1. PICK place \in todo[t] :
        /\ call' = [call EXCEPT ![t] = place]
        /\ label' = [label EXCEPT ![t] = added + place]
        /\ todo' = [todo EXCEPT ![t] = @ \ {place}]
  BY DEF CallAddPoint
<1>2. place \in Places /\ stage = "add" /\ place < rows
  BY DEF IngestTypeOK, CallsInStep
<1>3. IngestTypeOK'
  BY <1>1, <1>2 DEF IngestTypeOK, CallAddPoint, Places
<1>4. ReaderInStep'
  BY DEF ReaderInStep, CallAddPoint
<1>5. CallsInStep'
  BY <1>1, <1>2 DEF CallsInStep, CallAddPoint, IngestTypeOK
<1>6. OwnVector'
  BY DEF OwnVector, CallAddPoint
<1>7. NoRowForgotten'
  <2>1. ASSUME NEW p \in Places, p < rows
        PROVE  \/ <<added + p, added + p>> \in index
               \/ \E u \in Threads : p \in todo'[u] \/ call'[u] = p
    <3>1. CASE <<added + p, added + p>> \in index
      BY <3>1
    <3>2. CASE \E u \in Threads : p \in todo[u] \/ call[u] = p
      <4>1. PICK u \in Threads : p \in todo[u] \/ call[u] = p
        BY <3>2
      <4>2. CASE u = t
        <5>1. call[t] = Nothing /\ Nothing # p
          BY DEF CallAddPoint, Nothing, Places
        <5>2. p = place \/ p \in todo'[t]
          BY <1>1, <4>1, <4>2, <5>1 DEF IngestTypeOK
        <5>3. call'[t] = place
          BY <1>1 DEF IngestTypeOK
        <5> QED BY <5>2, <5>3
      <4>3. CASE u # t
        BY <1>1, <4>1, <4>3 DEF IngestTypeOK
      <4> QED BY <4>2, <4>3
    <3> QED BY <1>2, <2>1, <3>1, <3>2 DEF NoRowForgotten
  <2> QED BY <2>1 DEF NoRowForgotten, CallAddPoint
<1> QED BY <1>3, <1>4, <1>5, <1>6, <1>7

\* The thread copies what its place of the buffer holds now.
LEMMA FinishIInv == ASSUME IngestInv, NEW t \in Threads, FinishAddPoint(t) PROVE IngestInv'
<1> USE StreamIngestAssumption DEF IngestInv
<1> DEFINE mine == call[t]
<1>1. /\ mine \in Places /\ stage = "add" /\ mine < rows /\ label[t] = added + mine
      /\ buffer[mine] = added + mine /\ added + mine \in Rows
  BY DEF FinishAddPoint, IngestTypeOK, CallsInStep, ReaderInStep, Rows, Places
<1>2. index' = index \cup {<<added + mine, added + mine>>}
  BY <1>1 DEF FinishAddPoint
<1>3. IngestTypeOK'
  BY <1>1, <1>2 DEF IngestTypeOK, FinishAddPoint, Rows
<1>4. ReaderInStep'
  BY DEF ReaderInStep, FinishAddPoint
<1>5. CallsInStep'
  BY DEF CallsInStep, FinishAddPoint, IngestTypeOK
<1>6. OwnVector'
  BY <1>1, <1>2 DEF OwnVector
<1>7. NoRowForgotten'
  <2>1. ASSUME NEW p \in Places, p < rows
        PROVE  \/ <<added + p, added + p>> \in index'
               \/ \E u \in Threads : p \in todo[u] \/ call'[u] = p
    <3>1. CASE p = mine
      BY <1>2, <3>1
    <3>2. CASE p # mine
      BY <1>1, <1>2, <2>1, <3>2 DEF NoRowForgotten, FinishAddPoint, IngestTypeOK
    <3> QED BY <3>1, <3>2
  <2>2. \A row \in Rows : row < added => <<row, row>> \in index'
    BY <1>2 DEF NoRowForgotten
  <2> QED BY <2>1, <2>2 DEF NoRowForgotten, FinishAddPoint
<1> QED BY <1>3, <1>4, <1>5, <1>6, <1>7

\* At the barrier every row of the batch is in.
LEMMA BatchIsIn ==
  ASSUME IngestInv, EndBatch
  PROVE  \A row \in Rows : row < added + rows => <<row, row>> \in index
<1> USE StreamIngestAssumption DEF IngestInv
<1> SUFFICES ASSUME NEW row \in Rows, row < added + rows, added <= row
             PROVE  <<row, row>> \in index
  BY DEF NoRowForgotten, IngestTypeOK, Rows
<1> DEFINE place == row - added
<1>1. place \in Places /\ place < rows /\ added + place = row
  BY DEF IngestTypeOK, Rows, Places
<1>2. \A t \in Threads : ~(place \in todo[t] \/ call[t] = place)
  BY <1>1 DEF EndBatch, Nothing, Places
<1>3. stage = "add"
  BY DEF EndBatch
<1> HIDE DEF place
<1> QED BY <1>1, <1>2, <1>3 DEF NoRowForgotten

LEMMA EndBatchIInv == IngestInv /\ EndBatch => IngestInv'
<1> SUFFICES ASSUME IngestInv, EndBatch
             PROVE  IngestInv'
  OBVIOUS
<1> USE StreamIngestAssumption DEF IngestInv
<1>1. /\ added' = added + rows /\ added' \in 0 .. NBase /\ file_row' = added'
      /\ stage' \in {"read", "ingested"} /\ (stage' = "ingested" => added' = NBase)
  BY DEF EndBatch, ReaderInStep, IngestTypeOK
<1>2. IngestTypeOK'
  BY <1>1 DEF IngestTypeOK, EndBatch
<1>3. ReaderInStep'
  BY <1>1 DEF ReaderInStep
<1>4. CallsInStep'
  BY DEF CallsInStep, EndBatch
<1>5. OwnVector'
  BY DEF OwnVector, EndBatch
<1>6. NoRowForgotten'
  BY <1>1, BatchIsIn DEF NoRowForgotten, EndBatch
<1> QED BY <1>2, <1>3, <1>4, <1>5, <1>6

LEMMA StutterIInv == IngestInv /\ UNCHANGED ingestVars => IngestInv'
  BY DEF IngestInv, IngestTypeOK, ReaderInStep, CallsInStep, OwnVector, NoRowForgotten, ingestVars

LEMMA ReadFailsIInv == IngestInv /\ ReadFails => IngestInv'
  BY DEF IngestInv, ReadFails, IngestTypeOK, ReaderInStep, CallsInStep, OwnVector, NoRowForgotten

LEMMA NextIngestInv == IngestInv /\ [IngestNext]_ingestVars => IngestInv'
<1> SUFFICES ASSUME IngestInv, [IngestNext]_ingestVars
             PROVE  IngestInv'
  OBVIOUS
<1>1. CASE Main
  BY <1>1, ReadBatchIInv, ReadFailsIInv, EndBatchIInv DEF Main
<1>2. ASSUME NEW t \in Threads, Thread(t)
      PROVE  IngestInv'
  BY <1>2, CallIInv, FinishIInv DEF Thread
<1>3. CASE Ended \/ UNCHANGED ingestVars
  BY <1>3, StutterIInv DEF Ended
<1> QED BY <1>1, <1>2, <1>3 DEF IngestNext

\* hnswlib_benchmark.cpp:30-41 and fvecs_stream.h:21-37: the invariant holds.
THEOREM SpecIngestInv == IngestSpec => []IngestInv
  BY InitIngestInv, NextIngestInv, PTL DEF IngestSpec

\* hnswlib_benchmark.cpp:36-38: no label is ever given another row's vector, with
\* any number of threads, batches and rows.
THEOREM SpecOwnVector == IngestSpec => []OwnVector
<1>1. IngestInv => OwnVector
  BY DEF IngestInv
<1> QED BY <1>1, SpecIngestInv, PTL

\* When the loop is over the index holds every row once, under its number.
LEMMA WholeAtEnd == IngestInv /\ added = NBase => index = I!Whole
<1> SUFFICES ASSUME IngestInv, added = NBase
             PROVE  index = I!Whole
  OBVIOUS
<1>1. \A entry \in index : \E row \in Rows : entry = <<row, row>>
  BY DEF IngestInv, OwnVector, IngestTypeOK
<1>2. \A row \in Rows : <<row, row>> \in index
  <2>1. \A row \in Rows : row < added
    BY StreamIngestAssumption DEF Rows
  <2> QED BY <2>1 DEF IngestInv, NoRowForgotten
<1> QED BY <1>1, <1>2 DEF I!Whole

LEMMA StepImplements == IngestInv /\ IngestInv' /\ [IngestNext]_ingestVars => [I!Next]_(I!vars)
<1> SUFFICES ASSUME IngestInv, IngestInv', [IngestNext]_ingestVars
             PROVE  [I!Next]_(I!vars)
  OBVIOUS
<1> USE DEF I!Next, I!vars, I!Succeed, I!GiveUp, IngestState
<1>1. CASE EndBatch
  <2>1. CASE stage' = "read"
    BY <1>1, <2>1 DEF EndBatch
  <2>2. CASE stage' = "ingested"
    <3>1. (added = NBase)'
      BY <2>2 DEF IngestInv, ReaderInStep
    <3>2. (index = I!Whole)'
      BY <3>1, WholeAtEnd, PTL
    <3> QED BY <1>1, <2>2, <3>2 DEF EndBatch, I!Whole
  <2> QED BY <1>1, <2>1, <2>2 DEF EndBatch
<1>2. CASE ReadBatch
  BY <1>2 DEF ReadBatch
<1>3. CASE ReadFails
  BY <1>3 DEF ReadFails
<1>4. ASSUME NEW t \in Threads, CallAddPoint(t)
      PROVE  UNCHANGED I!vars
  BY <1>4 DEF CallAddPoint
<1>5. ASSUME NEW t \in Threads, FinishAddPoint(t)
      PROVE  UNCHANGED I!vars
  <2>1. stage = "add"
    BY <1>5 DEF FinishAddPoint, IngestInv, CallsInStep
  <2> QED BY <1>5, <2>1 DEF FinishAddPoint
<1>6. CASE Ended \/ UNCHANGED ingestVars
  BY <1>6 DEF Ended, ingestVars
<1> QED BY <1>1, <1>2, <1>3, <1>4, <1>5, <1>6 DEF IngestNext, Main, Thread

\* hnswlib_benchmark.cpp:28-42, duckdb_benchmark.cpp:71-88, pgvector_benchmark.cpp:73-98:
\* the ingestion loop implements Ingest.
THEOREM SpecImplementsIngest == IngestSpec => ImplementsIngest
<1>1. IngestInit => I!Init
  BY DEF IngestInit, I!Init, IngestState
<1> QED BY <1>1, SpecIngestInv, StepImplements, PTL DEF IngestSpec, ImplementsIngest, I!Spec

-----------------------------------------------------------------------------
(***************************************************************************)
(* EngineRuns.                                                             *)
(***************************************************************************)
LEMMA RowsOfCount ==
  ASSUME NEW r \in Nat, NEW n \in Nat
  PROVE  Cardinality(RowsOf(r, n)) = n
<1> DEFINE f == [i \in 1 .. n |-> <<r, n, i - 1>>]
<1>1. f \in [1 .. n -> RowsOf(r, n)]
  BY DEF RowsOf, FirstRows
<1>2. ASSUME NEW a \in 1 .. n, NEW b \in 1 .. n, f[a] = f[b]
      PROVE  a = b
  BY <1>2
<1>3. ASSUME NEW row \in RowsOf(r, n)
      PROVE  \E i \in 1 .. n : f[i] = row
  <2>1. PICK m \in 0 .. n - 1 : row = <<r, n, m>>
    BY DEF RowsOf, FirstRows
  <2>2. m + 1 \in 1 .. n /\ f[m + 1] = row
    BY <2>1
  <2> QED BY <2>2
<1>4. ExistsBijection(1 .. n, RowsOf(r, n))
  BY <1>1, <1>2, <1>3
     DEF ExistsBijection, Bijection, Injection, Surjection, IsInjective
<1> QED BY <1>4, FS_CountingElements

LEMMA FirstRowsTyped ==
  ASSUME TypeOK, NEW c \in Clients, NEW n \in 0 .. count[c]
  PROVE  FirstRows(run[c], count[c], n) \in RowSets
<1>1. run[c] \in Nat /\ count[c] \in Nat
  BY DEF TypeOK
<1>2. ASSUME NEW row \in FirstRows(run[c], count[c], n)
      PROVE  row \in Nat \X Nat \X Nat
  <2>1. PICK m \in 0 .. n - 1 : row = <<run[c], count[c], m>>
    BY DEF FirstRows
  <2> QED BY <1>1, <2>1
<1> QED BY <1>2 DEF RowSets

LEMMA RowsTyped ==
  ASSUME TypeOK, NEW c \in Clients
  PROVE  OwnRows(c) \in RowSets
<1>1. count[c] \in Nat
  BY DEF TypeOK
<1>2. count[c] \in 0 .. count[c]
  BY <1>1
<1> QED BY <1>2, FirstRowsTyped DEF OwnRows, RowsOf

LEMMA FilledTyped ==
  ASSUME TypeOK, NEW c \in Clients, NEW with_index \in BOOLEAN
  PROVE  Filled(c, with_index) \in Stores /\ Filled(c, with_index).rows = OwnRows(c)
  BY RowsTyped DEF Filled, Stores

LEMMA EmptyTyped == {} \in RowSets /\ NoStore \in Stores /\ [NoStore EXCEPT !.made = TRUE] \in Stores
<1>1. {} \in RowSets
  BY DEF RowSets
<1> QED BY <1>1 DEF NoStore, Stores

LEMMA StepsTyped ==
  ASSUME TypeOK
  PROVE  engine \in {"pgvector", "duckdb", "hnswlib"} /\ "idle" \notin StepsOf(engine)
  BY EngineRunsAssumption DEF TypeOK, StepsOf

\* The first rows of a run are its beginning, and are one run's.
LEMMA Beginning ==
  ASSUME NEW r, NEW n \in Nat, NEW i \in 0 .. n, NEW complete \in BOOLEAN, complete => i = n
  PROVE  IsBeginning(FirstRows(r, n, i), complete)
<1>1. CASE i = 0
  BY <1>1 DEF IsBeginning, FirstRows
<1>2. CASE i # 0
  <2>1. <<r, n, 0>> \in FirstRows(r, n, i) /\ i \in 1 .. n
    BY <1>2 DEF FirstRows
  <2> QED BY <2>1 DEF IsBeginning
<1> QED BY <1>1, <1>2

LEMMA OneRun ==
  ASSUME NEW r, NEW n \in Nat, NEW i \in 0 .. n,
         store'.rows \cup wal'.rows = FirstRows(r, n, i), engine' = "duckdb" \/ i = n,
         IsBeginning(store'.rows, engine' # "duckdb")
  PROVE  StoreHoldsOneRun'
<1>1. IsBeginning(FirstRows(r, n, i), engine' # "duckdb")
  BY Beginning
<1>2. \A a \in FirstRows(r, n, i) : a[1] = r /\ a[2] = n
  BY DEF FirstRows
<1> QED BY <1>1, <1>2 DEF StoreHoldsOneRun

\* To empty the file or the log does no harm.
LEMMA RunKept ==
  ASSUME StoreHoldsOneRun, engine' = engine,
         store'.rows = store.rows \/ store'.rows = {},
         wal'.rows = wal.rows \/ wal'.rows = {}
  PROVE  StoreHoldsOneRun'
<1>1. IsBeginning({}, engine # "duckdb")
  BY DEF IsBeginning
<1>2. CASE store'.rows = {}
  BY <1>1, <1>2 DEF StoreHoldsOneRun
<1>3. CASE store'.rows = store.rows /\ wal'.rows = wal.rows
  BY <1>3 DEF StoreHoldsOneRun
<1>4. CASE store'.rows = store.rows /\ wal'.rows = {}
  <2>1. store'.rows \cup wal'.rows = store.rows
    BY <1>4
  <2> QED BY <1>4, <2>1 DEF StoreHoldsOneRun
<1> QED BY <1>2, <1>3, <1>4

\* A client's rows, all of them, and an empty log.
LEMMA RowsOfOneRun ==
  ASSUME TypeOK, NEW c \in Clients, store'.rows = OwnRows(c), wal' = NoStore
  PROVE  StoreHoldsOneRun'
<1>0. count[c] \in Nat
  BY DEF TypeOK
<1>1. count[c] \in Nat /\ count[c] \in 0 .. count[c]
  BY <1>0
<1>2. store'.rows = FirstRows(run[c], count[c], count[c]) /\ store'.rows \cup wal'.rows = store'.rows
  BY DEF OwnRows, RowsOf, NoStore
<1>3. IsBeginning(store'.rows, engine' # "duckdb")
  BY <1>1, <1>2, Beginning
<1> QED BY <1>1, <1>2, <1>3, OneRun

LEMMA ZeroQueries == 0 \in 0 .. NumQueries
  BY EngineRunsAssumption

LEMMA InitIInv == Init => IInv
<1> SUFFICES ASSUME Init
             PROVE  IInv
  OBVIOUS
<1> USE DEF Init
<1>1. TypeOK
  <2>1. queried \in [Clients -> 0 .. NumQueries]
    BY ZeroQueries
  <2>2. over \in [Clients -> SUBSET RowSets] /\ pending \in [Clients -> RowSets]
    BY EmptyTyped
  <2>3. store \in Stores /\ wal \in Stores
    BY EmptyTyped
  <2> QED BY <2>1, <2>2, <2>3 DEF TypeOK
<1>2. IdleIsClean /\ AloneOrShared /\ OpenCopyIsAlone /\ (\A c \in Clients : InPhase(c))
  BY DEF IdleIsClean, AloneOrShared, OpenCopyIsAlone, InPhase
<1>3. StoreHoldsOneRun
  <2>1. store.rows = {} /\ wal.rows = {}
    BY DEF NoStore
  <2> QED BY <2>1 DEF StoreHoldsOneRun, IsBeginning
<1>4. AloneIsHonest
  BY DEF AloneIsHonest, NoMetrics
<1>5. LeftoversHarmless
  BY DEF LeftoversHarmless
<1> QED BY <1>1, <1>2, <1>3, <1>4, <1>5 DEF IInv, LogIsDuckDBs

(***************************************************************************)
(* A step of c that goes on at another step.                               *)
(***************************************************************************)
LEMMA GoesOn ==
  ASSUME IInv, NEW c \in Clients, pc[c] # "idle",
         NEW next \in StepsOf(engine), Goto(c, next),
         store' \in Stores, wal' \in Stores,
         pending' \in [Clients -> RowSets],
         \A d \in Clients \ {c} : pending'[d] = pending[d],
         OpenCopyIsAlone', StoreHoldsOneRun', wal' = wal \/ engine = "duckdb",
         ~shared[c] => Expects(c, next, store', wal', pending'[c])
  PROVE  IInv'
<1> USE DEF IInv
<1>0. /\ pc' = [pc EXCEPT ![c] = next] /\ next # "idle"
      /\ UNCHANGED <<optionVars, searchVars, historyVars, refused, metrics>>
  BY StepsTyped DEF Goto
<1>1. TypeOK'
  BY <1>0 DEF TypeOK, optionVars, searchVars, historyVars
<1>2. IdleIsClean'
  BY <1>0 DEF TypeOK, IdleIsClean, optionVars, searchVars
<1>3. AloneOrShared'
  BY <1>0 DEF TypeOK, AloneOrShared, optionVars, historyVars
<1>4. ASSUME NEW d \in Clients
      PROVE  InPhase(d)'
  <2>1. CASE d = c
    <3>1. /\ pc'[c] = next /\ count'[c] = count[c] /\ shared'[c] = shared[c]
          /\ run'[c] = run[c] /\ OwnRows(c)' = OwnRows(c) /\ ModeOf(c)' = ModeOf(c)
          /\ UNCHANGED <<queried, over, indexed>>
      BY <1>0 DEF TypeOK, OwnRows, ModeOf, optionVars, searchVars, historyVars
    <3>2. ~shared[c] => Expects(c, pc[c], store, wal, pending[c])'
      BY <3>1 DEF Expects, Filled
    <3> QED BY <2>1, <3>1, <3>2 DEF InPhase
  <2>2. CASE d # c
    <3>1. pc'[d] # "idle" => shared[d]
      BY <1>0, <2>2 DEF AloneOrShared, TypeOK
    <3> QED BY <1>0, <3>1 DEF InPhase, historyVars
  <2> QED BY <2>1, <2>2
<1>5. AloneIsHonest' /\ LeftoversHarmless' /\ LogIsDuckDBs'
  BY <1>0 DEF AloneIsHonest, LeftoversHarmless, LogIsDuckDBs, historyVars, optionVars
<1> QED BY <1>1, <1>2, <1>3, <1>4, <1>5

(***************************************************************************)
(* c goes to rest, with the store as it was or torn.                       *)
(***************************************************************************)
LEMMA Leaves ==
  ASSUME IInv, NEW c \in Clients, pc[c] # "idle", Leave(c),
         store' = store \/ store' = [NoStore EXCEPT !.made = TRUE], UNCHANGED wal,
         OpenCopyIsAlone',
         refused' \in [Clients -> BOOLEAN], LeftoversHarmless',
         DOMAIN metrics' = Clients, AloneIsHonest'
  PROVE  IInv'
<1> USE DEF IInv
<1>0. /\ pc' = [pc EXCEPT ![c] = "idle"]
      /\ pending' = [pending EXCEPT ![c] = {}]
      /\ queried' = [queried EXCEPT ![c] = 0]
      /\ over' = [over EXCEPT ![c] = {}] /\ indexed' = [indexed EXCEPT ![c] = {}]
      /\ run' = [run EXCEPT ![c] = 0]
      /\ mode' = [mode EXCEPT ![c] = ""] /\ count' = [count EXCEPT ![c] = 0]
      /\ engine' = engine /\ shared' = shared /\ runs' = runs
  BY DEF Leave, historyVars
<1>1. TypeOK'
  <2>1. store' \in Stores
    BY EmptyTyped DEF TypeOK
  <2>2. queried' \in [Clients -> 0 .. NumQueries]
    BY <1>0, ZeroQueries DEF TypeOK
  <2>3. pc' \in [Clients -> StepsOf(engine) \cup {"idle"}]
    BY <1>0 DEF TypeOK
  <2>4. /\ over' \in [Clients -> SUBSET RowSets]
        /\ pending' \in [Clients -> RowSets]
        /\ indexed' \in [Clients -> SUBSET BOOLEAN]
    BY <1>0, EmptyTyped DEF TypeOK
  <2>5. /\ run' \in [Clients -> Nat] /\ mode' \in [Clients -> Modes \cup {""}]
        /\ count' \in [Clients -> Nat]
    BY <1>0 DEF TypeOK
  <2> QED BY <1>0, <2>1, <2>2, <2>3, <2>4, <2>5 DEF TypeOK
<1>2. IdleIsClean'
  BY <1>0 DEF TypeOK, IdleIsClean
<1>3. AloneOrShared'
  BY <1>0 DEF TypeOK, AloneOrShared
<1>4. ASSUME NEW d \in Clients
      PROVE  InPhase(d)'
  <2>1. CASE d = c
    BY <1>0, <2>1 DEF InPhase, TypeOK
  <2>2. CASE d # c
    <3>1. pc'[d] # "idle" => shared[d]
      BY <1>0, <2>2 DEF AloneOrShared, TypeOK
    <3> QED BY <1>0, <3>1 DEF InPhase
  <2> QED BY <2>1, <2>2
<1>5. StoreHoldsOneRun' /\ LogIsDuckDBs'
  <2>1. store'.rows = store.rows \/ store'.rows = {}
    BY DEF NoStore
  <2> QED BY <1>0, <2>1, RunKept DEF LogIsDuckDBs
<1> QED BY <1>1, <1>2, <1>3, <1>4, <1>5

LEMMA Fails ==
  ASSUME IInv, NEW c \in Clients, pc[c] # "idle",
         NEW because \in BOOLEAN, because => shared[c], Fail(c, because)
  PROVE  IInv'
<1> USE DEF IInv
<1>1. /\ Leave(c) /\ UNCHANGED <<store, wal, metrics>>
      /\ refused' = [refused EXCEPT ![c] = because]
  BY DEF Fail
<1>2. OpenCopyIsAlone'
  BY <1>1 DEF OpenCopyIsAlone, Leave, TypeOK, OwnRows
<1>3. refused' \in [Clients -> BOOLEAN] /\ LeftoversHarmless'
  BY <1>1 DEF LeftoversHarmless, Leave, historyVars, TypeOK
<1>4. DOMAIN metrics' = Clients /\ AloneIsHonest'
  BY <1>1 DEF AloneIsHonest, TypeOK
<1> QED BY <1>1, <1>2, <1>3, <1>4, Leaves

\* Of two open copies one is empty: whatever else c does to its rows or the
\* table's, the other's claim on the table stands.
LEMMA CopiesKept ==
  ASSUME IInv, NEW c \in Clients, NEW next, Goto(c, next),
         pending' \in [Clients -> RowSets], pending'[c] = {},
         \A d \in Clients \ {c} : pending'[d] = pending[d],
         \/ store'.rows = store.rows \/ store'.rows = {}
         \/ \A d \in Clients \ {c} : pc[d] = "copying" => pending[d] = {}
  PROVE  OpenCopyIsAlone'
<1> USE DEF IInv
<1>0. pc' = [pc EXCEPT ![c] = next] /\ UNCHANGED <<run, count>>
  BY DEF Goto, optionVars
<1> SUFFICES ASSUME NEW d \in Clients, pending'[d] # {}
             PROVE  /\ pc'[d] \in {"copying", "save"} /\ pending'[d] = OwnRows(d)'
                    /\ pc'[d] = "copying" =>
                         /\ store'.rows = {}
                         /\ \A e \in Clients \ {d} : pc'[e] = "copying" => pending'[e] = {}
  BY DEF OpenCopyIsAlone
<1>1. d # c /\ pending'[d] = pending[d] /\ pc'[d] = pc[d] /\ OwnRows(d)' = OwnRows(d)
  BY <1>0 DEF TypeOK, OwnRows
<1>2. ASSUME pc[d] = "copying", NEW e \in Clients \ {d}, pc'[e] = "copying"
      PROVE  pending'[e] = {}
  BY <1>0, <1>1, <1>2 DEF OpenCopyIsAlone, TypeOK
<1> QED BY <1>1, <1>2 DEF OpenCopyIsAlone

\* A client in no COPY and no index of its own holds no rows.
LEMMA HoldsNothing ==
  ASSUME IInv, NEW c \in Clients, pc[c] \notin {"copying", "save"}
  PROVE  pending[c] = {} /\ pending \in [Clients -> RowSets]
  BY DEF IInv, OpenCopyIsAlone, TypeOK

LEMMA EngineOfStep ==
  ASSUME IInv, NEW c \in Clients
  PROVE  /\ pc[c] \in {"drop", "create", "copy", "copying", "index", "analyze"}
              => engine = "pgvector"
         /\ pc[c] \in {"remove", "remove_wal", "open", "append", "index_file", "checkpoint"}
              => engine = "duckdb"
         /\ pc[c] \in {"build", "save", "load"} => engine = "hnswlib"
         /\ engine # "pgvector" => ~shared[c] /\ \A d \in Clients : pc[d] # "copying"
<1>1. engine \in {"pgvector", "duckdb", "hnswlib"} /\ TypeOK
  BY StepsTyped DEF IInv
<1>2. \A d \in Clients : pc[d] \in StepsOf(engine) \cup {"idle"}
  BY <1>1 DEF TypeOK
<1>3. CASE engine = "pgvector"
  BY <1>2, <1>3 DEF StepsOf
<1>4. CASE engine = "duckdb"
  BY <1>2, <1>4 DEF StepsOf, IInv, AloneOrShared
<1>5. CASE engine = "hnswlib"
  BY <1>2, <1>5 DEF StepsOf, IInv, AloneOrShared
<1> QED BY <1>1, <1>3, <1>4, <1>5

LEMMA StartIInv == ASSUME IInv, NEW c \in Clients, Start(c) PROVE IInv'
<1> USE DEF IInv
<1>0. /\ pc[c] = "idle" /\ pc' = [pc EXCEPT ![c] = FirstStep]
      /\ FirstStep \in StepsOf(engine) /\ FirstStep \in {"drop", "remove", "build"}
      /\ UNCHANGED <<engine, store, wal, pending, queried, over, indexed>>
      /\ refused' = [refused EXCEPT ![c] = FALSE]
      /\ run' = [run EXCEPT ![c] = runs + 1] /\ runs' = runs + 1
      /\ metrics' = [metrics EXCEPT ![c] = NoMetrics]
  BY StepsTyped DEF Start, FirstStep, StepsOf, searchVars
<1>1. PICK m \in Modes, n \in Counts :
        mode' = [mode EXCEPT ![c] = m] /\ count' = [count EXCEPT ![c] = n]
  BY DEF Start
<1>2. n \in Nat /\ n >= K
  BY EngineRunsAssumption
<1>3. shared' = [d \in Clients |-> IF d = c THEN \E e \in Clients \ {c} : pc[e] # "idle"
                                  ELSE shared[d] \/ pc[d] # "idle"]
  BY DEF Start
<1>4. TypeOK'
  <2>1. /\ run' \in [Clients -> Nat] /\ mode' \in [Clients -> Modes \cup {""}]
        /\ count' \in [Clients -> Nat] /\ runs' \in Nat
    <3>0. runs \in Nat
      BY DEF TypeOK
    <3>1. runs + 1 \in Nat
      BY <3>0
    <3>2. run' \in [Clients -> Nat] /\ runs' \in Nat
      BY <1>0, <3>1 DEF TypeOK
    <3>3. mode' \in [Clients -> Modes \cup {""}] /\ count' \in [Clients -> Nat]
      BY <1>1, <1>2 DEF TypeOK
    <3> QED BY <3>2, <3>3
  <2>2. /\ shared' \in [Clients -> BOOLEAN] /\ refused' \in [Clients -> BOOLEAN]
        /\ DOMAIN metrics' = Clients
    BY <1>0, <1>3 DEF TypeOK
  <2>3. pc' \in [Clients -> StepsOf(engine') \cup {"idle"}]
    BY <1>0 DEF TypeOK
  <2> QED BY <1>0, <2>1, <2>2, <2>3 DEF TypeOK
<1>5. IdleIsClean'
  BY <1>0, StepsTyped DEF IdleIsClean, TypeOK
<1>6. AloneOrShared'
  <2>1. ASSUME NEW d \in Clients, NEW e \in Clients, d # e, pc'[d] # "idle", pc'[e] # "idle"
        PROVE  shared'[d]
    BY <1>0, <1>3, <2>1 DEF TypeOK
  <2>2. engine # "pgvector" => \A d \in Clients : ~shared'[d]
    BY <1>3 DEF Start, AloneOrShared
  <2> QED BY <1>0, <2>1, <2>2 DEF AloneOrShared
<1>7. OpenCopyIsAlone'
  <2>1. pending[c] = {}
    BY <1>0 DEF IdleIsClean
  <2>2. ASSUME NEW d \in Clients, d # c
        PROVE  pc'[d] = pc[d] /\ OwnRows(d)' = OwnRows(d)
    BY <1>0, <1>1, <2>2 DEF TypeOK, OwnRows
  <2>3. \A d \in Clients : pc'[d] = "copying" => pc[d] = "copying"
    BY <1>0, <2>2 DEF TypeOK
  <2> QED BY <1>0, <2>1, <2>2, <2>3 DEF OpenCopyIsAlone
<1>8. ASSUME NEW d \in Clients
      PROVE  InPhase(d)'
  <2>1. CASE d = c
    <3>1. pc'[c] \in {"drop", "remove", "build"} /\ count'[c] >= K
      BY <1>0, <1>1, <1>2 DEF TypeOK
    <3>2. Expects(c, pc[c], store, wal, pending[c])'
      BY <3>1 DEF Expects
    <3>3. over'[c] = {} /\ indexed'[c] = {} /\ queried'[c] = 0
      BY <1>0 DEF IdleIsClean
    <3> QED BY <2>1, <3>1, <3>2, <3>3 DEF InPhase
  <2>2. CASE d # c
    <3>1. pc'[d] # "idle" => shared'[d]
      BY <1>0, <1>3, <2>2 DEF TypeOK
    <3> QED BY <3>1 DEF InPhase
  <2> QED BY <2>1, <2>2
<1>9. StoreHoldsOneRun' /\ LogIsDuckDBs'
  BY <1>0, RunKept DEF LogIsDuckDBs
<1>10. AloneIsHonest'
  BY <1>0 DEF AloneIsHonest, NoMetrics, TypeOK
<1>11. LeftoversHarmless'
  BY <1>0, <1>3 DEF LeftoversHarmless, TypeOK
<1> QED BY <1>4, <1>5, <1>6, <1>7, <1>8, <1>9, <1>10, <1>11
(***************************************************************************)
(* pgvector.                                                               *)
(***************************************************************************)
LEMMA DropTableIInv == ASSUME IInv, NEW c \in Clients, DropTable(c) PROVE IInv'
<1>0. /\ Goto(c, "create") /\ pc[c] = "drop" /\ store' = NoStore
      /\ UNCHANGED <<wal, pending>>
  BY DEF DropTable
<1>1. store'.rows = {}
  BY <1>0 DEF NoStore
<1>2. "create" \in StepsOf(engine)
  BY <1>0, EngineOfStep DEF StepsOf
<1>3. OpenCopyIsAlone'
  BY <1>0, <1>1, HoldsNothing, CopiesKept
<1>4. Expects(c, "create", store', wal', pending'[c])
  BY <1>0 DEF Expects
<1>5. StoreHoldsOneRun'
  BY <1>0, <1>1, RunKept DEF IInv, Goto, optionVars
<1>6. store' \in Stores /\ wal' \in Stores /\ pending' \in [Clients -> RowSets]
  BY <1>0, EmptyTyped DEF IInv, TypeOK
<1> QED BY <1>0, <1>2, <1>3, <1>4, <1>5, <1>6, GoesOn

LEMMA CreateTableIInv == ASSUME IInv, NEW c \in Clients, CreateTable(c) PROVE IInv'
<1>1. CASE store.made /\ Fail(c, TRUE)
  <2>1. pc[c] = "create" /\ store # NoStore
    BY <1>1 DEF CreateTable, NoStore
  <2>2. shared[c]
    BY <2>1 DEF IInv, InPhase, Expects
  <2> QED BY <1>1, <2>1, <2>2, Fails
<1>2. CASE ~(store.made /\ Fail(c, TRUE))
  <2>0. /\ Goto(c, "copy") /\ pc[c] = "create" /\ store' = [NoStore EXCEPT !.made = TRUE]
        /\ UNCHANGED <<wal, pending>>
    BY <1>2 DEF CreateTable
  <2>1. store'.rows = {}
    BY <2>0 DEF NoStore
  <2>2. "copy" \in StepsOf(engine)
    BY <2>0, EngineOfStep DEF StepsOf
  <2>3. OpenCopyIsAlone'
    BY <2>0, <2>1, HoldsNothing, CopiesKept
  <2>4. Expects(c, "copy", store', wal', pending'[c])
    BY <2>0 DEF Expects
  <2>5. StoreHoldsOneRun'
    BY <2>0, <2>1, RunKept DEF IInv, Goto, optionVars
  <2>6. store' \in Stores /\ wal' \in Stores /\ pending' \in [Clients -> RowSets]
    BY <2>0, EmptyTyped DEF IInv, TypeOK
  <2> QED BY <2>0, <2>2, <2>3, <2>4, <2>5, <2>6, GoesOn
<1> QED BY <1>1, <1>2

\* The steps that leave the store and the client's own rows as they are.
LEMMA LooksOn ==
  ASSUME IInv, NEW c \in Clients, pc[c] \notin {"idle", "copying", "save"},
         NEW next \in StepsOf(engine), Goto(c, next), UNCHANGED <<store, wal, pending>>,
         ~shared[c] => Expects(c, next, store, wal, pending[c])
  PROVE  IInv'
<1>1. OpenCopyIsAlone'
  BY HoldsNothing, CopiesKept
<1>2. StoreHoldsOneRun' /\ store' \in Stores /\ wal' \in Stores
      /\ pending' \in [Clients -> RowSets]
  BY RunKept DEF IInv, Goto, optionVars, TypeOK
<1> QED BY <1>1, <1>2, GoesOn

LEMMA StartCopyIInv == ASSUME IInv, NEW c \in Clients, StartCopy(c) PROVE IInv'
<1>1. CASE ~store.made /\ Fail(c, TRUE)
  BY <1>1, Fails DEF StartCopy, IInv, InPhase, Expects, NoStore
<1>2. CASE ~(~store.made /\ Fail(c, TRUE))
  <2>0. Goto(c, "copying") /\ pc[c] = "copy" /\ UNCHANGED <<store, wal, pending>>
    BY <1>2 DEF StartCopy
  <2>1. "copying" \in StepsOf(engine)
    BY <2>0, EngineOfStep DEF StepsOf
  <2>2. ~shared[c] => Expects(c, "copying", store, wal, pending[c])
    BY <2>0 DEF IInv, InPhase, Expects
  <2> QED BY <2>0, <2>1, <2>2, LooksOn
<1> QED BY <1>1, <1>2

\* The primary key lets one COPY at a time have rows, and only into an empty table.
LEMMA CopyRowsIInv == ASSUME IInv, NEW c \in Clients, CopyRows(c) PROVE IInv'
<1> USE DEF IInv
<1>1. CASE store.rows # {} /\ Fail(c, TRUE)
  BY <1>1, Fails DEF CopyRows, InPhase, Expects, NoStore
<1>2. CASE ~(store.rows # {} /\ Fail(c, TRUE))
  <2>0. /\ Goto(c, "copying") /\ pc[c] = "copying" /\ UNCHANGED <<store, wal>>
        /\ pending' = [pending EXCEPT ![c] = OwnRows(c)] /\ store.rows = {}
        /\ \A d \in Clients : pc[d] = "copying" => pending[d] = {}
    BY <1>2 DEF CopyRows
  <2>1. pc' = pc /\ UNCHANGED <<run, count, mode, engine, shared, queried, over, indexed>>
    BY <2>0 DEF Goto, TypeOK, optionVars, searchVars, historyVars
  <2>2. "copying" \in StepsOf(engine)
    BY <2>0 DEF TypeOK
  <2>3. OpenCopyIsAlone'
    <3>1. OwnRows(c)' = OwnRows(c) /\ pending'[c] = OwnRows(c)
      BY <2>0, <2>1 DEF OwnRows, TypeOK
    <3>2. \A d \in Clients \ {c} : pending'[d] = pending[d] /\ OwnRows(d)' = OwnRows(d)
      BY <2>0, <2>1 DEF OwnRows, TypeOK
    <3>3. \A d \in Clients \ {c} : pending[d] # {} =>
            pc[d] = "save" /\ pending[d] = OwnRows(d)
      BY <2>0 DEF OpenCopyIsAlone
    <3> HIDE DEF IInv
    <3> QED BY <2>0, <2>1, <3>1, <3>2, <3>3 DEF OpenCopyIsAlone
  <2>4. ~shared[c] => Expects(c, "copying", store', wal', pending'[c])
    BY <2>0 DEF InPhase, Expects
  <2>5. StoreHoldsOneRun' /\ store' \in Stores /\ wal' \in Stores
        /\ pending' \in [Clients -> RowSets]
    BY <2>0, RowsTyped, RunKept DEF Goto, optionVars, TypeOK
  <2> QED BY <2>0, <2>2, <2>3, <2>4, <2>5, GoesOn
<1> QED BY <1>1, <1>2

LEMMA EndCopyIInv == ASSUME IInv, NEW c \in Clients, EndCopy(c) PROVE IInv'
<1> USE DEF IInv
<1>0. /\ Goto(c, "index") /\ pc[c] = "copying" /\ pending[c] # {}
      /\ store' = [store EXCEPT !.rows = @ \cup pending[c]]
      /\ pending' = [pending EXCEPT ![c] = {}] /\ UNCHANGED wal
  BY DEF EndCopy
<1>1. /\ pending[c] = OwnRows(c) /\ store.rows = {}
      /\ \A d \in Clients \ {c} : pc[d] = "copying" => pending[d] = {}
  BY <1>0 DEF OpenCopyIsAlone
<1>2. "index" \in StepsOf(engine)
  BY <1>0, EngineOfStep DEF StepsOf
<1>3. store' \in Stores /\ store'.rows = OwnRows(c) /\ wal' \in Stores
  <2>1. store \in Stores /\ wal \in Stores
    BY DEF TypeOK
  <2>2. OwnRows(c) \in RowSets /\ store' = [store EXCEPT !.rows = OwnRows(c)]
    BY <1>0, <1>1, RowsTyped
  <2> HIDE DEF IInv
  <2> QED BY <1>0, <2>1, <2>2 DEF Stores
<1>4. pending' \in [Clients -> RowSets] /\ pending'[c] = {}
  BY <1>0, EmptyTyped DEF TypeOK
<1>5. OpenCopyIsAlone'
  BY <1>0, <1>1, <1>4, CopiesKept
<1>6. ~shared[c] => Expects(c, "index", store', wal', pending'[c])
  BY <1>0, <1>1 DEF InPhase, Expects, Filled, NoStore
<1>7. StoreHoldsOneRun'
  <2>1. engine' = engine /\ engine = "pgvector"
    BY <1>0, EngineOfStep DEF Goto, optionVars
  <2> QED BY <1>0, <1>3, <2>1, RowsOfOneRun DEF LogIsDuckDBs
<1> QED BY <1>0, <1>2, <1>3, <1>4, <1>5, <1>6, <1>7, GoesOn

\* A step that changes the file or the log, but not its rows.
LEMMA RowsStay ==
  ASSUME IInv, NEW c \in Clients, pc[c] \notin {"idle", "copying", "save"},
         NEW next \in StepsOf(engine), Goto(c, next), UNCHANGED pending,
         store' \in Stores, wal' \in Stores,
         store'.rows \in {{}, store.rows}, wal'.rows \in {{}, wal.rows},
         wal' = wal \/ engine = "duckdb",
         ~shared[c] => Expects(c, next, store', wal', pending'[c])
  PROVE  IInv'
<1>1. OpenCopyIsAlone'
  BY HoldsNothing, CopiesKept, EngineOfStep
<1>2. StoreHoldsOneRun'
  BY RunKept DEF IInv, Goto, optionVars
<1>3. pending' \in [Clients -> RowSets]
  BY DEF IInv, TypeOK
<1> QED BY <1>1, <1>2, <1>3, GoesOn

LEMMA StoresTyped ==
  ASSUME IInv
  PROVE  /\ store \in Stores /\ wal \in Stores
         /\ [store EXCEPT !.index = TRUE] \in Stores
         /\ [wal EXCEPT !.index = TRUE] \in Stores
  BY DEF IInv, TypeOK, Stores

LEMMA Found ==
  ASSUME IInv, NEW c \in Clients, pc[c] # "idle", ~shared[c]
  PROVE  Expects(c, pc[c], store, wal, pending[c])
  BY DEF IInv, InPhase

LEMMA CreateIndexIInv == ASSUME IInv, NEW c \in Clients, CreateIndex(c) PROVE IInv'
<1>0. pc[c] = "index" /\ "analyze" \in StepsOf(engine) /\ engine = "pgvector"
  BY EngineOfStep DEF CreateIndex, StepsOf
<1>1. CASE Fail(c, TRUE) /\ (~store.made \/ store.index)
  <2>1. store # Filled(c, FALSE)
    BY <1>1 DEF Filled
  <2>2. shared[c]
    BY <1>0, <2>1, Found DEF Expects
  <2> QED BY <1>0, <1>1, <2>2, Fails
<1>2. CASE /\ mode[c] = "hnsw" /\ store' = [store EXCEPT !.index = TRUE]
           /\ Goto(c, "analyze") /\ UNCHANGED <<wal, pending>>
  <2>1. store' \in Stores /\ wal' \in Stores /\ store'.rows = store.rows
    BY <1>2, StoresTyped DEF Stores
  <2>2. ASSUME ~shared[c]
        PROVE  Expects(c, "analyze", store', wal', pending'[c])
    <3>1. store = Filled(c, FALSE)
      BY <1>0, <2>2, Found DEF Expects
    <3>2. store' = Filled(c, TRUE)
      BY <1>2, <3>1 DEF Filled
    <3>3. (ModeOf(c) = "hnsw") = TRUE
      BY <1>0, <1>2 DEF ModeOf
    <3> QED BY <3>2, <3>3 DEF Expects
  <2> QED BY <1>0, <1>2, <2>1, <2>2, RowsStay
<1>3. CASE mode[c] = "flat" /\ Goto(c, "analyze") /\ UNCHANGED <<store, wal, pending>>
  <2>1. ASSUME ~shared[c]
        PROVE  Expects(c, "analyze", store, wal, pending[c])
    <3>1. store = Filled(c, FALSE)
      BY <1>0, <2>1, Found DEF Expects
    <3>2. (ModeOf(c) = "hnsw") = FALSE
      BY <1>0, <1>3 DEF ModeOf
    <3> QED BY <3>1, <3>2 DEF Expects
  <2> QED BY <1>0, <1>3, <2>1, LooksOn
<1>4. CASE Fail(c, FALSE)
  BY <1>0, <1>4, Fails
<1> QED BY <1>1, <1>2, <1>3, <1>4 DEF CreateIndex

LEMMA AnalyzeIInv == ASSUME IInv, NEW c \in Clients, Analyze(c) PROVE IInv'
<1>0. pc[c] = "analyze" /\ "plan" \in StepsOf(engine)
  BY EngineOfStep DEF Analyze, StepsOf
<1>1. CASE ~store.made /\ Fail(c, TRUE)
  <2>1. store # Filled(c, ModeOf(c) = "hnsw")
    BY <1>1 DEF Filled
  <2>2. shared[c]
    BY <1>0, <2>1, Found DEF Expects
  <2> QED BY <1>0, <1>1, <2>2, Fails
<1>2. CASE Goto(c, "plan") /\ UNCHANGED <<store, wal, pending>>
  <2>1. ~shared[c] => Expects(c, "plan", store, wal, pending[c])
    BY <1>0 DEF IInv, InPhase, Expects
  <2> QED BY <1>0, <1>2, <2>1, LooksOn
<1> QED BY <1>1, <1>2 DEF Analyze

LEMMA CheckPlanIInv == ASSUME IInv, NEW c \in Clients, CheckPlan(c) PROVE IInv'
<1>0. pc[c] = "plan" /\ "query" \in StepsOf(engine)
  BY StepsTyped DEF CheckPlan, StepsOf, IInv
<1>1. CASE Fail(c, TRUE) /\ ModeOf(c) = "hnsw" /\ ~store.index
  <2>0. Filled(c, ModeOf(c) = "hnsw").index = TRUE
    BY <1>1 DEF Filled
  <2>1. store # Filled(c, ModeOf(c) = "hnsw")
    BY <1>1, <2>0
  <2>2. shared[c]
    BY <1>0, <2>1, Found DEF Expects
  <2> QED BY <1>0, <1>1, <2>2, Fails
<1>2. CASE Fail(c, FALSE)
  BY <1>0, <1>2, Fails
<1>3. CASE Goto(c, "query") /\ UNCHANGED <<store, wal, pending>>
  <2>1. ~shared[c] => Expects(c, "query", store, wal, pending[c])
    BY <1>0 DEF IInv, InPhase, Expects
  <2> QED BY <1>0, <1>3, <2>1, LooksOn
<1> QED BY <1>1, <1>2, <1>3 DEF CheckPlan

(***************************************************************************)
(* DuckDB.                                                                 *)
(***************************************************************************)
LEMMA RemoveFileIInv == ASSUME IInv, NEW c \in Clients, RemoveFile(c) PROVE IInv'
<1>0. /\ pc[c] = "remove" /\ store' = NoStore /\ Goto(c, "remove_wal")
      /\ UNCHANGED <<wal, pending>> /\ "remove_wal" \in StepsOf(engine)
  BY EngineOfStep DEF RemoveFile, StepsOf
<1>1. store' \in Stores /\ wal' \in Stores /\ store'.rows = {}
  BY <1>0, StoresTyped, EmptyTyped DEF NoStore
<1>2. Expects(c, "remove_wal", store', wal', pending'[c])
  BY <1>0 DEF Expects
<1> QED BY <1>0, <1>1, <1>2, RowsStay

LEMMA RemoveLogIInv == ASSUME IInv, NEW c \in Clients, RemoveLog(c) PROVE IInv'
<1>0. /\ pc[c] = "remove_wal" /\ wal' = NoStore /\ Goto(c, "open")
      /\ UNCHANGED <<store, pending>> /\ "open" \in StepsOf(engine) /\ engine = "duckdb"
  BY EngineOfStep DEF RemoveLog, StepsOf
<1>1. store' \in Stores /\ wal' \in Stores /\ wal'.rows = {}
  BY <1>0, StoresTyped, EmptyTyped DEF NoStore
<1>2. ~shared[c] => Expects(c, "open", store', wal', pending'[c])
  BY <1>0 DEF IInv, InPhase, Expects
<1> QED BY <1>0, <1>1, <1>2, RowsStay

LEMMA OpenAndCreateIInv == ASSUME IInv, NEW c \in Clients, OpenAndCreate(c) PROVE IInv'
<1>0. pc[c] = "open" /\ "append" \in StepsOf(engine) /\ engine = "duckdb" /\ ~shared[c]
  BY EngineOfStep DEF OpenAndCreate, StepsOf
<1>1. CASE (store.made \/ wal.made) /\ Fail(c, TRUE)
  <2>1. store # NoStore \/ wal # NoStore
    BY <1>1 DEF NoStore
  <2>2. shared[c]
    BY <1>0, <2>1 DEF IInv, InPhase, Expects
  <2> QED BY <1>0, <1>1, <2>2, Fails
<1>2. CASE /\ wal' = [NoStore EXCEPT !.made = TRUE] /\ Goto(c, "append")
           /\ UNCHANGED <<store, pending>>
  <2>1. store' \in Stores /\ wal' \in Stores /\ wal'.rows = {}
    BY <1>2, StoresTyped, EmptyTyped DEF NoStore
  <2>2. store = NoStore /\ count[c] >= K /\ count[c] \in Nat
    BY <1>0 DEF IInv, InPhase, Expects, TypeOK
  <2>3. 0 \in 0 .. count[c] - 1
    BY <2>2, EngineRunsAssumption
  <2>4. FirstRows(run[c], count[c], 0) = {}
    BY DEF FirstRows
  <2>5. Merge(store', wal') =
          [made |-> TRUE, rows |-> FirstRows(run[c], count[c], 0), index |-> FALSE]
    BY <1>2, <2>2, <2>4 DEF Merge, NoStore
  <2>6. Expects(c, "append", store', wal', pending'[c])
    BY <2>3, <2>5 DEF Expects
  <2> QED BY <1>0, <1>2, <2>1, <2>6, RowsStay
<1> QED BY <1>1, <1>2 DEF OpenAndCreate

LEMMA AppendRowsIInv == ASSUME IInv, NEW c \in Clients, AppendRows(c) PROVE IInv'
<1> DEFINE first(n) == FirstRows(run[c], count[c], n)
           filled(n) == [made |-> TRUE, rows |-> first(n), index |-> FALSE]
<1>0. PICK n \in 1 .. count[c] :
        /\ ~(first(n) \subseteq store.rows \cup wal.rows)
        /\ wal' = [wal EXCEPT !.rows = @ \cup (first(n) \ store.rows)]
        /\ Goto(c, IF n = count[c] THEN "index_file" ELSE "append")
  BY DEF AppendRows
<1>1. /\ pc[c] = "append" /\ UNCHANGED <<store, pending>>
      /\ {"append", "index_file"} \subseteq StepsOf(engine) /\ engine = "duckdb" /\ ~shared[c]
  BY EngineOfStep DEF AppendRows, StepsOf
<1>2. PICK k \in 0 .. count[c] - 1 : Merge(store, wal) = filled(k)
  BY <1>1, Found DEF Expects
<1>3. /\ (store.made \/ wal.made) = TRUE /\ (store.index \/ wal.index) = FALSE
      /\ store.rows \cup wal.rows = first(k)
  BY <1>2 DEF Merge, Filled
<1>4. count[c] \in Nat /\ n \in 0 .. count[c]
  <2>1. count[c] \in Nat
    BY DEF IInv, TypeOK
  <2> QED BY <2>1
<1>5. first(k) \subseteq first(n)
  <2>1. ~(n <= k)
    BY <1>0, <1>3, <1>4 DEF FirstRows
  <2> QED BY <1>4, <2>1 DEF FirstRows
<1>6. /\ wal' \in Stores /\ store' \in Stores /\ store'.rows = store.rows
      /\ wal'.rows = wal.rows \cup (first(n) \ store.rows)
      /\ wal'.made = wal.made /\ wal'.index = wal.index
  <2>1. first(n) \in RowSets
    BY <1>4, FirstRowsTyped DEF IInv
  <2>2. wal.rows \cup (first(n) \ store.rows) \in RowSets
    BY <2>1, StoresTyped DEF Stores, RowSets
  <2> HIDE DEF first
  <2> QED BY <1>0, <1>1, <2>2, StoresTyped DEF Stores
<1>7. store'.rows \cup wal'.rows = first(n)
  BY <1>3, <1>5, <1>6
<1>8. Merge(store', wal') = filled(n)
  <2>1. (store'.made \/ wal'.made) = TRUE /\ (store'.index \/ wal'.index) = FALSE
    BY <1>1, <1>3, <1>6
  <2> HIDE DEF first
  <2> QED BY <1>7, <2>1 DEF Merge
<1>9. StoreHoldsOneRun'
  <2>1. engine' = "duckdb"
    BY <1>0, <1>1 DEF Goto, optionVars
  <2>2. IsBeginning(store'.rows, engine' # "duckdb")
    BY <1>1, <2>1 DEF IInv, StoreHoldsOneRun
  <2> HIDE DEF first
  <2> QED BY <1>4, <1>7, <2>1, <2>2, OneRun DEF first
<1>10. OpenCopyIsAlone' /\ pending' \in [Clients -> RowSets]
  BY <1>0, <1>1, HoldsNothing, CopiesKept
<1>11. CASE n = count[c]
  <2>1. first(n) = OwnRows(c)
    BY <1>11 DEF OwnRows, RowsOf
  <2>2. filled(n) = Filled(c, FALSE)
    BY <2>1 DEF Filled
  <2>3. Expects(c, "index_file", store', wal', pending'[c])
    BY <1>8, <2>2 DEF Expects
  <2> QED BY <1>0, <1>1, <1>6, <1>9, <1>10, <1>11, <2>3, GoesOn
<1>12. CASE n # count[c]
  <2>1. n \in 0 .. count[c] - 1
    BY <1>4, <1>12
  <2>2. Expects(c, "append", store', wal', pending'[c])
    BY <1>8, <2>1 DEF Expects
  <2> QED BY <1>0, <1>1, <1>6, <1>9, <1>10, <1>12, <2>2, GoesOn
<1> QED BY <1>11, <1>12

LEMMA IndexFileIInv == ASSUME IInv, NEW c \in Clients, IndexFile(c) PROVE IInv'
<1>0. /\ pc[c] = "index_file" /\ Goto(c, "checkpoint") /\ UNCHANGED <<store, pending>>
      /\ wal' = [wal EXCEPT !.index = TRUE] /\ "checkpoint" \in StepsOf(engine)
      /\ engine = "duckdb" /\ ~shared[c]
  BY EngineOfStep DEF IndexFile, StepsOf
<1>1. /\ store' \in Stores /\ wal' \in Stores /\ wal'.rows = wal.rows /\ wal'.made = wal.made
      /\ wal'.index = TRUE
  BY <1>0, StoresTyped DEF Stores
<1>2. Merge(store, wal) = Filled(c, FALSE)
  BY <1>0, Found DEF Expects
<1>3. Merge(store', wal') = Filled(c, TRUE)
  BY <1>0, <1>1, <1>2 DEF Merge, Filled
<1>4. Expects(c, "checkpoint", store', wal', pending'[c])
  BY <1>3 DEF Expects
<1> QED BY <1>0, <1>1, <1>4, RowsStay

\* What the log and the file hold together does not change.
LEMMA MergeIInv ==
  ASSUME IInv, NEW c \in Clients, pc[c] \in {"append", "index_file", "checkpoint"},
         NEW next \in StepsOf(engine), Goto(c, next),
         store' = Merge(store, wal), wal' = NoStore, UNCHANGED pending,
         Expects(c, next, store', wal', pending'[c])
  PROVE  IInv'
<1>1. engine = "duckdb" /\ engine' = "duckdb" /\ ~shared[c]
  BY EngineOfStep DEF Goto, optionVars
<1>2. store' \in Stores /\ wal' \in Stores
  BY StoresTyped, EmptyTyped DEF Merge, Stores, RowSets
<1>3. count[c] \in Nat
  BY DEF IInv, TypeOK
<1>4. PICK k \in 0 .. count[c] : store'.rows = FirstRows(run[c], count[c], k)
  <2>1. CASE pc[c] = "append"
    <3>1. PICK k \in 0 .. count[c] - 1 :
            Merge(store, wal) =
              [made |-> TRUE, rows |-> FirstRows(run[c], count[c], k), index |-> FALSE]
      BY <1>1, <2>1, Found DEF Expects
    <3>2. k \in 0 .. count[c] /\ store'.rows = FirstRows(run[c], count[c], k)
      BY <1>3, <3>1
    <3> QED BY <3>2
  <2>2. CASE pc[c] \in {"index_file", "checkpoint"}
    <3>1. store'.rows = OwnRows(c)
      BY <1>1, <2>2, Found DEF Expects, Filled
    <3>2. count[c] \in 0 .. count[c]
      BY <1>3
    <3> QED BY <3>1, <3>2 DEF OwnRows, RowsOf
  <2> QED BY <2>1, <2>2
<1>5. StoreHoldsOneRun'
  <2>1. store'.rows \cup wal'.rows = store'.rows
    BY DEF NoStore
  <2>2. IsBeginning(store'.rows, engine' # "duckdb")
    BY <1>1, <1>3, <1>4, Beginning
  <2> QED BY <1>1, <1>3, <1>4, <2>1, <2>2, OneRun
<1>6. OpenCopyIsAlone' /\ pending' \in [Clients -> RowSets]
  BY <1>1, HoldsNothing, CopiesKept, EngineOfStep
<1> QED BY <1>1, <1>2, <1>5, <1>6, GoesOn

LEMMA AutoCheckpointIInv == ASSUME IInv, NEW c \in Clients, AutoCheckpoint(c) PROVE IInv'
<1>0. /\ pc[c] \in {"append", "index_file", "checkpoint"} /\ Goto(c, pc[c])
      /\ store' = Merge(store, wal) /\ wal' = NoStore /\ UNCHANGED pending
      /\ ~shared[c] /\ pc[c] \in StepsOf(engine)
  BY EngineOfStep DEF AutoCheckpoint, StepsOf
<1>1. Merge(store', wal') = Merge(store, wal)
  <2>1. store.made \in BOOLEAN /\ wal.made \in BOOLEAN /\ store.index \in BOOLEAN /\ wal.index \in BOOLEAN
    BY StoresTyped DEF Stores
  <2> QED BY <1>0, <2>1 DEF Merge, NoStore
<1>2. Expects(c, pc[c], store', wal', pending'[c])
  BY <1>0, <1>1, Found DEF Expects
<1> QED BY <1>0, <1>2, MergeIInv

LEMMA CheckpointIInv == ASSUME IInv, NEW c \in Clients, Checkpoint(c) PROVE IInv'
<1>0. /\ pc[c] = "checkpoint" /\ store' = Merge(store, wal) /\ wal' = NoStore /\ Goto(c, "plan")
      /\ UNCHANGED pending /\ "plan" \in StepsOf(engine) /\ engine = "duckdb" /\ ~shared[c]
  BY EngineOfStep DEF Checkpoint, StepsOf
<1>1. store' = Filled(c, TRUE) /\ (ModeOf(c) = "hnsw") = TRUE
  BY <1>0, Found DEF Expects, ModeOf
<1>2. Expects(c, "plan", store', wal', pending'[c])
  BY <1>1 DEF Expects
<1> QED BY <1>0, <1>2, MergeIInv

(***************************************************************************)
(* hnswlib.                                                                *)
(***************************************************************************)
LEMMA BuildInMemoryIInv == ASSUME IInv, NEW c \in Clients, BuildInMemory(c) PROVE IInv'
<1> USE DEF IInv
<1>0. /\ pc[c] = "build" /\ Goto(c, "save") /\ UNCHANGED <<store, wal>>
      /\ pending' = [pending EXCEPT ![c] = OwnRows(c)]
      /\ "save" \in StepsOf(engine) /\ engine = "hnswlib"
  BY EngineOfStep DEF BuildInMemory, StepsOf
<1>1. pc' = [pc EXCEPT ![c] = "save"] /\ UNCHANGED <<run, count>>
  BY <1>0 DEF Goto, optionVars
<1>2. \A d \in Clients \ {c} : pending[d] = {}
  BY <1>0, EngineOfStep DEF AloneOrShared, IdleIsClean
<1>3. pending' \in [Clients -> RowSets] /\ pending'[c] = OwnRows(c)
  BY <1>0, RowsTyped DEF TypeOK
<1>4. OpenCopyIsAlone'
  BY <1>0, <1>1, <1>2, <1>3 DEF OpenCopyIsAlone, OwnRows, TypeOK
<1>5. Expects(c, "save", store', wal', pending'[c])
  BY <1>3 DEF Expects
<1>6. StoreHoldsOneRun' /\ store' \in Stores /\ wal' \in Stores
  BY <1>0, RunKept DEF Goto, optionVars, TypeOK
<1> QED BY <1>0, <1>3, <1>4, <1>5, <1>6, GoesOn

LEMMA SaveIndexIInv == ASSUME IInv, NEW c \in Clients, SaveIndex(c) PROVE IInv'
<1> USE DEF IInv
<1>0. /\ pc[c] = "save" /\ Goto(c, "load") /\ UNCHANGED wal
      /\ store' = [made |-> TRUE, rows |-> pending[c], index |-> TRUE]
      /\ pending' = [pending EXCEPT ![c] = {}]
      /\ "load" \in StepsOf(engine) /\ engine = "hnswlib"
  BY EngineOfStep DEF SaveIndex, StepsOf
<1>1. pending[c] = OwnRows(c)
  BY <1>0, Found, EngineOfStep DEF Expects
<1>2. store' = Filled(c, TRUE)
  BY <1>0, <1>1 DEF Filled
<1>3. store' \in Stores /\ wal' \in Stores /\ store'.rows = OwnRows(c)
  BY <1>0, <1>2, FilledTyped, StoresTyped
<1>4. pending' \in [Clients -> RowSets] /\ pending'[c] = {}
  BY <1>0, EmptyTyped DEF TypeOK
<1>5. OpenCopyIsAlone'
  BY <1>0, <1>4, CopiesKept, EngineOfStep
<1>6. Expects(c, "load", store', wal', pending'[c])
  BY <1>2 DEF Expects
<1>7. StoreHoldsOneRun'
  <2>1. engine' = engine
    BY <1>0 DEF Goto, optionVars
  <2> QED BY <1>0, <1>3, <2>1, RowsOfOneRun DEF LogIsDuckDBs
<1> QED BY <1>0, <1>3, <1>4, <1>5, <1>6, <1>7, GoesOn

LEMMA LoadIndexIInv == ASSUME IInv, NEW c \in Clients, LoadIndex(c) PROVE IInv'
<1>0. pc[c] = "load" /\ "query" \in StepsOf(engine) /\ engine = "hnswlib"
  BY EngineOfStep DEF LoadIndex, StepsOf
<1>1. store = Filled(c, TRUE)
  BY <1>0, Found, EngineOfStep DEF Expects
<1>2. Goto(c, "query") /\ UNCHANGED <<store, wal, pending>>
  BY <1>1 DEF LoadIndex, Filled
<1>3. (ModeOf(c) = "hnsw") = TRUE
  BY <1>0 DEF ModeOf
<1>4. Expects(c, "query", store, wal, pending[c])
  BY <1>1, <1>3 DEF Expects
<1> QED BY <1>0, <1>2, <1>4, LooksOn

(***************************************************************************)
(* Queries, metrics and the end of a run.                                  *)
(***************************************************************************)
LEMMA QueryIInv == ASSUME IInv, NEW c \in Clients, Query(c) PROVE IInv'
<1> USE DEF IInv
<1>0. pc[c] = "query" /\ queried[c] < NumQueries
  BY DEF Query
<1>1. ~shared[c] => store = Filled(c, ModeOf(c) = "hnsw")
  BY <1>0, Found DEF Expects
<1>2. CASE Cardinality(store.rows) < K /\ Fail(c, TRUE)
  <2>1. ASSUME ~shared[c]
        PROVE  FALSE
    <3>1. store.rows = RowsOf(run[c], count[c])
      BY <1>1, <2>1 DEF Filled, OwnRows
    <3>2. run[c] \in Nat /\ count[c] \in Nat
      BY DEF TypeOK
    <3>3. Cardinality(store.rows) = count[c]
      BY <3>1, <3>2, RowsOfCount
    <3>4. count[c] >= K
      BY <1>0, <2>1 DEF InPhase
    <3> QED BY <1>2, <3>2, <3>3, <3>4, EngineRunsAssumption
  <2> QED BY <1>0, <1>2, <2>1, Fails
<1>3. CASE Fail(c, FALSE)
  BY <1>0, <1>3, Fails
<1>4. CASE /\ queried' = [queried EXCEPT ![c] = @ + 1]
           /\ over' = [over EXCEPT ![c] = @ \cup {store.rows}]
           /\ indexed' = [indexed EXCEPT ![c] = @ \cup {store.index}]
           /\ UNCHANGED <<store, wal, pc, pending, optionVars, historyVars, refused, metrics>>
  <2>0. /\ UNCHANGED <<store, wal, pc, pending, refused, metrics, shared, runs>>
        /\ UNCHANGED <<engine, run, mode, count>>
    BY <1>4 DEF optionVars, historyVars
  <2>1. queried[c] + 1 \in 0 .. NumQueries /\ queried[c] \in Nat
    <3>1. queried[c] \in 0 .. NumQueries
      BY DEF TypeOK
    <3> HIDE DEF IInv
    <3> QED BY <1>0, <3>1, EngineRunsAssumption
  <2>2. store.rows \in RowSets /\ store.index \in BOOLEAN
    BY DEF TypeOK, Stores
  <2>3. TypeOK'
    <3>1. queried' \in [Clients -> 0 .. NumQueries]
      BY <1>4, <2>1 DEF TypeOK
    <3>2. over' \in [Clients -> SUBSET RowSets] /\ indexed' \in [Clients -> SUBSET BOOLEAN]
      BY <1>4, <2>2 DEF TypeOK
    <3> QED BY <2>0, <3>1, <3>2 DEF TypeOK
  <2>4. IdleIsClean'
    BY <1>0, <1>4, <2>0 DEF IdleIsClean
  <2>5. AloneOrShared' /\ OpenCopyIsAlone'
    BY <2>0 DEF AloneOrShared, OpenCopyIsAlone, OwnRows
  <2>6. ASSUME NEW d \in Clients
        PROVE  InPhase(d)'
    <3>0. OwnRows(d)' = OwnRows(d) /\ ModeOf(d)' = ModeOf(d)
          /\ Expects(d, pc[d], store, wal, pending[d])' = Expects(d, pc[d], store, wal, pending[d])
      BY <2>0 DEF OwnRows, ModeOf, Expects, Filled
    <3>1. CASE d = c
      <4>0. /\ queried'[c] = queried[c] + 1 /\ over'[c] = over[c] \cup {store.rows}
            /\ indexed'[c] = indexed[c] \cup {store.index}
        BY <1>4 DEF TypeOK
      <4>1. queried'[c] # 0
        BY <2>1, <4>0
      <4>2. ASSUME ~shared[c]
            PROVE  over'[c] = {OwnRows(c)} /\ indexed'[c] = {ModeOf(c) = "hnsw"}
        <5>1. store.rows = OwnRows(c) /\ store.index = (ModeOf(c) = "hnsw")
          BY <1>1, <4>2 DEF Filled
        <5>2. over[c] \subseteq {OwnRows(c)} /\ indexed[c] \subseteq {ModeOf(c) = "hnsw"}
          BY <1>0, <4>2 DEF InPhase
        <5> QED BY <4>0, <5>1, <5>2
      <4> QED BY <2>0, <3>0, <3>1, <4>0, <4>1, <4>2 DEF InPhase
    <3>2. CASE d # c
      BY <1>4, <2>0, <3>0, <3>2 DEF InPhase, TypeOK
    <3> QED BY <3>1, <3>2
  <2>7. StoreHoldsOneRun' /\ AloneIsHonest' /\ LeftoversHarmless' /\ LogIsDuckDBs'
    BY <2>0, RunKept DEF AloneIsHonest, LeftoversHarmless, LogIsDuckDBs
  <2> QED BY <2>3, <2>4, <2>5, <2>6, <2>7
<1> QED BY <1>2, <1>3, <1>4 DEF Query

LEMMA ReportIInv == ASSUME IInv, NEW c \in Clients, Report(c) PROVE IInv'
<1> USE DEF IInv
<1>0. pc[c] = "query" /\ queried[c] = NumQueries /\ queried[c] # 0
  BY EngineRunsAssumption DEF Report
<1>1. CASE ~store.made /\ Fail(c, TRUE)
  <2>1. store # Filled(c, ModeOf(c) = "hnsw")
    BY <1>1 DEF Filled
  <2>2. shared[c]
    BY <1>0, <2>1, Found DEF Expects
  <2> QED BY <1>0, <1>1, <2>2, Fails
<1>2. CASE /\ metrics' = [metrics EXCEPT ![c] = Metrics(c)] /\ Leave(c)
           /\ UNCHANGED <<store, wal, refused>>
  <2>1. OpenCopyIsAlone'
    BY <1>2 DEF OpenCopyIsAlone, Leave, TypeOK, OwnRows
  <2>2. refused' \in [Clients -> BOOLEAN] /\ LeftoversHarmless'
    BY <1>2 DEF LeftoversHarmless, Leave, historyVars, TypeOK
  <2>3. AloneIsHonest'
    BY <1>0, <1>2 DEF AloneIsHonest, Metrics, InPhase, TypeOK
  <2>4. DOMAIN metrics' = Clients
    BY <1>2 DEF TypeOK
  <2> QED BY <1>0, <1>2, <2>1, <2>2, <2>3, <2>4, Leaves
<1> QED BY <1>1, <1>2 DEF Report

LEMMA AbortIInv == ASSUME IInv, NEW c \in Clients, Abort(c) PROVE IInv'
<1> USE DEF IInv
<1>1. CASE Fail(c, FALSE)
  BY <1>1, Fails DEF Abort
<1>2. CASE /\ pc[c] = "save" /\ store' = [NoStore EXCEPT !.made = TRUE]
           /\ Leave(c) /\ UNCHANGED <<wal, refused, metrics>>
  <2>1. store'.rows = {}
    BY <1>2 DEF NoStore
  <2>2. OpenCopyIsAlone'
    BY <1>2, <2>1 DEF OpenCopyIsAlone, Leave, TypeOK, OwnRows
  <2>3. refused' \in [Clients -> BOOLEAN] /\ LeftoversHarmless'
    BY <1>2 DEF LeftoversHarmless, Leave, historyVars, TypeOK
  <2>4. DOMAIN metrics' = Clients /\ AloneIsHonest'
    BY <1>2 DEF AloneIsHonest, TypeOK
  <2> QED BY <1>2, <2>2, <2>3, <2>4, Leaves
<1> QED BY <1>1, <1>2 DEF Abort

LEMMA NextIInv == IInv /\ [Next]_vars => IInv'
<1> SUFFICES ASSUME IInv, [Next]_vars
             PROVE  IInv'
  OBVIOUS
<1>1. ASSUME NEW c \in Clients, Start(c) \/ AutoCheckpoint(c) \/ Abort(c)
      PROVE  IInv'
  BY <1>1, StartIInv, AutoCheckpointIInv, AbortIInv
<1>2. ASSUME NEW c \in Clients, Step(c)
      PROVE  IInv'
  <2>1. CASE DropTable(c) \/ CreateTable(c) \/ StartCopy(c) \/ CopyRows(c) \/ EndCopy(c)
    BY <2>1, DropTableIInv, CreateTableIInv, StartCopyIInv, CopyRowsIInv, EndCopyIInv
  <2>2. CASE CreateIndex(c) \/ Analyze(c) \/ CheckPlan(c)
    BY <2>2, CreateIndexIInv, AnalyzeIInv, CheckPlanIInv
  <2>3. CASE \/ RemoveFile(c) \/ RemoveLog(c) \/ OpenAndCreate(c) \/ AppendRows(c)
             \/ IndexFile(c) \/ Checkpoint(c)
    BY <2>3, RemoveFileIInv, RemoveLogIInv, OpenAndCreateIInv, AppendRowsIInv,
       IndexFileIInv, CheckpointIInv
  <2>4. CASE BuildInMemory(c) \/ SaveIndex(c) \/ LoadIndex(c)
    BY <2>4, BuildInMemoryIInv, SaveIndexIInv, LoadIndexIInv
  <2>5. CASE Query(c) \/ Report(c)
    BY <2>5, QueryIInv, ReportIInv
  <2> QED BY <1>2, <2>1, <2>2, <2>3, <2>4, <2>5 DEF Step
<1>3. CASE UNCHANGED vars
  <2>0. /\ UNCHANGED <<store, wal, pc, pending, refused, metrics, shared, runs>>
        /\ UNCHANGED <<engine, run, mode, count, queried, over, indexed>>
    BY <1>3 DEF vars, optionVars, searchVars, historyVars
  <2>1. TypeOK' /\ IdleIsClean' /\ AloneOrShared'
    BY <2>0 DEF IInv, TypeOK, IdleIsClean, AloneOrShared
  <2>2. OpenCopyIsAlone'
    BY <2>0 DEF IInv, OpenCopyIsAlone, OwnRows
  <2>3. ASSUME NEW c \in Clients
        PROVE  InPhase(c)'
    <3>1. OwnRows(c)' = OwnRows(c) /\ ModeOf(c)' = ModeOf(c)
      BY <2>0 DEF OwnRows, ModeOf
    <3>2. Expects(c, pc[c], store, wal, pending[c])' <=> Expects(c, pc[c], store, wal, pending[c])
      BY <2>0, <3>1 DEF Expects, Filled
    <3> QED BY <2>0, <3>1, <3>2 DEF IInv, InPhase
  <2>4. StoreHoldsOneRun' /\ AloneIsHonest' /\ LeftoversHarmless' /\ LogIsDuckDBs'
    BY <2>0, RunKept DEF IInv, AloneIsHonest, LeftoversHarmless, LogIsDuckDBs
  <2> QED BY <2>1, <2>2, <2>3, <2>4 DEF IInv
<1> QED BY <1>1, <1>2, <1>3 DEF Next, Finished

\* IInv holds: each run finds what its own steps have left, unless it is shared.
THEOREM SpecIInv == Spec => []IInv
  BY InitIInv, NextIInv, PTL DEF Spec

\* pgvector_benchmark.cpp:56-110, 149 and duckdb_benchmark.cpp:57-105: the primary key
\* and COPY's atomicity keep a table from mixing the rows of overlapping runs, and
\* wherever a run on DuckDB is killed, file and log show a beginning of its rows.
THEOREM SpecStoreHoldsOneRun == Spec => []StoreHoldsOneRun
<1>1. IInv => StoreHoldsOneRun
  BY DEF IInv
<1> QED BY <1>1, SpecIInv, PTL

\* A run alone reports on its own rows, by the method its mode names.
THEOREM SpecAloneIsHonest == Spec => []AloneIsHonest
<1>1. IInv => AloneIsHonest
  BY DEF IInv
<1> QED BY <1>1, SpecIInv, PTL

\* duckdb_benchmark.cpp:57-58, hnswlib_benchmark.cpp:46-60, pgvector_benchmark.cpp:147:
\* what killed runs leave behind ends no run that is alone.
THEOREM SpecLeftoversHarmless == Spec => []LeftoversHarmless
<1>1. IInv => LeftoversHarmless
  BY DEF IInv
<1> QED BY <1>1, SpecIInv, PTL
=============================================================================
