---------------------------- MODULE StreamIngest ----------------------------
(***************************************************************************)
(* The ingestion loop of the streaming harnesses: FvecsBatchReader reads a *)
(* batch of rows into its one buffer and returns a span over it, the rows  *)
(* of the batch are handed to the engine under the labels added + row, and *)
(* the next read overwrites the buffer.                                    *)
(*                                                                         *)
(* hnswlib hands them over in an OpenMP parallel loop, whose threads read  *)
(* the buffer and the variable added while they run; DuckDB's appender and *)
(* pgvector's COPY are the same loop with one thread.  How OpenMP divides  *)
(* a loop is left to the implementation: any division is allowed here.  A  *)
(* thread's addPoint is two steps, the call with its arguments and the     *)
(* copy of the vector.  A vector is the number of its row in the file.     *)
(***************************************************************************)
EXTENDS Integers

CONSTANTS
  NBase,                \* n_base_vectors
  BatchSize,            \* batch_size (batch_rows in pgvector_benchmark.cpp)
  NumThreads            \* n_threads

ASSUME StreamIngestAssumption ==
  /\ NBase \in Nat \ {0} /\ BatchSize \in Nat \ {0} /\ NumThreads \in Nat \ {0}

Rows == 0 .. NBase - 1
Places == 0 .. BatchSize - 1
Threads == 0 .. NumThreads - 1
Nothing == 0 - 1

VARIABLES
  stage,                   \* "read", "add", "ingested", "failed"
  file_row,             \* rows the reader has taken from the file
  buffer,               \* buffer_: the row each place holds
  rows,                 \* rows of this batch
  added,
  todo,                 \* the places of the batch each thread has yet to take
  call,                 \* the place whose addPoint call each thread is in
  label,                \* and the label it passed
  index                 \* pairs <<label, row of the file>>

ingestVars == <<stage, file_row, buffer, rows, added, todo, call, label, index>>

IngestTypeOK ==
  /\ stage \in {"read", "add", "ingested", "failed"}
  /\ file_row \in 0 .. NBase /\ added \in 0 .. NBase /\ rows \in 0 .. BatchSize
  /\ buffer \in [Places -> Rows \cup {Nothing}]
  /\ todo \in [Threads -> SUBSET Places]
  /\ call \in [Threads -> Places \cup {Nothing}]
  /\ label \in [Threads -> Nat]
  /\ index \subseteq Nat \X (Rows \cup {Nothing})

IngestInit ==
  /\ stage = "read" /\ file_row = 0 /\ rows = 0 /\ added = 0
  /\ buffer = [place \in Places |-> Nothing]
  /\ todo = [t \in Threads |-> {}]
  /\ call = [t \in Threads |-> Nothing]
  /\ label = [t \in Threads |-> 0]
  /\ index = {}

\* Faulty: nothing is read when fewer rows than a batch are left.
BatchRowsWhole == IF NBase - added < BatchSize THEN 0 ELSE BatchSize

BatchRows == IF NBase - added < BatchSize THEN NBase - added ELSE BatchSize

\* reader.read(rows), and the division of the batch among the threads.
ReadBatch ==
  /\ stage = "read" /\ added < NBase
  /\ rows' = BatchRows
  /\ buffer' = [place \in Places |-> IF place < rows' THEN file_row + place ELSE buffer[place]]
  /\ file_row' = file_row + rows'
  /\ \E owner \in [Places -> Threads] :
       todo' = [t \in Threads |-> {place \in Places : place < rows' /\ owner[place] = t}]
  /\ stage' = "add"
  /\ UNCHANGED <<added, call, label, index>>

\* The file cannot be opened, a row has another dimension, or the file ends.
ReadFails ==
  /\ stage = "read"
  /\ stage' = "failed"
  /\ UNCHANGED <<file_row, buffer, rows, added, todo, call, label, index>>

CallAddPoint(t) ==
  /\ call[t] = Nothing
  /\ \E place \in todo[t] :
       /\ \A other \in todo[t] : place <= other
       /\ call' = [call EXCEPT ![t] = place]
       /\ label' = [label EXCEPT ![t] = added + place]
       /\ todo' = [todo EXCEPT ![t] = @ \ {place}]
  /\ UNCHANGED <<stage, file_row, buffer, rows, added, index>>

FinishAddPoint(t) ==
  /\ call[t] # Nothing
  /\ index' = index \cup {<<label[t], buffer[call[t]]>>}
  /\ call' = [call EXCEPT ![t] = Nothing]
  /\ UNCHANGED <<stage, file_row, buffer, rows, added, todo, label>>

\* Faulty: nowait, main reads on when every row has been taken.
EndBatchEarly ==
  /\ stage = "add"
  /\ \A t \in Threads : todo[t] = {}
  /\ added' = added + rows
  /\ stage' = IF added' < NBase THEN "read" ELSE "ingested"
  /\ UNCHANGED <<file_row, buffer, rows, todo, call, label, index>>

\* Faulty: only whole batches are read.
EndBatchWhole ==
  /\ stage = "add"
  /\ \A t \in Threads : todo[t] = {} /\ call[t] = Nothing
  /\ added' = added + rows
  /\ stage' = IF added' + BatchSize <= NBase THEN "read" ELSE "ingested"
  /\ UNCHANGED <<file_row, buffer, rows, todo, call, label, index>>

\* The barrier at the end of the parallel loop, added += rows and the loop's test.
EndBatch ==
  /\ stage = "add"
  /\ \A t \in Threads : todo[t] = {} /\ call[t] = Nothing
  /\ added' = added + rows
  /\ stage' = IF added' < NBase THEN "read" ELSE "ingested"
  /\ UNCHANGED <<file_row, buffer, rows, todo, call, label, index>>

Main == ReadBatch \/ ReadFails \/ EndBatch
Thread(t) == CallAddPoint(t) \/ FinishAddPoint(t)
Ended == stage \in {"ingested", "failed"} /\ UNCHANGED ingestVars

IngestNext == Main \/ (\E t \in Threads : Thread(t)) \/ Ended

\* Main and the OpenMP threads are scheduled.
IngestSpec == IngestInit /\ [][IngestNext]_ingestVars /\ WF_ingestVars(Main) /\ \A t \in Threads : WF_ingestVars(Thread(t))

(***************************************************************************)
(* Properties.                                                             *)
(***************************************************************************)
\* hnswlib_benchmark.cpp:36-38: no label ever gets the vector of another row,
\* although threads copy from a buffer that the reader uses again.
OwnVector == \A entry \in index : entry[1] = entry[2] /\ entry[1] \in Rows

\* OwnVector made inductive: how far the reader is, what its buffer holds, with
\* which arguments the threads call, and that no row of the batch is forgotten.
ReaderInStep ==
  /\ file_row = IF stage = "add" THEN added + rows ELSE added
  /\ stage = "add" => /\ added + rows <= NBase
                   /\ \A place \in Places : place < rows => buffer[place] = added + place
  /\ stage = "ingested" => added = NBase
CallsInStep ==
  \A t \in Threads :
    /\ call[t] # Nothing => stage = "add" /\ call[t] < rows /\ label[t] = added + call[t]
    /\ \A place \in todo[t] : stage = "add" /\ place < rows
NoRowForgotten ==
  /\ \A row \in Rows : row < added => <<row, row>> \in index
  /\ stage = "add" =>
       \A place \in Places : place < rows =>
         \/ <<added + place, added + place>> \in index
         \/ \E t \in Threads : place \in todo[t] \/ call[t] = place
IngestInv == IngestTypeOK /\ ReaderInStep /\ CallsInStep /\ OwnVector /\ NoRowForgotten

\* The loop implements Ingest: what the run goes on with is every row under its
\* own number, or nothing.
IngestState == CASE stage = "ingested" -> "whole" [] stage = "failed" -> "failed" [] OTHER -> "open"
I == INSTANCE Ingest WITH state <- IngestState,
                          stored <- IF stage = "ingested" THEN index ELSE {}
ImplementsIngest == I!Spec

\* The loop ends, also when the last batch is short.
IngestEnds == <>(stage \in {"ingested", "failed"})
=============================================================================
