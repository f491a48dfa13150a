------------------------------- MODULE Ingest -------------------------------
(***************************************************************************)
(* What the streaming harnesses (hnswlib, DuckDB, pgvector) promise of the *)
(* ingestion of the base file: the engine ends up with every row under its *)
(* own number, or the run fails.  Nothing in between is ever used.         *)
(***************************************************************************)
CONSTANT Rows                   \* 0 .. n_base_vectors - 1

VARIABLES
  state,                        \* "open", "whole" or "failed"
  stored                        \* pairs <<label, row of the file>>

vars == <<state, stored>>

Whole == {<<row, row>> : row \in Rows}

Init == state = "open" /\ stored = {}
Succeed == state = "open" /\ state' = "whole" /\ stored' = Whole
GiveUp == state = "open" /\ state' = "failed" /\ UNCHANGED stored
Next == Succeed \/ GiveUp
Spec == Init /\ [][Next]_vars
=============================================================================
