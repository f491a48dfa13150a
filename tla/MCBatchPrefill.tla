--------------------------- MODULE MCBatchPrefill ---------------------------
(***************************************************************************)
(* Small inputs for BatchPrefill: clusters in an order that makes the      *)
(* first vector's neighbours come from several morsels.                    *)
(***************************************************************************)
EXTENDS BatchPrefill

SixVectors == [input |-> <<10, 3, 11, 4, 14, 5>>, parallel |-> TRUE]
ShortInputs == UNION {[1 .. n -> {0, 1, 3, 7}] : n \in 1 .. 5}

BothVersions == {SixVectors} \cup [input : ShortInputs, parallel : {FALSE}]
ParallelOnly == {SixVectors}
=============================================================================
