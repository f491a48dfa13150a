--------------------------- MODULE MCBatchSearch ---------------------------
(***************************************************************************)
(* A small database for BatchSearch, as in MCKnnSearch.                    *)
(***************************************************************************)
EXTENDS BatchSearch

\* The two pages nearest to query 2 hold fewer than three vectors; for query 13
\* the first page probed fills the heap and the second one is skipped.
FourPages == << <<0>>, <<5>>, <<12, 10, 11>>, <<20, 18>> >>
=============================================================================
