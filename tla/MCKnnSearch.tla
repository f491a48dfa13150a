---------------------------- MODULE MCKnnSearch ----------------------------
(***************************************************************************)
(* Small databases for KnnSearch.  Coordinates are chosen so that a query  *)
(* between two pages has its neighbours in both, and so that far pages can *)
(* be skipped once the bound is tight.                                     *)
(***************************************************************************)
EXTENDS KnnSearch

\* Five pages of two: more than twice two workers, so the fill is parallel.
FivePages == << <<0, 1>>, <<4, 3>>, <<9, 7>>, <<14, 10>>, <<20, 22>> >>

\* What batch prefill makes of 13, 14, 4, 3, 17, 11 with two vectors a page.
PrefilledPages == << <<13, 14>>, <<4, 3>>, <<17, 11>> >>
=============================================================================
