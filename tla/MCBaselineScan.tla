--------------------------- MODULE MCBaselineScan ---------------------------
(***************************************************************************)
(* Queries for BaselineScan: distances that fall along the file, ties for  *)
(* the last place, ties inside the row, and all vectors equally far.       *)
(***************************************************************************)
EXTENDS BaselineScan

Row(a, b, c, d) == [id \in Ids |-> <<a, b, c, d>>[id + 1]]
FourRows == {Row(3, 2, 1, 0), Row(1, 0, 1, 1), Row(2, 1, 0, 0), Row(2, 2, 2, 2)}
=============================================================================
