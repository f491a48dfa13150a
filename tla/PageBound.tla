----------------------------- MODULE PageBound -----------------------------
(***************************************************************************)
(* Distances and the page bound.  A page is a ball: an anchor (its first   *)
(* vector) and the largest distance of a member to it.  A search skips a   *)
(* page when the ball cannot hold anything better than the current worst.  *)
(* Everything is squared L2 on integer coordinates, where nothing rounds.  *)
(* D is the squared distance from query to anchor, M the stored squared    *)
(* radius of the page, W the current worst squared distance.               *)
(***************************************************************************)
EXTENDS Integers

\* squared_l2_distance for vectors of one and of two coordinates
SquaredL2(x, y) == (x - y) * (x - y)
SquaredL2Plane(x, y) == SquaredL2(x[1], y[1]) + SquaredL2(x[2], y[2])

\* Faulty: the older shortcut, for squared distances.
PruneExactShortcut(D, M, W) == D - M > W

\* prune_check_func of the SquaredL2 distance
PruneExact(D, M, W) ==
  /\ D > M
  /\ D + M > W
  /\ (D + M - W) * (D + M - W) > 4 * (D * M)

\* prune_check_func of the unsquared distance, and of mode legacy_prune,
\* where the same formula is applied to squared values
PruneDifference(D, M, W) == D - M > W

(***************************************************************************)
(* FillDistToAnchor: how the n cached pages are split over nThreads        *)
(* workers.  nLeft and step are what find_k_nearest puts in scalar_input1  *)
(* and morsel_step.                                                        *)
(***************************************************************************)
SliceStart(n, nThreads, t) ==
  LET step == n \div nThreads
      nLeft == n % nThreads
  IN IF t < nLeft THEN (step + 1) * t
                  ELSE (step + 1) * nLeft + step * (t - nLeft)

\* Faulty: the first workers do not take their extra page.
SliceEndShort(n, nThreads, t) ==
  LET step == n \div nThreads
      uncheckedEnd == SliceStart(n, nThreads, t) + step
  IN IF t < n % nThreads THEN uncheckedEnd
                         ELSE IF uncheckedEnd > n THEN n ELSE uncheckedEnd

SliceEnd(n, nThreads, t) ==
  LET step == n \div nThreads
      uncheckedEnd == SliceStart(n, nThreads, t) + step
  IN IF t < n % nThreads THEN uncheckedEnd + 1
                         ELSE IF uncheckedEnd > n THEN n ELSE uncheckedEnd
=============================================================================
