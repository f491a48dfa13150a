------------------------- MODULE PagedVectorsProofs -------------------------
(***************************************************************************)
(* The page bound for all values and the split of the parallel fill, then  *)
(* what the searches rest on: sorted sets, the heap under Offer, the page  *)
(* bound against the vectors of a page, and the scan of one page, for any  *)
(* pages, K and query.                                                     *)
(***************************************************************************)
EXTENDS PagedVectors, FiniteSetTheorems, FunctionTheorems, SequenceTheorems, TLAPS

-----------------------------------------------------------------------------
(***************************************************************************)
(* The page bound and the slices.                                          *)
(***************************************************************************)
\* Products of naturals and comparisons between them.
LEMMA ProductMonotone ==
  ASSUME NEW a \in Nat, NEW b \in Nat, NEW c \in Nat, NEW e \in Nat,
         a <= b, c <= e
  PROVE  a * c <= b * e
<1>1. a * c <= b * c
  BY SMT
<1>2. b * c <= b * e
  BY SMT
<1> QED
  BY <1>1, <1>2, SMT

LEMMA SquareStrict ==
  ASSUME NEW a \in Nat, NEW b \in Nat
  PROVE  a * a > b * b <=> a > b
<1>1. CASE a > b
  <2>1. b + 1 \in Nat /\ b + 1 <= a
    BY <1>1
  <2>2. (b + 1) * (b + 1) <= a * a
    BY <2>1, ProductMonotone
  <2> QED
    BY <1>1, <2>2, SMT
<1>2. CASE a <= b
  BY <1>2, ProductMonotone, SMT
<1> QED
  BY <1>1, <1>2

-----------------------------------------------------------------------------
\* No neighbour is lost, in any number of dimensions: D, V and D + V - 2c are
\* the squared lengths of query-anchor, member-anchor and query-member, c is
\* the dot product of the first two, and Cauchy-Schwarz bounds it.  If the
\* member lies within the page radius and the exact test skips the page, then
\* the member is farther from the query than the current worst.
THEOREM PruneSound ==
  ASSUME NEW D \in Nat, NEW M \in Nat, NEW V \in Nat, NEW W \in Nat, NEW c \in Int,
         V <= M, c * c <= D * V, PruneExact(D, M, W)
  PROVE  D + V - 2 * c > W
<1> DEFINE s == D + M - W
           dl == M - V
           g == s - dl
<1>1. D > M /\ s > 0 /\ s * s > 4 * (D * M) /\ s \in Nat /\ dl \in Nat
  BY DEF PruneExact
<1>2. s > 2 * M
  <2>1. M * M <= D * M
    BY <1>1, ProductMonotone
  <2>2. (2 * M) * (2 * M) = 4 * (M * M)
    BY SMT
  <2>3. s * s > (2 * M) * (2 * M)
    <3> HIDE DEF s
    <3> QED
      BY <1>1, <2>1, <2>2
  <2> QED
    BY <1>1, <2>3, SquareStrict
<1>3. g \in Nat /\ g > 0
  BY <1>1, <1>2
<1>4. g * g - 4 * (D * V) = (s * s - 4 * (D * M)) + dl * (dl - 2 * s + 4 * D)
  <2> HIDE DEF s
  <2> QED
    BY <1>1, SMT
<1>5. dl * (dl - 2 * s + 4 * D) >= 0
  <2>1. dl - 2 * s + 4 * D \in Nat
    BY <1>1
  <2> HIDE DEF s, dl
  <2> QED
    BY <1>1, <2>1, ProductMonotone
<1>6. g * g > 4 * (D * V)
  <2> HIDE DEF s, dl, g
  <2>1. D * M \in Nat /\ D * V \in Nat /\ s * s \in Nat /\ g * g \in Nat
    BY <1>1, <1>3
  <2>2. dl * (dl - 2 * s + 4 * D) \in Int
    BY <1>1
  <2> QED
    BY <1>1, <1>4, <1>5, <2>1, <2>2
<1>7. ~(2 * c >= g)
  <2> HIDE DEF s, dl, g
  <2> SUFFICES ASSUME 2 * c >= g PROVE FALSE
    OBVIOUS
  <2>1. 2 * c \in Nat
    BY <1>3
  <2>2. g * g <= (2 * c) * (2 * c)
    BY <1>3, <2>1, ProductMonotone
  <2>3. (2 * c) * (2 * c) = 4 * (c * c)
    BY SMT
  <2>4. c * c \in Int /\ D * V \in Int /\ g * g \in Int
    BY <1>3
  <2> QED
    BY <1>6, <2>2, <2>3, <2>4
<1> QED
  BY <1>3, <1>7

\* The same for page members in the plane, with the distance of the code: the
\* dot product is eliminated through Lagrange's identity.
THEOREM PruneSoundInPlane ==
  ASSUME NEW q \in Int \X Int, NEW a \in Int \X Int, NEW v \in Int \X Int,
         NEW M \in Nat, NEW W \in Nat,
         SquaredL2Plane(v, a) <= M,
         PruneExact(SquaredL2Plane(q, a), M, W)
  PROVE  SquaredL2Plane(q, v) > W
<1> DEFINE x1 == q[1] - a[1]
           x2 == q[2] - a[2]
           y1 == v[1] - a[1]
           y2 == v[2] - a[2]
           D == x1 * x1 + x2 * x2
           V == y1 * y1 + y2 * y2
           c == x1 * y1 + x2 * y2
<1>1. x1 \in Int /\ x2 \in Int /\ y1 \in Int /\ y2 \in Int
  OBVIOUS
<1>2. D = SquaredL2Plane(q, a) /\ V = SquaredL2Plane(v, a)
  BY DEF SquaredL2Plane, SquaredL2
<1>3. \A x \in Int : x * x \in Nat
  BY SMT
<1>4. D \in Nat /\ V \in Nat /\ c \in Int
  <2> HIDE DEF x1, x2, y1, y2
  <2> QED
    BY <1>1, <1>3
<1>5. c * c <= D * V
  <2> HIDE DEF x1, x2, y1, y2
  <2>1. D * V - c * c = (x1 * y2 - x2 * y1) * (x1 * y2 - x2 * y1)
    BY <1>1, SMT
  <2>2. (x1 * y2 - x2 * y1) * (x1 * y2 - x2 * y1) \in Nat
    BY <1>1, <1>3
  <2>3. c * c \in Int /\ D * V \in Int
    BY <1>1
  <2> QED
    BY <2>1, <2>2, <2>3
<1>6. D + V - 2 * c = SquaredL2Plane(q, v)
  <2>1. q[1] - v[1] = x1 - y1 /\ q[2] - v[2] = x2 - y2
    OBVIOUS
  <2>2. SquaredL2Plane(q, v) = (x1 - y1) * (x1 - y1) + (x2 - y2) * (x2 - y2)
    BY <2>1 DEF SquaredL2Plane, SquaredL2
  <2> HIDE DEF x1, x2, y1, y2
  <2> QED
    BY <1>1, <2>2, SMT
<1>7. D + V - 2 * c > W
  <2> HIDE DEF D, V, c
  <2> QED
    BY <1>2, <1>4, <1>5, PruneSound
<1> QED
  BY <1>6, <1>7

\* README: without square roots, the test decides d - m > w exactly.
THEOREM BoundExact ==
  ASSUME NEW d \in Nat, NEW m \in Nat, NEW w \in Nat
  PROVE  PruneExact(d * d, m * m, w * w) <=> d - m > w
<1> DEFINE D == d * d
           M == m * m
           W == w * w
<1>1. D \in Nat /\ M \in Nat /\ W \in Nat /\ d * m \in Nat
  OBVIOUS
<1>2. (d * m) * (d * m) = D * M
  BY SMT
<1>3. (d - m) * (d - m) = D + M - 2 * (d * m)
  BY SMT
<1>4. ASSUME PruneExact(D, M, W)
      PROVE  d - m > w
  <2>1. D + M - 2 * (d * m) > W
    <3> DEFINE c == d * m
    <3>1. c \in Int /\ M <= M /\ c * c <= D * M
      BY <1>1, <1>2
    <3> HIDE DEF D, M, W, c
    <3>2. D + M - 2 * c > W
      BY <1>1, <1>4, <3>1, PruneSound
    <3> QED
      BY <3>2 DEF c
  <2>2. d > m
    BY <1>4, SquareStrict DEF PruneExact
  <2>3. d - m \in Nat
    BY <2>2
  <2>4. (d - m) * (d - m) > w * w
    BY <1>3, <2>1
  <2> QED
    BY <2>3, <2>4, SquareStrict
<1>5. ASSUME d - m > w
      PROVE  PruneExact(D, M, W)
  <2>1. d > m /\ d - m \in Nat
    BY <1>5
  <2>2. D > M
    BY <2>1, SquareStrict
  <2>3. (d - m) * (d - m) > W
    BY <1>5, <2>1, SquareStrict
  <2>4. D + M - W > 2 * (d * m)
    <3>1. D + M - 2 * (d * m) > W
      BY <1>3, <2>3
    <3> HIDE DEF D, M, W
    <3>2. d * m \in Int
      OBVIOUS
    <3> QED
      BY <1>1, <3>1, <3>2
  <2>5. (D + M - W) * (D + M - W) > (2 * (d * m)) * (2 * (d * m))
    <3> HIDE DEF D, M, W
    <3>1. D + M - W \in Nat /\ 2 * (d * m) \in Nat
      BY <1>1, <2>4
    <3> QED
      BY <2>4, <3>1, SquareStrict
  <2>6. (2 * (d * m)) * (2 * (d * m)) = 4 * (D * M)
    BY <1>1, <1>2, SMT
  <2> QED
    <3> HIDE DEF D, M, W
    <3> QED
      BY <1>1, <2>2, <2>4, <2>5, <2>6 DEF PruneExact
<1> QED
  BY <1>4, <1>5

\* README: the shortcut D - M > W prunes at least what the exact test prunes.
THEOREM DifferencePrunesMore ==
  ASSUME NEW D \in Nat, NEW M \in Nat, NEW W \in Nat, PruneExact(D, M, W)
  PROVE  PruneDifference(D, M, W)
<1> DEFINE s == D + M - W
<1>1. s \in Nat /\ s * s > 4 * (D * M) /\ D > M
  BY DEF PruneExact
<1>2. M * M <= D * M
  BY <1>1, ProductMonotone
<1>3. (2 * M) * (2 * M) = 4 * (M * M)
  BY SMT
<1>4. s > 2 * M
  <2>1. s * s > (2 * M) * (2 * M)
    <3> HIDE DEF s
    <3> QED
      BY <1>1, <1>2, <1>3
  <2> QED
    BY <1>1, <2>1, SquareStrict
<1> QED
  BY <1>4 DEF PruneDifference

\* Once a page may be skipped it may be skipped under every better bound: a
\* worker that prunes with a bound others have lowered meanwhile prunes no
\* more than it could have.
THEOREM PruneMonotone ==
  ASSUME NEW D \in Nat, NEW M \in Nat, NEW W \in Nat, NEW W2 \in Nat,
         W2 <= W, PruneExact(D, M, W)
  PROVE  PruneExact(D, M, W2)
<1>1. D + M - W \in Nat /\ D + M - W2 \in Nat /\ D + M - W <= D + M - W2
  BY DEF PruneExact
<1>2. (D + M - W) * (D + M - W) <= (D + M - W2) * (D + M - W2)
  BY <1>1, ProductMonotone
<1> QED
  BY <1>1, <1>2 DEF PruneExact

-----------------------------------------------------------------------------
\* The slices of the parallel fill tile the cached pages: none is filled twice,
\* none is left with the distance of an earlier query.
THEOREM SlicesCover ==
  ASSUME NEW n \in Nat, NEW nThreads \in Nat \ {0}
  PROVE  /\ SliceStart(n, nThreads, 0) = 0
         /\ SliceEnd(n, nThreads, nThreads - 1) = n
         /\ \A t \in 1 .. nThreads - 1 :
              SliceStart(n, nThreads, t) = SliceEnd(n, nThreads, t - 1)
<1> DEFINE step == n \div nThreads
           nLeft == n % nThreads
<1>1. step \in Nat /\ nLeft \in 0 .. nThreads - 1 /\ n = nThreads * step + nLeft
  BY SMT
<1>2. \A t \in 0 .. nThreads - 1 :
        SliceStart(n, nThreads, t) = IF t < nLeft THEN (step + 1) * t
                                     ELSE (step + 1) * nLeft + step * (t - nLeft)
  BY DEF SliceStart
<1>3. \A t \in 0 .. nThreads - 1 :
        SliceStart(n, nThreads, t) = step * t + (IF t < nLeft THEN t ELSE nLeft)
  <2> HIDE DEF step, nLeft
  <2> QED
    BY <1>1, <1>2, SMT
<1>4. \A t \in 0 .. nThreads - 1 :
        SliceStart(n, nThreads, t) + step <= n
  <2> SUFFICES ASSUME NEW t \in 0 .. nThreads - 1
               PROVE  SliceStart(n, nThreads, t) + step <= n
    OBVIOUS
  <2> HIDE DEF step, nLeft
  <2>1. step * (t + 1) <= nThreads * step
    BY <1>1, ProductMonotone, SMT
  <2>2. step * t + step = step * (t + 1)
    BY <1>1, SMT
  <2> QED
    BY <1>1, <1>3, <2>1, <2>2, SMT
<1>5. \A t \in 0 .. nThreads - 1 :
        SliceEnd(n, nThreads, t) =
          SliceStart(n, nThreads, t) + (IF t < nLeft THEN step + 1 ELSE step)
  <2> SUFFICES ASSUME NEW t \in 0 .. nThreads - 1
               PROVE  SliceEnd(n, nThreads, t) =
                        SliceStart(n, nThreads, t) + (IF t < nLeft THEN step + 1 ELSE step)
    OBVIOUS
  <2>1. SliceStart(n, nThreads, t) \in Int
    <3> HIDE DEF step, nLeft
    <3> QED
      BY <1>1, <1>3, SMT
  <2> QED
    BY <1>1, <1>4, <2>1 DEF SliceEnd
<1>6. SliceStart(n, nThreads, 0) = 0
  <2> HIDE DEF step, nLeft
  <2> QED
    BY <1>1, <1>3, SMT
<1>7. SliceEnd(n, nThreads, nThreads - 1) = n
  <2> HIDE DEF step, nLeft
  <2>1. step * (nThreads - 1) + step = nThreads * step
    BY <1>1, SMT
  <2> QED
    BY <1>1, <1>3, <1>5, <2>1, SMT
<1>8. ASSUME NEW t \in 1 .. nThreads - 1
      PROVE  SliceStart(n, nThreads, t) = SliceEnd(n, nThreads, t - 1)
  <2> HIDE DEF step, nLeft
  <2>1. step * (t - 1) + step = step * t
    BY <1>1, SMT
  <2>2. t - 1 \in 0 .. nThreads - 1
    OBVIOUS
  <2> QED
    BY <1>1, <1>3, <1>5, <2>1, <2>2, SMT
<1> QED
  BY <1>6, <1>7, <1>8

-----------------------------------------------------------------------------
(***************************************************************************)
(* Finite sets, ranks and recursive definitions.                           *)
(***************************************************************************)
\* Every non-empty set of naturals has a least element: what the proofs by
\* induction below rest on.
LEMMA Least ==
  ASSUME NEW S \in SUBSET Nat, NEW n \in S
  PROVE  \E m \in S : \A k \in S : m <= k
<1>1. IsWellFoundedOn(OpToRel(<, Nat), Nat)
  BY NatLessThanWellFounded
<1> DEFINE R == OpToRel(<, Nat)
<1>2. \E m \in S : \A k \in S : ~(<<k, m>> \in R)
  <2> HIDE DEF R
  <2>1. IsWellFoundedOn(R, Nat)
    BY <1>1 DEF R
  <2> QED BY <2>1, WFMin
<1>3. R = {ss \in Nat \X Nat : ss[1] < ss[2]}
  BY Zenon DEF OpToRel
<1> HIDE DEF R
<1>4. PICK m \in S : \A k \in S : ~(<<k, m>> \in R)
  BY <1>2
<1>5. \A k \in S : m <= k
  <2> TAKE k \in S
  <2>1. k \in Nat /\ m \in Nat /\ <<k, m>> \in Nat \X Nat
    OBVIOUS
  <2>2. ~(k < m)
    BY <1>3, <1>4, <2>1
  <2> QED BY <2>1, <2>2
<1> QED BY <1>5

Orders(R, S) ==
  /\ \A x, y \in S : x # y => (<<x, y>> \in R <=> ~(<<y, x>> \in R))
  /\ \A x \in S : ~(<<x, x>> \in R)
  /\ \A x, y, z \in S : <<x, y>> \in R /\ <<y, z>> \in R => <<x, z>> \in R

LEMMA RanksDiffer ==
  ASSUME NEW S, IsFiniteSet(S), NEW R, Orders(R, S)
  PROVE  /\ \A x \in S : Cardinality(SetLessThan(x, R, S)) \in 0 .. Cardinality(S) - 1
         /\ \A x, y \in S : <<x, y>> \in R =>
              Cardinality(SetLessThan(x, R, S)) < Cardinality(SetLessThan(y, R, S))
<1> DEFINE n == Cardinality(S)
           below(x) == SetLessThan(x, R, S)
<1>1. n \in Nat
  BY FS_CardinalityType
<1>2. \A x \in S : IsFiniteSet(below(x)) /\ Cardinality(below(x)) \in 0 .. n - 1
  <2> TAKE x \in S
  <2>1. below(x) \in SUBSET S /\ x \notin below(x)
    BY DEF Orders, SetLessThan
  <2>2. IsFiniteSet(below(x)) /\ Cardinality(below(x)) <= n /\ (Cardinality(below(x)) = n => below(x) = S)
    BY <2>1, FS_Subset
  <2>3. Cardinality(below(x)) \in Nat
    BY <2>2, FS_CardinalityType
  <2> QED BY <1>1, <2>1, <2>2, <2>3
<1>3. ASSUME NEW x \in S, NEW y \in S, <<x, y>> \in R
      PROVE  Cardinality(below(x)) < Cardinality(below(y))
  <2>1. below(x) \in SUBSET below(y) /\ x \in below(y) /\ x \notin below(x)
    BY <1>3 DEF Orders, SetLessThan
  <2>2. IsFiniteSet(below(y)) /\ IsFiniteSet(below(x))
    BY <1>2
  <2> HIDE DEF below
  <2>3. /\ Cardinality(below(x)) <= Cardinality(below(y))
        /\ Cardinality(below(y)) = Cardinality(below(x)) => below(y) = below(x)
    BY <2>1, <2>2, FS_Subset
  <2>4. Cardinality(below(x)) \in Nat /\ Cardinality(below(y)) \in Nat
    BY <2>2, FS_CardinalityType
  <2> QED BY <2>1, <2>3, <2>4
<1> QED BY <1>2, <1>3

LEMMA RanksUnique ==
  ASSUME NEW S, IsFiniteSet(S), NEW R, Orders(R, S), NEW x \in S, NEW y \in S,
         Cardinality(SetLessThan(x, R, S)) = Cardinality(SetLessThan(y, R, S))
  PROVE  x = y
<1>1. Cardinality(SetLessThan(x, R, S)) \in Int
  BY RanksDiffer
<1>2. ~(<<x, y>> \in R) /\ ~(<<y, x>> \in R)
  BY <1>1, RanksDiffer
<1> QED BY <1>2 DEF Orders

\* In a finite set every rank is some element's.
LEMMA Rank ==
  ASSUME NEW S, IsFiniteSet(S), NEW R, Orders(R, S), NEW i \in 1 .. Cardinality(S)
  PROVE  \E x \in S : Cardinality(SetLessThan(x, R, S)) = i - 1
<1> DEFINE n == Cardinality(S)
           f == [x \in S |-> Cardinality(SetLessThan(x, R, S))]
<1>1. n \in Nat /\ IsFiniteSet(0 .. n - 1) /\ Cardinality(0 .. n - 1) = n
  <2>1. n \in Nat
    BY FS_CardinalityType
  <2> HIDE DEF n
  <2>2. IsFiniteSet(0 .. n - 1) /\ Cardinality(0 .. n - 1) = IF 0 > n - 1 THEN 0 ELSE n - 1 - 0 + 1
    BY <2>1, FS_Interval
  <2> QED BY <2>1, <2>2
<1>2. f \in [S -> 0 .. n - 1] /\ \A x, y \in S : f[x] = f[y] => x = y
  <2>1. f \in [S -> 0 .. n - 1]
    BY RanksDiffer
  <2>2. ASSUME NEW x \in S, NEW y \in S, f[x] = f[y] PROVE x = y
    BY <2>2, RanksUnique
  <2> QED BY <2>1, <2>2
<1> HIDE DEF f
<1>3. f \in Injection(S, 0 .. n - 1)
  BY <1>2 DEF Injection, IsInjective
<1>4. f \in Surjection(S, 0 .. n - 1)
  BY <1>1, <1>3, FS_Injection
<1>5. \E x \in S : f[x] = i - 1
  BY <1>1, <1>4 DEF Surjection
<1> QED BY <1>5 DEF f

\* s lists S in the order of R.
Lists(s, S, R) ==
  /\ s \in [1 .. Cardinality(S) -> S]
  /\ \A i \in 1 .. Cardinality(S) : Cardinality(SetLessThan(s[i], R, S)) = i - 1
  /\ \A x \in S : \E i \in 1 .. Cardinality(S) : s[i] = x

LEMMA RanksList ==
  ASSUME NEW S, IsFiniteSet(S), NEW R, Orders(R, S), NEW s,
         s = [i \in 1 .. Cardinality(S) |-> s[i]],
         \A i \in 1 .. Cardinality(S) :
           s[i] \in S /\ Cardinality(SetLessThan(s[i], R, S)) = i - 1
  PROVE  Lists(s, S, R)
<1> DEFINE n == Cardinality(S)
<1>0. n \in Nat
  BY FS_CardinalityType
<1>1. \A i \in 1 .. n : s[i] \in S /\ Cardinality(SetLessThan(s[i], R, S)) = i - 1
  OBVIOUS
<1>2. ASSUME NEW x \in S
      PROVE  \E i \in 1 .. n : s[i] = x
  <2> DEFINE i == Cardinality(SetLessThan(x, R, S)) + 1
  <2>1. Cardinality(SetLessThan(x, R, S)) \in 0 .. n - 1
    BY RanksDiffer
  <2>2. i \in 1 .. n /\ i - 1 = Cardinality(SetLessThan(x, R, S))
    BY <1>0, <2>1
  <2>3. s[i] \in S /\ Cardinality(SetLessThan(s[i], R, S)) = Cardinality(SetLessThan(x, R, S))
    BY <1>1, <2>2
  <2>4. s[i] = x
    BY <2>3, RanksUnique
  <2> QED BY <2>2, <2>4
<1> QED BY <1>1, <1>2 DEF Lists

\* A set in bijection with a sorted one, and ordered like it, has the same ranks.
LEMMA RanksCarried ==
  ASSUME NEW S, IsFiniteSet(S), NEW R, Orders(R, S), NEW A, NEW f \in Bijection(A, S), NEW Q,
         \A x, y \in A : <<x, y>> \in Q <=> <<f[x], f[y]>> \in R,
         NEW i \in 1 .. Cardinality(S)
  PROVE  /\ \E a \in A : Cardinality(SetLessThan(a, Q, A)) = i - 1
         /\ \A a \in A, b \in S :
              /\ Cardinality(SetLessThan(a, Q, A)) = i - 1
              /\ Cardinality(SetLessThan(b, R, S)) = i - 1
              => f[a] = b
<1>1. /\ f \in [A -> S] /\ \A x, y \in A : f[x] = f[y] => x = y
      /\ \A y \in S : \E x \in A : f[x] = y
  BY DEF Bijection, Injection, Surjection, IsInjective
<1>2. ASSUME NEW a \in A
      PROVE  Cardinality(SetLessThan(a, Q, A)) = Cardinality(SetLessThan(f[a], R, S))
  <2> DEFINE B == SetLessThan(a, Q, A)
             C == SetLessThan(f[a], R, S)
             g == [x \in B |-> f[x]]
  <2>1. B \subseteq A /\ C \in SUBSET S /\ f[a] \in S
    BY <1>1 DEF SetLessThan
  <2>2. \A x \in A : x \in B <=> f[x] \in C
    BY <1>1 DEF SetLessThan
  <2> HIDE DEF B, C
  <2>3. g \in [B -> C] /\ \A x, y \in B : g[x] = g[y] => x = y
    BY <1>1, <2>1, <2>2
  <2>4. \A y \in C : \E x \in B : g[x] = y
    BY <1>1, <2>1, <2>2
  <2> HIDE DEF g
  <2>5. g \in Bijection(B, C)
    BY <2>3, <2>4 DEF Bijection, Injection, Surjection, IsInjective
  <2>6. IsFiniteSet(C)
    BY <2>1, FS_Subset
  <2>7. ExistsBijection(B, C)
    BY <2>5 DEF ExistsBijection
  <2>8. ExistsBijection(C, B)
    BY <2>7, Fun_ExistsBijSymmetric
  <2> QED BY <2>6, <2>8, FS_Bijection DEF B, C
<1>3. PICK x \in S : Cardinality(SetLessThan(x, R, S)) = i - 1
  BY Rank
<1>4. PICK a \in A : f[a] = x
  BY <1>1
<1>5. Cardinality(SetLessThan(a, Q, A)) = i - 1
  BY <1>2, <1>3, <1>4
<1>6. ASSUME NEW c \in A, NEW b \in S, Cardinality(SetLessThan(c, Q, A)) = i - 1,
             Cardinality(SetLessThan(b, R, S)) = i - 1
      PROVE  f[c] = b
  <2>1. f[c] \in S /\ Cardinality(SetLessThan(f[c], R, S)) = Cardinality(SetLessThan(b, R, S))
    BY <1>1, <1>2, <1>6
  <2> QED BY <2>1, RanksUnique
<1> QED BY <1>5, <1>6

IsRecursion(f, a, n, next) ==
  f = [i \in 0 .. n |-> IF i = 0 THEN a ELSE next[<<i, f[i - 1]>>]]

\* A recursive definition over 0 .. n has the value its equation says.
LEMMA RecursionExists ==
  ASSUME NEW S, NEW a \in S, NEW n \in Nat, NEW next \in [(1 .. n) \X S -> S]
  PROVE  \E f \in [0 .. n -> S] : IsRecursion(f, a, n, next)
<1> DEFINE RunsTo(f, m) == f \in [0 .. m -> S] /\ f[0] = a /\ \A i \in 1 .. m : f[i] = next[<<i, f[i - 1]>>]
           HasRun(m) == \E f : RunsTo(f, m)
           Bad == {m \in 0 .. n : ~HasRun(m)}
<1>1. Bad = {}
  <2> SUFFICES ASSUME Bad # {} PROVE FALSE
    OBVIOUS
  <2>1. PICK m \in Bad : \A k \in Bad : m <= k
    <3>1. Bad \in SUBSET Nat
      OBVIOUS
    <3> HIDE DEF Bad
    <3> QED BY <3>1, Least
  <2>2. m # 0
    <3>1. RunsTo([i \in 0 .. 0 |-> a], 0)
      OBVIOUS
    <3> QED BY <3>1
  <2>3. PICK f : RunsTo(f, m - 1)
    <3>1. m - 1 \in 0 .. n /\ ~(m <= m - 1)
      BY <2>2
    <3> HIDE DEF HasRun
    <3>2. HasRun(m - 1)
      BY <2>1, <3>1
    <3> QED BY <3>2 DEF HasRun
  <2> DEFINE g == [i \in 0 .. m |-> IF i = m THEN next[<<m, f[m - 1]>>] ELSE f[i]]
  <2>4. m \in 1 .. n
    BY <2>2
  <2>4a. g \in [0 .. m -> S]
    <3>1. next[<<m, f[m - 1]>>] \in S
      BY <2>3, <2>4
    <3>2. \A i \in 0 .. m : i # m => f[i] \in S
      BY <2>3, <2>4
    <3> QED BY <3>1, <3>2
  <2>5. RunsTo(g, m)
    <3>1. g[0] = a
      BY <2>3, <2>4
    <3>2. ASSUME NEW i \in 1 .. m PROVE g[i] = next[<<i, g[i - 1]>>]
      <4>1. i - 1 \in 0 .. m /\ i - 1 # m /\ m \in Nat
        BY <2>4
      <4>2. g[i - 1] = f[i - 1]
        BY <4>1
      <4>3. CASE i = m
        BY <4>1, <4>2, <4>3
      <4>4. CASE i # m
        <5>1. i \in 1 .. m - 1 /\ i \in 0 .. m
          BY <4>1, <4>4
        <5>2. g[i] = f[i]
          BY <4>4, <5>1
        <5> HIDE DEF g
        <5> QED BY <2>3, <4>2, <5>1, <5>2
      <4> QED BY <4>3, <4>4
    <3> QED BY <2>4a, <3>1, <3>2
  <2> QED BY <2>4, <2>5
<1>2. PICK f : RunsTo(f, n)
  <2> HIDE DEF HasRun
  <2>1. n \in 0 .. n
    OBVIOUS
  <2>2. HasRun(n)
    BY <1>1, <2>1
  <2> QED BY <2>2 DEF HasRun
<1>3. IsRecursion(f, a, n, next)
  BY <1>2 DEF IsRecursion
<1> QED BY <1>2, <1>3

LEMMA LargestExists ==
  ASSUME NEW S, IsFiniteSet(S), S # {}, NEW R, Orders(R, S)
  PROVE  \E x \in S : \A y \in S : x = y \/ <<y, x>> \in R
<1>1. Cardinality(S) \in Nat \ {0}
  BY FS_CardinalityType, FS_EmptySet
<1>2. PICK x \in S : Cardinality(SetLessThan(x, R, S)) = Cardinality(S) - 1
  <2>1. Cardinality(S) \in 1 .. Cardinality(S)
    BY <1>1
  <2>2. \A i \in 1 .. Cardinality(S) : \E x \in S : Cardinality(SetLessThan(x, R, S)) = i - 1
    BY Rank
  <2> QED BY <2>1, <2>2
<1> DEFINE below == SetLessThan(x, R, S)
<1>3. IsFiniteSet(S \ {x}) /\ Cardinality(S \ {x}) = Cardinality(S) - 1
  BY FS_RemoveElement
<1>4. below \in SUBSET (S \ {x})
  BY DEF SetLessThan, Orders
<1>5. below = S \ {x}
  <2> HIDE DEF below
  <2>1. Cardinality(below) = Cardinality(S \ {x})
    BY <1>2, <1>3 DEF below
  <2> QED BY <1>3, <1>4, <2>1, FS_Subset
<1> QED BY <1>5 DEF SetLessThan

\* The largest of a finite set of integers.
LEMMA MaxOfFinite ==
  ASSUME NEW S \in SUBSET Int, IsFiniteSet(S), S # {}
  PROVE  Max(S) \in S /\ \A x \in S : Max(S) >= x
<1> DEFINE R == {xy \in S \X S : xy[1] < xy[2]}
<1>1. \A x, y \in S : <<x, y>> \in R <=> x < y
  OBVIOUS
<1> HIDE DEF R
<1>2. Orders(R, S)
  BY <1>1 DEF Orders
<1>3. PICK x \in S : \A y \in S : x = y \/ <<y, x>> \in R
  BY <1>2, LargestExists
<1>4. ASSUME NEW y \in S PROVE x >= y
  <2>1. x \in Int /\ y \in Int /\ (x = y \/ y < x)
    BY <1>1, <1>3
  <2> QED BY <2>1
<1> QED BY <1>4 DEF Max

LEMMA MinOfTwo ==
  ASSUME NEW a \in Int, NEW b \in Int
  PROVE  /\ Min({a, b}) = IF a <= b THEN a ELSE b
         /\ Min({a, b}) \in Int /\ Min({a, b}) <= a /\ Min({a, b}) <= b
<1> DEFINE m == IF a <= b THEN a ELSE b
<1>1. m \in {a, b} /\ \A y \in {a, b} : m <= y
  OBVIOUS
<1>2. \A x \in {a, b} : (\A y \in {a, b} : x <= y) => x = m
  BY <1>1
<1>3. Min({a, b}) = CHOOSE x \in {a, b} : \A y \in {a, b} : x <= y
  BY DEF Min
<1>4. Min({a, b}) = m
  <2> HIDE DEF m
  <2> QED BY <1>1, <1>2, <1>3
<1> QED BY <1>4

-----------------------------------------------------------------------------
\* The pairs' orders are total.
LEMMA PageBeforeTotal ==
  /\ \A x, y \in Nat \X Nat : x # y => (PageBefore(x, y) <=> ~PageBefore(y, x))
  /\ \A x \in Nat \X Nat : ~PageBefore(x, x)
  /\ \A x, y, z \in Nat \X Nat : PageBefore(x, y) /\ PageBefore(y, z) => PageBefore(x, z)
<1>1. ASSUME NEW x \in Nat \X Nat, NEW y \in Nat \X Nat, x # y
      PROVE  PageBefore(x, y) <=> ~PageBefore(y, x)
  <2>1. x[1] # y[1] \/ x[2] # y[2]
    BY <1>1
  <2> QED BY <2>1 DEF PageBefore
<1> QED BY <1>1 DEF PageBefore

LEMMA BeforeTotal ==
  /\ \A x, y \in Entries : x # y => (Before(x, y) <=> ~Before(y, x))
  /\ \A x \in Entries : ~Before(x, x)
  /\ \A x, y, z \in Entries : Before(x, y) /\ Before(y, z) => Before(x, z)
<1>0. \A x \in Entries : x[1] \in Nat /\ x[2] \in Nat \X Nat
  BY DEF Entries
<1>1. ASSUME NEW x \in Entries, NEW y \in Entries, x # y
      PROVE  Before(x, y) <=> ~Before(y, x)
  <2>1. x[1] # y[1] \/ x[2] # y[2]
    BY <1>1 DEF Entries
  <2> QED BY <1>0, <2>1, PageBeforeTotal DEF Before
<1>2. ASSUME NEW x \in Entries PROVE ~Before(x, x)
  BY <1>0, PageBeforeTotal DEF Before
<1>3. ASSUME NEW x \in Entries, NEW y \in Entries, NEW z \in Entries, Before(x, y), Before(y, z)
      PROVE  Before(x, z)
  <2>1. PageBefore(x[2], y[2]) /\ PageBefore(y[2], z[2]) => PageBefore(x[2], z[2])
    BY <1>0, PageBeforeTotal
  <2> QED BY <1>0, <1>3, <2>1 DEF Before
<1> QED BY <1>1, <1>2, <1>3

-----------------------------------------------------------------------------
(***************************************************************************)
(* The heap.                                                               *)
(***************************************************************************)
LEMMA TopFacts ==
  ASSUME NEW h, IsHeap(h), h # {}
  PROVE  TopEntry(h) \in h /\ \A x \in h : x = TopEntry(h) \/ Before(x, TopEntry(h))
<1> DEFINE R == {xy \in h \X h : Before(xy[1], xy[2])}
<1>1. \A x, y \in h : <<x, y>> \in R <=> Before(x, y)
  OBVIOUS
<1> HIDE DEF R
<1>2. Orders(R, h)
  BY <1>1, BeforeTotal DEF Orders, IsHeap
<1>3. PICK x \in h : \A y \in h : x = y \/ <<y, x>> \in R
  BY <1>2, LargestExists DEF IsHeap
<1>4. \A y \in h : x = y \/ Before(y, x)
  BY <1>1, <1>3
<1>5. TopEntry(h) \in h /\ \A y \in h : TopEntry(h) = y \/ Before(y, TopEntry(h))
  BY <1>4 DEF TopEntry
<1> QED BY <1>5

LEMMA TopDistance ==
  ASSUME NEW h, IsHeap(h), h # {}
  PROVE  TopEntry(h)[1] \in Nat /\ \A x \in h : x[1] \in Nat /\ x[1] <= TopEntry(h)[1]
<1>1. \A x \in h : x[1] \in Nat
  BY DEF IsHeap, Entries
<1> QED BY <1>1, TopFacts DEF Before

LEMMA TopOfHeap ==
  ASSUME NEW h, IsHeap(h), NEW old \in Nat
  PROVE  /\ HeapTop(h, old) \in Nat
         /\ Cardinality(h) = K => Dominated(h, HeapTop(h, old))
<1>1. CASE h = {}
  BY <1>1, PagedVectorsAssumption, FS_EmptySet DEF HeapTop
<1>2. CASE h # {}
  BY <1>2, TopDistance DEF HeapTop, Dominated
<1> QED BY <1>1, <1>2

\* g vouches for all that h does.
Keeps(h, g) ==
  /\ \A y \in Entries : Covers(h, y) => Covers(g, y)
  /\ \A d \in Nat : Dominated(h, d) => Dominated(g, d)

\* push_heap and replace: what was vouched for still is, and the new entry is.
LEMMA OfferKeeps ==
  ASSUME NEW h, IsHeap(h), NEW x \in Entries, x \notin h
  PROVE  LET g == Offer(h, x, K)
         IN IsHeap(g) /\ g \subseteq h \cup {x} /\ Covers(g, x) /\ Keeps(h, g)
<1> DEFINE g == Offer(h, x, K)
           top == TopEntry(h)
<1>0. K \in Nat \ {0} /\ Cardinality(h) \in Nat /\ Cardinality(h) <= K /\ IsFiniteSet(h) /\ h \subseteq Entries
  BY PagedVectorsAssumption, FS_CardinalityType DEF IsHeap
<1>1. x[1] \in Nat /\ \A y \in Entries : y[1] \in Nat
  BY DEF Entries
<1>2. CASE Cardinality(h) < K
  <2>1. g = h \cup {x}
    BY <1>2 DEF Offer
  <2>2. IsFiniteSet(h \cup {x}) /\ Cardinality(h \cup {x}) = Cardinality(h) + 1
    BY <1>0, FS_AddElement
  <2>3. IsHeap(g)
    BY <1>0, <1>2, <2>1, <2>2 DEF IsHeap
  <2>4. \A d : ~Dominated(h, d)
    BY <1>0, <1>2 DEF Dominated
  <2> HIDE DEF g
  <2> QED BY <2>1, <2>3, <2>4 DEF Covers, Keeps, g
<1>3. CASE ~(Cardinality(h) < K)
  <2>1. Cardinality(h) = K /\ h # {}
    BY <1>0, <1>3, FS_EmptySet
  <2>2. top \in h /\ top[1] \in Nat /\ \A y \in h : y[1] \in Nat /\ y[1] <= top[1]
    BY <2>1, TopFacts, TopDistance
  <2>3. CASE top[1] > x[1]
    <3>1. g = (h \ {top}) \cup {x}
      BY <1>3, <2>3 DEF Offer
    <3>2. IsFiniteSet(h \ {top}) /\ Cardinality(h \ {top}) = K - 1
      BY <1>0, <2>1, <2>2, FS_RemoveElement
    <3>3. IsFiniteSet(g) /\ Cardinality(g) = K
      <4>1. x \notin h \ {top}
        OBVIOUS
      <4>2. IsFiniteSet((h \ {top}) \cup {x}) /\ Cardinality((h \ {top}) \cup {x}) = Cardinality(h \ {top}) + 1
        BY <3>2, <4>1, FS_AddElement
      <4> QED BY <1>0, <3>1, <3>2, <4>2
    <3> HIDE DEF g
    <3>4. IsHeap(g)
      BY <1>0, <3>1, <3>3 DEF IsHeap
    <3>5. Dominated(g, top[1])
      BY <1>1, <2>2, <2>3, <3>1, <3>3 DEF Dominated
    <3>6. \A d \in Nat : Dominated(h, d) => Dominated(g, d)
      <4> SUFFICES ASSUME NEW d \in Nat, Dominated(h, d)
                   PROVE  Dominated(g, d)
        OBVIOUS
      <4>1. top[1] <= d
        BY <2>2 DEF Dominated
      <4> QED BY <1>1, <2>2, <2>3, <3>1, <3>3, <4>1 DEF Dominated
    <3>7. \A y \in Entries : Covers(h, y) => Covers(g, y)
      BY <1>1, <3>1, <3>5, <3>6 DEF Covers
    <3> QED BY <3>1, <3>4, <3>6, <3>7 DEF Covers, Keeps, g
  <2>4. CASE ~(top[1] > x[1])
    <3>1. g = h
      BY <1>3, <2>4 DEF Offer
    <3>2. Dominated(h, x[1])
      BY <1>1, <2>1, <2>2, <2>4 DEF Dominated
    <3> QED BY <3>1, <3>2 DEF Covers, Keeps
  <2> QED BY <2>3, <2>4
<1> QED BY <1>2, <1>3

-----------------------------------------------------------------------------
(***************************************************************************)
(* Pages and their vectors.                                                *)
(***************************************************************************)
LEMMA SquareTyped ==
  ASSUME NEW x \in Int, NEW y \in Int
  PROVE  SquaredL2(x, y) \in Nat
<1> DEFINE d == x - y
<1>1. d \in Int
  OBVIOUS
<1> HIDE DEF d
<1>2. d * d \in Nat
  <2>1. CASE d >= 0
    BY <1>1, <2>1
  <2>2. CASE d < 0
    <3> DEFINE e == 0 - d
    <3>1. e \in Nat /\ d = 0 - e
      BY <1>1, <2>2
    <3> HIDE DEF e
    <3>2. d * d = e * e /\ e * e \in Nat
      BY <3>1
    <3> QED BY <3>2
  <2> QED BY <1>1, <2>1, <2>2
<1> QED BY <1>2 DEF SquaredL2, d

LEMMA PagesTyped ==
  /\ Len(Pages) \in Nat \ {0} /\ DOMAIN Pages = 1 .. NumPages /\ NumPages = Len(Pages)
  /\ \A p \in DOMAIN Pages :
       /\ Len(Pages[p]) \in Nat \ {0} /\ DOMAIN Pages[p] = 1 .. Len(Pages[p])
       /\ \A i \in DOMAIN Pages[p] : Pages[p][i] \in Int
<1>1. Pages \in Seq(Seq(Int) \ {<<>>}) /\ Pages # <<>>
  BY PagedVectorsAssumption
<1>2. /\ Len(Pages) \in Nat \ {0} /\ DOMAIN Pages = 1 .. Len(Pages)
      /\ \A p \in DOMAIN Pages : Pages[p] \in Seq(Int) \ {<<>>}
  BY <1>1, LenProperties, EmptySeq, ElementOfSeq
<1>3. ASSUME NEW p \in DOMAIN Pages
      PROVE  /\ Len(Pages[p]) \in Nat \ {0} /\ DOMAIN Pages[p] = 1 .. Len(Pages[p])
             /\ \A i \in DOMAIN Pages[p] : Pages[p][i] \in Int
  BY <1>2, LenProperties, EmptySeq, ElementOfSeq
<1> QED BY <1>2, <1>3 DEF NumPages

LEMMA MemberTyped ==
  ASSUME NEW q \in Queries, NEW p \in DOMAIN Pages, NEW i \in DOMAIN Pages[p]
  PROVE  /\ Member(q, p, i) \in Entries /\ Member(q, p, i)[1] = SquaredL2(q, Pages[p][i])
         /\ Member(q, p, i)[2] = <<p, i>> /\ SquaredL2(q, Pages[p][i]) \in Nat
<1>1. q \in Int /\ Pages[p][i] \in Int /\ p \in Nat /\ i \in Nat
  BY PagesTyped, PagedVectorsAssumption
<1>2. SquaredL2(q, Pages[p][i]) \in Nat
  BY <1>1, SquareTyped
<1> QED BY <1>1, <1>2 DEF Member, Entries

LEMMA FirstVector == \A p \in DOMAIN Pages : 1 \in DOMAIN Pages[p]
  BY PagesTyped

LEMMA MaxDistFacts ==
  ASSUME NEW p \in DOMAIN Pages
  PROVE  /\ MaxDist(p) \in Nat
         /\ \A i \in DOMAIN Pages[p] : SquaredL2(Pages[p][1], Pages[p][i]) \in Nat
                                       /\ SquaredL2(Pages[p][1], Pages[p][i]) <= MaxDist(p)
<1> DEFINE f == [i \in DOMAIN Pages[p] |-> SquaredL2(Pages[p][1], Pages[p][i])]
           S == {SquaredL2(Pages[p][1], Pages[p][i]) : i \in DOMAIN Pages[p]}
<1>1. \A i \in DOMAIN Pages[p] : SquaredL2(Pages[p][1], Pages[p][i]) \in Nat
  BY PagesTyped, FirstVector, SquareTyped
<1>2. S \in SUBSET Int /\ S # {}
  BY <1>1, FirstVector
<1>3. IsFiniteSet(S)
  <2>1. IsFiniteSet(DOMAIN Pages[p])
    BY PagesTyped, FS_Interval
  <2>2. f \in Surjection(DOMAIN Pages[p], S)
    BY DEF Surjection
  <2> HIDE DEF f, S
  <2> QED BY <2>1, <2>2, FS_Surjection
<1>4. Max(S) \in S /\ \A x \in S : Max(S) >= x
  <2> HIDE DEF S
  <2> QED BY <1>2, <1>3, MaxOfFinite
<1>5. MaxDist(p) = Max(S)
  BY DEF MaxDist
<1> QED BY <1>1, <1>4, <1>5

\* The page bound, for vectors: a skipped page has nothing within W.
LEMMA PrunedIsFarther ==
  ASSUME NEW q \in Queries, NEW p \in DOMAIN Pages, NEW W \in Nat,
         PruneExact(SquaredL2(q, Pages[p][1]), MaxDist(p), W), NEW i \in DOMAIN Pages[p]
  PROVE  Member(q, p, i)[1] > W
<1> DEFINE a == Pages[p][1]
           v == Pages[p][i]
           D == SquaredL2(q, a)
           M == MaxDist(p)
           V == SquaredL2(a, v)
           c == (q - a) * (v - a)
<1>1. q \in Int /\ a \in Int /\ v \in Int
  BY PagesTyped, FirstVector, PagedVectorsAssumption
<1>2. D \in Nat /\ M \in Nat /\ V \in Nat /\ V <= M /\ c \in Int
  <2>1. M \in Nat /\ V \in Nat /\ V <= M
    BY MaxDistFacts
  <2> HIDE DEF a, v
  <2>2. D \in Nat
    BY <1>1, SquareTyped
  <2>3. q - a \in Int /\ v - a \in Int
    BY <1>1
  <2>4. c \in Int
    BY <2>3
  <2> QED BY <2>1, <2>2, <2>4
<1>3. c * c = D * V /\ D + V - 2 * c = SquaredL2(q, v)
  <2> HIDE DEF a, v
  <2>1. D = (q - a) * (q - a) /\ V = (v - a) * (v - a)
    BY <1>1 DEF SquaredL2
  <2> DEFINE s == q - a
             u == v - a
  <2>2. s \in Int /\ u \in Int /\ D = s * s /\ V = u * u /\ c = s * u /\ q - v = s - u
    BY <1>1, <2>1
  <2>3. SquaredL2(q, v) = (s - u) * (s - u)
    BY <2>2 DEF SquaredL2
  <2> HIDE DEF s, u, D, V, c
  <2>4. (s * u) * (s * u) = (s * s) * (u * u)
    BY <2>2
  <2>5. (s - u) * (s - u) = s * s + u * u - 2 * (s * u)
    BY <2>2
  <2> QED BY <2>2, <2>3, <2>4, <2>5
<1>4. D + V - 2 * c > W
  <2>1. c * c <= D * V
    BY <1>2, <1>3
  <2>2. PruneExact(D, M, W)
    OBVIOUS
  <2> HIDE DEF D, M, V, c
  <2> QED BY <1>2, <2>1, <2>2, PruneSound
<1> QED BY <1>3, <1>4, MemberTyped

\* A full heap that rules a page out vouches for its vectors.
LEMMA RuledOutIsCovered ==
  ASSUME NEW h, IsHeap(h), NEW q \in Queries, NEW p \in DOMAIN Pages,
         RuledOut(h, AnchorDistance(q, p)), NEW i \in DOMAIN Pages[p]
  PROVE  Covers(h, Member(q, p, i))
<1>1. Cardinality(h) = K /\ PruneExact(SquaredL2(q, Pages[p][1]), MaxDist(p), TopEntry(h)[1])
  BY DEF RuledOut, AnchorDistance
<1>2. h # {}
  BY <1>1, PagedVectorsAssumption, FS_EmptySet
<1>3. TopEntry(h)[1] \in Nat /\ \A x \in h : x[1] \in Nat /\ x[1] <= TopEntry(h)[1]
  BY <1>2, TopDistance
<1>4. Member(q, p, i)[1] > TopEntry(h)[1] /\ Member(q, p, i)[1] \in Nat
  BY <1>1, <1>3, PrunedIsFarther, MemberTyped
<1> QED BY <1>1, <1>3, <1>4 DEF Covers, Dominated

-----------------------------------------------------------------------------
(***************************************************************************)
(* The scan of a page.                                                     *)
(***************************************************************************)
LEMMA OfferMembersDef ==
  ASSUME NEW h \in SUBSET Entries, NEW q \in Queries, NEW p \in DOMAIN Pages
  PROVE  /\ \A i \in 0 .. Len(Pages[p]) : OfferMembers(h, q, p)[i] \in SUBSET Entries
         /\ OfferMembers(h, q, p)[0] = h
         /\ \A i \in 1 .. Len(Pages[p]) :
              OfferMembers(h, q, p)[i] = Offer(OfferMembers(h, q, p)[i - 1], Member(q, p, i), K)
<1> DEFINE n == Len(Pages[p])
           S == SUBSET Entries
           next == [ix \in (1 .. n) \X S |-> Offer(ix[2], Member(q, p, ix[1]), K)]
           IsDef(f) == f = [i \in 0 .. n |-> IF i = 0 THEN h ELSE Offer(f[i - 1], Member(q, p, i), K)]
<1>1. n \in Nat /\ h \in S
  BY PagesTyped
<1>2. ASSUME NEW i \in 1 .. n, NEW g \in S
      PROVE  Offer(g, Member(q, p, i), K) \in S
  <2>1. Member(q, p, i) \in Entries
    BY PagesTyped, MemberTyped
  <2> QED BY <2>1 DEF Offer
<1>3. next \in [(1 .. n) \X S -> S]
  BY <1>2
<1>4. \E f \in [0 .. n -> S] : IsRecursion(f, h, n, next)
  <2> HIDE DEF next, n, S
  <2> QED BY <1>1, <1>3, RecursionExists
<1>5. PICK f \in [0 .. n -> S] : IsRecursion(f, h, n, next)
  BY <1>4
<1>6. IsDef(f)
  <2>1. ASSUME NEW i \in 0 .. n, i # 0
        PROVE  next[<<i, f[i - 1]>>] = Offer(f[i - 1], Member(q, p, i), K)
    <3>1. i \in 1 .. n /\ i - 1 \in 0 .. n
      BY <1>1, <2>1
    <3>2. f[i - 1] \in S
      BY <3>1
    <3> HIDE DEF n, S
    <3> QED BY <3>1, <3>2
  <2> HIDE DEF next, n, S
  <2> QED BY <1>5, <2>1 DEF IsRecursion
<1>7. OfferMembers(h, q, p) = CHOOSE g : IsDef(g)
  BY DEF OfferMembers
<1>8. IsDef(OfferMembers(h, q, p))
  <2> HIDE DEF IsDef
  <2> QED BY <1>6, <1>7
<1> DEFINE g == OfferMembers(h, q, p)
<1>9. g[0] = h /\ \A i \in 1 .. n : g[i] = Offer(g[i - 1], Member(q, p, i), K)
  BY <1>1, <1>8
<1> HIDE DEF g
<1>10. ASSUME NEW i \in 0 .. n, g[i] \notin S
       PROVE  FALSE
  <2> DEFINE Bad == {j \in 0 .. n : g[j] \notin S}
  <2>1. PICK j \in Bad : \A k \in Bad : j <= k
    <3>1. Bad \in SUBSET Nat /\ i \in Bad
      BY <1>1, <1>10
    <3> HIDE DEF Bad
    <3> QED BY <3>1, Least
  <2>2. j # 0
    BY <1>1, <1>9
  <2>3. j \in 1 .. n /\ j - 1 \in 0 .. n /\ ~(j <= j - 1)
    BY <1>1, <2>2
  <2>4. g[j - 1] \in S
    BY <2>1, <2>3
  <2>5. g[j] \in S
    <3> HIDE DEF S
    <3> QED BY <1>2, <1>9, <2>3, <2>4
  <2> QED BY <2>5
<1> QED BY <1>9, <1>10 DEF g

Members(q, p) == {Member(q, p, i) : i \in DOMAIN Pages[p]}

LEMMA OffersKeep ==
  ASSUME NEW h, IsHeap(h), NEW q \in Queries, NEW p \in DOMAIN Pages,
         \A x \in h : x[2][1] # p, NEW n \in 0 .. Len(Pages[p])
  PROVE  LET g == OfferMembers(h, q, p)[n]
         IN /\ IsHeap(g) /\ g \subseteq h \cup {Member(q, p, i) : i \in 1 .. n}
            /\ Keeps(h, g) /\ \A i \in 1 .. n : Covers(g, Member(q, p, i))
<1> DEFINE g(i) == OfferMembers(h, q, p)[i]
           Good(i) == /\ IsHeap(g(i)) /\ g(i) \subseteq h \cup {Member(q, p, j) : j \in 1 .. i}
                      /\ Keeps(h, g(i)) /\ \A j \in 1 .. i : Covers(g(i), Member(q, p, j))
           Bad == {i \in 0 .. Len(Pages[p]) : ~Good(i)}
<1>0. Len(Pages[p]) \in Nat /\ DOMAIN Pages[p] = 1 .. Len(Pages[p])
  BY PagesTyped
<1>h. h \in SUBSET Entries
  BY DEF IsHeap
<1>1. Good(0)
  <2>1. g(0) = h
    BY <1>h, OfferMembersDef
  <2> HIDE DEF g
  <2> QED BY <2>1 DEF Keeps
<1>2. ASSUME NEW i \in 1 .. Len(Pages[p]), Good(i - 1)
      PROVE  Good(i)
  <2> DEFINE x == Member(q, p, i)
  <2>1. x \in Entries /\ x[2] = <<p, i>>
    BY <1>0, MemberTyped
  <2>2. g(i) = Offer(g(i - 1), x, K)
    BY <1>h, OfferMembersDef
  <2>3. x \notin g(i - 1)
    <3> SUFFICES ASSUME NEW j \in 1 .. i - 1, x = Member(q, p, j)
                 PROVE  FALSE
      BY <1>2, <2>1
    <3>1. Member(q, p, j)[2] = <<p, j>>
      BY <1>0, MemberTyped
    <3> QED BY <2>1, <3>1
  <2>4. IsHeap(g(i)) /\ g(i) \subseteq g(i - 1) \cup {x} /\ Covers(g(i), x) /\ Keeps(g(i - 1), g(i))
    <3> HIDE DEF x
    <3>1. IsHeap(g(i - 1))
      BY <1>2
    <3> DEFINE old == g(i - 1)
    <3> HIDE DEF old
    <3>2. LET new == Offer(old, x, K)
          IN IsHeap(new) /\ new \subseteq old \cup {x} /\ Covers(new, x) /\ Keeps(old, new)
      BY <2>1, <2>3, <3>1, OfferKeeps DEF old
    <3> QED BY <2>2, <3>2 DEF old
  <2>5. g(i) \subseteq h \cup {Member(q, p, j) : j \in 1 .. i}
    BY <1>2, <2>4
  <2>6. Keeps(h, g(i))
    <3> HIDE DEF g
    <3> QED BY <1>2, <2>4 DEF Keeps
  <2>7. ASSUME NEW j \in 1 .. i
        PROVE  Covers(g(i), Member(q, p, j))
    <3>1. CASE j = i
      BY <2>4, <3>1
    <3>2. CASE j # i
      <4>1. j \in 1 .. i - 1
        BY <3>2
      <4>2. Covers(g(i - 1), Member(q, p, j)) /\ Member(q, p, j) \in Entries
        BY <1>0, <1>2, <4>1, MemberTyped
      <4> HIDE DEF g
      <4> QED BY <2>4, <4>2 DEF Keeps
    <3> QED BY <3>1, <3>2
  <2> QED BY <2>4, <2>5, <2>6, <2>7
<1>3. Bad = {}
  <2> SUFFICES ASSUME NEW k \in Bad PROVE FALSE
    OBVIOUS
  <2>1. PICK i \in Bad : \A j \in Bad : i <= j
    <3>1. Bad \in SUBSET Nat
      BY <1>0
    <3> HIDE DEF Bad
    <3> QED BY <3>1, Least
  <2>2. i \in 0 .. Len(Pages[p]) /\ ~Good(i)
    OBVIOUS
  <2> HIDE DEF Good
  <2>3. i # 0
    BY <1>1, <2>2
  <2>4. i \in 1 .. Len(Pages[p]) /\ i - 1 \in 0 .. Len(Pages[p])
    BY <1>0, <2>2, <2>3
  <2>5. Good(i - 1)
    BY <2>1, <2>4
  <2> QED BY <1>2, <2>2, <2>4, <2>5
<1> QED BY <1>3

LEMMA ScanPageTyped ==
  ASSUME NEW h \in SUBSET Entries, NEW q \in Queries, NEW entry, entry[2] \in DOMAIN Pages
  PROVE  ScanPage(h, q, entry) \in SUBSET Entries
<1> DEFINE n == Len(Pages[entry[2]])
<1>1. n \in 0 .. n
  BY PagesTyped
<1>2. OfferMembers(h, q, entry[2])[n] \in SUBSET Entries
  BY <1>1, OfferMembersDef
<1> QED BY <1>2 DEF ScanPage

\* After a page is scanned or ruled out, the heap vouches for all its vectors.
LEMMA ScanPageKeeps ==
  ASSUME NEW h, IsHeap(h), NEW q \in Queries, NEW p \in DOMAIN Pages, \A x \in h : x[2][1] # p
  PROVE  LET g == ScanPage(h, q, AnchorDistance(q, p))
         IN /\ IsHeap(g) /\ g \subseteq h \cup Members(q, p)
            /\ Keeps(h, g) /\ \A x \in Members(q, p) : Covers(g, x)
<1> DEFINE g == ScanPage(h, q, AnchorDistance(q, p))
<1>1. CASE RuledOut(h, AnchorDistance(q, p))
  <2>1. g = h
    BY <1>1 DEF ScanPage
  <2> HIDE DEF g
  <2> QED BY <1>1, <2>1, RuledOutIsCovered DEF Keeps, Members, g
<1>2. CASE ~RuledOut(h, AnchorDistance(q, p))
  <2> DEFINE n == Len(Pages[p])
             after == OfferMembers(h, q, p)[n]
  <2>1. g = after
    BY <1>2 DEF ScanPage, AnchorDistance
  <2>2. n \in 0 .. n /\ DOMAIN Pages[p] = 1 .. n
    BY PagesTyped
  <2>3. /\ IsHeap(after) /\ after \subseteq h \cup {Member(q, p, i) : i \in 1 .. n}
        /\ Keeps(h, after) /\ \A i \in 1 .. n : Covers(after, Member(q, p, i))
    BY <2>2, OffersKeep
  <2> HIDE DEF g, after
  <2> QED BY <2>1, <2>2, <2>3 DEF Members, g
<1> QED BY <1>1, <1>2

-----------------------------------------------------------------------------
(***************************************************************************)
(* Sorted sets.                                                            *)
(***************************************************************************)
PageOrder(S) == {xy \in S \X S : PageBefore(xy[1], xy[2])}
EntryOrder(S) == {xy \in S \X S : Before(xy[1], xy[2])}

LEMMA SortedByPage ==
  ASSUME NEW S \in SUBSET (Nat \X Nat), IsFiniteSet(S)
  PROVE  /\ Orders(PageOrder(S), S) /\ Lists(SortedBy(S, PageBefore), S, PageOrder(S))
         /\ \A x \in S : SetLessThan(x, PageOrder(S), S) = {y \in S : PageBefore(y, x)}
<1> DEFINE s == SortedBy(S, PageBefore)
<1>1. \A x, y \in S : <<x, y>> \in PageOrder(S) <=> PageBefore(x, y)
  BY DEF PageOrder
<1>2. Orders(PageOrder(S), S)
  BY <1>1, PageBeforeTotal DEF Orders
<1>3. \A x \in S : SetLessThan(x, PageOrder(S), S) = {y \in S : PageBefore(y, x)}
  BY <1>1 DEF SetLessThan
<1>4. ASSUME NEW i \in 1 .. Cardinality(S)
      PROVE  s[i] \in S /\ Cardinality(SetLessThan(s[i], PageOrder(S), S)) = i - 1
  <2>1. \E x \in S : Cardinality(SetLessThan(x, PageOrder(S), S)) = i - 1
    BY <1>2, Rank
  <2>2. \E x \in S : Cardinality({y \in S : PageBefore(y, x)}) = i - 1
    BY <1>3, <2>1
  <2>3. s[i] = CHOOSE x \in S : Cardinality({y \in S : PageBefore(y, x)}) = i - 1
    BY DEF SortedBy
  <2> HIDE DEF s
  <2> QED BY <1>3, <2>2, <2>3
<1>5. s = [i \in 1 .. Cardinality(S) |-> s[i]]
  BY DEF SortedBy
<1>6. Lists(s, S, PageOrder(S))
  <2> HIDE DEF s
  <2> QED BY <1>2, <1>4, <1>5, RanksList
<1> QED BY <1>2, <1>3, <1>6

LEMMA SortedByDistance ==
  ASSUME NEW S \in SUBSET Entries, IsFiniteSet(S)
  PROVE  /\ Orders(EntryOrder(S), S) /\ Lists(Sorted(S), S, EntryOrder(S))
         /\ \A x \in S : SetLessThan(x, EntryOrder(S), S) = {y \in S : Before(y, x)}
<1> DEFINE s == Sorted(S)
<1>1. \A x, y \in S : <<x, y>> \in EntryOrder(S) <=> Before(x, y)
  BY DEF EntryOrder
<1>2. Orders(EntryOrder(S), S)
  BY <1>1, BeforeTotal DEF Orders
<1>3. \A x \in S : SetLessThan(x, EntryOrder(S), S) = {y \in S : Before(y, x)}
  BY <1>1 DEF SetLessThan
<1>4. ASSUME NEW i \in 1 .. Cardinality(S)
      PROVE  s[i] \in S /\ Cardinality(SetLessThan(s[i], EntryOrder(S), S)) = i - 1
  <2>1. \E x \in S : Cardinality(SetLessThan(x, EntryOrder(S), S)) = i - 1
    BY <1>2, Rank
  <2>2. \E x \in S : Cardinality({y \in S : Before(y, x)}) = i - 1
    BY <1>3, <2>1
  <2>3. s[i] = CHOOSE x \in S : Cardinality({y \in S : Before(y, x)}) = i - 1
    BY DEF Sorted, SortedBy
  <2> HIDE DEF s
  <2> QED BY <1>3, <2>2, <2>3
<1>5. s = [i \in 1 .. Cardinality(S) |-> s[i]]
  <2> DEFINE place(i) == CHOOSE x \in S : Cardinality({y \in S : Before(y, x)}) = i - 1
  <2>1. s = [i \in 1 .. Cardinality(S) |-> place(i)]
    BY DEF Sorted, SortedBy
  <2> HIDE DEF place, s
  <2> QED BY <2>1
<1>6. Lists(s, S, EntryOrder(S))
  <2> HIDE DEF s
  <2> QED BY <1>2, <1>4, <1>5, RanksList
<1> QED BY <1>2, <1>3, <1>6

\* With i entries within d, the i-th nearest is within d.
LEMMA RankBound ==
  ASSUME NEW S \in SUBSET Entries, IsFiniteSet(S), NEW D \in SUBSET S, NEW d \in Nat,
         \A x \in D : x[1] <= d, NEW i \in Nat \ {0}, i <= Cardinality(D)
  PROVE  i \in 1 .. Cardinality(S) /\ Sorted(S)[i] \in S /\ Sorted(S)[i][1] <= d
<1> DEFINE s == Sorted(S)
<1>0. IsFiniteSet(D) /\ Cardinality(D) \in Nat /\ Cardinality(S) \in Nat /\ Cardinality(D) <= Cardinality(S)
  BY FS_Subset, FS_CardinalityType
<1>1. i \in 1 .. Cardinality(S)
  BY <1>0
<1>2. /\ s[i] \in S /\ s[i] \in Entries
      /\ Cardinality({y \in S : Before(y, s[i])}) = i - 1
  BY <1>1, SortedByDistance DEF Lists
<1> HIDE DEF s
<1>3. \A x \in Entries : x[1] \in Nat
  BY DEF Entries
<1>4. ASSUME s[i][1] > d
      PROVE  FALSE
  <2> DEFINE below == {y \in S : Before(y, s[i])}
  <2>1. D \subseteq below
    BY <1>2, <1>3, <1>4 DEF Before
  <2>2. IsFiniteSet(below) /\ below \in SUBSET S
    <3>1. below \in SUBSET S
      OBVIOUS
    <3> QED BY <3>1, FS_Subset
  <2> HIDE DEF below
  <2>3. Cardinality(D) <= Cardinality(below)
    BY <2>1, <2>2, FS_Subset
  <2> QED BY <1>0, <1>2, <2>3 DEF below
<1> QED BY <1>1, <1>2, <1>3, <1>4 DEF s

\* The nearest i of a set, as a set.
LEMMA FirstOnes ==
  ASSUME NEW S \in SUBSET Entries, IsFiniteSet(S), NEW i \in 1 .. Cardinality(S)
  PROVE  \E D \in SUBSET S : Cardinality(D) = i /\ \A x \in D : x[1] <= Sorted(S)[i][1]
<1> DEFINE s == Sorted(S)
<1>1. /\ s[i] \in S /\ s[i] \in Entries
      /\ Cardinality({y \in S : Before(y, s[i])}) = i - 1
  BY SortedByDistance DEF Lists
<1> HIDE DEF s
<1>2. \A x \in Entries : x[1] \in Nat
  BY DEF Entries
<1> DEFINE below == {y \in S : Before(y, s[i])}
<1>3. IsFiniteSet(below) /\ below \in SUBSET S /\ s[i] \notin below
  <2>1. below \in SUBSET S
    OBVIOUS
  <2>2. s[i] \notin below
    BY <1>1, BeforeTotal
  <2> QED BY <2>1, <2>2, FS_Subset
<1>4. Cardinality(below \cup {s[i]}) = i
  <2>1. Cardinality(below) = i - 1 /\ i \in Int
    BY <1>1, FS_CardinalityType
  <2> HIDE DEF below
  <2>2. Cardinality(below \cup {s[i]}) = Cardinality(below) + 1
    BY <1>3, FS_AddElement
  <2> QED BY <2>1, <2>2
<1>5. \A x \in below \cup {s[i]} : x[1] <= s[i][1]
  BY <1>1, <1>2 DEF Before
<1>6. below \cup {s[i]} \in SUBSET S
  BY <1>1
<1> QED BY <1>4, <1>5, <1>6 DEF s

\* F has the distances of the K nearest of C when each entry of C that is not in F
\* has K entries of F no farther than it.
LEMMA SameDistances ==
  ASSUME NEW C \in SUBSET Entries, IsFiniteSet(C), NEW F \in SUBSET C,
         \A c \in C : c \in F \/ \E D \in SUBSET F : Cardinality(D) = K /\ \A x \in D : x[1] <= c[1],
         NEW i \in 1 .. Cardinality(C), i <= K
  PROVE  i \in 1 .. Cardinality(F) /\ Sorted(F)[i][1] = Sorted(C)[i][1]
<1>0. /\ IsFiniteSet(F) /\ Cardinality(F) \in Nat /\ Cardinality(C) \in Nat /\ i \in Nat \ {0}
      /\ K \in Nat /\ F \in SUBSET Entries /\ \A x \in Entries : x[1] \in Nat
  BY FS_Subset, FS_CardinalityType, PagedVectorsAssumption DEF Entries
<1>1. i \in 1 .. Cardinality(F)
  <2>1. CASE C \subseteq F
    <3>1. C = F
      BY <2>1
    <3> QED BY <3>1
  <2>2. CASE ~(C \subseteq F)
    <3>1. PICK D \in SUBSET F : Cardinality(D) = K
      BY <2>2
    <3>2. Cardinality(D) <= Cardinality(F)
      BY <1>0, FS_Subset
    <3> QED BY <1>0, <3>1, <3>2
  <2> QED BY <2>1, <2>2
<1> DEFINE a == Sorted(F)[i]
           b == Sorted(C)[i]
<1>2. a \in F /\ b \in C /\ a[1] \in Nat /\ b[1] \in Nat
  BY <1>0, <1>1, SortedByDistance DEF Lists
<1>3. b[1] <= a[1]
  <2>1. PICK D \in SUBSET F : Cardinality(D) = i /\ \A x \in D : x[1] <= a[1]
    BY <1>0, <1>1, FirstOnes
  <2>2. D \in SUBSET C /\ i <= Cardinality(D)
    BY <1>0, <2>1
  <2> HIDE DEF a
  <2> QED BY <1>0, <1>2, <2>1, <2>2, RankBound
<1>4. a[1] <= b[1]
  <2>1. PICK D \in SUBSET C : Cardinality(D) = i /\ \A x \in D : x[1] <= b[1]
    BY <1>0, FirstOnes
  <2>2. CASE D \subseteq F
    <3> HIDE DEF b
    <3>1. D \in SUBSET F /\ i <= Cardinality(D)
      BY <1>0, <2>1, <2>2
    <3> QED BY <1>0, <1>2, <2>1, <3>1, RankBound
  <2>3. CASE ~(D \subseteq F)
    <3>1. PICK c \in D : c \notin F
      BY <2>3
    <3>2. PICK B \in SUBSET F : Cardinality(B) = K /\ \A x \in B : x[1] <= c[1]
      BY <3>1
    <3> HIDE DEF b
    <3>3. i <= Cardinality(B) /\ \A x \in B : x[1] <= b[1]
      <4>1. c[1] \in Nat /\ c[1] <= b[1] /\ \A x \in B : x[1] \in Nat
        BY <1>0, <2>1
      <4> QED BY <1>0, <1>2, <3>2, <4>1
    <3> QED BY <1>0, <1>2, <3>3, RankBound
  <2> QED BY <2>2, <2>3
<1> QED BY <1>1, <1>2, <1>3, <1>4

-----------------------------------------------------------------------------
(***************************************************************************)
(* The sorted buffer and the candidates.                                   *)
(***************************************************************************)
AnchorDistances(q) == {AnchorDistance(q, p) : p \in DOMAIN Pages}

LEMMA AnchorTyped ==
  ASSUME NEW q \in Queries, NEW p \in DOMAIN Pages
  PROVE  /\ AnchorDistance(q, p) \in Nat \X Nat /\ AnchorDistance(q, p)[2] = p
         /\ AnchorDistance(q, p)[1] = SquaredL2(q, Pages[p][1])
<1>1. SquaredL2(q, Pages[p][1]) \in Nat /\ p \in Nat
  BY FirstVector, MemberTyped, PagesTyped
<1> QED BY <1>1 DEF AnchorDistance

LEMMA AnchorDistancesFinite ==
  ASSUME NEW q \in Queries
  PROVE  /\ AnchorDistances(q) \in SUBSET (Nat \X Nat) /\ IsFiniteSet(AnchorDistances(q))
         /\ Cardinality(AnchorDistances(q)) = NumPages
<1> DEFINE f == [p \in DOMAIN Pages |-> AnchorDistance(q, p)]
<1>1. f \in Bijection(DOMAIN Pages, AnchorDistances(q))
  <2>1. f \in [DOMAIN Pages -> AnchorDistances(q)] /\ \A x \in AnchorDistances(q) : \E p \in DOMAIN Pages : f[p] = x
    BY DEF AnchorDistances
  <2>2. \A p, r \in DOMAIN Pages : f[p] = f[r] => p = r
    BY AnchorTyped
  <2> HIDE DEF f
  <2> QED BY <2>1, <2>2 DEF Bijection, Injection, Surjection, IsInjective
<1>2. IsFiniteSet(DOMAIN Pages) /\ Cardinality(DOMAIN Pages) = NumPages
  BY PagesTyped, FS_Interval
<1>3. ExistsBijection(DOMAIN Pages, AnchorDistances(q))
  BY <1>1 DEF ExistsBijection
<1>4. AnchorDistances(q) \in SUBSET (Nat \X Nat)
  BY AnchorTyped DEF AnchorDistances
<1> QED BY <1>2, <1>3, <1>4, FS_Bijection

\* The buffer lists every page once, with its distance.
LEMMA SortedPagesFacts ==
  ASSUME NEW q \in Queries
  PROVE  /\ SortedPages[q] \in Seq(Nat \X Nat) /\ Len(SortedPages[q]) = NumPages
         /\ \A j \in 1 .. NumPages :
              /\ SortedPages[q][j][2] \in DOMAIN Pages
              /\ SortedPages[q][j] = AnchorDistance(q, SortedPages[q][j][2])
         /\ \A i, j \in 1 .. NumPages : SortedPages[q][i][2] = SortedPages[q][j][2] => i = j
         /\ \A p \in DOMAIN Pages : \E j \in 1 .. NumPages : SortedPages[q][j][2] = p
<1> DEFINE S == AnchorDistances(q)
           s == SortedPages[q]
<1>0. NumPages \in Nat
  BY PagesTyped
<1>1. s = SortedBy(S, PageBefore)
  BY DEF SortedPages, AnchorDistances
<1>2. Lists(s, S, PageOrder(S)) /\ Cardinality(S) = NumPages /\ S \in SUBSET (Nat \X Nat)
  BY <1>1, AnchorDistancesFinite, SortedByPage
<1> HIDE DEF s
<1>3. \A x \in S : x[2] \in DOMAIN Pages /\ x = AnchorDistance(q, x[2])
  BY AnchorTyped DEF AnchorDistances
<1>4. /\ s \in [1 .. NumPages -> S]
      /\ \A i \in 1 .. NumPages : Cardinality(SetLessThan(s[i], PageOrder(S), S)) = i - 1
      /\ \A x \in S : \E i \in 1 .. NumPages : s[i] = x
  BY <1>2 DEF Lists
<1> HIDE DEF S
<1>5. ASSUME NEW i \in 1 .. NumPages, NEW j \in 1 .. NumPages, s[i][2] = s[j][2]
      PROVE  i = j
  <2>1. s[i] = s[j]
    BY <1>3, <1>4, <1>5
  <2>2. i - 1 = j - 1
    BY <1>4, <2>1
  <2> QED BY <1>0, <2>2
<1>6. s \in Seq(Nat \X Nat) /\ Len(s) = NumPages
  <2>1. s \in [1 .. NumPages -> Nat \X Nat]
    BY <1>2, <1>4
  <2> QED BY <1>0, <2>1
<1>7. ASSUME NEW p \in DOMAIN Pages
      PROVE  \E j \in 1 .. NumPages : s[j][2] = p
  <2>1. AnchorDistance(q, p) \in S
    BY DEF S, AnchorDistances
  <2> QED BY <1>4, <2>1, AnchorTyped
<1> QED BY <1>3, <1>4, <1>5, <1>6, <1>7 DEF s

LEMMA NumProbedFacts ==
  ASSUME NEW n \in Probes
  PROVE  NumProbed(n) \in Nat \ {0} /\ NumProbed(n) <= NumPages
  BY PagesTyped, PagedVectorsAssumption DEF NumProbed

LEMMA CandidatesFacts ==
  ASSUME NEW q \in Queries, NEW n \in Probes
  PROVE  /\ Candidates[q][n] \in SUBSET Entries /\ IsFiniteSet(Candidates[q][n])
         /\ \A x \in Candidates[q][n] : \E j \in 1 .. NumProbed(n) : x \in Members(q, SortedPages[q][j][2])
         /\ \A j \in 1 .. NumProbed(n) : Members(q, SortedPages[q][j][2]) \subseteq Candidates[q][n]
<1> DEFINE P == ProbedPages(q, n)
           C == UNION {Members(q, p) : p \in P}
<1>1. Candidates[q][n] = C
  BY DEF Candidates, Members
<1>2. P = {SortedPages[q][j][2] : j \in 1 .. NumProbed(n)} /\ P \subseteq DOMAIN Pages
  <2>1. P = {SortedPages[q][j][2] : j \in 1 .. NumProbed(n)}
    BY DEF ProbedPages
  <2>2. \A j \in 1 .. NumProbed(n) : j \in 1 .. NumPages
    BY NumProbedFacts, PagesTyped
  <2>3. \A j \in 1 .. NumPages : SortedPages[q][j][2] \in DOMAIN Pages
    BY SortedPagesFacts
  <2> QED BY <2>1, <2>2, <2>3
<1> HIDE DEF P
<1>3. \A p \in P : Members(q, p) \in SUBSET Entries
  BY <1>2, MemberTyped DEF Members
<1>4. IsFiniteSet(C)
  <2>1. ASSUME NEW p \in P PROVE IsFiniteSet(Members(q, p))
    <3> DEFINE f == [i \in DOMAIN Pages[p] |-> Member(q, p, i)]
    <3>1. f \in Surjection(DOMAIN Pages[p], Members(q, p))
      BY DEF Surjection, Members
    <3>2. IsFiniteSet(DOMAIN Pages[p])
      <4>1. p \in DOMAIN Pages
        BY <1>2
      <4>2. Len(Pages[p]) \in Nat \ {0} /\ DOMAIN Pages[p] = 1 .. Len(Pages[p])
        BY <4>1, PagesTyped
      <4> DEFINE m == Len(Pages[p])
      <4>3. IsFiniteSet(1 .. m)
        <5>1. m \in Int
          BY <4>2
        <5> HIDE DEF m
        <5> QED BY <5>1, FS_Interval
      <4> QED BY <4>2, <4>3
    <3> HIDE DEF f
    <3> QED BY <3>1, <3>2, FS_Surjection
  <2>2. IsFiniteSet({Members(q, p) : p \in P})
    <3> DEFINE M == {Members(q, p) : p \in P}
               f == [p \in P |-> Members(q, p)]
    <3>1. f \in Surjection(P, M)
      BY DEF Surjection
    <3>2. IsFiniteSet(DOMAIN Pages)
      BY PagesTyped, FS_Interval
    <3>3. IsFiniteSet(P)
      BY <1>2, <3>2, FS_Subset
    <3> HIDE DEF f, M
    <3>4. IsFiniteSet(M)
      BY <3>1, <3>3, FS_Surjection
    <3> QED BY <3>4 DEF M
  <2> QED BY <2>1, <2>2, FS_UNION
<1>5. C \in SUBSET Entries
  BY <1>3
<1> QED BY <1>1, <1>2, <1>4, <1>5
=============================================================================
