-------------------------- MODULE VectorStoreProofs --------------------------
(***************************************************************************)
(* What insert_a_vector, the caches, close, load and crash keep true of a  *)
(* database, for any vectors, page and file size, when clients search      *)
(* before they insert.                                                     *)
(***************************************************************************)
EXTENDS VectorStore, FiniteSetTheorems, SequenceTheorems, TLAPS

\* Every non-empty set of naturals has a least element.
LEMMA Least ==
  ASSUME NEW S \in SUBSET Nat, NEW n \in S
  PROVE  \E m \in S : \A k \in S : m <= k
<1> DEFINE R == OpToRel(<, Nat)
<1>1. IsWellFoundedOn(R, Nat)
  BY NatLessThanWellFounded
<1>2. R = {ss \in Nat \X Nat : ss[1] < ss[2]}
  BY Zenon DEF OpToRel
<1> HIDE DEF R
<1>3. PICK m \in S : \A k \in S : ~(<<k, m>> \in R)
  BY <1>1, WFMin
<1>4. ASSUME NEW k \in S PROVE m <= k
  <2>1. k \in Nat /\ m \in Nat /\ <<k, m>> \in Nat \X Nat
    OBVIOUS
  <2>2. ~(k < m)
    BY <1>2, <1>3, <2>1
  <2> QED BY <2>1, <2>2
<1> QED BY <1>4

LEMMA MinOfNaturals ==
  ASSUME NEW S \in SUBSET Nat, S # {}
  PROVE  Min(S) \in S /\ \A x \in S : Min(S) <= x
<1>1. \E m \in S : \A x \in S : m <= x
  BY Least
<1> QED BY <1>1 DEF Min

LEMMA SquareNatural ==
  ASSUME NEW d \in Int
  PROVE  d * d \in Nat
<1>1. CASE d >= 0
  BY <1>1
<1>2. CASE d < 0
  <2> DEFINE e == 0 - d
  <2>1. e \in Nat /\ d = 0 - e
    BY <1>2
  <2> HIDE DEF e
  <2>2. d * d = e * e /\ e * e \in Nat
    BY <2>1
  <2> QED BY <2>2
<1> QED BY <1>1, <1>2

LEMMA SquareTyped ==
  ASSUME NEW x \in Int, NEW y \in Int
  PROVE  SquaredL2(x, y) \in Nat /\ SquaredL2(x, x) = 0
<1>1. (x - y) * (x - y) \in Nat
  BY SquareNatural
<1>2. x - x = 0
  OBVIOUS
<1> QED BY <1>1, <1>2 DEF SquaredL2

\* Finitely many naturals have a bound that is one of them, or 0.
LEMMA LargestOfMany ==
  ASSUME NEW n \in Nat, NEW f \in [1 .. n -> Nat]
  PROVE  \E m \in Nat : /\ m = 0 \/ \E i \in 1 .. n : f[i] = m
                        /\ \A i \in 1 .. n : f[i] <= m
<1> DEFINE Largest(k, m) == /\ m = 0 \/ \E i \in 1 .. k : f[i] = m
                            /\ \A i \in 1 .. k : f[i] <= m
           Bad == {k \in 0 .. n : ~\E m \in Nat : Largest(k, m)}
<1>1. Bad = {}
  <2> SUFFICES ASSUME Bad # {} PROVE FALSE
    OBVIOUS
  <2>1. PICK k \in Bad : \A j \in Bad : k <= j
    <3>1. Bad \in SUBSET Nat
      OBVIOUS
    <3> HIDE DEF Bad
    <3> QED BY <3>1, Least
  <2>2. Largest(0, 0)
    OBVIOUS
  <2>3. k \in 1 .. n /\ k - 1 \notin Bad /\ k - 1 \in 0 .. n
    <3>1. k \in 0 .. n /\ k # 0
      BY <2>2
    <3>2. k \in 1 .. n /\ k - 1 \in 0 .. n /\ ~(k <= k - 1)
      BY <3>1
    <3> HIDE DEF Bad
    <3> QED BY <2>1, <3>2
  <2>4. PICK m \in Nat : Largest(k - 1, m)
    <3> HIDE DEF Largest
    <3> QED BY <2>3
  <2>5. f[k] \in Nat /\ \A i \in 1 .. k : i = k \/ i \in 1 .. k - 1
    BY <2>3
  <2>6. CASE f[k] <= m
    <3>1. Largest(k, m)
      <4>1. \A i \in 1 .. k - 1 : i \in 1 .. k
        BY <2>3
      <4>2. m = 0 \/ \E i \in 1 .. k : f[i] = m
        BY <2>4, <4>1
      <4>3. \A i \in 1 .. k : f[i] <= m
        BY <2>4, <2>5, <2>6
      <4> QED BY <4>2, <4>3
    <3> HIDE DEF Largest
    <3> QED BY <3>1
  <2>7. CASE f[k] > m
    <3>1. \A i \in 1 .. k - 1 : f[i] \in Nat
      BY <2>3
    <3>2. Largest(k, f[k])
      <4>1. k \in 1 .. k
        BY <2>3
      <4>2. \A i \in 1 .. k - 1 : f[i] <= f[k]
        BY <2>4, <2>5, <2>7, <3>1
      <4>3. \A i \in 1 .. k : f[i] <= f[k]
        BY <2>5, <4>2
      <4> QED BY <4>1, <4>3
    <3> HIDE DEF Largest
    <3> QED BY <2>5, <3>2
  <2> QED BY <2>4, <2>5, <2>6, <2>7
<1>2. n \in 0 .. n
  OBVIOUS
<1>3. \E m \in Nat : Largest(n, m)
  <2> HIDE DEF Largest
  <2> QED BY <1>1, <1>2
<1> QED BY <1>3

-----------------------------------------------------------------------------
(***************************************************************************)
(* The operators of the model.                                             *)
(***************************************************************************)
\* What update_max_dist computes: attained by a member, or 0, and a bound of all.
LEMMA NewMaxDistFacts ==
  ASSUME NEW vs \in Seq(Int)
  PROVE  /\ NewMaxDist(vs) \in Nat
         /\ \A i \in DOMAIN vs : SquaredL2(vs[i], vs[1]) <= NewMaxDist(vs)
         /\ NewMaxDist(vs) = 0 \/ \E i \in 2 .. Len(vs) : NewMaxDist(vs) = SquaredL2(vs[i], vs[1])
<1> DEFINE f == [i \in 1 .. Len(vs) |-> SquaredL2(vs[i], vs[1])]
           S == {0} \cup {SquaredL2(vs[i], vs[1]) : i \in 2 .. Len(vs)}
<1>1. Len(vs) \in Nat /\ DOMAIN vs = 1 .. Len(vs) /\ \A i \in 1 .. Len(vs) : vs[i] \in Int
  OBVIOUS
<1>2. f \in [1 .. Len(vs) -> Nat] /\ (Len(vs) >= 1 => f[1] = 0)
  <2>1. \A i \in 1 .. Len(vs) : 1 \in 1 .. Len(vs) /\ SquaredL2(vs[i], vs[1]) \in Nat
    <3> TAKE i \in 1 .. Len(vs)
    <3>1. 1 \in 1 .. Len(vs) /\ vs[1] \in Int /\ vs[i] \in Int
      BY <1>1
    <3> QED BY <3>1, SquareTyped
  <2>2. Len(vs) >= 1 => 1 \in 1 .. Len(vs) /\ SquaredL2(vs[1], vs[1]) = 0
    BY <1>1, SquareTyped
  <2> QED BY <2>1, <2>2
<1>3. PICK m \in Nat : /\ m = 0 \/ \E i \in 1 .. Len(vs) : f[i] = m
                       /\ \A i \in 1 .. Len(vs) : f[i] <= m
  <2> HIDE DEF f
  <2> QED BY <1>1, <1>2, LargestOfMany
<1>4. \A i \in 1 .. Len(vs) : f[i] = SquaredL2(vs[i], vs[1]) /\ f[i] \in Nat
  BY <1>2
<1> HIDE DEF f
<1>5. m \in S
  <2>1. \A i \in 1 .. Len(vs) : i = 1 \/ i \in 2 .. Len(vs)
    BY <1>1
  <2> QED BY <1>1, <1>2, <1>3, <1>4, <2>1
<1>6. \A x \in S : x \in Nat /\ m >= x
  BY <1>1, <1>3, <1>4
<1> HIDE DEF S
<1>7. Max(S) = m
  <2>1. \A y \in S : y \in Nat /\ (y >= m => y = m)
    BY <1>6
  <2>2. Max(S) \in S /\ \A x \in S : Max(S) >= x
    BY <1>5, <1>6 DEF Max
  <2> QED BY <1>5, <2>1, <2>2
<1>8. NewMaxDist(vs) = m
  BY <1>7 DEF NewMaxDist, S
<1>9. m = 0 \/ \E i \in 2 .. Len(vs) : m = SquaredL2(vs[i], vs[1])
  BY <1>5 DEF S
<1> QED BY <1>1, <1>3, <1>4, <1>8, <1>9

\* There is only one such number.
LEMMA NewMaxDistIs ==
  ASSUME NEW vs \in Seq(Int), NEW m \in Nat,
         \A i \in DOMAIN vs : SquaredL2(vs[i], vs[1]) <= m,
         m = 0 \/ \E i \in DOMAIN vs : m = SquaredL2(vs[i], vs[1])
  PROVE  NewMaxDist(vs) = m
<1>1. \A i \in 2 .. Len(vs) : i \in DOMAIN vs
  OBVIOUS
<1>2. \A i \in DOMAIN vs : SquaredL2(vs[i], vs[1]) \in Nat
  <2>1. \A i \in DOMAIN vs : vs[i] \in Int /\ vs[1] \in Int
    OBVIOUS
  <2> QED BY <2>1, SquareTyped
<1>3. NewMaxDist(vs) <= m /\ NewMaxDist(vs) >= m
  BY <1>1, <1>2, NewMaxDistFacts
<1> QED BY <1>3, NewMaxDistFacts

\* The head of the sorted buffer is the distance of one of its pages.
LEMMA BestFacts ==
  ASSUME NEW v \in Int, NEW anchors, NEW dists, DOMAIN dists \subseteq Nat,
         \A p \in DOMAIN dists : anchors[p] \in Int,
         dist_to_anchor_buffer = Distances(v, anchors, dists), dist_to_anchor_buffer # {}
  PROVE  Best[2] \in DOMAIN dists /\ Best[1] = SquaredL2(v, anchors[Best[2]])
<1> DEFINE B == dist_to_anchor_buffer
           D == {x[1] : x \in B}
<1>1. \A x \in B : \E p \in DOMAIN dists : x = <<SquaredL2(v, anchors[p]), p>>
  BY DEF Distances
<1>2. \A x \in B : x[1] \in Nat /\ x[2] \in Nat /\ x[2] \in DOMAIN dists /\ x[1] = SquaredL2(v, anchors[x[2]])
  <2> TAKE x \in B
  <2>1. PICK p \in DOMAIN dists : x = <<SquaredL2(v, anchors[p]), p>>
    BY <1>1
  <2>2. SquaredL2(v, anchors[p]) \in Nat /\ p \in Nat
    BY SquareTyped
  <2> QED BY <2>1, <2>2
<1>3. PICK d \in D : \A e \in D : d <= e
  <2>1. D \in SUBSET Nat /\ D # {}
    BY <1>2
  <2> HIDE DEF D
  <2> QED BY <2>1, Least
<1> DEFINE P == {x[2] : x \in {y \in B : y[1] = d}}
<1>4. PICK p \in P : \A r \in P : p <= r
  <2>1. P \in SUBSET Nat /\ P # {}
    BY <1>2
  <2> HIDE DEF P
  <2> QED BY <2>1, Least
<1>5. PICK x \in B : x[1] = d /\ x[2] = p
  OBVIOUS
<1>6. \A y \in B : x[1] < y[1] \/ (x[1] = y[1] /\ x[2] <= y[2])
  <2> TAKE y \in B
  <2>1. d <= y[1] /\ (y[1] = d => p <= y[2])
    BY <1>3, <1>4
  <2> QED BY <1>2, <1>5, <2>1
<1>7. Best \in B
  <2> HIDE DEF B
  <2>1. Best = CHOOSE z \in B : \A y \in B : z[1] < y[1] \/ (z[1] = y[1] /\ z[2] <= y[2])
    BY DEF Best, B
  <2> QED BY <1>6, <2>1
<1> QED BY <1>2, <1>7

\* find_victim names a member at max_dist, if there is one.
LEMMA VictimFacts ==
  ASSUME NEW p, pages[p].vectors \in Seq(Int), pages[p].vectors # <<>>
  PROVE  LET vs == pages[p].vectors
             i == VictimIndex(p)
         IN /\ i \in 2 .. Len(vs) + 1
            /\ i <= Len(vs) => i \in DOMAIN vs /\ SquaredL2(vs[i], vs[1]) = pages[p].max_dist
            /\ (\E j \in 2 .. Len(vs) : SquaredL2(vs[j], vs[1]) = pages[p].max_dist) => i <= Len(vs)
<1> DEFINE vs == pages[p].vectors
           F == {i \in 2 .. Len(vs) : SquaredL2(vs[i], vs[1]) = pages[p].max_dist}
           S == {Len(vs) + 1} \cup F
<1>1. Len(vs) \in Nat \ {0} /\ DOMAIN vs = 1 .. Len(vs)
  OBVIOUS
<1>2. S \in SUBSET Nat /\ S # {}
  BY <1>1
<1>3. VictimIndex(p) = Min(S)
  BY DEF VictimIndex
<1> DEFINE m == Min(S)
<1>4. m \in S /\ \A x \in S : m <= x
  <2> HIDE DEF S
  <2> QED BY <1>2, MinOfNaturals
<1>5. VictimIndex(p) = m
  BY <1>3
<1> HIDE DEF m
<1>6. m \in 2 .. Len(vs) + 1 /\ (m <= Len(vs) => m \in F)
  BY <1>1, <1>4
<1>7. \A j \in F : m <= j /\ j \in 2 .. Len(vs)
  BY <1>4
<1>8. (\E j \in F : TRUE) => m <= Len(vs)
  BY <1>1, <1>6, <1>7
<1>9. m <= Len(vs) => m \in DOMAIN vs
  BY <1>1, <1>6
<1> QED BY <1>5, <1>6, <1>8, <1>9

-----------------------------------------------------------------------------
(***************************************************************************)
(* Pages, caches and the buffer in a state of the invariant.               *)
(***************************************************************************)
LEMMA PageFacts ==
  ASSUME PagesTyped, NEW p \in AllPages
  PROVE  /\ pages[p] \in PageRecords /\ pages[p].vectors \in Seq(Values) /\ pages[p].vectors \in Seq(Int)
         /\ pages[p].max_dist \in Nat /\ pages[p].next_slot \in Values
         /\ Len(pages[p].vectors) \in Nat /\ DOMAIN pages[p].vectors = 1 .. Len(pages[p].vectors)
         /\ pages[p].vectors # <<>> <=> Len(pages[p].vectors) >= 1
         /\ \A i \in DOMAIN pages[p].vectors : pages[p].vectors[i] \in Values /\ pages[p].vectors[i] \in Int
<1>1. Values \subseteq Int
  BY VectorStoreAssumption DEF Values
<1>2. pages[p] \in PageRecords
  BY DEF PagesTyped
<1>3. pages[p].vectors \in Seq(Values) /\ pages[p].max_dist \in Nat /\ pages[p].next_slot \in Values
  BY <1>2 DEF PageRecords
<1> DEFINE vs == pages[p].vectors
<1> HIDE DEF vs
<1>4. vs \in Seq(Values)
  BY <1>3 DEF vs
<1>5. Len(vs) \in Nat /\ DOMAIN vs = 1 .. Len(vs) /\ \A i \in DOMAIN vs : vs[i] \in Values
  BY <1>4
<1>6. vs \in Seq(Int)
  <2>1. vs \in [1 .. Len(vs) -> Int]
    <3>1. vs \in [1 .. Len(vs) -> Values]
      BY <1>4, LenProperties
    <3> QED BY <1>1, <1>5, <3>1
  <2> QED BY <1>5, <2>1, SeqDef
<1>7. vs # <<>> <=> Len(vs) >= 1
  BY <1>4
<1> QED BY <1>1, <1>2, <1>3, <1>5, <1>6, <1>7 DEF vs

LEMMA PageNumbers ==
  ASSUME CallTyped
  PROVE  /\ LoadedPages \subseteq AllPages /\ SavedPages \subseteq AllPages /\ KeptPages \subseteq AllPages
         /\ AllPages \subseteq Nat /\ NumPages \in Nat
         /\ pc # "closed" => 0 \in LoadedPages /\ KeptPages = LoadedPages
         /\ n_files < MaxFiles => NumPages + PagesPerFile - 1 \in AllPages
<1>1. MaxFiles \in Nat \ {0} /\ PagesPerFile \in Nat \ {0}
  BY VectorStoreAssumption
<1>2. n_files \in 0 .. MaxFiles /\ saved_n_files \in 1 .. MaxFiles /\ (pc # "closed" => n_files \in 1 .. MaxFiles)
  BY <1>1 DEF CallTyped
<1>3. \A n \in 0 .. MaxFiles : /\ n * PagesPerFile \in Nat /\ n * PagesPerFile <= MaxFiles * PagesPerFile
                               /\ n >= 1 => n * PagesPerFile >= 1
  BY <1>1, SMT
<1>4. MaxFiles * PagesPerFile \in Nat
  BY <1>1
<1>5. LoadedPages \subseteq AllPages /\ SavedPages \subseteq AllPages /\ NumPages \in Nat
  BY <1>2, <1>3, <1>4 DEF LoadedPages, SavedPages, AllPages, NumPages
<1>6. pc # "closed" => 0 \in LoadedPages
  BY <1>2, <1>3 DEF LoadedPages, NumPages
<1>7. ASSUME n_files < MaxFiles PROVE NumPages + PagesPerFile - 1 \in AllPages
  <2>1. (n_files + 1) * PagesPerFile = NumPages + PagesPerFile
    BY <1>1, <1>2 DEF NumPages
  <2>2. (n_files + 1) * PagesPerFile <= MaxFiles * PagesPerFile
    <3>1. n_files + 1 \in 0 .. MaxFiles
      BY <1>1, <1>2, <1>7
    <3> QED BY <1>3, <3>1
  <2> QED BY <1>1, <1>4, <1>5, <2>1, <2>2 DEF AllPages
<1>8. AllPages \subseteq Nat
  BY <1>4 DEF AllPages
<1> QED BY <1>5, <1>6, <1>7, <1>8 DEF KeptPages

LEMMA CacheFacts ==
  ASSUME PagesTyped, CallTyped, CachesTrue
  PROVE  /\ DOMAIN cached_max_dists = {p \in LoadedPages : pages[p].vectors # <<>>}
         /\ \A p \in DOMAIN cached_max_dists : /\ cached_max_dists[p] = pages[p].max_dist
                                               /\ cached_vectors[p] = pages[p].vectors[1]
                                               /\ cached_vectors[p] \in Int
<1>1. DOMAIN cached_max_dists = {p \in LoadedPages : pages[p].vectors # <<>>}
  BY DEF CachesTrue, MaxDistsOf, LoadedPages
<1>2. \A p \in DOMAIN cached_max_dists : cached_max_dists[p] = pages[p].max_dist
  BY DEF CachesTrue, MaxDistsOf
<1>3. ASSUME NEW p \in DOMAIN cached_max_dists PROVE cached_vectors[p] \in Int
  <2>1. p \in AllPages /\ pages[p].vectors # <<>>
    BY <1>1, PageNumbers
  <2>2. 1 \in DOMAIN pages[p].vectors
    BY <2>1, PageFacts
  <2> QED BY <2>1, <2>2, PageFacts DEF CachesTrue
<1> QED BY <1>1, <1>2, <1>3 DEF CachesTrue

\* Where the next case puts current, if the buffer is not empty.
LEMMA BestPage ==
  ASSUME PagesTyped, CallTyped, CachesTrue, BufferTrue, pc = "insert", dist_to_anchor_buffer # {}
  PROVE  /\ Best[2] \in LoadedPages /\ pages[Best[2]].vectors # <<>>
         /\ Best[1] = SquaredL2(current, pages[Best[2]].vectors[1])
<1>1. dist_to_anchor_buffer = Distances(current, cached_vectors, cached_max_dists)
  BY DEF BufferTrue
<1>2. current \in Int
  BY VectorStoreAssumption DEF CallTyped, Values
<1>3. DOMAIN cached_max_dists \subseteq Nat /\ \A p \in DOMAIN cached_max_dists : cached_vectors[p] \in Int
  BY CacheFacts, PageNumbers
<1>4. Best[2] \in DOMAIN cached_max_dists /\ Best[1] = SquaredL2(current, cached_vectors[Best[2]])
  BY <1>1, <1>2, <1>3, BestFacts
<1> QED BY <1>4, CacheFacts

\* An empty buffer says that the open files are empty.
LEMMA NoBestPage ==
  ASSUME PagesTyped, CallTyped, CachesTrue, BufferTrue, pc = "insert", dist_to_anchor_buffer = {}
  PROVE  \A p \in LoadedPages : pages[p].vectors = <<>>
<1>1. dist_to_anchor_buffer = Distances(current, cached_vectors, cached_max_dists)
  BY DEF BufferTrue
<1>2. DOMAIN cached_max_dists = {}
  BY <1>1 DEF Distances
<1> QED BY <1>2, CacheFacts

LEMMA CachesRefreshed ==
  ASSUME UpdateCaches
  PROVE  CachesTrue'
<1> DEFINE n == n_files' * PagesPerFile
<1>1. cached_max_dists' = MaxDistsOf(pages', n)
  BY DEF UpdateCaches
<1>2. ASSUME NEW p \in DOMAIN cached_max_dists' PROVE cached_vectors'[p] = pages'[p].vectors[1]
  <2>1. p \in 0 .. n - 1 /\ pages'[p].vectors # <<>>
    BY <1>1, <1>2 DEF MaxDistsOf
  <2> QED BY <2>1 DEF UpdateCaches, AnchorsOf
<1> QED BY <1>1, <1>2 DEF CachesTrue, NumPages

LEMMA CachesKept ==
  ASSUME CachesTrue, UNCHANGED <<n_files, cacheVars>>,
         \A p \in LoadedPages : /\ pages'[p].max_dist = pages[p].max_dist
                                /\ pages'[p].vectors = <<>> <=> pages[p].vectors = <<>>
                                /\ pages[p].vectors # <<>> => pages'[p].vectors[1] = pages[p].vectors[1]
  PROVE  CachesTrue'
<1>1. NumPages' = NumPages /\ LoadedPages = 0 .. NumPages - 1
  BY DEF NumPages, LoadedPages
<1>2. cached_max_dists' = cached_max_dists /\ cached_vectors' = cached_vectors
  BY DEF cacheVars
<1>3. MaxDistsOf(pages', NumPages) = MaxDistsOf(pages, NumPages)
  BY <1>1 DEF MaxDistsOf
<1>4. ASSUME NEW p \in DOMAIN cached_max_dists PROVE p \in LoadedPages /\ pages[p].vectors # <<>>
  BY <1>1 DEF CachesTrue, MaxDistsOf
<1> QED BY <1>1, <1>2, <1>3, <1>4 DEF CachesTrue

-----------------------------------------------------------------------------
(***************************************************************************)
(* A page takes the current vector: what cases 1, 2, 3, 5 and 6 have in    *)
(* common.  The page may be the first of a new file, which is empty.       *)
(***************************************************************************)
Base(p) == IF p \in KeptPages THEN pages[p] ELSE EmptyPage

Takes(p) ==
  /\ pages' \in [AllPages -> PageRecords]
  /\ p \in KeptPages' /\ KeptPages \subseteq KeptPages' /\ KeptPages' \subseteq AllPages
  /\ \A r \in KeptPages \ {p} : pages'[r] = pages[r]
  /\ \A r \in AllPages \ ({p} \cup KeptPages) : pages'[r] = pages[r] \/ pages'[r] = EmptyPage
  /\ pages'[p].vectors = Append(Base(p).vectors, current)
  /\ pages'[p].max_dist = Base(p).max_dist

LEMMA BaseFacts ==
  ASSUME PagesTyped, CallTyped, NEW p \in AllPages
  PROVE  /\ Base(p).vectors \in Seq(Values) /\ Len(Base(p).vectors) \in Nat
         /\ Base(p).max_dist \in Nat
         /\ Base(p).vectors = <<>> => Base(p).max_dist = 0
         /\ p \notin KeptPages => Base(p).vectors = <<>> /\ Base(p).max_dist = 0
<1>1. CASE p \in KeptPages
  BY <1>1, PageFacts DEF Base, PagesTyped
<1>2. CASE p \notin KeptPages
  BY <1>2 DEF Base, EmptyPage
<1> QED BY <1>1, <1>2

LEMMA AppendTakes ==
  ASSUME PagesTyped, CallTyped, pc = "insert", pc' # "closed", UNCHANGED n_files,
         NEW p \in LoadedPages, pages' = append_new_vector(p, current)
  PROVE  Takes(p) /\ Base(p) = pages[p]
<1>1. p \in AllPages /\ current \in Values /\ Ghost \in Values
  BY PageNumbers DEF CallTyped, Values
<1>2. KeptPages' = LoadedPages /\ KeptPages = LoadedPages /\ LoadedPages \subseteq AllPages
  BY PageNumbers DEF KeptPages, LoadedPages, NumPages
<1>3. pages \in [AllPages -> PageRecords] /\ pages[p] \in PageRecords /\ pages[p].vectors \in Seq(Values)
  BY <1>1, PageFacts DEF PagesTyped
<1> DEFINE rec == [pages[p] EXCEPT !.vectors = Append(@, current), !.next_slot = Ghost]
<1>4. rec \in PageRecords
  <2>1. Append(pages[p].vectors, current) \in Seq(Values)
    BY <1>1, <1>3
  <2> QED BY <1>1, <1>3, <2>1 DEF PageRecords
<1>5. pages' = [pages EXCEPT ![p] = rec]
  BY <1>1, <1>3 DEF append_new_vector, PageRecords
<1>6. rec.vectors = Append(pages[p].vectors, current) /\ rec.max_dist = pages[p].max_dist
  BY <1>3 DEF PageRecords
<1> HIDE DEF rec
<1>7. pages' \in [AllPages -> PageRecords] /\ pages'[p] = rec /\ \A r \in AllPages \ {p} : pages'[r] = pages[r]
  BY <1>1, <1>3, <1>4, <1>5
<1> QED BY <1>2, <1>6, <1>7 DEF Takes, Base

\* Every place keeps its vector, and there is one more.
LEMMA TakesPlaces ==
  ASSUME PagesTyped, CallTyped, NEW p, Takes(p)
  PROVE  LET n == Len(Base(p).vectors)
         IN /\ n \in Nat /\ p \in AllPages
            /\ DOMAIN pages'[p].vectors = 1 .. n + 1 /\ Len(pages'[p].vectors) = n + 1
            /\ pages'[p].vectors[n + 1] = current
            /\ \A r \in KeptPages : \A i \in DOMAIN pages[r].vectors :
                 /\ i \in DOMAIN pages'[r].vectors /\ pages'[r].vectors[i] = pages[r].vectors[i]
                 /\ pages'[r].max_dist = pages[r].max_dist
            /\ \A r \in AllPages : \A i \in DOMAIN pages'[r].vectors :
                 \/ r = p /\ i = n + 1
                 \/ /\ r # p \/ r \in KeptPages
                    /\ i \in DOMAIN pages[r].vectors /\ pages'[r].vectors[i] = pages[r].vectors[i]
<1> DEFINE b == Base(p).vectors
           n == Len(b)
           s == pages'[p].vectors
<1>1. p \in AllPages /\ s = Append(b, current) /\ b \in Seq(Values) /\ n \in Nat
  BY BaseFacts DEF Takes
<1>2. p \in KeptPages => b = pages[p].vectors /\ pages'[p].max_dist = pages[p].max_dist
  BY DEF Takes, Base
<1>3. p \notin KeptPages => n = 0
  BY <1>1, BaseFacts
<1>4. DOMAIN b = 1 .. n
  BY <1>1
<1> HIDE DEF b, n, s
<1>5. /\ DOMAIN s = 1 .. n + 1 /\ Len(s) = n + 1 /\ s[n + 1] = current
      /\ \A i \in 1 .. n : i \in 1 .. n + 1 /\ s[i] = b[i]
  <2>1. DOMAIN s = 1 .. n + 1 /\ Len(s) = n + 1 /\ s[n + 1] = current
    BY <1>1 DEF n
  <2>2. \A i \in 1 .. n : i \in 1 .. n + 1 /\ s[i] = b[i]
    BY <1>1 DEF n
  <2> QED BY <2>1, <2>2
<1>6. ASSUME NEW r \in KeptPages, NEW i \in DOMAIN pages[r].vectors
      PROVE  /\ i \in DOMAIN pages'[r].vectors /\ pages'[r].vectors[i] = pages[r].vectors[i]
             /\ pages'[r].max_dist = pages[r].max_dist
  <2>1. CASE r = p
    BY <1>2, <1>4, <1>5, <2>1 DEF s
  <2>2. CASE r # p
    BY <2>2 DEF Takes
  <2> QED BY <2>1, <2>2
<1>7. ASSUME NEW r \in AllPages, NEW i \in DOMAIN pages'[r].vectors, ~(r = p /\ i = n + 1)
      PROVE  /\ r # p \/ r \in KeptPages
             /\ i \in DOMAIN pages[r].vectors /\ pages'[r].vectors[i] = pages[r].vectors[i]
  <2>1. CASE r = p
    <3>1. i \in 1 .. n + 1 /\ i # n + 1
      BY <1>5, <1>7, <2>1 DEF s
    <3>2. i \in 1 .. n
      BY <1>1, <3>1
    <3>3. p \in KeptPages
      BY <1>3, <3>2
    <3> QED BY <1>2, <1>4, <1>5, <2>1, <3>2, <3>3 DEF s
  <2>2. CASE r # p
    <3>1. pages'[r] = pages[r] \/ pages'[r] = EmptyPage
      BY <2>2 DEF Takes
    <3>2. DOMAIN EmptyPage.vectors = {}
      BY DEF EmptyPage
    <3> QED BY <2>2, <3>1, <3>2
  <2> QED BY <2>1, <2>2
<1> QED BY <1>1, <1>5, <1>6, <1>7 DEF s, n, b

LEMMA TakesTyped ==
  ASSUME PagesTyped, CallTyped, NEW p, Takes(p), Len(Base(p).vectors) + 1 <= Capacity
  PROVE  PagesTyped'
<1>1. pages' \in [AllPages -> PageRecords]
  BY DEF Takes
<1>2. Capacity \in Nat /\ EmptyPage.vectors = <<>> /\ EmptyPage.max_dist = 0 /\ Len(EmptyPage.vectors) = 0
  BY VectorStoreAssumption DEF EmptyPage
<1>3. ASSUME NEW r \in AllPages, r # p
      PROVE  Len(pages'[r].vectors) <= Capacity /\ (pages'[r].vectors = <<>> => pages'[r].max_dist = 0)
  <2>1. pages'[r] = pages[r] \/ pages'[r] = EmptyPage
    BY <1>3 DEF Takes
  <2> QED BY <1>2, <2>1 DEF PagesTyped, n_vectors
<1>4. Len(pages'[p].vectors) <= Capacity /\ pages'[p].vectors # <<>>
  <2>1. Len(pages'[p].vectors) = Len(Base(p).vectors) + 1 /\ Len(Base(p).vectors) \in Nat
    BY TakesPlaces
  <2> QED BY <2>1
<1>5. AllPages' = AllPages
  BY DEF AllPages
<1> QED BY <1>1, <1>3, <1>4 DEF PagesTyped, n_vectors, AllPages

\* The client's vectors after a case that leaves nothing in hand but current.
LEMMA TakesStores ==
  ASSUME PagesTyped, CallTyped, AllStored, pc = "insert", pc' \in {"ready", "setMax"}, victim' = {},
         UNCHANGED <<inserted, crashes>>, NEW p, Takes(p)
  PROVE  AllStored'
<1> DEFINE n == Len(Base(p).vectors)
<1>1. /\ n \in Nat /\ p \in AllPages /\ n + 1 \in DOMAIN pages'[p].vectors
      /\ pages'[p].vectors[n + 1] = current
      /\ \A r \in KeptPages : \A i \in DOMAIN pages[r].vectors :
           i \in DOMAIN pages'[r].vectors /\ pages'[r].vectors[i] = pages[r].vectors[i]
      /\ \A r \in AllPages : \A i \in DOMAIN pages'[r].vectors :
           \/ r = p /\ i = n + 1
           \/ i \in DOMAIN pages[r].vectors /\ pages'[r].vectors[i] = pages[r].vectors[i]
  <2> HIDE DEF n
  <2>1. n \in Nat /\ DOMAIN pages'[p].vectors = 1 .. n + 1
    BY TakesPlaces DEF n
  <2>2. n + 1 \in DOMAIN pages'[p].vectors
    BY <2>1
  <2> QED BY <2>1, <2>2, TakesPlaces DEF n
<1> HIDE DEF n
<1>2. /\ InHand = {current} /\ InHand' = {}
      /\ KeptPages \subseteq KeptPages' /\ p \in KeptPages' /\ AllPages' = AllPages
  BY DEF InHand, CallTyped, Takes, AllPages
<1> SUFFICES ASSUME crashes' = 0
             PROVE  /\ InHand' \subseteq inserted'
                    /\ \A v \in inserted' \ InHand' :
                         \E r \in KeptPages' : \E i \in DOMAIN pages'[r].vectors : pages'[r].vectors[i] = v
                    /\ \A r \in AllPages : \A i \in DOMAIN pages'[r].vectors :
                         r \in KeptPages' /\ pages'[r].vectors[i] \in inserted' \ InHand'
                    /\ OnePlaceEach'
  BY <1>2 DEF AllStored, Holds
<1>3. crashes = 0 /\ inserted' = inserted /\ current \in inserted
  BY <1>2 DEF AllStored
<1>4. ASSUME NEW v \in inserted' \ InHand'
      PROVE  \E r \in KeptPages' : \E i \in DOMAIN pages'[r].vectors : pages'[r].vectors[i] = v
  <2>1. CASE v = current
    BY <1>1, <1>2, <2>1 DEF Holds
  <2>2. CASE v # current
    <3>1. PICK r \in KeptPages : Holds(r, v)
      BY <1>2, <1>3, <2>2 DEF AllStored
    <3>2. PICK i \in DOMAIN pages[r].vectors : pages[r].vectors[i] = v
      BY <3>1 DEF Holds
    <3> QED BY <1>1, <1>2, <3>2
  <2> QED BY <2>1, <2>2
<1>5. ASSUME NEW r \in AllPages, NEW i \in DOMAIN pages'[r].vectors
      PROVE  r \in KeptPages' /\ pages'[r].vectors[i] \in inserted' \ InHand'
  BY <1>1, <1>2, <1>3, <1>5 DEF AllStored
<1>6. OnePlaceEach'
  <2> SUFFICES ASSUME NEW r \in AllPages, NEW t \in AllPages,
                      NEW i \in DOMAIN pages'[r].vectors, NEW j \in DOMAIN pages'[t].vectors,
                      pages'[r].vectors[i] = pages'[t].vectors[j]
               PROVE  r = t /\ i = j
    BY <1>2 DEF OnePlaceEach
  <2>1. \A u \in AllPages : \A k \in DOMAIN pages[u].vectors : pages[u].vectors[k] # current
    BY <1>2, <1>3 DEF AllStored
  <2> QED BY <1>1, <1>3, <2>1 DEF AllStored, OnePlaceEach
<1> QED BY <1>2, <1>4, <1>5, <1>6

\* current fits under the radius its page has stored, or that radius is yet
\* to be recomputed.
Fits(p) ==
  \/ pc' = "setMax" /\ target' = p
  \/ pc' # "setMax" /\ SquaredL2(current, pages'[p].vectors[1]) <= pages'[p].max_dist

LEMMA TakesMissesNone ==
  ASSUME PagesTyped, CallTyped, NoneMissed, pc = "insert", pc' # "insert", victim' = {},
         UNCHANGED <<inserted, exposed>>, NEW p, Takes(p), Fits(p), current' = current
  PROVE  NoneMissed'
<1> DEFINE n == Len(Base(p).vectors)
<1>1. /\ n \in Nat /\ p \in AllPages /\ p \in KeptPages' /\ KeptPages \subseteq KeptPages'
      /\ KeptPages \subseteq AllPages /\ n + 1 \in DOMAIN pages'[p].vectors
      /\ pages'[p].vectors[n + 1] = current
      /\ \A r \in KeptPages : \A i \in DOMAIN pages[r].vectors :
           /\ i \in DOMAIN pages'[r].vectors /\ pages'[r].vectors[i] = pages[r].vectors[i]
           /\ pages'[r].max_dist = pages[r].max_dist
  <2> HIDE DEF n
  <2>1. n \in Nat /\ DOMAIN pages'[p].vectors = 1 .. n + 1
    BY TakesPlaces DEF n
  <2>2. n + 1 \in DOMAIN pages'[p].vectors
    BY <2>1
  <2> QED BY <2>1, <2>2, TakesPlaces, PageNumbers DEF n, Takes
<1> HIDE DEF n
<1>2. InHand = {current}
  BY DEF InHand, CallTyped
<1> SUFFICES ASSUME NEW v \in inserted' \ exposed'
             PROVE  Covered(v)' \/ AwaitsSetMax(v)'
  BY DEF NoneMissed
<1>3. CASE v = current
  <2>1. Holds(p, v)'
    BY <1>1, <1>3 DEF Holds
  <2>2. CASE pc' = "setMax"
    <3>1. target' = p
      BY <2>2 DEF Fits
    <3>2. Holds(target, v)'
      BY <2>1, <3>1 DEF Holds
    <3> QED BY <1>3, <2>2, <3>2 DEF AwaitsSetMax
  <2>3. CASE pc' # "setMax"
    BY <1>1, <1>3, <2>1, <2>3 DEF Fits, Covered
  <2> QED BY <2>2, <2>3
<1>4. CASE v # current
  <2>1. Covered(v)
    BY <1>2, <1>4 DEF NoneMissed, AwaitsSetMax
  <2>2. PICK r \in KeptPages : Holds(r, v) /\ SquaredL2(v, pages[r].vectors[1]) <= pages[r].max_dist
    BY <2>1 DEF Covered
  <2>3. PICK i \in DOMAIN pages[r].vectors : pages[r].vectors[i] = v
    BY <2>2 DEF Holds
  <2>4. 1 \in DOMAIN pages[r].vectors
    BY <1>1, <2>3, PageFacts
  <2>5. Holds(r, v)' /\ pages'[r].vectors[1] = pages[r].vectors[1] /\ pages'[r].max_dist = pages[r].max_dist
    BY <1>1, <2>3, <2>4 DEF Holds
  <2> QED BY <1>1, <2>2, <2>5 DEF Covered
<1> QED BY <1>3, <1>4

LEMMA TakesExact ==
  ASSUME PagesTyped, CallTyped, RadiiExact, pc = "insert",
         UNCHANGED crashes, NEW p, Takes(p), Fits(p)
  PROVE  RadiiExact'
<1>1. p \in AllPages /\ AllPages' = AllPages
  BY DEF Takes, AllPages
<1> SUFFICES ASSUME crashes' = 0, NEW r \in AllPages
             PROVE  \/ pc' = "setMax" /\ r = target'
                    \/ pages'[r].vectors = <<>> \/ pages'[r].max_dist = NewMaxDist(pages'[r].vectors)
  BY <1>1 DEF RadiiExact, Recomputed
<1>2. CASE r # p
  <2>1. pages'[r] = pages[r] \/ pages'[r].vectors = <<>>
    BY <1>2 DEF Takes, EmptyPage
  <2> QED BY <2>1 DEF RadiiExact, Recomputed
<1>3. CASE r = p /\ pc' = "setMax"
  BY <1>3 DEF Fits
<1>4. CASE r = p /\ pc' # "setMax"
  <2> DEFINE s == pages'[p].vectors
             b == Base(p).vectors
             m == Base(p).max_dist
             n == Len(b)
  <2>1. /\ s \in Seq(Int) /\ b \in Seq(Int) /\ m \in Nat /\ n \in Nat /\ s = Append(b, current)
        /\ (b = <<>> => m = 0) /\ pages'[p].max_dist = m
    <3>1. Values \subseteq Int /\ current \in Int
      BY VectorStoreAssumption DEF Values, CallTyped
    <3>2. b \in Seq(Int)
      <4>1. b \in Seq(Values) /\ b \in [1 .. Len(b) -> Values] /\ Len(b) \in Nat
        BY <1>1, BaseFacts, LenProperties
      <4>2. b \in [1 .. Len(b) -> Int]
        BY <3>1, <4>1
      <4> QED BY <4>1, <4>2, SeqDef
    <3>3. s = Append(b, current)
      BY DEF Takes
    <3>4. s \in Seq(Int)
      BY <3>1, <3>2, <3>3
    <3> QED BY <1>1, <3>2, <3>3, <3>4, BaseFacts DEF Takes
  <2>2. b # <<>> => m = NewMaxDist(b)
    <3>1. p \in KeptPages => b = pages[p].vectors /\ m = pages[p].max_dist
      BY DEF Base
    <3>2. p \notin KeptPages => b = <<>>
      BY <1>1, BaseFacts
    <3>3. crashes = 0 /\ ~Recomputed(p)
      BY DEF Recomputed
    <3> QED BY <1>1, <3>1, <3>2, <3>3 DEF RadiiExact
  <2>3. SquaredL2(current, s[1]) <= m
    BY <1>4, <2>1 DEF Fits
  <2> HIDE DEF s, b, m, n
  <2>4. /\ DOMAIN s = 1 .. n + 1 /\ Len(s) = n + 1 /\ s[n + 1] = current
        /\ \A i \in 1 .. n : i \in 1 .. n + 1 /\ s[i] = b[i]
        /\ DOMAIN b = 1 .. n
    BY <2>1 DEF n
  <2>5. NewMaxDist(s) = m
    <3>1. CASE b = <<>>
      <4>1. n = 0
        BY <3>1 DEF n
      <4>2. \A i \in DOMAIN s : s[i] = current /\ i = n + 1
        BY <2>4, <4>1
      <4> QED BY <2>1, <2>3, <2>4, <3>1, <4>2, NewMaxDistIs
    <3>2. CASE b # <<>>
      <4>1. n >= 1 /\ s[1] = b[1]
        BY <2>1, <2>4, <3>2 DEF n
      <4>2. \A i \in 1 .. n : SquaredL2(b[i], b[1]) <= m
        BY <2>1, <2>2, <2>4, <3>2, NewMaxDistFacts
      <4>3. m = 0 \/ \E i \in 1 .. n : m = SquaredL2(b[i], b[1])
        <5>1. \A i \in 2 .. n : i \in 1 .. n
          BY <2>1
        <5> QED BY <2>1, <2>2, <3>2, <5>1, NewMaxDistFacts DEF n
      <4>4. \A i \in DOMAIN s : SquaredL2(s[i], s[1]) <= m
        <5>1. \A i \in DOMAIN s : i \in 1 .. n \/ i = n + 1
          BY <2>1, <2>4
        <5> QED BY <2>3, <2>4, <4>1, <4>2, <5>1
      <4>5. m = 0 \/ \E i \in DOMAIN s : m = SquaredL2(s[i], s[1])
        BY <2>4, <4>1, <4>3
      <4> QED BY <2>1, <4>4, <4>5, NewMaxDistIs
    <3> QED BY <3>1, <3>2
  <2> QED BY <1>4, <2>1, <2>5 DEF s
<1> QED BY <1>2, <1>3, <1>4

-----------------------------------------------------------------------------
(***************************************************************************)
(* The invariant, action by action.                                        *)
(***************************************************************************)
LEMMA InitIInv == Init => IInv
<1> SUFFICES ASSUME Init PROVE IInv
  OBVIOUS
<1>1. /\ MaxFiles \in Nat \ {0} /\ PagesPerFile \in Nat \ {0} /\ Capacity \in Nat
      /\ Ghost \in Values
  BY VectorStoreAssumption DEF Values
<1>2. /\ pages = [p \in AllPages |-> EmptyPage] /\ n_files = 1 /\ saved_n_files = 1
      /\ cached_max_dists = [p \in {} |-> 0] /\ queried = {} /\ pc = "ready" /\ victim = {}
      /\ target = 0 /\ inserted = {} /\ exposed = {} /\ crashes = 0 /\ max_num_vectors = Capacity
  BY DEF Init
<1>3. EmptyPage \in PageRecords /\ EmptyPage.vectors = <<>> /\ EmptyPage.max_dist = 0
  BY <1>1 DEF EmptyPage, PageRecords
<1>4. PagesTyped
  BY <1>1, <1>2, <1>3 DEF PagesTyped, n_vectors
<1>5. CallTyped
  <2>1. MaxFiles * PagesPerFile >= 1 /\ MaxFiles * PagesPerFile \in Nat
    BY <1>1, SMT
  <2>2. 0 \in AllPages
    BY <2>1 DEF AllPages
  <2> QED BY <1>1, <1>2, <2>2 DEF CallTyped
<1>6. CachesTrue
  <2>1. {p \in 0 .. NumPages - 1 : pages[p].vectors # <<>>} = {}
    <3>1. LoadedPages \subseteq AllPages
      BY <1>5, PageNumbers
    <3> QED BY <1>2, <1>3, <3>1 DEF LoadedPages
  <2>2. cached_max_dists = MaxDistsOf(pages, NumPages)
    BY <1>2, <2>1 DEF MaxDistsOf
  <2> QED BY <1>2, <2>2 DEF CachesTrue
<1>7. BufferTrue
  BY <1>2 DEF BufferTrue
<1>8. RadiiExact
  BY <1>2, <1>3 DEF RadiiExact
<1>9. AllStored
  BY <1>2, <1>3 DEF AllStored, InHand, OnePlaceEach
<1>10. NoneMissed
  BY <1>2 DEF NoneMissed
<1> QED BY <1>4, <1>5, <1>6, <1>7, <1>8, <1>9, <1>10 DEF IInv

\* What only depends on the pages and on who holds which vector.
contentVars == <<pages, n_files, saved_n_files, inserted, exposed, crashes>>

LEMMA SameContents ==
  ASSUME PagesTyped, RadiiExact, AllStored, NoneMissed, UNCHANGED contentVars, 
         pc' # "setMax", pc # "setMax", pc' = "closed" <=> pc = "closed", InHand' = InHand
  PROVE  PagesTyped' /\ RadiiExact' /\ AllStored' /\ NoneMissed'
<1>1. /\ pages' = pages /\ n_files' = n_files /\ saved_n_files' = saved_n_files
      /\ inserted' = inserted /\ exposed' = exposed /\ crashes' = crashes
  BY DEF contentVars
<1>2. KeptPages' = KeptPages /\ AllPages' = AllPages
  BY <1>1 DEF KeptPages, SavedPages, LoadedPages, NumPages, AllPages
<1>3. PagesTyped'
  BY <1>1, <1>2 DEF PagesTyped, n_vectors
<1>4. RadiiExact'
  BY <1>1, <1>2 DEF RadiiExact, Recomputed
<1>5. AllStored'
  BY <1>1, <1>2 DEF AllStored, OnePlaceEach, Holds
<1>6. NoneMissed'
  <2> SUFFICES ASSUME NEW v \in inserted' \ exposed' PROVE Covered(v)' \/ v \in InHand'
    BY DEF NoneMissed
  <2>1. Covered(v) \/ v \in InHand
    BY <1>1 DEF NoneMissed, AwaitsSetMax
  <2>2. Covered(v)' <=> Covered(v)
    BY <1>1, <1>2 DEF Covered, Holds
  <2> QED BY <2>1, <2>2
<1> QED BY <1>3, <1>4, <1>5, <1>6

LEMMA QueryIInv ==
  ASSUME IInv, NEW v \in Vectors, Query(v)
  PROVE  IInv'
<1>1. UNCHANGED <<contentVars, n_files, cacheVars, pc, current, max_num_vectors, victim, target>> /\ pc = "ready"
  BY DEF Query, contentVars, storageVars, callVars, historyVars
<1>2. InHand' = InHand
  BY <1>1 DEF InHand
<1>3. PagesTyped' /\ RadiiExact' /\ AllStored' /\ NoneMissed'
  BY <1>1, <1>2, SameContents DEF IInv
<1>4. CallTyped'
  BY <1>1 DEF IInv, CallTyped, Query, contentVars, AllPages, LoadedPages, NumPages
<1>5. CachesTrue'
  BY <1>1, CachesKept DEF IInv, contentVars
<1>6. BufferTrue'
  BY <1>1 DEF BufferTrue, Query, cacheVars
<1> QED BY <1>3, <1>4, <1>5, <1>6 DEF IInv

LEMMA InsertIInv ==
  ASSUME QueryFirst, IInv, NEW v \in Vectors, Insert(v)
  PROVE  IInv'
<1>1. /\ UNCHANGED <<pages, n_files, saved_n_files, cacheVars, dist_to_anchor_buffer, queried, victim, target,
                     exposed, crashes>>
      /\ pc = "ready" /\ pc' = "insert" /\ current' = v /\ v \notin inserted
      /\ inserted' = inserted \cup {v} /\ v \in queried /\ max_num_vectors' \in 0 .. Capacity
  BY VectorStoreAssumption DEF Insert, storageVars
<1>2. InHand = {} /\ InHand' = {v} /\ victim = {} /\ v \in Values
  BY <1>1 DEF InHand, IInv, CallTyped, Values
<1>3. KeptPages' = KeptPages /\ AllPages' = AllPages
  BY <1>1 DEF KeptPages, LoadedPages, NumPages, AllPages
<1>4. PagesTyped'
  BY <1>1, <1>3 DEF IInv, PagesTyped, n_vectors
<1>5. CallTyped'
  BY <1>1, <1>2, <1>3 DEF IInv, CallTyped
<1>6. CachesTrue'
  BY <1>1, CachesKept DEF IInv
<1>7. BufferTrue'
  BY <1>1 DEF IInv, BufferTrue, cacheVars
<1>8. RadiiExact'
  BY <1>1, <1>3 DEF IInv, RadiiExact, Recomputed
<1>9. AllStored'
  <2>1. /\ \A u \in inserted' \ InHand' : u \in inserted \ InHand
        /\ \A u \in inserted \ InHand : u \in inserted' \ InHand'
    BY <1>1, <1>2
  <2> QED BY <1>1, <1>2, <1>3, <2>1 DEF IInv, AllStored, OnePlaceEach, Holds
<1>10. NoneMissed'
  <2> SUFFICES ASSUME NEW u \in inserted' \ exposed' PROVE Covered(u)' \/ u \in InHand'
    BY DEF NoneMissed
  <2>1. u = v \/ Covered(u)
    BY <1>1, <1>2 DEF IInv, NoneMissed, AwaitsSetMax
  <2>2. Covered(u)' <=> Covered(u)
    BY <1>1, <1>3 DEF Covered, Holds
  <2> QED BY <1>2, <2>1, <2>2
<1> QED BY <1>4, <1>5, <1>6, <1>7, <1>8, <1>9, <1>10 DEF IInv

LEMMA TakesKeeps ==
  ASSUME IInv, pc = "insert", pc' \in {"ready", "setMax"}, victim' = {}, current' = current,
         UNCHANGED historyVars,
         NEW p, Takes(p), Fits(p), Len(Base(p).vectors) + 1 <= Capacity
  PROVE  PagesTyped' /\ RadiiExact' /\ AllStored' /\ NoneMissed'
<1>1. UNCHANGED <<inserted, exposed, crashes>>
  BY DEF historyVars
<1> QED BY <1>1, TakesTyped, TakesExact, TakesStores, TakesMissesNone DEF IInv

LEMMA Case1IInv ==
  ASSUME IInv, Case1
  PROVE  IInv'
<1>1. /\ pc = "insert" /\ dist_to_anchor_buffer = {} /\ pages' = append_new_vector(0, current)
      /\ UNCHANGED <<n_files, saved_n_files, historyVars, current, max_num_vectors, target>> /\ UpdateCaches
      /\ pc' = "ready" /\ victim' = {} /\ queried' = {}
  BY DEF Case1, Done
<1>2. 0 \in LoadedPages /\ pages[0].vectors = <<>> /\ pages[0].max_dist = 0
  BY <1>1, PageNumbers, NoBestPage DEF IInv, PagesTyped
<1>3. Takes(0) /\ Base(0) = pages[0]
  BY <1>1, <1>2, AppendTakes DEF IInv
<1>4. Len(Base(0).vectors) + 1 <= Capacity
  BY <1>2, <1>3, VectorStoreAssumption
<1>5. Fits(0)
  <2>1. pages'[0].vectors[1] = current /\ pages'[0].max_dist = 0
    BY <1>2, <1>3 DEF Takes
  <2>2. current \in Int
    BY <1>1, VectorStoreAssumption DEF IInv, CallTyped, Values
  <2>3. SquaredL2(current, current) = 0
    BY <2>2, SquareTyped
  <2>4. SquaredL2(current, pages'[0].vectors[1]) <= pages'[0].max_dist
    BY <2>1, <2>3
  <2> QED BY <1>1, <2>4 DEF Fits
<1>6. PagesTyped' /\ RadiiExact' /\ AllStored' /\ NoneMissed'
  BY <1>1, <1>3, <1>4, <1>5, TakesKeeps
<1>7. CallTyped'
  BY <1>1 DEF IInv, CallTyped, historyVars, AllPages
<1>8. CachesTrue' /\ BufferTrue'
  BY <1>1, CachesRefreshed DEF BufferTrue
<1> QED BY <1>6, <1>7, <1>8 DEF IInv

\* The page of cases 2 and 3 is not empty: no cache changes.
LEMMA TakesCached ==
  ASSUME IInv, NEW p \in LoadedPages, pages[p].vectors # <<>>, pages' = append_new_vector(p, current),
         pc = "insert", pc' # "closed", UNCHANGED <<n_files, cacheVars>>
  PROVE  Takes(p) /\ Base(p) = pages[p] /\ CachesTrue' /\ pages'[p].vectors[1] = pages[p].vectors[1]
<1>1. Takes(p) /\ Base(p) = pages[p] /\ KeptPages = LoadedPages /\ LoadedPages \subseteq AllPages
  BY AppendTakes, PageNumbers DEF IInv
<1>2. /\ Len(pages'[p].vectors) = Len(pages[p].vectors) + 1 /\ Len(pages[p].vectors) \in Nat
      /\ \A i \in DOMAIN pages[p].vectors : pages'[p].vectors[i] = pages[p].vectors[i]
  BY <1>1, TakesPlaces DEF IInv
<1>3. 1 \in DOMAIN pages[p].vectors /\ pages'[p].vectors # <<>>
  BY <1>1, <1>2, PageFacts DEF IInv
<1>4. \A r \in LoadedPages : /\ pages'[r].max_dist = pages[r].max_dist
                             /\ pages'[r].vectors = <<>> <=> pages[r].vectors = <<>>
                             /\ pages[r].vectors # <<>> => pages'[r].vectors[1] = pages[r].vectors[1]
  BY <1>1, <1>2, <1>3 DEF Takes
<1> QED BY <1>1, <1>2, <1>3, <1>4, CachesKept DEF IInv

LEMMA Case2IInv ==
  ASSUME IInv, Case2
  PROVE  IInv'
<1> DEFINE p == Best[2]
<1>1. /\ pc = "insert" /\ dist_to_anchor_buffer # {} /\ Len(pages[p].vectors) = 1
      /\ pages' = append_new_vector(p, current) /\ pc' = "setMax" /\ target' = p /\ victim' = {}
      /\ UNCHANGED <<n_files, saved_n_files, cacheVars, queried, current, max_num_vectors, historyVars>>
  BY DEF Case2, n_vectors
<1>2. p \in LoadedPages /\ pages[p].vectors # <<>>
  BY <1>1, BestPage DEF IInv
<1> HIDE DEF p
<1>3. Takes(p) /\ Base(p) = pages[p] /\ CachesTrue'
  BY <1>1, <1>2, TakesCached
<1>4. Fits(p) /\ Len(Base(p).vectors) + 1 <= Capacity
  <2>1. Len(Base(p).vectors) = 1
    BY <1>1, <1>3
  <2>2. 2 <= Capacity
    BY VectorStoreAssumption
  <2> QED BY <1>1, <2>1, <2>2 DEF Fits
<1>5. PagesTyped' /\ RadiiExact' /\ AllStored' /\ NoneMissed'
  BY <1>1, <1>3, <1>4, TakesKeeps
<1>6. CallTyped'
  <2>1. p \in LoadedPages' /\ p \in AllPages' /\ LoadedPages' = LoadedPages
    BY <1>1, <1>2, PageNumbers DEF IInv, LoadedPages, NumPages, AllPages
  <2>2. pages'[p].vectors # <<>>
    <3>1. Len(pages'[p].vectors) = Len(Base(p).vectors) + 1
      BY <1>3, TakesPlaces DEF IInv
    <3>2. Len(pages'[p].vectors) = 2
      BY <1>1, <1>3, <3>1
    <3> QED BY <3>2
  <2> QED BY <1>1, <2>1, <2>2 DEF IInv, CallTyped, historyVars
<1>7. BufferTrue'
  BY <1>1 DEF BufferTrue
<1> QED BY <1>3, <1>5, <1>6, <1>7 DEF IInv

LEMMA Case3IInv ==
  ASSUME IInv, Case3
  PROVE  IInv'
<1> DEFINE p == Best[2]
<1>1. /\ pc = "insert" /\ dist_to_anchor_buffer # {} /\ Best[1] < pages[p].max_dist
      /\ Len(pages[p].vectors) + 1 <= max_num_vectors
      /\ pages' = append_new_vector(p, current) /\ pc' = "ready" /\ victim' = {} /\ queried' = {}
      /\ UNCHANGED <<n_files, saved_n_files, cacheVars, current, max_num_vectors, target, historyVars>>
  BY DEF Case3, Crowded, Inside, Done, n_vectors
<1>2. p \in LoadedPages /\ pages[p].vectors # <<>> /\ Best[1] = SquaredL2(current, pages[p].vectors[1])
  BY <1>1, BestPage DEF IInv
<1> HIDE DEF p
<1>3. /\ Takes(p) /\ Base(p) = pages[p] /\ CachesTrue' /\ pages'[p].vectors[1] = pages[p].vectors[1]
      /\ p \in AllPages
  BY <1>1, <1>2, TakesCached, PageNumbers DEF IInv
<1>4. Len(Base(p).vectors) + 1 <= Capacity
  <2>1. max_num_vectors \in Nat /\ max_num_vectors <= Capacity /\ Capacity \in Nat
    BY VectorStoreAssumption DEF IInv, CallTyped
  <2> QED BY <1>1, <1>3, <2>1, PageFacts DEF IInv
<1>5. Fits(p)
  <2>1. pages[p].max_dist \in Nat /\ 1 \in DOMAIN pages[p].vectors
    BY <1>2, <1>3, PageFacts DEF IInv
  <2>2. SquaredL2(current, pages[p].vectors[1]) \in Nat
    <3>1. current \in Int /\ pages[p].vectors[1] \in Int
      BY <1>1, <1>3, <2>1, PageFacts, VectorStoreAssumption DEF IInv, CallTyped, Values
    <3> QED BY <3>1, SquareTyped
  <2>3. pages'[p].max_dist = pages[p].max_dist
    BY <1>3 DEF Takes
  <2>4. SquaredL2(current, pages'[p].vectors[1]) <= pages'[p].max_dist
    BY <1>1, <1>2, <1>3, <2>1, <2>2, <2>3
  <2> QED BY <1>1, <2>4 DEF Fits
<1>6. PagesTyped' /\ RadiiExact' /\ AllStored' /\ NoneMissed'
  BY <1>1, <1>3, <1>4, <1>5, TakesKeeps
<1>7. CallTyped'
  BY <1>1 DEF IInv, CallTyped, historyVars, AllPages
<1>8. BufferTrue'
  BY <1>1 DEF BufferTrue
<1> QED BY <1>3, <1>6, <1>7, <1>8 DEF IInv

\* current opens the empty page p: it is its anchor, at distance 0.
LEMMA OpensFits ==
  ASSUME IInv, pc = "insert", NEW p, Takes(p), Base(p).vectors = <<>>, Base(p).max_dist = 0, pc' # "setMax"
  PROVE  Fits(p) /\ Len(Base(p).vectors) + 1 <= Capacity
<1>1. pages'[p].vectors = Append(<<>>, current) /\ pages'[p].max_dist = 0
  BY DEF Takes
<1>2. pages'[p].vectors[1] = current
  BY <1>1
<1>3. current \in Int
  BY VectorStoreAssumption DEF IInv, CallTyped, Values
<1>4. SquaredL2(current, current) = 0
  BY <1>3, SquareTyped
<1>5. SquaredL2(current, pages'[p].vectors[1]) <= pages'[p].max_dist
  BY <1>1, <1>2, <1>4
<1> QED BY <1>5, VectorStoreAssumption DEF Fits

LEMMA Case5IInv ==
  ASSUME IInv, Case5
  PROVE  IInv'
<1> DEFINE p == Min(LoadedPages \ DOMAIN cached_max_dists)
<1>1. /\ pc = "insert" /\ Cardinality(DOMAIN cached_max_dists) < NumPages
      /\ pages' = append_new_vector(p, current)
      /\ UNCHANGED <<n_files, saved_n_files, historyVars, current, max_num_vectors, target>> /\ UpdateCaches
      /\ pc' = "ready" /\ victim' = {} /\ queried' = {}
  BY DEF Case5, Done, Crowded
<1>2. NumPages \in Nat /\ LoadedPages \subseteq Nat /\ LoadedPages = 0 .. NumPages - 1
  BY PageNumbers DEF IInv, LoadedPages
<1>3. LoadedPages \ DOMAIN cached_max_dists # {}
  <2>1. Cardinality(0 .. NumPages - 1) = NumPages
    BY <1>2, FS_Interval
  <2>2. DOMAIN cached_max_dists # LoadedPages
    BY <1>1, <1>2, <2>1
  <2> QED BY <2>2, CacheFacts DEF IInv
<1>4. p \in LoadedPages \ DOMAIN cached_max_dists
  <2> DEFINE S == LoadedPages \ DOMAIN cached_max_dists
  <2>1. S \in SUBSET Nat /\ S # {}
    BY <1>2, <1>3
  <2> HIDE DEF S
  <2>2. Min(S) \in S
    BY <2>1, MinOfNaturals
  <2> QED BY <2>2 DEF S
<1> HIDE DEF p
<1>5. p \in LoadedPages /\ p \in AllPages /\ pages[p].vectors = <<>> /\ pages[p].max_dist = 0
  BY <1>4, CacheFacts, PageNumbers DEF IInv, PagesTyped
<1>6. Takes(p) /\ Base(p) = pages[p]
  BY <1>1, <1>5, AppendTakes DEF IInv
<1>7. Fits(p) /\ Len(Base(p).vectors) + 1 <= Capacity
  BY <1>1, <1>5, <1>6, OpensFits
<1>8. PagesTyped' /\ RadiiExact' /\ AllStored' /\ NoneMissed'
  BY <1>1, <1>6, <1>7, TakesKeeps
<1>9. CallTyped'
  BY <1>1 DEF IInv, CallTyped, historyVars, AllPages
<1>10. CachesTrue' /\ BufferTrue'
  BY <1>1, CachesRefreshed DEF BufferTrue
<1> QED BY <1>8, <1>9, <1>10 DEF IInv

\* A new file: its pages are empty, whatever a file of that name held.
LEMMA Case6IInv ==
  ASSUME IInv, Case6
  PROVE  IInv'
<1> DEFINE p == NumPages
           opened == [EmptyPage EXCEPT !.vectors = <<current>>]
<1>1. /\ pc = "insert" /\ n_files < MaxFiles /\ n_files' = n_files + 1
      /\ pages' = [r \in AllPages |->
                     IF r = p THEN opened
                     ELSE IF r \in NumPages .. NumPages + PagesPerFile - 1 THEN EmptyPage
                     ELSE pages[r]]
      /\ UNCHANGED <<saved_n_files, historyVars, current, max_num_vectors, target>> /\ UpdateCaches
      /\ pc' = "ready" /\ victim' = {} /\ queried' = {}
  BY DEF Case6, Done, Crowded
<1> HIDE DEF opened
<1>2. /\ n_files \in Nat /\ PagesPerFile \in Nat \ {0} /\ MaxFiles \in Nat /\ current \in Values
      /\ n_files \in 1 .. MaxFiles
  BY <1>1, VectorStoreAssumption DEF IInv, CallTyped
<1>3. /\ p \in Nat /\ LoadedPages = 0 .. p - 1 /\ KeptPages = LoadedPages
      /\ LoadedPages \subseteq AllPages /\ p + PagesPerFile - 1 \in AllPages
  BY <1>1, PageNumbers DEF IInv, LoadedPages
<1>4. NumPages' = p + PagesPerFile
  BY <1>1, <1>2 DEF NumPages
<1>5. CallTyped'
  <2>1. n_files' \in 1 .. MaxFiles
    BY <1>1, <1>2
  <2> QED BY <1>1, <2>1 DEF IInv, CallTyped, historyVars, AllPages
<1>6. KeptPages' = 0 .. p + PagesPerFile - 1 /\ KeptPages' \subseteq AllPages
  <2>1. KeptPages' = 0 .. p + PagesPerFile - 1
    <3>1. KeptPages' = 0 .. NumPages' - 1
      BY <1>1 DEF KeptPages, LoadedPages
    <3>2. NumPages' - 1 = p + PagesPerFile - 1
      <4> HIDE DEF p
      <4> QED BY <1>2, <1>3, <1>4
    <3> HIDE DEF p
    <3> QED BY <3>1, <3>2
  <2>2. AllPages = 0 .. MaxFiles * PagesPerFile - 1 /\ MaxFiles * PagesPerFile \in Nat
    BY <1>2 DEF AllPages
  <2> QED BY <1>2, <1>3, <2>1, <2>2
<1> HIDE DEF p
<1>7. p \notin KeptPages /\ p \in KeptPages' /\ KeptPages \subseteq KeptPages'
  BY <1>2, <1>3, <1>6
<1>8. Base(p) = EmptyPage /\ EmptyPage.vectors = <<>> /\ EmptyPage.max_dist = 0
  BY <1>7 DEF Base, EmptyPage
<1>9. /\ opened \in PageRecords /\ EmptyPage \in PageRecords
      /\ opened.vectors = <<current>> /\ opened.max_dist = 0
  <2>1. <<current>> \in Seq(Values) /\ <<>> \in Seq(Values) /\ Ghost \in Values
    BY <1>2 DEF Values
  <2> QED BY <2>1 DEF EmptyPage, PageRecords, opened
<1>10. Takes(p)
  <2>1. pages' \in [AllPages -> PageRecords]
    BY <1>1, <1>9 DEF IInv, PagesTyped
  <2>2. \A r \in KeptPages : pages'[r] = pages[r]
    <3>1. \A r \in KeptPages : r \in AllPages /\ r # p /\ r \notin p .. p + PagesPerFile - 1
      BY <1>2, <1>3
    <3> QED BY <1>1, <3>1 DEF p
  <2>3. \A r \in AllPages : r # p => pages'[r] = pages[r] \/ pages'[r] = EmptyPage
    BY <1>1
  <2>4. pages'[p].vectors = Append(<<>>, current) /\ pages'[p].max_dist = 0
    BY <1>1, <1>6, <1>7, <1>9
  <2> QED BY <1>6, <1>7, <1>8, <2>1, <2>2, <2>3, <2>4 DEF Takes
<1>11. Fits(p) /\ Len(Base(p).vectors) + 1 <= Capacity
  BY <1>1, <1>8, <1>10, OpensFits
<1>12. PagesTyped' /\ RadiiExact' /\ AllStored' /\ NoneMissed'
  BY <1>1, <1>10, <1>11, TakesKeeps
<1>13. CachesTrue' /\ BufferTrue'
  BY <1>1, CachesRefreshed DEF BufferTrue
<1> QED BY <1>5, <1>12, <1>13 DEF IInv

\* The stored radius is a member's distance, so there is a victim, the farthest
\* member of its page.
LEMMA VictimExists ==
  ASSUME IInv, Crowded, Inside, crashes = 0
  PROVE  LET p == Best[2]
         IN /\ VictimIndex(p) \in DOMAIN pages[p].vectors /\ VictimIndex(p) >= 2
            /\ SquaredL2(pages[p].vectors[VictimIndex(p)], pages[p].vectors[1]) = NewMaxDist(pages[p].vectors)
<1> DEFINE p == Best[2]
           vs == pages[p].vectors
           i == VictimIndex(p)
<1>1. /\ p \in LoadedPages /\ vs # <<>> /\ Best[1] = SquaredL2(current, vs[1])
      /\ Best[1] < pages[p].max_dist /\ pc = "insert"
  BY BestPage DEF IInv, Crowded, Inside
<1> HIDE DEF p
<1>2. p \in AllPages /\ vs \in Seq(Int) /\ pages[p].max_dist \in Nat /\ 1 \in DOMAIN vs /\ DOMAIN vs = 1 .. Len(vs)
  BY <1>1, PageFacts, PageNumbers DEF IInv
<1>3. pages[p].max_dist = NewMaxDist(vs)
  BY <1>1, <1>2 DEF IInv, RadiiExact, Recomputed
<1>4. pages[p].max_dist # 0
  <2>1. current \in Int
    BY <1>1, VectorStoreAssumption DEF IInv, CallTyped, Values
  <2>2. vs[1] \in Int
    <3> HIDE DEF vs
    <3> QED BY <1>2
  <2>3. SquaredL2(current, vs[1]) \in Nat
    BY <2>1, <2>2, SquareTyped
  <2> QED BY <1>1, <1>2, <2>3
<1>5. \E j \in 2 .. Len(vs) : SquaredL2(vs[j], vs[1]) = pages[p].max_dist
  BY <1>2, <1>3, <1>4, NewMaxDistFacts
<1>6. /\ i \in 2 .. Len(vs) + 1 /\ i <= Len(vs)
      /\ i \in DOMAIN vs /\ SquaredL2(vs[i], vs[1]) = pages[p].max_dist
  BY <1>1, <1>2, <1>5, VictimFacts
<1> QED BY <1>3, <1>6 DEF p

\* The pages of case 4: one member replaced, or something past the end.
LEMMA Case4Pages ==
  ASSUME IInv, Case4
  PROVE  LET p == Best[2]
             i == VictimIndex(p)
         IN /\ p \in LoadedPages /\ pages[p].vectors # <<>> /\ i >= 2 /\ i \in Nat
            /\ pages' \in [AllPages -> PageRecords]
            /\ \A r \in AllPages \ {p} : pages'[r] = pages[r]
            /\ pages'[p].max_dist = pages[p].max_dist
            /\ Len(pages'[p].vectors) = Len(pages[p].vectors)
            /\ DOMAIN pages'[p].vectors = DOMAIN pages[p].vectors
            /\ \A j \in DOMAIN pages[p].vectors : j # i => pages'[p].vectors[j] = pages[p].vectors[j]
            /\ \/ /\ i \in DOMAIN pages[p].vectors /\ pages'[p].vectors[i] = current
                  /\ victim' = {pages[p].vectors[i]} /\ exposed' = exposed
               \/ /\ i \notin DOMAIN pages[p].vectors /\ crashes # 0
                  /\ victim' = {pages[p].next_slot} /\ exposed' = exposed \cup {current}
<1> DEFINE p == Best[2]
           vs == pages[p].vectors
           i == VictimIndex(p)
<1>1. /\ Crowded /\ Inside
      /\ \/ /\ i <= Len(vs) /\ victim' = {vs[i]} /\ exposed' = exposed
            /\ pages' = [pages EXCEPT ![p].vectors[i] = current]
         \/ /\ i > Len(vs) /\ victim' = {pages[p].next_slot} /\ exposed' = exposed \cup {current}
            /\ pages' = [pages EXCEPT ![p].next_slot = current]
  <2>1. \A k \in n_vectors(p) + 1 .. Capacity : k > n_vectors(p)
    <3>1. p \in AllPages
      BY BestPage, PageNumbers DEF IInv, Case4, Overfull, Crowded
    <3>2. n_vectors(p) \in Nat
      BY <3>1, PageFacts DEF IInv, n_vectors
    <3> QED BY <3>2
  <2> QED BY <2>1 DEF Case4, Overfull, n_vectors
<1>2. pc = "insert" /\ p \in LoadedPages /\ vs # <<>>
  BY <1>1, BestPage DEF IInv, Crowded
<1>3. crashes = 0 => i \in DOMAIN vs
  BY <1>1, VictimExists
<1> HIDE DEF p
<1>4. /\ p \in AllPages /\ pages[p] \in PageRecords /\ vs \in Seq(Values) /\ vs \in Seq(Int)
      /\ Len(vs) \in Nat /\ DOMAIN vs = 1 .. Len(vs) /\ current \in Values
      /\ pages \in [AllPages -> PageRecords]
  BY <1>2, PageFacts, PageNumbers DEF IInv, CallTyped, PagesTyped
<1>5. i \in 2 .. Len(vs) + 1
  BY <1>2, <1>4, VictimFacts
<1> HIDE DEF i
<1>6. CASE i <= Len(vs)
  <2> DEFINE new == [vs EXCEPT ![i] = current]
             rec == [pages[p] EXCEPT !.vectors = new]
  <2>1. i \in DOMAIN vs /\ i >= 2 /\ i \in Nat
    BY <1>4, <1>5, <1>6
  <2>2. new \in Seq(Values) /\ Len(new) = Len(vs) /\ DOMAIN new = DOMAIN vs /\ new[i] = current
        /\ \A j \in DOMAIN vs : j # i => new[j] = vs[j]
    BY <1>4, <2>1
  <2>3. ~(i > Len(vs))
    BY <1>4, <1>5, <1>6
  <2>4. victim' = {vs[i]} /\ exposed' = exposed /\ pages' = [pages EXCEPT ![p] = rec]
    BY <1>1, <1>4, <2>3 DEF PageRecords
  <2> HIDE DEF new
  <2>5. rec \in PageRecords /\ rec.vectors = new /\ rec.max_dist = pages[p].max_dist
    BY <1>4, <2>2 DEF PageRecords
  <2> HIDE DEF rec
  <2>6. pages' \in [AllPages -> PageRecords] /\ pages'[p] = rec /\ \A r \in AllPages \ {p} : pages'[r] = pages[r]
    BY <1>4, <2>4, <2>5
  <2> QED BY <1>2, <2>1, <2>2, <2>4, <2>5, <2>6 DEF i, p
<1>7. CASE i > Len(vs)
  <2> DEFINE rec == [pages[p] EXCEPT !.next_slot = current]
  <2>1. i \notin DOMAIN vs /\ i >= 2 /\ i \in Nat /\ ~(i <= Len(vs))
    BY <1>4, <1>5, <1>7
  <2>2. victim' = {pages[p].next_slot} /\ exposed' = exposed \cup {current} /\ pages' = [pages EXCEPT ![p] = rec]
    BY <1>1, <1>4, <2>1 DEF PageRecords
  <2>3. rec \in PageRecords /\ rec.vectors = vs /\ rec.max_dist = pages[p].max_dist
    BY <1>4 DEF PageRecords
  <2> HIDE DEF rec
  <2>4. pages' \in [AllPages -> PageRecords] /\ pages'[p] = rec /\ \A r \in AllPages \ {p} : pages'[r] = pages[r]
    BY <1>4, <2>2, <2>3
  <2>5. crashes # 0
    BY <1>3, <2>1 DEF i
  <2> QED BY <1>2, <2>1, <2>2, <2>3, <2>4, <2>5 DEF i, p
<1> QED BY <1>4, <1>5, <1>6, <1>7

LEMMA Case4IInv ==
  ASSUME IInv, Case4
  PROVE  IInv'
<1> DEFINE p == Best[2]
           i == VictimIndex(p)
<1>1. /\ pc = "insert" /\ pc' = "setMax" /\ target' = p
      /\ UNCHANGED <<n_files, saved_n_files, cacheVars, dist_to_anchor_buffer, queried, current,
                     max_num_vectors, inserted, crashes>>
  BY DEF Case4, Overfull, Crowded
<1>2. /\ p \in LoadedPages /\ pages[p].vectors # <<>> /\ i >= 2 /\ i \in Nat
      /\ pages' \in [AllPages -> PageRecords]
      /\ \A r \in AllPages \ {p} : pages'[r] = pages[r]
      /\ pages'[p].max_dist = pages[p].max_dist
      /\ Len(pages'[p].vectors) = Len(pages[p].vectors)
      /\ DOMAIN pages'[p].vectors = DOMAIN pages[p].vectors
      /\ \A j \in DOMAIN pages[p].vectors : j # i => pages'[p].vectors[j] = pages[p].vectors[j]
      /\ \/ /\ i \in DOMAIN pages[p].vectors /\ pages'[p].vectors[i] = current
            /\ victim' = {pages[p].vectors[i]} /\ exposed' = exposed
         \/ /\ i \notin DOMAIN pages[p].vectors /\ crashes # 0
            /\ victim' = {pages[p].next_slot} /\ exposed' = exposed \cup {current}
  BY Case4Pages
<1> HIDE DEF p, i
<1>3. /\ p \in AllPages /\ 1 \in DOMAIN pages[p].vectors /\ LoadedPages \subseteq AllPages
      /\ KeptPages = LoadedPages /\ KeptPages' = LoadedPages /\ LoadedPages' = LoadedPages
      /\ AllPages' = AllPages
  BY <1>1, <1>2, PageFacts, PageNumbers DEF IInv, KeptPages, LoadedPages, NumPages, AllPages
<1>4. pages'[p].vectors[1] = pages[p].vectors[1] /\ pages'[p].vectors # <<>>
  <2>1. pages'[p].vectors[1] = pages[p].vectors[1]
    BY <1>2, <1>3
  <2>2. DOMAIN pages'[p].vectors # DOMAIN <<>>
    BY <1>2, <1>3
  <2> QED BY <2>1, <2>2
<1>5. \A r \in AllPages : /\ pages'[r].max_dist = pages[r].max_dist
                          /\ pages'[r].vectors = <<>> <=> pages[r].vectors = <<>>
                          /\ Len(pages'[r].vectors) = Len(pages[r].vectors)
                          /\ DOMAIN pages'[r].vectors = DOMAIN pages[r].vectors
                          /\ 1 \in DOMAIN pages[r].vectors => pages'[r].vectors[1] = pages[r].vectors[1]
                          /\ \A j \in DOMAIN pages[r].vectors :
                               (r = p /\ j = i) \/ pages'[r].vectors[j] = pages[r].vectors[j]
  BY <1>2, <1>3, <1>4
<1>6. PagesTyped'
  BY <1>2, <1>3, <1>5 DEF IInv, PagesTyped, n_vectors
<1>7. CallTyped'
  <2>1. victim' \subseteq Values /\ \A x, y \in victim' : x = y
    BY <1>2, <1>3, PageFacts DEF IInv
  <2>2. exposed' \subseteq Values
    BY <1>1, <1>2 DEF IInv, CallTyped
  <2> QED BY <1>1, <1>2, <1>3, <1>4, <2>1, <2>2 DEF IInv, CallTyped
<1>8. CachesTrue'
  <2>1. \A r \in LoadedPages : pages[r].vectors # <<>> => 1 \in DOMAIN pages[r].vectors
    BY <1>3, PageFacts DEF IInv
  <2> QED BY <1>1, <1>3, <1>5, <2>1, CachesKept DEF IInv
<1>9. BufferTrue'
  BY <1>1 DEF BufferTrue
<1>10. RadiiExact'
  BY <1>1, <1>2, <1>3 DEF IInv, RadiiExact, Recomputed
<1>11. InHand = {current} /\ InHand' = victim'
  BY <1>1 DEF IInv, CallTyped, InHand
<1>12. AllStored'
  <2> DEFINE x == pages[p].vectors[i]
  <2> SUFFICES ASSUME crashes' = 0
               PROVE  /\ InHand' \subseteq inserted
                      /\ \A v \in inserted \ InHand' :
                           \E r \in KeptPages' : \E j \in DOMAIN pages'[r].vectors : pages'[r].vectors[j] = v
                      /\ \A r \in AllPages : \A j \in DOMAIN pages'[r].vectors :
                           r \in KeptPages' /\ pages'[r].vectors[j] \in inserted \ InHand'
                      /\ OnePlaceEach'
    BY <1>1, <1>3 DEF AllStored, Holds
  <2>1. i \in DOMAIN pages[p].vectors /\ pages'[p].vectors[i] = current /\ InHand' = {x} /\ crashes = 0
    BY <1>1, <1>2, <1>11
  <2>2. /\ current \in inserted /\ x \in inserted /\ x # current
        /\ \A r \in AllPages : \A j \in DOMAIN pages[r].vectors :
             r \in KeptPages /\ pages[r].vectors[j] \in inserted /\ pages[r].vectors[j] # current
        /\ \A v \in inserted : v = current \/ \E r \in KeptPages : Holds(r, v)
        /\ OnePlaceEach
    BY <1>3, <1>11, <2>1 DEF IInv, AllStored
  <2> HIDE DEF x
  <2>3. \A r \in AllPages : \A j \in DOMAIN pages[r].vectors : pages[r].vectors[j] = x => r = p /\ j = i
    BY <1>3, <2>1, <2>2 DEF OnePlaceEach, x
  <2>4. ASSUME NEW v \in inserted \ InHand'
        PROVE  \E r \in KeptPages' : \E j \in DOMAIN pages'[r].vectors : pages'[r].vectors[j] = v
    <3>1. CASE v = current
      BY <1>2, <1>3, <2>1, <3>1
    <3>2. CASE v # current
      <4>1. PICK r \in KeptPages : Holds(r, v)
        BY <2>2, <3>2
      <4>2. PICK j \in DOMAIN pages[r].vectors : pages[r].vectors[j] = v
        BY <4>1 DEF Holds
      <4>3. ~(r = p /\ j = i)
        BY <2>1, <2>4, <4>2 DEF x
      <4> QED BY <1>3, <1>5, <4>2, <4>3
    <3> QED BY <3>1, <3>2
  <2>5. ASSUME NEW r \in AllPages, NEW j \in DOMAIN pages'[r].vectors
        PROVE  r \in KeptPages' /\ pages'[r].vectors[j] \in inserted \ InHand'
    BY <1>3, <1>5, <2>1, <2>2, <2>3, <2>5
  <2>6. OnePlaceEach'
    <3> SUFFICES ASSUME NEW r \in AllPages, NEW t \in AllPages,
                        NEW j \in DOMAIN pages'[r].vectors, NEW k \in DOMAIN pages'[t].vectors,
                        pages'[r].vectors[j] = pages'[t].vectors[k]
                 PROVE  r = t /\ j = k
      BY <1>3 DEF OnePlaceEach
    <3>1. j \in DOMAIN pages[r].vectors /\ k \in DOMAIN pages[t].vectors
      BY <1>5
    <3>2. CASE r = p /\ j = i
      BY <1>5, <2>1, <2>2, <3>1, <3>2
    <3>3. CASE t = p /\ k = i
      BY <1>5, <2>1, <2>2, <3>1, <3>3
    <3>4. CASE ~(r = p /\ j = i) /\ ~(t = p /\ k = i)
      <4>1. pages[r].vectors[j] = pages[t].vectors[k]
        BY <1>5, <3>1, <3>4
      <4> QED BY <2>2, <3>1, <4>1 DEF OnePlaceEach
    <3> QED BY <3>2, <3>3, <3>4
  <2> QED BY <2>1, <2>2, <2>4, <2>5, <2>6
<1>13. NoneMissed'
  <2> SUFFICES ASSUME NEW v \in inserted' \ exposed'
               PROVE  Covered(v)' \/ v \in InHand' \/ AwaitsSetMax(v)'
    BY DEF NoneMissed
  <2>1. CASE v = current
    <3>1. i \in DOMAIN pages'[p].vectors /\ pages'[p].vectors[i] = current
      BY <1>2, <2>1
    <3>2. Holds(target, v)'
      BY <1>1, <2>1, <3>1 DEF Holds
    <3> QED BY <1>1, <2>1, <3>2 DEF AwaitsSetMax
  <2>2. CASE v # current
    <3>1. Covered(v)
      BY <1>1, <1>2, <1>11, <2>2 DEF IInv, NoneMissed, AwaitsSetMax
    <3>2. PICK r \in KeptPages : Holds(r, v) /\ SquaredL2(v, pages[r].vectors[1]) <= pages[r].max_dist
      BY <3>1 DEF Covered
    <3>3. PICK j \in DOMAIN pages[r].vectors : pages[r].vectors[j] = v
      BY <3>2 DEF Holds
    <3>4. r \in AllPages /\ 1 \in DOMAIN pages[r].vectors
      BY <1>3, <3>3, PageFacts DEF IInv
    <3>5. CASE r = p /\ j = i
      BY <1>2, <1>11, <3>3, <3>5
    <3>6. CASE ~(r = p /\ j = i)
      <4>1. Holds(r, v)'
        BY <1>5, <3>3, <3>4, <3>6 DEF Holds
      <4>2. SquaredL2(v, pages'[r].vectors[1]) <= pages'[r].max_dist
        BY <1>5, <3>2, <3>4
      <4> QED BY <1>3, <4>1, <4>2 DEF Covered
    <3> QED BY <3>5, <3>6
  <2> QED BY <2>1, <2>2
<1> QED BY <1>6, <1>7, <1>8, <1>9, <1>10, <1>12, <1>13 DEF IInv

\* A call that writes past its page is the last one modelled: the pages are as they were.
LEMMA OverrunIInv ==
  ASSUME IInv, Overrun
  PROVE  IInv'
<1>1. /\ UNCHANGED <<contentVars, n_files, cacheVars, current, max_num_vectors, target>>
      /\ pc = "insert" /\ pc' = "overrun" /\ victim' = {} /\ queried' = {}
  BY DEF Overrun, contentVars, storageVars, historyVars
<1>2. InHand = {current} /\ InHand' = {current}
  BY <1>1 DEF InHand, IInv, CallTyped
<1>3. PagesTyped' /\ RadiiExact' /\ AllStored' /\ NoneMissed'
  BY <1>1, <1>2, SameContents DEF IInv
<1>4. CallTyped'
  BY <1>1 DEF IInv, CallTyped, contentVars, AllPages
<1>5. CachesTrue'
  BY <1>1, CachesKept DEF IInv, contentVars
<1>6. BufferTrue'
  BY <1>1 DEF BufferTrue
<1> QED BY <1>3, <1>4, <1>5, <1>6 DEF IInv

\* Until a crash there is none: without a best page the first page is empty, and a
\* best page that is full holds its victim.
LEMMA NoOverrun ==
  ASSUME IInv, Overrun, crashes = 0
  PROVE  FALSE
<1>1. pc = "insert" /\ SlotWritten > Capacity
  BY DEF Overrun
<1>2. CASE dist_to_anchor_buffer = {}
  <2>1. n_vectors(0) = 0
    BY <1>1, <1>2, NoBestPage, PageNumbers DEF IInv, n_vectors
  <2> QED BY <1>1, <1>2, <2>1, VectorStoreAssumption DEF SlotWritten
<1>3. CASE dist_to_anchor_buffer # {} /\ Overfull
  <2> DEFINE p == Best[2]
             i == VictimIndex(p)
  <2>1. i \in DOMAIN pages[p].vectors /\ p \in AllPages
    BY <1>1, <1>3, VictimExists, BestPage, PageNumbers DEF IInv, Overfull
  <2> HIDE DEF p, i
  <2>2. i \in 1 .. Len(pages[p].vectors) /\ Len(pages[p].vectors) \in Nat /\ Len(pages[p].vectors) <= Capacity
    BY <2>1, PageFacts DEF IInv, PagesTyped, n_vectors
  <2>3. i <= Capacity
    BY <2>2, VectorStoreAssumption
  <2> QED BY <1>1, <1>3, <2>2, <2>3, VectorStoreAssumption DEF SlotWritten, p, i
<1>4. CASE dist_to_anchor_buffer # {} /\ ~Overfull
  BY <1>1, <1>4, VectorStoreAssumption DEF SlotWritten
<1> QED BY <1>2, <1>3, <1>4

LEMMA SetMaxIInv ==
  ASSUME IInv, SetMax
  PROVE  IInv'
<1> DEFINE vs == pages[target].vectors
           m == NewMaxDist(vs)
<1>1. /\ pc = "setMax" /\ pages' = [pages EXCEPT ![target].max_dist = m]
      /\ UNCHANGED <<n_files, cached_vectors, saved_n_files, victim, target, max_num_vectors, historyVars>>
      /\ cached_max_dists' = MaxDistsOf(pages', NumPages)
      /\ \/ victim = {} /\ pc' = "ready" /\ queried' = {} /\ UNCHANGED current
         \/ \E v \in victim : /\ pc' = "insert" /\ current' = v /\ UNCHANGED queried
                              /\ dist_to_anchor_buffer' = Distances(v, cached_vectors, cached_max_dists')
  BY DEF SetMax
<1>2. /\ target \in LoadedPages /\ target \in AllPages /\ vs # <<>> /\ vs \in Seq(Int) /\ m \in Nat
      /\ pages \in [AllPages -> PageRecords] /\ LoadedPages \subseteq AllPages
      /\ KeptPages = LoadedPages /\ KeptPages' = LoadedPages /\ LoadedPages' = LoadedPages
      /\ AllPages' = AllPages /\ NumPages' = NumPages
  <2>1. target \in LoadedPages /\ target \in AllPages /\ vs # <<>> /\ pc' # "closed"
    BY <1>1 DEF IInv, CallTyped
  <2>2. vs \in Seq(Int)
    BY <2>1, PageFacts DEF IInv
  <2>3. m \in Nat
    BY <2>2, NewMaxDistFacts
  <2>4. NumPages' = NumPages
    BY <1>1 DEF NumPages
  <2> QED BY <1>1, <2>1, <2>2, <2>3, <2>4, PageNumbers DEF IInv, KeptPages, LoadedPages, AllPages, PagesTyped
<1> HIDE DEF m
<1>3. /\ pages' \in [AllPages -> PageRecords] /\ pages'[target].max_dist = m
      /\ \A r \in AllPages : pages'[r].vectors = pages[r].vectors
      /\ \A r \in AllPages : r # target => pages'[r].max_dist = pages[r].max_dist
  <2> DEFINE rec == [pages[target] EXCEPT !.max_dist = m]
  <2>1. pages[target] \in PageRecords /\ pages' = [pages EXCEPT ![target] = rec]
    BY <1>1, <1>2 DEF PageRecords
  <2>2. rec \in PageRecords /\ rec.max_dist = m /\ rec.vectors = vs
    BY <1>2, <2>1 DEF PageRecords
  <2> HIDE DEF rec
  <2>3. pages' \in [AllPages -> PageRecords] /\ pages'[target] = rec /\ \A r \in AllPages \ {target} : pages'[r] = pages[r]
    BY <1>2, <2>1, <2>2
  <2> QED BY <2>2, <2>3
<1>4. PagesTyped'
  BY <1>2, <1>3 DEF IInv, PagesTyped, n_vectors
<1>5. InHand' = InHand /\ InHand = victim /\ (pc' = "insert" => victim \subseteq {current'} /\ current' \in victim)
  BY <1>1 DEF IInv, CallTyped, InHand
<1>6. CallTyped'
  BY <1>1, <1>2, <1>5 DEF IInv, CallTyped, historyVars
<1>7. CachesTrue'
  <2>1. cached_max_dists' = MaxDistsOf(pages', NumPages')
    BY <1>1, <1>2
  <2>2. DOMAIN cached_max_dists' = {r \in LoadedPages : pages[r].vectors # <<>>}
    BY <1>2, <1>3, <2>1 DEF MaxDistsOf, LoadedPages
  <2>3. \A r \in DOMAIN cached_max_dists' : cached_vectors'[r] = pages'[r].vectors[1]
    BY <1>1, <1>2, <1>3, <2>2, CacheFacts DEF IInv
  <2> QED BY <2>1, <2>3 DEF CachesTrue
<1>8. BufferTrue'
  BY <1>1 DEF BufferTrue
<1>9. RadiiExact'
  BY <1>1, <1>2, <1>3 DEF IInv, RadiiExact, Recomputed, historyVars, m
<1>10. AllStored'
  BY <1>1, <1>2, <1>3, <1>5 DEF IInv, AllStored, OnePlaceEach, Holds, historyVars
<1>11. NoneMissed'
  <2> SUFFICES ASSUME NEW v \in inserted' \ exposed' PROVE Covered(v)' \/ v \in InHand'
    BY DEF NoneMissed
  <2>1. Covered(v) \/ v \in InHand \/ Holds(target, v)
    BY <1>1 DEF IInv, NoneMissed, AwaitsSetMax, historyVars
  <2>2. CASE v \in InHand
    BY <1>5, <2>2
  <2>3. CASE Holds(target, v)
    <3>1. PICK j \in DOMAIN vs : vs[j] = v
      BY <2>3 DEF Holds
    <3>2. SquaredL2(v, vs[1]) <= m
      BY <1>2, <3>1, NewMaxDistFacts DEF m
    <3>3. Holds(target, v)' /\ SquaredL2(v, pages'[target].vectors[1]) <= pages'[target].max_dist
      BY <1>1, <1>2, <1>3, <3>1, <3>2 DEF Holds
    <3>4. \E r \in KeptPages' : Holds(r, v)' /\ SquaredL2(v, pages'[r].vectors[1]) <= pages'[r].max_dist
      BY <1>1, <1>2, <3>3 DEF Holds
    <3> QED BY <3>4 DEF Covered
  <2>4. CASE Covered(v) /\ ~Holds(target, v)
    <3>1. PICK r \in KeptPages : Holds(r, v) /\ SquaredL2(v, pages[r].vectors[1]) <= pages[r].max_dist
      BY <2>4 DEF Covered
    <3>2. r # target /\ r \in AllPages
      BY <1>2, <2>4, <3>1
    <3>3. Holds(r, v)' /\ SquaredL2(v, pages'[r].vectors[1]) <= pages'[r].max_dist
      BY <1>3, <3>1, <3>2 DEF Holds
    <3> QED BY <1>2, <3>1, <3>3 DEF Covered
  <2> QED BY <2>1, <2>2, <2>3, <2>4
<1> QED BY <1>4, <1>6, <1>7, <1>8, <1>9, <1>10, <1>11 DEF IInv

\* Nothing is open, so nothing is cached.
LEMMA ForgetCached ==
  ASSUME Forget
  PROVE  CachesTrue' /\ BufferTrue'
<1>1. n_files' = 0 /\ cached_max_dists' = [p \in {} |-> 0] /\ pc' = "closed"
  BY DEF Forget
<1>2. NumPages' = 0
  BY <1>1, VectorStoreAssumption DEF NumPages
<1>3. {p \in 0 .. 0 - 1 : pages'[p].vectors # <<>>} = {}
  OBVIOUS
<1>4. cached_max_dists' = MaxDistsOf(pages', 0)
  BY <1>1, <1>3 DEF MaxDistsOf
<1>5. CachesTrue'
  BY <1>1, <1>2, <1>4 DEF CachesTrue
<1> QED BY <1>1, <1>5 DEF BufferTrue

LEMMA CloseIInv ==
  ASSUME IInv, Close
  PROVE  IInv'
<1>1. /\ pc = "ready" /\ pc' = "closed" /\ saved_n_files' = n_files /\ n_files' = 0 /\ queried' = {} /\ victim' = {}
      /\ UNCHANGED <<pages, current, max_num_vectors, target, inserted, exposed, crashes>> /\ Forget
  BY DEF Close, Forget
<1>2. victim = {} /\ n_files \in 1 .. MaxFiles /\ InHand = {} /\ InHand' = {}
  BY <1>1 DEF IInv, CallTyped, InHand
<1>3. KeptPages' = KeptPages /\ AllPages' = AllPages
  BY <1>1 DEF KeptPages, SavedPages, LoadedPages, NumPages, AllPages
<1>4. PagesTyped'
  BY <1>1, <1>3 DEF IInv, PagesTyped, n_vectors
<1>5. CallTyped'
  BY <1>1, <1>2, <1>3 DEF IInv, CallTyped
<1>6. RadiiExact'
  BY <1>1, <1>3 DEF IInv, RadiiExact, Recomputed
<1>7. AllStored'
  BY <1>1, <1>2, <1>3 DEF IInv, AllStored, OnePlaceEach, Holds
<1>8. NoneMissed'
  <2> SUFFICES ASSUME NEW v \in inserted' \ exposed' PROVE Covered(v)'
    BY DEF NoneMissed
  <2>1. Covered(v)
    BY <1>1, <1>2 DEF IInv, NoneMissed, AwaitsSetMax
  <2> QED BY <1>1, <1>3, <2>1 DEF Covered, Holds
<1> QED BY <1>1, <1>4, <1>5, <1>6, <1>7, <1>8, ForgetCached DEF IInv

LEMMA LoadIInv ==
  ASSUME IInv, Load
  PROVE  IInv'
<1>1. /\ pc = "closed" /\ pc' = "ready" /\ n_files' = saved_n_files
      /\ UNCHANGED <<pages, saved_n_files, queried, current, max_num_vectors, victim, target, inserted, exposed, crashes>>
      /\ UpdateCaches
  BY DEF Load, callVars, historyVars
<1>2. victim = {} /\ queried = {} /\ InHand = {} /\ InHand' = {}
  BY <1>1 DEF IInv, CallTyped, InHand
<1>3. KeptPages' = KeptPages /\ AllPages' = AllPages
  BY <1>1 DEF KeptPages, SavedPages, LoadedPages, NumPages, AllPages
<1>4. UNCHANGED <<pages, inserted, exposed, crashes>>
  BY <1>1
<1>5. PagesTyped'
  BY <1>1, <1>3 DEF IInv, PagesTyped, n_vectors
<1>6. CallTyped'
  BY <1>1, <1>2, <1>3 DEF IInv, CallTyped
<1>7. RadiiExact'
  BY <1>1, <1>3 DEF IInv, RadiiExact, Recomputed
<1>8. AllStored'
  BY <1>1, <1>2, <1>3 DEF IInv, AllStored, OnePlaceEach, Holds
<1>9. NoneMissed'
  <2> SUFFICES ASSUME NEW v \in inserted' \ exposed' PROVE Covered(v)'
    BY DEF NoneMissed
  <2>1. Covered(v)
    BY <1>1, <1>2 DEF IInv, NoneMissed, AwaitsSetMax
  <2> QED BY <1>1, <1>3, <2>1 DEF Covered, Holds
<1>10. CachesTrue' /\ BufferTrue'
  BY <1>1, <1>2, CachesRefreshed DEF BufferTrue
<1> QED BY <1>5, <1>6, <1>7, <1>8, <1>9, <1>10 DEF IInv

\* What the crash does not expose is in a saved file, under its stored radius.
LEMMA CrashIInv ==
  ASSUME IInv, Crash
  PROVE  IInv'
<1> DEFINE held == IF pc \in {"insert", "setMax"} THEN {current} ELSE {}
<1>1. /\ pc # "closed" /\ pc # "overrun" /\ pc' = "closed" /\ n_files' = 0 /\ queried' = {} /\ victim' = {}
      /\ UNCHANGED <<pages, saved_n_files, current, max_num_vectors, target, inserted>> /\ Forget
      /\ crashes' = crashes + 1
      /\ exposed' = exposed \cup UnsavedVectors \cup victim \cup held
  BY DEF Crash, Forget
<1>2. crashes' \in Nat /\ crashes' # 0
  BY <1>1 DEF IInv, CallTyped
<1>3. /\ KeptPages = LoadedPages /\ KeptPages' = SavedPages /\ AllPages' = AllPages
      /\ LoadedPages \subseteq AllPages
  BY <1>1, PageNumbers DEF IInv, KeptPages, SavedPages, AllPages
<1>4. UnsavedVectors = UNION {{pages[p].vectors[i] : i \in DOMAIN pages[p].vectors} : p \in LoadedPages \ SavedPages}
  BY DEF UnsavedVectors, VectorsIn, ToSet
<1>5. PagesTyped'
  BY <1>1, <1>3 DEF IInv, PagesTyped, n_vectors
<1>6. CallTyped'
  <2>1. UnsavedVectors \subseteq Values
    <3> SUFFICES ASSUME NEW v \in UnsavedVectors PROVE v \in Values
      OBVIOUS
    <3>1. PICK p \in LoadedPages : \E i \in DOMAIN pages[p].vectors : pages[p].vectors[i] = v
      BY <1>4
    <3> QED BY <1>3, <3>1, PageFacts DEF IInv
  <2>2. held \subseteq Values
    BY DEF IInv, CallTyped
  <2> HIDE DEF held
  <2>3. exposed' \subseteq Values
    BY <1>1, <2>1, <2>2 DEF IInv, CallTyped
  <2> QED BY <1>1, <1>2, <1>3, <2>3 DEF IInv, CallTyped
<1>7. RadiiExact' /\ AllStored'
  BY <1>2 DEF RadiiExact, AllStored
<1>8. NoneMissed'
  <2> SUFFICES ASSUME NEW v \in inserted' \ exposed' PROVE Covered(v)'
    BY DEF NoneMissed
  <2>1. v \in inserted \ exposed /\ v \notin UnsavedVectors /\ v \notin victim /\ v \notin held
    BY <1>1
  <2>2. Covered(v)
    BY <1>1, <2>1 DEF IInv, NoneMissed, AwaitsSetMax, InHand
  <2>3. PICK p \in KeptPages : Holds(p, v) /\ SquaredL2(v, pages[p].vectors[1]) <= pages[p].max_dist
    BY <2>2 DEF Covered
  <2>4. p \in SavedPages
    BY <1>3, <1>4, <2>1, <2>3 DEF Holds
  <2>5. Holds(p, v)' /\ SquaredL2(v, pages'[p].vectors[1]) <= pages'[p].max_dist
    BY <1>1, <2>3 DEF Holds
  <2> QED BY <1>3, <2>4, <2>5 DEF Covered
<1> QED BY <1>1, <1>5, <1>6, <1>7, <1>8, ForgetCached DEF IInv

LEMMA NextIInv ==
  ASSUME QueryFirst, IInv, [Next]_vars
  PROVE  IInv'
<1>1. CASE UNCHANGED vars
  BY <1>1 DEF vars, storageVars, cacheVars, callVars, historyVars, IInv, PagesTyped, CallTyped, CachesTrue,
     BufferTrue, RadiiExact, AllStored, NoneMissed, AllPages, LoadedPages, SavedPages, NumPages, n_vectors,
     KeptPages, InHand, OnePlaceEach, Holds, Covered, AwaitsSetMax, Recomputed
<1>2. ASSUME NEW v \in Vectors, Query(v) \/ Insert(v) PROVE IInv'
  BY <1>2, QueryIInv, InsertIInv
<1>3. CASE InsertStep
  BY <1>3, Case1IInv, Case2IInv, Case3IInv, Case4IInv, OverrunIInv, SetMaxIInv, Case5IInv, Case6IInv DEF InsertStep
<1>4. CASE Close \/ Crash \/ Load
  BY <1>4, CloseIInv, CrashIInv, LoadIInv
<1> QED BY <1>1, <1>2, <1>3, <1>4 DEF Next

THEOREM SpecIInv ==
  ASSUME QueryFirst
  PROVE  Spec => []IInv
<1>1. Init => IInv
  BY InitIInv
<1>2. IInv /\ [Next]_vars => IInv'
  BY NextIInv
<1> QED BY <1>1, <1>2, PTL DEF Spec

-----------------------------------------------------------------------------
(***************************************************************************)
(* What it means for clients.                                              *)
(***************************************************************************)
\* The exact test never skips a page under the distance of a vector that lies
\* within the page's radius.
LEMMA OwnBound ==
  ASSUME NEW q \in Int, NEW a \in Int, NEW v \in Int, NEW M \in Nat, SquaredL2(v, a) <= M
  PROVE  ~PruneExact(SquaredL2(q, a), M, SquaredL2(q, v))
<1> DEFINE x == q - a
           y == v - a
           gap == M - y * y
           s == x * x + M - (x - y) * (x - y)
<1>1. /\ x \in Int /\ y \in Int /\ SquaredL2(q, a) = x * x /\ SquaredL2(v, a) = y * y
      /\ SquaredL2(q, v) = (x - y) * (x - y)
  <2>1. q - v = x - y
    OBVIOUS
  <2> QED BY <2>1 DEF SquaredL2
<1> SUFFICES ASSUME x * x > M, s * s > 4 * (x * x * M) PROVE FALSE
  BY <1>1 DEF PruneExact
<1>2. gap \in Nat
  BY <1>1
<1> HIDE DEF x, y
<1>3. s = gap + 2 * (x * y)
  BY <1>1, SMT
<1>4. s * s - 4 * (x * x * M) = gap * (gap + 4 * (x * y) - 4 * (x * x))
  BY <1>1, <1>3, SMT
<1>5. (x - y) * (x - y) >= 0
  <2> DEFINE z == x - y
  <2>1. z \in Int
    BY <1>1
  <2> HIDE DEF z
  <2>2. z * z \in Nat
    BY <2>1, SquareNatural
  <2> QED BY <2>2 DEF z
<1>6. gap + 4 * (x * y) - 4 * (x * x) <= 0
  BY <1>1, <1>5, SMT
<1>7. gap * (gap + 4 * (x * y) - 4 * (x * x)) <= 0
  <2> DEFINE e == gap + 4 * (x * y) - 4 * (x * x)
  <2>1. e \in Int /\ e <= 0
    BY <1>1, <1>2, <1>6
  <2> HIDE DEF gap, e
  <2>2. gap * e <= 0
    BY <1>2, <2>1, SMT
  <2> QED BY <2>2 DEF e
<1> QED BY <1>1, <1>4, <1>7

LEMMA IInvTypeOK == IInv => TypeOK
<1> SUFFICES ASSUME IInv PROVE TypeOK
  OBVIOUS
<1>1. PagesTyped /\ CallTyped
  BY DEF IInv
<1>2. DOMAIN pages = AllPages
  BY <1>1 DEF PagesTyped
<1>3. ASSUME NEW p \in AllPages
      PROVE  /\ pages[p].max_dist \in Nat /\ ToSet(pages[p].vectors) \subseteq Vectors \cup {Ghost}
             /\ n_vectors(p) <= Capacity
  BY <1>1, PageFacts DEF ToSet, Values, PagesTyped
<1>4. n_files \in 0 .. MaxFiles /\ pc \in {"closed", "ready", "insert", "setMax", "overrun"}
  BY <1>1, VectorStoreAssumption DEF CallTyped
<1>5. DOMAIN cached_max_dists \subseteq AllPages
  BY <1>1, CacheFacts, PageNumbers DEF IInv
<1> QED BY <1>1, <1>2, <1>3, <1>4, <1>5 DEF TypeOK, CallTyped, Values

LEMMA IInvRadiusExact == IInv => RadiusExact
  BY DEF IInv, RadiusExact, RadiiExact, Recomputed, Undamaged

LEMMA IInvNoVectorLost == IInv => NoVectorLost
<1> SUFFICES ASSUME IInv, Undamaged
             PROVE  VectorsIn(KeptPages) = inserted /\ VectorsIn(AllPages \ KeptPages) = {} /\ OnePlaceEach
  BY DEF NoVectorLost
<1>1. InHand = {} /\ crashes = 0
  BY DEF IInv, CallTyped, Undamaged, InHand
<1>2. \A P : VectorsIn(P) = UNION {{pages[p].vectors[i] : i \in DOMAIN pages[p].vectors} : p \in P}
  BY DEF VectorsIn, ToSet
<1>3. KeptPages \subseteq AllPages
  BY PageNumbers DEF IInv
<1>4. /\ \A v \in inserted : \E p \in KeptPages : Holds(p, v)
      /\ \A p \in AllPages : \A i \in DOMAIN pages[p].vectors :
           p \in KeptPages /\ pages[p].vectors[i] \in inserted
      /\ OnePlaceEach
  BY <1>1 DEF IInv, AllStored
<1>5. ASSUME NEW v \in inserted PROVE v \in VectorsIn(KeptPages)
  BY <1>2, <1>4 DEF Holds
<1>6. ASSUME NEW v \in VectorsIn(KeptPages) PROVE v \in inserted
  BY <1>2, <1>3, <1>4
<1>7. ASSUME NEW v \in VectorsIn(AllPages \ KeptPages) PROVE FALSE
  BY <1>2, <1>4
<1> QED BY <1>4, <1>5, <1>6, <1>7

LEMMA IInvCachesFresh == IInv => CachesFresh
  BY DEF IInv, CachesFresh, CachesTrue

LEMMA IInvSearchMissesOnlyExposed == IInv => SearchMissesOnlyExposed
<1> SUFFICES ASSUME IInv, pc = "ready", NEW v \in inserted \ exposed, NEW q \in Vectors
             PROVE  Reaches(q, v)
  BY DEF SearchMissesOnlyExposed
<1>1. Covered(v)
  BY DEF IInv, CallTyped, NoneMissed, InHand, AwaitsSetMax
<1>2. PICK p \in KeptPages : Holds(p, v) /\ SquaredL2(v, pages[p].vectors[1]) <= pages[p].max_dist
  BY <1>1 DEF Covered
<1>3. PICK i \in DOMAIN pages[p].vectors : pages[p].vectors[i] = v
  BY <1>2 DEF Holds
<1>4. p \in LoadedPages /\ p \in AllPages
  BY PageNumbers DEF IInv, KeptPages
<1>5. /\ 1 \in DOMAIN pages[p].vectors /\ pages[p].vectors # <<>>
      /\ pages[p].vectors[1] \in Int /\ v \in Int /\ pages[p].max_dist \in Nat
  BY <1>3, <1>4, PageFacts DEF IInv
<1>6. /\ p \in DOMAIN cached_max_dists /\ cached_max_dists[p] = pages[p].max_dist
      /\ cached_vectors[p] = pages[p].vectors[1]
  BY <1>4, <1>5, CacheFacts DEF IInv
<1>7. v \in ToSet(pages[p].vectors)
  BY <1>3 DEF ToSet
<1>8. ~PruneExact(SquaredL2(q, cached_vectors[p]), cached_max_dists[p], SquaredL2(q, v))
  <2>1. q \in Int
    BY VectorStoreAssumption
  <2> QED BY <1>2, <1>5, <1>6, <2>1, OwnBound
<1> QED BY <1>6, <1>7, <1>8 DEF Reaches

\* Type correctness; it bounds every page by max_num_vectors_per_page.
THEOREM SpecTypeOK ==
  ASSUME QueryFirst
  PROVE  Spec => []TypeOK
<1>1. IInv => TypeOK
  BY IInvTypeOK
<1> QED BY <1>1, SpecIInv, PTL

\* The stored radius of every page is exact, whatever cases inserts take.
THEOREM SpecRadiusExact ==
  ASSUME QueryFirst
  PROVE  Spec => []RadiusExact
<1>1. IInv => RadiusExact
  BY IInvRadiusExact
<1> QED BY <1>1, SpecIInv, PTL

\* No chain of evictions loses or doubles a vector, and none ends outside the
\* files the config names.
THEOREM SpecNoVectorLost ==
  ASSUME QueryFirst
  PROVE  Spec => []NoVectorLost
<1>1. IInv => NoVectorLost
  BY IInvNoVectorLost
<1> QED BY <1>1, SpecIInv, PTL

\* Between two calls the caches say what the pages hold, also after a crash.
THEOREM SpecCachesFresh ==
  ASSUME QueryFirst
  PROVE  Spec => []CachesFresh
<1>1. IInv => CachesFresh
  BY IInvCachesFresh
<1> QED BY <1>1, SpecIInv, PTL

\* An exact search reaches every vector that no crash has exposed, with any
\* number of crashes, closes and loads between the inserts, until a call has
\* written past its page.
THEOREM SpecSearchMissesOnlyExposed ==
  ASSUME QueryFirst
  PROVE  Spec => []SearchMissesOnlyExposed
<1>1. IInv => SearchMissesOnlyExposed
  BY IInvSearchMissesOnlyExposed
<1> QED BY <1>1, SpecIInv, PTL

\* Until a crash, what case 4 evicts is the farthest member of its page.
LEMMA Case4EvictsFarthest ==
  ASSUME IInv, Case4, crashes = 0
  PROVE  VictimFarthestStep
<1> DEFINE p == Best[2]
           i == VictimIndex(p)
<1>1. Crowded /\ Inside /\ target' = p /\ pc' = "setMax"
  BY DEF Case4, Overfull
<1>2. /\ i \in DOMAIN pages[p].vectors /\ i >= 2
      /\ SquaredL2(pages[p].vectors[i], pages[p].vectors[1]) = NewMaxDist(pages[p].vectors)
  BY <1>1, VictimExists
<1>3. victim' = {pages[p].vectors[i]} /\ p \in LoadedPages
  BY <1>2, Case4Pages
<1> HIDE DEF p, i
<1>4. i \in 2 .. n_vectors(p)
  BY <1>2, <1>3, PageFacts, PageNumbers DEF IInv, n_vectors
<1> QED BY <1>1, <1>2, <1>3, <1>4 DEF VictimFarthestStep

\* Before a crash an eviction replaces a member at the radius by a nearer one, the
\* one it was called with, and touches no other page: that is why a chain of
\* evictions ends.
LEMMA Case4Tightens ==
  ASSUME IInv, Case4, crashes = 0
  PROVE  LET before == pages[target'].vectors
             after == pages'[target'].vectors
             radius == NewMaxDist(before)
         IN /\ \A p \in AllPages \ {target'} : pages'[p] = pages[p]
            /\ NewMaxDist(after) <= radius
            /\ MembersAt(after, radius) \subseteq MembersAt(before, radius)
            /\ MembersAt(after, radius) # MembersAt(before, radius)
<1> DEFINE p == Best[2]
           i == VictimIndex(p)
           before == pages[p].vectors
           after == pages'[p].vectors
           radius == NewMaxDist(before)
<1>1. Crowded /\ Inside /\ target' = p /\ pc = "insert"
  BY DEF Case4, Overfull, Crowded
<1>2. /\ i \in DOMAIN before /\ i >= 2 /\ i \in Nat
      /\ SquaredL2(before[i], before[1]) = radius
  BY <1>1, VictimExists, Case4Pages
<1>3. /\ p \in LoadedPages /\ before # <<>>
      /\ pages' \in [AllPages -> PageRecords]
      /\ \A r \in AllPages \ {p} : pages'[r] = pages[r]
      /\ Len(after) = Len(before) /\ DOMAIN after = DOMAIN before
      /\ \A j \in DOMAIN before : j # i => after[j] = before[j]
      /\ after[i] = current
  BY <1>2, Case4Pages
<1>4. Best[1] = SquaredL2(current, before[1]) /\ Best[1] < pages[p].max_dist
  BY <1>1, BestPage DEF IInv, Crowded, Inside
<1> HIDE DEF p
<1>5. p \in AllPages
  BY <1>3, PageNumbers DEF IInv
<1>6. pages[p].max_dist = radius
  BY <1>1, <1>3, <1>5 DEF IInv, RadiiExact, Recomputed
<1>7. before \in Seq(Int) /\ 1 \in DOMAIN before /\ DOMAIN before = 1 .. Len(before) /\ Len(before) \in Nat
  BY <1>3, <1>5, PageFacts DEF IInv
<1>8. after \in Seq(Int)
  <2>1. Values \subseteq Int
    BY VectorStoreAssumption DEF Values
  <2>2. pages'[p].vectors \in Seq(Values)
    BY <1>3, <1>5 DEF PageRecords
  <2> DEFINE vs == pages'[p].vectors
  <2> HIDE DEF vs
  <2>3. vs \in Seq(Values)
    BY <2>2 DEF vs
  <2>4. vs \in [1 .. Len(vs) -> Values] /\ Len(vs) \in Nat
    BY <2>3, LenProperties
  <2>5. vs \in [1 .. Len(vs) -> Int]
    BY <2>1, <2>4
  <2>6. vs \in Seq(Int)
    BY <2>4, <2>5, SeqDef
  <2> QED BY <2>6 DEF vs
<1> HIDE DEF i, before, after
<1>9. radius \in Nat /\ \A j \in DOMAIN before : SquaredL2(before[j], before[1]) <= radius
  BY <1>7, NewMaxDistFacts
<1>10. after[1] = before[1] /\ SquaredL2(after[i], after[1]) < radius
  BY <1>2, <1>3, <1>4, <1>6, <1>7
<1> HIDE DEF radius
<1>11. \A j \in DOMAIN before : j # i => SquaredL2(after[j], after[1]) = SquaredL2(before[j], before[1])
  BY <1>3, <1>10
<1>12. NewMaxDist(after) <= radius
  <2>1. \A j \in DOMAIN after : SquaredL2(after[j], after[1]) \in Nat
    <3> TAKE j \in DOMAIN after
    <3>1. after[j] \in Int /\ after[1] \in Int
      BY <1>3, <1>7, <1>8
    <3> QED BY <3>1, SquareTyped
  <2>2. \A j \in DOMAIN after : SquaredL2(after[j], after[1]) <= radius
    <3> TAKE j \in DOMAIN after
    <3>1. CASE j = i
      BY <1>9, <1>10, <2>1, <3>1
    <3>2. CASE j # i
      BY <1>3, <1>9, <1>11, <3>2
    <3> QED BY <3>1, <3>2
  <2>3. NewMaxDist(after) = 0 \/ \E j \in 2 .. Len(after) : NewMaxDist(after) = SquaredL2(after[j], after[1])
    BY <1>8, NewMaxDistFacts
  <2>4. \A j \in 2 .. Len(after) : j \in DOMAIN after
    BY <1>3, <1>7
  <2> QED BY <1>9, <2>2, <2>3, <2>4
<1>13. MembersAt(after, radius) \subseteq MembersAt(before, radius)
  <2> SUFFICES ASSUME NEW j \in MembersAt(after, radius) PROVE j \in MembersAt(before, radius)
    OBVIOUS
  <2>1. j \in 2 .. Len(before) /\ SquaredL2(after[j], after[1]) = radius
    BY <1>3 DEF MembersAt
  <2>2. j \in DOMAIN before /\ j # i
    BY <1>7, <1>9, <1>10, <2>1
  <2> QED BY <1>11, <2>1, <2>2 DEF MembersAt
<1>14. i \in MembersAt(before, radius) /\ i \notin MembersAt(after, radius)
  <2>1. i \in 2 .. Len(before)
    BY <1>2, <1>7
  <2>2. SquaredL2(after[i], after[1]) # radius
    BY <1>9, <1>10
  <2> QED BY <1>2, <2>1, <2>2 DEF MembersAt
<1> QED BY <1>1, <1>3, <1>12, <1>13, <1>14 DEF radius, before, after

\* Until a crash no call writes past its page, and each eviction takes the farthest
\* member of its page, makes the page tighter and leaves the others as they are: what
\* the end of a chain of them rests on.
THEOREM SpecEvictionTightens ==
  ASSUME QueryFirst
  PROVE  Spec => EvictionTightens
<1> DEFINE Step == VictimFarthestStep /\ EvictionTightensStep
<1>1. ASSUME IInv, [Next]_vars PROVE [Step]_vars
  <2> SUFFICES ASSUME Next, crashes = 0, pc = "insert", pc' = "overrun" \/ (pc' = "setMax" /\ victim' # {})
               PROVE  Step
    BY <1>1 DEF VictimFarthestStep, EvictionTightensStep
  <2>1. Case4 \/ Overrun
    BY DEF Next, InsertStep, Query, Insert, Case1, Case2, Case3, SetMax, Case5, Case6, Done, Close, Crash, Load,
       Forget
  <2>2. Case4
    BY <1>1, <2>1, NoOverrun
  <2>3. VictimFarthestStep /\ EvictionTightensStep
    BY <1>1, <2>2, Case4EvictsFarthest, Case4Tightens DEF EvictionTightensStep
  <2> QED BY <2>3
<1>2. Spec => []IInv
  BY SpecIInv
<1>3. []IInv /\ [][Next]_vars => [][Step]_vars
  BY <1>1, PTL
<1> QED BY <1>2, <1>3, PTL DEF Spec, EvictionTightens
=============================================================================
