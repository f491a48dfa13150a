-------------------------- MODULE BatchPrefillProofs --------------------------
(***************************************************************************)
(* For every input, number of threads and size of page: no vector is lost, *)
(* every radius covers its page, vectors are stored once unless the merge  *)
(* buffer grew, and one thread stays within the files made in advance.     *)
(* The proofs rest on IInv; what makes it inductive is that the anchor,    *)
(* first of the first morsel and nearest of all, never leaves the heaps.   *)
(***************************************************************************)
EXTENDS BatchPrefill, FiniteSetTheorems, FunctionTheorems, SequenceTheorems, TLAPS

(***************************************************************************)
(* Naturals, sequences and recursive definitions.                          *)
(***************************************************************************)
LEMMA Smallest ==
  ASSUME NEW S \in SUBSET Nat, NEW n \in S
  PROVE  \E m \in S : \A k \in S : m <= k
<1> DEFINE R == OpToRel(<, Nat)
<1>1. IsWellFoundedOn(R, Nat)
  BY NatLessThanWellFounded
<1>2. R = {ss \in Nat \X Nat : ss[1] < ss[2]}
  BY Zenon DEF OpToRel
<1> HIDE DEF R
<1>3. PICK m \in S : \A k \in S : ~(<<k, m>> \in R)
  BY <1>1, WFMin
<1>4. \A k \in S : m <= k
  <2> TAKE k \in S
  <2>1. k \in Nat /\ m \in Nat /\ <<k, m>> \in Nat \X Nat
    OBVIOUS
  <2>2. ~(k < m)
    BY <1>2, <1>3, <2>1
  <2> QED BY <2>1, <2>2
<1> QED BY <1>4

\* Induction, with the set of the numbers for which it holds.
LEMMA Induction ==
  ASSUME NEW n \in Nat, NEW Good, 0 \in Good, \A i \in 1 .. n : i - 1 \in Good => i \in Good
  PROVE  \A i \in 0 .. n : i \in Good
<1> DEFINE Bad == {i \in 0 .. n : i \notin Good}
<1> SUFFICES ASSUME NEW k \in Bad PROVE FALSE
  OBVIOUS
<1>1. PICK m \in Bad : \A i \in Bad : m <= i
  <2>1. Bad \in SUBSET Nat
    OBVIOUS
  <2> HIDE DEF Bad
  <2> QED BY <2>1, Smallest
<1>2. m \in 1 .. n
  OBVIOUS
<1>3. m - 1 \in 0 .. n /\ ~(m <= m - 1)
  BY <1>2
<1>4. m - 1 \in Good
  BY <1>1, <1>3
<1> QED BY <1>2, <1>4

IsRecursion(f, a, n, next) ==
  f = [i \in 0 .. n |-> IF i = 0 THEN a ELSE next[<<i, f[i - 1]>>]]

\* A recursive definition over 0 .. n has the value its equation says.
LEMMA RecursionExists ==
  ASSUME NEW S, NEW a \in S, NEW n \in Nat, NEW next \in [(1 .. n) \X S -> S]
  PROVE  \E f \in [0 .. n -> S] : IsRecursion(f, a, n, next)
<1> DEFINE RunsTo(f, m) == f \in [0 .. m -> S] /\ f[0] = a /\ \A i \in 1 .. m : f[i] = next[<<i, f[i - 1]>>]
           Good == {m \in 0 .. n : \E f : RunsTo(f, m)}
<1>1. 0 \in Good
  <2>1. RunsTo([i \in 0 .. 0 |-> a], 0)
    OBVIOUS
  <2>2. 0 \in 0 .. n
    OBVIOUS
  <2> HIDE DEF RunsTo
  <2> QED BY <2>1, <2>2
<1>2. ASSUME NEW m \in 1 .. n, m - 1 \in Good
      PROVE  m \in Good
  <2>1. PICK f : RunsTo(f, m - 1)
    BY <1>2
  <2> DEFINE g == [i \in 0 .. m |-> IF i = m THEN next[<<m, f[m - 1]>>] ELSE f[i]]
  <2>2. g \in [0 .. m -> S]
    <3>1. next[<<m, f[m - 1]>>] \in S
      BY <2>1
    <3>2. \A i \in 0 .. m : i # m => f[i] \in S
      BY <2>1
    <3> QED BY <3>1, <3>2
  <2>3. g[0] = a
    BY <2>1
  <2>4. ASSUME NEW i \in 1 .. m PROVE g[i] = next[<<i, g[i - 1]>>]
    <3>1. i - 1 \in 0 .. m /\ i - 1 # m
      OBVIOUS
    <3>2. g[i - 1] = f[i - 1]
      BY <3>1
    <3>3. CASE i = m
      <4>1. m \in 0 .. m /\ g[m] = next[<<m, f[m - 1]>>]
        OBVIOUS
      <4> HIDE DEF g
      <4> QED BY <3>2, <3>3, <4>1
    <3>4. CASE i # m
      <4>1. i \in 1 .. m - 1 /\ i \in 0 .. m
        BY <3>4
      <4>2. g[i] = f[i]
        BY <3>4, <4>1
      <4> HIDE DEF g
      <4> QED BY <2>1, <3>2, <4>1, <4>2
    <3> QED BY <3>3, <3>4
  <2>5. RunsTo(g, m)
    BY <2>2, <2>3, <2>4
  <2>6. m \in 0 .. n
    OBVIOUS
  <2> HIDE DEF RunsTo, g
  <2> QED BY <2>5, <2>6
<1>3. n \in Good
  <2> HIDE DEF Good
  <2>1. \A i \in 0 .. n : i \in Good
    BY <1>1, <1>2, Induction
  <2> QED BY <2>1
<1>4. PICK f : RunsTo(f, n)
  BY <1>3
<1>5. IsRecursion(f, a, n, next)
  BY <1>4 DEF IsRecursion
<1> QED BY <1>4, <1>5

Once(s) == \A i, j \in DOMAIN s : s[i] = s[j] => i = j

\* A sequence without repetitions is as long as its elements are many.
LEMMA LengthOfOnce ==
  ASSUME NEW T, NEW s \in Seq(T), Once(s)
  PROVE  IsFiniteSet(ToSet(s)) /\ Len(s) = Cardinality(ToSet(s))
<1> DEFINE f == [i \in 1 .. Len(s) |-> s[i]]
<1>1. Len(s) \in Nat /\ DOMAIN s = 1 .. Len(s)
  OBVIOUS
<1>2. f \in Bijection(1 .. Len(s), ToSet(s))
  BY <1>1 DEF Bijection, Injection, Surjection, IsInjective, ToSet, Once
<1>3. ExistsBijection(1 .. Len(s), ToSet(s))
  BY <1>2 DEF ExistsBijection
<1> QED BY <1>1, <1>3, FS_CountingElements, FS_NatBijection

LEMMA WithoutFacts ==
  ASSUME NEW T, NEW s \in Seq(T), Once(s), NEW erased
  PROVE  LET rest == Without(s, erased)
         IN rest \in Seq(T) /\ Once(rest) /\ ToSet(rest) = ToSet(s) \ erased
<1> DEFINE n == Len(s)
           S == Seq(T)
           step(i, r) == IF s[i] \in erased THEN r ELSE Append(r, s[i])
           next == [ir \in (1 .. n) \X S |-> step(ir[1], ir[2])]
           IsDef(f) == f = [i \in 0 .. n |-> IF i = 0 THEN <<>> ELSE IF s[i] \in erased THEN f[i - 1]
                                             ELSE Append(f[i - 1], s[i])]
<1>1. n \in Nat /\ <<>> \in S /\ \A i \in 1 .. n : s[i] \in T
  OBVIOUS
<1>2. next \in [(1 .. n) \X S -> S]
  <2> SUFFICES ASSUME NEW i \in 1 .. n, NEW r \in S PROVE step(i, r) \in S
    OBVIOUS
  <2> QED BY <1>1
<1>3. PICK f \in [0 .. n -> S] : IsRecursion(f, <<>>, n, next)
  <2> HIDE DEF next, n, S
  <2> QED BY <1>1, <1>2, RecursionExists
<1>4. IsDef(f)
  <2>1. ASSUME NEW i \in 0 .. n, i # 0
        PROVE  next[<<i, f[i - 1]>>] = step(i, f[i - 1])
    <3>1. i \in 1 .. n /\ i - 1 \in 0 .. n
      BY <1>1, <2>1
    <3>2. f[i - 1] \in S
      BY <3>1
    <3> HIDE DEF n, S, step
    <3> QED BY <3>1, <3>2
  <2> HIDE DEF next, n, S
  <2> QED BY <1>3, <2>1 DEF IsRecursion
<1> DEFINE g == CHOOSE h : IsDef(h)
<1>5. IsDef(g)
  <2> HIDE DEF IsDef
  <2> QED BY <1>4
<1>6. Without(s, erased) = g[n]
  BY DEF Without
<1>7. g[0] = <<>> /\ \A i \in 1 .. n : g[i] = step(i, g[i - 1])
  <2> HIDE DEF g, n
  <2>1. 0 \in 0 .. n /\ \A i \in 1 .. n : i \in 0 .. n /\ i # 0
    BY <1>1
  <2> QED BY <1>5, <2>1
<1> HIDE DEF g
<1> DEFINE Good == {i \in 0 .. n : /\ g[i] \in S /\ Once(g[i])
                                   /\ ToSet(g[i]) = {s[j] : j \in 1 .. i} \ erased}
<1>8. 0 \in Good
  <2>1. DOMAIN <<>> = {} /\ 1 .. 0 = {}
    OBVIOUS
  <2>2. ToSet(<<>>) = {}
    BY <2>1 DEF ToSet
  <2>3. {s[j] : j \in 1 .. 0} = {}
    BY <2>1
  <2>4. Once(<<>>)
    BY <2>1 DEF Once
  <2>5. 0 \in 0 .. n
    BY <1>1
  <2> HIDE DEF n, S
  <2> QED BY <2>5, <1>1, <1>7, <2>2, <2>3, <2>4
<1>9. ASSUME NEW i \in 1 .. n, i - 1 \in Good
      PROVE  i \in Good
  <2> DEFINE r == g[i - 1]
  <2>1. r \in S /\ Once(r) /\ ToSet(r) = {s[j] : j \in 1 .. i - 1} \ erased
    BY <1>9
  <2>2. {s[j] : j \in 1 .. i} = {s[j] : j \in 1 .. i - 1} \cup {s[i]}
    BY <1>1
  <2>3. CASE s[i] \in erased
    BY <1>1, <1>7, <2>1, <2>2, <2>3
  <2>4. CASE s[i] \notin erased
    <3>1. g[i] = Append(r, s[i])
      BY <1>7, <2>4
    <3> HIDE DEF r
    <3>2. /\ g[i] \in Seq(T) /\ DOMAIN g[i] = 1 .. Len(r) + 1 /\ Len(r) \in Nat
          /\ DOMAIN r = 1 .. Len(r)
          /\ \A j \in 1 .. Len(r) : g[i][j] = r[j]
          /\ g[i][Len(r) + 1] = s[i]
      <4>1. s[i] \in T /\ r \in Seq(T)
        BY <1>1, <2>1
      <4> HIDE DEF n
      <4> QED BY <3>1, <4>1, AppendProperties, LenProperties
    <3>3. ToSet(g[i]) = ToSet(r) \cup {s[i]}
      <4>1. DOMAIN g[i] = DOMAIN r \cup {Len(r) + 1}
        BY <3>2
      <4> DEFINE h == g[i]
                 m == Len(r) + 1
      <4>2. DOMAIN h = DOMAIN r \cup {m} /\ (\A j \in DOMAIN r : h[j] = r[j]) /\ h[m] = s[i]
        BY <3>2, <4>1
      <4> HIDE DEF h, m
      <4>3. {h[j] : j \in DOMAIN h} = {r[j] : j \in DOMAIN r} \cup {s[i]}
        BY <4>2
      <4> QED BY <4>3 DEF ToSet, h
    <3>4. s[i] \notin ToSet(r)
      <4>1. \A j \in 1 .. i - 1 : s[j] # s[i]
        BY <1>1 DEF Once
      <4> QED BY <2>1, <4>1
    <3>5. Once(g[i])
      <4> DEFINE h == g[i]
      <4>1. /\ DOMAIN h = 1 .. Len(r) + 1 /\ (\A j \in 1 .. Len(r) : h[j] = r[j] /\ h[j] # s[i])
            /\ h[Len(r) + 1] = s[i]
        BY <3>2, <3>4 DEF ToSet
      <4>2. \A a, b \in 1 .. Len(r) : r[a] = r[b] => a = b
        BY <2>1, <3>2 DEF Once
      <4> HIDE DEF h
      <4>3. \A a, b \in 1 .. Len(r) + 1 : h[a] = h[b] => a = b
        BY <3>2, <4>1, <4>2
      <4> QED BY <4>1, <4>3 DEF Once, h
    <3> QED BY <2>1, <2>2, <2>4, <3>2, <3>3, <3>5
  <2> QED BY <2>3, <2>4
<1>10. n \in Good
  <2> HIDE DEF Good
  <2>1. \A i \in 0 .. n : i \in Good
    BY <1>1, <1>8, <1>9, Induction
  <2> QED BY <1>1, <2>1
<1>11. ToSet(s) = {s[j] : j \in 1 .. n}
  BY DEF ToSet
<1> QED BY <1>6, <1>10, <1>11

LEMMA MinOfTwo ==
  ASSUME NEW a \in Int, NEW b \in Int
  PROVE  Min({a, b}) = (IF a <= b THEN a ELSE b) /\ Max({a, b}) = (IF a <= b THEN b ELSE a)
<1> DEFINE m == IF a <= b THEN a ELSE b
           w == IF a <= b THEN b ELSE a
<1>1. \A x \in {a, b} : (\A y \in {a, b} : x <= y) <=> x = m
  OBVIOUS
<1>2. \A x \in {a, b} : (\A y \in {a, b} : x >= y) <=> x = w
  OBVIOUS
<1>3. m \in {a, b} /\ w \in {a, b}
  OBVIOUS
<1>4. Min({a, b}) = CHOOSE x \in {a, b} : \A y \in {a, b} : x <= y
  BY DEF Min
<1>5. Max({a, b}) = CHOOSE x \in {a, b} : \A y \in {a, b} : x >= y
  BY DEF Max
<1>6. Min({a, b}) = m /\ Max({a, b}) = w
  <2> HIDE DEF m, w
  <2> QED BY <1>1, <1>2, <1>3, <1>4, <1>5
<1> QED BY <1>6

-----------------------------------------------------------------------------
(***************************************************************************)
(* Entries and heaps.                                                      *)
(***************************************************************************)
Entries == Nat \X Nat
IsHeap(h) == h \subseteq Entries /\ IsFiniteSet(h)

LEMMA BeforeTotal ==
  /\ \A x, y \in Entries : x # y => (Before(x, y) <=> ~Before(y, x))
  /\ \A x \in Entries : ~Before(x, x)
  /\ \A x, y, z \in Entries : Before(x, y) /\ Before(y, z) => Before(x, z)
<1>1. ASSUME NEW x \in Entries, NEW y \in Entries, x # y
      PROVE  Before(x, y) <=> ~Before(y, x)
  <2>1. x[1] # y[1] \/ x[2] # y[2]
    BY <1>1 DEF Entries
  <2> QED BY <2>1 DEF Before, Entries
<1> QED BY <1>1 DEF Before, Entries

LEMMA TopFacts ==
  ASSUME NEW h, IsHeap(h), h # {}
  PROVE  TopEntry(h) \in h /\ \A x \in h : x = TopEntry(h) \/ Before(x, TopEntry(h))
<1> DEFINE above(x) == {y \in h : Before(x, y)}
           counts == {Cardinality(above(x)) : x \in h}
<1>1. \A x \in h : IsFiniteSet(above(x)) /\ Cardinality(above(x)) \in Nat
  BY FS_Subset, FS_CardinalityType DEF IsHeap
<1>2. PICK x \in h : \A y \in h : Cardinality(above(x)) <= Cardinality(above(y))
  <2>1. counts \in SUBSET Nat
    BY <1>1
  <2>2. PICK z : z \in h
    OBVIOUS
  <2>3. Cardinality(above(z)) \in counts
    BY <2>2
  <2>4. PICK m \in counts : \A k \in counts : m <= k
    <3> HIDE DEF counts
    <3> QED BY <2>1, <2>3, Smallest
  <2> QED BY <2>4
<1>3. ASSUME NEW y \in h, x # y, ~Before(y, x)
      PROVE  FALSE
  <2>1. Before(x, y) /\ ~Before(y, y)
    BY <1>3, BeforeTotal DEF IsHeap
  <2>2. above(y) \subseteq above(x) /\ above(y) # above(x)
    BY <2>1, BeforeTotal DEF IsHeap
  <2>3. Cardinality(above(y)) <= Cardinality(above(x)) /\ Cardinality(above(y)) # Cardinality(above(x))
    <3> HIDE DEF above
    <3> QED BY <1>1, <2>2, FS_Subset
  <2> HIDE DEF above
  <2> QED BY <1>1, <1>2, <2>3
<1>4. \A y \in h : x = y \/ Before(y, x)
  BY <1>3
<1>5. TopEntry(h) \in h /\ \A y \in h : TopEntry(h) = y \/ Before(y, TopEntry(h))
  BY <1>4 DEF TopEntry
<1> QED BY <1>5

Smaller(a, b) == IF a < b THEN a ELSE b

\* Nothing but the offered entry comes in, and the anchor's entry stays.
LEMMA OfferFacts ==
  ASSUME NEW h, IsHeap(h), NEW x \in Entries, NEW size \in Nat \ {0}
  PROVE  LET g == Offer(h, x, size)
         IN /\ IsHeap(g) /\ g \subseteq h \cup {x}
            /\ <<0, 1>> \in h => <<0, 1>> \in g
            /\ h = {} => g = {x}
            /\ x \notin h /\ Cardinality(h) <= size
                 => Cardinality(g) = Smaller(Cardinality(h) + 1, size)
<1> DEFINE g == Offer(h, x, size)
           top == TopEntry(h)
<1>1. IsFiniteSet(h) /\ Cardinality(h) \in Nat
  BY FS_CardinalityType DEF IsHeap
<1>2. CASE Cardinality(h) < size
  <2>1. g = h \cup {x}
    BY <1>2 DEF Offer
  <2>2. IsFiniteSet(h \cup {x}) /\ (x \notin h => Cardinality(h \cup {x}) = Cardinality(h) + 1)
    BY <1>1, FS_AddElement
  <2> HIDE DEF g
  <2>3. IsHeap(g)
    BY <2>1, <2>2 DEF IsHeap
  <2>4. Smaller(Cardinality(h) + 1, size) = Cardinality(h) + 1
    BY <1>1, <1>2 DEF Smaller
  <2> QED BY <1>2, <2>1, <2>2, <2>3, <2>4 DEF g
<1>3. CASE ~(Cardinality(h) < size)
  <2>0. Cardinality(h) <= size => Smaller(Cardinality(h) + 1, size) = Cardinality(h)
    BY <1>1, <1>3 DEF Smaller
  <2>1. h # {}
    BY <1>3, FS_EmptySet
  <2>2. top \in h
    BY <2>1, TopFacts
  <2>3. CASE top[1] > x[1]
    <3>1. g = (h \ {top}) \cup {x}
      BY <1>3, <2>3 DEF Offer
    <3>2. top # <<0, 1>>
      BY <2>3 DEF Entries
    <3>3. IsFiniteSet(h \ {top}) /\ Cardinality(h \ {top}) = Cardinality(h) - 1
      BY <1>1, <2>2, FS_RemoveElement
    <3>4. x \notin h => x \notin h \ {top}
      OBVIOUS
    <3>5. IsFiniteSet(g) /\ (x \notin h => Cardinality(g) = Cardinality(h \ {top}) + 1)
      <4> HIDE DEF g, top
      <4> QED BY <3>1, <3>3, <3>4, FS_AddElement
    <3> HIDE DEF g, top
    <3>6. IsHeap(g)
      BY <3>1, <3>5 DEF IsHeap
    <3> QED BY <1>1, <1>3, <2>0, <2>1, <3>1, <3>2, <3>3, <3>5, <3>6 DEF g
  <2>4. CASE ~(top[1] > x[1])
    <3>1. g = h
      BY <1>3, <2>4 DEF Offer
    <3> HIDE DEF g
    <3> QED BY <1>1, <1>3, <2>0, <2>1, <3>1 DEF g
  <2> QED BY <2>3, <2>4
<1> QED BY <1>2, <1>3

EntriesAt(first, n) == {Entry(i) : i \in first + 1 .. first + n}
EntriesTyped(first, n) == \A i \in first + 1 .. first + n : Entry(i) \in Entries /\ Entry(i)[2] = i
NoneBeyond(first, n, bound) == \A i \in first + 1 .. first + n : Entry(i)[1] <= bound

\* A pass over a range: the heap gets entries of the range only; a pass from the
\* anchor on keeps its entry; and without a bound the heap fills up.
LEMMA OfferRangeFacts ==
  ASSUME NEW h, IsHeap(h), NEW first \in Nat, NEW n \in Nat, NEW size \in Nat \ {0}, NEW bound \in Nat,
         EntriesTyped(first, n)
  PROVE  LET g == OfferRange(h, first, n, size, bound)
         IN /\ IsHeap(g) /\ g \subseteq h \cup EntriesAt(first, n)
            /\ <<0, 1>> \in h => <<0, 1>> \in g
            /\ h = {} /\ first = 0 /\ n > 0 /\ Entry(1) = <<0, 1>> => <<0, 1>> \in g
            /\ h = {} /\ NoneBeyond(first, n, bound) => Cardinality(g) = Smaller(n, size)
<1> DEFINE S == SUBSET Entries
           step(i, r) == IF Entry(first + i)[1] > bound THEN r ELSE Offer(r, Entry(first + i), size)
           next == [ir \in (1 .. n) \X S |-> step(ir[1], ir[2])]
           IsDef(f) == f = [i \in 0 .. n |-> IF i = 0 THEN h ELSE IF Entry(first + i)[1] > bound THEN f[i - 1]
                                             ELSE Offer(f[i - 1], Entry(first + i), size)]
<1>1. \A i \in 1 .. n : first + i \in first + 1 .. first + n /\ Entry(first + i) \in Entries
                        /\ Entry(first + i)[2] = first + i
  <2> TAKE i \in 1 .. n
  <2>1. first + i \in first + 1 .. first + n
    OBVIOUS
  <2> QED BY <2>1 DEF EntriesTyped
<1>2. next \in [(1 .. n) \X S -> S]
  <2> SUFFICES ASSUME NEW i \in 1 .. n, NEW r \in S PROVE step(i, r) \in S
    OBVIOUS
  <2> QED BY <1>1 DEF Offer
<1>3. PICK f \in [0 .. n -> S] : IsRecursion(f, h, n, next)
  <2>1. h \in S
    BY DEF IsHeap
  <2> HIDE DEF next, S
  <2> QED BY <1>2, <2>1, RecursionExists
<1>4. IsDef(f)
  <2>1. ASSUME NEW i \in 0 .. n, i # 0
        PROVE  next[<<i, f[i - 1]>>] = step(i, f[i - 1])
    <3>1. i \in 1 .. n /\ i - 1 \in 0 .. n
      BY <2>1
    <3>2. f[i - 1] \in S
      BY <3>1
    <3> HIDE DEF S, step
    <3> QED BY <3>1, <3>2
  <2> HIDE DEF next, S
  <2> QED BY <1>3, <2>1 DEF IsRecursion
<1> DEFINE g == CHOOSE a : IsDef(a)
<1>5. IsDef(g)
  <2> HIDE DEF IsDef
  <2> QED BY <1>4
<1>6. OfferRange(h, first, n, size, bound) = g[n]
  BY DEF OfferRange
<1>7. g[0] = h /\ \A i \in 1 .. n : g[i] = step(i, g[i - 1])
  <2> HIDE DEF g
  <2>1. 0 \in 0 .. n /\ \A i \in 1 .. n : i \in 0 .. n /\ i # 0
    OBVIOUS
  <2> QED BY <1>5, <2>1
<1> HIDE DEF g
<1> DEFINE open == h = {} /\ NoneBeyond(first, n, bound)
           fromAnchor == h = {} /\ first = 0 /\ Entry(1) = <<0, 1>>
           Good == {i \in 0 .. n : /\ IsHeap(g[i]) /\ g[i] \subseteq h \cup EntriesAt(first, i)
                                   /\ <<0, 1>> \in h => <<0, 1>> \in g[i]
                                   /\ fromAnchor /\ i > 0 => <<0, 1>> \in g[i]
                                   /\ open => Cardinality(g[i]) = Smaller(i, size)}
<1>8. 0 \in Good
  <2>1. 0 \in 0 .. n /\ Cardinality({}) = 0
    BY FS_EmptySet
  <2>2. open => Cardinality(h) = 0
    BY <2>1
  <2>3. h \subseteq h \cup EntriesAt(first, 0) /\ Smaller(0, size) = 0
    BY DEF Smaller
  <2> HIDE DEF open, fromAnchor
  <2> QED BY <1>7, <2>1, <2>2, <2>3
<1>9. ASSUME NEW i \in 1 .. n, i - 1 \in Good
      PROVE  i \in Good
  <2> DEFINE r == g[i - 1]
             x == Entry(first + i)
  <2>0. i \in 0 .. n
    OBVIOUS
  <2>1. /\ IsHeap(r) /\ r \subseteq h \cup EntriesAt(first, i - 1)
        /\ <<0, 1>> \in h => <<0, 1>> \in r
        /\ fromAnchor /\ i - 1 > 0 => <<0, 1>> \in r
        /\ open => Cardinality(r) = Smaller(i - 1, size)
    BY <1>9
  <2>2. EntriesAt(first, i) = EntriesAt(first, i - 1) \cup {x}
    <3>1. first + 1 .. first + i = (first + 1 .. first + (i - 1)) \cup {first + i}
      OBVIOUS
    <3> QED BY <3>1 DEF EntriesAt
  <2>3. x \in Entries /\ x[2] = first + i /\ (open => x[1] <= bound)
    BY <1>1 DEF NoneBeyond
  <2>4. open => x \notin r
    <3>1. \A j \in first + 1 .. first + (i - 1) : Entry(j)[2] # x[2]
      <4> TAKE j \in first + 1 .. first + (i - 1)
      <4>1. j \in first + 1 .. first + n /\ j # first + i
        OBVIOUS
      <4> QED BY <2>3, <4>1 DEF EntriesTyped
    <3> QED BY <2>1, <3>1 DEF EntriesAt
  <2>5. CASE x[1] > bound
    <3>1. g[i] = r
      BY <1>7, <2>5
    <3>2. ~open
      BY <2>3, <2>5 DEF Entries
    <3>3. fromAnchor /\ i > 0 => i - 1 > 0
      <4> SUFFICES ASSUME fromAnchor, i = 1 PROVE FALSE
        OBVIOUS
      <4>1. x = <<0, 1>>
        OBVIOUS
      <4> QED BY <2>5, <4>1
    <3> HIDE DEF r, x, open, fromAnchor
    <3> QED BY <2>0, <2>1, <2>2, <3>1, <3>2, <3>3
  <2>6. CASE ~(x[1] > bound)
    <3>1. g[i] = Offer(r, x, size)
      BY <1>7, <2>6
    <3>2. fromAnchor => IF i = 1 THEN r = {} /\ x = <<0, 1>> ELSE <<0, 1>> \in r
      <4>1. CASE i = 1
        BY <1>7, <4>1
      <4>2. CASE i # 1
        BY <2>1, <4>2
      <4> QED BY <4>1, <4>2
    <3> HIDE DEF r, x, open, fromAnchor
    <3>3. /\ IsHeap(g[i]) /\ g[i] \subseteq r \cup {x}
          /\ <<0, 1>> \in r => <<0, 1>> \in g[i]
          /\ r = {} => g[i] = {x}
          /\ x \notin r /\ Cardinality(r) <= size
                 => Cardinality(g[i]) = Smaller(Cardinality(r) + 1, size)
      <4> HIDE DEF Good
      <4> QED BY <2>1, <2>3, <3>1, OfferFacts
    <3>4. g[i] \subseteq h \cup EntriesAt(first, i)
      BY <2>1, <2>2, <3>3
    <3>5. open => Cardinality(g[i]) = Smaller(i, size)
      BY <2>1, <2>4, <3>3 DEF Smaller
    <3>6. fromAnchor /\ i > 0 => <<0, 1>> \in g[i]
      BY <3>2, <3>3
    <3> QED BY <2>0, <2>1, <3>3, <3>4, <3>5, <3>6
  <2> QED BY <2>5, <2>6
<1>10. n \in Good
  <2> HIDE DEF Good
  <2>1. \A i \in 0 .. n : i \in Good
    BY <1>8, <1>9, Induction
  <2> QED BY <2>1
<1> QED BY <1>6, <1>10

-----------------------------------------------------------------------------
(***************************************************************************)
(* The rounds' state.                                                      *)
(***************************************************************************)
LEMMA SquareTyped ==
  ASSUME NEW x \in Int, NEW y \in Int
  PROVE  SquaredL2(x, y) \in Nat /\ SquaredL2(x, x) = 0
<1> DEFINE d == x - y
<1>1. d \in Int /\ x - x = 0
  OBVIOUS
<1>2. SquaredL2(x, x) = 0
  BY <1>1 DEF SquaredL2
<1> HIDE DEF d
<1>3. d * d \in Nat
  <2>1. CASE d >= 0
    BY <1>1, <2>1
  <2>2. CASE d < 0
    <3> DEFINE e == 0 - d
    <3>1. e \in Nat /\ d = 0 - e
      BY <1>1, <2>2
    <3> HIDE DEF e
    <3>2. d * d = e * e /\ e * e \in Nat
      BY <3>1
    <3> QED BY <3>2
  <2> QED BY <1>1, <2>1, <2>2
<1> QED BY <1>2, <1>3 DEF SquaredL2, d

LEMMA CoordinatesTyped ==
  ASSUME TypeOK
  PROVE  /\ Len(Coordinates) \in Nat /\ Input = 1 .. Len(Coordinates)
         /\ \A v \in Input : Coordinates[v] \in Int
         /\ \A v, w \in Input : SquaredL2(Coordinates[v], Coordinates[w]) < Infinity
         /\ Len(remaining) \in Nat /\ DOMAIN remaining = 1 .. Len(remaining)
         /\ \A i \in DOMAIN remaining : remaining[i] \in Input
<1>1. PICK c \in Calls : Coordinates = c.input
  BY DEF TypeOK
<1>2. Coordinates \in Seq(Int) /\ \A v, w \in Input : SquaredL2(Coordinates[v], Coordinates[w]) < Infinity
  BY <1>1, BatchPrefillAssumption DEF Input
<1>3. Len(Coordinates) \in Nat /\ Input = 1 .. Len(Coordinates) /\ \A v \in Input : Coordinates[v] \in Int
  BY <1>2, LenProperties, ElementOfSeq DEF Input
<1>4. remaining \in Seq(Input)
  BY DEF TypeOK
<1>5. Len(remaining) \in Nat /\ DOMAIN remaining = 1 .. Len(remaining)
      /\ \A i \in DOMAIN remaining : remaining[i] \in Input
  BY <1>4, LenProperties, ElementOfSeq
<1> QED BY <1>2, <1>3, <1>5

LEMMA EntryFacts ==
  ASSUME TypeOK, NEW i \in DOMAIN remaining
  PROVE  /\ Entry(i) \in Entries /\ Entry(i)[2] = i /\ Entry(i)[1] < Infinity
         /\ Entry(i)[1] = SquaredL2(Coordinates[remaining[i]], Coordinates[remaining[1]])
         /\ 1 \in DOMAIN remaining /\ Entry(1) = <<0, 1>>
<1>1. i \in Nat /\ 1 \in DOMAIN remaining
  BY CoordinatesTyped
<1>2. Coordinates[remaining[i]] \in Int /\ Coordinates[remaining[1]] \in Int
      /\ SquaredL2(Coordinates[remaining[i]], Coordinates[remaining[1]]) < Infinity
  BY <1>1, CoordinatesTyped
<1>3. SquaredL2(Coordinates[remaining[i]], Coordinates[remaining[1]]) \in Nat
      /\ SquaredL2(Coordinates[remaining[1]], Coordinates[remaining[1]]) = 0
  BY <1>2, SquareTyped
<1> QED BY <1>1, <1>2, <1>3 DEF Entry, Entries

\* What a round hands to StorePage: true entries, the anchor first, the farthest last.
Storable(entries, n) ==
  /\ n \in Nat \ {0} /\ entries \in [1 .. n -> Entries]
  /\ \A i \in 1 .. n : entries[i][2] \in DOMAIN remaining /\ entries[i] = Entry(entries[i][2])
  /\ \A i \in 1 .. n : entries[i][1] <= entries[n][1]
  /\ entries[1] = <<0, 1>>

LEMMA StoreFacts ==
  ASSUME TypeOK, RemainingOnce, NothingLost, RadiusCovers, StoredOnceUnlessGrown,
         NEW entries, NEW n, Storable(entries, n), StorePage(entries), UNCHANGED Coordinates,
         ~grown' => ~grown /\ Once(entries)
  PROVE  /\ remaining' \in Seq(Input') /\ pages' \in Seq([vectors : Seq(Input'), max_dist : Nat])
         /\ RemainingOnce' /\ NothingLost' /\ RadiusCovers' /\ StoredOnceUnlessGrown'
         /\ Len(pages') = Len(pages) + 1
         /\ Len(remaining') < Len(remaining)
         /\ Once(entries) => Len(remaining') = Len(remaining) - n
<1> DEFINE row == [i \in 1 .. n |-> remaining[entries[i][2]]]
           page == [vectors |-> row, max_dist |-> entries[n][1]]
           erased == {row[i] : i \in 1 .. n}
           last == Len(pages) + 1
<1>0. n \in Nat \ {0} /\ 1 \in 1 .. n /\ n \in 1 .. n
  BY DEF Storable
<1>1. DOMAIN entries = 1 .. n /\ Len(entries) = n
  BY <1>0 DEF Storable
<1>2. \A i \in 1 .. n : row[i] \in Input /\ row[i] \in ToSet(remaining)
  BY CoordinatesTyped DEF Storable, ToSet
<1>3. row \in Seq(Input) /\ DOMAIN row = 1 .. n /\ Len(row) = n /\ ToSet(row) = erased
  BY <1>0, <1>2 DEF ToSet
<1>4. entries[n][1] \in Nat /\ \A i \in 1 .. n : entries[i][1] \in Nat
  BY <1>0 DEF Storable, Entries
<1>5. pages' = Append(pages, page) /\ remaining' = Without(remaining, erased)
  BY <1>1 DEF StorePage
<1>6. remaining \in Seq(Input) /\ Once(remaining)
  BY DEF TypeOK, RemainingOnce, Once
<1>7. remaining' \in Seq(Input) /\ Once(remaining') /\ ToSet(remaining') = ToSet(remaining) \ erased
  <2> HIDE DEF erased
  <2> QED BY <1>5, <1>6, WithoutFacts
<1>8. page \in [vectors : Seq(Input), max_dist : Nat] /\ page.vectors = row /\ page.max_dist = entries[n][1]
  <2> HIDE DEF row
  <2> QED BY <1>3, <1>4
<1>9. /\ pages' \in Seq([vectors : Seq(Input), max_dist : Nat])
      /\ Len(pages) \in Nat /\ Len(pages') = last /\ DOMAIN pages = 1 .. Len(pages) /\ DOMAIN pages' = 1 .. last
      /\ pages'[last] = page /\ \A p \in DOMAIN pages : pages'[p] = pages[p]
  <2>1. pages \in Seq([vectors : Seq(Input), max_dist : Nat])
    BY DEF TypeOK
  <2> HIDE DEF page
  <2> QED BY <1>5, <1>8, <2>1, AppendProperties, LenProperties
<1>10. \A p \in DOMAIN pages' : p \in DOMAIN pages \/ p = last
  BY <1>9
<1>11. Input' = Input /\ Coordinates' = Coordinates
  BY DEF Input
<1>12. Stored' = Stored \cup erased
  <2>1. DOMAIN pages' = DOMAIN pages \cup {last}
    BY <1>9
  <2>2. \A p \in DOMAIN pages : ToSet(pages'[p].vectors) = ToSet(pages[p].vectors)
    BY <1>9
  <2>3. ToSet(pages'[last].vectors) = erased
    BY <1>3, <1>8, <1>9
  <2> HIDE DEF last, erased
  <2> QED BY <2>1, <2>2, <2>3 DEF Stored
<1>13. NothingLost'
  <2>1. erased \subseteq ToSet(remaining)
    BY <1>2
  <2> HIDE DEF erased
  <2> QED BY <1>7, <1>11, <1>12, <2>1 DEF NothingLost
<1>14. \A v \in erased : SquaredL2(Coordinates[v], Coordinates[row[1]]) <= entries[n][1]
  <2> SUFFICES ASSUME NEW i \in 1 .. n
               PROVE  SquaredL2(Coordinates[row[i]], Coordinates[row[1]]) <= entries[n][1]
    OBVIOUS
  <2>1. entries[i][2] \in DOMAIN remaining /\ entries[i] = Entry(entries[i][2]) /\ entries[1][2] = 1
        /\ entries[i][1] <= entries[n][1]
    BY DEF Storable
  <2>2. entries[i][1] = SquaredL2(Coordinates[remaining[entries[i][2]]], Coordinates[remaining[1]])
    BY <2>1, EntryFacts
  <2> QED BY <1>0, <2>1, <2>2
<1>15. RadiusCovers'
  <2> SUFFICES ASSUME NEW p \in DOMAIN pages', NEW v \in ToSet(pages'[p].vectors)
               PROVE  SquaredL2(Coordinates[v], Coordinates[pages'[p].vectors[1]]) <= pages'[p].max_dist
    BY <1>11 DEF RadiusCovers
  <2>1. CASE p \in DOMAIN pages
    BY <1>9, <2>1 DEF RadiusCovers
  <2>2. CASE p = last
    <3> HIDE DEF row, page, erased, last
    <3> QED BY <1>3, <1>8, <1>9, <1>14, <2>2
  <2> QED BY <1>10, <2>1, <2>2
<1>16. Once(entries) => Once(row)
  <2> SUFFICES ASSUME Once(entries), NEW i \in 1 .. n, NEW j \in 1 .. n, row[i] = row[j]
               PROVE  i = j
    BY <1>3 DEF Once
  <2>1. entries[i][2] \in DOMAIN remaining /\ entries[j][2] \in DOMAIN remaining
        /\ remaining[entries[i][2]] = remaining[entries[j][2]]
    BY DEF Storable
  <2>2. entries[i][2] = entries[j][2]
    BY <1>6, <2>1 DEF Once
  <2>3. entries[i] = entries[j]
    BY <2>2 DEF Storable
  <2> QED BY <1>1, <2>3 DEF Once
<1>17. StoredOnceUnlessGrown'
  <2> SUFFICES ASSUME ~grown', NEW p \in DOMAIN pages', NEW q \in DOMAIN pages',
                      NEW i \in DOMAIN pages'[p].vectors, NEW j \in DOMAIN pages'[q].vectors,
                      pages'[p].vectors[i] = pages'[q].vectors[j]
               PROVE  p = q /\ i = j
    BY DEF StoredOnceUnlessGrown, StoredOnce
  <2>1. StoredOnce /\ Once(row)
    BY <1>16 DEF StoredOnceUnlessGrown
  <2>2. CASE p \in DOMAIN pages /\ q \in DOMAIN pages
    <3>1. i \in DOMAIN pages[p].vectors /\ j \in DOMAIN pages[q].vectors
          /\ pages[p].vectors[i] = pages[q].vectors[j]
      BY <1>9, <2>2
    <3> QED BY <2>1, <2>2, <3>1 DEF StoredOnce
  <2>3. CASE p = last /\ q = last
    <3> HIDE DEF row, page, last
    <3> QED BY <1>8, <1>9, <2>1, <2>3 DEF Once
  <2>4. \A r \in DOMAIN pages : \A a \in DOMAIN pages'[r].vectors : pages'[r].vectors[a] \in Stored
    <3> TAKE r \in DOMAIN pages
    <3> TAKE a \in DOMAIN pages'[r].vectors
    <3>1. pages'[r].vectors[a] \in ToSet(pages[r].vectors)
      BY <1>9 DEF ToSet
    <3> QED BY <3>1 DEF Stored
  <2>5. \A a \in DOMAIN pages'[last].vectors : pages'[last].vectors[a] \in ToSet(remaining)
    <3> TAKE a \in DOMAIN pages'[last].vectors
    <3> HIDE DEF row, page, last
    <3>1. pages'[last].vectors = row /\ a \in 1 .. n
      BY <1>3, <1>8, <1>9
    <3> QED BY <1>2, <3>1
  <2>6. Stored \cap ToSet(remaining) = {}
    BY DEF NothingLost
  <2> HIDE DEF last
  <2> QED BY <1>10, <2>2, <2>3, <2>4, <2>5, <2>6
<1>18. Once(entries) => Len(remaining') = Len(remaining) - n
  <2> SUFFICES ASSUME Once(entries) PROVE Len(remaining') = Len(remaining) - n
    OBVIOUS
  <2> HIDE DEF row, erased
  <2>1. IsFiniteSet(erased) /\ Cardinality(erased) = n
    BY <1>3, <1>16, LengthOfOnce
  <2>2. IsFiniteSet(ToSet(remaining)) /\ Cardinality(ToSet(remaining)) = Len(remaining)
    BY <1>6, LengthOfOnce
  <2>3. Len(remaining') = Cardinality(ToSet(remaining) \ erased)
    BY <1>7, LengthOfOnce
  <2>4. ToSet(remaining) \cap erased = erased
    BY <1>2 DEF erased
  <2> DEFINE S == ToSet(remaining)
  <2> HIDE DEF S
  <2>5. IsFiniteSet(S) => Cardinality(S \ erased) = Cardinality(S) - Cardinality(S \cap erased)
    BY FS_Difference
  <2> QED BY <2>1, <2>2, <2>3, <2>4, <2>5 DEF S
<1>19. Len(remaining') < Len(remaining)
  <2> DEFINE S == ToSet(remaining)
             R == ToSet(remaining')
  <2>1. row[1] \in erased /\ row[1] \in S
    BY <1>0, <1>2
  <2> HIDE DEF row, erased
  <2>2. IsFiniteSet(S) /\ Cardinality(S) = Len(remaining)
    BY <1>6, LengthOfOnce
  <2>3. Len(remaining') = Cardinality(R)
    BY <1>7, LengthOfOnce
  <2>4. R \subseteq S /\ R # S
    BY <1>7, <2>1
  <2> HIDE DEF S, R
  <2>5. Cardinality(R) < Cardinality(S)
    BY <2>2, <2>4, FS_Subset, FS_CardinalityType
  <2> QED BY <2>2, <2>3, <2>5
<1> QED BY <1>7, <1>9, <1>11, <1>13, <1>15, <1>17, <1>18, <1>19 DEF RemainingOnce, Once

-----------------------------------------------------------------------------
(***************************************************************************)
(* The steps.                                                              *)
(***************************************************************************)
LEMMA StepTyped ==
  ASSUME TypeOK
  PROVE  /\ Step \in Nat /\ NumThreads \in Nat \ {0} /\ MaxInPage \in Nat \ {0, 1} /\ Infinity \in Nat
         /\ 0 \in Threads /\ Threads \subseteq Nat /\ IsFiniteSet(Threads)
<1>1. NumThreads \in Nat \ {0} /\ MaxInPage \in Nat \ {0, 1} /\ Infinity \in Nat
  BY BatchPrefillAssumption
<1>2. Len(Coordinates) \in Nat
  BY CoordinatesTyped
<1>3. Len(Coordinates) \div NumThreads \in Nat
  BY <1>1, <1>2
<1>4. Step \in Nat
  <2> DEFINE a == Len(Coordinates) \div NumThreads
  <2>1. a \in Nat
    BY <1>3
  <2> HIDE DEF a
  <2>2. a \div 2 \in Nat
    BY <2>1
  <2> QED BY <2>2 DEF Step, a
<1>5. 0 \in Threads /\ Threads \subseteq Nat /\ IsFiniteSet(Threads)
  BY <1>1, FS_Interval DEF Threads
<1> QED BY <1>1, <1>4, <1>5

LEMMA TopTyped ==
  ASSUME NEW h, IsHeap(h), NEW old \in Nat
  PROVE  HeapTop(h, old) \in Nat
<1>1. CASE h = {}
  BY <1>1 DEF HeapTop
<1>2. CASE h # {}
  BY <1>2, TopFacts DEF HeapTop, IsHeap, Entries
<1> QED BY <1>1, <1>2

LEMMA HeapTyped ==
  ASSUME TypeOK, NEW t \in Threads
  PROVE  IsHeap(heap[t]) /\ Top(t) \in Nat
<1>1. IsHeap(heap[t]) /\ slot0[t] \in Nat
  BY DEF TypeOK, IsHeap, Entries
<1> QED BY <1>1, TopTyped DEF Top

\* A step that stores nothing keeps what is said of the pages.
LEMMA QuietStore ==
  ASSUME IInv, UNCHANGED <<Coordinates, parallel, remaining, pages, grown>>
  PROVE  RemainingOnce' /\ FullPages' /\ NothingLost' /\ RadiusCovers' /\ StoredOnceUnlessGrown'
<1>1. Input' = Input /\ Stored' = Stored
  BY DEF Input, Stored
<1>2. RemainingOnce' /\ FullPages'
  BY DEF IInv, RemainingOnce, FullPages
<1>3. NothingLost'
  BY <1>1 DEF IInv, NothingLost
<1>4. RadiusCovers'
  BY DEF IInv, RadiusCovers
<1>5. StoredOnceUnlessGrown'
  BY DEF IInv, StoredOnceUnlessGrown, StoredOnce
<1> QED BY <1>2, <1>3, <1>4, <1>5

LEMMA InitIInv == Init => IInv
<1> SUFFICES ASSUME Init PROVE IInv
  OBVIOUS
<1>1. PICK c \in Calls : Coordinates = c.input /\ parallel = c.parallel
  BY DEF Init
<1>2. Coordinates \in Seq(Int) /\ Len(Coordinates) \in Nat /\ Input = 1 .. Len(Coordinates)
  BY <1>1, BatchPrefillAssumption DEF Input
<1>3. remaining = [i \in 1 .. Len(Coordinates) |-> i]
  BY <1>2 DEF Init
<1>4. remaining \in Seq(Input) /\ Len(remaining) = Len(Coordinates) /\ DOMAIN remaining = Input
  <2> DEFINE n == Len(Coordinates)
  <2>1. n \in Nat /\ Input = 1 .. n /\ remaining = [i \in 1 .. n |-> i]
    BY <1>2, <1>3
  <2> HIDE DEF n
  <2> QED BY <2>1 DEF n
<1>5. pages = <<>> /\ DOMAIN pages = {} /\ Len(pages) = 0
      /\ pages \in Seq([vectors : Seq(Input), max_dist : Nat])
  BY DEF Init
<1>6. TypeOK
  <2>1. MaxInPage * NumThreads \in Nat
    BY BatchPrefillAssumption
  <2>2. \A t \in Threads : IsFiniteSet({})
    BY FS_EmptySet
  <2> QED BY <1>1, <1>4, <1>5, <2>1, <2>2 DEF Init, TypeOK
<1>7. RoundInStep
  BY DEF Init, RoundInStep
<1>8. RemainingOnce /\ FullPages
  <2>1. MaxInPage * 0 = 0
    BY BatchPrefillAssumption
  <2> QED BY <1>2, <1>3, <1>4, <1>5, <2>1 DEF RemainingOnce, FullPages
<1>9. NothingLost
  <2>1. Stored = {}
    BY <1>5 DEF Stored
  <2>2. ToSet(remaining) = Input
    BY <1>2, <1>3, <1>4 DEF ToSet
  <2> QED BY <2>1, <2>2 DEF NothingLost
<1>10. RadiusCovers /\ StoredOnceUnlessGrown
  BY <1>5 DEF RadiusCovers, StoredOnceUnlessGrown, StoredOnce
<1> QED BY <1>6, <1>7, <1>8, <1>9, <1>10 DEF IInv

LEMMA StartRoundIInv == IInv /\ StartRound => IInv'
<1> SUFFICES ASSUME IInv, StartRound PROVE IInv'
  OBVIOUS
<1>1. TypeOK /\ UNCHANGED <<Coordinates, parallel, remaining, pages, grown>>
  BY DEF IInv, StartRound
<1>2. TypeOK'
  <2>1. IsFiniteSet({}) /\ Infinity \in Nat
    BY FS_EmptySet, StepTyped, <1>1
  <2>2. Input' = Input /\ slot0' \in [Threads -> Nat]
    BY <1>1, HeapTyped DEF Input, StartRound
  <2> QED BY <1>1, <2>1, <2>2 DEF TypeOK, StartRound
<1>3. RoundInStep'
  <2>1. phase' = "workers" /\ parallel' /\ remaining' # <<>> /\ next_morsel' = 0
        /\ \A t \in Threads : heap'[t] = {} /\ wpc'[t] = "fetch"
    BY DEF StartRound
  <2>2. HeapsTrue' /\ HeapsApart'
    BY <2>1 DEF HeapsTrue, HeapsApart, Owned
  <2>3. AnchorStays' /\ MorselsTaken'
    BY <2>1 DEF AnchorStays, Scanning, MorselsTaken
  <2> QED BY <2>1, <2>2, <2>3 DEF RoundInStep
<1> QED BY <1>1, <1>2, <1>3, QuietStore DEF IInv

LEMMA FinishIInv == IInv /\ Finish => IInv'
<1> SUFFICES ASSUME IInv, Finish PROVE IInv'
  OBVIOUS
<1>1. TypeOK' /\ RoundInStep'
  <2>1. Input' = Input
    BY DEF Finish, Input
  <2> QED BY <2>1 DEF IInv, TypeOK, RoundInStep, Finish
<1> QED BY <1>1, QuietStore DEF IInv, Finish

\* The round goes on: what the entries are, and that a worker is at work.
LEMMA AtWork ==
  ASSUME IInv, NEW t \in Threads, wpc[t] # "done"
  PROVE  /\ phase = "workers" /\ parallel /\ remaining # <<>> /\ Len(remaining) > 0
         /\ HeapsTrue /\ HeapsApart /\ AnchorStays /\ MorselsTaken
<1>1. phase = "workers" /\ parallel /\ remaining # <<>> /\ HeapsTrue /\ HeapsApart /\ AnchorStays /\ MorselsTaken
  BY DEF IInv, RoundInStep
<1>2. Len(remaining) > 0
  <2>1. remaining \in Seq(Input)
    BY DEF IInv, TypeOK
  <2> QED BY <1>1, <2>1, EmptySeq, LenProperties
<1> QED BY <1>1, <1>2

LEMMA FetchMorselIInv ==
  ASSUME IInv, NEW t \in Threads, FetchMorsel(t)
  PROVE  IInv'
<1>1. /\ UNCHANGED <<Coordinates, parallel, remaining, pages, grown, phase, buffer_size, heap, slot0, shared_data>>
      /\ wpc[t] = "fetch" /\ next_morsel' = next_morsel + Step
      /\ morsel' = [morsel EXCEPT ![t] = next_morsel]
      /\ wpc' = [wpc EXCEPT ![t] = IF next_morsel >= Len(remaining) THEN "done" ELSE "scan"]
  BY DEF FetchMorsel, mainVars
<1>2. TypeOK /\ Step \in Nat /\ next_morsel \in Nat /\ Len(remaining) \in Nat /\ Step' = Step
  BY <1>1, StepTyped, CoordinatesTyped DEF IInv, TypeOK, Step
<1>3. TypeOK'
  <2>1. Input' = Input
    BY <1>1 DEF Input
  <2>2. wpc' \in [Threads -> {"fetch", "scan", "publish", "cas", "done"}] /\ morsel' \in [Threads -> Nat]
    BY <1>1, <1>2 DEF TypeOK
  <2> QED BY <1>1, <1>2, <2>1, <2>2 DEF TypeOK
<1>4. /\ phase = "workers" /\ parallel /\ remaining # <<>> /\ Len(remaining) > 0
      /\ HeapsTrue /\ HeapsApart /\ AnchorStays /\ MorselsTaken
  BY <1>1, AtWork
<1>5. /\ morsel'[t] = next_morsel
      /\ IF next_morsel >= Len(remaining) THEN wpc'[t] = "done" ELSE wpc'[t] = "scan"
      /\ \A u \in Threads : u # t => wpc'[u] = wpc[u] /\ morsel'[u] = morsel[u]
  BY <1>1, <1>2 DEF TypeOK
<1>6. HeapsTrue'
  BY <1>1, <1>4 DEF HeapsTrue, Entry
<1>7. Owned(t)' \subseteq Owned(t) \cup (next_morsel + 1 .. next_morsel + Step)
      /\ \A u \in Threads : u # t => Owned(u)' = Owned(u)
  BY <1>1, <1>2, <1>5 DEF Owned
<1>8. HeapsApart'
  <2>1. \A u \in Threads : Owned(u) \subseteq 1 .. next_morsel
    BY <1>4 DEF HeapsApart
  <2>2. \A i \in 1 .. next_morsel : i \notin next_morsel + 1 .. next_morsel + Step
    BY <1>2
  <2>3. 1 .. next_morsel \subseteq 1 .. next_morsel + Step
        /\ next_morsel + 1 .. next_morsel + Step \subseteq 1 .. next_morsel + Step
    BY <1>2
  <2>4. \A u \in Threads : Owned(u)' \subseteq 1 .. next_morsel'
    <3> TAKE u \in Threads
    <3>1. Owned(u) \subseteq 1 .. next_morsel
      BY <2>1
    <3>2. CASE u = t
      BY <1>1, <1>7, <2>3, <3>1, <3>2
    <3>3. CASE u # t
      BY <1>1, <1>7, <2>3, <3>1, <3>3
    <3> QED BY <3>2, <3>3
  <2>5. ASSUME NEW u \in Threads, NEW v \in Threads, u # v
        PROVE  Owned(u)' \cap Owned(v)' = {}
    <3>1. Owned(u) \cap Owned(v) = {} /\ Owned(u) \subseteq 1 .. next_morsel /\ Owned(v) \subseteq 1 .. next_morsel
      BY <1>4, <2>5 DEF HeapsApart
    <3>2. CASE u = t
      BY <1>7, <2>2, <2>5, <3>1, <3>2
    <3>3. CASE v = t
      BY <1>7, <2>2, <2>5, <3>1, <3>3
    <3>4. CASE u # t /\ v # t
      BY <1>7, <3>1, <3>4
    <3> QED BY <3>2, <3>3, <3>4
  <2> QED BY <2>4, <2>5 DEF HeapsApart
<1>9. AnchorStays'
  <2>1. ASSUME next_morsel = 0 PROVE heap[t] = {}
    <3>1. \A e \in heap[t] : e[2] \in 1 .. 0
      BY <1>4, <2>1 DEF HeapsApart, Owned
    <3> QED BY <3>1
  <2>2. \A u \in Threads : Scanning(u, 0)' => heap'[u] = {}
    <3> TAKE u \in Threads
    <3>1. CASE u = t
      BY <1>1, <1>5, <2>1, <3>1 DEF Scanning
    <3>2. CASE u # t
      BY <1>1, <1>4, <1>5, <3>2 DEF Scanning, AnchorStays
    <3> QED BY <3>1, <3>2
  <2>3. next_morsel' > 0 => \E u \in Threads : <<0, 1>> \in heap'[u] \/ Scanning(u, 0)'
    <3>1. CASE next_morsel = 0
      <4>1. Scanning(t, 0)'
        BY <1>4, <1>5, <3>1 DEF Scanning
      <4> QED BY <4>1
    <3>2. CASE next_morsel > 0
      <4>1. PICK u \in Threads : <<0, 1>> \in heap[u] \/ Scanning(u, 0)
        BY <1>4, <3>2 DEF AnchorStays
      <4>2. <<0, 1>> \in heap'[u] \/ Scanning(u, 0)'
        BY <1>1, <1>5, <4>1 DEF Scanning
      <4> QED BY <4>2
    <3> QED BY <1>2, <3>1, <3>2
  <2>4. next_morsel' > 0 => Step' > 0
    BY <1>1, <1>2, <1>4 DEF AnchorStays
  <2> QED BY <2>2, <2>3, <2>4 DEF AnchorStays
<1>10. MorselsTaken'
  <2> SUFFICES ASSUME NEW u \in Threads
               PROVE  /\ wpc'[u] = "scan" => morsel'[u] < Len(remaining)
                      /\ wpc'[u] = "done" => next_morsel' >= Len(remaining)
    BY <1>1 DEF MorselsTaken
  <2>1. CASE u = t
    BY <1>1, <1>2, <1>5, <2>1
  <2>2. CASE u # t
    BY <1>1, <1>2, <1>4, <1>5, <2>2 DEF MorselsTaken
  <2> QED BY <2>1, <2>2
<1>11. RoundInStep'
  BY <1>1, <1>4, <1>6, <1>8, <1>9, <1>10 DEF RoundInStep
<1> QED BY <1>1, <1>3, <1>11, QuietStore DEF IInv

LEMMA ScanIInv ==
  ASSUME IInv, NEW t \in Threads, Scan(t)
  PROVE  IInv'
<1> DEFINE n == Min({Len(remaining) - morsel[t], Step})
<1>1. /\ UNCHANGED <<Coordinates, parallel, remaining, pages, grown, phase, buffer_size, next_morsel, shared_data, morsel, slot0>>
      /\ wpc[t] = "scan"
      /\ heap' = [heap EXCEPT ![t] = OfferRange(@, morsel[t], n, MaxInPage, shared_data)]
      /\ wpc' = [wpc EXCEPT ![t] = IF HeapTop(heap'[t], slot0[t]) < shared_data THEN "publish" ELSE "fetch"]
  BY DEF Scan, mainVars
<1>2. /\ phase = "workers" /\ parallel /\ remaining # <<>> /\ Len(remaining) > 0
      /\ HeapsTrue /\ HeapsApart /\ AnchorStays /\ MorselsTaken
  BY <1>1, AtWork
<1>3. /\ TypeOK /\ Step \in Nat /\ next_morsel \in Nat /\ Len(remaining) \in Nat /\ Step' = Step
      /\ MaxInPage \in Nat \ {0} /\ DOMAIN remaining = 1 .. Len(remaining)
      /\ morsel[t] \in Nat /\ shared_data \in Nat /\ morsel[t] < Len(remaining)
  BY <1>1, <1>2, StepTyped, CoordinatesTyped DEF IInv, TypeOK, Step, MorselsTaken
<1>4. n \in Nat /\ n <= Step /\ morsel[t] + n <= Len(remaining) /\ (Step > 0 => n > 0)
  <2>1. n = IF Len(remaining) - morsel[t] <= Step THEN Len(remaining) - morsel[t] ELSE Step
    BY <1>3, MinOfTwo
  <2> HIDE DEF n
  <2> QED BY <1>3, <2>1
<1> HIDE DEF n
<1>5. \A i \in morsel[t] + 1 .. morsel[t] + n :
        i \in DOMAIN remaining /\ Entry(i) \in Entries /\ Entry(i)[2] = i
  <2> TAKE i \in morsel[t] + 1 .. morsel[t] + n
  <2>1. i \in DOMAIN remaining
    BY <1>3, <1>4
  <2> QED BY <1>3, <2>1, EntryFacts
<1> DEFINE g == OfferRange(heap[t], morsel[t], n, MaxInPage, shared_data)
<1>6. /\ IsHeap(g) /\ g \subseteq heap[t] \cup EntriesAt(morsel[t], n)
      /\ <<0, 1>> \in heap[t] => <<0, 1>> \in g
      /\ heap[t] = {} /\ morsel[t] = 0 /\ n > 0 /\ Entry(1) = <<0, 1>> => <<0, 1>> \in g
  <2>1. IsHeap(heap[t])
    BY <1>3, HeapTyped
  <2>2. EntriesTyped(morsel[t], n)
    BY <1>5 DEF EntriesTyped
  <2> QED BY <1>3, <1>4, <2>1, <2>2, OfferRangeFacts
<1> HIDE DEF g
<1>7. heap'[t] = g /\ wpc'[t] \in {"publish", "fetch"}
      /\ \A u \in Threads : u # t => heap'[u] = heap[u] /\ wpc'[u] = wpc[u]
  BY <1>1, <1>3 DEF TypeOK, g
<1>8. TypeOK'
  <2>1. Input' = Input
    BY <1>1 DEF Input
  <2>2. wpc' \in [Threads -> {"fetch", "scan", "publish", "cas", "done"}]
    BY <1>1, <1>3 DEF TypeOK
  <2>3. g \in SUBSET (Nat \X Nat) /\ IsFiniteSet(g)
    BY <1>6 DEF IsHeap, Entries
  <2>4. heap' = [heap EXCEPT ![t] = g] /\ heap \in [Threads -> SUBSET (Nat \X Nat)]
    BY <1>1, <1>3 DEF TypeOK, g
  <2>5. heap' \in [Threads -> SUBSET (Nat \X Nat)]
    BY <2>3, <2>4
  <2>6. \A u \in Threads : IsFiniteSet(heap'[u])
    BY <1>3, <1>7, <2>3 DEF TypeOK
  <2> QED BY <1>1, <1>3, <2>1, <2>2, <2>5, <2>6 DEF TypeOK
<1>9. HeapsTrue'
  <2> SUFFICES ASSUME NEW u \in Threads, NEW e \in heap'[u]
               PROVE  e[2] \in DOMAIN remaining /\ e = Entry(e[2])
    BY <1>1 DEF HeapsTrue, Entry
  <2>1. CASE u = t
    BY <1>2, <1>5, <1>6, <1>7, <2>1 DEF HeapsTrue, EntriesAt
  <2>2. CASE u # t
    BY <1>2, <1>7, <2>2 DEF HeapsTrue
  <2> QED BY <2>1, <2>2
<1>10. Owned(t)' \subseteq Owned(t) /\ \A u \in Threads : u # t => Owned(u)' = Owned(u)
  <2>1. morsel[t] + 1 .. morsel[t] + n \subseteq morsel[t] + 1 .. morsel[t] + Step
    BY <1>3, <1>4
  <2>2. \A e \in g : e \in heap[t] \/ e[2] \in morsel[t] + 1 .. morsel[t] + n
    BY <1>5, <1>6 DEF EntriesAt
  <2>3. \A e \in g : e[2] \in Owned(t)
    BY <1>1, <2>1, <2>2 DEF Owned
  <2>4. Owned(t)' = {e[2] : e \in g}
    BY <1>7 DEF Owned
  <2>5. Owned(t)' \subseteq Owned(t)
    BY <2>3, <2>4
  <2> QED BY <1>1, <1>3, <1>7, <2>5 DEF Owned
<1>11. HeapsApart'
  <2>1. \A u \in Threads : Owned(u)' \subseteq Owned(u)
    BY <1>10
  <2> QED BY <1>1, <1>2, <2>1 DEF HeapsApart
<1>12. AnchorStays'
  <2>1. \A u \in Threads : Scanning(u, 0)' => heap'[u] = {}
    BY <1>1, <1>2, <1>7 DEF AnchorStays, Scanning
  <2>2. ASSUME next_morsel > 0 PROVE \E u \in Threads : <<0, 1>> \in heap'[u] \/ Scanning(u, 0)'
    <3>1. PICK u \in Threads : <<0, 1>> \in heap[u] \/ Scanning(u, 0)
      BY <1>2, <2>2 DEF AnchorStays
    <3>2. CASE u # t
      BY <1>1, <1>7, <3>1, <3>2 DEF Scanning
    <3>3. CASE u = t /\ <<0, 1>> \in heap[t]
      BY <1>6, <1>7, <3>3
    <3>4. CASE u = t /\ Scanning(t, 0)
      <4>1. heap[t] = {} /\ morsel[t] = 0 /\ n > 0
        BY <1>2, <1>4, <2>2, <3>4 DEF AnchorStays, Scanning
      <4>2. Entry(1) = <<0, 1>>
        BY <1>3, EntryFacts
      <4> QED BY <1>6, <1>7, <4>1, <4>2
    <3> QED BY <3>1, <3>2, <3>3, <3>4
  <2> QED BY <1>1, <1>2, <1>3, <2>1, <2>2 DEF AnchorStays
<1>13. MorselsTaken'
  BY <1>1, <1>2, <1>7 DEF MorselsTaken
<1>14. RoundInStep'
  BY <1>1, <1>2, <1>9, <1>11, <1>12, <1>13 DEF RoundInStep
<1> QED BY <1>1, <1>8, <1>14, QuietStore DEF IInv

\* A step that leaves the heaps and morsels alone, and neither takes up nor ends
\* a worker's scan.
LEMMA QuietRound ==
  ASSUME IInv, NEW t \in Threads, wpc[t] \in {"publish", "cas"}, NEW next \in {"fetch", "cas"},
         wpc' = [wpc EXCEPT ![t] = next],
         UNCHANGED <<mainVars, next_morsel, morsel, heap>>
  PROVE  RoundInStep' /\ wpc' \in [Threads -> {"fetch", "scan", "publish", "cas", "done"}]
<1>1. /\ phase = "workers" /\ parallel /\ remaining # <<>> /\ Len(remaining) > 0
      /\ HeapsTrue /\ HeapsApart /\ AnchorStays /\ MorselsTaken
  BY AtWork
<1>2. wpc \in [Threads -> {"fetch", "scan", "publish", "cas", "done"}]
  BY DEF IInv, TypeOK
<1>3. \A u \in Threads : wpc'[u] = wpc[u] \/ (wpc[u] \notin {"scan", "done"} /\ wpc'[u] \notin {"scan", "done"})
  BY <1>2
<1>4. UNCHANGED <<remaining, Coordinates, phase, parallel>> /\ Step' = Step
  BY DEF mainVars, Step
<1>5. HeapsTrue'
  BY <1>1, <1>4 DEF HeapsTrue, Entry
<1>6. \A u \in Threads : Owned(u)' = Owned(u)
  BY <1>3, <1>4 DEF Owned
<1>7. HeapsApart'
  BY <1>1, <1>6 DEF HeapsApart
<1>8. \A u \in Threads : Scanning(u, 0)' <=> Scanning(u, 0)
  BY <1>3 DEF Scanning
<1>9. AnchorStays'
  BY <1>1, <1>4, <1>8 DEF AnchorStays
<1>10. MorselsTaken'
  BY <1>1, <1>3, <1>4 DEF MorselsTaken
<1> QED BY <1>1, <1>2, <1>4, <1>5, <1>7, <1>9, <1>10 DEF RoundInStep

LEMMA PublishIInv ==
  ASSUME IInv, NEW t \in Threads, Publish(t)
  PROVE  IInv'
<1>1. UNCHANGED <<Coordinates, parallel, remaining, pages, phase, buffer_size, grown>>
  BY DEF Publish, mainVars
<1> DEFINE next == IF shared_data <= Top(t) THEN "fetch" ELSE "cas"
<1>2. next \in {"fetch", "cas"} /\ wpc' = [wpc EXCEPT ![t] = next]
  BY DEF Publish
<1>3. wpc[t] \in {"publish", "cas"} /\ UNCHANGED <<mainVars, next_morsel, morsel, heap, slot0, shared_data>>
  BY DEF Publish
<1>4. RoundInStep' /\ wpc' \in [Threads -> {"fetch", "scan", "publish", "cas", "done"}]
  <2> HIDE DEF next
  <2> QED BY <1>2, <1>3, QuietRound
<1>5. TypeOK'
  <2>1. Input' = Input
    BY <1>1 DEF Input
  <2> QED BY <1>1, <1>3, <1>4, <2>1 DEF IInv, TypeOK
<1> QED BY <1>1, <1>4, <1>5, QuietStore DEF IInv

LEMMA CompareExchangeIInv ==
  ASSUME IInv, NEW t \in Threads, CompareExchange(t)
  PROVE  IInv'
<1>1. UNCHANGED <<Coordinates, parallel, remaining, pages, phase, buffer_size, grown>>
  BY DEF CompareExchange, mainVars
<1>2. PICK next \in {"fetch", "cas"} : wpc' = [wpc EXCEPT ![t] = next]
  BY DEF CompareExchange
<1>3. wpc[t] \in {"publish", "cas"} /\ UNCHANGED <<mainVars, next_morsel, morsel, heap, slot0>>
  BY DEF CompareExchange
<1>4. RoundInStep' /\ wpc' \in [Threads -> {"fetch", "scan", "publish", "cas", "done"}]
  BY <1>2, <1>3, QuietRound
<1>5. shared_data' \in Nat
  BY HeapTyped DEF CompareExchange, IInv, TypeOK
<1>6. TypeOK'
  <2>1. Input' = Input
    BY <1>1 DEF Input
  <2> QED BY <1>1, <1>3, <1>4, <1>5, <2>1 DEF IInv, TypeOK
<1> QED BY <1>1, <1>4, <1>6, QuietStore DEF IInv

-----------------------------------------------------------------------------
\* A sorted row repeats nothing, grows in distance, and starts with the anchor if
\* that is among its entries.
LEMMA FirstSortedFacts ==
  ASSUME NEW E \in SUBSET Entries, \A e \in E : e[2] > 0,
         NEW m \in Int, NEW row \in FirstSorted(E, m)
  PROVE  /\ row \in [1 .. m -> E]
         /\ \A i, j \in 1 .. m : row[i] = row[j] => i = j
         /\ m > 0 => \A i \in 1 .. m : row[i][1] <= row[m][1]
         /\ m > 0 /\ <<0, 1>> \in E => row[1] = <<0, 1>>
<1>1. /\ row \in [1 .. m -> E]
      /\ \A i, j \in 1 .. m : i < j => Before(row[i], row[j])
      /\ \A i \in 1 .. m : \A x \in E : Before(row[i], x) \/ \E j \in 1 .. m : row[j] = x
  BY DEF FirstSorted
<1>2. \A i \in 1 .. m : row[i] \in Entries /\ row[i][1] \in Nat
  BY <1>1 DEF Entries
<1>3. ASSUME NEW i \in 1 .. m, NEW j \in 1 .. m, row[i] = row[j]
      PROVE  i = j
  <2>1. ~Before(row[i], row[j]) /\ ~Before(row[j], row[i])
    BY <1>2, <1>3, BeforeTotal
  <2> QED BY <1>1, <2>1
<1>4. ASSUME m > 0, NEW i \in 1 .. m PROVE row[i][1] <= row[m][1]
  <2>1. m \in 1 .. m /\ (i = m \/ i < m)
    BY <1>4
  <2>2. CASE i = m
    BY <1>2, <2>2
  <2>3. CASE i < m
    <3>1. Before(row[i], row[m])
      BY <1>1, <2>1, <2>3
    <3> QED BY <1>2, <2>1, <3>1 DEF Before
  <2> QED BY <2>1, <2>2, <2>3
<1>5. ASSUME m > 0, <<0, 1>> \in E PROVE row[1] = <<0, 1>>
  <2>1. 1 \in 1 .. m /\ row[1] \in E /\ row[1] \in Entries /\ row[1][2] > 0
    BY <1>1, <1>2, <1>5
  <2>2. ~Before(row[1], <<0, 1>>)
    BY <2>1 DEF Before, Entries
  <2>3. PICK j \in 1 .. m : row[j] = <<0, 1>>
    BY <1>1, <1>5, <2>1, <2>2
  <2>4. CASE j = 1
    BY <2>3, <2>4
  <2>5. CASE j # 1
    <3>1. Before(row[1], row[j])
      BY <1>1, <2>1, <2>5
    <3> QED BY <2>2, <2>3, <3>1
  <2> QED BY <2>4, <2>5
<1> QED BY <1>1, <1>3, <1>4, <1>5

\* When all workers are done their heaps hold the anchor; and a buffer as large
\* as the outputs keeps them all.
LEMMA OutputsFacts ==
  ASSUME IInv, phase = "workers", \A t \in Threads : wpc[t] = "done"
  PROVE  /\ IsHeap(AllOutputs) /\ TempOffset \in Nat /\ <<0, 1>> \in AllOutputs
         /\ \A e \in AllOutputs : e[2] \in DOMAIN remaining /\ e = Entry(e[2]) /\ e[2] > 0
<1>1. HeapsTrue /\ HeapsApart /\ AnchorStays /\ MorselsTaken /\ remaining # <<>>
  BY DEF IInv, RoundInStep
<1>2. /\ TypeOK /\ 0 \in Threads /\ IsFiniteSet(Threads)
      /\ Len(remaining) \in Nat /\ DOMAIN remaining = 1 .. Len(remaining) /\ next_morsel \in Nat
  BY StepTyped, CoordinatesTyped DEF IInv, TypeOK
<1>3. IsHeap(AllOutputs)
  <2> DEFINE heaps == {heap[t] : t \in Threads}
             f == [t \in Threads |-> heap[t]]
  <2>1. f \in Surjection(Threads, heaps)
    BY DEF Surjection
  <2> HIDE DEF f
  <2>2. \A h \in heaps : IsHeap(h)
    BY <1>2, HeapTyped
  <2> HIDE DEF heaps
  <2>3. IsFiniteSet(heaps)
    BY <1>2, <2>1, FS_Surjection
  <2>4. IsFiniteSet(UNION heaps) /\ UNION heaps \subseteq Entries
    BY <2>2, <2>3, FS_UNION DEF IsHeap
  <2> QED BY <2>4 DEF AllOutputs, heaps, IsHeap
<1>4. TempOffset \in Nat
  BY <1>3, FS_CardinalityType DEF TempOffset, IsHeap
<1>5. <<0, 1>> \in AllOutputs
  <2>1. Len(remaining) > 0
    BY <1>1, <1>2, EmptySeq DEF TypeOK
  <2>2. next_morsel > 0
    BY <1>1, <1>2, <2>1 DEF MorselsTaken
  <2>3. PICK t \in Threads : <<0, 1>> \in heap[t] \/ Scanning(t, 0)
    BY <1>1, <2>2 DEF AnchorStays
  <2>4. <<0, 1>> \in heap[t]
    BY <2>3 DEF Scanning
  <2> QED BY <2>4 DEF AllOutputs
<1>6. \A e \in AllOutputs : e[2] \in DOMAIN remaining /\ e = Entry(e[2]) /\ e[2] > 0
  BY <1>1, <1>2 DEF AllOutputs, HeapsTrue
<1> QED BY <1>3, <1>4, <1>5, <1>6

LEMMA KeptFacts ==
  ASSUME IInv, phase = "workers", \A t \in Threads : wpc[t] = "done", NEW kept \in Kept
  PROVE  /\ kept \subseteq AllOutputs /\ IsHeap(kept)
         /\ Cardinality(kept) \in Nat /\ Cardinality(kept) <= TempOffset
         /\ Cardinality(kept) = TempOffset => kept = AllOutputs
         /\ TempOffset <= buffer_size => kept = AllOutputs
<1>1. IsHeap(AllOutputs) /\ TempOffset \in Nat /\ kept \subseteq AllOutputs
  BY OutputsFacts DEF Kept
<1>2. IsHeap(kept) /\ Cardinality(kept) \in Nat /\ Cardinality(kept) <= TempOffset
      /\ (Cardinality(kept) = TempOffset => kept = AllOutputs)
  BY <1>1, FS_Subset, FS_CardinalityType DEF IsHeap, TempOffset
<1>3. ASSUME TempOffset <= buffer_size, NEW t \in Threads
      PROVE  heap[t] \subseteq kept
  <2> DEFINE earlier == UNION {heap[u] : u \in 0 .. t - 1}
  <2>0. TypeOK /\ HeapsApart /\ buffer_size \in Nat /\ IsHeap(heap[t])
    BY HeapTyped DEF IInv, RoundInStep, TypeOK
  <2>1. t \in Nat /\ \A u \in 0 .. t - 1 : u \in Threads /\ u # t
    BY <2>0, StepTyped DEF Threads
  <2>2. earlier \subseteq AllOutputs /\ heap[t] \subseteq AllOutputs
    BY <2>1 DEF AllOutputs
  <2>3. earlier \cap heap[t] = {}
    <3>1. ASSUME NEW u \in 0 .. t - 1, NEW e \in heap[u] \cap heap[t] PROVE FALSE
      <4>1. e[2] \in Owned(u) /\ e[2] \in Owned(t)
        BY DEF Owned
      <4> QED BY <2>0, <2>1, <4>1 DEF HeapsApart
    <3> QED BY <3>1
  <2> HIDE DEF earlier
  <2>4. /\ IsFiniteSet(earlier) /\ IsFiniteSet(heap[t])
        /\ Cardinality(earlier) \in Nat /\ Cardinality(heap[t]) \in Nat
    BY <1>1, <2>0, <2>2, FS_Subset, FS_CardinalityType DEF IsHeap
  <2>5. Cardinality(earlier \cup heap[t]) = Cardinality(earlier) + Cardinality(heap[t])
    BY <2>3, <2>4, FS_Union, FS_EmptySet
  <2>6. Cardinality(earlier \cup heap[t]) <= TempOffset
    <3>1. earlier \cup heap[t] \in SUBSET AllOutputs
      BY <2>2
    <3> QED BY <1>1, <3>1, FS_Subset DEF IsHeap, TempOffset
  <2> DEFINE left == buffer_size - Cardinality(earlier)
             all == Cardinality(heap[t])
  <2>7. left \in Int /\ all \in Nat /\ all <= left
    BY <1>1, <1>3, <2>0, <2>4, <2>5, <2>6
  <2>8. Cardinality(kept \cap heap[t]) = Max({0, Min({all, left})})
    BY DEF Kept, earlier
  <2> HIDE DEF left, all
  <2>9. Min({all, left}) = all
    BY <2>7, MinOfTwo
  <2>10. Max({0, all}) = all
    BY <2>7, MinOfTwo
  <2>11. Cardinality(kept \cap heap[t]) = Cardinality(heap[t])
    BY <2>8, <2>9, <2>10 DEF all
  <2>12. kept \cap heap[t] \in SUBSET heap[t]
    OBVIOUS
  <2>13. kept \cap heap[t] = heap[t]
    BY <2>4, <2>11, <2>12, FS_Subset
  <2> QED BY <2>13
<1>4. TempOffset <= buffer_size => kept = AllOutputs
  BY <1>1, <1>3 DEF AllOutputs
<1> QED BY <1>1, <1>2, <1>4

LEMMA EndRoundIInv == IInv /\ EndRound => IInv' /\ Len(remaining') < Len(remaining)
<1> SUFFICES ASSUME IInv, EndRound PROVE IInv' /\ Len(remaining') < Len(remaining)
  OBVIOUS
<1>1. /\ phase = "workers" /\ \A t \in Threads : wpc[t] = "done"
      /\ grown' = (grown \/ TempOffset > buffer_size) /\ buffer_size' = TempOffset /\ phase' = "round"
      /\ UNCHANGED <<Coordinates, parallel, next_morsel, shared_data, wpc, morsel, current_global_max,
                     up_to_date_max, heap, slot0>>
  BY DEF EndRound
<1>2. PICK kept \in Kept :
        LET zeros == TempOffset - Cardinality(kept)
            size == Min({MaxInPage, TempOffset})
        IN \E row \in FirstSorted(kept, size - zeros) :
             StorePage([i \in 1 .. size |-> IF i <= zeros THEN <<0, 1>> ELSE row[i - zeros]])
  BY DEF EndRound
<1> DEFINE zeros == TempOffset - Cardinality(kept)
           size == Min({MaxInPage, TempOffset})
           m == size - zeros
<1>3. PICK row \in FirstSorted(kept, m) :
        StorePage([i \in 1 .. size |-> IF i <= zeros THEN <<0, 1>> ELSE row[i - zeros]])
  BY <1>2
<1> DEFINE entries == [i \in 1 .. size |-> IF i <= zeros THEN <<0, 1>> ELSE row[i - zeros]]
<1>4. /\ TypeOK /\ RemainingOnce /\ NothingLost /\ RadiusCovers /\ StoredOnceUnlessGrown
      /\ parallel /\ buffer_size \in Nat /\ MaxInPage \in Nat \ {0}
  BY <1>1, StepTyped DEF IInv, RoundInStep, TypeOK
<1>5. /\ IsHeap(AllOutputs) /\ TempOffset \in Nat /\ <<0, 1>> \in AllOutputs
      /\ \A e \in AllOutputs : e[2] \in DOMAIN remaining /\ e = Entry(e[2]) /\ e[2] > 0
  BY <1>1, OutputsFacts
<1>6. /\ kept \in SUBSET AllOutputs /\ kept \in SUBSET Entries
      /\ Cardinality(kept) \in Nat /\ Cardinality(kept) <= TempOffset
      /\ Cardinality(kept) = TempOffset => kept = AllOutputs
      /\ TempOffset <= buffer_size => kept = AllOutputs
  BY <1>1, KeptFacts DEF IsHeap
<1>7. TempOffset > 0
  <2>1. Cardinality(AllOutputs) # 0
    BY <1>5, FS_EmptySet DEF IsHeap
  <2> QED BY <1>5, <2>1 DEF TempOffset
<1>8. size \in Nat \ {0}
  BY <1>4, <1>5, <1>7, MinOfTwo
<1>9. zeros \in Nat /\ m \in Int /\ (zeros = 0 => kept = AllOutputs) /\ (TempOffset <= buffer_size => zeros = 0)
  <2>1. TempOffset <= buffer_size => Cardinality(kept) = TempOffset
    BY <1>6 DEF TempOffset
  <2> HIDE DEF size
  <2> QED BY <1>5, <1>6, <1>8, <2>1
<1>10. /\ row \in [1 .. m -> kept]
       /\ \A i, j \in 1 .. m : row[i] = row[j] => i = j
       /\ m > 0 => \A i \in 1 .. m : row[i][1] <= row[m][1]
       /\ m > 0 /\ <<0, 1>> \in kept => row[1] = <<0, 1>>
  <2> HIDE DEF m
  <2>1. \A e \in kept : e[2] > 0
    BY <1>5, <1>6
  <2> QED BY <1>3, <1>6, <1>9, <2>1, FirstSortedFacts
<1>11. m = size - zeros
  OBVIOUS
<1> HIDE DEF zeros, size, m
<1>12. \A i \in 1 .. size : i > zeros => i - zeros \in 1 .. m /\ entries[i] = row[i - zeros]
  BY <1>8, <1>9, <1>11
<1>13. \A i \in 1 .. size : i <= zeros => entries[i] = <<0, 1>>
  OBVIOUS
<1>14. DOMAIN entries = 1 .. size /\ entries = [i \in 1 .. size |-> entries[i]]
  OBVIOUS
<1> HIDE DEF entries
<1>15. \A i \in 1 .. size : entries[i] \in AllOutputs
  BY <1>5, <1>6, <1>8, <1>9, <1>10, <1>12, <1>13
<1>16. Storable(entries, size)
  <2>1. entries \in [1 .. size -> Entries]
    BY <1>5, <1>14, <1>15 DEF IsHeap
  <2>2. entries[1] = <<0, 1>>
    <3>1. CASE zeros = 0
      <4>1. m > 0 /\ 1 \in 1 .. size /\ row[1] = <<0, 1>>
        BY <1>5, <1>8, <1>9, <1>10, <1>11, <3>1
      <4> QED BY <1>12, <3>1, <4>1
    <3>2. CASE zeros # 0
      BY <1>8, <1>9, <1>13, <3>2
    <3> QED BY <3>1, <3>2
  <2>3. ASSUME NEW i \in 1 .. size PROVE entries[i][1] <= entries[size][1]
    <3>1. size \in 1 .. size /\ entries[size][1] \in Nat
      BY <1>8, <2>1 DEF Entries
    <3>2. CASE i <= zeros
      BY <1>13, <3>1, <3>2
    <3>3. CASE i > zeros
      <4>1. m > 0 /\ size > zeros /\ i - zeros \in 1 .. m
        BY <1>8, <1>9, <1>11, <1>12, <3>3
      <4> QED BY <1>10, <1>11, <1>12, <3>1, <3>3, <4>1
    <3> QED BY <1>9, <3>2, <3>3
  <2> QED BY <1>5, <1>8, <1>15, <2>1, <2>2, <2>3 DEF Storable
<1>17. ~grown' => ~grown /\ Once(entries)
  <2> SUFFICES ASSUME ~grown' PROVE Once(entries)
    BY <1>1
  <2>1. zeros = 0
    <3>1. ~(TempOffset > buffer_size)
      BY <1>1, Zenon
    <3> QED BY <1>4, <1>5, <1>9, <3>1
  <2>2. \A i \in 1 .. size : i > zeros
    BY <2>1
  <2>3. \A i, j \in 1 .. size : entries[i] = entries[j] => i = j
    BY <1>8, <1>10, <1>12, <2>1, <2>2
  <2> QED BY <1>14, <2>3 DEF Once
<1>18. StorePage(entries)
  BY <1>3 DEF entries
<1>19. /\ remaining' \in Seq(Input') /\ pages' \in Seq([vectors : Seq(Input'), max_dist : Nat])
       /\ RemainingOnce' /\ NothingLost' /\ RadiusCovers' /\ StoredOnceUnlessGrown'
       /\ Len(remaining') < Len(remaining)
  BY <1>1, <1>4, <1>16, <1>17, <1>18, StoreFacts
<1>20. TypeOK'
  BY <1>1, <1>4, <1>5, <1>19 DEF TypeOK
<1>21. RoundInStep' /\ FullPages'
  BY <1>1, <1>4 DEF RoundInStep, FullPages
<1> QED BY <1>19, <1>20, <1>21 DEF IInv

LEMMA SerialRoundIInv == IInv /\ SerialRound => IInv' /\ Len(remaining') < Len(remaining)
<1> SUFFICES ASSUME IInv, SerialRound PROVE IInv' /\ Len(remaining') < Len(remaining)
  OBVIOUS
<1> DEFINE rest == OfferRange({}, 1, Len(remaining) - 1, MaxInPage - 1, Infinity)
           page == {Entry(1)} \cup rest
           m == Cardinality(page)
<1>1. /\ phase = "round" /\ remaining # <<>> /\ ~parallel
      /\ UNCHANGED <<Coordinates, parallel, phase, buffer_size, grown, next_morsel, shared_data, wpc, morsel,
                     current_global_max, up_to_date_max, heap, slot0>>
  BY DEF SerialRound
<1>2. PICK row \in FirstSorted(page, m) : StorePage(row)
  BY DEF SerialRound
<1>3. /\ TypeOK /\ RemainingOnce /\ NothingLost /\ RadiusCovers /\ StoredOnceUnlessGrown /\ FullPages
      /\ MaxInPage \in Nat \ {0, 1} /\ Infinity \in Nat
      /\ Len(remaining) \in Nat /\ DOMAIN remaining = 1 .. Len(remaining)
  BY StepTyped, CoordinatesTyped DEF IInv
<1>4. Len(remaining) \in Nat \ {0}
  BY <1>1, <1>3, EmptySeq DEF TypeOK
<1>5. \A i \in DOMAIN remaining : Entry(i) \in Entries /\ Entry(i)[2] = i /\ Entry(i)[1] <= Infinity
  <2> TAKE i \in DOMAIN remaining
  <2>1. Entry(i) \in Entries /\ Entry(i)[2] = i /\ Entry(i)[1] < Infinity
    BY <1>3, EntryFacts
  <2> QED BY <1>3, <2>1 DEF Entries
<1>6. 1 \in DOMAIN remaining /\ Entry(1) = <<0, 1>>
  BY <1>3, <1>4, EntryFacts
<1> DEFINE n == Len(remaining) - 1
           size == MaxInPage - 1
<1>7. n \in Nat /\ size \in Nat \ {0} /\ \A i \in 1 + 1 .. 1 + n : i \in DOMAIN remaining /\ i # 1
  BY <1>3, <1>4
<1> HIDE DEF rest
<1>8. /\ IsHeap(rest) /\ rest \subseteq EntriesAt(1, n)
      /\ Cardinality(rest) = Smaller(n, size)
  <2> HIDE DEF n, size
  <2>1. IsHeap({})
    BY FS_EmptySet DEF IsHeap
  <2>2. rest = OfferRange({}, 1, n, size, Infinity)
    BY DEF rest, n, size
  <2>3. EntriesTyped(1, n)
    BY <1>5, <1>7 DEF EntriesTyped
  <2>4. NoneBeyond(1, n, Infinity)
    BY <1>5, <1>7 DEF NoneBeyond
  <2> DEFINE none == {}
             g == OfferRange(none, 1, n, size, Infinity)
  <2>5. n \in Nat /\ size \in Nat \ {0} /\ Infinity \in Nat /\ 1 \in Nat /\ IsHeap(none)
    BY <1>3, <1>7, <2>1
  <2>6. rest = g
    BY <2>2
  <2> HIDE DEF none
  <2>7. IsHeap(g) /\ g \subseteq none \cup EntriesAt(1, n)
    BY <2>3, <2>5, OfferRangeFacts
  <2>8. none = {} => Cardinality(g) = Smaller(n, size)
    BY <2>3, <2>4, <2>5, OfferRangeFacts, SMT
  <2> HIDE DEF g
  <2> QED BY <2>6, <2>7, <2>8 DEF none
<1>9. \A e \in rest : e[2] \in DOMAIN remaining /\ e[2] # 1 /\ e = Entry(e[2])
  <2> HIDE DEF n, size
  <2> QED BY <1>5, <1>7, <1>8 DEF EntriesAt
<1>10. /\ page \in SUBSET Entries /\ <<0, 1>> \in page
       /\ \A e \in page : e[2] \in DOMAIN remaining /\ e = Entry(e[2]) /\ e[2] > 0
  <2>1. \A e \in page : e[2] \in DOMAIN remaining /\ e = Entry(e[2])
    BY <1>6, <1>9
  <2>2. \A i \in DOMAIN remaining : i > 0
    BY <1>3
  <2>3. page \in SUBSET Entries
    BY <1>5, <1>6, <1>8 DEF IsHeap
  <2>4. <<0, 1>> \in page
    BY <1>6
  <2> HIDE DEF page
  <2> QED BY <2>1, <2>2, <2>3, <2>4
<1>11. m \in Nat \ {0} /\ m = IF n < size THEN n + 1 ELSE size + 1
  <2>1. <<0, 1>> \notin rest
    BY <1>9
  <2>2. page = rest \cup {<<0, 1>>}
    BY <1>6
  <2>3. m = Cardinality(rest) + 1
    <3> HIDE DEF page
    <3> QED BY <1>8, <2>1, <2>2, FS_AddElement DEF IsHeap
  <2> HIDE DEF m
  <2> QED BY <1>7, <1>8, <2>3 DEF Smaller
<1>12. m = IF Len(remaining) < MaxInPage THEN Len(remaining) ELSE MaxInPage
  <2>1. n = Len(remaining) - 1 /\ size = MaxInPage - 1
    OBVIOUS
  <2> HIDE DEF m, n, size
  <2>2. n < size <=> Len(remaining) < MaxInPage
    BY <1>3, <1>4, <2>1
  <2>3. CASE n < size
    BY <1>4, <1>11, <2>1, <2>2, <2>3
  <2>4. CASE ~(n < size)
    <3>1. m = size + 1 /\ ~(Len(remaining) < MaxInPage)
      BY <1>11, <2>2, <2>4
    <3>2. m = MaxInPage
      BY <1>3, <2>1, <3>1
    <3> QED BY <3>1, <3>2
  <2> QED BY <2>3, <2>4
<1> HIDE DEF page, m, n, size
<1>13. /\ row \in [1 .. m -> page]
       /\ \A i, j \in 1 .. m : row[i] = row[j] => i = j
       /\ \A i \in 1 .. m : row[i][1] <= row[m][1]
       /\ row[1] = <<0, 1>>
  BY <1>2, <1>10, <1>11, FirstSortedFacts
<1>14. Storable(row, m) /\ Once(row)
  <2>1. row \in [1 .. m -> Entries]
    BY <1>10, <1>13
  <2>2. Once(row)
    BY <1>13 DEF Once
  <2> QED BY <1>10, <1>11, <1>13, <2>1, <2>2 DEF Storable
<1>15. /\ remaining' \in Seq(Input') /\ pages' \in Seq([vectors : Seq(Input'), max_dist : Nat])
       /\ RemainingOnce' /\ NothingLost' /\ RadiusCovers' /\ StoredOnceUnlessGrown'
       /\ Len(pages') = Len(pages) + 1 /\ Len(remaining') = Len(remaining) - m
       /\ Len(remaining') < Len(remaining)
  BY <1>1, <1>2, <1>3, <1>14, StoreFacts
<1>16. TypeOK' /\ RoundInStep'
  <2>1. RoundInStep
    BY DEF IInv
  <2> QED BY <1>1, <1>3, <1>15, <2>1 DEF TypeOK, RoundInStep
<1>17. FullPages'
  <2>1. Len(pages) \in Nat /\ Len(Coordinates) \in Nat
    BY <1>3, CoordinatesTyped, LenProperties DEF TypeOK
  <2>2. Len(remaining) + MaxInPage * Len(pages) = Len(Coordinates)
    BY <1>1, <1>3 DEF FullPages
  <2> DEFINE p == Len(pages)
             w == MaxInPage * p
  <2>3. w \in Nat /\ MaxInPage * (p + 1) = w + MaxInPage /\ p + 1 - 1 = p
    <3> HIDE DEF p
    <3>1. p \in Nat
      BY <2>1 DEF p
    <3> QED BY <1>3, <3>1
  <2>4. Len(pages') = p + 1 /\ Len(remaining) + w = Len(Coordinates)
    BY <1>15, <2>2
  <2> HIDE DEF w
  <2>5. CASE Len(remaining) < MaxInPage
    <3>1. Len(remaining') = 0
      BY <1>4, <1>12, <1>15, <2>5
    <3>2. remaining' = <<>>
      BY <1>15, <3>1, EmptySeq
    <3>3. MaxInPage * (Len(pages') - 1) = w
      BY <2>3, <2>4 DEF w
    <3>4. MaxInPage * (Len(pages') - 1) < Len(Coordinates)
      BY <1>4, <2>3, <2>4, <3>3
    <3> QED BY <1>1, <3>2, <3>4 DEF FullPages
  <2>6. CASE ~(Len(remaining) < MaxInPage)
    <3>1. Len(remaining') = Len(remaining) - MaxInPage
      BY <1>12, <1>15, <2>6
    <3>2. MaxInPage * Len(pages') = w + MaxInPage
      BY <2>3, <2>4
    <3>3. Len(remaining') + MaxInPage * Len(pages') = Len(Coordinates')
      BY <1>1, <1>3, <2>3, <2>4, <3>1, <3>2
    <3> QED BY <3>3 DEF FullPages
  <2> QED BY <2>5, <2>6
<1> QED BY <1>15, <1>16, <1>17 DEF IInv

-----------------------------------------------------------------------------
LEMMA NextIInv == IInv /\ [Next]_vars => IInv'
<1> SUFFICES ASSUME IInv, [Next]_vars PROVE IInv'
  OBVIOUS
<1>1. CASE MainStep
  BY <1>1, StartRoundIInv, EndRoundIInv, SerialRoundIInv, FinishIInv DEF MainStep
<1>2. ASSUME NEW t \in Threads, Worker(t) PROVE IInv'
  BY <1>2, FetchMorselIInv, ScanIInv, PublishIInv, CompareExchangeIInv DEF Worker
<1>3. CASE UNCHANGED vars
  <2>1. UNCHANGED <<Coordinates, parallel, remaining, pages, grown>>
    BY <1>3 DEF vars
  <2>2. TypeOK'
    BY <1>3 DEF IInv, TypeOK, vars, Input
  <2>3. RoundInStep'
    <3>1. RoundInStep /\ UNCHANGED <<Coordinates, parallel, remaining, phase, next_morsel, wpc, morsel, heap>>
      BY <1>3 DEF IInv, vars
    <3>2. (\A i : Entry(i)' = Entry(i)) /\ (\A t \in Threads : Owned(t)' = Owned(t)) /\ Step' = Step
          /\ \A t \in Threads : Scanning(t, 0)' <=> Scanning(t, 0)
      BY <3>1 DEF Entry, Owned, Step, Scanning
    <3>3. HeapsTrue' <=> HeapsTrue
      BY <3>1, <3>2 DEF HeapsTrue
    <3>4. (HeapsApart' <=> HeapsApart) /\ (AnchorStays' <=> AnchorStays)
      BY <3>1, <3>2 DEF HeapsApart, AnchorStays
    <3>5. MorselsTaken' <=> MorselsTaken
      BY <3>1 DEF MorselsTaken
    <3> QED BY <3>1, <3>3, <3>4, <3>5 DEF RoundInStep
  <2> QED BY <2>1, <2>2, <2>3, QuietStore DEF IInv
<1> QED BY <1>1, <1>2, <1>3 DEF Next

\* What the rounds keep, in every reachable state: the heaps' true and separate
\* entries, the anchor among them, and the pages made from them
\* (batch_prefill_parallel, batch_prefill_worker, batch_prefill_single_threaded).
THEOREM SpecIInv == Spec => []IInv
<1>1. Init => IInv
  BY InitIInv
<1>2. IInv /\ [Next]_vars => IInv'
  BY NextIInv
<1> QED BY <1>1, <1>2, PTL DEF Spec

\* Whatever the workers skip and whatever the merge buffer loses, every input
\* vector is stored or still among new_vectors, never both.
THEOREM SpecNothingLost == Spec => []NothingLost
<1>1. IInv => NothingLost
  BY DEF IInv
<1> QED BY <1>1, SpecIInv, PTL

\* The max_dist recorded for a page is no less than the distance of any of its
\* vectors to its first, which is what every search relies on to skip it.
THEOREM SpecRadiusCovers == Spec => []RadiusCovers
<1>1. IInv => RadiusCovers
  BY DEF IInv
<1> QED BY <1>1, SpecIInv, PTL

\* Unless internal_buffer had to grow over copied outputs, no vector is in two
\* places of the pages.
THEOREM SpecStoredOnceUnlessGrown == Spec => []StoredOnceUnlessGrown
<1>1. IInv => StoredOnceUnlessGrown
  BY DEF IInv
<1> QED BY <1>1, SpecIInv, PTL

\* Each round of either version takes a vector, the anchor at least, from
\* new_vectors: the variant by which the outer loops end.
THEOREM SpecEachPageTakes == Spec => EachPageTakes
<1> DEFINE Takes == pages' # pages => Len(remaining') < Len(remaining)
<1>1. IInv /\ [Next]_vars => [Takes]_vars
  <2> SUFFICES ASSUME IInv, Next, pages' # pages PROVE Len(remaining') < Len(remaining)
    OBVIOUS
  <2>1. CASE EndRound \/ SerialRound
    BY <2>1, EndRoundIInv, SerialRoundIInv
  <2>2. CASE StartRound \/ Finish
    BY <2>2 DEF StartRound, Finish
  <2>3. ASSUME NEW t \in Threads, Worker(t) PROVE pages' = pages
    BY <2>3 DEF Worker, FetchMorsel, Scan, Publish, CompareExchange, mainVars
  <2> QED BY <2>1, <2>2, <2>3 DEF Next, MainStep
<1>2. Spec => [][Takes]_vars
  BY <1>1, SpecIInv, PTL DEF Spec
<1> QED BY <1>2 DEF EachPageTakes

\* Factors.
LEMMA FactorBelow ==
  ASSUME NEW m \in Nat \ {0}, NEW a \in Int, NEW b \in Int, m * a < m * b
  PROVE  a < b
<1> SUFFICES ASSUME a >= b PROVE FALSE
  OBVIOUS
<1> DEFINE d == a - b
<1>1. d \in Nat /\ a = b + d
  OBVIOUS
<1> HIDE DEF d
<1>2. m * a = m * b + m * d /\ m * d \in Nat /\ m * b \in Int
  BY <1>1
<1> QED BY <1>2

\* The files made before the rounds hold the pages that one thread makes.
THEOREM SpecPagesSuffice == Spec => []PagesSuffice
<1>1. IInv => PagesSuffice
  <2> SUFFICES ASSUME IInv, ~parallel PROVE Len(pages) <= NumPages
    BY DEF PagesSuffice
  <2> DEFINE L == Len(Coordinates)
             M == MaxInPage
             P == PagesPerFile
             n == Len(pages)
             q == L \div (M * P)
  <2>1. L \in Nat /\ n \in Nat /\ M \in Nat \ {0} /\ P \in Nat \ {0} /\ Len(remaining) \in Nat
    BY BatchPrefillAssumption, CoordinatesTyped, LenProperties DEF IInv, TypeOK
  <2>2. M * (n - 1) < L
    <3>1. CASE Len(remaining) + MaxInPage * Len(pages) = Len(Coordinates)
      <4>1. Len(remaining) + M * n = L
        BY <3>1
      <4> HIDE DEF L, M, n
      <4>2. M * (n - 1) = M * n - M
        BY <2>1
      <4>3. M * n \in Nat
        BY <2>1
      <4> QED BY <2>1, <4>1, <4>2, <4>3
    <3>2. CASE MaxInPage * (Len(pages) - 1) < Len(Coordinates)
      BY <3>2
    <3> QED BY <3>1, <3>2 DEF IInv, FullPages
  <2>3. NumPages = (1 + q) * P
    BY DEF NumPages, NumFiles
  <2> HIDE DEF L, M, P, n
  <2>4. M * P \in Nat \ {0}
    <3>1. M * P \in Nat /\ M * P >= P
      BY <2>1
    <3> QED BY <2>1, <3>1
  <2>5. q \in Nat /\ L < (M * P) * (q + 1)
    <3> DEFINE w == M * P
    <3>1. w \in Nat \ {0} /\ q = L \div w
      BY <2>4
    <3> HIDE DEF w, q
    <3>2. q \in Nat /\ L < w * (q + 1)
      BY <2>1, <3>1
    <3> QED BY <3>2 DEF w
  <2> HIDE DEF q
  <2>6. (M * P) * (q + 1) = M * ((1 + q) * P) /\ (1 + q) * P \in Nat
    BY <2>1, <2>5
  <2>7. M * (n - 1) < M * ((1 + q) * P)
    <3>1. M * (n - 1) \in Int
      BY <2>1
    <3> QED BY <2>1, <2>2, <2>5, <2>6, <3>1
  <2>8. n - 1 < (1 + q) * P
    <3> DEFINE b == (1 + q) * P
    <3>1. b \in Int /\ M * (n - 1) < M * b /\ n - 1 \in Int
      BY <2>1, <2>6, <2>7
    <3> HIDE DEF b
    <3>2. n - 1 < b
      BY <2>1, <3>1, FactorBelow
    <3> QED BY <3>2 DEF b
  <2> QED BY <2>1, <2>3, <2>6, <2>8 DEF n
<1> QED BY <1>1, SpecIInv, PTL
=============================================================================
