-------------------------- MODULE BatchSearchProofs --------------------------
(***************************************************************************)
(* For any number of workers, any morsel size and any queries: a row that  *)
(* has its answer is not written again.  Morsels are taken by advancing    *)
(* next_morsel, so two workers' morsels are disjoint, and no answered      *)
(* query lies ahead of next_morsel or in what a worker has still to do.    *)
(* What an answer is made of plays no part in it.                          *)
(***************************************************************************)
EXTENDS BatchSearch, PagedVectorsProofs

LEMMA InitIInv == Init => IInv
<1> SUFFICES ASSUME Init
             PROVE  IInv
  OBVIOUS
<1> QED BY DEF Init, IInv, TypeOK

LEMMA AskIInv == IInv /\ Ask => IInv'
<1> SUFFICES ASSUME IInv, Ask
             PROVE  IInv'
  OBVIOUS
<1> USE DEF Ask, IInv, TypeOK
<1>1. queries' \in Seq(Queries)
  <2>1. PICK n \in BatchSizes : queries' \in [1 .. n -> Queries]
    OBVIOUS
  <2>2. n \in Nat
    BY BatchSearchAssumption
  <2>3. Seq(Queries) = UNION {[1 .. m -> Queries] : m \in Nat}
    BY SeqDef
  <2> QED BY <2>1, <2>2, <2>3
<1>2. TypeOK'
  <2>1. result' = [i \in DOMAIN queries' |-> result'[i]]
    OBVIOUS
  <2> QED BY <1>1, <2>1
<1>3. \A t \in Threads : ToDo(t)' = {}
  BY DEF ToDo
<1>4. MorselsDisjoint' /\ AheadUntaken'
  BY <1>3 DEF MorselsDisjoint, AheadUntaken
<1>5. AnsweredOnce'
  <2>1. ASSUME NEW i \in DOMAIN queries'
        PROVE  Own(i)' = {}
    BY DEF Own, Zeros, Zero
  <2> QED BY <2>1 DEF AnsweredOnce, Answered
<1> QED BY <1>2, <1>4, <1>5

LEMMA ReturnIInv == IInv /\ Return => IInv'
  BY DEF IInv, TypeOK, Return

\* While a batch runs.
LEMMA WorkerSearches == ASSUME IInv, NEW t \in Threads, Worker(t)
                        PROVE  phase = "search" /\ phase' = phase
  BY DEF IInv, TypeOK, Worker, FetchMorsel, AnswerQuery, callVars

LEMMA FetchIInv == ASSUME IInv, NEW t \in Threads, FetchMorsel(t) PROVE IInv'
<1> USE DEF FetchMorsel, callVars
<1>0. phase = "search"
  BY WorkerSearches DEF Worker
<1>1. /\ next_morsel \in Nat /\ MaxMorsel \in Nat /\ Step \in Nat \ {0}
      /\ next_morsel' = next_morsel + Step /\ next_morsel' \in Nat
  BY BatchSearchAssumption DEF IInv, TypeOK, MaxMorsel
<1> DEFINE end == Min({MaxMorsel, next_morsel + Step})
<1>2. end \in Nat /\ end <= next_morsel' /\ end <= MaxMorsel /\ (next_morsel < MaxMorsel => next_morsel < end)
  <2>1. MaxMorsel \in Int /\ next_morsel + Step \in Int
    BY <1>1
  <2>2. end = IF MaxMorsel <= next_morsel + Step THEN MaxMorsel ELSE next_morsel + Step
    BY <2>1, MinOfTwo
  <2> QED BY <1>1, <2>2
<1>3. TypeOK'
  BY <1>1, <1>2 DEF IInv, TypeOK
<1>4. /\ \A u \in Threads \ {t} : ToDo(u)' = ToDo(u)
      /\ \A i \in ToDo(t)' : next_morsel <= i
  <2> HIDE DEF end
  <2>1. current' = [current EXCEPT ![t] = next_morsel] /\ limit' = [limit EXCEPT ![t] = end]
    BY DEF end
  <2> QED BY <1>1, <1>2, <2>1 DEF IInv, TypeOK, ToDo
<1>5. \A u \in Threads : \A i \in ToDo(u) : i < next_morsel
  BY <1>0, <1>1 DEF IInv, TypeOK, AheadUntaken, ToDo
<1>6. MorselsDisjoint'
  <2> SUFFICES ASSUME NEW u \in Threads, NEW v \in Threads, u # v
               PROVE  ToDo(u)' \cap ToDo(v)' = {}
    BY DEF MorselsDisjoint
  <2>1. CASE u # t /\ v # t
    BY <1>0, <1>4, <2>1 DEF IInv, MorselsDisjoint
  <2>2. \A w \in Threads \ {t} : ToDo(w)' \cap ToDo(t)' = {}
    <3> SUFFICES ASSUME NEW w \in Threads \ {t}, NEW i \in ToDo(w), i \in ToDo(t)'
                 PROVE  FALSE
      BY <1>4
    <3>1. i \in Int
      BY DEF ToDo, IInv, TypeOK
    <3> QED BY <1>1, <1>4, <1>5, <3>1
  <2> QED BY <2>1, <2>2
<1>7. AheadUntaken'
  <2> HIDE DEF end
  <2>1. current' = [current EXCEPT ![t] = next_morsel] /\ limit' = [limit EXCEPT ![t] = end]
    BY DEF end
  <2>2. MaxMorsel' = MaxMorsel
    BY DEF MaxMorsel
  <2> QED BY <1>0, <1>1, <1>2, <2>1, <2>2 DEF IInv, TypeOK, AheadUntaken
<1>8. AnsweredOnce'
  <2> SUFFICES ASSUME NEW i \in DOMAIN queries, Own(i) # {}
               PROVE  i - 1 < next_morsel' /\ \A u \in Threads : i - 1 \notin ToDo(u)'
    BY DEF AnsweredOnce, Answered, Own
  <2>1. i \in Int
    BY DEF IInv, TypeOK
  <2>2. i - 1 < next_morsel /\ \A u \in Threads : i - 1 \notin ToDo(u)
    BY <1>0 DEF IInv, AnsweredOnce, Answered
  <2> QED BY <1>1, <1>4, <2>1, <2>2
<1> QED BY <1>0, <1>3, <1>6, <1>7, <1>8 DEF IInv

\* AnswerQuery without the answer.
LEMMA AnswerStep ==
  ASSUME NEW t \in Threads, AnswerQuery(t)
  PROVE  /\ wpc[t] = "scan"
         /\ \E row : result' = [result EXCEPT ![current[t] + 1] = row]
         /\ current' = [current EXCEPT ![t] = @ + 1]
         /\ wpc' = [wpc EXCEPT ![t] = IF current[t] + 1 < limit[t] THEN "scan" ELSE "fetch"]
         /\ UNCHANGED <<phase, asked, queries, probe, next_morsel, limit>>
  BY Zenon DEF AnswerQuery, callVars

LEMMA AnswerFacts ==
  ASSUME IInv, NEW t \in Threads, AnswerQuery(t)
  PROVE  /\ \A i \in DOMAIN queries : i # current[t] + 1 => result'[i] = result[i]
         /\ result' = [i \in DOMAIN queries |-> result'[i]]
         /\ ToDo(t)' = ToDo(t) \ {current[t]} /\ current[t] \in ToDo(t)
         /\ \A u \in Threads \ {t} : ToDo(u)' = ToDo(u)
<1>2. phase = "search" /\ TypeOK
  BY WorkerSearches DEF Worker, IInv
<1>3. /\ \A i \in DOMAIN queries : i # current[t] + 1 => result'[i] = result[i]
      /\ result' = [i \in DOMAIN queries |-> result'[i]]
  <2>1. PICK row : result' = [result EXCEPT ![current[t] + 1] = row]
    BY AnswerStep
  <2>2. result = [i \in DOMAIN queries |-> result[i]]
    BY <1>2 DEF TypeOK
  <2> QED BY <2>1, <2>2
<1>4. /\ current[t] \in Nat /\ limit[t] \in Nat /\ current[t] < limit[t] /\ wpc[t] = "scan"
      /\ limit' = limit /\ current'[t] = current[t] + 1
      /\ wpc'[t] = IF current[t] + 1 < limit[t] THEN "scan" ELSE "fetch"
  BY <1>2, AnswerStep DEF IInv, AheadUntaken, TypeOK
<1>5. ToDo(t)' = ToDo(t) \ {current[t]} /\ current[t] \in ToDo(t)
  <2>1. ToDo(t) = current[t] .. limit[t] - 1
    BY <1>4 DEF ToDo
  <2>2. CASE current[t] + 1 < limit[t]
    <3>1. ToDo(t)' = current[t] + 1 .. limit[t] - 1
      BY <1>4, <2>2 DEF ToDo
    <3> QED BY <1>4, <2>1, <3>1
  <2>3. CASE ~(current[t] + 1 < limit[t])
    <3>1. ToDo(t)' = {}
      BY <1>4, <2>3 DEF ToDo
    <3> QED BY <1>4, <2>1, <2>3, <3>1
  <2> QED BY <2>2, <2>3
<1>6. \A u \in Threads \ {t} : ToDo(u)' = ToDo(u)
  BY <1>2, AnswerStep DEF ToDo, TypeOK
<1> QED BY <1>3, <1>5, <1>6

LEMMA AnswerIInv == ASSUME IInv, NEW t \in Threads, AnswerQuery(t) PROVE IInv'
<1>0. phase = "search" /\ phase' = "search" /\ TypeOK
  BY WorkerSearches DEF Worker, IInv
<1>1. TypeOK'
  <2>1. result' = [i \in DOMAIN queries |-> result'[i]] /\ queries' = queries
    BY AnswerFacts, AnswerStep
  <2>2. wpc' \in [Threads -> {"done", "fetch", "scan"}] /\ current' \in [Threads -> Nat]
    <3> DEFINE label == IF current[t] + 1 < limit[t] THEN "scan" ELSE "fetch"
    <3>1. wpc' = [wpc EXCEPT ![t] = label] /\ current' = [current EXCEPT ![t] = @ + 1]
      BY AnswerStep
    <3>2. label \in {"done", "fetch", "scan"} /\ current[t] + 1 \in Nat
      BY <1>0 DEF TypeOK
    <3> QED BY <1>0, <3>1, <3>2 DEF TypeOK
  <2> QED BY <1>0, <2>1, <2>2, AnswerStep DEF TypeOK
<1>2. MorselsDisjoint'
  BY <1>0, AnswerFacts DEF IInv, MorselsDisjoint
<1>3. AheadUntaken'
  BY <1>0, AnswerStep DEF IInv, TypeOK, AheadUntaken, MaxMorsel
<1>4. AnsweredOnce'
  <2> SUFFICES ASSUME NEW i \in DOMAIN queries, Own(i)' # {}
               PROVE  i - 1 < next_morsel /\ \A u \in Threads : i - 1 \notin ToDo(u)'
    BY AnswerStep DEF AnsweredOnce, Answered
  <2>1. i \in Int /\ current[t] \in Nat
    BY <1>0 DEF TypeOK
  <2>2. CASE i = current[t] + 1
    <3>1. i - 1 = current[t]
      BY <2>1, <2>2
    <3>2. current[t] < next_morsel
      BY <1>0, AnswerStep DEF IInv, TypeOK, AheadUntaken
    <3>3. \A u \in Threads : current[t] \notin ToDo(u)'
      BY <1>0, AnswerFacts DEF IInv, MorselsDisjoint
    <3> QED BY <3>1, <3>2, <3>3
  <2>3. CASE i # current[t] + 1
    <3>1. Own(i)' = Own(i)
      BY AnswerFacts, AnswerStep, <2>3 DEF Own
    <3>2. i - 1 < next_morsel /\ \A u \in Threads : i - 1 \notin ToDo(u)
      BY <1>0, <3>1 DEF IInv, AnsweredOnce, Answered
    <3> QED BY <3>2, AnswerFacts
  <2> QED BY <2>2, <2>3
<1>5. asked' > 0
  BY <1>0, AnswerStep DEF IInv
<1> QED BY <1>0, <1>1, <1>2, <1>3, <1>4, <1>5 DEF IInv

LEMMA NextIInv == IInv /\ [Next]_vars => IInv'
<1> SUFFICES ASSUME IInv, [Next]_vars
             PROVE  IInv'
  OBVIOUS
<1>1. CASE UNCHANGED vars
  BY <1>1 DEF vars, MaxMorsel, callVars, IInv, TypeOK, MorselsDisjoint, AheadUntaken, AnsweredOnce, Answered, ToDo, Own
<1>2. CASE Ask
  BY <1>2, AskIInv
<1>3. CASE Return
  BY <1>3, ReturnIInv
<1>4. ASSUME NEW t \in Threads, FetchMorsel(t)
      PROVE  IInv'
  BY <1>4, FetchIInv
<1>5. ASSUME NEW t \in Threads, AnswerQuery(t)
      PROVE  IInv'
  BY <1>5, AnswerIInv
<1> QED BY <1>1, <1>2, <1>3, <1>4, <1>5 DEF Next, Worker

\* execution.cppm:682-733: the workers' morsels are disjoint and behind
\* next_morsel, and no answered query is in one of them.
THEOREM SpecIInv == Spec => []IInv
  BY InitIInv, NextIInv, PTL DEF Spec

LEMMA StepKeepsAnswers ==
  ASSUME IInv, [Next]_vars, phase = "search", NEW i \in DOMAIN queries, Own(i) # {}
  PROVE  result'[i] = result[i]
<1>1. CASE UNCHANGED vars
  BY <1>1 DEF vars
<1>2. CASE Ask
  BY <1>2 DEF Ask
<1>3. CASE Return
  BY <1>3 DEF Return
<1>4. ASSUME NEW t \in Threads, FetchMorsel(t)
      PROVE  result'[i] = result[i]
  BY <1>4 DEF FetchMorsel
<1>5. ASSUME NEW t \in Threads, AnswerQuery(t)
      PROVE  result'[i] = result[i]
  <2>1. i - 1 \notin ToDo(t)
    BY DEF IInv, AnsweredOnce, Answered
  <2>2. i # current[t] + 1
    <3>1. current[t] \in Nat /\ current[t] \in ToDo(t)
      BY <1>5, AnswerFacts DEF IInv, TypeOK
    <3> QED BY <2>1, <3>1
  <2> QED BY <1>5, <2>2, AnswerFacts
<1> QED BY <1>1, <1>2, <1>3, <1>4, <1>5 DEF Next, Worker

\* interface.cppm:148-168: a row of the result that has its answer stays as it is
\* until the batch returns, whichever workers take which queries.
THEOREM SpecRowWrittenOnce == Spec => RowWrittenOnce
<1>1. IInv /\ [Next]_vars =>
        [phase = "search" =>
           \A i \in DOMAIN queries : Own(i) # {} => result'[i] = result[i]]_vars
  BY StepKeepsAnswers
<1> QED BY <1>1, SpecIInv, PTL DEF Spec, RowWrittenOnce

-----------------------------------------------------------------------------
(***************************************************************************)
(* What one query's heap holds after the probed pages.                     *)
(***************************************************************************)
LEMMA ScanPagesDef ==
  ASSUME NEW q \in Queries
  PROVE  /\ ScanPages(q)[0] = {}
         /\ \A i \in 1 .. NumPages :
              ScanPages(q)[i] = ScanPage(ScanPages(q)[i - 1], q, SortedPages[q][i])
<1> DEFINE n == NumPages
           S == SUBSET Entries
           next == [ix \in (1 .. n) \X S |-> ScanPage(ix[2], q, SortedPages[q][ix[1]])]
           IsDef(f) == f = [i \in 0 .. n |-> IF i = 0 THEN {} ELSE ScanPage(f[i - 1], q, SortedPages[q][i])]
<1>1. n \in Nat /\ {} \in S
  BY PagesTyped
<1>2. next \in [(1 .. n) \X S -> S]
  <2>1. \A i \in 1 .. n : \A h \in S : ScanPage(h, q, SortedPages[q][i]) \in S
    BY SortedPagesFacts, ScanPageTyped
  <2> QED BY <2>1
<1>3. PICK f \in [0 .. n -> S] : IsRecursion(f, {}, n, next)
  <2> HIDE DEF next, n, S
  <2> QED BY <1>1, <1>2, RecursionExists
<1>4. IsDef(f)
  <2>1. ASSUME NEW i \in 0 .. n, i # 0
        PROVE  next[<<i, f[i - 1]>>] = ScanPage(f[i - 1], q, SortedPages[q][i])
    <3>1. i \in 1 .. n /\ i - 1 \in 0 .. n
      BY <1>1, <2>1
    <3>2. f[i - 1] \in S
      BY <3>1
    <3> HIDE DEF n, S
    <3> QED BY <3>1, <3>2
  <2> HIDE DEF next, n, S
  <2> QED BY <1>3, <2>1 DEF IsRecursion
<1>5. ScanPages(q) = CHOOSE g : IsDef(g)
  BY DEF ScanPages
<1>6. IsDef(ScanPages(q))
  <2> HIDE DEF IsDef
  <2> QED BY <1>4, <1>5
<1>7. ScanPages(q)[0] = {}
  BY <1>1, <1>6
<1>8. \A i \in 1 .. n : ScanPages(q)[i] = ScanPage(ScanPages(q)[i - 1], q, SortedPages[q][i])
  <2> DEFINE g == ScanPages(q)
             step(i) == ScanPage(g[i - 1], q, SortedPages[q][i])
  <2>1. g = [i \in 0 .. n |-> IF i = 0 THEN {} ELSE step(i)]
    BY <1>6
  <2> HIDE DEF n, g, step
  <2>2. \A i \in 1 .. n : g[i] = step(i)
    BY <1>1, <2>1
  <2> QED BY <2>2 DEF g, step
<1> QED BY <1>7, <1>8

\* By induction on the pages: only vectors of scanned pages, and no vector of
\* them that is not covered.
LEMMA ScanPagesKeep ==
  ASSUME NEW q \in Queries, NEW n \in 0 .. NumPages
  PROVE  LET g == ScanPages(q)[n]
         IN /\ IsHeap(g)
            /\ \A x \in g : \E j \in 1 .. n : x \in Members(q, SortedPages[q][j][2])
            /\ \A j \in 1 .. n : \A x \in Members(q, SortedPages[q][j][2]) : Covers(g, x)
<1> DEFINE g(i) == ScanPages(q)[i]
           page(i) == SortedPages[q][i][2]
           Good(i) == /\ IsHeap(g(i))
                      /\ \A x \in g(i) : \E j \in 1 .. i : x \in Members(q, page(j))
                      /\ \A j \in 1 .. i : \A x \in Members(q, page(j)) : Covers(g(i), x)
           Bad == {i \in 0 .. NumPages : ~Good(i)}
<1>0. NumPages \in Nat
  BY PagesTyped
<1>1. Good(0)
  <2>1. g(0) = {} /\ IsHeap({})
    BY ScanPagesDef, FS_EmptySet, PagedVectorsAssumption DEF IsHeap
  <2> HIDE DEF g
  <2> QED BY <2>1
<1>2. ASSUME NEW i \in 1 .. NumPages, Good(i - 1)
      PROVE  Good(i)
  <2> DEFINE p == page(i)
             old == g(i - 1)
  <2>1. p \in DOMAIN Pages /\ SortedPages[q][i] = AnchorDistance(q, p)
    BY SortedPagesFacts
  <2>2. g(i) = ScanPage(old, q, AnchorDistance(q, p))
    BY <2>1, ScanPagesDef
  <2>3. \A x \in old : x[2][1] # p
    <3> SUFFICES ASSUME NEW x \in old, x[2][1] = p PROVE FALSE
      OBVIOUS
    <3>1. PICK j \in 1 .. i - 1 : x \in Members(q, page(j))
      BY <1>2
    <3>2. j \in 1 .. NumPages /\ j # i
      BY <1>0
    <3>4. page(j) \in DOMAIN Pages /\ (page(j) = page(i) => j = i)
      BY <3>2, SortedPagesFacts
    <3> HIDE DEF page
    <3>3. x[2][1] = page(j)
      BY <3>1, <3>4, MemberTyped DEF Members
    <3> QED BY <3>2, <3>3, <3>4 DEF p
  <2>4. IsHeap(old)
    BY <1>2
  <2> HIDE DEF old, p
  <2>5. /\ IsHeap(g(i)) /\ g(i) \subseteq old \cup Members(q, p) /\ Keeps(old, g(i))
        /\ \A x \in Members(q, p) : Covers(g(i), x)
    BY <2>1, <2>2, <2>3, <2>4, ScanPageKeeps
  <2>6. ASSUME NEW x \in g(i)
        PROVE  \E j \in 1 .. i : x \in Members(q, page(j))
    <3>1. CASE x \in Members(q, p)
      <4>1. i \in 1 .. i
        BY <1>0
      <4> QED BY <3>1, <4>1 DEF p
    <3>2. CASE x \in old
      BY <1>2, <3>2 DEF old
    <3> QED BY <2>5, <3>1, <3>2
  <2>7. ASSUME NEW j \in 1 .. i, NEW x \in Members(q, page(j))
        PROVE  Covers(g(i), x)
    <3>1. CASE j = i
      BY <2>5, <3>1 DEF p
    <3>2. CASE j # i
      <4>1. j \in 1 .. i - 1 /\ j \in 1 .. NumPages
        BY <1>0, <3>2
      <4>2. Covers(old, x)
        BY <1>2, <4>1 DEF old
      <4>3. x \in Entries
        <5>1. page(j) \in DOMAIN Pages
          BY <4>1, SortedPagesFacts
        <5> HIDE DEF page
        <5> QED BY <5>1, MemberTyped DEF Members
      <4> HIDE DEF g
      <4> QED BY <2>5, <4>2, <4>3 DEF Keeps
    <3> QED BY <3>1, <3>2
  <2> QED BY <2>5, <2>6, <2>7
<1>3. Bad = {}
  <2> SUFFICES ASSUME NEW k \in Bad PROVE FALSE
    OBVIOUS
  <2>1. PICK i \in Bad : \A j \in Bad : i <= j
    <3>1. Bad \in SUBSET Nat
      BY <1>0
    <3> HIDE DEF Bad
    <3> QED BY <3>1, Least
  <2>2. i \in 0 .. NumPages /\ ~Good(i)
    OBVIOUS
  <2> HIDE DEF Good
  <2>3. i # 0
    BY <1>1, <2>2
  <2>4. i \in 1 .. NumPages /\ i - 1 \in 0 .. NumPages /\ ~(i <= i - 1)
    BY <1>0, <2>2, <2>3
  <2>5. Good(i - 1)
    BY <2>1, <2>4
  <2> QED BY <1>2, <2>2, <2>4, <2>5
<1> QED BY <1>3

LEMMA HeapForFacts ==
  ASSUME NEW q \in Queries, NEW n \in Probes
  PROVE  /\ IsHeap(HeapFor[q][n]) /\ HeapFor[q][n] \in SUBSET Candidates[q][n]
         /\ \A c \in Candidates[q][n] : Covers(HeapFor[q][n], c)
<1>1. HeapFor[q][n] = ScanPages(q)[NumProbed(n)]
  BY DEF HeapFor
<1>2. NumProbed(n) \in 0 .. NumPages
  BY PagesTyped, NumProbedFacts
<1> DEFINE g == HeapFor[q][n]
<1> HIDE DEF g
<1>3. /\ IsHeap(g)
      /\ \A x \in g : \E j \in 1 .. NumProbed(n) : x \in Members(q, SortedPages[q][j][2])
      /\ \A j \in 1 .. NumProbed(n) : \A x \in Members(q, SortedPages[q][j][2]) : Covers(g, x)
  BY <1>1, <1>2, ScanPagesKeep DEF g
<1>4. g \in SUBSET Candidates[q][n] /\ \A c \in Candidates[q][n] : Covers(g, c)
  BY <1>3, CandidatesFacts
<1> QED BY <1>3, <1>4 DEF g

-----------------------------------------------------------------------------
(***************************************************************************)
(* Two lists without repetition that agree in every distance have the same *)
(* number of entries at each distance.                                     *)
(***************************************************************************)
Listed(f, n) == {f[i] : i \in 1 .. n}
Once(f, n) == \A i, j \in 1 .. n : f[i] = f[j] => i = j
PlacesAt(f, n, d) == {i \in 1 .. n : f[i][1] = d}
CountAt(S, d) == Cardinality({x \in S : x[1] = d})

LEMMA CountAlong ==
  ASSUME NEW n \in Nat, NEW f, Once(f, n), NEW d
  PROVE  CountAt(Listed(f, n), d) = Cardinality(PlacesAt(f, n, d))
<1> DEFINE I == {i \in 1 .. n : f[i][1] = d}
           A == {x \in Listed(f, n) : x[1] = d}
           g == [i \in I |-> f[i]]
<1>1. IsFiniteSet(I)
  <2>1. IsFiniteSet(1 .. n) /\ I \in SUBSET (1 .. n)
    BY FS_Interval
  <2> HIDE DEF I
  <2> QED BY <2>1, FS_Subset
<1>2. g \in [I -> A] /\ \A i, j \in I : g[i] = g[j] => i = j
  BY DEF Listed, Once
<1>3. \A x \in A : \E i \in I : g[i] = x
  BY DEF Listed
<1>4. g \in Bijection(I, A)
  <2> HIDE DEF g, I, A
  <2> QED BY <1>2, <1>3 DEF Bijection, Injection, Surjection, IsInjective
<1> HIDE DEF g, I, A
<1>5. Cardinality(A) = Cardinality(I)
  BY <1>1, <1>4, FS_Bijection DEF ExistsBijection
<1> QED BY <1>5 DEF I, A, CountAt, PlacesAt

LEMMA DistancesAlong ==
  ASSUME NEW n \in Nat, NEW f, NEW g,
         Once(f, n), Once(g, n),
         \A i \in 1 .. n : f[i][1] = g[i][1]
  PROVE  Distances(Listed(f, n)) = Distances(Listed(g, n))
<1> DEFINE D == {x[1] : x \in Listed(f, n)}
<1>1. D = {x[1] : x \in Listed(g, n)}
  BY DEF Listed
<1>2. \A d : CountAt(Listed(f, n), d) = CountAt(Listed(g, n), d)
  <2> TAKE d
  <2>1. PlacesAt(f, n, d) = PlacesAt(g, n, d)
    BY DEF PlacesAt
  <2> QED BY <2>1, CountAlong
<1> DEFINE F(d) == CountAt(Listed(f, n), d)
           G(d) == CountAt(Listed(g, n), d)
<1>3. Distances(Listed(f, n)) = [d \in D |-> F(d)] /\ Distances(Listed(g, n)) = [d \in D |-> G(d)]
  BY <1>1 DEF Distances, CountAt
<1> HIDE DEF D, F, G
<1>4. \A d : F(d) = G(d)
  BY <1>2 DEF F, G
<1> QED BY <1>3, <1>4

\* A sorted set has no entry twice.
LEMMA SortedOnce ==
  ASSUME NEW S \in SUBSET Entries, IsFiniteSet(S)
  PROVE  /\ Len(Sorted(S)) = Cardinality(S) /\ Cardinality(S) \in Nat
         /\ Sorted(S) \in [1 .. Cardinality(S) -> S]
         /\ Listed(Sorted(S), Cardinality(S)) = S
         /\ Once(Sorted(S), Cardinality(S))
<1> DEFINE s == Sorted(S)
           n == Cardinality(S)
<1>1. n \in Nat
  BY FS_CardinalityType
<1>2. /\ s \in [1 .. n -> S]
      /\ \A i \in 1 .. n : Cardinality(SetLessThan(s[i], EntryOrder(S), S)) = i - 1
      /\ \A x \in S : \E i \in 1 .. n : s[i] = x
  BY SortedByDistance DEF Lists
<1> HIDE DEF s, n
<1>3. Once(s, n)
  BY <1>1, <1>2 DEF Once
<1>4. Listed(s, n) = S
  BY <1>2 DEF Listed
<1>5. Len(s) = n
  BY <1>1, <1>2
<1> QED BY <1>1, <1>2, <1>3, <1>4, <1>5 DEF s, n

\* The heap has the distances of the nearest candidates, as many as there are.
LEMMA RowDistances ==
  ASSUME NEW q \in Queries, NEW n \in Probes
  PROVE  LET nearest == Nearest[q][n]
         IN Distances(HeapFor[q][n]) = Distances(ToSet(SubSeq(nearest, 1, Min({K, Len(nearest)}))))
<1> DEFINE C == Candidates[q][n]
           F == HeapFor[q][n]
           m == Cardinality(F)
           k == Min({K, Len(Sorted(C))})
<1>1. /\ IsHeap(F) /\ F \in SUBSET C /\ \A c \in C : Covers(F, c)
      /\ C \in SUBSET Entries /\ IsFiniteSet(C) /\ Nearest[q][n] = Sorted(C)
  BY HeapForFacts, CandidatesFacts DEF Nearest
<1> HIDE DEF C, F
<1>2. /\ Len(Sorted(C)) = Cardinality(C) /\ Cardinality(C) \in Nat /\ Sorted(C) \in [1 .. Cardinality(C) -> C]
      /\ Once(Sorted(C), Cardinality(C))
  BY <1>1, SortedOnce
<1>3. F \in SUBSET Entries /\ IsFiniteSet(F) /\ m \in Nat /\ m <= K /\ m <= Cardinality(C)
  BY <1>1, FS_CardinalityType, FS_Subset DEF IsHeap
<1>4. ASSUME NEW c \in C
      PROVE  c \in F \/ \E D \in SUBSET F : Cardinality(D) = K /\ \A x \in D : x[1] <= c[1]
  BY <1>1 DEF Covers, Dominated
<1>5. ASSUME NEW i \in 1 .. Cardinality(C), i <= K
      PROVE  i \in 1 .. m /\ Sorted(F)[i][1] = Sorted(C)[i][1]
  BY <1>1, <1>4, <1>5, SameDistances
<1>6. k = m
  <2>1. K \in Int /\ Cardinality(C) \in Int
    BY <1>2, PagedVectorsAssumption
  <2>2. k = (IF K <= Cardinality(C) THEN K ELSE Cardinality(C))
    BY <1>2, <2>1, MinOfTwo
  <2> HIDE DEF k
  <2>3. k \in Int /\ k <= K /\ k <= Cardinality(C) /\ m <= k
    BY <1>3, <2>1, <2>2
  <2>4. ASSUME m < k PROVE FALSE
    <3>1. k \in 1 .. Cardinality(C)
      BY <1>3, <2>3, <2>4
    <3>2. k \in 1 .. m
      BY <1>5, <2>3, <3>1
    <3> HIDE DEF m
    <3> QED BY <1>3, <2>4, <3>2
  <2> HIDE DEF m
  <2> QED BY <1>3, <2>3, <2>4
<1>7. ToSet(SubSeq(Sorted(C), 1, m)) = Listed(Sorted(C), m)
  <2> DEFINE s == Sorted(C)
             r == SubSeq(s, 1, m)
  <2> HIDE DEF m
  <2>1. 1 \in Int /\ m \in Int /\ m - 1 + 1 = m /\ \A i \in 1 .. m : s[i] \in C /\ 1 + i - 1 = i
    BY <1>2, <1>3 DEF m
  <2> HIDE DEF s
  <2>2. /\ r \in Seq(C) /\ Len(r) = (IF 1 <= m THEN m - 1 + 1 ELSE 0)
        /\ \A i \in 1 .. m - 1 + 1 : r[i] = s[1 + i - 1]
    BY <2>1, SubSeqProperties
  <2> HIDE DEF r
  <2>3. DOMAIN r = 1 .. m /\ \A i \in 1 .. m : r[i] = s[i]
    BY <1>3, <2>1, <2>2 DEF m
  <2>4. ToSet(r) = Listed(s, m)
    BY <2>3 DEF ToSet, Listed
  <2> QED BY <2>4 DEF r, s
<1>8. F = Listed(Sorted(F), m) /\ Once(Sorted(F), m) /\ Once(Sorted(C), m)
  <2>1. F = Listed(Sorted(F), m) /\ Once(Sorted(F), m)
    BY <1>3, SortedOnce
  <2>2. \A i \in 1 .. m : i \in 1 .. Cardinality(C)
    BY <1>2, <1>3
  <2>3. Once(Sorted(C), m)
    BY <1>2, <2>2 DEF Once
  <2> QED BY <2>1, <2>3
<1>9. \A i \in 1 .. m : Sorted(F)[i][1] = Sorted(C)[i][1]
  <2> TAKE i \in 1 .. m
  <2>1. i \in 1 .. Cardinality(C) /\ i <= K
    BY <1>2, <1>3, PagedVectorsAssumption
  <2> QED BY <1>5, <2>1
<1> HIDE DEF m, k
<1>10. Distances(Listed(Sorted(F), m)) = Distances(Listed(Sorted(C), m))
  BY <1>3, <1>8, <1>9, DistancesAlong DEF m
<1>11. Distances(F) = Distances(ToSet(SubSeq(Sorted(C), 1, k)))
  BY <1>6, <1>7, <1>8, <1>10
<1> QED BY <1>1, <1>11 DEF F, k

-----------------------------------------------------------------------------
(***************************************************************************)
(* The answers: what is left in a heap's memory is of answered queries.    *)
(***************************************************************************)
Slots == [entry : Entries, query : Nat \X Nat]

LEMMA InitRInv == Init => RInv
<1> SUFFICES ASSUME Init PROVE RInv
  OBVIOUS
<1>1. \A i \in 1 .. K : Zero(i) \in Slots /\ Zero(i).query = <<0, 0>>
  BY PagedVectorsAssumption DEF Zero, Slots, Entries
<1>2. \A x \in Zeros : x \in Slots /\ x.query[1] = asked /\ asked = 0
  BY <1>1 DEF Init, Zeros
<1>3. memory \in [Threads -> SUBSET Slots] /\ MemoryOlder
  BY <1>2 DEF Init, MemoryOlder
<1>4. MaxMorsel = 0 /\ DOMAIN queries = {}
  BY DEF Init, MaxMorsel
<1>5. DoneWhenTaken /\ AnswersRight
  BY <1>4 DEF Init, DoneWhenTaken, AnswersRight
<1> QED BY <1>3, <1>5, InitIInv DEF Init, RInv, Slots

LEMMA AskRInv == RInv /\ Ask => RInv'
<1> SUFFICES ASSUME RInv, Ask PROVE RInv'
  OBVIOUS
<1>1. IInv' /\ IInv
  BY AskIInv DEF RInv
<1>2. probe' \in Probes /\ memory' = memory /\ asked' = asked + 1 /\ asked \in Nat /\ next_morsel' = 0
      /\ \A t \in Threads : wpc'[t] = "fetch"
  BY <1>1 DEF Ask, IInv, TypeOK
<1>3. MemoryOlder'
  <2> SUFFICES ASSUME NEW t \in Threads, NEW x \in memory[t] PROVE x.query[1] < asked'
    BY <1>2 DEF MemoryOlder
  <2>1. x.query[1] \in Nat
    BY DEF RInv
  <2>2. x.query[1] < asked \/ x.query[1] = asked
    BY DEF RInv, MemoryOlder
  <2> QED BY <1>2, <2>1, <2>2
<1>4. DoneWhenTaken'
  BY <1>2 DEF DoneWhenTaken
<1>5. AnswersRight'
  <2> SUFFICES ASSUME NEW i \in DOMAIN queries', Answered(i)' PROVE FALSE
    BY DEF AnswersRight
  <2>1. i \in Int /\ i >= 1
    BY <1>1 DEF IInv, TypeOK
  <2> QED BY <1>2, <2>1 DEF Answered
<1> QED BY <1>1, <1>2, <1>3, <1>4, <1>5 DEF RInv

LEMMA ReturnRInv == RInv /\ Return => RInv'
<1> SUFFICES ASSUME RInv, Return PROVE RInv'
  OBVIOUS
<1>1. IInv'
  BY ReturnIInv DEF RInv
<1> QED BY <1>1 DEF RInv, Return, MemoryOlder, DoneWhenTaken, AnswersRight, Answered, ToDo, Own, MaxMorsel

\* Taking a morsel answers nothing.
LEMMA FetchRInv == ASSUME RInv, NEW t \in Threads, FetchMorsel(t) PROVE RInv'
<1>0. IInv /\ IInv' /\ TypeOK /\ phase = "search"
  BY FetchIInv, WorkerSearches DEF RInv, IInv, Worker
<1>1. /\ next_morsel \in Nat /\ MaxMorsel \in Nat /\ Step \in Nat \ {0} /\ MaxMorsel' = MaxMorsel
      /\ next_morsel' = next_morsel + Step /\ DOMAIN queries = 1 .. MaxMorsel
      /\ UNCHANGED <<phase, asked, queries, probe, result, memory>>
  BY <1>0, BatchSearchAssumption DEF TypeOK, MaxMorsel, FetchMorsel, callVars
<1> DEFINE end == Min({MaxMorsel, next_morsel + Step})
<1>2. end \in Nat /\ end = IF MaxMorsel <= next_morsel + Step THEN MaxMorsel ELSE next_morsel + Step
  <2>1. MaxMorsel \in Int /\ next_morsel + Step \in Int
    BY <1>1
  <2>2. end = IF MaxMorsel <= next_morsel + Step THEN MaxMorsel ELSE next_morsel + Step
    BY <2>1, MinOfTwo
  <2> QED BY <1>1, <2>2
<1>3. /\ \A u \in Threads \ {t} : ToDo(u)' = ToDo(u)
      /\ ToDo(t)' = next_morsel .. end - 1 /\ ToDo(t) = {}
  <2> HIDE DEF end
  <2>1. /\ wpc[t] = "fetch" /\ wpc' = [wpc EXCEPT ![t] = IF next_morsel >= MaxMorsel THEN "done" ELSE "scan"]
        /\ current' = [current EXCEPT ![t] = next_morsel] /\ limit' = [limit EXCEPT ![t] = end]
    BY DEF end, FetchMorsel
  <2>2. \A u \in Threads \ {t} : ToDo(u)' = ToDo(u)
    BY <1>0, <2>1 DEF TypeOK, ToDo
  <2>3. ToDo(t) = {} /\ (next_morsel < MaxMorsel => ToDo(t)' = next_morsel .. end - 1)
    BY <1>0, <1>1, <2>1 DEF TypeOK, ToDo
  <2>4. next_morsel >= MaxMorsel => ToDo(t)' = {} /\ next_morsel .. end - 1 = {}
    BY <1>0, <1>1, <1>2, <2>1 DEF TypeOK, ToDo
  <2>5. next_morsel < MaxMorsel \/ next_morsel >= MaxMorsel
    BY <1>1
  <2>6. ToDo(t)' = next_morsel .. end - 1
    BY <2>3, <2>4, <2>5
  <2> QED BY <2>2, <2>3, <2>6
<1> HIDE DEF end
<1>4. ASSUME NEW i \in Nat, Answered(i) PROVE Answered(i)'
  BY <1>1, <1>2, <1>3, <1>4 DEF Answered
<1>5. ASSUME NEW i \in DOMAIN queries, Answered(i)' PROVE Answered(i)
  <2>1. i \in Nat /\ i <= MaxMorsel /\ i - 1 < next_morsel'
        /\ \A u \in Threads : i - 1 \notin ToDo(u)'
    BY <1>1, <1>5 DEF Answered
  <2>2. i - 1 < next_morsel
    BY <1>1, <1>2, <1>3, <2>1
  <2> QED BY <1>3, <2>1, <2>2 DEF Answered
<1>6. MemoryOlder'
  <2> SUFFICES ASSUME NEW u \in Threads, NEW x \in memory[u]
               PROVE  x.query[1] < asked \/ (x.query[1] = asked /\ (asked = 0 \/ Answered(x.query[2])'))
    BY <1>1 DEF MemoryOlder
  <2>1. x.query[2] \in Nat
    BY DEF RInv
  <2>2. x.query[1] < asked \/ (x.query[1] = asked /\ (asked = 0 \/ Answered(x.query[2])))
    BY DEF RInv, MemoryOlder
  <2> QED BY <1>4, <2>1, <2>2
<1>7. DoneWhenTaken'
  <2> SUFFICES ASSUME NEW u \in Threads, wpc'[u] = "done" PROVE next_morsel' >= MaxMorsel
    BY <1>1 DEF DoneWhenTaken
  <2>1. next_morsel >= MaxMorsel
    BY <1>0 DEF TypeOK, RInv, DoneWhenTaken, FetchMorsel
  <2> QED BY <1>1, <2>1
<1>8. AnswersRight'
  BY <1>1, <1>5 DEF RInv, AnswersRight, Own
<1> QED BY <1>0, <1>1, <1>6, <1>7, <1>8 DEF RInv

LEMMA AnswerRInv == ASSUME RInv, NEW t \in Threads, AnswerQuery(t) PROVE RInv'
<1> DEFINE c == current[t]
           i == c + 1
           answer == HeapFor[queries[i]][probe]
           found == {Tagged(e, i) : e \in answer}
<1>0. IInv /\ IInv' /\ TypeOK /\ phase = "search" /\ asked > 0 /\ probe \in Probes
  BY AnswerIInv, WorkerSearches DEF RInv, IInv, Worker
<1>1. /\ c \in Nat /\ asked \in Nat /\ wpc[t] = "scan" /\ c \in ToDo(t) /\ c < next_morsel
      /\ ToDo(t)' = ToDo(t) \ {c} /\ \A u \in Threads \ {t} : ToDo(u)' = ToDo(u) /\ c \notin ToDo(u)
      /\ UNCHANGED <<phase, asked, queries, probe, next_morsel>>
  BY <1>0, AnswerFacts, AnswerStep DEF IInv, TypeOK, AheadUntaken, MorselsDisjoint
<1>2. PICK tail \in kSubset(K - Cardinality(found), memory[t]) :
        /\ memory' = [memory EXCEPT ![t] = found \cup tail]
        /\ result' = [result EXCEPT ![i] = found \cup tail]
  BY DEF AnswerQuery
<1>3. tail \in SUBSET memory[t] /\ memory \in [Threads -> SUBSET Slots]
  BY DEF kSubset, RInv, Slots
<1>4. ASSUME NEW x \in tail PROVE x.query # <<asked, i>>
  <2> SUFFICES ASSUME x.query = <<asked, i>> PROVE FALSE
    OBVIOUS
  <2>1. x \in memory[t] /\ x.query[1] = asked /\ x.query[2] = i /\ i - 1 = c
    BY <1>1, <1>3
  <2>2. Answered(i)
    BY <1>0, <1>1, <2>1 DEF RInv, MemoryOlder
  <2> QED BY <1>1, <2>1, <2>2 DEF Answered
<1>5. \A x \in found : x.query = <<asked, i>> /\ x.entry \in answer
  BY DEF Tagged
<1>6. {x.entry : x \in found} = answer
  <2> DEFINE entries == {x.entry : x \in found}
  <2>1. \A e : Tagged(e, i).entry = e
    BY DEF Tagged
  <2> HIDE DEF i, answer
  <2>2. ASSUME NEW e \in answer PROVE e \in entries
    <3>1. Tagged(e, i) \in found
      OBVIOUS
    <3> HIDE DEF found
    <3> QED BY <2>1, <3>1
  <2>3. ASSUME NEW e \in entries PROVE e \in answer
    BY <2>1
  <2> HIDE DEF entries
  <2>4. entries = answer
    BY <2>2, <2>3
  <2> QED BY <2>4 DEF entries
<1>7. \A j \in Nat : Answered(j)' <=> Answered(j) \/ j = i
  <2> TAKE j \in Nat
  <2>1. j = i <=> j - 1 = c
    BY <1>1
  <2>2. CASE j = i
    BY <1>1, <2>1, <2>2 DEF Answered
  <2>3. CASE j # i
    <3>1. \A u \in Threads : j - 1 \in ToDo(u)' <=> j - 1 \in ToDo(u)
      BY <1>1, <2>1, <2>3
    <3> QED BY <1>1, <2>3, <3>1 DEF Answered
  <2> QED BY <2>2, <2>3
<1> HIDE DEF found, answer, c
<1>8. MemoryOlder'
  <2> SUFFICES ASSUME NEW u \in Threads, NEW x \in memory'[u]
               PROVE  x.query[1] < asked \/ (x.query[1] = asked /\ (asked = 0 \/ Answered(x.query[2])'))
    BY <1>1 DEF MemoryOlder
  <2>1. CASE x \in found
    <3>1. x.query[1] = asked /\ x.query[2] = i /\ i \in Nat
      BY <1>1, <1>5, <2>1
    <3> QED BY <1>7, <3>1
  <2>2. CASE x \in memory[u]
    <3>1. x.query[2] \in Nat
      BY <1>3, <2>2 DEF Slots
    <3>2. x.query[1] < asked \/ (x.query[1] = asked /\ (asked = 0 \/ Answered(x.query[2])))
      BY <2>2 DEF RInv, MemoryOlder
    <3> QED BY <1>7, <3>1, <3>2
  <2> QED BY <1>2, <1>3, <2>1, <2>2
<1>9. memory' \in [Threads -> SUBSET Slots]
  <2>1. i \in DOMAIN queries => queries[i] \in Queries
    BY <1>0 DEF TypeOK
  <2>2. i \in DOMAIN queries
    <3>1. /\ limit[t] <= MaxMorsel /\ c < limit[t] /\ limit[t] \in Nat
          /\ MaxMorsel \in Nat /\ DOMAIN queries = 1 .. MaxMorsel
      BY <1>0, <1>1 DEF IInv, TypeOK, AheadUntaken, MaxMorsel, c
    <3> QED BY <1>1, <3>1
  <2>3. IsHeap(answer)
    BY <1>0, <2>1, <2>2, HeapForFacts DEF answer
  <2>4. <<asked, i>> \in Nat \X Nat
    BY <1>1
  <2>5. found \in SUBSET Slots
    BY <2>3, <2>4 DEF found, Tagged, Slots, IsHeap
  <2> QED BY <1>2, <1>3, <2>5
<1>10. DoneWhenTaken'
  <2>1. \A u \in Threads : wpc'[u] = "done" => wpc[u] = "done"
    BY <1>0, AnswerStep DEF TypeOK
  <2> QED BY <1>1, <2>1 DEF RInv, DoneWhenTaken, MaxMorsel
<1>11. AnswersRight'
  <2> SUFFICES ASSUME NEW j \in DOMAIN queries, Answered(j)'
               PROVE  {x.entry : x \in Own(j)'} = HeapFor[queries[j]][probe]
    BY <1>1 DEF AnswersRight
  <2>1. j \in Nat /\ j \in DOMAIN result /\ DOMAIN result = DOMAIN queries
    BY <1>0 DEF TypeOK
  <2>2. CASE j = i
    <3>1. result'[j] = found \cup tail
      BY <1>2, <2>1, <2>2
    <3>2. Own(j)' = found
      BY <1>1, <1>4, <1>5, <2>2, <3>1 DEF Own
    <3> QED BY <1>6, <2>2, <3>2 DEF answer
  <2>3. CASE j # i
    <3>1. result'[j] = result[j]
      BY <1>2, <2>1, <2>3
    <3>2. Own(j)' = Own(j)
      BY <1>1, <3>1 DEF Own
    <3> QED BY <1>7, <2>1, <2>3, <3>2 DEF RInv, AnswersRight
  <2> QED BY <2>2, <2>3
<1> QED BY <1>0, <1>1, <1>8, <1>9, <1>10, <1>11 DEF RInv, Slots

LEMMA NextRInv == RInv /\ [Next]_vars => RInv'
<1> SUFFICES ASSUME RInv, [Next]_vars PROVE RInv'
  OBVIOUS
<1>1. CASE UNCHANGED vars
  <2>1. IInv'
    BY <1>1, NextIInv DEF RInv
  <2> QED BY <1>1, <2>1 DEF vars, callVars, RInv, MemoryOlder, DoneWhenTaken, AnswersRight,
                            Answered, ToDo, Own, MaxMorsel
<1>2. CASE Ask
  BY <1>2, AskRInv
<1>3. CASE Return
  BY <1>3, ReturnRInv
<1>4. ASSUME NEW t \in Threads, FetchMorsel(t)
      PROVE  RInv'
  BY <1>4, FetchRInv
<1>5. ASSUME NEW t \in Threads, AnswerQuery(t)
      PROVE  RInv'
  BY <1>5, AnswerRInv
<1> QED BY <1>1, <1>2, <1>3, <1>4, <1>5 DEF Next, Worker

\* execution.cppm:737-817: what a heap's memory keeps of another query carries that
\* query's tag, and an answered query's own entries are the heap its pages give.
THEOREM SpecRInv == Spec => []RInv
  BY InitRInv, NextRInv, PTL DEF Spec

\* interface.cppm:138-170: each row of a batch holds the K nearest of the probed
\* pages' vectors, whichever worker answered it and whatever its heap held before.
THEOREM SpecRowsExact == Spec => []RowsExact
<1>1. RInv => RowsExact
  <2> SUFFICES ASSUME RInv, phase = "idle", NEW i \in DOMAIN queries
               PROVE  LET nearest == Nearest[queries[i]][probe]
                          found == {x.entry : x \in Own(i)}
                      IN /\ found \subseteq Candidates[queries[i]][probe]
                         /\ Distances(found) = Distances(ToSet(SubSeq(nearest, 1, Min({K, Len(nearest)}))))
    BY DEF RowsExact
  <2>1. queries[i] \in Queries /\ probe \in Probes /\ i \in 1 .. MaxMorsel /\ MaxMorsel \in Nat
        /\ next_morsel \in Nat
    BY DEF RInv, IInv, TypeOK, MaxMorsel
  <2>2. \A t \in Threads : wpc[t] = "done"
    BY DEF RInv, IInv
  <2>3. \E t \in Threads : TRUE
    BY BatchSearchAssumption DEF Threads
  <2>4. next_morsel >= MaxMorsel
    BY <2>2, <2>3 DEF RInv, DoneWhenTaken
  <2>5. Answered(i)
    BY <2>1, <2>2, <2>4 DEF Answered, ToDo
  <2>6. {x.entry : x \in Own(i)} = HeapFor[queries[i]][probe]
    BY <2>5 DEF RInv, AnswersRight
  <2> QED BY <2>1, <2>6, HeapForFacts, RowDistances
<1> QED BY <1>1, SpecRInv, PTL
=============================================================================
