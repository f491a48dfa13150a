---------------------------- MODULE VectorStore ----------------------------
(***************************************************************************)
(* One SpheresDB database under insert_a_vector: the pages in the mapped   *)
(* files, the caches of the Database object beside them, and what a close, *)
(* a load or a crash of the process leaves.                                *)
(*                                                                         *)
(* insert_a_vector is one thread that calls itself with the vector it      *)
(* evicts; a step here is one of its cases.  Cases that first write the    *)
(* page and then its max_dist are two steps, since the pages are shared    *)
(* mappings: whatever was written before a crash is in the file.           *)
(* A vector is an integer coordinate that also serves as its id.           *)
(***************************************************************************)
EXTENDS PageBound, FiniteSets, SequencesExt

CONSTANTS
  Vectors,              \* the vectors a client may insert, each once
  PagesPerFile,         \* file_size / page_size
  Capacity,             \* max_num_vectors_per_page
  MaxNumVectors,        \* what Capacity times in_page_vector_density, rounded down, may be
  Ghost,                \* the vector that a slot of a new file decodes to: all zero
  MaxFiles,             \* bound: files ever created
  MaxCloses,            \* bound: closes in one behaviour
  MaxCrashes,           \* bound: crashes in one behaviour
  QueryFirst            \* clients insert only the vector they have just searched for

ASSUME VectorStoreAssumption ==
  /\ Vectors \subseteq Int /\ Ghost \in Int \ Vectors
  /\ PagesPerFile \in Nat \ {0} /\ MaxFiles \in Nat \ {0}
  /\ Capacity \in Nat \ {0, 1} /\ MaxNumVectors \subseteq 0 .. Capacity
  /\ MaxCloses \in Nat /\ MaxCrashes \in Nat /\ QueryFirst \in BOOLEAN

VARIABLES
  pages,                \* page index -> its vectors (anchor first), its max_dist, and
                        \* what the slot after the last vector holds, if there is one
  n_files,              \* db_storage.n_files
  saved_n_files,        \* n_files in the config file
  cached_vectors,       \* page index -> cached anchor
  cached_max_dists,     \* non-empty page -> max_dist, as last cached
  dist_to_anchor_buffer,\* pairs <<distance, page>> of the last search
  queried,              \* vectors whose search left the current buffer: at most one
  pc,                   \* "closed", "ready", "insert", "setMax", "overrun"
  current,              \* the argument of insert_a_vector
  max_num_vectors,      \* what its in_page_vector_density makes of Capacity
  victim,               \* vectors evicted and not yet inserted again: at most one
  target,               \* the page whose max_dist is to be recomputed
  inserted,             \* history: all vectors clients have inserted
  exposed,              \* history: vectors a crash, or an insert after it, may have lost
  closes, crashes       \* how often so far

storageVars == <<pages, n_files, saved_n_files>>
cacheVars == <<cached_vectors, cached_max_dists>>
callVars == <<current, max_num_vectors, victim, target>>
historyVars == <<inserted, exposed, closes, crashes>>
vars == <<storageVars, cacheVars, dist_to_anchor_buffer, queried, pc, callVars, historyVars>>

AllPages == 0 .. MaxFiles * PagesPerFile - 1
NumPages == n_files * PagesPerFile
LoadedPages == 0 .. NumPages - 1
SavedPages == 0 .. saved_n_files * PagesPerFile - 1
EmptyPage == [vectors |-> <<>>, max_dist |-> 0, next_slot |-> Ghost]

(***************************************************************************)
(* Page and cache helpers.                                                 *)
(***************************************************************************)
n_vectors(p) == Len(pages[p].vectors)

NewMaxDist(vs) == Max({0} \cup {SquaredL2(vs[i], vs[1]) : i \in 2 .. Len(vs)})

\* Behind the last slot of a full page there is none; Overrun is what reads there.
append_new_vector(p, v) ==
  [pages EXCEPT ![p].vectors = Append(@, v), ![p].next_slot = Ghost]

\* update_anchor_cache: the slots of empty pages keep what they held.
AnchorsOf(ps, n, old) ==
  [p \in 0 .. n - 1 |-> IF ps[p].vectors # <<>> THEN ps[p].vectors[1]
                        ELSE IF p \in DOMAIN old THEN old[p] ELSE 0]

\* update_cached_max_dist
MaxDistsOf(ps, n) ==
  [p \in {p \in 0 .. n - 1 : ps[p].vectors # <<>>} |-> ps[p].max_dist]

UpdateCaches ==
  /\ cached_vectors' = AnchorsOf(pages', n_files' * PagesPerFile, cached_vectors)
  /\ cached_max_dists' = MaxDistsOf(pages', n_files' * PagesPerFile)

\* fill_dist_to_anchor_buffer for vector v; only the sorted buffer's head matters.
Distances(v, anchors, dists) == {<<SquaredL2(v, anchors[p]), p>> : p \in DOMAIN dists}

Best == CHOOSE x \in dist_to_anchor_buffer : \A y \in dist_to_anchor_buffer :
          x[1] < y[1] \/ (x[1] = y[1] /\ x[2] <= y[2])

\* find_victim: the first member at max_dist, one past the last if there is none
VictimIndex(p) ==
  LET vs == pages[p].vectors
  IN Min({Len(vs) + 1} \cup {i \in 2 .. Len(vs) : SquaredL2(vs[i], vs[1]) = pages[p].max_dist})

TypeOK ==
  /\ DOMAIN pages = AllPages
  /\ \A p \in AllPages : /\ pages[p].max_dist \in Nat
                          /\ ToSet(pages[p].vectors) \subseteq Vectors \cup {Ghost}
                          /\ n_vectors(p) <= Capacity
  /\ n_files \in 0 .. MaxFiles /\ saved_n_files \in 1 .. MaxFiles
  /\ DOMAIN cached_max_dists \subseteq AllPages
  /\ queried \subseteq Vectors /\ victim \subseteq Vectors \cup {Ghost}
  /\ pc \in {"closed", "ready", "insert", "setMax", "overrun"}
  /\ target \in AllPages
  /\ inserted \subseteq Vectors /\ exposed \subseteq Vectors \cup {Ghost}

\* create_database: one file of empty pages, a config that says so, no caches.
Init ==
  /\ pages = [p \in AllPages |-> EmptyPage]
  /\ n_files = 1 /\ saved_n_files = 1
  /\ cached_vectors = [p \in 0 .. PagesPerFile - 1 |-> 0]
  /\ cached_max_dists = [p \in {} |-> 0]
  /\ dist_to_anchor_buffer = {} /\ queried = {}
  /\ pc = "ready" /\ current = (CHOOSE v \in Vectors : TRUE) /\ victim = {} /\ target = 0
  /\ max_num_vectors = Capacity
  /\ inserted = {} /\ exposed = {} /\ closes = 0 /\ crashes = 0

(***************************************************************************)
(* The client's calls.                                                     *)
(***************************************************************************)

\* find_k_nearest leaves the distances of its query in the buffer.
Query(v) ==
  /\ pc = "ready"
  /\ dist_to_anchor_buffer' = Distances(v, cached_vectors, cached_max_dists)
  /\ queried' = {v}
  /\ UNCHANGED <<storageVars, cacheVars, pc, callVars, historyVars>>

Insert(v) ==
  /\ pc = "ready"
  /\ v \notin inserted
  /\ QueryFirst => v \in queried
  /\ pc' = "insert" /\ current' = v /\ max_num_vectors' \in MaxNumVectors
  /\ inserted' = inserted \cup {v}
  /\ UNCHANGED <<storageVars, cacheVars, dist_to_anchor_buffer, queried, victim, target,
                 exposed, closes, crashes>>

(***************************************************************************)
(* The cases of insert_a_vector.  Cases 5 and 6 cover all that 1 to 4      *)
(* leave, so the code of cases 7 and 8 is never reached.  An evicted       *)
(* vector goes in with the density of the call that evicts it.             *)
(***************************************************************************)
Done ==
  /\ pc' = "ready" /\ victim' = {}
  /\ queried' = {}
  /\ UNCHANGED <<dist_to_anchor_buffer, current, max_num_vectors, target, saved_n_files, historyVars>>

Case1 ==
  /\ pc = "insert"
  /\ dist_to_anchor_buffer = {} /\ n_vectors(0) < Capacity
  /\ pages' = append_new_vector(0, current)
  /\ UNCHANGED n_files
  /\ UpdateCaches
  /\ Done

\* The page is written now, its max_dist in SetMax.
Case2 ==
  /\ pc = "insert"
  /\ dist_to_anchor_buffer # {}
  /\ n_vectors(Best[2]) = 1
  /\ pages' = append_new_vector(Best[2], current)
  /\ pc' = "setMax" /\ target' = Best[2] /\ victim' = {}
  /\ UNCHANGED <<n_files, saved_n_files, cacheVars, dist_to_anchor_buffer, queried, current,
                 max_num_vectors, historyVars>>

\* The buffer has a best page that holds more than its anchor.
Crowded == pc = "insert" /\ dist_to_anchor_buffer # {} /\ n_vectors(Best[2]) # 1

\* Faulty: a vector at the radius counts as inside.
InsideOrAt == Best[1] <= pages[Best[2]].max_dist

Inside == Best[1] < pages[Best[2]].max_dist

\* Faulty: off by one, the page takes one vector too many.
Case3OneMore ==
  /\ Crowded /\ Inside
  /\ n_vectors(Best[2]) <= max_num_vectors
  /\ pages' = append_new_vector(Best[2], current)
  /\ UNCHANGED <<n_files, cacheVars>>
  /\ Done

Case3 ==
  /\ Crowded /\ Inside
  /\ n_vectors(Best[2]) + 1 <= max_num_vectors
  /\ pages' = append_new_vector(Best[2], current)
  /\ UNCHANGED <<n_files, cacheVars>>
  /\ Done

Overfull == Crowded /\ Inside /\ n_vectors(Best[2]) + 1 > max_num_vectors

\* Faulty: the victim is not inserted again.
Case4DropsVictim ==
  /\ Overfull
  /\ LET p == Best[2]
         i == VictimIndex(p)
     IN \/ /\ i <= n_vectors(p)
           /\ victim' = {}
           /\ pages' = [pages EXCEPT ![p].vectors[i] = current]
           /\ UNCHANGED exposed
        \/ /\ i \in n_vectors(p) + 1 .. Capacity
           /\ victim' = {pages[p].next_slot}
           /\ pages' = [pages EXCEPT ![p].next_slot = current]
           /\ exposed' = exposed \cup {current}
  /\ pc' = "setMax" /\ target' = Best[2]
  /\ UNCHANGED <<n_files, saved_n_files, cacheVars, dist_to_anchor_buffer, queried, current,
                 max_num_vectors, inserted, closes, crashes>>

\* The victim's slot takes the new vector.  Without a victim that is the slot after
\* the last one, if the page has one: the new vector is not counted there, and what
\* the slot held goes on as the victim.
Case4 ==
  /\ Overfull
  /\ LET p == Best[2]
         i == VictimIndex(p)
     IN \/ /\ i <= n_vectors(p)
           /\ victim' = {pages[p].vectors[i]}
           /\ pages' = [pages EXCEPT ![p].vectors[i] = current]
           /\ UNCHANGED exposed
        \/ /\ i \in n_vectors(p) + 1 .. Capacity
           /\ victim' = {pages[p].next_slot}
           /\ pages' = [pages EXCEPT ![p].next_slot = current]
           /\ exposed' = exposed \cup {current}
  /\ pc' = "setMax" /\ target' = Best[2]
  /\ UNCHANGED <<n_files, saved_n_files, cacheVars, dist_to_anchor_buffer, queried, current,
                 max_num_vectors, inserted, closes, crashes>>

\* The slot of case 1, and of case 4 when that is behind the last vector.
SlotWritten ==
  IF dist_to_anchor_buffer = {} THEN n_vectors(0) + 1
  ELSE IF Overfull THEN VictimIndex(Best[2]) ELSE 1

\* The slot is behind those of the page: its id lies on the anchor's coordinates, its
\* vector on the header of the next page, or behind the mapping.  What the files
\* hold, and what the call then takes for its victim, is not followed from here.
Overrun ==
  /\ pc = "insert" /\ SlotWritten > Capacity
  /\ pc' = "overrun" /\ victim' = {} /\ queried' = {}
  /\ UNCHANGED <<storageVars, cacheVars, dist_to_anchor_buffer, current, max_num_vectors, target,
                 historyVars>>

\* Faulty: the stored radius never shrinks.
SetMaxGrows ==
  /\ pc = "setMax"
  /\ pages' = [pages EXCEPT ![target].max_dist = Max({@, NewMaxDist(pages[target].vectors)})]
  /\ UNCHANGED <<n_files, cached_vectors, saved_n_files>>
  /\ cached_max_dists' = MaxDistsOf(pages', NumPages)
  /\ \/ /\ victim = {}
        /\ pc' = "ready" /\ queried' = {}
        /\ UNCHANGED <<dist_to_anchor_buffer, current>>
     \/ \E v \in victim :
        /\ pc' = "insert" /\ current' = v
        /\ dist_to_anchor_buffer' = Distances(v, cached_vectors, cached_max_dists')
        /\ UNCHANGED queried
  /\ UNCHANGED <<victim, target, max_num_vectors, historyVars>>

\* Faulty: the victim goes on with the distances of the vector before it.
SetMaxOldDistances ==
  /\ pc = "setMax"
  /\ pages' = [pages EXCEPT ![target].max_dist = NewMaxDist(pages[target].vectors)]
  /\ UNCHANGED <<n_files, cached_vectors, saved_n_files>>
  /\ cached_max_dists' = MaxDistsOf(pages', NumPages)
  /\ \/ /\ victim = {}
        /\ pc' = "ready" /\ queried' = {}
        /\ UNCHANGED <<dist_to_anchor_buffer, current>>
     \/ \E v \in victim :
        /\ pc' = "insert" /\ current' = v
        /\ UNCHANGED dist_to_anchor_buffer
        /\ UNCHANGED queried
  /\ UNCHANGED <<victim, target, max_num_vectors, historyVars>>

\* Second half of cases 2 and 4; case 4 goes on with the victim as the argument
\* and the victim's distances in the buffer.
SetMax ==
  /\ pc = "setMax"
  /\ pages' = [pages EXCEPT ![target].max_dist = NewMaxDist(pages[target].vectors)]
  /\ UNCHANGED <<n_files, cached_vectors, saved_n_files>>
  /\ cached_max_dists' = MaxDistsOf(pages', NumPages)
  /\ \/ /\ victim = {}
        /\ pc' = "ready" /\ queried' = {}
        /\ UNCHANGED <<dist_to_anchor_buffer, current>>
     \/ \E v \in victim :
        /\ pc' = "insert" /\ current' = v
        /\ dist_to_anchor_buffer' = Distances(v, cached_vectors, cached_max_dists')
        /\ UNCHANGED queried
  /\ UNCHANGED <<victim, target, max_num_vectors, historyVars>>

\* Faulty: the caches are not refreshed.
Case5StaleCaches ==
  /\ Crowded /\ ~Inside
  /\ Cardinality(DOMAIN cached_max_dists) < NumPages
  /\ pages' = append_new_vector(Min(LoadedPages \ DOMAIN cached_max_dists), current)
  /\ UNCHANGED <<n_files, cacheVars>>
  /\ Done

\* Outside the best page's radius: the first empty page, if there is one.
Case5 ==
  /\ Crowded /\ ~Inside
  /\ Cardinality(DOMAIN cached_max_dists) < NumPages
  /\ pages' = append_new_vector(Min(LoadedPages \ DOMAIN cached_max_dists), current)
  /\ UNCHANGED n_files
  /\ UpdateCaches
  /\ Done

\* Otherwise a new file, truncated if a file of that name was left behind.
Case6 ==
  /\ Crowded /\ ~Inside
  /\ Cardinality(DOMAIN cached_max_dists) >= NumPages
  /\ n_files < MaxFiles
  /\ n_files' = n_files + 1
  /\ pages' = [p \in AllPages |->
                 IF p = NumPages THEN [EmptyPage EXCEPT !.vectors = <<current>>]
                 ELSE IF p \in NumPages .. NumPages + PagesPerFile - 1 THEN EmptyPage
                 ELSE pages[p]]
  /\ UpdateCaches
  /\ Done

InsertStep == Case1 \/ Case2 \/ Case3 \/ Case4 \/ Overrun \/ SetMax \/ Case5 \/ Case6

(***************************************************************************)
(* Closing, crashing, loading.                                             *)
(***************************************************************************)
Forget ==
  /\ pc' = "closed"
  /\ n_files' = 0
  /\ cached_vectors' = [p \in {} |-> 0] /\ cached_max_dists' = [p \in {} |-> 0]
  /\ dist_to_anchor_buffer' = {} /\ queried' = {} /\ victim' = {}
  /\ UNCHANGED <<pages, current, max_num_vectors, target, inserted>>

\* Faulty: the number of files is not saved.
CloseForgets ==                \* ~Database
  /\ pc = "ready" /\ closes < MaxCloses
  /\ saved_n_files' = saved_n_files
  /\ closes' = closes + 1
  /\ Forget
  /\ UNCHANGED <<exposed, crashes>>

Close ==                \* ~Database
  /\ pc = "ready" /\ closes < MaxCloses
  /\ saved_n_files' = n_files
  /\ closes' = closes + 1
  /\ Forget
  /\ UNCHANGED <<exposed, crashes>>

VectorsIn(P) == UNION {ToSet(pages[p].vectors) : p \in P}
UnsavedVectors == VectorsIn(LoadedPages \ SavedPages)

Crash ==
  /\ pc \notin {"closed", "overrun"} /\ crashes < MaxCrashes
  /\ crashes' = crashes + 1
  /\ exposed' = exposed \cup UnsavedVectors \cup victim
                        \cup (IF pc \in {"insert", "setMax"} THEN {current} ELSE {})
  /\ Forget
  /\ UNCHANGED <<saved_n_files, closes>>

Load ==                 \* load_database
  /\ pc = "closed"
  /\ pc' = "ready"
  /\ n_files' = saved_n_files
  /\ UNCHANGED <<pages, saved_n_files, dist_to_anchor_buffer, queried, callVars, historyVars>>
  /\ UpdateCaches

Next ==
  \/ \E v \in Vectors : Query(v) \/ Insert(v)
  \/ InsertStep
  \/ Close \/ Crash \/ Load

Spec == Init /\ [][Next]_vars
FairSpec == Spec /\ WF_vars(InsertStep)

(***************************************************************************)
(* Properties.                                                             *)
(***************************************************************************)
Undamaged == crashes = 0 /\ pc \in {"ready", "closed"}

\* The stored radius of every page is the largest distance of a member to the
\* anchor: too small and searches would skip pages they need, too large and
\* find_victim would not find its victim.
RadiusExact ==
  Undamaged => \A p \in AllPages :
    pages[p].vectors # <<>> => pages[p].max_dist = NewMaxDist(pages[p].vectors)

\* The pages of the files that are open, or that the next load will open.
KeptPages == IF pc = "closed" THEN SavedPages ELSE LoadedPages

OnePlaceEach ==
  \A p, r \in AllPages : \A i \in DOMAIN pages[p].vectors, j \in DOMAIN pages[r].vectors :
    pages[p].vectors[i] = pages[r].vectors[j] => p = r /\ i = j

\* Whatever was evicted on the way, every inserted vector is in exactly one
\* place of the files the config will name, and nothing else is in a file.
NoVectorLost ==
  Undamaged =>
    /\ VectorsIn(KeptPages) = inserted
    /\ VectorsIn(AllPages \ KeptPages) = {}
    /\ OnePlaceEach

\* What searches and later inserts read from the caches is what the pages hold.
CachesFresh ==
  pc = "ready" =>
    /\ cached_max_dists = MaxDistsOf(pages, NumPages)
    /\ \A p \in DOMAIN cached_max_dists : cached_vectors[p] = pages[p].vectors[1]

\* A search for q does not skip the page of v under a bound that v itself meets.
Reaches(q, v) ==
  \E p \in DOMAIN cached_max_dists :
    /\ v \in ToSet(pages[p].vectors)
    /\ ~PruneExact(SquaredL2(q, cached_vectors[p]), cached_max_dists[p], SquaredL2(q, v))

\* Inserts and searches composed, and what a crash costs: every exact search finds
\* every vector but those in files created since the last close, the one then in
\* the hands of insert_a_vector (written, perhaps, to a page whose max_dist does
\* not cover it yet), and vectors later written behind the last of a page whose
\* max_dist the crash left behind.  Nothing else goes missing, also not by the
\* truncation of a file that the config did not know, until a call writes past a
\* full page (Overrun), after which nothing is promised.
SearchMissesOnlyExposed ==
  pc = "ready" => \A v \in inserted \ exposed, q \in Vectors : Reaches(q, v)

\* Comment on case 4: the victim is the farthest vector (of the page).  There is
\* one, and so it is, as long as no crash has left a max_dist that no member has;
\* and no call writes past its page.
VictimFarthestStep ==
  crashes = 0 /\ pc = "insert" =>
    /\ pc' # "overrun"
    /\ pc' = "setMax" /\ victim' # {} =>
         \E i \in 2 .. n_vectors(target') :
           /\ victim' = {pages[target'].vectors[i]}
           /\ SquaredL2(pages[target'].vectors[i], pages[target'].vectors[1])
                = NewMaxDist(pages[target'].vectors)

\* Why a chain of evictions ends.  Each leaves the other pages alone, and in its
\* own fewer members at the radius than before, and none beyond: the page has
\* become tighter.  Nothing else in an insert goes on with another vector.
MembersAt(vs, distance) == {i \in 2 .. Len(vs) : SquaredL2(vs[i], vs[1]) = distance}
EvictionTightensStep ==
  crashes = 0 /\ pc = "insert" /\ pc' = "setMax" /\ victim' # {} =>
    LET before == pages[target'].vectors
        after == pages'[target'].vectors
        radius == NewMaxDist(before)
    IN /\ \A p \in AllPages \ {target'} : pages'[p] = pages[p]
       /\ NewMaxDist(after) <= radius
       /\ MembersAt(after, radius) \subseteq MembersAt(before, radius)
       /\ MembersAt(after, radius) # MembersAt(before, radius)

\* What is evicted is the farthest vector, and the page becomes tighter by it.
EvictionTightens == [][VictimFarthestStep /\ EvictionTightensStep]_vars

\* Comment in insert_a_vector: case 1 is for an empty database.
Case1OnlyWhenEmpty == [][Case1 => VectorsIn(AllPages) = {}]_vars

\* The same comment, after a crash between a vector and its page's max_dist: no
\* member is at the radius the next eviction from that page looks for.
Case4FindsItsVictim == [][Overfull => VictimIndex(Best[2]) <= n_vectors(Best[2])]_vars

\* The chain of evictions ends, unless a crash has made it write past a page.
InsertTerminates ==
  (pc = "insert") ~> (pc \in {"ready", "closed"} \/ (pc = "overrun" /\ crashes > 0))

(***************************************************************************)
(* Why they hold, for the proofs: what is true between any two steps, of   *)
(* clients that search before they insert.                                 *)
(***************************************************************************)
Values == Vectors \cup {Ghost}
PageRecords == [vectors : Seq(Values), max_dist : Nat, next_slot : Values]

PagesTyped ==
  /\ pages \in [AllPages -> PageRecords]
  /\ \A p \in AllPages : n_vectors(p) <= Capacity
  /\ \A p \in AllPages : pages[p].vectors = <<>> => pages[p].max_dist = 0

CallTyped ==
  /\ saved_n_files \in 1 .. MaxFiles /\ target \in AllPages
  /\ inserted \subseteq Vectors /\ exposed \subseteq Values /\ crashes \in Nat
  /\ queried \subseteq Vectors /\ victim \subseteq Values
  /\ max_num_vectors \in 0 .. Capacity
  /\ \/ pc = "closed" /\ n_files = 0 /\ victim = {} /\ queried = {}
     \/ /\ n_files \in 1 .. MaxFiles
        /\ \/ pc = "ready" /\ victim = {}
           \/ pc = "insert" /\ victim \subseteq {current} /\ current \in Values
           \/ pc = "overrun" /\ victim = {} /\ queried = {} /\ current \in Values
           \/ /\ pc = "setMax" /\ current \in Values
              /\ target \in LoadedPages /\ pages[target].vectors # <<>>
              /\ \A x, y \in victim : x = y

\* Also in the middle of an insert: the anchors stay, and so does every stored
\* max_dist until SetMax, which caches it.
CachesTrue ==
  /\ cached_max_dists = MaxDistsOf(pages, NumPages)
  /\ \A p \in DOMAIN cached_max_dists : cached_vectors[p] = pages[p].vectors[1]

\* The distances the next case will look at are those of the vector it inserts.
BufferTrue ==
  \A v \in (IF pc = "insert" THEN {current} ELSE IF pc = "ready" THEN queried ELSE {}) :
    dist_to_anchor_buffer = Distances(v, cached_vectors, cached_max_dists)

Recomputed(p) == pc = "setMax" /\ p = target

RadiiExact ==
  crashes = 0 => \A p \in AllPages :
    Recomputed(p) \/ pages[p].vectors = <<>> \/ pages[p].max_dist = NewMaxDist(pages[p].vectors)

\* The vectors that are in the hands of insert_a_vector and in no page.
InHand == victim \cup (IF pc \in {"insert", "overrun"} THEN {current} ELSE {})

Holds(p, v) == \E i \in DOMAIN pages[p].vectors : pages[p].vectors[i] = v

AllStored ==
  crashes = 0 =>
    /\ InHand \subseteq inserted
    /\ \A v \in inserted \ InHand : \E p \in KeptPages : Holds(p, v)
    /\ \A p \in AllPages : \A i \in DOMAIN pages[p].vectors :
         p \in KeptPages /\ pages[p].vectors[i] \in inserted \ InHand
    /\ OnePlaceEach

\* In a page whose max_dist, as stored, covers it.
Covered(v) ==
  \E p \in KeptPages : Holds(p, v) /\ SquaredL2(v, pages[p].vectors[1]) <= pages[p].max_dist

AwaitsSetMax(v) == pc = "setMax" /\ v = current /\ Holds(target, v)

NoneMissed ==
  \A v \in inserted \ exposed : Covered(v) \/ v \in InHand \/ AwaitsSetMax(v)

IInv ==
  PagesTyped /\ CallTyped /\ CachesTrue /\ BufferTrue /\ RadiiExact /\ AllStored /\ NoneMissed
=============================================================================
