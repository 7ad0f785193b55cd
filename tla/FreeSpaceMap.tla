---------------------------- MODULE FreeSpaceMap ----------------------------
(***************************************************************************)
(* The free space map of src/src/fsm.cpp: a max-heap of categories on each *)
(* of its pages, and the insertions of src/src/heap.cpp that go by it.  A  *)
(* crash leaves it as it was last flushed; redo fills pages past it.       *)
(***************************************************************************)
EXTENDS Naturals, FiniteSetsExt

CONSTANTS
    Leaves,        \* FSM_LEAF_COUNT, a power of two
    HeapPages,     \* bound: heap pages
    PageBytes,     \* PAGE_SIZE
    PerCat,        \* FSM_BYTES_PER_CAT
    Needed,        \* bytes a tuple and its line pointer take
    EmptyRoom,     \* bytes free on a page without tuples
    MaxMapCrashes  \* bound

\* n comes of one by doublings, as FSM_TREE_DEPTH of them make FSM_LEAF_COUNT.
PowerOfTwo(n) ==
    \E d \in 1..n : \E w \in [0..d -> 1..n] :
        w[0] = 1 /\ w[d] = n /\ \A h \in 1..d : w[h] = 2 * w[h - 1]

ASSUME MapConstants ==
    /\ Leaves \in Nat \ {0, 1} /\ PowerOfTwo(Leaves)
    /\ HeapPages \in Nat \ {0} /\ MaxMapCrashes \in Nat
    /\ PerCat \in Nat \ {0} /\ PageBytes \in Nat \ {0} /\ PageBytes % PerCat = 0
    /\ EmptyRoom \in 1..PageBytes
    /\ Needed \in 1..EmptyRoom /\ Needed + PerCat <= PageBytes

Internals == Leaves - 1
Node      == 0..(2 * Leaves - 2)
MapPages  == (HeapPages + Leaves - 1) \div Leaves
MapPage   == 0..(MapPages - 1)
Highest   == (PageBytes \div PerCat) - 1
Category  == 0..Highest
NoPage    == HeapPages

VARIABLES
    nodes,         \* pages_ of the map
    mapSize,       \* how many of them there are
    mapFile,       \* the map's file
    heapSize,      \* pages of the heap
    room,          \* bytes free on each
    mapCrashes     \* crashes so far

mapVars == <<nodes, mapSize, mapFile, heapSize, room, mapCrashes>>

Blank == [n \in Node |-> 0]

\* bytes_to_category, and required_category, which rounds up.
CategoryOf(bytes) == IF bytes >= PageBytes THEN Highest ELSE bytes \div PerCat
RequiredCategory(bytes) ==
    IF bytes > Highest * PerCat THEN Highest ELSE (bytes + PerCat - 1) \div PerCat

Leaf(p)     == Internals + (p % Leaves)
MapOf(p)    == p \div Leaves
CategoryAt(map, p) == map[MapOf(p)][Leaf(p)]

\* Mutant of Bubbled: the parent is compared with the changed child alone.
BubbledAlone(m, leaf) ==
    LET up[i \in Node] == IF i = 0 THEN {0} ELSE {i} \cup up[(i - 1) \div 2]
    IN [n \in Node |-> IF n \in up[leaf] THEN m[leaf] ELSE m[n]]

\* One turn of update_page's loop: the larger of a node and its sibling goes to the
\* parent, unless the parent has it already.
Sibling(i) == IF i % 2 = 1 THEN i + 1 ELSE i - 1
Parent(i)  == (i - 1) \div 2
Raised(s) ==
    LET most == Max({s.m[s.at], s.m[Sibling(s.at)]}) IN
    IF s.at = 0 \/ s.m[Parent(s.at)] = most THEN s
    ELSE [m |-> [s.m EXCEPT ![Parent(s.at)] = most], at |-> Parent(s.at)]

Bubbled(m, leaf) ==
    LET up[k \in 0..Leaves] == IF k = 0 THEN [m |-> m, at |-> leaf] ELSE Raised(up[k - 1])
    IN up[Leaves].m

\* update_page.  A map page that did not exist is all zeroes until now.
Updated(ms, p, bytes) ==
    IF CategoryAt(ms, p) = CategoryOf(bytes) THEN ms
    ELSE [ms EXCEPT ![MapOf(p)] = Bubbled([@ EXCEPT ![Leaf(p)] = CategoryOf(bytes)], Leaf(p))]

SizeWith(p) == Max({mapSize, MapOf(p) + 1})

\* One turn of search_page's descent, left before right.
Below(m, i, target) ==
    IF i >= Internals THEN i
    ELSE IF m[2 * i + 1] >= target THEN 2 * i + 1
    ELSE IF m[2 * i + 2] >= target THEN 2 * i + 2
    ELSE i

Descended(m, target) ==
    LET at[k \in 0..Leaves] == IF k = 0 THEN 0 ELSE Below(m, at[k - 1], target) IN at[Leaves]

\* search_page: the first map page whose root will do.  A search that breaks off in the
\* tree goes on with the next page.
Search(bytes) ==
    LET target == RequiredCategory(bytes)
        hits == {f \in MapPage : /\ f < mapSize
                                 /\ nodes[f][0] >= target
                                 /\ Descended(nodes[f], target) >= Internals}
    IN IF hits = {} THEN NoPage
       ELSE Min(hits) * Leaves + (Descended(nodes[Min(hits)], target) - Internals)

\* A new heap of one page, which the constructor registers.
MapInit ==
    /\ heapSize = 1
    /\ room = [p \in 0..(HeapPages - 1) |-> EmptyRoom]
    /\ nodes = Updated([f \in MapPage |-> Blank], 0, EmptyRoom)
    /\ mapFile = [f \in MapPage |-> Blank]
    /\ mapSize = 1
    /\ mapCrashes = 0

\* A tuple goes to page p, and the map is told.
PutOn(p) ==
    /\ room' = [room EXCEPT ![p] = @ - Needed]
    /\ nodes' = Updated(nodes, p, room[p] - Needed)
    /\ mapSize' = SizeWith(p)
    /\ UNCHANGED <<mapFile, mapCrashes>>

Fits(p) == p < heapSize /\ room[p] >= Needed

\* Mutant of InsertTuple: the last page is tried first.
InsertLastFirst ==
    \/ Fits(heapSize - 1) /\ PutOn(heapSize - 1) /\ UNCHANGED heapSize
    \/ ~Fits(heapSize - 1) /\ heapSize < HeapPages /\ heapSize' = heapSize + 1 /\ PutOn(heapSize)

\* HeapFile::insert: the page the map names, if it has room after all; the last
\* page; a new one.  A page that disappoints keeps its category.
InsertTuple ==
    LET p == Search(Needed) IN
    \/ Fits(p) /\ PutOn(p) /\ UNCHANGED heapSize
    \/ ~Fits(p) /\ Fits(heapSize - 1) /\ PutOn(heapSize - 1) /\ UNCHANGED heapSize
    \/ ~Fits(p) /\ ~Fits(heapSize - 1) /\ heapSize < HeapPages /\ heapSize' = heapSize + 1 /\ PutOn(heapSize)

\* hot_update puts the new version beside the old, and tells the map.
HotUpdateOn(p) == room[p] < EmptyRoom /\ Fits(p) /\ PutOn(p) /\ UNCHANGED heapSize

\* VACUUM frees page p, updates the map and flushes it.
VacuumPage(p) ==
    /\ p < heapSize
    /\ room[p] < EmptyRoom
    /\ room' = [room EXCEPT ![p] = EmptyRoom]
    /\ nodes' = Updated(nodes, p, EmptyRoom)
    /\ mapFile' = Updated(nodes, p, EmptyRoom)
    /\ UNCHANGED <<mapSize, heapSize, mapCrashes>>

\* HeapFile::flush.  After the last crash nobody reads the file.
FlushMap ==
    /\ mapCrashes < MaxMapCrashes
    /\ mapFile' = nodes
    /\ UNCHANGED <<nodes, mapSize, heapSize, room, mapCrashes>>

\* A crash takes back what the map was told since; recovery restores the heap
\* without telling it anything.
LoseMap ==
    /\ mapCrashes < MaxMapCrashes
    /\ mapCrashes' = mapCrashes + 1
    /\ nodes' = mapFile
    /\ UNCHANGED <<mapSize, mapFile, heapSize, room>>

MapNext ==
    \/ InsertTuple
    \/ \E p \in 0..(HeapPages - 1) : HotUpdateOn(p) \/ VacuumPage(p)
    \/ FlushMap
    \/ LoseMap

MapSpec == MapInit /\ [][MapNext]_mapVars

----------------------------------------------------------------------------
(* Properties. *)

MapTypeOK ==
    /\ nodes \in [MapPage -> [Node -> Category]]
    /\ mapFile \in [MapPage -> [Node -> Category]]
    /\ mapSize \in 1..MapPages
    /\ heapSize \in 1..HeapPages
    /\ room \in [0..(HeapPages - 1) -> 0..EmptyRoom]
    /\ mapCrashes \in 0..MaxMapCrashes

\* The search comes to the first page whose category will do, and to none only if
\* there is none (fsm.h:73-75), crashed or not: the early stop of update_page
\* (fsm.cpp:105-107) leaves no parent behind.
SearchIsFirstFit ==
    \A bytes \in {c * PerCat : c \in Category \ {0}} :
        LET least == RequiredCategory(bytes)
            fits  == {p \in 0..(HeapPages - 1) : CategoryAt(nodes, p) >= least}
        IN Search(bytes) = (IF fits = {} THEN NoPage ELSE Min(fits))

\* The heap grows only if the tuple does not fit on the last page, which an insertion
\* asks itself, and, unless a crash has left the map stale, only if no page has room
\* for it by as much as the categories can hide (heap.cpp:101-152, fsm.h:49-61): what
\* is free on any page is less than the tuple takes in whole categories.
GrowsOnlyWhenFull ==
    [][heapSize' > heapSize =>
          /\ room[heapSize - 1] < Needed
          /\ mapCrashes = 0 => \A p \in 0..(heapSize - 1) : room[p] < Needed + PerCat - 1]_mapVars
=============================================================================
