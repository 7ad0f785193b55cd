----------------------------- MODULE DiskBTree -----------------------------
(***************************************************************************)
(* The B-tree of src/src/disk_btree.cpp: leaves chained by right_sibling,  *)
(* internal pages of separators, parent pointers, splits that climb to the *)
(* root.  Pages are numbered from 1 here and from 0 in the code.           *)
(***************************************************************************)
EXTENDS Naturals, SequencesExt

CONSTANTS
    IndexKey,        \* naturals above NoKey
    RowId,           \* ctids
    MaxLeafKeys,     \* BTREE_MAX_LEAF_KEYS
    MaxInternalKeys, \* BTREE_MAX_INTERNAL_KEYS
    MaxEntries,      \* bound: entries inserted
    TreeCircumstances \* which of the unfortunate circumstances below may arise

\* "cutRun": a leaf splits between two entries with one key.  "staleParent": a
\* page splits that a split above it has given another parent.
AllTreeCircumstances == {"cutRun", "staleParent"}

NoKey  == 0     \* numeric_limits<index_key_t>::min()
NoNode == 0     \* INVALID_PAGE_ID

ASSUME TreeConstants ==
    /\ IndexKey \subseteq Nat \ {NoKey}
    /\ MaxLeafKeys \in Nat /\ MaxLeafKeys > 1
    /\ MaxInternalKeys \in Nat /\ MaxInternalKeys > 1
    /\ TreeCircumstances \subseteq AllTreeCircumstances

VARIABLES
    pages,      \* the pages of the file, as the pool has them
    root,       \* root_page_id_
    inserts     \* entries inserted so far

treeVars == <<pages, root, inserts>>

\* Entries are pairs: a key, and a ctid on a leaf or a child elsewhere.
TreeInit ==
    /\ pages = <<[leaf |-> TRUE, root |-> TRUE, entries |-> <<>>,
                  right |-> NoNode, parent |-> NoNode]>>
    /\ root = 1
    /\ inserts = 0

\* How many entries come before the first whose key is past k, among those from
\* the n-th on.
UpTo(entries, k, n) ==
    LET past == {i \in n..Len(entries) : entries[i][1] > k} IN
    IF past = {} THEN Len(entries) ELSE Min(past) - 1

\* Mutant of Child: the search takes a separator for the last key on its left.
ChildBefore(p, k) ==
    LET entries == pages[p].entries
        past    == {i \in 2..Len(entries) : entries[i][1] >= k}
    IN entries[IF past = {} THEN Len(entries) ELSE Min(past) - 1][2]

\* The child to search for k: the first entry counts whatever its key.
Child(p, k) == pages[p].entries[UpTo(pages[p].entries, k, 2)][2]

\* find_leaf_page, and leftmost_leaf_page with NoKey.
FindLeaf(k) ==
    LET down[n \in 0..Len(pages)] ==
            IF n = 0 THEN root
            ELSE LET p == down[n - 1] IN IF pages[p].leaf THEN p ELSE Child(p, k)
    IN down[Len(pages)]

\* The leaves a scan goes through from p on, by their right siblings.
Chain(p) ==
    LET to[n \in 0..Len(pages)] ==
            IF n = 0 THEN <<p>>
            ELSE LET chain == to[n - 1]
                     right == pages[Last(chain)].right
                 IN IF right = NoNode THEN chain ELSE Append(chain, right)
    IN to[Len(pages)]

----------------------------------------------------------------------------
(* Splits.  A tree under construction has the pages, the root, the entry   *)
(* that is to go up, and whether a circumstance has arisen.                *)

Tree(ps, r) == [pages |-> ps, root |-> r, up |-> <<>>, met |-> {}]

HasChild(ps, p, c) ==
    \E i \in DOMAIN ps[p].entries : ps[p].entries[i][2] = c

\* What a split of page p meets.
Meets(ps, p, mid) ==
    LET node == ps[p] IN
    (IF node.leaf /\ node.entries[mid][1] = node.entries[mid + 1][1] THEN {"cutRun"} ELSE {})
    \cup
    (IF ~node.root /\ ~HasChild(ps, node.parent, p) THEN {"staleParent"} ELSE {})

\* Mutant of RightHalf: the middle entry is on neither page.
RightHalfShort(node, mid) == SubSeq(node.entries, mid + 2, Len(node.entries))

RightHalf(node, mid) == SubSeq(node.entries, mid + 1, Len(node.entries))

\* split_leaf_page and split_internal_page: the upper half goes to a new page, the
\* first key there goes up; a root gets a new root above it.  The children of the
\* upper half keep the parent they had.
Split(t, p) ==
    LET node  == t.pages[p]
        mid   == Len(node.entries) \div 2
        new   == Len(t.pages) + 1
        key   == node.entries[mid + 1][1]
        above == IF node.root THEN new + 1 ELSE node.parent
        left  == [node EXCEPT !.entries = SubSeq(@, 1, mid), !.root = FALSE, !.parent = above,
                              !.right = IF node.leaf THEN new ELSE @]
        right == [node EXCEPT !.entries = RightHalf(node, mid), !.root = FALSE, !.parent = above]
        both  == Append([t.pages EXCEPT ![p] = left], right)
        top   == [leaf |-> FALSE, root |-> TRUE, entries |-> <<<<NoKey, p>>, <<key, new>>>>,
                  right |-> NoNode, parent |-> NoNode]
    IN [pages |-> IF node.root THEN Append(both, top) ELSE both,
        root  |-> IF node.root THEN above ELSE t.root,
        up    |-> IF node.root THEN <<>> ELSE <<above, key, new>>,
        met   |-> t.met \cup Meets(t.pages, p, mid)]

\* The tree with an entry more on page p, split if that is one too many.
With(t, p, e, limit) ==
    LET ps == [t.pages EXCEPT ![p].entries = InsertAt(@, UpTo(@, e[1], 1) + 1, e)]
        u  == [t EXCEPT !.pages = ps, !.up = <<>>]
    IN IF Len(ps[p].entries) >= limit THEN Split(u, p) ELSE u

\* insert_into_internal, as long as there is an entry to go up.
Climbed(t) ==
    LET level[n \in 0..Len(pages)] ==
            IF n = 0 THEN t
            ELSE LET u == level[n - 1] IN
                 IF u.up = <<>> THEN u
                 ELSE With(u, u.up[1], <<u.up[2], u.up[3]>>, MaxInternalKeys)
    IN level[Len(pages)]

\* What is on the leaves.
Entries ==
    UNION {ToSet(pages[p].entries) : p \in {q \in DOMAIN pages : pages[q].leaf}}

\* No caller inserts an entry that is there: VACUUM removes the entry of a tuple
\* before its slot is used again.
InsertEntry(k, c) ==
    /\ inserts < MaxEntries
    /\ <<k, c>> \notin Entries
    /\ LET t == Climbed(With(Tree(pages, root), FindLeaf(k), <<k, c>>, MaxLeafKeys)) IN
       /\ t.met \subseteq TreeCircumstances
       /\ pages' = t.pages
       /\ root' = t.root
    /\ inserts' = inserts + 1

\* The leaves from the one for k on, up to the first that has a key past k.
Reach(k) ==
    LET chain == Chain(FindLeaf(k))
        stop  == {i \in DOMAIN chain : \E j \in DOMAIN pages[chain[i]].entries :
                                          pages[chain[i]].entries[j][1] > k}
    IN IF stop = {} THEN chain ELSE SubSeq(chain, 1, Min(stop))

\* remove_entry: the first such entry, wherever in reach.
RemoveEntry(k, c) ==
    \E n \in DOMAIN Reach(k) :
       LET p    == Reach(k)[n]
           at(q) == {i \in DOMAIN pages[q].entries : pages[q].entries[i] = <<k, c>>}
       IN /\ at(p) # {} /\ \A m \in 1..(n - 1) : at(Reach(k)[m]) = {}
          /\ pages' = [pages EXCEPT ![p].entries = RemoveAt(@, Min(at(p)))]
    /\ UNCHANGED <<root, inserts>>

\* Closing flushes every page; the next open looks for the first page flagged ROOT.
Reopen ==
    /\ root' = Min({p \in DOMAIN pages : pages[p].root})
    /\ UNCHANGED <<pages, inserts>>

TreeNext ==
    \/ \E k \in IndexKey, c \in RowId : InsertEntry(k, c) \/ RemoveEntry(k, c)
    \/ Reopen

TreeSpec == TreeInit /\ [][TreeNext]_treeVars

----------------------------------------------------------------------------
(* Lookups. *)

EntriesOn(chain) ==
    LET upTo[n \in 0..Len(chain)] ==
            IF n = 0 THEN <<>> ELSE upTo[n - 1] \o pages[chain[n]].entries
    IN upTo[Len(chain)]

\* Those of the entries whose keys are from lo to hi.
Between(entries, lo, hi) ==
    LET of[n \in 0..Len(entries)] ==
            IF n = 0 THEN <<>>
            ELSE IF entries[n][1] \in lo..hi THEN Append(of[n - 1], entries[n]) ELSE of[n - 1]
    IN of[Len(entries)]

\* find_entries: on past the leaves without k until k has been seen, or passed.
FindEntries(k) ==
    LET chain == Reach(k)
        has(i) == \E j \in DOMAIN pages[chain[i]].entries : pages[chain[i]].entries[j][1] = k
        done  == {i \in DOMAIN chain : ~has(i) /\ \E j \in 1..(i - 1) : has(j)}
        read  == IF done = {} THEN chain ELSE SubSeq(chain, 1, Min(done))
    IN Between(EntriesOn(read), k, k)

\* range_scan.
RangeScan(lo, hi) ==
    LET chain == Chain(FindLeaf(lo))
        stop  == {i \in DOMAIN chain : \E j \in DOMAIN pages[chain[i]].entries :
                                          pages[chain[i]].entries[j][1] > hi}
        read  == IF stop = {} THEN chain ELSE SubSeq(chain, 1, Min(stop))
    IN Between(EntriesOn(read), lo, hi)

\* num_entries and num_unique_keys go along the chain from the leftmost leaf.
AllEntries    == EntriesOn(Chain(FindLeaf(NoKey)))
NumUniqueKeys ==
    Cardinality({i \in DOMAIN AllEntries : i = 1 \/ AllEntries[i][1] # AllEntries[i - 1][1]})

----------------------------------------------------------------------------
(* Properties. *)

Entry == (IndexKey \cup {NoKey}) \X (RowId \cup Nat)

TreeTypeOK ==
    /\ \A p \in DOMAIN pages :
          /\ pages[p].leaf \in BOOLEAN /\ pages[p].root \in BOOLEAN
          /\ pages[p].right \in {NoNode} \cup DOMAIN pages
          /\ pages[p].parent \in {NoNode} \cup DOMAIN pages
          /\ \A i \in DOMAIN pages[p].entries : pages[p].entries[i] \in Entry
          /\ Len(pages[p].entries) < (IF pages[p].leaf THEN MaxLeafKeys ELSE MaxInternalKeys)
    /\ root \in DOMAIN pages
    /\ inserts \in 0..MaxEntries

\* Every entry on a leaf is found under its key, once, and no other is
\* (disk_btree.h:77-78), whatever splits and removals went before.
EntriesFound ==
    \A k \in IndexKey :
        LET found == FindEntries(k) IN
        /\ ToSet(found) = {e \in Entries : e[1] = k}
        /\ IsInjective(found)

\* A range scan gives the entries of the range in key order, whichever leaf it
\* starts on, num_unique_keys counts the keys, and one page alone is flagged as
\* the root, which the next open goes by (disk_btree.cpp:33-43, 350-375, 437-459).
ScansAgree ==
    /\ \A i \in 2..Len(AllEntries) : AllEntries[i - 1][1] <= AllEntries[i][1]
    /\ \A lo, hi \in IndexKey :
          RangeScan(lo, hi) = Between(AllEntries, lo, hi)
    /\ NumUniqueKeys = Cardinality({AllEntries[i][1] : i \in DOMAIN AllEntries})
    /\ {p \in DOMAIN pages : pages[p].root} = {root}

\* The leaves hold the entries that were inserted and not removed: no split and
\* no removal loses, moves or doubles another entry (index.h).
Listing == INSTANCE Index WITH
               Key <- IndexKey, Ctid <- RowId, entries <- Entries

ImplementsIndex == Listing!IndexSpec
=============================================================================
