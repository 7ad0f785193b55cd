------------------------------ MODULE Executor ------------------------------
(***************************************************************************)
(* The plan nodes of src/src/executor.cpp and ExecutionEngine::execute,    *)
(* which pulls a plan's rows one by one: init, next until there is none,   *)
(* end.  A plan is a tree of records, its nodes' state included.           *)
(***************************************************************************)
EXTENDS Naturals, SequencesExt

CONSTANTS
    Tables,     \* contents a relation may have
    Keys,       \* values of the column that plans compare
    Counts,     \* LIMITs, one of them above any number of rows: there is none
    Offsets     \* OFFSETs

\* A relation: pages of line pointers, each a visible row or None, and for every
\* key the versions its index entries lead to, in order, None for those that
\* lead to nothing visible.
None == [id |-> 0, key |-> 0]

VARIABLES
    plan,       \* the plan tree
    rows,       \* rows it gave so far
    phase       \* "new", "open", "done"

vars == <<plan, rows, phase>>

----------------------------------------------------------------------------
(* The nodes as their constructors leave them.                             *)

SeqScan(rel)   == [op |-> "scan", rel |-> rel, page |-> 1, slot |-> 1, pinned |-> FALSE]
IndexScan(rel, key) ==
    [op |-> "index", rel |-> rel, key |-> key, cursor |-> 1, visited |-> {}, candidates |-> <<>>]
Filter(child, keys) == [op |-> "filter", child |-> child, keys |-> keys]
Limit(child, count, offset) ==
    [op |-> "limit", child |-> child, count |-> count, offset |-> offset, returned |-> 0]
NestedLoop(outer, inner, on) ==
    [op |-> "nested", outer |-> outer, inner |-> inner, on |-> on, current |-> <<>>,
     fresh |-> TRUE, exhausted |-> FALSE]
HashJoin(outer, inner, back) ==
    [op |-> "hash", outer |-> outer, inner |-> inner, back |-> back, current |-> <<>>,
     built |-> <<>>, pending |-> <<>>, exhausted |-> FALSE]

\* The plans that Engine::execute_sql builds for SELECT; a self-join has ON or, if it
\* is no hash join, none.  A hash table gives rows with equal keys in an order of its
\* own: the one they came in, or back to front.
Unlimited(rel) ==
    {SeqScan(rel)}
    \cup {HashJoin(SeqScan(rel), SeqScan(rel), back) : back \in BOOLEAN}
    \cup {NestedLoop(SeqScan(rel), SeqScan(rel), on) : on \in BOOLEAN}
    \cup {IndexScan(rel, k) : k \in Keys}
    \cup {Filter(SeqScan(rel), ks) : ks \in SUBSET Keys}
Plans(rel) ==
    Unlimited(rel) \cup {Limit(p, n, o) : p \in Unlimited(rel), n \in Counts, o \in Offsets}

\* A row is a tuple of versions: one, or two if it was joined.  Joins are on the
\* key of the first version of either side, which is all of it that they keep.
KeyOf(row)   == row[1].key
Joined(o, i) == <<o[1], i[1]>>

\* What next returns: the node it leaves behind, and the row, <<>> at the end.
Gives(node, row) == [node |-> node, row |-> row]

RECURSIVE Init_(_), Pull(_), PullAll(_), End(_)

\* SeqScanNode::next: the next visible row, over as many pages as it takes.  A page
\* is pinned while the scan is on it.
SeqScanNext(n) ==
    LET all  == UNION {{<<p, s>> : s \in DOMAIN n.rel.pages[p]} : p \in DOMAIN n.rel.pages}
        at   == {l \in all : /\ n.rel.pages[l[1]][l[2]] # None
                             /\ l[1] > n.page \/ (l[1] = n.page /\ l[2] >= n.slot)}
        here == CHOOSE l \in at : \A m \in at : l[1] < m[1] \/ (l[1] = m[1] /\ l[2] <= m[2])
    IN IF at = {}
       THEN Gives([n EXCEPT !.page = Len(n.rel.pages) + 1, !.slot = 1, !.pinned = FALSE], <<>>)
       ELSE Gives([n EXCEPT !.page = here[1], !.slot = here[2] + 1, !.pinned = TRUE],
                  <<n.rel.pages[here[1]][here[2]]>>)

\* Two entries may lead to one version: it is given once.
Fresh(n, c) == c # None /\ c \notin n.visited

\* IndexScanNode::next.
IndexScanNext(n) ==
    LET left == {i \in n.cursor..Len(n.candidates) : Fresh(n, n.candidates[i])} IN
    IF left = {} THEN Gives([n EXCEPT !.cursor = Len(n.candidates) + 1], <<>>)
    ELSE LET i == Min(left) IN
         Gives([n EXCEPT !.cursor = i + 1, !.visited = @ \cup {n.candidates[i]}],
               <<n.candidates[i]>>)

\* FilterNode::next.
FilterNext(n) ==
    LET c == Pull(n.child)
        m == [n EXCEPT !.child = c.node]
    IN IF c.row = <<>> \/ KeyOf(c.row) \in n.keys THEN Gives(m, c.row) ELSE Pull(m)

\* LimitNode::next: its child is left alone once the count is reached.
LimitNext(n) ==
    IF n.returned >= n.count THEN Gives(n, <<>>)
    ELSE LET c == Pull(n.child) IN
         Gives([n EXCEPT !.child = c.node, !.returned = IF c.row = <<>> THEN @ ELSE @ + 1], c.row)

\* Mutant of Rewound: the inner side goes on where it was.
RewoundNot(inner) == inner

\* The inner side is opened again for every outer row.
Rewound(inner) == Init_(inner)

\* NestedLoopJoinNode::next.
NestedLoopNext(n) ==
    IF n.exhausted THEN Gives(n, <<>>)
    ELSE IF n.fresh
    THEN LET o == Pull(n.outer) IN
         IF o.row = <<>> THEN Gives([n EXCEPT !.outer = o.node, !.exhausted = TRUE], <<>>)
         ELSE Pull([n EXCEPT !.outer = o.node, !.current = o.row, !.fresh = FALSE,
                             !.inner = Rewound(@)])
    ELSE LET i == Pull(n.inner)
             m == [n EXCEPT !.inner = i.node]
         IN IF i.row = <<>> THEN Pull([m EXCEPT !.fresh = TRUE])
            ELSE IF n.on => KeyOf(i.row) = KeyOf(n.current) THEN Gives(m, Joined(n.current, i.row))
            ELSE Pull(m)

\* HashJoinNode::next.
HashJoinNext(n) ==
    IF n.exhausted THEN Gives(n, <<>>)
    ELSE IF n.pending # <<>>
    THEN Gives([n EXCEPT !.pending = Tail(@)], Joined(n.current, Head(n.pending)))
    ELSE LET o == Pull(n.outer) IN
         IF o.row = <<>> THEN Gives([n EXCEPT !.outer = o.node, !.exhausted = TRUE], <<>>)
         ELSE Pull([n EXCEPT !.outer = o.node, !.current = o.row,
                     !.pending = SelectSeq(n.built, LAMBDA r : KeyOf(r) = KeyOf(o.row))])

Pull(n) ==
    CASE n.op = "scan"   -> SeqScanNext(n)
      [] n.op = "index"  -> IndexScanNext(n)
      [] n.op = "filter" -> FilterNext(n)
      [] n.op = "limit"  -> LimitNext(n)
      [] n.op = "nested" -> NestedLoopNext(n)
      [] n.op = "hash"   -> HashJoinNext(n)

\* Every row a node has left, and the node behind them.
PullAll(n) ==
    LET c == Pull(n) IN
    IF c.row = <<>> THEN [node |-> c.node, rows |-> <<>>]
    ELSE LET more == PullAll(c.node) IN [more EXCEPT !.rows = <<c.row>> \o @]

\* LimitNode::init pulls the offset's rows, and stops where there are no more.
Skipped(child, offset) ==
    LET after[i \in 0..offset] ==
            IF i = 0 THEN [node |-> child, more |-> TRUE]
            ELSE LET b == after[i - 1] IN
                 IF ~b.more THEN b
                 ELSE LET c == Pull(b.node) IN [node |-> c.node, more |-> c.row # <<>>]
    IN after[offset].node

\* init.  A hash join reads all of its inner side, and closes it.
Init_(n) ==
    CASE n.op = "scan"   -> SeqScan(n.rel)
      [] n.op = "index"  -> [IndexScan(n.rel, n.key) EXCEPT !.candidates = n.rel.entries[n.key]]
      [] n.op = "filter" -> [n EXCEPT !.child = Init_(@)]
      [] n.op = "limit"  -> [n EXCEPT !.child = Skipped(Init_(@), n.offset), !.returned = 0]
      [] n.op = "nested" -> NestedLoop(Init_(n.outer), Init_(n.inner), n.on)
      [] n.op = "hash"   ->
            LET inner == PullAll(Init_(n.inner)) IN
            [HashJoin(Init_(n.outer), End(inner.node), n.back) EXCEPT
                !.built = IF n.back THEN Reverse(inner.rows) ELSE inner.rows]

\* Mutant of End: a limit does not close what is below it.
EndAbove(n) ==
    CASE n.op = "scan"              -> [n EXCEPT !.pinned = FALSE]
      [] n.op \in {"index", "limit"} -> n
      [] n.op = "filter"            -> [n EXCEPT !.child = End(@)]
      [] OTHER                      -> [n EXCEPT !.outer = End(@), !.inner = End(@)]

\* end: every scan below lets go of its page.
End(n) ==
    CASE n.op = "scan"                -> [n EXCEPT !.pinned = FALSE]
      [] n.op = "index"               -> [n EXCEPT !.cursor = 1, !.visited = {}, !.candidates = <<>>]
      [] n.op \in {"filter", "limit"} -> [n EXCEPT !.child = End(@)]
      [] n.op = "nested"              -> [n EXCEPT !.outer = End(@), !.inner = End(@), !.current = <<>>]
      [] OTHER                        -> [n EXCEPT !.outer = End(@), !.inner = End(@),
                                                   !.current = <<>>, !.built = <<>>]

----------------------------------------------------------------------------
Init ==
    /\ \E rel \in Tables : plan \in Plans(rel)
    /\ rows = <<>>
    /\ phase = "new"

Open ==
    /\ phase = "new"
    /\ plan' = Init_(plan)
    /\ phase' = "open"
    /\ UNCHANGED rows

PullRow ==
    /\ phase = "open"
    /\ LET c == Pull(plan) IN
       /\ c.row # <<>>
       /\ plan' = c.node
       /\ rows' = Append(rows, c.row)
    /\ UNCHANGED phase

Close ==
    /\ phase = "open"
    /\ Pull(plan).row = <<>>
    /\ plan' = End(Pull(plan).node)
    /\ phase' = "done"
    /\ UNCHANGED rows

Next == Open \/ PullRow \/ Close

Spec == Init /\ [][Next]_vars

----------------------------------------------------------------------------
(* Properties. *)

RECURSIVE Answer(_), Scans(_)

\* What a plan asks for, as a relational expression over sequences.
Answer(n) ==
    CASE n.op = "scan"   -> FoldLeft(LAMBDA rs, page : rs \o [i \in DOMAIN SelectSeq(page, LAMBDA r : r # None)
                                        |-> <<SelectSeq(page, LAMBDA r : r # None)[i]>>], <<>>, n.rel.pages)
      [] n.op = "index"  -> SelectSeq(Answer(SeqScan(n.rel)), LAMBDA r : KeyOf(r) = n.key)
      [] n.op = "filter" -> SelectSeq(Answer(n.child), LAMBDA r : KeyOf(r) \in n.keys)
      [] n.op = "limit"  -> LET all == Answer(n.child) IN
                            SubSeq(all, n.offset + 1, Min({Len(all), n.offset + n.count}))
      [] OTHER           -> LET inner == Answer(n.inner) IN
            FoldLeft(LAMBDA rs, o : rs \o
                LET mates == SelectSeq(inner, LAMBDA i :
                                (n.op = "nested" /\ ~n.on) \/ KeyOf(i) = KeyOf(o))
                IN [i \in DOMAIN mates |-> Joined(o, mates[i])], <<>>, Answer(n.outer))

\* The scans of a plan.
Scans(n) ==
    CASE n.op = "scan"                -> {n}
      [] n.op = "index"               -> {}
      [] n.op \in {"filter", "limit"} -> Scans(n.child)
      [] OTHER                        -> Scans(n.outer) \cup Scans(n.inner)

TypeOK ==
    /\ phase \in {"new", "open", "done"}
    /\ \A i \in DOMAIN rows : Len(rows[i]) \in 1..2

\* What a plan is at the bottom, what it asks for but for a limit, and the outer
\* sides of rows.
Source(n)  == IF n.op = "limit" THEN n.child.op ELSE n.op
All(n)     == IF n.op = "limit" THEN Answer(n.child) ELSE Answer(n)
Outers(rs) == [i \in DOMAIN rs |-> rs[i][1]]

\* A plan gives the rows of the relational expression it stands for, each once, and
\* no row before its turn, whatever its nodes keep between two pulls.  An index scan
\* has an order of its own, and a hash join among the mates of an outer row.
AnswersQuery ==
    LET answer == Answer(plan) IN
    /\ CASE Source(plan) = "index" -> Len(rows) <= Len(answer)
         [] Source(plan) = "hash"  -> IsPrefix(Outers(rows), Outers(answer))
         [] OTHER                  -> IsPrefix(rows, answer)
    /\ IsInjective(rows) /\ ToSet(rows) \subseteq ToSet(All(plan))
    /\ phase = "done" => Len(rows) = Len(answer)

\* No page stays pinned once the plan is closed, even where a limit broke a scan off
\* (executor.h:68, 91, 165).
PinsReleased == phase # "open" => \A n \in Scans(plan) : ~n.pinned
=============================================================================
