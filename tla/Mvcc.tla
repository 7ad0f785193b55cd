-------------------------------- MODULE Mvcc --------------------------------
(***************************************************************************)
(* Transactions over versioned rows: the transaction manager and the       *)
(* visibility rule of src/src/tx.cpp and mvcc.cpp, the statements of       *)
(* src/src/engine.cpp that use them, the versions and HOT chains that      *)
(* src/src/heap.cpp makes on pages, the index on item_id, and VACUUM       *)
(* (src/src/vacuum.cpp).  Statements run one at a time, as the mutex of a  *)
(* server makes them (Servers.tla has what happens otherwise), so one      *)
(* action is one statement.  An autocommit statement is Begin, the         *)
(* statement and Commit or Rollback with nothing between.                  *)
(***************************************************************************)
EXTENDS Naturals, Sequences, FiniteSets

CONSTANTS
    Session,        \* sessions
    Key,            \* values of item_id
    MaxXid,         \* bound: transaction ids
    MaxWrites,      \* bound: rows and versions written
    Pages,          \* bound: heap pages
    Capacity,       \* tuples that fit on a page
    Circumstances   \* which of the unfortunate circumstances below may arise

\* "staleUpdate": an update goes to a version that has been superseded since
\* the transaction's snapshot was taken.  "slotReused": a slot that VACUUM has
\* freed takes a new row while a chain on its page still leads to it.
AllCircumstances == {"staleUpdate", "slotReused"}

ASSUME MvccConstants ==
    /\ MaxXid \in Nat /\ MaxWrites \in Nat
    /\ Pages \in Nat \ {0} /\ Capacity \in Nat \ {0}
    /\ Circumstances \subseteq AllCircumstances

Xid    == 1..MaxXid
Status == {"in_progress", "committed", "aborted"}
Page   == 0..(Pages - 1)
Ctid   == Page \X Nat
Row    == [key : Key, val : 1..MaxWrites]

VARIABLES
    nextXid,    \* next_tx_id_
    status,     \* status_map_
    horizons,   \* snapshot_xmins_, 0 where there is none
    tx,         \* Session::current_tx, 0 where there is none
    snapshot,   \* Session::snapshot
    heap,       \* line pointers of every page, and the tuples they lead to
    used,       \* tuples stored on every page, unreclaimed dead ones included
    index,      \* entries of the index on item_id
    locks,      \* exclusive row locks of the lock manager
    writes      \* versions written so far

txVars  == <<nextXid, status, horizons, tx, snapshot>>
rowVars == <<heap, used, index>>
vars    == <<nextXid, status, horizons, tx, snapshot, heap, used, index, locks, writes>>

----------------------------------------------------------------------------
(* The transaction manager. *)

Running == {x \in Xid : x < nextXid /\ status[x] = "in_progress"}
Least(S) == CHOOSE n \in S : \A m \in S : n <= m

NoSnapshot == [owner |-> 0, xmin |-> 0, xmax |-> 0, active |-> {}]

\* take_snapshot for x, which has just begun while the others ran.  xmin is the
\* least id that ran, or next_tx_id_, which is past x itself.
SnapshotFor(x, others) ==
    [owner |-> x, xmin |-> Least(others \cup {x + 1}), xmax |-> x + 1, active |-> others]

\* Mutant of Bounds: the cutoff is the oldest running transaction.
BoundsOfIds == {nextXid} \cup Running

\* oldest_snapshot_xmin is the least of these.
Bounds == {nextXid} \cup Running \cup {horizons[x] : x \in {r \in Running : horizons[r] # 0}}

PastHorizon(x) == \A b \in Bounds : x < b

\* Mutant of InPast: a transaction that ran when the snapshot was taken counts
\* once it has committed.
InPastLater(x, snap) == status[x] = "committed" /\ x < snap.xmax

\* What is committed and was so when the snapshot was taken.
InPast(x, snap) ==
    /\ status[x] = "committed"
    /\ x < snap.xmax
    /\ x \notin snap.active

\* is_tuple_visible.
Visible(t, snap) ==
    /\ t.xmin = snap.owner \/ InPast(t.xmin, snap)
    /\ t.xmax # 0 => t.xmax # snap.owner /\ ~InPast(t.xmax, snap)

----------------------------------------------------------------------------
(* Pages, chains and the index. *)

Normal(t)   == [flag |-> "NORMAL", tuple |-> t]
Redirect(i) == [flag |-> "REDIRECT", to |-> i]
Unused      == [flag |-> "UNUSED"]

At(c)       == heap[c[1]][c[2]]
IsTuple(c)  == c[2] \in DOMAIN heap[c[1]] /\ At(c).flag = "NORMAL"
TupleAt(c)  == At(c).tuple
Ctids       == UNION {{<<p, i>> : i \in DOMAIN heap[p]} : p \in Page}
Tuples      == {c \in Ctids : IsTuple(c)}
RowOf(c)    == [key |-> TupleAt(c).key, val |-> TupleAt(c).val]

\* The successor a chain walk goes to on the same page.
Successor(c) ==
    IF /\ TupleAt(c).hot
       /\ TupleAt(c).ctid[1] = c[1]
       /\ TupleAt(c).ctid[2] # c[2]
    THEN TupleAt(c).ctid[2] ELSE 0

\* hot_search: the first version in the chain from root that snap sees, or 0.
\* The walk takes at most one step per line pointer and one more.
HotSearch(root, snap) ==
    LET p == root[1]
        walk[n \in 0..(Len(heap[p]) + 1)] == [i \in 0..Len(heap[p]) |->
            IF n = 0 \/ i = 0 THEN 0
            ELSE LET lp == heap[p][i] IN
                 CASE lp.flag = "REDIRECT" -> walk[n - 1][lp.to]
                   [] lp.flag = "UNUSED"   -> 0
                   [] OTHER -> IF Visible(lp.tuple, snap) THEN i
                               ELSE walk[n - 1][Successor(<<p, i>>)]]
    IN walk[Len(heap[p]) + 1][root[2]]

\* The versions an index scan for k comes to.
Found(k, snap) ==
    {<<e[2][1], HotSearch(e[2], snap)>> :
        e \in {e \in index : e[1] = k /\ HotSearch(e[2], snap) # 0}}

\* seq_scan.
Scanned(snap) == {c \in Tuples : Visible(TupleAt(c), snap)}

\* Mutant of HasRoom: off by one.
HasRoomForOneMore(p) == used[p] <= Capacity

HasRoom(p)   == used[p] < Capacity
Allocated(p) == p = 0 \/ heap[p] # <<>>
LastPage     == CHOOSE p \in Page : Allocated(p) /\ \A q \in Page : Allocated(q) => q <= p

\* Where insert puts a tuple: on the first page the free space map finds, else
\* on the last page, else on a new one.  The map counts in steps of 32 bytes
\* and may miss a page that has just enough room.
Target(p) ==
    /\ HasRoom(p)
    /\ \/ Allocated(p) /\ \A q \in Page : q < p => ~HasRoom(q)
       \/ p = LastPage
       \/ p = LastPage + 1 /\ ~HasRoom(LastPage)

\* insert_tuple: the first UNUSED line pointer, or a new one.
FreeSlot(h) ==
    LET free == {i \in DOMAIN h : h[i].flag = "UNUSED"} IN
    IF free = {} THEN Len(h) + 1 ELSE Least(free)

\* A redirect, or a version with a successor, leads to slot c[2] of its page.
LedTo(c) ==
    \E i \in DOMAIN heap[c[1]] :
        \/ heap[c[1]][i] = Redirect(c[2])
        \/ IsTuple(<<c[1], i>>) /\ Successor(<<c[1], i>>) = c[2]

\* Where insert_tuple puts a tuple on page p.
Slot(p)  == <<p, FreeSlot(heap[p])>>
Takes(p) == HasRoom(p) /\ (LedTo(Slot(p)) => "slotReused" \in Circumstances)

Put(h, i, lp) == [j \in 1..(IF i > Len(h) THEN i ELSE Len(h)) |-> IF j = i THEN lp ELSE h[j]]

Version(k, x, c) ==
    [key |-> k, val |-> writes + 1, xmin |-> x, xmax |-> 0, ctid |-> c, hot |-> FALSE]

Superseded(t, x, c) == [t EXCEPT !.xmax = x, !.ctid = c]

----------------------------------------------------------------------------
Init ==
    /\ nextXid = 1
    /\ status = [x \in Xid |-> "in_progress"]
    /\ horizons = [x \in Xid |-> 0]
    /\ tx = [s \in Session |-> 0]
    /\ snapshot = [s \in Session |-> NoSnapshot]
    /\ heap = [p \in Page |-> <<>>]
    /\ used = [p \in Page |-> 0]
    /\ index = {}
    /\ locks = {}
    /\ writes = 0

\* begin_transaction of the engine.
Begin(s) ==
    /\ tx[s] = 0
    /\ nextXid \in Xid
    /\ nextXid' = nextXid + 1
    /\ tx' = [tx EXCEPT ![s] = nextXid]
    /\ snapshot' = [snapshot EXCEPT ![s] = SnapshotFor(nextXid, Running)]
    /\ horizons' = [horizons EXCEPT ![nextXid] = SnapshotFor(nextXid, Running).xmin]
    /\ UNCHANGED <<status, rowVars, locks, writes>>

\* commit_transaction and rollback_transaction; abort undoes nothing, the
\* status alone hides what the transaction wrote.
Ends(s, outcome) ==
    /\ tx[s] # 0
    /\ status' = [status EXCEPT ![tx[s]] = outcome]
    /\ horizons' = [horizons EXCEPT ![tx[s]] = 0]
    /\ locks' = {l \in locks : l[2] # tx[s]}
    /\ tx' = [tx EXCEPT ![s] = 0]
    /\ snapshot' = [snapshot EXCEPT ![s] = NoSnapshot]
    /\ UNCHANGED <<nextXid, rowVars, writes>>

Commit(s)   == Ends(s, "committed")
Rollback(s) == Ends(s, "aborted")

\* The model's clients insert an id once, and again only if that came to
\* nothing: the engine does not keep ids unique.
IsNew(k) == \A c \in Tuples : TupleAt(c).key = k => status[TupleAt(c).xmin] = "aborted"

MayWrite(s) == tx[s] # 0 /\ writes < MaxWrites

Insert(s, k) ==
    /\ MayWrite(s)
    /\ IsNew(k)
    /\ \E p \in Page :
          LET c == Slot(p) IN
          /\ Target(p) /\ Takes(p)
          /\ heap' = [heap EXCEPT ![p] = Put(@, c[2], Normal(Version(k, tx[s], c)))]
          /\ used' = [used EXCEPT ![p] = @ + 1]
          /\ index' = index \cup {<<k, c>>}
    /\ writes' = writes + 1
    /\ UNCHANGED <<txVars, locks>>

\* Mutant of Lockable: whoever asks is given the lock.
LockableByAll(s, c) == TRUE

\* try_lock; refused, the statement fails and changes no row.
Lockable(s, c) == \A l \in locks : l[1] = c => l[2] = tx[s]

Overtaken(c) == TupleAt(c).xmax # 0 /\ status[TupleAt(c).xmax] = "committed"

\* The version that UPDATE ... WHERE item_id = k goes to, once it is locked.
\* The code does not look whether it has been superseded since.
Updates(s, k, c) ==
    /\ MayWrite(s)
    /\ c \in Found(k, snapshot[s])
    /\ Lockable(s, c)
    /\ locks' = locks \cup {<<c, tx[s]>>}
    /\ Overtaken(c) => "staleUpdate" \in Circumstances
    /\ writes' = writes + 1
    /\ UNCHANGED txVars

FitsBeside(k, c) == TupleAt(c).key = k /\ HasRoom(c[1])

\* hot_update: the new version goes to the same page and into no index.
HotUpdate(s, k) == \E c \in Ctids :
    /\ Updates(s, k, c)
    /\ FitsBeside(k, c) /\ Takes(c[1])
    /\ LET new == Slot(c[1])
           old == [Superseded(TupleAt(c), tx[s], new) EXCEPT !.hot = TRUE]
       IN heap' = [heap EXCEPT ![c[1]] =
                      Put(Put(@, new[2], Normal(Version(k, tx[s], new))), c[2], Normal(old))]
    /\ used' = [used EXCEPT ![c[1]] = @ + 1]
    /\ UNCHANGED index

\* update: the new version goes where insert puts it, and into the index.  The
\* old one keeps the flag that an earlier hot_update left on it.
ColdUpdate(s, k) == \E c \in Ctids, p \in Page :
    /\ Updates(s, k, c)
    /\ ~FitsBeside(k, c)
    /\ Target(p) /\ Takes(p)
    /\ LET new  == Slot(p)
           with == [heap EXCEPT ![p] = Put(@, new[2], Normal(Version(k, tx[s], new)))]
       IN /\ heap' = [with EXCEPT ![c[1]] =
                         Put(@, c[2], Normal(Superseded(TupleAt(c), tx[s], new)))]
          /\ index' = index \cup {<<k, new>>}
    /\ used' = [used EXCEPT ![p] = @ + 1]

\* What collect_dead takes for dead.
IsDead(t) ==
    \/ status[t.xmin] = "aborted"
    \/ t.xmax \in Xid /\ status[t.xmax] = "committed" /\ PastHorizon(t.xmax)

DeadCtids   == {c \in Tuples : IsDead(TupleAt(c))}
DeadRoots   == {c \in DeadCtids : Successor(c) # 0}
Reclaimable == DeadCtids \ DeadRoots

\* Mutant of Flagged: a dead root is not made a redirect.
FlaggedDead(c) ==
    IF c \in DeadCtids THEN Unused ELSE At(c)

\* The line pointer at c after the three phases: a root becomes a redirect,
\* what is dead goes from DEAD to UNUSED once the index is clean.
Flagged(c) ==
    CASE c \in DeadRoots   -> Redirect(Successor(c))
      [] c \in Reclaimable -> Unused
      [] OTHER             -> At(c)

\* Phase 2: remove_entry for every tuple flagged dead.
Cleaned(dead) == {e \in index : ~\E c \in dead : e = <<TupleAt(c).key, c>>}

\* Vacuum::run.  Only pages on which a slot was freed are defragmented.
Vacuum ==
    /\ DeadCtids # {}
    /\ heap' = [p \in Page |-> [i \in DOMAIN heap[p] |-> Flagged(<<p, i>>)]]
    /\ used' = [p \in Page |->
                  IF \E c \in Reclaimable : c[1] = p
                  THEN Cardinality({c \in Tuples \ DeadCtids : c[1] = p})
                  ELSE used[p]]
    /\ index' = Cleaned(Reclaimable)
    /\ UNCHANGED <<txVars, locks, writes>>

Next ==
    \/ \E s \in Session : Begin(s) \/ Commit(s) \/ Rollback(s)
    \/ \E s \in Session, k \in Key : Insert(s, k) \/ HotUpdate(s, k) \/ ColdUpdate(s, k)
    \/ Vacuum

Spec == Init /\ [][Next]_vars

----------------------------------------------------------------------------
(* Properties. *)

Snapshots == [owner : 0..MaxXid, xmin : 0..MaxXid+1, xmax : 0..MaxXid+1, active : SUBSET Xid]

LinePointerOK(p, lp) ==
    CASE lp.flag = "NORMAL" ->
            /\ lp.tuple.key \in Key /\ lp.tuple.val \in 1..MaxWrites
            /\ lp.tuple.xmin \in Xid /\ lp.tuple.xmax \in Xid \cup {0}
            /\ lp.tuple.ctid \in Ctid /\ lp.tuple.hot \in BOOLEAN
      [] lp.flag = "REDIRECT" -> lp.to \in DOMAIN heap[p]
      [] OTHER -> lp = Unused

TypeOK ==
    /\ nextXid \in 1..MaxXid+1
    /\ status \in [Xid -> Status]
    /\ horizons \in [Xid -> 0..MaxXid+1]
    /\ tx \in [Session -> 0..MaxXid]
    /\ snapshot \in [Session -> Snapshots]
    /\ DOMAIN heap = Page /\ \A p \in Page : \A i \in DOMAIN heap[p] : LinePointerOK(p, heap[p][i])
    /\ used \in [Page -> 0..Capacity]
    /\ index \subseteq Key \X Ctids
    /\ locks \subseteq Ctids \X Xid
    /\ writes \in 0..MaxWrites

\* The snapshot a statement that begins now would take, and all there are.
Fresh   == [owner |-> 0, xmin |-> 0, xmax |-> nextXid, active |-> Running]
Current == {snapshot[s] : s \in {u \in Session : tx[u] # 0}} \cup {Fresh}

\* The table as a transaction saw it when it began: without its own writes.
Before(snap) == [snap EXCEPT !.owner = 0]
RowsIn(snap) == {RowOf(c) : c \in Scanned(snap)}

\* VACUUM removes no version that a transaction in progress still sees
\* (vacuum.cpp:114-118, tx.cpp:40-41): what it takes for dead is invisible in
\* every snapshot that is held.
NothingHeldIsDead ==
    \A s \in Session : tx[s] # 0 =>
        \A c \in Tuples : IsDead(TupleAt(c)) => ~Visible(TupleAt(c), snapshot[s])

\* A lookup through the index comes to exactly the versions a sequential scan
\* finds under that key, and to no other row (page.cpp:62-66, vacuum.cpp:50-53).
IndexFindsRows ==
    \A snap \in Current, k \in Key :
        Found(k, snap) = {c \in Scanned(snap) : TupleAt(c).key = k}

\* No snapshot sees two versions of one row: of two transactions that update
\* it one fails (engine.cpp:294-296).
OneVersionEach ==
    \A snap \in Current : \A c, d \in Scanned(snap) :
        TupleAt(c).key = TupleAt(d).key => c = d

\* What a snapshot takes for past stays past, and nothing else joins it, for as
\* long as the transaction holds it, whoever commits (mvcc.cpp:27-34, 61-68).
RepeatableReads ==
    [][\A s \in Session : tx[s] # 0 /\ tx'[s] = tx[s] =>
          \A x \in Xid \ {tx[s]} : InPast(x, snapshot[s])' = InPast(x, snapshot[s])]_vars

\* The engine gives its sessions snapshot isolation: transactions, updates in
\* chains, index and VACUUM implement SnapshotIsolation.
SI == INSTANCE SnapshotIsolation WITH
        committed <- RowsIn(Fresh),
        open      <- {s \in Session : tx[s] # 0},
        base      <- [s \in Session |-> IF tx[s] = 0 THEN {} ELSE RowsIn(Before(snapshot[s]))],
        view      <- [s \in Session |-> IF tx[s] = 0 THEN {} ELSE RowsIn(snapshot[s])]

ImplementsSI == SI!SISpec
=============================================================================
