---------------------------- MODULE Mvcc_proofs ----------------------------
(* Theorems about Mvcc, for any sessions, keys, pages and bounds, and their   *)
(* proofs: its transactions first, in whatever circumstances, then the rows,  *)
(* the chains they hang on and the index.                                     *)
EXTENDS Mvcc, FiniteSetTheorems, WellFoundedInduction, TLAPS

(***************************************************************************)
(* The inductive invariant.  Ids are handed out in order; what a session   *)
(* holds is the running transaction its snapshot and its horizon belong    *)
(* to, and the snapshot has the older ones that still run among its        *)
(* active: only so does it tell a commit to come from one gone by.         *)
(***************************************************************************)
ManagerOK ==
    /\ nextXid \in 1..MaxXid+1
    /\ status \in [Xid -> Status]
    /\ horizons \in [Xid -> 0..MaxXid+1]
    /\ tx \in [Session -> 0..MaxXid]
    /\ snapshot \in [Session -> Snapshots]
    /\ \A x \in Xid : x >= nextXid => status[x] = "in_progress"

\* What is true of session s while its transaction is open.
Holds(s) ==
    /\ tx[s] \in Running
    /\ snapshot[s].owner = tx[s]
    /\ snapshot[s].xmax = tx[s] + 1
    /\ horizons[tx[s]] = snapshot[s].xmin
    /\ snapshot[s].xmin \in 1..snapshot[s].xmax
    /\ \A x \in snapshot[s].active : snapshot[s].xmin <= x

\* What is true of any two.
Apart(s, u) ==
    /\ tx[s] # tx[u]
    /\ tx[u] < tx[s] => tx[u] \in snapshot[s].active

HoldersOK ==
    /\ \A s \in Session : tx[s] # 0 => Holds(s)
    /\ \A s, u \in Session : s # u /\ tx[s] # 0 /\ tx[u] # 0 => Apart(s, u)

TxInv == ManagerOK /\ HoldersOK

----------------------------------------------------------------------------
\* The least of some numbers is one of them, and none is less (tx.cpp:32-36).
LEMMA LeastIsLeast ==
    ASSUME NEW S \in SUBSET Nat, S # {}
    PROVE  Least(S) \in S /\ \A n \in S : Least(S) <= n
<1>1. PICK m \in S : \A n \in S : ~(<<n, m>> \in OpToRel(<, Nat))
  BY NatLessThanWellFounded, WFMin
<1>2. \A n \in S : m <= n
  <2>1. SUFFICES ASSUME NEW n \in S, n < m PROVE FALSE
    OBVIOUS
  <2>2. <<n, m>> \in OpToRel(<, Nat)
    BY <2>1 DEF OpToRel
  <2> QED BY <1>1, <2>2
<1> QED BY <1>1, <1>2 DEF Least

\* The snapshot a transaction begins with is of the right type, and nothing that
\* ran is below its horizon (tx.cpp:26-47).
LEMMA SnapshotLemma ==
    ASSUME ManagerOK, nextXid \in Xid
    PROVE  LET snap == SnapshotFor(nextXid, Running) IN
           /\ snap \in Snapshots
           /\ snap.owner = nextXid /\ snap.xmax = nextXid + 1 /\ snap.active = Running
           /\ snap.xmin \in 1..snap.xmax
           /\ \A x \in Running : snap.xmin <= x
<1> DEFINE S == Running \cup {nextXid + 1}
<1>1. Running \subseteq Xid /\ Xid \subseteq Nat /\ nextXid \in Nat /\ MaxXid \in Nat
  BY MvccConstants DEF Running, Xid
<1>2. S \in SUBSET Nat /\ S # {}
  BY <1>1
<1>3. Least(S) \in S /\ \A n \in S : Least(S) <= n
  BY <1>2, LeastIsLeast
<1>4. nextXid + 1 \in S /\ \A n \in S : n >= 1
  BY <1>1 DEF Xid
<1> HIDE DEF S
<1>5. Least(S) \in 1..(nextXid + 1) /\ Least(S) \in 0..MaxXid+1
  <2>1. Least(S) \in Nat /\ Least(S) >= 1 /\ Least(S) <= nextXid + 1
    BY <1>2, <1>3, <1>4
  <2>2. nextXid <= MaxXid
    BY <1>1 DEF Xid
  <2> QED BY <1>1, <2>1, <2>2
<1>6. SnapshotFor(nextXid, Running)
        = [owner |-> nextXid, xmin |-> Least(S), xmax |-> nextXid + 1, active |-> Running]
  BY DEF SnapshotFor, S
<1>7. nextXid \in 0..MaxXid /\ nextXid + 1 \in 0..MaxXid+1
  BY <1>1 DEF Xid
<1>8. \A x \in Running : Least(S) <= x
  BY <1>3 DEF S
<1> QED BY <1>1, <1>5, <1>6, <1>7, <1>8 DEF Snapshots

----------------------------------------------------------------------------
(* One lemma for every kind of step. *)

LEMMA InitInv == Init => TxInv
<1> SUFFICES ASSUME Init PROVE TxInv
  OBVIOUS
<1>1. ManagerOK
  BY MvccConstants DEF Init, ManagerOK, Status, NoSnapshot, Snapshots, Xid
<1> QED BY <1>1 DEF Init, TxInv, HoldersOK

\* The new transaction is younger than those that are open, and they are active in
\* its snapshot (tx.cpp:15-24, 26-47).
LEMMA BeginInv ==
    ASSUME TxInv, NEW s \in Session, Begin(s)
    PROVE  TxInv'
<1> DEFINE snap == SnapshotFor(nextXid, Running)
<1>1. /\ snap \in Snapshots
      /\ snap.owner = nextXid /\ snap.xmax = nextXid + 1 /\ snap.active = Running
      /\ snap.xmin \in 1..snap.xmax
      /\ \A x \in Running : snap.xmin <= x
  BY SnapshotLemma DEF Begin, TxInv
<1>2. snap.xmin \in 0..MaxXid+1
  BY <1>1 DEF Snapshots
<1> HIDE DEF snap
<1>3. /\ nextXid \in Xid /\ nextXid' = nextXid + 1 /\ status' = status /\ tx[s] = 0
      /\ tx' = [tx EXCEPT ![s] = nextXid]
      /\ snapshot' = [snapshot EXCEPT ![s] = snap]
      /\ horizons' = [horizons EXCEPT ![nextXid] = snap.xmin]
  BY DEF Begin, snap
<1>4. MaxXid \in Nat /\ Xid \subseteq Nat
  BY MvccConstants DEF Xid
<1>5. ManagerOK'
  <2>1. nextXid' \in 1..MaxXid+1 /\ nextXid \in 0..MaxXid
    BY <1>3, <1>4 DEF Xid
  <2>2. /\ status' \in [Xid -> Status]
        /\ horizons' \in [Xid -> 0..MaxXid+1]
        /\ tx' \in [Session -> 0..MaxXid]
        /\ snapshot' \in [Session -> Snapshots]
    BY <1>1, <1>2, <1>3, <2>1 DEF TxInv, ManagerOK
  <2>3. \A x \in Xid : x >= nextXid' => status'[x] = "in_progress"
    BY <1>3, <1>4 DEF TxInv, ManagerOK
  <2> QED BY <2>1, <2>2, <2>3 DEF ManagerOK
<1>6. \A x \in Running : x # nextXid /\ x < nextXid /\ x \in Xid
  BY DEF Running, Xid
<1>7. Running' = Running \cup {nextXid}
  BY <1>3, <1>4 DEF TxInv, ManagerOK, Running, Xid
<1>8. ASSUME NEW u \in Session, tx'[u] # 0
      PROVE  Holds(u)'
  <2>1. CASE u = s
    <3>1. tx'[s] = nextXid /\ snapshot'[s] = snap /\ horizons'[nextXid] = snap.xmin
      BY <1>3 DEF TxInv, ManagerOK
    <3> QED BY <1>1, <1>3, <1>7, <2>1, <3>1 DEF Holds
  <2>2. CASE u # s
    <3>1. tx'[u] = tx[u] /\ snapshot'[u] = snapshot[u] /\ Holds(u)
      BY <1>3, <1>8, <2>2 DEF TxInv, ManagerOK, HoldersOK
    <3>2. horizons'[tx[u]] = horizons[tx[u]]
      BY <1>3, <1>6, <3>1 DEF Holds, TxInv, ManagerOK
    <3> QED BY <1>7, <3>1, <3>2 DEF Holds
  <2> QED BY <2>1, <2>2
<1>9. ASSUME NEW u \in Session, NEW v \in Session, u # v, tx'[u] # 0, tx'[v] # 0
      PROVE  Apart(u, v)'
  <2>1. \A w \in Session \ {s} : /\ tx'[w] = tx[w] /\ snapshot'[w] = snapshot[w]
                                 /\ tx[w] # 0 => tx[w] \in Running
    BY <1>3 DEF TxInv, ManagerOK, HoldersOK, Holds
  <2>2. tx'[s] = nextXid /\ snapshot'[s].active = Running
    BY <1>1, <1>3 DEF TxInv, ManagerOK
  <2>3. CASE u = s
    BY <1>6, <1>9, <2>1, <2>2, <2>3 DEF Apart
  <2>4. CASE v = s
    <3>1. tx[u] \in Running /\ tx'[u] = tx[u] /\ tx'[v] = nextXid
      BY <1>9, <2>1, <2>2, <2>4
    <3>2. tx[u] < nextXid /\ tx[u] \in Nat /\ nextXid \in Nat
      BY <1>3, <1>4, <1>6, <3>1
    <3> QED BY <3>1, <3>2 DEF Apart
  <2>5. CASE u # s /\ v # s
    BY <1>9, <2>1, <2>5 DEF Apart, TxInv, HoldersOK
  <2> QED BY <2>3, <2>4, <2>5
<1> QED BY <1>5, <1>8, <1>9 DEF TxInv, HoldersOK

\* No other session has the transaction that ends (tx.cpp:76-92).
LEMMA EndsInv ==
    ASSUME TxInv, NEW s \in Session, NEW outcome \in Status \ {"in_progress"}, Ends(s, outcome)
    PROVE  TxInv'
<1>1. /\ tx[s] # 0 /\ nextXid' = nextXid
      /\ status' = [status EXCEPT ![tx[s]] = outcome]
      /\ horizons' = [horizons EXCEPT ![tx[s]] = 0]
      /\ tx' = [tx EXCEPT ![s] = 0]
      /\ snapshot' = [snapshot EXCEPT ![s] = NoSnapshot]
  BY DEF Ends
<1>2. tx[s] \in Running /\ tx[s] < nextXid /\ tx[s] \in Xid
  BY <1>1 DEF TxInv, HoldersOK, Holds, Running
<1>3. MaxXid \in Nat /\ Xid \subseteq Nat
  BY MvccConstants DEF Xid
<1>4. ManagerOK'
  <2>1. NoSnapshot \in Snapshots
    BY <1>3 DEF NoSnapshot, Snapshots
  <2>2. \A x \in Xid : x >= nextXid => x # tx[s]
    BY <1>2, <1>3 DEF TxInv, ManagerOK
  <2> QED BY <1>1, <1>2, <1>3, <2>1, <2>2 DEF TxInv, ManagerOK
<1>5. \A u \in Session \ {s} : /\ tx'[u] = tx[u] /\ snapshot'[u] = snapshot[u]
                               /\ tx[u] # 0 => tx[u] # tx[s] /\ Holds(u)
  BY <1>1 DEF TxInv, ManagerOK, HoldersOK, Apart
<1>6. tx'[s] = 0
  BY <1>1 DEF TxInv, ManagerOK
<1>7. \A x \in Running \ {tx[s]} : x \in Running' /\ horizons'[x] = horizons[x]
  BY <1>1 DEF TxInv, ManagerOK, Running
<1>8. ASSUME NEW u \in Session, tx'[u] # 0
      PROVE  Holds(u)'
  BY <1>5, <1>6, <1>7, <1>8 DEF Holds
<1>9. ASSUME NEW u \in Session, NEW v \in Session, u # v, tx'[u] # 0, tx'[v] # 0
      PROVE  Apart(u, v)'
  BY <1>5, <1>6, <1>9 DEF Apart, TxInv, HoldersOK
<1> QED BY <1>4, <1>8, <1>9 DEF TxInv, HoldersOK

\* Nothing else touches the transaction manager or a session.
LEMMA KeepsInv == TxInv /\ UNCHANGED txVars => TxInv'
  BY DEF TxInv, ManagerOK, HoldersOK, Holds, Apart, Running, txVars

LEMMA RowStep ==
    ASSUME \/ \E s \in Session, k \in Key : Insert(s, k) \/ HotUpdate(s, k) \/ ColdUpdate(s, k)
           \/ Vacuum
           \/ UNCHANGED vars
    PROVE  UNCHANGED txVars
<1>1. ASSUME NEW s \in Session, NEW k \in Key, Insert(s, k) PROVE UNCHANGED txVars
  BY <1>1 DEF Insert
<1>2. ASSUME NEW s \in Session, NEW k \in Key, HotUpdate(s, k) PROVE UNCHANGED txVars
  <2>1. \E c \in Ctids : Updates(s, k, c)
    BY <1>2 DEF HotUpdate
  <2> QED BY <2>1 DEF Updates
<1>3. ASSUME NEW s \in Session, NEW k \in Key, ColdUpdate(s, k) PROVE UNCHANGED txVars
  <2>1. \E c \in Ctids : Updates(s, k, c)
    BY <1>3 DEF ColdUpdate
  <2> QED BY <2>1 DEF Updates
<1>4. ASSUME Vacuum PROVE UNCHANGED txVars
  BY <1>4 DEF Vacuum
<1>5. ASSUME UNCHANGED vars PROVE UNCHANGED txVars
  BY <1>5 DEF vars, txVars
<1> QED BY <1>1, <1>2, <1>3, <1>4, <1>5

LEMMA NextInv == TxInv /\ [Next]_vars => TxInv'
<1> SUFFICES ASSUME TxInv, [Next]_vars PROVE TxInv'
  OBVIOUS
<1>1. ASSUME NEW s \in Session, Begin(s) PROVE TxInv'
  BY <1>1, BeginInv
<1>2. ASSUME NEW s \in Session, Commit(s) PROVE TxInv'
  BY <1>2, EndsInv DEF Commit, Status
<1>3. ASSUME NEW s \in Session, Rollback(s) PROVE TxInv'
  BY <1>3, EndsInv DEF Rollback, Status
<1>4. ASSUME \/ \E s \in Session, k \in Key : Insert(s, k) \/ HotUpdate(s, k) \/ ColdUpdate(s, k)
             \/ Vacuum
             \/ UNCHANGED vars
      PROVE  TxInv'
  BY <1>4, RowStep, KeepsInv
<1> QED BY <1>1, <1>2, <1>3, <1>4 DEF Next

\* The transaction manager's invariant.
THEOREM SpecTxInv == Spec => []TxInv
  BY InitInv, NextInv, PTL DEF Spec

----------------------------------------------------------------------------
(* The properties. *)

\* What VACUUM takes for dead is invisible to all who still read: an id below every
\* horizon is below xmin of every snapshot that is held, hence below its xmax and not
\* among its active (vacuum.cpp:33-43, tx.cpp:59-74).
LEMMA HeldLemma == TxInv => NothingHeldIsDead
<1> SUFFICES ASSUME TxInv, NEW s \in Session, tx[s] # 0,
                    NEW c \in Tuples, IsDead(TupleAt(c))
             PROVE  ~Visible(TupleAt(c), snapshot[s])
  BY DEF NothingHeldIsDead
<1> DEFINE t    == TupleAt(c)
           snap == snapshot[s]
<1>1. Holds(s) /\ status[tx[s]] = "in_progress" /\ snap \in Snapshots
  BY DEF TxInv, ManagerOK, HoldersOK, Holds, Running
<1>2. CASE status[t.xmin] = "aborted"
  BY <1>1, <1>2 DEF Visible, InPast, Holds
<1>3. CASE t.xmax \in Xid /\ status[t.xmax] = "committed" /\ PastHorizon(t.xmax)
  <2> DEFINE x == t.xmax
  <2>1. x \in Nat /\ x # 0
    BY <1>3, MvccConstants DEF Xid
  <2>2. snap.xmin \in Nat /\ snap.xmax \in Nat /\ snap.xmin # 0 /\ snap.xmin <= snap.xmax
    BY <1>1, MvccConstants DEF Holds, Snapshots
  <2>3. x < snap.xmin
    <3>1. tx[s] \in Running /\ horizons[tx[s]] = snap.xmin
      BY <1>1 DEF Holds
    <3>2. snap.xmin \in Bounds
      BY <2>2, <3>1 DEF Bounds
    <3> QED BY <1>3, <3>2 DEF PastHorizon
  <2>4. x \notin snap.active
    <3> SUFFICES ASSUME x \in snap.active PROVE FALSE
      OBVIOUS
    <3>1. snap.xmin <= x
      BY <1>1 DEF Holds
    <3> QED BY <2>1, <2>2, <2>3, <3>1
  <2>5. x < snap.xmax
    BY <2>1, <2>2, <2>3
  <2>6. InPast(x, snap)
    BY <1>3, <2>4, <2>5 DEF InPast
  <2> QED BY <2>1, <2>6 DEF Visible
<1> QED BY <1>2, <1>3 DEF IsDead

\* VACUUM removes nothing that a transaction in progress still sees, however
\* transactions and VACUUM interleave (vacuum.cpp:114-118, tx.cpp:40-41).
THEOREM SpecNothingHeldIsDead == Spec => []NothingHeldIsDead
  BY SpecTxInv, HeldLemma, PTL

\* A snapshot takes no commit to come for past: who commits while it is held was
\* among its active, or came later (mvcc.cpp:27-34, 61-68).
LEMMA PastStays ==
    ASSUME TxInv, [Next]_vars, NEW s \in Session, tx[s] # 0, tx'[s] = tx[s],
           NEW x \in Xid \ {tx[s]}
    PROVE  InPast(x, snapshot[s])' = InPast(x, snapshot[s])
<1>1. ASSUME NEW u \in Session, Begin(u) PROVE InPast(x, snapshot[s])' = InPast(x, snapshot[s])
  <2>1. u # s /\ status' = status /\ snapshot'[s] = snapshot[s]
    BY <1>1 DEF Begin, TxInv, ManagerOK
  <2> QED BY <2>1 DEF InPast
<1>2. ASSUME NEW u \in Session, NEW outcome \in Status, Ends(u, outcome)
      PROVE  InPast(x, snapshot[s])' = InPast(x, snapshot[s])
  <2>1. /\ u # s /\ tx[u] # 0 /\ snapshot'[s] = snapshot[s]
        /\ status' = [status EXCEPT ![tx[u]] = outcome]
    BY <1>2 DEF Ends, TxInv, ManagerOK
  <2>2. CASE x # tx[u]
    <3>1. status'[x] = status[x]
      BY <2>1, <2>2 DEF TxInv, ManagerOK
    <3> QED BY <2>1, <3>1 DEF InPast
  <2>3. CASE x = tx[u]
    <3>1. status[x] = "in_progress"
      BY <2>1, <2>3 DEF TxInv, HoldersOK, Holds, Running
    <3>2. Holds(s) /\ Apart(s, u) /\ tx[s] \in Nat /\ x \in Nat
      BY <2>1, MvccConstants DEF TxInv, ManagerOK, HoldersOK, Xid
    <3>3. x \in snapshot[s].active \/ ~(x < snapshot[s].xmax)
      BY <2>3, <3>2 DEF Holds, Apart
    <3> QED BY <2>1, <3>1, <3>3 DEF InPast
  <2> QED BY <2>2, <2>3
<1>3. ASSUME NEW u \in Session, Commit(u) \/ Rollback(u)
      PROVE  InPast(x, snapshot[s])' = InPast(x, snapshot[s])
  BY <1>2, <1>3 DEF Commit, Rollback, Status
<1>4. ASSUME UNCHANGED txVars PROVE InPast(x, snapshot[s])' = InPast(x, snapshot[s])
  BY <1>4 DEF InPast, txVars
<1> QED BY <1>1, <1>3, <1>4, RowStep DEF Next

\* Reads are repeatable: as long as a transaction is open its snapshot takes the same
\* transactions for past, whoever commits in the meantime (mvcc.cpp:27-34, 61-68).
THEOREM SpecRepeatableReads == Spec => RepeatableReads
<1>1. TxInv /\ [Next]_vars =>
        [\A s \in Session : tx[s] # 0 /\ tx'[s] = tx[s] =>
            \A x \in Xid \ {tx[s]} : InPast(x, snapshot[s])' = InPast(x, snapshot[s])]_vars
  BY PastStays
<1> QED BY <1>1, SpecTxInv, PTL DEF Spec, RepeatableReads

----------------------------------------------------------------------------
(***************************************************************************)
(* The rows.  Of the versions of one row that no rollback has undone, the  *)
(* older one is superseded, and whoever takes the newer one's creator for  *)
(* past takes the transaction that superseded the older one for past too.  *)
(* That is what keeps two versions from being visible at once, and it      *)
(* needs the lock an update takes, and that it goes to no version which a  *)
(* committed transaction has superseded: NoStaleUpdate.                    *)
(***************************************************************************)
NoStaleUpdate == "staleUpdate" \notin Circumstances
Undisturbed   == Circumstances = {}

Tuple   == [key : Key, val : 1..MaxWrites, xmin : Xid, xmax : Xid \cup {0}, ctid : Ctid,
            hot : BOOLEAN]
Pointer == {Normal(t) : t \in Tuple} \cup {Redirect(i) : i \in Nat} \cup {Unused}

Heaps   == [Page -> Seq(Pointer)]

HeapTyped == heap \in Heaps

RowsTyped ==
    /\ HeapTyped
    /\ index \subseteq Key \X Ctids
    /\ writes \in 0..MaxWrites
    /\ \A c \in Ctids : At(c).flag = "REDIRECT" => At(c).to \in 1..Len(heap[c[1]])
    /\ \A c \in Tuples : TupleAt(c).ctid \in Ctids

LEMMA PointerKinds ==
    ASSUME NEW lp \in Pointer
    PROVE  \/ lp.flag = "NORMAL" /\ lp.tuple \in Tuple /\ lp = Normal(lp.tuple)
           \/ lp.flag = "REDIRECT" /\ lp.to \in Nat /\ lp = Redirect(lp.to)
           \/ lp.flag = "UNUSED" /\ lp = Unused
<1>1. ASSUME NEW t \in Tuple, lp = Normal(t)
      PROVE  lp.flag = "NORMAL" /\ lp.tuple \in Tuple /\ lp = Normal(lp.tuple)
  BY <1>1 DEF Normal
<1>2. ASSUME NEW i \in Nat, lp = Redirect(i)
      PROVE  lp.flag = "REDIRECT" /\ lp.to \in Nat /\ lp = Redirect(lp.to)
  BY <1>2 DEF Redirect
<1>3. ASSUME lp = Unused PROVE lp.flag = "UNUSED"
  BY <1>3 DEF Unused
<1> QED BY <1>1, <1>2, <1>3 DEF Pointer

CtidsOK ==
    /\ Ctids \subseteq Ctid
    /\ \A p \in Page, i \in Nat : <<p, i>> \in Ctids <=> i \in 1..Len(heap[p])
    /\ \A c \in Ctids : c[1] \in Page /\ c[2] \in 1..Len(heap[c[1]]) /\ c = <<c[1], c[2]>>
    /\ \A c \in Ctids : At(c) \in Pointer

LEMMA CtidIs == HeapTyped => CtidsOK
<1> SUFFICES ASSUME HeapTyped PROVE CtidsOK
  OBVIOUS
<1>1. \A p \in Page : heap[p] \in Seq(Pointer) /\ DOMAIN heap[p] = 1..Len(heap[p])
                      /\ Len(heap[p]) \in Nat
  BY DEF HeapTyped, Heaps
<1>2. \A p \in Page, i \in Nat : <<p, i>> \in Ctids <=> i \in 1..Len(heap[p])
  BY <1>1 DEF Ctids
<1>3. ASSUME NEW c \in Ctids
      PROVE  /\ c[1] \in Page /\ c[2] \in 1..Len(heap[c[1]]) /\ c = <<c[1], c[2]>>
             /\ At(c) \in Pointer /\ c \in Ctid
  <2>1. PICK p \in Page : \E i \in DOMAIN heap[p] : c = <<p, i>>
    BY DEF Ctids
  <2>2. PICK i \in DOMAIN heap[p] : c = <<p, i>>
    BY <2>1
  <2>3. c[1] = p /\ c[2] = i /\ i \in 1..Len(heap[p])
    BY <1>1, <2>2
  <2>4. heap[p][i] \in Pointer
    BY <1>1, <2>3
  <2> QED BY <1>1, <2>2, <2>3, <2>4 DEF At, Ctid
<1> QED BY <1>2, <1>3 DEF CtidsOK

LEMMA CtidIsNext == HeapTyped' => CtidsOK'
  BY CtidIs, PTL

LEMMA TupleIs ==
    ASSUME HeapTyped
    PROVE  /\ \A c \in Tuples : /\ c \in Ctids /\ At(c) = Normal(TupleAt(c)) /\ At(c).flag = "NORMAL"
                                /\ TupleAt(c) \in Tuple
           /\ \A c \in Ctids : c \in Tuples <=> At(c).flag = "NORMAL"
<1>1. \A c \in Ctids : At(c) \in Pointer /\ c[2] \in DOMAIN heap[c[1]]
  <2>1. \A p \in Page : DOMAIN heap[p] = 1..Len(heap[p])
    BY DEF HeapTyped, Heaps
  <2> QED BY <2>1, CtidIs DEF CtidsOK
<1>2. \A c \in Ctids : c \in Tuples <=> At(c).flag = "NORMAL"
  BY <1>1 DEF Tuples, IsTuple
<1> QED BY <1>1, <1>2, PointerKinds DEF Tuples, TupleAt

TuplesOK ==
    /\ \A c \in Tuples : /\ c \in Ctids /\ At(c) = Normal(TupleAt(c)) /\ At(c).flag = "NORMAL"
                         /\ TupleAt(c) \in Tuple
    /\ \A c \in Ctids : c \in Tuples <=> At(c).flag = "NORMAL"

LEMMA TupleIsNow == HeapTyped => TuplesOK
  BY TupleIs DEF TuplesOK

LEMMA TupleIsNext == HeapTyped' => TuplesOK'
  BY TupleIsNow, PTL

\* What a chain walk goes to lies on the page (page.h, heap.cpp).
LEMMA SuccessorIs ==
    ASSUME RowsTyped, NEW c \in Tuples
    PROVE  /\ Successor(c) \in 0..Len(heap[c[1]])
           /\ Successor(c) # 0 => Successor(c) # c[2] /\ <<c[1], Successor(c)>> \in Ctids
<1>1. /\ TupleAt(c).ctid \in Ctids /\ c \in Ctids
  BY TupleIs DEF RowsTyped
<1>2. CASE TupleAt(c).ctid[1] = c[1]
  <2>1. /\ TupleAt(c).ctid[2] \in 1..Len(heap[c[1]]) /\ TupleAt(c).ctid = <<c[1], TupleAt(c).ctid[2]>>
        /\ Len(heap[c[1]]) \in Nat
    BY <1>1, <1>2, CtidIs DEF CtidsOK, RowsTyped, HeapTyped, Heaps
  <2> QED BY <1>1, <2>1 DEF Successor
<1>3. CASE TupleAt(c).ctid[1] # c[1]
  BY <1>1, <1>3, CtidIs DEF CtidsOK, Successor, RowsTyped, HeapTyped, Heaps
<1> QED BY <1>2, <1>3

\* Where a page with the line pointers h may get another one.
Places(h) == 1..Len(h)+1

IsPut(h2, h, i, lp) ==
    /\ h2 \in Seq(Pointer)
    /\ Len(h2) = IF i > Len(h) THEN i ELSE Len(h)
    /\ \A j \in 1..Len(h2) : h2[j] = IF j = i THEN lp ELSE h[j]

\* Put stores a line pointer and disturbs no other (page.cpp).
LEMMA PutStores ==
    ASSUME NEW h \in Seq(Pointer), NEW i \in Places(h), NEW lp \in Pointer
    PROVE  IsPut(Put(h, i, lp), h, i, lp)
<1> DEFINE n == IF i > Len(h) THEN i ELSE Len(h)
<1>1. Len(h) \in Nat /\ n \in Nat /\ i \in Nat
  BY DEF Places
<1>2. \A j \in 1..n : j # i => h[j] \in Pointer
  BY DEF Places
<1>3. Put(h, i, lp) = [j \in 1..n |-> IF j = i THEN lp ELSE h[j]]
  BY DEF Put
<1>4. \A j \in 1..n : (IF j = i THEN lp ELSE h[j]) \in Pointer
  BY <1>2
<1> HIDE DEF n
<1>5. Put(h, i, lp) \in Seq(Pointer) /\ Len(Put(h, i, lp)) = n
  BY <1>1, <1>3, <1>4
<1> QED BY <1>3, <1>5 DEF n, IsPut

\* A tuple never takes a slot that another one has (page.cpp, insert_tuple).
LEMMA FreeSlotIs ==
    ASSUME NEW h \in Seq(Pointer)
    PROVE  /\ FreeSlot(h) \in 1..Len(h)+1
           /\ FreeSlot(h) \in 1..Len(h) => h[FreeSlot(h)].flag = "UNUSED"
<1> DEFINE free == {i \in DOMAIN h : h[i].flag = "UNUSED"}
<1>1. CASE free = {}
  BY <1>1 DEF FreeSlot
<1>2. CASE free # {}
  <2>1. free \in SUBSET Nat /\ free \subseteq 1..Len(h)
    OBVIOUS
  <2>2. Least(free) \in free
    BY <1>2, <2>1, LeastIsLeast
  <2>3. FreeSlot(h) = Least(free)
    BY <1>2 DEF FreeSlot
  <2> QED BY <2>1, <2>2, <2>3
<1> QED BY <1>1, <1>2

PutIn(g, p, i, lp) == [g EXCEPT ![p] = Put(@, i, lp)]

IsPutIn(g2, g, p, i, lp) ==
    /\ g2 \in Heaps
    /\ IsPut(g2[p], g[p], i, lp)
    /\ \A q \in Page : q # p => g2[q] = g[q]

LEMMA PutAt ==
    ASSUME NEW g \in Heaps, NEW p \in Page,
           NEW i \in Places(g[p]), NEW lp \in Pointer
    PROVE  IsPutIn(PutIn(g, p, i, lp), g, p, i, lp)
<1>1. g[p] \in Seq(Pointer) /\ PutIn(g, p, i, lp)[p] = Put(g[p], i, lp)
  BY DEF PutIn, Heaps
<1>2. IsPut(Put(g[p], i, lp), g[p], i, lp)
  BY <1>1, PutStores
<1>3. Put(g[p], i, lp) \in Seq(Pointer)
  BY <1>2 DEF IsPut
<1> QED BY <1>1, <1>2, <1>3 DEF PutIn, IsPutIn, Heaps

LEMMA SlotIs ==
    ASSUME HeapTyped, NEW p \in Page
    PROVE  /\ Slot(p) \in Ctid /\ Slot(p)[1] = p /\ Slot(p)[2] \in Places(heap[p])
           /\ Slot(p) \in Ctids => At(Slot(p)) = Unused
<1>1. heap[p] \in Seq(Pointer) /\ Len(heap[p]) \in Nat
  BY DEF HeapTyped, Heaps
<1>2. FreeSlot(heap[p]) \in 1..Len(heap[p])+1 /\ Slot(p) = <<p, FreeSlot(heap[p])>>
  BY <1>1, FreeSlotIs DEF Slot
<1>3. ASSUME Slot(p) \in Ctids PROVE At(Slot(p)) = Unused
  <2>1. FreeSlot(heap[p]) \in 1..Len(heap[p])
    BY <1>2, <1>3, CtidIs DEF CtidsOK
  <2>2. At(Slot(p)).flag = "UNUSED" /\ At(Slot(p)) \in Pointer
    BY <1>1, <1>2, <1>3, <2>1, FreeSlotIs, CtidIs DEF CtidsOK, At
  <2> QED BY <2>2, PointerKinds
<1> QED BY <1>1, <1>2, <1>3 DEF Ctid, Places

----------------------------------------------------------------------------
(* What Insert and both updates have in common: x puts a version of k at    *)
(* new, in the place of the versions in old, and leaves the other slots.    *)

Adds(x, k, new, old) ==
    /\ x \in Xid /\ k \in Key
    /\ writes < MaxWrites /\ writes' = writes + 1
    /\ new \in Ctid
    /\ new \in Ctids => At(new) = Unused
    /\ HeapTyped'
    /\ Ctids' = Ctids \cup {new}
    /\ At(new)' = Normal(Version(k, x, new))
    /\ old \subseteq Tuples
    /\ \A c \in old : \E h \in BOOLEAN :
          At(c)' = Normal([Superseded(TupleAt(c), x, new) EXCEPT !.hot = h])
    /\ \A c \in Ctids \ (old \cup {new}) : At(c)' = At(c)
    /\ UNCHANGED txVars

LEMMA VersionTyped ==
    ASSUME NEW k \in Key, NEW x \in Xid, NEW c \in Ctid, writes \in 0..MaxWrites, writes < MaxWrites
    PROVE  Version(k, x, c) \in Tuple /\ Normal(Version(k, x, c)) \in Pointer
<1>1. writes + 1 \in 1..MaxWrites
  BY MvccConstants
<1>2. Version(k, x, c) \in Tuple
  BY <1>1 DEF Version, Tuple
<1> QED BY <1>2 DEF Pointer

LEMMA SupersededTyped ==
    ASSUME NEW t \in Tuple, NEW x \in Xid, NEW c \in Ctid, NEW h \in BOOLEAN
    PROVE  /\ [Superseded(t, x, c) EXCEPT !.hot = h] \in Tuple
           /\ Normal([Superseded(t, x, c) EXCEPT !.hot = h]) \in Pointer
           /\ Superseded(t, x, c) = [Superseded(t, x, c) EXCEPT !.hot = t.hot]
<1>1. [Superseded(t, x, c) EXCEPT !.hot = h] \in Tuple
  BY DEF Superseded, Tuple
<1>2. Superseded(t, x, c) = [Superseded(t, x, c) EXCEPT !.hot = t.hot]
  BY DEF Superseded, Tuple
<1> QED BY <1>1, <1>2 DEF Pointer

\* Insert stores one tuple (heap.cpp, insert).
LEMMA InsertStores ==
    ASSUME RowsTyped, NEW p \in Page, NEW k \in Key, NEW x \in Xid, NEW new, new = Slot(p),
           writes < MaxWrites, writes' = writes + 1, UNCHANGED txVars,
           heap' = PutIn(heap, p, new[2], Normal(Version(k, x, new)))
    PROVE  Adds(x, k, new, {})
<1>1. /\ new \in Ctid /\ new = <<p, new[2]>> /\ new[2] \in Places(heap[p])
      /\ new \in Ctids => At(new) = Unused
      /\ new[1] = p
  BY SlotIs DEF RowsTyped, Ctid
<1>2. PICK lp \in Pointer : lp = Normal(Version(k, x, new))
  BY <1>1, VersionTyped DEF RowsTyped
<1>3. /\ heap \in Heaps
      /\ heap' = PutIn(heap, p, new[2], lp)
  BY <1>2 DEF RowsTyped, HeapTyped, Heaps
<1>4. /\ heap' \in Heaps
      /\ \A q \in Page : Len(heap'[q]) = IF q = p /\ new[2] > Len(heap[p]) THEN new[2] ELSE Len(heap[q])
      /\ \A q \in Page : \A j \in 1..Len(heap'[q]) :
            heap'[q][j] = IF q = p /\ j = new[2] THEN lp ELSE heap[q][j]
  <2>1. IsPutIn(heap', heap, p, new[2], lp)
    BY <1>1, <1>3, PutAt
  <2> QED BY <2>1 DEF IsPutIn, IsPut, Heaps
<1>5. HeapTyped'
  BY <1>4 DEF HeapTyped, Heaps
<1>6. \A q \in Page, i \in Nat : <<q, i>> \in Ctids' <=> <<q, i>> \in Ctids \/ <<q, i>> = new
  <2>1. \A q \in Page : Len(heap[q]) \in Nat
    BY <1>3
  <2>2. \A q \in Page, i \in Nat : <<q, i>> \in Ctids <=> i \in 1..Len(heap[q])
    BY CtidIs DEF CtidsOK, RowsTyped
  <2>3. \A q \in Page, i \in Nat : <<q, i>> \in Ctids' <=> i \in 1..Len(heap'[q])
    BY <1>5, CtidIsNext DEF CtidsOK
  <2>4. \A q \in Page, i \in Nat : i \in 1..Len(heap'[q]) <=> i \in 1..Len(heap[q]) \/ (q = p /\ i = new[2])
    BY <1>1, <1>4, <2>1 DEF Places
  <2>5. \A q \in Page, i \in Nat : <<q, i>> = new <=> q = p /\ i = new[2]
    BY <1>1
  <2> QED BY <2>2, <2>3, <2>4, <2>5
<1>7. Ctids' = Ctids \cup {new}
  <2>1. Ctids \subseteq Ctid /\ Ctids' \subseteq Ctid
    BY <1>5, CtidIs, CtidIsNext DEF CtidsOK, RowsTyped
  <2> QED BY <1>1, <1>6, <2>1 DEF Ctid
<1>8. \A c \in Ctids' : At(c)' = IF c = new THEN lp ELSE At(c)
  <2>1. \A c \in Ctids' : c[1] \in Page /\ c[2] \in 1..Len(heap'[c[1]]) /\ c = <<c[1], c[2]>>
    BY <1>5, CtidIsNext DEF CtidsOK
  <2> QED BY <1>1, <1>4, <2>1 DEF At
<1> QED BY <1>1, <1>2, <1>5, <1>7, <1>8 DEF Adds, RowsTyped

\* An update stores two, the new version and what becomes of the old one (heap.cpp,
\* update and hot_update).
LEMMA UpdateStores ==
    ASSUME RowsTyped, NEW p \in Page, NEW k \in Key, NEW x \in Xid, NEW new, new = Slot(p),
           NEW c \in Tuples, NEW h \in BOOLEAN, NEW with,
           writes < MaxWrites, writes' = writes + 1, UNCHANGED txVars,
           with = PutIn(heap, p, new[2], Normal(Version(k, x, new))),
           heap' = PutIn(with, c[1], c[2],
                         Normal([Superseded(TupleAt(c), x, new) EXCEPT !.hot = h]))
    PROVE  Adds(x, k, new, {c}) /\ TupleAt(c)'.hot = h
<1>1. /\ new \in Ctid /\ new = <<p, new[2]>> /\ new[2] \in Places(heap[p])
      /\ new \in Ctids => At(new) = Unused
      /\ new[1] = p
  BY SlotIs DEF RowsTyped, Ctid
<1>2. PICK lp \in Pointer : lp = Normal(Version(k, x, new))
  BY <1>1, VersionTyped DEF RowsTyped
<1>3. PICK lq \in Pointer : lq = Normal([Superseded(TupleAt(c), x, new) EXCEPT !.hot = h])
  BY <1>1, SupersededTyped, TupleIs DEF RowsTyped
<1>4. /\ heap \in Heaps
      /\ \A q \in Page : Len(heap[q]) \in Nat
      /\ with = PutIn(heap, p, new[2], lp)
      /\ heap' = PutIn(with, c[1], c[2], lq)
  BY <1>2, <1>3 DEF RowsTyped, HeapTyped, Heaps
<1>5. /\ c[1] \in Page /\ c[2] \in 1..Len(heap[c[1]]) /\ c = <<c[1], c[2]>> /\ c \in Ctids
      /\ c # new
  <2>1. c \in Ctids /\ At(c).flag = "NORMAL"
    BY TupleIs DEF RowsTyped
  <2>2. Unused.flag # "NORMAL"
    BY DEF Unused
  <2> QED BY <1>1, <2>1, <2>2, CtidIs DEF CtidsOK, RowsTyped
<1>6. /\ with \in Heaps
      /\ \A q \in Page : Len(with[q]) = IF q = p /\ new[2] > Len(heap[p]) THEN new[2] ELSE Len(heap[q])
      /\ \A q \in Page : \A j \in 1..Len(with[q]) :
            with[q][j] = IF q = p /\ j = new[2] THEN lp ELSE heap[q][j]
  <2>1. IsPutIn(with, heap, p, new[2], lp)
    BY <1>1, <1>4, PutAt
  <2> QED BY <2>1 DEF IsPutIn, IsPut, Heaps
<1>7. c[2] \in 1..Len(with[c[1]]) /\ c[2] \in Places(with[c[1]]) /\ ~(c[2] > Len(with[c[1]]))
  BY <1>1, <1>4, <1>5, <1>6 DEF Places
<1>8. /\ heap' \in Heaps
      /\ \A q \in Page : Len(heap'[q]) = IF q = c[1] /\ c[2] > Len(with[c[1]]) THEN c[2] ELSE Len(with[q])
      /\ \A q \in Page : \A j \in 1..Len(heap'[q]) :
            heap'[q][j] = IF q = c[1] /\ j = c[2] THEN lq ELSE with[q][j]
  <2>1. IsPutIn(heap', with, c[1], c[2], lq)
    BY <1>4, <1>5, <1>6, <1>7, PutAt
  <2>2. /\ heap' \in Heaps /\ \A q \in Page : q # c[1] => heap'[q] = with[q]
        /\ Len(heap'[c[1]]) = IF c[2] > Len(with[c[1]]) THEN c[2] ELSE Len(with[c[1]])
        /\ \A j \in 1..Len(heap'[c[1]]) : heap'[c[1]][j] = IF j = c[2] THEN lq ELSE with[c[1]][j]
    BY <2>1 DEF IsPutIn, IsPut
  <2> QED BY <2>2
<1>9. HeapTyped' /\ \A q \in Page : Len(heap'[q]) = Len(with[q])
  BY <1>7, <1>8 DEF HeapTyped, Heaps
<1>10. \A q \in Page, i \in Nat : <<q, i>> \in Ctids' <=> <<q, i>> \in Ctids \/ <<q, i>> = new
  <2>2. \A q \in Page, i \in Nat : <<q, i>> \in Ctids <=> i \in 1..Len(heap[q])
    BY CtidIs DEF CtidsOK, RowsTyped
  <2>3. \A q \in Page, i \in Nat : <<q, i>> \in Ctids' <=> i \in 1..Len(heap'[q])
    BY <1>9, CtidIsNext DEF CtidsOK
  <2>4. \A q \in Page, i \in Nat : i \in 1..Len(heap'[q]) <=> i \in 1..Len(heap[q]) \/ (q = p /\ i = new[2])
    <3>1. \A q \in Page :
            Len(heap'[q]) = IF q = p /\ new[2] > Len(heap[p]) THEN new[2] ELSE Len(heap[q])
      BY <1>6, <1>9
    <3>2. new[2] \in 1..Len(heap[p])+1 /\ \A q \in Page : Len(heap[q]) \in Nat
      BY <1>1, <1>4 DEF Places
    <3> SUFFICES ASSUME NEW q \in Page, NEW i \in Nat
                 PROVE  i \in 1..Len(heap'[q]) <=> i \in 1..Len(heap[q]) \/ (q = p /\ i = new[2])
      OBVIOUS
    <3>3. CASE q = p
      <4>1. PICK m \in Nat : m = Len(heap[p])
        BY <3>2
      <4>2. PICK n \in 1..m+1 : n = new[2]
        BY <3>2, <4>1
      <4>3. Len(heap'[p]) = IF n > m THEN n ELSE m
        BY <3>1, <4>1, <4>2
      <4> QED BY <3>3, <4>1, <4>2, <4>3
    <3>4. CASE q # p
      BY <3>1, <3>4
    <3> QED BY <3>3, <3>4
  <2>5. \A q \in Page, i \in Nat : <<q, i>> = new <=> q = p /\ i = new[2]
    BY <1>1
  <2>6. ASSUME NEW q \in Page, NEW i \in Nat
        PROVE  <<q, i>> \in Ctids' <=> <<q, i>> \in Ctids \/ <<q, i>> = new
    <3>1. <<q, i>> \in Ctids' <=> i \in 1..Len(heap[q]) \/ (q = p /\ i = new[2])
      BY <2>3, <2>4
    <3> QED BY <2>2, <2>5, <3>1
  <2> QED BY <2>6
<1>11. Ctids' = Ctids \cup {new}
  <2>1. Ctids \subseteq Ctid /\ Ctids' \subseteq Ctid
    BY <1>9, CtidIs, CtidIsNext DEF CtidsOK, RowsTyped
  <2> QED BY <1>1, <1>10, <2>1 DEF Ctid
<1>12. \A d \in Ctids' : At(d)' = IF d = c THEN lq ELSE IF d = new THEN lp ELSE At(d)
  <2>1. \A d \in Ctids' : d[1] \in Page /\ d[2] \in 1..Len(heap'[d[1]]) /\ d = <<d[1], d[2]>>
    BY <1>9, CtidIsNext DEF CtidsOK
  <2>2. SUFFICES ASSUME NEW d \in Ctids'
                 PROVE  heap'[d[1]][d[2]] = IF d = c THEN lq ELSE IF d = new THEN lp ELSE heap[d[1]][d[2]]
    BY DEF At
  <2>3. (d = c <=> d[1] = c[1] /\ d[2] = c[2]) /\ (d = new <=> d[1] = p /\ d[2] = new[2])
    <3>1. d = <<d[1], d[2]>> /\ c = <<c[1], c[2]>> /\ new = <<p, new[2]>>
      BY <1>1, <1>5, <2>1
    <3> QED BY <3>1
  <2>4. d[1] \in Page /\ d[2] \in 1..Len(heap'[d[1]]) /\ d[2] \in 1..Len(with[d[1]])
    BY <1>9, <2>1
  <2>5. heap'[d[1]][d[2]] = IF d = c THEN lq ELSE with[d[1]][d[2]]
    <3>1. PICK q, i : q = d[1] /\ i = d[2]
      OBVIOUS
    <3>2. heap'[q][i] = IF q = c[1] /\ i = c[2] THEN lq ELSE with[q][i]
      BY <1>8, <2>4, <3>1
    <3> QED BY <2>3, <3>1, <3>2
  <2>6. with[d[1]][d[2]] = IF d = new THEN lp ELSE heap[d[1]][d[2]]
    <3>1. PICK q, i : q = d[1] /\ i = d[2]
      OBVIOUS
    <3>2. with[q][i] = IF q = p /\ i = new[2] THEN lp ELSE heap[q][i]
      BY <1>6, <2>4, <3>1
    <3> QED BY <2>3, <3>1, <3>2
  <2> QED BY <2>5, <2>6
<1>13. At(c)' = lq /\ At(new)' = lp /\ \A d \in Ctids \ ({c} \cup {new}) : At(d)' = At(d)
  BY <1>5, <1>11, <1>12
<1>14. TupleAt(c)'.hot = h
  <2>1. PICK t, u : t = TupleAt(c) /\ u = TupleAt(c)'
    OBVIOUS
  <2>2. u = [Superseded(t, x, new) EXCEPT !.hot = h] /\ t \in Tuple
    BY <1>3, <1>13, <2>1, TupleIs DEF RowsTyped, TupleAt, Normal
  <2> QED BY <2>1, <2>2 DEF Superseded, Tuple
<1> QED BY <1>1, <1>2, <1>3, <1>9, <1>11, <1>13, <1>14 DEF Adds, RowsTyped

----------------------------------------------------------------------------
(* The walk along a chain (heap.cpp, hot_search).  HotSearch is a recursive *)
(* function; that there is one, and what it returns, follows by taking the  *)
(* least number of steps for which it would not be so.                      *)

\* What w returns from slot i with n steps left, if it is right for fewer.
OneStep(w, p, snap, n, i) ==
    LET lp == heap[p][i] IN
    CASE lp.flag = "REDIRECT" -> w[n - 1][lp.to]
      [] lp.flag = "UNUSED"   -> 0
      [] OTHER -> IF Visible(lp.tuple, snap) THEN i
                  ELSE w[n - 1][Successor(<<p, i>>)]

\* What w returns from every slot with n steps left.
OneRow(w, p, snap, n) ==
    [i \in 0..Len(heap[p]) |-> IF n = 0 \/ i = 0 THEN 0 ELSE OneStep(w, p, snap, n, i)]

IsWalk(w, p, snap, m) == w = [n \in 0..m |-> OneRow(w, p, snap, n)]

LEMMA HotSearchIs ==
    ASSUME NEW root, NEW snap
    PROVE  HotSearch(root, snap) =
               (CHOOSE w : IsWalk(w, root[1], snap, Len(heap[root[1]]) + 1))
                   [Len(heap[root[1]]) + 1][root[2]]
  BY DEF HotSearch, IsWalk, OneRow, OneStep

\* Where a step leads.
Onward(p, i) ==
    IF heap[p][i].flag = "REDIRECT" THEN heap[p][i].to ELSE Successor(<<p, i>>)

LEMMA OnwardIs ==
    ASSUME RowsTyped, NEW p \in Page, NEW i \in 1..Len(heap[p])
    PROVE  LET lp == heap[p][i] IN
           /\ lp.flag \in {"NORMAL", "REDIRECT", "UNUSED"}
           /\ lp.flag # "UNUSED" => Onward(p, i) \in 0..Len(heap[p])
<1> DEFINE c == <<p, i>>
<1>1. Len(heap[p]) \in Nat /\ c \in Ctids /\ c[1] = p /\ c[2] = i
  BY CtidIs DEF CtidsOK, RowsTyped, HeapTyped, Heaps
<1>2. At(c) = heap[p][i] /\ At(c) \in Pointer
  BY <1>1, CtidIs DEF CtidsOK, RowsTyped, At
<1>3. heap[p][i].flag \in {"NORMAL", "REDIRECT", "UNUSED"}
  BY <1>2, PointerKinds
<1>4. heap[p][i].flag = "NORMAL" => Successor(c) \in 0..Len(heap[p])
  BY <1>1, <1>2, TupleIs, SuccessorIs DEF RowsTyped
<1>5. heap[p][i].flag = "REDIRECT" => heap[p][i].to \in 1..Len(heap[p])
  BY <1>1, <1>2 DEF RowsTyped
<1> QED BY <1>1, <1>3, <1>4, <1>5 DEF Onward

LEMMA OneStepIs ==
    ASSUME NEW p, NEW i, NEW w, NEW snap, NEW n
    PROVE  LET lp == heap[p][i] IN
           /\ lp.flag = "UNUSED" => OneStep(w, p, snap, n, i) = 0
           /\ lp.flag = "REDIRECT" => OneStep(w, p, snap, n, i) = w[n - 1][Onward(p, i)]
           /\ lp.flag = "NORMAL" =>
                 OneStep(w, p, snap, n, i) =
                     IF Visible(lp.tuple, snap) THEN i ELSE w[n - 1][Onward(p, i)]
<1>1. CASE heap[p][i].flag = "UNUSED"
  BY <1>1 DEF OneStep
<1>2. CASE heap[p][i].flag = "REDIRECT"
  <2>1. Onward(p, i) = heap[p][i].to
    BY <1>2 DEF Onward
  <2> QED BY <1>2, <2>1 DEF OneStep
<1>3. CASE heap[p][i].flag = "NORMAL"
  <2>1. Onward(p, i) = Successor(<<p, i>>)
    BY <1>3 DEF Onward
  <2> QED BY <1>3, <2>1 DEF OneStep
<1> QED BY <1>1, <1>2, <1>3

LEMMA WalkExists ==
    ASSUME RowsTyped, NEW p \in Page, NEW snap, NEW k \in Nat
    PROVE  \E w : IsWalk(w, p, snap, k)
<1> DEFINE L   == Len(heap[p])
           Bad == {m \in 0..k : ~\E w : IsWalk(w, p, snap, m)}
<1>0. L \in Nat
  BY DEF RowsTyped, HeapTyped, Heaps
<1>1. SUFFICES ASSUME Bad # {} PROVE FALSE
  OBVIOUS
<1>2. PICK m \in 0..k : m \in Bad /\ \A n \in Bad : m <= n
  <2>1. Bad \in SUBSET Nat /\ Bad \subseteq 0..k
    OBVIOUS
  <2> HIDE DEF Bad
  <2> QED BY <1>1, <2>1, LeastIsLeast
<1>3. m # 0
  <2> DEFINE w == [n \in 0..0 |-> OneRow(<<>>, p, snap, n)]
  <2>1. OneRow(w, p, snap, 0) = OneRow(<<>>, p, snap, 0)
    BY DEF OneRow
  <2>2. IsWalk(w, p, snap, 0)
    BY <2>1 DEF IsWalk
  <2> QED BY <1>2, <2>2
<1>4. m - 1 \in 0..k /\ m - 1 \notin Bad
  BY <1>2, <1>3
<1>5. PICK v : IsWalk(v, p, snap, m - 1)
  BY <1>4
<1> DEFINE w == [n \in 0..m |-> OneRow(v, p, snap, n)]
<1>6. \A n \in 0..(m - 1) : w[n] = v[n]
  BY <1>5 DEF IsWalk
<1>7. ASSUME NEW n \in 0..m PROVE OneRow(v, p, snap, n) = OneRow(w, p, snap, n)
  <2> SUFFICES ASSUME n # 0, NEW i \in 0..L, i # 0
               PROVE  OneStep(v, p, snap, n, i) = OneStep(w, p, snap, n, i)
    BY DEF OneRow
  <2> HIDE DEF w
  <2>1. n - 1 \in 0..(m - 1) /\ i \in 1..L
    BY <1>0, <1>2
  <2>2. v[n - 1][Onward(p, i)] = w[n - 1][Onward(p, i)]
    BY <1>6, <2>1
  <2> QED BY <2>1, <2>2, OnwardIs, OneStepIs
<1>8. w = [n \in 0..m |-> OneRow(w, p, snap, n)]
  BY <1>7
<1>9. IsWalk(w, p, snap, m)
  BY <1>8 DEF IsWalk
<1> QED BY <1>2, <1>9

\* w holds what the walk returns from every slot of p with any number of steps left.
Walks(w, p, snap) ==
    /\ \A r : HotSearch(<<p, r>>, snap) = w[Len(heap[p]) + 1][r]
    /\ \A n \in 0..(Len(heap[p]) + 1), i \in 0..Len(heap[p]) :
          w[n][i] = IF n = 0 \/ i = 0 THEN 0 ELSE OneStep(w, p, snap, n, i)

LEMMA WalkIs ==
    ASSUME RowsTyped, NEW p \in Page, NEW snap
    PROVE  \E w : Walks(w, p, snap)
<1> DEFINE M == Len(heap[p]) + 1
           v == CHOOSE w : IsWalk(w, p, snap, M)
<1>1. M \in Nat
  BY DEF RowsTyped, HeapTyped, Heaps
<1>2. \E w : IsWalk(w, p, snap, M)
  BY <1>1, WalkExists
<1>3. IsWalk(v, p, snap, M)
  <2> HIDE DEF M
  <2> QED BY <1>2
<1>4. \A r : HotSearch(<<p, r>>, snap) = v[M][r]
  BY HotSearchIs
<1> HIDE DEF v
<1>5. \A n \in 0..M : v[n] = OneRow(v, p, snap, n)
  BY <1>3 DEF IsWalk
<1>6. \A n \in 0..M, i \in 0..Len(heap[p]) :
         v[n][i] = IF n = 0 \/ i = 0 THEN 0 ELSE OneStep(v, p, snap, n, i)
  BY <1>5 DEF OneRow
<1> QED BY <1>4, <1>6 DEF Walks

\* What the slots of a chain have in common.
LinksKeep(label) ==
    \A p \in Page : \A i \in 1..Len(heap[p]) :
        heap[p][i].flag # "UNUSED" /\ Onward(p, i) # 0 =>
            label[<<p, Onward(p, i)>>] = label[<<p, i>>]

\* A walk returns a version that the snapshot sees, in the chain it began in.
LEMMA WalkSound ==
    ASSUME RowsTyped, NEW label, LinksKeep(label), NEW p \in Page, NEW r \in 1..Len(heap[p]),
           NEW snap, HotSearch(<<p, r>>, snap) # 0
    PROVE  LET c == <<p, HotSearch(<<p, r>>, snap)>> IN
           c \in Tuples /\ Visible(TupleAt(c), snap) /\ label[c] = label[<<p, r>>]
<1> DEFINE L == Len(heap[p])
           Right(j, i) == /\ <<p, j>> \in Tuples /\ Visible(TupleAt(<<p, j>>), snap)
                          /\ label[<<p, j>>] = label[<<p, i>>]
<1>1. PICK w : Walks(w, p, snap)
  BY WalkIs
<1>2. /\ \A s : HotSearch(<<p, s>>, snap) = w[L + 1][s]
      /\ \A n \in 0..(L + 1), i \in 0..L :
            w[n][i] = IF n = 0 \/ i = 0 THEN 0 ELSE OneStep(w, p, snap, n, i)
  BY <1>1 DEF Walks
<1>3. L \in Nat
  BY DEF RowsTyped, HeapTyped, Heaps
<1> DEFINE Bad == {n \in 0..(L + 1) : \E i \in 1..L : w[n][i] # 0 /\ ~Right(w[n][i], i)}
<1>4. ASSUME Bad # {} PROVE FALSE
  <2>1. PICK n \in Bad : \A m \in Bad : n <= m
    <3>1. Bad \in SUBSET Nat
      OBVIOUS
    <3> HIDE DEF Bad
    <3> QED BY <1>4, <3>1, LeastIsLeast
  <2>2. PICK i \in 1..L : w[n][i] # 0 /\ ~Right(w[n][i], i)
    BY <2>1
  <2>3. n \in 1..(L + 1) /\ i \in 0..L /\ i # 0 /\ w[n][i] = OneStep(w, p, snap, n, i)
    <3>1. n \in 0..(L + 1)
      BY <2>1
    <3>2. i \in 0..L /\ i # 0
      BY <1>3
    <3>3. w[n][i] = IF n = 0 \/ i = 0 THEN 0 ELSE OneStep(w, p, snap, n, i)
      BY <1>2, <3>1, <3>2
    <3>4. n # 0
      BY <2>2, <3>3
    <3> QED BY <1>3, <3>1, <3>2, <3>3, <3>4
  <2>4. n - 1 \in 0..(L + 1) /\ n - 1 \notin Bad
    <3>1. n - 1 \in 0..(L + 1) /\ ~(n <= n - 1)
      BY <1>3, <2>3
    <3> HIDE DEF Bad
    <3> QED BY <2>1, <3>1
  <2>5. ASSUME heap[p][i].flag # "UNUSED", w[n][i] = w[n - 1][Onward(p, i)] PROVE FALSE
    <3>1. Onward(p, i) \in 0..L
      BY <2>5, OnwardIs
    <3>2. Onward(p, i) # 0
      <4>1. Onward(p, i) = 0 => w[n - 1][Onward(p, i)] = 0
        BY <1>2, <1>3, <2>4, <3>1
      <4> QED BY <2>2, <2>5, <4>1
    <3>3. Onward(p, i) \in 1..L /\ w[n - 1][Onward(p, i)] # 0
      BY <1>3, <2>2, <2>5, <3>1, <3>2
    <3>4. Right(w[n - 1][Onward(p, i)], Onward(p, i))
      BY <2>4, <3>3
    <3>5. label[<<p, Onward(p, i)>>] = label[<<p, i>>]
      BY <2>5, <3>2 DEF LinksKeep
    <3> QED BY <2>2, <2>5, <3>4, <3>5
  <2>6. CASE heap[p][i].flag = "NORMAL" /\ Visible(heap[p][i].tuple, snap)
    <3>1. w[n][i] = i
      BY <2>3, <2>6, OneStepIs
    <3>2. <<p, i>> \in Ctids /\ At(<<p, i>>) = heap[p][i]
      BY <1>3, CtidIs DEF CtidsOK, RowsTyped, At
    <3>3. <<p, i>> \in Tuples /\ TupleAt(<<p, i>>) = heap[p][i].tuple
      BY <2>6, <3>2, TupleIs DEF RowsTyped, TupleAt
    <3> QED BY <2>2, <2>6, <3>1, <3>3
  <2> QED BY <2>2, <2>3, <2>5, <2>6, OnwardIs, OneStepIs
<1>5. L + 1 \in 0..(L + 1) /\ L + 1 \notin Bad
  <2>1. L + 1 \in 0..(L + 1)
    BY <1>3
  <2> HIDE DEF Bad
  <2> QED BY <1>4, <2>1
<1>6. w[L + 1][r] # 0
  BY <1>2
<1>7. Right(w[L + 1][r], r)
  BY <1>5, <1>6
<1> QED BY <1>2, <1>7

----------------------------------------------------------------------------
(* What a statement that writes does to the tuples. *)

KeptBut(c, x, new) ==
    \E h \in BOOLEAN : TupleAt(c)' = [Superseded(TupleAt(c), x, new) EXCEPT !.hot = h]

LEMMA AddsTuples ==
    ASSUME RowsTyped, NEW x, NEW k, NEW new, NEW old, Adds(x, k, new, old)
    PROVE  /\ new \notin Tuples /\ new \in Tuples' /\ new \in Ctids'
           /\ Tuples' = Tuples \cup {new}
           /\ TupleAt(new)' = Version(k, x, new)
           /\ \A c \in Tuples \ old : TupleAt(c)' = TupleAt(c)
           /\ \A c \in old : c \in Tuples /\ KeptBut(c, x, new)
           /\ \A c \in Ctids : c \notin Tuples /\ c # new => At(c)' = At(c)
           /\ HeapTyped'
<1>1. HeapTyped /\ HeapTyped' /\ Ctids' = Ctids \cup {new} /\ old \subseteq Tuples
  BY DEF Adds, RowsTyped
<1>2. \A t : Normal(t).flag = "NORMAL" /\ Normal(t).tuple = t
  BY DEF Normal
<1>3. /\ \A c \in Tuples : c \in Ctids /\ At(c).flag = "NORMAL"
      /\ \A c \in Ctids : c \in Tuples <=> At(c).flag = "NORMAL"
  BY <1>1, TupleIs
<1>4. \A c \in Ctids' : c \in Tuples' <=> At(c)'.flag = "NORMAL"
  BY <1>1, TupleIsNext DEF TuplesOK
<1>5. \A c \in Tuples' : c \in Ctids'
  BY DEF Tuples
<1>6. new \notin Tuples
  <2>1. Unused.flag # "NORMAL"
    BY DEF Unused
  <2> QED BY <1>3, <2>1 DEF Adds
<1>7. new \in Tuples' /\ TupleAt(new)' = Version(k, x, new)
  <2>1. At(new)' = Normal(Version(k, x, new))
    BY DEF Adds
  <2> QED BY <1>1, <1>2, <1>4, <2>1 DEF TupleAt
<1>8. ASSUME NEW c \in old PROVE c \in Tuples /\ c \in Tuples' /\ KeptBut(c, x, new)
  <2>1. PICK h \in BOOLEAN : At(c)' = Normal([Superseded(TupleAt(c), x, new) EXCEPT !.hot = h])
    BY <1>8 DEF Adds
  <2>2. TupleAt(c)' = [Superseded(TupleAt(c), x, new) EXCEPT !.hot = h]
    BY <1>2, <2>1 DEF TupleAt
  <2>3. c \in Tuples /\ c \in Ctids'
    BY <1>1, <1>3, <1>8
  <2> QED BY <1>2, <1>4, <2>1, <2>2, <2>3 DEF KeptBut
<1>9. ASSUME NEW c \in Ctids, c \notin old, c # new
      PROVE  At(c)' = At(c) /\ (c \in Tuples' <=> c \in Tuples)
  <2>1. At(c)' = At(c)
    BY <1>9 DEF Adds
  <2> QED BY <1>1, <1>3, <1>4, <1>9, <2>1
<1>10. \A c \in Tuples \ old : TupleAt(c)' = TupleAt(c)
  BY <1>3, <1>6, <1>9 DEF TupleAt
<1>11. Tuples' = Tuples \cup {new}
  BY <1>1, <1>3, <1>5, <1>7, <1>8, <1>9
<1> QED BY <1>1, <1>6, <1>7, <1>8, <1>9, <1>10, <1>11

\* No statement changes a version's key, value or creator.
Added(x, k, new, old) ==
    /\ \A c \in Tuples : /\ TupleAt(c)'.key = TupleAt(c).key
                         /\ TupleAt(c)'.val = TupleAt(c).val
                         /\ TupleAt(c)'.xmin = TupleAt(c).xmin
    /\ \A c \in Tuples \ old : TupleAt(c)' = TupleAt(c)
    /\ \A c \in old : TupleAt(c)'.xmax = x /\ TupleAt(c)'.ctid = new
    /\ TupleAt(new)'.key = k /\ TupleAt(new)'.val = writes + 1
    /\ TupleAt(new)'.xmin = x /\ TupleAt(new)'.xmax = 0
    /\ TupleAt(new)'.ctid = new /\ TupleAt(new)'.hot = FALSE

LEMMA AddsFields ==
    ASSUME RowsTyped, NEW x, NEW k, NEW new, NEW old, Adds(x, k, new, old)
    PROVE  Added(x, k, new, old)
<1>1. ASSUME NEW c \in old
      PROVE  /\ TupleAt(c)'.key = TupleAt(c).key
             /\ TupleAt(c)'.val = TupleAt(c).val
             /\ TupleAt(c)'.xmin = TupleAt(c).xmin
             /\ TupleAt(c)'.xmax = x /\ TupleAt(c)'.ctid = new
  <2>1. c \in Tuples /\ KeptBut(c, x, new)
    BY <1>1, AddsTuples
  <2>2. PICK h \in BOOLEAN : TupleAt(c)' = [Superseded(TupleAt(c), x, new) EXCEPT !.hot = h]
    BY <2>1 DEF KeptBut
  <2>3. TupleAt(c) \in Tuple
    BY <2>1, TupleIs DEF RowsTyped
  <2>4. PICK t, u : t = TupleAt(c) /\ u = TupleAt(c)'
    OBVIOUS
  <2>5. t \in Tuple /\ u = [Superseded(t, x, new) EXCEPT !.hot = h]
    BY <2>2, <2>3, <2>4
  <2>6. u.key = t.key /\ u.val = t.val /\ u.xmin = t.xmin /\ u.xmax = x /\ u.ctid = new
    BY <2>5 DEF Superseded, Tuple
  <2> QED BY <2>4, <2>6
<1>2. \A c \in Tuples \ old : TupleAt(c)' = TupleAt(c)
  BY AddsTuples
<1>3. TupleAt(new)' = Version(k, x, new)
  BY AddsTuples
<1> QED BY <1>1, <1>2, <1>3 DEF Version, Added

\* What UPDATE ... WHERE item_id = k goes to is a version its snapshot sees.
LEMMA FoundIs ==
    ASSUME RowsTyped, NEW label, LinksKeep(label), NEW k, NEW snap, NEW c \in Found(k, snap)
    PROVE  /\ c \in Tuples /\ Visible(TupleAt(c), snap)
           /\ \E e \in index : e[1] = k /\ label[c] = label[e[2]]
<1>1. PICK e \in index : /\ e[1] = k /\ HotSearch(e[2], snap) # 0
                         /\ c = <<e[2][1], HotSearch(e[2], snap)>>
  BY DEF Found
<1>2. e[2] \in Ctids
  BY DEF RowsTyped
<1>3. e[2][1] \in Page /\ e[2][2] \in 1..Len(heap[e[2][1]]) /\ e[2] = <<e[2][1], e[2][2]>>
  BY <1>2, CtidIs DEF CtidsOK, RowsTyped
<1>4. PICK p, r : p \in Page /\ p = e[2][1] /\ r = e[2][2] /\ r \in 1..Len(heap[p]) /\ e[2] = <<p, r>>
  BY <1>3
<1>5. HotSearch(<<p, r>>, snap) # 0 /\ c = <<p, HotSearch(<<p, r>>, snap)>>
  BY <1>1, <1>4
<1>6. c \in Tuples /\ Visible(TupleAt(c), snap) /\ label[c] = label[<<p, r>>]
  BY <1>4, <1>5, WalkSound
<1> QED BY <1>1, <1>4, <1>6

\* A label that all slots have.
LEMMA FoundSeen ==
    ASSUME RowsTyped, NEW k, NEW snap, NEW c \in Found(k, snap)
    PROVE  c \in Tuples /\ Visible(TupleAt(c), snap)
<1>1. PICK label : label = [d \in Ctid |-> 0]
  OBVIOUS
<1>2. LinksKeep(label)
  <2> SUFFICES ASSUME NEW p \in Page, NEW i \in 1..Len(heap[p]),
                      heap[p][i].flag # "UNUSED", Onward(p, i) # 0
               PROVE  label[<<p, Onward(p, i)>>] = label[<<p, i>>]
    BY DEF LinksKeep
  <2>1. Len(heap[p]) \in Nat /\ Onward(p, i) \in 0..Len(heap[p])
    BY OnwardIs DEF RowsTyped, HeapTyped, Heaps
  <2>2. <<p, Onward(p, i)>> \in Ctid /\ <<p, i>> \in Ctid
    BY <2>1 DEF Ctid
  <2> QED BY <1>1, <2>2
<1> QED BY <1>2, FoundIs

LEMMA TxTyped ==
    ASSUME TxInv, NEW s \in Session, tx[s] # 0
    PROVE  tx[s] \in Xid /\ tx[s] \in Running /\ tx[s] < nextXid
  BY DEF TxInv, HoldersOK, Holds, Running

\* A page with room takes another tuple.
Fills(p) == p \in Page /\ HasRoom(p) /\ used' = [used EXCEPT ![p] = @ + 1]

LEMMA InsertIs ==
    ASSUME RowsTyped, TxInv, NEW s \in Session, NEW k \in Key, Insert(s, k), NEW x, x = tx[s]
    PROVE  \E new : /\ Adds(x, k, new, {})
                    /\ index' = index \cup {<<k, new>>} /\ locks' = locks
                    /\ Fills(new[1])
                    /\ Undisturbed => ~LedTo(new)
<1>1. tx[s] # 0 /\ writes < MaxWrites /\ writes' = writes + 1 /\ UNCHANGED <<txVars, locks>>
  BY DEF Insert, MayWrite
<1>2. x \in Xid
  BY <1>1, TxTyped
<1>3. PICK p \in Page :
        /\ Takes(p)
        /\ heap' = [heap EXCEPT ![p] = Put(@, Slot(p)[2], Normal(Version(k, tx[s], Slot(p))))]
        /\ index' = index \cup {<<k, Slot(p)>>} /\ used' = [used EXCEPT ![p] = @ + 1]
  BY DEF Insert
<1>4. PICK new : new = Slot(p)
  OBVIOUS
<1>5. heap' = PutIn(heap, p, new[2], Normal(Version(k, x, new)))
  BY <1>3, <1>4 DEF PutIn
<1>6. Undisturbed => ~LedTo(new)
  BY <1>3, <1>4 DEF Takes, Undisturbed
<1>7. Adds(x, k, new, {})
  BY <1>1, <1>2, <1>4, <1>5, InsertStores
<1>8. Fills(new[1])
  <2>1. new[1] = p
    BY <1>4, SlotIs DEF RowsTyped
  <2> QED BY <1>3, <2>1 DEF Fills, Takes
<1> QED BY <1>1, <1>3, <1>4, <1>6, <1>7, <1>8

Rewrites(s, k, x, c, new) ==
    /\ tx[s] # 0 /\ c \in Tuples /\ Visible(TupleAt(c), snapshot[s])
    /\ Updates(s, k, c)
    /\ Adds(x, k, new, {c}) /\ Fills(new[1])
    /\ Undisturbed => ~LedTo(new)
    /\ \/ index' = index /\ c[1] = new[1] /\ TupleAt(c)'.hot = TRUE /\ TupleAt(c).key = k
       \/ index' = index \cup {<<k, new>>}

LEMMA HotUpdateIs ==
    ASSUME RowsTyped, TxInv, NEW s \in Session, NEW k \in Key, HotUpdate(s, k), NEW x, x = tx[s]
    PROVE  \E c, new : Rewrites(s, k, x, c, new)
<1>1. PICK c \in Ctids :
        /\ Updates(s, k, c) /\ FitsBeside(k, c) /\ Takes(c[1])
        /\ heap' = [heap EXCEPT ![c[1]] =
                      Put(Put(@, Slot(c[1])[2], Normal(Version(k, tx[s], Slot(c[1])))), c[2],
                          Normal([Superseded(TupleAt(c), tx[s], Slot(c[1])) EXCEPT !.hot = TRUE]))]
        /\ index' = index /\ used' = [used EXCEPT ![c[1]] = @ + 1]
  BY DEF HotUpdate
<1>2. /\ tx[s] # 0 /\ writes < MaxWrites /\ writes' = writes + 1 /\ UNCHANGED txVars
      /\ c \in Found(k, snapshot[s])
  BY <1>1 DEF Updates, MayWrite
<1>3. x \in Xid
  BY <1>2, TxTyped
<1>4. c \in Tuples /\ Visible(TupleAt(c), snapshot[s])
  BY <1>2, FoundSeen
<1>5. c[1] \in Page
  BY CtidIs DEF CtidsOK, RowsTyped
<1>6. PICK new : new = Slot(c[1])
  OBVIOUS
<1>7. PICK with : with = PutIn(heap, c[1], new[2], Normal(Version(k, x, new)))
  OBVIOUS
<1>8. heap' = PutIn(with, c[1], c[2],
                    Normal([Superseded(TupleAt(c), x, new) EXCEPT !.hot = TRUE]))
  <2> DEFINE v == Normal(Version(k, x, new))
             o == Normal([Superseded(TupleAt(c), x, new) EXCEPT !.hot = TRUE])
  <2>1. heap' = [heap EXCEPT ![c[1]] = Put(Put(@, new[2], v), c[2], o)]
    BY <1>1, <1>6
  <2>2. heap \in [Page -> Seq(Pointer)]
    BY DEF RowsTyped, HeapTyped, Heaps
  <2> HIDE DEF v, o
  <2>3. with = [heap EXCEPT ![c[1]] = Put(@, new[2], v)]
    BY <1>7 DEF PutIn, v
  <2>4. heap' = [with EXCEPT ![c[1]] = Put(@, c[2], o)]
    BY <1>5, <2>1, <2>2, <2>3
  <2> QED BY <2>4 DEF PutIn, o
<1>9. Adds(x, k, new, {c}) /\ TupleAt(c)'.hot = TRUE
  BY <1>2, <1>3, <1>4, <1>5, <1>6, <1>7, <1>8, UpdateStores
<1>10. Undisturbed => ~LedTo(new)
  BY <1>1, <1>6 DEF Takes, Undisturbed
<1>11. TupleAt(c).key = k
  BY <1>1 DEF FitsBeside
<1>12. new[1] = c[1]
  BY <1>5, <1>6, SlotIs DEF RowsTyped
<1>13. Fills(new[1])
  BY <1>1, <1>5, <1>12 DEF Fills, Takes
<1> QED BY <1>1, <1>2, <1>4, <1>9, <1>10, <1>11, <1>12, <1>13 DEF Rewrites

LEMMA ColdUpdateIs ==
    ASSUME RowsTyped, TxInv, NEW s \in Session, NEW k \in Key, ColdUpdate(s, k), NEW x, x = tx[s]
    PROVE  \E c, new : Rewrites(s, k, x, c, new)
<1>1. PICK c \in Ctids, p \in Page :
        /\ Updates(s, k, c) /\ Takes(p)
        /\ heap' = [[heap EXCEPT ![p] = Put(@, Slot(p)[2], Normal(Version(k, tx[s], Slot(p))))]
                      EXCEPT ![c[1]] = Put(@, c[2], Normal(Superseded(TupleAt(c), tx[s], Slot(p))))]
        /\ index' = index \cup {<<k, Slot(p)>>} /\ used' = [used EXCEPT ![p] = @ + 1]
  BY DEF ColdUpdate
<1>2. /\ tx[s] # 0 /\ writes < MaxWrites /\ writes' = writes + 1 /\ UNCHANGED txVars
      /\ c \in Found(k, snapshot[s])
  BY <1>1 DEF Updates, MayWrite
<1>3. x \in Xid
  BY <1>2, TxTyped
<1>4. c \in Tuples /\ Visible(TupleAt(c), snapshot[s])
  BY <1>2, FoundSeen
<1>5. TupleAt(c) \in Tuple
  BY <1>4, TupleIs DEF RowsTyped
<1>6. PICK new : new = Slot(p)
  OBVIOUS
<1>7. PICK with : with = PutIn(heap, p, new[2], Normal(Version(k, x, new)))
  OBVIOUS
<1>8. PICK h \in BOOLEAN : h = TupleAt(c).hot
  BY <1>5 DEF Tuple
<1>9. heap' = PutIn(with, c[1], c[2], Normal(Superseded(TupleAt(c), x, new)))
  BY <1>1, <1>6, <1>7 DEF PutIn
<1>10. Superseded(TupleAt(c), x, new) = [Superseded(TupleAt(c), x, new) EXCEPT !.hot = h]
  <2>1. new \in Ctid
    BY <1>6, SlotIs DEF RowsTyped
  <2> QED BY <1>3, <1>5, <1>8, <2>1, SupersededTyped
<1>11. heap' = PutIn(with, c[1], c[2], Normal([Superseded(TupleAt(c), x, new) EXCEPT !.hot = h]))
  BY <1>9, <1>10
<1>12. Adds(x, k, new, {c})
  BY <1>2, <1>3, <1>4, <1>6, <1>7, <1>11, UpdateStores
<1>13. Undisturbed => ~LedTo(new)
  BY <1>1, <1>6 DEF Takes, Undisturbed
<1>14. Fills(new[1])
  <2>1. new[1] = p
    BY <1>6, SlotIs DEF RowsTyped
  <2> QED BY <1>1, <2>1 DEF Fills, Takes
<1> QED BY <1>1, <1>2, <1>4, <1>6, <1>12, <1>13, <1>14 DEF Rewrites

----------------------------------------------------------------------------
(* What holds of every version, in whatever circumstances. *)

\* Of two open transactions the younger one has what the older one ran beside, and
\* what still runs, among its active.
ActivesOK ==
    \A s \in Session : tx[s] # 0 =>
        /\ \A w \in Running : w < tx[s] => w \in snapshot[s].active
        /\ \A u \in Session : tx[u] # 0 /\ tx[u] < tx[s] =>
              \A w \in snapshot[s].active : w < tx[u] => w \in snapshot[u].active

\* Who has superseded a version and still runs holds its lock, and has seen it.
VersionOK(c) ==
    LET t == TupleAt(c) IN
    /\ t.val <= writes /\ t.xmin < nextXid /\ t.xmax < nextXid
    /\ t.xmax \in Running => <<c, t.xmax>> \in locks
    /\ t.xmax # 0 => t.xmin = t.xmax \/ status[t.xmin] = "committed"
    /\ \A s \in Session : tx[s] # 0 /\ t.xmax = tx[s] =>
          t.xmin = tx[s] \/ InPast(t.xmin, snapshot[s])

VersionsOK ==
    /\ \A c \in Tuples : VersionOK(c)
    /\ \A c, d \in Tuples : TupleAt(c).val = TupleAt(d).val => c = d

BaseInv == TxInv /\ ActivesOK /\ RowsTyped /\ VersionsOK

LEMMA InitBase == Init => BaseInv
<1> SUFFICES ASSUME Init PROVE BaseInv
  OBVIOUS
<1>1. TxInv /\ ActivesOK
  BY InitInv DEF Init, ActivesOK
<1>2. heap = [p \in Page |-> <<>>]
  BY DEF Init
<1>3. HeapTyped
  BY <1>2 DEF HeapTyped, Heaps
<1>4. Ctids = {}
  BY <1>2 DEF Ctids
<1>5. Tuples = {}
  BY <1>4 DEF Tuples
<1>6. RowsTyped
  BY <1>3, <1>4, <1>5, MvccConstants DEF RowsTyped, Init
<1>7. VersionsOK
  BY <1>5 DEF VersionsOK
<1> QED BY <1>1, <1>6, <1>7 DEF BaseInv

LEMMA ActivesStep ==
    ASSUME TxInv, ActivesOK, [Next]_vars
    PROVE  ActivesOK'
<1>1. ASSUME NEW s \in Session, Begin(s) PROVE ActivesOK'
  <2>1. /\ nextXid \in Xid /\ nextXid' = nextXid + 1 /\ status' = status /\ tx[s] = 0
        /\ tx'[s] = nextXid /\ \A u \in Session \ {s} : tx'[u] = tx[u] /\ snapshot'[u] = snapshot[u]
        /\ snapshot'[s].active = Running
    BY <1>1, SnapshotLemma DEF Begin, TxInv, ManagerOK
  <2>2. Xid \subseteq Nat /\ nextXid \in Nat
    BY <2>1, MvccConstants DEF Xid
  <2>3. Running' = Running \cup {nextXid} /\ Running \subseteq Xid /\ \A w \in Running : w < nextXid
    BY <2>1, <2>2 DEF TxInv, ManagerOK, Running, Xid
  <2>4. \A u \in Session \ {s} : tx[u] # 0 => tx[u] \in Xid /\ tx[u] < nextXid
    BY TxTyped
  <2>5. ASSUME NEW u \in Session, tx'[u] # 0, NEW w \in Running', w < tx'[u]
        PROVE  w \in snapshot'[u].active
    <3>1. CASE u = s
      BY <2>1, <2>2, <2>3, <2>5, <3>1
    <3>2. CASE u # s
      <4>1. w # nextXid
        <5>1. tx'[u] = tx[u] /\ tx[u] # 0
          BY <2>1, <2>5, <3>2
        <5>2. tx[u] \in Nat /\ tx[u] < nextXid
          BY <2>2, <2>4, <3>2, <5>1
        <5> QED BY <2>2, <2>5, <5>1, <5>2
      <4> QED BY <2>1, <2>3, <2>5, <3>2, <4>1 DEF ActivesOK
    <3> QED BY <3>1, <3>2
  <2>6. ASSUME NEW u \in Session, tx'[u] # 0, NEW v \in Session, tx'[v] # 0, tx'[v] < tx'[u],
               NEW w \in snapshot'[u].active, w < tx'[v]
        PROVE  w \in snapshot'[v].active
    <3>1. CASE u = s
      <4>1. v # s
        BY <2>1, <2>2, <2>6, <3>1
      <4> QED BY <2>1, <2>6, <3>1, <4>1 DEF ActivesOK
    <3>2. CASE u # s
      <4>1. v # s
        <5>1. tx'[u] = tx[u] /\ tx[u] # 0
          BY <2>1, <2>6, <3>2
        <5>2. tx[u] \in Nat /\ tx[u] < nextXid
          BY <2>2, <2>4, <3>2, <5>1
        <5> QED BY <2>1, <2>2, <2>6, <5>1, <5>2
      <4> QED BY <2>1, <2>6, <3>2, <4>1 DEF ActivesOK
    <3> QED BY <3>1, <3>2
  <2> QED BY <2>5, <2>6 DEF ActivesOK
<1>2. ASSUME NEW s \in Session, NEW outcome \in {"committed", "aborted"}, Ends(s, outcome)
      PROVE  ActivesOK'
  <2>1. /\ tx[s] # 0 /\ nextXid' = nextXid /\ status' = [status EXCEPT ![tx[s]] = outcome]
        /\ tx'[s] = 0 /\ \A u \in Session \ {s} : tx'[u] = tx[u] /\ snapshot'[u] = snapshot[u]
    BY <1>2 DEF Ends, TxInv, ManagerOK
  <2>2. Running' \subseteq Running
    BY <2>1 DEF TxInv, ManagerOK, Running
  <2> QED BY <2>1, <2>2 DEF ActivesOK
<1>3. ASSUME UNCHANGED txVars PROVE ActivesOK'
  BY <1>3 DEF ActivesOK, Running, txVars
<1> QED BY <1>1, <1>2, <1>3, RowStep DEF Next, Commit, Rollback

\* Beginnings and ends of transactions leave the rows alone.
LEMMA KeptRows ==
    ASSUME RowsTyped, UNCHANGED <<heap, index, writes>>
    PROVE  /\ RowsTyped' /\ Ctids' = Ctids /\ Tuples' = Tuples
           /\ \A c : At(c)' = At(c) /\ TupleAt(c)' = TupleAt(c)
<1>1. Ctids' = Ctids /\ \A c : At(c)' = At(c) /\ TupleAt(c)' = TupleAt(c) /\ IsTuple(c)' = IsTuple(c)
  BY DEF Ctids, At, TupleAt, IsTuple
<1>2. Tuples' = Tuples
  BY <1>1 DEF Tuples
<1>3. RowsTyped'
  BY <1>1, <1>2 DEF RowsTyped, HeapTyped
<1> QED BY <1>1, <1>2, <1>3

LEMMA BeginVersions ==
    ASSUME BaseInv, NEW s \in Session, Begin(s)
    PROVE  RowsTyped' /\ VersionsOK'
<1>1. /\ nextXid \in Xid /\ nextXid' = nextXid + 1 /\ status' = status /\ locks' = locks
      /\ tx'[s] = nextXid /\ \A u \in Session \ {s} : tx'[u] = tx[u] /\ snapshot'[u] = snapshot[u]
      /\ UNCHANGED <<heap, index, writes>>
  BY DEF Begin, BaseInv, TxInv, ManagerOK, rowVars
<1>2. Xid \subseteq Nat /\ nextXid \in Nat
  BY <1>1, MvccConstants DEF Xid
<1>3. /\ RowsTyped' /\ Tuples' = Tuples /\ \A c : TupleAt(c)' = TupleAt(c)
  BY <1>1, KeptRows DEF BaseInv
<1>4. Running' \subseteq Running \cup {nextXid}
  <2> SUFFICES ASSUME NEW r \in Running' PROVE r \in Running \cup {nextXid}
    OBVIOUS
  <2>1. r \in Xid /\ r < nextXid + 1 /\ status[r] = "in_progress"
    BY <1>1 DEF Running
  <2> QED BY <1>2, <2>1 DEF Running
<1>5. ASSUME NEW c \in Tuples PROVE VersionOK(c)'
  <2>1. PICK t : t = TupleAt(c)
    OBVIOUS
  <2>2. t \in Tuple
    BY <2>1, TupleIs DEF BaseInv, RowsTyped
  <2>3. t.xmin \in Nat /\ t.xmax \in Nat
    <3>1. t.xmin \in Xid /\ t.xmax \in Xid \cup {0}
      BY <2>2 DEF Tuple
    <3>2. \A x \in Xid \cup {0} : x \in Nat
      BY MvccConstants DEF Xid
    <3> QED BY <3>1, <3>2
  <2>4. TupleAt(c)' = t
    BY <1>3, <2>1
  <2>5. /\ t.val <= writes /\ t.xmin < nextXid /\ t.xmax < nextXid
        /\ t.xmax \in Running => <<c, t.xmax>> \in locks
        /\ t.xmax # 0 => t.xmin = t.xmax \/ status[t.xmin] = "committed"
        /\ \A u \in Session : tx[u] # 0 /\ t.xmax = tx[u] =>
              t.xmin = tx[u] \/ InPast(t.xmin, snapshot[u])
    BY <2>1 DEF BaseInv, VersionsOK, VersionOK
  <2>6. \A u \in Session : tx'[u] # 0 /\ t.xmax = tx'[u] =>
              t.xmin = tx'[u] \/ InPast(t.xmin, snapshot[u])'
    <3> TAKE u \in Session
    <3>1. CASE u = s
      BY <1>1, <1>2, <2>3, <2>5, <3>1
    <3>2. CASE u # s
      BY <1>1, <2>5, <3>2 DEF InPast
    <3> QED BY <3>1, <3>2
  <2>7. /\ t.xmin < nextXid' /\ t.xmax < nextXid'
        /\ t.xmax \in Running' => t.xmax \in Running
    BY <1>1, <1>2, <1>4, <2>3, <2>5
  <2> QED BY <1>1, <2>4, <2>5, <2>6, <2>7 DEF VersionOK
<1> QED BY <1>3, <1>5 DEF VersionsOK, BaseInv

LEMMA EndsVersions ==
    ASSUME BaseInv, NEW s \in Session, NEW outcome \in {"committed", "aborted"}, Ends(s, outcome)
    PROVE  RowsTyped' /\ VersionsOK'
<1>1. /\ tx[s] # 0 /\ nextXid' = nextXid /\ status' = [status EXCEPT ![tx[s]] = outcome]
      /\ tx'[s] = 0 /\ \A u \in Session \ {s} : tx'[u] = tx[u] /\ snapshot'[u] = snapshot[u]
      /\ locks' = {l \in locks : l[2] # tx[s]}
      /\ UNCHANGED <<heap, index, writes>>
  BY DEF Ends, BaseInv, TxInv, ManagerOK, rowVars
<1>2. tx[s] \in Xid /\ status[tx[s]] = "in_progress" /\ status \in [Xid -> Status]
  BY <1>1, TxTyped DEF BaseInv, TxInv, ManagerOK, Running
<1>3. /\ RowsTyped' /\ Tuples' = Tuples /\ \A c : TupleAt(c)' = TupleAt(c)
  BY <1>1, KeptRows DEF BaseInv
<1>4. Running' \subseteq Running \ {tx[s]}
  BY <1>1, <1>2 DEF Running
<1>5. \A x \in Xid : status[x] = "committed" => status'[x] = "committed"
  BY <1>1, <1>2
<1>6. ASSUME NEW c \in Tuples PROVE VersionOK(c)'
  <2>1. PICK t : t = TupleAt(c)
    OBVIOUS
  <2>2. t \in Tuple
    BY <2>1, TupleIs DEF BaseInv, RowsTyped
  <2>3. t.xmin \in Xid
    BY <2>2 DEF Tuple
  <2>4. TupleAt(c)' = t
    BY <1>3, <2>1
  <2>5. /\ t.val <= writes /\ t.xmin < nextXid /\ t.xmax < nextXid
        /\ t.xmax \in Running => <<c, t.xmax>> \in locks
        /\ t.xmax # 0 => t.xmin = t.xmax \/ status[t.xmin] = "committed"
        /\ \A u \in Session : tx[u] # 0 /\ t.xmax = tx[u] =>
              t.xmin = tx[u] \/ InPast(t.xmin, snapshot[u])
    BY <2>1 DEF BaseInv, VersionsOK, VersionOK
  <2>6. \A u \in Session : tx'[u] # 0 /\ t.xmax = tx'[u] =>
              t.xmin = tx'[u] \/ InPast(t.xmin, snapshot[u])'
    BY <1>1, <1>5, <2>3, <2>5 DEF InPast
  <2>7. t.xmax \in Running' => <<c, t.xmax>> \in locks'
    BY <1>1, <1>4, <2>5
  <2>8. t.xmax # 0 => t.xmin = t.xmax \/ status'[t.xmin] = "committed"
    BY <1>5, <2>3, <2>5
  <2> QED BY <1>1, <2>4, <2>5, <2>6, <2>7, <2>8 DEF VersionOK
<1> QED BY <1>3, <1>6 DEF VersionsOK, BaseInv

LEMMA XidIs == \A x \in Xid \cup {0} : x \in Nat /\ (x \in Xid => x # 0)
  BY MvccConstants DEF Xid

LEMMA AddsTyped ==
    ASSUME RowsTyped, NEW x, NEW k, NEW new, NEW old, Adds(x, k, new, old),
           index' \subseteq index \cup {<<k, new>>}
    PROVE  RowsTyped'
<1>0. Added(x, k, new, old)
  BY AddsFields
<1>11. /\ Tuples' = Tuples \cup {new}
       /\ \A c \in Ctids : c \notin Tuples /\ c # new => At(c)' = At(c)
  BY AddsTuples
<1>1. /\ Tuples' = Tuples \cup {new} /\ Ctids' = Ctids \cup {new} /\ HeapTyped /\ HeapTyped'
      /\ new \in Ctid /\ k \in Key /\ writes < MaxWrites /\ writes' = writes + 1
      /\ \A c \in Ctids : c \notin Tuples /\ c # new => At(c)' = At(c)
  BY <1>11 DEF Adds, RowsTyped
<1>2. index' \subseteq Key \X Ctids'
  BY <1>1 DEF RowsTyped
<1>3. writes' \in 0..MaxWrites
  BY <1>1, MvccConstants DEF RowsTyped
<1>4. ASSUME NEW c \in Ctids', At(c)'.flag = "REDIRECT"
      PROVE  At(c)'.to \in 1..Len(heap'[c[1]])
  <2>1. c \notin Tuples'
    BY <1>1, <1>4, TupleIsNext DEF TuplesOK
  <2>2. c \in Ctids /\ c \notin Tuples /\ c # new /\ At(c)' = At(c)
    BY <1>1, <2>1
  <2>3. /\ c[1] \in Page /\ At(c).to \in 1..Len(heap[c[1]])
    BY <1>1, <1>4, <2>2, CtidIs DEF RowsTyped, CtidsOK
  <2>4. <<c[1], At(c).to>> \in Ctids
    BY <1>1, <2>3, CtidIs DEF CtidsOK
  <2> QED BY <1>1, <2>2, <2>3, <2>4, CtidIsNext DEF CtidsOK
<1>5. ASSUME NEW c \in Tuples' PROVE TupleAt(c)'.ctid \in Ctids'
  <2>1. CASE c = new
    <3>1. TupleAt(new)'.ctid = new
      BY <1>0 DEF Added
    <3> QED BY <1>1, <2>1, <3>1
  <2>2. CASE c \in old
    <3>1. TupleAt(c)'.ctid = new
      BY <1>0, <2>2 DEF Added
    <3> QED BY <1>1, <3>1
  <2>3. CASE c \notin old /\ c # new
    <3>1. c \in Tuples /\ TupleAt(c)' = TupleAt(c)
      BY <1>0, <1>1, <2>3 DEF Added
    <3> QED BY <1>1, <3>1 DEF RowsTyped
  <2> QED BY <2>1, <2>2, <2>3
<1> QED BY <1>1, <1>2, <1>3, <1>4, <1>5 DEF RowsTyped

\* A version's place is that of no other write, and the lock on what a transaction
\* supersedes is its own (engine.cpp, the UPDATE statement).
LEMMA AddsVersions ==
    ASSUME BaseInv, NEW s \in Session, tx[s] # 0, NEW x, x = tx[s], NEW k, NEW new, NEW old,
           Adds(x, k, new, old), locks \subseteq locks',
           \A c \in old : <<c, x>> \in locks' /\ Visible(TupleAt(c), snapshot[s])
    PROVE  VersionsOK'
<1>0. Added(x, k, new, old)
  BY AddsFields DEF BaseInv
<1>11. Tuples' = Tuples \cup {new} /\ new \notin Tuples
  BY AddsTuples DEF BaseInv
<1>1. /\ Tuples' = Tuples \cup {new} /\ new \notin Tuples
      /\ writes' = writes + 1 /\ UNCHANGED txVars /\ RowsTyped /\ writes \in Nat
  BY <1>11 DEF Adds, BaseInv, RowsTyped
<1>2. /\ Running' = Running /\ nextXid' = nextXid /\ tx' = tx /\ status' = status
      /\ snapshot' = snapshot /\ \A w, u : InPast(w, snapshot[u])' = InPast(w, snapshot[u])
  BY <1>1 DEF txVars, Running, InPast
<1>3. x \in Xid /\ x \in Running /\ x < nextXid /\ 0 \notin Xid /\ Running \subseteq Xid /\ nextXid \in Nat
  BY TxTyped, XidIs, MvccConstants DEF BaseInv, TxInv, ManagerOK, Running
<1>4. ASSUME NEW c \in Tuples
      PROVE  /\ TupleAt(c).val \in Nat /\ TupleAt(c).val <= writes
             /\ TupleAt(c).xmin < nextXid /\ TupleAt(c).xmax < nextXid
             /\ TupleAt(c).xmin \in Xid
             /\ TupleAt(c)'.val = TupleAt(c).val /\ TupleAt(c)'.xmin = TupleAt(c).xmin
  <2>1. TupleAt(c) \in Tuple
    BY <1>1, TupleIs DEF RowsTyped
  <2>2. TupleAt(c).val \in Nat /\ TupleAt(c).xmin \in Xid
    BY <2>1, MvccConstants DEF Tuple
  <2>3. TupleAt(c).val <= writes /\ TupleAt(c).xmin < nextXid /\ TupleAt(c).xmax < nextXid
    BY DEF BaseInv, VersionsOK, VersionOK
  <2> QED BY <1>0, <2>2, <2>3 DEF Added
<1>8. \A c \in Tuples : VersionOK(c)
  BY DEF BaseInv, VersionsOK
<1>5. VersionOK(new)'
  <2>1. /\ TupleAt(new)'.val = writes + 1 /\ TupleAt(new)'.xmin = x /\ TupleAt(new)'.xmax = 0
    BY <1>0, <1>1 DEF Added
  <2>2. writes + 1 <= writes' /\ 0 < nextXid'
    BY <1>1, <1>2, <1>3, XidIs
  <2> QED BY <1>2, <1>3, <2>1, <2>2 DEF VersionOK
<1>6. ASSUME NEW c \in Tuples \ old PROVE VersionOK(c)'
  <2>1. TupleAt(c)' = TupleAt(c)
    BY <1>0, <1>1 DEF Added
  <2>2. TupleAt(c).val <= writes'
    BY <1>1, <1>4
  <2>3. VersionOK(c)
    BY <1>8
  <2> QED BY <1>2, <2>1, <2>2, <2>3 DEF VersionOK
<1>7. ASSUME NEW c \in old PROVE VersionOK(c)'
  <2>1. /\ c \in Tuples /\ TupleAt(c)'.xmax = x
    BY <1>0, <1>1, <1>7 DEF Added, Adds
  <2>2. TupleAt(c)'.val <= writes'
    BY <1>1, <1>4, <2>1
  <2>3. TupleAt(c)'.xmin < nextXid' /\ TupleAt(c)'.xmax < nextXid'
    BY <1>2, <1>3, <1>4, <2>1
  <2>4. TupleAt(c)'.xmin = x \/ InPast(TupleAt(c)'.xmin, snapshot[s])
    <3>1. TupleAt(c).xmin = snapshot[s].owner \/ InPast(TupleAt(c).xmin, snapshot[s])
      BY <1>7 DEF Visible
    <3>2. snapshot[s].owner = x
      BY DEF BaseInv, TxInv, HoldersOK, Holds
    <3> QED BY <1>4, <2>1, <3>1, <3>2
  <2>5. TupleAt(c)'.xmin = x \/ status'[TupleAt(c)'.xmin] = "committed"
    BY <1>2, <2>4 DEF InPast
  <2>6. <<c, x>> \in locks'
    BY <1>7
  <2>7. \A u \in Session : tx[u] = x => u = s
    BY DEF BaseInv, TxInv, HoldersOK, Apart
  <2>8. PICK t : t = TupleAt(c)'
    OBVIOUS
  <2>9. \A u \in Session : tx'[u] # 0 /\ t.xmax = tx'[u] =>
           t.xmin = tx'[u] \/ InPast(t.xmin, snapshot[u])'
    BY <1>2, <2>1, <2>4, <2>7, <2>8
  <2> QED BY <2>1, <2>2, <2>3, <2>5, <2>6, <2>8, <2>9 DEF VersionOK
<1>9. \A c, d \in Tuples' : TupleAt(c)'.val = TupleAt(d)'.val => c = d
  <2>1. TupleAt(new)'.val = writes + 1
    BY <1>0, <1>1 DEF Added
  <2>2. \A c \in Tuples : TupleAt(c)'.val # writes + 1
    BY <1>1, <1>4
  <2>3. \A c, d \in Tuples : TupleAt(c)'.val = TupleAt(d)'.val => c = d
    BY <1>4 DEF BaseInv, VersionsOK
  <2> QED BY <1>1, <2>1, <2>2, <2>3
<1> QED BY <1>1, <1>5, <1>6, <1>7, <1>9 DEF VersionsOK

----------------------------------------------------------------------------
(* What VACUUM does to the tuples (vacuum.cpp, Vacuum::run). *)

Vacuums ==
    /\ HeapTyped' /\ Ctids' = Ctids /\ Tuples' = Tuples \ DeadCtids
    /\ \A c \in Tuples \ DeadCtids : TupleAt(c)' = TupleAt(c)
    /\ \A c \in Ctids \ DeadCtids : At(c)' = At(c)
    /\ \A c \in DeadRoots : At(c)' = Redirect(Successor(c))
    /\ \A c \in Reclaimable : At(c)' = Unused
    /\ \A p \in Page : Len(heap'[p]) = Len(heap[p])
    /\ index' = Cleaned(Reclaimable)
    /\ UNCHANGED <<txVars, locks, writes>>

LEMMA FlaggedIs ==
    ASSUME RowsTyped, NEW c \in Ctids
    PROVE  /\ Flagged(c) \in Pointer
           /\ c \in DeadRoots => Flagged(c) = Redirect(Successor(c))
           /\ c \in Reclaimable => Flagged(c) = Unused
           /\ c \notin DeadCtids => Flagged(c) = At(c)
<1>1. DeadRoots \subseteq DeadCtids /\ Reclaimable \subseteq DeadCtids /\ DeadRoots \cap Reclaimable = {}
      /\ DeadCtids = DeadRoots \cup Reclaimable
  BY DEF DeadRoots, Reclaimable
<1>2. /\ c \in DeadRoots => Flagged(c) = Redirect(Successor(c))
      /\ c \in Reclaimable => Flagged(c) = Unused
      /\ c \notin DeadCtids => Flagged(c) = At(c)
  BY <1>1 DEF Flagged
<1>3. c \in DeadRoots => Successor(c) \in Nat
  <2> SUFFICES ASSUME c \in DeadRoots PROVE Successor(c) \in Nat
    OBVIOUS
  <2>1. c \in Tuples
    BY DEF DeadRoots, DeadCtids
  <2>2. Successor(c) \in 0..Len(heap[c[1]])
    BY <2>1, SuccessorIs
  <2> QED BY <2>2
<1>4. At(c) \in Pointer
  BY CtidIs DEF RowsTyped, CtidsOK
<1> QED BY <1>1, <1>2, <1>3, <1>4 DEF Pointer

LEMMA VacuumIs ==
    ASSUME RowsTyped, Vacuum
    PROVE  Vacuums
<1>1. /\ heap' = [p \in Page |-> [i \in DOMAIN heap[p] |-> Flagged(<<p, i>>)]]
      /\ index' = Cleaned(Reclaimable) /\ UNCHANGED <<txVars, locks, writes>>
  BY DEF Vacuum
<1>2. heap \in Heaps
  BY DEF RowsTyped, HeapTyped
<1>3. ASSUME NEW p \in Page
      PROVE  /\ heap'[p] \in Seq(Pointer) /\ Len(heap'[p]) = Len(heap[p])
             /\ \A i \in 1..Len(heap[p]) : heap'[p][i] = Flagged(<<p, i>>)
  <2>1. heap[p] \in Seq(Pointer) /\ Len(heap[p]) \in Nat /\ DOMAIN heap[p] = 1..Len(heap[p])
    BY <1>2 DEF Heaps
  <2>2. heap'[p] = [i \in 1..Len(heap[p]) |-> Flagged(<<p, i>>)]
    BY <1>1, <2>1
  <2>3. \A i \in 1..Len(heap[p]) : Flagged(<<p, i>>) \in Pointer
    <3> TAKE i \in 1..Len(heap[p])
    <3>1. <<p, i>> \in Ctids
      BY <2>1, CtidIs DEF RowsTyped, CtidsOK
    <3> QED BY <3>1, FlaggedIs
  <2>4. heap'[p] \in Seq(Pointer) /\ Len(heap'[p]) = Len(heap[p])
    BY <2>1, <2>2, <2>3
  <2> QED BY <2>2, <2>4
<1>4. HeapTyped'
  <2>1. DOMAIN heap' = Page /\ heap' = [p \in Page |-> heap'[p]]
    BY <1>1
  <2> QED BY <1>3, <2>1 DEF HeapTyped, Heaps
<1>5. Ctids' = Ctids
  <2>1. \A p \in Page : DOMAIN heap'[p] = DOMAIN heap[p]
    BY <1>1
  <2> QED BY <2>1 DEF Ctids
<1>6. \A c \in Ctids : At(c)' = Flagged(c)
  <2> TAKE c \in Ctids
  <2>1. c[1] \in Page /\ c[2] \in 1..Len(heap[c[1]]) /\ c = <<c[1], c[2]>>
    BY CtidIs DEF RowsTyped, CtidsOK
  <2>2. heap'[c[1]][c[2]] = Flagged(<<c[1], c[2]>>)
    BY <1>3, <2>1
  <2> QED BY <2>1, <2>2 DEF At
<1>7. DeadRoots \subseteq Ctids /\ Reclaimable \subseteq Ctids /\ DeadCtids \subseteq Tuples
      /\ DeadCtids = DeadRoots \cup Reclaimable /\ Tuples \subseteq Ctids
  BY DEF DeadRoots, Reclaimable, DeadCtids, Tuples
<1>8. /\ \A c \in Ctids \ DeadCtids : At(c)' = At(c)
      /\ \A c \in DeadRoots : At(c)' = Redirect(Successor(c))
      /\ \A c \in Reclaimable : At(c)' = Unused
  BY <1>6, <1>7, FlaggedIs
<1>9. \A c \in Tuples \ DeadCtids : TupleAt(c)' = TupleAt(c)
  BY <1>7, <1>8 DEF TupleAt
<1>10. Tuples' = Tuples \ DeadCtids
  <2>1. \A c \in Ctids : /\ c \in Tuples <=> At(c).flag = "NORMAL"
                         /\ c \in Tuples' <=> At(c)'.flag = "NORMAL"
    BY <1>4, <1>5, TupleIsNow, TupleIsNext DEF TuplesOK, RowsTyped
  <2>2. \A c \in DeadCtids : At(c)'.flag # "NORMAL"
    BY <1>7, <1>8 DEF Redirect, Unused
  <2>3. Tuples' \subseteq Ctids
    BY <1>5 DEF Tuples
  <2> QED BY <1>7, <1>8, <2>1, <2>2, <2>3
<1>11. \A p \in Page : Len(heap'[p]) = Len(heap[p])
  BY <1>3
<1> QED BY <1>1, <1>4, <1>5, <1>8, <1>9, <1>10, <1>11 DEF Vacuums

LEMMA VacuumVersions ==
    ASSUME BaseInv, Vacuum
    PROVE  RowsTyped' /\ VersionsOK'
<1>1. Vacuums /\ RowsTyped
  BY VacuumIs DEF BaseInv
<1>2. /\ Tuples' \subseteq Tuples /\ \A c \in Tuples' : TupleAt(c)' = TupleAt(c)
      /\ UNCHANGED <<txVars, locks, writes>>
  BY <1>1 DEF Vacuums
<1>3. ASSUME NEW c \in Ctids', At(c)'.flag = "REDIRECT"
      PROVE  At(c)'.to \in 1..Len(heap'[c[1]])
  <2>1. c \in Ctids /\ c[1] \in Page /\ Len(heap'[c[1]]) = Len(heap[c[1]])
    BY <1>1, CtidIs DEF Vacuums, RowsTyped, CtidsOK
  <2>2. CASE c \in DeadRoots
    <3>1. At(c)' = Redirect(Successor(c)) /\ c \in Tuples /\ Successor(c) # 0
      BY <1>1, <2>2 DEF Vacuums, DeadRoots, DeadCtids
    <3>2. Successor(c) \in 0..Len(heap[c[1]])
      BY <1>1, <3>1, SuccessorIs
    <3>3. Len(heap[c[1]]) \in Nat
      BY <1>1, <2>1 DEF RowsTyped, HeapTyped, Heaps
    <3>4. Successor(c) \in 1..Len(heap[c[1]])
      BY <3>1, <3>2, <3>3
    <3> QED BY <2>1, <3>1, <3>4 DEF Redirect
  <2>3. CASE c \in Reclaimable
    BY <1>1, <1>3, <2>3 DEF Vacuums, Unused
  <2>4. CASE c \notin DeadCtids
    BY <1>1, <1>3, <2>1, <2>4 DEF Vacuums, RowsTyped
  <2> QED BY <2>2, <2>3, <2>4 DEF Reclaimable
<1>4. \A c \in Tuples' : TupleAt(c)'.ctid \in Ctids'
  BY <1>1, <1>2 DEF RowsTyped, Vacuums
<1>5. index' \subseteq Key \X Ctids'
  BY <1>1 DEF RowsTyped, Vacuums, Cleaned
<1>6. RowsTyped'
  BY <1>1, <1>3, <1>4, <1>5 DEF RowsTyped, Vacuums
<1>7. ASSUME NEW c \in Tuples' PROVE VersionOK(c)'
  <2>1. TupleAt(c)' = TupleAt(c) /\ VersionOK(c)
    BY <1>2 DEF BaseInv, VersionsOK
  <2>2. UNCHANGED <<nextXid, status, tx, snapshot, locks, writes>>
    BY <1>2 DEF txVars
  <2> QED BY <2>1, <2>2 DEF VersionOK, InPast, Running
<1>8. \A c, d \in Tuples' : TupleAt(c)'.val = TupleAt(d)'.val => c = d
  BY <1>2 DEF BaseInv, VersionsOK
<1> QED BY <1>6, <1>7, <1>8 DEF VersionsOK

LEMMA RewritesVersions ==
    ASSUME BaseInv, NEW s \in Session, NEW k, NEW x, x = tx[s], NEW c, NEW new,
           Rewrites(s, k, x, c, new)
    PROVE  RowsTyped' /\ VersionsOK'
<1>1. /\ tx[s] # 0 /\ Adds(x, k, new, {c}) /\ Visible(TupleAt(c), snapshot[s])
      /\ locks' = locks \cup {<<c, x>>} /\ index' \subseteq index \cup {<<k, new>>}
  BY DEF Rewrites, Updates
<1>2. RowsTyped
  BY DEF BaseInv
<1>3. RowsTyped'
  BY <1>1, <1>2, AddsTyped
<1>4. locks \subseteq locks' /\ \A b \in {c} : <<b, x>> \in locks' /\ Visible(TupleAt(b), snapshot[s])
  BY <1>1
<1>5. VersionsOK'
  BY <1>1, <1>4, AddsVersions
<1> QED BY <1>3, <1>5

LEMMA BaseStep == BaseInv /\ [Next]_vars => BaseInv'
<1> SUFFICES ASSUME BaseInv, [Next]_vars PROVE BaseInv'
  OBVIOUS
<1>1. TxInv' /\ ActivesOK'
  BY NextInv, ActivesStep DEF BaseInv
<1>2. ASSUME NEW s \in Session, Begin(s) \/ Commit(s) \/ Rollback(s) PROVE RowsTyped' /\ VersionsOK'
  BY <1>2, BeginVersions, EndsVersions DEF Commit, Rollback
<1>3. ASSUME NEW s \in Session, NEW k \in Key, Insert(s, k) PROVE RowsTyped' /\ VersionsOK'
  <2>1. PICK x : x = tx[s]
    OBVIOUS
  <2>2. PICK new : Adds(x, k, new, {}) /\ index' = index \cup {<<k, new>>}
    BY <1>3, <2>1, InsertIs DEF BaseInv
  <2>3. tx[s] # 0 /\ locks' = locks /\ RowsTyped
    BY <1>3 DEF Insert, MayWrite, BaseInv
  <2>4. RowsTyped'
    BY <2>2, <2>3, AddsTyped
  <2>5. VersionsOK'
    BY <2>1, <2>2, <2>3, AddsVersions
  <2> QED BY <2>4, <2>5
<1>4. ASSUME NEW s \in Session, NEW k \in Key, HotUpdate(s, k) \/ ColdUpdate(s, k)
      PROVE  RowsTyped' /\ VersionsOK'
  <2>1. PICK x : x = tx[s]
    OBVIOUS
  <2>2. PICK c, new : Rewrites(s, k, x, c, new)
    BY <1>4, <2>1, HotUpdateIs, ColdUpdateIs DEF BaseInv
  <2> QED BY <2>1, <2>2, RewritesVersions
<1>5. ASSUME Vacuum PROVE RowsTyped' /\ VersionsOK'
  BY <1>5, VacuumVersions
<1>6. ASSUME UNCHANGED vars PROVE RowsTyped' /\ VersionsOK'
  <2>1. RowsTyped' /\ Tuples' = Tuples /\ \A c : TupleAt(c)' = TupleAt(c)
    BY <1>6, KeptRows DEF vars, BaseInv
  <2>2. UNCHANGED <<nextXid, status, tx, snapshot, locks, writes>>
    BY <1>6 DEF vars
  <2>3. \A c \in Tuples : VersionOK(c)'
    <3> TAKE c \in Tuples
    <3>1. VersionOK(c)
      BY DEF BaseInv, VersionsOK
    <3> QED BY <2>1, <2>2, <3>1 DEF VersionOK, InPast, Running
  <2>4. VersionsOK'
    BY <2>1, <2>3 DEF VersionsOK, BaseInv
  <2> QED BY <2>1, <2>4
<1>7. RowsTyped' /\ VersionsOK'
  BY <1>2, <1>3, <1>4, <1>5, <1>6 DEF Next
<1> QED BY <1>1, <1>7 DEF BaseInv

\* The rows' invariant, in whatever circumstances.
THEOREM SpecBase == Spec => []BaseInv
  BY InitBase, BaseStep, PTL DEF Spec

\* No page holds more tuples than are counted there, and no more are counted than fit.
OnPage(p) == {c \in Tuples : c[1] = p}

RoomOK(p) ==
    /\ used[p] \in 0..Capacity
    /\ IsFiniteSet(OnPage(p)) /\ Cardinality(OnPage(p)) <= used[p]

TypedInv ==
    /\ DOMAIN used = Page /\ used \in [Page -> 0..Capacity]
    /\ \A p \in Page : RoomOK(p)
    /\ locks \subseteq Ctids \X Xid

LEMMA TypesHold == BaseInv /\ TypedInv => TypeOK
<1> SUFFICES ASSUME BaseInv, TypedInv PROVE TypeOK
  OBVIOUS
<1>1. ManagerOK /\ RowsTyped /\ CtidsOK
  BY CtidIs DEF BaseInv, TxInv, RowsTyped
<1>2. DOMAIN heap = Page /\ index \subseteq Key \X Ctids /\ writes \in 0..MaxWrites
  BY <1>1 DEF RowsTyped, HeapTyped, Heaps
<1>3. ASSUME NEW p \in Page, NEW i \in DOMAIN heap[p] PROVE LinePointerOK(p, heap[p][i])
  <2>1. heap[p] \in Seq(Pointer) /\ DOMAIN heap[p] = 1..Len(heap[p]) /\ Len(heap[p]) \in Nat
    BY <1>1 DEF RowsTyped, HeapTyped, Heaps
  <2>2. PICK lp : lp = heap[p][i]
    OBVIOUS
  <2>3. lp \in Pointer /\ <<p, i>> \in Ctids /\ At(<<p, i>>) = lp
    BY <1>1, <2>1, <2>2 DEF CtidsOK, At
  <2>4. CASE lp.flag = "NORMAL"
    <3>1. lp.tuple \in Tuple
      BY <2>3, <2>4, PointerKinds
    <3> QED BY <2>2, <2>4, <3>1 DEF LinePointerOK, Tuple
  <2>5. CASE lp.flag = "REDIRECT"
    <3>1. lp.to \in DOMAIN heap[p]
      BY <1>1, <2>1, <2>3, <2>5 DEF RowsTyped
    <3> QED BY <2>2, <2>5, <3>1 DEF LinePointerOK
  <2>6. CASE lp.flag = "UNUSED"
    <3>1. lp = Unused
      BY <2>3, <2>6, PointerKinds
    <3> QED BY <2>2, <2>6, <3>1 DEF LinePointerOK
  <2> QED BY <2>3, <2>4, <2>5, <2>6, PointerKinds
<1> QED BY <1>1, <1>2, <1>3 DEF TypeOK, TypedInv, ManagerOK

LEMMA InitTyped == Init => TypedInv
<1> SUFFICES ASSUME Init PROVE TypedInv
  OBVIOUS
<1>1. heap = [p \in Page |-> <<>>] /\ used = [p \in Page |-> 0] /\ locks = {}
  BY DEF Init
<1>2. Ctids = {}
  BY <1>1 DEF Ctids
<1>3. ASSUME NEW p \in Page PROVE RoomOK(p)
  <2>1. OnPage(p) = {}
    BY <1>2 DEF OnPage, Tuples
  <2> QED BY <1>1, <2>1, FS_EmptySet, MvccConstants DEF RoomOK
<1> QED BY <1>1, <1>3, MvccConstants DEF TypedInv

LEMMA TypedKept ==
    ASSUME TypedInv, Tuples' = Tuples, Ctids \subseteq Ctids', used' = used, locks' \subseteq locks
    PROVE  TypedInv'
<1>1. \A p : OnPage(p)' = OnPage(p)
  BY DEF OnPage
<1>2. \A p \in Page : RoomOK(p)'
  BY <1>1 DEF RoomOK, TypedInv
<1> QED BY <1>2 DEF TypedInv

LEMMA AddsTyping ==
    ASSUME TypedInv, RowsTyped, NEW x, NEW k, NEW new, NEW old, Adds(x, k, new, old), Fills(new[1]),
           locks' \subseteq locks \cup (Ctids \X Xid)
    PROVE  TypedInv'
<1>1. Tuples' = Tuples \cup {new} /\ new \notin Tuples /\ Ctids \subseteq Ctids'
  <2>1. Ctids \subseteq Ctids'
    BY DEF Adds
  <2>2. Tuples' = Tuples \cup {new} /\ new \notin Tuples
    BY AddsTuples
  <2> QED BY <2>1, <2>2
<1>2. PICK q : q = new[1]
  OBVIOUS
<1>3. /\ q \in Page /\ used[q] < Capacity /\ used' = [used EXCEPT ![q] = used[q] + 1]
      /\ used \in [Page -> 0..Capacity] /\ Capacity \in Nat
  BY <1>2, MvccConstants DEF Fills, HasRoom, TypedInv
<1>4. ASSUME NEW p \in Page PROVE RoomOK(p)'
  <2>1. CASE p # q
    <3>1. OnPage(p)' = OnPage(p) /\ used'[p] = used[p]
      BY <1>1, <1>2, <1>3, <2>1 DEF OnPage
    <3> QED BY <3>1 DEF TypedInv, RoomOK
  <2>2. CASE p = q
    <3>1. PICK S : S = OnPage(p)
      OBVIOUS
    <3>2. OnPage(p)' = S \cup {new} /\ new \notin S /\ used'[p] = used[p] + 1
      BY <1>1, <1>2, <1>3, <2>2, <3>1 DEF OnPage
    <3>3. IsFiniteSet(S) /\ Cardinality(S) <= used[p] /\ used[p] \in Nat
      BY <1>3, <3>1 DEF TypedInv, RoomOK
    <3>4. IsFiniteSet(S \cup {new}) /\ Cardinality(S \cup {new}) = Cardinality(S) + 1
          /\ Cardinality(S) \in Nat
      BY <3>2, <3>3, FS_AddElement, FS_CardinalityType
    <3>5. Cardinality(S \cup {new}) <= used[p] + 1 /\ used[p] + 1 \in 0..Capacity
      BY <1>3, <2>2, <3>3, <3>4
    <3> QED BY <3>2, <3>4, <3>5 DEF RoomOK
  <2> QED BY <2>1, <2>2
<1>5. locks' \subseteq Ctids' \X Xid
  BY <1>1 DEF TypedInv
<1>6. used' \in [Page -> 0..Capacity]
  BY <1>3
<1> QED BY <1>4, <1>5, <1>6 DEF TypedInv

LEMMA VacuumTyping ==
    ASSUME TypedInv, RowsTyped, Vacuum
    PROVE  TypedInv'
<1>1. Tuples' = Tuples \ DeadCtids /\ Ctids' = Ctids /\ locks' = locks
  BY VacuumIs DEF Vacuums
<1>2. used' = [p \in Page |->
                  IF \E c \in Reclaimable : c[1] = p
                  THEN Cardinality({c \in Tuples \ DeadCtids : c[1] = p})
                  ELSE used[p]]
  BY DEF Vacuum
<1>3. ASSUME NEW p \in Page PROVE RoomOK(p)' /\ used'[p] \in 0..Capacity
  <2>1. PICK S, T : S = OnPage(p) /\ T = {c \in Tuples \ DeadCtids : c[1] = p}
    OBVIOUS
  <2>2. OnPage(p)' = T /\ T \subseteq S
    BY <1>1, <2>1 DEF OnPage
  <2>3. IsFiniteSet(S) /\ Cardinality(S) <= used[p] /\ used[p] \in 0..Capacity /\ Capacity \in Nat
    BY <2>1, MvccConstants DEF TypedInv, RoomOK
  <2>4. IsFiniteSet(T) /\ Cardinality(T) <= Cardinality(S) /\ Cardinality(T) \in Nat
        /\ Cardinality(S) \in Nat
    BY <2>2, <2>3, FS_Subset, FS_CardinalityType
  <2>5. used'[p] = Cardinality(T) \/ used'[p] = used[p]
    BY <1>2, <2>1
  <2>6. Cardinality(T) <= used'[p] /\ used'[p] \in 0..Capacity
    BY <2>3, <2>4, <2>5
  <2> QED BY <2>2, <2>4, <2>6 DEF RoomOK
<1>4. used' \in [Page -> 0..Capacity] /\ locks' \subseteq Ctids' \X Xid
  BY <1>1, <1>2, <1>3 DEF TypedInv
<1> QED BY <1>3, <1>4 DEF TypedInv

LEMMA TypedStep == BaseInv /\ TypedInv /\ [Next]_vars => TypedInv'
<1> SUFFICES ASSUME BaseInv, TypedInv, [Next]_vars PROVE TypedInv'
  OBVIOUS
<1>1. RowsTyped /\ TxInv
  BY DEF BaseInv
<1>2. ASSUME UNCHANGED <<heap, used>>, locks' \subseteq locks PROVE TypedInv'
  <2>1. Tuples' = Tuples /\ Ctids' = Ctids
    BY <1>2 DEF Tuples, Ctids, IsTuple, At
  <2> QED BY <1>2, <2>1, TypedKept
<1>3. ASSUME NEW s \in Session, Begin(s) \/ Commit(s) \/ Rollback(s) PROVE TypedInv'
  BY <1>2, <1>3 DEF Begin, Commit, Rollback, Ends, rowVars
<1>4. ASSUME NEW s \in Session, NEW k \in Key, Insert(s, k) PROVE TypedInv'
  <2>1. PICK x, old : x = tx[s] /\ old = {}
    OBVIOUS
  <2>2. PICK new : Adds(x, k, new, {}) /\ Fills(new[1]) /\ locks' = locks
    BY <1>1, <1>4, <2>1, InsertIs
  <2>3. Adds(x, k, new, old) /\ locks' \subseteq locks \cup (Ctids \X Xid)
    BY <2>1, <2>2
  <2> QED BY <1>1, <2>2, <2>3, AddsTyping
<1>5. ASSUME NEW s \in Session, NEW k \in Key, HotUpdate(s, k) \/ ColdUpdate(s, k) PROVE TypedInv'
  <2>1. PICK x : x = tx[s]
    OBVIOUS
  <2>2. PICK c, new : Rewrites(s, k, x, c, new)
    BY <1>1, <1>5, <2>1, HotUpdateIs, ColdUpdateIs
  <2>3. PICK old : old = {c}
    OBVIOUS
  <2>4. /\ Adds(x, k, new, old) /\ Fills(new[1]) /\ locks' = locks \cup {<<c, x>>}
        /\ tx[s] # 0 /\ c \in Tuples
    BY <2>1, <2>2, <2>3 DEF Rewrites, Updates
  <2>5. x \in Xid /\ c \in Ctids
    BY <1>1, <2>1, <2>4, TxTyped DEF Tuples
  <2>6. locks' \subseteq locks \cup (Ctids \X Xid)
    BY <2>4, <2>5
  <2> QED BY <1>1, <2>4, <2>6, AddsTyping
<1>6. CASE Vacuum
  BY <1>1, <1>6, VacuumTyping
<1>7. CASE UNCHANGED vars
  BY <1>2, <1>7 DEF vars, rowVars
<1> QED BY <1>3, <1>4, <1>5, <1>6, <1>7 DEF Next

\* The type invariant: no chain or redirect leads off its page, and no page is filled
\* beyond what it holds (page.cpp, heap.cpp), in whatever circumstances.
THEOREM SpecTyped == Spec => []TypeOK
<1>1. Init => BaseInv /\ TypedInv
  BY InitBase, InitTyped
<1>2. BaseInv /\ TypedInv /\ [Next]_vars => BaseInv' /\ TypedInv'
  BY BaseStep, TypedStep
<1> QED BY <1>1, <1>2, TypesHold, PTL DEF Spec

----------------------------------------------------------------------------
(* What the snapshots see. *)

RowsOf(S) == {RowOf(c) : c \in S}

\* No two versions are the same row.
LEMMA RowsApart ==
    ASSUME VersionsOK, NEW c \in Tuples, NEW S, S \subseteq Tuples
    PROVE  RowOf(c) \in RowsOf(S) <=> c \in S
<1>1. \A d \in Tuples : RowOf(c) = RowOf(d) => c = d
  <2> SUFFICES ASSUME NEW d \in Tuples, RowOf(c) = RowOf(d) PROVE c = d
    OBVIOUS
  <2>1. TupleAt(c).val = TupleAt(d).val
    BY DEF RowOf
  <2> QED BY <2>1 DEF VersionsOK
<1> QED BY <1>1 DEF RowsOf

LEMMA RowsSplit ==
    ASSUME VersionsOK, NEW S, NEW T, S \subseteq Tuples, T \subseteq Tuples
    PROVE  RowsOf(S \ T) = RowsOf(S) \ RowsOf(T) /\ RowsOf(S \cup T) = RowsOf(S) \cup RowsOf(T)
<1>1. \A c \in Tuples : RowOf(c) \in RowsOf(T) <=> c \in T
  BY RowsApart
<1>2. ASSUME NEW r PROVE r \in RowsOf(S \ T) <=> r \in RowsOf(S) \ RowsOf(T)
  BY <1>1 DEF RowsOf
<1> QED BY <1>2 DEF RowsOf

\* What is committed is visible now unless what superseded it is.
LiveTuple(t) ==
    /\ status[t.xmin] = "committed"
    /\ t.xmax # 0 => status[t.xmax] # "committed"

\* What s sees, and what it would without its own writes.
SeenTuple(s, t) ==
    /\ t.xmin = tx[s] \/ InPast(t.xmin, snapshot[s])
    /\ t.xmax # 0 => t.xmax # tx[s] /\ ~InPast(t.xmax, snapshot[s])

FirstTuple(s, t) ==
    /\ InPast(t.xmin, snapshot[s])
    /\ t.xmax # 0 => ~InPast(t.xmax, snapshot[s])

SeesOK ==
    /\ \A t \in Tuple : t.xmin < nextXid /\ t.xmax < nextXid =>
          (Visible(t, Fresh) <=> LiveTuple(t))
    /\ \A s \in Session : tx[s] # 0 =>
          /\ ~InPast(tx[s], snapshot[s])
          /\ \A t \in Tuple : /\ Visible(t, snapshot[s]) <=> SeenTuple(s, t)
                              /\ Visible(t, Before(snapshot[s])) <=> FirstTuple(s, t)

LEMMA SeesIs == TxInv => SeesOK
<1> SUFFICES ASSUME TxInv PROVE SeesOK
  OBVIOUS
<1>1. ASSUME NEW t \in Tuple, t.xmin < nextXid, t.xmax < nextXid
      PROVE  Visible(t, Fresh) <=> LiveTuple(t)
  <2>1. t.xmin \in Xid /\ t.xmax \in Xid \cup {0} /\ 0 \notin Xid
    BY XidIs DEF Tuple
  <2>2. Fresh.owner = 0 /\ Fresh.xmax = nextXid /\ Fresh.active = Running
    BY DEF Fresh
  <2>3. \A x \in Xid : x < nextXid => (InPast(x, Fresh) <=> status[x] = "committed")
    BY <2>2 DEF InPast, Running
  <2> QED BY <1>1, <2>1, <2>2, <2>3 DEF Visible, LiveTuple
<1>2. ASSUME NEW s \in Session, tx[s] # 0
      PROVE  /\ ~InPast(tx[s], snapshot[s])
             /\ \A t \in Tuple : /\ Visible(t, snapshot[s]) <=> SeenTuple(s, t)
                                 /\ Visible(t, Before(snapshot[s])) <=> FirstTuple(s, t)
  <2>1. snapshot[s].owner = tx[s] /\ tx[s] \in Running /\ snapshot[s] \in Snapshots
    BY <1>2 DEF TxInv, ManagerOK, HoldersOK, Holds
  <2>2. ~InPast(tx[s], snapshot[s])
    BY <2>1 DEF InPast, Running
  <2>3. /\ Before(snapshot[s]).owner = 0 /\ Before(snapshot[s]).xmax = snapshot[s].xmax
        /\ Before(snapshot[s]).active = snapshot[s].active
    BY <2>1 DEF Before, Snapshots
  <2>4. \A x : InPast(x, Before(snapshot[s])) <=> InPast(x, snapshot[s])
    BY <2>3 DEF InPast
  <2>5. \A t \in Tuple : t.xmin # 0
    BY XidIs DEF Tuple
  <2> QED BY <2>1, <2>2, <2>3, <2>4, <2>5 DEF Visible, SeenTuple, FirstTuple
<1> QED BY <1>1, <1>2 DEF SeesOK

LEMMA SeesIsNext == TxInv' => SeesOK'
  BY SeesIs, PTL

\* The versions that are committed, that s sees, and that it saw before it wrote.
LiveOnes     == Scanned(Fresh)
SeenOnes(s)  == Scanned(snapshot[s])
FirstOnes(s) == Scanned(Before(snapshot[s]))

\* The mapping to the abstract specification.
Open      == {s \in Session : tx[s] # 0}
Committed == RowsOf(LiveOnes)
Bases     == [s \in Session |-> IF tx[s] = 0 THEN {} ELSE RowsOf(FirstOnes(s))]
Views     == [s \in Session |-> IF tx[s] = 0 THEN {} ELSE RowsOf(SeenOnes(s))]

\* As Mvcc gives it.
SICommitted == RowsIn(Fresh)
SIBases     == [s \in Session |-> IF tx[s] = 0 THEN {} ELSE RowsIn(Before(snapshot[s]))]
SIViews     == [s \in Session |-> IF tx[s] = 0 THEN {} ELSE RowsIn(snapshot[s])]

Maps == Committed = SICommitted /\ Bases = SIBases /\ Views = SIViews

LEMMA MapsNow == Maps
  BY DEF Maps, SICommitted, SIBases, SIViews, Committed, Bases, Views, RowsOf, RowsIn, LiveOnes, FirstOnes, SeenOnes

LEMMA MapsNext == Maps'
  BY MapsNow, PTL

\* The tuples that may be on a page.
Known == {t \in Tuple : t.xmin < nextXid /\ t.xmax < nextXid}

LEMMA TuplesKnown ==
    ASSUME BaseInv, NEW c \in Tuples
    PROVE  TupleAt(c) \in Known
<1>1. TupleAt(c) \in Tuple
  BY TupleIs DEF BaseInv, RowsTyped
<1>2. VersionOK(c)
  BY DEF BaseInv, VersionsOK
<1> QED BY <1>1, <1>2 DEF Known, VersionOK

\* As long as the tuples stay, what is seen depends on the snapshot alone.
LEMMA SightKept ==
    ASSUME BaseInv, UNCHANGED <<heap, index, writes>>
    PROVE  /\ \A S : RowsOf(S)' = RowsOf(S)
           /\ (\A t \in Known : Visible(t, Fresh)' <=> Visible(t, Fresh)) => LiveOnes' = LiveOnes
           /\ \A s \in Session :
                 /\ (\A t \in Known : Visible(t, snapshot[s])' <=> Visible(t, snapshot[s]))
                       => SeenOnes(s)' = SeenOnes(s)
                 /\ (\A t \in Known : Visible(t, Before(snapshot[s]))' <=> Visible(t, Before(snapshot[s])))
                       => FirstOnes(s)' = FirstOnes(s)
                 /\ (\A t \in Known : Visible(t, snapshot[s])' <=> Visible(t, Fresh))
                       => SeenOnes(s)' = LiveOnes
                 /\ (\A t \in Known : Visible(t, Before(snapshot[s]))' <=> Visible(t, Fresh))
                       => FirstOnes(s)' = LiveOnes
<1>1. Tuples' = Tuples /\ \A c : TupleAt(c)' = TupleAt(c)
  BY KeptRows DEF BaseInv
<1>2. \A S : RowsOf(S)' = RowsOf(S)
  BY <1>1 DEF RowsOf, RowOf
<1>3. \A c \in Tuples : \E t \in Known : t = TupleAt(c) /\ t = TupleAt(c)'
  BY <1>1, TuplesKnown
<1>4. LiveOnes' = {c \in Tuples : \E t \in Known : t = TupleAt(c) /\ Visible(t, Fresh)'}
  BY <1>1, <1>3 DEF LiveOnes, Scanned
<1>5. LiveOnes = {c \in Tuples : \E t \in Known : t = TupleAt(c) /\ Visible(t, Fresh)}
  BY <1>3 DEF LiveOnes, Scanned
<1>6. ASSUME NEW s \in Session
      PROVE  /\ SeenOnes(s)' = {c \in Tuples : \E t \in Known : t = TupleAt(c) /\ Visible(t, snapshot[s])'}
             /\ SeenOnes(s) = {c \in Tuples : \E t \in Known : t = TupleAt(c) /\ Visible(t, snapshot[s])}
             /\ FirstOnes(s)' = {c \in Tuples : \E t \in Known :
                                     t = TupleAt(c) /\ Visible(t, Before(snapshot[s]))'}
             /\ FirstOnes(s) = {c \in Tuples : \E t \in Known :
                                    t = TupleAt(c) /\ Visible(t, Before(snapshot[s]))}
  BY <1>1, <1>3 DEF SeenOnes, FirstOnes, Scanned
<1>7. (\A t \in Known : Visible(t, Fresh)' <=> Visible(t, Fresh)) => LiveOnes' = LiveOnes
  BY <1>4, <1>5
<1>8. ASSUME NEW s \in Session, \A t \in Known : Visible(t, snapshot[s])' <=> Visible(t, snapshot[s])
      PROVE  SeenOnes(s)' = SeenOnes(s)
  BY <1>6, <1>8
<1>9. ASSUME NEW s \in Session,
             \A t \in Known : Visible(t, Before(snapshot[s]))' <=> Visible(t, Before(snapshot[s]))
      PROVE  FirstOnes(s)' = FirstOnes(s)
  BY <1>6, <1>9
<1>10. ASSUME NEW s \in Session, \A t \in Known : Visible(t, snapshot[s])' <=> Visible(t, Fresh)
       PROVE  SeenOnes(s)' = LiveOnes
  BY <1>5, <1>6, <1>10
<1>11. ASSUME NEW s \in Session, \A t \in Known : Visible(t, Before(snapshot[s]))' <=> Visible(t, Fresh)
       PROVE  FirstOnes(s)' = LiveOnes
  BY <1>5, <1>6, <1>11
<1> QED BY <1>2, <1>7, <1>8, <1>9, <1>10, <1>11

LEMMA BeginSees ==
    ASSUME BaseInv, BaseInv', NEW s \in Session, Begin(s)
    PROVE  SI!Begin(s)
<1>1. /\ nextXid \in Xid /\ nextXid' = nextXid + 1 /\ status' = status /\ tx[s] = 0
      /\ tx' = [tx EXCEPT ![s] = nextXid] /\ tx \in [Session -> 0..MaxXid]
      /\ tx'[s] = nextXid /\ \A u \in Session \ {s} : tx'[u] = tx[u] /\ snapshot'[u] = snapshot[u]
      /\ snapshot'[s].active = Running /\ snapshot'[s].xmax = nextXid + 1
      /\ UNCHANGED <<heap, index, writes>>
  BY SnapshotLemma DEF Begin, BaseInv, TxInv, ManagerOK, rowVars
<1>2. nextXid \in Nat /\ nextXid # 0
  BY <1>1, XidIs
<1>3. SeesOK /\ SeesOK'
  BY SeesIs, SeesIsNext DEF BaseInv
<1>4. ASSUME NEW t \in Known
      PROVE  /\ Visible(t, Fresh)' <=> Visible(t, Fresh)
             /\ Visible(t, snapshot[s])' <=> Visible(t, Fresh)
             /\ Visible(t, Before(snapshot[s]))' <=> Visible(t, Fresh)
  <2>1. /\ t \in Tuple /\ t.xmin < nextXid /\ t.xmax < nextXid
        /\ t.xmin \in Nat /\ t.xmax \in Nat /\ t.xmin \in Xid /\ t.xmax \in Xid \cup {0}
    BY XidIs DEF Known, Tuple
  <2>2. t.xmin < nextXid' /\ t.xmax < nextXid'
    BY <1>1, <1>2, <2>1
  <2>3. Visible(t, Fresh) <=> LiveTuple(t)
    BY <1>3, <2>1 DEF SeesOK
  <2>4. Visible(t, Fresh)' <=> LiveTuple(t)'
    BY <1>3, <2>1, <2>2 DEF SeesOK
  <2>5. LiveTuple(t)' <=> LiveTuple(t)
    BY <1>1 DEF LiveTuple
  <2>6. \A w \in Xid : w < nextXid => (InPast(w, snapshot[s])' <=> status[w] = "committed")
    BY <1>1, <1>2, XidIs DEF InPast, Running
  <2>7. SeenTuple(s, t)' <=> LiveTuple(t)
    BY <1>1, <1>2, <2>1, <2>6 DEF SeenTuple, LiveTuple
  <2>8. FirstTuple(s, t)' <=> LiveTuple(t)
    BY <2>1, <2>6 DEF FirstTuple, LiveTuple
  <2>9. /\ Visible(t, snapshot[s])' <=> SeenTuple(s, t)'
        /\ Visible(t, Before(snapshot[s]))' <=> FirstTuple(s, t)'
    BY <1>1, <1>2, <1>3, <2>1 DEF SeesOK
  <2> QED BY <2>3, <2>4, <2>5, <2>7, <2>8, <2>9
<1>5. ASSUME NEW u \in Session \ {s}, NEW t \in Known
      PROVE  /\ Visible(t, snapshot[u])' <=> Visible(t, snapshot[u])
             /\ Visible(t, Before(snapshot[u]))' <=> Visible(t, Before(snapshot[u]))
  BY <1>1 DEF Visible, InPast, Before
<1>6. /\ \A S : RowsOf(S)' = RowsOf(S)
      /\ LiveOnes' = LiveOnes /\ SeenOnes(s)' = LiveOnes /\ FirstOnes(s)' = LiveOnes
      /\ \A u \in Session \ {s} : SeenOnes(u)' = SeenOnes(u) /\ FirstOnes(u)' = FirstOnes(u)
  BY <1>1, <1>4, <1>5, SightKept
<1>7. Committed' = Committed
  BY <1>6 DEF Committed, RowsOf
<1>8. Bases' = [Bases EXCEPT ![s] = Committed]
  BY <1>1, <1>2, <1>6 DEF Committed, Bases, RowsOf
<1>9. Views' = [Views EXCEPT ![s] = Committed]
  BY <1>1, <1>2, <1>6 DEF Committed, Views, RowsOf
<1>10. s \notin Open /\ Open' = Open \cup {s}
  BY <1>1, <1>2 DEF Open
<1> QED BY <1>7, <1>8, <1>9, <1>10, MapsNow, MapsNext DEF Maps, Open, SICommitted, SIBases, SIViews, SI!Begin

LEMMA OnesAre ==
    ASSUME BaseInv, NEW c \in Tuples, NEW t, t = TupleAt(c)
    PROVE  /\ c \in LiveOnes <=> LiveTuple(t)
           /\ \A s \in Session : tx[s] # 0 =>
                 /\ c \in SeenOnes(s) <=> SeenTuple(s, t)
                 /\ c \in FirstOnes(s) <=> FirstTuple(s, t)
<1>1. t \in Tuple /\ t.xmin < nextXid /\ t.xmax < nextXid
  BY TuplesKnown DEF Known
<1>2. SeesOK
  BY SeesIs DEF BaseInv
<1>3. /\ c \in LiveOnes <=> Visible(t, Fresh)
      /\ \A s \in Session : /\ c \in SeenOnes(s) <=> Visible(t, snapshot[s])
                            /\ c \in FirstOnes(s) <=> Visible(t, Before(snapshot[s]))
  BY DEF LiveOnes, SeenOnes, FirstOnes, Scanned
<1> QED BY <1>1, <1>2, <1>3 DEF SeesOK

LEMMA OnesAreNext ==
    ASSUME BaseInv', NEW c \in Tuples', NEW t, t = TupleAt(c)'
    PROVE  /\ c \in LiveOnes' <=> LiveTuple(t)'
           /\ \A s \in Session : tx'[s] # 0 =>
                 /\ c \in SeenOnes(s)' <=> SeenTuple(s, t)'
                 /\ c \in FirstOnes(s)' <=> FirstTuple(s, t)'
<1>1. SeesOK'
  BY SeesIsNext DEF BaseInv
<1>2. t \in Tuple
  BY TupleIsNext DEF BaseInv, RowsTyped, TuplesOK
<1>3. VersionOK(c)'
  BY DEF BaseInv, VersionsOK
<1>4. t.xmin < nextXid' /\ t.xmax < nextXid'
  BY <1>3 DEF VersionOK
<1>5. /\ c \in LiveOnes' <=> Visible(t, Fresh)'
      /\ \A s \in Session : /\ c \in SeenOnes(s)' <=> Visible(t, snapshot[s])'
                            /\ c \in FirstOnes(s)' <=> Visible(t, Before(snapshot[s]))'
  BY DEF LiveOnes, SeenOnes, FirstOnes, Scanned
<1> QED BY <1>1, <1>2, <1>4, <1>5 DEF SeesOK

LEMMA EndsSees ==
    ASSUME BaseInv, BaseInv', [Next]_vars,
           NEW s \in Session, NEW outcome \in {"committed", "aborted"}, Ends(s, outcome)
    PROVE  /\ outcome = "committed" => SI!Commit(s)
           /\ outcome = "aborted" => SI!Rollback(s)
<1>1. /\ tx[s] # 0 /\ nextXid' = nextXid /\ status' = [status EXCEPT ![tx[s]] = outcome]
      /\ tx' = [tx EXCEPT ![s] = 0] /\ tx \in [Session -> 0..MaxXid]
      /\ tx'[s] = 0 /\ \A u \in Session \ {s} : tx'[u] = tx[u] /\ snapshot'[u] = snapshot[u]
      /\ UNCHANGED <<heap, index, writes>>
  BY DEF Ends, BaseInv, TxInv, ManagerOK, rowVars
<1>2. PICK x : x = tx[s]
  OBVIOUS
<1>3. x \in Xid /\ x # 0 /\ status[x] = "in_progress" /\ status \in [Xid -> Status]
  BY <1>1, <1>2, TxTyped, XidIs DEF BaseInv, TxInv, ManagerOK, Running
<1>4. /\ Tuples' = Tuples /\ \A c : TupleAt(c)' = TupleAt(c)
      /\ \A S : RowsOf(S)' = RowsOf(S)
  BY <1>1, KeptRows, SightKept DEF BaseInv
<1>5. SeesOK /\ SeesOK'
  BY SeesIs, SeesIsNext DEF BaseInv
<1>6. ASSUME NEW u \in Session \ {s}, tx[u] # 0
      PROVE  SeenOnes(u)' = SeenOnes(u) /\ FirstOnes(u)' = FirstOnes(u)
  <2>1. tx'[u] = tx[u] /\ tx'[u] # 0
    BY <1>1, <1>6
  <2>2. \A w \in Xid : InPast(w, snapshot[u])' <=> InPast(w, snapshot[u])
    <3> TAKE w \in Xid
    <3>1. CASE w = tx[u]
      BY <1>5, <1>6, <2>1, <3>1 DEF SeesOK
    <3>2. CASE w # tx[u]
      BY <1>6, <2>1, <3>2, PastStays DEF BaseInv
    <3> QED BY <3>1, <3>2
  <2>3. ASSUME NEW t \in Known
        PROVE  /\ Visible(t, snapshot[u])' <=> Visible(t, snapshot[u])
               /\ Visible(t, Before(snapshot[u]))' <=> Visible(t, Before(snapshot[u]))
    <3>1. t \in Tuple /\ t.xmin \in Xid /\ t.xmax \in Xid \cup {0}
      BY DEF Known, Tuple
    <3>2. (SeenTuple(u, t)' <=> SeenTuple(u, t)) /\ (FirstTuple(u, t)' <=> FirstTuple(u, t))
      BY <2>1, <2>2, <3>1 DEF SeenTuple, FirstTuple
    <3> QED BY <1>5, <1>6, <2>1, <3>1, <3>2 DEF SeesOK
  <2> QED BY <1>1, <2>3, SightKept
<1>7. PICK L, A, F, V : L = LiveOnes' /\ A = LiveOnes /\ F = FirstOnes(s) /\ V = SeenOnes(s)
  OBVIOUS
<1>8. L \subseteq Tuples /\ A \subseteq Tuples /\ F \subseteq Tuples /\ V \subseteq Tuples
  BY <1>4, <1>7 DEF LiveOnes, FirstOnes, SeenOnes, Scanned
<1>9. ASSUME NEW c \in Tuples, NEW t, t = TupleAt(c)
      PROVE  /\ c \in A <=> LiveTuple(t)
             /\ c \in V <=> SeenTuple(s, t)
             /\ c \in F <=> FirstTuple(s, t)
             /\ c \in L <=> LiveTuple(t)'
             /\ t.xmin \in Xid /\ t.xmax \in Xid \cup {0}
             /\ t.xmax # 0 => t.xmin = t.xmax \/ status[t.xmin] = "committed"
             /\ t.xmax = x => t.xmin = x \/ InPast(t.xmin, snapshot[s])
  <2>1. t \in Tuple
    BY <1>9, TuplesKnown DEF Known
  <2>2. t.xmin \in Xid /\ t.xmax \in Xid \cup {0}
    BY <2>1 DEF Tuple
  <2>3. VersionOK(c)
    BY DEF BaseInv, VersionsOK
  <2>4. /\ t.xmax # 0 => t.xmin = t.xmax \/ status[t.xmin] = "committed"
        /\ t.xmax = x => t.xmin = x \/ InPast(t.xmin, snapshot[s])
    BY <1>1, <1>2, <1>9, <2>3 DEF VersionOK
  <2>5. c \in L <=> LiveTuple(t)'
    BY <1>4, <1>7, <1>9, OnesAreNext
  <2>6. (c \in A <=> LiveTuple(t)) /\ (c \in V <=> SeenTuple(s, t)) /\ (c \in F <=> FirstTuple(s, t))
    BY <1>1, <1>7, <1>9, OnesAre
  <2> QED BY <2>2, <2>4, <2>5, <2>6
<1>10. \A w : InPast(w, snapshot[s]) => status[w] = "committed"
  BY DEF InPast
<1>11. ASSUME outcome = "committed" PROVE L = (A \ (F \ V)) \cup (V \ F)
  <2>1. \A w \in Xid : status'[w] = IF w = x THEN "committed" ELSE status[w]
    BY <1>1, <1>2, <1>3, <1>11
  <2>2. ASSUME NEW c \in Tuples PROVE c \in L <=> c \in (A \ (F \ V)) \cup (V \ F)
    <3>1. PICK t : t = TupleAt(c)
      OBVIOUS
    <3> QED BY <1>2, <1>3, <1>9, <1>10, <2>1, <3>1 DEF LiveTuple, SeenTuple, FirstTuple
  <2> QED BY <1>8, <2>2
<1>12. ASSUME outcome = "aborted" PROVE L = A
  <2>1. \A w \in Xid : status'[w] = IF w = x THEN "aborted" ELSE status[w]
    BY <1>1, <1>2, <1>3, <1>12
  <2>2. ASSUME NEW c \in Tuples PROVE c \in L <=> c \in A
    <3>1. PICK t : t = TupleAt(c)
      OBVIOUS
    <3> QED BY <1>3, <1>9, <2>1, <3>1 DEF LiveTuple
  <2> QED BY <1>8, <2>2
<1>13. Committed' = RowsOf(L) /\ Committed = RowsOf(A) /\ Bases[s] = RowsOf(F) /\ Views[s] = RowsOf(V)
  BY <1>1, <1>4, <1>7 DEF Committed, Bases, Views, RowsOf
<1>14. outcome = "committed" => Committed' = (Committed \ (Bases[s] \ Views[s])) \cup (Views[s] \ Bases[s])
  <2>1. VersionsOK
    BY DEF BaseInv
  <2>2. /\ RowsOf(F \ V) = RowsOf(F) \ RowsOf(V) /\ RowsOf(V \ F) = RowsOf(V) \ RowsOf(F)
    BY <1>8, <2>1, RowsSplit
  <2>3. RowsOf(A \ (F \ V)) = RowsOf(A) \ RowsOf(F \ V)
    BY <1>8, <2>1, RowsSplit
  <2>4. RowsOf((A \ (F \ V)) \cup (V \ F)) = RowsOf(A \ (F \ V)) \cup RowsOf(V \ F)
    BY <1>8, <2>1, RowsSplit
  <2> QED BY <1>11, <1>13, <2>2, <2>3, <2>4
<1>15. outcome = "aborted" => Committed' = Committed
  BY <1>12, <1>13
<1>16. /\ Bases' = [Bases EXCEPT ![s] = {}] /\ Views' = [Views EXCEPT ![s] = {}]
       /\ s \in Open /\ Open' = Open \ {s}
  BY <1>1, <1>4, <1>6 DEF Bases, Views, Open, RowsOf
<1> QED BY <1>14, <1>15, <1>16, MapsNow, MapsNext
        DEF Maps, Open, SICommitted, SIBases, SIViews, SI!Commit, SI!Rollback, SI!Closed, SI!Replaced, SI!Added

\* What a transaction may supersede: a version it sees, and that no other has
\* superseded but in vain.
Replaceable(s, c) ==
    /\ SeenTuple(s, TupleAt(c))
    /\ TupleAt(c).xmax # 0 => status[TupleAt(c).xmax] = "aborted"

\* Who writes adds a row to what it sees in the place of the one it supersedes, and
\* changes nothing for others.
LEMMA WriteSees ==
    ASSUME BaseInv, BaseInv', NEW s \in Session, tx[s] # 0, NEW x, x = tx[s], NEW k, NEW new, NEW old,
           Adds(x, k, new, old), old = {} \/ \E c : old = {c},
           \A c \in old : Replaceable(s, c)
    PROVE  SI!Write(s)
<1>1. Added(x, k, new, old) /\ RowsTyped
  BY AddsFields DEF BaseInv
<1>2. Tuples' = Tuples \cup {new} /\ new \notin Tuples
  BY AddsTuples DEF BaseInv
<1>3. /\ k \in Key /\ writes < MaxWrites /\ old \subseteq Tuples /\ writes \in Nat /\ UNCHANGED txVars
      /\ x \in Xid /\ x # 0 /\ status[x] = "in_progress" /\ s \in Open
  BY TxTyped, XidIs, <1>1 DEF Adds, BaseInv, TxInv, Running, Open, RowsTyped
<1>4. SeesOK
  BY SeesIs DEF BaseInv
<1>5. /\ status' = status /\ tx' = tx /\ snapshot' = snapshot /\ Open' = Open
      /\ \A t : LiveTuple(t)' <=> LiveTuple(t)
      /\ \A o, t : (SeenTuple(o, t)' <=> SeenTuple(o, t)) /\ (FirstTuple(o, t)' <=> FirstTuple(o, t))
  BY <1>3 DEF txVars, LiveTuple, SeenTuple, FirstTuple, InPast, Open
<1>6. \A w : \A o \in Session : InPast(w, snapshot[o]) => status[w] = "committed"
  BY DEF InPast
<1>7. \A o \in Session : tx[o] # 0 => status[tx[o]] = "in_progress" /\ (o # s => tx[o] # x)
  BY DEF BaseInv, TxInv, HoldersOK, Holds, Apart, Running
<1>8. ASSUME NEW c \in Tuples, NEW t, t = TupleAt(c)
      PROVE  /\ c \in LiveOnes' <=> c \in LiveOnes
             /\ \A o \in Open : /\ c \in FirstOnes(o)' <=> c \in FirstOnes(o)
                                /\ c \in SeenOnes(o)' <=> c \in SeenOnes(o) /\ (o = s => c \notin old)
  <2>1. PICK u : u = TupleAt(c)'
    OBVIOUS
  <2>2. /\ c \in LiveOnes <=> LiveTuple(t)
        /\ \A o \in Open : /\ c \in SeenOnes(o) <=> SeenTuple(o, t)
                           /\ c \in FirstOnes(o) <=> FirstTuple(o, t)
    BY <1>8, OnesAre DEF Open
  <2>3. c \in Tuples'
    BY <1>2
  <2>4. /\ c \in LiveOnes' <=> LiveTuple(u)
        /\ \A o \in Open : /\ c \in SeenOnes(o)' <=> SeenTuple(o, u)
                           /\ c \in FirstOnes(o)' <=> FirstTuple(o, u)
    BY <1>5, <2>1, <2>3, OnesAreNext DEF Open
  <2>5. CASE c \notin old
    <3>1. u = t
      BY <1>1, <1>8, <2>1, <2>5 DEF Added
    <3>2. c \in LiveOnes' <=> c \in LiveOnes
      BY <2>2, <2>4, <3>1
    <3> QED BY <2>2, <2>4, <2>5, <3>1, <3>2
  <2>6. CASE c \in old
    <3>1. u.xmin = t.xmin /\ u.xmax = x
      BY <1>1, <1>8, <2>1, <2>6 DEF Added
    <3>2. SeenTuple(s, t) /\ (t.xmax # 0 => status[t.xmax] = "aborted")
      BY <1>8, <2>6 DEF Replaceable
    <3>3. LiveTuple(u) <=> LiveTuple(t)
      BY <1>3, <3>1, <3>2 DEF LiveTuple
    <3>4. ASSUME NEW o \in Open
          PROVE  (FirstTuple(o, u) <=> FirstTuple(o, t)) /\ (SeenTuple(o, u) <=> SeenTuple(o, t) /\ o # s)
      <4>1. /\ o \in Session /\ status[tx[o]] = "in_progress" /\ (o # s => tx[o] # x)
            /\ ~InPast(x, snapshot[o]) /\ (t.xmax # 0 => ~InPast(t.xmax, snapshot[o]) /\ t.xmax # tx[o])
        BY <1>3, <1>6, <1>7, <3>2 DEF Open
      <4> QED BY <1>3, <3>1, <4>1 DEF FirstTuple, SeenTuple
    <3> QED BY <2>2, <2>4, <2>6, <3>3, <3>4
  <2> QED BY <2>5, <2>6
<1>9. /\ new \notin LiveOnes' /\ new \in SeenOnes(s)'
      /\ \A o \in Open : new \notin FirstOnes(o)' /\ (o # s => new \notin SeenOnes(o)')
  <2>1. PICK u : u = TupleAt(new)'
    OBVIOUS
  <2>2. u.xmin = x /\ u.xmax = 0 /\ new \in Tuples'
    BY <1>1, <1>2, <2>1 DEF Added
  <2>3. /\ new \in LiveOnes' <=> LiveTuple(u)
        /\ \A o \in Open : /\ new \in SeenOnes(o)' <=> SeenTuple(o, u)
                           /\ new \in FirstOnes(o)' <=> FirstTuple(o, u)
    BY <1>5, <2>1, <2>2, OnesAreNext DEF Open
  <2>4. ~LiveTuple(u) /\ SeenTuple(s, u)
    BY <1>3, <2>2 DEF LiveTuple, SeenTuple
  <2>5. \A o \in Open : ~FirstTuple(o, u) /\ (o # s => ~SeenTuple(o, u))
    BY <1>3, <1>6, <1>7, <2>2 DEF FirstTuple, SeenTuple, Open
  <2> QED BY <1>3, <2>3, <2>4, <2>5
<1>10. /\ LiveOnes \subseteq Tuples /\ LiveOnes' \subseteq Tuples'
       /\ \A o : /\ SeenOnes(o) \subseteq Tuples /\ SeenOnes(o)' \subseteq Tuples'
                 /\ FirstOnes(o) \subseteq Tuples /\ FirstOnes(o)' \subseteq Tuples'
  BY DEF LiveOnes, SeenOnes, FirstOnes, Scanned
<1>11. LiveOnes' = LiveOnes
  BY <1>2, <1>8, <1>9, <1>10
<1>12. \A o \in Open : FirstOnes(o)' = FirstOnes(o)
  <2> TAKE o \in Open
  <2>1. \A c \in Tuples' : c \in FirstOnes(o)' <=> c \in Tuples /\ c \in FirstOnes(o)
    BY <1>2, <1>8, <1>9
  <2> QED BY <1>2, <1>10, <2>1
<1>13. ASSUME NEW o \in Open, o # s PROVE SeenOnes(o)' = SeenOnes(o)
  <2>1. \A c \in Tuples' : c \in SeenOnes(o)' <=> c \in Tuples /\ c \in SeenOnes(o)
    BY <1>2, <1>8, <1>9, <1>13
  <2> QED BY <1>2, <1>10, <2>1
<1>14. SeenOnes(s)' = (SeenOnes(s) \ old) \cup {new}
  BY <1>2, <1>3, <1>8, <1>9, <1>10
<1>15. PICK r : r = [key |-> k, val |-> writes + 1]
  OBVIOUS
<1>16. /\ \A c \in Tuples : RowOf(c)' = RowOf(c)
       /\ RowOf(new)' = r
       /\ r \in Row
       /\ \A c \in Tuples : RowOf(c) # r
  <2>1. \A c \in Tuples : TupleAt(c).val <= writes
    BY DEF BaseInv, VersionsOK, VersionOK
  <2>2. \A c \in Tuples : TupleAt(c).val # writes + 1
    <3> TAKE c \in Tuples
    <3>1. TupleAt(c) \in Tuple
      BY <1>1, TupleIs DEF RowsTyped
    <3>2. TupleAt(c).val \in Nat
      BY <3>1, MvccConstants DEF Tuple
    <3> QED BY <1>3, <2>1, <3>2
  <2>3. writes + 1 \in 1..MaxWrites
    BY <1>3, MvccConstants
  <2> QED BY <1>1, <1>3, <1>15, <2>2, <2>3 DEF Added, RowOf, Row
<1>17. \A S : S \subseteq Tuples => RowsOf(S)' = RowsOf(S) /\ r \notin RowsOf(S)
  BY <1>16 DEF RowsOf
<1>18. /\ Committed' = Committed /\ Bases' = Bases
       /\ \A o \in Open : /\ Bases[o] = RowsOf(FirstOnes(o)) /\ Views[o] = RowsOf(SeenOnes(o))
                          /\ r \notin Bases[o] \cup Views[o]
       /\ r \notin Committed
  <2>1. Committed' = Committed /\ r \notin Committed
    BY <1>10, <1>11, <1>17 DEF Committed, RowsOf
  <2>2. \A o \in Open : Bases[o] = RowsOf(FirstOnes(o)) /\ Views[o] = RowsOf(SeenOnes(o))
    BY DEF Bases, Views, Open
  <2>3. \A o \in Open : RowsOf(FirstOnes(o))' = RowsOf(FirstOnes(o))
    BY <1>10, <1>12, <1>17 DEF RowsOf
  <2>4. \A o \in Session : (IF tx[o] = 0 THEN {} ELSE RowsOf(FirstOnes(o)))' =
                              IF tx[o] = 0 THEN {} ELSE RowsOf(FirstOnes(o))
    BY <1>5, <2>3 DEF Open
  <2>5. Bases' = Bases
    BY <2>4 DEF Bases
  <2> QED BY <1>10, <1>17, <2>1, <2>2, <2>5
<1>19. Views' = [Views EXCEPT ![s] = (@ \ RowsOf(old)) \cup {r}]
  <2>1. ASSUME NEW o \in Session \ {s}
        PROVE  (IF tx[o] = 0 THEN {} ELSE RowsOf(SeenOnes(o)))' =
                   IF tx[o] = 0 THEN {} ELSE RowsOf(SeenOnes(o))
    <3>1. CASE tx[o] = 0
      BY <1>5, <3>1
    <3>2. CASE tx[o] # 0
      <4>1. SeenOnes(o)' = SeenOnes(o) /\ SeenOnes(o) \subseteq Tuples
        BY <1>10, <1>13, <3>2 DEF Open
      <4>2. RowsOf(SeenOnes(o))' = RowsOf(SeenOnes(o))
        BY <1>16, <4>1 DEF RowsOf
      <4> QED BY <1>5, <4>2
    <3> QED BY <3>1, <3>2
  <2>2. PICK S : S = SeenOnes(s)
    OBVIOUS
  <2>3. S \subseteq Tuples /\ SeenOnes(s)' = (S \ old) \cup {new}
    BY <1>10, <1>14, <2>2
  <2>4. RowsOf(SeenOnes(s))' = RowsOf(S \ old) \cup {r}
    BY <1>16, <2>3 DEF RowsOf
  <2>5. RowsOf(S \ old) = RowsOf(S) \ RowsOf(old)
    BY <1>3, <2>3, RowsSplit DEF BaseInv
  <2>6. tx'[s] # 0
    BY <1>5
  <2> QED BY <1>5, <2>1, <2>2, <2>4, <2>5, <2>6 DEF Views
<1>20. Cardinality(RowsOf(old)) <= 1
  <2>1. CASE old = {}
    <3>1. RowsOf(old) = {}
      BY <2>1 DEF RowsOf
    <3> QED BY <3>1, FS_EmptySet
  <2>2. CASE \E c : old = {c}
    <3>1. PICK c : old = {c}
      BY <2>2
    <3>2. RowsOf(old) = {RowOf(c)}
      BY <3>1 DEF RowsOf
    <3>3. Cardinality({RowOf(c)}) = 1
      BY FS_Singleton
    <3> QED BY <3>2, <3>3
  <2> QED BY <2>1, <2>2
<1>21. ASSUME NEW c \in old
       PROVE  /\ RowOf(c) \in Views[s]
              /\ RowOf(c) \in Committed \/ RowOf(c) \notin Bases[s]
              /\ \A o \in Open \ {s} : RowOf(c) \in Bases[o] => RowOf(c) \in Views[o]
  <2>1. PICK t : t = TupleAt(c)
    OBVIOUS
  <2>2. SeenTuple(s, t) /\ (t.xmax # 0 => status[t.xmax] = "aborted") /\ c \in Tuples
    BY <1>3, <1>21, <2>1 DEF Replaceable
  <2>3. /\ c \in LiveOnes <=> LiveTuple(t)
        /\ \A o \in Open : /\ c \in SeenOnes(o) <=> SeenTuple(o, t)
                           /\ c \in FirstOnes(o) <=> FirstTuple(o, t)
    BY <2>1, <2>2, OnesAre DEF Open
  <2>4. VersionsOK /\ s \in Open
    BY <1>3 DEF BaseInv
  <2>5. /\ RowOf(c) \in Committed <=> c \in LiveOnes
        /\ \A o \in Open : /\ RowOf(c) \in Views[o] <=> c \in SeenOnes(o)
                           /\ RowOf(c) \in Bases[o] <=> c \in FirstOnes(o)
    BY <1>10, <1>18, <2>2, <2>4, RowsApart DEF Committed
  <2>6. c \in SeenOnes(s)
    BY <2>2, <2>3, <2>4
  <2>7. c \in FirstOnes(s) => c \in LiveOnes
    BY <1>6, <2>2, <2>3, <2>4 DEF FirstTuple, LiveTuple
  <2>8. ASSUME NEW o \in Open \ {s}, c \in FirstOnes(o) PROVE c \in SeenOnes(o)
    <3>1. t.xmax # 0 => t.xmax # tx[o]
      BY <1>7, <2>2 DEF Open
    <3> QED BY <2>3, <2>8, <3>1 DEF FirstTuple, SeenTuple
  <2> QED BY <2>4, <2>5, <2>6, <2>7, <2>8
<1>22. PICK R : R = RowsOf(old)
  OBVIOUS
<1>23. /\ R \in SUBSET Views[s] /\ R \subseteq Committed \cup (Views[s] \ Bases[s])
       /\ \A o \in Open \ {s} : R \cap (Bases[o] \ Views[o]) = {}
  BY <1>21, <1>22 DEF RowsOf
<1>24. /\ s \in Open /\ Open' = Open
       /\ r \in Row /\ Cardinality(R) <= 1
       /\ r \notin Committed /\ \A o \in Open : r \notin Bases[o] \cup Views[o]
       /\ Views' = [Views EXCEPT ![s] = (@ \ R) \cup {r}]
       /\ Committed' = Committed /\ Bases' = Bases
  BY <1>3, <1>5, <1>16, <1>18, <1>19, <1>20, <1>22
<1>25. SI!Cardinality(R) = Cardinality(R)
  BY DEF SI!Cardinality, Cardinality
<1>26. Maps /\ Maps'
  BY MapsNow, MapsNext
<1>27. R \in SUBSET SIViews[s] /\ r \in Row
  BY <1>23, <1>24, <1>26 DEF Maps
<1>28. /\ SI!Cardinality(R) <= 1
       /\ R \subseteq SICommitted \cup (SIViews[s] \ SIBases[s])
       /\ \A o \in Open \ {s} : R \cap (SIBases[o] \ SIViews[o]) = {}
       /\ r \notin SICommitted /\ \A o \in Open : r \notin SIBases[o] \cup SIViews[o]
       /\ SIViews' = [SIViews EXCEPT ![s] = (@ \ R) \cup {r}]
       /\ UNCHANGED <<SICommitted, Open, SIBases>>
  BY <1>23, <1>24, <1>25, <1>26 DEF Maps
<1>29. \E R2 \in SUBSET SIViews[s], r2 \in Row :
          /\ SI!Cardinality(R2) <= 1
          /\ /\ R2 \subseteq SICommitted \cup (SIViews[s] \ SIBases[s])
             /\ \A o \in Open \ {s} : R2 \cap (SIBases[o] \ SIViews[o]) = {}
          /\ r2 \notin SICommitted
          /\ \A o \in Open : r2 \notin SIBases[o] \cup SIViews[o]
          /\ SIViews' = [SIViews EXCEPT ![s] = (@ \ R2) \cup {r2}]
  BY <1>27, <1>28
<1> QED BY <1>24, <1>28, <1>29
        DEF SICommitted, SIBases, SIViews, Open, SI!Write, SI!Free, SI!Replaced, SI!Added

LEMMA InsertSees ==
    ASSUME BaseInv, BaseInv', NEW s \in Session, NEW k \in Key, Insert(s, k)
    PROVE  SI!Write(s)
<1>1. PICK x : x = tx[s]
  OBVIOUS
<1>2. PICK new : Adds(x, k, new, {})
  BY <1>1, InsertIs DEF BaseInv
<1>3. tx[s] # 0
  BY DEF Insert, MayWrite
<1>4. PICK old : old = {}
  OBVIOUS
<1>5. Adds(x, k, new, old)
  BY <1>2, <1>4
<1>6. \A c \in old : Replaceable(s, c)
  BY <1>4
<1> QED BY <1>1, <1>3, <1>4, <1>5, <1>6, WriteSees

\* Who holds the lock of a version it sees finds no other at work on it, and what
\* committed before it, unless it may be overtaken, it would see
\* (engine.cpp, the UPDATE statement).
LEMMA UpdatesReplaceable ==
    ASSUME BaseInv, NoStaleUpdate, NEW s \in Session, tx[s] # 0, NEW k, NEW c \in Tuples,
           Visible(TupleAt(c), snapshot[s]), Updates(s, k, c)
    PROVE  Replaceable(s, c)
<1>1. PICK t : t = TupleAt(c)
  OBVIOUS
<1>2. t \in Tuple /\ t.xmax < nextXid
  BY <1>1, TuplesKnown DEF Known
<1>3. SeenTuple(s, t)
  BY <1>1, <1>2, SeesIs DEF SeesOK, BaseInv
<1>4. t.xmax \in Xid \cup {0}
  BY <1>2 DEF Tuple
<1>5. t.xmax # 0 => status[t.xmax] # "committed"
  BY <1>1 DEF Updates, Overtaken, NoStaleUpdate
<1>6. ASSUME t.xmax # 0 PROVE status[t.xmax] # "in_progress"
  <2>1. SUFFICES ASSUME status[t.xmax] = "in_progress" PROVE FALSE
    OBVIOUS
  <2>2. t.xmax \in Running
    BY <1>2, <1>4, <1>6, <2>1 DEF Running
  <2>3. <<c, t.xmax>> \in locks
    BY <1>1, <2>2 DEF BaseInv, VersionsOK, VersionOK
  <2>4. t.xmax = tx[s]
    BY <2>3 DEF Updates, Lockable
  <2> QED BY <1>3, <1>6, <2>4 DEF SeenTuple
<1>7. t.xmax # 0 => status[t.xmax] \in {"in_progress", "committed", "aborted"}
  BY <1>4 DEF BaseInv, TxInv, ManagerOK, Status
<1> QED BY <1>1, <1>3, <1>5, <1>6, <1>7 DEF Replaceable

LEMMA UpdateSees ==
    ASSUME BaseInv, BaseInv', NoStaleUpdate, NEW s \in Session, NEW k \in Key,
           HotUpdate(s, k) \/ ColdUpdate(s, k)
    PROVE  SI!Write(s)
<1>1. PICK x : x = tx[s]
  OBVIOUS
<1>2. PICK c, new : Rewrites(s, k, x, c, new)
  BY <1>1, HotUpdateIs, ColdUpdateIs DEF BaseInv
<1>3. /\ tx[s] # 0 /\ c \in Tuples /\ Visible(TupleAt(c), snapshot[s])
      /\ Updates(s, k, c) /\ Adds(x, k, new, {c})
  BY <1>2 DEF Rewrites
<1>4. Replaceable(s, c)
  BY <1>3, UpdatesReplaceable
<1> QED BY <1>1, <1>3, <1>4, WriteSees

\* What VACUUM removes nobody sees, nor would see without its own writes, nor is it
\* committed.
LEMMA VacuumSees ==
    ASSUME BaseInv, BaseInv', Vacuum
    PROVE  UNCHANGED SI!siVars
<1>1. Vacuums
  BY VacuumIs DEF BaseInv
<1>2. /\ Tuples' = Tuples \ DeadCtids /\ \A c \in Tuples' : TupleAt(c)' = TupleAt(c)
      /\ tx' = tx /\ \A t : Visible(t, Fresh)' <=> Visible(t, Fresh)
      /\ \A t, s : /\ Visible(t, snapshot[s])' <=> Visible(t, snapshot[s])
                   /\ Visible(t, Before(snapshot[s]))' <=> Visible(t, Before(snapshot[s]))
  BY <1>1 DEF Vacuums, txVars, Visible, InPast, Fresh, Running, Before
<1>3. ASSUME NEW c \in DeadCtids
      PROVE  /\ c \notin LiveOnes
             /\ \A s \in Session : tx[s] # 0 => c \notin SeenOnes(s) /\ c \notin FirstOnes(s)
  <2>1. PICK t : t = TupleAt(c)
    OBVIOUS
  <2>2. c \in Tuples /\ IsDead(t)
    BY <2>1 DEF DeadCtids
  <2>3. t \in Tuple
    BY <2>1, <2>2, TuplesKnown DEF Known
  <2>4. t.xmax \in Xid => t.xmax # 0
    BY XidIs
  <2>5. status[t.xmin] = "aborted" \/ (t.xmax # 0 /\ status[t.xmax] = "committed")
    BY <2>2, <2>4 DEF IsDead
  <2>6. c \notin LiveOnes
    BY <2>1, <2>2, <2>5, OnesAre DEF LiveTuple
  <2>7. ASSUME NEW s \in Session, tx[s] # 0 PROVE c \notin SeenOnes(s) /\ c \notin FirstOnes(s)
    <3>1. /\ c \in SeenOnes(s) <=> SeenTuple(s, t)
          /\ c \in FirstOnes(s) <=> FirstTuple(s, t)
      BY <2>1, <2>2, <2>7, OnesAre
    <3>2. c \notin SeenOnes(s)
      BY <2>1, <2>2, <2>7, HeldLemma DEF NothingHeldIsDead, BaseInv, SeenOnes, Scanned
    <3>3. status[tx[s]] = "in_progress"
      BY <2>7, TxTyped DEF BaseInv, Running
    <3> QED BY <2>5, <3>1, <3>2, <3>3 DEF SeenTuple, FirstTuple, InPast
  <2> QED BY <2>6, <2>7
<1>4. LiveOnes' = LiveOnes
  BY <1>2, <1>3 DEF LiveOnes, Scanned
<1>5. \A s \in Session : tx[s] # 0 => SeenOnes(s)' = SeenOnes(s) /\ FirstOnes(s)' = FirstOnes(s)
  BY <1>2, <1>3 DEF SeenOnes, FirstOnes, Scanned
<1>6. /\ \A c \in Tuples' : RowOf(c)' = RowOf(c)
      /\ LiveOnes' \subseteq Tuples'
      /\ \A s : SeenOnes(s)' \subseteq Tuples' /\ FirstOnes(s)' \subseteq Tuples'
  BY <1>2 DEF RowOf, LiveOnes, SeenOnes, FirstOnes, Scanned
<1>7. Committed' = Committed
  BY <1>4, <1>6 DEF Committed, RowsOf
<1>8. \A s \in Session : tx[s] # 0 =>
         RowsOf(SeenOnes(s))' = RowsOf(SeenOnes(s)) /\ RowsOf(FirstOnes(s))' = RowsOf(FirstOnes(s))
  BY <1>5, <1>6 DEF RowsOf
<1>9. Bases' = Bases /\ Views' = Views /\ Open' = Open
  BY <1>2, <1>8 DEF Bases, Views, Open
<1>10. UNCHANGED <<SICommitted, Open, SIBases, SIViews>>
  BY <1>7, <1>9, MapsNow, MapsNext DEF Maps
<1> QED BY <1>10 DEF SICommitted, Open, SIBases, SIViews, SI!siVars

LEMMA InitSees == Init => SI!SIInit
<1> SUFFICES ASSUME Init PROVE SI!SIInit
  OBVIOUS
<1>1. \A s \in Session : tx[s] = 0
  BY DEF Init
<1>2. Ctids = {}
  BY DEF Ctids, Init
<1>3. \A S : Scanned(S) = {}
  BY <1>2 DEF Scanned, Tuples
<1>4. RowsIn(Fresh) = {}
  BY <1>3 DEF RowsIn
<1> QED BY <1>1, <1>4 DEF SI!SIInit

LEMMA NextSees ==
    ASSUME NoStaleUpdate, BaseInv, BaseInv', [Next]_vars
    PROVE  SI!SINext \/ UNCHANGED SI!siVars
<1>1. ASSUME NEW s \in Session, Begin(s) PROVE SI!SINext
  BY <1>1, BeginSees DEF SI!SINext
<1>2. ASSUME NEW s \in Session, Commit(s) PROVE SI!SINext
  <2>1. SI!Commit(s)
    BY <1>2, EndsSees DEF Commit
  <2> QED BY <2>1 DEF SI!SINext
<1>3. ASSUME NEW s \in Session, Rollback(s) PROVE SI!SINext
  <2>1. SI!Rollback(s)
    BY <1>3, EndsSees DEF Rollback
  <2> QED BY <2>1 DEF SI!SINext
<1>4. ASSUME NEW s \in Session, NEW k \in Key, Insert(s, k) PROVE SI!SINext
  BY <1>4, InsertSees DEF SI!SINext
<1>5. ASSUME NEW s \in Session, NEW k \in Key, HotUpdate(s, k) \/ ColdUpdate(s, k) PROVE SI!SINext
  BY <1>5, UpdateSees DEF SI!SINext
<1>6. ASSUME Vacuum PROVE UNCHANGED SI!siVars
  BY <1>6, VacuumSees
<1>7. ASSUME UNCHANGED vars PROVE UNCHANGED SI!siVars
  <2>1. UNCHANGED <<SICommitted, Open, SIBases, SIViews>>
    BY <1>7 DEF vars, SICommitted, Open, SIBases, SIViews, RowsIn, RowOf, Scanned, Tuples, Ctids,
                IsTuple, TupleAt, At, Visible, InPast, Fresh, Running, Before
  <2> QED BY <2>1 DEF SICommitted, Open, SIBases, SIViews, SI!siVars
<1> QED BY <1>1, <1>2, <1>3, <1>4, <1>5, <1>6, <1>7 DEF Next

\* Transactions, updates, chains, index and VACUUM together implement snapshot
\* isolation, first updater wins, for any sessions, rows and pages, as long as no update
\* goes to a version that has been superseded since (engine.cpp:294-296,
\* mvcc.cpp:27-34, vacuum.cpp:114-118).  A slot that is used again while a chain leads
\* to it breaks the index, and not this.
THEOREM SpecImplementsSI ==
    ASSUME NoStaleUpdate
    PROVE  Spec => ImplementsSI
<1>1. Init => SI!SIInit
  BY InitSees
<1>2. BaseInv /\ BaseInv' /\ [Next]_vars => [SI!SINext]_(SI!siVars)
  BY NextSees
<1> QED BY <1>1, <1>2, SpecBase, PTL DEF Spec, ImplementsSI, SI!SISpec

----------------------------------------------------------------------------
(***************************************************************************)
(* The chains.  Every slot of a chain can be given the key of the versions *)
(* the chain is about, and the entry that leads to it that key, as long as *)
(* no slot is used again while a chain leads to it.  So what is found      *)
(* under a key has that key.                                               *)
(***************************************************************************)
Labels(label) ==
    /\ \A c \in Tuples : label[c] = TupleAt(c).key
    /\ LinksKeep(label)
    /\ \A e \in index : label[e[2]] = e[1]

ChainsOK ==
    /\ \A e \in index : At(e[2]).flag # "UNUSED"
    /\ \E label : Labels(label)

LEMMA FoundKey ==
    ASSUME RowsTyped, ChainsOK, NEW k, NEW snap, NEW c \in Found(k, snap)
    PROVE  TupleAt(c).key = k
<1>1. PICK label : Labels(label)
  BY DEF ChainsOK
<1>2. LinksKeep(label)
  BY <1>1 DEF Labels
<1>3. c \in Tuples /\ \E e \in index : e[1] = k /\ label[c] = label[e[2]]
  BY <1>2, FoundIs
<1> QED BY <1>1, <1>3 DEF Labels

\* Onward, for a slot given as a pair.
OnwardOK ==
    \A p, i : /\ heap[p][i] = At(<<p, i>>)
              /\ At(<<p, i>>).flag = "REDIRECT" => Onward(p, i) = At(<<p, i>>).to
              /\ At(<<p, i>>).flag # "REDIRECT" => Onward(p, i) = Successor(<<p, i>>)

LEMMA OnwardNow == OnwardOK
  BY DEF OnwardOK, At, Onward

LEMMA OnwardNext == OnwardOK'
  BY OnwardNow, PTL

\* Nothing that stays leads to a slot that is taken.
LEMMA NotLedTo ==
    ASSUME RowsTyped, NEW new \in Ctid, ~LedTo(new), NEW i \in 1..Len(heap[new[1]]),
           heap[new[1]][i].flag # "UNUSED"
    PROVE  Onward(new[1], i) # new[2]
<1>1. PICK p : p = new[1]
  OBVIOUS
<1>2. p \in Page
  BY <1>1 DEF Ctid
<1>3. <<p, i>> \in Ctids /\ heap[p] \in Seq(Pointer) /\ DOMAIN heap[p] = 1..Len(heap[p])
  BY <1>1, <1>2, CtidIs DEF RowsTyped, CtidsOK, HeapTyped, Heaps
<1>4. heap[p][i] \in Pointer
  BY <1>1, <1>3
<1>5. CASE heap[p][i].flag = "REDIRECT"
  <2>1. heap[p][i] = Redirect(heap[p][i].to)
    BY <1>4, <1>5, PointerKinds
  <2>2. heap[p][i] # Redirect(new[2])
    BY <1>1, <1>3 DEF LedTo
  <2> QED BY <1>1, <1>5, <2>1, <2>2 DEF Onward
<1>6. CASE heap[p][i].flag = "NORMAL"
  <2>1. IsTuple(<<p, i>>)
    BY <1>1, <1>3, <1>6 DEF IsTuple, At
  <2>2. Successor(<<p, i>>) # new[2]
    BY <1>1, <1>3, <2>1 DEF LedTo
  <2> QED BY <1>1, <1>6, <2>2 DEF Onward
<1> QED BY <1>1, <1>4, <1>5, <1>6, PointerKinds

LEMMA AddsChains ==
    ASSUME RowsTyped, ChainsOK, NEW x, NEW k, NEW new, NEW old, Adds(x, k, new, old),
           ~LedTo(new), \A c \in old : TupleAt(c).key = k, index' \subseteq index \cup {<<k, new>>}
    PROVE  ChainsOK'
<1>1. Added(x, k, new, old)
  BY AddsFields
<1>2. /\ new \notin Tuples /\ new \in Tuples' /\ new \in Ctids'
      /\ Tuples' = Tuples \cup {new}
      /\ \A c \in old : c \in Tuples
      /\ \A c \in Ctids : c \notin Tuples /\ c # new => At(c)' = At(c)
      /\ HeapTyped'
  BY AddsTuples
<1>3. /\ k \in Key /\ new \in Ctid /\ (new \in Ctids => At(new) = Unused)
      /\ Ctids' = Ctids \cup {new}
      /\ \A c \in Ctids \ (old \cup {new}) : At(c)' = At(c)
  BY DEF Adds
<1>4. PICK label : Labels(label)
  BY DEF ChainsOK
<1>5. PICK lab : lab = [c \in Ctid |-> IF c = new THEN k ELSE label[c]]
  OBVIOUS
<1>6. CtidsOK /\ CtidsOK' /\ TuplesOK /\ TuplesOK'
  BY <1>2, CtidIs, CtidIsNext, TupleIsNow, TupleIsNext DEF RowsTyped
<1>7. Ctids \subseteq Ctid /\ Tuples \subseteq Ctid
  BY <1>6 DEF CtidsOK, TuplesOK
<1>8. lab[new] = k /\ \A c \in Ctid : c # new => lab[c] = label[c]
  BY <1>3, <1>5
<1>9. \A c \in Tuples' : lab[c] = TupleAt(c)'.key
  BY <1>1, <1>2, <1>4, <1>7, <1>8 DEF Labels, Added
<1>10. ASSUME NEW e \in index' PROVE lab[e[2]] = e[1] /\ At(e[2])'.flag # "UNUSED"
  <2>1. CASE e = <<k, new>>
    <3>1. At(new)'.flag = "NORMAL"
      BY <1>2, <1>6 DEF TuplesOK
    <3> QED BY <1>8, <2>1, <3>1
  <2>2. CASE e \in index
    <3>1. e[2] \in Ctids /\ At(e[2]).flag # "UNUSED" /\ label[e[2]] = e[1]
      BY <1>4, <2>2 DEF RowsTyped, ChainsOK, Labels
    <3>2. e[2] # new
      BY <1>3, <3>1 DEF Unused
    <3>3. PICK c : c = e[2]
      OBVIOUS
    <3>4. At(c)'.flag # "UNUSED"
      <4>1. CASE c \in Tuples
        <5>1. At(c)'.flag = "NORMAL"
          BY <1>2, <1>6, <4>1 DEF TuplesOK
        <5> QED BY <5>1
      <4>2. CASE c \notin Tuples
        BY <1>2, <3>1, <3>2, <3>3, <4>2
      <4> QED BY <4>1, <4>2
    <3> QED BY <1>7, <1>8, <3>1, <3>2, <3>3, <3>4
  <2> QED BY <2>1, <2>2
<1>11. ASSUME NEW p \in Page, NEW i \in 1..Len(heap'[p]),
              heap'[p][i].flag # "UNUSED", Onward(p, i)' # 0
       PROVE  lab[<<p, Onward(p, i)'>>] = lab[<<p, i>>]
  <2>1. PICK c : c = <<p, i>>
    OBVIOUS
  <2>2. c \in Ctids' /\ i \in Nat
    BY <1>6, <2>1 DEF CtidsOK
  <2>3. /\ heap'[p][i] = At(c)'
        /\ At(c)'.flag = "REDIRECT" => Onward(p, i)' = At(c)'.to
        /\ At(c)'.flag # "REDIRECT" => Onward(p, i)' = Successor(c)'
    BY <2>1, OnwardNext DEF OnwardOK
  <2>4. CASE c = new
    <3>1. At(c)'.flag = "NORMAL" /\ TupleAt(c)'.hot = FALSE
      BY <1>1, <1>2, <1>6, <2>4 DEF TuplesOK, Added
    <3>2. Successor(c)' = 0
      BY <3>1 DEF Successor
    <3> QED BY <1>11, <2>3, <3>1, <3>2
  <2>5. CASE c \in old
    <3>1. At(c)'.flag = "NORMAL" /\ TupleAt(c)'.ctid = new /\ c \in Tuples /\ c # new
      BY <1>1, <1>2, <1>6, <2>5 DEF TuplesOK, Added
    <3>2. Successor(c)' # 0
      BY <1>11, <2>3, <3>1
    <3>3. Successor(c)' = new[2] /\ new[1] = c[1]
      BY <3>1, <3>2 DEF Successor
    <3>4. <<p, new[2]>> = new
      BY <1>3, <2>1, <3>3 DEF Ctid
    <3>5. lab[c] = k
      BY <1>4, <1>7, <1>8, <2>5, <3>1 DEF Labels
    <3> QED BY <1>8, <2>1, <2>3, <3>1, <3>3, <3>4, <3>5
  <2>6. CASE c # new /\ c \notin old
    <3>1. c \in Ctids /\ At(c)' = At(c)
      BY <1>3, <2>2, <2>6
    <3>2. i \in 1..Len(heap[p])
      BY <1>6, <2>1, <2>2, <3>1 DEF CtidsOK
    <3>3. PICK lp : lp = At(c)
      OBVIOUS
    <3>4. Successor(c)' = Successor(c)
      BY <3>1 DEF Successor, TupleAt
    <3>5. /\ heap[p][i] = At(c)
          /\ At(c).flag = "REDIRECT" => Onward(p, i) = At(c).to
          /\ At(c).flag # "REDIRECT" => Onward(p, i) = Successor(c)
      BY <2>1, OnwardNow DEF OnwardOK
    <3>6. PICK j : j = Onward(p, i)
      OBVIOUS
    <3>7. Onward(p, i)' = j /\ heap[p][i].flag # "UNUSED" /\ j # 0
      BY <1>11, <2>3, <3>1, <3>4, <3>5, <3>6
    <3>8. label[<<p, j>>] = label[<<p, i>>]
      BY <1>4, <3>2, <3>6, <3>7 DEF Labels, LinksKeep
    <3>9. j \in 0..Len(heap[p])
      BY <3>2, <3>6, <3>7, OnwardIs
    <3>10. <<p, j>> \in Ctid
      BY <3>9 DEF Ctid
    <3>11. <<p, j>> # new
      BY <1>3, <3>2, <3>6, <3>7, NotLedTo
    <3> QED BY <1>7, <1>8, <2>1, <2>6, <3>1, <3>7, <3>8, <3>10, <3>11
  <2> QED BY <2>4, <2>5, <2>6
<1>12. LinksKeep(lab)'
  BY <1>11 DEF LinksKeep
<1>13. Labels(lab)'
  BY <1>9, <1>10, <1>12 DEF Labels
<1> QED BY <1>10, <1>13 DEF ChainsOK

LEMMA VacuumChains ==
    ASSUME RowsTyped, ChainsOK, Vacuum
    PROVE  ChainsOK'
<1>1. /\ HeapTyped' /\ Ctids' = Ctids /\ Tuples' = Tuples \ DeadCtids
      /\ \A c \in Tuples \ DeadCtids : TupleAt(c)' = TupleAt(c)
      /\ \A c \in Ctids \ DeadCtids : At(c)' = At(c)
      /\ \A c \in DeadRoots : At(c)' = Redirect(Successor(c))
      /\ \A c \in Reclaimable : At(c)' = Unused
      /\ \A p \in Page : Len(heap'[p]) = Len(heap[p])
      /\ index' = Cleaned(Reclaimable)
  BY VacuumIs DEF Vacuums
<1>2. PICK label : Labels(label)
  BY DEF ChainsOK
<1>3. CtidsOK /\ TuplesOK
  BY CtidIs, TupleIsNow DEF RowsTyped
<1>4. DeadRoots \subseteq DeadCtids /\ DeadCtids \subseteq Tuples /\ Reclaimable = DeadCtids \ DeadRoots
  BY DEF DeadRoots, DeadCtids, Reclaimable
<1>5. \A c \in Tuples' : label[c] = TupleAt(c)'.key
  BY <1>1, <1>2 DEF Labels
<1>6. ASSUME NEW e \in index' PROVE label[e[2]] = e[1] /\ At(e[2])'.flag # "UNUSED"
  <2>1. /\ e \in index /\ e[2] \in Ctids /\ label[e[2]] = e[1] /\ At(e[2]).flag # "UNUSED"
        /\ e = <<e[1], e[2]>>
    BY <1>1, <1>2 DEF Cleaned, RowsTyped, ChainsOK, Labels
  <2>2. PICK c : c = e[2]
    OBVIOUS
  <2>3. c \notin Reclaimable
    <3>1. SUFFICES ASSUME c \in Reclaimable PROVE FALSE
      OBVIOUS
    <3>2. label[c] = TupleAt(c).key
      BY <1>2, <1>4, <3>1 DEF Labels
    <3>3. e = <<TupleAt(c).key, c>>
      BY <2>1, <2>2, <3>2
    <3> QED BY <1>1, <3>1, <3>3 DEF Cleaned
  <2>4. At(c)'.flag # "UNUSED"
    <3>1. CASE c \in DeadRoots
      BY <1>1, <3>1 DEF Redirect
    <3>2. CASE c \notin DeadRoots
      BY <1>1, <1>4, <2>1, <2>2, <2>3, <3>2
    <3> QED BY <3>1, <3>2
  <2> QED BY <2>1, <2>2, <2>4
<1>7. ASSUME NEW p \in Page, NEW i \in 1..Len(heap'[p]),
             heap'[p][i].flag # "UNUSED", Onward(p, i)' # 0
      PROVE  label[<<p, Onward(p, i)'>>] = label[<<p, i>>]
  <2>1. PICK c : c = <<p, i>>
    OBVIOUS
  <2>2. i \in 1..Len(heap[p]) /\ c \in Ctids
    BY <1>1, <1>3, <2>1 DEF CtidsOK
  <2>3. /\ heap'[p][i] = At(c)'
        /\ At(c)'.flag = "REDIRECT" => Onward(p, i)' = At(c)'.to
        /\ At(c)'.flag # "REDIRECT" => Onward(p, i)' = Successor(c)'
    BY <2>1, OnwardNext DEF OnwardOK
  <2>4. /\ heap[p][i] = At(c)
        /\ At(c).flag = "REDIRECT" => Onward(p, i) = At(c).to
        /\ At(c).flag # "REDIRECT" => Onward(p, i) = Successor(c)
    BY <2>1, OnwardNow DEF OnwardOK
  <2>5. c \notin Reclaimable
    BY <1>1, <1>7, <2>3 DEF Unused
  <2>6. Onward(p, i)' = Onward(p, i) /\ heap[p][i].flag # "UNUSED"
    <3>1. CASE c \in DeadRoots
      <4>1. At(c).flag = "NORMAL"
        BY <1>3, <1>4, <3>1 DEF TuplesOK
      <4>2. At(c)'.flag = "REDIRECT" /\ At(c)'.to = Successor(c)
        BY <1>1, <3>1 DEF Redirect
      <4> QED BY <2>3, <2>4, <4>1, <4>2
    <3>2. CASE c \notin DeadRoots
      <4>1. At(c)' = At(c)
        BY <1>1, <1>4, <2>2, <2>5, <3>2
      <4>2. Successor(c)' = Successor(c)
        BY <4>1 DEF Successor, TupleAt
      <4> QED BY <1>7, <2>3, <2>4, <4>1, <4>2
    <3> QED BY <3>1, <3>2
  <2> QED BY <1>2, <1>7, <2>2, <2>6 DEF Labels, LinksKeep
<1>8. LinksKeep(label)'
  BY <1>7 DEF LinksKeep
<1>9. Labels(label)'
  BY <1>5, <1>6, <1>8 DEF Labels
<1> QED BY <1>6, <1>9 DEF ChainsOK

LEMMA KeptChains ==
    ASSUME ChainsOK, UNCHANGED <<heap, index>>
    PROVE  ChainsOK'
<1>1. PICK label : Labels(label)
  BY DEF ChainsOK
<1>2. Labels(label)'
  <2>1. /\ Tuples' = Tuples /\ \A c : TupleAt(c)' = TupleAt(c)
        /\ \A c : Successor(c)' = Successor(c)
    BY DEF Tuples, Ctids, IsTuple, TupleAt, At, Successor
  <2>2. \A q, i : Onward(q, i)' = Onward(q, i)
    BY <2>1 DEF Onward
  <2>3. LinksKeep(label)'
    BY <1>1, <2>2 DEF Labels, LinksKeep
  <2> QED BY <1>1, <2>1, <2>3 DEF Labels
<1>3. \A e \in index' : At(e[2])'.flag # "UNUSED"
  BY DEF ChainsOK, At
<1> QED BY <1>2, <1>3 DEF ChainsOK

----------------------------------------------------------------------------
(* The order of the versions of a row. *)

\* Who takes y for past takes x for past as well.
Precedes(x, y) ==
    \/ x = y
    \/ /\ status[x] = "committed" /\ x < y
       /\ \A s \in Session : tx[s] # 0 /\ x \in snapshot[s].active => tx[s] < y

\* The newer of two versions of a row began with what superseded the older one.
Follows(t, u) ==
    /\ t.key = u.key /\ t.val < u.val
    /\ status[t.xmin] # "aborted" /\ status[u.xmin] # "aborted"
    => t.xmax # 0 /\ Precedes(t.xmax, u.xmin)

OrderOK == \A c, d \in Tuples : Follows(TupleAt(c), TupleAt(d))

LEMMA OrderNext ==
    ASSUME \A c, d \in Tuples' : \A t, u : t = TupleAt(c)' /\ u = TupleAt(d)' => Follows(t, u)'
    PROVE  OrderOK'
  BY DEF OrderOK, Follows, Precedes

RowsInv == BaseInv /\ ChainsOK /\ OrderOK

\* No snapshot sees two of them.
LEMMA OneEach == RowsInv => OneVersionEach
<1> SUFFICES ASSUME RowsInv PROVE OneVersionEach
  OBVIOUS
<1>1. SeesOK /\ OrderOK /\ VersionsOK /\ TxInv
  BY SeesIs DEF RowsInv, BaseInv
<1>2. ASSUME NEW c \in Tuples, NEW d \in Tuples, NEW t, NEW u, t = TupleAt(c), u = TupleAt(d),
             t.key = u.key, t.val < u.val, NEW snap \in Current, Visible(t, snap), Visible(u, snap)
      PROVE  FALSE
  <2>1. t \in Tuple /\ u \in Tuple /\ t.xmin < nextXid /\ t.xmax < nextXid /\ u.xmin < nextXid /\ u.xmax < nextXid
    BY <1>2, TuplesKnown DEF Known, RowsInv
  <2>2. t.xmin \in Xid /\ t.xmax \in Xid \cup {0} /\ u.xmin \in Xid /\ t.xmax \in Nat /\ u.xmin \in Nat
        /\ nextXid \in Nat
    BY <2>1, XidIs, <1>1 DEF Tuple, TxInv, ManagerOK
  <2>3. Follows(t, u)
    BY <1>1, <1>2 DEF OrderOK
  <2>4. CASE snap = Fresh
    <3>1. LiveTuple(t) /\ LiveTuple(u)
      BY <1>1, <1>2, <2>1, <2>4 DEF SeesOK
    <3> QED BY <1>2, <2>3, <3>1 DEF LiveTuple, Follows, Precedes
  <2>5. ASSUME NEW s \in Session, tx[s] # 0, snap = snapshot[s] PROVE FALSE
    <3>1. SeenTuple(s, t) /\ SeenTuple(s, u)
      BY <1>1, <1>2, <2>1, <2>5 DEF SeesOK
    <3>2. status[tx[s]] = "in_progress" /\ tx[s] \in Nat /\ snapshot[s].xmax = tx[s] + 1
      BY <1>1, <2>5, TxTyped, XidIs DEF TxInv, HoldersOK, Holds, Running
    <3>3. t.xmax # 0 /\ Precedes(t.xmax, u.xmin)
      BY <1>2, <2>3, <3>1, <3>2 DEF SeenTuple, Follows, InPast
    <3>4. u.xmin < tx[s] + 1
      BY <2>2, <3>1, <3>2 DEF SeenTuple, InPast
    <3> QED BY <2>2, <2>5, <3>1, <3>2, <3>3, <3>4 DEF SeenTuple, Precedes, InPast
  <2> QED BY <2>4, <2>5 DEF Current
<1>3. ASSUME NEW snap \in Current, NEW c \in Scanned(snap), NEW d \in Scanned(snap),
             TupleAt(c).key = TupleAt(d).key, c # d
      PROVE  FALSE
  <2>1. PICK t, u : t = TupleAt(c) /\ u = TupleAt(d)
    OBVIOUS
  <2>2. c \in Tuples /\ d \in Tuples /\ Visible(t, snap) /\ Visible(u, snap)
    BY <1>3, <2>1 DEF Scanned
  <2>3. t.val # u.val
    BY <1>1, <1>3, <2>1, <2>2 DEF VersionsOK
  <2>4. t.val \in Nat /\ u.val \in Nat
    <3>1. t \in Tuple /\ u \in Tuple
      BY <2>1, <2>2, TuplesKnown DEF Known, RowsInv
    <3> QED BY <3>1, MvccConstants DEF Tuple
  <2>5. t.val < u.val \/ u.val < t.val
    BY <2>3, <2>4
  <2> QED BY <1>2, <1>3, <2>1, <2>2, <2>5
<1> QED BY <1>3 DEF OneVersionEach

\* Neither a beginning nor an end of a transaction disturbs the order.
Settles ==
    /\ \A w \in Xid : /\ status'[w] # "aborted" => status[w] # "aborted"
                      /\ status[w] = "committed" => status'[w] = "committed"
    /\ \A s \in Session, w \in Xid :
          tx'[s] # 0 /\ w \in snapshot'[s].active /\ status[w] = "committed" =>
              tx[s] # 0 /\ tx'[s] = tx[s] /\ w \in snapshot[s].active

LEMMA OrderSettles ==
    ASSUME RowsInv, Settles, Tuples' \subseteq Tuples, \A c \in Tuples' : TupleAt(c)' = TupleAt(c)
    PROVE  OrderOK'
<1>1. ASSUME NEW c \in Tuples', NEW d \in Tuples', NEW t, NEW u, t = TupleAt(c)', u = TupleAt(d)'
      PROVE  Follows(t, u)'
  <2>1. c \in Tuples /\ d \in Tuples /\ t = TupleAt(c) /\ u = TupleAt(d)
    BY <1>1
  <2>2. t \in Tuple /\ u \in Tuple
    BY <2>1, TuplesKnown DEF Known, RowsInv
  <2>3. t.xmin \in Xid /\ t.xmax \in Xid \cup {0} /\ u.xmin \in Xid
    BY <2>2 DEF Tuple
  <2>4. Follows(t, u)
    BY <2>1 DEF RowsInv, OrderOK
  <2>5. ASSUME NEW x \in Xid, NEW y \in Xid, Precedes(x, y) PROVE Precedes(x, y)'
    BY <2>5 DEF Precedes, Settles
  <2> QED BY <2>3, <2>4, <2>5 DEF Follows, Settles
<1> QED BY <1>1, OrderNext

LEMMA BeginSettles ==
    ASSUME TxInv, NEW s \in Session, Begin(s)
    PROVE  Settles
<1>1. /\ nextXid \in Xid /\ status' = status
      /\ tx'[s] = nextXid /\ \A u \in Session \ {s} : tx'[u] = tx[u] /\ snapshot'[u] = snapshot[u]
      /\ snapshot'[s].active = Running
  BY SnapshotLemma DEF Begin, TxInv, ManagerOK
<1>2. \A w \in Running : status[w] = "in_progress"
  BY DEF Running
<1> QED BY <1>1, <1>2 DEF Settles

LEMMA EndsSettles ==
    ASSUME TxInv, NEW s \in Session, NEW outcome \in {"committed", "aborted"}, Ends(s, outcome)
    PROVE  Settles
<1>1. /\ tx[s] # 0 /\ status' = [status EXCEPT ![tx[s]] = outcome]
      /\ tx'[s] = 0 /\ \A u \in Session \ {s} : tx'[u] = tx[u] /\ snapshot'[u] = snapshot[u]
  BY DEF Ends, TxInv, ManagerOK
<1>2. tx[s] \in Xid /\ status[tx[s]] = "in_progress" /\ status \in [Xid -> Status]
  BY <1>1, TxTyped DEF TxInv, ManagerOK, Running
<1>3. \A w \in Xid : status'[w] = IF w = tx[s] THEN outcome ELSE status[w]
  BY <1>1, <1>2
<1> QED BY <1>1, <1>2, <1>3 DEF Settles

LEMMA SameSettles ==
    ASSUME UNCHANGED txVars
    PROVE  Settles
  BY DEF Settles, txVars

\* What is written last is newest.
LEMMA NewestLast ==
    ASSUME BaseInv, NEW x, NEW k, NEW new, NEW old, Adds(x, k, new, old), NEW d \in Tuples'
    PROVE  ~(TupleAt(new)'.val < TupleAt(d)'.val)
<1>1. Added(x, k, new, old) /\ Tuples' = Tuples \cup {new}
  BY AddsFields, AddsTuples DEF BaseInv
<1>2. TupleAt(new)'.val = writes + 1 /\ writes \in Nat
  BY <1>1 DEF Added, BaseInv, RowsTyped
<1>3. CASE d = new
  BY <1>2, <1>3
<1>4. CASE d # new
  <2>1. d \in Tuples /\ TupleAt(d)'.val = TupleAt(d).val
    BY <1>1, <1>4 DEF Added
  <2>2. TupleAt(d) \in Tuple /\ VersionOK(d)
    BY <2>1, TuplesKnown DEF Known, BaseInv, VersionsOK
  <2>3. TupleAt(d).val \in Nat
    BY <2>2, MvccConstants DEF Tuple
  <2>4. TupleAt(d).val <= writes
    BY <2>2 DEF VersionOK
  <2> QED BY <1>2, <2>1, <2>3, <2>4
<1> QED BY <1>3, <1>4

\* A row is inserted only where nothing of it is left.
LEMMA InsertOrder ==
    ASSUME RowsInv, NEW x, NEW k, NEW new, Adds(x, k, new, {}), IsNew(k)
    PROVE  OrderOK'
<1>1. Added(x, k, new, {}) /\ Tuples' = Tuples \cup {new}
  BY AddsFields, AddsTuples DEF RowsInv, BaseInv
<1>2. UNCHANGED <<status, tx, snapshot>>
  BY DEF Adds, txVars
<1>3. \A c \in Tuples : TupleAt(c)' = TupleAt(c)
  BY <1>1 DEF Added
<1>4. ASSUME NEW c \in Tuples', NEW d \in Tuples', NEW t, NEW u, t = TupleAt(c)', u = TupleAt(d)'
      PROVE  Follows(t, u)'
  <2>1. CASE c # new /\ d # new
    <3>1. Follows(t, u)
      BY <1>1, <1>3, <1>4, <2>1 DEF RowsInv, OrderOK
    <3> QED BY <1>2, <3>1 DEF Follows, Precedes
  <2>2. CASE c # new /\ d = new
    <3>1. t = TupleAt(c) /\ c \in Tuples /\ u.key = k
      BY <1>1, <1>3, <1>4, <2>2 DEF Added
    <3>2. t.key = k => status[t.xmin] = "aborted"
      BY <3>1 DEF IsNew
    <3> QED BY <1>2, <3>1, <3>2 DEF Follows
  <2>3. CASE c = new
    <3>1. ~(t.val < u.val)
      BY <1>4, <2>3, NewestLast DEF RowsInv
    <3> QED BY <3>1 DEF Follows
  <2> QED BY <2>1, <2>2, <2>3
<1> QED BY <1>4, OrderNext

\* An update goes to the newest version there is but what rollbacks undid, and whoever
\* takes the transaction that updates for past takes those before it for past.
LEMMA UpdateOrder ==
    ASSUME RowsInv, NEW s \in Session, tx[s] # 0, NEW x, x = tx[s], NEW k, NEW new, NEW b \in Tuples,
           Adds(x, k, new, {b}), Replaceable(s, b), TupleAt(b).key = k
    PROVE  OrderOK'
<1>1. Added(x, k, new, {b}) /\ Tuples' = Tuples \cup {new}
  BY AddsFields, AddsTuples DEF RowsInv, BaseInv
<1>2. UNCHANGED <<status, tx, snapshot>>
  BY DEF Adds, txVars
<1>3. \A c \in Tuples \ {b} : TupleAt(c)' = TupleAt(c)
  BY <1>1 DEF Added
<1>4. PICK old : old = TupleAt(b)
  OBVIOUS
<1>5. SeenTuple(s, old) /\ (old.xmax # 0 => status[old.xmax] = "aborted") /\ old.key = k
  BY <1>4 DEF Replaceable
<1>6. x \in Xid /\ x \in Nat /\ status[x] = "in_progress" /\ snapshot[s].xmax = x + 1
  BY TxTyped, XidIs DEF RowsInv, BaseInv, TxInv, HoldersOK, Holds, Running
<1>7. old \in Tuple /\ old.xmin \in Xid /\ old.xmin \in Nat
  BY <1>4, TuplesKnown, XidIs DEF Known, RowsInv, Tuple
<1>8. status[old.xmin] # "aborted"
  BY <1>5, <1>6 DEF SeenTuple, InPast
\* Nothing that lives is newer than what an update goes to.
<1>9. ASSUME NEW d \in Tuples, NEW u, u = TupleAt(d), u.key = k, old.val < u.val
      PROVE  status[u.xmin] = "aborted"
  <2>1. Follows(old, u)
    BY <1>4, <1>9 DEF RowsInv, OrderOK
  <2> QED BY <1>5, <1>8, <1>9, <2>1 DEF Follows, Precedes
\* What came before the version that is updated precedes who updates it.
<1>10. ASSUME NEW y \in Xid, Precedes(y, old.xmin) PROVE Precedes(y, x)
  <2>1. CASE old.xmin = x
    BY <1>10, <2>1
  <2>2. CASE old.xmin # x
    <3>1. InPast(old.xmin, snapshot[s]) /\ old.xmin < x /\ status[old.xmin] = "committed"
      BY <1>5, <1>6, <1>7, <2>2 DEF SeenTuple, InPast
    <3>2. y \in Nat
      BY XidIs
    <3>3. CASE y = old.xmin
      <4>1. ASSUME NEW u \in Session, tx[u] # 0, y \in snapshot[u].active PROVE tx[u] < x
        <5>1. tx[u] \in Nat /\ u # s
          BY <3>1, <3>3, <4>1, TxTyped, XidIs DEF InPast, RowsInv, BaseInv
        <5>2. tx[u] # x
          BY <4>1, <5>1 DEF RowsInv, BaseInv, TxInv, HoldersOK, Apart
        <5>3. ~(x < tx[u])
          BY <3>1, <3>3, <4>1 DEF RowsInv, BaseInv, ActivesOK, InPast
        <5> QED BY <1>6, <5>1, <5>2, <5>3
      <4> QED BY <3>1, <3>3, <4>1 DEF Precedes
    <3>4. CASE y # old.xmin
      <4>1. /\ status[y] = "committed" /\ y < old.xmin
            /\ \A u \in Session : tx[u] # 0 /\ y \in snapshot[u].active => tx[u] < old.xmin
        BY <1>10, <3>4 DEF Precedes
      <4>2. \A u \in Session : tx[u] \in Nat
        BY DEF RowsInv, BaseInv, TxInv, ManagerOK
      <4>3. y < x /\ \A u \in Session : tx[u] # 0 /\ y \in snapshot[u].active => tx[u] < x
        BY <1>6, <1>7, <3>1, <3>2, <4>1, <4>2
      <4> QED BY <4>1, <4>3 DEF Precedes
    <3> QED BY <3>3, <3>4
  <2> QED BY <2>1, <2>2
<1>11. ASSUME NEW c \in Tuples', NEW d \in Tuples', NEW t, NEW u, t = TupleAt(c)', u = TupleAt(d)'
       PROVE  Follows(t, u)'
  <2>1. CASE c = new
    <3>1. ~(t.val < u.val)
      BY <1>11, <2>1, NewestLast DEF RowsInv
    <3> QED BY <3>1 DEF Follows
  <2>2. CASE c = b /\ d = new
    <3>1. t.xmax = x /\ u.xmin = x
      BY <1>1, <1>11, <2>2 DEF Added
    <3> QED BY <1>2, <1>6, <3>1, XidIs DEF Follows, Precedes
  <2>3. CASE c = b /\ d # new
    <3>1. t.key = k /\ t.val = old.val
      BY <1>1, <1>4, <1>5, <1>11, <2>3 DEF Added
    <3>2. d \in Tuples
      BY <1>1, <2>3
    <3>3. PICK v : v = TupleAt(d)
      OBVIOUS
    <3>4. u.key = v.key /\ u.val = v.val /\ u.xmin = v.xmin
      BY <1>1, <1>11, <3>2, <3>3 DEF Added
    <3>5. v.key = k /\ old.val < v.val => status[v.xmin] = "aborted"
      BY <1>9, <3>2, <3>3
    <3> QED BY <1>2, <3>1, <3>4, <3>5 DEF Follows
  <2>4. CASE c \notin {b, new} /\ d = new
    <3>1. t = TupleAt(c) /\ c \in Tuples /\ u.key = k /\ u.xmin = x
      BY <1>1, <1>3, <1>11, <2>4 DEF Added
    <3>2. t \in Tuple
      BY <3>1, TuplesKnown DEF Known, RowsInv
    <3>3. t.xmax \in Xid \cup {0} /\ t.val \in Nat /\ old.val \in Nat
      BY <1>7, <3>2, MvccConstants DEF Tuple
    <3>4. t.val # old.val
      BY <1>4, <2>4, <3>1 DEF RowsInv, BaseInv, VersionsOK
    <3>5. CASE t.val < old.val
      <4>1. Follows(t, old)
        BY <1>4, <3>1 DEF RowsInv, OrderOK
      <4>2. t.key = k /\ status[t.xmin] # "aborted" => t.xmax # 0 /\ Precedes(t.xmax, x)
        BY <1>5, <1>8, <1>10, <3>3, <3>5, <4>1 DEF Follows
      <4> QED BY <1>2, <3>1, <4>2 DEF Follows, Precedes
    <3>6. CASE old.val < t.val
      <4>1. t.key = k => status[t.xmin] = "aborted"
        BY <1>9, <3>1, <3>6
      <4> QED BY <1>2, <3>1, <4>1 DEF Follows
    <3> QED BY <3>3, <3>4, <3>5, <3>6
  <2>5. CASE c \notin {b, new} /\ d # new
    <3>1. c \in Tuples /\ d \in Tuples /\ t = TupleAt(c)
      BY <1>1, <1>3, <1>11, <2>5
    <3>2. PICK v : v = TupleAt(d)
      OBVIOUS
    <3>3. u.key = v.key /\ u.val = v.val /\ u.xmin = v.xmin
      BY <1>1, <1>11, <3>1, <3>2 DEF Added
    <3>4. Follows(t, v)
      BY <3>1, <3>2 DEF RowsInv, OrderOK
    <3> QED BY <1>2, <3>3, <3>4 DEF Follows, Precedes
  <2> QED BY <2>1, <2>2, <2>3, <2>4, <2>5
<1> QED BY <1>11, OrderNext

LEMMA InitRows == Init => RowsInv
<1> SUFFICES ASSUME Init PROVE RowsInv
  OBVIOUS
<1>1. heap = [p \in Page |-> <<>>] /\ index = {}
  BY DEF Init
<1>2. Ctids = {}
  BY <1>1 DEF Ctids
<1>3. Tuples = {}
  BY <1>2 DEF Tuples
<1>4. \A label : Labels(label)
  BY <1>1, <1>3 DEF Labels, LinksKeep
<1>5. ChainsOK /\ OrderOK
  BY <1>1, <1>3, <1>4 DEF ChainsOK, OrderOK
<1> QED BY <1>5, InitBase DEF RowsInv

LEMMA RowsStep ==
    ASSUME Undisturbed, RowsInv, [Next]_vars
    PROVE  RowsInv'
<1>1. /\ BaseInv /\ RowsTyped /\ ChainsOK /\ TxInv
      /\ BaseInv'
  BY BaseStep DEF RowsInv, BaseInv
<1>2. ASSUME NEW s \in Session, Begin(s) \/ Commit(s) \/ Rollback(s) PROVE ChainsOK' /\ OrderOK'
  <2>1. UNCHANGED <<heap, index, writes>>
    BY <1>2 DEF Begin, Commit, Rollback, Ends, rowVars
  <2>2. Settles
    BY <1>1, <1>2, BeginSettles, EndsSettles DEF Commit, Rollback
  <2>3. Tuples' = Tuples /\ \A c : TupleAt(c)' = TupleAt(c)
    BY <1>1, <2>1, KeptRows
  <2>4. OrderOK'
    BY <2>2, <2>3, OrderSettles
  <2> QED BY <1>1, <2>1, <2>4, KeptChains
<1>3. ASSUME NEW s \in Session, NEW k \in Key, Insert(s, k) PROVE ChainsOK' /\ OrderOK'
  <2>1. PICK x : x = tx[s]
    OBVIOUS
  <2>2. PICK new : Adds(x, k, new, {}) /\ index' = index \cup {<<k, new>>} /\ ~LedTo(new)
    BY <1>1, <1>3, <2>1, InsertIs
  <2>3. IsNew(k)
    BY <1>3 DEF Insert
  <2>4. PICK old : old = {}
    OBVIOUS
  <2>5. Adds(x, k, new, old) /\ \A c \in old : TupleAt(c).key = k
    BY <2>2, <2>4
  <2>6. ChainsOK'
    BY <1>1, <2>2, <2>5, AddsChains
  <2> QED BY <2>2, <2>3, <2>6, InsertOrder
<1>4. ASSUME NEW s \in Session, NEW k \in Key, HotUpdate(s, k) \/ ColdUpdate(s, k)
      PROVE  ChainsOK' /\ OrderOK'
  <2>1. PICK x : x = tx[s]
    OBVIOUS
  <2>2. PICK c, new : Rewrites(s, k, x, c, new)
    BY <1>1, <1>4, <2>1, HotUpdateIs, ColdUpdateIs
  <2>3. /\ tx[s] # 0 /\ c \in Tuples /\ Visible(TupleAt(c), snapshot[s])
        /\ Updates(s, k, c) /\ Adds(x, k, new, {c})
        /\ ~LedTo(new) /\ index' \subseteq index \cup {<<k, new>>}
    BY <2>2 DEF Rewrites
  <2>4. Replaceable(s, c)
    BY <1>1, <2>3, UpdatesReplaceable DEF Undisturbed, NoStaleUpdate
  <2>5. TupleAt(c).key = k
    BY <1>1, <2>3, FoundKey DEF Updates
  <2>6. PICK old : old = {c}
    OBVIOUS
  <2>7. Adds(x, k, new, old) /\ \A b \in old : TupleAt(b).key = k
    BY <2>3, <2>5, <2>6
  <2>8. ChainsOK'
    BY <1>1, <2>3, <2>7, AddsChains
  <2>9. OrderOK'
    BY <2>1, <2>3, <2>4, <2>5, UpdateOrder
  <2> QED BY <2>8, <2>9
<1>5. ASSUME Vacuum PROVE ChainsOK' /\ OrderOK'
  <2>1. Tuples' \subseteq Tuples /\ (\A c \in Tuples' : TupleAt(c)' = TupleAt(c)) /\ UNCHANGED txVars
    BY <1>1, <1>5, VacuumIs DEF Vacuums
  <2>2. Settles
    BY <2>1, SameSettles
  <2> QED BY <1>1, <1>5, <2>1, <2>2, VacuumChains, OrderSettles
<1>6. ASSUME UNCHANGED vars PROVE ChainsOK' /\ OrderOK'
  <2>1. UNCHANGED <<heap, index, writes>> /\ UNCHANGED txVars
    BY <1>6 DEF vars, txVars
  <2>2. Tuples' = Tuples /\ \A c : TupleAt(c)' = TupleAt(c)
    BY <1>1, <2>1, KeptRows
  <2>3. Settles
    BY <2>1, SameSettles
  <2>4. OrderOK'
    BY <2>2, <2>3, OrderSettles
  <2> QED BY <1>1, <2>1, <2>4, KeptChains
<1> QED BY <1>1, <1>2, <1>3, <1>4, <1>5, <1>6 DEF Next, RowsInv

\* The invariant of the versions of a row.
THEOREM SpecRows ==
    ASSUME Undisturbed
    PROVE  Spec => []RowsInv
<1>1. RowsInv /\ [Next]_vars => RowsInv'
  BY RowsStep
<1> QED BY <1>1, InitRows, PTL DEF Spec

\* No snapshot sees two versions of one row, whoever updates it and in whatever order
\* they commit (engine.cpp:294-296, mvcc.cpp:27-34).
THEOREM SpecOneVersionEach ==
    ASSUME Undisturbed
    PROVE  Spec => []OneVersionEach
  BY SpecRows, OneEach, PTL

----------------------------------------------------------------------------
(***************************************************************************)
(* The way from the index.  To every version that no rollback has undone a *)
(* chain leads from an entry for its key, over slots that are redirects or *)
(* hold older versions of the row.  A snapshot that sees the version sees  *)
(* none of those, so the walk gets there, and it is given enough steps.    *)
(***************************************************************************)

\* Slot c has j for its next, on the way to version d.
Leads(c, j, d) ==
    \/ At(c) = Redirect(j)
    \/ /\ c \in Tuples /\ Successor(c) = j
       /\ TupleAt(c).key = TupleAt(d).key /\ TupleAt(c).val < TupleAt(d).val
       /\ status[TupleAt(c).xmin] # "aborted"

Way(f, n, d) ==
    /\ f \in [0..n -> 1..Len(heap[d[1]])]
    /\ <<TupleAt(d).key, <<d[1], f[0]>>>> \in index
    /\ f[n] = d[2]
    /\ \A i, j \in 0..n : f[i] = f[j] => i = j
    /\ \A i \in 0..n : i # n => Leads(<<d[1], f[i]>>, f[i + 1], d)

Reached(d) == \E n \in Nat : \E f : Way(f, n, d)

WaysOK == \A d \in Tuples : status[TupleAt(d).xmin] # "aborted" => Reached(d)

\* Slots of which each leads to the next, and only the last is a version that is seen.
Clear(f, n, p, snap) ==
    /\ n \in Nat /\ n <= Len(heap[p]) /\ f \in [0..n -> 1..Len(heap[p])]
    /\ heap[p][f[n]].flag = "NORMAL" /\ Visible(heap[p][f[n]].tuple, snap)
    /\ \A i \in 0..n : i # n =>
          /\ heap[p][f[i]].flag # "UNUSED" /\ Onward(p, f[i]) = f[i + 1]
          /\ heap[p][f[i]].flag = "NORMAL" => ~Visible(heap[p][f[i]].tuple, snap)

\* The walk ends there.
LEMMA WalkGetsThere ==
    ASSUME RowsTyped, NEW p \in Page, NEW snap, NEW n, NEW f, Clear(f, n, p, snap)
    PROVE  HotSearch(<<p, f[0]>>, snap) = f[n]
<1> DEFINE L == Len(heap[p])
<1>1. PICK w : Walks(w, p, snap)
  BY WalkIs
<1>2. /\ \A s : HotSearch(<<p, s>>, snap) = w[L + 1][s]
      /\ \A k \in 0..(L + 1), i \in 0..L :
            w[k][i] = IF k = 0 \/ i = 0 THEN 0 ELSE OneStep(w, p, snap, k, i)
  BY <1>1 DEF Walks
<1>3. /\ n \in Nat /\ n <= L /\ f \in [0..n -> 1..L]
      /\ heap[p][f[n]].flag = "NORMAL" /\ Visible(heap[p][f[n]].tuple, snap)
      /\ \A i \in 0..n : i # n =>
            /\ heap[p][f[i]].flag # "UNUSED" /\ Onward(p, f[i]) = f[i + 1]
            /\ heap[p][f[i]].flag = "NORMAL" => ~Visible(heap[p][f[i]].tuple, snap)
  BY DEF Clear
<1>4. L \in Nat
  BY DEF RowsTyped, HeapTyped, Heaps
<1> DEFINE Bad == {r \in 0..n : w[L + 1 - n + r][f[n - r]] # f[n]}
<1>5. ASSUME Bad # {} PROVE FALSE
  <2>1. PICK r \in Bad : \A m \in Bad : r <= m
    <3>1. Bad \in SUBSET Nat
      OBVIOUS
    <3> HIDE DEF Bad
    <3> QED BY <1>5, <3>1, LeastIsLeast
  <2>2. r \in 0..n /\ w[L + 1 - n + r][f[n - r]] # f[n]
    BY <2>1
  <2>3. PICK m, i : m = L + 1 - n + r /\ i = f[n - r]
    OBVIOUS
  <2>4. m \in 1..(L + 1) /\ n - r \in 0..n /\ i \in 1..L
    BY <1>3, <1>4, <2>2, <2>3
  <2>5. w[m][i] = OneStep(w, p, snap, m, i) /\ w[m][i] # f[n]
    <3>1. m \in 0..(L + 1) /\ i \in 0..L /\ m # 0 /\ i # 0
      BY <1>4, <2>4
    <3>2. w[m][i] = OneStep(w, p, snap, m, i)
      BY <1>2, <3>1
    <3> QED BY <2>2, <2>3, <3>2
  <2>6. CASE r = 0
    <3>1. i = f[n]
      BY <1>3, <2>3, <2>6
    <3> QED BY <1>3, <2>5, <3>1, OneStepIs
  <2>7. CASE r # 0
    <3>1. r - 1 \in 0..n /\ r - 1 \notin Bad
      <4>1. r - 1 \in 0..n /\ ~(r <= r - 1)
        BY <1>3, <2>2, <2>7
      <4> HIDE DEF Bad
      <4> QED BY <2>1, <4>1
    <3>2. w[L + 1 - n + (r - 1)][f[n - (r - 1)]] = f[n]
      BY <3>1
    <3>3. L + 1 - n + (r - 1) = m - 1 /\ n - (r - 1) = (n - r) + 1 /\ n - r # n
      BY <1>3, <1>4, <2>2, <2>3, <2>7
    <3>4. w[m - 1][f[(n - r) + 1]] = f[n]
      BY <3>2, <3>3
    <3>5. /\ heap[p][i].flag # "UNUSED" /\ Onward(p, i) = f[(n - r) + 1]
          /\ heap[p][i].flag = "NORMAL" => ~Visible(heap[p][i].tuple, snap)
      BY <1>3, <2>3, <2>4, <3>3
    <3>6. heap[p][i].flag \in {"NORMAL", "REDIRECT", "UNUSED"}
      BY <2>4, OnwardIs
    <3>7. OneStep(w, p, snap, m, i) = w[m - 1][Onward(p, i)]
      BY <3>5, <3>6, OneStepIs
    <3> QED BY <2>5, <3>4, <3>5, <3>7
  <2> QED BY <2>6, <2>7
<1>6. n \in 0..n /\ n \notin Bad
  <2>1. n \in 0..n
    BY <1>3
  <2> HIDE DEF Bad
  <2> QED BY <1>5, <2>1
<1>7. w[L + 1 - n + n][f[n - n]] = f[n]
  BY <1>6
<1>8. L + 1 - n + n = L + 1 /\ n - n = 0
  BY <1>3, <1>4
<1> QED BY <1>2, <1>7, <1>8

\* A way is no longer than the page has slots.
LEMMA WayShort ==
    ASSUME NEW n \in Nat, NEW L \in Nat, NEW f \in [0..n -> 1..L],
           \A i, j \in 0..n : f[i] = f[j] => i = j
    PROVE  n <= L
<1>1. IsFiniteSet(0..n) /\ Cardinality(0..n) = n + 1
  BY FS_Interval
<1>2. IsFiniteSet(1..L) /\ Cardinality(1..L) = L
  BY FS_Interval
<1>3. SUFFICES ASSUME ~(n <= L) PROVE FALSE
  OBVIOUS
<1>4. Cardinality(1..L) < Cardinality(0..n)
  BY <1>1, <1>2, <1>3
<1>5. \E x, y \in 0..n : x # y /\ f[x] = f[y]
  BY <1>1, <1>2, <1>4, FS_PigeonHole
<1> QED BY <1>5

\* What a snapshot sees no rollback has undone.
LEMMA SeenAlive ==
    ASSUME RowsInv, NEW c \in Tuples, NEW snap \in Current, Visible(TupleAt(c), snap)
    PROVE  status[TupleAt(c).xmin] # "aborted"
<1>1. PICK t : t = TupleAt(c)
  OBVIOUS
<1>2. t \in Tuple /\ t.xmin < nextXid /\ t.xmax < nextXid
  BY <1>1, TuplesKnown DEF Known, RowsInv
<1>3. SeesOK /\ TxInv
  BY SeesIs DEF RowsInv, BaseInv
<1>4. CASE snap = Fresh
  <2>1. LiveTuple(t)
    BY <1>1, <1>2, <1>3, <1>4 DEF SeesOK
  <2> QED BY <1>1, <2>1 DEF LiveTuple
<1>5. ASSUME NEW s \in Session, tx[s] # 0, snap = snapshot[s]
      PROVE  status[TupleAt(c).xmin] # "aborted"
  <2>1. SeenTuple(s, t)
    BY <1>1, <1>2, <1>3, <1>5 DEF SeesOK
  <2>2. status[tx[s]] = "in_progress"
    BY <1>3, <1>5, TxTyped DEF Running
  <2> QED BY <1>1, <2>1, <2>2 DEF SeenTuple, InPast
<1> QED BY <1>4, <1>5 DEF Current

\* A snapshot that sees a version sees nothing else on the way to it.
LEMMA WayIsClear ==
    ASSUME RowsInv, NEW d \in Tuples, NEW snap \in Current, Visible(TupleAt(d), snap),
           NEW n \in Nat, NEW f, Way(f, n, d)
    PROVE  Clear(f, n, d[1], snap)
<1>1. RowsTyped /\ CtidsOK /\ TuplesOK /\ OneVersionEach
  BY CtidIs, TupleIsNow, OneEach DEF RowsInv, BaseInv, RowsTyped
<1>2. PICK p : p = d[1]
  OBVIOUS
<1>3. /\ p \in Page /\ d[2] \in 1..Len(heap[p]) /\ d = <<p, d[2]>> /\ d \in Ctids
      /\ At(d).flag = "NORMAL" /\ At(d).tuple = TupleAt(d)
  BY <1>1, <1>2 DEF CtidsOK, TuplesOK, TupleAt
<1>4. Len(heap[p]) \in Nat
  BY <1>1, <1>3 DEF RowsTyped, HeapTyped, Heaps
<1>5. /\ f \in [0..n -> 1..Len(heap[p])] /\ f[n] = d[2]
      /\ \A i, j \in 0..n : f[i] = f[j] => i = j
      /\ \A i \in 0..n : i # n => Leads(<<p, f[i]>>, f[i + 1], d)
  BY <1>2 DEF Way
<1>6. n <= Len(heap[p])
  BY <1>4, <1>5, WayShort
<1>7. heap[p][f[n]] = At(d)
  BY <1>3, <1>5 DEF At
<1>8. ASSUME NEW i \in 0..n, i # n
      PROVE  /\ heap[p][f[i]].flag # "UNUSED" /\ Onward(p, f[i]) = f[i + 1]
             /\ heap[p][f[i]].flag = "NORMAL" => ~Visible(heap[p][f[i]].tuple, snap)
  <2>1. PICK c, j : c = <<p, f[i]>> /\ j = f[i + 1]
    OBVIOUS
  <2>2. Leads(c, j, d)
    BY <1>5, <1>8, <2>1
  <2>3. /\ heap[p][f[i]] = At(c)
        /\ At(c).flag = "REDIRECT" => Onward(p, f[i]) = At(c).to
        /\ At(c).flag # "REDIRECT" => Onward(p, f[i]) = Successor(c)
    BY <2>1, OnwardNow DEF OnwardOK
  <2>4. CASE At(c) = Redirect(j)
    BY <2>1, <2>3, <2>4 DEF Redirect
  <2>5. CASE /\ c \in Tuples /\ Successor(c) = j
             /\ TupleAt(c).key = TupleAt(d).key /\ TupleAt(c).val < TupleAt(d).val
    <3>1. At(c).flag = "NORMAL" /\ At(c).tuple = TupleAt(c)
      BY <1>1, <2>5 DEF TuplesOK, TupleAt
    <3>2. ~Visible(TupleAt(c), snap)
      <4>1. SUFFICES ASSUME Visible(TupleAt(c), snap) PROVE FALSE
        OBVIOUS
      <4>2. c = d
        BY <1>1, <2>5, <4>1 DEF OneVersionEach, Scanned
      <4>3. TupleAt(d).val \in Nat
        BY <1>1, MvccConstants DEF TuplesOK, Tuple
      <4> QED BY <2>5, <4>2, <4>3
    <3> QED BY <2>1, <2>3, <2>5, <3>1, <3>2
  <2> QED BY <2>2, <2>4, <2>5 DEF Leads
<1>9. heap[p][f[n]].flag = "NORMAL" /\ Visible(heap[p][f[n]].tuple, snap)
  BY <1>3, <1>7
<1> QED BY <1>2, <1>5, <1>6, <1>8, <1>9 DEF Clear

\* An index scan comes to it.
LEMMA WaysLead ==
    ASSUME RowsInv, WaysOK, NEW d \in Tuples, NEW snap \in Current, Visible(TupleAt(d), snap)
    PROVE  d \in Found(TupleAt(d).key, snap)
<1>1. RowsTyped /\ CtidsOK /\ TuplesOK
  BY CtidIs, TupleIsNow DEF RowsInv, BaseInv, RowsTyped
<1>2. PICK n \in Nat : \E f : Way(f, n, d)
  BY SeenAlive DEF WaysOK, Reached
<1>3. PICK f : Way(f, n, d)
  BY <1>2
<1>4. d[1] \in Page /\ d[2] \in 1..Len(heap[d[1]]) /\ d = <<d[1], d[2]>> /\ Len(heap[d[1]]) \in Nat
  BY <1>1 DEF CtidsOK, TuplesOK, RowsTyped, HeapTyped, Heaps
<1>5. Clear(f, n, d[1], snap)
  BY <1>2, <1>3, WayIsClear
<1>6. HotSearch(<<d[1], f[0]>>, snap) = f[n]
  BY <1>1, <1>4, <1>5, WalkGetsThere
<1>7. PICK e : e = <<TupleAt(d).key, <<d[1], f[0]>>>>
  OBVIOUS
<1>8. e \in index /\ f[n] = d[2]
  BY <1>3, <1>7 DEF Way
<1>9. /\ e[1] = TupleAt(d).key /\ HotSearch(e[2], snap) = d[2] /\ d[2] # 0
      /\ d = <<e[2][1], HotSearch(e[2], snap)>>
  BY <1>4, <1>6, <1>7, <1>8
<1> QED BY <1>8, <1>9 DEF Found

LEMMA WaysFind == RowsInv /\ WaysOK => IndexFindsRows
<1> SUFFICES ASSUME RowsInv, WaysOK, NEW snap \in Current, NEW k \in Key
             PROVE  Found(k, snap) = {c \in Scanned(snap) : TupleAt(c).key = k}
  BY DEF IndexFindsRows
<1>1. RowsTyped /\ ChainsOK
  BY DEF RowsInv, BaseInv
<1>2. ASSUME NEW c \in Found(k, snap) PROVE c \in Scanned(snap) /\ TupleAt(c).key = k
  BY <1>1, FoundSeen, FoundKey DEF Scanned
<1>3. ASSUME NEW c \in Scanned(snap), TupleAt(c).key = k PROVE c \in Found(k, snap)
  <2>1. c \in Tuples /\ Visible(TupleAt(c), snap)
    BY DEF Scanned
  <2>2. c \in Found(TupleAt(c).key, snap)
    BY <2>1, WaysLead
  <2> QED BY <1>3, <2>2
<1> QED BY <1>2, <1>3

----------------------------------------------------------------------------
(* No statement blocks a way. *)

LEMMA LeadsFrom ==
    ASSUME RowsTyped, NEW d \in Tuples, NEW n \in Nat, NEW f, Way(f, n, d), NEW i \in 0..n
    PROVE  /\ <<d[1], f[i]>> \in Ctids /\ At(<<d[1], f[i]>>).flag # "UNUSED"
           /\ <<d[1], f[n]>> = d
           /\ i # n => i + 1 \in 0..n /\ f[i + 1] # 0 /\ Leads(<<d[1], f[i]>>, f[i + 1], d)
<1>1. CtidsOK /\ TuplesOK
  BY CtidIs, TupleIsNow DEF RowsTyped
<1>2. d[1] \in Page /\ d = <<d[1], d[2]>> /\ At(d).flag = "NORMAL" /\ Len(heap[d[1]]) \in Nat
  BY <1>1 DEF CtidsOK, TuplesOK, RowsTyped, HeapTyped, Heaps
<1>3. f \in [0..n -> 1..Len(heap[d[1]])] /\ f[n] = d[2]
  BY DEF Way
<1>4. <<d[1], f[i]>> \in Ctids
  BY <1>1, <1>2, <1>3 DEF CtidsOK
<1>5. ASSUME i # n
      PROVE  i + 1 \in 0..n /\ f[i + 1] # 0 /\ Leads(<<d[1], f[i]>>, f[i + 1], d)
  <2>1. i + 1 \in 0..n
    BY <1>5
  <2> QED BY <1>2, <1>3, <1>5, <2>1 DEF Way
<1>6. At(<<d[1], f[i]>>).flag # "UNUSED"
  <2>1. CASE i = n
    BY <1>2, <1>3, <2>1
  <2>2. CASE i # n
    BY <1>1, <1>5, <2>2 DEF Leads, Redirect, TuplesOK
  <2> QED BY <2>1, <2>2
<1> QED BY <1>2, <1>3, <1>4, <1>5, <1>6

\* Nor does the end of a transaction: who supersedes what it has written itself ends with it.
LEMMA WaysSettle ==
    ASSUME RowsInv, WaysOK, Settles, UNCHANGED <<heap, index>>
    PROVE  WaysOK'
<1>1. /\ Tuples' = Tuples /\ Ctids' = Ctids /\ \A c : TupleAt(c)' = TupleAt(c) /\ At(c)' = At(c)
      /\ \A c : Successor(c)' = Successor(c)
  BY DEF Tuples, Ctids, IsTuple, TupleAt, At, Successor
<1>2. ASSUME NEW d \in Tuples, status'[TupleAt(d).xmin] # "aborted" PROVE Reached(d)'
  <2>1. PICK u : u = TupleAt(d)
    OBVIOUS
  <2>2. u \in Tuple
    BY <2>1, TuplesKnown DEF Known, RowsInv
  <2>3. u.xmin \in Xid /\ status[u.xmin] # "aborted"
    BY <1>2, <2>1, <2>2 DEF Tuple, Settles
  <2>4. PICK n \in Nat : \E f : Way(f, n, d)
    BY <2>1, <2>3 DEF WaysOK, Reached
  <2>5. PICK f : Way(f, n, d)
    BY <2>4
  <2>6. ASSUME NEW c \in Tuples, NEW t, t = TupleAt(c), t.key = u.key, t.val < u.val,
               status[t.xmin] # "aborted"
        PROVE  status'[t.xmin] # "aborted"
    <3>1. t \in Tuple
      BY <2>6, TuplesKnown DEF Known, RowsInv
    <3>2. t.xmin \in Xid
      BY <3>1 DEF Tuple
    <3>3. t.xmax # 0 /\ Precedes(t.xmax, u.xmin)
      BY <2>1, <2>3, <2>6 DEF RowsInv, OrderOK, Follows
    <3>4. t.xmin = t.xmax \/ status[t.xmin] = "committed"
      BY <2>6, <3>3 DEF RowsInv, BaseInv, VersionsOK, VersionOK
    <3> QED BY <1>2, <2>1, <3>2, <3>3, <3>4 DEF Settles, Precedes
  <2>7. ASSUME NEW i \in 0..n, i # n PROVE Leads(<<d[1], f[i]>>, f[i + 1], d)'
    <3>1. PICK c, j : c = <<d[1], f[i]>> /\ j = f[i + 1]
      OBVIOUS
    <3>2. Leads(c, j, d)
      BY <2>5, <2>7, <3>1 DEF Way
    <3>3. CASE At(c) = Redirect(j)
      BY <1>1, <3>1, <3>3 DEF Leads
    <3>4. CASE /\ c \in Tuples /\ Successor(c) = j
               /\ TupleAt(c).key = TupleAt(d).key /\ TupleAt(c).val < TupleAt(d).val
               /\ status[TupleAt(c).xmin] # "aborted"
      <4>1. PICK t : t = TupleAt(c)
        OBVIOUS
      <4>2. status'[t.xmin] # "aborted"
        BY <2>1, <2>6, <3>4, <4>1
      <4>3. Leads(c, j, d)'
        BY <1>1, <3>4, <4>1, <4>2 DEF Leads
      <4> QED BY <3>1, <4>3
    <3> QED BY <3>2, <3>3, <3>4 DEF Leads
  <2>8. Way(f, n, d)'
    BY <1>1, <2>5, <2>7 DEF Way
  <2> QED BY <2>4, <2>8 DEF Reached
<1> QED BY <1>1, <1>2 DEF WaysOK

\* VACUUM makes redirects of what it removes from a way, and keeps its entry.
LEMMA VacuumWays ==
    ASSUME RowsInv, WaysOK, Vacuum
    PROVE  WaysOK'
<1>1. RowsTyped /\ CtidsOK /\ TuplesOK
  BY CtidIs, TupleIsNow DEF RowsInv, BaseInv, RowsTyped
<1>2. /\ Ctids' = Ctids /\ Tuples' = Tuples \ DeadCtids
      /\ \A c \in Tuples \ DeadCtids : TupleAt(c)' = TupleAt(c)
      /\ \A c \in Ctids \ DeadCtids : At(c)' = At(c)
      /\ \A c \in DeadRoots : At(c)' = Redirect(Successor(c))
      /\ \A p \in Page : Len(heap'[p]) = Len(heap[p])
      /\ index' = Cleaned(Reclaimable) /\ UNCHANGED txVars
  BY <1>1, VacuumIs DEF Vacuums
<1>3. status' = status
  BY <1>2 DEF txVars
<1>4. /\ DeadCtids \subseteq Tuples /\ DeadRoots \subseteq DeadCtids
      /\ \A c \in DeadCtids : Successor(c) # 0 => c \in DeadRoots
      /\ Reclaimable = DeadCtids \ DeadRoots
  BY DEF DeadCtids, DeadRoots, Reclaimable
<1>5. ASSUME NEW d \in Tuples', status[TupleAt(d).xmin] # "aborted" PROVE Reached(d)'
  <2>1. d \in Tuples /\ d \notin DeadCtids /\ TupleAt(d)' = TupleAt(d)
    BY <1>2
  <2>2. PICK n \in Nat : \E f : Way(f, n, d)
    BY <1>5, <2>1 DEF WaysOK, Reached
  <2>3. PICK f : Way(f, n, d)
    BY <2>2
  <2>4. ASSUME NEW i \in 0..n
        PROVE  /\ <<d[1], f[i]>> \notin Reclaimable
               /\ i # n => Leads(<<d[1], f[i]>>, f[i + 1], d)'
    <3>1. PICK c, j : c = <<d[1], f[i]>> /\ j = f[i + 1]
      OBVIOUS
    <3>2. /\ c \in Ctids
          /\ i = n => c = d
          /\ i # n => j # 0 /\ Leads(c, j, d)
      BY <1>1, <2>1, <2>3, <3>1, LeadsFrom
    <3>3. CASE i = n
      BY <1>4, <2>1, <3>1, <3>2, <3>3
    <3>4. CASE i # n /\ At(c) = Redirect(j)
      <4>1. c \notin Tuples
        BY <1>1, <3>4 DEF TuplesOK, Redirect
      <4>2. At(c)' = Redirect(j)
        BY <1>2, <1>4, <3>2, <3>4, <4>1
      <4> QED BY <1>4, <3>1, <4>1, <4>2 DEF Leads
    <3>5. CASE /\ i # n /\ c \in Tuples /\ Successor(c) = j
               /\ TupleAt(c).key = TupleAt(d).key /\ TupleAt(c).val < TupleAt(d).val
               /\ status[TupleAt(c).xmin] # "aborted"
      <4>1. CASE c \in DeadCtids
        <5>1. c \in DeadRoots /\ At(c)' = Redirect(j)
          BY <1>2, <1>4, <3>2, <3>5, <4>1
        <5> QED BY <1>4, <3>1, <5>1 DEF Leads
      <4>2. CASE c \notin DeadCtids
        <5>1. At(c)' = At(c) /\ TupleAt(c)' = TupleAt(c) /\ c \in Tuples'
          BY <1>2, <3>2, <3>5, <4>2
        <5>2. Successor(c)' = Successor(c)
          BY <5>1 DEF Successor
        <5>3. Leads(c, j, d)'
          BY <1>3, <2>1, <3>5, <5>1, <5>2 DEF Leads
        <5> QED BY <1>4, <3>1, <4>2, <5>3
      <4> QED BY <4>1, <4>2
    <3> QED BY <3>2, <3>3, <3>4, <3>5 DEF Leads
  <2>5. d[1] \in Page
    BY <1>1, <2>1 DEF TuplesOK, CtidsOK
  <2>6. <<TupleAt(d).key, <<d[1], f[0]>>>> \in index'
    <3>1. PICK e : e = <<TupleAt(d).key, <<d[1], f[0]>>>>
      OBVIOUS
    <3>2. e \in index /\ e[2] = <<d[1], f[0]>>
      BY <2>3, <3>1 DEF Way
    <3>3. e[2] \notin Reclaimable
      BY <2>2, <2>4, <3>2
    <3>4. \A c \in Reclaimable : e # <<TupleAt(c).key, c>>
      BY <3>3
    <3> QED BY <1>2, <3>1, <3>2, <3>4 DEF Cleaned
  <2>7. Way(f, n, d)'
    BY <1>2, <2>1, <2>3, <2>4, <2>5, <2>6 DEF Way
  <2> QED BY <2>2, <2>7 DEF Reached
<1>6. ASSUME NEW d \in Tuples', status'[TupleAt(d)'.xmin] # "aborted" PROVE Reached(d)'
  <2>1. TupleAt(d)' = TupleAt(d)
    BY <1>2
  <2> QED BY <1>3, <1>5, <1>6, <2>1
<1> QED BY <1>6 DEF WaysOK

\* A statement that writes leads no way astray: what it writes goes where no way
\* passes, and what it supersedes is the newest of its row.
LEMMA AddsWays ==
    ASSUME RowsTyped, RowsTyped', NEW x, NEW k, NEW new, NEW old, Adds(x, k, new, old),
           \A b \in old : \A e \in Tuples :
               /\ TupleAt(b).key = TupleAt(e).key /\ status[TupleAt(e).xmin] # "aborted"
               => ~(TupleAt(b).val < TupleAt(e).val),
           index \subseteq index',
           NEW d \in Tuples, status[TupleAt(d).xmin] # "aborted",
           NEW n \in Nat, NEW f, Way(f, n, d)
    PROVE  Way(f, n, d)' /\ \A i \in 0..n : <<d[1], f[i]>> # new
<1>1. Added(x, k, new, old)
  BY AddsFields
<1>2. Tuples' = Tuples \cup {new} /\ new \notin Tuples /\ \A c \in old : c \in Tuples
  BY AddsTuples
<1>3. /\ Ctids' = Ctids \cup {new} /\ (new \in Ctids => At(new) = Unused)
      /\ \A c \in Ctids \ (old \cup {new}) : At(c)' = At(c)
      /\ status' = status
  BY DEF Adds, txVars
<1>4. CtidsOK /\ CtidsOK' /\ TuplesOK
  BY CtidIs, CtidIsNext, TupleIsNow DEF RowsTyped
<1>5. /\ TupleAt(d)'.key = TupleAt(d).key /\ TupleAt(d)'.val = TupleAt(d).val
      /\ TupleAt(d)'.xmin = TupleAt(d).xmin
  BY <1>1 DEF Added
<1>6. ASSUME NEW i \in 0..n PROVE <<d[1], f[i]>> # new /\ f[i] \in 1..Len(heap'[d[1]])
  <2>1. PICK c : c = <<d[1], f[i]>>
    OBVIOUS
  <2>2. c \in Ctids /\ At(c).flag # "UNUSED"
    BY <2>1, LeadsFrom
  <2>3. c # new
    BY <1>3, <2>2 DEF Unused
  <2>4. c \in Ctids' /\ c[1] = d[1] /\ c[2] = f[i]
    BY <1>3, <2>1, <2>2
  <2>5. c[2] \in 1..Len(heap'[c[1]])
    BY <1>4, <2>4 DEF CtidsOK
  <2> QED BY <2>1, <2>3, <2>4, <2>5
<1>7. ASSUME NEW i \in 0..n, i # n PROVE Leads(<<d[1], f[i]>>, f[i + 1], d)'
  <2>1. PICK c, j : c = <<d[1], f[i]>> /\ j = f[i + 1]
    OBVIOUS
  <2>2. c \in Ctids /\ c # new /\ Leads(c, j, d)
    BY <1>6, <1>7, <2>1, LeadsFrom
  <2>3. CASE At(c) = Redirect(j)
    <3>1. c \notin Tuples
      BY <1>4, <2>3 DEF TuplesOK, Redirect
    <3>2. At(c)' = Redirect(j)
      BY <1>2, <1>3, <2>2, <2>3, <3>1
    <3> QED BY <2>1, <3>2 DEF Leads
  <2>4. CASE /\ c \in Tuples /\ Successor(c) = j
             /\ TupleAt(c).key = TupleAt(d).key /\ TupleAt(c).val < TupleAt(d).val
             /\ status[TupleAt(c).xmin] # "aborted"
    <3>1. c \notin old
      BY <2>4
    <3>2. At(c)' = At(c) /\ TupleAt(c)' = TupleAt(c) /\ c \in Tuples'
      BY <1>1, <1>2, <1>3, <2>2, <2>4, <3>1 DEF Added
    <3>3. Successor(c)' = Successor(c)
      BY <3>2 DEF Successor
    <3>4. Leads(c, j, d)'
      BY <1>3, <1>5, <2>4, <3>2, <3>3 DEF Leads
    <3> QED BY <2>1, <3>4
  <2> QED BY <2>2, <2>3, <2>4 DEF Leads
<1>8. /\ f \in [0..n -> 1..Len(heap[d[1]])] /\ f[n] = d[2]
      /\ <<TupleAt(d).key, <<d[1], f[0]>>>> \in index
      /\ \A i, j \in 0..n : f[i] = f[j] => i = j
  BY DEF Way
<1>9. f \in [0..n -> 1..Len(heap'[d[1]])]
  BY <1>6, <1>8
<1>10. Way(f, n, d)'
  BY <1>5, <1>7, <1>8, <1>9 DEF Way
<1> QED BY <1>6, <1>10

\* A version that has an entry of its own.
LEMMA EntryWay ==
    ASSUME RowsTyped, NEW new \in Tuples, <<TupleAt(new).key, new>> \in index
    PROVE  Reached(new)
<1>1. new[1] \in Page /\ new[2] \in 1..Len(heap[new[1]]) /\ new = <<new[1], new[2]>>
  BY CtidIs, TupleIsNow DEF RowsTyped, CtidsOK, TuplesOK
<1>2. PICK f : f = [i \in 0..0 |-> new[2]]
  OBVIOUS
<1>3. f[0] = new[2] /\ f \in [0..0 -> 1..Len(heap[new[1]])]
  BY <1>1, <1>2
<1>4. Way(f, 0, new)
  BY <1>1, <1>3 DEF Way
<1> QED BY <1>4 DEF Reached

EntriesReach == \A new \in Tuples : <<TupleAt(new).key, new>> \in index => Reached(new)

LEMMA EntriesNext == RowsTyped' => EntriesReach'
<1>1. RowsTyped => EntriesReach
  BY EntryWay DEF EntriesReach
<1> QED BY <1>1, PTL

\* A version that an update put on the page of the one it supersedes.
LEMMA ChainWay ==
    ASSUME RowsTyped, RowsTyped', VersionsOK, NEW x, NEW k, NEW new, NEW b \in Tuples,
           Adds(x, k, new, {b}), index' = index, b[1] = new[1], TupleAt(b)'.hot = TRUE,
           TupleAt(b).key = k, status[TupleAt(b).xmin] # "aborted",
           NEW n \in Nat, NEW f, Way(f, n, b)', \A i \in 0..n : <<b[1], f[i]>> # new
    PROVE  Reached(new)'
<1>1. Added(x, k, new, {b})
  BY AddsFields
<1>2. Tuples' = Tuples \cup {new} /\ new \notin Tuples
  BY AddsTuples
<1>3. CtidsOK' /\ TuplesOK' /\ CtidsOK /\ TuplesOK
  BY CtidIs, TupleIsNow, CtidIsNext, TupleIsNext DEF RowsTyped
<1>4. /\ new[1] \in Page /\ new[2] \in 1..Len(heap'[new[1]]) /\ new = <<new[1], new[2]>>
      /\ b = <<b[1], b[2]>>
  BY <1>2, <1>3 DEF CtidsOK, TuplesOK
<1>5. new[2] # b[2] /\ new[2] # 0
  BY <1>2, <1>4
<1>6. /\ TupleAt(b)'.key = k /\ TupleAt(b)'.val = TupleAt(b).val /\ TupleAt(b)'.xmin = TupleAt(b).xmin
      /\ TupleAt(b)'.ctid = new
      /\ TupleAt(new)'.key = k /\ TupleAt(new)'.val = writes + 1
  BY <1>1 DEF Added
<1>7. TupleAt(b).val \in Nat /\ TupleAt(b).val < writes + 1 /\ writes \in Nat
  <2>1. TupleAt(b).val <= writes
    <3>1. VersionOK(b)
      BY DEF VersionsOK
    <3> QED BY <3>1 DEF VersionOK
  <2>2. writes \in Nat
    BY MvccConstants DEF RowsTyped
  <2>3. TupleAt(b).val \in Nat
    BY <1>3, MvccConstants DEF TuplesOK, Tuple
  <2> QED BY <2>1, <2>2, <2>3
<1>8. status' = status
  BY DEF Adds, txVars
<1>9. Successor(b)' = new[2]
  BY <1>5, <1>6 DEF Successor
<1>10. Leads(b, new[2], new)'
  BY <1>2, <1>6, <1>7, <1>8, <1>9 DEF Leads
<1>11. ASSUME NEW c, NEW j, Leads(c, j, b)' PROVE Leads(c, j, new)'
  <2>1. CASE At(c)' = Redirect(j)
    BY <2>1 DEF Leads
  <2>2. CASE /\ c \in Tuples' /\ Successor(c)' = j
             /\ TupleAt(c)'.key = TupleAt(b)'.key /\ TupleAt(c)'.val < TupleAt(b)'.val
             /\ status'[TupleAt(c)'.xmin] # "aborted"
    <3>1. TupleAt(c)'.val \in Nat
      BY <1>3, <2>2, MvccConstants DEF TuplesOK, Tuple
    <3>2. TupleAt(c)'.val < TupleAt(new)'.val /\ TupleAt(c)'.key = TupleAt(new)'.key
      BY <1>6, <1>7, <2>2, <3>1
    <3> QED BY <2>2, <3>2 DEF Leads
  <2> QED BY <1>11, <2>1, <2>2 DEF Leads
<1>12. PICK g : g = [i \in 0..n+1 |-> IF i = n + 1 THEN new[2] ELSE f[i]]
  OBVIOUS
<1>13. /\ f \in [0..n -> 1..Len(heap'[b[1]])] /\ f[n] = b[2]
       /\ <<TupleAt(b)'.key, <<b[1], f[0]>>>> \in index'
       /\ \A i, j \in 0..n : f[i] = f[j] => i = j
       /\ \A i \in 0..n : i # n => Leads(<<b[1], f[i]>>, f[i + 1], b)'
  BY DEF Way
<1>14. g[n + 1] = new[2] /\ \A i \in 0..n : i \in 0..n+1 /\ i # n + 1 /\ g[i] = f[i]
  BY <1>12
<1>15. \A i \in 0..n : f[i] # new[2]
  BY <1>4
<1>16. g \in [0..n+1 -> 1..Len(heap'[new[1]])]
  BY <1>4, <1>12, <1>13
<1>17. \A i, j \in 0..n+1 : g[i] = g[j] => i = j
  <2> SUFFICES ASSUME NEW i \in 0..n+1, NEW j \in 0..n+1, g[i] = g[j] PROVE i = j
    OBVIOUS
  <2>1. (i \in 0..n \/ i = n + 1) /\ (j \in 0..n \/ j = n + 1)
    OBVIOUS
  <2> QED BY <1>13, <1>14, <1>15, <2>1
<1>18. ASSUME NEW i \in 0..n+1, i # n + 1 PROVE Leads(<<new[1], g[i]>>, g[i + 1], new)'
  <2>1. i \in 0..n
    BY <1>18
  <2>2. CASE i = n
    <3>1. <<new[1], g[i]>> = b /\ g[i + 1] = new[2]
      BY <1>4, <1>13, <1>14, <2>1, <2>2
    <3> QED BY <1>10, <3>1
  <2>3. CASE i # n
    <3>1. i + 1 \in 0..n
      BY <2>1, <2>3
    <3>2. PICK c, j : c = <<b[1], f[i]>> /\ j = f[i + 1]
      OBVIOUS
    <3>3. <<new[1], g[i]>> = c /\ g[i + 1] = j
      BY <1>14, <2>1, <3>1, <3>2
    <3>4. Leads(c, j, b)'
      BY <1>13, <2>1, <2>3, <3>2
    <3> QED BY <1>11, <3>3, <3>4
  <2> QED BY <2>2, <2>3
<1>19. <<TupleAt(new)'.key, <<new[1], g[0]>>>> \in index'
  <2>1. 0 \in 0..n
    OBVIOUS
  <2>2. g[0] = f[0]
    BY <1>14, <2>1
  <2> QED BY <1>6, <1>13, <2>2
<1>20. Way(g, n + 1, new)'
  BY <1>14, <1>16, <1>17, <1>18, <1>19 DEF Way
<1> QED BY <1>20 DEF Reached

\* What an update goes to is the newest version of its row that no rollback has undone.
LEMMA UpdatesNewest ==
    ASSUME RowsInv, NEW s \in Session, tx[s] # 0, NEW b \in Tuples, Replaceable(s, b)
    PROVE  /\ status[TupleAt(b).xmin] # "aborted"
           /\ \A e \in Tuples :
                 /\ TupleAt(b).key = TupleAt(e).key /\ status[TupleAt(e).xmin] # "aborted"
                 => ~(TupleAt(b).val < TupleAt(e).val)
<1>1. PICK t : t = TupleAt(b)
  OBVIOUS
<1>2. SeenTuple(s, t) /\ (t.xmax # 0 => status[t.xmax] = "aborted")
  BY <1>1 DEF Replaceable
<1>3. status[tx[s]] = "in_progress"
  BY TxTyped DEF RowsInv, BaseInv, Running
<1>4. status[t.xmin] # "aborted"
  BY <1>2, <1>3 DEF SeenTuple, InPast
<1>5. ASSUME NEW e \in Tuples, t.key = TupleAt(e).key, status[TupleAt(e).xmin] # "aborted",
             t.val < TupleAt(e).val
      PROVE  FALSE
  <2>1. Follows(t, TupleAt(e))
    BY <1>1 DEF RowsInv, OrderOK
  <2> QED BY <1>2, <1>4, <1>5, <2>1 DEF Follows, Precedes
<1> QED BY <1>1, <1>4, <1>5

LEMMA WritesWays ==
    ASSUME RowsTyped, RowsTyped', WaysOK, NEW x, NEW k, NEW new, NEW old, Adds(x, k, new, old),
           \A b \in old : \A e \in Tuples :
               /\ TupleAt(b).key = TupleAt(e).key /\ status[TupleAt(e).xmin] # "aborted"
               => ~(TupleAt(b).val < TupleAt(e).val),
           index \subseteq index', Reached(new)'
    PROVE  WaysOK'
<1>1. Added(x, k, new, old)
  BY AddsFields
<1>2. Tuples' = Tuples \cup {new}
  BY AddsTuples
<1>3. status' = status
  BY DEF Adds, txVars
<1>4. ASSUME NEW d \in Tuples, status[TupleAt(d).xmin] # "aborted" PROVE Reached(d)'
  <2>1. PICK n \in Nat : \E f : Way(f, n, d)
    BY <1>4 DEF WaysOK, Reached
  <2>2. PICK f : Way(f, n, d)
    BY <2>1
  <2>3. Way(f, n, d)'
    BY <1>4, <2>1, <2>2, AddsWays
  <2> QED BY <2>1, <2>3 DEF Reached
<1>5. \A d \in Tuples : TupleAt(d)'.xmin = TupleAt(d).xmin
  BY <1>1 DEF Added
<1> QED BY <1>2, <1>3, <1>4, <1>5 DEF WaysOK

LEMMA AddsNew ==
    ASSUME RowsTyped, NEW x, NEW k, NEW new, NEW old, Adds(x, k, new, old)
    PROVE  new \in Tuples' /\ TupleAt(new)'.key = k
<1>1. Added(x, k, new, old)
  BY AddsFields
<1>2. new \in Tuples'
  BY AddsTuples
<1> QED BY <1>1, <1>2 DEF Added

LEMMA InitWays == Init => WaysOK
<1> SUFFICES ASSUME Init PROVE WaysOK
  OBVIOUS
<1>1. heap = [p \in Page |-> <<>>]
  BY DEF Init
<1>2. Ctids = {}
  BY <1>1 DEF Ctids
<1> QED BY <1>2 DEF WaysOK, Tuples

LEMMA WaysStep ==
    ASSUME Undisturbed, RowsInv, WaysOK, [Next]_vars
    PROVE  WaysOK'
<1>1. /\ BaseInv /\ RowsTyped /\ ChainsOK /\ TxInv /\ VersionsOK
      /\ RowsTyped'
  BY BaseStep DEF RowsInv, BaseInv
<1>2. ASSUME NEW s \in Session, Begin(s) \/ Commit(s) \/ Rollback(s) PROVE WaysOK'
  <2>1. UNCHANGED <<heap, index>>
    BY <1>2 DEF Begin, Commit, Rollback, Ends, rowVars
  <2>2. Settles
    BY <1>1, <1>2, BeginSettles, EndsSettles DEF Commit, Rollback
  <2> QED BY <2>1, <2>2, WaysSettle
<1>3. ASSUME NEW s \in Session, NEW k \in Key, Insert(s, k) PROVE WaysOK'
  <2>1. PICK x : x = tx[s]
    OBVIOUS
  <2>2. PICK new : Adds(x, k, new, {}) /\ index' = index \cup {<<k, new>>}
    BY <1>1, <1>3, <2>1, InsertIs
  <2>3. new \in Tuples' /\ TupleAt(new)'.key = k
    BY <1>1, <2>2, AddsNew
  <2>4. Reached(new)'
    BY <1>1, <2>2, <2>3, EntriesNext DEF EntriesReach
  <2>5. PICK old : old = {}
    OBVIOUS
  <2>6. Adds(x, k, new, old)
    BY <2>2, <2>5
  <2> QED BY <1>1, <2>2, <2>4, <2>5, <2>6, WritesWays
<1>4. ASSUME NEW s \in Session, NEW k \in Key, HotUpdate(s, k) \/ ColdUpdate(s, k) PROVE WaysOK'
  <2>1. PICK x : x = tx[s]
    OBVIOUS
  <2>2. PICK c, new : Rewrites(s, k, x, c, new)
    BY <1>1, <1>4, <2>1, HotUpdateIs, ColdUpdateIs
  <2>3. /\ tx[s] # 0 /\ c \in Tuples /\ Visible(TupleAt(c), snapshot[s])
        /\ Updates(s, k, c) /\ Adds(x, k, new, {c})
        /\ \/ index' = index /\ c[1] = new[1] /\ TupleAt(c)'.hot = TRUE /\ TupleAt(c).key = k
           \/ index' = index \cup {<<k, new>>}
    BY <2>2 DEF Rewrites
  <2>4. Replaceable(s, c)
    BY <1>1, <2>3, UpdatesReplaceable DEF Undisturbed, NoStaleUpdate
  <2>5. PICK old : old = {c}
    OBVIOUS
  <2>6. /\ Adds(x, k, new, old)
        /\ \A b \in old : \A e \in Tuples :
              /\ TupleAt(b).key = TupleAt(e).key /\ status[TupleAt(e).xmin] # "aborted"
              => ~(TupleAt(b).val < TupleAt(e).val)
        /\ status[TupleAt(c).xmin] # "aborted"
    BY <2>3, <2>4, <2>5, UpdatesNewest
  <2>7. index \subseteq index'
    BY <2>3
  <2>8. CASE index' = index /\ c[1] = new[1] /\ TupleAt(c)'.hot = TRUE /\ TupleAt(c).key = k
    <3>1. PICK n \in Nat : \E f : Way(f, n, c)
      BY <2>3, <2>6 DEF WaysOK, Reached
    <3>2. PICK f : Way(f, n, c)
      BY <3>1
    <3>3. Way(f, n, c)' /\ \A i \in 0..n : <<c[1], f[i]>> # new
      BY <1>1, <2>3, <2>6, <2>7, <3>1, <3>2, AddsWays
    <3>4. Reached(new)'
      BY <1>1, <2>3, <2>6, <2>8, <3>1, <3>3, ChainWay
    <3> QED BY <1>1, <2>6, <2>7, <3>4, WritesWays
  <2>9. CASE index' = index \cup {<<k, new>>}
    <3>1. new \in Tuples' /\ TupleAt(new)'.key = k
      BY <1>1, <2>3, AddsNew
    <3>2. Reached(new)'
      BY <1>1, <2>9, <3>1, EntriesNext DEF EntriesReach
    <3> QED BY <1>1, <2>6, <2>7, <3>2, WritesWays
  <2> QED BY <2>3, <2>8, <2>9
<1>5. CASE Vacuum
  BY <1>5, VacuumWays
<1>6. CASE UNCHANGED vars
  <2>1. UNCHANGED <<heap, index>> /\ UNCHANGED txVars
    BY <1>6 DEF vars, txVars
  <2>2. Settles
    BY <2>1, SameSettles
  <2> QED BY <2>1, <2>2, WaysSettle
<1> QED BY <1>2, <1>3, <1>4, <1>5, <1>6 DEF Next

\* An index scan comes to exactly the rows a sequential scan finds under its key, through
\* HOT chains, redirects and what rollbacks have left (page.cpp:62-66, vacuum.cpp:50-53).
THEOREM SpecIndexFindsRows ==
    ASSUME Undisturbed
    PROVE  Spec => []IndexFindsRows
<1>1. Init => RowsInv /\ WaysOK
  BY InitRows, InitWays
<1>2. RowsInv /\ WaysOK /\ [Next]_vars => RowsInv' /\ WaysOK'
  BY RowsStep, WaysStep
<1> QED BY <1>1, <1>2, WaysFind, PTL DEF Spec
=============================================================================
