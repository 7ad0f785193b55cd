-------------------------- MODULE Recovery_proofs --------------------------
(* Theorems about Recovery, for any pages, slots, transactions and bounds, and *)
(* their proofs: the types of its state, the order in which the log and the    *)
(* pages reach the disk, and the ids that recovery takes for used up.          *)
EXTENDS Recovery, SequenceTheorems, FiniteSetTheorems, WellFoundedInduction, TLAPS

----------------------------------------------------------------------------
(* The greatest and the least of some numbers. *)

LEMMA MinIsLeast ==
    ASSUME NEW S \in SUBSET Nat, S # {}
    PROVE  Min(S) \in S /\ \A n \in S : Min(S) <= n
<1>1. PICK m \in S : \A n \in S : ~(<<n, m>> \in OpToRel(<, Nat))
  BY NatLessThanWellFounded, WFMin
<1>2. \A n \in S : m <= n
  <2>1. SUFFICES ASSUME NEW n \in S, n < m PROVE FALSE
    OBVIOUS
  <2>2. <<n, m>> \in OpToRel(<, Nat)
    BY <2>1 DEF OpToRel
  <2> QED BY <1>1, <2>2
<1> QED BY <1>1, <1>2 DEF Min

LEMMA MaxIsGreatest ==
    ASSUME NEW S \in SUBSET Nat, S # {}, NEW b \in Nat, \A n \in S : n <= b
    PROVE  Max(S) \in S /\ \A n \in S : n <= Max(S)
<1> DEFINE T == {b - n : n \in S}
<1>1. T \in SUBSET Nat /\ T # {}
  <2>1. \A n \in S : b - n \in Nat
    OBVIOUS
  <2> QED BY <2>1
<1>2. PICK k \in T : \A j \in T : k <= j
  BY <1>1, MinIsLeast
<1>3. PICK m \in S : k = b - m
  BY <1>2
<1>4. \A n \in S : n <= m
  <2>1. \A n \in S : b - m <= b - n
    BY <1>2, <1>3
  <2> QED BY <2>1
<1>5. \A n \in S : m >= n
  BY <1>4
<1> QED BY <1>3, <1>4, <1>5 DEF Max

\* The greater and the smaller of two numbers.
LEMMA MaxMinOfTwo ==
    ASSUME NEW a \in Nat, NEW b \in Nat
    PROVE  /\ Max({a, b}) = IF a >= b THEN a ELSE b
           /\ Min({a, b}) = IF a <= b THEN a ELSE b
<1>1. PICK S : S = {a, b}
  OBVIOUS
<1>2. S \in SUBSET Nat /\ S # {} /\ a + b \in Nat /\ \A n \in S : n <= a + b
  BY <1>1
<1>3. Max(S) \in S /\ \A n \in S : n <= Max(S)
  BY <1>2, MaxIsGreatest
<1>4. Min(S) \in S /\ \A n \in S : Min(S) <= n
  BY <1>2, MinIsLeast
<1>5. (Max(S) = IF a >= b THEN a ELSE b) /\ (Min(S) = IF a <= b THEN a ELSE b)
  BY <1>1, <1>3, <1>4
<1> QED BY <1>1, <1>5

----------------------------------------------------------------------------
(* Pages (page.cpp). *)

LEMMA Constants ==
    /\ Slots \in Nat /\ Slots >= 1 /\ 1 \in Slot /\ Slot \subseteq Nat
    /\ Page \subseteq Nat /\ 0 \in Page /\ IsFiniteSet(Page)
    /\ Xid \subseteq Nat /\ 0 \notin Xid /\ IsFiniteSet(Xid)
    /\ \A x \in Xid : x >= 1 /\ x <= Cardinality(Xid)
    /\ Cardinality(Xid) \in Nat
    /\ Value = 1..MaxWrites /\ MaxWrites \in Nat
    /\ Absent \notin Image /\ Unused \notin Tuple
<1>1. Slots \in Nat /\ Slots >= 1 /\ 1 \in Slot /\ Slot \subseteq Nat
  BY SlottedPageOK DEF Slot
<1>2. Cardinality(Page) \in Nat /\ Cardinality(Xid) \in Nat
  BY RecoveryOK, FS_CardinalityType
<1>3. Page \subseteq Nat /\ 0 \in Page
  <2> DEFINE n == Cardinality(Page)
  <2>1. Page = 0..(n - 1) /\ Page # {} /\ n \in Nat
    BY RecoveryOK, <1>2
  <2> HIDE DEF n
  <2>2. PICK p : p \in 0..(n - 1)
    BY <2>1
  <2> QED BY <2>1, <2>2
<1>4. Xid \subseteq Nat /\ 0 \notin Xid /\ \A x \in Xid : x >= 1 /\ x <= Cardinality(Xid)
  <2> DEFINE n == Cardinality(Xid)
  <2>1. Xid = 1..n /\ n \in Nat
    BY RecoveryOK, <1>2
  <2> HIDE DEF n
  <2>2. Xid \subseteq Nat /\ 0 \notin Xid /\ \A x \in Xid : x >= 1 /\ x <= n
    BY <2>1
  <2> QED BY <2>2 DEF n
<1> QED BY <1>1, <1>2, <1>3, <1>4, RecoveryOK, NoTupleNoImage

LEMMA EmptyImages ==
    /\ FreshPage \in Image /\ ZeroPage \in Image
    /\ FreshPage.formatted /\ ~ZeroPage.formatted
    /\ FreshPage.lsn = 0 /\ ZeroPage.lsn = 0
    /\ \A s \in Slot : FreshPage.tup[s] = Unused /\ ZeroPage.tup[s] = Unused
  BY DEF FreshPage, ZeroPage, Image

LEMMA SetLsnLemma ==
    ASSUME NEW img \in Image, NEW n \in Nat
    PROVE  /\ SetLsn(img, n) \in Image
           /\ SetLsn(img, n).lsn = n
           /\ SetLsn(img, n).tup = img.tup
           /\ SetLsn(img, n).formatted = img.formatted
  BY DEF SetLsn, Image

LEMMA InsertLemma ==
    ASSUME NEW img \in Image, NEW s \in Slot, NEW t \in Tuple
    PROVE  LET new == InsertTupleAt(img, s, t) IN
           /\ new \in Image
           /\ new.lsn = img.lsn /\ new.formatted = img.formatted
           /\ \A r \in Slot : new.tup[r] = IF img.formatted /\ r = s THEN t ELSE img.tup[r]
  BY DEF InsertTupleAt, Image

LEMMA RemoveLemma ==
    ASSUME NEW img \in Image, NEW s \in Slot
    PROVE  LET new == RemoveTuple(img, s) IN
           /\ new \in Image
           /\ new.lsn = img.lsn /\ new.formatted = img.formatted
           /\ \A r \in Slot : new.tup[r] = IF r = s THEN Unused ELSE img.tup[r]
  BY DEF RemoveTuple, Image

LEMMA StampLemma ==
    ASSUME NEW img \in Image, NEW s \in Slot, NEW x \in Xid \cup {0}
    PROVE  LET new == StampXmax(img, s, x) IN
           /\ new \in Image
           /\ new.lsn = img.lsn /\ new.formatted = img.formatted
           /\ \A r \in Slot : r # s \/ img.tup[r] = Unused => new.tup[r] = img.tup[r]
           /\ img.tup[s] # Unused =>
                /\ new.tup[s] # Unused
                /\ new.tup[s].xmax = x
                /\ new.tup[s].xmin = img.tup[s].xmin /\ new.tup[s].data = img.tup[s].data
<1>1. CASE img.tup[s] = Unused
  BY <1>1 DEF StampXmax
<1>2. CASE img.tup[s] # Unused
  <2>1. img.tup[s] \in Tuple
    BY <1>2 DEF Image
  <2> DEFINE t == [img.tup[s] EXCEPT !.xmax = x]
  <2>2. t \in Tuple /\ t.xmax = x /\ t.xmin = img.tup[s].xmin /\ t.data = img.tup[s].data
    BY <2>1 DEF Tuple
  <2>3. StampXmax(img, s, x) = [img EXCEPT !.tup[s] = t]
    BY <1>2 DEF StampXmax, Image
  <2> HIDE DEF t
  <2>4. t # Unused
    BY <2>2, NoTupleNoImage
  <2> QED BY <1>2, <2>2, <2>3, <2>4 DEF Image
<1> QED BY <1>1, <1>2

\* The slot that insert_tuple takes.
LEMMA FreeSlotLemma ==
    ASSUME NEW img \in Image, \E s \in Slot : img.tup[s] = Unused
    PROVE  FreeSlot(img) \in Slot /\ img.tup[FreeSlot(img)] = Unused
<1> DEFINE S == {s \in Slot : img.tup[s] = Unused}
<1>1. S \in SUBSET Nat /\ S # {}
  BY Constants
<1>2. Min(S) \in S
  BY <1>1, MinIsLeast
<1> QED BY <1>2 DEF FreeSlot

----------------------------------------------------------------------------
(* Records, and the log as it grows (wal.cpp). *)

LEMMA InsertRecordLemma ==
    ASSUME NEW x \in Xid, NEW c \in Ctid, NEW t \in Tuple
    PROVE  LET r == InsertRecord(x, c, t) IN
           /\ r \in Record /\ r.type = "INSERT" /\ r.xid = x /\ r.new = c /\ r.tuple = t
  BY DEF InsertRecord, Record

LEMMA UpdateRecordLemma ==
    ASSUME NEW x \in Xid, NEW o \in Ctid, NEW c \in Ctid, NEW t \in Tuple
    PROVE  LET r == UpdateRecord(x, o, c, t) IN
           /\ r \in Record /\ r.type = "UPDATE" /\ r.xid = x
           /\ r.old = o /\ r.new = c /\ r.tuple = t
  BY DEF UpdateRecord, Record

LEMMA ImageRecordLemma ==
    ASSUME NEW p \in Page, NEW img \in Image
    PROVE  LET r == ImageRecord(p, img) IN
           /\ r \in Record /\ r.type = "FPI" /\ r.xid = 0 /\ r.page = p /\ r.image = img
  BY DEF ImageRecord, Record

LEMMA TxRecordLemma ==
    /\ \A x \in Xid, type \in {"COMMIT", "ABORT", "CLR"} :
          LET r == TxRecord(type, x) IN r \in Record /\ r.type = type /\ r.xid = x
    /\ \A type \in {"CHECKPOINT", "TORN"} :
          LET r == TxRecord(type, 0) IN r \in Record /\ r.type = type /\ r.xid = 0
  BY DEF TxRecord, Record

\* What a record has, by its type.
LEMMA RecordFields ==
    ASSUME NEW r \in Record
    PROVE  /\ r.type \in {"INSERT", "UPDATE", "COMMIT", "ABORT", "CLR", "FPI", "CHECKPOINT", "TORN"}
           /\ r.type \in {"INSERT", "UPDATE"} =>
                r.xid \in Xid /\ r.new \in Ctid /\ r.tuple \in Tuple
           /\ r.type = "UPDATE" => r.old \in Ctid
           /\ r.type \in {"COMMIT", "ABORT", "CLR"} => r.xid \in Xid
           /\ r.type = "FPI" => r.page \in Page /\ r.image \in Image
           /\ r.type \in {"FPI", "CHECKPOINT", "TORN"} => r.xid = 0
  BY DEF Record

LEMMA TargetsLemma ==
    ASSUME NEW r \in Record
    PROVE  /\ Targets(r) \subseteq Page
           /\ Targets(r) \subseteq Needed(r) /\ Needed(r) \subseteq Page
           /\ r.type = "FPI" => Targets(r) = {r.page}
           /\ r.type = "INSERT" => Targets(r) = {r.new.page}
           /\ r.type = "UPDATE" => Targets(r) = {r.old.page, r.new.page}
           /\ r.type \notin {"FPI", "INSERT", "UPDATE"} => Targets(r) = {}
<1>1. Targets(r) \subseteq Page
  BY RecordFields DEF Targets, Ctid
<1>2. Targets(r) \subseteq Needed(r)
  <2> SUFFICES ASSUME NEW q \in Targets(r) PROVE q \in Needed(r)
    OBVIOUS
  <2>1. q \in Page /\ q \in Nat
    BY <1>1, Constants
  <2> QED BY <2>1 DEF Needed
<1> QED BY <1>1, <1>2 DEF Needed, Targets

\* lg is the beginning of new.
Prefix(lg, new) ==
    /\ new \in Seq(Record) /\ Len(lg) <= Len(new)
    /\ \A i \in 1..Len(lg) : new[i] = lg[i]

LEMMA AppendRecord ==
    ASSUME NEW lg \in Seq(Record), NEW r \in Record
    PROVE  LET new == Append(lg, r) IN
           /\ Prefix(lg, new)
           /\ Len(lg) \in Nat /\ Len(new) = Len(lg) + 1
           /\ new[Len(lg) + 1] = r
<1>1. Len(lg) \in Nat
  BY LenProperties
<1> QED BY <1>1, AppendProperties DEF Prefix

LEMMA PrefixTransitive ==
    ASSUME NEW a \in Seq(Record), NEW b, NEW c, Prefix(a, b), Prefix(b, c)
    PROVE  Prefix(a, c)
<1>1. Len(a) \in Nat /\ Len(b) \in Nat /\ Len(c) \in Nat
  BY LenProperties DEF Prefix
<1> QED BY <1>1 DEF Prefix

\* The first n records, and what follows them after a crash.
LEMMA CutLemma ==
    ASSUME NEW lg \in Seq(Record), NEW n \in 0..Len(lg), NEW e \in Seq(Record)
    PROVE  LET new == SubSeq(lg, 1, n) \o e IN
           /\ new \in Seq(Record) /\ Len(new) = n + Len(e)
           /\ \A i \in 1..n : new[i] = lg[i]
           /\ \A i \in 1..Len(e) : new[n + i] = e[i]
<1> DEFINE front == SubSeq(lg, 1, n)
<1>1. Len(lg) \in Nat /\ n \in Nat /\ n <= Len(lg) /\ Len(e) \in Nat
  BY LenProperties
<1>2. \A i \in 1..n : lg[i] \in Record
  BY <1>1, ElementOfSeq
<1>3. front \in Seq(Record) /\ Len(front) = n /\ \A i \in 1..n : front[i] = lg[i]
  <2>1. 1 \in Int /\ n \in Int /\ (IF 1 <= n THEN n - 1 + 1 ELSE 0) = n /\ n - 1 + 1 = n
    BY <1>1
  <2> QED BY <1>2, <2>1, SubSeqProperties
<1> HIDE DEF front
<1>4. /\ front \o e \in Seq(Record) /\ Len(front \o e) = n + Len(e)
      /\ \A i \in 1..(n + Len(e)) :
            (front \o e)[i] = IF i <= n THEN front[i] ELSE e[i - n]
  BY <1>3, ConcatProperties
<1>5. \A i \in 1..n : (front \o e)[i] = lg[i]
  BY <1>1, <1>3, <1>4
<1>6. \A i \in 1..Len(e) : (front \o e)[n + i] = e[i]
  <2> TAKE i \in 1..Len(e)
  <2>1. n + i \in 1..(n + Len(e)) /\ ~(n + i <= n) /\ (n + i) - n = i
    BY <1>1
  <2> QED BY <1>4, <2>1
<1> QED BY <1>4, <1>5, <1>6 DEF front

\* flush(target): what was flushed or synced stays so, nothing counts as flushed
\* that is not synced, and every record that begins before the target is synced.
LEMMA FlushLemma ==
    ASSUME NEW lg \in Seq(Record), NEW target \in Nat,
           synced \in 0..Len(lg), flushed \in 0..2 * Len(lg), flushed <= End(synced),
           Flush(lg, target)
    PROVE  /\ synced' \in synced..Len(lg) /\ flushed' \in flushed..2 * Len(lg)
           /\ flushed' <= End(synced')
           /\ \A i \in 1..Len(lg) : Inside(i) <= target => i <= synced'
<1>1. PICK L \in Nat : L = Len(lg)
  BY LenProperties
<1>2. flushed \in Nat /\ synced \in Nat /\ synced <= L /\ flushed <= 2 * L
      /\ flushed <= 2 * synced
  BY <1>1 DEF End
<1>3. CASE target <= flushed
  BY <1>1, <1>2, <1>3 DEF Flush, End, Inside
<1>4. CASE ~(target <= flushed)
  <2>1. PICK m, e : m = Min({target, e}) /\ e = End(Len(lg))
    OBVIOUS
  <2>2. e \in Nat /\ e = 2 * L
    BY <1>1, <2>1 DEF End
  <2>3. m = IF target <= e THEN target ELSE e
    BY <2>1, <2>2, MaxMinOfTwo
  <2>4. m \in Nat /\ m <= 2 * L /\ (m = target \/ m = 2 * L)
    BY <2>2, <2>3
  <2>5. synced' = L /\ flushed' = Max({flushed, m})
    BY <1>1, <1>4, <2>1 DEF Flush
  <2>6. flushed' = IF flushed >= m THEN flushed ELSE m
    BY <1>2, <2>4, <2>5, MaxMinOfTwo
  <2>7. flushed' \in Nat /\ flushed <= flushed' /\ flushed' <= 2 * L
    BY <1>2, <2>4, <2>6
  <2> QED BY <1>1, <1>2, <2>5, <2>7 DEF End
<1> QED BY <1>3, <1>4

----------------------------------------------------------------------------
(***************************************************************************)
(* The inductive invariant behind the types.  Undo takes records back on   *)
(* pages that redo has seen to: without Reached it could meet a page that  *)
(* is not there.                                                           *)
(***************************************************************************)
WalOK ==
    /\ log \in Seq(Record)
    /\ synced \in 0..Len(log)
    /\ flushed \in 0..2 * Len(log)
    /\ imaged \subseteq Page
    /\ FlushedIsSynced

Images == Image \cup {Absent}

PagesOK ==
    /\ mem \in [Page -> Images] /\ file \in [Page -> Images]
    /\ platter \in [Page -> SUBSET Images]
    /\ \A p \in Page : file[p] \in platter[p]
    /\ dirty \subseteq Page
    /\ \A p \in dirty : Present(mem[p])
    /\ CleanFramesMatch

TxOK ==
    /\ statusMap \in [Xid -> Status \cup {Unset}]
    /\ clog \in [Xid -> Status] /\ clogFile \in [Xid -> Status]
    /\ nextXid \in Nat
    /\ control \in [nextXid : Nat, inProduction : BOOLEAN]

Passes ==
    /\ phase \in {"up", "redo", "undo", "down"}
    /\ upto \in 0..Len(log) /\ at \in 0..(upto + 1)
    /\ phase = "redo" => at >= 1
    /\ phase = "undo" => at <= upto
    /\ losers \subseteq Xid

Reached ==
    phase \in {"redo", "undo"} =>
        \A i \in StartRecord(upto)..upto : phase = "undo" \/ i < at =>
            \A p \in Targets(log[i]) : Present(mem[p])

GhostsOK ==
    /\ work \in [Xid -> Work]
    /\ expected \subseteq Value
    /\ writes \in 0..MaxWrites /\ evictions \in 0..MaxEvictions
    /\ crashes \in 0..MaxCrashes

StorageInv == WalOK /\ PagesOK /\ TxOK /\ Passes /\ Reached /\ GhostsOK

LEMMA StorageTyped == StorageInv => TypeOK /\ FlushedIsSynced /\ CleanFramesMatch
<1> SUFFICES ASSUME StorageInv PROVE TypeOK
  BY DEF StorageInv, WalOK, PagesOK
<1>1. \A p \in Page : file[p] \in platter[p] /\ platter[p] \subseteq Image \cup {Absent}
  BY DEF StorageInv, PagesOK, Images
<1>2. {clog, clogFile} \subseteq [Xid -> Status]
  BY DEF StorageInv, TxOK
<1> QED BY <1>1, <1>2
        DEF TypeOK, StorageInv, WalOK, PagesOK, TxOK, Passes, GhostsOK, Images

LEMMA InitStorage == Init => StorageInv
<1> SUFFICES ASSUME Init PROVE StorageInv
  OBVIOUS
<1>1. WalOK
  BY EmptySeq DEF Init, WalOK, FlushedIsSynced, End
<1>2. PagesOK
  BY EmptyImages DEF Init, PagesOK, CleanFramesMatch, Images
<1>3. TxOK
  BY DEF Init, TxOK, Status
<1>4. Passes /\ Reached
  <2>1. Len(<<>>) = 0
    BY EmptySeq
  <2> QED BY <2>1 DEF Init, Passes, Reached
<1>5. GhostsOK
  <2>1. {MaxWrites, MaxEvictions, MaxCrashes} \subseteq Nat
    BY RecoveryOK
  <2> QED BY <2>1 DEF Init, GhostsOK, Work, Idle
<1> QED BY <1>1, <1>2, <1>3, <1>4, <1>5 DEF StorageInv

\* The pass over the records since the last checkpoint starts at one of them, and
\* at the same one as long as those records stand.
LEMMA StartLemma ==
    ASSUME log \in Seq(Record), NEW n \in 0..Len(log)
    PROVE  /\ StartRecord(n) \in Nat /\ StartRecord(n) >= 1 /\ StartRecord(n) <= n + 1
           /\ StartRecord(n) = 1 \/ log[StartRecord(n)].type = "CHECKPOINT"
           /\ \A i \in 1..n : log[i].type = "CHECKPOINT" => i <= StartRecord(n)
<1>1. PICK S : S = {1} \cup {i \in 1..n : log[i].type = "CHECKPOINT"}
  OBVIOUS
<1>2. n \in Nat /\ n + 1 \in Nat
  BY LenProperties
<1>3. S \in SUBSET Nat /\ S # {} /\ \A i \in S : i <= n + 1
  BY <1>1, <1>2
<1>4. Max(S) \in S /\ \A i \in S : i <= Max(S)
  BY <1>2, <1>3, MaxIsGreatest
<1>5. StartRecord(n) = Max(S)
  BY <1>1 DEF StartRecord
<1> QED BY <1>1, <1>2, <1>4, <1>5

LEMMA StartStays ==
    ASSUME log \in Seq(Record), Prefix(log, log'), upto \in 0..Len(log), upto' = upto
    PROVE  StartRecord(upto)' = StartRecord(upto)
<1>1. \A i \in 1..upto : log'[i] = log[i]
  BY LenProperties DEF Prefix
<1>2. {i \in 1..upto : log'[i].type = "CHECKPOINT"} = {i \in 1..upto : log[i].type = "CHECKPOINT"}
  BY <1>1
<1> QED BY <1>2 DEF StartRecord

\* Nothing that recovery has reached goes away while the log only grows.
LEMMA ReachedStays ==
    ASSUME StorageInv, Prefix(log, log'), UNCHANGED <<phase, at, upto>>,
           \A p \in Page : Present(mem[p]) => Present(mem'[p])
    PROVE  Reached'
<1>1. StartRecord(upto)' = StartRecord(upto)
  BY StartStays DEF StorageInv, WalOK, Passes
<1> SUFFICES ASSUME phase \in {"redo", "undo"}, NEW i \in StartRecord(upto)..upto,
                    phase = "undo" \/ i < at, NEW p \in Targets(log'[i])
             PROVE  Present(mem'[p])
  BY <1>1 DEF Reached
<1>2. i \in 1..Len(log) /\ upto \in 0..Len(log) /\ log \in Seq(Record)
  BY StartLemma, LenProperties DEF StorageInv, WalOK, Passes
<1>3. log'[i] = log[i] /\ log[i] \in Record
  BY <1>2, ElementOfSeq DEF Prefix
<1>4. Present(mem[p]) /\ p \in Page
  BY <1>3, TargetsLemma DEF StorageInv, Reached
<1> QED BY <1>4

----------------------------------------------------------------------------
(* Statements keep the invariant. *)

\* Where insert() puts a row, and the row.
LEMMA TargetLemma ==
    ASSUME StorageInv, NEW q \in Page, Takes(q)
    PROVE  /\ Target(q) \in Image /\ Target(q).formatted
           /\ NewCtid(q) \in Ctid /\ NewCtid(q).page = q /\ NewCtid(q).slot \in Slot
           /\ Target(q).tup[NewCtid(q).slot] = Unused
           /\ Present(mem[q]) => Target(q) = mem[q]
           /\ ~Present(mem[q]) => Target(q) = FreshPage
<1>1. mem[q] \in Image \cup {Absent}
  BY DEF StorageInv, PagesOK, Images
<1>2. Target(q) \in Image /\ Target(q).formatted /\ \E s \in Slot : Target(q).tup[s] = Unused
  BY <1>1, EmptyImages, Constants DEF Takes, Target, HasRoom, Extends, Present
<1>3. FreeSlot(Target(q)) \in Slot /\ Target(q).tup[FreeSlot(Target(q))] = Unused
  BY <1>2, FreeSlotLemma
<1> QED BY <1>2, <1>3 DEF NewCtid, Ctid, Target

LEMMA NewTupleLemma ==
    ASSUME StorageInv, NEW x \in Xid, MayWrite(x)
    PROVE  /\ NewTuple(x) \in Tuple
           /\ NewTuple(x).xmin = x /\ NewTuple(x).xmax = 0
           /\ writes + 1 \in Value /\ NewTuple(x).data = writes + 1
  BY Constants DEF StorageInv, GhostsOK, MayWrite, NewTuple, Tuple

\* maybe_log_fpi logs the page as it is, or nothing.
LEMMA WithImageLemma ==
    ASSUME StorageInv, NEW lg \in Seq(Record), NEW p \in Page
    PROVE  LET new == WithImage(lg, p) IN
           /\ Prefix(lg, new)
           /\ Len(lg) \in Nat /\ Len(new) \in Nat /\ Len(new) <= Len(lg) + 1
           /\ \A i \in Len(lg)+1..Len(new) :
                 Present(mem[p]) /\ mem[p] \in Image /\ new[i] = ImageRecord(p, mem[p])
<1>1. Len(lg) \in Nat
  BY LenProperties
<1>2. CASE p \in imaged \/ ~Present(mem[p])
  BY <1>1, <1>2 DEF WithImage, Prefix
<1>3. CASE ~(p \in imaged \/ ~Present(mem[p]))
  <2>1. mem[p] \in Image
    BY <1>3 DEF StorageInv, PagesOK, Images, Present
  <2>2. PICK r \in Record : r = ImageRecord(p, mem[p])
    BY <2>1, ImageRecordLemma
  <2>3. WithImage(lg, p) = Append(lg, r)
    BY <1>3, <2>2 DEF WithImage
  <2> QED BY <1>1, <1>3, <2>1, <2>2, <2>3, AppendRecord
<1> QED BY <1>2, <1>3

\* The pages after a change of those in P.
LEMMA ChangeKeepsPages ==
    ASSUME StorageInv, NEW P \in SUBSET Page,
           mem' \in [Page -> Images],
           \A p \in P : mem'[p] \in Image,
           \A p \in Page \ P : mem'[p] = mem[p],
           dirty' = dirty \cup P,
           UNCHANGED <<file, platter>> \/ \E Q \in SUBSET P : Allocate(Q)
    PROVE  PagesOK' /\ \A p \in Page : Present(mem[p]) => Present(mem'[p])
<1>1. \A p \in P : Present(mem'[p])
  BY NoTupleNoImage DEF Present
<1>2. CASE UNCHANGED <<file, platter>>
  BY <1>1, <1>2 DEF StorageInv, PagesOK, CleanFramesMatch
<1>3. ASSUME NEW Q \in SUBSET P, Allocate(Q)
      PROVE  PagesOK'
  <2>1. file' = [p \in Page |-> IF p \in Q /\ ~Present(file[p]) THEN ZeroPage ELSE file[p]]
    BY <1>3 DEF Allocate
  <2>2. file' \in [Page -> Images] /\ \A p \in Page \ P : file'[p] = file[p]
    BY <2>1, EmptyImages DEF StorageInv, PagesOK, Images
  <2>3. platter' = [p \in Page |-> platter[p] \cup {file'[p]}]
    BY <1>3 DEF Allocate
  <2>4. platter' \in [Page -> SUBSET Images] /\ \A p \in Page : file'[p] \in platter'[p]
    BY <2>2, <2>3 DEF StorageInv, PagesOK
  <2> QED BY <1>1, <2>2, <2>4 DEF StorageInv, PagesOK, CleanFramesMatch
<1> QED BY <1>1, <1>2, <1>3 DEF StorageInv

LEMMA WroteLemma ==
    ASSUME StorageInv, NEW x \in Xid, MayWrite(x), NEW old \in SUBSET Value, Wrote(x, old)
    PROVE  GhostsOK'
<1>1. writes + 1 \in Value /\ writes + 1 \in 0..MaxWrites
  BY Constants DEF StorageInv, GhostsOK, MayWrite
<1>2. work[x].add \in SUBSET Value /\ work[x].del \in SUBSET Value
  BY DEF StorageInv, GhostsOK, Work
<1>3. [add |-> work[x].add \cup {writes + 1}, del |-> work[x].del \cup old] \in Work
  BY <1>1, <1>2 DEF Work
<1>4. work' \in [Xid -> Work]
  BY <1>3 DEF Wrote, StorageInv, GhostsOK
<1> QED BY <1>1, <1>4 DEF Wrote, StorageInv, GhostsOK

\* The log after a statement: longer, and with nothing more of it flushed.
LEMMA LongerLog ==
    ASSUME StorageInv, Prefix(log, log'), imaged' \subseteq Page, UNCHANGED <<synced, flushed>>
    PROVE  WalOK'
<1>1. Len(log) \in Nat /\ Len(log') \in Nat /\ Len(log) <= Len(log')
  BY LenProperties DEF StorageInv, WalOK, Prefix
<1> QED BY <1>1 DEF StorageInv, WalOK, Prefix, FlushedIsSynced, End

\* What is left of the invariant when a step appends to the log and keeps the rest.
LEMMA PassesStay ==
    ASSUME StorageInv, Prefix(log, log'), UNCHANGED recVars
    PROVE  Passes'
<1>1. Len(log) \in Nat /\ Len(log') \in Nat /\ Len(log) <= Len(log')
  BY LenProperties DEF StorageInv, WalOK, Prefix
<1> QED BY <1>1 DEF StorageInv, Passes, recVars

\* The version that an update starts from.
LEMMA OldVersionLemma ==
    ASSUME StorageInv, NEW x \in Xid, NEW p \in Page, NEW s \in Slot,
           Present(mem[p]), MayUpdate(x, mem[p].tup[s])
    PROVE  /\ mem[p] \in Image /\ mem[p].tup[s] \in Tuple
           /\ {mem[p].tup[s].data} \in SUBSET Value
           /\ [page |-> p, slot |-> s] \in Ctid
<1>1. mem[p] \in Image
  BY DEF StorageInv, PagesOK, Images, Present
<1>2. mem[p].tup[s] \in Tuple
  BY <1>1 DEF Image, MayUpdate
<1>3. mem[p].tup[s].data \in Value
  BY <1>2 DEF Tuple
<1> QED BY <1>1, <1>2, <1>3 DEF Ctid

\* A change of page p, logged: the page's image if it is due, then the record.
LEMMA ChangeLogged ==
    ASSUME StorageInv, NEW lg \in Seq(Record), NEW p \in Page, NEW r \in Record
    PROVE  LET new == Append(WithImage(lg, p), r)
               n   == Len(new)
           IN  /\ Prefix(lg, new) /\ Len(lg) \in Nat /\ n \in Nat /\ n > Len(lg)
               /\ new[n] = r
               /\ \A i \in Len(lg)+1..n-1 :
                     Present(mem[p]) /\ mem[p] \in Image /\ new[i] = ImageRecord(p, mem[p])
               /\ Inside(n) \in Nat
<1>1. PICK l1, new : l1 = WithImage(lg, p) /\ new = Append(l1, r)
  OBVIOUS
<1>2. /\ Prefix(lg, l1) /\ l1 \in Seq(Record) /\ Len(lg) \in Nat /\ Len(l1) \in Nat
      /\ \A i \in Len(lg)+1..Len(l1) :
            Present(mem[p]) /\ mem[p] \in Image /\ l1[i] = ImageRecord(p, mem[p])
  BY <1>1, WithImageLemma DEF Prefix
<1>3. Prefix(l1, new) /\ Len(new) = Len(l1) + 1 /\ new[Len(l1) + 1] = r
  BY <1>1, <1>2, AppendRecord
<1>4. Prefix(lg, new)
  BY <1>2, <1>3, PrefixTransitive
<1>5. \A i \in Len(lg)+1..Len(new)-1 :
         Present(mem[p]) /\ mem[p] \in Image /\ new[i] = ImageRecord(p, mem[p])
  <2> TAKE i \in Len(lg)+1..Len(new)-1
  <2>1. i \in Len(lg)+1..Len(l1) /\ i \in 1..Len(l1)
    BY <1>2, <1>3
  <2> QED BY <1>2, <1>3, <2>1 DEF Prefix
<1>6. Len(new) \in Nat /\ Len(new) > Len(lg) /\ Inside(Len(new)) \in Nat
  BY <1>2, <1>3 DEF Prefix, Inside
<1> QED BY <1>1, <1>2, <1>3, <1>4, <1>5, <1>6

\* Insert, with what the log and the page become.
LEMMA InsertEffect ==
    ASSUME StorageInv, NEW x \in Xid, NEW q \in Page, Insert(x, q)
    PROVE  LET c   == NewCtid(q)
               t   == NewTuple(x)
               n   == Len(log')
               img == InsertTupleAt(Target(q), c.slot, t)
           IN  /\ Prefix(log, log') /\ n \in Nat /\ n > Len(log)
               /\ log'[n] = InsertRecord(x, c, t)
               /\ \A i \in Len(log)+1..n-1 : Present(mem[q]) /\ log'[i] = ImageRecord(q, mem[q])
               /\ img \in Image
               /\ mem' \in [Page -> Images]
               /\ mem'[q] = SetLsn(img, Inside(n)) /\ Inside(n) \in Nat
               /\ \A p \in Page \ {q} : mem'[p] = mem[p]
<1>1. MayWrite(x) /\ Takes(q)
  BY DEF Insert
<1>2. PICK c \in Ctid, t \in Tuple : c = NewCtid(q) /\ t = NewTuple(x) /\ c.slot \in Slot
  BY <1>1, TargetLemma, NewTupleLemma
<1>3. PICK r \in Record : r = InsertRecord(x, c, t)
  BY InsertRecordLemma
<1>4. log' = Append(WithImage(log, q), r)
  BY <1>2, <1>3 DEF Insert
<1>5. /\ Prefix(log, log') /\ Len(log') \in Nat /\ Len(log') > Len(log)
      /\ log'[Len(log')] = r /\ Inside(Len(log')) \in Nat
      /\ \A i \in Len(log)+1..Len(log')-1 : Present(mem[q]) /\ log'[i] = ImageRecord(q, mem[q])
  BY <1>4, ChangeLogged DEF StorageInv, WalOK
<1>6. PICK img \in Image : img = InsertTupleAt(Target(q), c.slot, t)
  BY <1>1, <1>2, TargetLemma, InsertLemma
<1>7. SetLsn(img, Inside(Len(log'))) \in Image
  BY <1>5, SetLsnLemma
<1>8. mem' = [mem EXCEPT ![q] = SetLsn(img, Inside(Len(log')))]
  BY <1>2, <1>6 DEF Insert
<1>9. mem' \in [Page -> Images] /\ mem'[q] = SetLsn(img, Inside(Len(log')))
      /\ \A p \in Page \ {q} : mem'[p] = mem[p]
  BY <1>7, <1>8 DEF Images, StorageInv, PagesOK
<1> QED BY <1>2, <1>3, <1>5, <1>6, <1>9

LEMMA InsertStorage ==
    ASSUME StorageInv, NEW x \in Xid, NEW q \in Page, Insert(x, q)
    PROVE  StorageInv'
<1>1. /\ Prefix(log, log') /\ mem' \in [Page -> Images] /\ mem'[q] \in Image
      /\ \A p \in Page \ {q} : mem'[p] = mem[p]
  BY InsertEffect, SetLsnLemma
<1>2. PagesOK' /\ \A p \in Page : Present(mem[p]) => Present(mem'[p])
  <2>1. {q} \in SUBSET Page /\ dirty' = dirty \cup {q} /\ Allocate({q}) /\ {q} \in SUBSET {q}
    BY DEF Insert
  <2> QED BY <1>1, <2>1, ChangeKeepsPages
<1>3. WalOK'
  BY <1>1, LongerLog DEF Insert, Imaged, StorageInv, WalOK
<1>4. TxOK'
  BY DEF Insert, StorageInv, TxOK, txVars
<1>5. Passes' /\ Reached'
  BY <1>1, <1>2, PassesStay, ReachedStays DEF Insert, recVars
<1>6. GhostsOK'
  BY WroteLemma DEF Insert
<1> QED BY <1>2, <1>3, <1>4, <1>5, <1>6 DEF StorageInv

\* An update in the page of the old version, with what the log and the page become.
LEMMA HotUpdateEffect ==
    ASSUME StorageInv, NEW x \in Xid, NEW p \in Page, NEW s \in Slot, HotUpdate(x, p, s)
    PROVE  LET o   == [page |-> p, slot |-> s]
               c   == NewCtid(p)
               t   == NewTuple(x)
               n   == Len(log')
               img == InsertTupleAt(StampXmax(mem[p], s, x), c.slot, t)
           IN  /\ Prefix(log, log') /\ n \in Nat /\ n > Len(log)
               /\ log'[n] = UpdateRecord(x, o, c, t)
               /\ \A i \in Len(log)+1..n-1 : Present(mem[p]) /\ log'[i] = ImageRecord(p, mem[p])
               /\ img \in Image
               /\ mem' \in [Page -> Images]
               /\ mem'[p] = SetLsn(img, Inside(n)) /\ Inside(n) \in Nat
               /\ \A q \in Page \ {p} : mem'[q] = mem[q]
<1>1. MayWrite(x) /\ Takes(p) /\ Present(mem[p]) /\ MayUpdate(x, mem[p].tup[s])
  BY DEF HotUpdate, HasRoom, Takes
<1>2. PICK c \in Ctid, t \in Tuple : c = NewCtid(p) /\ t = NewTuple(x) /\ c.slot \in Slot
  BY <1>1, TargetLemma, NewTupleLemma
<1>3. PICK r \in Record : r = UpdateRecord(x, [page |-> p, slot |-> s], c, t)
  BY <1>1, OldVersionLemma, UpdateRecordLemma
<1>4. log' = Append(WithImage(log, p), r)
  BY <1>2, <1>3 DEF HotUpdate
<1>5. /\ Prefix(log, log') /\ Len(log') \in Nat /\ Len(log') > Len(log)
      /\ log'[Len(log')] = r /\ Inside(Len(log')) \in Nat
      /\ \A i \in Len(log)+1..Len(log')-1 : Present(mem[p]) /\ log'[i] = ImageRecord(p, mem[p])
  BY <1>4, ChangeLogged DEF StorageInv, WalOK
<1>6. PICK img \in Image : img = InsertTupleAt(StampXmax(mem[p], s, x), c.slot, t)
  BY <1>1, <1>2, OldVersionLemma, StampLemma, InsertLemma
<1>7. SetLsn(img, Inside(Len(log'))) \in Image
  BY <1>5, SetLsnLemma
<1>8. mem \in [Page -> Images]
  BY DEF StorageInv, PagesOK
<1>9. mem' = [mem EXCEPT ![p] = SetLsn(img, Inside(Len(log')))]
  BY <1>2, <1>6, <1>8 DEF HotUpdate
<1>10. mem' \in [Page -> Images] /\ mem'[p] = SetLsn(img, Inside(Len(log')))
       /\ \A q \in Page \ {p} : mem'[q] = mem[q]
  BY <1>7, <1>8, <1>9 DEF Images
<1> QED BY <1>2, <1>3, <1>5, <1>6, <1>10

LEMMA HotUpdateStorage ==
    ASSUME StorageInv, NEW x \in Xid, NEW p \in Page, NEW s \in Slot, HotUpdate(x, p, s)
    PROVE  StorageInv'
<1>1. /\ Prefix(log, log') /\ mem' \in [Page -> Images] /\ mem'[p] \in Image
      /\ \A q \in Page \ {p} : mem'[q] = mem[q]
  BY HotUpdateEffect, SetLsnLemma
<1>2. PagesOK' /\ \A q \in Page : Present(mem[q]) => Present(mem'[q])
  <2>1. {p} \in SUBSET Page /\ dirty' = dirty \cup {p} /\ UNCHANGED <<file, platter>>
    BY DEF HotUpdate
  <2> QED BY <1>1, <2>1, ChangeKeepsPages
<1>3. WalOK'
  BY <1>1, LongerLog DEF HotUpdate, Imaged, StorageInv, WalOK
<1>4. TxOK'
  BY DEF HotUpdate, StorageInv, TxOK, txVars
<1>5. Passes' /\ Reached'
  BY <1>1, <1>2, PassesStay, ReachedStays DEF HotUpdate, recVars
<1>6. GhostsOK'
  BY WroteLemma, OldVersionLemma DEF HotUpdate, HasRoom
<1> QED BY <1>2, <1>3, <1>4, <1>5, <1>6 DEF StorageInv

\* An update that takes its new version to another page: its two records are the
\* m-th and the n-th of the log, and the pages become newq and newp.
Moved(x, p, s, q, m, n, newq, newp) ==
    /\ p # q
    /\ Prefix(log, log') /\ n = Len(log') /\ m > Len(log) /\ n > m
    /\ log'[m] = InsertRecord(x, NewCtid(q), NewTuple(x))
    /\ log'[n] = UpdateRecord(x, [page |-> p, slot |-> s], NewCtid(q), NewTuple(x))
    /\ \A i \in Len(log)+1..m-1 : Present(mem[q]) /\ log'[i] = ImageRecord(q, mem[q])
    /\ \A i \in m+1..n-1 : log'[i] = ImageRecord(p, mem[p])
    /\ newq = SetLsn(InsertTupleAt(Target(q), NewCtid(q).slot, NewTuple(x)), Inside(m))
    /\ newp = SetLsn(StampXmax(mem[p], s, x), Inside(n))
    /\ Inside(m) \in Nat /\ Inside(n) \in Nat
    /\ mem' \in [Page -> Images] /\ mem'[q] = newq /\ mem'[p] = newp
    /\ \A r \in Page \ {p, q} : mem'[r] = mem[r]

LEMMA UpdateEffect ==
    ASSUME StorageInv, NEW x \in Xid, NEW p \in Page, NEW s \in Slot, NEW q \in Page,
           Update(x, p, s, q)
    PROVE  \E m \in Nat, n \in Nat, newq \in Image, newp \in Image :
              Moved(x, p, s, q, m, n, newq, newp)
<1>1. MayWrite(x) /\ Takes(q) /\ Present(mem[p]) /\ MayUpdate(x, mem[p].tup[s])
  BY DEF Update
<1>2. p # q
  BY <1>1 DEF Update, Takes, Extends
<1>3. PICK c \in Ctid, t \in Tuple : c = NewCtid(q) /\ t = NewTuple(x) /\ c.slot \in Slot
  BY <1>1, TargetLemma, NewTupleLemma
<1>4. PICK r1 \in Record, r2 \in Record :
         r1 = InsertRecord(x, c, t) /\ r2 = UpdateRecord(x, [page |-> p, slot |-> s], c, t)
  BY <1>1, OldVersionLemma, InsertRecordLemma, UpdateRecordLemma
<1>5. PICK l1 : l1 = Append(WithImage(log, q), r1)
  OBVIOUS
<1>6. log' = Append(WithImage(l1, p), r2)
  BY <1>3, <1>4, <1>5 DEF Update
<1>7. /\ Prefix(log, l1) /\ l1 \in Seq(Record)
      /\ Len(log) \in Nat /\ Len(l1) \in Nat /\ Len(l1) > Len(log)
      /\ l1[Len(l1)] = r1 /\ Inside(Len(l1)) \in Nat
      /\ \A i \in Len(log)+1..Len(l1)-1 : Present(mem[q]) /\ l1[i] = ImageRecord(q, mem[q])
  <2>1. log \in Seq(Record)
    BY DEF StorageInv, WalOK
  <2>2. /\ Prefix(log, l1)
        /\ Len(log) \in Nat /\ Len(l1) \in Nat /\ Len(l1) > Len(log)
        /\ l1[Len(l1)] = r1 /\ Inside(Len(l1)) \in Nat
        /\ \A i \in Len(log)+1..Len(l1)-1 : Present(mem[q]) /\ l1[i] = ImageRecord(q, mem[q])
    BY <1>5, <2>1, ChangeLogged
  <2> QED BY <2>2 DEF Prefix
<1>8. /\ Prefix(l1, log') /\ Len(log') \in Nat /\ Len(log') > Len(l1)
      /\ log'[Len(log')] = r2 /\ Inside(Len(log')) \in Nat
      /\ \A i \in Len(l1)+1..Len(log')-1 : log'[i] = ImageRecord(p, mem[p])
  <2>1. l1 \in Seq(Record)
    BY <1>7
  <2> QED BY <1>6, <2>1, ChangeLogged
<1>9. Prefix(log, log')
  BY <1>7, <1>8, PrefixTransitive DEF StorageInv, WalOK
<1>10. /\ log'[Len(l1)] = r1
       /\ \A i \in Len(log)+1..Len(l1)-1 : Present(mem[q]) /\ log'[i] = ImageRecord(q, mem[q])
  <2>1. PICK lg, m, n : lg = log' /\ m = Len(log) /\ n = Len(l1)
    OBVIOUS
  <2>2. \A i \in 1..n : lg[i] = l1[i]
    BY <1>8, <2>1 DEF Prefix
  <2>3. m \in Nat /\ n \in Nat /\ n > m
    BY <1>7, <2>1
  <2>4. n \in 1..n /\ m+1..n-1 \subseteq 1..n
    BY <2>3
  <2>5. l1[n] = r1 /\ \A i \in m+1..n-1 : Present(mem[q]) /\ l1[i] = ImageRecord(q, mem[q])
    BY <1>7, <2>1
  <2>6. lg[n] = r1 /\ \A i \in m+1..n-1 : Present(mem[q]) /\ lg[i] = ImageRecord(q, mem[q])
    BY <2>2, <2>4, <2>5
  <2> QED BY <2>1, <2>6
<1>11. PICK imgq \in Image, imgp \in Image :
          imgq = InsertTupleAt(Target(q), c.slot, t) /\ imgp = StampXmax(mem[p], s, x)
  BY <1>1, <1>3, TargetLemma, OldVersionLemma, InsertLemma, StampLemma
<1>12. PICK newq \in Image, newp \in Image :
          newq = SetLsn(imgq, Inside(Len(l1))) /\ newp = SetLsn(imgp, Inside(Len(log')))
  BY <1>7, <1>8, SetLsnLemma
<1>13. mem \in [Page -> Images]
  BY DEF StorageInv, PagesOK
<1>14. mem' = [mem EXCEPT ![q] = newq, ![p] = newp]
  BY <1>2, <1>3, <1>4, <1>5, <1>11, <1>12, <1>13 DEF Update
<1>15. mem' \in [Page -> Images] /\ mem'[q] = newq /\ mem'[p] = newp
       /\ \A r \in Page \ {p, q} : mem'[r] = mem[r]
  BY <1>2, <1>12, <1>13, <1>14 DEF Images
<1>16. PICK m \in Nat, n \in Nat : m = Len(l1) /\ n = Len(log')
  BY <1>7, <1>8
<1>17. Moved(x, p, s, q, m, n, newq, newp)
  BY <1>2, <1>3, <1>4, <1>7, <1>8, <1>9, <1>10, <1>11, <1>12, <1>15, <1>16 DEF Moved
<1> QED BY <1>17

LEMMA UpdateStorage ==
    ASSUME StorageInv, NEW x \in Xid, NEW p \in Page, NEW s \in Slot, NEW q \in Page,
           Update(x, p, s, q)
    PROVE  StorageInv'
<1>1. /\ Prefix(log, log') /\ mem' \in [Page -> Images]
      /\ mem'[p] \in Image /\ mem'[q] \in Image
      /\ \A r \in Page \ {p, q} : mem'[r] = mem[r]
  <2>1. PICK m \in Nat, n \in Nat, newq \in Image, newp \in Image :
           Moved(x, p, s, q, m, n, newq, newp)
    BY UpdateEffect
  <2> QED BY <2>1 DEF Moved
<1>2. PagesOK' /\ \A r \in Page : Present(mem[r]) => Present(mem'[r])
  <2>1. {p, q} \in SUBSET Page /\ dirty' = dirty \cup {p, q} /\ Allocate({q})
        /\ {q} \in SUBSET {p, q}
    BY DEF Update
  <2> QED BY <1>1, <2>1, ChangeKeepsPages
<1>3. WalOK'
  BY <1>1, LongerLog DEF Update, Imaged, StorageInv, WalOK
<1>4. TxOK'
  BY DEF Update, StorageInv, TxOK, txVars
<1>5. Passes' /\ Reached'
  BY <1>1, <1>2, PassesStay, ReachedStays DEF Update, recVars
<1>6. GhostsOK'
  BY WroteLemma, OldVersionLemma DEF Update
<1> QED BY <1>2, <1>3, <1>4, <1>5, <1>6 DEF StorageInv

----------------------------------------------------------------------------
(* Transactions, page writes and checkpoints keep the invariant. *)

\* The counter moves beyond the ids of X, and never back.
LEMMA BeyondLemma ==
    ASSUME StorageInv, NEW X \in SUBSET Xid
    PROVE  Beyond(X) \in Nat /\ Beyond(X) >= nextXid /\ \A x \in X : x < Beyond(X)
<1>1. PICK S : S = {nextXid} \cup {x + 1 : x \in X}
  OBVIOUS
<1>2. PICK b \in Nat : b = nextXid + Cardinality(Xid) + 1
  BY Constants DEF StorageInv, TxOK
<1>3. nextXid \in Nat /\ nextXid <= b /\ \A x \in X : x + 1 \in Nat /\ x + 1 <= b
  BY <1>2, Constants DEF StorageInv, TxOK
<1>4. S \in SUBSET Nat /\ S # {} /\ \A n \in S : n <= b
  BY <1>1, <1>3
<1>5. Max(S) \in S /\ \A n \in S : n <= Max(S)
  BY <1>4, MaxIsGreatest
<1>6. nextXid \in S /\ \A x \in X : x + 1 \in S
  BY <1>1
<1>7. Beyond(X) = Max(S)
  BY <1>1 DEF Beyond
<1>8. \A x \in X : x < Max(S)
  <2> TAKE x \in X
  <2>1. x + 1 <= Max(S) /\ x \in Nat /\ Max(S) \in Nat
    BY <1>4, <1>5, <1>6, Constants
  <2> QED BY <2>1
<1> QED BY <1>4, <1>5, <1>6, <1>7, <1>8

\* A transaction that ends: its record is the last of the log.
LEMMA EndsLemma ==
    ASSUME StorageInv, NEW x \in Xid, NEW type \in {"COMMIT", "ABORT"}, Ends(x, type),
           imaged' \subseteq Page
    PROVE  /\ Prefix(log, log') /\ Len(log') = Len(log) + 1 /\ Len(log) \in Nat
           /\ log'[Len(log')] = TxRecord(type, x)
           /\ synced <= synced'
           /\ WalOK'
<1>1. PICK lg : lg = log'
  OBVIOUS
<1>2. TxRecord(type, x) \in Record
  BY TxRecordLemma
<1>3. /\ Prefix(log, lg) /\ lg \in Seq(Record)
      /\ Len(lg) = Len(log) + 1 /\ Len(log) \in Nat /\ lg[Len(lg)] = TxRecord(type, x)
  BY <1>1, <1>2, AppendRecord DEF Ends, StorageInv, WalOK, Prefix
<1>4. /\ synced \in 0..Len(lg) /\ flushed \in 0..2 * Len(lg) /\ flushed <= End(synced)
      /\ Start(Len(lg)) \in Nat
  BY <1>3 DEF StorageInv, WalOK, FlushedIsSynced, Start
<1>5. Flush(lg, Start(Len(lg)))
  BY <1>1 DEF Ends
<1>6. /\ synced' \in synced..Len(lg) /\ flushed' \in flushed..2 * Len(lg)
      /\ flushed' <= End(synced')
  BY <1>3, <1>4, <1>5, FlushLemma
<1>7. synced' \in 0..Len(log') /\ flushed' \in 0..2 * Len(log') /\ synced <= synced'
  BY <1>1, <1>3, <1>4, <1>6
<1>8. WalOK'
  BY <1>1, <1>3, <1>6, <1>7 DEF WalOK, FlushedIsSynced, End
<1> QED BY <1>1, <1>3, <1>7, <1>8

LEMMA SetStatusLemma ==
    ASSUME StorageInv, NEW x \in Xid, NEW st \in Status, SetStatus(x, st)
    PROVE  /\ statusMap' \in [Xid -> Status \cup {Unset}] /\ clog' \in [Xid -> Status]
           /\ nextXid' \in Nat /\ nextXid' >= nextXid /\ x < nextXid'
<1>1. nextXid' \in Nat /\ nextXid' >= nextXid /\ x < nextXid'
  BY BeyondLemma DEF SetStatus
<1> QED BY <1>1 DEF SetStatus, StorageInv, TxOK

LEMMA BeginStorage == StorageInv /\ Begin => StorageInv'
<1> SUFFICES ASSUME StorageInv, Begin PROVE StorageInv'
  OBVIOUS
<1>1. TxOK'
  BY DEF Begin, StorageInv, TxOK, Status
<1>2. /\ UNCHANGED <<log, synced, flushed, imaged, mem, dirty, file, platter>>
      /\ UNCHANGED <<phase, at, upto, losers, work, expected, writes, evictions, crashes>>
  BY DEF Begin, walVars, pageVars, recVars, ghosts
<1> QED BY <1>1, <1>2
        DEF StorageInv, WalOK, FlushedIsSynced, PagesOK, CleanFramesMatch, Passes, Reached,
            StartRecord, GhostsOK

LEMMA CommitStorage ==
    ASSUME StorageInv, NEW x \in Xid, Commit(x)
    PROVE  StorageInv'
<1>1. WalOK' /\ Prefix(log, log')
  BY EndsLemma DEF Commit, StorageInv, WalOK
<1>2. TxOK'
  BY SetStatusLemma DEF Commit, Status, StorageInv, TxOK
<1>3. UNCHANGED pageVars /\ UNCHANGED recVars
  BY DEF Commit
<1>4. PagesOK'
  BY <1>3 DEF pageVars, StorageInv, PagesOK, CleanFramesMatch
<1>5. Passes' /\ Reached'
  BY <1>1, <1>3, PassesStay, ReachedStays DEF pageVars, recVars
<1>6. GhostsOK'
  <2>1. work[x] \in Work /\ Idle \in Work
    BY DEF StorageInv, GhostsOK, Work, Idle
  <2>2. expected' \subseteq Value /\ work' \in [Xid -> Work]
    BY <2>1 DEF Commit, StorageInv, GhostsOK, Work
  <2> QED BY <2>2 DEF Commit, StorageInv, GhostsOK
<1> QED BY <1>1, <1>2, <1>4, <1>5, <1>6 DEF StorageInv

LEMMA RollbackStorage ==
    ASSUME StorageInv, NEW x \in Xid, Rollback(x)
    PROVE  StorageInv'
<1>1. WalOK' /\ Prefix(log, log')
  BY EndsLemma DEF Rollback, StorageInv, WalOK
<1>2. TxOK'
  BY SetStatusLemma DEF Rollback, Status, StorageInv, TxOK
<1>3. UNCHANGED pageVars /\ UNCHANGED recVars
  BY DEF Rollback
<1>4. PagesOK'
  BY <1>3 DEF pageVars, StorageInv, PagesOK, CleanFramesMatch
<1>5. Passes' /\ Reached'
  BY <1>1, <1>3, PassesStay, ReachedStays DEF pageVars, recVars
<1>6. GhostsOK'
  BY DEF Rollback, StorageInv, GhostsOK, Work, Idle
<1> QED BY <1>1, <1>2, <1>4, <1>5, <1>6 DEF StorageInv

LEMMA AbortLoserStorage ==
    ASSUME StorageInv, NEW x \in Xid, AbortLoser(x)
    PROVE  StorageInv'
<1>1. WalOK' /\ Prefix(log, log')
  BY EndsLemma DEF AbortLoser, StorageInv, WalOK
<1>2. TxOK'
  BY SetStatusLemma DEF AbortLoser, Status, StorageInv, TxOK
<1>3. UNCHANGED pageVars /\ UNCHANGED <<phase, at, upto>> /\ UNCHANGED ghosts
  BY DEF AbortLoser
<1>4. PagesOK'
  BY <1>3 DEF pageVars, StorageInv, PagesOK, CleanFramesMatch
<1>5. Reached'
  BY <1>1, <1>3, ReachedStays DEF pageVars
<1>6. Passes'
  <2>1. Len(log) \in Nat /\ Len(log') \in Nat /\ Len(log) <= Len(log')
    BY <1>1, LenProperties DEF StorageInv, WalOK, Prefix
  <2> QED BY <1>3, <2>1 DEF AbortLoser, StorageInv, Passes
<1>7. GhostsOK'
  BY <1>3 DEF ghosts, StorageInv, GhostsOK
<1> QED BY <1>1, <1>2, <1>4, <1>5, <1>6, <1>7 DEF StorageInv

\* flush(target) on the log as it is, and on the log with a checkpoint.
LEMMA FlushKeepsWal ==
    ASSUME StorageInv, NEW target \in Nat, Flush(log, target), UNCHANGED log,
           imaged' \subseteq Page
    PROVE  /\ WalOK' /\ synced <= synced'
           /\ \A i \in 1..Len(log) : Inside(i) <= target => i <= synced'
<1>1. /\ synced' \in synced..Len(log) /\ flushed' \in flushed..2 * Len(log)
      /\ flushed' <= End(synced')
      /\ \A i \in 1..Len(log) : Inside(i) <= target => i <= synced'
  BY FlushLemma DEF StorageInv, WalOK, FlushedIsSynced
<1>2. synced' \in 0..Len(log) /\ flushed' \in 0..2 * Len(log) /\ synced <= synced'
  BY <1>1, LenProperties DEF StorageInv, WalOK
<1> QED BY <1>1, <1>2 DEF StorageInv, WalOK, FlushedIsSynced, End

\* A flush up to the end of the log syncs all of it.
LEMMA AllSynced ==
    ASSUME WalOK, NEW n \in Nat, \A i \in 1..Len(log) : Inside(i) <= End(Len(log)) => i <= n,
           n <= Len(log)
    PROVE  n = Len(log)
<1>1. Len(log) \in Nat
  BY LenProperties DEF WalOK
<1>2. CASE Len(log) = 0
  BY <1>1, <1>2
<1>3. CASE Len(log) # 0
  <2>1. Len(log) \in 1..Len(log) /\ Inside(Len(log)) <= End(Len(log))
    BY <1>1, <1>3 DEF Inside, End
  <2> QED BY <1>1, <2>1
<1> QED BY <1>2, <1>3

\* Dirty pages written out.
LEMMA WriteFramesLemma ==
    ASSUME StorageInv, NEW P \in SUBSET dirty, WriteFrames(P), UNCHANGED mem,
           platter' \in [Page -> SUBSET Images],
           \A p \in Page : file'[p] \in platter'[p]
    PROVE  PagesOK'
<1>1. file' \in [Page -> Images]
  BY DEF WriteFrames, StorageInv, PagesOK
<1> QED BY <1>1 DEF WriteFrames, StorageInv, PagesOK, CleanFramesMatch

LEMMA FlushAndSyncLemma ==
    ASSUME StorageInv, FlushAndSync, UNCHANGED mem
    PROVE  /\ PagesOK' /\ dirty' = {}
           /\ \A p \in Page : file'[p] = mem[p] /\ platter'[p] = {mem[p]}
<1>1. file' \in [Page -> Images] /\ dirty' = {}
      /\ \A p \in Page : file'[p] = IF p \in dirty THEN mem[p] ELSE file[p]
  BY DEF FlushAndSync, WriteFrames, StorageInv, PagesOK
<1>2. \A p \in Page : file'[p] = mem[p]
  BY <1>1 DEF StorageInv, PagesOK, CleanFramesMatch
<1>3. /\ platter' \in [Page -> SUBSET Images]
      /\ \A p \in Page : platter'[p] = {file'[p]}
  BY <1>1 DEF FlushAndSync
<1>4. PagesOK'
  BY <1>3, WriteFramesLemma DEF FlushAndSync
<1> QED BY <1>1, <1>2, <1>3, <1>4

LEMMA EvictStorage ==
    ASSUME StorageInv, NEW p \in Page, Evict(p)
    PROVE  StorageInv'
<1>1. mem[p] \in Image /\ mem[p].lsn \in Nat
  BY DEF Evict, StorageInv, PagesOK, Images, Present, Image
<1>2. WalOK'
  BY <1>1, FlushKeepsWal DEF Evict, StorageInv, WalOK
<1>3. PagesOK'
  <2>1. platter' = [platter EXCEPT ![p] = @ \cup {mem[p]}] /\ UNCHANGED mem
        /\ p \in dirty /\ WriteFrames({p})
    BY DEF Evict
  <2>2. platter' \in [Page -> SUBSET Images]
        /\ \A q \in Page : platter'[q] = IF q = p THEN platter[q] \cup {mem[q]} ELSE platter[q]
    BY <1>1, <2>1 DEF StorageInv, PagesOK, Images
  <2>3. \A q \in Page : file'[q] \in platter'[q]
    BY <2>1, <2>2 DEF WriteFrames, StorageInv, PagesOK
  <2> QED BY <2>1, <2>2, <2>3, WriteFramesLemma
<1>4. TxOK' /\ Passes'
  BY DEF Evict, StorageInv, TxOK, Passes, txVars, recVars
<1>5. Reached'
  BY DEF Evict, StorageInv, Reached, StartRecord, recVars
<1>6. GhostsOK'
  BY RecoveryOK DEF Evict, StorageInv, GhostsOK
<1> QED BY <1>2, <1>3, <1>4, <1>5, <1>6 DEF StorageInv

LEMMA CheckpointEffect ==
    ASSUME StorageInv, Checkpoint
    PROVE  /\ WalOK' /\ Prefix(log, log') /\ Len(log') = Len(log) + 1 /\ Len(log) \in Nat
           /\ log'[Len(log')] = TxRecord("CHECKPOINT", 0)
           /\ synced' = Len(log')
<1>1. PICK lg, r : lg = log' /\ r = TxRecord("CHECKPOINT", 0)
  OBVIOUS
<1>2. r \in Record
  BY <1>1, TxRecordLemma
<1>3. /\ Prefix(log, lg) /\ lg \in Seq(Record)
      /\ Len(lg) = Len(log) + 1 /\ Len(log) \in Nat /\ Len(lg) \in Nat /\ lg[Len(lg)] = r
  BY <1>1, <1>2, AppendRecord DEF Checkpoint, StorageInv, WalOK, Prefix
<1>4. /\ synced \in 0..Len(lg) /\ flushed \in 0..2 * Len(lg) /\ flushed <= End(synced)
      /\ End(Len(lg)) \in Nat /\ Inside(Len(lg)) <= End(Len(lg)) /\ Len(lg) \in 1..Len(lg)
  BY <1>3 DEF StorageInv, WalOK, FlushedIsSynced, End, Inside
<1>5. Flush(lg, End(Len(lg)))
  BY <1>1 DEF Checkpoint
<1>6. /\ synced' \in synced..Len(lg) /\ flushed' \in flushed..2 * Len(lg)
      /\ flushed' <= End(synced')
      /\ \A i \in 1..Len(lg) : Inside(i) <= End(Len(lg)) => i <= synced'
  BY <1>3, <1>4, <1>5, FlushLemma
<1>7. synced' = Len(log') /\ flushed' \in 0..2 * Len(log')
  BY <1>1, <1>3, <1>4, <1>6
<1>8. WalOK'
  BY <1>1, <1>3, <1>6, <1>7 DEF WalOK, FlushedIsSynced, End, Checkpoint
<1> QED BY <1>1, <1>3, <1>7, <1>8

LEMMA CheckpointStorage == StorageInv /\ Checkpoint => StorageInv'
<1> SUFFICES ASSUME StorageInv, Checkpoint PROVE StorageInv'
  OBVIOUS
<1>1. WalOK' /\ Prefix(log, log')
  BY CheckpointEffect
<1>2. PagesOK'
  BY FlushAndSyncLemma DEF Checkpoint
<1>3. TxOK'
  BY DEF Checkpoint, StorageInv, TxOK
<1>4. Passes' /\ Reached'
  BY <1>1, PassesStay, ReachedStays DEF Checkpoint, recVars
<1>5. GhostsOK'
  BY DEF Checkpoint, StorageInv, GhostsOK, ghosts
<1> QED BY <1>1, <1>2, <1>3, <1>4, <1>5 DEF StorageInv

----------------------------------------------------------------------------
(* The end of the process, and the start of the next. *)

\* Recovery and a clean shutdown leave all of the log synced.
LEMMA AllFlushed ==
    ASSUME StorageInv, Flush(log, End(Len(log))), UNCHANGED log, imaged' \subseteq Page
    PROVE  WalOK' /\ synced' = Len(log)
<1>1. Len(log) \in Nat /\ End(Len(log)) \in Nat
  BY LenProperties DEF StorageInv, WalOK, End
<1>2. WalOK' /\ \A i \in 1..Len(log) : Inside(i) <= End(Len(log)) => i <= synced'
  BY <1>1, FlushKeepsWal
<1>3. synced' <= Len(log) /\ synced' \in Nat
  BY <1>1, <1>2 DEF WalOK
<1>4. PICK n : n = synced'
  OBVIOUS
<1>5. n = Len(log)
  BY <1>2, <1>3, <1>4, AllSynced DEF StorageInv
<1> QED BY <1>2, <1>4, <1>5

\* What a process takes along leaves nothing that the invariant could be about.
LEMMA MemoryLostLemma ==
    ASSUME StorageInv, MemoryLost, control' \in [nextXid : Nat, inProduction : BOOLEAN],
           clog' \in [Xid -> Status], clogFile' \in [Xid -> Status], log' \in Seq(Record)
    PROVE  /\ TxOK' /\ Passes' /\ Reached'
           /\ work' \in [Xid -> Work] /\ imaged' \subseteq Page
<1>1. Len(log') \in Nat
  BY LenProperties
<1>2. Passes' /\ Reached'
  BY <1>1 DEF MemoryLost, Passes, Reached
<1>3. work' \in [Xid -> Work]
  BY DEF MemoryLost, Work, Idle
<1> QED BY <1>2, <1>3 DEF MemoryLost, TxOK

LEMMA CloseStorage == StorageInv /\ Close => StorageInv'
<1> SUFFICES ASSUME StorageInv, Close PROVE StorageInv'
  OBVIOUS
<1>1. PagesOK'
  BY FlushAndSyncLemma DEF Close
<1>2. /\ TxOK' /\ Passes' /\ Reached'
      /\ work' \in [Xid -> Work] /\ imaged' \subseteq Page
  <2>1. control' \in [nextXid : Nat, inProduction : BOOLEAN]
    BY DEF Close, StorageInv, TxOK
  <2>2. clog' \in [Xid -> Status] /\ clogFile' \in [Xid -> Status] /\ log' \in Seq(Record)
    BY DEF Close, StorageInv, TxOK, WalOK
  <2> QED BY <2>1, <2>2, MemoryLostLemma DEF Close
<1>3. WalOK'
  BY <1>2, AllFlushed DEF Close
<1>4. GhostsOK'
  BY <1>2 DEF Close, StorageInv, GhostsOK
<1> QED BY <1>1, <1>2, <1>3, <1>4 DEF StorageInv

LEMMA RecoveryEndsStorage == StorageInv /\ RecoveryEnds => StorageInv'
<1> SUFFICES ASSUME StorageInv, RecoveryEnds PROVE StorageInv'
  OBVIOUS
<1>1. PagesOK'
  BY FlushAndSyncLemma DEF RecoveryEnds
<1>2. WalOK'
  BY AllFlushed DEF RecoveryEnds, StorageInv, WalOK
<1>3. TxOK'
  BY DEF RecoveryEnds, StorageInv, TxOK
<1>4. Passes' /\ Reached'
  BY LenProperties DEF RecoveryEnds, StorageInv, WalOK, Passes, Reached
<1>5. GhostsOK'
  BY DEF RecoveryEnds, StorageInv, GhostsOK, ghosts
<1> QED BY <1>1, <1>2, <1>3, <1>4, <1>5 DEF StorageInv

LEMMA StartCleanStorage == StorageInv /\ StartClean => StorageInv'
<1> SUFFICES ASSUME StorageInv, StartClean PROVE StorageInv'
  OBVIOUS
<1>1. UNCHANGED <<log, synced, flushed, imaged, mem, dirty, file, platter>>
  BY DEF StartClean, walVars, pageVars
<1>2. WalOK' /\ PagesOK'
  BY <1>1 DEF StorageInv, WalOK, FlushedIsSynced, PagesOK, CleanFramesMatch
<1>3. TxOK'
  BY DEF StartClean, StorageInv, TxOK
<1>4. Passes' /\ Reached'
  BY <1>1 DEF StartClean, StorageInv, Passes, Reached
<1>5. GhostsOK'
  BY DEF StartClean, StorageInv, GhostsOK, ghosts
<1> QED BY <1>2, <1>3, <1>4, <1>5 DEF StorageInv

\* What may follow the log in a crash is one record or none.
LEMMA EndingLemma ==
    ASSUME StorageInv, NEW n, NEW e \in Endings(n)
    PROVE  /\ e \in Seq(Record) /\ Len(e) \in 0..1
           /\ e = <<>> \/ Len(e) = 1
           /\ Len(e) = 1 =>
                \/ e[1] = TxRecord("TORN", 0) /\ "tornTail" \in Circumstances
                \/ \E x \in Active : e[1] = TxRecord("COMMIT", x) /\ n = Len(log)
<1>1. CASE e = <<>>
  BY <1>1, EmptySeq
<1>2. CASE "tornTail" \in Circumstances /\ e = <<TxRecord("TORN", 0)>>
  BY <1>2, TxRecordLemma
<1>3. ASSUME NEW x \in Active, n = Len(log), e = <<TxRecord("COMMIT", x)>>
      PROVE  e \in Seq(Record) /\ Len(e) = 1 /\ e[1] = TxRecord("COMMIT", x)
  BY <1>3, TxRecordLemma DEF Active
<1> QED BY <1>1, <1>2, <1>3 DEF Endings

\* A page torn between two of its images.
LEMMA MixtureLemma ==
    ASSUME StorageInv, NEW p \in Page, NEW img \in Mixtures(p)
    PROVE  /\ img \in Image /\ img.formatted
           /\ \E a \in platter[p], b \in platter[p] :
                 /\ Present(a) /\ Present(b) /\ a.formatted /\ b.formatted
                 /\ a \in Image /\ b \in Image
                 /\ img.lsn = a.lsn
                 /\ \A s \in Slot : img.tup[s] = a.tup[s] \/ img.tup[s] = b.tup[s]
<1>1. PICK a \in platter[p], b \in platter[p], S \in SUBSET Slot :
         /\ Present(a) /\ a.formatted /\ Present(b) /\ b.formatted
         /\ img = [a EXCEPT !.tup = [s \in Slot |-> IF s \in S THEN @[s] ELSE b.tup[s]]]
  BY DEF Mixtures
<1>2. a \in Image /\ b \in Image
  BY <1>1 DEF StorageInv, PagesOK, Images, Present
<1>3. img = [a EXCEPT !.tup = [s \in Slot |-> IF s \in S THEN a.tup[s] ELSE b.tup[s]]]
  BY <1>1, <1>2 DEF Image
<1>4. /\ [s \in Slot |-> IF s \in S THEN a.tup[s] ELSE b.tup[s]] \in [Slot -> Tuple \cup {Unused}]
  BY <1>2 DEF Image
<1>5. /\ img \in Image /\ img.formatted = a.formatted /\ img.lsn = a.lsn
      /\ img.tup = [s \in Slot |-> IF s \in S THEN a.tup[s] ELSE b.tup[s]]
  BY <1>2, <1>3, <1>4 DEF Image
<1> QED BY <1>1, <1>2, <1>5

\* What a power failure leaves: the first n records and perhaps one more, and of
\* each page one of the images that may be left, or a mixture of two.
Cut(n, e) ==
    /\ n \in synced..Len(log) /\ e \in Endings(n)
    /\ log' \in Seq(Record) /\ Len(log') = n + Len(e) /\ n \in Nat
    /\ \A i \in 1..n : log'[i] = log[i]
    /\ \A i \in 1..Len(e) : log'[n + i] = e[i]

LEMMA CrashEffect ==
    ASSUME StorageInv, Crash
    PROVE  /\ \E n, e : Cut(n, e)
           /\ mem' \in [Page -> Images] /\ file' = mem'
           /\ \A p \in Page : mem'[p] \in platter[p] \cup Mixtures(p)
           /\ platter' = [p \in Page |-> {mem'[p]}]
<1>1. PICK kept \in Survivors, n \in synced..Len(log) : \E e \in Endings(n) :
         log' = SubSeq(log, 1, n) \o e /\ mem' = kept /\ file' = kept
  BY DEF Crash
<1>2. PICK e \in Endings(n) : log' = SubSeq(log, 1, n) \o e
  BY <1>1
<1>3. e \in Seq(Record) /\ Len(e) \in 0..1
  BY <1>2, EndingLemma
<1>4. log \in Seq(Record) /\ n \in 0..Len(log) /\ n \in Nat
  BY LenProperties DEF StorageInv, WalOK
<1>5. Cut(n, e)
  BY <1>2, <1>3, <1>4, CutLemma DEF Cut
<1>6. \A p \in Page : kept[p] \in platter[p] \cup Mixtures(p)
  BY DEF Survivors
<1>7. \A p \in Page : kept[p] \in Images
  BY <1>6, MixtureLemma DEF StorageInv, PagesOK, Images
<1>8. kept \in [Page -> Images]
  <2>1. \E T : kept \in [Page -> T]
    BY DEF Survivors
  <2> QED BY <1>7, <2>1
<1> QED BY <1>1, <1>5, <1>6, <1>8 DEF Crash

LEMMA CrashStorage == StorageInv /\ Crash => StorageInv'
<1> SUFFICES ASSUME StorageInv, Crash PROVE StorageInv'
  OBVIOUS
<1>1. log' \in Seq(Record)
  BY CrashEffect DEF Cut
<1>2. PagesOK'
  <2>1. mem' \in [Page -> Images] /\ file' = mem' /\ platter' = [p \in Page |-> {mem'[p]}]
    BY CrashEffect
  <2>2. dirty' = {}
    BY DEF Crash, MemoryLost
  <2>3. \A p \in Page : mem'[p] \in Images /\ platter'[p] = {mem'[p]}
    BY <2>1
  <2>4. platter' \in [Page -> SUBSET Images]
    BY <2>1, <2>3
  <2> QED BY <2>1, <2>2, <2>3, <2>4 DEF PagesOK, CleanFramesMatch
<1>3. /\ TxOK' /\ Passes' /\ Reached'
      /\ work' \in [Xid -> Work] /\ imaged' \subseteq Page
  <2>1. control' \in [nextXid : Nat, inProduction : BOOLEAN]
    BY DEF Crash, StorageInv, TxOK
  <2>2. clog' \in [Xid -> Status] /\ clogFile' \in [Xid -> Status]
    BY DEF Crash, StorageInv, TxOK
  <2> QED BY <1>1, <2>1, <2>2, MemoryLostLemma DEF Crash
<1>4. WalOK'
  <2>1. Len(log') \in Nat
    BY <1>1, LenProperties
  <2> QED BY <1>1, <1>3, <2>1 DEF Crash, WalOK, FlushedIsSynced, End
<1>5. GhostsOK'
  <2>1. expected' \subseteq Value
    BY DEF Crash, Active, StorageInv, GhostsOK, Work
  <2>2. crashes' \in 0..MaxCrashes
    BY RecoveryOK DEF Crash, StorageInv, GhostsOK
  <2> QED BY <1>3, <2>1, <2>2 DEF Crash, StorageInv, GhostsOK
<1> QED BY <1>2, <1>3, <1>4, <1>5 DEF StorageInv

----------------------------------------------------------------------------
(* The three passes of recovery. *)

\* The first pass reads the records before the first torn one.
LEMMA ReadableLemma ==
    ASSUME log \in Seq(Record)
    PROVE  /\ Readable \in 0..Len(log)
           /\ (\A i \in 1..Len(log) : log[i].type # "TORN") => Readable = Len(log)
<1>1. PICK S : S = {n \in 0..Len(log) : \A i \in 1..n : log[i].type # "TORN"}
  OBVIOUS
<1>2. Len(log) \in Nat
  BY LenProperties
<1>3. 0 \in S /\ S \in SUBSET Nat /\ \A n \in S : n <= Len(log)
  BY <1>1, <1>2
<1>4. Max(S) \in S /\ \A n \in S : n <= Max(S)
  BY <1>2, <1>3, MaxIsGreatest
<1>5. Readable = Max(S)
  BY <1>1 DEF Readable
<1>6. (\A i \in 1..Len(log) : log[i].type # "TORN") => Len(log) \in S
  BY <1>1, <1>2
<1> QED BY <1>1, <1>2, <1>3, <1>4, <1>5, <1>6

LEMMA AnalyseStorage == StorageInv /\ Analyse => StorageInv'
<1> SUFFICES ASSUME StorageInv, Analyse PROVE StorageInv'
  OBVIOUS
<1>1. UNCHANGED <<log, synced, flushed, imaged, mem, dirty, file, platter>>
  BY DEF Analyse, walVars, pageVars
<1>2. WalOK' /\ PagesOK'
  BY <1>1 DEF StorageInv, WalOK, FlushedIsSynced, PagesOK, CleanFramesMatch
<1>3. TxOK'
  <2>1. nextXid' \in Nat
    BY BeyondLemma DEF Analyse, Ended
  <2>2. \A x \in Xid : Recorded(x) \in Status
    BY DEF Recorded, Status
  <2> QED BY <2>1, <2>2 DEF Analyse, StorageInv, TxOK
<1>4. Passes'
  <2>1. Readable \in 0..Len(log) /\ Readable \in Nat /\ Len(log) \in Nat
    BY ReadableLemma, LenProperties DEF StorageInv, WalOK
  <2>2. StartRecord(Readable) \in 1..(Readable + 1)
    BY <2>1, StartLemma DEF StorageInv, WalOK
  <2> QED BY <1>1, <2>1, <2>2 DEF Analyse, Passes
<1>5. Reached'
  <2>1. StartRecord(upto)' = at' /\ phase' = "redo"
    BY <1>1 DEF Analyse, StartRecord
  <2>2. at' \in Nat
    BY <1>4, LenProperties DEF Passes
  <2> QED BY <2>1, <2>2 DEF Reached
<1>6. GhostsOK'
  BY DEF Analyse, StorageInv, GhostsOK, ghosts
<1> QED BY <1>2, <1>3, <1>4, <1>5, <1>6 DEF StorageInv

\* A record replayed on a page that is there.
LEMMA ChangeLemma ==
    ASSUME NEW r \in Record, r.type \in {"INSERT", "UPDATE"}, NEW p \in Page, NEW img \in Image
    PROVE  /\ Change(r, p, img) \in Image
           /\ Change(r, p, img).lsn = img.lsn
<1>1. r.new.slot \in Slot /\ r.tuple \in Tuple /\ r.xid \in Xid
      /\ (r.type = "UPDATE" => r.old.slot \in Slot)
  BY RecordFields DEF Ctid
<1>2. PICK stamped : stamped = IF r.type = "UPDATE" /\ p = r.old.page
                               THEN StampXmax(img, r.old.slot, r.xid) ELSE img
  OBVIOUS
<1>3. stamped \in Image /\ stamped.lsn = img.lsn
  BY <1>1, <1>2, StampLemma
<1>4. Change(r, p, img) = IF p = r.new.page THEN InsertTupleAt(stamped, r.new.slot, r.tuple)
                          ELSE stamped
  BY <1>2 DEF Change
<1>5. CASE p = r.new.page
  BY <1>1, <1>3, <1>4, <1>5, InsertLemma
<1>6. CASE p # r.new.page
  BY <1>3, <1>4, <1>6
<1> QED BY <1>5, <1>6

LEMMA ReplayedLemma ==
    ASSUME log \in Seq(Record), NEW i \in 1..Len(log), NEW p \in Targets(log[i]),
           NEW img \in Image
    PROVE  /\ Replayed(i, p, img) \in Image
           /\ \/ /\ log[i].type = "FPI" /\ log[i].image \in Image
                 /\ Replayed(i, p, img) = SetLsn(log[i].image, End(i))
              \/ log[i].type # "FPI" /\ img.lsn > Start(i) /\ Replayed(i, p, img) = img
              \/ /\ log[i].type \in {"INSERT", "UPDATE"} /\ ~(img.lsn > Start(i))
                 /\ Replayed(i, p, img) = SetLsn(Change(log[i], p, img), End(i))
<1>1. log[i] \in Record /\ i \in Nat /\ End(i) \in Nat /\ p \in Page
  BY ElementOfSeq, LenProperties, TargetsLemma DEF End
<1>2. CASE log[i].type = "FPI"
  BY <1>1, <1>2, RecordFields, SetLsnLemma DEF Replayed
<1>3. CASE log[i].type # "FPI" /\ img.lsn > Start(i)
  BY <1>3 DEF Replayed
<1>4. CASE log[i].type # "FPI" /\ ~(img.lsn > Start(i))
  <2>1. log[i].type \in {"INSERT", "UPDATE"}
    BY <1>1, <1>4, TargetsLemma
  <2>2. Replayed(i, p, img) = SetLsn(Change(log[i], p, img), End(i))
    BY <1>4 DEF Replayed
  <2>3. PICK new \in Image : new = Change(log[i], p, img)
    BY <1>1, <2>1, ChangeLemma
  <2>4. SetLsn(new, End(i)) \in Image
    BY <1>1, SetLsnLemma
  <2> QED BY <1>4, <2>1, <2>2, <2>3, <2>4
<1> QED BY <1>2, <1>3, <1>4

\* A step of redo: the heap reaches the pages the record needs, and the record is
\* replayed on those it is about.
LEMMA RedoEffect ==
    ASSUME StorageInv, Redo
    PROVE  /\ at \in 1..upto /\ at \in 1..Len(log) /\ log[at] \in Record
           /\ Targets(log[at]) \subseteq Page /\ Targets(log[at]) \subseteq Needed(log[at])
           /\ Needed(log[at]) \subseteq Page
           /\ mem' \in [Page -> Images]
           /\ \A p \in Page :
                 /\ p \in Needed(log[at]) =>
                       Ensured(log[at], p) \in Image /\ mem'[p] \in Image
                 /\ p \in Targets(log[at]) => mem'[p] = Replayed(at, p, Ensured(log[at], p))
                 /\ p \notin Targets(log[at]) => mem'[p] = Ensured(log[at], p)
                 /\ p \notin Needed(log[at]) => mem'[p] = mem[p]
<1>1. at \in 1..upto /\ at \in 1..Len(log) /\ log \in Seq(Record)
  BY LenProperties DEF Redo, StorageInv, Passes, WalOK
<1>2. PICK r \in Record : r = log[at]
  BY <1>1, ElementOfSeq
<1>3. Targets(r) \subseteq Page /\ Targets(r) \subseteq Needed(r) /\ Needed(r) \subseteq Page
  BY TargetsLemma
<1>4. mem' = [p \in Page |-> IF p \in Targets(r) THEN Replayed(at, p, Ensured(r, p))
                             ELSE Ensured(r, p)]
  BY <1>2 DEF Redo
<1>5. ASSUME NEW p \in Needed(r)
      PROVE  /\ Ensured(r, p) \in Image
             /\ p \in Targets(r) => Replayed(at, p, Ensured(r, p)) \in Image
  <2>1. Ensured(r, p) \in Image
    BY <1>3, EmptyImages DEF Ensured, StorageInv, PagesOK, Images, Present
  <2> QED BY <1>1, <1>2, <2>1, ReplayedLemma
<1>6. ASSUME NEW p \in Page, p \notin Needed(r)
      PROVE  p \notin Targets(r) /\ Ensured(r, p) = mem[p] /\ mem[p] \in Images
  BY <1>3, <1>6 DEF Ensured, StorageInv, PagesOK
<1>7. \A p \in Page :
         /\ p \in Needed(r) => mem'[p] \in Image
         /\ p \notin Needed(r) => mem'[p] = mem[p] /\ mem[p] \in Images
  BY <1>3, <1>4, <1>5, <1>6
<1>8. \A p \in Page : mem'[p] \in Images
  BY <1>7 DEF Images
<1>9. mem' \in [Page -> Images]
  BY <1>4, <1>8
<1> QED BY <1>1, <1>2, <1>3, <1>4, <1>5, <1>7, <1>9

LEMMA RedoStorage == StorageInv /\ Redo => StorageInv'
<1> SUFFICES ASSUME StorageInv, Redo PROVE StorageInv'
  OBVIOUS
<1>1. PICK r : r = log[at]
  OBVIOUS
<1>2. /\ at \in 1..upto /\ r \in Record /\ Needed(r) \subseteq Page
      /\ Targets(r) \subseteq Needed(r) /\ mem' \in [Page -> Images]
      /\ \A p \in Page : IF p \in Needed(r) THEN mem'[p] \in Image ELSE mem'[p] = mem[p]
  BY <1>1, RedoEffect
<1>3. \A p \in Page : /\ Present(mem[p]) => Present(mem'[p])
                      /\ p \in Needed(r) => Present(mem'[p])
  BY <1>2, NoTupleNoImage DEF Present
<1>4. dirty' = dirty \cup {p \in Page : mem'[p] # mem[p]} /\ Allocate(Needed(r))
  BY <1>1 DEF Redo
<1>5. PagesOK'
  <2>1. file' = [p \in Page |-> IF p \in Needed(r) /\ ~Present(file[p]) THEN ZeroPage ELSE file[p]]
    BY <1>4 DEF Allocate
  <2>2. file' \in [Page -> Images]
    BY <2>1, EmptyImages DEF StorageInv, PagesOK, Images
  <2>3. platter' = [p \in Page |-> platter[p] \cup {file'[p]}]
    BY <1>4 DEF Allocate
  <2>4. platter' \in [Page -> SUBSET Images] /\ \A p \in Page : file'[p] \in platter'[p]
    BY <2>2, <2>3 DEF StorageInv, PagesOK
  <2>5. dirty' \subseteq Page /\ \A p \in dirty' : Present(mem'[p])
    <3>1. \A p \in Page : mem'[p] # mem[p] => p \in Needed(r)
      BY <1>2
    <3> QED BY <1>3, <1>4, <3>1 DEF StorageInv, PagesOK
  <2>6. ASSUME NEW p \in Page, p \notin dirty'
        PROVE  mem'[p] = file'[p]
    <3>1. mem'[p] = mem[p] /\ mem[p] = file[p]
      BY <1>4, <2>6 DEF StorageInv, PagesOK, CleanFramesMatch
    <3>2. p \in Needed(r) => Present(file[p])
      BY <1>3, <3>1
    <3> QED BY <2>1, <3>1, <3>2
  <2> QED BY <1>2, <2>2, <2>4, <2>5, <2>6 DEF PagesOK, CleanFramesMatch
<1>6. UNCHANGED <<log, synced, flushed, imaged>> /\ UNCHANGED txVars
      /\ UNCHANGED <<phase, upto, losers>> /\ UNCHANGED ghosts
      /\ phase = "redo" /\ at <= upto /\ at' = at + 1
  BY DEF Redo, walVars
<1>7. WalOK' /\ TxOK' /\ GhostsOK'
  BY <1>6 DEF StorageInv, WalOK, FlushedIsSynced, TxOK, GhostsOK, txVars, ghosts
<1>8. Passes'
  BY <1>2, <1>6, LenProperties DEF StorageInv, WalOK, Passes
<1>9. Reached'
  <2>1. StartRecord(upto)' = StartRecord(upto)
    BY <1>6 DEF StartRecord
  <2> SUFFICES ASSUME NEW i \in StartRecord(upto)..upto, i < at + 1, NEW p \in Targets(log[i])
               PROVE  Present(mem'[p])
    BY <1>6, <2>1 DEF Reached
  <2>2. i \in Nat /\ at \in Nat /\ (i < at \/ i = at)
    BY <1>2, StartLemma, LenProperties DEF StorageInv, Passes, WalOK
  <2>3. CASE i = at
    BY <1>1, <1>2, <1>3, <2>3
  <2>4. CASE i < at
    <3>1. Present(mem[p])
      BY <1>6, <2>4 DEF StorageInv, Reached
    <3>2. i \in 1..Len(log) /\ log \in Seq(Record)
      BY <2>2, StartLemma, LenProperties DEF StorageInv, Passes, WalOK
    <3>3. p \in Page
      BY <3>2, ElementOfSeq, TargetsLemma
    <3> QED BY <1>3, <3>1, <3>3
  <2> QED BY <2>2, <2>3, <2>4
<1> QED BY <1>5, <1>7, <1>8, <1>9 DEF StorageInv

LEMMA RedoEndsStorage == StorageInv /\ RedoEnds => StorageInv'
<1> SUFFICES ASSUME StorageInv, RedoEnds PROVE StorageInv'
  OBVIOUS
<1>1. /\ UNCHANGED walVars /\ UNCHANGED pageVars /\ UNCHANGED txVars /\ UNCHANGED ghosts
      /\ UNCHANGED <<upto, losers>>
      /\ phase = "redo" /\ at > upto /\ phase' = "undo" /\ at' = upto
  BY DEF RedoEnds
<1>2. WalOK' /\ PagesOK' /\ TxOK' /\ GhostsOK'
  BY <1>1 DEF StorageInv, WalOK, FlushedIsSynced, PagesOK, CleanFramesMatch, TxOK, GhostsOK,
              walVars, pageVars, txVars, ghosts
<1>3. Passes'
  BY <1>1, LenProperties DEF StorageInv, Passes, WalOK, walVars
<1>4. Reached'
  <2>1. UNCHANGED <<log, mem>>
    BY <1>1 DEF walVars, pageVars
  <2>2. StartRecord(upto)' = StartRecord(upto)
    BY <1>1, <2>1 DEF StartRecord
  <2> SUFFICES ASSUME NEW i \in StartRecord(upto)..upto, NEW p \in Targets(log[i])
               PROVE  Present(mem[p])
    BY <1>1, <2>1, <2>2 DEF Reached
  <2>3. i < at
    BY <1>1, StartLemma, LenProperties DEF StorageInv, Passes, WalOK
  <2> QED BY <1>1, <2>3 DEF StorageInv, Reached
<1> QED BY <1>2, <1>3, <1>4 DEF StorageInv

\* What undo makes of a page that one of the records to take back is about.
LEMMA UndoneLemma ==
    ASSUME NEW r \in Record, r.type \in {"INSERT", "UPDATE"}, NEW p \in Page, NEW img \in Image
    PROVE  /\ Undone(r, p, img) \in Image
           /\ Undone(r, p, img).lsn = img.lsn
           /\ \A s \in Slot : Undone(r, p, img).tup[s] # Unused =>
                 /\ img.tup[s] # Unused
                 /\ Undone(r, p, img).tup[s].xmin = img.tup[s].xmin
                 /\ Undone(r, p, img).tup[s].data = img.tup[s].data
                 /\ Undone(r, p, img).tup[s].xmax \in {0, img.tup[s].xmax}
<1>1. r.new.slot \in Slot /\ (r.type = "UPDATE" => r.old.slot \in Slot)
  BY RecordFields DEF Ctid
<1>2. PICK restored : restored = IF r.type = "UPDATE" /\ p = r.old.page
                                 THEN StampXmax(img, r.old.slot, 0) ELSE img
  OBVIOUS
<1>3. /\ restored \in Image /\ restored.lsn = img.lsn
      /\ \A s \in Slot : restored.tup[s] # Unused =>
            /\ img.tup[s] # Unused
            /\ restored.tup[s].xmin = img.tup[s].xmin
            /\ restored.tup[s].data = img.tup[s].data
            /\ restored.tup[s].xmax \in {0, img.tup[s].xmax}
  <2>1. CASE r.type = "UPDATE" /\ p = r.old.page
    BY <1>1, <1>2, <2>1, StampLemma
  <2>2. CASE ~(r.type = "UPDATE" /\ p = r.old.page)
    BY <1>2, <2>2
  <2> QED BY <2>1, <2>2
<1>4. Undone(r, p, img) = IF p = r.new.page THEN RemoveTuple(restored, r.new.slot) ELSE restored
  BY <1>2 DEF Undone
<1>5. CASE p = r.new.page
  BY <1>1, <1>3, <1>4, <1>5, RemoveLemma
<1>6. CASE p # r.new.page
  BY <1>3, <1>4, <1>6
<1> QED BY <1>5, <1>6

\* A step of undo that takes a record back, with its compensation record.
LEMMA UndoEffect ==
    ASSUME StorageInv, Undo, Compensates(log[at])
    PROVE  /\ at \in 1..upto /\ at \in 1..Len(log) /\ log[at] \in Record
           /\ log[at].type \in {"INSERT", "UPDATE"} /\ log[at].xid \in Xid
           /\ Prefix(log, log') /\ Len(log') = Len(log) + 1 /\ Len(log) \in Nat
           /\ log'[Len(log')] = TxRecord("CLR", log[at].xid)
           /\ Targets(log[at]) \subseteq Page
           /\ mem' \in [Page -> Images] /\ End(Len(log')) \in Nat
           /\ \A p \in Targets(log[at]) :
                 /\ mem[p] \in Image /\ Present(mem[p]) /\ mem'[p] \in Image
                 /\ mem'[p] = SetLsn(Undone(log[at], p, mem[p]), End(Len(log')))
           /\ \A p \in Page \ Targets(log[at]) : mem'[p] = mem[p]
<1>1. at \in StartRecord(upto)..upto /\ at \in 1..upto /\ at \in 1..Len(log) /\ log \in Seq(Record)
  BY StartLemma, LenProperties DEF Undo, StorageInv, Passes, WalOK
<1>2. PICK r \in Record : r = log[at]
  BY <1>1, ElementOfSeq
<1>3. r.type \in {"INSERT", "UPDATE"} /\ r.xid \in Xid
  BY <1>2, RecordFields DEF Compensates
<1>4. Targets(r) \subseteq Page
  BY TargetsLemma
<1>5. \A p \in Targets(r) : Present(mem[p]) /\ mem[p] \in Image
  BY <1>1, <1>2, <1>4 DEF StorageInv, Reached, Undo, PagesOK, Images, Present
<1>6. PICK c \in Record : c = TxRecord("CLR", r.xid)
  BY <1>3, TxRecordLemma
<1>7. log' = Append(log, c)
  BY <1>2, <1>6 DEF Undo
<1>8. Prefix(log, log') /\ Len(log) \in Nat /\ Len(log') = Len(log) + 1 /\ log'[Len(log')] = c
  BY <1>1, <1>7, AppendRecord
<1>9. PICK n \in Nat : n = End(Len(log'))
  BY <1>8 DEF End
<1>10. mem' = [p \in Page |-> IF p \in Targets(r) THEN SetLsn(Undone(r, p, mem[p]), n) ELSE mem[p]]
  BY <1>2, <1>9 DEF Undo
<1>11. \A p \in Targets(r) : SetLsn(Undone(r, p, mem[p]), n) \in Image
  BY <1>3, <1>4, <1>5, UndoneLemma, SetLsnLemma
<1>12. /\ \A p \in Targets(r) : mem'[p] = SetLsn(Undone(r, p, mem[p]), n) /\ mem'[p] \in Image
       /\ \A p \in Page \ Targets(r) : mem'[p] = mem[p] /\ mem'[p] \in Images
  BY <1>4, <1>10, <1>11 DEF StorageInv, PagesOK
<1>13. \A p \in Page : mem'[p] \in Images
  BY <1>12 DEF Images
<1>14. mem' \in [Page -> Images]
  BY <1>10, <1>13
<1> QED BY <1>1, <1>2, <1>3, <1>4, <1>5, <1>6, <1>8, <1>9, <1>12, <1>14

LEMMA UndoStorage == StorageInv /\ Undo => StorageInv'
<1> SUFFICES ASSUME StorageInv, Undo PROVE StorageInv'
  OBVIOUS
<1>1. /\ UNCHANGED <<synced, flushed, imaged, file, platter, phase, upto, losers>>
      /\ UNCHANGED txVars /\ UNCHANGED ghosts
      /\ phase = "undo" /\ at >= StartRecord(upto) /\ at' = at - 1
  BY DEF Undo
<1>2. TxOK' /\ GhostsOK'
  BY <1>1 DEF StorageInv, TxOK, GhostsOK, txVars, ghosts
<1>3. /\ Prefix(log, log')
      /\ PagesOK'
      /\ \A p \in Page : Present(mem[p]) => Present(mem'[p])
  <2>1. CASE Compensates(log[at])
    <3>1. PICK P \in SUBSET Page : P = Targets(log[at])
      BY <2>1, UndoEffect
    <3>2. /\ Prefix(log, log') /\ mem' \in [Page -> Images]
          /\ \A p \in P : mem'[p] \in Image
          /\ \A p \in Page \ P : mem'[p] = mem[p]
      BY <2>1, <3>1, UndoEffect
    <3>3. dirty' = dirty \cup P /\ UNCHANGED <<file, platter>>
      BY <1>1, <2>1, <3>1 DEF Undo
    <3> QED BY <3>2, <3>3, ChangeKeepsPages
  <2>2. CASE ~Compensates(log[at])
    BY <1>1, <2>2, LenProperties
       DEF Undo, Prefix, StorageInv, WalOK, PagesOK, CleanFramesMatch
  <2> QED BY <2>1, <2>2
<1>4. WalOK'
  BY <1>1, <1>3, LongerLog DEF StorageInv, WalOK
<1>5. Passes' /\ StartRecord(upto)' = StartRecord(upto)
  <2>1. Len(log) \in Nat /\ Len(log') \in Nat /\ Len(log) <= Len(log')
    BY <1>3, LenProperties DEF StorageInv, WalOK, Prefix
  <2>2. StartRecord(upto) >= 1 /\ StartRecord(upto) \in Nat
    BY StartLemma DEF StorageInv, Passes, WalOK
  <2>3. StartRecord(upto)' = StartRecord(upto)
    BY <1>1, <1>3, StartStays DEF StorageInv, Passes, WalOK
  <2> QED BY <1>1, <2>1, <2>2, <2>3 DEF StorageInv, Passes
<1>6. Reached'
  <2> SUFFICES ASSUME NEW i \in StartRecord(upto)..upto, NEW p \in Targets(log'[i])
               PROVE  Present(mem'[p])
    BY <1>1, <1>5 DEF Reached
  <2>1. i \in 1..Len(log) /\ log \in Seq(Record)
    BY StartLemma, LenProperties DEF StorageInv, Passes, WalOK
  <2>2. log'[i] = log[i] /\ p \in Page
    BY <1>3, <2>1, ElementOfSeq, TargetsLemma DEF Prefix
  <2> QED BY <1>1, <1>3, <2>2 DEF StorageInv, Reached
<1> QED BY <1>2, <1>3, <1>4, <1>5, <1>6 DEF StorageInv

LEMMA NextStorage == StorageInv /\ [Next]_vars => StorageInv'
<1> SUFFICES ASSUME StorageInv, [Next]_vars PROVE StorageInv'
  OBVIOUS
<1>1. CASE Begin
  BY <1>1, BeginStorage
<1>2. ASSUME NEW x \in Xid, NEW q \in Page, Insert(x, q)
      PROVE  StorageInv'
  BY <1>2, InsertStorage
<1>3. ASSUME NEW x \in Xid, NEW q \in Page, NEW s \in Slot, HotUpdate(x, q, s)
      PROVE  StorageInv'
  BY <1>3, HotUpdateStorage
<1>4. ASSUME NEW x \in Xid, NEW q \in Page, NEW s \in Slot, NEW p \in Page, Update(x, p, s, q)
      PROVE  StorageInv'
  BY <1>4, UpdateStorage
<1>5. ASSUME NEW x \in Xid, Commit(x) \/ Rollback(x) \/ AbortLoser(x)
      PROVE  StorageInv'
  BY <1>5, CommitStorage, RollbackStorage, AbortLoserStorage
<1>6. ASSUME NEW p \in Page, Evict(p)
      PROVE  StorageInv'
  BY <1>6, EvictStorage
<1>7. CASE Checkpoint \/ Close \/ Crash
  BY <1>7, CheckpointStorage, CloseStorage, CrashStorage
<1>8. CASE StartClean \/ Analyse \/ Redo \/ RedoEnds \/ Undo \/ RecoveryEnds
  BY <1>8, StartCleanStorage, AnalyseStorage, RedoStorage, RedoEndsStorage, UndoStorage,
     RecoveryEndsStorage
<1>9. CASE UNCHANGED vars
  BY <1>9 DEF vars, walVars, pageVars, txVars, recVars, ghosts, StorageInv, WalOK,
              FlushedIsSynced, PagesOK, CleanFramesMatch, TxOK, Passes, Reached, StartRecord,
              GhostsOK
<1> QED BY <1>1, <1>2, <1>3, <1>4, <1>5, <1>6, <1>7, <1>8, <1>9 DEF Next

LEMMA StorageInvariant == Spec => []StorageInv
  BY InitStorage, NextStorage, PTL DEF Spec

\* The log, the pages, the tables of transactions and recovery's own state are of
\* their types in every reachable state: no pass meets a page that is not there.
THEOREM RecoveryTyped == Spec => []TypeOK
  BY StorageInvariant, StorageTyped, PTL

\* In every reachable state, flushed_lsn_ claims no more than the log that a power
\* failure leaves.
THEOREM NothingFlushedUnsynced == Spec => []FlushedIsSynced
  BY StorageInvariant, StorageTyped, PTL

\* In every reachable state, a page whose frame is clean is in the file as the
\* pool has it: eviction without a write loses nothing, through recovery too.
THEOREM CleanFramesInFile == Spec => []CleanFramesMatch
  BY StorageInvariant, StorageTyped, PTL

----------------------------------------------------------------------------
(***************************************************************************)
(* The write-ahead rule.  What makes it inductive is a bound on where in   *)
(* the log the records of a page are: below its LSN, or synced.  A flush   *)
(* up to the LSN then syncs them all.  The images in the log are subject   *)
(* to the same rule, since redo puts them back.                            *)
(***************************************************************************)

\* Record i of the log lg wrote the tuple t at slot s of page p, or deleted it.
Writes(lg, i, p, s, t) ==
    /\ lg[i].type \in {"INSERT", "UPDATE"}
    /\ lg[i].new = [page |-> p, slot |-> s]
    /\ lg[i].tuple.data = t.data /\ lg[i].xid = t.xmin

Deletes(lg, i, p, s, t) ==
    /\ lg[i].type = "UPDATE" /\ lg[i].xid = t.xmax
    /\ lg[i].old = [page |-> p, slot |-> s]

\* All that img has as page p is due to the records of lg whose numbers are in I.
InLog(lg, I, p, img) ==
    \A s \in Slot : img.tup[s] # Unused =>
        /\ \E i \in I : Writes(lg, i, p, s, img.tup[s])
        /\ img.tup[s].xmax # 0 => \E i \in I : Deletes(lg, i, p, s, img.tup[s])

\* The records that flush(lsn) leaves synced.
Covered(lg, sy, lsn) == {i \in 1..Len(lg) : i <= sy \/ Inside(i) <= lsn}

Sound(lg, i) ==
    /\ lg[i].type = "FPI" => InLog(lg, 1..i-1, lg[i].page, lg[i].image)
    /\ lg[i].type \in {"INSERT", "UPDATE"} =>
          lg[i].tuple.xmax = 0 /\ lg[i].tuple.xmin = lg[i].xid

MemLogged     == \A p \in Page : Present(mem[p]) =>
                    InLog(log, Covered(log, synced, mem[p].lsn), p, mem[p])
PlatterLogged == \A p \in Page : \A img \in platter[p] : Present(img) =>
                    InLog(log, 1..synced, p, img)
LogSound      == \A i \in 1..Len(log) : Sound(log, i)
DownSynced    == phase \in {"down", "redo"} => synced = Len(log)

LogInv == MemLogged /\ PlatterLogged /\ LogSound /\ DownSynced

LEMMA LogInvImplies == LogInv => WriteAhead
<1> SUFFICES ASSUME LogInv, NEW p \in Page, NEW img \in platter[p], Present(img),
                    NEW s \in Slot, img.tup[s] # Unused
             PROVE  Logged(p, s, img.tup[s])
  BY DEF WriteAhead
<1>1. InLog(log, 1..synced, p, img)
  BY DEF LogInv, PlatterLogged
<1> QED BY <1>1 DEF InLog, Writes, Deletes, Logged

LEMMA InLogStays ==
    ASSUME NEW lg, NEW new, NEW I, NEW J, NEW p, NEW img,
           I \subseteq J, \A i \in I : new[i] = lg[i], InLog(lg, I, p, img)
    PROVE  InLog(new, J, p, img)
  BY DEF InLog, Writes, Deletes

LEMMA InLogEmpty ==
    ASSUME NEW lg, NEW I, NEW p, NEW img, \A s \in Slot : img.tup[s] = Unused
    PROVE  InLog(lg, I, p, img)
  BY DEF InLog

LEMMA InLogSetLsn ==
    ASSUME NEW lg, NEW I, NEW p, NEW img \in Image, NEW n \in Nat, InLog(lg, I, p, img)
    PROVE  InLog(lg, I, p, SetLsn(img, n))
  BY SetLsnLemma DEF InLog

\* The two halves of a change.
LEMMA InLogStamp ==
    ASSUME NEW lg, NEW I, NEW p, NEW img \in Image, InLog(lg, I, p, img),
           NEW n \in I, lg[n].type = "UPDATE",
           NEW s \in Slot, lg[n].old = [page |-> p, slot |-> s], lg[n].xid \in Xid
    PROVE  InLog(lg, I, p, StampXmax(img, s, lg[n].xid))
<1>1. PICK new : new = StampXmax(img, s, lg[n].xid)
  OBVIOUS
<1>2. \A r \in Slot : r # s \/ img.tup[r] = Unused => new.tup[r] = img.tup[r]
  BY <1>1, StampLemma
<1>3. img.tup[s] # Unused =>
        /\ new.tup[s].xmax = lg[n].xid
        /\ new.tup[s].xmin = img.tup[s].xmin /\ new.tup[s].data = img.tup[s].data
  BY <1>1, StampLemma
<1>4. ASSUME NEW r \in Slot, new.tup[r] # Unused
      PROVE  /\ \E i \in I : Writes(lg, i, p, r, new.tup[r])
             /\ new.tup[r].xmax # 0 => \E i \in I : Deletes(lg, i, p, r, new.tup[r])
  <2>1. CASE r # s \/ img.tup[r] = Unused
    BY <1>2, <1>4, <2>1 DEF InLog
  <2>2. CASE r = s /\ img.tup[s] # Unused
    BY <1>3, <2>2 DEF InLog, Writes, Deletes
  <2> QED BY <2>1, <2>2
<1> QED BY <1>1, <1>4 DEF InLog

LEMMA InLogInsert ==
    ASSUME NEW lg, NEW I, NEW p, NEW img \in Image, InLog(lg, I, p, img),
           NEW n \in I, lg[n].type \in {"INSERT", "UPDATE"},
           NEW s \in Slot, lg[n].new = [page |-> p, slot |-> s],
           lg[n].tuple \in Tuple, lg[n].tuple.xmax = 0, lg[n].tuple.xmin = lg[n].xid
    PROVE  InLog(lg, I, p, InsertTupleAt(img, s, lg[n].tuple))
<1>1. PICK new : new = InsertTupleAt(img, s, lg[n].tuple)
  OBVIOUS
<1>2. \A r \in Slot : new.tup[r] = IF img.formatted /\ r = s THEN lg[n].tuple ELSE img.tup[r]
  BY <1>1, InsertLemma
<1>3. ASSUME NEW r \in Slot, new.tup[r] # Unused
      PROVE  /\ \E i \in I : Writes(lg, i, p, r, new.tup[r])
             /\ new.tup[r].xmax # 0 => \E i \in I : Deletes(lg, i, p, r, new.tup[r])
  <2>1. CASE new.tup[r] = img.tup[r]
    BY <1>3, <2>1 DEF InLog
  <2>2. CASE r = s /\ new.tup[r] = lg[n].tuple
    BY <2>2 DEF Writes
  <2> QED BY <1>2, <2>1, <2>2
<1> QED BY <1>1, <1>3 DEF InLog

LEMMA InLogChange ==
    ASSUME NEW lg \in Seq(Record), NEW I \in SUBSET (1..Len(lg)), NEW p \in Page, NEW img \in Image,
           InLog(lg, I, p, img),
           NEW n \in I, lg[n].type \in {"INSERT", "UPDATE"}, Sound(lg, n)
    PROVE  InLog(lg, I, p, Change(lg[n], p, img))
<1>1. PICK r \in Record : r = lg[n]
  BY ElementOfSeq
<1>2. r.new \in Ctid /\ r.tuple \in Tuple /\ r.xid \in Xid /\ (r.type = "UPDATE" => r.old \in Ctid)
      /\ r.tuple.xmax = 0 /\ r.tuple.xmin = r.xid /\ r.type \in {"INSERT", "UPDATE"}
  BY <1>1, RecordFields DEF Sound
<1>3. PICK stamped : stamped = IF r.type = "UPDATE" /\ p = r.old.page
                               THEN StampXmax(img, r.old.slot, r.xid) ELSE img
  OBVIOUS
<1>4. \A c \in Ctid : c.slot \in Slot /\ c = [page |-> c.page, slot |-> c.slot]
  BY DEF Ctid
<1>5. stamped \in Image /\ InLog(lg, I, p, stamped)
  BY <1>1, <1>2, <1>3, <1>4, StampLemma, InLogStamp
<1>6. Change(r, p, img) = IF p = r.new.page THEN InsertTupleAt(stamped, r.new.slot, r.tuple)
                          ELSE stamped
  BY <1>3 DEF Change
<1>7. p = r.new.page => InLog(lg, I, p, InsertTupleAt(stamped, r.new.slot, r.tuple))
  BY <1>1, <1>2, <1>4, <1>5, InLogInsert
<1> QED BY <1>1, <1>5, <1>6, <1>7

LEMMA InitLogged == Init => LogInv
<1> SUFFICES ASSUME Init PROVE LogInv
  OBVIOUS
<1>1. Len(log) = 0
  BY EmptySeq DEF Init
<1>2. \A p \in Page : /\ platter[p] = {mem[p]}
                      /\ Present(mem[p]) => \A s \in Slot : mem[p].tup[s] = Unused
  BY EmptyImages DEF Init, Present
<1> QED BY <1>1, <1>2, InLogEmpty DEF Init, LogInv, MemLogged, PlatterLogged, LogSound, DownSynced

\* What a longer log and a longer synced part of it leave as it was.
LEMMA PageStays ==
    ASSUME StorageInv, LogInv, Prefix(log, log'), synced <= synced', synced' \in Nat,
           NEW p \in Page, Present(mem[p]), mem'[p] = mem[p]
    PROVE  InLog(log', Covered(log', synced', mem'[p].lsn), p, mem'[p])
<1>1. Len(log) \in Nat /\ Len(log') \in Nat /\ Len(log) <= Len(log') /\ synced \in Nat
  BY LenProperties DEF StorageInv, WalOK, Prefix
<1>2. PICK I, J : I = Covered(log, synced, mem[p].lsn) /\ J = Covered(log', synced', mem[p].lsn)
  OBVIOUS
<1>3. I \subseteq J /\ \A i \in I : log'[i] = log[i]
  BY <1>1, <1>2 DEF Covered, Prefix
<1>4. InLog(log, I, p, mem[p])
  BY <1>2 DEF LogInv, MemLogged
<1> QED BY <1>2, <1>3, <1>4, InLogStays

LEMMA PlatterStays ==
    ASSUME StorageInv, LogInv, Prefix(log, log'), synced <= synced', synced' \in Nat,
           \A p \in Page : \A img \in platter'[p] : img \in platter[p] \/ img = ZeroPage
    PROVE  PlatterLogged'
<1> SUFFICES ASSUME NEW p \in Page, NEW img \in platter'[p], Present(img)
             PROVE  InLog(log', 1..synced', p, img)
  BY DEF PlatterLogged
<1>1. CASE img \in platter[p]
  <2>1. InLog(log, 1..synced, p, img)
    BY <1>1 DEF LogInv, PlatterLogged
  <2>2. 1..synced \subseteq 1..synced' /\ \A i \in 1..synced : log'[i] = log[i]
    BY LenProperties DEF StorageInv, WalOK, Prefix
  <2> QED BY <2>1, <2>2, InLogStays
<1>2. CASE img = ZeroPage
  BY <1>2, EmptyImages, InLogEmpty
<1> QED BY <1>1, <1>2

LEMMA SoundStays ==
    ASSUME StorageInv, LogInv, Prefix(log, log'),
           \A i \in Len(log)+1..Len(log') : Sound(log', i)
    PROVE  LogSound'
<1>1. Len(log) \in Nat /\ Len(log') \in Nat
  BY LenProperties DEF StorageInv, WalOK, Prefix
<1> SUFFICES ASSUME NEW i \in 1..Len(log)
             PROVE  Sound(log', i)
  <2>1. \A i \in 1..Len(log') : i \in 1..Len(log) \/ i \in Len(log)+1..Len(log')
    BY <1>1
  <2> QED BY <2>1 DEF LogSound
<1>2. Sound(log, i) /\ log'[i] = log[i] /\ \A j \in 1..i-1 : log'[j] = log[j]
  BY <1>1 DEF LogInv, LogSound, Prefix
<1>3. ASSUME log[i].type = "FPI"
      PROVE  InLog(log', 1..i-1, log[i].page, log[i].image)
  BY <1>2, <1>3, InLogStays DEF Sound
<1> QED BY <1>2, <1>3 DEF Sound

\* The records of transactions and checkpoints say nothing of pages.
LEMMA TxSound ==
    ASSUME NEW lg, NEW i, lg[i].type \notin {"FPI", "INSERT", "UPDATE"}
    PROVE  Sound(lg, i)
  BY DEF Sound

\* A page change covers all that the log has had so far.
LEMMA CoveredLemma ==
    ASSUME NEW lg \in Seq(Record), NEW n \in 1..Len(lg), NEW sy, NEW lsn \in Nat, Inside(n) <= lsn
    PROVE  1..n \subseteq Covered(lg, sy, lsn) /\ n \in 1..n
<1>1. Len(lg) \in Nat /\ n \in Nat /\ n >= 1 /\ n <= Len(lg)
  BY LenProperties
<1>2. ASSUME NEW i \in 1..n
      PROVE  i \in 1..Len(lg) /\ Inside(i) <= lsn
  BY <1>1 DEF Inside
<1> QED BY <1>1, <1>2 DEF Covered

\* The image that maybe_log_fpi logs is sound at its place.
LEMMA ImageSound ==
    ASSUME StorageInv, LogInv, Prefix(log, log'), NEW p \in Page, Present(mem[p]),
           NEW i \in Len(log)+1..Len(log'), log'[i] = ImageRecord(p, mem[p])
    PROVE  Sound(log', i)
<1>1. mem[p] \in Image
  BY DEF StorageInv, PagesOK, Images, Present
<1>2. log'[i].type = "FPI" /\ log'[i].page = p /\ log'[i].image = mem[p]
  BY <1>1, ImageRecordLemma
<1>3. PICK I : I = Covered(log, synced, mem[p].lsn)
  OBVIOUS
<1>4. InLog(log, I, p, mem[p])
  BY <1>3 DEF LogInv, MemLogged
<1>5. I \subseteq 1..i-1 /\ \A j \in I : log'[j] = log[j]
  <2>1. Len(log) \in Nat /\ Len(log') \in Nat /\ i \in Nat /\ Len(log) <= i - 1
    BY LenProperties DEF StorageInv, WalOK, Prefix
  <2>2. I \subseteq 1..Len(log)
    BY <1>3 DEF Covered
  <2>3. \A j \in 1..Len(log) : log'[j] = log[j]
    BY DEF Prefix
  <2>4. 1..Len(log) \subseteq 1..i-1
    BY <2>1
  <2> QED BY <2>2, <2>3, <2>4
<1>6. InLog(log', 1..i-1, p, mem[p])
  <2>1. PICK J, lg : J = 1..i-1 /\ lg = log'
    OBVIOUS
  <2>2. I \subseteq J /\ \A j \in I : lg[j] = log[j]
    BY <1>5, <2>1
  <2>3. InLog(lg, J, p, mem[p])
    BY <1>4, <2>2, InLogStays
  <2> QED BY <2>1, <2>3
<1> QED BY <1>2, <1>6 DEF Sound

\* A page before a statement, seen from the log after it.
LEMMA PageBefore ==
    ASSUME StorageInv, LogInv, Prefix(log, log'), NEW p \in Page, Present(mem[p]),
           NEW n \in Nat, n > Len(log)
    PROVE  InLog(log', 1..n, p, mem[p])
<1>1. PICK I : I = Covered(log, synced, mem[p].lsn)
  OBVIOUS
<1>2. InLog(log, I, p, mem[p])
  BY <1>1 DEF LogInv, MemLogged
<1>3. I \subseteq 1..n /\ \A j \in I : log'[j] = log[j]
  BY <1>1, LenProperties DEF Covered, StorageInv, WalOK, Prefix
<1> QED BY <1>2, <1>3, InLogStays

\* Pages of the heap that a statement adds to the file are all zeroes.
LEMMA AllocateKeepsPlatter ==
    ASSUME StorageInv, NEW P \in SUBSET Page, Allocate(P)
    PROVE  \A p \in Page : \A img \in platter'[p] : img \in platter[p] \/ img = ZeroPage
  BY DEF Allocate, StorageInv, PagesOK

\* A page that a statement changes by record n, stamped with the LSN inside it.
LEMMA ChangedPageLogged ==
    ASSUME NEW lg \in Seq(Record), NEW sy, NEW n \in 1..Len(lg), Inside(n) \in Nat,
           NEW p \in Page, NEW img \in Image, InLog(lg, 1..n, p, img)
    PROVE  InLog(lg, Covered(lg, sy, SetLsn(img, Inside(n)).lsn), p, SetLsn(img, Inside(n)))
<1>1. PICK new \in Image : new = SetLsn(img, Inside(n))
  BY SetLsnLemma
<1>2. new.lsn = Inside(n) /\ InLog(lg, 1..n, p, new)
  BY <1>1, SetLsnLemma, InLogSetLsn
<1>3. PICK J : J = Covered(lg, sy, new.lsn)
  OBVIOUS
<1>4. 1..n \subseteq J
  BY <1>2, <1>3, CoveredLemma DEF Inside
<1>5. InLog(lg, J, p, new)
  BY <1>2, <1>4, InLogStays
<1> QED BY <1>1, <1>3, <1>5

\* The page and the row of insert(), once the record is logged.
LEMMA TargetLogged ==
    ASSUME StorageInv, LogInv, Prefix(log, log'), NEW x \in Xid, MayWrite(x),
           NEW q \in Page, Takes(q), NEW n \in 1..Len(log'), n > Len(log),
           log'[n].type \in {"INSERT", "UPDATE"}, log'[n].xid = x,
           log'[n].new = NewCtid(q), log'[n].tuple = NewTuple(x),
           NEW img \in Image, InLog(log', 1..n, q, img)
    PROVE  InLog(log', 1..n, q, InsertTupleAt(img, NewCtid(q).slot, NewTuple(x)))
<1>1. n \in 1..n
  BY LenProperties DEF StorageInv, WalOK
<1>2. PICK s \in Slot : s = NewCtid(q).slot /\ NewCtid(q) = [page |-> q, slot |-> s]
  BY TargetLemma DEF NewCtid
<1>3. NewTuple(x) \in Tuple /\ NewTuple(x).xmax = 0 /\ NewTuple(x).xmin = x
  BY NewTupleLemma
<1> QED BY <1>1, <1>2, <1>3, InLogInsert

LEMMA InsertLogged ==
    ASSUME StorageInv, LogInv, NEW x \in Xid, NEW q \in Page, Insert(x, q)
    PROVE  LogInv'
<1>1. MayWrite(x) /\ Takes(q) /\ synced' = synced /\ synced' \in Nat /\ phase' = phase
      /\ phase = "up" /\ Allocate({q})
  BY LenProperties DEF Insert, MayWrite, recVars, StorageInv, WalOK
<1>2. PICK c, t, n, img :
         /\ c = NewCtid(q) /\ t = NewTuple(x) /\ n = Len(log')
         /\ img = InsertTupleAt(Target(q), c.slot, t)
  OBVIOUS
<1>3. /\ Prefix(log, log') /\ n \in Nat /\ n > Len(log)
      /\ log'[n] = InsertRecord(x, c, t)
      /\ \A i \in Len(log)+1..n-1 : Present(mem[q]) /\ log'[i] = ImageRecord(q, mem[q])
      /\ img \in Image
      /\ mem'[q] = SetLsn(img, Inside(n)) /\ Inside(n) \in Nat
      /\ \A p \in Page \ {q} : mem'[p] = mem[p]
  BY <1>2, InsertEffect
<1>4. /\ Len(log) \in Nat /\ log' \in Seq(Record) /\ n \in 1..Len(log')
      /\ log'[n].type = "INSERT" /\ log'[n].xid = x /\ log'[n].new = c /\ log'[n].tuple = t
      /\ t.xmax = 0 /\ t.xmin = x
  BY <1>1, <1>2, <1>3, TargetLemma, NewTupleLemma, InsertRecordLemma, LenProperties
     DEF Prefix, StorageInv, WalOK
<1>5. LogSound'
  <2> SUFFICES ASSUME NEW i \in Len(log)+1..Len(log') PROVE Sound(log', i)
    BY <1>3, SoundStays
  <2>1. CASE i = n
    BY <1>4, <2>1 DEF Sound
  <2>2. CASE i # n
    BY <1>2, <1>3, <1>4, <2>2, ImageSound
  <2> QED BY <2>1, <2>2
<1>6. PlatterLogged'
  BY <1>1, <1>3, PlatterStays, AllocateKeepsPlatter
<1>7. InLog(log', Covered(log', synced', mem'[q].lsn), q, mem'[q])
  <2>1. Target(q) \in Image
    BY <1>1, TargetLemma
  <2>2. InLog(log', 1..n, q, Target(q))
    <3>1. CASE Present(mem[q])
      BY <1>3, <3>1, PageBefore DEF Target
    <3>2. CASE ~Present(mem[q])
      BY <3>2, EmptyImages, InLogEmpty DEF Target
    <3> QED BY <3>1, <3>2
  <2>3. InLog(log', 1..n, q, img)
    BY <1>1, <1>2, <1>3, <1>4, <2>1, <2>2, TargetLogged
  <2> QED BY <1>3, <1>4, <2>3, ChangedPageLogged
<1>8. MemLogged'
  <2> SUFFICES ASSUME NEW p \in Page, Present(mem'[p])
               PROVE  InLog(log', Covered(log', synced', mem'[p].lsn), p, mem'[p])
    BY DEF MemLogged
  <2> QED BY <1>1, <1>3, <1>7, PageStays
<1>9. DownSynced'
  BY <1>1 DEF DownSynced
<1> QED BY <1>5, <1>6, <1>8, <1>9 DEF LogInv

LEMMA HotUpdateLogged ==
    ASSUME StorageInv, LogInv, NEW x \in Xid, NEW p \in Page, NEW s \in Slot, HotUpdate(x, p, s)
    PROVE  LogInv'
<1>1. MayWrite(x) /\ Takes(p) /\ Present(mem[p]) /\ MayUpdate(x, mem[p].tup[s])
      /\ synced' = synced /\ synced' \in Nat /\ phase' = phase /\ phase = "up"
      /\ platter' = platter
  BY LenProperties DEF HotUpdate, HasRoom, Takes, MayWrite, recVars, StorageInv, WalOK
<1>2. PICK o, c, t, n, img :
         /\ o = [page |-> p, slot |-> s] /\ c = NewCtid(p) /\ t = NewTuple(x) /\ n = Len(log')
         /\ img = InsertTupleAt(StampXmax(mem[p], s, x), c.slot, t)
  OBVIOUS
<1>3. /\ Prefix(log, log') /\ n \in Nat /\ n > Len(log)
      /\ log'[n] = UpdateRecord(x, o, c, t)
      /\ \A i \in Len(log)+1..n-1 : Present(mem[p]) /\ log'[i] = ImageRecord(p, mem[p])
      /\ img \in Image
      /\ mem'[p] = SetLsn(img, Inside(n)) /\ Inside(n) \in Nat
      /\ \A q \in Page \ {p} : mem'[q] = mem[q]
  BY <1>2, HotUpdateEffect
<1>4. /\ Len(log) \in Nat /\ log' \in Seq(Record) /\ n \in 1..Len(log') /\ n \in 1..n
      /\ log'[n].type = "UPDATE" /\ log'[n].xid = x /\ log'[n].old = o
      /\ log'[n].new = c /\ log'[n].tuple = t
      /\ t.xmax = 0 /\ t.xmin = x
  BY <1>1, <1>2, <1>3, TargetLemma, OldVersionLemma, NewTupleLemma, UpdateRecordLemma,
     LenProperties DEF Prefix, StorageInv, WalOK
<1>5. LogSound'
  <2> SUFFICES ASSUME NEW i \in Len(log)+1..Len(log') PROVE Sound(log', i)
    BY <1>3, SoundStays
  <2>1. CASE i = n
    BY <1>4, <2>1 DEF Sound
  <2>2. CASE i # n
    BY <1>1, <1>2, <1>3, <1>4, <2>2, ImageSound
  <2> QED BY <2>1, <2>2
<1>6. PlatterLogged'
  BY <1>1, <1>3, PlatterStays
<1>7. InLog(log', Covered(log', synced', mem'[p].lsn), p, mem'[p])
  <2>1. mem[p] \in Image
    BY <1>1, OldVersionLemma
  <2>2. InLog(log', 1..n, p, mem[p])
    BY <1>1, <1>3, PageBefore
  <2>3. PICK stamped \in Image : stamped = StampXmax(mem[p], s, x)
    BY <2>1, StampLemma
  <2>4. InLog(log', 1..n, p, stamped)
    BY <1>2, <1>4, <2>1, <2>2, <2>3, InLogStamp
  <2>5. InLog(log', 1..n, p, img)
    BY <1>1, <1>2, <1>3, <1>4, <2>3, <2>4, TargetLogged
  <2> QED BY <1>3, <1>4, <2>5, ChangedPageLogged
<1>8. MemLogged'
  <2> SUFFICES ASSUME NEW q \in Page, Present(mem'[q])
               PROVE  InLog(log', Covered(log', synced', mem'[q].lsn), q, mem'[q])
    BY DEF MemLogged
  <2> QED BY <1>1, <1>3, <1>7, PageStays
<1>9. DownSynced'
  BY <1>1 DEF DownSynced
<1> QED BY <1>5, <1>6, <1>8, <1>9 DEF LogInv

LEMMA UpdateLogged ==
    ASSUME StorageInv, LogInv, NEW x \in Xid, NEW p \in Page, NEW s \in Slot, NEW q \in Page,
           Update(x, p, s, q)
    PROVE  LogInv'
<1>1. MayWrite(x) /\ Takes(q) /\ Present(mem[p]) /\ MayUpdate(x, mem[p].tup[s])
      /\ synced' = synced /\ synced' \in Nat /\ phase' = phase /\ phase = "up" /\ Allocate({q})
  BY LenProperties DEF Update, MayWrite, recVars, StorageInv, WalOK
<1>2. PICK m \in Nat, n \in Nat, newq \in Image, newp \in Image :
         Moved(x, p, s, q, m, n, newq, newp)
  BY UpdateEffect
<1>3. PICK o, c, t, imgq, imgp :
         /\ o = [page |-> p, slot |-> s] /\ c = NewCtid(q) /\ t = NewTuple(x)
         /\ imgq = InsertTupleAt(Target(q), c.slot, t) /\ imgp = StampXmax(mem[p], s, x)
  OBVIOUS
<1>4. /\ p # q /\ Prefix(log, log') /\ n = Len(log') /\ m > Len(log) /\ n > m
      /\ log'[m] = InsertRecord(x, c, t) /\ log'[n] = UpdateRecord(x, o, c, t)
      /\ \A i \in Len(log)+1..m-1 : Present(mem[q]) /\ log'[i] = ImageRecord(q, mem[q])
      /\ \A i \in m+1..n-1 : log'[i] = ImageRecord(p, mem[p])
      /\ Inside(m) \in Nat /\ Inside(n) \in Nat
      /\ mem'[q] = SetLsn(imgq, Inside(m)) /\ mem'[p] = SetLsn(imgp, Inside(n))
      /\ \A r \in Page \ {p, q} : mem'[r] = mem[r]
  BY <1>2, <1>3 DEF Moved
<1>5. /\ Len(log) \in Nat /\ log' \in Seq(Record)
      /\ m \in 1..Len(log') /\ n \in 1..Len(log') /\ n > Len(log) /\ n \in 1..n
  BY <1>2, <1>4, LenProperties DEF Prefix, StorageInv, WalOK
<1>6. /\ c \in Ctid /\ o \in Ctid /\ t \in Tuple /\ t.xmax = 0 /\ t.xmin = x
      /\ c.slot \in Slot /\ Target(q) \in Image /\ mem[p] \in Image
  BY <1>1, <1>3, TargetLemma, OldVersionLemma, NewTupleLemma
<1>7. /\ log'[m].type = "INSERT" /\ log'[m].xid = x /\ log'[m].new = c /\ log'[m].tuple = t
      /\ log'[n].type = "UPDATE" /\ log'[n].xid = x /\ log'[n].old = o
      /\ log'[n].new = c /\ log'[n].tuple = t
  BY <1>4, <1>6, InsertRecordLemma, UpdateRecordLemma
<1>8. LogSound'
  <2> SUFFICES ASSUME NEW i \in Len(log)+1..Len(log') PROVE Sound(log', i)
    BY <1>4, SoundStays
  <2>1. CASE i = n \/ i = m
    BY <1>6, <1>7, <2>1 DEF Sound
  <2>2. CASE i < m
    BY <1>2, <1>4, <1>5, <2>2, ImageSound
  <2>3. CASE i > m /\ i # n
    BY <1>1, <1>2, <1>4, <1>5, <2>3, ImageSound
  <2> QED BY <1>2, <1>5, <2>1, <2>2, <2>3
<1>9. PlatterLogged'
  BY <1>1, <1>4, PlatterStays, AllocateKeepsPlatter
<1>10. InLog(log', Covered(log', synced', mem'[q].lsn), q, mem'[q])
  <2>1. InLog(log', 1..m, q, Target(q))
    <3>1. CASE Present(mem[q])
      BY <1>2, <1>4, <3>1, PageBefore DEF Target
    <3>2. CASE ~Present(mem[q])
      BY <3>2, EmptyImages, InLogEmpty DEF Target
    <3> QED BY <3>1, <3>2
  <2>2. InLog(log', 1..m, q, imgq) /\ imgq \in Image
    BY <1>1, <1>3, <1>4, <1>5, <1>6, <1>7, <2>1, TargetLogged, InsertLemma
  <2> QED BY <1>4, <1>5, <2>2, ChangedPageLogged
<1>11. InLog(log', Covered(log', synced', mem'[p].lsn), p, mem'[p])
  <2>1. InLog(log', 1..n, p, mem[p])
    BY <1>1, <1>2, <1>4, <1>5, PageBefore
  <2>2. imgp \in Image
    BY <1>3, <1>6, StampLemma
  <2>3. InLog(log', 1..n, p, imgp)
    BY <1>3, <1>5, <1>6, <1>7, <2>1, InLogStamp
  <2> QED BY <1>4, <1>5, <2>2, <2>3, ChangedPageLogged
<1>12. MemLogged'
  <2> SUFFICES ASSUME NEW r \in Page, Present(mem'[r])
               PROVE  InLog(log', Covered(log', synced', mem'[r].lsn), r, mem'[r])
    BY DEF MemLogged
  <2> QED BY <1>1, <1>4, <1>10, <1>11, PageStays
<1>13. DownSynced'
  BY <1>1 DEF DownSynced
<1> QED BY <1>8, <1>9, <1>12, <1>13 DEF LogInv

\* A step that ends a transaction, or flushes, and changes no page.
LEMMA GrowthLogged ==
    ASSUME StorageInv, LogInv, Prefix(log, log'), synced <= synced', synced' \in Nat,
           \A i \in Len(log)+1..Len(log') : log'[i].type \notin {"FPI", "INSERT", "UPDATE"},
           UNCHANGED mem,
           \A p \in Page : \A img \in platter'[p] : img \in platter[p] \/ img = ZeroPage,
           DownSynced'
    PROVE  LogInv'
<1>1. LogSound'
  BY SoundStays, TxSound
<1>2. PlatterLogged'
  BY PlatterStays
<1>3. MemLogged'
  BY PageStays DEF MemLogged
<1> QED BY <1>1, <1>2, <1>3 DEF LogInv

LEMMA CommitLogged ==
    ASSUME StorageInv, LogInv, NEW x \in Xid, Commit(x) \/ Rollback(x) \/ AbortLoser(x)
    PROVE  LogInv'
<1>1. UNCHANGED <<mem, platter, phase>> /\ phase \in {"up", "undo"} /\ imaged' = imaged
  BY DEF Commit, Rollback, AbortLoser, pageVars, recVars
<1>2. PICK type \in {"COMMIT", "ABORT"} : Ends(x, type)
  BY DEF Commit, Rollback, AbortLoser
<1>3. /\ Prefix(log, log') /\ Len(log') = Len(log) + 1 /\ Len(log) \in Nat
      /\ log'[Len(log')] = TxRecord(type, x)
      /\ synced <= synced' /\ WalOK'
  BY <1>1, <1>2, EndsLemma DEF StorageInv, WalOK
<1>4. synced' \in Nat
  BY <1>3, LenProperties DEF WalOK
<1>5. \A i \in Len(log)+1..Len(log') : log'[i].type \notin {"FPI", "INSERT", "UPDATE"}
  <2> TAKE i \in Len(log)+1..Len(log')
  <2>1. i = Len(log')
    BY <1>3
  <2> QED BY <1>3, <2>1, TxRecordLemma
<1>6. DownSynced'
  BY <1>1 DEF DownSynced
<1>7. \A p \in Page : \A img \in platter'[p] : img \in platter[p] \/ img = ZeroPage
  BY <1>1
<1> QED BY <1>1, <1>3, <1>4, <1>5, <1>6, <1>7, GrowthLogged

\* Steps that the log and the pages have no part in.
LEMMA OtherLogged ==
    ASSUME StorageInv, LogInv, UNCHANGED <<log, synced, mem, platter>>, DownSynced'
    PROVE  LogInv'
  BY DEF LogInv, MemLogged, PlatterLogged, LogSound

\* The pool flushes the log up to the page's LSN before it writes the page.
LEMMA EvictLogged ==
    ASSUME StorageInv, LogInv, NEW p \in Page, Evict(p)
    PROVE  LogInv'
<1>1. mem[p] \in Image /\ mem[p].lsn \in Nat /\ Present(mem[p])
  BY DEF Evict, StorageInv, PagesOK, Images, Present, Image
<1>2. PICK lsn \in Nat : lsn = mem[p].lsn
  BY <1>1
<1>3. /\ WalOK' /\ synced <= synced' /\ log' = log
      /\ \A i \in 1..Len(log) : Inside(i) <= lsn => i <= synced'
  BY <1>2, FlushKeepsWal DEF Evict, StorageInv, WalOK
<1>4. synced' \in 0..Len(log) /\ synced \in 0..Len(log) /\ Len(log) \in Nat
  BY <1>3, LenProperties DEF WalOK, StorageInv
<1>5. Prefix(log, log')
  BY <1>3, <1>4 DEF Prefix, StorageInv, WalOK
<1>6. UNCHANGED <<mem, phase>> /\ platter' = [platter EXCEPT ![p] = @ \cup {mem[p]}]
  BY DEF Evict, recVars
<1>7. InLog(log, 1..synced', p, mem[p])
  <2>1. PICK I, J : I = Covered(log, synced, mem[p].lsn) /\ J = 1..synced'
    OBVIOUS
  <2>2. I \subseteq J
    BY <1>2, <1>3, <1>4, <2>1 DEF Covered
  <2>3. InLog(log, I, p, mem[p])
    BY <1>1, <2>1 DEF LogInv, MemLogged
  <2>4. InLog(log, J, p, mem[p])
    BY <2>2, <2>3, InLogStays
  <2> QED BY <2>1, <2>4
<1>8. PlatterLogged'
  <2> SUFFICES ASSUME NEW q \in Page, NEW img \in platter'[q], Present(img)
               PROVE  InLog(log', 1..synced', q, img)
    BY DEF PlatterLogged
  <2>1. img \in platter[q] \/ (q = p /\ img = mem[p])
    BY <1>6 DEF StorageInv, PagesOK
  <2>2. CASE img \in platter[q]
    <3>1. InLog(log, 1..synced, q, img) /\ 1..synced \subseteq 1..synced'
      BY <1>3, <1>4, <2>2 DEF LogInv, PlatterLogged
    <3> QED BY <1>3, <3>1, InLogStays
  <2> QED BY <1>3, <1>7, <2>1, <2>2
<1>9. MemLogged'
  BY <1>3, <1>4, <1>5, <1>6, PageStays DEF MemLogged
<1>10. LogSound' /\ DownSynced'
  BY <1>3, <1>4, <1>6 DEF LogInv, LogSound, DownSynced
<1> QED BY <1>8, <1>9, <1>10 DEF LogInv

\* Once all of the log is synced, and every page with it, any page may be left.
LEMMA AllSyncedLogged ==
    ASSUME StorageInv, LogInv, WalOK', Prefix(log, log'), synced' = Len(log'),
           \A i \in Len(log)+1..Len(log') : log'[i].type \notin {"FPI", "INSERT", "UPDATE"},
           UNCHANGED mem, \A p \in Page : platter'[p] = {mem[p]}
    PROVE  LogInv'
<1>1. Len(log) \in Nat /\ Len(log') \in Nat /\ Len(log) <= Len(log') /\ synced \in 0..Len(log)
  BY LenProperties DEF StorageInv, WalOK, Prefix
<1>2. LogSound'
  BY SoundStays, TxSound
<1>3. MemLogged'
  BY <1>1, PageStays DEF MemLogged
<1>4. PlatterLogged'
  <2> SUFFICES ASSUME NEW p \in Page, Present(mem[p])
               PROVE  InLog(log', 1..synced', p, mem[p])
    BY DEF PlatterLogged
  <2>1. PICK I, J : I = Covered(log, synced, mem[p].lsn) /\ J = 1..synced'
    OBVIOUS
  <2>2. I \subseteq J /\ \A i \in I : log'[i] = log[i]
    BY <1>1, <2>1 DEF Covered, Prefix
  <2>3. InLog(log, I, p, mem[p])
    BY <2>1 DEF LogInv, MemLogged
  <2>4. InLog(log', J, p, mem[p])
    BY <2>2, <2>3, InLogStays
  <2> QED BY <2>1, <2>4
<1>5. DownSynced'
  BY DEF DownSynced
<1> QED BY <1>2, <1>3, <1>4, <1>5 DEF LogInv

LEMMA CheckpointLogged == StorageInv /\ LogInv /\ Checkpoint => LogInv'
<1> SUFFICES ASSUME StorageInv, LogInv, Checkpoint PROVE LogInv'
  OBVIOUS
<1>1. /\ WalOK' /\ Prefix(log, log') /\ Len(log') = Len(log) + 1 /\ Len(log) \in Nat
      /\ log'[Len(log')] = TxRecord("CHECKPOINT", 0) /\ synced' = Len(log')
  BY CheckpointEffect
<1>2. UNCHANGED mem /\ \A p \in Page : platter'[p] = {mem[p]}
  BY FlushAndSyncLemma DEF Checkpoint
<1>3. \A i \in Len(log)+1..Len(log') : log'[i].type \notin {"FPI", "INSERT", "UPDATE"}
  <2> TAKE i \in Len(log)+1..Len(log')
  <2>1. i = Len(log')
    BY <1>1
  <2> QED BY <1>1, <2>1, TxRecordLemma
<1> QED BY <1>1, <1>2, <1>3, AllSyncedLogged

LEMMA CloseLogged == StorageInv /\ LogInv /\ (Close \/ RecoveryEnds) => LogInv'
<1> SUFFICES ASSUME StorageInv, LogInv, Close \/ RecoveryEnds PROVE LogInv'
  OBVIOUS
<1>1. /\ UNCHANGED <<log, mem>> /\ FlushAndSync /\ Flush(log, End(Len(log)))
      /\ imaged' \subseteq Page
  BY DEF Close, RecoveryEnds, MemoryLost, StorageInv, WalOK
<1>2. WalOK' /\ synced' = Len(log')
  BY <1>1, AllFlushed
<1>3. \A p \in Page : platter'[p] = {mem[p]}
  BY <1>1, FlushAndSyncLemma
<1>4. Prefix(log, log') /\ Len(log') = Len(log) /\ Len(log) \in Nat
  BY <1>1, LenProperties DEF Prefix, StorageInv, WalOK
<1>5. \A i \in Len(log)+1..Len(log') : log'[i].type \notin {"FPI", "INSERT", "UPDATE"}
  BY <1>4
<1> QED BY <1>1, <1>2, <1>3, <1>4, <1>5, AllSyncedLogged

\* A torn page has of each slot what one of the two images has.
LEMMA SurvivorLogged ==
    ASSUME StorageInv, LogInv, NEW p \in Page, NEW img \in platter[p] \cup Mixtures(p), Present(img)
    PROVE  InLog(log, 1..synced, p, img)
<1>1. CASE img \in platter[p]
  BY <1>1 DEF LogInv, PlatterLogged
<1>2. CASE img \in Mixtures(p)
  <2>1. PICK a \in platter[p], b \in platter[p] :
           /\ Present(a) /\ Present(b)
           /\ \A s \in Slot : img.tup[s] = a.tup[s] \/ img.tup[s] = b.tup[s]
    BY <1>2, MixtureLemma
  <2>2. PICK I : I = 1..synced
    OBVIOUS
  <2>3. InLog(log, I, p, a) /\ InLog(log, I, p, b)
    BY <2>1, <2>2 DEF LogInv, PlatterLogged
  <2>4. InLog(log, I, p, img)
    BY <2>1, <2>3 DEF InLog
  <2> QED BY <2>2, <2>4
<1> QED BY <1>1, <1>2

LEMMA CrashLogged == StorageInv /\ LogInv /\ Crash => LogInv'
<1> SUFFICES ASSUME StorageInv, LogInv, Crash PROVE LogInv'
  OBVIOUS
<1>1. /\ mem' \in [Page -> Images]
      /\ \A p \in Page : mem'[p] \in platter[p] \cup Mixtures(p)
      /\ \A p \in Page : platter'[p] = {mem'[p]}
  BY CrashEffect
<1>2. PICK n, e : Cut(n, e)
  BY CrashEffect
<1>3. /\ log' \in Seq(Record) /\ n \in Nat /\ synced \in Nat /\ Len(log) \in Nat
      /\ synced <= n /\ n <= Len(log)
      /\ Len(log') = n + Len(e) /\ Len(e) \in 0..1 /\ e \in Endings(n)
      /\ \A i \in 1..n : log'[i] = log[i]
      /\ \A i \in 1..Len(e) : log'[n + i] = e[i]
  BY <1>2, EndingLemma, LenProperties DEF Cut, StorageInv, WalOK
<1>4. synced' = Len(log')
  BY DEF Crash
<1>5. ASSUME NEW p \in Page, Present(mem'[p]), NEW J, 1..n \subseteq J
      PROVE  InLog(log', J, p, mem'[p])
  <2>1. PICK I : I = 1..synced
    OBVIOUS
  <2>2. InLog(log, I, p, mem'[p])
    BY <1>1, <1>5, <2>1, SurvivorLogged
  <2>3. I \subseteq J /\ \A i \in I : log'[i] = log[i]
    BY <1>3, <1>5, <2>1
  <2> QED BY <2>2, <2>3, InLogStays
<1>6. PlatterLogged'
  <2>1. 1..n \subseteq 1..synced'
    BY <1>3, <1>4
  <2> QED BY <1>1, <1>5, <2>1 DEF PlatterLogged
<1>7. MemLogged'
  <2> SUFFICES ASSUME NEW p \in Page, Present(mem'[p])
               PROVE  InLog(log', Covered(log', synced', mem'[p].lsn), p, mem'[p])
    BY DEF MemLogged
  <2>1. 1..n \subseteq Covered(log', synced', mem'[p].lsn)
    BY <1>3, <1>4 DEF Covered
  <2> QED BY <1>5, <2>1
<1>8. LogSound'
  <2> SUFFICES ASSUME NEW i \in 1..Len(log') PROVE Sound(log', i)
    BY DEF LogSound
  <2>1. CASE i \in 1..n
    <3>1. Sound(log, i) /\ log'[i] = log[i] /\ \A j \in 1..i-1 : log'[j] = log[j]
      BY <1>3, <2>1 DEF LogInv, LogSound
    <3>2. ASSUME log[i].type = "FPI"
          PROVE  InLog(log', 1..i-1, log[i].page, log[i].image)
      BY <3>1, <3>2, InLogStays DEF Sound
    <3> QED BY <3>1, <3>2 DEF Sound
  <2>2. CASE i \notin 1..n
    <3>1. Len(e) = 1 /\ i = n + 1 /\ log'[i] = e[1]
      BY <1>3, <2>2
    <3>2. e[1] = TxRecord("TORN", 0) \/ \E x \in Xid : e[1] = TxRecord("COMMIT", x)
      BY <1>3, <3>1, EndingLemma DEF Active
    <3> QED BY <3>1, <3>2, TxRecordLemma, TxSound
  <2> QED BY <2>1, <2>2
<1>9. DownSynced'
  BY <1>4 DEF DownSynced
<1> QED BY <1>6, <1>7, <1>8, <1>9 DEF LogInv

\* Redo puts on the pages what records of the log account for, all of them synced.
LEMMA RedoLogged == StorageInv /\ LogInv /\ Redo => LogInv'
<1> SUFFICES ASSUME StorageInv, LogInv, Redo PROVE LogInv'
  OBVIOUS
<1>1. PICK r, n, I : r = log[at] /\ n = Len(log) /\ I = 1..n
  OBVIOUS
<1>2. /\ at \in I /\ r \in Record /\ Needed(r) \subseteq Page /\ Targets(r) \subseteq Needed(r)
      /\ \A p \in Page :
            /\ p \in Needed(r) => Ensured(r, p) \in Image /\ mem'[p] \in Image
            /\ p \in Targets(r) => mem'[p] = Replayed(at, p, Ensured(r, p))
            /\ p \notin Targets(r) => mem'[p] = Ensured(r, p)
            /\ p \notin Needed(r) => mem'[p] = mem[p]
  BY <1>1, RedoEffect
<1>3. UNCHANGED <<log, synced>> /\ phase' = phase /\ phase = "redo" /\ Allocate(Needed(r))
  BY <1>1 DEF Redo, walVars
<1>4. synced = n /\ n \in Nat /\ log \in Seq(Record) /\ I \in SUBSET (1..Len(log))
  BY <1>1, <1>3, LenProperties DEF LogInv, DownSynced, StorageInv, WalOK
<1>5. \A lsn : Covered(log, synced, lsn) = I
  BY <1>1, <1>4 DEF Covered
<1>6. ASSUME NEW p \in Page, Present(Ensured(r, p))
      PROVE  InLog(log, I, p, Ensured(r, p))
  <2>1. CASE Ensured(r, p) = mem[p]
    BY <1>5, <1>6, <2>1 DEF LogInv, MemLogged
  <2>2. CASE Ensured(r, p) = FreshPage
    BY <2>2, EmptyImages, InLogEmpty
  <2> QED BY <2>1, <2>2 DEF Ensured
<1>7. ASSUME NEW p \in Targets(r)
      PROVE  InLog(log, I, p, mem'[p])
  <2>1. PICK img \in Image : img = Ensured(r, p)
    BY <1>2
  <2>2. p \in Page /\ mem'[p] = Replayed(at, p, img) /\ Present(img)
    BY <1>2, <2>1, NoTupleNoImage DEF Present
  <2>3. InLog(log, I, p, img)
    BY <1>6, <2>1, <2>2
  <2>4. Sound(log, at) /\ at \in Nat /\ End(at) \in Nat
    BY <1>1, <1>2, <1>4 DEF LogInv, LogSound, End
  <2>5. CASE r.type = "FPI" /\ r.image \in Image /\ mem'[p] = SetLsn(r.image, End(at))
    <3>1. r.page = p
      BY <1>2, <2>5, TargetsLemma
    <3>2. InLog(log, 1..at-1, p, r.image)
      BY <1>1, <2>4, <2>5, <3>1 DEF Sound
    <3>3. 1..at-1 \subseteq I
      BY <1>1, <1>2, <1>4
    <3>4. InLog(log, I, p, r.image)
      BY <3>2, <3>3, InLogStays
    <3> QED BY <2>4, <2>5, <3>4, InLogSetLsn
  <2>6. CASE mem'[p] = img
    BY <2>3, <2>6
  <2>7. CASE r.type \in {"INSERT", "UPDATE"} /\ mem'[p] = SetLsn(Change(r, p, img), End(at))
    <3>1. InLog(log, I, p, Change(r, p, img))
      BY <1>1, <1>2, <1>4, <2>2, <2>3, <2>4, <2>7, InLogChange
    <3>2. Change(r, p, img) \in Image
      BY <1>2, <2>2, <2>7, ChangeLemma
    <3> QED BY <2>4, <2>7, <3>1, <3>2, InLogSetLsn
  <2> QED BY <1>1, <1>2, <1>4, <2>2, <2>5, <2>6, <2>7, ReplayedLemma
<1>8. MemLogged'
  <2> SUFFICES ASSUME NEW p \in Page, Present(mem'[p])
               PROVE  InLog(log, I, p, mem'[p])
    BY <1>3, <1>5 DEF MemLogged
  <2>1. CASE p \in Targets(r)
    BY <1>7, <2>1
  <2>2. CASE p \notin Targets(r)
    BY <1>2, <1>6, <2>2
  <2> QED BY <2>1, <2>2
<1>9. PlatterLogged'
  <2>1. Prefix(log, log') /\ synced' = synced /\ synced \in Nat
    BY <1>3, <1>4 DEF Prefix
  <2>2. \A p \in Page : \A img \in platter'[p] : img \in platter[p] \/ img = ZeroPage
    BY <1>2, <1>3, AllocateKeepsPlatter
  <2> QED BY <2>1, <2>2, PlatterStays
<1>10. LogSound' /\ DownSynced'
  BY <1>3 DEF LogInv, LogSound, DownSynced
<1> QED BY <1>8, <1>9, <1>10 DEF LogInv

LEMMA InLogUndone ==
    ASSUME NEW lg, NEW I, NEW p \in Page, NEW img \in Image, InLog(lg, I, p, img),
           NEW r \in Record, r.type \in {"INSERT", "UPDATE"}
    PROVE  InLog(lg, I, p, Undone(r, p, img))
<1>1. PICK new : new = Undone(r, p, img)
  OBVIOUS
<1>2. \A s \in Slot : new.tup[s] # Unused =>
         /\ img.tup[s] # Unused
         /\ new.tup[s].xmin = img.tup[s].xmin
         /\ new.tup[s].data = img.tup[s].data
         /\ new.tup[s].xmax \in {0, img.tup[s].xmax}
  BY <1>1, UndoneLemma
<1>3. InLog(lg, I, p, new)
  BY <1>2 DEF InLog, Writes, Deletes
<1> QED BY <1>1, <1>3

\* Undo only takes away, and the new LSN covers all of the log.
LEMMA UndoLogged == StorageInv /\ LogInv /\ Undo => LogInv'
<1> SUFFICES ASSUME StorageInv, LogInv, Undo PROVE LogInv'
  OBVIOUS
<1>1. UNCHANGED <<synced, platter, phase>> /\ phase = "undo"
  BY DEF Undo
<1>2. DownSynced'
  BY <1>1 DEF DownSynced
<1>3. CASE ~Compensates(log[at])
  BY <1>1, <1>2, <1>3, OtherLogged DEF Undo
<1>4. CASE Compensates(log[at])
  <2>1. PICK r, n : r = log[at] /\ n = Len(log')
    OBVIOUS
  <2>2. /\ r \in Record /\ r.type \in {"INSERT", "UPDATE"} /\ r.xid \in Xid
        /\ Prefix(log, log') /\ n = Len(log) + 1 /\ Len(log) \in Nat /\ n \in Nat
        /\ log'[n] = TxRecord("CLR", r.xid)
        /\ Targets(r) \subseteq Page /\ End(n) \in Nat
        /\ \A p \in Targets(r) :
              /\ mem[p] \in Image /\ Present(mem[p])
              /\ mem'[p] = SetLsn(Undone(r, p, mem[p]), End(n))
        /\ \A p \in Page \ Targets(r) : mem'[p] = mem[p]
    BY <1>4, <2>1, UndoEffect
  <2>3. synced \in Nat /\ synced' = synced /\ log' \in Seq(Record)
    BY <1>1, <2>2, LenProperties DEF StorageInv, WalOK, Prefix
  <2>4. LogSound'
    <3>1. \A i \in Len(log)+1..Len(log') : i = n /\ log'[i].type \notin {"FPI", "INSERT", "UPDATE"}
      BY <2>1, <2>2, TxRecordLemma
    <3> QED BY <2>2, <3>1, SoundStays, TxSound
  <2>5. PlatterLogged'
    BY <1>1, <2>2, <2>3, PlatterStays
  <2>6. ASSUME NEW p \in Targets(r)
        PROVE  InLog(log', Covered(log', synced', mem'[p].lsn), p, mem'[p])
    <3>1. p \in Page
      BY <2>2
    <3>2. PICK new \in Image : new = Undone(r, p, mem[p])
      BY <2>2, <3>1, UndoneLemma
    <3>3. InLog(log', 1..n, p, mem[p])
      BY <2>2, <3>1, PageBefore
    <3>4. InLog(log', 1..n, p, new)
      BY <2>2, <3>1, <3>2, <3>3, InLogUndone
    <3>5. PICK e \in Nat, after \in Image : e = End(n) /\ after = SetLsn(new, e)
      BY <2>2, SetLsnLemma
    <3>6. after.lsn = e /\ InLog(log', 1..n, p, after) /\ mem'[p] = after
      BY <2>2, <3>2, <3>4, <3>5, InLogSetLsn, SetLsnLemma
    <3>7. PICK J : J = Covered(log', synced', after.lsn)
      OBVIOUS
    <3>8. 1..n \subseteq J
      <4>1. e = 2 * n /\ \A i \in 1..n : Inside(i) <= e
        BY <2>2, <3>5 DEF Inside, End
      <4> QED BY <2>1, <3>6, <3>7, <4>1 DEF Covered
    <3>9. InLog(log', J, p, after)
      BY <3>6, <3>8, InLogStays
    <3> QED BY <3>6, <3>7, <3>9
  <2>7. MemLogged'
    <3> SUFFICES ASSUME NEW p \in Page, Present(mem'[p])
                 PROVE  InLog(log', Covered(log', synced', mem'[p].lsn), p, mem'[p])
      BY DEF MemLogged
    <3> QED BY <2>2, <2>3, <2>6, PageStays
  <2> QED BY <1>2, <2>4, <2>5, <2>7 DEF LogInv
<1> QED BY <1>3, <1>4

LEMMA NextLogged == StorageInv /\ LogInv /\ [Next]_vars => LogInv'
<1> SUFFICES ASSUME StorageInv, LogInv, [Next]_vars PROVE LogInv'
  OBVIOUS
<1>1. CASE Begin
  BY <1>1, OtherLogged DEF Begin, walVars, pageVars, recVars, LogInv, DownSynced
<1>2. ASSUME NEW x \in Xid, NEW q \in Page, Insert(x, q)
      PROVE  LogInv'
  BY <1>2, InsertLogged
<1>3. ASSUME NEW x \in Xid, NEW q \in Page, NEW s \in Slot, HotUpdate(x, q, s)
      PROVE  LogInv'
  BY <1>3, HotUpdateLogged
<1>4. ASSUME NEW x \in Xid, NEW q \in Page, NEW s \in Slot, NEW p \in Page, Update(x, p, s, q)
      PROVE  LogInv'
  BY <1>4, UpdateLogged
<1>5. ASSUME NEW x \in Xid, Commit(x) \/ Rollback(x) \/ AbortLoser(x)
      PROVE  LogInv'
  BY <1>5, CommitLogged
<1>6. ASSUME NEW p \in Page, Evict(p)
      PROVE  LogInv'
  BY <1>6, EvictLogged
<1>7. CASE Checkpoint \/ Close \/ RecoveryEnds \/ Crash
  BY <1>7, CheckpointLogged, CloseLogged, CrashLogged
<1>8. CASE Redo \/ Undo
  BY <1>8, RedoLogged, UndoLogged
<1>9. CASE StartClean \/ Analyse \/ RedoEnds
  BY <1>9, OtherLogged
     DEF StartClean, Analyse, RedoEnds, walVars, pageVars, LogInv, DownSynced
<1>10. CASE UNCHANGED vars
  BY <1>10, OtherLogged DEF vars, walVars, pageVars, recVars, LogInv, DownSynced
<1> QED BY <1>1, <1>2, <1>3, <1>4, <1>5, <1>6, <1>7, <1>8, <1>9, <1>10 DEF Next

LEMMA LogInvariant == Spec => []LogInv
  BY StorageInvariant, InitLogged, NextLogged, PTL DEF Spec

\* In every reachable state, whatever image of a page a power failure may leave,
\* torn or as the file was extended with it, the log that it leaves has the
\* records of every row version and of every deletion in the image.
THEOREM WriteAheadRule == Spec => []WriteAhead
  BY LogInvariant, LogInvImplies, PTL

----------------------------------------------------------------------------
(***************************************************************************)
(* Transaction ids that stand in rows.  By the write-ahead rule each of    *)
(* them is in a record of the log, and of every id in the log recovery     *)
(* knows the end or undoes the work: it moves the counter past both.  Two  *)
(* circumstances are left out, a torn record, behind which there may be    *)
(* records that nothing reads, and a failure between a compensation and    *)
(* the ABORT record, after which the transaction counts as neither.        *)
(***************************************************************************)
AllRead == {"tornTail", "crashInUndo"} \cap Circumstances = {}

ActiveBelow   == \A x \in Active : x < nextXid
LoggedBelow   == \A i \in 1..Len(log) : log[i].xid # 0 =>
                    /\ phase = "up" \/ (phase = "down" /\ ~control.inProduction) =>
                          log[i].xid < nextXid
                    /\ phase \in {"redo", "undo"} => log[i].xid < nextXid \/ log[i].xid \in losers
NothingTorn   == \A i \in 1..Len(log) : log[i].type # "TORN"
InProduction  == phase # "down" => control.inProduction
NothingHalfUndone == phase = "down" /\ control.inProduction => HalfUndone(log) = {}

XidInv == ActiveBelow /\ LoggedBelow /\ NothingTorn /\ InProduction /\ NothingHalfUndone

LEMMA XidInvImplies == StorageInv /\ LogInv /\ XidInv => XidsUsedUp
<1> SUFFICES ASSUME StorageInv, LogInv, XidInv, phase = "up",
                    NEW p \in Page, NEW t \in TuplesOf(mem[p])
             PROVE  t.xmin < nextXid /\ t.xmax < nextXid
  BY DEF XidsUsedUp
<1>1. PICK s \in Slot : Present(mem[p]) /\ t = mem[p].tup[s] /\ t # Unused
  BY DEF TuplesOf
<1>2. mem[p] \in Image /\ t \in Tuple
  BY <1>1 DEF StorageInv, PagesOK, Images, Present, Image
<1>3. PICK I : I = Covered(log, synced, mem[p].lsn) /\ I \subseteq 1..Len(log)
  BY DEF Covered
<1>4. InLog(log, I, p, mem[p])
  BY <1>1, <1>3 DEF LogInv, MemLogged
<1>5. /\ \E i \in 1..Len(log) : log[i].xid = t.xmin
      /\ t.xmax # 0 => \E i \in 1..Len(log) : log[i].xid = t.xmax
  BY <1>1, <1>3, <1>4 DEF InLog, Writes, Deletes
<1>6. t.xmin \in Nat /\ t.xmin >= 1 /\ nextXid \in Nat
  BY <1>2, Constants DEF Tuple, StorageInv, TxOK
<1>7. t.xmin < nextXid
  BY <1>5, <1>6 DEF XidInv, LoggedBelow
<1>8. t.xmax # 0 => t.xmax < nextXid
  BY <1>5 DEF XidInv, LoggedBelow
<1> QED BY <1>6, <1>7, <1>8

LEMMA InitXids == Init => XidInv
<1> SUFFICES ASSUME Init PROVE XidInv
  OBVIOUS
<1>1. Len(log) = 0
  BY EmptySeq DEF Init
<1> QED BY <1>1 DEF Init, XidInv, ActiveBelow, LoggedBelow, NothingTorn, InProduction,
                   NothingHalfUndone, Active, Unset

\* While statements run, every new record is of a transaction that runs.
LEMMA UpXids ==
    ASSUME StorageInv, XidInv, phase = "up", phase' = "up", Prefix(log, log'),
           nextXid' \in Nat, nextXid <= nextXid', UNCHANGED control, Active' \subseteq Active,
           \A i \in Len(log)+1..Len(log') :
              log'[i].type # "TORN" /\ (log'[i].xid = 0 \/ log'[i].xid \in Active)
    PROVE  XidInv'
<1>1. Len(log) \in Nat /\ Len(log') \in Nat /\ log \in Seq(Record) /\ nextXid \in Nat
  BY LenProperties DEF StorageInv, WalOK, TxOK, Prefix
<1>2. \A x \in Xid : x < nextXid => x < nextXid'
  BY <1>1, Constants
<1>3. \A i \in 1..Len(log') : i \in 1..Len(log) \/ i \in Len(log)+1..Len(log')
  BY <1>1
<1>4. ASSUME NEW i \in 1..Len(log)
      PROVE  /\ log'[i].type # "TORN"
             /\ log'[i].xid # 0 => log'[i].xid < nextXid'
  <2>1. log'[i] = log[i] /\ log[i] \in Record
    BY <1>1, ElementOfSeq DEF Prefix
  <2>2. log[i].xid # 0 => log[i].xid \in Xid /\ log[i].xid < nextXid
    BY <2>1, RecordFields DEF XidInv, LoggedBelow
  <2> QED BY <1>2, <2>1, <2>2 DEF XidInv, NothingTorn
<1>5. ASSUME NEW i \in Len(log)+1..Len(log')
      PROVE  /\ log'[i].type # "TORN"
             /\ log'[i].xid # 0 => log'[i].xid < nextXid'
  BY <1>2 DEF XidInv, ActiveBelow, Active
<1>6. LoggedBelow' /\ NothingTorn'
  BY <1>3, <1>4, <1>5 DEF LoggedBelow, NothingTorn
<1>7. ActiveBelow'
  BY <1>2 DEF ActiveBelow, XidInv, Active
<1> QED BY <1>6, <1>7 DEF XidInv, InProduction, NothingHalfUndone

LEMMA InsertXids ==
    ASSUME StorageInv, XidInv, NEW x \in Xid, NEW q \in Page, Insert(x, q)
    PROVE  XidInv'
<1>1. MayWrite(x) /\ Takes(q) /\ UNCHANGED <<statusMap, nextXid, control, phase>>
      /\ nextXid \in Nat
  BY DEF Insert, txVars, recVars, StorageInv, TxOK
<1>2. phase = "up" /\ x \in Active /\ Active' = Active
  BY <1>1 DEF MayWrite, Active
<1>3. PICK c, t, n : c = NewCtid(q) /\ t = NewTuple(x) /\ n = Len(log')
  OBVIOUS
<1>4. /\ Prefix(log, log') /\ n \in Nat
      /\ log'[n] = InsertRecord(x, c, t)
      /\ \A i \in Len(log)+1..n-1 : Present(mem[q]) /\ log'[i] = ImageRecord(q, mem[q])
  BY <1>3, InsertEffect
<1>5. \A i \in Len(log)+1..Len(log') :
         log'[i].type # "TORN" /\ (log'[i].xid = 0 \/ log'[i].xid \in Active)
  <2> TAKE i \in Len(log)+1..Len(log')
  <2>1. CASE i = n
    BY <1>1, <1>2, <1>3, <1>4, <2>1, TargetLemma, NewTupleLemma, InsertRecordLemma
  <2>2. CASE i # n
    <3>1. i \in Len(log)+1..n-1
      BY <1>3, <1>4, <2>2, LenProperties DEF StorageInv, WalOK
    <3>2. mem[q] \in Image /\ log'[i] = ImageRecord(q, mem[q])
      BY <1>4, <3>1 DEF StorageInv, PagesOK, Images, Present
    <3> QED BY <3>2, ImageRecordLemma
  <2> QED BY <2>1, <2>2
<1> QED BY <1>1, <1>2, <1>4, <1>5, UpXids

LEMMA HotUpdateXids ==
    ASSUME StorageInv, XidInv, NEW x \in Xid, NEW p \in Page, NEW s \in Slot, HotUpdate(x, p, s)
    PROVE  XidInv'
<1>1. MayWrite(x) /\ Takes(p) /\ UNCHANGED <<statusMap, nextXid, control, phase>>
      /\ nextXid \in Nat /\ Present(mem[p]) /\ MayUpdate(x, mem[p].tup[s])
  BY DEF HotUpdate, Takes, HasRoom, txVars, recVars, StorageInv, TxOK
<1>2. phase = "up" /\ x \in Active /\ Active' = Active
  BY <1>1 DEF MayWrite, Active
<1>3. PICK o, c, t, n : o = [page |-> p, slot |-> s] /\ c = NewCtid(p) /\ t = NewTuple(x)
                        /\ n = Len(log')
  OBVIOUS
<1>4. /\ Prefix(log, log') /\ n \in Nat
      /\ log'[n] = UpdateRecord(x, o, c, t)
      /\ \A i \in Len(log)+1..n-1 : Present(mem[p]) /\ log'[i] = ImageRecord(p, mem[p])
  BY <1>3, HotUpdateEffect
<1>5. \A i \in Len(log)+1..Len(log') :
         log'[i].type # "TORN" /\ (log'[i].xid = 0 \/ log'[i].xid \in Active)
  <2> TAKE i \in Len(log)+1..Len(log')
  <2>1. CASE i = n
    BY <1>1, <1>2, <1>3, <1>4, <2>1, TargetLemma, OldVersionLemma, NewTupleLemma,
       UpdateRecordLemma
  <2>2. CASE i # n
    <3>1. i \in Len(log)+1..n-1
      BY <1>3, <1>4, <2>2, LenProperties DEF StorageInv, WalOK
    <3>2. mem[p] \in Image /\ log'[i] = ImageRecord(p, mem[p])
      BY <1>4, <3>1 DEF StorageInv, PagesOK, Images, Present
    <3> QED BY <3>2, ImageRecordLemma
  <2> QED BY <2>1, <2>2
<1> QED BY <1>1, <1>2, <1>4, <1>5, UpXids

LEMMA UpdateXids ==
    ASSUME StorageInv, XidInv, NEW x \in Xid, NEW p \in Page, NEW s \in Slot, NEW q \in Page,
           Update(x, p, s, q)
    PROVE  XidInv'
<1>1. MayWrite(x) /\ Takes(q) /\ UNCHANGED <<statusMap, nextXid, control, phase>>
      /\ nextXid \in Nat /\ Present(mem[p]) /\ MayUpdate(x, mem[p].tup[s])
  BY DEF Update, txVars, recVars, StorageInv, TxOK
<1>2. phase = "up" /\ x \in Active /\ Active' = Active
  BY <1>1 DEF MayWrite, Active
<1>3. PICK m \in Nat, n \in Nat, newq \in Image, newp \in Image :
         Moved(x, p, s, q, m, n, newq, newp)
  BY UpdateEffect
<1>4. PICK o, c, t : o = [page |-> p, slot |-> s] /\ c = NewCtid(q) /\ t = NewTuple(x)
  OBVIOUS
<1>5. /\ Prefix(log, log') /\ n = Len(log') /\ m > Len(log) /\ n > m
      /\ log'[m] = InsertRecord(x, c, t) /\ log'[n] = UpdateRecord(x, o, c, t)
      /\ \A i \in Len(log)+1..m-1 : Present(mem[q]) /\ log'[i] = ImageRecord(q, mem[q])
      /\ \A i \in m+1..n-1 : log'[i] = ImageRecord(p, mem[p])
  BY <1>3, <1>4 DEF Moved
<1>6. c \in Ctid /\ o \in Ctid /\ t \in Tuple /\ mem[p] \in Image
  BY <1>1, <1>4, TargetLemma, OldVersionLemma, NewTupleLemma
<1>7. \A i \in Len(log)+1..Len(log') :
         log'[i].type # "TORN" /\ (log'[i].xid = 0 \/ log'[i].xid \in Active)
  <2> TAKE i \in Len(log)+1..Len(log')
  <2>1. Len(log) \in Nat /\ i \in Nat
    BY LenProperties DEF StorageInv, WalOK
  <2>2. CASE i = n \/ i = m
    BY <1>2, <1>5, <1>6, <2>2, InsertRecordLemma, UpdateRecordLemma
  <2>3. CASE i < m
    <3>1. mem[q] \in Image /\ log'[i] = ImageRecord(q, mem[q])
      BY <1>3, <1>5, <2>1, <2>3 DEF StorageInv, PagesOK, Images, Present
    <3> QED BY <3>1, ImageRecordLemma
  <2>4. CASE i > m /\ i # n
    BY <1>3, <1>5, <1>6, <2>1, <2>4, ImageRecordLemma
  <2> QED BY <1>3, <2>1, <2>2, <2>3, <2>4
<1> QED BY <1>1, <1>2, <1>5, <1>7, UpXids

LEMMA BeginXids == StorageInv /\ XidInv /\ Begin => XidInv'
<1> SUFFICES ASSUME StorageInv, XidInv, Begin PROVE XidInv'
  OBVIOUS
<1>1. /\ UNCHANGED <<log, control, phase, losers>> /\ phase = "up"
      /\ nextXid \in Xid /\ nextXid' = nextXid + 1
      /\ statusMap' = [statusMap EXCEPT ![nextXid] = "IN_PROGRESS"]
  BY DEF Begin, walVars, recVars
<1>2. \A x \in Nat : x < nextXid => x < nextXid'
  BY <1>1, Constants
<1>3. ActiveBelow'
  <2> SUFFICES ASSUME NEW x \in Xid, statusMap'[x] = "IN_PROGRESS" PROVE x < nextXid'
    BY DEF ActiveBelow, Active
  <2>1. CASE x = nextXid
    BY <1>1, <2>1, Constants
  <2>2. CASE x # nextXid
    <3>1. statusMap[x] = "IN_PROGRESS"
      BY <1>1, <2>2 DEF StorageInv, TxOK
    <3> QED BY <1>2, <3>1, Constants DEF XidInv, ActiveBelow, Active
  <2> QED BY <2>1, <2>2
<1>4. LoggedBelow'
  <2> SUFFICES ASSUME NEW i \in 1..Len(log), log[i].xid # 0 PROVE log[i].xid < nextXid'
    BY <1>1 DEF LoggedBelow
  <2>1. log[i].xid < nextXid
    BY <1>1 DEF XidInv, LoggedBelow
  <2>2. log[i].xid \in Nat
    BY ElementOfSeq, RecordFields, Constants DEF StorageInv, WalOK
  <2> QED BY <1>2, <2>1, <2>2
<1> QED BY <1>1, <1>3, <1>4 DEF XidInv, NothingTorn, InProduction, NothingHalfUndone

\* A transaction that ends is no longer active, and the counter is past it.
LEMMA EndedXids ==
    ASSUME StorageInv, XidInv, NEW x \in Xid, NEW st \in {"COMMITTED", "ABORTED"},
           SetStatus(x, st)
    PROVE  /\ Active' \subseteq Active \ {x}
           /\ nextXid' \in Nat /\ nextXid <= nextXid' /\ x < nextXid'
<1>1. st \in Status /\ st # "IN_PROGRESS"
  BY DEF Status
<1>2. statusMap' = [statusMap EXCEPT ![x] = st]
  BY DEF SetStatus
<1>3. Active' \subseteq Active \ {x}
  BY <1>1, <1>2 DEF Active, StorageInv, TxOK
<1> QED BY <1>1, <1>3, SetStatusLemma DEF StorageInv, TxOK

LEMMA CommitXids ==
    ASSUME StorageInv, XidInv, NEW x \in Xid, Commit(x) \/ Rollback(x)
    PROVE  XidInv'
<1>1. x \in Active /\ phase = "up" /\ phase' = "up" /\ UNCHANGED <<control, imaged>>
  BY DEF Commit, Rollback, recVars
<1>2. PICK type \in {"COMMIT", "ABORT"} : Ends(x, type)
  BY DEF Commit, Rollback
<1>3. PICK st \in {"COMMITTED", "ABORTED"} : SetStatus(x, st)
  BY DEF Commit, Rollback
<1>4. /\ Active' \subseteq Active /\ nextXid' \in Nat /\ nextXid <= nextXid'
  BY <1>3, EndedXids
<1>5. /\ Prefix(log, log') /\ Len(log') = Len(log) + 1 /\ Len(log) \in Nat
      /\ log'[Len(log')] = TxRecord(type, x)
  BY <1>1, <1>2, EndsLemma DEF StorageInv, WalOK
<1>6. \A i \in Len(log)+1..Len(log') :
         log'[i].type # "TORN" /\ (log'[i].xid = 0 \/ log'[i].xid \in Active)
  <2> TAKE i \in Len(log)+1..Len(log')
  <2>1. i = Len(log')
    BY <1>5
  <2> QED BY <1>1, <1>5, <2>1, TxRecordLemma
<1> QED BY <1>1, <1>4, <1>5, <1>6, UpXids

LEMMA CheckpointXids == StorageInv /\ XidInv /\ Checkpoint => XidInv'
<1> SUFFICES ASSUME StorageInv, XidInv, Checkpoint PROVE XidInv'
  OBVIOUS
<1>1. /\ Prefix(log, log') /\ Len(log') = Len(log) + 1 /\ Len(log) \in Nat
      /\ log'[Len(log')] = TxRecord("CHECKPOINT", 0)
  BY CheckpointEffect
<1>2. /\ phase = "up" /\ phase' = "up" /\ UNCHANGED <<statusMap, nextXid, control>>
      /\ nextXid \in Nat
  BY DEF Checkpoint, recVars, StorageInv, TxOK
<1>3. \A i \in Len(log)+1..Len(log') :
         log'[i].type # "TORN" /\ (log'[i].xid = 0 \/ log'[i].xid \in Active)
  <2> TAKE i \in Len(log)+1..Len(log')
  <2>1. i = Len(log')
    BY <1>1
  <2> QED BY <1>1, <2>1, TxRecordLemma
<1>4. Active' = Active /\ nextXid' \in Nat /\ nextXid <= nextXid'
  BY <1>2 DEF Active
<1> QED BY <1>1, <1>2, <1>3, <1>4, UpXids

\* A shutdown saves the counter; a failure leaves it to recovery.
LEMMA CloseXids == StorageInv /\ XidInv /\ Close => XidInv'
<1> SUFFICES ASSUME StorageInv, XidInv, Close PROVE XidInv'
  OBVIOUS
<1>1. /\ UNCHANGED log /\ phase = "up" /\ phase' = "down"
      /\ control' = [nextXid |-> nextXid, inProduction |-> FALSE] /\ nextXid' = nextXid
      /\ statusMap' = [x \in Xid |-> Unset]
  BY DEF Close, MemoryLost
<1>2. Active' = {}
  BY <1>1 DEF Active, Unset
<1> QED BY <1>1, <1>2 DEF XidInv, ActiveBelow, LoggedBelow, NothingTorn, InProduction,
                         NothingHalfUndone

LEMMA CrashXids == AllRead /\ StorageInv /\ XidInv /\ Crash => XidInv'
<1> SUFFICES ASSUME AllRead, StorageInv, XidInv, Crash PROVE XidInv'
  OBVIOUS
<1>1. /\ phase # "down" /\ phase' = "down" /\ control' = control
      /\ statusMap' = [x \in Xid |-> Unset]
      /\ HalfUndone(log') = {}
  BY DEF Crash, MemoryLost, AllRead
<1>2. ActiveBelow'
  BY <1>1 DEF ActiveBelow, Active, Unset
<1>3. NothingTorn'
  <2>1. PICK n, e : Cut(n, e)
    BY CrashEffect
  <2>2. /\ n \in Nat /\ n <= Len(log) /\ Len(log) \in Nat /\ Len(log') = n + Len(e)
        /\ e \in Endings(n) /\ Len(e) \in 0..1
        /\ \A i \in 1..n : log'[i] = log[i]
        /\ \A i \in 1..Len(e) : log'[n + i] = e[i]
    BY <2>1, EndingLemma, LenProperties DEF Cut, StorageInv, WalOK
  <2> SUFFICES ASSUME NEW i \in 1..Len(log') PROVE log'[i].type # "TORN"
    BY DEF NothingTorn
  <2>3. CASE i \in 1..n
    BY <2>2, <2>3 DEF XidInv, NothingTorn
  <2>4. CASE i \notin 1..n
    <3>1. Len(e) = 1 /\ log'[i] = e[1]
      BY <2>2, <2>4
    <3>2. \E x \in Xid : e[1] = TxRecord("COMMIT", x)
      BY <2>2, <3>1, EndingLemma DEF Active, AllRead
    <3> QED BY <3>1, <3>2, TxRecordLemma
  <2> QED BY <2>3, <2>4
<1> QED BY <1>1, <1>2, <1>3 DEF XidInv, LoggedBelow, InProduction, NothingHalfUndone

\* Every id of the log is of a transaction that has ended, and the counter moves
\* past it, or of a loser.
LEMMA AnalyseXids == StorageInv /\ XidInv /\ Analyse => XidInv'
<1> SUFFICES ASSUME StorageInv, XidInv, Analyse PROVE XidInv'
  OBVIOUS
<1>1. /\ UNCHANGED <<log, control>> /\ phase = "down" /\ phase' = "redo" /\ control.inProduction
      /\ statusMap' = [x \in Xid |-> IF x \in Ended THEN Recorded(x) ELSE Unset]
      /\ nextXid' = Beyond(Ended)
      /\ losers' = {x \in Xid : Of(x, {"INSERT", "UPDATE"}) # {} /\ Of(x, {"CLR"}) = {}} \ Ended
  BY DEF Analyse, walVars
<1>2. log \in Seq(Record) /\ Len(log) \in Nat /\ Readable = Len(log)
  BY ReadableLemma, LenProperties DEF StorageInv, WalOK, XidInv, NothingTorn
<1>3. Active' = {}
  <2>1. \A x \in Xid : Recorded(x) # "IN_PROGRESS" /\ Unset # "IN_PROGRESS"
    BY DEF Recorded, Unset
  <2> QED BY <1>1, <2>1 DEF Active
<1>4. \A x \in Ended : x < nextXid'
  BY <1>1, BeyondLemma DEF Ended
<1>5. LoggedBelow'
  <2> SUFFICES ASSUME NEW i \in 1..Len(log), log[i].xid # 0
               PROVE  log[i].xid < nextXid' \/ log[i].xid \in losers'
    BY <1>1 DEF LoggedBelow
  <2>1. log[i] \in Record /\ i \in 1..Readable
    BY <1>2, ElementOfSeq
  <2>2. PICK x : x = log[i].xid
    OBVIOUS
  <2>3. x \in Xid /\ log[i].type \in {"INSERT", "UPDATE", "COMMIT", "ABORT", "CLR"}
    BY <2>1, <2>2, RecordFields
  <2>4. \A types : log[i].type \in types => Of(x, types) # {}
    BY <2>1, <2>2 DEF Of
  <2>5. CASE x \in Ended
    BY <1>4, <2>2, <2>5
  <2>6. CASE x \notin Ended
    <3>1. \A j \in 1..Len(log) : log[j].xid = x => log[j].type \notin {"COMMIT", "ABORT"}
      BY <1>2, <2>3, <2>6 DEF Ended, Of
    <3>2. Of(x, {"CLR"}) = {}
      <4> SUFFICES ASSUME NEW j \in 1..Len(log), log[j].xid = x, log[j].type = "CLR"
                   PROVE  FALSE
        BY <1>2 DEF Of
      <4>1. log[j] \in Record
        BY <1>2, ElementOfSeq
      <4>2. log[j] = TxRecord("CLR", x)
        BY <4>1 DEF Record, TxRecord
      <4>3. log[j] \in Range(log)
        BY <1>2 DEF Range
      <4>4. TxRecord("ABORT", x) \in Range(log)
        BY <1>1, <2>3, <4>2, <4>3 DEF XidInv, NothingHalfUndone, HalfUndone
      <4>5. PICK k \in 1..Len(log) : log[k] = TxRecord("ABORT", x)
        BY <1>2, <4>4 DEF Range
      <4> QED BY <2>3, <3>1, <4>5, TxRecordLemma
    <3>3. log[i].type \in {"INSERT", "UPDATE"}
      BY <2>2, <2>3, <2>4, <3>1, <3>2
    <3> QED BY <1>1, <2>2, <2>3, <2>4, <2>6, <3>2, <3>3
  <2> QED BY <2>5, <2>6
<1> QED BY <1>1, <1>3, <1>5 DEF XidInv, ActiveBelow, NothingTorn, InProduction, NothingHalfUndone

LEMMA UndoXids == StorageInv /\ XidInv /\ Undo => XidInv'
<1> SUFFICES ASSUME StorageInv, XidInv, Undo PROVE XidInv'
  OBVIOUS
<1>1. UNCHANGED <<statusMap, nextXid, control, phase, losers>> /\ phase = "undo"
  BY DEF Undo, txVars
<1>2. ActiveBelow' /\ InProduction' /\ NothingHalfUndone'
  BY <1>1 DEF XidInv, ActiveBelow, Active, InProduction, NothingHalfUndone
<1>3. CASE ~Compensates(log[at])
  BY <1>1, <1>2, <1>3 DEF Undo, XidInv, LoggedBelow, NothingTorn
<1>4. CASE Compensates(log[at])
  <2>1. PICK x : x = log[at].xid
    OBVIOUS
  <2>2. /\ Prefix(log, log') /\ Len(log') = Len(log) + 1 /\ Len(log) \in Nat
        /\ log'[Len(log')] = TxRecord("CLR", x) /\ x \in Xid /\ x \in losers
    BY <1>4, <2>1, UndoEffect DEF Compensates
  <2>3. ASSUME NEW i \in 1..Len(log')
        PROVE  /\ log'[i].type # "TORN"
               /\ log'[i].xid # 0 => log'[i].xid < nextXid \/ log'[i].xid \in losers
    <3>1. CASE i = Len(log')
      BY <2>2, <3>1, TxRecordLemma
    <3>2. CASE i # Len(log')
      <4>1. i \in 1..Len(log) /\ log'[i] = log[i]
        BY <2>2, <3>2 DEF Prefix
      <4> QED BY <1>1, <4>1 DEF XidInv, LoggedBelow, NothingTorn
    <3> QED BY <3>1, <3>2
  <2> QED BY <1>1, <1>2, <2>3 DEF XidInv, LoggedBelow, NothingTorn
<1> QED BY <1>3, <1>4

LEMMA AbortLoserXids ==
    ASSUME StorageInv, XidInv, NEW x \in Xid, AbortLoser(x)
    PROVE  XidInv'
<1>1. UNCHANGED <<imaged, control, phase>> /\ phase = "undo" /\ losers' = losers \ {x}
  BY DEF AbortLoser
<1>2. Active' \subseteq Active /\ nextXid' \in Nat /\ nextXid <= nextXid' /\ x < nextXid'
  BY EndedXids DEF AbortLoser
<1>3. /\ Prefix(log, log') /\ Len(log') = Len(log) + 1 /\ Len(log) \in Nat
      /\ log'[Len(log')] = TxRecord("ABORT", x)
  BY <1>1, EndsLemma DEF AbortLoser, StorageInv, WalOK
<1>4. \A y \in Xid : y < nextXid => y < nextXid'
  BY <1>2, Constants DEF StorageInv, TxOK
<1>5. ASSUME NEW i \in 1..Len(log')
      PROVE  /\ log'[i].type # "TORN"
             /\ log'[i].xid # 0 => log'[i].xid < nextXid' \/ log'[i].xid \in losers'
  <2>1. CASE i = Len(log')
    BY <1>2, <1>3, <2>1, TxRecordLemma
  <2>2. CASE i # Len(log')
    <3>1. i \in 1..Len(log) /\ log'[i] = log[i] /\ log[i] \in Record
      BY <1>3, <2>2, ElementOfSeq DEF Prefix, StorageInv, WalOK
    <3>2. /\ log[i].type # "TORN"
          /\ log[i].xid # 0 => log[i].xid \in Xid /\ (log[i].xid < nextXid \/ log[i].xid \in losers)
      BY <1>1, <3>1, RecordFields DEF XidInv, LoggedBelow, NothingTorn
    <3> QED BY <1>1, <1>2, <1>4, <3>1, <3>2
  <2> QED BY <2>1, <2>2
<1>6. ActiveBelow'
  BY <1>2, <1>4 DEF XidInv, ActiveBelow, Active
<1> QED BY <1>1, <1>5, <1>6 DEF XidInv, LoggedBelow, NothingTorn, InProduction, NothingHalfUndone

LEMMA NextXids == AllRead /\ StorageInv /\ XidInv /\ [Next]_vars => XidInv'
<1> SUFFICES ASSUME AllRead, StorageInv, XidInv, [Next]_vars PROVE XidInv'
  OBVIOUS
<1> USE DEF XidInv, ActiveBelow, Active, LoggedBelow, NothingTorn, InProduction, NothingHalfUndone
<1>1. CASE Begin
  BY <1>1, BeginXids
<1>2. ASSUME NEW x \in Xid, NEW q \in Page, Insert(x, q)
      PROVE  XidInv'
  BY <1>2, InsertXids
<1>3. ASSUME NEW x \in Xid, NEW q \in Page, NEW s \in Slot, HotUpdate(x, q, s)
      PROVE  XidInv'
  BY <1>3, HotUpdateXids
<1>4. ASSUME NEW x \in Xid, NEW q \in Page, NEW s \in Slot, NEW p \in Page, Update(x, p, s, q)
      PROVE  XidInv'
  BY <1>4, UpdateXids
<1>5. ASSUME NEW x \in Xid, Commit(x) \/ Rollback(x) \/ AbortLoser(x)
      PROVE  XidInv'
  BY <1>5, CommitXids, AbortLoserXids
<1>6. ASSUME NEW p \in Page, Evict(p)
      PROVE  XidInv'
  BY <1>6 DEF Evict, txVars, recVars
<1>7. CASE Checkpoint \/ Close \/ Crash
  BY <1>7, CheckpointXids, CloseXids, CrashXids
<1>8. CASE Analyse \/ Undo
  BY <1>8, AnalyseXids, UndoXids
<1>9. CASE StartClean
  BY <1>9 DEF StartClean, walVars
<1>10. CASE Redo \/ RedoEnds
  BY <1>10 DEF Redo, RedoEnds, walVars, txVars
<1>11. CASE RecoveryEnds
  BY <1>11 DEF RecoveryEnds
<1>12. CASE UNCHANGED vars
  BY <1>12 DEF vars, walVars, txVars, recVars
<1> QED BY <1>1, <1>2, <1>3, <1>4, <1>5, <1>6, <1>7, <1>8, <1>9, <1>10, <1>11, <1>12 DEF Next

\* If recovery reads all of the log, and no failure comes between a compensation
\* and its ABORT record, then in every reachable state in which statements run
\* every id in a row has been used up.
THEOREM IdsUsedUp ==
    ASSUME AllRead
    PROVE  Spec => []XidsUsedUp
<1>1. Init => XidInv
  BY InitXids
<1>2. StorageInv /\ XidInv /\ [Next]_vars => XidInv'
  BY NextXids
<1> QED BY <1>1, <1>2, StorageInvariant, LogInvariant, XidInvImplies, PTL DEF Spec

----------------------------------------------------------------------------
(* What the log of Recovery tells of the pages and of the rows, for any log    *)
(* and any image of a page: which changes an image shows, what a record's      *)
(* change, its replay and its undoing leave to be seen, and which rows are     *)
(* those of the committed transactions.                                        *)

(* What records say of pages. *)

Changes(r) == r.type \in {"INSERT", "UPDATE"}

\* The change is made to page p.  The new version of an UPDATE across pages is
\* not: the INSERT that goes before has put it there.
Alters(r, p) ==
    \/ r.type = "INSERT" /\ r.new.page = p
    \/ r.type = "UPDATE" /\ r.old.page = p

\* What record r did to page p is to be seen in the image img.
Shows(r, p, img) ==
    /\ r.new.page = p =>
         /\ img.tup[r.new.slot] # Unused
         /\ img.tup[r.new.slot].xmin = r.xid /\ img.tup[r.new.slot].data = r.tuple.data
    /\ r.type = "UPDATE" /\ r.old.page = p =>
         img.tup[r.old.slot] # Unused /\ img.tup[r.old.slot].xmax = r.xid

\* An image of page p which is no older than the first k records of lg, and shows
\* every change below its LSN, as far as transactions in X made it.
Held(lg, X, k, p, img) ==
    /\ \A i \in 1..k : Alters(lg[i], p) => Present(img) /\ Start(i) < img.lsn
    /\ Present(img) =>
         /\ \A i \in 1..Len(lg) :
               Alters(lg[i], p) /\ Start(i) < img.lsn /\ lg[i].xid \in X => Shows(lg[i], p, img)
         /\ p = 0 \/ \E i \in 1..Len(lg) : Alters(lg[i], p) /\ Start(i) < img.lsn

\* Redo of the records from lo to hi restores page p from an image.
Mended(lg, p, lo, hi) == \E i \in lo..hi : lg[i].type = "FPI" /\ lg[i].page = p

----------------------------------------------------------------------------
(* What the log may hold, by what goes before a record. *)

Before(lg, n, type, x) == \E i \in 1..n-1 : lg[i].type = type /\ lg[i].xid = x
Committed(lg) == {x \in Xid : Before(lg, Len(lg) + 1, "COMMIT", x)}
Aborted(lg)   == {x \in Xid : Before(lg, Len(lg) + 1, "ABORT", x)}

\* The slot of the new version has been free, or what was there is rolled back.
SlotWasFree(lg, n) == \A i \in 1..n-1 :
    /\ Changes(lg[i]) /\ lg[i].new = lg[n].new =>
         \/ lg[i].xid = lg[n].xid /\ lg[i].tuple.data = lg[n].tuple.data
         \/ Before(lg, n, "ABORT", lg[i].xid)
    /\ lg[i].type = "UPDATE" /\ lg[i].old = lg[n].new => Before(lg, n, "ABORT", lg[i].xid)

\* A version is written once, by the transaction it names.
DataIsNew(lg, n) ==
    /\ lg[n].tuple.xmin = lg[n].xid
    /\ \A i \in 1..n-1 :
          Changes(lg[i]) /\ lg[i].tuple.data = lg[n].tuple.data =>
              lg[i].new = lg[n].new /\ lg[i].xid = lg[n].xid

StillRuns(lg, n) == ~Before(lg, n, "COMMIT", lg[n].xid) /\ ~Before(lg, n, "ABORT", lg[n].xid)

\* The pages below have been written to before.
NoHoles(lg, n) == \A q \in Targets(lg[n]), p \in Page :
    0 < p /\ p < q => \E j \in 1..n-1 : Alters(lg[j], p)

\* Record k put in place the version that an update takes.
Supplies(lg, n, k) ==
    /\ Changes(lg[k]) /\ lg[k].new = lg[n].old
    /\ lg[k].xid = lg[n].xid \/ Before(lg, n, "COMMIT", lg[k].xid)

UpdateIsDue(lg, n) ==
    /\ lg[n].old # lg[n].new
    /\ \A i \in 1..n-1 : lg[i].type = "UPDATE" /\ lg[i].old = lg[n].old =>
          Before(lg, n, "ABORT", lg[i].xid)
    /\ \E k \in 1..n-1 : Supplies(lg, n, k) /\ Alters(lg[k], lg[n].old.page)
    /\ lg[n].old.page # lg[n].new.page =>
          \E m \in 1..n-1 : /\ lg[m].type = "INSERT" /\ lg[m].new = lg[n].new
                            /\ lg[m].xid = lg[n].xid /\ lg[m].tuple = lg[n].tuple

Allowed(lg, n) ==
    /\ Changes(lg[n]) => SlotWasFree(lg, n) /\ DataIsNew(lg, n) /\ NoHoles(lg, n)
    /\ lg[n].type = "UPDATE" => UpdateIsDue(lg, n)
    /\ Changes(lg[n]) \/ lg[n].type \in {"COMMIT", "ABORT"} => StillRuns(lg, n)

\* An image in the log is as good as all that goes before it.
ImageIsWhole(lg, X, n) == lg[n].type = "FPI" =>
    /\ lg[n].image.formatted /\ lg[n].image.lsn <= End(n - 1)
    /\ Held(lg, X, n - 1, lg[n].page, lg[n].image)

\* Since record lo, no page is changed before its image is logged, unless the
\* page is new.
ImageGoesFirst(lg, lo, i) == \A p \in Page : Alters(lg[i], p) =>
    \/ Mended(lg, p, lo, i - 1)
    \/ p # 0 /\ \A j \in 1..i-1 : ~Alters(lg[j], p)

----------------------------------------------------------------------------
(* The same is said of logs that begin alike. *)

Alike(lg, new, m) == \A i \in 1..m : new[i] = lg[i]

LEMMA AlikeBefore ==
    ASSUME NEW lg, NEW new, NEW m \in Nat, Alike(lg, new, m),
           NEW n \in Nat, n <= m + 1, NEW type, NEW x
    PROVE  Before(new, n, type, x) <=> Before(lg, n, type, x)
<1>1. \A i \in 1..n-1 : new[i] = lg[i]
  BY DEF Alike
<1> QED BY <1>1 DEF Before

LEMMA AlikeMended ==
    ASSUME NEW lg, NEW new, NEW m \in Nat, Alike(lg, new, m), NEW p,
           NEW lo \in Nat, lo >= 1, NEW hi \in Int, hi <= m, NEW h2 \in Int, hi <= h2,
           Mended(lg, p, lo, hi)
    PROVE  Mended(new, p, lo, h2)
<1>1. PICK i \in lo..hi : lg[i].type = "FPI" /\ lg[i].page = p
  BY DEF Mended
<1>2. i \in 1..m /\ i \in lo..h2
  OBVIOUS
<1>3. new[i] = lg[i]
  BY <1>2 DEF Alike
<1> QED BY <1>1, <1>2, <1>3 DEF Mended

LEMMA AlikeHeld ==
    ASSUME NEW lg, NEW new, NEW m \in Nat, Alike(lg, new, m),
           Len(lg) \in Nat, Len(new) \in Nat, m <= Len(lg), m <= Len(new),
           NEW X, NEW Y, \A i \in 1..m : lg[i].xid \in Y => lg[i].xid \in X,
           NEW k \in Int, k <= m, NEW p, NEW img,
           Present(img) => img.lsn \in Nat /\ img.lsn <= End(m),
           Held(lg, X, k, p, img)
    PROVE  Held(new, Y, k, p, img)
<1>1. \A i \in 1..k : new[i] = lg[i]
  BY DEF Alike
<1>2. \A i \in 1..k : Alters(new[i], p) => Present(img) /\ Start(i) < img.lsn
  BY <1>1 DEF Held
<1>3. ASSUME Present(img)
      PROVE  /\ \A i \in 1..Len(new) : Alters(new[i], p) /\ Start(i) < img.lsn /\ new[i].xid \in Y
                    => Shows(new[i], p, img)
             /\ p = 0 \/ \E i \in 1..Len(new) : Alters(new[i], p) /\ Start(i) < img.lsn
  <2>1. ASSUME NEW i \in Nat, i >= 1, Start(i) < img.lsn
        PROVE  i \in 1..m /\ new[i] = lg[i] /\ i \in 1..Len(lg) /\ i \in 1..Len(new)
    <3>1. i \in 1..m
      BY <1>3, <2>1 DEF Start, End
    <3> QED BY <3>1 DEF Alike
  <2>2. ASSUME NEW i \in 1..Len(new), Alters(new[i], p), Start(i) < img.lsn, new[i].xid \in Y
        PROVE  Shows(new[i], p, img)
    <3>1. i \in 1..m /\ new[i] = lg[i] /\ i \in 1..Len(lg)
      BY <2>1, <2>2
    <3> QED BY <1>3, <2>2, <3>1 DEF Held
  <2>3. ASSUME p # 0
        PROVE  \E i \in 1..Len(new) : Alters(new[i], p) /\ Start(i) < img.lsn
    <3>1. PICK i \in 1..Len(lg) : Alters(lg[i], p) /\ Start(i) < img.lsn
      BY <1>3, <2>3 DEF Held
    <3>2. new[i] = lg[i] /\ i \in 1..Len(new)
      BY <2>1, <3>1
    <3> QED BY <3>1, <3>2
  <2> QED BY <2>2, <2>3
<1> QED BY <1>2, <1>3 DEF Held

LEMMA AlikeAllowed ==
    ASSUME NEW lg, NEW new, NEW m \in Nat, Alike(lg, new, m), NEW n \in 1..m, Allowed(lg, n)
    PROVE  Allowed(new, n)
<1>1. n \in Nat /\ new[n] = lg[n] /\ \A i \in 1..n-1 : new[i] = lg[i]
  BY DEF Alike
<1>2. \A type, x : Before(new, n, type, x) <=> Before(lg, n, type, x)
  BY <1>1, AlikeBefore
<1>3. SlotWasFree(lg, n) => SlotWasFree(new, n)
  BY <1>1, <1>2 DEF SlotWasFree
<1>4. DataIsNew(lg, n) => DataIsNew(new, n)
  BY <1>1 DEF DataIsNew
<1>5. StillRuns(lg, n) => StillRuns(new, n)
  BY <1>1, <1>2 DEF StillRuns
<1>6. NoHoles(lg, n) => NoHoles(new, n)
  BY <1>1 DEF NoHoles
<1>7. UpdateIsDue(lg, n) => UpdateIsDue(new, n)
  <2> SUFFICES ASSUME UpdateIsDue(lg, n) PROVE UpdateIsDue(new, n)
    OBVIOUS
  <2>1. \E k \in 1..n-1 : Supplies(new, n, k) /\ Alters(new[k], new[n].old.page)
    <3>1. PICK k \in 1..n-1 : Supplies(lg, n, k) /\ Alters(lg[k], lg[n].old.page)
      BY DEF UpdateIsDue
    <3> QED BY <1>1, <1>2, <3>1 DEF Supplies
  <2>2. new[n].old.page # new[n].new.page =>
          \E j \in 1..n-1 : /\ new[j].type = "INSERT" /\ new[j].new = new[n].new
                            /\ new[j].xid = new[n].xid /\ new[j].tuple = new[n].tuple
    BY <1>1 DEF UpdateIsDue
  <2> QED BY <1>1, <1>2, <2>1, <2>2 DEF UpdateIsDue
<1> QED BY <1>1, <1>3, <1>4, <1>5, <1>6, <1>7 DEF Allowed

LEMMA AlikeImage ==
    ASSUME NEW lg, NEW new, NEW m \in Nat, Alike(lg, new, m),
           Len(lg) \in Nat, Len(new) \in Nat, m <= Len(lg), m <= Len(new),
           NEW X, NEW Y, \A i \in 1..m : lg[i].xid \in Y => lg[i].xid \in X,
           NEW n \in 1..m, lg[n] \in Record, ImageIsWhole(lg, X, n)
    PROVE  ImageIsWhole(new, Y, n)
<1> SUFFICES ASSUME new[n].type = "FPI"
             PROVE  /\ new[n].image.formatted /\ new[n].image.lsn <= End(n - 1)
                    /\ Held(new, Y, n - 1, new[n].page, new[n].image)
  BY DEF ImageIsWhole
<1>1. new[n] = lg[n]
  BY DEF Alike
<1>2. PICK img \in Image : img = lg[n].image
  BY <1>1, RecordFields
<1>3. img.formatted /\ img.lsn <= End(n - 1) /\ Held(lg, X, n - 1, lg[n].page, img)
  BY <1>1, <1>2 DEF ImageIsWhole
<1>4. img.lsn \in Nat /\ img.lsn <= End(m)
  BY <1>2, <1>3 DEF Image, End
<1>5. n - 1 \in Int /\ n - 1 <= m
  OBVIOUS
<1>6. Held(new, Y, n - 1, lg[n].page, img)
  BY <1>3, <1>4, <1>5, AlikeHeld
<1> QED BY <1>1, <1>2, <1>3, <1>6

LEMMA AlikeFirst ==
    ASSUME NEW lg, NEW new, NEW m \in Nat, Alike(lg, new, m), NEW n \in 1..m,
           NEW lo \in Nat, lo >= 1, ImageGoesFirst(lg, lo, n)
    PROVE  ImageGoesFirst(new, lo, n)
<1> SUFFICES ASSUME NEW p \in Page, Alters(new[n], p), ~Mended(new, p, lo, n - 1)
             PROVE  p # 0 /\ \A j \in 1..n-1 : ~Alters(new[j], p)
  BY DEF ImageGoesFirst
<1>1. new[n] = lg[n] /\ n - 1 \in Int /\ n - 1 <= m /\ \A j \in 1..n-1 : new[j] = lg[j]
  BY DEF Alike
<1>2. ~Mended(lg, p, lo, n - 1)
  BY <1>1, AlikeMended
<1> QED BY <1>1, <1>2 DEF ImageGoesFirst

----------------------------------------------------------------------------
(* Images of pages. *)

\* Records that leave the page alone need not be in its image.
LEMMA HeldFurther ==
    ASSUME NEW lg, NEW X, NEW k \in Nat, NEW n \in Nat, NEW p, NEW img, Held(lg, X, k, p, img),
           \A i \in k+1..n : ~Alters(lg[i], p)
    PROVE  Held(lg, X, n, p, img)
<1>1. \A i \in 1..n : i \in 1..k \/ i \in k+1..n
  OBVIOUS
<1> QED BY <1>1 DEF Held

\* The image img takes the place of an older one at the n-th record, the first
\* after the k-th that may be about page p.
LEMMA HeldChanged ==
    ASSUME NEW lg, NEW X, NEW k \in Nat, NEW p, NEW older, Held(lg, X, k, p, older),
           NEW n \in Nat, k < n, n <= Len(lg), Len(lg) \in Nat,
           \A i \in k+1..n-1 : ~Alters(lg[i], p),
           p = 0 \/ \E i \in 1..n : Alters(lg[i], p),
           NEW img \in Image, Start(n) < img.lsn, img.lsn <= End(n),
           \A i \in 1..k : Alters(lg[i], p) /\ lg[i].xid \in X /\ Present(older)
                           /\ Shows(lg[i], p, older) => Shows(lg[i], p, img),
           Alters(lg[n], p) /\ lg[n].xid \in X => Shows(lg[n], p, img)
    PROVE  Held(lg, X, n, p, img)
<1>1. Present(img) /\ img.lsn \in Nat
  BY NoTupleNoImage DEF Present, Image
<1>2. \A i \in 1..n : i \in 1..k \/ i \in k+1..n-1 \/ i = n
  OBVIOUS
<1>3. \A i \in 1..n : Start(i) < img.lsn
  BY <1>1 DEF Start
<1>4. \A i \in 1..Len(lg) : Start(i) < img.lsn => i \in 1..n
  BY <1>1 DEF Start, End
<1>5. ASSUME NEW i \in 1..Len(lg), Alters(lg[i], p), Start(i) < img.lsn, lg[i].xid \in X
      PROVE  Shows(lg[i], p, img)
  <2>1. i \in 1..k \/ i = n
    BY <1>2, <1>4, <1>5
  <2>2. CASE i \in 1..k
    <3>1. Present(older) /\ Start(i) < older.lsn
      BY <1>5, <2>2 DEF Held
    <3>2. Shows(lg[i], p, older)
      BY <1>5, <3>1 DEF Held
    <3> QED BY <1>5, <2>2, <3>1, <3>2
  <2> QED BY <1>5, <2>1, <2>2
<1>6. p = 0 \/ \E i \in 1..Len(lg) : Alters(lg[i], p) /\ Start(i) < img.lsn
  <2>1. \A i \in 1..n : i \in 1..Len(lg)
    OBVIOUS
  <2> QED BY <1>3, <2>1
<1> QED BY <1>1, <1>3, <1>5, <1>6 DEF Held

\* A page that redo has no image for is new, and is changed only once: it shows
\* all that is logged.
LEMMA HeldUnmended ==
    ASSUME NEW lg, NEW X, NEW lo \in Nat, lo >= 1, NEW n \in Nat, NEW p \in Page,
           NEW img \in Image, Held(lg, X, lo - 1, p, img),
           \A i \in lo..n : ImageGoesFirst(lg, lo, i),
           Len(lg) \in Nat, ~Mended(lg, p, lo, n)
    PROVE  Held(lg, X, n, p, img)
<1>1. Present(img) /\ img.lsn \in Nat
  BY NoTupleNoImage DEF Present, Image
<1>2. ASSUME NEW i \in lo..n, Alters(lg[i], p)
      PROVE  Start(i) < img.lsn
  <2>1. ~Mended(lg, p, lo, i - 1)
    <3>1. \A j \in lo..i-1 : j \in lo..n
      OBVIOUS
    <3> QED BY <3>1 DEF Mended
  <2>2. p # 0 /\ \A j \in 1..i-1 : ~Alters(lg[j], p)
    BY <1>2, <2>1 DEF ImageGoesFirst
  <2>3. PICK j \in 1..Len(lg) : Alters(lg[j], p) /\ Start(j) < img.lsn
    BY <1>1, <2>2 DEF Held
  <2>4. i <= j
    BY <2>2, <2>3
  <2> QED BY <1>1, <2>3, <2>4 DEF Start
<1>3. \A i \in 1..n : Alters(lg[i], p) => Start(i) < img.lsn
  <2>1. \A i \in 1..n : i \in 1..lo-1 \/ i \in lo..n
    OBVIOUS
  <2> QED BY <1>2, <2>1 DEF Held
<1> QED BY <1>1, <1>3 DEF Held

LEMMA HeldBack ==
    ASSUME NEW lg, NEW X, NEW k \in Int, NEW n \in Int, k <= n, NEW p, NEW img, Held(lg, X, n, p, img)
    PROVE  Held(lg, X, k, p, img)
<1>1. \A i \in 1..k : i \in 1..n
  OBVIOUS
<1> QED BY <1>1 DEF Held

\* A page torn between two images.
LEMMA HeldMixture ==
    ASSUME NEW lg \in Seq(Record), NEW X, NEW lo \in Nat, lo >= 1, NEW n \in Nat, NEW p \in Page,
           \A i \in lo..n : ImageGoesFirst(lg, lo, i), ~Mended(lg, p, lo, n),
           NEW a \in Image, NEW b \in Image, Held(lg, X, lo - 1, p, a), Held(lg, X, lo - 1, p, b),
           a.lsn <= End(n),
           NEW img \in Image, img.lsn = a.lsn,
           \A s \in Slot : img.tup[s] = a.tup[s] \/ img.tup[s] = b.tup[s]
    PROVE  Held(lg, X, lo - 1, p, img)
<1>1. Present(img) /\ Present(a) /\ Present(b) /\ img.lsn \in Nat /\ b.lsn \in Nat /\ Len(lg) \in Nat
  BY NoTupleNoImage, LenProperties DEF Present, Image
<1>2. Held(lg, X, n, p, b)
  BY <1>1, HeldUnmended
<1>3. ASSUME NEW i \in 1..Len(lg), Alters(lg[i], p), Start(i) < img.lsn, lg[i].xid \in X
      PROVE  Shows(lg[i], p, img)
  <2>1. i \in 1..n
    BY <1>1, <1>3 DEF Start, End
  <2>2. Shows(lg[i], p, a)
    BY <1>1, <1>3 DEF Held
  <2>3. Shows(lg[i], p, b)
    BY <1>1, <1>2, <1>3, <2>1 DEF Held
  <2>4. PICK r \in Record : r = lg[i]
    BY ElementOfSeq
  <2>5. r.type \in {"INSERT", "UPDATE"}
    BY <1>3, <2>4 DEF Alters
  <2>6. r.new.slot \in Slot /\ (r.type = "UPDATE" => r.old.slot \in Slot)
    BY <2>5, RecordFields DEF Ctid
  <2>7. Shows(r, p, img)
    BY <2>2, <2>3, <2>4, <2>6 DEF Shows
  <2> QED BY <2>4, <2>7
<1>4. \A i \in 1..lo-1 : Alters(lg[i], p) => Start(i) < img.lsn
  BY DEF Held
<1>5. p = 0 \/ \E i \in 1..Len(lg) : Alters(lg[i], p) /\ Start(i) < img.lsn
  BY <1>1 DEF Held
<1> QED BY <1>1, <1>3, <1>4, <1>5 DEF Held

\* A record says the same of two images that agree on the slots it is about.
LEMMA ShowsSame ==
    ASSUME NEW r, NEW p, NEW a, NEW b, Shows(r, p, a),
           r.new.page = p => b.tup[r.new.slot] = a.tup[r.new.slot],
           r.type = "UPDATE" /\ r.old.page = p => b.tup[r.old.slot] = a.tup[r.old.slot]
    PROVE  Shows(r, p, b)
  BY DEF Shows

\* The rules of the log, as replaying record n on page p needs them: what a
\* transaction in X wrote before is in other slots than those that it changes.
LEMMA ChangeApart ==
    ASSUME NEW lg, NEW n, Changes(lg[n]), Allowed(lg, n), NEW i \in 1..n-1, Changes(lg[i]),
           ~Before(lg, n, "ABORT", lg[i].xid)
    PROVE  /\ lg[i].new = lg[n].new =>
                lg[i].xid = lg[n].xid /\ lg[i].tuple.data = lg[n].tuple.data
           /\ lg[i].type = "UPDATE" => lg[i].old # lg[n].new
           /\ lg[i].type = "UPDATE" /\ lg[n].type = "UPDATE" => lg[i].old # lg[n].old
<1>1. SlotWasFree(lg, n) /\ (lg[n].type = "UPDATE" => UpdateIsDue(lg, n))
  BY DEF Allowed
<1>2. lg[n].type = "UPDATE" /\ lg[i].type = "UPDATE" => lg[i].old # lg[n].old
  BY <1>1 DEF UpdateIsDue
<1> QED BY <1>1, <1>2 DEF SlotWasFree

\* Two versions are in the same place if page and slot are.
LEMMA SameCtid ==
    ASSUME NEW c \in Ctid, NEW d \in Ctid, c.page = d.page, c.slot = d.slot
    PROVE  c = d
  BY DEF Ctid

\* What the change that r logs makes of the image of page p.
LEMMA ChangeEffect ==
    ASSUME NEW r \in Record, Changes(r), NEW p \in Page, NEW img \in Image, img.formatted
    PROVE  LET new == Change(r, p, img) IN
           /\ new \in Image /\ new.formatted
           /\ r.new.page = p => new.tup[r.new.slot] = r.tuple
           /\ \A s \in Slot :
                 /\ ~(r.new.page = p /\ r.new.slot = s) /\ img.tup[s] # Unused =>
                      new.tup[s] # Unused /\ new.tup[s].xmin = img.tup[s].xmin
                      /\ new.tup[s].data = img.tup[s].data
                 /\ ~(r.new.page = p /\ r.new.slot = s)
                    /\ ~(r.type = "UPDATE" /\ r.old.page = p /\ r.old.slot = s) =>
                      new.tup[s] = img.tup[s]
                 /\ ~(r.new.page = p /\ r.new.slot = s) /\ img.tup[s] # Unused
                    /\ r.type = "UPDATE" /\ r.old.page = p /\ r.old.slot = s =>
                      new.tup[s].xmax = r.xid
<1>1. /\ r.xid \in Xid \cup {0} /\ r.tuple \in Tuple /\ r.new.slot \in Slot
      /\ r.type = "UPDATE" => r.old.slot \in Slot
  BY RecordFields DEF Changes, Ctid
<1>2. PICK stamped : stamped = IF r.type = "UPDATE" /\ p = r.old.page
                               THEN StampXmax(img, r.old.slot, r.xid) ELSE img
  OBVIOUS
<1>3. /\ stamped \in Image /\ stamped.formatted
      /\ \A s \in Slot :
            /\ ~(r.type = "UPDATE" /\ r.old.page = p /\ r.old.slot = s) =>
                  stamped.tup[s] = img.tup[s]
            /\ img.tup[s] # Unused =>
                  stamped.tup[s] # Unused /\ stamped.tup[s].xmin = img.tup[s].xmin
                  /\ stamped.tup[s].data = img.tup[s].data
            /\ img.tup[s] # Unused /\ r.type = "UPDATE" /\ r.old.page = p /\ r.old.slot = s =>
                  stamped.tup[s].xmax = r.xid
  <2>1. CASE r.type = "UPDATE" /\ p = r.old.page
    <3>1. PICK o \in Slot, x \in Xid \cup {0} : o = r.old.slot /\ x = r.xid
      BY <1>1, <2>1
    <3>2. stamped = StampXmax(img, o, x)
      BY <1>2, <2>1, <3>1
    <3>3. stamped \in Image /\ stamped.formatted = img.formatted
      BY <3>1, <3>2, StampLemma
    <3>4. /\ \A s \in Slot : s # o \/ img.tup[s] = Unused => stamped.tup[s] = img.tup[s]
          /\ img.tup[o] # Unused =>
                /\ stamped.tup[o] # Unused /\ stamped.tup[o].xmax = x
                /\ stamped.tup[o].xmin = img.tup[o].xmin /\ stamped.tup[o].data = img.tup[o].data
      BY <3>1, <3>2, StampLemma
    <3> QED BY <2>1, <3>1, <3>3, <3>4
  <2>2. CASE ~(r.type = "UPDATE" /\ p = r.old.page)
    BY <1>2, <2>2
  <2> QED BY <2>1, <2>2
<1>4. CASE p = r.new.page
  <2>1. PICK c \in Slot, t \in Tuple : c = r.new.slot /\ t = r.tuple
    BY <1>1
  <2>2. PICK new : new = InsertTupleAt(stamped, c, t)
    OBVIOUS
  <2>3. Change(r, p, img) = new
    BY <1>2, <1>4, <2>1, <2>2 DEF Change
  <2>4. new \in Image /\ new.formatted = stamped.formatted
    BY <1>3, <2>1, <2>2, InsertLemma
  <2>5. \A s \in Slot : new.tup[s] = IF stamped.formatted /\ s = c THEN t ELSE stamped.tup[s]
    BY <1>3, <2>1, <2>2, InsertLemma
  <2> QED BY <1>3, <1>4, <2>1, <2>3, <2>4, <2>5
<1>5. CASE p # r.new.page
  <2>1. Change(r, p, img) = stamped
    BY <1>2, <1>5 DEF Change
  <2> QED BY <1>3, <1>5, <2>1
<1> QED BY <1>4, <1>5

\* What was shown before the n-th record, by transactions that count and have not
\* been rolled back, is shown when its change has been made.
LEMMA ChangeKeepsShown ==
    ASSUME NEW lg \in Seq(Record), NEW n \in 1..Len(lg), Changes(lg[n]), Allowed(lg, n),
           NEW p \in Page, NEW img \in Image, img.formatted,
           NEW i \in 1..n-1, Changes(lg[i]), ~Before(lg, n, "ABORT", lg[i].xid),
           Shows(lg[i], p, img)
    PROVE  Shows(lg[i], p, Change(lg[n], p, img))
<1>1. i \in 1..Len(lg)
  BY LenProperties
<1>2. PICK r \in Record, w \in Record : r = lg[n] /\ w = lg[i]
  BY <1>1, ElementOfSeq
<1>3. Changes(r) /\ Changes(w) /\ Shows(w, p, img)
  BY <1>2
<1>4. /\ w.new = r.new => w.xid = r.xid /\ w.tuple.data = r.tuple.data
      /\ w.type = "UPDATE" => w.old # r.new
      /\ w.type = "UPDATE" /\ r.type = "UPDATE" => w.old # r.old
  BY <1>2, ChangeApart
<1>5. /\ r.new \in Ctid /\ w.new \in Ctid /\ r.tuple \in Tuple
      /\ r.type = "UPDATE" => r.old \in Ctid
      /\ w.type = "UPDATE" => w.old \in Ctid
  BY <1>3, RecordFields DEF Changes
<1>6. r.tuple.xmin = r.xid
  BY <1>2 DEF Allowed, DataIsNew
<1>7. PICK new : new = Change(r, p, img)
  OBVIOUS
<1>8. /\ r.new.page = p => new.tup[r.new.slot] = r.tuple
      /\ \A s \in Slot :
            /\ ~(r.new.page = p /\ r.new.slot = s) /\ img.tup[s] # Unused =>
                 new.tup[s] # Unused /\ new.tup[s].xmin = img.tup[s].xmin
                 /\ new.tup[s].data = img.tup[s].data
            /\ ~(r.new.page = p /\ r.new.slot = s)
               /\ ~(r.type = "UPDATE" /\ r.old.page = p /\ r.old.slot = s) =>
                 new.tup[s] = img.tup[s]
  BY <1>3, <1>7, ChangeEffect
<1>9. ASSUME w.new.page = p
      PROVE  /\ new.tup[w.new.slot] # Unused
             /\ new.tup[w.new.slot].xmin = w.xid /\ new.tup[w.new.slot].data = w.tuple.data
  <2>1. w.new.slot \in Slot
    BY <1>5 DEF Ctid
  <2>2. CASE w.new = r.new
    BY <1>4, <1>5, <1>6, <1>8, <1>9, <2>2, NoTupleNoImage
  <2>3. CASE w.new # r.new
    <3>1. ~(r.new.page = p /\ r.new.slot = w.new.slot)
      BY <1>5, <1>9, <2>3, SameCtid
    <3>2. /\ img.tup[w.new.slot] # Unused
          /\ img.tup[w.new.slot].xmin = w.xid /\ img.tup[w.new.slot].data = w.tuple.data
      BY <1>3, <1>9 DEF Shows
    <3> QED BY <1>8, <2>1, <3>1, <3>2
  <2> QED BY <2>2, <2>3
<1>10. ASSUME w.type = "UPDATE", w.old.page = p
       PROVE  new.tup[w.old.slot] # Unused /\ new.tup[w.old.slot].xmax = w.xid
  <2>1. w.old.slot \in Slot /\ img.tup[w.old.slot] # Unused /\ img.tup[w.old.slot].xmax = w.xid
    BY <1>3, <1>5, <1>10 DEF Ctid, Shows
  <2>2. ~(r.new.page = p /\ r.new.slot = w.old.slot)
    BY <1>4, <1>5, <1>10, SameCtid
  <2>3. ~(r.type = "UPDATE" /\ r.old.page = p /\ r.old.slot = w.old.slot)
    BY <1>4, <1>5, <1>10, SameCtid
  <2> QED BY <1>8, <2>1, <2>2, <2>3
<1> QED BY <1>2, <1>7, <1>9, <1>10 DEF Shows

\* The change itself is shown, if what it starts from is.
LEMMA ChangeShown ==
    ASSUME NEW r \in Record, Changes(r), NEW p \in Page, NEW img \in Image, img.formatted,
           r.tuple.xmin = r.xid,
           r.type = "UPDATE" => r.old # r.new,
           r.type = "UPDATE" /\ r.old.page = p => img.tup[r.old.slot] # Unused
    PROVE  Shows(r, p, Change(r, p, img))
<1>1. /\ r.new \in Ctid /\ r.tuple \in Tuple /\ r.tuple # Unused
      /\ r.type = "UPDATE" => r.old \in Ctid
  BY RecordFields, NoTupleNoImage DEF Changes
<1>2. PICK new : new = Change(r, p, img)
  OBVIOUS
<1>3. /\ r.new.page = p => new.tup[r.new.slot] = r.tuple
      /\ \A s \in Slot :
            /\ ~(r.new.page = p /\ r.new.slot = s) /\ img.tup[s] # Unused =>
                 new.tup[s] # Unused
            /\ ~(r.new.page = p /\ r.new.slot = s) /\ img.tup[s] # Unused
               /\ r.type = "UPDATE" /\ r.old.page = p /\ r.old.slot = s =>
                 new.tup[s].xmax = r.xid
  BY <1>2, ChangeEffect
<1>4. ASSUME r.type = "UPDATE", r.old.page = p
      PROVE  new.tup[r.old.slot] # Unused /\ new.tup[r.old.slot].xmax = r.xid
  <2>1. r.old.slot \in Slot
    BY <1>1, <1>4 DEF Ctid
  <2>2. ~(r.new.page = p /\ r.new.slot = r.old.slot)
    BY <1>1, <1>4, SameCtid
  <2> QED BY <1>3, <1>4, <2>1, <2>2
<1> QED BY <1>1, <1>2, <1>3, <1>4 DEF Shows

\* A page that record n is about has been changed by then, if only by record n.
LEMMA TargetAltered ==
    ASSUME NEW lg \in Seq(Record), NEW n \in 1..Len(lg), Changes(lg[n]), Allowed(lg, n),
           NEW p \in Targets(lg[n])
    PROVE  \E i \in 1..n : Alters(lg[i], p)
<1>1. lg[n] \in Record /\ n \in Nat
  BY ElementOfSeq, LenProperties
<1>2. CASE Alters(lg[n], p)
  BY <1>1, <1>2
<1>3. CASE ~Alters(lg[n], p)
  <2>1. lg[n].type = "UPDATE" /\ lg[n].new.page = p /\ lg[n].old.page # p
    BY <1>1, <1>3, TargetsLemma DEF Changes, Alters
  <2>2. PICK m \in 1..n-1 : lg[m].type = "INSERT" /\ lg[m].new = lg[n].new
    BY <2>1 DEF Allowed, UpdateIsDue
  <2> QED BY <1>1, <2>1, <2>2 DEF Alters
<1> QED BY <1>2, <1>3

\* A page with the change of the n-th record is up to that record.
LEMMA ChangeHeld ==
    ASSUME NEW lg \in Seq(Record), NEW n \in 1..Len(lg), Changes(lg[n]), Allowed(lg, n),
           NEW p \in Page, p \in Targets(lg[n]),
           NEW X, \A x \in X : ~Before(lg, n, "ABORT", x),
           lg[n].xid \in X => \A x : Before(lg, n, "COMMIT", x) => x \in X,
           NEW k \in Nat, k < n, NEW older, Held(lg, X, k, p, older),
           \A i \in k+1..n-1 : ~Alters(lg[i], p),
           NEW img \in Image, img.formatted, Present(older) => img = older,
           NEW lsn \in Nat, Start(n) < lsn, lsn <= End(n)
    PROVE  Held(lg, X, n, p, SetLsn(Change(lg[n], p, img), lsn))
<1>1. PICK r \in Record : r = lg[n]
  BY ElementOfSeq
<1>2. Changes(r) /\ n \in Nat /\ Len(lg) \in Nat /\ n <= Len(lg)
  BY <1>1, LenProperties
<1>3. PICK c \in Image : c = Change(r, p, img)
  BY <1>2, ChangeEffect
<1>4. PICK new \in Image : new = SetLsn(c, lsn)
  BY SetLsnLemma
<1>5. new.lsn = lsn /\ new.tup = c.tup
  BY <1>4, SetLsnLemma
<1>6. p = 0 \/ \E i \in 1..n : Alters(lg[i], p)
  BY TargetAltered
<1>7. ASSUME NEW i \in 1..k, Alters(lg[i], p), lg[i].xid \in X, Present(older),
             Shows(lg[i], p, older)
      PROVE  Shows(lg[i], p, new)
  <2>1. i \in 1..n-1 /\ Changes(lg[i]) /\ ~Before(lg, n, "ABORT", lg[i].xid)
    BY <1>2, <1>7 DEF Alters, Changes
  <2>2. Shows(lg[i], p, c)
    BY <1>1, <1>3, <1>7, <2>1, ChangeKeepsShown
  <2> QED BY <1>5, <2>2 DEF Shows
<1>8. ASSUME Alters(lg[n], p), lg[n].xid \in X
      PROVE  Shows(lg[n], p, new)
  <2>1. r.tuple.xmin = r.xid /\ (r.type = "UPDATE" => r.old # r.new)
    BY <1>1, <1>2 DEF Allowed, DataIsNew, UpdateIsDue
  <2>2. ASSUME r.type = "UPDATE", r.old.page = p
        PROVE  img.tup[r.old.slot] # Unused
    <3>1. PICK j \in 1..n-1 : Supplies(lg, n, j) /\ Alters(lg[j], p)
      BY <1>1, <2>2 DEF Allowed, UpdateIsDue
    <3>2. j \in 1..k /\ j \in 1..Len(lg)
      BY <1>2, <3>1
    <3>3. lg[j].xid \in X /\ lg[j].new = r.old
      BY <1>1, <1>8, <3>1 DEF Supplies
    <3>4. Present(older) /\ Start(j) < older.lsn
      BY <3>1, <3>2 DEF Held
    <3>5. Shows(lg[j], p, older)
      BY <3>1, <3>2, <3>3, <3>4 DEF Held
    <3> QED BY <2>2, <3>3, <3>4, <3>5 DEF Shows
  <2>3. Shows(r, p, c)
    BY <1>2, <1>3, <2>1, <2>2, ChangeShown
  <2> QED BY <1>1, <1>5, <2>3 DEF Shows
<1>9. Held(lg, X, n, p, new)
  BY <1>2, <1>5, <1>6, <1>7, <1>8, HeldChanged
<1> QED BY <1>1, <1>3, <1>4, <1>9

\* So is a page restored from the image in the n-th record.
LEMMA ImageHeld ==
    ASSUME NEW lg \in Seq(Record), NEW n \in 1..Len(lg), lg[n].type = "FPI",
           NEW X, ImageIsWhole(lg, X, n)
    PROVE  Held(lg, X, n, lg[n].page, SetLsn(lg[n].image, End(n)))
<1>1. PICK p \in Page, img \in Image : p = lg[n].page /\ img = lg[n].image
  BY ElementOfSeq, RecordFields
<1>2. Held(lg, X, n - 1, p, img) /\ img.lsn <= End(n - 1)
  BY <1>1 DEF ImageIsWhole
<1>3. n \in Nat /\ n - 1 \in Nat /\ Len(lg) \in Nat /\ End(n) \in Nat /\ n <= Len(lg)
  BY LenProperties DEF End
<1>4. PICK new \in Image : new = SetLsn(img, End(n))
  BY <1>3, SetLsnLemma
<1>5. new.lsn = End(n) /\ new.tup = img.tup
  BY <1>3, <1>4, SetLsnLemma
<1>6. Start(n) < new.lsn /\ new.lsn <= End(n)
  BY <1>3, <1>5 DEF Start, End
<1>7. ~Alters(lg[n], p)
  BY DEF Alters
<1>8. Present(img) /\ img.lsn \in Nat
  BY NoTupleNoImage DEF Present, Image
<1>9. p = 0 \/ \E i \in 1..n : Alters(lg[i], p)
  <2>1. ASSUME p # 0
        PROVE  \E i \in 1..n : Alters(lg[i], p)
    <3>1. PICK i \in 1..Len(lg) : Alters(lg[i], p) /\ Start(i) < img.lsn
      BY <1>2, <1>8, <2>1 DEF Held
    <3>2. i \in 1..n
      BY <1>2, <1>3, <1>8, <3>1 DEF Start, End
    <3> QED BY <3>1, <3>2
  <2> QED BY <2>1
<1>10. \A i \in 1..n-1 : Shows(lg[i], p, img) => Shows(lg[i], p, new)
  BY <1>5 DEF Shows
<1>11. \A i \in (n-1)+1..n-1 : ~Alters(lg[i], p)
  BY <1>3
<1>12. Held(lg, X, n, p, new)
  BY <1>2, <1>3, <1>6, <1>7, <1>9, <1>10, <1>11, HeldChanged
<1> QED BY <1>1, <1>4, <1>12

----------------------------------------------------------------------------
(* What undo leaves of a page. *)

LEMMA UndoneEffect ==
    ASSUME NEW r \in Record, Changes(r), NEW p \in Page, NEW img \in Image
    PROVE  LET new == Undone(r, p, img) IN
           \A s \in Slot : ~(r.new.page = p /\ r.new.slot = s) =>
              /\ img.tup[s] # Unused =>
                   new.tup[s] # Unused /\ new.tup[s].xmin = img.tup[s].xmin
                   /\ new.tup[s].data = img.tup[s].data
              /\ ~(r.type = "UPDATE" /\ r.old.page = p /\ r.old.slot = s) =>
                   new.tup[s] = img.tup[s]
<1>1. r.new.slot \in Slot /\ (r.type = "UPDATE" => r.old.slot \in Slot)
  BY RecordFields DEF Changes, Ctid
<1>2. PICK restored : restored = IF r.type = "UPDATE" /\ p = r.old.page
                                 THEN StampXmax(img, r.old.slot, 0) ELSE img
  OBVIOUS
<1>3. /\ restored \in Image
      /\ \A s \in Slot :
            /\ img.tup[s] # Unused =>
                 restored.tup[s] # Unused /\ restored.tup[s].xmin = img.tup[s].xmin
                 /\ restored.tup[s].data = img.tup[s].data
            /\ ~(r.type = "UPDATE" /\ r.old.page = p /\ r.old.slot = s) =>
                 restored.tup[s] = img.tup[s]
  <2>1. CASE r.type = "UPDATE" /\ p = r.old.page
    <3>1. PICK o \in Slot : o = r.old.slot
      BY <1>1, <2>1
    <3>2. restored = StampXmax(img, o, 0)
      BY <1>2, <2>1, <3>1
    <3>3. /\ restored \in Image
          /\ \A s \in Slot : s # o \/ img.tup[s] = Unused => restored.tup[s] = img.tup[s]
          /\ img.tup[o] # Unused =>
                /\ restored.tup[o] # Unused
                /\ restored.tup[o].xmin = img.tup[o].xmin /\ restored.tup[o].data = img.tup[o].data
      BY <3>1, <3>2, StampLemma
    <3> QED BY <2>1, <3>1, <3>3
  <2>2. CASE ~(r.type = "UPDATE" /\ p = r.old.page)
    BY <1>2, <2>2
  <2> QED BY <2>1, <2>2
<1>4. CASE p = r.new.page
  <2>1. PICK c \in Slot : c = r.new.slot
    BY <1>1
  <2>2. PICK new : new = RemoveTuple(restored, c)
    OBVIOUS
  <2>3. Undone(r, p, img) = new
    BY <1>2, <1>4, <2>1, <2>2 DEF Undone
  <2>4. \A s \in Slot : new.tup[s] = IF s = c THEN Unused ELSE restored.tup[s]
    BY <1>3, <2>1, <2>2, RemoveLemma
  <2> QED BY <1>3, <1>4, <2>1, <2>3, <2>4
<1>5. CASE p # r.new.page
  <2>1. Undone(r, p, img) = restored
    BY <1>2, <1>5 DEF Undone
  <2> QED BY <1>3, <1>5, <2>1
<1> QED BY <1>4, <1>5

LEMMA BeforeLater ==
    ASSUME NEW lg, NEW n \in Nat, NEW m \in Nat, n <= m, NEW type, NEW x, Before(lg, n, type, x)
    PROVE  Before(lg, m, type, x)
<1>1. \A i \in 1..n-1 : i \in 1..m-1
  OBVIOUS
<1> QED BY <1>1 DEF Before

\* A loser's records are about other versions than the records of transactions
\* that have committed.
LEMMA LosersApart ==
    ASSUME NEW lg \in Seq(Record), \A n \in 1..Len(lg) : Allowed(lg, n), NEW X,
           \A x \in X : ~Before(lg, Len(lg) + 1, "ABORT", x),
           \A x : Before(lg, Len(lg) + 1, "COMMIT", x) => x \in X,
           NEW i \in 1..Len(lg), Changes(lg[i]), lg[i].xid \notin X,
           ~Before(lg, Len(lg) + 1, "ABORT", lg[i].xid),
           NEW j \in 1..Len(lg), Changes(lg[j]), lg[j].xid \in X
    PROVE  /\ lg[j].new # lg[i].new
           /\ lg[j].type = "UPDATE" => lg[j].old # lg[i].new
           /\ lg[j].type = "UPDATE" /\ lg[i].type = "UPDATE" => lg[j].old # lg[i].old
<1>1. Len(lg) \in Nat /\ i \in Nat /\ j \in Nat /\ i # j
  BY LenProperties
<1>2. ASSUME NEW a \in 1..Len(lg), NEW b \in 1..a-1, Before(lg, a, "ABORT", lg[b].xid)
      PROVE  lg[b].xid \notin X /\ lg[b].xid # lg[i].xid
  <2>1. Before(lg, Len(lg) + 1, "ABORT", lg[b].xid)
    BY <1>1, <1>2, BeforeLater
  <2> QED BY <2>1
\* Two versions in one place, of which one is the loser's.
<1>3. ASSUME NEW k \in 1..Len(lg), Changes(lg[k]), lg[k].xid \in X
      PROVE  lg[k].new # lg[i].new
  <2>1. CASE k < i
    <3>1. k \in 1..i-1 /\ SlotWasFree(lg, i)
      BY <1>1, <2>1 DEF Allowed
    <3> QED BY <1>2, <1>3, <3>1 DEF SlotWasFree
  <2>2. CASE i < k
    <3>1. i \in 1..k-1 /\ SlotWasFree(lg, k)
      BY <1>1, <1>3, <2>2 DEF Allowed
    <3> QED BY <1>2, <1>3, <3>1 DEF SlotWasFree
  <2>3. k # i
    BY <1>3
  <2> QED BY <1>1, <2>1, <2>2, <2>3
<1>4. ASSUME lg[j].type = "UPDATE"
      PROVE  lg[j].old # lg[i].new
  <2>1. CASE j < i
    <3>1. j \in 1..i-1 /\ SlotWasFree(lg, i)
      BY <1>1, <2>1 DEF Allowed
    <3> QED BY <1>2, <1>4, <3>1 DEF SlotWasFree
  <2>2. CASE i < j
    <3>1. PICK k \in 1..j-1 : Supplies(lg, j, k)
      BY <1>4 DEF Allowed, UpdateIsDue
    <3>2. k \in 1..Len(lg) /\ Changes(lg[k]) /\ lg[k].new = lg[j].old
      BY <1>1, <3>1 DEF Supplies
    <3>3. lg[k].xid \in X
      <4>1. CASE lg[k].xid = lg[j].xid
        BY <4>1
      <4>2. CASE Before(lg, j, "COMMIT", lg[k].xid)
        <5>1. Before(lg, Len(lg) + 1, "COMMIT", lg[k].xid)
          BY <1>1, <4>2, BeforeLater
        <5> QED BY <5>1
      <4> QED BY <3>1, <4>1, <4>2 DEF Supplies
    <3> QED BY <1>3, <3>2, <3>3
  <2> QED BY <1>1, <2>1, <2>2
<1>5. ASSUME lg[j].type = "UPDATE", lg[i].type = "UPDATE"
      PROVE  lg[j].old # lg[i].old
  <2>1. CASE j < i
    <3>1. j \in 1..i-1 /\ UpdateIsDue(lg, i)
      BY <1>1, <1>5, <2>1 DEF Allowed
    <3> QED BY <1>2, <1>5, <3>1 DEF UpdateIsDue
  <2>2. CASE i < j
    <3>1. i \in 1..j-1 /\ UpdateIsDue(lg, j)
      BY <1>1, <1>5, <2>2 DEF Allowed
    <3> QED BY <1>2, <1>5, <3>1 DEF UpdateIsDue
  <2> QED BY <1>1, <2>1, <2>2
<1> QED BY <1>3, <1>4, <1>5

\* A page of which a loser's record has been taken back, at the log's next record.
LEMMA UndoneHeld ==
    ASSUME NEW lg \in Seq(Record), \A n \in 1..Len(lg) : Allowed(lg, n), NEW X,
           \A x \in X : ~Before(lg, Len(lg) + 1, "ABORT", x),
           \A x : Before(lg, Len(lg) + 1, "COMMIT", x) => x \in X,
           NEW i \in 1..Len(lg), Changes(lg[i]), lg[i].xid \notin X,
           ~Before(lg, Len(lg) + 1, "ABORT", lg[i].xid),
           NEW p \in Page, p \in Targets(lg[i]),
           NEW img \in Image, Held(lg, X, Len(lg), p, img), img.lsn <= End(Len(lg)),
           NEW new \in Seq(Record), Alike(lg, new, Len(lg)), Len(new) = Len(lg) + 1,
           ~Changes(new[Len(new)])
    PROVE  Held(new, X, Len(new), p, SetLsn(Undone(lg[i], p, img), End(Len(new))))
<1>1. PICK m \in Nat, n \in Nat : m = Len(lg) /\ n = Len(new) /\ n = m + 1
  BY LenProperties
<1>2. Held(new, X, m, p, img)
  BY <1>1, AlikeHeld DEF Image
<1>3. PICK r \in Record : r = lg[i]
  BY ElementOfSeq
<1>4. PICK u \in Image : u = Undone(r, p, img)
  BY <1>3, UndoneLemma DEF Changes
<1>5. End(n) \in Nat
  BY <1>1 DEF End
<1>6. PICK after \in Image : after = SetLsn(u, End(n))
  BY <1>5, SetLsnLemma
<1>7. after.lsn = End(n) /\ after.tup = u.tup
  BY <1>5, <1>6, SetLsnLemma
<1>8. ASSUME NEW j \in 1..m, Alters(lg[j], p), lg[j].xid \in X, Shows(lg[j], p, img)
      PROVE  Shows(lg[j], p, after)
  <2>1. PICK w \in Record : w = lg[j]
    BY <1>1, ElementOfSeq
  <2>2. Changes(w) /\ Shows(w, p, img)
    BY <1>8, <2>1 DEF Alters, Changes
  <2>3. /\ w.new # r.new
        /\ w.type = "UPDATE" => w.old # r.new
        /\ w.type = "UPDATE" /\ r.type = "UPDATE" => w.old # r.old
    BY <1>1, <1>3, <1>8, <2>1, <2>2, LosersApart
  <2>4. /\ r.new \in Ctid /\ w.new \in Ctid
        /\ r.type = "UPDATE" => r.old \in Ctid
        /\ w.type = "UPDATE" => w.old \in Ctid
    BY <1>3, <2>2, RecordFields DEF Changes
  <2>5. \A s \in Slot : ~(r.new.page = p /\ r.new.slot = s) =>
           /\ img.tup[s] # Unused =>
                u.tup[s] # Unused /\ u.tup[s].xmin = img.tup[s].xmin
                /\ u.tup[s].data = img.tup[s].data
           /\ ~(r.type = "UPDATE" /\ r.old.page = p /\ r.old.slot = s) =>
                u.tup[s] = img.tup[s]
    BY <1>3, <1>4, UndoneEffect
  <2>6. ASSUME w.new.page = p
        PROVE  /\ u.tup[w.new.slot] # Unused
               /\ u.tup[w.new.slot].xmin = w.xid /\ u.tup[w.new.slot].data = w.tuple.data
    <3>1. w.new.slot \in Slot
      BY <2>4 DEF Ctid
    <3>2. ~(r.new.page = p /\ r.new.slot = w.new.slot)
      BY <2>3, <2>4, <2>6, SameCtid
    <3>3. /\ img.tup[w.new.slot] # Unused
          /\ img.tup[w.new.slot].xmin = w.xid /\ img.tup[w.new.slot].data = w.tuple.data
      BY <2>2, <2>6 DEF Shows
    <3> QED BY <2>5, <3>1, <3>2, <3>3
  <2>7. ASSUME w.type = "UPDATE", w.old.page = p
        PROVE  u.tup[w.old.slot] # Unused /\ u.tup[w.old.slot].xmax = w.xid
    <3>1. w.old.slot \in Slot /\ img.tup[w.old.slot] # Unused /\ img.tup[w.old.slot].xmax = w.xid
      BY <2>2, <2>4, <2>7 DEF Ctid, Shows
    <3>2. ~(r.new.page = p /\ r.new.slot = w.old.slot)
      BY <2>3, <2>4, <2>7, SameCtid
    <3>3. ~(r.type = "UPDATE" /\ r.old.page = p /\ r.old.slot = w.old.slot)
      BY <2>3, <2>4, <2>7, SameCtid
    <3> QED BY <2>5, <3>1, <3>2, <3>3
  <2> QED BY <1>7, <2>1, <2>6, <2>7 DEF Shows
<1>9. \A j \in 1..m : new[j] = lg[j]
  BY <1>1 DEF Alike
<1>10. p = 0 \/ \E j \in 1..n : Alters(new[j], p)
  <2>1. Allowed(lg, i)
    OBVIOUS
  <2>2. PICK j \in 1..i : Alters(lg[j], p)
    BY <2>1, TargetAltered
  <2>3. j \in 1..m /\ j \in 1..n
    BY <1>1
  <2> QED BY <1>9, <2>2, <2>3
<1>11. ~Alters(new[n], p)
  BY <1>1 DEF Alters, Changes
<1>12. /\ Start(n) < after.lsn /\ after.lsn <= End(n)
       /\ \A j \in m+1..n-1 : ~Alters(new[j], p)
  BY <1>1, <1>5, <1>7 DEF Start, End
<1>13. \A j \in 1..m : Alters(new[j], p) /\ new[j].xid \in X /\ Present(img)
                       /\ Shows(new[j], p, img) => Shows(new[j], p, after)
  BY <1>8, <1>9
<1>14. Held(new, X, n, p, after)
  BY <1>1, <1>2, <1>10, <1>11, <1>12, <1>13, HeldChanged
<1> QED BY <1>1, <1>3, <1>4, <1>6, <1>14

----------------------------------------------------------------------------
(* A log in order, and what is known of an image of a page. *)

\* By the rules of the log, its images are whole and go before the changes since
\* record lo, and those of the pages in P are logged.
Orderly(lg, X, lo, P) ==
    /\ \A n \in 1..Len(lg) : Allowed(lg, n) /\ ImageIsWhole(lg, X, n)
    /\ \A n \in lo..Len(lg) : ImageGoesFirst(lg, lo, n)
    /\ \A p \in P : Mended(lg, p, lo, Len(lg))

\* The image is up to record k, or will be restored by one of those up to n.
Known(lg, X, k, n, p, img) ==
    /\ p = 0 => Present(img)
    /\ Present(img) => img.formatted /\ img.lsn <= End(n)
    /\ Mended(lg, p, k + 1, n) \/ Held(lg, X, k, p, img)

\* Of the records that two logs share, those in the one that count in Y count in
\* the other in X.
Fewer(lg, m, X, Y) == \A i \in 1..m : lg[i].xid \in Y => lg[i].xid \in X

LEMMA OrderlyStays ==
    ASSUME NEW lg \in Seq(Record), NEW new \in Seq(Record), NEW m \in Nat, Alike(lg, new, m),
           m <= Len(lg), m <= Len(new), NEW X, NEW Y, Fewer(lg, m, X, Y),
           NEW lo \in Nat, lo >= 1, NEW P, NEW Q, Orderly(lg, X, lo, P),
           \A n \in m+1..Len(new) : Allowed(new, n) /\ ImageIsWhole(new, Y, n),
           \A n \in m+1..Len(new) : ImageGoesFirst(new, lo, n),
           \A p \in Q : (p \in P /\ m = Len(lg)) \/ Mended(new, p, lo, Len(new))
    PROVE  Orderly(new, Y, lo, Q)
<1>1. Len(lg) \in Nat /\ Len(new) \in Nat
  BY LenProperties
<1>2. \A n \in 1..Len(new) : n \in 1..m \/ n \in m+1..Len(new)
  OBVIOUS
<1>3. ASSUME NEW n \in 1..m
      PROVE  Allowed(new, n) /\ ImageIsWhole(new, Y, n)
  <2>1. Allowed(lg, n) /\ ImageIsWhole(lg, X, n) /\ lg[n] \in Record
    BY <1>1, ElementOfSeq DEF Orderly
  <2>2. Allowed(new, n)
    BY <2>1, AlikeAllowed
  <2>3. \A i \in 1..m : lg[i].xid \in Y => lg[i].xid \in X
    BY DEF Fewer
  <2>4. ImageIsWhole(new, Y, n)
    BY <1>1, <2>1, <2>3, AlikeImage
  <2> QED BY <2>2, <2>4
<1>4. ASSUME NEW n \in lo..Len(new)
      PROVE  ImageGoesFirst(new, lo, n)
  <2>1. n \in 1..m \/ n \in m+1..Len(new)
    BY <1>1
  <2>2. CASE n \in 1..m
    <3>1. ImageGoesFirst(lg, lo, n)
      BY <1>1, <2>2 DEF Orderly
    <3> QED BY <2>2, <3>1, AlikeFirst
  <2> QED BY <2>1, <2>2
<1>5. ASSUME NEW p \in Q
      PROVE  Mended(new, p, lo, Len(new))
  <2>1. CASE p \in P /\ m = Len(lg)
    <3>1. Mended(lg, p, lo, m)
      BY <2>1 DEF Orderly
    <3> QED BY <1>1, <3>1, AlikeMended
  <2> QED BY <2>1
<1> QED BY <1>2, <1>3, <1>4, <1>5 DEF Orderly

LEMMA KnownStays ==
    ASSUME NEW lg \in Seq(Record), NEW new \in Seq(Record), NEW m \in Nat, Alike(lg, new, m),
           m <= Len(lg), m <= Len(new), NEW X, NEW Y, Fewer(lg, m, X, Y),
           NEW k \in Nat, k <= m, NEW n \in Nat, n <= m, NEW n2 \in Nat, n <= n2,
           NEW p, NEW img \in Images, Known(lg, X, k, n, p, img)
    PROVE  Known(new, Y, k, n2, p, img)
<1>1. Len(lg) \in Nat /\ Len(new) \in Nat /\ (Present(img) => img.lsn \in Nat)
  BY LenProperties DEF Images, Image, Present
<1>2. Present(img) => img.formatted /\ img.lsn <= End(n2) /\ img.lsn <= End(m)
  BY <1>1 DEF Known, End
<1>3. Mended(new, p, k + 1, n2) \/ Held(new, Y, k, p, img)
  <2>1. CASE Mended(lg, p, k + 1, n)
    <3>1. k + 1 \in Nat /\ k + 1 >= 1
      OBVIOUS
    <3> QED BY <2>1, <3>1, AlikeMended
  <2>2. CASE Held(lg, X, k, p, img)
    <3>1. \A i \in 1..m : lg[i].xid \in Y => lg[i].xid \in X
      BY DEF Fewer
    <3>2. Present(img) => img.lsn \in Nat /\ img.lsn <= End(m)
      BY <1>1, <1>2
    <3>3. Held(new, Y, k, p, img)
      BY <1>1, <2>2, <3>1, <3>2, AlikeHeld
    <3> QED BY <3>3
  <2> QED BY <2>1, <2>2 DEF Known
<1> QED BY <1>2, <1>3 DEF Known

LEMMA KnownBack ==
    ASSUME NEW lg, NEW X, NEW k \in Nat, NEW j \in Nat, j <= k, NEW n, NEW p, NEW img,
           Known(lg, X, k, n, p, img)
    PROVE  Known(lg, X, j, n, p, img)
<1>1. Mended(lg, p, k + 1, n) => Mended(lg, p, j + 1, n)
  BY DEF Mended
<1>2. Held(lg, X, k, p, img) => Held(lg, X, j, p, img)
  BY HeldBack
<1> QED BY <1>1, <1>2 DEF Known

\* With no record left to restore the page, it is up to the last.
LEMMA KnownIsHeld ==
    ASSUME NEW lg, NEW X, NEW n \in Nat, NEW p, NEW img, Known(lg, X, n, n, p, img)
    PROVE  Held(lg, X, n, p, img)
  BY DEF Known, Mended

LEMMA HeldIsKnown ==
    ASSUME NEW lg, NEW X, NEW k \in Nat, NEW n \in Nat, NEW p, NEW img, Held(lg, X, k, p, img),
           p = 0 => Present(img),
           Present(img) => img.formatted /\ img.lsn <= End(n),
           NEW k2 \in Nat, k <= k2, \A i \in k+1..k2 : ~Alters(lg[i], p)
    PROVE  Known(lg, X, k2, n, p, img)
  BY HeldFurther DEF Known

\* The transactions in X are those that count when the n-th record is logged.
Counting(lg, n, X) ==
    /\ \A x \in X : ~Before(lg, n, "ABORT", x)
    /\ \A x : Before(lg, n, "COMMIT", x) => x \in X

\* The n-th record is about page p alone, and goes behind the page's image.
Logs(lg, lo, k, n, p, older) ==
    /\ \A q : Alters(lg[n], q) <=> q = p
    /\ \A i \in k+1..n-1 : Present(older) /\ lg[i] = ImageRecord(p, older)
    /\ Present(older) => Mended(lg, p, lo, n - 1)

\* With the change made, page p is new, and the log is in order up to that record.
Made(lg, X, lo, k, n, p, new) ==
    /\ \A i \in k+1..n : ImageIsWhole(lg, X, i) /\ ImageGoesFirst(lg, lo, i)
    /\ Known(lg, X, n, n, p, new)
    /\ \A q : \A other \in Images :
          q # p /\ Known(lg, X, k, k, q, other) => Known(lg, X, n, n, q, other)

\* A statement's change of page p, logged by record n behind the image of the page,
\* if it is due; the first k records and the pages at that time are in order.
LEMMA ChangeStep ==
    ASSUME NEW lg \in Seq(Record), NEW n \in 1..Len(lg), Changes(lg[n]), Allowed(lg, n),
           NEW X, Counting(lg, n, X), NEW k \in Nat, k < n, NEW p \in Page,
           NEW older \in Images, Known(lg, X, k, k, p, older),
           NEW lo \in Nat, Logs(lg, lo, k, n, p, older),
           NEW img \in Image, img.formatted, Present(older) => img = older,
           NEW lsn \in Nat, Start(n) < lsn, lsn <= End(n)
    PROVE  Made(lg, X, lo, k, n, p, SetLsn(Change(lg[n], p, img), lsn))
<1> USE DEF Counting, Logs
<1>1. lg[n] \in Record /\ n \in Nat /\ n - 1 \in Nat
  BY ElementOfSeq, LenProperties
<1>2. p \in Targets(lg[n])
  <2>1. Alters(lg[n], p)
    OBVIOUS
  <2> QED BY <1>1, <2>1, TargetsLemma DEF Alters
<1>3. \A i \in k+1..n-1 : /\ older \in Image /\ lg[i].type = "FPI" /\ lg[i].page = p
                          /\ lg[i].image = older /\ \A q : ~Alters(lg[i], q)
  BY ImageRecordLemma DEF Images, Present, Alters
<1>4. Held(lg, X, k, p, older)
  BY KnownIsHeld
<1>5. ASSUME NEW i \in k+1..n
      PROVE  ImageIsWhole(lg, X, i)
  <2>1. CASE i = n
    BY <2>1 DEF ImageIsWhole, Changes
  <2>2. CASE i # n
    <3>1. i \in k+1..n-1 /\ i - 1 \in Nat /\ k <= i - 1 /\ \A j \in k+1..i-1 : j \in k+1..n-1
      BY <1>1, <2>2
    <3>2. Held(lg, X, i - 1, p, older)
      BY <1>3, <1>4, <3>1, HeldFurther
    <3>3. older.formatted /\ older.lsn <= End(i - 1)
      <4>1. older.formatted /\ older.lsn <= End(k) /\ older.lsn \in Nat
        BY <1>3, <3>1 DEF Known, Image
      <4> QED BY <3>1, <4>1 DEF End
    <3> QED BY <1>3, <3>1, <3>2, <3>3 DEF ImageIsWhole
  <2> QED BY <2>1, <2>2
<1>6. ASSUME NEW i \in k+1..n
      PROVE  ImageGoesFirst(lg, lo, i)
  <2> SUFFICES ASSUME NEW q \in Page, Alters(lg[i], q)
               PROVE  \/ Mended(lg, q, lo, i - 1)
                      \/ q # 0 /\ \A j \in 1..i-1 : ~Alters(lg[j], q)
    BY DEF ImageGoesFirst
  <2>1. i = n /\ q = p
    <3>1. i = n \/ i \in k+1..n-1
      BY <1>1
    <3> QED BY <1>3, <3>1
  <2>2. CASE Present(older)
    BY <2>1, <2>2
  <2>3. CASE ~Present(older)
    <3>1. q # 0 /\ \A j \in 1..k : ~Alters(lg[j], q)
      BY <1>4, <2>1, <2>3 DEF Known, Held
    <3>2. \A j \in 1..i-1 : j \in 1..k \/ j \in k+1..n-1
      BY <1>1, <2>1
    <3> QED BY <1>3, <3>1, <3>2
  <2> QED BY <2>2, <2>3
<1>7. Known(lg, X, n, n, p, SetLsn(Change(lg[n], p, img), lsn))
  <2>1. PICK c \in Image : c = Change(lg[n], p, img) /\ c.formatted
    BY <1>1, ChangeEffect
  <2>2. PICK new \in Image : new = SetLsn(c, lsn) /\ new.lsn = lsn /\ new.formatted
    BY <2>1, SetLsnLemma
  <2>3. Held(lg, X, n, p, new)
    <3>1. \A i \in k+1..n-1 : ~Alters(lg[i], p)
      BY <1>3
    <3> QED BY <1>2, <1>4, <2>1, <2>2, <3>1, ChangeHeld
  <2> QED BY <1>1, <2>1, <2>2, <2>3, NoTupleNoImage DEF Known, Present
<1>8. ASSUME NEW q, NEW other \in Images, q # p, Known(lg, X, k, k, q, other)
      PROVE  Known(lg, X, n, n, q, other)
  <2>1. \A i \in k+1..n : ~Alters(lg[i], q)
    <3>1. \A i \in k+1..n : i \in k+1..n-1 \/ i = n
      BY <1>1
    <3> QED BY <1>3, <1>8, <3>1
  <2>2. Held(lg, X, n, q, other)
    BY <1>1, <1>8, <2>1, KnownIsHeld, HeldFurther
  <2>3. Present(other) => other.lsn <= End(n)
    <3>1. Present(other) => other.lsn <= End(k) /\ other.lsn \in Nat
      BY <1>8 DEF Known, Images, Image, Present
    <3> QED BY <1>1, <3>1 DEF End
  <2> QED BY <1>8, <2>2, <2>3 DEF Known
<1> QED BY <1>5, <1>6, <1>7, <1>8 DEF Made

----------------------------------------------------------------------------
(* What the end of the log tells of the transactions. *)

LEMMA BeforeSame ==
    ASSUME NEW lg, NEW new, NEW m \in Nat, Alike(lg, new, m), NEW n \in Nat, m <= n,
           NEW type, NEW x, \A i \in m+1..n : ~(new[i].type = type /\ new[i].xid = x)
    PROVE  Before(new, n + 1, type, x) <=> Before(lg, m + 1, type, x)
<1>1. \A i \in 1..m : new[i] = lg[i] /\ i \in 1..n
  BY DEF Alike
<1>2. \A i \in 1..n : i \in 1..m \/ i \in m+1..n
  OBVIOUS
<1>3. (n + 1) - 1 = n /\ (m + 1) - 1 = m
  OBVIOUS
<1> QED BY <1>1, <1>2, <1>3 DEF Before

\* A log with one record more.
LEMMA BeforeOne ==
    ASSUME NEW lg, NEW new, NEW m \in Nat, Alike(lg, new, m), NEW type, NEW x
    PROVE  Before(new, m + 2, type, x) <=>
              \/ Before(lg, m + 1, type, x)
              \/ new[m + 1].type = type /\ new[m + 1].xid = x
<1>1. \A i \in 1..m : new[i] = lg[i] /\ i \in 1..m+1
  BY DEF Alike
<1>2. \A i \in 1..m+1 : i \in 1..m \/ i = m + 1
  OBVIOUS
<1>3. (m + 2) - 1 = m + 1 /\ (m + 1) - 1 = m /\ m + 1 \in 1..m+1
  OBVIOUS
<1> QED BY <1>1, <1>2, <1>3 DEF Before

\* A transaction ends once.
LEMMA EndsOnce ==
    ASSUME NEW lg \in Seq(Record), \A n \in 1..Len(lg) : Allowed(lg, n), NEW x
    PROVE  ~(Before(lg, Len(lg) + 1, "COMMIT", x) /\ Before(lg, Len(lg) + 1, "ABORT", x))
<1> SUFFICES ASSUME Before(lg, Len(lg) + 1, "COMMIT", x), Before(lg, Len(lg) + 1, "ABORT", x)
             PROVE  FALSE
  OBVIOUS
<1>1. PICK m \in Nat : m = Len(lg)
  BY LenProperties
<1>2. PICK i \in 1..m, j \in 1..m : /\ lg[i].type = "COMMIT" /\ lg[i].xid = x
                                    /\ lg[j].type = "ABORT" /\ lg[j].xid = x
  BY <1>1 DEF Before
<1>3. StillRuns(lg, i) /\ StillRuns(lg, j)
  BY <1>1, <1>2 DEF Allowed
<1>4. i \in 1..j-1 \/ j \in 1..i-1
  BY <1>2
<1> QED BY <1>2, <1>3, <1>4 DEF StillRuns, Before

\* Records of which the rules say little.
LEMMA OtherAllowed ==
    ASSUME NEW lg, NEW n, ~Changes(lg[n]),
           lg[n].type \in {"COMMIT", "ABORT"} => StillRuns(lg, n)
    PROVE  Allowed(lg, n) /\ \A lo : ImageGoesFirst(lg, lo, n)
  BY DEF Allowed, Changes, ImageGoesFirst, Alters

LEMMA OtherWhole ==
    ASSUME NEW lg, NEW n, lg[n].type # "FPI", NEW X
    PROVE  ImageIsWhole(lg, X, n)
  BY DEF ImageIsWhole

----------------------------------------------------------------------------
(* The rows that the log tells of. *)

\* Update j takes away the version that record k put in place.
Supersedes(lg, j, k) == lg[j].type = "UPDATE" /\ k < j /\ Supplies(lg, j, k)

\* A committed version that no committed update has taken away.
Current(lg, i) ==
    /\ Changes(lg[i]) /\ lg[i].xid \in Committed(lg)
    /\ \A k \in 1..Len(lg) :
          ~(lg[k].type = "UPDATE" /\ lg[k].xid \in Committed(lg) /\ lg[k].old = lg[i].new)

LogRows(lg) == {d \in Value : \E i \in 1..Len(lg) : Current(lg, i) /\ lg[i].tuple.data = d}

Added(lg, x) == {d \in Value : \E i \in 1..Len(lg) :
    Changes(lg[i]) /\ lg[i].xid = x /\ lg[i].tuple.data = d}

Deleted(lg, x) == {d \in Value : \E j \in 1..Len(lg), k \in 1..Len(lg) :
    lg[j].xid = x /\ Supersedes(lg, j, k) /\ lg[k].tuple.data = d}

\* Two versions in one place are the same, unless one has been rolled back.
LEMMA SameVersion ==
    ASSUME NEW lg \in Seq(Record), \A n \in 1..Len(lg) : Allowed(lg, n),
           NEW i \in 1..Len(lg), Changes(lg[i]), ~Before(lg, Len(lg) + 1, "ABORT", lg[i].xid),
           NEW j \in 1..Len(lg), Changes(lg[j]), ~Before(lg, Len(lg) + 1, "ABORT", lg[j].xid),
           lg[i].new = lg[j].new
    PROVE  lg[i].xid = lg[j].xid /\ lg[i].tuple.data = lg[j].tuple.data
<1>1. Len(lg) \in Nat /\ Len(lg) + 1 \in Nat
  BY LenProperties
<1>2. ASSUME NEW a \in 1..Len(lg), NEW b \in 1..Len(lg), a < b, Changes(lg[a]), Changes(lg[b]),
             lg[a].new = lg[b].new, ~Before(lg, Len(lg) + 1, "ABORT", lg[a].xid)
      PROVE  lg[a].xid = lg[b].xid /\ lg[a].tuple.data = lg[b].tuple.data
  <2>1. a \in 1..b-1 /\ b \in Nat /\ b <= Len(lg) + 1
    BY <1>1, <1>2
  <2>2. ~Before(lg, b, "ABORT", lg[a].xid)
    BY <1>1, <1>2, <2>1, BeforeLater
  <2> QED BY <1>2, <2>1, <2>2 DEF Allowed, SlotWasFree
<1>3. i < j \/ j < i \/ i = j
  BY <1>1
<1> QED BY <1>2, <1>3

----------------------------------------------------------------------------
(* How the rows change with the log. *)

LEMMA NoEnd ==
    ASSUME NEW lg, NEW new, Alike(lg, new, Len(lg)), Len(lg) \in Nat, Len(new) \in Nat,
           Len(lg) <= Len(new),
           \A i \in Len(lg)+1..Len(new) : new[i].type \notin {"COMMIT", "ABORT"}
    PROVE  Committed(new) = Committed(lg) /\ Aborted(new) = Aborted(lg)
<1>1. \A x : Before(new, Len(new) + 1, "COMMIT", x) <=> Before(lg, Len(lg) + 1, "COMMIT", x)
  BY BeforeSame
<1>2. \A x : Before(new, Len(new) + 1, "ABORT", x) <=> Before(lg, Len(lg) + 1, "ABORT", x)
  BY BeforeSame
<1> QED BY <1>1, <1>2 DEF Committed, Aborted

LEMMA OneEnd ==
    ASSUME NEW lg, NEW new, Alike(lg, new, Len(lg)), Len(lg) \in Nat, Len(new) = Len(lg) + 1,
           NEW x \in Xid, NEW type \in {"COMMIT", "ABORT"}, new[Len(new)].type = type,
           new[Len(new)].xid = x
    PROVE  /\ Committed(new) = Committed(lg) \cup (IF type = "COMMIT" THEN {x} ELSE {})
           /\ Aborted(new) = Aborted(lg) \cup (IF type = "ABORT" THEN {x} ELSE {})
<1>1. Len(new) + 1 = Len(lg) + 2
  OBVIOUS
<1>2. \A t, y : Before(new, Len(lg) + 2, t, y) <=>
                  \/ Before(lg, Len(lg) + 1, t, y)
                  \/ t = type /\ y = x
  <2>1. new[Len(lg) + 1].type = type /\ new[Len(lg) + 1].xid = x
    OBVIOUS
  <2> TAKE t, y
  <2>2. Before(new, Len(lg) + 2, t, y) <=>
           \/ Before(lg, Len(lg) + 1, t, y)
           \/ new[Len(lg) + 1].type = t /\ new[Len(lg) + 1].xid = y
    BY BeforeOne
  <2> QED BY <2>1, <2>2
<1> QED BY <1>1, <1>2 DEF Committed, Aborted

\* What transaction y has written is the same in a longer log, if nothing of y's
\* is added.
LEMMA WorkSame ==
    ASSUME NEW lg, NEW new, Alike(lg, new, Len(lg)), Len(lg) \in Nat, Len(new) \in Nat,
           Len(lg) <= Len(new), NEW y,
           \A i \in Len(lg)+1..Len(new) : Changes(new[i]) => new[i].xid # y
    PROVE  Added(new, y) = Added(lg, y) /\ Deleted(new, y) = Deleted(lg, y)
<1>1. \A i \in 1..Len(lg) : i \in 1..Len(new) /\ new[i] = lg[i]
  BY DEF Alike
<1>2. \A i \in 1..Len(new) : Changes(new[i]) /\ new[i].xid = y => i \in 1..Len(lg)
  <2>1. \A i \in 1..Len(new) : i \in 1..Len(lg) \/ i \in Len(lg)+1..Len(new)
    OBVIOUS
  <2> QED BY <2>1
<1>3. Added(new, y) = Added(lg, y)
  BY <1>1, <1>2 DEF Added
<1>4. ASSUME NEW j \in 1..Len(lg), NEW k \in 1..Len(lg)
      PROVE  Supersedes(new, j, k) <=> Supersedes(lg, j, k)
  <2>1. \A x : Before(new, j, "COMMIT", x) <=> Before(lg, j, "COMMIT", x)
    BY AlikeBefore
  <2> QED BY <1>1, <2>1 DEF Supersedes, Supplies
<1>5. \A j \in 1..Len(new), k \in 1..Len(new) :
         new[j].xid = y /\ Supersedes(new, j, k) => j \in 1..Len(lg) /\ k \in 1..Len(lg)
  <2> TAKE j \in 1..Len(new), k \in 1..Len(new)
  <2> HAVE new[j].xid = y /\ Supersedes(new, j, k)
  <2>1. j \in 1..Len(lg)
    BY <1>2 DEF Supersedes, Changes
  <2> QED BY <2>1 DEF Supersedes
<1>6. \A d : (\E j \in 1..Len(new), k \in 1..Len(new) :
                 new[j].xid = y /\ Supersedes(new, j, k) /\ new[k].tuple.data = d)
         <=> (\E j \in 1..Len(lg), k \in 1..Len(lg) :
                 lg[j].xid = y /\ Supersedes(lg, j, k) /\ lg[k].tuple.data = d)
  BY <1>1, <1>4, <1>5
<1> QED BY <1>3, <1>6 DEF Deleted

\* The committed rows are the same, if nothing of a committed transaction's is
\* added or cut off.
LEMMA RowsSame ==
    ASSUME NEW lg, NEW new, NEW m \in Nat, Alike(lg, new, m), Len(lg) \in Nat, Len(new) \in Nat,
           m <= Len(lg), m <= Len(new), Committed(new) = Committed(lg),
           \A i \in m+1..Len(new) : Changes(new[i]) => new[i].xid \notin Committed(lg),
           \A i \in m+1..Len(lg) : Changes(lg[i]) => lg[i].xid \notin Committed(lg)
    PROVE  LogRows(new) = LogRows(lg)
<1>1. \A i \in 1..m : i \in 1..Len(lg) /\ i \in 1..Len(new) /\ new[i] = lg[i]
  BY DEF Alike
<1>2. \A i \in 1..Len(new) : Changes(new[i]) /\ new[i].xid \in Committed(lg) => i \in 1..m
  <2>1. \A i \in 1..Len(new) : i \in 1..m \/ i \in m+1..Len(new)
    OBVIOUS
  <2> QED BY <2>1
<1>3. \A i \in 1..Len(lg) : Changes(lg[i]) /\ lg[i].xid \in Committed(lg) => i \in 1..m
  <2>1. \A i \in 1..Len(lg) : i \in 1..m \/ i \in m+1..Len(lg)
    OBVIOUS
  <2> QED BY <2>1
<1>4. \A r : r.type = "UPDATE" => Changes(r)
  BY DEF Changes
<1>5. ASSUME NEW i \in 1..m
      PROVE  Current(new, i) <=> Current(lg, i)
  BY <1>1, <1>2, <1>3, <1>4 DEF Current
<1>6. \A d : (\E i \in 1..Len(new) : Current(new, i) /\ new[i].tuple.data = d)
         <=> (\E i \in 1..Len(lg) : Current(lg, i) /\ lg[i].tuple.data = d)
  <2>1. \A i \in 1..Len(new) : Current(new, i) => i \in 1..m
    BY <1>2 DEF Current
  <2>2. \A i \in 1..Len(lg) : Current(lg, i) => i \in 1..m
    BY <1>3 DEF Current
  <2> QED BY <1>1, <1>5, <2>1, <2>2
<1> QED BY <1>6 DEF LogRows

\* A power failure takes no COMMIT record, and so no committed row.
LEMMA CutRows ==
    ASSUME NEW lg \in Seq(Record), \A n \in 1..Len(lg) : Allowed(lg, n),
           NEW new \in Seq(Record), Alike(lg, new, Len(new)), Len(new) <= Len(lg),
           \A i \in 1..Len(lg) : lg[i].type = "COMMIT" => i <= Len(new)
    PROVE  /\ Committed(new) = Committed(lg) /\ Aborted(new) \subseteq Aborted(lg)
           /\ LogRows(new) = LogRows(lg)
<1>1. Len(lg) \in Nat /\ Len(new) \in Nat
  BY LenProperties
<1>2. \A i \in 1..Len(new) : i \in 1..Len(lg) /\ new[i] = lg[i]
  BY <1>1 DEF Alike
<1>3. \A x : Before(new, Len(new) + 1, "COMMIT", x) <=> Before(lg, Len(lg) + 1, "COMMIT", x)
  <2>1. \A i \in 1..Len(lg) : lg[i].type = "COMMIT" => i \in 1..Len(new)
    BY <1>1
  <2>2. (Len(new) + 1) - 1 = Len(new) /\ (Len(lg) + 1) - 1 = Len(lg)
    BY <1>1
  <2> QED BY <1>2, <2>1, <2>2 DEF Before
<1>4. Committed(new) = Committed(lg)
  BY <1>3 DEF Committed
<1>5. Aborted(new) \subseteq Aborted(lg)
  <2>1. \A x : Before(new, Len(new) + 1, "ABORT", x) => Before(lg, Len(lg) + 1, "ABORT", x)
    <3>1. (Len(new) + 1) - 1 = Len(new) /\ (Len(lg) + 1) - 1 = Len(lg)
      BY <1>1
    <3> QED BY <1>2, <3>1 DEF Before
  <2> QED BY <2>1 DEF Aborted
<1>6. ASSUME NEW i \in Len(new)+1..Len(lg), Changes(lg[i]), lg[i].xid \in Committed(lg)
      PROVE  FALSE
  <2>1. i \in 1..Len(lg) /\ i \in Nat
    BY <1>1
  <2>2. StillRuns(lg, i)
    BY <1>6, <2>1 DEF Allowed
  <2>3. PICK c \in 1..Len(new) : lg[c].type = "COMMIT" /\ lg[c].xid = lg[i].xid
    <3>1. (Len(lg) + 1) - 1 = Len(lg)
      BY <1>1
    <3>2. PICK c \in 1..Len(lg) : lg[c].type = "COMMIT" /\ lg[c].xid = lg[i].xid
      BY <1>6, <3>1 DEF Committed, Before
    <3>3. c \in 1..Len(new)
      BY <1>1, <3>2
    <3> QED BY <3>2, <3>3
  <2>4. c \in 1..i-1
    BY <1>1, <2>3
  <2> QED BY <2>2, <2>3, <2>4 DEF StillRuns, Before
<1>7. \A i \in Len(new)+1..Len(new) : Changes(new[i]) => new[i].xid \notin Committed(lg)
  BY <1>1
<1>8. \A i \in Len(new)+1..Len(lg) : Changes(lg[i]) => lg[i].xid \notin Committed(lg)
  BY <1>6
<1>9. LogRows(new) = LogRows(lg)
  BY <1>1, <1>4, <1>7, <1>8, RowsSame
<1> QED BY <1>4, <1>5, <1>9

\* Versions of the same row content are in the same place.
LEMMA SameData ==
    ASSUME NEW lg \in Seq(Record), \A n \in 1..Len(lg) : Allowed(lg, n),
           NEW i \in 1..Len(lg), Changes(lg[i]), NEW j \in 1..Len(lg), Changes(lg[j]),
           lg[i].tuple.data = lg[j].tuple.data
    PROVE  lg[i].new = lg[j].new
<1>1. Len(lg) \in Nat
  BY LenProperties
<1>2. ASSUME NEW a \in 1..Len(lg), NEW b \in 1..Len(lg), a < b, Changes(lg[a]), Changes(lg[b]),
             lg[a].tuple.data = lg[b].tuple.data
      PROVE  lg[a].new = lg[b].new
  BY <1>1, <1>2 DEF Allowed, DataIsNew
<1>3. i < j \/ j < i \/ i = j
  BY <1>1
<1> QED BY <1>2, <1>3

\* Whoever supplied the version that an update of a transaction still counted takes.
LEMMA Supplier ==
    ASSUME NEW lg \in Seq(Record), \A n \in 1..Len(lg) : Allowed(lg, n),
           NEW j \in 1..Len(lg), lg[j].type = "UPDATE",
           ~Before(lg, Len(lg) + 1, "ABORT", lg[j].xid),
           NEW i \in 1..Len(lg), Changes(lg[i]), lg[i].new = lg[j].old,
           ~Before(lg, Len(lg) + 1, "ABORT", lg[i].xid)
    PROVE  \E k \in 1..Len(lg) :
              /\ Supersedes(lg, j, k)
              /\ lg[k].xid = lg[i].xid /\ lg[k].tuple.data = lg[i].tuple.data
<1>1. Len(lg) \in Nat
  BY LenProperties
<1>2. PICK k \in 1..j-1 : Supplies(lg, j, k)
  BY DEF Allowed, UpdateIsDue
<1>3. k \in 1..Len(lg) /\ k < j /\ Changes(lg[k]) /\ lg[k].new = lg[i].new
  BY <1>1, <1>2 DEF Supplies
<1>4. ~Before(lg, Len(lg) + 1, "ABORT", lg[k].xid)
  <2>1. CASE lg[k].xid = lg[j].xid
    BY <2>1
  <2>2. CASE Before(lg, j, "COMMIT", lg[k].xid)
    <3>1. Before(lg, Len(lg) + 1, "COMMIT", lg[k].xid)
      BY <1>1, <2>2, BeforeLater
    <3> QED BY <3>1, EndsOnce
  <2> QED BY <1>2, <2>1, <2>2 DEF Supplies
<1>5. lg[k].xid = lg[i].xid /\ lg[k].tuple.data = lg[i].tuple.data
  BY <1>3, <1>4, SameVersion
<1> QED BY <1>2, <1>3, <1>5 DEF Supersedes

\* A commit adds what the transaction has added and takes away what it has updated.
LEMMA CommitRows ==
    ASSUME NEW lg \in Seq(Record), \A n \in 1..Len(lg) : Allowed(lg, n),
           NEW new \in Seq(Record), Alike(lg, new, Len(lg)), Len(new) = Len(lg) + 1,
           NEW x \in Xid, new[Len(new)] = TxRecord("COMMIT", x),
           x \notin Committed(lg) \cup Aborted(lg)
    PROVE  /\ Committed(new) = Committed(lg) \cup {x}
           /\ LogRows(new) = (LogRows(lg) \cup Added(lg, x)) \ Deleted(lg, x)
<1>1. Len(lg) \in Nat /\ Len(new) \in Nat
  BY LenProperties
<1>2. new[Len(new)].type = "COMMIT" /\ new[Len(new)].xid = x
  BY TxRecordLemma
<1>3. Committed(new) = Committed(lg) \cup {x}
  BY <1>1, <1>2, OneEnd
<1>4. \A i \in 1..Len(lg) : i \in 1..Len(new) /\ new[i] = lg[i]
  BY <1>1 DEF Alike
<1>5. \A i \in 1..Len(new) : Changes(new[i]) => i \in 1..Len(lg)
  <2>1. \A i \in 1..Len(new) : i \in 1..Len(lg) \/ i = Len(new)
    BY <1>1
  <2> QED BY <1>2, <2>1 DEF Changes
<1>6. \A y \in Committed(lg) \cup {x} : ~Before(lg, Len(lg) + 1, "ABORT", y)
  BY EndsOnce DEF Committed, Aborted
<1>7. ASSUME NEW i \in 1..Len(new), Current(new, i)
      PROVE  /\ i \in 1..Len(lg)
             /\ Current(lg, i) \/ (Changes(lg[i]) /\ lg[i].xid = x)
             /\ lg[i].tuple.data \notin Deleted(lg, x)
  <2>1. i \in 1..Len(lg) /\ Changes(lg[i]) /\ lg[i].xid \in Committed(lg) \cup {x}
    BY <1>3, <1>4, <1>5, <1>7 DEF Current
  <2>2. \A k \in 1..Len(lg) : ~(lg[k].type = "UPDATE" /\ lg[k].xid \in Committed(lg) \cup {x}
                                /\ lg[k].old = lg[i].new)
    BY <1>3, <1>4, <1>7, <2>1 DEF Current
  <2>3. Current(lg, i) \/ (Changes(lg[i]) /\ lg[i].xid = x)
    BY <2>1, <2>2 DEF Current
  <2>4. ASSUME NEW j \in 1..Len(lg), NEW k \in 1..Len(lg), lg[j].xid = x, Supersedes(lg, j, k),
               lg[k].tuple.data = lg[i].tuple.data
        PROVE  FALSE
    <3>1. lg[j].type = "UPDATE" /\ Changes(lg[k]) /\ lg[k].new = lg[j].old
      BY <2>4 DEF Supersedes, Supplies
    <3>2. lg[k].new = lg[i].new
      BY <2>1, <2>4, <3>1, SameData
    <3> QED BY <2>2, <2>4, <3>1, <3>2
  <2> QED BY <2>1, <2>3, <2>4 DEF Deleted
<1>8. ASSUME NEW i \in 1..Len(lg), Current(lg, i) \/ (Changes(lg[i]) /\ lg[i].xid = x),
             lg[i].tuple.data \in Value, lg[i].tuple.data \notin Deleted(lg, x)
      PROVE  Current(new, i)
  <2>1. Changes(lg[i]) /\ lg[i].xid \in Committed(lg) \cup {x}
    BY <1>8 DEF Current
  <2>2. ASSUME NEW k \in 1..Len(lg), lg[k].type = "UPDATE", lg[k].xid \in Committed(lg) \cup {x},
               lg[k].old = lg[i].new
        PROVE  FALSE
    <3>1. PICK j \in 1..Len(lg) : /\ Supersedes(lg, k, j) /\ lg[j].xid = lg[i].xid
                                  /\ lg[j].tuple.data = lg[i].tuple.data
      <4>1. ~Before(lg, Len(lg) + 1, "ABORT", lg[k].xid)
        BY <1>6, <2>2
      <4>2. ~Before(lg, Len(lg) + 1, "ABORT", lg[i].xid)
        BY <1>6, <2>1
      <4> QED BY <2>1, <2>2, <4>1, <4>2, Supplier
    <3>2. CASE lg[k].xid = x
      BY <1>8, <3>1, <3>2 DEF Deleted
    <3>3. CASE lg[k].xid # x
      <4>1. lg[k].xid \in Committed(lg)
        BY <2>2, <3>3
      <4>2. lg[i].xid = x
        BY <1>8, <2>2, <4>1 DEF Current
      <4>3. Before(lg, k, "COMMIT", x)
        BY <3>1, <3>3, <4>2 DEF Supersedes, Supplies
      <4>4. Before(lg, Len(lg) + 1, "COMMIT", x)
        BY <1>1, <4>3, BeforeLater
      <4> QED BY <4>4 DEF Committed
    <3> QED BY <3>2, <3>3
  <2>3. \A k \in 1..Len(new) : ~(new[k].type = "UPDATE" /\ new[k].xid \in Committed(new)
                                 /\ new[k].old = new[i].new)
    <3>1. \A k \in 1..Len(new) : new[k].type = "UPDATE" => k \in 1..Len(lg)
      BY <1>5 DEF Changes
    <3> QED BY <1>3, <1>4, <2>2, <3>1
  <2> QED BY <1>3, <1>4, <2>1, <2>3 DEF Current
<1>9. ASSUME NEW d \in Value
      PROVE  d \in LogRows(new) <=> d \in (LogRows(lg) \cup Added(lg, x)) \ Deleted(lg, x)
  <2>1. ASSUME d \in LogRows(new) PROVE d \in (LogRows(lg) \cup Added(lg, x)) \ Deleted(lg, x)
    <3>1. PICK i \in 1..Len(new) : Current(new, i) /\ new[i].tuple.data = d
      BY <2>1 DEF LogRows
    <3>2. /\ i \in 1..Len(lg) /\ lg[i].tuple.data = d /\ d \notin Deleted(lg, x)
          /\ Current(lg, i) \/ (Changes(lg[i]) /\ lg[i].xid = x)
      BY <1>4, <1>7, <3>1
    <3>3. Current(lg, i) => d \in LogRows(lg)
      BY <3>2 DEF LogRows
    <3>4. Changes(lg[i]) /\ lg[i].xid = x => d \in Added(lg, x)
      BY <3>2 DEF Added
    <3> QED BY <3>2, <3>3, <3>4
  <2>2. ASSUME d \in LogRows(lg) \cup Added(lg, x), d \notin Deleted(lg, x)
        PROVE  d \in LogRows(new)
    <3>1. PICK i \in 1..Len(lg) : /\ lg[i].tuple.data = d
                                  /\ Current(lg, i) \/ (Changes(lg[i]) /\ lg[i].xid = x)
      <4>1. CASE d \in LogRows(lg)
        BY <4>1 DEF LogRows
      <4>2. CASE d \in Added(lg, x)
        BY <4>2 DEF Added
      <4> QED BY <2>2, <4>1, <4>2
    <3>2. Current(new, i)
      BY <1>8, <2>2, <3>1
    <3> QED BY <1>4, <3>1, <3>2 DEF LogRows
  <2> QED BY <2>1, <2>2
<1>10. /\ LogRows(new) \subseteq Value /\ LogRows(lg) \subseteq Value
       /\ Added(lg, x) \subseteq Value
  BY DEF LogRows, Added
<1> QED BY <1>3, <1>9, <1>10

\* A statement adds the version that it logs.
LEMMA AddedOne ==
    ASSUME NEW lg, NEW new, Alike(lg, new, Len(lg)), Len(lg) \in Nat, Len(new) \in Nat,
           Len(lg) < Len(new), NEW x, NEW d \in Value, Changes(new[Len(new)]),
           new[Len(new)].xid = x,
           \A i \in Len(lg)+1..Len(new) : Changes(new[i]) => new[i].tuple.data = d
    PROVE  Added(new, x) = Added(lg, x) \cup {d}
<1>1. \A i \in 1..Len(lg) : i \in 1..Len(new) /\ new[i] = lg[i]
  BY DEF Alike
<1>2. \A i \in 1..Len(new) : i \in 1..Len(lg) \/ i \in Len(lg)+1..Len(new)
  OBVIOUS
<1>3. new[Len(new)].tuple.data = d /\ Len(new) \in 1..Len(new)
  OBVIOUS
<1>4. ASSUME NEW e \in Value
      PROVE  e \in Added(new, x) <=> e \in Added(lg, x) \cup {d}
  <2>1. CASE e = d
    BY <1>3, <2>1 DEF Added
  <2>2. CASE e # d
    <3>1. \A i \in 1..Len(new) : Changes(new[i]) /\ new[i].tuple.data = e => i \in 1..Len(lg)
      BY <1>2, <2>2
    <3> QED BY <1>1, <2>2, <3>1 DEF Added
  <2> QED BY <2>1, <2>2
<1> QED BY <1>4 DEF Added

LEMMA OldSupersedes ==
    ASSUME NEW lg, NEW new, Alike(lg, new, Len(lg)), Len(lg) \in Nat,
           NEW j \in 1..Len(lg), NEW k \in 1..Len(lg)
    PROVE  Supersedes(new, j, k) <=> Supersedes(lg, j, k)
<1>1. new[j] = lg[j] /\ new[k] = lg[k]
  BY DEF Alike
<1>2. \A x : Before(new, j, "COMMIT", x) <=> Before(lg, j, "COMMIT", x)
  BY AlikeBefore
<1> QED BY <1>1, <1>2 DEF Supersedes, Supplies

\* It takes away those that the updates among the records it logs name.
DeletedSince(lg, new, x) == {d \in Value : \E j \in Len(lg)+1..Len(new), k \in 1..Len(new) :
    new[j].xid = x /\ Supersedes(new, j, k) /\ new[k].tuple.data = d}

LEMMA DeletedMore ==
    ASSUME NEW lg, NEW new, Alike(lg, new, Len(lg)), Len(lg) \in Nat, Len(new) \in Nat,
           Len(lg) <= Len(new), NEW x
    PROVE  Deleted(new, x) = Deleted(lg, x) \cup DeletedSince(lg, new, x)
<1>1. \A i \in 1..Len(lg) : i \in 1..Len(new) /\ new[i] = lg[i]
  BY DEF Alike
<1>2. \A i \in 1..Len(new) : i \in 1..Len(lg) \/ i \in Len(lg)+1..Len(new)
  OBVIOUS
<1>3. \A j \in 1..Len(lg), k \in 1..Len(new) : Supersedes(new, j, k) => k \in 1..Len(lg)
  BY DEF Supersedes
<1>4. \A j \in 1..Len(lg), k \in 1..Len(lg) : Supersedes(new, j, k) <=> Supersedes(lg, j, k)
  BY OldSupersedes
<1>5. \A j \in Len(lg)+1..Len(new) : j \in 1..Len(new)
  OBVIOUS
<1>6. ASSUME NEW e \in Value
      PROVE  e \in Deleted(new, x) <=> e \in Deleted(lg, x) \cup DeletedSince(lg, new, x)
  <2>1. ASSUME e \in Deleted(new, x) PROVE e \in Deleted(lg, x) \cup DeletedSince(lg, new, x)
    <3>1. PICK j \in 1..Len(new), k \in 1..Len(new) :
             new[j].xid = x /\ Supersedes(new, j, k) /\ new[k].tuple.data = e
      BY <2>1 DEF Deleted
    <3>2. CASE j \in 1..Len(lg)
      <4>1. k \in 1..Len(lg) /\ Supersedes(lg, j, k) /\ new[j] = lg[j] /\ new[k] = lg[k]
        BY <1>1, <1>3, <1>4, <3>1, <3>2
      <4> QED BY <3>1, <3>2, <4>1 DEF Deleted
    <3>3. CASE j \in Len(lg)+1..Len(new)
      BY <3>1, <3>3 DEF DeletedSince
    <3> QED BY <1>2, <3>2, <3>3
  <2>2. ASSUME e \in Deleted(lg, x) PROVE e \in Deleted(new, x)
    <3>1. PICK j \in 1..Len(lg), k \in 1..Len(lg) :
             lg[j].xid = x /\ Supersedes(lg, j, k) /\ lg[k].tuple.data = e
      BY <2>2 DEF Deleted
    <3>2. new[j].xid = x /\ Supersedes(new, j, k) /\ new[k].tuple.data = e
          /\ j \in 1..Len(new) /\ k \in 1..Len(new)
      BY <1>1, <1>4, <3>1
    <3> QED BY <3>2 DEF Deleted
  <2>3. ASSUME e \in DeletedSince(lg, new, x) PROVE e \in Deleted(new, x)
    BY <1>5, <2>3 DEF Deleted, DeletedSince
  <2> QED BY <2>1, <2>2, <2>3
<1> QED BY <1>6 DEF Deleted, DeletedSince
=============================================================================
