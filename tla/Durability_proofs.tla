------------------------- MODULE Durability_proofs -------------------------
(* The durability and the atomicity of Recovery, for any pages, slots,         *)
(* transactions and bounds, where none of the circumstances is allowed: what   *)
(* committed transactions wrote is there whenever the engine serves, and       *)
(* nothing else is.                                                            *)
EXTENDS Recovery_proofs

Undisturbed == Circumstances = {}

----------------------------------------------------------------------------
(* The invariant: what the log says of every page, in memory and on the disk,  *)
(* of every transaction, and of the rows that are to be there.                 *)

\* The transactions whose changes an image has to show.
Counted == Committed(log) \cup Active

First   == StartRecord(Len(log))
Crashed == phase = "down" /\ control.inProduction

\* The record up to which the pages in memory are: the last one, or as far as
\* recovery has brought them.
Done == IF phase = "redo" THEN at - 1 ELSE IF Crashed THEN First - 1 ELSE Len(log)

LogOrderly   == Orderly(log, Counted, First, imaged)
MemKnown     == \A p \in Page : Known(log, Counted, Done, Len(log), p, mem[p])
PlatterKnown == \A p \in Page : \A img \in platter[p] :
                   img = ZeroPage \/ Known(log, Counted, First - 1, synced, p, img)

ActiveRun  == /\ Active \cap (Committed(log) \cup Aborted(log)) = {}
              /\ phase # "up" => Active = {}
LosersRun  == /\ losers \cap (Committed(log) \cup Aborted(log)) = {}
              /\ phase \notin {"redo", "undo"} => losers = {}
Accounted  == ~Crashed => \A i \in 1..Len(log) : Changes(log[i]) =>
                 log[i].xid \in Committed(log) \cup Aborted(log) \cup Active \cup losers
CommitsLogged == \A x \in Xid :
                    "COMMITTED" \in {statusMap[x], clog[x], clogFile[x]} => x \in Committed(log)
CommitsKnown  == ~Crashed => \A x \in Committed(log) :
                    clog[x] = "COMMITTED" /\ statusMap[x] \in {Unset, "COMMITTED"}
MarksSynced   == \A i \in 1..Len(log) :
                    log[i].type \in {"COMMIT", "CHECKPOINT"} => i <= synced
RedoInLog     == phase = "redo" => upto = Len(log) /\ at >= First
StatusKnown   == /\ ActiveRun /\ LosersRun /\ Accounted /\ CommitsLogged /\ CommitsKnown
                 /\ MarksSynced /\ RedoInLog

ExpectedLogged == expected = LogRows(log)
WorkLogged     == \A x \in Xid :
                     work[x] = IF x \in Active
                               THEN [add |-> Added(log, x), del |-> Deleted(log, x)] ELSE Idle
DataWritten    == \A i \in 1..Len(log) : Changes(log[i]) => log[i].tuple.data <= writes
RowsKnown      == ExpectedLogged /\ WorkLogged /\ DataWritten

BaseInv == StorageInv /\ LogInv /\ XidInv
DurInv  == LogOrderly /\ MemKnown /\ PlatterKnown /\ StatusKnown /\ RowsKnown

----------------------------------------------------------------------------
(* What follows from it, while the engine serves. *)

\* The first record after the last checkpoint, and how far the pages are.
LEMMA FirstLemma ==
    ASSUME BaseInv
    PROVE  /\ log \in Seq(Record) /\ Len(log) \in Nat
           /\ First \in Nat /\ First >= 1 /\ First <= Len(log) + 1
           /\ First = 1 \/ (First \in 1..Len(log) /\ log[First].type = "CHECKPOINT")
           /\ \A i \in 1..Len(log) : log[i].type = "CHECKPOINT" => i <= First
<1>1. log \in Seq(Record) /\ Len(log) \in Nat
  BY LenProperties DEF BaseInv, StorageInv, WalOK
<1>2. Len(log) \in 0..Len(log)
  BY <1>1
<1>3. /\ First \in Nat /\ First >= 1 /\ First <= Len(log) + 1
      /\ First = 1 \/ log[First].type = "CHECKPOINT"
      /\ \A i \in 1..Len(log) : log[i].type = "CHECKPOINT" => i <= First
  BY <1>1, <1>2, StartLemma DEF First
<1>4. First = 1 \/ First \in 1..Len(log)
  <2>1. First \in {1} \cup {i \in 1..Len(log) : log[i].type = "CHECKPOINT"}
    <3>1. PICK S : S = {1} \cup {i \in 1..Len(log) : log[i].type = "CHECKPOINT"}
      OBVIOUS
    <3>2. PICK b \in Nat : b = Len(log) + 1
      BY <1>1
    <3>3. S \in SUBSET Nat /\ S # {} /\ \A i \in S : i <= b
      BY <1>1, <3>1, <3>2
    <3>4. Max(S) \in S
      BY <3>3, MaxIsGreatest
    <3>5. First = Max(S)
      BY <3>1 DEF First, StartRecord
    <3> QED BY <3>1, <3>4, <3>5
  <2> QED BY <2>1
<1> QED BY <1>1, <1>3, <1>4

LEMMA UpDone == BaseInv /\ phase = "up" => ~Crashed /\ Done = Len(log)
  BY DEF Crashed, Done

\* Each page shows all that was logged of it by transactions that count.
LEMMA UpHeld ==
    ASSUME BaseInv, DurInv, ~Crashed, phase # "redo", NEW p \in Page
    PROVE  Held(log, Counted, Len(log), p, mem[p])
<1>1. Known(log, Counted, Len(log), Len(log), p, mem[p])
  BY DEF DurInv, MemKnown, Done
<1> QED BY <1>1, FirstLemma, KnownIsHeld

\* A version that a transaction which counts has put somewhere is there.
LEMMA NewShown ==
    ASSUME BaseInv, DurInv, ~Crashed, phase # "redo",
           NEW i \in 1..Len(log), Changes(log[i]), log[i].xid \in Counted
    PROVE  LET c == log[i].new IN
           /\ c \in Ctid /\ Present(mem[c.page]) /\ mem[c.page] \in Image
           /\ mem[c.page].tup[c.slot] # Unused
           /\ mem[c.page].tup[c.slot].xmin = log[i].xid
           /\ mem[c.page].tup[c.slot].data = log[i].tuple.data
<1>1. log \in Seq(Record) /\ Len(log) \in Nat
  BY FirstLemma
<1>2. PICK c : c = log[i].new
  OBVIOUS
<1>3. c \in Ctid /\ c.page \in Page
  BY <1>1, <1>2, ElementOfSeq, RecordFields DEF Changes, Ctid
<1>4. PICK m \in 1..Len(log) : /\ Alters(log[m], c.page) /\ Changes(log[m])
                               /\ log[m].new = c /\ log[m].xid = log[i].xid
                               /\ log[m].tuple = log[i].tuple
  <2>1. CASE Alters(log[i], c.page)
    BY <1>2, <2>1
  <2>2. CASE ~Alters(log[i], c.page)
    <3>1. log[i].type = "UPDATE" /\ log[i].old.page # log[i].new.page
      BY <1>2, <2>2 DEF Alters, Changes
    <3>2. Allowed(log, i)
      BY DEF DurInv, LogOrderly, Orderly
    <3>3. PICK m \in 1..i-1 : /\ log[m].type = "INSERT" /\ log[m].new = log[i].new
                              /\ log[m].xid = log[i].xid /\ log[m].tuple = log[i].tuple
      BY <3>1, <3>2 DEF Allowed, UpdateIsDue
    <3>4. m \in 1..Len(log)
      BY <1>1, <3>3
    <3> QED BY <1>2, <3>3, <3>4 DEF Alters, Changes
  <2> QED BY <2>1, <2>2
<1>5. Held(log, Counted, Len(log), c.page, mem[c.page])
  BY <1>3, UpHeld
<1>6. Present(mem[c.page]) /\ Shows(log[m], c.page, mem[c.page])
  BY <1>4, <1>5 DEF Held
<1>7. mem[c.page] \in Image
  BY <1>3, <1>6 DEF BaseInv, StorageInv, PagesOK, Images, Present
<1> QED BY <1>2, <1>3, <1>4, <1>6, <1>7 DEF Shows

\* So is the deletion of the version that it has updated.
LEMMA OldShown ==
    ASSUME BaseInv, DurInv, ~Crashed, phase # "redo",
           NEW i \in 1..Len(log), log[i].type = "UPDATE", log[i].xid \in Counted
    PROVE  LET c == log[i].old IN
           /\ c \in Ctid /\ Present(mem[c.page])
           /\ mem[c.page].tup[c.slot] # Unused
           /\ mem[c.page].tup[c.slot].xmax = log[i].xid
<1>1. PICK c : c = log[i].old
  OBVIOUS
<1>2. c \in Ctid /\ c.page \in Page
  BY <1>1, FirstLemma, ElementOfSeq, RecordFields DEF Ctid
<1>3. Held(log, Counted, Len(log), c.page, mem[c.page])
  BY <1>2, UpHeld
<1>4. Alters(log[i], c.page)
  BY <1>1 DEF Alters
<1>5. Present(mem[c.page]) /\ Shows(log[i], c.page, mem[c.page])
  BY <1>3, <1>4 DEF Held
<1> QED BY <1>1, <1>2, <1>5 DEF Shows

\* What is there was logged.
LEMMA RowLogged ==
    ASSUME BaseInv, NEW p \in Page, Present(mem[p]), NEW s \in Slot, mem[p].tup[s] # Unused
    PROVE  /\ mem[p].tup[s] \in Tuple
           /\ \E i \in 1..Len(log) : Writes(log, i, p, s, mem[p].tup[s])
           /\ mem[p].tup[s].xmax # 0 =>
                \E i \in 1..Len(log) : Deletes(log, i, p, s, mem[p].tup[s])
<1>1. mem[p] \in Image
  BY DEF BaseInv, StorageInv, PagesOK, Images, Present
<1>2. mem[p].tup[s] \in Tuple
  BY <1>1 DEF Image
<1>3. PICK I \in SUBSET (1..Len(log)) : InLog(log, I, p, mem[p])
  BY DEF BaseInv, LogInv, MemLogged, Covered
<1>4. /\ \E i \in I : Writes(log, i, p, s, mem[p].tup[s])
      /\ mem[p].tup[s].xmax # 0 => \E i \in I : Deletes(log, i, p, s, mem[p].tup[s])
  BY <1>3 DEF InLog
<1> QED BY <1>2, <1>4

\* A transaction that has logged a change is committed for everybody who looks if
\* its COMMIT record is in the log.
LEMMA PastLogged ==
    ASSUME BaseInv, StatusKnown, phase = "up",
           NEW i \in 1..Len(log), Changes(log[i])
    PROVE  InPast(log[i].xid) <=> log[i].xid \in Committed(log)
<1>1. PICK x \in Xid : x = log[i].xid
  BY FirstLemma, ElementOfSeq, RecordFields DEF Changes
<1>2. x # 0 /\ x < nextXid
  BY <1>1, Constants DEF BaseInv, XidInv, LoggedBelow
<1>3. x \in Committed(log) => StatusOf(x) = "COMMITTED"
  BY UpDone DEF StatusKnown, CommitsKnown, StatusOf
<1>4. StatusOf(x) = "COMMITTED" => x \in Committed(log)
  BY DEF StatusKnown, CommitsLogged, StatusOf
<1> QED BY <1>1, <1>2, <1>3, <1>4 DEF InPast

LEMMA RowsExpected ==
    ASSUME BaseInv, DurInv, phase = "up"
    PROVE  Rows = expected
<1>1. Len(log) \in Nat /\ ~Crashed /\ phase # "redo"
  BY FirstLemma, UpDone
<1>2. expected = LogRows(log) /\ StatusKnown
  BY DEF DurInv, RowsKnown, ExpectedLogged
<1>3. \A i \in 1..Len(log) : Changes(log[i]) => (InPast(log[i].xid) <=> log[i].xid \in Committed(log))
  BY <1>2, PastLogged
<1>4. ASSUME NEW d \in Rows PROVE d \in LogRows(log)
  <2>1. PICK t \in UNION {TuplesOf(mem[p]) : p \in Page} : Visible(t) /\ t.data = d
    BY <1>4 DEF Rows
  <2>2. PICK p \in Page : t \in TuplesOf(mem[p])
    BY <2>1
  <2>3. Present(mem[p]) /\ \E s \in Slot : mem[p].tup[s] = t /\ t # Unused
    BY <2>2 DEF TuplesOf
  <2>4. PICK s \in Slot : mem[p].tup[s] = t /\ t # Unused
    BY <2>3
  <2>5. t \in Tuple /\ \E i \in 1..Len(log) : Writes(log, i, p, s, t)
    BY <2>3, <2>4, RowLogged
  <2>6. PICK i \in 1..Len(log) : Writes(log, i, p, s, t)
    BY <2>5
  <2>7. Changes(log[i]) /\ log[i].new = [page |-> p, slot |-> s] /\ log[i].xid = t.xmin
        /\ log[i].tuple.data = d
    BY <2>1, <2>6 DEF Writes, Changes
  <2>8. log[i].xid \in Committed(log)
    BY <1>3, <2>1, <2>7 DEF Visible
  <2>9. ASSUME NEW k \in 1..Len(log), log[k].type = "UPDATE", log[k].xid \in Committed(log),
               log[k].old = log[i].new
        PROVE  FALSE
    <3>1. log[k].xid \in Counted /\ Changes(log[k])
      BY <2>9 DEF Counted, Changes
    <3>2. mem[p].tup[s].xmax = log[k].xid
      BY <1>1, <2>7, <2>9, <3>1, OldShown
    <3> QED BY <1>3, <2>1, <2>4, <2>9, <3>1, <3>2 DEF Visible
  <2>10. Current(log, i)
    BY <2>7, <2>8, <2>9 DEF Current
  <2>11. d \in Value
    BY <2>1, <2>5 DEF Tuple
  <2> QED BY <2>7, <2>10, <2>11 DEF LogRows
<1>5. ASSUME NEW d \in LogRows(log) PROVE d \in Rows
  <2>1. PICK i \in 1..Len(log) : Current(log, i) /\ log[i].tuple.data = d
    BY <1>5 DEF LogRows
  <2>2. Changes(log[i]) /\ log[i].xid \in Committed(log) /\ log[i].xid \in Counted
    BY <2>1 DEF Current, Counted
  <2>3. PICK p \in Page, s \in Slot : log[i].new = [page |-> p, slot |-> s]
    BY <1>1, <2>2, NewShown DEF Ctid
  <2>4. PICK t : t = mem[p].tup[s]
    OBVIOUS
  <2>5. Present(mem[p]) /\ t # Unused /\ t.xmin = log[i].xid /\ t.data = d
    BY <1>1, <2>1, <2>2, <2>3, <2>4, NewShown
  <2>6. InPast(t.xmin)
    BY <1>3, <2>2, <2>5
  <2>7. ASSUME InPast(t.xmax) PROVE FALSE
    <3>1. t.xmax # 0
      BY <2>7 DEF InPast
    <3>2. PICK j \in 1..Len(log) : Deletes(log, j, p, s, t)
      BY <2>4, <2>5, <3>1, RowLogged
    <3>3. log[j].type = "UPDATE" /\ log[j].xid = t.xmax /\ log[j].old = log[i].new
      BY <2>3, <3>2 DEF Deletes
    <3>4. log[j].xid \in Committed(log)
      BY <1>3, <2>7, <3>3 DEF Changes
    <3> QED BY <2>1, <3>3, <3>4 DEF Current
  <2>8. t \in TuplesOf(mem[p])
    BY <2>4, <2>5 DEF TuplesOf
  <2> QED BY <2>5, <2>6, <2>7, <2>8 DEF Rows, Visible
<1> QED BY <1>2, <1>4, <1>5

LEMMA DurInvImplies == BaseInv /\ DurInv => NothingLost /\ NothingResurrected
  BY RowsExpected DEF NothingLost, NothingResurrected

----------------------------------------------------------------------------
(* The invariant at the start. *)

LEMMA InitDur == Init => DurInv
<1> SUFFICES ASSUME Init PROVE DurInv
  OBVIOUS
<1>1. log = <<>> /\ Len(log) = 0 /\ 1..Len(log) = {}
  BY EmptySeq DEF Init
<1>2. Active = {} /\ phase = "up" /\ losers = {}
  BY DEF Init, Active, Unset
<1>3. First = 1
  <2>1. PICK S : S = {1} \cup {i \in 1..Len(log) : log[i].type = "CHECKPOINT"}
    OBVIOUS
  <2>2. S = {1} /\ 1 \in Nat
    BY <1>1, <2>1
  <2>3. Max(S) \in S
    BY <2>2, MaxIsGreatest
  <2> QED BY <2>1, <2>2, <2>3 DEF First, StartRecord
<1>4. Done = 0
  BY <1>1, <1>2 DEF Done, Crashed
<1>5. Committed(log) = {} /\ Aborted(log) = {}
  <2>1. (Len(log) + 1) - 1 = 0
    BY <1>1
  <2>2. 1..0 = {}
    OBVIOUS
  <2> QED BY <2>1, <2>2 DEF Committed, Aborted, Before
<1>6. LogOrderly
  <2>1. First..Len(log) = {} /\ imaged = {}
    BY <1>1, <1>3 DEF Init
  <2> QED BY <1>1, <2>1 DEF LogOrderly, Orderly
<1>7. \A p \in Page : Known(log, Counted, 0, 0, p, mem[p])
  <2> TAKE p \in Page
  <2>1. mem[p] = IF p = 0 THEN FreshPage ELSE Absent
    BY DEF Init
  <2>2. Present(FreshPage) /\ FreshPage.formatted /\ FreshPage.lsn <= End(0) /\ ~Present(Absent)
    BY EmptyImages, NoTupleNoImage DEF End, Present
  <2>3. 1..0 = {}
    OBVIOUS
  <2>4. Held(log, Counted, 0, p, mem[p])
    BY <1>1, <2>1, <2>2, <2>3 DEF Held
  <2> QED BY <2>1, <2>2, <2>4 DEF Known
<1>8. MemKnown
  BY <1>1, <1>4, <1>7 DEF MemKnown
<1>9. PlatterKnown
  <2>1. \A p \in Page : platter[p] = {mem[p]}
    BY DEF Init
  <2>2. synced = 0 /\ First - 1 = 0
    BY <1>3 DEF Init
  <2> QED BY <1>7, <2>1, <2>2 DEF PlatterKnown
<1>10. StatusKnown
  <2>1. \A x \in Xid : "COMMITTED" \notin {statusMap[x], clog[x], clogFile[x]}
    BY DEF Init, Unset
  <2>2. ActiveRun /\ LosersRun /\ Accounted /\ CommitsLogged /\ CommitsKnown
    BY <1>1, <1>2, <1>5, <2>1
       DEF ActiveRun, LosersRun, Accounted, CommitsLogged, CommitsKnown
  <2>3. MarksSynced /\ RedoInLog
    BY <1>1, <1>2 DEF MarksSynced, RedoInLog
  <2> QED BY <2>2, <2>3 DEF StatusKnown
<1>11. RowsKnown
  <2>1. LogRows(log) = {}
    BY <1>1 DEF LogRows
  <2>2. \A x \in Xid : work[x] = Idle
    BY DEF Init
  <2>3. ExpectedLogged
    BY <2>1 DEF ExpectedLogged, Init
  <2>4. WorkLogged
    BY <1>2, <2>2 DEF WorkLogged
  <2>5. DataWritten
    BY <1>1 DEF DataWritten
  <2> QED BY <2>3, <2>4, <2>5 DEF RowsKnown
<1> QED BY <1>6, <1>8, <1>9, <1>10, <1>11 DEF DurInv

----------------------------------------------------------------------------
(* Steps that leave the pages in memory alone. *)

\* The log as a step finds and leaves it.
LEMMA GrownLog ==
    ASSUME BaseInv, BaseInv', Prefix(log, log')
    PROVE  /\ log \in Seq(Record) /\ log' \in Seq(Record)
           /\ Len(log) \in Nat /\ Len(log') \in Nat /\ Len(log) <= Len(log')
           /\ Alike(log, log', Len(log))
           /\ synced \in 0..Len(log) /\ synced' \in 0..Len(log')
<1>1. /\ log \in Seq(Record) /\ log' \in Seq(Record)
      /\ synced \in 0..Len(log) /\ synced' \in 0..Len(log')
  BY DEF BaseInv, StorageInv, WalOK
<1> QED BY <1>1, LenProperties DEF Prefix, Alike

LEMMA SameFirst ==
    ASSUME BaseInv, BaseInv', Prefix(log, log'),
           \A i \in Len(log)+1..Len(log') : log'[i].type # "CHECKPOINT"
    PROVE  First' = First
<1>1. \A i \in 1..Len(log) : log'[i] = log[i] /\ i \in 1..Len(log')
  BY GrownLog DEF Prefix
<1>2. \A i \in 1..Len(log') : i \in 1..Len(log) \/ i \in Len(log)+1..Len(log')
  BY GrownLog
<1>3. {i \in 1..Len(log') : log'[i].type = "CHECKPOINT"} = {i \in 1..Len(log) : log[i].type = "CHECKPOINT"}
  BY <1>1, <1>2
<1> QED BY <1>3 DEF First, StartRecord

\* All the records before the last checkpoint are synced.
LEMMA FirstSynced ==
    ASSUME BaseInv, StatusKnown
    PROVE  First - 1 \in Nat /\ First - 1 <= synced /\ First - 1 <= Len(log)
<1>1. synced \in Nat
  BY FirstLemma DEF BaseInv, StorageInv, WalOK
<1> QED BY <1>1, FirstLemma DEF StatusKnown, MarksSynced

LEMMA PlatterStaysKnown ==
    ASSUME BaseInv, DurInv, BaseInv', Prefix(log, log'), First' = First, synced <= synced',
           Fewer(log, Len(log), Counted, Counted'),
           \A p \in Page : \A img \in platter'[p] :
              \/ img \in platter[p] \/ img = ZeroPage
              \/ Known(log', Counted', First - 1, synced', p, img)
    PROVE  PlatterKnown'
<1>1. First - 1 \in Nat /\ First - 1 <= Len(log)
  BY FirstSynced DEF DurInv
<1>2. ASSUME NEW p \in Page, NEW img \in platter[p], img # ZeroPage
      PROVE  Known(log', Counted', First - 1, synced', p, img)
  <2>1. Known(log, Counted, First - 1, synced, p, img) /\ img \in Images
    BY <1>2 DEF DurInv, PlatterKnown, BaseInv, StorageInv, PagesOK
  <2>2. PICK k \in Nat, n \in Nat, n2 \in Nat, m \in Nat :
           k = First - 1 /\ n = synced /\ n2 = synced' /\ m = Len(log)
    BY <1>1, GrownLog
  <2>3. k <= m /\ n <= m /\ n <= n2 /\ m <= Len(log) /\ m <= Len(log') /\ Alike(log, log', m)
    BY <1>1, <2>2, GrownLog
  <2>4. Known(log, Counted, k, n, p, img) /\ Fewer(log, m, Counted, Counted')
    BY <2>1, <2>2
  <2>5. Known(log', Counted', k, n2, p, img)
    BY <2>1, <2>3, <2>4, GrownLog, KnownStays
  <2> QED BY <2>2, <2>5
<1>3. \A p \in Page : \A img \in platter'[p] :
         img = ZeroPage \/ Known(log', Counted', First' - 1, synced', p, img)
  BY <1>2
<1> QED BY <1>3 DEF PlatterKnown

\* A page that is up to the end of the log stays so while others are written about.
LEMMA MemStaysKnown ==
    ASSUME BaseInv, DurInv, BaseInv', ~Crashed, phase # "redo",
           Prefix(log, log'), Fewer(log, Len(log), Counted, Counted'),
           NEW p \in Page, \A i \in Len(log)+1..Len(log') : ~Alters(log'[i], p)
    PROVE  Known(log', Counted', Len(log'), Len(log'), p, mem[p])
<1>1. PICK m \in Nat, n \in Nat : m = Len(log) /\ n = Len(log') /\ m <= n
  BY GrownLog
<1>2. Known(log, Counted, m, m, p, mem[p])
  BY <1>1 DEF DurInv, MemKnown, Done
<1>3. mem[p] \in Images
  BY DEF BaseInv, StorageInv, PagesOK
<1>4. Known(log', Counted', m, m, p, mem[p])
  <2>1. Alike(log, log', m) /\ Fewer(log, m, Counted, Counted') /\ m <= Len(log) /\ m <= Len(log')
    BY <1>1, GrownLog
  <2> QED BY <1>2, <1>3, <2>1, GrownLog, KnownStays
<1>5. Held(log', Counted', m, p, mem[p])
  BY <1>4, KnownIsHeld
<1>6. Held(log', Counted', n, p, mem[p])
  BY <1>1, <1>5, HeldFurther
<1>7. (p = 0 => Present(mem[p])) /\ (Present(mem[p]) => mem[p].formatted /\ mem[p].lsn <= End(n))
  <2>1. Present(mem[p]) => mem[p].lsn \in Nat
    BY <1>3 DEF Images, Image, Present
  <2> QED BY <1>1, <1>4, <2>1 DEF Known, End
<1> QED BY <1>1, <1>6, <1>7 DEF Known

LEMMA LogStaysOrderly ==
    ASSUME BaseInv, DurInv, BaseInv', Prefix(log, log'), First' = First,
           Fewer(log, Len(log), Counted, Counted'), imaged' \subseteq imaged,
           \A i \in Len(log)+1..Len(log') :
              /\ ~Changes(log'[i]) /\ log'[i].type # "FPI"
              /\ log'[i].type \in {"COMMIT", "ABORT"} => StillRuns(log', i)
    PROVE  LogOrderly'
<1>1. PICK m \in Nat : m = Len(log) /\ m <= Len(log) /\ m <= Len(log') /\ Alike(log, log', m)
  BY GrownLog
<1>2. First \in Nat /\ First >= 1 /\ Orderly(log, Counted, First, imaged)
  BY FirstLemma DEF DurInv, LogOrderly
<1>3. Fewer(log, m, Counted, Counted')
  BY <1>1
<1>4. \A n \in m+1..Len(log') : Allowed(log', n) /\ ImageIsWhole(log', Counted', n)
  BY <1>1, OtherAllowed, OtherWhole
<1>5. \A n \in m+1..Len(log') : ImageGoesFirst(log', First, n)
  BY <1>1, OtherAllowed
<1>6. \A p \in imaged' : (p \in imaged /\ m = Len(log)) \/ Mended(log', p, First, Len(log'))
  BY <1>1
<1>7. Orderly(log', Counted', First, imaged')
  BY <1>1, <1>2, <1>3, <1>4, <1>5, <1>6, GrownLog, OrderlyStays
<1> QED BY <1>7 DEF LogOrderly

\* A step that appends no more than what becomes of transactions, and may bring
\* pages to the disk once the log is there.
LEMMA QuietPages ==
    ASSUME BaseInv, DurInv, BaseInv', ~Crashed, phase # "redo", ~Crashed', phase' # "redo",
           Prefix(log, log'),
           \A i \in Len(log)+1..Len(log') :
              /\ log'[i].type \in {"COMMIT", "ABORT", "CLR"}
              /\ log'[i].type \in {"COMMIT", "ABORT"} => StillRuns(log', i),
           Fewer(log, Len(log), Counted, Counted'), mem' = mem, imaged' \subseteq imaged,
           synced <= synced', \A p \in Page : platter'[p] \subseteq platter[p] \cup {mem[p]},
           platter' = platter \/ synced' = Len(log')
    PROVE  LogOrderly' /\ MemKnown' /\ PlatterKnown'
<1>1. First' = First
  <2>1. \A i \in Len(log)+1..Len(log') : log'[i].type # "CHECKPOINT"
    OBVIOUS
  <2> QED BY <2>1, SameFirst
<1>2. \A i \in Len(log)+1..Len(log') :
         /\ ~Changes(log'[i]) /\ log'[i].type # "FPI" /\ \A p : ~Alters(log'[i], p)
         /\ log'[i].type \in {"COMMIT", "ABORT"} => StillRuns(log', i)
  BY DEF Changes, Alters
<1>3. LogOrderly'
  BY <1>1, <1>2, LogStaysOrderly
<1>4. \A p \in Page : Known(log', Counted', Len(log'), Len(log'), p, mem[p])
  BY <1>2, MemStaysKnown
<1>5. Done' = Len(log')
  BY DEF Done
<1>6. MemKnown'
  BY <1>4, <1>5 DEF MemKnown
<1>7. ASSUME synced' = Len(log'), NEW p \in Page
      PROVE  Known(log', Counted', First - 1, synced', p, mem[p])
  <2>1. PICK k \in Nat, j \in Nat : k = Len(log') /\ j = First - 1 /\ j <= k
    BY FirstSynced, GrownLog DEF DurInv
  <2>2. Known(log', Counted', k, k, p, mem[p])
    BY <1>4, <2>1
  <2>3. Known(log', Counted', j, k, p, mem[p])
    BY <2>1, <2>2, KnownBack
  <2> QED BY <1>7, <2>1, <2>3
<1>8. PlatterKnown'
  <2>1. \A p \in Page : \A img \in platter'[p] :
           \/ img \in platter[p] \/ img = ZeroPage
           \/ Known(log', Counted', First - 1, synced', p, img)
    BY <1>7
  <2> QED BY <1>1, <2>1, PlatterStaysKnown
<1> QED BY <1>3, <1>6, <1>8

LEMMA SameLog == BaseInv /\ log' = log =>
                     Prefix(log, log') /\ \A i : i \notin Len(log)+1..Len(log')
  BY FirstLemma DEF Prefix

\* Begin's id is in no record.
LEMMA BeginDur ==
    ASSUME BaseInv, DurInv, BaseInv', Begin
    PROVE  DurInv'
<1>1. PICK x \in Xid : x = nextXid /\ x # 0
  BY Constants DEF Begin
<1>2. /\ phase = "up" /\ phase' = "up" /\ log' = log /\ mem' = mem /\ imaged' = imaged
      /\ synced' = synced /\ platter' = platter /\ clog' = clog /\ clogFile' = clogFile
      /\ losers' = losers /\ work' = work /\ expected' = expected /\ writes' = writes
      /\ control' = control
  BY DEF Begin, walVars, pageVars, recVars, ghosts
<1>3. statusMap' = [statusMap EXCEPT ![x] = "IN_PROGRESS"] /\ statusMap \in [Xid -> Status \cup {Unset}]
  BY <1>1 DEF Begin, BaseInv, StorageInv, TxOK
<1>4. Active' = Active \cup {x} /\ x \notin Active
  BY <1>1, <1>3 DEF Active, BaseInv, XidInv, ActiveBelow, StorageInv, TxOK
<1>5. \A i \in 1..Len(log) : log[i].xid # x
  BY <1>1, <1>2, Constants DEF BaseInv, XidInv, LoggedBelow
<1>6. x \notin Committed(log) /\ x \notin Aborted(log)
  <2>1. (Len(log) + 1) - 1 = Len(log)
    BY FirstLemma
  <2> QED BY <1>5, <2>1 DEF Committed, Aborted, Before
<1>7. ~Crashed /\ ~Crashed'
  BY <1>2 DEF Crashed
<1>8. Fewer(log, Len(log), Counted, Counted')
  BY <1>2, <1>4, <1>5 DEF Fewer, Counted
<1>9. LogOrderly' /\ MemKnown' /\ PlatterKnown'
  <2>1. Prefix(log, log') /\ \A i : i \notin Len(log)+1..Len(log')
    BY <1>2, SameLog
  <2>2. synced <= synced'
    BY <1>2, FirstLemma DEF BaseInv, StorageInv, WalOK
  <2> QED BY <1>2, <1>7, <1>8, <2>1, <2>2, QuietPages
<1>10. StatusKnown'
  <2>1. StatusKnown
    BY DEF DurInv
  <2>2. ActiveRun' /\ LosersRun' /\ Accounted'
    BY <1>2, <1>4, <1>6, <1>7, <2>1 DEF StatusKnown, ActiveRun, LosersRun, Accounted
  <2>3. CommitsLogged'
    BY <1>2, <1>3, <2>1 DEF StatusKnown, CommitsLogged
  <2>4. CommitsKnown'
    BY <1>2, <1>3, <1>6, <1>7, <2>1 DEF StatusKnown, CommitsKnown
  <2>5. MarksSynced' /\ RedoInLog'
    BY <1>2, <2>1 DEF StatusKnown, MarksSynced, RedoInLog
  <2> QED BY <2>2, <2>3, <2>4, <2>5 DEF StatusKnown
<1>11. RowsKnown'
  <2>1. RowsKnown
    BY DEF DurInv
  <2>2. ExpectedLogged' /\ DataWritten'
    BY <1>2, <2>1 DEF RowsKnown, ExpectedLogged, DataWritten
  <2>3. Added(log, x) = {} /\ Deleted(log, x) = {}
    BY <1>5 DEF Added, Deleted
  <2>4. work[x] = [add |-> {}, del |-> {}]
    BY <1>4, <2>1 DEF RowsKnown, WorkLogged, Idle
  <2>5. WorkLogged'
    <3> SUFFICES ASSUME NEW y \in Xid
                 PROVE  work[y] = IF y \in Active \cup {x}
                                  THEN [add |-> Added(log, y), del |-> Deleted(log, y)] ELSE Idle
      BY <1>2, <1>4 DEF WorkLogged
    <3>1. CASE y = x
      BY <2>3, <2>4, <3>1
    <3>2. CASE y # x
      BY <2>1, <3>2 DEF RowsKnown, WorkLogged
    <3> QED BY <3>1, <3>2
  <2> QED BY <2>2, <2>5 DEF RowsKnown
<1> QED BY <1>9, <1>10, <1>11 DEF DurInv

\* A transaction that has not ended before ends.
LEMMA EndPages ==
    ASSUME BaseInv, DurInv, BaseInv', phase \in {"up", "undo"}, phase' = phase,
           NEW x \in Xid, x \notin Committed(log) \cup Aborted(log),
           NEW type \in {"COMMIT", "ABORT"}, Ends(x, type),
           type = "COMMIT" => synced' = Len(log'),
           mem' = mem, imaged' = imaged, platter' = platter,
           \A y \in Active' : y \in Active,
           \A y \in Committed(log') : y \in Committed(log) \cup Active
    PROVE  LogOrderly' /\ MemKnown' /\ PlatterKnown' /\ MarksSynced'
<1>1. /\ Prefix(log, log') /\ Len(log') = Len(log) + 1 /\ synced <= synced'
      /\ log'[Len(log')] = TxRecord(type, x)
  BY EndsLemma DEF BaseInv, StorageInv, WalOK
<1>2. log'[Len(log')].type = type /\ log'[Len(log')].xid = x
  BY <1>1, TxRecordLemma
<1>3. ~Crashed /\ ~Crashed' /\ phase # "redo" /\ phase' # "redo"
  BY DEF Crashed
<1>4. \A i \in Len(log)+1..Len(log') : i = Len(log')
  BY <1>1, GrownLog
<1>5. StillRuns(log', Len(log'))
  <2>1. PICK n \in Nat : n = Len(log) + 1 /\ n = Len(log')
    BY <1>1, GrownLog
  <2>2. \A t : Before(log', n, t, x) <=> Before(log, n, t, x)
    BY <1>1, <2>1, GrownLog, AlikeBefore
  <2> QED BY <1>2, <2>1, <2>2 DEF StillRuns, Committed, Aborted
<1>6. Fewer(log, Len(log), Counted, Counted')
  BY DEF Fewer, Counted
<1>7. LogOrderly' /\ MemKnown' /\ PlatterKnown'
  BY <1>1, <1>2, <1>3, <1>4, <1>5, <1>6, QuietPages
<1>8. MarksSynced'
  <2> SUFFICES ASSUME NEW i \in 1..Len(log'), log'[i].type \in {"COMMIT", "CHECKPOINT"}
               PROVE  i <= synced'
    BY DEF MarksSynced
  <2>1. i \in 1..Len(log) \/ i = Len(log')
    BY <1>1, GrownLog
  <2>2. CASE i \in 1..Len(log)
    <3>1. i <= synced
      BY <1>1, <2>2 DEF Prefix, DurInv, StatusKnown, MarksSynced
    <3> QED BY <1>1, <3>1, GrownLog
  <2>3. CASE i = Len(log')
    BY <1>2, <2>3, GrownLog
  <2> QED BY <2>1, <2>2, <2>3
<1> QED BY <1>7, <1>8

\* The ends of transactions, and their writes, after that.
LEMMA EndLog ==
    ASSUME BaseInv, BaseInv', NEW x \in Xid, NEW type \in {"COMMIT", "ABORT"}, Ends(x, type)
    PROVE  /\ Committed(log') = Committed(log) \cup (IF type = "COMMIT" THEN {x} ELSE {})
           /\ Aborted(log') = Aborted(log) \cup (IF type = "ABORT" THEN {x} ELSE {})
           /\ \A y : Added(log', y) = Added(log, y) /\ Deleted(log', y) = Deleted(log, y)
           /\ \A i \in 1..Len(log') : Changes(log'[i]) => i \in 1..Len(log) /\ log'[i] = log[i]
<1>1. /\ Prefix(log, log') /\ Len(log') = Len(log) + 1
      /\ log'[Len(log')] = TxRecord(type, x)
  BY EndsLemma DEF BaseInv, StorageInv, WalOK
<1>2. /\ Len(log) \in Nat /\ Len(log') \in Nat /\ Len(log) <= Len(log')
      /\ Alike(log, log', Len(log))
  BY <1>1, GrownLog
<1>3. log'[Len(log')].type = type /\ log'[Len(log')].xid = x
  BY <1>1, TxRecordLemma
<1>4. \A i \in Len(log)+1..Len(log') : ~Changes(log'[i])
  <2>1. \A i \in Len(log)+1..Len(log') : i = Len(log')
    BY <1>1, <1>2
  <2> QED BY <1>3, <2>1 DEF Changes
<1>5. /\ Committed(log') = Committed(log) \cup (IF type = "COMMIT" THEN {x} ELSE {})
      /\ Aborted(log') = Aborted(log) \cup (IF type = "ABORT" THEN {x} ELSE {})
  BY <1>1, <1>2, <1>3, OneEnd
<1>6. \A y : Added(log', y) = Added(log, y) /\ Deleted(log', y) = Deleted(log, y)
  BY <1>2, <1>4, WorkSame
<1>7. \A i \in 1..Len(log') : Changes(log'[i]) => i \in 1..Len(log) /\ log'[i] = log[i]
  <2>1. \A i \in 1..Len(log') : i \in 1..Len(log) \/ i \in Len(log)+1..Len(log')
    BY <1>2
  <2> QED BY <1>2, <1>4, <2>1 DEF Alike
<1> QED BY <1>5, <1>6, <1>7

LEMMA CommitDur ==
    ASSUME Undisturbed, BaseInv, DurInv, BaseInv', NEW x \in Xid, Commit(x)
    PROVE  DurInv'
<1>1. /\ phase = "up" /\ phase' = "up" /\ x \in Active /\ Ends(x, "COMMIT")
      /\ mem' = mem /\ imaged' = imaged /\ platter' = platter /\ clogFile' = clogFile
      /\ losers' = losers /\ writes' = writes /\ control' = control
      /\ expected' = (expected \cup work[x].add) \ work[x].del
      /\ work' = [work EXCEPT ![x] = Idle]
  BY DEF Commit, pageVars, recVars
<1>2. /\ statusMap' = [statusMap EXCEPT ![x] = "COMMITTED"] /\ clog' = [clog EXCEPT ![x] = "COMMITTED"]
      /\ statusMap \in [Xid -> Status \cup {Unset}] /\ clog \in [Xid -> Status]
  BY DEF Commit, SetStatus, BaseInv, StorageInv, TxOK
<1>3. Active' = Active \ {x}
  BY <1>2 DEF Active
<1>4. x \notin Committed(log) \cup Aborted(log)
  BY <1>1 DEF DurInv, StatusKnown, ActiveRun
<1>5. /\ Committed(log') = Committed(log) \cup {x} /\ Aborted(log') = Aborted(log)
      /\ \A y : Added(log', y) = Added(log, y) /\ Deleted(log', y) = Deleted(log, y)
      /\ \A i \in 1..Len(log') : Changes(log'[i]) => i \in 1..Len(log) /\ log'[i] = log[i]
  BY <1>1, EndLog
<1>6. synced' = Len(log')
  <2>1. Len(log') = Len(log) + 1 /\ Len(log) \in Nat
    BY <1>1, EndsLemma DEF BaseInv, StorageInv, WalOK
  <2>2. Start(Len(log')) = End(Len(log))
    BY <2>1 DEF Start, End
  <2>3. flushed < End(Len(log)) /\ flushed \in Nat /\ End(Len(log)) \in Nat
    BY <2>1 DEF Commit, Undisturbed, BaseInv, StorageInv, WalOK, End
  <2> QED BY <1>1, <2>2, <2>3 DEF Ends, Flush
<1>7. LogOrderly' /\ MemKnown' /\ PlatterKnown' /\ MarksSynced'
  BY <1>1, <1>3, <1>4, <1>5, <1>6, EndPages
<1>8. ~Crashed /\ ~Crashed'
  BY <1>1 DEF Crashed
<1>9. StatusKnown'
  <2>1. StatusKnown
    BY DEF DurInv
  <2>2. ActiveRun' /\ LosersRun'
    BY <1>1, <1>3, <1>4, <1>5, <2>1 DEF StatusKnown, ActiveRun, LosersRun
  <2>3. Accounted'
    <3>1. \A i \in 1..Len(log') : Changes(log'[i]) =>
             log'[i].xid \in Committed(log) \cup Aborted(log) \cup Active \cup losers
      BY <1>5, <1>8, <2>1 DEF StatusKnown, Accounted
    <3> QED BY <1>1, <1>3, <1>5, <3>1 DEF Accounted
  <2>4. CommitsLogged'
    BY <1>1, <1>2, <1>5, <2>1 DEF StatusKnown, CommitsLogged
  <2>5. CommitsKnown'
    BY <1>2, <1>5, <1>8, <2>1 DEF StatusKnown, CommitsKnown
  <2>6. RedoInLog'
    BY <1>1 DEF RedoInLog
  <2> QED BY <1>7, <2>2, <2>3, <2>4, <2>5, <2>6 DEF StatusKnown
<1>10. RowsKnown'
  <2>1. RowsKnown
    BY DEF DurInv
  <2>2. ExpectedLogged'
    <3>1. LogRows(log') = (LogRows(log) \cup Added(log, x)) \ Deleted(log, x)
      <4>1. /\ Prefix(log, log') /\ Len(log') = Len(log) + 1
            /\ log'[Len(log')] = TxRecord("COMMIT", x)
        BY <1>1, EndsLemma DEF BaseInv, StorageInv, WalOK
      <4>2. \A n \in 1..Len(log) : Allowed(log, n)
        BY DEF DurInv, LogOrderly, Orderly
      <4> QED BY <1>4, <4>1, <4>2, GrownLog, CommitRows
    <3>2. work[x] = [add |-> Added(log, x), del |-> Deleted(log, x)]
      BY <1>1, <2>1 DEF RowsKnown, WorkLogged
    <3> QED BY <1>1, <2>1, <3>1, <3>2 DEF RowsKnown, ExpectedLogged
  <2>3. WorkLogged'
    <3>1. work \in [Xid -> Work]
      BY DEF BaseInv, StorageInv, GhostsOK
    <3> QED BY <1>1, <1>3, <1>5, <2>1, <3>1 DEF RowsKnown, WorkLogged
  <2>4. DataWritten'
    BY <1>1, <1>5, <2>1 DEF RowsKnown, DataWritten
  <2> QED BY <2>2, <2>3, <2>4 DEF RowsKnown
<1> QED BY <1>7, <1>9, <1>10 DEF DurInv

\* An ABORT record leaves the committed rows as they are.
LEMMA AbortRows ==
    ASSUME BaseInv, BaseInv', NEW x \in Xid, Ends(x, "ABORT"), RowsKnown,
           expected' = expected, writes' = writes
    PROVE  ExpectedLogged' /\ DataWritten'
<1>1. /\ Committed(log') = Committed(log)
      /\ \A i \in 1..Len(log') : Changes(log'[i]) => i \in 1..Len(log) /\ log'[i] = log[i]
  BY EndLog
<1>2. Prefix(log, log')
  BY EndsLemma DEF BaseInv, StorageInv, WalOK
<1>3. PICK m \in Nat : m = Len(log) /\ m <= Len(log') /\ Alike(log, log', m) /\ Len(log') \in Nat
  BY <1>2, GrownLog
<1>4. \A i \in m+1..Len(log') : ~Changes(log'[i])
  BY <1>1, <1>3
<1>5. \A i \in m+1..Len(log) : ~Changes(log[i])
  BY <1>3
<1>6. LogRows(log') = LogRows(log)
  BY <1>1, <1>3, <1>4, <1>5, RowsSame
<1> QED BY <1>1, <1>6 DEF RowsKnown, ExpectedLogged, DataWritten

LEMMA RollbackDur ==
    ASSUME BaseInv, DurInv, BaseInv', NEW x \in Xid, Rollback(x)
    PROVE  DurInv'
<1>1. /\ phase = "up" /\ phase' = "up" /\ x \in Active /\ Ends(x, "ABORT")
      /\ mem' = mem /\ imaged' = imaged /\ platter' = platter /\ clogFile' = clogFile
      /\ losers' = losers /\ writes' = writes /\ control' = control
      /\ expected' = expected /\ work' = [work EXCEPT ![x] = Idle]
  BY DEF Rollback, pageVars, recVars
<1>2. /\ statusMap' = [statusMap EXCEPT ![x] = "ABORTED"] /\ clog' = [clog EXCEPT ![x] = "ABORTED"]
      /\ statusMap \in [Xid -> Status \cup {Unset}] /\ clog \in [Xid -> Status]
  BY DEF Rollback, SetStatus, BaseInv, StorageInv, TxOK
<1>3. Active' = Active \ {x}
  BY <1>2 DEF Active
<1>4. x \notin Committed(log) \cup Aborted(log)
  BY <1>1 DEF DurInv, StatusKnown, ActiveRun
<1>5. /\ Committed(log') = Committed(log) /\ Aborted(log') = Aborted(log) \cup {x}
      /\ \A y : Added(log', y) = Added(log, y) /\ Deleted(log', y) = Deleted(log, y)
      /\ \A i \in 1..Len(log') : Changes(log'[i]) => i \in 1..Len(log) /\ log'[i] = log[i]
  BY <1>1, EndLog
<1>6. LogOrderly' /\ MemKnown' /\ PlatterKnown' /\ MarksSynced'
  BY <1>1, <1>3, <1>4, <1>5, EndPages
<1>7. ~Crashed /\ ~Crashed'
  BY <1>1 DEF Crashed
<1>8. StatusKnown'
  <2>1. StatusKnown
    BY DEF DurInv
  <2>2. ActiveRun' /\ LosersRun'
    BY <1>1, <1>3, <1>4, <1>5, <2>1 DEF StatusKnown, ActiveRun, LosersRun
  <2>3. Accounted'
    <3>1. \A i \in 1..Len(log') : Changes(log'[i]) =>
             log'[i].xid \in Committed(log) \cup Aborted(log) \cup Active \cup losers
      BY <1>5, <1>7, <2>1 DEF StatusKnown, Accounted
    <3> QED BY <1>1, <1>3, <1>5, <3>1 DEF Accounted
  <2>4. CommitsLogged'
    BY <1>1, <1>2, <1>5, <2>1 DEF StatusKnown, CommitsLogged
  <2>5. CommitsKnown'
    BY <1>2, <1>4, <1>5, <1>7, <2>1 DEF StatusKnown, CommitsKnown
  <2>6. RedoInLog'
    BY <1>1 DEF RedoInLog
  <2> QED BY <1>6, <2>2, <2>3, <2>4, <2>5, <2>6 DEF StatusKnown
<1>9. RowsKnown'
  <2>1. RowsKnown
    BY DEF DurInv
  <2>2. ExpectedLogged' /\ DataWritten'
    BY <1>1, <2>1, AbortRows
  <2>3. WorkLogged'
    <3>1. work \in [Xid -> Work]
      BY DEF BaseInv, StorageInv, GhostsOK
    <3> QED BY <1>1, <1>3, <1>5, <2>1, <3>1 DEF RowsKnown, WorkLogged
  <2> QED BY <2>2, <2>3 DEF RowsKnown
<1> QED BY <1>6, <1>8, <1>9 DEF DurInv

\* Recovery's ABORT record of a loser is as good as the rollback that it missed.
LEMMA AbortLoserDur ==
    ASSUME BaseInv, DurInv, BaseInv', NEW x \in Xid, AbortLoser(x)
    PROVE  DurInv'
<1>1. /\ phase = "undo" /\ phase' = "undo" /\ x \in losers /\ Ends(x, "ABORT")
      /\ mem' = mem /\ imaged' = imaged /\ platter' = platter /\ clogFile' = clogFile
      /\ losers' = losers \ {x} /\ writes' = writes /\ control' = control
      /\ expected' = expected /\ work' = work
  BY DEF AbortLoser, pageVars, ghosts
<1>2. /\ statusMap' = [statusMap EXCEPT ![x] = "ABORTED"] /\ clog' = [clog EXCEPT ![x] = "ABORTED"]
      /\ statusMap \in [Xid -> Status \cup {Unset}] /\ clog \in [Xid -> Status]
  BY DEF AbortLoser, SetStatus, BaseInv, StorageInv, TxOK
<1>3. Active = {} /\ Active' = {}
  <2>1. Active = {}
    BY <1>1 DEF DurInv, StatusKnown, ActiveRun
  <2> QED BY <1>2, <2>1 DEF Active
<1>4. x \notin Committed(log) \cup Aborted(log)
  BY <1>1 DEF DurInv, StatusKnown, LosersRun
<1>5. /\ Committed(log') = Committed(log) /\ Aborted(log') = Aborted(log) \cup {x}
      /\ \A y : Added(log', y) = Added(log, y) /\ Deleted(log', y) = Deleted(log, y)
      /\ \A i \in 1..Len(log') : Changes(log'[i]) => i \in 1..Len(log) /\ log'[i] = log[i]
  BY <1>1, EndLog
<1>6. LogOrderly' /\ MemKnown' /\ PlatterKnown' /\ MarksSynced'
  BY <1>1, <1>3, <1>4, <1>5, EndPages
<1>7. ~Crashed /\ ~Crashed'
  BY <1>1 DEF Crashed
<1>8. StatusKnown'
  <2>1. StatusKnown
    BY DEF DurInv
  <2>2. ActiveRun' /\ LosersRun'
    BY <1>1, <1>3, <1>5, <2>1 DEF StatusKnown, ActiveRun, LosersRun
  <2>3. Accounted'
    <3>1. \A i \in 1..Len(log') : Changes(log'[i]) =>
             log'[i].xid \in Committed(log) \cup Aborted(log) \cup losers
      BY <1>3, <1>5, <1>7, <2>1 DEF StatusKnown, Accounted
    <3> QED BY <1>1, <1>3, <1>5, <3>1 DEF Accounted
  <2>4. CommitsLogged'
    BY <1>1, <1>2, <1>5, <2>1 DEF StatusKnown, CommitsLogged
  <2>5. CommitsKnown'
    BY <1>2, <1>4, <1>5, <1>7, <2>1 DEF StatusKnown, CommitsKnown
  <2>6. RedoInLog'
    BY <1>1 DEF RedoInLog
  <2> QED BY <1>6, <2>2, <2>3, <2>4, <2>5, <2>6 DEF StatusKnown
<1>9. RowsKnown'
  <2>1. RowsKnown
    BY DEF DurInv
  <2>2. ExpectedLogged' /\ DataWritten'
    BY <1>1, <2>1, AbortRows
  <2>3. WorkLogged'
    BY <1>1, <1>3, <2>1 DEF RowsKnown, WorkLogged
  <2> QED BY <2>2, <2>3 DEF RowsKnown
<1> QED BY <1>6, <1>8, <1>9 DEF DurInv

\* A step of an engine that nobody uses, apart from the pages.
LEMMA IdleStep ==
    ASSUME BaseInv, DurInv, BaseInv', log' = log, ~Crashed, ~Crashed', Active = {}, Active' = {},
           losers' = losers, phase' # "redo", phase' \notin {"redo", "undo"} => losers = {},
           clog' = clog, clogFile' \in {clogFile, clog},
           \A x \in Xid : statusMap'[x] \in {statusMap[x], Unset},
           synced' = synced \/ synced' = Len(log),
           expected' = expected, writes' = writes, \A x \in Xid : work'[x] \in {work[x], Idle}
    PROVE  StatusKnown' /\ RowsKnown'
<1>1. StatusKnown /\ RowsKnown
  BY DEF DurInv
<1>2. ActiveRun' /\ LosersRun' /\ Accounted'
  BY <1>1 DEF StatusKnown, ActiveRun, LosersRun, Accounted
<1>3. CommitsLogged'
  BY <1>1 DEF StatusKnown, CommitsLogged, Unset
<1>4. CommitsKnown'
  <2>1. Committed(log) \subseteq Xid
    BY DEF Committed
  <2> QED BY <1>1, <2>1 DEF StatusKnown, CommitsKnown
<1>5. MarksSynced' /\ RedoInLog'
  BY <1>1, FirstLemma DEF StatusKnown, MarksSynced, RedoInLog
<1>6. ExpectedLogged' /\ DataWritten'
  BY <1>1 DEF RowsKnown, ExpectedLogged, DataWritten
<1>7. WorkLogged'
  <2>1. \A x \in Xid : work[x] = Idle
    BY <1>1 DEF RowsKnown, WorkLogged
  <2> QED BY <2>1 DEF WorkLogged
<1> QED BY <1>2, <1>3, <1>4, <1>5, <1>6, <1>7 DEF StatusKnown, RowsKnown

\* Its pages, too, if all of the log is synced when they are written out.
LEMMA IdlePages ==
    ASSUME BaseInv, DurInv, BaseInv', log' = log, ~Crashed, ~Crashed', phase # "redo",
           phase' # "redo", Active = {}, Active' = {}, mem' = mem, imaged' \subseteq imaged,
           \/ platter' = platter /\ synced' = synced
           \/ synced' = Len(log) /\ \A p \in Page : platter'[p] = {mem[p]}
    PROVE  LogOrderly' /\ MemKnown' /\ PlatterKnown'
<1>1. Prefix(log, log') /\ \A i : i \notin Len(log)+1..Len(log')
  BY SameLog
<1>2. Fewer(log, Len(log), Counted, Counted')
  BY DEF Fewer, Counted
<1>3. synced <= synced' /\ synced' \in Nat
  BY <1>1, GrownLog
<1> QED BY <1>1, <1>2, <1>3, QuietPages

LEMMA CloseDur ==
    ASSUME BaseInv, DurInv, BaseInv', Close
    PROVE  DurInv'
<1>1. /\ phase = "up" /\ phase' = "down" /\ ~control'.inProduction /\ Active = {}
      /\ log' = log /\ mem' = mem /\ clog' = clog /\ clogFile' = clog /\ expected' = expected
      /\ writes' = writes /\ losers' = {} /\ imaged' = {}
      /\ statusMap' = [x \in Xid |-> Unset] /\ work' = [x \in Xid |-> Idle]
  BY DEF Close, MemoryLost
<1>2. \A p \in Page : platter'[p] = {mem[p]}
  BY FlushAndSyncLemma DEF Close, BaseInv
<1>3. synced' = Len(log)
  BY <1>1, AllFlushed DEF Close, BaseInv
<1>4. ~Crashed /\ ~Crashed' /\ Active' = {} /\ losers = {}
  BY <1>1 DEF Crashed, Active, Unset, DurInv, StatusKnown, LosersRun
<1>5. LogOrderly' /\ MemKnown' /\ PlatterKnown'
  BY <1>1, <1>2, <1>3, <1>4, IdlePages
<1>6. StatusKnown' /\ RowsKnown'
  BY <1>1, <1>3, <1>4, IdleStep
<1> QED BY <1>5, <1>6 DEF DurInv

LEMMA RecoveryEndsDur ==
    ASSUME BaseInv, DurInv, BaseInv', RecoveryEnds
    PROVE  DurInv'
<1>1. /\ phase = "undo" /\ phase' = "up" /\ losers = {} /\ losers' = losers
      /\ log' = log /\ mem' = mem /\ clog' = clog /\ clogFile' = clogFile /\ imaged' = imaged
      /\ expected' = expected /\ writes' = writes /\ statusMap' = statusMap /\ work' = work
  BY DEF RecoveryEnds, ghosts
<1>2. \A p \in Page : platter'[p] = {mem[p]}
  BY FlushAndSyncLemma DEF RecoveryEnds, BaseInv
<1>3. synced' = Len(log)
  BY <1>1, AllFlushed DEF RecoveryEnds, BaseInv, StorageInv, WalOK
<1>4. ~Crashed /\ ~Crashed' /\ Active = {} /\ Active' = {}
  BY <1>1 DEF Crashed, Active, DurInv, StatusKnown, ActiveRun
<1>5. LogOrderly' /\ MemKnown' /\ PlatterKnown'
  BY <1>1, <1>2, <1>3, <1>4, IdlePages
<1>6. StatusKnown' /\ RowsKnown'
  BY <1>1, <1>3, <1>4, IdleStep
<1> QED BY <1>5, <1>6 DEF DurInv

LEMMA StartCleanDur ==
    ASSUME BaseInv, DurInv, BaseInv', StartClean
    PROVE  DurInv'
<1>1. /\ phase = "down" /\ ~control.inProduction /\ phase' = "up" /\ losers' = losers
      /\ log' = log /\ mem' = mem /\ clog' = clog /\ clogFile' = clogFile /\ imaged' = imaged
      /\ synced' = synced /\ platter' = platter
      /\ expected' = expected /\ writes' = writes /\ statusMap' = statusMap /\ work' = work
  BY DEF StartClean, walVars, pageVars, ghosts
<1>2. ~Crashed /\ ~Crashed' /\ Active = {} /\ Active' = {} /\ losers = {}
  BY <1>1 DEF Crashed, Active, DurInv, StatusKnown, ActiveRun, LosersRun
<1>3. LogOrderly' /\ MemKnown' /\ PlatterKnown'
  BY <1>1, <1>2, IdlePages
<1>4. StatusKnown' /\ RowsKnown'
  BY <1>1, <1>2, IdleStep
<1> QED BY <1>3, <1>4 DEF DurInv

\* Redo has brought the pages up to the end of the log.
LEMMA RedoEndsDur ==
    ASSUME BaseInv, DurInv, BaseInv', RedoEnds
    PROVE  DurInv'
<1>1. /\ phase = "redo" /\ at > upto /\ phase' = "undo" /\ losers' = losers
      /\ log' = log /\ mem' = mem /\ clog' = clog /\ clogFile' = clogFile /\ imaged' = imaged
      /\ synced' = synced /\ platter' = platter
      /\ expected' = expected /\ writes' = writes /\ statusMap' = statusMap /\ work' = work
  BY DEF RedoEnds, walVars, pageVars, txVars, ghosts
<1>2. ~Crashed /\ ~Crashed' /\ Active = {} /\ Active' = {}
  BY <1>1 DEF Crashed, Active, DurInv, StatusKnown, ActiveRun
<1>3. First' = First /\ Counted' = Counted
  BY <1>1, <1>2 DEF First, StartRecord, Counted
<1>4. Done = Len(log) /\ Done' = Len(log)
  <2>1. upto = Len(log) /\ at \in 0..(upto + 1) /\ Len(log) \in Nat
    BY <1>1, FirstLemma DEF DurInv, StatusKnown, RedoInLog, BaseInv, StorageInv, Passes
  <2> QED BY <1>1, <1>2, <2>1 DEF Done
<1>5. LogOrderly' /\ MemKnown' /\ PlatterKnown'
  BY <1>1, <1>3, <1>4 DEF DurInv, LogOrderly, MemKnown, PlatterKnown
<1>6. StatusKnown' /\ RowsKnown'
  BY <1>1, <1>2, IdleStep
<1> QED BY <1>5, <1>6 DEF DurInv

----------------------------------------------------------------------------
(* Checkpoints, and pages written out to make room. *)

\* Records that neither change rows nor end transactions.
LEMMA QuietLog ==
    ASSUME BaseInv, BaseInv', Prefix(log, log'),
           \A i \in Len(log)+1..Len(log') : log'[i].type \in {"CLR", "CHECKPOINT"}
    PROVE  /\ Committed(log') = Committed(log) /\ Aborted(log') = Aborted(log)
           /\ \A y : Added(log', y) = Added(log, y) /\ Deleted(log', y) = Deleted(log, y)
           /\ LogRows(log') = LogRows(log)
           /\ \A i \in 1..Len(log') : Changes(log'[i]) => i \in 1..Len(log) /\ log'[i] = log[i]
<1>1. PICK m \in Nat : /\ m = Len(log) /\ m <= Len(log') /\ Alike(log, log', m)
                       /\ Len(log) \in Nat /\ Len(log') \in Nat
  BY GrownLog
<1>2. \A i \in m+1..Len(log') : ~Changes(log'[i]) /\ log'[i].type \notin {"COMMIT", "ABORT"}
  BY <1>1 DEF Changes
<1>3. Committed(log') = Committed(log) /\ Aborted(log') = Aborted(log)
  BY <1>1, <1>2, NoEnd
<1>4. \A y : Added(log', y) = Added(log, y) /\ Deleted(log', y) = Deleted(log, y)
  BY <1>1, <1>2, WorkSame
<1>5. LogRows(log') = LogRows(log)
  <2>1. \A i \in m+1..Len(log) : ~Changes(log[i])
    BY <1>1
  <2> QED BY <1>1, <1>2, <1>3, <2>1, RowsSame
<1>6. \A i \in 1..Len(log') : Changes(log'[i]) => i \in 1..Len(log) /\ log'[i] = log[i]
  <2>1. \A i \in 1..Len(log') : i \in 1..Len(log) \/ i \in m+1..Len(log')
    BY <1>1
  <2> QED BY <1>1, <1>2, <2>1 DEF Alike
<1> QED BY <1>3, <1>4, <1>5, <1>6

\* What is known of transactions and rows when such a record is logged.
LEMMA QuietStatus ==
    ASSUME BaseInv, DurInv, BaseInv', Prefix(log, log'),
           \A i \in Len(log)+1..Len(log') : log'[i].type \in {"CLR", "CHECKPOINT"},
           ~Crashed, phase' = phase, phase' # "redo", statusMap' = statusMap, clog' = clog,
           clogFile' \in {clogFile, clog}, losers' = losers,
           work' = work, expected' = expected, writes' = writes
    PROVE  /\ ActiveRun' /\ LosersRun' /\ Accounted' /\ CommitsLogged' /\ CommitsKnown'
           /\ RedoInLog' /\ RowsKnown' /\ Counted' = Counted
<1>1. StatusKnown /\ RowsKnown
  BY DEF DurInv
<1>2. Active' = Active
  BY DEF Active
<1>3. /\ Committed(log') = Committed(log) /\ Aborted(log') = Aborted(log)
      /\ \A y : Added(log', y) = Added(log, y) /\ Deleted(log', y) = Deleted(log, y)
      /\ LogRows(log') = LogRows(log)
      /\ \A i \in 1..Len(log') : Changes(log'[i]) => i \in 1..Len(log) /\ log'[i] = log[i]
  BY QuietLog
<1>4. ActiveRun' /\ LosersRun'
  BY <1>1, <1>2, <1>3 DEF StatusKnown, ActiveRun, LosersRun
<1>5. Accounted'
  <2>1. \A i \in 1..Len(log') : Changes(log'[i]) =>
           log'[i].xid \in Committed(log) \cup Aborted(log) \cup Active \cup losers
    BY <1>1, <1>3 DEF StatusKnown, Accounted
  <2> QED BY <1>2, <1>3, <2>1 DEF Accounted
<1>6. CommitsLogged'
  BY <1>1, <1>3 DEF StatusKnown, CommitsLogged
<1>7. CommitsKnown'
  BY <1>1, <1>3 DEF StatusKnown, CommitsKnown
<1>8. RedoInLog'
  BY DEF RedoInLog
<1>9. RowsKnown'
  <2>1. ExpectedLogged' /\ DataWritten'
    BY <1>1, <1>3 DEF RowsKnown, ExpectedLogged, DataWritten
  <2>2. WorkLogged'
    BY <1>1, <1>2, <1>3 DEF RowsKnown, WorkLogged
  <2> QED BY <2>1, <2>2 DEF RowsKnown
<1> QED BY <1>2, <1>3, <1>4, <1>5, <1>6, <1>7, <1>8, <1>9 DEF Counted

LEMMA CheckpointDur ==
    ASSUME BaseInv, DurInv, BaseInv', Checkpoint
    PROVE  DurInv'
<1>1. /\ phase = "up" /\ phase' = phase /\ statusMap' = statusMap /\ clog' = clog /\ clogFile' = clog
      /\ losers' = losers /\ mem' = mem /\ imaged' = {}
      /\ work' = work /\ expected' = expected /\ writes' = writes
  BY DEF Checkpoint, recVars, ghosts
<1>2. /\ Prefix(log, log') /\ Len(log') = Len(log) + 1
      /\ log'[Len(log')] = TxRecord("CHECKPOINT", 0) /\ synced' = Len(log')
  BY CheckpointEffect DEF BaseInv
<1>3. \A p \in Page : platter'[p] = {mem[p]}
  BY <1>1, FlushAndSyncLemma DEF Checkpoint, BaseInv
<1>4. ~Crashed /\ ~Crashed'
  BY <1>1 DEF Crashed
<1>5. PICK m \in Nat, n \in Nat : /\ m = Len(log) /\ n = Len(log') /\ n = m + 1
                                  /\ m <= Len(log) /\ m <= Len(log') /\ Alike(log, log', m)
  BY <1>2, GrownLog
<1>6. log'[n].type = "CHECKPOINT"
  BY <1>2, <1>5, TxRecordLemma
<1>7. \A i \in Len(log)+1..Len(log') : log'[i].type \in {"CLR", "CHECKPOINT"}
  BY <1>5, <1>6
<1>8. /\ ActiveRun' /\ LosersRun' /\ Accounted' /\ CommitsLogged' /\ CommitsKnown'
      /\ RedoInLog' /\ RowsKnown' /\ Counted' = Counted
  BY <1>1, <1>2, <1>4, <1>7, QuietStatus
<1>9. First' = n
  <2>1. PICK S : S = {1} \cup {i \in 1..n : log'[i].type = "CHECKPOINT"}
    OBVIOUS
  <2>2. S \in SUBSET Nat /\ n \in S /\ S # {}
    BY <1>5, <1>6, <2>1
  <2>3. \A i \in S : i <= n
    BY <1>5, <2>1
  <2>4. PICK b : b = Max(S)
    OBVIOUS
  <2>5. b \in S /\ \A i \in S : i <= b
    BY <2>2, <2>3, <2>4, MaxIsGreatest
  <2>6. b = n
    BY <2>2, <2>3, <2>5
  <2> QED BY <1>5, <2>1, <2>4, <2>6 DEF First, StartRecord
<1>10. Fewer(log, m, Counted, Counted') /\ Fewer(log, Len(log), Counted, Counted')
  BY <1>8 DEF Fewer
<1>11. LogOrderly'
  <2>1. Orderly(log, Counted, n, {})
    <3>1. n..Len(log) = {}
      BY <1>5
    <3> QED BY <3>1 DEF DurInv, LogOrderly, Orderly
  <2>2. \A i \in m+1..Len(log') : i = n
    BY <1>5
  <2>3. \A i \in m+1..Len(log') : /\ Allowed(log', i) /\ ImageIsWhole(log', Counted', i)
                                  /\ ImageGoesFirst(log', n, i)
    BY <1>6, <2>2, OtherAllowed, OtherWhole DEF Changes
  <2>4. n \in Nat /\ n >= 1
    BY <1>5
  <2>5. \A p \in {} : (p \in {} /\ m = Len(log)) \/ Mended(log', p, n, Len(log'))
    OBVIOUS
  <2>6. Orderly(log', Counted', n, {})
    BY <1>5, <1>10, <2>1, <2>3, <2>4, <2>5, GrownLog, <1>2, OrderlyStays
  <2> QED BY <1>1, <1>9, <2>6 DEF LogOrderly
<1>12. \A p \in Page : Known(log', Counted', n, n, p, mem[p])
  <2>1. \A i \in Len(log)+1..Len(log') : \A p : ~Alters(log'[i], p)
    BY <1>7 DEF Alters
  <2> QED BY <1>1, <1>2, <1>4, <1>5, <1>10, <2>1, MemStaysKnown
<1>13. MemKnown'
  BY <1>1, <1>4, <1>5, <1>12 DEF MemKnown, Done
<1>14. PlatterKnown'
  <2>1. \A p \in Page : Known(log', Counted', m, n, p, mem[p])
    BY <1>5, <1>12, KnownBack
  <2>2. First' - 1 = m /\ synced' = n
    BY <1>2, <1>5, <1>9
  <2> QED BY <1>3, <2>1, <2>2 DEF PlatterKnown
<1>15. MarksSynced'
  BY <1>2, <1>5 DEF MarksSynced
<1> QED BY <1>8, <1>11, <1>13, <1>14, <1>15 DEF DurInv, StatusKnown

\* flush(lsn) leaves synced what the page shows.
LEMMA EvictedKnown ==
    ASSUME BaseInv, DurInv, BaseInv', NEW p \in Page, Evict(p)
    PROVE  Known(log, Counted, First - 1, synced', p, mem[p]) /\ synced <= synced'
<1>1. mem[p] \in Image /\ mem[p].lsn \in Nat
  BY DEF Evict, BaseInv, StorageInv, PagesOK, Images, Present, Image
<1>2. /\ log' = log /\ phase # "down" /\ Flush(log, mem[p].lsn) /\ ~Crashed
      /\ Len(log) \in Nat /\ synced \in 0..Len(log) /\ synced' \in 0..Len(log)
  BY FirstLemma DEF Evict, Crashed, BaseInv, StorageInv, WalOK
<1>3. synced <= synced' /\ \A i \in 1..Len(log) : Inside(i) <= mem[p].lsn => i <= synced'
  BY <1>1, <1>2, FlushKeepsWal DEF BaseInv, StorageInv, WalOK, Evict
<1>4. Known(log, Counted, Done, Len(log), p, mem[p])
  BY DEF DurInv, MemKnown
<1>5. mem[p].formatted /\ mem[p].lsn <= End(synced')
  <2>1. mem[p].formatted /\ mem[p].lsn <= End(Len(log))
    BY <1>1, <1>4, NoTupleNoImage DEF Known, Present
  <2>2. PICK l \in Nat, s \in Nat, n \in Nat :
           l = mem[p].lsn /\ s = synced' /\ n = Len(log) /\ s <= n
    BY <1>1, <1>2
  <2>3. ~(2 * s < l)
    <3> SUFFICES ASSUME 2 * s < l PROVE FALSE
      OBVIOUS
    <3>1. l <= 2 * n
      BY <2>1, <2>2 DEF End
    <3>2. PICK i \in 1..n : i = s + 1
      BY <3>1
    <3>3. Inside(i) <= l
      BY <3>2 DEF Inside
    <3>4. i <= s
      BY <1>3, <2>2, <3>3
    <3> QED BY <3>2, <3>4
  <2> QED BY <2>1, <2>2, <2>3 DEF End
<1>6. First - 1 \in Nat /\ First - 1 <= Len(log) /\ First \in Nat
  BY FirstSynced, FirstLemma DEF DurInv
<1>7. CASE phase = "redo"
  <2>1. synced' = Len(log)
    BY <1>2, <1>3, <1>7 DEF BaseInv, LogInv, DownSynced
  <2>2. PICK k \in Nat, j \in Nat : k = Done /\ j = First - 1 /\ j <= k
    <3>1. Done = at - 1 /\ at >= First /\ at \in Nat
      BY <1>7, LenProperties DEF Done, DurInv, StatusKnown, RedoInLog, BaseInv, StorageInv, Passes, WalOK
    <3> QED BY <1>6, <3>1
  <2>3. Known(log, Counted, k, Len(log), p, mem[p])
    BY <1>4, <2>2
  <2>4. Known(log, Counted, j, Len(log), p, mem[p])
    BY <2>2, <2>3, KnownBack
  <2> QED BY <1>3, <2>1, <2>2, <2>4
<1>8. CASE phase # "redo"
  <2>1. Held(log, Counted, Len(log), p, mem[p])
    BY <1>2, <1>8, UpHeld
  <2>2. PICK k \in Int, j \in Int : k = Len(log) /\ j = First - 1 /\ j <= k
    BY <1>2, <1>6
  <2>3. Held(log, Counted, j, p, mem[p])
    BY <2>1, <2>2, HeldBack
  <2>4. p = 0 => Present(mem[p])
    BY <1>4 DEF Known
  <2> QED BY <1>3, <1>5, <2>2, <2>3, <2>4 DEF Known
<1> QED BY <1>7, <1>8

LEMMA EvictDur ==
    ASSUME BaseInv, DurInv, BaseInv', NEW p \in Page, Evict(p)
    PROVE  DurInv'
<1>1. /\ log' = log /\ phase' = phase /\ at' = at /\ upto' = upto /\ statusMap' = statusMap
      /\ clog' = clog /\ clogFile' = clogFile /\ control' = control
      /\ losers' = losers /\ mem' = mem /\ imaged' = imaged
      /\ work' = work /\ expected' = expected /\ writes' = writes
      /\ platter' = [platter EXCEPT ![p] = @ \cup {mem[p]}]
  BY DEF Evict, recVars, txVars
<1>2. Known(log, Counted, First - 1, synced', p, mem[p]) /\ synced <= synced'
  BY EvictedKnown
<1>3. First' = First /\ Active' = Active /\ Counted' = Counted /\ Crashed' = Crashed /\ Done' = Done
  BY <1>1 DEF First, StartRecord, Active, Counted, Crashed, Done
<1>4. LogOrderly' /\ MemKnown'
  BY <1>1, <1>3 DEF DurInv, LogOrderly, MemKnown
<1>5. PlatterKnown'
  <2>1. Prefix(log, log')
    BY <1>1, SameLog
  <2>2. Fewer(log, Len(log), Counted, Counted')
    BY <1>3 DEF Fewer
  <2>3. \A q \in Page : \A img \in platter'[q] :
           \/ img \in platter[q] \/ img = ZeroPage
           \/ Known(log', Counted', First - 1, synced', q, img)
    <3>1. \A q \in Page : platter'[q] = IF q = p THEN platter[q] \cup {mem[q]} ELSE platter[q]
      BY <1>1 DEF BaseInv, StorageInv, PagesOK
    <3> QED BY <1>1, <1>2, <1>3, <3>1
  <2> QED BY <1>2, <1>3, <2>1, <2>2, <2>3, PlatterStaysKnown
<1>6. StatusKnown'
  <2>1. StatusKnown
    BY DEF DurInv
  <2>2. ActiveRun' /\ LosersRun' /\ Accounted'
    BY <1>1, <1>3, <2>1 DEF StatusKnown, ActiveRun, LosersRun, Accounted
  <2>3. CommitsLogged' /\ CommitsKnown' /\ RedoInLog'
    BY <1>1, <1>3, <2>1 DEF StatusKnown, CommitsLogged, CommitsKnown, RedoInLog
  <2>4. MarksSynced'
    <3>1. synced \in Nat /\ synced' \in Nat
      BY <1>1, SameLog, GrownLog
    <3> QED BY <1>1, <1>2, <2>1, <3>1, FirstLemma DEF StatusKnown, MarksSynced
  <2> QED BY <2>2, <2>3, <2>4 DEF StatusKnown
<1>7. RowsKnown'
  BY <1>1, <1>3 DEF DurInv, RowsKnown, ExpectedLogged, WorkLogged, DataWritten
<1> QED BY <1>4, <1>5, <1>6, <1>7 DEF DurInv

----------------------------------------------------------------------------
(* Statements: what they log is allowed. *)

\* What is not counted, while statements run, has been rolled back.
LEMMA CountedOrAborted ==
    ASSUME BaseInv, DurInv, phase = "up", NEW i \in 1..Len(log), Changes(log[i])
    PROVE  log[i].xid \in Counted \/ Before(log, Len(log) + 1, "ABORT", log[i].xid)
<1>1. log[i].xid \in Committed(log) \cup Aborted(log) \cup Active \cup losers
  BY UpDone DEF DurInv, StatusKnown, Accounted
<1>2. losers = {}
  BY DEF DurInv, StatusKnown, LosersRun
<1> QED BY <1>1, <1>2 DEF Counted, Aborted

\* The slot that a statement takes is in no change that counts.
LEMMA FreeSlotIsFree ==
    ASSUME BaseInv, DurInv, phase = "up", NEW q \in Page, Takes(q),
           NEW i \in 1..Len(log), Changes(log[i]), log[i].xid \in Counted
    PROVE  log[i].new # NewCtid(q) /\ (log[i].type = "UPDATE" => log[i].old # NewCtid(q))
<1>1. ~Crashed /\ phase # "redo"
  BY UpDone
<1>2. /\ NewCtid(q).page = q /\ Target(q).tup[NewCtid(q).slot] = Unused
      /\ Present(mem[q]) => Target(q) = mem[q]
  BY TargetLemma DEF BaseInv
<1>3. log[i].new # NewCtid(q)
  BY <1>1, <1>2, NewShown
<1>4. log[i].type = "UPDATE" => log[i].old # NewCtid(q)
  BY <1>1, <1>2, OldShown
<1> QED BY <1>3, <1>4

\* Every page below one that is there has been written to.
LEMMA WrittenBelow ==
    ASSUME BaseInv, DurInv, phase = "up", NEW q \in Page, Present(mem[q]),
           NEW r \in Page, 0 < r, r <= q
    PROVE  \E j \in 1..Len(log) : Alters(log[j], r)
<1>1. q \in Nat /\ r \in Nat /\ q # 0 /\ log \in Seq(Record) /\ Len(log) \in Nat
  BY Constants, FirstLemma
<1>2. Held(log, Counted, Len(log), q, mem[q])
  BY UpDone, UpHeld
<1>3. PICK i \in 1..Len(log) : Alters(log[i], q)
  BY <1>1, <1>2 DEF Held
<1>4. CASE r = q
  BY <1>3, <1>4
<1>5. CASE r < q
  <2>1. q \in Targets(log[i]) /\ Changes(log[i])
    BY <1>1, <1>3, ElementOfSeq, TargetsLemma DEF Alters, Changes
  <2>2. NoHoles(log, i)
    BY <2>1 DEF DurInv, LogOrderly, Orderly, Allowed
  <2>3. PICK j \in 1..i-1 : Alters(log[j], r)
    BY <1>5, <2>1, <2>2 DEF NoHoles
  <2>4. j \in 1..Len(log)
    BY <1>1
  <2> QED BY <2>3, <2>4
<1> QED BY <1>1, <1>4, <1>5

LEMMA WrittenBelowTarget ==
    ASSUME BaseInv, DurInv, phase = "up", NEW q \in Page, Takes(q),
           NEW r \in Page, 0 < r, r < q
    PROVE  \E j \in 1..Len(log) : Alters(log[j], r)
<1>1. q \in Nat /\ r \in Nat
  BY Constants
<1>2. CASE Present(mem[q])
  BY <1>1, <1>2, WrittenBelow
<1>3. CASE ~Present(mem[q])
  <2>1. Present(mem[q - 1])
    BY <1>3 DEF Takes, HasRoom, Extends
  <2>2. PICK b : b = q - 1
    OBVIOUS
  <2>3. b \in Page /\ b \in Nat /\ r <= b
    <3>1. PICK c \in Int : c = Cardinality(Page) - 1
      BY RecoveryOK, FS_CardinalityType
    <3>2. Page = 0..c
      BY <3>1, RecoveryOK
    <3> QED BY <1>1, <2>2, <3>2
  <2>4. Present(mem[b])
    BY <2>1, <2>2
  <2> QED BY <2>3, <2>4, WrittenBelow
<1> QED BY <1>2, <1>3

\* A log that a statement of transaction x, writing to page q, has come to record n of.
Statement(lg, n, x, q) ==
    /\ Prefix(log, lg) /\ n \in Len(log)+1..Len(lg)
    /\ Changes(lg[n]) /\ lg[n].new = NewCtid(q) /\ lg[n].xid = x /\ lg[n].tuple = NewTuple(x)
    /\ \A i \in Len(log)+1..n-1 :
          \/ lg[i].type = "FPI"
          \/ /\ lg[i].type = "INSERT" /\ lg[i].new = NewCtid(q)
             /\ lg[i].xid = x /\ lg[i].tuple = NewTuple(x)
    /\ lg[n].type = "UPDATE" => Present(mem[lg[n].old.page])

LEMMA StatementLog ==
    ASSUME BaseInv, NEW lg, NEW n, NEW x, NEW q, Statement(lg, n, x, q)
    PROVE  /\ lg \in Seq(Record) /\ Len(lg) \in Nat /\ Len(log) \in Nat /\ n \in 1..Len(lg)
           /\ \A i \in 1..n-1 : i \in 1..Len(log) \/ i \in Len(log)+1..n-1
           /\ \A i \in 1..Len(log) : i \in 1..n-1 /\ lg[i] = log[i]
           /\ \A type, y : type \in {"COMMIT", "ABORT"} =>
                 (Before(lg, n, type, y) <=> Before(log, Len(log) + 1, type, y))
<1>1. lg \in Seq(Record) /\ Len(lg) \in Nat /\ Len(log) \in Nat
  BY FirstLemma, LenProperties DEF Statement, Prefix
<1>2. PICK m \in Nat, k \in Nat : m = Len(log) /\ k = n - 1 /\ m <= k /\ n = k + 1 /\ n <= Len(lg)
  BY <1>1 DEF Statement
<1>3. Alike(log, lg, m)
  BY <1>2 DEF Alike, Statement, Prefix
<1>4. ASSUME NEW type \in {"COMMIT", "ABORT"}, NEW y
      PROVE  Before(lg, n, type, y) <=> Before(log, Len(log) + 1, type, y)
  <2>1. \A i \in m+1..k : ~(lg[i].type = type /\ lg[i].xid = y)
    BY <1>2 DEF Statement
  <2>2. m <= k
    BY <1>2
  <2>3. Before(lg, k + 1, type, y) <=> Before(log, m + 1, type, y)
    BY <1>3, <2>1, <2>2, BeforeSame
  <2> QED BY <1>2, <2>3
<1>5. \A i \in 1..Len(log) : i \in 1..n-1 /\ lg[i] = log[i]
  BY <1>2, <1>3 DEF Alike
<1> QED BY <1>1, <1>2, <1>4, <1>5

LEMMA VersionAllowed ==
    ASSUME BaseInv, DurInv, phase = "up", NEW x \in Active, MayWrite(x),
           NEW q \in Page, Takes(q), NEW lg, NEW n, Statement(lg, n, x, q)
    PROVE  SlotWasFree(lg, n) /\ DataIsNew(lg, n) /\ NoHoles(lg, n) /\ StillRuns(lg, n)
<1>1. /\ lg \in Seq(Record) /\ Len(lg) \in Nat /\ Len(log) \in Nat /\ n \in 1..Len(lg)
      /\ \A i \in 1..n-1 : i \in 1..Len(log) \/ i \in Len(log)+1..n-1
      /\ \A i \in 1..Len(log) : i \in 1..n-1 /\ lg[i] = log[i]
      /\ \A type, y : type \in {"COMMIT", "ABORT"} =>
            (Before(lg, n, type, y) <=> Before(log, Len(log) + 1, type, y))
  BY StatementLog
<1>2. x \in Xid /\ NewTuple(x).xmin = x /\ NewTuple(x).data = writes + 1 /\ writes \in Nat
  BY NewTupleLemma DEF Active, BaseInv, StorageInv, GhostsOK
<1>3. /\ Changes(lg[n]) /\ lg[n].new = NewCtid(q) /\ lg[n].xid = x /\ lg[n].tuple = NewTuple(x)
      /\ \A i \in Len(log)+1..n-1 :
            \/ lg[i].type = "FPI"
            \/ /\ lg[i].type = "INSERT" /\ lg[i].new = NewCtid(q)
               /\ lg[i].xid = x /\ lg[i].tuple = NewTuple(x)
      /\ lg[n].type = "UPDATE" => Present(mem[lg[n].old.page])
  BY DEF Statement
<1>4. SlotWasFree(lg, n)
  <2> SUFFICES ASSUME NEW i \in 1..n-1
               PROVE  /\ Changes(lg[i]) /\ lg[i].new = lg[n].new =>
                           \/ lg[i].xid = lg[n].xid /\ lg[i].tuple.data = lg[n].tuple.data
                           \/ Before(lg, n, "ABORT", lg[i].xid)
                      /\ lg[i].type = "UPDATE" /\ lg[i].old = lg[n].new =>
                           Before(lg, n, "ABORT", lg[i].xid)
    BY DEF SlotWasFree
  <2>1. CASE i \in Len(log)+1..n-1
    BY <1>3, <2>1 DEF Changes
  <2>2. CASE i \in 1..Len(log)
    <3>1. lg[i] = log[i]
      BY <1>1, <2>2
    <3>2. CASE Changes(log[i])
      <4>1. log[i].xid \in Counted =>
               log[i].new # NewCtid(q) /\ (log[i].type = "UPDATE" => log[i].old # NewCtid(q))
        BY <2>2, <3>2, FreeSlotIsFree
      <4>2. log[i].xid \in Counted \/ Before(log, Len(log) + 1, "ABORT", log[i].xid)
        BY <2>2, <3>2, CountedOrAborted
      <4> QED BY <1>1, <1>3, <3>1, <4>1, <4>2
    <3>3. CASE ~Changes(log[i])
      BY <3>1, <3>3 DEF Changes
    <3> QED BY <3>2, <3>3
  <2> QED BY <1>1, <2>1, <2>2
<1>5. DataIsNew(lg, n)
  <2> SUFFICES ASSUME NEW i \in 1..n-1, Changes(lg[i]), lg[i].tuple.data = lg[n].tuple.data
               PROVE  lg[i].new = lg[n].new /\ lg[i].xid = lg[n].xid
    BY <1>2, <1>3 DEF DataIsNew
  <2>1. CASE i \in Len(log)+1..n-1
    BY <1>3, <2>1 DEF Changes
  <2>2. CASE i \in 1..Len(log)
    <3>1. log[i].tuple.data <= writes /\ log[i].tuple.data = writes + 1
      BY <1>1, <1>2, <1>3, <2>2 DEF DurInv, RowsKnown, DataWritten
    <3> QED BY <1>2, <3>1
  <2> QED BY <1>1, <2>1, <2>2
<1>6. NoHoles(lg, n)
  <2> SUFFICES ASSUME NEW t \in Targets(lg[n]), NEW r \in Page, 0 < r, r < t
               PROVE  \E j \in 1..n-1 : Alters(lg[j], r)
    BY DEF NoHoles
  <2>1. lg[n] \in Record
    BY <1>1, ElementOfSeq
  <2>2. t \in Page /\ (t = q \/ (lg[n].type = "UPDATE" /\ t = lg[n].old.page))
    <3>1. NewCtid(q).page = q
      BY TargetLemma DEF BaseInv
    <3>2. /\ lg[n].type = "INSERT" => Targets(lg[n]) = {lg[n].new.page}
          /\ lg[n].type = "UPDATE" => Targets(lg[n]) = {lg[n].old.page, lg[n].new.page}
      BY DEF Targets
    <3>3. lg[n].type = "UPDATE" => lg[n].old.page \in Page
      BY <2>1, RecordFields DEF Ctid
    <3> QED BY <1>3, <3>1, <3>2, <3>3 DEF Changes
  <2>3. PICK j \in 1..Len(log) : Alters(log[j], r)
    <3>1. CASE t = q
      BY <3>1, WrittenBelowTarget
    <3>2. CASE lg[n].type = "UPDATE" /\ t = lg[n].old.page
      <4>1. Present(mem[t]) /\ r <= t
        BY <1>3, <2>2, <3>2, Constants
      <4> QED BY <2>2, <4>1, WrittenBelow
    <3> QED BY <2>2, <3>1, <3>2
  <2> QED BY <1>1, <2>3
<1>7. StillRuns(lg, n)
  <2>1. x \notin Committed(log) \cup Aborted(log)
    BY DEF DurInv, StatusKnown, ActiveRun
  <2> QED BY <1>1, <1>2, <1>3, <2>1 DEF StillRuns, Committed, Aborted
<1> QED BY <1>4, <1>5, <1>6, <1>7

\* An update starts from a version that is current, and locked by nobody else.
LEMMA UpdateAllowed ==
    ASSUME BaseInv, DurInv, phase = "up", NEW x \in Active, MayWrite(x),
           NEW q \in Page, Takes(q), NEW lg, NEW n, Statement(lg, n, x, q), lg[n].type = "UPDATE",
           NEW p \in Page, NEW s \in Slot, lg[n].old = [page |-> p, slot |-> s],
           Present(mem[p]), MayUpdate(x, mem[p].tup[s]),
           p = q \/ \E m \in Len(log)+1..n-1 : lg[m].type = "INSERT"
    PROVE  Allowed(lg, n)
<1>1. /\ lg \in Seq(Record) /\ Len(lg) \in Nat /\ Len(log) \in Nat /\ n \in 1..Len(lg)
      /\ \A i \in 1..n-1 : i \in 1..Len(log) \/ i \in Len(log)+1..n-1
      /\ \A i \in 1..Len(log) : i \in 1..n-1 /\ lg[i] = log[i]
      /\ \A type, y : type \in {"COMMIT", "ABORT"} =>
            (Before(lg, n, type, y) <=> Before(log, Len(log) + 1, type, y))
  BY StatementLog
<1>2. /\ Changes(lg[n]) /\ lg[n].new = NewCtid(q) /\ lg[n].xid = x /\ lg[n].tuple = NewTuple(x)
      /\ \A i \in Len(log)+1..n-1 :
            \/ lg[i].type = "FPI"
            \/ /\ lg[i].type = "INSERT" /\ lg[i].new = NewCtid(q)
               /\ lg[i].xid = x /\ lg[i].tuple = NewTuple(x)
  BY DEF Statement
<1>3. PICK t : t = mem[p].tup[s]
  OBVIOUS
<1>4. /\ t # Unused /\ t.xmax \notin Active /\ ~InPast(t.xmax)
      /\ t.xmin = x \/ InPast(t.xmin)
  BY <1>3 DEF MayUpdate
<1>5. ~Crashed /\ phase # "redo" /\ StatusKnown
  BY UpDone DEF DurInv
<1>6. \A i \in 1..Len(log) : Changes(log[i]) => (InPast(log[i].xid) <=> log[i].xid \in Committed(log))
  BY <1>5, PastLogged
<1>7. lg[n].old # lg[n].new
  <2>1. /\ NewCtid(q).page = q /\ Target(q).tup[NewCtid(q).slot] = Unused
        /\ Present(mem[q]) => Target(q) = mem[q]
    BY TargetLemma DEF BaseInv
  <2>2. lg[n].old.page = p /\ lg[n].old.slot = s
    OBVIOUS
  <2>3. CASE lg[n].old = lg[n].new
    <3>1. NewCtid(q).page = p /\ NewCtid(q).slot = s
      BY <1>2, <2>2, <2>3
    <3>2. p = q
      BY <2>1, <3>1
    <3>3. mem[p].tup[s] = Unused
      BY <2>1, <3>1, <3>2
    <3> QED BY <1>3, <1>4, <3>3
  <2> QED BY <2>3
<1>8. ASSUME NEW i \in 1..n-1, lg[i].type = "UPDATE", lg[i].old = lg[n].old
      PROVE  Before(lg, n, "ABORT", lg[i].xid)
  <2>1. i \in 1..Len(log) /\ lg[i] = log[i]
    BY <1>1, <1>2, <1>8
  <2>2. Changes(log[i]) /\ log[i].type = "UPDATE" /\ log[i].old = [page |-> p, slot |-> s]
    BY <1>8, <2>1 DEF Changes
  <2>3. log[i].xid \notin Counted
    <3>1. SUFFICES ASSUME log[i].xid \in Counted PROVE FALSE
      OBVIOUS
    <3>2. t.xmax = log[i].xid
      <4>1. PICK c : c = log[i].old
        OBVIOUS
      <4>2. mem[c.page].tup[c.slot].xmax = log[i].xid
        BY <1>5, <2>1, <2>2, <3>1, <4>1, OldShown
      <4>3. c.page = p /\ c.slot = s
        BY <2>2, <4>1
      <4> QED BY <1>3, <4>2, <4>3
    <3> QED BY <1>4, <1>6, <2>1, <2>2, <3>1, <3>2 DEF Counted
  <2> QED BY <1>1, <2>1, <2>2, <2>3, CountedOrAborted
<1>9. \E k \in 1..n-1 : Supplies(lg, n, k) /\ Alters(lg[k], lg[n].old.page)
  <2>1. PICK i \in 1..Len(log) : Writes(log, i, p, s, t)
    BY <1>3, <1>4, RowLogged
  <2>2. Changes(log[i]) /\ log[i].new = lg[n].old /\ log[i].xid = t.xmin
    BY <2>1 DEF Writes, Changes
  <2>3. log[i].xid = x \/ Before(lg, n, "COMMIT", log[i].xid)
    BY <1>1, <1>4, <1>6, <2>2 DEF Committed
  <2>4. PICK k \in 1..Len(log) : /\ Changes(log[k]) /\ log[k].new = log[i].new
                                 /\ log[k].xid = log[i].xid /\ Alters(log[k], p)
    <3>1. log[i].new.page = p
      BY <2>2
    <3>2. CASE Alters(log[i], p)
      BY <2>2, <3>2
    <3>3. CASE ~Alters(log[i], p)
      <4>1. log[i].type = "UPDATE" /\ log[i].old.page # log[i].new.page
        BY <2>2, <3>1, <3>3 DEF Alters, Changes
      <4>2. Allowed(log, i)
        BY DEF DurInv, LogOrderly, Orderly
      <4>3. PICK m \in 1..i-1 : /\ log[m].type = "INSERT" /\ log[m].new = log[i].new
                                /\ log[m].xid = log[i].xid
        BY <4>1, <4>2 DEF Allowed, UpdateIsDue
      <4>4. m \in 1..Len(log)
        BY <1>1, <4>3
      <4> QED BY <3>1, <4>3, <4>4 DEF Alters, Changes
    <3> QED BY <3>2, <3>3
  <2>5. k \in 1..n-1 /\ lg[k] = log[k]
    BY <1>1
  <2>6. Supplies(lg, n, k)
    BY <1>2, <2>2, <2>3, <2>4, <2>5 DEF Supplies
  <2> QED BY <2>4, <2>5, <2>6
<1>10. lg[n].old.page # lg[n].new.page =>
          \E m \in 1..n-1 : /\ lg[m].type = "INSERT" /\ lg[m].new = lg[n].new
                            /\ lg[m].xid = lg[n].xid /\ lg[m].tuple = lg[n].tuple
  <2>1. NewCtid(q).page = q
    BY TargetLemma DEF BaseInv
  <2>2. CASE p = q
    BY <1>2, <2>1, <2>2
  <2>3. CASE p # q
    <3>1. PICK m \in Len(log)+1..n-1 : lg[m].type = "INSERT"
      BY <2>3
    <3>2. m \in 1..n-1
      BY <1>1
    <3> QED BY <1>2, <3>1, <3>2
  <2> QED BY <2>2, <2>3
<1>11. UpdateIsDue(lg, n)
  BY <1>7, <1>8, <1>9, <1>10 DEF UpdateIsDue
<1>12. SlotWasFree(lg, n) /\ DataIsNew(lg, n) /\ NoHoles(lg, n) /\ StillRuns(lg, n)
  BY VersionAllowed
<1> QED BY <1>11, <1>12 DEF Allowed

----------------------------------------------------------------------------
(* Statements: what they leave of the log, the pages and the rows. *)

\* A page that a statement changes has its image logged before.
LEMMA ImageLogged ==
    ASSUME BaseInv, DurInv, NEW lg, Prefix(log, lg), NEW p \in Page, Present(mem[p]),
           NEW r \in Record
    PROVE  LET new == Append(WithImage(lg, p), r) IN Mended(new, p, First, Len(new) - 1)
<1> DEFINE new == Append(WithImage(lg, p), r)
<1>1. /\ lg \in Seq(Record) /\ Len(lg) \in Nat /\ Len(log) \in Nat /\ Len(log) <= Len(lg)
      /\ Alike(log, lg, Len(log)) /\ mem[p] \in Image
  BY FirstLemma, LenProperties DEF Prefix, Alike, BaseInv, StorageInv, PagesOK, Images, Present
<1>2. First \in Nat /\ First >= 1 /\ First <= Len(log) + 1
  BY FirstLemma
<1>3. CASE p \in imaged
  <2>1. Mended(log, p, First, Len(log))
    BY <1>3 DEF DurInv, LogOrderly, Orderly
  <2>2. new = Append(lg, r)
    BY <1>3 DEF WithImage
  <2>3. Prefix(lg, new) /\ Len(new) = Len(lg) + 1
    BY <1>1, <2>2, AppendRecord
  <2>4. PICK m \in Nat, n \in Nat : m = Len(log) /\ n = Len(lg) /\ n = Len(new) - 1 /\ m <= n
    BY <1>1, <2>3
  <2>5. Alike(log, new, m)
    BY <1>1, <2>3, <2>4 DEF Alike, Prefix
  <2>6. Mended(new, p, First, n)
    BY <1>2, <2>1, <2>4, <2>5, AlikeMended
  <2> QED BY <2>4, <2>6
<1>4. CASE p \notin imaged
  <2>1. WithImage(lg, p) = Append(lg, ImageRecord(p, mem[p]))
    BY <1>4 DEF WithImage
  <2>2. /\ ImageRecord(p, mem[p]) \in Record /\ ImageRecord(p, mem[p]).type = "FPI"
        /\ ImageRecord(p, mem[p]).page = p
    BY <1>1, ImageRecordLemma
  <2>3. PICK l : l = WithImage(lg, p)
    OBVIOUS
  <2>4. l \in Seq(Record) /\ Len(l) = Len(lg) + 1 /\ l[Len(lg) + 1] = ImageRecord(p, mem[p])
    BY <1>1, <2>1, <2>2, <2>3, AppendRecord DEF Prefix
  <2>5. Prefix(l, new) /\ Len(new) = Len(l) + 1
    BY <2>3, <2>4, AppendRecord
  <2>6. PICK n \in Nat : n = Len(l) /\ n = Len(lg) + 1 /\ n = Len(new) - 1
    BY <1>1, <2>4, <2>5
  <2>7. new[n] = ImageRecord(p, mem[p])
    BY <2>4, <2>5, <2>6 DEF Prefix
  <2>8. n \in First..n
    BY <1>1, <1>2, <2>6
  <2>9. Mended(new, p, First, n)
    BY <2>2, <2>7, <2>8 DEF Mended
  <2> QED BY <2>6, <2>9
<1> QED BY <1>3, <1>4

\* What a statement leaves as it is.
Quiet == UNCHANGED <<synced, flushed, txVars, recVars>>

\* The pages and the log, once each record is seen to be in order.
LEMMA StatementPages ==
    ASSUME BaseInv, DurInv, BaseInv', phase = "up", Quiet,
           NEW x, NEW q, Statement(log', Len(log'), x, q),
           \A n \in Len(log)+1..Len(log') :
              Allowed(log', n) /\ ImageIsWhole(log', Counted, n) /\ ImageGoesFirst(log', First, n),
           \A p \in Page : Known(log', Counted, Len(log'), Len(log'), p, mem'[p]),
           \A p \in imaged' : p \in imaged \/ Mended(log', p, First, Len(log')),
           \A p \in Page : \A img \in platter'[p] : img \in platter[p] \/ img = ZeroPage
    PROVE  /\ LogOrderly' /\ MemKnown' /\ PlatterKnown'
           /\ Committed(log') = Committed(log) /\ Aborted(log') = Aborted(log)
           /\ First' = First /\ Active' = Active
<1>1. /\ Prefix(log, log') /\ phase' = phase /\ synced' = synced /\ statusMap' = statusMap
      /\ control' = control
  BY DEF Statement, Quiet, txVars, recVars
<1>2. PICK m \in Nat, n \in Nat : /\ m = Len(log) /\ n = Len(log') /\ m < n
                                  /\ m <= Len(log) /\ m <= Len(log') /\ Alike(log, log', m)
  BY <1>1, GrownLog DEF Statement
<1>3. \A i \in m+1..n : log'[i].type \in {"FPI", "INSERT", "UPDATE"}
  <2>1. \A i \in m+1..n-1 : log'[i].type \in {"FPI", "INSERT"}
    BY <1>2 DEF Statement
  <2>2. log'[n].type \in {"INSERT", "UPDATE"}
    BY <1>2 DEF Statement, Changes
  <2>3. \A i \in m+1..n : i \in m+1..n-1 \/ i = n
    BY <1>2
  <2> QED BY <2>1, <2>2, <2>3
<1>4. Committed(log') = Committed(log) /\ Aborted(log') = Aborted(log)
  BY <1>2, <1>3, NoEnd
<1>5. First' = First
  BY <1>1, <1>2, <1>3, SameFirst
<1>6. Active' = Active /\ Counted' = Counted
  BY <1>1, <1>4 DEF Active, Counted
<1>7. Fewer(log, m, Counted, Counted') /\ Fewer(log, Len(log), Counted, Counted')
  BY <1>6 DEF Fewer
<1>8. LogOrderly'
  <2>1. First \in Nat /\ First >= 1 /\ Orderly(log, Counted, First, imaged)
    BY FirstLemma DEF DurInv, LogOrderly
  <2>2. \A i \in m+1..Len(log') : Allowed(log', i) /\ ImageIsWhole(log', Counted', i)
    BY <1>2, <1>6
  <2>3. \A i \in m+1..Len(log') : ImageGoesFirst(log', First, i)
    BY <1>2
  <2>4. \A p \in imaged' : (p \in imaged /\ m = Len(log)) \/ Mended(log', p, First, Len(log'))
    BY <1>2
  <2>5. Orderly(log', Counted', First, imaged')
    BY <1>1, <1>2, <1>7, <2>1, <2>2, <2>3, <2>4, GrownLog, OrderlyStays
  <2> QED BY <1>5, <2>5 DEF LogOrderly
<1>9. Done' = Len(log')
  BY <1>1 DEF Done, Crashed
<1>10. MemKnown'
  BY <1>6, <1>9 DEF MemKnown
<1>11. PlatterKnown'
  <2>1. synced <= synced'
    BY <1>1, GrownLog
  <2>2. \A p \in Page : \A img \in platter'[p] :
           \/ img \in platter[p] \/ img = ZeroPage
           \/ Known(log', Counted', First - 1, synced', p, img)
    OBVIOUS
  <2> QED BY <1>1, <1>5, <1>7, <2>1, <2>2, PlatterStaysKnown
<1> QED BY <1>4, <1>5, <1>6, <1>8, <1>10, <1>11

\* The versions that the statement's records take away: none, or the one in D.
LEMMA StatementDeletes ==
    ASSUME BaseInv, DurInv, phase = "up", NEW x \in Active, NEW lg, NEW q,
           Statement(lg, Len(lg), x, q), \A i \in 1..Len(lg) : Allowed(lg, i),
           Committed(lg) = Committed(log), Aborted(lg) = Aborted(log), NEW D \in SUBSET Value,
           \/ lg[Len(lg)].type = "INSERT" /\ D = {}
           \/ \E p \in Page, s \in Slot :
                 /\ lg[Len(lg)].type = "UPDATE" /\ lg[Len(lg)].old = [page |-> p, slot |-> s]
                 /\ Present(mem[p]) /\ MayUpdate(x, mem[p].tup[s]) /\ D = {mem[p].tup[s].data}
    PROVE  Deleted(lg, x) = Deleted(log, x) \cup D
<1>1. /\ lg \in Seq(Record) /\ Len(lg) \in Nat /\ Len(log) \in Nat /\ Len(log) < Len(lg)
      /\ Alike(log, lg, Len(log))
      /\ \A i \in 1..Len(log) : i \in 1..Len(lg) /\ lg[i] = log[i]
  BY StatementLog DEF Statement, Alike
<1>2. PICK n \in Nat : n = Len(lg) /\ n \in Len(log)+1..Len(lg) /\ n \in 1..Len(lg)
  BY <1>1
<1>3. \A j \in Len(log)+1..Len(lg) : j = n \/ lg[j].type \in {"FPI", "INSERT"}
  <2>1. \A j \in Len(log)+1..Len(lg) : j \in Len(log)+1..Len(lg)-1 \/ j = n
    BY <1>1, <1>2
  <2> QED BY <2>1 DEF Statement
<1>4. \A e \in Value : e \in D <=>
         \E j \in Len(log)+1..Len(lg), k \in 1..Len(lg) :
             lg[j].xid = x /\ Supersedes(lg, j, k) /\ lg[k].tuple.data = e
  <2>1. CASE lg[Len(lg)].type = "INSERT" /\ D = {}
    BY <1>2, <1>3, <2>1 DEF Supersedes
  <2>2. CASE lg[Len(lg)].type # "INSERT"
    <3>1. PICK p \in Page, s \in Slot :
             /\ lg[n].type = "UPDATE" /\ lg[n].old = [page |-> p, slot |-> s]
             /\ Present(mem[p]) /\ MayUpdate(x, mem[p].tup[s]) /\ D = {mem[p].tup[s].data}
      BY <1>2, <2>2
    <3>2. PICK t : t = mem[p].tup[s]
      OBVIOUS
    <3>3. t # Unused /\ (t.xmin = x \/ InPast(t.xmin)) /\ D = {t.data} /\ lg[n].xid = x
      BY <1>2, <3>1, <3>2 DEF MayUpdate, Statement
    <3>4. PICK i \in 1..Len(log) : Writes(log, i, p, s, t)
      BY <3>1, <3>2, <3>3, RowLogged
    <3>5. /\ Changes(lg[i]) /\ lg[i].new = lg[n].old /\ lg[i].xid = t.xmin
          /\ lg[i].tuple.data = t.data /\ i \in 1..Len(lg)
      BY <1>1, <3>1, <3>4 DEF Writes, Changes
    <3>6. \A y : y = x \/ y \in Committed(log) => ~Before(lg, Len(lg) + 1, "ABORT", y)
      <4>1. Aborted(lg) \cap Active = {}
        BY DEF DurInv, StatusKnown, ActiveRun
      <4>2. ~Before(lg, Len(lg) + 1, "ABORT", x)
        BY <4>1 DEF Aborted, Active
      <4>3. ASSUME NEW y \in Committed(log) PROVE ~Before(lg, Len(lg) + 1, "ABORT", y)
        <5>1. Before(lg, Len(lg) + 1, "COMMIT", y)
          BY <4>3 DEF Committed
        <5> QED BY <1>1, <5>1, EndsOnce
      <4> QED BY <4>2, <4>3
    <3>7. t.xmin = x \/ t.xmin \in Committed(log)
      <4>1. InPast(log[i].xid) <=> log[i].xid \in Committed(log)
        BY <1>1, <3>5, PastLogged DEF DurInv
      <4> QED BY <1>1, <3>3, <3>5, <4>1
    <3>8. ASSUME NEW k \in 1..Len(lg), Supersedes(lg, n, k)
          PROVE  lg[k].tuple.data = t.data
      <4>1. Changes(lg[k]) /\ lg[k].new = lg[n].old
            /\ (lg[k].xid = x \/ Before(lg, n, "COMMIT", lg[k].xid))
        BY <3>3, <3>8 DEF Supersedes, Supplies
      <4>2. lg[k].xid = x \/ lg[k].xid \in Committed(log)
        <5>1. lg[k].xid \in Xid
          BY <1>1, <4>1, ElementOfSeq, RecordFields DEF Changes
        <5>2. Before(lg, n, "COMMIT", lg[k].xid) => Before(lg, Len(lg) + 1, "COMMIT", lg[k].xid)
          <6>1. n + 1 \in Nat /\ n <= n + 1
            BY <1>2
          <6>2. Before(lg, n, "COMMIT", lg[k].xid) => Before(lg, n + 1, "COMMIT", lg[k].xid)
            BY <6>1, BeforeLater
          <6> QED BY <1>2, <6>2
        <5> QED BY <4>1, <5>1, <5>2 DEF Committed
      <4> QED BY <1>1, <3>5, <3>6, <3>7, <4>1, <4>2, SameVersion
    <3>9. PICK k \in 1..Len(lg) : Supersedes(lg, n, k)
      <4>1. UpdateIsDue(lg, n)
        BY <1>2, <3>1 DEF Allowed
      <4>2. PICK k \in 1..n-1 : Supplies(lg, n, k)
        BY <4>1 DEF UpdateIsDue
      <4> QED BY <1>2, <3>1, <4>2 DEF Supersedes
    <3>10. \A j \in Len(log)+1..Len(lg), k2 \in 1..Len(lg) : Supersedes(lg, j, k2) => j = n
      BY <1>3 DEF Supersedes
    <3> QED BY <1>2, <3>3, <3>8, <3>9, <3>10
  <2> QED BY <2>1, <2>2
<1>5. /\ Alike(log, lg, Len(log)) /\ Len(log) \in Nat /\ Len(lg) \in Nat /\ Len(log) <= Len(lg)
  BY <1>1
<1>6. D = DeletedSince(log, lg, x)
  BY <1>4 DEF DeletedSince
<1> QED BY <1>5, <1>6, DeletedMore

LEMMA StatementRows ==
    ASSUME BaseInv, DurInv, BaseInv', phase = "up", Quiet, NEW x \in Active, MayWrite(x),
           NEW q, Statement(log', Len(log'), x, q), LogOrderly',
           Committed(log') = Committed(log), Aborted(log') = Aborted(log),
           NEW D \in SUBSET Value, Wrote(x, D),
           \/ log'[Len(log')].type = "INSERT" /\ D = {}
           \/ \E p \in Page, s \in Slot :
                 /\ log'[Len(log')].type = "UPDATE" /\ log'[Len(log')].old = [page |-> p, slot |-> s]
                 /\ Present(mem[p]) /\ MayUpdate(x, mem[p].tup[s]) /\ D = {mem[p].tup[s].data}
    PROVE  StatusKnown' /\ RowsKnown'
<1>1. /\ Prefix(log, log') /\ phase' = "up" /\ synced' = synced /\ statusMap' = statusMap
      /\ control' = control /\ clog' = clog /\ clogFile' = clogFile /\ losers' = losers
      /\ expected' = expected /\ writes' = writes + 1
  BY DEF Statement, Quiet, txVars, recVars, Wrote
<1>2. PICK m \in Nat, n \in Nat : /\ m = Len(log) /\ n = Len(log') /\ m < n
                                  /\ m <= Len(log) /\ m <= Len(log') /\ Alike(log, log', m)
  BY <1>1, GrownLog DEF Statement
<1>3. x \in Xid /\ NewTuple(x).data = writes + 1 /\ writes + 1 \in Value /\ writes \in Nat
  BY NewTupleLemma DEF Active, BaseInv, StorageInv, GhostsOK
<1>4. \A i \in m+1..n :
         /\ log'[i].type \notin {"COMMIT", "ABORT", "CHECKPOINT"}
         /\ Changes(log'[i]) => log'[i].xid = x /\ log'[i].tuple.data = writes + 1
  <2>1. \A i \in m+1..n-1 : \/ log'[i].type = "FPI"
                            \/ /\ log'[i].type = "INSERT" /\ log'[i].xid = x
                               /\ log'[i].tuple = NewTuple(x)
    BY <1>2 DEF Statement
  <2>2. Changes(log'[n]) /\ log'[n].xid = x /\ log'[n].tuple = NewTuple(x)
    BY <1>2 DEF Statement
  <2>3. \A i \in m+1..n : i \in m+1..n-1 \/ i = n
    BY <1>2
  <2> QED BY <1>3, <2>1, <2>2, <2>3 DEF Changes
<1>5. \A i \in 1..n : i \in m+1..n \/ (i \in 1..m /\ log'[i] = log[i])
  BY <1>2 DEF Alike
<1>6. Active' = Active /\ ~Crashed /\ ~Crashed'
  BY <1>1 DEF Active, Crashed
<1>7. StatusKnown /\ RowsKnown
  BY DEF DurInv
<1>8. x \notin Committed(log)
  BY <1>7 DEF StatusKnown, ActiveRun
<1>9. StatusKnown'
  <2>1. ActiveRun' /\ LosersRun'
    BY <1>1, <1>6, <1>7 DEF StatusKnown, ActiveRun, LosersRun
  <2>2. Accounted'
    <3>1. ASSUME NEW i \in 1..Len(log'), Changes(log'[i])
          PROVE  log'[i].xid \in Committed(log) \cup Aborted(log) \cup Active \cup losers
      BY <1>2, <1>4, <1>5, <1>6, <1>7, <3>1 DEF StatusKnown, Accounted
    <3> QED BY <1>1, <1>6, <3>1 DEF Accounted
  <2>3. CommitsLogged' /\ CommitsKnown'
    BY <1>1, <1>6, <1>7 DEF StatusKnown, CommitsLogged, CommitsKnown
  <2>4. MarksSynced'
    BY <1>1, <1>2, <1>4, <1>5, <1>7 DEF StatusKnown, MarksSynced
  <2>5. RedoInLog'
    BY <1>1 DEF RedoInLog
  <2> QED BY <2>1, <2>2, <2>3, <2>4, <2>5 DEF StatusKnown
<1>10. ExpectedLogged'
  <2>1. \A i \in m+1..Len(log') : Changes(log'[i]) => log'[i].xid \notin Committed(log)
    BY <1>2, <1>4, <1>8
  <2>2. \A i \in m+1..Len(log) : Changes(log[i]) => log[i].xid \notin Committed(log)
    BY <1>2
  <2>3. LogRows(log') = LogRows(log)
    BY <1>2, <2>1, <2>2, RowsSame
  <2> QED BY <1>1, <1>7, <2>3 DEF RowsKnown, ExpectedLogged
<1>11. DataWritten'
  <2>1. \A i \in 1..m : Changes(log[i]) => log[i].tuple.data <= writes
    BY <1>2, <1>7 DEF RowsKnown, DataWritten
  <2>2. \A i \in 1..m : Changes(log[i]) => log[i].tuple.data \in Nat
    <3>1. \A i \in 1..m : Changes(log[i]) => log[i].tuple.data \in Value
      BY <1>2, GrownLog, <1>1, ElementOfSeq, RecordFields DEF Changes, Tuple
    <3> QED BY <3>1, Constants
  <2>3. \A i \in 1..n : Changes(log'[i]) => log'[i].tuple.data <= writes + 1
    BY <1>3, <1>4, <1>5, <2>1, <2>2
  <2> QED BY <1>1, <1>2, <2>3 DEF DataWritten
<1>12. WorkLogged'
  <2>1. Added(log', x) = Added(log, x) \cup {writes + 1}
    <3>1. Changes(log'[Len(log')]) /\ log'[Len(log')].xid = x
      BY DEF Statement
    <3>2. \A i \in Len(log)+1..Len(log') : Changes(log'[i]) => log'[i].tuple.data = writes + 1
      BY <1>2, <1>4
    <3>3. Len(log) < Len(log') /\ Len(log) \in Nat /\ Len(log') \in Nat /\ Alike(log, log', Len(log))
      BY <1>2
    <3> QED BY <1>3, <3>1, <3>2, <3>3, AddedOne
  <2>2. Deleted(log', x) = Deleted(log, x) \cup D
    <3>1. \A i \in 1..Len(log') : Allowed(log', i)
      BY DEF LogOrderly, Orderly
    <3>2. PICK lg : lg = log'
      OBVIOUS
    <3>3. Deleted(lg, x) = Deleted(log, x) \cup D
      BY <3>1, <3>2, StatementDeletes
    <3> QED BY <3>2, <3>3
  <2>3. \A y : y # x => Added(log', y) = Added(log, y) /\ Deleted(log', y) = Deleted(log, y)
    <3>1. ASSUME NEW y, y # x
          PROVE  Added(log', y) = Added(log, y) /\ Deleted(log', y) = Deleted(log, y)
      <4>1. \A i \in Len(log)+1..Len(log') : Changes(log'[i]) => log'[i].xid # y
        BY <1>2, <1>4, <3>1
      <4>2. Len(log) <= Len(log') /\ Len(log) \in Nat /\ Len(log') \in Nat
            /\ Alike(log, log', Len(log))
        BY <1>2
      <4> QED BY <4>1, <4>2, WorkSame
    <3> QED BY <3>1
  <2>4. work \in [Xid -> Work] /\ work[x] = [add |-> Added(log, x), del |-> Deleted(log, x)]
    BY <1>3, <1>7 DEF RowsKnown, WorkLogged, BaseInv, StorageInv, GhostsOK
  <2>5. work' = [work EXCEPT ![x] = [add |-> work[x].add \cup {writes + 1},
                                     del |-> work[x].del \cup D]]
    BY DEF Wrote
  <2>6. work'[x] = [add |-> Added(log', x), del |-> Deleted(log', x)]
    BY <1>3, <2>1, <2>2, <2>4, <2>5
  <2> SUFFICES ASSUME NEW y \in Xid
               PROVE  work'[y] = IF y \in Active
                                 THEN [add |-> Added(log', y), del |-> Deleted(log', y)] ELSE Idle
    BY <1>6 DEF WorkLogged
  <2>7. CASE y = x
    BY <2>6, <2>7
  <2>8. CASE y # x
    <3>1. work'[y] = work[y]
      BY <2>4, <2>5, <2>8
    <3>2. work[y] = IF y \in Active
                    THEN [add |-> Added(log, y), del |-> Deleted(log, y)] ELSE Idle
      BY <1>7 DEF RowsKnown, WorkLogged
    <3> QED BY <2>3, <2>8, <3>1, <3>2
  <2> QED BY <2>7, <2>8
<1> QED BY <1>9, <1>10, <1>11, <1>12 DEF RowsKnown

\* The transactions that count when a statement logs its record n.
LEMMA CountedRun ==
    ASSUME BaseInv, DurInv, NEW lg, NEW n, NEW x, NEW q, Statement(lg, n, x, q)
    PROVE  Counting(lg, n, Counted)
<1>1. \A type, y : type \in {"COMMIT", "ABORT"} =>
         (Before(lg, n, type, y) <=> Before(log, Len(log) + 1, type, y))
  BY StatementLog
<1>2. \A i \in 1..Len(log) : Allowed(log, i)
  BY DEF DurInv, LogOrderly, Orderly
<1>3. ASSUME NEW y \in Counted PROVE ~Before(log, Len(log) + 1, "ABORT", y)
  <2>1. CASE y \in Committed(log)
    BY <1>2, <2>1, FirstLemma, EndsOnce DEF Committed
  <2>2. CASE y \in Active
    <3>1. y \notin Aborted(log) /\ y \in Xid
      BY <2>2 DEF DurInv, StatusKnown, ActiveRun, Active
    <3> QED BY <3>1 DEF Aborted
  <2> QED BY <2>1, <2>2 DEF Counted
<1>4. ASSUME NEW y, Before(log, Len(log) + 1, "COMMIT", y) PROVE y \in Counted
  <2>1. (Len(log) + 1) - 1 = Len(log)
    BY FirstLemma
  <2>2. PICK i \in 1..Len(log) : log[i].type = "COMMIT" /\ log[i].xid = y
    BY <1>4, <2>1 DEF Before
  <2>3. y \in Xid
    BY <2>2, FirstLemma, ElementOfSeq, RecordFields
  <2> QED BY <1>4, <2>3 DEF Counted, Committed
<1> QED BY <1>1, <1>3, <1>4 DEF Counting

\* The pages are up to the log that it finds.
LEMMA BeforeStatement ==
    ASSUME BaseInv, DurInv, phase = "up", NEW lg, Prefix(log, lg), NEW p \in Page
    PROVE  Known(lg, Counted, Len(log), Len(log), p, mem[p]) /\ mem[p] \in Images
<1>1. PICK m \in Nat : m = Len(log) /\ m <= Len(log) /\ m <= Len(lg) /\ Alike(log, lg, m)
  BY FirstLemma, LenProperties DEF Prefix, Alike
<1>2. Known(log, Counted, m, m, p, mem[p]) /\ mem[p] \in Images
  BY <1>1, UpDone DEF DurInv, MemKnown, BaseInv, StorageInv, PagesOK
<1>3. Fewer(log, m, Counted, Counted) /\ lg \in Seq(Record) /\ log \in Seq(Record)
  BY FirstLemma DEF Fewer, Prefix
<1> QED BY <1>1, <1>2, <1>3, KnownStays

\* A change that a statement makes, as its record n logs it.
LEMMA ChangeMade ==
    ASSUME BaseInv, DurInv, NEW lg, NEW n, NEW x, NEW q, Statement(lg, n, x, q), Allowed(lg, n),
           NEW k \in Nat, k < n, NEW p \in Page,
           NEW older \in Images, Known(lg, Counted, k, k, p, older),
           Logs(lg, First, k, n, p, older),
           NEW img \in Image, img.formatted, Present(older) => img = older
    PROVE  Made(lg, Counted, First, k, n, p, SetLsn(Change(lg[n], p, img), Inside(n)))
<1>1. lg \in Seq(Record) /\ n \in 1..Len(lg) /\ Changes(lg[n]) /\ n \in Nat
  BY StatementLog DEF Statement
<1>2. PICK X : X = Counted
  OBVIOUS
<1>3. Counting(lg, n, X)
  BY <1>2, CountedRun
<1>4. PICK lo \in Nat : lo = First
  BY FirstLemma
<1>5. PICK lsn \in Nat : lsn = Inside(n)
  BY <1>1 DEF Inside
<1>6. Start(n) < lsn /\ lsn <= End(n)
  BY <1>1, <1>5 DEF Start, Inside, End
<1>7. Known(lg, X, k, k, p, older) /\ Logs(lg, lo, k, n, p, older)
  BY <1>2, <1>4
<1>8. Made(lg, X, lo, k, n, p, SetLsn(Change(lg[n], p, img), lsn))
  BY <1>1, <1>3, <1>6, <1>7, ChangeStep
<1> QED BY <1>2, <1>4, <1>5, <1>8

\* A statement that changes one page.
LEMMA OnePageDur ==
    ASSUME BaseInv, DurInv, BaseInv', phase = "up", Quiet, NEW x \in Active, MayWrite(x),
           NEW q \in Page, Takes(q), NEW n \in Nat, n = Len(log'),
           Statement(log', n, x, q), Allowed(log', n), Logs(log', First, Len(log), n, q, mem[q]),
           mem'[q] = SetLsn(Change(log'[n], q, Target(q)), Inside(n)),
           \A p \in Page \ {q} : mem'[p] = mem[p],
           imaged' = Imaged({q}),
           \A p \in Page : \A img \in platter'[p] : img \in platter[p] \/ img = ZeroPage,
           NEW D \in SUBSET Value, Wrote(x, D),
           \/ log'[n].type = "INSERT" /\ D = {}
           \/ \E p \in Page, s \in Slot :
                 /\ log'[n].type = "UPDATE" /\ log'[n].old = [page |-> p, slot |-> s]
                 /\ Present(mem[p]) /\ MayUpdate(x, mem[p].tup[s]) /\ D = {mem[p].tup[s].data}
    PROVE  DurInv'
<1>1. PICK k \in Nat : k = Len(log) /\ k < n
  BY FirstLemma DEF Statement
<1>2. Prefix(log, log')
  BY DEF Statement
<1>3. /\ Target(q) \in Image /\ Target(q).formatted
      /\ Present(mem[q]) => Target(q) = mem[q]
  BY TargetLemma DEF BaseInv
<1>4. Made(log', Counted, First, k, n, q, mem'[q])
  <2>1. PICK lg : lg = log'
    OBVIOUS
  <2>2. PICK older \in Images, img \in Image : older = mem[q] /\ img = Target(q)
    BY <1>2, <1>3, BeforeStatement
  <2>3. Known(lg, Counted, k, k, q, older)
    BY <1>1, <1>2, <2>1, <2>2, BeforeStatement
  <2>4. /\ Statement(lg, n, x, q) /\ Allowed(lg, n) /\ Logs(lg, First, k, n, q, older)
        /\ img.formatted /\ (Present(older) => img = older)
    BY <1>1, <1>3, <2>1, <2>2
  <2>5. Made(lg, Counted, First, k, n, q, SetLsn(Change(lg[n], q, img), Inside(n)))
    BY <1>1, <2>3, <2>4, ChangeMade
  <2> QED BY <2>1, <2>2, <2>5
<1>5. \A p \in Page : Known(log', Counted, n, n, p, mem'[p])
  <2> TAKE p \in Page
  <2>1. CASE p = q
    BY <1>4, <2>1 DEF Made
  <2>2. CASE p # q
    <3>1. Known(log', Counted, k, k, p, mem[p]) /\ mem[p] \in Images
      BY <1>1, <1>2, BeforeStatement
    <3> QED BY <1>4, <2>2, <3>1 DEF Made
  <2> QED BY <2>1, <2>2
<1>6. \A i \in k+1..n : Allowed(log', i)
  <2>1. \A i \in k+1..n : i \in k+1..n-1 \/ i = n
    BY <1>1
  <2>2. \A i \in k+1..n-1 : log'[i].type = "FPI"
    BY <1>1 DEF Logs, ImageRecord
  <2> QED BY <2>1, <2>2, OtherAllowed DEF Changes
<1>7. \A p \in imaged' : p \in imaged \/ Mended(log', p, First, Len(log'))
  <2>1. \A p \in imaged' : p \in imaged \/ (p = q /\ Present(mem[q]))
    BY DEF Imaged
  <2>2. Mended(log', q, First, n - 1) => Mended(log', q, First, n)
    <3>1. First \in Nat
      BY FirstLemma
    <3> QED BY <3>1 DEF Mended
  <2> QED BY <2>1, <2>2 DEF Logs
<1>8. /\ LogOrderly' /\ MemKnown' /\ PlatterKnown'
      /\ Committed(log') = Committed(log) /\ Aborted(log') = Aborted(log)
  <2>1. \A i \in k+1..n : ImageIsWhole(log', Counted, i) /\ ImageGoesFirst(log', First, i)
    BY <1>4 DEF Made
  <2> QED BY <1>1, <1>5, <1>6, <1>7, <2>1, StatementPages
<1>9. StatusKnown' /\ RowsKnown'
  BY <1>8, StatementRows
<1> QED BY <1>8, <1>9 DEF DurInv

LEMMA InsertDur ==
    ASSUME BaseInv, DurInv, BaseInv', NEW x \in Xid, NEW q \in Page, Insert(x, q)
    PROVE  DurInv'
<1>1. /\ phase = "up" /\ x \in Active /\ MayWrite(x) /\ Takes(q) /\ Wrote(x, {}) /\ Quiet
      /\ imaged' = Imaged({q}) /\ Allocate({q})
      /\ log' = Append(WithImage(log, q), InsertRecord(x, NewCtid(q), NewTuple(x)))
  BY DEF Insert, MayWrite, Quiet
<1>2. PICK n \in Nat, k \in Nat : n = Len(log') /\ k = Len(log) /\ k < n
  BY InsertEffect, FirstLemma DEF BaseInv
<1>3. /\ Prefix(log, log') /\ log'[n] = InsertRecord(x, NewCtid(q), NewTuple(x))
      /\ \A i \in k+1..n-1 : Present(mem[q]) /\ log'[i] = ImageRecord(q, mem[q])
      /\ mem'[q] = SetLsn(InsertTupleAt(Target(q), NewCtid(q).slot, NewTuple(x)), Inside(n))
      /\ Inside(n) \in Nat /\ \A p \in Page \ {q} : mem'[p] = mem[p]
  BY <1>2, InsertEffect DEF BaseInv
<1>4. /\ NewCtid(q) \in Ctid /\ NewCtid(q).page = q /\ Target(q) \in Image /\ Target(q).formatted
      /\ Present(mem[q]) => Target(q) = mem[q]
      /\ NewTuple(x) \in Tuple
  BY <1>1, TargetLemma, NewTupleLemma DEF BaseInv
<1>5. /\ InsertRecord(x, NewCtid(q), NewTuple(x)) \in Record
      /\ log'[n].type = "INSERT" /\ log'[n].xid = x /\ log'[n].new = NewCtid(q)
      /\ log'[n].tuple = NewTuple(x)
  BY <1>3, <1>4, InsertRecordLemma
<1>6. \A i \in k+1..n-1 : log'[i].type = "FPI"
  BY <1>3 DEF ImageRecord
<1>7. Statement(log', n, x, q) /\ Changes(log'[n])
  BY <1>2, <1>3, <1>5, <1>6 DEF Statement, Changes
<1>8. Allowed(log', n)
  <2>1. PICK lg : lg = log'
    OBVIOUS
  <2>2. SlotWasFree(lg, n) /\ DataIsNew(lg, n) /\ NoHoles(lg, n) /\ StillRuns(lg, n)
    BY <1>1, <1>7, <2>1, VersionAllowed
  <2> QED BY <1>5, <2>1, <2>2 DEF Allowed
<1>9. Present(mem[q]) => Mended(log', q, First, n - 1)
  <2>1. Prefix(log, log)
    BY FirstLemma DEF Prefix
  <2> QED BY <1>1, <1>2, <1>5, <2>1, ImageLogged
<1>10. Change(log'[n], q, Target(q)) = InsertTupleAt(Target(q), NewCtid(q).slot, NewTuple(x))
  BY <1>4, <1>5 DEF Change
<1>11. Logs(log', First, Len(log), n, q, mem[q])
  BY <1>2, <1>3, <1>4, <1>5, <1>9 DEF Logs, Alters
<1>12. \A p \in Page : \A img \in platter'[p] : img \in platter[p] \/ img = ZeroPage
  BY <1>1, AllocateKeepsPlatter DEF BaseInv
<1>13. mem'[q] = SetLsn(Change(log'[n], q, Target(q)), Inside(n))
  BY <1>3, <1>10
<1> QED BY <1>1, <1>2, <1>3, <1>5, <1>7, <1>8, <1>11, <1>12, <1>13, OnePageDur

LEMMA HotUpdateDur ==
    ASSUME BaseInv, DurInv, BaseInv', NEW x \in Xid, NEW p \in Page, NEW s \in Slot,
           HotUpdate(x, p, s)
    PROVE  DurInv'
<1>1. /\ phase = "up" /\ x \in Active /\ MayWrite(x) /\ HasRoom(mem[p]) /\ Takes(p) /\ Quiet
      /\ MayUpdate(x, mem[p].tup[s]) /\ Wrote(x, {mem[p].tup[s].data})
      /\ imaged' = Imaged({p}) /\ platter' = platter /\ Present(mem[p])
      /\ log' = Append(WithImage(log, p),
                       UpdateRecord(x, [page |-> p, slot |-> s], NewCtid(p), NewTuple(x)))
  BY DEF HotUpdate, MayWrite, Quiet, Takes, HasRoom
<1>2. PICK n \in Nat, k \in Nat : n = Len(log') /\ k = Len(log) /\ k < n
  BY HotUpdateEffect, FirstLemma DEF BaseInv
<1>3. PICK o : o = [page |-> p, slot |-> s]
  OBVIOUS
<1>4. /\ Prefix(log, log') /\ log'[n] = UpdateRecord(x, o, NewCtid(p), NewTuple(x))
      /\ \A i \in k+1..n-1 : Present(mem[p]) /\ log'[i] = ImageRecord(p, mem[p])
      /\ mem'[p] = SetLsn(InsertTupleAt(StampXmax(mem[p], s, x), NewCtid(p).slot, NewTuple(x)),
                          Inside(n))
      /\ Inside(n) \in Nat /\ \A r \in Page \ {p} : mem'[r] = mem[r]
  BY <1>2, <1>3, HotUpdateEffect DEF BaseInv
<1>5. /\ NewCtid(p) \in Ctid /\ NewCtid(p).page = p /\ Target(p) = mem[p]
      /\ NewTuple(x) \in Tuple /\ o \in Ctid /\ o.page = p /\ o.slot = s
      /\ {mem[p].tup[s].data} \in SUBSET Value
  BY <1>1, <1>3, TargetLemma, NewTupleLemma, OldVersionLemma DEF BaseInv
<1>6. /\ UpdateRecord(x, o, NewCtid(p), NewTuple(x)) \in Record
      /\ log'[n].type = "UPDATE" /\ log'[n].xid = x /\ log'[n].new = NewCtid(p)
      /\ log'[n].old = o /\ log'[n].tuple = NewTuple(x)
  BY <1>4, <1>5, UpdateRecordLemma
<1>7. \A i \in k+1..n-1 : log'[i].type = "FPI"
  BY <1>4 DEF ImageRecord
<1>8. Statement(log', n, x, p)
  BY <1>1, <1>2, <1>4, <1>5, <1>6, <1>7 DEF Statement, Changes
<1>9. Allowed(log', n)
  <2>1. PICK lg : lg = log'
    OBVIOUS
  <2>2. lg[n].type = "UPDATE" /\ lg[n].old = [page |-> p, slot |-> s] /\ Statement(lg, n, x, p)
    BY <1>3, <1>6, <1>8, <2>1
  <2>3. Allowed(lg, n)
    BY <1>1, <2>2, UpdateAllowed
  <2> QED BY <2>1, <2>3
<1>10. Mended(log', p, First, n - 1)
  <2>1. Prefix(log, log)
    BY FirstLemma DEF Prefix
  <2> QED BY <1>1, <1>2, <1>3, <1>6, <2>1, ImageLogged
<1>11. Logs(log', First, Len(log), n, p, mem[p])
  BY <1>2, <1>4, <1>5, <1>6, <1>10 DEF Logs, Alters
<1>12. Change(log'[n], p, Target(p))
         = InsertTupleAt(StampXmax(mem[p], s, x), NewCtid(p).slot, NewTuple(x))
  BY <1>5, <1>6 DEF Change
<1>13. mem'[p] = SetLsn(Change(log'[n], p, Target(p)), Inside(n))
  BY <1>4, <1>12
<1>14. \A r \in Page : \A img \in platter'[r] : img \in platter[r] \/ img = ZeroPage
  BY <1>1
<1>15. PICK D \in SUBSET Value : D = {mem[p].tup[s].data}
  BY <1>5
<1>16. /\ log'[n].type = "UPDATE" /\ log'[n].old = [page |-> p, slot |-> s]
       /\ Present(mem[p]) /\ MayUpdate(x, mem[p].tup[s]) /\ D = {mem[p].tup[s].data}
       /\ Wrote(x, D)
  BY <1>1, <1>3, <1>6, <1>15
<1> QED BY <1>1, <1>2, <1>4, <1>8, <1>9, <1>11, <1>13, <1>14, <1>16, OnePageDur

\* An update that takes its new version to another page: its first record, and the
\* images that go before the two.
LEMMA UpdateLog ==
    ASSUME BaseInv, DurInv, NEW x \in Xid, NEW p \in Page, NEW s \in Slot, NEW q \in Page,
           Update(x, p, s, q), NEW m \in Nat, NEW n \in Nat, NEW newq \in Image, NEW newp \in Image,
           Moved(x, p, s, q, m, n, newq, newp)
    PROVE  /\ Present(mem[q]) => Mended(log', q, First, m - 1)
           /\ Mended(log', p, First, n - 1)
<1>1. PICK l : l = Append(WithImage(log, q), InsertRecord(x, NewCtid(q), NewTuple(x)))
  OBVIOUS
<1>2. PICK o : o = [page |-> p, slot |-> s]
  OBVIOUS
<1>3. /\ Takes(q) /\ MayWrite(x) /\ Present(mem[p]) /\ MayUpdate(x, mem[p].tup[s])
      /\ log' = Append(WithImage(l, p), UpdateRecord(x, o, NewCtid(q), NewTuple(x)))
  BY <1>1, <1>2 DEF Update
<1>4. NewCtid(q) \in Ctid /\ NewTuple(x) \in Tuple /\ o \in Ctid
  BY <1>2, <1>3, TargetLemma, NewTupleLemma, OldVersionLemma DEF BaseInv
<1>5. PICK r \in Record : r = InsertRecord(x, NewCtid(q), NewTuple(x)) /\ r.type = "INSERT"
  BY <1>4, InsertRecordLemma
<1>6. PICK r2 \in Record : r2 = UpdateRecord(x, o, NewCtid(q), NewTuple(x))
  BY <1>4, UpdateRecordLemma
<1>7. log \in Seq(Record) /\ Prefix(log, log)
  BY FirstLemma DEF Prefix
<1>8. Prefix(log, l) /\ Len(l) \in Nat /\ Len(l) > Len(log) /\ Len(log) \in Nat /\ l[Len(l)] = r
  <2>1. l = Append(WithImage(log, q), r)
    BY <1>1, <1>5
  <2> QED BY <1>7, <2>1, ChangeLogged DEF BaseInv
<1>9. Prefix(l, log') /\ Len(log') > Len(l) /\ Len(log') \in Nat
  <2>1. l \in Seq(Record) /\ log' = Append(WithImage(l, p), r2)
    BY <1>3, <1>6, <1>8 DEF Prefix
  <2> QED BY <2>1, ChangeLogged DEF BaseInv
<1>10. Len(l) = m
  <2>1. log'[Len(l)].type = "INSERT"
    BY <1>5, <1>8, <1>9 DEF Prefix
  <2>2. \A i \in Len(log)+1..m-1 : log'[i].type = "FPI"
    BY DEF Moved, ImageRecord
  <2>3. \A i \in m+1..n-1 : log'[i].type = "FPI"
    BY DEF Moved, ImageRecord
  <2>4. Len(l) \in Len(log)+1..m-1 \/ Len(l) = m \/ Len(l) \in m+1..n-1
    BY <1>8, <1>9 DEF Moved
  <2> QED BY <2>1, <2>2, <2>3, <2>4
<1>11. Present(mem[q]) => Mended(log', q, First, m - 1)
  <2>1. Present(mem[q]) => Mended(l, q, First, Len(l) - 1)
    BY <1>1, <1>5, <1>7, ImageLogged
  <2>2. PICK j \in Int, k \in Nat : j = Len(l) - 1 /\ k = Len(l) /\ j <= k
    BY <1>8
  <2>3. Alike(l, log', k) /\ First \in Nat /\ First >= 1
    BY <1>9, <2>2, FirstLemma DEF Prefix, Alike
  <2>4. Present(mem[q]) => Mended(log', q, First, j)
    BY <2>1, <2>2, <2>3, AlikeMended
  <2> QED BY <1>10, <2>2, <2>4
<1>12. Mended(log', p, First, n - 1)
  <2>1. Mended(Append(WithImage(l, p), r2), p, First, Len(Append(WithImage(l, p), r2)) - 1)
    BY <1>3, <1>8, ImageLogged
  <2> QED BY <1>3, <1>6, <2>1 DEF Moved
<1> QED BY <1>11, <1>12

LEMMA UpdateDur ==
    ASSUME BaseInv, DurInv, BaseInv', NEW x \in Xid, NEW p \in Page, NEW s \in Slot, NEW q \in Page,
           Update(x, p, s, q)
    PROVE  DurInv'
<1>1. /\ phase = "up" /\ x \in Active /\ MayWrite(x) /\ Takes(q) /\ Quiet /\ Present(mem[p])
      /\ MayUpdate(x, mem[p].tup[s]) /\ Wrote(x, {mem[p].tup[s].data})
      /\ imaged' = Imaged({p, q}) /\ Allocate({q})
  BY DEF Update, MayWrite, Quiet
<1>2. PICK m \in Nat, n \in Nat, newq \in Image, newp \in Image :
         Moved(x, p, s, q, m, n, newq, newp)
  BY UpdateEffect DEF BaseInv
<1>3. PICK k \in Nat, lg \in {log'} : k = Len(log) /\ lg = log'
  BY FirstLemma
<1>4. PICK o : o = [page |-> p, slot |-> s]
  OBVIOUS
<1>5. /\ p # q /\ Prefix(log, lg) /\ n = Len(lg) /\ k < m /\ m < n
      /\ lg[m] = InsertRecord(x, NewCtid(q), NewTuple(x))
      /\ lg[n] = UpdateRecord(x, o, NewCtid(q), NewTuple(x))
      /\ \A i \in k+1..m-1 : Present(mem[q]) /\ lg[i] = ImageRecord(q, mem[q])
      /\ \A i \in m+1..n-1 : lg[i] = ImageRecord(p, mem[p])
      /\ newq = SetLsn(InsertTupleAt(Target(q), NewCtid(q).slot, NewTuple(x)), Inside(m))
      /\ newp = SetLsn(StampXmax(mem[p], s, x), Inside(n))
      /\ mem'[q] = newq /\ mem'[p] = newp /\ \A r \in Page \ {p, q} : mem'[r] = mem[r]
  BY <1>2, <1>3, <1>4 DEF Moved
<1>6. /\ NewCtid(q) \in Ctid /\ NewCtid(q).page = q /\ Target(q) \in Image /\ Target(q).formatted
      /\ Present(mem[q]) => Target(q) = mem[q]
      /\ NewTuple(x) \in Tuple /\ o \in Ctid /\ o.page = p /\ o.slot = s
      /\ mem[p] \in Image /\ {mem[p].tup[s].data} \in SUBSET Value
  BY <1>1, <1>4, TargetLemma, NewTupleLemma, OldVersionLemma DEF BaseInv
<1>7. /\ lg[m].type = "INSERT" /\ lg[m].xid = x /\ lg[m].new = NewCtid(q)
      /\ lg[m].tuple = NewTuple(x)
  BY <1>5, <1>6, InsertRecordLemma
<1>8. /\ lg[n].type = "UPDATE" /\ lg[n].xid = x /\ lg[n].new = NewCtid(q) /\ lg[n].old = o
      /\ lg[n].tuple = NewTuple(x)
  BY <1>5, <1>6, UpdateRecordLemma
<1>9. \A i \in k+1..n-1 : i = m \/ lg[i].type = "FPI"
  <2>1. \A i \in k+1..n-1 : i \in k+1..m-1 \/ i = m \/ i \in m+1..n-1
    BY <1>5
  <2> QED BY <1>5, <2>1 DEF ImageRecord
<1>10. Statement(lg, m, x, q) /\ Statement(lg, n, x, q)
  <2>1. m \in k+1..Len(lg) /\ n \in k+1..Len(lg) /\ \A i \in k+1..m-1 : i # m /\ i \in k+1..n-1
    BY <1>3, <1>5
  <2>2. \A i \in k+1..m-1 : lg[i].type = "FPI"
    BY <1>9, <2>1
  <2> QED BY <1>1, <1>3, <1>5, <1>6, <1>7, <1>8, <1>9, <2>1, <2>2 DEF Statement, Changes
<1>11. Allowed(lg, m)
  <2>1. SlotWasFree(lg, m) /\ DataIsNew(lg, m) /\ NoHoles(lg, m) /\ StillRuns(lg, m)
    BY <1>1, <1>10, VersionAllowed
  <2> QED BY <1>7, <2>1 DEF Allowed
<1>12. Allowed(lg, n)
  <2>1. lg[n].old = [page |-> p, slot |-> s] /\ m \in Len(log)+1..n-1
    BY <1>3, <1>4, <1>5, <1>8
  <2> QED BY <1>1, <1>7, <1>8, <1>10, <2>1, UpdateAllowed
<1>13. Logs(lg, First, k, m, q, mem[q]) /\ Logs(lg, First, m, n, p, mem[p])
  <2>1. Present(mem[q]) => Mended(lg, q, First, m - 1)
    BY <1>2, <1>3, UpdateLog
  <2>2. Mended(lg, p, First, n - 1)
    BY <1>2, <1>3, UpdateLog
  <2>3. Logs(lg, First, k, m, q, mem[q])
    BY <1>5, <1>6, <1>7, <2>1 DEF Logs, Alters
  <2>4. Logs(lg, First, m, n, p, mem[p])
    BY <1>1, <1>5, <1>6, <1>8, <2>2 DEF Logs, Alters
  <2> QED BY <2>3, <2>4
<1>14. Made(lg, Counted, First, k, m, q, newq)
  <2>1. PICK older \in Images, img \in Image : older = mem[q] /\ img = Target(q)
    BY <1>1, <1>5, <1>6, BeforeStatement
  <2>2. Known(lg, Counted, k, k, q, older)
    BY <1>1, <1>3, <1>5, <2>1, BeforeStatement
  <2>3. Logs(lg, First, k, m, q, older) /\ img.formatted /\ (Present(older) => img = older)
    BY <1>6, <1>13, <2>1
  <2>4. Made(lg, Counted, First, k, m, q, SetLsn(Change(lg[m], q, img), Inside(m)))
    BY <1>5, <1>10, <1>11, <2>2, <2>3, ChangeMade
  <2>5. Change(lg[m], q, img) = InsertTupleAt(Target(q), NewCtid(q).slot, NewTuple(x))
    BY <1>6, <1>7, <2>1 DEF Change
  <2> QED BY <1>5, <2>4, <2>5
<1>15. \A r \in Page : r # q => Known(lg, Counted, m, m, r, mem[r]) /\ mem[r] \in Images
  <2> SUFFICES ASSUME NEW r \in Page, r # q
               PROVE  Known(lg, Counted, m, m, r, mem[r]) /\ mem[r] \in Images
    OBVIOUS
  <2>1. Known(lg, Counted, k, k, r, mem[r]) /\ mem[r] \in Images
    BY <1>1, <1>3, <1>5, BeforeStatement
  <2> QED BY <1>14, <2>1 DEF Made
<1>16. Made(lg, Counted, First, m, n, p, newp)
  <2>1. PICK older \in Images, img \in Image : older = mem[p] /\ img = mem[p]
    BY <1>5, <1>6, <1>15
  <2>2. Known(lg, Counted, m, m, p, older) /\ img.formatted
    BY <1>1, <1>5, <1>15, <2>1 DEF Known
  <2>3. Logs(lg, First, m, n, p, older) /\ (Present(older) => img = older)
    BY <1>13, <2>1
  <2>4. Made(lg, Counted, First, m, n, p, SetLsn(Change(lg[n], p, img), Inside(n)))
    BY <1>5, <1>10, <1>12, <2>2, <2>3, ChangeMade
  <2>5. Change(lg[n], p, img) = StampXmax(mem[p], s, x)
    BY <1>5, <1>6, <1>8, <2>1 DEF Change
  <2> QED BY <1>5, <2>4, <2>5
<1>17. \A r \in Page : Known(lg, Counted, n, n, r, mem'[r])
  <2> TAKE r \in Page
  <2>1. CASE r = p
    BY <1>5, <1>16, <2>1 DEF Made
  <2>2. CASE r = q
    <3>1. Known(lg, Counted, m, m, q, newq) /\ newq \in Images
      BY <1>14 DEF Made, Images
    <3> QED BY <1>5, <1>16, <2>2, <3>1 DEF Made
  <2>3. CASE r # p /\ r # q
    BY <1>5, <1>15, <1>16, <2>3 DEF Made
  <2> QED BY <2>1, <2>2, <2>3
<1>18. \A i \in k+1..n : Allowed(lg, i)
  <2>1. \A i \in k+1..n : i \in k+1..n-1 \/ i = n
    BY <1>5
  <2> QED BY <1>9, <1>11, <1>12, <2>1, OtherAllowed DEF Changes
<1>19. \A i \in k+1..n : ImageIsWhole(lg, Counted, i) /\ ImageGoesFirst(lg, First, i)
  <2>1. \A i \in k+1..n : i \in k+1..m \/ i \in m+1..n
    BY <1>5
  <2> QED BY <1>14, <1>16, <2>1 DEF Made
<1>20. \A r \in imaged' : r \in imaged \/ Mended(lg, r, First, Len(lg))
  <2>1. \A r \in imaged' : r \in imaged \/ r = p \/ (r = q /\ Present(mem[q]))
    BY <1>1 DEF Imaged
  <2>2. First \in Nat
    BY FirstLemma
  <2>3. Mended(lg, p, First, n)
    BY <1>1, <1>5, <1>13, <2>2 DEF Logs, Mended
  <2>4. Present(mem[q]) => Mended(lg, q, First, n)
    BY <1>5, <1>13, <2>2 DEF Logs, Mended
  <2> QED BY <1>5, <2>1, <2>3, <2>4
<1>21. /\ LogOrderly' /\ MemKnown' /\ PlatterKnown'
       /\ Committed(log') = Committed(log) /\ Aborted(log') = Aborted(log)
  <2>1. \A r \in Page : \A img \in platter'[r] : img \in platter[r] \/ img = ZeroPage
    BY <1>1, AllocateKeepsPlatter DEF BaseInv
  <2> QED BY <1>1, <1>3, <1>5, <1>10, <1>17, <1>18, <1>19, <1>20, <2>1, StatementPages
<1>22. StatusKnown' /\ RowsKnown'
  <2>1. PICK D \in SUBSET Value : D = {mem[p].tup[s].data}
    BY <1>6
  <2>2. /\ log'[Len(log')].type = "UPDATE" /\ log'[Len(log')].old = [page |-> p, slot |-> s]
        /\ Present(mem[p]) /\ MayUpdate(x, mem[p].tup[s]) /\ D = {mem[p].tup[s].data}
        /\ Wrote(x, D) /\ Statement(log', Len(log'), x, q)
    BY <1>1, <1>3, <1>4, <1>5, <1>8, <1>10, <2>1
  <2> QED BY <1>1, <1>21, <2>2, StatementRows
<1> QED BY <1>21, <1>22 DEF DurInv

----------------------------------------------------------------------------
(* A power failure. *)

\* What it leaves of the log, and the rows that are to be there from then on.
LEMMA CrashLeaves ==
    ASSUME Undisturbed, BaseInv, Crash
    PROVE  /\ \E n, e : /\ Cut(n, e)
                        /\ \/ e = <<>> /\ expected' = expected
                           \/ \E x \in Active :
                                 /\ n = Len(log) /\ e = <<TxRecord("COMMIT", x)>>
                                 /\ expected' = (expected \cup work[x].add) \ work[x].del
           /\ \A p \in Page : mem'[p] \in platter[p] \cup Mixtures(p) /\ mem'[p] # ZeroPage
<1>1. PICK kept \in Survivors, n \in synced..Len(log) : \E e \in Endings(n) :
         /\ log' = SubSeq(log, 1, n) \o e /\ mem' = kept
         /\ expected' =
               LET inDoubt == {x \in Active : e = <<TxRecord("COMMIT", x)>>}
               IN  (expected \cup UNION {work[x].add : x \in inDoubt})
                     \ UNION {work[x].del : x \in inDoubt}
  BY DEF Crash
<1>2. PICK e \in Endings(n) :
         /\ log' = SubSeq(log, 1, n) \o e
         /\ expected' =
               LET inDoubt == {x \in Active : e = <<TxRecord("COMMIT", x)>>}
               IN  (expected \cup UNION {work[x].add : x \in inDoubt})
                     \ UNION {work[x].del : x \in inDoubt}
  BY <1>1
<1>3. e \in Seq(Record)
  BY <1>2, EndingLemma DEF BaseInv
<1>4. log \in Seq(Record) /\ n \in 0..Len(log) /\ n \in Nat
  BY FirstLemma DEF BaseInv, StorageInv, WalOK
<1>5. Cut(n, e)
  BY <1>2, <1>3, <1>4, CutLemma DEF Cut
<1>6. e = <<>> \/ \E x \in Active : n = Len(log) /\ e = <<TxRecord("COMMIT", x)>>
  BY <1>2 DEF Endings, Undisturbed
<1>7. PICK doubt : /\ doubt = {x \in Active : e = <<TxRecord("COMMIT", x)>>}
                   /\ expected' = (expected \cup UNION {work[x].add : x \in doubt})
                                    \ UNION {work[x].del : x \in doubt}
  BY <1>2
<1>8. CASE e = <<>>
  <2>1. doubt = {}
    BY <1>7, <1>8
  <2>2. expected' = expected
    BY <1>7, <2>1
  <2> QED BY <1>1, <1>5, <1>8, <2>2 DEF Survivors, Undisturbed
<1>9. CASE e # <<>>
  <2>1. PICK x \in Active : n = Len(log) /\ e = <<TxRecord("COMMIT", x)>>
    BY <1>6, <1>9
  <2>2. doubt = {x}
    <3>1. ASSUME NEW y \in Active, <<TxRecord("COMMIT", x)>> = <<TxRecord("COMMIT", y)>>
          PROVE  x = y
      <4>1. TxRecord("COMMIT", x) = TxRecord("COMMIT", y)
        BY <3>1
      <4> QED BY <4>1, TxRecordLemma DEF Active
    <3> QED BY <1>7, <2>1, <3>1
  <2>3. expected' = (expected \cup work[x].add) \ work[x].del
    BY <1>7, <2>2
  <2> QED BY <1>1, <1>5, <2>1, <2>3 DEF Survivors, Undisturbed
<1> QED BY <1>8, <1>9

\* A page it leaves, torn or not, is as good as those on the disk.
LEMMA SurvivorKnown ==
    ASSUME BaseInv, DurInv, NEW p \in Page, NEW img \in platter[p] \cup Mixtures(p), img # ZeroPage
    PROVE  img \in Images /\ Known(log, Counted, First - 1, synced, p, img)
<1>1. CASE img \in platter[p]
  BY <1>1 DEF DurInv, PlatterKnown, BaseInv, StorageInv, PagesOK
<1>2. CASE img \in Mixtures(p)
  <2>1. img \in Image /\ img.formatted
    BY <1>2, MixtureLemma DEF BaseInv
  <2>2. PICK a \in Image, b \in Image :
           /\ a \in platter[p] /\ b \in platter[p]
           /\ Present(a) /\ Present(b) /\ a.formatted /\ b.formatted
           /\ img.lsn = a.lsn
           /\ \A s \in Slot : img.tup[s] = a.tup[s] \/ img.tup[s] = b.tup[s]
    BY <1>2, MixtureLemma DEF BaseInv
  <2>3. a # ZeroPage /\ b # ZeroPage
    BY <2>2, EmptyImages
  <2>4. PICK k \in Nat, n \in Nat, lo \in Nat :
           k = First - 1 /\ n = synced /\ lo = First /\ lo >= 1 /\ k = lo - 1 /\ n <= Len(log)
    BY FirstLemma, FirstSynced DEF BaseInv, StorageInv, WalOK, DurInv
  <2>5. Known(log, Counted, k, n, p, a) /\ Known(log, Counted, k, n, p, b)
    BY <2>2, <2>3, <2>4 DEF DurInv, PlatterKnown
  <2>6. Present(img) /\ img.lsn <= End(n) /\ a.lsn <= End(n)
    BY <2>1, <2>2, <2>5, NoTupleNoImage DEF Known, Present
  <2>7. CASE Mended(log, p, k + 1, n)
    BY <2>1, <2>4, <2>6, <2>7 DEF Known, Images
  <2>8. CASE ~Mended(log, p, k + 1, n)
    <3>1. Held(log, Counted, lo - 1, p, a) /\ Held(log, Counted, lo - 1, p, b)
      BY <2>4, <2>5, <2>8 DEF Known
    <3>2. ~Mended(log, p, lo, n)
      BY <2>4, <2>8
    <3>3. \A i \in lo..n : ImageGoesFirst(log, lo, i)
      BY <2>4, FirstLemma DEF DurInv, LogOrderly, Orderly
    <3>4. Held(log, Counted, lo - 1, p, img)
      BY <2>1, <2>2, <2>4, <2>6, <3>1, <3>2, <3>3, FirstLemma, HeldMixture
    <3> QED BY <2>1, <2>4, <2>6, <3>4 DEF Known, Images
  <2> QED BY <2>7, <2>8
<1> QED BY <1>1, <1>2

\* The log that it leaves: the first n records, and what follows them.
LEMMA CutLog ==
    ASSUME BaseInv, DurInv, NEW n, NEW e, Cut(n, e),
           e = <<>> \/ \E x \in Active : n = Len(log) /\ e = <<TxRecord("COMMIT", x)>>
    PROVE  /\ n \in Nat /\ synced <= n /\ n <= Len(log) /\ n <= Len(log') /\ Len(log') \in Nat
           /\ log' \in Seq(Record) /\ Alike(log, log', n)
           /\ \A i \in n+1..Len(log') : \E x \in Active :
                 /\ i = n + 1 /\ n = Len(log) /\ Len(log') = n + 1
                 /\ log'[i].type = "COMMIT" /\ log'[i].xid = x
           /\ First' = First
           /\ \A y \in Committed(log) : y \in Committed(log')
           /\ \A y \in Committed(log') : y \in Counted
<1>1. /\ n \in Nat /\ synced <= n /\ n <= Len(log) /\ log' \in Seq(Record)
      /\ Len(log') = n + Len(e) /\ \A i \in 1..n : log'[i] = log[i]
      /\ \A i \in 1..Len(e) : log'[n + i] = e[i]
      /\ Len(log) \in Nat /\ synced \in Nat
  BY FirstLemma DEF Cut, BaseInv, StorageInv, WalOK
<1>4. /\ Len(log') \in Nat /\ n <= Len(log')
      /\ \A i \in n+1..Len(log') : \E x \in Active :
            /\ i = n + 1 /\ n = Len(log) /\ Len(log') = n + 1
            /\ log'[i].type = "COMMIT" /\ log'[i].xid = x
  <2>1. CASE e = <<>>
    <3>1. Len(log') = n /\ \A i : i \notin n+1..Len(log')
      BY <1>1, <2>1
    <3> QED BY <1>1, <3>1
  <2>2. CASE e # <<>>
    <3>1. PICK x \in Active : n = Len(log) /\ e = <<TxRecord("COMMIT", x)>>
      BY <2>2
    <3>2. Len(e) = 1 /\ e[1] = TxRecord("COMMIT", x) /\ 1 \in 1..Len(e)
      BY <3>1
    <3>3. Len(log') = n + 1 /\ log'[n + 1] = TxRecord("COMMIT", x) /\ x \in Xid
      BY <1>1, <3>2 DEF Active
    <3>4. log'[n + 1].type = "COMMIT" /\ log'[n + 1].xid = x
      BY <3>3, TxRecordLemma
    <3>5. /\ Len(log') \in Nat /\ n <= Len(log')
          /\ \A i \in n+1..Len(log') : i = n + 1
      BY <1>1, <3>3
    <3> QED BY <3>1, <3>3, <3>4, <3>5
  <2> QED BY <2>1, <2>2
<1>5. Alike(log, log', n)
  BY <1>1, <1>4 DEF Alike
<1>6. \A i \in 1..Len(log') : i \in n+1..Len(log') \/ (i \in 1..n /\ i \in 1..Len(log) /\ log'[i] = log[i])
  BY <1>1, <1>4
<1>7. \A i \in 1..Len(log) : log[i].type \in {"COMMIT", "CHECKPOINT"} =>
         i \in 1..n /\ i \in 1..Len(log') /\ log'[i] = log[i]
  BY <1>1, <1>4 DEF DurInv, StatusKnown, MarksSynced
<1>8. First' = First
  <2>1. {i \in 1..Len(log') : log'[i].type = "CHECKPOINT"} = {i \in 1..Len(log) : log[i].type = "CHECKPOINT"}
    BY <1>4, <1>6, <1>7
  <2> QED BY <2>1 DEF First, StartRecord
<1>9. (Len(log) + 1) - 1 = Len(log) /\ (Len(log') + 1) - 1 = Len(log')
  BY <1>1, <1>4
<1>10. \A y \in Committed(log) : y \in Committed(log')
  BY <1>7, <1>9 DEF Committed, Before
<1>11. \A y \in Committed(log') : y \in Counted
  <2> SUFFICES ASSUME NEW y \in Committed(log') PROVE y \in Counted
    OBVIOUS
  <2>1. PICK i \in 1..Len(log') : log'[i].type = "COMMIT" /\ log'[i].xid = y
    BY <1>9 DEF Committed, Before
  <2>2. CASE i \in n+1..Len(log')
    BY <1>4, <2>1, <2>2 DEF Counted
  <2>3. CASE i \in 1..n
    <3>1. i \in 1..Len(log) /\ log[i].type = "COMMIT" /\ log[i].xid = y
      BY <1>1, <2>1, <2>3
    <3>2. y \in Xid
      BY DEF Committed
    <3> QED BY <1>9, <3>1, <3>2 DEF Counted, Committed, Before
  <2> QED BY <1>6, <2>2, <2>3
<1> QED BY <1>1, <1>4, <1>5, <1>8, <1>10, <1>11

LEMMA CrashDur ==
    ASSUME Undisturbed, BaseInv, DurInv, BaseInv', Crash
    PROVE  DurInv'
<1>1. /\ phase # "down" /\ phase' = "down" /\ control' = control /\ writes' = writes
      /\ synced' = Len(log') /\ imaged' = {} /\ losers' = {} /\ clog' = clogFile'
      /\ clogFile' \in {clogFile, clog} /\ statusMap' = [x \in Xid |-> Unset]
      /\ work' = [x \in Xid |-> Idle]
  BY DEF Crash, MemoryLost
<1>2. PICK n, e : /\ Cut(n, e)
                  /\ \/ e = <<>> /\ expected' = expected
                     \/ \E x \in Active :
                           /\ n = Len(log) /\ e = <<TxRecord("COMMIT", x)>>
                           /\ expected' = (expected \cup work[x].add) \ work[x].del
  BY CrashLeaves
<1>3. /\ n \in Nat /\ synced <= n /\ n <= Len(log) /\ n <= Len(log') /\ Len(log') \in Nat
      /\ log' \in Seq(Record) /\ Alike(log, log', n)
      /\ \A i \in n+1..Len(log') : \E x \in Active :
            /\ i = n + 1 /\ n = Len(log) /\ Len(log') = n + 1
            /\ log'[i].type = "COMMIT" /\ log'[i].xid = x
      /\ First' = First
      /\ \A y \in Committed(log) : y \in Committed(log')
      /\ \A y \in Committed(log') : y \in Counted
  BY <1>2, CutLog
<1>4. Crashed' /\ Active' = {} /\ Counted' = Committed(log')
  BY <1>1 DEF BaseInv, XidInv, InProduction, Crashed, Active, Unset, Counted
<1>5. Fewer(log, n, Counted, Counted')
  BY <1>3, <1>4 DEF Fewer
<1>6. LogOrderly'
  <2>1. \A i \in n+1..Len(log') : /\ Allowed(log', i) /\ ImageIsWhole(log', Counted', i)
                                  /\ ImageGoesFirst(log', First, i)
    <3> SUFFICES ASSUME NEW i \in n+1..Len(log')
                 PROVE  /\ Allowed(log', i) /\ ImageIsWhole(log', Counted', i)
                        /\ ImageGoesFirst(log', First, i)
      OBVIOUS
    <3>1. PICK x \in Active : i = n + 1 /\ n = Len(log) /\ log'[i].type = "COMMIT" /\ log'[i].xid = x
      BY <1>3
    <3>2. x \in Xid /\ x \notin Committed(log) \cup Aborted(log)
      BY DEF DurInv, StatusKnown, ActiveRun, Active
    <3>3. \A type : Before(log', n + 1, type, x) <=> Before(log, n + 1, type, x)
      BY <1>3, AlikeBefore
    <3>4. StillRuns(log', i)
      BY <3>1, <3>2, <3>3 DEF StillRuns, Committed, Aborted
    <3> QED BY <3>1, <3>4, OtherAllowed, OtherWhole DEF Changes
  <2>2. First \in Nat /\ First >= 1 /\ Orderly(log, Counted, First, imaged) /\ log \in Seq(Record)
    BY FirstLemma DEF DurInv, LogOrderly
  <2>3. \A i \in n+1..Len(log') : Allowed(log', i) /\ ImageIsWhole(log', Counted', i)
    BY <2>1
  <2>4. \A i \in n+1..Len(log') : ImageGoesFirst(log', First, i)
    BY <2>1
  <2>5. \A p \in {} : (p \in imaged /\ n = Len(log)) \/ Mended(log', p, First, Len(log'))
    OBVIOUS
  <2>6. Orderly(log', Counted', First, {})
    BY <1>3, <1>5, <2>2, <2>3, <2>4, <2>5, OrderlyStays
  <2> QED BY <1>1, <1>3, <2>6 DEF LogOrderly
<1>7. \A p \in Page : Known(log', Counted', First - 1, Len(log'), p, mem'[p])
  <2> TAKE p \in Page
  <2>1. PICK img : img = mem'[p] /\ img \in platter[p] \cup Mixtures(p) /\ img # ZeroPage
    BY CrashLeaves
  <2>2. img \in Images /\ Known(log, Counted, First - 1, synced, p, img)
    BY <2>1, SurvivorKnown
  <2>3. PICK k \in Nat, s \in Nat, n2 \in Nat :
           /\ k = First - 1 /\ s = synced /\ n2 = Len(log')
           /\ k <= n /\ s <= n /\ s <= n2
    <3>1. First - 1 \in Nat /\ First - 1 <= synced
      BY FirstSynced DEF DurInv
    <3>2. synced \in Nat
      BY FirstLemma DEF BaseInv, StorageInv, WalOK
    <3>3. n \in Nat /\ Len(log') \in Nat /\ synced <= n /\ n <= Len(log')
      BY <1>3
    <3> QED BY <3>1, <3>2, <3>3
  <2>4. Known(log, Counted, k, s, p, img)
    BY <2>2, <2>3
  <2>5. Known(log', Counted', k, n2, p, img)
    BY <1>3, <1>5, <2>2, <2>3, <2>4, FirstLemma, KnownStays
  <2> QED BY <2>1, <2>3, <2>5
<1>8. MemKnown'
  <2>1. Done' = First - 1
    BY <1>1, <1>3, <1>4 DEF Done
  <2> QED BY <1>7, <2>1 DEF MemKnown
<1>9. PlatterKnown'
  <2>1. \A p \in Page : platter'[p] = {mem'[p]}
    BY CrashEffect DEF BaseInv
  <2> QED BY <1>1, <1>3, <1>7, <2>1 DEF PlatterKnown
<1>10. StatusKnown'
  <2>1. StatusKnown
    BY DEF DurInv
  <2>2. ActiveRun' /\ LosersRun' /\ Accounted' /\ CommitsKnown' /\ RedoInLog' /\ MarksSynced'
    BY <1>1, <1>3, <1>4
       DEF ActiveRun, LosersRun, Accounted, CommitsKnown, RedoInLog, MarksSynced
  <2>3. CommitsLogged'
    BY <1>1, <1>3, <2>1 DEF StatusKnown, CommitsLogged, Unset
  <2> QED BY <2>2, <2>3 DEF StatusKnown
<1>11. ExpectedLogged'
  <2>1. expected = LogRows(log) /\ \A i \in 1..Len(log) : Allowed(log, i)
    BY DEF DurInv, RowsKnown, ExpectedLogged, LogOrderly, Orderly
  <2>2. CASE e = <<>> /\ expected' = expected
    <3>1. Len(log') = n
      BY <1>2, <1>3, <2>2 DEF Cut
    <3>2. \A i \in 1..Len(log) : log[i].type = "COMMIT" => i <= Len(log')
      BY <1>3, <3>1, FirstLemma DEF DurInv, StatusKnown, MarksSynced, BaseInv, StorageInv, WalOK
    <3>3. LogRows(log') = LogRows(log)
      BY <1>3, <2>1, <3>1, <3>2, FirstLemma, CutRows
    <3> QED BY <2>1, <2>2, <3>3 DEF ExpectedLogged
  <2>3. CASE ~(e = <<>> /\ expected' = expected)
    <3>1. PICK x \in Active : /\ n = Len(log) /\ e = <<TxRecord("COMMIT", x)>>
                              /\ expected' = (expected \cup work[x].add) \ work[x].del
      BY <1>2, <2>3
    <3>2. Len(log') = Len(log) + 1 /\ log'[Len(log')] = TxRecord("COMMIT", x)
      <4>1. Len(e) = 1 /\ e[1] = TxRecord("COMMIT", x) /\ 1 \in 1..Len(e)
        BY <3>1
      <4> QED BY <1>2, <3>1, <4>1 DEF Cut
    <3>3. x \in Xid /\ x \notin Committed(log) \cup Aborted(log)
          /\ work[x] = [add |-> Added(log, x), del |-> Deleted(log, x)]
      BY DEF DurInv, StatusKnown, ActiveRun, Active, RowsKnown, WorkLogged
    <3>4. LogRows(log') = (LogRows(log) \cup Added(log, x)) \ Deleted(log, x)
      BY <1>3, <2>1, <3>1, <3>2, <3>3, FirstLemma, CommitRows
    <3> QED BY <2>1, <3>1, <3>3, <3>4 DEF ExpectedLogged
  <2> QED BY <2>2, <2>3
<1>12. WorkLogged'
  BY <1>1, <1>4 DEF WorkLogged
<1>13. DataWritten'
  <2>1. \A i \in 1..Len(log') : Changes(log'[i]) => i \in 1..Len(log) /\ log'[i] = log[i]
    <3>1. \A i \in 1..Len(log') : i \in n+1..Len(log') \/ (i \in 1..n /\ i \in 1..Len(log))
      BY <1>3, FirstLemma
    <3> QED BY <1>3, <3>1 DEF Alike, Changes
  <2> QED BY <1>1, <2>1 DEF DataWritten, DurInv, RowsKnown
<1> QED BY <1>6, <1>8, <1>9, <1>10, <1>11, <1>12, <1>13 DEF DurInv, RowsKnown

----------------------------------------------------------------------------
(* The three passes of recovery. *)

\* What the first pass takes for the end of a transaction is its end.
LEMMA RecordedLemma ==
    ASSUME BaseInv, DurInv
    PROVE  /\ Ended = Committed(log) \cup Aborted(log)
           /\ \A x \in Ended : Recorded(x) = "COMMITTED" <=> x \in Committed(log)
<1>1. log \in Seq(Record) /\ Len(log) \in Nat /\ Readable = Len(log)
  BY FirstLemma, ReadableLemma DEF BaseInv, XidInv, NothingTorn
<1>2. (Len(log) + 1) - 1 = Len(log)
  BY <1>1
<1>3. \A x, types : Of(x, types) = {i \in 1..Len(log) : log[i].xid = x /\ log[i].type \in types}
  BY <1>1 DEF Of
<1>4. Ended = Committed(log) \cup Aborted(log)
  BY <1>2, <1>3 DEF Ended, Committed, Aborted, Before
<1>5. ASSUME NEW x \in Ended
      PROVE  Recorded(x) = "COMMITTED" <=> x \in Committed(log)
  <2>1. PICK S : S = Of(x, {"COMMIT", "ABORT"})
    OBVIOUS
  <2>2. S # {} /\ S \in SUBSET Nat /\ \A i \in S : i <= Len(log)
    BY <1>1, <1>3, <2>1 DEF Ended
  <2>3. PICK m : m = Max(S) /\ m \in S
    BY <1>1, <2>2, MaxIsGreatest
  <2>4. m \in 1..Len(log) /\ log[m].xid = x /\ log[m].type \in {"COMMIT", "ABORT"}
    BY <1>3, <2>1, <2>3
  <2>5. Recorded(x) = IF log[m].type = "COMMIT" THEN "COMMITTED" ELSE "ABORTED"
    BY <2>1, <2>3 DEF Recorded
  <2>6. ~(Before(log, Len(log) + 1, "COMMIT", x) /\ Before(log, Len(log) + 1, "ABORT", x))
    BY <1>1, EndsOnce DEF DurInv, LogOrderly, Orderly
  <2>7. x \in Xid
    BY DEF Ended
  <2>8. CASE log[m].type = "COMMIT"
    <3>1. Before(log, Len(log) + 1, "COMMIT", x)
      BY <1>2, <2>4, <2>8 DEF Before
    <3> QED BY <2>5, <2>7, <2>8, <3>1 DEF Committed
  <2>9. CASE log[m].type = "ABORT"
    <3>1. Before(log, Len(log) + 1, "ABORT", x)
      BY <1>2, <2>4, <2>9 DEF Before
    <3> QED BY <2>5, <2>6, <2>9, <3>1 DEF Committed
  <2> QED BY <2>4, <2>8, <2>9
<1> QED BY <1>4, <1>5

\* Whoever has logged a change and did not end is a loser.
LEMMA LosersLemma ==
    ASSUME BaseInv, DurInv, Analyse, NEW i \in 1..Len(log), Changes(log[i])
    PROVE  log[i].xid \in Committed(log) \cup Aborted(log) \cup losers'
<1>1. log \in Seq(Record) /\ Len(log) \in Nat /\ Readable = Len(log)
  BY FirstLemma, ReadableLemma DEF BaseInv, XidInv, NothingTorn
<1>2. PICK x \in Xid : x = log[i].xid
  BY <1>1, ElementOfSeq, RecordFields DEF Changes
<1>3. \A types : Of(x, types) = {j \in 1..Len(log) : log[j].xid = x /\ log[j].type \in types}
  BY <1>1 DEF Of
<1>4. CASE x \in Ended
  BY <1>2, <1>4, RecordedLemma
<1>5. CASE x \notin Ended
  <2>1. \A j \in 1..Len(log) : log[j].xid = x => log[j].type \notin {"COMMIT", "ABORT"}
    BY <1>3, <1>5 DEF Ended
  <2>2. Of(x, {"CLR"}) = {}
    <3> SUFFICES ASSUME NEW j \in 1..Len(log), log[j].xid = x, log[j].type = "CLR"
                 PROVE  FALSE
      BY <1>3
    <3>1. log[j] \in Record
      BY <1>1, ElementOfSeq
    <3>2. log[j] = TxRecord("CLR", x)
      BY <3>1 DEF Record, TxRecord
    <3>3. log[j] \in Range(log)
      BY <1>1 DEF Range
    <3>4. TxRecord("ABORT", x) \in Range(log)
      BY <3>2, <3>3 DEF Analyse, BaseInv, XidInv, NothingHalfUndone, HalfUndone
    <3>5. PICK k \in 1..Len(log) : log[k] = TxRecord("ABORT", x)
      BY <1>1, <3>4 DEF Range
    <3> QED BY <2>1, <3>5, TxRecordLemma
  <2>3. i \in Of(x, {"INSERT", "UPDATE"})
    BY <1>2, <1>3 DEF Changes
  <2>4. losers' = {y \in Xid : Of(y, {"INSERT", "UPDATE"}) # {} /\ Of(y, {"CLR"}) = {}} \ Ended
    BY DEF Analyse
  <2> QED BY <1>2, <1>5, <2>2, <2>3, <2>4
<1> QED BY <1>4, <1>5

LEMMA AnalyseDur ==
    ASSUME BaseInv, DurInv, BaseInv', Analyse
    PROVE  DurInv'
<1>1. /\ UNCHANGED <<log, synced, imaged, mem, platter, clogFile, control, work, expected, writes>>
      /\ phase = "down" /\ control.inProduction /\ phase' = "redo"
      /\ statusMap' = [x \in Xid |-> IF x \in Ended THEN Recorded(x) ELSE Unset]
      /\ clog' = [x \in Xid |-> IF x \in Ended THEN Recorded(x) ELSE clog[x]]
      /\ losers' = {x \in Xid : Of(x, {"INSERT", "UPDATE"}) # {} /\ Of(x, {"CLR"}) = {}} \ Ended
      /\ upto' = Readable /\ at' = StartRecord(Readable)
  BY DEF Analyse, walVars, pageVars, ghosts
<1>2. Readable = Len(log) /\ log \in Seq(Record) /\ Len(log) \in Nat
  BY FirstLemma, ReadableLemma DEF BaseInv, XidInv, NothingTorn
<1>3. First' = First /\ at' = First /\ upto' = Len(log) /\ First \in Nat
  BY <1>1, <1>2, FirstLemma DEF First, StartRecord
<1>4. Active = {} /\ Active' = {}
  <2>1. Active = {}
    BY <1>1 DEF DurInv, StatusKnown, ActiveRun
  <2>2. \A x \in Xid : Recorded(x) # "IN_PROGRESS" /\ Unset # "IN_PROGRESS"
    BY DEF Recorded, Unset
  <2>3. Active' = {}
    BY <1>1, <2>2 DEF Active
  <2> QED BY <2>1, <2>3
<1>5. Counted' = Counted
  BY <1>1, <1>4 DEF Counted
<1>6. Done' = Done
  <2>1. Done = First - 1
    BY <1>1 DEF Done, Crashed
  <2>2. Done' = at' - 1
    BY <1>1 DEF Done
  <2> QED BY <1>3, <2>1, <2>2
<1>7. LogOrderly'
  BY <1>1, <1>3, <1>5 DEF DurInv, LogOrderly
<1>8. MemKnown' /\ PlatterKnown'
  BY <1>1, <1>3, <1>5, <1>6 DEF DurInv, MemKnown, PlatterKnown
<1>9. RowsKnown'
  BY <1>1, <1>4 DEF DurInv, RowsKnown, ExpectedLogged, WorkLogged, DataWritten
<1>10. ActiveRun' /\ RedoInLog' /\ MarksSynced'
  <2>1. \A i \in 1..Len(log) : log[i].type \in {"COMMIT", "CHECKPOINT"} => i <= synced
    BY DEF DurInv, StatusKnown, MarksSynced
  <2> QED BY <1>1, <1>3, <1>4, <2>1 DEF ActiveRun, RedoInLog, MarksSynced
<1>11. LosersRun'
  BY <1>1, RecordedLemma DEF LosersRun
<1>12. Accounted'
  BY <1>1, LosersLemma DEF Accounted
<1>13. CommitsLogged'
  <2> SUFFICES ASSUME NEW x \in Xid, "COMMITTED" \in {statusMap'[x], clog'[x], clogFile'[x]}
               PROVE  x \in Committed(log)
    BY <1>1 DEF CommitsLogged
  <2>1. CASE x \in Ended
    <3>1. clogFile'[x] = clogFile[x] /\ statusMap'[x] = Recorded(x) /\ clog'[x] = Recorded(x)
      BY <1>1, <2>1
    <3>2. clogFile[x] = "COMMITTED" => x \in Committed(log)
      BY DEF DurInv, StatusKnown, CommitsLogged
    <3> QED BY <2>1, <3>1, <3>2, RecordedLemma
  <2>2. CASE x \notin Ended
    <3>1. clogFile'[x] = clogFile[x] /\ statusMap'[x] = Unset /\ clog'[x] = clog[x]
      BY <1>1, <2>2
    <3>2. "COMMITTED" \in {clog[x], clogFile[x]} => x \in Committed(log)
      BY DEF DurInv, StatusKnown, CommitsLogged
    <3> QED BY <3>1, <3>2 DEF Unset
  <2> QED BY <2>1, <2>2
<1>14. CommitsKnown'
  <2> SUFFICES ASSUME NEW x \in Committed(log)
               PROVE  clog'[x] = "COMMITTED" /\ statusMap'[x] = "COMMITTED"
    BY <1>1 DEF CommitsKnown
  <2>1. x \in Ended /\ x \in Xid /\ Recorded(x) = "COMMITTED"
    BY RecordedLemma DEF Committed
  <2> QED BY <1>1, <2>1
<1> QED BY <1>7, <1>8, <1>9, <1>10, <1>11, <1>12, <1>13, <1>14 DEF DurInv, StatusKnown

\* In redo the transactions that count are those that have committed.
LEMMA RedoCounts ==
    ASSUME BaseInv, DurInv, phase # "up", NEW n \in 1..Len(log)
    PROVE  /\ Counting(log, n, Counted) /\ Counting(log, Len(log) + 1, Counted)
           /\ Allowed(log, n) /\ ImageIsWhole(log, Counted, n)
           /\ log[n] \in Record /\ log \in Seq(Record) /\ Len(log) \in Nat
<1>1. log \in Seq(Record) /\ Len(log) \in Nat /\ log[n] \in Record
  BY FirstLemma, ElementOfSeq
<1>2. \A i \in 1..Len(log) : Allowed(log, i) /\ ImageIsWhole(log, Counted, i)
  BY DEF DurInv, LogOrderly, Orderly
<1>3. Counted = Committed(log)
  BY DEF Counted, DurInv, StatusKnown, ActiveRun
<1>4. PICK N \in Nat : N = Len(log) + 1 /\ n <= N /\ n \in Nat
  BY <1>1
<1>5. ASSUME NEW m \in Nat, m <= N
      PROVE  Counting(log, m, Counted)
  <2>1. ASSUME NEW x \in Counted, Before(log, m, "ABORT", x)
        PROVE  FALSE
    <3>1. Before(log, N, "ABORT", x)
      BY <1>4, <1>5, <2>1, BeforeLater
    <3>2. Before(log, N, "COMMIT", x)
      BY <1>3, <1>4 DEF Committed
    <3> QED BY <1>1, <1>2, <1>4, <3>1, <3>2, EndsOnce
  <2>2. ASSUME NEW x, Before(log, m, "COMMIT", x)
        PROVE  x \in Counted
    <3>1. Before(log, N, "COMMIT", x)
      BY <1>4, <1>5, <2>2, BeforeLater
    <3>2. PICK i \in 1..Len(log) : log[i].type = "COMMIT" /\ log[i].xid = x
      BY <1>1, <1>4, <3>1 DEF Before
    <3>3. x \in Xid
      BY <1>1, <3>2, ElementOfSeq, RecordFields
    <3> QED BY <1>3, <1>4, <3>1, <3>3 DEF Committed
  <2> QED BY <2>1, <2>2 DEF Counting
<1> QED BY <1>1, <1>2, <1>4, <1>5

\* A record is about the pages that it is replayed on, and no others.
LEMMA AltersTargets ==
    ASSUME NEW r \in Record, NEW p
    PROVE  /\ Alters(r, p) => p \in Targets(r) /\ Changes(r)
           /\ r.type = "FPI" => (p \in Targets(r) <=> r.page = p)
  BY TargetsLemma DEF Alters, Changes

\* What is to be restored by one of the records from n on, and not by the n-th.
LEMMA MendedLater ==
    ASSUME NEW lg, NEW p, NEW n \in Nat, NEW hi \in Nat, Mended(lg, p, n, hi),
           ~(lg[n].type = "FPI" /\ lg[n].page = p)
    PROVE  Mended(lg, p, n + 1, hi)
<1>1. PICK i \in n..hi : lg[i].type = "FPI" /\ lg[i].page = p
  BY DEF Mended
<1>2. i # n
  BY <1>1
<1>3. i \in n+1..hi
  BY <1>2
<1> QED BY <1>1, <1>3 DEF Mended

\* A page that record n is replayed on is up to that record.
LEMMA ReplayedKnown ==
    ASSUME BaseInv, DurInv, phase = "redo", NEW n \in 1..Len(log), NEW p \in Targets(log[n]),
           p \in Page, Known(log, Counted, n - 1, Len(log), p, mem[p])
    PROVE  Known(log, Counted, n, Len(log), p, Replayed(n, p, Ensured(log[n], p)))
<1>1. /\ Counting(log, n, Counted) /\ Allowed(log, n) /\ ImageIsWhole(log, Counted, n)
      /\ log[n] \in Record /\ log \in Seq(Record) /\ Len(log) \in Nat
  BY RedoCounts
<1>2. PICK N \in Nat, k \in Nat : N = Len(log) /\ k = n - 1 /\ k < n /\ k + 1 = n /\ n <= N
  BY <1>1
<1>3. PICK older \in Images : older = mem[p] /\ Known(log, Counted, k, N, p, older)
  BY <1>2 DEF BaseInv, StorageInv, PagesOK
<1>4. PICK e : e = Ensured(log[n], p)
  OBVIOUS
<1>5. /\ e \in Image /\ e.formatted /\ (Present(older) => e = older)
      /\ (~Present(older) => e = FreshPage)
  <2>1. p \in Needed(log[n])
    BY <1>1, TargetsLemma
  <2>2. CASE Present(older)
    BY <1>3, <1>4, <2>1, <2>2 DEF Ensured, Known, Images, Present
  <2>3. CASE ~Present(older)
    BY <1>3, <1>4, <2>1, <2>3, EmptyImages DEF Ensured
  <2> QED BY <2>2, <2>3
<1>6. PICK new \in Image :
         /\ new = Replayed(n, p, e)
         /\ \/ /\ log[n].type = "FPI" /\ log[n].image \in Image
               /\ new = SetLsn(log[n].image, End(n))
            \/ log[n].type # "FPI" /\ e.lsn > Start(n) /\ new = e
            \/ /\ log[n].type \in {"INSERT", "UPDATE"} /\ ~(e.lsn > Start(n))
               /\ new = SetLsn(Change(log[n], p, e), End(n))
  BY <1>1, <1>5, ReplayedLemma
<1>7. End(n) \in Nat /\ End(n) <= End(N) /\ Start(n) < End(n) /\ Start(n) >= 0 /\ End(N) >= 0
      /\ Start(n) \in Int /\ End(N) \in Nat
  BY <1>2 DEF End, Start
<1>8. e.lsn <= End(N)
  <2>1. CASE Present(older)
    BY <1>3, <1>5, <2>1 DEF Known
  <2>2. CASE ~Present(older)
    BY <1>5, <1>7, <2>2, EmptyImages
  <2> QED BY <2>1, <2>2
<1>9. CASE log[n].type = "FPI"
  <2>1. log[n].page = p /\ log[n].image \in Image /\ new = SetLsn(log[n].image, End(n))
    BY <1>1, <1>6, <1>9, AltersTargets
  <2>2. Held(log, Counted, n, p, new)
    BY <1>1, <1>9, <2>1, ImageHeld
  <2>3. new.formatted /\ new.lsn = End(n)
    BY <1>1, <1>7, <1>9, <2>1, SetLsnLemma DEF ImageIsWhole
  <2>4. Present(new)
    BY NoTupleNoImage DEF Present
  <2> QED BY <1>2, <1>4, <1>6, <1>7, <2>2, <2>3, <2>4 DEF Known
<1>10. CASE log[n].type # "FPI"
  <2>1. Changes(log[n])
    BY <1>1, <1>10, TargetsLemma DEF Changes
  <2>2. new.formatted /\ new.lsn <= End(N)
    <3>1. CASE new = e
      BY <1>5, <1>8, <3>1
    <3>2. CASE new = SetLsn(Change(log[n], p, e), End(n))
      <4>1. PICK c \in Image : c = Change(log[n], p, e) /\ c.formatted
        BY <1>1, <1>5, <2>1, ChangeEffect
      <4> QED BY <1>7, <3>2, <4>1, SetLsnLemma
    <3> QED BY <1>6, <1>10, <3>1, <3>2
  <2>3. Present(new)
    BY NoTupleNoImage DEF Present
  <2>4. CASE Mended(log, p, n + 1, N)
    BY <1>2, <1>4, <1>6, <2>2, <2>3, <2>4 DEF Known
  <2>5. CASE ~Mended(log, p, n + 1, N)
    <3>1. ~Mended(log, p, k + 1, N)
      BY <1>2, <1>10, <2>5, MendedLater
    <3>2. Held(log, Counted, k, p, older)
      BY <1>3, <3>1 DEF Known
    <3>3. CASE e.lsn > Start(n) /\ new = e
      <4>1. Present(older) /\ older = e
        BY <1>5, <1>7, <3>3, EmptyImages
      <4>2. \A i \in 1..n : i \in 1..k \/ i = n
        BY <1>2
      <4>3. e.lsn \in Nat /\ Start(n) < e.lsn
        BY <1>5, <1>7, <3>3 DEF Image
      <4>4. Held(log, Counted, n, p, e)
        BY <3>2, <4>1, <4>2, <4>3 DEF Held
      <4> QED BY <1>2, <1>4, <1>6, <2>2, <2>3, <3>3, <4>4 DEF Known
    <3>4. CASE ~(e.lsn > Start(n)) /\ new = SetLsn(Change(log[n], p, e), End(n))
      <4>1. /\ \A x \in Counted : ~Before(log, n, "ABORT", x)
            /\ \A x : Before(log, n, "COMMIT", x) => x \in Counted
        BY <1>1 DEF Counting
      <4>2. \A i \in k+1..n-1 : ~Alters(log[i], p)
        BY <1>2
      <4>3. End(n) <= End(n)
        BY <1>7
      <4>4. Held(log, Counted, n, p, new)
        BY <1>1, <1>2, <1>5, <1>7, <2>1, <3>2, <3>4, <4>1, <4>2, <4>3, ChangeHeld
      <4> QED BY <1>2, <1>4, <1>6, <2>2, <2>3, <4>4 DEF Known
    <3> QED BY <1>6, <1>10, <3>3, <3>4
  <2> QED BY <2>4, <2>5
<1> QED BY <1>9, <1>10

\* So is any other page, even if it is new: those below the ones that record n is
\* about have been written to before.
LEMMA EnsuredKnown ==
    ASSUME BaseInv, DurInv, phase = "redo", NEW n \in 1..Len(log), NEW p \in Page,
           p \notin Targets(log[n]), Known(log, Counted, n - 1, Len(log), p, mem[p])
    PROVE  Known(log, Counted, n, Len(log), p, Ensured(log[n], p))
<1>1. /\ ImageIsWhole(log, Counted, n) /\ Allowed(log, n)
      /\ log[n] \in Record /\ log \in Seq(Record) /\ Len(log) \in Nat
  BY RedoCounts
<1>2. PICK N \in Nat, k \in Nat : N = Len(log) /\ k = n - 1 /\ k < n /\ k + 1 = n /\ n <= N
  BY <1>1
<1>3. PICK older \in Images : older = mem[p] /\ Known(log, Counted, k, N, p, older)
  BY <1>2 DEF BaseInv, StorageInv, PagesOK
<1>4. ~Alters(log[n], p) /\ ~(log[n].type = "FPI" /\ log[n].page = p)
  BY <1>1, AltersTargets
<1>5. CASE Ensured(log[n], p) = older
  <2>1. CASE Mended(log, p, n, N)
    <3>1. Mended(log, p, n + 1, N)
      BY <1>2, <1>4, <2>1, MendedLater
    <3> QED BY <1>2, <1>3, <1>5, <3>1 DEF Known
  <2>2. CASE ~Mended(log, p, n, N)
    <3>1. Held(log, Counted, k, p, older)
      BY <1>2, <1>3, <2>2 DEF Known
    <3>2. \A i \in k+1..n : ~Alters(log[i], p)
      BY <1>2, <1>4
    <3>3. Held(log, Counted, n, p, older)
      BY <1>2, <3>1, <3>2, HeldFurther
    <3> QED BY <1>2, <1>3, <1>5, <3>3 DEF Known
  <2> QED BY <2>1, <2>2
<1>6. CASE Ensured(log[n], p) # older
  <2>1. p \in Needed(log[n]) /\ ~Present(older) /\ Ensured(log[n], p) = FreshPage
    BY <1>3, <1>6 DEF Ensured
  <2>2. PICK q \in Targets(log[n]) : p <= q
    BY <2>1 DEF Needed
  <2>3. 0 < p /\ p < q /\ q \in Page
    <3>1. p # 0 /\ p # q
      BY <1>3, <2>1, <2>2 DEF Known
    <3>2. p \in Nat /\ q \in Nat /\ q \in Page
      BY <1>1, <2>2, TargetsLemma, Constants
    <3> QED BY <2>2, <3>1, <3>2
  <2>4. \E j \in 1..k : Alters(log[j], p)
    <3>1. CASE Changes(log[n])
      <4>1. NoHoles(log, n)
        BY <1>1, <3>1 DEF Allowed
      <4> QED BY <1>2, <2>2, <2>3, <4>1 DEF NoHoles
    <3>2. CASE ~Changes(log[n])
      <4>1. log[n].type = "FPI" /\ log[n].page = q /\ log[n].image \in Image
        BY <1>1, <2>2, <3>2, TargetsLemma, RecordFields DEF Changes
      <4>2. PICK img \in Image : img = log[n].image
        BY <4>1
      <4>3. img.lsn <= End(k) /\ Held(log, Counted, k, q, img) /\ Present(img)
        BY <1>1, <1>2, <4>1, <4>2, NoTupleNoImage DEF ImageIsWhole, Present
      <4>4. q # 0
        BY <2>3, Constants
      <4>5. PICK i \in 1..N : Alters(log[i], q) /\ Start(i) < img.lsn
        BY <1>2, <4>3, <4>4 DEF Held
      <4>6. i <= k
        BY <1>2, <4>3, <4>5 DEF Start, End, Image
      <4>7. log[i] \in Record /\ Allowed(log, i)
        BY <1>1, <1>2, <4>5, RedoCounts
      <4>8. q \in Targets(log[i]) /\ NoHoles(log, i)
        BY <4>5, <4>7, AltersTargets DEF Allowed
      <4>9. PICK j \in 1..i-1 : Alters(log[j], p)
        BY <2>3, <4>8 DEF NoHoles
      <4> QED BY <1>2, <4>5, <4>6, <4>9
    <3> QED BY <3>1, <3>2
  <2>5. ~Held(log, Counted, k, p, older)
    BY <2>1, <2>4 DEF Held
  <2>6. Mended(log, p, n, N)
    BY <1>2, <1>3, <2>5 DEF Known
  <2>7. Mended(log, p, n + 1, N)
    BY <1>2, <1>4, <2>6, MendedLater
  <2>8. 0 <= End(N)
    BY <1>2 DEF End
  <2>9. FreshPage.formatted /\ FreshPage.lsn <= End(N) /\ Present(FreshPage)
    BY <2>8, EmptyImages, NoTupleNoImage DEF Present
  <2> QED BY <1>2, <2>1, <2>7, <2>9 DEF Known
<1> QED BY <1>5, <1>6

LEMMA RedoDur ==
    ASSUME BaseInv, DurInv, BaseInv', Redo
    PROVE  DurInv'
<1>1. /\ UNCHANGED <<log, synced, imaged, statusMap, clog, clogFile, control, losers, work,
                     expected, writes>>
      /\ phase = "redo" /\ phase' = "redo" /\ at' = at + 1 /\ upto' = upto
      /\ Allocate(Needed(log[at]))
  BY DEF Redo, walVars, txVars, ghosts
<1>2. PICK n \in 1..Len(log) : n = at
  BY RedoEffect DEF BaseInv
<1>3. First' = First /\ Counted' = Counted /\ Active' = Active
  BY <1>1 DEF First, StartRecord, Counted, Active
<1>4. Done = n - 1 /\ Done' = n
  <2>1. Done = at - 1 /\ Done' = (at + 1) - 1
    BY <1>1 DEF Done
  <2> QED BY <1>2, <2>1
<1>5. LogOrderly'
  BY <1>1, <1>3 DEF DurInv, LogOrderly
<1>6. MemKnown'
  <2> SUFFICES ASSUME NEW p \in Page PROVE Known(log, Counted, n, Len(log), p, mem'[p])
    BY <1>1, <1>3, <1>4 DEF MemKnown
  <2>1. Known(log, Counted, n - 1, Len(log), p, mem[p])
    BY <1>4 DEF DurInv, MemKnown
  <2>2. CASE p \in Targets(log[n])
    <3>1. mem'[p] = Replayed(n, p, Ensured(log[n], p))
      BY <1>2, <2>2, RedoEffect DEF BaseInv
    <3> QED BY <1>1, <2>1, <2>2, <3>1, ReplayedKnown
  <2>3. CASE p \notin Targets(log[n])
    <3>1. mem'[p] = Ensured(log[n], p)
      BY <1>2, <2>3, RedoEffect DEF BaseInv
    <3> QED BY <1>1, <2>1, <2>3, <3>1, EnsuredKnown
  <2> QED BY <2>2, <2>3
<1>7. PlatterKnown'
  <2>1. Needed(log[at]) \in SUBSET Page
    BY RedoEffect DEF BaseInv
  <2>2. \A p \in Page : \A img \in platter'[p] : img \in platter[p] \/ img = ZeroPage
    BY <1>1, <2>1, AllocateKeepsPlatter DEF BaseInv
  <2> QED BY <1>1, <1>3, <2>2 DEF DurInv, PlatterKnown
<1>8. RowsKnown'
  BY <1>1, <1>3 DEF DurInv, RowsKnown, ExpectedLogged, WorkLogged, DataWritten
<1>9. RedoInLog'
  <2>1. upto = Len(log) /\ at >= First
    BY <1>1 DEF DurInv, StatusKnown, RedoInLog
  <2>2. at + 1 >= First
    BY <1>2, <2>1, FirstLemma
  <2> QED BY <1>1, <1>3, <2>1, <2>2 DEF RedoInLog
<1>10. ActiveRun' /\ LosersRun' /\ Accounted' /\ CommitsLogged' /\ CommitsKnown' /\ MarksSynced'
  BY <1>1, <1>3 DEF DurInv, StatusKnown, ActiveRun, LosersRun, Accounted, CommitsLogged,
                    CommitsKnown, MarksSynced, Crashed
<1> QED BY <1>5, <1>6, <1>7, <1>8, <1>9, <1>10 DEF DurInv, StatusKnown

\* A page keeps its form when a record is taken back.
LEMMA UndoneFormatted ==
    ASSUME NEW r \in Record, Changes(r), NEW p \in Page, NEW img \in Image
    PROVE  Undone(r, p, img) \in Image /\ Undone(r, p, img).formatted = img.formatted
<1>1. r.new.slot \in Slot /\ (r.type = "UPDATE" => r.old.slot \in Slot)
  BY RecordFields DEF Ctid, Changes
<1>2. PICK restored : restored = IF r.type = "UPDATE" /\ p = r.old.page
                                 THEN StampXmax(img, r.old.slot, 0) ELSE img
  OBVIOUS
<1>3. restored \in Image /\ restored.formatted = img.formatted
  <2>1. CASE r.type = "UPDATE" /\ p = r.old.page
    BY <1>1, <1>2, <2>1, StampLemma
  <2>2. CASE ~(r.type = "UPDATE" /\ p = r.old.page)
    BY <1>2, <2>2
  <2> QED BY <2>1, <2>2
<1>4. Undone(r, p, img) = IF p = r.new.page THEN RemoveTuple(restored, r.new.slot) ELSE restored
  BY <1>2 DEF Undone
<1>5. CASE p = r.new.page
  BY <1>1, <1>3, <1>4, <1>5, RemoveLemma
<1>6. CASE p # r.new.page
  BY <1>3, <1>4, <1>6
<1> QED BY <1>5, <1>6

\* A page of which undo has taken a record back is up to the compensation record.
LEMMA CompensatedKnown ==
    ASSUME BaseInv, DurInv, BaseInv', Undo, Compensates(log[at]), Counted' = Counted,
           NEW p \in Targets(log[at]), p \in Page
    PROVE  Known(log', Counted', Len(log'), Len(log'), p, mem'[p])
<1>1. phase = "undo" /\ ~Crashed
  BY DEF Undo, Crashed
<1>2. /\ at \in 1..Len(log) /\ log[at] \in Record /\ log[at].xid \in Xid
      /\ log[at].type \in {"INSERT", "UPDATE"}
      /\ Prefix(log, log') /\ Len(log') = Len(log) + 1 /\ Len(log) \in Nat
      /\ log'[Len(log')] = TxRecord("CLR", log[at].xid) /\ End(Len(log')) \in Nat
      /\ mem[p] \in Image
      /\ mem'[p] = SetLsn(Undone(log[at], p, mem[p]), End(Len(log')))
  BY <1>1, UndoEffect DEF BaseInv
<1>3. PICK i \in 1..Len(log) : i = at
  BY <1>2
<1>4. PICK img \in Image : img = mem[p]
  BY <1>2
<1>5. PICK new \in Seq(Record) : new = log' /\ Alike(log, new, Len(log))
  BY <1>2, GrownLog
<1>6. PICK N \in Nat : N = Len(new) /\ N = Len(log) + 1 /\ End(N) \in Nat
  BY <1>2, <1>5
<1>7. Changes(log[i]) /\ log[i] \in Record
  BY <1>2, <1>3 DEF Changes
<1>8. Counting(log, Len(log) + 1, Counted) /\ log \in Seq(Record)
  BY <1>1, <1>3, RedoCounts
<1>9. log[i].xid \notin Counted /\ ~Before(log, Len(log) + 1, "ABORT", log[i].xid)
  <2>1. Counted = Committed(log)
    BY <1>1 DEF Counted, DurInv, StatusKnown, ActiveRun
  <2>2. log[i].xid \in losers /\ log[i].xid \in Xid
    BY <1>2, <1>3 DEF Compensates
  <2>3. log[i].xid \notin Committed(log) \cup Aborted(log)
    BY <2>2 DEF DurInv, StatusKnown, LosersRun
  <2> QED BY <2>1, <2>2, <2>3 DEF Aborted
<1>10. ~Changes(new[Len(new)])
  <2>1. PICK x \in Xid : x = log[at].xid
    BY <1>2
  <2>2. TxRecord("CLR", x).type = "CLR"
    BY TxRecordLemma
  <2>3. new[Len(new)] = TxRecord("CLR", x)
    BY <1>2, <1>5, <2>1
  <2> QED BY <2>2, <2>3 DEF Changes
<1>11. Held(log, Counted, Len(log), p, img)
  BY <1>1, <1>4, UpHeld
<1>12. img.lsn <= End(Len(log)) /\ img.formatted
  <2>1. Done = Len(log)
    BY <1>1 DEF Done
  <2> QED BY <1>4, <2>1, NoTupleNoImage DEF DurInv, MemKnown, Known, Present
<1>13. \A n \in 1..Len(log) : Allowed(log, n)
  BY DEF DurInv, LogOrderly, Orderly
<1>14. /\ \A x \in Counted : ~Before(log, Len(log) + 1, "ABORT", x)
       /\ \A x : Before(log, Len(log) + 1, "COMMIT", x) => x \in Counted
  BY <1>8 DEF Counting
<1>15. p \in Targets(log[i])
  BY <1>3
<1>16. Len(new) = Len(log) + 1
  BY <1>6
<1>17. Held(new, Counted, Len(new), p, SetLsn(Undone(log[i], p, img), End(Len(new))))
  BY <1>5, <1>7, <1>8, <1>9, <1>10, <1>11, <1>12, <1>13, <1>14, <1>15, <1>16, UndoneHeld
<1>18. mem'[p] = SetLsn(Undone(log[i], p, img), End(N))
  BY <1>2, <1>3, <1>4, <1>5, <1>6
<1>19. mem'[p].formatted /\ mem'[p].lsn = End(N) /\ Present(mem'[p])
  <2>1. PICK u \in Image : u = Undone(log[i], p, img) /\ u.formatted
    BY <1>7, <1>12, UndoneFormatted
  <2>2. PICK m \in Nat : m = End(N)
    BY <1>6
  <2>3. PICK w \in Image : w = SetLsn(u, m) /\ w.lsn = m /\ w.formatted = u.formatted
    BY SetLsnLemma
  <2>4. mem'[p] = w
    BY <1>18, <2>1, <2>2, <2>3
  <2>5. w.formatted
    BY <2>1, <2>3
  <2>6. w # Absent
    BY NoTupleNoImage
  <2> QED BY <2>2, <2>3, <2>4, <2>5, <2>6 DEF Present
<1>20. Held(new, Counted, N, p, mem'[p])
  BY <1>6, <1>17, <1>18
<1>21. End(N) <= End(N)
  BY <1>6
<1>22. Known(new, Counted, N, N, p, mem'[p])
  BY <1>19, <1>20, <1>21 DEF Known
<1> QED BY <1>5, <1>6, <1>22

LEMMA UndoDur ==
    ASSUME BaseInv, DurInv, BaseInv', Undo
    PROVE  DurInv'
<1>1. /\ UNCHANGED <<synced, imaged, platter, statusMap, clog, clogFile, control, losers, work,
                     expected, writes>>
      /\ phase = "undo" /\ phase' = "undo" /\ upto' = upto /\ ~Crashed /\ ~Crashed'
      /\ at' = at - 1
  BY DEF Undo, txVars, ghosts, Crashed
<1>2. /\ Prefix(log, log')
      /\ \A i \in Len(log)+1..Len(log') : log'[i].type = "CLR"
      /\ \A p \in Page : \/ mem'[p] = mem[p]
                         \/ Compensates(log[at]) /\ p \in Targets(log[at])
  <2>1. CASE Compensates(log[at])
    <3>1. /\ Prefix(log, log') /\ Len(log') = Len(log) + 1 /\ Len(log) \in Nat
          /\ log'[Len(log')] = TxRecord("CLR", log[at].xid) /\ log[at].xid \in Xid
          /\ \A p \in Page \ Targets(log[at]) : mem'[p] = mem[p]
      BY <2>1, UndoEffect DEF BaseInv
    <3>2. log'[Len(log')].type = "CLR"
      BY <3>1, TxRecordLemma
    <3>3. \A i \in Len(log)+1..Len(log') : i = Len(log')
      BY <3>1
    <3> QED BY <2>1, <3>1, <3>2, <3>3
  <2>2. CASE ~Compensates(log[at])
    <3>1. log' = log /\ mem' = mem
      BY <2>2 DEF Undo
    <3> QED BY <3>1, SameLog
  <2> QED BY <2>1, <2>2
<1>3. /\ ActiveRun' /\ LosersRun' /\ Accounted' /\ CommitsLogged' /\ CommitsKnown'
      /\ RedoInLog' /\ RowsKnown' /\ Counted' = Counted
  BY <1>1, <1>2, QuietStatus
<1>4. First' = First
  BY <1>2, SameFirst
<1>5. Fewer(log, Len(log), Counted, Counted')
  BY <1>3 DEF Fewer
<1>6. MarksSynced'
  <2>1. \A i \in 1..Len(log) : log[i].type \in {"COMMIT", "CHECKPOINT"} => i <= synced
    BY DEF DurInv, StatusKnown, MarksSynced
  <2>2. \A i \in 1..Len(log') : i \in Len(log)+1..Len(log') \/ (i \in 1..Len(log) /\ log'[i] = log[i])
    BY <1>2, GrownLog DEF Alike
  <2> QED BY <1>1, <1>2, <2>1, <2>2 DEF MarksSynced
<1>7. LogOrderly'
  <2>1. \A i \in Len(log)+1..Len(log') :
           /\ ~Changes(log'[i]) /\ log'[i].type # "FPI"
           /\ log'[i].type \in {"COMMIT", "ABORT"} => StillRuns(log', i)
    BY <1>2 DEF Changes
  <2> QED BY <1>1, <1>2, <1>4, <1>5, <2>1, LogStaysOrderly
<1>8. MemKnown'
  <2> SUFFICES ASSUME NEW p \in Page
               PROVE  Known(log', Counted', Len(log'), Len(log'), p, mem'[p])
    BY <1>1 DEF MemKnown, Done
  <2>1. CASE mem'[p] = mem[p]
    <3>1. \A i \in Len(log)+1..Len(log') : ~Alters(log'[i], p)
      BY <1>2 DEF Alters
    <3> QED BY <1>1, <1>2, <1>5, <2>1, <3>1, MemStaysKnown
  <2>2. CASE Compensates(log[at]) /\ p \in Targets(log[at])
    BY <1>3, <2>2, CompensatedKnown
  <2> QED BY <1>2, <2>1, <2>2
<1>9. PlatterKnown'
  <2>1. synced <= synced'
    BY <1>1 DEF BaseInv, StorageInv, WalOK
  <2>2. \A p \in Page : \A img \in platter'[p] : img \in platter[p]
    BY <1>1
  <2> QED BY <1>2, <1>4, <1>5, <2>1, <2>2, PlatterStaysKnown
<1> QED BY <1>3, <1>6, <1>7, <1>8, <1>9 DEF DurInv, StatusKnown

----------------------------------------------------------------------------
(* Every step, and the theorems. *)

\* An unchanged state.
LEMMA StutterDur ==
    ASSUME DurInv, UNCHANGED vars
    PROVE  DurInv'
<1>1. /\ UNCHANGED <<log, synced, imaged, mem, platter, statusMap, clog, clogFile, control,
                     phase, at, upto, losers, work, expected, writes>>
  BY DEF vars, walVars, pageVars, txVars, recVars, ghosts
<1>2. First' = First /\ Counted' = Counted /\ Active' = Active /\ Crashed' = Crashed
  BY <1>1 DEF First, StartRecord, Counted, Active, Crashed
<1>3. Done' = Done
  BY <1>1, <1>2 DEF Done
<1>4. LogOrderly' /\ MemKnown' /\ PlatterKnown' /\ RowsKnown'
  BY <1>1, <1>2, <1>3 DEF DurInv, LogOrderly, MemKnown, PlatterKnown, RowsKnown,
                          ExpectedLogged, WorkLogged, DataWritten
<1>5. StatusKnown'
  BY <1>1, <1>2 DEF DurInv, StatusKnown, ActiveRun, LosersRun, Accounted, CommitsLogged,
                    CommitsKnown, MarksSynced, RedoInLog
<1> QED BY <1>4, <1>5 DEF DurInv

LEMMA NextDur == Undisturbed /\ BaseInv /\ BaseInv' /\ DurInv /\ [Next]_vars => DurInv'
<1> SUFFICES ASSUME Undisturbed, BaseInv, BaseInv', DurInv, [Next]_vars PROVE DurInv'
  OBVIOUS
<1>1. CASE Begin
  BY <1>1, BeginDur
<1>2. CASE \E x \in Xid, q \in Page : Insert(x, q)
  BY <1>2, InsertDur
<1>3. CASE \E x \in Xid, q \in Page, s \in Slot : HotUpdate(x, q, s)
  BY <1>3, HotUpdateDur
<1>4. CASE \E x \in Xid, q \in Page, s \in Slot, p \in Page : Update(x, p, s, q)
  BY <1>4, UpdateDur
<1>5. CASE \E x \in Xid : Commit(x)
  BY <1>5, CommitDur
<1>6. CASE \E x \in Xid : Rollback(x)
  BY <1>6, RollbackDur
<1>7. CASE \E x \in Xid : AbortLoser(x)
  BY <1>7, AbortLoserDur
<1>8. CASE \E p \in Page : Evict(p)
  BY <1>8, EvictDur
<1>9. CASE Checkpoint
  BY <1>9, CheckpointDur
<1>10. CASE Close
  BY <1>10, CloseDur
<1>11. CASE Crash
  BY <1>11, CrashDur
<1>12. CASE StartClean
  BY <1>12, StartCleanDur
<1>13. CASE Analyse
  BY <1>13, AnalyseDur
<1>14. CASE Redo
  BY <1>14, RedoDur
<1>15. CASE RedoEnds
  BY <1>15, RedoEndsDur
<1>16. CASE Undo
  BY <1>16, UndoDur
<1>17. CASE RecoveryEnds
  BY <1>17, RecoveryEndsDur
<1>18. CASE UNCHANGED vars
  BY <1>18, StutterDur
<1> QED BY <1>1, <1>2, <1>3, <1>4, <1>5, <1>6, <1>7, <1>8, <1>9, <1>10, <1>11, <1>12, <1>13,
           <1>14, <1>15, <1>16, <1>17, <1>18 DEF Next

LEMMA DurInvariant == ASSUME Undisturbed PROVE Spec => [](BaseInv /\ DurInv)
<1>1. AllRead
  BY DEF Undisturbed, AllRead
<1>2. Init => BaseInv /\ DurInv
  BY InitStorage, InitLogged, InitXids, InitDur DEF BaseInv
<1>3. BaseInv /\ [Next]_vars => BaseInv'
  BY <1>1, NextStorage, NextLogged, NextXids DEF BaseInv
<1>4. BaseInv /\ DurInv /\ [Next]_vars => (BaseInv /\ DurInv)'
  BY <1>3, NextDur
<1> QED BY <1>2, <1>4, PTL DEF Spec

\* Whatever power failures there are, no committed row is lost: once the engine
\* serves, every row that a committed transaction has written, and none has updated
\* since, is there for everybody (wal.cpp, recover; transaction.cpp, commit).
THEOREM CommittedRowsStay == ASSUME Undisturbed PROVE Spec => []NothingLost
<1>1. BaseInv /\ DurInv => NothingLost
  BY DurInvImplies
<1> QED BY <1>1, DurInvariant, PTL

\* Nor is there any other row: nothing of a transaction that was rolled back, or
\* that was running when the power failed (wal.cpp, recover, its undo pass).
THEOREM NothingElseAppears == ASSUME Undisturbed PROVE Spec => []NothingResurrected
<1>1. BaseInv /\ DurInv => NothingResurrected
  BY DurInvImplies
<1> QED BY <1>1, DurInvariant, PTL
=============================================================================
