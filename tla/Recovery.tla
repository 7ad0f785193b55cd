------------------------------ MODULE Recovery ------------------------------
(***************************************************************************)
(* Write-ahead logging, the buffer pool's writes, checkpoints, crashes and *)
(* the three passes of WALManager::recover (src/src/wal.cpp), with what    *)
(* the heap, the transaction manager and the engine's start and stop do to *)
(* them.  Statements of several transactions interleave; between any two   *)
(* steps a dirty page may be written out, and the machine may fail.        *)
(*                                                                         *)
(* An LSN is a byte offset in wal.log.  The model counts in half records:  *)
(* record i starts at 2(i-1), and "lsn + 1", which the heap stamps on a    *)
(* page, is the offset in the middle of it.                                *)
(***************************************************************************)
EXTENDS SlottedPage, Sequences, Functions

CONSTANTS
    Page,           \* 0..n, the pages the heap may come to have
    MaxWrites,      \* bound: row versions written
    MaxLog,         \* bound: log length up to which statements are run
    MaxEvictions,   \* bound: dirty frames written out to make room
    MaxCrashes,     \* bound: power failures
    Circumstances   \* which of the unfortunate circumstances below may arise

\* The circumstances, each the subject of a run of its own:
\*   bareCommit   a transaction commits when all of the log is flushed already
\*   rawPage      a power failure leaves a page as the file was extended with it
\*   tornTail     a power failure leaves part of a record at the end of the log
\*   crashInUndo  a power failure between a compensation and its ABORT record
AllCircumstances == {"bareCommit", "rawPage", "tornTail", "crashInUndo"}

ASSUME RecoveryOK ==
    /\ IsFiniteSet(Page) /\ Page # {} /\ Page = 0..(Cardinality(Page) - 1)
    /\ IsFiniteSet(Xid) /\ Xid = 1..Cardinality(Xid)
    /\ Value = 1..MaxWrites
    /\ {MaxWrites, MaxLog, MaxEvictions, MaxCrashes} \subseteq Nat
    /\ Circumstances \subseteq AllCircumstances

VARIABLES
    log,        \* wal.log, with what the operating system still buffers of it
    synced,     \* how many of its records a power failure cannot take
    flushed,    \* flushed_lsn_
    imaged,     \* fpi_written_pages_
    mem,        \* each page as the pool or, if it is not resident, the file has it
    dirty,      \* pages whose frame is dirty
    file,       \* each page as the file has it
    platter,    \* the images of each page that a power failure may leave behind
    statusMap,  \* status_map_
    clog,       \* the commit log, with what its frames hold
    clogFile,   \* the commit log's file
    nextXid,    \* next_tx_id_
    control,    \* next_xid and the state of the control file
    phase,      \* what the process is doing
    at,         \* the record that recovery looks at
    upto,       \* how many records its first pass could read
    losers,     \* active_tx_table
    work,       \* what each open transaction has added and removed
    expected,   \* the rows of the transactions that have committed
    writes,     \* row versions written so far
    evictions,  \* dirty frames written out so far
    crashes     \* power failures so far

walVars  == <<log, synced, flushed, imaged>>
pageVars == <<mem, dirty, file, platter>>
txVars   == <<statusMap, clog, clogFile, nextXid, control>>
recVars  == <<phase, at, upto, losers>>
ghosts   == <<work, expected, writes, evictions, crashes>>
vars     == <<walVars, pageVars, txVars, recVars, ghosts>>

Status == {"IN_PROGRESS", "COMMITTED", "ABORTED"}
Unset  == "unset"
Ctid   == [page : Page, slot : Slot]
Record ==
    [type : {"INSERT"}, xid : Xid, new : Ctid, tuple : Tuple]
      \cup [type : {"UPDATE"}, xid : Xid, old : Ctid, new : Ctid, tuple : Tuple]
      \cup [type : {"COMMIT", "ABORT", "CLR"}, xid : Xid]
      \cup [type : {"FPI"}, xid : {0}, page : Page, image : Image]
      \cup [type : {"CHECKPOINT", "TORN"}, xid : {0}]
Work == [add : SUBSET Value, del : SUBSET Value]
Idle == [add |-> {}, del |-> {}]

TypeOK ==
    /\ log \in Seq(Record)
    /\ synced \in 0..Len(log)
    /\ flushed \in 0..2 * Len(log)
    /\ imaged \subseteq Page
    /\ mem \in [Page -> Image \cup {Absent}]
    /\ dirty \subseteq Page
    /\ file \in [Page -> Image \cup {Absent}]
    /\ \A p \in Page : file[p] \in platter[p] /\ platter[p] \subseteq Image \cup {Absent}
    /\ statusMap \in [Xid -> Status \cup {Unset}]
    /\ {clog, clogFile} \subseteq [Xid -> Status]
    /\ nextXid \in Nat
    /\ control \in [nextXid : Nat, inProduction : BOOLEAN]
    /\ phase \in {"up", "redo", "undo", "down"}
    /\ upto \in 0..Len(log) /\ at \in 0..(upto + 1)
    /\ phase = "undo" => at <= upto
    /\ losers \subseteq Xid
    /\ work \in [Xid -> Work]
    /\ expected \subseteq Value
    /\ writes \in 0..MaxWrites /\ evictions \in 0..MaxEvictions
    /\ crashes \in 0..MaxCrashes

Init ==
    /\ log = <<>> /\ synced = 0 /\ flushed = 0 /\ imaged = {}
    /\ mem = [p \in Page |-> IF p = 0 THEN FreshPage ELSE Absent]
    /\ dirty = {} /\ file = mem /\ platter = [p \in Page |-> {mem[p]}]
    /\ statusMap = [x \in Xid |-> Unset]
    /\ clog = [x \in Xid |-> "IN_PROGRESS"] /\ clogFile = clog
    /\ nextXid = 1 /\ control = [nextXid |-> 1, inProduction |-> TRUE]
    /\ phase = "up" /\ at = 0 /\ upto = 0 /\ losers = {}
    /\ work = [x \in Xid |-> Idle] /\ expected = {}
    /\ writes = 0 /\ evictions = 0 /\ crashes = 0
----------------------------------------------------------------------------
(* Records, LSNs and the status of transactions. *)

Start(i) == 2 * (i - 1)
End(i)   == 2 * i

\* Mutant: a page is stamped with the LSN at which the record starts.
InsideStart(i) == 2 * (i - 1)

Inside(i) == 2 * i - 1

InsertRecord(x, c, t)    == [type |-> "INSERT", xid |-> x, new |-> c, tuple |-> t]
UpdateRecord(x, o, c, t) == [type |-> "UPDATE", xid |-> x, old |-> o, new |-> c, tuple |-> t]
ImageRecord(p, img)      == [type |-> "FPI", xid |-> 0, page |-> p, image |-> img]
TxRecord(type, x)        == [type |-> type, xid |-> x]

\* Mutant: the log is handed to the operating system, which is not told to sync.
FlushWithoutSync(lg, target) ==
    /\ UNCHANGED synced
    /\ flushed' = Max({flushed, Min({target, End(Len(lg))})})

\* flush(target), the log being lg: nothing is done when the target has been
\* flushed before, and all of the log is synced otherwise.
Flush(lg, target) ==
    IF target <= flushed
    THEN UNCHANGED <<flushed, synced>>
    ELSE /\ synced' = Len(lg)
         /\ flushed' = Max({flushed, Min({target, End(Len(lg))})})

\* get_status: the map in memory, then the commit log.
StatusOf(x) == IF statusMap[x] # Unset THEN statusMap[x] ELSE clog[x]
Active      == {x \in Xid : statusMap[x] = "IN_PROGRESS"}

\* Mutant: set_status does not move the transaction counter.
BeyondNothing(X) == nextXid

Beyond(X) == Max({nextXid} \cup {x + 1 : x \in X})

\* set_status: both, and the counter moves past x.
SetStatus(x, st) ==
    /\ statusMap' = [statusMap EXCEPT ![x] = st]
    /\ clog' = [clog EXCEPT ![x] = st]
    /\ nextXid' = Beyond({x})

\* is_tuple_visible to a snapshot taken now by a transaction that has written
\* nothing: what a new reader finds.
InPast(x)     == x # 0 /\ StatusOf(x) = "COMMITTED" /\ x < nextXid
Visible(t)    == InPast(t.xmin) /\ ~InPast(t.xmax)
TuplesOf(img) == IF Present(img) THEN {img.tup[s] : s \in Slot} \ {Unused} ELSE {}
Rows          == {t.data : t \in {u \in UNION {TuplesOf(mem[p]) : p \in Page} : Visible(u)}}

----------------------------------------------------------------------------
(* Statements. *)

Begin ==
    /\ phase = "up"
    /\ nextXid \in Xid
    /\ statusMap' = [statusMap EXCEPT ![nextXid] = "IN_PROGRESS"]
    /\ nextXid' = nextXid + 1
    /\ UNCHANGED <<walVars, pageVars, clog, clogFile, control, recVars, ghosts>>

MayWrite(x) ==
    /\ phase = "up" /\ x \in Active
    /\ writes < MaxWrites /\ Len(log) < MaxLog

\* Where insert() puts a row: a page with room, or a new one when the last page
\* there is has none.
Extends(q) ==
    /\ ~Present(mem[q]) /\ Present(mem[q - 1]) /\ ~HasRoom(mem[q - 1])

Takes(q)  == HasRoom(mem[q]) \/ Extends(q)
Target(q) == IF Present(mem[q]) THEN mem[q] ELSE FreshPage
NewCtid(q) == [page |-> q, slot |-> FreeSlot(Target(q))]
NewTuple(x) == [xmin |-> x, xmax |-> 0, data |-> writes + 1]

\* Mutant: a statement that changes two pages logs the image of one.
WithOneImage(lg, p) ==
    IF p \in imaged \/ ~Present(mem[p]) \/ lg # log THEN lg
    ELSE Append(lg, ImageRecord(p, mem[p]))

\* maybe_log_fpi: the page as it was before its first change since a checkpoint.
\* A page just added gets no image.
WithImage(lg, p) ==
    IF p \in imaged \/ ~Present(mem[p]) THEN lg ELSE Append(lg, ImageRecord(p, mem[p]))

Imaged(P) == imaged \cup {p \in P : Present(mem[p])}

\* Pager::allocate_page, for the pages of P the file does not have yet.
Allocate(P) ==
    /\ file' = [p \in Page |-> IF p \in P /\ ~Present(file[p]) THEN ZeroPage ELSE file[p]]
    /\ platter' = [p \in Page |-> platter[p] \cup {file'[p]}]

\* The row version a statement writes, and the one it supersedes if any.
Wrote(x, old) ==
    /\ writes' = writes + 1
    /\ work' = [work EXCEPT ![x] = [add |-> @.add \cup {writes + 1}, del |-> @.del \cup old]]
    /\ UNCHANGED <<expected, evictions, crashes>>

Insert(x, q) ==
    /\ MayWrite(x)
    /\ Takes(q)
    /\ LET c == NewCtid(q)
           t == NewTuple(x)
       IN  /\ log' = Append(WithImage(log, q), InsertRecord(x, c, t))
           /\ mem' = [mem EXCEPT ![q] =
                        SetLsn(InsertTupleAt(Target(q), c.slot, t), Inside(Len(log')))]
    /\ imaged' = Imaged({q})
    /\ dirty' = dirty \cup {q}
    /\ Allocate({q})
    /\ Wrote(x, {})
    /\ UNCHANGED <<synced, flushed, txVars, recVars>>

\* The version an update starts from: current, and locked by nobody else.
MayUpdate(x, t) ==
    /\ t # Unused
    /\ t.xmin = x \/ InPast(t.xmin)
    /\ t.xmax \notin Active /\ ~InPast(t.xmax)

HotUpdate(x, p, s) ==
    /\ MayWrite(x)
    /\ HasRoom(mem[p])
    /\ MayUpdate(x, mem[p].tup[s])
    /\ LET c == NewCtid(p)
           t == NewTuple(x)
       IN  /\ log' = Append(WithImage(log, p), UpdateRecord(x, [page |-> p, slot |-> s], c, t))
           /\ mem' = [mem EXCEPT ![p] =
                        SetLsn(InsertTupleAt(StampXmax(@, s, x), c.slot, t), Inside(Len(log')))]
    /\ imaged' = Imaged({p})
    /\ dirty' = dirty \cup {p}
    /\ Wrote(x, {mem[p].tup[s].data})
    /\ UNCHANGED <<synced, flushed, file, platter, txVars, recVars>>

\* The page of the old version is full: insert() on another page, then the stamp.
Update(x, p, s, q) ==
    /\ MayWrite(x)
    /\ Present(mem[p]) /\ ~HasRoom(mem[p])
    /\ MayUpdate(x, mem[p].tup[s])
    /\ Takes(q)
    /\ LET c  == NewCtid(q)
           t  == NewTuple(x)
           l1 == Append(WithImage(log, q), InsertRecord(x, c, t))
       IN  /\ log' = Append(WithImage(l1, p), UpdateRecord(x, [page |-> p, slot |-> s], c, t))
           /\ mem' = [mem EXCEPT
                        ![q] = SetLsn(InsertTupleAt(Target(q), c.slot, t), Inside(Len(l1))),
                        ![p] = SetLsn(StampXmax(@, s, x), Inside(Len(log')))]
    /\ imaged' = Imaged({p, q})
    /\ dirty' = dirty \cup {p, q}
    /\ Allocate({q})
    /\ Wrote(x, {mem[p].tup[s].data})
    /\ UNCHANGED <<synced, flushed, txVars, recVars>>

\* log_commit and log_abort force the log up to where their record starts.
Ends(x, type) ==
    /\ log' = Append(log, TxRecord(type, x))
    /\ Flush(log', Start(Len(log')))

Commit(x) ==
    /\ phase = "up" /\ x \in Active
    /\ flushed < End(Len(log)) \/ "bareCommit" \in Circumstances
    /\ Ends(x, "COMMIT")
    /\ SetStatus(x, "COMMITTED")
    /\ expected' = (expected \cup work[x].add) \ work[x].del
    /\ work' = [work EXCEPT ![x] = Idle]
    /\ UNCHANGED <<imaged, pageVars, clogFile, control, recVars, writes, evictions, crashes>>

Rollback(x) ==
    /\ phase = "up" /\ x \in Active
    /\ Ends(x, "ABORT")
    /\ SetStatus(x, "ABORTED")
    /\ work' = [work EXCEPT ![x] = Idle]
    /\ UNCHANGED <<imaged, pageVars, clogFile, control, recVars, expected, writes, evictions, crashes>>
----------------------------------------------------------------------------
(* Pages reaching the disk, checkpoints, and the end of the process. *)

\* write_frame for the pages of P, apart from the log: each page joins the
\* images that a power failure may leave.
WriteFrames(P) ==
    /\ file' = [p \in Page |-> IF p \in P THEN mem[p] ELSE file[p]]
    /\ dirty' = dirty \ P

\* flush_all and Pager::sync: a power failure leaves what the file has.
FlushAndSync ==
    /\ WriteFrames(dirty)
    /\ platter' = [p \in Page |-> {file'[p]}]

\* The pool writes a dirty page out whenever it needs the frame.
Evict(p) ==
    /\ phase # "down" /\ evictions < MaxEvictions
    /\ p \in dirty
    /\ Flush(log, mem[p].lsn)
    /\ WriteFrames({p})
    /\ platter' = [platter EXCEPT ![p] = @ \cup {mem[p]}]
    /\ evictions' = evictions + 1
    /\ UNCHANGED <<log, imaged, mem, txVars, recVars, work, expected, writes, crashes>>

\* Mutant: pages imaged before the checkpoint are not imaged again after it.
CheckpointKeepingImages ==
    /\ phase = "up" /\ Len(log) < MaxLog
    /\ FlushAndSync
    /\ clogFile' = clog
    /\ log' = Append(log, TxRecord("CHECKPOINT", 0))
    /\ Flush(log', End(Len(log')))
    /\ UNCHANGED <<imaged, mem, statusMap, clog, nextXid, control, recVars, ghosts>>

Checkpoint ==
    /\ phase = "up" /\ Len(log) < MaxLog
    /\ FlushAndSync
    /\ clogFile' = clog
    /\ log' = Append(log, TxRecord("CHECKPOINT", 0))
    /\ imaged' = {}
    /\ Flush(log', End(Len(log')))
    /\ UNCHANGED <<mem, statusMap, clog, nextXid, control, recVars, ghosts>>

\* What a process that ends takes along.
MemoryLost ==
    /\ dirty' = {} /\ imaged' = {}
    /\ statusMap' = [x \in Xid |-> Unset]
    /\ work' = [x \in Xid |-> Idle]
    /\ losers' = {} /\ at' = 0 /\ upto' = 0
    /\ nextXid' = control'.nextXid
    /\ phase' = "down"

\* Mutant: a clean shutdown does not save the transaction counter.
CloseForgettingXid ==
    /\ phase = "up" /\ Active = {}
    /\ FlushAndSync
    /\ Flush(log, End(Len(log)))
    /\ clogFile' = clog
    /\ control' = [control EXCEPT !.inProduction = FALSE]
    /\ MemoryLost
    /\ UNCHANGED <<log, mem, clog, expected, writes, evictions, crashes>>

\* ~Engine, once every transaction has ended.
Close ==
    /\ phase = "up" /\ Active = {}
    /\ FlushAndSync
    /\ Flush(log, End(Len(log)))
    /\ clogFile' = clog
    /\ control' = [nextXid |-> nextXid, inProduction |-> FALSE]
    /\ MemoryLost
    /\ UNCHANGED <<log, mem, clog, expected, writes, evictions, crashes>>

\* A page that was being written: a mixture of two of its images.
Mixtures(p) ==
    LET whole == {img \in platter[p] : Present(img) /\ img.formatted}
    IN  {[a EXCEPT !.tup = [s \in Slot |-> IF s \in S THEN @[s] ELSE b.tup[s]]] :
              a \in whole, b \in whole, S \in SUBSET Slot}

\* Every page of the file that a power failure may leave, without holes.
Survivors ==
    LET images(p) == platter[p] \cup Mixtures(p)
    IN  {kept \in [Page -> UNION {images(p) : p \in Page}] :
            \A p \in Page :
                /\ kept[p] \in images(p)
                /\ kept[p] # ZeroPage \/ "rawPage" \in Circumstances
                /\ Present(kept[p]) => \A q \in 0..p : Present(kept[q])}

\* What may follow the first n records: nothing, a part of the next one, or the
\* COMMIT record of a transaction that was committing and had no answer yet.
Endings(n) ==
    {<<>>}
      \cup (IF "tornTail" \in Circumstances THEN {<<TxRecord("TORN", 0)>>} ELSE {})
      \cup {<<TxRecord("COMMIT", x)>> : x \in IF n = Len(log) THEN Active ELSE {}}

\* Transactions of the log lg with a compensation record and no ABORT record.
HalfUndone(lg) == {x \in Xid : TxRecord("CLR", x) \in Range(lg) /\ TxRecord("ABORT", x) \notin Range(lg)}

\* The machine stops.  A killed process is the case in which all is kept.  It
\* may stop within a checkpoint or a shutdown that has flushed the commit log.
Crash ==
    /\ phase # "down" /\ crashes < MaxCrashes
    /\ \E kept \in Survivors, n \in synced..Len(log) : \E ending \in Endings(n) :
          /\ log' = SubSeq(log, 1, n) \o ending
          /\ HalfUndone(log') = {} \/ "crashInUndo" \in Circumstances
          /\ mem' = kept /\ file' = kept
          /\ expected' =
                LET inDoubt == {x \in Active : ending = <<TxRecord("COMMIT", x)>>}
                IN  (expected \cup UNION {work[x].add : x \in inDoubt})
                      \ UNION {work[x].del : x \in inDoubt}
    /\ platter' = [p \in Page |-> {file'[p]}]
    /\ synced' = Len(log') /\ flushed' = End(Len(log'))
    /\ clogFile' \in {clogFile, clog} /\ clog' = clogFile'
    /\ crashes' = crashes + 1
    /\ UNCHANGED <<control, writes, evictions>>
    /\ MemoryLost

----------------------------------------------------------------------------
(* The engine starts. *)

StartClean ==
    /\ phase = "down" /\ ~control.inProduction
    /\ control' = [nextXid |-> nextXid, inProduction |-> TRUE]
    /\ phase' = "up"
    /\ UNCHANGED <<walVars, pageVars, statusMap, clog, clogFile, nextXid,
                   at, upto, losers, ghosts>>

\* Pass 1 reads as far as the first record whose CRC is wrong.
Readable ==
    Max({n \in 0..Len(log) : \A i \in 1..n : log[i].type # "TORN"})

Of(x, types) == {i \in 1..Readable : log[i].xid = x /\ log[i].type \in types}
Ended        == {x \in Xid : Of(x, {"COMMIT", "ABORT"}) # {}}

\* The status the last COMMIT or ABORT record of x gives it.
Recorded(x) ==
    IF log[Max(Of(x, {"COMMIT", "ABORT"}))].type = "COMMIT" THEN "COMMITTED" ELSE "ABORTED"

\* Redo starts, and undo stops, at the last checkpoint among the first n records.
StartRecord(n) ==
    Max({1} \cup {i \in 1..n : log[i].type = "CHECKPOINT"})

\* A transaction with a compensation record counts as aborted, not as a loser.
Analyse ==
    /\ phase = "down" /\ control.inProduction
    /\ statusMap' = [x \in Xid |-> IF x \in Ended THEN Recorded(x) ELSE Unset]
    /\ clog' = [x \in Xid |-> IF x \in Ended THEN Recorded(x) ELSE clog[x]]
    /\ nextXid' = Beyond(Ended)
    /\ losers' = {x \in Xid : Of(x, {"INSERT", "UPDATE"}) # {} /\ Of(x, {"CLR"}) = {}} \ Ended
    /\ upto' = Readable
    /\ at' = StartRecord(Readable)
    /\ phase' = "redo"
    /\ UNCHANGED <<walVars, pageVars, clogFile, control, ghosts>>

\* The pages a record is replayed on.
Targets(r) ==
    CASE r.type = "FPI"    -> {r.page}
      [] r.type = "INSERT" -> {r.new.page}
      [] r.type = "UPDATE" -> {r.old.page, r.new.page}
      [] OTHER             -> {}

\* ensure_pages: the heap grows to reach every target.
Needed(r)     == {q \in Page : \E p \in Targets(r) : q <= p}

\* Mutant: the pages the file is extended by are left unformatted.
EnsuredRaw(r, p) == IF p \in Needed(r) /\ ~Present(mem[p]) THEN ZeroPage ELSE mem[p]

Ensured(r, p) == IF p \in Needed(r) /\ ~Present(mem[p]) THEN FreshPage ELSE mem[p]

\* What the change that record r logs does to its page p.
Change(r, p, img) ==
    LET stamped == IF r.type = "UPDATE" /\ p = r.old.page
                   THEN StampXmax(img, r.old.slot, r.xid) ELSE img
    IN  IF p = r.new.page THEN InsertTupleAt(stamped, r.new.slot, r.tuple) ELSE stamped

\* Record i replayed on the image img of its page p.  An image is restored
\* whatever LSN the page has; a change is skipped when the page has it already.
Replayed(i, p, img) ==
    CASE log[i].type = "FPI" -> SetLsn(log[i].image, End(i))
      [] log[i].type # "FPI" /\ img.lsn > Start(i) -> img
      [] OTHER -> SetLsn(Change(log[i], p, img), End(i))

\* Mutant: a page changed by redo is not marked dirty.
RedoUnmarked ==
    /\ phase = "redo" /\ at <= upto
    /\ mem' = [p \in Page |-> IF p \in Targets(log[at])
                              THEN Replayed(at, p, Ensured(log[at], p))
                              ELSE Ensured(log[at], p)]
    /\ Allocate(Needed(log[at]))
    /\ at' = at + 1
    /\ UNCHANGED <<walVars, dirty, txVars, phase, upto, losers, ghosts>>

Redo ==
    /\ phase = "redo" /\ at <= upto
    /\ mem' = [p \in Page |-> IF p \in Targets(log[at])
                              THEN Replayed(at, p, Ensured(log[at], p))
                              ELSE Ensured(log[at], p)]
    /\ dirty' = dirty \cup {p \in Page : mem'[p] # mem[p]}
    /\ Allocate(Needed(log[at]))
    /\ at' = at + 1
    /\ UNCHANGED <<walVars, txVars, phase, upto, losers, ghosts>>

\* Mutant: undo starts one past the last record.
RedoEndsPastLog ==
    /\ phase = "redo" /\ at > upto
    /\ phase' = "undo"
    /\ UNCHANGED <<walVars, pageVars, txVars, at, upto, losers, ghosts>>

RedoEnds ==
    /\ phase = "redo" /\ at > upto
    /\ phase' = "undo" /\ at' = upto
    /\ UNCHANGED <<walVars, pageVars, txVars, upto, losers, ghosts>>

\* A loser's change r taken back on its page p.
Undone(r, p, img) ==
    LET restored == IF r.type = "UPDATE" /\ p = r.old.page
                    THEN StampXmax(img, r.old.slot, 0) ELSE img
    IN  IF p = r.new.page THEN RemoveTuple(restored, r.new.slot) ELSE restored

Compensates(r) == r.xid \in losers /\ r.type \in {"INSERT", "UPDATE"}

\* Newest first, and no further back than redo went.
Undo ==
    /\ phase = "undo" /\ losers # {} /\ at >= StartRecord(upto)
    /\ at' = at - 1
    /\ IF Compensates(log[at])
       THEN /\ log' = Append(log, TxRecord("CLR", log[at].xid))
            /\ mem' = [p \in Page |->
                         IF p \in Targets(log[at])
                         THEN SetLsn(Undone(log[at], p, mem[p]), End(Len(log')))
                         ELSE mem[p]]
            /\ dirty' = dirty \cup Targets(log[at])
       ELSE UNCHANGED <<log, mem, dirty>>
    /\ UNCHANGED <<synced, flushed, imaged, file, platter, txVars, phase, upto, losers, ghosts>>

AbortLoser(x) ==
    /\ phase = "undo" /\ x \in losers /\ at < StartRecord(upto)
    /\ SetStatus(x, "ABORTED")
    /\ Ends(x, "ABORT")
    /\ losers' = losers \ {x}
    /\ UNCHANGED <<imaged, pageVars, clogFile, control, phase, at, upto, ghosts>>

\* Everything is flushed, and the control file takes the transaction counter.
RecoveryEnds ==
    /\ phase = "undo" /\ losers = {}
    /\ FlushAndSync
    /\ Flush(log, End(Len(log)))
    /\ control' = [nextXid |-> nextXid, inProduction |-> TRUE]
    /\ phase' = "up" /\ at' = 0 /\ upto' = 0
    /\ UNCHANGED <<log, imaged, mem, statusMap, clog, clogFile, nextXid, losers, ghosts>>

----------------------------------------------------------------------------
Next ==
    \/ Begin
    \/ \E x \in Xid, q \in Page :
          \/ Insert(x, q)
          \/ \E s \in Slot : HotUpdate(x, q, s) \/ \E p \in Page : Update(x, p, s, q)
    \/ \E x \in Xid : Commit(x) \/ Rollback(x) \/ AbortLoser(x)
    \/ \E p \in Page : Evict(p)
    \/ Checkpoint \/ Close \/ Crash
    \/ StartClean \/ Analyse \/ Redo \/ RedoEnds \/ Undo \/ RecoveryEnds

Spec == Init /\ [][Next]_vars

----------------------------------------------------------------------------
(* Correctness. *)

\* The write-ahead rule: whatever image of a page a power failure leaves, the
\* records of every row version and of every deletion in it are left too.
Logged(p, s, t) ==
    /\ \E i \in 1..synced :
          /\ log[i].type \in {"INSERT", "UPDATE"}
          /\ log[i].new = [page |-> p, slot |-> s] /\ log[i].tuple.data = t.data
    /\ t.xmax # 0 => \E i \in 1..synced :
          /\ log[i].type = "UPDATE" /\ log[i].xid = t.xmax
          /\ log[i].old = [page |-> p, slot |-> s]

WriteAhead ==
    \A p \in Page : \A img \in platter[p] :
        Present(img) => \A s \in Slot : img.tup[s] # Unused => Logged(p, s, img.tup[s])

\* flushed_lsn_ never claims more than a power failure leaves.
FlushedIsSynced == flushed <= End(synced)

\* A page whose frame is clean is in the file as the pool has it, so that it may
\* be evicted without being written, through recovery's changes too.
CleanFramesMatch == \A p \in Page \ dirty : mem[p] = file[p]

\* Durability: whenever the database serves statements, after any failures and
\* recoveries, every row of the committed transactions is there to be seen...
NothingLost == phase = "up" => expected \subseteq Rows

\* ...and atomicity: nothing else is, neither a part of a transaction that did
\* not commit nor a version that a committed update superseded.
NothingResurrected == phase = "up" => Rows \subseteq expected

\* A transaction id that stands in a row has been used up: nobody who begins
\* later inherits rows under that id, whatever was lost with the log's tail.
XidsUsedUp ==
    phase = "up" =>
        \A t \in UNION {TuplesOf(mem[p]) : p \in Page} : t.xmin < nextXid /\ t.xmax < nextXid
=============================================================================
