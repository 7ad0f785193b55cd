------------------------------- MODULE Toast -------------------------------
(***************************************************************************)
(* Oversized values: src/src/toast.cpp cuts them into chunks, keeps every  *)
(* chunk in memory and on the pages of a file it writes past the buffer    *)
(* pool, and src/src/wal.cpp logs, redoes and undoes the insertions.       *)
(* Chunks are of one size here.  Recovery.tla has the log and its flaws.   *)
(***************************************************************************)
EXTENDS Naturals, SequencesExt

CONSTANTS
    Writer,             \* transactions; each runs once
    ChunkCounts,        \* how many chunks a value may take
    ChunksPerPage,      \* chunks that fit on a page
    MaxValues,          \* bound: values stored
    MaxPowerCuts,       \* bound
    ToastCircumstances  \* whether the unfortunate circumstance below may arise

\* "idAgain": a value gets an id that a record has which redo would replay.
AllToastCircumstances == {"idAgain"}

ASSUME ToastConstants ==
    /\ Writer \subseteq Nat \ {0}
    /\ ChunkCounts \subseteq Nat \ {0}
    /\ ChunksPerPage \in Nat \ {0} /\ MaxValues \in Nat /\ MaxPowerCuts \in Nat
    /\ ToastCircumstances \subseteq AllToastCircumstances

VARIABLES
    chunks,         \* chunk_index_, in memory
    nextToastId,    \* next_toast_id_
    toastPages,     \* the TOAST file as the operating system has it
    toastSynced,    \* ... and as it was last synced
    toastLog,       \* the records of recovery that matter here
    toastFlushed,   \* records of the log that are synced
    toastUp,        \* whether an engine runs
    toastOver,      \* transactions that have ended, by a crash or a stop too
    values,         \* pointers that store returned, each with what it is to lead to
    powerCuts       \* power failures so far

toastVars == <<chunks, nextToastId, toastPages, toastSynced, toastLog, toastFlushed,
               toastUp, toastOver, values, powerCuts>>

NoChunk == [id |-> 0, seq |-> 0, value |-> 0]
Chunk(id, seq, v) == [id |-> id, seq |-> seq, value |-> v]

Insertion(x, chunk, p, s) == [type |-> "TOAST_INSERT", tx |-> x, chunk |-> chunk, page |-> p, slot |-> s]
Mark(type, x)             == [type |-> type, tx |-> x]

HasEnded(x, records) ==
    \E i \in DOMAIN records : records[i].tx = x /\ records[i].type \in {"COMMIT", "ABORT"}
HasCommitted(x) == \E i \in DOMAIN toastLog : toastLog[i] = Mark("COMMIT", x)

\* A new file gets page 1 (0 in the code), empty.
ToastInit ==
    /\ chunks = {}
    /\ nextToastId = 1
    /\ toastPages = <<<<>>>>
    /\ toastSynced = toastPages
    /\ toastLog = <<>>
    /\ toastFlushed = 0
    /\ toastUp = TRUE
    /\ toastOver = {}
    /\ values = {}
    /\ powerCuts = 0

SameKey(c, d) == c.id = d.id /\ c.seq = d.seq

\* chunk_index_[{id, seq}] = ...
Indexed(index, chunk) ==
    {c \in index : ~SameKey(c, chunk)} \cup {chunk}

FreeOn(page) == {s \in 1..ChunksPerPage : s > Len(page) \/ page[s] = NoChunk}

\* insert_tuple_at: the slots in between are UNUSED.
Placed(page, s, chunk) ==
    [i \in 1..(IF s > Len(page) THEN s ELSE Len(page)) |->
        IF i = s THEN chunk ELSE IF i <= Len(page) THEN page[i] ELSE NoChunk]

\* flush_chunk_to_page: onto the last page, or a new one; logged, then written
\* without a look at how far the log is flushed.
Kept(st, x, chunk) ==
    LET last == Len(st.pages)
        room == FreeOn(st.pages[last])
        s    == IF room = {} THEN 1 ELSE Min(room)
        p    == IF room = {} THEN last + 1 ELSE last
    IN [chunks |-> Indexed(st.chunks, chunk),
        pages  |-> IF room = {} THEN Append(st.pages, <<chunk>>)
                   ELSE [st.pages EXCEPT ![p] = Placed(@, s, chunk)],
        log    |-> Append(st.log, Insertion(x, chunk, p, s))]

\* Redo and undo go over the records from the last checkpoint on.
RedoFrom(records) ==
    LET at == {i \in DOMAIN records : records[i].type = "CHECKPOINT"} IN
    IF at = {} THEN 1 ELSE Max(at)

Replayed(records) ==
    {i \in RedoFrom(records)..Len(records) : records[i].type = "TOAST_INSERT"}

\* The chunks of a value, one after the other.
AllKept(st, x, id, v, n) ==
    LET to[i \in 0..n] ==
            IF i = 0 THEN st ELSE Kept(to[i - 1], x, Chunk(id, i - 1, v))
    IN to[n]

\* store, for a value above the threshold.
StoreValue(x, n) ==
    /\ toastUp
    /\ Cardinality(values) < MaxValues
    /\ x \notin toastOver
    /\ nextToastId \in {toastLog[i].chunk.id : i \in Replayed(toastLog)} => "idAgain" \in ToastCircumstances
    /\ LET v  == Cardinality(values) + 1
           st == AllKept([chunks |-> chunks, pages |-> toastPages, log |-> toastLog],
                         x, nextToastId, v, n)
       IN /\ chunks' = st.chunks
          /\ toastPages' = st.pages
          /\ toastLog' = st.log
          /\ values' = values \cup {[tx |-> x, id |-> nextToastId, count |-> n, value |-> v]}
    /\ nextToastId' = nextToastId + 1
    /\ UNCHANGED <<toastSynced, toastFlushed, toastUp, toastOver, powerCuts>>

\* log_commit syncs the log; the pages are left to the operating system.
CommitStores(x) ==
    /\ toastUp
    /\ x \notin toastOver /\ \E v \in values : v.tx = x
    /\ toastOver' = toastOver \cup {x}
    /\ toastLog' = Append(toastLog, Mark("COMMIT", x))
    /\ toastFlushed' = Len(toastLog')
    /\ UNCHANGED <<chunks, nextToastId, toastPages, toastSynced, toastUp, values, powerCuts>>

\* Nothing takes the chunks of a transaction back that rolls back.
AbortStores(x) ==
    /\ toastUp
    /\ x \notin toastOver /\ \E v \in values : v.tx = x
    /\ toastOver' = toastOver \cup {x}
    /\ toastLog' = Append(toastLog, Mark("ABORT", x))
    /\ UNCHANGED <<chunks, nextToastId, toastPages, toastSynced, toastFlushed, toastUp, values, powerCuts>>

\* Mutant of SyncedBy: the checkpoint leaves the TOAST file out.
SyncedByNone == toastSynced

\* ToastManager::flush.
SyncedBy == toastPages

\* checkpoint: the file is synced before the record is written.
CheckpointToast ==
    /\ toastUp
    /\ toastLog # <<>> /\ toastLog[Len(toastLog)].type # "CHECKPOINT"
    /\ toastSynced' = SyncedBy
    /\ toastLog' = Append(toastLog, Mark("CHECKPOINT", 0))
    /\ toastFlushed' = Len(toastLog')
    /\ UNCHANGED <<chunks, nextToastId, toastPages, toastUp, toastOver, values, powerCuts>>

\* The power fails: the tail of the log may be lost, and every page written since
\* the last sync may have reached the disk or not.
PowerFails ==
    /\ toastUp
    /\ powerCuts < MaxPowerCuts
    /\ powerCuts' = powerCuts + 1
    /\ toastUp' = FALSE
    /\ toastOver' = toastOver \cup {v.tx : v \in values}
    /\ \E n \in toastFlushed..Len(toastLog) : toastLog' = SubSeq(toastLog, 1, n)
    /\ toastFlushed' = Len(toastLog')
    /\ \E m \in Len(toastSynced)..Len(toastPages), new \in SUBSET (1..Len(toastPages)) :
          /\ toastPages' = [p \in 1..m |-> IF p \in new \/ p > Len(toastSynced)
                                           THEN toastPages[p] ELSE toastSynced[p]]
          /\ toastSynced' = toastPages'
    /\ UNCHANGED <<chunks, nextToastId, values>>

\* scan_existing_pages: of two chunks with one id and number the later stays.
Places(ps) ==
    {l \in (DOMAIN ps) \X (1..ChunksPerPage) : l[2] \in DOMAIN ps[l[1]] /\ ps[l[1]][l[2]] # NoChunk}
Later(l, m) == l[1] > m[1] \/ (l[1] = m[1] /\ l[2] > m[2])
ScanOf(ps) ==
    {ps[l[1]][l[2]] : l \in {l \in Places(ps) :
        \A m \in Places(ps) : SameKey(ps[m[1]][m[2]], ps[l[1]][l[2]]) => ~Later(m, l)}}

Above(ids)  == IF ids = {} THEN 1 ELSE Max(ids) + 1

\* Pages that are missing before page p come back empty.
Extended(ps, p) == [q \in 1..(IF p > Len(ps) THEN p ELSE Len(ps)) |-> IF q <= Len(ps) THEN ps[q] ELSE <<>>]

\* replay_insert, whichever way the page LSN compares.
Redone(st, r) ==
    [chunks |-> Indexed(st.chunks, r.chunk),
     pages  |-> [Extended(st.pages, r.page) EXCEPT ![r.page] = Placed(@, r.slot, r.chunk)]]

\* Undo of one insertion: its slot, and whatever memory has under its id.
Undone(st, r) ==
    [chunks |-> {c \in st.chunks : c.id # r.chunk.id},
     pages  |-> [st.pages EXCEPT ![r.page] = Placed(@, r.slot, NoChunk)]]

LosersOf(records) ==
    {x \in {records[i].tx : i \in DOMAIN records} \ {0} : ~HasEnded(x, records)}

\* The second pass, and the third, which begins at the end of the log.
Redo(st, records) ==
    LET to[i \in 0..Len(records)] ==
            IF i = 0 THEN st
            ELSE IF i \in Replayed(records) THEN Redone(to[i - 1], records[i]) ELSE to[i - 1]
    IN to[Len(records)]

Undo(st, records) ==
    LET n == Len(records)
        to[i \in 0..n] ==
            IF i = 0 THEN st
            ELSE LET j == n - i + 1 IN
                 IF j \in Replayed(records) /\ records[j].tx \in LosersOf(records)
                 THEN Undone(to[i - 1], records[j]) ELSE to[i - 1]
    IN to[n]

\* The next process opens the file, and recovers as the control file says it must.
RecoverToast ==
    /\ ~toastUp
    /\ toastUp' = TRUE
    /\ LET found  == ScanOf(toastPages)
           losers == LosersOf(toastLog)
           st     == Undo(Redo([chunks |-> found, pages |-> toastPages], toastLog), toastLog)
       IN /\ chunks' = st.chunks
          /\ toastPages' = st.pages
          /\ nextToastId' = Above({c.id : c \in found} \cup {toastLog[i].chunk.id : i \in Replayed(toastLog)})
          /\ \E order \in [1..Cardinality(losers) -> losers] :
                /\ ToSet(order) = losers
                /\ toastLog' = toastLog \o [i \in DOMAIN order |-> Mark("ABORT", order[i])]
    /\ toastSynced' = toastPages'
    /\ toastFlushed' = Len(toastLog')
    /\ UNCHANGED <<toastOver, values, powerCuts>>

\* A clean stop syncs file and log and ends no transaction in the log; the next process scans the pages.
RestartToast ==
    /\ toastUp
    /\ toastSynced' = toastPages
    /\ toastFlushed' = Len(toastLog)
    /\ chunks' = ScanOf(toastPages)
    /\ nextToastId' = Above({c.id : c \in ScanOf(toastPages)})
    /\ toastOver' = toastOver \cup {v.tx : v \in values}
    /\ UNCHANGED <<toastPages, toastLog, toastUp, values, powerCuts>>

ToastNext ==
    \/ \E x \in Writer : CommitStores(x) \/ AbortStores(x) \/ \E n \in ChunkCounts : StoreValue(x, n)
    \/ CheckpointToast \/ PowerFails \/ RecoverToast \/ RestartToast

ToastSpec == ToastInit /\ [][ToastNext]_toastVars

----------------------------------------------------------------------------
(* Properties. *)

ToastTypeOK ==
    /\ \A c \in chunks : c.id \in 1..MaxValues /\ c.value \in 1..MaxValues
    /\ \A c, d \in chunks : SameKey(c, d) => c = d
    /\ nextToastId \in 1..MaxValues + 1
    /\ \A p \in DOMAIN toastPages : Len(toastPages[p]) <= ChunksPerPage
    /\ Len(toastSynced) <= Len(toastPages)
    /\ toastFlushed \in 0..Len(toastLog)
    /\ toastUp \in BOOLEAN
    /\ powerCuts \in 0..MaxPowerCuts

ChunksOf(v) == {Chunk(v.id, i, v.value) : i \in 0..(v.count - 1)}

\* A value whose transaction committed reads back chunk by chunk as it was stored
\* (toast.cpp:113-117), from memory and from the pages a later process scans,
\* whatever crashed and whichever ids and slots were used again.
ValuesKept ==
    toastUp => \A v \in values : HasCommitted(v.tx) =>
                  ChunksOf(v) \subseteq chunks /\ ChunksOf(v) \subseteq ScanOf(toastPages)
=============================================================================
