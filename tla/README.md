# A verification of cpp-postgres in TLA+

cpp-postgres is a small relational storage engine after PostgreSQL: slotted heap
pages, multi-version concurrency control, a buffer pool, a write-ahead log with
ARIES recovery, a lock manager, a commit log, indexes, TOAST, VACUUM, two network
servers and an S3-like object store. This directory holds TLA+ modules that
model its core logic, the TLC configurations that check them on small
instances, and theorems about them proved with TLAPS. Paths below are relative
to the repository's root (`src/lock.cpp`, `include/pg/lock.h`, ...).

Contents: [1 the system](#1-the-system), [2 the plan](#2-the-plan),
[3 lock manager](#3-the-lock-manager), [4 log and recovery](#4-the-log-and-recovery),
[5 transactions and rows](#5-transactions-and-rows), [6 caches and files](#6-caches-indexes-and-files),
[7 plans and servers](#7-plans-servers-and-the-object-store), [8 runs](#8-what-the-runs-show),
[9 disagreements](#9-where-the-code-and-its-documents-disagree),
[10 proofs](#10-what-is-proved), [11 limits](#11-what-is-not-modelled).

## 1 The system

`Engine` (`src/engine.cpp`) owns every other part. A statement comes from a session
(the console, `PgWireServer` or `HttpServer`, each server with a mutex of its own),
takes a snapshot from `TransactionManager`, finds rows through an index and `Heap`,
locks them in `LockManager`, and changes pages held by `BufferPool`. Each change is
logged in `WALManager` before the page takes it. `Pager` and `File` do the I/O.

| Part | State it keeps | Operations | What is hard | What makes it correct | Module |
|---|---|---|---|---|---|
| Lock manager `lock.cpp` | lock heads (holders, FIFO queue), `held_by_tx_`, `waiting_on_` | `acquire` (try, timed, untimed), `release_all`, `wake_up_waiters`, `check_deadlock` | threads asleep in one condition variable; time-outs racing promotions; deadlock victims | writers exclude others; no cycle stands; every sleeper wakes; strict two-phase locking | `LockManager` |
| Write-ahead log `wal.cpp` | the log file, `current_lsn_`, `flushed_lsn_`, `fpi_written_pages_` | `log_insert`, `log_update`, `log_commit`, `log_abort`, `log_clr`, `maybe_log_fpi`, `log_checkpoint`, `flush` | LSN boundaries; when an image is due; what an acknowledged commit has made durable | the write-ahead rule; an acknowledged commit survives | `Recovery` |
| Recovery `wal.cpp` | transaction table, redo and undo positions | analysis, redo, undo, finalisation | failures during recovery; torn pages; torn log tail; half-undone losers | committed rows, all of them and nothing else, after any failures | `Recovery` |
| Heap and page `heap.cpp`, `page.cpp` | slots, headers, page LSN | insert, update, HOT update, delete, defragment | two pages changed by one statement; a slot reused | redo finds the slot and room that the statement found | `Recovery`, `Mvcc`, `FreeSpaceMap` |
| Buffer pool `buffer_pool.cpp` | frames, pins, usage counts, dirty bits | fetch, new page, unpin, evict, `flush_all` | a page evicted and read again in any order with changes; every frame pinned | reads as a file of pages; a victim is found while there is one | `BufferPool`, `Recovery` |
| Transactions `tx.cpp`, `mvcc.cpp` | `next_tx_id_`, status map, active snapshots | begin, commit, abort, `take_snapshot`, VACUUM horizon | snapshots of overlapping transactions | snapshot isolation; no id is used twice | `Mvcc`, `Recovery` |
| VACUUM and pruning `vacuum.cpp` | redirects, dead slots | prune a chain, remove index entries | a redirect to a version that was rolled back | no row that a snapshot can see goes; no index entry leads elsewhere | `Mvcc` |
| Commit log `clog.cpp` | two bits a transaction, LRU frames | `get_status`, `set_status`, `flush` | pages evicted between two flushes; ids past the end of the file | reads as last set; keeps what was flushed | `CommitLog`, `Recovery` |
| Control file `control.cpp` | `next_xid`, `state` | load, save | saved at start and stop only | the counter never falls behind an id in use | `Recovery` |
| Free space map `fsm.cpp` | max-heap of categories | `search_page`, `update_page` | rounding in eight bits; the map after a crash | first fit; the heap grows only when it must | `FreeSpaceMap` |
| Indexes `disk_btree.cpp`, `btree.cpp` | pages with parent pointers; a multimap | insert, split, remove, search, scan | parent pointers after an internal split; equal keys | every key inserted is found | `DiskBTree`, `Mvcc` |
| TOAST `toast.cpp` | chunk map, chunk pages | store, fetch, delete, redo, undo | page written before its record; ids and slots used again after a crash | chunks are there while the row is | `Toast` |
| Catalog `catalog.cpp` | a text file | load, save | rewritten in place | - | - |
| Executor `executor.cpp` | iterators | scans, filter, limit, joins | what a node keeps between two pulls; a limit that breaks off | the rows the query asks for; no page left pinned | `Executor` |
| Sessions and servers `pgwire.cpp`, `http_server.cpp` | `Session`, two mutexes | execute | two mutexes over one engine; sessions dropped in a transaction | a statement runs in its own session's transaction | `Servers` |
| S3 store `s3/` | chunk files, extents, uploads, versions | append, put, get, multipart, delete | parts out of order, sent twice, left out; ranges across extents | any range of a completed object reads back whole | `ObjectStore` |

The hazards of this code, each at its line and with the property that covers it or
the reason why none does, are listed in `PROJECT.json`.

## 2 The plan

Done, in order of weight:

1. `LockManager` with its abstract specification `StrictTwoPhaseLocking`: checked and proved.
2. `SlottedPage` (operators) and `Recovery`, which composes log, pool, heap, transaction
   manager, commit log, control file and engine start and stop: checked; its types, the
   order in which log and pages reach the disk, the ids recovery hands out, durability and
   atomicity, proved.
3. `Mvcc` with its abstract specification `SnapshotIsolation`: checked; its types, the horizon
   of VACUUM, the refinement, one version of a row in a snapshot, and what an index scan
   comes to, proved; so is what snapshot isolation is worth.
4. `BufferPool` (`PageStore`), `CommitLog` (`StatusLog`), `DiskBTree` (`Index`),
   `FreeSpaceMap`, `Toast`: checked, the first three against the abstract specifications in
   brackets; those refinements, the pool's pins and sweep, the map's searches and the durability
   of oversized values, proved.
5. `Executor`, `ObjectStore`: checked.
6. `Servers`: checked and proved.

Left, in order of weight:

1. Proofs of `RangesReadBack` of `ObjectStore` and of the queries of `Executor` (section 10).
2. RECOVER as a statement, and `Close` with transactions open, in `Recovery`.
3. `Session::failed`, and indexes after a crash, once the code or a document says what
   they are to be.

## 3 The lock manager

`LockManager.tla` models `src/lock.cpp`. All of it runs under one mutex, so an action is
one critical section. A member of `Tx` is a session, driven by one thread; it stands for
the transaction the session has open. (The engine itself calls `try_lock` only; timed
and untimed waits are the class's public interface and what `tests/test_locks.cpp` drives.)

| TLA+ | C++ |
|---|---|
| `granted[r]`, `queue[r]` | `LockHead::granted_list`, `wait_queue` |
| `held`, `waitingOn` | `held_by_tx_`, `waiting_on_` |
| `call[t]` | the `acquire` that the session's thread sleeps in |
| `raised` | sessions that got a `DeadlockException` and have yet to roll back |
| `AcquireAtOnce`, `AcquireWaits`, `AcquireDeadlocks` | the three outcomes of `acquire` that change something |
| `WakeGranted`, `WakeTimedOut` | the wait is over: predicate true, or timer expired with it false |
| `ReleaseAll` | all four steps of `release_all`, promotions included |
| `WaitForGraph`, `CheckDeadlock` | `build_wait_for_graph`, `check_deadlock` (the depth-first search, stated as the cycle it decides) |
| `Wakes` | the loop of `wake_up_waiters`, stated as how many requests it promotes |

A refused try-lock and a lock already held change nothing and have no action. Two constants
say what callers do: `Killable` are sessions that another thread may release while their own
thread sleeps; `UpgradeWaits` are the kinds of wait with which a SHARED holder may ask for
EXCLUSIVE. With an untimed wait such a session waits for itself (section 9), so that the
liveness run allows timed ones.

`StrictTwoPhaseLocking.tla` says what the class promises without queues, indexes or graphs:
a session's locks only grow, one at a time, until it ends; then all go at once, and every
other session gains at most the one lock it waits for. `ImplementsTwoPL` states that
`LockManager` implements it; the only variable of the specification, `granted`, is the
implementation's own.

**Fairness** (`FairSpec`). `WakeGranted` and `WakeTimedOut` are weakly fair: `notify_all`
or the timer made the thread runnable, and its predicate stays as it is until it runs.
`ReleaseAll` of an awake session is strongly fair: every transaction ends some time after its
last `acquire` returned, but it may make any number of timed attempts in between, so that it
is not continuously awake. No fairness is assumed of new requests.

## 4 The log and recovery

`SlottedPage.tla` has the operators on a page; `Recovery.tla` has the state machine.

| TLA+ | C++ |
|---|---|
| `log`, `synced`, `flushed`, `imaged` | `wal.log`, how much of it is on the platter, `flushed_lsn_`, `fpi_written_pages_` |
| `mem`, `dirty`, `file`, `platter` | the page as the pool has it, dirty frames, the page file, and every image of the page that a power failure may leave |
| `statusMap`, `clog`, `clogFile` | `status_map_`, the commit log in memory, its file |
| `nextXid`, `control` | `next_tx_id_`, the control file |
| `phase`, `at`, `upto`, `losers` | what the process does; the record recovery looks at; how far pass 1 read; `active_tx_table` |
| `work`, `expected` | ghosts: what open transactions wrote, what committed ones did |
| `Insert`, `HotUpdate`, `Update` | `Heap::insert`, `hot_update`, `update` with images, records, stamps and a page allocated if none has room |
| `Commit`, `Rollback` | `TransactionManager::commit` and `abort`, with `log_commit`, `log_abort` |
| `Evict`, `Checkpoint`, `Close` | `write_frame` under the WAL rule; `CHECKPOINT`; `~Engine` |
| `Crash` | a power failure, at any moment |
| `StartClean`; `Analyse`, `Redo`, `RedoEnds`, `Undo`, `AbortLoser`, `RecoveryEnds` | `Engine`'s constructor without and with `WALManager::recover`, one record a step |

**LSNs.** An LSN is a byte offset. The heap stamps "LSN of the record plus one" on a page,
redo stamps the end of the record, and both are compared with record starts and with
`flushed_lsn_`. The model counts in half records: record `i` starts at `2(i-1)`, ends at `2i`, and
the heap's stamp is the offset between, `2i-1`. Every comparison in the code comes
out as on bytes, since no record is shorter than two bytes.

**Crash.** What a power failure leaves is chosen freely: any prefix of the log that holds the
synced part; after all of the log, a COMMIT record that its transaction was just writing, with
no answer given (the transaction counts as committed if its record is kept); for each page, any
image written since the last sync, or a mixture, slot by slot, of two of them; the
commit log's file as last flushed or as the checkpoint that was under way had just flushed
it. The control file survives. A killed process is the case in which everything
is kept. Crashes strike in the middle of recovery as well.

**Circumstances.** Four situations lead to outcomes that the documents exclude
(section 9). Each may be turned on by the constant `Circumstances` and is the subject of a run of
its own; with it off, the situation does not arise and the passing runs show that
everything else is right.

| Circumstance | The situation | When it is off |
|---|---|---|
| `bareCommit` | COMMIT when all of the log is flushed | `Commit` waits until the log has an unflushed record |
| `rawPage` | a power failure leaves a new page as zeroes | no zero page survives a crash |
| `tornTail` | a power failure leaves part of a record | the log is cut at a record's end |
| `crashInUndo` | a log that keeps a CLR and not its ABORT record | such prefixes are not left |

The extension run turns `tornTail` on: with a single failure it does no harm, since nothing
is appended behind the torn bytes before the scan that stops at them.

**Ghosts.** `expected` is the set of row versions that committed transactions leave:
what they added, without what they superseded. Every version written has a value of its own
(`writes + 1`), so that a row identifies the write that made it.

## 5 Transactions and rows

`Mvcc.tla` models `src/tx.cpp`, `src/mvcc.cpp`, `src/vacuum.cpp`, what `src/heap.cpp` does
with versions, and the statements of `src/engine.cpp` that use them. One action is one
statement: the mutex of a server lets one run at a time.

| TLA+ | C++ |
|---|---|
| `nextXid`, `status`, `horizons` | `next_tx_id_`, `status_map_`, `snapshot_xmins_` |
| `tx`, `snapshot` | `Session::current_tx`, `Session::snapshot` |
| `heap`, `used` | line pointers with their tuples; the room that tuples take, dead ones included until the page is defragmented |
| `index`, `locks` | entries of the index on `item_id`; exclusive row locks |
| `Begin`, `Commit`, `Rollback` | `begin_transaction` with its snapshot, `commit_transaction`, `rollback_transaction` |
| `Insert`, `HotUpdate`, `ColdUpdate` | `insert_item`, and `update_item` through `Heap::hot_update` or `Heap::update` |
| `Vacuum` | `Vacuum::run`: `collect_dead`, index entries, redirects and slots |
| `Visible`, `HotSearch`, `Found`, `Scanned` | `is_tuple_visible`, `hot_search`, `index_lookup`, `seq_scan` |
| `Bounds`, `PastHorizon` | `oldest_snapshot_xmin` and what is below it |

`SnapshotIsolation.tla` says what a transactional table promises, without versions, pages or
indexes: a transaction sees the table as it was committed when it began, plus its own
writes; a commit replaces rows all at once; nobody replaces a row that another transaction
has replaced since. `ImplementsSI` maps the open transactions' base and view to what their
snapshots see on the heap. A VACUUM that removed a visible version, a snapshot that
changed under its transaction and a commit visible in part would each be a step
that the abstract table cannot take.

Two situations are left out by the constant `Circumstances`:

| Circumstance | The situation | When it is off |
|---|---|---|
| `staleUpdate` | an update reaches a version that a transaction has superseded which has committed since the snapshot was taken | the statement does not run |
| `slotReused` | an insertion takes a slot to which a redirect, or the successor of a version, still leads | the page is not chosen |

The first is run `lost_update` (section 9). The second is `MCStaleIndex.cfg` (for `MCMvcc`),
where TLC finds `IndexFindsRows` violated: a chain root whose updater rolled back is
made a redirect to the aborted version, whose slot the same VACUUM frees; a row inserted
there is found under the other row's key. The comments at `src/vacuum.cpp:50` and `src/page.cpp:62` say
that a redirect keeps the entry working and that no entry comes to lead to an unrelated row.

The clients insert a key at most once (`IsNew`): the engine has no unique index, and two rows
under one key are two rows.

## 6 Caches, indexes and files

These modules, and `Executor`, `ObjectStore` and `Servers` of section 7, are small and independent,
so that one run checks them all (section 8).

**`BufferPool`** (`src/buffer_pool.cpp`). `frames`, `table`, `free` and `hand` are `frames_`,
`page_table_`, `free_list_` and `clock_hand_`; `handle` holds the `PinnedPage` of each client.
`Pin` is `fetch_page` with its four outcomes (resident, into a free frame, into a victim's,
none to be had), `NewPage` is `new_page`, whose file is a page longer even when no frame is found;
`Change` writes through a handle, `Unpin`, `Flush` are `unpin_page`, `flush_page` and `flush_all`.
`Sweep` is the loop of `victim_frame` with its limit. The pool is shown to implement
`PageStore`: a page reads as it was last written.

**`CommitLog`** (`src/clog.cpp`). `disk` and `clogSize` are the file, `clogFrames` the cache,
`recency` its frames in order of `lru_counter`. `SetStatus`, `GetStatus`, `FlushClog` are the
operations; a crash drops the cache. The abstract `StatusLog` keeps two
statuses a transaction, what is answered now and what would be after a crash; the second moves to the
first at any time, at a flush at the latest.

**`DiskBTree`** (`src/disk_btree.cpp`). `pages` holds leaves and internal pages, `root` is
`root_page_id_`. `InsertEntry` is `insert_entry` with every split it sets off up to the root
(`With`, `Split`, `Climbed`); `RemoveEntry`, and `Reopen`, which looks for
the page flagged as the root. `FindEntries`, `RangeScan`, `AllEntries` and `NumUniqueKeys` are
the lookups, which change nothing. `ImplementsIndex`: the leaves are a set of entries, as
`include/pg/index.h` has it and as `BTreeIndex` is. Circumstances: `staleParent`, a page splits whose
parent no longer has it as a child (run `stale_parent`), and `cutRun`, a leaf splits between
two equal keys. The search then starts at the right half and does not see what is left of it
(`src/disk_btree.cpp:108`): `MCCutRun.cfg` (for `DiskBTree`) shows an entry that `find_entries` misses after
three insertions. Two versions of one row that lie side by side in the middle of a full leaf are
enough.

**`FreeSpaceMap`** (`src/fsm.cpp`, `heap.cpp`). `nodes` are the trees of the map, `room` the bytes that are free on each
heap page. `InsertTuple` is the choice of `Heap::insert` between the page the map names, the last page and a
new one; `HotUpdateOn`, `VacuumPage`, `FlushMap` and `LoseMap` are what else moves the one and not the other.

**`Toast`** (`src/toast.cpp`, and the TOAST records of `src/wal.cpp`). `chunks` is `chunk_index_`,
`toastPages` and `toastSynced` the file as the operating system and as the disk has it, `toastLog` the records of
recovery that matter here. `StoreValue` cuts a value and logs and writes its chunks; `CommitStores`, `AbortStores`,
`CheckpointToast`, `RestartToast` (a clean stop and the scan at the next start), `PowerFails`, which
may keep any of the pages written since the last sync and any prefix of the log that holds
the flushed part, and `RecoverToast`: scan, redo, undo, next id. The flaws of the log itself
(section 9) are in `Recovery` and left out here: COMMIT syncs, the tail is not torn.

The circumstance `idAgain` lets a value get an id that a record has which redo would replay; with it off
such a value is not stored. `MCToastId.cfg` (for `Toast`, about two minutes) shows what it leads to: recovery
undoes a loser and writes its ABORT; a clean stop and start take `next_toast_id_` from the chunks on the pages alone
(`src/toast.cpp:26-55`), where the loser has none left, so that its id goes to a new value (`src/toast.cpp:70`),
which commits. The next recovery redoes the loser's record, for redo looks at no page LSN in a TOAST page
(`src/wal.cpp:375`), and does not undo it, for the loser has an ABORT. The scan then finds the loser's
chunk under the committed value's id. `notes/atlas/17-toast-heap-index-integration.md:44` has the replay restore
large values with byte-for-byte fidelity.

## 7 Plans, servers and the object store

**`Executor`** (`src/executor.cpp`). A plan is a tree of records that carries each node's state;
`Init_`, `Pull` and `End` are `init`, `next` and `end` of the six nodes, and `Open`, `PullRow` and
`Close` are `ExecutionEngine::execute`. `Plans` is the set of trees the engine
builds. `Answer` is the reference: the relational expression, over sequences. The
tables say which versions are visible; visibility itself is in `Mvcc`. The order in which a hash table returns
equal keys is left open: either way round.

**`Servers`** (`src/pgwire.cpp`, `src/http_server.cpp`, `Engine::execute`). A thread is a wire
connection, the REST server's one thread, or the console. `current` is `sess_`, `prev` what `execute`
restores it to. A statement is several steps (`Enter`, then `Begin`, `End`, or `WriteBegins`, `Write`,
`WriteEnds`, then `Leave`), each of which goes by `sess_` as it is at that moment. Connections come and
go, and leave their transaction open when they go. A server's mutex keeps out that server's threads alone
(`Excludes`), and the console has none, so that statements overlap as they do in the code. What a thread does by a session
that is gone, or by a `current_tx` that another thread has emptied under it, is undefined; `stray` notes who did. `met` notes who was
in the engine together with a thread of another server, `touched` who wrote in or ended which transaction.
`OneClientEach` is what the comments promise, and run `two_servers` shows it violated. `MixedOnlyByOverlap` says how far the
harm goes: among the clients of overlapping statements and the console, for which `sess_` may stay on a session
of theirs; everybody else works in transactions of their own, however often the others get into each other's way. It is checked
with every overlap and, in `Servers_proofs`, proved.

**`ObjectStore`** (`src/s3/`). `chunks` is the chunk file, `versions` are `objects_` with extents,
`uploads` are `sessions_`. `Initiate`, `UploadPart`, `Complete`, `Abort`, the two deletions and `Restart`; each holds
its manager's mutex from end to end. `ResolveRange` is `resolve_range`; `content` is a ghost, the
bytes sent in the order of part numbers.

## 8 What the runs show

| Run | Instance | Shows |
|---|---|---|
| `locks` | 3 sessions, 2 resources, one session killable; timed upgrades (83 thousand states) | all safety and action properties, liveness, the refinement |
| `recovery` | 1 page of 2 slots, 2 transactions, 2 versions, 2 evictions, 2 failures, log up to 4 records before recovery's own (1.9 million states) | nothing lost, nothing resurrected, the write-ahead rule, `flushed_lsn_` honest, clean frames equal the file, ids used once |
| `extension` | 2 pages of 1 slot, 1 failure, torn tails (1.2 million states) | the same when the heap grows, an update moves a row to the other page, and pages are torn |
| `parts` | the nine instances of `MCParts` below (180 thousand states) | the parts of sections 5 to 7, one in each behaviour |
| `lock_upgrade`, `bare_commit`, `raw_page`, `torn_tail`, `crash_in_undo`, `lost_update`, `stale_parent`, `two_servers` | as small as shows it | a violation each, section 9 |

`MCParts` is a union and no composition: its variable `part` picks one part in the initial state,
`PartsNext` runs that part's own next-state relation, and the variables of all others stay where they began. A
behaviour of the run is a behaviour of the part, and a property about another part holds of it
trivially. The module extends those of the parts, whose names differ, so that the run checks the
very definitions that the theorems are about; only `Executor` and `ObjectStore`
are instances.

| Part | Instance |
|---|---|
| `Mvcc` | 2 sessions, 2 keys, 3 transactions, 4 versions, 2 pages of 2 tuples; sessions and keys are symmetric |
| `BufferPool` | 3 handles, one of which may pin the first page before the others do and then keeps it (`KeeperKeeps`), 3 pages, 2 frames, usage up to 1 |
| `CommitLog` | 4 transactions on 2 pages, 1 frame, 1 crash |
| `DiskBTree` | 4 keys, 2 ctids, pages that split at 3 entries, 6 insertions |
| `FreeSpaceMap` | 5 heap pages on 2 map pages of 4 leaves, two tuples to a page, 1 crash |
| `Toast` | 2 transactions, 2 values of 1 or 2 chunks, 2 chunks to a page, 2 power failures |
| `Executor` | every table of two pages, with up to 2 line pointers and up to 1, and 2 key values; every plan, with limits 1, 2, none and offsets 0, 1 |
| `ObjectStore` | 1 object, 2 part numbers, parts of 0, 1 and 3 bytes, chunks of 2 bytes, 4 chunks, 2 uploads, 2 versions |
| `Servers` | 2 connections, the REST thread, the console, 1 transaction, 3 statements |

**Are the bounds enough?** *Locks*: three sessions are the fewest with a holder, a waiter and
one behind it, and with a cycle longer than two; two resources are the fewest on which a
cycle can lie, three sessions on two resources include a promotion at one resource
that races an immediate grant at the other. The proofs of section 10 need no bound. *Recovery*: two versions
are an insert and its update, or two inserts of different transactions; two
transactions let a winner and a loser share a page and an id be handed out again
after a failure; two failures are one in normal operation and one in the recovery from it, or
in what follows it. `MaxLog` bounds only how long a log statements and
checkpoints may add to: records of commits and of recovery come on top. Two evictions
let a page be written between any two statements and again during recovery. The second page is
in a run of its own since the two dimensions together are out of reach. *Mvcc*: three
transactions are a writer that has committed, a reader older than it, and one whose rollback
leaves a dead version; four versions are a chain of two HOT updates and a cold one onto the second page, or two
rows that compete for slots after VACUUM. *Pool*: three pages on two frames, so that a page goes and comes back
while another is pinned; usage counts high enough for the sweep to pass a frame twice; a client more than there are frames,
so that `fetch_page` and `new_page` meet two pinned frames and fail. The third keeps its page, which
leaves the other two every order of pins and failures beside it. *Servers*: one transaction is what two clients
can get into, and the third statement is the one of a console that goes by a `sess_` which two overlapping ones have left.
*B-tree*: six entries in pages of three reach a third level, the split of a root that is no leaf
included. *Map*: the second map page is searched after the first one fails. *TOAST*: two values of two chunks fill a
page and begin the next, a second crash meets what the first recovery left. *Object store*: a part of
three bytes takes two chunks, so that ranges begin and end within and between extents.

The three larger runs keep TLC's deadlock check on: at the bounds a transaction can still end, recovery
go on, and a database without transactions be closed and started again. `parts` has it off since a part
stops when its ids, versions or rows are used up; `lock_upgrade` since its sessions do stop, which is what it
shows; the other violation runs for the first reason. Four further configurations show more: `MCStaleIndex.cfg`,
`MCCutRun.cfg` and `MCToastId.cfg` what the remaining circumstances lead to, as is described with their modules, and `MCLockTimeout.cfg`
(for `MCLockManager`) what is said at the end of section 9; each within seconds but `MCToastId.cfg`.

**The properties.** Of the lock manager: `HoldersCompatible`, `IndexesAgree`, `SleepersKnown`,
`NoOrphanedQueue`, `NoWaitCycle`, `VictimOnCycle`, `FirstComeFirstServed`, `EverySleeperWakes`,
`ImplementsTwoPL`. The one worth a second look is `NoWaitCycle`: the code searches the
graph only when a request is queued, while promotions turn waiters into holders and so
add edges with no search. It holds because a session that is promoted waits nowhere else.
Of recovery: `WriteAhead` is stated over contents and not over LSNs, so that a
wrong stamp shows: whatever image survives, each row version and each deletion in it has its
record in the synced log. `NothingLost` and `NothingResurrected` compare what a new reader
finds with the ghosts, whenever the database serves statements. `CleanFramesMatch` says that a clean
frame may be dropped, also after recovery's own changes. `XidsUsedUp` says that no id in a
row will be handed out.

| Property of `parts` | Says |
|---|---|
| `NothingHeldIsDead` | what VACUUM takes for dead is visible in no snapshot that is held: the horizon is low enough whatever the order of begins and ends |
| `IndexFindsRows` | for every snapshot, index lookups through chains and redirects give what a sequential scan gives |
| `OneVersionEach` | no snapshot sees two versions of a row |
| `RepeatableReads` | what a snapshot takes for past stays so, whoever commits |
| `ImplementsSI` | all of it together is snapshot isolation |
| `PinsAccounted`, `VictimFound` | page table, frames, free list and pins agree; the sweep fails only if everything is pinned |
| `ImplementsPageStore`, `ImplementsStatusLog`, `ImplementsIndex` | the caches and the tree are what they stand for |
| `EntriesFound`, `ScansAgree` | every entry on a leaf is found under its key; scans, counts and the root flag agree with the leaves |
| `SearchIsFirstFit`, `GrowsOnlyWhenFull` | the map finds the first page that will do, and the heap grows only if the last page is too full and, until a crash, every page is too full by all that rounding can hide, which is less than one category |
| `ValuesKept` | the values of committed transactions read back, from memory and from the pages |
| `AnswersQuery`, `PinsReleased` | a plan gives the rows of its expression, once each and in order, and keeps no page |
| `RangesReadBack` | any range of an object reads as it was sent, and from no freed chunk |
| `MixedOnlyByOverlap` | a client whose statements never overlapped with one of another server works in its own transactions, and nobody else writes in those or ends them |

Every property has a mutant in `PROJECT.json`: a variant of one definition, written beside it,
that a plausible slip in the code would produce and that breaks the property.

**Fairness.** Only `LockManager` has liveness, and only there does the code wait. The other
specifications state safety, no fairness, and any action may be put off for ever.

## 9 Where the code and its documents disagree

| Run | What the code does | What is said of it |
|---|---|---|
| `lock_upgrade` | a sole SHARED holder that asks for EXCLUSIVE is queued behind its own lock; the self edge is left out of the graph (`src/lock.cpp:197`), so it sleeps for ever | `notes/atlas/25-two-phase-locking-deadlock.md:64`: deadlock if and only if the graph has a cycle |
| `bare_commit` | `log_commit` flushes up to the start of its own record (`src/wal.cpp:164`), which may count as flushed | `src/wal.cpp:114`: commit forces the log |
| `raw_page` | redo of an insert into a page left as zeroes fails and is not looked at (`src/page.cpp:199`) | `notes/2026-08-18-item9-wal.md:106` |
| `torn_tail` | the log is continued behind torn bytes (`src/wal.cpp:53`), which end every later scan | `notes/atlas/09-write-ahead-logging.md:85` |
| `crash_in_undo` | a transaction with a CLR and no ABORT record is not undone further, its id not marked (`src/wal.cpp:286`) | `notes/atlas/16-aries-3-phase-recovery.md:104` |
| `lost_update` | `update_item` looks the row up by its snapshot, locks it, and does not look whether it was superseded by a transaction that has committed since (`src/engine.cpp:292`): both updates commit, the row has two current versions | `src/engine.cpp:294`: two transactions updating the same row must not both succeed |
| `stale_parent` | the split of an internal page leaves the parent pointers of the children it moves (`src/disk_btree.cpp:272`); when such a child splits, its separator goes to the old parent and its keys are not found | `include/pg/disk_btree.h:58` and `:77` |
| `two_servers` | each server locks a mutex of its own (`src/pgwire.cpp:244`, `src/http_server.cpp:223`), the console of `src/server_main.cpp` none, over one engine: a statement commits, rolls back or writes in the transaction of the client that `sess_` points at | `src/engine.cpp:671-673`: the server serialises statements, one session is current at a time; `src/pgwire.cpp:143-145`: a transaction belongs to its client alone; `notes/atlas/20-desktop-gui-and-unified-server.md:105`: exactly one statement runs at a time |

`stale_parent` was also seen in the program: with ascending keys and the 64 keys of a page, the first key is
lost at the 2090th insertion, and 512 of 20000 are; `tests/test_disk_btree.cpp` inserts 500. What `MCToastId.cfg` shows contradicts a document too (section 6).

Two smaller disagreements have no run among these. A lock request that times out leaves the queue without waking those behind it
(`src/lock.cpp:75`), so that SHARED requests sleep on beside SHARED holders until the next release, where
`notes/atlas/25-two-phase-locking-deadlock.md:49` has compatible requests granted: `MCLockTimeout.cfg` finds
`FrontIsBlocked` violated. And `heap.cpp:152` takes every existing page for full when neither the map's page nor the last one has room, which is so
only up to the rounding of the map: a row needs 28 bytes (a tuple of 24, a line pointer of 4), categories are 32 bytes wide, and a page
that is not the last with 28 to 31 bytes free is in category 0 and is not found. Five redirects on a page that is otherwise full leave 30
(4 * 295 + 24 * 290 = 8140 of 8170 bytes). `GrowsOnlyWhenFull` says that this is all that can be overlooked.

## 10 What is proved

No proof bounds its constants.

`LockManager_proofs.tla`, for any sets of sessions and resources, any `Killable` and any
`UpgradeWaits`, from the assumption `ConstantsOK` alone. (Finiteness is not assumed, but what
`CheckDeadlock` and `NoWaitCycle` say of sets of sessions is about cycles only when `Tx` is finite.)

| Theorem | Statement |
|---|---|
| `TablesTyped` | `Spec => []TypeOK` |
| `IndexesCorrect` | `Spec => []IndexesAgree` |
| `SleepersCorrect` | `Spec => []SleepersKnown` |
| `LocksExclude` | `Spec => []HoldersCompatible` |
| `QueuesHaveHolders` | `Spec => []NoOrphanedQueue` |
| `NoDeadlock` | `Spec => []NoWaitCycle` |
| `VictimsDeserveIt` | `Spec => VictimOnCycle` |
| `QueuesAreFair` | `Spec => FirstComeFirstServed` |
| `ImplementsTwoPhaseLocking` | `Spec => ImplementsTwoPL` |

*The argument.* `IndexesAgree` is not inductive: that a promoted request belongs to a thread that
asked for this resource in this mode needs `QueueMatchesCall`, and that nothing is granted to
a thread which gave up needs `SleepersKnown`. `TableInv` is their conjunction with `TypeOK`; lemmas say
what erasing a request, appending one and promoting a prefix do to a queue, and
`NextTables` goes through the actions one by one. `LocksExclude` and `QueuesHaveHolders`
follow with `Compatible` and with the stopping condition of `Wakes`. For `NoDeadlock`, a cycle after a step
is traced back: an edge that a grant adds ends at a session that waits nowhere, so it lies on no
cycle; an edge that queueing adds starts at the caller, and then the search had found the
cycle. `VictimsDeserveIt` needs that too: the depth-first search from the caller would also
stop at a cycle which the caller merely leads to, but such a cycle would have stood before. `QueuesAreFair` rests on the
order of a queue: erasing a request moves those behind it together and swaps none (`WithoutOrder`), and what `ReleaseAll`
promotes is a prefix of what is left (`ReleaseInOrder`). The refinement maps `AcquireAtOnce` to
`Take`, `ReleaseAll` to `End`, and all else to stuttering.

`Mvcc_proofs.tla`, from `MvccConstants`, in whatever `Circumstances`:

| Theorem | Statement |
|---|---|
| `SpecTxInv` | `Spec => []TxInv`, the inductive invariant |
| `SpecNothingHeldIsDead` | `Spec => []NothingHeldIsDead` |
| `SpecRepeatableReads` | `Spec => RepeatableReads` |

*The argument.* Neither property is inductive. `TxInv` is `ManagerOK` (types; ids not yet handed out are in
progress) with `HoldersOK`: what a session holds is a running transaction with its own snapshot, its own
entry among the horizons, and an `xmin` no greater than any id it has among its active ones; of two
that are open, the older is among the active of the younger. From it: a
version that VACUUM takes for dead was aborted, which no snapshot sees, or superseded by a commit below every horizon, and so
below the `xmin` of the snapshot, which therefore takes the superseding for past. And a commit changes
what a snapshot takes for past only if it is older and not among the active, which `HoldersOK` excludes.
`LeastIsLeast` (`Least` of some numbers exists) rests on the well-foundedness of `<`.

In the same module, on top of `TxInv` and from the same assumption:

| Theorem | Statement | `Circumstances` |
|---|---|---|
| `SpecTyped` | `Spec => []TypeOK` | any |
| `SpecBase` | `Spec => []BaseInv`, what holds of every version | any |
| `SpecImplementsSI` | `Spec => ImplementsSI` | without `staleUpdate` (`NoStaleUpdate`) |
| `SpecRows` | `Spec => []RowsInv` | none (`Undisturbed`) |
| `SpecOneVersionEach` | `Spec => []OneVersionEach` | none |
| `SpecIndexFindsRows` | `Spec => []IndexFindsRows` | none |

*The argument.* `BaseInv` says of each version (`VersionOK`) that whoever has superseded it and still runs holds
its lock, and had its creator for its own or for past; and of two open transactions that the younger one has what
the older one ran beside among its active (`ActivesOK`). The lemmas `Adds`, `Vacuums` and `Settles`
say once what a statement that writes, VACUUM, and the beginning or end of a transaction do to slots and
versions, so that each further invariant has three cases and not seven.

*The refinement.* A statement that writes is a `Write` of the abstract table, VACUUM a stutter. What makes the first
true is that an update goes to a version which is `Replaceable`: `VersionOK` and the lock exclude a superseder that runs, `NoStaleUpdate`
one that has committed. What makes the second true is `TxInv`: what is dead is in no snapshot. A commit replaces
exactly what its transaction saw and wrote, because nobody else can have superseded that meanwhile. Slots
that are used again do no harm here: an update may then go to a row of another key, but it goes to one that its snapshot sees.

*One version each.* `OrderOK` is the invariant: of two versions of a row that no rollback has undone, the one written
first is superseded, and whoever takes the creator of the second for past takes the superseder of the first for past
(`Precedes`). The step that matters is an update (`UpdateOrder`): since its version is `Replaceable`,
`OrderOK` itself says that no living version of the row is newer. Its keys have to be right for that, which is
`ChainsOK`: there is a labelling of slots with keys that agrees with every tuple, every entry and every link of a chain. A slot that
a chain still leads to must not change its label, hence `Undisturbed`.

*The index.* That no scan returns too much follows from the labelling. That it misses nothing is
`WaysOK`: to each version that is not undone there is a `Way`, a sequence of slots without repetition from an
entry with its key, over redirects and older versions of the row. A HOT update prolongs
the way of the version it supersedes, VACUUM turns dead versions on a way into redirects and keeps the entry
it begins at, and the end of a transaction cannot undo a version on a way without undoing the one it leads to.
`OneVersionEach` says that a snapshot which sees the last slot sees none before it, the pigeonhole principle that the way
is no longer than the page has slots, and so the walk of `HotSearch`, which is bounded by them, gets there.
What the walk returns is proved by looking at the least number of steps for which it would be wrong.

Both hypotheses are as weak as the code permits: run `lost_update` shows `ImplementsSI` violated with
`staleUpdate`, `MCStaleIndex.cfg` shows `IndexFindsRows` violated with `slotReused`.

`SnapshotIsolation_proofs.tla`: `SpecFirstUpdaterWins`, `SISpec => []FirstUpdaterWins`. What an open transaction has
taken out of its table is still in the committed one, and nobody else has taken it out. It is
inductive with `SITypeOK`; the step that matters is a commit, which takes away only what nobody
else replaces. Together with `SpecImplementsSI` this is what the engine
owes its sessions; `lost_update` shows that it does not always pay.

`Servers_proofs.tla`, for any number of connections: `SpecMixedOnlyByOverlap`, from `ServersConstants` alone,
`ServersSpec => []MixedOnlyByOverlap`, whatever overlaps. `ServersInv` adds to the types that a thread in the engine which
has met no stranger is alone there (`AloneUnlessMet`, the work of the mutexes); that `sess_` is its session, and otherwise the
console's or one of a thread that has met another, which is all that `prev` can bring back (`PointedAt`); that a session
holds a transaction of its own thread, unless both are exposed (`Owned`); and that a thread in the middle of its statement has
one (`HasBegun`), without which an emptied `current_tx` could not be put down to those exposed. The console is among them since it goes by
`sess_` as it finds it, which after two statements that crossed may be the session of a client that has gone.

`Recovery_proofs.tla`, for any number of pages, slots and transactions and any bounds, from
`RecoveryOK`, `SlottedPageOK` and `NoTupleNoImage`:

| Theorem | Statement | `Circumstances` |
|---|---|---|
| `RecoveryTyped` | `Spec => []TypeOK` | any |
| `NothingFlushedUnsynced` | `Spec => []FlushedIsSynced` | any |
| `CleanFramesInFile` | `Spec => []CleanFramesMatch` | any |
| `WriteAheadRule` | `Spec => []WriteAhead` | any |
| `IdsUsedUp` | `Spec => []XidsUsedUp` | without `tornTail` and `crashInUndo` (`AllRead`) |

*The argument.* Three inductive invariants, each on top of the one before. `StorageInv` is the types
with the two flushing properties and `Reached`: in undo no record after `upto` is a checkpoint, so
that undo stops where redo began; without it `at` could run below the log. `LogInv` is what makes `WriteAhead`
inductive, which by itself says nothing of the pages in memory: every tuple and every deletion in a page
has its record among those that are synced or that lie below the page's LSN (`MemLogged`), or that are synced
(`PlatterLogged`); the image in an FPI record has its records in the log before it
(`LogSound`), which redo needs when it restores one; and all is synced from a crash until the end of redo
(`DownSynced`). A page is written with the log synced past its LSN, which turns the first into
the second. Undo takes a deletion back and removes tuples, and so only takes away what has to be
in the log, but stamps an LSN of its own, under which everything read before lies. `XidInv` says that ids of active transactions and of records lie below
the counter while the process is up, that the log has no torn record, and that no crash leaves
a transaction half undone. The first pass then moves the counter past whatever ended, and `AbortLoser` past the
losers, so that every id of a record, and with `LogInv` every id in a page, is below the counter when
the engine serves again. `AllRead` is needed: with a torn tail the records behind it, and with a
transaction half undone its own, are not looked at by the scan that advances the counter.

`Durability_proofs.tla`, from the same assumptions:

| Theorem | Statement | `Circumstances` |
|---|---|---|
| `CommittedRowsStay` | `Spec => []NothingLost` | none (`Undisturbed`) |
| `NothingElseAppears` | `Spec => []NothingResurrected` | none |

*The argument.* The two properties speak of the pages at the moments when the engine serves; what
carries them from there through a failure and the three passes is what the log says of the pages.
The first part of `Recovery_proofs` is about logs and images alone, without the machine. `Allowed` is what the
records before a record must be like: a change takes a slot that is free or whose tenant was
rolled back, an update takes a version that is current, written by itself or by a transaction
that has committed, no record of a transaction follows its end, and pages are entered in order. `Held` says of an image
that it is no older than the first so many records, and shows every change below its LSN, as far
as the transactions that count made it: those with a COMMIT record and those that run. The
changes of others may be there or not. `Known` allows for an image which is older than that, or
torn, if a full-page image further on will replace it. The lemmas then say what each way to
change a page makes of this: a statement (`ChangeStep`), redo (`ChangeHeld`, `ImageHeld`), undo
(`UndoneHeld`), a torn write (`HeldMixture`), a longer or a cut log (`KnownStays`), and that a page
which redo has no image for was new, so that one record has all of it (`HeldUnmended`).

`DurInv` says this of the machine: the log is one that the rules allow (`LogOrderly`), each
page in memory is `Known` up to the end of the log, or up to `at` in redo (`MemKnown`), each
that a failure may leave is `Known` up to the last checkpoint (`PlatterKnown`), the statuses
are those of the log and whoever has written has ended, runs, or is a loser (`StatusKnown`),
and the expected rows are the ones that the log tells of (`RowsKnown`). At a failure the first record to redo is
where a checkpoint had written all pages, so the pages on the disk will do to start from. A loser's undo clears
what it wrote and nothing else because of `Allowed`: while it had not ended, nobody else was
allowed the slot or the version. In the end `RowsExpected` reads the rows off the
pages: a version is visible if its writer has a COMMIT record and no updater of it has.

`Undisturbed` is as weak as the code permits: for each of the four circumstances a run shows
one of the two properties violated ([section 9](#9-where-the-code-and-its-documents-disagree)).

`Storage_proofs.tla` has the small parts, one after the other, each from the assumption on its own constants
(`PoolConstants`, `CommitLogConstants`, `MapConstants`, `ToastConstants`):

| Theorem | Statement | |
|---|---|---|
| `SpecPinsAccounted` | `PoolSpec => []PinsAccounted` | |
| `SpecVictimFound` | `PoolSpec => []VictimFound` | |
| `PoolImplementsStore` | `PoolSpec => ImplementsPageStore` | |
| `ClogImplementsStatusLog` | `ClogSpec => ImplementsStatusLog` | |
| `SpecSearchIsFirstFit` | `MapSpec => []SearchIsFirstFit` | |
| `SpecGrowsOnlyWhenFull` | `MapSpec => GrowsOnlyWhenFull` | |
| `SpecValuesKept` | `ToastSpec => []ValuesKept` | without `idAgain` (`NoIdAgain`) |

*The pool.* `PoolInv` is the types, `PinsAccounted`, and what the two miss: a frame on the free list is in no entry of
the page table and comes there once (`FreeOK`), a handle is on a page that is resident (`HandlesOK`), and a frame that is not dirty
has what the file has, unless a handle with a change of its own will make it dirty when it goes (`CleanOK`). The last makes dropping a clean frame a stutter of the store, the second
keeps a pinned page from going. `VictimFound` is about the loop of the sweep: for a frame that is not pinned,
`TurnsLeft` is its usage count times the frames plus the hand's distance to it; a turn takes one away
unless it finds a victim, and the loop is allowed more turns than that.

*The commit log.* `ClogInv`: no page is in two frames, a clean frame has what the disk has, and the disk is blank past the end of
the file, so that a page which is not there yet reads as if it were.

*The map.* `MapInv` says of the trees in memory and in the file that each node is the larger of its children and that the leaves past the
heap's end are nought. `update_page` stops at the first node that does not change, which is right because everything
above it was right before: the invariant of the climb is that only the path above is wrong. The
descent of a search keeps the sought leaf below it, and the trees before the one it takes have no leaf that will do.
For the heap: the last page is asked for its free bytes, whatever the map says; until a crash, the map has the category of each page's
room (`HeapOK`), so that a page the search does not take is in a lower category than the request, and has less than one category more than
the bytes asked for (`RoomHidden`).

*Values.* `ToastInv` has to say what a crash may leave before recovery has run. Values have ids of their own, and a record is of a
chunk of a value (`RecordsOK`). A transaction ends once and writes nothing after that (`EndsOK`), and a slot
comes to a second record only after the ABORT of the first one's transaction (`ReuseOK`). Over
the pages, the synced pages and the records to replay, the same id is the same value and the same
chunk is at the same place (`Known`, `Apart`). Each chunk of a value whose transaction committed or still may is
brought back by redo, or is synced with no record to replay at its place (`ChunksHeld`). While the engine is up,
records to replay show on the pages unless they were aborted (`RecordsShown`). Redo, undo and the loop of
`store` are recursive functions; facts about them are proved by a least counterexample. `NoIdAgain` is as weak as the code permits:
`MCToastId.cfg`.

`DiskBTree_proofs.tla`, from `TreeConstants`, in whatever `TreeCircumstances`: `TreeImplementsIndex`, `TreeSpec => ImplementsIndex`. The
invariant `TreeInv` says that pages are well-typed, that exactly one is flagged as root and is `root`, that no entry is on two places
of the leaves, and that there is a function from pages to levels (`Levels`) by which children are one below their
parents and leaves at the bottom, so that a descent ends. Insertion, removal and a split move the places of entries by a
bijection, except for the one entry that comes or goes; the climb, a recursive function, adds
pages above and leaves the leaves alone.

Where an entry can be found is another matter: `stale_parent` and `MCCutRun.cfg` show
that it needs the circumstances off, so `TreeFindsEntries` and `TreeScansAgree` assume `TreeCircumstances = {}`. Their invariant `FenceInv`
adds to `TreeInv` a pair of fences for every page (`Fences`): keys of a page are between them, the separators of an
inner page are the fences of its children, a leaf's upper fence is the lower one of its right sibling, and pages on one level
do not overlap. A split halves a fence, at a key that no
entry to the left has, since a run of one key is not cut; the climb keeps the fences level by level. So `FindLeaf` lands on the leaf whose fences
enclose the key, the fences rise strictly along a chain of leaves, a lookup needs one leaf and a range scan may stop where the code stops.
What a chain of leaves reads (`EntriesOn`) and picks (`Between`) are recursive functions; that they
split where the chain splits is proved with a least counterexample.

*Only model-checked.* `EverySleeperWakes`, which is liveness under
fairness and with `ENABLED` out of the prover's reach. `RangesReadBack` of the object store, whose reads are folds over chunks. `Executor` has RECURSIVE
operators and stays with TLC for that reason alone; with it `TypesOK` of `MCParts`, whose other conjuncts are part of the inductive invariants above.
The induction theorems of the library are out of the provers' reach, which is why the models
state most loops and searches by what they decide: `Wakes` and `CheckDeadlock` are not proved equal to a
transcription of the loops. Where a model keeps the loop, as a recursive function (`HotSearch`, `Sweep`, `Climbed`, `Redo`, ...), facts about it are proved with
a least counterexample in place of induction.

## 11 What is not modelled

* Bytes: offsets in a page, the line pointer state DEAD, which lasts only within VACUUM; in
  `Recovery` a page has room for one tuple in each slot. A failed redo for lack of room is
  modelled for the unformatted page only.
* In `Recovery`: what VACUUM does to heap pages (`src/vacuum.cpp:53-92`, `:139-170`: redirects, slots given back,
  defragmentation), which it neither logs nor stamps with an LSN, so that durability and atomicity are shown
  of histories without VACUUM alone; `delete_tuple`, which only a test calls, and `update_tuple_header`, with which
  an INSERT with a document flags its row; statements under old snapshots (an update starts from a version that is
  current; `Mvcc` has the others), RECOVER as a statement, the relations beyond the first
  heap, the indexes, which are rebuilt or read without the log.
* `Close` comes when every transaction has ended. The destructor does not see to that; what
  follows if one is open is listed among the hazards.
* A kill that is followed by a power failure before the log is synced again: after a kill the
  model counts the log as synced.
* A mixture of a new page's zeroes and its first image; pages mix only with formatted ones.
* Files: the system calls are external. A write or sync that fails throws in the middle of a
  statement (`src/file.cpp`); what is left in memory then is not modelled.
* Indexes after a crash: they are not logged, and nothing says what they should be.
* Interleavings within a statement, other than those of `LockManager` and `Servers`. `Mvcc`
  runs statements one by one, as a server's mutex does.
* `Session::failed`, which is set and reported and stops nothing; what a SELECT over the wire
  answers, which reads the heap with no snapshot; packets and HTTP; stopping a server.
* In the executor, EXPLAIN and output. In the object store, `write_chunk`, `scrub`, checksums and listings.
* Catalog, GUI and vendored code: a text file with one writer, presentation, third party.
