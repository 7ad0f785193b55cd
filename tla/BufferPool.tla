----------------------------- MODULE BufferPool -----------------------------
(***************************************************************************)
(* The buffer pool of src/src/buffer_pool.cpp: frames, the page table, the *)
(* free list, pins and the clock sweep, and the PinnedPage handles that    *)
(* its callers hold.  The write-ahead rule of write_frame is in Recovery.  *)
(***************************************************************************)
EXTENDS Naturals, Sequences, FiniteSets

CONSTANTS
    Client,         \* holders of PinnedPage handles
    Frames,         \* pool_size_
    FilePages,      \* bound: pages of the file
    Data,           \* contents of a page
    Zeroes,         \* a page as Pager::allocate_page writes it
    Formatted,      \* ... as Page::init leaves it
    Nothing,        \* INVALID_PAGE_ID, INVALID_FRAME_ID
    MaxUsage        \* BUF_USAGECOUNT_MAX

ASSUME PoolConstants ==
    /\ IsFiniteSet(Client)
    /\ Frames \in Nat \ {0} /\ FilePages \in Nat \ {0} /\ MaxUsage \in Nat \ {0}
    /\ Nothing \notin Nat
    /\ {Zeroes, Formatted} \subseteq Data

Frame == 0..(Frames - 1)
FilePage ==  0..(FilePages - 1)

VARIABLES
    file,       \* the pages on disk
    size,       \* Pager::num_pages
    frames,     \* frames_
    table,      \* page_table_
    free,       \* free_list_
    hand,       \* clock_hand_
    handle      \* the PinnedPage each client holds, and whether it is marked dirty

poolVars == <<file, size, frames, table, free, hand, handle>>

EmptyFrame == [page |-> Nothing, pins |-> 0, dirty |-> FALSE, usage |-> 0, data |-> Zeroes]
NoHandle   == [page |-> Nothing, dirty |-> FALSE]

PoolInit ==
    /\ file = [p \in FilePage |-> Zeroes]
    /\ size \in FilePage
    /\ frames = [f \in Frame |-> EmptyFrame]
    /\ table = [p \in FilePage |-> Nothing]
    /\ free = [i \in 1..Frames |-> i - 1]
    /\ hand = 0
    /\ handle = [c \in Client |-> NoHandle]

Resident(p) == table[p] # Nothing

\* One turn of the sweep at the frame under the hand.
Swept(st) ==
    LET f == st.hand IN
    [hand   |-> (f + 1) % Frames,
     frames |-> IF st.frames[f].pins = 0 /\ st.frames[f].usage > 0
                THEN [st.frames EXCEPT ![f].usage = @ - 1] ELSE st.frames,
     victim |-> IF st.frames[f].pins = 0 /\ st.frames[f].usage = 0 THEN f ELSE Nothing]

\* Mutant of ScanLimit: as many rotations as the usage count can take.
ScanLimitShort == Frames * MaxUsage

ScanLimit == Frames * (MaxUsage + 2)

\* victim_frame's loop: it stops at the first victim or at the limit.
Sweep ==
    LET turn[i \in 0..ScanLimit] ==
            IF i = 0 THEN [hand |-> hand, frames |-> frames, victim |-> Nothing]
            ELSE LET last == turn[i - 1] IN
                 IF last.victim # Nothing THEN last ELSE Swept(last)
    IN turn[ScanLimit]

\* Mutant of WrittenBack: a victim is not written back.
WrittenBackNever(victim) == file

WrittenBack(victim) ==
    IF frames[victim].dirty
    THEN [file EXCEPT ![frames[victim].page] = frames[victim].data] ELSE file

\* fetch_page on a resident page.
Hit(p) ==
    /\ Resident(p)
    /\ frames' = [frames EXCEPT ![table[p]].pins = @ + 1,
                                ![table[p]].usage = IF @ < MaxUsage THEN @ + 1 ELSE @]
    /\ UNCHANGED <<file, table, free, hand>>

Loaded(fs, f, p, d, dirty) ==
    [fs EXCEPT ![f] = [page |-> p, pins |-> 1, dirty |-> dirty, usage |-> 1, data |-> d]]

\* fetch_page on a page that is not, into a free frame: the last of the list.
MissToFree(p, d, dirty) ==
    /\ ~Resident(p)
    /\ free # <<>>
    /\ frames' = Loaded(frames, free[Len(free)], p, d, dirty)
    /\ table' = [table EXCEPT ![p] = free[Len(free)]]
    /\ free' = SubSeq(free, 1, Len(free) - 1)
    /\ UNCHANGED <<file, hand>>

\* Mutant of Unmapped: the table keeps the evicted page.
UnmappedNever(victim) == table

\* page_table_.erase of whatever page the victim's header names.
Unmapped(victim) ==
    IF frames[victim].page = Nothing THEN table
    ELSE [table EXCEPT ![frames[victim].page] = Nothing]

\* ... and into a victim's.
MissToVictim(p, d, dirty) ==
    /\ ~Resident(p)
    /\ free = <<>>
    /\ LET s == Sweep IN
       /\ s.victim # Nothing
       /\ frames' = Loaded(s.frames, s.victim, p, d, dirty)
       /\ table' = [Unmapped(s.victim) EXCEPT ![p] = s.victim]
       /\ file' = WrittenBack(s.victim)
       /\ hand' = s.hand
    /\ UNCHANGED free

\* victim_frame throws: only the usage counts and the hand have moved.
NoVictim ==
    /\ free = <<>>
    /\ Sweep.victim = Nothing
    /\ frames' = Sweep.frames
    /\ hand' = Sweep.hand
    /\ UNCHANGED <<file, table, free>>

Gives(c, p) == handle' = [handle EXCEPT ![c] = [page |-> p, dirty |-> FALSE]]

\* A PinnedPage is constructed.
Pin(c, p) ==
    /\ handle[c] = NoHandle
    /\ p < size
    /\ \/ Hit(p) /\ Gives(c, p)
       \/ (MissToFree(p, file[p], FALSE) \/ MissToVictim(p, file[p], FALSE)) /\ Gives(c, p)
       \/ ~Resident(p) /\ NoVictim /\ UNCHANGED handle
    /\ UNCHANGED size

\* new_page: the file is a page longer even if no frame can be had for it.
NewPage(c) ==
    /\ handle[c] = NoHandle
    /\ size \in FilePage
    /\ size' = size + 1
    /\ \/ MissToFree(size, Formatted, TRUE) /\ Gives(c, size)
       \/ MissToVictim(size, Formatted, TRUE) /\ Gives(c, size)
       \/ NoVictim /\ UNCHANGED handle

\* The holder of a pin changes the page in place and calls mark_dirty.
Change(c, d) ==
    /\ handle[c] # NoHandle
    /\ frames' = [frames EXCEPT ![table[handle[c].page]].data = d]
    /\ handle' = [handle EXCEPT ![c].dirty = TRUE]
    /\ UNCHANGED <<file, size, table, free, hand>>

\* unpin_page, by the handle's release().
Unpin(c) ==
    /\ handle[c] # NoHandle
    /\ LET f == table[handle[c].page] IN
       frames' = [frames EXCEPT ![f].dirty = @ \/ handle[c].dirty,
                                ![f].pins = IF @ > 0 THEN @ - 1 ELSE @]
    /\ handle' = [handle EXCEPT ![c] = NoHandle]
    /\ UNCHANGED <<file, size, table, free, hand>>

\* flush_page for the pages in P; flush_all is all that are resident.
Flush(P) ==
    LET dirty == {p \in P : Resident(p) /\ frames[table[p]].dirty} IN
    /\ dirty # {}
    /\ file' = [p \in FilePage |-> IF p \in dirty THEN frames[table[p]].data ELSE file[p]]
    /\ frames' = [f \in Frame |->
                    IF \E p \in dirty : table[p] = f
                    THEN [frames[f] EXCEPT !.dirty = FALSE] ELSE frames[f]]
    /\ UNCHANGED <<size, table, free, hand, handle>>

PoolNext ==
    \/ \E c \in Client, p \in FilePage : Pin(c, p)
    \/ \E c \in Client, d \in Data : Change(c, d)
    \/ \E c \in Client : NewPage(c) \/ Unpin(c)
    \/ \E p \in FilePage : Flush({p})
    \/ Flush(FilePage)

PoolSpec == PoolInit /\ [][PoolNext]_poolVars

----------------------------------------------------------------------------
(* Properties. *)

PoolTypeOK ==
    /\ file \in [FilePage -> Data]
    /\ size \in 0..FilePages
    /\ frames \in [Frame -> [page : FilePage \cup {Nothing}, pins : 0..Cardinality(Client),
                             dirty : BOOLEAN, usage : 0..MaxUsage, data : Data]]
    /\ table \in [FilePage -> Frame \cup {Nothing}]
    /\ \A i \in DOMAIN free : free[i] \in Frame
    /\ hand \in Frame
    /\ handle \in [Client -> [page : FilePage \cup {Nothing}, dirty : BOOLEAN]]

Holders(p) == {c \in Client : handle[c].page = p}

\* Table, frames, free list and handles agree, whatever was evicted in between:
\* each page is in the frame the table gives and in no other, each frame is free or
\* in the table, and is pinned once for every handle (buffer_pool.cpp:66-71, 93-107).
PinsAccounted ==
    /\ \A p \in FilePage : Resident(p) => frames[table[p]].page = p
    /\ \A f \in Frame :
          \/ \E i \in DOMAIN free : free[i] = f
          \/ frames[f].page # Nothing /\ table[frames[f].page] = f
    /\ \A f \in Frame : frames[f].pins = Cardinality(Holders(frames[f].page) \ Holders(Nothing))

\* The sweep finds a victim whenever some frame is not pinned: its limit cannot
\* expire too early (buffer_pool.cpp:146-149), so fetch_page fails only when every frame
\* is pinned, as the error says (buffer_pool.cpp:179-180).
VictimFound == (\E f \in Frame : frames[f].pins = 0) => Sweep.victim # Nothing

\* The pool and the file behind it are one store of pages (buffer_pool.cpp:76-78):
\* every page reads as it was last written, from a frame or from disk.
Store == INSTANCE PageStore WITH
            Pages    <- FilePages,
            contents <- [p \in FilePage |-> IF Resident(p) THEN frames[table[p]].data ELSE file[p]]

ImplementsPageStore == Store!StoreSpec
=============================================================================
