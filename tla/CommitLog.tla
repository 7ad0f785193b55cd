----------------------------- MODULE CommitLog -----------------------------
(***************************************************************************)
(* The commit log of src/src/clog.cpp: two bits for every transaction, on  *)
(* pages behind a small cache that evicts the least recently used frame.   *)
(***************************************************************************)
EXTENDS Naturals, SequencesExt

CONSTANTS
    Tx,         \* bound: transaction ids, from 0
    PerPage,    \* CLOG_TXS_PER_PAGE
    Buffers,    \* frames_.size()
    MaxCrashes  \* bound

ASSUME CommitLogConstants ==
    /\ Tx \in Nat \ {0} /\ PerPage \in Nat \ {0} /\ Buffers \in Nat \ {0}
    /\ MaxCrashes \in Nat

ClogXid  == 0..(Tx - 1)
PageOf(x) == x \div PerPage
SlotOf(x) == x % PerPage
ClogPage == {PageOf(x) : x \in ClogXid}
Slots    == 0..(PerPage - 1)
Buffer   == 1..Buffers

\* The two bits of a TransactionStatus.
InProgress == 0
Committed  == 1
Aborted    == 2
TransactionStatus == {InProgress, Committed, Aborted}

VARIABLES
    disk,       \* the pages of the file
    clogSize,   \* num_pages
    clogFrames, \* frames_, without the counter
    recency,    \* the valid frames, by their counter
    crashes     \* crashes so far

clogVars == <<disk, clogSize, clogFrames, recency, crashes>>

BlankPage == [i \in Slots |-> InProgress]
Invalid   == [valid |-> FALSE, page |-> 0, dirty |-> FALSE, data |-> BlankPage]

\* The constructor: an empty file gets page 0.
ClogInit ==
    /\ disk = [p \in ClogPage |-> BlankPage]
    /\ clogSize = 1
    /\ clogFrames = [b \in Buffer |-> Invalid]
    /\ recency = <<>>
    /\ crashes = 0

\* The frame of a page that is resident.
Holds(b, p) == clogFrames[b].valid /\ clogFrames[b].page = p

\* victim_frame: an invalid frame, else the least recently used.
Victim(b) ==
    IF \E f \in Buffer : ~clogFrames[f].valid
    THEN ~clogFrames[b].valid /\ \A f \in 1..(b - 1) : clogFrames[f].valid
    ELSE b = Head(recency)

\* Mutant of Written: the victim is dropped.
WrittenNever(B) == disk

\* write_frame for the frames in B.
Written(B) ==
    [p \in ClogPage |->
        IF \E b \in B : Holds(b, p) /\ clogFrames[b].dirty
        THEN clogFrames[CHOOSE b \in B : Holds(b, p) /\ clogFrames[b].dirty].data
        ELSE disk[p]]

\* find_or_load_frame, with n pages in the file: it uses frame b, with this content.
Uses(p, n, b, data, dirty) ==
    /\ recency' = Append(SelectSeq(recency, LAMBDA f : f # b), b)
    /\ \/ /\ Holds(b, p)
          /\ data = clogFrames[b].data
          /\ dirty = clogFrames[b].dirty
          /\ UNCHANGED disk
       \/ /\ \A f \in Buffer : ~Holds(f, p)
          /\ Victim(b)
          /\ disk' = Written({b})
          /\ data = IF p < n THEN disk[p] ELSE BlankPage
          /\ dirty = FALSE

\* set_status: the file is extended to the page first.
SetStatus(x, s) ==
    LET n == IF clogSize <= PageOf(x) THEN PageOf(x) + 1 ELSE clogSize IN
    /\ \E b \in Buffer, data \in [Slots -> TransactionStatus], dirty \in BOOLEAN :
          /\ Uses(PageOf(x), n, b, data, dirty)
          /\ clogFrames' = [clogFrames EXCEPT ![b] =
                [valid |-> TRUE, page |-> PageOf(x), dirty |-> TRUE,
                 data |-> [data EXCEPT ![SlotOf(x)] = s]]]
    /\ clogSize' = n
    /\ UNCHANGED crashes

\* get_status brings the page in, if the file has it.
GetStatus(x) ==
    /\ PageOf(x) < clogSize
    /\ \E b \in Buffer, data \in [Slots -> TransactionStatus], dirty \in BOOLEAN :
          /\ Uses(PageOf(x), clogSize, b, data, dirty)
          /\ clogFrames' = [clogFrames EXCEPT ![b] =
                [valid |-> TRUE, page |-> PageOf(x), dirty |-> dirty, data |-> data]]
    /\ UNCHANGED <<clogSize, crashes>>

\* flush, at a checkpoint and on closing.
FlushClog ==
    /\ disk' = Written(Buffer)
    /\ clogFrames' = [b \in Buffer |-> [clogFrames[b] EXCEPT !.dirty = FALSE]]
    /\ UNCHANGED <<clogSize, recency, crashes>>

\* The process ends without a flush; the next one opens the file.
Crash ==
    /\ crashes < MaxCrashes
    /\ crashes' = crashes + 1
    /\ clogFrames' = [b \in Buffer |-> Invalid]
    /\ recency' = <<>>
    /\ UNCHANGED <<disk, clogSize>>

ClogNext ==
    \/ \E x \in ClogXid, s \in TransactionStatus \ {InProgress} : SetStatus(x, s)
    \/ \E x \in ClogXid : GetStatus(x)
    \/ FlushClog
    \/ Crash

ClogSpec == ClogInit /\ [][ClogNext]_clogVars

----------------------------------------------------------------------------
(* Properties. *)

ClogTypeOK ==
    /\ disk \in [ClogPage -> [Slots -> TransactionStatus]]
    /\ clogSize \in 1..Cardinality(ClogPage)
    /\ clogFrames \in [Buffer -> [valid : BOOLEAN, page : ClogPage, dirty : BOOLEAN,
                              data : [Slots -> TransactionStatus]]]
    /\ ToSet(recency) = {b \in Buffer : clogFrames[b].valid}
    /\ IsInjective(recency)
    /\ crashes \in 0..MaxCrashes

\* What get_status answers.
StatusOf(x) ==
    IF \E b \in Buffer : Holds(b, PageOf(x))
    THEN clogFrames[CHOOSE b \in Buffer : Holds(b, PageOf(x))].data[SlotOf(x)]
    ELSE IF PageOf(x) < clogSize THEN disk[PageOf(x)][SlotOf(x)] ELSE InProgress

\* Every transaction's status reads as it was last set, however the pages move
\* between the cache and the file; a crash gives the statuses of the last flush or
\* later ones (clog.h:44-45, clog.cpp:84-101).
Log == INSTANCE StatusLog WITH
            Tx      <- ClogXid,
            Status  <- TransactionStatus,
            now     <- [x \in ClogXid |-> StatusOf(x)],
            durable <- [x \in ClogXid |-> disk[PageOf(x)][SlotOf(x)]]

ImplementsStatusLog == Log!LogSpec
=============================================================================
