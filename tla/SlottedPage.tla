---------------------------- MODULE SlottedPage ----------------------------
(***************************************************************************)
(* The heap page of src/src/page.cpp, as far as the write-ahead log and    *)
(* recovery can tell pages apart: whether it has been formatted, its LSN,  *)
(* and what each slot holds.  Offsets, lengths and free bytes are left     *)
(* out: a page has room for one tuple in each of its slots.                *)
(***************************************************************************)
EXTENDS Naturals, FiniteSets, FiniteSetsExt

CONSTANTS
    Slots,      \* slots per page
    Xid,        \* transaction ids
    Value,      \* row contents
    Unused,     \* what a slot holds whose line pointer is unused
    Absent      \* what stands for a page that the file does not reach

ASSUME SlottedPageOK ==
    /\ Slots \in Nat \ {0}
    /\ Xid \subseteq Nat \ {0}

Slot  == 1..Slots
Tuple == [xmin : Xid, xmax : Xid \cup {0}, data : Value]
Image == [formatted : BOOLEAN, lsn : Nat, tup : [Slot -> Tuple \cup {Unused}]]

ASSUME NoTupleNoImage == Unused \notin Tuple /\ Absent \notin Image

\* Page::init, and the zeroes Pager::allocate_page writes.  In those pd_lower
\* and pd_upper are 0: the page has no slot and no room for one.
FreshPage == [formatted |-> TRUE, lsn |-> 0, tup |-> [s \in Slot |-> Unused]]
ZeroPage  == [FreshPage EXCEPT !.formatted = FALSE]

Present(img) == img # Absent

\* insert_tuple finds room; the slot it takes is the first unused one.
HasRoom(img) ==
    /\ Present(img)
    /\ img.formatted
    /\ \E s \in Slot : img.tup[s] = Unused

FreeSlot(img) == Min({s \in Slot : img.tup[s] = Unused})

\* insert_tuple_at: nothing happens on a page without room, as all zeroes is.
InsertTupleAt(img, s, tuple) ==
    IF img.formatted THEN [img EXCEPT !.tup[s] = tuple] ELSE img

\* set_line_pointer(s, UNUSED).
RemoveTuple(img, s) == [img EXCEPT !.tup[s] = Unused]

\* get_tuple_ptr_mut(s) and, if there is a tuple, a new xmax for it.
StampXmax(img, s, x) ==
    IF img.tup[s] = Unused THEN img ELSE [img EXCEPT !.tup[s].xmax = x]

\* Mutant: a change leaves the page's LSN as it was.
SetLsnNever(img, lsn) == img

SetLsn(img, lsn) == [img EXCEPT !.lsn = lsn]
=============================================================================
