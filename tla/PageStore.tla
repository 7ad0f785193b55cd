----------------------------- MODULE PageStore -----------------------------
(***************************************************************************)
(* What a cache of pages promises its callers: a file of pages, each of    *)
(* which reads as what was last written to it.  Frames, pins, evictions    *)
(* and write-backs do not show.                                            *)
(***************************************************************************)
EXTENDS Naturals

CONSTANTS Pages, Data, Zeroes, Formatted

VARIABLES
    size,       \* pages in the file
    contents    \* what each page reads as

storeVars == <<size, contents>>

StoreInit ==
    /\ size \in 0..Pages
    /\ contents = [p \in 0..(Pages - 1) |-> Zeroes]

\* A page that could not be cached stays as the disk has it.
Extend ==
    /\ size < Pages
    /\ size' = size + 1
    /\ contents' \in {contents, [contents EXCEPT ![size] = Formatted]}

WritePage ==
    /\ \E p \in 0..(size - 1), d \in Data : contents' = [contents EXCEPT ![p] = d]
    /\ UNCHANGED size

StoreSpec == StoreInit /\ [][Extend \/ WritePage]_storeVars
=============================================================================
