------------------------------- MODULE Index -------------------------------
(***************************************************************************)
(* The interface of src/include/pg/index.h: a set of (key, ctid) entries.  *)
(* BTreeIndex (src/src/btree.cpp) is this set itself, a std::multimap.     *)
(***************************************************************************)
CONSTANTS Key, Ctid

VARIABLE entries

InsertEntry == \E e \in Key \X Ctid : entries' = entries \cup {e}
RemoveEntry == \E e \in entries : entries' = entries \ {e}

IndexSpec == entries = {} /\ [][InsertEntry \/ RemoveEntry]_entries
=============================================================================
