------------------------------- MODULE MCMvcc -------------------------------
(* Instances of Mvcc for TLC. *)
EXTENDS Mvcc

StaleUpdate == {"staleUpdate"}
SlotReused  == {"slotReused"}
=============================================================================
