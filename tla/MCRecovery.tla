---------------------------- MODULE MCRecovery ----------------------------
(* Instances of Recovery for TLC. *)
EXTENDS Recovery

MCPages  == 0..1
MCPage0  == 0..0
MCXids   == 1..2
MCValues == 1..MaxWrites

Ordinary    == {}
BareCommit  == {"bareCommit"}
RawPage     == {"rawPage"}
TornTail    == {"tornTail"}
CrashInUndo == {"crashInUndo"}
=============================================================================
