-------------------------- MODULE MCLockManager ---------------------------
(* Instances of LockManager for TLC. *)
EXTENDS LockManager

CONSTANTS t1, t2, t3, r1, r2

MCTx       == {t1, t2, t3}
MCPair     == {t1, t2}
MCRes      == {r1, r2}
MCOneRow   == {r1}
MCNobody   == {}
MCKillable == {t3}
TimedOnly  == {"timed"}
AnyWait    == {"timed", "forever"}
=============================================================================
