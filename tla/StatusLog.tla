----------------------------- MODULE StatusLog -----------------------------
(***************************************************************************)
(* What the commit log promises: every status reads as it was last set; a  *)
(* crash takes back what has not reached the disk, and nothing that has.   *)
(***************************************************************************)
EXTENDS Naturals

CONSTANTS Tx, Status, InProgress

VARIABLES
    now,        \* what get_status answers
    durable     \* what it would answer after a crash

logVars == <<now, durable>>

LogInit ==
    /\ now = [x \in Tx |-> InProgress]
    /\ durable = now

\* Statuses reach the disk in their own time, as they are.
Persists == \A x \in Tx : durable'[x] \in {durable[x], now[x]}

Set   == Persists /\ \E x \in Tx, s \in Status : now' = [now EXCEPT ![x] = s]
Flush == UNCHANGED now /\ durable' = now
Read  == Persists /\ UNCHANGED now
Crash == UNCHANGED durable /\ now' = durable

LogSpec == LogInit /\ [][Set \/ Flush \/ Read \/ Crash]_logVars
=============================================================================
