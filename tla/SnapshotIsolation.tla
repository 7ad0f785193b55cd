------------------------- MODULE SnapshotIsolation -------------------------
(***************************************************************************)
(* What a transactional table promises the sessions that use it, with no   *)
(* versions, pages or indexes in sight: a transaction reads the table as   *)
(* it was committed when the transaction began, plus its own writes;       *)
(* others see its writes when it commits, all at once; and of two          *)
(* transactions that replace the same row at most one goes through.        *)
(***************************************************************************)
EXTENDS Naturals, FiniteSets

CONSTANTS
    Session,    \* whoever runs transactions
    Row         \* rows; a new version of a row is a row of its own

VARIABLES
    committed,  \* the rows of the table
    open,       \* sessions that have a transaction open
    base,       \* the table as it was when the session's transaction began
    view        \* the table as the session's transaction sees it

siVars == <<committed, open, base, view>>

SITypeOK ==
    /\ committed \in SUBSET Row
    /\ open \in SUBSET Session
    /\ base \in [Session -> SUBSET Row]
    /\ view \in [Session -> SUBSET Row]

SIInit ==
    /\ committed = {}
    /\ open = {}
    /\ base = [s \in Session |-> {}]
    /\ view = [s \in Session |-> {}]

Begin(s) ==
    /\ s \notin open
    /\ open' = open \cup {s}
    /\ base' = [base EXCEPT ![s] = committed]
    /\ view' = [view EXCEPT ![s] = committed]
    /\ UNCHANGED committed

\* What s has taken out of the table it began with.
Replaced(s) == base[s] \ view[s]
Added(s)    == view[s] \ base[s]

\* Nobody replaces a row that another transaction has replaced, whether that
\* one is still open or has committed since s began.
Free(s, old) ==
    old \subseteq committed \cup Added(s)
        /\ \A o \in open \ {s} : old \cap Replaced(o) = {}

\* A row nobody has seen before, in place of at most one that s sees.
Write(s) ==
    /\ s \in open
    /\ UNCHANGED <<committed, open, base>>
    /\ \E old \in SUBSET view[s], new \in Row :
          /\ view' = [view EXCEPT ![s] = (@ \ old) \cup {new}]
          /\ Cardinality(old) <= 1
          /\ Free(s, old)
          /\ new \notin committed
          /\ \A o \in open : new \notin base[o] \cup view[o]

Closed(s) ==
    /\ s \in open
    /\ open' = open \ {s}
    /\ base' = [base EXCEPT ![s] = {}]
    /\ view' = [view EXCEPT ![s] = {}]

Commit(s) ==
    /\ Closed(s)
    /\ committed' = (committed \ Replaced(s)) \cup Added(s)

Rollback(s) == Closed(s) /\ UNCHANGED committed

SINext == \E s \in Session : Begin(s) \/ Write(s) \/ Commit(s) \/ Rollback(s)

SISpec == SIInit /\ [][SINext]_siVars

\* First updater wins: what an open transaction has replaced is still there
\* for it to take away, and no other open transaction takes it away as well.
FirstUpdaterWins ==
    \A s \in open :
        /\ Replaced(s) \subseteq committed
        /\ \A o \in open \ {s} : Replaced(s) \cap Replaced(o) = {}
=============================================================================
