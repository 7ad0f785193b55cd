---------------------------- MODULE LockManager ----------------------------
(***************************************************************************)
(* The lock manager of src/src/lock.cpp: a table of lock heads, each with  *)
(* its holders and a FIFO wait queue, two reverse indexes, a wait-for      *)
(* graph searched before a caller goes to sleep, and one condition         *)
(* variable.  Every entry point runs under one mutex, so each action below *)
(* is one critical section; a caller asleep in cv_.wait is a thread whose  *)
(* call[t] is set, and it runs again in a later critical section.          *)
(*                                                                         *)
(* A member of Tx is a session: it is driven by one thread, and stands for *)
(* whichever transaction that session has open.                            *)
(***************************************************************************)
EXTENDS Naturals, Sequences, FiniteSets

CONSTANTS
    Tx,             \* sessions that take locks
    Res,            \* lockable rows and relations
    None,           \* no resource, no call
    Killable,       \* sessions that another thread may release while they wait
    UpgradeWaits    \* kinds of wait with which a holder of S may ask for X

Modes   == {"S", "X"}
Waits   == {"timed", "forever"}
Request == [tx : Tx, mode : Modes]
Call    == [res : Res, mode : Modes, wait : Waits]

ASSUME ConstantsOK ==
    /\ None \notin Res \cup Call
    /\ Killable \subseteq Tx
    /\ UpgradeWaits \subseteq Waits

VARIABLES
    granted,    \* granted_list of every lock head
    queue,      \* wait_queue of every lock head
    held,       \* held_by_tx_
    waitingOn,  \* waiting_on_
    call,       \* the acquire() a session's thread is asleep in
    raised      \* sessions whose acquire() threw DeadlockException

vars == <<granted, queue, held, waitingOn, call, raised>>

TypeOK ==
    /\ granted   \in [Res -> SUBSET Request]
    /\ queue     \in [Res -> Seq(Request)]
    /\ held      \in [Tx -> SUBSET Res]
    /\ waitingOn \in [Tx -> Res \cup {None}]
    /\ call      \in [Tx -> Call \cup {None}]
    /\ raised    \in SUBSET Tx

Init ==
    /\ granted   = [r \in Res |-> {}]
    /\ queue     = [r \in Res |-> <<>>]
    /\ held      = [t \in Tx |-> {}]
    /\ waitingOn = [t \in Tx |-> None]
    /\ call      = [t \in Tx |-> None]
    /\ raised    = {}

----------------------------------------------------------------------------
(* Lock heads and the wait-for graph. *)

\* Mutant of Compatible: the modes of the holders are not looked at.
CompatibleUnchecked(G, mode) == G = {} \/ mode = "S"

\* LockHead::is_compatible against the holders G.
Compatible(G, mode) ==
    \/ G = {}
    \/ mode = "S" /\ \A g \in G : g.mode = "S"

\* LockHead::is_held_by.
HeldBy(t, r, mode) ==
    \E g \in granted[r] : g.tx = t /\ (mode = "S" \/ g.mode = "X")

TxsOf(G)    == {g.tx : g \in G}
InQueue(q)  == {q[i].tx : i \in DOMAIN q}
Distinct(q) == \A i, j \in DOMAIN q : q[i].tx = q[j].tx => i = j

\* build_wait_for_graph for the holders G and the queues Q of every head.
WaitForGraph(G, Q) ==
    [t \in Tx |->
        {h \in Tx \ {t} : \E r \in Res : t \in InQueue(Q[r]) /\ h \in TxsOf(G[r])}]

\* Mutants of CheckDeadlock: a holder that waits for others too is passed over;
\* being waited for is taken for being on a cycle.
CheckDeadlockNarrow(t, graph) == \E u \in graph[t] : graph[u] = {t}
CheckDeadlockHasty(t, graph)  == \E u \in Tx : t \in graph[u]

\* check_deadlock: the depth-first search from t meets a cycle, that is, t lies
\* in a set of transactions each of which waits for another one of the set.
CheckDeadlock(t, graph) ==
    \E S \in SUBSET Tx : t \in S /\ \A u \in S : graph[u] \cap S # {}

\* Mutant of Wakes: a release promotes nobody.
WakesNobody(G, q, n) == n = 0

\* wake_up_waiters at one head: its loop promotes the first n requests of q,
\* each compatible with the holders it finds, and stops at the first that is not.
Wakes(G, q, n) ==
    LET holders(i) == G \cup {q[k] : k \in 1..i}
    IN  /\ n \in 0..Len(q)
        /\ \A i \in 1..n : Compatible(holders(i - 1), q[i].mode)
        /\ n < Len(q) => ~Compatible(holders(n), q[n + 1].mode)

\* Mutant of Without: the front is popped, whoever it is.
WithoutFront(q, t) == IF q = <<>> THEN q ELSE Tail(q)

\* q without the request of t: both timing out and release_all erase the first.
Without(q, t) ==
    IF t \in InQueue(q)
    THEN LET i == CHOOSE i \in DOMAIN q : q[i].tx = t
         IN  SubSeq(q, 1, i - 1) \o SubSeq(q, i + 1, Len(q))
    ELSE q

----------------------------------------------------------------------------
(* acquire().  A lock already held, and a refused try-lock, change nothing. *)

\* What a session may ask for: it is not asleep and not a deadlock victim, it
\* does not already hold enough, and an upgrade only waits as UpgradeWaits says.
MayRequest(t, r, mode) ==
    /\ call[t] = None
    /\ t \notin raised
    /\ ~HeldBy(t, r, mode)

\* Mutant of CanGrant: requests that queued earlier are overtaken.
CanGrantBarging(r, mode) == Compatible(granted[r], mode)

CanGrant(r, mode) == Compatible(granted[r], mode) /\ queue[r] = <<>>

\* Mutant of AcquireAtOnce: the index gets the resource t last waited for.
AcquireAtOnceStale(t, r, mode) ==
    /\ MayRequest(t, r, mode)
    /\ CanGrant(r, mode)
    /\ granted' = [granted EXCEPT ![r] = @ \cup {[tx |-> t, mode |-> mode]}]
    /\ held' = [held EXCEPT ![t] = @ \cup {waitingOn[t]}]
    /\ UNCHANGED <<queue, waitingOn, call, raised>>

AcquireAtOnce(t, r, mode) ==
    /\ MayRequest(t, r, mode)
    /\ CanGrant(r, mode)
    /\ granted' = [granted EXCEPT ![r] = @ \cup {[tx |-> t, mode |-> mode]}]
    /\ held' = [held EXCEPT ![t] = @ \cup {r}]
    /\ UNCHANGED <<queue, waitingOn, call, raised>>

Enqueued(t, r, mode) ==
    [queue EXCEPT ![r] = Append(@, [tx |-> t, mode |-> mode])]

AcquireWaits(t, r, mode, wait) ==
    /\ MayRequest(t, r, mode)
    /\ ~CanGrant(r, mode)
    /\ r \in held[t] => wait \in UpgradeWaits
    /\ ~CheckDeadlock(t, WaitForGraph(granted, Enqueued(t, r, mode)))
    /\ queue' = Enqueued(t, r, mode)
    /\ waitingOn' = [waitingOn EXCEPT ![t] = r]
    /\ call' = [call EXCEPT ![t] = [res |-> r, mode |-> mode, wait |-> wait]]
    /\ UNCHANGED <<granted, held, raised>>

\* The request is taken out of the queue again and the exception is thrown.
AcquireDeadlocks(t, r, mode) ==
    /\ MayRequest(t, r, mode)
    /\ ~CanGrant(r, mode)
    /\ r \in held[t] => UpgradeWaits # {}
    /\ CheckDeadlock(t, WaitForGraph(granted, Enqueued(t, r, mode)))
    /\ raised' = raised \cup {t}
    /\ UNCHANGED <<granted, queue, held, waitingOn, call>>

\* Mutant of WakeGranted: holding the resource in any mode ends the wait.
WakeGrantedAnyMode(t) ==
    /\ call[t] # None
    /\ HeldBy(t, call[t].res, "S")
    /\ call' = [call EXCEPT ![t] = None]
    /\ UNCHANGED <<granted, queue, held, waitingOn, raised>>

\* The sleeping thread finds its predicate true and acquire() returns true.
WakeGranted(t) ==
    /\ call[t] # None
    /\ HeldBy(t, call[t].res, call[t].mode)
    /\ call' = [call EXCEPT ![t] = None]
    /\ UNCHANGED <<granted, queue, held, waitingOn, raised>>

\* wait_for expired with the predicate false.  The request leaves the queue, if
\* it is still there; the requests behind it are not looked at.
WakeTimedOut(t) ==
    /\ call[t] # None
    /\ call[t].wait = "timed"
    /\ ~HeldBy(t, call[t].res, call[t].mode)
    /\ queue' = [queue EXCEPT ![call[t].res] = Without(@, t)]
    /\ waitingOn' = [waitingOn EXCEPT ![t] = None]
    /\ call' = [call EXCEPT ![t] = None]
    /\ UNCHANGED <<granted, held, raised>>

----------------------------------------------------------------------------
(* release_all(), at commit or rollback. *)

\* Mutant of HoldersLeft: only the EXCLUSIVE lock is given up.
HoldersLeftShared(t, r) == {g \in granted[r] : g.tx # t \/ g.mode = "S"}

\* Step 1: the holders of r that are left.
HoldersLeft(t, r) ==
    IF r \in held[t] THEN {g \in granted[r] : g.tx # t} ELSE granted[r]

\* Step 2: the queue of r that is left, if t waits there.
QueueLeft(t, r) ==
    IF waitingOn[t] = r THEN Without(queue[r], t) ELSE queue[r]

\* The requests promoted at r when wake_up_waiters promotes the first n.
Woken(t, r, n) == {QueueLeft(t, r)[i] : i \in 1..n}

\* All four steps.  No queue is longer than Tx: a session waits in one place.
ReleaseAll(t) ==
    /\ call[t] = None \/ t \in Killable
    /\ \E n \in [Res -> 0..Cardinality(Tx)] :
          LET awake(u) == {r \in Res : u \in TxsOf(Woken(t, r, n[r]))}
          IN  /\ \A r \in Res : Wakes(HoldersLeft(t, r), QueueLeft(t, r), n[r])
              /\ granted' = [r \in Res |-> HoldersLeft(t, r) \cup Woken(t, r, n[r])]
              /\ queue' = [r \in Res |->
                            SubSeq(QueueLeft(t, r), n[r] + 1, Len(QueueLeft(t, r)))]
              /\ held' = [u \in Tx |->
                            IF u = t THEN awake(u) ELSE held[u] \cup awake(u)]
              /\ waitingOn' = [u \in Tx |->
                                 IF u = t \/ awake(u) # {} THEN None ELSE waitingOn[u]]
    /\ raised' = raised \ {t}
    /\ UNCHANGED call

----------------------------------------------------------------------------
Next ==
    \E t \in Tx :
        \/ \E r \in Res, m \in Modes :
              \/ AcquireAtOnce(t, r, m)
              \/ \E w \in Waits : AcquireWaits(t, r, m, w)
              \/ AcquireDeadlocks(t, r, m)
        \/ WakeGranted(t)
        \/ WakeTimedOut(t)
        \/ ReleaseAll(t)

Spec == Init /\ [][Next]_vars

\* A thread whose wait is over is scheduled (notify_all or its timer woke it),
\* and every transaction ends some time after its last acquire() returned:
\* strong, for it may still make any number of timed attempts before it ends.
Fairness ==
    \A t \in Tx :
        /\ WF_vars(WakeGranted(t))
        /\ WF_vars(WakeTimedOut(t))
        /\ SF_vars(call[t] = None /\ ReleaseAll(t))

FairSpec == Spec /\ Fairness

----------------------------------------------------------------------------
(* Correctness. *)

Together(G) == \A g, h \in G : g # h => g.mode = "S" /\ h.mode = "S"

\* Two sessions hold a resource together only if both hold it SHARED: the lock
\* compatibility matrix, through immediate grants and promotions alike.
HoldersCompatible == \A r \in Res : Together(granted[r])

\* The reverse indexes and the table agree, through every grant, promotion,
\* time-out and release: release_all finds by them every lock and the one
\* request of the session it ends, and a request is queued once.
IndexesAgree ==
    \A t \in Tx, r \in Res :
        /\ r \in held[t] <=> t \in TxsOf(granted[r])
        /\ waitingOn[t] = r <=> t \in InQueue(queue[r])
        /\ Distinct(queue[r])

\* A thread asleep in acquire() is queued for what it asked or has been granted
\* it, never both, unless another thread released its session: a grant never
\* misses its thread, and nothing is granted behind the back of one that gave up.
SleepersKnown ==
    \A t \in Tx :
        /\ waitingOn[t] # None =>
              /\ call[t] # None /\ call[t].res = waitingOn[t]
              /\ ~HeldBy(t, call[t].res, call[t].mode)
        /\ (call[t] # None /\ waitingOn[t] = None /\ t \notin Killable)
              => HeldBy(t, call[t].res, call[t].mode)

\* No request is left behind in a queue when nobody holds the resource: there
\* would be no release_all left to promote it.
NoOrphanedQueue == \A r \in Res : queue[r] # <<>> => granted[r] # {}

\* The search made when a request is queued is enough: no cycle of transactions
\* waiting for each other ever stands in the wait-for graph, although grants
\* and promotions add edges to it without a search.
NoWaitCycle ==
    ~ \E S \in SUBSET Tx :
         S # {} /\ \A u \in S : WaitForGraph(granted, queue)[u] \cap S # {}

\* The session that gets the exception waits for itself: it can be reached from
\* the holders it would wait for, and is no bystander of another cycle.
VictimOnCycle ==
    [][\A t \in raised' \ raised : \E r \in Res, m \in Modes :
          LET graph == WaitForGraph(granted, Enqueued(t, r, m))
          IN  /\ ~CanGrant(r, m)
              /\ \A S \in SUBSET Tx :
                    graph[t] \subseteq S /\ (\A u \in S : graph[u] \subseteq S)
                       => t \in S]_vars

\* The lock manager implements strict two-phase locking: through every grant,
\* promotion, time-out and victim, a session loses no lock before its own
\* release_all, loses all of them then, and wakes with one new lock at most.
TwoPL == INSTANCE StrictTwoPhaseLocking
ImplementsTwoPL == TwoPL!Spec

\* First come, first served: nobody becomes a holder of a resource past a
\* request that was queued there before and is still queued.
FirstComeFirstServed ==
    [][\A r \in Res : \A g \in granted'[r] \ granted[r] :
          \A i \in DOMAIN queue[r] :
             queue[r][i].tx \in InQueue(queue'[r]) =>
                \E j \in 1..(i - 1) : queue[r][j] = g]_vars

\* Every sleeping acquire() returns: no writer is starved by later readers, and
\* no wake-up is lost, whatever the others time out of or are refused.
EverySleeperWakes ==
    \A t \in Tx \ Killable : call[t] # None ~> call[t] = None

\* A request that could be granted is not left asleep: the request at the front
\* of a queue conflicts with a holder (the compatibility matrix of lock.h:98).
FrontIsBlocked ==
    \A r \in Res : queue[r] # <<>> => ~Compatible(granted[r], Head(queue[r]).mode)
=============================================================================
