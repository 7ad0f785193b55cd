----------------------- MODULE StrictTwoPhaseLocking ----------------------
(***************************************************************************)
(* What the lock manager promises, without queues, indexes, time-outs or a *)
(* wait-for graph: the locks of a session only grow, one at a time, until  *)
(* the session ends its transaction; then they all go in one step, in      *)
(* which others may take what became free.  At no time do two sessions     *)
(* hold a resource together unless both hold it SHARED.                    *)
(***************************************************************************)
CONSTANTS Tx, Res

VARIABLE granted

Modes   == {"S", "X"}
Request == [tx : Tx, mode : Modes]

Together(G) == \A g, h \in G : g # h => g.mode = "S" /\ h.mode = "S"

Init == granted = [r \in Res |-> {}]

\* t becomes a holder of one more resource.
Take(t) ==
    \E r \in Res, m \in Modes :
        /\ granted' = [granted EXCEPT ![r] = @ \cup {[tx |-> t, mode |-> m]}]
        /\ Together(granted'[r])

\* t gives up everything; nobody else loses anything, and each of the others
\* gains at most the one lock its thread is waiting for.
End(t) ==
    LET gained(r) == granted'[r] \ granted[r]
    IN  /\ granted' \in [Res -> SUBSET Request]
        /\ \A r \in Res :
              /\ {g \in granted[r] : g.tx # t} \subseteq granted'[r]
              /\ \A g \in granted'[r] : g.tx # t
              /\ Together(granted'[r])
        /\ \A r, s \in Res : \A g \in gained(r), h \in gained(s) :
              g.tx = h.tx => r = s /\ g = h

Next == \E t \in Tx : Take(t) \/ End(t)

Spec == Init /\ [][Next]_granted
=============================================================================
