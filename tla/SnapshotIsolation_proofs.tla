--------------------- MODULE SnapshotIsolation_proofs ---------------------
(* What snapshot isolation, as SnapshotIsolation.tla states it, is worth: of  *)
(* two transactions that replace one row one fails, for any sessions and rows. *)
EXTENDS SnapshotIsolation, TLAPS

SIInv == SITypeOK /\ FirstUpdaterWins

LEMMA InitInv == SIInit => SIInv
  BY DEF SIInit, SIInv, SITypeOK, FirstUpdaterWins

LEMMA BeginInv ==
    ASSUME SIInv, NEW s \in Session, Begin(s)
    PROVE  SIInv'
<1>1. /\ open' = open \cup {s} /\ committed' = committed
      /\ base' = [base EXCEPT ![s] = committed] /\ view' = [view EXCEPT ![s] = committed]
  BY DEF Begin
<1>2. SITypeOK'
  BY <1>1 DEF SIInv, SITypeOK
<1>3. Replaced(s)' = {}
  BY <1>1 DEF Replaced, SIInv, SITypeOK
<1>4. \A o \in open \ {s} : Replaced(o)' = Replaced(o)
  BY <1>1 DEF Replaced, SIInv, SITypeOK
<1>5. FirstUpdaterWins'
  <2> SUFFICES ASSUME NEW o \in open'
               PROVE  /\ Replaced(o)' \subseteq committed'
                      /\ \A p \in open' \ {o} : Replaced(o)' \cap Replaced(p)' = {}
    BY DEF FirstUpdaterWins
  <2>1. CASE o = s
    BY <1>3, <2>1
  <2>2. CASE o # s
    <3>1. o \in open /\ Replaced(o)' = Replaced(o)
      BY <1>1, <1>4, <2>2
    <3>2. ASSUME NEW p \in open' \ {o} PROVE Replaced(o)' \cap Replaced(p)' = {}
      BY <1>1, <1>3, <1>4, <3>1, <3>2 DEF SIInv, FirstUpdaterWins
    <3> QED BY <1>1, <3>1, <3>2 DEF SIInv, FirstUpdaterWins
  <2> QED BY <2>1, <2>2
<1> QED BY <1>2, <1>5 DEF SIInv

\* What s takes out of the table now is in it, and nobody else takes it out.
LEMMA WriteInv ==
    ASSUME SIInv, NEW s \in Session, Write(s)
    PROVE  SIInv'
<1>1. PICK old \in SUBSET view[s], new \in Row :
         Free(s, old) /\ view' = [view EXCEPT ![s] = (@ \ old) \cup {new}]
  BY DEF Write
<1>2. open' = open /\ committed' = committed /\ base' = base /\ s \in open
  BY DEF Write
<1>3. SITypeOK'
  BY <1>1, <1>2 DEF SIInv, SITypeOK
<1>4. Replaced(s)' \subseteq Replaced(s) \cup (old \ Added(s))
  BY <1>1, <1>2 DEF Replaced, Added, SIInv, SITypeOK
<1>5. \A o \in open \ {s} : Replaced(o)' = Replaced(o)
  BY <1>1, <1>2 DEF Replaced, SIInv, SITypeOK
<1>6. Replaced(s)' \subseteq committed
  BY <1>1, <1>2, <1>4 DEF Free, SIInv, FirstUpdaterWins
<1>7. \A o \in open \ {s} : Replaced(s)' \cap Replaced(o)' = {}
  BY <1>1, <1>2, <1>4, <1>5 DEF Free, SIInv, FirstUpdaterWins
<1>8. FirstUpdaterWins'
  <2> SUFFICES ASSUME NEW o \in open
               PROVE  /\ Replaced(o)' \subseteq committed
                      /\ \A p \in open \ {o} : Replaced(o)' \cap Replaced(p)' = {}
    BY <1>2 DEF FirstUpdaterWins
  <2>1. CASE o = s
    BY <1>6, <1>7, <2>1
  <2>2. CASE o # s
    <3>1. Replaced(o)' \subseteq committed
      BY <1>5, <2>2 DEF SIInv, FirstUpdaterWins
    <3>2. ASSUME NEW p \in open \ {o} PROVE Replaced(o)' \cap Replaced(p)' = {}
      BY <1>5, <1>7, <2>2 DEF SIInv, FirstUpdaterWins
    <3> QED BY <3>1, <3>2
  <2> QED BY <2>1, <2>2
<1> QED BY <1>3, <1>8 DEF SIInv

\* Who closes has nothing replaced any more; what the others have replaced is still
\* there if what s takes out, if anything, is something else.
LEMMA ClosedInv ==
    ASSUME SIInv, NEW s \in Session, Closed(s), committed' \in SUBSET Row,
           committed \ Replaced(s) \subseteq committed'
    PROVE  SIInv'
<1>1. /\ s \in open /\ open' = open \ {s}
      /\ base' = [base EXCEPT ![s] = {}] /\ view' = [view EXCEPT ![s] = {}]
  BY DEF Closed
<1>2. SITypeOK'
  BY <1>1 DEF SIInv, SITypeOK
<1>3. \A o \in open \ {s} : Replaced(o)' = Replaced(o)
  BY <1>1 DEF Replaced, SIInv, SITypeOK
<1>4. FirstUpdaterWins'
  <2> SUFFICES ASSUME NEW o \in open \ {s}
               PROVE  /\ Replaced(o)' \subseteq committed'
                      /\ \A p \in (open \ {s}) \ {o} : Replaced(o)' \cap Replaced(p)' = {}
    BY <1>1 DEF FirstUpdaterWins
  <2>1. Replaced(o) \subseteq committed /\ Replaced(o) \cap Replaced(s) = {}
    BY <1>1 DEF SIInv, FirstUpdaterWins
  <2>2. Replaced(o)' \subseteq committed'
    BY <1>3, <2>1
  <2>3. \A p \in (open \ {s}) \ {o} : Replaced(o)' \cap Replaced(p)' = {}
    BY <1>3 DEF SIInv, FirstUpdaterWins
  <2> QED BY <2>2, <2>3
<1> QED BY <1>2, <1>4 DEF SIInv

LEMMA NextInv == SIInv /\ [SINext]_siVars => SIInv'
<1> SUFFICES ASSUME SIInv, [SINext]_siVars PROVE SIInv'
  OBVIOUS
<1>1. ASSUME NEW s \in Session, Begin(s) PROVE SIInv'
  BY <1>1, BeginInv
<1>2. ASSUME NEW s \in Session, Write(s) PROVE SIInv'
  BY <1>2, WriteInv
<1>3. ASSUME NEW s \in Session, Commit(s) PROVE SIInv'
  <2>1. Closed(s) /\ committed' = (committed \ Replaced(s)) \cup Added(s)
    BY <1>3 DEF Commit
  <2>2. committed' \in SUBSET Row
    BY <2>1 DEF Added, SIInv, SITypeOK
  <2> QED BY <2>1, <2>2, ClosedInv
<1>4. ASSUME NEW s \in Session, Rollback(s) PROVE SIInv'
  <2>1. Closed(s) /\ committed' = committed
    BY <1>4 DEF Rollback
  <2> QED BY <2>1, ClosedInv DEF SIInv, SITypeOK
<1>5. ASSUME UNCHANGED siVars PROVE SIInv'
  BY <1>5 DEF SIInv, SITypeOK, FirstUpdaterWins, Replaced, siVars
<1> QED BY <1>1, <1>2, <1>3, <1>4, <1>5 DEF SINext

\* Whatever implements SnapshotIsolation loses no update: what an open transaction
\* has replaced is still in the table for it to take away, and nobody else takes it
\* away as well (engine.cpp:294-296).
THEOREM SpecFirstUpdaterWins == SISpec => []FirstUpdaterWins
<1>1. SIInv => FirstUpdaterWins
  BY DEF SIInv
<1> QED BY <1>1, InitInv, NextInv, PTL DEF SISpec
=============================================================================
