--------------------------- MODULE Storage_proofs ---------------------------
(* Theorems about what stands between statements and files: the buffer pool,  *)
(* the commit log, the free space map and the TOAST file.                      *)
EXTENDS BufferPool, CommitLog, FreeSpaceMap, Toast, FiniteSetTheorems, SequenceTheorems, TLAPS

FrameRecord == [page : FilePage \cup {Nothing}, pins : 0..Cardinality(Client),
                dirty : BOOLEAN, usage : 0..MaxUsage, data : Data]
HandleRecord == [page : FilePage \cup {Nothing}, dirty : BOOLEAN]

\* The frame f is on a list; the clients whose handle h[c] is on the page p.
On(list, f) == \E i \in DOMAIN list : list[i] = f
Pinning(h, p) == {c \in Client : h[c].page = p} \ {c \in Client : h[c].page = Nothing}

InFree(f) == On(free, f)

\* The free list has each frame once, and what is on it holds no page.
FreeOK ==
    /\ free \in Seq(Frame)
    /\ \A i, j \in DOMAIN free : free[i] = free[j] => i = j
    /\ \A f \in Frame : InFree(f) => frames[f].page = Nothing

\* Handles lead to pages that are in the pool, and those to pages of the file.
HandlesOK ==
    /\ \A c \in Client : handle[c].page # Nothing => Resident(handle[c].page)
    /\ \A c \in Client : handle[c].page = Nothing => ~handle[c].dirty
    /\ \A p \in FilePage : Resident(p) => p < size

Marked(p) == \E c \in Client : handle[c].page = p /\ handle[c].dirty

\* A clean frame is as the file, unless somebody has just changed it and has not yet
\* given it back.
CleanOK ==
    \A p \in FilePage : Resident(p) =>
        frames[table[p]].dirty \/ frames[table[p]].data = file[p] \/ Marked(p)

PoolInv == PoolTypeOK /\ PinsAccounted /\ FreeOK /\ HandlesOK /\ CleanOK

----------------------------------------------------------------------------
(* Pages, frames and handles. *)

LEMMA PinningIs ==
    ASSUME NEW h, NEW p
    PROVE  /\ IsFiniteSet(Pinning(h, p)) /\ Cardinality(Pinning(h, p)) \in 0..Cardinality(Client)
           /\ \A c \in Client : c \in Pinning(h, p) <=> h[c].page = p /\ p # Nothing
           /\ Pinning(h, p) \subseteq Client
<1>1. Pinning(h, p) \in SUBSET Client
  BY DEF Pinning
<1>2. IsFiniteSet(Client)
  BY PoolConstants
<1>3. IsFiniteSet(Pinning(h, p)) /\ Cardinality(Pinning(h, p)) <= Cardinality(Client)
  BY <1>1, <1>2, FS_Subset
<1>4. Cardinality(Pinning(h, p)) \in Nat /\ Cardinality(Client) \in Nat
  BY <1>2, <1>3, FS_CardinalityType
<1>5. \A c \in Client : c \in Pinning(h, p) <=> h[c].page = p /\ p # Nothing
  BY DEF Pinning
<1> QED BY <1>1, <1>3, <1>4, <1>5

\* Who pins a page after a handle has changed.
LEMMA PinningMore ==
    ASSUME NEW h, NEW g, NEW c \in Client, NEW p, p # Nothing, h[c].page = Nothing, g[c].page = p,
           \A e \in Client : e # c => g[e] = h[e]
    PROVE  /\ Cardinality(Pinning(g, p)) = Cardinality(Pinning(h, p)) + 1
           /\ \A q : q # p => Pinning(g, q) = Pinning(h, q)
<1>1. Pinning(g, p) = Pinning(h, p) \cup {c} /\ c \notin Pinning(h, p)
  BY DEF Pinning
<1>2. IsFiniteSet(Pinning(h, p))
  BY PinningIs
<1>3. Cardinality(Pinning(g, p)) = Cardinality(Pinning(h, p)) + 1
  <2>1. PICK S : S = Pinning(h, p)
    OBVIOUS
  <2>2. IsFiniteSet(S) /\ c \notin S
    BY <1>1, <1>2, <2>1
  <2>3. Cardinality(S \cup {c}) = Cardinality(S) + 1
    BY <2>2, FS_AddElement
  <2> QED BY <1>1, <2>1, <2>3, Zenon
<1>4. \A q : q # p => Pinning(g, q) = Pinning(h, q)
  BY DEF Pinning
<1> QED BY <1>3, <1>4

LEMMA PinningLess ==
    ASSUME NEW h, NEW g, NEW c \in Client, NEW p, p # Nothing, h[c].page = p, g[c].page = Nothing,
           \A e \in Client : e # c => g[e] = h[e]
    PROVE  /\ Cardinality(Pinning(h, p)) = Cardinality(Pinning(g, p)) + 1
           /\ \A q : q # p => Pinning(g, q) = Pinning(h, q)
<1>1. \A e \in Client : e # c => h[e] = g[e]
  OBVIOUS
<1>2. Cardinality(Pinning(h, p)) = Cardinality(Pinning(g, p)) + 1
  BY <1>1, PinningMore
<1>3. \A q : q # p => Pinning(g, q) = Pinning(h, q)
  BY DEF Pinning
<1> QED BY <1>2, <1>3

LEMMA PagesAre ==
    /\ Nothing \notin FilePage /\ Nothing \notin Frame
    /\ FilePage \subseteq Nat /\ Frame \subseteq Nat
    /\ 0 \in Frame /\ Zeroes \in Data /\ Formatted \in Data
    /\ 0 \in 0..Cardinality(Client) /\ 0 \in 0..MaxUsage /\ 1 \in 0..MaxUsage
<1>1. Cardinality(Client) \in Nat
  BY PoolConstants, FS_CardinalityType
<1> QED BY <1>1, PoolConstants DEF FilePage, Frame

\* What the invariant says of the way from a page to its frame and back.
LEMMA Mapped ==
    ASSUME PoolInv
    PROVE  /\ \A p \in FilePage : Resident(p) =>
                  table[p] \in Frame /\ frames[table[p]].page = p /\ ~InFree(table[p])
           /\ \A p, q \in FilePage : Resident(p) /\ table[p] = table[q] => p = q
           /\ \A f \in Frame : frames[f].page # Nothing =>
                  frames[f].page \in FilePage /\ table[frames[f].page] = f /\ Resident(frames[f].page)
           /\ \A f \in Frame : InFree(f) <=> frames[f].page = Nothing
           /\ \A f \in Frame : frames[f].pins = Cardinality(Pinning(handle, frames[f].page))
<1>1. \A p \in FilePage : Resident(p) => table[p] \in Frame /\ frames[table[p]].page = p
  BY DEF PoolInv, PoolTypeOK, PinsAccounted, Resident
<1>2. \A f \in Frame : InFree(f) => frames[f].page = Nothing
  BY DEF PoolInv, FreeOK
<1>3. \A f \in Frame : InFree(f) \/ (frames[f].page # Nothing /\ table[frames[f].page] = f)
  BY DEF PoolInv, PinsAccounted, InFree, On
<1>4. \A f \in Frame : frames[f].page \in FilePage \cup {Nothing}
  BY DEF PoolInv, PoolTypeOK
<1>5. \A f \in Frame : frames[f].page # Nothing =>
         frames[f].page \in FilePage /\ table[frames[f].page] = f /\ Resident(frames[f].page)
  BY <1>2, <1>3, <1>4, PagesAre DEF Resident
<1>6. \A f \in Frame : frames[f].pins = Cardinality(Pinning(handle, frames[f].page))
  BY Zenon DEF PoolInv, PinsAccounted, Pinning, Holders
<1>7. \A p \in FilePage : Resident(p) => ~InFree(table[p])
  BY <1>1, <1>2, PagesAre
<1>8. \A p, q \in FilePage : Resident(p) /\ table[p] = table[q] => p = q
  BY <1>1 DEF Resident
<1> QED BY <1>1, <1>2, <1>3, <1>5, <1>6, <1>7, <1>8

LEMMA Records ==
    ASSUME PoolTypeOK
    PROVE  /\ frames \in [Frame -> FrameRecord]
           /\ handle \in [Client -> HandleRecord]
           /\ file \in [FilePage -> Data] /\ table \in [FilePage -> Frame \cup {Nothing}]
           /\ size \in 0..FilePages /\ hand \in Frame
BY DEF PoolTypeOK, FrameRecord, HandleRecord

LEMMA InitPool == PoolInit => PoolInv
<1> SUFFICES ASSUME PoolInit PROVE PoolInv
  OBVIOUS
<1>1. /\ \A f \in Frame : frames[f] = EmptyFrame
      /\ \A p \in FilePage : table[p] = Nothing /\ ~Resident(p) /\ file[p] = Zeroes
      /\ \A c \in Client : handle[c] = NoHandle
  BY DEF PoolInit, Resident
<1>2. EmptyFrame \in FrameRecord /\ NoHandle \in HandleRecord
  BY PagesAre DEF EmptyFrame, FrameRecord, NoHandle, HandleRecord
<1>3. free = [i \in 1..Frames |-> i - 1] /\ DOMAIN free = 1..Frames /\ Frames \in Nat
  BY PoolConstants DEF PoolInit
<1>4. \A i \in 1..Frames : i - 1 \in Frame /\ free[i] = i - 1
  BY <1>3 DEF Frame
<1>5. free \in [1..Frames -> Frame]
  BY <1>3, <1>4
<1>6. free \in Seq(Frame)
  BY <1>3, <1>5
<1>7. PoolTypeOK
  <2>1. frames \in [Frame -> FrameRecord] /\ handle \in [Client -> HandleRecord]
    BY <1>2 DEF PoolInit
  <2>2. file \in [FilePage -> Data] /\ table \in [FilePage -> Frame \cup {Nothing}]
    BY PagesAre DEF PoolInit
  <2>3. size \in 0..FilePages /\ hand \in Frame
    BY PoolConstants, PagesAre DEF PoolInit, FilePage
  <2> QED BY <2>1, <2>2, <2>3, <1>3, <1>4 DEF PoolTypeOK, FrameRecord, HandleRecord
<1>8. FreeOK
  <2>1. \A i, j \in DOMAIN free : free[i] = free[j] => i = j
    BY <1>3, <1>4
  <2>2. \A f \in Frame : frames[f].page = Nothing
    BY <1>1 DEF EmptyFrame
  <2> QED BY <1>6, <2>1, <2>2 DEF FreeOK
<1>9. PinsAccounted
  <2>1. ASSUME NEW f \in Frame PROVE InFree(f)
    <3>1. f + 1 \in 1..Frames /\ (f + 1) - 1 = f
      BY <1>3 DEF Frame
    <3> QED BY <1>3, <1>4, <3>1 DEF InFree, On
  <2>2. ASSUME NEW f \in Frame
        PROVE  frames[f].pins = Cardinality(Holders(frames[f].page) \ Holders(Nothing))
    <3>1. frames[f].page = Nothing /\ frames[f].pins = 0
      BY <1>1 DEF EmptyFrame
    <3>2. Holders(Nothing) \ Holders(Nothing) = {}
      OBVIOUS
    <3> QED BY <3>1, <3>2, FS_EmptySet
  <2> QED BY <1>1, <2>1, <2>2 DEF PinsAccounted, InFree, On
<1>10. HandlesOK
  BY <1>1 DEF HandlesOK, NoHandle
<1>11. CleanOK
  BY <1>1 DEF CleanOK
<1> QED BY <1>7, <1>8, <1>9, <1>10, <1>11 DEF PoolInv

----------------------------------------------------------------------------
(* The sweep. *)

\* All frames as they were, but for their usage counts.
UsageOnly(fs, gs) ==
    /\ fs \in [Frame -> FrameRecord]
    /\ \A f \in Frame : /\ fs[f].page = gs[f].page /\ fs[f].pins = gs[f].pins
                        /\ fs[f].dirty = gs[f].dirty /\ fs[f].data = gs[f].data

TurnOK(st) ==
    /\ st.hand \in Frame
    /\ UsageOnly(st.frames, frames)
    /\ st.victim # Nothing => st.victim \in Frame /\ frames[st.victim].pins = 0

IsSweep(turn, k) ==
    turn = [i \in 0..k |->
              IF i = 0 THEN [hand |-> hand, frames |-> frames, victim |-> Nothing]
              ELSE IF turn[i - 1].victim # Nothing THEN turn[i - 1] ELSE Swept(turn[i - 1])]

LEMMA LeastOf ==
    ASSUME NEW S \in SUBSET Nat, S # {}
    PROVE  \E m \in S : \A n \in S : m <= n
<1>1. PICK m \in S : \A n \in S : ~(<<n, m>> \in OpToRel(<, Nat))
  BY NatLessThanWellFounded, WFMin
<1>2. ASSUME NEW n \in S, ~(m <= n) PROVE FALSE
  <2>1. <<n, m>> \in OpToRel(<, Nat)
    BY <1>2 DEF OpToRel
  <2> QED BY <1>1, <2>1
<1> QED BY <1>2

\* The function that Sweep is defined by exists.
LEMMA SweepExists ==
    ASSUME NEW k \in Nat
    PROVE  \E turn : IsSweep(turn, k)
<1> DEFINE Bad == {m \in Nat : ~\E turn : IsSweep(turn, m)}
<1>1. SUFFICES ASSUME Bad # {} PROVE FALSE
  OBVIOUS
<1>2. PICK m \in Bad : \A n \in Bad : m <= n
  <2>1. Bad \in SUBSET Nat
    OBVIOUS
  <2> HIDE DEF Bad
  <2> QED BY <1>1, <2>1, LeastOf
<1>3. m # 0
  <2> DEFINE one == [hand |-> hand, frames |-> frames, victim |-> Nothing]
             w == [i \in 0..0 |-> one]
  <2>1. w = [i \in 0..0 |-> IF i = 0 THEN one
                            ELSE IF w[i - 1].victim # Nothing THEN w[i - 1] ELSE Swept(w[i - 1])]
    OBVIOUS
  <2>2. IsSweep(w, 0)
    BY <2>1 DEF IsSweep
  <2> QED BY <1>2, <2>2
<1>4. m \in Nat /\ m - 1 \in Nat /\ m - 1 \notin Bad
  <2>1. m \in Nat /\ m - 1 \in Nat /\ ~(m <= m - 1)
    BY <1>2, <1>3
  <2> HIDE DEF Bad
  <2> QED BY <1>2, <2>1
<1>5. PICK v : IsSweep(v, m - 1)
  BY <1>4
<1> DEFINE from(t, i) == IF i = 0 THEN [hand |-> hand, frames |-> frames, victim |-> Nothing]
                         ELSE IF t[i - 1].victim # Nothing THEN t[i - 1] ELSE Swept(t[i - 1])
           w == [i \in 0..m |-> from(v, i)]
<1>6. \A i \in 0..(m - 1) : w[i] = v[i]
  <2>1. v = [i \in 0..(m - 1) |-> from(v, i)]
    BY <1>5 DEF IsSweep
  <2>2. \A i \in 0..(m - 1) : v[i] = from(v, i) /\ i \in 0..m
    <3> HIDE DEF from
    <3> QED BY <1>4, <2>1
  <2> HIDE DEF from
  <2> QED BY <2>2
<1>7. ASSUME NEW i \in 0..m PROVE from(v, i) = from(w, i)
  <2> HIDE DEF w
  <2>1. CASE i = 0
    BY <2>1
  <2>2. CASE i # 0
    <3>1. i - 1 \in 0..(m - 1)
      BY <1>4, <2>2
    <3>2. v[i - 1] = w[i - 1]
      BY <1>6, <3>1
    <3> QED BY <2>2, <3>2
  <2> QED BY <2>1, <2>2
<1>8. w = [i \in 0..m |-> from(w, i)]
  <2> HIDE DEF from
  <2> QED BY <1>7
<1>9. IsSweep(w, m)
  <2> HIDE DEF w
  <2> QED BY <1>8 DEF IsSweep
<1> QED BY <1>2, <1>9

\* What the turns of the sweep are.
Turns(turn) ==
    /\ Sweep = turn[ScanLimit]
    /\ turn[0] = [hand |-> hand, frames |-> frames, victim |-> Nothing]
    /\ \A i \in 1..ScanLimit :
          turn[i] = IF turn[i - 1].victim # Nothing THEN turn[i - 1] ELSE Swept(turn[i - 1])

LEMMA ScanLimitIs == ScanLimit \in Nat /\ Frames \in Nat /\ Frames # 0 /\ MaxUsage \in Nat
BY PoolConstants DEF ScanLimit

LEMMA SweepIs == \E turn : Turns(turn)
<1> DEFINE v == CHOOSE turn : IsSweep(turn, ScanLimit)
<1>1. \E turn : IsSweep(turn, ScanLimit)
  BY ScanLimitIs, SweepExists
<1>2. IsSweep(v, ScanLimit)
  BY <1>1
<1>3. Sweep = v[ScanLimit]
  BY DEF Sweep, IsSweep
<1> HIDE DEF v
<1> DEFINE from(t, i) == IF i = 0 THEN [hand |-> hand, frames |-> frames, victim |-> Nothing]
                         ELSE IF t[i - 1].victim # Nothing THEN t[i - 1] ELSE Swept(t[i - 1])
<1>4. v = [i \in 0..ScanLimit |-> from(v, i)]
  BY <1>2 DEF IsSweep
<1>5. \A i \in 0..ScanLimit : v[i] = from(v, i)
  <2> HIDE DEF from
  <2> QED BY <1>4
<1>6. 0 \in 0..ScanLimit /\ \A i \in 1..ScanLimit : i \in 0..ScanLimit /\ i # 0
  BY ScanLimitIs
<1>7. v[0] = [hand |-> hand, frames |-> frames, victim |-> Nothing]
  BY <1>5, <1>6
<1>8. ASSUME NEW i \in 1..ScanLimit
      PROVE v[i] = IF v[i - 1].victim # Nothing THEN v[i - 1] ELSE Swept(v[i - 1])
  BY <1>5, <1>6
<1> QED BY <1>3, <1>7, <1>8 DEF Turns

LEMMA NextHand ==
    ASSUME NEW h \in Frame
    PROVE  (h + 1) % Frames = IF h + 1 = Frames THEN 0 ELSE h + 1
<1>1. Frames \in Nat /\ Frames > 0 /\ h \in Nat /\ h + 1 <= Frames
  BY PoolConstants DEF Frame
<1>2. CASE h + 1 = Frames
  BY <1>1, <1>2
<1>3. CASE h + 1 < Frames
  BY <1>1, <1>3
<1> QED BY <1>1, <1>2, <1>3

\* What one turn does, frame by frame.
LEMMA SweptIs ==
    ASSUME PoolTypeOK, NEW st, TurnOK(st)
    PROVE  LET h == st.hand IN
           /\ Swept(st).hand = (IF h + 1 = Frames THEN 0 ELSE h + 1)
           /\ UsageOnly(Swept(st).frames, frames)
           /\ \A f \in Frame : f # h => Swept(st).frames[f].usage = st.frames[f].usage
           /\ frames[h].pins = 0 =>
                 \/ st.frames[h].usage = 0 /\ Swept(st).victim = h
                 \/ st.frames[h].usage > 0 /\ Swept(st).frames[h].usage = st.frames[h].usage - 1
           /\ Swept(st).victim # Nothing => Swept(st).victim = h /\ frames[h].pins = 0
<1> DEFINE h == st.hand
           fs == st.frames
           gs == Swept(st).frames
<1>1. h \in Frame /\ UsageOnly(fs, frames)
  BY DEF TurnOK
<1>2. fs \in [Frame -> FrameRecord] /\ fs[h] \in FrameRecord /\ fs[h].pins = frames[h].pins
  BY <1>1 DEF UsageOnly
<1>3. fs[h].usage \in 0..MaxUsage /\ MaxUsage \in Nat
  BY <1>2, PoolConstants DEF FrameRecord
<1>4. gs = IF fs[h].pins = 0 /\ fs[h].usage > 0 THEN [fs EXCEPT ![h].usage = @ - 1] ELSE fs
  BY DEF Swept
<1>5. Swept(st).victim = IF fs[h].pins = 0 /\ fs[h].usage = 0 THEN h ELSE Nothing
  BY DEF Swept
<1>6. Swept(st).hand = (h + 1) % Frames
  BY DEF Swept
<1>7. Swept(st).hand = (IF h + 1 = Frames THEN 0 ELSE h + 1)
  BY <1>1, <1>6, NextHand
<1> HIDE DEF gs, fs, h
<1>8. /\ UsageOnly(gs, frames)
      /\ \A f \in Frame : f # h => gs[f].usage = fs[f].usage
      /\ fs[h].pins = 0 /\ fs[h].usage > 0 => gs[h].usage = fs[h].usage - 1
  <2>1. CASE fs[h].pins = 0 /\ fs[h].usage > 0
    <3>1. gs = [fs EXCEPT ![h] = [fs[h] EXCEPT !.usage = fs[h].usage - 1]]
      BY <1>4, <2>1
    <3>2. [fs[h] EXCEPT !.usage = fs[h].usage - 1] \in FrameRecord
      <4>1. fs[h].usage - 1 \in 0..MaxUsage
        BY <1>3, <2>1
      <4> QED BY <1>2, <4>1 DEF FrameRecord
    <3>3. gs \in [Frame -> FrameRecord]
      BY <1>1, <1>2, <3>1, <3>2
    <3>4. /\ \A f \in Frame : f # h => gs[f] = fs[f]
          /\ gs[h] = [fs[h] EXCEPT !.usage = fs[h].usage - 1]
      BY <1>1, <1>2, <3>1
    <3>5. /\ gs[h].page = fs[h].page /\ gs[h].pins = fs[h].pins
          /\ gs[h].dirty = fs[h].dirty /\ gs[h].data = fs[h].data
          /\ gs[h].usage = fs[h].usage - 1
      BY <1>2, <3>4 DEF FrameRecord
    <3>6. ASSUME NEW f \in Frame
          PROVE  /\ gs[f].page = frames[f].page /\ gs[f].pins = frames[f].pins
                 /\ gs[f].dirty = frames[f].dirty /\ gs[f].data = frames[f].data
      <4>1. /\ fs[f].page = frames[f].page /\ fs[f].pins = frames[f].pins
            /\ fs[f].dirty = frames[f].dirty /\ fs[f].data = frames[f].data
        BY <1>1 DEF UsageOnly
      <4> QED BY <3>4, <3>5, <4>1
    <3> QED BY <3>3, <3>4, <3>5, <3>6 DEF UsageOnly
  <2>2. CASE ~(fs[h].pins = 0 /\ fs[h].usage > 0)
    BY <1>1, <1>4, <2>2
  <2> QED BY <2>1, <2>2
<1>9. frames[h].pins = 0 =>
         \/ fs[h].usage = 0 /\ Swept(st).victim = h
         \/ fs[h].usage > 0 /\ gs[h].usage = fs[h].usage - 1
  BY <1>2, <1>3, <1>5, <1>8
<1>10. Swept(st).victim # Nothing => Swept(st).victim = h /\ frames[h].pins = 0
  BY <1>2, <1>5
<1> QED BY <1>7, <1>8, <1>9, <1>10 DEF gs, fs, h

LEMMA TurnsOK ==
    ASSUME PoolTypeOK, NEW turn, Turns(turn)
    PROVE  \A i \in 0..ScanLimit : TurnOK(turn[i])
<1> DEFINE Bad == {i \in 0..ScanLimit : ~TurnOK(turn[i])}
<1>1. SUFFICES ASSUME Bad # {} PROVE FALSE
  OBVIOUS
<1>2. PICK i \in Bad : \A j \in Bad : i <= j
  <2>1. Bad \in SUBSET Nat
    BY ScanLimitIs
  <2> HIDE DEF Bad
  <2> QED BY <1>1, <2>1, LeastOf
<1>3. TurnOK(turn[0])
  BY Records, PagesAre DEF Turns, TurnOK, UsageOnly
<1>4. i \in 1..ScanLimit /\ i - 1 \in 0..ScanLimit /\ i - 1 \notin Bad
  <2>1. i \in 1..ScanLimit /\ i - 1 \in 0..ScanLimit /\ ~(i <= i - 1)
    BY <1>2, <1>3, ScanLimitIs
  <2> HIDE DEF Bad
  <2> QED BY <1>2, <2>1
<1>5. TurnOK(turn[i - 1])
  BY <1>4
<1>6. turn[i] = IF turn[i - 1].victim # Nothing THEN turn[i - 1] ELSE Swept(turn[i - 1])
  BY <1>4 DEF Turns
<1>7. TurnOK(Swept(turn[i - 1]))
  <2> DEFINE st == turn[i - 1]
  <2>1. TurnOK(st)
    BY <1>5
  <2> HIDE DEF st
  <2>2. st.hand \in Frame
    BY <2>1 DEF TurnOK
  <2>3. Swept(st).hand \in Frame
    <3>1. Swept(st).hand = (IF st.hand + 1 = Frames THEN 0 ELSE st.hand + 1)
      BY <2>1, SweptIs
    <3> QED BY <2>2, <3>1, PoolConstants DEF Frame
  <2>4. /\ UsageOnly(Swept(st).frames, frames)
        /\ Swept(st).victim # Nothing => Swept(st).victim = st.hand /\ frames[st.hand].pins = 0
    BY <2>1, SweptIs
  <2>5. TurnOK(Swept(st))
    BY <2>2, <2>3, <2>4 DEF TurnOK
  <2> QED BY <2>5 DEF st
<1>8. TurnOK(turn[i])
  BY <1>5, <1>6, <1>7
<1> QED BY <1>2, <1>8

\* Where the sweep ends.
LEMMA SweepOK == PoolTypeOK => TurnOK(Sweep)
<1> SUFFICES ASSUME PoolTypeOK PROVE TurnOK(Sweep)
  OBVIOUS
<1>1. PICK turn : Turns(turn)
  BY SweepIs
<1>2. Sweep = turn[ScanLimit] /\ ScanLimit \in 0..ScanLimit
  BY <1>1, ScanLimitIs DEF Turns
<1> QED BY <1>1, <1>2, TurnsOK

----------------------------------------------------------------------------
(* The sweep finds what there is to find. *)

\* How many turns it is until the sweep takes f, if it takes no other before.
Distance(h, f) == IF f >= h THEN f - h ELSE f - h + Frames
TurnsLeft(st, f) == Frames * st.frames[f].usage + Distance(st.hand, f)

LEMMA OneTurnLess ==
    ASSUME PoolTypeOK, NEW st, TurnOK(st), st.victim = Nothing, NEW f \in Frame, frames[f].pins = 0
    PROVE  /\ TurnsLeft(st, f) \in Nat
           /\ Swept(st).victim # Nothing \/ TurnsLeft(Swept(st), f) = TurnsLeft(st, f) - 1
<1> DEFINE h == st.hand
           u == st.frames[f].usage
           v == Swept(st).frames[f].usage
           k == Swept(st).hand
<1>1. h \in Frame /\ st.frames \in [Frame -> FrameRecord]
  BY DEF TurnOK, UsageOnly
<1>2. u \in Nat
  BY <1>1, PoolConstants DEF FrameRecord
<1>3. k = (IF h + 1 = Frames THEN 0 ELSE h + 1)
  BY SweptIs
<1>4. h # f => v = u
  BY SweptIs
<1>5. h = f => (u = 0 /\ Swept(st).victim = f) \/ (u > 0 /\ v = u - 1)
  BY SweptIs
<1>6. f # Nothing
  BY PagesAre
<1>7. TurnsLeft(st, f) = Frames * u + Distance(h, f)
  BY DEF TurnsLeft
<1>8. TurnsLeft(Swept(st), f) = Frames * v + Distance(k, f)
  BY DEF TurnsLeft
<1> HIDE DEF h, u, v, k
<1>9. Frames \in Nat /\ f \in 0..(Frames - 1) /\ h \in 0..(Frames - 1)
  BY <1>1, PoolConstants DEF Frame
<1>10. Frames * u \in Nat
  BY <1>2, <1>9
<1>11. Distance(h, f) \in Nat
  BY <1>9 DEF Distance
<1>12. TurnsLeft(st, f) \in Nat
  BY <1>7, <1>10, <1>11
<1>13. ASSUME h # f PROVE Distance(k, f) = Distance(h, f) - 1
  BY <1>3, <1>9, <1>13 DEF Distance
<1>14. ASSUME h = f PROVE Distance(k, f) = Frames - 1 /\ Distance(h, f) = 0
  BY <1>3, <1>9, <1>14 DEF Distance
<1>15. CASE h # f
  BY <1>4, <1>7, <1>8, <1>10, <1>11, <1>12, <1>13, <1>15
<1>16. CASE h = f /\ u > 0 /\ v = u - 1
  <2>1. Frames * (u - 1) = Frames * u - Frames
    BY <1>2, <1>9
  <2> QED BY <1>7, <1>8, <1>9, <1>10, <1>12, <1>14, <1>16, <2>1
<1> QED BY <1>5, <1>6, <1>12, <1>15, <1>16

THEOREM SweepFindsVictim == PoolTypeOK => VictimFound
<1> SUFFICES ASSUME PoolTypeOK, NEW f \in Frame, frames[f].pins = 0, Sweep.victim = Nothing
             PROVE  FALSE
  BY DEF VictimFound
<1>1. PICK turn : Turns(turn)
  BY SweepIs
<1> DEFINE left(i) == TurnsLeft(turn[i], f)
           Bad == {i \in 0..ScanLimit : ~(turn[i].victim # Nothing \/ left(i) = left(0) - i)}
<1>2. \A i \in 0..ScanLimit : TurnOK(turn[i])
  BY <1>1, TurnsOK
<1>3. turn[0] = [hand |-> hand, frames |-> frames, victim |-> Nothing]
  BY <1>1 DEF Turns
<1>4. left(0) \in Nat
  <2>1. TurnOK(turn[0]) /\ turn[0].victim = Nothing
    BY <1>2, <1>3, ScanLimitIs
  <2> QED BY <2>1, OneTurnLess
<1>5. left(0) < ScanLimit
  <2>1. left(0) = Frames * frames[f].usage + Distance(hand, f)
    BY <1>3 DEF TurnsLeft
  <2>2. frames[f].usage \in 0..MaxUsage /\ hand \in Frame
    BY Records DEF FrameRecord
  <2>3. Distance(hand, f) \in Nat /\ Distance(hand, f) < Frames
    BY <2>2, PoolConstants DEF Distance, Frame
  <2> DEFINE u == frames[f].usage
  <2>4. Frames * u <= Frames * MaxUsage /\ Frames * u \in Nat /\ Frames * MaxUsage \in Nat
    BY <2>2, ScanLimitIs
  <2>5. ScanLimit = Frames * MaxUsage + Frames + Frames
    BY ScanLimitIs DEF ScanLimit
  <2> HIDE DEF left
  <2> QED BY <2>1, <2>3, <2>4, <2>5, ScanLimitIs
<1>6. Bad = {}
  <2>1. SUFFICES ASSUME Bad # {} PROVE FALSE
    OBVIOUS
  <2>2. PICK i \in Bad : \A j \in Bad : i <= j
    <3>1. Bad \in SUBSET Nat
      BY ScanLimitIs
    <3> HIDE DEF Bad
    <3> QED BY <2>1, <3>1, LeastOf
  <2> HIDE DEF left
  <2>3. 0 \notin Bad
    BY <1>4
  <2>4. i \in 1..ScanLimit /\ i - 1 \in 0..ScanLimit /\ i - 1 \notin Bad
    <3>1. i \in 1..ScanLimit /\ i - 1 \in 0..ScanLimit /\ ~(i <= i - 1)
      BY <2>2, <2>3, ScanLimitIs
    <3> HIDE DEF Bad
    <3> QED BY <2>2, <3>1
  <2>5. turn[i] = IF turn[i - 1].victim # Nothing THEN turn[i - 1] ELSE Swept(turn[i - 1])
    BY <1>1, <2>4 DEF Turns
  <2>6. turn[i - 1].victim # Nothing \/ left(i - 1) = left(0) - (i - 1)
    BY <2>4
  <2>7. CASE turn[i - 1].victim # Nothing
    BY <2>2, <2>5, <2>7
  <2>8. CASE turn[i - 1].victim = Nothing
    <3>1. turn[i] = Swept(turn[i - 1])
      BY <2>5, <2>8
    <3>2. TurnOK(turn[i - 1])
      BY <1>2, <2>4
    <3>3. turn[i].victim # Nothing \/ left(i) = left(i - 1) - 1
      BY <2>8, <3>1, <3>2, OneTurnLess DEF left
    <3>4. turn[i].victim # Nothing \/ left(i) = left(0) - i
      BY <1>4, <2>4, <2>6, <2>8, <3>3
    <3> QED BY <2>2, <3>4
  <2> QED BY <2>7, <2>8
<1>7. ScanLimit \in 0..ScanLimit /\ turn[ScanLimit].victim = Nothing
  BY <1>1, ScanLimitIs DEF Turns
<1>8. left(ScanLimit) = left(0) - ScanLimit
  <2> HIDE DEF left
  <2> QED BY <1>6, <1>7
<1>9. left(ScanLimit) \in Nat
  BY <1>2, <1>7, OneTurnLess
<1> HIDE DEF left
<1> QED BY <1>4, <1>5, <1>8, <1>9, ScanLimitIs

----------------------------------------------------------------------------
(* A page comes into the pool. *)

\* What the two ways to load a page have in common: the frame f that nobody has pinned
\* takes p in, and the page that was in it, if any, goes to the file when it is dirty.
Loads(f, p, d, dirty) ==
    /\ f \in Frame /\ p \in FilePage /\ d \in Data /\ dirty \in BOOLEAN
    /\ ~Resident(p) /\ frames[f].pins = 0
    /\ frames' \in [Frame -> FrameRecord]
    /\ frames'[f] = [page |-> p, pins |-> 1, dirty |-> dirty, usage |-> 1, data |-> d]
    /\ \A g \in Frame : g # f =>
          /\ frames'[g].page = frames[g].page /\ frames'[g].pins = frames[g].pins
          /\ frames'[g].dirty = frames[g].dirty /\ frames'[g].data = frames[g].data
    /\ table' \in [FilePage -> Frame \cup {Nothing}] /\ table'[p] = f
    /\ \A q \in FilePage : q # p => table'[q] = IF table[q] = f THEN Nothing ELSE table[q]
    /\ file' \in [FilePage -> Data]
    /\ \A q \in FilePage :
          file'[q] = IF table[q] = f /\ frames[f].dirty THEN frames[f].data ELSE file[q]
    /\ free' \in Seq(Frame)
    /\ \A i, j \in DOMAIN free' : free'[i] = free'[j] => i = j
    /\ \A g \in Frame : On(free', g) <=> On(free, g) /\ g # f
    /\ hand' \in Frame

\* PinsAccounted of the next state, in the terms of these proofs.
LEMMA AccountedNext ==
    /\ \A p \in FilePage : table'[p] # Nothing => frames'[table'[p]].page = p
    /\ \A f \in Frame : \/ On(free', f)
                        \/ frames'[f].page # Nothing /\ table'[frames'[f].page] = f
    /\ \A f \in Frame : frames'[f].pins = Cardinality(Pinning(handle', frames'[f].page))
    => PinsAccounted'
BY DEF PinsAccounted, Resident, On, Pinning, Holders

LEMMA LoadsKeeps ==
    ASSUME PoolInv, NEW c \in Client, handle[c] = NoHandle, NEW f, NEW p, NEW d, NEW dirty,
           Loads(f, p, d, dirty), Gives(c, p), dirty \/ d = file[p],
           size' \in 0..FilePages, size <= size', p < size'
    PROVE  PoolInv'
<1>1. /\ p \in FilePage /\ f \in Frame /\ p # Nothing /\ f # Nothing
      /\ table[p] = Nothing
  BY PagesAre DEF Loads, Resident
<1>2. /\ handle' \in [Client -> HandleRecord]
      /\ handle'[c] = [page |-> p, dirty |-> FALSE]
      /\ \A e \in Client : e # c => handle'[e] = handle[e]
  <2>1. [page |-> p, dirty |-> FALSE] \in HandleRecord
    BY <1>1 DEF HandleRecord
  <2>2. handle \in [Client -> HandleRecord]
    BY Records DEF PoolInv
  <2> QED BY <2>1, <2>2 DEF Gives
<1>3. handle[c].page = Nothing /\ handle[c].dirty = FALSE
  BY DEF NoHandle
<1>4. /\ Cardinality(Pinning(handle', p)) = Cardinality(Pinning(handle, p)) + 1
      /\ \A q : q # p => Pinning(handle', q) = Pinning(handle, q)
  <2>1. handle'[c].page = p /\ \A e \in Client : e # c => handle'[e] = handle[e]
    BY <1>2
  <2> QED BY <1>1, <1>3, <2>1, PinningMore
<1>5. Pinning(handle, p) = {} /\ Cardinality(Pinning(handle, p)) = 0
  <2>1. \A e \in Client : handle[e].page # p
    BY <1>1 DEF PoolInv, HandlesOK, Resident
  <2>2. Pinning(handle, p) = {}
    BY <2>1 DEF Pinning
  <2> QED BY <2>2, FS_EmptySet
<1>6. \A g \in Frame : frames[g].page # p
  BY <1>1, Mapped DEF Resident
\* The page that leaves is nobody's.
<1>7. \A q \in FilePage : table[q] = f => \A e \in Client : handle[e].page # q
  <2> SUFFICES ASSUME NEW q \in FilePage, table[q] = f, NEW e \in Client, handle[e].page = q
               PROVE  FALSE
    OBVIOUS
  <2>1. frames[f].page = q /\ q # Nothing
    BY <1>1, Mapped, PagesAre DEF Resident
  <2>2. Cardinality(Pinning(handle, q)) = 0
    BY <1>1, <2>1, Mapped DEF Loads
  <2>3. IsFiniteSet(Pinning(handle, q)) /\ e \in Pinning(handle, q)
    BY <2>1, PinningIs
  <2> QED BY <2>2, <2>3, FS_EmptySet
<1>8. \A q \in FilePage : q # p /\ table'[q] # Nothing =>
         /\ table'[q] = table[q] /\ table[q] \in Frame /\ table[q] # f
         /\ frames[table[q]].page = q
  BY <1>1, Mapped DEF Loads, Resident
<1>9. PoolTypeOK'
  <2>1. \A i \in DOMAIN free' : free'[i] \in Frame
    BY DEF Loads
  <2> QED BY <1>2, <2>1 DEF Loads, PoolTypeOK, FrameRecord, HandleRecord
<1>10. PinsAccounted'
  <2>1. ASSUME NEW q \in FilePage, table'[q] # Nothing PROVE frames'[table'[q]].page = q
    <3>1. CASE q = p
      BY <3>1 DEF Loads
    <3>2. CASE q # p
      BY <1>8, <2>1, <3>2 DEF Loads
    <3> QED BY <3>1, <3>2
  <2>2. ASSUME NEW g \in Frame
        PROVE  On(free', g) \/ (frames'[g].page # Nothing /\ table'[frames'[g].page] = g)
    <3>1. CASE g = f
      BY <1>1, <3>1 DEF Loads
    <3>2. CASE g # f /\ On(free, g)
      BY <3>2 DEF Loads
    <3>3. CASE g # f /\ ~On(free, g)
      <4>1. PICK q \in FilePage : q = frames[g].page /\ table[q] = g /\ q # Nothing
        BY <3>3, Mapped, PagesAre DEF InFree
      <4>2. frames'[g].page = q /\ q # p
        BY <1>6, <3>3, <4>1 DEF Loads
      <4>3. table'[q] = g
        BY <3>3, <4>1, <4>2 DEF Loads
      <4> QED BY <4>1, <4>2, <4>3
    <3> QED BY <3>1, <3>2, <3>3
  <2>3. ASSUME NEW g \in Frame
        PROVE  frames'[g].pins = Cardinality(Pinning(handle', frames'[g].page))
    <3>1. CASE g = f
      <4>1. frames'[g].page = p /\ frames'[g].pins = 1
        BY <3>1 DEF Loads
      <4> QED BY <1>4, <1>5, <4>1
    <3>2. CASE g # f
      <4>1. frames'[g].page = frames[g].page /\ frames'[g].pins = frames[g].pins
        BY <3>2 DEF Loads
      <4>2. frames[g].pins = Cardinality(Pinning(handle, frames[g].page))
        BY Mapped
      <4> QED BY <1>4, <1>6, <4>1, <4>2
    <3> QED BY <3>1, <3>2
  <2> QED BY <2>1, <2>2, <2>3, AccountedNext
<1>11. FreeOK'
  <2>1. ASSUME NEW g \in Frame, On(free', g) PROVE frames'[g].page = Nothing
    BY <2>1, Mapped DEF Loads, InFree
  <2>2. free' \in Seq(Frame) /\ \A i, j \in DOMAIN free' : free'[i] = free'[j] => i = j
    BY DEF Loads
  <2> QED BY <2>1, <2>2 DEF FreeOK, InFree
<1>12. HandlesOK'
  <2>1. ASSUME NEW e \in Client, handle'[e].page # Nothing PROVE table'[handle'[e].page] # Nothing
    <3>1. CASE e = c
      BY <1>1, <1>2, <3>1 DEF Loads
    <3>2. CASE e # c
      <4>1. PICK q \in FilePage : q = handle[e].page /\ handle'[e].page = q
        BY <1>2, <2>1, <3>2, Records DEF PoolInv, HandleRecord
      <4>2. table[q] # Nothing /\ q # p /\ table[q] # f
        BY <1>1, <1>2, <1>7, <2>1, <3>2, <4>1 DEF PoolInv, HandlesOK, Resident
      <4> QED BY <4>1, <4>2 DEF Loads
    <3> QED BY <3>1, <3>2
  <2>2. ASSUME NEW e \in Client, handle'[e].page = Nothing PROVE ~handle'[e].dirty
    BY <1>1, <1>2, <2>2 DEF PoolInv, HandlesOK
  <2>3. ASSUME NEW q \in FilePage, table'[q] # Nothing PROVE q < size'
    <3>1. CASE q = p
      BY <3>1
    <3>2. CASE q # p
      <4>1. q < size
        BY <1>8, <2>3, <3>2 DEF PoolInv, HandlesOK, Resident
      <4>2. size \in 0..FilePages /\ q \in Nat /\ FilePages \in Nat
        BY PagesAre, PoolConstants, Records DEF PoolInv
      <4> QED BY <4>1, <4>2
    <3> QED BY <3>1, <3>2
  <2> QED BY <2>1, <2>2, <2>3 DEF HandlesOK, Resident
<1>13. CleanOK'
  <2> SUFFICES ASSUME NEW q \in FilePage, table'[q] # Nothing
               PROVE  \/ frames'[table'[q]].dirty \/ frames'[table'[q]].data = file'[q]
                      \/ \E e \in Client : handle'[e].page = q /\ handle'[e].dirty
    BY DEF CleanOK, Resident, Marked
  <2>1. CASE q = p
    <3>1. file'[p] = file[p] /\ frames'[f].dirty = dirty /\ frames'[f].data = d
      BY <1>1 DEF Loads
    <3> QED BY <2>1, <3>1 DEF Loads
  <2>2. CASE q # p
    <3>1. table'[q] = table[q] /\ table[q] \in Frame /\ table[q] # f /\ table[q] # Nothing
      BY <1>8, <2>2, PagesAre
    <3>2. /\ frames'[table[q]].dirty = frames[table[q]].dirty
          /\ frames'[table[q]].data = frames[table[q]].data
          /\ file'[q] = file[q]
      BY <3>1 DEF Loads
    <3>3. frames[table[q]].dirty \/ frames[table[q]].data = file[q] \/ Marked(q)
      BY <3>1 DEF PoolInv, CleanOK, Resident
    <3>4. ASSUME Marked(q) PROVE \E e \in Client : handle'[e].page = q /\ handle'[e].dirty
      <4>1. PICK e \in Client : handle[e].page = q /\ handle[e].dirty
        BY <3>4 DEF Marked
      <4> QED BY <1>2, <1>3, <4>1
    <3> QED BY <3>1, <3>2, <3>3, <3>4
  <2> QED BY <2>1, <2>2
<1> QED BY <1>9, <1>10, <1>11, <1>12, <1>13 DEF PoolInv

LEMMA SomeClient ==
    ASSUME NEW c \in Client
    PROVE  1 \in 0..Cardinality(Client)
<1>1. IsFiniteSet(Client) /\ {c} \in SUBSET Client /\ c \notin {}
  BY PoolConstants
<1>2. Cardinality({c}) <= Cardinality(Client) /\ Cardinality(Client) \in Nat
  BY <1>1, FS_Subset, FS_CardinalityType
<1>3. {c} = {} \cup {c} /\ IsFiniteSet({}) /\ Cardinality({}) = 0
  BY FS_EmptySet
<1>4. Cardinality({c}) = 1
  BY <1>1, <1>3, FS_AddElement
<1> QED BY <1>2, <1>4

LEMMA FreeFrameLoads ==
    ASSUME PoolInv, NEW c \in Client, NEW p \in FilePage, NEW d \in Data, NEW dirty \in BOOLEAN, MissToFree(p, d, dirty)
    PROVE  \E f : Loads(f, p, d, dirty)
<1> DEFINE n == Len(free)
           f == free[n]
<1>1. free \in Seq(Frame) /\ free # <<>>
  BY DEF MissToFree, PoolInv, FreeOK
<1>2. n \in Nat \ {0} /\ DOMAIN free = 1..n /\ f \in Frame /\ n \in 1..n
  BY <1>1
<1>3. /\ free' \in Seq(Frame) /\ DOMAIN free' = 1..(n - 1)
      /\ \A i \in 1..(n - 1) : free'[i] = free[i] /\ i \in 1..n /\ i # n
  <2>1. free' = SubSeq(free, 1, n - 1)
    BY DEF MissToFree
  <2>2. 1 \in 1..(Len(free) + 1) /\ n - 1 \in 0..Len(free) /\ n - 1 \in Nat
    BY <1>2
  <2> HIDE DEF n
  <2>3. /\ free' \in Seq(Frame)
        /\ Len(free') = IF 1 <= n - 1 THEN (n - 1) - 1 + 1 ELSE 0
        /\ \A i \in 1..((n - 1) - 1 + 1) : free'[i] = free[1 + i - 1]
    BY <1>1, <2>1, <2>2, SubSeqProperties
  <2>4. Len(free') = n - 1
    BY <1>2, <2>2, <2>3
  <2> QED BY <1>2, <2>2, <2>3, <2>4
<1>4. InFree(f)
  BY <1>2 DEF InFree, On
<1>5. /\ frames' = Loaded(frames, f, p, d, dirty) /\ table' = [table EXCEPT ![p] = f]
      /\ file' = file /\ hand' = hand /\ ~Resident(p)
  BY DEF MissToFree
<1>6. \A i, j \in 1..n : free[i] = free[j] => i = j
  BY <1>2 DEF PoolInv, FreeOK
<1> HIDE DEF f, n
<1>7. \A i, j \in DOMAIN free' : free'[i] = free'[j] => i = j
  BY <1>3, <1>6
<1>8. ASSUME NEW g \in Frame PROVE On(free', g) <=> On(free, g) /\ g # f
  <2>1. ASSUME On(free', g) PROVE On(free, g) /\ g # f
    <3>1. PICK i \in 1..(n - 1) : free[i] = g /\ i \in 1..n /\ i # n
      BY <1>3, <2>1 DEF On
    <3>2. g # f
      BY <1>2, <1>6, <3>1 DEF f
    <3> QED BY <1>2, <3>1, <3>2 DEF On
  <2>2. ASSUME On(free, g), g # f PROVE On(free', g)
    <3>1. PICK i \in 1..n : free[i] = g
      BY <1>2, <2>2 DEF On
    <3>2. i \in 1..(n - 1)
      BY <1>2, <2>2, <3>1 DEF f
    <3> QED BY <1>3, <3>1, <3>2 DEF On
  <2> QED BY <2>1, <2>2
<1>9. frames[f].pins = 0
  <2>1. frames[f].page = Nothing
    BY <1>2, <1>4, Mapped
  <2>2. Pinning(handle, Nothing) = {}
    BY DEF Pinning
  <2> QED BY <1>2, <2>1, <2>2, Mapped, FS_EmptySet
<1>10. \A q \in FilePage : table[q] # f
  BY <1>2, <1>4, Mapped, PagesAre DEF Resident
<1>11. frames \in [Frame -> FrameRecord] /\ file \in [FilePage -> Data]
       /\ table \in [FilePage -> Frame \cup {Nothing}] /\ hand \in Frame
  BY Records DEF PoolInv
<1>12. /\ frames' \in [Frame -> FrameRecord]
       /\ frames'[f] = [page |-> p, pins |-> 1, dirty |-> dirty, usage |-> 1, data |-> d]
       /\ \A g \in Frame : g # f => frames'[g] = frames[g]
  <2>1. 1 \in 0..Cardinality(Client)
    BY SomeClient
  <2>2. [page |-> p, pins |-> 1, dirty |-> dirty, usage |-> 1, data |-> d] \in FrameRecord
    BY <2>1, PagesAre DEF FrameRecord
  <2> QED BY <1>2, <1>5, <1>11, <2>2 DEF Loaded
<1>13. /\ table' \in [FilePage -> Frame \cup {Nothing}] /\ table'[p] = f
       /\ \A q \in FilePage : q # p => table'[q] = table[q]
  BY <1>2, <1>5, <1>11
<1> QED BY <1>2, <1>3, <1>5, <1>7, <1>8, <1>9, <1>10, <1>11, <1>12, <1>13 DEF Loads

LEMMA VictimLoads ==
    ASSUME PoolInv, NEW c \in Client, NEW p \in FilePage, NEW d \in Data, NEW dirty \in BOOLEAN,
           MissToVictim(p, d, dirty)
    PROVE  \E f : Loads(f, p, d, dirty)
<1> DEFINE s == Sweep
           f == s.victim
<1>1. /\ ~Resident(p) /\ free = <<>> /\ f # Nothing
      /\ frames' = Loaded(s.frames, f, p, d, dirty)
      /\ table' = [Unmapped(f) EXCEPT ![p] = f]
      /\ file' = WrittenBack(f) /\ hand' = s.hand /\ free' = free
  BY DEF MissToVictim
<1>2. TurnOK(s)
  BY SweepOK DEF PoolInv
<1> HIDE DEF s
<1>3. f \in Frame /\ frames[f].pins = 0 /\ s.hand \in Frame /\ UsageOnly(s.frames, frames)
  BY <1>1, <1>2 DEF TurnOK
<1> HIDE DEF f
<1>4. frames \in [Frame -> FrameRecord] /\ file \in [FilePage -> Data]
      /\ table \in [FilePage -> Frame \cup {Nothing}]
  BY Records DEF PoolInv
<1>5. \A g \in Frame : ~On(free, g)
  BY <1>1 DEF On
<1>6. PICK old \in FilePage : frames[f].page = old /\ table[old] = f /\ old # p
  BY <1>1, <1>3, <1>5, Mapped DEF InFree
<1>7. \A q \in FilePage : table[q] = f <=> q = old
  BY <1>3, <1>6, Mapped, PagesAre DEF Resident
<1>8. /\ frames' \in [Frame -> FrameRecord]
      /\ frames'[f] = [page |-> p, pins |-> 1, dirty |-> dirty, usage |-> 1, data |-> d]
      /\ \A g \in Frame : g # f => frames'[g] = s.frames[g]
  <2>1. 1 \in 0..Cardinality(Client)
    BY SomeClient
  <2>2. [page |-> p, pins |-> 1, dirty |-> dirty, usage |-> 1, data |-> d] \in FrameRecord
    BY <2>1, PagesAre DEF FrameRecord
  <2>3. s.frames \in [Frame -> FrameRecord]
    BY <1>3 DEF UsageOnly
  <2> QED BY <1>1, <1>3, <2>2, <2>3 DEF Loaded
<1>9. ASSUME NEW g \in Frame, g # f
      PROVE  /\ frames'[g].page = frames[g].page /\ frames'[g].pins = frames[g].pins
             /\ frames'[g].dirty = frames[g].dirty /\ frames'[g].data = frames[g].data
  BY <1>3, <1>8, <1>9 DEF UsageOnly
<1>10. /\ table' \in [FilePage -> Frame \cup {Nothing}] /\ table'[p] = f
       /\ \A q \in FilePage : q # p => table'[q] = IF table[q] = f THEN Nothing ELSE table[q]
  <2>1. Unmapped(f) = [table EXCEPT ![old] = Nothing]
    BY <1>6, PagesAre DEF Unmapped
  <2>2. /\ Unmapped(f) \in [FilePage -> Frame \cup {Nothing}]
        /\ \A q \in FilePage : Unmapped(f)[q] = IF q = old THEN Nothing ELSE table[q]
    BY <1>4, <1>6, <2>1
  <2> QED BY <1>1, <1>3, <1>7, <2>2
<1>11. /\ file' \in [FilePage -> Data]
       /\ \A q \in FilePage :
             file'[q] = IF table[q] = f /\ frames[f].dirty THEN frames[f].data ELSE file[q]
  <2>1. frames[f].data \in Data
    BY <1>3, <1>4 DEF FrameRecord
  <2>2. file' = IF frames[f].dirty THEN [file EXCEPT ![old] = frames[f].data] ELSE file
    BY <1>1, <1>6 DEF WrittenBack
  <2> QED BY <1>4, <1>6, <1>7, <2>1, <2>2
<1>12. /\ free' \in Seq(Frame)
       /\ \A i, j \in DOMAIN free' : free'[i] = free'[j] => i = j
       /\ \A g \in Frame : On(free', g) <=> On(free, g) /\ g # f
  BY <1>1, <1>5 DEF PoolInv, FreeOK
<1> QED BY <1>1, <1>3, <1>8, <1>9, <1>10, <1>11, <1>12 DEF Loads

----------------------------------------------------------------------------
(* The other steps. *)

\* A step that leaves pages where they are keeps the invariant when it keeps this.
LEMMA SamePages ==
    ASSUME PoolInv, UNCHANGED <<table, free>>, size' \in 0..FilePages, size <= size',
           hand' \in Frame, file' \in [FilePage -> Data],
           frames' \in [Frame -> FrameRecord], handle' \in [Client -> HandleRecord],
           \A f \in Frame : frames'[f].page = frames[f].page,
           \A f \in Frame : frames'[f].pins = Cardinality(Pinning(handle', frames[f].page)),
           \A c \in Client : handle'[c].page # Nothing => Resident(handle'[c].page),
           \A c \in Client : handle'[c].page = Nothing => ~handle'[c].dirty,
           \A p \in FilePage : Resident(p) =>
              \/ frames'[table[p]].dirty \/ frames'[table[p]].data = file'[p]
              \/ \E c \in Client : handle'[c].page = p /\ handle'[c].dirty
    PROVE  PoolInv'
<1>1. table' = table /\ free' = free
  OBVIOUS
<1>2. PoolTypeOK'
  BY <1>1 DEF PoolInv, PoolTypeOK, FrameRecord, HandleRecord
<1>3. PinsAccounted'
  <2>1. ASSUME NEW q \in FilePage, table'[q] # Nothing PROVE frames'[table'[q]].page = q
    BY <1>1, <2>1, Mapped DEF Resident
  <2>2. ASSUME NEW f \in Frame
        PROVE  On(free', f) \/ (frames'[f].page # Nothing /\ table'[frames'[f].page] = f)
    BY <1>1, Mapped DEF InFree
  <2>3. ASSUME NEW f \in Frame
        PROVE  frames'[f].pins = Cardinality(Pinning(handle', frames'[f].page))
    OBVIOUS
  <2> QED BY <2>1, <2>2, <2>3, AccountedNext
<1>4. FreeOK'
  BY <1>1 DEF PoolInv, FreeOK, InFree
<1>5. HandlesOK'
  <2>1. ASSUME NEW q \in FilePage, Resident(q) PROVE q < size'
    <3>1. q < size /\ size \in Nat /\ size' \in Nat /\ q \in Nat
      BY <2>1, PagesAre, PoolConstants, Records DEF PoolInv, HandlesOK
    <3> QED BY <3>1
  <2> QED BY <1>1, <2>1 DEF HandlesOK, Resident
<1>6. CleanOK'
  BY <1>1 DEF CleanOK, Resident, Marked
<1> QED BY <1>2, <1>3, <1>4, <1>5, <1>6 DEF PoolInv

LEMMA HitKeeps ==
    ASSUME PoolInv, NEW c \in Client, NEW p \in FilePage, handle[c] = NoHandle, Hit(p), Gives(c, p),
           size' = size
    PROVE  PoolInv'
<1> DEFINE t == table[p]
<1>1. /\ Resident(p) /\ t \in Frame /\ frames[t].page = p /\ p # Nothing
      /\ frames' = [frames EXCEPT ![t].pins = @ + 1,
                                  ![t].usage = IF @ < MaxUsage THEN @ + 1 ELSE @]
      /\ UNCHANGED <<file, table, free, hand>>
  BY Mapped, PagesAre DEF Hit
<1> HIDE DEF t
<1>2. /\ frames \in [Frame -> FrameRecord] /\ handle \in [Client -> HandleRecord]
      /\ file \in [FilePage -> Data] /\ size \in 0..FilePages /\ hand \in Frame
  BY Records DEF PoolInv
<1>3. /\ handle' \in [Client -> HandleRecord]
      /\ handle'[c] = [page |-> p, dirty |-> FALSE]
      /\ \A e \in Client : e # c => handle'[e] = handle[e]
  <2>1. [page |-> p, dirty |-> FALSE] \in HandleRecord
    BY DEF HandleRecord
  <2> QED BY <1>2, <2>1 DEF Gives
<1>4. handle[c].page = Nothing /\ handle[c].dirty = FALSE
  BY DEF NoHandle
<1>5. /\ Cardinality(Pinning(handle', p)) = Cardinality(Pinning(handle, p)) + 1
      /\ \A q : q # p => Pinning(handle', q) = Pinning(handle, q)
  <2>1. handle'[c].page = p /\ \A e \in Client : e # c => handle'[e] = handle[e]
    BY <1>3
  <2> QED BY <1>1, <1>4, <2>1, PinningMore
<1>6. frames[t].pins = Cardinality(Pinning(handle, p))
  BY <1>1, Mapped
<1>7. Cardinality(Pinning(handle', p)) \in 0..Cardinality(Client)
  BY PinningIs
<1>8. /\ frames' \in [Frame -> FrameRecord]
      /\ \A f \in Frame : f # t => frames'[f] = frames[f]
      /\ frames'[t].page = p /\ frames'[t].pins = frames[t].pins + 1
      /\ frames'[t].dirty = frames[t].dirty /\ frames'[t].data = frames[t].data
  <2> DEFINE r == [frames[t] EXCEPT !.pins = frames[t].pins + 1,
                        !.usage = IF frames[t].usage < MaxUsage THEN frames[t].usage + 1
                                  ELSE frames[t].usage]
  <2>1. frames' = [frames EXCEPT ![t] = r]
    BY <1>1, <1>2
  <2>2. frames[t] \in FrameRecord
    BY <1>1, <1>2
  <2>3. frames[t].pins + 1 \in 0..Cardinality(Client)
    BY <1>5, <1>6, <1>7
  <2>4. (IF frames[t].usage < MaxUsage THEN frames[t].usage + 1 ELSE frames[t].usage) \in 0..MaxUsage
    BY <2>2, PoolConstants DEF FrameRecord
  <2>5. /\ r \in FrameRecord /\ r.page = p /\ r.pins = frames[t].pins + 1
        /\ r.dirty = frames[t].dirty /\ r.data = frames[t].data
    BY <1>1, <2>2, <2>3, <2>4 DEF FrameRecord
  <2> HIDE DEF r
  <2> QED BY <1>1, <1>2, <2>1, <2>5
<1>9. \A f \in Frame : frames'[f].page = frames[f].page
  BY <1>1, <1>8
<1>10. ASSUME NEW f \in Frame
       PROVE  frames'[f].pins = Cardinality(Pinning(handle', frames[f].page))
  <2>1. CASE f = t
    BY <1>1, <1>5, <1>6, <1>8, <2>1
  <2>2. CASE f # t
    <3>1. frames[f].page # p
      BY <1>1, <2>2, Mapped DEF t
    <3>2. frames[f].pins = Cardinality(Pinning(handle, frames[f].page))
      BY Mapped
    <3> QED BY <1>5, <1>8, <2>2, <3>1, <3>2
  <2> QED BY <2>1, <2>2
<1>11. ASSUME NEW e \in Client
       PROVE  /\ handle'[e].page # Nothing => Resident(handle'[e].page)
              /\ handle'[e].page = Nothing => ~handle'[e].dirty
  BY <1>1, <1>3 DEF PoolInv, HandlesOK
<1>12. ASSUME NEW q \in FilePage, Resident(q)
       PROVE  \/ frames'[table[q]].dirty \/ frames'[table[q]].data = file'[q]
              \/ \E e \in Client : handle'[e].page = q /\ handle'[e].dirty
  <2>1. table[q] \in Frame /\ file' = file
    BY <1>1, <1>12, Mapped
  <2>2. frames'[table[q]].dirty = frames[table[q]].dirty
        /\ frames'[table[q]].data = frames[table[q]].data
    BY <1>8, <2>1
  <2>3. frames[table[q]].dirty \/ frames[table[q]].data = file[q] \/ Marked(q)
    BY <1>12 DEF PoolInv, CleanOK
  <2>4. ASSUME Marked(q) PROVE \E e \in Client : handle'[e].page = q /\ handle'[e].dirty
    BY <1>3, <1>4, <2>4 DEF Marked
  <2> QED BY <2>1, <2>2, <2>3, <2>4
<1>13. size' \in 0..FilePages /\ size <= size'
  BY <1>2, PoolConstants
<1> QED BY <1>1, <1>2, <1>3, <1>8, <1>9, <1>10, <1>11, <1>12, <1>13, SamePages

LEMMA NoVictimKeeps ==
    ASSUME PoolInv, NoVictim, handle' = handle, size' \in 0..FilePages, size <= size'
    PROVE  PoolInv'
<1> DEFINE s == Sweep
<1>1. frames' = s.frames /\ hand' = s.hand /\ UNCHANGED <<file, table, free>>
  BY DEF NoVictim
<1>2. TurnOK(s)
  BY SweepOK DEF PoolInv
<1> HIDE DEF s
<1>3. UsageOnly(frames', frames) /\ hand' \in Frame
  BY <1>1, <1>2 DEF TurnOK
<1>4. handle \in [Client -> HandleRecord] /\ file \in [FilePage -> Data]
  BY Records DEF PoolInv
<1>5. ASSUME NEW q \in FilePage, Resident(q)
      PROVE  \/ frames'[table[q]].dirty \/ frames'[table[q]].data = file'[q]
             \/ \E e \in Client : handle'[e].page = q /\ handle'[e].dirty
  <2>1. table[q] \in Frame
    BY <1>5, Mapped
  <2>2. frames[table[q]].dirty \/ frames[table[q]].data = file[q] \/ Marked(q)
    BY <1>5 DEF PoolInv, CleanOK
  <2> QED BY <1>1, <1>3, <2>1, <2>2 DEF UsageOnly, Marked
<1>6. \A f \in Frame : /\ frames'[f].page = frames[f].page
                       /\ frames'[f].pins = Cardinality(Pinning(handle', frames[f].page))
  BY <1>3, Mapped DEF UsageOnly
<1>7. frames' \in [Frame -> FrameRecord]
  BY <1>3 DEF UsageOnly
<1>8. \A e \in Client : /\ handle'[e].page # Nothing => Resident(handle'[e].page)
                        /\ handle'[e].page = Nothing => ~handle'[e].dirty
  BY DEF PoolInv, HandlesOK
<1> QED BY <1>1, <1>3, <1>4, <1>5, <1>6, <1>7, <1>8, SamePages

\* The page a client has pinned.
LEMMA PinnedPage ==
    ASSUME PoolInv, NEW c \in Client, handle[c] # NoHandle
    PROVE  LET p == handle[c].page IN
           p \in FilePage /\ p # Nothing /\ Resident(p) /\ table[p] \in Frame
           /\ frames[table[p]].page = p
<1>1. handle[c] \in HandleRecord
  BY Records DEF PoolInv
<1>2. handle[c].page # Nothing
  <2>1. SUFFICES ASSUME handle[c].page = Nothing PROVE FALSE
    OBVIOUS
  <2>2. handle[c].dirty = FALSE
    BY <1>1, <2>1 DEF PoolInv, HandlesOK, HandleRecord
  <2> QED BY <1>1, <2>1, <2>2 DEF HandleRecord, NoHandle
<1>3. handle[c].page \in FilePage /\ Resident(handle[c].page)
  BY <1>1, <1>2 DEF PoolInv, HandlesOK, HandleRecord
<1> QED BY <1>2, <1>3, Mapped

LEMMA ChangeKeeps ==
    ASSUME PoolInv, NEW c \in Client, NEW d \in Data, Change(c, d)
    PROVE  PoolInv'
<1> DEFINE p == handle[c].page
           t == table[p]
<1>1. p \in FilePage /\ p # Nothing /\ Resident(p) /\ t \in Frame /\ frames[t].page = p
  BY PinnedPage DEF Change
<1>2. /\ frames' = [frames EXCEPT ![t].data = d]
      /\ handle' = [handle EXCEPT ![c].dirty = TRUE]
      /\ UNCHANGED <<file, size, table, free, hand>>
  BY DEF Change
<1>3. /\ frames \in [Frame -> FrameRecord] /\ handle \in [Client -> HandleRecord]
      /\ file \in [FilePage -> Data] /\ size \in 0..FilePages /\ hand \in Frame
  BY Records DEF PoolInv
<1>4. /\ handle' \in [Client -> HandleRecord]
      /\ handle'[c].page = p /\ handle'[c].dirty
      /\ \A e \in Client : e # c => handle'[e] = handle[e]
  <2>1. handle[c] \in HandleRecord
    BY <1>3
  <2>2. [handle[c] EXCEPT !.dirty = TRUE] \in HandleRecord
    BY <2>1 DEF HandleRecord
  <2>3. [handle[c] EXCEPT !.dirty = TRUE].page = p /\ [handle[c] EXCEPT !.dirty = TRUE].dirty
    BY <2>1 DEF HandleRecord
  <2> QED BY <1>2, <1>3, <2>2, <2>3
<1> HIDE DEF t
<1>5. /\ frames' \in [Frame -> FrameRecord]
      /\ \A f \in Frame : f # t => frames'[f] = frames[f]
      /\ frames'[t].page = p /\ frames'[t].pins = frames[t].pins
  <2>1. frames[t] \in FrameRecord
    BY <1>1, <1>3
  <2>2. [frames[t] EXCEPT !.data = d] \in FrameRecord
    BY <2>1 DEF FrameRecord
  <2>3. /\ [frames[t] EXCEPT !.data = d].page = frames[t].page
        /\ [frames[t] EXCEPT !.data = d].pins = frames[t].pins
    BY <2>1 DEF FrameRecord
  <2> QED BY <1>1, <1>2, <1>3, <2>2, <2>3
<1>6. \A e \in Client : handle'[e].page = handle[e].page
  BY <1>4
<1>7. \A q : Pinning(handle', q) = Pinning(handle, q)
  BY <1>6 DEF Pinning
<1>8. \A f \in Frame : frames'[f].page = frames[f].page /\ frames'[f].pins = frames[f].pins
  BY <1>1, <1>5
<1>9. \A f \in Frame : frames'[f].pins = Cardinality(Pinning(handle', frames[f].page))
  BY <1>7, <1>8, Mapped
<1>10. \A e \in Client : /\ handle'[e].page # Nothing => Resident(handle'[e].page)
                         /\ handle'[e].page = Nothing => ~handle'[e].dirty
  BY <1>1, <1>4, <1>6 DEF PoolInv, HandlesOK
<1>11. ASSUME NEW q \in FilePage, Resident(q)
       PROVE  \/ frames'[table[q]].dirty \/ frames'[table[q]].data = file'[q]
              \/ \E e \in Client : handle'[e].page = q /\ handle'[e].dirty
  <2>1. CASE q = p
    BY <1>4, <2>1
  <2>2. CASE q # p
    <3>1. table[q] \in Frame /\ table[q] # t
      BY <1>1, <1>11, <2>2, Mapped DEF t
    <3>2. frames[table[q]].dirty \/ frames[table[q]].data = file[q] \/ Marked(q)
      BY <1>11 DEF PoolInv, CleanOK
    <3>3. ASSUME Marked(q) PROVE \E e \in Client : handle'[e].page = q /\ handle'[e].dirty
      BY <1>4, <2>2, <3>3 DEF Marked
    <3> QED BY <1>2, <1>5, <3>1, <3>2, <3>3
  <2> QED BY <2>1, <2>2
<1>12. size' \in 0..FilePages /\ size <= size'
  BY <1>2, <1>3, PoolConstants
<1> QED BY <1>2, <1>3, <1>4, <1>5, <1>8, <1>9, <1>10, <1>11, <1>12, SamePages

LEMMA UnpinKeeps ==
    ASSUME PoolInv, NEW c \in Client, Unpin(c)
    PROVE  PoolInv'
<1> DEFINE p == handle[c].page
           t == table[p]
<1>1. p \in FilePage /\ p # Nothing /\ Resident(p) /\ t \in Frame /\ frames[t].page = p
  BY PinnedPage DEF Unpin
<1>2. /\ frames' = [frames EXCEPT ![t].dirty = @ \/ handle[c].dirty,
                                  ![t].pins = IF @ > 0 THEN @ - 1 ELSE @]
      /\ handle' = [handle EXCEPT ![c] = NoHandle]
      /\ UNCHANGED <<file, size, table, free, hand>>
  BY DEF Unpin
<1>3. /\ frames \in [Frame -> FrameRecord] /\ handle \in [Client -> HandleRecord]
      /\ file \in [FilePage -> Data] /\ size \in 0..FilePages /\ hand \in Frame
  BY Records DEF PoolInv
<1>4. /\ handle' \in [Client -> HandleRecord]
      /\ handle'[c].page = Nothing /\ ~handle'[c].dirty
      /\ \A e \in Client : e # c => handle'[e] = handle[e]
  <2>1. NoHandle \in HandleRecord /\ NoHandle.page = Nothing /\ NoHandle.dirty = FALSE
    BY DEF NoHandle, HandleRecord
  <2> QED BY <1>2, <1>3, <2>1
<1>5. /\ Cardinality(Pinning(handle, p)) = Cardinality(Pinning(handle', p)) + 1
      /\ \A q : q # p => Pinning(handle', q) = Pinning(handle, q)
  <2>1. handle[c].page = p
    OBVIOUS
  <2> HIDE DEF p
  <2> QED BY <1>1, <1>4, <2>1, PinningLess
<1>6. frames[t].pins = Cardinality(Pinning(handle, p))
  BY <1>1, Mapped
<1>7. Cardinality(Pinning(handle', p)) \in 0..Cardinality(Client)
  BY PinningIs
<1> DEFINE m == handle[c].dirty
<1>8. m \in BOOLEAN
  BY <1>3 DEF HandleRecord
<1> HIDE DEF t, m
<1>9. /\ frames' \in [Frame -> FrameRecord]
      /\ \A f \in Frame : f # t => frames'[f] = frames[f]
      /\ frames'[t].page = p /\ frames'[t].pins = frames[t].pins - 1
      /\ frames'[t].dirty = (frames[t].dirty \/ m) /\ frames'[t].data = frames[t].data
  <2> DEFINE r == [frames[t] EXCEPT !.dirty = frames[t].dirty \/ m,
                        !.pins = IF frames[t].pins > 0 THEN frames[t].pins - 1 ELSE frames[t].pins]
  <2>1. frames' = [frames EXCEPT ![t] = r]
    BY <1>1, <1>2, <1>3 DEF m
  <2>2. frames[t] \in FrameRecord
    BY <1>1, <1>3
  <2>3. /\ (IF frames[t].pins > 0 THEN frames[t].pins - 1 ELSE frames[t].pins) = frames[t].pins - 1
        /\ frames[t].pins - 1 \in 0..Cardinality(Client)
    BY <1>5, <1>6, <1>7
  <2>4. (frames[t].dirty \/ m) \in BOOLEAN
    BY <1>8, <2>2 DEF FrameRecord
  <2>5. /\ r \in FrameRecord /\ r.page = p /\ r.pins = frames[t].pins - 1
        /\ r.dirty = (frames[t].dirty \/ m) /\ r.data = frames[t].data
    BY <1>1, <2>2, <2>3, <2>4 DEF FrameRecord
  <2> HIDE DEF r
  <2> QED BY <1>1, <1>3, <2>1, <2>5
<1>10. \A f \in Frame : frames'[f].page = frames[f].page
  BY <1>1, <1>9
<1>11. ASSUME NEW f \in Frame
       PROVE  frames'[f].pins = Cardinality(Pinning(handle', frames[f].page))
  <2>1. CASE f = t
    BY <1>1, <1>5, <1>6, <1>7, <1>9, <2>1
  <2>2. CASE f # t
    <3>1. frames[f].page # p
      BY <1>1, <2>2, Mapped DEF t
    <3>2. frames[f].pins = Cardinality(Pinning(handle, frames[f].page))
      BY Mapped
    <3> QED BY <1>5, <1>9, <2>2, <3>1, <3>2
  <2> QED BY <2>1, <2>2
<1>12. ASSUME NEW e \in Client
       PROVE  /\ handle'[e].page # Nothing => Resident(handle'[e].page)
              /\ handle'[e].page = Nothing => ~handle'[e].dirty
  BY <1>4 DEF PoolInv, HandlesOK
<1>13. ASSUME NEW q \in FilePage, Resident(q)
       PROVE  \/ frames'[table[q]].dirty \/ frames'[table[q]].data = file'[q]
              \/ \E e \in Client : handle'[e].page = q /\ handle'[e].dirty
  <2>1. table[q] \in Frame /\ file' = file
    BY <1>2, <1>13, Mapped
  <2>2. frames[table[q]].dirty \/ frames[table[q]].data = file[q] \/ Marked(q)
    BY <1>13 DEF PoolInv, CleanOK
  <2>3. /\ frames[table[q]].dirty => frames'[table[q]].dirty
        /\ frames'[table[q]].data = frames[table[q]].data
    BY <1>9, <2>1
  <2>4. ASSUME NEW e \in Client, handle[e].page = q, handle[e].dirty
        PROVE  frames'[table[q]].dirty \/ (handle'[e].page = q /\ handle'[e].dirty)
    <3>1. CASE e = c
      BY <1>1, <1>8, <1>9, <2>4, <3>1 DEF t, m
    <3>2. CASE e # c
      BY <1>4, <2>4, <3>2
    <3> QED BY <3>1, <3>2
  <2> QED BY <2>1, <2>2, <2>3, <2>4 DEF Marked
<1>14. size' \in 0..FilePages /\ size <= size'
  BY <1>2, <1>3, PoolConstants
<1> QED BY <1>2, <1>3, <1>4, <1>9, <1>10, <1>11, <1>12, <1>13, <1>14, SamePages

\* What flush_page and flush_all write.
Dirty(P) == {p \in P : Resident(p) /\ frames[table[p]].dirty}

LEMMA FlushIs ==
    ASSUME PoolInv, NEW P \in SUBSET FilePage, Flush(P)
    PROVE  /\ file' \in [FilePage -> Data] /\ frames' \in [Frame -> FrameRecord]
           /\ UNCHANGED <<size, table, free, hand, handle>>
           /\ \A p \in FilePage :
                 file'[p] = IF p \in Dirty(P) THEN frames[table[p]].data ELSE file[p]
           /\ \A f \in Frame : /\ frames'[f].page = frames[f].page /\ frames'[f].pins = frames[f].pins
                               /\ frames'[f].data = frames[f].data
           /\ \A p \in FilePage : Resident(p) =>
                 frames'[table[p]].dirty = (frames[table[p]].dirty /\ p \notin Dirty(P))
<1>1. /\ frames \in [Frame -> FrameRecord] /\ file \in [FilePage -> Data]
  BY Records DEF PoolInv
<1>2. /\ file' = [p \in FilePage |-> IF p \in Dirty(P) THEN frames[table[p]].data ELSE file[p]]
      /\ frames' = [f \in Frame |-> IF \E p \in Dirty(P) : table[p] = f
                                    THEN [frames[f] EXCEPT !.dirty = FALSE] ELSE frames[f]]
      /\ UNCHANGED <<size, table, free, hand, handle>>
  BY DEF Flush, Dirty
<1>3. \A p \in Dirty(P) : p \in FilePage /\ Resident(p) /\ table[p] \in Frame
  BY Mapped DEF Dirty
<1>4. file' \in [FilePage -> Data]
  <2>1. \A p \in Dirty(P) : frames[table[p]].data \in Data
    BY <1>1, <1>3 DEF FrameRecord
  <2> QED BY <1>1, <1>2, <2>1
<1> DEFINE W(f) == \E p \in Dirty(P) : table[p] = f
<1>5. ASSUME NEW f \in Frame
      PROVE  /\ frames'[f] \in FrameRecord /\ frames'[f].page = frames[f].page
             /\ frames'[f].pins = frames[f].pins /\ frames'[f].data = frames[f].data
             /\ frames'[f].dirty = (frames[f].dirty /\ ~W(f))
  <2>1. frames[f] \in FrameRecord /\ frames[f].dirty \in BOOLEAN
    BY <1>1 DEF FrameRecord
  <2>2. frames'[f] = IF W(f) THEN [frames[f] EXCEPT !.dirty = FALSE] ELSE frames[f]
    BY <1>2
  <2> HIDE DEF W
  <2>3. CASE W(f)
    <3>1. frames'[f] = [frames[f] EXCEPT !.dirty = FALSE]
      BY <2>2, <2>3
    <3> QED BY <2>1, <2>3, <3>1 DEF FrameRecord
  <2>4. CASE ~W(f)
    BY <2>1, <2>2, <2>4
  <2> QED BY <2>3, <2>4
<1>6. frames' \in [Frame -> FrameRecord]
  <2>1. \A f \in Frame : frames'[f] \in FrameRecord
    BY <1>5
  <2> QED BY <1>2, <2>1
<1>7. ASSUME NEW p \in FilePage, Resident(p) PROVE W(table[p]) <=> p \in Dirty(P)
  BY <1>3, <1>7, Mapped
<1>8. ASSUME NEW p \in FilePage, Resident(p)
      PROVE  frames'[table[p]].dirty = (frames[table[p]].dirty /\ p \notin Dirty(P))
  <2>1. table[p] \in Frame
    BY <1>8, Mapped
  <2> QED BY <1>5, <1>7, <1>8, <2>1
<1>9. \A p \in FilePage :
         file'[p] = IF p \in Dirty(P) THEN frames[table[p]].data ELSE file[p]
  BY <1>2
<1> QED BY <1>2, <1>4, <1>5, <1>6, <1>8, <1>9

LEMMA FlushKeeps ==
    ASSUME PoolInv, NEW P \in SUBSET FilePage, Flush(P)
    PROVE  PoolInv'
<1>1. /\ file' \in [FilePage -> Data] /\ frames' \in [Frame -> FrameRecord]
      /\ UNCHANGED <<size, table, free, hand, handle>>
      /\ \A p \in FilePage :
            file'[p] = IF p \in Dirty(P) THEN frames[table[p]].data ELSE file[p]
      /\ \A f \in Frame : /\ frames'[f].page = frames[f].page /\ frames'[f].pins = frames[f].pins
                          /\ frames'[f].data = frames[f].data
      /\ \A p \in FilePage : Resident(p) =>
            frames'[table[p]].dirty = (frames[table[p]].dirty /\ p \notin Dirty(P))
  BY FlushIs
<1>2. handle \in [Client -> HandleRecord] /\ size \in 0..FilePages /\ hand \in Frame
  BY Records DEF PoolInv
<1>3. ASSUME NEW q \in FilePage, Resident(q)
      PROVE  \/ frames'[table[q]].dirty \/ frames'[table[q]].data = file'[q]
             \/ \E e \in Client : handle'[e].page = q /\ handle'[e].dirty
  <2>1. table[q] \in Frame /\ frames'[table[q]].data = frames[table[q]].data
    BY <1>1, <1>3, Mapped
  <2>2. frames[table[q]].dirty \/ frames[table[q]].data = file[q] \/ Marked(q)
    BY <1>3 DEF PoolInv, CleanOK
  <2> QED BY <1>1, <1>3, <2>1, <2>2 DEF Marked
<1>4. \A e \in Client : /\ handle'[e].page # Nothing => Resident(handle'[e].page)
                        /\ handle'[e].page = Nothing => ~handle'[e].dirty
  BY <1>1 DEF PoolInv, HandlesOK
<1>5. \A f \in Frame : frames'[f].pins = Cardinality(Pinning(handle', frames[f].page))
  BY <1>1, Mapped
<1>6. size' \in 0..FilePages /\ size <= size'
  BY <1>1, <1>2, PoolConstants
<1> QED BY <1>1, <1>2, <1>3, <1>4, <1>5, <1>6, SamePages

LEMMA StutterKeeps ==
    ASSUME PoolInv, UNCHANGED poolVars
    PROVE  PoolInv'
<1>1. /\ UNCHANGED <<file, size, frames, table, free, hand, handle>>
  BY DEF poolVars
<1>2. PoolTypeOK'
  BY <1>1 DEF PoolInv, PoolTypeOK
<1>3. PinsAccounted'
  BY <1>1 DEF PoolInv, PinsAccounted, Resident, Holders
<1>4. FreeOK' /\ HandlesOK' /\ CleanOK'
  BY <1>1 DEF PoolInv, FreeOK, InFree, HandlesOK, CleanOK, Resident, Marked
<1> QED BY <1>2, <1>3, <1>4 DEF PoolInv

----------------------------------------------------------------------------
(* The theorems. *)

\* The ways a page can be brought in, for a client c that holds none.
Miss(c, p, d, dirty) == (MissToFree(p, d, dirty) \/ MissToVictim(p, d, dirty)) /\ Gives(c, p)

LEMMA MissLoads ==
    ASSUME PoolInv, NEW c \in Client, NEW p \in FilePage, NEW d \in Data, NEW dirty \in BOOLEAN,
           Miss(c, p, d, dirty)
    PROVE  Gives(c, p) /\ \E f : Loads(f, p, d, dirty)
<1>1. CASE MissToFree(p, d, dirty)
  BY <1>1, FreeFrameLoads DEF Miss
<1>2. CASE MissToVictim(p, d, dirty)
  BY <1>2, VictimLoads DEF Miss
<1> QED BY <1>1, <1>2 DEF Miss

LEMMA PinKeeps ==
    ASSUME PoolInv, NEW c \in Client, NEW p \in FilePage, Pin(c, p)
    PROVE  PoolInv'
<1>1. handle[c] = NoHandle /\ p < size /\ size' = size
  BY DEF Pin
<1>2. size' \in 0..FilePages /\ size <= size' /\ p < size' /\ file[p] \in Data
  BY <1>1, PoolConstants, Records DEF PoolInv
<1>3. CASE Hit(p) /\ Gives(c, p)
  BY <1>1, <1>3, HitKeeps
<1>4. CASE Miss(c, p, file[p], FALSE)
  <2>1. PICK f : Gives(c, p) /\ Loads(f, p, file[p], FALSE)
    BY <1>2, <1>4, MissLoads
  <2> QED BY <1>1, <1>2, <2>1, LoadsKeeps
<1>5. CASE NoVictim /\ UNCHANGED handle
  BY <1>2, <1>5, NoVictimKeeps
<1> QED BY <1>3, <1>4, <1>5 DEF Pin, Miss

LEMMA NewPageKeeps ==
    ASSUME PoolInv, NEW c \in Client, NewPage(c)
    PROVE  PoolInv'
<1>1. handle[c] = NoHandle /\ size \in FilePage /\ size' = size + 1
  BY DEF NewPage
<1>2. size' \in 0..FilePages /\ size <= size' /\ size < size' /\ Formatted \in Data
  BY <1>1, PoolConstants DEF FilePage
<1>3. CASE Miss(c, size, Formatted, TRUE)
  <2>1. PICK f : Gives(c, size) /\ Loads(f, size, Formatted, TRUE)
    BY <1>1, <1>2, <1>3, MissLoads
  <2> QED BY <1>1, <1>2, <2>1, LoadsKeeps
<1>4. CASE NoVictim /\ UNCHANGED handle
  BY <1>2, <1>4, NoVictimKeeps
<1> QED BY <1>3, <1>4 DEF NewPage, Miss

LEMMA NextPool == PoolInv /\ [PoolNext]_poolVars => PoolInv'
<1> SUFFICES ASSUME PoolInv, [PoolNext]_poolVars PROVE PoolInv'
  OBVIOUS
<1>1. ASSUME NEW c \in Client, NEW p \in FilePage, Pin(c, p) PROVE PoolInv'
  BY <1>1, PinKeeps
<1>2. ASSUME NEW c \in Client, NEW d \in Data, Change(c, d) PROVE PoolInv'
  BY <1>2, ChangeKeeps
<1>3. ASSUME NEW c \in Client, NewPage(c) PROVE PoolInv'
  BY <1>3, NewPageKeeps
<1>4. ASSUME NEW c \in Client, Unpin(c) PROVE PoolInv'
  BY <1>4, UnpinKeeps
<1>5. ASSUME NEW P \in SUBSET FilePage, Flush(P) PROVE PoolInv'
  BY <1>5, FlushKeeps
<1>6. ASSUME UNCHANGED poolVars PROVE PoolInv'
  BY <1>6, StutterKeeps
<1>7. FilePage \in SUBSET FilePage /\ \A p \in FilePage : {p} \in SUBSET FilePage
  OBVIOUS
<1> QED BY <1>1, <1>2, <1>3, <1>4, <1>5, <1>6, <1>7 DEF PoolNext

\* The invariant of the pool, in every behaviour of it.
LEMMA SpecPoolInv == PoolSpec => []PoolInv
<1>1. PoolInit => PoolInv
  BY InitPool
<1>2. PoolInv /\ [PoolNext]_poolVars => PoolInv'
  BY NextPool
<1> QED BY <1>1, <1>2, PTL DEF PoolSpec

\* However many clients pin, change and give back pages, and whatever is evicted on the
\* way: page table, frames, free list and handles agree, and a frame's pin count is the
\* number of handles on its page (buffer_pool.cpp:66-71, 93-107).
THEOREM SpecPinsAccounted == PoolSpec => []PinsAccounted
<1>1. PoolInv => PinsAccounted
  BY DEF PoolInv
<1> QED BY <1>1, SpecPoolInv, PTL

\* The clock sweep gives up only when every frame is pinned, for every size of the pool and
\* every limit of the usage count: frames * (limit + 2) turns are always enough
\* (buffer_pool.cpp:146-149).
THEOREM SpecVictimFound == PoolSpec => []VictimFound
<1>1. PoolInv => VictimFound
  BY SweepFindsVictim DEF PoolInv
<1> QED BY <1>1, SpecPoolInv, PTL

\* What a page reads as, for the callers of the pool.
Contents == [p \in FilePage |-> IF Resident(p) THEN frames[table[p]].data ELSE file[p]]

LEMMA ContentsAre ==
    ASSUME PoolInv
    PROVE  /\ Contents \in [FilePage -> Data]
           /\ \A p \in FilePage :
                 Contents[p] = IF Resident(p) THEN frames[table[p]].data ELSE file[p]
<1>1. ASSUME NEW p \in FilePage
      PROVE  (IF Resident(p) THEN frames[table[p]].data ELSE file[p]) \in Data
  <2>1. file[p] \in Data
    BY Records DEF PoolInv
  <2>2. ASSUME Resident(p) PROVE frames[table[p]].data \in Data
    BY <2>2, Mapped, Records DEF PoolInv, FrameRecord
  <2> QED BY <2>1, <2>2
<1> QED BY <1>1 DEF Contents

Reads(p) == IF Resident(p) THEN frames[table[p]].data ELSE file[p]

LEMMA ContentsNext ==
    ASSUME PoolInv, NEW c, c \in [FilePage -> Data],
           \A p \in FilePage : Reads(p)' = c[p]
    PROVE  Contents' = c
BY DEF Contents, Reads, Resident

\* A page that is loaded reads as d, and every other page as before.
LEMMA LoadsReads ==
    ASSUME PoolInv, NEW f, NEW p, NEW d, NEW dirty, Loads(f, p, d, dirty)
    PROVE  /\ p \in FilePage /\ d \in Data
           /\ Contents' = [Contents EXCEPT ![p] = d]
<1>1. p \in FilePage /\ d \in Data /\ f \in Frame /\ f # Nothing /\ table[p] = Nothing
  BY PagesAre DEF Loads, Resident
<1>2. Contents \in [FilePage -> Data]
  BY ContentsAre
<1>3. Reads(p)' = d
  BY <1>1 DEF Loads, Reads, Resident
<1>4. ASSUME NEW q \in FilePage, q # p PROVE Reads(q)' = Contents[q]
  <2>1. CASE table[q] = f
    <3>1. Contents[q] = frames[f].data
      BY <1>1, <2>1, ContentsAre DEF Resident
    <3>2. Reads(q)' = file'[q]
      BY <1>4, <2>1 DEF Loads, Reads, Resident
    <3>3. file'[q] = IF frames[f].dirty THEN frames[f].data ELSE file[q]
      BY <2>1 DEF Loads
    <3>4. frames[f].dirty \/ frames[f].data = file[q]
      <4>1. ~Marked(q)
        <5>1. frames[f].page = q /\ q # Nothing
          BY <1>1, <2>1, Mapped, PagesAre DEF Resident
        <5>2. Cardinality(Pinning(handle, q)) = 0
          BY <1>1, <5>1, Mapped DEF Loads
        <5>3. IsFiniteSet(Pinning(handle, q))
          BY PinningIs
        <5>4. Pinning(handle, q) = {}
          BY <5>2, <5>3, FS_EmptySet
        <5> QED BY <5>1, <5>4 DEF Marked, Pinning
      <4> QED BY <1>1, <2>1, <4>1 DEF PoolInv, CleanOK, Resident
    <3> QED BY <3>1, <3>2, <3>3, <3>4
  <2>2. CASE table[q] # f /\ table[q] # Nothing
    <3>1. table'[q] = table[q] /\ table[q] \in Frame
      BY <1>4, <2>2, Mapped DEF Loads, Resident
    <3>2. frames'[table[q]].data = frames[table[q]].data
      BY <2>2, <3>1 DEF Loads
    <3> QED BY <2>2, <3>1, <3>2, ContentsAre DEF Reads, Resident
  <2>3. CASE table[q] # f /\ table[q] = Nothing
    <3>1. table'[q] = Nothing /\ file'[q] = file[q]
      BY <1>4, <2>3 DEF Loads
    <3> QED BY <2>3, <3>1, ContentsAre DEF Reads, Resident
  <2> QED BY <2>1, <2>2, <2>3
<1> DEFINE c == [Contents EXCEPT ![p] = d]
<1>5. c \in [FilePage -> Data] /\ \A q \in FilePage : c[q] = IF q = p THEN d ELSE Contents[q]
  BY <1>1, <1>2
<1> HIDE DEF c
<1>6. Contents' = c
  BY <1>3, <1>4, <1>5, ContentsNext
<1> QED BY <1>1, <1>6 DEF c

LEMMA NoVictimReads ==
    ASSUME PoolInv, NoVictim
    PROVE  Contents' = Contents
<1>1. TurnOK(Sweep) /\ frames' = Sweep.frames /\ UNCHANGED <<file, table>>
  BY SweepOK DEF PoolInv, NoVictim
<1>2. \A f \in Frame : frames'[f].data = frames[f].data
  BY <1>1 DEF TurnOK, UsageOnly
<1>3. \A p \in FilePage : Reads(p)' = Contents[p]
  BY <1>1, <1>2, ContentsAre, Mapped DEF Reads, Resident
<1> QED BY <1>3, ContentsAre, ContentsNext

LEMMA HitReads ==
    ASSUME PoolInv, NEW p \in FilePage, Hit(p)
    PROVE  Contents' = Contents
<1> DEFINE t == table[p]
<1>1. /\ Resident(p) /\ t \in Frame /\ frames \in [Frame -> FrameRecord]
      /\ frames' = [frames EXCEPT ![t].pins = @ + 1,
                                  ![t].usage = IF @ < MaxUsage THEN @ + 1 ELSE @]
      /\ UNCHANGED <<file, table, free, hand>>
  BY Mapped, Records DEF Hit, PoolInv
<1> HIDE DEF t
<1>2. \A f \in Frame : frames'[f].data = frames[f].data
  <2> DEFINE r == [frames[t] EXCEPT !.pins = frames[t].pins + 1,
                        !.usage = IF frames[t].usage < MaxUsage THEN frames[t].usage + 1
                                  ELSE frames[t].usage]
  <2>1. frames' = [frames EXCEPT ![t] = r]
    BY <1>1
  <2>2. r.data = frames[t].data
    BY <1>1 DEF FrameRecord
  <2> HIDE DEF r
  <2> QED BY <1>1, <2>1, <2>2
<1>3. \A q \in FilePage : Reads(q)' = Contents[q]
  BY <1>1, <1>2, ContentsAre, Mapped DEF Reads, Resident
<1> QED BY <1>3, ContentsAre, ContentsNext

LEMMA UnpinReads ==
    ASSUME PoolInv, NEW c \in Client, Unpin(c)
    PROVE  Contents' = Contents
<1> DEFINE t == table[handle[c].page]
           m == handle[c].dirty
<1>1. /\ t \in Frame /\ frames \in [Frame -> FrameRecord]
      /\ frames' = [frames EXCEPT ![t].dirty = @ \/ m,
                                  ![t].pins = IF @ > 0 THEN @ - 1 ELSE @]
      /\ UNCHANGED <<file, table>>
  BY PinnedPage, Records DEF Unpin, PoolInv
<1> HIDE DEF t, m
<1>2. \A f \in Frame : frames'[f].data = frames[f].data
  <2> DEFINE r == [frames[t] EXCEPT !.dirty = frames[t].dirty \/ m,
                        !.pins = IF frames[t].pins > 0 THEN frames[t].pins - 1 ELSE frames[t].pins]
  <2>1. frames' = [frames EXCEPT ![t] = r]
    BY <1>1
  <2>2. r.data = frames[t].data
    BY <1>1 DEF FrameRecord
  <2> HIDE DEF r
  <2> QED BY <1>1, <2>1, <2>2
<1>3. \A q \in FilePage : Reads(q)' = Contents[q]
  BY <1>1, <1>2, ContentsAre, Mapped DEF Reads, Resident
<1> QED BY <1>3, ContentsAre, ContentsNext

LEMMA FlushReads ==
    ASSUME PoolInv, NEW P \in SUBSET FilePage, Flush(P)
    PROVE  Contents' = Contents
<1>1. /\ UNCHANGED table
      /\ \A p \in FilePage :
            file'[p] = IF p \in Dirty(P) THEN frames[table[p]].data ELSE file[p]
      /\ \A f \in Frame : frames'[f].data = frames[f].data
  BY FlushIs
<1>2. \A q \in FilePage : ~Resident(q) => q \notin Dirty(P)
  BY DEF Dirty
<1>3. \A q \in FilePage : Reads(q)' = Contents[q]
  BY <1>1, <1>2, ContentsAre, Mapped DEF Reads, Resident
<1> QED BY <1>3, ContentsAre, ContentsNext

LEMMA ChangeReads ==
    ASSUME PoolInv, NEW c \in Client, NEW d \in Data, Change(c, d)
    PROVE  \E p \in FilePage : p < size /\ Contents' = [Contents EXCEPT ![p] = d]
<1>1. PICK p \in FilePage : /\ p = handle[c].page /\ Resident(p) /\ table[p] \in Frame
                            /\ frames[table[p]].page = p
  BY PinnedPage DEF Change
<1> DEFINE t == table[p]
<1>2. /\ frames' = [frames EXCEPT ![t].data = d] /\ UNCHANGED <<file, table>>
      /\ frames \in [Frame -> FrameRecord]
  BY <1>1, Records DEF Change, PoolInv
<1> HIDE DEF t
<1>3. p < size
  BY <1>1 DEF PoolInv, HandlesOK
<1>4. /\ \A f \in Frame : f # t => frames'[f].data = frames[f].data
      /\ frames'[t].data = d
  <2>1. [frames[t] EXCEPT !.data = d].data = d /\ t \in Frame
    BY <1>1, <1>2 DEF FrameRecord, t
  <2> QED BY <1>2, <2>1
<1>5. \A q \in FilePage : q # p /\ Resident(q) => table[q] \in Frame /\ table[q] # t
  BY <1>1, Mapped DEF t
<1>6. Reads(p)' = d
  BY <1>1, <1>2, <1>4 DEF Reads, Resident, t
<1>7. \A q \in FilePage : q # p => Reads(q)' = Contents[q]
  BY <1>2, <1>4, <1>5, ContentsAre DEF Reads, Resident
<1> DEFINE w == [Contents EXCEPT ![p] = d]
<1>8. w \in [FilePage -> Data] /\ \A q \in FilePage : w[q] = IF q = p THEN d ELSE Contents[q]
  BY ContentsAre
<1> HIDE DEF w
<1>9. Contents' = w
  BY <1>6, <1>7, <1>8, ContentsNext
<1> QED BY <1>3, <1>9 DEF w

\* What the file-and-pool does is one of these, seen by its callers.
StoreStep ==
    \/ size < FilePages /\ size' = size + 1
       /\ Contents' \in {Contents, [Contents EXCEPT ![size] = Formatted]}
    \/ size' = size /\ \E p \in FilePage, d \in Data : p < size /\ Contents' = [Contents EXCEPT ![p] = d]
    \/ size' = size /\ Contents' = Contents

LEMMA NextStores ==
    ASSUME PoolInv, [PoolNext]_poolVars
    PROVE  StoreStep
<1>1. ASSUME NEW c \in Client, NEW p \in FilePage, Pin(c, p) PROVE StoreStep
  <2>1. size' = size /\ file[p] \in Data
    BY <1>1, Records DEF Pin, PoolInv
  <2>2. CASE Hit(p)
    BY <2>1, <2>2, HitReads DEF StoreStep
  <2>3. CASE Miss(c, p, file[p], FALSE)
    <3>1. PICK f : Loads(f, p, file[p], FALSE)
      BY <2>1, <2>3, MissLoads
    <3>2. Contents' = [Contents EXCEPT ![p] = file[p]]
      BY <3>1, LoadsReads
    <3>3. Contents[p] = file[p]
      BY <3>1, ContentsAre DEF Loads
    <3>4. Contents \in [FilePage -> Data]
      BY ContentsAre
    <3>5. Contents' = Contents
      BY <3>2, <3>3, <3>4
    <3> QED BY <2>1, <3>5 DEF StoreStep
  <2>4. CASE NoVictim
    BY <2>1, <2>4, NoVictimReads DEF StoreStep
  <2> QED BY <1>1, <2>2, <2>3, <2>4 DEF Pin, Miss
<1>2. ASSUME NEW c \in Client, NEW d \in Data, Change(c, d) PROVE StoreStep
  <2>1. size' = size
    BY <1>2 DEF Change
  <2> QED BY <1>2, <2>1, ChangeReads DEF StoreStep
<1>3. ASSUME NEW c \in Client, NewPage(c) PROVE StoreStep
  <2>1. size \in FilePage /\ size < FilePages /\ size' = size + 1 /\ Formatted \in Data
    BY <1>3, PoolConstants DEF NewPage, FilePage
  <2>2. CASE Miss(c, size, Formatted, TRUE)
    <3>1. PICK f : Loads(f, size, Formatted, TRUE)
      BY <2>1, <2>2, MissLoads
    <3>2. Contents' = [Contents EXCEPT ![size] = Formatted]
      BY <3>1, LoadsReads
    <3> QED BY <2>1, <3>2 DEF StoreStep
  <2>3. CASE NoVictim
    BY <2>1, <2>3, NoVictimReads DEF StoreStep
  <2> QED BY <1>3, <2>2, <2>3 DEF NewPage, Miss
<1>4. ASSUME NEW c \in Client, Unpin(c) PROVE StoreStep
  <2>1. size' = size
    BY <1>4 DEF Unpin
  <2> QED BY <1>4, <2>1, UnpinReads DEF StoreStep
<1>5. ASSUME NEW P \in SUBSET FilePage, Flush(P) PROVE StoreStep
  <2>1. size' = size
    BY <1>5 DEF Flush
  <2> QED BY <1>5, <2>1, FlushReads DEF StoreStep
<1>6. ASSUME UNCHANGED poolVars PROVE StoreStep
  <2>1. size' = size /\ Contents' = Contents
    BY <1>6 DEF poolVars, Contents, Resident
  <2> QED BY <2>1 DEF StoreStep
<1>7. FilePage \in SUBSET FilePage /\ \A p \in FilePage : {p} \in SUBSET FilePage
  OBVIOUS
<1> QED BY <1>1, <1>2, <1>3, <1>4, <1>5, <1>6, <1>7 DEF PoolNext

\* For its callers the pool is the file: whatever is loaded, evicted, written back or
\* flushed, every page reads as it was last written, for any number of frames, pages and
\* clients (buffer_pool.cpp:76-78, 139-172).
THEOREM PoolImplementsStore == PoolSpec => ImplementsPageStore
<1>1. PoolInit => Store!StoreInit
  <2> SUFFICES ASSUME PoolInit PROVE Store!StoreInit
    OBVIOUS
  <2>1. PoolInv
    BY InitPool
  <2>2. \A p \in FilePage : ~Resident(p) /\ file[p] = Zeroes
    BY DEF PoolInit, Resident
  <2>3. [p \in FilePage |-> IF Resident(p) THEN frames[table[p]].data ELSE file[p]]
           = [p \in FilePage |-> Zeroes]
    BY <2>2
  <2>4. size \in 0..FilePages
    BY <2>1, Records DEF PoolInv
  <2> QED BY <2>3, <2>4 DEF Store!StoreInit, FilePage
<1>2. ASSUME PoolInv, [PoolNext]_poolVars
      PROVE  [Store!Extend \/ Store!WritePage]_(Store!storeVars)
  <2>1. StoreStep
    BY <1>2, NextStores
  <2>2. ASSUME size < FilePages, size' = size + 1,
               Contents' \in {Contents, [Contents EXCEPT ![size] = Formatted]}
        PROVE  Store!Extend
    BY <2>2 DEF Store!Extend, Contents
  <2>3. ASSUME size' = size, NEW p \in FilePage, NEW d \in Data, p < size,
               Contents' = [Contents EXCEPT ![p] = d]
        PROVE  Store!WritePage
    <3>1. p \in 0..(size - 1)
      <4>1. size \in Nat /\ p \in Nat
        BY <1>2, PagesAre, PoolConstants, Records DEF PoolInv
      <4> QED BY <2>3, <4>1
    <3> QED BY <2>3, <3>1 DEF Store!WritePage, Contents
  <2>4. ASSUME size' = size, Contents' = Contents PROVE UNCHANGED Store!storeVars
    BY <2>4 DEF Store!storeVars, Contents
  <2> QED BY <2>1, <2>2, <2>3, <2>4 DEF StoreStep
<1>3. PoolInit => PoolInv
  BY InitPool
<1>4. PoolInv /\ [PoolNext]_poolVars => PoolInv'
  BY NextPool
<1> QED BY <1>1, <1>2, <1>3, <1>4, PTL DEF PoolSpec, ImplementsPageStore, Store!StoreSpec

----------------------------------------------------------------------------
(* The commit log: what its cache holds. *)

StatusPage == [Slots -> TransactionStatus]
BufferRecord == [valid : BOOLEAN, page : ClogPage, dirty : BOOLEAN, data : StatusPage]

\* What a page of the log reads as.
Shown(p) == IF \E b \in Buffer : Holds(b, p)
            THEN clogFrames[CHOOSE b \in Buffer : Holds(b, p)].data ELSE disk[p]

\* No page is in two frames, each that is there is one of the file, a clean frame is as the
\* file, and the file has nothing where it has not yet grown.
ClogInv ==
    /\ disk \in [ClogPage -> StatusPage]
    /\ clogSize \in Nat \ {0}
    /\ clogFrames \in [Buffer -> BufferRecord]
    /\ \A b \in Buffer : clogFrames[b].valid => clogFrames[b].page < clogSize
    /\ \A b, c \in Buffer : clogFrames[b].valid /\ Holds(c, clogFrames[b].page) => b = c
    /\ \A b \in Buffer : clogFrames[b].valid =>
          clogFrames[b].dirty \/ clogFrames[b].data = disk[clogFrames[b].page]
    /\ \A p \in ClogPage : p < clogSize \/ disk[p] = BlankPage

LEMMA ClogPages ==
    /\ Tx \in Nat /\ PerPage \in Nat /\ PerPage # 0
    /\ \A x \in ClogXid : x \in Nat /\ PageOf(x) \in ClogPage /\ PageOf(x) \in Nat /\ SlotOf(x) \in Slots
    /\ ClogPage \subseteq Nat /\ 0 \in ClogPage
    /\ BlankPage \in StatusPage /\ \A i \in Slots : BlankPage[i] = InProgress
    /\ InProgress \in TransactionStatus
    /\ \A x, y \in ClogXid : PageOf(x) = PageOf(y) /\ SlotOf(x) = SlotOf(y) => x = y
<1>1. Tx \in Nat /\ Tx # 0 /\ PerPage \in Nat /\ PerPage # 0
  BY CommitLogConstants
<1>2. ASSUME NEW x \in ClogXid
      PROVE  /\ x \in Nat /\ PageOf(x) \in ClogPage /\ PageOf(x) \in Nat /\ SlotOf(x) \in Slots
             /\ x = (PerPage * PageOf(x)) + SlotOf(x)
  <2>1. x \in Nat
    BY <1>1 DEF ClogXid
  <2>2. x \div PerPage \in Nat /\ x % PerPage \in 0..(PerPage - 1)
    BY <1>1, <2>1
  <2>3. x = (PerPage * (x \div PerPage)) + (x % PerPage)
    BY <1>1, <2>1
  <2>4. PageOf(x) \in ClogPage
    BY DEF ClogPage
  <2> QED BY <2>1, <2>2, <2>3, <2>4 DEF PageOf, SlotOf, Slots
<1>3. ClogPage \subseteq Nat
  BY <1>2 DEF ClogPage
<1>4. 0 \in ClogPage
  <2>1. 0 \in ClogXid /\ PageOf(0) = 0
    BY <1>1 DEF ClogXid, PageOf
  <2> QED BY <1>2, <2>1
<1>5. InProgress \in TransactionStatus
  BY DEF TransactionStatus
<1>6. BlankPage \in StatusPage /\ \A i \in Slots : BlankPage[i] = InProgress
  BY <1>5 DEF BlankPage, StatusPage
<1>7. ASSUME NEW x \in ClogXid, NEW y \in ClogXid, PageOf(x) = PageOf(y), SlotOf(x) = SlotOf(y)
      PROVE  x = y
  <2>1. x = (PerPage * PageOf(x)) + SlotOf(x) /\ y = (PerPage * PageOf(y)) + SlotOf(y)
    BY <1>2
  <2> QED BY <1>7, <2>1
<1> QED BY <1>1, <1>2, <1>3, <1>4, <1>5, <1>6, <1>7

ShownOK ==
    \A p \in ClogPage :
        /\ \A b \in Buffer : Holds(b, p) => Shown(p) = clogFrames[b].data
        /\ (\A b \in Buffer : ~Holds(b, p)) => Shown(p) = disk[p]
        /\ Shown(p) \in StatusPage

LEMMA ShownIs == ClogInv => ShownOK
<1> SUFFICES ASSUME ClogInv, NEW p \in ClogPage
             PROVE  /\ \A b \in Buffer : Holds(b, p) => Shown(p) = clogFrames[b].data
                    /\ (\A b \in Buffer : ~Holds(b, p)) => Shown(p) = disk[p]
                    /\ Shown(p) \in StatusPage
  BY DEF ShownOK
<1>1. ASSUME NEW b \in Buffer, Holds(b, p)
      PROVE  Shown(p) = clogFrames[b].data /\ clogFrames[b].data \in StatusPage
  <2> DEFINE c == CHOOSE f \in Buffer : Holds(f, p)
  <2>1. c \in Buffer /\ Holds(c, p)
    BY <1>1
  <2>2. Shown(p) = clogFrames[c].data
    BY <1>1 DEF Shown
  <2> HIDE DEF c
  <2>3. clogFrames[c].valid /\ Holds(b, clogFrames[c].page)
    BY <1>1, <2>1 DEF Holds
  <2>4. c = b
    BY <2>1, <2>3 DEF ClogInv
  <2>5. clogFrames[b].data \in StatusPage
    BY DEF ClogInv, BufferRecord
  <2> QED BY <2>2, <2>4, <2>5
<1>2. ASSUME \A b \in Buffer : ~Holds(b, p)
      PROVE  Shown(p) = disk[p] /\ disk[p] \in StatusPage
  BY <1>2 DEF Shown, ClogInv
<1> QED BY <1>1, <1>2

LEMMA ShownNext == ClogInv' => ShownOK'
BY ShownIs, PTL

LEMMA InitClog == ClogInit => ClogInv
<1> SUFFICES ASSUME ClogInit PROVE ClogInv
  OBVIOUS
<1>1. Invalid \in BufferRecord /\ Invalid.valid = FALSE
  BY ClogPages DEF Invalid, BufferRecord
<1>2. \A b \in Buffer : clogFrames[b] = Invalid /\ clogFrames[b].valid = FALSE
  BY <1>1 DEF ClogInit
<1>3. clogFrames \in [Buffer -> BufferRecord] /\ disk \in [ClogPage -> StatusPage] /\ clogSize = 1
  BY <1>1, ClogPages DEF ClogInit
<1>4. \A p \in ClogPage : disk[p] = BlankPage
  BY DEF ClogInit
<1> QED BY <1>2, <1>3, <1>4 DEF ClogInv

----------------------------------------------------------------------------
(* A page of the log is used. *)

LEMMA WrittenIs ==
    ASSUME ClogInv, NEW B \in SUBSET Buffer
    PROVE  /\ Written(B) \in [ClogPage -> StatusPage]
           /\ \A p \in ClogPage :
                 /\ Written(B)[p] \in {disk[p], Shown(p)}
                 /\ (\E b \in B : Holds(b, p)) => Written(B)[p] = Shown(p)
                 /\ (\A b \in B : ~Holds(b, p)) => Written(B)[p] = disk[p]
<1> DEFINE W(p) == \E b \in B : Holds(b, p) /\ clogFrames[b].dirty
           chosen(p) == CHOOSE b \in B : Holds(b, p) /\ clogFrames[b].dirty
           w(p) == IF W(p) THEN clogFrames[chosen(p)].data ELSE disk[p]
<1>1. Written(B) = [p \in ClogPage |-> w(p)]
  BY DEF Written
<1>2. ASSUME NEW p \in ClogPage
      PROVE  /\ w(p) \in StatusPage /\ w(p) \in {disk[p], Shown(p)}
             /\ (\E b \in B : Holds(b, p)) => w(p) = Shown(p)
             /\ (\A b \in B : ~Holds(b, p)) => w(p) = disk[p]
  <2>1. disk[p] \in StatusPage
    BY DEF ClogInv
  <2>2. CASE W(p)
    <3>1. chosen(p) \in B /\ Holds(chosen(p), p)
      BY <2>2
    <3>2. w(p) = clogFrames[chosen(p)].data
      BY <2>2
    <3> HIDE DEF chosen, w
    <3>3. w(p) = Shown(p) /\ Shown(p) \in StatusPage
      BY <3>1, <3>2, ShownIs DEF ShownOK
    <3> QED BY <3>1, <3>3
  <2>3. CASE ~W(p)
    <3>1. w(p) = disk[p]
      BY <2>3
    <3> HIDE DEF w
    <3>2. ASSUME NEW b \in B, Holds(b, p) PROVE disk[p] = Shown(p)
      <4>1. ~clogFrames[b].dirty /\ clogFrames[b].valid /\ clogFrames[b].page = p
        BY <2>3, <3>2 DEF Holds
      <4>2. clogFrames[b].data = disk[p]
        BY <4>1 DEF ClogInv
      <4> QED BY <3>2, <4>2, ShownIs DEF ShownOK
    <3> QED BY <2>1, <3>1, <3>2
  <2> QED BY <2>2, <2>3
<1> HIDE DEF w
<1> QED BY <1>1, <1>2

\* What the frame that is used holds before, and what is done to the file for it.
LEMMA UsesIs ==
    ASSUME ClogInv, NEW p \in ClogPage, NEW n \in Nat, clogSize <= n, p < n, NEW b \in Buffer,
           NEW data, NEW dirty, Uses(p, n, b, data, dirty)
    PROVE  /\ data = Shown(p) /\ (dirty \/ data = disk'[p])
           /\ disk' \in [ClogPage -> StatusPage]
           /\ \A q \in ClogPage : /\ disk'[q] \in {disk[q], Shown(q)}
                                  /\ Holds(b, q) /\ q # p => disk'[q] = Shown(q)
                                  /\ ~Holds(b, q) => disk'[q] = disk[q]
           /\ \A f \in Buffer : f # b => ~Holds(f, p)
<1>1. ASSUME Holds(b, p), data = clogFrames[b].data, dirty = clogFrames[b].dirty, disk' = disk
      PROVE  /\ data = Shown(p) /\ (dirty \/ data = disk'[p])
             /\ disk' \in [ClogPage -> StatusPage]
             /\ \A q \in ClogPage : /\ disk'[q] \in {disk[q], Shown(q)}
                                    /\ Holds(b, q) /\ q # p => disk'[q] = Shown(q)
                                    /\ ~Holds(b, q) => disk'[q] = disk[q]
             /\ \A f \in Buffer : f # b => ~Holds(f, p)
  <2>1. clogFrames[b].valid /\ clogFrames[b].page = p
    BY <1>1 DEF Holds
  <2>2. data = Shown(p)
    BY <1>1, ShownIs DEF ShownOK
  <2>3. dirty \/ data = disk'[p]
    BY <1>1, <2>1 DEF ClogInv
  <2>4. \A f \in Buffer : Holds(f, p) => f = b
    BY <2>1 DEF ClogInv
  <2>5. \A q \in ClogPage : Holds(b, q) => q = p
    BY <2>1 DEF Holds
  <2> QED BY <1>1, <2>2, <2>3, <2>4, <2>5 DEF ClogInv
<1>2. ASSUME \A f \in Buffer : ~Holds(f, p), disk' = Written({b}),
             data = (IF p < n THEN disk[p] ELSE BlankPage), dirty = FALSE
      PROVE  /\ data = Shown(p) /\ (dirty \/ data = disk'[p])
             /\ disk' \in [ClogPage -> StatusPage]
             /\ \A q \in ClogPage : /\ disk'[q] \in {disk[q], Shown(q)}
                                    /\ Holds(b, q) /\ q # p => disk'[q] = Shown(q)
                                    /\ ~Holds(b, q) => disk'[q] = disk[q]
             /\ \A f \in Buffer : f # b => ~Holds(f, p)
  <2>1. /\ disk' \in [ClogPage -> StatusPage]
        /\ \A q \in ClogPage :
              /\ disk'[q] \in {disk[q], Shown(q)}
              /\ (\E f \in {b} : Holds(f, q)) => disk'[q] = Shown(q)
              /\ (\A f \in {b} : ~Holds(f, q)) => disk'[q] = disk[q]
    BY <1>2, WrittenIs
  <2>2. data = disk[p]
    BY <1>2
  <2>3. disk[p] = Shown(p)
    BY <1>2, ShownIs DEF ShownOK
  <2> QED BY <1>2, <2>1, <2>2, <2>3
<1> QED BY <1>1, <1>2 DEF Uses

\* After the use the frame b has the page p with the content e, and is dirty when e is new.
Clean(w, e, p) == w \/ e = disk'[p]

LEMMA UsedKeeps ==
    ASSUME ClogInv, NEW p \in ClogPage, NEW n \in Nat, clogSize <= n, p < n, NEW b \in Buffer,
           NEW data, NEW dirty, Uses(p, n, b, data, dirty),
           NEW e \in StatusPage, NEW w \in BOOLEAN, Clean(w, e, p), clogSize' = n,
           clogFrames' = [clogFrames EXCEPT ![b] =
                             [valid |-> TRUE, page |-> p, dirty |-> w, data |-> e]]
    PROVE  /\ ClogInv'
           /\ \A q \in ClogPage : Shown(q)' = IF q = p THEN e ELSE Shown(q)
           /\ \A q \in ClogPage : disk'[q] \in {disk[q], Shown(q)}
<1>1. /\ disk' \in [ClogPage -> StatusPage]
      /\ \A q \in ClogPage : /\ disk'[q] \in {disk[q], Shown(q)}
                             /\ Holds(b, q) /\ q # p => disk'[q] = Shown(q)
                             /\ ~Holds(b, q) => disk'[q] = disk[q]
      /\ \A f \in Buffer : f # b => ~Holds(f, p)
  BY UsesIs
<1>2. /\ clogFrames' \in [Buffer -> BufferRecord]
      /\ clogFrames'[b] = [valid |-> TRUE, page |-> p, dirty |-> w, data |-> e]
      /\ \A f \in Buffer : f # b => clogFrames'[f] = clogFrames[f]
  BY DEF ClogInv, BufferRecord
<1>3. /\ clogFrames'[b].valid /\ clogFrames'[b].page = p /\ clogFrames'[b].data = e
      /\ clogFrames'[b].dirty = w
  BY <1>2
<1>4. clogSize \in Nat \ {0} /\ clogSize' \in Nat \ {0}
  BY DEF ClogInv
<1>5. ASSUME NEW f \in Buffer, f # b, clogFrames[f].valid
      PROVE  /\ clogFrames[f].page \in ClogPage /\ clogFrames[f].page # p
             /\ ~Holds(b, clogFrames[f].page)
             /\ disk'[clogFrames[f].page] = disk[clogFrames[f].page]
  <2>1. PICK q \in ClogPage : q = clogFrames[f].page
    BY DEF ClogInv, BufferRecord
  <2>2. Holds(f, q)
    BY <1>5, <2>1 DEF Holds
  <2>3. ~Holds(b, q) /\ q # p
    BY <1>1, <1>5, <2>1, <2>2 DEF ClogInv
  <2> QED BY <1>1, <2>1, <2>3
<1>6. ClogInv'
  <2>1. ASSUME NEW f \in Buffer, clogFrames'[f].valid
        PROVE  clogFrames'[f].page < clogSize'
    <3>1. CASE f = b
      BY <1>3, <3>1
    <3>2. CASE f # b
      <4>1. clogFrames'[f].page = clogFrames[f].page /\ clogFrames[f].valid
        BY <1>2, <2>1, <3>2
      <4>2. clogFrames[f].page < clogSize /\ clogFrames[f].page \in Nat
        BY <1>5, <3>2, <4>1, ClogPages DEF ClogInv
      <4> QED BY <1>4, <4>1, <4>2
    <3> QED BY <3>1, <3>2
  <2>2. ASSUME NEW f \in Buffer, NEW g \in Buffer, clogFrames'[f].valid, clogFrames'[g].valid,
               clogFrames'[g].page = clogFrames'[f].page
        PROVE  f = g
    <3>1. CASE f = b /\ g = b
      BY <3>1
    <3>2. CASE f # b /\ g = b
      BY <1>2, <1>3, <1>5, <2>2, <3>2
    <3>3. CASE f = b /\ g # b
      BY <1>2, <1>3, <1>5, <2>2, <3>3
    <3>4. CASE f # b /\ g # b
      BY <1>2, <2>2, <3>4 DEF ClogInv, Holds
    <3> QED BY <3>1, <3>2, <3>3, <3>4
  <2>3. ASSUME NEW f \in Buffer, clogFrames'[f].valid
        PROVE  clogFrames'[f].dirty \/ clogFrames'[f].data = disk'[clogFrames'[f].page]
    <3>1. CASE f = b
      BY <1>3, <3>1 DEF Clean
    <3>2. CASE f # b
      <4>1. clogFrames'[f] = clogFrames[f] /\ clogFrames[f].valid
        BY <1>2, <2>3, <3>2
      <4>2. clogFrames[f].dirty \/ clogFrames[f].data = disk[clogFrames[f].page]
        BY <4>1 DEF ClogInv
      <4> QED BY <1>5, <3>2, <4>1, <4>2
    <3> QED BY <3>1, <3>2
  <2>4. ASSUME NEW q \in ClogPage PROVE q < clogSize' \/ disk'[q] = BlankPage
    <3>1. CASE q < clogSize
      BY <1>4, <3>1, ClogPages
    <3>2. CASE ~(q < clogSize)
      <4>1. ~Holds(b, q)
        BY <3>2 DEF ClogInv, Holds
      <4> QED BY <1>1, <3>2, <4>1 DEF ClogInv
    <3> QED BY <3>1, <3>2
  <2> QED BY <1>1, <1>2, <1>4, <2>1, <2>2, <2>3, <2>4 DEF ClogInv, Holds
<1>7. ASSUME NEW q \in ClogPage PROVE Shown(q)' = IF q = p THEN e ELSE Shown(q)
  <2>1. CASE q = p
    <3>1. Holds(b, p)'
      BY <1>3 DEF Holds
    <3>2. Shown(p)' = clogFrames'[b].data
      BY <1>6, <3>1, ShownNext DEF ShownOK
    <3> QED BY <1>3, <2>1, <3>2
  <2>2. CASE q # p /\ \E f \in Buffer : f # b /\ Holds(f, q)
    <3>1. PICK f \in Buffer : f # b /\ Holds(f, q)
      BY <2>2
    <3>2. Holds(f, q)' /\ clogFrames'[f] = clogFrames[f]
      BY <1>2, <3>1 DEF Holds
    <3>3. Shown(q)' = clogFrames'[f].data
      BY <1>6, <3>2, ShownNext DEF ShownOK
    <3>4. Shown(q) = clogFrames[f].data
      BY <3>1, ShownIs DEF ShownOK
    <3> QED BY <2>2, <3>2, <3>3, <3>4
  <2>3. CASE q # p /\ \A f \in Buffer : f # b => ~Holds(f, q)
    <3>1. \A f \in Buffer : ~Holds(f, q)'
      BY <1>2, <1>3, <2>3 DEF Holds
    <3>2. Shown(q)' = disk'[q]
      BY <1>6, <3>1, ShownNext DEF ShownOK
    <3>3. CASE Holds(b, q)
      BY <1>1, <2>3, <3>2, <3>3
    <3>4. CASE ~Holds(b, q)
      <4>1. \A f \in Buffer : ~Holds(f, q)
        BY <2>3, <3>4
      <4> QED BY <1>1, <2>3, <3>2, <3>4, <4>1, ShownIs DEF ShownOK
    <3> QED BY <3>3, <3>4
  <2> QED BY <2>1, <2>2, <2>3
<1> QED BY <1>1, <1>6, <1>7

----------------------------------------------------------------------------
(* The commit log as StatusLog. *)

\* What every transaction's status reads as, and what it reads as after a crash.
NowReads == [x \in ClogXid |-> StatusOf(x)]
Durably  == [x \in ClogXid |-> disk[PageOf(x)][SlotOf(x)]]

StatusIs(x) == StatusOf(x) = Shown(PageOf(x))[SlotOf(x)]
StatusesShown == \A x \in ClogXid : StatusIs(x)

LEMMA StatusShown == ClogInv => StatusesShown
<1> SUFFICES ASSUME ClogInv, NEW x \in ClogXid PROVE StatusIs(x)
  BY DEF StatusesShown
<1> DEFINE p == PageOf(x)
<1>1. p \in ClogPage /\ SlotOf(x) \in Slots
  BY ClogPages
<1>2. CASE \E b \in Buffer : Holds(b, p)
  BY <1>2 DEF StatusIs, StatusOf, Shown
<1>3. CASE ~\E b \in Buffer : Holds(b, p)
  <2>1. Shown(p) = disk[p]
    BY <1>3 DEF Shown
  <2>2. StatusOf(x) = IF p < clogSize THEN disk[p][SlotOf(x)] ELSE InProgress
    BY <1>3 DEF StatusOf
  <2>3. p < clogSize \/ disk[p] = BlankPage
    BY <1>1 DEF ClogInv
  <2>4. BlankPage[SlotOf(x)] = InProgress
    BY <1>1, ClogPages
  <2> QED BY <2>1, <2>2, <2>3, <2>4 DEF StatusIs
<1> QED BY <1>2, <1>3

LEMMA StatusNext == ClogInv' => StatusesShown'
BY StatusShown, PTL

\* From pages to statuses: a step of the pages is one of the statuses.
LEMMA SetReads ==
    ASSUME ClogInv, ClogInv', NEW x \in ClogXid, NEW s \in TransactionStatus,
           \A q \in ClogPage : Shown(q)' = IF q = PageOf(x) THEN [Shown(q) EXCEPT ![SlotOf(x)] = s]
                                           ELSE Shown(q)
    PROVE  NowReads' = [NowReads EXCEPT ![x] = s]
<1>1. ASSUME NEW y \in ClogXid PROVE StatusOf(y)' = IF y = x THEN s ELSE StatusOf(y)
  <2>1. PICK p \in ClogPage : p = PageOf(y)
    BY ClogPages
  <2>2. PICK i \in Slots : i = SlotOf(y)
    BY ClogPages
  <2>3. StatusOf(y) = Shown(p)[i]
    BY <2>1, <2>2, StatusShown DEF StatusesShown, StatusIs
  <2>4. StatusOf(y)' = (Shown(p)')[i]
    BY <2>1, <2>2, StatusNext DEF StatusesShown, StatusIs
  <2>5. Shown(p) \in StatusPage
    BY ShownIs DEF ShownOK
  <2>6. CASE y = x
    <3>1. Shown(p)' = [Shown(p) EXCEPT ![i] = s]
      BY <2>1, <2>2, <2>6
    <3>2. [Shown(p) EXCEPT ![i] = s][i] = s
      BY <2>5 DEF StatusPage
    <3> QED BY <2>4, <2>6, <3>1, <3>2
  <2>7. CASE y # x /\ p = PageOf(x)
    <3>1. Shown(p)' = [Shown(p) EXCEPT ![SlotOf(x)] = s]
      BY <2>7
    <3>2. i # SlotOf(x)
      BY <2>1, <2>2, <2>7, ClogPages
    <3>3. [Shown(p) EXCEPT ![SlotOf(x)] = s][i] = Shown(p)[i]
      BY <2>5, <3>2 DEF StatusPage
    <3> QED BY <2>3, <2>4, <2>7, <3>1, <3>3
  <2>8. CASE p # PageOf(x)
    BY <2>1, <2>3, <2>4, <2>8
  <2> QED BY <2>6, <2>7, <2>8
<1> QED BY <1>1 DEF NowReads

LEMMA SameReads ==
    ASSUME ClogInv, ClogInv', \A q \in ClogPage : Shown(q)' = Shown(q)
    PROVE  NowReads' = NowReads
<1>1. ASSUME NEW y \in ClogXid PROVE StatusOf(y)' = StatusOf(y)
  <2>1. PICK p \in ClogPage : p = PageOf(y)
    BY ClogPages
  <2>2. StatusOf(y) = Shown(p)[SlotOf(y)]
    BY <2>1, StatusShown DEF StatusesShown, StatusIs
  <2>3. StatusOf(y)' = (Shown(p)')[SlotOf(y)]
    BY <2>1, StatusNext DEF StatusesShown, StatusIs
  <2> QED BY <2>2, <2>3
<1> QED BY <1>1 DEF NowReads

LEMMA PersistsReads ==
    ASSUME ClogInv, \A q \in ClogPage : disk'[q] \in {disk[q], Shown(q)}
    PROVE  \A x \in ClogXid : Durably'[x] \in {Durably[x], NowReads[x]}
<1> SUFFICES ASSUME NEW x \in ClogXid PROVE Durably'[x] \in {Durably[x], NowReads[x]}
  OBVIOUS
<1>1. PICK p \in ClogPage : p = PageOf(x)
  BY ClogPages
<1>2. NowReads[x] = Shown(p)[SlotOf(x)]
  BY <1>1, StatusShown DEF StatusesShown, StatusIs, NowReads
<1>3. Durably[x] = disk[p][SlotOf(x)] /\ Durably'[x] = disk'[p][SlotOf(x)]
  BY <1>1 DEF Durably
<1> QED BY <1>2, <1>3

\* The steps of the log, seen in its statuses.
Persistently == \A x \in ClogXid : Durably'[x] \in {Durably[x], NowReads[x]}

LogStep ==
    \/ Persistently /\ \E x \in ClogXid, s \in TransactionStatus : NowReads' = [NowReads EXCEPT ![x] = s]
    \/ NowReads' = NowReads /\ Durably' = NowReads
    \/ Persistently /\ NowReads' = NowReads
    \/ Durably' = Durably /\ NowReads' = Durably

LEMMA SetSteps ==
    ASSUME ClogInv, NEW x \in ClogXid, NEW s \in TransactionStatus, SetStatus(x, s)
    PROVE  ClogInv' /\ LogStep
<1> DEFINE p == PageOf(x)
           n == IF clogSize <= p THEN p + 1 ELSE clogSize
<1>1. p \in ClogPage /\ p \in Nat /\ clogSize \in Nat /\ SlotOf(x) \in Slots
  BY ClogPages DEF ClogInv
<1>2. n \in Nat /\ clogSize <= n /\ p < n /\ clogSize' = n
  BY <1>1 DEF SetStatus
<1> HIDE DEF n
<1>3. PICK b \in Buffer, data \in StatusPage, dirty \in BOOLEAN :
         /\ Uses(p, n, b, data, dirty)
         /\ clogFrames' = [clogFrames EXCEPT ![b] =
               [valid |-> TRUE, page |-> p, dirty |-> TRUE, data |-> [data EXCEPT ![SlotOf(x)] = s]]]
  BY DEF SetStatus, StatusPage, n
<1> DEFINE e == [data EXCEPT ![SlotOf(x)] = s]
<1>4. e \in StatusPage
  BY <1>1 DEF StatusPage
<1>5. data = Shown(p)
  BY <1>1, <1>2, <1>3, UsesIs
<1>6. clogFrames' = [clogFrames EXCEPT ![b] = [valid |-> TRUE, page |-> p, dirty |-> TRUE, data |-> e]]
  BY <1>3
<1>7. e = [Shown(p) EXCEPT ![SlotOf(x)] = s]
  BY <1>5
<1> HIDE DEF e
<1>8. /\ ClogInv'
      /\ \A q \in ClogPage : Shown(q)' = IF q = p THEN e ELSE Shown(q)
      /\ \A q \in ClogPage : disk'[q] \in {disk[q], Shown(q)}
  <2>1. Clean(TRUE, e, p)
    BY DEF Clean
  <2> QED BY <1>1, <1>2, <1>3, <1>4, <1>6, <2>1, UsedKeeps
<1>9. NowReads' = [NowReads EXCEPT ![x] = s]
  BY <1>7, <1>8, SetReads
<1>10. Persistently
  BY <1>8, PersistsReads DEF Persistently
<1> QED BY <1>8, <1>9, <1>10 DEF LogStep

LEMMA GetSteps ==
    ASSUME ClogInv, NEW x \in ClogXid, GetStatus(x)
    PROVE  ClogInv' /\ LogStep
<1> DEFINE p == PageOf(x)
<1>1. PICK n \in Nat : p \in ClogPage /\ n = clogSize /\ p < n /\ clogSize' = n /\ clogSize <= n
  BY ClogPages DEF ClogInv, GetStatus
<1>2. PICK b \in Buffer, data \in StatusPage, dirty \in BOOLEAN :
         /\ Uses(p, n, b, data, dirty)
         /\ clogFrames' = [clogFrames EXCEPT ![b] =
               [valid |-> TRUE, page |-> p, dirty |-> dirty, data |-> data]]
  BY <1>1 DEF GetStatus, StatusPage
<1>3. data = Shown(p) /\ (dirty \/ data = disk'[p])
  BY <1>1, <1>2, UsesIs
<1>4. /\ ClogInv'
      /\ \A q \in ClogPage : Shown(q)' = IF q = p THEN data ELSE Shown(q)
      /\ \A q \in ClogPage : disk'[q] \in {disk[q], Shown(q)}
  <2>1. Clean(dirty, data, p)
    BY <1>3 DEF Clean
  <2> QED BY <1>1, <1>2, <2>1, UsedKeeps
<1>5. NowReads' = NowReads
  BY <1>3, <1>4, SameReads
<1>6. Persistently
  BY <1>4, PersistsReads DEF Persistently
<1> QED BY <1>4, <1>5, <1>6 DEF LogStep

LEMMA FlushSteps ==
    ASSUME ClogInv, FlushClog
    PROVE  ClogInv' /\ LogStep
<1>1. /\ disk' = Written(Buffer) /\ UNCHANGED <<clogSize, recency, crashes>>
      /\ clogFrames' = [b \in Buffer |-> [clogFrames[b] EXCEPT !.dirty = FALSE]]
  BY DEF FlushClog
<1>2. /\ disk' \in [ClogPage -> StatusPage]
      /\ \A q \in ClogPage : /\ (\E b \in Buffer : Holds(b, q)) => disk'[q] = Shown(q)
                             /\ (\A b \in Buffer : ~Holds(b, q)) => disk'[q] = disk[q]
  <2>1. Buffer \in SUBSET Buffer
    OBVIOUS
  <2> QED BY <1>1, <2>1, WrittenIs
<1>3. ASSUME NEW b \in Buffer
      PROVE  /\ clogFrames'[b] \in BufferRecord /\ clogFrames'[b].valid = clogFrames[b].valid
             /\ clogFrames'[b].page = clogFrames[b].page /\ clogFrames'[b].data = clogFrames[b].data
  <2>1. clogFrames[b] \in BufferRecord
    BY DEF ClogInv
  <2>2. clogFrames'[b] = [clogFrames[b] EXCEPT !.dirty = FALSE]
    BY <1>1
  <2> QED BY <2>1, <2>2 DEF BufferRecord
<1>4. clogFrames' \in [Buffer -> BufferRecord]
  BY <1>1, <1>3
<1>5. \A q \in ClogPage : disk'[q] = Shown(q)
  BY <1>2, ShownIs DEF ShownOK
<1>6. \A b \in Buffer, q \in ClogPage : Holds(b, q)' <=> Holds(b, q)
  BY <1>3 DEF Holds
<1>7. ClogInv'
  <2>1. \A b \in Buffer : clogFrames'[b].valid => clogFrames'[b].page < clogSize'
    BY <1>1, <1>3 DEF ClogInv
  <2>2. \A b, c \in Buffer : clogFrames'[b].valid /\ clogFrames'[c].valid
                             /\ clogFrames'[c].page = clogFrames'[b].page => b = c
    BY <1>3 DEF ClogInv, Holds
  <2>3. ASSUME NEW b \in Buffer, clogFrames'[b].valid
        PROVE  clogFrames'[b].data = disk'[clogFrames'[b].page]
    <3>1. PICK q \in ClogPage : q = clogFrames[b].page
      BY DEF ClogInv, BufferRecord
    <3>2. Holds(b, q)
      BY <1>3, <2>3, <3>1 DEF Holds
    <3>3. Shown(q) = clogFrames[b].data
      BY <3>2, ShownIs DEF ShownOK
    <3> QED BY <1>3, <1>5, <3>1, <3>3
  <2>4. ASSUME NEW q \in ClogPage PROVE q < clogSize' \/ disk'[q] = BlankPage
    <3>1. CASE q < clogSize
      BY <1>1, <3>1
    <3>2. CASE ~(q < clogSize)
      <4>1. \A b \in Buffer : ~Holds(b, q)
        BY <3>2 DEF ClogInv, Holds
      <4> QED BY <1>2, <3>2, <4>1 DEF ClogInv
    <3> QED BY <3>1, <3>2
  <2>5. clogSize' \in Nat \ {0}
    BY <1>1 DEF ClogInv
  <2> QED BY <1>2, <1>4, <2>1, <2>2, <2>3, <2>4, <2>5 DEF ClogInv, Holds
<1>8. ASSUME NEW q \in ClogPage PROVE Shown(q)' = Shown(q)
  <2>1. CASE \E b \in Buffer : Holds(b, q)
    <3>1. PICK b \in Buffer : Holds(b, q)
      BY <2>1
    <3>2. Shown(q)' = clogFrames'[b].data
      BY <1>6, <1>7, <3>1, ShownNext DEF ShownOK
    <3> QED BY <1>3, <3>1, <3>2, ShownIs DEF ShownOK
  <2>2. CASE \A b \in Buffer : ~Holds(b, q)
    <3>1. \A b \in Buffer : ~Holds(b, q)'
      BY <1>6, <2>2
    <3>2. Shown(q)' = disk'[q]
      BY <1>7, <3>1, ShownNext DEF ShownOK
    <3> QED BY <1>5, <3>2
  <2> QED BY <2>1, <2>2
<1>9. NowReads' = NowReads
  BY <1>7, <1>8, SameReads
<1>10. Durably' = NowReads
  <2>1. ASSUME NEW x \in ClogXid PROVE disk'[PageOf(x)][SlotOf(x)] = StatusOf(x)
    <3>1. StatusOf(x) = Shown(PageOf(x))[SlotOf(x)] /\ PageOf(x) \in ClogPage
      BY ClogPages, StatusShown DEF StatusesShown, StatusIs
    <3> QED BY <1>5, <3>1
  <2> QED BY <2>1 DEF Durably, NowReads
<1> QED BY <1>7, <1>9, <1>10 DEF LogStep

LEMMA CrashSteps ==
    ASSUME ClogInv, Crash
    PROVE  ClogInv' /\ LogStep
<1>1. clogFrames' = [b \in Buffer |-> Invalid] /\ UNCHANGED <<disk, clogSize>>
  BY DEF Crash
<1>2. Invalid \in BufferRecord /\ Invalid.valid = FALSE
  BY ClogPages DEF Invalid, BufferRecord
<1>3. clogFrames' \in [Buffer -> BufferRecord] /\ \A b \in Buffer : clogFrames'[b].valid = FALSE
  BY <1>1, <1>2
<1>4. ClogInv'
  BY <1>1, <1>3 DEF ClogInv, Holds
<1>5. \A q \in ClogPage : Shown(q)' = disk[q]
  BY <1>1, <1>3, <1>4, ShownNext DEF ShownOK, Holds
<1>6. NowReads' = Durably
  <2>1. ASSUME NEW x \in ClogXid PROVE StatusOf(x)' = disk[PageOf(x)][SlotOf(x)]
    <3>1. PICK p \in ClogPage : p = PageOf(x)
      BY ClogPages
    <3>2. StatusOf(x)' = (Shown(p)')[SlotOf(x)]
      BY <1>4, <3>1, StatusNext DEF StatusesShown, StatusIs
    <3> QED BY <1>5, <3>1, <3>2
  <2> QED BY <2>1 DEF NowReads, Durably
<1>7. Durably' = Durably
  BY <1>1 DEF Durably
<1> QED BY <1>4, <1>6, <1>7 DEF LogStep

LEMMA NextClog == ClogInv /\ [ClogNext]_clogVars => ClogInv' /\ (LogStep \/ UNCHANGED <<NowReads, Durably>>)
<1> SUFFICES ASSUME ClogInv, [ClogNext]_clogVars
             PROVE  ClogInv' /\ (LogStep \/ UNCHANGED <<NowReads, Durably>>)
  OBVIOUS
<1>1. ASSUME NEW x \in ClogXid, NEW s \in TransactionStatus \ {InProgress}, SetStatus(x, s)
      PROVE  ClogInv' /\ LogStep
  BY <1>1, SetSteps
<1>2. ASSUME NEW x \in ClogXid, GetStatus(x) PROVE ClogInv' /\ LogStep
  BY <1>2, GetSteps
<1>3. ASSUME UNCHANGED clogVars PROVE ClogInv' /\ UNCHANGED <<NowReads, Durably>>
  <2>1. disk' = disk /\ clogSize' = clogSize /\ clogFrames' = clogFrames
    BY <1>3 DEF clogVars
  <2>2. ClogInv'
    BY <2>1 DEF ClogInv, Holds
  <2>3. UNCHANGED <<NowReads, Durably>>
    BY <2>1 DEF NowReads, Durably, StatusOf, Holds
  <2> QED BY <2>2, <2>3
<1> QED BY <1>1, <1>2, <1>3, FlushSteps, CrashSteps DEF ClogNext

\* For every number of transactions, of entries in a page and of frames, and however often
\* the process dies: get_status answers what was last set, whatever has been evicted and
\* written meanwhile, and after a crash what has reached the file, which has lost no status
\* of the last flush (clog.h:44-45, clog.cpp:84-101).
THEOREM ClogImplementsStatusLog == ClogSpec => ImplementsStatusLog
<1>1. ClogInit => Log!LogInit
  <2> SUFFICES ASSUME ClogInit PROVE Log!LogInit
    OBVIOUS
  <2>1. ASSUME NEW x \in ClogXid PROVE StatusOf(x) = InProgress /\ disk[PageOf(x)][SlotOf(x)] = InProgress
    <3>1. PageOf(x) \in ClogPage /\ SlotOf(x) \in Slots
      BY ClogPages
    <3>2. disk[PageOf(x)] = BlankPage /\ BlankPage[SlotOf(x)] = InProgress
      BY <3>1, ClogPages DEF ClogInit
    <3>3. \A b \in Buffer : ~Holds(b, PageOf(x))
      BY DEF ClogInit, Invalid, Holds
    <3> QED BY <3>2, <3>3 DEF StatusOf
  <2>2. [x \in ClogXid |-> StatusOf(x)] = [x \in ClogXid |-> InProgress]
    BY <2>1
  <2>3. [x \in ClogXid |-> disk[PageOf(x)][SlotOf(x)]] = [x \in ClogXid |-> InProgress]
    BY <2>1
  <2> QED BY <2>2, <2>3 DEF Log!LogInit
<1>2. ASSUME ClogInv, [ClogNext]_clogVars
      PROVE  [Log!Set \/ Log!Flush \/ Log!Read \/ Log!Crash]_(Log!logVars)
  <2>1. LogStep \/ UNCHANGED <<NowReads, Durably>>
    BY <1>2, NextClog
  <2>2. ASSUME Persistently PROVE Log!Persists
    BY <2>2 DEF Persistently, Log!Persists, NowReads, Durably
  <2>3. ASSUME Persistently, NEW x \in ClogXid, NEW s \in TransactionStatus,
               NowReads' = [NowReads EXCEPT ![x] = s]
        PROVE  Log!Set
    BY <2>2, <2>3 DEF Log!Set, NowReads
  <2>4. ASSUME NowReads' = NowReads, Durably' = NowReads PROVE Log!Flush
    BY <2>4 DEF Log!Flush, NowReads, Durably
  <2>5. ASSUME Persistently, NowReads' = NowReads PROVE Log!Read
    BY <2>2, <2>5 DEF Log!Read, NowReads
  <2>6. ASSUME Durably' = Durably, NowReads' = Durably PROVE Log!Crash
    BY <2>6 DEF Log!Crash, NowReads, Durably
  <2>7. ASSUME UNCHANGED <<NowReads, Durably>> PROVE UNCHANGED Log!logVars
    BY <2>7 DEF Log!logVars, NowReads, Durably
  <2> QED BY <2>1, <2>3, <2>4, <2>5, <2>6, <2>7 DEF LogStep
<1>3. ClogInit => ClogInv
  BY InitClog
<1>4. ClogInv /\ [ClogNext]_clogVars => ClogInv'
  BY NextClog
<1> QED BY <1>1, <1>2, <1>3, <1>4, PTL DEF ClogSpec, ImplementsStatusLog, Log!LogSpec

----------------------------------------------------------------------------
(* The free space map. *)

\* k turns of a step F from a, as a function of the turn.
IsIterate(w, F, a, k) == w[0] = a /\ \A i \in 1..k : w[i] = F[w[i - 1]]

LEMMA Iterated ==
    ASSUME NEW S, NEW a \in S, NEW F \in [S -> S], NEW k \in Nat
    PROVE  \E w \in [0..k -> S] : IsIterate(w, F, a, k)
<1> DEFINE Bad == {m \in Nat : ~\E w \in [0..m -> S] : IsIterate(w, F, a, m)}
<1>1. SUFFICES ASSUME Bad # {} PROVE FALSE
  OBVIOUS
<1>2. PICK m \in Bad : \A n \in Bad : m <= n
  <2>1. Bad \in SUBSET Nat
    OBVIOUS
  <2> HIDE DEF Bad
  <2> QED BY <1>1, <2>1, LeastOf
<1>3. m # 0
  <2> DEFINE w == [i \in 0..0 |-> a]
  <2>1. w \in [0..0 -> S] /\ IsIterate(w, F, a, 0)
    BY DEF IsIterate
  <2> QED BY <1>2, <2>1
<1>4. m \in Nat /\ m - 1 \in Nat /\ m - 1 \notin Bad
  <2>1. m \in Nat /\ m - 1 \in Nat /\ ~(m <= m - 1)
    BY <1>2, <1>3
  <2> HIDE DEF Bad
  <2> QED BY <1>2, <2>1
<1>5. PICK v \in [0..(m - 1) -> S] : IsIterate(v, F, a, m - 1)
  BY <1>4
<1> DEFINE w == [i \in 0..m |-> IF i = m THEN F[v[m - 1]] ELSE v[i]]
<1>6. w \in [0..m -> S]
  BY <1>4, <1>5
<1>7. w[0] = a
  BY <1>3, <1>4, <1>5 DEF IsIterate
<1>8. ASSUME NEW i \in 1..m PROVE w[i] = F[w[i - 1]]
  <2>1. i - 1 \in 0..m /\ i \in 0..m /\ i - 1 # m /\ w[i - 1] = v[i - 1]
    BY <1>4
  <2>2. CASE i = m
    BY <2>1, <2>2
  <2>3. CASE i # m
    <3>1. i \in 1..(m - 1) /\ w[i] = v[i]
      BY <1>4, <2>3
    <3> QED BY <1>5, <2>1, <3>1 DEF IsIterate
  <2> QED BY <2>2, <2>3
<1> QED BY <1>2, <1>6, <1>7, <1>8 DEF IsIterate

----------------------------------------------------------------------------
(* One page of the map: a binary tree in which a node is the larger of its      *)
(* children.                                                                    *)

Larger(a, b) == IF a >= b THEN a ELSE b
OKAt(m, i)   == m[i] = Larger(m[2 * i + 1], m[2 * i + 2])
MapHeap(m)   == \A i \in 0..(Internals - 1) : OKAt(m, i)
Tree         == [Node -> Category]

LEMMA TreeSizes ==
    /\ Leaves \in Nat /\ Leaves >= 2 /\ Internals = Leaves - 1 /\ Internals \in Nat
    /\ Node = 0..(2 * Leaves - 2)
    /\ Highest \in Nat /\ Category = 0..Highest /\ Category \subseteq Nat
<1>1. Leaves \in Nat /\ Leaves >= 2 /\ PageBytes \in Nat \ {0} /\ PerCat \in Nat \ {0} /\ PageBytes >= PerCat
  BY MapConstants
<1>2. PageBytes \div PerCat \in Nat \ {0}
  BY <1>1
<1> QED BY <1>1, <1>2 DEF Internals, Node, Highest, Category

LEMMA MaxOfTwo ==
    ASSUME NEW a \in Nat, NEW b \in Nat
    PROVE  Max({a, b}) = Larger(a, b)
<1>1. Larger(a, b) \in {a, b} /\ \A y \in {a, b} : Larger(a, b) >= y
  BY DEF Larger
<1>2. \A x \in {a, b} : (\A y \in {a, b} : x >= y) => x = Larger(a, b)
  BY DEF Larger
<1> QED BY <1>1, <1>2 DEF Max

\* On the way up: every node is right but the parent of the one just changed.
Climbing(s, orig) ==
    /\ s.m \in Tree /\ s.at \in Node
    /\ \A i \in 0..(Internals - 1) : (s.at = 0 \/ i # Parent(s.at)) => OKAt(s.m, i)
    /\ \A l \in Internals..(2 * Leaves - 2) : s.m[l] = orig[l]

\* Each turn is at least a node nearer to the root.
Near(s, k) == MapHeap(s.m) \/ k = 0 \/ s.at <= Internals - k

LEMMA ParentIs ==
    ASSUME NEW i \in Node, i # 0
    PROVE  /\ Parent(i) \in 0..(Internals - 1) /\ Parent(i) < i
           /\ Sibling(i) \in Node /\ Sibling(i) # i /\ Sibling(i) # 0
           /\ \/ i = 2 * Parent(i) + 1 /\ Sibling(i) = 2 * Parent(i) + 2
              \/ i = 2 * Parent(i) + 2 /\ Sibling(i) = 2 * Parent(i) + 1
           /\ \A j \in 0..(Internals - 1) : i \in {2 * j + 1, 2 * j + 2} => j = Parent(i)
  BY TreeSizes DEF Parent, Sibling

LEMMA ClimbSteps ==
    ASSUME NEW s, NEW orig, Climbing(s, orig), NEW k \in Nat, Near(s, k)
    PROVE  Climbing(Raised(s), orig) /\ Near(Raised(s), k + 1)
<1> DEFINE i == s.at
           par == Parent(i)
           most == Larger(s.m[i], s.m[Sibling(i)])
<1>1. i \in Node /\ s.m \in Tree
  BY DEF Climbing
<1>2. CASE i = 0
  <2>1. Raised(s) = s
    BY <1>2 DEF Raised
  <2>2. MapHeap(s.m)
    BY <1>2 DEF Climbing, MapHeap
  <2> QED BY <2>1, <2>2 DEF Near
<1>3. CASE i # 0
  <2>1. /\ par \in 0..(Internals - 1) /\ par < i /\ par \in Node
        /\ Sibling(i) \in Node /\ Sibling(i) # par
        /\ \/ i = 2 * par + 1 /\ Sibling(i) = 2 * par + 2
           \/ i = 2 * par + 2 /\ Sibling(i) = 2 * par + 1
    <3>1. /\ par \in 0..(Internals - 1) /\ par < i /\ Sibling(i) \in Node
          /\ \/ i = 2 * par + 1 /\ Sibling(i) = 2 * par + 2
             \/ i = 2 * par + 2 /\ Sibling(i) = 2 * par + 1
      BY <1>1, <1>3, ParentIs
    <3> HIDE DEF par, i
    <3>2. par \in Node /\ Sibling(i) # par
      BY <3>1, TreeSizes
    <3> QED BY <3>1, <3>2
  <2>2. s.m[i] \in Nat /\ s.m[Sibling(i)] \in Nat /\ s.m[i] \in Category /\ s.m[Sibling(i)] \in Category
    BY <1>1, <2>1, TreeSizes DEF Tree
  <2>3. Max({s.m[i], s.m[Sibling(i)]}) = most /\ most \in Category
    BY <2>2, MaxOfTwo DEF Larger
  <2>4. most = Larger(s.m[2 * par + 1], s.m[2 * par + 2])
    BY <2>1, <2>2 DEF Larger
  <2>5. CASE s.m[par] = most
    <3>1. Raised(s) = s
      BY <2>3, <2>5 DEF Raised
    <3>2. OKAt(s.m, par)
      BY <2>4, <2>5 DEF OKAt
    <3>3. MapHeap(s.m)
      BY <3>2 DEF Climbing, MapHeap
    <3> QED BY <3>1, <3>3 DEF Near
  <2>6. CASE s.m[par] # most
    <3> DEFINE t == [m |-> [s.m EXCEPT ![par] = most], at |-> par]
    <3>1. Raised(s) = t
      BY <1>3, <2>3, <2>6 DEF Raised
    <3>2. t.m \in Tree /\ t.at \in Node
      BY <1>1, <2>1, <2>3 DEF Tree
    <3>3. \A n \in Node : t.m[n] = IF n = par THEN most ELSE s.m[n]
      BY <1>1 DEF Tree
    <3>4. ASSUME NEW j \in 0..(Internals - 1), par = 0 \/ j # Parent(par) PROVE OKAt(t.m, j)
      <4>1. j \in Node /\ 2 * j + 1 \in Node /\ 2 * j + 2 \in Node
        BY TreeSizes
      <4>2. par \notin {2 * j + 1, 2 * j + 2}
        <5>1. CASE par = 0
          BY <5>1, TreeSizes
        <5>2. CASE par # 0
          BY <2>1, <3>4, <5>2, ParentIs
        <5> QED BY <5>1, <5>2
      <4>3. t.m[2 * j + 1] = s.m[2 * j + 1] /\ t.m[2 * j + 2] = s.m[2 * j + 2]
        BY <3>3, <4>1, <4>2
      <4>4. CASE j = par
        BY <2>4, <3>3, <4>1, <4>3, <4>4 DEF OKAt
      <4>5. CASE j # par
        <5>1. OKAt(s.m, j) /\ t.m[j] = s.m[j]
          BY <3>3, <4>1, <4>5 DEF Climbing
        <5> QED BY <4>3, <5>1 DEF OKAt
      <4> QED BY <4>4, <4>5
    <3>5. \A l \in Internals..(2 * Leaves - 2) : t.m[l] = orig[l]
      <4>1. \A l \in Internals..(2 * Leaves - 2) : l \in Node /\ l # par
        BY <2>1, TreeSizes
      <4> QED BY <3>3, <4>1 DEF Climbing
    <3>6. Climbing(t, orig)
      <4> HIDE DEF t
      <4>1. t.at = par
        BY DEF t
      <4> QED BY <3>2, <3>4, <3>5, <4>1 DEF Climbing
    <3>7. MapHeap(t.m) \/ t.at <= Internals - (k + 1)
      <4>1. CASE MapHeap(s.m)
        BY <2>1, <2>4, <2>6, <4>1 DEF MapHeap, OKAt
      <4>2. CASE k = 0
        BY <2>1, <4>2, TreeSizes
      <4>3. CASE s.at <= Internals - k
        BY <1>1, <2>1, <4>3, TreeSizes
      <4> QED BY <4>1, <4>2, <4>3 DEF Near
    <3> QED BY <3>1, <3>6, <3>7 DEF Near
  <2> QED BY <2>5, <2>6
<1> QED BY <1>2, <1>3

LEMMA ClimbStarts ==
    ASSUME NEW m \in Tree, MapHeap(m), NEW leaf \in Internals..(2 * Leaves - 2), NEW c \in Category
    PROVE  /\ Climbing([m |-> [m EXCEPT ![leaf] = c], at |-> leaf], [m EXCEPT ![leaf] = c])
           /\ [m EXCEPT ![leaf] = c] \in Tree
<1> DEFINE n == [m EXCEPT ![leaf] = c]
           s == [m |-> n, at |-> leaf]
<1>1. leaf \in Node /\ leaf # 0 /\ n \in Tree
  BY TreeSizes DEF Tree
<1>2. \A i \in Node : n[i] = IF i = leaf THEN c ELSE m[i]
  BY DEF Tree
<1>3. ASSUME NEW i \in 0..(Internals - 1), i # Parent(leaf) PROVE OKAt(n, i)
  <2>1. leaf \notin {2 * i + 1, 2 * i + 2}
    BY <1>1, <1>3, ParentIs
  <2>2. i \in Node /\ 2 * i + 1 \in Node /\ 2 * i + 2 \in Node /\ i # leaf
    BY TreeSizes
  <2>3. OKAt(m, i)
    BY DEF MapHeap
  <2> QED BY <1>2, <2>1, <2>2, <2>3 DEF OKAt
<1>4. s.m = n /\ s.at = leaf
  OBVIOUS
<1>5. Climbing(s, n)
  <2> HIDE DEF s, n
  <2> QED BY <1>1, <1>3, <1>4 DEF Climbing
<1> QED BY <1>1, <1>5

\* update_page's loop leaves every node the larger of its children, and the leaves as
\* they were.
BubblesTo(m, leaf, c, n) ==
    /\ n \in Tree /\ MapHeap(n)
    /\ \A l \in Internals..(2 * Leaves - 2) : n[l] = IF l = leaf THEN c ELSE m[l]

LEMMA BubbledIs ==
    ASSUME NEW m \in Tree, MapHeap(m), NEW leaf \in Internals..(2 * Leaves - 2), NEW c \in Category
    PROVE  BubblesTo(m, leaf, c, Bubbled([m EXCEPT ![leaf] = c], leaf))
<1> DEFINE o == [m EXCEPT ![leaf] = c]
           S == {s \in [m : Tree, at : Node] : Climbing(s, o)}
           F == [s \in S |-> Raised(s)]
           a == [m |-> o, at |-> leaf]
           from(t, i) == IF i = 0 THEN a ELSE Raised(t[i - 1])
<1>1. /\ Climbing(a, o) /\ o \in Tree /\ leaf \in Node
      /\ \A i \in Node : o[i] = IF i = leaf THEN c ELSE m[i]
  <2>1. Climbing(a, o) /\ o \in Tree
    BY ClimbStarts
  <2>2. leaf \in Node
    BY TreeSizes
  <2>3. \A i \in Node : o[i] = IF i = leaf THEN c ELSE m[i]
    BY DEF Tree
  <2> QED BY <2>1, <2>2, <2>3
<1>2. a \in S
  BY <1>1
<1>3. ASSUME NEW s \in S PROVE Raised(s) \in S
  <2>1. Climbing(s, o) /\ s \in [m : Tree, at : Node]
    OBVIOUS
  <2>2. Climbing(Raised(s), o)
    BY <2>1, ClimbSteps, 0 \in Nat DEF Near
  <2>3. Raised(s) \in [m : Tree, at : Node]
    <3>1. Raised(s).m \in Tree /\ Raised(s).at \in Node
      BY <2>2 DEF Climbing
    <3>2. Raised(s) = s \/ Raised(s) = [m |-> Raised(s).m, at |-> Raised(s).at]
      BY DEF Raised
    <3> QED BY <2>1, <3>1, <3>2
  <2> QED BY <2>2, <2>3
<1>4. F \in [S -> S]
  BY <1>3
<1>5. PICK w \in [0..Leaves -> S] : IsIterate(w, F, a, Leaves)
  <2> HIDE DEF S, F, a
  <2> QED BY <1>2, <1>4, Iterated, TreeSizes
<1>6. w = [i \in 0..Leaves |-> from(w, i)]
  <2>1. ASSUME NEW i \in 0..Leaves PROVE w[i] = from(w, i)
    <3>1. CASE i = 0
      BY <1>5, <3>1 DEF IsIterate
    <3>2. CASE i # 0
      <4>1. i \in 1..Leaves /\ i - 1 \in 0..Leaves
        BY <3>2, TreeSizes
      <4>2. w[i] = F[w[i - 1]] /\ w[i - 1] \in S
        <5> HIDE DEF F, S, a
        <5> QED BY <1>5, <4>1 DEF IsIterate
      <4> QED BY <3>2, <4>2
    <3> QED BY <3>1, <3>2
  <2> HIDE DEF from, S
  <2> QED BY <1>5, <2>1
<1>7. \E up : up = [k \in 0..Leaves |-> from(up, k)] /\ Bubbled(o, leaf) = up[Leaves].m
  <2> DEFINE up == CHOOSE t : t = [k \in 0..Leaves |-> from(t, k)]
  <2>1. up = [k \in 0..Leaves |-> from(up, k)]
    <3> HIDE DEF from
    <3> QED BY <1>6
  <2>2. Bubbled(o, leaf) = up[Leaves].m
    BY DEF Bubbled
  <2> HIDE DEF up, from
  <2> QED BY <2>1, <2>2
<1>8. PICK up : up = [k \in 0..Leaves |-> from(up, k)] /\ Bubbled(o, leaf) = up[Leaves].m
  BY <1>7
<1>9. up[0] = a /\ \A k \in 1..Leaves : up[k] = Raised(up[k - 1])
  <2>1. \A k \in 0..Leaves : up[k] = from(up, k)
    <3> HIDE DEF from
    <3> QED BY <1>8
  <2> QED BY <2>1, TreeSizes
<1> HIDE DEF a, o
<1> DEFINE Bad == {k \in 0..Leaves : ~(Climbing(up[k], o) /\ Near(up[k], k))}
<1>10. Bad = {}
  <2>1. SUFFICES ASSUME Bad # {} PROVE FALSE
    OBVIOUS
  <2>2. PICK k \in Bad : \A j \in Bad : k <= j
    <3>1. Bad \in SUBSET Nat
      BY TreeSizes
    <3> HIDE DEF Bad
    <3> QED BY <2>1, <3>1, LeastOf
  <2>3. k # 0
    BY <1>1, <1>9 DEF Near
  <2>4. k \in 1..Leaves /\ k - 1 \in 0..Leaves /\ k - 1 \notin Bad /\ k - 1 \in Nat
    <3>1. k \in 1..Leaves /\ k - 1 \in 0..Leaves /\ ~(k <= k - 1) /\ k - 1 \in Nat
      BY <2>2, <2>3, TreeSizes
    <3> HIDE DEF Bad
    <3> QED BY <2>2, <3>1
  <2>5. Climbing(up[k - 1], o) /\ Near(up[k - 1], k - 1)
    BY <2>4
  <2>6. Climbing(Raised(up[k - 1]), o) /\ Near(Raised(up[k - 1]), k)
    <3>1. (k - 1) + 1 = k
      BY <2>4, TreeSizes
    <3> QED BY <2>4, <2>5, <3>1, ClimbSteps
  <2> QED BY <1>9, <2>2, <2>4, <2>6
<1>11. Climbing(up[Leaves], o) /\ Near(up[Leaves], Leaves)
  <2>1. Leaves \in 0..Leaves
    BY TreeSizes
  <2> QED BY <1>10, <2>1, Zenon
<1>12. up[Leaves].m \in Tree /\ MapHeap(up[Leaves].m)
  BY <1>11, TreeSizes DEF Climbing, Near
<1>13. \A l \in Internals..(2 * Leaves - 2) : up[Leaves].m[l] = IF l = leaf THEN c ELSE m[l]
  <2>1. \A l \in Internals..(2 * Leaves - 2) : o[l] = IF l = leaf THEN c ELSE m[l]
    BY <1>1, TreeSizes
  <2> QED BY <1>11, <2>1 DEF Climbing
<1> QED BY <1>8, <1>12, <1>13 DEF o, BubblesTo

----------------------------------------------------------------------------
(* The leaves under a node, and the way down to one. *)

\* w counts the leaves under the nodes of each height, d is the height of the root.
Heights(w, d) ==
    /\ d \in 1..Leaves /\ w \in [0..d -> 1..Leaves]
    /\ w[0] = 1 /\ w[d] = Leaves
    /\ \A h \in 1..d : w[h] = 2 * w[h - 1]

\* The node i has v leaves under it, from (i + 1) * v - 1 to (i + 2) * v - 2.
Over(i, v)     == Leaves <= (i + 1) * v /\ (i + 2) * v <= 2 * Leaves
Under(i, v)    == ((i + 1) * v - 1)..((i + 2) * v - 2)

LEMMA SomeHeights == \E w, d : Heights(w, d)
<1>1. PICK d \in 1..Leaves : \E w \in [0..d -> 1..Leaves] :
              w[0] = 1 /\ w[d] = Leaves /\ \A h \in 1..d : w[h] = 2 * w[h - 1]
  BY MapConstants DEF PowerOfTwo
<1>2. PICK w \in [0..d -> 1..Leaves] :
              w[0] = 1 /\ w[d] = Leaves /\ \A h \in 1..d : w[h] = 2 * w[h - 1]
  BY <1>1
<1>3. Heights(w, d)
  BY <1>2 DEF Heights
<1> QED BY <1>3

LEMMA HeightIs ==
    ASSUME NEW w, NEW d, Heights(w, d), NEW h \in 1..d
    PROVE  h - 1 \in 0..d /\ w[h] = 2 * w[h - 1] /\ w[h - 1] \in Nat \ {0}
<1>1. d \in Nat /\ h - 1 \in 0..d /\ w[h] = 2 * w[h - 1]
  BY TreeSizes DEF Heights
<1>2. w[h - 1] \in 1..Leaves
  BY <1>1 DEF Heights
<1> QED BY <1>1, <1>2, TreeSizes

LEMMA Halves ==
    ASSUME NEW i \in Node, NEW u \in Nat \ {0}, Over(i, 2 * u)
    PROVE  /\ i \in 0..(Internals - 1) /\ 2 * i + 1 \in Node /\ 2 * i + 2 \in Node
           /\ Over(2 * i + 1, u) /\ Over(2 * i + 2, u)
           /\ Under(i, 2 * u) = Under(2 * i + 1, u) \cup Under(2 * i + 2, u)
           /\ (i + 1) * (2 * u) = (2 * i + 1 + 1) * u
           /\ (2 * i + 1 + 2) * u = (2 * i + 2 + 1) * u
           /\ Under(i, 2 * u) \subseteq Internals..(2 * Leaves - 2)
<1>1. PICK n \in Nat : n = i * u
  BY TreeSizes
<1>2. /\ (i + 1) * (2 * u) = 2 * n + 2 * u /\ (i + 2) * (2 * u) = 2 * n + 4 * u
      /\ (2 * i + 1 + 1) * u = 2 * n + 2 * u
      /\ (2 * i + 1 + 2) * u = 2 * n + 3 * u /\ (2 * i + 2 + 1) * u = 2 * n + 3 * u
      /\ (2 * i + 2 + 2) * u = 2 * n + 4 * u
  BY <1>1, TreeSizes
<1>3. Leaves <= 2 * n + 2 * u /\ 2 * n + 4 * u <= 2 * Leaves
  BY <1>2 DEF Over
<1>4. Over(2 * i + 1, u) /\ Over(2 * i + 2, u)
  BY <1>2, <1>3, TreeSizes DEF Over
<1>5. Under(i, 2 * u) = Under(2 * i + 1, u) \cup Under(2 * i + 2, u)
  BY <1>2, TreeSizes DEF Under
<1>6. Under(i, 2 * u) \subseteq Internals..(2 * Leaves - 2)
  BY <1>2, <1>3, TreeSizes DEF Under
<1>7. i + 2 <= Leaves
  <2>1. n >= i
    BY <1>1, TreeSizes
  <2> QED BY <2>1, <1>3, TreeSizes
<1> QED BY <1>2, <1>4, <1>5, <1>6, <1>7, TreeSizes

\* A node is at least what the leaves under it are.
LEMMA UnderLess ==
    ASSUME NEW m \in Tree, MapHeap(m), NEW w, NEW d, Heights(w, d), NEW h \in 0..d,
           NEW i \in Node, Over(i, w[h])
    PROVE  \A l \in Under(i, w[h]) : m[l] <= m[i]
<1> DEFINE Bounds(g) == \A j \in Node : Over(j, w[g]) => \A l \in Under(j, w[g]) : m[l] <= m[j]
           Bad == {g \in 0..d : ~Bounds(g)}
<1>1. Bad = {}
  <2>1. SUFFICES ASSUME Bad # {} PROVE FALSE
    OBVIOUS
  <2>2. PICK g \in Bad : \A e \in Bad : g <= e
    <3>1. Bad \in SUBSET Nat
      BY DEF Heights
    <3> HIDE DEF Bad
    <3> QED BY <2>1, <3>1, LeastOf
  <2>3. g # 0
    <3>1. ASSUME NEW j \in Node, NEW l \in Under(j, 1) PROVE m[l] <= m[j]
      <4>1. l = j
        BY TreeSizes DEF Under
      <4>2. m[j] \in Nat
        BY TreeSizes DEF Tree
      <4> QED BY <4>1, <4>2
    <3> QED BY <2>2, <3>1 DEF Heights
  <2>4. g \in 1..d /\ g - 1 \in 0..d /\ g - 1 \notin Bad
    <3>1. g \in 1..d /\ g - 1 \in 0..d /\ ~(g <= g - 1)
      BY <2>2, <2>3, TreeSizes DEF Heights
    <3> HIDE DEF Bad
    <3> QED BY <2>2, <3>1
  <2>5. Bounds(g - 1)
    BY <2>4
  <2>6. PICK j \in Node : Over(j, w[g]) /\ ~\A l \in Under(j, w[g]) : m[l] <= m[j]
    BY <2>2
  <2>7. PICK l \in Under(j, w[g]) : ~(m[l] <= m[j])
    BY <2>6
  <2>8. PICK u : u = w[g - 1]
    OBVIOUS
  <2>9. u \in Nat \ {0} /\ w[g] = 2 * u
    BY <2>4, <2>8, HeightIs
  <2>10. /\ j \in 0..(Internals - 1) /\ 2 * j + 1 \in Node /\ 2 * j + 2 \in Node
         /\ Over(2 * j + 1, u) /\ Over(2 * j + 2, u)
         /\ l \in Under(2 * j + 1, u) \cup Under(2 * j + 2, u)
         /\ l \in Internals..(2 * Leaves - 2)
    BY <2>6, <2>7, <2>9, Halves
  <2>11. m[l] <= m[2 * j + 1] \/ m[l] <= m[2 * j + 2]
    BY <2>5, <2>8, <2>10
  <2>12. /\ m[l] \in Nat /\ m[2 * j + 1] \in Nat /\ m[2 * j + 2] \in Nat
         /\ m[j] = Larger(m[2 * j + 1], m[2 * j + 2])
    BY <2>10, TreeSizes DEF Tree, MapHeap, OKAt
  <2> QED BY <2>7, <2>11, <2>12 DEF Larger
<1> QED BY <1>1

\* Where the search stands k levels down: the node has what is sought, and no leaf
\* before those under it has.
Seeking(m, target, i, v) ==
    /\ i \in Node /\ Over(i, v) /\ m[i] >= target
    /\ \A l \in Internals..((i + 1) * v - 2) : m[l] < target

LEMMA BelowSeeks ==
    ASSUME NEW m \in Tree, MapHeap(m), NEW target \in Category,
           NEW w, NEW d, Heights(w, d), NEW h \in 1..d, NEW i, Seeking(m, target, i, w[h])
    PROVE  Seeking(m, target, Below(m, i, target), w[h - 1])
<1>1. PICK u : u = w[h - 1]
  OBVIOUS
<1>2. u \in Nat \ {0} /\ w[h] = 2 * u /\ h - 1 \in 0..d
  BY <1>1, HeightIs
<1>3. i \in Node /\ Over(i, 2 * u) /\ m[i] >= target
  BY <1>2 DEF Seeking
<1>4. /\ i \in 0..(Internals - 1) /\ 2 * i + 1 \in Node /\ 2 * i + 2 \in Node
      /\ Over(2 * i + 1, u) /\ Over(2 * i + 2, u)
      /\ (i + 1) * (2 * u) = (2 * i + 1 + 1) * u
      /\ (2 * i + 1 + 2) * u = (2 * i + 2 + 1) * u
  BY <1>2, <1>3, Halves
<1>5. /\ m[2 * i + 1] \in Nat /\ m[2 * i + 2] \in Nat /\ target \in Nat
      /\ m[i] = Larger(m[2 * i + 1], m[2 * i + 2])
  BY <1>4, TreeSizes DEF Tree, MapHeap, OKAt
<1>6. \A l \in Internals..((2 * i + 1 + 1) * u - 2) : m[l] < target
  BY <1>2, <1>4 DEF Seeking
<1>7. CASE m[2 * i + 1] >= target
  <2>1. Below(m, i, target) = 2 * i + 1
    BY <1>4, <1>7, TreeSizes DEF Below
  <2> QED BY <1>1, <1>4, <1>6, <1>7, <2>1 DEF Seeking
<1>8. CASE ~(m[2 * i + 1] >= target)
  <2>1. m[2 * i + 2] >= target
    BY <1>3, <1>5, <1>8 DEF Larger
  <2>2. Below(m, i, target) = 2 * i + 2
    BY <1>4, <1>8, <2>1, TreeSizes DEF Below
  <2>3. \A l \in Under(2 * i + 1, u) : m[l] <= m[2 * i + 1]
    BY <1>1, <1>2, <1>4, UnderLess
  <2>4. ASSUME NEW l \in Internals..((2 * i + 2 + 1) * u - 2) PROVE m[l] < target
    <3>1. CASE l <= (2 * i + 1 + 1) * u - 2
      BY <1>6, <3>1, TreeSizes
    <3>2. CASE ~(l <= (2 * i + 1 + 1) * u - 2)
      <4>1. PICK a \in Int, b \in Int : a = (2 * i + 1 + 1) * u /\ b = (2 * i + 1 + 2) * u
        BY <1>2, <1>4, TreeSizes
      <4>2. l \in Int /\ l <= b - 2 /\ ~(l <= a - 2)
        BY <1>4, <3>2, <4>1, TreeSizes
      <4>3. l \in Under(2 * i + 1, u)
        BY <4>1, <4>2 DEF Under
      <4>4. m[l] \in Nat
        <5>1. l \in Node
          <6>1. l \in Under(i, 2 * u) /\ Under(i, 2 * u) \subseteq Internals..(2 * Leaves - 2)
            BY <1>2, <1>3, <4>3, Halves
          <6> QED BY <6>1, TreeSizes
        <5> QED BY <5>1, TreeSizes DEF Tree
      <4> QED BY <1>5, <1>8, <2>3, <4>3, <4>4
    <3> QED BY <3>1, <3>2
  <2> QED BY <1>1, <1>4, <2>1, <2>2, <2>4 DEF Seeking
<1> QED BY <1>7, <1>8

\* search_page's descent comes to the first leaf that has what is sought, if the root
\* has it; and if it has not, no leaf has.
LEMMA DescendedIs ==
    ASSUME NEW m \in Tree, MapHeap(m), NEW target \in Category, m[0] >= target
    PROVE  LET n == Descended(m, target) IN
           /\ n \in Internals..(2 * Leaves - 2) /\ m[n] >= target
           /\ \A l \in Internals..(n - 1) : m[l] < target
<1> DEFINE F == [i \in Node |-> Below(m, i, target)]
           from(t, k) == IF k = 0 THEN 0 ELSE Below(m, t[k - 1], target)
<1>1. F \in [Node -> Node]
  BY TreeSizes DEF Below
<1>2. 0 \in Node
  BY TreeSizes
<1>3. PICK v \in [0..Leaves -> Node] : IsIterate(v, F, 0, Leaves)
  <2> HIDE DEF F
  <2> QED BY <1>1, <1>2, Iterated, TreeSizes
<1>4. v = [k \in 0..Leaves |-> from(v, k)]
  <2>1. ASSUME NEW k \in 0..Leaves PROVE v[k] = from(v, k)
    <3>1. CASE k = 0
      BY <1>3, <3>1 DEF IsIterate
    <3>2. CASE k # 0
      <4>1. k \in 1..Leaves /\ k - 1 \in 0..Leaves
        BY <3>2, TreeSizes
      <4>2. v[k] = F[v[k - 1]] /\ v[k - 1] \in Node
        <5> HIDE DEF F
        <5> QED BY <1>3, <4>1 DEF IsIterate
      <4> QED BY <3>2, <4>2
    <3> QED BY <3>1, <3>2
  <2> HIDE DEF from
  <2> QED BY <1>3, <2>1
<1>5. \E at : at = [k \in 0..Leaves |-> from(at, k)] /\ Descended(m, target) = at[Leaves]
  <2> DEFINE at == CHOOSE t : t = [k \in 0..Leaves |-> from(t, k)]
  <2>1. at = [k \in 0..Leaves |-> from(at, k)]
    <3> HIDE DEF from
    <3> QED BY <1>4
  <2>2. Descended(m, target) = at[Leaves]
    BY DEF Descended
  <2> HIDE DEF at, from
  <2> QED BY <2>1, <2>2
<1>6. PICK at : at = [k \in 0..Leaves |-> from(at, k)] /\ Descended(m, target) = at[Leaves]
  BY <1>5
<1>7. at[0] = 0 /\ \A k \in 1..Leaves : at[k] = Below(m, at[k - 1], target)
  <2>1. \A k \in 0..Leaves : at[k] = from(at, k)
    <3> HIDE DEF from
    <3> QED BY <1>6
  <2> QED BY <2>1, TreeSizes
<1>8. PICK w, d : Heights(w, d)
  BY SomeHeights
<1>9. d \in 1..Leaves /\ w[0] = 1 /\ w[d] = Leaves
  BY <1>8 DEF Heights
\* As high as the tree the search goes down, and then it stays.
<1> DEFINE There(k) ==
             IF k <= d THEN Seeking(m, target, at[k], w[d - k]) ELSE Seeking(m, target, at[k], 1)
           Bad == {k \in 0..Leaves : ~There(k)}
<1>10. Bad = {}
  <2>1. SUFFICES ASSUME Bad # {} PROVE FALSE
    OBVIOUS
  <2>2. PICK k \in Bad : \A j \in Bad : k <= j
    <3>1. Bad \in SUBSET Nat
      BY TreeSizes
    <3> HIDE DEF Bad
    <3> QED BY <2>1, <3>1, LeastOf
  <2>3. k # 0
    <3>1. Seeking(m, target, 0, Leaves)
      BY TreeSizes DEF Seeking, Over
    <3>2. 0 <= d /\ d - 0 = d
      BY <1>9, TreeSizes
    <3>3. There(0)
      BY <1>7, <1>9, <3>1, <3>2
    <3> HIDE DEF There
    <3> QED BY <2>2, <3>3
  <2>4. k \in 1..Leaves /\ k - 1 \in 0..Leaves /\ k - 1 \notin Bad
    <3>1. k \in 1..Leaves /\ k - 1 \in 0..Leaves /\ ~(k <= k - 1)
      BY <2>2, <2>3, TreeSizes
    <3> HIDE DEF Bad
    <3> QED BY <2>2, <3>1
  <2>5. There(k - 1)
    BY <2>4
  <2>6. at[k] = Below(m, at[k - 1], target)
    BY <1>7, <2>4
  <2>7. CASE k <= d
    <3>1. d - k + 1 \in 1..d /\ (d - k + 1) - 1 = d - k /\ d - (k - 1) = d - k + 1 /\ k - 1 <= d
      BY <1>9, <2>4, <2>7, TreeSizes
    <3>2. Seeking(m, target, at[k - 1], w[d - k + 1])
      BY <2>5, <3>1
    <3>3. Seeking(m, target, at[k], w[d - k])
      <4>1. PICK h : h = d - k + 1
        OBVIOUS
      <4>2. h \in 1..d /\ h - 1 = d - k
        BY <3>1, <4>1
      <4>3. Seeking(m, target, Below(m, at[k - 1], target), w[h - 1])
        BY <1>8, <3>2, <4>1, <4>2, BelowSeeks
      <4> QED BY <2>6, <4>2, <4>3
    <3> QED BY <2>2, <2>7, <3>3
  <2>8. CASE ~(k <= d)
    <3>1. Seeking(m, target, at[k - 1], 1)
      <4>1. CASE k - 1 <= d
        <5>1. d - (k - 1) = 0
          BY <1>9, <2>4, <2>8, <4>1, TreeSizes
        <5> QED BY <1>9, <2>5, <4>1, <5>1
      <4>2. CASE ~(k - 1 <= d)
        BY <2>5, <4>2
      <4> QED BY <4>1, <4>2
    <3>2. at[k - 1] \in Node /\ at[k - 1] >= Internals
      <4>1. PICK i : i = at[k - 1]
        OBVIOUS
      <4>2. i \in Node /\ Leaves <= (i + 1) * 1
        BY <3>1, <4>1 DEF Seeking, Over
      <4> QED BY <4>1, <4>2, TreeSizes
    <3>3. at[k] = at[k - 1]
      BY <2>6, <3>2 DEF Below
    <3> QED BY <2>2, <2>8, <3>1, <3>3
  <2> QED BY <2>7, <2>8
<1>11. Seeking(m, target, at[Leaves], 1)
  <2>1. Leaves \in 0..Leaves /\ (Leaves <= d => d - Leaves = 0)
    BY <1>9, TreeSizes
  <2>2. There(Leaves)
    <3> HIDE DEF There
    <3> QED BY <1>10, <2>1
  <2> QED BY <1>9, <2>1, <2>2
<1>12. /\ at[Leaves] \in Internals..(2 * Leaves - 2) /\ m[at[Leaves]] >= target
       /\ \A l \in Internals..(at[Leaves] - 1) : m[l] < target
  <2>1. PICK i : i = at[Leaves]
    OBVIOUS
  <2>2. /\ i \in Node /\ Leaves <= (i + 1) * 1 /\ m[i] >= target
        /\ \A l \in Internals..((i + 1) * 1 - 2) : m[l] < target
    BY <1>11, <2>1 DEF Seeking, Over
  <2>3. i \in Internals..(2 * Leaves - 2) /\ (i + 1) * 1 - 2 = i - 1
    BY <2>2, TreeSizes
  <2> QED BY <2>1, <2>2, <2>3
<1> QED BY <1>6, <1>12

LEMMA NoneFits ==
    ASSUME NEW m \in Tree, MapHeap(m), NEW target \in Category, ~(m[0] >= target)
    PROVE  \A l \in Internals..(2 * Leaves - 2) : m[l] < target
<1>1. PICK w, d : Heights(w, d)
  BY SomeHeights
<1>2. d \in 0..d /\ w[d] = Leaves /\ 0 \in Node /\ Over(0, Leaves)
  BY <1>1, TreeSizes DEF Heights, Over
<1>3. \A l \in Under(0, Leaves) : m[l] <= m[0]
  BY <1>1, <1>2, UnderLess
<1>4. \A l \in Internals..(2 * Leaves - 2) : l \in Under(0, Leaves) /\ l \in Node
  BY TreeSizes DEF Under
<1>5. ASSUME NEW l \in Internals..(2 * Leaves - 2) PROVE m[l] < target
  <2>1. m[l] \in Nat /\ m[0] \in Nat /\ target \in Nat
    BY <1>2, <1>4, TreeSizes DEF Tree
  <2>2. m[l] <= m[0]
    BY <1>3, <1>4
  <2> QED BY <2>1, <2>2
<1> QED BY <1>5

----------------------------------------------------------------------------
(* Heap pages and where the map has them; categories of room. *)

LEMMA DivideBy ==
    ASSUME NEW n \in Nat \ {0}, NEW p \in Nat
    PROVE  p \div n \in Nat /\ p % n \in 0..(n - 1) /\ p = (p \div n) * n + (p % n)
  OBVIOUS

LEMMA Times ==
    ASSUME NEW n \in Nat, NEW a \in Nat, NEW b \in Nat, a <= b
    PROVE  a * n <= b * n /\ a * n \in Nat /\ b * n \in Nat
  OBVIOUS

\* A quotient is less than what the dividend is less a multiple than.
LEMMA QuotientLess ==
    ASSUME NEW n \in Nat \ {0}, NEW p \in Nat, NEW q \in Nat, p < q * n
    PROVE  p \div n < q
<1>1. SUFFICES ASSUME q <= p \div n PROVE FALSE
  BY DivideBy
<1>2. q * n <= (p \div n) * n
  BY <1>1, DivideBy, Times
<1> QED BY <1>2, DivideBy

LEMMA QuotientLeast ==
    ASSUME NEW n \in Nat \ {0}, NEW p \in Nat, NEW q \in Nat, q * n <= p
    PROVE  q <= p \div n
<1>1. PICK d \in Nat, r \in 0..(n - 1) : d = p \div n /\ p = d * n + r
  BY DivideBy
<1>2. SUFFICES ASSUME d + 1 <= q PROVE FALSE
  BY <1>1
<1>3. (d + 1) * n <= q * n
  BY <1>2, Times
<1>4. (d + 1) * n = d * n + n /\ d * n \in Nat /\ q * n \in Nat
  OBVIOUS
<1> QED BY <1>1, <1>3, <1>4

LEMMA Recomposed ==
    ASSUME NEW n \in Nat \ {0}, NEW f \in Nat, NEW s \in 0..(n - 1)
    PROVE  (f * n + s) \div n = f /\ (f * n + s) % n = s
<1>1. f * n \in Nat /\ f * n + s \in Nat /\ (f + 1) * n = f * n + n
  OBVIOUS
<1>2. (f * n + s) \div n < f + 1
  BY <1>1, QuotientLess
<1>3. f <= (f * n + s) \div n
  BY <1>1, QuotientLeast
<1>4. (f * n + s) \div n = f
  BY <1>1, <1>2, <1>3, DivideBy
<1> QED BY <1>1, <1>4, DivideBy

LEMMA MapPagesAre ==
    /\ HeapPages \in Nat \ {0} /\ MapPages \in Nat \ {0} /\ HeapPages <= MapPages * Leaves
    /\ \A p \in 0..(HeapPages - 1) :
          /\ MapOf(p) \in MapPage /\ MapOf(p) \in Nat
          /\ Leaf(p) \in Internals..(2 * Leaves - 2) /\ Leaf(p) \in Node
          /\ p = MapOf(p) * Leaves + (Leaf(p) - Internals)
<1>1. Leaves \in Nat \ {0} /\ HeapPages \in Nat \ {0} /\ HeapPages + Leaves - 1 \in Nat
  BY MapConstants
<1>2. /\ MapPages \in Nat
      /\ HeapPages + Leaves - 1 = MapPages * Leaves + ((HeapPages + Leaves - 1) % Leaves)
      /\ (HeapPages + Leaves - 1) % Leaves \in 0..(Leaves - 1)
  BY <1>1, DivideBy DEF MapPages
<1>3. HeapPages <= MapPages * Leaves
  BY <1>1, <1>2
<1>4. ASSUME NEW p \in 0..(HeapPages - 1)
      PROVE  /\ MapOf(p) \in MapPage /\ MapOf(p) \in Nat
             /\ Leaf(p) \in Internals..(2 * Leaves - 2) /\ Leaf(p) \in Node
             /\ p = MapOf(p) * Leaves + (Leaf(p) - Internals)
  <2>1. p \in Nat /\ p < MapPages * Leaves
    BY <1>1, <1>2, <1>3
  <2>2. MapOf(p) < MapPages /\ MapOf(p) \in Nat
    BY <1>1, <1>2, <2>1, QuotientLess, DivideBy DEF MapOf
  <2>3. p % Leaves \in 0..(Leaves - 1) /\ p = MapOf(p) * Leaves + (p % Leaves)
    BY <1>1, <2>1, DivideBy DEF MapOf
  <2>4. PICK r \in 0..(Leaves - 1) : r = p % Leaves
    BY <2>3
  <2>5. Leaf(p) = Internals + r /\ p = MapOf(p) * Leaves + r
    BY <2>3, <2>4 DEF Leaf
  <2> QED BY <1>2, <2>2, <2>5, TreeSizes DEF MapPage
<1>5. MapPages # 0
  BY <1>1, <1>3
<1> QED BY <1>1, <1>2, <1>3, <1>4, <1>5

LEMMA CategoriesAre ==
    /\ PageBytes \in Nat \ {0} /\ PerCat \in Nat \ {0} /\ PageBytes = (Highest + 1) * PerCat
    /\ EmptyRoom \in 1..PageBytes /\ Needed \in 1..EmptyRoom /\ Needed <= Highest * PerCat
    /\ \A bytes \in 0..PageBytes : CategoryOf(bytes) \in Category
<1>1. /\ PageBytes \in Nat \ {0} /\ PerCat \in Nat \ {0} /\ PageBytes % PerCat = 0
      /\ EmptyRoom \in 1..PageBytes /\ Needed \in 1..EmptyRoom /\ Needed + PerCat <= PageBytes
  BY MapConstants
<1>2. PageBytes = (Highest + 1) * PerCat /\ Highest + 1 = PageBytes \div PerCat
  BY <1>1, DivideBy, TreeSizes DEF Highest
<1>3. (Highest + 1) * PerCat = Highest * PerCat + PerCat /\ Highest * PerCat \in Nat
  BY <1>1, TreeSizes
<1>4. ASSUME NEW bytes \in 0..PageBytes PROVE CategoryOf(bytes) \in Category
  <2>1. CASE bytes >= PageBytes
    BY <2>1, TreeSizes DEF CategoryOf
  <2>2. CASE ~(bytes >= PageBytes)
    <3>1. bytes \in Nat /\ bytes < (Highest + 1) * PerCat /\ Highest + 1 \in Nat
      BY <1>1, <1>2, <2>2, TreeSizes
    <3>2. bytes \div PerCat < Highest + 1 /\ bytes \div PerCat \in Nat
      BY <1>1, <3>1, QuotientLess, DivideBy
    <3> QED BY <2>2, <3>2, TreeSizes DEF CategoryOf
  <2> QED BY <2>1, <2>2
<1> QED BY <1>1, <1>2, <1>3, <1>4

\* required_category rounds up: a category that is enough means room that is.
LEMMA RequiredIs ==
    ASSUME NEW bytes \in 1..(Highest * PerCat)
    PROVE  /\ RequiredCategory(bytes) \in Category /\ RequiredCategory(bytes) >= 1
           /\ \A has \in 0..PageBytes : CategoryOf(has) >= RequiredCategory(bytes) => has >= bytes
<1> DEFINE q == (bytes + PerCat - 1) \div PerCat
<1>1. /\ PerCat \in Nat \ {0} /\ Highest \in Nat /\ Highest * PerCat \in Nat /\ bytes \in Nat /\ bytes >= 1
      /\ bytes <= Highest * PerCat /\ (Highest + 1) * PerCat = Highest * PerCat + PerCat
      /\ bytes + PerCat - 1 \in Nat
  BY CategoriesAre, TreeSizes
<1>2. RequiredCategory(bytes) = q
  BY <1>1 DEF RequiredCategory
<1>3. q \in Nat /\ q < Highest + 1
  <2>1. bytes + PerCat - 1 < (Highest + 1) * PerCat /\ Highest + 1 \in Nat
    BY <1>1
  <2> QED BY <1>1, <2>1, QuotientLess, DivideBy
<1>4. q >= 1
  <2>1. 1 * PerCat <= bytes + PerCat - 1
    BY <1>1
  <2> QED BY <1>1, <2>1, QuotientLeast
<1>5. ASSUME NEW has \in 0..PageBytes, CategoryOf(has) >= q PROVE has >= bytes
  <2>1. has \in Nat /\ PageBytes = Highest * PerCat + PerCat
    BY <1>1, CategoriesAre
  <2>2. CASE has >= PageBytes
    BY <1>1, <2>1, <2>2
  <2>3. CASE ~(has >= PageBytes)
    <3>1. has \div PerCat >= q /\ has \div PerCat \in Nat /\ has = (has \div PerCat) * PerCat + (has % PerCat)
          /\ has % PerCat \in Nat
      BY <1>1, <1>5, <2>1, <2>3, DivideBy DEF CategoryOf
    <3>2. q * PerCat <= (has \div PerCat) * PerCat /\ (has \div PerCat) * PerCat \in Nat /\ q * PerCat \in Nat
      BY <1>1, <1>3, <3>1, Times
    <3>3. bytes + PerCat - 1 = q * PerCat + ((bytes + PerCat - 1) % PerCat)
          /\ (bytes + PerCat - 1) % PerCat \in 0..(PerCat - 1)
      BY <1>1, DivideBy
    <3> QED
      <4>1. PICK a \in Nat : a = q * PerCat
        BY <3>2
      <4>2. PICK b \in Nat : b = (has \div PerCat) * PerCat
        BY <3>2
      <4>3. PICK r \in 0..(PerCat - 1) : r = (bytes + PerCat - 1) % PerCat
        BY <3>3
      <4>4. bytes + PerCat - 1 = a + r /\ a <= b /\ has >= b
        BY <2>1, <3>1, <3>2, <3>3, <4>1, <4>2, <4>3
      <4> QED BY <1>1, <2>1, <4>4
  <2> QED BY <2>2, <2>3
<1> QED BY <1>2, <1>3, <1>4, <1>5, TreeSizes

\* What the map's pages are at all times, and where leaves are not used yet.
MapsOK(ms)    == ms \in [MapPage -> Tree] /\ \A f \in MapPage : MapHeap(ms[f])
IsLeaf(l)     == l \in Internals..(2 * Leaves - 2)
PageAt(f, l)  == f * Leaves + (l - Internals)
Beyond(ms, n) == \A f \in MapPage, l \in Node : IsLeaf(l) /\ PageAt(f, l) >= n => ms[f][l] = 0

LEMMA LeavesAre == \A l : IsLeaf(l) => l \in Node /\ l \in Internals..(2 * Leaves - 2)
  BY TreeSizes DEF IsLeaf

LEMMA PagesAt ==
    ASSUME NEW f \in MapPage, NEW l, IsLeaf(l)
    PROVE  PageAt(f, l) \in Nat /\ f \in Nat /\ MapOf(PageAt(f, l)) = f /\ Leaf(PageAt(f, l)) = l
<1>1. f \in Nat /\ l - Internals \in 0..(Leaves - 1) /\ Leaves \in Nat \ {0} /\ l \in Int /\ Internals \in Nat
  BY MapPagesAre, TreeSizes DEF IsLeaf, MapPage
<1>2. PICK s \in 0..(Leaves - 1) : s = l - Internals
  BY <1>1
<1>3. (f * Leaves + s) \div Leaves = f /\ (f * Leaves + s) % Leaves = s
  BY <1>1, Recomposed
<1>4. f * Leaves + s \in Nat
  BY <1>1
<1> QED BY <1>1, <1>2, <1>3, <1>4 DEF PageAt, MapOf, Leaf

LEMMA PagesOfHeap ==
    ASSUME NEW p \in 0..(HeapPages - 1)
    PROVE  /\ MapOf(p) \in MapPage /\ IsLeaf(Leaf(p)) /\ Leaf(p) \in Node
           /\ PageAt(MapOf(p), Leaf(p)) = p
  BY MapPagesAre DEF IsLeaf, PageAt

\* update_page sets one leaf, and keeps the trees as they should be.
LEMMA UpdatedIs ==
    ASSUME NEW ms, MapsOK(ms), NEW p \in 0..(HeapPages - 1), NEW bytes \in 0..PageBytes
    PROVE  /\ MapsOK(Updated(ms, p, bytes))
           /\ \A f \in MapPage, l \in Node : IsLeaf(l) =>
                 Updated(ms, p, bytes)[f][l] =
                     IF f = MapOf(p) /\ l = Leaf(p) THEN CategoryOf(bytes) ELSE ms[f][l]
<1> DEFINE g == MapOf(p)
           n == Leaf(p)
           c == CategoryOf(bytes)
           t == Bubbled([ms[g] EXCEPT ![n] = c], n)
<1>1. g \in MapPage /\ IsLeaf(n) /\ n \in Node /\ c \in Category
  BY PagesOfHeap, CategoriesAre
<1>2. ms[g] \in Tree /\ MapHeap(ms[g]) /\ ms \in [MapPage -> Tree]
  BY <1>1 DEF MapsOK
<1>3. CASE ms[g][n] = c
  <2>1. Updated(ms, p, bytes) = ms
    BY <1>3 DEF Updated, CategoryAt
  <2> QED BY <1>3, <2>1
<1>4. CASE ms[g][n] # c
  <2>1. Updated(ms, p, bytes) = [ms EXCEPT ![g] = t]
    BY <1>4 DEF Updated, CategoryAt
  <2>2. /\ t \in Tree /\ MapHeap(t)
        /\ \A l \in Internals..(2 * Leaves - 2) : t[l] = IF l = n THEN c ELSE ms[g][l]
    <3>1. n \in Internals..(2 * Leaves - 2)
      BY <1>1 DEF IsLeaf
    <3>2. BubblesTo(ms[g], n, c, t)
      <4>1. PICK m, i, e : m = ms[g] /\ i = n /\ e = c
        OBVIOUS
      <4>2. m \in Tree /\ MapHeap(m) /\ i \in Internals..(2 * Leaves - 2) /\ e \in Category
        BY <1>1, <1>2, <3>1, <4>1
      <4>3. BubblesTo(m, i, e, Bubbled([m EXCEPT ![i] = e], i))
        BY <4>2, BubbledIs
      <4> QED BY <4>1, <4>3
    <3> HIDE DEF t
    <3> QED BY <3>2 DEF BubblesTo
  <2> HIDE DEF t
  <2>3. \A f \in MapPage : Updated(ms, p, bytes)[f] = IF f = g THEN t ELSE ms[f]
    BY <1>2, <2>1
  <2>4. MapsOK(Updated(ms, p, bytes))
    <3>1. Updated(ms, p, bytes) \in [MapPage -> Tree]
      BY <1>2, <2>1, <2>2
    <3> QED BY <2>2, <2>3, <3>1 DEF MapsOK
  <2>5. ASSUME NEW f \in MapPage, NEW l \in Node, IsLeaf(l)
        PROVE  Updated(ms, p, bytes)[f][l] = IF f = g /\ l = n THEN c ELSE ms[f][l]
    <3>1. l \in Internals..(2 * Leaves - 2)
      BY <2>5 DEF IsLeaf
    <3> QED BY <2>2, <2>3, <3>1
  <2> QED BY <2>4, <2>5
<1> QED BY <1>3, <1>4

LEMMA UpdatedAt ==
    ASSUME NEW ms, MapsOK(ms), NEW p \in 0..(HeapPages - 1), NEW bytes \in 0..PageBytes
    PROVE  /\ \A q \in 0..(HeapPages - 1) :
                 CategoryAt(Updated(ms, p, bytes), q) =
                     IF q = p THEN CategoryOf(bytes) ELSE CategoryAt(ms, q)
           /\ \A n \in Nat : p < n /\ Beyond(ms, n) => Beyond(Updated(ms, p, bytes), n)
<1>1. ASSUME NEW q \in 0..(HeapPages - 1)
      PROVE  CategoryAt(Updated(ms, p, bytes), q) =
                 IF q = p THEN CategoryOf(bytes) ELSE CategoryAt(ms, q)
  <2>1. /\ MapOf(q) \in MapPage /\ IsLeaf(Leaf(q)) /\ Leaf(q) \in Node
        /\ PageAt(MapOf(q), Leaf(q)) = q /\ PageAt(MapOf(p), Leaf(p)) = p
    BY PagesOfHeap
  <2>2. MapOf(q) = MapOf(p) /\ Leaf(q) = Leaf(p) <=> q = p
    BY <2>1
  <2> QED BY <2>1, <2>2, UpdatedIs DEF CategoryAt
<1>2. ASSUME NEW n \in Nat, p < n, Beyond(ms, n) PROVE Beyond(Updated(ms, p, bytes), n)
  <2>1. SUFFICES ASSUME NEW f \in MapPage, NEW l \in Node, IsLeaf(l), PageAt(f, l) >= n
                 PROVE  Updated(ms, p, bytes)[f][l] = 0
    BY DEF Beyond
  <2>2. ms[f][l] = 0
    BY <1>2, <2>1 DEF Beyond
  <2>3. ~(f = MapOf(p) /\ l = Leaf(p))
    BY <1>2, <2>1, PagesOfHeap
  <2> QED BY <2>1, <2>2, <2>3, UpdatedIs
<1> QED BY <1>1, <1>2

----------------------------------------------------------------------------
(* The search over the map's pages. *)

LEMMA MinIs ==
    ASSUME NEW S \in SUBSET Nat, NEW m \in S, \A n \in S : m <= n
    PROVE  Min(S) = m
<1>1. \A x \in S : (\A y \in S : x <= y) => x = m
  OBVIOUS
<1> QED BY <1>1 DEF Min

\* What every search finds: the map's pages are trees, leaves of pages the heap has not
\* are zero, and the map reaches as far as the heap.
Searchable ==
    /\ mapSize \in 1..MapPages /\ heapSize \in 1..HeapPages
    /\ MapsOK(nodes) /\ Beyond(nodes, heapSize)
    /\ heapSize <= mapSize * Leaves

LEMMA FitsAre ==
    ASSUME Searchable, NEW target \in Category, target >= 1, NEW f \in MapPage, NEW l, IsLeaf(l),
           nodes[f][l] >= target
    PROVE  /\ PageAt(f, l) \in 0..(heapSize - 1) /\ f < mapSize
           /\ nodes[f][0] >= target
<1>1. PageAt(f, l) \in Nat /\ f \in Nat /\ l \in Node /\ Leaves \in Nat /\ heapSize \in Nat /\ mapSize \in Nat
  BY PagesAt, LeavesAre, MapPagesAre, TreeSizes DEF Searchable
<1>2. PageAt(f, l) < heapSize
  <2>1. ~(0 >= target)
    BY TreeSizes
  <2>2. nodes[f][l] # 0
    BY <2>1
  <2> QED BY <1>1, <2>2 DEF Searchable, Beyond
<1>3. f < mapSize
  <2>1. SUFFICES ASSUME mapSize <= f PROVE FALSE
    BY <1>1
  <2>2. mapSize * Leaves <= f * Leaves /\ f * Leaves \in Nat /\ mapSize * Leaves \in Nat
    BY <1>1, <2>1, Times
  <2>3. f * Leaves <= PageAt(f, l)
    <3>1. l - Internals \in Nat
      BY TreeSizes DEF IsLeaf
    <3> QED BY <2>2, <3>1 DEF PageAt
  <2>4. heapSize <= mapSize * Leaves
    BY DEF Searchable
  <2> QED BY <1>1, <1>2, <2>2, <2>3, <2>4
<1>4. nodes[f][0] >= target
  <2>1. nodes[f] \in Tree /\ MapHeap(nodes[f]) /\ nodes[f][l] \in Nat /\ target \in Nat
    BY <1>1, TreeSizes DEF Searchable, MapsOK, Tree
  <2>2. SUFFICES ASSUME ~(nodes[f][0] >= target) PROVE FALSE
    OBVIOUS
  <2>3. nodes[f][l] < target
    BY <2>1, <2>2, NoneFits DEF IsLeaf
  <2> QED BY <2>1, <2>3
<1> QED BY <1>1, <1>2, <1>3, <1>4

Fitting(target) == {p \in 0..(HeapPages - 1) : CategoryAt(nodes, p) >= target}

\* The page search_page returns is the first of those that fit.
LEMMA SearchIs ==
    ASSUME Searchable, NEW bytes, RequiredCategory(bytes) \in Category, RequiredCategory(bytes) >= 1
    PROVE  LET fits == Fitting(RequiredCategory(bytes)) IN
           /\ Search(bytes) = IF fits = {} THEN NoPage ELSE Min(fits)
           /\ fits # {} => Search(bytes) \in fits /\ Search(bytes) < heapSize
<1> DEFINE target == RequiredCategory(bytes)
           fits == Fitting(target)
           hits == {f \in MapPage : /\ f < mapSize
                                    /\ nodes[f][0] >= target
                                    /\ Descended(nodes[f], target) >= Internals}
<1>1. Search(bytes) = IF hits = {} THEN NoPage
                      ELSE Min(hits) * Leaves + (Descended(nodes[Min(hits)], target) - Internals)
  BY DEF Search
<1>2. PICK c \in Category : c = target /\ c >= 1
  OBVIOUS
<1>3. \A f \in MapPage : nodes[f] \in Tree /\ MapHeap(nodes[f])
  BY DEF Searchable, MapsOK
<1>4. ASSUME NEW q \in fits
      PROVE  /\ MapOf(q) \in hits /\ IsLeaf(Leaf(q)) /\ nodes[MapOf(q)][Leaf(q)] >= c
             /\ PageAt(MapOf(q), Leaf(q)) = q /\ q < heapSize
  <2>1. /\ MapOf(q) \in MapPage /\ IsLeaf(Leaf(q)) /\ PageAt(MapOf(q), Leaf(q)) = q
        /\ nodes[MapOf(q)][Leaf(q)] >= c
    BY <1>2, PagesOfHeap DEF Fitting, CategoryAt
  <2>2. MapOf(q) < mapSize /\ nodes[MapOf(q)][0] >= c /\ q \in 0..(heapSize - 1)
    BY <1>2, <2>1, FitsAre
  <2>3. Descended(nodes[MapOf(q)], c) >= Internals
    <3>1. Descended(nodes[MapOf(q)], c) \in Internals..(2 * Leaves - 2)
      BY <1>3, <2>1, <2>2, DescendedIs
    <3> QED BY <3>1, TreeSizes
  <2> QED BY <1>2, <2>1, <2>2, <2>3 DEF Searchable
<1>5. CASE hits = {}
  BY <1>1, <1>4, <1>5
<1>6. CASE hits # {}
  <2>1. PICK f \in hits : \A g \in hits : f <= g
    <3>1. hits \in SUBSET Nat
      BY MapPagesAre DEF MapPage
    <3> HIDE DEF hits
    <3> QED BY <1>6, <3>1, LeastOf
  <2>2. Min(hits) = f
    <3>1. hits \in SUBSET Nat
      BY MapPagesAre DEF MapPage
    <3> HIDE DEF hits
    <3> QED BY <2>1, <3>1, MinIs
  <2>3. PICK n : n = Descended(nodes[f], c)
    OBVIOUS
  <2>4. f \in MapPage /\ nodes[f][0] >= c
    BY <1>2, <2>1
  <2>5. IsLeaf(n) /\ nodes[f][n] >= c /\ \A l \in Internals..(n - 1) : nodes[f][l] < c
    BY <1>3, <2>3, <2>4, DescendedIs DEF IsLeaf
  <2>6. Search(bytes) = PageAt(f, n)
    BY <1>1, <1>2, <1>6, <2>2, <2>3 DEF PageAt
  <2>7. PageAt(f, n) \in 0..(heapSize - 1) /\ PageAt(f, n) \in 0..(HeapPages - 1) /\ heapSize \in Nat
    <3>1. PageAt(f, n) \in 0..(heapSize - 1)
      BY <1>2, <2>4, <2>5, FitsAre
    <3> QED BY <3>1, MapPagesAre DEF Searchable
  <2>8. PageAt(f, n) \in fits
    <3>1. MapOf(PageAt(f, n)) = f /\ Leaf(PageAt(f, n)) = n
      BY <2>4, <2>5, PagesAt
    <3> QED BY <1>2, <2>5, <2>7, <3>1 DEF Fitting, CategoryAt
  <2>9. ASSUME NEW q \in fits PROVE PageAt(f, n) <= q
    <3>1. PICK g, l : g = MapOf(q) /\ l = Leaf(q)
      OBVIOUS
    <3>2. g \in hits /\ IsLeaf(l) /\ nodes[g][l] >= c /\ PageAt(g, l) = q
      BY <1>4, <3>1
    <3>3. f <= g /\ g \in MapPage
      BY <2>1, <3>2
    <3>4. /\ f \in Nat /\ g \in Nat /\ Leaves \in Nat /\ Internals \in Nat
          /\ n - Internals \in 0..(Leaves - 1) /\ l - Internals \in 0..(Leaves - 1)
          /\ n \in Nat /\ l \in Nat
      <4>1. f \in Nat /\ g \in Nat
        BY <2>4, <2>5, <3>2, <3>3, PagesAt
      <4>2. n \in Internals..(2 * Leaves - 2) /\ l \in Internals..(2 * Leaves - 2)
        BY <2>5, <3>2, LeavesAre
      <4> QED BY <4>1, <4>2, TreeSizes
    <3>5. CASE f = g
      <4>1. ~(nodes[f][l] < c)
        <5>1. nodes[f][l] \in Nat /\ c \in Nat
          BY <1>3, <2>4, <3>2, LeavesAre, TreeSizes DEF Tree
        <5> QED BY <3>2, <3>5, <5>1
      <4>2. ~(l <= n - 1)
        BY <2>5, <3>4, <4>1
      <4>3. n - Internals <= l - Internals /\ f * Leaves \in Nat
        BY <3>4, <4>2
      <4> QED BY <3>2, <3>4, <3>5, <4>3 DEF PageAt
    <3>6. CASE f # g
      <4>1. f + 1 <= g /\ f + 1 \in Nat
        BY <3>3, <3>4, <3>6
      <4>2. (f + 1) * Leaves <= g * Leaves /\ g * Leaves \in Nat
        BY <3>4, <4>1, Times
      <4>3. (f + 1) * Leaves = f * Leaves + Leaves /\ f * Leaves \in Nat
        BY <3>4
      <4> QED BY <3>2, <3>4, <4>2, <4>3 DEF PageAt
    <3> QED BY <3>5, <3>6
  <2>10. Min(fits) = PageAt(f, n)
    <3>1. fits \in SUBSET Nat
      BY DEF Fitting
    <3> HIDE DEF fits
    <3> QED BY <2>8, <2>9, <3>1, MinIs
  <2> QED BY <2>6, <2>7, <2>8, <2>10
<1> QED BY <1>5, <1>6

----------------------------------------------------------------------------
(* The invariant of the map and the heap. *)

\* Pages the heap has not yet are empty, and before a crash the map has the category
\* of each page it has.
HeapOK ==
    /\ \A p \in 0..(HeapPages - 1) : p >= heapSize => room[p] = EmptyRoom
    /\ mapCrashes = 0 => \A p \in 0..(heapSize - 1) : CategoryAt(nodes, p) = CategoryOf(room[p])

MapInv ==
    /\ MapTypeOK
    /\ MapsOK(nodes) /\ Beyond(nodes, heapSize)
    /\ MapsOK(mapFile) /\ Beyond(mapFile, heapSize)
    /\ heapSize <= mapSize * Leaves
    /\ HeapOK

LEMMA BlankIs == MapsOK([f \in MapPage |-> Blank]) /\ \A n : Beyond([f \in MapPage |-> Blank], n)
<1>1. Blank \in Tree /\ \A i \in Node : Blank[i] = 0
  BY TreeSizes DEF Blank, Tree
<1>2. MapHeap(Blank)
  <2>1. \A i \in 0..(Internals - 1) : i \in Node /\ 2 * i + 1 \in Node /\ 2 * i + 2 \in Node
    BY TreeSizes
  <2> QED BY <1>1, <2>1 DEF MapHeap, OKAt, Larger
<1> QED BY <1>1, <1>2 DEF MapsOK, Beyond

LEMMA BeyondMore ==
    ASSUME NEW ms, NEW n \in Nat, NEW k \in Nat, n <= k, Beyond(ms, n)
    PROVE  Beyond(ms, k)
<1>1. \A f \in MapPage : \A l : IsLeaf(l) => PageAt(f, l) \in Nat
  BY PagesAt
<1> QED BY <1>1 DEF Beyond

LEMMA InitMap == MapInit => MapInv
<1> SUFFICES ASSUME MapInit PROVE MapInv
  OBVIOUS
<1> DEFINE blank == [f \in MapPage |-> Blank]
<1>1. /\ 0 \in 0..(HeapPages - 1) /\ EmptyRoom \in 0..PageBytes /\ HeapPages \in Nat \ {0}
      /\ MapPages \in Nat \ {0} /\ MaxMapCrashes \in Nat /\ Leaves \in Nat \ {0} /\ EmptyRoom \in Nat
  BY MapPagesAre, CategoriesAre, MapConstants
<1>2. /\ heapSize = 1 /\ mapSize = 1 /\ mapCrashes = 0 /\ mapFile = blank
      /\ nodes = Updated(blank, 0, EmptyRoom)
      /\ room = [p \in 0..(HeapPages - 1) |-> EmptyRoom]
  BY DEF MapInit
<1>3. MapsOK(blank) /\ Beyond(blank, 0) /\ Beyond(blank, 1)
  BY BlankIs
<1> HIDE DEF blank
<1>4. /\ MapsOK(nodes) /\ Beyond(nodes, 1)
      /\ CategoryAt(nodes, 0) = CategoryOf(EmptyRoom)
  BY <1>1, <1>2, <1>3, UpdatedIs, UpdatedAt
<1>5. MapTypeOK
  BY <1>1, <1>2, <1>3, <1>4 DEF MapTypeOK, MapsOK, Tree
<1>6. HeapOK
  BY <1>1, <1>2, <1>4 DEF HeapOK
<1>7. heapSize <= mapSize * Leaves
  BY <1>1, <1>2
<1> QED BY <1>2, <1>3, <1>4, <1>5, <1>6, <1>7 DEF MapInv

\* Page p has another room, the map is told, and the heap may grow by p.
Told(p, has) ==
    /\ p \in 0..(HeapPages - 1) /\ p < heapSize' /\ has \in 0..EmptyRoom
    /\ heapSize' = heapSize \/ (heapSize' = heapSize + 1 /\ p = heapSize)
    /\ room' = [room EXCEPT ![p] = has]
    /\ nodes' = Updated(nodes, p, has)
    /\ mapSize' = SizeWith(p)
    /\ mapFile' = mapFile \/ mapFile' = nodes'
    /\ mapCrashes' = mapCrashes

LEMMA SizeWithIs ==
    ASSUME MapInv, NEW p \in 0..(HeapPages - 1)
    PROVE  /\ SizeWith(p) \in 1..MapPages /\ SizeWith(p) >= mapSize /\ p + 1 <= SizeWith(p) * Leaves
           /\ p < heapSize => MapOf(p) + 1 <= MapPages
<1>1. /\ mapSize \in 1..MapPages /\ MapOf(p) \in 0..(MapPages - 1) /\ MapPages \in Nat /\ mapSize \in Nat
      /\ MapOf(p) + 1 \in 1..MapPages /\ MapOf(p) + 1 \in Nat
  <2>1. mapSize \in 1..MapPages /\ MapPages \in Nat
    BY MapPagesAre DEF MapInv, MapTypeOK
  <2>2. PICK f : f = MapOf(p)
    OBVIOUS
  <2>3. f \in 0..(MapPages - 1)
    BY <2>2, MapPagesAre DEF MapPage
  <2> QED BY <2>1, <2>2, <2>3
<1>2. SizeWith(p) = Larger(mapSize, MapOf(p) + 1)
  BY <1>1, MaxOfTwo DEF SizeWith
<1>3. SizeWith(p) \in 1..MapPages /\ SizeWith(p) >= mapSize /\ MapOf(p) + 1 <= SizeWith(p) /\ SizeWith(p) \in Nat
  BY <1>1, <1>2 DEF Larger
<1>4. (MapOf(p) + 1) * Leaves <= SizeWith(p) * Leaves
  BY <1>1, <1>3, Times, TreeSizes
<1>5. /\ p = MapOf(p) * Leaves + (Leaf(p) - Internals) /\ Leaf(p) - Internals \in 0..(Leaves - 1)
      /\ MapOf(p) \in Nat /\ Leaves \in Nat
  <2>1. PICK l, f : l = Leaf(p) /\ f = MapOf(p)
    OBVIOUS
  <2>2. l \in Internals..(2 * Leaves - 2) /\ f \in Nat /\ p = f * Leaves + (l - Internals)
    BY <2>1, MapPagesAre
  <2> QED BY <2>1, <2>2, TreeSizes
<1>6. (MapOf(p) + 1) * Leaves = MapOf(p) * Leaves + Leaves /\ MapOf(p) * Leaves \in Nat /\ SizeWith(p) * Leaves \in Nat
  BY <1>3, <1>5
<1> QED BY <1>1, <1>3, <1>4, <1>5, <1>6

LEMMA ToldKeeps ==
    ASSUME MapInv, NEW p, NEW has, Told(p, has)
    PROVE  MapInv'
<1>1. /\ p \in 0..(HeapPages - 1) /\ has \in 0..EmptyRoom /\ has \in 0..PageBytes
      /\ room' = [room EXCEPT ![p] = has] /\ nodes' = Updated(nodes, p, has) /\ mapSize' = SizeWith(p)
      /\ mapCrashes' = mapCrashes
  BY CategoriesAre DEF Told
<1>2. /\ heapSize \in 1..HeapPages /\ HeapPages \in Nat /\ heapSize' \in 1..HeapPages
      /\ heapSize <= heapSize' /\ p < heapSize' /\ heapSize \in Nat /\ heapSize' \in Nat
      /\ heapSize' = heapSize \/ (heapSize' = heapSize + 1 /\ p = heapSize)
  <2>1. PICK k : k = heapSize'
    OBVIOUS
  <2>2. HeapPages \in Nat /\ heapSize \in 1..HeapPages
    BY MapPagesAre DEF MapInv, MapTypeOK
  <2>3. p < k /\ (k = heapSize \/ (k = heapSize + 1 /\ p = heapSize))
    BY <2>1 DEF Told
  <2> QED BY <1>1, <2>1, <2>2, <2>3
<1>3. MapsOK(nodes') /\ Beyond(nodes', heapSize')
  <2>1. MapsOK(nodes) /\ Beyond(nodes, heapSize')
    BY <1>2, BeyondMore DEF MapInv
  <2> QED BY <1>1, <1>2, <2>1, UpdatedIs, UpdatedAt
<1>4. MapsOK(mapFile') /\ Beyond(mapFile', heapSize')
  <2>1. MapsOK(mapFile) /\ Beyond(mapFile, heapSize')
    BY <1>2, BeyondMore DEF MapInv
  <2> QED BY <1>3, <2>1 DEF Told
<1>5. mapSize' \in 1..MapPages /\ heapSize' <= mapSize' * Leaves
  <2>1. /\ mapSize' \in 1..MapPages /\ mapSize' >= mapSize /\ p + 1 <= mapSize' * Leaves
        /\ mapSize \in Nat /\ heapSize <= mapSize * Leaves /\ MapPages \in Nat
    <3>1. mapSize \in 1..MapPages /\ heapSize <= mapSize * Leaves /\ MapPages \in Nat
      BY MapPagesAre DEF MapInv, MapTypeOK
    <3> QED BY <1>1, <3>1, SizeWithIs
  <2>2. mapSize * Leaves <= mapSize' * Leaves /\ mapSize * Leaves \in Nat /\ mapSize' * Leaves \in Nat
    <3>1. PICK k : k = mapSize'
      OBVIOUS
    <3>2. k \in Nat /\ mapSize \in Nat /\ mapSize <= k /\ Leaves \in Nat
      BY <2>1, <3>1, TreeSizes
    <3> QED BY <3>1, <3>2, Times
  <2> QED BY <1>1, <1>2, <2>1, <2>2
<1>6. MapTypeOK'
  <2>1. room' \in [0..(HeapPages - 1) -> 0..EmptyRoom] /\ mapCrashes' \in 0..MaxMapCrashes
    BY <1>1 DEF MapInv, MapTypeOK
  <2> QED BY <1>2, <1>3, <1>4, <1>5, <2>1 DEF MapTypeOK, MapsOK, Tree
<1>7. HeapOK'
  <2>1. \A q \in 0..(HeapPages - 1) : room'[q] = IF q = p THEN has ELSE room[q]
    BY <1>1 DEF MapInv, MapTypeOK
  <2>2. \A q \in 0..(HeapPages - 1) : q >= heapSize' => room'[q] = EmptyRoom
    BY <1>2, <2>1 DEF MapInv, HeapOK
  <2>3. ASSUME mapCrashes' = 0, NEW q \in 0..(heapSize' - 1)
        PROVE  CategoryAt(nodes', q) = CategoryOf(room'[q])
    <3>1. q \in 0..(HeapPages - 1) /\ (q # p => q \in 0..(heapSize - 1))
      <4>1. PICK k : k = heapSize'
        OBVIOUS
      <4>2. k = heapSize \/ (k = heapSize + 1 /\ p = heapSize)
        BY <1>2, <4>1
      <4>3. k \in 1..HeapPages /\ heapSize \in Nat /\ HeapPages \in Nat /\ q \in 0..(k - 1)
        BY <1>2, <4>1
      <4> QED BY <4>2, <4>3
    <3>2. CategoryAt(nodes', q) = IF q = p THEN CategoryOf(has) ELSE CategoryAt(nodes, q)
      BY <1>1, <3>1, UpdatedAt DEF MapInv
    <3>3. q # p => CategoryAt(nodes, q) = CategoryOf(room[q])
      BY <1>1, <2>3, <3>1 DEF MapInv, HeapOK
    <3> QED BY <2>1, <3>1, <3>2, <3>3
  <2> QED BY <2>2, <2>3 DEF HeapOK
<1> QED BY <1>3, <1>4, <1>5, <1>6, <1>7 DEF MapInv

\* What PutOn does is tell the map.
LEMMA PutOnTells ==
    ASSUME MapInv, NEW p \in 0..(HeapPages - 1), PutOn(p), room[p] >= Needed, p < heapSize',
           heapSize' = heapSize \/ (heapSize' = heapSize + 1 /\ p = heapSize)
    PROVE  MapInv'
<1>1. room[p] \in 0..EmptyRoom /\ EmptyRoom \in Nat /\ Needed \in Nat
  BY CategoriesAre DEF MapInv, MapTypeOK
<1>2. PICK has : has = room[p] - Needed
  OBVIOUS
<1>3. has \in 0..EmptyRoom
  BY <1>1, <1>2
<1>4. room' = [room EXCEPT ![p] = has] /\ nodes' = Updated(nodes, p, has)
  BY <1>2 DEF PutOn
<1>5. Told(p, has)
  BY <1>3, <1>4 DEF PutOn, Told
<1> QED BY <1>5, ToldKeeps

LEMMA SearchableNow == MapInv => Searchable
  BY DEF MapInv, MapTypeOK, Searchable

LEMMA NeededIs ==
    /\ Needed \in 1..(Highest * PerCat)
    /\ RequiredCategory(Needed) \in Category /\ RequiredCategory(Needed) >= 1
<1>1. Needed \in 1..(Highest * PerCat)
  <2>1. Highest * PerCat \in Nat
    BY CategoriesAre, TreeSizes
  <2> QED BY <2>1, CategoriesAre
<1> QED BY <1>1, RequiredIs

\* The last of the cases of HeapFile::insert.
Extends == ~Fits(Search(Needed)) /\ ~Fits(heapSize - 1) /\ heapSize < HeapPages /\ heapSize' = heapSize + 1
           /\ PutOn(heapSize)

LEMMA InsertCases ==
    ASSUME MapInv, InsertTuple
    PROVE  \/ Extends
           \/ \E p \in 0..(HeapPages - 1) : Fits(p) /\ PutOn(p) /\ UNCHANGED heapSize
<1>1. heapSize \in 1..HeapPages /\ HeapPages \in Nat
  BY MapPagesAre DEF MapInv, MapTypeOK
<1>2. heapSize - 1 \in 0..(HeapPages - 1)
  BY <1>1
<1>3. PICK p : p = Search(Needed)
  OBVIOUS
<1>4. Fits(p) => p \in 0..(HeapPages - 1)
  <2>1. p = NoPage \/ p \in Fitting(RequiredCategory(Needed))
    BY <1>3, SearchIs, SearchableNow, NeededIs
  <2>2. ~Fits(NoPage)
    BY <1>1 DEF Fits, NoPage
  <2> QED BY <2>1, <2>2 DEF Fitting
<1>5. \/ Fits(p) /\ PutOn(p) /\ UNCHANGED heapSize
      \/ Fits(heapSize - 1) /\ PutOn(heapSize - 1) /\ UNCHANGED heapSize
      \/ Extends
  BY <1>3 DEF InsertTuple, Extends
<1> QED BY <1>2, <1>4, <1>5

LEMMA FitsPut ==
    ASSUME MapInv, NEW p \in 0..(HeapPages - 1), Fits(p), PutOn(p), UNCHANGED heapSize
    PROVE  MapInv'
<1>1. p < heapSize /\ room[p] >= Needed
  BY DEF Fits
<1> QED BY <1>1, PutOnTells

LEMMA ExtendsKeeps ==
    ASSUME MapInv, Extends
    PROVE  MapInv'
<1>1. heapSize \in 1..HeapPages /\ HeapPages \in Nat /\ heapSize < HeapPages
  BY MapPagesAre DEF MapInv, MapTypeOK, Extends
<1>2. heapSize \in 0..(HeapPages - 1) /\ heapSize' = heapSize + 1 /\ heapSize < heapSize'
  BY <1>1 DEF Extends
<1>3. room[heapSize] = EmptyRoom
  BY <1>1, <1>2 DEF MapInv, HeapOK
<1>4. room[heapSize] >= Needed
  BY <1>3, CategoriesAre
<1>5. PutOn(heapSize)
  BY DEF Extends
<1>6. PICK p : p = heapSize
  OBVIOUS
<1> QED BY <1>2, <1>4, <1>5, <1>6, PutOnTells

LEMMA VacuumKeeps ==
    ASSUME MapInv, NEW p \in 0..(HeapPages - 1), VacuumPage(p)
    PROVE  MapInv'
<1>1. EmptyRoom \in 0..EmptyRoom /\ p < heapSize /\ heapSize' = heapSize
  BY CategoriesAre DEF VacuumPage
<1>2. mapSize = SizeWith(p)
  <2>1. /\ mapSize \in 1..MapPages /\ MapPages \in Nat /\ MapOf(p) \in Nat /\ heapSize <= mapSize * Leaves
        /\ Leaves \in Nat \ {0} /\ p \in Nat /\ heapSize \in 1..HeapPages /\ HeapPages \in Nat
    BY MapPagesAre, TreeSizes DEF MapInv, MapTypeOK
  <2>2. p < mapSize * Leaves
    <3>1. mapSize * Leaves \in Nat
      BY <2>1
    <3> QED BY <1>1, <2>1, <3>1
  <2>3. MapOf(p) < mapSize
    BY <2>1, <2>2, QuotientLess DEF MapOf
  <2>4. SizeWith(p) = Larger(mapSize, MapOf(p) + 1)
    BY <2>1, MaxOfTwo DEF SizeWith
  <2> QED BY <2>1, <2>3, <2>4 DEF Larger
<1>3. Told(p, EmptyRoom)
  BY <1>1, <1>2 DEF Told, VacuumPage
<1> QED BY <1>3, ToldKeeps

LEMMA FlushMapKeeps == MapInv /\ FlushMap => MapInv'
  BY DEF MapInv, MapTypeOK, HeapOK, FlushMap, CategoryAt

LEMMA LoseMapKeeps == MapInv /\ LoseMap => MapInv'
<1> SUFFICES ASSUME MapInv, LoseMap PROVE MapInv'
  OBVIOUS
<1>1. mapCrashes \in 0..MaxMapCrashes /\ mapCrashes < MaxMapCrashes /\ MaxMapCrashes \in Nat
  BY MapConstants DEF MapInv, MapTypeOK, LoseMap
<1>2. mapCrashes' = mapCrashes + 1 /\ mapCrashes' \in 0..MaxMapCrashes /\ mapCrashes' # 0
  BY <1>1 DEF LoseMap
<1> QED BY <1>2 DEF MapInv, MapTypeOK, HeapOK, LoseMap

LEMMA NextMap == MapInv /\ [MapNext]_mapVars => MapInv'
<1> SUFFICES ASSUME MapInv, [MapNext]_mapVars PROVE MapInv'
  OBVIOUS
<1>1. CASE InsertTuple
  BY <1>1, InsertCases, FitsPut, ExtendsKeeps
<1>2. ASSUME NEW p \in 0..(HeapPages - 1), HotUpdateOn(p) PROVE MapInv'
  BY <1>2, FitsPut DEF HotUpdateOn
<1>3. ASSUME NEW p \in 0..(HeapPages - 1), VacuumPage(p) PROVE MapInv'
  BY <1>3, VacuumKeeps
<1>4. CASE FlushMap
  BY <1>4, FlushMapKeeps
<1>5. CASE LoseMap
  BY <1>5, LoseMapKeeps
<1>6. CASE UNCHANGED mapVars
  BY <1>6 DEF mapVars, MapInv, MapTypeOK, HeapOK, CategoryAt
<1> QED BY <1>1, <1>2, <1>3, <1>4, <1>5, <1>6 DEF MapNext

LEMMA SpecMapInv == MapSpec => []MapInv
<1>1. MapInit => MapInv
  BY InitMap
<1>2. MapInv /\ [MapNext]_mapVars => MapInv'
  BY NextMap
<1> QED BY <1>1, <1>2, PTL DEF MapSpec

LEMMA FirstFit == MapInv => SearchIsFirstFit
<1> SUFFICES ASSUME MapInv, NEW c \in Category \ {0}
             PROVE  Search(c * PerCat) =
                        (IF Fitting(RequiredCategory(c * PerCat)) = {} THEN NoPage
                         ELSE Min(Fitting(RequiredCategory(c * PerCat))))
  BY DEF SearchIsFirstFit, Fitting
<1>1. c * PerCat \in 1..(Highest * PerCat)
  <2>1. c \in Nat /\ 1 <= c /\ c <= Highest /\ Highest \in Nat /\ PerCat \in Nat \ {0}
    BY TreeSizes, CategoriesAre
  <2>2. 1 * PerCat <= c * PerCat /\ c * PerCat <= Highest * PerCat
    BY <2>1, Times
  <2>3. c * PerCat \in Nat /\ Highest * PerCat \in Nat /\ 1 * PerCat = PerCat
    BY <2>1
  <2> QED BY <2>1, <2>2, <2>3
<1>2. PICK bytes : bytes = c * PerCat
  OBVIOUS
<1>3. RequiredCategory(bytes) \in Category /\ RequiredCategory(bytes) >= 1
  BY <1>1, <1>2, RequiredIs
<1> QED BY <1>2, <1>3, SearchIs, SearchableNow

\* SearchIsFirstFit for every size of map and heap, every crash and every order of
\* updates: search_page (fsm.cpp:42-78) never misses a page, for update_page leaves every
\* node the larger of its children.
THEOREM SpecSearchIsFirstFit == MapSpec => []SearchIsFirstFit
<1>1. MapInv => SearchIsFirstFit
  BY FirstFit
<1> QED BY <1>1, SpecMapInv, PTL

\* What the categories can hide: less than a page that would do has in whole categories.
LEMMA RoomHidden ==
    ASSUME NEW has \in 0..PageBytes, CategoryOf(has) < RequiredCategory(Needed)
    PROVE  has < Needed + PerCat - 1
<1> DEFINE q == (Needed + PerCat - 1) \div PerCat
<1>1. /\ PerCat \in Nat \ {0} /\ Needed \in Nat /\ Needed >= 1 /\ PageBytes \in Nat
      /\ Needed + PerCat - 1 \in Nat
  BY CategoriesAre
<1>2. q \in Nat /\ q * PerCat <= Needed + PerCat - 1
  <2>1. PICK n \in Nat : n = Needed + PerCat - 1
    BY <1>1
  <2>2. /\ n \div PerCat \in Nat /\ n % PerCat \in 0..(PerCat - 1)
        /\ n = (n \div PerCat) * PerCat + (n % PerCat)
    BY <1>1, DivideBy
  <2>3. (n \div PerCat) * PerCat \in Nat
    BY <1>1, <2>2
  <2>4. (n \div PerCat) * PerCat <= n
    BY <1>1, <2>2, <2>3
  <2> QED BY <2>1, <2>2, <2>4
<1>3. RequiredCategory(Needed) = q /\ q <= Highest /\ Highest \in Nat
  <2>1. Needed <= Highest * PerCat /\ Highest * PerCat \in Nat /\ Highest \in Nat
    BY <1>1, CategoriesAre, TreeSizes
  <2>2. RequiredCategory(Needed) = q
    BY <1>1, <2>1 DEF RequiredCategory
  <2> QED BY <2>1, <2>2, NeededIs, TreeSizes
<1>4. CategoryOf(has) = has \div PerCat
  <2> HIDE DEF q
  <2> QED BY <1>1, <1>2, <1>3 DEF CategoryOf
<1>5. PICK c \in Nat : c = has \div PerCat /\ has < c * PerCat + PerCat
  <2>1. has \in Nat
    BY <1>1
  <2>2. /\ has \div PerCat \in Nat /\ has % PerCat \in 0..(PerCat - 1)
        /\ has = (has \div PerCat) * PerCat + (has % PerCat)
    BY <1>1, <2>1, DivideBy
  <2> QED BY <1>1, <2>1, <2>2
<1>6. c + 1 <= q
  <2> HIDE DEF q
  <2> QED BY <1>2, <1>3, <1>4, <1>5
<1>7. (c + 1) * PerCat <= q * PerCat /\ q * PerCat \in Nat
  <2> HIDE DEF q
  <2> QED BY <1>1, <1>2, <1>5, <1>6, Times
<1>8. (c + 1) * PerCat = c * PerCat + PerCat
  BY <1>1, <1>5
<1> HIDE DEF q
<1> QED BY <1>1, <1>2, <1>5, <1>7, <1>8

FullUnlessGrowing ==
    heapSize' > heapSize =>
        /\ room[heapSize - 1] < Needed
        /\ mapCrashes = 0 => \A p \in 0..(heapSize - 1) : room[p] < Needed + PerCat - 1

\* A heap that grows extends at the end, for its last page has no room.
LEMMA GrowsByExtending ==
    ASSUME MapInv, [MapNext]_mapVars, heapSize' > heapSize
    PROVE  Extends /\ heapSize \in 1..HeapPages /\ HeapPages \in Nat /\ room[heapSize - 1] < Needed
<1>1. heapSize \in 1..HeapPages /\ HeapPages \in Nat
  BY MapPagesAre DEF MapInv, MapTypeOK
<1>2. Extends
  BY <1>1, InsertCases DEF MapNext, HotUpdateOn, VacuumPage, FlushMap, LoseMap, mapVars
<1>3. heapSize - 1 \in 0..(HeapPages - 1) /\ heapSize - 1 < heapSize
  BY <1>1
<1>4. room[heapSize - 1] \in Nat /\ Needed \in Nat
  <2>1. room[heapSize - 1] \in 0..EmptyRoom
    BY <1>3 DEF MapInv, MapTypeOK
  <2> QED BY <2>1, CategoriesAre
<1> QED BY <1>1, <1>2, <1>3, <1>4 DEF Extends, Fits

LEMMA NextGrows == MapInv /\ [MapNext]_mapVars => FullUnlessGrowing
<1> SUFFICES ASSUME MapInv, [MapNext]_mapVars, heapSize' > heapSize, mapCrashes = 0,
                    NEW p \in 0..(heapSize - 1), ~(CategoryOf(room[p]) < RequiredCategory(Needed))
             PROVE  FALSE
  <2>1. ASSUME MapInv, [MapNext]_mapVars, heapSize' > heapSize, mapCrashes = 0,
               NEW p \in 0..(heapSize - 1), CategoryOf(room[p]) < RequiredCategory(Needed)
        PROVE  room[p] < Needed + PerCat - 1
    <3>1. heapSize \in 1..HeapPages /\ HeapPages \in Nat
      BY <2>1, GrowsByExtending
    <3>2. room[p] \in 0..EmptyRoom
      BY <2>1, <3>1 DEF MapInv, MapTypeOK
    <3>3. room[p] \in 0..PageBytes
      BY <3>2, CategoriesAre
    <3> QED BY <2>1, <3>3, RoomHidden
  <2> QED BY <2>1, GrowsByExtending DEF FullUnlessGrowing
<1>1. Extends /\ heapSize \in 1..HeapPages /\ HeapPages \in Nat /\ p \in 0..(HeapPages - 1)
  BY GrowsByExtending
<1>4. RequiredCategory(Needed) \in Nat /\ room[p] \in 0..PageBytes /\ CategoryOf(room[p]) \in Nat
  <2>1. room[p] \in 0..EmptyRoom
    BY <1>1 DEF MapInv, MapTypeOK
  <2>2. room[p] \in 0..PageBytes
    BY <2>1, CategoriesAre
  <2> QED BY <2>2, NeededIs, CategoriesAre, TreeSizes
<1>5. p \in Fitting(RequiredCategory(Needed))
  <2>1. CategoryAt(nodes, p) = CategoryOf(room[p])
    BY DEF MapInv, HeapOK
  <2> QED BY <1>1, <1>4, <2>1 DEF Fitting
<1>6. PICK q : q = Search(Needed)
  OBVIOUS
<1>7. q \in Fitting(RequiredCategory(Needed)) /\ q < heapSize
  BY <1>5, <1>6, SearchIs, SearchableNow, NeededIs
<1>8. q \in 0..(heapSize - 1) /\ q \in 0..(HeapPages - 1)
  BY <1>1, <1>7 DEF Fitting
<1>9. CategoryOf(room[q]) >= RequiredCategory(Needed) /\ room[q] \in 0..PageBytes
  <2>1. CategoryAt(nodes, q) = CategoryOf(room[q])
    BY <1>8 DEF MapInv, HeapOK
  <2>2. room[q] \in 0..EmptyRoom
    BY <1>8 DEF MapInv, MapTypeOK
  <2> QED BY <1>7, <2>1, <2>2, CategoriesAre DEF Fitting
<1>10. room[q] >= Needed
  BY <1>9, NeededIs, RequiredIs
<1>11. Fits(q)
  BY <1>7, <1>10 DEF Fits
<1> QED BY <1>1, <1>6, <1>11 DEF Extends

\* GrowsOnlyWhenFull: a heap grows only when the tuple does not fit on its last page and,
\* until a crash makes the map stale, no other page has room for it that the rounding of
\* categories does not hide (heap.cpp:101-152).
THEOREM SpecGrowsOnlyWhenFull == MapSpec => GrowsOnlyWhenFull
<1>1. MapInv /\ [MapNext]_mapVars => FullUnlessGrowing
  BY NextGrows
<1>2. [FullUnlessGrowing]_mapVars <=>
      [heapSize' > heapSize =>
          /\ room[heapSize - 1] < Needed
          /\ mapCrashes = 0 => \A p \in 0..(heapSize - 1) : room[p] < Needed + PerCat - 1]_mapVars
  BY DEF FullUnlessGrowing
<1> QED BY <1>1, <1>2, SpecMapInv, PTL DEF MapSpec, GrowsOnlyWhenFull
----------------------------------------------------------------------------
(* Toast: recursive functions over 0..n. *)

\* What holds of 0, and of i if of i - 1, holds of all; the property is a set.
LEMMA UpTo_n ==
    ASSUME NEW n \in Nat, NEW G \in SUBSET (0..n), 0 \in G, \A i \in 1..n : i - 1 \in G => i \in G
    PROVE  \A i \in 0..n : i \in G
<1> DEFINE Bad == (0..n) \ G
<1>1. SUFFICES ASSUME Bad # {} PROVE FALSE
  OBVIOUS
<1>2. PICK m \in Bad : \A i \in Bad : m <= i
  <2>1. Bad \in SUBSET Nat
    OBVIOUS
  <2> HIDE DEF Bad
  <2> QED BY <1>1, <2>1, LeastOf
<1>3. m \in 1..n /\ m - 1 \in 0..n /\ ~(m <= m - 1)
  BY <1>2
<1>4. m - 1 \in G
  BY <1>2, <1>3
<1> QED BY <1>3, <1>4

Follows(w, F, a, n) == w = [i \in 0..n |-> IF i = 0 THEN a ELSE F[<<i, w[i - 1]>>]]

LEMMA Recursion ==
    ASSUME NEW S, NEW a \in S, NEW n \in Nat, NEW F \in [(1..n) \X S -> S]
    PROVE  \E w \in [0..n -> S] : Follows(w, F, a, n)
<1> DEFINE G == {m \in 0..n : \E w \in [0..m -> S] : Follows(w, F, a, m)}
<1>1. G \in SUBSET (0..n)
  OBVIOUS
<1>2. 0 \in G
  <2> DEFINE w == [i \in 0..0 |-> a]
  <2>1. w \in [0..0 -> S]
    OBVIOUS
  <2>2. Follows(w, F, a, 0)
    BY DEF Follows
  <2> QED BY <2>1, <2>2
<1>3. ASSUME NEW m \in 1..n, m - 1 \in G PROVE m \in G
  <2>1. PICK v \in [0..(m - 1) -> S] : Follows(v, F, a, m - 1)
    BY <1>3
  <2> DEFINE w == [i \in 0..m |-> IF i = m THEN F[<<m, v[m - 1]>>] ELSE v[i]]
  <2>2. F[<<m, v[m - 1]>>] \in S
    BY <2>1
  <2>3. w \in [0..m -> S]
    BY <2>1, <2>2
  <2>4. ASSUME NEW i \in 0..m PROVE w[i] = IF i = 0 THEN a ELSE F[<<i, w[i - 1]>>]
    <3>1. CASE i = m
      <4>1. i # 0 /\ i - 1 \in 0..m /\ i - 1 # m
        BY <3>1
      <4>2. w[i - 1] = v[m - 1]
        BY <3>1, <4>1
      <4> QED BY <3>1, <4>1, <4>2
    <3>2. CASE i # m
      <4>1. i \in 0..(m - 1) /\ w[i] = v[i]
        BY <3>2
      <4>2. v[i] = IF i = 0 THEN a ELSE F[<<i, v[i - 1]>>]
        BY <2>1, <4>1 DEF Follows
      <4>3. i # 0 => i - 1 \in 0..m /\ i - 1 # m /\ w[i - 1] = v[i - 1]
        BY <3>2
      <4> QED BY <4>1, <4>2, <4>3
    <3> QED BY <3>1, <3>2
  <2>5. Follows(w, F, a, m)
    <3>1. w \in [0..m -> S]
      BY <2>3
    <3> HIDE DEF w
    <3> QED BY <2>4, <3>1 DEF Follows
  <2> QED BY <2>3, <2>5
<1>4. n \in 0..n
  OBVIOUS
<1> HIDE DEF G
<1>5. n \in G
  BY <1>1, <1>2, <1>3, <1>4, UpTo_n
<1> QED BY <1>5 DEF G

----------------------------------------------------------------------------
(* Toast: pages and records. *)

TChunk == [id : Nat, seq : Nat, value : Nat]
Place  == Nat \ {0}
TPages == {ps \in Seq(Seq(TChunk)) : ps # <<>>}
TRecord ==
    [type : {"TOAST_INSERT"}, tx : Writer, chunk : TChunk, page : Place, slot : 1..ChunksPerPage]
    \cup [type : {"COMMIT", "ABORT"}, tx : Writer] \cup [type : {"CHECKPOINT"}, tx : {0}]

\* What is at slot s of a page, and at slot s of page p.
OnPage(page, s)   == IF s \in 1..Len(page) THEN page[s] ELSE NoChunk
ChunkAt(ps, p, s) == IF p \in 1..Len(ps) THEN OnPage(ps[p], s) ELSE NoChunk

\* The pages qs are the pages ps, with chunk c at slot s of page p.
Sets(qs, ps, p, s, c) ==
    /\ qs \in TPages /\ Len(qs) >= Len(ps) /\ Len(qs) >= p
    /\ ChunkAt(qs, p, s) = c
    /\ \A q, t \in Place : q # p \/ t # s => ChunkAt(qs, q, t) = ChunkAt(ps, q, t)

LEMMA NoChunkIs == NoChunk \in TChunk /\ NoChunk.id = 0
  BY DEF NoChunk, TChunk

LEMMA SomePages ==
    ASSUME NEW qs \in Seq(Seq(TChunk)), Len(qs) > 0
    PROVE  qs \in TPages
  BY DEF TPages

LEMMA SlotsTyped ==
    ASSUME NEW ps \in TPages, NEW p, NEW s
    PROVE  ChunkAt(ps, p, s) \in TChunk
  BY NoChunkIs DEF ChunkAt, OnPage, TPages

LEMMA PlacedIs ==
    ASSUME NEW page \in Seq(TChunk), NEW s \in 1..ChunksPerPage, NEW c \in TChunk
    PROVE  /\ Placed(page, s, c) \in Seq(TChunk)
           /\ OnPage(Placed(page, s, c), s) = c
           /\ \A t \in Place : t # s => OnPage(Placed(page, s, c), t) = OnPage(page, t)
<1> DEFINE n == IF s > Len(page) THEN s ELSE Len(page)
           new(i) == IF i = s THEN c ELSE IF i <= Len(page) THEN page[i] ELSE NoChunk
<1>1. n \in Nat /\ s \in 1..n /\ Len(page) \in Nat /\ n >= Len(page) /\ s \in Nat \ {0}
  BY ToastConstants
<1>2. PICK q : q = Placed(page, s, c)
  OBVIOUS
<1>3. q = [i \in 1..n |-> new(i)]
  BY <1>2 DEF Placed
<1>4. \A i \in 1..n : new(i) \in TChunk
  BY <1>1, NoChunkIs
<1> HIDE DEF n, new
<1>5. q \in Seq(TChunk) /\ Len(q) = n
  BY <1>1, <1>3, <1>4
<1>6. q[s] = c
  BY <1>1, <1>3 DEF new
<1>7. ASSUME NEW t \in Place, t # s PROVE OnPage(q, t) = OnPage(page, t)
  <2>1. CASE t \in 1..Len(page)
    <3>1. t \in 1..n
      BY <1>1, <2>1
    <3>2. q[t] = page[t]
      BY <1>1, <1>3, <1>7, <2>1, <3>1 DEF new
    <3> QED BY <1>5, <2>1, <3>1, <3>2 DEF OnPage
  <2>2. CASE t \notin 1..Len(page)
    <3>1. t > Len(page)
      BY <1>1, <2>2 DEF Place
    <3>2. t \in 1..n => q[t] = NoChunk
      BY <1>1, <1>3, <1>7, <3>1 DEF new, Place
    <3> QED BY <1>5, <2>2, <3>2 DEF OnPage
  <2> QED BY <2>1, <2>2
<1> QED BY <1>1, <1>2, <1>5, <1>6, <1>7 DEF OnPage

LEMMA WriteIs ==
    ASSUME NEW ps \in TPages, NEW p \in 1..Len(ps), NEW s \in 1..ChunksPerPage, NEW c \in TChunk
    PROVE  Sets([ps EXCEPT ![p] = Placed(@, s, c)], ps, p, s, c)
<1>1. PICK page : page = Placed(ps[p], s, c)
  OBVIOUS
<1>2. /\ page \in Seq(TChunk) /\ OnPage(page, s) = c
      /\ \A t \in Place : t # s => OnPage(page, t) = OnPage(ps[p], t)
  BY <1>1, PlacedIs DEF TPages
<1>3. PICK qs : qs = [ps EXCEPT ![p] = page]
  OBVIOUS
<1>4. qs \in TPages /\ Len(qs) = Len(ps) /\ qs[p] = page /\ \A q \in 1..Len(ps) : q # p => qs[q] = ps[q]
  BY <1>2, <1>3 DEF TPages
<1>5. ASSUME NEW q \in Place, NEW t \in Place, q # p \/ t # s
      PROVE  ChunkAt(qs, q, t) = ChunkAt(ps, q, t)
  BY <1>2, <1>4, <1>5 DEF ChunkAt
<1>6. Len(qs) >= p
  BY <1>4 DEF TPages
<1>7. Sets(qs, ps, p, s, c)
  BY <1>2, <1>4, <1>5, <1>6 DEF Sets, ChunkAt, TPages
<1> QED BY <1>1, <1>3, <1>7

LEMMA AppendIs ==
    ASSUME NEW ps \in TPages, NEW c \in TChunk
    PROVE  Sets(Append(ps, <<c>>), ps, Len(ps) + 1, 1, c)
<1>1. PICK qs : qs = Append(ps, <<c>>)
  OBVIOUS
<1>2. <<c>> \in Seq(TChunk) /\ OnPage(<<c>>, 1) = c /\ \A t \in Place : t # 1 => OnPage(<<c>>, t) = NoChunk
  BY DEF OnPage, Place
<1>3. /\ qs \in TPages /\ Len(qs) = Len(ps) + 1 /\ Len(ps) \in Nat
      /\ qs[Len(ps) + 1] = <<c>> /\ \A q \in 1..Len(ps) : qs[q] = ps[q]
  <2>1. ps \in Seq(Seq(TChunk))
    BY DEF TPages
  <2>2. /\ qs \in Seq(Seq(TChunk)) /\ Len(qs) = Len(ps) + 1 /\ Len(ps) \in Nat
        /\ qs[Len(ps) + 1] = <<c>> /\ \A q \in 1..Len(ps) : qs[q] = ps[q]
    BY <1>1, <1>2, <2>1
  <2> QED BY <2>2, SomePages
<1>4. ASSUME NEW q \in Place, NEW t \in Place, q # Len(ps) + 1 \/ t # 1
      PROVE  ChunkAt(qs, q, t) = ChunkAt(ps, q, t)
  <2>1. CASE q \in 1..Len(ps)
    BY <1>3, <2>1 DEF ChunkAt
  <2>2. CASE q = Len(ps) + 1
    BY <1>2, <1>3, <1>4, <2>2 DEF ChunkAt
  <2>3. CASE q > Len(ps) + 1
    BY <1>3, <2>3 DEF ChunkAt
  <2>4. Len(ps) \in Nat /\ q \in Nat /\ q # 0
    BY <1>3 DEF Place
  <2>5. q \in 1..Len(ps) \/ q = Len(ps) + 1 \/ q > Len(ps) + 1
    BY <2>4
  <2> QED BY <2>1, <2>2, <2>3, <2>5
<1>5. ChunkAt(qs, Len(ps) + 1, 1) = c
  BY <1>2, <1>3 DEF ChunkAt
<1>6. Sets(qs, ps, Len(ps) + 1, 1, c)
  BY <1>3, <1>4, <1>5 DEF Sets
<1> QED BY <1>1, <1>6

LEMMA ExtendedIs ==
    ASSUME NEW ps \in TPages, NEW p \in Place
    PROVE  /\ Extended(ps, p) \in TPages /\ Len(Extended(ps, p)) >= Len(ps) /\ Len(Extended(ps, p)) >= p
           /\ \A q, t \in Place : ChunkAt(Extended(ps, p), q, t) = ChunkAt(ps, q, t)
<1> DEFINE n == IF p > Len(ps) THEN p ELSE Len(ps)
           new(q) == IF q <= Len(ps) THEN ps[q] ELSE <<>>
<1>1. n \in Nat /\ n >= Len(ps) /\ n >= p /\ Len(ps) \in Nat \ {0}
  BY DEF TPages, Place
<1>2. PICK qs : qs = Extended(ps, p)
  OBVIOUS
<1>3. qs = [q \in 1..n |-> new(q)]
  BY <1>2 DEF Extended
<1>4. \A q \in 1..n : new(q) \in Seq(TChunk)
  <2>1. <<>> \in Seq(TChunk) /\ ps \in Seq(Seq(TChunk))
    BY DEF TPages
  <2>2. \A q \in 1..Len(ps) : ps[q] \in Seq(TChunk)
    BY <2>1
  <2> QED BY <1>1, <2>1, <2>2
<1> HIDE DEF n, new
<1>5. qs \in TPages /\ Len(qs) = n
  <2>1. qs \in Seq(Seq(TChunk)) /\ Len(qs) = n
    BY <1>1, <1>3, <1>4
  <2> QED BY <1>1, <2>1, SomePages
<1>6. ASSUME NEW q \in Place, NEW t \in Place PROVE ChunkAt(qs, q, t) = ChunkAt(ps, q, t)
  <2>1. CASE q \in 1..Len(ps)
    <3>1. q \in 1..n /\ qs[q] = ps[q]
      BY <1>1, <1>3, <2>1 DEF new
    <3> QED BY <1>5, <2>1, <3>1 DEF ChunkAt
  <2>2. CASE q \notin 1..Len(ps)
    <3>1. q \in 1..n => OnPage(qs[q], t) = NoChunk
      BY <1>1, <1>3, <2>2 DEF new, OnPage, Place
    <3> QED BY <1>5, <2>2, <3>1 DEF ChunkAt
  <2> QED BY <2>1, <2>2
<1> QED BY <1>1, <1>2, <1>5, <1>6

----------------------------------------------------------------------------
(* Toast: what storing, redo and undo of one chunk do. *)

TInsertion == [type : {"TOAST_INSERT"}, tx : Writer, chunk : TChunk, page : Place, slot : 1..ChunksPerPage]
RedoState  == [chunks : SUBSET TChunk, pages : TPages]
StoreState == [chunks : SUBSET TChunk, pages : TPages, log : Seq(TRecord)]

\* Memory has chunk c now, and lost no other but the one with its number.
Remembers(new, old, c) ==
    c \in new /\ \A d \in old : ~SameKey(d, c) => d \in new

Redoes(u, st, r) ==
    /\ u \in RedoState
    /\ Sets(u.pages, st.pages, r.page, r.slot, r.chunk)
    /\ Remembers(u.chunks, st.chunks, r.chunk)

Undoes(u, st, r) ==
    /\ u \in RedoState
    /\ Sets(u.pages, st.pages, r.page, r.slot, NoChunk)
    /\ \A d \in st.chunks : d.id # r.chunk.id => d \in u.chunks

Keeps(u, st, x, c, p, s) ==
    /\ u \in StoreState
    /\ Sets(u.pages, st.pages, p, s, c)
    /\ ChunkAt(st.pages, p, s) = NoChunk
    /\ Remembers(u.chunks, st.chunks, c)
    /\ Insertion(x, c, p, s) \in TInsertion
    /\ u.log = Append(st.log, Insertion(x, c, p, s))

LEMMA IndexedIs ==
    ASSUME NEW index \in SUBSET TChunk, NEW c \in TChunk
    PROVE  Indexed(index, c) \in SUBSET TChunk /\ Remembers(Indexed(index, c), index, c)
  BY DEF Indexed, Remembers

LEMMA RedoneIs ==
    ASSUME NEW st \in RedoState, NEW r \in TInsertion
    PROVE  Redoes(Redone(st, r), st, r)
<1>1. st.chunks \in SUBSET TChunk /\ st.pages \in TPages
      /\ r.chunk \in TChunk /\ r.page \in Place /\ r.slot \in 1..ChunksPerPage
  BY DEF RedoState, TInsertion
<1>2. PICK es : es = Extended(st.pages, r.page)
  OBVIOUS
<1>3. /\ es \in TPages /\ Len(es) >= Len(st.pages) /\ Len(es) >= r.page
      /\ \A q, t \in Place : ChunkAt(es, q, t) = ChunkAt(st.pages, q, t)
  BY <1>1, <1>2, ExtendedIs
<1>4. r.page \in 1..Len(es)
  BY <1>1, <1>3 DEF Place, TPages
<1>5. PICK qs : qs = [es EXCEPT ![r.page] = Placed(@, r.slot, r.chunk)]
  OBVIOUS
<1>6. Sets(qs, es, r.page, r.slot, r.chunk)
  BY <1>1, <1>3, <1>4, <1>5, WriteIs
<1>7. Sets(qs, st.pages, r.page, r.slot, r.chunk)
  <2>1. Len(qs) \in Nat /\ Len(es) \in Nat /\ Len(st.pages) \in Nat
    BY <1>1, <1>3, <1>6 DEF Sets, TPages
  <2> QED BY <1>3, <1>6, <2>1 DEF Sets
<1>8. PICK m : m = Indexed(st.chunks, r.chunk)
  OBVIOUS
<1>9. m \in SUBSET TChunk /\ Remembers(m, st.chunks, r.chunk)
  BY <1>1, <1>8, IndexedIs
<1>10. Redone(st, r) = [chunks |-> m, pages |-> qs]
  BY <1>2, <1>5, <1>8 DEF Redone
<1>11. [chunks |-> m, pages |-> qs] \in RedoState
  BY <1>7, <1>9 DEF RedoState, Sets
<1> QED BY <1>7, <1>9, <1>10, <1>11 DEF Redoes

LEMMA UndoneIs ==
    ASSUME NEW st \in RedoState, NEW r \in TInsertion, r.page \in 1..Len(st.pages)
    PROVE  Undoes(Undone(st, r), st, r)
<1>1. st.chunks \in SUBSET TChunk /\ st.pages \in TPages
      /\ r.chunk \in TChunk /\ r.page \in Place /\ r.slot \in 1..ChunksPerPage
  BY DEF RedoState, TInsertion
<1>2. PICK qs : qs = [st.pages EXCEPT ![r.page] = Placed(@, r.slot, NoChunk)]
  OBVIOUS
<1>3. Sets(qs, st.pages, r.page, r.slot, NoChunk)
  BY <1>1, <1>2, NoChunkIs, WriteIs
<1>4. PICK m : m = {c \in st.chunks : c.id # r.chunk.id}
  OBVIOUS
<1>5. Undone(st, r) = [chunks |-> m, pages |-> qs]
  BY <1>2, <1>4 DEF Undone
<1>6. [chunks |-> m, pages |-> qs] \in RedoState
  BY <1>1, <1>3, <1>4 DEF RedoState, Sets
<1> QED BY <1>3, <1>4, <1>5, <1>6 DEF Undoes

LEMMA SmallestOf ==
    ASSUME NEW S \in SUBSET Nat, S # {}
    PROVE  Min(S) \in S
<1>1. PICK m \in S : \A n \in S : m <= n
  BY LeastOf
<1> QED BY <1>1 DEF Min

LEMMA KeptIs ==
    ASSUME NEW st \in StoreState, NEW x \in Writer, NEW c \in TChunk
    PROVE  \E p \in Place, s \in 1..ChunksPerPage : Keeps(Kept(st, x, c), st, x, c, p, s)
<1>1. st.chunks \in SUBSET TChunk /\ st.pages \in TPages /\ st.log \in Seq(TRecord)
  BY DEF StoreState
<1>2. PICK last : last = Len(st.pages)
  OBVIOUS
<1>3. last \in Nat /\ last > 0 /\ last + 1 \in Place /\ last \in Place /\ last \in 1..Len(st.pages)
  BY <1>1, <1>2 DEF TPages, Place
<1>4. PICK page : page = st.pages[last]
  OBVIOUS
<1>5. PICK spare : spare = FreeOn(page)
  OBVIOUS
<1>6. PICK m : m = Indexed(st.chunks, c)
  OBVIOUS
<1>7. m \in SUBSET TChunk /\ Remembers(m, st.chunks, c)
  BY <1>1, <1>6, IndexedIs
<1>8. ASSUME NEW p \in Place, NEW s \in 1..ChunksPerPage
      PROVE  Insertion(x, c, p, s) \in TInsertion /\ Append(st.log, Insertion(x, c, p, s)) \in Seq(TRecord)
  <2>1. Insertion(x, c, p, s) \in TInsertion
    BY DEF Insertion, TInsertion
  <2>2. Insertion(x, c, p, s) \in TRecord
    BY <2>1 DEF TInsertion, TRecord
  <2> QED BY <1>1, <2>1, <2>2
<1>9. CASE spare = {}
  <2>1. PICK qs : qs = Append(st.pages, <<c>>)
    OBVIOUS
  <2>2. Sets(qs, st.pages, last + 1, 1, c)
    BY <1>1, <1>2, <2>1, AppendIs
  <2>3. 1 \in 1..ChunksPerPage
    BY ToastConstants
  <2>4. Kept(st, x, c) = [chunks |-> m, pages |-> qs, log |-> Append(st.log, Insertion(x, c, last + 1, 1))]
    BY <1>2, <1>4, <1>5, <1>6, <1>9, <2>1 DEF Kept
  <2>5. ChunkAt(st.pages, last + 1, 1) = NoChunk
    BY <1>2, <1>3 DEF ChunkAt
  <2>6. Kept(st, x, c) \in StoreState
    BY <1>3, <1>7, <1>8, <2>2, <2>3, <2>4 DEF StoreState, Sets
  <2>7. Keeps(Kept(st, x, c), st, x, c, last + 1, 1)
    BY <1>3, <1>7, <1>8, <2>2, <2>3, <2>4, <2>5, <2>6 DEF Keeps
  <2> QED BY <1>3, <2>3, <2>7
<1>10. CASE spare # {}
  <2>1. PICK s : s = Min(spare)
    OBVIOUS
  <2>2. s \in spare
    <3>1. spare \in SUBSET Nat
      BY <1>5 DEF FreeOn
    <3> QED BY <1>10, <2>1, <3>1, SmallestOf
  <2>3. s \in 1..ChunksPerPage /\ (s > Len(page) \/ page[s] = NoChunk)
    BY <1>5, <2>2 DEF FreeOn
  <2>4. PICK qs : qs = [st.pages EXCEPT ![last] = Placed(@, s, c)]
    OBVIOUS
  <2>5. Sets(qs, st.pages, last, s, c)
    BY <1>1, <1>3, <2>3, <2>4, WriteIs
  <2>6. Kept(st, x, c) = [chunks |-> m, pages |-> qs, log |-> Append(st.log, Insertion(x, c, last, s))]
    BY <1>2, <1>4, <1>5, <1>6, <1>10, <2>1, <2>4 DEF Kept
  <2>7. ChunkAt(st.pages, last, s) = NoChunk
    <3>1. Len(page) \in Nat
      BY <1>1, <1>3, <1>4 DEF TPages
    <3>2. OnPage(page, s) = NoChunk
      BY <2>3, <3>1 DEF OnPage
    <3> QED BY <1>3, <1>4, <3>2 DEF ChunkAt
  <2>8. Kept(st, x, c) \in StoreState
    BY <1>3, <1>7, <1>8, <2>3, <2>5, <2>6 DEF StoreState, Sets
  <2>9. Keeps(Kept(st, x, c), st, x, c, last, s)
    BY <1>3, <1>7, <1>8, <2>3, <2>5, <2>6, <2>7, <2>8 DEF Keeps
  <2> QED BY <1>3, <2>3, <2>9
<1> QED BY <1>9, <1>10

----------------------------------------------------------------------------
(* Toast: the records that redo replays. *)

LEMMA GreatestOf ==
    ASSUME NEW S \in SUBSET Nat, S # {}, NEW b \in Nat, \A n \in S : n <= b
    PROVE  Max(S) \in S /\ \A n \in S : n <= Max(S)
<1> DEFINE T == {b - n : n \in S}
<1>1. T \in SUBSET Nat /\ T # {}
  <2>1. \A n \in S : b - n \in Nat
    OBVIOUS
  <2> QED BY <2>1
<1>2. PICK k \in T : \A t \in T : k <= t
  <2> HIDE DEF T
  <2> QED BY <1>1, LeastOf
<1>3. PICK m \in S : k = b - m
  BY <1>2
<1>4. \A n \in S : n <= m
  <2>1. SUFFICES ASSUME NEW n \in S PROVE n <= m
    OBVIOUS
  <2>2. k <= b - n
    BY <1>2
  <2> QED BY <1>3, <2>2
<1>5. Max(S) \in S /\ \A n \in S : n <= Max(S)
  <2>1. \E n \in S : \A i \in S : n >= i
    BY <1>4
  <2> QED BY <2>1 DEF Max
<1> QED BY <1>5

LEMMA ReplayedIs ==
    ASSUME NEW lg \in Seq(TRecord), NEW j
    PROVE  j \in Replayed(lg) <=>
             /\ j \in 1..Len(lg) /\ lg[j].type = "TOAST_INSERT"
             /\ \A i \in 1..Len(lg) : lg[i].type = "CHECKPOINT" => i < j
<1> DEFINE at == {i \in DOMAIN lg : lg[i].type = "CHECKPOINT"}
           first == RedoFrom(lg)
<1>1. DOMAIN lg = 1..Len(lg) /\ Len(lg) \in Nat
  OBVIOUS
<1>2. first = IF at = {} THEN 1 ELSE Max(at)
  BY DEF RedoFrom
<1>3. /\ first \in Nat /\ first >= 1
      /\ \A i \in at : i <= first
      /\ at # {} => first \in at
  <2>1. at \in SUBSET Nat /\ \A i \in at : i <= Len(lg) /\ i >= 1
    BY <1>1
  <2> HIDE DEF at, first
  <2>2. CASE at = {}
    BY <1>2, <2>2
  <2>3. CASE at # {}
    <3>1. Max(at) \in at /\ \A i \in at : i <= Max(at)
      BY <1>1, <2>1, <2>3, GreatestOf
    <3> QED BY <1>2, <2>1, <2>3, <3>1
  <2> QED BY <2>2, <2>3
<1>4. j \in Replayed(lg) <=> j \in first..Len(lg) /\ lg[j].type = "TOAST_INSERT"
  BY DEF Replayed
<1>5. ASSUME j \in Replayed(lg)
      PROVE  /\ j \in 1..Len(lg) /\ lg[j].type = "TOAST_INSERT"
             /\ \A i \in 1..Len(lg) : lg[i].type = "CHECKPOINT" => i < j
  <2>1. j \in 1..Len(lg) /\ j >= first
    <3> HIDE DEF first
    <3> QED BY <1>3, <1>4, <1>5
  <2>2. ASSUME NEW i \in 1..Len(lg), lg[i].type = "CHECKPOINT" PROVE i < j
    <3>1. i <= first
      BY <1>1, <1>3, <2>2
    <3>2. i # j
      BY <1>4, <1>5, <2>2
    <3> HIDE DEF first
    <3> QED BY <1>3, <2>1, <3>1, <3>2
  <2> QED BY <1>4, <1>5, <2>1, <2>2
<1>6. ASSUME j \in 1..Len(lg), lg[j].type = "TOAST_INSERT",
             \A i \in 1..Len(lg) : lg[i].type = "CHECKPOINT" => i < j
      PROVE  j \in Replayed(lg)
  <2>1. first <= j
    <3>1. CASE at = {}
      BY <1>2, <1>6, <3>1
    <3>2. CASE at # {}
      <4>1. first < j
        BY <1>1, <1>3, <1>6, <3>2
      <4> HIDE DEF first
      <4> QED BY <1>3, <1>6, <4>1
    <3> QED BY <3>1, <3>2
  <2> HIDE DEF first
  <2> QED BY <1>3, <1>4, <1>6, <2>1
<1> QED BY <1>5, <1>6

LEMMA InsertionTyped ==
    ASSUME NEW lg \in Seq(TRecord), NEW j \in 1..Len(lg)
    PROVE  /\ lg[j].type \in {"TOAST_INSERT", "COMMIT", "ABORT", "CHECKPOINT"}
           /\ lg[j].type = "TOAST_INSERT" => lg[j] \in TInsertion
           /\ lg[j].type = "CHECKPOINT" <=> lg[j].tx = 0
           /\ lg[j].type # "CHECKPOINT" => lg[j].tx \in Writer
           /\ \A x : lg[j].type = "COMMIT" /\ lg[j].tx = x <=> lg[j] = Mark("COMMIT", x)
           /\ \A x : lg[j].type = "ABORT" /\ lg[j].tx = x <=> lg[j] = Mark("ABORT", x)
<1>1. lg[j] \in TRecord
  OBVIOUS
<1>2. 0 \notin Writer
  BY ToastConstants
<1>3. CASE lg[j] \in TInsertion
  BY <1>2, <1>3 DEF TInsertion, Mark
<1>4. CASE lg[j] \in [type : {"COMMIT", "ABORT"}, tx : Writer]
  BY <1>2, <1>4 DEF Mark
<1>5. CASE lg[j] \in [type : {"CHECKPOINT"}, tx : {0}]
  BY <1>2, <1>5 DEF Mark
<1> QED BY <1>1, <1>3, <1>4, <1>5 DEF TRecord, TInsertion

----------------------------------------------------------------------------
(* Toast: redo and undo of a log. *)

\* Record j, which redo replays, inserts at slot s of page p.
Inserts(lg, j, p, s) == j \in Replayed(lg) /\ lg[j].page = p /\ lg[j].slot = s

\* Of the first n records, k is the last that inserts at slot s of page p.
LastAt(lg, k, n, p, s) ==
    k <= n /\ Inserts(lg, k, p, s) /\ \A j \in Replayed(lg) : j <= n /\ Inserts(lg, j, p, s) => j <= k

\* The state u is st with the first n records of the log replayed.
PlaceRedone(u, st, lg, n, p, s) ==
    \/ /\ ChunkAt(u.pages, p, s) = ChunkAt(st.pages, p, s)
       /\ \A j \in Replayed(lg) : j <= n => ~Inserts(lg, j, p, s)
    \/ \E k \in Replayed(lg) : LastAt(lg, k, n, p, s) /\ ChunkAt(u.pages, p, s) = lg[k].chunk

\* Chunk c is the only one with its number among the records.
OnlyOne(lg, c) == \A j \in Replayed(lg) : SameKey(lg[j].chunk, c) => lg[j].chunk = c

ReplayedUpTo(u, st, lg, n) ==
    /\ u \in RedoState
    /\ Len(u.pages) >= Len(st.pages)
    /\ \A j \in Replayed(lg) : j <= n => Len(u.pages) >= lg[j].page
    /\ \A p, s \in Place : PlaceRedone(u, st, lg, n, p, s)
    /\ \A c \in TChunk : (c \in st.chunks \/ \E j \in Replayed(lg) : j <= n /\ lg[j].chunk = c)
                         /\ OnlyOne(lg, c) => c \in u.chunks

LEMMA ReplayedTyped ==
    ASSUME NEW lg \in Seq(TRecord), NEW j \in Replayed(lg)
    PROVE  /\ j \in 1..Len(lg) /\ j \in Nat /\ lg[j].type = "TOAST_INSERT" /\ lg[j] \in TInsertion
           /\ lg[j].tx \in Writer /\ lg[j].chunk \in TChunk /\ lg[j].page \in Place
           /\ lg[j].slot \in 1..ChunksPerPage /\ lg[j].slot \in Place
<1>1. j \in 1..Len(lg) /\ lg[j].type = "TOAST_INSERT"
  BY ReplayedIs
<1>2. lg[j] \in TInsertion
  BY <1>1, InsertionTyped
<1> QED BY <1>1, <1>2 DEF TInsertion, Place

LEMMA RedoneNext ==
    ASSUME NEW lg \in Seq(TRecord), NEW st \in RedoState, NEW n \in 1..Len(lg), NEW t, NEW u,
           ReplayedUpTo(t, st, lg, n - 1),
           u = IF n \in Replayed(lg) THEN Redone(t, lg[n]) ELSE t
    PROVE  ReplayedUpTo(u, st, lg, n)
<1>1. CASE n \notin Replayed(lg)
  <2>1. \A j \in Replayed(lg) : j <= n <=> j <= n - 1
    <3>1. SUFFICES ASSUME NEW j \in Replayed(lg) PROVE j <= n <=> j <= n - 1
      OBVIOUS
    <3>2. j \in Nat /\ j # n
      BY <1>1, ReplayedTyped
    <3> QED BY <3>2
  <2>2. \A k, p, s : k \in Replayed(lg) => (LastAt(lg, k, n, p, s) <=> LastAt(lg, k, n - 1, p, s))
    BY <2>1 DEF LastAt
  <2>3. \A p, s \in Place : PlaceRedone(t, st, lg, n, p, s) <=> PlaceRedone(t, st, lg, n - 1, p, s)
    BY <2>1, <2>2 DEF PlaceRedone
  <2> QED BY <1>1, <2>1, <2>3 DEF ReplayedUpTo
<1>2. CASE n \in Replayed(lg)
  <2>1. PICK r : r = lg[n]
    OBVIOUS
  <2>2. r \in TInsertion /\ r.page \in Place /\ r.slot \in Place /\ r.chunk \in TChunk
    BY <1>2, <2>1, ReplayedTyped
  <2>3. t \in RedoState
    BY DEF ReplayedUpTo
  <2>4. Redoes(u, t, r)
    BY <1>2, <2>1, <2>2, <2>3, RedoneIs
  <2>5. /\ u \in RedoState /\ Len(u.pages) \in Nat /\ Len(t.pages) \in Nat /\ Len(st.pages) \in Nat
        /\ Len(u.pages) >= Len(t.pages) /\ Len(u.pages) >= r.page
        /\ ChunkAt(u.pages, r.page, r.slot) = r.chunk
        /\ \A p, s \in Place : p # r.page \/ s # r.slot => ChunkAt(u.pages, p, s) = ChunkAt(t.pages, p, s)
        /\ Remembers(u.chunks, t.chunks, r.chunk)
    BY <2>3, <2>4 DEF Redoes, Sets, RedoState, TPages
  <2>6. \A j \in Replayed(lg) : j \in Nat /\ lg[j].page \in Nat /\ (j <= n <=> j <= n - 1 \/ j = n)
    <3>1. SUFFICES ASSUME NEW j \in Replayed(lg)
                   PROVE  j \in Nat /\ lg[j].page \in Nat /\ (j <= n <=> j <= n - 1 \/ j = n)
      OBVIOUS
    <3>2. j \in Nat /\ lg[j].page \in Nat
      BY ReplayedTyped DEF Place
    <3> QED BY <3>2
  <2>7. Len(u.pages) >= Len(st.pages)
    BY <2>5 DEF ReplayedUpTo
  <2>8. \A j \in Replayed(lg) : j <= n => Len(u.pages) >= lg[j].page
    BY <2>1, <2>5, <2>6 DEF ReplayedUpTo
  <2>9. ASSUME NEW p \in Place, NEW s \in Place PROVE PlaceRedone(u, st, lg, n, p, s)
    <3>1. CASE p = r.page /\ s = r.slot
      <4>1. LastAt(lg, n, n, p, s)
        BY <1>2, <2>1, <3>1 DEF LastAt, Inserts
      <4> QED BY <1>2, <2>1, <2>5, <3>1, <4>1 DEF PlaceRedone
    <3>2. CASE ~(p = r.page /\ s = r.slot)
      <4>1. ~Inserts(lg, n, p, s)
        BY <2>1, <3>2 DEF Inserts
      <4>2. ChunkAt(u.pages, p, s) = ChunkAt(t.pages, p, s)
        BY <2>5, <3>2
      <4>3. PlaceRedone(t, st, lg, n - 1, p, s)
        BY DEF ReplayedUpTo
      <4>4. \A k \in Replayed(lg) : LastAt(lg, k, n - 1, p, s) => LastAt(lg, k, n, p, s)
        BY <2>6, <4>1 DEF LastAt
      <4> QED BY <2>6, <4>1, <4>2, <4>3, <4>4 DEF PlaceRedone
    <3> QED BY <3>1, <3>2
  <2>10. ASSUME NEW c \in TChunk, OnlyOne(lg, c),
                c \in st.chunks \/ \E j \in Replayed(lg) : j <= n /\ lg[j].chunk = c
         PROVE  c \in u.chunks
    <3>1. CASE SameKey(c, r.chunk)
      <4>1. c = r.chunk
        BY <1>2, <2>1, <2>10, <3>1 DEF OnlyOne, SameKey
      <4> QED BY <2>5, <4>1 DEF Remembers
    <3>2. CASE ~SameKey(c, r.chunk)
      <4>1. c # r.chunk
        BY <3>2 DEF SameKey
      <4>2. c \in st.chunks \/ \E j \in Replayed(lg) : j <= n - 1 /\ lg[j].chunk = c
        BY <2>1, <2>6, <2>10, <4>1
      <4>3. c \in t.chunks
        BY <2>10, <4>2 DEF ReplayedUpTo
      <4> QED BY <2>5, <3>2, <4>3 DEF Remembers
    <3> QED BY <3>1, <3>2
  <2> QED BY <2>5, <2>7, <2>8, <2>9, <2>10 DEF ReplayedUpTo
<1> QED BY <1>1, <1>2

LEMMA RedoIs ==
    ASSUME NEW lg \in Seq(TRecord), NEW st \in RedoState
    PROVE  ReplayedUpTo(Redo(st, lg), st, lg, Len(lg))
<1> DEFINE n == Len(lg)
           Step(i, u) == IF i \in Replayed(lg) THEN Redone(u, lg[i]) ELSE u
           F == [iu \in (1..n) \X RedoState |-> Step(iu[1], iu[2])]
           from(l, i) == IF i = 0 THEN st ELSE Step(i, l[i - 1])
<1>1. F \in [(1..n) \X RedoState -> RedoState]
  <2>1. ASSUME NEW i \in 1..n, NEW u \in RedoState PROVE Step(i, u) \in RedoState
    <3>1. CASE i \in Replayed(lg)
      BY <3>1, ReplayedTyped, RedoneIs DEF Redoes
    <3>2. CASE i \notin Replayed(lg)
      BY <3>2
    <3> QED BY <3>1, <3>2
  <2> HIDE DEF Step, n
  <2> QED BY <2>1
<1>2. n \in Nat
  OBVIOUS
<1>3. PICK w \in [0..n -> RedoState] : Follows(w, F, st, n)
  <2> HIDE DEF F, n
  <2> QED BY <1>1, <1>2, Recursion
<1>4. w = [i \in 0..n |-> from(w, i)]
  <2>1. ASSUME NEW i \in 0..n PROVE w[i] = from(w, i)
    <3>1. CASE i = 0
      BY <1>3, <3>1 DEF Follows
    <3>2. CASE i # 0
      <4>1. i \in 1..n /\ i - 1 \in 0..n
        BY <3>2
      <4>2. w[i] = F[<<i, w[i - 1]>>] /\ w[i - 1] \in RedoState
        <5> HIDE DEF F, n
        <5> QED BY <1>3, <3>2, <4>1 DEF Follows
      <4> HIDE DEF Step, n
      <4> QED BY <3>2, <4>1, <4>2
    <3> QED BY <3>1, <3>2
  <2> HIDE DEF from, n
  <2> QED BY <1>3, <2>1
<1>5. \E l : l = [i \in 0..n |-> from(l, i)] /\ Redo(st, lg) = l[n]
  <2> DEFINE l == CHOOSE f : f = [i \in 0..n |-> from(f, i)]
  <2>1. l = [i \in 0..n |-> from(l, i)]
    <3> HIDE DEF from, n
    <3> QED BY <1>4
  <2>2. Redo(st, lg) = l[n]
    BY DEF Redo
  <2> HIDE DEF l, from
  <2> QED BY <2>1, <2>2
<1>6. PICK l : l = [i \in 0..n |-> from(l, i)] /\ Redo(st, lg) = l[n]
  BY <1>5
<1> DEFINE G == {i \in 0..n : ReplayedUpTo(l[i], st, lg, i)}
<1>7. 0 \in G
  <2>1. l[0] = st
    <3>1. 0 \in 0..n
      BY <1>2
    <3>2. l[0] = from(l, 0)
      <4> HIDE DEF from, n
      <4> QED BY <1>6, <3>1
    <3> QED BY <3>2
  <2>2. \A j \in Replayed(lg) : ~(j <= 0)
    <3>1. SUFFICES ASSUME NEW j \in Replayed(lg) PROVE ~(j <= 0)
      OBVIOUS
    <3>2. j \in 1..Len(lg)
      BY ReplayedTyped
    <3> QED BY <3>2
  <2>3. ReplayedUpTo(st, st, lg, 0)
    <3>1. Len(st.pages) >= Len(st.pages)
      BY DEF RedoState, TPages
    <3>2. \A p, s \in Place : PlaceRedone(st, st, lg, 0, p, s)
      BY <2>2 DEF PlaceRedone
    <3> QED BY <2>2, <3>1, <3>2 DEF ReplayedUpTo
  <2> QED BY <1>2, <2>1, <2>3
<1>8. ASSUME NEW i \in 1..n, i - 1 \in G PROVE i \in G
  <2>1. i \in 0..n /\ i # 0
    OBVIOUS
  <2>2. l[i] = Step(i, l[i - 1])
    <3>1. l[i] = from(l, i)
      <4> HIDE DEF from, n
      <4> QED BY <1>6, <2>1
    <3> HIDE DEF Step
    <3> QED BY <2>1, <3>1
  <2>3. ReplayedUpTo(l[i - 1], st, lg, i - 1)
    BY <1>8
  <2>4. ReplayedUpTo(l[i], st, lg, i)
    BY <2>2, <2>3, RedoneNext
  <2> QED BY <2>1, <2>4
<1>9. n \in 0..n /\ G \in SUBSET (0..n)
  BY <1>2
<1>10. n \in G
  <2> HIDE DEF G, n
  <2> QED BY <1>2, <1>7, <1>8, <1>9, UpTo_n
<1> QED BY <1>6, <1>10

\* The state u is st with insertions of losers undone, and nothing else.
OnlyUndone(u, st, lg) ==
    /\ u \in RedoState
    /\ Len(u.pages) >= Len(st.pages)
    /\ \A p, s \in Place :
          \/ ChunkAt(u.pages, p, s) = ChunkAt(st.pages, p, s)
          \/ /\ ChunkAt(u.pages, p, s) = NoChunk
             /\ \E j \in Replayed(lg) : Inserts(lg, j, p, s) /\ lg[j].tx \in LosersOf(lg)
    /\ \A c \in st.chunks :
          (\A j \in Replayed(lg) : lg[j].tx \in LosersOf(lg) => lg[j].chunk.id # c.id) => c \in u.chunks

LEMMA UndoneNext ==
    ASSUME NEW lg \in Seq(TRecord), NEW st \in RedoState, NEW j \in Replayed(lg), lg[j].tx \in LosersOf(lg),
           NEW t, OnlyUndone(t, st, lg), lg[j].page <= Len(st.pages)
    PROVE  OnlyUndone(Undone(t, lg[j]), st, lg)
<1>1. PICK r : r = lg[j]
  OBVIOUS
<1>2. r \in TInsertion /\ r.page \in Place /\ r.slot \in Place
  BY <1>1, ReplayedTyped
<1>3. t \in RedoState /\ Len(t.pages) \in Nat /\ Len(st.pages) \in Nat /\ Len(t.pages) >= Len(st.pages)
  BY DEF OnlyUndone, RedoState, TPages
<1>4. r.page \in 1..Len(t.pages)
  BY <1>1, <1>2, <1>3 DEF Place
<1>5. PICK u : u = Undone(t, r)
  OBVIOUS
<1>6. Undoes(u, t, r)
  BY <1>2, <1>3, <1>4, <1>5, UndoneIs
<1>7. u \in RedoState /\ Len(u.pages) >= Len(st.pages)
  <2>1. Len(u.pages) \in Nat /\ Len(u.pages) >= Len(t.pages)
    BY <1>6 DEF Undoes, Sets, RedoState, TPages
  <2> QED BY <1>3, <1>6, <2>1 DEF Undoes
<1>8. ASSUME NEW p \in Place, NEW s \in Place
      PROVE  \/ ChunkAt(u.pages, p, s) = ChunkAt(st.pages, p, s)
             \/ /\ ChunkAt(u.pages, p, s) = NoChunk
                /\ \E i \in Replayed(lg) : Inserts(lg, i, p, s) /\ lg[i].tx \in LosersOf(lg)
  <2>1. CASE p = r.page /\ s = r.slot
    <3>1. ChunkAt(u.pages, p, s) = NoChunk
      BY <1>6, <2>1 DEF Undoes, Sets
    <3>2. Inserts(lg, j, p, s)
      BY <1>1, <2>1 DEF Inserts
    <3> QED BY <3>1, <3>2
  <2>2. CASE ~(p = r.page /\ s = r.slot)
    <3>1. ChunkAt(u.pages, p, s) = ChunkAt(t.pages, p, s)
      BY <1>6, <2>2 DEF Undoes, Sets
    <3> QED BY <3>1 DEF OnlyUndone
  <2> QED BY <2>1, <2>2
<1>9. ASSUME NEW c \in st.chunks, \A i \in Replayed(lg) : lg[i].tx \in LosersOf(lg) => lg[i].chunk.id # c.id
      PROVE  c \in u.chunks
  <2>1. c \in t.chunks
    BY <1>9 DEF OnlyUndone
  <2>2. c.id # r.chunk.id
    BY <1>1, <1>9
  <2> QED BY <1>6, <2>1, <2>2 DEF Undoes
<1>10. OnlyUndone(u, st, lg)
  BY <1>7, <1>8, <1>9 DEF OnlyUndone
<1> QED BY <1>1, <1>5, <1>10

LEMMA UndoIs ==
    ASSUME NEW lg \in Seq(TRecord), NEW st \in RedoState, \A j \in Replayed(lg) : lg[j].page <= Len(st.pages)
    PROVE  OnlyUndone(Undo(st, lg), st, lg)
<1> DEFINE n == Len(lg)
           S == {u \in RedoState : OnlyUndone(u, st, lg)}
           Acts(i) == n - i + 1 \in Replayed(lg) /\ lg[n - i + 1].tx \in LosersOf(lg)
           Step(i, u) == IF Acts(i) THEN Undone(u, lg[n - i + 1]) ELSE u
           F == [iu \in (1..n) \X S |-> Step(iu[1], iu[2])]
           from(l, i) == IF i = 0 THEN st ELSE Step(i, l[i - 1])
<1>1. st \in S
  <2>1. Len(st.pages) >= Len(st.pages)
    BY DEF RedoState, TPages
  <2> QED BY <2>1 DEF OnlyUndone
<1>2. ASSUME NEW i \in 1..n, NEW u \in S PROVE Step(i, u) \in S
  <2>1. CASE Acts(i)
    <3>1. OnlyUndone(Undone(u, lg[n - i + 1]), st, lg)
      BY <2>1, UndoneNext
    <3> QED BY <2>1, <3>1 DEF OnlyUndone
  <2>2. CASE ~Acts(i)
    BY <2>2
  <2> QED BY <2>1, <2>2
<1>3. F \in [(1..n) \X S -> S]
  <2> HIDE DEF Step, S, n
  <2> QED BY <1>2
<1>4. n \in Nat
  OBVIOUS
<1>5. PICK w \in [0..n -> S] : Follows(w, F, st, n)
  <2> HIDE DEF F, S, n
  <2> QED BY <1>1, <1>3, <1>4, Recursion
<1>6. w = [i \in 0..n |-> from(w, i)]
  <2>1. ASSUME NEW i \in 0..n PROVE w[i] = from(w, i)
    <3>1. CASE i = 0
      BY <1>5, <3>1 DEF Follows
    <3>2. CASE i # 0
      <4>1. i \in 1..n /\ i - 1 \in 0..n
        BY <3>2
      <4>2. w[i] = F[<<i, w[i - 1]>>] /\ w[i - 1] \in S
        <5> HIDE DEF F, n, S
        <5> QED BY <1>5, <3>2, <4>1 DEF Follows
      <4> HIDE DEF Step, S, n
      <4> QED BY <3>2, <4>1, <4>2
    <3> QED BY <3>1, <3>2
  <2> HIDE DEF from, n, S
  <2> QED BY <1>5, <2>1
<1>7. \E l : l = [i \in 0..n |-> from(l, i)] /\ Undo(st, lg) = l[n]
  <2> DEFINE l == CHOOSE f : f = [i \in 0..n |-> from(f, i)]
  <2>1. l = [i \in 0..n |-> from(l, i)]
    <3> HIDE DEF from, n
    <3> QED BY <1>6
  <2>2. Undo(st, lg) = l[n]
    BY DEF Undo
  <2> HIDE DEF l, from
  <2> QED BY <2>1, <2>2
<1>8. PICK l : l = [i \in 0..n |-> from(l, i)] /\ Undo(st, lg) = l[n]
  BY <1>7
<1> DEFINE G == {i \in 0..n : l[i] \in S}
<1>9. 0 \in G
  <2>1. 0 \in 0..n
    BY <1>4
  <2>2. l[0] = from(l, 0)
    <3> HIDE DEF from, n
    <3> QED BY <1>8, <2>1
  <2> HIDE DEF S, n
  <2> QED BY <1>1, <2>1, <2>2
<1>10. ASSUME NEW i \in 1..n, i - 1 \in G PROVE i \in G
  <2>1. i \in 0..n /\ i # 0
    OBVIOUS
  <2>2. l[i] = Step(i, l[i - 1])
    <3>1. l[i] = from(l, i)
      <4> HIDE DEF from, n
      <4> QED BY <1>8, <2>1
    <3> HIDE DEF Step
    <3> QED BY <2>1, <3>1
  <2> HIDE DEF Step, S, n
  <2> QED BY <1>2, <1>10, <2>1, <2>2
<1>11. n \in 0..n /\ G \in SUBSET (0..n)
  BY <1>4
<1>12. n \in G
  <2> HIDE DEF G, n
  <2> QED BY <1>4, <1>9, <1>10, <1>11, UpTo_n
<1> QED BY <1>8, <1>12

----------------------------------------------------------------------------
(* Toast: storing a value. *)

\* The k-th record that storing a value appends.
NewRecord(u, st, k) == u.log[Len(st.log) + k]

RecordOf(r, u, st, x, c) ==
    /\ r \in TInsertion /\ r.tx = x /\ r.chunk = c
    /\ ChunkAt(st.pages, r.page, r.slot) = NoChunk
    /\ ChunkAt(u.pages, r.page, r.slot) = c

\* The state u is st with the first i chunks of value v stored.
StoredUpTo(u, st, x, id, v, i) ==
    /\ u \in StoreState
    /\ Len(u.pages) >= Len(st.pages)
    /\ Len(u.log) = Len(st.log) + i
    /\ \A k \in 1..Len(st.log) : u.log[k] = st.log[k]
    /\ \A k \in 1..i : RecordOf(NewRecord(u, st, k), u, st, x, Chunk(id, k - 1, v))
    /\ \A p, s \in Place :
          \/ ChunkAt(u.pages, p, s) = ChunkAt(st.pages, p, s)
          \/ \E k \in 1..i : NewRecord(u, st, k).page = p /\ NewRecord(u, st, k).slot = s
    /\ \A c \in st.chunks : c.id # id => c \in u.chunks
    /\ \A k \in 1..i : Chunk(id, k - 1, v) \in u.chunks

LEMMA StoredPlaces ==
    ASSUME NEW u, NEW st, NEW x, NEW id, NEW v, NEW i, StoredUpTo(u, st, x, id, v, i),
           NEW p \in Place, NEW s \in Place
    PROVE  \/ ChunkAt(u.pages, p, s) = ChunkAt(st.pages, p, s)
           \/ \E k \in 1..i : NewRecord(u, st, k).page = p /\ NewRecord(u, st, k).slot = s
<1>1. \A q, w \in Place :
          \/ ChunkAt(u.pages, q, w) = ChunkAt(st.pages, q, w)
          \/ \E k \in 1..i : NewRecord(u, st, k).page = q /\ NewRecord(u, st, k).slot = w
  BY DEF StoredUpTo
<1> QED BY <1>1

LEMMA ChunkTyped ==
    ASSUME NEW id \in Place, NEW seq \in Nat, NEW v \in Nat
    PROVE  /\ Chunk(id, seq, v) \in TChunk /\ Chunk(id, seq, v) # NoChunk
           /\ Chunk(id, seq, v).id = id /\ Chunk(id, seq, v).seq = seq /\ Chunk(id, seq, v).value = v
  BY DEF Chunk, TChunk, NoChunk, Place

LEMMA StoredNext ==
    ASSUME NEW st \in StoreState, NEW x \in Writer, NEW id \in Place, NEW v \in Nat,
           NEW i \in Nat \ {0}, NEW t, NEW u,
           StoredUpTo(t, st, x, id, v, i - 1), u = Kept(t, x, Chunk(id, i - 1, v))
    PROVE  StoredUpTo(u, st, x, id, v, i)
<1>1. PICK c : c = Chunk(id, i - 1, v)
  OBVIOUS
<1>2. c \in TChunk /\ c # NoChunk /\ c.id = id /\ c.seq = i - 1
  BY <1>1, ChunkTyped
<1>3. t \in StoreState
  BY DEF StoredUpTo
<1>4. PICK p \in Place, s \in 1..ChunksPerPage : Keeps(u, t, x, c, p, s)
  BY <1>1, <1>2, <1>3, KeptIs
<1>5. PICK L : L = Len(st.log)
  OBVIOUS
<1>6. /\ L \in Nat /\ Len(t.log) = L + (i - 1) /\ Len(t.log) \in Nat
      /\ Len(t.pages) \in Nat /\ Len(st.pages) \in Nat /\ Len(t.pages) >= Len(st.pages)
      /\ s \in Place
  <2>1. Len(t.log) = L + (i - 1) /\ Len(t.pages) >= Len(st.pages)
    BY <1>5 DEF StoredUpTo
  <2>2. L \in Nat /\ Len(t.log) \in Nat /\ Len(t.pages) \in Nat /\ Len(st.pages) \in Nat
    BY <1>3, <1>5 DEF StoreState, TPages
  <2> QED BY <2>1, <2>2 DEF Place
<1>7. PICK r : r = Insertion(x, c, p, s)
  OBVIOUS
<1>8. r \in TInsertion /\ r.tx = x /\ r.chunk = c /\ r.page = p /\ r.slot = s
  BY <1>4, <1>7 DEF Keeps, Insertion
<1>9. /\ u \in StoreState /\ u.log = Append(t.log, r)
      /\ Len(u.pages) \in Nat /\ Len(u.pages) >= Len(t.pages)
      /\ ChunkAt(u.pages, p, s) = c /\ ChunkAt(t.pages, p, s) = NoChunk
      /\ \A q, w \in Place : q # p \/ w # s => ChunkAt(u.pages, q, w) = ChunkAt(t.pages, q, w)
      /\ Remembers(u.chunks, t.chunks, c)
  <2>1. /\ u \in StoreState /\ u.log = Append(t.log, r) /\ Remembers(u.chunks, t.chunks, c)
        /\ Sets(u.pages, t.pages, p, s, c) /\ ChunkAt(t.pages, p, s) = NoChunk
    BY <1>4, <1>7 DEF Keeps
  <2>2. Len(u.pages) \in Nat
    BY <2>1 DEF StoreState, TPages
  <2> QED BY <2>1, <2>2 DEF Sets
<1>10. /\ Len(u.log) = L + i /\ u.log[L + i] = r
       /\ \A k \in 1..(L + (i - 1)) : u.log[k] = t.log[k]
  <2>1. t.log \in Seq(TRecord)
    BY <1>3 DEF StoreState
  <2>2. /\ Len(u.log) = Len(t.log) + 1 /\ u.log[Len(t.log) + 1] = r
        /\ \A k \in 1..Len(t.log) : u.log[k] = t.log[k]
    <3>1. PICK lg : lg = t.log
      OBVIOUS
    <3>2. PICK l2 : l2 = Append(lg, r)
      OBVIOUS
    <3>3. l2 = u.log /\ lg \in Seq(TRecord)
      BY <1>9, <2>1, <3>1, <3>2
    <3>4. /\ Len(Append(lg, r)) = Len(lg) + 1 /\ Append(lg, r)[Len(lg) + 1] = r
          /\ \A k \in 1..Len(lg) : Append(lg, r)[k] = lg[k]
      BY <3>3
    <3>5. Len(l2) = Len(lg) + 1 /\ l2[Len(lg) + 1] = r /\ \A k \in 1..Len(lg) : l2[k] = lg[k]
      BY ONLY <3>2, <3>4, Zenon
    <3> QED BY <3>1, <3>3, <3>5
  <2>3. Len(t.log) + 1 = L + i /\ Len(t.log) = L + (i - 1)
    BY <1>6
  <2> QED BY <2>2, <2>3
<1>11. \A k \in 1..(i - 1) : NewRecord(u, st, k) = NewRecord(t, st, k)
  <2>1. SUFFICES ASSUME NEW k \in 1..(i - 1) PROVE u.log[L + k] = t.log[L + k]
    BY <1>5 DEF NewRecord
  <2>2. L + k \in 1..(L + (i - 1))
    BY <1>6
  <2> QED BY <1>10, <2>2
<1>12. NewRecord(u, st, i) = r
  BY <1>5, <1>10 DEF NewRecord
<1>13. ASSUME NEW k \in 1..(i - 1)
       PROVE  /\ NewRecord(t, st, k).page # p \/ NewRecord(t, st, k).slot # s
              /\ RecordOf(NewRecord(t, st, k), u, st, x, Chunk(id, k - 1, v))
  <2>1. PICK q : q = NewRecord(t, st, k)
    OBVIOUS
  <2>2. PICK d : d = Chunk(id, k - 1, v)
    OBVIOUS
  <2>3. d # NoChunk
    BY <2>2, ChunkTyped
  <2>4. RecordOf(q, t, st, x, d)
    BY <2>1, <2>2 DEF StoredUpTo
  <2>5. q.page # p \/ q.slot # s
    BY <1>9, <2>3, <2>4 DEF RecordOf
  <2>6. q.page \in Place /\ q.slot \in Place
    BY <2>4 DEF RecordOf, TInsertion, Place
  <2>7. ChunkAt(u.pages, q.page, q.slot) = ChunkAt(t.pages, q.page, q.slot)
    BY <1>9, <2>5, <2>6
  <2>8. RecordOf(q, u, st, x, d)
    BY <2>4, <2>7 DEF RecordOf
  <2> QED BY <2>1, <2>2, <2>5, <2>8
<1>14. ChunkAt(st.pages, p, s) = NoChunk
  <2>1. \/ ChunkAt(t.pages, p, s) = ChunkAt(st.pages, p, s)
        \/ \E k \in 1..(i - 1) : NewRecord(t, st, k).page = p /\ NewRecord(t, st, k).slot = s
    BY <1>6 DEF StoredUpTo
  <2> QED BY <1>9, <1>13, <2>1
<1>15. RecordOf(NewRecord(u, st, i), u, st, x, Chunk(id, i - 1, v))
  BY <1>1, <1>8, <1>9, <1>12, <1>14 DEF RecordOf
<1>16. \A k \in 1..i : RecordOf(NewRecord(u, st, k), u, st, x, Chunk(id, k - 1, v))
  <2>1. SUFFICES ASSUME NEW k \in 1..i PROVE RecordOf(NewRecord(u, st, k), u, st, x, Chunk(id, k - 1, v))
    OBVIOUS
  <2>2. k = i \/ k \in 1..(i - 1)
    OBVIOUS
  <2> QED BY <1>11, <1>13, <1>15, <2>2
<1>17. ASSUME NEW q \in Place, NEW w \in Place
       PROVE  \/ ChunkAt(u.pages, q, w) = ChunkAt(st.pages, q, w)
              \/ \E k \in 1..i : NewRecord(u, st, k).page = q /\ NewRecord(u, st, k).slot = w
  <2>1. CASE q = p /\ w = s
    BY <1>8, <1>12, <2>1
  <2>2. CASE ~(q = p /\ w = s)
    <3>1. ChunkAt(u.pages, q, w) = ChunkAt(t.pages, q, w)
      BY <1>9, <2>2
    <3>2. \/ ChunkAt(t.pages, q, w) = ChunkAt(st.pages, q, w)
          \/ \E k \in 1..(i - 1) : NewRecord(t, st, k).page = q /\ NewRecord(t, st, k).slot = w
      BY DEF StoredUpTo
    <3>3. \A k \in 1..(i - 1) : k \in 1..i
      OBVIOUS
    <3> QED BY <1>11, <3>1, <3>2, <3>3
  <2> QED BY <2>1, <2>2
<1>18. \A k \in 1..Len(st.log) : u.log[k] = st.log[k]
  <2>1. SUFFICES ASSUME NEW k \in 1..L PROVE u.log[k] = st.log[k]
    BY <1>5
  <2>2. k \in 1..(L + (i - 1))
    BY <1>6
  <2> QED BY <1>5, <1>10, <2>2 DEF StoredUpTo
<1>19. \A d \in st.chunks : d.id # id => d \in u.chunks
  BY <1>2, <1>9 DEF StoredUpTo, Remembers, SameKey
<1>20. \A k \in 1..i : Chunk(id, k - 1, v) \in u.chunks
  <2>1. SUFFICES ASSUME NEW k \in 1..i PROVE Chunk(id, k - 1, v) \in u.chunks
    OBVIOUS
  <2>2. CASE k = i
    BY <1>1, <1>9, <2>2 DEF Remembers
  <2>3. CASE k # i
    <3>1. k \in 1..(i - 1) /\ k - 1 \in Nat /\ k - 1 # i - 1
      BY <2>3
    <3>2. Chunk(id, k - 1, v) \in t.chunks
      BY <3>1 DEF StoredUpTo
    <3>3. ~SameKey(Chunk(id, k - 1, v), c)
      BY <1>2, <3>1, ChunkTyped DEF SameKey
    <3> QED BY <1>9, <3>2, <3>3 DEF Remembers
  <2> QED BY <2>2, <2>3
<1>21. Len(u.pages) >= Len(st.pages) /\ Len(u.log) = Len(st.log) + i
  <2>1. Len(u.pages) \in Nat /\ Len(u.pages) >= Len(t.pages) /\ Len(u.log) = L + i
    BY <1>9, <1>10
  <2>2. \A k, m, n \in Nat : k >= m /\ m >= n => k >= n
    OBVIOUS
  <2>3. Len(u.pages) >= Len(st.pages)
    BY <1>6, <2>1, <2>2
  <2> QED BY <1>5, <2>1, <2>3
<1> QED BY <1>9, <1>16, <1>17, <1>18, <1>19, <1>20, <1>21 DEF StoredUpTo

LEMMA AllKeptIs ==
    ASSUME NEW st \in StoreState, NEW x \in Writer, NEW id \in Place, NEW v \in Nat, NEW n \in Nat
    PROVE  StoredUpTo(AllKept(st, x, id, v, n), st, x, id, v, n)
<1> DEFINE Step(i, u) == Kept(u, x, Chunk(id, i - 1, v))
           F == [iu \in (1..n) \X StoreState |-> Step(iu[1], iu[2])]
           from(l, i) == IF i = 0 THEN st ELSE Step(i, l[i - 1])
<1>1. F \in [(1..n) \X StoreState -> StoreState]
  <2>1. ASSUME NEW i \in 1..n, NEW u \in StoreState PROVE Step(i, u) \in StoreState
    <3>1. Chunk(id, i - 1, v) \in TChunk
      BY ChunkTyped
    <3> QED BY <3>1, KeptIs DEF Keeps
  <2> HIDE DEF Step
  <2> QED BY <2>1
<1>2. PICK w \in [0..n -> StoreState] : Follows(w, F, st, n)
  <2> HIDE DEF F
  <2> QED BY <1>1, Recursion
<1>3. w = [i \in 0..n |-> from(w, i)]
  <2>1. ASSUME NEW i \in 0..n PROVE w[i] = from(w, i)
    <3>1. CASE i = 0
      BY <1>2, <3>1 DEF Follows
    <3>2. CASE i # 0
      <4>1. i \in 1..n /\ i - 1 \in 0..n
        BY <3>2
      <4>2. w[i] = F[<<i, w[i - 1]>>] /\ w[i - 1] \in StoreState
        <5> HIDE DEF F
        <5> QED BY <1>2, <3>2, <4>1 DEF Follows
      <4> HIDE DEF Step
      <4> QED BY <3>2, <4>1, <4>2
    <3> QED BY <3>1, <3>2
  <2> HIDE DEF from
  <2> QED BY <1>2, <2>1
<1>4. \E l : l = [i \in 0..n |-> from(l, i)] /\ AllKept(st, x, id, v, n) = l[n]
  <2> DEFINE l == CHOOSE f : f = [i \in 0..n |-> from(f, i)]
  <2>1. l = [i \in 0..n |-> from(l, i)]
    <3> HIDE DEF from
    <3> QED BY <1>3
  <2>2. AllKept(st, x, id, v, n) = l[n]
    BY DEF AllKept
  <2> HIDE DEF l, from
  <2> QED BY <2>1, <2>2
<1>5. PICK l : l = [i \in 0..n |-> from(l, i)] /\ AllKept(st, x, id, v, n) = l[n]
  BY <1>4
<1> DEFINE G == {i \in 0..n : StoredUpTo(l[i], st, x, id, v, i)}
<1>6. 0 \in G
  <2>1. 0 \in 0..n
    OBVIOUS
  <2>2. l[0] = st
    <3>1. l[0] = from(l, 0)
      <4> HIDE DEF from
      <4> QED BY <1>5, <2>1
    <3> QED BY <3>1
  <2>3. StoredUpTo(st, st, x, id, v, 0)
    <3>1. Len(st.pages) >= Len(st.pages) /\ Len(st.log) = Len(st.log) + 0
      BY DEF StoreState, TPages
    <3> QED BY <3>1 DEF StoredUpTo
  <2> QED BY <2>1, <2>2, <2>3
<1>7. ASSUME NEW i \in 1..n, i - 1 \in G PROVE i \in G
  <2>1. i \in 0..n /\ i # 0 /\ i \in Nat \ {0}
    OBVIOUS
  <2>2. l[i] = Step(i, l[i - 1])
    <3>1. l[i] = from(l, i)
      <4> HIDE DEF from
      <4> QED BY <1>5, <2>1
    <3> HIDE DEF Step
    <3> QED BY <2>1, <3>1
  <2>3. StoredUpTo(l[i - 1], st, x, id, v, i - 1)
    BY <1>7
  <2>4. StoredUpTo(l[i], st, x, id, v, i)
    BY <2>1, <2>2, <2>3, StoredNext
  <2> QED BY <2>1, <2>4
<1>8. n \in 0..n /\ G \in SUBSET (0..n)
  OBVIOUS
<1>9. n \in G
  <2> HIDE DEF G
  <2> QED BY <1>6, <1>7, <1>8, UpTo_n
<1> QED BY <1>5, <1>9

----------------------------------------------------------------------------
(* Toast: the invariant. *)

Slot   == 1..ChunksPerPage
TValue == [tx : Writer, id : Place, count : Place, value : Place]

Ends(type, x, lg) == \E i \in 1..Len(lg) : lg[i] = Mark(type, x)

ToastTyped(m, next, ps, ss, lg, fl, up) ==
    /\ m \in SUBSET TChunk /\ next \in Place
    /\ ps \in TPages /\ ss \in TPages /\ Len(ss) <= Len(ps)
    /\ lg \in Seq(TRecord) /\ fl \in 0..Len(lg)
    /\ up \in BOOLEAN

ValuesOK(vs, next) ==
    /\ vs \in SUBSET TValue /\ IsFiniteSet(vs)
    /\ \A v \in vs : v.id <= v.value /\ v.value <= Cardinality(vs)
    /\ \A v, w \in vs : v.value = w.value => v = w
    /\ next <= Cardinality(vs) + 1

\* Records come from values.
RecordsOK(vs, lg) ==
    \A j \in 1..Len(lg) : lg[j].type = "TOAST_INSERT" =>
        \E v \in vs : v.tx = lg[j].tx /\ lg[j].chunk \in ChunksOf(v)

\* A slot is given to another chunk only after the first one's transaction was rolled
\* back in the log.
ReuseOK(lg) ==
    \A i, j \in Replayed(lg) : i < j /\ lg[i].page = lg[j].page /\ lg[i].slot = lg[j].slot =>
        \E k \in 1..Len(lg) : k < j /\ lg[k] = Mark("ABORT", lg[i].tx)

\* A transaction ends in one way, and writes nothing afterwards.
EndsOK(lg) ==
    \A i, j \in 1..Len(lg) :
        lg[i].type \in {"COMMIT", "ABORT"} /\ lg[j].tx = lg[i].tx /\ lg[j].type # lg[i].type => j < i

OverOK(vs, lg, over, up) ==
    /\ \A i \in 1..Len(lg) : lg[i].type \in {"COMMIT", "ABORT"} => lg[i].tx \in over
    /\ ~up => \A v \in vs : v.tx \in over

FlushOK(lg, fl) == \A i \in 1..Len(lg) : lg[i].type = "CHECKPOINT" => i <= fl

\* Chunk c is at slot s of page p in the file, or may be after a crash or a recovery.
Somewhere(ps, ss, lg, c, p, s) ==
    /\ c # NoChunk
    /\ \/ ChunkAt(ps, p, s) = c
       \/ ChunkAt(ss, p, s) = c
       \/ \E j \in Replayed(lg) : Inserts(lg, j, p, s) /\ lg[j].chunk = c

Known(vs, ps, ss, lg) ==
    \A c \in TChunk, p \in Place, s \in Slot : Somewhere(ps, ss, lg, c, p, s) => \E v \in vs : c \in ChunksOf(v)

\* Wherever chunks of one id may be, they are of one value, and each at one place.
Apart(ps, ss, lg) ==
    \A c, d \in TChunk, p, q \in Place, s, t \in Slot :
        Somewhere(ps, ss, lg, c, p, s) /\ Somewhere(ps, ss, lg, d, q, t) /\ c.id = d.id =>
            c.value = d.value /\ (c.seq = d.seq => p = q /\ s = t)

IdsOK(ps, ss, next) ==
    \A p \in Place, s \in Slot : ChunkAt(ps, p, s).id < next /\ ChunkAt(ss, p, s).id < next

\* Values whose transaction has committed, or may yet commit.
Lasting(v, lg, over, up) == Ends("COMMIT", v.tx, lg) \/ (up /\ v.tx \notin over)

\* Redo brings chunk c of transaction x back, or it is on the disk to stay.
HeldAt(ps, ss, lg, x, c, p, s) ==
    \/ \E j \in Replayed(lg) : lg[j] = Insertion(x, c, p, s)
    \/ /\ ChunkAt(ps, p, s) = c /\ ChunkAt(ss, p, s) = c
       /\ \A j \in Replayed(lg) : ~Inserts(lg, j, p, s)

ChunksHeld(vs, ps, ss, lg, over, up) ==
    \A v \in vs : Lasting(v, lg, over, up) =>
        \A c \in ChunksOf(v) : \E p \in Place, s \in Slot : HeldAt(ps, ss, lg, v.tx, c, p, s)

\* While an engine runs, the pages have what redo would bring back, but for what a
\* rollback has freed.
RecordsShown(ps, lg) ==
    \A j \in Replayed(lg) :
        ChunkAt(ps, lg[j].page, lg[j].slot) = lg[j].chunk \/ Ends("ABORT", lg[j].tx, lg)

IndexHolds(vs, m, lg, over) ==
    \A v \in vs : Lasting(v, lg, over, TRUE) => ChunksOf(v) \subseteq m

ToastOK(vs, m, next, ps, ss, lg, fl, up, over) ==
    /\ ToastTyped(m, next, ps, ss, lg, fl, up)
    /\ ValuesOK(vs, next)
    /\ RecordsOK(vs, lg) /\ ReuseOK(lg) /\ EndsOK(lg)
    /\ OverOK(vs, lg, over, up) /\ FlushOK(lg, fl)
    /\ Known(vs, ps, ss, lg) /\ Apart(ps, ss, lg) /\ IdsOK(ps, ss, next)
    /\ ChunksHeld(vs, ps, ss, lg, over, up)
    /\ up => RecordsShown(ps, lg) /\ IndexHolds(vs, m, lg, over)

ToastInv ==
    ToastOK(values, chunks, nextToastId, toastPages, toastSynced, toastLog, toastFlushed, toastUp, toastOver)

LEMMA ChunksTyped ==
    ASSUME NEW v \in TValue, NEW c \in ChunksOf(v)
    PROVE  /\ c \in TChunk /\ c # NoChunk /\ c.id = v.id /\ c.value = v.value /\ c.id \in Place
           /\ c.seq \in 0..(v.count - 1) /\ c = Chunk(v.id, c.seq, v.value)
<1>1. PICK i \in 0..(v.count - 1) : c = Chunk(v.id, i, v.value)
  BY DEF ChunksOf
<1>2. v.id \in Place /\ v.value \in Nat /\ v.count \in Nat /\ i \in Nat
  BY DEF TValue, Place
<1> QED BY <1>1, <1>2, ChunkTyped

LEMMA FirstInit == ToastInit => ToastInv
<1>1. SUFFICES ASSUME ToastInit PROVE ToastInv
  OBVIOUS
<1>2. PICK ps : ps = <<<<>>>>
  OBVIOUS
<1>3. PICK lg : lg = <<>>
  OBVIOUS
<1>4. ps \in TPages /\ Len(ps) = 1 /\ \A p, s : ChunkAt(ps, p, s) = NoChunk
  <2>1. <<>> \in Seq(TChunk)
    OBVIOUS
  <2>2. ps \in Seq(Seq(TChunk)) /\ Len(ps) = 1 /\ ps[1] = <<>>
    BY <1>2, <2>1
  <2>3. ps \in TPages
    <3>1. Len(ps) > 0
      BY <2>2
    <3> QED BY <2>2, <3>1, SomePages
  <2>4. \A p, s : ChunkAt(ps, p, s) = NoChunk
    BY <2>2 DEF ChunkAt, OnPage
  <2> QED BY <2>2, <2>3, <2>4
<1>5. lg \in Seq(TRecord) /\ Len(lg) = 0 /\ \A j : j \notin Replayed(lg)
  <2>1. lg \in Seq(TRecord) /\ Len(lg) = 0
    BY <1>3
  <2>2. ASSUME NEW j, j \in Replayed(lg) PROVE FALSE
    <3>1. j \in 1..Len(lg)
      BY <2>1, <2>2, ReplayedIs
    <3> QED BY <2>1, <3>1
  <2> QED BY <2>1, <2>2
<1>6. ToastTyped({}, 1, ps, ps, lg, 0, TRUE)
  BY <1>4, <1>5 DEF ToastTyped, Place
<1>7. ValuesOK({}, 1)
  <2>1. IsFiniteSet({}) /\ Cardinality({}) = 0
    BY FS_EmptySet
  <2> QED BY <2>1 DEF ValuesOK
<1>8. RecordsOK({}, lg) /\ ReuseOK(lg) /\ EndsOK(lg) /\ OverOK({}, lg, {}, TRUE) /\ FlushOK(lg, 0)
  BY <1>5 DEF RecordsOK, ReuseOK, EndsOK, OverOK, FlushOK
<1>9. \A c, p, s : ~Somewhere(ps, ps, lg, c, p, s)
  BY <1>4, <1>5 DEF Somewhere
<1>10. Known({}, ps, ps, lg) /\ Apart(ps, ps, lg)
  BY <1>9 DEF Known, Apart
<1>11. IdsOK(ps, ps, 1)
  BY <1>4, NoChunkIs DEF IdsOK
<1>12. ChunksHeld({}, ps, ps, lg, {}, TRUE) /\ RecordsShown(ps, lg) /\ IndexHolds({}, {}, lg, {})
  BY <1>5 DEF ChunksHeld, RecordsShown, IndexHolds
<1>13. ToastOK({}, {}, 1, ps, ps, lg, 0, TRUE, {})
  BY <1>6, <1>7, <1>8, <1>10, <1>11, <1>12 DEF ToastOK
<1> QED BY <1>1, <1>2, <1>3, <1>13 DEF ToastInit, ToastInv

\* What may be in the file says less when less may be in it.
LEMMA FewerPlaces ==
    ASSUME NEW vs, NEW ps, NEW ss, NEW lg, NEW qs, NEW ts, NEW l2,
           Known(vs, ps, ss, lg), Apart(ps, ss, lg),
           \A c \in TChunk, p \in Place, s \in Slot :
               Somewhere(qs, ts, l2, c, p, s) => Somewhere(ps, ss, lg, c, p, s)
    PROVE  Known(vs, qs, ts, l2) /\ Apart(qs, ts, l2)
<1>1. Known(vs, qs, ts, l2)
  BY DEF Known
<1>2. Apart(qs, ts, l2)
  <2>1. SUFFICES ASSUME NEW c \in TChunk, NEW d \in TChunk, NEW p \in Place, NEW q \in Place,
                        NEW s \in Slot, NEW t \in Slot,
                        Somewhere(qs, ts, l2, c, p, s), Somewhere(qs, ts, l2, d, q, t), c.id = d.id
                 PROVE  c.value = d.value /\ (c.seq = d.seq => p = q /\ s = t)
    BY DEF Apart
  <2>2. Somewhere(ps, ss, lg, c, p, s) /\ Somewhere(ps, ss, lg, d, q, t)
    BY <2>1
  <2> QED BY <2>1, <2>2 DEF Apart
<1> QED BY <1>1, <1>2

LEMMA HeldSomewhere ==
    ASSUME NEW ps, NEW ss, NEW lg, NEW x, NEW c, NEW p, NEW s, c # NoChunk, HeldAt(ps, ss, lg, x, c, p, s)
    PROVE  Somewhere(ps, ss, lg, c, p, s)
  BY DEF HeldAt, Somewhere, Inserts, Insertion

LEMMA EndsOnce ==
    ASSUME NEW lg \in Seq(TRecord), EndsOK(lg), NEW x, Ends("COMMIT", x, lg), Ends("ABORT", x, lg)
    PROVE  FALSE
<1>1. PICK i \in 1..Len(lg) : lg[i] = Mark("COMMIT", x)
  BY DEF Ends
<1>2. PICK j \in 1..Len(lg) : lg[j] = Mark("ABORT", x)
  BY DEF Ends
<1>3. j < i /\ i < j
  BY <1>1, <1>2 DEF EndsOK, Mark
<1> QED BY <1>3

LEMMA LastingEnds ==
    ASSUME NEW vs, NEW v, NEW lg \in Seq(TRecord), EndsOK(lg), NEW over, NEW up, OverOK(vs, lg, over, up),
           Lasting(v, lg, over, up)
    PROVE  ~Ends("ABORT", v.tx, lg)
<1>1. SUFFICES ASSUME Ends("ABORT", v.tx, lg) PROVE FALSE
  OBVIOUS
<1>2. v.tx \in over
  BY <1>1 DEF OverOK, Ends, Mark
<1>3. Ends("COMMIT", v.tx, lg)
  BY <1>2 DEF Lasting
<1> QED BY <1>1, <1>3, EndsOnce

----------------------------------------------------------------------------
(* Toast: scans and ids. *)

Distinct(ps) ==
    \A p, q \in Place, s, t \in Slot :
        ChunkAt(ps, p, s) # NoChunk /\ ChunkAt(ps, q, t) # NoChunk /\ SameKey(ChunkAt(ps, p, s), ChunkAt(ps, q, t))
            => p = q /\ s = t

LEMMA DistinctPages ==
    ASSUME NEW ps \in TPages, NEW ss, NEW lg, Apart(ps, ss, lg)
    PROVE  Distinct(ps)
<1>1. SUFFICES ASSUME NEW p \in Place, NEW q \in Place, NEW s \in Slot, NEW t \in Slot,
                      ChunkAt(ps, p, s) # NoChunk, ChunkAt(ps, q, t) # NoChunk,
                      SameKey(ChunkAt(ps, p, s), ChunkAt(ps, q, t))
               PROVE  p = q /\ s = t
  BY DEF Distinct
<1>2. PICK c \in TChunk : c = ChunkAt(ps, p, s)
  BY SlotsTyped
<1>3. PICK d \in TChunk : d = ChunkAt(ps, q, t)
  BY SlotsTyped
<1>4. Somewhere(ps, ss, lg, c, p, s) /\ Somewhere(ps, ss, lg, d, q, t)
  BY <1>1, <1>2, <1>3 DEF Somewhere
<1> QED BY <1>1, <1>2, <1>3, <1>4 DEF Apart, SameKey

LEMMA ScanIs ==
    ASSUME NEW ps \in TPages, Distinct(ps)
    PROVE  /\ ScanOf(ps) \in SUBSET TChunk
           /\ \A p \in Place, s \in Slot : ChunkAt(ps, p, s) # NoChunk => ChunkAt(ps, p, s) \in ScanOf(ps)
           /\ \A c \in ScanOf(ps) : c # NoChunk /\ \E p \in Place, s \in Slot : ChunkAt(ps, p, s) = c
<1> DEFINE AllAt == Places(ps)
<1>1. DOMAIN ps = 1..Len(ps) /\ Len(ps) \in Nat /\ \A p \in 1..Len(ps) : DOMAIN ps[p] = 1..Len(ps[p]) /\ Len(ps[p]) \in Nat
  <2>1. ps \in Seq(Seq(TChunk))
    BY DEF TPages
  <2> QED BY <2>1
<1>2. ASSUME NEW l \in AllAt
      PROVE  /\ l[1] \in Place /\ l[2] \in Slot /\ l = <<l[1], l[2]>>
             /\ ps[l[1]][l[2]] = ChunkAt(ps, l[1], l[2]) /\ ChunkAt(ps, l[1], l[2]) # NoChunk
  <2>1. l \in (1..Len(ps)) \X (1..ChunksPerPage) /\ l[2] \in 1..Len(ps[l[1]]) /\ ps[l[1]][l[2]] # NoChunk
    BY <1>1 DEF Places
  <2>2. l[1] \in 1..Len(ps) /\ l[2] \in 1..ChunksPerPage /\ l = <<l[1], l[2]>>
    BY <2>1
  <2>3. ps[l[1]][l[2]] = ChunkAt(ps, l[1], l[2])
    BY <2>1, <2>2 DEF ChunkAt, OnPage
  <2> QED BY <2>1, <2>2, <2>3 DEF Place, Slot
<1>3. ASSUME NEW p \in Place, NEW s \in Slot, ChunkAt(ps, p, s) # NoChunk
      PROVE  <<p, s>> \in AllAt
  <2>1. p \in 1..Len(ps) /\ s \in 1..Len(ps[p]) /\ ps[p][s] # NoChunk
    BY <1>3 DEF ChunkAt, OnPage
  <2> QED BY <1>1, <2>1 DEF Places, Slot
<1>4. ScanOf(ps) = {ps[l[1]][l[2]] : l \in {l \in AllAt :
          \A m \in AllAt : SameKey(ps[m[1]][m[2]], ps[l[1]][l[2]]) => ~Later(m, l)}}
  BY DEF ScanOf
<1>5. ASSUME NEW l \in AllAt, NEW m \in AllAt, SameKey(ps[m[1]][m[2]], ps[l[1]][l[2]]) PROVE ~Later(m, l)
  <2>1. l[1] \in Place /\ l[2] \in Slot /\ m[1] \in Place /\ m[2] \in Slot
    BY <1>2
  <2>2. /\ ps[l[1]][l[2]] = ChunkAt(ps, l[1], l[2]) /\ ChunkAt(ps, l[1], l[2]) # NoChunk
        /\ ps[m[1]][m[2]] = ChunkAt(ps, m[1], m[2]) /\ ChunkAt(ps, m[1], m[2]) # NoChunk
    BY <1>2
  <2>3. m[1] = l[1] /\ m[2] = l[2]
    BY <1>5, <2>1, <2>2 DEF Distinct
  <2> QED BY <2>1, <2>3 DEF Later, Place, Slot
<1> HIDE DEF AllAt
<1>6. \A c : c \in ScanOf(ps) <=> \E l \in AllAt : c = ps[l[1]][l[2]]
  BY <1>4, <1>5
<1>7. ASSUME NEW c \in ScanOf(ps)
      PROVE  c \in TChunk /\ c # NoChunk /\ \E p \in Place, s \in Slot : ChunkAt(ps, p, s) = c
  <2>1. PICK l \in AllAt : c = ps[l[1]][l[2]]
    BY <1>6
  <2>2. l[1] \in Place /\ l[2] \in Slot /\ c = ChunkAt(ps, l[1], l[2]) /\ c # NoChunk
    BY <1>2, <2>1
  <2> QED BY <2>2, SlotsTyped
<1>8. ASSUME NEW p \in Place, NEW s \in Slot, ChunkAt(ps, p, s) # NoChunk
      PROVE  ChunkAt(ps, p, s) \in ScanOf(ps)
  <2>1. PICK l : l = <<p, s>>
    OBVIOUS
  <2>2. l \in AllAt /\ l[1] = p /\ l[2] = s
    BY <1>3, <1>8, <2>1
  <2>3. ps[l[1]][l[2]] = ChunkAt(ps, p, s)
    BY <1>2, <2>2
  <2> QED BY <1>6, <2>2, <2>3
<1> QED BY <1>7, <1>8

LEMMA AboveIs ==
    ASSUME NEW ids \in SUBSET Nat, NEW b \in Nat, \A i \in ids : i <= b
    PROVE  Above(ids) \in Place /\ Above(ids) <= b + 1 /\ \A i \in ids : i < Above(ids)
<1>1. CASE ids = {}
  BY <1>1 DEF Above, Place
<1>2. CASE ids # {}
  <2>1. PICK m : m = Max(ids)
    OBVIOUS
  <2>2. m \in ids /\ \A i \in ids : i <= m
    BY <1>2, <2>1, GreatestOf
  <2>3. Above(ids) = m + 1
    BY <1>2, <2>1 DEF Above
  <2> QED BY <2>2, <2>3 DEF Place
<1> QED BY <1>1, <1>2

----------------------------------------------------------------------------
(* Toast: longer and shorter logs. *)

\* The log l2 is lg and more, without a checkpoint.
Grown(l2, lg) ==
    /\ lg \in Seq(TRecord) /\ l2 \in Seq(TRecord) /\ Len(lg) <= Len(l2)
    /\ \A i \in 1..Len(lg) : l2[i] = lg[i]
    /\ \A i \in 1..Len(l2) : i > Len(lg) => l2[i].type # "CHECKPOINT"

LEMMA GrownReplays ==
    ASSUME NEW lg, NEW l2, Grown(l2, lg)
    PROVE  /\ \A j \in Replayed(lg) : j \in Replayed(l2) /\ j \in 1..Len(lg) /\ l2[j] = lg[j]
           /\ \A j \in Replayed(l2) : j \in 1..Len(l2) /\ (j <= Len(lg) => j \in Replayed(lg))
           /\ \A j \in 1..Len(l2) : j > Len(lg) /\ l2[j].type = "TOAST_INSERT" => j \in Replayed(l2)
<1>1. /\ lg \in Seq(TRecord) /\ l2 \in Seq(TRecord) /\ Len(lg) <= Len(l2)
      /\ Len(lg) \in Nat /\ Len(l2) \in Nat
      /\ \A i \in 1..Len(lg) : l2[i] = lg[i] /\ i \in 1..Len(l2)
      /\ \A i \in 1..Len(l2) : i > Len(lg) => l2[i].type # "CHECKPOINT"
  BY DEF Grown
<1>2. ASSUME NEW i \in 1..Len(l2), l2[i].type = "CHECKPOINT"
      PROVE  i \in 1..Len(lg) /\ lg[i].type = "CHECKPOINT"
  <2>1. i \in 1..Len(lg)
    BY <1>1, <1>2
  <2> QED BY <1>1, <1>2, <2>1
<1>3. ASSUME NEW j \in Replayed(lg) PROVE j \in Replayed(l2) /\ j \in 1..Len(lg) /\ l2[j] = lg[j]
  <2>1. /\ j \in 1..Len(lg) /\ lg[j].type = "TOAST_INSERT"
        /\ \A i \in 1..Len(lg) : lg[i].type = "CHECKPOINT" => i < j
    BY <1>1, ReplayedIs
  <2>2. j \in 1..Len(l2) /\ l2[j].type = "TOAST_INSERT" /\ l2[j] = lg[j]
    BY <1>1, <2>1
  <2>3. \A i \in 1..Len(l2) : l2[i].type = "CHECKPOINT" => i < j
    BY <1>2, <2>1
  <2>4. j \in Replayed(l2)
    BY <1>1, <2>2, <2>3, ReplayedIs
  <2> QED BY <2>1, <2>2, <2>4
<1>4. ASSUME NEW j \in Replayed(l2) PROVE j \in 1..Len(l2) /\ (j <= Len(lg) => j \in Replayed(lg))
  <2>1. /\ j \in 1..Len(l2) /\ l2[j].type = "TOAST_INSERT"
        /\ \A i \in 1..Len(l2) : l2[i].type = "CHECKPOINT" => i < j
    BY <1>1, ReplayedIs
  <2>2. ASSUME j <= Len(lg) PROVE j \in Replayed(lg)
    <3>1. j \in 1..Len(lg) /\ lg[j].type = "TOAST_INSERT"
      BY <1>1, <2>1, <2>2
    <3>2. \A i \in 1..Len(lg) : lg[i].type = "CHECKPOINT" => i < j
      BY <1>1, <2>1
    <3> QED BY <1>1, <3>1, <3>2, ReplayedIs
  <2> QED BY <2>1, <2>2
<1>5. ASSUME NEW j \in 1..Len(l2), j > Len(lg), l2[j].type = "TOAST_INSERT" PROVE j \in Replayed(l2)
  <2>1. \A i \in 1..Len(l2) : l2[i].type = "CHECKPOINT" => i < j
    BY <1>1, <1>2, <1>5
  <2> QED BY <1>1, <1>5, <2>1, ReplayedIs
<1> QED BY <1>3, <1>4, <1>5

\* The log l2 is lg and marks of one type, of the transactions X.
MarkedWith(l2, lg, type, X) ==
    /\ Grown(l2, lg)
    /\ \A i \in 1..Len(l2) : i > Len(lg) => \E x \in X : l2[i] = Mark(type, x)
    /\ \A x \in X : \E i \in 1..Len(l2) : l2[i] = Mark(type, x)

\* Redo replays the same records.
SameReplay(l2, lg) ==
    /\ Replayed(l2) = Replayed(lg)
    /\ \A j \in Replayed(lg) : l2[j] = lg[j]

LEMMA SameWorld ==
    ASSUME NEW l2, NEW lg, SameReplay(l2, lg), NEW ps, NEW ss, NEW c, NEW p, NEW s
    PROVE  /\ Somewhere(ps, ss, l2, c, p, s) <=> Somewhere(ps, ss, lg, c, p, s)
           /\ \A x : HeldAt(ps, ss, lg, x, c, p, s) => HeldAt(ps, ss, l2, x, c, p, s)
<1>1. \A j \in Replayed(lg) : Inserts(l2, j, p, s) <=> Inserts(lg, j, p, s)
  BY DEF SameReplay, Inserts
<1>2. Replayed(l2) = Replayed(lg) /\ \A j \in Replayed(lg) : l2[j] = lg[j]
  BY DEF SameReplay
<1> QED BY <1>1, <1>2 DEF Somewhere, HeldAt

EndsAlso(l2, lg, type, X) == \A t, y : Ends(t, y, l2) <=> Ends(t, y, lg) \/ (t = type /\ y \in X)

Unended(lg, X) == \A x \in X : ~Ends("COMMIT", x, lg) /\ ~Ends("ABORT", x, lg)

LEMMA MarkedIs ==
    ASSUME NEW l2, NEW lg, NEW type \in {"COMMIT", "ABORT"}, NEW X, MarkedWith(l2, lg, type, X)
    PROVE  /\ SameReplay(l2, lg)
           /\ EndsAlso(l2, lg, type, X)
           /\ ReuseOK(lg) => ReuseOK(l2)
           /\ \A vs : RecordsOK(vs, lg) => RecordsOK(vs, l2)
           /\ EndsOK(lg) /\ Unended(lg, X) => EndsOK(l2)
<1>1. /\ Grown(l2, lg) /\ Len(lg) \in Nat /\ Len(l2) \in Nat
      /\ lg \in Seq(TRecord) /\ l2 \in Seq(TRecord)
      /\ \A i \in 1..Len(lg) : l2[i] = lg[i] /\ i \in 1..Len(l2)
  BY DEF MarkedWith, Grown
<1>2. \A i \in 1..Len(l2) : i \in 1..Len(lg) \/ (i > Len(lg) /\ \E x \in X : l2[i] = Mark(type, x))
  BY <1>1 DEF MarkedWith
<1>3. \A x : Mark(type, x).type = type /\ Mark(type, x).tx = x
  BY DEF Mark
<1>4. SameReplay(l2, lg)
  <2>1. \A j \in Replayed(lg) : j \in Replayed(l2) /\ l2[j] = lg[j]
    BY <1>1, GrownReplays
  <2>2. ASSUME NEW j \in Replayed(l2) PROVE j \in Replayed(lg)
    <3>1. j \in 1..Len(l2) /\ l2[j].type = "TOAST_INSERT"
      BY <1>1, ReplayedTyped
    <3>2. j \in 1..Len(lg)
      BY <1>2, <1>3, <3>1
    <3>3. j <= Len(lg)
      BY <1>1, <3>2
    <3> QED BY <1>1, <3>3, GrownReplays
  <2> QED BY <2>1, <2>2 DEF SameReplay
<1>5. ASSUME NEW t, NEW y PROVE Ends(t, y, l2) <=> Ends(t, y, lg) \/ (t = type /\ y \in X)
  <2>1. ASSUME Ends(t, y, l2) PROVE Ends(t, y, lg) \/ (t = type /\ y \in X)
    <3>1. PICK i \in 1..Len(l2) : l2[i] = Mark(t, y)
      BY <2>1 DEF Ends
    <3>2. CASE i \in 1..Len(lg)
      BY <1>1, <3>1, <3>2 DEF Ends
    <3>3. CASE \E x \in X : l2[i] = Mark(type, x)
      BY <3>1, <3>3 DEF Mark
    <3> QED BY <1>2, <3>2, <3>3
  <2>2. Ends(t, y, lg) => Ends(t, y, l2)
    BY <1>1 DEF Ends
  <2>3. t = type /\ y \in X => Ends(t, y, l2)
    BY DEF Ends, MarkedWith
  <2> QED BY <2>1, <2>2, <2>3
<1>6. ASSUME ReuseOK(lg) PROVE ReuseOK(l2)
  <2>1. SUFFICES ASSUME NEW i \in Replayed(l2), NEW j \in Replayed(l2), i < j,
                        l2[i].page = l2[j].page, l2[i].slot = l2[j].slot
                 PROVE  \E k \in 1..Len(l2) : k < j /\ l2[k] = Mark("ABORT", l2[i].tx)
    BY DEF ReuseOK
  <2>2. i \in Replayed(lg) /\ j \in Replayed(lg) /\ l2[i] = lg[i] /\ l2[j] = lg[j]
    BY <1>4 DEF SameReplay
  <2>3. PICK k \in 1..Len(lg) : k < j /\ lg[k] = Mark("ABORT", lg[i].tx)
    BY <1>6, <2>1, <2>2 DEF ReuseOK
  <2> QED BY <1>1, <2>2, <2>3
<1>7. ASSUME NEW vs, RecordsOK(vs, lg) PROVE RecordsOK(vs, l2)
  <2>1. SUFFICES ASSUME NEW j \in 1..Len(l2), l2[j].type = "TOAST_INSERT"
                 PROVE  \E v \in vs : v.tx = l2[j].tx /\ l2[j].chunk \in ChunksOf(v)
    BY DEF RecordsOK
  <2>2. j \in 1..Len(lg) /\ l2[j] = lg[j]
    BY <1>1, <1>2, <1>3, <2>1
  <2> QED BY <1>7, <2>1, <2>2 DEF RecordsOK
<1>8. ASSUME EndsOK(lg), Unended(lg, X) PROVE EndsOK(l2)
  <2>1. SUFFICES ASSUME NEW i \in 1..Len(l2), NEW j \in 1..Len(l2), l2[i].type \in {"COMMIT", "ABORT"},
                        l2[j].tx = l2[i].tx, l2[j].type # l2[i].type
                 PROVE  j < i
    BY DEF EndsOK
  <2>2. CASE i \in 1..Len(lg)
    <3>1. j \in 1..Len(lg)
      <4>1. SUFFICES ASSUME NEW x \in X, l2[j] = Mark(type, x) PROVE FALSE
        BY <1>2
      <4>2. lg[i].tx = x /\ lg[i].type \in {"COMMIT", "ABORT"}
        BY <1>1, <1>3, <2>1, <2>2, <4>1
      <4>3. Ends(lg[i].type, x, lg)
        BY <1>1, <2>2, <4>2, InsertionTyped DEF Ends
      <4> QED BY <1>8, <4>1, <4>2, <4>3 DEF Unended
    <3> QED BY <1>1, <1>8, <2>1, <2>2, <3>1 DEF EndsOK
  <2>3. CASE i > Len(lg) /\ \E x \in X : l2[i] = Mark(type, x)
    <3>1. j \in 1..Len(lg)
      <4>1. SUFFICES ASSUME NEW x \in X, l2[j] = Mark(type, x) PROVE FALSE
        BY <1>2
      <4> QED BY <1>3, <2>1, <2>3, <4>1
    <3> QED BY <1>1, <2>3, <3>1
  <2> QED BY <1>2, <2>2, <2>3
<1>9. EndsAlso(l2, lg, type, X)
  BY <1>5 DEF EndsAlso
<1> QED BY <1>4, <1>6, <1>7, <1>8, <1>9

----------------------------------------------------------------------------
(* Toast: each action keeps the invariant. *)

LEMMA AppendMark ==
    ASSUME NEW lg \in Seq(TRecord), NEW x \in Writer, NEW type \in {"COMMIT", "ABORT"}, NEW l2,
           l2 = Append(lg, Mark(type, x))
    PROVE  MarkedWith(l2, lg, type, {x}) /\ Len(l2) = Len(lg) + 1
<1>1. PICK r : r = Mark(type, x)
  OBVIOUS
<1>2. r \in TRecord /\ r.type # "CHECKPOINT"
  BY <1>1 DEF TRecord, Mark
<1>3. /\ l2 \in Seq(TRecord) /\ Len(lg) \in Nat /\ Len(l2) = Len(lg) + 1 /\ l2[Len(lg) + 1] = r
      /\ \A i \in 1..Len(lg) : l2[i] = lg[i]
  BY <1>1, <1>2
<1>4. \A i \in 1..Len(l2) : i > Len(lg) => l2[i] = r
  BY <1>3
<1>5. Grown(l2, lg)
  BY <1>2, <1>3, <1>4 DEF Grown
<1>6. \E i \in 1..Len(l2) : l2[i] = r
  BY <1>3
<1> QED BY <1>1, <1>3, <1>4, <1>5, <1>6 DEF MarkedWith

LEMMA EndKeeps ==
    ASSUME NEW vs, NEW m, NEW next, NEW ps, NEW ss, NEW lg, NEW fl, NEW over,
           ToastOK(vs, m, next, ps, ss, lg, fl, TRUE, over),
           NEW x \in Writer, x \notin over, NEW type \in {"COMMIT", "ABORT"}, NEW l2, NEW f,
           l2 = Append(lg, Mark(type, x)), f = fl \/ f = Len(l2)
    PROVE  ToastOK(vs, m, next, ps, ss, l2, f, TRUE, over \cup {x})
<1>1. /\ ToastTyped(m, next, ps, ss, lg, fl, TRUE) /\ ValuesOK(vs, next)
      /\ RecordsOK(vs, lg) /\ ReuseOK(lg) /\ EndsOK(lg) /\ OverOK(vs, lg, over, TRUE) /\ FlushOK(lg, fl)
      /\ Known(vs, ps, ss, lg) /\ Apart(ps, ss, lg) /\ IdsOK(ps, ss, next)
      /\ ChunksHeld(vs, ps, ss, lg, over, TRUE) /\ RecordsShown(ps, lg) /\ IndexHolds(vs, m, lg, over)
  BY DEF ToastOK
<1>2. lg \in Seq(TRecord) /\ Len(lg) \in Nat /\ fl \in 0..Len(lg)
  BY <1>1 DEF ToastTyped
<1>3. MarkedWith(l2, lg, type, {x}) /\ Len(l2) = Len(lg) + 1
  BY <1>2, AppendMark
<1>4. Grown(l2, lg)
  BY <1>3 DEF MarkedWith
<1>5. ToastTyped(m, next, ps, ss, l2, f, TRUE)
  <2>1. l2 \in Seq(TRecord) /\ f \in 0..Len(l2)
    BY <1>2, <1>3, <1>4 DEF Grown
  <2> QED BY <1>1, <2>1 DEF ToastTyped
<1>6. Unended(lg, {x})
  BY <1>1 DEF OverOK, Ends, Mark, Unended
<1>7. RecordsOK(vs, l2) /\ ReuseOK(l2) /\ EndsOK(l2) /\ SameReplay(l2, lg)
      /\ \A t, y : Ends(t, y, l2) <=> Ends(t, y, lg) \/ (t = type /\ y = x)
  <2>1. RecordsOK(vs, l2) /\ ReuseOK(l2) /\ SameReplay(l2, lg)
    BY <1>1, <1>3, MarkedIs
  <2>2. EndsOK(l2)
    BY <1>1, <1>3, <1>6, MarkedIs
  <2>3. EndsAlso(l2, lg, type, {x})
    BY <1>3, MarkedIs
  <2> QED BY <2>1, <2>2, <2>3 DEF EndsAlso
<1>8. OverOK(vs, l2, over \cup {x}, TRUE)
  <2>1. SUFFICES ASSUME NEW i \in 1..Len(l2), l2[i].type \in {"COMMIT", "ABORT"} PROVE l2[i].tx \in over \cup {x}
    BY DEF OverOK
  <2>2. CASE i \in 1..Len(lg)
    BY <1>1, <1>4, <2>1, <2>2 DEF Grown, OverOK
  <2>3. CASE i > Len(lg)
    BY <1>3, <2>3 DEF MarkedWith, Mark
  <2> QED BY <1>2, <2>2, <2>3
<1>9. FlushOK(l2, f)
  <2>1. SUFFICES ASSUME NEW i \in 1..Len(l2), l2[i].type = "CHECKPOINT" PROVE i <= f
    BY DEF FlushOK
  <2>2. i \in 1..Len(lg) /\ lg[i].type = "CHECKPOINT"
    BY <1>2, <1>4, <2>1 DEF Grown
  <2>3. i <= fl
    BY <1>1, <2>2 DEF FlushOK
  <2> QED BY <1>2, <1>3, <2>3
<1>10. Known(vs, ps, ss, l2) /\ Apart(ps, ss, l2)
  <2>1. \A c \in TChunk, p \in Place, s \in Slot : Somewhere(ps, ss, l2, c, p, s) => Somewhere(ps, ss, lg, c, p, s)
    BY <1>7, SameWorld
  <2> QED BY <1>1, <2>1, FewerPlaces
<1>11. \A v \in vs : Lasting(v, l2, over \cup {x}, TRUE) => Lasting(v, lg, over, TRUE)
  BY <1>7 DEF Lasting
<1>12. ChunksHeld(vs, ps, ss, l2, over \cup {x}, TRUE)
  <2>1. SUFFICES ASSUME NEW v \in vs, Lasting(v, l2, over \cup {x}, TRUE), NEW c \in ChunksOf(v)
                 PROVE  \E p \in Place, s \in Slot : HeldAt(ps, ss, l2, v.tx, c, p, s)
    BY DEF ChunksHeld
  <2>2. PICK p \in Place, s \in Slot : HeldAt(ps, ss, lg, v.tx, c, p, s)
    BY <1>1, <1>11, <2>1 DEF ChunksHeld
  <2>3. HeldAt(ps, ss, l2, v.tx, c, p, s)
    BY <1>7, <2>2, SameWorld
  <2> QED BY <2>3
<1>13. RecordsShown(ps, l2)
  <2>1. Replayed(l2) = Replayed(lg) /\ \A j \in Replayed(lg) : l2[j] = lg[j]
    BY <1>7 DEF SameReplay
  <2> QED BY <1>1, <1>7, <2>1 DEF RecordsShown
<1>14. IndexHolds(vs, m, l2, over \cup {x})
  BY <1>1, <1>11 DEF IndexHolds
<1> QED BY <1>1, <1>5, <1>7, <1>8, <1>9, <1>10, <1>12, <1>13, <1>14 DEF ToastOK

\* What lasts is on the pages of a running engine, and a scan finds it.
OnPages(ps, c) == \E p \in Place, s \in Slot : ChunkAt(ps, p, s) = c

LEMMA LastingShown ==
    ASSUME NEW vs, NEW m, NEW next, NEW ps, NEW ss, NEW lg, NEW fl, NEW over,
           ToastOK(vs, m, next, ps, ss, lg, fl, TRUE, over),
           NEW v \in vs, Lasting(v, lg, over, TRUE), NEW c \in ChunksOf(v)
    PROVE  OnPages(ps, c) /\ c \in ScanOf(ps) /\ c \in m
<1>1. /\ ps \in TPages /\ lg \in Seq(TRecord) /\ v \in TValue
      /\ EndsOK(lg) /\ OverOK(vs, lg, over, TRUE) /\ Apart(ps, ss, lg)
      /\ ChunksHeld(vs, ps, ss, lg, over, TRUE) /\ RecordsShown(ps, lg) /\ IndexHolds(vs, m, lg, over)
  BY DEF ToastOK, ToastTyped, ValuesOK
<1>2. PICK p \in Place, s \in Slot : HeldAt(ps, ss, lg, v.tx, c, p, s)
  BY <1>1 DEF ChunksHeld
<1>3. ChunkAt(ps, p, s) = c
  <2>1. CASE \E j \in Replayed(lg) : lg[j] = Insertion(v.tx, c, p, s)
    <3>1. PICK j \in Replayed(lg) : lg[j] = Insertion(v.tx, c, p, s)
      BY <2>1
    <3>2. ~Ends("ABORT", v.tx, lg)
      BY <1>1, LastingEnds
    <3> QED BY <1>1, <3>1, <3>2 DEF RecordsShown, Insertion
  <2>2. CASE ~\E j \in Replayed(lg) : lg[j] = Insertion(v.tx, c, p, s)
    BY <1>2, <2>2 DEF HeldAt
  <2> QED BY <2>1, <2>2
<1>4. c # NoChunk
  BY <1>1, ChunksTyped
<1>5. c \in ScanOf(ps)
  <2>1. Distinct(ps)
    BY <1>1, DistinctPages
  <2> QED BY <1>1, <1>3, <1>4, <2>1, ScanIs
<1>6. c \in m
  BY <1>1 DEF IndexHolds
<1> QED BY <1>3, <1>5, <1>6 DEF OnPages

LEMMA CheckpointKeeps ==
    ASSUME NEW vs, NEW m, NEW next, NEW ps, NEW ss, NEW lg, NEW fl, NEW over,
           ToastOK(vs, m, next, ps, ss, lg, fl, TRUE, over), NEW l2, l2 = Append(lg, Mark("CHECKPOINT", 0))
    PROVE  ToastOK(vs, m, next, ps, ps, l2, Len(l2), TRUE, over)
<1>1. /\ ToastTyped(m, next, ps, ss, lg, fl, TRUE) /\ ValuesOK(vs, next)
      /\ RecordsOK(vs, lg) /\ EndsOK(lg) /\ OverOK(vs, lg, over, TRUE)
      /\ Known(vs, ps, ss, lg) /\ Apart(ps, ss, lg) /\ IdsOK(ps, ss, next)
      /\ IndexHolds(vs, m, lg, over)
  BY DEF ToastOK
<1>2. PICK r : r = Mark("CHECKPOINT", 0)
  OBVIOUS
<1>3. r \in TRecord /\ r.type = "CHECKPOINT" /\ r.tx = 0
  BY <1>2 DEF TRecord, Mark
<1>4. lg \in Seq(TRecord) /\ Len(lg) \in Nat
  BY <1>1 DEF ToastTyped
<1>5. /\ l2 \in Seq(TRecord) /\ Len(l2) = Len(lg) + 1 /\ l2[Len(l2)] = r
      /\ \A i \in 1..Len(lg) : l2[i] = lg[i] /\ i \in 1..Len(l2)
      /\ \A i \in 1..Len(l2) : i \in 1..Len(lg) \/ i = Len(l2)
  <2>1. l2 \in Seq(TRecord) /\ Len(l2) = Len(lg) + 1 /\ l2[Len(lg) + 1] = r /\ \A i \in 1..Len(lg) : l2[i] = lg[i]
    BY <1>2, <1>3, <1>4
  <2> QED BY <1>4, <2>1
<1>6. Replayed(l2) = {}
  <2>1. SUFFICES ASSUME NEW j \in Replayed(l2) PROVE FALSE
    OBVIOUS
  <2>2. j \in 1..Len(l2) /\ \A i \in 1..Len(l2) : l2[i].type = "CHECKPOINT" => i < j
    BY <1>5, ReplayedIs
  <2>3. Len(l2) \in 1..Len(l2)
    BY <1>4, <1>5
  <2> QED BY <1>3, <1>5, <2>2, <2>3
<1>7. ToastTyped(m, next, ps, ps, l2, Len(l2), TRUE)
  <2>1. Len(ps) <= Len(ps) /\ Len(l2) \in 0..Len(l2)
    BY <1>1, <1>4, <1>5 DEF ToastTyped, TPages
  <2> QED BY <1>1, <1>5, <2>1 DEF ToastTyped
<1>8. RecordsOK(vs, l2)
  BY <1>1, <1>3, <1>5 DEF RecordsOK
<1>9. ReuseOK(l2)
  BY <1>6 DEF ReuseOK
<1>10. EndsOK(l2)
  <2>1. SUFFICES ASSUME NEW i \in 1..Len(l2), NEW j \in 1..Len(l2), l2[i].type \in {"COMMIT", "ABORT"},
                        l2[j].tx = l2[i].tx, l2[j].type # l2[i].type
                 PROVE  j < i
    BY DEF EndsOK
  <2>2. i \in 1..Len(lg) /\ lg[i] = l2[i]
    BY <1>3, <1>5, <2>1
  <2>3. lg[i].tx # 0
    BY <1>4, <2>1, <2>2, InsertionTyped
  <2>4. j \in 1..Len(lg) /\ lg[j] = l2[j]
    BY <1>3, <1>5, <2>1, <2>2, <2>3
  <2> QED BY <1>1, <2>1, <2>2, <2>4 DEF EndsOK
<1>11. OverOK(vs, l2, over, TRUE)
  BY <1>1, <1>3, <1>5 DEF OverOK
<1>12. FlushOK(l2, Len(l2))
  BY <1>4, <1>5 DEF FlushOK
<1>13. Known(vs, ps, ps, l2) /\ Apart(ps, ps, l2)
  <2>1. \A c \in TChunk, p \in Place, s \in Slot : Somewhere(ps, ps, l2, c, p, s) => Somewhere(ps, ss, lg, c, p, s)
    BY <1>6 DEF Somewhere
  <2> QED BY <1>1, <2>1, FewerPlaces
<1>14. \A t \in {"COMMIT", "ABORT"} : \A x : Ends(t, x, l2) <=> Ends(t, x, lg)
  <2>1. SUFFICES ASSUME NEW t \in {"COMMIT", "ABORT"}, NEW x PROVE Ends(t, x, l2) <=> Ends(t, x, lg)
    OBVIOUS
  <2>2. r # Mark(t, x)
    BY <1>3 DEF Mark
  <2> QED BY <1>5, <2>2 DEF Ends
<1>15. \A v \in vs : Lasting(v, l2, over, TRUE) <=> Lasting(v, lg, over, TRUE)
  BY <1>14 DEF Lasting
<1>16. ChunksHeld(vs, ps, ps, l2, over, TRUE)
  <2>1. SUFFICES ASSUME NEW v \in vs, Lasting(v, lg, over, TRUE), NEW c \in ChunksOf(v)
                 PROVE  \E p \in Place, s \in Slot : HeldAt(ps, ps, l2, v.tx, c, p, s)
    BY <1>15 DEF ChunksHeld
  <2>2. OnPages(ps, c)
    BY <2>1, LastingShown
  <2> QED BY <1>6, <2>2 DEF HeldAt, OnPages
<1>17. RecordsShown(ps, l2) /\ IndexHolds(vs, m, l2, over) /\ IdsOK(ps, ps, next)
  BY <1>1, <1>6, <1>15 DEF RecordsShown, IndexHolds, IdsOK
<1> QED BY <1>1, <1>7, <1>8, <1>9, <1>10, <1>11, <1>12, <1>13, <1>16, <1>17 DEF ToastOK

LEMMA CutKeeps ==
    ASSUME NEW vs, NEW m, NEW next, NEW ps, NEW ss, NEW lg, NEW fl, NEW over,
           ToastOK(vs, m, next, ps, ss, lg, fl, TRUE, over),
           NEW n \in fl..Len(lg), NEW l2, l2 = SubSeq(lg, 1, n), NEW qs \in TPages,
           \A p \in Place, s \in Slot : ChunkAt(qs, p, s) \in {ChunkAt(ps, p, s), ChunkAt(ss, p, s)},
           NEW after, after = over \cup {v.tx : v \in vs}
    PROVE  ToastOK(vs, m, next, qs, qs, l2, Len(l2), FALSE, after)
<1>1. /\ ToastTyped(m, next, ps, ss, lg, fl, TRUE) /\ ValuesOK(vs, next)
      /\ RecordsOK(vs, lg) /\ ReuseOK(lg) /\ EndsOK(lg) /\ OverOK(vs, lg, over, TRUE) /\ FlushOK(lg, fl)
      /\ Known(vs, ps, ss, lg) /\ Apart(ps, ss, lg) /\ IdsOK(ps, ss, next)
      /\ ChunksHeld(vs, ps, ss, lg, over, TRUE)
  BY DEF ToastOK
<1>2. lg \in Seq(TRecord) /\ Len(lg) \in Nat /\ fl \in 0..Len(lg) /\ n \in 0..Len(lg) /\ n >= fl
  <2>1. lg \in Seq(TRecord) /\ fl \in 0..Len(lg)
    BY <1>1 DEF ToastTyped
  <2> QED BY <2>1
<1>3. l2 \in Seq(TRecord) /\ Len(l2) = n /\ \A i \in 1..n : l2[i] = lg[i] /\ i \in 1..Len(lg)
  BY <1>2
<1>4. Grown(lg, l2)
  <2>1. \A i \in 1..Len(lg) : i > n => lg[i].type # "CHECKPOINT"
    BY <1>1, <1>2 DEF FlushOK
  <2> QED BY <1>2, <1>3, <2>1 DEF Grown
<1>5. /\ \A j \in Replayed(l2) : j \in Replayed(lg) /\ j \in 1..n /\ l2[j] = lg[j]
      /\ \A j \in Replayed(lg) : j \in 1..Len(lg) /\ (j <= n => j \in Replayed(l2))
  <2>1. /\ \A j \in Replayed(l2) : j \in Replayed(lg) /\ j \in 1..Len(l2) /\ lg[j] = l2[j]
        /\ \A j \in Replayed(lg) : j \in 1..Len(lg) /\ (j <= Len(l2) => j \in Replayed(l2))
    BY <1>4, GrownReplays
  <2> QED BY <1>3, <2>1
<1>6. ToastTyped(m, next, qs, qs, l2, Len(l2), FALSE)
  <2>1. Len(qs) <= Len(qs) /\ Len(l2) \in 0..Len(l2)
    BY <1>2, <1>3 DEF TPages
  <2> QED BY <1>1, <1>3, <2>1 DEF ToastTyped
<1>7. RecordsOK(vs, l2)
  BY <1>1, <1>3 DEF RecordsOK
<1>8. ReuseOK(l2)
  <2>1. SUFFICES ASSUME NEW i \in Replayed(l2), NEW j \in Replayed(l2), i < j,
                        l2[i].page = l2[j].page, l2[i].slot = l2[j].slot
                 PROVE  \E k \in 1..Len(l2) : k < j /\ l2[k] = Mark("ABORT", l2[i].tx)
    BY DEF ReuseOK
  <2>2. PICK k \in 1..Len(lg) : k < j /\ lg[k] = Mark("ABORT", lg[i].tx)
    <3>1. ReuseOK(lg)
      BY <1>1
    <3>2. i \in Replayed(lg) /\ j \in Replayed(lg) /\ l2[i] = lg[i] /\ l2[j] = lg[j]
      BY <1>5
    <3> QED BY <2>1, <3>1, <3>2 DEF ReuseOK
  <2>3. j \in 1..n
    BY <1>5
  <2>4. k \in 1..n
    BY <1>2, <2>2, <2>3
  <2> QED BY <1>3, <1>5, <2>2, <2>4
<1>9. EndsOK(l2)
  BY <1>1, <1>3 DEF EndsOK
<1>10. OverOK(vs, l2, after, FALSE)
  BY <1>1, <1>3 DEF OverOK
<1>11. FlushOK(l2, Len(l2))
  BY <1>2, <1>3 DEF FlushOK
<1>12. Known(vs, qs, qs, l2) /\ Apart(qs, qs, l2)
  <2>1. ASSUME NEW c \in TChunk, NEW p \in Place, NEW s \in Slot, Somewhere(qs, qs, l2, c, p, s)
        PROVE  Somewhere(ps, ss, lg, c, p, s)
    <3>1. CASE ChunkAt(qs, p, s) = c
      BY <2>1, <3>1 DEF Somewhere
    <3>2. CASE \E j \in Replayed(l2) : Inserts(l2, j, p, s) /\ l2[j].chunk = c
      BY <1>5, <2>1, <3>2 DEF Somewhere, Inserts
    <3> QED BY <2>1, <3>1, <3>2 DEF Somewhere
  <2>2. \A c \in TChunk, p \in Place, s \in Slot :
            Somewhere(qs, qs, l2, c, p, s) => Somewhere(ps, ss, lg, c, p, s)
    BY <2>1
  <2>3. Known(vs, ps, ss, lg) /\ Apart(ps, ss, lg)
    BY <1>1
  <2> QED BY <2>2, <2>3, FewerPlaces
<1>13. IdsOK(qs, qs, next)
  BY <1>1 DEF IdsOK
<1>14. ChunksHeld(vs, qs, qs, l2, after, FALSE)
  <2>1. SUFFICES ASSUME NEW v \in vs, Lasting(v, l2, after, FALSE), NEW c \in ChunksOf(v)
                 PROVE  \E p \in Place, s \in Slot : HeldAt(qs, qs, l2, v.tx, c, p, s)
    BY DEF ChunksHeld
  <2>2. PICK i \in 1..n : lg[i] = Mark("COMMIT", v.tx)
    BY <1>3, <2>1 DEF Lasting, Ends
  <2>3. i \in 1..Len(lg)
    BY <1>3
  <2>4. Lasting(v, lg, over, TRUE)
    BY <2>2, <2>3 DEF Lasting, Ends
  <2>5. PICK p \in Place, s \in Slot : HeldAt(ps, ss, lg, v.tx, c, p, s)
    BY <1>1, <2>1, <2>4 DEF ChunksHeld
  <2>6. CASE \E j \in Replayed(lg) : lg[j] = Insertion(v.tx, c, p, s)
    <3>1. PICK j \in Replayed(lg) : lg[j] = Insertion(v.tx, c, p, s)
      BY <2>6
    <3>2. j < i
      <4>1. lg[j].tx = v.tx /\ lg[j].type = "TOAST_INSERT"
        BY <3>1 DEF Insertion
      <4>2. lg[i].tx = v.tx /\ lg[i].type = "COMMIT"
        BY <2>2 DEF Mark
      <4>3. EndsOK(lg) /\ j \in 1..Len(lg)
        BY <1>1, <1>5, <3>1
      <4> QED BY <2>3, <4>1, <4>2, <4>3 DEF EndsOK
    <3>3. j \in Replayed(l2) /\ l2[j] = lg[j]
      <4>1. j \in 1..Len(lg) /\ j <= n
        BY <1>2, <1>5, <3>2
      <4> QED BY <1>5, <4>1
    <3> QED BY <3>1, <3>3 DEF HeldAt
  <2>7. CASE /\ ChunkAt(ps, p, s) = c /\ ChunkAt(ss, p, s) = c
             /\ \A j \in Replayed(lg) : ~Inserts(lg, j, p, s)
    <3>1. ChunkAt(qs, p, s) = c
      BY <2>7
    <3>2. \A j \in Replayed(l2) : ~Inserts(l2, j, p, s)
      BY <1>5, <2>7 DEF Inserts
    <3> QED BY <3>1, <3>2 DEF HeldAt
  <2> QED BY <2>5, <2>6, <2>7 DEF HeldAt
<1> QED BY <1>1, <1>6, <1>7, <1>8, <1>9, <1>10, <1>11, <1>12, <1>13, <1>14 DEF ToastOK

\* Ids in use are ids of values.
LEMMA IdsBounded ==
    ASSUME NEW vs, NEW next, ValuesOK(vs, next), NEW ps, NEW ss, NEW lg, Known(vs, ps, ss, lg),
           NEW c \in TChunk, NEW p \in Place, NEW s \in Slot, Somewhere(ps, ss, lg, c, p, s)
    PROVE  c.id \in Nat /\ c.id <= Cardinality(vs) /\ Cardinality(vs) \in Nat
<1>1. PICK v \in vs : c \in ChunksOf(v)
  BY DEF Known
<1>2. v \in TValue /\ v.id <= v.value /\ v.value <= Cardinality(vs) /\ Cardinality(vs) \in Nat
  BY FS_CardinalityType DEF ValuesOK
<1>3. c.id = v.id /\ v.id \in Nat /\ v.value \in Nat
  BY <1>1, <1>2, ChunksTyped DEF TValue, Place
<1> QED BY <1>2, <1>3

LEMMA RestartKeeps ==
    ASSUME NEW vs, NEW m, NEW next, NEW ps, NEW ss, NEW lg, NEW fl, NEW over,
           ToastOK(vs, m, next, ps, ss, lg, fl, TRUE, over),
           NEW scan, scan = ScanOf(ps), NEW after, after = over \cup {v.tx : v \in vs}
    PROVE  ToastOK(vs, scan, Above({c.id : c \in scan}), ps, ps, lg, Len(lg), TRUE, after)
<1>1. /\ ToastTyped(m, next, ps, ss, lg, fl, TRUE) /\ ValuesOK(vs, next)
      /\ RecordsOK(vs, lg) /\ ReuseOK(lg) /\ EndsOK(lg) /\ OverOK(vs, lg, over, TRUE)
      /\ Known(vs, ps, ss, lg) /\ Apart(ps, ss, lg)
      /\ ChunksHeld(vs, ps, ss, lg, over, TRUE) /\ RecordsShown(ps, lg)
  BY DEF ToastOK
<1>2. lg \in Seq(TRecord) /\ Len(lg) \in Nat /\ ps \in TPages
  BY <1>1 DEF ToastTyped
<1>3. /\ scan \in SUBSET TChunk
      /\ \A p \in Place, s \in Slot : ChunkAt(ps, p, s) # NoChunk => ChunkAt(ps, p, s) \in scan
      /\ \A c \in scan : c # NoChunk /\ \E p \in Place, s \in Slot : ChunkAt(ps, p, s) = c
  <2>1. Distinct(ps)
    BY <1>1, <1>2, DistinctPages
  <2> QED BY <1>2, <2>1, ScanIs
<1>4. PICK ids : ids = {c.id : c \in scan}
  OBVIOUS
<1>5. ids \in SUBSET Nat /\ \A i \in ids : i <= Cardinality(vs)
  <2>1. SUFFICES ASSUME NEW c \in scan PROVE c.id \in Nat /\ c.id <= Cardinality(vs)
    BY <1>4
  <2>2. PICK p \in Place, s \in Slot : ChunkAt(ps, p, s) = c
    BY <1>3
  <2>3. c \in TChunk /\ Somewhere(ps, ss, lg, c, p, s)
    BY <1>3, <2>2 DEF Somewhere
  <2> QED BY <1>1, <2>3, IdsBounded
<1>6. PICK above : above = Above(ids)
  OBVIOUS
<1>7. above \in Place /\ above <= Cardinality(vs) + 1 /\ \A i \in ids : i < above
  <2>1. Cardinality(vs) \in Nat
    BY <1>1, FS_CardinalityType DEF ValuesOK
  <2> QED BY <1>5, <1>6, <2>1, AboveIs
<1>8. ToastTyped(scan, above, ps, ps, lg, Len(lg), TRUE)
  <2>1. Len(ps) <= Len(ps) /\ Len(lg) \in 0..Len(lg)
    BY <1>2 DEF TPages
  <2> QED BY <1>1, <1>3, <1>7, <2>1 DEF ToastTyped
<1>9. ValuesOK(vs, above)
  BY <1>1, <1>7 DEF ValuesOK
<1>10. OverOK(vs, lg, after, TRUE) /\ FlushOK(lg, Len(lg))
  BY <1>1, <1>2 DEF OverOK, FlushOK
<1>11. Known(vs, ps, ps, lg) /\ Apart(ps, ps, lg)
  <2>1. \A c \in TChunk, p \in Place, s \in Slot : Somewhere(ps, ps, lg, c, p, s) => Somewhere(ps, ss, lg, c, p, s)
    BY DEF Somewhere
  <2> QED BY <1>1, <2>1, FewerPlaces
<1>12. IdsOK(ps, ps, above)
  <2>1. SUFFICES ASSUME NEW p \in Place, NEW s \in Slot PROVE ChunkAt(ps, p, s).id < above
    BY DEF IdsOK
  <2>2. CASE ChunkAt(ps, p, s) = NoChunk
    BY <1>7, <2>2, NoChunkIs DEF Place
  <2>3. CASE ChunkAt(ps, p, s) # NoChunk
    <3>1. ChunkAt(ps, p, s).id \in ids
      BY <1>3, <1>4, <2>3
    <3> QED BY <1>7, <3>1
  <2> QED BY <2>2, <2>3
<1>13. \A v \in vs : Lasting(v, lg, after, TRUE) => Lasting(v, lg, over, TRUE)
  BY DEF Lasting
<1>14. ChunksHeld(vs, ps, ps, lg, after, TRUE)
  <2>1. SUFFICES ASSUME NEW v \in vs, Lasting(v, lg, after, TRUE), NEW c \in ChunksOf(v)
                 PROVE  \E p \in Place, s \in Slot : HeldAt(ps, ps, lg, v.tx, c, p, s)
    BY DEF ChunksHeld
  <2>2. PICK p \in Place, s \in Slot : HeldAt(ps, ss, lg, v.tx, c, p, s)
    BY <1>1, <1>13, <2>1 DEF ChunksHeld
  <2>3. HeldAt(ps, ps, lg, v.tx, c, p, s)
    BY <2>2 DEF HeldAt
  <2> QED BY <2>3
<1>15. IndexHolds(vs, scan, lg, after)
  <2>1. SUFFICES ASSUME NEW v \in vs, Lasting(v, lg, after, TRUE), NEW c \in ChunksOf(v) PROVE c \in scan
    BY DEF IndexHolds
  <2>2. Lasting(v, lg, over, TRUE)
    BY <1>13, <2>1
  <2>3. c \in ScanOf(ps)
    BY <2>2, LastingShown
  <2> QED BY <2>3
<1>16. ToastOK(vs, scan, above, ps, ps, lg, Len(lg), TRUE, after)
  BY <1>1, <1>8, <1>9, <1>10, <1>11, <1>12, <1>14, <1>15 DEF ToastOK
<1> QED BY <1>4, <1>6, <1>16

\* Who has a record among those replayed and no end in the log is a loser; losers have
\* neither, and a value of theirs was lost.
LEMMA LosersAre ==
    ASSUME NEW lg \in Seq(TRecord)
    PROVE  /\ LosersOf(lg) \subseteq Writer /\ Unended(lg, LosersOf(lg))
           /\ \A j \in Replayed(lg) : lg[j].tx \notin LosersOf(lg) =>
                 Ends("COMMIT", lg[j].tx, lg) \/ Ends("ABORT", lg[j].tx, lg)
           /\ \A vs, over : RecordsOK(vs, lg) /\ OverOK(vs, lg, over, FALSE) => LosersOf(lg) \subseteq over
<1>1. DOMAIN lg = 1..Len(lg)
  OBVIOUS
<1>2. ASSUME NEW i \in 1..Len(lg), NEW t \in {"COMMIT", "ABORT"}
      PROVE  \A x : lg[i].type = t /\ lg[i].tx = x <=> lg[i] = Mark(t, x)
  BY InsertionTyped
<1>3. \A x : HasEnded(x, lg) <=> Ends("COMMIT", x, lg) \/ Ends("ABORT", x, lg)
  BY <1>1, <1>2 DEF HasEnded, Ends
<1>4. ASSUME NEW x \in LosersOf(lg)
      PROVE  x \in Writer /\ ~HasEnded(x, lg) /\ \E i \in 1..Len(lg) : lg[i].tx = x /\ lg[i].type = "TOAST_INSERT"
  <2>1. PICK i \in 1..Len(lg) : lg[i].tx = x /\ x # 0
    BY <1>1 DEF LosersOf
  <2>2. ~HasEnded(x, lg)
    BY DEF LosersOf
  <2>3. lg[i].type \notin {"COMMIT", "ABORT"}
    BY <1>1, <2>1, <2>2 DEF HasEnded
  <2> QED BY <2>1, <2>2, <2>3, InsertionTyped
<1>5. ASSUME NEW j \in Replayed(lg), lg[j].tx \notin LosersOf(lg) PROVE HasEnded(lg[j].tx, lg)
  <2>1. j \in 1..Len(lg) /\ lg[j].tx \in Writer
    BY ReplayedTyped
  <2>2. lg[j].tx # 0
    BY <2>1, ToastConstants
  <2> QED BY <1>1, <1>5, <2>1, <2>2 DEF LosersOf
<1>6. ASSUME NEW vs, NEW over, RecordsOK(vs, lg), OverOK(vs, lg, over, FALSE), NEW x \in LosersOf(lg)
      PROVE  x \in over
  <2>1. PICK i \in 1..Len(lg) : lg[i].tx = x /\ lg[i].type = "TOAST_INSERT"
    BY <1>4
  <2>2. PICK v \in vs : v.tx = x
    BY <1>6, <2>1 DEF RecordsOK
  <2> QED BY <1>6, <2>2 DEF OverOK
<1> QED BY <1>3, <1>4, <1>5, <1>6 DEF Unended

Recovered(scan, ps, lg) == Undo(Redo([chunks |-> scan, pages |-> ps], lg), lg)
NextId(scan, lg) == Above({c.id : c \in scan} \cup {lg[i].chunk.id : i \in Replayed(lg)})

LEMMA RecoverKeeps ==
    ASSUME NEW vs, NEW m, NEW next, NEW ps, NEW ss, NEW lg, NEW fl, NEW over,
           ToastOK(vs, m, next, ps, ss, lg, fl, FALSE, over),
           NEW scan, scan = ScanOf(ps),
           NEW t, t = Recovered(scan, ps, lg),
           NEW l2, MarkedWith(l2, lg, "ABORT", LosersOf(lg)),
           NEW above, above = NextId(scan, lg)
    PROVE  ToastOK(vs, t.chunks, above, t.pages, t.pages, l2, Len(l2), TRUE, over)
<1>1. /\ ToastTyped(m, next, ps, ss, lg, fl, FALSE) /\ ValuesOK(vs, next)
      /\ RecordsOK(vs, lg) /\ ReuseOK(lg) /\ EndsOK(lg) /\ OverOK(vs, lg, over, FALSE)
      /\ Known(vs, ps, ss, lg) /\ Apart(ps, ss, lg) /\ ChunksHeld(vs, ps, ss, lg, over, FALSE)
  BY DEF ToastOK
<1>2. lg \in Seq(TRecord) /\ Len(lg) \in Nat /\ ps \in TPages /\ vs \in SUBSET TValue
  BY <1>1 DEF ToastTyped, ValuesOK
<1>3. Distinct(ps)
  BY <1>1, <1>2, DistinctPages
<1>4. /\ scan \in SUBSET TChunk
      /\ \A p \in Place, s \in Slot : ChunkAt(ps, p, s) # NoChunk => ChunkAt(ps, p, s) \in scan
      /\ \A c \in scan : c # NoChunk /\ \E p \in Place, s \in Slot : ChunkAt(ps, p, s) = c
  BY <1>2, <1>3, ScanIs
<1>5. PICK X : X = LosersOf(lg)
  OBVIOUS
<1>6. /\ X \subseteq Writer /\ Unended(lg, X) /\ X \subseteq over
      /\ \A j \in Replayed(lg) : lg[j].tx \notin X => Ends("COMMIT", lg[j].tx, lg) \/ Ends("ABORT", lg[j].tx, lg)
  BY <1>1, <1>2, <1>5, LosersAre
<1>7. /\ l2 \in Seq(TRecord) /\ Len(l2) \in Nat /\ SameReplay(l2, lg) /\ EndsAlso(l2, lg, "ABORT", X)
      /\ RecordsOK(vs, l2) /\ ReuseOK(l2) /\ EndsOK(l2)
  <2>1. l2 \in Seq(TRecord)
    BY DEF MarkedWith, Grown
  <2>2. SameReplay(l2, lg) /\ EndsAlso(l2, lg, "ABORT", X)
    BY <1>5, MarkedIs
  <2>3. RecordsOK(vs, l2) /\ ReuseOK(l2)
    BY <1>1, <1>5, MarkedIs
  <2>4. EndsOK(l2)
    BY <1>1, <1>5, <1>6, MarkedIs
  <2> QED BY <2>1, <2>2, <2>3, <2>4
<1>8. Replayed(l2) = Replayed(lg) /\ \A j \in Replayed(lg) : l2[j] = lg[j]
  BY <1>7 DEF SameReplay
<1>9. \A j \in Replayed(lg) : /\ j \in 1..Len(lg) /\ j \in Nat /\ j <= Len(lg) /\ lg[j].type = "TOAST_INSERT"
                              /\ lg[j].chunk \in TChunk /\ lg[j].page \in Place /\ lg[j].slot \in Slot
  <2>1. SUFFICES ASSUME NEW j \in Replayed(lg)
                 PROVE  /\ j \in 1..Len(lg) /\ j \in Nat /\ j <= Len(lg) /\ lg[j].type = "TOAST_INSERT"
                        /\ lg[j].chunk \in TChunk /\ lg[j].page \in Place /\ lg[j].slot \in Slot
    OBVIOUS
  <2>2. j \in 1..Len(lg)
    BY <1>2, ReplayedTyped
  <2> QED BY <1>2, <2>2, ReplayedTyped DEF Slot
<1>10. PICK st : st = [chunks |-> scan, pages |-> ps]
  OBVIOUS
<1>11. st \in RedoState /\ st.chunks = scan /\ st.pages = ps
  BY <1>2, <1>4, <1>10 DEF RedoState
<1>12. PICK r : r = Redo(st, lg)
  OBVIOUS
<1>13. ReplayedUpTo(r, st, lg, Len(lg))
  BY <1>2, <1>11, <1>12, RedoIs
<1>14. /\ r \in RedoState
       /\ \A j \in Replayed(lg) : lg[j].page <= Len(r.pages)
       /\ \A p, s \in Place : PlaceRedone(r, st, lg, Len(lg), p, s)
       /\ \A c \in TChunk : (c \in scan \/ \E j \in Replayed(lg) : lg[j].chunk = c) /\ OnlyOne(lg, c) => c \in r.chunks
  <2>1. r \in RedoState
    BY <1>13 DEF ReplayedUpTo
  <2>2. Len(r.pages) \in Nat
    BY <2>1 DEF RedoState, TPages
  <2>3. \A j \in Replayed(lg) : lg[j].page <= Len(r.pages)
    BY <1>9, <1>13, <2>2 DEF ReplayedUpTo, Place
  <2> QED BY <1>9, <1>11, <1>13, <2>1, <2>3 DEF ReplayedUpTo
<1>15. OnlyUndone(t, r, lg)
  BY <1>2, <1>10, <1>12, <1>14, UndoIs DEF Recovered
<1>16. ASSUME NEW j \in Replayed(lg), NEW p, NEW s, Inserts(lg, j, p, s), ~Ends("ABORT", lg[j].tx, lg), lg[j].tx \notin X
       PROVE  ChunkAt(t.pages, p, s) = lg[j].chunk
  <2>1. p \in Place /\ s \in Place /\ p = lg[j].page /\ s = lg[j].slot
    BY <1>9, <1>16 DEF Inserts, Slot, Place
  <2>2. ASSUME NEW i \in Replayed(lg), Inserts(lg, i, p, s), j < i PROVE FALSE
    BY <1>1, <1>16, <2>2 DEF ReuseOK, Inserts, Ends
  <2>3. ChunkAt(r.pages, p, s) = lg[j].chunk
    <3>1. PlaceRedone(r, st, lg, Len(lg), p, s)
      BY <1>14, <2>1
    <3>2. PICK k \in Replayed(lg) : LastAt(lg, k, Len(lg), p, s) /\ ChunkAt(r.pages, p, s) = lg[k].chunk
      BY <1>9, <1>16, <3>1 DEF PlaceRedone
    <3>3. j <= k /\ Inserts(lg, k, p, s)
      BY <1>9, <1>16, <3>2 DEF LastAt
    <3>4. k = j
      BY <1>9, <2>2, <3>3
    <3> QED BY <3>2, <3>4
  <2>4. ASSUME NEW i \in Replayed(lg), Inserts(lg, i, p, s), lg[i].tx \in X PROVE FALSE
    <3>1. CASE i < j
      <4>1. Ends("ABORT", lg[i].tx, lg)
        BY <1>1, <1>16, <2>4, <3>1 DEF ReuseOK, Inserts, Ends
      <4> QED BY <1>6, <2>4, <4>1 DEF Unended
    <3>2. CASE i = j
      BY <1>16, <2>4, <3>2
    <3>3. CASE j < i
      BY <2>2, <2>4, <3>3
    <3> QED BY <1>9, <3>1, <3>2, <3>3
  <2> QED BY <1>5, <1>15, <2>1, <2>3, <2>4 DEF OnlyUndone
<1>17. ASSUME NEW p \in Place, NEW s \in Slot, \A j \in Replayed(lg) : ~Inserts(lg, j, p, s)
       PROVE  ChunkAt(t.pages, p, s) = ChunkAt(ps, p, s)
  <2>1. s \in Place
    BY DEF Slot, Place
  <2>2. ChunkAt(r.pages, p, s) = ChunkAt(ps, p, s)
    BY <1>11, <1>14, <1>17, <2>1 DEF PlaceRedone, LastAt
  <2> QED BY <1>15, <1>17, <2>1, <2>2 DEF OnlyUndone
<1>18. ASSUME NEW p \in Place, NEW s \in Slot
       PROVE  \/ ChunkAt(t.pages, p, s) \in {NoChunk, ChunkAt(ps, p, s)}
              \/ \E j \in Replayed(lg) : Inserts(lg, j, p, s) /\ lg[j].chunk = ChunkAt(t.pages, p, s)
  <2>1. s \in Place
    BY DEF Slot, Place
  <2>2. \/ ChunkAt(r.pages, p, s) = ChunkAt(ps, p, s)
        \/ \E j \in Replayed(lg) : Inserts(lg, j, p, s) /\ lg[j].chunk = ChunkAt(r.pages, p, s)
    BY <1>11, <1>14, <2>1 DEF PlaceRedone, LastAt
  <2>3. ChunkAt(t.pages, p, s) \in {NoChunk, ChunkAt(r.pages, p, s)}
    BY <1>15, <2>1 DEF OnlyUndone
  <2> QED BY <2>2, <2>3
<1>19. ToastTyped(t.chunks, next, t.pages, t.pages, l2, Len(l2), TRUE)
  <2>1. t.chunks \in SUBSET TChunk /\ t.pages \in TPages
    BY <1>15 DEF OnlyUndone, RedoState
  <2>2. Len(t.pages) <= Len(t.pages) /\ Len(l2) \in 0..Len(l2)
    BY <1>7, <2>1 DEF TPages
  <2> QED BY <1>1, <1>7, <2>1, <2>2 DEF ToastTyped
<1>20. PICK ids : ids = {c.id : c \in scan} \cup {lg[i].chunk.id : i \in Replayed(lg)}
  OBVIOUS
<1>21. above \in Place /\ above <= Cardinality(vs) + 1 /\ \A i \in ids : i < above
  <2>1. \A c \in scan : c.id \in Nat /\ c.id <= Cardinality(vs)
    <3>1. SUFFICES ASSUME NEW c \in scan PROVE c.id \in Nat /\ c.id <= Cardinality(vs)
      OBVIOUS
    <3>2. PICK p \in Place, s \in Slot : ChunkAt(ps, p, s) = c
      BY <1>4
    <3>3. c \in TChunk /\ Somewhere(ps, ss, lg, c, p, s)
      BY <1>4, <3>2 DEF Somewhere
    <3> QED BY <1>1, <3>3, IdsBounded
  <2>2. \A i \in Replayed(lg) : lg[i].chunk.id \in Nat /\ lg[i].chunk.id <= Cardinality(vs)
    <3>1. SUFFICES ASSUME NEW i \in Replayed(lg) PROVE lg[i].chunk.id \in Nat /\ lg[i].chunk.id <= Cardinality(vs)
      OBVIOUS
    <3>2. PICK v \in vs : lg[i].chunk \in ChunksOf(v)
      BY <1>1, <1>9 DEF RecordsOK
    <3>3. lg[i].chunk # NoChunk
      BY <1>2, <3>2, ChunksTyped
    <3>4. Somewhere(ps, ss, lg, lg[i].chunk, lg[i].page, lg[i].slot)
      BY <3>3 DEF Somewhere, Inserts
    <3> QED BY <1>1, <1>9, <3>4, IdsBounded
  <2>3. ids \in SUBSET Nat /\ \A i \in ids : i <= Cardinality(vs)
    BY <1>20, <2>1, <2>2
  <2>4. Cardinality(vs) \in Nat
    BY <1>1, FS_CardinalityType DEF ValuesOK
  <2>5. above = Above(ids)
    BY <1>20 DEF NextId
  <2> QED BY <2>3, <2>4, <2>5, AboveIs
<1>22. ValuesOK(vs, above)
  BY <1>1, <1>21 DEF ValuesOK
<1>23. ToastTyped(t.chunks, above, t.pages, t.pages, l2, Len(l2), TRUE)
  BY <1>19, <1>21 DEF ToastTyped
<1>24. OverOK(vs, l2, over, TRUE)
  <2>1. SUFFICES ASSUME NEW i \in 1..Len(l2), l2[i].type \in {"COMMIT", "ABORT"} PROVE l2[i].tx \in over
    BY DEF OverOK
  <2>2. Ends(l2[i].type, l2[i].tx, l2)
    BY <1>7, <2>1, InsertionTyped DEF Ends
  <2>3. CASE Ends(l2[i].type, l2[i].tx, lg)
    BY <1>1, <2>1, <2>3 DEF Ends, OverOK, Mark
  <2>4. CASE l2[i].tx \in X
    BY <1>6, <2>4
  <2> QED BY <1>7, <2>2, <2>3, <2>4 DEF EndsAlso
<1>25. FlushOK(l2, Len(l2))
  BY <1>7 DEF FlushOK
<1>26. Known(vs, t.pages, t.pages, l2) /\ Apart(t.pages, t.pages, l2)
  <2>1. ASSUME NEW c \in TChunk, NEW p \in Place, NEW s \in Slot, Somewhere(t.pages, t.pages, l2, c, p, s)
        PROVE  Somewhere(ps, ss, lg, c, p, s)
    <3>1. Somewhere(t.pages, t.pages, lg, c, p, s)
      BY <1>7, <2>1, SameWorld
    <3>2. CASE ChunkAt(t.pages, p, s) = c
      BY <1>18, <3>1, <3>2 DEF Somewhere
    <3>3. CASE \E j \in Replayed(lg) : Inserts(lg, j, p, s) /\ lg[j].chunk = c
      BY <3>1, <3>3 DEF Somewhere
    <3> QED BY <3>1, <3>2, <3>3 DEF Somewhere
  <2> QED BY <1>1, <2>1, FewerPlaces
<1>27. IdsOK(t.pages, t.pages, above)
  <2>1. SUFFICES ASSUME NEW p \in Place, NEW s \in Slot PROVE ChunkAt(t.pages, p, s).id < above
    BY DEF IdsOK
  <2>2. CASE ChunkAt(t.pages, p, s) = NoChunk
    BY <1>21, <2>2, NoChunkIs DEF Place
  <2>3. CASE ChunkAt(t.pages, p, s) # NoChunk
    <3>1. ChunkAt(t.pages, p, s).id \in ids
      BY <1>4, <1>18, <1>20, <2>3
    <3> QED BY <1>21, <3>1
  <2> QED BY <2>2, <2>3
<1>28. ASSUME NEW v \in vs, Lasting(v, l2, over, TRUE)
       PROVE  /\ Lasting(v, lg, over, FALSE) /\ v.tx \notin X /\ ~Ends("ABORT", v.tx, lg)
              /\ Ends("COMMIT", v.tx, lg) /\ v \in TValue
  <2>1. Ends("COMMIT", v.tx, l2)
    BY <1>1, <1>28 DEF Lasting, OverOK
  <2>2. Ends("COMMIT", v.tx, lg)
    BY <1>7, <2>1 DEF EndsAlso
  <2>3. v.tx \notin X
    BY <1>6, <2>2 DEF Unended
  <2>4. ~Ends("ABORT", v.tx, lg)
    BY <1>1, <1>2, <2>2, EndsOnce
  <2> QED BY <1>2, <2>2, <2>3, <2>4 DEF Lasting
<1>29. ChunksHeld(vs, t.pages, t.pages, l2, over, TRUE)
  <2>1. SUFFICES ASSUME NEW v \in vs, Lasting(v, l2, over, TRUE), NEW c \in ChunksOf(v)
                 PROVE  \E p \in Place, s \in Slot : HeldAt(t.pages, t.pages, l2, v.tx, c, p, s)
    BY DEF ChunksHeld
  <2>2. PICK p \in Place, s \in Slot : HeldAt(ps, ss, lg, v.tx, c, p, s)
    BY <1>1, <1>28, <2>1 DEF ChunksHeld
  <2>3. HeldAt(t.pages, t.pages, lg, v.tx, c, p, s)
    BY <1>17, <2>2 DEF HeldAt
  <2>4. HeldAt(t.pages, t.pages, l2, v.tx, c, p, s)
    BY <1>7, <2>3, SameWorld
  <2> QED BY <2>4
<1>30. RecordsShown(t.pages, l2)
  <2>1. SUFFICES ASSUME NEW j \in Replayed(lg), ~Ends("ABORT", lg[j].tx, l2)
                 PROVE  ChunkAt(t.pages, lg[j].page, lg[j].slot) = lg[j].chunk
    BY <1>8 DEF RecordsShown
  <2>2. ~Ends("ABORT", lg[j].tx, lg) /\ lg[j].tx \notin X
    BY <1>7, <2>1 DEF EndsAlso
  <2>3. Inserts(lg, j, lg[j].page, lg[j].slot)
    BY DEF Inserts
  <2> QED BY <1>16, <2>2, <2>3
<1>31. IndexHolds(vs, t.chunks, l2, over)
  <2>1. SUFFICES ASSUME NEW v \in vs, Lasting(v, l2, over, TRUE), NEW c \in ChunksOf(v) PROVE c \in t.chunks
    BY DEF IndexHolds
  <2>2. v \in TValue /\ Lasting(v, lg, over, FALSE) /\ v.tx \notin X
    BY <1>28, <2>1
  <2>3. c \in TChunk /\ c # NoChunk /\ c.value = v.value
    BY <2>2, ChunksTyped
  <2>4. PICK p \in Place, s \in Slot : HeldAt(ps, ss, lg, v.tx, c, p, s)
    BY <1>1, <2>1, <2>2 DEF ChunksHeld
  <2>5. Somewhere(ps, ss, lg, c, p, s)
    BY <2>3, <2>4, HeldSomewhere
  <2>6. ASSUME NEW j \in Replayed(lg), lg[j].chunk.id = c.id
        PROVE  lg[j].chunk.value = c.value
    <3>1. PICK w \in vs : lg[j].chunk \in ChunksOf(w)
      BY <1>1, <1>9 DEF RecordsOK
    <3>2. lg[j].chunk # NoChunk
      BY <1>2, <3>1, ChunksTyped
    <3>3. Somewhere(ps, ss, lg, lg[j].chunk, lg[j].page, lg[j].slot)
      BY <3>2 DEF Somewhere, Inserts
    <3> QED BY <1>1, <1>9, <2>3, <2>5, <2>6, <3>3 DEF Apart
  <2>7. OnlyOne(lg, c)
    <3>1. SUFFICES ASSUME NEW j \in Replayed(lg), SameKey(lg[j].chunk, c) PROVE lg[j].chunk = c
      BY DEF OnlyOne
    <3>2. lg[j].chunk.id = c.id /\ lg[j].chunk.seq = c.seq /\ lg[j].chunk.value = c.value
      BY <2>6, <3>1 DEF SameKey
    <3> QED BY <1>9, <2>3, <3>2 DEF TChunk
  <2>8. c \in r.chunks
    <3>1. c \in scan \/ \E j \in Replayed(lg) : lg[j].chunk = c
      BY <1>4, <2>3, <2>4 DEF HeldAt, Insertion
    <3> QED BY <1>14, <2>3, <2>7, <3>1
  <2>9. ASSUME NEW j \in Replayed(lg), lg[j].tx \in LosersOf(lg), lg[j].chunk.id = c.id PROVE FALSE
    <3>1. PICK w \in vs : w.tx = lg[j].tx /\ lg[j].chunk \in ChunksOf(w)
      BY <1>1, <1>9 DEF RecordsOK
    <3>2. w.value = v.value
      BY <1>2, <2>3, <2>6, <2>9, <3>1, ChunksTyped
    <3>3. w = v
      BY <1>1, <3>2 DEF ValuesOK
    <3> QED BY <1>5, <2>2, <2>9, <3>1, <3>3
  <2> QED BY <1>15, <2>8, <2>9 DEF OnlyUndone
<1> QED BY <1>7, <1>22, <1>23, <1>24, <1>25, <1>26, <1>27, <1>29, <1>30, <1>31 DEF ToastOK

LEMMA StoreKeeps ==
    ASSUME NEW vs, NEW m, NEW next, NEW ps, NEW ss, NEW lg, NEW fl, NEW over,
           ToastOK(vs, m, next, ps, ss, lg, fl, TRUE, over),
           NEW x \in Writer, x \notin over, NEW n \in Nat \ {0},
           \A i \in Replayed(lg) : lg[i].chunk.id # next,
           NEW v, v = Cardinality(vs) + 1,
           NEW u, u = AllKept([chunks |-> m, pages |-> ps, log |-> lg], x, next, v, n),
           NEW val, val = [tx |-> x, id |-> next, count |-> n, value |-> v]
    PROVE  ToastOK(vs \cup {val}, u.chunks, next + 1, u.pages, ss, u.log, fl, TRUE, over)
<1>1. /\ ToastTyped(m, next, ps, ss, lg, fl, TRUE) /\ ValuesOK(vs, next)
      /\ RecordsOK(vs, lg) /\ ReuseOK(lg) /\ EndsOK(lg) /\ OverOK(vs, lg, over, TRUE) /\ FlushOK(lg, fl)
      /\ Known(vs, ps, ss, lg) /\ Apart(ps, ss, lg) /\ IdsOK(ps, ss, next)
      /\ ChunksHeld(vs, ps, ss, lg, over, TRUE) /\ RecordsShown(ps, lg) /\ IndexHolds(vs, m, lg, over)
  BY DEF ToastOK
<1>2. /\ lg \in Seq(TRecord) /\ Len(lg) \in Nat /\ fl \in 0..Len(lg) /\ m \in SUBSET TChunk
      /\ ps \in TPages /\ ss \in TPages /\ Len(ss) <= Len(ps) /\ Len(ps) \in Nat /\ Len(ss) \in Nat
      /\ next \in Place /\ next \in Nat
  <2>1. /\ lg \in Seq(TRecord) /\ fl \in 0..Len(lg) /\ m \in SUBSET TChunk
        /\ ps \in TPages /\ ss \in TPages /\ Len(ss) <= Len(ps) /\ next \in Place
    BY <1>1 DEF ToastTyped
  <2> QED BY <2>1 DEF TPages, Place
<1>3. Cardinality(vs) \in Nat /\ IsFiniteSet(vs) /\ vs \in SUBSET TValue /\ v \in Place /\ v \in Nat
  BY <1>1, FS_CardinalityType DEF ValuesOK, Place
<1>4. PICK vals : vals = vs \cup {val}
  OBVIOUS
<1>5. /\ val \in TValue /\ val \notin vs /\ val.tx = x /\ val.id = next /\ val.count = n /\ val.value = v
  <2>1. n \in Place
    BY DEF Place
  <2>2. val \in TValue /\ val.tx = x /\ val.id = next /\ val.count = n /\ val.value = v
    BY <1>2, <1>3, <2>1 DEF TValue
  <2>3. \A w \in vs : w.value <= Cardinality(vs)
    BY <1>1 DEF ValuesOK
  <2>4. val \notin vs
    BY <1>3, <2>2, <2>3
  <2> QED BY <2>2, <2>4
<1>6. ValuesOK(vals, next + 1)
  <2>1. IsFiniteSet(vals) /\ Cardinality(vals) = v
    BY <1>3, <1>4, <1>5, FS_AddElement
  <2>2. \A w \in vs : w.id <= w.value /\ w.value <= Cardinality(vs) /\ w.value \in Nat
    BY <1>1, <1>3 DEF ValuesOK, TValue, Place
  <2>3. next <= v
    BY <1>1 DEF ValuesOK
  <2>4. \A w \in vals : w.id <= w.value /\ w.value <= v
    BY <1>3, <1>4, <1>5, <2>2, <2>3
  <2>5. \A w, z \in vals : w.value = z.value => w = z
    BY <1>1, <1>3, <1>4, <1>5, <2>2 DEF ValuesOK
  <2>6. next + 1 <= v + 1
    BY <1>2, <1>3, <2>3
  <2>7. vals \in SUBSET TValue
    BY <1>3, <1>4, <1>5
  <2> QED BY <2>1, <2>4, <2>5, <2>6, <2>7 DEF ValuesOK
<1>7. PICK st : st = [chunks |-> m, pages |-> ps, log |-> lg]
  OBVIOUS
<1>8. st \in StoreState /\ st.chunks = m /\ st.pages = ps /\ st.log = lg
  BY <1>2, <1>7 DEF StoreState
<1>9. StoredUpTo(u, st, x, next, v, n)
  BY <1>2, <1>3, <1>7, <1>8, AllKeptIs
<1>10. PICK L : L = Len(lg)
  OBVIOUS
<1>11. PICK l2 : l2 = u.log
  OBVIOUS
<1>12. /\ u \in StoreState /\ l2 \in Seq(TRecord) /\ u.pages \in TPages /\ u.chunks \in SUBSET TChunk
       /\ L \in Nat /\ Len(l2) = L + n /\ Len(u.pages) >= Len(ps) /\ Len(u.pages) \in Nat
       /\ \A k \in 1..L : l2[k] = lg[k] /\ k \in 1..Len(l2)
       /\ \A c \in m : c.id # next => c \in u.chunks
       /\ \A k \in 1..n : Chunk(next, k - 1, v) \in u.chunks
  <2>1. u \in StoreState /\ Len(l2) = L + n /\ L \in Nat
    BY <1>2, <1>8, <1>9, <1>10, <1>11 DEF StoredUpTo
  <2>2. l2 \in Seq(TRecord) /\ u.pages \in TPages /\ u.chunks \in SUBSET TChunk /\ Len(u.pages) \in Nat
    BY <1>11, <2>1 DEF StoreState, TPages
  <2> QED BY <1>8, <1>9, <1>10, <1>11, <2>1, <2>2 DEF StoredUpTo
<1>13. ASSUME NEW i \in 1..Len(l2), i > L
       PROVE  /\ l2[i] \in TInsertion /\ l2[i].tx = x /\ l2[i].chunk = Chunk(next, i - L - 1, v)
              /\ l2[i].type = "TOAST_INSERT" /\ l2[i].page \in Place /\ l2[i].slot \in Slot
              /\ l2[i].chunk \in TChunk /\ l2[i].chunk # NoChunk /\ l2[i].chunk.id = next
              /\ l2[i].chunk.value = v /\ l2[i].chunk.seq = i - L - 1 /\ l2[i].chunk \in ChunksOf(val)
              /\ ChunkAt(ps, l2[i].page, l2[i].slot) = NoChunk
              /\ ChunkAt(u.pages, l2[i].page, l2[i].slot) = l2[i].chunk
  <2>1. PICK k : k = i - L
    OBVIOUS
  <2>2. k \in 1..n /\ i = L + k /\ k - 1 \in Nat
    BY <1>12, <1>13, <2>1
  <2>3. NewRecord(u, st, k) = l2[i]
    BY <1>8, <1>10, <1>11, <2>2 DEF NewRecord
  <2>4. RecordOf(l2[i], u, st, x, Chunk(next, k - 1, v))
    BY <1>9, <2>2, <2>3 DEF StoredUpTo
  <2>5. PICK c : c = Chunk(next, k - 1, v)
    OBVIOUS
  <2>6. c \in TChunk /\ c # NoChunk /\ c.id = next /\ c.seq = k - 1 /\ c.value = v
    <3>1. c = [id |-> next, seq |-> k - 1, value |-> v]
      BY <2>5 DEF Chunk
    <3>2. next \in Nat /\ next # 0 /\ v \in Nat /\ k - 1 \in Nat
      BY <1>2, <1>3, <2>2 DEF Place
    <3> QED BY <3>1, <3>2 DEF TChunk, NoChunk
  <2>7. c \in ChunksOf(val)
    <3>1. k - 1 \in 0..(n - 1)
      BY <2>2
    <3> QED BY <1>5, <2>5, <3>1 DEF ChunksOf
  <2>8. l2[i] \in TInsertion /\ l2[i].tx = x /\ l2[i].chunk = c
        /\ ChunkAt(ps, l2[i].page, l2[i].slot) = NoChunk /\ ChunkAt(u.pages, l2[i].page, l2[i].slot) = c
    BY <1>8, <2>4, <2>5 DEF RecordOf
  <2>9. l2[i].type = "TOAST_INSERT" /\ l2[i].page \in Place /\ l2[i].slot \in Slot
    BY <2>8 DEF TInsertion, Slot
  <2> QED BY <2>1, <2>5, <2>6, <2>7, <2>8, <2>9
<1>14. ASSUME NEW p \in Place, NEW s \in Slot
       PROVE  \/ ChunkAt(u.pages, p, s) = ChunkAt(ps, p, s)
              \/ \E i \in 1..Len(l2) : /\ i > L /\ l2[i].page = p /\ l2[i].slot = s
                                       /\ ChunkAt(u.pages, p, s) = l2[i].chunk /\ ChunkAt(ps, p, s) = NoChunk
  <2>1. s \in Place
    BY DEF Slot, Place
  <2>2. \/ ChunkAt(u.pages, p, s) = ChunkAt(st.pages, p, s)
        \/ \E k \in 1..n : NewRecord(u, st, k).page = p /\ NewRecord(u, st, k).slot = s
    BY <1>9, <2>1, StoredPlaces
  <2>3. ASSUME NEW k \in 1..n, NewRecord(u, st, k).page = p, NewRecord(u, st, k).slot = s
        PROVE  \E i \in 1..Len(l2) : /\ i > L /\ l2[i].page = p /\ l2[i].slot = s
                                     /\ ChunkAt(u.pages, p, s) = l2[i].chunk /\ ChunkAt(ps, p, s) = NoChunk
    <3>1. PICK i : i = L + k
      OBVIOUS
    <3>2. i \in 1..Len(l2) /\ i > L
      BY <1>12, <3>1
    <3>3. l2[i].page = p /\ l2[i].slot = s
      BY <1>8, <1>10, <1>11, <2>3, <3>1 DEF NewRecord
    <3> QED BY <1>13, <3>2, <3>3
  <2>4. (\E k \in 1..n : NewRecord(u, st, k).page = p /\ NewRecord(u, st, k).slot = s) =>
            \E i \in 1..Len(l2) : /\ i > L /\ l2[i].page = p /\ l2[i].slot = s
                                 /\ ChunkAt(u.pages, p, s) = l2[i].chunk /\ ChunkAt(ps, p, s) = NoChunk
    BY <2>3
  <2>5. st.pages = ps
    BY <1>8
  <2>6. CASE ChunkAt(u.pages, p, s) = ChunkAt(st.pages, p, s)
    BY <2>5, <2>6
  <2>7. CASE \E k \in 1..n : NewRecord(u, st, k).page = p /\ NewRecord(u, st, k).slot = s
    BY <2>4, <2>7
  <2> QED BY <2>2, <2>6, <2>7
<1>15. Grown(l2, lg)
  <2>1. lg \in Seq(TRecord) /\ l2 \in Seq(TRecord) /\ Len(lg) <= Len(l2) /\ Len(lg) = L
    BY <1>2, <1>10, <1>12
  <2>2. \A i \in 1..Len(lg) : l2[i] = lg[i]
    BY <1>10, <1>12
  <2>3. \A i \in 1..Len(l2) : i > L => l2[i].type = "TOAST_INSERT"
    BY <1>13
  <2>4. \A i \in 1..Len(l2) : i > Len(lg) => l2[i].type # "CHECKPOINT"
    BY <2>1, <2>3
  <2> QED BY <2>1, <2>2, <2>4 DEF Grown
<1>16. /\ \A j \in Replayed(lg) : j \in Replayed(l2) /\ j \in 1..L /\ l2[j] = lg[j]
       /\ \A j \in Replayed(l2) : j \in 1..Len(l2) /\ (j \in Replayed(lg) \/ j > L)
       /\ \A j \in 1..Len(l2) : j > L => j \in Replayed(l2)
  <2>1. /\ \A j \in Replayed(lg) : j \in Replayed(l2) /\ j \in 1..L /\ l2[j] = lg[j]
        /\ \A j \in Replayed(l2) : j \in 1..Len(l2) /\ (j <= L => j \in Replayed(lg))
        /\ \A j \in 1..Len(l2) : j > L /\ l2[j].type = "TOAST_INSERT" => j \in Replayed(l2)
    BY <1>10, <1>15, GrownReplays
  <2>2. \A j \in 1..Len(l2) : j <= L \/ j > L
    BY <1>12
  <2> QED BY <1>13, <2>1, <2>2
<1>17. ASSUME NEW j \in Replayed(lg)
       PROVE  /\ lg[j].chunk \in TChunk /\ lg[j].chunk # NoChunk /\ lg[j].page \in Place /\ lg[j].slot \in Slot
  <2>1. /\ j \in 1..Len(lg) /\ lg[j].type = "TOAST_INSERT"
        /\ lg[j].chunk \in TChunk /\ lg[j].page \in Place /\ lg[j].slot \in Slot
    BY <1>2, ReplayedTyped DEF Slot
  <2>2. PICK w \in vs : lg[j].chunk \in ChunksOf(w)
    BY <1>1, <2>1 DEF RecordsOK
  <2>3. lg[j].chunk # NoChunk
    BY <1>3, <2>2, ChunksTyped
  <2> QED BY <2>1, <2>3
<1>18. ASSUME NEW c \in TChunk, NEW p \in Place, NEW s \in Slot, Somewhere(ps, ss, lg, c, p, s)
       PROVE  c.id # next
  <2>1. CASE ChunkAt(ps, p, s) = c \/ ChunkAt(ss, p, s) = c
    <3>1. ChunkAt(ps, p, s).id < next /\ ChunkAt(ss, p, s).id < next
      BY <1>1 DEF IdsOK
    <3> QED BY <1>2, <2>1, <3>1
  <2>2. CASE \E j \in Replayed(lg) : Inserts(lg, j, p, s) /\ lg[j].chunk = c
    BY <2>2
  <2> QED BY <1>18, <2>1, <2>2 DEF Somewhere
<1>19. ASSUME NEW c \in TChunk, NEW p \in Place, NEW s \in Slot, Somewhere(u.pages, ss, l2, c, p, s)
       PROVE  \/ Somewhere(ps, ss, lg, c, p, s)
              \/ \E i \in 1..Len(l2) : i > L /\ l2[i].page = p /\ l2[i].slot = s /\ l2[i].chunk = c
  <2>1. CASE ChunkAt(u.pages, p, s) = c
    BY <1>14, <1>19, <2>1 DEF Somewhere
  <2>2. CASE \E j \in Replayed(l2) : Inserts(l2, j, p, s) /\ l2[j].chunk = c
    BY <1>16, <1>19, <2>2 DEF Somewhere, Inserts
  <2> QED BY <1>19, <2>1, <2>2 DEF Somewhere
<1>20. ToastTyped(u.chunks, next + 1, u.pages, ss, l2, fl, TRUE)
  <2>1. next + 1 \in Place /\ Len(ss) <= Len(u.pages) /\ fl \in 0..Len(l2)
    BY <1>2, <1>10, <1>12 DEF Place
  <2> QED BY <1>2, <1>12, <2>1 DEF ToastTyped
<1>21. RecordsOK(vals, l2)
  <2>1. SUFFICES ASSUME NEW j \in 1..Len(l2), l2[j].type = "TOAST_INSERT"
                 PROVE  \E w \in vals : w.tx = l2[j].tx /\ l2[j].chunk \in ChunksOf(w)
    BY DEF RecordsOK
  <2>2. CASE j > L
    BY <1>4, <1>5, <1>13, <2>2
  <2>3. CASE j \in 1..L
    BY <1>1, <1>4, <1>10, <1>12, <2>1, <2>3 DEF RecordsOK
  <2> QED BY <1>12, <2>2, <2>3
<1>22. ReuseOK(l2)
  <2>1. SUFFICES ASSUME NEW i \in Replayed(l2), NEW j \in Replayed(l2), i < j,
                        l2[i].page = l2[j].page, l2[i].slot = l2[j].slot
                 PROVE  \E k \in 1..Len(l2) : k < j /\ l2[k] = Mark("ABORT", l2[i].tx)
    BY DEF ReuseOK
  <2>2. CASE j \in Replayed(lg)
    <3>1. i \in Replayed(lg)
      BY <1>12, <1>16, <2>1, <2>2
    <3>2. PICK k \in 1..Len(lg) : k < j /\ lg[k] = Mark("ABORT", lg[i].tx)
      BY <1>1, <1>16, <2>1, <2>2, <3>1 DEF ReuseOK
    <3> QED BY <1>10, <1>12, <1>16, <3>1, <3>2
  <2>3. CASE j > L /\ i \in Replayed(lg)
    <3>1. l2[i] = lg[i] /\ j \in 1..Len(l2)
      BY <1>16, <2>3
    <3>2. ChunkAt(ps, lg[i].page, lg[i].slot) = NoChunk
      BY <1>13, <2>1, <2>3, <3>1
    <3>3. Ends("ABORT", lg[i].tx, lg)
      BY <1>1, <1>17, <2>3, <3>2 DEF RecordsShown
    <3>4. PICK k \in 1..Len(lg) : lg[k] = Mark("ABORT", lg[i].tx)
      BY <3>3 DEF Ends
    <3>5. k \in 1..Len(l2) /\ l2[k] = lg[k] /\ k < j
      BY <1>10, <1>12, <2>3, <3>1, <3>4
    <3> QED BY <3>1, <3>4, <3>5
  <2>4. CASE j > L /\ i > L
    <3>1. i \in 1..Len(l2) /\ j \in 1..Len(l2)
      BY <1>16
    <3>2. l2[i].chunk = l2[j].chunk
      BY <1>13, <2>1, <2>4, <3>1
    <3>3. i - L - 1 = j - L - 1
      BY <1>13, <2>4, <3>1, <3>2
    <3> QED BY <1>12, <2>1, <3>1, <3>3
  <2> QED BY <1>16, <2>2, <2>3, <2>4
<1>23. EndsOK(l2)
  <2>1. SUFFICES ASSUME NEW i \in 1..Len(l2), NEW j \in 1..Len(l2), l2[i].type \in {"COMMIT", "ABORT"},
                        l2[j].tx = l2[i].tx, l2[j].type # l2[i].type
                 PROVE  j < i
    BY DEF EndsOK
  <2>2. i \in 1..L
    BY <1>12, <1>13, <2>1
  <2>3. CASE j \in 1..L
    BY <1>1, <1>10, <1>12, <2>1, <2>2, <2>3 DEF EndsOK
  <2>4. CASE j > L
    <3>1. lg[i].tx = x /\ lg[i].type \in {"COMMIT", "ABORT"}
      BY <1>12, <1>13, <2>1, <2>2, <2>4
    <3> QED BY <1>1, <1>10, <2>2, <3>1 DEF OverOK
  <2> QED BY <1>12, <2>3, <2>4
<1>24. OverOK(vals, l2, over, TRUE)
  <2>1. \A i \in 1..Len(l2) : l2[i].type \in {"COMMIT", "ABORT"} => i \in 1..L
    BY <1>12, <1>13
  <2> QED BY <1>1, <1>10, <1>12, <2>1 DEF OverOK
<1>25. FlushOK(l2, fl)
  <2>1. \A i \in 1..Len(l2) : l2[i].type = "CHECKPOINT" => i \in 1..L
    BY <1>12, <1>13
  <2> QED BY <1>1, <1>10, <1>12, <2>1 DEF FlushOK
<1>26. Known(vals, u.pages, ss, l2)
  <2>1. SUFFICES ASSUME NEW c \in TChunk, NEW p \in Place, NEW s \in Slot, Somewhere(u.pages, ss, l2, c, p, s)
                 PROVE  \E w \in vals : c \in ChunksOf(w)
    BY DEF Known
  <2>2. CASE Somewhere(ps, ss, lg, c, p, s)
    BY <1>1, <1>4, <2>2 DEF Known
  <2>3. CASE \E i \in 1..Len(l2) : i > L /\ l2[i].page = p /\ l2[i].slot = s /\ l2[i].chunk = c
    BY <1>4, <1>13, <2>3
  <2> QED BY <1>19, <2>1, <2>2, <2>3
<1>27. Apart(u.pages, ss, l2)
  <2>1. SUFFICES ASSUME NEW c \in TChunk, NEW d \in TChunk, NEW p \in Place, NEW q \in Place,
                        NEW s \in Slot, NEW t \in Slot,
                        Somewhere(u.pages, ss, l2, c, p, s), Somewhere(u.pages, ss, l2, d, q, t), c.id = d.id
                 PROVE  c.value = d.value /\ (c.seq = d.seq => p = q /\ s = t)
    BY DEF Apart
  <2>2. CASE Somewhere(ps, ss, lg, c, p, s)
    <3>1. d.id # next
      BY <1>18, <2>1, <2>2
    <3>2. Somewhere(ps, ss, lg, d, q, t)
      BY <1>13, <1>19, <2>1, <3>1
    <3> QED BY <1>1, <2>1, <2>2, <3>2 DEF Apart
  <2>3. CASE \E i \in 1..Len(l2) : i > L /\ l2[i].page = p /\ l2[i].slot = s /\ l2[i].chunk = c
    <3>1. PICK i \in 1..Len(l2) : i > L /\ l2[i].page = p /\ l2[i].slot = s /\ l2[i].chunk = c
      BY <2>3
    <3>2. c.id = next /\ c.value = v /\ c.seq = i - L - 1
      BY <1>13, <3>1
    <3>3. PICK j \in 1..Len(l2) : j > L /\ l2[j].page = q /\ l2[j].slot = t /\ l2[j].chunk = d
      <4>1. d.id = next
        BY <2>1, <3>2
      <4>2. ~Somewhere(ps, ss, lg, d, q, t)
        BY <1>18, <4>1
      <4> QED BY <1>19, <2>1, <4>2
    <3>4. d.value = v /\ d.seq = j - L - 1
      BY <1>13, <3>3
    <3>5. c.seq = d.seq => i = j
      BY <1>12, <3>2, <3>4
    <3> QED BY <3>1, <3>2, <3>3, <3>4, <3>5
  <2> QED BY <1>19, <2>1, <2>2, <2>3
<1>28. IdsOK(u.pages, ss, next + 1)
  <2>1. SUFFICES ASSUME NEW p \in Place, NEW s \in Slot
                 PROVE  ChunkAt(u.pages, p, s).id < next + 1 /\ ChunkAt(ss, p, s).id < next + 1
    BY DEF IdsOK
  <2>2. ChunkAt(ps, p, s).id < next /\ ChunkAt(ss, p, s).id < next
    BY <1>1 DEF IdsOK
  <2>3. ChunkAt(ps, p, s).id \in Nat /\ ChunkAt(ss, p, s).id \in Nat
    BY <1>2, SlotsTyped DEF TChunk
  <2>4. ChunkAt(u.pages, p, s) = ChunkAt(ps, p, s) \/ ChunkAt(u.pages, p, s).id = next
    BY <1>13, <1>14
  <2> QED BY <1>2, <2>2, <2>3, <2>4
<1>29. ASSUME NEW w \in vs, Lasting(w, l2, over, TRUE) PROVE Lasting(w, lg, over, TRUE)
  <2>1. SUFFICES ASSUME NEW i \in 1..Len(l2), l2[i] = Mark("COMMIT", w.tx) PROVE Ends("COMMIT", w.tx, lg)
    BY <1>29 DEF Lasting, Ends
  <2>2. i \in 1..L
    BY <1>12, <1>13, <2>1 DEF Mark
  <2> QED BY <1>10, <1>12, <2>1, <2>2 DEF Ends
<1>30. ASSUME NEW p \in Place, NEW s \in Slot, ChunkAt(ps, p, s) # NoChunk
       PROVE  /\ ChunkAt(u.pages, p, s) = ChunkAt(ps, p, s)
              /\ \A i \in 1..Len(l2) : i > L => ~(l2[i].page = p /\ l2[i].slot = s)
  BY <1>13, <1>14, <1>30
<1>31. ChunksHeld(vals, u.pages, ss, l2, over, TRUE)
  <2>1. SUFFICES ASSUME NEW w \in vals, Lasting(w, l2, over, TRUE), NEW c \in ChunksOf(w)
                 PROVE  \E p \in Place, s \in Slot : HeldAt(u.pages, ss, l2, w.tx, c, p, s)
    BY DEF ChunksHeld
  <2>2. CASE w \in vs
    <3>1. c # NoChunk
      BY <1>3, <2>2, ChunksTyped
    <3>2. PICK p \in Place, s \in Slot : HeldAt(ps, ss, lg, w.tx, c, p, s)
      BY <1>1, <1>29, <2>1, <2>2 DEF ChunksHeld
    <3>3. CASE \E j \in Replayed(lg) : lg[j] = Insertion(w.tx, c, p, s)
      BY <1>16, <3>3 DEF HeldAt
    <3>4. CASE /\ ChunkAt(ps, p, s) = c /\ ChunkAt(ss, p, s) = c
               /\ \A j \in Replayed(lg) : ~Inserts(lg, j, p, s)
      <4>1. ChunkAt(u.pages, p, s) = c
        BY <1>30, <3>1, <3>4
      <4>2. \A j \in Replayed(l2) : ~Inserts(l2, j, p, s)
        BY <1>16, <1>30, <3>1, <3>4 DEF Inserts
      <4> QED BY <3>4, <4>1, <4>2 DEF HeldAt
    <3> QED BY <3>2, <3>3, <3>4 DEF HeldAt
  <2>3. CASE w = val
    <3>1. PICK k \in 0..(n - 1) : c = Chunk(next, k, v)
      BY <1>5, <2>1, <2>3 DEF ChunksOf
    <3>2. PICK i : i = L + k + 1
      OBVIOUS
    <3>3. i \in 1..Len(l2) /\ i > L /\ i - L - 1 = k
      BY <1>12, <3>1, <3>2
    <3>4. l2[i] \in TInsertion /\ l2[i].tx = x /\ l2[i].chunk = c /\ l2[i].page \in Place /\ l2[i].slot \in Slot
      BY <1>13, <3>1, <3>3
    <3>5. l2[i] = Insertion(w.tx, c, l2[i].page, l2[i].slot)
      BY <1>5, <2>3, <3>4 DEF TInsertion, Insertion
    <3>6. HeldAt(u.pages, ss, l2, w.tx, c, l2[i].page, l2[i].slot)
      BY <1>16, <3>3, <3>5 DEF HeldAt
    <3> QED BY <3>4, <3>6
  <2> QED BY <1>4, <2>2, <2>3
<1>32. RecordsShown(u.pages, l2)
  <2>1. SUFFICES ASSUME NEW j \in Replayed(l2)
                 PROVE  ChunkAt(u.pages, l2[j].page, l2[j].slot) = l2[j].chunk \/ Ends("ABORT", l2[j].tx, l2)
    BY DEF RecordsShown
  <2>2. CASE j > L
    BY <1>13, <1>16, <2>2
  <2>3. CASE j \in Replayed(lg)
    <3>1. l2[j] = lg[j]
      BY <1>16, <2>3
    <3>2. CASE ChunkAt(ps, lg[j].page, lg[j].slot) = lg[j].chunk
      BY <1>17, <1>30, <2>3, <3>1, <3>2
    <3>3. CASE Ends("ABORT", lg[j].tx, lg)
      BY <1>10, <1>12, <3>1, <3>3 DEF Ends
    <3> QED BY <1>1, <2>3, <3>2, <3>3 DEF RecordsShown
  <2> QED BY <1>16, <2>2, <2>3
<1>33. IndexHolds(vals, u.chunks, l2, over)
  <2>1. SUFFICES ASSUME NEW w \in vals, Lasting(w, l2, over, TRUE), NEW c \in ChunksOf(w) PROVE c \in u.chunks
    BY DEF IndexHolds
  <2>2. CASE w \in vs
    <3>1. c \in TChunk /\ c # NoChunk
      BY <1>3, <2>2, ChunksTyped
    <3>2. Lasting(w, lg, over, TRUE)
      BY <1>29, <2>1, <2>2
    <3>3. PICK p \in Place, s \in Slot : HeldAt(ps, ss, lg, w.tx, c, p, s)
      BY <1>1, <2>1, <2>2, <3>2 DEF ChunksHeld
    <3>4. c.id # next
      BY <1>18, <3>1, <3>3, HeldSomewhere
    <3>5. c \in m
      BY <1>1, <2>1, <2>2, <3>2 DEF IndexHolds
    <3> QED BY <1>12, <3>4, <3>5
  <2>3. CASE w = val
    <3>1. PICK k \in 0..(n - 1) : c = Chunk(next, k, v)
      BY <1>5, <2>1, <2>3 DEF ChunksOf
    <3>2. k + 1 \in 1..n /\ (k + 1) - 1 = k
      BY <3>1
    <3>3. Chunk(next, (k + 1) - 1, v) \in u.chunks
      BY <1>12, <3>2
    <3> QED BY <3>1, <3>2, <3>3
  <2> QED BY <1>4, <2>2, <2>3
<1>34. ToastOK(vals, u.chunks, next + 1, u.pages, ss, l2, fl, TRUE, over)
  BY <1>6, <1>20, <1>21, <1>22, <1>23, <1>24, <1>25, <1>26, <1>27, <1>28, <1>31, <1>32, <1>33 DEF ToastOK
<1> QED BY <1>4, <1>11, <1>34

----------------------------------------------------------------------------
(* Toast: the specification. *)

\* No value gets an id that redo would bring chunks back under.
NoIdAgain == "idAgain" \notin ToastCircumstances

LEMMA ValueStored == ASSUME NoIdAgain, ToastInv, NEW x \in Writer, NEW n \in ChunkCounts, StoreValue(x, n) PROVE ToastInv'
<1>1. ToastOK(values, chunks, nextToastId, toastPages, toastSynced, toastLog, toastFlushed, TRUE, toastOver)
  BY DEF ToastInv, StoreValue
<1>2. \A i \in Replayed(toastLog) : toastLog[i].chunk.id # nextToastId
  BY DEF NoIdAgain, StoreValue
<1>3. n \in Nat \ {0}
  BY ToastConstants
<1>4. PICK v : v = Cardinality(values) + 1
  OBVIOUS
<1>5. PICK u : u = AllKept([chunks |-> chunks, pages |-> toastPages, log |-> toastLog], x, nextToastId, v, n)
  OBVIOUS
<1>6. PICK val : val = [tx |-> x, id |-> nextToastId, count |-> n, value |-> v]
  OBVIOUS
<1>7. x \notin toastOver
  BY DEF StoreValue
<1>8. ToastOK(values \cup {val}, u.chunks, nextToastId + 1, u.pages, toastSynced, u.log, toastFlushed, TRUE, toastOver)
  BY <1>1, <1>2, <1>3, <1>4, <1>5, <1>6, <1>7, StoreKeeps
<1>9. /\ values' = values \cup {val} /\ chunks' = u.chunks /\ nextToastId' = nextToastId + 1
      /\ toastPages' = u.pages /\ toastSynced' = toastSynced /\ toastLog' = u.log
      /\ toastFlushed' = toastFlushed /\ toastUp' = TRUE /\ toastOver' = toastOver
  BY <1>4, <1>5, <1>6 DEF StoreValue
<1> QED BY <1>8, <1>9 DEF ToastInv

LEMMA StoresEnd ==
    ASSUME ToastInv, NEW x \in Writer, CommitStores(x) \/ AbortStores(x)
    PROVE  ToastInv'
<1>1. ToastOK(values, chunks, nextToastId, toastPages, toastSynced, toastLog, toastFlushed, TRUE, toastOver)
  BY DEF ToastInv, CommitStores, AbortStores
<1>2. x \notin toastOver
  BY DEF CommitStores, AbortStores
<1>3. /\ values' = values /\ chunks' = chunks /\ nextToastId' = nextToastId
      /\ toastPages' = toastPages /\ toastSynced' = toastSynced
      /\ toastUp' = TRUE /\ toastOver' = toastOver \cup {x}
  BY DEF CommitStores, AbortStores
<1>4. CASE CommitStores(x)
  <2>1. PICK l2 : l2 = Append(toastLog, Mark("COMMIT", x))
    OBVIOUS
  <2>2. toastLog' = l2 /\ toastFlushed' = Len(l2)
    BY <1>4, <2>1 DEF CommitStores
  <2>3. PICK f : f = Len(l2)
    OBVIOUS
  <2>4. ToastOK(values, chunks, nextToastId, toastPages, toastSynced, l2, f, TRUE, toastOver \cup {x})
    BY <1>1, <1>2, <2>1, <2>3, EndKeeps
  <2> QED BY <1>3, <2>2, <2>3, <2>4 DEF ToastInv
<1>5. CASE AbortStores(x)
  <2>1. PICK l2 : l2 = Append(toastLog, Mark("ABORT", x))
    OBVIOUS
  <2>2. toastLog' = l2 /\ toastFlushed' = toastFlushed
    BY <1>5, <2>1 DEF AbortStores
  <2>3. ToastOK(values, chunks, nextToastId, toastPages, toastSynced, l2, toastFlushed, TRUE, toastOver \cup {x})
    BY <1>1, <1>2, <2>1, EndKeeps
  <2> QED BY <1>3, <2>2, <2>3 DEF ToastInv
<1> QED BY <1>4, <1>5

LEMMA ToastSynced == ASSUME ToastInv, CheckpointToast PROVE ToastInv'
<1>1. ToastOK(values, chunks, nextToastId, toastPages, toastSynced, toastLog, toastFlushed, TRUE, toastOver)
  BY DEF ToastInv, CheckpointToast
<1>2. PICK l2 : l2 = Append(toastLog, Mark("CHECKPOINT", 0))
  OBVIOUS
<1>3. ToastOK(values, chunks, nextToastId, toastPages, toastPages, l2, Len(l2), TRUE, toastOver)
  BY <1>1, <1>2, CheckpointKeeps
<1>4. /\ values' = values /\ chunks' = chunks /\ nextToastId' = nextToastId
      /\ toastPages' = toastPages /\ toastSynced' = toastPages /\ toastLog' = l2 /\ toastFlushed' = Len(l2)
      /\ toastUp' = TRUE /\ toastOver' = toastOver
  BY <1>2 DEF CheckpointToast, SyncedBy
<1> QED BY <1>3, <1>4 DEF ToastInv

\* What a power failure leaves of the pages.
LeftOf(ps, ss, k, new) == [p \in 1..k |-> IF p \in new \/ p > Len(ss) THEN ps[p] ELSE ss[p]]

LEMMA LeftPages ==
    ASSUME NEW ps \in TPages, NEW ss \in TPages, Len(ss) <= Len(ps),
           NEW k \in Len(ss)..Len(ps), NEW new, NEW qs, qs = LeftOf(ps, ss, k, new)
    PROVE  /\ qs \in TPages
           /\ \A p \in Place, s \in Slot : ChunkAt(qs, p, s) \in {ChunkAt(ps, p, s), ChunkAt(ss, p, s)}
<1>1. /\ ps \in Seq(Seq(TChunk)) /\ ss \in Seq(Seq(TChunk)) /\ Len(ps) \in Nat /\ Len(ss) \in Nat \ {0}
      /\ k \in Nat /\ k >= Len(ss) /\ k <= Len(ps) /\ k > 0
  BY DEF TPages
<1>2. \A p \in 1..k : qs[p] = ps[p] \/ (p \in 1..Len(ss) /\ qs[p] = ss[p])
  BY <1>1 DEF LeftOf
<1>3. \A p \in 1..k : ps[p] \in Seq(TChunk) /\ p \in 1..Len(ps)
  BY <1>1
<1>4. \A p \in 1..Len(ss) : ss[p] \in Seq(TChunk)
  BY <1>1
<1>5. qs \in Seq(Seq(TChunk)) /\ Len(qs) = k
  BY <1>1, <1>2, <1>3, <1>4 DEF LeftOf
<1>6. Len(qs) > 0
  BY <1>1, <1>5
<1>7. qs \in TPages
  BY <1>5, <1>6, SomePages
<1>8. ASSUME NEW p \in Place, NEW s \in Slot
      PROVE  ChunkAt(qs, p, s) \in {ChunkAt(ps, p, s), ChunkAt(ss, p, s)}
  <2>1. CASE p \in 1..k
    <3>1. ChunkAt(qs, p, s) = OnPage(qs[p], s) /\ ChunkAt(ps, p, s) = OnPage(ps[p], s)
      BY <1>3, <1>5, <2>1 DEF ChunkAt
    <3>2. p \in 1..Len(ss) => ChunkAt(ss, p, s) = OnPage(ss[p], s)
      BY DEF ChunkAt
    <3> QED BY <1>2, <2>1, <3>1, <3>2
  <2>2. CASE p \notin 1..k
    <3>1. p \notin 1..Len(ss)
      BY <1>1, <2>2
    <3>2. ChunkAt(qs, p, s) = NoChunk /\ ChunkAt(ss, p, s) = NoChunk
      BY <1>5, <2>2, <3>1 DEF ChunkAt
    <3> QED BY <3>2
  <2> QED BY <2>1, <2>2
<1> QED BY <1>7, <1>8

LEMMA ToastCut == ASSUME ToastInv, PowerFails PROVE ToastInv'
<1>1. ToastOK(values, chunks, nextToastId, toastPages, toastSynced, toastLog, toastFlushed, TRUE, toastOver)
  BY DEF ToastInv, PowerFails
<1>2. PICK n \in toastFlushed..Len(toastLog) : toastLog' = SubSeq(toastLog, 1, n)
  BY DEF PowerFails
<1>3. PICK k \in Len(toastSynced)..Len(toastPages), new \in SUBSET (1..Len(toastPages)) :
          /\ toastPages' = [p \in 1..k |-> IF p \in new \/ p > Len(toastSynced) THEN toastPages[p] ELSE toastSynced[p]]
          /\ toastSynced' = toastPages'
  BY DEF PowerFails
<1>4. PICK qs : qs = LeftOf(toastPages, toastSynced, k, new)
  OBVIOUS
<1>5. toastPages \in TPages /\ toastSynced \in TPages /\ Len(toastSynced) <= Len(toastPages)
  BY <1>1 DEF ToastOK, ToastTyped
<1>6. /\ qs \in TPages
      /\ \A p \in Place, s \in Slot : ChunkAt(qs, p, s) \in {ChunkAt(toastPages, p, s), ChunkAt(toastSynced, p, s)}
  BY <1>4, <1>5, LeftPages
<1>7. PICK l2 : l2 = SubSeq(toastLog, 1, n)
  OBVIOUS
<1>8. PICK after : after = toastOver \cup {v.tx : v \in values}
  OBVIOUS
<1>9. ToastOK(values, chunks, nextToastId, qs, qs, l2, Len(l2), FALSE, after)
  BY <1>1, <1>6, <1>7, <1>8, CutKeeps
<1>10. /\ values' = values /\ chunks' = chunks /\ nextToastId' = nextToastId
       /\ toastPages' = qs /\ toastSynced' = qs /\ toastLog' = l2 /\ toastFlushed' = Len(l2)
       /\ toastUp' = FALSE /\ toastOver' = after
  BY <1>2, <1>3, <1>4, <1>7, <1>8 DEF PowerFails, LeftOf
<1> QED BY <1>9, <1>10 DEF ToastInv

LEMMA Concatenated ==
    ASSUME NEW lg \in Seq(TRecord), NEW marks \in Seq(TRecord), NEW l2, l2 = lg \o marks
    PROVE  /\ l2 \in Seq(TRecord) /\ Len(lg) \in Nat /\ Len(l2) = Len(lg) + Len(marks)
           /\ \A i \in 1..Len(lg) : l2[i] = lg[i]
           /\ \A i \in 1..Len(l2) : i > Len(lg) => l2[i] = marks[i - Len(lg)] /\ i - Len(lg) \in 1..Len(marks)
           /\ \A j \in 1..Len(marks) : Len(lg) + j \in 1..Len(l2) /\ l2[Len(lg) + j] = marks[j]
<1>1. l2 \in Seq(TRecord) /\ Len(lg) \in Nat /\ Len(marks) \in Nat /\ Len(l2) = Len(lg) + Len(marks)
  OBVIOUS
<1>2. \A i \in 1..Len(lg) : l2[i] = lg[i]
  OBVIOUS
<1>3. ASSUME NEW i \in 1..Len(l2), i > Len(lg)
      PROVE  l2[i] = marks[i - Len(lg)] /\ i - Len(lg) \in 1..Len(marks)
  BY <1>1, <1>3
<1>4. ASSUME NEW j \in 1..Len(marks)
      PROVE  Len(lg) + j \in 1..Len(l2) /\ l2[Len(lg) + j] = marks[j]
  <2>1. PICK i : i = Len(lg) + j
    OBVIOUS
  <2>2. i \in 1..Len(l2) /\ i > Len(lg) /\ i - Len(lg) = j
    BY <1>1, <2>1
  <2> QED BY <1>3, <2>1, <2>2
<1> QED BY <1>1, <1>2, <1>3, <1>4

\* The marks that recovery appends.
LEMMA MarksAppended ==
    ASSUME NEW lg \in Seq(TRecord), NEW X \in SUBSET Writer, NEW k \in Nat, NEW order \in [1..k -> X],
           \A x \in X : \E j \in 1..k : order[j] = x,
           NEW marks, marks = [i \in 1..k |-> Mark("ABORT", order[i])], NEW l2, l2 = lg \o marks
    PROVE  MarkedWith(l2, lg, "ABORT", X)
<1>1. \A i \in 1..k : order[i] \in X /\ Mark("ABORT", order[i]) \in TRecord
  BY DEF Mark, TRecord
<1>2. marks \in Seq(TRecord) /\ Len(marks) = k /\ \A i \in 1..k : marks[i] = Mark("ABORT", order[i])
  BY <1>1
<1>3. PICK L : L = Len(lg)
  OBVIOUS
<1>4. /\ l2 \in Seq(TRecord) /\ L \in Nat /\ Len(l2) = L + k
      /\ \A i \in 1..L : l2[i] = lg[i]
      /\ \A i \in 1..Len(l2) : i > L => l2[i] = marks[i - L] /\ i - L \in 1..k
      /\ \A j \in 1..k : L + j \in 1..Len(l2) /\ l2[L + j] = marks[j]
  BY <1>2, <1>3, Concatenated
<1>5. \A i \in 1..Len(l2) : i > L => \E x \in X : l2[i] = Mark("ABORT", x)
  BY <1>1, <1>2, <1>4
<1>6. \A x \in X : \E i \in 1..Len(l2) : l2[i] = Mark("ABORT", x)
  <2>1. SUFFICES ASSUME NEW x \in X PROVE \E i \in 1..Len(l2) : l2[i] = Mark("ABORT", x)
    OBVIOUS
  <2>2. PICK j \in 1..k : order[j] = x
    OBVIOUS
  <2> QED BY <1>2, <1>4, <2>2
<1>7. \A x : Mark("ABORT", x).type # "CHECKPOINT"
  BY DEF Mark
<1>8. L <= Len(l2)
  BY <1>4
<1>9. \A i \in 1..Len(l2) : i > L => l2[i].type # "CHECKPOINT"
  BY <1>5, <1>7
<1>10. Grown(l2, lg)
  BY <1>3, <1>4, <1>8, <1>9 DEF Grown
<1> QED BY <1>3, <1>5, <1>6, <1>10 DEF MarkedWith

LEMMA LosersMarked ==
    ASSUME NEW lg \in Seq(TRecord), NEW order \in [1..Cardinality(LosersOf(lg)) -> LosersOf(lg)],
           ToSet(order) = LosersOf(lg), NEW l2,
           l2 = lg \o [i \in DOMAIN order |-> Mark("ABORT", order[i])]
    PROVE  MarkedWith(l2, lg, "ABORT", LosersOf(lg))
<1>1. PICK X : X = LosersOf(lg)
  OBVIOUS
<1>2. X \in SUBSET Writer
  BY <1>1, LosersAre
<1>3. PICK k : k = Cardinality(X)
  OBVIOUS
<1>4. k \in Nat
  <2> DEFINE S == {i \in 1..Len(lg) : lg[i].tx \in X}
             f == [i \in S |-> lg[i].tx]
  <2>1. IsFiniteSet(S)
    <3>1. IsFiniteSet(1..Len(lg))
      BY FS_Interval
    <3>2. S \subseteq 1..Len(lg)
      OBVIOUS
    <3> HIDE DEF S
    <3> QED BY <3>1, <3>2, FS_Subset
  <2>2. \A x \in X : \E i \in S : f[i] = x
    BY <1>1 DEF LosersOf
  <2>3. f \in Surjection(S, X)
    <3>1. f \in [S -> X]
      OBVIOUS
    <3> HIDE DEF f, S
    <3> QED BY <2>2, <3>1 DEF Surjection
  <2> HIDE DEF f, S
  <2>4. IsFiniteSet(X)
    BY <2>1, <2>3, FS_Surjection
  <2> QED BY <1>3, <2>4, FS_CardinalityType
<1>5. order \in [1..k -> X] /\ DOMAIN order = 1..k
  BY <1>1, <1>3
<1>6. \A x \in X : \E j \in 1..k : order[j] = x
  BY <1>1, <1>5 DEF ToSet
<1>7. PICK marks : marks = [i \in 1..k |-> Mark("ABORT", order[i])]
  OBVIOUS
<1>8. l2 = lg \o marks
  BY <1>5, <1>7
<1>9. MarkedWith(l2, lg, "ABORT", X)
  BY <1>2, <1>4, <1>5, <1>6, <1>7, <1>8, MarksAppended
<1> QED BY <1>1, <1>9

LEMMA ToastRecovered == ASSUME ToastInv, RecoverToast PROVE ToastInv'
<1>1. ToastOK(values, chunks, nextToastId, toastPages, toastSynced, toastLog, toastFlushed, FALSE, toastOver)
  <2>1. toastUp = FALSE
    BY DEF ToastInv, ToastOK, ToastTyped, RecoverToast
  <2> QED BY <2>1 DEF ToastInv
<1>2. toastLog \in Seq(TRecord)
  BY <1>1 DEF ToastOK, ToastTyped
<1>3. PICK scan : scan = ScanOf(toastPages)
  OBVIOUS
<1>4. PICK t : t = Recovered(scan, toastPages, toastLog)
  OBVIOUS
<1>5. PICK above : above = NextId(scan, toastLog)
  OBVIOUS
<1>6. PICK order \in [1..Cardinality(LosersOf(toastLog)) -> LosersOf(toastLog)] :
          /\ ToSet(order) = LosersOf(toastLog)
          /\ toastLog' = toastLog \o [i \in DOMAIN order |-> Mark("ABORT", order[i])]
  BY DEF RecoverToast
<1>7. PICK l2 : l2 = toastLog \o [i \in DOMAIN order |-> Mark("ABORT", order[i])]
  OBVIOUS
<1>8. MarkedWith(l2, toastLog, "ABORT", LosersOf(toastLog))
  BY <1>2, <1>6, <1>7, LosersMarked
<1>9. ToastOK(values, t.chunks, above, t.pages, t.pages, l2, Len(l2), TRUE, toastOver)
  BY <1>1, <1>3, <1>4, <1>5, <1>8, RecoverKeeps
<1>10. /\ values' = values /\ chunks' = t.chunks /\ nextToastId' = above
       /\ toastPages' = t.pages /\ toastSynced' = t.pages /\ toastLog' = l2 /\ toastFlushed' = Len(l2)
       /\ toastUp' = TRUE /\ toastOver' = toastOver
  BY <1>3, <1>4, <1>5, <1>6, <1>7 DEF RecoverToast, Recovered, NextId
<1> QED BY <1>9, <1>10 DEF ToastInv

LEMMA ToastRestarted == ASSUME ToastInv, RestartToast PROVE ToastInv'
<1>1. ToastOK(values, chunks, nextToastId, toastPages, toastSynced, toastLog, toastFlushed, TRUE, toastOver)
  BY DEF ToastInv, RestartToast
<1>2. PICK scan : scan = ScanOf(toastPages)
  OBVIOUS
<1>3. PICK after : after = toastOver \cup {v.tx : v \in values}
  OBVIOUS
<1>4. ToastOK(values, scan, Above({c.id : c \in scan}), toastPages, toastPages, toastLog, Len(toastLog), TRUE, after)
  BY <1>1, <1>2, <1>3, RestartKeeps
<1>5. /\ values' = values /\ chunks' = scan /\ nextToastId' = Above({c.id : c \in scan})
      /\ toastPages' = toastPages /\ toastSynced' = toastPages /\ toastLog' = toastLog
      /\ toastFlushed' = Len(toastLog) /\ toastUp' = TRUE /\ toastOver' = after
  BY <1>2, <1>3 DEF RestartToast
<1> QED BY <1>4, <1>5 DEF ToastInv

LEMMA NextToast == ASSUME NoIdAgain PROVE ToastInv /\ [ToastNext]_toastVars => ToastInv'
<1>1. SUFFICES ASSUME ToastInv, [ToastNext]_toastVars PROVE ToastInv'
  OBVIOUS
<1>2. ASSUME NEW x \in Writer, CommitStores(x) \/ AbortStores(x) PROVE ToastInv'
  BY <1>1, <1>2, StoresEnd
<1>3. ASSUME NEW x \in Writer, NEW n \in ChunkCounts, StoreValue(x, n) PROVE ToastInv'
  BY <1>1, <1>3, ValueStored
<1>4. CASE CheckpointToast
  BY <1>1, <1>4, ToastSynced
<1>5. CASE PowerFails
  BY <1>1, <1>5, ToastCut
<1>6. CASE RecoverToast
  BY <1>1, <1>6, ToastRecovered
<1>7. CASE RestartToast
  BY <1>1, <1>7, ToastRestarted
<1>8. CASE UNCHANGED toastVars
  BY <1>1, <1>8 DEF toastVars, ToastInv
<1> QED BY <1>1, <1>2, <1>3, <1>4, <1>5, <1>6, <1>7, <1>8 DEF ToastNext

\* What is committed is in memory and on the pages that a later process scans.
LEMMA ToastKept == ToastInv => ValuesKept
<1>1. SUFFICES ASSUME ToastInv, toastUp, NEW v \in values, HasCommitted(v.tx), NEW c \in ChunksOf(v)
               PROVE  c \in chunks /\ c \in ScanOf(toastPages)
  BY DEF ValuesKept
<1>2. ToastOK(values, chunks, nextToastId, toastPages, toastSynced, toastLog, toastFlushed, TRUE, toastOver)
  <2>1. toastUp = TRUE
    BY <1>1 DEF ToastInv, ToastOK, ToastTyped
  <2> QED BY <1>1, <2>1 DEF ToastInv
<1>3. toastLog \in Seq(TRecord)
  BY <1>2 DEF ToastOK, ToastTyped
<1>4. Lasting(v, toastLog, toastOver, TRUE)
  BY <1>1, <1>3 DEF HasCommitted, Lasting, Ends
<1> QED BY <1>1, <1>2, <1>4, LastingShown

\* A value whose transaction committed reads back as it was stored, from memory and from
\* the pages, whatever crashed and whichever slots were used again, as long as no
\* value gets an id that redo would bring other chunks back under (wal.cpp, toast.cpp).
THEOREM SpecValuesKept == ASSUME NoIdAgain PROVE ToastSpec => []ValuesKept
  BY FirstInit, NextToast, ToastKept, PTL DEF ToastSpec
=============================================================================
