------------------------- MODULE DiskBTree_proofs --------------------------
(* What DiskBTree does to the entries of the index, for any keys and sizes of  *)
(* its pages: the refinement whatever circumstances it meets, and the lookups  *)
(* and scans in none of them.                                                  *)
EXTENDS DiskBTree, FiniteSetTheorems, SequenceTheorems, WellFoundedInduction, TLAPS

LEMMA LeastOf ==
    ASSUME NEW S \in SUBSET Nat, S # {}
    PROVE  \E m \in S : \A n \in S : m <= n
<1>1. PICK m \in S : \A n \in S : ~(<<n, m>> \in OpToRel(<, Nat))
  BY NatLessThanWellFounded, WFMin
<1>2. ASSUME NEW n \in S, ~(m <= n) PROVE FALSE
  <2>1. <<n, m>> \in OpToRel(<, Nat)
    BY <1>2 DEF OpToRel
  <2> QED BY <1>1, <2>1
<1> QED BY <1>2

\* Induction over the numbers up to k.
LEMMA StepByStep ==
    ASSUME NEW k \in Nat, NEW G, 0 \in G, \A n \in 1..k : n - 1 \in G => n \in G
    PROVE  \A n \in 0..k : n \in G
<1> DEFINE Bad == {n \in 0..k : n \notin G}
<1>1. SUFFICES ASSUME Bad # {} PROVE FALSE
  OBVIOUS
<1>2. PICK n \in Bad : \A j \in Bad : n <= j
  <2>1. Bad \in SUBSET Nat
    OBVIOUS
  <2> HIDE DEF Bad
  <2> QED BY <1>1, <2>1, LeastOf
<1>3. n # 0 /\ n \in 0..k /\ n \notin G
  OBVIOUS
<1>4. n \in 1..k /\ n - 1 \in 0..k /\ ~(n <= n - 1)
  BY <1>3
<1>5. n - 1 \notin Bad
  <2> HIDE DEF Bad
  <2> QED BY <1>2, <1>4
<1> QED BY <1>3, <1>4, <1>5

IsIterate(w, F, a, k) == w[0] = a /\ \A i \in 1..k : w[i] = F[w[i - 1]]

LEMMA Iterated ==
    ASSUME NEW S, NEW a \in S, NEW F \in [S -> S], NEW k \in Nat
    PROVE  \E w \in [0..k -> S] : IsIterate(w, F, a, k)
<1> DEFINE Bad == {m \in Nat : ~\E w \in [0..m -> S] : IsIterate(w, F, a, m)}
<1>1. SUFFICES ASSUME Bad # {} PROVE FALSE
  OBVIOUS
<1>2. PICK m \in Bad : \A n \in Bad : m <= n
  <2>1. Bad \in SUBSET Nat
    OBVIOUS
  <2> HIDE DEF Bad
  <2> QED BY <1>1, <2>1, LeastOf
<1>3. m # 0
  <2> DEFINE w == [i \in 0..0 |-> a]
  <2>1. w \in [0..0 -> S] /\ IsIterate(w, F, a, 0)
    BY DEF IsIterate
  <2> QED BY <1>2, <2>1
<1>4. m \in Nat /\ m - 1 \in Nat /\ m - 1 \notin Bad
  <2>1. m \in Nat /\ m - 1 \in Nat /\ ~(m <= m - 1)
    BY <1>2, <1>3
  <2> HIDE DEF Bad
  <2> QED BY <1>2, <2>1
<1>5. PICK v \in [0..(m - 1) -> S] : IsIterate(v, F, a, m - 1)
  BY <1>4
<1> DEFINE w == [i \in 0..m |-> IF i = m THEN F[v[m - 1]] ELSE v[i]]
<1>6. w \in [0..m -> S]
  BY <1>4, <1>5
<1>7. w[0] = a
  BY <1>3, <1>4, <1>5 DEF IsIterate
<1>8. ASSUME NEW i \in 1..m PROVE w[i] = F[w[i - 1]]
  <2>1. i - 1 \in 0..m /\ i \in 0..m /\ i - 1 # m /\ w[i - 1] = v[i - 1]
    BY <1>4
  <2>2. CASE i = m
    BY <2>1, <2>2
  <2>3. CASE i # m
    <3>1. i \in 1..(m - 1) /\ w[i] = v[i]
      BY <1>4, <2>3
    <3> QED BY <1>5, <2>1, <3>1 DEF IsIterate
  <2> QED BY <2>2, <2>3
<1> QED BY <1>2, <1>6, <1>7, <1>8 DEF IsIterate

Folds(w, F, a, k) == w[0] = a /\ \A i \in 1..k : w[i] = F[<<i, w[i - 1]>>]

LEMMA Folded ==
    ASSUME NEW S, NEW a \in S, NEW k \in Nat, NEW F \in [(1..k) \X S -> S]
    PROVE  \E w \in [0..k -> S] : Folds(w, F, a, k)
<1> DEFINE G == {m \in 0..k : \E w \in [0..m -> S] : Folds(w, F, a, m)}
<1>1. 0 \in G
  <2> DEFINE w == [i \in 0..0 |-> a]
  <2>1. w \in [0..0 -> S] /\ Folds(w, F, a, 0)
    BY DEF Folds
  <2> QED BY <2>1
<1>2. ASSUME NEW m \in 1..k, m - 1 \in G PROVE m \in G
  <2>1. PICK v \in [0..(m - 1) -> S] : Folds(v, F, a, m - 1)
    BY <1>2
  <2> DEFINE w == [i \in 0..m |-> IF i = m THEN F[<<m, v[m - 1]>>] ELSE v[i]]
  <2>2. m \in Nat /\ m \in 0..k /\ m - 1 \in 0..(m - 1) /\ m # 0
    OBVIOUS
  <2>3. F[<<m, v[m - 1]>>] \in S
    BY <2>1, <2>2
  <2>4. w \in [0..m -> S]
    <3>1. \A i \in 0..m : i # m => i \in 0..(m - 1)
      BY <2>2
    <3> QED BY <2>1, <2>3, <3>1
  <2>5. w[0] = a
    BY <2>1, <2>2 DEF Folds
  <2>6. ASSUME NEW i \in 1..m PROVE w[i] = F[<<i, w[i - 1]>>]
    <3>1. i - 1 \in 0..m /\ i \in 0..m /\ i - 1 # m /\ w[i - 1] = v[i - 1]
      BY <2>2
    <3>2. CASE i = m
      BY <3>1, <3>2
    <3>3. CASE i # m
      <4>1. i \in 1..(m - 1) /\ w[i] = v[i]
        BY <2>2, <3>3
      <4> QED BY <2>1, <3>1, <4>1 DEF Folds
    <3> QED BY <3>2, <3>3
  <2>7. Folds(w, F, a, m)
    <3> HIDE DEF w
    <3> QED BY <2>5, <2>6 DEF Folds
  <2> QED BY <2>2, <2>4, <2>7
<1>3. k \in G
  <2>1. k \in 0..k
    OBVIOUS
  <2> HIDE DEF G
  <2> QED BY <1>1, <1>2, <2>1, StepByStep
<1> QED BY <1>3

-----------------------------------------------------------------------------
(* The pages of a tree. *)

\* A key, and a ctid or a page.
Pair == Nat \X (RowId \cup Nat)

Node == [leaf : BOOLEAN, root : BOOLEAN, entries : Seq(Pair), right : Nat, parent : Nat]

\* An internal page has children, each a level below it.
ChildrenOK(ps, lev, p) ==
    /\ Len(ps[p].entries) > 0
    /\ \A i \in 1..Len(ps[p].entries) :
          ps[p].entries[i][2] \in 1..Len(ps) /\ lev[ps[p].entries[i][2]] + 1 = lev[p]

\* A leaf has entries of the index, and a leaf to its right.
LeafOK(ps, p) ==
    /\ \A i \in 1..Len(ps[p].entries) : ps[p].entries[i] \in IndexKey \X RowId
    /\ ps[p].right # NoNode => ps[p].right \in 1..Len(ps) /\ ps[ps[p].right].leaf

ParentOK(ps, lev, p) ==
    ~ps[p].root => ps[p].parent \in 1..Len(ps) /\ lev[ps[p].parent] = lev[p] + 1

\* lev gives the level of every page, counted from the leaves.
Levels(ps, lev) ==
    /\ ps \in Seq(Node)
    /\ lev \in [1..Len(ps) -> 0..(Len(ps) - 1)]
    /\ \A p \in 1..Len(ps) :
          /\ ps[p].leaf <=> lev[p] = 0
          /\ ps[p].leaf => LeafOK(ps, p)
          /\ ~ps[p].leaf => ChildrenOK(ps, lev, p)
          /\ ParentOK(ps, lev, p)

\* Where the leaves have entries, and what they have there.
Spots(ps) == {s \in (1..Len(ps)) \X Nat :
                 ps[s[1]].leaf /\ s[2] \in 1..Len(ps[s[1]].entries)}
At(ps, s) == ps[s[1]].entries[s[2]]
On(ps)    == {At(ps, s) : s \in Spots(ps)}

\* No entry is on the leaves twice.
Once(ps) == \A s, r \in Spots(ps) : At(ps, s) = At(ps, r) => s = r

LEMMA InsertAtIs ==
    ASSUME NEW S, NEW s \in Seq(S), NEW n \in 1..(Len(s) + 1), NEW e \in S
    PROVE  /\ InsertAt(s, n, e) \in Seq(S)
           /\ Len(InsertAt(s, n, e)) = Len(s) + 1
           /\ \A i \in 1..(Len(s) + 1) :
                 InsertAt(s, n, e)[i] = IF i < n THEN s[i] ELSE IF i = n THEN e ELSE s[i - 1]
<1> Len(s) \in Nat /\ n \in Nat
  OBVIOUS
<1> DEFINE a == SubSeq(s, 1, n - 1)
           b == SubSeq(s, n, Len(s))
<1>1. a \in Seq(S) /\ Len(a) = n - 1 /\ \A i \in 1..(n - 1) : a[i] = s[i]
  OBVIOUS
<1>2. b \in Seq(S) /\ Len(b) = Len(s) - n + 1 /\ \A i \in 1..(Len(s) - n + 1) : b[i] = s[n + i - 1]
  OBVIOUS
<1>3. InsertAt(s, n, e) = (a \o <<e>>) \o b
  BY DEF InsertAt
<1> HIDE DEF a, b
<1>4. a \o <<e>> \in Seq(S) /\ Len(a \o <<e>>) = n /\ (a \o <<e>>)[n] = e
      /\ \A i \in 1..(n - 1) : (a \o <<e>>)[i] = s[i]
  BY <1>1
<1> DEFINE c == a \o <<e>>
<1> HIDE DEF c
<1>5. c \in Seq(S) /\ Len(c) = n /\ c[n] = e /\ \A i \in 1..(n - 1) : c[i] = s[i]
  BY <1>4 DEF c
<1>6. InsertAt(s, n, e) = c \o b
  BY <1>3 DEF c
<1>7. c \o b \in Seq(S) /\ Len(c \o b) = Len(c) + Len(b)
  <2>1. c \in Seq(S) /\ b \in Seq(S)
    BY <1>2, <1>5
  <2> QED BY <2>1
<1>8. ASSUME NEW i \in 1..(Len(s) + 1)
      PROVE  (c \o b)[i] = IF i < n THEN s[i] ELSE IF i = n THEN e ELSE s[i - 1]
  <2> i \in Nat
    OBVIOUS
  <2>1. CASE i <= n
    <3>1. b \in Seq(S) /\ c \in Seq(S) /\ i \in 1..Len(c)
      BY <1>2, <1>5, <2>1
    <3>2. (c \o b)[i] = c[i]
      BY <3>1
    <3> QED BY <1>5, <2>1, <3>2
  <2>2. CASE i > n
    <3>1. (c \o b)[i] = b[i - n] /\ i - n \in 1..(Len(s) - n + 1)
      BY <1>2, <1>5, <2>2
    <3>2. b[i - n] = s[n + (i - n) - 1]
      BY <1>2, <3>1
    <3>3. n + (i - n) - 1 = i - 1 /\ ~(i < n) /\ i # n
      BY ONLY <2>2, i \in Nat, n \in Nat
    <3> QED BY <3>1, <3>2, <3>3
  <2>3. i <= n \/ i > n
    OBVIOUS
  <2> QED BY <2>1, <2>2, <2>3
<1>9. Len(c) + Len(b) = Len(s) + 1
  BY <1>2, <1>5
<1> QED BY ONLY <1>6, <1>7, <1>8, <1>9

LEMMA RemoveAtIs ==
    ASSUME NEW S, NEW s \in Seq(S), NEW n \in 1..Len(s)
    PROVE  /\ RemoveAt(s, n) \in Seq(S)
           /\ Len(RemoveAt(s, n)) = Len(s) - 1
           /\ \A i \in 1..(Len(s) - 1) :
                 RemoveAt(s, n)[i] = IF i < n THEN s[i] ELSE s[i + 1]
<1> Len(s) \in Nat /\ n \in Nat
  OBVIOUS
<1> DEFINE a == SubSeq(s, 1, n - 1)
           b == SubSeq(s, n + 1, Len(s))
<1>1. a \in Seq(S) /\ Len(a) = n - 1 /\ \A i \in 1..(n - 1) : a[i] = s[i]
  OBVIOUS
<1>2. b \in Seq(S) /\ Len(b) = Len(s) - n /\ \A i \in 1..(Len(s) - n) : b[i] = s[n + i]
  OBVIOUS
<1>3. RemoveAt(s, n) = a \o b
  BY DEF RemoveAt
<1> HIDE DEF a, b
<1>4. a \o b \in Seq(S) /\ Len(a \o b) = Len(a) + Len(b)
  <2>1. a \in Seq(S) /\ b \in Seq(S)
    BY <1>1, <1>2
  <2> QED BY <2>1
<1>5. ASSUME NEW i \in 1..(Len(s) - 1)
      PROVE  (a \o b)[i] = IF i < n THEN s[i] ELSE s[i + 1]
  <2> i \in Nat
    OBVIOUS
  <2>1. CASE i < n
    BY <1>1, <1>2, <2>1
  <2>2. CASE i >= n
    <3>1. (a \o b)[i] = b[i - n + 1] /\ i - n + 1 \in 1..(Len(s) - n)
      BY <1>1, <1>2, <2>2
    <3> QED BY <1>2, <2>2, <3>1
  <2>3. i < n \/ i >= n
    OBVIOUS
  <2> QED BY <2>1, <2>2, <2>3
<1> QED BY <1>1, <1>2, <1>3, <1>4, <1>5

LEMMA MinIs ==
    ASSUME NEW S \in SUBSET Nat, S # {}
    PROVE  Min(S) \in S /\ \A n \in S : Min(S) <= n
<1>1. PICK m \in S : \A n \in S : m <= n
  BY LeastOf
<1> QED BY <1>1 DEF Min

LEMMA UpToIs ==
    ASSUME NEW es \in Seq(Pair), NEW k, NEW n \in 1..(Len(es) + 1)
    PROVE  UpTo(es, k, n) \in (n - 1)..Len(es)
<1> DEFINE past == {i \in n..Len(es) : es[i][1] > k}
<1>1. UpTo(es, k, n) = IF past = {} THEN Len(es) ELSE Min(past) - 1
  BY DEF UpTo
<1>2. past \in SUBSET Nat /\ past \subseteq n..Len(es)
  OBVIOUS
<1> HIDE DEF past
<1>3. past # {} => Min(past) \in n..Len(es)
  BY <1>2, MinIs
<1> QED BY <1>1, <1>3

-----------------------------------------------------------------------------
(* Other entries on a page. *)

Put(ps, p, es) == [ps EXCEPT ![p].entries = es]

LEMMA PutIs ==
    ASSUME NEW ps \in Seq(Node), NEW p \in 1..Len(ps), NEW es \in Seq(Pair)
    PROVE  /\ Put(ps, p, es) \in Seq(Node)
           /\ Len(Put(ps, p, es)) = Len(ps)
           /\ \A q \in 1..Len(ps) :
                 /\ Put(ps, p, es)[q].leaf = ps[q].leaf
                 /\ Put(ps, p, es)[q].root = ps[q].root
                 /\ Put(ps, p, es)[q].right = ps[q].right
                 /\ Put(ps, p, es)[q].parent = ps[q].parent
                 /\ q # p => Put(ps, p, es)[q].entries = ps[q].entries
           /\ Put(ps, p, es)[p].entries = es
<1> DEFINE node == [ps[p] EXCEPT !.entries = es]
<1>1. ps[p] \in Node
  OBVIOUS
<1>2. node \in Node /\ node.leaf = ps[p].leaf /\ node.root = ps[p].root
      /\ node.right = ps[p].right /\ node.parent = ps[p].parent /\ node.entries = es
  BY <1>1 DEF Node
<1>3. Put(ps, p, es) = [ps EXCEPT ![p] = node]
  BY DEF Put
<1> HIDE DEF node
<1>4. [ps EXCEPT ![p] = node] \in Seq(Node) /\ Len([ps EXCEPT ![p] = node]) = Len(ps)
      /\ \A q \in 1..Len(ps) : [ps EXCEPT ![p] = node][q] = IF q = p THEN node ELSE ps[q]
  BY <1>2
<1> QED BY <1>2, <1>3, <1>4

\* es are entries for the kind and the level of page p.
FitsIn(ps, lev, p, es) ==
    /\ ps[p].leaf => \A i \in 1..Len(es) : es[i] \in IndexKey \X RowId
    /\ ~ps[p].leaf => /\ Len(es) > 0
                      /\ \A i \in 1..Len(es) : es[i][2] \in 1..Len(ps) /\ lev[es[i][2]] + 1 = lev[p]

LEMMA PutLevels ==
    ASSUME NEW ps, NEW lev, Levels(ps, lev), NEW p \in 1..Len(ps), NEW es \in Seq(Pair),
           FitsIn(ps, lev, p, es)
    PROVE  Levels(Put(ps, p, es), lev)
<1> DEFINE qs == Put(ps, p, es)
<1>1. ps \in Seq(Node) /\ lev \in [1..Len(ps) -> 0..(Len(ps) - 1)]
  BY DEF Levels
<1>2. qs \in Seq(Node) /\ Len(qs) = Len(ps) /\ qs[p].entries = es
      /\ \A q \in 1..Len(ps) :
            /\ qs[q].leaf = ps[q].leaf /\ qs[q].root = ps[q].root
            /\ qs[q].right = ps[q].right /\ qs[q].parent = ps[q].parent
            /\ q # p => qs[q].entries = ps[q].entries
  BY <1>1, PutIs
<1> HIDE DEF qs
<1>3. ASSUME NEW q \in 1..Len(ps)
      PROVE  /\ qs[q].leaf <=> lev[q] = 0
             /\ qs[q].leaf => LeafOK(qs, q)
             /\ ~qs[q].leaf => ChildrenOK(qs, lev, q)
             /\ ParentOK(qs, lev, q)
  <2>1. /\ ps[q].leaf <=> lev[q] = 0
        /\ ps[q].leaf => LeafOK(ps, q)
        /\ ~ps[q].leaf => ChildrenOK(ps, lev, q)
        /\ ParentOK(ps, lev, q)
    BY DEF Levels
  <2>2. qs[q].leaf => LeafOK(qs, q)
    BY <1>2, <2>1 DEF LeafOK, FitsIn
  <2>3. ~qs[q].leaf => ChildrenOK(qs, lev, q)
    BY <1>2, <2>1 DEF ChildrenOK, FitsIn
  <2>4. ParentOK(qs, lev, q)
    BY <1>2, <2>1 DEF ParentOK
  <2> QED BY <1>2, <2>1, <2>2, <2>3, <2>4
<1>4. Levels(qs, lev)
  BY <1>1, <1>2, <1>3 DEF Levels
<1> QED BY <1>4 DEF qs

\* m takes the spots B of qs one to one to the spots A of ps, and what they hold.
Carries(m, qs, B, ps, A) ==
    /\ A \in SUBSET Spots(ps)
    /\ m \in [B -> A]
    /\ \A s, r \in B : m[s] = m[r] => s = r
    /\ \A r \in A : \E s \in B : m[s] = r
    /\ \A s \in B : At(qs, s) = At(ps, m[s])

HoldTheSame(qs, B, ps, A) ==
    /\ {At(qs, s) : s \in B} = {At(ps, s) : s \in A}
    /\ Once(ps) => \A s, r \in B : At(qs, s) = At(qs, r) => s = r

LEMMA Carried ==
    ASSUME NEW m, NEW qs, NEW B, NEW ps, NEW A, Carries(m, qs, B, ps, A)
    PROVE  HoldTheSame(qs, B, ps, A)
<1> /\ A \in SUBSET Spots(ps) /\ m \in [B -> A]
    /\ \A s, r \in B : m[s] = m[r] => s = r
    /\ \A r \in A : \E s \in B : m[s] = r
    /\ \A s \in B : At(qs, s) = At(ps, m[s])
  BY DEF Carries
<1>1. ASSUME NEW r \in A PROVE At(ps, r) \in {At(qs, s) : s \in B}
  <2>1. PICK s \in B : m[s] = r
    OBVIOUS
  <2> QED BY <2>1
<1>2. \A s \in B : At(qs, s) \in {At(ps, r) : r \in A}
  OBVIOUS
<1>3. ASSUME Once(ps), NEW s \in B, NEW r \in B, At(qs, s) = At(qs, r) PROVE s = r
  <2>1. m[s] \in Spots(ps) /\ m[r] \in Spots(ps) /\ At(ps, m[s]) = At(ps, m[r])
    BY <1>3
  <2>2. m[s] = m[r]
    BY <1>3, <2>1 DEF Once
  <2> QED BY <2>2
<1> QED BY <1>1, <1>2, <1>3 DEF HoldTheSame

LEMMA SpotIs ==
    ASSUME NEW ps, NEW s
    PROVE  s \in Spots(ps) <=> \E p \in 1..Len(ps), i \in Nat :
                s = <<p, i>> /\ ps[p].leaf /\ i \in 1..Len(ps[p].entries)
<1>1. ASSUME s \in Spots(ps)
      PROVE  \E p \in 1..Len(ps), i \in Nat :
                s = <<p, i>> /\ ps[p].leaf /\ i \in 1..Len(ps[p].entries)
  <2>1. s \in (1..Len(ps)) \X Nat /\ ps[s[1]].leaf /\ s[2] \in 1..Len(ps[s[1]].entries)
    BY <1>1 DEF Spots
  <2>2. s[1] \in 1..Len(ps) /\ s[2] \in Nat /\ s = <<s[1], s[2]>>
    BY <2>1
  <2> QED BY <2>1, <2>2
<1>2. ASSUME NEW p \in 1..Len(ps), NEW i \in Nat, s = <<p, i>>, ps[p].leaf, i \in 1..Len(ps[p].entries)
      PROVE  s \in Spots(ps)
  BY <1>2 DEF Spots
<1> QED BY <1>1, <1>2

LEMMA InternalOn ==
    ASSUME NEW ps \in Seq(Node), NEW p \in 1..Len(ps), NEW es \in Seq(Pair), ~ps[p].leaf
    PROVE  On(Put(ps, p, es)) = On(ps) /\ (Once(ps) => Once(Put(ps, p, es)))
<1> DEFINE qs == Put(ps, p, es)
<1>1. /\ Len(qs) = Len(ps)
      /\ \A q \in 1..Len(ps) : qs[q].leaf = ps[q].leaf /\ (q # p => qs[q].entries = ps[q].entries)
  BY PutIs
<1> HIDE DEF qs
<1>2. ASSUME NEW s \in Spots(qs) PROVE s \in Spots(ps)
  <2>1. PICK q \in 1..Len(qs), i \in Nat : s = <<q, i>> /\ qs[q].leaf /\ i \in 1..Len(qs[q].entries)
    BY SpotIs
  <2> QED BY <1>1, <2>1, SpotIs
<1>3. ASSUME NEW s \in Spots(ps) PROVE s \in Spots(qs)
  <2>1. PICK q \in 1..Len(ps), i \in Nat : s = <<q, i>> /\ ps[q].leaf /\ i \in 1..Len(ps[q].entries)
    BY SpotIs
  <2>2. q # p
    BY <2>1
  <2>3. q \in 1..Len(qs) /\ qs[q].leaf /\ i \in 1..Len(qs[q].entries)
    BY <1>1, <2>1, <2>2
  <2> QED BY <2>1, <2>3, SpotIs
<1>4. Spots(qs) = Spots(ps)
  BY <1>2, <1>3
<1>5. ASSUME NEW s \in Spots(ps) PROVE At(qs, s) = At(ps, s)
  <2>1. PICK q \in 1..Len(ps), i \in Nat : s = <<q, i>> /\ ps[q].leaf
    BY SpotIs
  <2>2. q # p
    BY <2>1
  <2> QED BY <1>1, <2>1, <2>2 DEF At
<1>6. On(qs) = On(ps)
  BY <1>4, <1>5 DEF On
<1>7. Once(ps) => Once(qs)
  BY <1>4, <1>5 DEF Once
<1> QED BY <1>6, <1>7 DEF qs

LEMMA InsertOn ==
    ASSUME NEW ps \in Seq(Node), NEW p \in 1..Len(ps), ps[p].leaf, NEW e \in Pair,
           NEW n \in 1..(Len(ps[p].entries) + 1), e \notin On(ps)
    PROVE  LET qs == Put(ps, p, InsertAt(ps[p].entries, n, e)) IN
           On(qs) = On(ps) \cup {e} /\ (Once(ps) => Once(qs))
<1> DEFINE old == ps[p].entries
           new == InsertAt(old, n, e)
           qs  == Put(ps, p, new)
           at  == <<p, n>>
           B   == Spots(qs) \ {at}
           m   == [s \in B |-> IF s[1] = p /\ s[2] > n THEN <<p, s[2] - 1>> ELSE s]
<1>1. old \in Seq(Pair) /\ Len(old) \in Nat /\ n \in Nat
  <2>1. ps[p] \in Node
    OBVIOUS
  <2>2. old \in Seq(Pair)
    BY <2>1 DEF Node
  <2>3. n \in 1..(Len(old) + 1)
    OBVIOUS
  <2> HIDE DEF old
  <2> QED BY <2>2, <2>3
<1>2. new \in Seq(Pair) /\ Len(new) = Len(old) + 1
      /\ \A i \in 1..(Len(old) + 1) : new[i] = IF i < n THEN old[i] ELSE IF i = n THEN e ELSE old[i - 1]
  <2>1. n \in 1..(Len(old) + 1)
    OBVIOUS
  <2> HIDE DEF old
  <2> QED BY <1>1, <2>1, InsertAtIs
<1> HIDE DEF new
<1>3. /\ Len(qs) = Len(ps) /\ qs[p].entries = new
      /\ \A q \in 1..Len(ps) : qs[q].leaf = ps[q].leaf /\ (q # p => qs[q].entries = ps[q].entries)
  <2>1. PICK es : es = new
    OBVIOUS
  <2>2. es \in Seq(Pair)
    BY <1>2, <2>1
  <2> QED BY <2>1, <2>2, PutIs
<1> HIDE DEF qs
<1>4. at \in Spots(qs) /\ At(qs, at) = e
  <2>1. n \in 1..Len(new) /\ new[n] = e
    BY <1>1, <1>2
  <2>2. at \in Spots(qs)
    BY <1>1, <1>3, <2>1, SpotIs
  <2> QED BY <1>3, <2>1, <2>2 DEF At
<1>5. ASSUME NEW s \in B
      PROVE  m[s] \in Spots(ps) /\ At(qs, s) = At(ps, m[s])
  <2>1. PICK q \in 1..Len(ps), i \in Nat : s = <<q, i>> /\ ps[q].leaf /\ i \in 1..Len(qs[q].entries)
    BY <1>3, SpotIs
  <2>2. s[1] = q /\ s[2] = i /\ At(qs, s) = qs[q].entries[i]
    BY <2>1 DEF At
  <2>3. CASE q # p
    <3>1. m[s] = s /\ qs[q].entries = ps[q].entries
      BY <1>3, <2>2, <2>3
    <3>2. s \in Spots(ps)
      BY <2>1, <3>1, SpotIs
    <3> QED BY <2>2, <3>1, <3>2 DEF At
  <2>4. CASE q = p /\ i > n
    <3>1. m[s] = <<p, i - 1>>
      BY <2>2, <2>4
    <3>2. i - 1 \in 1..Len(old) /\ i - 1 \in Nat /\ new[i] = old[i - 1]
      BY <1>1, <1>2, <1>3, <2>1, <2>4
    <3>3. <<p, i - 1>> \in Spots(ps)
      BY <2>1, <2>4, <3>2, SpotIs
    <3> QED BY <1>3, <2>2, <2>4, <3>1, <3>2, <3>3 DEF At
  <2>5. CASE q = p /\ ~(i > n)
    <3>1. i # n
      BY <2>1, <2>5
    <3>2. m[s] = s
      BY <2>2, <2>5
    <3>3. i \in 1..Len(old) /\ new[i] = old[i]
      BY <1>1, <1>2, <1>3, <2>1, <2>5, <3>1
    <3>4. s \in Spots(ps)
      BY <2>1, <2>5, <3>3, SpotIs
    <3> QED BY <1>3, <2>2, <2>5, <3>2, <3>3, <3>4 DEF At
  <2> QED BY <2>3, <2>4, <2>5
<1>6. m \in [B -> Spots(ps)] /\ \A s \in B : At(qs, s) = At(ps, m[s])
  BY <1>5
<1>7. ASSUME NEW s \in B, NEW r \in B, m[s] = m[r] PROVE s = r
  <2>1. PICK q \in 1..Len(ps), i \in Nat : s = <<q, i>>
    BY <1>3, SpotIs
  <2>2. PICK u \in 1..Len(ps), j \in Nat : r = <<u, j>>
    BY <1>3, SpotIs
  <2>3. s[1] = q /\ s[2] = i /\ r[1] = u /\ r[2] = j
    BY <2>1, <2>2
  <2>4. m[s][1] = q /\ m[s][2] = IF q = p /\ i > n THEN i - 1 ELSE i
    BY <2>1, <2>3
  <2>5. m[r][1] = u /\ m[r][2] = IF u = p /\ j > n THEN j - 1 ELSE j
    BY <2>2, <2>3
  <2>6. ~(q = p /\ i = n) /\ ~(u = p /\ j = n)
    BY <2>1, <2>2
  <2> HIDE DEF m, B
  <2>7. q = u
    BY <1>7, <2>4, <2>5
  <2>8. i = j
    <3>1. i \in Nat /\ j \in Nat /\ n \in Nat
      BY <1>1
    <3> QED BY <1>7, <2>4, <2>5, <2>6, <2>7, <3>1
  <2> QED BY <2>1, <2>2, <2>7, <2>8
<1>8. ASSUME NEW r \in Spots(ps) PROVE \E s \in B : m[s] = r
  <2>1. PICK q \in 1..Len(ps), i \in Nat : r = <<q, i>> /\ ps[q].leaf /\ i \in 1..Len(ps[q].entries)
    BY SpotIs
  <2>2. CASE q = p /\ i >= n
    <3> DEFINE s == <<p, i + 1>>
    <3>1. i + 1 \in 1..Len(new) /\ i + 1 \in Nat /\ i + 1 # n /\ i + 1 > n
      BY <1>1, <1>2, <2>1, <2>2
    <3>2. s \in Spots(qs) /\ s # at
      BY <1>3, <2>1, <2>2, <3>1, SpotIs
    <3>3. m[s] = <<p, i + 1 - 1>> /\ s \in B
      BY <3>1, <3>2
    <3> HIDE DEF m, B, s
    <3>4. m[s] = r
      BY <2>1, <2>2, <3>3
    <3> QED BY <3>3, <3>4
  <2>3. CASE ~(q = p /\ i >= n)
    <3>1. q = p => i \in 1..Len(new) /\ i # n /\ ~(i > n)
      BY <1>1, <1>2, <2>1, <2>3
    <3>2. r \in Spots(qs) /\ r # at
      BY <1>3, <2>1, <3>1, SpotIs
    <3>3. r[1] = q /\ r[2] = i
      BY <2>1
    <3>4. m[r] = r
      BY <3>1, <3>2, <3>3
    <3> QED BY <3>2, <3>4
  <2> QED BY <2>2, <2>3
<1> HIDE DEF m, B
<1>9. Carries(m, qs, B, ps, Spots(ps))
  BY <1>6, <1>7, <1>8 DEF Carries
<1>10. HoldTheSame(qs, B, ps, Spots(ps))
  BY <1>9, Carried
<1>11. On(qs) = On(ps) \cup {e}
  BY <1>4, <1>10 DEF On, B, HoldTheSame
<1>12. \A s \in B : At(qs, s) # e
  BY <1>10 DEF On, HoldTheSame
<1>13. Once(ps) => Once(qs)
  BY <1>4, <1>10, <1>12 DEF Once, B, HoldTheSame
<1> QED BY <1>11, <1>13 DEF qs, new

LEMMA RemoveOn ==
    ASSUME NEW ps \in Seq(Node), NEW p \in 1..Len(ps), ps[p].leaf, Once(ps),
           NEW n \in 1..Len(ps[p].entries)
    PROVE  LET qs == Put(ps, p, RemoveAt(ps[p].entries, n)) IN
           On(qs) = On(ps) \ {ps[p].entries[n]} /\ Once(qs)
<1> DEFINE old == ps[p].entries
           new == RemoveAt(old, n)
           qs  == Put(ps, p, new)
           at  == <<p, n>>
           A   == Spots(ps) \ {at}
           B   == Spots(qs)
           m   == [s \in B |-> IF s[1] = p /\ s[2] >= n THEN <<p, s[2] + 1>> ELSE s]
<1>1. old \in Seq(Pair) /\ Len(old) \in Nat /\ n \in Nat /\ n \in 1..Len(old)
  <2>1. ps[p] \in Node
    OBVIOUS
  <2>2. old \in Seq(Pair)
    BY <2>1 DEF Node
  <2>3. n \in 1..Len(old)
    OBVIOUS
  <2> HIDE DEF old
  <2> QED BY <2>2, <2>3
<1>2. new \in Seq(Pair) /\ Len(new) = Len(old) - 1
      /\ \A i \in 1..(Len(old) - 1) : new[i] = IF i < n THEN old[i] ELSE old[i + 1]
  <2> HIDE DEF old
  <2> QED BY <1>1, RemoveAtIs
<1> HIDE DEF new
<1>3. /\ Len(qs) = Len(ps) /\ qs[p].entries = new
      /\ \A q \in 1..Len(ps) : qs[q].leaf = ps[q].leaf /\ (q # p => qs[q].entries = ps[q].entries)
  <2>1. PICK es : es = new
    OBVIOUS
  <2>2. es \in Seq(Pair)
    BY <1>2, <2>1
  <2> QED BY <2>1, <2>2, PutIs
<1> HIDE DEF qs
<1>4. at \in Spots(ps) /\ At(ps, at) = old[n]
  <2>1. at \in Spots(ps)
    BY <1>1, SpotIs
  <2> QED BY <2>1 DEF At
<1>5. ASSUME NEW s \in B
      PROVE  m[s] \in A /\ At(qs, s) = At(ps, m[s])
  <2>1. PICK q \in 1..Len(ps), i \in Nat : s = <<q, i>> /\ ps[q].leaf /\ i \in 1..Len(qs[q].entries)
    BY <1>3, SpotIs
  <2>2. s[1] = q /\ s[2] = i /\ At(qs, s) = qs[q].entries[i]
    BY <2>1 DEF At
  <2>3. CASE q # p
    <3>1. m[s] = s /\ qs[q].entries = ps[q].entries /\ s # at
      BY <1>3, <2>1, <2>2, <2>3
    <3>2. s \in Spots(ps)
      BY <2>1, <3>1, SpotIs
    <3> QED BY <2>2, <3>1, <3>2 DEF At
  <2>4. CASE q = p /\ i >= n
    <3>1. m[s] = <<p, i + 1>>
      BY <2>2, <2>4
    <3>2. i + 1 \in 1..Len(old) /\ i + 1 \in Nat /\ new[i] = old[i + 1] /\ i + 1 # n
      BY <1>1, <1>2, <1>3, <2>1, <2>4
    <3>3. <<p, i + 1>> \in Spots(ps) /\ <<p, i + 1>> # at
      BY <2>1, <2>4, <3>2, SpotIs
    <3> QED BY <1>3, <2>2, <2>4, <3>1, <3>2, <3>3 DEF At
  <2>5. CASE q = p /\ ~(i >= n)
    <3>1. m[s] = s
      BY <2>2, <2>5
    <3>2. i \in 1..Len(old) /\ new[i] = old[i] /\ i # n
      BY <1>1, <1>2, <1>3, <2>1, <2>5
    <3>3. s \in Spots(ps) /\ s # at
      BY <2>1, <2>5, <3>2, SpotIs
    <3> QED BY <1>3, <2>2, <2>5, <3>1, <3>2, <3>3 DEF At
  <2> QED BY <2>3, <2>4, <2>5
<1>6. m \in [B -> A] /\ \A s \in B : At(qs, s) = At(ps, m[s])
  BY <1>5
<1>7. ASSUME NEW s \in B, NEW r \in B, m[s] = m[r] PROVE s = r
  <2>1. PICK q \in 1..Len(ps), i \in Nat : s = <<q, i>>
    BY <1>3, SpotIs
  <2>2. PICK u \in 1..Len(ps), j \in Nat : r = <<u, j>>
    BY <1>3, SpotIs
  <2>3. s[1] = q /\ s[2] = i /\ r[1] = u /\ r[2] = j
    BY <2>1, <2>2
  <2>4. m[s][1] = q /\ m[s][2] = IF q = p /\ i >= n THEN i + 1 ELSE i
    BY <2>1, <2>3
  <2>5. m[r][1] = u /\ m[r][2] = IF u = p /\ j >= n THEN j + 1 ELSE j
    BY <2>2, <2>3
  <2> HIDE DEF m, B
  <2>6. q = u
    BY <1>7, <2>4, <2>5
  <2>7. i = j
    <3>1. i \in Nat /\ j \in Nat /\ n \in Nat
      BY <1>1
    <3> QED BY <1>7, <2>4, <2>5, <2>6, <3>1
  <2> QED BY <2>1, <2>2, <2>6, <2>7
<1>8. ASSUME NEW r \in A PROVE \E s \in B : m[s] = r
  <2>1. PICK q \in 1..Len(ps), i \in Nat : r = <<q, i>> /\ ps[q].leaf /\ i \in 1..Len(ps[q].entries)
    BY SpotIs
  <2>2. CASE q = p /\ i > n
    <3> DEFINE s == <<p, i - 1>>
    <3>1. i - 1 \in 1..Len(new) /\ i - 1 \in Nat /\ i - 1 >= n
      BY <1>1, <1>2, <2>1, <2>2
    <3>2. s \in Spots(qs)
      BY <1>3, <2>1, <2>2, <3>1, SpotIs
    <3>3. m[s] = <<p, i - 1 + 1>> /\ s \in B
      BY <3>1, <3>2
    <3> HIDE DEF m, B, s
    <3>4. m[s] = r
      BY <2>1, <2>2, <3>3
    <3> QED BY <3>3, <3>4
  <2>3. CASE ~(q = p /\ i > n)
    <3>1. q = p => i \in 1..Len(new) /\ ~(i >= n)
      <4>1. ASSUME q = p PROVE i \in 1..Len(new) /\ ~(i >= n)
        <5>1. i # n
          BY <2>1, <4>1
        <5> QED BY <1>1, <1>2, <2>1, <2>3, <4>1, <5>1
      <4> QED BY <4>1
    <3>2. r \in Spots(qs)
      <4>1. q = p => q \in 1..Len(qs) /\ qs[q].leaf /\ i \in 1..Len(qs[q].entries)
        BY <1>3, <2>1, <3>1
      <4>2. q # p => q \in 1..Len(qs) /\ qs[q].leaf /\ i \in 1..Len(qs[q].entries)
        BY <1>3, <2>1
      <4> QED BY <2>1, <4>1, <4>2, SpotIs
    <3>3. r[1] = q /\ r[2] = i
      BY <2>1
    <3>4. m[r] = r
      BY <3>1, <3>2, <3>3
    <3> QED BY <3>2, <3>4
  <2> QED BY <2>2, <2>3
<1> HIDE DEF m
<1>9. Carries(m, qs, B, ps, A)
  BY <1>6, <1>7, <1>8 DEF Carries
<1>10. HoldTheSame(qs, B, ps, A)
  BY <1>9, Carried
<1>11. \A s \in A : At(ps, s) # old[n]
  BY <1>4 DEF Once
<1>12. On(qs) = On(ps) \ {old[n]}
  BY <1>4, <1>10, <1>11 DEF On, HoldTheSame
<1>13. Once(qs)
  BY <1>10 DEF Once, HoldTheSame
<1> QED BY <1>12, <1>13 DEF qs, new

-----------------------------------------------------------------------------
(* Splits. *)

\* A tree while an insertion goes on.
Growing == [pages : Seq(Node), root : Nat, up : {<<>>} \cup Nat \X Nat \X Nat,
            met : SUBSET AllTreeCircumstances]

Upper(ps, p) == IF ps[p].root THEN Len(ps) + 2 ELSE ps[p].parent

\* Page p of ps is split after its mid-th entry, to ones that rs has.
Halved(ps, p, mid, rs) ==
    /\ mid \in 1..(Len(ps[p].entries) - 1)
    /\ rs \in Seq(Node)
    /\ Len(rs) = IF ps[p].root THEN Len(ps) + 2 ELSE Len(ps) + 1
    /\ \A q \in 1..Len(ps) : q # p => rs[q] = ps[q]
    /\ rs[p].leaf = ps[p].leaf /\ rs[p].root = FALSE /\ rs[p].parent = Upper(ps, p)
    /\ rs[p].right = IF ps[p].leaf THEN Len(ps) + 1 ELSE ps[p].right
    /\ Len(rs[p].entries) = mid
    /\ \A i \in 1..mid : rs[p].entries[i] = ps[p].entries[i]
    /\ rs[Len(ps) + 1].leaf = ps[p].leaf /\ rs[Len(ps) + 1].root = FALSE
    /\ rs[Len(ps) + 1].parent = Upper(ps, p) /\ rs[Len(ps) + 1].right = ps[p].right
    /\ Len(rs[Len(ps) + 1].entries) = Len(ps[p].entries) - mid
    /\ \A i \in 1..(Len(ps[p].entries) - mid) :
          rs[Len(ps) + 1].entries[i] = ps[p].entries[mid + i]
    /\ ps[p].root =>
          /\ ~rs[Len(ps) + 2].leaf /\ rs[Len(ps) + 2].root
          /\ Len(rs[Len(ps) + 2].entries) = 2
          /\ rs[Len(ps) + 2].entries[1][2] = p
          /\ rs[Len(ps) + 2].entries[2][2] = Len(ps) + 1

LEMMA HalfOf ==
    ASSUME NEW n \in Nat, n > 1
    PROVE  n \div 2 \in 1..(n - 1)
  OBVIOUS

LEMMA RightHalfIs ==
    ASSUME NEW node \in Node, NEW mid \in 1..(Len(node.entries) - 1)
    PROVE  /\ RightHalf(node, mid) \in Seq(Pair)
           /\ Len(RightHalf(node, mid)) = Len(node.entries) - mid
           /\ \A i \in 1..(Len(node.entries) - mid) :
                 RightHalf(node, mid)[i] = node.entries[mid + i]
<1> DEFINE es == node.entries
<1>1. es \in Seq(Pair) /\ mid \in 1..(Len(es) - 1)
  BY DEF Node
<1>2. RightHalf(node, mid) = SubSeq(es, mid + 1, Len(es))
  BY DEF RightHalf
<1> HIDE DEF es
<1>3. Len(es) \in Nat
  BY <1>1
<1>4. SubSeq(es, mid + 1, Len(es)) \in Seq(Pair)
      /\ Len(SubSeq(es, mid + 1, Len(es))) = Len(es) - mid
      /\ \A i \in 1..(Len(es) - mid) : SubSeq(es, mid + 1, Len(es))[i] = es[mid + i]
  BY <1>1, <1>3
<1> QED BY <1>2, <1>4 DEF es

\* t is u with page p split after its mid-th entry.
SplitAs(u, p, mid, t) ==
    /\ Halved(u.pages, p, mid, t.pages)
    /\ t \in Growing
    /\ t.root = IF u.pages[p].root THEN Len(u.pages) + 2 ELSE u.root
    /\ u.pages[p].entries[mid + 1][1] \in Nat
    /\ t.up = IF u.pages[p].root THEN <<>>
              ELSE <<u.pages[p].parent, u.pages[p].entries[mid + 1][1], Len(u.pages) + 1>>
    /\ t.met = u.met \cup Meets(u.pages, p, mid)
    /\ u.pages[p].root =>
          /\ t.pages[Len(u.pages) + 2].entries[1][1] = NoKey
          /\ t.pages[Len(u.pages) + 2].entries[2][1] = u.pages[p].entries[mid + 1][1]

LEMMA SplitKeys ==
    ASSUME NEW u \in Growing, NEW p \in 1..Len(u.pages), Len(u.pages[p].entries) > 1
    PROVE  \E mid \in Nat : SplitAs(u, p, mid, Split(u, p))
<1> DEFINE ps    == u.pages
           node  == ps[p]
           mid   == Len(node.entries) \div 2
           new   == Len(ps) + 1
           key   == node.entries[mid + 1][1]
           above == IF node.root THEN new + 1 ELSE node.parent
           left  == [node EXCEPT !.entries = SubSeq(@, 1, mid), !.root = FALSE, !.parent = above,
                                 !.right = IF node.leaf THEN new ELSE @]
           right == [node EXCEPT !.entries = RightHalf(node, mid), !.root = FALSE, !.parent = above]
           half  == [ps EXCEPT ![p] = left]
           both  == Append(half, right)
           top   == [leaf |-> FALSE, root |-> TRUE, entries |-> <<<<NoKey, p>>, <<key, new>>>>,
                     right |-> NoNode, parent |-> NoNode]
           rs    == IF node.root THEN Append(both, top) ELSE both
<1>1. ps \in Seq(Node) /\ u.root \in Nat /\ u.met \in SUBSET AllTreeCircumstances /\ Len(ps) \in Nat
  BY DEF Growing
<1>2. node \in Node /\ node.entries \in Seq(Pair) /\ node.leaf \in BOOLEAN /\ node.root \in BOOLEAN
      /\ node.right \in Nat /\ node.parent \in Nat /\ Len(node.entries) \in Nat
  <2>1. node \in Node
    BY <1>1
  <2> QED BY <2>1 DEF Node
<1>3. Split(u, p) = [pages |-> rs, root |-> IF node.root THEN above ELSE u.root,
                     up |-> IF node.root THEN <<>> ELSE <<above, key, new>>,
                     met |-> u.met \cup Meets(ps, p, mid)]
  BY DEF Split
<1>4. mid \in 1..(Len(node.entries) - 1)
  BY <1>2, HalfOf
<1> HIDE DEF mid
<1>5. key \in Nat
  <2>1. mid + 1 \in 1..Len(node.entries)
    BY <1>2, <1>4
  <2>2. node.entries[mid + 1] \in Pair
    BY <1>2, <2>1
  <2> QED BY <2>2 DEF Pair
<1> HIDE DEF key
<1>6. new \in Nat /\ above \in Nat /\ p \in Nat
  BY <1>1, <1>2
<1>7. /\ left \in Node /\ left.leaf = node.leaf /\ left.root = FALSE /\ left.parent = above
      /\ left.right = (IF node.leaf THEN new ELSE node.right)
      /\ Len(left.entries) = mid /\ \A i \in 1..mid : left.entries[i] = node.entries[i]
  <2>1. SubSeq(node.entries, 1, mid) \in Seq(Pair) /\ Len(SubSeq(node.entries, 1, mid)) = mid
        /\ \A i \in 1..mid : SubSeq(node.entries, 1, mid)[i] = node.entries[i]
    BY <1>2, <1>4
  <2> HIDE DEF above, new
  <2>2. /\ left.leaf = node.leaf /\ left.root = FALSE /\ left.parent = above
        /\ left.right = (IF node.leaf THEN new ELSE node.right)
        /\ left.entries = SubSeq(node.entries, 1, mid)
    BY <1>2 DEF Node
  <2>3. left \in Node
    BY <1>2, <1>6, <2>1 DEF Node
  <2> QED BY <2>1, <2>2, <2>3
<1>8. /\ right \in Node /\ right.leaf = node.leaf /\ right.root = FALSE /\ right.parent = above
      /\ right.right = node.right
      /\ Len(right.entries) = Len(node.entries) - mid
      /\ \A i \in 1..(Len(node.entries) - mid) : right.entries[i] = node.entries[mid + i]
  <2>1. RightHalf(node, mid) \in Seq(Pair)
        /\ Len(RightHalf(node, mid)) = Len(node.entries) - mid
        /\ \A i \in 1..(Len(node.entries) - mid) : RightHalf(node, mid)[i] = node.entries[mid + i]
    BY <1>2, <1>4, RightHalfIs
  <2> HIDE DEF above, new
  <2>2. /\ right.leaf = node.leaf /\ right.root = FALSE /\ right.parent = above
        /\ right.right = node.right /\ right.entries = RightHalf(node, mid)
    BY <1>2 DEF Node
  <2>3. right \in Node
    BY <1>2, <1>6, <2>1 DEF Node
  <2> QED BY <2>1, <2>2, <2>3
<1>9. /\ top \in Node /\ ~top.leaf /\ top.root /\ Len(top.entries) = 2
      /\ top.entries[1][2] = p /\ top.entries[2][2] = new
      /\ top.entries[1][1] = NoKey /\ top.entries[2][1] = key
  <2> HIDE DEF new
  <2>1. <<NoKey, p>> \in Pair /\ <<key, new>> \in Pair
    BY <1>5, <1>6 DEF Pair, NoKey
  <2>2. <<<<NoKey, p>>, <<key, new>>>> \in Seq(Pair)
    BY <2>1
  <2> QED BY <2>2 DEF Node, NoNode
<1> HIDE DEF left, right, top
<1>10. half \in Seq(Node) /\ Len(half) = Len(ps)
       /\ \A q \in 1..Len(ps) : half[q] = IF q = p THEN left ELSE ps[q]
  BY <1>1, <1>7
<1> HIDE DEF half
<1>11. both \in Seq(Node) /\ Len(both) = new /\ both[new] = right
       /\ \A q \in 1..Len(ps) : both[q] = IF q = p THEN left ELSE ps[q]
  <2>1. both \in Seq(Node) /\ Len(both) = Len(half) + 1 /\ both[Len(half) + 1] = right
        /\ \A q \in 1..Len(half) : both[q] = half[q]
    <3>1. right \in Node /\ half \in Seq(Node)
      BY <1>8, <1>10
    <3> HIDE DEF new, above, node, ps
    <3> QED BY <3>1
  <2> QED BY <1>10, <2>1
<1> HIDE DEF both
<1>12. rs \in Seq(Node) /\ Len(rs) = (IF node.root THEN Len(ps) + 2 ELSE Len(ps) + 1)
       /\ rs[new] = right /\ (node.root => rs[Len(ps) + 2] = top)
       /\ \A q \in 1..Len(ps) : rs[q] = IF q = p THEN left ELSE ps[q]
  <2>1. CASE node.root
    <3>1. rs = Append(both, top)
      BY <2>1
    <3>2. Append(both, top) \in Seq(Node) /\ Len(Append(both, top)) = Len(both) + 1
          /\ Append(both, top)[Len(both) + 1] = top
          /\ \A q \in 1..Len(both) : Append(both, top)[q] = both[q]
      BY <1>9, <1>11
    <3>3. new \in 1..Len(both) /\ Len(both) + 1 = Len(ps) + 2 /\ 1..Len(ps) \subseteq 1..Len(both)
      BY <1>1, <1>11
    <3> HIDE DEF rs, new
    <3> QED BY <1>11, <2>1, <3>1, <3>2, <3>3
  <2>2. CASE ~node.root
    <3>1. rs = both
      BY <2>2
    <3> HIDE DEF rs
    <3> QED BY <1>11, <2>2, <3>1
  <2> QED BY <2>1, <2>2
<1>13. Split(u, p).pages = rs /\ Split(u, p).root = (IF node.root THEN above ELSE u.root)
       /\ Split(u, p).up = (IF node.root THEN <<>> ELSE <<above, key, new>>)
       /\ Split(u, p).met = u.met \cup Meets(ps, p, mid)
  <2> HIDE DEF rs, above, new
  <2> QED BY <1>3
<1>14. above = Upper(ps, p)
  BY <1>1 DEF Upper
<1>15. Halved(ps, p, mid, rs)
  <2>1. p \in 1..Len(ps) /\ new = Len(ps) + 1
    OBVIOUS
  <2> HIDE DEF rs, above, new, node, ps
  <2>2. rs[p] = left /\ rs[Len(ps) + 1] = right /\ (ps[p].root => rs[Len(ps) + 2] = top)
    BY <1>12, <2>1 DEF node
  <2>3. /\ rs \in Seq(Node) /\ Len(rs) = (IF ps[p].root THEN Len(ps) + 2 ELSE Len(ps) + 1)
        /\ \A q \in 1..Len(ps) : q # p => rs[q] = ps[q]
        /\ mid \in 1..(Len(ps[p].entries) - 1)
    BY <1>4, <1>12 DEF node
  <2>4. /\ left.leaf = ps[p].leaf /\ left.root = FALSE /\ left.parent = Upper(ps, p)
        /\ left.right = IF ps[p].leaf THEN Len(ps) + 1 ELSE ps[p].right
        /\ Len(left.entries) = mid
        /\ \A i \in 1..mid : left.entries[i] = ps[p].entries[i]
    BY <1>7, <1>14, <2>1 DEF node
  <2>5. /\ right.leaf = ps[p].leaf /\ right.root = FALSE /\ right.parent = Upper(ps, p)
        /\ right.right = ps[p].right
        /\ Len(right.entries) = Len(ps[p].entries) - mid
        /\ \A i \in 1..(Len(ps[p].entries) - mid) : right.entries[i] = ps[p].entries[mid + i]
    BY <1>8, <1>14 DEF node
  <2>6. /\ ~top.leaf /\ top.root /\ Len(top.entries) = 2
        /\ top.entries[1][2] = p /\ top.entries[2][2] = Len(ps) + 1
    BY <1>9, <2>1
  <2> QED BY ONLY <2>2, <2>3, <2>4, <2>5, <2>6, Zenon DEF Halved
<1>16. Meets(ps, p, mid) \in SUBSET AllTreeCircumstances
  BY DEF Meets, AllTreeCircumstances
<1>17. Split(u, p).up \in {<<>>} \cup Nat \X Nat \X Nat
  BY <1>5, <1>6, <1>13
<1>18. Split(u, p) \in Growing
  <2> HIDE DEF rs, above, new, node, ps
  <2>1. /\ rs \in Seq(Node) /\ (IF node.root THEN above ELSE u.root) \in Nat
        /\ u.met \cup Meets(ps, p, mid) \in SUBSET AllTreeCircumstances
    BY <1>1, <1>6, <1>12, <1>16
  <2> QED BY <1>3, <1>13, <1>17, <2>1 DEF Growing
<1>19. mid \in Nat
  BY <1>2, <1>4
<1>20. Split(u, p).root = IF node.root THEN Len(ps) + 2 ELSE u.root
  BY <1>1, <1>13
<1>21. Split(u, p).up = IF node.root THEN <<>> ELSE <<node.parent, key, Len(ps) + 1>>
  BY <1>13
<1>22. Halved(u.pages, p, mid, Split(u, p).pages)
  BY <1>13, <1>15
<1>23. node.root => /\ Split(u, p).pages[Len(ps) + 2].entries[1][1] = NoKey
                    /\ Split(u, p).pages[Len(ps) + 2].entries[2][1] = key
  <2> HIDE DEF rs, ps, node
  <2> QED BY <1>9, <1>12, <1>13
<1>24. Split(u, p).met = u.met \cup Meets(ps, p, mid)
  BY <1>13
<1>25. SplitAs(u, p, mid, Split(u, p))
  BY <1>5, <1>18, <1>20, <1>21, <1>22, <1>23, <1>24 DEF SplitAs, key
<1> QED BY <1>19, <1>25

LEMMA SplitIs ==
    ASSUME NEW u \in Growing, NEW p \in 1..Len(u.pages), Len(u.pages[p].entries) > 1
    PROVE  /\ \E mid \in Nat : Halved(u.pages, p, mid, Split(u, p).pages)
           /\ Split(u, p) \in Growing
           /\ Split(u, p).root = IF u.pages[p].root THEN Len(u.pages) + 2 ELSE u.root
           /\ Split(u, p).up = <<>> \/ \E k \in Nat :
                 ~u.pages[p].root /\ Split(u, p).up = <<u.pages[p].parent, k, Len(u.pages) + 1>>
<1>1. PICK t : t = Split(u, p)
  OBVIOUS
<1>2. PICK mid \in Nat : SplitAs(u, p, mid, t)
  BY <1>1, SplitKeys
<1> QED BY <1>1, <1>2 DEF SplitAs

LEMMA HalvedLevels ==
    ASSUME NEW ps, NEW lev, Levels(ps, lev), NEW p \in 1..Len(ps), NEW mid \in Nat, NEW rs,
           Halved(ps, p, mid, rs)
    PROVE  \E lv : /\ Levels(rs, lv)
                   /\ \A q \in 1..Len(ps) : lv[q] = lev[q]
                   /\ lv[Len(ps) + 1] = lev[p]
<1> DEFINE n  == Len(ps)
           lv == [q \in 1..Len(rs) |-> IF q <= n THEN lev[q] ELSE IF q = n + 1 THEN lev[p] ELSE lev[p] + 1]
<1>1. /\ ps \in Seq(Node) /\ n \in Nat /\ lev \in [1..n -> 0..(n - 1)]
      /\ \A q \in 1..n : /\ ps[q].leaf <=> lev[q] = 0
                         /\ ps[q].leaf => LeafOK(ps, q)
                         /\ ~ps[q].leaf => ChildrenOK(ps, lev, q)
                         /\ ParentOK(ps, lev, q)
  BY DEF Levels
<1>2. /\ mid \in 1..(Len(ps[p].entries) - 1) /\ rs \in Seq(Node)
      /\ Len(rs) = IF ps[p].root THEN n + 2 ELSE n + 1
      /\ \A q \in 1..n : q # p => rs[q] = ps[q]
  BY DEF Halved
<1>3. p \in 1..n /\ lev[p] \in 0..(n - 1)
  BY <1>1
<1> HIDE DEF n
<1>4. lv \in [1..Len(rs) -> 0..(Len(rs) - 1)]
  <2>1. ASSUME NEW q \in 1..Len(rs) PROVE lv[q] \in 0..(Len(rs) - 1)
    <3>1. Len(rs) \in Nat /\ Len(rs) >= n + 1
      BY <1>1, <1>2
    <3>2. CASE q <= n
      BY <1>1, <3>1, <3>2
    <3>3. CASE q = n + 1
      BY <1>1, <1>3, <3>1, <3>3
    <3>4. CASE q > n + 1
      BY <1>1, <1>3, <3>1, <3>4
    <3> QED BY <1>1, <3>1, <3>2, <3>3, <3>4
  <2> QED BY <2>1
<1>5. /\ \A q \in 1..n : q \in 1..Len(rs) /\ lv[q] = lev[q]
      /\ n + 1 \in 1..Len(rs) /\ lv[n + 1] = lev[p]
      /\ ps[p].root => n + 2 \in 1..Len(rs) /\ lv[n + 2] = lev[p] + 1
  <2>1. Len(rs) \in Nat /\ Len(rs) >= n + 1 /\ (ps[p].root => Len(rs) = n + 2)
    BY <1>1, <1>2
  <2>2. ASSUME NEW q \in 1..n PROVE q \in 1..Len(rs) /\ lv[q] = lev[q]
    BY <1>1, <2>1
  <2>3. n + 1 \in 1..Len(rs) /\ ~(n + 1 <= n) /\ ~(n + 2 <= n) /\ n + 2 # n + 1
    BY <1>1, <2>1
  <2>4. ps[p].root => n + 2 \in 1..Len(rs)
    BY <1>1, <2>1
  <2> QED BY <2>2, <2>3, <2>4
<1> HIDE DEF lv
<1>6. \A q \in 1..n : rs[q].leaf = ps[q].leaf
  BY <1>2 DEF Halved
<1>7. Upper(ps, p) \in 1..Len(rs) /\ lv[Upper(ps, p)] = lev[p] + 1
  <2>1. CASE ps[p].root
    BY <1>5, <2>1 DEF Upper, n
  <2>2. CASE ~ps[p].root
    <3>1. ps[p].parent \in 1..n /\ lev[ps[p].parent] = lev[p] + 1
      BY <1>1, <1>3, <2>2 DEF ParentOK, n
    <3> QED BY <1>5, <2>2, <3>1 DEF Upper
  <2> QED BY <2>1, <2>2
<1>8. ASSUME NEW q \in 1..n, q # p
      PROVE  /\ rs[q].leaf <=> lv[q] = 0
             /\ rs[q].leaf => LeafOK(rs, q)
             /\ ~rs[q].leaf => ChildrenOK(rs, lv, q)
             /\ ParentOK(rs, lv, q)
  <2>1. rs[q] = ps[q] /\ lv[q] = lev[q]
    BY <1>2, <1>5, <1>8
  <2>2. rs[q].leaf => LeafOK(rs, q)
    <3>1. ps[q].leaf => LeafOK(ps, q)
      BY <1>1
    <3> QED BY <1>5, <1>6, <2>1, <3>1 DEF LeafOK, n
  <2>3. ~rs[q].leaf => ChildrenOK(rs, lv, q)
    <3>1. ~ps[q].leaf => ChildrenOK(ps, lev, q)
      BY <1>1
    <3> QED BY <1>5, <2>1, <3>1 DEF ChildrenOK, n
  <2>4. ParentOK(rs, lv, q)
    BY <1>1, <1>5, <2>1 DEF ParentOK, n
  <2> QED BY <1>1, <2>1, <2>2, <2>3, <2>4
<1>9. /\ rs[p].leaf <=> lv[p] = 0
      /\ rs[p].leaf => LeafOK(rs, p)
      /\ ~rs[p].leaf => ChildrenOK(rs, lv, p)
      /\ ParentOK(rs, lv, p)
  <2>1. /\ rs[p].leaf = ps[p].leaf /\ lv[p] = lev[p] /\ rs[p].parent = Upper(ps, p)
        /\ rs[p].right = IF ps[p].leaf THEN n + 1 ELSE ps[p].right
        /\ Len(rs[p].entries) = mid /\ \A i \in 1..mid : rs[p].entries[i] = ps[p].entries[i]
        /\ rs[n + 1].leaf = ps[p].leaf
    BY <1>3, <1>5 DEF Halved, n
  <2>2. 1..mid \subseteq 1..Len(ps[p].entries) /\ mid > 0
    BY <1>2
  <2>3. rs[p].leaf => LeafOK(rs, p)
    BY <1>1, <1>3, <1>5, <2>1, <2>2 DEF LeafOK
  <2>4. ~rs[p].leaf => ChildrenOK(rs, lv, p)
    <3>1. ASSUME ~ps[p].leaf, NEW i \in 1..mid
          PROVE  /\ rs[p].entries[i][2] \in 1..n
                 /\ lev[rs[p].entries[i][2]] + 1 = lev[p]
      <4>1. \A j \in 1..Len(ps[p].entries) :
               ps[p].entries[j][2] \in 1..n /\ lev[ps[p].entries[j][2]] + 1 = lev[p]
        BY <1>1, <1>3, <3>1 DEF ChildrenOK, n
      <4>2. i \in 1..Len(ps[p].entries) /\ rs[p].entries[i] = ps[p].entries[i]
        BY <2>1, <2>2
      <4> QED BY <4>1, <4>2
    <3> QED BY <1>5, <2>1, <2>2, <3>1 DEF ChildrenOK
  <2>5. ParentOK(rs, lv, p)
    BY <1>7, <2>1 DEF ParentOK
  <2> QED BY <1>1, <1>3, <2>1, <2>3, <2>4, <2>5
<1>10. /\ rs[n + 1].leaf <=> lv[n + 1] = 0
       /\ rs[n + 1].leaf => LeafOK(rs, n + 1)
       /\ ~rs[n + 1].leaf => ChildrenOK(rs, lv, n + 1)
       /\ ParentOK(rs, lv, n + 1)
  <2> DEFINE new == n + 1
             k   == Len(ps[p].entries) - mid
  <2>1. /\ rs[new].leaf = ps[p].leaf /\ lv[new] = lev[p] /\ rs[new].parent = Upper(ps, p)
        /\ rs[new].right = ps[p].right
        /\ Len(rs[new].entries) = k
        /\ \A i \in 1..k : rs[new].entries[i] = ps[p].entries[mid + i]
    BY <1>3, <1>5 DEF Halved, n
  <2>2. k > 0 /\ \A i \in 1..k : mid + i \in 1..Len(ps[p].entries)
    BY <1>2
  <2> HIDE DEF new, k
  <2>3. rs[new].leaf => LeafOK(rs, new)
    <3>1. ASSUME ps[p].leaf, NEW i \in 1..k PROVE rs[new].entries[i] \in IndexKey \X RowId
      <4>1. \A j \in 1..Len(ps[p].entries) : ps[p].entries[j] \in IndexKey \X RowId
        BY <1>1, <1>3, <3>1 DEF LeafOK
      <4>2. mid + i \in 1..Len(ps[p].entries) /\ rs[new].entries[i] = ps[p].entries[mid + i]
        BY <2>1, <2>2
      <4> QED BY <4>1, <4>2
    <3>2. ASSUME ps[p].leaf, rs[new].right # NoNode
          PROVE  rs[new].right \in 1..Len(rs) /\ rs[rs[new].right].leaf
      BY <1>1, <1>3, <1>5, <1>6, <2>1, <3>2 DEF LeafOK, n
    <3> QED BY <2>1, <3>1, <3>2 DEF LeafOK
  <2>4. ~rs[new].leaf => ChildrenOK(rs, lv, new)
    <3>1. ASSUME ~ps[p].leaf, NEW i \in 1..k
          PROVE  /\ rs[new].entries[i][2] \in 1..n
                 /\ lev[rs[new].entries[i][2]] + 1 = lev[p]
      <4>1. \A j \in 1..Len(ps[p].entries) :
               ps[p].entries[j][2] \in 1..n /\ lev[ps[p].entries[j][2]] + 1 = lev[p]
        BY <1>1, <1>3, <3>1 DEF ChildrenOK, n
      <4>2. mid + i \in 1..Len(ps[p].entries) /\ rs[new].entries[i] = ps[p].entries[mid + i]
        BY <2>1, <2>2
      <4> QED BY <4>1, <4>2
    <3> QED BY <1>5, <2>1, <2>2, <3>1 DEF ChildrenOK
  <2>5. ParentOK(rs, lv, new)
    BY <1>7, <2>1 DEF ParentOK
  <2>6. rs[new].leaf <=> lv[new] = 0
    BY <1>1, <1>3, <2>1
  <2> QED BY <2>3, <2>4, <2>5, <2>6 DEF new
<1>11. ASSUME ps[p].root
       PROVE  /\ rs[n + 2].leaf <=> lv[n + 2] = 0
              /\ rs[n + 2].leaf => LeafOK(rs, n + 2)
              /\ ~rs[n + 2].leaf => ChildrenOK(rs, lv, n + 2)
              /\ ParentOK(rs, lv, n + 2)
  <2> DEFINE top == n + 2
  <2>1. /\ ~rs[top].leaf /\ rs[top].root /\ Len(rs[top].entries) = 2
        /\ rs[top].entries[1][2] = p /\ rs[top].entries[2][2] = n + 1 /\ lv[top] = lev[p] + 1
    BY <1>5, <1>11 DEF Halved, n
  <2> HIDE DEF top
  <2>2. ChildrenOK(rs, lv, top)
    <3>1. \A i \in 1..2 : i = 1 \/ i = 2
      OBVIOUS
    <3>2. /\ p \in 1..Len(rs) /\ n + 1 \in 1..Len(rs)
          /\ lv[p] + 1 = lv[top] /\ lv[n + 1] + 1 = lv[top]
      BY <1>3, <1>5, <2>1
    <3> QED BY <2>1, <3>1, <3>2 DEF ChildrenOK
  <2>3. lv[top] # 0
    BY <1>3, <2>1
  <2> QED BY <2>1, <2>2, <2>3 DEF ParentOK, top
<1>12. ASSUME NEW q \in 1..Len(rs)
       PROVE  /\ rs[q].leaf <=> lv[q] = 0
              /\ rs[q].leaf => LeafOK(rs, q)
              /\ ~rs[q].leaf => ChildrenOK(rs, lv, q)
              /\ ParentOK(rs, lv, q)
  <2>1. q \in 1..n \/ q = n + 1 \/ (q = n + 2 /\ ps[p].root)
    BY <1>1, <1>2
  <2> QED BY <1>8, <1>9, <1>10, <1>11, <2>1
<1>13. Levels(rs, lv)
  BY <1>2, <1>4, <1>12 DEF Levels
<1> QED BY <1>5, <1>13 DEF n

LEMMA HalvedOn ==
    ASSUME NEW ps \in Seq(Node), NEW p \in 1..Len(ps), NEW mid \in Nat, NEW rs,
           Halved(ps, p, mid, rs)
    PROVE  On(rs) = On(ps) /\ (Once(ps) => Once(rs))
<1> DEFINE new == Len(ps) + 1
           k   == Len(ps[p].entries) - mid
           A   == Spots(ps)
           B   == Spots(rs)
           m   == [s \in B |-> IF s[1] = new THEN <<p, mid + s[2]>> ELSE s]
<1>1. /\ mid \in 1..(Len(ps[p].entries) - 1)
      /\ Len(rs) = IF ps[p].root THEN Len(ps) + 2 ELSE Len(ps) + 1
      /\ \A q \in 1..Len(ps) : q # p => rs[q] = ps[q]
      /\ rs[p].leaf = ps[p].leaf /\ Len(rs[p].entries) = mid
      /\ \A i \in 1..mid : rs[p].entries[i] = ps[p].entries[i]
      /\ rs[new].leaf = ps[p].leaf /\ Len(rs[new].entries) = k
      /\ \A i \in 1..k : rs[new].entries[i] = ps[p].entries[mid + i]
      /\ ps[p].root => ~rs[Len(ps) + 2].leaf
  BY DEF Halved
<1>2. /\ Len(ps) \in Nat /\ Len(ps[p].entries) \in Nat /\ k \in Nat
      /\ new \notin 1..Len(ps) /\ new \in 1..Len(rs) /\ 1..Len(ps) \subseteq 1..Len(rs)
      /\ \A i \in 1..k : mid + i \in 1..Len(ps[p].entries) /\ mid + i \in Nat
  <2>1. ps[p] \in Node /\ Len(ps) \in Nat
    OBVIOUS
  <2>2. Len(ps[p].entries) \in Nat
    BY <2>1 DEF Node
  <2>3. Len(rs) \in Nat /\ Len(rs) >= Len(ps) + 1 /\ mid \in 1..(Len(ps[p].entries) - 1)
    BY <1>1, <2>1
  <2>4. new \notin 1..Len(ps) /\ new \in 1..Len(rs) /\ 1..Len(ps) \subseteq 1..Len(rs)
    BY <2>1, <2>3
  <2>5. k \in Nat /\ \A i \in 1..k : mid + i \in 1..Len(ps[p].entries) /\ mid + i \in Nat
    BY <2>2, <2>3
  <2> QED BY <2>1, <2>2, <2>4, <2>5
<1> HIDE DEF k, new
<1>3. ASSUME NEW s \in B
      PROVE  \E q \in 1..Len(ps), i \in Nat :
                /\ ps[q].leaf
                /\ \/ s = <<q, i>> /\ i \in 1..Len(rs[q].entries)
                   \/ q = p /\ s = <<new, i>> /\ i \in 1..k
  <2>1. PICK q \in 1..Len(rs), i \in Nat : s = <<q, i>> /\ rs[q].leaf /\ i \in 1..Len(rs[q].entries)
    BY SpotIs
  <2>2. q \in 1..Len(ps) \/ q = new \/ (q = Len(ps) + 2 /\ ps[p].root)
    BY <1>1, <1>2 DEF new
  <2> QED BY <1>1, <2>1, <2>2
<1>4. ASSUME NEW s \in B
      PROVE  m[s] \in A /\ At(rs, s) = At(ps, m[s])
  <2>1. PICK q \in 1..Len(ps), i \in Nat :
                /\ ps[q].leaf
                /\ \/ s = <<q, i>> /\ i \in 1..Len(rs[q].entries)
                   \/ q = p /\ s = <<new, i>> /\ i \in 1..k
    BY <1>3
  <2>2. CASE s = <<q, i>> /\ i \in 1..Len(rs[q].entries)
    <3>1. s[1] = q /\ s[2] = i /\ q # new
      BY <1>2, <2>2
    <3>2. m[s] = s
      BY <3>1
    <3>3. i \in 1..Len(ps[q].entries) /\ rs[q].entries[i] = ps[q].entries[i]
      <4>1. CASE q = p
        BY <1>1, <1>2, <2>2, <4>1
      <4>2. CASE q # p
        BY <1>1, <2>2, <4>2
      <4> QED BY <4>1, <4>2
    <3>4. s \in Spots(ps)
      BY <2>1, <2>2, <3>3, SpotIs
    <3> QED BY <3>1, <3>2, <3>3, <3>4 DEF At
  <2>3. CASE q = p /\ s = <<new, i>> /\ i \in 1..k
    <3>1. s[1] = new /\ s[2] = i
      BY <2>3
    <3>2. m[s] = <<p, mid + i>>
      BY <3>1
    <3>3. mid + i \in 1..Len(ps[p].entries) /\ mid + i \in Nat /\ rs[new].entries[i] = ps[p].entries[mid + i]
      BY <1>1, <1>2, <2>3
    <3>4. <<p, mid + i>> \in Spots(ps)
      BY <2>1, <2>3, <3>3, SpotIs
    <3> QED BY <3>1, <3>2, <3>3, <3>4 DEF At
  <2> QED BY <2>1, <2>2, <2>3
<1>5. m \in [B -> A] /\ \A s \in B : At(rs, s) = At(ps, m[s])
  BY <1>4
<1>6. ASSUME NEW s \in B, NEW r \in B, m[s] = m[r] PROVE s = r
  <2>1. PICK q \in 1..Len(ps), i \in Nat :
                /\ ps[q].leaf
                /\ \/ s = <<q, i>> /\ i \in 1..Len(rs[q].entries)
                   \/ q = p /\ s = <<new, i>> /\ i \in 1..k
    BY <1>3
  <2>2. PICK u \in 1..Len(ps), j \in Nat :
                /\ ps[u].leaf
                /\ \/ r = <<u, j>> /\ j \in 1..Len(rs[u].entries)
                   \/ u = p /\ r = <<new, j>> /\ j \in 1..k
    BY <1>3
  <2>3. m[s][1] = q /\ m[s][2] = IF s = <<q, i>> THEN i ELSE mid + i
    BY <1>2, <2>1
  <2>4. m[r][1] = u /\ m[r][2] = IF r = <<u, j>> THEN j ELSE mid + j
    BY <1>2, <2>2
  <2> HIDE DEF m, B
  <2>5. q = u
    BY <1>6, <2>3, <2>4
  <2>6. s = <<q, i>> /\ q = p => i <= mid
    <3>1. ASSUME s = <<q, i>>, q = p PROVE i \in 1..mid
      <4>1. s # <<new, i>>
        BY <1>2, <3>1
      <4> QED BY <1>1, <2>1, <3>1, <4>1
    <3> QED BY <1>1, <3>1
  <2>7. r = <<u, j>> /\ u = p => j <= mid
    <3>1. ASSUME r = <<u, j>>, u = p PROVE j \in 1..mid
      <4>1. r # <<new, j>>
        BY <1>2, <3>1
      <4> QED BY <1>1, <2>2, <3>1, <4>1
    <3> QED BY <1>1, <3>1
  <2>8. (s # <<q, i>> => i > 0) /\ (r # <<u, j>> => j > 0)
    BY <1>2, <2>1, <2>2
  <2>9. CASE s = <<q, i>>
    <3>1. r = <<u, j>>
      <4> SUFFICES ASSUME r # <<u, j>> PROVE FALSE
        OBVIOUS
      <4>1. u = p /\ i = mid + j /\ i <= mid
        BY <1>6, <2>2, <2>3, <2>4, <2>5, <2>6, <2>9
      <4> QED BY <2>8, <4>1
    <3> QED BY <1>6, <2>3, <2>4, <2>5, <2>9, <3>1
  <2>10. CASE s # <<q, i>>
    <3>1. q = p /\ s = <<new, i>>
      BY <2>1, <2>10
    <3>2. r # <<u, j>>
      <4> SUFFICES ASSUME r = <<u, j>> PROVE FALSE
        OBVIOUS
      <4>1. u = p /\ j = mid + i /\ j <= mid
        BY <1>6, <2>3, <2>4, <2>5, <2>7, <2>10, <3>1
      <4> QED BY <2>8, <2>10, <4>1
    <3>3. mid + i = mid + j
      BY <1>6, <2>3, <2>4, <2>10, <3>2
    <3>4. i = j
      BY <3>3
    <3> QED BY <2>2, <3>1, <3>2, <3>4
  <2> QED BY <2>9, <2>10
<1>7. ASSUME NEW r \in A PROVE \E s \in B : m[s] = r
  <2>1. PICK q \in 1..Len(ps), i \in Nat : r = <<q, i>> /\ ps[q].leaf /\ i \in 1..Len(ps[q].entries)
    BY SpotIs
  <2>2. CASE q = p /\ i > mid
    <3> DEFINE s == <<new, i - mid>>
    <3>1. i - mid \in 1..k /\ i - mid \in Nat
      BY <1>1, <1>2, <2>1, <2>2 DEF k
    <3>2. s \in Spots(rs)
      BY <1>1, <1>2, <2>1, <2>2, <3>1, SpotIs
    <3>3. m[s] = <<p, mid + (i - mid)>> /\ s \in B
      BY <3>1, <3>2
    <3>4. mid + (i - mid) = i
      BY <1>1
    <3> HIDE DEF m, B, s
    <3>5. m[s] = r
      BY <2>1, <2>2, <3>3, <3>4
    <3> QED BY <3>3, <3>5
  <2>3. CASE ~(q = p /\ i > mid)
    <3>1. rs[q].leaf /\ i \in 1..Len(rs[q].entries)
      <4>1. CASE q = p
        <5>1. ~(i > mid)
          BY <2>3, <4>1
        <5> QED BY <1>1, <2>1, <4>1, <5>1
      <4>2. CASE q # p
        BY <1>1, <2>1, <4>2
      <4> QED BY <4>1, <4>2
    <3>2. r \in Spots(rs)
      BY <1>2, <2>1, <3>1, SpotIs
    <3>3. r[1] = q /\ q # new
      BY <1>2, <2>1
    <3>4. m[r] = r
      BY <3>2, <3>3
    <3> QED BY <3>2, <3>4
  <2> QED BY <2>2, <2>3
<1> HIDE DEF m
<1>8. Carries(m, rs, B, ps, A)
  BY <1>5, <1>6, <1>7 DEF Carries
<1>9. HoldTheSame(rs, B, ps, A)
  BY <1>8, Carried
<1> QED BY <1>9 DEF HoldTheSame, On, Once

-----------------------------------------------------------------------------
(* Insertions. *)

\* The entry that is to go up has its place on a page one level above its child.
UpOK(t, lev) ==
    \/ t.up = <<>>
    \/ \E a, q \in 1..Len(t.pages), k \in Nat : t.up = <<a, k, q>> /\ lev[a] = lev[q] + 1

RootOK(ps, r) == r \in 1..Len(ps) /\ \A p \in 1..Len(ps) : ps[p].root <=> p = r

Standing(t) == \E lev : Levels(t.pages, lev) /\ UpOK(t, lev)

\* A tree under construction that has the entries E on its leaves.
TreeOf(t, E) ==
    /\ t \in Growing
    /\ RootOK(t.pages, t.root)
    /\ Standing(t)
    /\ On(t.pages) = E
    /\ Once(t.pages)

LEMMA SplitKeeps ==
    ASSUME NEW u, NEW E, TreeOf(u, E), NEW p \in 1..Len(u.pages), Len(u.pages[p].entries) > 1
    PROVE  TreeOf(Split(u, p), E)
<1> DEFINE ps == u.pages
           n  == Len(ps)
<1>1. u \in Growing /\ ps \in Seq(Node) /\ n \in Nat /\ RootOK(ps, u.root) /\ On(ps) = E /\ Once(ps)
  BY DEF TreeOf, Growing
<1>2. PICK lev : Levels(ps, lev)
  BY DEF TreeOf, Standing
<1>3. PICK t : t = Split(u, p)
  OBVIOUS
<1>4. PICK mid \in Nat : Halved(ps, p, mid, t.pages)
  BY <1>1, <1>3, SplitIs
<1>5. /\ t \in Growing
      /\ t.root = IF ps[p].root THEN n + 2 ELSE u.root
      /\ t.up = <<>> \/ \E k \in Nat : ~ps[p].root /\ t.up = <<ps[p].parent, k, n + 1>>
  BY <1>1, <1>3, SplitIs
<1>6. PICK rs : rs = t.pages
  OBVIOUS
<1>7. Halved(ps, p, mid, rs)
  BY <1>4, <1>6
<1>8. PICK lv : Levels(rs, lv) /\ (\A q \in 1..n : lv[q] = lev[q]) /\ lv[n + 1] = lev[p]
  <2>1. p \in 1..Len(ps)
    OBVIOUS
  <2> HIDE DEF ps
  <2>2. \E lv : Levels(rs, lv) /\ (\A q \in 1..Len(ps) : lv[q] = lev[q]) /\ lv[Len(ps) + 1] = lev[p]
    BY <1>2, <1>7, <2>1, HalvedLevels
  <2> QED BY <2>2
<1>9. On(rs) = E /\ Once(rs)
  BY <1>1, <1>7, HalvedOn
<1>10. /\ Len(rs) = (IF ps[p].root THEN n + 2 ELSE n + 1) /\ p \in 1..n
       /\ \A q \in 1..n : q # p => rs[q] = ps[q]
       /\ rs[p].root = FALSE /\ rs[n + 1].root = FALSE
       /\ ps[p].root => rs[n + 2].root
  BY <1>7 DEF Halved
<1>11. ~ps[p].root => ps[p].parent \in 1..n /\ lev[ps[p].parent] = lev[p] + 1
  BY <1>2 DEF Levels, ParentOK
<1> HIDE DEF n, ps
<1>12. RootOK(rs, t.root)
  <2>1. CASE ps[p].root
    <3>1. t.root = n + 2 /\ Len(rs) = n + 2 /\ p = u.root
      BY <1>1, <1>5, <1>10, <2>1 DEF RootOK, n
    <3>2. ASSUME NEW q \in 1..Len(rs) PROVE rs[q].root <=> q = n + 2
      <4>1. q \in 1..n \/ q = n + 1 \/ q = n + 2
        BY <1>1, <3>1
      <4>2. CASE q \in 1..n
        <5>1. q # p => ~rs[q].root
          BY <1>1, <1>10, <3>1, <4>2 DEF RootOK, n
        <5>2. q # n + 2
          BY <1>1, <4>2
        <5> QED BY <1>10, <5>1, <5>2
      <4>3. CASE q = n + 1
        BY <1>1, <1>10, <4>3
      <4> QED BY <1>10, <2>1, <4>1, <4>2, <4>3
    <3>3. n + 2 \in 1..Len(rs)
      BY <1>1, <3>1
    <3> QED BY <3>1, <3>2, <3>3 DEF RootOK
  <2>2. CASE ~ps[p].root
    <3>1. t.root = u.root /\ Len(rs) = n + 1 /\ u.root \in 1..n /\ p # u.root
      BY <1>1, <1>5, <1>10, <2>2 DEF RootOK, n
    <3>2. ASSUME NEW q \in 1..Len(rs) PROVE rs[q].root <=> q = u.root
      <4>1. q \in 1..n \/ q = n + 1
        BY <1>1, <3>1
      <4>2. CASE q \in 1..n
        BY <1>1, <1>10, <3>1, <4>2 DEF RootOK, n
      <4>3. CASE q = n + 1
        BY <1>1, <1>10, <3>1, <4>3
      <4> QED BY <4>1, <4>2, <4>3
    <3>3. u.root \in 1..Len(rs)
      BY <1>1, <3>1
    <3> QED BY <3>1, <3>2, <3>3 DEF RootOK
  <2> QED BY <2>1, <2>2
<1>13. UpOK(t, lv)
  <2>1. CASE t.up = <<>>
    BY <2>1 DEF UpOK
  <2>2. CASE t.up # <<>>
    <3>1. PICK k \in Nat : ~ps[p].root /\ t.up = <<ps[p].parent, k, n + 1>>
      BY <1>5, <2>2
    <3>2. ps[p].parent \in 1..Len(t.pages) /\ n + 1 \in 1..Len(t.pages)
      BY <1>1, <1>6, <1>10, <1>11, <3>1
    <3>3. lv[ps[p].parent] = lv[n + 1] + 1
      BY <1>8, <1>11, <3>1
    <3> QED BY <3>1, <3>2, <3>3 DEF UpOK
  <2> QED BY <2>1, <2>2
<1>14. TreeOf(t, E)
  BY <1>5, <1>6, <1>8, <1>9, <1>12, <1>13 DEF TreeOf, Standing
<1> QED BY <1>3, <1>14

\* The tree with e as the n-th entry of page p, however many that makes.
Entered(t, p, n, e) ==
    [t EXCEPT !.pages = Put(t.pages, p, InsertAt(t.pages[p].entries, n, e)), !.up = <<>>]

\* A split changes no more.
LEMMA WithIs ==
    ASSUME NEW t \in Growing, NEW p \in 1..Len(t.pages), NEW e \in Pair, NEW limit \in Nat, limit > 1,
           NEW E,
           \A n \in 1..(Len(t.pages[p].entries) + 1) :
              TreeOf(Entered(t, p, n, e), E)
    PROVE  TreeOf(With(t, p, e, limit), E)
<1> DEFINE old == t.pages[p].entries
           n   == UpTo(old, e[1], 1) + 1
           ps  == Put(t.pages, p, InsertAt(old, n, e))
           u   == Entered(t, p, n, e)
<1>1. t.pages \in Seq(Node) /\ t.pages[p] \in Node /\ old \in Seq(Pair) /\ Len(old) \in Nat
  <2>1. t.pages \in Seq(Node)
    BY DEF Growing
  <2>2. t.pages[p] \in Node
    BY <2>1
  <2>3. old \in Seq(Pair)
    BY <2>2 DEF Node
  <2> HIDE DEF old
  <2> QED BY <2>1, <2>2, <2>3
<1>2. n \in 1..(Len(old) + 1)
  <2> HIDE DEF old
  <2>1. 1 \in 1..(Len(old) + 1)
    BY <1>1
  <2>2. UpTo(old, e[1], 1) \in (1 - 1)..Len(old)
    BY <1>1, <2>1, UpToIs
  <2> QED BY <1>1, <2>2
<1>3. TreeOf(u, E)
  BY <1>2
<1>4. With(t, p, e, limit) = IF Len(ps[p].entries) >= limit THEN Split(u, p) ELSE u
  BY DEF With, Put, Entered
<1>5. u.pages = ps
  BY DEF Growing, Entered
<1>6. InsertAt(old, n, e) \in Seq(Pair)
  <2> HIDE DEF old, n
  <2> QED BY <1>1, <1>2, InsertAtIs
<1>7. Len(ps) = Len(t.pages) /\ Len(ps[p].entries) \in Nat
  <2>1. PICK es : es = InsertAt(old, n, e)
    OBVIOUS
  <2>2. es \in Seq(Pair) /\ ps = Put(t.pages, p, es)
    BY <1>6, <2>1
  <2> HIDE DEF ps
  <2>3. Len(ps) = Len(t.pages) /\ ps[p].entries = es
    BY <1>1, <2>2, PutIs
  <2> QED BY <2>2, <2>3
<1> HIDE DEF u, ps
<1>8. CASE Len(ps[p].entries) >= limit
  <2>1. p \in 1..Len(u.pages) /\ Len(u.pages[p].entries) > 1
    BY <1>5, <1>7, <1>8
  <2> QED BY <1>3, <1>4, <1>8, <2>1, SplitKeeps
<1>9. CASE ~(Len(ps[p].entries) >= limit)
  BY <1>3, <1>4, <1>9
<1> QED BY <1>8, <1>9

LEMMA EntryPairs == IndexKey \X RowId \subseteq Pair
  BY TreeConstants DEF Pair

\* u is t with es for the entries of page p, of which e alone may be new.
EntersAs(t, p, e, u, es) ==
    /\ es \in Seq(Pair) /\ Len(es) = Len(t.pages[p].entries) + 1
    /\ \A i \in 1..Len(es) :
          es[i] = e \/ \E j \in 1..Len(t.pages[p].entries) : es[i] = t.pages[p].entries[j]
    /\ u \in Growing
    /\ u.pages = Put(t.pages, p, es)
    /\ u.root = t.root
    /\ u.up = <<>>
    /\ Len(u.pages) = Len(t.pages)
    /\ \A q \in 1..Len(t.pages) : u.pages[q].root = t.pages[q].root

LEMMA EnteredIs ==
    ASSUME NEW t \in Growing, NEW p \in 1..Len(t.pages), NEW e \in Pair,
           NEW n \in 1..(Len(t.pages[p].entries) + 1)
    PROVE  EntersAs(t, p, e, Entered(t, p, n, e), InsertAt(t.pages[p].entries, n, e))
<1> DEFINE old == t.pages[p].entries
<1>1. t.pages \in Seq(Node)
  BY DEF Growing
<1>2. t.pages[p] \in Node
  BY <1>1
<1>3. old \in Seq(Pair) /\ n \in 1..(Len(old) + 1)
  BY <1>2 DEF Node
<1> HIDE DEF old
<1>4. PICK es : es = InsertAt(old, n, e)
  OBVIOUS
<1>5. es \in Seq(Pair) /\ Len(es) = Len(old) + 1
      /\ \A i \in 1..(Len(old) + 1) : es[i] = IF i < n THEN old[i] ELSE IF i = n THEN e ELSE old[i - 1]
  <2>1. n \in 1..(Len(old) + 1) /\ old \in Seq(Pair)
    BY <1>3
  <2>2. /\ InsertAt(old, n, e) \in Seq(Pair)
        /\ Len(InsertAt(old, n, e)) = Len(old) + 1
        /\ \A i \in 1..(Len(old) + 1) :
              InsertAt(old, n, e)[i] = IF i < n THEN old[i] ELSE IF i = n THEN e ELSE old[i - 1]
    BY <2>1, InsertAtIs
  <2> QED BY <1>4, <2>2
<1>6. ASSUME NEW i \in 1..Len(es)
      PROVE  es[i] = e \/ \E j \in 1..Len(old) : es[i] = old[j]
  <2>1. i \in 1..(Len(old) + 1) /\ Len(old) \in Nat
    BY <1>3, <1>5
  <2>2. CASE i < n
    <3>1. i \in 1..Len(old) /\ es[i] = old[i]
      BY <1>3, <1>5, <2>1, <2>2
    <3> QED BY <3>1
  <2>3. CASE i = n
    BY <1>5, <2>1, <2>3
  <2>4. CASE i > n
    <3>1. i - 1 \in 1..Len(old) /\ es[i] = old[i - 1]
      BY <1>3, <1>5, <2>1, <2>4
    <3> QED BY <3>1
  <2>5. i < n \/ i = n \/ i > n
    BY <1>3, <2>1
  <2> QED BY <2>2, <2>3, <2>4, <2>5
<1>7. /\ Put(t.pages, p, es) \in Seq(Node)
      /\ Len(Put(t.pages, p, es)) = Len(t.pages)
      /\ \A q \in 1..Len(t.pages) : Put(t.pages, p, es)[q].root = t.pages[q].root
  BY <1>1, <1>5, PutIs
<1>8. PICK ps : ps = Put(t.pages, p, es)
  OBVIOUS
<1>9. Entered(t, p, n, e) = [t EXCEPT !.pages = ps, !.up = <<>>]
  BY <1>4, <1>8 DEF Entered, old
<1>10. ps \in Seq(Node)
  BY <1>7, <1>8
<1>11. [t EXCEPT !.pages = ps, !.up = <<>>] \in Growing
       /\ [t EXCEPT !.pages = ps, !.up = <<>>].pages = ps
       /\ [t EXCEPT !.pages = ps, !.up = <<>>].root = t.root
       /\ [t EXCEPT !.pages = ps, !.up = <<>>].up = <<>>
  BY <1>10 DEF Growing
<1>12. PICK u : u = Entered(t, p, n, e)
  OBVIOUS
<1>13. /\ u \in Growing /\ u.pages = Put(t.pages, p, es) /\ u.root = t.root /\ u.up = <<>>
       /\ Len(u.pages) = Len(t.pages)
       /\ \A q \in 1..Len(t.pages) : u.pages[q].root = t.pages[q].root
  BY <1>7, <1>8, <1>9, <1>11, <1>12
<1>14. EntersAs(t, p, e, u, es)
  BY <1>5, <1>6, <1>13 DEF EntersAs, old
<1> QED BY <1>4, <1>12, <1>14 DEF old

LEMMA LeafEntered ==
    ASSUME NEW t \in Growing, NEW lev, Levels(t.pages, lev), NEW p \in 1..Len(t.pages), t.pages[p].leaf,
           NEW e \in IndexKey \X RowId, NEW n \in 1..(Len(t.pages[p].entries) + 1)
    PROVE  Levels(Entered(t, p, n, e).pages, lev)
<1>1. e \in Pair
  BY EntryPairs
<1>2. PICK u : u = Entered(t, p, n, e)
  OBVIOUS
<1>3. PICK es : es = InsertAt(t.pages[p].entries, n, e) /\ EntersAs(t, p, e, u, es)
  BY <1>1, <1>2, EnteredIs
<1>4. es \in Seq(Pair) /\ u.pages = Put(t.pages, p, es)
  BY <1>3 DEF EntersAs
<1>5. \A i \in 1..Len(es) : es[i] \in IndexKey \X RowId
  <2>1. LeafOK(t.pages, p)
    BY DEF Levels
  <2>2. \A j \in 1..Len(t.pages[p].entries) : t.pages[p].entries[j] \in IndexKey \X RowId
    BY <2>1 DEF LeafOK
  <2>3. \A i \in 1..Len(es) : es[i] = e \/
           \E j \in 1..Len(t.pages[p].entries) : es[i] = t.pages[p].entries[j]
    BY <1>3 DEF EntersAs
  <2> QED BY <2>2, <2>3
<1>6. FitsIn(t.pages, lev, p, es)
  BY <1>5 DEF FitsIn
<1>7. Levels(Put(t.pages, p, es), lev)
  BY <1>4, <1>6, PutLevels
<1> QED BY <1>2, <1>4, <1>7

LEMMA EnterLeaf ==
    ASSUME NEW t, NEW E, TreeOf(t, E), NEW p \in 1..Len(t.pages), t.pages[p].leaf,
           NEW e \in IndexKey \X RowId, e \notin E, NEW n \in 1..(Len(t.pages[p].entries) + 1)
    PROVE  TreeOf(Entered(t, p, n, e), E \cup {e})
<1>1. t \in Growing /\ t.pages \in Seq(Node) /\ RootOK(t.pages, t.root) /\ On(t.pages) = E /\ Once(t.pages)
  BY DEF TreeOf, Growing
<1>2. PICK lev : Levels(t.pages, lev)
  BY DEF TreeOf, Standing
<1>3. e \in Pair
  BY EntryPairs
<1>4. PICK u : u = Entered(t, p, n, e)
  OBVIOUS
<1>5. PICK es : es = InsertAt(t.pages[p].entries, n, e) /\ EntersAs(t, p, e, u, es)
  BY <1>1, <1>3, <1>4, EnteredIs
<1>6. /\ es \in Seq(Pair) /\ u \in Growing /\ u.pages = Put(t.pages, p, es) /\ u.root = t.root
      /\ u.up = <<>> /\ Len(u.pages) = Len(t.pages)
      /\ \A q \in 1..Len(t.pages) : u.pages[q].root = t.pages[q].root
  BY <1>5 DEF EntersAs
<1>7. Levels(u.pages, lev)
  BY <1>1, <1>2, <1>4, LeafEntered
<1>8. On(u.pages) = E \cup {e} /\ Once(u.pages)
  <2>1. PICK ps : ps = t.pages
    OBVIOUS
  <2>2. ps \in Seq(Node) /\ p \in 1..Len(ps) /\ ps[p].leaf /\ e \notin On(ps) /\ n \in 1..(Len(ps[p].entries) + 1)
    BY <1>1, <2>1
  <2>3. u.pages = Put(ps, p, InsertAt(ps[p].entries, n, e))
    BY <1>5, <1>6, <2>1
  <2>4. On(u.pages) = On(ps) \cup {e} /\ (Once(ps) => Once(u.pages))
    BY <1>3, <2>2, <2>3, InsertOn
  <2> QED BY <1>1, <2>1, <2>4
<1>9. RootOK(u.pages, u.root)
  BY <1>1, <1>6 DEF RootOK
<1>10. Standing(u)
  BY <1>6, <1>7 DEF Standing, UpOK
<1> QED BY <1>4, <1>6, <1>8, <1>9, <1>10 DEF TreeOf

LEMMA InternalEntered ==
    ASSUME NEW t \in Growing, NEW lev, Levels(t.pages, lev), UpOK(t, lev),
           NEW a \in 1..Len(t.pages), NEW q \in 1..Len(t.pages), NEW k \in Nat,
           t.up = <<a, k, q>>, NEW n \in 1..(Len(t.pages[a].entries) + 1)
    PROVE  Levels(Entered(t, a, n, <<k, q>>).pages, lev) /\ ~t.pages[a].leaf
<1>1. t.pages \in Seq(Node)
  BY DEF Growing
<1>2. lev[a] = lev[q] + 1 /\ lev[a] \in Nat /\ lev[q] \in Nat
  <2>1. PICK b, r \in 1..Len(t.pages), j \in Nat : t.up = <<b, j, r>> /\ lev[b] = lev[r] + 1
    BY DEF UpOK
  <2>2. b = a /\ r = q
    BY <2>1
  <2> QED BY <2>1, <2>2 DEF Levels
<1>3. PICK e : e = <<k, q>>
  OBVIOUS
<1>4. e \in Pair /\ e[2] = q
  BY <1>3 DEF Pair
<1>5. PICK u : u = Entered(t, a, n, e)
  OBVIOUS
<1>6. PICK es : es = InsertAt(t.pages[a].entries, n, e) /\ EntersAs(t, a, e, u, es)
  BY <1>4, <1>5, EnteredIs
<1>7. es \in Seq(Pair) /\ u.pages = Put(t.pages, a, es)
  BY <1>6 DEF EntersAs
<1>8. ~t.pages[a].leaf /\ ChildrenOK(t.pages, lev, a)
  BY <1>2 DEF Levels
<1>9. Len(es) > 0
  BY <1>6, <1>8 DEF ChildrenOK, EntersAs
<1>10. ASSUME NEW i \in 1..Len(es)
       PROVE  es[i][2] \in 1..Len(t.pages) /\ lev[es[i][2]] + 1 = lev[a]
  <2>1. es[i] = e \/ \E j \in 1..Len(t.pages[a].entries) : es[i] = t.pages[a].entries[j]
    BY <1>6 DEF EntersAs
  <2>2. CASE es[i] = e
    BY <1>2, <1>4, <2>2
  <2>3. ASSUME NEW j \in 1..Len(t.pages[a].entries), es[i] = t.pages[a].entries[j]
        PROVE  es[i][2] \in 1..Len(t.pages) /\ lev[es[i][2]] + 1 = lev[a]
    BY <1>8, <2>3 DEF ChildrenOK
  <2> QED BY <2>1, <2>2, <2>3
<1>11. Levels(u.pages, lev)
  <2>1. FitsIn(t.pages, lev, a, es)
    BY <1>8, <1>9, <1>10 DEF FitsIn
  <2>2. Levels(Put(t.pages, a, es), lev)
    BY <1>7, <2>1, PutLevels
  <2> QED BY <1>7, <2>2
<1> QED BY <1>3, <1>5, <1>8, <1>11

LEMMA EnterInternal ==
    ASSUME NEW t, NEW E, TreeOf(t, E), NEW a \in 1..Len(t.pages), NEW q \in 1..Len(t.pages), NEW k \in Nat,
           t.up = <<a, k, q>>, NEW n \in 1..(Len(t.pages[a].entries) + 1)
    PROVE  TreeOf(Entered(t, a, n, <<k, q>>), E)
<1>1. t \in Growing /\ t.pages \in Seq(Node) /\ RootOK(t.pages, t.root) /\ On(t.pages) = E /\ Once(t.pages)
  BY DEF TreeOf, Growing
<1>2. PICK lev : Levels(t.pages, lev) /\ UpOK(t, lev)
  BY DEF TreeOf, Standing
<1>3. PICK e : e = <<k, q>>
  OBVIOUS
<1>4. e \in Pair
  BY <1>3 DEF Pair
<1>5. PICK u : u = Entered(t, a, n, e)
  OBVIOUS
<1>6. PICK es : es = InsertAt(t.pages[a].entries, n, e) /\ EntersAs(t, a, e, u, es)
  BY <1>1, <1>4, <1>5, EnteredIs
<1>7. /\ es \in Seq(Pair) /\ u \in Growing /\ u.pages = Put(t.pages, a, es) /\ u.root = t.root
      /\ u.up = <<>> /\ Len(u.pages) = Len(t.pages)
      /\ \A r \in 1..Len(t.pages) : u.pages[r].root = t.pages[r].root
  BY <1>6 DEF EntersAs
<1>8. Levels(u.pages, lev) /\ ~t.pages[a].leaf
  BY <1>1, <1>2, <1>3, <1>5, InternalEntered
<1>9. On(u.pages) = E /\ Once(u.pages)
  BY <1>1, <1>7, <1>8, InternalOn
<1>10. RootOK(u.pages, u.root)
  BY <1>1, <1>7 DEF RootOK
<1>11. Standing(u)
  BY <1>7, <1>8 DEF Standing, UpOK
<1> QED BY <1>3, <1>5, <1>7, <1>9, <1>10, <1>11 DEF TreeOf

LEMMA LeafGrows ==
    ASSUME NEW t, NEW E, TreeOf(t, E), NEW p \in 1..Len(t.pages), t.pages[p].leaf,
           NEW e \in IndexKey \X RowId, e \notin E
    PROVE  TreeOf(With(t, p, e, MaxLeafKeys), E \cup {e})
<1>1. t \in Growing /\ e \in Pair /\ MaxLeafKeys \in Nat /\ MaxLeafKeys > 1
  BY EntryPairs, TreeConstants DEF TreeOf
<1>2. \A n \in 1..(Len(t.pages[p].entries) + 1) : TreeOf(Entered(t, p, n, e), E \cup {e})
  BY EnterLeaf
<1> QED BY <1>1, <1>2, WithIs

LEMMA InternalGrows ==
    ASSUME NEW t, NEW E, TreeOf(t, E), t.up # <<>>
    PROVE  TreeOf(With(t, t.up[1], <<t.up[2], t.up[3]>>, MaxInternalKeys), E)
<1>1. t \in Growing /\ MaxInternalKeys \in Nat /\ MaxInternalKeys > 1
  BY TreeConstants DEF TreeOf
<1>2. PICK a, q \in 1..Len(t.pages), k \in Nat : t.up = <<a, k, q>>
  BY DEF TreeOf, Standing, UpOK
<1>3. t.up[1] = a /\ t.up[2] = k /\ t.up[3] = q
  BY <1>2
<1>4. \A n \in 1..(Len(t.pages[a].entries) + 1) : TreeOf(Entered(t, a, n, <<k, q>>), E)
  BY <1>2, EnterInternal
<1>5. <<k, q>> \in Pair
  BY DEF Pair
<1> QED BY <1>1, <1>3, <1>4, <1>5, WithIs

\* One call of insert_into_internal.
Up(u) == IF u.up = <<>> THEN u ELSE With(u, u.up[1], <<u.up[2], u.up[3]>>, MaxInternalKeys)

\* The trees that insert_into_internal goes through.
Climb(l, t, K) == l[0] = t /\ \A n \in 1..K : l[n] = Up(l[n - 1])

\* insert_into_internal keeps the tree a tree, however far it gets.
LEMMA ClimbedIs ==
    ASSUME NEW t, NEW E, TreeOf(t, E), Len(pages) \in Nat
    PROVE  /\ \E l : Climb(l, t, Len(pages)) /\ Climbed(t) = l[Len(pages)]
                     /\ \A n \in 0..Len(pages) : TreeOf(l[n], E)
           /\ TreeOf(Climbed(t), E)
<1> DEFINE S == {u \in Growing : TreeOf(u, E)}
           F == [u \in S |-> Up(u)]
           K == Len(pages)
           from(l, n) == IF n = 0 THEN t ELSE Up(l[n - 1])
<1>1. t \in S
  BY DEF TreeOf
<1>2. F \in [S -> S]
  <2>1. ASSUME NEW u \in S PROVE Up(u) \in S
    <3>1. TreeOf(Up(u), E)
      <4>1. CASE u.up = <<>>
        BY <4>1 DEF Up
      <4>2. CASE u.up # <<>>
        <5>1. TreeOf(With(u, u.up[1], <<u.up[2], u.up[3]>>, MaxInternalKeys), E)
          BY <4>2, InternalGrows
        <5> QED BY <4>2, <5>1 DEF Up
      <4> QED BY <4>1, <4>2
    <3> QED BY <3>1 DEF TreeOf
  <2> HIDE DEF S
  <2> QED BY <2>1
<1> HIDE DEF S
<1>3. PICK v \in [0..K -> S] : IsIterate(v, F, t, K)
  <2> HIDE DEF F
  <2> QED BY <1>1, <1>2, Iterated
<1>4. v = [n \in 0..K |-> from(v, n)]
  <2>1. ASSUME NEW n \in 0..K PROVE v[n] = from(v, n)
    <3>1. CASE n = 0
      BY <1>3, <3>1 DEF IsIterate
    <3>2. CASE n # 0
      <4>1. n \in 1..K /\ n - 1 \in 0..K
        BY <3>2
      <4>2. v[n] = F[v[n - 1]] /\ v[n - 1] \in S
        <5> HIDE DEF F
        <5> QED BY <1>3, <4>1 DEF IsIterate
      <4> QED BY <3>2, <4>2
    <3> QED BY <3>1, <3>2
  <2> HIDE DEF from
  <2> QED BY <1>3, <2>1
<1>5. \E l : l = [n \in 0..K |-> from(l, n)] /\ Climbed(t) = l[K]
  <2> DEFINE l == CHOOSE f : f = [n \in 0..K |-> from(f, n)]
  <2>1. l = [n \in 0..K |-> from(l, n)]
    <3> HIDE DEF from
    <3> QED BY <1>4
  <2>2. Climbed(t) = l[K]
    BY DEF Climbed, Up
  <2> HIDE DEF l, from
  <2> QED BY <2>1, <2>2
<1>6. PICK l : l = [n \in 0..K |-> from(l, n)] /\ Climbed(t) = l[K]
  BY <1>5
<1> DEFINE Bad == {n \in 0..K : l[n] \notin S}
<1>7. Bad = {}
  <2>1. SUFFICES ASSUME Bad # {} PROVE FALSE
    OBVIOUS
  <2>2. PICK n \in Bad : \A j \in Bad : n <= j
    <3>1. Bad \in SUBSET Nat
      OBVIOUS
    <3> HIDE DEF Bad
    <3> QED BY <2>1, <3>1, LeastOf
  <2>3. l[n] = from(l, n)
    <3>1. n \in 0..K
      OBVIOUS
    <3> HIDE DEF from, Bad
    <3> QED BY <1>6, <3>1
  <2>4. n # 0
    BY <1>1, <2>2, <2>3
  <2>5. n - 1 \in 0..K /\ n - 1 \notin Bad
    <3>1. n \in 0..K /\ n - 1 \in 0..K /\ ~(n <= n - 1)
      BY <2>4
    <3> HIDE DEF Bad
    <3> QED BY <2>2, <3>1
  <2>6. l[n - 1] \in S
    BY <2>5
  <2>7. Up(l[n - 1]) \in S
    <3>1. PICK u \in S : u = l[n - 1]
      BY <2>6
    <3>2. F[u] = Up(u)
      OBVIOUS
    <3> HIDE DEF F
    <3> QED BY <1>2, <3>1, <3>2
  <2> QED BY <2>2, <2>3, <2>4, <2>7
<1>8. \A n \in 0..K : TreeOf(l[n], E)
  BY <1>7 DEF S
<1>9. Climb(l, t, K)
  <2>1. l[0] = t
    BY <1>6
  <2>2. ASSUME NEW n \in 1..K PROVE l[n] = Up(l[n - 1])
    <3>1. n \in 0..K /\ n # 0
      OBVIOUS
    <3>2. l[n] = from(l, n)
      <4> HIDE DEF from
      <4> QED BY <1>6, <3>1
    <3> QED BY <3>1, <3>2
  <2> QED BY <2>1, <2>2 DEF Climb
<1>10. K \in 0..K
  OBVIOUS
<1> QED BY <1>6, <1>8, <1>9, <1>10

-----------------------------------------------------------------------------
(* The tree, and the ways through it. *)

Whole(ps, r) == TreeOf(Tree(ps, r), On(ps))

TreeInv == Whole(pages, root)

LEMMA WholeIs ==
    ASSUME NEW ps, NEW r
    PROVE  Whole(ps, r) <=>
             /\ ps \in Seq(Node) /\ RootOK(ps, r) /\ Once(ps)
             /\ \E lev : Levels(ps, lev)
<1> DEFINE t == Tree(ps, r)
<1>1. t.pages = ps /\ t.root = r /\ t.up = <<>>
  BY DEF Tree
<1>2. ps \in Seq(Node) /\ RootOK(ps, r) => t \in Growing
  BY DEF Tree, Growing, RootOK
<1>3. t \in Growing => ps \in Seq(Node)
  BY <1>1 DEF Growing
<1>4. Standing(t) <=> \E lev : Levels(ps, lev)
  BY <1>1 DEF Standing, UpOK
<1> HIDE DEF t
<1>5. TreeOf(t, On(ps)) <=> /\ ps \in Seq(Node) /\ RootOK(ps, r) /\ Once(ps)
                            /\ \E lev : Levels(ps, lev)
  BY <1>1, <1>2, <1>3, <1>4 DEF TreeOf
<1> QED BY <1>5 DEF Whole, t

LEMMA EntriesAre ==
    ASSUME pages \in Seq(Node)
    PROVE  Entries = On(pages)
<1>1. ASSUME NEW e \in Entries PROVE e \in On(pages)
  <2>1. PICK p \in DOMAIN pages : pages[p].leaf /\ e \in ToSet(pages[p].entries)
    BY DEF Entries
  <2>2. p \in 1..Len(pages) /\ pages[p] \in Node
    OBVIOUS
  <2>3. pages[p].entries \in Seq(Pair)
    BY <2>2 DEF Node
  <2>4. PICK i \in 1..Len(pages[p].entries) : pages[p].entries[i] = e
    BY <2>1, <2>3 DEF ToSet
  <2>5. <<p, i>> \in Spots(pages)
    BY <2>1, <2>2, <2>3, <2>4, SpotIs
  <2> QED BY <2>4, <2>5 DEF On, At
<1>2. ASSUME NEW e \in On(pages) PROVE e \in Entries
  <2>1. PICK s \in Spots(pages) : At(pages, s) = e
    BY DEF On
  <2>2. PICK p \in 1..Len(pages), i \in Nat :
          s = <<p, i>> /\ pages[p].leaf /\ i \in 1..Len(pages[p].entries)
    BY SpotIs
  <2>3. pages[p] \in Node /\ p \in DOMAIN pages
    BY <2>2
  <2>4. pages[p].entries \in Seq(Pair)
    BY <2>3 DEF Node
  <2>5. e = pages[p].entries[i]
    BY <2>1, <2>2 DEF At
  <2>6. e \in ToSet(pages[p].entries)
    BY <2>2, <2>4, <2>5 DEF ToSet
  <2> QED BY <2>2, <2>3, <2>6 DEF Entries
<1> QED BY <1>1, <1>2

LEMMA ChildIs ==
    ASSUME pages \in Seq(Node), NEW lev, Levels(pages, lev), NEW p \in 1..Len(pages), ~pages[p].leaf, NEW k
    PROVE  Child(p, k) \in 1..Len(pages) /\ lev[Child(p, k)] + 1 = lev[p]
<1> DEFINE es == pages[p].entries
<1>1. Len(es) > 0 /\ \A i \in 1..Len(es) : es[i][2] \in 1..Len(pages) /\ lev[es[i][2]] + 1 = lev[p]
  BY DEF Levels, ChildrenOK
<1>2. pages[p] \in Node
  OBVIOUS
<1>3. es \in Seq(Pair) /\ Len(es) \in Nat
  <2>1. es \in Seq(Pair)
    BY <1>2 DEF Node
  <2> HIDE DEF es
  <2> QED BY <2>1
<1>4. Child(p, k) = es[UpTo(es, k, 2)][2]
  BY DEF Child
<1> HIDE DEF es
<1>5. UpTo(es, k, 2) \in 1..Len(es)
  <2>1. 2 \in 1..(Len(es) + 1)
    BY <1>1, <1>3
  <2>2. UpTo(es, k, 2) \in (2 - 1)..Len(es)
    BY <1>3, <2>1, UpToIs
  <2> QED BY <2>2
<1> QED BY <1>1, <1>4, <1>5

\* A page is a level above its children, so the way down ends at a leaf.  It stays
\* where it is if every step does.
LEMMA WayDown ==
    ASSUME TreeInv, NEW k, NEW S \in SUBSET (1..Len(pages)), root \in S,
           \A p \in S : ~pages[p].leaf => Child(p, k) \in S
    PROVE  FindLeaf(k) \in S /\ pages[FindLeaf(k)].leaf
<1> DEFINE K == Len(pages)
           Down(p) == IF pages[p].leaf THEN p ELSE Child(p, k)
           F == [p \in S |-> Down(p)]
           from(d, n) == IF n = 0 THEN root ELSE Down(d[n - 1])
<1>1. pages \in Seq(Node) /\ root \in S /\ K \in Nat
  BY WholeIs DEF TreeInv, RootOK
<1>2. PICK lev : Levels(pages, lev)
  BY WholeIs DEF TreeInv
<1>3. \A p \in S : lev[p] \in 0..(K - 1) /\ (pages[p].leaf <=> lev[p] = 0)
  BY <1>2 DEF Levels
<1>4. \A p \in S : ~pages[p].leaf => Child(p, k) \in S /\ lev[Child(p, k)] + 1 = lev[p]
  BY <1>1, <1>2, ChildIs
<1> HIDE DEF K
<1>5. \A p \in S : Down(p) \in S
  BY <1>4
<1>6. F \in [S -> S]
  <2> HIDE DEF Down
  <2> QED BY <1>5
<1>7. PICK v \in [0..K -> S] : IsIterate(v, F, root, K)
  <2> HIDE DEF F
  <2> QED BY <1>1, <1>6, Iterated
<1> HIDE DEF Down
<1>8. v = [n \in 0..K |-> from(v, n)]
  <2>1. ASSUME NEW n \in 0..K PROVE v[n] = from(v, n)
    <3>1. CASE n = 0
      BY <1>7, <3>1 DEF IsIterate
    <3>2. CASE n # 0
      <4>1. n \in 1..K /\ n - 1 \in 0..K
        BY <1>1, <3>2
      <4>2. v[n] = F[v[n - 1]] /\ v[n - 1] \in S
        <5> HIDE DEF F
        <5> QED BY <1>7, <4>1 DEF IsIterate
      <4> QED BY <3>2, <4>2
    <3> QED BY <3>1, <3>2
  <2> HIDE DEF from
  <2> QED BY <1>7, <2>1
<1>9. \E d : d = [n \in 0..K |-> from(d, n)] /\ FindLeaf(k) = d[K]
  <2> DEFINE d == CHOOSE f : f = [n \in 0..K |-> from(f, n)]
  <2>1. d = [n \in 0..K |-> from(d, n)]
    <3> HIDE DEF from
    <3> QED BY <1>8
  <2>2. FindLeaf(k) = d[K]
    BY DEF FindLeaf, Down, K
  <2> HIDE DEF d, from
  <2> QED BY <2>1, <2>2
<1>10. PICK d : d = [n \in 0..K |-> from(d, n)] /\ FindLeaf(k) = d[K]
  BY <1>9
\* After n turns the page is a leaf, or that much lower.
<1> DEFINE There(n) == d[n] \in S /\ (pages[d[n]].leaf \/ lev[d[n]] + n < K)
           Bad == {n \in 0..K : ~There(n)}
<1>11. Bad = {}
  <2>1. SUFFICES ASSUME Bad # {} PROVE FALSE
    OBVIOUS
  <2>2. PICK n \in Bad : \A j \in Bad : n <= j
    <3>1. Bad \in SUBSET Nat
      OBVIOUS
    <3> HIDE DEF Bad
    <3> QED BY <2>1, <3>1, LeastOf
  <2>3. n \in 0..K /\ d[n] = from(d, n)
    <3>1. n \in 0..K
      OBVIOUS
    <3> HIDE DEF from, Bad
    <3> QED BY <1>10, <3>1
  <2>4. n # 0
    <3>1. ASSUME n = 0 PROVE There(n)
      <4>1. d[n] = root
        BY <2>3, <3>1
      <4>2. lev[root] \in 0..(K - 1) /\ lev[root] + 0 < K
        BY <1>1, <1>3
      <4> QED BY <1>1, <3>1, <4>1, <4>2
    <3> QED BY <2>2, <3>1
  <2>5. n - 1 \in 0..K /\ n - 1 \notin Bad
    <3>1. n \in 0..K /\ n - 1 \in 0..K /\ ~(n <= n - 1)
      BY <1>1, <2>3, <2>4
    <3> HIDE DEF Bad
    <3> QED BY <2>2, <3>1
  <2>6. There(n - 1)
    BY <2>5
  <2>7. PICK p \in S : p = d[n - 1]
    BY <2>6
  <2>8. d[n] = Down(p)
    BY <2>3, <2>4, <2>7
  <2>9. There(n)
    <3>1. CASE pages[p].leaf
      BY <2>8, <3>1 DEF Down
    <3>2. CASE ~pages[p].leaf
      <4>1. d[n] \in S /\ lev[d[n]] + 1 = lev[p]
        BY <1>4, <2>8, <3>2 DEF Down
      <4>2. lev[p] + (n - 1) < K
        BY <2>6, <2>7, <3>2
      <4>3. lev[p] \in Nat /\ lev[d[n]] \in Nat /\ n \in Nat
        <5>1. \A r \in S : lev[r] \in Nat
          BY <1>1, <1>3
        <5>2. d[n] \in S
          BY <4>1
        <5>3. lev[p] \in Nat /\ lev[d[n]] \in Nat
          BY ONLY <5>1, <5>2, p \in S, Zenon
        <5>4. n \in Nat
          BY <1>1, <2>3
        <5> QED BY <5>3, <5>4
      <4>4. PICK x, y, m \in Nat : x = lev[p] /\ y = lev[d[n]] /\ m = n
        BY ONLY <4>3
      <4>5. y + 1 = x /\ x + (m - 1) < K
        BY ONLY <4>1, <4>2, <4>4
      <4>6. y + m < K
        BY ONLY <4>5, <1>1, x \in Nat, y \in Nat, m \in Nat
      <4> QED BY ONLY <4>1, <4>4, <4>6
    <3> QED BY <3>1, <3>2
  <2> QED BY <2>2, <2>9
<1>12. There(K)
  <2>1. K \in 0..K
    BY <1>1
  <2> HIDE DEF There
  <2> QED BY <1>11, <2>1
<1>13. d[K] \in S /\ pages[d[K]].leaf
  <2>1. PICK p \in S : p = d[K]
    BY <1>12
  <2>2. pages[p].leaf \/ lev[p] + K < K
    BY <1>12, <2>1
  <2>3. lev[p] \in Nat
    BY <1>1, <1>3
  <2> QED BY <1>1, <2>1, <2>2, <2>3
<1> QED BY <1>10, <1>13 DEF K

LEMMA FindLeafIs ==
    ASSUME TreeInv, NEW k
    PROVE  FindLeaf(k) \in 1..Len(pages) /\ pages[FindLeaf(k)].leaf
<1>1. pages \in Seq(Node) /\ root \in 1..Len(pages)
  BY WholeIs DEF TreeInv, RootOK
<1>2. PICK lev : Levels(pages, lev)
  BY WholeIs DEF TreeInv
<1>3. \A p \in 1..Len(pages) : ~pages[p].leaf => Child(p, k) \in 1..Len(pages)
  BY <1>1, <1>2, ChildIs
<1> QED BY <1>1, <1>3, WayDown

\* The pages that are leaves.
Leaf == {p \in 1..Len(pages) : pages[p].leaf}

LEMMA RightIs ==
    ASSUME TreeInv, NEW p \in Leaf, pages[p].right # NoNode
    PROVE  pages[p].right \in Leaf
<1>1. PICK lev : Levels(pages, lev)
  BY WholeIs DEF TreeInv
<1>2. LeafOK(pages, p)
  BY <1>1 DEF Levels, Leaf
<1> QED BY <1>2 DEF LeafOK, Leaf

\* The leaves that a scan from p on has gone through after n steps, for every n.
Following(p, t) ==
    /\ t[0] = <<p>>
    /\ \A n \in 1..Len(pages) :
          t[n] = IF pages[Last(t[n - 1])].right = NoNode THEN t[n - 1]
                 ELSE Append(t[n - 1], pages[Last(t[n - 1])].right)

LEMMA ChainSteps ==
    ASSUME TreeInv, NEW p \in Leaf
    PROVE  \E t : Following(p, t) /\ Chain(p) = t[Len(pages)]
<1> DEFINE S == {c \in Seq(Leaf) : c # <<>>}
           K == Len(pages)
           On1(c) == IF pages[Last(c)].right = NoNode THEN c ELSE Append(c, pages[Last(c)].right)
           F == [c \in S |-> On1(c)]
           from(t, n) == IF n = 0 THEN <<p>> ELSE On1(t[n - 1])
<1>1. K \in Nat
  BY WholeIs DEF TreeInv
<1>2. <<p>> \in S
  OBVIOUS
<1>3. ASSUME NEW c \in S PROVE On1(c) \in S
  <2>1. CASE pages[Last(c)].right = NoNode
    BY <2>1
  <2>2. CASE pages[Last(c)].right # NoNode
    <3>1. Last(c) \in Leaf
      <4>1. Len(c) \in 1..Len(c) /\ c \in Seq(Leaf)
        OBVIOUS
      <4>2. c[Len(c)] \in Leaf
        BY <4>1
      <4> QED BY <4>2 DEF Last
    <3>2. PICK q \in Leaf : q = pages[Last(c)].right
      BY <2>2, <3>1, RightIs
    <3>3. Append(c, q) \in Seq(Leaf) /\ Append(c, q) # <<>>
      OBVIOUS
    <3> QED BY <2>2, <3>2, <3>3
  <2> QED BY <2>1, <2>2
<1> HIDE DEF On1, K, S
<1>4. F \in [S -> S]
  BY <1>3
<1>5. PICK v \in [0..K -> S] : IsIterate(v, F, <<p>>, K)
  <2> HIDE DEF F
  <2> QED BY <1>1, <1>2, <1>4, Iterated
<1>6. v = [n \in 0..K |-> from(v, n)]
  <2>1. ASSUME NEW n \in 0..K PROVE v[n] = from(v, n)
    <3>1. CASE n = 0
      BY <1>5, <3>1 DEF IsIterate
    <3>2. CASE n # 0
      <4>1. n \in 1..K /\ n - 1 \in 0..K
        BY <1>1, <3>2
      <4>2. v[n] = F[v[n - 1]] /\ v[n - 1] \in S
        <5> HIDE DEF F
        <5> QED BY <1>5, <4>1 DEF IsIterate
      <4> QED BY <3>2, <4>2
    <3> QED BY <3>1, <3>2
  <2> HIDE DEF from
  <2> QED BY <1>5, <2>1
<1>7. \E t : t = [n \in 0..K |-> from(t, n)] /\ Chain(p) = t[K]
  <2> DEFINE t == CHOOSE f : f = [n \in 0..K |-> from(f, n)]
  <2>1. t = [n \in 0..K |-> from(t, n)]
    <3> HIDE DEF from
    <3> QED BY <1>6
  <2>2. Chain(p) = t[K]
    BY DEF Chain, On1, K
  <2> HIDE DEF t, from
  <2> QED BY <2>1, <2>2
<1>8. PICK t : t = [n \in 0..K |-> from(t, n)] /\ Chain(p) = t[K]
  BY <1>7
<1>9. \A n \in 0..K : t[n] = from(t, n)
  <2> HIDE DEF from
  <2> QED BY <1>8
<1>10. t[0] = <<p>>
  <2>1. 0 \in 0..K
    BY <1>1
  <2> QED BY <1>9, <2>1
<1>11. ASSUME NEW n \in 1..K PROVE t[n] = On1(t[n - 1])
  <2>1. n \in 0..K /\ n # 0
    BY <1>1
  <2> QED BY <1>9, <2>1
<1> QED BY <1>8, <1>10, <1>11 DEF Following, On1, K

\* What following a right sibling keeps holds of the whole chain.
LEMMA ChainKeeps ==
    ASSUME TreeInv, NEW p \in Leaf, NEW S, <<p>> \in S,
           \A c \in S : pages[Last(c)].right # NoNode => Append(c, pages[Last(c)].right) \in S
    PROVE  Chain(p) \in S
<1>1. PICK K : K = Len(pages)
  OBVIOUS
<1>2. K \in Nat
  BY <1>1, WholeIs DEF TreeInv
<1>3. PICK t : Following(p, t) /\ Chain(p) = t[K]
  BY <1>1, ChainSteps
<1> DEFINE G == {n \in 0..K : t[n] \in S}
<1>4. 0 \in G
  BY <1>2, <1>3 DEF Following
<1>5. ASSUME NEW n \in 1..K, n - 1 \in G PROVE n \in G
  <2>1. t[n - 1] \in S
    BY <1>5
  <2>2. t[n] \in S
    BY <1>1, <1>3, <2>1 DEF Following
  <2> QED BY <1>2, <2>2
<1>6. K \in G
  <2>1. K \in 0..K
    BY <1>2
  <2> HIDE DEF G
  <2> QED BY <1>2, <1>4, <1>5, <2>1, StepByStep
<1> QED BY <1>3, <1>6

LEMMA ChainIs ==
    ASSUME TreeInv, NEW p \in Leaf
    PROVE  Chain(p) \in Seq(Leaf) /\ Chain(p) # <<>>
<1> DEFINE S == {c \in Seq(Leaf) : c # <<>>}
<1>1. <<p>> \in S
  OBVIOUS
<1>2. ASSUME NEW c \in S, pages[Last(c)].right # NoNode
      PROVE  Append(c, pages[Last(c)].right) \in S
  <2>1. Last(c) \in Leaf
    <3>1. Len(c) \in 1..Len(c) /\ c \in Seq(Leaf)
      OBVIOUS
    <3>2. c[Len(c)] \in Leaf
      BY <3>1
    <3> QED BY <3>2 DEF Last
  <2>2. PICK q \in Leaf : q = pages[Last(c)].right
    BY <1>2, <2>1, RightIs
  <2>3. Append(c, q) \in Seq(Leaf) /\ Append(c, q) # <<>>
    OBVIOUS
  <2> QED BY <2>2, <2>3
<1> HIDE DEF S
<1>3. Chain(p) \in S
  BY <1>1, <1>2, ChainKeeps
<1> QED BY <1>3 DEF S

LEMMA ReachIs ==
    ASSUME TreeInv, NEW k
    PROVE  Reach(k) \in Seq(Leaf)
<1> DEFINE chain == Chain(FindLeaf(k))
           stop  == {i \in DOMAIN chain : \E j \in DOMAIN pages[chain[i]].entries :
                                             pages[chain[i]].entries[j][1] > k}
<1>1. FindLeaf(k) \in Leaf
  BY FindLeafIs DEF Leaf
<1>2. chain \in Seq(Leaf)
  BY <1>1, ChainIs
<1>3. Reach(k) = IF stop = {} THEN chain ELSE SubSeq(chain, 1, Min(stop))
  BY DEF Reach
<1> HIDE DEF chain
<1>4. DOMAIN chain = 1..Len(chain) /\ Len(chain) \in Nat
  BY <1>2
<1>5. stop \in SUBSET Nat /\ stop \subseteq 1..Len(chain)
  BY <1>4
<1> HIDE DEF stop
<1>6. CASE stop = {}
  BY <1>2, <1>3, <1>6
<1>7. CASE stop # {}
  <2>1. PICK m : m = Min(stop)
    OBVIOUS
  <2>2. m \in 1..Len(chain)
    BY <1>5, <1>7, <2>1, MinIs
  <2>3. SubSeq(chain, 1, m) \in Seq(Leaf)
    BY <1>2, <2>2
  <2> QED BY <1>3, <1>7, <2>1, <2>3
<1> QED BY <1>6, <1>7

-----------------------------------------------------------------------------
(* The steps. *)

LEMMA EntriesNow == TreeInv => Entries = On(pages)
  BY EntriesAre, WholeIs DEF TreeInv

LEMMA EntriesNext == TreeInv' => (Entries = On(pages))'
  BY EntriesNow, PTL

LEMMA WholeOf ==
    ASSUME NEW t, NEW E, TreeOf(t, E)
    PROVE  Whole(t.pages, t.root) /\ On(t.pages) = E
<1>1. t.pages \in Seq(Node) /\ RootOK(t.pages, t.root) /\ Once(t.pages) /\ On(t.pages) = E
  BY DEF TreeOf, Growing
<1>2. \E lev : Levels(t.pages, lev)
  BY DEF TreeOf, Standing
<1> QED BY <1>1, <1>2, WholeIs

LEMMA InitTree == TreeInit => TreeInv /\ Entries = {}
<1> SUFFICES ASSUME TreeInit PROVE TreeInv /\ Entries = {}
  OBVIOUS
<1> DEFINE node == [leaf |-> TRUE, root |-> TRUE, entries |-> <<>>, right |-> NoNode, parent |-> NoNode]
           lev  == [p \in 1..1 |-> 0]
<1>1. pages = <<node>> /\ root = 1
  BY DEF TreeInit
<1>2. node \in Node /\ node.leaf /\ node.root /\ Len(node.entries) = 0 /\ node.right = NoNode
  BY DEF Node, NoNode
<1> HIDE DEF node
<1>3. pages \in Seq(Node) /\ Len(pages) = 1 /\ pages[1] = node
  BY <1>1, <1>2
<1>4. \A p \in 1..1 : p = 1
  OBVIOUS
<1>5. Levels(pages, lev)
  <2>1. LeafOK(pages, 1)
    BY <1>2, <1>3 DEF LeafOK
  <2>2. ParentOK(pages, lev, 1)
    BY <1>2, <1>3 DEF ParentOK
  <2> QED BY <1>2, <1>3, <1>4, <2>1, <2>2 DEF Levels
<1>6. RootOK(pages, root)
  BY <1>1, <1>2, <1>3, <1>4 DEF RootOK
<1>7. ASSUME NEW s \in Spots(pages) PROVE FALSE
  <2>1. PICK p \in 1..Len(pages), i \in Nat : i \in 1..Len(pages[p].entries)
    BY SpotIs
  <2>2. Len(pages[p].entries) = 0
    BY <1>2, <1>3, <1>4
  <2> QED BY <2>1, <2>2
<1>8. Once(pages) /\ On(pages) = {}
  BY <1>7 DEF Once, On
<1>9. TreeInv
  BY <1>3, <1>5, <1>6, <1>8, WholeIs DEF TreeInv
<1> QED BY <1>8, <1>9, EntriesNow

LEMMA InsertEntrySteps ==
    ASSUME TreeInv, NEW k \in IndexKey, NEW c \in RowId, InsertEntry(k, c)
    PROVE  TreeInv' /\ Entries' = Entries \cup {<<k, c>>}
<1> DEFINE e == <<k, c>>
           b == With(Tree(pages, root), FindLeaf(k), e, MaxLeafKeys)
<1>1. e \notin On(pages) /\ e \in IndexKey \X RowId
  BY EntriesNow DEF InsertEntry
<1>2. pages' = Climbed(b).pages /\ root' = Climbed(b).root
  BY DEF InsertEntry
<1>3. TreeOf(Tree(pages, root), On(pages)) /\ Tree(pages, root).pages = pages
  BY DEF TreeInv, Whole, Tree
<1>4. FindLeaf(k) \in 1..Len(pages) /\ pages[FindLeaf(k)].leaf
  BY FindLeafIs
<1>5. TreeOf(b, On(pages) \cup {e})
  <2>1. PICK t : t = Tree(pages, root)
    OBVIOUS
  <2>2. PICK p : p = FindLeaf(k)
    OBVIOUS
  <2>3. TreeOf(t, On(pages)) /\ p \in 1..Len(t.pages) /\ t.pages[p].leaf
    BY <1>3, <1>4, <2>1, <2>2
  <2> HIDE DEF e
  <2>4. TreeOf(With(t, p, e, MaxLeafKeys), On(pages) \cup {e})
    BY <1>1, <2>3, LeafGrows
  <2> QED BY <2>1, <2>2, <2>4
<1> HIDE DEF b
<1>6. Len(pages) \in Nat
  BY WholeIs DEF TreeInv
<1>7. TreeOf(Climbed(b), On(pages) \cup {e})
  BY <1>5, <1>6, ClimbedIs
<1>8. PICK t : t = Climbed(b)
  OBVIOUS
<1>9. Whole(t.pages, t.root) /\ On(t.pages) = On(pages) \cup {e}
  BY <1>7, <1>8, WholeOf
<1>10. TreeInv'
  BY <1>2, <1>8, <1>9 DEF TreeInv
<1>11. Entries' = On(pages')
  BY <1>10, EntriesNext
<1> QED BY <1>2, <1>8, <1>9, <1>10, <1>11, EntriesNow

\* A removal takes one entry off a leaf.
LEMMA RemovedIs ==
    ASSUME TreeInv, NEW k \in IndexKey, NEW c \in RowId, RemoveEntry(k, c)
    PROVE  /\ root' = root
           /\ \E p \in Leaf, m \in Nat :
                 /\ m \in 1..Len(pages[p].entries) /\ pages[p].entries[m] = <<k, c>>
                 /\ pages' = Put(pages, p, RemoveAt(pages[p].entries, m))
<1> DEFINE e     == <<k, c>>
           at(q) == {i \in DOMAIN pages[q].entries : pages[q].entries[i] = e}
<1>1. PICK n \in DOMAIN Reach(k) :
        LET p == Reach(k)[n] IN
        at(p) # {} /\ pages' = [pages EXCEPT ![p].entries = RemoveAt(@, Min(at(p)))]
  BY DEF RemoveEntry
<1>2. PICK p : p = Reach(k)[n]
  OBVIOUS
<1>3. p \in Leaf
  <2>1. Reach(k) \in Seq(Leaf)
    BY ReachIs
  <2> QED BY <1>2, <2>1
<1>4. pages \in Seq(Node) /\ p \in 1..Len(pages)
  BY <1>3, WholeIs DEF TreeInv, Leaf
<1>5. pages[p] \in Node
  BY <1>4
<1>6. pages[p].entries \in Seq(Pair)
  BY <1>5 DEF Node
<1>7. PICK m : m = Min(at(p))
  OBVIOUS
<1>8. m \in 1..Len(pages[p].entries) /\ pages[p].entries[m] = e
  <2>1. at(p) \in SUBSET Nat /\ at(p) # {}
    BY <1>1, <1>2, <1>6
  <2>2. m \in at(p)
    <3> HIDE DEF at
    <3> QED BY <1>7, <2>1, MinIs
  <2> QED BY <1>6, <2>2
<1>9. pages' = Put(pages, p, RemoveAt(pages[p].entries, m))
  <2> HIDE DEF at
  <2> QED BY <1>1, <1>2, <1>7 DEF Put
<1>10. root' = root
  BY DEF RemoveEntry
<1>11. m \in Nat
  BY <1>8
<1> QED BY <1>3, <1>8, <1>9, <1>10, <1>11

LEMMA RemoveEntrySteps ==
    ASSUME TreeInv, NEW k \in IndexKey, NEW c \in RowId, RemoveEntry(k, c)
    PROVE  TreeInv' /\ \E e \in Entries : Entries' = Entries \ {e}
<1> DEFINE e == <<k, c>>
<1>1. PICK p \in Leaf, m \in Nat :
        /\ m \in 1..Len(pages[p].entries) /\ pages[p].entries[m] = e
        /\ pages' = Put(pages, p, RemoveAt(pages[p].entries, m))
  BY RemovedIs
<1>2. /\ pages \in Seq(Node) /\ RootOK(pages, root) /\ Once(pages)
      /\ p \in 1..Len(pages) /\ pages[p].leaf
  BY WholeIs DEF TreeInv, Leaf
<1>3. PICK lev : Levels(pages, lev)
  BY WholeIs DEF TreeInv
<1>4. pages[p] \in Node
  BY <1>2
<1>5. pages[p].entries \in Seq(Pair)
  BY <1>4 DEF Node
<1>6. PICK old : old = pages[p].entries
  OBVIOUS
<1>7. m \in 1..Len(old) /\ old[m] = e
  BY <1>1, <1>6
<1> HIDE DEF e
<1>8. PICK es : es = RemoveAt(old, m)
  OBVIOUS
<1>9. old \in Seq(Pair)
  BY <1>5, <1>6
<1>10. es \in Seq(Pair) /\ Len(es) = Len(old) - 1
       /\ \A i \in 1..(Len(old) - 1) : es[i] = IF i < m THEN old[i] ELSE old[i + 1]
  <2>1. /\ RemoveAt(old, m) \in Seq(Pair) /\ Len(RemoveAt(old, m)) = Len(old) - 1
        /\ \A i \in 1..(Len(old) - 1) :
              RemoveAt(old, m)[i] = IF i < m THEN old[i] ELSE old[i + 1]
    BY <1>7, <1>9, RemoveAtIs
  <2> QED BY <1>8, <2>1
<1>11. pages' = Put(pages, p, es)
  BY <1>1, <1>6, <1>8
<1>12. root' = root
  BY RemovedIs
<1>13. \A i \in 1..Len(es) : es[i] \in IndexKey \X RowId
  <2>1. \A i \in 1..Len(old) : old[i] \in IndexKey \X RowId
    BY <1>2, <1>3, <1>6 DEF Levels, LeafOK
  <2>2. ASSUME NEW i \in 1..Len(es) PROVE es[i] \in IndexKey \X RowId
    <3>1. Len(old) \in Nat /\ i \in 1..(Len(old) - 1)
      BY <1>9, <1>10
    <3>2. i \in 1..Len(old) /\ i + 1 \in 1..Len(old)
      BY <3>1
    <3> QED BY <1>10, <2>1, <3>1, <3>2
  <2> QED BY <2>2
<1>14. Levels(Put(pages, p, es), lev)
  <2>1. FitsIn(pages, lev, p, es)
    BY <1>2, <1>13 DEF FitsIn
  <2> QED BY <1>2, <1>3, <1>10, <2>1, PutLevels
<1>15. On(Put(pages, p, es)) = On(pages) \ {e} /\ Once(Put(pages, p, es))
  <2>1. m \in 1..Len(pages[p].entries)
    BY <1>6, <1>7
  <2> QED BY <1>2, <1>6, <1>7, <1>8, <2>1, RemoveOn
<1>16. PICK qs : qs = Put(pages, p, es)
  OBVIOUS
<1>17. qs \in Seq(Node) /\ RootOK(qs, root)
  <2>1. /\ qs \in Seq(Node) /\ Len(qs) = Len(pages)
        /\ \A q \in 1..Len(pages) : qs[q].root = pages[q].root
    BY <1>2, <1>10, <1>16, PutIs
  <2> QED BY <1>2, <2>1 DEF RootOK
<1>18. Whole(qs, root)
  BY <1>14, <1>15, <1>16, <1>17, WholeIs
<1>19. TreeInv'
  BY <1>11, <1>12, <1>16, <1>18 DEF TreeInv
<1>20. Entries' = On(pages')
  BY <1>19, EntriesNext
<1>21. e \in On(pages)
  <2>1. <<p, m>> \in Spots(pages)
    BY <1>2, <1>6, <1>7, <1>9, SpotIs
  <2>2. At(pages, <<p, m>>) = e
    BY <1>6, <1>7 DEF At
  <2> QED BY <2>1, <2>2 DEF On
<1> QED BY <1>11, <1>15, <1>19, <1>20, <1>21, EntriesNow

LEMMA ReopenSteps ==
    ASSUME TreeInv, Reopen
    PROVE  TreeInv' /\ Entries' = Entries
<1>1. pages \in Seq(Node) /\ RootOK(pages, root)
  BY WholeIs DEF TreeInv
<1>2. {p \in DOMAIN pages : pages[p].root} = {root} /\ root \in Nat
  BY <1>1 DEF RootOK
<1>3. Min({root}) \in {root}
  BY <1>2, MinIs
<1>4. root' = root /\ pages' = pages
  BY <1>2, <1>3 DEF Reopen
<1> QED BY <1>4 DEF TreeInv, Entries

LEMMA NextTree ==
    TreeInv /\ [TreeNext]_treeVars =>
        TreeInv' /\ [Listing!InsertEntry \/ Listing!RemoveEntry]_Entries
<1> SUFFICES ASSUME TreeInv, [TreeNext]_treeVars
             PROVE  TreeInv' /\ [Listing!InsertEntry \/ Listing!RemoveEntry]_Entries
  OBVIOUS
<1>1. ASSUME NEW k \in IndexKey, NEW c \in RowId, InsertEntry(k, c)
      PROVE  TreeInv' /\ Listing!InsertEntry
  <2>1. TreeInv' /\ Entries' = Entries \cup {<<k, c>>}
    BY <1>1, InsertEntrySteps
  <2>2. <<k, c>> \in IndexKey \X RowId
    OBVIOUS
  <2> QED BY <2>1, <2>2 DEF Listing!InsertEntry
<1>2. ASSUME NEW k \in IndexKey, NEW c \in RowId, RemoveEntry(k, c)
      PROVE  TreeInv' /\ Listing!RemoveEntry
  <2>1. TreeInv' /\ \E e \in Entries : Entries' = Entries \ {e}
    BY <1>2, RemoveEntrySteps
  <2> QED BY <2>1 DEF Listing!RemoveEntry
<1>3. ASSUME Reopen PROVE TreeInv' /\ Entries' = Entries
  BY <1>3, ReopenSteps
<1>4. ASSUME UNCHANGED treeVars PROVE TreeInv' /\ Entries' = Entries
  <2>1. pages' = pages /\ root' = root
    BY <1>4 DEF treeVars
  <2> QED BY <2>1 DEF TreeInv, Entries
<1> QED BY <1>1, <1>2, <1>3, <1>4 DEF TreeNext

\* The B-tree of disk_btree.cpp is an index as index.h has it: whatever splits on
\* the way up, whichever parents are stale, and whatever leaf a run of one key is
\* cut on, an insertion adds the one entry, a removal takes the one entry, and no
\* other entry is lost, moved off the leaves or doubled.
THEOREM TreeImplementsIndex == TreeSpec => ImplementsIndex
<1>1. TreeInit => TreeInv /\ Entries = {}
  BY InitTree
<1>2. TreeInv /\ [TreeNext]_treeVars =>
        TreeInv' /\ [Listing!InsertEntry \/ Listing!RemoveEntry]_Entries
  BY NextTree
<1> QED BY <1>1, <1>2, PTL DEF TreeSpec, ImplementsIndex, Listing!IndexSpec

-----------------------------------------------------------------------------
(* Keys between fences. *)

\* h = 0 bounds nothing.
Under(k, h) == h = 0 \/ k < h

Rising(es) == \A i, j \in 1..Len(es) : i < j => es[i][1] < es[j][1]

\* The entries of leaf p are in order and between its fences, the upper of which is
\* the lower one of the next leaf.
LeafIn(node, lo, l, h) ==
    /\ \A i, j \in 1..Len(node.entries) : i < j => node.entries[i][1] <= node.entries[j][1]
    /\ \A i \in 1..Len(node.entries) : l <= node.entries[i][1] /\ Under(node.entries[i][1], h)
    /\ node.right = NoNode <=> h = 0
    /\ node.right # NoNode => lo[node.right] = h

\* The children of es share out what is between l and h.
KidsIn(es, lo, hi, l, h) ==
    /\ Len(es) > 0 /\ es[1][1] = l
    /\ Rising(es)
    /\ \A i \in 1..Len(es) :
          /\ lo[es[i][2]] = es[i][1]
          /\ hi[es[i][2]] = IF i = Len(es) THEN h ELSE es[i + 1][1]

LEMMA KeysAre ==
    ASSUME NEW es \in Seq(Pair)
    PROVE  Len(es) \in Nat /\ \A i \in 1..Len(es) : es[i] \in Pair /\ es[i][1] \in Nat
<1>1. \A i \in 1..Len(es) : es[i] \in Pair
  OBVIOUS
<1>2. \A e \in Pair : e[1] \in Nat
  BY DEF Pair
<1> QED BY <1>1, <1>2

\* UpTo counts the entries that are not past k.
LEMMA PlaceIs ==
    ASSUME NEW es \in Seq(Pair), NEW k \in Nat, NEW n \in 1..(Len(es) + 1)
    PROVE  /\ UpTo(es, k, n) \in (n - 1)..Len(es)
           /\ \A i \in n..UpTo(es, k, n) : es[i][1] <= k
           /\ UpTo(es, k, n) < Len(es) => es[UpTo(es, k, n) + 1][1] > k
<1> DEFINE past == {i \in n..Len(es) : es[i][1] > k}
           m    == UpTo(es, k, n)
<1>1. m = IF past = {} THEN Len(es) ELSE Min(past) - 1
  BY DEF UpTo
<1>2. m \in (n - 1)..Len(es) /\ n \in Nat /\ Len(es) \in Nat
  BY UpToIs
<1>3. past \in SUBSET Nat
  BY <1>2
<1>4. past # {} => Min(past) \in past /\ \A i \in past : Min(past) <= i
  <2> HIDE DEF past
  <2> QED BY <1>3, MinIs
<1> HIDE DEF m
<1>5. CASE past = {}
  <2>1. \A i \in n..Len(es) : ~(es[i][1] > k)
    BY <1>5
  <2>2. \A i \in n..Len(es) : es[i][1] \in Nat
    BY <1>2, KeysAre
  <2>3. m = Len(es)
    BY <1>1, <1>5
  <2>4. \A i \in n..m : es[i][1] <= k
    BY <2>1, <2>2, <2>3
  <2> QED BY <1>2, <2>3, <2>4 DEF m
<1>6. CASE past # {}
  <2>1. m + 1 \in past /\ \A i \in past : m + 1 <= i
    <3> HIDE DEF past
    <3>1. PICK x \in Nat : x = Min(past)
      BY <1>3, <1>4, <1>6
    <3>2. m = x - 1
      BY <1>1, <1>6, <3>1
    <3>3. m + 1 = x
      BY <3>1, <3>2
    <3> QED BY <1>4, <1>6, <3>1, <3>3
  <2>2. es[m + 1][1] > k
    BY <2>1
  <2>3. ASSUME NEW i \in n..m PROVE es[i][1] <= k
    <3>1. i \in n..Len(es) /\ ~(m + 1 <= i) /\ i \in 1..Len(es)
      BY <1>2
    <3>2. i \notin past
      BY <2>1, <3>1
    <3>3. es[i][1] \in Nat
      BY <3>1, KeysAre
    <3> QED BY <3>1, <3>2, <3>3
  <2> QED BY <1>2, <2>2, <2>3 DEF m
<1> QED BY <1>5, <1>6

\* Where a new separator goes: behind the last that is not above it.
LEMMA PlaceOfKid ==
    ASSUME NEW es \in Seq(Pair), Rising(es), NEW k \in Nat, NEW i \in 1..Len(es),
           es[i][1] < k, i < Len(es) => k < es[i + 1][1]
    PROVE  UpTo(es, k, 1) = i
<1>1. PICK m : m = UpTo(es, k, 1)
  OBVIOUS
<1>2. Len(es) \in Nat /\ \A j \in 1..Len(es) : es[j][1] \in Nat
  BY KeysAre
<1>3. m \in 0..Len(es) /\ (\A j \in 1..m : es[j][1] <= k) /\ (m < Len(es) => es[m + 1][1] > k)
  <2>1. 1 \in 1..(Len(es) + 1)
    BY <1>2
  <2>2. UpTo(es, k, 1) \in (1 - 1)..Len(es)
        /\ (\A j \in 1..UpTo(es, k, 1) : es[j][1] <= k)
        /\ (UpTo(es, k, 1) < Len(es) => es[UpTo(es, k, 1) + 1][1] > k)
    BY ONLY <2>1, PlaceIs, es \in Seq(Pair), k \in Nat
  <2> QED BY <1>1, <2>2
<1>4. ASSUME m < i PROVE FALSE
  <2>1. m + 1 \in 1..Len(es) /\ es[m + 1][1] > k
    BY <1>2, <1>3, <1>4
  <2>2. m + 1 = i \/ es[m + 1][1] < es[i][1]
    BY <1>2, <1>3, <1>4, <2>1 DEF Rising
  <2> QED BY <1>2, <2>1, <2>2
<1>5. ASSUME i < m PROVE FALSE
  <2>1. i + 1 \in 1..m /\ i + 1 \in 1..Len(es) /\ i < Len(es)
    BY <1>2, <1>3, <1>5
  <2>2. es[i + 1][1] <= k
    BY <1>3, <2>1
  <2> QED BY <1>2, <2>1, <2>2
<1> QED BY <1>1, <1>2, <1>3, <1>4, <1>5

\* Every child begins and ends between the fences.
LEMMA KidsWithin ==
    ASSUME NEW es \in Seq(Pair), NEW lo, NEW hi, NEW l \in Nat, NEW h \in Nat, KidsIn(es, lo, hi, l, h),
           \A i \in 1..Len(es) : Under(lo[es[i][2]], hi[es[i][2]])
    PROVE  /\ \A i \in 1..Len(es) : l <= es[i][1] /\ Under(es[i][1], h)
           /\ \A i \in 2..Len(es) : l < es[i][1]
<1>1. Len(es) \in Nat /\ \A i \in 1..Len(es) : es[i][1] \in Nat
  BY KeysAre
<1>2. Len(es) > 0 /\ es[1][1] = l /\ Rising(es)
  BY DEF KidsIn
<1>3. \A i \in 2..Len(es) : l < es[i][1]
  BY <1>1, <1>2 DEF Rising
<1>4. Under(es[Len(es)][1], h)
  <2>1. Len(es) \in 1..Len(es)
    BY <1>1, <1>2
  <2>2. lo[es[Len(es)][2]] = es[Len(es)][1] /\ hi[es[Len(es)][2]] = h
    BY <2>1 DEF KidsIn
  <2> QED BY <2>1, <2>2
<1>5. ASSUME NEW i \in 1..Len(es) PROVE Under(es[i][1], h)
  <2>1. i = Len(es) \/ es[i][1] < es[Len(es)][1]
    BY <1>1, <1>2 DEF Rising
  <2>2. Len(es) \in 1..Len(es)
    BY <1>1, <1>2
  <2> QED BY <1>1, <1>4, <2>1, <2>2 DEF Under
<1>6. ASSUME NEW i \in 1..Len(es) PROVE l <= es[i][1]
  BY <1>1, <1>2, <1>3
<1> QED BY <1>3, <1>5, <1>6

\* The fences once page p of n pages has been split at key.
Moved(n, p, key, lo, hi, lo2, hi2) ==
    /\ \A q \in 1..n : lo2[q] = lo[q] /\ (q # p => hi2[q] = hi[q])
    /\ lo2[n + 1] = key /\ hi2[p] = key /\ hi2[n + 1] = hi[p]

\* One page has a page for a child in one place.
LEMMA OnceAChild ==
    ASSUME NEW es \in Seq(Pair), NEW lo, NEW hi, NEW l, NEW h, KidsIn(es, lo, hi, l, h),
           NEW i \in 1..Len(es), NEW j \in 1..Len(es), es[i][2] = es[j][2]
    PROVE  i = j
<1>1. es[i][1] = es[j][1]
  BY DEF KidsIn
<1>2. es[i][1] \in Nat /\ Len(es) \in Nat
  BY KeysAre
<1>3. ~(i < j) /\ ~(j < i)
  BY <1>1, <1>2 DEF KidsIn, Rising
<1> QED BY <1>2, <1>3

\* The entries around a new one.
\* ds is es with e behind its first i entries.
Inserted(es, i, e, ds) ==
    /\ ds \in Seq(Pair) /\ Len(ds) = Len(es) + 1
    /\ \A j \in 1..i : ds[j] = es[j]
    /\ ds[i + 1] = e
    /\ \A j \in (i + 1)..Len(es) : ds[j + 1] = es[j]
    /\ \A j \in 1..(Len(es) + 1) : j \in 1..i \/ j = i + 1 \/ \E m \in (i + 1)..Len(es) : j = m + 1

LEMMA InsertedAre ==
    ASSUME NEW es \in Seq(Pair), NEW i \in 0..Len(es), NEW e \in Pair
    PROVE  Inserted(es, i, e, InsertAt(es, i + 1, e))
<1>1. Len(es) \in Nat /\ i \in Nat /\ i + 1 \in 1..(Len(es) + 1)
  OBVIOUS
<1>2. PICK ds : ds = InsertAt(es, i + 1, e)
  OBVIOUS
<1>3. /\ ds \in Seq(Pair) /\ Len(ds) = Len(es) + 1
      /\ \A j \in 1..(Len(es) + 1) : ds[j] = IF j < i + 1 THEN es[j] ELSE IF j = i + 1 THEN e ELSE es[j - 1]
  <2>1. /\ InsertAt(es, i + 1, e) \in Seq(Pair) /\ Len(InsertAt(es, i + 1, e)) = Len(es) + 1
        /\ \A j \in 1..(Len(es) + 1) :
              InsertAt(es, i + 1, e)[j] = IF j < i + 1 THEN es[j] ELSE IF j = i + 1 THEN e ELSE es[j - 1]
    BY <1>1, InsertAtIs
  <2> QED BY <1>2, <2>1
<1>4. /\ \A j \in 1..i : ds[j] = es[j]
      /\ ds[i + 1] = e
      /\ \A j \in (i + 1)..Len(es) : ds[j + 1] = es[j]
  BY <1>1, <1>3
<1>5. \A j \in 1..(Len(es) + 1) : j \in 1..i \/ j = i + 1 \/ \E m \in (i + 1)..Len(es) : j = m + 1
  <2>1. ASSUME NEW j \in 1..(Len(es) + 1), ~(j \in 1..i), j # i + 1
        PROVE  \E m \in (i + 1)..Len(es) : j = m + 1
    <3>1. j - 1 \in (i + 1)..Len(es) /\ j = (j - 1) + 1
      BY <1>1, <2>1
    <3> QED BY <3>1
  <2> QED BY <2>1
<1>6. Inserted(es, i, e, ds)
  BY ONLY <1>3, <1>4, <1>5, Zenon DEF Inserted
<1> QED BY <1>2, <1>6

\* The i-th of the children es is split at key, the upper half to page n + 1.
NewKid(es, i, n, key, lo, hi, lo2, hi2, h) ==
    /\ \A j \in 1..Len(es) : es[j][2] \in 1..n
    /\ es[i][1] < key /\ Under(key, hi[es[i][2]])
    /\ i = Len(es) => Under(key, h)
    /\ i < Len(es) => hi[es[i][2]] # 0
    /\ n + 1 \in Nat /\ <<key, n + 1>> \in Pair
    /\ Moved(n, es[i][2], key, lo, hi, lo2, hi2)

\* The new half among the children, in its place.
LEMMA KidsInserted ==
    ASSUME NEW es \in Seq(Pair), NEW lo, NEW hi, NEW lo2, NEW hi2, NEW l, NEW h, KidsIn(es, lo, hi, l, h),
           NEW n \in Nat, NEW i \in 1..Len(es), NEW key \in Nat,
           NewKid(es, i, n, key, lo, hi, lo2, hi2, h)
    PROVE  /\ UpTo(es, key, 1) = i
           /\ KidsIn(InsertAt(es, UpTo(es, key, 1) + 1, <<key, n + 1>>), lo2, hi2, l, h)
<1> /\ \A j \in 1..Len(es) : es[j][2] \in 1..n
    /\ es[i][1] < key /\ Under(key, hi[es[i][2]])
    /\ i = Len(es) => Under(key, h)
    /\ i < Len(es) => hi[es[i][2]] # 0
    /\ n + 1 \in Nat /\ <<key, n + 1>> \in Pair
    /\ Moved(n, es[i][2], key, lo, hi, lo2, hi2)
  BY DEF NewKid
<1>1. Len(es) \in Nat /\ \A j \in 1..Len(es) : es[j][1] \in Nat
  BY KeysAre
<1>2. /\ Rising(es) /\ es[1][1] = l
      /\ \A j \in 1..Len(es) : /\ lo[es[j][2]] = es[j][1]
                               /\ hi[es[j][2]] = IF j = Len(es) THEN h ELSE es[j + 1][1]
  BY DEF KidsIn
<1>3. i < Len(es) => key < es[i + 1][1]
  BY <1>1, <1>2 DEF Under
<1>4. UpTo(es, key, 1) = i
  BY <1>2, <1>3, PlaceOfKid
<1>5. PICK e \in Pair : e = <<key, n + 1>> /\ e[1] = key /\ e[2] = n + 1
  OBVIOUS
<1>6. PICK ds : ds = InsertAt(es, i + 1, e) /\ Inserted(es, i, e, ds)
  <2>1. i \in 0..Len(es)
    BY <1>1
  <2>2. Inserted(es, i, e, InsertAt(es, i + 1, e))
    BY ONLY <2>1, es \in Seq(Pair), e \in Pair, InsertedAre
  <2> QED BY ONLY <2>2
<1>7. Len(ds) = Len(es) + 1
  BY ONLY <1>6, Zenon DEF Inserted
<1>8. /\ \A j \in 1..i : ds[j] = es[j]
      /\ ds[i + 1] = e
      /\ \A j \in (i + 1)..Len(es) : ds[j + 1] = es[j]
  BY ONLY <1>6, Zenon DEF Inserted
<1>9. \A j \in 1..(Len(es) + 1) : j \in 1..i \/ j = i + 1 \/ \E m \in (i + 1)..Len(es) : j = m + 1
  BY ONLY <1>6, Zenon DEF Inserted
<1>10. Rising(ds)
  <2>1. ASSUME NEW j \in 1..i PROVE es[j][1] < key
    <3>1. j \in 1..Len(es) /\ (j = i \/ j < i)
      BY ONLY <1>1, i \in 1..Len(es), j \in 1..i
    <3>2. j = i \/ es[j][1] < es[i][1]
      BY ONLY <1>2, <3>1, i \in 1..Len(es) DEF Rising
    <3>3. PICK a, b \in Nat : a = es[j][1] /\ b = es[i][1]
      BY ONLY <1>1, <3>1, i \in 1..Len(es)
    <3>4. b < key /\ (a = b \/ a < b)
      BY <3>2, <3>3
    <3> QED BY ONLY <3>3, <3>4, a \in Nat, b \in Nat, key \in Nat
  <2>2. \A j \in (i + 1)..Len(es) : key < es[j][1]
    <3>1. ASSUME NEW j \in (i + 1)..Len(es) PROVE key < es[j][1]
      <4>1. i < Len(es) /\ i + 1 \in 1..Len(es) /\ j \in 1..Len(es)
        BY <1>1
      <4>2. j = i + 1 \/ es[i + 1][1] < es[j][1]
        BY <1>1, <1>2, <4>1 DEF Rising
      <4> QED BY <1>1, <1>3, <4>1, <4>2
    <3> QED BY <3>1
  <2>3. ASSUME NEW a \in 1..Len(ds), NEW b \in 1..Len(ds), a < b
        PROVE  ds[a][1] < ds[b][1]
    <3>1. CASE a \in 1..i
      <4>1. CASE b \in 1..i
        <5>1. a \in 1..Len(es) /\ b \in 1..Len(es)
          BY <1>1, <3>1, <4>1
        <5>2. es[a][1] < es[b][1]
          BY <1>2, <2>3, <5>1 DEF Rising
        <5> QED BY <1>8, <3>1, <4>1, <5>2
      <4>2. CASE b = i + 1
        BY <1>5, <1>8, <2>1, <3>1, <4>2
      <4>3. ASSUME NEW m \in (i + 1)..Len(es), b = m + 1 PROVE ds[a][1] < ds[b][1]
        <5>1. a \in 1..Len(es) /\ m \in 1..Len(es) /\ a < m
          BY <1>1, <3>1, <4>3
        <5>2. es[a][1] < es[m][1]
          BY <1>2, <5>1 DEF Rising
        <5> QED BY <1>8, <3>1, <4>3, <5>2
      <4> QED BY <1>7, <1>9, <4>1, <4>2, <4>3
    <3>2. CASE a = i + 1
      <4>1. ~(b \in 1..i) /\ b # i + 1
        BY ONLY <1>1, <2>3, <3>2, i \in 1..Len(es), b \in 1..Len(ds)
      <4>2. PICK m \in (i + 1)..Len(es) : b = m + 1
        BY <1>7, <1>9, <4>1
      <4>3. ds[a] = e /\ ds[b] = es[m]
        BY ONLY <1>8, <3>2, <4>2
      <4> QED BY ONLY <1>5, <2>2, <4>2, <4>3
    <3>3. ASSUME NEW j \in (i + 1)..Len(es), a = j + 1 PROVE ds[a][1] < ds[b][1]
      <4>1. ~(b \in 1..i) /\ b # i + 1
        BY ONLY <1>1, <2>3, <3>3, i \in 1..Len(es), j \in (i + 1)..Len(es), b \in 1..Len(ds)
      <4>2. PICK m \in (i + 1)..Len(es) : b = m + 1
        BY <1>7, <1>9, <4>1
      <4>3. j \in 1..Len(es) /\ m \in 1..Len(es) /\ j < m
        BY ONLY <1>1, <2>3, <3>3, <4>2, i \in 1..Len(es), j \in (i + 1)..Len(es), m \in (i + 1)..Len(es)
      <4>4. es[j][1] < es[m][1]
        BY ONLY <1>2, <4>3 DEF Rising
      <4> QED BY <1>8, <3>3, <4>2, <4>4
    <3> QED BY <1>7, <1>9, <3>1, <3>2, <3>3
  <2> QED BY <2>3 DEF Rising
<1> DEFINE Right(j) == /\ lo2[ds[j][2]] = ds[j][1]
                       /\ hi2[ds[j][2]] = IF j = Len(ds) THEN h ELSE ds[j + 1][1]
<1>11. \A j \in 1..Len(es) : /\ lo2[es[j][2]] = es[j][1]
                             /\ j # i => hi2[es[j][2]] = IF j = Len(es) THEN h ELSE es[j + 1][1]
  <2>1. \A j \in 1..Len(es) : j # i => es[j][2] # es[i][2]
    BY OnceAChild
  <2>2. ASSUME NEW j \in 1..Len(es)
        PROVE  lo2[es[j][2]] = lo[es[j][2]] /\ (j # i => hi2[es[j][2]] = hi[es[j][2]])
    BY <2>1 DEF Moved
  <2> QED BY ONLY <1>2, <2>2
<1>12. ASSUME NEW j \in 1..i, j # i PROVE Right(j)
  <2>1. j + 1 \in 1..i /\ j \in 1..Len(es) /\ j # Len(es) /\ j # Len(es) + 1
    BY <1>1, <1>12
  <2> QED BY <1>7, <1>8, <1>11, <1>12, <2>1
<1>13. Right(i)
  <2>1. i # Len(es) + 1 /\ i \in 1..i
    BY <1>1
  <2>2. hi2[es[i][2]] = key /\ lo2[es[i][2]] = es[i][1]
    BY <1>11 DEF Moved
  <2> QED BY <1>5, <1>7, <1>8, <2>1, <2>2
<1>14. Right(i + 1)
  <2>1. lo2[n + 1] = key /\ hi2[n + 1] = IF i = Len(es) THEN h ELSE es[i + 1][1]
    BY <1>2 DEF Moved
  <2>2. CASE i = Len(es)
    BY <1>5, <1>7, <1>8, <2>1, <2>2
  <2>3. CASE i # Len(es)
    <3>1. i + 1 \in (i + 1)..Len(es) /\ i + 1 # Len(es) + 1
      BY <1>1, <2>3
    <3>2. ds[(i + 1) + 1] = es[i + 1]
      BY <1>8, <3>1
    <3> QED BY <1>5, <1>7, <1>8, <2>1, <2>3, <3>1, <3>2
  <2> QED BY <2>2, <2>3
<1>15. ASSUME NEW m \in (i + 1)..Len(es) PROVE Right(m + 1)
  <2>1. m \in 1..Len(es) /\ m # i /\ ds[m + 1] = es[m]
    BY <1>1, <1>8
  <2>2. CASE m = Len(es)
    BY <1>7, <1>11, <2>1, <2>2
  <2>3. CASE m # Len(es)
    <3>1. m + 1 \in (i + 1)..Len(es) /\ m + 1 # Len(es) + 1
      BY <1>1, <2>3
    <3>2. ds[(m + 1) + 1] = es[m + 1]
      BY <1>8, <3>1
    <3> QED BY <1>7, <1>11, <2>1, <2>3, <3>1, <3>2
  <2> QED BY <2>2, <2>3
<1>16. ASSUME NEW j \in 1..Len(ds) PROVE Right(j)
  <2> HIDE DEF Right
  <2>1. j \in 1..(Len(es) + 1)
    BY <1>7
  <2>2. CASE j \in 1..i
    BY <1>12, <1>13, <2>2
  <2>3. CASE j = i + 1
    BY <1>14, <2>3
  <2>4. ASSUME NEW m \in (i + 1)..Len(es), j = m + 1 PROVE Right(j)
    BY <1>15, <2>4
  <2> QED BY <1>9, <2>1, <2>2, <2>3, <2>4
<1>17. Len(ds) > 0 /\ ds[1][1] = l
  BY <1>1, <1>2, <1>7, <1>8
<1>18. KidsIn(ds, lo2, hi2, l, h)
  BY <1>10, <1>16, <1>17 DEF KidsIn
<1> QED BY <1>4, <1>5, <1>6, <1>18

\* The halves of an internal page.
LEMMA KidsHalved ==
    ASSUME NEW es \in Seq(Pair), NEW lo, NEW hi, NEW l, NEW h, KidsIn(es, lo, hi, l, h),
           NEW mid \in 1..(Len(es) - 1), NEW as \in Seq(Pair), NEW bs \in Seq(Pair),
           Len(as) = mid, \A i \in 1..mid : as[i] = es[i],
           Len(bs) = Len(es) - mid, \A i \in 1..(Len(es) - mid) : bs[i] = es[mid + i]
    PROVE  /\ KidsIn(as, lo, hi, l, es[mid + 1][1])
           /\ KidsIn(bs, lo, hi, es[mid + 1][1], h)
<1>1. Len(es) \in Nat /\ mid \in Nat /\ mid > 0 /\ mid < Len(es)
  BY KeysAre
<1>2. /\ Rising(es) /\ es[1][1] = l
      /\ \A j \in 1..Len(es) : /\ lo[es[j][2]] = es[j][1]
                               /\ hi[es[j][2]] = IF j = Len(es) THEN h ELSE es[j + 1][1]
  BY DEF KidsIn
<1>3. Rising(as)
  <2>1. ASSUME NEW i \in 1..Len(as), NEW j \in 1..Len(as), i < j PROVE as[i][1] < as[j][1]
    <3>1. i \in 1..mid /\ j \in 1..mid /\ i \in 1..Len(es) /\ j \in 1..Len(es)
      BY <1>1
    <3>2. es[i][1] < es[j][1]
      BY <1>2, <2>1, <3>1 DEF Rising
    <3> QED BY <3>1, <3>2
  <2> QED BY <2>1 DEF Rising
<1>4. ASSUME NEW i \in 1..Len(as)
      PROVE  lo[as[i][2]] = as[i][1] /\ hi[as[i][2]] = IF i = Len(as) THEN es[mid + 1][1] ELSE as[i + 1][1]
  <2>1. i \in 1..Len(es) /\ i # Len(es) /\ (i # Len(as) => i + 1 \in 1..mid)
    <3>1. PICK n, m \in Nat : n = Len(es) /\ m = mid
      BY ONLY <1>1
    <3>2. i \in 1..m /\ m < n
      BY <1>1, <3>1
    <3>3. i \in 1..n /\ i # n /\ (i # m => i + 1 \in 1..m)
      BY ONLY <3>2, n \in Nat, m \in Nat
    <3> QED BY <3>1, <3>3
  <2>2. as[i] = es[i] /\ (i # Len(as) => as[i + 1] = es[i + 1])
    BY <2>1
  <2>3. lo[es[i][2]] = es[i][1] /\ hi[es[i][2]] = es[i + 1][1]
    BY ONLY <1>2, <2>1
  <2>4. i = Len(as) => i + 1 = mid + 1
    OBVIOUS
  <2> QED BY ONLY <2>2, <2>3, <2>4
<1>5. Rising(bs)
  <2>1. ASSUME NEW i \in 1..Len(bs), NEW j \in 1..Len(bs), i < j PROVE bs[i][1] < bs[j][1]
    <3>1. mid + i \in 1..Len(es) /\ mid + j \in 1..Len(es) /\ mid + i < mid + j
      BY <1>1, <2>1
    <3>2. es[mid + i][1] < es[mid + j][1]
      BY <1>2, <3>1 DEF Rising
    <3> QED BY <3>2
  <2> QED BY <2>1 DEF Rising
<1>6. ASSUME NEW i \in 1..Len(bs)
      PROVE  lo[bs[i][2]] = bs[i][1] /\ hi[bs[i][2]] = IF i = Len(bs) THEN h ELSE bs[i + 1][1]
  <2>1. mid + i \in 1..Len(es) /\ (mid + i = Len(es) <=> i = Len(bs)) /\ bs[i] = es[mid + i]
    BY <1>1
  <2>2. i # Len(bs) => i + 1 \in 1..(Len(es) - mid) /\ (mid + i) + 1 = mid + (i + 1)
    <3>1. PICK n, m \in Nat : n = Len(bs) /\ m = mid
      <4>1. Len(bs) \in Nat /\ mid \in Nat
        BY <1>1
      <4> QED BY ONLY <4>1
    <3>2. i \in 1..n
      BY <3>1
    <3>3. (i # n => i + 1 \in 1..n) /\ (m + i) + 1 = m + (i + 1)
      BY ONLY <3>2, m \in Nat, n \in Nat
    <3> QED BY <3>1, <3>3
  <2>3. i # Len(bs) => bs[i + 1] = es[(mid + i) + 1]
    BY <2>2
  <2> QED BY <1>2, <2>1, <2>3
<1>7. as[1][1] = l /\ bs[1][1] = es[mid + 1][1] /\ Len(as) > 0 /\ Len(bs) > 0
  <2>1. 1 \in 1..mid /\ 1 \in 1..(Len(es) - mid)
    BY <1>1
  <2>2. as[1] = es[1] /\ bs[1] = es[mid + 1]
    BY <2>1
  <2> QED BY <1>1, <1>2, <2>2
<1> QED BY <1>3, <1>4, <1>5, <1>6, <1>7 DEF KidsIn

-----------------------------------------------------------------------------
(* A fenced tree: every page has its share of the keys, and no other page on   *)
(* its level has any of it.                                                    *)

Apart(lo, hi, p, q) == (hi[p] # 0 /\ hi[p] <= lo[q]) \/ (hi[q] # 0 /\ hi[q] <= lo[p])

\* The children of page p, the one that is still to go there included.
Kids(t, p) ==
    IF t.up # <<>> /\ t.up[1] = p
    THEN InsertAt(t.pages[p].entries, UpTo(t.pages[p].entries, t.up[2], 1) + 1, <<t.up[2], t.up[3]>>)
    ELSE t.pages[p].entries

Fenced(t, lev, lo, hi) ==
    /\ lo \in [1..Len(t.pages) -> Nat] /\ hi \in [1..Len(t.pages) -> Nat]
    /\ \A p \in 1..Len(t.pages) : Under(lo[p], hi[p]) /\ lev[p] <= lev[t.root]
    /\ \A p \in 1..Len(t.pages) : t.pages[p].leaf => LeafIn(t.pages[p], lo, lo[p], hi[p])
    /\ \A p \in 1..Len(t.pages) : ~t.pages[p].leaf => KidsIn(Kids(t, p), lo, hi, lo[p], hi[p])
    /\ \A p, q \in 1..Len(t.pages) : p # q /\ lev[p] = lev[q] => Apart(lo, hi, p, q)
    /\ lo[t.root] = 0 /\ hi[t.root] = 0

\* The fences of the m pages that there are after the split.
Refenced(n, m, p, key, lo, hi, lo2, hi2) ==
    /\ lo2 \in [1..m -> Nat] /\ hi2 \in [1..m -> Nat]
    /\ Moved(n, p, key, lo, hi, lo2, hi2)
    /\ m = n + 2 => lo2[n + 2] = 0 /\ hi2[n + 2] = 0

LEMMA RefencedIs ==
    ASSUME NEW n \in Nat, NEW m \in {n + 1, n + 2}, NEW p \in 1..n, NEW key \in Nat,
           NEW lo \in [1..n -> Nat], NEW hi \in [1..n -> Nat]
    PROVE  \E lo2, hi2 : Refenced(n, m, p, key, lo, hi, lo2, hi2)
<1> DEFINE lo2 == [q \in 1..m |-> IF q \in 1..n THEN lo[q] ELSE IF q = n + 1 THEN key ELSE 0]
           hi2 == [q \in 1..m |-> IF q = p THEN key ELSE IF q \in 1..n THEN hi[q]
                                  ELSE IF q = n + 1 THEN hi[p] ELSE 0]
<1>1. lo2 \in [1..m -> Nat]
  OBVIOUS
<1>2. hi2 \in [1..m -> Nat]
  OBVIOUS
<1>3. /\ \A q \in 1..n : q \in 1..m
      /\ n + 1 \in 1..m /\ n + 1 \notin 1..n /\ n + 1 # p
      /\ m = n + 2 => n + 2 \in 1..m /\ n + 2 \notin 1..n /\ n + 2 # p /\ n + 2 # n + 1
  OBVIOUS
<1>4. Moved(n, p, key, lo, hi, lo2, hi2)
  BY <1>3 DEF Moved
<1>5. m = n + 2 => lo2[n + 2] = 0 /\ hi2[n + 2] = 0
  BY <1>3
<1> HIDE DEF lo2, hi2
<1> QED BY <1>1, <1>2, <1>4, <1>5 DEF Refenced

\* A page splits that has all its entries, in the best of circumstances.
Splits(u, p, mid, t, lev, lv, lo, hi, lo2, hi2, key) ==
    /\ u \in Growing /\ RootOK(u.pages, u.root) /\ u.up = <<>>
    /\ Levels(u.pages, lev) /\ Fenced(u, lev, lo, hi)
    /\ p \in 1..Len(u.pages) /\ key = u.pages[p].entries[mid + 1][1]
    /\ SplitAs(u, p, mid, t) /\ t.met = {}
    /\ Levels(t.pages, lv) /\ (\A q \in 1..Len(u.pages) : lv[q] = lev[q]) /\ lv[Len(u.pages) + 1] = lev[p]
    /\ Refenced(Len(u.pages), Len(t.pages), p, key, lo, hi, lo2, hi2)

\* The pages of a tree, and what they have on them.
LEMMA PageIs ==
    ASSUME NEW ps \in Seq(Node), NEW p \in 1..Len(ps)
    PROVE  /\ Len(ps) \in Nat /\ ps[p] \in Node
           /\ ps[p].entries \in Seq(Pair) /\ Len(ps[p].entries) \in Nat
           /\ \A i \in 1..Len(ps[p].entries) : ps[p].entries[i] \in Pair /\ ps[p].entries[i][1] \in Nat
<1>1. ps[p] \in Node /\ Len(ps) \in Nat
  OBVIOUS
<1>2. ps[p].entries \in Seq(Pair)
  BY <1>1 DEF Node
<1> QED BY <1>1, <1>2, KeysAre

LEMMA LevelIs ==
    ASSUME NEW ps, NEW lev, Levels(ps, lev)
    PROVE  \A p \in 1..Len(ps) : lev[p] \in Nat
<1>1. ps \in Seq(Node) /\ lev \in [1..Len(ps) -> 0..(Len(ps) - 1)]
  BY DEF Levels
<1>2. Len(ps) \in Nat
  BY <1>1
<1>3. 0..(Len(ps) - 1) \subseteq Nat
  BY <1>2
<1> QED BY <1>1, <1>3

\* The first key on the right half is the fence between the halves.
LEMMA KeyIs ==
    ASSUME NEW u, NEW p, NEW mid \in Nat, NEW t, NEW lev, NEW lv, NEW lo, NEW hi, NEW lo2, NEW hi2, NEW key,
           Splits(u, p, mid, t, lev, lv, lo, hi, lo2, hi2, key)
    PROVE  /\ key \in Nat /\ lo[p] < key /\ Under(key, hi[p])
           /\ u.pages[p].leaf => u.pages[p].entries[mid][1] < key /\ mid \in 1..Len(u.pages[p].entries)
<1>1. PICK ps : ps = u.pages
  OBVIOUS
<1>2. /\ ps \in Seq(Node) /\ p \in 1..Len(ps) /\ Levels(ps, lev) /\ Fenced(u, lev, lo, hi)
      /\ u.up = <<>> /\ key = ps[p].entries[mid + 1][1] /\ SplitAs(u, p, mid, t) /\ t.met = {}
  BY <1>1 DEF Splits, Growing
<1>3. PICK es : es = ps[p].entries
  OBVIOUS
<1>4. es \in Seq(Pair) /\ Len(es) \in Nat /\ (\A i \in 1..Len(es) : es[i][1] \in Nat)
  BY <1>2, <1>3, PageIs
<1>5. mid \in 1..(Len(es) - 1)
  BY <1>1, <1>2, <1>3 DEF SplitAs, Halved
<1>6. /\ mid \in 1..Len(es) /\ mid + 1 \in 2..Len(es) /\ mid + 1 \in 1..Len(es)
  BY <1>4, <1>5
<1>7. key \in Nat /\ es[mid][1] \in Nat /\ key = es[mid + 1][1]
  BY <1>2, <1>3, <1>4, <1>6
<1>8. lo[p] \in Nat /\ hi[p] \in Nat
  BY <1>1, <1>2 DEF Fenced
<1>9. CASE ps[p].leaf
  <2>1. LeafIn(ps[p], lo, lo[p], hi[p])
    BY <1>1, <1>2, <1>9 DEF Fenced
  <2>2. es[mid][1] <= key /\ lo[p] <= es[mid][1] /\ Under(key, hi[p])
    <3>1. \A i, j \in 1..Len(es) : i < j => es[i][1] <= es[j][1]
      BY <1>3, <2>1 DEF LeafIn
    <3>2. \A i \in 1..Len(es) : lo[p] <= es[i][1] /\ Under(es[i][1], hi[p])
      BY <1>3, <2>1 DEF LeafIn
    <3>3. mid < mid + 1
      BY <1>4
    <3> QED BY <1>6, <1>7, <3>1, <3>2, <3>3
  <2>3. es[mid][1] # key
    <3>1. "cutRun" \notin Meets(ps, p, mid)
      BY <1>1, <1>2 DEF SplitAs
    <3> QED BY <1>3, <1>7, <1>9, <3>1 DEF Meets
  <2>4. es[mid][1] < key /\ lo[p] < key
    BY <1>7, <1>8, <2>2, <2>3
  <2> QED BY <1>1, <1>3, <1>6, <1>7, <2>2, <2>4
<1>10. CASE ~ps[p].leaf
  <2>1. KidsIn(es, lo, hi, lo[p], hi[p])
    BY <1>1, <1>2, <1>3, <1>10 DEF Fenced, Kids
  <2>2. \A i \in 1..Len(es) : es[i][2] \in 1..Len(ps)
    BY <1>2, <1>3, <1>10 DEF Levels, ChildrenOK
  <2>3. \A i \in 1..Len(es) : Under(lo[es[i][2]], hi[es[i][2]])
    BY <1>1, <1>2, <2>2 DEF Fenced
  <2>4. /\ \A i \in 1..Len(es) : lo[p] <= es[i][1] /\ Under(es[i][1], hi[p])
        /\ \A i \in 2..Len(es) : lo[p] < es[i][1]
    <3>1. PICK l, h \in Nat : l = lo[p] /\ h = hi[p]
      BY <1>8
    <3>2. KidsIn(es, lo, hi, l, h)
      BY <2>1, <3>1
    <3>3. /\ \A i \in 1..Len(es) : l <= es[i][1] /\ Under(es[i][1], h)
          /\ \A i \in 2..Len(es) : l < es[i][1]
      BY <1>4, <2>3, <3>2, KidsWithin
    <3> QED BY <3>1, <3>3
  <2> QED BY <1>1, <1>6, <1>7, <1>10, <2>4
<1> QED BY <1>9, <1>10

LEMMA ApartSplit ==
    ASSUME NEW u, NEW p, NEW mid \in Nat, NEW t, NEW lev, NEW lv, NEW lo, NEW hi, NEW lo2, NEW hi2, NEW key,
           Splits(u, p, mid, t, lev, lv, lo, hi, lo2, hi2, key)
    PROVE  \A q, r \in 1..Len(t.pages) : q # r /\ lv[q] = lv[r] => Apart(lo2, hi2, q, r)
<1>1. PICK ps, n : ps = u.pages /\ n = Len(ps)
  OBVIOUS
<1>2. PICK rs : rs = t.pages
  OBVIOUS
<1>3. /\ ps \in Seq(Node) /\ n \in Nat /\ p \in 1..n /\ Levels(ps, lev) /\ Levels(rs, lv)
      /\ RootOK(ps, u.root) /\ (\A q \in 1..n : lv[q] = lev[q]) /\ lv[n + 1] = lev[p]
  BY <1>1, <1>2 DEF Splits, Growing
<1>4. /\ \A q \in 1..n : lo[q] \in Nat /\ hi[q] \in Nat /\ Under(lo[q], hi[q]) /\ lev[q] <= lev[u.root]
      /\ \A q, r \in 1..n : q # r /\ lev[q] = lev[r] => Apart(lo, hi, q, r)
  BY <1>1 DEF Splits, Fenced
<1>5. key \in Nat /\ lo[p] < key /\ Under(key, hi[p])
  BY KeyIs
<1>6. /\ \A q \in 1..n : lo2[q] = lo[q] /\ (q # p => hi2[q] = hi[q])
      /\ lo2[n + 1] = key /\ hi2[p] = key /\ hi2[n + 1] = hi[p]
  BY <1>1 DEF Splits, Refenced, Moved
<1>7. Halved(ps, p, mid, rs)
  BY <1>1, <1>2 DEF Splits, SplitAs
<1>8. Len(rs) = IF ps[p].root THEN n + 2 ELSE n + 1
  BY <1>1, <1>7 DEF Halved
<1>9. ps[p].root => \A q \in 1..(n + 1) : lv[q] < lv[n + 2]
  <2>1. SUFFICES ASSUME ps[p].root PROVE \A q \in 1..(n + 1) : lv[q] < lv[n + 2]
    OBVIOUS
  <2>2. p = u.root
    BY <1>1, <1>3, <2>1 DEF RootOK
  <2>3. n + 2 \in 1..Len(rs) /\ ~rs[n + 2].leaf /\ Len(rs[n + 2].entries) = 2 /\ rs[n + 2].entries[1][2] = p
    BY <1>1, <1>3, <1>7, <1>8, <2>1 DEF Halved
  <2>4. lv[p] + 1 = lv[n + 2]
    <3>1. ChildrenOK(rs, lv, n + 2)
      BY <1>3, <2>3 DEF Levels
    <3>2. 1 \in 1..Len(rs[n + 2].entries)
      BY <2>3
    <3> QED BY <2>3, <3>1, <3>2 DEF ChildrenOK
  <2>5. \A q \in 1..n : lev[q] \in Nat
    BY <1>1, <1>3, LevelIs
  <2>6. \A q \in 1..n : lev[q] <= lev[p]
    BY <1>4, <2>2
  <2>7. ASSUME NEW q \in 1..(n + 1) PROVE lv[q] < lv[n + 2]
    <3>1. CASE q \in 1..n
      <4>1. lv[q] = lev[q] /\ lev[q] <= lev[p] /\ lv[p] = lev[p] /\ lev[q] \in Nat /\ lev[p] \in Nat
        BY <1>3, <2>5, <2>6, <3>1
      <4> QED BY <2>4, <4>1
    <3>2. CASE q = n + 1
      <4>1. lv[q] = lev[p] /\ lv[p] = lev[p] /\ lev[p] \in Nat
        BY <1>3, <2>5, <3>2
      <4> QED BY <2>4, <4>1
    <3> QED BY <1>3, <3>1, <3>2
  <2> QED BY <2>7
<1>10. ASSUME NEW q \in 1..n, q # p, lev[q] = lev[p]
       PROVE  Apart(lo2, hi2, q, p) /\ Apart(lo2, hi2, q, n + 1)
  <2>1. Apart(lo, hi, q, p)
    BY <1>3, <1>4, <1>10
  <2>2. lo2[q] = lo[q] /\ hi2[q] = hi[q] /\ lo2[p] = lo[p] /\ lo[q] \in Nat /\ hi[q] \in Nat /\ lo[p] \in Nat /\ hi[p] \in Nat
    BY <1>3, <1>4, <1>6, <1>10
  <2>3. CASE hi[q] # 0 /\ hi[q] <= lo[p]
    BY <1>5, <1>6, <2>2, <2>3 DEF Apart
  <2>4. CASE hi[p] # 0 /\ hi[p] <= lo[q]
    <3>1. key < hi[p]
      BY <1>5, <2>4 DEF Under
    <3> QED BY <1>5, <1>6, <2>2, <2>4, <3>1 DEF Apart
  <2> QED BY <2>1, <2>3, <2>4 DEF Apart
<1>11. Apart(lo2, hi2, p, n + 1)
  <2>1. lo[p] \in Nat
    BY <1>3, <1>4
  <2> QED BY <1>5, <1>6, <2>1 DEF Apart
<1>12. \A q, r : Apart(lo2, hi2, q, r) => Apart(lo2, hi2, r, q)
  BY DEF Apart
<1>13. ASSUME NEW q \in 1..n, NEW r \in 1..n, q # r, lev[q] = lev[r]
       PROVE  Apart(lo2, hi2, q, r)
  <2>1. CASE q = p
    BY <1>10, <1>12, <1>13, <2>1
  <2>2. CASE r = p
    BY <1>10, <1>13, <2>2
  <2>3. CASE q # p /\ r # p
    BY <1>4, <1>6, <1>13, <2>3 DEF Apart
  <2> QED BY <2>1, <2>2, <2>3
<1>14. ASSUME NEW q \in 1..n, lev[q] = lev[p]
       PROVE  Apart(lo2, hi2, q, n + 1)
  BY <1>10, <1>11, <1>14
<1>15. ASSUME NEW q \in 1..Len(rs), NEW r \in 1..Len(rs), q # r, lv[q] = lv[r]
       PROVE  Apart(lo2, hi2, q, r)
  <2>1. ps[p].root => Len(rs) = n + 2
    BY <1>8
  <2>2. q \in 1..n \/ q = n + 1 \/ (q = n + 2 /\ ps[p].root)
    BY <1>3, <1>8
  <2>3. r \in 1..n \/ r = n + 1 \/ (r = n + 2 /\ ps[p].root)
    BY <1>3, <1>8
  <2>4. ~(q = n + 2 /\ ps[p].root) /\ ~(r = n + 2 /\ ps[p].root)
    <3>1. \A x \in 1..(n + 1) : ps[p].root => lv[x] # lv[n + 2]
      <4>1. Levels(rs, lv) /\ 1..(n + 1) \subseteq 1..Len(rs)
        BY <1>3, <1>8
      <4>2. \A x \in 1..Len(rs) : lv[x] \in Nat
        BY <1>3, LevelIs
      <4>3. ps[p].root => n + 2 \in 1..Len(rs)
        BY <1>3, <1>8
      <4> QED BY <1>9, <4>1, <4>2, <4>3
    <3>2. q \in 1..(n + 1) \/ (q = n + 2 /\ ps[p].root)
      BY <1>3, <2>2
    <3>3. r \in 1..(n + 1) \/ (r = n + 2 /\ ps[p].root)
      BY <1>3, <2>3
    <3> QED BY <1>15, <3>1, <3>2, <3>3
  <2>5. CASE q \in 1..n /\ r \in 1..n
    BY <1>3, <1>13, <1>15, <2>5
  <2>6. CASE q \in 1..n /\ r = n + 1
    BY <1>3, <1>14, <1>15, <2>6
  <2>7. CASE q = n + 1 /\ r \in 1..n
    BY <1>3, <1>12, <1>14, <1>15, <2>7
  <2> QED BY <1>15, <2>2, <2>3, <2>4, <2>5, <2>6, <2>7
<1> QED BY <1>2, <1>15

LEMMA LeafSplit ==
    ASSUME NEW u, NEW p, NEW mid \in Nat, NEW t, NEW lev, NEW lv, NEW lo, NEW hi, NEW lo2, NEW hi2, NEW key,
           Splits(u, p, mid, t, lev, lv, lo, hi, lo2, hi2, key)
    PROVE  \A q \in 1..Len(t.pages) : t.pages[q].leaf => LeafIn(t.pages[q], lo2, lo2[q], hi2[q])
<1>1. PICK ps, n : ps = u.pages /\ n = Len(ps)
  OBVIOUS
<1>2. PICK rs : rs = t.pages
  OBVIOUS
<1>3. ps \in Seq(Node) /\ n \in Nat /\ p \in 1..n /\ Levels(ps, lev)
  BY <1>1, <1>2 DEF Splits, Growing
<1>4. \A q \in 1..n : lo[q] \in Nat /\ hi[q] \in Nat
  BY <1>1 DEF Splits, Fenced
<1>5. ASSUME NEW q \in 1..n, ps[q].leaf
      PROVE  LeafIn(ps[q], lo, lo[q], hi[q]) /\ LeafOK(ps, q)
  BY <1>1, <1>3, <1>5 DEF Splits, Fenced, Levels
<1>6. key \in Nat /\ lo[p] < key /\ Under(key, hi[p]) /\ (ps[p].leaf => ps[p].entries[mid][1] < key)
  BY <1>1, KeyIs
<1>7. /\ \A q \in 1..n : lo2[q] = lo[q] /\ (q # p => hi2[q] = hi[q])
      /\ lo2[n + 1] = key /\ hi2[p] = key /\ hi2[n + 1] = hi[p]
  BY <1>1 DEF Splits, Refenced, Moved
<1>8. Halved(ps, p, mid, rs) /\ key = ps[p].entries[mid + 1][1]
  BY <1>1, <1>2 DEF Splits, SplitAs
<1>9. ASSUME NEW q \in 1..n, q # p, rs[q].leaf
      PROVE  LeafIn(rs[q], lo2, lo2[q], hi2[q])
  <2>1. rs[q] = ps[q]
    BY <1>1, <1>8, <1>9 DEF Halved
  <2>2. LeafIn(ps[q], lo, lo[q], hi[q]) /\ LeafOK(ps, q)
    BY <1>5, <1>9, <2>1
  <2>3. ps[q].right # NoNode => lo2[ps[q].right] = lo[ps[q].right]
    BY <1>1, <1>7, <2>2 DEF LeafOK
  <2>4. LeafIn(ps[q], lo2, lo[q], hi[q])
    BY <2>2, <2>3 DEF LeafIn
  <2> QED BY <1>7, <1>9, <2>1, <2>4
<1>10. PICK es : es = ps[p].entries
  OBVIOUS
<1>11. es \in Seq(Pair) /\ Len(es) \in Nat /\ (\A i \in 1..Len(es) : es[i][1] \in Nat)
       /\ mid \in 1..(Len(es) - 1)
  <2>1. mid \in 1..(Len(es) - 1)
    BY <1>8, <1>10 DEF Halved
  <2> QED BY <1>1, <1>3, <1>10, <2>1, PageIs
<1>12. ASSUME ps[p].leaf
       PROVE  /\ \A i, j \in 1..Len(es) : i < j => es[i][1] <= es[j][1]
              /\ \A i \in 1..Len(es) : lo[p] <= es[i][1] /\ Under(es[i][1], hi[p])
              /\ ps[p].right = NoNode <=> hi[p] = 0
              /\ ps[p].right # NoNode => lo2[ps[p].right] = hi[p]
  <2>1. LeafIn(ps[p], lo, lo[p], hi[p]) /\ LeafOK(ps, p)
    BY <1>3, <1>5, <1>12
  <2>2. ps[p].right # NoNode => lo2[ps[p].right] = lo[ps[p].right]
    BY <1>1, <1>7, <2>1 DEF LeafOK
  <2> QED BY <1>10, <2>1, <2>2 DEF LeafIn
<1>13. ASSUME ps[p].leaf PROVE LeafIn(rs[p], lo2, lo2[p], hi2[p])
  <2>1. PICK as : as = rs[p].entries
    OBVIOUS
  <2>2. Len(as) = mid /\ (\A i \in 1..mid : as[i] = es[i]) /\ rs[p].right = n + 1
    BY <1>1, <1>8, <1>10, <1>13, <2>1 DEF Halved
  <2>3. ASSUME NEW i \in 1..mid
        PROVE  as[i] = es[i] /\ i \in 1..Len(es) /\ lo[p] <= as[i][1] /\ as[i][1] < key
    <3>1. as[i] = es[i] /\ i \in 1..Len(es) /\ mid \in 1..Len(es)
      <4>1. i \in 1..Len(es) /\ mid \in 1..Len(es)
        BY <1>11
      <4> QED BY <2>2, <4>1
    <3>2. i = mid \/ es[i][1] <= es[mid][1]
      <4>1. i = mid \/ i < mid
        BY <1>11
      <4> QED BY <1>12, <1>13, <3>1, <4>1
    <3>3. es[i][1] \in Nat /\ es[mid][1] \in Nat /\ es[mid][1] < key
      BY <1>6, <1>10, <1>11, <1>13, <3>1
    <3>4. es[i][1] < key
      BY <1>6, <3>2, <3>3
    <3> QED BY <1>12, <1>13, <3>1, <3>4
  <2>4. \A i, j \in 1..mid : i < j => as[i][1] <= as[j][1]
    BY <1>12, <1>13, <2>3
  <2>5. n + 1 # NoNode /\ key # 0 /\ lo2[n + 1] = key
    <3>1. lo[p] \in Nat
      BY <1>3, <1>4
    <3> QED BY <1>3, <1>6, <1>7, <3>1 DEF NoNode
  <2>6. LeafIn(rs[p], lo2, lo[p], key)
    BY <2>1, <2>2, <2>3, <2>4, <2>5 DEF LeafIn, Under
  <2> QED BY <1>3, <1>7, <2>6
<1>14. ASSUME ps[p].leaf PROVE LeafIn(rs[n + 1], lo2, lo2[n + 1], hi2[n + 1])
  <2>1. PICK bs : bs = rs[n + 1].entries
    OBVIOUS
  <2>2. Len(bs) = Len(es) - mid /\ (\A i \in 1..(Len(es) - mid) : bs[i] = es[mid + i])
        /\ rs[n + 1].right = ps[p].right
    BY <1>1, <1>8, <1>10, <1>14, <2>1 DEF Halved
  <2>3. ASSUME NEW i \in 1..Len(bs)
        PROVE  bs[i] = es[mid + i] /\ mid + i \in 1..Len(es) /\ mid + 1 \in 1..Len(es)
               /\ (i = 1 \/ mid + 1 < mid + i)
    <3>1. i \in 1..(Len(es) - mid)
      BY <2>2
    <3> QED BY <1>11, <2>2, <3>1
  <2>4. ASSUME NEW i \in 1..Len(bs) PROVE key <= bs[i][1] /\ Under(bs[i][1], hi[p])
    <3>1. i = 1 \/ key <= es[mid + i][1]
      BY <1>8, <1>10, <1>12, <1>14, <2>3
    <3>2. i = 1 => key <= es[mid + i][1]
      BY <1>6, <1>8, <1>10
    <3> QED BY <1>12, <1>14, <2>3, <3>1, <3>2
  <2>5. ASSUME NEW i \in 1..Len(bs), NEW j \in 1..Len(bs), i < j PROVE bs[i][1] <= bs[j][1]
    <3>1. mid + i < mid + j
      BY <1>11, <2>2, <2>5
    <3> QED BY <1>12, <1>14, <2>3, <3>1
  <2>6. LeafIn(rs[n + 1], lo2, key, hi[p])
    BY <1>12, <1>14, <2>1, <2>2, <2>4, <2>5 DEF LeafIn
  <2> QED BY <1>7, <2>6
<1>15. ASSUME NEW q \in 1..Len(rs), rs[q].leaf PROVE LeafIn(rs[q], lo2, lo2[q], hi2[q])
  <2>1. Len(rs) = IF ps[p].root THEN n + 2 ELSE n + 1
    BY <1>1, <1>8 DEF Halved
  <2>2. q \in 1..n \/ q = n + 1 \/ (q = n + 2 /\ ps[p].root)
    BY <1>3, <2>1
  <2>3. rs[p].leaf = ps[p].leaf /\ rs[n + 1].leaf = ps[p].leaf /\ (ps[p].root => ~rs[n + 2].leaf)
    BY <1>1, <1>8 DEF Halved
  <2> QED BY <1>9, <1>13, <1>14, <1>15, <2>2, <2>3
<1> QED BY <1>2, <1>15

LEMMA KidsAgree ==
    ASSUME NEW es, NEW lo, NEW hi, NEW lo2, NEW hi2, NEW l, NEW h, KidsIn(es, lo, hi, l, h),
           \A i \in 1..Len(es) : lo2[es[i][2]] = lo[es[i][2]] /\ hi2[es[i][2]] = hi[es[i][2]]
    PROVE  KidsIn(es, lo2, hi2, l, h)
  BY DEF KidsIn

\* p has all its children.
Above(ps, lev, lo, hi, p) ==
    /\ Levels(ps, lev) /\ p \in 1..Len(ps) /\ ~ps[p].leaf
    /\ KidsIn(ps[p].entries, lo, hi, lo[p], hi[p]) /\ lo[p] \in Nat /\ hi[p] \in Nat
    /\ \A q \in 1..Len(ps) : Under(lo[q], hi[q])

\* A child begins between the fences of its parent.
LEMMA ChildWithin ==
    ASSUME NEW ps, NEW lev, NEW lo, NEW hi, NEW p, Above(ps, lev, lo, hi, p),
           NEW i \in 1..Len(ps[p].entries), NEW c, c = ps[p].entries[i][2]
    PROVE  /\ c \in 1..Len(ps) /\ lev[c] + 1 = lev[p]
           /\ lo[c] = ps[p].entries[i][1] /\ lo[p] <= lo[c] /\ Under(lo[c], hi[p])
<1> /\ Levels(ps, lev) /\ p \in 1..Len(ps) /\ ~ps[p].leaf
    /\ KidsIn(ps[p].entries, lo, hi, lo[p], hi[p]) /\ lo[p] \in Nat /\ hi[p] \in Nat
    /\ \A q \in 1..Len(ps) : Under(lo[q], hi[q])
  BY DEF Above
<1>1. PICK es : es = ps[p].entries
  OBVIOUS
<1>2. PICK l, h \in Nat : l = lo[p] /\ h = hi[p]
  OBVIOUS
<1>3. ps \in Seq(Node)
  BY DEF Levels
<1>4. es \in Seq(Pair)
  BY <1>1, <1>3, PageIs
<1>5. \A j \in 1..Len(es) : es[j][2] \in 1..Len(ps) /\ lev[es[j][2]] + 1 = lev[p]
  BY <1>1 DEF Levels, ChildrenOK
<1>6. \A j \in 1..Len(es) : Under(lo[es[j][2]], hi[es[j][2]])
  BY <1>5
<1>7. KidsIn(es, lo, hi, l, h)
  BY <1>1, <1>2
<1>8. \A j \in 1..Len(es) : l <= es[j][1] /\ Under(es[j][1], h)
  BY <1>4, <1>6, <1>7, KidsWithin
<1>9. lo[c] = es[i][1]
  BY <1>1, <1>7 DEF KidsIn
<1> QED BY <1>1, <1>2, <1>5, <1>8, <1>9

OnlyParent(ps, lev, p) ==
    /\ ~ps[p].root => /\ ps[p].parent \in 1..Len(ps) /\ lev[ps[p].parent] = lev[p] + 1
                      /\ \E i \in 1..Len(ps[ps[p].parent].entries) : ps[ps[p].parent].entries[i][2] = p
    /\ \A q \in 1..Len(ps) : ~ps[q].leaf =>
          \A i \in 1..Len(ps[q].entries) : ps[q].entries[i][2] = p => ~ps[p].root /\ q = ps[p].parent

\* A page that splits is a child of its parent, and of no other page.
LEMMA OneParent ==
    ASSUME NEW u, NEW p, NEW mid \in Nat, NEW t, NEW lev, NEW lv, NEW lo, NEW hi, NEW lo2, NEW hi2, NEW key,
           Splits(u, p, mid, t, lev, lv, lo, hi, lo2, hi2, key)
    PROVE  OnlyParent(u.pages, lev, p)
<1>1. PICK ps, n : ps = u.pages /\ n = Len(ps)
  OBVIOUS
<1>2. /\ ps \in Seq(Node) /\ n \in Nat /\ p \in 1..n /\ Levels(ps, lev) /\ u.up = <<>> /\ RootOK(ps, u.root)
      /\ SplitAs(u, p, mid, t) /\ t.met = {}
  BY <1>1 DEF Splits, Growing
<1>3. /\ \A q \in 1..n : lo[q] \in Nat /\ hi[q] \in Nat /\ Under(lo[q], hi[q]) /\ lev[q] <= lev[u.root]
      /\ \A q, r \in 1..n : q # r /\ lev[q] = lev[r] => Apart(lo, hi, q, r)
  BY <1>1 DEF Splits, Fenced
<1>4. \A q \in 1..n : ~ps[q].leaf => KidsIn(ps[q].entries, lo, hi, lo[q], hi[q])
  <2>1. \A q \in 1..n : Kids(u, q) = ps[q].entries
    BY <1>1, <1>2 DEF Kids
  <2> QED BY <1>1, <2>1 DEF Splits, Fenced
<1>5. \A q \in 1..n : lev[q] \in Nat /\ (ps[q].leaf <=> lev[q] = 0)
  BY <1>1, <1>2, LevelIs DEF Levels
<1>6. ASSUME NEW q \in 1..n, ~ps[q].leaf, NEW i \in 1..Len(ps[q].entries), ps[q].entries[i][2] = p
      PROVE  lev[p] + 1 = lev[q] /\ lo[q] <= lo[p] /\ Under(lo[p], hi[q])
  <2>1. KidsIn(ps[q].entries, lo, hi, lo[q], hi[q]) /\ lo[q] \in Nat /\ hi[q] \in Nat
    BY <1>3, <1>4, <1>6
  <2>2. \A r \in 1..Len(ps) : Under(lo[r], hi[r])
    BY <1>1, <1>3
  <2>3. Above(ps, lev, lo, hi, q)
    BY <1>1, <1>2, <1>6, <2>1, <2>2 DEF Above
  <2> QED BY <1>6, <2>3, ChildWithin
<1>7. PICK a : a = ps[p].parent
  OBVIOUS
<1>8. ASSUME ~ps[p].root
      PROVE  /\ a \in 1..n /\ lev[a] = lev[p] + 1 /\ ~ps[a].leaf
             /\ \E i \in 1..Len(ps[a].entries) : ps[a].entries[i][2] = p
  <2>1. a \in 1..n /\ lev[a] = lev[p] + 1
    BY <1>1, <1>2, <1>7, <1>8 DEF Levels, ParentOK
  <2>2. "staleParent" \notin Meets(ps, p, mid)
    BY <1>1, <1>2 DEF SplitAs
  <2>3. HasChild(ps, a, p)
    BY <1>7, <1>8, <2>2 DEF Meets
  <2>4. ps[a].entries \in Seq(Pair)
    BY <1>1, <1>2, <2>1, PageIs
  <2>5. DOMAIN ps[a].entries = 1..Len(ps[a].entries)
    BY <2>4
  <2>6. ~ps[a].leaf
    BY <1>2, <1>5, <2>1
  <2> QED BY <2>1, <2>3, <2>5, <2>6 DEF HasChild
<1>9. ASSUME NEW q \in 1..n, ~ps[q].leaf, NEW i \in 1..Len(ps[q].entries), ps[q].entries[i][2] = p
      PROVE  ~ps[p].root /\ q = a
  <2>1. lev[p] + 1 = lev[q] /\ lo[q] <= lo[p] /\ Under(lo[p], hi[q])
    BY <1>6, <1>9
  <2>2. ~ps[p].root
    <3>1. ASSUME ps[p].root PROVE FALSE
      <4>1. p = u.root
        BY <1>1, <1>2, <3>1 DEF RootOK
      <4> QED BY <1>2, <1>3, <1>5, <2>1, <4>1
    <3> QED BY <3>1
  <2>3. PICK j \in 1..Len(ps[a].entries) : ps[a].entries[j][2] = p
    BY <1>8, <2>2
  <2>4. a \in 1..n /\ ~ps[a].leaf /\ lev[a] = lev[p] + 1
    BY <1>8, <2>2
  <2>5. lo[a] <= lo[p] /\ Under(lo[p], hi[a])
    BY <1>6, <2>3, <2>4
  <2>6. q # a => Apart(lo, hi, q, a)
    BY <1>3, <2>1, <2>4
  <2>7. lo[q] \in Nat /\ hi[q] \in Nat /\ lo[a] \in Nat /\ hi[a] \in Nat /\ lo[p] \in Nat
    BY <1>2, <1>3, <2>4
  <2>8. ~Apart(lo, hi, q, a)
    BY <2>1, <2>5, <2>7 DEF Apart, Under
  <2> QED BY <2>2, <2>6, <2>8
<1>10. OnlyParent(ps, lev, p)
  BY <1>1, <1>7, <1>8, <1>9 DEF OnlyParent
<1> QED BY <1>1, <1>10

\* The pages above the halves.
LEMMA KidsAbove ==
    ASSUME NEW u, NEW p, NEW mid \in Nat, NEW t, NEW lev, NEW lv, NEW lo, NEW hi, NEW lo2, NEW hi2, NEW key,
           Splits(u, p, mid, t, lev, lv, lo, hi, lo2, hi2, key),
           NEW q \in 1..Len(u.pages), q # p, ~u.pages[q].leaf
    PROVE  KidsIn(Kids(t, q), lo2, hi2, lo2[q], hi2[q])
<1>1. PICK ps, n : ps = u.pages /\ n = Len(ps)
  OBVIOUS
<1>2. PICK rs : rs = t.pages
  OBVIOUS
<1>3. /\ ps \in Seq(Node) /\ n \in Nat /\ p \in 1..n /\ q \in 1..n /\ Levels(ps, lev) /\ u.up = <<>>
      /\ SplitAs(u, p, mid, t)
  BY <1>1 DEF Splits, Growing
<1>4. \A r \in 1..n : lo[r] \in Nat /\ hi[r] \in Nat /\ Under(lo[r], hi[r])
  BY <1>1 DEF Splits, Fenced
<1>5. key \in Nat /\ lo[p] < key /\ Under(key, hi[p]) /\ key = ps[p].entries[mid + 1][1]
  BY <1>1, KeyIs DEF Splits
<1>6. Moved(n, p, key, lo, hi, lo2, hi2)
  BY <1>1 DEF Splits, Refenced
<1>7. lo2[q] = lo[q] /\ hi2[q] = hi[q] /\ rs[q] = ps[q]
  <2>1. Halved(ps, p, mid, rs)
    BY <1>1, <1>2, <1>3 DEF SplitAs
  <2>2. rs[q] = ps[q]
    BY <1>1, <1>3, <2>1 DEF Halved
  <2> QED BY <1>3, <1>6, <2>2 DEF Moved
<1>8. PICK es : es = ps[q].entries
  OBVIOUS
<1>9. es \in Seq(Pair) /\ Len(es) \in Nat /\ (\A i \in 1..Len(es) : es[i][1] \in Nat)
  BY <1>1, <1>3, <1>8, PageIs
<1>10. PICK l, h \in Nat : l = lo[q] /\ h = hi[q]
  BY <1>3, <1>4
<1>11. KidsIn(es, lo, hi, l, h)
  <2>1. Kids(u, q) = es
    BY <1>1, <1>3, <1>8 DEF Kids
  <2>2. KidsIn(Kids(u, q), lo, hi, lo[q], hi[q])
    BY DEF Splits, Fenced
  <2> QED BY <1>10, <2>1, <2>2
<1>12. \A i \in 1..Len(es) : es[i][2] \in 1..n
  BY <1>1, <1>3, <1>8 DEF Levels, ChildrenOK
<1>13. t.up = IF ps[p].root THEN <<>> ELSE <<ps[p].parent, key, n + 1>>
  BY <1>1, <1>3, <1>5 DEF SplitAs
<1>14. OnlyParent(ps, lev, p)
  BY <1>1, OneParent
<1>15. CASE ~ps[p].root /\ q = ps[p].parent
  <2>1. t.up = <<q, key, n + 1>> /\ t.up # <<>>
    BY <1>13, <1>15
  <2>2. Kids(t, q) = InsertAt(es, UpTo(es, key, 1) + 1, <<key, n + 1>>)
    BY <1>2, <1>7, <1>8, <2>1 DEF Kids
  <2>3. PICK i \in 1..Len(es) : es[i][2] = p
    BY <1>8, <1>15, <1>14 DEF OnlyParent
  <2>4. lo[p] = es[i][1] /\ hi[p] = IF i = Len(es) THEN h ELSE es[i + 1][1]
    BY <1>11, <2>3 DEF KidsIn
  <2>5. i = Len(es) => Under(key, h)
    BY <1>5, <2>4
  <2>6. i < Len(es) => hi[es[i][2]] # 0
    <3>1. SUFFICES ASSUME i < Len(es) PROVE hi[p] # 0
      BY <2>3
    <3>2. i + 1 \in 1..Len(es)
      BY <1>9, <3>1
    <3>3. es[i][1] < es[i + 1][1] /\ i # Len(es)
      BY <1>9, <1>11, <3>1, <3>2 DEF KidsIn, Rising
    <3>4. PICK a, b \in Nat : a = es[i][1] /\ b = es[i + 1][1]
      BY ONLY <1>9, <3>2, i \in 1..Len(es)
    <3>5. b # 0
      BY ONLY <3>3, <3>4, a \in Nat, b \in Nat
    <3>6. hi[p] = b
      BY ONLY <2>4, <3>3, <3>4
    <3> QED BY ONLY <3>5, <3>6
  <2>7. n + 1 \in Nat /\ <<key, n + 1>> \in Pair
    <3>1. n \in Nat /\ key \in Nat
      BY <1>3, <1>5
    <3> QED BY ONLY <3>1 DEF Pair
  <2>8. es[i][1] < key /\ Under(key, hi[es[i][2]]) /\ Moved(n, es[i][2], key, lo, hi, lo2, hi2)
    BY <1>5, <1>6, <2>3, <2>4
  <2>9. KidsIn(InsertAt(es, UpTo(es, key, 1) + 1, <<key, n + 1>>), lo2, hi2, l, h)
    <3>1. NewKid(es, i, n, key, lo, hi, lo2, hi2, h)
      BY <1>12, <2>5, <2>6, <2>7, <2>8 DEF NewKid
    <3>2. n \in Nat /\ es \in Seq(Pair) /\ key \in Nat
      BY <1>3, <1>5, <1>9
    <3> QED BY ONLY <1>11, <3>1, <3>2, i \in 1..Len(es), KidsInserted
  <2> QED BY <1>7, <1>10, <2>2, <2>9
<1>16. CASE ~(~ps[p].root /\ q = ps[p].parent)
  <2>1. Kids(t, q) = es
    <3>1. t.up # <<>> => t.up[1] # q
      BY <1>13, <1>16
    <3> QED BY <1>2, <1>7, <1>8, <3>1 DEF Kids
  <2>2. \A i \in 1..Len(es) : es[i][2] # p
    BY <1>1, <1>8, <1>16, <1>14 DEF OnlyParent
  <2>3. \A i \in 1..Len(es) : lo2[es[i][2]] = lo[es[i][2]] /\ hi2[es[i][2]] = hi[es[i][2]]
    BY <1>6, <1>12, <2>2 DEF Moved
  <2>4. KidsIn(es, lo2, hi2, l, h)
    BY <1>11, <2>3, KidsAgree
  <2> QED BY <1>7, <1>10, <2>1, <2>4
<1> QED BY <1>15, <1>16

\* The halves, when they have children.
LEMMA KidsShared ==
    ASSUME NEW u, NEW p, NEW mid \in Nat, NEW t, NEW lev, NEW lv, NEW lo, NEW hi, NEW lo2, NEW hi2, NEW key,
           Splits(u, p, mid, t, lev, lv, lo, hi, lo2, hi2, key), ~u.pages[p].leaf
    PROVE  /\ KidsIn(Kids(t, p), lo2, hi2, lo2[p], hi2[p])
           /\ KidsIn(Kids(t, Len(u.pages) + 1), lo2, hi2, lo2[Len(u.pages) + 1], hi2[Len(u.pages) + 1])
<1>1. PICK ps, n : ps = u.pages /\ n = Len(ps)
  OBVIOUS
<1>2. PICK rs : rs = t.pages
  OBVIOUS
<1>3. /\ ps \in Seq(Node) /\ n \in Nat /\ p \in 1..n /\ Levels(ps, lev) /\ u.up = <<>>
      /\ SplitAs(u, p, mid, t) /\ rs \in Seq(Node) /\ ~ps[p].leaf
  BY <1>1, <1>2 DEF Splits, Growing, Levels
<1>4. key = ps[p].entries[mid + 1][1] /\ Moved(n, p, key, lo, hi, lo2, hi2)
  BY <1>1 DEF Splits, Refenced
<1>5. Halved(ps, p, mid, rs)
  BY <1>1, <1>2, <1>3 DEF SplitAs
<1>6. PICK es : es = ps[p].entries
  OBVIOUS
<1>7. es \in Seq(Pair) /\ Len(es) \in Nat
  BY <1>1, <1>3, <1>6, PageIs
<1>8. KidsIn(es, lo, hi, lo[p], hi[p])
  <2>1. Kids(u, p) = es
    BY <1>1, <1>3, <1>6 DEF Kids
  <2>2. KidsIn(Kids(u, p), lo, hi, lo[p], hi[p])
    BY <1>1, <1>3 DEF Splits, Fenced
  <2> QED BY <2>1, <2>2
<1>9. \A i \in 1..Len(es) : es[i][2] \in 1..n /\ es[i][2] # p
  <2>1. \A i \in 1..Len(es) : es[i][2] \in 1..n /\ lev[es[i][2]] + 1 = lev[p]
    BY <1>1, <1>3, <1>6 DEF Levels, ChildrenOK
  <2>2. lev[p] \in Nat
    BY <1>1, <1>3, LevelIs
  <2> QED BY <2>1, <2>2
<1>10. PICK as, bs : as = rs[p].entries /\ bs = rs[n + 1].entries
  OBVIOUS
<1>11. /\ mid \in 1..(Len(es) - 1)
       /\ Len(as) = mid /\ (\A i \in 1..mid : as[i] = es[i])
       /\ Len(bs) = Len(es) - mid /\ (\A i \in 1..(Len(es) - mid) : bs[i] = es[mid + i])
  BY <1>1, <1>5, <1>6, <1>10 DEF Halved
<1>12. as \in Seq(Pair) /\ bs \in Seq(Pair)
  <2>1. n + 1 \in 1..Len(rs) /\ p \in 1..Len(rs)
    <3>1. Len(rs) = IF ps[p].root THEN n + 2 ELSE n + 1
      BY <1>1, <1>5 DEF Halved
    <3> QED BY <1>3, <3>1
  <2> QED BY <1>3, <1>10, <2>1, PageIs
<1>13. KidsIn(as, lo, hi, lo[p], key) /\ KidsIn(bs, lo, hi, key, hi[p])
  <2>1. PICK l, h : l = lo[p] /\ h = hi[p]
    OBVIOUS
  <2>2. KidsIn(es, lo, hi, l, h)
    BY <1>8, <2>1
  <2>3. KidsIn(as, lo, hi, l, es[mid + 1][1]) /\ KidsIn(bs, lo, hi, es[mid + 1][1], h)
    BY <1>7, <1>11, <1>12, <2>2, KidsHalved
  <2> QED BY <1>4, <1>6, <2>1, <2>3
<1>14. \A i \in 1..Len(es) : lo2[es[i][2]] = lo[es[i][2]] /\ hi2[es[i][2]] = hi[es[i][2]]
  BY <1>4, <1>9 DEF Moved
<1>15. \A i \in 1..Len(as) : lo2[as[i][2]] = lo[as[i][2]] /\ hi2[as[i][2]] = hi[as[i][2]]
  <2>1. ASSUME NEW i \in 1..mid PROVE lo2[as[i][2]] = lo[as[i][2]] /\ hi2[as[i][2]] = hi[as[i][2]]
    <3>1. i \in 1..Len(es)
      BY <1>7, <1>11
    <3>2. as[i] = es[i]
      BY <1>11
    <3> QED BY <1>14, <3>1, <3>2
  <2> QED BY <1>11, <2>1
<1>16. \A i \in 1..Len(bs) : lo2[bs[i][2]] = lo[bs[i][2]] /\ hi2[bs[i][2]] = hi[bs[i][2]]
  <2>1. ASSUME NEW i \in 1..(Len(es) - mid)
        PROVE  lo2[bs[i][2]] = lo[bs[i][2]] /\ hi2[bs[i][2]] = hi[bs[i][2]]
    <3>1. mid + i \in 1..Len(es)
      BY <1>7, <1>11
    <3>2. bs[i] = es[mid + i]
      BY <1>11
    <3> QED BY <1>14, <3>1, <3>2
  <2>2. Len(bs) = Len(es) - mid
    BY <1>11
  <2> QED BY ONLY <2>1, <2>2
<1>17. KidsIn(as, lo2, hi2, lo[p], key) /\ KidsIn(bs, lo2, hi2, key, hi[p])
  <2>1. PICK l, h : l = lo[p] /\ h = hi[p]
    OBVIOUS
  <2>0. KidsIn(as, lo, hi, l, key) /\ KidsIn(bs, lo, hi, key, h)
    BY ONLY <1>13, <2>1
  <2>2. KidsIn(as, lo2, hi2, l, key)
    BY ONLY <1>15, <2>0 DEF KidsIn
  <2>3. KidsIn(bs, lo2, hi2, key, h)
    BY ONLY <1>16, <2>0 DEF KidsIn
  <2> QED BY <2>1, <2>2, <2>3
<1>18. Kids(t, p) = as /\ Kids(t, n + 1) = bs
  <2>1. t.up # <<>> => t.up[1] # p /\ t.up[1] # n + 1
    <3>1. SUFFICES ASSUME t.up # <<>> PROVE t.up[1] # p /\ t.up[1] # n + 1
      OBVIOUS
    <3>2. ~ps[p].root /\ t.up = <<ps[p].parent, key, n + 1>>
      BY <1>1, <1>3, <1>4, <3>1 DEF SplitAs
    <3>3. ps[p].parent \in 1..n /\ lev[ps[p].parent] = lev[p] + 1
      BY <1>1, <1>3, <3>2 DEF Levels, ParentOK
    <3>4. lev[p] \in Nat
      BY <1>1, <1>3, LevelIs
    <3>5. t.up[1] = ps[p].parent
      BY <3>2
    <3> QED BY <1>3, <3>3, <3>4, <3>5
  <2> QED BY <1>2, <1>10, <2>1 DEF Kids
<1>19. lo2[p] = lo[p] /\ hi2[p] = key /\ lo2[n + 1] = key /\ hi2[n + 1] = hi[p]
  BY <1>3, <1>4 DEF Moved
<1> QED BY <1>1, <1>17, <1>18, <1>19

\* The new root.
LEMMA KidsOfTop ==
    ASSUME NEW u, NEW p, NEW mid \in Nat, NEW t, NEW lev, NEW lv, NEW lo, NEW hi, NEW lo2, NEW hi2, NEW key,
           Splits(u, p, mid, t, lev, lv, lo, hi, lo2, hi2, key), u.pages[p].root
    PROVE  KidsIn(Kids(t, Len(u.pages) + 2), lo2, hi2, 0, 0)
<1>1. PICK ps, n : ps = u.pages /\ n = Len(ps)
  OBVIOUS
<1>2. PICK es : es = t.pages[n + 2].entries
  OBVIOUS
<1>3. p \in 1..n /\ SplitAs(u, p, mid, t) /\ key = ps[p].entries[mid + 1][1] /\ ps[p].root /\ RootOK(ps, u.root)
  BY <1>1 DEF Splits
<1>4. /\ Len(es) = 2 /\ es[1][1] = 0 /\ es[1][2] = p /\ es[2][1] = key /\ es[2][2] = n + 1
  BY <1>1, <1>2, <1>3 DEF SplitAs, Halved, NoKey
<1>5. t.up = <<>>
  BY <1>1, <1>3 DEF SplitAs
<1>6. Kids(t, n + 2) = es
  BY <1>2, <1>5 DEF Kids
<1>7. lo[p] = 0 /\ hi[p] = 0
  <2>1. p = u.root
    BY <1>1, <1>3 DEF RootOK
  <2> QED BY <2>1 DEF Splits, Fenced
<1>8. key \in Nat /\ 0 < key
  BY <1>7, KeyIs
<1>9. lo2[p] = 0 /\ hi2[p] = key /\ lo2[n + 1] = key /\ hi2[n + 1] = 0
  BY <1>1, <1>3, <1>7 DEF Splits, Refenced, Moved
<1>10. Rising(es)
  <2>1. \A i, j \in 1..2 : i < j => i = 1 /\ j = 2
    OBVIOUS
  <2> QED BY <1>4, <1>8, <2>1 DEF Rising
<1>11. ASSUME NEW i \in 1..2
       PROVE  lo2[es[i][2]] = es[i][1] /\ hi2[es[i][2]] = IF i = 2 THEN 0 ELSE es[i + 1][1]
  <2>1. CASE i = 1
    BY <1>4, <1>9, <2>1
  <2>2. CASE i = 2
    BY <1>4, <1>9, <2>2
  <2> QED BY <2>1, <2>2
<1>12. KidsIn(es, lo2, hi2, 0, 0)
  BY <1>4, <1>10, <1>11 DEF KidsIn
<1> QED BY <1>1, <1>6, <1>12

Sound(t, lev, lo, hi) == Levels(t.pages, lev) /\ UpOK(t, lev) /\ Fenced(t, lev, lo, hi)

LEMMA SplitsKeep ==
    ASSUME NEW u, NEW p, NEW mid \in Nat, NEW t, NEW lev, NEW lv, NEW lo, NEW hi, NEW lo2, NEW hi2, NEW key,
           Splits(u, p, mid, t, lev, lv, lo, hi, lo2, hi2, key)
    PROVE  /\ Sound(t, lv, lo2, hi2)
           /\ t.up # <<>> => lv[t.up[1]] = lev[p] + 1 /\ lv[t.root] = lev[u.root]
<1>1. PICK ps, n : ps = u.pages /\ n = Len(ps)
  OBVIOUS
<1>2. PICK rs : rs = t.pages
  OBVIOUS
<1>3. /\ ps \in Seq(Node) /\ n \in Nat /\ p \in 1..n /\ Levels(ps, lev) /\ Levels(rs, lv)
      /\ RootOK(ps, u.root) /\ (\A q \in 1..n : lv[q] = lev[q]) /\ lv[n + 1] = lev[p]
      /\ SplitAs(u, p, mid, t) /\ key = ps[p].entries[mid + 1][1]
  BY <1>1, <1>2 DEF Splits, Growing
<1>4. \A q \in 1..n : lo[q] \in Nat /\ hi[q] \in Nat /\ Under(lo[q], hi[q]) /\ lev[q] <= lev[u.root]
  BY <1>1 DEF Splits, Fenced
<1>5. lo[u.root] = 0 /\ hi[u.root] = 0 /\ u.root \in 1..n
  BY <1>1 DEF Splits, Fenced, RootOK
<1>6. key \in Nat /\ lo[p] < key /\ Under(key, hi[p])
  BY KeyIs
<1>7. /\ lo2 \in [1..Len(rs) -> Nat] /\ hi2 \in [1..Len(rs) -> Nat]
      /\ \A q \in 1..n : lo2[q] = lo[q] /\ (q # p => hi2[q] = hi[q])
      /\ lo2[n + 1] = key /\ hi2[p] = key /\ hi2[n + 1] = hi[p]
      /\ Len(rs) = n + 2 => lo2[n + 2] = 0 /\ hi2[n + 2] = 0
  BY <1>1, <1>2 DEF Splits, Refenced, Moved
<1>8. Halved(ps, p, mid, rs)
  BY <1>1, <1>2, <1>3 DEF SplitAs
<1>9. /\ Len(rs) = IF ps[p].root THEN n + 2 ELSE n + 1
      /\ t.root = IF ps[p].root THEN n + 2 ELSE u.root
      /\ t.up = IF ps[p].root THEN <<>> ELSE <<ps[p].parent, key, n + 1>>
  BY <1>1, <1>3, <1>8 DEF Halved, SplitAs
<1>10. /\ \A q \in 1..n : q \in 1..Len(rs) /\ lv[q] \in Nat
       /\ n + 1 \in 1..Len(rs) /\ (ps[p].root => n + 2 \in 1..Len(rs))
       /\ \A q \in 1..Len(rs) : q \in 1..n \/ q = n + 1 \/ (q = n + 2 /\ ps[p].root)
  <2>1. \A q \in 1..Len(rs) : lv[q] \in Nat
    BY <1>3, LevelIs
  <2>2. /\ \A q \in 1..n : q \in 1..Len(rs)
        /\ n + 1 \in 1..Len(rs) /\ (ps[p].root => n + 2 \in 1..Len(rs))
        /\ \A q \in 1..Len(rs) : q \in 1..n \/ q = n + 1 \/ (q = n + 2 /\ ps[p].root)
    BY <1>3, <1>9
  <2> QED BY <2>1, <2>2
<1>11. ps[p].root => p = u.root /\ lv[n + 2] = lv[p] + 1 /\ ~rs[n + 2].leaf
  <2>1. SUFFICES ASSUME ps[p].root PROVE p = u.root /\ lv[n + 2] = lv[p] + 1 /\ ~rs[n + 2].leaf
    OBVIOUS
  <2>2. p = u.root
    BY <1>1, <1>3, <2>1 DEF RootOK
  <2>3. ~rs[n + 2].leaf /\ Len(rs[n + 2].entries) = 2 /\ rs[n + 2].entries[1][2] = p
    BY <1>1, <1>8, <2>1 DEF Halved
  <2>4. ChildrenOK(rs, lv, n + 2)
    BY <1>3, <1>10, <2>1, <2>3 DEF Levels
  <2>5. 1 \in 1..Len(rs[n + 2].entries)
    BY <2>3
  <2>6. lv[p] + 1 = lv[n + 2]
    BY <2>3, <2>4, <2>5 DEF ChildrenOK
  <2> QED BY <2>2, <2>3, <2>6
<1>12. ASSUME NEW q \in 1..Len(rs) PROVE Under(lo2[q], hi2[q]) /\ lv[q] <= lv[t.root]
  <2>1. CASE q \in 1..n
    <3>1. Under(lo2[q], hi2[q])
      <4>1. lo2[q] = lo[q] /\ Under(lo[q], hi[q])
        BY <1>4, <1>7, <2>1
      <4>2. q = p => Under(lo2[q], key)
        BY <1>6, <4>1 DEF Under
      <4> QED BY <1>7, <2>1, <4>1, <4>2
    <3>2. lv[q] <= lv[t.root]
      <4>1. lv[q] = lev[q] /\ lev[q] <= lev[u.root] /\ lv[u.root] = lev[u.root] /\ lv[q] \in Nat /\ lv[u.root] \in Nat
        BY <1>3, <1>4, <1>5, <1>10, <2>1
      <4>2. CASE ps[p].root
        BY <1>9, <1>11, <4>1, <4>2
      <4>3. CASE ~ps[p].root
        BY <1>9, <4>1, <4>3
      <4> QED BY <4>2, <4>3
    <3> QED BY <3>1, <3>2
  <2>2. CASE q = n + 1
    <3>1. Under(lo2[q], hi2[q])
      BY <1>6, <1>7, <2>2
    <3>2. lv[q] <= lv[t.root]
      <4>1. lv[q] = lv[p] /\ lv[p] <= lv[u.root] /\ lv[p] \in Nat /\ lv[u.root] \in Nat
        BY <1>3, <1>4, <1>5, <1>10, <2>2
      <4>2. CASE ps[p].root
        BY <1>9, <1>11, <4>1, <4>2
      <4>3. CASE ~ps[p].root
        BY <1>9, <4>1, <4>3
      <4> QED BY <4>2, <4>3
    <3> QED BY <3>1, <3>2
  <2>3. CASE q = n + 2 /\ ps[p].root
    <3>1. hi2[q] = 0 /\ q = t.root
      BY <1>7, <1>9, <2>3
    <3>2. lv[q] \in Nat
      <4>1. lv[p] \in Nat
        BY <1>3, <1>10
      <4> QED BY <1>11, <2>3, <4>1
    <3> QED BY <3>1, <3>2 DEF Under
  <2> QED BY <1>10, <2>1, <2>2, <2>3
<1>13. \A q \in 1..Len(rs) : rs[q].leaf => LeafIn(rs[q], lo2, lo2[q], hi2[q])
  BY <1>2, LeafSplit
<1>14. ASSUME NEW q \in 1..Len(rs), ~rs[q].leaf PROVE KidsIn(Kids(t, q), lo2, hi2, lo2[q], hi2[q])
  <2>1. rs[p].leaf = ps[p].leaf /\ rs[n + 1].leaf = ps[p].leaf
    BY <1>1, <1>8 DEF Halved
  <2>2. CASE q \in 1..n /\ q # p
    <3>1. rs[q] = ps[q]
      BY <1>1, <1>8, <2>2 DEF Halved
    <3>2. q \in 1..Len(u.pages) /\ ~u.pages[q].leaf
      BY <1>1, <1>14, <2>2, <3>1
    <3> QED BY <2>2, <3>2, KidsAbove
  <2>3. CASE q = p
    <3>1. ~u.pages[p].leaf
      BY <1>1, <1>14, <2>1, <2>3
    <3>2. KidsIn(Kids(t, p), lo2, hi2, lo2[p], hi2[p])
      BY <3>1, KidsShared
    <3> QED BY <2>3, <3>2
  <2>4. CASE q = n + 1
    <3>1. ~u.pages[p].leaf
      BY <1>1, <1>14, <2>1, <2>4
    <3>2. KidsIn(Kids(t, Len(u.pages) + 1), lo2, hi2, lo2[Len(u.pages) + 1], hi2[Len(u.pages) + 1])
      BY <3>1, KidsShared
    <3> QED BY <1>1, <2>4, <3>2
  <2>5. CASE q = n + 2 /\ ps[p].root
    <3>1. u.pages[p].root
      BY <1>1, <2>5
    <3>2. KidsIn(Kids(t, Len(u.pages) + 2), lo2, hi2, 0, 0)
      BY <3>1, KidsOfTop
    <3>3. lo2[n + 2] = 0 /\ hi2[n + 2] = 0
      BY <1>7, <1>9, <2>5
    <3> QED BY <1>1, <2>5, <3>2, <3>3
  <2> QED BY <1>10, <2>2, <2>3, <2>4, <2>5
<1>15. \A q, r \in 1..Len(rs) : q # r /\ lv[q] = lv[r] => Apart(lo2, hi2, q, r)
  BY <1>2, ApartSplit
<1>16. lo2[t.root] = 0 /\ hi2[t.root] = 0
  <2>1. CASE ps[p].root
    BY <1>7, <1>9, <2>1
  <2>2. CASE ~ps[p].root
    <3>1. p # u.root
      BY <1>1, <1>3, <2>2 DEF RootOK
    <3> QED BY <1>5, <1>7, <1>9, <2>2, <3>1
  <2> QED BY <2>1, <2>2
<1>17. Fenced(t, lv, lo2, hi2)
  BY <1>2, <1>7, <1>12, <1>13, <1>14, <1>15, <1>16 DEF Fenced
<1>18. ASSUME t.up # <<>>
       PROVE  /\ lv[t.up[1]] = lev[p] + 1 /\ lv[t.root] = lev[u.root]
              /\ UpOK(t, lv)
  <2>1. ~ps[p].root /\ t.up = <<ps[p].parent, key, n + 1>> /\ t.up[1] = ps[p].parent
    BY <1>9, <1>18
  <2>2. ps[p].parent \in 1..n /\ lev[ps[p].parent] = lev[p] + 1
    BY <1>1, <1>3, <2>1 DEF Levels, ParentOK
  <2>3. lv[ps[p].parent] = lev[p] + 1 /\ lv[n + 1] = lev[p] /\ lv[t.root] = lev[u.root]
    BY <1>3, <1>5, <1>9, <2>1, <2>2
  <2>4. ps[p].parent \in 1..Len(t.pages) /\ n + 1 \in 1..Len(t.pages) /\ key \in Nat
    BY <1>2, <1>6, <1>10, <2>2
  <2>5. UpOK(t, lv)
    BY <2>1, <2>3, <2>4 DEF UpOK
  <2> QED BY <2>1, <2>3, <2>5
<1>19. UpOK(t, lv)
  BY <1>18 DEF UpOK
<1> QED BY <1>2, <1>3, <1>17, <1>18, <1>19 DEF Sound

\* A sound tree; what is to go up in it goes to the level above b, and its root
\* is then on level r.
SoundAbove(t, b, r) ==
    \E lev, lo, hi : /\ Sound(t, lev, lo, hi)
                     /\ t.up # <<>> => lev[t.up[1]] = b + 1 /\ lev[t.root] = r

\* A sound tree, and it with page p split in the best of circumstances.
ToSplit(u, p, lev, lo, hi, t) ==
    /\ u \in Growing /\ RootOK(u.pages, u.root) /\ u.up = <<>> /\ Sound(u, lev, lo, hi)
    /\ p \in 1..Len(u.pages) /\ Len(u.pages[p].entries) > 1
    /\ t = Split(u, p) /\ t.met = {}

LEMMA SplitSound ==
    ASSUME NEW u, NEW p, NEW lev, NEW lo, NEW hi, NEW t, ToSplit(u, p, lev, lo, hi, t)
    PROVE  SoundAbove(t, lev[p], lev[u.root])
<1>0. /\ u \in Growing /\ RootOK(u.pages, u.root) /\ u.up = <<>> /\ Sound(u, lev, lo, hi)
      /\ p \in 1..Len(u.pages) /\ Len(u.pages[p].entries) > 1
      /\ t = Split(u, p) /\ t.met = {}
  BY DEF ToSplit
<1>1. PICK ps, n : ps = u.pages /\ n = Len(ps)
  OBVIOUS
<1>2. ps \in Seq(Node) /\ n \in Nat /\ p \in 1..n /\ Levels(ps, lev) /\ Fenced(u, lev, lo, hi)
  BY <1>0, <1>1 DEF Growing, Sound
<1>3. PICK mid \in Nat : SplitAs(u, p, mid, t)
  BY <1>0, SplitKeys
<1>4. Halved(ps, p, mid, t.pages)
  BY <1>1, <1>3 DEF SplitAs
<1>5. PICK lv : Levels(t.pages, lv) /\ (\A q \in 1..n : lv[q] = lev[q]) /\ lv[n + 1] = lev[p]
  <2>1. PICK rs : rs = t.pages
    OBVIOUS
  <2>2. p \in 1..Len(ps) /\ Halved(ps, p, mid, rs)
    BY <1>1, <1>2, <1>4, <2>1
  <2>3. \E lv : Levels(rs, lv) /\ (\A q \in 1..Len(ps) : lv[q] = lev[q]) /\ lv[Len(ps) + 1] = lev[p]
    BY <1>2, <2>2, HalvedLevels
  <2> QED BY <1>1, <2>1, <2>3
<1>6. PICK key : key = ps[p].entries[mid + 1][1]
  OBVIOUS
<1>7. key \in Nat
  BY <1>1, <1>3, <1>6 DEF SplitAs
<1>8. PICK lo2, hi2 : Refenced(n, Len(t.pages), p, key, lo, hi, lo2, hi2)
  <2>1. Len(t.pages) \in {n + 1, n + 2}
    BY <1>1, <1>4 DEF Halved
  <2>2. lo \in [1..n -> Nat] /\ hi \in [1..n -> Nat]
    BY <1>1, <1>2 DEF Fenced
  <2> QED BY <1>2, <1>7, <2>1, <2>2, RefencedIs
<1>9. Splits(u, p, mid, t, lev, lv, lo, hi, lo2, hi2, key)
  BY <1>0, <1>1, <1>2, <1>3, <1>5, <1>6, <1>8 DEF Splits
<1> QED BY <1>9, SplitsKeep DEF SoundAbove

-----------------------------------------------------------------------------
(* Insertions into a fenced tree. *)

\* The new half of the page below goes where Kids has it.
LEMMA InternalFenced ==
    ASSUME NEW t \in Growing, NEW lev, NEW lo, NEW hi, Sound(t, lev, lo, hi),
           NEW a \in 1..Len(t.pages), NEW q \in 1..Len(t.pages), NEW k \in Nat, t.up = <<a, k, q>>,
           NEW n, n = UpTo(t.pages[a].entries, k, 1) + 1
    PROVE  /\ Sound(Entered(t, a, n, <<k, q>>), lev, lo, hi)
           /\ n \in 1..(Len(t.pages[a].entries) + 1)
<1>1. PICK ps : ps = t.pages
  OBVIOUS
<1>2. ps \in Seq(Node) /\ Levels(ps, lev) /\ UpOK(t, lev) /\ Fenced(t, lev, lo, hi) /\ a \in 1..Len(ps)
  BY <1>1 DEF Growing, Sound
<1>3. PICK old : old = ps[a].entries
  OBVIOUS
<1>4. old \in Seq(Pair) /\ Len(old) \in Nat
  BY <1>2, <1>3, PageIs
<1>5. n \in 1..(Len(old) + 1) /\ n = UpTo(old, k, 1) + 1
  <2>1. 1 \in 1..(Len(old) + 1)
    BY <1>4
  <2>2. UpTo(old, k, 1) \in (1 - 1)..Len(old)
    BY <1>4, <2>1, UpToIs
  <2>3. n = UpTo(old, k, 1) + 1
    BY <1>1, <1>3
  <2> QED BY <1>4, <2>2, <2>3
<1>6. PICK e \in Pair : e = <<k, q>>
  <2>1. q \in Nat
    BY <1>1, <1>2
  <2>2. <<k, q>> \in Pair
    BY <2>1 DEF Pair
  <2> QED BY <2>2
<1>7. PICK u : u = Entered(t, a, n, e)
  OBVIOUS
<1>8. PICK es : es = InsertAt(old, n, e)
  OBVIOUS
<1>9. EntersAs(t, a, e, u, es)
  BY <1>1, <1>3, <1>5, <1>7, <1>8, EnteredIs
<1>10. /\ es \in Seq(Pair) /\ u \in Growing /\ u.pages = Put(ps, a, es) /\ u.root = t.root
       /\ u.up = <<>> /\ Len(u.pages) = Len(ps)
  BY <1>1, <1>9 DEF EntersAs
<1>11. /\ u.pages[a].entries = es
       /\ \A p \in 1..Len(ps) : /\ u.pages[p].leaf = ps[p].leaf /\ u.pages[p].right = ps[p].right
                                /\ p # a => u.pages[p].entries = ps[p].entries
  <2>1. /\ Put(ps, a, es)[a].entries = es
        /\ \A p \in 1..Len(ps) : /\ Put(ps, a, es)[p].leaf = ps[p].leaf /\ Put(ps, a, es)[p].right = ps[p].right
                                 /\ p # a => Put(ps, a, es)[p].entries = ps[p].entries
    BY <1>2, <1>10, PutIs
  <2> QED BY <1>10, <2>1
<1>12. Levels(u.pages, lev) /\ ~ps[a].leaf
  BY <1>1, <1>2, <1>3, <1>5, <1>6, <1>7, InternalEntered
<1>13. \A p \in 1..Len(ps) : Kids(u, p) = Kids(t, p)
  <2>1. t.up[1] = a /\ t.up[2] = k /\ t.up[3] = q /\ t.up # <<>>
    OBVIOUS
  <2>2. Kids(t, a) = es
    BY <1>1, <1>3, <1>5, <1>6, <1>8, <2>1 DEF Kids
  <2>3. \A p \in 1..Len(ps) : p # a => Kids(t, p) = ps[p].entries
    BY <1>1, <2>1 DEF Kids
  <2>4. \A p \in 1..Len(ps) : Kids(u, p) = u.pages[p].entries
    BY <1>10 DEF Kids
  <2> QED BY <1>2, <1>11, <2>2, <2>3, <2>4
<1>14. ASSUME NEW p \in 1..Len(ps), u.pages[p].leaf PROVE LeafIn(u.pages[p], lo, lo[p], hi[p])
  <2>1. p # a /\ ps[p].leaf
    BY <1>11, <1>12, <1>14
  <2>2. LeafIn(ps[p], lo, lo[p], hi[p])
    BY <1>1, <1>2, <2>1 DEF Fenced
  <2> QED BY <1>11, <2>1, <2>2 DEF LeafIn
<1>15. ASSUME NEW p \in 1..Len(ps), ~u.pages[p].leaf PROVE KidsIn(Kids(u, p), lo, hi, lo[p], hi[p])
  <2>1. ~ps[p].leaf
    BY <1>11, <1>15
  <2>2. KidsIn(Kids(t, p), lo, hi, lo[p], hi[p])
    BY <1>1, <1>2, <2>1 DEF Fenced
  <2> QED BY <1>13, <2>2
<1>16. Fenced(u, lev, lo, hi)
  BY <1>1, <1>2, <1>10, <1>14, <1>15 DEF Fenced
<1>17. UpOK(u, lev)
  BY <1>10 DEF UpOK
<1> QED BY <1>1, <1>3, <1>5, <1>6, <1>7, <1>12, <1>16, <1>17 DEF Sound

\* A leaf stays in order, and between its fences.
LEMMA LeafInserted ==
    ASSUME NEW node, NEW new, NEW lo, NEW l \in Nat, NEW h \in Nat, NEW es \in Seq(Pair), NEW e \in Pair,
           LeafIn(node, lo, l, h), node.entries = es, new.right = node.right,
           l <= e[1], Under(e[1], h),
           new.entries = InsertAt(es, UpTo(es, e[1], 1) + 1, e)
    PROVE  LeafIn(new, lo, l, h)
<1>1. PICK i : i = UpTo(es, e[1], 1)
  OBVIOUS
<1>2. Len(es) \in Nat /\ (\A j \in 1..Len(es) : es[j][1] \in Nat) /\ e[1] \in Nat
  <2>1. e[1] \in Nat
    BY DEF Pair
  <2> QED BY <2>1, KeysAre
<1>3. i \in 0..Len(es) /\ (\A j \in 1..i : es[j][1] <= e[1]) /\ (i < Len(es) => es[i + 1][1] > e[1])
  <2>1. PICK k \in Nat : k = e[1]
    BY <1>2
  <2>2. 1 \in 1..(Len(es) + 1)
    BY <1>2
  <2>3. UpTo(es, k, 1) \in (1 - 1)..Len(es)
        /\ (\A j \in 1..UpTo(es, k, 1) : es[j][1] <= k)
        /\ (UpTo(es, k, 1) < Len(es) => es[UpTo(es, k, 1) + 1][1] > k)
    BY <2>2, PlaceIs
  <2> QED BY <1>1, <2>1, <2>3
<1>4. PICK ds : ds = InsertAt(es, i + 1, e) /\ Inserted(es, i, e, ds)
  <2>1. i \in 0..Len(es) /\ es \in Seq(Pair) /\ e \in Pair
    BY <1>3
  <2>2. Inserted(es, i, e, InsertAt(es, i + 1, e))
    BY ONLY <2>1, InsertedAre
  <2> QED BY ONLY <2>2
<1>5. /\ Len(ds) = Len(es) + 1
      /\ \A j \in 1..i : ds[j] = es[j]
      /\ ds[i + 1] = e
      /\ \A j \in (i + 1)..Len(es) : ds[j + 1] = es[j]
      /\ \A j \in 1..(Len(es) + 1) : j \in 1..i \/ j = i + 1 \/ \E m \in (i + 1)..Len(es) : j = m + 1
  BY ONLY <1>4, Zenon DEF Inserted
<1>6. /\ \A a, b \in 1..Len(es) : a < b => es[a][1] <= es[b][1]
      /\ \A a \in 1..Len(es) : l <= es[a][1] /\ Under(es[a][1], h)
      /\ node.right = NoNode <=> h = 0
      /\ node.right # NoNode => lo[node.right] = h
  BY DEF LeafIn
<1>7. \A j \in (i + 1)..Len(es) : e[1] <= es[j][1]
  <2>1. ASSUME NEW j \in (i + 1)..Len(es) PROVE e[1] <= es[j][1]
    <3>1. i < Len(es) /\ i + 1 \in 1..Len(es) /\ j \in 1..Len(es)
      BY <1>2, <1>3
    <3>2. j = i + 1 \/ es[i + 1][1] <= es[j][1]
      <4>1. j = i + 1 \/ i + 1 < j
        BY <1>2, <1>3
      <4> QED BY <1>6, <3>1, <4>1
    <3> QED BY <1>2, <1>3, <3>1, <3>2
  <2> QED BY <2>1
<1>8. \A j \in 1..(Len(es) + 1) : l <= ds[j][1] /\ Under(ds[j][1], h)
  <2>1. ASSUME NEW j \in 1..(Len(es) + 1) PROVE l <= ds[j][1] /\ Under(ds[j][1], h)
    <3>1. CASE j \in 1..i
      <4>1. j \in 1..Len(es)
        BY <1>2, <1>3, <3>1
      <4> QED BY <1>5, <1>6, <3>1, <4>1
    <3>2. CASE j = i + 1
      BY <1>5, <3>2
    <3>3. ASSUME NEW m \in (i + 1)..Len(es), j = m + 1 PROVE l <= ds[j][1] /\ Under(ds[j][1], h)
      <4>1. m \in 1..Len(es)
        BY <1>2, <1>3
      <4> QED BY <1>5, <1>6, <3>3, <4>1
    <3> QED BY <1>5, <3>1, <3>2, <3>3
  <2> QED BY <2>1
<1>9. ASSUME NEW a \in 1..(Len(es) + 1), NEW b \in 1..(Len(es) + 1), a < b PROVE ds[a][1] <= ds[b][1]
  <2>1. CASE a \in 1..i
    <3>0. a \in 1..Len(es) /\ ds[a] = es[a]
      BY <1>2, <1>3, <1>5, <2>1
    <3>1. CASE b \in 1..i
      <4>1. b \in 1..Len(es) /\ ds[b] = es[b]
        <5>1. b \in 1..Len(es)
          BY <1>2, <1>3, <3>1
        <5> QED BY <1>5, <3>1, <5>1
      <4> QED BY <1>6, <1>9, <3>0, <4>1
    <3>2. CASE b = i + 1
      BY <1>3, <1>5, <2>1, <3>0, <3>2
    <3>3. ASSUME NEW m \in (i + 1)..Len(es), b = m + 1 PROVE ds[a][1] <= ds[b][1]
      <4>1. m \in 1..Len(es) /\ a < m
        BY <1>2, <1>3, <2>1
      <4> QED BY <1>5, <1>6, <3>0, <3>3, <4>1
    <3> QED BY <1>5, <3>1, <3>2, <3>3
  <2>2. CASE a = i + 1
    <3>1. ~(b \in 1..i) /\ b # i + 1
      BY <1>3, <1>9, <2>2
    <3>2. PICK m \in (i + 1)..Len(es) : b = m + 1
      BY <1>5, <3>1
    <3> QED BY <1>5, <1>7, <2>2, <3>2
  <2>3. ASSUME NEW j \in (i + 1)..Len(es), a = j + 1 PROVE ds[a][1] <= ds[b][1]
    <3>1. ~(b \in 1..i) /\ b # i + 1
      BY <1>3, <1>9, <2>3
    <3>2. PICK m \in (i + 1)..Len(es) : b = m + 1
      BY <1>5, <3>1
    <3>3. j \in 1..Len(es) /\ m \in 1..Len(es) /\ j < m
      BY <1>2, <1>3, <1>9, <2>3, <3>2
    <3> QED BY <1>5, <1>6, <2>3, <3>2, <3>3
  <2> QED BY <1>5, <2>1, <2>2, <2>3
<1>10. new.entries = ds
  BY <1>1, <1>4
<1> QED BY <1>5, <1>6, <1>8, <1>9, <1>10 DEF LeafIn

LEMMA LeafFenced ==
    ASSUME NEW t \in Growing, t.up = <<>>, NEW lev, NEW lo, NEW hi, Sound(t, lev, lo, hi),
           NEW p \in 1..Len(t.pages), t.pages[p].leaf,
           NEW e \in IndexKey \X RowId, lo[p] <= e[1], Under(e[1], hi[p]),
           NEW n, n = UpTo(t.pages[p].entries, e[1], 1) + 1
    PROVE  /\ Sound(Entered(t, p, n, e), lev, lo, hi)
           /\ n \in 1..(Len(t.pages[p].entries) + 1)
<1>1. PICK ps : ps = t.pages
  OBVIOUS
<1>2. ps \in Seq(Node) /\ Levels(ps, lev) /\ Fenced(t, lev, lo, hi) /\ p \in 1..Len(ps) /\ e \in Pair
  BY <1>1, EntryPairs DEF Growing, Sound
<1>3. PICK old : old = ps[p].entries
  OBVIOUS
<1>4. old \in Seq(Pair) /\ Len(old) \in Nat
  BY <1>2, <1>3, PageIs
<1>5. n \in 1..(Len(old) + 1) /\ n = UpTo(old, e[1], 1) + 1
  <2>1. 1 \in 1..(Len(old) + 1)
    BY <1>4
  <2>2. UpTo(old, e[1], 1) \in (1 - 1)..Len(old)
    BY <1>4, <2>1, UpToIs
  <2>3. n = UpTo(old, e[1], 1) + 1
    BY <1>1, <1>3
  <2> QED BY <1>4, <2>2, <2>3
<1>6. PICK u : u = Entered(t, p, n, e)
  OBVIOUS
<1>7. PICK es : es = InsertAt(old, n, e)
  OBVIOUS
<1>8. EntersAs(t, p, e, u, es)
  BY <1>1, <1>2, <1>3, <1>5, <1>6, <1>7, EnteredIs
<1>9. /\ es \in Seq(Pair) /\ u \in Growing /\ u.pages = Put(ps, p, es) /\ u.root = t.root
      /\ u.up = <<>> /\ Len(u.pages) = Len(ps)
  BY <1>1, <1>8 DEF EntersAs
<1>10. /\ u.pages[p].entries = es
       /\ \A q \in 1..Len(ps) : /\ u.pages[q].leaf = ps[q].leaf /\ u.pages[q].right = ps[q].right
                                /\ q # p => u.pages[q].entries = ps[q].entries
  <2>1. /\ Put(ps, p, es)[p].entries = es
        /\ \A q \in 1..Len(ps) : /\ Put(ps, p, es)[q].leaf = ps[q].leaf /\ Put(ps, p, es)[q].right = ps[q].right
                                 /\ q # p => Put(ps, p, es)[q].entries = ps[q].entries
    BY <1>2, <1>9, PutIs
  <2> QED BY <1>9, <2>1
<1>11. Levels(u.pages, lev)
  BY <1>1, <1>2, <1>3, <1>5, <1>6, LeafEntered
<1>12. LeafIn(u.pages[p], lo, lo[p], hi[p])
  <2>1. PICK l, h \in Nat : l = lo[p] /\ h = hi[p]
    BY <1>1, <1>2 DEF Fenced
  <2>2. LeafIn(ps[p], lo, l, h)
    BY <1>1, <1>2, <2>1 DEF Fenced
  <2>3. PICK new : new = u.pages[p]
    OBVIOUS
  <2>4. new.right = ps[p].right /\ new.entries = InsertAt(old, UpTo(old, e[1], 1) + 1, e)
    BY <1>2, <1>5, <1>7, <1>10, <2>3
  <2>5. l <= e[1] /\ Under(e[1], h)
    BY <2>1
  <2>6. LeafIn(new, lo, l, h)
    BY <1>2, <1>3, <1>4, <2>2, <2>4, <2>5, LeafInserted
  <2> QED BY <2>1, <2>3, <2>6
<1>13. ASSUME NEW q \in 1..Len(ps), u.pages[q].leaf PROVE LeafIn(u.pages[q], lo, lo[q], hi[q])
  <2>1. CASE q = p
    BY <1>12, <2>1
  <2>2. CASE q # p
    <3>1. LeafIn(ps[q], lo, lo[q], hi[q])
      BY <1>1, <1>2, <1>10, <1>13 DEF Fenced
    <3> QED BY <1>10, <2>2, <3>1 DEF LeafIn
  <2> QED BY <2>1, <2>2
<1>14. ASSUME NEW q \in 1..Len(ps), ~u.pages[q].leaf PROVE KidsIn(Kids(u, q), lo, hi, lo[q], hi[q])
  <2>1. q # p /\ ~ps[q].leaf
    BY <1>1, <1>10, <1>14
  <2>2. KidsIn(Kids(t, q), lo, hi, lo[q], hi[q])
    BY <1>1, <1>2, <2>1 DEF Fenced
  <2>3. Kids(u, q) = Kids(t, q)
    BY <1>1, <1>9, <1>10, <2>1 DEF Kids
  <2> QED BY <2>2, <2>3
<1>15. Fenced(u, lev, lo, hi)
  BY <1>1, <1>2, <1>9, <1>13, <1>14 DEF Fenced
<1>16. UpOK(u, lev)
  BY <1>9 DEF UpOK
<1> QED BY <1>1, <1>3, <1>5, <1>6, <1>11, <1>15, <1>16 DEF Sound

LEMMA MetGrows ==
    ASSUME NEW t \in Growing, NEW p, NEW e, NEW limit
    PROVE  t.met \subseteq With(t, p, e, limit).met
<1>1. PICK ps : ps = [t.pages EXCEPT ![p].entries = InsertAt(@, UpTo(@, e[1], 1) + 1, e)]
  OBVIOUS
<1>2. PICK u : u = [t EXCEPT !.pages = ps, !.up = <<>>]
  OBVIOUS
<1>3. u.met = t.met
  BY <1>2 DEF Growing
<1>4. With(t, p, e, limit) = IF Len(ps[p].entries) >= limit THEN Split(u, p) ELSE u
  BY <1>1, <1>2 DEF With
<1>5. u.met \subseteq Split(u, p).met
  BY DEF Split
<1> QED BY <1>3, <1>4, <1>5

\* The tree t with the entry e more on page p, sound as it is before a split, and
\* as w after it.
ToEnter(t, p, e, limit, n, lev, lo, hi, w) ==
    /\ t \in Growing /\ RootOK(t.pages, t.root) /\ p \in 1..Len(t.pages) /\ e \in Pair
    /\ limit \in Nat /\ limit > 1
    /\ n \in 1..(Len(t.pages[p].entries) + 1) /\ n = UpTo(t.pages[p].entries, e[1], 1) + 1
    /\ Sound(Entered(t, p, n, e), lev, lo, hi)
    /\ w = With(t, p, e, limit) /\ w.met = {}

LEMMA WithSound ==
    ASSUME NEW t, NEW p, NEW e, NEW limit, NEW n, NEW lev, NEW lo, NEW hi, NEW w,
           ToEnter(t, p, e, limit, n, lev, lo, hi, w)
    PROVE  SoundAbove(w, lev[p], lev[t.root])
<1>0. /\ t \in Growing /\ RootOK(t.pages, t.root) /\ p \in 1..Len(t.pages) /\ e \in Pair
      /\ limit \in Nat /\ limit > 1
      /\ n \in 1..(Len(t.pages[p].entries) + 1) /\ n = UpTo(t.pages[p].entries, e[1], 1) + 1
      /\ Sound(Entered(t, p, n, e), lev, lo, hi)
      /\ w = With(t, p, e, limit) /\ w.met = {}
  BY DEF ToEnter
<1>1. PICK u : u = Entered(t, p, n, e)
  OBVIOUS
<1>2. PICK es : es = InsertAt(t.pages[p].entries, n, e) /\ EntersAs(t, p, e, u, es)
  BY <1>0, <1>1, EnteredIs
<1>3. /\ es \in Seq(Pair) /\ u \in Growing /\ u.pages = Put(t.pages, p, es) /\ u.root = t.root
      /\ u.up = <<>> /\ Len(u.pages) = Len(t.pages)
      /\ \A q \in 1..Len(t.pages) : u.pages[q].root = t.pages[q].root
  BY <1>2 DEF EntersAs
<1>4. RootOK(u.pages, u.root) /\ p \in 1..Len(u.pages)
  BY <1>0, <1>3 DEF RootOK
<1>5. w = IF Len(u.pages[p].entries) >= limit THEN Split(u, p) ELSE u
  <2>1. With(t, p, e, limit) =
           LET ps == Put(t.pages, p, es) IN IF Len(ps[p].entries) >= limit THEN Split(u, p) ELSE u
    BY <1>0, <1>1, <1>2 DEF With, Put, Entered
  <2> QED BY <1>0, <1>3, <2>1
<1>6. u.pages[p].entries = es /\ Len(es) \in Nat
  <2>1. t.pages \in Seq(Node)
    BY <1>0 DEF Growing
  <2>2. Put(t.pages, p, es)[p].entries = es
    BY <1>0, <1>3, <2>1, PutIs
  <2> QED BY <1>3, <2>2
<1>7. CASE Len(u.pages[p].entries) >= limit
  <2>1. w = Split(u, p) /\ Len(u.pages[p].entries) > 1
    BY <1>0, <1>5, <1>6, <1>7
  <2>2. ToSplit(u, p, lev, lo, hi, w)
    BY <1>0, <1>1, <1>3, <1>4, <2>1 DEF ToSplit
  <2>3. SoundAbove(w, lev[p], lev[u.root])
    BY <2>2, SplitSound
  <2> QED BY <1>3, <2>3
<1>8. CASE ~(Len(u.pages[p].entries) >= limit)
  <2>1. w = u
    BY <1>5, <1>8
  <2>2. Sound(w, lev, lo, hi)
    BY <1>0, <1>1, <2>1
  <2>3. w.up = <<>> /\ w.root = t.root
    BY <1>3, <2>1
  <2>4. w.up # <<>> => lev[w.up[1]] = lev[p] + 1
    BY ONLY <2>3
  <2>5. lev[w.root] = lev[t.root]
    BY ONLY <2>3
  <2> QED BY ONLY <2>2, <2>4, <2>5, Zenon DEF SoundAbove
<1> QED BY <1>7, <1>8

\* The n-th tree of a climb in the best of circumstances: what is still to go up goes
\* to a page on a level above n.
Climbing(w, n, K) ==
    w.met = {} => \E lev, lo, hi : /\ Sound(w, lev, lo, hi)
                                   /\ w.up # <<>> => lev[w.up[1]] > n /\ lev[w.root] < K

LEMMA ClimbsOn ==
    ASSUME NEW w, NEW E, TreeOf(w, E), NEW n \in Nat, NEW K \in Nat, Climbing(w, n, K)
    PROVE  Climbing(Up(w), n + 1, K)
<1>1. w \in Growing /\ RootOK(w.pages, w.root)
  BY DEF TreeOf
<1>2. CASE w.up = <<>>
  BY <1>2 DEF Climbing, Up
<1>3. CASE w.up # <<>>
  <2>1. PICK x : x = Up(w)
    OBVIOUS
  <2>2. PICK a, q \in 1..Len(w.pages), k \in Nat : w.up = <<a, k, q>>
    BY <1>3 DEF TreeOf, Standing, UpOK
  <2>3. w.up[1] = a /\ w.up[2] = k /\ w.up[3] = q
    BY <2>2
  <2>4. PICK e : e = <<k, q>>
    OBVIOUS
  <2>5. e \in Pair /\ e[1] = k
    <3>1. q \in Nat
      BY <1>1 DEF Growing
    <3> QED BY <2>4, <3>1 DEF Pair
  <2>6. x = With(w, a, e, MaxInternalKeys)
    BY <1>3, <2>1, <2>3, <2>4 DEF Up
  <2>7. SUFFICES ASSUME x.met = {}
                 PROVE  \E lv, lo2, hi2 : /\ Sound(x, lv, lo2, hi2)
                                          /\ x.up # <<>> => lv[x.up[1]] > n + 1 /\ lv[x.root] < K
    BY <2>1 DEF Climbing
  <2>8. w.met = {}
    BY <1>1, <2>6, <2>7, MetGrows
  <2>9. PICK lev, lo, hi : Sound(w, lev, lo, hi) /\ lev[a] > n /\ lev[w.root] < K
    BY <1>3, <2>3, <2>8 DEF Climbing
  <2>10. PICK m : m = UpTo(w.pages[a].entries, k, 1) + 1
    OBVIOUS
  <2>11. Sound(Entered(w, a, m, e), lev, lo, hi) /\ m \in 1..(Len(w.pages[a].entries) + 1)
    BY <1>1, <2>2, <2>4, <2>9, <2>10, InternalFenced
  <2>12. MaxInternalKeys \in Nat /\ MaxInternalKeys > 1
    BY TreeConstants
  <2>13. PICK lv, lo2, hi2 : /\ Sound(x, lv, lo2, hi2)
                             /\ x.up # <<>> => lv[x.up[1]] = lev[a] + 1 /\ lv[x.root] = lev[w.root]
    <3>1. m = UpTo(w.pages[a].entries, e[1], 1) + 1
      BY <2>5, <2>10
    <3>2. ToEnter(w, a, e, MaxInternalKeys, m, lev, lo, hi, x)
      BY <1>1, <2>2, <2>4, <2>5, <2>6, <2>7, <2>11, <2>12, <3>1 DEF ToEnter
    <3>3. SoundAbove(x, lev[a], lev[w.root])
      BY <3>2, WithSound
    <3> QED BY <3>3 DEF SoundAbove
  <2>14. lev[a] \in Nat
    <3>1. Levels(w.pages, lev)
      BY <2>9 DEF Sound
    <3> QED BY <3>1, LevelIs
  <2>15. x.up # <<>> => lv[x.up[1]] > n + 1 /\ lv[x.root] < K
    BY <2>9, <2>13, <2>14
  <2> QED BY <2>13, <2>15
<1> QED BY <1>2, <1>3

\* The climb ends at the root, if not before.
LEMMA ClimbedSound ==
    ASSUME NEW t, NEW E, TreeOf(t, E), Len(pages) \in Nat, Climbing(t, 0, Len(pages)), Climbed(t).met = {}
    PROVE  Climbed(t).up = <<>> /\ \E lev, lo, hi : Sound(Climbed(t), lev, lo, hi)
<1>1. PICK K \in Nat : K = Len(pages)
  OBVIOUS
<1>2. PICK l : Climb(l, t, K) /\ Climbed(t) = l[K] /\ \A n \in 0..K : TreeOf(l[n], E)
  BY <1>1, ClimbedIs
<1> DEFINE Bad == {n \in 0..K : ~Climbing(l[n], n, K)}
<1>3. Bad = {}
  <2>1. SUFFICES ASSUME Bad # {} PROVE FALSE
    OBVIOUS
  <2>2. PICK n \in Bad : \A j \in Bad : n <= j
    <3>1. Bad \in SUBSET Nat
      OBVIOUS
    <3> HIDE DEF Bad
    <3> QED BY <2>1, <3>1, LeastOf
  <2>3. n # 0
    BY <1>1, <1>2, <2>2 DEF Climb
  <2>4. n \in 0..K
    OBVIOUS
  <2>5. n - 1 \in 0..K /\ n - 1 \notin Bad /\ n \in 1..K
    <3>1. n - 1 \in 0..K /\ ~(n <= n - 1) /\ n \in 1..K
      BY <2>3, <2>4
    <3> HIDE DEF Bad
    <3> QED BY <2>2, <3>1
  <2>6. PICK w, m : w = l[n - 1] /\ m = n - 1
    OBVIOUS
  <2>7. m \in Nat /\ m + 1 = n /\ TreeOf(w, E) /\ Climbing(w, m, K)
    BY <1>2, <2>4, <2>5, <2>6
  <2>8. Climbing(Up(w), m + 1, K)
    BY <2>7, ClimbsOn
  <2>9. l[n] = Up(w)
    BY <1>2, <2>5, <2>6 DEF Climb
  <2> QED BY <2>2, <2>7, <2>8, <2>9
<1>4. PICK w : w = Climbed(t)
  OBVIOUS
<1>5. Climbing(w, K, K) /\ TreeOf(w, E)
  <2>1. K \in 0..K
    OBVIOUS
  <2> QED BY <1>2, <1>3, <1>4, <2>1
<1>6. PICK lev, lo, hi : /\ Sound(w, lev, lo, hi)
                         /\ w.up # <<>> => lev[w.up[1]] > K /\ lev[w.root] < K
  BY <1>4, <1>5 DEF Climbing
<1>7. w.up = <<>>
  <2>1. SUFFICES ASSUME w.up # <<>> PROVE FALSE
    OBVIOUS
  <2>2. PICK a \in 1..Len(w.pages) : w.up[1] = a
    <3>1. PICK a, q \in 1..Len(w.pages), k \in Nat : w.up = <<a, k, q>>
      BY <1>5, <2>1 DEF TreeOf, Standing, UpOK
    <3>2. w.up[1] = a
      BY <3>1
    <3> QED BY <3>2
  <2>3. lev[a] <= lev[w.root]
    BY <1>6, <2>2 DEF Sound, Fenced
  <2>4. lev[a] \in Nat /\ lev[w.root] \in Nat
    <3>1. Levels(w.pages, lev)
      BY <1>6 DEF Sound
    <3>2. w.root \in 1..Len(w.pages)
      BY <1>5 DEF TreeOf, RootOK
    <3> QED BY <2>2, <3>1, <3>2, LevelIs
  <2> QED BY <1>6, <2>1, <2>2, <2>3, <2>4
<1> QED BY <1>4, <1>6, <1>7

-----------------------------------------------------------------------------
(* The fenced index. *)

\* The pages of a finished tree, between their fences.
Fences(ps, r, lev, lo, hi) ==
    /\ Levels(ps, lev)
    /\ lo \in [1..Len(ps) -> Nat] /\ hi \in [1..Len(ps) -> Nat]
    /\ \A p \in 1..Len(ps) : Under(lo[p], hi[p]) /\ lev[p] <= lev[r]
    /\ \A p \in 1..Len(ps) : ps[p].leaf => LeafIn(ps[p], lo, lo[p], hi[p])
    /\ \A p \in 1..Len(ps) : ~ps[p].leaf => KidsIn(ps[p].entries, lo, hi, lo[p], hi[p])
    /\ \A p, q \in 1..Len(ps) : p # q /\ lev[p] = lev[q] => Apart(lo, hi, p, q)
    /\ lo[r] = 0 /\ hi[r] = 0

FencesUp == \E lev, lo, hi : Fences(pages, root, lev, lo, hi)

FenceInv == TreeInv /\ FencesUp

LEMMA SoundIs ==
    ASSUME NEW t, t.up = <<>>, NEW lev, NEW lo, NEW hi
    PROVE  Sound(t, lev, lo, hi) <=> Fences(t.pages, t.root, lev, lo, hi)
<1>1. UpOK(t, lev)
  BY DEF UpOK
<1>2. \A p : Kids(t, p) = t.pages[p].entries
  BY DEF Kids
<1>3. Fenced(t, lev, lo, hi) /\ Levels(t.pages, lev) <=> Fences(t.pages, t.root, lev, lo, hi)
  BY <1>2 DEF Fenced, Fences
<1> QED BY <1>1, <1>3 DEF Sound

LEMMA TreeIs ==
    ASSUME NEW ps, NEW r
    PROVE  /\ Tree(ps, r).pages = ps /\ Tree(ps, r).root = r
           /\ Tree(ps, r).up = <<>> /\ Tree(ps, r).met = {}
BY DEF Tree

\* A search goes down between fences that have its key between them.
LEMMA FindLeafFenced ==
    ASSUME TreeInv, NEW lev, NEW lo, NEW hi, Fences(pages, root, lev, lo, hi), NEW k \in Nat
    PROVE  /\ FindLeaf(k) \in 1..Len(pages) /\ pages[FindLeaf(k)].leaf
           /\ lo[FindLeaf(k)] <= k /\ Under(k, hi[FindLeaf(k)])
<1> DEFINE S == {p \in 1..Len(pages) : lo[p] <= k /\ Under(k, hi[p])}
<1>1. pages \in Seq(Node) /\ root \in 1..Len(pages)
  BY WholeIs DEF TreeInv, RootOK
<1>2. Levels(pages, lev) /\ lo[root] = 0 /\ hi[root] = 0
  BY DEF Fences
<1>3. root \in S
  BY <1>1, <1>2 DEF Under
<1>4. ASSUME NEW p \in S, ~pages[p].leaf PROVE Child(p, k) \in S
  <2>0. PICK h \in Nat : h = hi[p]
    BY DEF Fences
  <2>1. PICK es : es = pages[p].entries
    OBVIOUS
  <2>2. p \in 1..Len(pages) /\ es \in Seq(Pair) /\ KidsIn(es, lo, hi, lo[p], h)
    <3>1. p \in 1..Len(pages)
      OBVIOUS
    <3>2. pages[p].entries \in Seq(Pair)
      BY <1>1, <3>1, PageIs
    <3> QED BY <1>4, <2>0, <2>1, <3>1, <3>2 DEF Fences
  <2>3. PICK m : m = UpTo(es, k, 2)
    OBVIOUS
  <2>4. Len(es) \in Nat /\ Len(es) > 0 /\ \A i \in 1..Len(es) : es[i][1] \in Nat
    BY <2>2, KeysAre DEF KidsIn
  <2>5. m \in 1..Len(es) /\ (\A i \in 2..m : es[i][1] <= k) /\ (m < Len(es) => es[m + 1][1] > k)
    <3>1. 2 \in 1..(Len(es) + 1)
      BY <2>4
    <3>2. UpTo(es, k, 2) \in (2 - 1)..Len(es)
          /\ (\A i \in 2..UpTo(es, k, 2) : es[i][1] <= k)
          /\ (UpTo(es, k, 2) < Len(es) => es[UpTo(es, k, 2) + 1][1] > k)
      BY <2>2, <3>1, PlaceIs
    <3> QED BY <2>3, <3>2
  <2>6. Child(p, k) = es[m][2]
    BY <2>1, <2>3 DEF Child
  <2>7. es[m][1] <= k
    <3>1. CASE m = 1
      <4>1. es[1][1] = lo[p] /\ lo[p] <= k
        BY <2>2 DEF KidsIn
      <4> QED BY <3>1, <4>1
    <3>2. CASE m # 1
      <4>1. m \in 2..m
        BY <2>4, <2>5, <3>2
      <4> QED BY <2>5, <4>1
    <3> QED BY <3>1, <3>2
  <2>8. lo[es[m][2]] = es[m][1] /\ hi[es[m][2]] = IF m = Len(es) THEN h ELSE es[m + 1][1]
    BY <2>2, <2>5 DEF KidsIn
  <2>9. Under(k, hi[es[m][2]])
    <3>1. CASE m = Len(es)
      BY <2>0, <2>8, <3>1
    <3>2. CASE m # Len(es)
      <4>1. m < Len(es) /\ m + 1 \in 1..Len(es)
        BY <2>4, <2>5, <3>2
      <4>2. es[m + 1][1] \in Nat /\ es[m + 1][1] > k
        BY <2>4, <2>5, <4>1
      <4> QED BY <2>8, <3>2, <4>2 DEF Under
    <3> QED BY <3>1, <3>2
  <2>10. Child(p, k) \in 1..Len(pages)
    BY <1>1, <1>2, <1>4, <2>2, ChildIs
  <2> QED BY <2>6, <2>7, <2>8, <2>9, <2>10
<1>5. S \in SUBSET (1..Len(pages))
  OBVIOUS
<1> HIDE DEF S
<1>6. FindLeaf(k) \in S /\ pages[FindLeaf(k)].leaf
  BY <1>3, <1>4, <1>5, WayDown
<1> QED BY <1>6 DEF S

LEMMA InitFenced == TreeInit => FenceInv
<1> SUFFICES ASSUME TreeInit PROVE FenceInv
  OBVIOUS
<1>1. TreeInv
  BY InitTree
<1>2. Len(pages) = 1 /\ pages[1].leaf /\ pages[1].entries = <<>> /\ pages[1].right = NoNode /\ root = 1
  BY DEF TreeInit
<1>3. PICK lev : Levels(pages, lev)
  BY <1>1, WholeIs DEF TreeInv
<1> DEFINE zero == [p \in 1..1 |-> 0]
<1>4. \A p \in 1..Len(pages) : p = 1
  BY <1>2
<1>5. zero \in [1..Len(pages) -> Nat] /\ zero[1] = 0
  BY <1>2
<1> HIDE DEF zero
<1>6. LeafIn(pages[1], zero, 0, 0)
  BY <1>2 DEF LeafIn, NoNode
<1>7. lev[1] <= lev[1]
  <2>1. 1 \in 1..Len(pages)
    BY <1>2
  <2>2. lev[1] \in Nat
    BY <1>3, <2>1, LevelIs
  <2> QED BY <2>2
<1>8. Fences(pages, root, lev, zero, zero)
  BY <1>2, <1>3, <1>4, <1>5, <1>6, <1>7 DEF Fences, Under
<1> QED BY <1>1, <1>8 DEF FenceInv, FencesUp

LEMMA InsertFenced ==
    ASSUME TreeCircumstances = {}, FenceInv, NEW k \in IndexKey, NEW c \in RowId, InsertEntry(k, c)
    PROVE  FencesUp'
<1>1. TreeInv
  BY DEF FenceInv
<1>2. PICK lev, lo, hi : Fences(pages, root, lev, lo, hi)
  BY DEF FenceInv, FencesUp
<1>3. PICK e : e = <<k, c>>
  OBVIOUS
<1>4. e \in IndexKey \X RowId /\ e[1] = k /\ k \in Nat /\ e \in Pair
  <2>1. e \in IndexKey \X RowId /\ e[1] = k
    BY <1>3
  <2> QED BY <2>1, EntryPairs, TreeConstants
<1>5. PICK p : p = FindLeaf(k)
  OBVIOUS
<1>6. p \in 1..Len(pages) /\ pages[p].leaf /\ lo[p] <= k /\ Under(k, hi[p])
  BY <1>1, <1>2, <1>4, <1>5, FindLeafFenced
<1>7. PICK t : t = Tree(pages, root)
  OBVIOUS
<1>8. TreeOf(t, On(pages)) /\ t.pages = pages /\ t.root = root /\ t.up = <<>>
  BY <1>1, <1>7, TreeIs DEF TreeInv, Whole
<1>9. t \in Growing /\ RootOK(t.pages, t.root)
  BY <1>8 DEF TreeOf
<1>10. Sound(t, lev, lo, hi)
  BY <1>2, <1>8, SoundIs
<1>11. PICK n : n = UpTo(t.pages[p].entries, e[1], 1) + 1
  OBVIOUS
<1>12. Sound(Entered(t, p, n, e), lev, lo, hi) /\ n \in 1..(Len(t.pages[p].entries) + 1)
  <2>1. p \in 1..Len(t.pages) /\ t.pages[p].leaf /\ lo[p] <= e[1] /\ Under(e[1], hi[p])
    BY <1>4, <1>6, <1>8
  <2> QED BY <1>4, <1>8, <1>9, <1>10, <1>11, <2>1, LeafFenced
<1>13. PICK b : b = With(t, p, e, MaxLeafKeys)
  OBVIOUS
<1>14. b.met = {} => SoundAbove(b, lev[p], lev[root])
  <2>1. SUFFICES ASSUME b.met = {} PROVE SoundAbove(b, lev[p], lev[root])
    OBVIOUS
  <2>2. ToEnter(t, p, e, MaxLeafKeys, n, lev, lo, hi, b)
    BY <1>4, <1>6, <1>8, <1>9, <1>11, <1>12, <1>13, <2>1, TreeConstants DEF ToEnter
  <2>3. SoundAbove(b, lev[p], lev[t.root])
    BY <2>2, WithSound
  <2> QED BY <1>8, <2>3
<1>15. lev[p] \in Nat /\ lev[root] \in Nat /\ lev[root] < Len(pages) /\ Len(pages) \in Nat
  <2>1. Levels(pages, lev) /\ pages \in Seq(Node)
    BY <1>2 DEF Fences, Levels
  <2>2. root \in 1..Len(pages)
    BY <1>8, <1>9 DEF RootOK
  <2>3. lev[p] \in 0..(Len(pages) - 1) /\ lev[root] \in 0..(Len(pages) - 1)
    BY <1>6, <2>1, <2>2 DEF Levels
  <2> QED BY <2>1, <2>3
<1>16. Climbing(b, 0, Len(pages))
  <2>1. PICK x, K : x = lev[p] /\ K = Len(pages)
    OBVIOUS
  <2>2. \A y : y = x + 1 => y > 0
    BY <1>15, <2>1
  <2> QED BY <1>14, <1>15, <2>1, <2>2 DEF Climbing, SoundAbove
<1>17. TreeOf(b, On(pages) \cup {e})
  <2>1. e \notin On(pages)
    BY <1>1, <1>3, EntriesNow DEF InsertEntry
  <2>2. p \in 1..Len(t.pages) /\ t.pages[p].leaf
    BY <1>6, <1>8
  <2> QED BY <1>4, <1>8, <1>13, <2>1, <2>2, LeafGrows
<1>18. PICK w : w = Climbed(b)
  OBVIOUS
<1>19. w.met \subseteq TreeCircumstances /\ pages' = w.pages /\ root' = w.root
  BY <1>3, <1>5, <1>7, <1>13, <1>18 DEF InsertEntry
<1>20. w.met = {}
  BY <1>19
<1>21. w.up = <<>> /\ \E lv, lo2, hi2 : Sound(w, lv, lo2, hi2)
  BY <1>15, <1>16, <1>17, <1>18, <1>20, ClimbedSound
<1>22. \E lv, lo2, hi2 : Fences(w.pages, w.root, lv, lo2, hi2)
  BY <1>21, SoundIs
<1> QED BY <1>19, <1>22 DEF FencesUp

\* A leaf that loses an entry stays in order, and between its fences.
LEMMA LeafRemoved ==
    ASSUME NEW node, NEW new, NEW lo, NEW l, NEW h, NEW es \in Seq(Pair), NEW m \in 1..Len(es),
           LeafIn(node, lo, l, h), node.entries = es, new.right = node.right,
           new.entries = RemoveAt(es, m)
    PROVE  LeafIn(new, lo, l, h)
<1>1. PICK ds : ds = RemoveAt(es, m)
  OBVIOUS
<1>2. Len(es) \in Nat /\ Len(ds) = Len(es) - 1
      /\ \A i \in 1..(Len(es) - 1) : ds[i] = IF i < m THEN es[i] ELSE es[i + 1]
  <2>1. /\ RemoveAt(es, m) \in Seq(Pair) /\ Len(RemoveAt(es, m)) = Len(es) - 1
        /\ \A i \in 1..(Len(es) - 1) : RemoveAt(es, m)[i] = IF i < m THEN es[i] ELSE es[i + 1]
    BY RemoveAtIs
  <2> QED BY <1>1, <2>1
<1>3. /\ \A i, j \in 1..Len(es) : i < j => es[i][1] <= es[j][1]
      /\ \A i \in 1..Len(es) : l <= es[i][1] /\ Under(es[i][1], h)
      /\ node.right = NoNode <=> h = 0
      /\ node.right # NoNode => lo[node.right] = h
  BY DEF LeafIn
<1> DEFINE from(i) == IF i < m THEN i ELSE i + 1
<1>4. \A i \in 1..(Len(es) - 1) : from(i) \in 1..Len(es) /\ ds[i] = es[from(i)]
  BY <1>2
<1>5. \A i, j \in 1..(Len(es) - 1) : i < j => from(i) < from(j)
  BY <1>2
<1> HIDE DEF from
<1>6. /\ \A i, j \in 1..Len(ds) : i < j => ds[i][1] <= ds[j][1]
      /\ \A i \in 1..Len(ds) : l <= ds[i][1] /\ Under(ds[i][1], h)
  <2>1. 1..Len(ds) = 1..(Len(es) - 1)
    BY <1>2
  <2>2. ASSUME NEW i \in 1..Len(ds), NEW j \in 1..Len(ds), i < j PROVE ds[i][1] <= ds[j][1]
    <3>1. from(i) \in 1..Len(es) /\ from(j) \in 1..Len(es) /\ from(i) < from(j)
          /\ ds[i] = es[from(i)] /\ ds[j] = es[from(j)]
      BY <1>4, <1>5, <2>1, <2>2
    <3>2. PICK a, b \in 1..Len(es) : a = from(i) /\ b = from(j)
      BY <3>1
    <3>3. a < b /\ ds[i] = es[a] /\ ds[j] = es[b]
      BY <3>1, <3>2
    <3> QED BY <1>3, <3>3
  <2>3. ASSUME NEW i \in 1..Len(ds) PROVE l <= ds[i][1] /\ Under(ds[i][1], h)
    <3>1. PICK a \in 1..Len(es) : ds[i] = es[a]
      BY <1>4, <2>1
    <3> QED BY <1>3, <3>1
  <2> QED BY <2>2, <2>3
<1>7. new.entries = ds
  BY <1>1
<1> QED BY <1>3, <1>6, <1>7 DEF LeafIn

LEMMA RemoveFenced ==
    ASSUME FenceInv, NEW k \in IndexKey, NEW c \in RowId, RemoveEntry(k, c)
    PROVE  FencesUp'
<1>1. TreeInv /\ pages \in Seq(Node)
  BY WholeIs DEF FenceInv, TreeInv
<1>2. PICK lev, lo, hi : Fences(pages, root, lev, lo, hi)
  BY DEF FenceInv, FencesUp
<1>3. root' = root
  BY <1>1, RemovedIs
<1>4. PICK p \in Leaf, m \in Nat :
        /\ m \in 1..Len(pages[p].entries) /\ pages[p].entries[m] = <<k, c>>
        /\ pages' = Put(pages, p, RemoveAt(pages[p].entries, m))
  BY <1>1, RemovedIs
<1>5. p \in 1..Len(pages) /\ pages[p].leaf
  BY DEF Leaf
<1>6. PICK old, es : old = pages[p].entries /\ es = RemoveAt(old, m)
  OBVIOUS
<1>7. old \in Seq(Pair) /\ m \in 1..Len(old)
  BY <1>1, <1>4, <1>5, <1>6, PageIs
<1>8. es \in Seq(Pair) /\ Len(old) \in Nat
      /\ \A i \in 1..Len(es) : \E j \in 1..Len(old) : es[i] = old[j]
  <2>1. /\ RemoveAt(old, m) \in Seq(Pair) /\ Len(RemoveAt(old, m)) = Len(old) - 1
        /\ \A i \in 1..(Len(old) - 1) : RemoveAt(old, m)[i] = IF i < m THEN old[i] ELSE old[i + 1]
    BY <1>7, RemoveAtIs
  <2>2. Len(old) \in Nat
    BY <1>7
  <2>3. \A i \in 1..(Len(old) - 1) : i \in 1..Len(old) /\ i + 1 \in 1..Len(old)
    BY <2>2
  <2> QED BY <1>6, <2>1, <2>2, <2>3
<1>9. PICK qs : qs = Put(pages, p, es)
  OBVIOUS
<1>10. /\ qs \in Seq(Node) /\ Len(qs) = Len(pages) /\ qs[p].entries = es
       /\ \A q \in 1..Len(pages) : /\ qs[q].leaf = pages[q].leaf /\ qs[q].right = pages[q].right
                                   /\ q # p => qs[q].entries = pages[q].entries
  BY <1>1, <1>5, <1>8, <1>9, PutIs
<1>11. Levels(qs, lev)
  <2>1. Levels(pages, lev)
    BY <1>2 DEF Fences
  <2>2. \A i \in 1..Len(old) : old[i] \in IndexKey \X RowId
    BY <1>5, <1>6, <2>1 DEF Levels, LeafOK
  <2>3. FitsIn(pages, lev, p, es)
    BY <1>5, <1>8, <2>2 DEF FitsIn
  <2> QED BY <1>1, <1>5, <1>8, <1>9, <2>1, <2>3, PutLevels
<1>12. LeafIn(qs[p], lo, lo[p], hi[p])
  <2>1. PICK node, new, l, h : node = pages[p] /\ new = qs[p] /\ l = lo[p] /\ h = hi[p]
    OBVIOUS
  <2>2. LeafIn(node, lo, l, h)
    BY <1>2, <1>5, <2>1 DEF Fences
  <2>3. node.entries = old /\ new.right = node.right /\ new.entries = RemoveAt(old, m)
    BY <1>5, <1>6, <1>10, <2>1
  <2> QED BY <1>7, <2>1, <2>2, <2>3, LeafRemoved
<1>13. ASSUME NEW q \in 1..Len(pages), qs[q].leaf PROVE LeafIn(qs[q], lo, lo[q], hi[q])
  <2>1. CASE q = p
    BY <1>12, <2>1
  <2>2. CASE q # p
    <3>1. LeafIn(pages[q], lo, lo[q], hi[q])
      BY <1>2, <1>10, <1>13 DEF Fences
    <3> QED BY <1>10, <2>2, <3>1 DEF LeafIn
  <2> QED BY <2>1, <2>2
<1>14. ASSUME NEW q \in 1..Len(pages), ~qs[q].leaf
       PROVE  KidsIn(qs[q].entries, lo, hi, lo[q], hi[q])
  <2>1. ~pages[q].leaf /\ qs[q].entries = pages[q].entries
    BY <1>5, <1>10, <1>14
  <2>2. KidsIn(pages[q].entries, lo, hi, lo[q], hi[q])
    BY <1>2, <2>1 DEF Fences
  <2> QED BY <2>1, <2>2
<1>15. Fences(qs, root, lev, lo, hi)
  BY <1>2, <1>10, <1>11, <1>13, <1>14 DEF Fences
<1>16. pages' = qs
  BY <1>4, <1>6, <1>9
<1> QED BY <1>3, <1>15, <1>16 DEF FencesUp

LEMMA NextFenced ==
    TreeCircumstances = {} /\ FenceInv /\ [TreeNext]_treeVars => FenceInv'
<1> SUFFICES ASSUME TreeCircumstances = {}, FenceInv, [TreeNext]_treeVars PROVE FenceInv'
  OBVIOUS
<1>1. TreeInv'
  BY NextTree DEF FenceInv
<1>2. FencesUp'
  <2>1. ASSUME NEW k \in IndexKey, NEW c \in RowId, InsertEntry(k, c) PROVE FencesUp'
    BY <2>1, InsertFenced
  <2>2. ASSUME NEW k \in IndexKey, NEW c \in RowId, RemoveEntry(k, c) PROVE FencesUp'
    BY <2>2, RemoveFenced
  <2>3. ASSUME pages' = pages, root' = root PROVE FencesUp'
    BY <2>3 DEF FenceInv, FencesUp
  <2>4. ASSUME Reopen PROVE FencesUp'
    <3>1. RootOK(pages, root)
      BY WholeIs DEF FenceInv, TreeInv
    <3>2. {p \in DOMAIN pages : pages[p].root} = {root} /\ root \in Nat
      <4>1. pages \in Seq(Node)
        BY WholeIs DEF FenceInv, TreeInv
      <4> QED BY <3>1, <4>1 DEF RootOK
    <3>3. Min({root}) \in {root}
      BY <3>2, MinIs
    <3>4. root' = root /\ pages' = pages
      BY <2>4, <3>2, <3>3 DEF Reopen
    <3> QED BY <2>3, <3>4
  <2> QED BY <2>1, <2>2, <2>3, <2>4 DEF TreeNext, treeVars
<1> QED BY <1>1, <1>2 DEF FenceInv

-----------------------------------------------------------------------------
(* What a lookup reads, and what it picks out of it. *)

\* The entries of the first n leaves of c, for every n.
Reading(c, t) ==
    /\ t[0] = <<>>
    /\ \A n \in 1..Len(c) : t[n] = t[n - 1] \o pages[c[n]].entries
    /\ \A n \in 0..Len(c) : t[n] \in Seq(Pair)

LEMMA EntriesOnAre ==
    ASSUME pages \in Seq(Node), NEW c \in Seq(1..Len(pages))
    PROVE  \E t : Reading(c, t) /\ EntriesOn(c) = t[Len(c)]
<1> DEFINE K == Len(c)
           S == Seq(Pair)
           F == [x \in (1..K) \X S |-> x[2] \o pages[c[x[1]]].entries]
           from(t, n) == IF n = 0 THEN <<>> ELSE t[n - 1] \o pages[c[n]].entries
<1>1. K \in Nat /\ <<>> \in S
  OBVIOUS
<1>2. \A n \in 1..K : pages[c[n]].entries \in Seq(Pair)
  <2>1. \A n \in 1..K : c[n] \in 1..Len(pages)
    OBVIOUS
  <2> QED BY <2>1, PageIs
<1>3. F \in [(1..K) \X S -> S]
  <2>1. ASSUME NEW x \in (1..K) \X S PROVE x[2] \o pages[c[x[1]]].entries \in S
    <3>1. x[1] \in 1..K /\ x[2] \in Seq(Pair)
      OBVIOUS
    <3>2. pages[c[x[1]]].entries \in Seq(Pair)
      BY <1>2, <3>1
    <3> QED BY <3>1, <3>2
  <2> QED BY <2>1
<1>4. PICK v \in [0..K -> S] : Folds(v, F, <<>>, K)
  <2> HIDE DEF F, S, K
  <2> QED BY <1>1, <1>3, Folded
<1>5. ASSUME NEW n \in 0..K PROVE v[n] = from(v, n)
  <2>1. CASE n = 0
    BY <1>4, <2>1 DEF Folds
  <2>2. CASE n # 0
    <3>1. n \in 1..K /\ n - 1 \in 0..K
      BY <1>1, <2>2
    <3>2. v[n] = F[<<n, v[n - 1]>>] /\ v[n - 1] \in S
      <4> HIDE DEF F
      <4> QED BY <1>4, <3>1 DEF Folds
    <3>3. <<n, v[n - 1]>> \in (1..K) \X S
      BY <3>1, <3>2
    <3>4. F[<<n, v[n - 1]>>] = v[n - 1] \o pages[c[n]].entries
      <4> HIDE DEF S
      <4> QED BY <3>3
    <3> QED BY <2>2, <3>2, <3>4
  <2> QED BY <2>1, <2>2
<1>6. v = [n \in 0..K |-> from(v, n)]
  <2> HIDE DEF from
  <2> QED BY <1>4, <1>5
<1>7. \E t : t = [n \in 0..K |-> from(t, n)] /\ EntriesOn(c) = t[K]
  <2> DEFINE t == CHOOSE f : f = [n \in 0..K |-> from(f, n)]
  <2>1. t = [n \in 0..K |-> from(t, n)]
    <3> HIDE DEF from
    <3> QED BY <1>6
  <2>2. EntriesOn(c) = t[K]
    BY DEF EntriesOn
  <2> HIDE DEF t, from
  <2> QED BY <2>1, <2>2
<1>8. PICK t : t = [n \in 0..K |-> from(t, n)] /\ EntriesOn(c) = t[K]
  BY <1>7
<1>9. \A n \in 0..K : t[n] = from(t, n)
  <2> HIDE DEF from
  <2> QED BY <1>8
<1>10. t[0] = <<>>
  BY <1>1, <1>9
<1>11. ASSUME NEW n \in 1..K PROVE t[n] = t[n - 1] \o pages[c[n]].entries
  <2>1. n \in 0..K /\ n # 0
    OBVIOUS
  <2> QED BY <1>9, <2>1
<1> DEFINE G == {n \in 0..K : t[n] \in S}
<1>12. 0 \in G
  <2>1. 0 \in 0..K
    BY <1>1
  <2> HIDE DEF S
  <2> QED BY <1>1, <1>10, <2>1
<1>13. ASSUME NEW n \in 1..K, n - 1 \in G PROVE n \in G
  <2>1. PICK a, b : a = t[n - 1] /\ b = pages[c[n]].entries
    OBVIOUS
  <2>2. a \in Seq(Pair) /\ b \in Seq(Pair)
    BY <1>2, <1>13, <2>1
  <2>3. a \o b \in Seq(Pair)
    BY <2>2
  <2>4. t[n] = a \o b
    <3> HIDE DEF K
    <3> QED BY <1>11, <2>1
  <2>5. n \in 0..K
    OBVIOUS
  <2> HIDE DEF K
  <2> QED BY <2>3, <2>4, <2>5
<1>14. \A n \in 0..K : n \in G
  <2> HIDE DEF G, K
  <2> QED BY <1>1, <1>12, <1>13, StepByStep
<1> QED BY <1>8, <1>10, <1>11, <1>14 DEF Reading

\* f is what is between lo and hi among the first n of the entries es.
Picks(es, lo, hi, f, n) ==
    /\ f \in Seq(Pair)
    /\ \A i \in 1..n : es[i][1] \in lo..hi => \E j \in 1..Len(f) : f[j] = es[i]
    /\ \A j \in 1..Len(f) : \E i \in 1..n : f[j] = es[i] /\ es[i][1] \in lo..hi
    /\ \A i, j \in 1..Len(f) : f[i] = f[j] => i = j

\* No entry between lo and hi is twice in es.
Single(es, lo, hi) == \A i, j \in 1..Len(es) : es[i][1] \in lo..hi /\ es[i] = es[j] => i = j

LEMMA PicksMore ==
    ASSUME NEW es \in Seq(Pair), NEW lo, NEW hi, NEW f, NEW n \in 1..Len(es), Single(es, lo, hi),
           Picks(es, lo, hi, f, n - 1), NEW g,
           g = IF es[n][1] \in lo..hi THEN Append(f, es[n]) ELSE f
    PROVE  Picks(es, lo, hi, g, n)
<1>1. f \in Seq(Pair) /\ Len(f) \in Nat /\ Len(es) \in Nat /\ es[n] \in Pair
  BY DEF Picks
<1>2. \A i \in 1..n : i = n \/ i \in 1..(n - 1)
  BY <1>1
<1>3. \A i \in 1..(n - 1) : i \in 1..n /\ i \in 1..Len(es) /\ i # n
  BY <1>1
<1>4. n \in 1..n
  OBVIOUS
<1>5. CASE es[n][1] \in lo..hi
  <2>1. /\ g \in Seq(Pair) /\ Len(g) = Len(f) + 1 /\ g[Len(f) + 1] = es[n]
        /\ \A j \in 1..Len(f) : g[j] = f[j]
    BY <1>1, <1>5
  <2>2. /\ \A j \in 1..Len(g) : j = Len(f) + 1 \/ j \in 1..Len(f)
        /\ \A j \in 1..Len(f) : j \in 1..Len(g)
        /\ Len(f) + 1 \in 1..Len(g)
    BY <1>1, <2>1
  <2>3. ASSUME NEW i \in 1..n, es[i][1] \in lo..hi PROVE \E j \in 1..Len(g) : g[j] = es[i]
    <3>1. CASE i = n
      BY <2>1, <2>2, <3>1
    <3>2. CASE i \in 1..(n - 1)
      <4>1. PICK j \in 1..Len(f) : f[j] = es[i]
        BY <2>3, <3>2 DEF Picks
      <4> QED BY <2>1, <2>2, <4>1
    <3> QED BY <1>2, <3>1, <3>2
  <2>4. ASSUME NEW j \in 1..Len(g) PROVE \E i \in 1..n : g[j] = es[i] /\ es[i][1] \in lo..hi
    <3>1. CASE j = Len(f) + 1
      BY <1>4, <1>5, <2>1, <3>1
    <3>2. CASE j \in 1..Len(f)
      <4>1. PICK i \in 1..(n - 1) : f[j] = es[i] /\ es[i][1] \in lo..hi
        BY <3>2 DEF Picks
      <4> QED BY <1>3, <2>1, <3>2, <4>1
    <3> QED BY <2>2, <3>1, <3>2
  <2>5. ASSUME NEW j \in 1..Len(f) PROVE f[j] # es[n]
    <3>1. PICK i \in 1..(n - 1) : f[j] = es[i] /\ es[i][1] \in lo..hi
      BY DEF Picks
    <3>2. es[i] # es[n]
      BY <1>3, <3>1 DEF Single
    <3> QED BY <3>1, <3>2
  <2>6. ASSUME NEW i \in 1..Len(g), NEW j \in 1..Len(g), g[i] = g[j] PROVE i = j
    <3>1. CASE i \in 1..Len(f) /\ j \in 1..Len(f)
      BY <2>1, <2>6, <3>1 DEF Picks
    <3>2. CASE i = Len(f) + 1 /\ j \in 1..Len(f)
      BY <2>1, <2>5, <2>6, <3>2
    <3>3. CASE j = Len(f) + 1 /\ i \in 1..Len(f)
      BY <2>1, <2>5, <2>6, <3>3
    <3> QED BY <2>2, <3>1, <3>2, <3>3
  <2> QED BY <2>1, <2>3, <2>4, <2>6 DEF Picks
<1>6. CASE es[n][1] \notin lo..hi
  <2>1. g = f
    BY <1>6
  <2>2. ASSUME NEW i \in 1..n, es[i][1] \in lo..hi PROVE \E j \in 1..Len(f) : f[j] = es[i]
    BY <1>2, <1>6, <2>2 DEF Picks
  <2>3. ASSUME NEW j \in 1..Len(f) PROVE \E i \in 1..n : f[j] = es[i] /\ es[i][1] \in lo..hi
    BY <1>3 DEF Picks
  <2> QED BY <1>1, <2>1, <2>2, <2>3 DEF Picks
<1> QED BY <1>5, <1>6

\* What is between lo and hi among the first n of the entries es, for every n.
Picking(es, lo, hi, t) ==
    /\ t[0] = <<>>
    /\ \A n \in 1..Len(es) :
          t[n] = IF es[n][1] \in lo..hi THEN Append(t[n - 1], es[n]) ELSE t[n - 1]

LEMMA BetweenSteps ==
    ASSUME NEW es \in Seq(Pair), NEW lo, NEW hi
    PROVE  \E t : Picking(es, lo, hi, t) /\ Between(es, lo, hi) = t[Len(es)]
<1> DEFINE K == Len(es)
           S == Seq(Pair)
           more(f, n) == IF es[n][1] \in lo..hi THEN Append(f, es[n]) ELSE f
           F == [x \in (1..K) \X S |-> more(x[2], x[1])]
           from(t, n) == IF n = 0 THEN <<>> ELSE more(t[n - 1], n)
<1>1. K \in Nat /\ <<>> \in S
  OBVIOUS
<1>2. \A n \in 1..K, f \in S : more(f, n) \in S
  OBVIOUS
<1> HIDE DEF more
<1>3. F \in [(1..K) \X S -> S]
  <2>1. ASSUME NEW x \in (1..K) \X S PROVE more(x[2], x[1]) \in S
    <3>1. x[1] \in 1..K /\ x[2] \in S
      <4> HIDE DEF S
      <4> QED OBVIOUS
    <3> QED BY <1>2, <3>1
  <2> QED BY <2>1
<1>4. PICK v \in [0..K -> S] : Folds(v, F, <<>>, K)
  <2> HIDE DEF F, S, K
  <2> QED BY <1>1, <1>3, Folded
<1>5. ASSUME NEW n \in 0..K PROVE v[n] = from(v, n)
  <2>1. CASE n = 0
    BY <1>4, <2>1 DEF Folds
  <2>2. CASE n # 0
    <3>1. n \in 1..K /\ n - 1 \in 0..K
      BY <1>1, <2>2
    <3>2. v[n] = F[<<n, v[n - 1]>>] /\ v[n - 1] \in S
      <4> HIDE DEF F
      <4> QED BY <1>4, <3>1 DEF Folds
    <3>3. <<n, v[n - 1]>> \in (1..K) \X S
      BY <3>1, <3>2
    <3>4. F[<<n, v[n - 1]>>] = more(v[n - 1], n)
      <4> HIDE DEF S
      <4> QED BY <3>3
    <3> QED BY <2>2, <3>2, <3>4
  <2> QED BY <2>1, <2>2
<1>6. v = [n \in 0..K |-> from(v, n)]
  <2> HIDE DEF from
  <2> QED BY <1>4, <1>5
<1>7. \E t : t = [n \in 0..K |-> from(t, n)] /\ Between(es, lo, hi) = t[K]
  <2> DEFINE t == CHOOSE f : f = [n \in 0..K |-> from(f, n)]
  <2>1. t = [n \in 0..K |-> from(t, n)]
    <3> HIDE DEF from
    <3> QED BY <1>6
  <2>2. Between(es, lo, hi) = t[K]
    BY DEF Between, more
  <2> HIDE DEF t, from
  <2> QED BY <2>1, <2>2
<1>8. PICK t : t = [n \in 0..K |-> from(t, n)] /\ Between(es, lo, hi) = t[K]
  BY <1>7
<1>9. \A n \in 0..K : t[n] = from(t, n)
  <2> HIDE DEF from
  <2> QED BY <1>8
<1>10. t[0] = <<>>
  BY <1>1, <1>9
<1>11. ASSUME NEW n \in 1..K PROVE t[n] = more(t[n - 1], n)
  <2>1. n \in 0..K /\ n # 0
    OBVIOUS
  <2> QED BY <1>9, <2>1
<1> QED BY <1>8, <1>10, <1>11 DEF Picking, more

LEMMA BetweenIs ==
    ASSUME NEW es \in Seq(Pair), NEW lo, NEW hi, Single(es, lo, hi)
    PROVE  Picks(es, lo, hi, Between(es, lo, hi), Len(es))
<1>1. PICK K \in Nat : K = Len(es)
  OBVIOUS
<1>2. PICK t : Picking(es, lo, hi, t) /\ Between(es, lo, hi) = t[K]
  BY <1>1, BetweenSteps
<1>3. Picks(es, lo, hi, t[0], 0)
  <2>1. t[0] = <<>>
    BY <1>2 DEF Picking
  <2> QED BY <2>1 DEF Picks
<1>4. ASSUME NEW n \in 1..K, Picks(es, lo, hi, t[n - 1], n - 1) PROVE Picks(es, lo, hi, t[n], n)
  <2>1. PICK f, g : f = t[n - 1] /\ g = t[n]
    OBVIOUS
  <2>2. g = IF es[n][1] \in lo..hi THEN Append(f, es[n]) ELSE f
    BY <1>1, <1>2, <2>1 DEF Picking
  <2>3. Picks(es, lo, hi, f, n - 1) /\ n \in 1..Len(es)
    BY <1>1, <1>4, <2>1
  <2>4. Picks(es, lo, hi, g, n)
    BY <2>2, <2>3, PicksMore
  <2> QED BY <2>1, <2>4
<1> DEFINE G == {n \in 0..K : Picks(es, lo, hi, t[n], n)}
<1>5. \A n \in 0..K : n \in G
  <2>1. 0 \in G
    BY <1>1, <1>3
  <2>2. \A n \in 1..K : n - 1 \in G => n \in G
    BY <1>4
  <2> HIDE DEF G
  <2> QED BY <1>1, <2>1, <2>2, StepByStep
<1>6. K \in 0..K
  BY <1>1
<1> QED BY <1>1, <1>2, <1>5, <1>6

-----------------------------------------------------------------------------
(* Lookups. *)

\* The leaf a search for k ends on, and leaves beyond it, where all keys are past k.
Onward(c, k, lo) ==
    /\ c \in Seq(Leaf) /\ c # <<>> /\ c[1] = FindLeaf(k)
    /\ \A i \in 2..Len(c) : lo[c[i]] > k

LEMMA ChainOnward ==
    ASSUME TreeInv, NEW lev, NEW lo, NEW hi, Fences(pages, root, lev, lo, hi), NEW k \in Nat
    PROVE  Onward(Chain(FindLeaf(k)), k, lo)
<1> DEFINE S == {c \in Seq(Leaf) : Onward(c, k, lo)}
<1>1. PICK first : first = FindLeaf(k)
  OBVIOUS
<1>2. first \in Leaf /\ lo[first] <= k /\ Under(k, hi[first])
  BY <1>1, FindLeafFenced DEF Leaf
<1>3. <<first>> \in S
  <2>1. <<first>> \in Seq(Leaf) /\ Len(<<first>>) = 1 /\ <<first>>[1] = first
    BY <1>2
  <2> QED BY <1>1, <2>1 DEF Onward
<1>4. ASSUME NEW c \in S, pages[Last(c)].right # NoNode
      PROVE  Append(c, pages[Last(c)].right) \in S
  <2>1. c \in Seq(Leaf) /\ c # <<>> /\ c[1] = first /\ \A i \in 2..Len(c) : lo[c[i]] > k
    BY <1>1 DEF Onward
  <2>2. PICK n \in Nat : n = Len(c)
    BY <2>1
  <2>3. n > 0 /\ n \in 1..Len(c)
    BY <2>1, <2>2
  <2>4. PICK q \in Leaf : q = Last(c) /\ q = c[n]
    BY <2>1, <2>2, <2>3 DEF Last
  <2>5. PICK r \in Leaf : r = pages[q].right /\ r # NoNode
    BY <1>4, <2>4, RightIs
  <2>6. q \in 1..Len(pages) /\ pages[q].leaf
    BY DEF Leaf
  <2>7. LeafIn(pages[q], lo, lo[q], hi[q]) /\ Under(lo[q], hi[q])
    BY <2>6 DEF Fences
  <2>8. hi[q] # 0 /\ lo[r] = hi[q]
    BY <2>5, <2>7 DEF LeafIn
  <2>9. lo[q] \in Nat /\ hi[q] \in Nat
    BY <2>6 DEF Fences
  <2>10. lo[r] > k
    <3>1. CASE n = 1
      <4>1. q = first
        BY <2>1, <2>4, <3>1
      <4>2. k < hi[q]
        BY <1>2, <2>8, <4>1 DEF Under
      <4> QED BY <2>8, <2>9, <4>2
    <3>2. CASE n # 1
      <4>1. n \in 2..Len(c)
        BY <2>2, <2>3, <3>2
      <4>2. lo[q] > k
        BY <2>1, <2>4, <4>1
      <4>3. lo[q] < hi[q]
        BY <2>7, <2>8 DEF Under
      <4> QED BY <2>8, <2>9, <4>2, <4>3
    <3> QED BY <3>1, <3>2
  <2>11. PICK d : d = Append(c, r)
    OBVIOUS
  <2>12. d \in Seq(Leaf) /\ d # <<>> /\ Len(d) = n + 1 /\ d[n + 1] = r
         /\ \A i \in 1..n : d[i] = c[i]
    BY <2>1, <2>2, <2>11
  <2>13. d[1] = first
    BY <2>1, <2>2, <2>3, <2>12
  <2>14. ASSUME NEW i \in 2..Len(d) PROVE lo[d[i]] > k
    <3>1. i = n + 1 \/ (i \in 2..Len(c) /\ i \in 1..n)
      BY <2>2, <2>12
    <3> QED BY <2>1, <2>10, <2>12, <3>1
  <2>15. Onward(d, k, lo)
    BY <1>1, <2>12, <2>13, <2>14 DEF Onward
  <2> QED BY <2>4, <2>5, <2>11, <2>12, <2>15
<1> HIDE DEF S
<1>5. Chain(first) \in S
  BY <1>2, <1>3, <1>4, ChainKeeps
<1> QED BY <1>1, <1>5 DEF S

LEMMA OnwardPart ==
    ASSUME NEW k, NEW lo, NEW c, Onward(c, k, lo), NEW m \in 1..Len(c)
    PROVE  Onward(SubSeq(c, 1, m), k, lo)
<1>1. c \in Seq(Leaf) /\ Len(c) \in Nat
  BY DEF Onward
<1>2. PICK d : d = SubSeq(c, 1, m)
  OBVIOUS
<1>3. d \in Seq(Leaf) /\ Len(d) = m /\ \A i \in 1..m : d[i] = c[i]
  BY <1>1, <1>2
<1>4. d # <<>> /\ 1 \in 1..m
  BY <1>1, <1>3
<1>5. \A i \in 2..m : i \in 1..m /\ i \in 2..Len(c)
  BY <1>1
<1>6. \A i \in 2..Len(d) : lo[d[i]] > k
  BY <1>3, <1>5 DEF Onward
<1>7. d[1] = FindLeaf(k)
  BY <1>3, <1>4 DEF Onward
<1> QED BY <1>2, <1>3, <1>4, <1>6, <1>7 DEF Onward

\* A prefix of what is onward, or all of it, is.
LEMMA OnwardCut ==
    ASSUME NEW k, NEW lo, NEW c, Onward(c, k, lo), NEW stop \in SUBSET (DOMAIN c)
    PROVE  Onward(IF stop = {} THEN c ELSE SubSeq(c, 1, Min(stop)), k, lo)
<1>1. DOMAIN c = 1..Len(c) /\ Len(c) \in Nat
  BY DEF Onward
<1>2. CASE stop = {}
  BY <1>2
<1>3. CASE stop # {}
  <2>1. PICK m : m = Min(stop)
    OBVIOUS
  <2>2. stop \in SUBSET Nat
    BY <1>1
  <2>3. m \in 1..Len(c)
    BY <1>1, <1>3, <2>1, <2>2, MinIs
  <2>4. Onward(SubSeq(c, 1, m), k, lo)
    BY <2>3, OnwardPart
  <2> QED BY <1>3, <2>1, <2>4
<1> QED BY <1>2, <1>3

LEMMA FindEntriesReads ==
    ASSUME TreeInv, NEW lev, NEW lo, NEW hi, Fences(pages, root, lev, lo, hi), NEW k \in Nat
    PROVE  \E c : Onward(c, k, lo) /\ FindEntries(k) = Between(EntriesOn(c), k, k)
<1> DEFINE chain == Chain(FindLeaf(k))
           stop  == {i \in DOMAIN chain : \E j \in DOMAIN pages[chain[i]].entries :
                                             pages[chain[i]].entries[j][1] > k}
<1>1. Onward(chain, k, lo)
  BY ChainOnward
<1>2. Reach(k) = IF stop = {} THEN chain ELSE SubSeq(chain, 1, Min(stop))
  BY DEF Reach
<1>3. stop \in SUBSET (DOMAIN chain)
  OBVIOUS
<1> HIDE DEF chain, stop
<1>4. PICK reach : reach = Reach(k)
  OBVIOUS
<1>5. Onward(reach, k, lo)
  BY <1>1, <1>2, <1>3, <1>4, OnwardCut
<1> DEFINE has(i) == \E j \in DOMAIN pages[reach[i]].entries : pages[reach[i]].entries[j][1] = k
           done   == {i \in DOMAIN reach : ~has(i) /\ \E j \in 1..(i - 1) : has(j)}
           read   == IF done = {} THEN reach ELSE SubSeq(reach, 1, Min(done))
<1>6. FindEntries(k) = Between(EntriesOn(read), k, k)
  BY <1>4 DEF FindEntries
<1>7. done \in SUBSET (DOMAIN reach)
  OBVIOUS
<1> HIDE DEF done
<1>8. Onward(read, k, lo)
  BY <1>5, <1>7, OnwardCut
<1> QED BY <1>6, <1>8

\* x begins with the entries es, and has none for k beyond them.
Leads(es, k, x) ==
    /\ x \in Seq(Pair) /\ Len(es) <= Len(x)
    /\ \A i \in 1..Len(es) : x[i] = es[i]
    /\ \A i \in (Len(es) + 1)..Len(x) : x[i][1] # k

LEMMA LeadsOn ==
    ASSUME NEW es \in Seq(Pair), NEW k, NEW x, Leads(es, k, x), NEW y \in Seq(Pair),
           \A i \in 1..Len(y) : y[i][1] # k
    PROVE  Leads(es, k, x \o y)
<1>1. x \in Seq(Pair) /\ Len(x) \in Nat /\ Len(y) \in Nat /\ Len(es) \in Nat /\ Len(es) <= Len(x)
  BY DEF Leads
<1>2. PICK z : z = x \o y
  OBVIOUS
<1>3. /\ z \in Seq(Pair) /\ Len(z) = Len(x) + Len(y)
      /\ \A i \in 1..(Len(x) + Len(y)) : z[i] = IF i <= Len(x) THEN x[i] ELSE y[i - Len(x)]
  BY <1>1, <1>2
<1>4. \A i \in 1..Len(es) : i \in 1..(Len(x) + Len(y)) /\ i <= Len(x)
  BY <1>1
<1>5. \A i \in 1..Len(es) : z[i] = es[i]
  BY <1>3, <1>4 DEF Leads
<1>6. ASSUME NEW i \in (Len(es) + 1)..Len(z) PROVE z[i][1] # k
  <2>1. i \in 1..(Len(x) + Len(y))
    BY <1>1, <1>3
  <2>2. CASE i <= Len(x)
    <3>1. i \in (Len(es) + 1)..Len(x)
      BY <1>1, <2>2
    <3> QED BY <1>3, <2>1, <2>2, <3>1 DEF Leads
  <2>3. CASE ~(i <= Len(x))
    <3>1. i - Len(x) \in 1..Len(y)
      BY <1>1, <2>1, <2>3
    <3> QED BY <1>3, <2>1, <2>3, <3>1
  <2> QED BY <2>2, <2>3
<1>7. Len(es) <= Len(z)
  BY <1>1, <1>3
<1> QED BY <1>2, <1>3, <1>5, <1>6, <1>7 DEF Leads

LEMMA ReadOnward ==
    ASSUME TreeInv, NEW lev, NEW lo, NEW hi, Fences(pages, root, lev, lo, hi), NEW k \in Nat,
           NEW c, Onward(c, k, lo)
    PROVE  Leads(pages[FindLeaf(k)].entries, k, EntriesOn(c))
<1>1. PICK es : es = pages[FindLeaf(k)].entries
  OBVIOUS
<1>2. pages \in Seq(Node)
  BY WholeIs DEF TreeInv
<1>3. c \in Seq(Leaf) /\ Len(c) \in Nat /\ c # <<>> /\ c[1] = FindLeaf(k)
  BY DEF Onward
<1>4. c \in Seq(1..Len(pages)) /\ \A i \in 1..Len(c) : c[i] \in 1..Len(pages) /\ pages[c[i]].leaf
  <2>1. \A i \in 1..Len(c) : c[i] \in Leaf
    BY <1>3
  <2>2. \A i \in 1..Len(c) : c[i] \in 1..Len(pages) /\ pages[c[i]].leaf
    BY <2>1 DEF Leaf
  <2>3. PICK P : P = 1..Len(pages)
    OBVIOUS
  <2>4. \A i \in 1..Len(c) : c[i] \in P
    BY <2>2, <2>3
  <2>5. c \in Seq(P)
    BY <1>3, <2>4
  <2> QED BY <2>2, <2>3, <2>5
<1>5. PICK t : Reading(c, t) /\ EntriesOn(c) = t[Len(c)]
  BY <1>2, <1>4, EntriesOnAre
<1>6. \A n \in 1..Len(c) : pages[c[n]].entries \in Seq(Pair)
  BY <1>2, <1>4, PageIs
<1>7. 1 \in 1..Len(c) /\ Len(c) # 0
  BY <1>3
<1>8. es \in Seq(Pair) /\ es = pages[c[1]].entries
  BY <1>1, <1>3, <1>6, <1>7
<1> DEFINE G == {n \in 0..Len(c) : n # 0 => Leads(es, k, t[n])}
<1>9. ASSUME NEW n \in 1..Len(c), n - 1 \in G PROVE n \in G
  <2>1. PICK x, y : x = t[n - 1] /\ y = pages[c[n]].entries
    OBVIOUS
  <2>2. t[n] = x \o y /\ y \in Seq(Pair) /\ x \in Seq(Pair)
    <3>1. n - 1 \in 0..Len(c)
      BY <1>3
    <3> QED BY <1>5, <1>6, <2>1, <3>1 DEF Reading
  <2>3. CASE n = 1
    <3>1. x = <<>>
      BY <1>5, <2>1, <2>3 DEF Reading
    <3>2. t[n] = es
      <4>1. y = es
        BY <1>8, <2>1, <2>3
      <4> QED BY <1>8, <2>2, <3>1, <4>1
    <3>3. Leads(es, k, es)
      <4>1. Len(es) \in Nat
        BY <1>8
      <4> QED BY <1>8, <4>1 DEF Leads
    <3> QED BY <2>3, <3>2, <3>3
  <2>4. CASE n # 1
    <3>1. n - 1 # 0 /\ n \in 2..Len(c) /\ n \in 0..Len(c)
      BY <1>3, <2>4
    <3>2. Leads(es, k, x)
      BY <1>9, <2>1, <3>1
    <3>3. ASSUME NEW i \in 1..Len(y) PROVE y[i][1] # k
      <4>1. PICK q \in 1..Len(pages) : q = c[n] /\ pages[q].leaf
        BY <1>4
      <4>2. lo[q] > k
        BY <3>1, <4>1 DEF Onward
      <4>3. lo[q] <= y[i][1]
        <5>1. LeafIn(pages[q], lo, lo[q], hi[q])
          BY <4>1 DEF Fences
        <5> QED BY <2>1, <4>1, <5>1 DEF LeafIn
      <4>4. lo[q] \in Nat /\ y[i][1] \in Nat
        <5>1. lo[q] \in Nat
          BY DEF Fences
        <5>2. y[i][1] \in Nat
          BY <2>2, KeysAre
        <5> QED BY <5>1, <5>2
      <4> QED BY <4>2, <4>3, <4>4
    <3>4. Leads(es, k, x \o y)
      BY <1>8, <2>2, <3>2, <3>3, LeadsOn
    <3> QED BY <2>2, <3>1, <3>4
  <2> QED BY <2>3, <2>4
<1>10. 0 \in G
  BY <1>3
<1>11. Len(c) \in G
  <2>1. Len(c) \in 0..Len(c)
    BY <1>3
  <2> HIDE DEF G
  <2> QED BY <1>3, <1>9, <1>10, <2>1, StepByStep
<1> QED BY <1>1, <1>5, <1>7, <1>11

\* No other leaf has k between its fences, or an entry for k.
LEMMA OneLeaf ==
    ASSUME TreeInv, NEW lev, NEW lo, NEW hi, Fences(pages, root, lev, lo, hi), NEW k \in Nat,
           NEW q \in 1..Len(pages), pages[q].leaf, lo[q] <= k, Under(k, hi[q])
    PROVE  q = FindLeaf(k)
<1>1. PICK p : p = FindLeaf(k)
  OBVIOUS
<1>2. p \in 1..Len(pages) /\ pages[p].leaf /\ lo[p] <= k /\ Under(k, hi[p])
  BY <1>1, FindLeafFenced
<1>3. lev[p] = lev[q]
  <2>1. Levels(pages, lev)
    BY DEF Fences
  <2> QED BY <1>2, <2>1 DEF Levels
<1>4. lo[p] \in Nat /\ hi[p] \in Nat /\ lo[q] \in Nat /\ hi[q] \in Nat
  BY <1>2 DEF Fences
<1>5. ASSUME p # q PROVE FALSE
  <2>1. Apart(lo, hi, p, q)
    BY <1>2, <1>3, <1>5 DEF Fences
  <2> QED BY <1>2, <1>4, <2>1 DEF Apart, Under
<1> QED BY <1>1, <1>5

LEMMA KeyOnLeaf ==
    ASSUME TreeInv, NEW lev, NEW lo, NEW hi, Fences(pages, root, lev, lo, hi), NEW k \in Nat,
           NEW q \in 1..Len(pages), pages[q].leaf, NEW i \in 1..Len(pages[q].entries),
           pages[q].entries[i][1] = k
    PROVE  q = FindLeaf(k)
<1>1. lo[q] <= k /\ Under(k, hi[q])
  <2>1. LeafIn(pages[q], lo, lo[q], hi[q])
    BY DEF Fences
  <2> QED BY <2>1 DEF LeafIn
<1> QED BY <1>1, OneLeaf

LEMMA Found ==
    ASSUME TreeInv, NEW lev, NEW lo, NEW hi, Fences(pages, root, lev, lo, hi), NEW k \in Nat
    PROVE  /\ ToSet(FindEntries(k)) = {e \in Entries : e[1] = k}
           /\ IsInjective(FindEntries(k))
<1>1. PICK p : p = FindLeaf(k)
  OBVIOUS
<1>2. p \in 1..Len(pages) /\ pages[p].leaf
  BY <1>1, FindLeafFenced
<1>3. pages \in Seq(Node) /\ Once(pages)
  BY WholeIs DEF TreeInv
<1>4. PICK es : es = pages[p].entries
  OBVIOUS
<1>5. es \in Seq(Pair) /\ Len(es) \in Nat
  BY <1>2, <1>3, <1>4, PageIs
<1>6. PICK c : Onward(c, k, lo) /\ FindEntries(k) = Between(EntriesOn(c), k, k)
  BY FindEntriesReads
<1>7. PICK x : x = EntriesOn(c)
  OBVIOUS
<1>8. Leads(es, k, x)
  BY <1>1, <1>4, <1>6, <1>7, ReadOnward
<1>9. /\ x \in Seq(Pair) /\ Len(x) \in Nat /\ Len(es) <= Len(x)
      /\ \A i \in 1..Len(es) : x[i] = es[i]
      /\ \A i \in (Len(es) + 1)..Len(x) : x[i][1] # k
  BY <1>8 DEF Leads
<1>10. ASSUME NEW i \in 1..Len(x), x[i][1] = k PROVE i \in 1..Len(es)
  BY <1>5, <1>9, <1>10
<1>11. \A j : j \in k..k <=> j = k
  OBVIOUS
<1>12. ASSUME NEW i \in 1..Len(es), NEW j \in 1..Len(es), es[i] = es[j] PROVE i = j
  <2>1. i \in Nat /\ j \in Nat
    OBVIOUS
  <2>2. <<p, i>> \in Spots(pages) /\ <<p, j>> \in Spots(pages)
    BY <1>2, <1>4, <2>1, SpotIs
  <2>3. At(pages, <<p, i>>) = es[i] /\ At(pages, <<p, j>>) = es[j]
    BY <1>4 DEF At
  <2>4. <<p, i>> = <<p, j>>
    BY <1>3, <1>12, <2>2, <2>3 DEF Once
  <2> QED BY <2>4
<1>13. Single(x, k, k)
  <2>1. ASSUME NEW i \in 1..Len(x), NEW j \in 1..Len(x), x[i][1] \in k..k, x[i] = x[j] PROVE i = j
    <3>1. x[i][1] = k /\ x[j][1] = k
      BY <1>11, <2>1
    <3>2. i \in 1..Len(es) /\ j \in 1..Len(es)
      BY <1>10, <3>1
    <3>3. es[i] = es[j]
      BY <1>9, <2>1, <3>2
    <3> QED BY <1>12, <3>2, <3>3
  <2> QED BY <2>1 DEF Single
<1>14. PICK f : f = FindEntries(k)
  OBVIOUS
<1>15. Picks(x, k, k, f, Len(x))
  BY <1>6, <1>7, <1>9, <1>13, <1>14, BetweenIs
<1>16. f \in Seq(Pair) /\ DOMAIN f = 1..Len(f) /\ ToSet(f) = {f[j] : j \in 1..Len(f)}
  <2>1. f \in Seq(Pair)
    BY <1>15 DEF Picks
  <2> QED BY <2>1 DEF ToSet
<1>17. IsInjective(f)
  BY <1>15, <1>16 DEF Picks, IsInjective
<1>18. ASSUME NEW e \in ToSet(f) PROVE e \in Entries /\ e[1] = k
  <2>1. PICK j \in 1..Len(f) : e = f[j]
    BY <1>16
  <2>2. PICK i \in 1..Len(x) : e = x[i] /\ x[i][1] \in k..k
    BY <1>15, <2>1 DEF Picks
  <2>3. x[i][1] = k
    BY <1>11, <2>2
  <2>4. i \in 1..Len(es) /\ i \in Nat
    BY <1>10, <2>3
  <2>5. e = es[i]
    BY <1>9, <2>2, <2>4
  <2>6. <<p, i>> \in Spots(pages) /\ At(pages, <<p, i>>) = e
    <3>1. <<p, i>> \in Spots(pages)
      BY <1>2, <1>4, <2>4, SpotIs
    <3> QED BY <1>4, <2>5, <3>1 DEF At
  <2> QED BY <2>2, <2>3, <2>6, EntriesNow DEF On
<1>19. ASSUME NEW e \in Entries, e[1] = k PROVE e \in ToSet(f)
  <2>1. PICK s \in Spots(pages) : At(pages, s) = e
    BY EntriesNow DEF On
  <2>2. PICK q \in 1..Len(pages), i \in Nat :
          s = <<q, i>> /\ pages[q].leaf /\ i \in 1..Len(pages[q].entries)
    BY SpotIs
  <2>3. pages[q].entries[i] = e
    BY <2>1, <2>2 DEF At
  <2>4. q = p
    BY <1>1, <1>19, <2>2, <2>3, KeyOnLeaf
  <2>5. i \in 1..Len(es) /\ i \in 1..Len(x) /\ x[i] = e
    <3>1. i \in 1..Len(es) /\ es[i] = e
      BY <1>4, <2>2, <2>3, <2>4
    <3>2. i \in 1..Len(x)
      BY <1>5, <1>9, <3>1
    <3> QED BY <1>9, <3>1, <3>2
  <2>6. x[i][1] \in k..k
    BY <1>11, <1>19, <2>5
  <2>7. PICK j \in 1..Len(f) : f[j] = e
    BY <1>15, <2>5, <2>6 DEF Picks
  <2> QED BY <1>16, <2>7
<1>20. ToSet(f) = {e \in Entries : e[1] = k}
  BY <1>18, <1>19
<1> QED BY <1>14, <1>17, <1>20

LEMMA FenceFound == FenceInv => EntriesFound
<1> SUFFICES ASSUME FenceInv, NEW k \in IndexKey
             PROVE  /\ ToSet(FindEntries(k)) = {e \in Entries : e[1] = k}
                    /\ IsInjective(FindEntries(k))
  BY DEF EntriesFound
<1>1. TreeInv /\ k \in Nat
  BY TreeConstants DEF FenceInv
<1>2. PICK lev, lo, hi : Fences(pages, root, lev, lo, hi)
  BY DEF FenceInv, FencesUp
<1> QED BY <1>1, <1>2, Found

\* A tree that no leaf was cut in between two entries with one key, and where no
\* page split that had moved to another parent, finds under a key every entry that
\* has it, once, and no other: disk_btree.h:77-78 for any keys and page sizes.
THEOREM TreeFindsEntries ==
    ASSUME TreeCircumstances = {}
    PROVE  TreeSpec => []EntriesFound
<1>1. TreeInit => FenceInv
  BY InitFenced
<1>2. FenceInv /\ [TreeNext]_treeVars => FenceInv'
  BY NextFenced
<1>3. FenceInv => EntriesFound
  BY FenceFound
<1> QED BY <1>1, <1>2, <1>3, PTL DEF TreeSpec

-----------------------------------------------------------------------------
(* Scans. *)

\* Leaves, each the right sibling of the one before it.
Chained(c) ==
    /\ c \in Seq(Leaf) /\ c # <<>>
    /\ \A i \in 2..Len(c) : pages[c[i - 1]].right = c[i]

LEMMA ChainedIs ==
    ASSUME NEW c, Chained(c)
    PROVE  /\ c \in Seq(Leaf) /\ Len(c) \in Nat /\ Len(c) > 0 /\ Last(c) = c[Len(c)]
           /\ \A i \in 1..Len(c) : c[i] \in Leaf /\ c[i] \in 1..Len(pages) /\ pages[c[i]].leaf
<1>1. c \in Seq(Leaf) /\ c # <<>>
  BY DEF Chained
<1>2. Len(c) \in Nat /\ Len(c) > 0 /\ \A i \in 1..Len(c) : c[i] \in Leaf
  BY <1>1
<1> QED BY <1>1, <1>2 DEF Last, Leaf

LEMMA ChainedMore ==
    ASSUME TreeInv, NEW c, Chained(c), pages[Last(c)].right # NoNode
    PROVE  /\ Chained(Append(c, pages[Last(c)].right))
           /\ Append(c, pages[Last(c)].right)[1] = c[1]
           /\ Len(Append(c, pages[Last(c)].right)) = Len(c) + 1
<1>1. PICK n \in Nat : n = Len(c)
  BY ChainedIs
<1>2. c \in Seq(Leaf) /\ n > 0 /\ c[n] \in Leaf /\ Last(c) = c[n]
  <2>1. n \in 1..Len(c)
    BY <1>1, ChainedIs
  <2> QED BY <1>1, <2>1, ChainedIs
<1>3. PICK r \in Leaf : r = pages[c[n]].right
  BY <1>2, RightIs
<1>4. PICK d : d = Append(c, r)
  OBVIOUS
<1>5. d \in Seq(Leaf) /\ d # <<>> /\ Len(d) = n + 1 /\ d[n + 1] = r /\ \A i \in 1..n : d[i] = c[i]
  BY <1>1, <1>2, <1>4
<1>6. ASSUME NEW i \in 2..Len(d) PROVE pages[d[i - 1]].right = d[i]
  <2>1. i - 1 \in 1..n
    BY <1>5
  <2>2. CASE i = n + 1
    BY <1>3, <1>5, <2>1, <2>2
  <2>3. CASE i # n + 1
    <3>1. i \in 2..Len(c) /\ i \in 1..n
      BY <1>1, <1>5, <2>3
    <3> QED BY <1>5, <2>1, <3>1 DEF Chained
  <2> QED BY <2>2, <2>3
<1>7. d[1] = c[1]
  <2>1. 1 \in 1..n
    BY <1>2
  <2> QED BY <1>5, <2>1
<1> QED BY <1>1, <1>2, <1>3, <1>4, <1>5, <1>6, <1>7 DEF Chained

\* Fences go up along the chain.
LEMMA ChainedUp ==
    ASSUME TreeInv, NEW lev, NEW lo, NEW hi, Fences(pages, root, lev, lo, hi), NEW c, Chained(c)
    PROVE  /\ \A i, j \in 1..Len(c) : i < j => hi[c[i]] # 0 /\ hi[c[i]] <= lo[c[j]]
           /\ \A i \in 2..Len(c) : lo[c[i]] = hi[c[i - 1]]
<1>1. PICK n \in Nat : n = Len(c)
  BY ChainedIs
<1>2. \A i \in 1..n : /\ lo[c[i]] \in Nat /\ hi[c[i]] \in Nat
                      /\ Under(lo[c[i]], hi[c[i]]) /\ LeafIn(pages[c[i]], lo, lo[c[i]], hi[c[i]])
  <2>1. \A i \in 1..n : c[i] \in 1..Len(pages) /\ pages[c[i]].leaf
    BY <1>1, ChainedIs
  <2> QED BY <2>1 DEF Fences
<1>3. ASSUME NEW i \in 2..n PROVE hi[c[i - 1]] # 0 /\ lo[c[i]] = hi[c[i - 1]]
  <2>1. i - 1 \in 1..n /\ i \in 1..n /\ i \in 2..Len(c)
    BY <1>1
  <2>2. pages[c[i - 1]].right = c[i]
    BY <2>1 DEF Chained
  <2>3. c[i] # NoNode
    <3>1. c[i] \in 1..Len(pages)
      BY <1>1, <2>1, ChainedIs
    <3> QED BY <3>1 DEF NoNode
  <2>4. LeafIn(pages[c[i - 1]], lo, lo[c[i - 1]], hi[c[i - 1]])
    BY <1>2, <2>1
  <2> QED BY <2>2, <2>3, <2>4 DEF LeafIn
<1> DEFINE G == {j \in 0..n : \A i \in 1..n : i < j => hi[c[i]] # 0 /\ hi[c[i]] <= lo[c[j]]}
<1>4. 0 \in G
  BY <1>1
<1>5. ASSUME NEW j \in 1..n, j - 1 \in G PROVE j \in G
  <2>1. ASSUME NEW i \in 1..n, i < j PROVE hi[c[i]] # 0 /\ hi[c[i]] <= lo[c[j]]
    <3>1. j \in 2..n /\ j - 1 \in 1..n
      BY <2>1
    <3>2. hi[c[j - 1]] # 0 /\ lo[c[j]] = hi[c[j - 1]]
      BY <1>3, <3>1
    <3>3. CASE i = j - 1
      BY <1>2, <3>1, <3>2, <3>3
    <3>4. CASE i # j - 1
      <4>1. i < j - 1
        BY <2>1, <3>4
      <4>2. hi[c[i]] # 0 /\ hi[c[i]] <= lo[c[j - 1]]
        BY <1>5, <4>1
      <4>3. lo[c[j - 1]] < hi[c[j - 1]]
        BY <1>2, <3>1, <3>2 DEF Under
      <4>4. hi[c[i]] \in Nat /\ lo[c[j - 1]] \in Nat /\ hi[c[j - 1]] \in Nat
        BY <1>2, <3>1
      <4> QED BY <3>2, <4>2, <4>3, <4>4
    <3> QED BY <3>3, <3>4
  <2>2. j \in 0..n
    OBVIOUS
  <2> QED BY <2>1, <2>2
<1>6. \A j \in 0..n : j \in G
  <2> HIDE DEF G
  <2> QED BY <1>4, <1>5, StepByStep
<1>7. ASSUME NEW i \in 1..n, NEW j \in 1..n, i < j PROVE hi[c[i]] # 0 /\ hi[c[i]] <= lo[c[j]]
  <2>1. j \in 0..n
    OBVIOUS
  <2>2. j \in G
    BY <1>6, <2>1
  <2> QED BY <1>7, <2>2
<1> QED BY <1>1, <1>3, <1>7

\* A chain is no longer than there are pages, so it goes on to the last leaf.
LEMMA ChainEnds ==
    ASSUME TreeInv, NEW lev, NEW lo, NEW hi, Fences(pages, root, lev, lo, hi), NEW p \in Leaf
    PROVE  Chained(Chain(p)) /\ Chain(p)[1] = p /\ pages[Last(Chain(p))].right = NoNode
<1>1. PICK K \in Nat : K = Len(pages)
  BY WholeIs DEF TreeInv
<1>2. PICK t : Following(p, t) /\ Chain(p) = t[K]
  BY <1>1, ChainSteps
<1> DEFINE Far(c, n) == /\ Chained(c) /\ c[1] = p
                        /\ pages[Last(c)].right = NoNode \/ Len(c) = n + 1
           G == {n \in 0..K : Far(t[n], n)}
<1>3. 0 \in G
  <2>1. <<p>> \in Seq(Leaf) /\ <<p>> # <<>> /\ Len(<<p>>) = 1 /\ <<p>>[1] = p
    OBVIOUS
  <2>2. Chained(<<p>>)
    BY <2>1 DEF Chained
  <2>3. t[0] = <<p>>
    BY <1>2 DEF Following
  <2>4. Far(t[0], 0)
    BY <2>1, <2>2, <2>3
  <2> HIDE DEF Far
  <2> QED BY <1>1, <2>4
<1>4. ASSUME NEW n \in 1..K, n - 1 \in G PROVE n \in G
  <2>1. PICK c : c = t[n - 1]
    OBVIOUS
  <2>2. Chained(c) /\ c[1] = p /\ (pages[Last(c)].right = NoNode \/ Len(c) = (n - 1) + 1)
    BY <1>4, <2>1
  <2>3. t[n] = IF pages[Last(c)].right = NoNode THEN c ELSE Append(c, pages[Last(c)].right)
    BY <1>1, <1>2, <2>1 DEF Following
  <2>4. Far(t[n], n)
    <3>1. CASE pages[Last(c)].right = NoNode
      BY <2>2, <2>3, <3>1
    <3>2. CASE pages[Last(c)].right # NoNode
      <4>1. PICK d : d = Append(c, pages[Last(c)].right)
        OBVIOUS
      <4>2. Chained(d) /\ d[1] = p /\ Len(d) = Len(c) + 1
        BY <2>2, <3>2, <4>1, ChainedMore
      <4>3. Len(d) = n + 1
        BY <2>2, <3>2, <4>2
      <4> QED BY <2>3, <3>2, <4>1, <4>2, <4>3
    <3> QED BY <3>1, <3>2
  <2>5. n \in 0..K
    OBVIOUS
  <2> HIDE DEF Far
  <2> QED BY <2>4, <2>5
<1>5. PICK c : c = t[K]
  OBVIOUS
<1>6. Chained(c) /\ c[1] = p /\ (pages[Last(c)].right = NoNode \/ Len(c) = K + 1)
  <2>1. K \in 0..K
    OBVIOUS
  <2>2. K \in G
    <3> HIDE DEF G
    <3> QED BY <1>3, <1>4, <2>1, StepByStep
  <2> QED BY <1>5, <2>2
<1>7. ASSUME Len(c) = K + 1 PROVE FALSE
  <2>1. c \in [1..(K + 1) -> 1..K]
    <3>1. c \in Seq(Leaf) /\ \A i \in 1..(K + 1) : c[i] \in 1..K
      BY <1>1, <1>6, <1>7, ChainedIs
    <3> QED BY <1>7, <3>1
  <2>2. /\ IsFiniteSet(1..(K + 1)) /\ IsFiniteSet(1..K)
        /\ Cardinality(1..K) < Cardinality(1..(K + 1))
    <3>1. IsFiniteSet(1..K) /\ Cardinality(1..K) = K
      BY FS_Interval
    <3>2. IsFiniteSet(1..(K + 1)) /\ Cardinality(1..(K + 1)) = K + 1
      BY FS_Interval
    <3> QED BY <3>1, <3>2
  <2>3. PICK x, y \in 1..(K + 1) : x # y /\ c[x] = c[y]
    <3> HIDE DEF G
    <3> QED BY <2>1, <2>2, FS_PigeonHole
  <2>4. /\ x < y => hi[c[x]] # 0 /\ hi[c[x]] <= lo[c[y]]
        /\ y < x => hi[c[y]] # 0 /\ hi[c[y]] <= lo[c[x]]
    BY <1>6, <1>7, <2>3, ChainedUp
  <2>5. c[x] \in 1..Len(pages)
    BY <1>6, <1>7, <2>3, ChainedIs
  <2>6. lo[c[x]] \in Nat /\ hi[c[x]] \in Nat /\ Under(lo[c[x]], hi[c[x]])
    BY <2>5 DEF Fences
  <2> QED BY <2>3, <2>4, <2>6 DEF Under
<1> QED BY <1>2, <1>5, <1>6, <1>7

Rises(x) == \A i, j \in 1..Len(x) : i < j => x[i][1] <= x[j][1]

LEMMA JoinIs ==
    ASSUME NEW x \in Seq(Pair), NEW y \in Seq(Pair)
    PROVE  /\ x \o y \in Seq(Pair) /\ Len(x \o y) = Len(x) + Len(y)
           /\ Len(x) \in Nat /\ Len(y) \in Nat
           /\ \A i \in 1..Len(x) : (x \o y)[i] = x[i]
           /\ \A i \in 1..Len(y) : (x \o y)[Len(x) + i] = y[i]
           /\ \A i \in 1..(Len(x) + Len(y)) :
                 i \in 1..Len(x) \/ \E j \in 1..Len(y) : i = Len(x) + j
<1>1. x \o y \in Seq(Pair) /\ Len(x \o y) = Len(x) + Len(y) /\ Len(x) \in Nat /\ Len(y) \in Nat
  OBVIOUS
<1>2. \A i \in 1..Len(x) : (x \o y)[i] = x[i]
  OBVIOUS
<1>3. \A i \in 1..Len(y) : (x \o y)[Len(x) + i] = y[i]
  OBVIOUS
<1>4. ASSUME NEW i \in 1..(Len(x) + Len(y)), ~(i \in 1..Len(x))
      PROVE  \E j \in 1..Len(y) : i = Len(x) + j
  <2>1. i - Len(x) \in 1..Len(y) /\ i = Len(x) + (i - Len(x))
    BY <1>1, <1>4
  <2> QED BY <2>1
<1> QED BY <1>1, <1>2, <1>3, <1>4

LEMMA RisesJoin ==
    ASSUME NEW x \in Seq(Pair), NEW y \in Seq(Pair), Rises(x), Rises(y),
           \A i \in 1..Len(x), j \in 1..Len(y) : x[i][1] <= y[j][1]
    PROVE  Rises(x \o y)
<1>1. PICK z, m, n : z = x \o y /\ m = Len(x) /\ n = Len(y)
  OBVIOUS
<1>2. /\ z \in Seq(Pair) /\ Len(z) = m + n /\ m \in Nat /\ n \in Nat
      /\ \A i \in 1..m : z[i] = x[i]
      /\ \A i \in 1..n : z[m + i] = y[i]
      /\ \A i \in 1..(m + n) : i \in 1..m \/ \E j \in 1..n : i = m + j
  BY <1>1, JoinIs
<1>3. ASSUME NEW i \in 1..Len(z), NEW j \in 1..Len(z), i < j PROVE z[i][1] <= z[j][1]
  <2>1. CASE i \in 1..m /\ j \in 1..m
    BY <1>1, <1>2, <1>3, <2>1 DEF Rises
  <2>2. CASE i \in 1..m /\ ~(j \in 1..m)
    <3>1. PICK b \in 1..n : j = m + b
      BY <1>2, <2>2
    <3> QED BY <1>1, <1>2, <2>2, <3>1
  <2>3. CASE ~(i \in 1..m)
    <3>1. PICK a \in 1..n : i = m + a
      BY <1>2, <2>3
    <3>2. ~(j \in 1..m)
      BY <1>2, <1>3, <3>1
    <3>3. PICK b \in 1..n : j = m + b
      BY <1>2, <3>2
    <3>4. a < b
      BY <1>2, <1>3, <3>1, <3>3
    <3> QED BY <1>1, <1>2, <3>1, <3>3, <3>4 DEF Rises
  <2> QED BY <2>1, <2>2, <2>3
<1> QED BY <1>1, <1>3 DEF Rises

LEMMA ChainReads ==
    ASSUME TreeInv, NEW c, Chained(c)
    PROVE  /\ \E t : Reading(c, t) /\ EntriesOn(c) = t[Len(c)]
           /\ \A n \in 1..Len(c) : pages[c[n]].entries \in Seq(Pair)
<1>1. pages \in Seq(Node)
  BY WholeIs DEF TreeInv
<1>2. \A n \in 1..Len(c) : c[n] \in 1..Len(pages)
  BY ChainedIs
<1>3. PICK P : P = 1..Len(pages)
  OBVIOUS
<1>4. c \in Seq(P)
  <2>1. c \in Seq(Leaf) /\ Len(c) \in Nat
    BY ChainedIs
  <2>2. \A n \in 1..Len(c) : c[n] \in P
    BY <1>2, <1>3
  <2> QED BY <2>1, <2>2
<1>5. \E t : Reading(c, t) /\ EntriesOn(c) = t[Len(c)]
  BY <1>1, <1>3, <1>4, EntriesOnAre
<1>6. \A n \in 1..Len(c) : pages[c[n]].entries \in Seq(Pair)
  BY <1>1, <1>2, PageIs
<1> QED BY <1>5, <1>6

\* What is read along the chain is in order.
LEMMA ReadRises ==
    ASSUME TreeInv, NEW lev, NEW lo, NEW hi, Fences(pages, root, lev, lo, hi), NEW c, Chained(c)
    PROVE  EntriesOn(c) \in Seq(Pair) /\ Rises(EntriesOn(c))
<1>1. PICK N \in Nat : N = Len(c)
  BY ChainedIs
<1>2. PICK t : Reading(c, t) /\ EntriesOn(c) = t[N]
  BY <1>1, ChainReads
<1> DEFINE Below(x, n) == n # 0 => \A i \in 1..Len(x) : Under(x[i][1], hi[c[n]])
           G == {n \in 0..N : Rises(t[n]) /\ Below(t[n], n)}
<1>3. 0 \in G
  <2>1. t[0] = <<>>
    BY <1>2 DEF Reading
  <2>2. Rises(<<>>)
    BY DEF Rises
  <2>3. 0 \in 0..N
    OBVIOUS
  <2> QED BY <2>1, <2>2, <2>3
<1>4. ASSUME NEW n \in 1..N, n - 1 \in G PROVE n \in G
  <2>1. PICK x, y : x = t[n - 1] /\ y = pages[c[n]].entries
    OBVIOUS
  <2>2. t[n] = x \o y /\ x \in Seq(Pair) /\ y \in Seq(Pair)
    <3>1. n - 1 \in 0..N
      OBVIOUS
    <3>2. y \in Seq(Pair)
      BY <1>1, <2>1, ChainReads
    <3> QED BY <1>1, <1>2, <2>1, <3>1, <3>2 DEF Reading
  <2>3. Rises(x) /\ Below(x, n - 1)
    BY <1>4, <2>1
  <2>4. PICK q \in 1..Len(pages) : q = c[n] /\ pages[q].leaf
    BY <1>1, ChainedIs
  <2>5. LeafIn(pages[q], lo, lo[q], hi[q]) /\ Under(lo[q], hi[q]) /\ lo[q] \in Nat /\ hi[q] \in Nat
    BY <2>4 DEF Fences
  <2>6. Rises(y) /\ \A j \in 1..Len(y) : lo[q] <= y[j][1] /\ Under(y[j][1], hi[q])
    BY <2>1, <2>4, <2>5 DEF LeafIn, Rises
  <2>7. (\A i \in 1..Len(x) : x[i][1] \in Nat) /\ (\A j \in 1..Len(y) : y[j][1] \in Nat)
    BY <2>2, KeysAre
  <2>8. ASSUME NEW i \in 1..Len(x) PROVE x[i][1] < lo[q]
    <3>1. CASE n = 1
      <4>1. x = <<>>
        BY <1>2, <2>1, <3>1 DEF Reading
      <4> QED BY <4>1
    <3>2. CASE n # 1
      <4>1. n - 1 # 0 /\ n - 1 \in 1..N /\ n \in 2..N
        BY <3>2
      <4>2. Under(x[i][1], hi[c[n - 1]])
        BY <2>3, <4>1
      <4>3. hi[c[n - 1]] # 0 /\ lo[q] = hi[c[n - 1]]
        <5>1. n - 1 < n /\ n - 1 \in 1..Len(c) /\ n \in 1..Len(c) /\ n \in 2..Len(c)
          BY <1>1, <4>1
        <5> QED BY <2>4, <5>1, ChainedUp
      <4> QED BY <4>2, <4>3 DEF Under
    <3> QED BY <3>1, <3>2
  <2>9. Rises(x \o y)
    <3>1. ASSUME NEW i \in 1..Len(x), NEW j \in 1..Len(y) PROVE x[i][1] <= y[j][1]
      <4>1. x[i][1] < lo[q] /\ lo[q] <= y[j][1]
        BY <2>6, <2>8
      <4> QED BY <2>5, <2>7, <4>1
    <3> QED BY <2>2, <2>3, <2>6, <3>1, RisesJoin
  <2>10. ASSUME NEW i \in 1..Len(x \o y) PROVE Under((x \o y)[i][1], hi[q])
    <3>1. CASE i \in 1..Len(x)
      <4>1. (x \o y)[i] = x[i]
        BY <2>2, <3>1, JoinIs
      <4>2. x[i][1] < lo[q] /\ x[i][1] \in Nat
        BY <2>7, <2>8, <3>1
      <4> QED BY <2>5, <4>1, <4>2 DEF Under
    <3>2. CASE ~(i \in 1..Len(x))
      <4>1. PICK j \in 1..Len(y) : i = Len(x) + j
        BY <2>2, <3>2, JoinIs
      <4>2. (x \o y)[i] = y[j]
        BY <2>2, <4>1, JoinIs
      <4> QED BY <2>6, <4>2
    <3> QED BY <3>1, <3>2
  <2>11. n \in 0..N
    OBVIOUS
  <2> QED BY <2>2, <2>4, <2>9, <2>10, <2>11
<1>5. N \in G
  <2>1. N \in 0..N
    OBVIOUS
  <2> HIDE DEF G
  <2> QED BY <1>3, <1>4, <2>1, StepByStep
<1>6. t[N] \in Seq(Pair)
  BY <1>1, <1>2 DEF Reading
<1> QED BY <1>2, <1>5, <1>6

LEMMA PickingIs ==
    ASSUME NEW es \in Seq(Pair), NEW lo, NEW hi, NEW t, Picking(es, lo, hi, t)
    PROVE  \A n \in 0..Len(es) : t[n] \in Seq(Pair)
<1>1. PICK K \in Nat : K = Len(es)
  OBVIOUS
<1> DEFINE G == {n \in 0..K : t[n] \in Seq(Pair)}
<1>2. 0 \in G
  <2>1. t[0] = <<>> /\ 0 \in 0..K
    BY DEF Picking
  <2>2. <<>> \in Seq(Pair)
    OBVIOUS
  <2> QED BY <2>1, <2>2
<1>3. ASSUME NEW n \in 1..K, n - 1 \in G PROVE n \in G
  <2>1. PICK f : f = t[n - 1]
    OBVIOUS
  <2>2. f \in Seq(Pair) /\ es[n] \in Pair
    BY <1>1, <1>3, <2>1, KeysAre
  <2>3. t[n] = IF es[n][1] \in lo..hi THEN Append(f, es[n]) ELSE f
    BY <1>1, <2>1 DEF Picking
  <2>4. t[n] \in Seq(Pair) /\ n \in 0..K
    BY <2>2, <2>3
  <2> QED BY <2>4
<1> HIDE DEF G
<1>4. \A n \in 0..K : n \in G
  BY <1>2, <1>3, StepByStep
<1> QED BY <1>1, <1>4 DEF G

LEMMA BetweenNone ==
    ASSUME NEW es \in Seq(Pair), NEW lo, NEW hi, \A i \in 1..Len(es) : es[i][1] \notin lo..hi
    PROVE  Between(es, lo, hi) = <<>>
<1>1. PICK K \in Nat : K = Len(es)
  OBVIOUS
<1>2. PICK t : Picking(es, lo, hi, t) /\ Between(es, lo, hi) = t[K]
  BY <1>1, BetweenSteps
<1> DEFINE G == {n \in 0..K : t[n] = <<>>}
<1>3. 0 \in G
  BY <1>2 DEF Picking
<1>4. ASSUME NEW n \in 1..K, n - 1 \in G PROVE n \in G
  <2>1. t[n] = t[n - 1]
    BY <1>1, <1>2 DEF Picking
  <2> QED BY <1>4, <2>1
<1>5. K \in G
  <2>1. K \in 0..K
    OBVIOUS
  <2> HIDE DEF G
  <2> QED BY <1>3, <1>4, <2>1, StepByStep
<1> QED BY <1>2, <1>5

LEMMA AppendJoin ==
    ASSUME NEW a \in Seq(Pair), NEW b \in Seq(Pair), NEW e \in Pair
    PROVE  Append(a \o b, e) = a \o Append(b, e)
<1>1. a \o b \in Seq(Pair) /\ <<e>> \in Seq(Pair)
  OBVIOUS
<1>2. Append(a \o b, e) = (a \o b) \o <<e>>
  BY <1>1, AppendIsConcat
<1>3. Append(b, e) = b \o <<e>>
  BY AppendIsConcat
<1>4. (a \o b) \o <<e>> = a \o (b \o <<e>>)
  BY <1>1, ConcatAssociative
<1> QED BY <1>2, <1>3, <1>4

LEMMA BetweenJoin ==
    ASSUME NEW x \in Seq(Pair), NEW y \in Seq(Pair), NEW lo, NEW hi
    PROVE  /\ Between(x \o y, lo, hi) = Between(x, lo, hi) \o Between(y, lo, hi)
           /\ Between(x, lo, hi) \in Seq(Pair)
<1>1. PICK z, m, n : z = x \o y /\ m = Len(x) /\ n = Len(y)
  OBVIOUS
<1>2. /\ z \in Seq(Pair) /\ Len(z) = m + n /\ m \in Nat /\ n \in Nat
      /\ \A i \in 1..m : z[i] = x[i]
      /\ \A i \in 1..n : z[m + i] = y[i]
  BY <1>1, JoinIs
<1>3. PICK s : Picking(x, lo, hi, s) /\ Between(x, lo, hi) = s[m]
  BY <1>1, BetweenSteps
<1>4. PICK t : Picking(y, lo, hi, t) /\ Between(y, lo, hi) = t[n]
  BY <1>1, BetweenSteps
<1>5. PICK u : Picking(z, lo, hi, u) /\ Between(z, lo, hi) = u[m + n]
  <2>1. \E u : Picking(z, lo, hi, u) /\ Between(z, lo, hi) = u[Len(z)]
    <3>1. z \in Seq(Pair)
      BY <1>2
    <3> QED BY ONLY <3>1, BetweenSteps
  <2> QED BY <1>2, <2>1
<1>6. (\A i \in 0..m : s[i] \in Seq(Pair)) /\ (\A i \in 0..n : t[i] \in Seq(Pair))
  BY <1>1, <1>3, <1>4, PickingIs
<1> DEFINE G == {i \in 0..m : u[i] = s[i]}
<1>7. 0 \in G
  BY <1>2, <1>3, <1>5 DEF Picking
<1>8. ASSUME NEW i \in 1..m, i - 1 \in G PROVE i \in G
  <2>1. i \in 1..Len(z) /\ i \in 1..Len(x) /\ z[i] = x[i] /\ i \in 0..m
    BY <1>1, <1>2
  <2>2. u[i] = s[i]
    BY <1>3, <1>5, <1>8, <2>1 DEF Picking
  <2> QED BY <2>1, <2>2
<1>9. u[m] = s[m]
  <2>1. m \in 0..m
    BY <1>2
  <2>2. m \in G
    <3> HIDE DEF G
    <3> QED BY <1>2, <1>7, <1>8, <2>1, StepByStep
  <2> QED BY <2>2
<1>10. PICK a \in Seq(Pair) : a = s[m]
  <2>1. m \in 0..m
    BY <1>2
  <2> QED BY <1>6, <2>1
<1> DEFINE H == {i \in 0..n : u[m + i] = a \o t[i]}
<1>11. 0 \in H
  <2>1. t[0] = <<>> /\ m + 0 = m /\ 0 \in 0..n
    BY <1>2, <1>4 DEF Picking
  <2>2. a \o <<>> = a
    OBVIOUS
  <2> QED BY <1>9, <1>10, <2>1, <2>2
<1>12. ASSUME NEW i \in 1..n, i - 1 \in H PROVE i \in H
  <2>1. /\ m + i \in 1..Len(z) /\ i \in 1..Len(y) /\ z[m + i] = y[i] /\ i \in 0..n /\ i - 1 \in 0..n
        /\ (m + i) - 1 = m + (i - 1)
    BY <1>1, <1>2
  <2>2. PICK b \in Seq(Pair) : b = t[i - 1]
    BY <1>6, <2>1
  <2>3. u[m + (i - 1)] = a \o b
    BY <1>12, <2>2
  <2>4. y[i] \in Pair
    BY <2>1, KeysAre
  <2>5. CASE y[i][1] \in lo..hi
    <3>1. u[m + i] = Append(u[m + (i - 1)], y[i])
      BY <1>5, <2>1, <2>5 DEF Picking
    <3>2. t[i] = Append(b, y[i])
      BY <1>4, <2>1, <2>2, <2>5 DEF Picking
    <3>3. PICK e \in Pair : e = y[i]
      BY <2>4
    <3>4. Append(a \o b, e) = a \o Append(b, e)
      BY AppendJoin
    <3> QED BY <2>1, <2>3, <3>1, <3>2, <3>3, <3>4
  <2>6. CASE y[i][1] \notin lo..hi
    <3>1. u[m + i] = u[m + (i - 1)]
      BY <1>5, <2>1, <2>6 DEF Picking
    <3>2. t[i] = b
      BY <1>4, <2>1, <2>2, <2>6 DEF Picking
    <3> QED BY <2>1, <2>3, <3>1, <3>2
  <2> QED BY <2>5, <2>6
<1>13. u[m + n] = a \o t[n]
  <2>1. n \in 0..n
    BY <1>2
  <2>2. n \in H
    <3> HIDE DEF H
    <3> QED BY <1>2, <1>11, <1>12, <2>1, StepByStep
  <2> QED BY <2>2
<1> QED BY <1>1, <1>3, <1>4, <1>5, <1>10, <1>13

\* A prefix of a chain is one.
LEMMA ChainedPart ==
    ASSUME NEW c, Chained(c), NEW m \in 1..Len(c)
    PROVE  /\ Chained(SubSeq(c, 1, m)) /\ Len(SubSeq(c, 1, m)) = m
           /\ \A i \in 1..m : SubSeq(c, 1, m)[i] = c[i]
<1>1. c \in Seq(Leaf) /\ Len(c) \in Nat
  BY ChainedIs
<1>2. PICK d : d = SubSeq(c, 1, m)
  OBVIOUS
<1>3. d \in Seq(Leaf) /\ Len(d) = m /\ d # <<>> /\ \A i \in 1..m : d[i] = c[i]
  BY <1>1, <1>2
<1>4. ASSUME NEW i \in 2..m PROVE pages[d[i - 1]].right = d[i]
  <2>1. i \in 2..Len(c) /\ i \in 1..m /\ i - 1 \in 1..m
    BY <1>1
  <2> QED BY <1>3, <2>1 DEF Chained
<1> QED BY <1>2, <1>3, <1>4 DEF Chained

\* Two chains to the last leaf are one from where they meet.
LEMMA SameChain ==
    ASSUME NEW c, Chained(c), pages[Last(c)].right = NoNode,
           NEW d, Chained(d), pages[Last(d)].right = NoNode,
           NEW s \in 1..Len(c), d[1] = c[s]
    PROVE  /\ \A n \in 1..Len(d) : (s - 1) + n \in 1..Len(c) /\ d[n] = c[(s - 1) + n]
           /\ (s - 1) + Len(d) = Len(c)
<1>1. PICK N, M \in Nat : N = Len(c) /\ M = Len(d)
  BY ChainedIs
<1>2. s \in 1..N /\ N > 0 /\ M > 0 /\ Last(c) = c[N] /\ Last(d) = d[M]
  BY <1>1, ChainedIs
<1> DEFINE G == {n \in 0..M : n # 0 => (s - 1) + n \in 1..N /\ d[n] = c[(s - 1) + n]}
<1>3. 0 \in G
  BY <1>1
<1>4. ASSUME NEW n \in 1..M, n - 1 \in G PROVE n \in G
  <2>1. CASE n = 1
    <3>1. (s - 1) + n = s /\ n \in 0..M
      BY <1>2, <2>1
    <3> QED BY <1>2, <2>1, <3>1
  <2>2. CASE n # 1
    <3>1. PICK j : j = (s - 1) + (n - 1)
      OBVIOUS
    <3>2. j \in 1..N /\ d[n - 1] = c[j]
      <4>1. n - 1 # 0
        BY <2>2
      <4> QED BY <1>4, <3>1, <4>1
    <3>3. pages[d[n - 1]].right = d[n] /\ d[n] # NoNode
      <4>1. n \in 2..Len(d) /\ n \in 1..Len(d)
        BY <1>1, <2>2
      <4>2. d[n] \in 1..Len(pages)
        BY <4>1, ChainedIs
      <4> QED BY <4>1, <4>2 DEF Chained, NoNode
    <3>4. j # N
      BY <1>2, <3>2, <3>3
    <3>5. j + 1 \in 2..Len(c) /\ (j + 1) - 1 = j /\ j + 1 = (s - 1) + n /\ j + 1 \in 1..N
      BY <1>1, <1>2, <3>1, <3>2, <3>4
    <3>6. pages[c[j]].right = c[j + 1]
      BY <3>5 DEF Chained
    <3>7. n \in 0..M
      OBVIOUS
    <3> QED BY <3>2, <3>3, <3>5, <3>6, <3>7
  <2> QED BY <2>1, <2>2
<1>5. \A n \in 0..M : n \in G
  <2> HIDE DEF G
  <2> QED BY <1>1, <1>3, <1>4, StepByStep
<1>6. ASSUME NEW n \in 1..M PROVE (s - 1) + n \in 1..N /\ d[n] = c[(s - 1) + n]
  <2>1. n \in 0..M /\ n # 0
    OBVIOUS
  <2>2. n \in G
    BY <1>5, <2>1
  <2> QED BY <2>1, <2>2
<1>7. (s - 1) + M = N
  <2>1. PICK j \in 1..N : j = (s - 1) + M /\ d[M] = c[j]
    <3>1. M \in 1..M
      BY <1>1, <1>2
    <3> QED BY <1>6, <3>1
  <2>2. SUFFICES ASSUME j # N PROVE FALSE
    BY <2>1
  <2>3. j + 1 \in 2..Len(c) /\ (j + 1) - 1 = j /\ j + 1 \in 1..Len(c)
    BY <1>1, <2>2
  <2>4. pages[c[j]].right = c[j + 1]
    BY <2>3 DEF Chained
  <2>5. c[j + 1] \in 1..Len(pages)
    BY <2>3, ChainedIs
  <2> QED BY <1>2, <2>1, <2>4, <2>5 DEF NoNode
<1> QED BY <1>1, <1>6, <1>7

\* The chain from the leftmost leaf goes through the leaf for any key.
LEMMA OnChain ==
    ASSUME TreeInv, NEW lev, NEW lo, NEW hi, Fences(pages, root, lev, lo, hi), NEW k \in Nat,
           NEW c, Chained(c), c[1] = FindLeaf(NoKey), pages[Last(c)].right = NoNode
    PROVE  \E s \in 1..Len(c) : c[s] = FindLeaf(k)
<1>1. PICK N \in Nat : N = Len(c) /\ N > 0 /\ Last(c) = c[N]
  BY ChainedIs
<1>2. \A i \in 1..N : c[i] \in 1..Len(pages) /\ pages[c[i]].leaf
  BY <1>1, ChainedIs
<1>3. \A i \in 1..N : lo[c[i]] \in Nat /\ hi[c[i]] \in Nat /\ LeafIn(pages[c[i]], lo, lo[c[i]], hi[c[i]])
  BY <1>2 DEF Fences
<1> DEFINE I == {i \in 1..N : Under(k, hi[c[i]])}
<1>4. N \in I
  <2>1. N \in 1..N
    BY <1>1
  <2>2. hi[c[N]] = 0
    BY <1>1, <1>3, <2>1 DEF LeafIn
  <2> QED BY <2>1, <2>2 DEF Under
<1>5. PICK s \in I : \A i \in I : s <= i
  <2>1. I \in SUBSET Nat /\ I # {}
    BY <1>4
  <2> HIDE DEF I
  <2> QED BY <2>1, LeastOf
<1>6. s \in 1..N /\ Under(k, hi[c[s]])
  OBVIOUS
<1>7. lo[c[s]] <= k
  <2>1. CASE s = 1
    <3>1. NoKey \in Nat /\ NoKey = 0
      BY DEF NoKey
    <3>2. lo[c[1]] <= 0
      BY <3>1, FindLeafFenced
    <3> QED BY <1>3, <1>6, <2>1, <3>2
  <2>2. CASE s # 1
    <3>1. s \in 2..Len(c) /\ s - 1 \in 1..N /\ ~(s <= s - 1)
      BY <1>1, <1>6, <2>2
    <3>2. s - 1 \notin I
      <4> HIDE DEF I
      <4> QED BY <1>5, <3>1
    <3>3. ~Under(k, hi[c[s - 1]])
      BY <3>1, <3>2
    <3>4. lo[c[s]] = hi[c[s - 1]]
      BY <3>1, ChainedUp
    <3>5. hi[c[s - 1]] \in Nat
      BY <1>3, <3>1
    <3> QED BY <3>3, <3>4, <3>5 DEF Under
  <2> QED BY <2>1, <2>2
<1>8. c[s] = FindLeaf(k)
  BY <1>2, <1>6, <1>7, OneLeaf
<1> QED BY <1>1, <1>6, <1>8

\* The b leaves of c that follow the first a have no key of the range.
Barren(c, a, b, l, h) ==
    /\ a \in Nat /\ b \in Nat /\ a + b <= Len(c)
    /\ \A n \in 1..b : \A j \in 1..Len(pages[c[a + n]].entries) :
          pages[c[a + n]].entries[j][1] \notin l..h

\* They add nothing to what is in it.
LEMMA Skips ==
    ASSUME TreeInv, NEW c, Chained(c), NEW t, Reading(c, t), NEW l, NEW h, NEW a, NEW b,
           Barren(c, a, b, l, h)
    PROVE  Between(t[a + b], l, h) = Between(t[a], l, h)
<1> DEFINE G == {n \in 0..b : Between(t[a + n], l, h) = Between(t[a], l, h)}
<1>1. Len(c) \in Nat /\ a \in Nat /\ b \in Nat /\ a + b <= Len(c)
  BY ChainedIs DEF Barren
<1>2. 0 \in G
  <2>1. a + 0 = a /\ 0 \in 0..b
    BY <1>1
  <2> QED BY <2>1
<1>3. ASSUME NEW n \in 1..b, n - 1 \in G PROVE n \in G
  <2>1. /\ a + n \in 1..Len(c) /\ (a + n) - 1 = a + (n - 1) /\ a + (n - 1) \in 0..Len(c)
        /\ n \in 0..b
    BY <1>1
  <2>2. PICK x, y : x = t[a + (n - 1)] /\ y = pages[c[a + n]].entries
    OBVIOUS
  <2>3. x \in Seq(Pair) /\ y \in Seq(Pair) /\ t[a + n] = x \o y
    <3>1. y \in Seq(Pair)
      BY <2>1, <2>2, ChainReads
    <3> QED BY <2>1, <2>2, <3>1 DEF Reading
  <2>4. Between(y, l, h) = <<>>
    <3>1. \A j \in 1..Len(y) : y[j][1] \notin l..h
      BY <2>2 DEF Barren
    <3> QED BY <2>3, <3>1, BetweenNone
  <2>5. Between(x \o y, l, h) = Between(x, l, h) \o Between(y, l, h) /\ Between(x, l, h) \in Seq(Pair)
    BY <2>3, BetweenJoin
  <2>6. PICK z \in Seq(Pair) : z = Between(x, l, h)
    BY <2>5
  <2>7. z \o <<>> = z
    OBVIOUS
  <2>8. Between(t[a + n], l, h) = Between(x, l, h)
    BY <2>3, <2>4, <2>5, <2>6, <2>7
  <2> QED BY <1>3, <2>1, <2>2, <2>8
<1>4. b \in G
  <2>1. b \in 0..b
    BY <1>1
  <2> HIDE DEF G
  <2> QED BY <1>1, <1>2, <1>3, <2>1, StepByStep
<1> QED BY <1>4

\* r is a part of the chain c, behind its first a leaves.
PartOf(r, c, a) ==
    /\ Chained(r) /\ a \in Nat /\ a + Len(r) <= Len(c)
    /\ \A n \in 1..Len(r) : r[n] = c[a + n]

LEMMA PartRead ==
    ASSUME TreeInv, NEW c, Chained(c), NEW t, Reading(c, t), NEW r, NEW a, PartOf(r, c, a)
    PROVE  t[a + Len(r)] = t[a] \o EntriesOn(r)
<1>0. /\ Chained(r) /\ a \in Nat /\ a + Len(r) <= Len(c)
      /\ \A n \in 1..Len(r) : r[n] = c[a + n]
  BY DEF PartOf
<1>1. PICK M \in Nat : M = Len(r)
  BY <1>0, ChainedIs
<1>2. PICK u : Reading(r, u) /\ EntriesOn(r) = u[M]
  BY <1>0, <1>1, ChainReads
<1>3. Len(c) \in Nat /\ a + M <= Len(c)
  BY <1>0, <1>1, ChainedIs
<1>4. PICK x \in Seq(Pair) : x = t[a]
  <2>1. a \in 0..Len(c)
    BY <1>0, <1>3
  <2> QED BY <2>1 DEF Reading
<1> DEFINE G == {n \in 0..M : t[a + n] = x \o u[n]}
<1>5. 0 \in G
  <2>1. a + 0 = a /\ 0 \in 0..M /\ u[0] = <<>>
    BY <1>0, <1>2 DEF Reading
  <2>2. x \o <<>> = x
    OBVIOUS
  <2> QED BY <1>4, <2>1, <2>2
<1>6. ASSUME NEW n \in 1..M, n - 1 \in G PROVE n \in G
  <2>1. /\ a + n \in 1..Len(c) /\ (a + n) - 1 = a + (n - 1) /\ n \in 1..Len(r)
        /\ n - 1 \in 0..Len(r) /\ n \in 0..M
    BY <1>0, <1>1, <1>3
  <2>2. PICK y, z : y = u[n - 1] /\ z = pages[r[n]].entries
    OBVIOUS
  <2>3. y \in Seq(Pair) /\ z \in Seq(Pair)
    <3>1. z \in Seq(Pair)
      BY <1>0, <2>1, <2>2, ChainReads
    <3> QED BY <1>2, <2>1, <2>2, <3>1 DEF Reading
  <2>4. u[n] = y \o z
    BY <1>2, <2>1, <2>2 DEF Reading
  <2>5. t[a + n] = t[a + (n - 1)] \o z
    <3>1. t[a + n] = t[(a + n) - 1] \o pages[c[a + n]].entries
      BY <2>1 DEF Reading
    <3>2. c[a + n] = r[n]
      BY <1>0, <2>1
    <3> QED BY <2>1, <2>2, <3>1, <3>2
  <2>6. t[a + (n - 1)] = x \o y
    BY <1>6, <2>2
  <2>7. (x \o y) \o z = x \o (y \o z)
    BY <2>3, ConcatAssociative
  <2> QED BY <2>1, <2>4, <2>5, <2>6, <2>7
<1>7. M \in G
  <2>1. M \in 0..M
    OBVIOUS
  <2> HIDE DEF G
  <2> QED BY <1>5, <1>6, <2>1, StepByStep
<1> QED BY <1>1, <1>2, <1>4, <1>7

\* r is what a scan goes through of the chain d: all of it, or up to a leaf that has
\* a key past h.
CutPast(r, d, h) ==
    /\ Chained(r) /\ Len(r) \in 1..Len(d) /\ \A n \in 1..Len(r) : r[n] = d[n]
    /\ Len(r) < Len(d) =>
          \E j \in 1..Len(pages[d[Len(r)]].entries) : pages[d[Len(r)]].entries[j][1] > h

LEMMA RangeReads ==
    ASSUME TreeInv, NEW d, Chained(d), NEW h \in Nat, NEW r, NEW stop,
           stop = {i \in DOMAIN d : \E j \in DOMAIN pages[d[i]].entries : pages[d[i]].entries[j][1] > h},
           r = IF stop = {} THEN d ELSE SubSeq(d, 1, Min(stop))
    PROVE  CutPast(r, d, h)
<1>1. DOMAIN d = 1..Len(d) /\ Len(d) \in Nat /\ Len(d) > 0
  <2>1. d \in Seq(Leaf) /\ Len(d) \in Nat /\ Len(d) > 0
    BY ChainedIs
  <2> QED BY <2>1
<1>2. CASE stop = {}
  <2>1. r = d
    BY <1>2
  <2>2. Len(d) \in 1..Len(d) /\ ~(Len(d) < Len(d))
    BY <1>1
  <2> QED BY <2>1, <2>2 DEF CutPast
<1>3. CASE stop # {}
  <2>1. PICK M : M = Min(stop)
    OBVIOUS
  <2>2. stop \in SUBSET Nat
    BY <1>1
  <2>3. M \in stop
    BY <1>3, <2>1, <2>2, MinIs
  <2>4. M \in 1..Len(d) /\ M \in Nat
    BY <1>1, <2>3
  <2>5. \E j \in 1..Len(pages[d[M]].entries) : pages[d[M]].entries[j][1] > h
    <3>1. pages[d[M]].entries \in Seq(Pair)
      BY <2>4, ChainReads
    <3>2. DOMAIN pages[d[M]].entries = 1..Len(pages[d[M]].entries)
      BY <3>1
    <3> QED BY <2>3, <3>2
  <2>6. r = SubSeq(d, 1, M)
    BY <1>3, <2>1
  <2>7. Chained(r) /\ Len(r) = M /\ \A n \in 1..M : r[n] = d[n]
    BY <2>4, <2>6, ChainedPart
  <2> QED BY <2>4, <2>5, <2>7 DEF CutPast
<1> QED BY <1>2, <1>3

Behind(x, y, lo, hi) == x \in Seq(Pair) /\ y \in Seq(Pair) /\ Between(x, lo, hi) = <<>>

LEMMA BetweenBehind ==
    ASSUME NEW x, NEW y, NEW lo, NEW hi, Behind(x, y, lo, hi)
    PROVE  Between(x \o y, lo, hi) = Between(y, lo, hi)
<1>1. x \in Seq(Pair) /\ y \in Seq(Pair) /\ Between(x, lo, hi) = <<>>
  BY DEF Behind
<1>2. Between(x \o y, lo, hi) = Between(x, lo, hi) \o Between(y, lo, hi) /\ Between(x, lo, hi) \in Seq(Pair)
  BY <1>1, BetweenJoin
<1>3. Between(y, lo, hi) \in Seq(Pair)
  BY <1>1, BetweenJoin
<1>4. PICK z : z = Between(y, lo, hi)
  OBVIOUS
<1>5. <<>> \o z = z
  BY <1>3, <1>4
<1> QED BY <1>1, <1>2, <1>4, <1>5

LEMMA RangeScanIs ==
    ASSUME TreeInv, NEW lev, NEW lo, NEW hi, Fences(pages, root, lev, lo, hi),
           NEW l \in Nat, NEW h \in Nat
    PROVE  RangeScan(l, h) = Between(AllEntries, l, h)
<1>1. PICK c : c = Chain(FindLeaf(NoKey))
  OBVIOUS
<1>2. Chained(c) /\ c[1] = FindLeaf(NoKey) /\ pages[Last(c)].right = NoNode
  <2>1. FindLeaf(NoKey) \in Leaf
    BY FindLeafIs DEF Leaf
  <2> QED BY <1>1, <2>1, ChainEnds
<1>3. PICK p \in Leaf : p = FindLeaf(l) /\ lo[p] <= l
  BY FindLeafFenced DEF Leaf
<1>4. PICK d : d = Chain(p)
  OBVIOUS
<1>5. Chained(d) /\ d[1] = p /\ pages[Last(d)].right = NoNode
  BY <1>4, ChainEnds
<1>6. PICK s \in 1..Len(c) : c[s] = p
  BY <1>2, <1>3, OnChain
<1>7. /\ \A n \in 1..Len(d) : (s - 1) + n \in 1..Len(c) /\ d[n] = c[(s - 1) + n]
      /\ (s - 1) + Len(d) = Len(c)
  BY <1>2, <1>5, <1>6, SameChain
<1>8. PICK a, N \in Nat : a = s - 1 /\ N = Len(c)
  <2>1. Len(c) \in Nat /\ s - 1 \in Nat
    BY <1>2, ChainedIs
  <2> QED BY <2>1
<1> DEFINE stop == {i \in DOMAIN d : \E j \in DOMAIN pages[d[i]].entries : pages[d[i]].entries[j][1] > h}
<1>9. RangeScan(l, h) = Between(EntriesOn(IF stop = {} THEN d ELSE SubSeq(d, 1, Min(stop))), l, h)
  BY <1>3, <1>4 DEF RangeScan
<1>10. PICK r : r = IF stop = {} THEN d ELSE SubSeq(d, 1, Min(stop))
  OBVIOUS
<1>10a. CutPast(r, d, h)
  <2>1. PICK st : st = stop
    OBVIOUS
  <2>2. st = {i \in DOMAIN d : \E j \in DOMAIN pages[d[i]].entries : pages[d[i]].entries[j][1] > h}
    BY <2>1
  <2> HIDE DEF stop
  <2>3. r = IF st = {} THEN d ELSE SubSeq(d, 1, Min(st))
    BY <1>10, <2>1
  <2> QED BY <1>5, <2>2, <2>3, RangeReads
<1> HIDE DEF stop
<1>10b. PICK M : M = Len(r)
  OBVIOUS
<1>10c. /\ Chained(r) /\ M \in 1..Len(d) /\ \A n \in 1..M : r[n] = d[n]
        /\ M < Len(d) => \E j \in 1..Len(pages[d[M]].entries) : pages[d[M]].entries[j][1] > h
  BY <1>10a, <1>10b DEF CutPast
<1>11. PICK t : Reading(c, t) /\ EntriesOn(c) = t[N]
  BY <1>2, <1>8, ChainReads
<1>12. Len(d) \in Nat /\ a + Len(d) = N /\ a + M \in 1..N /\ a + 1 = s /\ M \in 1..Len(d)
  <2>1. Len(d) \in Nat
    BY <1>5, ChainedIs
  <2> QED BY <1>7, <1>8, <1>10c, <2>1
<1>13. \A n \in 1..N : /\ c[n] \in 1..Len(pages) /\ pages[c[n]].leaf
                       /\ lo[c[n]] \in Nat /\ hi[c[n]] \in Nat
                       /\ LeafIn(pages[c[n]], lo, lo[c[n]], hi[c[n]])
  <2>1. \A n \in 1..N : c[n] \in 1..Len(pages) /\ pages[c[n]].leaf
    BY <1>2, <1>8, ChainedIs
  <2> QED BY <2>1 DEF Fences
<1>14. \A n \in 1..N : \A j \in 1..Len(pages[c[n]].entries) :
          /\ pages[c[n]].entries[j][1] \in Nat
          /\ lo[c[n]] <= pages[c[n]].entries[j][1] /\ Under(pages[c[n]].entries[j][1], hi[c[n]])
  <2>1. ASSUME NEW n \in 1..N, NEW j \in 1..Len(pages[c[n]].entries)
        PROVE  /\ pages[c[n]].entries[j][1] \in Nat
               /\ lo[c[n]] <= pages[c[n]].entries[j][1] /\ Under(pages[c[n]].entries[j][1], hi[c[n]])
    <3>1. pages[c[n]].entries \in Seq(Pair)
      BY <1>2, <1>8, ChainReads
    <3>2. pages[c[n]].entries[j][1] \in Nat
      BY <3>1, KeysAre
    <3> QED BY <1>13, <3>2 DEF LeafIn
  <2> QED BY <2>1
<1>15. \A i, j \in 1..N : i < j => hi[c[i]] # 0 /\ hi[c[i]] <= lo[c[j]]
  BY <1>2, <1>8, ChainedUp
<1>16. Between(t[a], l, h) = <<>>
  <2>1. ASSUME NEW n \in 1..a, NEW j \in 1..Len(pages[c[0 + n]].entries)
        PROVE  pages[c[0 + n]].entries[j][1] \notin l..h
    <3>1. 0 + n = n /\ n \in 1..N /\ s \in 1..N /\ n < s
      BY <1>8, <1>12
    <3>2. PICK x : x = pages[c[n]].entries[j][1]
      OBVIOUS
    <3>3. x \in Nat /\ Under(x, hi[c[n]])
      BY <1>14, <2>1, <3>1, <3>2
    <3>4. hi[c[n]] # 0 /\ hi[c[n]] <= lo[c[s]]
      BY <1>15, <3>1
    <3>5. lo[c[s]] <= l /\ lo[c[s]] \in Nat /\ hi[c[n]] \in Nat
      BY <1>3, <1>6, <1>13, <3>1
    <3>6. x < l
      BY <3>3, <3>4, <3>5 DEF Under
    <3> QED BY <3>1, <3>2, <3>3, <3>6
  <2>2. 0 + a = a /\ 0 + a <= Len(c) /\ 0 \in Nat
    BY <1>8, <1>12
  <2>2a. Barren(c, 0, a, l, h)
    BY <2>1, <2>2 DEF Barren
  <2>3. Between(t[0 + a], l, h) = Between(t[0], l, h)
    BY <1>2, <1>11, <2>2a, Skips
  <2>4. Between(<<>>, l, h) = <<>>
    <3>1. <<>> \in Seq(Pair) /\ Len(<<>>) = 0
      OBVIOUS
    <3>2. \A i \in 1..Len(<<>>) : <<>>[i][1] \notin l..h
      BY <3>1
    <3> QED BY <3>1, <3>2, BetweenNone
  <2>5. t[0] = <<>>
    BY <1>11 DEF Reading
  <2> QED BY <2>2, <2>3, <2>4, <2>5
<1>17. t[a + M] = t[a] \o EntriesOn(r)
  <2>1. \A n \in 1..M : r[n] = c[a + n]
    <3>1. ASSUME NEW n \in 1..M PROVE r[n] = c[a + n]
      <4>1. n \in 1..Len(d)
        BY <1>12
      <4> QED BY <1>7, <1>8, <1>10c, <4>1
    <3> QED BY <3>1
  <2>2. a + M <= Len(c)
    BY <1>8, <1>12
  <2>3. PartOf(r, c, a)
    BY <1>10b, <1>10c, <2>1, <2>2 DEF PartOf
  <2>4. t[a + Len(r)] = t[a] \o EntriesOn(r)
    BY <1>2, <1>11, <2>3, PartRead
  <2> QED BY <1>10b, <2>4
<1>18. Between(t[a + M], l, h) = Between(EntriesOn(r), l, h)
  <2>1. PICK x, y : x = t[a] /\ y = EntriesOn(r)
    OBVIOUS
  <2>2. x \in Seq(Pair) /\ y \in Seq(Pair)
    <3>1. a \in 0..Len(c)
      BY <1>8, <1>12
    <3>2. EntriesOn(r) \in Seq(Pair)
      BY <1>10c, ReadRises
    <3> QED BY <1>11, <2>1, <3>1, <3>2 DEF Reading
  <2>3. Behind(x, y, l, h)
    BY <1>16, <2>1, <2>2 DEF Behind
  <2> QED BY <1>17, <2>1, <2>3, BetweenBehind
<1>19. Between(t[N], l, h) = Between(t[a + M], l, h)
  <2>1. PICK e, b \in Nat : e = a + M /\ e + b = N
    <3>1. a + M \in Nat /\ N - (a + M) \in Nat /\ (a + M) + (N - (a + M)) = N
      BY <1>12
    <3> QED BY <3>1
  <2>2. ASSUME NEW n \in 1..b, NEW j \in 1..Len(pages[c[e + n]].entries)
        PROVE  pages[c[e + n]].entries[j][1] \notin l..h
    <3>1. e + n \in 1..N /\ e \in 1..N /\ e < e + n /\ M < Len(d)
      BY <1>12, <2>1
    <3>2. PICK i \in 1..Len(pages[d[M]].entries) : pages[d[M]].entries[i][1] > h
      BY <1>10c, <3>1
    <3>3. d[M] = c[e]
      BY <1>7, <1>8, <1>12, <2>1
    <3>4. PICK w : w = pages[c[e]].entries[i][1]
      OBVIOUS
    <3>5. w \in Nat /\ w > h /\ Under(w, hi[c[e]])
      BY <1>14, <3>1, <3>2, <3>3, <3>4
    <3>6. hi[c[e]] # 0 /\ hi[c[e]] <= lo[c[e + n]]
      BY <1>15, <3>1
    <3>7. PICK x : x = pages[c[e + n]].entries[j][1]
      OBVIOUS
    <3>8. x \in Nat /\ lo[c[e + n]] <= x
      BY <1>14, <2>2, <3>1, <3>7
    <3>9. hi[c[e]] \in Nat /\ lo[c[e + n]] \in Nat
      BY <1>13, <3>1
    <3>10. x > h
      BY <3>5, <3>6, <3>8, <3>9 DEF Under
    <3> QED BY <3>7, <3>8, <3>10
  <2>3. Barren(c, e, b, l, h)
    <3>1. e + b <= Len(c)
      BY <1>8, <2>1
    <3> QED BY <2>2, <3>1 DEF Barren
  <2>4. Between(t[e + b], l, h) = Between(t[e], l, h)
    BY <1>2, <1>11, <2>3, Skips
  <2> QED BY <2>1, <2>4
<1>20. AllEntries = t[N]
  BY <1>1, <1>11 DEF AllEntries
<1> QED BY <1>9, <1>10, <1>18, <1>19, <1>20

\* In order, each key begins once.
LEMMA KeysCounted ==
    ASSUME NEW x \in Seq(Pair), Rises(x)
    PROVE  Cardinality({i \in DOMAIN x : i = 1 \/ x[i][1] # x[i - 1][1]})
              = Cardinality({x[i][1] : i \in DOMAIN x})
<1>1. PICK N \in Nat : N = Len(x)
  OBVIOUS
<1>2. DOMAIN x = 1..N /\ \A i \in 1..N : x[i][1] \in Nat
  <2>1. \A i \in 1..N : x[i][1] \in Nat
    BY <1>1, KeysAre
  <2> QED BY <1>1, <2>1
<1>3. \A i, j \in 1..N : i < j => x[i][1] <= x[j][1]
  BY <1>1 DEF Rises
<1> DEFINE I == {i \in 1..N : i = 1 \/ x[i][1] # x[i - 1][1]}
           K == {x[i][1] : i \in 1..N}
           f == [i \in I |-> x[i][1]]
<1>4. f \in [I -> K]
  OBVIOUS
<1>5. ASSUME NEW i \in I, NEW j \in I, i < j PROVE f[i] # f[j]
  <2>1. i \in 1..N /\ j \in 1..N /\ j # 1 /\ j - 1 \in 1..N /\ (i = j - 1 \/ i < j - 1)
    BY <1>5
  <2>2. x[j][1] # x[j - 1][1]
    BY <2>1
  <2>3. x[i][1] <= x[j - 1][1]
    BY <1>2, <1>3, <2>1
  <2>4. x[j - 1][1] <= x[j][1]
    <3>1. j - 1 < j
      BY <2>1
    <3> QED BY <1>3, <2>1, <3>1
  <2>5. x[i][1] \in Nat /\ x[j][1] \in Nat /\ x[j - 1][1] \in Nat
    BY <1>2, <2>1
  <2> QED BY <2>2, <2>3, <2>4, <2>5
<1>6. ASSUME NEW i \in I, NEW j \in I, f[i] = f[j] PROVE i = j
  <2>1. i \in Nat /\ j \in Nat
    OBVIOUS
  <2> HIDE DEF I, f
  <2> QED BY <1>5, <1>6, <2>1
<1>7. ASSUME NEW k \in K PROVE \E i \in I : f[i] = k
  <2> DEFINE J == {i \in 1..N : x[i][1] = k}
  <2>1. PICK i \in J : \A j \in J : i <= j
    <3>1. J \in SUBSET Nat /\ J # {}
      OBVIOUS
    <3> HIDE DEF J
    <3> QED BY <3>1, LeastOf
  <2>2. i \in 1..N /\ x[i][1] = k
    OBVIOUS
  <2>3. i # 1 => x[i - 1][1] # k
    <3>1. SUFFICES ASSUME i # 1 PROVE x[i - 1][1] # k
      OBVIOUS
    <3>2. i - 1 \in 1..N /\ ~(i <= i - 1)
      BY <2>2, <3>1
    <3>3. i - 1 \notin J
      <4> HIDE DEF J
      <4> QED BY <2>1, <3>2
    <3> QED BY <3>2, <3>3
  <2>4. i \in I
    BY <2>2, <2>3
  <2> QED BY <2>2, <2>4
<1>8. IsFiniteSet(I)
  <2>1. IsFiniteSet(1..N)
    BY FS_Interval
  <2>2. I \in SUBSET (1..N)
    OBVIOUS
  <2> HIDE DEF I
  <2> QED BY <2>1, <2>2, FS_Subset
<1> HIDE DEF I, K, f
<1>9. f \in Bijection(I, K)
  BY <1>4, <1>6, <1>7 DEF Bijection, Injection, Surjection, IsInjective
<1>10. ExistsBijection(I, K)
  BY <1>9 DEF ExistsBijection
<1>11. Cardinality(K) = Cardinality(I)
  BY <1>8, <1>10, FS_Bijection
<1> QED BY <1>2, <1>11 DEF I, K

LEMMA FenceScans == FenceInv => ScansAgree
<1> SUFFICES ASSUME FenceInv PROVE ScansAgree
  OBVIOUS
<1>1. TreeInv
  BY DEF FenceInv
<1>2. PICK lev, lo, hi : Fences(pages, root, lev, lo, hi)
  BY DEF FenceInv, FencesUp
<1>3. PICK x : x = AllEntries
  OBVIOUS
<1>4. x \in Seq(Pair) /\ Rises(x)
  <2>1. FindLeaf(NoKey) \in Leaf
    BY <1>1, FindLeafIs DEF Leaf
  <2>2. PICK c : c = Chain(FindLeaf(NoKey))
    OBVIOUS
  <2>3. Chained(c)
    BY <1>1, <1>2, <2>1, <2>2, ChainEnds
  <2>4. EntriesOn(c) \in Seq(Pair) /\ Rises(EntriesOn(c))
    BY <1>1, <1>2, <2>3, ReadRises
  <2> QED BY <1>3, <2>2, <2>4 DEF AllEntries
<1>5. \A i \in 2..Len(AllEntries) : AllEntries[i - 1][1] <= AllEntries[i][1]
  <2>1. ASSUME NEW i \in 2..Len(x) PROVE x[i - 1][1] <= x[i][1]
    <3>1. i - 1 \in 1..Len(x) /\ i \in 1..Len(x) /\ i - 1 < i
      BY <1>4
    <3> QED BY <1>4, <3>1 DEF Rises
  <2> QED BY <1>3, <2>1
<1>6. ASSUME NEW l \in IndexKey, NEW h \in IndexKey PROVE RangeScan(l, h) = Between(AllEntries, l, h)
  <2>1. l \in Nat /\ h \in Nat
    BY TreeConstants
  <2> QED BY <1>1, <1>2, <2>1, RangeScanIs
<1>7. NumUniqueKeys = Cardinality({AllEntries[i][1] : i \in DOMAIN AllEntries})
  <2>1. Cardinality({i \in DOMAIN x : i = 1 \/ x[i][1] # x[i - 1][1]})
          = Cardinality({x[i][1] : i \in DOMAIN x})
    BY <1>4, KeysCounted
  <2> QED BY <1>3, <2>1 DEF NumUniqueKeys
<1>8. {p \in DOMAIN pages : pages[p].root} = {root}
  <2>1. pages \in Seq(Node) /\ RootOK(pages, root)
    BY <1>1, WholeIs DEF TreeInv
  <2> QED BY <2>1 DEF RootOK
<1> QED BY <1>5, <1>6, <1>7, <1>8 DEF ScansAgree

\* In such a tree a range scan gives what is between its ends, in order, from
\* whichever leaf it starts, the counts agree with the leaves, and the next open
\* finds the root: disk_btree.cpp:33-43, 350-375 and 437-459.
THEOREM TreeScansAgree ==
    ASSUME TreeCircumstances = {}
    PROVE  TreeSpec => []ScansAgree
<1>1. TreeInit => FenceInv
  BY InitFenced
<1>2. FenceInv /\ [TreeNext]_treeVars => FenceInv'
  BY NextFenced
<1>3. FenceInv => ScansAgree
  BY FenceScans
<1> QED BY <1>1, <1>2, <1>3, PTL DEF TreeSpec
=============================================================================
