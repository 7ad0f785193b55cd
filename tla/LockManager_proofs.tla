------------------------ MODULE LockManager_proofs ------------------------
(* Theorems about LockManager, for any sessions, resources and call          *)
(* discipline, and their proofs.                                             *)
EXTENDS LockManager, SequenceTheorems, TLAPS

\* What a queue holds for a sleeping session is what its thread asked for.
QueueMatchesCall ==
    \A r \in Res : \A i \in DOMAIN queue[r] :
        LET t == queue[r][i].tx
        IN  call[t] # None /\ call[t].res = r /\ call[t].mode = queue[r][i].mode

\* The part of the inductive invariant that says who holds and waits for what.
TableInv ==
    /\ TypeOK
    /\ IndexesAgree
    /\ QueueMatchesCall
    /\ SleepersKnown

----------------------------------------------------------------------------
(* Queues. *)

\* What SubSeq(q, m, Len(q)) is made of.
LEMMA TailLemma ==
    ASSUME NEW S, NEW q \in Seq(S), NEW m \in 1..(Len(q) + 1)
    PROVE  LET s == SubSeq(q, m, Len(q))
           IN  /\ s \in Seq(S)
               /\ Len(s) = Len(q) - m + 1
               /\ \A k \in 1..(Len(q) - m + 1) : s[k] = q[m + k - 1]
<1> DEFINE L == Len(q)
<1>1. L \in Nat /\ m \in Nat /\ m >= 1 /\ m <= L + 1
  BY LenProperties
<1>2. \A k \in m..L : q[k] \in S
  BY <1>1, ElementOfSeq
<1>3. /\ SubSeq(q, m, L) \in Seq(S)
      /\ Len(SubSeq(q, m, L)) = IF m <= L THEN L - m + 1 ELSE 0
      /\ \A k \in 1..(L - m + 1) : SubSeq(q, m, L)[k] = q[m + k - 1]
  <2> HIDE DEF L
  <2> QED BY <1>1, <1>2, SubSeqProperties
<1>4. (IF m <= L THEN L - m + 1 ELSE 0) = L - m + 1
  <2> HIDE DEF L
  <2> QED BY <1>1
<1> QED BY <1>3, <1>4

\* What is left of q when its element i is erased.
LEMMA EraseLemma ==
    ASSUME NEW S, NEW q \in Seq(S), NEW i \in 1..Len(q)
    PROVE  LET w == SubSeq(q, 1, i - 1) \o SubSeq(q, i + 1, Len(q))
           IN  /\ w \in Seq(S)
               /\ Len(w) = Len(q) - 1
               /\ \A k \in 1..(Len(q) - 1) :
                     w[k] = IF k < i THEN q[k] ELSE q[k + 1]
<1> DEFINE L     == Len(q)
           front == SubSeq(q, 1, i - 1)
           back  == SubSeq(q, i + 1, L)
<1>1. L \in Nat /\ i \in Nat /\ i >= 1 /\ i <= L
  BY LenProperties
<1>2. \A k \in 1..L : q[k] \in S
  BY ElementOfSeq
<1>3. /\ front \in Seq(S)
      /\ Len(front) = i - 1
      /\ \A k \in 1..(i - 1) : front[k] = q[k]
  <2> HIDE DEF L
  <2>1. \A k \in 1..(i - 1) : q[k] \in S
    BY <1>1, <1>2
  <2>2. /\ front \in Seq(S)
        /\ Len(front) = IF 1 <= i - 1 THEN (i - 1) - 1 + 1 ELSE 0
        /\ \A k \in 1..((i - 1) - 1 + 1) : front[k] = q[1 + k - 1]
    BY <1>1, <2>1, SubSeqProperties
  <2> HIDE DEF front
  <2>3. \A k \in 1..(i - 1) : front[k] = q[k]
    BY <1>1, <2>2
  <2> QED BY <1>1, <2>2, <2>3
<1>4. /\ back \in Seq(S)
      /\ Len(back) = L - i
      /\ \A k \in 1..(L - i) : back[k] = q[i + k]
  <2>1. i + 1 \in 1..(L + 1)
    BY <1>1
  <2>2. /\ back \in Seq(S)
        /\ Len(back) = L - (i + 1) + 1
        /\ \A k \in 1..(L - (i + 1) + 1) : back[k] = q[(i + 1) + k - 1]
    BY <2>1, TailLemma
  <2> HIDE DEF back, L
  <2>3. L - (i + 1) + 1 = L - i
    BY <1>1
  <2>4. \A k \in 1..(L - i) : (i + 1) + k - 1 = i + k
    BY <1>1
  <2> QED BY <2>2, <2>3, <2>4
<1> HIDE DEF front, back, L
<1>5. /\ front \o back \in Seq(S)
      /\ Len(front \o back) = Len(front) + Len(back)
      /\ \A k \in 1..(Len(front) + Len(back)) : (front \o back)[k] =
            IF k <= Len(front) THEN front[k] ELSE back[k - Len(front)]
  BY <1>3, <1>4, ConcatProperties
<1>6. Len(front) + Len(back) = L - 1
  BY <1>1, <1>3, <1>4
<1>7. ASSUME NEW k \in 1..(L - 1)
      PROVE  (front \o back)[k] = IF k < i THEN q[k] ELSE q[k + 1]
  <2>1. (front \o back)[k] = IF k <= i - 1 THEN front[k] ELSE back[k - (i - 1)]
    BY <1>3, <1>5, <1>6
  <2>2. CASE k < i
    BY <1>1, <1>3, <2>1, <2>2
  <2>3. CASE ~(k < i)
    <3>1. k - (i - 1) \in 1..(L - i) /\ i + (k - (i - 1)) = k + 1
      BY <1>1, <2>3
    <3>2. back[k - (i - 1)] = q[k + 1]
      BY <1>4, <3>1
    <3> QED BY <1>1, <2>1, <2>3, <3>2
  <2> QED BY <2>2, <2>3
<1> QED BY <1>5, <1>6, <1>7 DEF front, back, L

\* Erasing the request of t removes t from a queue and keeps the order.
LEMMA WithoutLemma ==
    ASSUME NEW q \in Seq(Request), Distinct(q), NEW t
    PROVE  /\ Without(q, t) \in Seq(Request)
           /\ InQueue(Without(q, t)) = InQueue(q) \ {t}
           /\ Distinct(Without(q, t))
           /\ \A k \in DOMAIN Without(q, t) :
                 \E j \in DOMAIN q : Without(q, t)[k] = q[j]
<1>1. CASE t \notin InQueue(q)
  BY <1>1 DEF Without
<1>2. CASE t \in InQueue(q)
  <2> DEFINE i == CHOOSE i \in DOMAIN q : q[i].tx = t
             w == SubSeq(q, 1, i - 1) \o SubSeq(q, i + 1, Len(q))
             L == Len(q)
             at(k) == IF k < i THEN k ELSE k + 1
  <2>1. i \in DOMAIN q /\ q[i].tx = t
    BY <1>2 DEF InQueue
  <2>2. Without(q, t) = w
    BY <1>2 DEF Without
  <2>3. L \in Nat /\ DOMAIN q = 1..L
    BY LenProperties
  <2> HIDE DEF i
  <2>4. /\ w \in Seq(Request)
        /\ Len(w) = L - 1
        /\ \A k \in 1..(L - 1) : w[k] = IF k < i THEN q[k] ELSE q[k + 1]
    BY <2>1, <2>3, EraseLemma
  <2>5. DOMAIN w = 1..(L - 1)
    BY <2>4, LenProperties
  <2> HIDE DEF w, L
  <2>6. i \in Nat /\ i >= 1 /\ i <= L
    BY <2>1, <2>3
  <2>7. \A k \in DOMAIN w : at(k) \in DOMAIN q /\ at(k) # i /\ w[k] = q[at(k)]
    BY <2>3, <2>4, <2>5, <2>6
  <2>8. \A k, l \in DOMAIN w : at(k) = at(l) => k = l
    BY <2>3, <2>5, <2>6
  <2>9. ASSUME NEW j \in DOMAIN q, j # i
        PROVE  \E k \in DOMAIN w : at(k) = j
    <3>1. CASE j < i
      <4>1. j \in DOMAIN w /\ at(j) = j
        BY <2>3, <2>5, <2>6, <3>1
      <4> QED BY <4>1
    <3>2. CASE j > i
      <4>1. j - 1 \in DOMAIN w /\ at(j - 1) = j
        BY <2>3, <2>5, <2>6, <3>2
      <4> QED BY <4>1
    <3> QED BY <2>3, <2>6, <2>9, <3>1, <3>2
  <2> HIDE DEF at
  <2>10. InQueue(w) \subseteq InQueue(q) \ {t}
    BY <2>1, <2>7 DEF InQueue, Distinct
  <2>11. InQueue(q) \ {t} \subseteq InQueue(w)
    BY <2>1, <2>7, <2>9 DEF InQueue
  <2>12. Distinct(w)
    BY <2>7, <2>8 DEF Distinct
  <2>13. \A k \in DOMAIN w : \E j \in DOMAIN q : w[k] = q[j]
    BY <2>7
  <2> QED BY <2>2, <2>4, <2>10, <2>11, <2>12, <2>13
<1> QED BY <1>1, <1>2

\* The queue without the request of t is the queue with one element less.
LEMMA WithoutShape ==
    ASSUME NEW q \in Seq(Request), NEW t, t \in InQueue(q)
    PROVE  \E m \in 1..Len(q) :
              /\ Without(q, t) \in Seq(Request) /\ Len(Without(q, t)) = Len(q) - 1
              /\ \A k \in 1..(Len(q) - 1) : Without(q, t)[k] = IF k < m THEN q[k] ELSE q[k + 1]
<1> DEFINE i == CHOOSE i \in DOMAIN q : q[i].tx = t
           w == SubSeq(q, 1, i - 1) \o SubSeq(q, i + 1, Len(q))
<1>1. i \in DOMAIN q
  BY DEF InQueue
<1>2. Without(q, t) = w
  BY DEF Without
<1>3. Len(q) \in Nat /\ DOMAIN q = 1..Len(q)
  BY LenProperties
<1> HIDE DEF i
<1>4. /\ w \in Seq(Request)
      /\ Len(w) = Len(q) - 1
      /\ \A k \in 1..(Len(q) - 1) : w[k] = IF k < i THEN q[k] ELSE q[k + 1]
  BY <1>1, <1>3, EraseLemma
<1> HIDE DEF w
<1> QED BY <1>1, <1>2, <1>3, <1>4

\* Erasing a request leaves the others in their order.
LEMMA WithoutOrder ==
    ASSUME NEW q \in Seq(Request), NEW t,
           NEW k \in DOMAIN Without(q, t), NEW l \in DOMAIN Without(q, t), k < l
    PROVE  \E i, j \in DOMAIN q : i < j /\ Without(q, t)[k] = q[i] /\ Without(q, t)[l] = q[j]
<1>1. CASE t \notin InQueue(q)
  BY <1>1 DEF Without
<1>2. CASE t \in InQueue(q)
  <2> DEFINE w == Without(q, t)
             L == Len(q)
  <2>1. PICK m \in 1..L :
           /\ w \in Seq(Request) /\ Len(w) = L - 1
           /\ \A n \in 1..(L - 1) : w[n] = IF n < m THEN q[n] ELSE q[n + 1]
    BY <1>2, WithoutShape
  <2>2. L \in Nat /\ DOMAIN q = 1..L /\ DOMAIN w = 1..(L - 1)
    BY <2>1, LenProperties
  <2> HIDE DEF w, L
  <2>3. k \in 1..(L - 1) /\ l \in 1..(L - 1)
    BY <2>2 DEF w
  <2> DEFINE at(n) == IF n < m THEN n ELSE n + 1
  <2>4. at(k) \in 1..L /\ at(l) \in 1..L /\ at(k) < at(l)
    BY <2>2, <2>3
  <2>5. w[k] = q[at(k)] /\ w[l] = q[at(l)]
    BY <2>1, <2>3
  <2> HIDE DEF at
  <2> QED BY <2>2, <2>4, <2>5 DEF w
<1> QED BY <1>1, <1>2

\* Promoting the first n requests removes exactly those from a queue.
LEMMA SuffixLemma ==
    ASSUME NEW q \in Seq(Request), Distinct(q), NEW n \in 0..Len(q)
    PROVE  LET s == SubSeq(q, n + 1, Len(q))
           IN  /\ s \in Seq(Request)
               /\ Len(s) = Len(q) - n
               /\ \A k \in DOMAIN s : k + n \in DOMAIN q /\ s[k] = q[k + n]
               /\ InQueue(s) = InQueue(q) \ TxsOf({q[i] : i \in 1..n})
               /\ Distinct(s)
<1> DEFINE L == Len(q)
           s == SubSeq(q, n + 1, L)
<1>1. L \in Nat /\ DOMAIN q = 1..L /\ n \in Nat /\ n <= L
  BY LenProperties
<1>2. /\ s \in Seq(Request)
      /\ Len(s) = L - (n + 1) + 1
      /\ \A k \in 1..(L - (n + 1) + 1) : s[k] = q[(n + 1) + k - 1]
  <2>1. n + 1 \in 1..(L + 1)
    BY <1>1
  <2> QED BY <2>1, TailLemma
<1>3. DOMAIN s = 1..Len(s)
  BY <1>2, LenProperties
<1> HIDE DEF s, L
<1>4. Len(s) = L - n /\ L - (n + 1) + 1 = L - n
  BY <1>1, <1>2
<1>5. ASSUME NEW k \in DOMAIN s
      PROVE  k + n \in DOMAIN q /\ k + n \notin 1..n /\ s[k] = q[k + n]
  <2>1. k \in 1..(L - n)
    BY <1>3, <1>4
  <2>2. (n + 1) + k - 1 = k + n /\ k + n \in 1..L /\ k + n \notin 1..n
    BY <1>1, <2>1
  <2> QED BY <1>1, <1>2, <1>4, <2>1, <2>2
<1>6. ASSUME NEW j \in DOMAIN q, j \notin 1..n
      PROVE  \E k \in DOMAIN s : s[k] = q[j]
  <2>1. j - n \in DOMAIN s /\ (j - n) + n = j
    BY <1>1, <1>3, <1>4, <1>6
  <2> QED BY <1>5, <2>1
<1>7. 1..n \subseteq DOMAIN q
  BY <1>1
<1>8. InQueue(s) = InQueue(q) \ TxsOf({q[i] : i \in 1..n})
  <2>1. ASSUME NEW u \in InQueue(s)
        PROVE  u \in InQueue(q) /\ u \notin TxsOf({q[i] : i \in 1..n})
    <3>1. PICK k \in DOMAIN s : s[k].tx = u
      BY DEF InQueue
    <3>2. k + n \in DOMAIN q /\ k + n \notin 1..n /\ q[k + n].tx = u
      BY <1>5, <3>1
    <3> QED BY <1>7, <3>2 DEF InQueue, TxsOf, Distinct
  <2>2. ASSUME NEW u \in InQueue(q), u \notin TxsOf({q[i] : i \in 1..n})
        PROVE  u \in InQueue(s)
    <3>1. PICK j \in DOMAIN q : q[j].tx = u
      BY DEF InQueue
    <3>2. j \notin 1..n
      BY <2>2, <3>1 DEF TxsOf
    <3> QED BY <1>6, <3>1, <3>2 DEF InQueue
  <2> QED BY <2>1, <2>2
<1>9. Distinct(s)
  <2> SUFFICES ASSUME NEW k \in DOMAIN s, NEW l \in DOMAIN s, s[k].tx = s[l].tx
               PROVE  k = l
    BY DEF Distinct
  <2>1. k + n = l + n
    BY <1>5 DEF Distinct
  <2> QED BY <1>1, <1>3, <1>4, <2>1
<1> QED BY <1>2, <1>4, <1>5, <1>8, <1>9 DEF s, L
----------------------------------------------------------------------------
(* What the actions do to the tables. *)

\* The queue that release_all leaves of r before it wakes anybody.
LEMMA QueueLeftLemma ==
    ASSUME TableInv, NEW t \in Tx, NEW r \in Res
    PROVE  /\ QueueLeft(t, r) \in Seq(Request)
           /\ Distinct(QueueLeft(t, r))
           /\ InQueue(QueueLeft(t, r)) = InQueue(queue[r]) \ {t}
           /\ \A k \in DOMAIN QueueLeft(t, r) :
                 \E j \in DOMAIN queue[r] : QueueLeft(t, r)[k] = queue[r][j]
<1>1. queue[r] \in Seq(Request) /\ Distinct(queue[r])
  BY DEF TableInv, TypeOK, IndexesAgree
<1>2. CASE waitingOn[t] = r
  BY <1>1, <1>2, WithoutLemma DEF QueueLeft
<1>3. CASE waitingOn[t] # r
  <2>1. t \notin InQueue(queue[r])
    BY <1>3 DEF TableInv, IndexesAgree
  <2> QED BY <1>1, <1>3, <2>1 DEF QueueLeft
<1> QED BY <1>2, <1>3

\* Promoting the first n requests of the queue left at r keeps its holders
\* compatible: each was compatible with those before it.
LEMMA WakesLemma ==
    ASSUME NEW G, NEW q \in Seq(Request), NEW n, Wakes(G, q, n), Together(G)
    PROVE  Together(G \cup {q[i] : i \in 1..n})
<1> SUFFICES ASSUME NEW g \in G \cup {q[i] : i \in 1..n},
                    NEW h \in G \cup {q[i] : i \in 1..n},
                    g # h
             PROVE  g.mode = "S" /\ h.mode = "S"
  BY DEF Together
<1>0. n \in Nat /\ Len(q) \in Nat
  BY LenProperties DEF Wakes
<1>1. ASSUME NEW i \in 1..n, NEW x \in G \cup {q[k] : k \in 1..(i - 1)}
      PROVE  q[i].mode = "S" /\ x.mode = "S"
  <2>1. Compatible(G \cup {q[k] : k \in 1..(i - 1)}, q[i].mode)
    BY DEF Wakes
  <2> QED BY <1>1, <2>1 DEF Compatible
<1>2. CASE g \in G /\ h \in G
  BY <1>2 DEF Together
<1>3. ASSUME NEW i \in 1..n, g = q[i], h \in G
      PROVE  g.mode = "S" /\ h.mode = "S"
  BY <1>1, <1>3
<1>4. ASSUME NEW i \in 1..n, h = q[i], g \in G
      PROVE  g.mode = "S" /\ h.mode = "S"
  BY <1>1, <1>4
<1>5. ASSUME NEW i \in 1..n, NEW j \in 1..n, g = q[i], h = q[j]
      PROVE  g.mode = "S" /\ h.mode = "S"
  <2>1. CASE i < j
    <3>1. i \in 1..(j - 1)
      BY <1>0, <2>1
    <3> QED BY <1>1, <1>5, <3>1
  <2>2. CASE j < i
    <3>1. j \in 1..(i - 1)
      BY <1>0, <2>2
    <3> QED BY <1>1, <1>5, <3>1
  <2>3. i # j
    BY <1>5
  <2> QED BY <1>0, <2>1, <2>2, <2>3
<1> QED BY <1>2, <1>3, <1>4, <1>5

\* release_all in terms of sets: W[r] are the requests promoted at r.
ReleaseEffect(t, W) ==
    /\ W \in [Res -> SUBSET Request]
    /\ \A r \in Res :
        /\ granted'[r] = {g \in granted[r] : g.tx # t} \cup W[r]
        /\ \A w \in W[r] : w.tx # t /\ \E i \in DOMAIN queue[r] : queue[r][i] = w
        /\ queue'[r] \in Seq(Request)
        /\ Distinct(queue'[r])
        /\ InQueue(queue'[r]) = (InQueue(queue[r]) \ {t}) \ TxsOf(W[r])
        /\ \A k \in DOMAIN queue'[r] : \E j \in DOMAIN queue[r] : queue'[r][k] = queue[r][j]
        /\ queue'[r] # <<>> => granted'[r] # {}
        /\ HoldersCompatible => Together(granted'[r])
    /\ \A u \in Tx :
        /\ held'[u] = (IF u = t THEN {} ELSE held[u]) \cup {r \in Res : u \in TxsOf(W[r])}
        /\ waitingOn'[u] = IF u = t \/ \E r \in Res : u \in TxsOf(W[r])
                           THEN None ELSE waitingOn[u]

LEMMA ReleaseLemma ==
    ASSUME TableInv, NEW t \in Tx, ReleaseAll(t)
    PROVE  \E W : ReleaseEffect(t, W)
<1>1. PICK n \in [Res -> 0..Cardinality(Tx)] :
        LET awake(u) == {r \in Res : u \in TxsOf(Woken(t, r, n[r]))}
        IN  /\ \A r \in Res : Wakes(HoldersLeft(t, r), QueueLeft(t, r), n[r])
            /\ granted' = [r \in Res |-> HoldersLeft(t, r) \cup Woken(t, r, n[r])]
            /\ queue' = [r \in Res |->
                          SubSeq(QueueLeft(t, r), n[r] + 1, Len(QueueLeft(t, r)))]
            /\ held' = [u \in Tx |->
                          IF u = t THEN awake(u) ELSE held[u] \cup awake(u)]
            /\ waitingOn' = [u \in Tx |->
                               IF u = t \/ awake(u) # {} THEN None ELSE waitingOn[u]]
  BY DEF ReleaseAll
<1> DEFINE W == [r \in Res |-> Woken(t, r, n[r])]
<1>2. ASSUME NEW r \in Res
      PROVE  /\ W[r] \in SUBSET Request
             /\ granted'[r] = {g \in granted[r] : g.tx # t} \cup W[r]
             /\ \A w \in W[r] : w.tx # t /\ \E i \in DOMAIN queue[r] : queue[r][i] = w
             /\ queue'[r] \in Seq(Request)
             /\ Distinct(queue'[r])
             /\ InQueue(queue'[r]) = (InQueue(queue[r]) \ {t}) \ TxsOf(W[r])
             /\ \A k \in DOMAIN queue'[r] :
                   \E j \in DOMAIN queue[r] : queue'[r][k] = queue[r][j]
             /\ queue'[r] # <<>> => granted'[r] # {}
             /\ HoldersCompatible => Together(granted'[r])
  <2> DEFINE q == QueueLeft(t, r)
             G == HoldersLeft(t, r)
  <2>1. /\ q \in Seq(Request)
        /\ Distinct(q)
        /\ InQueue(q) = InQueue(queue[r]) \ {t}
        /\ \A k \in DOMAIN q : \E j \in DOMAIN queue[r] : q[k] = queue[r][j]
    BY QueueLeftLemma
  <2>2. G = {g \in granted[r] : g.tx # t}
    BY DEF HoldersLeft, TableInv, IndexesAgree, TxsOf
  <2>3. /\ Wakes(G, q, n[r])
        /\ granted'[r] = G \cup W[r]
        /\ queue'[r] = SubSeq(q, n[r] + 1, Len(q))
        /\ W[r] = {q[i] : i \in 1..n[r]}
    BY <1>1 DEF Woken
  <2> HIDE DEF q, G, W
  <2>4. n[r] \in 0..Len(q) /\ Len(q) \in Nat /\ DOMAIN q = 1..Len(q)
    BY <2>1, <2>3, LenProperties DEF Wakes
  <2>5. 1..n[r] \subseteq DOMAIN q
    BY <2>4
  <2>6. W[r] \subseteq Request
    BY <2>1, <2>3, <2>4, <2>5, ElementOfSeq
  <2>7. /\ queue'[r] \in Seq(Request)
        /\ Len(queue'[r]) = Len(q) - n[r]
        /\ \A k \in DOMAIN queue'[r] : k + n[r] \in DOMAIN q /\ queue'[r][k] = q[k + n[r]]
        /\ InQueue(queue'[r]) = InQueue(q) \ TxsOf(W[r])
        /\ Distinct(queue'[r])
    <3> DEFINE s == SubSeq(q, n[r] + 1, Len(q))
    <3>1. /\ s \in Seq(Request)
          /\ Len(s) = Len(q) - n[r]
          /\ \A k \in DOMAIN s : k + n[r] \in DOMAIN q /\ s[k] = q[k + n[r]]
          /\ InQueue(s) = InQueue(q) \ TxsOf({q[i] : i \in 1..n[r]})
          /\ Distinct(s)
      BY <2>1, <2>4, SuffixLemma
    <3> HIDE DEF s
    <3>2. queue'[r] = s
      BY <2>3 DEF s
    <3> QED BY <2>3, <3>1, <3>2
  <2>8. ASSUME NEW w \in W[r]
        PROVE  w.tx # t /\ \E i \in DOMAIN queue[r] : queue[r][i] = w
    <3>1. PICK i \in 1..n[r] : w = q[i]
      BY <2>3
    <3> QED BY <2>1, <2>5, <3>1 DEF InQueue
  <2>9. queue'[r] # <<>> => granted'[r] # {}
    <3> SUFFICES ASSUME queue'[r] # <<>> PROVE granted'[r] # {}
      OBVIOUS
    <3>1. Len(queue'[r]) # 0
      BY <2>7, EmptySeq
    <3>2. n[r] < Len(q)
      BY <2>4, <2>7, <3>1
    <3>3. ~Compatible(G \cup {q[k] : k \in 1..n[r]}, q[n[r] + 1].mode)
      BY <2>3, <3>2 DEF Wakes
    <3> QED BY <2>3, <3>3 DEF Compatible
  <2>10. ASSUME HoldersCompatible
         PROVE  Together(granted'[r])
    <3>1. Together(G)
      BY <2>2, <2>10 DEF HoldersCompatible, Together
    <3>2. Together(G \cup {q[i] : i \in 1..n[r]})
      BY <2>1, <2>3, <3>1, WakesLemma
    <3> QED BY <2>3, <3>2
  <2>11. \A k \in DOMAIN queue'[r] : \E j \in DOMAIN queue[r] : queue'[r][k] = queue[r][j]
    BY <2>1, <2>7
  <2>12. InQueue(queue'[r]) = (InQueue(queue[r]) \ {t}) \ TxsOf(W[r])
    BY <2>1, <2>7
  <2> QED BY <2>2, <2>3, <2>6, <2>7, <2>8, <2>9, <2>10, <2>11, <2>12
<1>3. W \in [Res -> SUBSET Request]
  BY <1>2
<1>4. ASSUME NEW u \in Tx
      PROVE  /\ held'[u] = (IF u = t THEN {} ELSE held[u])
                              \cup {r \in Res : u \in TxsOf(W[r])}
             /\ waitingOn'[u] = IF u = t \/ \E r \in Res : u \in TxsOf(W[r])
                                THEN None ELSE waitingOn[u]
  BY <1>1
<1> HIDE DEF W
<1> QED BY <1>2, <1>3, <1>4 DEF ReleaseEffect
----------------------------------------------------------------------------
(* Who holds and waits for what. *)

LEMMA AppendLemma ==
    ASSUME NEW q \in Seq(Request), Distinct(q), NEW e \in Request, e.tx \notin InQueue(q)
    PROVE  /\ Append(q, e) \in Seq(Request)
           /\ Distinct(Append(q, e))
           /\ InQueue(Append(q, e)) = InQueue(q) \cup {e.tx}
           /\ \A k \in DOMAIN Append(q, e) :
                 Append(q, e)[k] = e \/ \E j \in DOMAIN q : j = k /\ Append(q, e)[k] = q[j]
<1> DEFINE a == Append(q, e)
           L == Len(q)
<1>1. L \in Nat /\ DOMAIN q = 1..L
  BY LenProperties
<1>2. /\ a \in Seq(Request)
      /\ Len(a) = L + 1
      /\ \A i \in 1..L : a[i] = q[i]
      /\ a[L + 1] = e
  BY AppendProperties
<1>3. DOMAIN a = 1..(L + 1)
  BY <1>2, LenProperties
<1> HIDE DEF a, L
<1>4. DOMAIN a = DOMAIN q \cup {L + 1} /\ L + 1 \notin DOMAIN q
  BY <1>1, <1>3
<1>5. \A i \in DOMAIN q : a[i] = q[i]
  BY <1>1, <1>2
<1>6. InQueue(a) = InQueue(q) \cup {e.tx}
  BY <1>2, <1>4, <1>5 DEF InQueue
<1>7. Distinct(a)
  BY <1>2, <1>4, <1>5 DEF Distinct, InQueue
<1> QED BY <1>2, <1>4, <1>5, <1>6, <1>7 DEF a

LEMMA InitTables == Init => TableInv
<1> SUFFICES ASSUME Init PROVE TableInv
  OBVIOUS
<1>1. TypeOK
  BY EmptySeq DEF Init, TypeOK
<1>2. \A r \in Res : DOMAIN queue[r] = {}
  BY DEF Init
<1>3. IndexesAgree
  BY <1>2, ConstantsOK DEF Init, IndexesAgree, TxsOf, InQueue, Distinct
<1>4. QueueMatchesCall /\ SleepersKnown
  BY <1>2 DEF Init, QueueMatchesCall, SleepersKnown
<1> QED BY <1>1, <1>3, <1>4 DEF TableInv

LEMMA AcquireAtOnceTables ==
    ASSUME TableInv, NEW t \in Tx, NEW r \in Res, NEW m \in Modes, AcquireAtOnce(t, r, m)
    PROVE  TableInv'
<1> DEFINE e == [tx |-> t, mode |-> m]
<1>1. e \in Request /\ e.tx = t
  BY DEF Request
<1> HIDE DEF e
<1>2. /\ granted' = [granted EXCEPT ![r] = @ \cup {e}]
      /\ held' = [held EXCEPT ![t] = @ \cup {r}]
      /\ UNCHANGED <<queue, waitingOn, call, raised>>
  BY DEF AcquireAtOnce, e
<1>3. \A s \in Res : granted'[s] = IF s = r THEN granted[s] \cup {e} ELSE granted[s]
  BY <1>2 DEF TableInv, TypeOK
<1>4. \A u \in Tx : held'[u] = IF u = t THEN held[u] \cup {r} ELSE held[u]
  BY <1>2 DEF TableInv, TypeOK
<1>5. TypeOK'
  BY <1>1, <1>2 DEF TableInv, TypeOK
<1>6. IndexesAgree'
  <2>1. \A u \in Tx, s \in Res : s \in held'[u] <=> u \in TxsOf(granted'[s])
    <3> TAKE u \in Tx, s \in Res
    <3>1. u \in TxsOf(granted'[s]) <=> u \in TxsOf(granted[s]) \/ (s = r /\ u = t)
      BY <1>1, <1>3 DEF TxsOf
    <3>2. s \in held'[u] <=> s \in held[u] \/ (s = r /\ u = t)
      BY <1>4
    <3>3. s \in held[u] <=> u \in TxsOf(granted[s])
      BY DEF TableInv, IndexesAgree
    <3> QED BY <3>1, <3>2, <3>3
  <2> QED BY <1>2, <2>1 DEF TableInv, IndexesAgree
<1>7. QueueMatchesCall'
  BY <1>2 DEF TableInv, QueueMatchesCall
<1>8. SleepersKnown'
  <2>1. \A u \in Tx, s \in Res, k \in Modes : u # t => (HeldBy(u, s, k)' <=> HeldBy(u, s, k))
    BY <1>1, <1>3 DEF HeldBy
  <2>2. \A u \in Tx : call[u] # None => call[u].res \in Res /\ call[u].mode \in Modes
    BY DEF TableInv, TypeOK, Call
  <2>3. call[t] = None
    BY DEF AcquireAtOnce, MayRequest
  <2> QED BY <1>2, <2>1, <2>2, <2>3 DEF TableInv, SleepersKnown
<1> QED BY <1>5, <1>6, <1>7, <1>8 DEF TableInv

LEMMA AcquireWaitsTables ==
    ASSUME TableInv, NEW t \in Tx, NEW r \in Res, NEW m \in Modes, NEW w \in Waits,
           AcquireWaits(t, r, m, w)
    PROVE  TableInv'
<1> DEFINE e == [tx |-> t, mode |-> m]
<1>0. call[t] = None /\ waitingOn[t] = None
  BY DEF AcquireWaits, MayRequest, TableInv, SleepersKnown
<1>1. /\ e \in Request
      /\ queue[r] \in Seq(Request)
      /\ Distinct(queue[r])
      /\ e.tx \notin InQueue(queue[r])
  <2>1. waitingOn[t] # r
    BY <1>0, ConstantsOK
  <2> QED BY <2>1 DEF TableInv, TypeOK, IndexesAgree, Request
<1>2. /\ queue'[r] \in Seq(Request)
      /\ Distinct(queue'[r])
      /\ InQueue(queue'[r]) = InQueue(queue[r]) \cup {t}
      /\ \A k \in DOMAIN queue'[r] :
            queue'[r][k] = e \/ \E j \in DOMAIN queue[r] : j = k /\ queue'[r][k] = queue[r][j]
  <2>1. queue'[r] = Append(queue[r], e)
    BY DEF AcquireWaits, Enqueued, TableInv, TypeOK
  <2> HIDE DEF e
  <2>2. e.tx = t
    BY DEF e
  <2> QED BY <1>1, <2>1, <2>2, AppendLemma
<1>3. \A s \in Res : s # r => queue'[s] = queue[s]
  BY DEF AcquireWaits, Enqueued, TableInv, TypeOK
<1>4. queue' \in [Res -> Seq(Request)]
  <2>1. DOMAIN queue' = Res /\ queue' = [s \in Res |-> queue'[s]]
    BY DEF AcquireWaits, Enqueued, TableInv, TypeOK
  <2> QED BY <1>2, <1>3, <2>1 DEF TableInv, TypeOK
<1>5. TypeOK'
  BY <1>4 DEF AcquireWaits, TableInv, TypeOK, Call
<1>6. IndexesAgree'
  <2> SUFFICES ASSUME NEW u \in Tx, NEW s \in Res
               PROVE  /\ s \in held'[u] <=> u \in TxsOf(granted'[s])
                      /\ waitingOn'[u] = s <=> u \in InQueue(queue'[s])
                      /\ Distinct(queue'[s])
    BY DEF IndexesAgree
  <2>1. s \in held'[u] <=> u \in TxsOf(granted'[s])
    BY DEF AcquireWaits, TableInv, IndexesAgree
  <2>2. waitingOn'[u] = IF u = t THEN r ELSE waitingOn[u]
    BY DEF AcquireWaits, TableInv, TypeOK
  <2>3. waitingOn'[u] = s <=> u \in InQueue(queue'[s])
    BY <1>0, <1>2, <1>3, <2>2, ConstantsOK DEF TableInv, IndexesAgree
  <2>4. Distinct(queue'[s])
    BY <1>2, <1>3 DEF TableInv, IndexesAgree
  <2> QED BY <2>1, <2>3, <2>4
<1>7. \A u \in Tx : call'[u] = IF u = t THEN [res |-> r, mode |-> m, wait |-> w] ELSE call[u]
  BY DEF AcquireWaits, TableInv, TypeOK
<1>8. QueueMatchesCall'
  <2> SUFFICES ASSUME NEW s \in Res, NEW k \in DOMAIN queue'[s]
               PROVE  LET u == queue'[s][k].tx
                      IN  /\ call'[u] # None
                          /\ call'[u].res = s
                          /\ call'[u].mode = queue'[s][k].mode
    BY DEF QueueMatchesCall
  <2>1. CASE s = r /\ queue'[s][k] = e
    BY <1>7, <2>1, ConstantsOK DEF Call
  <2>2. CASE \E j \in DOMAIN queue[s] : queue'[s][k] = queue[s][j]
    <3>1. PICK j \in DOMAIN queue[s] : queue'[s][k] = queue[s][j]
      BY <2>2
    <3>2. queue[s][j].tx # t
      BY <1>0, <3>1 DEF TableInv, QueueMatchesCall
    <3>3. queue[s][j].tx \in Tx
      BY <3>1, ElementOfSeq, LenProperties DEF TableInv, TypeOK, Request
    <3> QED BY <1>7, <3>1, <3>2, <3>3 DEF TableInv, QueueMatchesCall
  <2> QED BY <1>2, <1>3, <2>1, <2>2
<1>9. SleepersKnown'
  <2>1. \A u \in Tx : waitingOn'[u] = IF u = t THEN r ELSE waitingOn[u]
    BY DEF AcquireWaits, TableInv, TypeOK
  <2>2. \A u \in Tx, s \in Res, k \in Modes : HeldBy(u, s, k)' <=> HeldBy(u, s, k)
    BY DEF HeldBy, AcquireWaits
  <2>3. /\ call'[t] # None
        /\ call'[t].res = r
        /\ call'[t].mode = m
        /\ ~HeldBy(t, r, m)
    BY <1>7, ConstantsOK DEF Call, AcquireWaits, MayRequest
  <2>4. \A u \in Tx : call[u] # None => call[u].res \in Res /\ call[u].mode \in Modes
    BY DEF TableInv, TypeOK, Call
  <2>5. r # None
    BY ConstantsOK
  <2> QED BY <1>7, <2>1, <2>2, <2>3, <2>4, <2>5 DEF TableInv, SleepersKnown
<1> QED BY <1>5, <1>6, <1>8, <1>9 DEF TableInv

LEMMA WakeGrantedTables ==
    ASSUME TableInv, NEW t \in Tx, WakeGranted(t)
    PROVE  TableInv'
<1>1. /\ call[t] # None
      /\ HeldBy(t, call[t].res, call[t].mode)
      /\ \A u \in Tx : call'[u] = IF u = t THEN None ELSE call[u]
      /\ call' \in [Tx -> Call \cup {None}]
      /\ UNCHANGED <<granted, queue, held, waitingOn, raised>>
  BY DEF WakeGranted, TableInv, TypeOK
<1>2. waitingOn[t] = None
  BY <1>1 DEF TableInv, SleepersKnown
<1>3. \A s \in Res : t \notin InQueue(queue[s])
  BY <1>2, ConstantsOK DEF TableInv, IndexesAgree
<1>4. TypeOK'
  BY <1>1 DEF TableInv, TypeOK
<1>5. IndexesAgree'
  BY <1>1 DEF TableInv, IndexesAgree
<1>6. QueueMatchesCall'
  <2> SUFFICES ASSUME NEW s \in Res, NEW k \in DOMAIN queue[s]
               PROVE  LET u == queue[s][k].tx
                      IN  /\ call'[u] # None
                          /\ call'[u].res = s
                          /\ call'[u].mode = queue[s][k].mode
    BY <1>1 DEF QueueMatchesCall
  <2>1. queue[s][k].tx \in Tx
    BY ElementOfSeq, LenProperties DEF TableInv, TypeOK, Request
  <2>2. queue[s][k].tx # t
    BY <1>3 DEF InQueue
  <2> QED BY <1>1, <2>1, <2>2 DEF TableInv, QueueMatchesCall
<1>7. SleepersKnown'
  BY <1>1, <1>2 DEF TableInv, SleepersKnown, HeldBy
<1> QED BY <1>4, <1>5, <1>6, <1>7 DEF TableInv

LEMMA WakeTimedOutTables ==
    ASSUME TableInv, NEW t \in Tx, WakeTimedOut(t)
    PROVE  TableInv'
<1> DEFINE c == call[t].res
<1>1. /\ call[t] # None
      /\ ~HeldBy(t, call[t].res, call[t].mode)
      /\ c \in Res
      /\ waitingOn[t] \in {None, c}
  BY DEF WakeTimedOut, TableInv, TypeOK, SleepersKnown, Call
<1> HIDE DEF c
<1>2. /\ queue' = [queue EXCEPT ![c] = Without(@, t)]
      /\ \A u \in Tx : call'[u] = IF u = t THEN None ELSE call[u]
      /\ \A u \in Tx : waitingOn'[u] = IF u = t THEN None ELSE waitingOn[u]
      /\ call' \in [Tx -> Call \cup {None}]
      /\ waitingOn' \in [Tx -> Res \cup {None}]
      /\ UNCHANGED <<granted, held, raised>>
  BY DEF WakeTimedOut, TableInv, TypeOK, c
<1>3. /\ queue'[c] \in Seq(Request)
      /\ InQueue(queue'[c]) = InQueue(queue[c]) \ {t}
      /\ Distinct(queue'[c])
      /\ \A k \in DOMAIN queue'[c] : \E j \in DOMAIN queue[c] : queue'[c][k] = queue[c][j]
  <2>1. queue'[c] = Without(queue[c], t)
    BY <1>1, <1>2 DEF TableInv, TypeOK
  <2>2. queue[c] \in Seq(Request) /\ Distinct(queue[c])
    BY <1>1 DEF TableInv, TypeOK, IndexesAgree
  <2> QED BY <2>1, <2>2, WithoutLemma
<1>4. \A s \in Res : s # c => queue'[s] = queue[s]
  BY <1>2 DEF TableInv, TypeOK
<1>5. \A s \in Res : InQueue(queue'[s]) = InQueue(queue[s]) \ {t}
  <2> TAKE s \in Res
  <2>1. CASE s = c
    BY <1>3, <2>1
  <2>2. CASE s # c
    <3>1. t \notin InQueue(queue[s])
      BY <1>1, <2>2, ConstantsOK DEF TableInv, IndexesAgree
    <3> QED BY <1>4, <2>2, <3>1
  <2> QED BY <2>1, <2>2
<1>6. TypeOK'
  <2>1. queue' = [s \in Res |-> queue'[s]]
    BY <1>2 DEF TableInv, TypeOK
  <2>2. queue' \in [Res -> Seq(Request)]
    BY <1>3, <1>4, <2>1 DEF TableInv, TypeOK
  <2> QED BY <1>2, <2>2 DEF TableInv, TypeOK
<1>7. IndexesAgree'
  <2>1. \A s \in Res : Distinct(queue'[s])
    BY <1>3, <1>4 DEF TableInv, IndexesAgree
  <2>2. \A u \in Tx, s \in Res : waitingOn'[u] = s <=> u \in InQueue(queue'[s])
    BY <1>2, <1>5, ConstantsOK DEF TableInv, IndexesAgree
  <2> QED BY <1>2, <2>1, <2>2 DEF TableInv, IndexesAgree
<1>8. QueueMatchesCall'
  <2> SUFFICES ASSUME NEW s \in Res, NEW k \in DOMAIN queue'[s]
               PROVE  LET u == queue'[s][k].tx
                      IN  /\ call'[u] # None
                          /\ call'[u].res = s
                          /\ call'[u].mode = queue'[s][k].mode
    BY DEF QueueMatchesCall
  <2>1. PICK j \in DOMAIN queue[s] : queue'[s][k] = queue[s][j]
    BY <1>3, <1>4
  <2>2. queue'[s][k].tx # t
    BY <1>5 DEF InQueue
  <2>3. queue[s][j].tx \in Tx
    BY ElementOfSeq, LenProperties DEF TableInv, TypeOK, Request
  <2> QED BY <1>2, <2>1, <2>2, <2>3 DEF TableInv, QueueMatchesCall
<1>9. SleepersKnown'
  BY <1>2 DEF TableInv, SleepersKnown, HeldBy
<1> QED BY <1>6, <1>7, <1>8, <1>9 DEF TableInv

LEMMA ReleaseAllTables ==
    ASSUME TableInv, NEW t \in Tx, ReleaseAll(t)
    PROVE  TableInv'
<1>1. PICK W : ReleaseEffect(t, W)
  BY ReleaseLemma
<1>2. /\ raised' = raised \ {t}
      /\ call' = call
      /\ granted' = [s \in Res |-> granted'[s]]
      /\ queue' = [s \in Res |-> queue'[s]]
      /\ held' = [u \in Tx |-> held'[u]]
      /\ waitingOn' = [u \in Tx |-> waitingOn'[u]]
  BY DEF ReleaseAll
<1>3. \A s \in Res : \A w \in W[s] : w.tx \in Tx /\ w.tx \in InQueue(queue[s]) /\ w.tx # t
  BY <1>1 DEF ReleaseEffect, Request, InQueue
<1>4. \A u \in Tx, s \in Res : u \in TxsOf(W[s]) => waitingOn[u] = s /\ u # t
  BY <1>3 DEF TableInv, IndexesAgree, TxsOf
<1>5. TypeOK'
  <2>1. granted' \in [Res -> SUBSET Request]
    BY <1>1, <1>2 DEF ReleaseEffect, TableInv, TypeOK
  <2>2. queue' \in [Res -> Seq(Request)]
    BY <1>1, <1>2 DEF ReleaseEffect
  <2>3. held' \in [Tx -> SUBSET Res]
    BY <1>1, <1>2 DEF ReleaseEffect, TableInv, TypeOK
  <2>4. waitingOn' \in [Tx -> Res \cup {None}]
    BY <1>1, <1>2 DEF ReleaseEffect, TableInv, TypeOK
  <2> QED BY <1>2, <2>1, <2>2, <2>3, <2>4 DEF TableInv, TypeOK
<1>6. IndexesAgree'
  <2> SUFFICES ASSUME NEW u \in Tx, NEW s \in Res
               PROVE  /\ s \in held'[u] <=> u \in TxsOf(granted'[s])
                      /\ waitingOn'[u] = s <=> u \in InQueue(queue'[s])
                      /\ Distinct(queue'[s])
    BY DEF IndexesAgree
  <2>1. s \in held'[u] <=> u \in TxsOf(granted'[s])
    <3>1. u \in TxsOf(granted'[s]) <=> (u # t /\ u \in TxsOf(granted[s])) \/ u \in TxsOf(W[s])
      BY <1>1 DEF ReleaseEffect, TxsOf
    <3>2. s \in held'[u] <=> (u # t /\ s \in held[u]) \/ u \in TxsOf(W[s])
      BY <1>1 DEF ReleaseEffect
    <3> QED BY <3>1, <3>2 DEF TableInv, IndexesAgree
  <2>2. waitingOn'[u] = s <=> u \in InQueue(queue'[s])
    <3>1. u \in InQueue(queue'[s]) <=> waitingOn[u] = s /\ u # t /\ u \notin TxsOf(W[s])
      BY <1>1 DEF ReleaseEffect, TableInv, IndexesAgree
    <3>2. waitingOn'[u] = s <=>
             waitingOn[u] = s /\ u # t /\ ~ \E r \in Res : u \in TxsOf(W[r])
      BY <1>1, ConstantsOK DEF ReleaseEffect
    <3> QED BY <1>4, <3>1, <3>2
  <2>3. Distinct(queue'[s])
    BY <1>1 DEF ReleaseEffect
  <2> QED BY <2>1, <2>2, <2>3
<1>7. QueueMatchesCall'
  <2> SUFFICES ASSUME NEW s \in Res, NEW k \in DOMAIN queue'[s]
               PROVE  LET u == queue'[s][k].tx
                      IN  /\ call[u] # None
                          /\ call[u].res = s
                          /\ call[u].mode = queue'[s][k].mode
    BY <1>2 DEF QueueMatchesCall
  <2>1. PICK j \in DOMAIN queue[s] : queue'[s][k] = queue[s][j]
    BY <1>1 DEF ReleaseEffect
  <2> QED BY <2>1 DEF TableInv, QueueMatchesCall
<1>8. SleepersKnown'
  <2> SUFFICES ASSUME NEW u \in Tx
               PROVE  /\ waitingOn'[u] # None =>
                            /\ call[u] # None /\ call[u].res = waitingOn'[u]
                            /\ ~HeldBy(u, call[u].res, call[u].mode)'
                      /\ (call[u] # None /\ waitingOn'[u] = None /\ u \notin Killable)
                            => HeldBy(u, call[u].res, call[u].mode)'
    BY <1>2 DEF SleepersKnown, HeldBy
  <2>1. ASSUME waitingOn'[u] # None
        PROVE  /\ call[u] # None /\ call[u].res = waitingOn'[u]
               /\ ~HeldBy(u, call[u].res, call[u].mode)'
    <3>1. waitingOn'[u] = waitingOn[u] /\ u # t /\ \A s \in Res : u \notin TxsOf(W[s])
      BY <1>1, <2>1 DEF ReleaseEffect
    <3>2. /\ call[u] # None /\ call[u].res = waitingOn[u]
          /\ ~HeldBy(u, call[u].res, call[u].mode)
      BY <2>1, <3>1 DEF TableInv, SleepersKnown
    <3>3. call[u].res \in Res
      BY <3>2 DEF TableInv, TypeOK, Call
    <3>4. ~HeldBy(u, call[u].res, call[u].mode)'
      BY <1>1, <1>2, <3>1, <3>2, <3>3 DEF ReleaseEffect, HeldBy, TxsOf
    <3> QED BY <3>1, <3>2, <3>4
  <2>2. ASSUME call[u] # None, waitingOn'[u] = None, u \notin Killable
        PROVE  HeldBy(u, call[u].res, call[u].mode)'
    <3>1. u # t
      BY <2>2 DEF ReleaseAll
    <3>2. call[u].res \in Res
      BY <2>2 DEF TableInv, TypeOK, Call
    <3>3. CASE waitingOn[u] = None
      <4>1. HeldBy(u, call[u].res, call[u].mode)
        BY <2>2, <3>3 DEF TableInv, SleepersKnown
      <4> QED BY <1>1, <1>2, <3>1, <3>2, <4>1 DEF ReleaseEffect, HeldBy
    <3>4. CASE waitingOn[u] # None
      <4>1. PICK s \in Res : u \in TxsOf(W[s])
        BY <1>1, <2>2, <3>1, <3>4 DEF ReleaseEffect
      <4>2. PICK w \in W[s] : w.tx = u
        BY <4>1 DEF TxsOf
      <4>3. PICK i \in DOMAIN queue[s] : queue[s][i] = w
        BY <1>1, <4>2 DEF ReleaseEffect
      <4>4. call[u].res = s /\ call[u].mode = w.mode
        BY <4>2, <4>3 DEF TableInv, QueueMatchesCall
      <4>5. w \in granted'[s]
        BY <1>1, <4>2 DEF ReleaseEffect
      <4>6. w.mode \in Modes
        BY <1>1, <4>2 DEF ReleaseEffect, Request
      <4> QED BY <1>2, <4>2, <4>4, <4>5, <4>6 DEF HeldBy, Modes
    <3> QED BY <3>3, <3>4
  <2> QED BY <2>1, <2>2
<1> QED BY <1>5, <1>6, <1>7, <1>8 DEF TableInv

LEMMA NextTables == TableInv /\ [Next]_vars => TableInv'
<1> SUFFICES ASSUME TableInv, [Next]_vars PROVE TableInv'
  OBVIOUS
<1>1. ASSUME NEW t \in Tx, NEW r \in Res, NEW m \in Modes, AcquireAtOnce(t, r, m)
      PROVE  TableInv'
  BY <1>1, AcquireAtOnceTables
<1>2. ASSUME NEW t \in Tx, NEW r \in Res, NEW m \in Modes, NEW w \in Waits,
             AcquireWaits(t, r, m, w)
      PROVE  TableInv'
  BY <1>2, AcquireWaitsTables
<1>3. ASSUME NEW t \in Tx, NEW r \in Res, NEW m \in Modes, AcquireDeadlocks(t, r, m)
      PROVE  TableInv'
  BY <1>3 DEF AcquireDeadlocks, TableInv, TypeOK, IndexesAgree, QueueMatchesCall,
              SleepersKnown, HeldBy
<1>4. ASSUME NEW t \in Tx, WakeGranted(t)
      PROVE  TableInv'
  BY <1>4, WakeGrantedTables
<1>5. ASSUME NEW t \in Tx, WakeTimedOut(t)
      PROVE  TableInv'
  BY <1>5, WakeTimedOutTables
<1>6. ASSUME NEW t \in Tx, ReleaseAll(t)
      PROVE  TableInv'
  BY <1>6, ReleaseAllTables
<1>7. CASE UNCHANGED vars
  BY <1>7 DEF vars, TableInv, TypeOK, IndexesAgree, QueueMatchesCall, SleepersKnown, HeldBy
<1> QED BY <1>1, <1>2, <1>3, <1>4, <1>5, <1>6, <1>7 DEF Next

LEMMA TablesInvariant == Spec => []TableInv
  BY InitTables, NextTables, PTL DEF Spec

\* The table, the queues, the indexes and the answers are of their types in every
\* reachable state, for any number of sessions and resources.
THEOREM TablesTyped == Spec => []TypeOK
<1>1. TableInv => TypeOK
  BY DEF TableInv
<1> QED BY <1>1, TablesInvariant, PTL

\* In every reachable state the reverse indexes and the table agree, so that
\* release_all finds every lock and the one request of the session it ends.
THEOREM IndexesCorrect == Spec => []IndexesAgree
<1>1. TableInv => IndexesAgree
  BY DEF TableInv
<1> QED BY <1>1, TablesInvariant, PTL

\* In every reachable state a thread that sleeps is queued for what it asked or
\* has been granted it, never both: no grant misses its thread.
THEOREM SleepersCorrect == Spec => []SleepersKnown
<1>1. TableInv => SleepersKnown
  BY DEF TableInv
<1> QED BY <1>1, TablesInvariant, PTL

----------------------------------------------------------------------------
(* Holders. *)

LEMMA GrantKeepsTogether ==
    ASSUME TableInv, HoldersCompatible,
           NEW t \in Tx, NEW r \in Res, NEW m \in Modes, AcquireAtOnce(t, r, m)
    PROVE  HoldersCompatible'
<1> DEFINE e == [tx |-> t, mode |-> m]
<1>1. \A s \in Res : granted'[s] = IF s = r THEN granted[s] \cup {e} ELSE granted[s]
  BY DEF AcquireAtOnce, TableInv, TypeOK
<1>2. Compatible(granted[r], m) /\ e.mode = m
  BY DEF AcquireAtOnce, CanGrant
<1> HIDE DEF e
<1>3. Together(granted[r] \cup {e})
  BY <1>2 DEF Compatible, HoldersCompatible, Together
<1> QED BY <1>1, <1>3 DEF HoldersCompatible

\* In every reachable state, two sessions hold the same resource only in mode S.
THEOREM LocksExclude == Spec => []HoldersCompatible
<1>1. Init => HoldersCompatible
  BY DEF Init, HoldersCompatible, Together
<1>2. TableInv /\ HoldersCompatible /\ [Next]_vars => HoldersCompatible'
  <2> SUFFICES ASSUME TableInv, HoldersCompatible, [Next]_vars
               PROVE  HoldersCompatible'
    OBVIOUS
  <2>1. ASSUME NEW t \in Tx, NEW r \in Res, NEW m \in Modes, AcquireAtOnce(t, r, m)
        PROVE  HoldersCompatible'
    BY <2>1, GrantKeepsTogether
  <2>2. ASSUME NEW t \in Tx, ReleaseAll(t)
        PROVE  HoldersCompatible'
    <3>1. PICK W : ReleaseEffect(t, W)
      BY <2>2, ReleaseLemma
    <3> QED BY <3>1 DEF ReleaseEffect, HoldersCompatible
  <2>3. CASE UNCHANGED granted
    BY <2>3 DEF HoldersCompatible
  <2> QED BY <2>1, <2>2, <2>3
          DEF Next, vars, AcquireWaits, AcquireDeadlocks, WakeGranted, WakeTimedOut
<1> QED BY <1>1, <1>2, TablesInvariant, PTL DEF Spec

\* In every reachable state, a resource somebody waits for has a holder, whose
\* release_all will look at the queue.
THEOREM QueuesHaveHolders == Spec => []NoOrphanedQueue
<1>1. Init => NoOrphanedQueue
  BY DEF Init, NoOrphanedQueue
<1>2. TableInv /\ NoOrphanedQueue /\ [Next]_vars => NoOrphanedQueue'
  <2> SUFFICES ASSUME TableInv, NoOrphanedQueue, [Next]_vars
               PROVE  NoOrphanedQueue'
    OBVIOUS
  <2>1. ASSUME NEW t \in Tx, NEW r \in Res, NEW m \in Modes, AcquireAtOnce(t, r, m)
        PROVE  NoOrphanedQueue'
    BY <2>1 DEF AcquireAtOnce, NoOrphanedQueue, TableInv, TypeOK
  <2>2. ASSUME NEW t \in Tx, NEW r \in Res, NEW m \in Modes, NEW w \in Waits,
               AcquireWaits(t, r, m, w)
        PROVE  NoOrphanedQueue'
    BY <2>2 DEF AcquireWaits, CanGrant, Compatible, Enqueued, NoOrphanedQueue, TableInv, TypeOK
  <2>3. ASSUME NEW t \in Tx, WakeTimedOut(t)
        PROVE  NoOrphanedQueue'
    <3>1. \A r \in Res : queue[r] = <<>> => InQueue(queue[r]) = {}
      BY DEF InQueue
    <3>2. \A r \in Res : queue[r] = <<>> => Without(queue[r], t) = <<>>
      BY <3>1 DEF Without
    <3> QED BY <2>3, <3>2 DEF WakeTimedOut, NoOrphanedQueue, TableInv, TypeOK
  <2>4. ASSUME NEW t \in Tx, ReleaseAll(t)
        PROVE  NoOrphanedQueue'
    <3>1. PICK W : ReleaseEffect(t, W)
      BY <2>4, ReleaseLemma
    <3> QED BY <3>1 DEF ReleaseEffect, NoOrphanedQueue
  <2>5. CASE UNCHANGED <<granted, queue>>
    BY <2>5 DEF NoOrphanedQueue
  <2> QED BY <2>1, <2>2, <2>3, <2>4, <2>5 DEF Next, vars, AcquireDeadlocks, WakeGranted
<1> QED BY <1>1, <1>2, TablesInvariant, PTL DEF Spec
----------------------------------------------------------------------------
(* Deadlock. *)

\* Every member of S waits for another one.
WaitCycle(S, graph) == S # {} /\ \A u \in S : graph[u] \cap S # {}

LEMMA GraphEdge ==
    ASSUME NEW G, NEW Q, NEW u \in Tx, NEW h
    PROVE  h \in WaitForGraph(G, Q)[u] <=>
             /\ h \in Tx /\ h # u
             /\ \E r \in Res : u \in InQueue(Q[r]) /\ h \in TxsOf(G[r])
BY DEF WaitForGraph

\* A request that is queued adds edges from its session only.
LEMMA EnqueueEdges ==
    ASSUME TableInv, NEW t \in Tx, NEW r \in Res, NEW m \in Modes,
           NEW u \in Tx, u # t
    PROVE  WaitForGraph(granted, Enqueued(t, r, m))[u] = WaitForGraph(granted, queue)[u]
<1> DEFINE e == [tx |-> t, mode |-> m]
           Q == Enqueued(t, r, m)
<1>1. queue[r] \in Seq(Request) /\ e \in Request /\ e.tx = t
  BY DEF TableInv, TypeOK, Request
<1>2. Q[r] = Append(queue[r], e) /\ \A s \in Res : s # r => Q[s] = queue[s]
  BY DEF Enqueued, TableInv, TypeOK
<1> HIDE DEF e, Q
<1>3. u \in InQueue(Append(queue[r], e)) <=> u \in InQueue(queue[r])
  <2> DEFINE L == Len(queue[r])
             a == Append(queue[r], e)
  <2>1. L \in Nat /\ DOMAIN queue[r] = 1..L
    BY <1>1, LenProperties
  <2>2. /\ a \in Seq(Request)
        /\ Len(a) = L + 1
        /\ \A i \in 1..L : a[i] = queue[r][i]
        /\ a[L + 1] = e
    BY <1>1, AppendProperties
  <2>3. DOMAIN a = 1..(L + 1)
    BY <2>2, LenProperties
  <2> HIDE DEF a, L
  <2>4. DOMAIN a = DOMAIN queue[r] \cup {L + 1}
    BY <2>1, <2>3
  <2> QED BY <1>1, <2>1, <2>2, <2>4 DEF InQueue, a
<1>4. \A s \in Res : u \in InQueue(Q[s]) <=> u \in InQueue(queue[s])
  BY <1>2, <1>3
<1>5. \A h : h \in WaitForGraph(granted, Q)[u] <=> h \in WaitForGraph(granted, queue)[u]
  BY <1>4, GraphEdge
<1> QED BY <1>5 DEF Q

\* No step makes a cycle out of transactions that did not wait in one before.
LEMMA NextNoWaitCycle == TableInv /\ NoWaitCycle /\ [Next]_vars => NoWaitCycle'
<1> SUFFICES ASSUME TableInv, NoWaitCycle, [Next]_vars,
                    NEW S \in SUBSET Tx, WaitCycle(S, WaitForGraph(granted', queue'))
             PROVE  FALSE
  BY DEF NoWaitCycle, WaitCycle
<1>0. ~WaitCycle(S, WaitForGraph(granted, queue))
  BY DEF NoWaitCycle, WaitCycle
<1>1. ASSUME NEW t \in Tx, NEW r \in Res, NEW m \in Modes, AcquireAtOnce(t, r, m)
      PROVE  FALSE
  <2>1. queue' = queue /\ InQueue(queue[r]) = {}
    BY <1>1 DEF AcquireAtOnce, CanGrant, InQueue
  <2>2. \A s \in Res : s # r => granted'[s] = granted[s]
    BY <1>1 DEF AcquireAtOnce, TableInv, TypeOK
  <2>3. \A u \in Tx : \A h : h \in WaitForGraph(granted', queue')[u]
                                => h \in WaitForGraph(granted, queue)[u]
    BY <2>1, <2>2, GraphEdge
  <2> QED BY <1>0, <2>3 DEF WaitCycle
<1>2. ASSUME NEW t \in Tx, NEW r \in Res, NEW m \in Modes, NEW w \in Waits,
             AcquireWaits(t, r, m, w)
      PROVE  FALSE
  <2>1. /\ granted' = granted
        /\ queue' = Enqueued(t, r, m)
        /\ ~CheckDeadlock(t, WaitForGraph(granted, Enqueued(t, r, m)))
    BY <1>2 DEF AcquireWaits
  <2>2. t \notin S
    BY <2>1 DEF CheckDeadlock, WaitCycle
  <2>3. \A u \in S : WaitForGraph(granted', queue')[u] = WaitForGraph(granted, queue)[u]
    BY <2>1, <2>2, EnqueueEdges
  <2> QED BY <1>0, <2>3 DEF WaitCycle
<1>3. ASSUME NEW t \in Tx, WakeTimedOut(t)
      PROVE  FALSE
  <2>1. granted' = granted
    BY <1>3 DEF WakeTimedOut
  <2>2. \A s \in Res : InQueue(queue'[s]) \subseteq InQueue(queue[s])
    <3> TAKE s \in Res
    <3>1. queue'[s] = IF s = call[t].res THEN Without(queue[s], t) ELSE queue[s]
      BY <1>3 DEF WakeTimedOut, TableInv, TypeOK
    <3>2. queue[s] \in Seq(Request) /\ Distinct(queue[s])
      BY DEF TableInv, TypeOK, IndexesAgree
    <3> QED BY <3>1, <3>2, WithoutLemma
  <2>3. \A u \in Tx : \A h : h \in WaitForGraph(granted', queue')[u]
                                => h \in WaitForGraph(granted, queue)[u]
    BY <2>1, <2>2, GraphEdge
  <2> QED BY <1>0, <2>3 DEF WaitCycle
<1>4. ASSUME NEW t \in Tx, ReleaseAll(t)
      PROVE  FALSE
  <2>1. PICK W : ReleaseEffect(t, W)
    BY <1>4, ReleaseLemma
  <2>2. ASSUME NEW u \in S
        PROVE  WaitForGraph(granted, queue)[u] \cap S # {}
    <3>1. PICK h \in S : h \in WaitForGraph(granted', queue')[u]
      BY DEF WaitCycle
    <3>2. PICK r \in Res : u \in InQueue(queue'[r]) /\ h \in TxsOf(granted'[r])
      BY <3>1, GraphEdge
    <3>3. PICK k \in S : k \in WaitForGraph(granted', queue')[h]
      BY DEF WaitCycle
    <3>4. PICK s \in Res : h \in InQueue(queue'[s])
      BY <3>3, GraphEdge
    <3>5. h \in InQueue(queue[s]) /\ h \notin TxsOf(W[s]) /\ h # t
      BY <2>1, <3>4 DEF ReleaseEffect
    <3>6. h \notin TxsOf(W[r])
      <4> SUFFICES ASSUME h \in TxsOf(W[r]) PROVE FALSE
        OBVIOUS
      <4>1. h \in InQueue(queue[r])
        BY <2>1 DEF ReleaseEffect, TxsOf, InQueue
      <4>2. r = s
        BY <3>5, <4>1 DEF TableInv, IndexesAgree
      <4> QED BY <3>5, <4>2
    <3>7. h \in TxsOf(granted[r])
      BY <2>1, <3>2, <3>6 DEF ReleaseEffect, TxsOf
    <3>8. u \in InQueue(queue[r])
      BY <2>1, <3>2 DEF ReleaseEffect
    <3>9. h \in WaitForGraph(granted, queue)[u]
      BY <3>1, <3>7, <3>8, GraphEdge
    <3> QED BY <3>9
  <2> QED BY <1>0, <2>2 DEF WaitCycle
<1>5. CASE UNCHANGED <<granted, queue>>
  BY <1>0, <1>5
<1> QED BY <1>1, <1>2, <1>3, <1>4, <1>5 DEF Next, vars, AcquireDeadlocks, WakeGranted

LEMMA InitNoWaitCycle == Init => NoWaitCycle
<1> SUFFICES ASSUME Init, NEW S \in SUBSET Tx, WaitCycle(S, WaitForGraph(granted, queue))
             PROVE  FALSE
  BY DEF NoWaitCycle, WaitCycle
<1>1. \A r \in Res : InQueue(queue[r]) = {}
  BY DEF Init, InQueue
<1>2. PICK u \in S : TRUE
  BY DEF WaitCycle
<1>3. PICK h : h \in WaitForGraph(granted, queue)[u]
  BY DEF WaitCycle
<1> QED BY <1>1, <1>3, GraphEdge

\* In every reachable state, no set of transactions waits for itself: searching
\* the graph only when a request is queued is enough.
THEOREM NoDeadlock == Spec => []NoWaitCycle
BY InitNoWaitCycle, NextNoWaitCycle, TablesInvariant, PTL DEF Spec

\* Whoever is refused with a DeadlockException would have waited for itself.
THEOREM VictimsDeserveIt == Spec => VictimOnCycle
<1>1. ASSUME TableInv, NoWaitCycle, [Next]_vars, NEW t \in raised' \ raised
      PROVE  \E r \in Res, m \in Modes :
               LET graph == WaitForGraph(granted, Enqueued(t, r, m))
               IN  /\ ~CanGrant(r, m)
                   /\ \A S \in SUBSET Tx :
                         graph[t] \subseteq S /\ (\A u \in S : graph[u] \subseteq S)
                            => t \in S
  <2>1. PICK r \in Res, m \in Modes : t \in Tx /\ AcquireDeadlocks(t, r, m)
    BY <1>1 DEF Next, vars, AcquireAtOnce, AcquireWaits, AcquireDeadlocks, WakeGranted,
                WakeTimedOut, ReleaseAll
  <2> DEFINE graph == WaitForGraph(granted, Enqueued(t, r, m))
  <2>2. PICK C \in SUBSET Tx : t \in C /\ \A u \in C : graph[u] \cap C # {}
    BY <2>1 DEF AcquireDeadlocks, CheckDeadlock
  <2>3. ASSUME NEW S \in SUBSET Tx, t \notin S,
               graph[t] \subseteq S, \A u \in S : graph[u] \subseteq S
        PROVE  FALSE
    <3>1. C \cap S # {}
      BY <2>2, <2>3
    <3>2. \A u \in C \cap S : graph[u] \cap (C \cap S) # {}
      BY <2>2, <2>3
    <3>3. \A u \in C \cap S : graph[u] = WaitForGraph(granted, queue)[u]
      BY <1>1, <2>1, <2>3, EnqueueEdges
    <3> HIDE DEF graph
    <3> QED BY <1>1, <3>1, <3>2, <3>3 DEF NoWaitCycle
  <2> HIDE DEF graph
  <2>4. ~CanGrant(r, m)
    BY <2>1 DEF AcquireDeadlocks
  <2>5. \A S \in SUBSET Tx :
           graph[t] \subseteq S /\ (\A u \in S : graph[u] \subseteq S) => t \in S
    BY <2>3
  <2> QED BY <2>4, <2>5 DEF graph
<1>2. TableInv /\ NoWaitCycle /\ [Next]_vars =>
        [\A t \in raised' \ raised : \E r \in Res, m \in Modes :
            LET graph == WaitForGraph(granted, Enqueued(t, r, m))
            IN  /\ ~CanGrant(r, m)
                /\ \A S \in SUBSET Tx :
                      graph[t] \subseteq S /\ (\A u \in S : graph[u] \subseteq S)
                         => t \in S]_vars
  BY <1>1
<1> QED BY <1>2, TablesInvariant, NoDeadlock, PTL DEF Spec, VictimOnCycle
----------------------------------------------------------------------------
(* Fairness of the queue. *)

\* Whom a release makes a holder of r stood in the queue of r before everybody
\* whom it leaves there.
LEMMA ReleaseInOrder ==
    ASSUME TableInv, NEW t \in Tx, ReleaseAll(t), NEW r \in Res,
           NEW g \in granted'[r] \ granted[r],
           NEW i \in DOMAIN queue[r], queue[r][i].tx \in InQueue(queue'[r])
    PROVE  \E j \in 1..(i - 1) : queue[r][j] = g
<1> DEFINE q == QueueLeft(t, r)
           G == HoldersLeft(t, r)
<1>1. PICK n : /\ Wakes(G, q, n)
               /\ granted'[r] = G \cup {q[k] : k \in 1..n}
               /\ queue'[r] = SubSeq(q, n + 1, Len(q))
  BY DEF ReleaseAll, Woken
<1>2. G \subseteq granted[r]
  BY DEF HoldersLeft
<1>3. queue[r] \in Seq(Request) /\ Distinct(queue[r])
  BY DEF TableInv, TypeOK, IndexesAgree
<1>4. q \in Seq(Request) /\ Distinct(q)
  BY QueueLeftLemma
<1>5. ASSUME NEW k \in DOMAIN q, NEW l \in DOMAIN q, k < l
      PROVE  \E a, b \in DOMAIN queue[r] : a < b /\ q[k] = queue[r][a] /\ q[l] = queue[r][b]
  <2>1. CASE waitingOn[t] = r
    <3>1. q = Without(queue[r], t)
      BY <2>1 DEF QueueLeft
    <3> HIDE DEF q
    <3> QED BY <1>3, <1>5, <3>1, WithoutOrder
  <2>2. CASE waitingOn[t] # r
    BY <1>5, <2>2 DEF QueueLeft
  <2> QED BY <2>1, <2>2
<1> HIDE DEF q, G
<1>6. n \in 0..Len(q) /\ Len(q) \in Nat /\ DOMAIN q = 1..Len(q)
  BY <1>1, <1>4, LenProperties DEF Wakes
<1>7. PICK k \in 1..n : g = q[k]
  BY <1>1, <1>2
<1>8. PICK l \in DOMAIN queue'[r] : queue'[r][l].tx = queue[r][i].tx
  BY DEF InQueue
<1>9. l + n \in DOMAIN q /\ queue'[r][l] = q[l + n] /\ l \in Nat /\ l > 0
  <2> DEFINE s == SubSeq(q, n + 1, Len(q))
  <2>1. /\ s \in Seq(Request)
        /\ \A m \in DOMAIN s : m + n \in DOMAIN q /\ s[m] = q[m + n]
    BY <1>4, <1>6, SuffixLemma
  <2> HIDE DEF s
  <2>2. queue'[r] = s
    BY <1>1 DEF s
  <2>3. DOMAIN s = 1..Len(s) /\ Len(s) \in Nat
    BY <2>1, LenProperties
  <2> QED BY <2>1, <2>2, <2>3
<1>10. k \in DOMAIN q /\ k < l + n
  BY <1>6, <1>9
<1>11. PICK a \in DOMAIN queue[r], b \in DOMAIN queue[r] :
          a < b /\ q[k] = queue[r][a] /\ q[l + n] = queue[r][b]
  BY <1>5, <1>9, <1>10
<1>12. b = i
  BY <1>3, <1>8, <1>9, <1>11 DEF Distinct
<1>13. a \in 1..(i - 1)
  <2>1. DOMAIN queue[r] = 1..Len(queue[r]) /\ Len(queue[r]) \in Nat
    BY <1>3, LenProperties
  <2> QED BY <1>11, <1>12, <2>1
<1> QED BY <1>7, <1>11, <1>13

\* Nobody becomes a holder of a resource past a request that was queued there before
\* and is still queued (lock.cpp:19, 97).
THEOREM QueuesAreFair == Spec => FirstComeFirstServed
<1>1. ASSUME TableInv, [Next]_vars, NEW r \in Res, NEW g \in granted'[r] \ granted[r],
             NEW i \in DOMAIN queue[r], queue[r][i].tx \in InQueue(queue'[r])
      PROVE  \E j \in 1..(i - 1) : queue[r][j] = g
  <2>1. ASSUME NEW t \in Tx, NEW s \in Res, NEW m \in Modes, AcquireAtOnce(t, s, m)
        PROVE  FALSE
    <3>1. granted' = [granted EXCEPT ![s] = @ \cup {[tx |-> t, mode |-> m]}] /\ queue[s] = <<>>
      BY <2>1 DEF AcquireAtOnce, CanGrant
    <3>2. s = r
      BY <1>1, <3>1 DEF TableInv, TypeOK
    <3>3. DOMAIN queue[r] = {}
      BY <3>1, <3>2
    <3> QED BY <3>3
  <2>2. ASSUME NEW t \in Tx, ReleaseAll(t)
        PROVE  \E j \in 1..(i - 1) : queue[r][j] = g
    BY <1>1, <2>2, ReleaseInOrder
  <2>3. \E t \in Tx : ReleaseAll(t) \/ \E s \in Res, m \in Modes : AcquireAtOnce(t, s, m)
    BY <1>1 DEF Next, vars, AcquireWaits, AcquireDeadlocks, WakeGranted, WakeTimedOut
  <2> QED BY <2>1, <2>2, <2>3
<1>2. TableInv /\ [Next]_vars =>
        [\A r \in Res : \A g \in granted'[r] \ granted[r] :
            \A i \in DOMAIN queue[r] :
               queue[r][i].tx \in InQueue(queue'[r]) =>
                  \E j \in 1..(i - 1) : queue[r][j] = g]_vars
  BY <1>1
<1> QED BY <1>2, TablesInvariant, PTL DEF Spec, FirstComeFirstServed
----------------------------------------------------------------------------
(* Refinement. *)

LEMMA GrantTakes ==
    ASSUME TableInv, HoldersCompatible,
           NEW t \in Tx, NEW r \in Res, NEW m \in Modes, AcquireAtOnce(t, r, m)
    PROVE  TwoPL!Take(t)
<1>1. granted' = [granted EXCEPT ![r] = @ \cup {[tx |-> t, mode |-> m]}]
  BY DEF AcquireAtOnce
<1>2. Together(granted'[r])
  BY GrantKeepsTogether DEF HoldersCompatible
<1> QED BY <1>1, <1>2 DEF TwoPL!Take, TwoPL!Together, TwoPL!Modes, Together, Modes

LEMMA ReleaseEnds ==
    ASSUME TableInv, HoldersCompatible, NEW t \in Tx, ReleaseAll(t)
    PROVE  TwoPL!End(t)
<1>1. PICK W : ReleaseEffect(t, W)
  BY ReleaseLemma
<1>2. granted' \in [Res -> SUBSET Request]
  BY ReleaseAllTables DEF TableInv, TypeOK
<1>3. \A r \in Res : /\ {g \in granted[r] : g.tx # t} \subseteq granted'[r]
                     /\ \A g \in granted'[r] : g.tx # t
                     /\ Together(granted'[r])
  BY <1>1 DEF ReleaseEffect
<1>4. ASSUME NEW r \in Res, NEW s \in Res,
             NEW g \in granted'[r] \ granted[r], NEW h \in granted'[s] \ granted[s],
             g.tx = h.tx
      PROVE  r = s /\ g = h
  <2>1. g \in W[r] /\ h \in W[s]
    BY <1>1 DEF ReleaseEffect
  <2>2. PICK i \in DOMAIN queue[r] : queue[r][i] = g
    BY <1>1, <2>1 DEF ReleaseEffect
  <2>3. PICK j \in DOMAIN queue[s] : queue[s][j] = h
    BY <1>1, <2>1 DEF ReleaseEffect
  <2>4. g.tx \in InQueue(queue[r]) /\ g.tx \in InQueue(queue[s]) /\ g.tx \in Tx
    BY <1>1, <1>4, <2>1, <2>2, <2>3 DEF InQueue, ReleaseEffect, Request
  <2>5. waitingOn[g.tx] = r /\ waitingOn[g.tx] = s
    BY <2>4 DEF TableInv, IndexesAgree
  <2>6. Distinct(queue[r])
    BY <2>4 DEF TableInv, IndexesAgree
  <2> QED BY <1>4, <2>2, <2>3, <2>5, <2>6 DEF Distinct
<1> QED BY <1>2, <1>3, <1>4
        DEF TwoPL!End, TwoPL!Together, TwoPL!Request, TwoPL!Modes, Together, Request, Modes

\* Every behaviour of the lock manager is one of strict two-phase locking, the
\* state of the abstract specification being the holders of the concrete one.
THEOREM ImplementsTwoPhaseLocking == Spec => ImplementsTwoPL
<1>1. Init => TwoPL!Init
  BY DEF Init, TwoPL!Init
<1>2. TableInv /\ HoldersCompatible /\ [Next]_vars => [TwoPL!Next]_granted
  <2> SUFFICES ASSUME TableInv, HoldersCompatible, [Next]_vars
               PROVE  [TwoPL!Next]_granted
    OBVIOUS
  <2>1. ASSUME NEW t \in Tx, NEW r \in Res, NEW m \in Modes, AcquireAtOnce(t, r, m)
        PROVE  TwoPL!Next
    BY <2>1, GrantTakes DEF TwoPL!Next
  <2>2. ASSUME NEW t \in Tx, ReleaseAll(t)
        PROVE  TwoPL!Next
    BY <2>2, ReleaseEnds DEF TwoPL!Next
  <2> QED BY <2>1, <2>2
          DEF Next, vars, AcquireWaits, AcquireDeadlocks, WakeGranted, WakeTimedOut
<1> QED BY <1>1, <1>2, TablesInvariant, LocksExclude, PTL DEF Spec, TwoPL!Spec, ImplementsTwoPL
=============================================================================
