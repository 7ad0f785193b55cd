--------------------------- MODULE Servers_proofs ---------------------------
(* A theorem about Servers, for any number of connections, statements and     *)
(* transactions, and its proof.                                               *)
EXTENDS Servers, TLAPS

(***************************************************************************)
(* The inductive invariant.  A thread that has met none of another server  *)
(* is in the engine alone, so that nothing comes between Engine::execute's *)
(* setting sess_ and the thread's going by it.                             *)
(***************************************************************************)
AloneUnlessMet ==
    \A t \in Thread : at[t] \in Inside /\ t \notin met =>
        \A u \in Thread : at[u] \in Inside => u = t

\* sess_ points at the session of the thread in the engine, at the console's, or at
\* one of a thread that has met another; only that can be kept in prev.
PointedAt ==
    /\ \A t \in Thread : at[t] \in Inside /\ t \notin met \cup {Console} => current = t
    /\ \A t \in Thread \ {Console} : at[t] \in Inside => prev[t] \in met \cup {Console}
    /\ current \in met \cup {Console} \/ at[current] \in Inside

\* What binds a transaction of one thread to another.
Mixed(t, u) == t = u \/ {t, u} \subseteq Exposed

\* Sessions hold what their own threads began, unless those are exposed.
Owned ==
    /\ \A t \in Thread : session[t] # 0 =>
          session[t] < nextTx /\ Mixed(client[session[t]], t)
    /\ \A e \in touched : e[2] < nextTx

\* A thread between the parts of its statement has its transaction, unless exposed.
HasBegun == \A t \in Thread : at[t] = "begun" /\ t \notin Exposed => session[t] # 0

ServersInv == ServersTypeOK /\ AloneUnlessMet /\ PointedAt /\ Owned /\ HasBegun /\ MixedOnlyByOverlap

----------------------------------------------------------------------------
LEMMA InitInv == ServersConstants /\ ServersInit => ServersInv
<1> SUFFICES ASSUME ServersConstants, ServersInit PROVE ServersInv
  OBVIOUS
<1>1. MaxTx \in Nat /\ MaxStatements \in Nat /\ Console \in Thread
  BY DEF ServersConstants, Thread
<1>2. ServersTypeOK
  BY <1>1 DEF ServersInit, ServersTypeOK, Inside
<1>3. \A t \in Thread : at[t] \notin Inside /\ at[t] # "begun"
  BY DEF ServersInit, Inside
<1>4. AloneUnlessMet /\ PointedAt
  BY <1>3 DEF ServersInit, AloneUnlessMet, PointedAt
<1>5. Owned /\ HasBegun /\ MixedOnlyByOverlap
  BY <1>3 DEF ServersInit, Owned, HasBegun, MixedOnlyByOverlap
<1> QED BY <1>2, <1>4, <1>5 DEF ServersInv

\* A thread in the engine works on its own session, or both are exposed.
LEMMA WorksOn ==
    ASSUME ServersInv, NEW t \in Thread, at[t] \in Inside
    PROVE  Mixed(t, current)
<1>1. current \in Thread /\ met \subseteq Thread
  BY DEF ServersInv, ServersTypeOK
<1>2. CASE t \notin met \cup {Console}
  BY <1>2 DEF ServersInv, PointedAt, Mixed
<1>3. CASE t \notin met /\ t = Console /\ at[current] \in Inside
  BY <1>1, <1>3 DEF ServersInv, AloneUnlessMet, Mixed
<1>4. CASE t \notin met /\ t = Console /\ current \in met \cup {Console}
  BY <1>4 DEF Mixed, Exposed
<1>5. CASE t \in met /\ current \in met \cup {Console}
  BY <1>5 DEF Mixed, Exposed
<1>6. CASE t \in met /\ at[current] \in Inside /\ current \notin met
  BY <1>1, <1>6 DEF ServersInv, AloneUnlessMet
<1> QED BY <1>2, <1>3, <1>4, <1>5, <1>6 DEF ServersInv, PointedAt

\* Whoever is exposed stays so.
LEMMA ExposedGrows ==
    ASSUME met \subseteq met'
    PROVE  /\ Exposed \subseteq Exposed'
           /\ \A t, u : Mixed(t, u) => Mixed(t, u)'
  BY DEF Exposed, Mixed

\* Being mixed is symmetric, and transitive through anybody.
LEMMA MixedThrough ==
    ASSUME NEW t, NEW u, NEW v, Mixed(t, u), Mixed(u, v)
    PROVE  Mixed(t, v) /\ Mixed(u, t)
  BY DEF Mixed

\* A thread moves on, within the engine or outside of it: sess_ stays right.
LEMMA MoveLemma ==
    ASSUME ServersInv, UNCHANGED <<current, prev, met>>,
           \A u \in Thread : at'[u] \in Inside <=> at[u] \in Inside
    PROVE  AloneUnlessMet' /\ PointedAt'
<1>1. current' = current /\ prev' = prev /\ met' = met /\ current \in Thread
  BY DEF ServersInv, ServersTypeOK
<1>2. Inside' = Inside
  BY DEF Inside
<1>3. AloneUnlessMet'
  BY <1>1, <1>2 DEF ServersInv, AloneUnlessMet
<1>4. PointedAt'
  BY <1>1, <1>2 DEF ServersInv, PointedAt
<1> QED BY <1>3, <1>4

\* What a thread does that is neither in nor out of the engine by it.
Steps(t, to) ==
    /\ at[t] \in Inside /\ to \in Inside /\ at' = [at EXCEPT ![t] = to]
    /\ UNCHANGED <<current, prev, met, statements>>

LEMMA StepsLemma ==
    ASSUME ServersInv, NEW t \in Thread, NEW to, Steps(t, to)
    PROVE  /\ AloneUnlessMet' /\ PointedAt'
           /\ at' \in [Thread -> Inside \cup {"off", "idle"}]
<1>1. at' \in [Thread -> Inside \cup {"off", "idle"}]
  BY DEF ServersInv, ServersTypeOK, Steps
<1>2. \A u \in Thread : at'[u] \in Inside <=> at[u] \in Inside
  BY DEF ServersInv, ServersTypeOK, Steps
<1> QED BY <1>1, <1>2, MoveLemma DEF Steps

\* A thread that is not exposed finds its session there.
LEMMA NotGone ==
    ASSUME ServersInv, NEW t \in Thread, at[t] \in Inside, Gone
    PROVE  t \in Exposed
<1>1. Mixed(t, current)
  BY WorksOn
<1>2. t # current
  BY DEF Gone, Inside
<1> QED BY <1>1, <1>2 DEF Mixed

\* What BeginsFor leaves to its thread.
LEMMA BeginsLemma ==
    ASSUME ServersInv, ServersConstants, NEW t \in Thread, at[t] \in Inside, BeginsFor(t)
    PROVE  /\ session' \in [Thread -> 0..MaxTx] /\ client' \in [TxIds -> Thread]
           /\ nextTx' \in 1..MaxTx+1 /\ stray' \subseteq Thread
           /\ session'[current] # 0
           /\ \A u \in Thread \ {current} : session'[u] = session[u]
           /\ Owned' /\ MixedOnlyByOverlap'
<1>1. /\ MaxTx \in Nat /\ nextTx \in 1..MaxTx+1 /\ touched \subseteq Thread \X TxIds
      /\ session \in [Thread -> 0..MaxTx] /\ client \in [TxIds -> Thread] /\ current \in Thread
  BY DEF ServersConstants, ServersInv, ServersTypeOK
<1>2. /\ met' = met /\ touched' = touched /\ Exposed' = Exposed
      /\ stray' = stray \cup {u \in {t} : Gone}
  BY DEF BeginsFor, Exposed
<1>3. stray' \subseteq Thread /\ stray' \subseteq Exposed'
  BY <1>2, NotGone DEF ServersInv, ServersTypeOK, MixedOnlyByOverlap
<1>4. CASE session[current] # 0
  <2>1. session' = session /\ client' = client /\ nextTx' = nextTx
    BY <1>4 DEF BeginsFor
  <2>2. Owned'
    BY <1>2, <2>1 DEF ServersInv, Owned, Mixed
  <2>3. MixedOnlyByOverlap'
    BY <1>2, <1>3, <2>1 DEF ServersInv, MixedOnlyByOverlap
  <2> QED BY <1>1, <1>3, <1>4, <2>1, <2>2, <2>3
<1>5. CASE session[current] = 0
  <2>1. /\ nextTx \in TxIds /\ nextTx' = nextTx + 1
        /\ session' = [session EXCEPT ![current] = nextTx]
        /\ client' = [client EXCEPT ![nextTx] = t]
    BY <1>5 DEF BeginsFor
  <2>2. \A x \in TxIds : x < nextTx => client'[x] = client[x] /\ x < nextTx'
    BY <1>1, <2>1 DEF TxIds
  <2>3. nextTx < nextTx' /\ nextTx' \in 1..MaxTx+1 /\ nextTx \in 0..MaxTx /\ nextTx # 0
    BY <1>1, <2>1 DEF TxIds
  <2>4. /\ session' \in [Thread -> 0..MaxTx] /\ client' \in [TxIds -> Thread]
        /\ session'[current] = nextTx /\ client'[nextTx] = t
        /\ \A u \in Thread \ {current} : session'[u] = session[u]
    BY <1>1, <2>1, <2>3
  <2>5. \A u \in Thread : session[u] # 0 => session[u] \in TxIds
    BY <1>1 DEF TxIds
  <2>6. ASSUME NEW u \in Thread, session'[u] # 0
        PROVE  session'[u] < nextTx' /\ Mixed(client'[session'[u]], u)
    <3>1. CASE u = current
      BY <2>3, <2>4, <3>1, WorksOn
    <3>2. CASE u # current
      <4>1. session'[u] = session[u] /\ session[u] \in TxIds
        BY <2>4, <2>5, <2>6, <3>2
      <4>2. session[u] < nextTx /\ Mixed(client[session[u]], u)
        BY <2>6, <4>1 DEF ServersInv, Owned
      <4> QED BY <2>2, <4>1, <4>2
    <3> QED BY <3>1, <3>2
  <2>7. \A e \in touched : e[2] \in TxIds /\ e[2] < nextTx
    BY <1>1 DEF ServersInv, Owned
  <2>8. Owned'
    BY <1>2, <2>2, <2>6, <2>7 DEF Owned, Mixed
  <2>9. MixedOnlyByOverlap'
    BY <1>2, <1>3, <2>2, <2>7 DEF ServersInv, MixedOnlyByOverlap
  <2> QED BY <1>3, <2>3, <2>4, <2>8, <2>9
<1> QED BY <1>4, <1>5

\* What a thread touches is its own, or both are exposed.
LEMMA TouchesLemma ==
    ASSUME ServersInv, NEW t \in Thread, at[t] \in Inside, Touches(t),
           UNCHANGED <<client, met, nextTx>>, stray' \subseteq Exposed
    PROVE  /\ touched' \subseteq Thread \X TxIds
           /\ \A e \in touched' : e[2] < nextTx'
           /\ MixedOnlyByOverlap'
<1>1. touched' = touched \cup {<<t, x>> : x \in {session[current]} \ {0}} /\ Exposed' = Exposed
  BY DEF Touches, Exposed
<1>2. current \in Thread /\ Mixed(t, current)
  BY WorksOn DEF ServersInv, ServersTypeOK
<1>3. session[current] # 0 =>
         /\ session[current] \in TxIds /\ session[current] < nextTx
         /\ Mixed(client[session[current]], current)
  BY <1>2 DEF ServersInv, ServersTypeOK, Owned, TxIds
<1>4. session[current] # 0 => Mixed(client[session[current]], t)
  BY <1>2, <1>3 DEF Mixed
<1>5. ASSUME NEW e \in touched', e \notin touched
      PROVE  e = <<t, session[current]>> /\ session[current] # 0
  BY <1>1, <1>5
<1>6. touched' \subseteq Thread \X TxIds
  BY <1>3, <1>5 DEF ServersInv, ServersTypeOK
<1>7. \A e \in touched' : e[2] < nextTx'
  BY <1>3, <1>5 DEF ServersInv, Owned
<1>8. \A e \in touched' : client[e[2]] # e[1] => {e[1], client[e[2]]} \subseteq Exposed
  BY <1>4, <1>5 DEF ServersInv, MixedOnlyByOverlap, Mixed
<1> QED BY <1>1, <1>6, <1>7, <1>8 DEF MixedOnlyByOverlap

\* What EndsFor leaves to its thread.
LEMMA EndsLemma ==
    ASSUME ServersInv, ServersConstants, NEW t \in Thread, at[t] \in Inside, EndsFor(t)
    PROVE  /\ session' \in [Thread -> 0..MaxTx] /\ stray' \subseteq Thread
           /\ touched' \subseteq Thread \X TxIds
           /\ nextTx' = nextTx /\ client' = client
           /\ \A u \in Thread \ {current} : session'[u] = session[u]
           /\ Owned' /\ MixedOnlyByOverlap'
<1>1. /\ session' = [session EXCEPT ![current] = 0] /\ Touches(t)
      /\ stray' = stray \cup {u \in {t} : Gone}
      /\ nextTx' = nextTx /\ client' = client /\ met' = met /\ Exposed' = Exposed
  BY DEF EndsFor, Exposed
<1>2. MaxTx \in Nat /\ session \in [Thread -> 0..MaxTx] /\ current \in Thread
  BY DEF ServersConstants, ServersInv, ServersTypeOK
<1>3. stray' \subseteq Thread /\ stray' \subseteq Exposed
  BY <1>1, NotGone DEF ServersInv, ServersTypeOK, MixedOnlyByOverlap
<1>4. /\ touched' \subseteq Thread \X TxIds
      /\ \A e \in touched' : e[2] < nextTx'
      /\ MixedOnlyByOverlap'
  BY <1>1, <1>3, TouchesLemma
<1>5. session' \in [Thread -> 0..MaxTx] /\ \A u \in Thread : session'[u] # 0 => session'[u] = session[u]
  BY <1>1, <1>2
<1>6. Owned'
  BY <1>1, <1>4, <1>5 DEF ServersInv, Owned, Mixed
<1> QED BY <1>1, <1>2, <1>3, <1>4, <1>5, <1>6

\* A statement that changes only its own session, or that of somebody exposed with it,
\* leaves the others what they have begun.
LEMMA OthersHave ==
    ASSUME ServersInv, NEW t \in Thread, at[t] \in Inside, met' = met,
           \A u \in Thread \ {current} : session'[u] = session[u],
           \A u \in Thread \ {t} : at'[u] = at[u],
           at'[t] = "begun" /\ t \notin Exposed => session'[t] # 0
    PROVE  HasBegun'
<1>1. Exposed' = Exposed /\ Mixed(t, current)
  BY WorksOn DEF Exposed
<1>2. ASSUME NEW u \in Thread, at'[u] = "begun", u \notin Exposed, u # t
      PROVE  session'[u] # 0
  <2>1. u # current
    BY <1>1, <1>2 DEF Mixed
  <2> QED BY <1>2, <2>1 DEF ServersInv, HasBegun
<1> QED BY <1>1, <1>2 DEF HasBegun

----------------------------------------------------------------------------
(* One lemma for every action. *)

LEMMA ConnectInv ==
    ASSUME ServersInv, ServersConstants, NEW t \in Thread, Connect(t)
    PROVE  ServersInv'
<1>1. /\ at[t] = "off" /\ at' = [at EXCEPT ![t] = "idle"]
      /\ session' = [session EXCEPT ![t] = 0]
      /\ UNCHANGED <<auto, current, prev, nextTx, statements, client, touched, stray, met>>
  BY DEF Connect, engineVars, historyVars
<1>2. MaxTx \in Nat
  BY DEF ServersConstants
<1>3. ServersTypeOK'
  BY <1>1, <1>2 DEF ServersInv, ServersTypeOK
<1>4. \A u \in Thread : at'[u] \in Inside <=> at[u] \in Inside
  BY <1>1 DEF ServersInv, ServersTypeOK, Inside
<1>5. AloneUnlessMet' /\ PointedAt'
  BY <1>1, <1>4, MoveLemma
<1>6. Exposed' = Exposed
  BY <1>1 DEF Exposed
<1>7. Owned' /\ HasBegun' /\ MixedOnlyByOverlap'
  <2>1. \A u \in Thread : session'[u] # 0 => session'[u] = session[u]
    BY <1>1 DEF ServersInv, ServersTypeOK
  <2>2. \A u \in Thread : at'[u] = "begun" => at[u] = "begun" /\ session'[u] = session[u]
    BY <1>1 DEF ServersInv, ServersTypeOK
  <2>3. Owned'
    BY <1>1, <1>6, <2>1 DEF ServersInv, Owned, Mixed
  <2>4. HasBegun'
    BY <1>6, <2>2 DEF ServersInv, HasBegun
  <2> QED BY <1>1, <1>6, <2>3, <2>4 DEF ServersInv, MixedOnlyByOverlap
<1> QED BY <1>3, <1>5, <1>7 DEF ServersInv

LEMMA DisconnectInv ==
    ASSUME ServersInv, NEW t \in Thread, Disconnect(t)
    PROVE  ServersInv'
<1>1. /\ at[t] = "idle" /\ at' = [at EXCEPT ![t] = "off"]
      /\ UNCHANGED <<session, auto, current, prev, nextTx, statements, client, touched, stray, met>>
  BY DEF Disconnect, engineVars, historyVars
<1>2. ServersTypeOK'
  BY <1>1 DEF ServersInv, ServersTypeOK
<1>3. \A u \in Thread : at'[u] \in Inside <=> at[u] \in Inside
  BY <1>1 DEF ServersInv, ServersTypeOK, Inside
<1>4. AloneUnlessMet' /\ PointedAt'
  BY <1>1, <1>3, MoveLemma
<1>5. Exposed' = Exposed
  BY <1>1 DEF Exposed
<1>6. Owned' /\ HasBegun' /\ MixedOnlyByOverlap'
  <2>1. \A u \in Thread : at'[u] = "begun" => at[u] = "begun"
    BY <1>1 DEF ServersInv, ServersTypeOK
  <2> QED BY <1>1, <1>5, <2>1 DEF ServersInv, Owned, Mixed, HasBegun, MixedOnlyByOverlap
<1> QED BY <1>2, <1>4, <1>6 DEF ServersInv

\* Whoever enters finds the engine empty, or only threads of other servers, whom it
\* meets: the mutex keeps its colleagues out.
LEMMA EnterInv ==
    ASSUME ServersInv, ServersConstants, NEW t \in Thread, Enter(t)
    PROVE  ServersInv'
<1>1. /\ at[t] \in {"off", "idle"} /\ at' = [at EXCEPT ![t] = "entered"]
      /\ statements < MaxStatements /\ statements' = statements + 1
      /\ session' = IF t = Rest THEN [session EXCEPT ![t] = 0] ELSE session
      /\ t = Console => UNCHANGED <<current, prev>>
      /\ t # Console => current' = t /\ prev' = [prev EXCEPT ![t] = current]
      /\ UNCHANGED <<auto, nextTx, client, touched, stray>>
  BY DEF Enter
<1>2. met \subseteq met' /\ met' \subseteq Thread /\ Others(t) \subseteq met' /\ (Others(t) # {} => t \in met')
  <2>1. Strangers(t) = Others(t) /\ Others(t) \subseteq Thread
    BY DEF Enter, Strangers, Others, Colleagues, Excludes
  <2>2. met' = IF Others(t) = {} THEN met ELSE met \cup {t} \cup Others(t)
    BY <2>1 DEF Enter
  <2> QED BY <2>1, <2>2 DEF ServersInv, ServersTypeOK
<1>3. at[t] \notin Inside /\ Inside' = Inside
  BY <1>1 DEF Inside
<1>4. at' \in [Thread -> Inside \cup {"off", "idle"}] /\ at'[t] \in Inside
  BY <1>1 DEF ServersInv, ServersTypeOK, Inside
<1>5. ServersTypeOK'
  <2>1. current' \in Thread /\ prev' \in [Thread -> Thread]
    BY <1>1 DEF ServersInv, ServersTypeOK
  <2>2. session' \in [Thread -> 0..MaxTx] /\ statements' \in 0..MaxStatements
    BY <1>1 DEF ServersInv, ServersTypeOK, ServersConstants
  <2> QED BY <1>1, <1>2, <1>4, <2>1, <2>2 DEF ServersInv, ServersTypeOK
<1>6. \A u \in Thread : at'[u] \in Inside => u = t \/ u \in Others(t)
  BY <1>1 DEF ServersInv, ServersTypeOK, Others
<1>7. AloneUnlessMet'
  BY <1>2, <1>3, <1>6 DEF AloneUnlessMet
<1>8. current \in met' \cup {Console}
  <2>1. at[current] \in Inside => current \in Others(t)
    BY <1>3 DEF ServersInv, ServersTypeOK, Others
  <2> QED BY <1>2, <2>1 DEF ServersInv, PointedAt
<1>9. PointedAt'
  <2>1. ASSUME NEW u \in Thread, at'[u] \in Inside, u \notin met' \cup {Console}
        PROVE  current' = u
    BY <1>1, <1>2, <1>6, <2>1
  <2>2. ASSUME NEW u \in Thread \ {Console}, at'[u] \in Inside
        PROVE  prev'[u] \in met' \cup {Console}
    <3>1. CASE u # t
      <4>1. prev'[u] = prev[u] /\ at[u] \in Inside
        BY <1>1, <2>2, <3>1 DEF ServersInv, ServersTypeOK
      <4> QED BY <1>2, <4>1 DEF ServersInv, PointedAt
    <3>2. CASE u = t
      BY <1>1, <1>8, <2>2, <3>2 DEF ServersInv, ServersTypeOK
    <3> QED BY <2>2, <3>1, <3>2
  <2>3. current' \in met' \cup {Console} \/ at'[current'] \in Inside
    BY <1>1, <1>4, <1>8
  <2> QED BY <1>3, <2>1, <2>2, <2>3 DEF PointedAt
<1>10. Exposed \subseteq Exposed' /\ \A u, v : Mixed(u, v) => Mixed(u, v)'
  BY <1>2, ExposedGrows
<1>11. Owned' /\ HasBegun' /\ MixedOnlyByOverlap'
  <2>1. \A u \in Thread : session'[u] # 0 => session'[u] = session[u]
    BY <1>1 DEF ServersInv, ServersTypeOK
  <2>2. \A u \in Thread : at'[u] = "begun" => at[u] = "begun" /\ session'[u] = session[u]
    BY <1>1 DEF ServersInv, ServersTypeOK
  <2>3. Owned'
    BY <1>1, <1>10, <2>1 DEF ServersInv, Owned
  <2>4. HasBegun'
    BY <1>10, <2>2 DEF ServersInv, HasBegun
  <2> QED BY <1>1, <1>10, <2>3, <2>4 DEF ServersInv, MixedOnlyByOverlap
<1> QED BY <1>5, <1>7, <1>9, <1>11 DEF ServersInv

LEMMA BeginInv ==
    ASSUME ServersInv, ServersConstants, NEW t \in Thread, BeginStatement(t)
    PROVE  ServersInv'
<1>1. /\ at[t] = "entered" /\ at' = [at EXCEPT ![t] = "leaving"] /\ BeginsFor(t)
      /\ UNCHANGED auto
  BY DEF BeginStatement, Moves
<1>2. at[t] \in Inside /\ UNCHANGED <<current, prev, statements, touched, met>>
  BY <1>1 DEF Inside, BeginsFor
<1>3. AloneUnlessMet' /\ PointedAt' /\ at' \in [Thread -> Inside \cup {"off", "idle"}]
  BY <1>1, <1>2, StepsLemma DEF Steps, Inside
<1>4. /\ session' \in [Thread -> 0..MaxTx] /\ client' \in [TxIds -> Thread]
      /\ nextTx' \in 1..MaxTx+1 /\ stray' \subseteq Thread
      /\ session'[current] # 0
      /\ \A u \in Thread \ {current} : session'[u] = session[u]
      /\ Owned' /\ MixedOnlyByOverlap'
  BY <1>1, <1>2, BeginsLemma
<1>5. ServersTypeOK'
  BY <1>1, <1>2, <1>3, <1>4 DEF ServersInv, ServersTypeOK
<1>6. HasBegun'
  <2>1. at'[t] # "begun" /\ \A u \in Thread \ {t} : at'[u] = at[u]
    BY <1>1 DEF ServersInv, ServersTypeOK
  <2> QED BY <1>2, <1>4, <2>1, OthersHave
<1> QED BY <1>3, <1>4, <1>5, <1>6 DEF ServersInv

LEMMA EndInv ==
    ASSUME ServersInv, ServersConstants, NEW t \in Thread, EndStatement(t)
    PROVE  ServersInv'
<1>1. /\ at[t] = "entered" /\ at' = [at EXCEPT ![t] = "leaving"] /\ EndsFor(t)
      /\ UNCHANGED auto
  BY DEF EndStatement, Moves
<1>2. at[t] \in Inside /\ UNCHANGED <<current, prev, statements, met>>
  BY <1>1 DEF Inside, EndsFor
<1>3. AloneUnlessMet' /\ PointedAt' /\ at' \in [Thread -> Inside \cup {"off", "idle"}]
  BY <1>1, <1>2, StepsLemma DEF Steps, Inside
<1>4. /\ session' \in [Thread -> 0..MaxTx] /\ stray' \subseteq Thread
      /\ touched' \subseteq Thread \X TxIds
      /\ nextTx' = nextTx /\ client' = client
      /\ \A u \in Thread \ {current} : session'[u] = session[u]
      /\ Owned' /\ MixedOnlyByOverlap'
  BY <1>1, <1>2, EndsLemma
<1>5. ServersTypeOK'
  BY <1>1, <1>2, <1>3, <1>4 DEF ServersInv, ServersTypeOK
<1>6. HasBegun'
  <2>1. at'[t] # "begun" /\ \A u \in Thread \ {t} : at'[u] = at[u]
    BY <1>1 DEF ServersInv, ServersTypeOK
  <2> QED BY <1>2, <1>4, <2>1, OthersHave
<1> QED BY <1>3, <1>4, <1>5, <1>6 DEF ServersInv

LEMMA WriteBeginsInv ==
    ASSUME ServersInv, ServersConstants, NEW t \in Thread, WriteBegins(t)
    PROVE  ServersInv'
<1>1. /\ at[t] = "entered" /\ at' = [at EXCEPT ![t] = "begun"] /\ BeginsFor(t)
      /\ auto' = [auto EXCEPT ![t] = session[current] = 0]
  BY DEF WriteBegins, Moves
<1>2. at[t] \in Inside /\ UNCHANGED <<current, prev, statements, touched, met>>
  BY <1>1 DEF Inside, BeginsFor
<1>3. AloneUnlessMet' /\ PointedAt' /\ at' \in [Thread -> Inside \cup {"off", "idle"}]
  BY <1>1, <1>2, StepsLemma DEF Steps, Inside
<1>4. /\ session' \in [Thread -> 0..MaxTx] /\ client' \in [TxIds -> Thread]
      /\ nextTx' \in 1..MaxTx+1 /\ stray' \subseteq Thread
      /\ session'[current] # 0
      /\ \A u \in Thread \ {current} : session'[u] = session[u]
      /\ Owned' /\ MixedOnlyByOverlap'
  BY <1>1, <1>2, BeginsLemma
<1>5. auto' \in [Thread -> BOOLEAN]
  BY <1>1 DEF ServersInv, ServersTypeOK
<1>6. ServersTypeOK'
  BY <1>2, <1>3, <1>4, <1>5 DEF ServersInv, ServersTypeOK
<1>7. HasBegun'
  <2>1. \A u \in Thread \ {t} : at'[u] = at[u]
    BY <1>1 DEF ServersInv, ServersTypeOK
  <2>2. t \notin Exposed => session'[t] # 0
    BY <1>2, <1>4, WorksOn DEF Mixed
  <2> QED BY <1>2, <1>4, <2>1, <2>2, OthersHave
<1> QED BY <1>3, <1>4, <1>6, <1>7 DEF ServersInv

\* Unless it is exposed, the thread has a transaction to write in, and it is its own.
LEMMA WriteInv ==
    ASSUME ServersInv, NEW t \in Thread, Write(t)
    PROVE  ServersInv'
<1>1. /\ at[t] = "begun" /\ at' = [at EXCEPT ![t] = "written"] /\ Touches(t)
      /\ stray' = stray \cup {u \in {t} : Gone \/ session[current] = 0}
      /\ UNCHANGED <<session, auto, current, prev, nextTx, statements, client, met>>
  BY DEF Write, Moves, engineVars
<1>2. at[t] \in Inside /\ Exposed' = Exposed
  BY <1>1 DEF Inside, Exposed
<1>3. AloneUnlessMet' /\ PointedAt' /\ at' \in [Thread -> Inside \cup {"off", "idle"}]
  BY <1>1, <1>2, StepsLemma DEF Steps, Inside
<1>4. session[current] = 0 => t \in Exposed
  BY <1>1, <1>2, WorksOn DEF ServersInv, HasBegun, Mixed
<1>5. stray' \subseteq Thread /\ stray' \subseteq Exposed
  BY <1>1, <1>2, <1>4, NotGone DEF ServersInv, ServersTypeOK, MixedOnlyByOverlap
<1>6. /\ touched' \subseteq Thread \X TxIds
      /\ \A e \in touched' : e[2] < nextTx'
      /\ MixedOnlyByOverlap'
  BY <1>1, <1>2, <1>5, TouchesLemma
<1>7. ServersTypeOK'
  BY <1>1, <1>3, <1>5, <1>6 DEF ServersInv, ServersTypeOK
<1>8. Owned'
  BY <1>1, <1>2, <1>6 DEF ServersInv, Owned, Mixed
<1>9. HasBegun'
  <2>1. at'[t] # "begun" /\ \A u \in Thread \ {t} : at'[u] = at[u]
    BY <1>1 DEF ServersInv, ServersTypeOK
  <2> QED BY <1>1, <1>2, <2>1, OthersHave
<1> QED BY <1>3, <1>6, <1>7, <1>8, <1>9 DEF ServersInv

LEMMA WriteEndsInv ==
    ASSUME ServersInv, ServersConstants, NEW t \in Thread, WriteEnds(t)
    PROVE  ServersInv'
<1>1. /\ at[t] = "written" /\ at' = [at EXCEPT ![t] = "leaving"] /\ UNCHANGED auto
      /\ \/ EndsFor(t)
         \/ UNCHANGED <<session, current, prev, nextTx, statements, client, touched, stray, met>>
  BY DEF WriteEnds, Moves, historyVars
<1>2. at[t] \in Inside /\ UNCHANGED <<current, prev, statements, met>> /\ Exposed' = Exposed
  BY <1>1 DEF Inside, EndsFor, Exposed
<1>3. AloneUnlessMet' /\ PointedAt' /\ at' \in [Thread -> Inside \cup {"off", "idle"}]
  BY <1>1, <1>2, StepsLemma DEF Steps, Inside
<1>4. /\ session' \in [Thread -> 0..MaxTx] /\ stray' \subseteq Thread
      /\ touched' \subseteq Thread \X TxIds
      /\ nextTx' = nextTx /\ client' = client
      /\ \A u \in Thread \ {current} : session'[u] = session[u]
      /\ Owned' /\ MixedOnlyByOverlap'
  <2>1. CASE EndsFor(t)
    BY <1>2, <2>1, EndsLemma
  <2>2. CASE UNCHANGED <<session, nextTx, client, touched, stray>>
    BY <1>2, <2>2 DEF ServersInv, ServersTypeOK, Owned, Mixed, MixedOnlyByOverlap
  <2> QED BY <1>1, <2>1, <2>2
<1>5. ServersTypeOK'
  BY <1>1, <1>2, <1>3, <1>4 DEF ServersInv, ServersTypeOK
<1>6. HasBegun'
  <2>1. at'[t] # "begun" /\ \A u \in Thread \ {t} : at'[u] = at[u]
    BY <1>1 DEF ServersInv, ServersTypeOK
  <2> QED BY <1>2, <1>4, <2>1, OthersHave
<1> QED BY <1>3, <1>4, <1>5, <1>6 DEF ServersInv

\* sess_ goes back to where the thread found it: to the console's session, or to one
\* of a thread that has met another.
LEMMA LeaveInv ==
    ASSUME ServersInv, ServersConstants, NEW t \in Thread, Leave(t)
    PROVE  ServersInv'
<1>1. /\ at[t] = "leaving" /\ current' = Restored(t)
      /\ at' = [at EXCEPT ![t] = IF t = Rest THEN "off" ELSE "idle"]
      /\ prev' = [prev EXCEPT ![t] = Console]
      /\ auto' = [auto EXCEPT ![t] = FALSE]
      /\ UNCHANGED <<session, nextTx, statements, client, touched, stray, met>>
  BY DEF Leave, Moves, historyVars
<1>2. at[t] \in Inside /\ Inside' = Inside /\ Exposed' = Exposed /\ Console \in Thread
  BY <1>1 DEF Inside, Exposed, Thread
<1>3. \A u \in Thread : at'[u] \in Inside => u # t /\ at[u] \in Inside
  BY <1>1 DEF ServersInv, ServersTypeOK, Inside
<1>4. ServersTypeOK'
  <2>1. at' \in [Thread -> Inside \cup {"off", "idle"}]
    BY <1>1 DEF ServersInv, ServersTypeOK
  <2>2. auto' \in [Thread -> BOOLEAN]
    BY <1>1 DEF ServersInv, ServersTypeOK
  <2>3. current' \in Thread /\ prev' \in [Thread -> Thread]
    BY <1>1, <1>2 DEF ServersInv, ServersTypeOK, Restored
  <2> QED BY <1>1, <2>1, <2>2, <2>3 DEF ServersInv, ServersTypeOK
<1>5. \A u \in Thread : at'[u] \in Inside => u \in met
  BY <1>2, <1>3 DEF ServersInv, AloneUnlessMet
<1>6. AloneUnlessMet'
  BY <1>1, <1>2, <1>5 DEF AloneUnlessMet
<1>7. PointedAt'
  <2>1. \A u \in Thread \ {Console} : at'[u] \in Inside => prev'[u] \in met \cup {Console}
    BY <1>1, <1>3 DEF ServersInv, ServersTypeOK, PointedAt
  <2>2. current' \in met \cup {Console} \/ at'[current'] \in Inside
    <3>1. CASE t # Console
      BY <1>1, <1>2, <3>1 DEF ServersInv, PointedAt, Restored
    <3>2. CASE t = Console
      <4>1. current' = current /\ (current # t => at'[current] = at[current])
        BY <1>1, <3>2 DEF ServersInv, ServersTypeOK, Restored
      <4> QED BY <3>2, <4>1 DEF ServersInv, PointedAt
    <3> QED BY <3>1, <3>2
  <2> QED BY <1>1, <1>2, <1>5, <2>1, <2>2 DEF PointedAt
<1>8. Owned' /\ HasBegun' /\ MixedOnlyByOverlap'
  <2>1. \A u \in Thread : at'[u] = "begun" => at[u] = "begun"
    BY <1>1 DEF ServersInv, ServersTypeOK
  <2> QED BY <1>1, <1>2, <2>1 DEF ServersInv, Owned, Mixed, HasBegun, MixedOnlyByOverlap
<1> QED BY <1>4, <1>6, <1>7, <1>8 DEF ServersInv

LEMMA NextInv == ServersConstants /\ ServersInv /\ [ServersNext]_serversVars => ServersInv'
<1> SUFFICES ASSUME ServersConstants, ServersInv, [ServersNext]_serversVars PROVE ServersInv'
  OBVIOUS
<1>1. ASSUME NEW t \in Thread,
             \/ Connect(t) \/ Disconnect(t) \/ Enter(t) \/ BeginStatement(t) \/ EndStatement(t)
             \/ WriteBegins(t) \/ Write(t) \/ WriteEnds(t) \/ Leave(t)
      PROVE  ServersInv'
  BY <1>1, ConnectInv, DisconnectInv, EnterInv, BeginInv, EndInv, WriteBeginsInv, WriteInv,
     WriteEndsInv, LeaveInv
<1>2. ASSUME UNCHANGED serversVars PROVE ServersInv'
  <2>1. /\ UNCHANGED <<at, session, auto, current, prev, nextTx, statements>>
        /\ UNCHANGED <<client, touched, stray, met>> /\ Exposed' = Exposed
    BY <1>2 DEF serversVars, engineVars, historyVars, Exposed
  <2> QED BY <2>1 DEF ServersInv, ServersTypeOK, AloneUnlessMet, PointedAt, Owned, Mixed,
                      HasBegun, MixedOnlyByOverlap
<1> QED BY <1>1, <1>2 DEF ServersNext

\* MixedOnlyByOverlap for any number of connections, whatever overlaps: a client whose
\* statements never were in the engine with one of another server works in its own
\* transactions, and nobody else in those (pgwire.cpp:244, engine.cpp:674-683).
THEOREM SpecMixedOnlyByOverlap ==
    ASSUME ServersConstants
    PROVE  ServersSpec => []MixedOnlyByOverlap
<1>1. ServersInit => ServersInv
  BY InitInv
<1>2. ServersInv /\ [ServersNext]_serversVars => ServersInv'
  BY NextInv
<1>3. ServersInv => MixedOnlyByOverlap
  BY DEF ServersInv
<1> QED BY <1>1, <1>2, <1>3, PTL DEF ServersSpec
=============================================================================
