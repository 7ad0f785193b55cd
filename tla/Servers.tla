------------------------------- MODULE Servers -------------------------------
(***************************************************************************)
(* Who runs statements on the one engine: the threads of the wire protocol *)
(* server (src/src/pgwire.cpp), one for each connection; the one thread of *)
(* the REST server (src/src/http_server.cpp); the console of               *)
(* src/src/server_main.cpp.  Engine::execute points sess_ at the session   *)
(* of the statement, and every step of the statement goes by sess_.  A     *)
(* SELECT over the wire goes by no session at all: it reads every tuple    *)
(* on the heap, and changes nothing.                                       *)
(***************************************************************************)
EXTENDS Naturals

CONSTANTS
    Wire,           \* threads of the wire protocol server
    Rest, Console,  \* the other two
    MaxTx,          \* bound: transactions
    MaxStatements   \* bound: statements

ServersConstants ==
    /\ Rest \notin Wire \cup {Console} /\ Console \notin Wire
    /\ {MaxTx, MaxStatements} \subseteq Nat

Thread == Wire \cup {Rest, Console}
TxIds  == 1..MaxTx
Inside == {"entered", "begun", "written", "leaving"}

VARIABLES
    at,         \* where each thread is
    auto,       \* autocommit, of the statement
    session,    \* current_tx of the thread's session; the console's is the default session
    current,    \* sess_
    prev,       \* prev of Engine::execute
    nextTx,     \* next transaction id
    statements, \* statements so far
    client,     \* the thread that began each transaction
    touched,    \* which threads have written in or ended which transaction
    stray,      \* threads that have gone by a session that was gone, or by what an
                \* emptied current_tx had left: there is no telling what they did
    met         \* threads that were in the engine together with one of another server

engineVars  == <<auto, current, prev, nextTx, statements>>
historyVars == <<client, touched, stray, met>>
serversVars == <<at, session, engineVars, historyVars>>

ServersInit ==
    /\ at = [t \in Thread |-> IF t = Console THEN "idle" ELSE "off"]
    /\ auto = [t \in Thread |-> FALSE]
    /\ session = [t \in Thread |-> 0]
    /\ current = Console
    /\ prev = [t \in Thread |-> Console]
    /\ nextTx = 1 /\ statements = 0
    /\ client = [x \in TxIds |-> Console]
    /\ touched = {} /\ stray = {} /\ met = {}

\* A connection is accepted and greeted: new_session.
Connect(t) ==
    /\ t \in Wire /\ at[t] = "off"
    /\ at' = [at EXCEPT ![t] = "idle"]
    /\ session' = [session EXCEPT ![t] = 0]
    /\ UNCHANGED <<engineVars, historyVars>>

\* Terminate, or a broken connection: nobody ends the session's transaction.
Disconnect(t) ==
    /\ t \in Wire /\ at[t] = "idle"
    /\ at' = [at EXCEPT ![t] = "off"]
    /\ UNCHANGED <<session, engineVars, historyVars>>

\* The threads of the same server.
Colleagues(t) == IF t \in Wire THEN Wire ELSE {}

\* Whom the thread's mutex keeps out: each server has its own, the console none.
Excludes(t) == IF t \in Wire THEN Wire ELSE {}

Others(t)    == {u \in Thread \ {t} : at[u] \in Inside}
Strangers(t) == Others(t) \ Colleagues(t)

\* A statement has arrived: the mutex is taken, and sess_ set.  A REST request gets
\* a session of its own; the console goes by sess_ as it is.
Enter(t) ==
    /\ at[t] = IF t = Rest THEN "off" ELSE "idle"
    /\ Others(t) \cap Excludes(t) = {}
    /\ statements < MaxStatements /\ statements' = statements + 1
    /\ at' = [at EXCEPT ![t] = "entered"]
    /\ session' = IF t = Rest THEN [session EXCEPT ![t] = 0] ELSE session
    /\ IF t = Console THEN UNCHANGED <<current, prev>>
       ELSE current' = t /\ prev' = [prev EXCEPT ![t] = current]
    /\ met' = IF Strangers(t) = {} THEN met ELSE met \cup {t} \cup Strangers(t)
    /\ UNCHANGED <<auto, nextTx, client, touched, stray>>

\* The session that sess_ points at has gone with its connection or its request.
Gone == at[current] = "off"

Moves(t, from, to) == at[t] = from /\ at' = [at EXCEPT ![t] = to]

\* begin_transaction, unless sess_ has one.
BeginsFor(t) ==
    /\ IF session[current] # 0 THEN UNCHANGED <<session, nextTx, client>>
       ELSE /\ nextTx \in TxIds
            /\ session' = [session EXCEPT ![current] = nextTx]
            /\ client' = [client EXCEPT ![nextTx] = t]
            /\ nextTx' = nextTx + 1
    /\ stray' = stray \cup {u \in {t} : Gone}
    /\ UNCHANGED <<current, prev, statements, touched, met>>

\* t works in the transaction that sess_ has, if it has one.
Touches(t) == touched' = touched \cup {<<t, x>> : x \in {session[current]} \ {0}}

\* commit_transaction or rollback_transaction of what sess_ has.
EndsFor(t) ==
    /\ Touches(t)
    /\ session' = [session EXCEPT ![current] = 0]
    /\ stray' = stray \cup {u \in {t} : Gone}
    /\ UNCHANGED <<current, prev, nextTx, statements, client, met>>

BeginStatement(t) == Moves(t, "entered", "leaving") /\ BeginsFor(t) /\ UNCHANGED auto

EndStatement(t) == Moves(t, "entered", "leaving") /\ EndsFor(t) /\ UNCHANGED auto

\* INSERT or UPDATE: begin one if there is none, write, end it if there was none.
WriteBegins(t) ==
    /\ Moves(t, "entered", "begun")
    /\ auto' = [auto EXCEPT ![t] = session[current] = 0]
    /\ BeginsFor(t)

\* *sess_->current_tx, which another thread may have emptied.
Write(t) ==
    /\ Moves(t, "begun", "written")
    /\ Touches(t)
    /\ stray' = stray \cup {u \in {t} : Gone \/ session[current] = 0}
    /\ UNCHANGED <<session, engineVars, client, met>>

WriteEnds(t) ==
    /\ Moves(t, "written", "leaving")
    /\ IF auto[t] THEN EndsFor(t)
       ELSE UNCHANGED <<session, current, prev, nextTx, statements, historyVars>>
    /\ UNCHANGED auto

\* Mutant of Restored: sess_ stays.
RestoredNever(t) == current

\* sess_ = prev.
Restored(t) == IF t = Console THEN current ELSE prev[t]

\* The mutex is given back, the answer sent; a REST session is dropped, and what
\* the statement had of its own.
Leave(t) ==
    /\ Moves(t, "leaving", IF t = Rest THEN "off" ELSE "idle")
    /\ current' = Restored(t)
    /\ prev' = [prev EXCEPT ![t] = Console]
    /\ auto' = [auto EXCEPT ![t] = FALSE]
    /\ UNCHANGED <<session, nextTx, statements, historyVars>>

ServersNext == \E t \in Thread :
    \/ Connect(t) \/ Disconnect(t)
    \/ Enter(t) \/ BeginStatement(t) \/ EndStatement(t)
    \/ WriteBegins(t) \/ Write(t) \/ WriteEnds(t)
    \/ Leave(t)

ServersSpec == ServersInit /\ [][ServersNext]_serversVars

----------------------------------------------------------------------------
(* Properties. *)

ServersTypeOK ==
    /\ at \in [Thread -> Inside \cup {"off", "idle"}]
    /\ auto \in [Thread -> BOOLEAN]
    /\ session \in [Thread -> 0..MaxTx]
    /\ current \in Thread /\ prev \in [Thread -> Thread]
    /\ nextTx \in 1..MaxTx+1 /\ statements \in 0..MaxStatements
    /\ client \in [TxIds -> Thread]
    /\ touched \subseteq Thread \X TxIds
    /\ stray \subseteq Thread /\ met \subseteq Thread

\* A transaction belongs to one client alone: nobody else writes in it or ends it
\* (session.h:14-18, pgwire.cpp:143-145, engine.cpp:671-673).  Two servers in the
\* engine at once break this.
OneClientEach == \A e \in touched : client[e[2]] = e[1]

\* Whom overlapping statements expose: the threads of those, and the console, for
\* which sess_ may stay on one of their sessions.
Exposed == IF met = {} THEN {} ELSE met \cup {Console}

\* Nobody else is exposed to it: a client whose statements never were in the engine
\* with one of another server works in its own transactions, and no other thread
\* writes in those or ends them; the mutex of a server and what sess_ is restored to
\* see to that (pgwire.cpp:244, engine.cpp:674-683).
MixedOnlyByOverlap ==
    /\ stray \subseteq Exposed
    /\ \A e \in touched : client[e[2]] # e[1] => {e[1], client[e[2]]} \subseteq Exposed
=============================================================================
