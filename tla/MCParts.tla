------------------------------- MODULE MCParts -------------------------------
(***************************************************************************)
(* The parts of the engine that have modules of their own beside Recovery  *)
(* and LockManager, for TLC.  A behaviour picks one part and runs it; the  *)
(* others stay where they begin.                                           *)
(***************************************************************************)
EXTENDS Mvcc, BufferPool, CommitLog, FreeSpaceMap, DiskBTree, Toast, Servers, TLC

CONSTANT Keeper     \* a client of the pool that pins one page and keeps it

VARIABLES
    part,                                           \* the part that runs
    plan, planRows, planPhase,
    objChunks, objVersions, objUploads

Ordinary == {}

\* Sessions, which are clients of the pool and the connections too, and keys are alike.
Alike == Permutations(Session) \cup Permutations(Key)

----------------------------------------------------------------------------
(* Instances. *)

\* Two pages, of at most two line pointers and at most one; every row has two index entries.
NoRow       == [id |-> 0, key |-> 0]
RowAt(i, k) == IF k = 0 THEN NoRow ELSE [id |-> i, key |-> k]
Contents(m) == UNION {[1..n -> 0..2] : n \in 0..m}
TableOf(a, b) ==
    LET left  == [i \in DOMAIN a |-> RowAt(i, a[i])]
        right == [i \in DOMAIN b |-> RowAt(i + 2, b[i])]
        under(k) == [i \in DOMAIN (a \o b) |->
                        IF (left \o right)[i].key = k THEN (left \o right)[i] ELSE NoRow]
    IN [pages |-> <<left, right>>, entries |-> [k \in 1..2 |-> under(k) \o under(k)]]

Exec == INSTANCE Executor WITH
    Tables <- {TableOf(a, b) : a \in Contents(2), b \in Contents(1)}, Keys <- {1, 2}, Counts <- {1, 2, 9},
    Offsets <- {0, 1},
    rows <- planRows, phase <- planPhase

Objects == INSTANCE ObjectStore WITH
    Object <- {"o"}, Parts <- {1, 2}, Data <- {<<>>, <<1, 2, 3>>, <<4>>}, Capacity <- 2,
    MaxChunks <- 4, MaxUploads <- 2, MaxVersions <- 2,
    chunks <- objChunks, versions <- objVersions, uploads <- objUploads

ASSUME PartConstants ==
    /\ ServersConstants
    /\ Objects!ObjectStoreConstants

----------------------------------------------------------------------------
planVars  == <<plan, planRows, planPhase>>
objVars   == <<objChunks, objVersions, objUploads>>

PartsInit ==
    /\ part \in {"mvcc", "pool", "clog", "tree", "toast", "map", "plan", "objects", "servers"}
    /\ Init
    /\ PoolInit /\ (part = "pool" \/ size = 0)
    /\ ClogInit /\ ServersInit
    /\ TreeInit /\ ToastInit /\ MapInit
    /\ IF part = "plan" THEN Exec!Init
                        ELSE plan = "none" /\ planRows = <<>> /\ planPhase = "done"
    /\ Objects!Init

\* A step is one of the part that runs.
OthersKeep ==
    /\ UNCHANGED part
    /\ IF part = "mvcc"    THEN TRUE ELSE UNCHANGED vars
    /\ IF part = "pool"    THEN TRUE ELSE UNCHANGED poolVars
    /\ IF part = "clog"    THEN TRUE ELSE UNCHANGED clogVars
    /\ IF part = "tree"    THEN TRUE ELSE UNCHANGED treeVars
    /\ IF part = "toast"   THEN TRUE ELSE UNCHANGED toastVars
    /\ IF part = "map"     THEN TRUE ELSE UNCHANGED mapVars
    /\ IF part = "plan"    THEN TRUE ELSE UNCHANGED planVars
    /\ IF part = "objects" THEN TRUE ELSE UNCHANGED objVars
    /\ IF part = "servers" THEN TRUE ELSE UNCHANGED serversVars

\* Bound: the keeper pins page 0 before all others, or nothing, and never lets go.  The other
\* two pin what they like, and find no victim once one of them has the other frame.
KeeperKeeps ==
    handle'[Keeper] # handle[Keeper] => Len(free) = Frames /\ handle'[Keeper].page = 0

RunMvcc    == part = "mvcc" /\ Next /\ OthersKeep
RunPool    == part = "pool" /\ PoolNext /\ KeeperKeeps /\ OthersKeep
RunClog    == part = "clog" /\ ClogNext /\ OthersKeep
RunTree    == part = "tree" /\ TreeNext /\ OthersKeep
RunToast   == part = "toast" /\ ToastNext /\ OthersKeep
RunMap     == part = "map" /\ MapNext /\ OthersKeep
RunPlan    == part = "plan" /\ Exec!Next /\ OthersKeep
RunObjects == part = "objects" /\ Objects!Next /\ OthersKeep
RunServers == part = "servers" /\ ServersNext /\ OthersKeep

PartsNext ==
    \/ RunMvcc \/ RunPool \/ RunClog \/ RunTree
    \/ RunToast \/ RunMap \/ RunPlan \/ RunObjects \/ RunServers

PartsSpec == PartsInit /\ [][PartsNext]_<<part, vars, poolVars, clogVars, treeVars, toastVars,
                                          mapVars, planVars, objVars, serversVars>>

----------------------------------------------------------------------------
(* Properties.  Those of the modules extended are checked under their own names. *)

\* Every part's variables keep their types.
TypesOK ==
    CASE part = "mvcc"    -> TypeOK
      [] part = "pool"    -> PoolTypeOK
      [] part = "clog"    -> ClogTypeOK
      [] part = "tree"    -> TreeTypeOK
      [] part = "toast"   -> ToastTypeOK
      [] part = "map"     -> MapTypeOK
      [] part = "plan"    -> Exec!TypeOK
      [] part = "objects" -> Objects!TypeOK
      [] part = "servers" -> ServersTypeOK

\* Executor: a plan gives the rows of its relational expression, in order
\* (executor.cpp:454-463).
AnswersQuery == part = "plan" => Exec!AnswersQuery

\* Executor: no page is pinned once a plan is closed (executor.h:68, 91, 165).
PinsReleased == part = "plan" => Exec!PinsReleased

\* ObjectStore: any range of an object reads as its parts were sent
\* (multipart.h:43-46, 48-49).
RangesReadBack == part = "objects" => Objects!RangesReadBack
=============================================================================
