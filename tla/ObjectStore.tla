----------------------------- MODULE ObjectStore -----------------------------
(***************************************************************************)
(* The S3 storage of src/src/s3: chunks appended to a file, the index of   *)
(* object versions and their extents, and multipart uploads between them.  *)
(* Each operation holds its manager's mutex from end to end.  Chunks and   *)
(* uploads are numbered from 1 here.                                       *)
(***************************************************************************)
EXTENDS Naturals, SequencesExt, FiniteSetsExt

CONSTANTS
    Object,     \* bucket and key
    Parts,      \* part numbers
    Data,       \* what a part may hold: sequences of bytes
    Capacity,   \* chunk_payload_size_
    MaxChunks,  \* bound: chunks in the file
    MaxUploads, \* bound: uploads initiated
    MaxVersions \* bound: versions of an object

ObjectStoreConstants ==
    /\ Parts \subseteq Nat \ {0} /\ Capacity \in Nat \ {0}
    /\ MaxChunks \in Nat /\ MaxUploads \in Nat /\ MaxVersions \in Nat

VARIABLES
    chunks,     \* the slots of the file
    versions,   \* objects_: the versions of every object, by version id
    uploads     \* sessions_, finished ones included

vars == <<chunks, versions, uploads>>

Tombstone == [tombstone |-> TRUE, size |-> 0, extents |-> <<>>, content |-> <<>>]
Over      == [active |-> FALSE]

Init ==
    /\ chunks = <<>>
    /\ versions = [o \in Object |-> <<>>]
    /\ uploads = <<>>

\* Slices of data, at most a chunk long, one if there is nothing to slice.
Slices(data) ==
    LET n == IF data = <<>> THEN 1 ELSE (Len(data) + Capacity - 1) \div Capacity
    IN [i \in 1..n |-> SubSeq(data, (i - 1) * Capacity + 1, Min({i * Capacity, Len(data)}))]

\* append_chunk, for one slice after the other, and mark_tombstone.
Appended(slices) == chunks \o [i \in DOMAIN slices |-> [data |-> slices[i], tombstone |-> FALSE]]
Tombstoned(ids)  ==
    [i \in DOMAIN chunks |-> IF i \in ids THEN [chunks[i] EXCEPT !.tombstone = TRUE] ELSE chunks[i]]

Initiate(o) ==
    /\ Len(uploads) < MaxUploads
    /\ uploads' = Append(uploads, [active |-> TRUE, object |-> o, parts |-> <<>>])
    /\ UNCHANGED <<chunks, versions>>

Active(u) == u \in DOMAIN uploads /\ uploads[u].active
Numbers(u) == {uploads[u].parts[i].number : i \in DOMAIN uploads[u].parts}
PartOf(u, n) == CHOOSE p \in ToSet(uploads[u].parts) : p.number = n

\* upload_part: its slices are appended; a part uploaded again replaces the first,
\* whose chunks stay.
UploadPart(u, n, data) ==
    LET slices == Slices(data)
        part   == [number  |-> n,
                   data    |-> data,
                   extents |-> [i \in DOMAIN slices |->
                       [chunk |-> Len(chunks) + i, offset |-> 0, length |-> Len(slices[i])]]]
    IN /\ Active(u)
       /\ Len(chunks) + Len(slices) <= MaxChunks
       /\ chunks' = Appended(slices)
       /\ uploads' = [uploads EXCEPT ![u].parts =
                         Append(SelectSeq(@, LAMBDA p : p.number # n), part)]
       /\ UNCHANGED versions

\* Parts by number, as the caller must list them.
Ordered(u, ns) ==
    LET seq == SetToSortSeq(ns, LAMBDA m, n : m < n)
    IN [i \in DOMAIN seq |-> PartOf(u, seq[i])]

\* complete_upload, of the parts listed; put_object gives the object its next version.
Complete(u, ns) ==
    /\ Active(u)
    /\ ns # {} /\ ns \subseteq Numbers(u)
    /\ Len(versions[uploads[u].object]) < MaxVersions
    /\ LET parts   == Ordered(u, ns)
           extents == FoldLeft(LAMBDA es, p : es \o p.extents, <<>>, parts)
           sent    == FoldLeft(LAMBDA bs, n : bs \o PartOf(u, n).data, <<>>,
                               SetToSortSeq(ns, LAMBDA m, n : m < n))
       IN versions' = [versions EXCEPT ![uploads[u].object] = Append(@,
              [tombstone |-> FALSE,
               size      |-> FoldLeft(LAMBDA n, p : n + Len(p.data), 0, parts),
               extents   |-> extents,
               content   |-> sent])]
    /\ uploads' = [uploads EXCEPT ![u] = Over]
    /\ UNCHANGED chunks

\* The chunks of the parts a session has.
Freed(u) ==
    UNION {{e.chunk : e \in ToSet(p.extents)} : p \in ToSet(uploads[u].parts)}

Abort(u) ==
    /\ Active(u)
    /\ chunks' = Tombstoned(Freed(u))
    /\ uploads' = [uploads EXCEPT ![u] = Over]
    /\ UNCHANGED versions

\* delete_object, soft: a version that says so.  Hard: all versions go, no chunk does.
SoftDelete(o) ==
    /\ versions[o] # <<>> /\ Len(versions[o]) < MaxVersions
    /\ versions' = [versions EXCEPT ![o] = Append(@, Tombstone)]
    /\ UNCHANGED <<chunks, uploads>>

HardDelete(o) ==
    /\ versions[o] # <<>>
    /\ versions' = [versions EXCEPT ![o] = <<>>]
    /\ UNCHANGED <<chunks, uploads>>

\* The process starts anew: the file is all that is left.
Restart ==
    /\ versions' = [o \in Object |-> <<>>]
    /\ uploads' = [u \in DOMAIN uploads |-> Over]
    /\ UNCHANGED chunks

Next ==
    \/ \E o \in Object : Initiate(o) \/ SoftDelete(o) \/ HardDelete(o)
    \/ \E u \in 1..MaxUploads :
          \/ \E n \in Parts, data \in Data : UploadPart(u, n, data)
          \/ \E ns \in SUBSET Parts : Complete(u, ns)
          \/ Abort(u)
    \/ Restart

Spec == Init /\ [][Next]_vars

----------------------------------------------------------------------------
(* Reads. *)

\* Mutant of Slice: every slice begins with its extent.
SliceFromStart(e, at, from, to) ==
    [chunk |-> e.chunk, offset |-> e.offset, length |-> Min({to, at + e.length}) - Max({from, at})]

\* The part of extent e, at byte at of the object, in the range.
Slice(e, at, from, to) ==
    [chunk  |-> e.chunk,
     offset |-> e.offset + Max({from, at}) - at,
     length |-> Min({to, at + e.length}) - Max({from, at})]

\* resolve_range: bytes from..to-1 of a version, as slices of chunks.
ResolveRange(v, from, len) ==
    LET to == Min({from + len, v.size})
        at[i \in 1..(Len(v.extents) + 1)] ==
            IF i = 1 THEN 0 ELSE at[i - 1] + v.extents[i - 1].length
        hit(i) == to > at[i] /\ from < at[i + 1]
        is == SelectSeq([i \in DOMAIN v.extents |-> i], hit)
    IN IF from >= v.size \/ len = 0 THEN <<>>
       ELSE [j \in DOMAIN is |-> Slice(v.extents[is[j]], at[is[j]], from, to)]

\* What the slices hold.
Read(slices) ==
    FoldLeft(LAMBDA bs, s : bs \o SubSeq(chunks[s.chunk].data, s.offset + 1, s.offset + s.length),
             <<>>, slices)

----------------------------------------------------------------------------
(* Properties. *)

Live  == UNION {{v \in ToSet(versions[o]) : ~v.tombstone} : o \in Object}
Bytes == Max({0} \cup {v.size : v \in Live})

TypeOK ==
    /\ \A i \in DOMAIN chunks : Len(chunks[i].data) <= Capacity /\ chunks[i].tombstone \in BOOLEAN
    /\ Len(chunks) <= MaxChunks /\ Len(uploads) <= MaxUploads
    /\ \A o \in Object : Len(versions[o]) <= MaxVersions
    /\ \A u \in DOMAIN uploads : uploads[u].active \in BOOLEAN

\* Any range of any version that is there reads as its parts were sent, in the order
\* of their numbers, in whatever order they came, were sent again, left out or
\* aborted elsewhere, and from chunks no abort has freed (multipart.h:43-46, 48-49).
RangesReadBack ==
    \A v \in Live : \A from, len \in 0..Bytes :
        LET slices == ResolveRange(v, from, len) IN
        /\ Read(slices) = SubSeq(v.content, from + 1, Min({from + len, Len(v.content)}))
        /\ \A i \in DOMAIN slices : ~chunks[slices[i].chunk].tombstone
=============================================================================
