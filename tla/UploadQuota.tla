---------------------------- MODULE UploadQuota -----------------------------
(***************************************************************************)
(* The quota on the uploads that one participant has not attached yet      *)
(* (_create_pending_attachment in services/media_uploads.py).  Workers     *)
(* that initiate an upload wait for the row lock of the participant, count *)
(* the outstanding uploads and insert the new row, while other requests    *)
(* attach uploads, take them down from the diary and clean them up without *)
(* that lock.  Participants share no state here, so one is modelled.       *)
(***************************************************************************)
EXTENDS Naturals, FiniteSets, FiniteSetsExt

CONSTANTS
    Workers,
    Uploads,   \* uploads ever initiated by the participant
    Size,      \* expected_size of each
    MaxCount,  \* MAX_OUTSTANDING_UPLOADS_PER_PARTICIPANT
    MaxBytes,  \* MAX_OUTSTANDING_UPLOAD_BYTES_PER_PARTICIPANT
    None       \* no worker, no upload

ASSUME UploadQuotaAssumption ==
    /\ Size \in [Uploads -> Nat]
    /\ MaxCount \in Nat /\ MaxBytes \in Nat
    /\ None \notin Workers \cup Uploads

VARIABLES
    row,      \* the MediaAttachment rows: "open" is any status before ATTACHED,
              \* "retired" is DELETING after an entry showed the file
    rowLock,  \* who holds the row lock of the participant
    request   \* the initiation each worker is in, and its upload

vars == <<row, rowLock, request>>

NoRequest == [at |-> "idle", upload |-> None]

TypeOK ==
    /\ row \in [Uploads -> {"absent", "open", "attached", "retired", "gone"}]
    /\ rowLock \in Workers \cup {None}
    /\ request \in [Workers -> [at : {"idle", "lock", "count", "insert"},
                                upload : Uploads \cup {None}]]

Init ==
    /\ row = [u \in Uploads |-> "absent"]
    /\ rowLock = None
    /\ request = [w \in Workers |-> NoRequest]

Open        == {u \in Uploads : row[u] = "open"}
Outstanding == {u \in Uploads : row[u] \in {"open", "retired"}}
Bytes(S)    == MapThenSumSet(LAMBDA u : Size[u], S)

Becomes(w, r) == request' = [request EXCEPT ![w] = r]
Release(w)    == rowLock' = IF rowLock = w THEN None ELSE rowLock

-----------------------------------------------------------------------------
\* Upload ids are fresh uuids.
Initiate(w, u) ==
    /\ request[w].at = "idle"
    /\ row[u] = "absent" /\ \A v \in Workers : request[v].upload # u
    /\ Becomes(w, [at |-> "lock", upload |-> u])
    /\ UNCHANGED <<row, rowLock>>

\* Mutant: get() instead of select_for_update().get().
LockParticipantUnlocked(w) ==
    /\ request[w].at = "lock"
    /\ Becomes(w, [request[w] EXCEPT !.at = "count"])
    /\ UNCHANGED <<row, rowLock>>

LockParticipant(w) ==
    /\ request[w].at = "lock"
    /\ rowLock = None
    /\ rowLock' = w
    /\ Becomes(w, [request[w] EXCEPT !.at = "count"])
    /\ UNCHANGED row

\* Mutant: the new upload is left out of the sum.
FitsBefore(u) ==
    /\ Cardinality(Outstanding) < MaxCount
    /\ Bytes(Outstanding) <= MaxBytes

Fits(u) ==
    /\ Cardinality(Outstanding) < MaxCount
    /\ Bytes(Outstanding) + Size[u] <= MaxBytes

Count(w) ==
    /\ request[w].at = "count"
    /\ Fits(request[w].upload)
    /\ Becomes(w, [request[w] EXCEPT !.at = "insert"])
    /\ UNCHANGED <<row, rowLock>>

Refuse(w) ==
    /\ request[w].at = "count"
    /\ ~Fits(request[w].upload)
    /\ Becomes(w, NoRequest)
    /\ Release(w)
    /\ UNCHANGED row

\* The row is inserted and the transaction commits.
Insert(w) ==
    /\ request[w].at = "insert"
    /\ row' = [row EXCEPT ![request[w].upload] = "open"]
    /\ Becomes(w, NoRequest)
    /\ Release(w)

\* The worker is killed, or a statement fails.
Crash(w) ==
    /\ request[w].at # "idle"
    /\ Becomes(w, NoRequest)
    /\ Release(w)
    /\ UNCHANGED row

\* The other lives of an upload take other locks.
Moves(u, from, to) ==
    /\ row[u] = from
    /\ row' = [row EXCEPT ![u] = to]
    /\ UNCHANGED <<rowLock, request>>

Attach(u)     == Moves(u, "open", "attached")
Retire(u)     == Moves(u, "attached", "retired")
Discard(u)    == Moves(u, "open", "gone")
CleanUp(u)    == Moves(u, "retired", "gone")

Next ==
    \/ \E w \in Workers :
           \/ \E u \in Uploads : Initiate(w, u)
           \/ LockParticipant(w) \/ Count(w) \/ Refuse(w) \/ Insert(w) \/ Crash(w)
    \/ \E u \in Uploads : Attach(u) \/ Retire(u) \/ Discard(u) \/ CleanUp(u)

Spec == Init /\ [][Next]_vars

-----------------------------------------------------------------------------
(* Properties                                                              *)

\* Concurrent initiations never admit more uploads than the quota allows ("this
\* keeps concurrent requests from all observing quota headroom").
CountWithinQuota == Cardinality(Open) <= MaxCount

\* Nor more bytes.
BytesWithinQuota == Bytes(Open) <= MaxBytes
=============================================================================
