---------------------------- MODULE MediaUploads ----------------------------
(***************************************************************************)
(* The life of a private media upload: one database row, the objects it    *)
(* owns in the bucket, and the web workers that run initiate, complete,    *)
(* discard, attach and clean-up calls on it                                *)
(* (services/media_uploads.py, services/media_cleanup.py).                 *)
(*                                                                         *)
(* Every database transaction locks the upload's row, so a transaction is  *)
(* one action.  Every call to the bucket is an action of its own, and      *)
(* between two actions of a worker any other worker may act, the worker    *)
(* may be killed, the client may PUT again with its presigned URL and the  *)
(* lease or the time to live of the row may run out.                       *)
(***************************************************************************)
EXTENDS Naturals

CONSTANTS
    Uploads,      \* ids of the uploads
    Diary,        \* the uploads whose purpose is DIARY_ENTRY
    Workers,      \* web workers and runs of the clean-up command
    Tokens,       \* finalization tokens: uuid4, never drawn twice
    Staging,      \* the key pending/<upload>; a token t stands for media/<upload>/t
    None,         \* no upload, no token
    MaxStamp,     \* bound of the model on the discards that rewrite expires_at
    LeaseCovers   \* TRUE: no lease ends under a live finalizer or its copy

ASSUME MediaAssumption ==
    /\ Diary \subseteq Uploads
    /\ None \notin Uploads \cup Tokens
    /\ Staging \notin Tokens \cup {None}
    /\ MaxStamp \in Nat
    /\ LeaseCovers \in BOOLEAN

VARIABLES
    row,      \* the MediaAttachment row of each upload
    offered,  \* uploads whose presigned URL reached the client
    object,   \* the bucket: what each key of each upload holds
    copy,     \* the server-side copy onto media/<upload>/<token>
    issued,   \* tokens drawn so far
    worker    \* the call each worker is in

vars == <<row, offered, object, copy, issued, worker>>

-----------------------------------------------------------------------------
Keys       == Tokens \cup {Staging}
Contents   == {"none", "good", "bad"}
CopyStates == {"none", "inflight", "landed", "lost"}

Unattached == {"pending", "finalizing", "reclaiming", "ready", "deleting"}
Statuses   == Unattached \cup {"unborn", "attached", "gone"}
Usable     == {"ready", "attached"}

\* "stamp" is the identity of expires_at, "expired" whether it has passed.
\* Only a discard writes expires_at on a row that is already DELETING, and
\* only there is it compared, so a discard is what draws a new stamp.
Rows == [status : Statuses, token : Tokens \cup {None}, key : Keys,
         stamp : Nat, expired : BOOLEAN]

Finalizing == {"inspect", "promote", "copying", "verify", "mark",
               "check", "drop", "ack"}
Places == Finalizing \cup {"idle", "sign", "reclaim", "restart", "sweep",
                           "discard", "purge"}

\* "clean" is can_acknowledge_claim in a completion and "no delete failed"
\* in a discard; "todo" the keys a discard or a clean-up has still to delete.
Calls == [at : Places, upload : Uploads \cup {None}, token : Tokens \cup {None},
          todo : SUBSET Keys, stamp : Nat, clean : BOOLEAN]

NoCall == [at |-> "idle", upload |-> None, token |-> None,
           todo |-> {}, stamp |-> 0, clean |-> TRUE]

Init ==
    /\ row = [u \in Uploads |-> [status |-> "unborn", token |-> None,
                                 key |-> Staging, stamp |-> 0, expired |-> FALSE]]
    /\ offered = {}
    /\ object = [u \in Uploads |-> [k \in Keys |-> "none"]]
    /\ copy = [u \in Uploads |-> [t \in Tokens |-> "none"]]
    /\ issued = {}
    /\ worker = [w \in Workers |-> NoCall]

-----------------------------------------------------------------------------
(* Worker steps                                                            *)

RowBecomes(u, r)  == row' = [row EXCEPT ![u] = r]
CallBecomes(w, c) == worker' = [worker EXCEPT ![w] = c]

Begins(w, call)  == worker[w].at = "idle" /\ CallBecomes(w, call)
GoesTo(w, place) == CallBecomes(w, [worker[w] EXCEPT !.at = place])
Returns(w)       == CallBecomes(w, NoCall)

Deletes(u, k) == object' = [object EXCEPT ![u][k] = "none"]

\* A delete that raised: the bucket may or may not have applied it.
DeleteRaises(u, k) == Deletes(u, k) \/ UNCHANGED object

\* Mutants: a row without a token is asked for its claimed key all the same;
\* the canonical key is forgotten.
OwnedKeysUnfiltered(r) == {Staging, r.key, r.token}
OwnedKeysOfClaim(r)    == {Staging} \cup ({r.token} \ {None})

\* The keys a discard or a clean-up deletes: staging, canonical, claimed.
OwnedKeys(r) == {Staging, r.key} \cup ({r.token} \ {None})

\* They go in that order: the staging key first.
NextKey(w, k) ==
    /\ k \in worker[w].todo
    /\ Staging \in worker[w].todo => k = Staging

-----------------------------------------------------------------------------
(* initiate_media_upload                                                   *)

\* The clean-up of one expired upload that precedes the creation is a
\* ClaimCleanup of some worker; the creation does not read its outcome.
Initiate(w, u) ==
    /\ row[u].status = "unborn"
    /\ RowBecomes(u, [row[u] EXCEPT !.status = "pending"])
    /\ Begins(w, [NoCall EXCEPT !.at = "sign", !.upload = u])
    /\ UNCHANGED <<offered, object, copy, issued>>

SignUrl(w) ==
    /\ worker[w].at = "sign"
    /\ offered' = offered \cup {worker[w].upload}
    /\ Returns(w)
    /\ UNCHANGED <<row, object, copy, issued>>

\* Signing raised: the row is deleted if it is still PENDING.
SignUrlFails(w) ==
    LET u == worker[w].upload IN
    /\ worker[w].at = "sign"
    /\ IF row[u].status = "pending"
       THEN RowBecomes(u, [row[u] EXCEPT !.status = "gone"])
       ELSE UNCHANGED row
    /\ Returns(w)
    /\ UNCHANGED <<offered, object, copy, issued>>

\* The presigned URL stays valid after a completion began: the client may
\* write the staging object at any time, with bytes that validate or not.
Put(u, content) ==
    /\ u \in offered
    /\ object' = [object EXCEPT ![u][Staging] = content]
    /\ UNCHANGED <<row, offered, copy, issued, worker>>

\* The bucket's lifecycle rule on the pending/ prefix.
BucketLifecycle(u) ==
    /\ object[u][Staging] # "none"
    /\ Deletes(u, Staging)
    /\ UNCHANGED <<row, offered, copy, issued, worker>>

-----------------------------------------------------------------------------
(* complete_media_upload: the claim                                        *)

Finalize(u, t) ==
    /\ t \notin issued
    /\ issued' = issued \cup {t}
    /\ RowBecomes(u, [row[u] EXCEPT !.status = "finalizing", !.token = t,
                                    !.expired = FALSE])

ClaimFresh(w, u, t) ==
    /\ u \in offered
    /\ row[u].status = "pending"
    /\ ~row[u].expired
    /\ Finalize(u, t)
    /\ Begins(w, [NoCall EXCEPT !.at = "inspect", !.upload = u, !.token = t])
    /\ UNCHANGED <<offered, object, copy>>

\* Mutant: a lease that has not run out is taken over.
ClaimReclaimEarly(w, u) ==
    /\ u \in offered
    /\ Tokens \ issued # {}
    /\ row[u].status \in {"reclaiming", "finalizing"}
    /\ row[u].token # None
    /\ RowBecomes(u, [row[u] EXCEPT !.status = "reclaiming"])
    /\ Begins(w, [NoCall EXCEPT !.at = "reclaim", !.upload = u,
                                !.token = row[u].token])
    /\ UNCHANGED <<offered, object, copy, issued>>

\* The lease of another finalizer ran out: its token is invalidated in the
\* database before its object is touched.  (Bound of the model: a token is
\* left for the restart, as one always is in the program.)
ClaimReclaim(w, u) ==
    /\ u \in offered
    /\ Tokens \ issued # {}
    /\ \/ row[u].status = "reclaiming"
       \/ row[u].status = "finalizing" /\ row[u].expired
    /\ row[u].token # None
    /\ RowBecomes(u, [row[u] EXCEPT !.status = "reclaiming"])
    /\ Begins(w, [NoCall EXCEPT !.at = "reclaim", !.upload = u,
                                !.token = row[u].token])
    /\ UNCHANGED <<offered, object, copy, issued>>

ReclaimDeletes(w) ==
    /\ worker[w].at = "reclaim"
    /\ Deletes(worker[w].upload, worker[w].token)
    /\ GoesTo(w, "restart")
    /\ UNCHANGED <<row, offered, copy, issued>>

ReclaimFails(w) ==
    /\ worker[w].at = "reclaim"
    /\ DeleteRaises(worker[w].upload, worker[w].token)
    /\ Returns(w)
    /\ UNCHANGED <<row, offered, copy, issued>>

StillReclaiming(w) ==
    /\ row[worker[w].upload].status = "reclaiming"
    /\ row[worker[w].upload].token = worker[w].token

Restart(w, t) ==
    /\ worker[w].at = "restart"
    /\ StillReclaiming(w)
    /\ Finalize(worker[w].upload, t)
    /\ CallBecomes(w, [worker[w] EXCEPT !.at = "inspect", !.token = t])
    /\ UNCHANGED <<offered, object, copy>>

RestartRefused(w) ==
    /\ worker[w].at = "restart"
    /\ ~StillReclaiming(w)
    /\ Returns(w)
    /\ UNCHANGED <<row, offered, object, copy, issued>>

-----------------------------------------------------------------------------
(* complete_media_upload: inspect, promote, verify, mark                   *)

\* inspect_object reads the head and then the first bytes: with a PUT in
\* between the two may describe different objects, so all that passing
\* shows of the staging object is that one was there.
InspectPasses(w) ==
    /\ worker[w].at = "inspect"
    /\ object[worker[w].upload][Staging] # "none"
    /\ GoesTo(w, "promote")
    /\ UNCHANGED <<row, offered, object, copy, issued>>

InspectFails(w) ==
    /\ worker[w].at = "inspect"
    /\ GoesTo(w, "check")
    /\ UNCHANGED <<row, offered, object, copy, issued>>

\* The copy is requested once (the client makes one attempt).
Promote(w) ==
    /\ worker[w].at = "promote"
    /\ copy' = [copy EXCEPT ![worker[w].upload][worker[w].token] = "inflight"]
    /\ CallBecomes(w, [worker[w] EXCEPT !.at = "copying", !.clean = FALSE])
    /\ UNCHANGED <<row, offered, object, issued>>

CopyLands(u, t) ==
    /\ copy[u][t] = "inflight"
    /\ object[u][Staging] # "none"
    /\ object' = [object EXCEPT ![u][t] = object[u][Staging]]
    /\ copy' = [copy EXCEPT ![u][t] = "landed"]
    /\ UNCHANGED <<row, offered, issued, worker>>

CopyIsLost(u, t) ==
    /\ copy[u][t] = "inflight"
    /\ copy' = [copy EXCEPT ![u][t] = "lost"]
    /\ UNCHANGED <<row, offered, object, issued, worker>>

CopyReturns(w) ==
    /\ worker[w].at = "copying"
    /\ copy[worker[w].upload][worker[w].token] = "landed"
    /\ CallBecomes(w, [worker[w] EXCEPT !.at = "verify", !.clean = TRUE])
    /\ UNCHANGED <<row, offered, object, copy, issued>>

\* Mutant: a raised copy counts as one that left nothing behind.
CopyRaisesClean(w) ==
    /\ worker[w].at = "copying"
    /\ CallBecomes(w, [worker[w] EXCEPT !.at = "check", !.clean = TRUE])
    /\ UNCHANGED <<row, offered, object, copy, issued>>

\* A raised copy may still be in flight, so "clean" stays FALSE.
CopyRaises(w) ==
    /\ worker[w].at = "copying"
    /\ GoesTo(w, "check")
    /\ UNCHANGED <<row, offered, object, copy, issued>>

VerifyPasses(w) ==
    /\ worker[w].at = "verify"
    /\ object[worker[w].upload][worker[w].token] = "good"
    /\ GoesTo(w, "mark")
    /\ UNCHANGED <<row, offered, object, copy, issued>>

VerifyFails(w) ==
    /\ worker[w].at = "verify"
    /\ GoesTo(w, "check")
    /\ UNCHANGED <<row, offered, object, copy, issued>>

\* Mutant: any claim will do, also that of the completion that took over.
ClaimIsFinalizing(w) == row[worker[w].upload].status = "finalizing"

ClaimIsCurrent(w) ==
    /\ row[worker[w].upload].status = "finalizing"
    /\ row[worker[w].upload].token = worker[w].token

\* The commit, whose reply may be lost: the call then cleans up as if it
\* had failed, although the row is READY.
MarkReady(w) ==
    LET u == worker[w].upload IN
    /\ worker[w].at = "mark"
    /\ ClaimIsCurrent(w)
    /\ RowBecomes(u, [row[u] EXCEPT !.status = "ready", !.key = worker[w].token,
                                    !.token = None, !.expired = FALSE])
    /\ GoesTo(w, "sweep") \/ GoesTo(w, "check")
    /\ UNCHANGED <<offered, object, copy, issued>>

\* The claim is no longer current, or the transaction failed.
MarkFails(w) ==
    /\ worker[w].at = "mark"
    /\ GoesTo(w, "check")
    /\ UNCHANGED <<row, offered, object, copy, issued>>

Sweep(w) ==
    /\ worker[w].at = "sweep"
    /\ DeleteRaises(worker[w].upload, Staging)
    /\ Returns(w)
    /\ UNCHANGED <<row, offered, copy, issued>>

-----------------------------------------------------------------------------
(* complete_media_upload: clean-up after a failure                         *)

Referenced(w) ==
    /\ row[worker[w].upload].status \in Usable
    /\ row[worker[w].upload].key = worker[w].token

\* Where a clean-up goes once the claim's object is known to be gone or kept.
AfterDrop(w) ==
    IF worker[w].clean THEN GoesTo(w, "ack") ELSE Returns(w)

CheckReference(w) ==
    /\ worker[w].at = "check"
    /\ IF Referenced(w) THEN AfterDrop(w) ELSE GoesTo(w, "drop")
    /\ UNCHANGED <<row, offered, object, copy, issued>>

DropDeletes(w) ==
    /\ worker[w].at = "drop"
    /\ Deletes(worker[w].upload, worker[w].token)
    /\ AfterDrop(w)
    /\ UNCHANGED <<row, offered, copy, issued>>

DropFails(w) ==
    /\ worker[w].at = "drop"
    /\ DeleteRaises(worker[w].upload, worker[w].token)
    /\ Returns(w)
    /\ UNCHANGED <<row, offered, copy, issued>>

\* expires_at keeps the end of the lease when the row goes back to PENDING.
Acknowledge(w) ==
    LET u == worker[w].upload
        mine == row[u].token = worker[w].token
    IN
    /\ worker[w].at = "ack"
    /\ \/ /\ mine /\ row[u].status = "finalizing"
          /\ RowBecomes(u, [row[u] EXCEPT !.status = "pending", !.token = None])
       \/ /\ mine /\ row[u].status = "deleting"
          /\ RowBecomes(u, [row[u] EXCEPT !.status = "gone", !.token = None])
       \/ /\ ~(mine /\ row[u].status \in {"finalizing", "deleting"})
          /\ UNCHANGED row
    /\ Returns(w)
    /\ UNCHANGED <<offered, object, copy, issued>>

-----------------------------------------------------------------------------
(* discard_media_upload                                                    *)

\* A row with a token keeps it, and its lease starts anew: only the
\* finalizer, or the clean-up after the lease, may remove the row.
ClaimDiscard(w, u) ==
    /\ u \in offered
    /\ row[u].status \in Unattached
    /\ row[u].stamp < MaxStamp
    /\ RowBecomes(u, [row[u] EXCEPT !.status = "deleting",
                                    !.stamp = row[u].stamp + 1,
                                    !.expired = (row[u].token = None)])
    /\ Begins(w, [NoCall EXCEPT !.at = "discard", !.upload = u,
                                !.token = row[u].token, !.todo = OwnedKeys(row[u])])
    /\ UNCHANGED <<offered, object, copy, issued>>

Discarded(w, k, clean) ==
    CallBecomes(w, [worker[w] EXCEPT !.todo = @ \ {k}, !.clean = clean])

\* A failed delete does not stop the others.
DiscardObject(w, k) ==
    /\ worker[w].at = "discard"
    /\ NextKey(w, k)
    /\ \/ Deletes(worker[w].upload, k) /\ Discarded(w, k, worker[w].clean)
       \/ DeleteRaises(worker[w].upload, k) /\ Discarded(w, k, FALSE)
    /\ UNCHANGED <<row, offered, copy, issued>>

FinishDiscard(w) ==
    LET u == worker[w].upload IN
    /\ worker[w].at = "discard"
    /\ worker[w].todo = {}
    /\ IF /\ worker[w].clean
          /\ worker[w].token = None
          /\ row[u].status = "deleting"
          /\ row[u].token = None
       THEN RowBecomes(u, [row[u] EXCEPT !.status = "gone"])
       ELSE UNCHANGED row
    /\ Returns(w)
    /\ UNCHANGED <<offered, object, copy, issued>>

-----------------------------------------------------------------------------
(* cleanup_expired_media_uploads: one upload of its loop                   *)

\* Mutant: MEDIA_CLEANUP_STATUSES without DELETING.
ClaimCleanupOfOpen(w, u) ==
    /\ row[u].status \in Unattached \ {"deleting"}
    /\ row[u].expired
    /\ RowBecomes(u, [row[u] EXCEPT !.status = "deleting"])
    /\ Begins(w, [NoCall EXCEPT !.at = "purge", !.upload = u,
                                !.todo = OwnedKeys(row[u]), !.stamp = row[u].stamp])
    /\ UNCHANGED <<offered, object, copy, issued>>

ClaimCleanup(w, u) ==
    /\ row[u].status \in Unattached
    /\ row[u].expired
    /\ RowBecomes(u, [row[u] EXCEPT !.status = "deleting"])
    /\ Begins(w, [NoCall EXCEPT !.at = "purge", !.upload = u,
                                !.todo = OwnedKeys(row[u]), !.stamp = row[u].stamp])
    /\ UNCHANGED <<offered, object, copy, issued>>

PurgeObject(w, k) ==
    /\ worker[w].at = "purge"
    /\ NextKey(w, k)
    /\ Deletes(worker[w].upload, k)
    /\ CallBecomes(w, [worker[w] EXCEPT !.todo = @ \ {k}])
    /\ UNCHANGED <<row, offered, copy, issued>>

\* The first failure ends the clean-up of this upload.
PurgeFails(w, k) ==
    /\ worker[w].at = "purge"
    /\ NextKey(w, k)
    /\ DeleteRaises(worker[w].upload, k)
    /\ Returns(w)
    /\ UNCHANGED <<row, offered, copy, issued>>

FinishCleanup(w) ==
    LET u == worker[w].upload IN
    /\ worker[w].at = "purge"
    /\ worker[w].todo = {}
    /\ IF row[u].status = "deleting" /\ row[u].stamp = worker[w].stamp
       THEN RowBecomes(u, [row[u] EXCEPT !.status = "gone", !.token = None])
       ELSE UNCHANGED row
    /\ Returns(w)
    /\ UNCHANGED <<offered, object, copy, issued>>

-----------------------------------------------------------------------------
(* attach_media_uploads and replace_diary_entry_media_uploads, for one     *)
(* upload of the group                                                     *)

Attach(u) ==
    /\ row[u].status = "ready"
    /\ ~row[u].expired
    /\ RowBecomes(u, [row[u] EXCEPT !.status = "attached"])
    /\ UNCHANGED <<offered, object, copy, issued, worker>>

\* The diary entry no longer lists the upload, or is being deleted.
Retire(u) ==
    /\ u \in Diary
    /\ row[u].status = "attached"
    /\ RowBecomes(u, [row[u] EXCEPT !.status = "deleting", !.expired = TRUE])
    /\ UNCHANGED <<offered, object, copy, issued, worker>>

-----------------------------------------------------------------------------
(* Time and failures                                                       *)

\* A finalizer's calls are bounded (7 seconds per bucket call, the web
\* server's request timeout) well under the lease of 120 seconds.
LeaseHeld(u) ==
    \E t \in Tokens :
        /\ row[u].token = t
        /\ \/ copy[u][t] = "inflight"
           \/ \E w \in Workers : /\ worker[w].upload = u
                                 /\ worker[w].token = t
                                 /\ worker[w].at \in Finalizing

Expire(u) ==
    /\ row[u].status \in Unattached
    /\ ~row[u].expired
    /\ LeaseCovers => ~LeaseHeld(u)
    /\ RowBecomes(u, [row[u] EXCEPT !.expired = TRUE])
    /\ UNCHANGED <<offered, object, copy, issued, worker>>

\* The worker is killed, or a database call of it raises: the call ends.
Crash(w) ==
    /\ worker[w].at # "idle"
    /\ Returns(w)
    /\ UNCHANGED <<row, offered, object, copy, issued>>

-----------------------------------------------------------------------------
Complete(w) ==
    \/ \E u \in Uploads, t \in Tokens : ClaimFresh(w, u, t)
    \/ \E u \in Uploads : ClaimReclaim(w, u)
    \/ ReclaimDeletes(w) \/ ReclaimFails(w)
    \/ \E t \in Tokens : Restart(w, t)
    \/ RestartRefused(w)
    \/ InspectPasses(w) \/ InspectFails(w)
    \/ Promote(w) \/ CopyReturns(w) \/ CopyRaises(w)
    \/ VerifyPasses(w) \/ VerifyFails(w)
    \/ MarkReady(w) \/ MarkFails(w) \/ Sweep(w)
    \/ CheckReference(w) \/ DropDeletes(w) \/ DropFails(w) \/ Acknowledge(w)

Discard(w) ==
    \/ \E u \in Uploads : ClaimDiscard(w, u)
    \/ \E k \in Keys : DiscardObject(w, k)
    \/ FinishDiscard(w)

Cleanup(w) ==
    \/ \E u \in Uploads : ClaimCleanup(w, u)
    \/ \E k \in Keys : PurgeObject(w, k) \/ PurgeFails(w, k)
    \/ FinishCleanup(w)

Environment ==
    \/ \E u \in Uploads :
         \/ \E content \in {"good", "bad"} : Put(u, content)
         \/ BucketLifecycle(u) \/ Attach(u) \/ Retire(u) \/ Expire(u)
    \/ \E u \in Uploads, t \in Tokens : CopyLands(u, t) \/ CopyIsLost(u, t)

Next ==
    \/ \E w \in Workers :
         \/ \E u \in Uploads : Initiate(w, u)
         \/ SignUrl(w) \/ SignUrlFails(w)
         \/ Complete(w) \/ Discard(w) \/ Cleanup(w) \/ Crash(w)
    \/ Environment

Spec == Init /\ [][Next]_vars

-----------------------------------------------------------------------------
(* Fairness                                                                *)

\* A worker that is in a call takes its next step.
Continue(w) ==
    \/ SignUrl(w) \/ SignUrlFails(w)
    \/ ReclaimDeletes(w) \/ ReclaimFails(w)
    \/ \E t \in Tokens : Restart(w, t)
    \/ RestartRefused(w)
    \/ InspectPasses(w) \/ InspectFails(w)
    \/ Promote(w) \/ CopyReturns(w) \/ CopyRaises(w)
    \/ VerifyPasses(w) \/ VerifyFails(w)
    \/ MarkReady(w) \/ MarkFails(w) \/ Sweep(w)
    \/ CheckReference(w) \/ DropDeletes(w) \/ DropFails(w) \/ Acknowledge(w)
    \/ \E k \in Keys : DiscardObject(w, k)
    \/ FinishDiscard(w)
    \/ \E k \in Keys : PurgeObject(w, k) \/ PurgeFails(w, k)
    \/ FinishCleanup(w)

\* Time passes, calls and copies end.  That the clean-up is run again and again, and
\* that a delete repeated often enough succeeds once, is what the operator
\* and the bucket owe: the code schedules no clean-up itself.
Fairness ==
    /\ \A w \in Workers : WF_vars(Continue(w))
    /\ \A u \in Uploads : WF_vars(Expire(u))
    /\ \A u \in Uploads : WF_vars(\E t \in Tokens : CopyLands(u, t) \/ CopyIsLost(u, t))
    /\ \A u \in Uploads : SF_vars(\E w \in Workers : ClaimCleanup(w, u))
    /\ \A k \in Keys : SF_vars(\E w \in Workers : PurgeObject(w, k))
    /\ SF_vars(\E w \in Workers : FinishCleanup(w))

FairSpec == Spec /\ Fairness

-----------------------------------------------------------------------------
(* Properties                                                              *)

\* Every variable has its type.
TypeOK ==
    /\ row \in [Uploads -> Rows]
    /\ offered \subseteq Uploads
    /\ object \in [Uploads -> [Keys -> Contents]]
    /\ copy \in [Uploads -> [Tokens -> CopyStates]]
    /\ issued \subseteq Tokens
    /\ worker \in [Workers -> Calls]

\* What the row says of the finalization agrees with its status, so that no
\* save runs into the table's check constraint
\* media_attachment_finalization_metadata_valid: a token is there exactly
\* while someone may be finalizing, or until a discarded one is proven gone.
RowConstraint ==
    \A u \in Uploads :
        /\ row[u].status \in {"pending", "ready", "attached"} => row[u].token = None
        /\ row[u].status \in {"finalizing", "reclaiming"} => row[u].token # None
        /\ row[u].status \in Usable <=> (row[u].key # Staging
                                         /\ row[u].status \notin {"deleting", "gone"})
        /\ row[u].key # Staging => row[u].token = None

\* An upload that may be attached, or is, has verified bytes at its key:
\* neither a PUT that lands during the completion, nor a finalizer whose
\* lease was taken over, nor the clean-up of a failed or abandoned call can
\* spoil or delete them.
ReadyObjectIntact ==
    \A u \in Uploads : row[u].status \in Usable =>
        /\ row[u].key \in Tokens
        /\ object[u][row[u].key] = "good"

\* No object under media/ is lost: as long as one is there, or a copy may
\* still create it, the row of its upload names it and a clean-up can find it.
NoOrphan ==
    LeaseCovers =>
        \A u \in Uploads, t \in Tokens :
            object[u][t] # "none" \/ copy[u][t] = "inflight" =>
                /\ row[u].status \notin {"unborn", "gone"}
                /\ t \in {row[u].token, row[u].key}

\* At most one finalizer is between its claim and its last step.
SoleFinalizer ==
    LeaseCovers =>
        \A v, w \in Workers :
            /\ worker[v].at \in Finalizing
            /\ worker[w].at \in Finalizing
            /\ worker[v].upload = worker[w].upload
            => v = w

Phase(status) ==
    CASE status = "unborn" -> "absent"
      [] status \in {"pending", "finalizing", "reclaiming"} -> "open"
      [] status = "ready" -> "usable"
      [] status = "attached" -> "used"
      [] status = "deleting" -> "closing"
      [] status = "gone" -> "gone"

Promise == INSTANCE MediaPromise WITH
    phase <- [u \in Uploads |-> Phase(row[u].status)],
    kept <- {u \in Uploads : row[u].key # Staging /\ object[u][row[u].key] = "good"}

\* Whatever workers, client and bucket do, an upload goes through its life
\* as the abstract specification says: used once, never revived, bytes kept
\* until it closes, record kept until the bytes are gone.
PromiseKept == Promise!Spec

\* No upload is left unattached forever: it is attached, or its row and
\* every object the row names are removed, whatever crashes on the way and
\* however often deletes fail, as long as the clean-up keeps being run.
Settles ==
    \A u \in Uploads :
        row[u].status \in Unattached ~> row[u].status \in {"attached", "gone"}
=============================================================================
