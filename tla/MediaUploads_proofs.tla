------------------------ MODULE MediaUploads_proofs ------------------------
(***************************************************************************)
(* Theorems about MediaUploads, for any number of uploads, workers and     *)
(* tokens: first those that hold whether or not leases cover their         *)
(* finalizers, then those that need it.                                    *)
(***************************************************************************)
EXTENDS MediaUploads, TLAPS

-----------------------------------------------------------------------------
(* The inductive invariant                                                 *)

\* Places where a call holds a token, and where its object is not yet, or no
\* longer, the one the row refers to.
Holding  == Finalizing \cup {"reclaim", "restart"}
Unmarked == Holding \ {"check", "drop", "ack"}
Deleting == {"discard", "purge"}

\* A call in progress has an upload and, where it uses one, a drawn token.
CallsAreWhole ==
    \A w \in Workers :
        /\ worker[w].at # "idle" => worker[w].upload \in Uploads
        /\ worker[w].at \in Holding => worker[w].token \in issued

\* The tokens and keys rows name were drawn.
RowsAreWhole ==
    \A u \in Uploads :
        /\ row[u].token # None => row[u].token \in issued
        /\ row[u].key # Staging => row[u].key \in issued
        /\ row[u].status = "unborn" => row[u].token = None

\* A token that was not drawn yet has left no trace in the bucket.
FreshTokens ==
    \A u \in Uploads, t \in Tokens : t \notin issued => copy[u][t] = "none"

\* A token is drawn for one call: no two finalizers hold the same one.
SoleHolder ==
    \A v, w \in Workers :
        /\ worker[v].at \in Finalizing
        /\ worker[w].at \in Finalizing
        /\ worker[v].upload = worker[w].upload
        /\ worker[v].token = worker[w].token
        => v = w

\* A reclaimed token is not the current claim of its row.
ReclaimedIsDead ==
    \A w \in Workers :
        worker[w].at \in {"reclaim", "restart"} => ~ClaimIsCurrent(w)

\* A finalizer that has not marked the row READY, or a reclaimer, holds a
\* token the row does not use as its key.
UnmarkedIsUnused ==
    \A w \in Workers :
        worker[w].at \in Unmarked => row[worker[w].upload].key # worker[w].token

\* The check made before the delete still holds when the delete runs.
DroppedIsUnused ==
    \A w \in Workers : worker[w].at = "drop" => ~Referenced(w)

\* Where a discard or a clean-up deletes objects, the row is past use.
DeletedIsClosed ==
    \A w \in Workers :
        worker[w].at \in Deleting => row[worker[w].upload].status \in {"deleting", "gone"}

\* The copy of a claim that is verifying has landed, and the object that
\* passed stays as it was verified as long as the claim is current.
VerifiedIsGood ==
    \A w \in Workers :
        /\ worker[w].at \in {"verify", "mark"} =>
              copy[worker[w].upload][worker[w].token] = "landed"
        /\ worker[w].at = "mark" /\ ClaimIsCurrent(w) =>
              object[worker[w].upload][worker[w].token] = "good"

\* No copy can land any more on the key a row has accepted.
AcceptedHasLanded ==
    \A u \in Uploads : row[u].key # Staging => copy[u][row[u].key] = "landed"

\* Once a discard that met no failure, or a clean-up, has the key behind it,
\* the accepted object is gone; and it is gone before the row is.
ClosedIsEmpty ==
    /\ \A w \in Workers :
        LET u == worker[w].upload IN
        /\ worker[w].at \in Deleting
        /\ worker[w].at = "discard" => worker[w].clean
        /\ row[u].key # Staging
        => row[u].key \in worker[w].todo \/ object[u][row[u].key] = "none"
    /\ \A u \in Uploads :
        row[u].status = "gone" /\ row[u].key # Staging => object[u][row[u].key] = "none"

\* The inductive invariant: what the theorems say, and what it takes that a
\* step of one call cannot hurt another.
IInv ==
    /\ TypeOK
    /\ RowConstraint
    /\ CallsAreWhole
    /\ RowsAreWhole
    /\ FreshTokens
    /\ SoleHolder
    /\ ReclaimedIsDead
    /\ UnmarkedIsUnused
    /\ DroppedIsUnused
    /\ DeletedIsClosed
    /\ VerifiedIsGood
    /\ AcceptedHasLanded
    /\ ReadyObjectIntact
    /\ ClosedIsEmpty

-----------------------------------------------------------------------------
(* Type correctness                                                        *)

\* The record of an idle worker is a call record.
LEMMA NoCallType == NoCall \in Calls
  BY DEF NoCall, Calls, Places

\* The statuses the transactions write are statuses.
LEMMA StatusNames ==
  {"pending", "finalizing", "reclaiming", "ready", "deleting", "attached", "gone"} \subseteq Statuses
  BY DEF Statuses, Unattached

\* Saving a row keeps the table's type.
LEMMA RowUpdate ==
  ASSUME TypeOK, NEW u \in Uploads, NEW r \in Rows, RowBecomes(u, r)
  PROVE  row' \in [Uploads -> Rows]
  BY DEF TypeOK, RowBecomes

\* A step of one call keeps the type of all calls.
LEMMA CallUpdate ==
  ASSUME TypeOK, NEW w \in Workers, NEW c \in Calls, CallBecomes(w, c)
  PROVE  worker' \in [Workers -> Calls]
  BY DEF TypeOK, CallBecomes

\* A delete that may have raised keeps the bucket's type.
LEMMA DeleteUpdate ==
  ASSUME TypeOK, NEW u \in Uploads, NEW k \in Keys, Deletes(u, k) \/ UNCHANGED object
  PROVE  object' \in [Uploads -> [Keys -> Contents]]
<1>1. [object[u] EXCEPT ![k] = "none"] \in [Keys -> Contents]
  BY DEF TypeOK, Contents
<1>. QED
  BY <1>1 DEF TypeOK, Deletes

\* The keys a discard or a clean-up deletes are keys.
LEMMA OwnedKeysType ==
  ASSUME NEW r \in Rows
  PROVE  OwnedKeys(r) \subseteq Keys
  BY DEF OwnedKeys, Rows, Keys

\* The initial state is well typed.
LEMMA TypeInit == Init => TypeOK /\ CallsAreWhole
  BY MediaAssumption, NoCallType
     DEF Init, TypeOK, CallsAreWhole, Holding, Finalizing, NoCall, Rows, Statuses, Unattached, Keys,
         Contents, CopyStates

\* Every step keeps the types.
LEMMA TypeStep == TypeOK /\ CallsAreWhole /\ [Next]_vars => TypeOK'
<1> SUFFICES ASSUME TypeOK, CallsAreWhole, [Next]_vars PROVE TypeOK'
  OBVIOUS
<1> USE MediaAssumption, NoCallType
<1>1. ASSUME NEW w \in Workers, NEW u \in Uploads, Initiate(w, u)
     PROVE  TypeOK'
  <2>1. row' \in [Uploads -> Rows]
    <3>0. row[u] \in Rows
      BY <1>1 DEF TypeOK
    <3>1. [row[u] EXCEPT !.status = "pending"] \in Rows
      BY <1>1, <3>0, StatusNames DEF Rows
    <3>. QED
      BY <1>1, <3>1, RowUpdate DEF TypeOK, Initiate, Finalize
  <2>2. worker' \in [Workers -> Calls]
    <3>1. [NoCall EXCEPT !.at = "sign", !.upload = u] \in Calls
      BY <1>1 DEF TypeOK, Calls, Places, Finalizing
    <3>. QED
      BY <1>1, <3>1, CallUpdate
         DEF Initiate, Begins, GoesTo, Returns, AfterDrop, Discarded, Finalize
  <2>. QED
    BY <2>1, <2>2, <1>1 DEF TypeOK, Initiate
<1>2. ASSUME NEW w \in Workers, SignUrl(w)
     PROVE  TypeOK'
  <2>1. worker' \in [Workers -> Calls]
    BY <1>2, CallUpdate DEF SignUrl, Begins, GoesTo, Returns, AfterDrop, Discarded, Finalize
  <2>. QED
    BY <2>1, <1>2 DEF TypeOK, SignUrl, CallsAreWhole
<1>3. ASSUME NEW w \in Workers, SignUrlFails(w)
     PROVE  TypeOK'
  <2>1. worker[w].upload \in Uploads
    BY <1>3 DEF CallsAreWhole, SignUrlFails
  <2>2. row' \in [Uploads -> Rows]
    <3>0. row[worker[w].upload] \in Rows
      BY <2>1, <1>3 DEF TypeOK
    <3>1. [row[worker[w].upload] EXCEPT !.status = "gone"] \in Rows
      BY <2>1, <1>3, <3>0, StatusNames DEF Rows
    <3>. QED
      BY <2>1, <1>3, <3>1, RowUpdate DEF TypeOK, SignUrlFails, Finalize
  <2>3. worker' \in [Workers -> Calls]
    BY <1>3, CallUpdate DEF SignUrlFails, Begins, GoesTo, Returns, AfterDrop, Discarded, Finalize
  <2>. QED
    BY <2>1, <2>2, <2>3, <1>3 DEF TypeOK, SignUrlFails
<1>4. ASSUME NEW w \in Workers, NEW u \in Uploads, NEW t \in Tokens, ClaimFresh(w, u, t)
     PROVE  TypeOK'
  <2>1. row' \in [Uploads -> Rows]
    <3>0. row[u] \in Rows
      BY <1>4 DEF TypeOK
    <3>1. [row[u] EXCEPT !.status = "finalizing", !.token = t, !.expired = FALSE] \in Rows
      BY <1>4, <3>0, StatusNames DEF Rows
    <3>. QED
      BY <1>4, <3>1, RowUpdate DEF TypeOK, ClaimFresh, Finalize
  <2>2. worker' \in [Workers -> Calls]
    <3>1. [NoCall EXCEPT !.at = "inspect", !.upload = u, !.token = t] \in Calls
      BY <1>4 DEF TypeOK, Calls, Places, Finalizing
    <3>. QED
      BY <1>4, <3>1, CallUpdate
         DEF ClaimFresh, Begins, GoesTo, Returns, AfterDrop, Discarded, Finalize
  <2>. QED
    BY <2>1, <2>2, <1>4 DEF TypeOK, ClaimFresh, Finalize
<1>5. ASSUME NEW w \in Workers, NEW u \in Uploads, ClaimReclaim(w, u)
     PROVE  TypeOK'
  <2>1. row' \in [Uploads -> Rows]
    <3>0. row[u] \in Rows
      BY <1>5 DEF TypeOK
    <3>1. [row[u] EXCEPT !.status = "reclaiming"] \in Rows
      BY <1>5, <3>0, StatusNames DEF Rows
    <3>. QED
      BY <1>5, <3>1, RowUpdate DEF TypeOK, ClaimReclaim, Finalize
  <2>2. worker' \in [Workers -> Calls]
    <3>1. [NoCall EXCEPT !.at = "reclaim", !.upload = u, !.token = row[u].token] \in Calls
      BY <1>5 DEF TypeOK, Calls, Places, Finalizing, Rows
    <3>. QED
      BY <1>5, <3>1, CallUpdate
         DEF ClaimReclaim, Begins, GoesTo, Returns, AfterDrop, Discarded, Finalize
  <2>. QED
    BY <2>1, <2>2, <1>5 DEF TypeOK, ClaimReclaim
<1>6. ASSUME NEW w \in Workers, ReclaimDeletes(w)
     PROVE  TypeOK'
  <2>1. worker[w].upload \in Uploads /\ worker[w].token \in Tokens
    BY <1>6 DEF TypeOK, CallsAreWhole, Holding, Finalizing, ReclaimDeletes
  <2>2. worker' \in [Workers -> Calls]
    <3>1. [worker[w] EXCEPT !.at = "restart"] \in Calls
      BY <1>6 DEF TypeOK, Calls, Places, Finalizing
    <3>. QED
      BY <1>6, <3>1, CallUpdate
         DEF ReclaimDeletes, Begins, GoesTo, Returns, AfterDrop, Discarded, Finalize
  <2>3. object' \in [Uploads -> [Keys -> Contents]]
    BY <2>1, <1>6, DeleteUpdate DEF ReclaimDeletes, DeleteRaises, Keys
  <2>. QED
    BY <2>1, <2>2, <2>3, <1>6 DEF TypeOK, ReclaimDeletes
<1>7. ASSUME NEW w \in Workers, ReclaimFails(w)
     PROVE  TypeOK'
  <2>1. worker[w].upload \in Uploads /\ worker[w].token \in Tokens
    BY <1>7 DEF TypeOK, CallsAreWhole, Holding, Finalizing, ReclaimFails
  <2>2. worker' \in [Workers -> Calls]
    BY <1>7, CallUpdate DEF ReclaimFails, Begins, GoesTo, Returns, AfterDrop, Discarded, Finalize
  <2>3. object' \in [Uploads -> [Keys -> Contents]]
    BY <2>1, <1>7, DeleteUpdate DEF ReclaimFails, DeleteRaises, Keys
  <2>. QED
    BY <2>1, <2>2, <2>3, <1>7 DEF TypeOK, ReclaimFails
<1>8. ASSUME NEW w \in Workers, NEW t \in Tokens, Restart(w, t)
     PROVE  TypeOK'
  <2>1. worker[w].upload \in Uploads
    BY <1>8 DEF CallsAreWhole, Restart
  <2>2. row' \in [Uploads -> Rows]
    <3>0. row[worker[w].upload] \in Rows
      BY <2>1, <1>8 DEF TypeOK
    <3>1. [row[worker[w].upload] EXCEPT !.status = "finalizing", !.token = t, !.expired = FALSE] \in Rows
      BY <2>1, <1>8, <3>0, StatusNames DEF Rows
    <3>. QED
      BY <2>1, <1>8, <3>1, RowUpdate DEF TypeOK, Restart, Finalize
  <2>3. worker' \in [Workers -> Calls]
    <3>1. [worker[w] EXCEPT !.at = "inspect", !.token = t] \in Calls
      BY <1>8 DEF TypeOK, Calls, Places, Finalizing
    <3>. QED
      BY <1>8, <3>1, CallUpdate DEF Restart, Begins, GoesTo, Returns, AfterDrop, Discarded, Finalize
  <2>. QED
    BY <2>1, <2>2, <2>3, <1>8 DEF TypeOK, Restart, Finalize
<1>9. ASSUME NEW w \in Workers, RestartRefused(w)
     PROVE  TypeOK'
  <2>1. worker' \in [Workers -> Calls]
    BY <1>9, CallUpdate DEF RestartRefused, Begins, GoesTo, Returns, AfterDrop, Discarded, Finalize
  <2>. QED
    BY <2>1, <1>9 DEF TypeOK, RestartRefused
<1>10. ASSUME NEW w \in Workers, InspectPasses(w)
     PROVE  TypeOK'
  <2>1. worker' \in [Workers -> Calls]
    <3>1. [worker[w] EXCEPT !.at = "promote"] \in Calls
      BY <1>10 DEF TypeOK, Calls, Places, Finalizing
    <3>. QED
      BY <1>10, <3>1, CallUpdate
         DEF InspectPasses, Begins, GoesTo, Returns, AfterDrop, Discarded, Finalize
  <2>. QED
    BY <2>1, <1>10 DEF TypeOK, InspectPasses
<1>11. ASSUME NEW w \in Workers, InspectFails(w)
     PROVE  TypeOK'
  <2>1. worker' \in [Workers -> Calls]
    <3>1. [worker[w] EXCEPT !.at = "check"] \in Calls
      BY <1>11 DEF TypeOK, Calls, Places, Finalizing
    <3>. QED
      BY <1>11, <3>1, CallUpdate
         DEF InspectFails, Begins, GoesTo, Returns, AfterDrop, Discarded, Finalize
  <2>. QED
    BY <2>1, <1>11 DEF TypeOK, InspectFails
<1>12. ASSUME NEW w \in Workers, Promote(w)
     PROVE  TypeOK'
  <2>1. worker' \in [Workers -> Calls]
    <3>1. [worker[w] EXCEPT !.at = "copying", !.clean = FALSE] \in Calls
      BY <1>12 DEF TypeOK, Calls, Places, Finalizing
    <3>. QED
      BY <1>12, <3>1, CallUpdate
         DEF Promote, Begins, GoesTo, Returns, AfterDrop, Discarded, Finalize
  <2>. QED
    BY <2>1, <1>12 DEF TypeOK, Promote, CopyStates
<1>13. ASSUME NEW w \in Workers, CopyReturns(w)
     PROVE  TypeOK'
  <2>1. worker' \in [Workers -> Calls]
    <3>1. [worker[w] EXCEPT !.at = "verify", !.clean = TRUE] \in Calls
      BY <1>13 DEF TypeOK, Calls, Places, Finalizing
    <3>. QED
      BY <1>13, <3>1, CallUpdate
         DEF CopyReturns, Begins, GoesTo, Returns, AfterDrop, Discarded, Finalize
  <2>. QED
    BY <2>1, <1>13 DEF TypeOK, CopyReturns
<1>14. ASSUME NEW w \in Workers, CopyRaises(w)
     PROVE  TypeOK'
  <2>1. worker' \in [Workers -> Calls]
    <3>1. [worker[w] EXCEPT !.at = "check"] \in Calls
      BY <1>14 DEF TypeOK, Calls, Places, Finalizing
    <3>. QED
      BY <1>14, <3>1, CallUpdate
         DEF CopyRaises, Begins, GoesTo, Returns, AfterDrop, Discarded, Finalize
  <2>. QED
    BY <2>1, <1>14 DEF TypeOK, CopyRaises
<1>15. ASSUME NEW w \in Workers, VerifyPasses(w)
     PROVE  TypeOK'
  <2>1. worker' \in [Workers -> Calls]
    <3>1. [worker[w] EXCEPT !.at = "mark"] \in Calls
      BY <1>15 DEF TypeOK, Calls, Places, Finalizing
    <3>. QED
      BY <1>15, <3>1, CallUpdate
         DEF VerifyPasses, Begins, GoesTo, Returns, AfterDrop, Discarded, Finalize
  <2>. QED
    BY <2>1, <1>15 DEF TypeOK, VerifyPasses
<1>16. ASSUME NEW w \in Workers, VerifyFails(w)
     PROVE  TypeOK'
  <2>1. worker' \in [Workers -> Calls]
    <3>1. [worker[w] EXCEPT !.at = "check"] \in Calls
      BY <1>16 DEF TypeOK, Calls, Places, Finalizing
    <3>. QED
      BY <1>16, <3>1, CallUpdate
         DEF VerifyFails, Begins, GoesTo, Returns, AfterDrop, Discarded, Finalize
  <2>. QED
    BY <2>1, <1>16 DEF TypeOK, VerifyFails
<1>17. ASSUME NEW w \in Workers, MarkReady(w)
     PROVE  TypeOK'
  <2>1. worker[w].upload \in Uploads /\ worker[w].token \in Tokens
    BY <1>17 DEF TypeOK, CallsAreWhole, Holding, Finalizing, MarkReady
  <2>2. row' \in [Uploads -> Rows]
    <3>0. row[worker[w].upload] \in Rows
      BY <2>1, <1>17 DEF TypeOK
    <3>1. [row[worker[w].upload] EXCEPT !.status = "ready", !.key = worker[w].token, !.token = None, !.expired = FALSE] \in Rows
      BY <2>1, <1>17, <3>0, StatusNames DEF Rows, Keys
    <3>. QED
      BY <2>1, <1>17, <3>1, RowUpdate DEF TypeOK, MarkReady, Finalize
  <2>3. worker' \in [Workers -> Calls]
    <3>1. [worker[w] EXCEPT !.at = "sweep"] \in Calls
      BY <1>17 DEF TypeOK, Calls, Places, Finalizing
    <3>2. [worker[w] EXCEPT !.at = "check"] \in Calls
      BY <1>17 DEF TypeOK, Calls, Places, Finalizing
    <3>. QED
      BY <1>17, <3>1, <3>2, CallUpdate
         DEF MarkReady, Begins, GoesTo, Returns, AfterDrop, Discarded, Finalize
  <2>. QED
    BY <2>1, <2>2, <2>3, <1>17 DEF TypeOK, MarkReady
<1>18. ASSUME NEW w \in Workers, MarkFails(w)
     PROVE  TypeOK'
  <2>1. worker' \in [Workers -> Calls]
    <3>1. [worker[w] EXCEPT !.at = "check"] \in Calls
      BY <1>18 DEF TypeOK, Calls, Places, Finalizing
    <3>. QED
      BY <1>18, <3>1, CallUpdate
         DEF MarkFails, Begins, GoesTo, Returns, AfterDrop, Discarded, Finalize
  <2>. QED
    BY <2>1, <1>18 DEF TypeOK, MarkFails
<1>19. ASSUME NEW w \in Workers, Sweep(w)
     PROVE  TypeOK'
  <2>1. worker[w].upload \in Uploads
    BY <1>19 DEF CallsAreWhole, Sweep
  <2>2. worker' \in [Workers -> Calls]
    BY <1>19, CallUpdate DEF Sweep, Begins, GoesTo, Returns, AfterDrop, Discarded, Finalize
  <2>3. object' \in [Uploads -> [Keys -> Contents]]
    BY <2>1, <1>19, DeleteUpdate DEF Sweep, DeleteRaises, Keys
  <2>. QED
    BY <2>1, <2>2, <2>3, <1>19 DEF TypeOK, Sweep
<1>20. ASSUME NEW w \in Workers, CheckReference(w)
     PROVE  TypeOK'
  <2>1. worker' \in [Workers -> Calls]
    <3>1. [worker[w] EXCEPT !.at = "ack"] \in Calls
      BY <1>20 DEF TypeOK, Calls, Places, Finalizing
    <3>2. [worker[w] EXCEPT !.at = "drop"] \in Calls
      BY <1>20 DEF TypeOK, Calls, Places, Finalizing
    <3>. QED
      BY <1>20, <3>1, <3>2, CallUpdate
         DEF CheckReference, Begins, GoesTo, Returns, AfterDrop, Discarded, Finalize
  <2>. QED
    BY <2>1, <1>20 DEF TypeOK, CheckReference
<1>21. ASSUME NEW w \in Workers, DropDeletes(w)
     PROVE  TypeOK'
  <2>1. worker[w].upload \in Uploads /\ worker[w].token \in Tokens
    BY <1>21 DEF TypeOK, CallsAreWhole, Holding, Finalizing, DropDeletes
  <2>2. worker' \in [Workers -> Calls]
    <3>1. [worker[w] EXCEPT !.at = "ack"] \in Calls
      BY <1>21 DEF TypeOK, Calls, Places, Finalizing
    <3>. QED
      BY <1>21, <3>1, CallUpdate
         DEF DropDeletes, Begins, GoesTo, Returns, AfterDrop, Discarded, Finalize
  <2>3. object' \in [Uploads -> [Keys -> Contents]]
    BY <2>1, <1>21, DeleteUpdate DEF DropDeletes, DeleteRaises, Keys
  <2>. QED
    BY <2>1, <2>2, <2>3, <1>21 DEF TypeOK, DropDeletes
<1>22. ASSUME NEW w \in Workers, DropFails(w)
     PROVE  TypeOK'
  <2>1. worker[w].upload \in Uploads /\ worker[w].token \in Tokens
    BY <1>22 DEF TypeOK, CallsAreWhole, Holding, Finalizing, DropFails
  <2>2. worker' \in [Workers -> Calls]
    BY <1>22, CallUpdate DEF DropFails, Begins, GoesTo, Returns, AfterDrop, Discarded, Finalize
  <2>3. object' \in [Uploads -> [Keys -> Contents]]
    BY <2>1, <1>22, DeleteUpdate DEF DropFails, DeleteRaises, Keys
  <2>. QED
    BY <2>1, <2>2, <2>3, <1>22 DEF TypeOK, DropFails
<1>23. ASSUME NEW w \in Workers, Acknowledge(w)
     PROVE  TypeOK'
  <2>1. worker[w].upload \in Uploads
    BY <1>23 DEF CallsAreWhole, Acknowledge
  <2>2. row' \in [Uploads -> Rows]
    <3>0. row[worker[w].upload] \in Rows
      BY <2>1, <1>23 DEF TypeOK
    <3>1. [row[worker[w].upload] EXCEPT !.status = "pending", !.token = None] \in Rows
      BY <2>1, <1>23, <3>0, StatusNames DEF Rows
    <3>2. [row[worker[w].upload] EXCEPT !.status = "gone", !.token = None] \in Rows
      BY <2>1, <1>23, <3>0, StatusNames DEF Rows
    <3>. QED
      BY <2>1, <1>23, <3>1, <3>2, RowUpdate DEF TypeOK, Acknowledge, Finalize
  <2>3. worker' \in [Workers -> Calls]
    BY <1>23, CallUpdate DEF Acknowledge, Begins, GoesTo, Returns, AfterDrop, Discarded, Finalize
  <2>. QED
    BY <2>1, <2>2, <2>3, <1>23 DEF TypeOK, Acknowledge
<1>24. ASSUME NEW w \in Workers, NEW u \in Uploads, ClaimDiscard(w, u)
     PROVE  TypeOK'
  <2>1. row' \in [Uploads -> Rows]
    <3>0. row[u] \in Rows
      BY <1>24 DEF TypeOK
    <3>1. [row[u] EXCEPT !.status = "deleting", !.stamp = row[u].stamp + 1, !.expired = (row[u].token = None)] \in Rows
      <4>1. row[u].stamp + 1 \in Nat /\ (row[u].token = None) \in BOOLEAN
        BY <3>0 DEF Rows
      <4>. QED
        BY <4>1, <3>0, StatusNames DEF Rows
    <3>. QED
      BY <1>24, <3>1, RowUpdate DEF TypeOK, ClaimDiscard, Finalize
  <2>2. worker' \in [Workers -> Calls]
    <3>1. [NoCall EXCEPT !.at = "discard", !.upload = u, !.token = row[u].token, !.todo = OwnedKeys(row[u])] \in Calls
      BY <1>24, OwnedKeysType DEF TypeOK, Calls, Places, Finalizing, Rows
    <3>. QED
      BY <1>24, <3>1, CallUpdate
         DEF ClaimDiscard, Begins, GoesTo, Returns, AfterDrop, Discarded, Finalize
  <2>. QED
    BY <2>1, <2>2, <1>24 DEF TypeOK, ClaimDiscard
<1>25. ASSUME NEW w \in Workers, NEW k \in Keys, DiscardObject(w, k)
     PROVE  TypeOK'
  <2>1. worker[w].upload \in Uploads
    BY <1>25 DEF CallsAreWhole, DiscardObject
  <2>2. worker' \in [Workers -> Calls]
    <3>1. [worker[w] EXCEPT !.todo = @ \ {k}, !.clean = worker[w].clean] \in Calls
      BY <1>25 DEF TypeOK, Calls, Places, Finalizing
    <3>2. [worker[w] EXCEPT !.todo = @ \ {k}, !.clean = FALSE] \in Calls
      BY <1>25 DEF TypeOK, Calls, Places, Finalizing
    <3>. QED
      BY <1>25, <3>1, <3>2, CallUpdate
         DEF DiscardObject, Begins, GoesTo, Returns, AfterDrop, Discarded, Finalize
  <2>3. object' \in [Uploads -> [Keys -> Contents]]
    BY <2>1, <1>25, DeleteUpdate DEF DiscardObject, DeleteRaises, Keys
  <2>. QED
    BY <2>1, <2>2, <2>3, <1>25 DEF TypeOK, DiscardObject
<1>26. ASSUME NEW w \in Workers, FinishDiscard(w)
     PROVE  TypeOK'
  <2>1. worker[w].upload \in Uploads
    BY <1>26 DEF CallsAreWhole, FinishDiscard
  <2>2. row' \in [Uploads -> Rows]
    <3>0. row[worker[w].upload] \in Rows
      BY <2>1, <1>26 DEF TypeOK
    <3>1. [row[worker[w].upload] EXCEPT !.status = "gone"] \in Rows
      BY <2>1, <1>26, <3>0, StatusNames DEF Rows
    <3>. QED
      BY <2>1, <1>26, <3>1, RowUpdate DEF TypeOK, FinishDiscard, Finalize
  <2>3. worker' \in [Workers -> Calls]
    BY <1>26, CallUpdate DEF FinishDiscard, Begins, GoesTo, Returns, AfterDrop, Discarded, Finalize
  <2>. QED
    BY <2>1, <2>2, <2>3, <1>26 DEF TypeOK, FinishDiscard
<1>27. ASSUME NEW w \in Workers, NEW u \in Uploads, ClaimCleanup(w, u)
     PROVE  TypeOK'
  <2>1. row' \in [Uploads -> Rows]
    <3>0. row[u] \in Rows
      BY <1>27 DEF TypeOK
    <3>1. [row[u] EXCEPT !.status = "deleting"] \in Rows
      BY <1>27, <3>0, StatusNames DEF Rows
    <3>. QED
      BY <1>27, <3>1, RowUpdate DEF TypeOK, ClaimCleanup, Finalize
  <2>2. worker' \in [Workers -> Calls]
    <3>1. [NoCall EXCEPT !.at = "purge", !.upload = u, !.todo = OwnedKeys(row[u]), !.stamp = row[u].stamp] \in Calls
      BY <1>27, OwnedKeysType DEF TypeOK, Calls, Places, Finalizing, Rows
    <3>. QED
      BY <1>27, <3>1, CallUpdate
         DEF ClaimCleanup, Begins, GoesTo, Returns, AfterDrop, Discarded, Finalize
  <2>. QED
    BY <2>1, <2>2, <1>27 DEF TypeOK, ClaimCleanup
<1>28. ASSUME NEW w \in Workers, NEW k \in Keys, PurgeObject(w, k)
     PROVE  TypeOK'
  <2>1. worker[w].upload \in Uploads
    BY <1>28 DEF CallsAreWhole, PurgeObject
  <2>2. worker' \in [Workers -> Calls]
    <3>1. [worker[w] EXCEPT !.todo = @ \ {k}] \in Calls
      BY <1>28 DEF TypeOK, Calls, Places, Finalizing
    <3>. QED
      BY <1>28, <3>1, CallUpdate
         DEF PurgeObject, Begins, GoesTo, Returns, AfterDrop, Discarded, Finalize
  <2>3. object' \in [Uploads -> [Keys -> Contents]]
    BY <2>1, <1>28, DeleteUpdate DEF PurgeObject, DeleteRaises, Keys
  <2>. QED
    BY <2>1, <2>2, <2>3, <1>28 DEF TypeOK, PurgeObject
<1>29. ASSUME NEW w \in Workers, NEW k \in Keys, PurgeFails(w, k)
     PROVE  TypeOK'
  <2>1. worker[w].upload \in Uploads
    BY <1>29 DEF CallsAreWhole, PurgeFails
  <2>2. worker' \in [Workers -> Calls]
    BY <1>29, CallUpdate DEF PurgeFails, Begins, GoesTo, Returns, AfterDrop, Discarded, Finalize
  <2>3. object' \in [Uploads -> [Keys -> Contents]]
    BY <2>1, <1>29, DeleteUpdate DEF PurgeFails, DeleteRaises, Keys
  <2>. QED
    BY <2>1, <2>2, <2>3, <1>29 DEF TypeOK, PurgeFails
<1>30. ASSUME NEW w \in Workers, FinishCleanup(w)
     PROVE  TypeOK'
  <2>1. worker[w].upload \in Uploads
    BY <1>30 DEF CallsAreWhole, FinishCleanup
  <2>2. row' \in [Uploads -> Rows]
    <3>0. row[worker[w].upload] \in Rows
      BY <2>1, <1>30 DEF TypeOK
    <3>1. [row[worker[w].upload] EXCEPT !.status = "gone", !.token = None] \in Rows
      BY <2>1, <1>30, <3>0, StatusNames DEF Rows
    <3>. QED
      BY <2>1, <1>30, <3>1, RowUpdate DEF TypeOK, FinishCleanup, Finalize
  <2>3. worker' \in [Workers -> Calls]
    BY <1>30, CallUpdate DEF FinishCleanup, Begins, GoesTo, Returns, AfterDrop, Discarded, Finalize
  <2>. QED
    BY <2>1, <2>2, <2>3, <1>30 DEF TypeOK, FinishCleanup
<1>31. ASSUME NEW w \in Workers, Crash(w)
     PROVE  TypeOK'
  <2>1. worker' \in [Workers -> Calls]
    BY <1>31, CallUpdate DEF Crash, Begins, GoesTo, Returns, AfterDrop, Discarded, Finalize
  <2>. QED
    BY <2>1, <1>31 DEF TypeOK, Crash
<1>32. ASSUME NEW u \in Uploads, NEW c \in {"good", "bad"}, Put(u, c)
     PROVE  TypeOK'
  <2>. QED
    BY <1>32 DEF TypeOK, Put, Deletes, Keys, Contents
<1>33. ASSUME NEW u \in Uploads, BucketLifecycle(u)
     PROVE  TypeOK'
  <2>. QED
    BY <1>33 DEF TypeOK, BucketLifecycle, Deletes, Keys, Contents
<1>34. ASSUME NEW u \in Uploads, Attach(u)
     PROVE  TypeOK'
  <2>1. row' \in [Uploads -> Rows]
    <3>0. row[u] \in Rows
      BY <1>34 DEF TypeOK
    <3>1. [row[u] EXCEPT !.status = "attached"] \in Rows
      BY <1>34, <3>0, StatusNames DEF Rows
    <3>. QED
      BY <1>34, <3>1, RowUpdate DEF TypeOK, Attach, Finalize
  <2>. QED
    BY <2>1, <1>34 DEF TypeOK, Attach
<1>35. ASSUME NEW u \in Uploads, Retire(u)
     PROVE  TypeOK'
  <2>1. row' \in [Uploads -> Rows]
    <3>0. row[u] \in Rows
      BY <1>35 DEF TypeOK
    <3>1. [row[u] EXCEPT !.status = "deleting", !.expired = TRUE] \in Rows
      BY <1>35, <3>0, StatusNames DEF Rows
    <3>. QED
      BY <1>35, <3>1, RowUpdate DEF TypeOK, Retire, Finalize
  <2>. QED
    BY <2>1, <1>35 DEF TypeOK, Retire
<1>36. ASSUME NEW u \in Uploads, Expire(u)
     PROVE  TypeOK'
  <2>1. row' \in [Uploads -> Rows]
    <3>0. row[u] \in Rows
      BY <1>36 DEF TypeOK
    <3>1. [row[u] EXCEPT !.expired = TRUE] \in Rows
      BY <1>36, <3>0, StatusNames DEF Rows
    <3>. QED
      BY <1>36, <3>1, RowUpdate DEF TypeOK, Expire, Finalize
  <2>. QED
    BY <2>1, <1>36 DEF TypeOK, Expire
<1>37. ASSUME NEW u \in Uploads, NEW t \in Tokens, CopyLands(u, t)
     PROVE  TypeOK'
  <2>. QED
    BY <1>37 DEF TypeOK, CopyLands, Deletes, Keys, Contents, CopyStates
<1>38. ASSUME NEW u \in Uploads, NEW t \in Tokens, CopyIsLost(u, t)
     PROVE  TypeOK'
  <2>. QED
    BY <1>38 DEF TypeOK, CopyIsLost, CopyStates
<1>39. CASE UNCHANGED vars
  BY <1>39 DEF TypeOK, vars
<1>. QED
  BY <1>1, <1>2, <1>3, <1>4, <1>5, <1>6, <1>7, <1>8, <1>9, <1>10, <1>11, <1>12, <1>13, <1>14,
     <1>15, <1>16, <1>17, <1>18, <1>19, <1>20, <1>21, <1>22, <1>23, <1>24, <1>25, <1>26, <1>27,
     <1>28, <1>29, <1>30, <1>31, <1>32, <1>33, <1>34, <1>35, <1>36, <1>37, <1>38, <1>39
     DEF Next, Complete, Discard, Cleanup, Environment

-----------------------------------------------------------------------------
(* What an update changes and what it leaves alone                      *)

\* Saving a row changes that row only.
LEMMA RowFields ==
  ASSUME TypeOK, NEW u \in Uploads, NEW r, RowBecomes(u, r)
  PROVE  /\ row'[u] = r
         /\ \A v \in Uploads : v # u => row'[v] = row[v]
  BY DEF TypeOK, RowBecomes

\* A step of one call changes that call only.
LEMMA CallFields ==
  ASSUME TypeOK, NEW w \in Workers, NEW c, CallBecomes(w, c)
  PROVE  /\ worker'[w] = c
         /\ \A v \in Workers : v # w => worker'[v] = worker[v]
  BY DEF TypeOK, CallBecomes

\* A row of the table is a row record.
LEMMA RowIsRow ==
  ASSUME TypeOK, NEW u \in Uploads
  PROVE  row[u] \in Rows
  BY DEF TypeOK

\* What a worker does is a call record.
LEMMA WorkerCall ==
  ASSUME TypeOK, NEW w \in Workers
  PROVE  worker[w] \in Calls
  BY DEF TypeOK

\* Tokens and the staging key are the keys, and differ.
LEMMA KeysAreKeys ==
  /\ Tokens \subseteq Keys /\ Staging \in Keys /\ Staging \notin Tokens
  /\ TypeOK => \A u \in Uploads : row[u].key \in Keys
  BY MediaAssumption DEF Keys, TypeOK, Rows

\* A call in progress has an upload, and a token where it needs one.
LEMMA OwnUpload ==
  ASSUME TypeOK, CallsAreWhole, NEW w \in Workers, worker[w].at # "idle"
  PROVE  /\ worker[w].upload \in Uploads
         /\ worker[w].at \in Holding => worker[w].token \in Tokens
         /\ worker[w].todo \subseteq Keys
  BY DEF TypeOK, CallsAreWhole, Calls

\* A call in progress has a row.
LEMMA OwnRow ==
  ASSUME TypeOK, CallsAreWhole, NEW w \in Workers, worker[w].at # "idle"
  PROVE  /\ worker[w].upload \in Uploads
         /\ row[worker[w].upload] \in Rows
  BY DEF TypeOK, CallsAreWhole

\* Moving on within a call changes its place only.
LEMMA GoesToFields ==
  ASSUME TypeOK, NEW w \in Workers, NEW p, GoesTo(w, p)
  PROVE  /\ worker'[w].at = p
         /\ worker'[w].upload = worker[w].upload
         /\ worker'[w].token = worker[w].token
         /\ worker'[w].todo = worker[w].todo
         /\ worker'[w].clean = worker[w].clean
         /\ \A v \in Workers : v # w => worker'[v] = worker[v]
  BY WorkerCall, CallFields DEF GoesTo, Calls

\* Returning leaves the worker idle.
LEMMA ReturnsFields ==
  ASSUME TypeOK, NEW w \in Workers, Returns(w)
  PROVE  /\ worker'[w].at = "idle"
         /\ \A v \in Workers : v # w => worker'[v] = worker[v]
  BY CallFields DEF Returns, NoCall

\* A discard that is done with a key remembers only that and its cleanness.
LEMMA DiscardedFields ==
  ASSUME TypeOK, NEW w \in Workers, NEW k, NEW clean, Discarded(w, k, clean)
  PROVE  /\ worker'[w].at = worker[w].at
         /\ worker'[w].upload = worker[w].upload
         /\ worker'[w].token = worker[w].token
         /\ worker'[w].todo = worker[w].todo \ {k}
         /\ worker'[w].clean = clean
         /\ \A v \in Workers : v # w => worker'[v] = worker[v]
<1>1. worker[w] \in Calls
  BY DEF TypeOK
<1>. QED
  BY <1>1 DEF TypeOK, Discarded, CallBecomes, Calls

\* A delete removes one object and touches no other.
LEMMA DeletesFields ==
  ASSUME TypeOK, NEW u \in Uploads, NEW k \in Keys, Deletes(u, k)
  PROVE  /\ object'[u][k] = "none"
         /\ \A v \in Uploads, j \in Keys : v # u \/ j # k => object'[v][j] = object[v][j]
  BY DEF TypeOK, Deletes

\* A delete, whether it raised or not, changes no other object, and creates none.
LEMMA RaisesFields ==
  ASSUME TypeOK, NEW u \in Uploads, NEW k \in Keys, DeleteRaises(u, k)
  PROVE  \A v \in Uploads, j \in Keys :
           \/ object'[v][j] = object[v][j]
           \/ v = u /\ j = k /\ object'[v][j] = "none"
  BY DeletesFields DEF DeleteRaises

\* What _acknowledge_failed_finalization_cleanup changes.
LEMMA AcknowledgeDoes ==
  ASSUME TypeOK, CallsAreWhole, NEW w \in Workers, Acknowledge(w)
  PROVE  /\ worker[w].at = "ack" /\ worker'[w].at = "idle"
         /\ \A v \in Workers : v # w => worker'[v] = worker[v]
         /\ worker[w].upload \in Uploads /\ worker[w].token \in Tokens
         /\ row'[worker[w].upload].key = row[worker[w].upload].key
         /\ \/ row' = row
            \/ /\ row[worker[w].upload].token = worker[w].token
               /\ row'[worker[w].upload].token = None
               /\ \/ /\ row[worker[w].upload].status = "finalizing"
                     /\ row'[worker[w].upload].status = "pending"
                  \/ /\ row[worker[w].upload].status = "deleting"
                     /\ row'[worker[w].upload].status = "gone"
         /\ \A v \in Uploads : v # worker[w].upload => row'[v] = row[v]
         /\ UNCHANGED <<object, copy, issued>>
<1> DEFINE u == worker[w].upload
<1>1. u \in Uploads /\ worker[w].token \in Tokens /\ row[u] \in Rows
  BY OwnRow, OwnUpload DEF Acknowledge, Holding, Finalizing
<1>2. CASE row' = row
  BY <1>1, <1>2, ReturnsFields DEF Acknowledge
<1>3. CASE /\ row[u].token = worker[w].token /\ row[u].status = "finalizing"
           /\ RowBecomes(u, [row[u] EXCEPT !.status = "pending", !.token = None])
  <2>1. /\ row'[u] = [row[u] EXCEPT !.status = "pending", !.token = None]
        /\ \A v \in Uploads : v # u => row'[v] = row[v]
    BY <1>1, <1>3, RowFields
  <2>2. row'[u].status = "pending" /\ row'[u].token = None /\ row'[u].key = row[u].key
    BY <1>1, <2>1 DEF Rows
  <2>. QED
    BY <1>1, <1>3, <2>1, <2>2, ReturnsFields DEF Acknowledge
<1>4. CASE /\ row[u].token = worker[w].token /\ row[u].status = "deleting"
           /\ RowBecomes(u, [row[u] EXCEPT !.status = "gone", !.token = None])
  <2>1. /\ row'[u] = [row[u] EXCEPT !.status = "gone", !.token = None]
        /\ \A v \in Uploads : v # u => row'[v] = row[v]
    BY <1>1, <1>4, RowFields
  <2>2. row'[u].status = "gone" /\ row'[u].token = None /\ row'[u].key = row[u].key
    BY <1>1, <2>1 DEF Rows
  <2>. QED
    BY <1>1, <1>4, <2>1, <2>2, ReturnsFields DEF Acknowledge
<1>. QED
  BY <1>2, <1>3, <1>4 DEF Acknowledge

\* What _finish_media_cleanup changes.
LEMMA FinishCleanupDoes ==
  ASSUME TypeOK, CallsAreWhole, NEW w \in Workers, FinishCleanup(w)
  PROVE  /\ worker[w].at = "purge" /\ worker[w].todo = {} /\ worker'[w].at = "idle"
         /\ \A v \in Workers : v # w => worker'[v] = worker[v]
         /\ worker[w].upload \in Uploads
         /\ row'[worker[w].upload].key = row[worker[w].upload].key
         /\ \/ row' = row
            \/ /\ row[worker[w].upload].status = "deleting"
               /\ row'[worker[w].upload].token = None
               /\ row'[worker[w].upload].status = "gone"
         /\ \A v \in Uploads : v # worker[w].upload => row'[v] = row[v]
         /\ UNCHANGED <<object, copy, issued>>
<1> DEFINE u == worker[w].upload
<1>1. u \in Uploads /\ row[u] \in Rows
  BY OwnRow DEF FinishCleanup
<1>2. CASE row' = row
  BY <1>1, <1>2, ReturnsFields DEF FinishCleanup
<1>3. CASE /\ row[u].status = "deleting"
           /\ RowBecomes(u, [row[u] EXCEPT !.status = "gone", !.token = None])
  <2>1. /\ row'[u] = [row[u] EXCEPT !.status = "gone", !.token = None]
        /\ \A v \in Uploads : v # u => row'[v] = row[v]
    BY <1>1, <1>3, RowFields
  <2>2. row'[u].status = "gone" /\ row'[u].token = None /\ row'[u].key = row[u].key
    BY <1>1, <2>1 DEF Rows
  <2>. QED
    BY <1>1, <1>3, <2>1, <2>2, ReturnsFields DEF FinishCleanup
<1>. QED
  BY <1>2, <1>3 DEF FinishCleanup

\* What the transaction of initiate_media_upload changes.
LEMMA InitiateDoes ==
  ASSUME TypeOK, NEW w \in Workers, NEW u \in Uploads, Initiate(w, u)
  PROVE  /\ worker[w].at = "idle" /\ worker'[w].at = "sign" /\ worker'[w].upload = u
         /\ \A v \in Workers : v # w => worker'[v] = worker[v]
         /\ row[u].status = "unborn" /\ row'[u].status = "pending"
         /\ row'[u].token = row[u].token /\ row'[u].key = row[u].key
         /\ \A v \in Uploads : v # u => row'[v] = row[v]
         /\ UNCHANGED <<object, copy, issued>>
<1>1. /\ worker'[w].at = "sign" /\ worker'[w].upload = u
      /\ \A v \in Workers : v # w => worker'[v] = worker[v]
  BY DEF TypeOK, Calls, Initiate, Begins, CallBecomes, NoCall
<1>2. row[u] \in Rows
  BY RowIsRow
<1>3. /\ row'[u] = [row[u] EXCEPT !.status = "pending"]
      /\ \A v \in Uploads : v # u => row'[v] = row[v]
  BY RowFields DEF Initiate
<1>. QED
  BY <1>1, <1>2, <1>3 DEF Rows, Initiate, Begins

\* What _claim_media_cleanup changes.
LEMMA ClaimCleanupDoes ==
  ASSUME TypeOK, NEW w \in Workers, NEW u \in Uploads, ClaimCleanup(w, u)
  PROVE  /\ worker[w].at = "idle" /\ worker'[w].at = "purge" /\ worker'[w].upload = u
         /\ worker'[w].todo = OwnedKeys(row[u])
         /\ \A v \in Workers : v # w => worker'[v] = worker[v]
         /\ row[u].status \in Unattached /\ row'[u].status = "deleting"
         /\ row'[u].token = row[u].token /\ row'[u].key = row[u].key
         /\ \A v \in Uploads : v # u => row'[v] = row[v]
         /\ UNCHANGED <<object, copy, issued>>
<1>1. /\ worker'[w].at = "purge" /\ worker'[w].upload = u
      /\ worker'[w].todo = OwnedKeys(row[u])
      /\ \A v \in Workers : v # w => worker'[v] = worker[v]
  BY DEF TypeOK, Calls, ClaimCleanup, Begins, CallBecomes, NoCall
<1>2. row[u] \in Rows
  BY RowIsRow
<1>3. /\ row'[u] = [row[u] EXCEPT !.status = "deleting"]
      /\ \A v \in Uploads : v # u => row'[v] = row[v]
  BY RowFields DEF ClaimCleanup
<1>. QED
  BY <1>1, <1>2, <1>3 DEF Rows, ClaimCleanup, Begins

\* What one best-effort delete of a discard changes beside the bucket.
LEMMA DiscardObjectDoes ==
  ASSUME TypeOK, CallsAreWhole, NEW w \in Workers, NEW k \in Keys, DiscardObject(w, k)
  PROVE  /\ worker[w].at = "discard" /\ worker'[w].at = "discard"
         /\ worker[w].upload \in Uploads
         /\ worker'[w].upload = worker[w].upload
         /\ worker'[w].token = worker[w].token
         /\ worker'[w].todo = worker[w].todo \ {k}
         /\ \A v \in Workers : v # w => worker'[v] = worker[v]
         /\ UNCHANGED <<row, copy, issued>>
<1>1. worker[w].upload \in Uploads
  BY OwnUpload DEF DiscardObject
<1>2. PICK clean : Discarded(w, k, clean)
  BY DEF DiscardObject
<1>3. /\ worker'[w].at = worker[w].at
      /\ worker'[w].upload = worker[w].upload
      /\ worker'[w].token = worker[w].token
      /\ worker'[w].todo = worker[w].todo \ {k}
      /\ \A v \in Workers : v # w => worker'[v] = worker[v]
  BY <1>2, DiscardedFields
<1>. QED
  BY <1>1, <1>3 DEF DiscardObject

\* What one best-effort delete of a discard changes in the bucket.
LEMMA DiscardObjectDeletes ==
  ASSUME TypeOK, CallsAreWhole, NEW w \in Workers, NEW k \in Keys, DiscardObject(w, k)
  PROVE  /\ \/ /\ worker'[w].clean = worker[w].clean
               /\ object'[worker[w].upload][k] = "none"
            \/ worker'[w].clean = FALSE
         /\ \A v \in Uploads, j \in Keys :
              v # worker[w].upload => object'[v][j] = object[v][j]
         /\ \A v \in Uploads, j \in Keys : object[v][j] = "none" => object'[v][j] = "none"
<1>1. worker[w].upload \in Uploads
  BY OwnUpload DEF DiscardObject
<1>2. CASE Deletes(worker[w].upload, k) /\ Discarded(w, k, worker[w].clean)
  <2>1. /\ object'[worker[w].upload][k] = "none"
        /\ \A v \in Uploads, j \in Keys :
             v # worker[w].upload \/ j # k => object'[v][j] = object[v][j]
    BY <1>1, <1>2, DeletesFields
  <2>2. worker'[w].clean = worker[w].clean
    BY <1>2, DiscardedFields
  <2>. QED
    BY <1>1, <2>1, <2>2
<1>3. CASE DeleteRaises(worker[w].upload, k) /\ Discarded(w, k, FALSE)
  <2>1. \A v \in Uploads, j \in Keys :
          \/ object'[v][j] = object[v][j]
          \/ v = worker[w].upload /\ j = k /\ object'[v][j] = "none"
    BY <1>1, <1>3, RaisesFields
  <2>2. worker'[w].clean = FALSE
    BY <1>3, DiscardedFields
  <2>. QED
    BY <1>1, <2>1, <2>2
<1>. QED
  BY <1>2, <1>3 DEF DiscardObject

\* What one delete of a clean-up changes.
LEMMA PurgeObjectDoes ==
  ASSUME TypeOK, CallsAreWhole, NEW w \in Workers, NEW k \in Keys, PurgeObject(w, k)
  PROVE  /\ worker[w].at = "purge" /\ worker'[w].at = "purge"
         /\ worker[w].upload \in Uploads
         /\ worker'[w].upload = worker[w].upload
         /\ worker'[w].token = worker[w].token
         /\ worker'[w].todo = worker[w].todo \ {k}
         /\ \A v \in Workers : v # w => worker'[v] = worker[v]
         /\ object'[worker[w].upload][k] = "none"
         /\ \A v \in Uploads, j \in Keys :
              v # worker[w].upload \/ j # k => object'[v][j] = object[v][j]
         /\ UNCHANGED <<row, copy, issued>>
<1>1. worker[w].upload \in Uploads /\ worker[w] \in Calls
  BY OwnUpload, WorkerCall DEF PurgeObject
<1>2. /\ worker'[w] = [worker[w] EXCEPT !.todo = @ \ {k}]
      /\ \A v \in Workers : v # w => worker'[v] = worker[v]
  BY CallFields DEF PurgeObject
<1>. QED
  BY <1>1, <1>2, DeletesFields DEF PurgeObject, Calls

\* What _mark_media_upload_ready changes.
LEMMA MarkReadyDoes ==
  ASSUME TypeOK, CallsAreWhole, NEW w \in Workers, MarkReady(w)
  PROVE  /\ worker[w].at = "mark" /\ worker'[w].at \in {"sweep", "check"}
         /\ worker'[w].upload = worker[w].upload
         /\ worker'[w].token = worker[w].token
         /\ \A v \in Workers : v # w => worker'[v] = worker[v]
         /\ worker[w].upload \in Uploads
         /\ worker[w].token \in Tokens
         /\ ClaimIsCurrent(w)
         /\ row'[worker[w].upload].status = "ready"
         /\ row'[worker[w].upload].key = worker[w].token
         /\ row'[worker[w].upload].token = None
         /\ \A v \in Uploads : v # worker[w].upload => row'[v] = row[v]
         /\ UNCHANGED <<object, copy, issued>>
<1> DEFINE u == worker[w].upload
<1>1. u \in Uploads /\ worker[w].token \in Tokens /\ row[u] \in Rows
  BY OwnRow, OwnUpload DEF MarkReady, Holding, Finalizing
<1>2. /\ row'[u] = [row[u] EXCEPT !.status = "ready", !.key = worker[w].token,
                                  !.token = None, !.expired = FALSE]
      /\ \A v \in Uploads : v # u => row'[v] = row[v]
  BY <1>1, RowFields DEF MarkReady
<1>3. row'[u].status = "ready" /\ row'[u].key = worker[w].token /\ row'[u].token = None
  BY <1>1, <1>2 DEF Rows
<1>4. /\ worker'[w].at \in {"sweep", "check"}
      /\ worker'[w].upload = worker[w].upload
      /\ worker'[w].token = worker[w].token
      /\ \A v \in Workers : v # w => worker'[v] = worker[v]
  BY GoesToFields DEF MarkReady
<1>. QED
  BY <1>1, <1>2, <1>3, <1>4 DEF MarkReady

\* What the reclaiming branch of _claim_media_upload changes.
LEMMA ClaimReclaimDoes ==
  ASSUME TypeOK, NEW w \in Workers, NEW u \in Uploads, ClaimReclaim(w, u)
  PROVE  /\ worker[w].at = "idle" /\ worker'[w].at = "reclaim"
         /\ worker'[w].upload = u /\ worker'[w].token = row[u].token
         /\ \A v \in Workers : v # w => worker'[v] = worker[v]
         /\ row[u].token \in Tokens
         /\ row[u].status \in {"finalizing", "reclaiming"} /\ row'[u].status = "reclaiming"
         /\ row'[u].token = row[u].token /\ row'[u].key = row[u].key
         /\ \A v \in Uploads : v # u => row'[v] = row[v]
         /\ UNCHANGED <<object, copy, issued>>
<1>1. /\ worker'[w].at = "reclaim"
      /\ worker'[w].upload = u /\ worker'[w].token = row[u].token
      /\ \A v \in Workers : v # w => worker'[v] = worker[v]
  BY DEF TypeOK, Calls, ClaimReclaim, Begins, CallBecomes, NoCall
<1>2. row[u] \in Rows
  BY RowIsRow
<1>3. /\ row'[u] = [row[u] EXCEPT !.status = "reclaiming"]
      /\ \A v \in Uploads : v # u => row'[v] = row[v]
  BY RowFields DEF ClaimReclaim
<1>. QED
  BY <1>1, <1>2, <1>3 DEF Rows, ClaimReclaim, Begins

\* What _start_reclaimed_claim changes.
LEMMA RestartDoes ==
  ASSUME TypeOK, CallsAreWhole, NEW w \in Workers, NEW t \in Tokens, Restart(w, t)
  PROVE  /\ worker[w].at = "restart" /\ worker'[w].at = "inspect"
         /\ worker'[w].upload = worker[w].upload /\ worker'[w].token = t
         /\ \A v \in Workers : v # w => worker'[v] = worker[v]
         /\ t \notin issued /\ issued' = issued \cup {t}
         /\ worker[w].upload \in Uploads
         /\ row[worker[w].upload].status = "reclaiming"
         /\ row[worker[w].upload].token = worker[w].token
         /\ row'[worker[w].upload].status = "finalizing"
         /\ row'[worker[w].upload].token = t
         /\ row'[worker[w].upload].key = row[worker[w].upload].key
         /\ \A v \in Uploads : v # worker[w].upload => row'[v] = row[v]
         /\ UNCHANGED <<object, copy>>
<1> DEFINE u == worker[w].upload
<1>1. u \in Uploads /\ row[u] \in Rows
  BY OwnRow DEF Restart
<1>2. /\ row'[u] = [row[u] EXCEPT !.status = "finalizing", !.token = t, !.expired = FALSE]
      /\ \A v \in Uploads : v # u => row'[v] = row[v]
  BY <1>1, RowFields DEF Restart, Finalize
<1>3. row'[u].status = "finalizing" /\ row'[u].token = t /\ row'[u].key = row[u].key
  BY <1>1, <1>2 DEF Rows
<1>4. worker[w] \in Calls
  BY WorkerCall
<1>5. /\ worker'[w] = [worker[w] EXCEPT !.at = "inspect", !.token = t]
      /\ \A v \in Workers : v # w => worker'[v] = worker[v]
  BY CallFields DEF Restart
<1>6. worker'[w].at = "inspect" /\ worker'[w].upload = u /\ worker'[w].token = t
  BY <1>4, <1>5 DEF Calls
<1>. QED
  BY <1>1, <1>2, <1>3, <1>5, <1>6 DEF Restart, Finalize, StillReclaiming

-----------------------------------------------------------------------------
(* Preservation of the parts of the invariant                               *)

\* Every step keeps calls whole: an upload and a drawn token where they are used.
LEMMA CallsStep ==
  ASSUME TypeOK, CallsAreWhole, RowsAreWhole, [Next]_vars
  PROVE  CallsAreWhole'
<1> USE DEF CallsAreWhole, RowsAreWhole, Holding, Finalizing
<1>1. ASSUME NEW w \in Workers, NEW u \in Uploads, Initiate(w, u)
     PROVE  CallsAreWhole'
  BY <1>1, InitiateDoes
<1>2. ASSUME NEW w \in Workers, SignUrlFails(w)
     PROVE  CallsAreWhole'
  BY <1>2, ReturnsFields DEF SignUrlFails
<1>3. ASSUME NEW w \in Workers, SignUrl(w) \/ RestartRefused(w) \/ Crash(w)
     PROVE  CallsAreWhole'
  BY <1>3, ReturnsFields DEF SignUrl, RestartRefused, Crash
<1>4. ASSUME NEW w \in Workers, NEW u \in Uploads, NEW t \in Tokens, ClaimFresh(w, u, t)
     PROVE  CallsAreWhole'
  BY <1>4 DEF ClaimFresh, TypeOK, Calls, CallBecomes, Begins, NoCall, Finalize
<1>5. ASSUME NEW w \in Workers, NEW u \in Uploads, ClaimReclaim(w, u)
     PROVE  CallsAreWhole'
  BY <1>5, ClaimReclaimDoes, MediaAssumption
<1>6. ASSUME NEW w \in Workers, ReclaimDeletes(w)
     PROVE  CallsAreWhole'
  BY <1>6, GoesToFields DEF ReclaimDeletes
<1>7. ASSUME NEW w \in Workers, ReclaimFails(w) \/ DropFails(w)
     PROVE  CallsAreWhole'
  BY <1>7, ReturnsFields DEF ReclaimFails, DropFails
<1>8. ASSUME NEW w \in Workers, NEW k \in Keys, PurgeFails(w, k)
     PROVE  CallsAreWhole'
  BY <1>8, ReturnsFields DEF PurgeFails
<1>9. ASSUME NEW w \in Workers, Sweep(w)
     PROVE  CallsAreWhole'
  BY <1>9, ReturnsFields DEF Sweep
<1>10. ASSUME NEW w \in Workers, NEW t \in Tokens, Restart(w, t)
     PROVE  CallsAreWhole'
  BY <1>10, RestartDoes DEF Finalize
<1>11. ASSUME NEW w \in Workers, InspectPasses(w) \/ InspectFails(w) \/ CopyRaises(w)
                                 \/ VerifyFails(w) \/ MarkFails(w)
     PROVE  CallsAreWhole'
  BY <1>11, GoesToFields DEF InspectPasses, InspectFails, CopyRaises, VerifyFails, MarkFails
<1>12. ASSUME NEW w \in Workers, Promote(w)
     PROVE  CallsAreWhole'
  BY <1>12 DEF Promote, TypeOK, Calls, CallBecomes
<1>13. ASSUME NEW w \in Workers, CopyReturns(w)
     PROVE  CallsAreWhole'
  BY <1>13 DEF CopyReturns, TypeOK, Calls, CallBecomes
<1>14. ASSUME NEW w \in Workers, VerifyPasses(w)
     PROVE  CallsAreWhole'
  BY <1>14, GoesToFields DEF VerifyPasses
<1>15. ASSUME NEW w \in Workers, MarkReady(w)
     PROVE  CallsAreWhole'
  BY <1>15, MarkReadyDoes
<1>16. ASSUME NEW w \in Workers, CheckReference(w)
     PROVE  CallsAreWhole'
  BY <1>16, GoesToFields, ReturnsFields DEF CheckReference, AfterDrop
<1>17. ASSUME NEW w \in Workers, DropDeletes(w)
     PROVE  CallsAreWhole'
  BY <1>17, GoesToFields, ReturnsFields DEF DropDeletes, AfterDrop
<1>18. ASSUME NEW w \in Workers, Acknowledge(w)
     PROVE  CallsAreWhole'
  BY <1>18, AcknowledgeDoes
<1>19. ASSUME NEW w \in Workers, NEW u \in Uploads, ClaimDiscard(w, u)
     PROVE  CallsAreWhole'
  BY <1>19 DEF ClaimDiscard, TypeOK, Calls, CallBecomes, Begins, NoCall
<1>20. ASSUME NEW w \in Workers, NEW k \in Keys, DiscardObject(w, k)
     PROVE  CallsAreWhole'
  BY <1>20, DiscardObjectDoes
<1>21. ASSUME NEW w \in Workers, FinishDiscard(w)
     PROVE  CallsAreWhole'
  BY <1>21, ReturnsFields DEF FinishDiscard
<1>22. ASSUME NEW w \in Workers, NEW u \in Uploads, ClaimCleanup(w, u)
     PROVE  CallsAreWhole'
  BY <1>22, ClaimCleanupDoes
<1>23. ASSUME NEW w \in Workers, NEW k \in Keys, PurgeObject(w, k)
     PROVE  CallsAreWhole'
  BY <1>23, PurgeObjectDoes
<1>24. ASSUME NEW w \in Workers, FinishCleanup(w)
     PROVE  CallsAreWhole'
  BY <1>24, FinishCleanupDoes
<1>25. ASSUME NEW u \in Uploads, NEW c \in {"good", "bad"}, Put(u, c)
     PROVE  CallsAreWhole'
  BY <1>25 DEF Put
<1>26. ASSUME NEW u \in Uploads, BucketLifecycle(u)
     PROVE  CallsAreWhole'
  BY <1>26 DEF BucketLifecycle
<1>27. ASSUME NEW u \in Uploads, Attach(u)
     PROVE  CallsAreWhole'
  BY <1>27 DEF Attach
<1>28. ASSUME NEW u \in Uploads, Expire(u)
     PROVE  CallsAreWhole'
  BY <1>28 DEF Expire
<1>29. ASSUME NEW u \in Uploads, Retire(u)
     PROVE  CallsAreWhole'
  BY <1>29 DEF Retire
<1>30. ASSUME NEW u \in Uploads, NEW t \in Tokens, CopyLands(u, t)
     PROVE  CallsAreWhole'
  BY <1>30 DEF CopyLands
<1>31. ASSUME NEW u \in Uploads, NEW t \in Tokens, CopyIsLost(u, t)
     PROVE  CallsAreWhole'
  BY <1>31 DEF CopyIsLost
<1>32. CASE UNCHANGED vars
  BY <1>32 DEF vars
<1>. QED
  BY <1>1, <1>2, <1>3, <1>4, <1>5, <1>6, <1>7, <1>8, <1>9, <1>10, <1>11, <1>12, <1>13, <1>14,
     <1>15, <1>16, <1>17, <1>18, <1>19, <1>20, <1>21, <1>22, <1>23, <1>24, <1>25, <1>26, <1>27,
     <1>28, <1>29, <1>30, <1>31, <1>32
     DEF Next, Complete, Discard, Cleanup, Environment

\* Every step keeps the tokens and keys of rows among the drawn ones.
LEMMA RowsStep ==
  ASSUME TypeOK, CallsAreWhole, RowsAreWhole, [Next]_vars
  PROVE  RowsAreWhole'
<1> USE DEF CallsAreWhole, RowsAreWhole, Holding, Finalizing
<1>1. ASSUME NEW w \in Workers, NEW u \in Uploads, Initiate(w, u)
     PROVE  RowsAreWhole'
  BY <1>1, InitiateDoes
<1>2. ASSUME NEW w \in Workers, SignUrlFails(w)
     PROVE  RowsAreWhole'
  BY <1>2, OwnRow, RowFields DEF SignUrlFails, Rows
<1>3. ASSUME NEW w \in Workers, SignUrl(w) \/ RestartRefused(w) \/ Crash(w)
     PROVE  RowsAreWhole'
  BY <1>3 DEF SignUrl, RestartRefused, Crash
<1>4. ASSUME NEW w \in Workers, NEW u \in Uploads, NEW t \in Tokens, ClaimFresh(w, u, t)
     PROVE  RowsAreWhole'
  BY <1>4 DEF ClaimFresh, Finalize, TypeOK, RowBecomes, Rows
<1>5. ASSUME NEW w \in Workers, NEW u \in Uploads, ClaimReclaim(w, u)
     PROVE  RowsAreWhole'
  BY <1>5, ClaimReclaimDoes
<1>6. ASSUME NEW w \in Workers, ReclaimDeletes(w)
     PROVE  RowsAreWhole'
  BY <1>6 DEF ReclaimDeletes
<1>7. ASSUME NEW w \in Workers, ReclaimFails(w) \/ DropFails(w)
     PROVE  RowsAreWhole'
  BY <1>7 DEF ReclaimFails, DropFails
<1>8. ASSUME NEW w \in Workers, NEW k \in Keys, PurgeFails(w, k)
     PROVE  RowsAreWhole'
  BY <1>8 DEF PurgeFails
<1>9. ASSUME NEW w \in Workers, Sweep(w)
     PROVE  RowsAreWhole'
  BY <1>9 DEF Sweep
<1>10. ASSUME NEW w \in Workers, NEW t \in Tokens, Restart(w, t)
     PROVE  RowsAreWhole'
  BY <1>10, RestartDoes DEF Finalize
<1>11. ASSUME NEW w \in Workers, InspectPasses(w) \/ InspectFails(w) \/ CopyRaises(w)
                                 \/ VerifyFails(w) \/ MarkFails(w)
     PROVE  RowsAreWhole'
  BY <1>11 DEF InspectPasses, InspectFails, CopyRaises, VerifyFails, MarkFails
<1>12. ASSUME NEW w \in Workers, Promote(w)
     PROVE  RowsAreWhole'
  BY <1>12 DEF Promote
<1>13. ASSUME NEW w \in Workers, CopyReturns(w)
     PROVE  RowsAreWhole'
  BY <1>13 DEF CopyReturns
<1>14. ASSUME NEW w \in Workers, VerifyPasses(w)
     PROVE  RowsAreWhole'
  BY <1>14 DEF VerifyPasses
<1>15. ASSUME NEW w \in Workers, MarkReady(w)
     PROVE  RowsAreWhole'
  BY <1>15, MarkReadyDoes, MediaAssumption
<1>16. ASSUME NEW w \in Workers, CheckReference(w)
     PROVE  RowsAreWhole'
  BY <1>16 DEF CheckReference
<1>17. ASSUME NEW w \in Workers, DropDeletes(w)
     PROVE  RowsAreWhole'
  BY <1>17 DEF DropDeletes
<1>18. ASSUME NEW w \in Workers, Acknowledge(w)
     PROVE  RowsAreWhole'
  BY <1>18, AcknowledgeDoes
<1>19. ASSUME NEW w \in Workers, NEW u \in Uploads, ClaimDiscard(w, u)
     PROVE  RowsAreWhole'
  BY <1>19 DEF ClaimDiscard, TypeOK, RowBecomes, Rows
<1>20. ASSUME NEW w \in Workers, NEW k \in Keys, DiscardObject(w, k)
     PROVE  RowsAreWhole'
  BY <1>20 DEF DiscardObject
<1>21. ASSUME NEW w \in Workers, FinishDiscard(w)
     PROVE  RowsAreWhole'
  BY <1>21, OwnRow, RowFields DEF FinishDiscard, Rows
<1>22. ASSUME NEW w \in Workers, NEW u \in Uploads, ClaimCleanup(w, u)
     PROVE  RowsAreWhole'
  BY <1>22, ClaimCleanupDoes
<1>23. ASSUME NEW w \in Workers, NEW k \in Keys, PurgeObject(w, k)
     PROVE  RowsAreWhole'
  BY <1>23, PurgeObjectDoes
<1>24. ASSUME NEW w \in Workers, FinishCleanup(w)
     PROVE  RowsAreWhole'
  BY <1>24, FinishCleanupDoes
<1>25. ASSUME NEW u \in Uploads, NEW c \in {"good", "bad"}, Put(u, c)
     PROVE  RowsAreWhole'
  BY <1>25 DEF Put
<1>26. ASSUME NEW u \in Uploads, BucketLifecycle(u)
     PROVE  RowsAreWhole'
  BY <1>26 DEF BucketLifecycle
<1>27. ASSUME NEW u \in Uploads, Attach(u)
     PROVE  RowsAreWhole'
  BY <1>27, RowIsRow, RowFields DEF Attach, Rows
<1>28. ASSUME NEW u \in Uploads, Expire(u)
     PROVE  RowsAreWhole'
  BY <1>28, RowIsRow, RowFields DEF Expire, Rows
<1>29. ASSUME NEW u \in Uploads, Retire(u)
     PROVE  RowsAreWhole'
  BY <1>29 DEF Retire, TypeOK, RowBecomes, Rows
<1>30. ASSUME NEW u \in Uploads, NEW t \in Tokens, CopyLands(u, t)
     PROVE  RowsAreWhole'
  BY <1>30 DEF CopyLands
<1>31. ASSUME NEW u \in Uploads, NEW t \in Tokens, CopyIsLost(u, t)
     PROVE  RowsAreWhole'
  BY <1>31 DEF CopyIsLost
<1>32. CASE UNCHANGED vars
  BY <1>32 DEF vars
<1>. QED
  BY <1>1, <1>2, <1>3, <1>4, <1>5, <1>6, <1>7, <1>8, <1>9, <1>10, <1>11, <1>12, <1>13, <1>14,
     <1>15, <1>16, <1>17, <1>18, <1>19, <1>20, <1>21, <1>22, <1>23, <1>24, <1>25, <1>26, <1>27,
     <1>28, <1>29, <1>30, <1>31, <1>32
     DEF Next, Complete, Discard, Cleanup, Environment

\* Every step leaves undrawn tokens without a trace in the bucket.
LEMMA FreshStep ==
  ASSUME TypeOK, CallsAreWhole, FreshTokens, [Next]_vars
  PROVE  FreshTokens'
<1> USE DEF TypeOK, CallsAreWhole, FreshTokens, Holding, Finalizing
<1>1. ASSUME NEW w \in Workers, NEW u \in Uploads, Initiate(w, u)
     PROVE  FreshTokens'
  BY <1>1, InitiateDoes
<1>2. ASSUME NEW w \in Workers, SignUrlFails(w)
     PROVE  FreshTokens'
  BY <1>2 DEF SignUrlFails
<1>3. ASSUME NEW w \in Workers, SignUrl(w) \/ RestartRefused(w) \/ Crash(w)
     PROVE  FreshTokens'
  BY <1>3 DEF SignUrl, RestartRefused, Crash
<1>4. ASSUME NEW w \in Workers, NEW u \in Uploads, NEW t \in Tokens, ClaimFresh(w, u, t)
     PROVE  FreshTokens'
  BY <1>4 DEF ClaimFresh, Finalize
<1>5. ASSUME NEW w \in Workers, NEW u \in Uploads, ClaimReclaim(w, u)
     PROVE  FreshTokens'
  BY <1>5, ClaimReclaimDoes
<1>6. ASSUME NEW w \in Workers, ReclaimDeletes(w)
     PROVE  FreshTokens'
  BY <1>6 DEF ReclaimDeletes
<1>7. ASSUME NEW w \in Workers, ReclaimFails(w) \/ DropFails(w)
     PROVE  FreshTokens'
  BY <1>7 DEF ReclaimFails, DropFails
<1>8. ASSUME NEW w \in Workers, NEW k \in Keys, PurgeFails(w, k)
     PROVE  FreshTokens'
  BY <1>8 DEF PurgeFails
<1>9. ASSUME NEW w \in Workers, Sweep(w)
     PROVE  FreshTokens'
  BY <1>9 DEF Sweep
<1>10. ASSUME NEW w \in Workers, NEW t \in Tokens, Restart(w, t)
     PROVE  FreshTokens'
  BY <1>10, RestartDoes DEF Finalize
<1>11. ASSUME NEW w \in Workers, InspectPasses(w) \/ InspectFails(w) \/ CopyRaises(w)
                                 \/ VerifyFails(w) \/ MarkFails(w)
     PROVE  FreshTokens'
  BY <1>11 DEF InspectPasses, InspectFails, CopyRaises, VerifyFails, MarkFails
<1>12. ASSUME NEW w \in Workers, Promote(w)
     PROVE  FreshTokens'
  BY <1>12 DEF Promote
<1>13. ASSUME NEW w \in Workers, CopyReturns(w)
     PROVE  FreshTokens'
  BY <1>13 DEF CopyReturns
<1>14. ASSUME NEW w \in Workers, VerifyPasses(w)
     PROVE  FreshTokens'
  BY <1>14 DEF VerifyPasses
<1>15. ASSUME NEW w \in Workers, MarkReady(w)
     PROVE  FreshTokens'
  BY <1>15, MarkReadyDoes
<1>16. ASSUME NEW w \in Workers, CheckReference(w)
     PROVE  FreshTokens'
  BY <1>16 DEF CheckReference
<1>17. ASSUME NEW w \in Workers, DropDeletes(w)
     PROVE  FreshTokens'
  BY <1>17 DEF DropDeletes
<1>18. ASSUME NEW w \in Workers, Acknowledge(w)
     PROVE  FreshTokens'
  BY <1>18, AcknowledgeDoes
<1>19. ASSUME NEW w \in Workers, NEW u \in Uploads, ClaimDiscard(w, u)
     PROVE  FreshTokens'
  BY <1>19 DEF ClaimDiscard
<1>20. ASSUME NEW w \in Workers, NEW k \in Keys, DiscardObject(w, k)
     PROVE  FreshTokens'
  BY <1>20 DEF DiscardObject
<1>21. ASSUME NEW w \in Workers, FinishDiscard(w)
     PROVE  FreshTokens'
  BY <1>21 DEF FinishDiscard
<1>22. ASSUME NEW w \in Workers, NEW u \in Uploads, ClaimCleanup(w, u)
     PROVE  FreshTokens'
  BY <1>22, ClaimCleanupDoes
<1>23. ASSUME NEW w \in Workers, NEW k \in Keys, PurgeObject(w, k)
     PROVE  FreshTokens'
  BY <1>23, PurgeObjectDoes
<1>24. ASSUME NEW w \in Workers, FinishCleanup(w)
     PROVE  FreshTokens'
  BY <1>24, FinishCleanupDoes
<1>25. ASSUME NEW u \in Uploads, NEW c \in {"good", "bad"}, Put(u, c)
     PROVE  FreshTokens'
  BY <1>25 DEF Put
<1>26. ASSUME NEW u \in Uploads, BucketLifecycle(u)
     PROVE  FreshTokens'
  BY <1>26 DEF BucketLifecycle
<1>27. ASSUME NEW u \in Uploads, Attach(u)
     PROVE  FreshTokens'
  BY <1>27 DEF Attach
<1>28. ASSUME NEW u \in Uploads, Expire(u)
     PROVE  FreshTokens'
  BY <1>28 DEF Expire
<1>29. ASSUME NEW u \in Uploads, Retire(u)
     PROVE  FreshTokens'
  BY <1>29 DEF Retire
<1>30. ASSUME NEW u \in Uploads, NEW t \in Tokens, CopyLands(u, t)
     PROVE  FreshTokens'
  BY <1>30 DEF CopyLands
<1>31. ASSUME NEW u \in Uploads, NEW t \in Tokens, CopyIsLost(u, t)
     PROVE  FreshTokens'
  BY <1>31 DEF CopyIsLost
<1>32. CASE UNCHANGED vars
  BY <1>32 DEF vars
<1>. QED
  BY <1>1, <1>2, <1>3, <1>4, <1>5, <1>6, <1>7, <1>8, <1>9, <1>10, <1>11, <1>12, <1>13, <1>14,
     <1>15, <1>16, <1>17, <1>18, <1>19, <1>20, <1>21, <1>22, <1>23, <1>24, <1>25, <1>26, <1>27,
     <1>28, <1>29, <1>30, <1>31, <1>32
     DEF Next, Complete, Discard, Cleanup, Environment

\* No step makes two finalizers hold the same token of an upload.
LEMMA SoleHolderStep ==
  ASSUME TypeOK, CallsAreWhole, SoleHolder, [Next]_vars
  PROVE  SoleHolder'
<1> USE DEF CallsAreWhole, SoleHolder, Holding, Finalizing
<1>1. ASSUME NEW w \in Workers, NEW u \in Uploads, Initiate(w, u)
     PROVE  SoleHolder'
  BY <1>1, InitiateDoes
<1>2. ASSUME NEW w \in Workers, SignUrlFails(w)
     PROVE  SoleHolder'
  BY <1>2, ReturnsFields DEF SignUrlFails
<1>3. ASSUME NEW w \in Workers, SignUrl(w) \/ RestartRefused(w) \/ Crash(w)
     PROVE  SoleHolder'
  BY <1>3, ReturnsFields DEF SignUrl, RestartRefused, Crash
<1>4. ASSUME NEW w \in Workers, NEW u \in Uploads, NEW t \in Tokens, ClaimFresh(w, u, t)
     PROVE  SoleHolder'
  BY <1>4 DEF ClaimFresh, TypeOK, Calls, CallBecomes, Begins, NoCall, Finalize
<1>5. ASSUME NEW w \in Workers, NEW u \in Uploads, ClaimReclaim(w, u)
     PROVE  SoleHolder'
  BY <1>5, ClaimReclaimDoes
<1>6. ASSUME NEW w \in Workers, ReclaimDeletes(w)
     PROVE  SoleHolder'
  BY <1>6, GoesToFields DEF ReclaimDeletes
<1>7. ASSUME NEW w \in Workers, ReclaimFails(w) \/ DropFails(w)
     PROVE  SoleHolder'
  BY <1>7, ReturnsFields DEF ReclaimFails, DropFails
<1>8. ASSUME NEW w \in Workers, NEW k \in Keys, PurgeFails(w, k)
     PROVE  SoleHolder'
  BY <1>8, ReturnsFields DEF PurgeFails
<1>9. ASSUME NEW w \in Workers, Sweep(w)
     PROVE  SoleHolder'
  BY <1>9, ReturnsFields DEF Sweep
<1>10. ASSUME NEW w \in Workers, NEW t \in Tokens, Restart(w, t)
     PROVE  SoleHolder'
  BY <1>10, RestartDoes DEF Finalize
<1>11. ASSUME NEW w \in Workers, InspectPasses(w) \/ InspectFails(w) \/ CopyRaises(w)
                                 \/ VerifyFails(w) \/ MarkFails(w)
     PROVE  SoleHolder'
  BY <1>11, GoesToFields DEF InspectPasses, InspectFails, CopyRaises, VerifyFails, MarkFails
<1>12. ASSUME NEW w \in Workers, Promote(w)
     PROVE  SoleHolder'
  BY <1>12 DEF Promote, TypeOK, Calls, CallBecomes
<1>13. ASSUME NEW w \in Workers, CopyReturns(w)
     PROVE  SoleHolder'
  BY <1>13 DEF CopyReturns, TypeOK, Calls, CallBecomes
<1>14. ASSUME NEW w \in Workers, VerifyPasses(w)
     PROVE  SoleHolder'
  BY <1>14, GoesToFields DEF VerifyPasses
<1>15. ASSUME NEW w \in Workers, MarkReady(w)
     PROVE  SoleHolder'
  BY <1>15, MarkReadyDoes
<1>16. ASSUME NEW w \in Workers, CheckReference(w)
     PROVE  SoleHolder'
  BY <1>16, GoesToFields, ReturnsFields DEF CheckReference, AfterDrop
<1>17. ASSUME NEW w \in Workers, DropDeletes(w)
     PROVE  SoleHolder'
  BY <1>17, GoesToFields, ReturnsFields DEF DropDeletes, AfterDrop
<1>18. ASSUME NEW w \in Workers, Acknowledge(w)
     PROVE  SoleHolder'
  BY <1>18, AcknowledgeDoes
<1>19. ASSUME NEW w \in Workers, NEW u \in Uploads, ClaimDiscard(w, u)
     PROVE  SoleHolder'
  BY <1>19 DEF ClaimDiscard, TypeOK, Calls, CallBecomes, Begins, NoCall
<1>20. ASSUME NEW w \in Workers, NEW k \in Keys, DiscardObject(w, k)
     PROVE  SoleHolder'
  <2>1. /\ worker[w].at = "discard" /\ worker'[w].at = "discard"
        /\ \A v \in Workers : v # w => worker'[v] = worker[v]
    BY <1>20, DiscardObjectDoes
  <2>. QED
    BY <2>1
<1>21. ASSUME NEW w \in Workers, FinishDiscard(w)
     PROVE  SoleHolder'
  BY <1>21, ReturnsFields DEF FinishDiscard
<1>22. ASSUME NEW w \in Workers, NEW u \in Uploads, ClaimCleanup(w, u)
     PROVE  SoleHolder'
  BY <1>22, ClaimCleanupDoes
<1>23. ASSUME NEW w \in Workers, NEW k \in Keys, PurgeObject(w, k)
     PROVE  SoleHolder'
  BY <1>23, PurgeObjectDoes
<1>24. ASSUME NEW w \in Workers, FinishCleanup(w)
     PROVE  SoleHolder'
  BY <1>24, FinishCleanupDoes
<1>25. ASSUME NEW u \in Uploads, NEW c \in {"good", "bad"}, Put(u, c)
     PROVE  SoleHolder'
  BY <1>25 DEF Put
<1>26. ASSUME NEW u \in Uploads, BucketLifecycle(u)
     PROVE  SoleHolder'
  BY <1>26 DEF BucketLifecycle
<1>27. ASSUME NEW u \in Uploads, Attach(u)
     PROVE  SoleHolder'
  BY <1>27 DEF Attach
<1>28. ASSUME NEW u \in Uploads, Expire(u)
     PROVE  SoleHolder'
  BY <1>28 DEF Expire
<1>29. ASSUME NEW u \in Uploads, Retire(u)
     PROVE  SoleHolder'
  BY <1>29 DEF Retire
<1>30. ASSUME NEW u \in Uploads, NEW t \in Tokens, CopyLands(u, t)
     PROVE  SoleHolder'
  BY <1>30 DEF CopyLands
<1>31. ASSUME NEW u \in Uploads, NEW t \in Tokens, CopyIsLost(u, t)
     PROVE  SoleHolder'
  BY <1>31 DEF CopyIsLost
<1>32. CASE UNCHANGED vars
  BY <1>32 DEF vars
<1>. QED
  BY <1>1, <1>2, <1>3, <1>4, <1>5, <1>6, <1>7, <1>8, <1>9, <1>10, <1>11, <1>12, <1>13, <1>14,
     <1>15, <1>16, <1>17, <1>18, <1>19, <1>20, <1>21, <1>22, <1>23, <1>24, <1>25, <1>26, <1>27,
     <1>28, <1>29, <1>30, <1>31, <1>32
     DEF Next, Complete, Discard, Cleanup, Environment

\* Every transaction saves a row the table accepts.
LEMMA RowConstraintStep ==
  ASSUME TypeOK, CallsAreWhole, RowsAreWhole, RowConstraint, [Next]_vars
  PROVE  RowConstraint'
<1> USE DEF CallsAreWhole, RowsAreWhole, RowConstraint, Usable, Unattached, Holding, Finalizing
<1>1. ASSUME NEW w \in Workers, NEW u \in Uploads, Initiate(w, u)
     PROVE  RowConstraint'
  BY <1>1, InitiateDoes
<1>2. ASSUME NEW w \in Workers, SignUrlFails(w)
     PROVE  RowConstraint'
  BY <1>2, OwnRow, RowFields DEF SignUrlFails, Rows
<1>3. ASSUME NEW w \in Workers, SignUrl(w) \/ RestartRefused(w) \/ Crash(w)
     PROVE  RowConstraint'
  BY <1>3 DEF SignUrl, RestartRefused, Crash
<1>4. ASSUME NEW w \in Workers, NEW u \in Uploads, NEW t \in Tokens, ClaimFresh(w, u, t)
     PROVE  RowConstraint'
  BY <1>4, MediaAssumption DEF ClaimFresh, Finalize, TypeOK, RowBecomes, Rows
<1>5. ASSUME NEW w \in Workers, NEW u \in Uploads, ClaimReclaim(w, u)
     PROVE  RowConstraint'
  BY <1>5, ClaimReclaimDoes
<1>6. ASSUME NEW w \in Workers, ReclaimDeletes(w)
     PROVE  RowConstraint'
  BY <1>6 DEF ReclaimDeletes
<1>7. ASSUME NEW w \in Workers, ReclaimFails(w) \/ DropFails(w)
     PROVE  RowConstraint'
  BY <1>7 DEF ReclaimFails, DropFails
<1>8. ASSUME NEW w \in Workers, NEW k \in Keys, PurgeFails(w, k)
     PROVE  RowConstraint'
  BY <1>8 DEF PurgeFails
<1>9. ASSUME NEW w \in Workers, Sweep(w)
     PROVE  RowConstraint'
  BY <1>9 DEF Sweep
<1>10. ASSUME NEW w \in Workers, NEW t \in Tokens, Restart(w, t)
     PROVE  RowConstraint'
  BY <1>10, RestartDoes, MediaAssumption DEF Finalize
<1>11. ASSUME NEW w \in Workers, InspectPasses(w) \/ InspectFails(w) \/ CopyRaises(w)
                                 \/ VerifyFails(w) \/ MarkFails(w)
     PROVE  RowConstraint'
  BY <1>11 DEF InspectPasses, InspectFails, CopyRaises, VerifyFails, MarkFails
<1>12. ASSUME NEW w \in Workers, Promote(w)
     PROVE  RowConstraint'
  BY <1>12 DEF Promote
<1>13. ASSUME NEW w \in Workers, CopyReturns(w)
     PROVE  RowConstraint'
  BY <1>13 DEF CopyReturns
<1>14. ASSUME NEW w \in Workers, VerifyPasses(w)
     PROVE  RowConstraint'
  BY <1>14 DEF VerifyPasses
<1>15. ASSUME NEW w \in Workers, MarkReady(w)
     PROVE  RowConstraint'
  BY <1>15, MarkReadyDoes, MediaAssumption, OwnUpload
<1>16. ASSUME NEW w \in Workers, CheckReference(w)
     PROVE  RowConstraint'
  BY <1>16 DEF CheckReference
<1>17. ASSUME NEW w \in Workers, DropDeletes(w)
     PROVE  RowConstraint'
  BY <1>17 DEF DropDeletes
<1>18. ASSUME NEW w \in Workers, Acknowledge(w)
     PROVE  RowConstraint'
  BY <1>18, AcknowledgeDoes
<1>19. ASSUME NEW w \in Workers, NEW u \in Uploads, ClaimDiscard(w, u)
     PROVE  RowConstraint'
  BY <1>19 DEF ClaimDiscard, TypeOK, RowBecomes, Rows
<1>20. ASSUME NEW w \in Workers, NEW k \in Keys, DiscardObject(w, k)
     PROVE  RowConstraint'
  BY <1>20 DEF DiscardObject
<1>21. ASSUME NEW w \in Workers, FinishDiscard(w)
     PROVE  RowConstraint'
  BY <1>21, OwnRow, RowFields DEF FinishDiscard, Rows
<1>22. ASSUME NEW w \in Workers, NEW u \in Uploads, ClaimCleanup(w, u)
     PROVE  RowConstraint'
  BY <1>22, ClaimCleanupDoes
<1>23. ASSUME NEW w \in Workers, NEW k \in Keys, PurgeObject(w, k)
     PROVE  RowConstraint'
  BY <1>23, PurgeObjectDoes
<1>24. ASSUME NEW w \in Workers, FinishCleanup(w)
     PROVE  RowConstraint'
  BY <1>24, FinishCleanupDoes
<1>25. ASSUME NEW u \in Uploads, NEW c \in {"good", "bad"}, Put(u, c)
     PROVE  RowConstraint'
  BY <1>25 DEF Put
<1>26. ASSUME NEW u \in Uploads, BucketLifecycle(u)
     PROVE  RowConstraint'
  BY <1>26 DEF BucketLifecycle
<1>27. ASSUME NEW u \in Uploads, Attach(u)
     PROVE  RowConstraint'
  BY <1>27, RowIsRow, RowFields DEF Attach, Rows
<1>28. ASSUME NEW u \in Uploads, Expire(u)
     PROVE  RowConstraint'
  BY <1>28, RowIsRow, RowFields DEF Expire, Rows
<1>29. ASSUME NEW u \in Uploads, Retire(u)
     PROVE  RowConstraint'
  BY <1>29 DEF Retire, TypeOK, RowBecomes, Rows
<1>30. ASSUME NEW u \in Uploads, NEW t \in Tokens, CopyLands(u, t)
     PROVE  RowConstraint'
  BY <1>30 DEF CopyLands
<1>31. ASSUME NEW u \in Uploads, NEW t \in Tokens, CopyIsLost(u, t)
     PROVE  RowConstraint'
  BY <1>31 DEF CopyIsLost
<1>32. CASE UNCHANGED vars
  BY <1>32 DEF vars
<1>. QED
  BY <1>1, <1>2, <1>3, <1>4, <1>5, <1>6, <1>7, <1>8, <1>9, <1>10, <1>11, <1>12, <1>13, <1>14,
     <1>15, <1>16, <1>17, <1>18, <1>19, <1>20, <1>21, <1>22, <1>23, <1>24, <1>25, <1>26, <1>27,
     <1>28, <1>29, <1>30, <1>31, <1>32
     DEF Next, Complete, Discard, Cleanup, Environment

\* No step revives a token whose object is being reclaimed.
LEMMA ReclaimedStep ==
  ASSUME TypeOK, CallsAreWhole, RowsAreWhole, ReclaimedIsDead, [Next]_vars
  PROVE  ReclaimedIsDead'
<1> USE DEF CallsAreWhole, RowsAreWhole, ReclaimedIsDead, ClaimIsCurrent, Holding, Finalizing
<1>1. ASSUME NEW w \in Workers, NEW u \in Uploads, Initiate(w, u)
     PROVE  ReclaimedIsDead'
  BY <1>1, InitiateDoes
<1>2. ASSUME NEW w \in Workers, SignUrlFails(w)
     PROVE  ReclaimedIsDead'
  BY <1>2, ReturnsFields, OwnRow, RowFields DEF SignUrlFails, Rows
<1>3. ASSUME NEW w \in Workers, SignUrl(w) \/ RestartRefused(w) \/ Crash(w)
     PROVE  ReclaimedIsDead'
  BY <1>3, ReturnsFields DEF SignUrl, RestartRefused, Crash
<1>4. ASSUME NEW w \in Workers, NEW u \in Uploads, NEW t \in Tokens, ClaimFresh(w, u, t)
     PROVE  ReclaimedIsDead'
  BY <1>4 DEF ClaimFresh, TypeOK, Calls, CallBecomes, Begins, NoCall, Finalize, RowBecomes, Rows
<1>5. ASSUME NEW w \in Workers, NEW u \in Uploads, ClaimReclaim(w, u)
     PROVE  ReclaimedIsDead'
  BY <1>5, ClaimReclaimDoes
<1>6. ASSUME NEW w \in Workers, ReclaimDeletes(w)
     PROVE  ReclaimedIsDead'
  BY <1>6, GoesToFields DEF ReclaimDeletes
<1>7. ASSUME NEW w \in Workers, ReclaimFails(w) \/ DropFails(w)
     PROVE  ReclaimedIsDead'
  BY <1>7, ReturnsFields DEF ReclaimFails, DropFails
<1>8. ASSUME NEW w \in Workers, NEW k \in Keys, PurgeFails(w, k)
     PROVE  ReclaimedIsDead'
  BY <1>8, ReturnsFields DEF PurgeFails
<1>9. ASSUME NEW w \in Workers, Sweep(w)
     PROVE  ReclaimedIsDead'
  BY <1>9, ReturnsFields DEF Sweep
<1>10. ASSUME NEW w \in Workers, NEW t \in Tokens, Restart(w, t)
     PROVE  ReclaimedIsDead'
  BY <1>10, RestartDoes DEF Finalize
<1>11. ASSUME NEW w \in Workers, InspectPasses(w) \/ InspectFails(w) \/ CopyRaises(w)
                                 \/ VerifyFails(w) \/ MarkFails(w)
     PROVE  ReclaimedIsDead'
  BY <1>11, GoesToFields DEF InspectPasses, InspectFails, CopyRaises, VerifyFails, MarkFails
<1>12. ASSUME NEW w \in Workers, Promote(w)
     PROVE  ReclaimedIsDead'
  BY <1>12 DEF Promote, TypeOK, Calls, CallBecomes
<1>13. ASSUME NEW w \in Workers, CopyReturns(w)
     PROVE  ReclaimedIsDead'
  BY <1>13 DEF CopyReturns, TypeOK, Calls, CallBecomes
<1>14. ASSUME NEW w \in Workers, VerifyPasses(w)
     PROVE  ReclaimedIsDead'
  BY <1>14, GoesToFields DEF VerifyPasses
<1>15. ASSUME NEW w \in Workers, MarkReady(w)
     PROVE  ReclaimedIsDead'
  BY <1>15, MarkReadyDoes
<1>16. ASSUME NEW w \in Workers, CheckReference(w)
     PROVE  ReclaimedIsDead'
  BY <1>16, GoesToFields, ReturnsFields DEF CheckReference, AfterDrop
<1>17. ASSUME NEW w \in Workers, DropDeletes(w)
     PROVE  ReclaimedIsDead'
  BY <1>17, GoesToFields, ReturnsFields DEF DropDeletes, AfterDrop
<1>18. ASSUME NEW w \in Workers, Acknowledge(w)
     PROVE  ReclaimedIsDead'
  BY <1>18, AcknowledgeDoes
<1>19. ASSUME NEW w \in Workers, NEW u \in Uploads, ClaimDiscard(w, u)
     PROVE  ReclaimedIsDead'
  BY <1>19 DEF ClaimDiscard, TypeOK, Calls, CallBecomes, Begins, NoCall, RowBecomes, Rows
<1>20. ASSUME NEW w \in Workers, NEW k \in Keys, DiscardObject(w, k)
     PROVE  ReclaimedIsDead'
  BY <1>20, DiscardObjectDoes
<1>21. ASSUME NEW w \in Workers, FinishDiscard(w)
     PROVE  ReclaimedIsDead'
  BY <1>21, ReturnsFields, OwnRow, RowFields DEF FinishDiscard, Rows
<1>22. ASSUME NEW w \in Workers, NEW u \in Uploads, ClaimCleanup(w, u)
     PROVE  ReclaimedIsDead'
  BY <1>22, ClaimCleanupDoes
<1>23. ASSUME NEW w \in Workers, NEW k \in Keys, PurgeObject(w, k)
     PROVE  ReclaimedIsDead'
  BY <1>23, PurgeObjectDoes
<1>24. ASSUME NEW w \in Workers, FinishCleanup(w)
     PROVE  ReclaimedIsDead'
  BY <1>24, FinishCleanupDoes
<1>25. ASSUME NEW u \in Uploads, NEW c \in {"good", "bad"}, Put(u, c)
     PROVE  ReclaimedIsDead'
  BY <1>25 DEF Put
<1>26. ASSUME NEW u \in Uploads, BucketLifecycle(u)
     PROVE  ReclaimedIsDead'
  BY <1>26 DEF BucketLifecycle
<1>27. ASSUME NEW u \in Uploads, Attach(u)
     PROVE  ReclaimedIsDead'
  BY <1>27, RowIsRow, RowFields DEF Attach, Rows
<1>28. ASSUME NEW u \in Uploads, Expire(u)
     PROVE  ReclaimedIsDead'
  BY <1>28, RowIsRow, RowFields DEF Expire, Rows
<1>29. ASSUME NEW u \in Uploads, Retire(u)
     PROVE  ReclaimedIsDead'
  BY <1>29 DEF Retire, TypeOK, RowBecomes, Rows
<1>30. ASSUME NEW u \in Uploads, NEW t \in Tokens, CopyLands(u, t)
     PROVE  ReclaimedIsDead'
  BY <1>30 DEF CopyLands
<1>31. ASSUME NEW u \in Uploads, NEW t \in Tokens, CopyIsLost(u, t)
     PROVE  ReclaimedIsDead'
  BY <1>31 DEF CopyIsLost
<1>32. CASE UNCHANGED vars
  BY <1>32 DEF vars
<1>. QED
  BY <1>1, <1>2, <1>3, <1>4, <1>5, <1>6, <1>7, <1>8, <1>9, <1>10, <1>11, <1>12, <1>13, <1>14,
     <1>15, <1>16, <1>17, <1>18, <1>19, <1>20, <1>21, <1>22, <1>23, <1>24, <1>25, <1>26, <1>27,
     <1>28, <1>29, <1>30, <1>31, <1>32
     DEF Next, Complete, Discard, Cleanup, Environment

\* No step makes a row refer to the object of a finalizer that did not mark it.
LEMMA UnmarkedStep ==
  ASSUME TypeOK, CallsAreWhole, RowsAreWhole, RowConstraint, SoleHolder, ReclaimedIsDead, UnmarkedIsUnused, [Next]_vars
  PROVE  UnmarkedIsUnused'
<1> USE DEF CallsAreWhole, RowsAreWhole, SoleHolder, ReclaimedIsDead, UnmarkedIsUnused, Unmarked,
            Holding, Finalizing
<1>1. ASSUME NEW w \in Workers, NEW u \in Uploads, Initiate(w, u)
     PROVE  UnmarkedIsUnused'
  BY <1>1, InitiateDoes
<1>2. ASSUME NEW w \in Workers, SignUrlFails(w)
     PROVE  UnmarkedIsUnused'
  BY <1>2, ReturnsFields, OwnRow, RowFields DEF SignUrlFails, Rows
<1>3. ASSUME NEW w \in Workers, SignUrl(w) \/ RestartRefused(w) \/ Crash(w)
     PROVE  UnmarkedIsUnused'
  BY <1>3, ReturnsFields DEF SignUrl, RestartRefused, Crash
<1>4. ASSUME NEW w \in Workers, NEW u \in Uploads, NEW t \in Tokens, ClaimFresh(w, u, t)
     PROVE  UnmarkedIsUnused'
  BY <1>4, MediaAssumption
     DEF ClaimFresh, TypeOK, Calls, CallBecomes, Begins, NoCall, Finalize, RowBecomes, Rows
<1>5. ASSUME NEW w \in Workers, NEW u \in Uploads, ClaimReclaim(w, u)
     PROVE  UnmarkedIsUnused'
  BY <1>5, ClaimReclaimDoes, MediaAssumption DEF RowConstraint, Usable
<1>6. ASSUME NEW w \in Workers, ReclaimDeletes(w)
     PROVE  UnmarkedIsUnused'
  BY <1>6, GoesToFields DEF ReclaimDeletes
<1>7. ASSUME NEW w \in Workers, ReclaimFails(w) \/ DropFails(w)
     PROVE  UnmarkedIsUnused'
  BY <1>7, ReturnsFields DEF ReclaimFails, DropFails
<1>8. ASSUME NEW w \in Workers, NEW k \in Keys, PurgeFails(w, k)
     PROVE  UnmarkedIsUnused'
  BY <1>8, ReturnsFields DEF PurgeFails
<1>9. ASSUME NEW w \in Workers, Sweep(w)
     PROVE  UnmarkedIsUnused'
  BY <1>9, ReturnsFields DEF Sweep
<1>10. ASSUME NEW w \in Workers, NEW t \in Tokens, Restart(w, t)
     PROVE  UnmarkedIsUnused'
  BY <1>10, RestartDoes, MediaAssumption DEF Finalize
<1>11. ASSUME NEW w \in Workers, InspectPasses(w) \/ InspectFails(w) \/ CopyRaises(w)
                                 \/ VerifyFails(w) \/ MarkFails(w)
     PROVE  UnmarkedIsUnused'
  BY <1>11, GoesToFields DEF InspectPasses, InspectFails, CopyRaises, VerifyFails, MarkFails
<1>12. ASSUME NEW w \in Workers, Promote(w)
     PROVE  UnmarkedIsUnused'
  BY <1>12 DEF Promote, TypeOK, Calls, CallBecomes
<1>13. ASSUME NEW w \in Workers, CopyReturns(w)
     PROVE  UnmarkedIsUnused'
  BY <1>13 DEF CopyReturns, TypeOK, Calls, CallBecomes
<1>14. ASSUME NEW w \in Workers, VerifyPasses(w)
     PROVE  UnmarkedIsUnused'
  BY <1>14, GoesToFields DEF VerifyPasses
<1>15. ASSUME NEW w \in Workers, MarkReady(w)
     PROVE  UnmarkedIsUnused'
  BY <1>15, MarkReadyDoes DEF ClaimIsCurrent
<1>16. ASSUME NEW w \in Workers, CheckReference(w)
     PROVE  UnmarkedIsUnused'
  BY <1>16, GoesToFields, ReturnsFields DEF CheckReference, AfterDrop
<1>17. ASSUME NEW w \in Workers, DropDeletes(w)
     PROVE  UnmarkedIsUnused'
  BY <1>17, GoesToFields, ReturnsFields DEF DropDeletes, AfterDrop
<1>18. ASSUME NEW w \in Workers, Acknowledge(w)
     PROVE  UnmarkedIsUnused'
  BY <1>18, AcknowledgeDoes
<1>19. ASSUME NEW w \in Workers, NEW u \in Uploads, ClaimDiscard(w, u)
     PROVE  UnmarkedIsUnused'
  BY <1>19 DEF ClaimDiscard, TypeOK, Calls, CallBecomes, Begins, NoCall, RowBecomes, Rows
<1>20. ASSUME NEW w \in Workers, NEW k \in Keys, DiscardObject(w, k)
     PROVE  UnmarkedIsUnused'
  BY <1>20, DiscardObjectDoes
<1>21. ASSUME NEW w \in Workers, FinishDiscard(w)
     PROVE  UnmarkedIsUnused'
  BY <1>21, ReturnsFields, OwnRow, RowFields DEF FinishDiscard, Rows
<1>22. ASSUME NEW w \in Workers, NEW u \in Uploads, ClaimCleanup(w, u)
     PROVE  UnmarkedIsUnused'
  BY <1>22, ClaimCleanupDoes
<1>23. ASSUME NEW w \in Workers, NEW k \in Keys, PurgeObject(w, k)
     PROVE  UnmarkedIsUnused'
  BY <1>23, PurgeObjectDoes
<1>24. ASSUME NEW w \in Workers, FinishCleanup(w)
     PROVE  UnmarkedIsUnused'
  BY <1>24, FinishCleanupDoes
<1>25. ASSUME NEW u \in Uploads, NEW c \in {"good", "bad"}, Put(u, c)
     PROVE  UnmarkedIsUnused'
  BY <1>25 DEF Put
<1>26. ASSUME NEW u \in Uploads, BucketLifecycle(u)
     PROVE  UnmarkedIsUnused'
  BY <1>26 DEF BucketLifecycle
<1>27. ASSUME NEW u \in Uploads, Attach(u)
     PROVE  UnmarkedIsUnused'
  BY <1>27, RowIsRow, RowFields DEF Attach, Rows
<1>28. ASSUME NEW u \in Uploads, Expire(u)
     PROVE  UnmarkedIsUnused'
  BY <1>28, RowIsRow, RowFields DEF Expire, Rows
<1>29. ASSUME NEW u \in Uploads, Retire(u)
     PROVE  UnmarkedIsUnused'
  BY <1>29 DEF Retire, TypeOK, RowBecomes, Rows
<1>30. ASSUME NEW u \in Uploads, NEW t \in Tokens, CopyLands(u, t)
     PROVE  UnmarkedIsUnused'
  BY <1>30 DEF CopyLands
<1>31. ASSUME NEW u \in Uploads, NEW t \in Tokens, CopyIsLost(u, t)
     PROVE  UnmarkedIsUnused'
  BY <1>31 DEF CopyIsLost
<1>32. CASE UNCHANGED vars
  BY <1>32 DEF vars
<1>. QED
  BY <1>1, <1>2, <1>3, <1>4, <1>5, <1>6, <1>7, <1>8, <1>9, <1>10, <1>11, <1>12, <1>13, <1>14,
     <1>15, <1>16, <1>17, <1>18, <1>19, <1>20, <1>21, <1>22, <1>23, <1>24, <1>25, <1>26, <1>27,
     <1>28, <1>29, <1>30, <1>31, <1>32
     DEF Next, Complete, Discard, Cleanup, Environment

\* No step makes a READY row refer to an object that is being dropped.
LEMMA DroppedStep ==
  ASSUME TypeOK, CallsAreWhole, SoleHolder, DroppedIsUnused, [Next]_vars
  PROVE  DroppedIsUnused'
<1> USE DEF CallsAreWhole, SoleHolder, DroppedIsUnused, Referenced, Usable, Holding, Finalizing
<1>1. ASSUME NEW w \in Workers, NEW u \in Uploads, Initiate(w, u)
     PROVE  DroppedIsUnused'
  BY <1>1, InitiateDoes
<1>2. ASSUME NEW w \in Workers, SignUrlFails(w)
     PROVE  DroppedIsUnused'
  BY <1>2, ReturnsFields, OwnRow, RowFields DEF SignUrlFails, Rows
<1>3. ASSUME NEW w \in Workers, SignUrl(w) \/ RestartRefused(w) \/ Crash(w)
     PROVE  DroppedIsUnused'
  BY <1>3, ReturnsFields DEF SignUrl, RestartRefused, Crash
<1>4. ASSUME NEW w \in Workers, NEW u \in Uploads, NEW t \in Tokens, ClaimFresh(w, u, t)
     PROVE  DroppedIsUnused'
  BY <1>4 DEF ClaimFresh, TypeOK, Calls, CallBecomes, Begins, NoCall, Finalize, RowBecomes, Rows
<1>5. ASSUME NEW w \in Workers, NEW u \in Uploads, ClaimReclaim(w, u)
     PROVE  DroppedIsUnused'
  BY <1>5, ClaimReclaimDoes
<1>6. ASSUME NEW w \in Workers, ReclaimDeletes(w)
     PROVE  DroppedIsUnused'
  BY <1>6, GoesToFields DEF ReclaimDeletes
<1>7. ASSUME NEW w \in Workers, ReclaimFails(w) \/ DropFails(w)
     PROVE  DroppedIsUnused'
  BY <1>7, ReturnsFields DEF ReclaimFails, DropFails
<1>8. ASSUME NEW w \in Workers, NEW k \in Keys, PurgeFails(w, k)
     PROVE  DroppedIsUnused'
  BY <1>8, ReturnsFields DEF PurgeFails
<1>9. ASSUME NEW w \in Workers, Sweep(w)
     PROVE  DroppedIsUnused'
  BY <1>9, ReturnsFields DEF Sweep
<1>10. ASSUME NEW w \in Workers, NEW t \in Tokens, Restart(w, t)
     PROVE  DroppedIsUnused'
  BY <1>10, RestartDoes DEF Finalize
<1>11. ASSUME NEW w \in Workers, InspectPasses(w) \/ InspectFails(w) \/ CopyRaises(w)
                                 \/ VerifyFails(w) \/ MarkFails(w)
     PROVE  DroppedIsUnused'
  BY <1>11, GoesToFields DEF InspectPasses, InspectFails, CopyRaises, VerifyFails, MarkFails
<1>12. ASSUME NEW w \in Workers, Promote(w)
     PROVE  DroppedIsUnused'
  BY <1>12 DEF Promote, TypeOK, Calls, CallBecomes
<1>13. ASSUME NEW w \in Workers, CopyReturns(w)
     PROVE  DroppedIsUnused'
  BY <1>13 DEF CopyReturns, TypeOK, Calls, CallBecomes
<1>14. ASSUME NEW w \in Workers, VerifyPasses(w)
     PROVE  DroppedIsUnused'
  BY <1>14, GoesToFields DEF VerifyPasses
<1>15. ASSUME NEW w \in Workers, MarkReady(w)
     PROVE  DroppedIsUnused'
  BY <1>15, MarkReadyDoes
<1>16. ASSUME NEW w \in Workers, CheckReference(w)
     PROVE  DroppedIsUnused'
  BY <1>16, GoesToFields, ReturnsFields DEF CheckReference, AfterDrop
<1>17. ASSUME NEW w \in Workers, DropDeletes(w)
     PROVE  DroppedIsUnused'
  BY <1>17, GoesToFields, ReturnsFields DEF DropDeletes, AfterDrop
<1>18. ASSUME NEW w \in Workers, Acknowledge(w)
     PROVE  DroppedIsUnused'
  BY <1>18, AcknowledgeDoes
<1>19. ASSUME NEW w \in Workers, NEW u \in Uploads, ClaimDiscard(w, u)
     PROVE  DroppedIsUnused'
  BY <1>19 DEF ClaimDiscard, TypeOK, Calls, CallBecomes, Begins, NoCall, RowBecomes, Rows
<1>20. ASSUME NEW w \in Workers, NEW k \in Keys, DiscardObject(w, k)
     PROVE  DroppedIsUnused'
  BY <1>20, DiscardObjectDoes
<1>21. ASSUME NEW w \in Workers, FinishDiscard(w)
     PROVE  DroppedIsUnused'
  BY <1>21, ReturnsFields, OwnRow, RowFields DEF FinishDiscard, Rows
<1>22. ASSUME NEW w \in Workers, NEW u \in Uploads, ClaimCleanup(w, u)
     PROVE  DroppedIsUnused'
  BY <1>22, ClaimCleanupDoes
<1>23. ASSUME NEW w \in Workers, NEW k \in Keys, PurgeObject(w, k)
     PROVE  DroppedIsUnused'
  BY <1>23, PurgeObjectDoes
<1>24. ASSUME NEW w \in Workers, FinishCleanup(w)
     PROVE  DroppedIsUnused'
  BY <1>24, FinishCleanupDoes
<1>25. ASSUME NEW u \in Uploads, NEW c \in {"good", "bad"}, Put(u, c)
     PROVE  DroppedIsUnused'
  BY <1>25 DEF Put
<1>26. ASSUME NEW u \in Uploads, BucketLifecycle(u)
     PROVE  DroppedIsUnused'
  BY <1>26 DEF BucketLifecycle
<1>27. ASSUME NEW u \in Uploads, Attach(u)
     PROVE  DroppedIsUnused'
  BY <1>27, RowIsRow, RowFields DEF Attach, Rows
<1>28. ASSUME NEW u \in Uploads, Expire(u)
     PROVE  DroppedIsUnused'
  BY <1>28, RowIsRow, RowFields DEF Expire, Rows
<1>29. ASSUME NEW u \in Uploads, Retire(u)
     PROVE  DroppedIsUnused'
  BY <1>29 DEF Retire, TypeOK, RowBecomes, Rows
<1>30. ASSUME NEW u \in Uploads, NEW t \in Tokens, CopyLands(u, t)
     PROVE  DroppedIsUnused'
  BY <1>30 DEF CopyLands
<1>31. ASSUME NEW u \in Uploads, NEW t \in Tokens, CopyIsLost(u, t)
     PROVE  DroppedIsUnused'
  BY <1>31 DEF CopyIsLost
<1>32. CASE UNCHANGED vars
  BY <1>32 DEF vars
<1>. QED
  BY <1>1, <1>2, <1>3, <1>4, <1>5, <1>6, <1>7, <1>8, <1>9, <1>10, <1>11, <1>12, <1>13, <1>14,
     <1>15, <1>16, <1>17, <1>18, <1>19, <1>20, <1>21, <1>22, <1>23, <1>24, <1>25, <1>26, <1>27,
     <1>28, <1>29, <1>30, <1>31, <1>32
     DEF Next, Complete, Discard, Cleanup, Environment

\* No step reopens an upload whose objects a discard or a clean-up deletes.
LEMMA ClosedStep ==
  ASSUME TypeOK, CallsAreWhole, DeletedIsClosed, [Next]_vars
  PROVE  DeletedIsClosed'
<1> USE DEF CallsAreWhole, DeletedIsClosed, Deleting, Unattached, Holding, Finalizing
<1>1. ASSUME NEW w \in Workers, NEW u \in Uploads, Initiate(w, u)
     PROVE  DeletedIsClosed'
  BY <1>1, InitiateDoes
<1>2. ASSUME NEW w \in Workers, SignUrlFails(w)
     PROVE  DeletedIsClosed'
  BY <1>2, ReturnsFields, OwnRow, RowFields DEF SignUrlFails, Rows
<1>3. ASSUME NEW w \in Workers, SignUrl(w) \/ RestartRefused(w) \/ Crash(w)
     PROVE  DeletedIsClosed'
  BY <1>3, ReturnsFields DEF SignUrl, RestartRefused, Crash
<1>4. ASSUME NEW w \in Workers, NEW u \in Uploads, NEW t \in Tokens, ClaimFresh(w, u, t)
     PROVE  DeletedIsClosed'
  BY <1>4 DEF ClaimFresh, TypeOK, Calls, CallBecomes, Begins, NoCall, Finalize, RowBecomes, Rows
<1>5. ASSUME NEW w \in Workers, NEW u \in Uploads, ClaimReclaim(w, u)
     PROVE  DeletedIsClosed'
  BY <1>5, ClaimReclaimDoes
<1>6. ASSUME NEW w \in Workers, ReclaimDeletes(w)
     PROVE  DeletedIsClosed'
  BY <1>6, GoesToFields DEF ReclaimDeletes
<1>7. ASSUME NEW w \in Workers, ReclaimFails(w) \/ DropFails(w)
     PROVE  DeletedIsClosed'
  BY <1>7, ReturnsFields DEF ReclaimFails, DropFails
<1>8. ASSUME NEW w \in Workers, NEW k \in Keys, PurgeFails(w, k)
     PROVE  DeletedIsClosed'
  BY <1>8, ReturnsFields DEF PurgeFails
<1>9. ASSUME NEW w \in Workers, Sweep(w)
     PROVE  DeletedIsClosed'
  BY <1>9, ReturnsFields DEF Sweep
<1>10. ASSUME NEW w \in Workers, NEW t \in Tokens, Restart(w, t)
     PROVE  DeletedIsClosed'
  BY <1>10, RestartDoes DEF Finalize
<1>11. ASSUME NEW w \in Workers, InspectPasses(w) \/ InspectFails(w) \/ CopyRaises(w)
                                 \/ VerifyFails(w) \/ MarkFails(w)
     PROVE  DeletedIsClosed'
  BY <1>11, GoesToFields DEF InspectPasses, InspectFails, CopyRaises, VerifyFails, MarkFails
<1>12. ASSUME NEW w \in Workers, Promote(w)
     PROVE  DeletedIsClosed'
  BY <1>12 DEF Promote, TypeOK, Calls, CallBecomes
<1>13. ASSUME NEW w \in Workers, CopyReturns(w)
     PROVE  DeletedIsClosed'
  BY <1>13 DEF CopyReturns, TypeOK, Calls, CallBecomes
<1>14. ASSUME NEW w \in Workers, VerifyPasses(w)
     PROVE  DeletedIsClosed'
  BY <1>14, GoesToFields DEF VerifyPasses
<1>15. ASSUME NEW w \in Workers, MarkReady(w)
     PROVE  DeletedIsClosed'
  BY <1>15, MarkReadyDoes DEF ClaimIsCurrent
<1>16. ASSUME NEW w \in Workers, CheckReference(w)
     PROVE  DeletedIsClosed'
  BY <1>16, GoesToFields, ReturnsFields DEF CheckReference, AfterDrop
<1>17. ASSUME NEW w \in Workers, DropDeletes(w)
     PROVE  DeletedIsClosed'
  BY <1>17, GoesToFields, ReturnsFields DEF DropDeletes, AfterDrop
<1>18. ASSUME NEW w \in Workers, Acknowledge(w)
     PROVE  DeletedIsClosed'
  BY <1>18, AcknowledgeDoes
<1>19. ASSUME NEW w \in Workers, NEW u \in Uploads, ClaimDiscard(w, u)
     PROVE  DeletedIsClosed'
  BY <1>19 DEF ClaimDiscard, TypeOK, Calls, CallBecomes, Begins, NoCall, RowBecomes, Rows
<1>20. ASSUME NEW w \in Workers, NEW k \in Keys, DiscardObject(w, k)
     PROVE  DeletedIsClosed'
  BY <1>20, DiscardObjectDoes
<1>21. ASSUME NEW w \in Workers, FinishDiscard(w)
     PROVE  DeletedIsClosed'
  BY <1>21, ReturnsFields, OwnRow, RowFields DEF FinishDiscard, Rows
<1>22. ASSUME NEW w \in Workers, NEW u \in Uploads, ClaimCleanup(w, u)
     PROVE  DeletedIsClosed'
  BY <1>22, ClaimCleanupDoes
<1>23. ASSUME NEW w \in Workers, NEW k \in Keys, PurgeObject(w, k)
     PROVE  DeletedIsClosed'
  BY <1>23, PurgeObjectDoes
<1>24. ASSUME NEW w \in Workers, FinishCleanup(w)
     PROVE  DeletedIsClosed'
  BY <1>24, FinishCleanupDoes
<1>25. ASSUME NEW u \in Uploads, NEW c \in {"good", "bad"}, Put(u, c)
     PROVE  DeletedIsClosed'
  BY <1>25 DEF Put
<1>26. ASSUME NEW u \in Uploads, BucketLifecycle(u)
     PROVE  DeletedIsClosed'
  BY <1>26 DEF BucketLifecycle
<1>27. ASSUME NEW u \in Uploads, Attach(u)
     PROVE  DeletedIsClosed'
  BY <1>27, RowIsRow, RowFields DEF Attach, Rows
<1>28. ASSUME NEW u \in Uploads, Expire(u)
     PROVE  DeletedIsClosed'
  BY <1>28, RowIsRow, RowFields DEF Expire, Rows
<1>29. ASSUME NEW u \in Uploads, Retire(u)
     PROVE  DeletedIsClosed'
  BY <1>29 DEF Retire, TypeOK, RowBecomes, Rows
<1>30. ASSUME NEW u \in Uploads, NEW t \in Tokens, CopyLands(u, t)
     PROVE  DeletedIsClosed'
  BY <1>30 DEF CopyLands
<1>31. ASSUME NEW u \in Uploads, NEW t \in Tokens, CopyIsLost(u, t)
     PROVE  DeletedIsClosed'
  BY <1>31 DEF CopyIsLost
<1>32. CASE UNCHANGED vars
  BY <1>32 DEF vars
<1>. QED
  BY <1>1, <1>2, <1>3, <1>4, <1>5, <1>6, <1>7, <1>8, <1>9, <1>10, <1>11, <1>12, <1>13, <1>14,
     <1>15, <1>16, <1>17, <1>18, <1>19, <1>20, <1>21, <1>22, <1>23, <1>24, <1>25, <1>26, <1>27,
     <1>28, <1>29, <1>30, <1>31, <1>32
     DEF Next, Complete, Discard, Cleanup, Environment

\* No step spoils the verified object of the current claim.
LEMMA VerifiedStep ==
  ASSUME TypeOK, CallsAreWhole, RowsAreWhole, FreshTokens, SoleHolder, ReclaimedIsDead, DeletedIsClosed, VerifiedIsGood, [Next]_vars
  PROVE  VerifiedIsGood'
<1> USE DEF CallsAreWhole, RowsAreWhole, SoleHolder, ReclaimedIsDead, DeletedIsClosed,
            VerifiedIsGood, ClaimIsCurrent, Deleting, Holding, Finalizing
<1>1. ASSUME NEW w \in Workers, NEW u \in Uploads, Initiate(w, u)
     PROVE  VerifiedIsGood'
  BY <1>1, InitiateDoes
<1>2. ASSUME NEW w \in Workers, SignUrlFails(w)
     PROVE  VerifiedIsGood'
  BY <1>2, ReturnsFields, OwnRow, RowFields DEF SignUrlFails, Rows
<1>3. ASSUME NEW w \in Workers, SignUrl(w) \/ RestartRefused(w) \/ Crash(w)
     PROVE  VerifiedIsGood'
  BY <1>3, ReturnsFields DEF SignUrl, RestartRefused, Crash
<1>4. ASSUME NEW w \in Workers, NEW u \in Uploads, NEW t \in Tokens, ClaimFresh(w, u, t)
     PROVE  VerifiedIsGood'
  BY <1>4 DEF ClaimFresh, TypeOK, Calls, CallBecomes, Begins, NoCall, Finalize, RowBecomes, Rows
<1>5. ASSUME NEW w \in Workers, NEW u \in Uploads, ClaimReclaim(w, u)
     PROVE  VerifiedIsGood'
  BY <1>5, ClaimReclaimDoes
<1>6. ASSUME NEW w \in Workers, ReclaimDeletes(w)
     PROVE  VerifiedIsGood'
  BY <1>6, GoesToFields, OwnUpload, DeletesFields, KeysAreKeys DEF ReclaimDeletes
<1>7. ASSUME NEW w \in Workers, ReclaimFails(w) \/ DropFails(w)
     PROVE  VerifiedIsGood'
  BY <1>7, ReturnsFields, OwnUpload, DeletesFields, KeysAreKeys, RaisesFields
     DEF ReclaimFails, DropFails
<1>8. ASSUME NEW w \in Workers, NEW k \in Keys, PurgeFails(w, k)
     PROVE  VerifiedIsGood'
  BY <1>8, ReturnsFields, OwnUpload, DeletesFields, KeysAreKeys, RaisesFields DEF PurgeFails
<1>9. ASSUME NEW w \in Workers, Sweep(w)
     PROVE  VerifiedIsGood'
  BY <1>9, ReturnsFields, OwnUpload, DeletesFields, KeysAreKeys, RaisesFields, MediaAssumption
     DEF Sweep
<1>10. ASSUME NEW w \in Workers, NEW t \in Tokens, Restart(w, t)
     PROVE  VerifiedIsGood'
  BY <1>10, RestartDoes DEF Finalize
<1>11. ASSUME NEW w \in Workers, InspectPasses(w) \/ InspectFails(w) \/ CopyRaises(w)
                                 \/ VerifyFails(w) \/ MarkFails(w)
     PROVE  VerifiedIsGood'
  BY <1>11, GoesToFields DEF InspectPasses, InspectFails, CopyRaises, VerifyFails, MarkFails
<1>12. ASSUME NEW w \in Workers, Promote(w)
     PROVE  VerifiedIsGood'
  BY <1>12 DEF Promote, TypeOK, Calls, CallBecomes
<1>13. ASSUME NEW w \in Workers, CopyReturns(w)
     PROVE  VerifiedIsGood'
  BY <1>13 DEF CopyReturns, TypeOK, Calls, CallBecomes
<1>14. ASSUME NEW w \in Workers, VerifyPasses(w)
     PROVE  VerifiedIsGood'
  BY <1>14, GoesToFields DEF VerifyPasses
<1>15. ASSUME NEW w \in Workers, MarkReady(w)
     PROVE  VerifiedIsGood'
  BY <1>15, MarkReadyDoes
<1>16. ASSUME NEW w \in Workers, CheckReference(w)
     PROVE  VerifiedIsGood'
  BY <1>16, GoesToFields, ReturnsFields DEF CheckReference, AfterDrop
<1>17. ASSUME NEW w \in Workers, DropDeletes(w)
     PROVE  VerifiedIsGood'
  BY <1>17, GoesToFields, ReturnsFields, OwnUpload, DeletesFields, KeysAreKeys
     DEF DropDeletes, AfterDrop
<1>18. ASSUME NEW w \in Workers, Acknowledge(w)
     PROVE  VerifiedIsGood'
  BY <1>18, AcknowledgeDoes
<1>19. ASSUME NEW w \in Workers, NEW u \in Uploads, ClaimDiscard(w, u)
     PROVE  VerifiedIsGood'
  BY <1>19 DEF ClaimDiscard, TypeOK, Calls, CallBecomes, Begins, NoCall, RowBecomes, Rows
<1>20. ASSUME NEW w \in Workers, NEW k \in Keys, DiscardObject(w, k)
     PROVE  VerifiedIsGood'
  <2>1. /\ worker[w].at \in Deleting /\ worker'[w].at \in Deleting
        /\ worker[w].upload \in Uploads
        /\ \A v \in Workers : v # w => worker'[v] = worker[v]
        /\ UNCHANGED <<row, copy>>
    BY <1>20, DiscardObjectDoes
  <2>6. \A v \in Uploads, j \in Keys :
          v # worker[w].upload => object'[v][j] = object[v][j]
    BY <1>20, DiscardObjectDeletes
  <2>2. row[worker[w].upload].status # "finalizing"
    BY <2>1
  <2>3. ASSUME NEW x \in Workers, worker'[x].at \in {"verify", "mark"}
        PROVE  x # w /\ worker'[x] = worker[x]
    BY <2>1, <2>3
  <2>4. ASSUME NEW x \in Workers, worker[x].at = "mark", ClaimIsCurrent(x)
        PROVE  /\ worker[x].upload \in Uploads /\ worker[x].token \in Keys
               /\ worker[x].upload # worker[w].upload
    BY <2>2, <2>4, OwnUpload, KeysAreKeys
  <2>5. ASSUME NEW x \in Workers, worker'[x].at = "mark", ClaimIsCurrent(x)'
        PROVE  object'[worker'[x].upload][worker'[x].token] = "good"
    BY <2>1, <2>3, <2>4, <2>5, <2>6
  <2>. QED
    BY <2>1, <2>3, <2>5
<1>21. ASSUME NEW w \in Workers, FinishDiscard(w)
     PROVE  VerifiedIsGood'
  BY <1>21, ReturnsFields, OwnRow, RowFields DEF FinishDiscard, Rows
<1>22. ASSUME NEW w \in Workers, NEW u \in Uploads, ClaimCleanup(w, u)
     PROVE  VerifiedIsGood'
  BY <1>22, ClaimCleanupDoes
<1>23. ASSUME NEW w \in Workers, NEW k \in Keys, PurgeObject(w, k)
     PROVE  VerifiedIsGood'
  <2>1. /\ worker[w].at \in Deleting /\ worker'[w].at \in Deleting
        /\ worker[w].upload \in Uploads
        /\ \A v \in Workers : v # w => worker'[v] = worker[v]
        /\ \A v \in Uploads, j \in Keys :
             v # worker[w].upload => object'[v][j] = object[v][j]
        /\ UNCHANGED <<row, copy>>
    BY <1>23, PurgeObjectDoes
  <2>2. row[worker[w].upload].status # "finalizing"
    BY <2>1
  <2>3. ASSUME NEW x \in Workers, worker'[x].at \in {"verify", "mark"}
        PROVE  x # w /\ worker'[x] = worker[x]
    BY <2>1, <2>3
  <2>4. ASSUME NEW x \in Workers, worker[x].at = "mark", ClaimIsCurrent(x)
        PROVE  /\ worker[x].upload \in Uploads /\ worker[x].token \in Keys
               /\ worker[x].upload # worker[w].upload
    BY <2>2, <2>4, OwnUpload, KeysAreKeys
  <2>5. ASSUME NEW x \in Workers, worker'[x].at = "mark", ClaimIsCurrent(x)'
        PROVE  object'[worker'[x].upload][worker'[x].token] = "good"
    BY <2>1, <2>3, <2>4, <2>5
  <2>. QED
    BY <2>1, <2>3, <2>5
<1>24. ASSUME NEW w \in Workers, FinishCleanup(w)
     PROVE  VerifiedIsGood'
  BY <1>24, FinishCleanupDoes
<1>25. ASSUME NEW u \in Uploads, NEW c \in {"good", "bad"}, Put(u, c)
     PROVE  VerifiedIsGood'
  BY <1>25, MediaAssumption DEF Put, TypeOK
<1>26. ASSUME NEW u \in Uploads, BucketLifecycle(u)
     PROVE  VerifiedIsGood'
  BY <1>26, OwnUpload, DeletesFields, KeysAreKeys, MediaAssumption DEF BucketLifecycle
<1>27. ASSUME NEW u \in Uploads, Attach(u)
     PROVE  VerifiedIsGood'
  BY <1>27, RowIsRow, RowFields DEF Attach, Rows
<1>28. ASSUME NEW u \in Uploads, Expire(u)
     PROVE  VerifiedIsGood'
  BY <1>28, RowIsRow, RowFields DEF Expire, Rows
<1>29. ASSUME NEW u \in Uploads, Retire(u)
     PROVE  VerifiedIsGood'
  BY <1>29 DEF Retire, TypeOK, RowBecomes, Rows
<1>30. ASSUME NEW u \in Uploads, NEW t \in Tokens, CopyLands(u, t)
     PROVE  VerifiedIsGood'
  BY <1>30 DEF CopyLands, TypeOK
<1>31. ASSUME NEW u \in Uploads, NEW t \in Tokens, CopyIsLost(u, t)
     PROVE  VerifiedIsGood'
  BY <1>31 DEF CopyIsLost, TypeOK
<1>32. CASE UNCHANGED vars
  BY <1>32 DEF vars
<1>. QED
  BY <1>1, <1>2, <1>3, <1>4, <1>5, <1>6, <1>7, <1>8, <1>9, <1>10, <1>11, <1>12, <1>13, <1>14,
     <1>15, <1>16, <1>17, <1>18, <1>19, <1>20, <1>21, <1>22, <1>23, <1>24, <1>25, <1>26, <1>27,
     <1>28, <1>29, <1>30, <1>31, <1>32
     DEF Next, Complete, Discard, Cleanup, Environment

\* No step makes a row refer to an object whose copy has not landed.
LEMMA LandedStep ==
  ASSUME TypeOK, CallsAreWhole, RowsAreWhole, FreshTokens, UnmarkedIsUnused, VerifiedIsGood, AcceptedHasLanded, [Next]_vars
  PROVE  AcceptedHasLanded'
<1> USE DEF CallsAreWhole, RowsAreWhole, UnmarkedIsUnused, VerifiedIsGood, AcceptedHasLanded,
            Unmarked, Holding, Finalizing
<1>1. ASSUME NEW w \in Workers, NEW u \in Uploads, Initiate(w, u)
     PROVE  AcceptedHasLanded'
  BY <1>1, InitiateDoes
<1>2. ASSUME NEW w \in Workers, SignUrlFails(w)
     PROVE  AcceptedHasLanded'
  BY <1>2, OwnRow, RowFields DEF SignUrlFails, Rows
<1>3. ASSUME NEW w \in Workers, SignUrl(w) \/ RestartRefused(w) \/ Crash(w)
     PROVE  AcceptedHasLanded'
  BY <1>3 DEF SignUrl, RestartRefused, Crash
<1>4. ASSUME NEW w \in Workers, NEW u \in Uploads, NEW t \in Tokens, ClaimFresh(w, u, t)
     PROVE  AcceptedHasLanded'
  BY <1>4 DEF ClaimFresh, Finalize, TypeOK, RowBecomes, Rows
<1>5. ASSUME NEW w \in Workers, NEW u \in Uploads, ClaimReclaim(w, u)
     PROVE  AcceptedHasLanded'
  BY <1>5, ClaimReclaimDoes
<1>6. ASSUME NEW w \in Workers, ReclaimDeletes(w)
     PROVE  AcceptedHasLanded'
  BY <1>6 DEF ReclaimDeletes
<1>7. ASSUME NEW w \in Workers, ReclaimFails(w) \/ DropFails(w)
     PROVE  AcceptedHasLanded'
  BY <1>7 DEF ReclaimFails, DropFails
<1>8. ASSUME NEW w \in Workers, NEW k \in Keys, PurgeFails(w, k)
     PROVE  AcceptedHasLanded'
  BY <1>8 DEF PurgeFails
<1>9. ASSUME NEW w \in Workers, Sweep(w)
     PROVE  AcceptedHasLanded'
  BY <1>9 DEF Sweep
<1>10. ASSUME NEW w \in Workers, NEW t \in Tokens, Restart(w, t)
     PROVE  AcceptedHasLanded'
  BY <1>10, RestartDoes DEF Finalize
<1>11. ASSUME NEW w \in Workers, InspectPasses(w) \/ InspectFails(w) \/ CopyRaises(w)
                                 \/ VerifyFails(w) \/ MarkFails(w)
     PROVE  AcceptedHasLanded'
  BY <1>11 DEF InspectPasses, InspectFails, CopyRaises, VerifyFails, MarkFails
<1>12. ASSUME NEW w \in Workers, Promote(w)
     PROVE  AcceptedHasLanded'
  BY <1>12 DEF Promote, TypeOK
<1>13. ASSUME NEW w \in Workers, CopyReturns(w)
     PROVE  AcceptedHasLanded'
  BY <1>13 DEF CopyReturns
<1>14. ASSUME NEW w \in Workers, VerifyPasses(w)
     PROVE  AcceptedHasLanded'
  BY <1>14 DEF VerifyPasses
<1>15. ASSUME NEW w \in Workers, MarkReady(w)
     PROVE  AcceptedHasLanded'
  BY <1>15, MarkReadyDoes
<1>16. ASSUME NEW w \in Workers, CheckReference(w)
     PROVE  AcceptedHasLanded'
  BY <1>16 DEF CheckReference
<1>17. ASSUME NEW w \in Workers, DropDeletes(w)
     PROVE  AcceptedHasLanded'
  BY <1>17 DEF DropDeletes
<1>18. ASSUME NEW w \in Workers, Acknowledge(w)
     PROVE  AcceptedHasLanded'
  BY <1>18, AcknowledgeDoes
<1>19. ASSUME NEW w \in Workers, NEW u \in Uploads, ClaimDiscard(w, u)
     PROVE  AcceptedHasLanded'
  BY <1>19 DEF ClaimDiscard, TypeOK, RowBecomes, Rows
<1>20. ASSUME NEW w \in Workers, NEW k \in Keys, DiscardObject(w, k)
     PROVE  AcceptedHasLanded'
  BY <1>20 DEF DiscardObject
<1>21. ASSUME NEW w \in Workers, FinishDiscard(w)
     PROVE  AcceptedHasLanded'
  BY <1>21, OwnRow, RowFields DEF FinishDiscard, Rows
<1>22. ASSUME NEW w \in Workers, NEW u \in Uploads, ClaimCleanup(w, u)
     PROVE  AcceptedHasLanded'
  BY <1>22, ClaimCleanupDoes
<1>23. ASSUME NEW w \in Workers, NEW k \in Keys, PurgeObject(w, k)
     PROVE  AcceptedHasLanded'
  BY <1>23, PurgeObjectDoes
<1>24. ASSUME NEW w \in Workers, FinishCleanup(w)
     PROVE  AcceptedHasLanded'
  BY <1>24, FinishCleanupDoes
<1>25. ASSUME NEW u \in Uploads, NEW c \in {"good", "bad"}, Put(u, c)
     PROVE  AcceptedHasLanded'
  BY <1>25 DEF Put
<1>26. ASSUME NEW u \in Uploads, BucketLifecycle(u)
     PROVE  AcceptedHasLanded'
  BY <1>26 DEF BucketLifecycle
<1>27. ASSUME NEW u \in Uploads, Attach(u)
     PROVE  AcceptedHasLanded'
  BY <1>27, RowIsRow, RowFields DEF Attach, Rows
<1>28. ASSUME NEW u \in Uploads, Expire(u)
     PROVE  AcceptedHasLanded'
  BY <1>28, RowIsRow, RowFields DEF Expire, Rows
<1>29. ASSUME NEW u \in Uploads, Retire(u)
     PROVE  AcceptedHasLanded'
  BY <1>29 DEF Retire, TypeOK, RowBecomes, Rows
<1>30. ASSUME NEW u \in Uploads, NEW t \in Tokens, CopyLands(u, t)
     PROVE  AcceptedHasLanded'
  BY <1>30 DEF CopyLands, TypeOK
<1>31. ASSUME NEW u \in Uploads, NEW t \in Tokens, CopyIsLost(u, t)
     PROVE  AcceptedHasLanded'
  BY <1>31 DEF CopyIsLost, TypeOK
<1>32. CASE UNCHANGED vars
  BY <1>32 DEF vars
<1>. QED
  BY <1>1, <1>2, <1>3, <1>4, <1>5, <1>6, <1>7, <1>8, <1>9, <1>10, <1>11, <1>12, <1>13, <1>14,
     <1>15, <1>16, <1>17, <1>18, <1>19, <1>20, <1>21, <1>22, <1>23, <1>24, <1>25, <1>26, <1>27,
     <1>28, <1>29, <1>30, <1>31, <1>32
     DEF Next, Complete, Discard, Cleanup, Environment

\* No step spoils or deletes the object of a READY or ATTACHED upload.
LEMMA ReadyStep ==
  ASSUME TypeOK, CallsAreWhole, RowConstraint, UnmarkedIsUnused, DroppedIsUnused, DeletedIsClosed, VerifiedIsGood, AcceptedHasLanded, ReadyObjectIntact, [Next]_vars
  PROVE  ReadyObjectIntact'
<1> USE DEF CallsAreWhole, UnmarkedIsUnused, DroppedIsUnused, DeletedIsClosed, VerifiedIsGood,
            AcceptedHasLanded, ReadyObjectIntact, Unmarked, Deleting, Referenced, Usable,
            ClaimIsCurrent, Holding, Finalizing
<1>1. ASSUME NEW w \in Workers, NEW u \in Uploads, Initiate(w, u)
     PROVE  ReadyObjectIntact'
  BY <1>1, InitiateDoes
<1>2. ASSUME NEW w \in Workers, SignUrlFails(w)
     PROVE  ReadyObjectIntact'
  BY <1>2, OwnRow, RowFields DEF SignUrlFails, Rows
<1>3. ASSUME NEW w \in Workers, SignUrl(w) \/ RestartRefused(w) \/ Crash(w)
     PROVE  ReadyObjectIntact'
  BY <1>3 DEF SignUrl, RestartRefused, Crash
<1>4. ASSUME NEW w \in Workers, NEW u \in Uploads, NEW t \in Tokens, ClaimFresh(w, u, t)
     PROVE  ReadyObjectIntact'
  BY <1>4 DEF ClaimFresh, Finalize, TypeOK, RowBecomes, Rows
<1>5. ASSUME NEW w \in Workers, NEW u \in Uploads, ClaimReclaim(w, u)
     PROVE  ReadyObjectIntact'
  BY <1>5, ClaimReclaimDoes
<1>6. ASSUME NEW w \in Workers, ReclaimDeletes(w)
     PROVE  ReadyObjectIntact'
  BY <1>6, OwnUpload, DeletesFields, KeysAreKeys DEF ReclaimDeletes
<1>7. ASSUME NEW w \in Workers, ReclaimFails(w) \/ DropFails(w)
     PROVE  ReadyObjectIntact'
  BY <1>7, OwnUpload, DeletesFields, KeysAreKeys, RaisesFields DEF ReclaimFails, DropFails
<1>8. ASSUME NEW w \in Workers, NEW k \in Keys, PurgeFails(w, k)
     PROVE  ReadyObjectIntact'
  BY <1>8, OwnUpload, DeletesFields, KeysAreKeys, RaisesFields DEF PurgeFails
<1>9. ASSUME NEW w \in Workers, Sweep(w)
     PROVE  ReadyObjectIntact'
  BY <1>9, OwnUpload, DeletesFields, KeysAreKeys, RaisesFields, MediaAssumption DEF Sweep
<1>10. ASSUME NEW w \in Workers, NEW t \in Tokens, Restart(w, t)
     PROVE  ReadyObjectIntact'
  BY <1>10, RestartDoes DEF Finalize
<1>11. ASSUME NEW w \in Workers, InspectPasses(w) \/ InspectFails(w) \/ CopyRaises(w)
                                 \/ VerifyFails(w) \/ MarkFails(w)
     PROVE  ReadyObjectIntact'
  BY <1>11 DEF InspectPasses, InspectFails, CopyRaises, VerifyFails, MarkFails
<1>12. ASSUME NEW w \in Workers, Promote(w)
     PROVE  ReadyObjectIntact'
  BY <1>12 DEF Promote
<1>13. ASSUME NEW w \in Workers, CopyReturns(w)
     PROVE  ReadyObjectIntact'
  BY <1>13 DEF CopyReturns
<1>14. ASSUME NEW w \in Workers, VerifyPasses(w)
     PROVE  ReadyObjectIntact'
  BY <1>14 DEF VerifyPasses
<1>15. ASSUME NEW w \in Workers, MarkReady(w)
     PROVE  ReadyObjectIntact'
  BY <1>15, MarkReadyDoes
<1>16. ASSUME NEW w \in Workers, CheckReference(w)
     PROVE  ReadyObjectIntact'
  BY <1>16 DEF CheckReference
<1>17. ASSUME NEW w \in Workers, DropDeletes(w)
     PROVE  ReadyObjectIntact'
  BY <1>17, OwnUpload, DeletesFields, KeysAreKeys DEF DropDeletes
<1>18. ASSUME NEW w \in Workers, Acknowledge(w)
     PROVE  ReadyObjectIntact'
  BY <1>18, AcknowledgeDoes
<1>19. ASSUME NEW w \in Workers, NEW u \in Uploads, ClaimDiscard(w, u)
     PROVE  ReadyObjectIntact'
  BY <1>19 DEF ClaimDiscard, TypeOK, RowBecomes, Rows
<1>20. ASSUME NEW w \in Workers, NEW k \in Keys, DiscardObject(w, k)
     PROVE  ReadyObjectIntact'
  <2>1. /\ worker[w].at \in Deleting
        /\ worker[w].upload \in Uploads
        /\ UNCHANGED row
    BY <1>20, DiscardObjectDoes
  <2>3. \A v \in Uploads, j \in Keys :
          v # worker[w].upload => object'[v][j] = object[v][j]
    BY <1>20, DiscardObjectDeletes
  <2>2. row[worker[w].upload].status \notin Usable
    BY <2>1
  <2>. QED
    BY <2>1, <2>2, <2>3, KeysAreKeys
<1>21. ASSUME NEW w \in Workers, FinishDiscard(w)
     PROVE  ReadyObjectIntact'
  BY <1>21, OwnRow, RowFields DEF FinishDiscard, Rows
<1>22. ASSUME NEW w \in Workers, NEW u \in Uploads, ClaimCleanup(w, u)
     PROVE  ReadyObjectIntact'
  BY <1>22, ClaimCleanupDoes
<1>23. ASSUME NEW w \in Workers, NEW k \in Keys, PurgeObject(w, k)
     PROVE  ReadyObjectIntact'
  BY <1>23, PurgeObjectDoes, KeysAreKeys
<1>24. ASSUME NEW w \in Workers, FinishCleanup(w)
     PROVE  ReadyObjectIntact'
  BY <1>24, FinishCleanupDoes
<1>25. ASSUME NEW u \in Uploads, NEW c \in {"good", "bad"}, Put(u, c)
     PROVE  ReadyObjectIntact'
  BY <1>25, MediaAssumption DEF Put, TypeOK
<1>26. ASSUME NEW u \in Uploads, BucketLifecycle(u)
     PROVE  ReadyObjectIntact'
  BY <1>26, OwnUpload, DeletesFields, KeysAreKeys, MediaAssumption DEF BucketLifecycle
<1>27. ASSUME NEW u \in Uploads, Attach(u)
     PROVE  ReadyObjectIntact'
  BY <1>27, RowIsRow, RowFields DEF Attach, Rows
<1>28. ASSUME NEW u \in Uploads, Expire(u)
     PROVE  ReadyObjectIntact'
  BY <1>28, RowIsRow, RowFields DEF Expire, Rows
<1>29. ASSUME NEW u \in Uploads, Retire(u)
     PROVE  ReadyObjectIntact'
  BY <1>29 DEF Retire, TypeOK, RowBecomes, Rows
<1>30. ASSUME NEW u \in Uploads, NEW t \in Tokens, CopyLands(u, t)
     PROVE  ReadyObjectIntact'
  BY <1>30, MediaAssumption DEF CopyLands, TypeOK
<1>31. ASSUME NEW u \in Uploads, NEW t \in Tokens, CopyIsLost(u, t)
     PROVE  ReadyObjectIntact'
  BY <1>31 DEF CopyIsLost
<1>32. CASE UNCHANGED vars
  BY <1>32 DEF vars
<1>. QED
  BY <1>1, <1>2, <1>3, <1>4, <1>5, <1>6, <1>7, <1>8, <1>9, <1>10, <1>11, <1>12, <1>13, <1>14,
     <1>15, <1>16, <1>17, <1>18, <1>19, <1>20, <1>21, <1>22, <1>23, <1>24, <1>25, <1>26, <1>27,
     <1>28, <1>29, <1>30, <1>31, <1>32
     DEF Next, Complete, Discard, Cleanup, Environment

\* No step removes a row before the object it refers to.
LEMMA EmptyStep ==
  ASSUME TypeOK, CallsAreWhole, RowConstraint, DeletedIsClosed, AcceptedHasLanded, ClosedIsEmpty, [Next]_vars
  PROVE  ClosedIsEmpty'
<1> USE DEF CallsAreWhole, DeletedIsClosed, AcceptedHasLanded, ClosedIsEmpty, Deleting,
            OwnedKeys, NextKey, Holding, Finalizing
<1>1. ASSUME NEW w \in Workers, NEW u \in Uploads, Initiate(w, u)
     PROVE  ClosedIsEmpty'
  BY <1>1, InitiateDoes
<1>2. ASSUME NEW w \in Workers, SignUrlFails(w)
     PROVE  ClosedIsEmpty'
  BY <1>2, ReturnsFields, OwnRow, RowFields DEF SignUrlFails, Rows, RowConstraint, Usable
<1>3. ASSUME NEW w \in Workers, SignUrl(w) \/ RestartRefused(w) \/ Crash(w)
     PROVE  ClosedIsEmpty'
  BY <1>3, ReturnsFields DEF SignUrl, RestartRefused, Crash
<1>4. ASSUME NEW w \in Workers, NEW u \in Uploads, NEW t \in Tokens, ClaimFresh(w, u, t)
     PROVE  ClosedIsEmpty'
  BY <1>4 DEF ClaimFresh, TypeOK, Calls, CallBecomes, Begins, NoCall, Finalize, RowBecomes, Rows
<1>5. ASSUME NEW w \in Workers, NEW u \in Uploads, ClaimReclaim(w, u)
     PROVE  ClosedIsEmpty'
  BY <1>5, ClaimReclaimDoes
<1>6. ASSUME NEW w \in Workers, ReclaimDeletes(w)
     PROVE  ClosedIsEmpty'
  BY <1>6, GoesToFields, OwnUpload, DeletesFields, KeysAreKeys DEF ReclaimDeletes
<1>7. ASSUME NEW w \in Workers, ReclaimFails(w) \/ DropFails(w)
     PROVE  ClosedIsEmpty'
  BY <1>7, ReturnsFields, OwnUpload, DeletesFields, KeysAreKeys, RaisesFields
     DEF ReclaimFails, DropFails
<1>8. ASSUME NEW w \in Workers, NEW k \in Keys, PurgeFails(w, k)
     PROVE  ClosedIsEmpty'
  BY <1>8, ReturnsFields, OwnUpload, DeletesFields, KeysAreKeys, RaisesFields DEF PurgeFails
<1>9. ASSUME NEW w \in Workers, Sweep(w)
     PROVE  ClosedIsEmpty'
  BY <1>9, ReturnsFields, OwnUpload, DeletesFields, KeysAreKeys, RaisesFields, MediaAssumption
     DEF Sweep
<1>10. ASSUME NEW w \in Workers, NEW t \in Tokens, Restart(w, t)
     PROVE  ClosedIsEmpty'
  BY <1>10, RestartDoes DEF Finalize
<1>11. ASSUME NEW w \in Workers, InspectPasses(w) \/ InspectFails(w) \/ CopyRaises(w)
                                 \/ VerifyFails(w) \/ MarkFails(w)
     PROVE  ClosedIsEmpty'
  BY <1>11, GoesToFields DEF InspectPasses, InspectFails, CopyRaises, VerifyFails, MarkFails
<1>12. ASSUME NEW w \in Workers, Promote(w)
     PROVE  ClosedIsEmpty'
  BY <1>12 DEF Promote, TypeOK, Calls, CallBecomes
<1>13. ASSUME NEW w \in Workers, CopyReturns(w)
     PROVE  ClosedIsEmpty'
  BY <1>13 DEF CopyReturns, TypeOK, Calls, CallBecomes
<1>14. ASSUME NEW w \in Workers, VerifyPasses(w)
     PROVE  ClosedIsEmpty'
  BY <1>14, GoesToFields DEF VerifyPasses
<1>15. ASSUME NEW w \in Workers, MarkReady(w)
     PROVE  ClosedIsEmpty'
  BY <1>15, MarkReadyDoes DEF ClaimIsCurrent
<1>16. ASSUME NEW w \in Workers, CheckReference(w)
     PROVE  ClosedIsEmpty'
  BY <1>16, GoesToFields, ReturnsFields DEF CheckReference, AfterDrop
<1>17. ASSUME NEW w \in Workers, DropDeletes(w)
     PROVE  ClosedIsEmpty'
  BY <1>17, GoesToFields, ReturnsFields, OwnUpload, DeletesFields, KeysAreKeys
     DEF DropDeletes, AfterDrop
<1>18. ASSUME NEW w \in Workers, Acknowledge(w)
     PROVE  ClosedIsEmpty'
  BY <1>18, AcknowledgeDoes, MediaAssumption DEF RowConstraint
<1>19. ASSUME NEW w \in Workers, NEW u \in Uploads, ClaimDiscard(w, u)
     PROVE  ClosedIsEmpty'
  BY <1>19 DEF ClaimDiscard, TypeOK, Calls, CallBecomes, Begins, NoCall, RowBecomes, Rows
<1>20. ASSUME NEW w \in Workers, NEW k \in Keys, DiscardObject(w, k)
     PROVE  ClosedIsEmpty'
  <2>1. /\ worker[w].at = "discard" /\ worker'[w].at = "discard"
        /\ worker[w].upload \in Uploads
        /\ worker'[w].upload = worker[w].upload
        /\ worker'[w].todo = worker[w].todo \ {k}
        /\ \A v \in Workers : v # w => worker'[v] = worker[v]
        /\ UNCHANGED row
    BY <1>20, DiscardObjectDoes
  <2>2. /\ worker'[w].clean = worker[w].clean
        /\ object'[worker[w].upload][k] = "none"
        \/ worker'[w].clean = FALSE
    BY <1>20, DiscardObjectDeletes
  <2>3. \A v \in Uploads, j \in Keys :
          object[v][j] = "none" => object'[v][j] = "none"
    BY <1>20, DiscardObjectDeletes
  <2>4. ASSUME NEW x \in Workers, worker'[x].at \in Deleting,
               worker'[x].at = "discard" => worker'[x].clean,
               row[worker'[x].upload].key # Staging
        PROVE  \/ row[worker'[x].upload].key \in worker'[x].todo
               \/ object'[worker'[x].upload][row[worker'[x].upload].key] = "none"
    <3>1. CASE x = w
      <4>1. worker[w].clean /\ object'[worker[w].upload][k] = "none"
        BY <2>1, <2>2, <2>4, <3>1
      <4>2. \/ row[worker[w].upload].key \in worker[w].todo
            \/ object[worker[w].upload][row[worker[w].upload].key] = "none"
        BY <2>1, <2>4, <3>1, <4>1
      <4>. QED
        BY <2>1, <2>3, <3>1, <4>1, <4>2, KeysAreKeys
    <3>2. CASE x # w
      <4>1. worker[x].upload \in Uploads
        BY <2>1, <2>4, <3>2, OwnUpload
      <4>. QED
        BY <2>1, <2>3, <2>4, <3>2, <4>1, KeysAreKeys
    <3>. QED
      BY <3>1, <3>2
  <2>5. ASSUME NEW v \in Uploads, row[v].status = "gone", row[v].key # Staging
        PROVE  object'[v][row[v].key] = "none"
    BY <2>3, <2>5, KeysAreKeys
  <2>. QED
    BY <2>1, <2>4, <2>5
<1>21. ASSUME NEW w \in Workers, FinishDiscard(w)
     PROVE  ClosedIsEmpty'
  BY <1>21, ReturnsFields, OwnRow, RowFields DEF FinishDiscard, Rows
<1>22. ASSUME NEW w \in Workers, NEW u \in Uploads, ClaimCleanup(w, u)
     PROVE  ClosedIsEmpty'
  BY <1>22, ClaimCleanupDoes
<1>23. ASSUME NEW w \in Workers, NEW k \in Keys, PurgeObject(w, k)
     PROVE  ClosedIsEmpty'
  BY <1>23, PurgeObjectDoes, KeysAreKeys
<1>24. ASSUME NEW w \in Workers, FinishCleanup(w)
     PROVE  ClosedIsEmpty'
  BY <1>24, FinishCleanupDoes
<1>25. ASSUME NEW u \in Uploads, NEW c \in {"good", "bad"}, Put(u, c)
     PROVE  ClosedIsEmpty'
  BY <1>25, KeysAreKeys DEF Put, TypeOK
<1>26. ASSUME NEW u \in Uploads, BucketLifecycle(u)
     PROVE  ClosedIsEmpty'
  BY <1>26, OwnUpload, DeletesFields, KeysAreKeys, MediaAssumption DEF BucketLifecycle
<1>27. ASSUME NEW u \in Uploads, Attach(u)
     PROVE  ClosedIsEmpty'
  BY <1>27, RowIsRow, RowFields DEF Attach, Rows
<1>28. ASSUME NEW u \in Uploads, Expire(u)
     PROVE  ClosedIsEmpty'
  BY <1>28, RowIsRow, RowFields DEF Expire, Rows
<1>29. ASSUME NEW u \in Uploads, Retire(u)
     PROVE  ClosedIsEmpty'
  BY <1>29 DEF Retire, TypeOK, RowBecomes, Rows
<1>30. ASSUME NEW u \in Uploads, NEW t \in Tokens, CopyLands(u, t)
     PROVE  ClosedIsEmpty'
  BY <1>30, MediaAssumption DEF CopyLands, TypeOK
<1>31. ASSUME NEW u \in Uploads, NEW t \in Tokens, CopyIsLost(u, t)
     PROVE  ClosedIsEmpty'
  BY <1>31 DEF CopyIsLost
<1>32. CASE UNCHANGED vars
  BY <1>32 DEF vars
<1>. QED
  BY <1>1, <1>2, <1>3, <1>4, <1>5, <1>6, <1>7, <1>8, <1>9, <1>10, <1>11, <1>12, <1>13, <1>14,
     <1>15, <1>16, <1>17, <1>18, <1>19, <1>20, <1>21, <1>22, <1>23, <1>24, <1>25, <1>26, <1>27,
     <1>28, <1>29, <1>30, <1>31, <1>32
     DEF Next, Complete, Discard, Cleanup, Environment


-----------------------------------------------------------------------------
(* Invariance                                                               *)

\* The invariant holds of an empty table and an empty bucket.
LEMMA InvariantInit == Init => IInv
<1> SUFFICES ASSUME Init PROVE IInv
  OBVIOUS
<1>1. TypeOK /\ CallsAreWhole
  BY TypeInit
<1>2. \A u \in Uploads : /\ row[u].status = "unborn" /\ row[u].token = None
                         /\ row[u].key = Staging
  BY DEF Init
<1>3. \A w \in Workers : worker[w].at = "idle"
  BY DEF Init, NoCall
<1>4. \A u \in Uploads, t \in Tokens : copy[u][t] = "none"
  BY DEF Init
<1>5. RowConstraint /\ RowsAreWhole /\ ReadyObjectIntact /\ AcceptedHasLanded
  BY <1>2 DEF RowConstraint, RowsAreWhole, ReadyObjectIntact, AcceptedHasLanded, Usable
<1>6. FreshTokens
  BY <1>4 DEF FreshTokens
<1>7. /\ SoleHolder /\ ReclaimedIsDead /\ UnmarkedIsUnused /\ DroppedIsUnused
      /\ DeletedIsClosed /\ VerifiedIsGood
  BY <1>3 DEF SoleHolder, ReclaimedIsDead, UnmarkedIsUnused, DroppedIsUnused,
              DeletedIsClosed, VerifiedIsGood, Finalizing, Holding, Unmarked, Deleting
<1>8. ClosedIsEmpty
  BY <1>2, <1>3 DEF ClosedIsEmpty, Deleting
<1>. QED
  BY <1>1, <1>5, <1>6, <1>7, <1>8 DEF IInv

\* Every step of a worker, a client, the bucket or the clock keeps it.
LEMMA InvariantStep == IInv /\ [Next]_vars => IInv'
<1> SUFFICES ASSUME IInv, [Next]_vars PROVE IInv'
  OBVIOUS
<1>1. /\ TypeOK /\ RowConstraint /\ CallsAreWhole /\ RowsAreWhole /\ FreshTokens
      /\ SoleHolder /\ ReclaimedIsDead /\ UnmarkedIsUnused /\ DroppedIsUnused
      /\ DeletedIsClosed /\ VerifiedIsGood /\ AcceptedHasLanded
      /\ ReadyObjectIntact /\ ClosedIsEmpty
  BY DEF IInv
<1>2. TypeOK' /\ CallsAreWhole' /\ RowsAreWhole' /\ FreshTokens' /\ SoleHolder'
  BY <1>1, TypeStep, CallsStep, RowsStep, FreshStep, SoleHolderStep
<1>3. RowConstraint' /\ ReclaimedIsDead' /\ UnmarkedIsUnused' /\ DroppedIsUnused' /\ DeletedIsClosed'
  BY <1>1, RowConstraintStep, ReclaimedStep, UnmarkedStep, DroppedStep, ClosedStep
<1>4. VerifiedIsGood' /\ AcceptedHasLanded'
  BY <1>1, VerifiedStep, LandedStep
<1>5. ReadyObjectIntact' /\ ClosedIsEmpty'
  BY <1>1, ReadyStep, EmptyStep
<1>. QED
  BY <1>2, <1>3, <1>4, <1>5 DEF IInv

\* The invariant holds in every reachable state.
LEMMA Invariance == Spec => []IInv
  BY InvariantInit, InvariantStep, PTL DEF Spec

\* The variables of the upload life cycle keep their types.
THEOREM Typing == Spec => []TypeOK
<1>1. IInv => TypeOK
  BY DEF IInv
<1>. QED
  BY <1>1, Invariance, PTL

\* No transaction of initiate, complete, discard, attach or clean-up saves a
\* row the check constraint of the table would reject.
THEOREM RowsStayValid == Spec => []RowConstraint
<1>1. IInv => RowConstraint
  BY DEF IInv
<1>. QED
  BY <1>1, Invariance, PTL

\* Whatever the number of concurrent completions, discards and clean-ups, and
\* even if leases run out under finalizers that are still alive, a READY or
\* ATTACHED upload has its verified bytes.
THEOREM AcceptedBytesStay == Spec => []ReadyObjectIntact
<1>1. IInv => ReadyObjectIntact
  BY DEF IInv
<1>. QED
  BY <1>1, Invariance, PTL

-----------------------------------------------------------------------------
(* The workers, the rows and the bucket implement MediaPromise              *)

Kept(u) == row[u].key # Staging /\ object[u][row[u].key] = "good"

Open == {"pending", "finalizing", "reclaiming"}

Phases      == [u \in Uploads |-> Phase(row[u].status)]
KeptUploads == {u \in Uploads : Kept(u)}

PromiseStep == [Promise!Next]_(Promise!promise)

\* A step that changes one row and no object.
LEMMA RowMoves ==
  ASSUME UNCHANGED object, NEW u \in Uploads,
         \A v \in Uploads : v # u => row'[v] = row[v],
         \/ /\ row'[u].key = row[u].key
            /\ \/ row'[u].status = row[u].status
               \/ row[u].status \in Open /\ row'[u].status \in Open
               \/ row[u].status = "unborn" /\ row'[u].status = "pending"
               \/ row[u].status = "ready" /\ row'[u].status = "attached"
               \/ row[u].status \in Unattached /\ row'[u].status = "deleting"
               \/ row[u].status = "attached" /\ row'[u].status = "deleting" /\ u \in Diary
               \/ /\ row[u].status \in Open \cup {"deleting"} /\ row'[u].status = "gone"
                  /\ ~Kept(u)
         \/ row[u].status \in Open /\ row'[u].status = "ready" /\ Kept(u)'
  PROVE  PromiseStep
<1>1. /\ \A v \in Uploads : v # u => (Kept(v)' <=> Kept(v))
      /\ row'[u].key = row[u].key => (Kept(u)' <=> Kept(u))
  BY DEF Kept
<1>2. /\ Phases' = [Phases EXCEPT ![u] = Phase(row'[u].status)]
      /\ Phases[u] = Phase(row[u].status)
  BY DEF Phases
<1>3. CASE /\ row'[u].key = row[u].key
           /\ \/ row'[u].status = row[u].status
              \/ row[u].status \in Open /\ row'[u].status \in Open
  <2>1. Phase(row'[u].status) = Phase(row[u].status) /\ KeptUploads' = KeptUploads
    BY <1>1, <1>3 DEF KeptUploads, Phase, Open
  <2>2. Phases' = Phases
    BY <1>2, <2>1 DEF Phases
  <2>. QED
    BY <2>1, <2>2 DEF PromiseStep, Promise!promise, Phases, KeptUploads, Kept
<1>4. CASE /\ row'[u].key = row[u].key
           /\ row[u].status = "unborn" /\ row'[u].status = "pending"
  <2>1. Phase(row[u].status) = "absent" /\ Phase(row'[u].status) = "open"
    BY <1>4 DEF Phase, Open, Unattached
  <2>2. KeptUploads' = KeptUploads
    BY <1>1, <1>4 DEF KeptUploads
  <2>3. Promise!Open(u)
    BY <1>2, <1>4, <2>1, <2>2 DEF Promise!Open, Promise!Move, Phases, KeptUploads, Kept
  <2>. QED
    BY <2>3 DEF PromiseStep, Promise!Next
<1>5. CASE /\ row'[u].key = row[u].key
           /\ row[u].status = "ready" /\ row'[u].status = "attached"
  <2>1. Phase(row[u].status) = "usable" /\ Phase(row'[u].status) = "used"
    BY <1>5 DEF Phase, Open, Unattached
  <2>2. KeptUploads' = KeptUploads
    BY <1>1, <1>5 DEF KeptUploads
  <2>3. Promise!Use(u)
    BY <1>2, <1>5, <2>1, <2>2 DEF Promise!Use, Promise!Move, Phases, KeptUploads, Kept
  <2>. QED
    BY <2>3 DEF PromiseStep, Promise!Next
<1>6. CASE /\ row'[u].key = row[u].key
           /\ row[u].status = "deleting" /\ row'[u].status = "deleting"
  BY <1>3, <1>6
<1>7. CASE /\ row'[u].key = row[u].key
           /\ row[u].status \in Open \cup {"ready"} /\ row'[u].status = "deleting"
  <2>1. Phase(row[u].status) \in {"open", "usable"} /\ Phase(row'[u].status) = "closing"
    BY <1>7 DEF Phase, Open, Unattached
  <2>2. KeptUploads' = KeptUploads
    BY <1>1, <1>7 DEF KeptUploads
  <2>3. Promise!Close(u)
    BY <1>2, <1>7, <2>1, <2>2 DEF Promise!Close, Promise!Move, Phases, KeptUploads, Kept
  <2>. QED
    BY <2>3 DEF PromiseStep, Promise!Next
<1>8. CASE /\ row'[u].key = row[u].key /\ u \in Diary
           /\ row[u].status = "attached" /\ row'[u].status = "deleting"
  <2>1. Phase(row[u].status) = "used" /\ Phase(row'[u].status) = "closing"
    BY <1>8 DEF Phase, Open, Unattached
  <2>2. KeptUploads' = KeptUploads
    BY <1>1, <1>8 DEF KeptUploads
  <2>3. Promise!Close(u)
    BY <1>2, <1>8, <2>1, <2>2 DEF Promise!Close, Promise!Move, Phases, KeptUploads, Kept
  <2>. QED
    BY <2>3 DEF PromiseStep, Promise!Next
<1>9. CASE /\ row'[u].key = row[u].key /\ ~Kept(u)
           /\ row[u].status \in Open \cup {"deleting"} /\ row'[u].status = "gone"
  <2>1. Phase(row[u].status) \in {"open", "closing"} /\ Phase(row'[u].status) = "gone"
    BY <1>9 DEF Phase, Open, Unattached
  <2>2. KeptUploads' = KeptUploads
    BY <1>1, <1>9 DEF KeptUploads
  <2>3. Promise!Erase(u)
    BY <1>2, <1>9, <2>1, <2>2 DEF Promise!Erase, Promise!Move, Phases, KeptUploads, Kept
  <2>. QED
    BY <2>3 DEF PromiseStep, Promise!Next
<1>10. CASE row[u].status \in Open /\ row'[u].status = "ready" /\ Kept(u)'
  <2>1. Phase(row[u].status) = "open" /\ Phase(row'[u].status) = "usable"
    BY <1>10 DEF Phase, Open, Unattached
  <2>2. KeptUploads' = KeptUploads \cup {u}
    BY <1>1, <1>10 DEF KeptUploads
  <2>3. Promise!Accept(u)
    BY <1>2, <1>10, <2>1, <2>2 DEF Promise!Accept, Promise!Move, Phases, KeptUploads, Kept
  <2>. QED
    BY <2>3 DEF PromiseStep, Promise!Next
<1>. QED
  BY <1>3, <1>4, <1>5, <1>6, <1>7, <1>8, <1>9, <1>10 DEF Unattached, Open

\* A step that writes or deletes one object and changes no row.
LEMMA ObjectMoves ==
  ASSUME TypeOK, UNCHANGED row, NEW u \in Uploads, NEW k \in Keys,
         \A v \in Uploads, j \in Keys : v # u \/ j # k => object'[v][j] = object[v][j],
         \/ k = Staging
         \/ row[u].key # k
         \/ row[u].status = "deleting" /\ object'[u][k] # "good"
         \/ object[u][k] # "good" /\ object'[u][k] # "good"
  PROVE  PromiseStep
<1>1. \A v \in Uploads : row[v].key \in Keys
  BY KeysAreKeys
<1>2. \A v \in Uploads : v # u => (Kept(v)' <=> Kept(v))
  BY <1>1 DEF Kept
<1>3. Phases' = Phases
  BY DEF Phases
<1>4. CASE Kept(u)' <=> Kept(u)
  <2>1. KeptUploads' = KeptUploads
    BY <1>2, <1>4 DEF KeptUploads
  <2>. QED
    BY <1>3, <2>1 DEF PromiseStep, Promise!promise, Phases, KeptUploads, Kept
<1>5. CASE row[u].status = "deleting" /\ row[u].key = k /\ object'[u][k] # "good"
  <2>1. Phases[u] = "closing" 
    BY <1>5 DEF Phases, Phase
  <2>2. KeptUploads' = KeptUploads \ {u}
    BY <1>2, <1>5 DEF KeptUploads, Kept
  <2>3. Promise!DropBytes(u)
    BY <1>3, <2>1, <2>2 DEF Promise!DropBytes, Phases, KeptUploads, Kept
  <2>. QED
    BY <2>3 DEF PromiseStep, Promise!Next
<1>. QED
  BY <1>1, <1>4, <1>5 DEF Kept

\* A step that changes neither rows nor objects.
LEMMA Stutters == ASSUME UNCHANGED <<row, object>> PROVE PromiseStep
  BY DEF PromiseStep, Promise!promise, Kept

\* A delete of an object no READY or ATTACHED row refers to.
LEMMA DeleteMoves ==
  ASSUME TypeOK, RowConstraint, ClosedIsEmpty, UNCHANGED row,
         NEW u \in Uploads, NEW k \in Keys, DeleteRaises(u, k),
         k = Staging \/ row[u].key # k \/ row[u].status \notin Usable
  PROVE  PromiseStep
<1>1. CASE UNCHANGED object
  BY <1>1, Stutters
<1>2. CASE Deletes(u, k)
  <2>1. /\ object'[u][k] = "none"
        /\ \A v \in Uploads, j \in Keys : v # u \/ j # k => object'[v][j] = object[v][j]
    BY <1>2, DeletesFields
  <2>2. row[u].key # Staging /\ row[u].status \notin Usable => row[u].status \in {"deleting", "gone"}
    BY DEF RowConstraint
  <2>3. row[u].key # Staging /\ row[u].status = "gone" => object[u][row[u].key] = "none"
    BY DEF ClosedIsEmpty
  <2>4. \/ k = Staging
        \/ row[u].key # k
        \/ row[u].status = "deleting" /\ object'[u][k] # "good"
        \/ object[u][k] # "good" /\ object'[u][k] # "good"
    BY <2>1, <2>2, <2>3
  <2>. QED
    BY <2>1, <2>4, ObjectMoves
<1>. QED
  BY <1>1, <1>2 DEF DeleteRaises

\* Every step of a worker, a client, the bucket or the clock is a step of
\* MediaPromise, or no step of it.
LEMMA PromiseSteps ==
  ASSUME IInv, [Next]_vars
  PROVE  PromiseStep
<1>0. /\ TypeOK /\ RowConstraint /\ CallsAreWhole
      /\ UnmarkedIsUnused /\ DroppedIsUnused /\ DeletedIsClosed
      /\ VerifiedIsGood /\ AcceptedHasLanded /\ ClosedIsEmpty
  BY DEF IInv
<1>1. ASSUME UNCHANGED <<row, object>>
      PROVE  PromiseStep
  BY <1>1, Stutters
<1>2. ASSUME NEW w \in Workers, NEW u \in Uploads, Initiate(w, u)
      PROVE  PromiseStep
  BY <1>0, <1>2, InitiateDoes, RowMoves
<1>3. ASSUME NEW w \in Workers, SignUrlFails(w)
      PROVE  PromiseStep
  <2> DEFINE u == worker[w].upload
  <2>1. u \in Uploads /\ row[u] \in Rows
    BY <1>0, <1>3, OwnRow DEF SignUrlFails
  <2>2. CASE row[u].status = "pending"
    <3>1. /\ row'[u] = [row[u] EXCEPT !.status = "gone"]
          /\ \A v \in Uploads : v # u => row'[v] = row[v]
      BY <1>0, <1>3, <2>1, <2>2, RowFields DEF SignUrlFails
    <3>2. row'[u].status = "gone" /\ row'[u].key = row[u].key
      BY <2>1, <3>1 DEF Rows
    <3>3. ~Kept(u)
      BY <1>0, <2>1, <2>2 DEF RowConstraint, Kept, Usable
    <3>. QED
      BY <1>3, <2>1, <2>2, <3>1, <3>2, <3>3, RowMoves DEF SignUrlFails, Open
  <2>. QED
    BY <1>3, <2>2, Stutters DEF SignUrlFails
<1>4. ASSUME NEW w \in Workers, NEW u \in Uploads, NEW t \in Tokens, ClaimFresh(w, u, t)
      PROVE  PromiseStep
  <2>1. /\ row'[u] = [row[u] EXCEPT !.status = "finalizing", !.token = t, !.expired = FALSE]
        /\ \A v \in Uploads : v # u => row'[v] = row[v]
    BY <1>0, <1>4, RowFields DEF ClaimFresh, Finalize
  <2>2. row'[u].status = "finalizing" /\ row'[u].key = row[u].key
    BY <1>0, <2>1, RowIsRow DEF Rows
  <2>. QED
    BY <1>4, <2>1, <2>2, RowMoves DEF ClaimFresh, Open
<1>5. ASSUME NEW w \in Workers, NEW u \in Uploads, ClaimReclaim(w, u)
      PROVE  PromiseStep
  BY <1>0, <1>5, ClaimReclaimDoes, RowMoves DEF Open
<1>6. ASSUME NEW w \in Workers, NEW t \in Tokens, Restart(w, t)
      PROVE  PromiseStep
  BY <1>0, <1>6, RestartDoes, RowMoves DEF Open
<1>7. ASSUME NEW w \in Workers, MarkReady(w)
      PROVE  PromiseStep
  <2>1. PICK u \in Uploads : u = worker[w].upload
    BY <1>0, <1>7, MarkReadyDoes
  <2>2. /\ worker[w].at = "mark" /\ worker[w].token \in Tokens
        /\ ClaimIsCurrent(w)
        /\ row'[u].status = "ready" /\ row'[u].key = worker[w].token
        /\ \A v \in Uploads : v # u => row'[v] = row[v]
        /\ UNCHANGED object
    BY <1>0, <1>7, <2>1, MarkReadyDoes
  <2>3. object[u][worker[w].token] = "good"
    BY <1>0, <2>1, <2>2 DEF VerifiedIsGood
  <2>4. Kept(u)'
    BY <2>2, <2>3, KeysAreKeys DEF Kept
  <2>5. row[u].status \in Open
    BY <2>1, <2>2 DEF ClaimIsCurrent, Open
  <2>. QED
    BY <2>1, <2>2, <2>4, <2>5, RowMoves
<1>8. ASSUME NEW w \in Workers, Acknowledge(w)
      PROVE  PromiseStep
  <2> DEFINE u == worker[w].upload
  <2>1. /\ u \in Uploads /\ worker[w].token \in Tokens
        /\ row'[u].key = row[u].key
        /\ \/ row' = row
           \/ /\ row[u].token = worker[w].token
              /\ \/ row[u].status = "finalizing" /\ row'[u].status = "pending"
                 \/ row[u].status = "deleting" /\ row'[u].status = "gone"
        /\ \A v \in Uploads : v # u => row'[v] = row[v]
        /\ UNCHANGED object
    BY <1>0, <1>8, AcknowledgeDoes
  <2>2. row[u].token = worker[w].token => ~Kept(u)
    BY <1>0, <2>1, MediaAssumption DEF RowConstraint, Kept
  <2>. QED
    BY <2>1, <2>2, RowMoves DEF Open
<1>9. ASSUME NEW w \in Workers, NEW u \in Uploads, ClaimDiscard(w, u)
      PROVE  PromiseStep
  <2>1. /\ row'[u].status = "deleting" /\ row'[u].key = row[u].key
        /\ \A v \in Uploads : v # u => row'[v] = row[v]
    BY <1>0, <1>9 DEF ClaimDiscard, RowBecomes, TypeOK, Rows
  <2>. QED
    BY <1>9, <2>1, RowMoves DEF ClaimDiscard
<1>10. ASSUME NEW w \in Workers, FinishDiscard(w)
       PROVE  PromiseStep
  <2> DEFINE u == worker[w].upload
  <2>1. u \in Uploads /\ row[u] \in Rows
    BY <1>0, <1>10, OwnRow DEF FinishDiscard
  <2>2. CASE UNCHANGED row
    BY <1>10, <2>2, Stutters DEF FinishDiscard
  <2>3. CASE row[u].status = "deleting" /\ worker[w].clean
             /\ RowBecomes(u, [row[u] EXCEPT !.status = "gone"])
    <3>1. /\ row'[u].status = "gone" /\ row'[u].key = row[u].key
          /\ \A v \in Uploads : v # u => row'[v] = row[v]
      BY <1>0, <2>1, <2>3, RowFields DEF Rows
    <3>2. ~Kept(u)
      BY <1>0, <1>10, <2>3 DEF ClosedIsEmpty, FinishDiscard, Deleting, Kept
    <3>. QED
      BY <1>10, <2>1, <2>3, <3>1, <3>2, RowMoves DEF FinishDiscard
  <2>. QED
    BY <1>10, <2>2, <2>3 DEF FinishDiscard
<1>11. ASSUME NEW w \in Workers, NEW u \in Uploads, ClaimCleanup(w, u)
       PROVE  PromiseStep
  BY <1>0, <1>11, ClaimCleanupDoes, RowMoves
<1>12. ASSUME NEW w \in Workers, FinishCleanup(w)
       PROVE  PromiseStep
  <2> DEFINE u == worker[w].upload
  <2>1. /\ worker[w].at = "purge" /\ worker[w].todo = {} /\ u \in Uploads
        /\ row'[u].key = row[u].key
        /\ row' = row \/ (row[u].status = "deleting" /\ row'[u].status = "gone")
        /\ \A v \in Uploads : v # u => row'[v] = row[v]
        /\ UNCHANGED object
    BY <1>0, <1>12, FinishCleanupDoes
  <2>2. ~Kept(u)
    BY <1>0, <2>1 DEF ClosedIsEmpty, Deleting, Kept
  <2>. QED
    BY <2>1, <2>2, RowMoves
<1>13. ASSUME NEW u \in Uploads, Attach(u) \/ Retire(u) \/ Expire(u)
       PROVE  PromiseStep
  <2>1. row[u] \in Rows
    BY <1>0, RowIsRow
  <2>2. CASE Attach(u)
    BY <1>0, <2>1, <2>2, RowFields, RowMoves DEF Attach, Rows
  <2>3. CASE Retire(u)
    <3>1. /\ row'[u] = [row[u] EXCEPT !.status = "deleting", !.expired = TRUE]
          /\ \A v \in Uploads : v # u => row'[v] = row[v]
      BY <1>0, <2>3, RowFields DEF Retire
    <3>2. row'[u].status = "deleting" /\ row'[u].key = row[u].key
      BY <2>1, <3>1 DEF Rows
    <3>. QED
      BY <2>3, <3>1, <3>2, RowMoves DEF Retire
  <2>4. CASE Expire(u)
    BY <1>0, <2>1, <2>4, RowFields, RowMoves DEF Expire, Rows
  <2>. QED
    BY <1>13, <2>2, <2>3, <2>4
<1>14. ASSUME NEW w \in Workers, ReclaimDeletes(w) \/ ReclaimFails(w)
       PROVE  PromiseStep
  <2>1. /\ worker[w].at = "reclaim" /\ UNCHANGED row
        /\ DeleteRaises(worker[w].upload, worker[w].token)
    BY <1>14 DEF ReclaimDeletes, ReclaimFails, DeleteRaises
  <2>2. worker[w].upload \in Uploads /\ worker[w].token \in Keys
    BY <1>0, <2>1, OwnUpload, KeysAreKeys DEF Holding
  <2>3. row[worker[w].upload].key # worker[w].token
    BY <1>0, <2>1 DEF UnmarkedIsUnused, Unmarked, Holding
  <2>. QED
    BY <1>0, <2>1, <2>2, <2>3, DeleteMoves
<1>15. ASSUME NEW w \in Workers, Sweep(w)
       PROVE  PromiseStep
  <2>1. worker[w].upload \in Uploads
    BY <1>0, <1>15, OwnUpload DEF Sweep
  <2>. QED
    BY <1>0, <1>15, <2>1, KeysAreKeys, DeleteMoves DEF Sweep
<1>16. ASSUME NEW w \in Workers, DropDeletes(w) \/ DropFails(w)
       PROVE  PromiseStep
  <2>1. /\ worker[w].at = "drop" /\ UNCHANGED row
        /\ DeleteRaises(worker[w].upload, worker[w].token)
    BY <1>16 DEF DropDeletes, DropFails, DeleteRaises
  <2>2. worker[w].upload \in Uploads /\ worker[w].token \in Keys
    BY <1>0, <2>1, OwnUpload, KeysAreKeys DEF Holding, Finalizing
  <2>3. \/ row[worker[w].upload].key # worker[w].token
        \/ row[worker[w].upload].status \notin Usable
    BY <1>0, <2>1 DEF DroppedIsUnused, Referenced
  <2>. QED
    BY <1>0, <2>1, <2>2, <2>3, DeleteMoves
<1>17. ASSUME NEW w \in Workers, NEW k \in Keys,
              DiscardObject(w, k) \/ PurgeObject(w, k) \/ PurgeFails(w, k)
       PROVE  PromiseStep
  <2>1. /\ worker[w].at \in Deleting /\ worker[w].at # "idle" /\ UNCHANGED row
        /\ DeleteRaises(worker[w].upload, k)
    BY <1>17 DEF DiscardObject, PurgeObject, PurgeFails, DeleteRaises, Deleting
  <2>2. worker[w].upload \in Uploads
    BY <1>0, <2>1, OwnUpload
  <2>3. row[worker[w].upload].status \notin Usable
    BY <1>0, <2>1 DEF DeletedIsClosed, Usable
  <2>. QED
    BY <1>0, <2>1, <2>2, <2>3, DeleteMoves
<1>18. ASSUME NEW u \in Uploads, NEW content \in {"good", "bad"}, Put(u, content)
       PROVE  PromiseStep
  <2>1. \A v \in Uploads, j \in Keys : v # u \/ j # Staging => object'[v][j] = object[v][j]
    BY <1>0, <1>18 DEF Put, TypeOK
  <2>. QED
    BY <1>0, <1>18, <2>1, KeysAreKeys, ObjectMoves DEF Put
<1>19. ASSUME NEW u \in Uploads, BucketLifecycle(u)
       PROVE  PromiseStep
  BY <1>0, <1>19, KeysAreKeys, DeleteMoves DEF BucketLifecycle, DeleteRaises
<1>20. ASSUME NEW u \in Uploads, NEW t \in Tokens, CopyLands(u, t)
       PROVE  PromiseStep
  <2>1. \A v \in Uploads, j \in Keys : v # u \/ j # t => object'[v][j] = object[v][j]
    BY <1>0, <1>20 DEF CopyLands, TypeOK
  <2>2. row[u].key # t
    BY <1>0, <1>20, KeysAreKeys DEF AcceptedHasLanded, CopyLands
  <2>. QED
    BY <1>0, <1>20, <2>1, <2>2, KeysAreKeys, ObjectMoves DEF CopyLands
<1>21. CASE UNCHANGED vars
  BY <1>1, <1>21 DEF vars
<1>22. ASSUME NEW w \in Workers,
              \/ SignUrl(w) \/ RestartRefused(w) \/ InspectPasses(w) \/ InspectFails(w)
              \/ Promote(w) \/ CopyReturns(w) \/ CopyRaises(w) \/ VerifyPasses(w)
              \/ VerifyFails(w) \/ MarkFails(w) \/ CheckReference(w) \/ Crash(w)
       PROVE  PromiseStep
  BY <1>1, <1>22 DEF SignUrl, RestartRefused, InspectPasses, InspectFails, Promote,
     CopyReturns, CopyRaises, VerifyPasses, VerifyFails, MarkFails, CheckReference, Crash
<1>23. ASSUME NEW u \in Uploads, NEW t \in Tokens, CopyIsLost(u, t)
       PROVE  PromiseStep
  BY <1>1, <1>23 DEF CopyIsLost
<1>. QED
  BY <1>2, <1>3, <1>4, <1>5, <1>6, <1>7, <1>8, <1>9, <1>10, <1>11, <1>12, <1>13, <1>14,
     <1>15, <1>16, <1>17, <1>18, <1>19, <1>20, <1>21, <1>22, <1>23
     DEF Next, Complete, Discard, Cleanup, Environment

\* The whole machinery of leases, tokens and best-effort deletes keeps the
\* promise of MediaPromise to the participants, for any number of uploads and
\* workers: used once, never revived, bytes kept until closed, record last.
THEOREM PromiseIsKept == Spec => PromiseKept
<1>1. Init => Promise!Init
  BY DEF Init, Promise!Init, Phase
<1>2. IInv /\ [Next]_vars => [Promise!Next]_(Promise!promise)
  BY PromiseSteps DEF PromiseStep
<1>. QED
  BY <1>1, <1>2, Invariance, PTL DEF Spec, PromiseKept, Promise!Spec

-----------------------------------------------------------------------------
(***************************************************************************)
(* Under LeaseCovers, as long as no lease ends under a live finalizer or   *)
(* its copy, there is also one finalizer at a time and no object is lost.  *)
(*                                                                         *)
(* The argument: a finalizer, or a copy on its way, is named by the row of *)
(* its upload, whose lease has not ended; so whoever takes the row over,   *)
(* or removes it, does so after they are gone, and after the object they   *)
(* may have left was deleted.                                              *)
(***************************************************************************)

\* The row names the token, as the claim of a lease that has not ended or as
\* the accepted object.
Named(u, t) ==
    \/ row[u].token = t /\ row[u].status \in {"finalizing", "deleting"} /\ ~row[u].expired
    \/ row[u].key = t

\* A finalizer is named by its row.
FinalizersAreNamed ==
    \A w \in Workers : worker[w].at \in Finalizing => Named(worker[w].upload, worker[w].token)

\* So is every copy on its way.
CopiesAreNamed ==
    \A u \in Uploads, t \in Tokens : copy[u][t] = "inflight" => Named(u, t)

\* A finalizer that may acknowledge its claim has no copy on its way.
CleanHasNoCopy ==
    \A w \in Workers : worker[w].at \in Finalizing =>
        /\ worker[w].at \in {"inspect", "promote"} =>
               copy[worker[w].upload][worker[w].token] = "none"
        /\ worker[w].at = "copying" => ~worker[w].clean
        /\ worker[w].clean => copy[worker[w].upload][worker[w].token] # "inflight"

\* What it acknowledges is gone, or accepted.
AcknowledgedIsGone ==
    \A w \in Workers : worker[w].at = "ack" =>
        /\ worker[w].clean
        /\ \/ row[worker[w].upload].key = worker[w].token
           \/ object[worker[w].upload][worker[w].token] = "none"

\* The object of a reclaimed token is gone before a new token replaces it.
RestartIsBare ==
    \A w \in Workers : worker[w].at = "restart" /\ StillReclaiming(w) =>
        object[worker[w].upload][worker[w].token] = "none"

\* A clean-up whose claim no discard has renewed since has the lease behind it,
\* and the object of the row's token is gone, or among those it will delete.
PurgeCurrent(w) ==
    LET r == row[worker[w].upload]
    IN  /\ worker[w].stamp <= r.stamp
        /\ r.status = "deleting" /\ r.stamp = worker[w].stamp =>
               /\ r.expired
               /\ r.token # None => \/ r.token \in worker[w].todo
                                    \/ object[worker[w].upload][r.token] = "none"

\* It is so for every clean-up that is deleting objects.
PurgeIsCurrent ==
    \A w \in Workers : worker[w].at = "purge" => PurgeCurrent(w)

\* Every object under media/, and every copy on its way, is named by a row.
NoneLost ==
    \A u \in Uploads, t \in Tokens :
        object[u][t] # "none" \/ copy[u][t] = "inflight" =>
            /\ row[u].status \notin {"unborn", "gone"}
            /\ t \in {row[u].token, row[u].key}

\* The inductive invariant under LeaseCovers.
LeaseInv ==
    /\ FinalizersAreNamed
    /\ CopiesAreNamed
    /\ CleanHasNoCopy
    /\ AcknowledgedIsGone
    /\ RestartIsBare
    /\ PurgeIsCurrent
    /\ NoneLost

-----------------------------------------------------------------------------
(* What the steps change                                                   *)

\* A row after a step, field by field; no other row changes.
RowIs(u, status, token, key, stamp, expired) ==
    /\ row'[u].status = status /\ row'[u].token = token /\ row'[u].key = key
    /\ row'[u].stamp = stamp /\ (row'[u].expired <=> expired)
    /\ \A v \in Uploads : v # u => row'[v] = row[v]

\* A call after a step; no other call changes.
CallIs(w, at, u, t) ==
    /\ worker'[w].at = at /\ worker'[w].upload = u /\ worker'[w].token = t
    /\ \A v \in Workers : v # w => worker'[v] = worker[v]

\* What initiate_media_upload saves.
LEMMA InitiateSets ==
  ASSUME TypeOK, CallsAreWhole, NEW w \in Workers, NEW u \in Uploads, Initiate(w, u)
  PROVE  /\ worker[w].at = "idle" /\ row[u].status = "unborn"
         /\ CallIs(w, "sign", u, None)
         /\ RowIs(u, "pending", row[u].token, row[u].key, row[u].stamp, row[u].expired)
         /\ UNCHANGED <<object, copy, issued>>
<1>1. /\ CallIs(w, "sign", u, None)
  BY DEF TypeOK, Calls, CallIs, Begins, CallBecomes, NoCall, Initiate
<1>2. RowIs(u, "pending", row[u].token, row[u].key, row[u].stamp, row[u].expired)
  <2>2. /\ row'[u] = [row[u] EXCEPT !.status = "pending"]
        /\ \A v \in Uploads : v # u => row'[v] = row[v]
    BY RowFields DEF Initiate, Finalize
  <2>. QED
    BY <2>2, RowIsRow DEF Rows, RowIs
<1>. QED
  BY <1>1, <1>2 DEF Initiate, Begins, Finalize

\* What the first claim of an upload saves (_claim_media_upload).
LEMMA ClaimFreshSets ==
  ASSUME TypeOK, CallsAreWhole, NEW w \in Workers, NEW u \in Uploads, NEW t \in Tokens,
         ClaimFresh(w, u, t)
  PROVE  /\ worker[w].at = "idle" /\ row[u].status = "pending" /\ t \notin issued
         /\ CallIs(w, "inspect", u, t) /\ worker'[w].clean = TRUE
         /\ RowIs(u, "finalizing", t, row[u].key, row[u].stamp, FALSE)
         /\ UNCHANGED <<object, copy>>
<1>1. /\ CallIs(w, "inspect", u, t) /\ worker'[w].clean = TRUE
  BY DEF TypeOK, Calls, CallIs, Begins, CallBecomes, NoCall, ClaimFresh
<1>2. RowIs(u, "finalizing", t, row[u].key, row[u].stamp, FALSE)
  <2>1. PICK x \in BOOLEAN : x = FALSE
    OBVIOUS
  <2>2. /\ row'[u] = [row[u] EXCEPT !.status = "finalizing", !.token = t, !.expired = x]
        /\ \A v \in Uploads : v # u => row'[v] = row[v]
    BY <2>1, RowFields DEF ClaimFresh, Finalize
  <2>. QED
    BY <2>1, <2>2, RowIsRow DEF Rows, RowIs
<1>. QED
  BY <1>1, <1>2 DEF ClaimFresh, Begins, Finalize

\* What a claim saves that takes over an ended lease (_claim_media_upload).
LEMMA ClaimReclaimSets ==
  ASSUME TypeOK, CallsAreWhole, NEW w \in Workers, NEW u \in Uploads, ClaimReclaim(w, u)
  PROVE  /\ worker[w].at = "idle" /\ row[u].token # None
         /\ \/ row[u].status = "reclaiming"
            \/ row[u].status = "finalizing" /\ row[u].expired
         /\ CallIs(w, "reclaim", u, row[u].token)
         /\ RowIs(u, "reclaiming", row[u].token, row[u].key, row[u].stamp, row[u].expired)
         /\ UNCHANGED <<object, copy, issued>>
<1>1. /\ CallIs(w, "reclaim", u, row[u].token)
  BY DEF TypeOK, Calls, CallIs, Begins, CallBecomes, NoCall, ClaimReclaim
<1>2. RowIs(u, "reclaiming", row[u].token, row[u].key, row[u].stamp, row[u].expired)
  <2>2. /\ row'[u] = [row[u] EXCEPT !.status = "reclaiming"]
        /\ \A v \in Uploads : v # u => row'[v] = row[v]
    BY RowFields DEF ClaimReclaim, Finalize
  <2>. QED
    BY <2>2, RowIsRow DEF Rows, RowIs
<1>. QED
  BY <1>1, <1>2 DEF ClaimReclaim, Begins, Finalize

\* What a discard saves (_claim_media_upload_discard).
LEMMA ClaimDiscardSets ==
  ASSUME TypeOK, CallsAreWhole, NEW w \in Workers, NEW u \in Uploads, ClaimDiscard(w, u)
  PROVE  /\ worker[w].at = "idle" /\ row[u].status \in Unattached
         /\ CallIs(w, "discard", u, row[u].token)
         /\ RowIs(u, "deleting", row[u].token, row[u].key, row[u].stamp + 1, row[u].token = None)
         /\ UNCHANGED <<object, copy, issued>>
<1>1. /\ CallIs(w, "discard", u, row[u].token)
  BY DEF TypeOK, Calls, CallIs, Begins, CallBecomes, NoCall, ClaimDiscard
<1>2. RowIs(u, "deleting", row[u].token, row[u].key, row[u].stamp + 1, row[u].token = None)
  <2>1. PICK x \in BOOLEAN : x = (row[u].token = None)
    OBVIOUS
  <2>2. /\ row'[u] = [row[u] EXCEPT !.status = "deleting", !.stamp = row[u].stamp + 1,
                                        !.expired = x]
        /\ \A v \in Uploads : v # u => row'[v] = row[v]
    BY <2>1, RowFields DEF ClaimDiscard, Finalize
  <2>. QED
    BY <2>1, <2>2, RowIsRow DEF Rows, RowIs
<1>. QED
  BY <1>1, <1>2 DEF ClaimDiscard, Begins, Finalize

\* What a clean-up saves (_claim_media_cleanup).
LEMMA ClaimCleanupSets ==
  ASSUME TypeOK, CallsAreWhole, NEW w \in Workers, NEW u \in Uploads, ClaimCleanup(w, u)
  PROVE  /\ worker[w].at = "idle" /\ row[u].status \in Unattached /\ row[u].expired
         /\ CallIs(w, "purge", u, None) /\ worker'[w].todo = OwnedKeys(row[u])
         /\ worker'[w].stamp = row[u].stamp
         /\ RowIs(u, "deleting", row[u].token, row[u].key, row[u].stamp, row[u].expired)
         /\ UNCHANGED <<object, copy, issued>>
<1>1. /\ CallIs(w, "purge", u, None) /\ worker'[w].todo = OwnedKeys(row[u])
      /\ worker'[w].stamp = row[u].stamp
  BY DEF TypeOK, Calls, CallIs, Begins, CallBecomes, NoCall, ClaimCleanup
<1>2. RowIs(u, "deleting", row[u].token, row[u].key, row[u].stamp, row[u].expired)
  <2>2. /\ row'[u] = [row[u] EXCEPT !.status = "deleting"]
        /\ \A v \in Uploads : v # u => row'[v] = row[v]
    BY RowFields DEF ClaimCleanup, Finalize
  <2>. QED
    BY <2>2, RowIsRow DEF Rows, RowIs
<1>. QED
  BY <1>1, <1>2 DEF ClaimCleanup, Begins, Finalize

\* What a reclaimer saves to start anew (_start_reclaimed_claim).
LEMMA RestartSets ==
  ASSUME TypeOK, CallsAreWhole, NEW w \in Workers, NEW t \in Tokens, Restart(w, t)
  PROVE  /\ worker[w].at = "restart" /\ StillReclaiming(w) /\ t \notin issued
         /\ worker[w].upload \in Uploads
         /\ worker[w].token \in Tokens
         /\ CallIs(w, "inspect", worker[w].upload, t) /\ worker'[w].clean = worker[w].clean
         /\ RowIs(worker[w].upload, "finalizing", t, row[worker[w].upload].key,
            row[worker[w].upload].stamp, FALSE)
         /\ UNCHANGED <<object, copy>>
<1>0. worker[w].upload \in Uploads /\ worker[w].token \in Tokens
  BY OwnUpload DEF Restart, Holding, Finalizing
<1>1. /\ CallIs(w, "inspect", worker[w].upload, t) /\ worker'[w].clean = worker[w].clean
  BY DEF TypeOK, Calls, CallIs, CallBecomes, Restart
<1>2. RowIs(worker[w].upload, "finalizing", t, row[worker[w].upload].key,
            row[worker[w].upload].stamp, FALSE)
  <2>1. PICK x \in BOOLEAN : x = FALSE
    OBVIOUS
  <2>2. /\ row'[worker[w].upload] = [row[worker[w].upload] EXCEPT
                     !.status = "finalizing", !.token = t, !.expired = x]
        /\ \A v \in Uploads : v # worker[w].upload => row'[v] = row[v]
    BY <1>0, <2>1, RowFields DEF Restart, Finalize
  <2>. QED
    BY <1>0, <2>1, <2>2, RowIsRow DEF Rows, RowIs
<1>. QED
  BY <1>0, <1>1, <1>2 DEF Restart, Begins, Finalize

\* What a finalizer saves when the copy is verified (_mark_media_upload_ready).
LEMMA MarkReadySets ==
  ASSUME TypeOK, CallsAreWhole, NEW w \in Workers, MarkReady(w)
  PROVE  /\ worker[w].at = "mark" /\ ClaimIsCurrent(w) /\ worker[w].upload \in Uploads
         /\ worker[w].token \in Tokens
         /\ \E p \in {"sweep", "check"} : CallIs(w, p, worker[w].upload, worker[w].token)
         /\ worker'[w].clean = worker[w].clean
         /\ RowIs(worker[w].upload, "ready", None, worker[w].token, row[worker[w].upload].stamp, FALSE)
         /\ UNCHANGED <<object, copy, issued>>
<1>0. worker[w].upload \in Uploads /\ worker[w].token \in Tokens
  BY OwnUpload DEF MarkReady, Holding, Finalizing
<1>1. /\ \E p \in {"sweep", "check"} : CallIs(w, p, worker[w].upload, worker[w].token)
      /\ worker'[w].clean = worker[w].clean
  BY GoesToFields DEF CallIs, MarkReady
<1>2. RowIs(worker[w].upload, "ready", None, worker[w].token, row[worker[w].upload].stamp, FALSE)
  <2>1. PICK x \in BOOLEAN : x = FALSE
    OBVIOUS
  <2>2. /\ row'[worker[w].upload] = [row[worker[w].upload] EXCEPT !.status = "ready",
                     !.key = worker[w].token, !.token = None, !.expired = x]
        /\ \A v \in Uploads : v # worker[w].upload => row'[v] = row[v]
    BY <1>0, <2>1, RowFields DEF MarkReady, Finalize
  <2>. QED
    BY <1>0, <2>1, <2>2, RowIsRow DEF Rows, RowIs
<1>. QED
  BY <1>0, <1>1, <1>2 DEF MarkReady, Begins, Finalize

\* What attach_media_uploads saves.
LEMMA AttachSets ==
  ASSUME TypeOK, CallsAreWhole, NEW u \in Uploads, Attach(u)
  PROVE  /\ row[u].status = "ready"
         /\ RowIs(u, "attached", row[u].token, row[u].key, row[u].stamp, row[u].expired)
         /\ UNCHANGED <<object, copy, issued, worker>>
<1>1. RowIs(u, "attached", row[u].token, row[u].key, row[u].stamp, row[u].expired)
  <2>2. /\ row'[u] = [row[u] EXCEPT !.status = "attached"]
        /\ \A v \in Uploads : v # u => row'[v] = row[v]
    BY RowFields DEF Attach
  <2>. QED
    BY <2>2, RowIsRow DEF Rows, RowIs
<1>. QED
  BY <1>1 DEF Attach

\* What taking a file down from a diary entry saves.
LEMMA RetireSets ==
  ASSUME TypeOK, CallsAreWhole, NEW u \in Uploads, Retire(u)
  PROVE  /\ row[u].status = "attached"
         /\ RowIs(u, "deleting", row[u].token, row[u].key, row[u].stamp, TRUE)
         /\ UNCHANGED <<object, copy, issued, worker>>
<1>1. RowIs(u, "deleting", row[u].token, row[u].key, row[u].stamp, TRUE)
  <2>1. PICK x \in BOOLEAN : x = TRUE
    OBVIOUS
  <2>2. /\ row'[u] = [row[u] EXCEPT !.status = "deleting", !.expired = x]
        /\ \A v \in Uploads : v # u => row'[v] = row[v]
    BY <2>1, RowFields DEF Retire
  <2>. QED
    BY <2>1, <2>2, RowIsRow DEF Rows, RowIs
<1>. QED
  BY <1>1 DEF Retire

\* What the end of a lease, or of the time to live, changes.
LEMMA ExpireSets ==
  ASSUME TypeOK, CallsAreWhole, NEW u \in Uploads, Expire(u)
  PROVE  /\ row[u].status \in Unattached /\ (LeaseCovers => ~LeaseHeld(u))
         /\ RowIs(u, row[u].status, row[u].token, row[u].key, row[u].stamp, TRUE)
         /\ UNCHANGED <<object, copy, issued, worker>>
<1>1. RowIs(u, row[u].status, row[u].token, row[u].key, row[u].stamp, TRUE)
  <2>1. PICK x \in BOOLEAN : x = TRUE
    OBVIOUS
  <2>2. /\ row'[u] = [row[u] EXCEPT !.expired = x]
        /\ \A v \in Uploads : v # u => row'[v] = row[v]
    BY <2>1, RowFields DEF Expire
  <2>. QED
    BY <2>1, <2>2, RowIsRow DEF Rows, RowIs
<1>. QED
  BY <1>1 DEF Expire

\* What initiate_media_upload removes when signing raises.
LEMMA SignUrlFailsSets ==
  ASSUME TypeOK, CallsAreWhole, NEW w \in Workers, SignUrlFails(w)
  PROVE  /\ worker[w].upload \in Uploads
         /\ worker'[w].at = "idle" /\ \A v \in Workers : v # w => worker'[v] = worker[v]
         /\ \/ row' = row
            \/ /\ row[worker[w].upload].status = "pending"
               /\ RowIs(worker[w].upload, "gone", row[worker[w].upload].token,
                 row[worker[w].upload].key, row[worker[w].upload].stamp,
                 row[worker[w].upload].expired)
         /\ UNCHANGED <<object, copy, issued>>
<1>0. worker[w].upload \in Uploads /\ (worker[w].at \in Holding => worker[w].token \in Tokens)
  BY OwnUpload DEF SignUrlFails
<1>1. worker'[w].at = "idle" /\ \A v \in Workers : v # w => worker'[v] = worker[v]
  BY ReturnsFields DEF SignUrlFails
<1>2. ASSUME RowBecomes(worker[w].upload,
                        [row[worker[w].upload] EXCEPT !.status = "gone"])
      PROVE  RowIs(worker[w].upload, "gone", row[worker[w].upload].token,
                 row[worker[w].upload].key, row[worker[w].upload].stamp,
                 row[worker[w].upload].expired)
  <2>2. /\ row'[worker[w].upload] = [row[worker[w].upload] EXCEPT !.status = "gone"]
        /\ \A v \in Uploads : v # worker[w].upload => row'[v] = row[v]
    BY <1>0, <1>2, RowFields DEF SignUrlFails
  <2>. QED
    BY <1>0, <1>2, <2>2, RowIsRow DEF Rows, RowIs
<1>. QED
  BY <1>0, <1>1, <1>2 DEF SignUrlFails, Holding, Finalizing

\* What a finalizer saves whose claim is cleaned up
\* (_acknowledge_failed_finalization_cleanup).
LEMMA AcknowledgeSets ==
  ASSUME TypeOK, CallsAreWhole, NEW w \in Workers, Acknowledge(w)
  PROVE  /\ worker[w].upload \in Uploads
         /\ worker[w].at = "ack" /\ worker[w].token \in Tokens
         /\ worker'[w].at = "idle" /\ \A v \in Workers : v # w => worker'[v] = worker[v]
         /\ \/ row' = row
            \/ /\ row[worker[w].upload].token = worker[w].token
               /\ row[worker[w].upload].status = "finalizing"
               /\ RowIs(worker[w].upload, "pending", None,
                 row[worker[w].upload].key, row[worker[w].upload].stamp,
                 row[worker[w].upload].expired)
            \/ /\ row[worker[w].upload].token = worker[w].token
               /\ row[worker[w].upload].status = "deleting"
               /\ RowIs(worker[w].upload, "gone", None,
                 row[worker[w].upload].key, row[worker[w].upload].stamp,
                 row[worker[w].upload].expired)
         /\ UNCHANGED <<object, copy, issued>>
<1>0. worker[w].upload \in Uploads /\ (worker[w].at \in Holding => worker[w].token \in Tokens)
  BY OwnUpload DEF Acknowledge
<1>1. worker'[w].at = "idle" /\ \A v \in Workers : v # w => worker'[v] = worker[v]
  BY ReturnsFields DEF Acknowledge
<1>2. ASSUME RowBecomes(worker[w].upload,
                        [row[worker[w].upload] EXCEPT !.status = "pending", !.token = None])
      PROVE  RowIs(worker[w].upload, "pending", None,
                 row[worker[w].upload].key, row[worker[w].upload].stamp,
                 row[worker[w].upload].expired)
  <2>2. /\ row'[worker[w].upload] = [row[worker[w].upload] EXCEPT !.status = "pending", !.token = None]
        /\ \A v \in Uploads : v # worker[w].upload => row'[v] = row[v]
    BY <1>0, <1>2, RowFields DEF Acknowledge
  <2>. QED
    BY <1>0, <1>2, <2>2, RowIsRow DEF Rows, RowIs
<1>3. ASSUME RowBecomes(worker[w].upload,
                        [row[worker[w].upload] EXCEPT !.status = "gone", !.token = None])
      PROVE  RowIs(worker[w].upload, "gone", None,
                 row[worker[w].upload].key, row[worker[w].upload].stamp,
                 row[worker[w].upload].expired)
  <2>2. /\ row'[worker[w].upload] = [row[worker[w].upload] EXCEPT !.status = "gone", !.token = None]
        /\ \A v \in Uploads : v # worker[w].upload => row'[v] = row[v]
    BY <1>0, <1>3, RowFields DEF Acknowledge
  <2>. QED
    BY <1>0, <1>3, <2>2, RowIsRow DEF Rows, RowIs
<1>. QED
  BY <1>0, <1>1, <1>2, <1>3 DEF Acknowledge, Holding, Finalizing

\* What the end of a discard removes (_finish_media_upload_discard).
LEMMA FinishDiscardSets ==
  ASSUME TypeOK, CallsAreWhole, NEW w \in Workers, FinishDiscard(w)
  PROVE  /\ worker[w].upload \in Uploads
         /\ worker[w].at = "discard" /\ worker[w].todo = {}
         /\ worker'[w].at = "idle" /\ \A v \in Workers : v # w => worker'[v] = worker[v]
         /\ \/ row' = row
            \/ /\ row[worker[w].upload].status = "deleting" /\ row[worker[w].upload].token = None
               /\ worker[w].clean
               /\ RowIs(worker[w].upload, "gone", row[worker[w].upload].token,
                 row[worker[w].upload].key, row[worker[w].upload].stamp,
                 row[worker[w].upload].expired)
         /\ UNCHANGED <<object, copy, issued>>
<1>0. worker[w].upload \in Uploads /\ (worker[w].at \in Holding => worker[w].token \in Tokens)
  BY OwnUpload DEF FinishDiscard
<1>1. worker'[w].at = "idle" /\ \A v \in Workers : v # w => worker'[v] = worker[v]
  BY ReturnsFields DEF FinishDiscard
<1>2. ASSUME RowBecomes(worker[w].upload,
                        [row[worker[w].upload] EXCEPT !.status = "gone"])
      PROVE  RowIs(worker[w].upload, "gone", row[worker[w].upload].token,
                 row[worker[w].upload].key, row[worker[w].upload].stamp,
                 row[worker[w].upload].expired)
  <2>2. /\ row'[worker[w].upload] = [row[worker[w].upload] EXCEPT !.status = "gone"]
        /\ \A v \in Uploads : v # worker[w].upload => row'[v] = row[v]
    BY <1>0, <1>2, RowFields DEF FinishDiscard
  <2>. QED
    BY <1>0, <1>2, <2>2, RowIsRow DEF Rows, RowIs
<1>. QED
  BY <1>0, <1>1, <1>2 DEF FinishDiscard, Holding, Finalizing

\* What the end of a clean-up removes (_finish_media_cleanup).
LEMMA FinishCleanupSets ==
  ASSUME TypeOK, CallsAreWhole, NEW w \in Workers, FinishCleanup(w)
  PROVE  /\ worker[w].upload \in Uploads
         /\ worker[w].at = "purge" /\ worker[w].todo = {}
         /\ worker'[w].at = "idle" /\ \A v \in Workers : v # w => worker'[v] = worker[v]
         /\ \/ row' = row
            \/ /\ row[worker[w].upload].status = "deleting" /\ row[worker[w].upload].stamp = worker[w].stamp
               /\ RowIs(worker[w].upload, "gone", None,
                 row[worker[w].upload].key, row[worker[w].upload].stamp,
                 row[worker[w].upload].expired)
         /\ UNCHANGED <<object, copy, issued>>
<1>0. worker[w].upload \in Uploads /\ (worker[w].at \in Holding => worker[w].token \in Tokens)
  BY OwnUpload DEF FinishCleanup
<1>1. worker'[w].at = "idle" /\ \A v \in Workers : v # w => worker'[v] = worker[v]
  BY ReturnsFields DEF FinishCleanup
<1>2. ASSUME RowBecomes(worker[w].upload,
                        [row[worker[w].upload] EXCEPT !.status = "gone", !.token = None])
      PROVE  RowIs(worker[w].upload, "gone", None,
                 row[worker[w].upload].key, row[worker[w].upload].stamp,
                 row[worker[w].upload].expired)
  <2>2. /\ row'[worker[w].upload] = [row[worker[w].upload] EXCEPT !.status = "gone", !.token = None]
        /\ \A v \in Uploads : v # worker[w].upload => row'[v] = row[v]
    BY <1>0, <1>2, RowFields DEF FinishCleanup
  <2>. QED
    BY <1>0, <1>2, <2>2, RowIsRow DEF Rows, RowIs
<1>. QED
  BY <1>0, <1>1, <1>2 DEF FinishCleanup, Holding, Finalizing

\* The step creates no object under media/.
Shrinks ==
    \A u \in Uploads, t \in Tokens : object'[u][t] = object[u][t] \/ object'[u][t] = "none"

\* No delete does, whether it raises or not.
LEMMA DeletesShrink ==
  ASSUME TypeOK, CallsAreWhole, NEW w \in Workers,
         \/ ReclaimDeletes(w) \/ ReclaimFails(w) \/ DropDeletes(w) \/ DropFails(w) \/ Sweep(w)
         \/ \E k \in Keys : PurgeFails(w, k) \/ PurgeObject(w, k) \/ DiscardObject(w, k)
  PROVE  Shrinks /\ UNCHANGED <<row, copy>>
<1>1. /\ worker[w].upload \in Uploads
      /\ worker[w].at \in Holding => worker[w].token \in Keys
      /\ UNCHANGED <<row, copy>>
  BY OwnUpload, KeysAreKeys
     DEF ReclaimDeletes, ReclaimFails, DropDeletes, DropFails, Sweep, PurgeFails,
     PurgeObject, DiscardObject
<1>2. PICK j \in Keys : DeleteRaises(worker[w].upload, j)
  BY <1>1, KeysAreKeys DEF ReclaimDeletes, ReclaimFails, DropDeletes, DropFails, Sweep, PurgeFails,
     PurgeObject, DiscardObject, DeleteRaises, Holding, Finalizing
<1>. QED
  BY <1>1, <1>2, RaisesFields, KeysAreKeys DEF Shrinks

\* Nor does the client, whose presigned URL is for the staging key.
LEMMA ClientShrinks ==
  ASSUME TypeOK, NEW u \in Uploads,
         BucketLifecycle(u) \/ (\E c \in {"good", "bad"} : Put(u, c))
  PROVE  Shrinks /\ UNCHANGED <<row, copy, issued, worker>>
  BY KeysAreKeys DEF TypeOK, Shrinks, BucketLifecycle, Put, Deletes

-----------------------------------------------------------------------------
(* Preservation of the parts of the invariant                              *)

\* Whoever takes a row over does so when its finalizer is gone.
LEMMA FinalizersStep ==
  ASSUME LeaseCovers, TypeOK, CallsAreWhole, RowConstraint, SoleHolder, PurgeIsCurrent,
         FinalizersAreNamed, [Next]_vars
  PROVE  FinalizersAreNamed'
<1> USE DEF CallsAreWhole, FinalizersAreNamed, Named, Holding, Finalizing
<1>1. ASSUME NEW w \in Workers, NEW u \in Uploads, Initiate(w, u)
     PROVE  FinalizersAreNamed'
  BY <1>1, InitiateSets DEF RowIs, CallIs
<1>2. ASSUME NEW w \in Workers, SignUrlFails(w)
     PROVE  FinalizersAreNamed'
  BY <1>2, SignUrlFailsSets DEF RowIs
<1>3. ASSUME NEW w \in Workers, SignUrl(w) \/ RestartRefused(w) \/ Crash(w)
     PROVE  FinalizersAreNamed'
  BY <1>3, ReturnsFields DEF SignUrl, RestartRefused, Crash
<1>4. ASSUME NEW w \in Workers, NEW u \in Uploads, NEW t \in Tokens, ClaimFresh(w, u, t)
     PROVE  FinalizersAreNamed'
  <2>1. /\ row[u].status = "pending" /\ CallIs(w, "inspect", u, t)
        /\ RowIs(u, "finalizing", t, row[u].key, row[u].stamp, FALSE)
    BY <1>4, ClaimFreshSets
  <2>2. Named(u, t)'
    BY <2>1 DEF RowIs
  <2>3. ASSUME NEW v \in Workers, v # w, worker[v].at \in Finalizing
        PROVE  Named(worker[v].upload, worker[v].token)'
    BY <2>1, <2>3, OwnUpload DEF RowIs, CallIs
  <2>. QED
    BY <2>1, <2>2, <2>3 DEF CallIs
<1>5. ASSUME NEW w \in Workers, NEW u \in Uploads, ClaimReclaim(w, u)
     PROVE  FinalizersAreNamed'
  BY <1>5, ClaimReclaimSets DEF RowIs, CallIs
<1>6. ASSUME NEW w \in Workers, ReclaimDeletes(w)
     PROVE  FinalizersAreNamed'
  BY <1>6, GoesToFields DEF ReclaimDeletes
<1>7. ASSUME NEW w \in Workers, ReclaimFails(w) \/ DropFails(w)
     PROVE  FinalizersAreNamed'
  BY <1>7, ReturnsFields DEF ReclaimFails, DropFails
<1>8. ASSUME NEW w \in Workers, NEW k \in Keys, PurgeFails(w, k)
     PROVE  FinalizersAreNamed'
  BY <1>8, ReturnsFields DEF PurgeFails
<1>9. ASSUME NEW w \in Workers, Sweep(w)
     PROVE  FinalizersAreNamed'
  BY <1>9, ReturnsFields DEF Sweep
<1>10. ASSUME NEW w \in Workers, NEW t \in Tokens, Restart(w, t)
     PROVE  FinalizersAreNamed'
  <2>1. /\ row[worker[w].upload].status = "reclaiming"
        /\ CallIs(w, "inspect", worker[w].upload, t)
        /\ RowIs(worker[w].upload, "finalizing", t, row[worker[w].upload].key,
                 row[worker[w].upload].stamp, FALSE)
    BY <1>10, RestartSets DEF StillReclaiming
  <2>2. Named(worker[w].upload, t)'
    BY <2>1 DEF RowIs, CallIs
  <2>3. ASSUME NEW v \in Workers, v # w, worker[v].at \in Finalizing
        PROVE  Named(worker[v].upload, worker[v].token)'
    BY <2>1, <2>3, OwnUpload DEF RowIs, CallIs
  <2>. QED
    BY <2>1, <2>2, <2>3 DEF CallIs
<1>11. ASSUME NEW w \in Workers, InspectPasses(w) \/ InspectFails(w) \/ CopyRaises(w)
                             \/ VerifyPasses(w) \/ VerifyFails(w) \/ MarkFails(w)
     PROVE  FinalizersAreNamed'
  BY <1>11, GoesToFields
     DEF InspectPasses, InspectFails, CopyRaises, VerifyPasses, VerifyFails, MarkFails
<1>12. ASSUME NEW w \in Workers, Promote(w)
     PROVE  FinalizersAreNamed'
  BY <1>12 DEF Promote, TypeOK, Calls, CallBecomes
<1>13. ASSUME NEW w \in Workers, CopyReturns(w)
     PROVE  FinalizersAreNamed'
  BY <1>13 DEF CopyReturns, TypeOK, Calls, CallBecomes
<1>14. ASSUME NEW w \in Workers, MarkReady(w)
     PROVE  FinalizersAreNamed'
  BY <1>14, MarkReadySets, MediaAssumption, OwnUpload
     DEF RowIs, CallIs, SoleHolder, RowConstraint, ClaimIsCurrent
<1>15. ASSUME NEW w \in Workers, CheckReference(w)
     PROVE  FinalizersAreNamed'
  BY <1>15, GoesToFields, ReturnsFields DEF CheckReference, AfterDrop
<1>16. ASSUME NEW w \in Workers, DropDeletes(w)
     PROVE  FinalizersAreNamed'
  BY <1>16, GoesToFields, ReturnsFields DEF DropDeletes, AfterDrop
<1>17. ASSUME NEW w \in Workers, Acknowledge(w)
     PROVE  FinalizersAreNamed'
  BY <1>17, AcknowledgeSets DEF RowIs, SoleHolder
<1>18. ASSUME NEW w \in Workers, NEW u \in Uploads, ClaimDiscard(w, u)
     PROVE  FinalizersAreNamed'
  BY <1>18, ClaimDiscardSets, OwnUpload, MediaAssumption DEF RowIs, CallIs
<1>19. ASSUME NEW w \in Workers, NEW k \in Keys, DiscardObject(w, k)
     PROVE  FinalizersAreNamed'
  BY <1>19, DiscardObjectDoes
<1>20. ASSUME NEW w \in Workers, FinishDiscard(w)
     PROVE  FinalizersAreNamed'
  BY <1>20, FinishDiscardSets, OwnUpload, MediaAssumption DEF RowIs
<1>21. ASSUME NEW w \in Workers, NEW u \in Uploads, ClaimCleanup(w, u)
     PROVE  FinalizersAreNamed'
  BY <1>21, ClaimCleanupSets DEF RowIs, CallIs
<1>22. ASSUME NEW w \in Workers, NEW k \in Keys, PurgeObject(w, k)
     PROVE  FinalizersAreNamed'
  BY <1>22, PurgeObjectDoes
<1>23. ASSUME NEW w \in Workers, FinishCleanup(w)
     PROVE  FinalizersAreNamed'
  BY <1>23, FinishCleanupSets DEF RowIs, PurgeIsCurrent, PurgeCurrent
<1>24. ASSUME NEW u \in Uploads, NEW c \in {"good", "bad"}, Put(u, c)
     PROVE  FinalizersAreNamed'
  BY <1>24 DEF Put
<1>25. ASSUME NEW u \in Uploads, BucketLifecycle(u)
     PROVE  FinalizersAreNamed'
  BY <1>25 DEF BucketLifecycle
<1>26. ASSUME NEW u \in Uploads, Attach(u)
     PROVE  FinalizersAreNamed'
  BY <1>26, AttachSets DEF RowIs
<1>27. ASSUME NEW u \in Uploads, Expire(u)
     PROVE  FinalizersAreNamed'
  BY <1>27, ExpireSets, OwnUpload DEF RowIs, LeaseHeld
<1>28. ASSUME NEW u \in Uploads, Retire(u)
     PROVE  FinalizersAreNamed'
  BY <1>28, RetireSets, OwnUpload, MediaAssumption DEF RowIs, RowConstraint
<1>29. ASSUME NEW u \in Uploads, NEW t \in Tokens, CopyLands(u, t)
     PROVE  FinalizersAreNamed'
  BY <1>29 DEF CopyLands, TypeOK
<1>30. ASSUME NEW u \in Uploads, NEW t \in Tokens, CopyIsLost(u, t)
     PROVE  FinalizersAreNamed'
  BY <1>30 DEF CopyIsLost, TypeOK
<1>31. CASE UNCHANGED vars
  BY <1>31 DEF vars
<1>. QED
  BY <1>1, <1>2, <1>3, <1>4, <1>5, <1>6, <1>7, <1>8, <1>9, <1>10, <1>11, <1>12, <1>13,
     <1>14, <1>15, <1>16, <1>17, <1>18, <1>19, <1>20, <1>21, <1>22, <1>23, <1>24, <1>25,
     <1>26, <1>27, <1>28, <1>29, <1>30, <1>31
  DEF Next, Complete, Discard, Cleanup, Environment

\* Nor is its copy on its way any more.
LEMMA CopiesStep ==
  ASSUME LeaseCovers, TypeOK, CallsAreWhole, RowConstraint, AcceptedHasLanded, FinalizersAreNamed,
         CleanHasNoCopy, AcknowledgedIsGone, PurgeIsCurrent, CopiesAreNamed, [Next]_vars
  PROVE  CopiesAreNamed'
<1> USE DEF CopiesAreNamed, Named
<1>1. ASSUME NEW w \in Workers, NEW u \in Uploads, Initiate(w, u)
     PROVE  CopiesAreNamed'
  BY <1>1, InitiateSets DEF RowIs, CallIs
<1>2. ASSUME NEW w \in Workers, SignUrlFails(w)
     PROVE  CopiesAreNamed'
  BY <1>2, SignUrlFailsSets DEF RowIs
<1>3. ASSUME NEW w \in Workers, SignUrl(w) \/ RestartRefused(w) \/ Crash(w)
     PROVE  CopiesAreNamed'
  BY <1>3, ReturnsFields DEF SignUrl, RestartRefused, Crash
<1>4. ASSUME NEW w \in Workers, NEW u \in Uploads, NEW t \in Tokens, ClaimFresh(w, u, t)
     PROVE  CopiesAreNamed'
  <2>1. /\ row[u].status = "pending" /\ UNCHANGED copy
        /\ RowIs(u, "finalizing", t, row[u].key, row[u].stamp, FALSE)
    BY <1>4, ClaimFreshSets
  <2>2. ASSUME NEW v \in Uploads, NEW s \in Tokens, copy'[v][s] = "inflight"
        PROVE  Named(v, s)'
    <3>1. CASE v = u
      BY <2>1, <2>2, <3>1 DEF RowIs
    <3>2. CASE v # u
      BY <2>1, <2>2, <3>2 DEF RowIs
    <3>. QED
      BY <3>1, <3>2
  <2>. QED
    BY <2>2
<1>5. ASSUME NEW w \in Workers, NEW u \in Uploads, ClaimReclaim(w, u)
     PROVE  CopiesAreNamed'
  BY <1>5, ClaimReclaimSets DEF RowIs, CallIs
<1>6. ASSUME NEW w \in Workers, ReclaimDeletes(w)
     PROVE  CopiesAreNamed'
  BY <1>6, GoesToFields DEF ReclaimDeletes
<1>7. ASSUME NEW w \in Workers, ReclaimFails(w) \/ DropFails(w)
     PROVE  CopiesAreNamed'
  BY <1>7, ReturnsFields DEF ReclaimFails, DropFails
<1>8. ASSUME NEW w \in Workers, NEW k \in Keys, PurgeFails(w, k)
     PROVE  CopiesAreNamed'
  BY <1>8, ReturnsFields DEF PurgeFails
<1>9. ASSUME NEW w \in Workers, Sweep(w)
     PROVE  CopiesAreNamed'
  BY <1>9, ReturnsFields DEF Sweep
<1>10. ASSUME NEW w \in Workers, NEW t \in Tokens, Restart(w, t)
     PROVE  CopiesAreNamed'
  <2> DEFINE u == worker[w].upload
  <2>1. /\ row[u].status = "reclaiming" /\ UNCHANGED copy
        /\ RowIs(u, "finalizing", t, row[u].key, row[u].stamp, FALSE)
    BY <1>10, RestartSets DEF StillReclaiming
  <2> HIDE DEF u
  <2>2. ASSUME NEW v \in Uploads, NEW s \in Tokens, copy'[v][s] = "inflight"
        PROVE  Named(v, s)'
    <3>1. CASE v = u
      BY <2>1, <2>2, <3>1 DEF RowIs
    <3>2. CASE v # u
      BY <2>1, <2>2, <3>2 DEF RowIs
    <3>. QED
      BY <3>1, <3>2
  <2>. QED
    BY <2>2
<1>11. ASSUME NEW w \in Workers, InspectPasses(w) \/ InspectFails(w) \/ CopyRaises(w)
                             \/ VerifyPasses(w) \/ VerifyFails(w) \/ MarkFails(w)
     PROVE  CopiesAreNamed'
  BY <1>11, GoesToFields
     DEF InspectPasses, InspectFails, CopyRaises, VerifyPasses, VerifyFails, MarkFails
<1>12. ASSUME NEW w \in Workers, Promote(w)
     PROVE  CopiesAreNamed'
  BY <1>12, OwnUpload
     DEF Promote, TypeOK, Calls, CallBecomes, FinalizersAreNamed, Holding, Finalizing
<1>13. ASSUME NEW w \in Workers, CopyReturns(w)
     PROVE  CopiesAreNamed'
  BY <1>13 DEF CopyReturns, TypeOK, Calls, CallBecomes
<1>14. ASSUME NEW w \in Workers, MarkReady(w)
     PROVE  CopiesAreNamed'
  BY <1>14, MarkReadySets, MediaAssumption
     DEF RowIs, CallIs, RowConstraint, AcceptedHasLanded, ClaimIsCurrent
<1>15. ASSUME NEW w \in Workers, CheckReference(w)
     PROVE  CopiesAreNamed'
  BY <1>15, GoesToFields, ReturnsFields DEF CheckReference, AfterDrop
<1>16. ASSUME NEW w \in Workers, DropDeletes(w)
     PROVE  CopiesAreNamed'
  BY <1>16, GoesToFields, ReturnsFields DEF DropDeletes, AfterDrop
<1>17. ASSUME NEW w \in Workers, Acknowledge(w)
     PROVE  CopiesAreNamed'
  BY <1>17, AcknowledgeSets DEF RowIs, CleanHasNoCopy, AcknowledgedIsGone, Finalizing
<1>18. ASSUME NEW w \in Workers, NEW u \in Uploads, ClaimDiscard(w, u)
     PROVE  CopiesAreNamed'
  BY <1>18, ClaimDiscardSets, MediaAssumption DEF RowIs, CallIs
<1>19. ASSUME NEW w \in Workers, NEW k \in Keys, DiscardObject(w, k)
     PROVE  CopiesAreNamed'
  BY <1>19, DiscardObjectDoes
<1>20. ASSUME NEW w \in Workers, FinishDiscard(w)
     PROVE  CopiesAreNamed'
  BY <1>20, FinishDiscardSets, MediaAssumption DEF RowIs
<1>21. ASSUME NEW w \in Workers, NEW u \in Uploads, ClaimCleanup(w, u)
     PROVE  CopiesAreNamed'
  BY <1>21, ClaimCleanupSets DEF RowIs, CallIs
<1>22. ASSUME NEW w \in Workers, NEW k \in Keys, PurgeObject(w, k)
     PROVE  CopiesAreNamed'
  BY <1>22, PurgeObjectDoes
<1>23. ASSUME NEW w \in Workers, FinishCleanup(w)
     PROVE  CopiesAreNamed'
  BY <1>23, FinishCleanupSets DEF RowIs, PurgeIsCurrent, PurgeCurrent
<1>24. ASSUME NEW u \in Uploads, NEW c \in {"good", "bad"}, Put(u, c)
     PROVE  CopiesAreNamed'
  BY <1>24 DEF Put
<1>25. ASSUME NEW u \in Uploads, BucketLifecycle(u)
     PROVE  CopiesAreNamed'
  BY <1>25 DEF BucketLifecycle
<1>26. ASSUME NEW u \in Uploads, Attach(u)
     PROVE  CopiesAreNamed'
  BY <1>26, AttachSets DEF RowIs
<1>27. ASSUME NEW u \in Uploads, Expire(u)
     PROVE  CopiesAreNamed'
  BY <1>27, ExpireSets DEF RowIs, LeaseHeld
<1>28. ASSUME NEW u \in Uploads, Retire(u)
     PROVE  CopiesAreNamed'
  BY <1>28, RetireSets, MediaAssumption DEF RowIs, RowConstraint
<1>29. ASSUME NEW u \in Uploads, NEW t \in Tokens, CopyLands(u, t)
     PROVE  CopiesAreNamed'
  BY <1>29 DEF CopyLands, TypeOK
<1>30. ASSUME NEW u \in Uploads, NEW t \in Tokens, CopyIsLost(u, t)
     PROVE  CopiesAreNamed'
  BY <1>30 DEF CopyIsLost, TypeOK
<1>31. CASE UNCHANGED vars
  BY <1>31 DEF vars
<1>. QED
  BY <1>1, <1>2, <1>3, <1>4, <1>5, <1>6, <1>7, <1>8, <1>9, <1>10, <1>11, <1>12, <1>13,
     <1>14, <1>15, <1>16, <1>17, <1>18, <1>19, <1>20, <1>21, <1>22, <1>23, <1>24, <1>25,
     <1>26, <1>27, <1>28, <1>29, <1>30, <1>31
  DEF Next, Complete, Discard, Cleanup, Environment

\* A copy is requested once, by the one finalizer that holds its token.
LEMMA CleanStep ==
  ASSUME TypeOK, CallsAreWhole, FreshTokens, SoleHolder, CleanHasNoCopy, [Next]_vars
  PROVE  CleanHasNoCopy'
<1> USE DEF CallsAreWhole, CleanHasNoCopy, Holding, Finalizing
<1>1. ASSUME NEW w \in Workers, NEW u \in Uploads, Initiate(w, u)
     PROVE  CleanHasNoCopy'
  BY <1>1, InitiateSets DEF RowIs, CallIs
<1>2. ASSUME NEW w \in Workers, SignUrlFails(w)
     PROVE  CleanHasNoCopy'
  BY <1>2, SignUrlFailsSets DEF RowIs
<1>3. ASSUME NEW w \in Workers, SignUrl(w) \/ RestartRefused(w) \/ Crash(w)
     PROVE  CleanHasNoCopy'
  BY <1>3, ReturnsFields DEF SignUrl, RestartRefused, Crash
<1>4. ASSUME NEW w \in Workers, NEW u \in Uploads, NEW t \in Tokens, ClaimFresh(w, u, t)
     PROVE  CleanHasNoCopy'
  <2>1. /\ worker[w].at = "idle" /\ row[u].status = "pending" /\ t \notin issued
        /\ CallIs(w, "inspect", u, t) /\ worker'[w].clean
        /\ RowIs(u, "finalizing", t, row[u].key, row[u].stamp, FALSE)
        /\ UNCHANGED <<object, copy>>
    BY <1>4, ClaimFreshSets
  <2>. QED
    BY <2>1, OwnUpload DEF RowIs, CallIs, FreshTokens
<1>5. ASSUME NEW w \in Workers, NEW u \in Uploads, ClaimReclaim(w, u)
     PROVE  CleanHasNoCopy'
  BY <1>5, ClaimReclaimSets DEF RowIs, CallIs
<1>6. ASSUME NEW w \in Workers, ReclaimDeletes(w)
     PROVE  CleanHasNoCopy'
  BY <1>6, GoesToFields DEF ReclaimDeletes
<1>7. ASSUME NEW w \in Workers, ReclaimFails(w) \/ DropFails(w)
     PROVE  CleanHasNoCopy'
  BY <1>7, ReturnsFields DEF ReclaimFails, DropFails
<1>8. ASSUME NEW w \in Workers, NEW k \in Keys, PurgeFails(w, k)
     PROVE  CleanHasNoCopy'
  BY <1>8, ReturnsFields DEF PurgeFails
<1>9. ASSUME NEW w \in Workers, Sweep(w)
     PROVE  CleanHasNoCopy'
  BY <1>9, ReturnsFields DEF Sweep
<1>10. ASSUME NEW w \in Workers, NEW t \in Tokens, Restart(w, t)
     PROVE  CleanHasNoCopy'
  BY <1>10, RestartSets, OwnUpload DEF RowIs, CallIs, FreshTokens
<1>11. ASSUME NEW w \in Workers, InspectPasses(w) \/ InspectFails(w) \/ CopyRaises(w)
                             \/ VerifyPasses(w) \/ VerifyFails(w) \/ MarkFails(w)
     PROVE  CleanHasNoCopy'
  BY <1>11, GoesToFields
     DEF InspectPasses, InspectFails, CopyRaises, VerifyPasses, VerifyFails, MarkFails
<1>12. ASSUME NEW w \in Workers, Promote(w)
     PROVE  CleanHasNoCopy'
  BY <1>12, OwnUpload DEF Promote, TypeOK, Calls, CallBecomes, SoleHolder
<1>13. ASSUME NEW w \in Workers, CopyReturns(w)
     PROVE  CleanHasNoCopy'
  BY <1>13 DEF CopyReturns, TypeOK, Calls, CallBecomes
<1>14. ASSUME NEW w \in Workers, MarkReady(w)
     PROVE  CleanHasNoCopy'
  BY <1>14, MarkReadySets DEF RowIs, CallIs
<1>15. ASSUME NEW w \in Workers, CheckReference(w)
     PROVE  CleanHasNoCopy'
  BY <1>15, GoesToFields, ReturnsFields DEF CheckReference, AfterDrop
<1>16. ASSUME NEW w \in Workers, DropDeletes(w)
     PROVE  CleanHasNoCopy'
  BY <1>16, GoesToFields, ReturnsFields DEF DropDeletes, AfterDrop
<1>17. ASSUME NEW w \in Workers, Acknowledge(w)
     PROVE  CleanHasNoCopy'
  BY <1>17, AcknowledgeSets DEF RowIs
<1>18. ASSUME NEW w \in Workers, NEW u \in Uploads, ClaimDiscard(w, u)
     PROVE  CleanHasNoCopy'
  BY <1>18, ClaimDiscardSets DEF RowIs, CallIs
<1>19. ASSUME NEW w \in Workers, NEW k \in Keys, DiscardObject(w, k)
     PROVE  CleanHasNoCopy'
  BY <1>19, DiscardObjectDoes
<1>20. ASSUME NEW w \in Workers, FinishDiscard(w)
     PROVE  CleanHasNoCopy'
  BY <1>20, FinishDiscardSets DEF RowIs
<1>21. ASSUME NEW w \in Workers, NEW u \in Uploads, ClaimCleanup(w, u)
     PROVE  CleanHasNoCopy'
  BY <1>21, ClaimCleanupSets DEF RowIs, CallIs
<1>22. ASSUME NEW w \in Workers, NEW k \in Keys, PurgeObject(w, k)
     PROVE  CleanHasNoCopy'
  BY <1>22, PurgeObjectDoes
<1>23. ASSUME NEW w \in Workers, FinishCleanup(w)
     PROVE  CleanHasNoCopy'
  BY <1>23, FinishCleanupSets DEF RowIs
<1>24. ASSUME NEW u \in Uploads, NEW c \in {"good", "bad"}, Put(u, c)
     PROVE  CleanHasNoCopy'
  BY <1>24 DEF Put
<1>25. ASSUME NEW u \in Uploads, BucketLifecycle(u)
     PROVE  CleanHasNoCopy'
  BY <1>25 DEF BucketLifecycle
<1>26. ASSUME NEW u \in Uploads, Attach(u)
     PROVE  CleanHasNoCopy'
  BY <1>26, AttachSets DEF RowIs
<1>27. ASSUME NEW u \in Uploads, Expire(u)
     PROVE  CleanHasNoCopy'
  BY <1>27, ExpireSets DEF RowIs
<1>28. ASSUME NEW u \in Uploads, Retire(u)
     PROVE  CleanHasNoCopy'
  BY <1>28, RetireSets DEF RowIs
<1>29. ASSUME NEW u \in Uploads, NEW t \in Tokens, CopyLands(u, t)
     PROVE  CleanHasNoCopy'
  BY <1>29, OwnUpload DEF CopyLands, TypeOK
<1>30. ASSUME NEW u \in Uploads, NEW t \in Tokens, CopyIsLost(u, t)
     PROVE  CleanHasNoCopy'
  BY <1>30, OwnUpload DEF CopyIsLost, TypeOK
<1>31. CASE UNCHANGED vars
  BY <1>31 DEF vars
<1>. QED
  BY <1>1, <1>2, <1>3, <1>4, <1>5, <1>6, <1>7, <1>8, <1>9, <1>10, <1>11, <1>12, <1>13,
     <1>14, <1>15, <1>16, <1>17, <1>18, <1>19, <1>20, <1>21, <1>22, <1>23, <1>24, <1>25,
     <1>26, <1>27, <1>28, <1>29, <1>30, <1>31
  DEF Next, Complete, Discard, Cleanup, Environment

\* What was deleted before the claim is acknowledged does not come back.
LEMMA AcknowledgedStep ==
  ASSUME TypeOK, CallsAreWhole, RowConstraint, CleanHasNoCopy, AcknowledgedIsGone,
         [Next]_vars
  PROVE  AcknowledgedIsGone'
<1> USE DEF CallsAreWhole, AcknowledgedIsGone, Holding, Finalizing
<1>1. ASSUME NEW w \in Workers, NEW u \in Uploads, Initiate(w, u)
     PROVE  AcknowledgedIsGone'
  BY <1>1, InitiateSets DEF RowIs, CallIs
<1>2. ASSUME NEW w \in Workers, SignUrlFails(w)
     PROVE  AcknowledgedIsGone'
  BY <1>2, SignUrlFailsSets DEF RowIs
<1>3. ASSUME NEW w \in Workers, SignUrl(w) \/ RestartRefused(w) \/ Crash(w)
     PROVE  AcknowledgedIsGone'
  BY <1>3, ReturnsFields DEF SignUrl, RestartRefused, Crash
<1>4. ASSUME NEW w \in Workers, NEW u \in Uploads, NEW t \in Tokens, ClaimFresh(w, u, t)
     PROVE  AcknowledgedIsGone'
  <2>1. /\ worker[w].at = "idle" /\ row[u].status = "pending" /\ t \notin issued
        /\ CallIs(w, "inspect", u, t) /\ worker'[w].clean
        /\ RowIs(u, "finalizing", t, row[u].key, row[u].stamp, FALSE)
        /\ UNCHANGED <<object, copy>>
    BY <1>4, ClaimFreshSets
  <2>. QED
    BY <2>1 DEF RowIs, CallIs
<1>5. ASSUME NEW w \in Workers, NEW u \in Uploads, ClaimReclaim(w, u)
     PROVE  AcknowledgedIsGone'
  BY <1>5, ClaimReclaimSets DEF RowIs, CallIs
<1>6. ASSUME NEW w \in Workers, ReclaimDeletes(w)
     PROVE  AcknowledgedIsGone'
  <2>1. Shrinks /\ UNCHANGED <<row, copy>>
    BY <1>6, DeletesShrink
  <2>. QED
    BY <1>6, <2>1, GoesToFields, OwnUpload
       DEF ReclaimDeletes, Shrinks
<1>7. ASSUME NEW w \in Workers, ReclaimFails(w) \/ DropFails(w)
     PROVE  AcknowledgedIsGone'
  <2>1. Shrinks /\ UNCHANGED <<row, copy>>
    BY <1>7, DeletesShrink
  <2>. QED
    BY <1>7, <2>1, ReturnsFields, OwnUpload
       DEF ReclaimFails, DropFails, Shrinks
<1>8. ASSUME NEW w \in Workers, NEW k \in Keys, PurgeFails(w, k)
     PROVE  AcknowledgedIsGone'
  <2>1. Shrinks /\ UNCHANGED <<row, copy>>
    BY <1>8, DeletesShrink
  <2>. QED
    BY <1>8, <2>1, ReturnsFields, OwnUpload
       DEF PurgeFails, Shrinks
<1>9. ASSUME NEW w \in Workers, Sweep(w)
     PROVE  AcknowledgedIsGone'
  <2>1. Shrinks /\ UNCHANGED <<row, copy>>
    BY <1>9, DeletesShrink
  <2>. QED
    BY <1>9, <2>1, ReturnsFields, OwnUpload
       DEF Sweep, Shrinks
<1>10. ASSUME NEW w \in Workers, NEW t \in Tokens, Restart(w, t)
     PROVE  AcknowledgedIsGone'
  BY <1>10, RestartSets DEF RowIs, CallIs
<1>11. ASSUME NEW w \in Workers, InspectPasses(w) \/ InspectFails(w) \/ CopyRaises(w)
                             \/ VerifyPasses(w) \/ VerifyFails(w) \/ MarkFails(w)
     PROVE  AcknowledgedIsGone'
  BY <1>11, GoesToFields
     DEF InspectPasses, InspectFails, CopyRaises, VerifyPasses, VerifyFails, MarkFails
<1>12. ASSUME NEW w \in Workers, Promote(w)
     PROVE  AcknowledgedIsGone'
  BY <1>12 DEF Promote, TypeOK, Calls, CallBecomes
<1>13. ASSUME NEW w \in Workers, CopyReturns(w)
     PROVE  AcknowledgedIsGone'
  BY <1>13 DEF CopyReturns, TypeOK, Calls, CallBecomes
<1>14. ASSUME NEW w \in Workers, MarkReady(w)
     PROVE  AcknowledgedIsGone'
  BY <1>14, MarkReadySets, MediaAssumption, OwnUpload
     DEF RowIs, CallIs, RowConstraint, ClaimIsCurrent
<1>15. ASSUME NEW w \in Workers, CheckReference(w)
     PROVE  AcknowledgedIsGone'
  BY <1>15, GoesToFields, ReturnsFields DEF CheckReference, AfterDrop, Referenced
<1>16. ASSUME NEW w \in Workers, DropDeletes(w)
     PROVE  AcknowledgedIsGone'
  <2>1. Shrinks /\ UNCHANGED <<row, copy>>
    BY <1>16, DeletesShrink
  <2>. QED
    BY <1>16, <2>1, GoesToFields, ReturnsFields, OwnUpload, KeysAreKeys, DeletesFields
       DEF DropDeletes, AfterDrop, Shrinks
<1>17. ASSUME NEW w \in Workers, Acknowledge(w)
     PROVE  AcknowledgedIsGone'
  BY <1>17, AcknowledgeSets DEF RowIs
<1>18. ASSUME NEW w \in Workers, NEW u \in Uploads, ClaimDiscard(w, u)
     PROVE  AcknowledgedIsGone'
  BY <1>18, ClaimDiscardSets DEF RowIs, CallIs
<1>19. ASSUME NEW w \in Workers, NEW k \in Keys, DiscardObject(w, k)
     PROVE  AcknowledgedIsGone'
  <2>1. Shrinks /\ UNCHANGED <<row, copy>>
    BY <1>19, DeletesShrink
  <2>. QED
    BY <1>19, <2>1, DiscardObjectDoes, OwnUpload
       DEF Shrinks
<1>20. ASSUME NEW w \in Workers, FinishDiscard(w)
     PROVE  AcknowledgedIsGone'
  BY <1>20, FinishDiscardSets DEF RowIs
<1>21. ASSUME NEW w \in Workers, NEW u \in Uploads, ClaimCleanup(w, u)
     PROVE  AcknowledgedIsGone'
  BY <1>21, ClaimCleanupSets DEF RowIs, CallIs
<1>22. ASSUME NEW w \in Workers, NEW k \in Keys, PurgeObject(w, k)
     PROVE  AcknowledgedIsGone'
  <2>1. Shrinks /\ UNCHANGED <<row, copy>>
    BY <1>22, DeletesShrink
  <2>. QED
    BY <1>22, <2>1, PurgeObjectDoes, OwnUpload
       DEF Shrinks
<1>23. ASSUME NEW w \in Workers, FinishCleanup(w)
     PROVE  AcknowledgedIsGone'
  BY <1>23, FinishCleanupSets DEF RowIs
<1>24. ASSUME NEW u \in Uploads, NEW c \in {"good", "bad"}, Put(u, c)
     PROVE  AcknowledgedIsGone'
  <2>1. Shrinks /\ UNCHANGED <<row, copy>>
    BY <1>24, ClientShrinks
  <2>. QED
    BY <1>24, <2>1, OwnUpload
       DEF Put, Shrinks
<1>25. ASSUME NEW u \in Uploads, BucketLifecycle(u)
     PROVE  AcknowledgedIsGone'
  <2>1. Shrinks /\ UNCHANGED <<row, copy>>
    BY <1>25, ClientShrinks
  <2>. QED
    BY <1>25, <2>1, OwnUpload
       DEF BucketLifecycle, Shrinks
<1>26. ASSUME NEW u \in Uploads, Attach(u)
     PROVE  AcknowledgedIsGone'
  BY <1>26, AttachSets DEF RowIs
<1>27. ASSUME NEW u \in Uploads, Expire(u)
     PROVE  AcknowledgedIsGone'
  BY <1>27, ExpireSets DEF RowIs
<1>28. ASSUME NEW u \in Uploads, Retire(u)
     PROVE  AcknowledgedIsGone'
  BY <1>28, RetireSets DEF RowIs
<1>29. ASSUME NEW u \in Uploads, NEW t \in Tokens, CopyLands(u, t)
     PROVE  AcknowledgedIsGone'
  BY <1>29, OwnUpload, KeysAreKeys DEF CopyLands, TypeOK, CleanHasNoCopy
<1>30. ASSUME NEW u \in Uploads, NEW t \in Tokens, CopyIsLost(u, t)
     PROVE  AcknowledgedIsGone'
  BY <1>30 DEF CopyIsLost, TypeOK
<1>31. CASE UNCHANGED vars
  BY <1>31 DEF vars
<1>. QED
  BY <1>1, <1>2, <1>3, <1>4, <1>5, <1>6, <1>7, <1>8, <1>9, <1>10, <1>11, <1>12, <1>13,
     <1>14, <1>15, <1>16, <1>17, <1>18, <1>19, <1>20, <1>21, <1>22, <1>23, <1>24, <1>25,
     <1>26, <1>27, <1>28, <1>29, <1>30, <1>31
  DEF Next, Complete, Discard, Cleanup, Environment

\* Nor is what a reclaimer deleted, as long as it is still reclaiming.
LEMMA RestartStep ==
  ASSUME TypeOK, CallsAreWhole, RowsAreWhole, RowConstraint, ReclaimedIsDead,
         CopiesAreNamed, RestartIsBare, [Next]_vars
  PROVE  RestartIsBare'
<1> USE DEF CallsAreWhole, RestartIsBare, StillReclaiming, Holding, Finalizing
<1>1. ASSUME NEW w \in Workers, NEW u \in Uploads, Initiate(w, u)
     PROVE  RestartIsBare'
  BY <1>1, InitiateSets DEF RowIs, CallIs
<1>2. ASSUME NEW w \in Workers, SignUrlFails(w)
     PROVE  RestartIsBare'
  BY <1>2, SignUrlFailsSets DEF RowIs
<1>3. ASSUME NEW w \in Workers, SignUrl(w) \/ RestartRefused(w) \/ Crash(w)
     PROVE  RestartIsBare'
  BY <1>3, ReturnsFields DEF SignUrl, RestartRefused, Crash
<1>4. ASSUME NEW w \in Workers, NEW u \in Uploads, NEW t \in Tokens, ClaimFresh(w, u, t)
     PROVE  RestartIsBare'
  <2>1. /\ worker[w].at = "idle" /\ row[u].status = "pending" /\ t \notin issued
        /\ CallIs(w, "inspect", u, t) /\ worker'[w].clean
        /\ RowIs(u, "finalizing", t, row[u].key, row[u].stamp, FALSE)
        /\ UNCHANGED <<object, copy>>
    BY <1>4, ClaimFreshSets
  <2>. QED
    BY <2>1, OwnUpload DEF RowIs, CallIs
<1>5. ASSUME NEW w \in Workers, NEW u \in Uploads, ClaimReclaim(w, u)
     PROVE  RestartIsBare'
  BY <1>5, ClaimReclaimSets, OwnUpload DEF RowIs, CallIs, ReclaimedIsDead, ClaimIsCurrent
<1>6. ASSUME NEW w \in Workers, ReclaimDeletes(w)
     PROVE  RestartIsBare'
  <2>1. Shrinks /\ UNCHANGED <<row, copy>>
    BY <1>6, DeletesShrink
  <2>. QED
    BY <1>6, <2>1, GoesToFields, OwnUpload, KeysAreKeys, DeletesFields
       DEF ReclaimDeletes, Shrinks
<1>7. ASSUME NEW w \in Workers, ReclaimFails(w) \/ DropFails(w)
     PROVE  RestartIsBare'
  <2>1. Shrinks /\ UNCHANGED <<row, copy>>
    BY <1>7, DeletesShrink
  <2>. QED
    BY <1>7, <2>1, ReturnsFields, OwnUpload
       DEF ReclaimFails, DropFails, Shrinks
<1>8. ASSUME NEW w \in Workers, NEW k \in Keys, PurgeFails(w, k)
     PROVE  RestartIsBare'
  <2>1. Shrinks /\ UNCHANGED <<row, copy>>
    BY <1>8, DeletesShrink
  <2>. QED
    BY <1>8, <2>1, ReturnsFields, OwnUpload
       DEF PurgeFails, Shrinks
<1>9. ASSUME NEW w \in Workers, Sweep(w)
     PROVE  RestartIsBare'
  <2>1. Shrinks /\ UNCHANGED <<row, copy>>
    BY <1>9, DeletesShrink
  <2>. QED
    BY <1>9, <2>1, ReturnsFields, OwnUpload
       DEF Sweep, Shrinks
<1>10. ASSUME NEW w \in Workers, NEW t \in Tokens, Restart(w, t)
     PROVE  RestartIsBare'
  BY <1>10, RestartSets, OwnUpload DEF RowIs, CallIs
<1>11. ASSUME NEW w \in Workers, InspectPasses(w) \/ InspectFails(w) \/ CopyRaises(w)
                             \/ VerifyPasses(w) \/ VerifyFails(w) \/ MarkFails(w)
     PROVE  RestartIsBare'
  BY <1>11, GoesToFields
     DEF InspectPasses, InspectFails, CopyRaises, VerifyPasses, VerifyFails, MarkFails
<1>12. ASSUME NEW w \in Workers, Promote(w)
     PROVE  RestartIsBare'
  BY <1>12 DEF Promote, TypeOK, Calls, CallBecomes
<1>13. ASSUME NEW w \in Workers, CopyReturns(w)
     PROVE  RestartIsBare'
  BY <1>13 DEF CopyReturns, TypeOK, Calls, CallBecomes
<1>14. ASSUME NEW w \in Workers, MarkReady(w)
     PROVE  RestartIsBare'
  BY <1>14, MarkReadySets DEF RowIs, CallIs
<1>15. ASSUME NEW w \in Workers, CheckReference(w)
     PROVE  RestartIsBare'
  BY <1>15, GoesToFields, ReturnsFields DEF CheckReference, AfterDrop
<1>16. ASSUME NEW w \in Workers, DropDeletes(w)
     PROVE  RestartIsBare'
  <2>1. Shrinks /\ UNCHANGED <<row, copy>>
    BY <1>16, DeletesShrink
  <2>. QED
    BY <1>16, <2>1, GoesToFields, ReturnsFields, OwnUpload
       DEF DropDeletes, AfterDrop, Shrinks
<1>17. ASSUME NEW w \in Workers, Acknowledge(w)
     PROVE  RestartIsBare'
  BY <1>17, AcknowledgeSets DEF RowIs
<1>18. ASSUME NEW w \in Workers, NEW u \in Uploads, ClaimDiscard(w, u)
     PROVE  RestartIsBare'
  BY <1>18, ClaimDiscardSets DEF RowIs, CallIs
<1>19. ASSUME NEW w \in Workers, NEW k \in Keys, DiscardObject(w, k)
     PROVE  RestartIsBare'
  <2>1. Shrinks /\ UNCHANGED <<row, copy>>
    BY <1>19, DeletesShrink
  <2>. QED
    BY <1>19, <2>1, DiscardObjectDoes, OwnUpload
       DEF Shrinks
<1>20. ASSUME NEW w \in Workers, FinishDiscard(w)
     PROVE  RestartIsBare'
  BY <1>20, FinishDiscardSets DEF RowIs
<1>21. ASSUME NEW w \in Workers, NEW u \in Uploads, ClaimCleanup(w, u)
     PROVE  RestartIsBare'
  BY <1>21, ClaimCleanupSets DEF RowIs, CallIs
<1>22. ASSUME NEW w \in Workers, NEW k \in Keys, PurgeObject(w, k)
     PROVE  RestartIsBare'
  <2>1. Shrinks /\ UNCHANGED <<row, copy>>
    BY <1>22, DeletesShrink
  <2>. QED
    BY <1>22, <2>1, PurgeObjectDoes, OwnUpload
       DEF Shrinks
<1>23. ASSUME NEW w \in Workers, FinishCleanup(w)
     PROVE  RestartIsBare'
  BY <1>23, FinishCleanupSets DEF RowIs
<1>24. ASSUME NEW u \in Uploads, NEW c \in {"good", "bad"}, Put(u, c)
     PROVE  RestartIsBare'
  <2>1. Shrinks /\ UNCHANGED <<row, copy>>
    BY <1>24, ClientShrinks
  <2>. QED
    BY <1>24, <2>1, OwnUpload
       DEF Put, Shrinks
<1>25. ASSUME NEW u \in Uploads, BucketLifecycle(u)
     PROVE  RestartIsBare'
  <2>1. Shrinks /\ UNCHANGED <<row, copy>>
    BY <1>25, ClientShrinks
  <2>. QED
    BY <1>25, <2>1, OwnUpload
       DEF BucketLifecycle, Shrinks
<1>26. ASSUME NEW u \in Uploads, Attach(u)
     PROVE  RestartIsBare'
  BY <1>26, AttachSets DEF RowIs
<1>27. ASSUME NEW u \in Uploads, Expire(u)
     PROVE  RestartIsBare'
  BY <1>27, ExpireSets DEF RowIs
<1>28. ASSUME NEW u \in Uploads, Retire(u)
     PROVE  RestartIsBare'
  BY <1>28, RetireSets DEF RowIs
<1>29. ASSUME NEW u \in Uploads, NEW t \in Tokens, CopyLands(u, t)
     PROVE  RestartIsBare'
  BY <1>29, OwnUpload, KeysAreKeys, MediaAssumption
     DEF CopyLands, TypeOK, CopiesAreNamed, Named, RowConstraint
<1>30. ASSUME NEW u \in Uploads, NEW t \in Tokens, CopyIsLost(u, t)
     PROVE  RestartIsBare'
  BY <1>30 DEF CopyIsLost, TypeOK
<1>31. CASE UNCHANGED vars
  BY <1>31 DEF vars
<1>. QED
  BY <1>1, <1>2, <1>3, <1>4, <1>5, <1>6, <1>7, <1>8, <1>9, <1>10, <1>11, <1>12, <1>13,
     <1>14, <1>15, <1>16, <1>17, <1>18, <1>19, <1>20, <1>21, <1>22, <1>23, <1>24, <1>25,
     <1>26, <1>27, <1>28, <1>29, <1>30, <1>31
  DEF Next, Complete, Discard, Cleanup, Environment

\* A lease a clean-up found ended stays ended until a discard renews the row.
LEMMA PurgeStep ==
  ASSUME TypeOK, CallsAreWhole, RowConstraint, DeletedIsClosed, CopiesAreNamed, PurgeIsCurrent,
         [Next]_vars
  PROVE  PurgeIsCurrent'
<1> USE DEF CallsAreWhole, PurgeIsCurrent, PurgeCurrent
<1>1. ASSUME NEW w \in Workers, NEW u \in Uploads, Initiate(w, u)
     PROVE  PurgeIsCurrent'
  BY <1>1, InitiateSets DEF RowIs, CallIs, DeletedIsClosed, Deleting
<1>2. ASSUME NEW w \in Workers, SignUrlFails(w)
     PROVE  PurgeIsCurrent'
  BY <1>2, SignUrlFailsSets DEF RowIs
<1>3. ASSUME NEW w \in Workers, SignUrl(w) \/ RestartRefused(w) \/ Crash(w)
     PROVE  PurgeIsCurrent'
  BY <1>3, ReturnsFields DEF SignUrl, RestartRefused, Crash
<1>4. ASSUME NEW w \in Workers, NEW u \in Uploads, NEW t \in Tokens, ClaimFresh(w, u, t)
     PROVE  PurgeIsCurrent'
  <2>1. /\ worker[w].at = "idle" /\ row[u].status = "pending" /\ t \notin issued
        /\ CallIs(w, "inspect", u, t) /\ worker'[w].clean
        /\ RowIs(u, "finalizing", t, row[u].key, row[u].stamp, FALSE)
        /\ UNCHANGED <<object, copy>>
    BY <1>4, ClaimFreshSets
  <2>. QED
    BY <2>1 DEF RowIs, CallIs, DeletedIsClosed, Deleting
<1>5. ASSUME NEW w \in Workers, NEW u \in Uploads, ClaimReclaim(w, u)
     PROVE  PurgeIsCurrent'
  BY <1>5, ClaimReclaimSets DEF RowIs, CallIs, DeletedIsClosed, Deleting
<1>6. ASSUME NEW w \in Workers, ReclaimDeletes(w)
     PROVE  PurgeIsCurrent'
  <2>1. Shrinks /\ UNCHANGED <<row, copy>>
    BY <1>6, DeletesShrink
  <2>. QED
    BY <1>6, <2>1, GoesToFields, RowIsRow
       DEF ReclaimDeletes, Rows, Shrinks
<1>7. ASSUME NEW w \in Workers, ReclaimFails(w) \/ DropFails(w)
     PROVE  PurgeIsCurrent'
  <2>1. Shrinks /\ UNCHANGED <<row, copy>>
    BY <1>7, DeletesShrink
  <2>. QED
    BY <1>7, <2>1, ReturnsFields, RowIsRow
       DEF ReclaimFails, DropFails, Rows, Shrinks
<1>8. ASSUME NEW w \in Workers, NEW k \in Keys, PurgeFails(w, k)
     PROVE  PurgeIsCurrent'
  <2>1. Shrinks /\ UNCHANGED <<row, copy>>
    BY <1>8, DeletesShrink
  <2>. QED
    BY <1>8, <2>1, ReturnsFields, RowIsRow
       DEF PurgeFails, Rows, Shrinks
<1>9. ASSUME NEW w \in Workers, Sweep(w)
     PROVE  PurgeIsCurrent'
  <2>1. Shrinks /\ UNCHANGED <<row, copy>>
    BY <1>9, DeletesShrink
  <2>. QED
    BY <1>9, <2>1, ReturnsFields, RowIsRow
       DEF Sweep, Rows, Shrinks
<1>10. ASSUME NEW w \in Workers, NEW t \in Tokens, Restart(w, t)
     PROVE  PurgeIsCurrent'
  BY <1>10, RestartSets DEF RowIs, CallIs, DeletedIsClosed, Deleting, StillReclaiming
<1>11. ASSUME NEW w \in Workers, InspectPasses(w) \/ InspectFails(w) \/ CopyRaises(w)
                             \/ VerifyPasses(w) \/ VerifyFails(w) \/ MarkFails(w)
     PROVE  PurgeIsCurrent'
  BY <1>11, GoesToFields
     DEF InspectPasses, InspectFails, CopyRaises, VerifyPasses, VerifyFails, MarkFails
<1>12. ASSUME NEW w \in Workers, Promote(w)
     PROVE  PurgeIsCurrent'
  BY <1>12 DEF Promote, TypeOK, Calls, CallBecomes
<1>13. ASSUME NEW w \in Workers, CopyReturns(w)
     PROVE  PurgeIsCurrent'
  BY <1>13 DEF CopyReturns, TypeOK, Calls, CallBecomes
<1>14. ASSUME NEW w \in Workers, MarkReady(w)
     PROVE  PurgeIsCurrent'
  BY <1>14, MarkReadySets DEF RowIs, CallIs, DeletedIsClosed, Deleting, ClaimIsCurrent
<1>15. ASSUME NEW w \in Workers, CheckReference(w)
     PROVE  PurgeIsCurrent'
  BY <1>15, GoesToFields, ReturnsFields DEF CheckReference, AfterDrop
<1>16. ASSUME NEW w \in Workers, DropDeletes(w)
     PROVE  PurgeIsCurrent'
  <2>1. Shrinks /\ UNCHANGED <<row, copy>>
    BY <1>16, DeletesShrink
  <2>. QED
    BY <1>16, <2>1, GoesToFields, ReturnsFields, RowIsRow
       DEF DropDeletes, AfterDrop, Rows, Shrinks
<1>17. ASSUME NEW w \in Workers, Acknowledge(w)
     PROVE  PurgeIsCurrent'
  BY <1>17, AcknowledgeSets DEF RowIs
<1>18. ASSUME NEW w \in Workers, NEW u \in Uploads, ClaimDiscard(w, u)
     PROVE  PurgeIsCurrent'
  BY <1>18, ClaimDiscardSets, RowIsRow, WorkerCall DEF RowIs, CallIs, Rows, Calls
<1>19. ASSUME NEW w \in Workers, NEW k \in Keys, DiscardObject(w, k)
     PROVE  PurgeIsCurrent'
  <2>1. Shrinks /\ UNCHANGED <<row, copy>>
    BY <1>19, DeletesShrink
  <2>. QED
    BY <1>19, <2>1, DiscardObjectDoes, RowIsRow
       DEF Rows, Shrinks
<1>20. ASSUME NEW w \in Workers, FinishDiscard(w)
     PROVE  PurgeIsCurrent'
  BY <1>20, FinishDiscardSets DEF RowIs
<1>21. ASSUME NEW w \in Workers, NEW u \in Uploads, ClaimCleanup(w, u)
     PROVE  PurgeIsCurrent'
  <2>1. /\ row[u].status \in Unattached /\ row[u].expired
        /\ CallIs(w, "purge", u, None) /\ worker'[w].todo = OwnedKeys(row[u])
        /\ worker'[w].stamp = row[u].stamp
        /\ RowIs(u, "deleting", row[u].token, row[u].key, row[u].stamp, row[u].expired)
        /\ UNCHANGED object
    BY <1>21, ClaimCleanupSets
  <2>2. row[u].stamp \in Nat
    BY RowIsRow DEF Rows
  <2>3. ASSUME NEW v \in Workers, v # w, worker[v].at = "purge", worker[v].upload = u
        PROVE  row[u].status = "deleting"
    BY <2>1, <2>3 DEF DeletedIsClosed, Deleting, Unattached
  <2>4. ASSUME NEW v \in Workers, worker'[v].at = "purge"
        PROVE  PurgeCurrent(v)'
    <3>1. CASE v = w
      BY <2>1, <2>2, <3>1 DEF RowIs, CallIs, OwnedKeys
    <3>2. CASE v # w /\ worker[v].upload = u
      <4>1. /\ worker'[v] = worker[v] /\ worker[v].at = "purge" /\ PurgeCurrent(v)
            /\ row[u].status = "deleting"
        BY <2>1, <2>3, <2>4, <3>2 DEF CallIs
      <4>. QED
        BY <2>1, <3>2, <4>1 DEF RowIs
    <3>3. CASE v # w /\ worker[v].upload # u
      BY <2>1, <2>4, <3>3 DEF RowIs, CallIs
    <3>. QED
      BY <3>1, <3>2, <3>3
  <2>. QED
    BY <2>4
<1>22. ASSUME NEW w \in Workers, NEW k \in Keys, PurgeObject(w, k)
     PROVE  PurgeIsCurrent'
  <2>1. Shrinks /\ UNCHANGED <<row, copy>>
    BY <1>22, DeletesShrink
  <2>2. ASSUME NEW v \in Workers, worker'[v].at = "purge"
        PROVE  PurgeCurrent(v)'
    <3>1. CASE v = w
      <4>1. /\ worker'[v].upload = worker[v].upload /\ worker'[v].stamp = worker[v].stamp
            /\ worker'[v].todo = worker[v].todo \ {k} /\ worker[v].at = "purge"
            /\ worker[v].upload \in Uploads
            /\ object'[worker[v].upload][k] = "none"
        <5>1. worker[v] \in Calls /\ worker'[v] = [worker[v] EXCEPT !.todo = @ \ {k}]
          BY <1>22, <3>1, CallFields, WorkerCall DEF PurgeObject
        <5>2. worker'[v].stamp = worker[v].stamp
          BY <5>1 DEF Calls
        <5>. QED
          BY <1>22, <3>1, <5>2, PurgeObjectDoes
      <4>. QED
        BY <2>1, <4>1, RowIsRow DEF Shrinks, Rows
    <3>2. CASE v # w
      <4>1. worker'[v] = worker[v] /\ worker[v].upload \in Uploads
        BY <1>22, <2>2, <3>2, PurgeObjectDoes
      <4>. QED
        BY <2>1, <2>2, <4>1, RowIsRow DEF Shrinks, Rows
    <3>. QED
      BY <3>1, <3>2
  <2>. QED
    BY <2>2
<1>23. ASSUME NEW w \in Workers, FinishCleanup(w)
     PROVE  PurgeIsCurrent'
  BY <1>23, FinishCleanupSets DEF RowIs
<1>24. ASSUME NEW u \in Uploads, NEW c \in {"good", "bad"}, Put(u, c)
     PROVE  PurgeIsCurrent'
  <2>1. Shrinks /\ UNCHANGED <<row, copy>>
    BY <1>24, ClientShrinks
  <2>. QED
    BY <1>24, <2>1, RowIsRow
       DEF Put, Rows, Shrinks
<1>25. ASSUME NEW u \in Uploads, BucketLifecycle(u)
     PROVE  PurgeIsCurrent'
  <2>1. Shrinks /\ UNCHANGED <<row, copy>>
    BY <1>25, ClientShrinks
  <2>. QED
    BY <1>25, <2>1, RowIsRow
       DEF BucketLifecycle, Rows, Shrinks
<1>26. ASSUME NEW u \in Uploads, Attach(u)
     PROVE  PurgeIsCurrent'
  BY <1>26, AttachSets DEF RowIs, DeletedIsClosed, Deleting
<1>27. ASSUME NEW u \in Uploads, Expire(u)
     PROVE  PurgeIsCurrent'
  BY <1>27, ExpireSets DEF RowIs
<1>28. ASSUME NEW u \in Uploads, Retire(u)
     PROVE  PurgeIsCurrent'
  BY <1>28, RetireSets DEF RowIs, DeletedIsClosed, Deleting
<1>29. ASSUME NEW u \in Uploads, NEW t \in Tokens, CopyLands(u, t)
     PROVE  PurgeIsCurrent'
  BY <1>29, MediaAssumption, KeysAreKeys DEF CopyLands, TypeOK, CopiesAreNamed, Named, RowConstraint
<1>30. ASSUME NEW u \in Uploads, NEW t \in Tokens, CopyIsLost(u, t)
     PROVE  PurgeIsCurrent'
  BY <1>30 DEF CopyIsLost, TypeOK
<1>31. CASE UNCHANGED vars
  BY <1>31 DEF vars
<1>. QED
  BY <1>1, <1>2, <1>3, <1>4, <1>5, <1>6, <1>7, <1>8, <1>9, <1>10, <1>11, <1>12, <1>13,
     <1>14, <1>15, <1>16, <1>17, <1>18, <1>19, <1>20, <1>21, <1>22, <1>23, <1>24, <1>25,
     <1>26, <1>27, <1>28, <1>29, <1>30, <1>31
  DEF Next, Complete, Discard, Cleanup, Environment

\* A row lets go of a token, or is removed, when the token has no object.
LEMMA NoneLostStep ==
  ASSUME TypeOK, CallsAreWhole, RowConstraint, UnmarkedIsUnused, AcceptedHasLanded,
         ClosedIsEmpty, FinalizersAreNamed, CopiesAreNamed, CleanHasNoCopy,
         AcknowledgedIsGone, RestartIsBare, PurgeIsCurrent, NoneLost, [Next]_vars
  PROVE  NoneLost'
<1> USE DEF NoneLost
<1>1. ASSUME NEW w \in Workers, NEW u \in Uploads, Initiate(w, u)
     PROVE  NoneLost'
  BY <1>1, InitiateSets DEF RowIs, CallIs
<1>2. ASSUME NEW w \in Workers, SignUrlFails(w)
     PROVE  NoneLost'
  BY <1>2, SignUrlFailsSets, MediaAssumption DEF RowIs, RowConstraint, Usable
<1>3. ASSUME NEW w \in Workers, SignUrl(w) \/ RestartRefused(w) \/ Crash(w)
     PROVE  NoneLost'
  BY <1>3, ReturnsFields DEF SignUrl, RestartRefused, Crash
<1>4. ASSUME NEW w \in Workers, NEW u \in Uploads, NEW t \in Tokens, ClaimFresh(w, u, t)
     PROVE  NoneLost'
  <2>1. /\ worker[w].at = "idle" /\ row[u].status = "pending" /\ t \notin issued
        /\ CallIs(w, "inspect", u, t) /\ worker'[w].clean
        /\ RowIs(u, "finalizing", t, row[u].key, row[u].stamp, FALSE)
        /\ UNCHANGED <<object, copy>>
    BY <1>4, ClaimFreshSets
  <2>. QED
    BY <2>1, MediaAssumption DEF RowIs, CallIs, RowConstraint, Usable
<1>5. ASSUME NEW w \in Workers, NEW u \in Uploads, ClaimReclaim(w, u)
     PROVE  NoneLost'
  BY <1>5, ClaimReclaimSets DEF RowIs, CallIs
<1>6. ASSUME NEW w \in Workers, ReclaimDeletes(w)
     PROVE  NoneLost'
  <2>1. Shrinks /\ UNCHANGED <<row, copy>>
    BY <1>6, DeletesShrink
  <2>. QED
    BY <1>6, <2>1, GoesToFields
       DEF ReclaimDeletes, Shrinks
<1>7. ASSUME NEW w \in Workers, ReclaimFails(w) \/ DropFails(w)
     PROVE  NoneLost'
  <2>1. Shrinks /\ UNCHANGED <<row, copy>>
    BY <1>7, DeletesShrink
  <2>. QED
    BY <1>7, <2>1, ReturnsFields
       DEF ReclaimFails, DropFails, Shrinks
<1>8. ASSUME NEW w \in Workers, NEW k \in Keys, PurgeFails(w, k)
     PROVE  NoneLost'
  <2>1. Shrinks /\ UNCHANGED <<row, copy>>
    BY <1>8, DeletesShrink
  <2>. QED
    BY <1>8, <2>1, ReturnsFields
       DEF PurgeFails, Shrinks
<1>9. ASSUME NEW w \in Workers, Sweep(w)
     PROVE  NoneLost'
  <2>1. Shrinks /\ UNCHANGED <<row, copy>>
    BY <1>9, DeletesShrink
  <2>. QED
    BY <1>9, <2>1, ReturnsFields
       DEF Sweep, Shrinks
<1>10. ASSUME NEW w \in Workers, NEW t \in Tokens, Restart(w, t)
     PROVE  NoneLost'
  BY <1>10, RestartSets, MediaAssumption
     DEF RowIs, CallIs, RestartIsBare, StillReclaiming, RowConstraint, CopiesAreNamed, Named
<1>11. ASSUME NEW w \in Workers, InspectPasses(w) \/ InspectFails(w) \/ CopyRaises(w)
                             \/ VerifyPasses(w) \/ VerifyFails(w) \/ MarkFails(w)
     PROVE  NoneLost'
  BY <1>11, GoesToFields
     DEF InspectPasses, InspectFails, CopyRaises, VerifyPasses, VerifyFails, MarkFails
<1>12. ASSUME NEW w \in Workers, Promote(w)
     PROVE  NoneLost'
  BY <1>12, OwnUpload
     DEF Promote, TypeOK, Calls, CallBecomes, FinalizersAreNamed, Named, Holding, Finalizing,
         Unmarked, UnmarkedIsUnused
<1>13. ASSUME NEW w \in Workers, CopyReturns(w)
     PROVE  NoneLost'
  BY <1>13 DEF CopyReturns, TypeOK, Calls, CallBecomes
<1>14. ASSUME NEW w \in Workers, MarkReady(w)
     PROVE  NoneLost'
  BY <1>14, MarkReadySets, MediaAssumption DEF RowIs, CallIs, ClaimIsCurrent, RowConstraint
<1>15. ASSUME NEW w \in Workers, CheckReference(w)
     PROVE  NoneLost'
  BY <1>15, GoesToFields, ReturnsFields DEF CheckReference, AfterDrop
<1>16. ASSUME NEW w \in Workers, DropDeletes(w)
     PROVE  NoneLost'
  <2>1. Shrinks /\ UNCHANGED <<row, copy>>
    BY <1>16, DeletesShrink
  <2>. QED
    BY <1>16, <2>1, GoesToFields, ReturnsFields
       DEF DropDeletes, AfterDrop, Shrinks
<1>17. ASSUME NEW w \in Workers, Acknowledge(w)
     PROVE  NoneLost'
  BY <1>17, AcknowledgeSets, MediaAssumption
     DEF RowIs, AcknowledgedIsGone, CleanHasNoCopy, RowConstraint, Finalizing
<1>18. ASSUME NEW w \in Workers, NEW u \in Uploads, ClaimDiscard(w, u)
     PROVE  NoneLost'
  BY <1>18, ClaimDiscardSets DEF RowIs, CallIs
<1>19. ASSUME NEW w \in Workers, NEW k \in Keys, DiscardObject(w, k)
     PROVE  NoneLost'
  <2>1. Shrinks /\ UNCHANGED <<row, copy>>
    BY <1>19, DeletesShrink
  <2>. QED
    BY <1>19, <2>1, DiscardObjectDoes
       DEF Shrinks
<1>20. ASSUME NEW w \in Workers, FinishDiscard(w)
     PROVE  NoneLost'
  BY <1>20, FinishDiscardSets, MediaAssumption DEF RowIs, ClosedIsEmpty, Deleting, AcceptedHasLanded
<1>21. ASSUME NEW w \in Workers, NEW u \in Uploads, ClaimCleanup(w, u)
     PROVE  NoneLost'
  BY <1>21, ClaimCleanupSets DEF RowIs, CallIs
<1>22. ASSUME NEW w \in Workers, NEW k \in Keys, PurgeObject(w, k)
     PROVE  NoneLost'
  <2>1. Shrinks /\ UNCHANGED <<row, copy>>
    BY <1>22, DeletesShrink
  <2>. QED
    BY <1>22, <2>1, PurgeObjectDoes
       DEF Shrinks
<1>23. ASSUME NEW w \in Workers, FinishCleanup(w)
     PROVE  NoneLost'
  BY <1>23, FinishCleanupSets, MediaAssumption
     DEF RowIs, PurgeIsCurrent, PurgeCurrent, ClosedIsEmpty, Deleting, AcceptedHasLanded,
         CopiesAreNamed, Named
<1>24. ASSUME NEW u \in Uploads, NEW c \in {"good", "bad"}, Put(u, c)
     PROVE  NoneLost'
  <2>1. Shrinks /\ UNCHANGED <<row, copy>>
    BY <1>24, ClientShrinks
  <2>. QED
    BY <1>24, <2>1
       DEF Put, Shrinks
<1>25. ASSUME NEW u \in Uploads, BucketLifecycle(u)
     PROVE  NoneLost'
  <2>1. Shrinks /\ UNCHANGED <<row, copy>>
    BY <1>25, ClientShrinks
  <2>. QED
    BY <1>25, <2>1
       DEF BucketLifecycle, Shrinks
<1>26. ASSUME NEW u \in Uploads, Attach(u)
     PROVE  NoneLost'
  BY <1>26, AttachSets DEF RowIs
<1>27. ASSUME NEW u \in Uploads, Expire(u)
     PROVE  NoneLost'
  BY <1>27, ExpireSets DEF RowIs
<1>28. ASSUME NEW u \in Uploads, Retire(u)
     PROVE  NoneLost'
  BY <1>28, RetireSets DEF RowIs
<1>29. ASSUME NEW u \in Uploads, NEW t \in Tokens, CopyLands(u, t)
     PROVE  NoneLost'
  BY <1>29 DEF CopyLands, TypeOK
<1>30. ASSUME NEW u \in Uploads, NEW t \in Tokens, CopyIsLost(u, t)
     PROVE  NoneLost'
  BY <1>30 DEF CopyIsLost, TypeOK
<1>31. CASE UNCHANGED vars
  BY <1>31 DEF vars
<1>. QED
  BY <1>1, <1>2, <1>3, <1>4, <1>5, <1>6, <1>7, <1>8, <1>9, <1>10, <1>11, <1>12, <1>13,
     <1>14, <1>15, <1>16, <1>17, <1>18, <1>19, <1>20, <1>21, <1>22, <1>23, <1>24, <1>25,
     <1>26, <1>27, <1>28, <1>29, <1>30, <1>31
  DEF Next, Complete, Discard, Cleanup, Environment

\* Before the first call there is nothing to name.
LEMMA LeaseInit == Init => LeaseInv
  BY MediaAssumption
     DEF Init, NoCall, LeaseInv, FinalizersAreNamed, CopiesAreNamed, CleanHasNoCopy,
         AcknowledgedIsGone, RestartIsBare, PurgeIsCurrent, NoneLost, Finalizing, Keys

\* Every step keeps it.
LEMMA LeaseStep == LeaseCovers /\ IInv /\ LeaseInv /\ [Next]_vars => LeaseInv'
<1> SUFFICES ASSUME LeaseCovers, IInv, LeaseInv, [Next]_vars
             PROVE  LeaseInv'
  OBVIOUS
<1>1. FinalizersAreNamed'
  BY FinalizersStep DEF IInv, LeaseInv
<1>2. CopiesAreNamed'
  BY CopiesStep DEF IInv, LeaseInv
<1>3. CleanHasNoCopy'
  BY CleanStep DEF IInv, LeaseInv
<1>4. AcknowledgedIsGone'
  BY AcknowledgedStep DEF IInv, LeaseInv
<1>5. RestartIsBare'
  BY RestartStep DEF IInv, LeaseInv
<1>6. PurgeIsCurrent'
  BY PurgeStep DEF IInv, LeaseInv
<1>7. NoneLost'
  BY NoneLostStep DEF IInv, LeaseInv
<1>. QED
  BY <1>1, <1>2, <1>3, <1>4, <1>5, <1>6, <1>7 DEF LeaseInv

\* The two invariants hold in every reachable state, as long as leases cover.
LEMMA LeaseInvariance == Spec => [](IInv /\ (LeaseCovers => LeaseInv))
<1> DEFINE Both == IInv /\ (LeaseCovers => LeaseInv)
<1>1. Init => Both
  BY LeaseInit, InvariantInit
<1>2. Both /\ [Next]_vars => Both'
  BY LeaseStep, InvariantStep
<1>. QED
  BY <1>1, <1>2, PTL DEF Spec

-----------------------------------------------------------------------------
(* Theorems                                                                *)

\* As long as every call to the bucket ends within its lease, no object under
\* media/ is lost, whatever fails or crashes: complete_media_upload,
\* discard_media_upload and cleanup_expired_media_uploads let go of a token,
\* or delete the row, only when nothing of it is left and nothing can land.
THEOREM NoObjectIsLost == Spec => []NoOrphan
<1>1. IInv /\ (LeaseCovers => LeaseInv) => NoOrphan
  BY DEF LeaseInv, NoneLost, NoOrphan
<1>. QED
  BY <1>1, LeaseInvariance, PTL

\* As long as every call to the bucket ends within its lease, at most one
\* complete_media_upload of an upload is between its claim and its last step:
\* a claim taken over, discarded or cleaned up has no finalizer any more.
THEOREM OneFinalizer == Spec => []SoleFinalizer
<1>1. IInv /\ (LeaseCovers => LeaseInv) => SoleFinalizer
  <2> SUFFICES ASSUME IInv, LeaseInv, NEW v \in Workers, NEW w \in Workers,
                      worker[v].at \in Finalizing, worker[w].at \in Finalizing,
                      worker[v].upload = worker[w].upload
               PROVE  v = w
    BY DEF SoleFinalizer
  <2> DEFINE u == worker[w].upload
  <2>1. u \in Uploads /\ worker[v].token \in Tokens /\ worker[w].token \in Tokens
    BY OwnUpload DEF IInv, Finalizing, Holding
  <2>2. Named(u, worker[v].token) /\ Named(u, worker[w].token)
    BY DEF LeaseInv, FinalizersAreNamed
  <2>3. worker[v].token = worker[w].token
    BY <2>1, <2>2, MediaAssumption DEF IInv, RowConstraint, Named
  <2>. QED
    BY <2>3 DEF IInv, SoleHolder
<1>. QED
  BY <1>1, LeaseInvariance, PTL
=============================================================================
