------------------------------- MODULE Scores -------------------------------
(***************************************************************************)
(* Score changes and their comments, as the web workers run them against   *)
(* one database (services/score_changes.py, services/                      *)
(* score_change_comments.py and attach_media_uploads).                     *)
(*                                                                         *)
(* A request is one transaction: it waits for the row lock of its score,   *)
(* then for the row locks of its uploads, one after the other, and what it *)
(* wrote is seen by others at its commit.  The push notice leaves after    *)
(* the commit.  A worker may be killed at any step, requests may repeat an *)
(* upload that an earlier one used or is using, and an upload may expire   *)
(* or be discarded before its turn.                                        *)
(***************************************************************************)
EXTENDS Integers, Sequences

CONSTANTS
    Participants, \* the two participants
    Partner,      \* the other participant of each
    Workers,      \* web workers
    Uploads,      \* numbers of the uploads, in the order of their creation
    Uploader,     \* who initiates each upload
    Purpose,      \* and what for: "score" or "comment"
    None,         \* no participant, no worker
    MaxScore,     \* 100 in the code
    Sent,         \* bound of the model: the lists of uploads that each one's requests name
    MaxChanges,   \* bound of the model on the changes of each participant
    MaxComments   \* bound of the model on the comments there are when each writes one

\* Lists of uploads without repetition, which the serializer refuses.
MediaLists == {m \in Seq(Uploads) : \A i, j \in 1 .. Len(m) : m[i] = m[j] => i = j}

ASSUME ScoresAssumption ==
    /\ Partner \in [Participants -> Participants]
    /\ \A p \in Participants : Partner[p] # p
    /\ None \notin Participants \cup Workers
    /\ Uploads \subseteq Nat
    /\ Uploader \in [Uploads -> Participants]
    /\ Purpose \in [Uploads -> {"score", "comment"}]
    /\ Sent \in [Participants -> SUBSET MediaLists]
    /\ MaxChanges \in [Participants -> Nat]
    /\ MaxComments \in [Participants -> Nat]
    /\ MaxScore \in Nat

VARIABLES
    score,      \* current_score of each participant's RelationshipScore
    history,    \* the committed ScoreChange rows of each participant
    comments,   \* the committed ScoreChangeComment rows
    upload,     \* the MediaAttachment rows
    rowLock,    \* who holds the row lock of each score
    uploadLock, \* who holds the row lock of each upload
    request,    \* the request each worker is in
    notices     \* the push notices sent

vars == <<score, history, comments, upload, rowLock, uploadLock, request, notices>>
records == <<score, history, comments, upload>>
locks   == <<rowLock, uploadLock>>

-----------------------------------------------------------------------------
\* The n-th change of p is <<p, n>>.
Changes  == Participants \X Nat
NoChange == <<None, 0>>

InList(m)  == {m[i] : i \in 1 .. Len(m)}
PlaceIn(m, u) == CHOOSE n \in 0 .. Len(m) - 1 : m[n + 1] = u

Entries     == [delta : Int, result : 0 .. MaxScore, media : MediaLists]
CommentRows == [on : Changes, by : Participants, media : MediaLists]

\* "comment" is the number of the comment an upload belongs to, 0 for none.
UploadRows == [status   : {"absent", "ready", "attached", "lost"},
               change   : Changes \cup {NoChange},
               comment  : Nat,
               position : Nat]

\* "seen" is the order in which the locking query of the uploads goes: their
\* positions when it started.  "usable" are the uploads it locked and read as
\* fit for the request.
Requests == [at     : {"idle", "score", "media", "notify"},
             kind   : {"delta", "target", "comment"},
             by     : Participants \cup {None},
             amount : Int,
             on     : Changes \cup {NoChange},
             entry  : [delta : Int, result : Nat],
             media  : MediaLists,
             seen   : [Uploads -> Nat],
             toLock : SUBSET Uploads,
             usable : SUBSET Uploads]

NoRequest == [at |-> "idle", kind |-> "delta", by |-> None, amount |-> 0,
              on |-> NoChange, entry |-> [delta |-> 0, result |-> 0], media |-> <<>>,
              seen |-> [u \in Uploads |-> 0], toLock |-> {}, usable |-> {}]

Notices == [to : Participants, on : Changes, kind : {"change", "comment"}]

Blank == [status |-> "absent", change |-> NoChange, comment |-> 0, position |-> 0]

Init ==
    /\ score = [p \in Participants |-> 0]
    /\ history = [p \in Participants |-> <<>>]
    /\ comments = <<>>
    /\ upload = [u \in Uploads |-> Blank]
    /\ rowLock = [p \in Participants |-> None]
    /\ uploadLock = [u \in Uploads |-> None]
    /\ request = [w \in Workers |-> NoRequest]
    /\ notices = {}

-----------------------------------------------------------------------------
(* Helpers                                                                 *)

Committed(c) == c \in Changes /\ c[2] \in 1 .. Len(history[c[1]])

Becomes(w, r) == request' = [request EXCEPT ![w] = r]

\* The end of a transaction, committed or not, gives its locks back.
FreedBy(w, lock) == [x \in DOMAIN lock |-> IF lock[x] = w THEN None ELSE lock[x]]
Release(w) ==
    /\ rowLock' = FreedBy(w, rowLock)
    /\ uploadLock' = FreedBy(w, uploadLock)

\* Everything the transaction wrote is undone.
RollBack(w) ==
    /\ Becomes(w, NoRequest)
    /\ Release(w)
    /\ UNCHANGED <<records, notices>>

\* The locking query of attach_media_uploads starts.
WithMedia(r) == [r EXCEPT !.at = "media",
                          !.toLock = InList(r.media),
                          !.seen = [u \in Uploads |-> upload[u].position]]

\* Clients name uploads that they were given the id of.
Known(media) == \A u \in InList(media) : upload[u].status # "absent"

-----------------------------------------------------------------------------
(* change_relationship_score and set_relationship_score                    *)

SubmitChange(w, p, kind, amount, media) ==
    /\ request[w].at = "idle"
    /\ Len(history[p]) < MaxChanges[p]
    /\ kind = "delta" => amount \in (-MaxScore .. MaxScore) \ {0}
    /\ kind = "target" => amount \in 0 .. MaxScore
    /\ media \in MediaLists /\ Len(media) <= 1 /\ Known(media)
    /\ Becomes(w, [NoRequest EXCEPT !.at = "score", !.kind = kind, !.by = p,
                                    !.amount = amount, !.media = media])
    /\ UNCHANGED <<records, locks, notices>>

\* The change, computed from the score as it is once the row is locked.
Prepared(r) ==
    LET current == score[r.by]
        delta   == IF r.kind = "delta" THEN r.amount ELSE r.amount - current
    IN  [delta |-> delta, result |-> current + delta]

\* Mutant: the range of the result is not checked.
AcceptableUnchecked(entry) == entry.delta # 0

Acceptable(entry) == entry.delta # 0 /\ entry.result \in 0 .. MaxScore

\* Mutant: get() instead of select_for_update().
LockScoreUnlocked(w) ==
    /\ request[w].at = "score"
    /\ Acceptable(Prepared(request[w]))
    /\ Becomes(w, WithMedia([request[w] EXCEPT
           !.entry = Prepared(request[w]),
           !.on = <<request[w].by, Len(history[request[w].by]) + 1>>]))
    /\ UNCHANGED <<records, locks, notices>>

LockScore(w) ==
    LET r == request[w]
    IN  /\ r.at = "score"
        /\ rowLock[r.by] = None
        /\ Acceptable(Prepared(r))
        /\ rowLock' = [rowLock EXCEPT ![r.by] = w]
        /\ Becomes(w, WithMedia([r EXCEPT !.entry = Prepared(r),
                                          !.on = <<r.by, Len(history[r.by]) + 1>>]))
        /\ UNCHANGED <<records, uploadLock, notices>>

\* An unchanged target, or a result out of range.
RefuseScore(w) ==
    /\ request[w].at = "score"
    /\ rowLock[request[w].by] = None
    /\ ~Acceptable(Prepared(request[w]))
    /\ RollBack(w)

-----------------------------------------------------------------------------
(* add_score_change_comment                                                *)

SubmitComment(w, p, c, media) ==
    /\ request[w].at = "idle"
    /\ Len(comments) < MaxComments[p]
    /\ Committed(c)
    /\ media \in MediaLists /\ Len(media) <= 4 /\ Known(media)
    /\ Becomes(w, WithMedia([NoRequest EXCEPT !.kind = "comment", !.by = p,
                                              !.on = c, !.media = media]))
    /\ UNCHANGED <<records, locks, notices>>

-----------------------------------------------------------------------------
(* attach_media_uploads                                                    *)

Precedes(r, u, v) == r.seen[u] < r.seen[v] \/ (r.seen[u] = r.seen[v] /\ u <= v)
NextToLock(r, u)  == u \in r.toLock /\ \A v \in r.toLock : Precedes(r, u, v)

\* _validate_attachment_group
FitFor(r, u) ==
    /\ upload[u].status = "ready"
    /\ Uploader[u] = r.by
    /\ IF r.kind = "comment"
         THEN Purpose[u] = "comment" /\ upload[u].change = r.on /\ upload[u].comment = 0
         ELSE Purpose[u] = "score" /\ upload[u].change = NoChange

\* Mutant: filter() instead of select_for_update().filter().
LockUploadUnlocked(w, u) ==
    /\ request[w].at = "media"
    /\ NextToLock(request[w], u)
    /\ Becomes(w, [request[w] EXCEPT
           !.toLock = @ \ {u},
           !.usable = IF FitFor(request[w], u) THEN @ \cup {u} ELSE @])
    /\ UNCHANGED <<records, locks, notices>>

LockUpload(w, u) ==
    LET r == request[w]
    IN  /\ r.at = "media"
        /\ NextToLock(r, u)
        /\ uploadLock[u] = None
        /\ uploadLock' = [uploadLock EXCEPT ![u] = w]
        /\ Becomes(w, [r EXCEPT !.toLock = @ \ {u},
                                !.usable = IF FitFor(r, u) THEN @ \cup {u} ELSE @])
        /\ UNCHANGED <<records, rowLock, notices>>

Attached(r, number) ==
    [u \in Uploads |->
        IF u \notin InList(r.media) THEN upload[u]
        ELSE [upload[u] EXCEPT !.status = "attached",
                               !.change = r.on,
                               !.comment = number,
                               !.position = PlaceIn(r.media, u)]]

CommitChange(w) ==
    LET r == request[w]
    IN  /\ r.at = "media" /\ r.kind # "comment"
        /\ r.toLock = {} /\ r.usable = InList(r.media)
        /\ score' = [score EXCEPT ![r.by] = r.entry.result]
        /\ history' = [history EXCEPT ![r.by] =
               Append(@, [delta |-> r.entry.delta, result |-> r.entry.result,
                          media |-> r.media])]
        /\ upload' = Attached(r, 0)
        /\ Becomes(w, [r EXCEPT !.at = "notify"])
        /\ Release(w)
        /\ UNCHANGED <<comments, notices>>

CommitComment(w) ==
    LET r == request[w]
    IN  /\ r.at = "media" /\ r.kind = "comment"
        /\ r.toLock = {} /\ r.usable = InList(r.media)
        /\ comments' = Append(comments, [on |-> r.on, by |-> r.by, media |-> r.media])
        /\ upload' = Attached(r, Len(comments) + 1)
        /\ Becomes(w, [r EXCEPT !.at = "notify"])
        /\ Release(w)
        /\ UNCHANGED <<score, history, notices>>

\* Mutant: an error response that leaves the transaction open.
RefuseMediaOpen(w) ==
    /\ request[w].at = "media"
    /\ request[w].toLock = {}
    /\ request[w].media # <<>>
    /\ Becomes(w, NoRequest)
    /\ UNCHANGED <<records, locks, notices>>

\* Some upload does not fit, or its 24 hours ended while others were waited for.
RefuseMedia(w) ==
    /\ request[w].at = "media"
    /\ request[w].toLock = {}
    /\ request[w].media # <<>>
    /\ RollBack(w)

-----------------------------------------------------------------------------
(* After the commit, and failures                                          *)

NoticeOf(r) == [to |-> Partner[r.by], on |-> r.on,
                kind |-> IF r.kind = "comment" THEN "comment" ELSE "change"]

\* Mutant: the notice is sent in the transaction, not on_commit.
NotifyInTransaction(w) ==
    /\ request[w].at \in {"media", "notify"}
    /\ notices' = notices \cup {NoticeOf(request[w])}
    /\ UNCHANGED <<records, locks, request>>

Notify(w) ==
    /\ request[w].at = "notify"
    /\ notices' = notices \cup {NoticeOf(request[w])}
    /\ Becomes(w, NoRequest)
    /\ UNCHANGED <<records, locks>>

\* Firebase refused it, or push notices are off: logged, and the reply is sent.
NotifyFails(w) ==
    /\ request[w].at = "notify"
    /\ Becomes(w, NoRequest)
    /\ UNCHANGED <<records, locks, notices>>

\* The worker is killed, or a statement fails.
Crash(w) == request[w].at # "idle" /\ RollBack(w)

WaitsFor(w, v) ==
    \/ request[w].at = "score" /\ rowLock[request[w].by] = v
    \/ request[w].at = "media"
       /\ \E u \in Uploads : NextToLock(request[w], u) /\ uploadLock[u] = v

\* The database aborts one transaction of those that wait in a circle.
DeadlockVictim(w) ==
    /\ \E S \in SUBSET Workers : w \in S /\ \A v \in S : \E x \in S : WaitsFor(v, x)
    /\ RollBack(w)

-----------------------------------------------------------------------------
(* What happens to uploads elsewhere                                       *)

\* An upload was initiated, for the score or for a comment on change c, and accepted.
Accept(u, c) ==
    /\ upload[u].status = "absent"
    /\ IF Purpose[u] = "score" THEN c = NoChange ELSE Committed(c)
    /\ upload' = [upload EXCEPT ![u] = [Blank EXCEPT !.status = "ready", !.change = c]]
    /\ UNCHANGED <<score, history, comments, locks, request, notices>>

\* It expired, or it was discarded: both take its row lock.
Lose(u) ==
    /\ upload[u].status = "ready"
    /\ uploadLock[u] = None
    /\ upload' = [upload EXCEPT ![u].status = "lost"]
    /\ UNCHANGED <<score, history, comments, locks, request, notices>>

-----------------------------------------------------------------------------
Runs(w) ==
    \/ LockScore(w)
    \/ RefuseScore(w)
    \/ \E u \in Uploads : LockUpload(w, u)
    \/ CommitChange(w)
    \/ CommitComment(w)
    \/ RefuseMedia(w)
    \/ Notify(w)
    \/ NotifyFails(w)
    \/ DeadlockVictim(w)

Written == UNION {{p} \X (1 .. Len(history[p])) : p \in Participants}

Asks(w) ==
    \E p \in Participants : \E media \in Sent[p] :
        \/ \E kind \in {"delta", "target"}, amount \in -MaxScore .. MaxScore :
               SubmitChange(w, p, kind, amount, media)
        \/ \E c \in Written : SubmitComment(w, p, c, media)

UploadStep ==
    \E u \in Uploads : Lose(u) \/ \E c \in Written \cup {NoChange} : Accept(u, c)

Next == (\E w \in Workers : Asks(w) \/ Runs(w) \/ Crash(w)) \/ UploadStep

Spec == Init /\ [][Next]_vars

\* The server runs what it accepted, and lock queues are first come, first served.
FairSpec == Spec /\ \A w \in Workers : SF_vars(Runs(w))

-----------------------------------------------------------------------------
(* Properties                                                              *)

(* Scores stay between 0 and the maximum and every row is well formed.     *)
TypeOK ==
    /\ score \in [Participants -> 0 .. MaxScore]
    /\ history \in [Participants -> Seq(Entries)]
    /\ comments \in Seq(CommentRows)
    /\ upload \in [Uploads -> UploadRows]
    /\ rowLock \in [Participants -> Workers \cup {None}]
    /\ uploadLock \in [Uploads -> Workers \cup {None}]
    /\ request \in [Workers -> Requests]
    /\ notices \subseteq Notices

ResultBefore(p, n) == IF n = 1 THEN 0 ELSE history[p][n - 1].result

(* However requests interleave, each change starts from the result of the  *)
(* one before it, and the score is the result of the last: no update is    *)
(* lost and no change is recorded against a score nobody saw               *)
(* (select_for_update in _locked_relationship_score).                      *)
HistoryAddsUp ==
    \A p \in Participants :
        /\ \A n \in 1 .. Len(history[p]) :
               history[p][n].result = ResultBefore(p, n) + history[p][n].delta
        /\ score[p] = ResultBefore(p, Len(history[p]) + 1)

\* An entry lists u at a place, and the row of u names the entry and the place.
ListedAt(media, c, number, u) ==
    /\ upload[u].status = "attached"
    /\ upload[u].change = c
    /\ upload[u].comment = number
    /\ upload[u].position \in 0 .. Len(media) - 1
    /\ media[upload[u].position + 1] = u

ChangesListTheirs ==
    \A p \in Participants : \A n \in 1 .. Len(history[p]) :
        \A u \in InList(history[p][n].media) :
            ListedAt(history[p][n].media, <<p, n>>, 0, u)

CommentsListTheirs ==
    \A n \in 1 .. Len(comments) : \A u \in InList(comments[n].media) :
        ListedAt(comments[n].media, comments[n].on, n, u)

ListedByItsRecord(u) ==
    /\ Committed(upload[u].change)
    /\ IF upload[u].comment = 0
         THEN u \in InList(history[upload[u].change[1]][upload[u].change[2]].media)
         ELSE /\ upload[u].comment \in 1 .. Len(comments)
              /\ u \in InList(comments[upload[u].comment].media)

(* An upload ends up in at most one record however often a request is      *)
(* repeated or two race for it: what a record lists is attached to that    *)
(* record, at that place, and an attached upload is listed by its record   *)
(* (attach_media_uploads).                                                 *)
MediaUsedOnce ==
    /\ ChangesListTheirs
    /\ CommentsListTheirs
    /\ \A u \in Uploads : upload[u].status = "attached" => ListedByItsRecord(u)

(* A push notice tells the other participant of a record that is there: a  *)
(* transaction that is rolled back is never announced                      *)
(* (transaction.on_commit in both services).                               *)
NoticesTellTheTruth ==
    \A m \in notices :
        /\ Committed(m.on)
        /\ IF m.kind = "change" THEN m.to = Partner[m.on[1]]
           ELSE \E n \in 1 .. Len(comments) :
                    comments[n].on = m.on /\ m.to = Partner[comments[n].by]

Ledger == INSTANCE ScoreLedger WITH
    ledger <- [p \in Participants |-> [n \in 1 .. Len(history[p]) |->
                  [delta |-> history[p][n].delta, result |-> history[p][n].result]]]

(* Requests, locks and failures implement the ledger: records are entered  *)
(* whole, in one order, and are never rewritten.                           *)
LedgerKept == Ledger!Spec

(* Every request ends: no lock outlives its transaction, and requests that *)
(* wait for each other in a circle are taken apart by the database.        *)
RequestsEnd == \A w \in Workers : request[w].at # "idle" ~> request[w].at = "idle"
=============================================================================
