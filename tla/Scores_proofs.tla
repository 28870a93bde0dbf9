--------------------------- MODULE Scores_proofs ----------------------------
(***************************************************************************)
(* Theorems about Scores, for any uploads, workers, scores and bounds.     *)
(*                                                                         *)
(* The argument: a worker that is about to commit a change holds the row   *)
(* lock of its score, so the score it computed from is still the score;    *)
(* and every upload it found fit is locked by it, so it is still fit.      *)
(***************************************************************************)
EXTENDS Scores, SequenceTheorems, TLAPS

Writes(r) == r.at = "media" /\ r.kind # "comment"

\* Who writes a change holds the lock of its score, and what it prepared
\* still applies to the score and the history.
ChangeCurrent(w) ==
    LET r == request[w]
    IN  Writes(r) => /\ rowLock[r.by] = w
                     /\ r.on = <<r.by, Len(history[r.by]) + 1>>
                     /\ r.entry.delta # 0
                     /\ r.entry.result \in 0 .. MaxScore
                     /\ r.entry.result = score[r.by] + r.entry.delta

\* What a request found fit is locked by it and still fits.
UploadsGuarded(w) ==
    request[w].at = "media" =>
        \A u \in request[w].usable : uploadLock[u] = w /\ FitFor(request[w], u)

\* What is left to announce is true.
Announced(r) ==
    /\ Committed(r.on)
    /\ IF r.kind = "comment"
         THEN \E n \in 1 .. Len(comments) : comments[n].on = r.on /\ comments[n].by = r.by
         ELSE r.on[1] = r.by

RequestOK(w) ==
    /\ request[w].at # "idle" => request[w].by \in Participants
    /\ request[w].at = "score" => request[w].usable = {} /\ request[w].kind # "comment"
    /\ ChangeCurrent(w)
    /\ UploadsGuarded(w)
    /\ request[w].at = "media" /\ request[w].kind = "comment" => Committed(request[w].on)
    /\ request[w].at = "notify" => Announced(request[w])

\* An upload that is not attached belongs to no comment.
Unused == \A u \in Uploads : upload[u].status # "attached" => upload[u].comment = 0

RecordsOK == HistoryAddsUp /\ MediaUsedOnce /\ NoticesTellTheTruth /\ Unused

IInv == TypeOK /\ RecordsOK /\ \A w \in Workers : RequestOK(w)

-----------------------------------------------------------------------------
(* Type correctness                                                        *)

\* The empty list and the call of no request are well formed.
LEMMA NoRequestType == NoRequest \in Requests
<1>1. <<>> \in MediaLists
  BY DEF MediaLists
<1>. QED
  BY <1>1, SMT DEF NoRequest, Requests, NoChange

\* A transaction that ends gives back only its own locks.
LEMMA FreedType ==
    ASSUME TypeOK, NEW w \in Workers, Release(w)
    PROVE  /\ rowLock' \in [Participants -> Workers \cup {None}]
           /\ uploadLock' \in [Uploads -> Workers \cup {None}]
BY DEF TypeOK, Release, FreedBy

\* A request that moves on keeps its type.
LEMMA BecomesType ==
    ASSUME TypeOK, NEW w \in Workers, NEW r \in Requests, Becomes(w, r)
    PROVE  request' \in [Workers -> Requests]
BY DEF TypeOK, Becomes

\* A roll-back keeps every type.
LEMMA RollBackType ==
    ASSUME TypeOK, NEW w \in Workers, RollBack(w)
    PROVE  TypeOK'
<1>1. request' \in [Workers -> Requests]
  BY BecomesType, NoRequestType DEF RollBack
<1>. QED
  BY <1>1, FreedType DEF RollBack, TypeOK, records

\* The uploads in a list are uploads.
LEMMA InListType ==
    ASSUME NEW m \in MediaLists
    PROVE  InList(m) \subseteq Uploads
BY DEF MediaLists, InList

\* The fields that the start of the locking query sets.
LEMMA MediaStepType ==
    ASSUME NEW r \in Requests, NEW S \in SUBSET Uploads, NEW f \in [Uploads -> Nat]
    PROVE  [r EXCEPT !.at = "media", !.toLock = S, !.seen = f] \in Requests
BY DEF Requests

\* A request whose locking query starts keeps its type.
LEMMA WithMediaType ==
    ASSUME TypeOK, NEW r \in Requests
    PROVE  WithMedia(r) \in Requests
<1>1. InList(r.media) \subseteq Uploads
  BY InListType DEF Requests
<1>2. [u \in Uploads |-> upload[u].position] \in [Uploads -> Nat]
  BY DEF TypeOK, UploadRows
<1>3. [r EXCEPT !.at = "media", !.toLock = InList(r.media),
                 !.seen = [u \in Uploads |-> upload[u].position]] \in Requests
  BY <1>1, <1>2, MediaStepType
<1>. QED
  BY <1>3 DEF WithMedia

\* A change that was asked for has the type of a request.
LEMMA SubmitChangeType ==
    ASSUME TypeOK, NEW w \in Workers, NEW p \in Participants,
           NEW kind \in {"delta", "target"}, NEW amount \in Int, NEW media,
           SubmitChange(w, p, kind, amount, media)
    PROVE  TypeOK'
<1>1. [NoRequest EXCEPT !.at = "score", !.kind = kind, !.by = p,
                        !.amount = amount, !.media = media] \in Requests
  <2>1. media \in MediaLists /\ p \in Participants \cup {None} /\ kind \in {"delta", "target", "comment"}
    BY DEF SubmitChange
  <2>. QED  BY <2>1, NoRequestType DEF Requests
<1>2. request' \in [Workers -> Requests]
  BY <1>1, BecomesType DEF SubmitChange
<1>. QED
  BY <1>2 DEF SubmitChange, TypeOK, records, locks

\* A comment that was asked for has the type of a request.
LEMMA SubmitCommentType ==
    ASSUME TypeOK, NEW w \in Workers, NEW p \in Participants, NEW c, NEW media,
           SubmitComment(w, p, c, media)
    PROVE  TypeOK'
<1>1. c \in Changes
  BY DEF SubmitComment, Committed
<1>2. [NoRequest EXCEPT !.kind = "comment", !.by = p, !.on = c, !.media = media] \in Requests
  <2>1. media \in MediaLists /\ p \in Participants \cup {None} /\ c \in Changes \cup {NoChange}
    BY <1>1 DEF SubmitComment
  <2>. QED  BY <2>1, NoRequestType DEF Requests
<1>3. request' \in [Workers -> Requests]
  BY <1>2, WithMediaType, BecomesType DEF SubmitComment
<1>. QED
  BY <1>3 DEF SubmitComment, TypeOK, records, locks

\* A change in the right range has the type of an entry under preparation.
LEMMA PreparedType ==
    ASSUME TypeOK, NEW w \in Workers, request[w].by \in Participants
    PROVE  /\ Prepared(request[w]).delta \in Int
           /\ Prepared(request[w]).result \in Int
           /\ Prepared(request[w]).result = score[request[w].by] + Prepared(request[w]).delta
<1>1. request[w].amount \in Int
  BY DEF TypeOK, Requests
<1>2. score[request[w].by] \in Int
  BY ScoresAssumption DEF TypeOK
<1>. QED
  BY <1>1, <1>2 DEF Prepared

\* A request that took the lock of its score keeps its type.
LEMMA LockScoreType ==
    ASSUME TypeOK, NEW w \in Workers, RequestOK(w), LockScore(w)
    PROVE  TypeOK'
<1>. DEFINE r == request[w]
            e == Prepared(r)
            c == <<r.by, Len(history[r.by]) + 1>>
<1>1. r \in Requests /\ r.by \in Participants
  BY DEF TypeOK, LockScore, RequestOK
<1>2. e \in [delta : Int, result : Nat]
  <2>1. e = [delta |-> e.delta, result |-> e.result]
    BY DEF Prepared
  <2>2. e.delta \in Int /\ e.result \in Nat
    BY <1>1, PreparedType, ScoresAssumption DEF LockScore, Acceptable
  <2>. QED
    BY <2>1, <2>2
<1>3. c \in Changes
  BY <1>1 DEF Changes, TypeOK
<1>4. [r EXCEPT !.entry = e, !.on = c] \in Requests
  <2>. HIDE DEF r, e, c
  <2>. QED  BY <1>1, <1>2, <1>3 DEF Requests
<1>5. request' \in [Workers -> Requests]
  BY <1>4, WithMediaType, BecomesType DEF LockScore
<1>6. rowLock' \in [Participants -> Workers \cup {None}]
  BY <1>1 DEF LockScore, TypeOK
<1>. QED
  BY <1>5, <1>6 DEF LockScore, TypeOK, records

\* A request that took the lock of an upload keeps its type.
LEMMA LockUploadType ==
    ASSUME TypeOK, NEW w \in Workers, NEW u \in Uploads, LockUpload(w, u)
    PROVE  TypeOK'
<1>. DEFINE r == request[w]
            S == IF FitFor(r, u) THEN r.usable \cup {u} ELSE r.usable
<1>1. r \in Requests
  BY DEF TypeOK
<1>2. S \in SUBSET Uploads /\ r.toLock \ {u} \in SUBSET Uploads
  BY <1>1 DEF Requests
<1>3. [r EXCEPT !.toLock = @ \ {u}, !.usable = S] \in Requests
  <2>. HIDE DEF r, S
  <2>. QED  BY <1>1, <1>2 DEF Requests
<1>4. request' \in [Workers -> Requests]
  BY <1>3, BecomesType DEF LockUpload
<1>5. uploadLock' \in [Uploads -> Workers \cup {None}]
  BY DEF LockUpload, TypeOK
<1>. QED
  BY <1>4, <1>5 DEF LockUpload, TypeOK, records

\* An upload in a list has a place in it.
LEMMA PlaceInList ==
    ASSUME NEW m \in MediaLists, NEW u \in InList(m)
    PROVE  /\ PlaceIn(m, u) \in 0 .. Len(m) - 1
           /\ m[PlaceIn(m, u) + 1] = u
<1>1. Len(m) \in Nat
  BY DEF MediaLists
<1>2. PICK i \in 1 .. Len(m) : m[i] = u
  BY DEF InList
<1>3. i - 1 \in 0 .. Len(m) - 1 /\ m[(i - 1) + 1] = u
  BY <1>1, <1>2
<1>4. \E n \in 0 .. Len(m) - 1 : m[n + 1] = u
  BY <1>3
<1>. QED
  BY <1>4 DEF PlaceIn

\* The rows of the uploads of a record keep their type.
LEMMA AttachedType ==
    ASSUME TypeOK, NEW r \in Requests, NEW n \in Nat
    PROVE  Attached(r, n) \in [Uploads -> UploadRows]
<1>1. SUFFICES ASSUME NEW u \in Uploads
               PROVE  Attached(r, n)[u] \in UploadRows
  BY DEF Attached
<1>2. CASE u \notin InList(r.media)
  BY <1>2 DEF Attached, TypeOK
<1>3. CASE u \in InList(r.media)
  <2>1. PlaceIn(r.media, u) \in 0 .. Len(r.media) - 1
    BY <1>3, PlaceInList DEF Requests
  <2>2. PlaceIn(r.media, u) \in Nat
    BY <2>1
  <2>3. r.on \in Changes \cup {NoChange}
    BY DEF Requests
  <2>4. upload[u] \in UploadRows
    BY DEF TypeOK
  <2>5. Attached(r, n)[u] = [upload[u] EXCEPT !.status = "attached", !.change = r.on,
                                !.comment = n, !.position = PlaceIn(r.media, u)]
    BY <1>3 DEF Attached
  <2>. QED
    BY <2>2, <2>3, <2>4, <2>5 DEF UploadRows
<1>. QED
  BY <1>2, <1>3

\* The commit of a change keeps every type.
LEMMA CommitChangeType ==
    ASSUME TypeOK, NEW w \in Workers, RequestOK(w), CommitChange(w)
    PROVE  TypeOK'
<1>. DEFINE r == request[w]
            e == [delta |-> r.entry.delta, result |-> r.entry.result, media |-> r.media]
<1>1. r \in Requests /\ r.by \in Participants
  BY DEF TypeOK, CommitChange, RequestOK
<1>2. r.entry.result \in 0 .. MaxScore
  BY DEF CommitChange, RequestOK, ChangeCurrent, Writes
<1>3. e \in Entries
  BY <1>1, <1>2 DEF Requests, Entries
<1>4. history' \in [Participants -> Seq(Entries)]
  <2>. HIDE DEF e
  <2>1. history \in [Participants -> Seq(Entries)]
    BY DEF TypeOK
  <2>2. history' = [history EXCEPT ![r.by] = Append(@, e)]
    BY DEF CommitChange, e
  <2>. QED
    BY <1>1, <1>3, <2>1, <2>2
<1>5. score' \in [Participants -> 0 .. MaxScore]
  BY <1>2 DEF CommitChange, TypeOK
<1>6. upload' \in [Uploads -> UploadRows]
  BY <1>1, AttachedType DEF CommitChange
<1>7. [r EXCEPT !.at = "notify"] \in Requests
  BY <1>1 DEF Requests
<1>8. request' \in [Workers -> Requests]
  BY <1>7, BecomesType DEF CommitChange
<1>. QED
  BY <1>4, <1>5, <1>6, <1>8, FreedType DEF CommitChange, TypeOK

\* The commit of a comment keeps every type.
LEMMA CommitCommentType ==
    ASSUME TypeOK, NEW w \in Workers, RequestOK(w), CommitComment(w)
    PROVE  TypeOK'
<1>. DEFINE r == request[w]
            e == [on |-> r.on, by |-> r.by, media |-> r.media]
<1>1. r \in Requests /\ r.by \in Participants /\ r.on \in Changes
  BY DEF TypeOK, CommitComment, RequestOK, Committed
<1>2. e \in CommentRows
  BY <1>1 DEF Requests, CommentRows
<1>3. comments' \in Seq(CommentRows)
  BY <1>2 DEF CommitComment, TypeOK
<1>4. Len(comments) + 1 \in Nat
  BY DEF TypeOK
<1>5. upload' \in [Uploads -> UploadRows]
  BY <1>1, <1>4, AttachedType DEF CommitComment
<1>6. [r EXCEPT !.at = "notify"] \in Requests
  BY <1>1 DEF Requests
<1>7. request' \in [Workers -> Requests]
  BY <1>6, BecomesType DEF CommitComment
<1>. QED
  BY <1>3, <1>5, <1>7, FreedType DEF CommitComment, TypeOK

\* A notice about a change that is there is well formed.
LEMMA NotifyType ==
    ASSUME TypeOK, NEW w \in Workers, RequestOK(w), Notify(w)
    PROVE  TypeOK'
<1>1. request[w].by \in Participants /\ request[w].on \in Changes
  BY DEF Notify, RequestOK, Announced, Committed
<1>2. NoticeOf(request[w]) \in Notices
  BY <1>1, ScoresAssumption DEF NoticeOf, Notices
<1>3. request' \in [Workers -> Requests]
  BY BecomesType, NoRequestType DEF Notify
<1>. QED
  BY <1>2, <1>3 DEF Notify, TypeOK, records, locks

\* What other parts of the program do to an upload keeps its type.
LEMMA UploadStepType ==
    ASSUME TypeOK, UploadStep
    PROVE  TypeOK'
<1>1. PICK u \in Uploads : Lose(u) \/ \E c \in Written \cup {NoChange} : Accept(u, c)
  BY DEF UploadStep
<1>2. CASE Lose(u)
  BY <1>2 DEF Lose, TypeOK, UploadRows, locks
<1>3. ASSUME NEW c \in Written \cup {NoChange}, Accept(u, c)
      PROVE  TypeOK'
  <2>1. c \in Changes \cup {NoChange}
    BY <1>3 DEF Accept, Committed
  <2>2. [Blank EXCEPT !.status = "ready", !.change = c] \in UploadRows
    BY <2>1 DEF Blank, UploadRows
  <2>. QED
    BY <1>3, <2>2 DEF Accept, TypeOK, locks
<1>. QED
  BY <1>1, <1>2, <1>3

-----------------------------------------------------------------------------
(* Requests                                                                *)

\* A step of others that leaves a worker's locks, and what they guard,
\* leaves what its request relies on.
LEMMA OthersUndisturbed ==
    ASSUME TypeOK, NEW v \in Workers, RequestOK(v), request'[v] = request[v],
           \A p \in Participants : rowLock[p] = v =>
               rowLock'[p] = v /\ history'[p] = history[p] /\ score'[p] = score[p],
           \A u \in Uploads : uploadLock[u] = v =>
               uploadLock'[u] = v /\ upload'[u] = upload[u],
           \A p \in Participants : \A n \in 1 .. Len(history[p]) :
               n \in 1 .. Len(history'[p]),
           \A n \in 1 .. Len(comments) :
               n \in 1 .. Len(comments') /\ comments'[n] = comments[n]
    PROVE  RequestOK(v)'
<1>. DEFINE r == request[v]
<1>1. r \in Requests
  BY DEF TypeOK
<1>2. r.at # "idle" => r.by \in Participants
  BY DEF RequestOK
<1>3. ChangeCurrent(v)'
  <2>1. SUFFICES ASSUME Writes(r)
                 PROVE  /\ rowLock'[r.by] = v
                        /\ history'[r.by] = history[r.by]
                        /\ score'[r.by] = score[r.by]
    BY DEF ChangeCurrent, RequestOK
  <2>. QED
    BY <2>1, <1>2 DEF RequestOK, ChangeCurrent, Writes
<1>4. UploadsGuarded(v)'
  <2>1. SUFFICES ASSUME r.at = "media", NEW u \in r.usable
                 PROVE  uploadLock'[u] = v /\ FitFor(r, u)'
    BY DEF UploadsGuarded
  <2>2. u \in Uploads /\ uploadLock[u] = v /\ FitFor(r, u)
    BY <2>1, <1>1 DEF RequestOK, UploadsGuarded, Requests
  <2>3. uploadLock'[u] = v /\ upload'[u] = upload[u]
    BY <2>2
  <2>. QED
    BY <2>2, <2>3 DEF FitFor
<1>5. ASSUME Committed(r.on)
      PROVE  Committed(r.on)'
  BY <1>5 DEF Committed, Changes
<1>6. ASSUME r.at = "notify"
      PROVE  Announced(r)'
  BY <1>5, <1>6 DEF RequestOK, Announced
<1>. QED
  BY <1>2, <1>3, <1>4, <1>5, <1>6 DEF RequestOK

\* Workers that a step of w leaves alone, when it touches no record.
LEMMA QuietForOthers ==
    ASSUME TypeOK, NEW w \in Workers, NEW v \in Workers, v # w, RequestOK(v),
           UNCHANGED records, NEW r, Becomes(w, r),
           \A p \in Participants : rowLock[p] = v => rowLock'[p] = v,
           \A u \in Uploads : uploadLock[u] = v => uploadLock'[u] = v
    PROVE  RequestOK(v)'
<1>1. request'[v] = request[v]
  BY DEF Becomes, TypeOK
<1>. QED
  BY <1>1, OthersUndisturbed DEF records

\* The locks that a worker gives back are its own.
LEMMA FreedKeeps ==
    ASSUME TypeOK, NEW w \in Workers, NEW v \in Workers, v # w, Release(w)
    PROVE  /\ \A p \in Participants : rowLock[p] = v => rowLock'[p] = v
           /\ \A u \in Uploads : uploadLock[u] = v => uploadLock'[u] = v
BY DEF TypeOK, Release, FreedBy

\* A worker without a request relies on nothing.
LEMMA IdleOK ==
    ASSUME TypeOK, NEW w \in Workers, Becomes(w, NoRequest)
    PROVE  RequestOK(w)'
<1>1. request'[w] = NoRequest
  BY DEF Becomes, TypeOK
<1>2. request'[w].at = "idle"
  BY <1>1 DEF NoRequest
<1>. QED
  BY <1>2 DEF RequestOK, ChangeCurrent, Writes, UploadsGuarded

\* A roll-back leaves the requests of others as good as they were.
LEMMA RollBackRequests ==
    ASSUME TypeOK, NEW w \in Workers, \A v \in Workers : RequestOK(v), RollBack(w)
    PROVE  \A v \in Workers : RequestOK(v)'
<1>1. RequestOK(w)'
  BY IdleOK DEF RollBack
<1>2. ASSUME NEW v \in Workers, v # w
      PROVE  RequestOK(v)'
  BY <1>2, QuietForOthers, FreedKeeps DEF RollBack
<1>. QED
  BY <1>1, <1>2

\* A request that was only just sent relies on nothing but its author.
LEMMA SubmitChangeRequests ==
    ASSUME TypeOK, NEW w \in Workers, \A v \in Workers : RequestOK(v),
           NEW p \in Participants, NEW kind \in {"delta", "target"}, NEW amount \in Int,
           NEW media, SubmitChange(w, p, kind, amount, media)
    PROVE  \A v \in Workers : RequestOK(v)'
<1>. DEFINE r == [NoRequest EXCEPT !.at = "score", !.kind = kind, !.by = p,
                                   !.amount = amount, !.media = media]
<1>1. request'[w] = r
  BY DEF SubmitChange, Becomes, TypeOK
<1>2. r.at = "score" /\ r.by = p /\ r.kind = kind /\ r.usable = {}
  BY DEF NoRequest
<1>3. RequestOK(w)'
  <2>. HIDE DEF r
  <2>. QED  BY <1>1, <1>2 DEF RequestOK, ChangeCurrent, Writes, UploadsGuarded
<1>4. ASSUME NEW v \in Workers, v # w
      PROVE  RequestOK(v)'
  BY <1>4, QuietForOthers DEF SubmitChange, locks
<1>. QED
  BY <1>3, <1>4

\* A comment that was only just sent names a change that is there.
LEMMA SubmitCommentRequests ==
    ASSUME TypeOK, NEW w \in Workers, \A v \in Workers : RequestOK(v),
           NEW p \in Participants, NEW c, NEW media, SubmitComment(w, p, c, media)
    PROVE  \A v \in Workers : RequestOK(v)'
<1>. DEFINE r == WithMedia([NoRequest EXCEPT !.kind = "comment", !.by = p,
                                             !.on = c, !.media = media])
<1>1. request'[w] = r
  BY DEF SubmitComment, Becomes, TypeOK
<1>2. r.at = "media" /\ r.by = p /\ r.kind = "comment" /\ r.usable = {} /\ r.on = c
  BY DEF NoRequest, WithMedia
<1>3. Committed(c)'
  BY DEF SubmitComment, Committed, records
<1>4. RequestOK(w)'
  <2>. HIDE DEF r
  <2>. QED  BY <1>1, <1>2, <1>3 DEF RequestOK, ChangeCurrent, Writes, UploadsGuarded
<1>5. ASSUME NEW v \in Workers, v # w
      PROVE  RequestOK(v)'
  BY <1>5, QuietForOthers DEF SubmitComment, locks
<1>. QED
  BY <1>4, <1>5

\* The lock of the score makes what was computed from it current.
LEMMA LockScoreRequests ==
    ASSUME TypeOK, NEW w \in Workers, \A v \in Workers : RequestOK(v), LockScore(w)
    PROVE  \A v \in Workers : RequestOK(v)'
<1>. DEFINE q == request[w]
            r == WithMedia([q EXCEPT !.entry = Prepared(q),
                                     !.on = <<q.by, Len(history[q.by]) + 1>>])
<1>1. request'[w] = r
  BY DEF LockScore, Becomes, TypeOK
<1>2. q \in Requests /\ q.by \in Participants /\ q.usable = {} /\ q.kind # "comment"
  BY DEF TypeOK, LockScore, RequestOK
<1>3. /\ r.at = "media" /\ r.by = q.by /\ r.kind = q.kind /\ r.usable = q.usable
      /\ r.on = <<q.by, Len(history[q.by]) + 1>> /\ r.entry = Prepared(q)
  BY <1>2 DEF WithMedia, Requests
<1>4. /\ Prepared(q).delta # 0 /\ Prepared(q).result \in 0 .. MaxScore
      /\ Prepared(q).result = score[q.by] + Prepared(q).delta
  BY <1>2, PreparedType DEF LockScore, Acceptable
<1>5. rowLock'[q.by] = w /\ history' = history /\ score' = score
  BY <1>2 DEF LockScore, TypeOK, records
<1>6. RequestOK(w)'
  <2>. HIDE DEF r, q
  <2>. QED  BY <1>1, <1>2, <1>3, <1>4, <1>5
            DEF RequestOK, ChangeCurrent, Writes, UploadsGuarded
<1>7. ASSUME NEW v \in Workers, v # w
      PROVE  RequestOK(v)'
  <2>1. \A p \in Participants : rowLock[p] = v => rowLock'[p] = v
    BY <1>7, ScoresAssumption DEF LockScore, TypeOK
  <2>. QED
    BY <1>7, <2>1, QuietForOthers DEF LockScore
<1>. QED
  BY <1>6, <1>7

\* An upload that was found fit is locked.
LEMMA LockUploadRequests ==
    ASSUME TypeOK, NEW w \in Workers, \A v \in Workers : RequestOK(v),
           NEW u \in Uploads, LockUpload(w, u)
    PROVE  \A v \in Workers : RequestOK(v)'
<1>. DEFINE q == request[w]
            S == IF FitFor(q, u) THEN q.usable \cup {u} ELSE q.usable
            r == [q EXCEPT !.toLock = @ \ {u}, !.usable = S]
<1>1. request'[w] = r
  BY DEF LockUpload, Becomes, TypeOK
<1>2. q \in Requests /\ q.at = "media"
  BY DEF TypeOK, LockUpload
<1>3. /\ r.at = "media" /\ r.by = q.by /\ r.kind = q.kind /\ r.usable = S
      /\ r.on = q.on /\ r.entry = q.entry
  BY <1>2 DEF Requests
<1>4. uploadLock' = [uploadLock EXCEPT ![u] = w] /\ UNCHANGED <<records, rowLock>>
  BY DEF LockUpload
<1>5. ASSUME NEW x \in S
      PROVE  uploadLock'[x] = w /\ FitFor(request[w], x)'
  <2>1. x \in Uploads /\ FitFor(q, x) /\ (x = u \/ uploadLock[x] = w)
    BY <1>2, <1>5 DEF RequestOK, UploadsGuarded, Requests
  <2>2. uploadLock'[x] = w
    BY <1>4, <2>1 DEF TypeOK
  <2>3. FitFor(request[w], x)'
    <3>. HIDE DEF r, q
    <3>. QED  BY <1>1, <1>3, <1>4, <2>1 DEF FitFor, records
  <2>. QED
    BY <2>2, <2>3
<1>6. RequestOK(w)'
  <2>1. UploadsGuarded(w)'
    <3>. HIDE DEF r, S
    <3>. QED  BY <1>1, <1>3, <1>5 DEF UploadsGuarded
  <2>2. ChangeCurrent(w)'
    <3>. HIDE DEF r, S
    <3>. QED  BY <1>1, <1>2, <1>3, <1>4 DEF RequestOK, ChangeCurrent, Writes, records
  <2>3. /\ r.by \in Participants
        /\ r.kind = "comment" => Committed(request[w].on)'
    <3>. HIDE DEF r, S
    <3>. QED  BY <1>1, <1>2, <1>3, <1>4 DEF RequestOK, Committed, records
  <2>. QED
    <3>. HIDE DEF r
    <3>. QED  BY <1>1, <1>3, <2>1, <2>2, <2>3 DEF RequestOK
<1>7. ASSUME NEW v \in Workers, v # w
      PROVE  RequestOK(v)'
  <2>1. \A x \in Uploads : uploadLock[x] = v => uploadLock'[x] = v
    BY <1>7, ScoresAssumption DEF LockUpload, TypeOK
  <2>. QED
    BY <1>7, <2>1, QuietForOthers DEF LockUpload
<1>. QED
  BY <1>6, <1>7

\* A notice that was sent, or lost, was the last step of its request.
LEMMA NotifyRequests ==
    ASSUME TypeOK, NEW w \in Workers, \A v \in Workers : RequestOK(v),
           Notify(w) \/ NotifyFails(w)
    PROVE  \A v \in Workers : RequestOK(v)'
<1>1. Becomes(w, NoRequest) /\ UNCHANGED <<records, locks>>
  BY DEF Notify, NotifyFails
<1>2. RequestOK(w)'
  BY <1>1, IdleOK
<1>3. ASSUME NEW v \in Workers, v # w
      PROVE  RequestOK(v)'
  BY <1>1, <1>3, QuietForOthers DEF locks
<1>. QED
  BY <1>2, <1>3

-----------------------------------------------------------------------------
(* The commits                                                             *)

\* What a commit does to the uploads: those it names were locked and ready,
\* the others stay as they are.
LEMMA CommitUploads ==
    ASSUME TypeOK, NEW w \in Workers, RequestOK(w), request[w].at = "media",
           request[w].usable = InList(request[w].media),
           NEW n \in Nat, upload' = Attached(request[w], n)
    PROVE  /\ \A u \in InList(request[w].media) :
                  /\ u \in Uploads
                  /\ uploadLock[u] = w
                  /\ upload[u].status = "ready"
                  /\ upload'[u].status = "attached"
                  /\ upload'[u].change = request[w].on
                  /\ upload'[u].comment = n
                  /\ upload'[u].position \in 0 .. Len(request[w].media) - 1
                  /\ request[w].media[upload'[u].position + 1] = u
           /\ \A u \in Uploads : u \notin InList(request[w].media) => upload'[u] = upload[u]
<1>. DEFINE r == request[w]
<1>1. r \in Requests /\ r.media \in MediaLists
  BY DEF TypeOK, Requests
<1>2. ASSUME NEW u \in InList(r.media)
      PROVE  /\ u \in Uploads
             /\ uploadLock[u] = w
             /\ upload[u].status = "ready"
             /\ upload'[u].status = "attached"
             /\ upload'[u].change = r.on
             /\ upload'[u].comment = n
             /\ upload'[u].position = PlaceIn(r.media, u)
  <2>1. u \in Uploads
    BY <1>1, InListType
  <2>2. uploadLock[u] = w /\ FitFor(r, u)
    BY <1>1 DEF RequestOK, UploadsGuarded
  <2>3. upload[u] \in UploadRows
    BY <2>1 DEF TypeOK
  <2>4. upload'[u] = [upload[u] EXCEPT !.status = "attached", !.change = r.on,
                          !.comment = n, !.position = PlaceIn(r.media, u)]
    BY <2>1 DEF Attached
  <2>. QED
    BY <2>1, <2>2, <2>3, <2>4 DEF FitFor, UploadRows
<1>3. ASSUME NEW u \in Uploads, u \notin InList(r.media)
      PROVE  upload'[u] = upload[u]
  BY <1>3 DEF Attached
<1>. QED
  BY <1>1, <1>2, <1>3, PlaceInList

\* The new entry of a history, and the entries before it.
LEMMA CommitChangeHistory ==
    ASSUME TypeOK, NEW w \in Workers, RequestOK(w), CommitChange(w)
    PROVE  LET r == request[w]
               k == Len(history[r.by]) + 1
           IN  /\ r.by \in Participants /\ r.on = <<r.by, k>> /\ k \in Nat \ {0}
               /\ Len(history'[r.by]) = k
               /\ history'[r.by][k] = [delta |-> r.entry.delta, result |-> r.entry.result,
                                       media |-> r.media]
               /\ \A n \in 1 .. k - 1 : history'[r.by][n] = history[r.by][n]
               /\ \A p \in Participants : p # r.by =>
                      history'[p] = history[p] /\ score'[p] = score[p]
               /\ score'[r.by] = r.entry.result
               /\ r.entry.result = score[r.by] + r.entry.delta
               /\ rowLock[r.by] = w
               /\ UNCHANGED <<comments, notices>>
<1>. DEFINE r == request[w]
            k == Len(history[r.by]) + 1
            e == [delta |-> r.entry.delta, result |-> r.entry.result, media |-> r.media]
<1>1. Writes(r) /\ r.by \in Participants
  BY DEF CommitChange, RequestOK, Writes
<1>2. /\ rowLock[r.by] = w /\ r.on = <<r.by, k>>
      /\ r.entry.result = score[r.by] + r.entry.delta
  BY <1>1 DEF RequestOK, ChangeCurrent
<1>3. history[r.by] \in Seq(Entries)
  BY <1>1 DEF TypeOK
<1>4. history' = [history EXCEPT ![r.by] = Append(@, e)]
  BY DEF CommitChange
<1>5. history'[r.by] = Append(history[r.by], e)
  BY <1>1, <1>4 DEF TypeOK
<1>6. /\ k \in Nat \ {0}
      /\ Len(history'[r.by]) = k
      /\ history'[r.by][k] = e
      /\ \A n \in 1 .. k - 1 : history'[r.by][n] = history[r.by][n]
  <2>. HIDE DEF e, r
  <2>. QED  BY <1>3, <1>5
<1>7. score'[r.by] = r.entry.result
  BY <1>1 DEF CommitChange, TypeOK
<1>8. \A p \in Participants : p # r.by => history'[p] = history[p] /\ score'[p] = score[p]
  BY <1>1 DEF CommitChange, TypeOK
<1>9. UNCHANGED <<comments, notices>>
  BY DEF CommitChange
<1>. QED
  BY <1>1, <1>2, <1>6, <1>7, <1>8, <1>9

\* A committed change leaves what the other participant wrote.
LEMMA CommitChangeOthers ==
    ASSUME TypeOK, NEW w \in Workers, RequestOK(w), CommitChange(w),
           NEW p \in Participants, p # request[w].by
    PROVE  history'[p] = history[p] /\ score'[p] = score[p]
  BY DEF CommitChange, TypeOK

\* A committed change adds up.
LEMMA CommitChangeAddsUp ==
    ASSUME TypeOK, HistoryAddsUp, NEW w \in Workers, RequestOK(w), CommitChange(w)
    PROVE  HistoryAddsUp'
<1>0. PICK b \in Participants : b = request[w].by
  BY CommitChangeHistory
<1>. DEFINE k == Len(history[b]) + 1
<1>1. ASSUME NEW p \in Participants, p # b
      PROVE  /\ \A n \in 1 .. Len(history'[p]) :
                    history'[p][n].result = ResultBefore(p, n)' + history'[p][n].delta
             /\ score'[p] = ResultBefore(p, Len(history[p]) + 1)'
  <2>1. history'[p] = history[p] /\ score'[p] = score[p]
    BY <1>0, <1>1, CommitChangeOthers
  <2>. QED
    BY <2>1 DEF HistoryAddsUp, ResultBefore
<1>2. /\ \A n \in 1 .. Len(history'[b]) :
             history'[b][n].result = ResultBefore(b, n)' + history'[b][n].delta
      /\ score'[b] = ResultBefore(b, Len(history[b]) + 1)'
  <2>. DEFINE h == history[b]
              g == history'[b]
  <2>1. /\ b \in Participants /\ k \in Nat \ {0} /\ Len(g) = k
        /\ g[k].result = score[b] + g[k].delta /\ score'[b] = g[k].result
        /\ \A n \in 1 .. k - 1 : g[n] = h[n]
    <3>1. /\ k \in Nat \ {0} /\ Len(g) = k
          /\ g[k] = [delta |-> request[w].entry.delta, result |-> request[w].entry.result,
                     media |-> request[w].media]
          /\ \A n \in 1 .. k - 1 : g[n] = h[n]
      BY <1>0, CommitChangeHistory
    <3>2. /\ score'[b] = request[w].entry.result
          /\ request[w].entry.result = score[b] + request[w].entry.delta
      BY <1>0, CommitChangeHistory
    <3>. HIDE DEF g, h, k
    <3>. QED
      BY <3>1, <3>2
  <2>2. /\ \A n \in 1 .. k - 1 : h[n].result = ResultBefore(b, n) + h[n].delta
        /\ score[b] = ResultBefore(b, k)
    BY <2>1 DEF HistoryAddsUp
  <2>3. ASSUME NEW n \in 1 .. k
        PROVE  g[n].result = (IF n = 1 THEN 0 ELSE g[n - 1].result) + g[n].delta
    <3>1. n - 1 \in 1 .. k - 1 \/ n = 1
      BY <2>1
    <3>2. CASE n = k
      <4>1. score[b] = IF n = 1 THEN 0 ELSE h[n - 1].result
        BY <2>2, <3>2 DEF ResultBefore
      <4>2. score[b] = IF n = 1 THEN 0 ELSE g[n - 1].result
        BY <2>1, <3>1, <4>1
      <4>. QED
        BY <2>1, <3>2, <4>2
    <3>3. CASE n # k
      <4>1. n \in 1 .. k - 1 /\ g[n] = h[n]
        BY <2>1, <3>3
      <4>2. h[n].result = (IF n = 1 THEN 0 ELSE h[n - 1].result) + h[n].delta
        BY <2>2, <4>1 DEF ResultBefore
      <4>3. n # 1 => g[n - 1] = h[n - 1]
        BY <2>1, <3>1
      <4>. QED
        BY <4>1, <4>2, <4>3
    <3>. QED
      BY <3>2, <3>3
  <2>4. k + 1 # 1 /\ score'[b] = IF k + 1 = 1 THEN 0 ELSE g[(k + 1) - 1].result
    BY <2>1
  <2>. QED
    <3>1. \A n \in 1 .. Len(history'[b]) :
             history'[b][n].result = ResultBefore(b, n)' + history'[b][n].delta
      BY <2>1, <2>3 DEF ResultBefore
    <3>2. score'[b] = ResultBefore(b, Len(history[b]) + 1)'
      BY <2>1, <2>4 DEF ResultBefore
    <3>. QED
      BY <3>1, <3>2
<1>. QED
  BY <1>1, <1>2 DEF HistoryAddsUp

\* Uploads that a commit does not name stay where they are listed.
LEMMA OldListingsStay ==
    ASSUME NEW media, NEW c, NEW n, NEW u, ListedAt(media, c, n, u), upload'[u] = upload[u]
    PROVE  ListedAt(media, c, n, u)'
BY DEF ListedAt

\* A committed change lists its uploads, and no other record does.
LEMMA CommitChangeMedia ==
    ASSUME TypeOK, MediaUsedOnce, NEW w \in Workers, RequestOK(w), CommitChange(w)
    PROVE  MediaUsedOnce'
<1>1. PICK b \in Participants, k \in Nat \ {0}, m \in MediaLists :
          /\ b = request[w].by /\ k = Len(history[b]) + 1 /\ m = request[w].media
          /\ request[w].on = <<b, k>>
  <2>1. request[w].media \in MediaLists
    BY DEF TypeOK, Requests
  <2>2. /\ request[w].by \in Participants
        /\ Len(history[request[w].by]) + 1 \in Nat \ {0}
        /\ request[w].on = <<request[w].by, Len(history[request[w].by]) + 1>>
    BY CommitChangeHistory
  <2>. QED
    BY <2>1, <2>2
<1>2. /\ \A u \in InList(m) : /\ u \in Uploads
                             /\ upload[u].status = "ready"
                             /\ upload'[u].status = "attached"
                             /\ upload'[u].change = <<b, k>>
                             /\ upload'[u].comment = 0
                             /\ upload'[u].position \in 0 .. Len(m) - 1
                             /\ m[upload'[u].position + 1] = u
      /\ \A u \in Uploads : u \notin InList(m) => upload'[u] = upload[u]
  <2>1. /\ request[w].at = "media" /\ request[w].usable = InList(request[w].media)
        /\ upload' = Attached(request[w], 0)
    BY DEF CommitChange
  <2>. QED
    BY <1>1, <2>1, CommitUploads
<1>3. /\ Len(history'[b]) = k
      /\ history'[b][k].media = m
      /\ \A n \in 1 .. k - 1 : history'[b][n] = history[b][n]
      /\ \A p \in Participants : p # b => history'[p] = history[p]
      /\ comments' = comments
  <2>1. history'[b][k] = [delta |-> request[w].entry.delta,
                          result |-> request[w].entry.result, media |-> m]
    BY <1>1, CommitChangeHistory
  <2>2. /\ Len(history'[b]) = k
        /\ \A n \in 1 .. k - 1 : history'[b][n] = history[b][n]
    <3>1. LET c == request[w].by
              l == Len(history[c]) + 1
          IN  Len(history'[c]) = l /\ \A n \in 1 .. l - 1 : history'[c][n] = history[c][n]
      BY CommitChangeHistory
    <3>. QED
      BY <1>1, <3>1
  <2>3. \A p \in Participants : p # b => history'[p] = history[p]
    BY <1>1, CommitChangeOthers
  <2>4. comments' = comments
    BY DEF CommitChange
  <2>. QED
    BY <2>1, <2>2, <2>3, <2>4
<1>4. ChangesListTheirs'
  <2>1. SUFFICES ASSUME NEW p \in Participants, NEW n \in 1 .. Len(history'[p]),
                        NEW u \in InList(history'[p][n].media)
                 PROVE  ListedAt(history[p][n].media, <<p, n>>, 0, u)'
    BY DEF ChangesListTheirs
  <2>2. CASE p = b /\ n = k
    BY <1>2, <1>3, <2>1, <2>2 DEF ListedAt
  <2>3. CASE ~(p = b /\ n = k)
    <3>1. n \in 1 .. Len(history[p]) /\ history'[p][n] = history[p][n]
      BY <1>1, <1>3, <2>1, <2>3
    <3>2. ListedAt(history[p][n].media, <<p, n>>, 0, u)
      BY <3>1, <2>1 DEF MediaUsedOnce, ChangesListTheirs
    <3>3. u \in Uploads
      <4>1. history[p][n] \in Entries
        BY <3>1 DEF TypeOK
      <4>2. history[p][n].media \in MediaLists
        BY <4>1 DEF Entries
      <4>. QED
        BY <2>1, <3>1, <4>2, InListType
    <3>4. upload'[u] = upload[u]
      BY <1>2, <3>2, <3>3 DEF ListedAt
    <3>. QED
      BY <3>1, <3>2, <3>4 DEF ListedAt
  <2>. QED
    BY <2>2, <2>3
<1>5. CommentsListTheirs'
  <2>1. SUFFICES ASSUME NEW n \in 1 .. Len(comments), NEW u \in InList(comments[n].media)
                 PROVE  ListedAt(comments[n].media, comments[n].on, n, u)'
    BY <1>3 DEF CommentsListTheirs
  <2>2. ListedAt(comments[n].media, comments[n].on, n, u)
    BY <2>1 DEF MediaUsedOnce, CommentsListTheirs
  <2>3. u \in Uploads
    <3>1. comments[n] \in CommentRows
      BY DEF TypeOK
    <3>2. comments[n].media \in MediaLists
      BY <3>1 DEF CommentRows
    <3>. QED
      BY <2>1, <3>2, InListType
  <2>4. upload'[u] = upload[u]
    BY <1>2, <2>2, <2>3 DEF ListedAt
  <2>. QED
    BY <1>3, <2>2, <2>4 DEF ListedAt
<1>6. ASSUME NEW u \in Uploads, upload'[u].status = "attached"
      PROVE  ListedByItsRecord(u)'
  <2>1. CASE u \in InList(m)
    <3>1. Committed(<<b, k>>)'
      BY <1>3 DEF Committed, Changes
    <3>. QED
      BY <1>2, <1>3, <2>1, <3>1 DEF ListedByItsRecord
  <2>2. CASE u \notin InList(m)
    <3>1. upload'[u] = upload[u] /\ ListedByItsRecord(u)
      BY <1>2, <1>6, <2>2 DEF MediaUsedOnce
    <3>2. PICK p \in Participants, n \in Nat : upload[u].change = <<p, n>>
      BY <3>1 DEF ListedByItsRecord, Committed, Changes
    <3>3. n \in 1 .. Len(history[p])
      BY <3>1, <3>2 DEF ListedByItsRecord, Committed
    <3>4. n \in 1 .. Len(history'[p]) /\ history'[p][n] = history[p][n]
      BY <1>1, <1>3, <3>3
    <3>5. Committed(<<p, n>>)'
      BY <3>4 DEF Committed, Changes
    <3>. QED
      BY <1>3, <3>1, <3>2, <3>4, <3>5 DEF ListedByItsRecord
  <2>. QED
    BY <2>1, <2>2
<1>. QED
  BY <1>4, <1>5, <1>6 DEF MediaUsedOnce

\* A committed comment lists its uploads, and no other record does.
LEMMA CommitCommentMedia ==
    ASSUME TypeOK, MediaUsedOnce, NEW w \in Workers, RequestOK(w), CommitComment(w)
    PROVE  MediaUsedOnce'
<1>1. PICK k \in Nat \ {0}, m \in MediaLists :
          k = Len(comments) + 1 /\ m = request[w].media
  <2>1. Len(comments) \in Nat
    BY DEF TypeOK
  <2>2. request[w].media \in MediaLists
    BY DEF TypeOK, Requests
  <2>. QED
    BY <2>1, <2>2
<1>2. /\ \A u \in InList(m) : /\ u \in Uploads
                             /\ upload[u].status = "ready"
                             /\ upload'[u].status = "attached"
                             /\ upload'[u].change = request[w].on
                             /\ upload'[u].comment = k
                             /\ upload'[u].position \in 0 .. Len(m) - 1
                             /\ m[upload'[u].position + 1] = u
      /\ \A u \in Uploads : u \notin InList(m) => upload'[u] = upload[u]
  <2>1. /\ request[w].at = "media" /\ request[w].usable = InList(request[w].media)
        /\ upload' = Attached(request[w], k)
    BY <1>1 DEF CommitComment
  <2>. QED
    BY <1>1, <2>1, CommitUploads
<1>3. /\ comments' = Append(comments, [on |-> request[w].on, by |-> request[w].by, media |-> m])
      /\ history' = history
  BY <1>1 DEF CommitComment
<1>4. /\ Len(comments') = k
      /\ comments'[k] = [on |-> request[w].on, by |-> request[w].by, media |-> m]
      /\ \A n \in 1 .. k - 1 : comments'[n] = comments[n]
  <2>1. comments \in Seq(CommentRows)
    BY DEF TypeOK
  <2>. DEFINE e == [on |-> request[w].on, by |-> request[w].by, media |-> m]
  <2>. HIDE DEF e
  <2>2. comments' = Append(comments, e)
    BY <1>3 DEF e
  <2>3. Len(comments') = k /\ comments'[k] = e /\ \A n \in 1 .. k - 1 : comments'[n] = comments[n]
    BY <1>1, <2>1, <2>2
  <2>. QED
    BY <2>3 DEF e
<1>5. ChangesListTheirs'
  <2>1. SUFFICES ASSUME NEW p \in Participants, NEW n \in 1 .. Len(history[p]),
                        NEW u \in InList(history[p][n].media)
                 PROVE  ListedAt(history[p][n].media, <<p, n>>, 0, u)'
    BY <1>3 DEF ChangesListTheirs
  <2>2. ListedAt(history[p][n].media, <<p, n>>, 0, u)
    BY DEF MediaUsedOnce, ChangesListTheirs
  <2>3. u \in Uploads
    <3>1. history[p][n] \in Entries
      BY DEF TypeOK
    <3>2. history[p][n].media \in MediaLists
      BY <3>1 DEF Entries
    <3>. QED
      BY <3>2, InListType
  <2>4. upload'[u] = upload[u]
    BY <1>2, <2>2, <2>3 DEF ListedAt
  <2>. QED
    BY <1>3, <2>2, <2>4 DEF ListedAt
<1>6. CommentsListTheirs'
  <2>1. SUFFICES ASSUME NEW n \in 1 .. k, NEW u \in InList(comments'[n].media)
                 PROVE  ListedAt(comments[n].media, comments[n].on, n, u)'
    BY <1>4 DEF CommentsListTheirs
  <2>2. CASE n = k
    BY <1>2, <1>4, <2>1, <2>2 DEF ListedAt
  <2>3. CASE n # k
    <3>1. n \in 1 .. Len(comments) /\ comments'[n] = comments[n]
      BY <1>1, <1>4, <2>3
    <3>2. ListedAt(comments[n].media, comments[n].on, n, u)
      BY <2>1, <3>1 DEF MediaUsedOnce, CommentsListTheirs
    <3>3. u \in Uploads
      <4>1. comments[n] \in CommentRows
        BY <3>1 DEF TypeOK
      <4>2. comments[n].media \in MediaLists
        BY <4>1 DEF CommentRows
      <4>. QED
        BY <2>1, <3>1, <4>2, InListType
    <3>4. upload'[u] = upload[u]
      BY <1>2, <3>2, <3>3 DEF ListedAt
    <3>. QED
      BY <3>1, <3>2, <3>4 DEF ListedAt
  <2>. QED
    BY <2>2, <2>3
<1>7. ASSUME NEW u \in Uploads, upload'[u].status = "attached"
      PROVE  ListedByItsRecord(u)'
  <2>1. CASE u \in InList(m)
    <3>1. Committed(request[w].on)
      BY DEF RequestOK, CommitComment
    <3>2. /\ upload'[u].change = request[w].on /\ upload'[u].comment = k
          /\ k \in 1 .. Len(comments') /\ u \in InList(comments'[k].media) /\ k # 0
      BY <1>1, <1>2, <1>4, <2>1
    <3>3. Committed(upload[u].change)'
      BY <1>3, <3>1, <3>2 DEF Committed
    <3>. QED
      BY <3>2, <3>3 DEF ListedByItsRecord
  <2>2. CASE u \notin InList(m)
    <3>1. upload'[u] = upload[u] /\ ListedByItsRecord(u)
      BY <1>2, <1>7, <2>2 DEF MediaUsedOnce
    <3>2. \A n \in 1 .. Len(comments) : n \in 1 .. Len(comments') /\ comments'[n] = comments[n]
      BY <1>1, <1>4
    <3>. QED
      BY <1>3, <3>1, <3>2 DEF ListedByItsRecord, Committed
  <2>. QED
    BY <2>1, <2>2
<1>. QED
  BY <1>5, <1>6, <1>7 DEF MediaUsedOnce

\* Uploads that become attached may belong to a comment; the others do not.
LEMMA CommitUnused ==
    ASSUME TypeOK, Unused, NEW w \in Workers, RequestOK(w),
           CommitChange(w) \/ CommitComment(w)
    PROVE  Unused'
<1>1. PICK n \in Nat : upload' = Attached(request[w], n)
  <2>1. Len(comments) + 1 \in Nat
    BY DEF TypeOK
  <2>. QED
    BY <2>1 DEF CommitChange, CommitComment
<1>2. request[w].at = "media" /\ request[w].usable = InList(request[w].media)
  BY DEF CommitChange, CommitComment
<1>3. \A u \in Uploads : upload'[u] = upload[u] \/ upload'[u].status = "attached"
  BY <1>1, <1>2, CommitUploads
<1>. QED
  BY <1>3 DEF Unused

\* Records are only added, so what was announced stays true.
LEMMA CommitNotices ==
    ASSUME TypeOK, NoticesTellTheTruth, NEW w \in Workers, RequestOK(w),
           CommitChange(w) \/ CommitComment(w)
    PROVE  /\ NoticesTellTheTruth'
           /\ \A p \in Participants : \A n \in 1 .. Len(history[p]) : n \in 1 .. Len(history'[p])
           /\ \A n \in 1 .. Len(comments) :
                  n \in 1 .. Len(comments') /\ comments'[n] = comments[n]
<1>1. \A p \in Participants : \A n \in 1 .. Len(history[p]) : n \in 1 .. Len(history'[p])
  <2>1. CASE CommitChange(w)
    <3>. DEFINE b == request[w].by
    <3>1. /\ b \in Participants /\ Len(history[b]) + 1 \in Nat \ {0}
          /\ Len(history'[b]) = Len(history[b]) + 1
      BY <2>1, CommitChangeHistory
    <3>2. \A p \in Participants : p # b => history'[p] = history[p]
      BY <2>1, CommitChangeOthers
    <3>3. \A p \in Participants : Len(history[p]) \in Nat
      BY DEF TypeOK
    <3>. HIDE DEF b
    <3>. QED
      BY <3>1, <3>2, <3>3
  <2>2. CASE CommitComment(w)
    BY <2>2 DEF CommitComment
  <2>. QED
    BY <2>1, <2>2
<1>2. \A n \in 1 .. Len(comments) : n \in 1 .. Len(comments') /\ comments'[n] = comments[n]
  <2>1. CASE CommitChange(w)
    BY <2>1 DEF CommitChange
  <2>2. CASE CommitComment(w)
    <3>. DEFINE e == [on |-> request[w].on, by |-> request[w].by, media |-> request[w].media]
    <3>1. comments \in Seq(CommentRows) /\ comments' = Append(comments, e)
      BY <2>2 DEF CommitComment, TypeOK
    <3>. HIDE DEF e
    <3>. QED
      BY <3>1
  <2>. QED
    BY <2>1, <2>2
<1>3. notices' = notices
  BY DEF CommitChange, CommitComment
<1>4. NoticesTellTheTruth'
  <2>1. SUFFICES ASSUME NEW m \in notices
                 PROVE  /\ Committed(m.on)'
                        /\ IF m.kind = "change" THEN m.to = Partner[m.on[1]]
                           ELSE \E n \in 1 .. Len(comments') :
                               comments'[n].on = m.on /\ m.to = Partner[comments'[n].by]
    BY <1>3 DEF NoticesTellTheTruth
  <2>2. /\ Committed(m.on)
        /\ IF m.kind = "change" THEN m.to = Partner[m.on[1]]
           ELSE \E n \in 1 .. Len(comments) :
               comments[n].on = m.on /\ m.to = Partner[comments[n].by]
    BY DEF NoticesTellTheTruth
  <2>3. Committed(m.on)'
    BY <1>1, <2>2 DEF Committed, Changes
  <2>. QED
    BY <1>2, <2>2, <2>3
<1>. QED
  BY <1>1, <1>2, <1>4

\* A commit leaves what the requests of others rely on, and its own request
\* has something true to announce.
LEMMA CommitRequests ==
    ASSUME TypeOK, NoticesTellTheTruth, NEW w \in Workers, \A v \in Workers : RequestOK(v),
           CommitChange(w) \/ CommitComment(w)
    PROVE  \A v \in Workers : RequestOK(v)'
<1>. DEFINE q == request[w]
<1>1. q \in Requests /\ q.by \in Participants
  BY DEF TypeOK, CommitChange, CommitComment, RequestOK
<1>2. Becomes(w, [q EXCEPT !.at = "notify"]) /\ Release(w)
  BY DEF CommitChange, CommitComment
<1>3. request'[w] = [q EXCEPT !.at = "notify"]
  BY <1>2 DEF Becomes, TypeOK
<1>4. /\ request'[w].at = "notify" /\ request'[w].by = q.by
      /\ request'[w].kind = q.kind /\ request'[w].on = q.on
  BY <1>1, <1>3 DEF Requests
<1>5. ASSUME NEW v \in Workers, v # w
      PROVE  RequestOK(v)'
  <2>1. request'[v] = request[v]
    BY <1>2, <1>5 DEF Becomes, TypeOK
  <2>2. ASSUME NEW p \in Participants, rowLock[p] = v
        PROVE  rowLock'[p] = v /\ history'[p] = history[p] /\ score'[p] = score[p]
    <3>1. CASE CommitChange(w)
      <4>1. rowLock[q.by] = w
        BY <3>1, CommitChangeHistory
      <4>2. history'[p] = history[p] /\ score'[p] = score[p]
        BY <1>5, <2>2, <3>1, <4>1, CommitChangeOthers
      <4>. QED
        BY <1>2, <1>5, <2>2, <4>2, FreedKeeps
    <3>2. CASE CommitComment(w)
      BY <1>2, <1>5, <2>2, <3>2, FreedKeeps DEF CommitComment
    <3>. QED
      BY <3>1, <3>2
  <2>3. ASSUME NEW u \in Uploads, uploadLock[u] = v
        PROVE  uploadLock'[u] = v /\ upload'[u] = upload[u]
    <3>1. PICK n \in Nat : upload' = Attached(request[w], n)
      <4>1. Len(comments) + 1 \in Nat
        BY DEF TypeOK
      <4>. QED
        BY <4>1 DEF CommitChange, CommitComment
    <3>2. q.at = "media" /\ q.usable = InList(q.media)
      BY DEF CommitChange, CommitComment
    <3>3. u \notin InList(q.media)
      BY <1>5, <2>3, <3>1, <3>2, CommitUploads
    <3>4. upload'[u] = upload[u]
      BY <3>1, <3>2, <3>3, CommitUploads
    <3>. QED
      BY <1>2, <1>5, <2>3, <3>4, FreedKeeps
  <2>. QED
    BY <2>1, <2>2, <2>3, CommitNotices, OthersUndisturbed
<1>6. Announced(request[w])'
  <2>1. CASE CommitChange(w)
    <3>1. /\ q.by \in Participants /\ Len(history[q.by]) + 1 \in Nat \ {0}
          /\ q.on = <<q.by, Len(history[q.by]) + 1>>
          /\ Len(history'[q.by]) = Len(history[q.by]) + 1
      BY <2>1, CommitChangeHistory
    <3>2. PICK b \in Participants, k \in Nat \ {0} :
              b = q.by /\ q.on = <<b, k>> /\ Len(history'[b]) = k
      BY <3>1
    <3>3. Committed(<<b, k>>)'
      BY <3>2 DEF Committed, Changes
    <3>4. q.kind # "comment"
      BY <2>1 DEF CommitChange
    <3>. QED
      BY <1>4, <3>2, <3>3, <3>4 DEF Announced, Committed
  <2>2. CASE CommitComment(w)
    <3>1. Committed(q.on) /\ q.kind = "comment" /\ history' = history
      BY <2>2 DEF CommitComment, RequestOK
    <3>2. \E n \in 1 .. Len(comments') : comments'[n].on = q.on /\ comments'[n].by = q.by
      <4>. DEFINE e == [on |-> q.on, by |-> q.by, media |-> q.media]
      <4>1. comments \in Seq(CommentRows) /\ comments' = Append(comments, e)
        BY <2>2 DEF CommitComment, TypeOK
      <4>2. e.on = q.on /\ e.by = q.by
        OBVIOUS
      <4>. HIDE DEF e, q
      <4>3. Len(comments') \in 1 .. Len(comments') /\ comments'[Len(comments')] = e
        BY <4>1
      <4>. QED
        BY <4>2, <4>3
    <3>. QED
      BY <1>4, <3>1, <3>2 DEF Announced, Committed
  <2>. QED
    BY <2>1, <2>2
<1>7. RequestOK(w)'
  BY <1>1, <1>4, <1>6 DEF RequestOK, ChangeCurrent, Writes, UploadsGuarded
<1>. QED
  BY <1>5, <1>7

-----------------------------------------------------------------------------
(* The other steps, and the invariant                                      *)

\* A step that writes no record and sends no notice leaves the records good.
LEMMA QuietRecords ==
    ASSUME RecordsOK, UNCHANGED <<records, notices>>
    PROVE  RecordsOK'
<1>1. HistoryAddsUp'
  BY DEF RecordsOK, HistoryAddsUp, ResultBefore, records
<1>2. ChangesListTheirs' /\ CommentsListTheirs'
  BY DEF RecordsOK, MediaUsedOnce, ChangesListTheirs, CommentsListTheirs, ListedAt, records
<1>3. \A u \in Uploads : ListedByItsRecord(u) => ListedByItsRecord(u)'
  BY DEF ListedByItsRecord, Committed, records
<1>4. MediaUsedOnce'
  BY <1>2, <1>3 DEF RecordsOK, MediaUsedOnce, records
<1>5. NoticesTellTheTruth' /\ Unused'
  BY DEF RecordsOK, NoticesTellTheTruth, Committed, Unused, records
<1>. QED
  BY <1>1, <1>4, <1>5 DEF RecordsOK

\* A request that is done announced a record that is there.
LEMMA NotifyRecords ==
    ASSUME TypeOK, RecordsOK, NEW w \in Workers, RequestOK(w), Notify(w)
    PROVE  RecordsOK'
<1>. DEFINE r == request[w]
<1>1. Announced(r) /\ r.by \in Participants
  BY DEF Notify, RequestOK
<1>2. /\ HistoryAddsUp' /\ ChangesListTheirs' /\ CommentsListTheirs' /\ Unused'
  <2>1. UNCHANGED <<score, history, comments, upload>>
    BY DEF Notify, records
  <2>2. HistoryAddsUp'
    BY <2>1 DEF RecordsOK, HistoryAddsUp, ResultBefore
  <2>3. ChangesListTheirs' /\ CommentsListTheirs'
    BY <2>1 DEF RecordsOK, MediaUsedOnce, ChangesListTheirs, CommentsListTheirs, ListedAt
  <2>4. Unused'
    BY <2>1 DEF RecordsOK, Unused
  <2>. QED
    BY <2>2, <2>3, <2>4
<1>3. \A u \in Uploads : ListedByItsRecord(u) => ListedByItsRecord(u)'
  BY DEF Notify, ListedByItsRecord, Committed, records
<1>4. MediaUsedOnce'
  BY <1>2, <1>3 DEF Notify, RecordsOK, MediaUsedOnce, records
<1>5. NoticesTellTheTruth'
  <2>1. notices' = notices \cup {NoticeOf(r)} /\ UNCHANGED <<history, comments>>
    BY DEF Notify, records
  <2>2. /\ Committed(NoticeOf(r).on)
        /\ IF NoticeOf(r).kind = "change" THEN NoticeOf(r).to = Partner[NoticeOf(r).on[1]]
           ELSE \E n \in 1 .. Len(comments) :
               comments[n].on = NoticeOf(r).on /\ NoticeOf(r).to = Partner[comments[n].by]
    BY <1>1 DEF NoticeOf, Announced
  <2>. HIDE DEF r
  <2>. QED
    BY <2>1, <2>2 DEF RecordsOK, NoticesTellTheTruth, Committed
<1>. QED
  BY <1>2, <1>4, <1>5 DEF RecordsOK

\* What other parts of the program do to uploads concerns only those that no
\* record lists and nobody has locked and found fit.
LEMMA UploadStepKeeps ==
    ASSUME TypeOK, RecordsOK, \A v \in Workers : RequestOK(v), UploadStep
    PROVE  RecordsOK' /\ \A v \in Workers : RequestOK(v)'
<1>1. PICK u \in Uploads : Lose(u) \/ \E c \in Written \cup {NoChange} : Accept(u, c)
  BY DEF UploadStep
<1>2. /\ upload[u].status \in {"absent", "ready"} /\ upload[u].comment = 0
      /\ upload'[u].status \in {"ready", "lost"} /\ upload'[u].comment = 0
      /\ \A x \in Uploads : x # u => upload'[x] = upload[x]
      /\ UNCHANGED <<score, history, comments, locks, request, notices>>
  <2>1. CASE Lose(u)
    <3>1. upload'[u] = [upload[u] EXCEPT !.status = "lost"]
          /\ \A x \in Uploads : x # u => upload'[x] = upload[x]
      BY <2>1 DEF Lose, TypeOK
    <3>2. upload[u] \in UploadRows /\ upload[u].comment = 0 /\ upload[u].status = "ready"
      BY <2>1 DEF Lose, TypeOK, RecordsOK, Unused
    <3>3. upload'[u].status = "lost" /\ upload'[u].comment = 0
      BY <3>1, <3>2 DEF UploadRows
    <3>. QED
      BY <2>1, <3>1, <3>2, <3>3 DEF Lose
  <2>2. ASSUME NEW c, Accept(u, c)
        PROVE  <1>2!:
    <3>1. /\ upload'[u] = [Blank EXCEPT !.status = "ready", !.change = c]
          /\ \A x \in Uploads : x # u => upload'[x] = upload[x]
      BY <2>2 DEF Accept, TypeOK
    <3>2. upload'[u].status = "ready" /\ upload'[u].comment = 0
      BY <3>1 DEF Blank
    <3>3. upload[u].status = "absent" /\ upload[u].comment = 0
      BY <2>2 DEF Accept, RecordsOK, Unused
    <3>. QED
      BY <2>2, <3>1, <3>2, <3>3 DEF Accept
  <2>. QED
    BY <1>1, <2>1, <2>2
<1>3. HistoryAddsUp' /\ NoticesTellTheTruth' /\ Unused'
  BY <1>2 DEF RecordsOK, HistoryAddsUp, ResultBefore, NoticesTellTheTruth, Committed, Unused
<1>4. ASSUME NEW media, NEW c, NEW n, NEW x \in Uploads, ListedAt(media, c, n, x)
      PROVE  ListedAt(media, c, n, x)'
  BY <1>2, <1>4 DEF ListedAt
<1>5. ChangesListTheirs'
  <2>1. SUFFICES ASSUME NEW p \in Participants, NEW n \in 1 .. Len(history[p]),
                        NEW x \in InList(history[p][n].media)
                 PROVE  ListedAt(history[p][n].media, <<p, n>>, 0, x)'
    BY <1>2 DEF ChangesListTheirs
  <2>2. history[p][n] \in Entries
    BY DEF TypeOK
  <2>3. x \in Uploads
    BY <2>2, InListType DEF Entries
  <2>4. ListedAt(history[p][n].media, <<p, n>>, 0, x)
    BY DEF RecordsOK, MediaUsedOnce, ChangesListTheirs
  <2>. QED
    BY <1>2, <2>3, <2>4 DEF ListedAt
<1>6. CommentsListTheirs'
  <2>1. SUFFICES ASSUME NEW n \in 1 .. Len(comments), NEW x \in InList(comments[n].media)
                 PROVE  ListedAt(comments[n].media, comments[n].on, n, x)'
    BY <1>2 DEF CommentsListTheirs
  <2>2. comments[n] \in CommentRows
    BY DEF TypeOK
  <2>3. x \in Uploads
    BY <2>2, InListType DEF CommentRows
  <2>4. ListedAt(comments[n].media, comments[n].on, n, x)
    BY DEF RecordsOK, MediaUsedOnce, CommentsListTheirs
  <2>. QED
    BY <1>2, <2>3, <2>4 DEF ListedAt
<1>7. ASSUME NEW x \in Uploads, upload'[x].status = "attached"
      PROVE  ListedByItsRecord(x)'
  BY <1>2, <1>7 DEF RecordsOK, MediaUsedOnce, ListedByItsRecord, Committed
<1>8. ASSUME NEW v \in Workers
      PROVE  RequestOK(v)'
  <2>1. CASE uploadLock[u] # v
    BY <1>2, <2>1, OthersUndisturbed DEF locks
  <2>2. CASE uploadLock[u] = v
    <3>1. CASE Lose(u)
      BY <2>2, <3>1, ScoresAssumption DEF Lose
    <3>2. ASSUME NEW c, Accept(u, c)
          PROVE  RequestOK(v)'
      <4>1. u \notin request[v].usable \/ request[v].at # "media"
        BY <3>2 DEF Accept, RequestOK, UploadsGuarded, FitFor
      <4>2. request[v] \in Requests
        BY DEF TypeOK
      <4>3. UploadsGuarded(v)'
        <5>1. SUFFICES ASSUME request[v].at = "media", NEW x \in request[v].usable
                       PROVE  uploadLock[x] = v /\ FitFor(request[v], x)'
          BY <1>2 DEF UploadsGuarded, locks
        <5>2. x \in Uploads /\ x # u /\ uploadLock[x] = v /\ FitFor(request[v], x)
          BY <4>1, <4>2, <5>1 DEF RequestOK, UploadsGuarded, Requests
        <5>. QED
          BY <1>2, <5>2 DEF FitFor
      <4>4. ChangeCurrent(v)'
        BY <1>2 DEF RequestOK, ChangeCurrent, locks
      <4>5. Committed(request[v].on) => Committed(request[v].on)'
        BY <1>2 DEF Committed
      <4>6. Announced(request[v]) => Announced(request[v])'
        BY <1>2 DEF Announced, Committed
      <4>. QED
        BY <1>2, <4>3, <4>4, <4>5, <4>6 DEF RequestOK
    <3>. QED
      BY <1>1, <3>1, <3>2
  <2>. QED
    BY <2>1, <2>2
<1>. QED
  BY <1>3, <1>5, <1>6, <1>7, <1>8 DEF RecordsOK, MediaUsedOnce

\* The invariant holds at the start: there are no records and no requests.
LEMMA InvariantInit == Init => IInv
<1>1. SUFFICES ASSUME Init PROVE IInv
  OBVIOUS
<1>2. TypeOK
  <2>1. Blank \in UploadRows
    BY DEF Blank, UploadRows
  <2>2. /\ score \in [Participants -> 0 .. MaxScore]
        /\ history \in [Participants -> Seq(Entries)]
        /\ comments \in Seq(CommentRows)
        /\ rowLock \in [Participants -> Workers \cup {None}]
        /\ uploadLock \in [Uploads -> Workers \cup {None}]
        /\ notices \subseteq Notices
    BY <1>1, ScoresAssumption DEF Init
  <2>3. upload \in [Uploads -> UploadRows] /\ request \in [Workers -> Requests]
    BY <1>1, <2>1, NoRequestType DEF Init
  <2>. QED
    BY <2>2, <2>3 DEF TypeOK
<1>3. HistoryAddsUp
  <2>1. ASSUME NEW p \in Participants
        PROVE  score[p] = 0 /\ history[p] = <<>> /\ Len(history[p]) = 0
    BY <1>1 DEF Init
  <2>2. ASSUME NEW p \in Participants
        PROVE  \A n \in 1 .. Len(history[p]) :
                   history[p][n].result = ResultBefore(p, n) + history[p][n].delta
    <3>1. 1 .. Len(history[p]) = {}
      BY <2>1
    <3>. QED
      BY <3>1
  <2>3. ASSUME NEW p \in Participants
        PROVE  score[p] = ResultBefore(p, Len(history[p]) + 1)
    <3>1. Len(history[p]) + 1 = 1
      BY <2>1
    <3>. QED
      BY <2>1, <3>1 DEF ResultBefore
  <2>. QED
    BY <2>2, <2>3 DEF HistoryAddsUp
<1>4. MediaUsedOnce /\ Unused
  BY <1>1 DEF Init, MediaUsedOnce, ChangesListTheirs, CommentsListTheirs, Blank, Unused
<1>5. NoticesTellTheTruth
  BY <1>1 DEF Init, NoticesTellTheTruth
<1>6. ASSUME NEW w \in Workers
      PROVE  RequestOK(w)
  <2>1. request[w].at = "idle"
    BY <1>1 DEF Init, NoRequest
  <2>. QED
    BY <2>1 DEF RequestOK, ChangeCurrent, Writes, UploadsGuarded
<1>. QED
  BY <1>2, <1>3, <1>4, <1>5, <1>6 DEF IInv, RecordsOK

\* Every step keeps the invariant.
LEMMA InvariantStep == IInv /\ [Next]_vars => IInv'
<1>1. SUFFICES ASSUME IInv, [Next]_vars PROVE IInv'
  OBVIOUS
<1>2. TypeOK /\ RecordsOK /\ \A v \in Workers : RequestOK(v)
  BY <1>1 DEF IInv
<1>3. ASSUME NEW w \in Workers, Asks(w)
      PROVE  IInv'
  <2>. PICK p \in Participants : \E media \in Sent[p] :
            \/ \E kind \in {"delta", "target"}, amount \in -MaxScore .. MaxScore :
                   SubmitChange(w, p, kind, amount, media)
            \/ \E c \in Written : SubmitComment(w, p, c, media)
    BY <1>3 DEF Asks
  <2>1. PICK media \in Sent[p] :
            \/ \E kind \in {"delta", "target"}, amount \in -MaxScore .. MaxScore :
                   SubmitChange(w, p, kind, amount, media)
            \/ \E c \in Written : SubmitComment(w, p, c, media)
    OBVIOUS
  <2>2. ASSUME NEW kind \in {"delta", "target"}, NEW amount \in -MaxScore .. MaxScore,
               SubmitChange(w, p, kind, amount, media)
        PROVE  IInv'
    <3>1. amount \in Int /\ UNCHANGED <<records, notices>>
      <4>1. amount \in Int
        <5>1. MaxScore \in Nat
          BY ScoresAssumption
        <5>. QED
          BY <5>1
      <4>. QED
        BY <2>2, <4>1 DEF SubmitChange
    <3>. QED
      BY <1>2, <2>2, <3>1, SubmitChangeType, SubmitChangeRequests, QuietRecords DEF IInv
  <2>3. ASSUME NEW c, SubmitComment(w, p, c, media)
        PROVE  IInv'
    <3>1. UNCHANGED <<records, notices>>
      BY <2>3 DEF SubmitComment
    <3>. QED
      BY <1>2, <2>3, <3>1, SubmitCommentType, SubmitCommentRequests, QuietRecords DEF IInv
  <2>. QED
    BY <2>1, <2>2, <2>3
<1>4. ASSUME NEW w \in Workers, RollBack(w)
      PROVE  IInv'
  BY <1>2, <1>4, RollBackType, RollBackRequests, QuietRecords DEF IInv, RollBack
<1>5. ASSUME NEW w \in Workers, LockScore(w)
      PROVE  IInv'
  BY <1>2, <1>5, LockScoreType, LockScoreRequests, QuietRecords DEF IInv, LockScore
<1>6. ASSUME NEW w \in Workers, NEW u \in Uploads, LockUpload(w, u)
      PROVE  IInv'
  BY <1>2, <1>6, LockUploadType, LockUploadRequests, QuietRecords DEF IInv, LockUpload
<1>7. ASSUME NEW w \in Workers, CommitChange(w)
      PROVE  IInv'
  <2>1. RecordsOK'
    BY <1>2, <1>7, CommitChangeAddsUp, CommitChangeMedia, CommitNotices, CommitUnused
    DEF RecordsOK
  <2>2. \A v \in Workers : RequestOK(v)'
    BY <1>2, <1>7, CommitRequests DEF RecordsOK
  <2>. QED
    BY <1>2, <1>7, <2>1, <2>2, CommitChangeType DEF IInv
<1>8. ASSUME NEW w \in Workers, CommitComment(w)
      PROVE  IInv'
  <2>1. HistoryAddsUp'
    BY <1>2, <1>8 DEF CommitComment, RecordsOK, HistoryAddsUp, ResultBefore
  <2>2. RecordsOK'
    BY <1>2, <1>8, <2>1, CommitCommentMedia, CommitNotices, CommitUnused DEF RecordsOK
  <2>3. \A v \in Workers : RequestOK(v)'
    BY <1>2, <1>8, CommitRequests DEF RecordsOK
  <2>. QED
    BY <1>2, <1>8, <2>2, <2>3, CommitCommentType DEF IInv
<1>9. ASSUME NEW w \in Workers, Notify(w)
      PROVE  IInv'
  BY <1>2, <1>9, NotifyType, NotifyRequests, NotifyRecords DEF IInv
<1>10. ASSUME NEW w \in Workers, NotifyFails(w)
       PROVE  IInv'
  <2>1. TypeOK'
    <3>1. request' \in [Workers -> Requests]
      BY <1>2, <1>10, BecomesType, NoRequestType DEF NotifyFails
    <3>. QED
      BY <1>2, <1>10, <3>1 DEF NotifyFails, TypeOK, records, locks
  <2>2. RecordsOK'
    BY <1>2, <1>10, QuietRecords DEF NotifyFails
  <2>. QED
    BY <1>2, <1>10, <2>1, <2>2, NotifyRequests DEF IInv
<1>11. CASE UploadStep
  BY <1>2, <1>11, UploadStepType, UploadStepKeeps DEF IInv
<1>12. CASE UNCHANGED vars
  <2>1. TypeOK'
    BY <1>2, <1>12 DEF vars, TypeOK
  <2>2. RecordsOK'
    BY <1>2, <1>12, QuietRecords DEF vars, records
  <2>3. ASSUME NEW v \in Workers
        PROVE  RequestOK(v)'
    BY <1>2, <1>12, OthersUndisturbed DEF vars
  <2>. QED
    BY <2>1, <2>2, <2>3 DEF IInv
<1>13. ASSUME NEW w \in Workers, Runs(w) \/ Crash(w)
       PROVE  IInv'
  BY <1>4, <1>5, <1>6, <1>7, <1>8, <1>9, <1>10, <1>13
  DEF Runs, Crash, RefuseScore, RefuseMedia, DeadlockVictim
<1>. QED
  BY <1>1, <1>3, <1>11, <1>12, <1>13 DEF Next

\* The invariant holds in every reachable state.
LEMMA Invariance == Spec => []IInv
<1>. QED
  BY InvariantInit, InvariantStep, PTL DEF Spec

-----------------------------------------------------------------------------
(* The theorems                                                            *)

(* Scores stay between 0 and the maximum and every row is well formed      *)
(* (the check constraints of RelationshipScore and ScoreChange).           *)
THEOREM ScoresTyped == Spec => []TypeOK
<1>1. IInv => TypeOK
  BY DEF IInv
<1>. QED
  BY <1>1, Invariance, PTL

(* However requests interleave, each change starts from the result of the  *)
(* one before it and the score is the last result                          *)
(* (select_for_update in _locked_relationship_score).                      *)
THEOREM NoChangeIsLost == Spec => []HistoryAddsUp
<1>1. IInv => HistoryAddsUp
  BY DEF IInv, RecordsOK
<1>. QED
  BY <1>1, Invariance, PTL

(* An upload is attached to at most one record, which lists it at its      *)
(* place, however often requests repeat it (attach_media_uploads).         *)
THEOREM UploadsAreUsedOnce == Spec => []MediaUsedOnce
<1>1. IInv => MediaUsedOnce
  BY DEF IInv, RecordsOK
<1>. QED
  BY <1>1, Invariance, PTL

(* Push notices only tell of records that were committed, and only the     *)
(* other participant (transaction.on_commit).                              *)
THEOREM NoticesAreTrue == Spec => []NoticesTellTheTruth
<1>1. IInv => NoticesTellTheTruth
  BY DEF IInv, RecordsOK
<1>. QED
  BY <1>1, Invariance, PTL

\* The ledger of a participant, as the refinement reads it off the history.
Read(h) == [n \in 1 .. Len(h) |-> [delta |-> h[n].delta, result |-> h[n].result]]

\* Reading a longer history is entering into the ledger.
LEMMA ReadAppend ==
    ASSUME NEW h \in Seq(Entries), NEW e \in Entries
    PROVE  Read(Append(h, e)) = Append(Read(h), [delta |-> e.delta, result |-> e.result])
<1>. DEFINE E == [delta : Int, result : 0 .. MaxScore]
            d == [delta |-> e.delta, result |-> e.result]
<1>1. Read(h) \in Seq(E) /\ Len(Read(h)) = Len(h)
  <2>1. \A n \in 1 .. Len(h) : [delta |-> h[n].delta, result |-> h[n].result] \in E
    <3>1. \A n \in 1 .. Len(h) : h[n] \in Entries
      OBVIOUS
    <3>. QED
      BY <3>1 DEF Entries
  <2>2. Read(h) \in [1 .. Len(h) -> E]
    BY <2>1 DEF Read
  <2>3. Len(h) \in Nat
    OBVIOUS
  <2>. HIDE DEF E
  <2>. QED
    BY <2>2, <2>3
<1>2. Read(Append(h, e)) = [n \in 1 .. Len(h) + 1 |-> IF n = Len(h) + 1 THEN d ELSE Read(h)[n]]
  BY DEF Read
<1>3. Append(Read(h), d) = [n \in 1 .. Len(h) + 1 |-> IF n = Len(h) + 1 THEN d ELSE Read(h)[n]]
  <2>1. d \in E
    BY DEF Entries
  <2>2. Append(Read(h), d) \in Seq(E)
    BY <1>1, <2>1
  <2>. HIDE DEF d, E
  <2>3. /\ Len(Append(Read(h), d)) = Len(h) + 1
        /\ \A n \in 1 .. Len(h) + 1 :
               Append(Read(h), d)[n] = IF n = Len(h) + 1 THEN d ELSE Read(h)[n]
    BY <1>1, <2>1
  <2>4. Append(Read(h), d) \in [1 .. Len(h) + 1 -> E]
    BY <2>2, <2>3, LenProperties
  <2>. QED
    BY <2>3, <2>4
<1>. QED
  BY <1>2, <1>3

\* A committed change is one entry of the ledger.
LEMMA CommitIsEntry ==
    ASSUME IInv, NEW w \in Workers, CommitChange(w)
    PROVE  Ledger!Next
<1>. DEFINE b == request[w].by
            e == [delta |-> request[w].entry.delta, result |-> request[w].entry.result,
                  media |-> request[w].media]
<1>1. TypeOK /\ RequestOK(w)
  BY DEF IInv
<1>2. /\ b \in Participants /\ request[w].entry.delta # 0
      /\ request[w].entry.result \in 0 .. MaxScore
      /\ request[w].entry.result = score[b] + request[w].entry.delta
      /\ request[w].entry.delta \in Int
  BY <1>1 DEF CommitChange, RequestOK, ChangeCurrent, Writes, TypeOK, Requests
<1>3. e \in Entries
  BY <1>1, <1>2 DEF TypeOK, Requests, Entries
<1>4. history \in [Participants -> Seq(Entries)] /\ score \in [Participants -> 0 .. MaxScore]
  BY <1>1 DEF TypeOK
<1>5. /\ history' = [history EXCEPT ![b] = Append(@, e)]
      /\ score' = [score EXCEPT ![b] = request[w].entry.result]
  BY DEF CommitChange
<1>6. request[w].entry.result # score[b]
      /\ request[w].entry.delta = request[w].entry.result - score[b]
  BY <1>2, <1>4
<1>7. [p \in Participants |-> Read(history'[p])] =
      [[p \in Participants |-> Read(history[p])] EXCEPT ![b] =
          Append(@, [delta |-> e.delta, result |-> e.result])]
  <2>. HIDE DEF e, b
  <2>. QED  BY <1>2, <1>3, <1>4, <1>5, ReadAppend
<1>8. PICK p \in Participants, x \in 0 .. MaxScore : p = b /\ x = request[w].entry.result
  BY <1>2
<1>9. Ledger!Enter(p, x)
  BY <1>5, <1>6, <1>7, <1>8 DEF Ledger!Enter, Read
<1>. QED
  BY <1>9 DEF Ledger!Next

\* No other step touches a score or a history.
LEMMA OnlyChangesEnter ==
    ASSUME [Next]_vars, ~ \E w \in Workers : CommitChange(w)
    PROVE  UNCHANGED <<score, history>>
<1>1. ASSUME NEW w \in Workers, Asks(w)
      PROVE  UNCHANGED <<score, history>>
  BY <1>1 DEF Asks, SubmitChange, SubmitComment, records
<1>2. ASSUME NEW w \in Workers, RollBack(w) \/ LockScore(w)
      PROVE  UNCHANGED <<score, history>>
  BY <1>2 DEF RollBack, LockScore, records
<1>3. ASSUME NEW w \in Workers, NEW u \in Uploads, LockUpload(w, u)
      PROVE  UNCHANGED <<score, history>>
  BY <1>3 DEF LockUpload, records
<1>4. ASSUME NEW w \in Workers, CommitComment(w) \/ Notify(w) \/ NotifyFails(w)
      PROVE  UNCHANGED <<score, history>>
  BY <1>4 DEF CommitComment, Notify, NotifyFails, records
<1>5. CASE UploadStep
  BY <1>5 DEF UploadStep, Lose, Accept
<1>6. CASE UNCHANGED vars
  BY <1>6 DEF vars
<1>7. ASSUME NEW w \in Workers, Runs(w) \/ Crash(w)
      PROVE  UNCHANGED <<score, history>>
  BY <1>2, <1>3, <1>4, <1>7 DEF Runs, Crash, RefuseScore, RefuseMedia, DeadlockVictim
<1>. QED
  BY <1>1, <1>5, <1>6, <1>7 DEF Next

(* Requests, locks, crashes and refusals implement the ledger: entries are *)
(* made whole and in one order, and are never rewritten.                   *)
THEOREM LedgerIsKept == Spec => LedgerKept
<1>1. Init => Ledger!Init
  <2>1. SUFFICES ASSUME Init PROVE Ledger!Init
    OBVIOUS
  <2>2. ASSUME NEW p \in Participants
        PROVE  [n \in 1 .. Len(history[p]) |-> [delta |-> history[p][n].delta,
                   result |-> history[p][n].result]] = <<>>
    <3>1. history[p] = <<>> /\ 1 .. Len(history[p]) = {}
      BY <2>1 DEF Init
    <3>. QED
      BY <3>1
  <2>. QED
    BY <2>1, <2>2 DEF Init, Ledger!Init
<1>2. IInv /\ [Next]_vars => [Ledger!Next]_<<score, [p \in Participants |->
          [n \in 1 .. Len(history[p]) |-> [delta |-> history[p][n].delta,
                                           result |-> history[p][n].result]]]>>
  <2>1. SUFFICES ASSUME IInv, [Next]_vars
                 PROVE  Ledger!Next \/ UNCHANGED <<score, history>>
    OBVIOUS
  <2>2. CASE \E w \in Workers : CommitChange(w)
    BY <2>1, <2>2, CommitIsEntry
  <2>3. CASE ~ \E w \in Workers : CommitChange(w)
    BY <2>1, <2>3, OnlyChangesEnter
  <2>. QED
    BY <2>2, <2>3
<1>. QED
  BY <1>1, <1>2, Invariance, PTL DEF Spec, LedgerKept, Ledger!Spec
=============================================================================
