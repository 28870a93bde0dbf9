--------------------------- MODULE Diaries_proofs ---------------------------
(***************************************************************************)
(* Theorems about Diaries, for any workers, entries, uploads, lists and    *)
(* limits.                                                                 *)
(*                                                                         *)
(* The argument: a request past its entry's lock holds that lock, so that  *)
(* nobody else changes what the entry shows; the uploads it found usable,  *)
(* or shown by the entry, are locked by it and still are what it found;    *)
(* and what the entry shows it has either locked or has still to lock.     *)
(***************************************************************************)
EXTENDS Diaries, SequenceTheorems, FiniteSetTheorems, WellFoundedInduction, TLAPS

Kinds    == {"create", "edit", "text", "delete", "comment"}
Requests == [at : {"idle", "entry", "media", "notify"}, kind : Kinds,
             by : Participants \cup {None}, on : Entries \cup {None}, media : MediaLists,
             toLock : SUBSET Uploads, usable : SUBSET Uploads, old : SUBSET Uploads]
EntryRows  == [is : {"unwritten", "live", "deleted"}, author : Participants \cup {None},
               comments : Nat]
UploadRows == [status : {"absent", "ready", "attached", "deleting", "gone"},
               entry : Entries \cup {None}, position : Nat]

Typed ==
    /\ entry \in [Entries -> EntryRows]
    /\ upload \in [Uploads -> UploadRows]
    /\ object \subseteq Uploads
    /\ entryLock \in [Entries -> Workers \cup {None}]
    /\ uploadLock \in [Uploads -> Workers \cup {None}]
    /\ request \in [Workers -> Requests]
    /\ chosen \in [Entries -> MediaLists]

-----------------------------------------------------------------------------
(* Requests                                                                *)

\* What a request was asked for.
Sensible(w) ==
    LET r == request[w]
    IN  /\ r.at # "idle" => r.by \in Participants /\ r.on \in Entries /\ r.media \in Sent[r.by]
        /\ r.kind \in {"text", "delete", "comment"} => r.media = <<>>

\* A request past its entry's lock holds it, and the entry is as it was found.
EntryHeld(w) ==
    LET r == request[w]
    IN  r.at = "media" =>
            /\ entryLock[r.on] = w
            /\ entry[r.on].is = IF r.kind = "create" THEN "unwritten" ELSE "live"

\* The uploads it found are locked by it, and still as it found them.
UploadsHeld(w) ==
    LET r == request[w]
    IN  r.at = "media" =>
            /\ \A u \in r.usable : uploadLock[u] = w /\ u \in InList(r.media) /\ FitFor(r, u)
            /\ \A u \in r.old : uploadLock[u] = w /\ u \in AttachedTo(r.on)

\* None of the uploads that the entry shows escapes it.
NoneMissed(w) ==
    LET r == request[w]
    IN  r.at = "media" /\ ChangesMedia(r) => AttachedTo(r.on) \subseteq r.toLock \cup r.old

\* A request that still waits for its entry has found nothing yet, and one
\* that has a notice to send has committed its comment.
Staged(w) ==
    LET r == request[w]
    IN  /\ r.at = "entry" => r.kind # "create" /\ r.usable = {} /\ r.old = {}
        /\ r.at = "notify" => <<r.by, r.on>> \in said

RequestOK(w) == Sensible(w) /\ EntryHeld(w) /\ UploadsHeld(w) /\ NoneMissed(w) /\ Staged(w)

\* Locks are held by requests in the middle of their transaction, and uploads
\* are locked upwards.
LocksOK ==
    /\ \A e \in Entries : entryLock[e] # None =>
           request[entryLock[e]].at = "media" /\ request[entryLock[e]].on = e
    /\ \A u \in Uploads : uploadLock[u] # None =>
           /\ request[uploadLock[u]].at = "media"
           /\ \A v \in request[uploadLock[u]].toLock : u < v

-----------------------------------------------------------------------------
(* The rows                                                                *)

\* The object of an upload that may be shown is there before it is shown.
UsableAreStored ==
    \A u \in Uploads : upload[u].status \in {"ready", "attached"} => u \in object

\* The list a live entry was committed with was sent by somebody.
ListsWereSent ==
    \A e \in Entries : entry[e].is = "live" => chosen[e] \in UNION {Sent[p] : p \in Participants}

RowsOK ==
    /\ EntryShowsLastChoice
    /\ UsableAreStored
    /\ NothingOutlivesItsEntry
    /\ ListsWereSent
    /\ NoticesTellTheTruth

IInv == Typed /\ RowsOK /\ LocksOK /\ \A w \in Workers : RequestOK(w)

-----------------------------------------------------------------------------
(* Types                                                                   *)

\* The empty list is a list of uploads.
LEMMA EmptyList == <<>> \in MediaLists /\ InList(<<>>) = {}
<1>1. <<>> \in Seq(Uploads) /\ 1 .. Len(<<>>) = {}
  OBVIOUS
<1>. QED
  BY <1>1 DEF MediaLists, InList

\* A list is a sequence of uploads.
LEMMA ListType ==
    ASSUME NEW m \in MediaLists
    PROVE  /\ m \in Seq(Uploads) /\ Len(m) \in Nat
           /\ \A i \in 1 .. Len(m) : m[i] \in Uploads /\ m[i] \in InList(m)
           /\ InList(m) \subseteq Uploads
<1>1. m \in Seq(Uploads)
  BY DEF MediaLists
<1>2. Len(m) \in Nat /\ \A i \in 1 .. Len(m) : m[i] \in Uploads
  BY <1>1
<1>. QED
  BY <1>1, <1>2 DEF InList

\* An upload stands in a list at one place.
LEMMA PlaceOf ==
    ASSUME NEW m \in MediaLists, NEW i \in 1 .. Len(m)
    PROVE  PlaceIn(m, m[i]) = i - 1
<1>1. Len(m) \in Nat
  BY ListType
<1>2. i - 1 \in 0 .. Len(m) - 1 /\ m[(i - 1) + 1] = m[i]
  BY <1>1
<1>3. PlaceIn(m, m[i]) \in 0 .. Len(m) - 1 /\ m[PlaceIn(m, m[i]) + 1] = m[i]
  BY <1>2 DEF PlaceIn
<1>4. PlaceIn(m, m[i]) + 1 \in 1 .. Len(m)
  BY <1>1, <1>3
<1>5. PlaceIn(m, m[i]) + 1 = i
  BY <1>3, <1>4 DEF MediaLists
<1>. QED
  BY <1>1, <1>3, <1>5

\* No request is a request that asks for nothing.
LEMMA NoRequestType == NoRequest \in Requests
BY EmptyList DEF NoRequest, Requests, Kinds

\* A request that moves on keeps its type.
LEMMA BecomesType ==
    ASSUME Typed, NEW w \in Workers, NEW r \in Requests, Becomes(w, r)
    PROVE  /\ request' \in [Workers -> Requests]
           /\ request'[w] = r
           /\ \A v \in Workers : v # w => request'[v] = request[v]
BY DEF Typed, Becomes

\* A transaction that ends gives back its own locks and no others.
LEMMA Released ==
    ASSUME Typed, NEW w \in Workers, Release(w)
    PROVE  /\ entryLock' \in [Entries -> Workers \cup {None}]
           /\ uploadLock' \in [Uploads -> Workers \cup {None}]
           /\ \A e \in Entries : entryLock'[e] = IF entryLock[e] = w THEN None ELSE entryLock[e]
           /\ \A u \in Uploads : uploadLock'[u] = IF uploadLock[u] = w THEN None ELSE uploadLock[u]
BY DEF Typed, Release, FreedBy

\* What the locking query sets.
LEMMA WithMediaType ==
    ASSUME NEW r \in Requests
    PROVE  /\ WithMedia(r) \in Requests
           /\ WithMedia(r).at = "media"
           /\ WithMedia(r).kind = r.kind /\ WithMedia(r).by = r.by /\ WithMedia(r).on = r.on
           /\ WithMedia(r).media = r.media
           /\ WithMedia(r).usable = r.usable /\ WithMedia(r).old = r.old
           /\ ChangesMedia(r) => WithMedia(r).toLock = {u \in Uploads : Selected(r, u)}
<1>. DEFINE S == IF ChangesMedia(r) THEN {u \in Uploads : Selected(r, u)} ELSE {}
<1>1. WithMedia(r) = [r EXCEPT !.at = "media", !.toLock = S]
  BY DEF WithMedia
<1>2. S \in SUBSET Uploads /\ (ChangesMedia(r) => S = {u \in Uploads : Selected(r, u)})
  OBVIOUS
<1>. HIDE DEF S
<1>. QED
  BY <1>1, <1>2 DEF Requests

\* What reading an upload sets.
LEMMA AfterReadingType ==
    ASSUME NEW r \in Requests, NEW u \in Uploads
    PROVE  LET n == AfterReading(r, u)
           IN  /\ n \in Requests
               /\ n.at = r.at /\ n.kind = r.kind /\ n.by = r.by /\ n.on = r.on
               /\ n.media = r.media
               /\ n.toLock = r.toLock \ {u}
               /\ n.usable = IF u \in InList(r.media) /\ FitFor(r, u) THEN r.usable \cup {u}
                             ELSE r.usable
               /\ n.old = IF u \in AttachedTo(r.on) THEN r.old \cup {u} ELSE r.old
<1>. DEFINE U == IF u \in InList(r.media) /\ FitFor(r, u) THEN r.usable \cup {u} ELSE r.usable
            O == IF u \in AttachedTo(r.on) THEN r.old \cup {u} ELSE r.old
<1>1. AfterReading(r, u) = [r EXCEPT !.toLock = r.toLock \ {u}, !.usable = U, !.old = O]
  BY DEF AfterReading, Requests
<1>2. U \in SUBSET Uploads /\ O \in SUBSET Uploads /\ r.toLock \ {u} \in SUBSET Uploads
  BY DEF Requests
<1>3. [r EXCEPT !.toLock = r.toLock \ {u}, !.usable = U, !.old = O] \in Requests
  <2>. HIDE DEF U, O
  <2>. QED  BY <1>2 DEF Requests
<1>4. /\ AfterReading(r, u).usable = U /\ AfterReading(r, u).old = O
      /\ AfterReading(r, u).at = r.at /\ AfterReading(r, u).kind = r.kind
      /\ AfterReading(r, u).by = r.by /\ AfterReading(r, u).on = r.on
      /\ AfterReading(r, u).media = r.media /\ AfterReading(r, u).toLock = r.toLock \ {u}
  <2>. HIDE DEF U, O
  <2>. QED  BY <1>1 DEF Requests
<1>. QED
  BY <1>1, <1>3, <1>4

-----------------------------------------------------------------------------
(* What a step leaves alone                                                *)

\* A request is as good as it was, when the rows it has locked are left alone and
\* nothing comes to be shown by an entry it has locked.
LEMMA OthersUndisturbed ==
    ASSUME Typed, NEW v \in Workers, RequestOK(v), request'[v] = request[v], said \subseteq said',
           \A e \in Entries : entryLock[e] = v =>
               /\ entryLock'[e] = v /\ entry'[e].is = entry[e].is
               /\ AttachedTo(e)' \subseteq AttachedTo(e),
           \A u \in request[v].usable \cup request[v].old :
               uploadLock[u] = v => uploadLock'[u] = v /\ upload'[u] = upload[u]
    PROVE  RequestOK(v)'
<1>. DEFINE r == request[v]
<1>1. r \in Requests /\ request'[v] = r
  BY DEF Typed
<1>2. Sensible(v)' /\ Staged(v)'
  BY <1>1 DEF RequestOK, Sensible, Staged
<1>3. r.at = "media" => r.on \in Entries /\ entryLock[r.on] = v
  BY DEF RequestOK, Sensible, EntryHeld
<1>4. EntryHeld(v)'
  BY <1>1, <1>3 DEF RequestOK, EntryHeld
<1>5. UploadsHeld(v)'
  <2>1. SUFFICES ASSUME r.at = "media"
                 PROVE  /\ \A u \in r.usable : /\ uploadLock'[u] = v /\ u \in InList(r.media)
                                               /\ FitFor(r, u)'
                        /\ \A u \in r.old : uploadLock'[u] = v /\ u \in AttachedTo(r.on)'
    BY <1>1 DEF UploadsHeld
  <2>2. ASSUME NEW u \in r.usable
        PROVE  uploadLock'[u] = v /\ u \in InList(r.media) /\ FitFor(r, u)'
    <3>1. u \in Uploads /\ uploadLock[u] = v /\ u \in InList(r.media) /\ FitFor(r, u)
      BY <1>1, <2>1 DEF RequestOK, UploadsHeld, Requests
    <3>2. uploadLock'[u] = v /\ upload'[u] = upload[u]
      BY <3>1
    <3>. QED
      BY <3>1, <3>2 DEF FitFor, AttachedTo
  <2>3. ASSUME NEW u \in r.old
        PROVE  uploadLock'[u] = v /\ u \in AttachedTo(r.on)'
    <3>1. u \in Uploads /\ uploadLock[u] = v /\ u \in AttachedTo(r.on)
      BY <1>1, <2>1 DEF RequestOK, UploadsHeld, Requests
    <3>2. uploadLock'[u] = v /\ upload'[u] = upload[u]
      BY <3>1
    <3>. QED
      BY <3>1, <3>2 DEF AttachedTo
  <2>. QED
    BY <2>2, <2>3
<1>6. NoneMissed(v)'
  <2>1. r.at = "media" => AttachedTo(r.on)' \subseteq AttachedTo(r.on)
    BY <1>3
  <2>. QED
    BY <1>1, <2>1 DEF RequestOK, NoneMissed, ChangesMedia
<1>. QED
  BY <1>2, <1>4, <1>5, <1>6 DEF RequestOK

\* A step that leaves rows and notices alone leaves their invariant alone.
LEMMA SameRows ==
    ASSUME RowsOK, UNCHANGED <<rows, notices>>
    PROVE  RowsOK'
BY DEF RowsOK, rows, EntryShowsLastChoice, UsableAreStored, NothingOutlivesItsEntry,
       ListsWereSent, NoticesTellTheTruth, AttachedTo

\* Nobody but the one that ends its transaction is affected by its end, as long as
\* it keeps to the rows it has locked.
LEMMA EndOfTransaction ==
    ASSUME Typed, LocksOK, \A v \in Workers : RequestOK(v),
           NEW w \in Workers, NEW r \in Requests, Becomes(w, r), Release(w), said \subseteq said',
           \A e \in Entries : entryLock[e] \notin {w, None} =>
               entry'[e].is = entry[e].is /\ AttachedTo(e)' \subseteq AttachedTo(e),
           \A u \in Uploads : uploadLock[u] \notin {w, None} => upload'[u] = upload[u]
    PROVE  LocksOK' /\ \A v \in Workers : v # w => RequestOK(v)'
<1>1. /\ request'[w] = r
      /\ \A v \in Workers : v # w => request'[v] = request[v]
  BY BecomesType
<1>2. /\ \A e \in Entries : entryLock'[e] = IF entryLock[e] = w THEN None ELSE entryLock[e]
      /\ \A u \in Uploads : uploadLock'[u] = IF uploadLock[u] = w THEN None ELSE uploadLock[u]
  BY Released
<1>3. w # None /\ \A v \in Workers : v # None
  BY DiariesAssumption
<1>4. LocksOK'
  <2>1. ASSUME NEW e \in Entries, entryLock'[e] # None
        PROVE  request'[entryLock'[e]].at = "media" /\ request'[entryLock'[e]].on = e
    <3>1. entryLock'[e] = entryLock[e] /\ entryLock[e] # w /\ entryLock[e] \in Workers
      BY <1>2, <2>1 DEF Typed
    <3>. QED
      BY <1>1, <2>1, <3>1 DEF LocksOK
  <2>2. ASSUME NEW u \in Uploads, uploadLock'[u] # None
        PROVE  /\ request'[uploadLock'[u]].at = "media"
               /\ \A v \in request'[uploadLock'[u]].toLock : u < v
    <3>1. uploadLock'[u] = uploadLock[u] /\ uploadLock[u] # w /\ uploadLock[u] \in Workers
      BY <1>2, <2>2 DEF Typed
    <3>. QED
      BY <1>1, <2>2, <3>1 DEF LocksOK
  <2>. QED
    BY <2>1, <2>2 DEF LocksOK
<1>5. ASSUME NEW v \in Workers, v # w
      PROVE  RequestOK(v)'
  <2>1. \A e \in Entries : entryLock[e] = v =>
            /\ entryLock'[e] = v /\ entry'[e].is = entry[e].is
            /\ AttachedTo(e)' \subseteq AttachedTo(e)
    BY <1>2, <1>3, <1>5
  <2>2. \A u \in request[v].usable \cup request[v].old :
            uploadLock[u] = v => uploadLock'[u] = v /\ upload'[u] = upload[u]
    BY <1>2, <1>3, <1>5 DEF Typed, Requests
  <2>. QED
    BY <1>1, <1>5, <2>1, <2>2, OthersUndisturbed
<1>. QED
  BY <1>4, <1>5

-----------------------------------------------------------------------------
(* Requests begin and take the locks of their entries                      *)

\* A request of no kind in particular disturbs nobody before it writes.
LEMMA NobodyDisturbed ==
    ASSUME Typed, LocksOK, \A v \in Workers : RequestOK(v),
           NEW w \in Workers, NEW r \in Requests, Becomes(w, r), UNCHANGED <<entry, upload, said>>,
           \A e \in Entries : entryLock[e] # None => entryLock'[e] = entryLock[e],
           \A u \in Uploads : uploadLock[u] # None => uploadLock'[u] = uploadLock[u]
    PROVE  \A v \in Workers : v # w => RequestOK(v)'
<1>1. SUFFICES ASSUME NEW v \in Workers, v # w PROVE RequestOK(v)'
  OBVIOUS
<1>2. request'[v] = request[v]
  BY <1>1, BecomesType
<1>3. v # None
  BY DiariesAssumption
<1>4. \A e \in Entries : AttachedTo(e)' = AttachedTo(e)
  BY DEF AttachedTo
<1>5. \A u \in request[v].usable \cup request[v].old :
          uploadLock[u] = v => uploadLock'[u] = v /\ upload'[u] = upload[u]
  BY <1>3 DEF Typed, Requests
<1>. QED
  BY <1>2, <1>3, <1>4, <1>5, OthersUndisturbed

\* The locking query of the uploads starts with what the entry shows.
LEMMA QueryStarts ==
    ASSUME Typed, NEW w \in Workers, NEW r \in Requests,
           Becomes(w, WithMedia(r)), UNCHANGED <<entry, upload>>,
           r.by \in Participants, r.on \in Entries, r.media \in Sent[r.by],
           r.kind \in {"text", "delete", "comment"} => r.media = <<>>,
           r.usable = {}, r.old = {},
           entry[r.on].is = (IF r.kind = "create" THEN "unwritten" ELSE "live"),
           entryLock' = [entryLock EXCEPT ![r.on] = w]
    PROVE  RequestOK(w)'
<1>. DEFINE n == WithMedia(r)
<1>1. /\ n \in Requests /\ n.at = "media"
      /\ n.kind = r.kind /\ n.by = r.by /\ n.on = r.on /\ n.media = r.media
      /\ n.usable = {} /\ n.old = {}
      /\ ChangesMedia(r) => n.toLock = {u \in Uploads : Selected(r, u)}
  BY WithMediaType
<1>2. request'[w] = n
  BY <1>1, BecomesType
<1>. HIDE DEF n
<1>3. entryLock'[n.on] = w
  BY <1>1 DEF Typed
<1>4. Sensible(w)' /\ EntryHeld(w)' /\ UploadsHeld(w)' /\ Staged(w)'
  BY <1>1, <1>2, <1>3 DEF Sensible, EntryHeld, UploadsHeld, Staged
<1>5. NoneMissed(w)'
  <2>1. AttachedTo(r.on)' \subseteq {u \in Uploads : Selected(r, u)}
    BY DEF AttachedTo, Selected
  <2>. QED
    BY <1>1, <1>2, <2>1 DEF NoneMissed, ChangesMedia
<1>. QED
  BY <1>4, <1>5 DEF RequestOK

\* An entry is locked where nobody holds it, and uploads not at all.
LEMMA EntryLocked ==
    ASSUME Typed, LocksOK, NEW w \in Workers, request[w].at # "media",
           NEW r \in Requests, Becomes(w, r), r.at = "media", r.on \in Entries,
           entryLock' = [entryLock EXCEPT ![r.on] = w], UNCHANGED uploadLock
    PROVE  LocksOK'
<1>1. request'[w] = r /\ \A v \in Workers : v # w => request'[v] = request[v]
  BY BecomesType
<1>2. ASSUME NEW e \in Entries, entryLock'[e] # None
      PROVE  request'[entryLock'[e]].at = "media" /\ request'[entryLock'[e]].on = e
  <2>1. CASE e = r.on
    BY <1>1, <2>1 DEF Typed
  <2>2. CASE e # r.on
    <3>1. entryLock'[e] = entryLock[e] /\ entryLock[e] \in Workers
      BY <1>2, <2>2 DEF Typed
    <3>2. entryLock[e] # w
      BY <1>2, <3>1 DEF LocksOK
    <3>. QED
      BY <1>1, <1>2, <3>1, <3>2 DEF LocksOK
  <2>. QED
    BY <2>1, <2>2
<1>3. ASSUME NEW u \in Uploads, uploadLock'[u] # None
      PROVE  /\ request'[uploadLock'[u]].at = "media"
             /\ \A v \in request'[uploadLock'[u]].toLock : u < v
  <2>1. uploadLock[u] # None /\ uploadLock[u] \in Workers
    BY <1>3 DEF Typed
  <2>2. uploadLock[u] # w
    BY <2>1 DEF LocksOK
  <2>. QED
    BY <1>1, <2>1, <2>2 DEF LocksOK
<1>. QED
  BY <1>2, <1>3 DEF LocksOK

\* The facts that steps of requests have to keep.
Kept == Typed' /\ RowsOK' /\ LocksOK' /\ \A v \in Workers : RequestOK(v)'

LEMMA CreateKeeps ==
    ASSUME IInv, NEW w \in Workers, NEW p \in Participants, NEW e \in Entries,
           NEW media \in Sent[p], Create(w, p, e, media)
    PROVE  Kept
<1>. DEFINE r == [NoRequest EXCEPT !.kind = "create", !.by = p, !.on = e, !.media = media]
<1>1. Typed /\ RowsOK /\ LocksOK /\ \A v \in Workers : RequestOK(v)
  BY DEF IInv
<1>2. media \in MediaLists
  BY DiariesAssumption
<1>3. /\ r \in Requests /\ r.at = "idle" /\ r.kind = "create" /\ r.by = p /\ r.on = e
      /\ r.media = media /\ r.usable = {} /\ r.old = {}
  BY <1>2, NoRequestType DEF NoRequest, Requests, Kinds
<1>. HIDE DEF r
<1>4. /\ request[w].at = "idle" /\ entry[e].is = "unwritten" /\ ~Taken(e)
      /\ Becomes(w, WithMedia(r)) /\ entryLock' = [entryLock EXCEPT ![e] = w]
      /\ UNCHANGED <<rows, uploadLock, notices>>
  BY DEF Create, r
<1>5. WithMedia(r) \in Requests /\ WithMedia(r).at = "media" /\ WithMedia(r).on = e
  BY <1>3, WithMediaType
<1>6. entryLock[e] = None
  <2>1. SUFFICES ASSUME entryLock[e] # None PROVE FALSE
    OBVIOUS
  <2>2. PICK v \in Workers : entryLock[e] = v
    BY <1>1, <2>1 DEF Typed
  <2>3. request[v].at = "media" /\ request[v].on = e
    BY <1>1, <2>1, <2>2 DEF LocksOK
  <2>4. request[v].kind = "create"
    BY <1>1, <1>4, <2>3 DEF RequestOK, EntryHeld
  <2>. QED
    BY <1>4, <2>3, <2>4 DEF Taken
<1>7. Typed'
  <2>1. request' \in [Workers -> Requests]
    BY <1>1, <1>4, <1>5, BecomesType
  <2>. QED
    BY <1>1, <1>4, <2>1 DEF Typed, rows
<1>8. RowsOK'
  BY <1>1, <1>4, SameRows
<1>9. LocksOK'
  BY <1>1, <1>4, <1>5, EntryLocked
<1>10. RequestOK(w)'
  <2>1. UNCHANGED <<entry, upload>>
    BY <1>4 DEF rows
  <2>2. r.by \in Participants /\ r.on \in Entries /\ r.media \in Sent[r.by]
    BY <1>3
  <2>. QED
    BY <1>1, <1>3, <1>4, <2>1, <2>2, QueryStarts
<1>11. \A v \in Workers : v # w => RequestOK(v)'
  <2>1. UNCHANGED <<entry, upload, said>>
    BY <1>4 DEF rows
  <2>2. \A x \in Entries : entryLock[x] # None => entryLock'[x] = entryLock[x]
    BY <1>1, <1>4, <1>6 DEF Typed
  <2>. QED
    BY <1>1, <1>4, <1>5, <2>1, <2>2, NobodyDisturbed
<1>. QED
  BY <1>7, <1>8, <1>9, <1>10, <1>11 DEF Kept

LEMMA AskKeeps ==
    ASSUME IInv, NEW w \in Workers, NEW p \in Participants, NEW e \in Entries,
           NEW media \in Sent[p], NEW kind, Ask(w, p, e, kind, media)
    PROVE  Kept
<1>. DEFINE r == [NoRequest EXCEPT !.at = "entry", !.kind = kind, !.by = p, !.on = e,
                                   !.media = media]
<1>1. Typed /\ RowsOK /\ LocksOK /\ \A v \in Workers : RequestOK(v)
  BY DEF IInv
<1>2. media \in MediaLists
  BY DiariesAssumption
<1>3. /\ kind \in Kinds /\ kind # "create"
      /\ kind \in {"text", "delete", "comment"} => media = <<>>
      /\ request[w].at = "idle"
  BY DEF Ask, Kinds
<1>4. /\ r \in Requests /\ r.at = "entry" /\ r.kind = kind /\ r.by = p /\ r.on = e
      /\ r.media = media /\ r.usable = {} /\ r.old = {}
  BY <1>2, <1>3, NoRequestType DEF NoRequest, Requests
<1>. HIDE DEF r
<1>5. Becomes(w, r) /\ UNCHANGED <<rows, locks, notices>>
  BY DEF Ask, r
<1>6. request' \in [Workers -> Requests] /\ request'[w] = r
      /\ \A v \in Workers : v # w => request'[v] = request[v]
  BY <1>1, <1>4, <1>5, BecomesType
<1>7. Typed'
  BY <1>1, <1>5, <1>6 DEF Typed, rows, locks
<1>8. LocksOK'
  <2>1. \A x \in Entries : entryLock[x] # w
    BY <1>1, <1>3, DiariesAssumption DEF LocksOK
  <2>2. \A u \in Uploads : uploadLock[u] # w
    BY <1>1, <1>3, DiariesAssumption DEF LocksOK
  <2>. QED
    BY <1>1, <1>5, <1>6, <2>1, <2>2 DEF LocksOK, Typed, locks
<1>9. RequestOK(w)'
  BY <1>3, <1>4, <1>6
  DEF RequestOK, Sensible, EntryHeld, UploadsHeld, NoneMissed, Staged
<1>10. \A v \in Workers : v # w => RequestOK(v)'
  BY <1>1, <1>4, <1>5, NobodyDisturbed DEF rows, locks
<1>. QED
  BY <1>1, <1>5, <1>7, <1>8, <1>9, <1>10, SameRows DEF Kept

LEMMA LockEntryKeeps ==
    ASSUME IInv, NEW w \in Workers, LockEntry(w)
    PROVE  Kept
<1>. DEFINE r == request[w]
<1>1. Typed /\ RowsOK /\ LocksOK /\ \A v \in Workers : RequestOK(v)
  BY DEF IInv
<1>2. /\ r \in Requests /\ r.at = "entry" /\ entryLock[r.on] = None /\ entry[r.on].is = "live"
      /\ Becomes(w, WithMedia(r)) /\ entryLock' = [entryLock EXCEPT ![r.on] = w]
      /\ UNCHANGED <<rows, uploadLock, notices>>
  BY <1>1 DEF LockEntry, Typed
<1>3. /\ r.by \in Participants /\ r.on \in Entries /\ r.media \in Sent[r.by]
      /\ r.kind \in {"text", "delete", "comment"} => r.media = <<>>
      /\ r.kind # "create" /\ r.usable = {} /\ r.old = {}
  BY <1>1, <1>2 DEF RequestOK, Sensible, Staged
<1>. HIDE DEF r
<1>4. WithMedia(r) \in Requests /\ WithMedia(r).at = "media" /\ WithMedia(r).on = r.on
  BY <1>2, WithMediaType
<1>5. Typed'
  <2>1. request' \in [Workers -> Requests]
    BY <1>1, <1>2, <1>4, BecomesType
  <2>. QED
    BY <1>1, <1>2, <1>3, <2>1 DEF Typed, rows
<1>6. LocksOK'
  <2>1. request[w].at # "media"
    BY <1>2 DEF r
  <2>. QED
    BY <1>1, <1>2, <1>3, <1>4, <2>1, EntryLocked
<1>7. RequestOK(w)'
  <2>1. UNCHANGED <<entry, upload>>
    BY <1>2 DEF rows
  <2>. QED
    BY <1>1, <1>2, <1>3, <2>1, QueryStarts
<1>8. \A v \in Workers : v # w => RequestOK(v)'
  <2>1. UNCHANGED <<entry, upload, said>>
    BY <1>2 DEF rows
  <2>2. \A x \in Entries : entryLock[x] # None => entryLock'[x] = entryLock[x]
    BY <1>1, <1>2 DEF Typed
  <2>. QED
    BY <1>1, <1>2, <1>4, <2>1, <2>2, NobodyDisturbed
<1>. QED
  BY <1>1, <1>2, <1>5, <1>6, <1>7, <1>8, SameRows DEF Kept

-----------------------------------------------------------------------------
(* The locking query of the uploads, and the ends without a commit         *)

LEMMA LockUploadKeeps ==
    ASSUME IInv, NEW w \in Workers, NEW u \in Uploads, LockUpload(w, u)
    PROVE  Kept
<1>0. PICK r \in Requests : r = request[w]
  BY DEF IInv, Typed
<1>1. Typed /\ RowsOK /\ LocksOK /\ \A v \in Workers : RequestOK(v)
  BY DEF IInv
<1>. PICK n \in Requests : n = AfterReading(r, u)
  BY AfterReadingType
<1>2. /\ r \in Requests /\ r.at = "media" /\ NextToLock(r, u) /\ uploadLock[u] = None
      /\ uploadLock' = IF Selected(r, u) THEN [uploadLock EXCEPT ![u] = w] ELSE uploadLock
      /\ Becomes(w, n) /\ UNCHANGED <<rows, entryLock, notices>>
  BY <1>0 DEF LockUpload
<1>3. /\ n \in Requests /\ n.at = "media" /\ n.kind = r.kind /\ n.by = r.by /\ n.on = r.on
      /\ n.media = r.media /\ n.toLock = r.toLock \ {u}
      /\ n.usable = IF u \in InList(r.media) /\ FitFor(r, u) THEN r.usable \cup {u} ELSE r.usable
      /\ n.old = IF u \in AttachedTo(r.on) THEN r.old \cup {u} ELSE r.old
  BY <1>2, AfterReadingType
<1>4. r.on \in Entries /\ Sensible(w) /\ EntryHeld(w) /\ UploadsHeld(w) /\ NoneMissed(w)
  BY <1>0, <1>1, <1>2 DEF RequestOK, Sensible
<1>5. request' \in [Workers -> Requests] /\ request'[w] = n
      /\ \A v \in Workers : v # w => request'[v] = request[v]
  BY <1>1, <1>2, <1>3, BecomesType
<1>6. \A x \in Uploads : uploadLock'[x] = IF x = u /\ Selected(r, u) THEN w ELSE uploadLock[x]
  BY <1>1, <1>2 DEF Typed
<1>7. Typed'
  BY <1>1, <1>2, <1>5, <1>6 DEF Typed, rows
<1>8. LocksOK'
  <2>1. ASSUME NEW e \in Entries, entryLock'[e] # None
        PROVE  request'[entryLock'[e]].at = "media" /\ request'[entryLock'[e]].on = e
    BY <1>0, <1>1, <1>2, <1>3, <1>5, <2>1 DEF LocksOK, Typed
  <2>2. ASSUME NEW x \in Uploads, uploadLock'[x] # None
        PROVE  /\ request'[uploadLock'[x]].at = "media"
               /\ \A v \in request'[uploadLock'[x]].toLock : x < v
    <3>1. CASE x = u /\ Selected(r, u)
      <4>1. uploadLock'[x] = w
        BY <1>6, <3>1
      <4>2. \A v \in r.toLock \ {u} : v \in Nat /\ u \in Nat /\ u <= v /\ u # v
        BY <1>2, DiariesAssumption DEF NextToLock, Requests
      <4>. QED
        BY <1>3, <1>5, <3>1, <4>1, <4>2
    <3>2. CASE ~(x = u /\ Selected(r, u))
      <4>1. uploadLock'[x] = uploadLock[x] /\ uploadLock[x] \in Workers
        BY <1>1, <1>6, <2>2, <3>2 DEF Typed
      <4>2. /\ request[uploadLock[x]].at = "media"
            /\ \A v \in request[uploadLock[x]].toLock : x < v
        BY <1>1, <2>2, <4>1 DEF LocksOK
      <4>. QED
        BY <1>0, <1>2, <1>3, <1>5, <4>1, <4>2
    <3>. QED
      BY <3>1, <3>2
  <2>. QED
    BY <2>1, <2>2 DEF LocksOK
<1>9. RequestOK(w)'
  <2>1. UNCHANGED <<entry, upload, said, entryLock>>
    BY <1>2 DEF rows
  <2>2. Sensible(w)' /\ EntryHeld(w)' /\ Staged(w)'
    BY <1>0, <1>2, <1>3, <1>4, <1>5, <2>1 DEF Sensible, EntryHeld, Staged
  <2>3. ASSUME NEW x \in n.usable
        PROVE  uploadLock'[x] = w /\ x \in InList(n.media) /\ FitFor(n, x)'
    <3>1. CASE x = u /\ u \in InList(r.media) /\ FitFor(r, u)
      <4>1. Selected(r, u)
        BY <3>1 DEF FitFor, Selected
      <4>. QED
        BY <1>3, <1>6, <2>1, <3>1, <4>1 DEF FitFor, AttachedTo
    <3>2. CASE x \in r.usable
      <4>1. x \in Uploads /\ uploadLock[x] = w /\ x \in InList(r.media) /\ FitFor(r, x)
        BY <1>0, <1>2, <1>4, <3>2 DEF UploadsHeld, Requests
      <4>. QED
        BY <1>3, <1>6, <2>1, <4>1 DEF FitFor, AttachedTo
    <3>. QED
      BY <1>3, <2>3, <3>1, <3>2
  <2>4. ASSUME NEW x \in n.old
        PROVE  uploadLock'[x] = w /\ x \in AttachedTo(n.on)'
    <3>1. CASE x = u /\ u \in AttachedTo(r.on)
      <4>1. Selected(r, u)
        BY <3>1 DEF Selected
      <4>. QED
        BY <1>3, <1>6, <2>1, <3>1, <4>1 DEF AttachedTo
    <3>2. CASE x \in r.old
      <4>1. x \in Uploads /\ uploadLock[x] = w /\ x \in AttachedTo(r.on)
        BY <1>0, <1>2, <1>4, <3>2 DEF UploadsHeld, Requests
      <4>. QED
        BY <1>3, <1>6, <2>1, <4>1 DEF AttachedTo
    <3>. QED
      BY <1>3, <2>4, <3>1, <3>2
  <2>5. UploadsHeld(w)'
    BY <1>5, <2>3, <2>4 DEF UploadsHeld
  <2>6. NoneMissed(w)'
    <3>1. AttachedTo(r.on)' = AttachedTo(r.on)
      BY <2>1 DEF AttachedTo
    <3>2. ChangesMedia(r) => AttachedTo(r.on) \subseteq n.toLock \cup n.old
      BY <1>0, <1>2, <1>3, <1>4 DEF NoneMissed
    <3>. QED
      BY <1>3, <1>5, <3>1, <3>2 DEF NoneMissed, ChangesMedia
  <2>. QED
    BY <2>2, <2>5, <2>6 DEF RequestOK
<1>10. \A v \in Workers : v # w => RequestOK(v)'
  <2>1. UNCHANGED <<entry, upload, said, entryLock>>
    BY <1>2 DEF rows
  <2>2. \A x \in Uploads : uploadLock[x] # None => uploadLock'[x] = uploadLock[x]
    BY <1>2, <1>6
  <2>. QED
    BY <1>1, <1>2, <1>3, <2>1, <2>2, NobodyDisturbed
<1>. QED
  BY <1>1, <1>2, <1>7, <1>8, <1>9, <1>10, SameRows DEF Kept

\* Nothing is asked of a worker without a request.
LEMMA IdleIsOK ==
    ASSUME NEW w \in Workers, request'[w] = NoRequest
    PROVE  RequestOK(w)'
BY DEF NoRequest, RequestOK, Sensible, EntryHeld, UploadsHeld, NoneMissed, Staged

LEMMA RollBackKeeps ==
    ASSUME IInv, NEW w \in Workers, RollBack(w)
    PROVE  Kept
<1>1. Typed /\ RowsOK /\ LocksOK /\ \A v \in Workers : RequestOK(v)
  BY DEF IInv
<1>2. Becomes(w, NoRequest) /\ Release(w) /\ UNCHANGED <<rows, notices>>
  BY DEF RollBack
<1>3. request' \in [Workers -> Requests] /\ request'[w] = NoRequest
  BY <1>1, <1>2, NoRequestType, BecomesType
<1>4. Typed'
  BY <1>1, <1>2, <1>3, Released DEF Typed, rows
<1>5. LocksOK' /\ \A v \in Workers : v # w => RequestOK(v)'
  <2>1. UNCHANGED <<entry, upload, said>>
    BY <1>2 DEF rows
  <2>2. \A e \in Entries : AttachedTo(e)' = AttachedTo(e)
    BY <2>1 DEF AttachedTo
  <2>. QED
    BY <1>1, <1>2, <2>1, <2>2, NoRequestType, EndOfTransaction
<1>. QED
  BY <1>1, <1>2, <1>3, <1>4, <1>5, IdleIsOK, SameRows DEF Kept

LEMMA CommitTextKeeps ==
    ASSUME IInv, NEW w \in Workers, CommitText(w)
    PROVE  Kept
BY RollBackKeeps DEF CommitText, RollBack

LEMMA NotifyKeeps ==
    ASSUME IInv, NEW w \in Workers, Notify(w) \/ NotifyFails(w)
    PROVE  Kept
<1>1. Typed /\ RowsOK /\ LocksOK /\ \A v \in Workers : RequestOK(v)
  BY DEF IInv
<1>2. request[w].at = "notify" /\ Becomes(w, NoRequest) /\ UNCHANGED <<rows, locks>>
  BY DEF Notify, NotifyFails
<1>3. request' \in [Workers -> Requests] /\ request'[w] = NoRequest
      /\ \A v \in Workers : v # w => request'[v] = request[v]
  BY <1>1, <1>2, NoRequestType, BecomesType
<1>4. Typed'
  BY <1>1, <1>2, <1>3 DEF Typed, rows, locks
<1>5. LocksOK'
  <2>1. \A e \in Entries : entryLock[e] # w
    BY <1>1, <1>2, DiariesAssumption DEF LocksOK
  <2>2. \A u \in Uploads : uploadLock[u] # w
    BY <1>1, <1>2, DiariesAssumption DEF LocksOK
  <2>. QED
    BY <1>1, <1>2, <1>3, <2>1, <2>2 DEF LocksOK, Typed, locks
<1>6. \A v \in Workers : v # w => RequestOK(v)'
  BY <1>1, <1>2, NoRequestType, NobodyDisturbed DEF rows, locks
<1>7. NoticesTellTheTruth'
  <2>1. request[w].by \in Participants /\ <<request[w].by, request[w].on>> \in said
    BY <1>1, <1>2 DEF RequestOK, Sensible, Staged
  <2>2. \A m \in notices' : m \in notices
            \/ m = [to |-> Partner[request[w].by], on |-> request[w].on]
    BY DEF Notify, NotifyFails
  <2>3. said' = said
    BY <1>2 DEF rows
  <2>. QED
    BY <1>1, <2>1, <2>2, <2>3 DEF RowsOK, NoticesTellTheTruth
<1>8. RowsOK'
  BY <1>1, <1>2, <1>7
  DEF RowsOK, rows, EntryShowsLastChoice, UsableAreStored, NothingOutlivesItsEntry,
      ListsWereSent, AttachedTo
<1>. QED
  BY <1>3, <1>4, <1>5, <1>6, <1>8, IdleIsOK DEF Kept

-----------------------------------------------------------------------------
(* The commits                                                             *)

\* A request that has locked all it needs knows exactly what its entry shows.
LEMMA KnowsItsEntry ==
    ASSUME IInv, NEW w \in Workers, NEW r \in Requests, r = request[w], r.at = "media",
           ChangesMedia(r), r.toLock = {}
    PROVE  /\ r.on \in Entries
           /\ AttachedTo(r.on) = r.old
           /\ Retired(r) = AttachedTo(r.on) \ InList(r.media)
           /\ \A u \in r.usable \cup r.old : u \in Uploads /\ uploadLock[u] = w
<1>1. RequestOK(w)
  BY DEF IInv
<1>2. r.on \in Entries /\ AttachedTo(r.on) \subseteq r.old
  BY <1>1 DEF RequestOK, Sensible, NoneMissed
<1>3. /\ r.old \subseteq AttachedTo(r.on)
      /\ \A u \in r.usable \cup r.old : u \in Uploads /\ uploadLock[u] = w
  BY <1>1 DEF RequestOK, UploadsHeld, Requests
<1>. QED
  BY <1>2, <1>3 DEF Retired

\* What the rows are after a commit that changes what an entry shows: only the
\* uploads that were locked change, and only those of this entry.
LEMMA RowsReplaced ==
    ASSUME IInv, NEW w \in Workers, NEW r \in Requests, r = request[w], r.at = "media",
           ChangesMedia(r), r.toLock = {}, InList(r.media) \subseteq r.usable,
           upload' = Replaced(r)
    PROVE  /\ upload' \in [Uploads -> UploadRows]
           /\ AttachedTo(r.on)' = InList(r.media)
           /\ \A u \in InList(r.media) : upload'[u].position = PlaceIn(r.media, u)
           /\ \A e \in Entries : e # r.on =>
                  /\ AttachedTo(e)' = AttachedTo(e)
                  /\ \A u \in AttachedTo(e) : upload'[u] = upload[u]
           /\ \A u \in Uploads : uploadLock[u] # w => upload'[u] = upload[u]
           /\ \A u \in Uploads : upload'[u].status \in {"ready", "attached"} =>
                  upload[u].status \in {"ready", "attached"}
<1>1. /\ r.on \in Entries /\ AttachedTo(r.on) = r.old
      /\ Retired(r) = AttachedTo(r.on) \ InList(r.media)
      /\ \A u \in r.usable \cup r.old : u \in Uploads /\ uploadLock[u] = w
  BY KnowsItsEntry
<1>2. r.media \in MediaLists /\ InList(r.media) \subseteq Uploads
  BY ListType DEF Requests
<1>3. ASSUME NEW u \in InList(r.media)
      PROVE  /\ upload'[u] \in UploadRows
             /\ upload'[u].status = "attached" /\ upload'[u].entry = r.on
             /\ upload'[u].position = PlaceIn(r.media, u)
             /\ upload[u].status \in {"ready", "attached"}
             /\ \A e \in Entries : u \in AttachedTo(e) => e = r.on
  <2>1. upload'[u] = [status |-> "attached", entry |-> r.on, position |-> PlaceIn(r.media, u)]
    BY <1>2 DEF Replaced
  <2>2. PICK i \in 1 .. Len(r.media) : u = r.media[i]
    BY DEF InList
  <2>3. PlaceIn(r.media, u) \in Nat
    BY <1>2, <2>2, PlaceOf, ListType
  <2>4. FitFor(r, u)
    BY DEF IInv, RequestOK, UploadsHeld
  <2>5. upload[u].status = "ready" \/ u \in AttachedTo(r.on)
    BY <2>4 DEF FitFor
  <2>6. /\ upload'[u] \in UploadRows
        /\ upload'[u].status = "attached" /\ upload'[u].entry = r.on
        /\ upload'[u].position = PlaceIn(r.media, u)
    BY <1>1, <2>1, <2>3 DEF UploadRows
  <2>7. /\ upload[u].status \in {"ready", "attached"}
        /\ \A e \in Entries : u \in AttachedTo(e) => e = r.on
    BY <2>5 DEF AttachedTo
  <2>. QED
    BY <2>6, <2>7
<1>4. ASSUME NEW u \in Retired(r)
      PROVE  /\ upload'[u] = [upload[u] EXCEPT !.status = "deleting", !.entry = None]
             /\ u \in AttachedTo(r.on)
  <2>1. u \in Uploads /\ u \notin InList(r.media) /\ u \in AttachedTo(r.on)
    BY <1>1
  <2>. QED
    BY <2>1 DEF Replaced
<1>5. ASSUME NEW u \in Uploads, u \notin InList(r.media), u \notin Retired(r)
      PROVE  upload'[u] = upload[u]
  BY <1>5 DEF Replaced
<1>6. upload \in [Uploads -> UploadRows]
  BY DEF IInv, Typed
<1>7. upload' \in [Uploads -> UploadRows]
  <2>1. \A u \in Uploads : upload'[u] \in UploadRows
    <3>1. ASSUME NEW u \in Uploads
          PROVE  upload'[u] \in UploadRows
      <4>1. CASE u \in InList(r.media)
        BY <1>3, <4>1
      <4>2. CASE u \in Retired(r)
        BY <1>4, <1>6, <4>2 DEF UploadRows
      <4>. QED
        BY <1>5, <1>6, <4>1, <4>2
    <3>. QED
      BY <3>1
  <2>2. upload' = [u \in Uploads |-> upload'[u]]
    BY DEF Replaced
  <2>. QED
    BY <2>1, <2>2
<1>8. ASSUME NEW u \in Retired(r)
      PROVE  upload'[u].status = "deleting" /\ upload'[u].entry = None
  <2>1. u \in Uploads /\ upload[u] \in UploadRows
    BY <1>1, <1>6
  <2>. QED
    BY <1>4, <2>1 DEF UploadRows
<1>9. AttachedTo(r.on)' = InList(r.media)
  <2>. PICK e \in Entries : e = r.on
    BY <1>1
  <2>1. ASSUME NEW u \in Uploads
        PROVE  upload'[u].status = "attached" /\ upload'[u].entry = e <=> u \in InList(r.media)
    <3>1. CASE u \in InList(r.media)
      BY <1>3, <3>1
    <3>2. CASE u \in Retired(r)
      BY <1>1, <1>8, <3>2
    <3>3. CASE u \notin InList(r.media) /\ u \notin Retired(r)
      BY <1>1, <1>5, <3>3 DEF AttachedTo
    <3>. QED
      BY <3>1, <3>2, <3>3
  <2>. QED
    BY <1>2, <2>1 DEF AttachedTo
<1>10. ASSUME NEW e \in Entries, e # r.on
       PROVE  /\ AttachedTo(e)' = AttachedTo(e)
              /\ \A u \in AttachedTo(e) : upload'[u] = upload[u]
  <2>1. ASSUME NEW u \in Uploads
        PROVE  upload'[u].status = "attached" /\ upload'[u].entry = e <=> u \in AttachedTo(e)
    <3>1. CASE u \in InList(r.media)
      BY <1>3, <1>10, <3>1
    <3>2. CASE u \in Retired(r)
      BY <1>4, <1>8, <1>10, <3>2 DEF AttachedTo
    <3>3. CASE u \notin InList(r.media) /\ u \notin Retired(r)
      BY <1>5, <3>3 DEF AttachedTo
    <3>. QED
      BY <3>1, <3>2, <3>3
  <2>2. ASSUME NEW u \in AttachedTo(e)
        PROVE  upload'[u] = upload[u]
    <3>1. u \in Uploads /\ u \notin InList(r.media)
      BY <1>3, <1>10 DEF AttachedTo
    <3>2. u \notin Retired(r)
      BY <1>4, <1>10 DEF AttachedTo
    <3>. QED
      BY <1>5, <3>1, <3>2
  <2>. QED
    BY <2>1, <2>2 DEF AttachedTo
<1>11. ASSUME NEW u \in Uploads, uploadLock[u] # w
       PROVE  upload'[u] = upload[u]
  BY <1>1, <1>5, <1>11 DEF Retired
<1>12. ASSUME NEW u \in Uploads, upload'[u].status \in {"ready", "attached"}
       PROVE  upload[u].status \in {"ready", "attached"}
  BY <1>3, <1>5, <1>8, <1>12
<1>. QED
  BY <1>3, <1>7, <1>9, <1>10, <1>11, <1>12

\* The invariant of the rows after the commit of a list.
LEMMA RowsAfterReplace ==
    ASSUME IInv, NEW w \in Workers, NEW r \in Requests, r = request[w], r.at = "media",
           ChangesMedia(r), r.toLock = {}, InList(r.media) \subseteq r.usable,
           upload' = Replaced(r), chosen' = [chosen EXCEPT ![r.on] = r.media],
           entry' \in [Entries -> EntryRows],
           \A e \in Entries : e # r.on => entry'[e] = entry[e],
           entry'[r.on].is # "live" => r.media = <<>> /\ entry'[r.on].comments = 0,
           UNCHANGED <<object, said, notices>>
    PROVE  RowsOK' /\ chosen' \in [Entries -> MediaLists]
<1>1. /\ AttachedTo(r.on)' = InList(r.media)
      /\ \A u \in InList(r.media) : upload'[u].position = PlaceIn(r.media, u)
      /\ \A e \in Entries : e # r.on =>
             /\ AttachedTo(e)' = AttachedTo(e)
             /\ \A u \in AttachedTo(e) : upload'[u] = upload[u]
      /\ \A u \in Uploads : upload'[u].status \in {"ready", "attached"} =>
             upload[u].status \in {"ready", "attached"}
  BY RowsReplaced
<1>2. Typed /\ RowsOK /\ Sensible(w)
  BY DEF IInv, RequestOK
<1>3. r.on \in Entries /\ r.by \in Participants /\ r.media \in Sent[r.by] /\ r.media \in MediaLists
  BY <1>2 DEF Sensible, Requests
<1>4. /\ chosen' \in [Entries -> MediaLists] /\ chosen'[r.on] = r.media
      /\ \A e \in Entries : e # r.on => chosen'[e] = chosen[e]
  BY <1>2, <1>3 DEF Typed
<1>. PICK x \in Entries : x = r.on
  BY <1>3
<1>5. EntryShowsLastChoice'
  <2>1. ASSUME NEW e \in Entries
        PROVE  /\ AttachedTo(e)' = InList(chosen'[e])
               /\ \A i \in 1 .. Len(chosen'[e]) : upload'[chosen'[e][i]].position = i - 1
    <3>1. CASE e = x
      <4>1. AttachedTo(x)' = InList(r.media)
        BY <1>1
      <4>2. \A i \in 1 .. Len(r.media) : upload'[r.media[i]].position = i - 1
        BY <1>1, <1>3, PlaceOf, ListType
      <4>. QED
        BY <1>4, <3>1, <4>1, <4>2
    <3>2. CASE e # x
      <4>1. AttachedTo(e)' = AttachedTo(e) /\ \A u \in AttachedTo(e) : upload'[u] = upload[u]
        BY <1>1, <3>2
      <4>2. /\ AttachedTo(e) = InList(chosen[e])
            /\ \A i \in 1 .. Len(chosen[e]) : upload[chosen[e][i]].position = i - 1
        BY <1>2 DEF RowsOK, EntryShowsLastChoice
      <4>3. \A i \in 1 .. Len(chosen[e]) : chosen[e][i] \in InList(chosen[e])
        BY DEF InList
      <4>. QED
        BY <1>4, <3>2, <4>1, <4>2, <4>3
    <3>. QED
      BY <3>1, <3>2
  <2>. QED
    BY <2>1 DEF EntryShowsLastChoice
<1>6. UsableAreStored'
  BY <1>1, <1>2 DEF RowsOK, UsableAreStored
<1>7. NothingOutlivesItsEntry'
  <2>1. ASSUME NEW e \in Entries, entry'[e].is # "live"
        PROVE  AttachedTo(e)' = {} /\ entry'[e].comments = 0
    <3>1. CASE e = x
      <4>1. AttachedTo(x)' = InList(r.media)
        BY <1>1
      <4>. QED
        BY <2>1, <3>1, <4>1, EmptyList
    <3>2. CASE e # x
      <4>1. AttachedTo(e)' = AttachedTo(e)
        BY <1>1, <3>2
      <4>. QED
        BY <1>2, <2>1, <3>2, <4>1 DEF RowsOK, NothingOutlivesItsEntry
    <3>. QED
      BY <3>1, <3>2
  <2>. QED
    BY <2>1 DEF NothingOutlivesItsEntry
<1>8. ListsWereSent'
  BY <1>2, <1>3, <1>4 DEF RowsOK, ListsWereSent
<1>9. NoticesTellTheTruth'
  BY <1>2 DEF RowsOK, NoticesTellTheTruth
<1>. QED
  BY <1>4, <1>5, <1>6, <1>7, <1>8, <1>9 DEF RowsOK

\* What a commit of a list leaves of locks and other requests.
LEMMA OthersAfterReplace ==
    ASSUME IInv, NEW w \in Workers, NEW r \in Requests, r = request[w], r.at = "media",
           ChangesMedia(r), r.toLock = {}, InList(r.media) \subseteq r.usable,
           upload' = Replaced(r), \A e \in Entries : e # r.on => entry'[e] = entry[e],
           Becomes(w, NoRequest), Release(w), UNCHANGED said
    PROVE  LocksOK' /\ \A v \in Workers : RequestOK(v)'
<1>1. Typed /\ LocksOK /\ \A v \in Workers : RequestOK(v)
  BY DEF IInv
<1>2. /\ \A e \in Entries : e # r.on => AttachedTo(e)' = AttachedTo(e)
      /\ \A u \in Uploads : uploadLock[u] # w => upload'[u] = upload[u]
  BY RowsReplaced
<1>3. entryLock[r.on] = w
  BY <1>1 DEF RequestOK, EntryHeld
<1>4. \A e \in Entries : entryLock[e] \notin {w, None} =>
          entry'[e].is = entry[e].is /\ AttachedTo(e)' \subseteq AttachedTo(e)
  BY <1>2, <1>3
<1>5. LocksOK' /\ \A v \in Workers : v # w => RequestOK(v)'
  BY <1>1, <1>2, <1>4, NoRequestType, EndOfTransaction
<1>6. RequestOK(w)'
  BY <1>1, NoRequestType, BecomesType, IdleIsOK
<1>. QED
  BY <1>5, <1>6

LEMMA CommitFilesKeeps ==
    ASSUME IInv, NEW w \in Workers, CommitFiles(w)
    PROVE  Kept
<1>0. PICK r \in Requests : r = request[w]
  BY DEF IInv, Typed
<1>1. Typed /\ RequestOK(w)
  BY DEF IInv
<1>2. /\ r.at = "media" /\ r.kind \in {"create", "edit"} /\ r.toLock = {}
      /\ InList(r.media) \subseteq r.usable /\ upload' = Replaced(r)
      /\ chosen' = [chosen EXCEPT ![r.on] = r.media] /\ Becomes(w, NoRequest) /\ Release(w)
      /\ UNCHANGED <<object, said, notices>>
      /\ entry' = IF r.kind = "edit" THEN entry
                  ELSE [entry EXCEPT ![r.on].is = "live", ![r.on].author = r.by]
  BY <1>0 DEF CommitFiles
<1>3. ChangesMedia(r)
  BY <1>2 DEF ChangesMedia
<1>4. r.on \in Entries /\ r.by \in Participants
      /\ entry[r.on].is = IF r.kind = "create" THEN "unwritten" ELSE "live"
  BY <1>0, <1>1, <1>2 DEF RequestOK, Sensible, EntryHeld
<1>5. /\ entry' \in [Entries -> EntryRows] /\ entry'[r.on].is = "live"
      /\ \A e \in Entries : e # r.on => entry'[e] = entry[e]
  <2>1. CASE r.kind = "edit"
    BY <1>1, <1>2, <1>4, <2>1 DEF Typed
  <2>2. CASE r.kind = "create"
    <3>1. entry' = [entry EXCEPT ![r.on] = [entry[r.on] EXCEPT !.is = "live", !.author = r.by]]
      BY <1>2, <2>2
    <3>2. [entry[r.on] EXCEPT !.is = "live", !.author = r.by] \in EntryRows
          /\ [entry[r.on] EXCEPT !.is = "live", !.author = r.by].is = "live"
      BY <1>1, <1>4 DEF Typed, EntryRows
    <3>. QED
      BY <1>1, <1>4, <3>1, <3>2 DEF Typed
  <2>. QED
    BY <1>2, <2>1, <2>2
<1>6. RowsOK' /\ chosen' \in [Entries -> MediaLists]
  BY <1>0, <1>2, <1>3, <1>5, RowsAfterReplace
<1>7. LocksOK' /\ \A v \in Workers : RequestOK(v)'
  BY <1>0, <1>2, <1>3, <1>5, OthersAfterReplace
<1>8. upload' \in [Uploads -> UploadRows]
  BY <1>0, <1>2, <1>3, RowsReplaced
<1>9. request' \in [Workers -> Requests]
  BY <1>1, <1>2, NoRequestType, BecomesType
<1>10. Typed'
  BY <1>1, <1>2, <1>5, <1>6, <1>8, <1>9, Released DEF Typed
<1>. QED
  BY <1>6, <1>7, <1>10 DEF Kept

LEMMA CommitDeleteKeeps ==
    ASSUME IInv, NEW w \in Workers, CommitDelete(w)
    PROVE  Kept
<1>0. PICK r \in Requests : r = request[w]
  BY DEF IInv, Typed
<1>1. Typed /\ RequestOK(w)
  BY DEF IInv
<1>2. /\ r.at = "media" /\ r.kind = "delete" /\ r.toLock = {} /\ upload' = Replaced(r)
      /\ chosen' = [chosen EXCEPT ![r.on] = <<>>] /\ Becomes(w, NoRequest) /\ Release(w)
      /\ UNCHANGED <<object, said, notices>>
      /\ entry' = [entry EXCEPT ![r.on].is = "deleted", ![r.on].comments = 0]
  BY <1>0 DEF CommitDelete
<1>3. ChangesMedia(r) /\ r.on \in Entries /\ r.media = <<>> /\ InList(r.media) \subseteq r.usable
  BY <1>0, <1>1, <1>2, EmptyList DEF ChangesMedia, RequestOK, Sensible
<1>4. /\ entry' \in [Entries -> EntryRows] /\ entry'[r.on].comments = 0
      /\ \A e \in Entries : e # r.on => entry'[e] = entry[e]
  <2>1. entry' = [entry EXCEPT ![r.on] = [entry[r.on] EXCEPT !.is = "deleted", !.comments = 0]]
    BY <1>2
  <2>2. [entry[r.on] EXCEPT !.is = "deleted", !.comments = 0] \in EntryRows
        /\ [entry[r.on] EXCEPT !.is = "deleted", !.comments = 0].comments = 0
    BY <1>1, <1>3 DEF Typed, EntryRows
  <2>. QED
    BY <1>1, <1>3, <2>1, <2>2 DEF Typed
<1>5. RowsOK' /\ chosen' \in [Entries -> MediaLists]
  BY <1>0, <1>2, <1>3, <1>4, RowsAfterReplace
<1>6. LocksOK' /\ \A v \in Workers : RequestOK(v)'
  BY <1>0, <1>2, <1>3, <1>4, OthersAfterReplace
<1>7. upload' \in [Uploads -> UploadRows]
  BY <1>0, <1>2, <1>3, RowsReplaced
<1>8. request' \in [Workers -> Requests]
  BY <1>1, <1>2, NoRequestType, BecomesType
<1>9. Typed'
  BY <1>1, <1>2, <1>4, <1>5, <1>7, <1>8, Released DEF Typed
<1>. QED
  BY <1>5, <1>6, <1>9 DEF Kept

LEMMA CommitCommentKeeps ==
    ASSUME IInv, NEW w \in Workers, CommitComment(w)
    PROVE  Kept
<1>0. PICK r \in Requests : r = request[w]
  BY DEF IInv, Typed
<1>. DEFINE n == [r EXCEPT !.at = "notify"]
<1>1. Typed /\ RowsOK /\ LocksOK /\ \A v \in Workers : RequestOK(v)
  BY DEF IInv
<1>2. /\ r.at = "media" /\ r.kind = "comment"
      /\ entry' = [entry EXCEPT ![r.on].comments = @ + 1] /\ said' = said \cup {<<r.by, r.on>>}
      /\ Becomes(w, n) /\ Release(w) /\ UNCHANGED <<upload, object, chosen, notices>>
  BY <1>0 DEF CommitComment
<1>3. r.on \in Entries /\ r.by \in Participants /\ entry[r.on].is = "live" /\ entryLock[r.on] = w
      /\ r.media \in Sent[r.by] /\ r.media = <<>>
  BY <1>0, <1>1, <1>2 DEF RequestOK, Sensible, EntryHeld
<1>4. n \in Requests /\ n.at = "notify" /\ n.kind = "comment" /\ n.by = r.by /\ n.on = r.on
      /\ n.media = r.media
  BY <1>2 DEF Requests
<1>. HIDE DEF n
<1>5. request' \in [Workers -> Requests] /\ request'[w] = n
  BY <1>1, <1>2, <1>4, BecomesType
<1>6. /\ entry' \in [Entries -> EntryRows] /\ entry'[r.on].is = "live"
      /\ \A e \in Entries : e # r.on => entry'[e] = entry[e]
  <2>1. entry' = [entry EXCEPT ![r.on] = [entry[r.on] EXCEPT !.comments = entry[r.on].comments + 1]]
    BY <1>1, <1>2, <1>3 DEF Typed
  <2>2. [entry[r.on] EXCEPT !.comments = entry[r.on].comments + 1] \in EntryRows
        /\ [entry[r.on] EXCEPT !.comments = entry[r.on].comments + 1].is = "live"
    <3>1. entry[r.on] \in EntryRows
      BY <1>1, <1>3 DEF Typed
    <3>. QED
      BY <1>3, <3>1 DEF EntryRows
  <2>. QED
    BY <1>1, <1>3, <2>1, <2>2 DEF Typed
<1>7. Typed'
  BY <1>1, <1>2, <1>5, <1>6, Released DEF Typed
<1>8. RowsOK'
  <2>1. \A e \in Entries : entry'[e].is # "live" => entry'[e] = entry[e]
    BY <1>6
  <2>2. \A e \in Entries : entry'[e].is = "live" => entry[e].is = "live"
    BY <1>3, <1>6
  <2>3. EntryShowsLastChoice' /\ UsableAreStored'
    BY <1>1, <1>2 DEF RowsOK, EntryShowsLastChoice, UsableAreStored, AttachedTo
  <2>4. NothingOutlivesItsEntry'
    BY <1>1, <1>2, <2>1 DEF RowsOK, NothingOutlivesItsEntry, AttachedTo
  <2>5. ListsWereSent'
    BY <1>1, <1>2, <2>2 DEF RowsOK, ListsWereSent
  <2>6. NoticesTellTheTruth'
    BY <1>1, <1>2 DEF RowsOK, NoticesTellTheTruth
  <2>. QED
    BY <2>3, <2>4, <2>5, <2>6 DEF RowsOK
<1>9. LocksOK' /\ \A v \in Workers : v # w => RequestOK(v)'
  <2>1. \A e \in Entries : entryLock[e] \notin {w, None} =>
            entry'[e].is = entry[e].is /\ AttachedTo(e)' \subseteq AttachedTo(e)
    BY <1>2, <1>3, <1>6 DEF AttachedTo
  <2>. QED
    BY <1>1, <1>2, <1>4, <2>1, EndOfTransaction
<1>10. RequestOK(w)'
  BY <1>2, <1>3, <1>4, <1>5
  DEF RequestOK, Sensible, EntryHeld, UploadsHeld, NoneMissed, Staged
<1>. QED
  BY <1>7, <1>8, <1>9, <1>10 DEF Kept

-----------------------------------------------------------------------------
(* What happens to uploads elsewhere                                       *)

\* An upload changes that no entry shows, before or after, and that no request
\* has found fit.
LEMMA UploadMoves ==
    ASSUME IInv, NEW u \in Uploads, NEW s \in {"ready", "deleting", "gone"},
           upload' = [upload EXCEPT ![u].status = s], upload[u].status # "attached",
           object' \subseteq Uploads, \A x \in Uploads : x # u /\ x \in object => x \in object',
           s = "ready" => u \in object',
           upload[u].status = "ready" => uploadLock[u] = None,
           UNCHANGED <<entry, chosen, said, locks, request, notices>>
    PROVE  IInv'
<1>1. Typed /\ RowsOK /\ LocksOK /\ \A v \in Workers : RequestOK(v)
  BY DEF IInv
<1>2. /\ upload' \in [Uploads -> UploadRows] /\ upload'[u].status = s
      /\ \A x \in Uploads : x # u => upload'[x] = upload[x]
  <2>1. upload' = [upload EXCEPT ![u] = [upload[u] EXCEPT !.status = s]]
    OBVIOUS
  <2>2. upload[u] \in UploadRows
    BY <1>1 DEF Typed
  <2>3. [upload[u] EXCEPT !.status = s] \in UploadRows
        /\ [upload[u] EXCEPT !.status = s].status = s
    BY <2>2 DEF UploadRows
  <2>. QED
    BY <1>1, <2>1, <2>3 DEF Typed
<1>3. Typed' /\ LocksOK'
  BY <1>1, <1>2 DEF Typed, LocksOK, locks
<1>4. \A e \in Entries : /\ AttachedTo(e)' = AttachedTo(e)
                         /\ u \notin AttachedTo(e)
  BY <1>2 DEF AttachedTo
<1>5. EntryShowsLastChoice'
  <2>1. ASSUME NEW e \in Entries, NEW i \in 1 .. Len(chosen[e])
        PROVE  upload'[chosen[e][i]].position = i - 1
    <3>1. chosen[e][i] \in AttachedTo(e) /\ upload[chosen[e][i]].position = i - 1
      BY <1>1 DEF RowsOK, EntryShowsLastChoice, InList
    <3>2. chosen[e][i] \in Uploads /\ chosen[e][i] # u
      BY <1>4, <3>1 DEF AttachedTo
    <3>. QED
      BY <1>2, <3>1, <3>2
  <2>. QED
    BY <1>1, <1>4, <2>1 DEF RowsOK, EntryShowsLastChoice
<1>6. UsableAreStored'
  BY <1>1, <1>2 DEF RowsOK, UsableAreStored
<1>7. NothingOutlivesItsEntry'
  BY <1>1, <1>4 DEF RowsOK, NothingOutlivesItsEntry
<1>8. ListsWereSent' /\ NoticesTellTheTruth'
  BY <1>1 DEF RowsOK, ListsWereSent, NoticesTellTheTruth
<1>9. ASSUME NEW v \in Workers
      PROVE  RequestOK(v)'
  <2>1. ASSUME NEW x \in request[v].usable \cup request[v].old, uploadLock[x] = v
        PROVE  x \in Uploads /\ x # u
    <3>1. x \in Uploads /\ v # None
      BY <1>1, DiariesAssumption DEF Typed, Requests
    <3>2. request[v].at = "media"
      BY <1>1, <2>1, <3>1 DEF LocksOK
    <3>3. FitFor(request[v], x) \/ x \in AttachedTo(request[v].on)
      BY <1>1, <3>2 DEF RequestOK, UploadsHeld
    <3>4. upload[x].status = "ready" \/ upload[x].status = "attached"
      BY <3>3 DEF FitFor, AttachedTo
    <3>. QED
      BY <2>1, <3>1, <3>4
  <2>2. \A x \in request[v].usable \cup request[v].old :
            uploadLock[x] = v => uploadLock'[x] = v /\ upload'[x] = upload[x]
    BY <1>2, <2>1 DEF locks
  <2>. QED
    BY <1>1, <1>4, <2>2, OthersUndisturbed DEF locks
<1>. QED
  BY <1>3, <1>5, <1>6, <1>7, <1>8, <1>9 DEF IInv, RowsOK

LEMMA UploadStepKeeps ==
    ASSUME IInv, UploadStep
    PROVE  IInv'
<1>0. Typed /\ RowsOK
  BY DEF IInv
<1>1. PICK u \in Uploads : Accept(u) \/ Lose(u) \/ DeleteObject(u) \/ DeleteRow(u)
  BY DEF UploadStep
<1>2. CASE Accept(u)
  BY <1>0, <1>2, UploadMoves DEF Accept, Typed
<1>3. CASE Lose(u)
  BY <1>0, <1>3, UploadMoves DEF Lose, Typed
<1>4. CASE DeleteObject(u)
  <2>1. Typed' /\ object' = object \ {u} /\ upload' = upload
    BY <1>0, <1>4 DEF DeleteObject, Typed, locks
  <2>2. UsableAreStored'
    BY <1>0, <1>4, <2>1 DEF DeleteObject, RowsOK, UsableAreStored
  <2>3. RowsOK'
    BY <1>0, <1>4, <2>1, <2>2
    DEF DeleteObject, RowsOK, EntryShowsLastChoice, NothingOutlivesItsEntry, ListsWereSent,
        NoticesTellTheTruth, AttachedTo
  <2>4. LocksOK' /\ \A v \in Workers : RequestOK(v)'
    BY <1>4
    DEF DeleteObject, IInv, LocksOK, locks, RequestOK, Sensible, EntryHeld, UploadsHeld,
        NoneMissed, Staged, FitFor, AttachedTo, ChangesMedia
  <2>. QED
    BY <2>1, <2>3, <2>4 DEF IInv
<1>5. CASE DeleteRow(u)
  BY <1>0, <1>5, UploadMoves DEF DeleteRow, Typed
<1>. QED
  BY <1>1, <1>2, <1>3, <1>4, <1>5

-----------------------------------------------------------------------------
(* The invariant                                                           *)

\* It holds at the start: nothing is written and nothing is asked for.
LEMMA InvariantInit == Init => IInv
<1>1. SUFFICES ASSUME Init PROVE IInv
  OBVIOUS
<1>2. Typed
  BY <1>1, EmptyList, NoRequestType DEF Init, Typed, EntryRows, UploadRows, Blank
<1>3. \A e \in Entries : AttachedTo(e) = {}
  BY <1>1 DEF Init, AttachedTo, Blank
<1>4. RowsOK
  <2>1. \A e \in Entries : chosen[e] = <<>> /\ 1 .. Len(chosen[e]) = {}
    BY <1>1 DEF Init
  <2>2. EntryShowsLastChoice
    BY <1>3, <2>1, EmptyList DEF EntryShowsLastChoice
  <2>. QED
    BY <1>1, <1>3, <2>2
    DEF Init, Blank, RowsOK, UsableAreStored, NothingOutlivesItsEntry, ListsWereSent,
        NoticesTellTheTruth
<1>5. LocksOK
  BY <1>1 DEF Init, LocksOK
<1>6. \A w \in Workers : RequestOK(w)
  BY <1>1
  DEF Init, NoRequest, RequestOK, Sensible, EntryHeld, UploadsHeld, NoneMissed, Staged
<1>. QED
  BY <1>2, <1>4, <1>5, <1>6 DEF IInv

\* Every step keeps it.
LEMMA InvariantStep == IInv /\ [Next]_vars => IInv'
<1>1. SUFFICES ASSUME IInv, [Next]_vars PROVE IInv'
  OBVIOUS
<1>2. Kept => IInv'
  BY DEF Kept, IInv
<1>3. ASSUME NEW w \in Workers, Asks(w)
      PROVE  IInv'
  <2>1. PICK p \in Participants, e \in Entries : \E media \in Sent[p] :
            Create(w, p, e, media) \/ \E kind \in Asked[p] : Ask(w, p, e, kind, media)
    BY <1>3 DEF Asks
  <2>2. PICK media \in Sent[p] :
            Create(w, p, e, media) \/ \E kind \in Asked[p] : Ask(w, p, e, kind, media)
    BY <2>1
  <2>. QED
    BY <1>1, <1>2, <2>2, CreateKeeps, AskKeeps
<1>4. ASSUME NEW w \in Workers, Runs(w)
      PROVE  IInv'
  <2>1. CASE LockEntry(w)
    BY <1>1, <1>2, <2>1, LockEntryKeeps
  <2>2. CASE RefuseEntry(w) \/ RefuseMedia(w)
    BY <1>1, <1>2, <2>2, RollBackKeeps DEF RefuseEntry, RefuseMedia
  <2>3. CASE \E u \in Uploads : LockUpload(w, u)
    BY <1>1, <1>2, <2>3, LockUploadKeeps
  <2>4. CASE CommitFiles(w)
    BY <1>1, <1>2, <2>4, CommitFilesKeeps
  <2>5. CASE CommitText(w)
    BY <1>1, <1>2, <2>5, CommitTextKeeps
  <2>6. CASE CommitDelete(w)
    BY <1>1, <1>2, <2>6, CommitDeleteKeeps
  <2>7. CASE CommitComment(w)
    BY <1>1, <1>2, <2>7, CommitCommentKeeps
  <2>8. CASE Notify(w) \/ NotifyFails(w)
    BY <1>1, <1>2, <2>8, NotifyKeeps
  <2>. QED
    BY <1>4, <2>1, <2>2, <2>3, <2>4, <2>5, <2>6, <2>7, <2>8 DEF Runs
<1>5. ASSUME NEW w \in Workers, Crash(w)
      PROVE  IInv'
  BY <1>1, <1>2, <1>5, RollBackKeeps DEF Crash
<1>6. CASE UploadStep
  BY <1>1, <1>6, UploadStepKeeps
<1>7. CASE UNCHANGED vars
  BY <1>1, <1>7
  DEF vars, IInv, Typed, RowsOK, EntryShowsLastChoice, UsableAreStored, NothingOutlivesItsEntry,
      ListsWereSent, NoticesTellTheTruth, AttachedTo, LocksOK, RequestOK, Sensible, EntryHeld,
      UploadsHeld, NoneMissed, Staged, FitFor, ChangesMedia
<1>. QED
  BY <1>1, <1>3, <1>4, <1>5, <1>6, <1>7 DEF Next

\* It holds in every reachable state.
LEMMA Invariance == Spec => []IInv
<1>. QED
  BY InvariantInit, InvariantStep, PTL DEF Spec

-----------------------------------------------------------------------------
(* The properties                                                          *)

(* An entry shows exactly the files of the request that was committed last *)
(* on it, each at its place: requests that overlap are never mixed         *)
(* (replace_diary_entry_media_uploads under the row locks).                *)
THEOREM LastChoiceIsShown == Spec => []EntryShowsLastChoice
<1>1. IInv => EntryShowsLastChoice
  BY DEF IInv, RowsOK
<1>. QED
  BY <1>1, Invariance, PTL

(* The object of a file that an entry shows is in the bucket: a request    *)
(* that is rolled back has deleted nothing                                 *)
(* (_cleanup_retired_media_uploads_after_commit).                          *)
THEOREM FilesAreStored == Spec => []ShownFilesAreStored
<1>1. IInv => ShownFilesAreStored
  BY DEF IInv, RowsOK, UsableAreStored, ShownFilesAreStored
<1>. QED
  BY <1>1, Invariance, PTL

(* Only live entries show files and have comments: what raced with the     *)
(* deletion of an entry was refused, or went with it                       *)
(* (delete_diary_entry, add_diary_entry_comment).                          *)
THEOREM EntriesGoWhole == Spec => []NothingOutlivesItsEntry
<1>1. IInv => NothingOutlivesItsEntry
  BY DEF IInv, RowsOK
<1>. QED
  BY <1>1, Invariance, PTL

(* A push notice of a comment tells of a committed comment, and only the   *)
(* other participant (transaction.on_commit).                              *)
THEOREM NoticesAreTrue == Spec => []NoticesTellTheTruth
<1>1. IInv => NoticesTellTheTruth
  BY DEF IInv, RowsOK
<1>. QED
  BY <1>1, Invariance, PTL

-----------------------------------------------------------------------------
(* Deadlock                                                                *)

\* Among finitely many numbered things one has the highest number.
LEMMA HighestOf ==
    ASSUME NEW M, IsFiniteSet(M), M # {}, NEW f \in [M -> Nat]
    PROVE  \E w \in M : \A v \in M : f[v] <= f[w]
<1>. DEFINE Above(w) == {v \in M : f[v] > f[w]}
            All == {Above(w) : w \in M}
<1>1. All \subseteq FiniteSubsetsOf(M) /\ All # {}
  <2>1. \A w \in M : Above(w) \in SUBSET M
    OBVIOUS
  <2>2. \A T \in SUBSET M : T \in FiniteSubsetsOf(M)
    BY FS_Subset DEF FiniteSubsetsOf
  <2>3. \A T \in All : T \in FiniteSubsetsOf(M)
    BY <2>1, <2>2
  <2>4. PICK w \in M : TRUE
    OBVIOUS
  <2>5. Above(w) \in All
    OBVIOUS
  <2>. QED
    BY <2>3, <2>5
<1>2. PICK T \in All : \A U \in All : ~ (<<U, T>> \in StrictSubsetOrdering(M))
  <2>. HIDE DEF All
  <2>. QED
    BY <1>1, FS_StrictSubsetOrderingWellFounded, WFMin
<1>3. PICK w \in M : T = Above(w)
  BY <1>2
<1>4. SUFFICES ASSUME NEW v \in M, f[v] > f[w] PROVE FALSE
  BY <1>3
<1>5. Above(v) \subseteq Above(w) /\ v \in Above(w) /\ v \notin Above(v)
  <2>1. \A x \in M : f[x] \in Nat
    OBVIOUS
  <2>. QED
    BY <1>4, <2>1
<1>6. <<Above(v), Above(w)>> \in StrictSubsetOrdering(M)
  BY <1>5 DEF StrictSubsetOrdering
<1>. QED
  BY <1>2, <1>3, <1>6

\* A request that is waited for is past its entry's lock, and the uploads it has
\* still to lock are above the one it is waited for.
LEMMA WaitedFor ==
    ASSUME IInv, NEW w \in Workers, NEW v \in Workers, WaitsFor(w, v)
    PROVE  /\ request[v].at = "media"
           /\ request[w].at = "media" =>
                  \E u \in Uploads : NextToLock(request[w], u) /\ \A x \in request[v].toLock : u < x
<1>1. LocksOK /\ Sensible(w) /\ v # None
  BY DiariesAssumption DEF IInv, RequestOK
<1>2. CASE request[w].at = "entry" /\ entryLock[request[w].on] = v
  BY <1>1, <1>2 DEF Sensible, LocksOK
<1>3. CASE /\ request[w].at = "media"
           /\ \E u \in Uploads : NextToLock(request[w], u) /\ uploadLock[u] = v
  BY <1>1, <1>3 DEF LocksOK
<1>. QED
  BY <1>2, <1>3 DEF WaitsFor

(* Requests never wait for each other in a circle, however many there are  *)
(* and whichever lists they name: the entry is locked before the uploads,  *)
(* and the uploads by primary key (order_by("pk") in                       *)
(* replace_diary_entry_media_uploads).                                     *)
THEOREM NoDeadlock == Spec => []NoCircle
<1>1. ASSUME IInv
      PROVE  NoCircle
  <2>1. SUFFICES ASSUME NEW S \in SUBSET Workers, S # {},
                        \A w \in S : \E v \in S : WaitsFor(w, v)
                 PROVE  FALSE
    BY DEF NoCircle
  <2>. DEFINE M == {w \in S : request[w].at = "media"}
              need == [w \in M |-> CHOOSE u \in Uploads : NextToLock(request[w], u)]
  <2>2. IsFiniteSet(M) /\ M # {}
    <3>1. PICK w \in S, v \in S : WaitsFor(w, v)
      BY <2>1
    <3>2. v \in M
      BY <1>1, <3>1, WaitedFor
    <3>. QED
      BY <3>2, DiariesAssumption, FS_Subset
  <2>3. ASSUME NEW w \in M
        PROVE  \E v \in M : /\ need[w] \in Uploads /\ NextToLock(request[w], need[w])
                            /\ \A x \in request[v].toLock : need[w] < x
    <3>1. PICK v \in S : WaitsFor(w, v)
      BY <2>1
    <3>2. PICK u \in Uploads : NextToLock(request[w], u) /\ \A x \in request[v].toLock : u < x
      BY <1>1, <3>1, WaitedFor
    <3>3. v \in M
      BY <1>1, <3>1, WaitedFor
    <3>4. need[w] \in Uploads /\ NextToLock(request[w], need[w])
      BY <3>2
    <3>5. need[w] = u
      <4>. HIDE DEF need
      <4>1. need[w] <= u /\ u <= need[w]
        BY <3>2, <3>4 DEF NextToLock
      <4>2. need[w] \in Nat /\ u \in Nat
        BY <3>4, DiariesAssumption
      <4>. QED
        BY <4>1, <4>2
    <3>. QED
      BY <3>2, <3>3, <3>4, <3>5
  <2>4. need \in [M -> Nat]
    <3>1. \A w \in M : need[w] \in Nat
      <4>. HIDE DEF need
      <4>. QED
        BY <2>3, DiariesAssumption
    <3>. QED
      BY <3>1
  <2>. HIDE DEF M, need
  <2>5. PICK w \in M : \A v \in M : need[v] <= need[w]
    BY <2>2, <2>4, HighestOf
  <2>6. PICK v \in M : \A x \in request[v].toLock : need[w] < x
    BY <2>3
  <2>7. need[v] \in request[v].toLock
    BY <2>3 DEF NextToLock
  <2>. QED
    BY <2>4, <2>5, <2>6, <2>7
<1>. QED
  BY <1>1, Invariance, PTL

-----------------------------------------------------------------------------
(* The diary book                                                          *)

\* The pages of the book, and the files spent, as the rows show them.
Pages == [e \in Entries |-> IF entry[e].is = "live" THEN chosen[e] ELSE None]
Spent == {u \in Uploads : upload[u].status \in {"deleting", "gone"}}

\* Uploads in the order of their places.
InPlaces(S) == [i \in 1 .. Cardinality(S) |-> CHOOSE u \in S : upload[u].position = i - 1]

\* A list is what is in it, place by place.
LEMMA ListByPlaces ==
    ASSUME NEW m \in MediaLists, NEW S, S = InList(m),
           \A i \in 1 .. Len(m) : upload[m[i]].position = i - 1
    PROVE  InPlaces(S) = m
<1>1. m \in Seq(Uploads) /\ Len(m) \in Nat /\ InList(m) = {m[i] : i \in 1 .. Len(m)}
  BY ListType DEF InList
<1>2. Cardinality(S) = Len(m)
  <2>1. IsFiniteSet(1 .. Len(m)) /\ Cardinality(1 .. Len(m)) = Len(m)
    <3>1. \A n \in Nat : IsFiniteSet(1 .. n) /\ Cardinality(1 .. n) = n
      <4>1. SUFFICES ASSUME NEW n \in Nat PROVE IsFiniteSet(1 .. n) /\ Cardinality(1 .. n) = n
        OBVIOUS
      <4>2. IsFiniteSet(1 .. n) /\ Cardinality(1 .. n) = IF 1 > n THEN 0 ELSE n - 1 + 1
        BY FS_Interval
      <4>. QED
        BY <4>2
    <3>. QED
      BY <1>1, <3>1
  <2>. DEFINE f == [i \in 1 .. Len(m) |-> m[i]]
  <2>2. f \in Bijection(1 .. Len(m), InList(m))
    BY <1>1 DEF Bijection, Injection, Surjection, IsInjective, MediaLists
  <2>3. ExistsBijection(1 .. Len(m), InList(m))
    BY <2>2 DEF ExistsBijection
  <2>. QED
    BY <2>1, <2>3, FS_Bijection
<1>3. ASSUME NEW i \in 1 .. Len(m)
      PROVE  (CHOOSE u \in S : upload[u].position = i - 1) = m[i]
  <2>1. \A u \in S : upload[u].position = i - 1 => u = m[i]
    <3>1. SUFFICES ASSUME NEW j \in 1 .. Len(m), upload[m[j]].position = i - 1 PROVE m[j] = m[i]
      BY <1>1
    <3>2. j - 1 = i - 1
      BY <3>1
    <3>. QED
      BY <1>1, <3>2
  <2>2. m[i] \in S /\ upload[m[i]].position = i - 1
    BY <1>1
  <2>. QED
    BY <2>1, <2>2
<1>4. m = [i \in 1 .. Len(m) |-> m[i]]
  BY <1>1
<1>. QED
  BY <1>2, <1>3, <1>4 DEF InPlaces

\* The pages, as the refinement reads them off the upload rows.
PagesRead == [e \in Entries |->
                 IF entry[e].is # "live" THEN None
                 ELSE InPlaces(AttachedTo(e))]
ShownOn(e) == IF PagesRead[e] = None THEN {} ELSE InList(PagesRead[e])

\* They are the lists last committed.
LEMMA PagesAreRead == IInv => PagesRead = Pages
<1>1. SUFFICES ASSUME IInv, NEW e \in Entries, entry[e].is = "live"
               PROVE  InPlaces(AttachedTo(e)) = chosen[e]
  BY DEF Pages, PagesRead
<1>2. /\ chosen[e] \in MediaLists /\ AttachedTo(e) = InList(chosen[e])
      /\ \A i \in 1 .. Len(chosen[e]) : upload[chosen[e][i]].position = i - 1
  BY <1>1 DEF IInv, Typed, RowsOK, EntryShowsLastChoice
<1>. QED
  BY <1>2, ListByPlaces

\* What a page shows is attached to its entry.
LEMMA ShownIsAttached ==
    ASSUME IInv, NEW e \in Entries
    PROVE  AttachedTo(e) = IF Pages[e] = None THEN {} ELSE InList(Pages[e])
<1>1. RowsOK
  BY DEF IInv
<1>2. CASE entry[e].is = "live"
  <2>1. chosen[e] # None
    BY <1>1, <1>2, DiariesAssumption DEF RowsOK, ListsWereSent
  <2>. QED
    BY <1>1, <1>2, <2>1 DEF Pages, RowsOK, EntryShowsLastChoice
<1>3. CASE entry[e].is # "live"
  BY <1>1, <1>3 DEF Pages, RowsOK, NothingOutlivesItsEntry
<1>. QED
  BY <1>2, <1>3

\* A step of the book, in terms of the rows.
BookStep ==
    \/ \E e \in Entries, choice \in UNION {Sent[p] : p \in Participants} :
           /\ \A f \in InList(choice) \ AttachedTo(e) :
                  f \notin Spent /\ \A x \in Entries : f \notin AttachedTo(x)
           /\ Pages' = [Pages EXCEPT ![e] = choice]
           /\ Spent' = Spent \cup (AttachedTo(e) \ InList(choice))
    \/ \E e \in Entries :
           /\ Pages[e] # None
           /\ Pages' = [Pages EXCEPT ![e] = None]
           /\ Spent' = Spent \cup AttachedTo(e)
    \/ \E u \in Uploads :
           /\ \A e \in Entries : u \notin AttachedTo(e)
           /\ Spent' = Spent \cup {u}
           /\ Pages' = Pages
    \/ UNCHANGED <<Pages, Spent>>

\* What a commit does to pages and files spent.
LEMMA CommitOnBook ==
    ASSUME IInv, NEW w \in Workers, NEW r \in Requests, r = request[w], r.at = "media",
           ChangesMedia(r), r.toLock = {}, InList(r.media) \subseteq r.usable,
           upload' = Replaced(r)
    PROVE  /\ \A f \in InList(r.media) \ AttachedTo(r.on) :
                  f \notin Spent /\ \A x \in Entries : f \notin AttachedTo(x)
           /\ Spent' = Spent \cup (AttachedTo(r.on) \ InList(r.media))
<1>1. /\ Retired(r) = AttachedTo(r.on) \ InList(r.media)
      /\ \A u \in r.usable \cup r.old : u \in Uploads
  BY KnowsItsEntry
<1>2. /\ upload \in [Uploads -> UploadRows]
      /\ \A f \in r.usable : upload[f].status = "ready" \/ f \in AttachedTo(r.on)
  BY DEF IInv, Typed, RequestOK, UploadsHeld, FitFor
<1>3. \A f \in InList(r.media) : f \in Uploads /\ f \notin Spent
  BY <1>1, <1>2 DEF Spent, AttachedTo
<1>4. ASSUME NEW u \in Uploads
      PROVE  u \in Spent' <=> u \in Spent \/ u \in Retired(r)
  <2>1. CASE u \in InList(r.media)
    BY <1>1, <1>3, <2>1 DEF Replaced, Spent
  <2>2. CASE u \in Retired(r)
    <3>1. upload'[u] = [upload[u] EXCEPT !.status = "deleting", !.entry = None]
          /\ upload[u] \in UploadRows
      BY <1>1, <1>2, <2>2 DEF Replaced
    <3>2. upload'[u].status = "deleting"
      BY <3>1 DEF UploadRows
    <3>. QED
      BY <2>2, <3>2 DEF Spent
  <2>3. CASE u \notin InList(r.media) /\ u \notin Retired(r)
    BY <2>3 DEF Replaced, Spent
  <2>. QED
    BY <2>1, <2>2, <2>3
<1>5. Spent' \subseteq Uploads /\ Spent \subseteq Uploads /\ Retired(r) \subseteq Uploads
  BY <1>1 DEF Spent, AttachedTo
<1>. QED
  BY <1>1, <1>2, <1>3, <1>4, <1>5 DEF AttachedTo

\* Every step is a step of the book, or leaves it alone.
LEMMA StepsOfTheBook ==
    ASSUME IInv, [Next]_vars
    PROVE  BookStep
<1>1. Typed /\ RowsOK /\ \A v \in Workers : RequestOK(v)
  BY DEF IInv
<1>2. ASSUME NEW w \in Workers, CommitFiles(w)
      PROVE  BookStep
  <2>0. PICK r \in Requests : r = request[w]
    BY <1>1 DEF Typed
  <2>1. /\ r.at = "media" /\ ChangesMedia(r) /\ r.toLock = {} /\ InList(r.media) \subseteq r.usable
        /\ upload' = Replaced(r) /\ chosen' = [chosen EXCEPT ![r.on] = r.media]
    BY <1>2, <2>0 DEF CommitFiles, ChangesMedia
  <2>2. r.on \in Entries /\ r.by \in Participants /\ r.media \in Sent[r.by]
        /\ entry[r.on].is = IF r.kind = "create" THEN "unwritten" ELSE "live"
    BY <1>1, <2>0, <2>1 DEF RequestOK, Sensible, EntryHeld
  <2>3. entry'[r.on].is = "live" /\ \A e \in Entries : e # r.on => entry'[e] = entry[e]
    <3>1. entry' = IF r.kind = "edit" THEN entry
                   ELSE [entry EXCEPT ![r.on] = [entry[r.on] EXCEPT !.is = "live",
                                                                    !.author = r.by]]
      BY <1>2, <2>0 DEF CommitFiles
    <3>2. [entry[r.on] EXCEPT !.is = "live", !.author = r.by].is = "live"
      BY <1>1, <2>2 DEF Typed, EntryRows
    <3>3. r.kind = "edit" => entry[r.on].is = "live"
      BY <2>2
    <3>. QED
      BY <1>1, <2>2, <3>1, <3>2, <3>3 DEF Typed
  <2>4. Pages' = [Pages EXCEPT ![r.on] = r.media]
    BY <1>1, <2>1, <2>2, <2>3 DEF Pages, Typed
  <2>5. /\ \A f \in InList(r.media) \ AttachedTo(r.on) :
               f \notin Spent /\ \A x \in Entries : f \notin AttachedTo(x)
        /\ Spent' = Spent \cup (AttachedTo(r.on) \ InList(r.media))
    BY <2>0, <2>1, CommitOnBook
  <2>6. r.media \in UNION {Sent[p] : p \in Participants}
    BY <2>2
  <2>. QED
    BY <2>2, <2>4, <2>5, <2>6 DEF BookStep
<1>3. ASSUME NEW w \in Workers, CommitDelete(w)
      PROVE  BookStep
  <2>0. PICK r \in Requests : r = request[w]
    BY <1>1 DEF Typed
  <2>1. /\ r.at = "media" /\ ChangesMedia(r) /\ r.toLock = {} /\ r.kind = "delete"
        /\ upload' = Replaced(r) /\ chosen' = [chosen EXCEPT ![r.on] = <<>>]
    BY <1>3, <2>0 DEF CommitDelete, ChangesMedia
  <2>2. /\ r.on \in Entries /\ r.by \in Participants /\ r.media \in Sent[r.by] /\ r.media = <<>>
        /\ entry[r.on].is = "live"
    BY <1>1, <2>0, <2>1 DEF RequestOK, Sensible, EntryHeld
  <2>3. entry'[r.on].is = "deleted" /\ \A e \in Entries : e # r.on => entry'[e] = entry[e]
    <3>1. entry' = [entry EXCEPT ![r.on] = [entry[r.on] EXCEPT !.is = "deleted", !.comments = 0]]
      BY <1>3, <2>0 DEF CommitDelete
    <3>2. [entry[r.on] EXCEPT !.is = "deleted", !.comments = 0].is = "deleted"
      BY <1>1, <2>2 DEF Typed, EntryRows
    <3>. QED
      BY <1>1, <2>2, <3>1, <3>2 DEF Typed
  <2>4. Pages' = [Pages EXCEPT ![r.on] = None]
    BY <1>1, <2>1, <2>2, <2>3 DEF Pages, Typed
  <2>5. Pages[r.on] # None
    BY <1>1, <2>2, DiariesAssumption DEF RowsOK, ListsWereSent, Pages
  <2>6. Spent' = Spent \cup (AttachedTo(r.on) \ InList(r.media))
    BY <2>0, <2>1, <2>2, EmptyList, CommitOnBook
  <2>. QED
    BY <2>2, <2>4, <2>5, <2>6, EmptyList DEF BookStep
<1>4. ASSUME NEW u \in Uploads, NEW s \in {"ready", "deleting", "gone"},
             upload' = [upload EXCEPT ![u].status = s], UNCHANGED <<entry, chosen>>,
             \/ upload[u].status = "absent" /\ s = "ready"
             \/ upload[u].status = "ready" /\ s = "deleting"
             \/ upload[u].status = "deleting" /\ s = "gone"
      PROVE  BookStep
  <2>1. Pages' = Pages
    BY <1>4 DEF Pages
  <2>2. upload'[u].status = s /\ \A x \in Uploads : x # u => upload'[x] = upload[x]
    <3>1. upload' = [upload EXCEPT ![u] = [upload[u] EXCEPT !.status = s]]
      BY <1>4
    <3>2. [upload[u] EXCEPT !.status = s].status = s
      BY <1>1 DEF Typed, UploadRows
    <3>. QED
      BY <1>1, <3>1, <3>2 DEF Typed
  <2>3. CASE s = "ready"
    BY <1>4, <2>1, <2>2, <2>3 DEF Spent, BookStep
  <2>4. CASE s = "deleting"
    <3>1. Spent' = Spent \cup {u} /\ \A e \in Entries : u \notin AttachedTo(e)
      BY <1>4, <2>2, <2>4 DEF Spent, AttachedTo
    <3>. QED
      BY <2>1, <3>1 DEF BookStep
  <2>5. CASE s = "gone"
    BY <1>4, <2>1, <2>2, <2>5 DEF Spent, BookStep
  <2>. QED
    BY <2>3, <2>4, <2>5
<1>5. CASE UploadStep
  <2>1. PICK u \in Uploads : Accept(u) \/ Lose(u) \/ DeleteObject(u) \/ DeleteRow(u)
    BY <1>5 DEF UploadStep
  <2>2. CASE Accept(u)
    BY <1>4, <2>2 DEF Accept
  <2>3. CASE Lose(u)
    BY <1>4, <2>3 DEF Lose
  <2>4. CASE DeleteObject(u)
    BY <2>4 DEF DeleteObject, BookStep, Pages, Spent
  <2>5. CASE DeleteRow(u)
    BY <1>4, <2>5 DEF DeleteRow
  <2>. QED
    BY <2>1, <2>2, <2>3, <2>4, <2>5
<1>6. ASSUME NEW w \in Workers, CommitComment(w)
      PROVE  BookStep
  <2>1. PICK e \in Entries : entry' = [entry EXCEPT ![e] = [entry[e] EXCEPT
                                                               !.comments = entry[e].comments + 1]]
    BY <1>1, <1>6 DEF CommitComment, RequestOK, Sensible, Typed
  <2>2. [entry[e] EXCEPT !.comments = entry[e].comments + 1].is = entry[e].is
    BY <1>1 DEF Typed, EntryRows
  <2>3. \A x \in Entries : entry'[x].is = entry[x].is
    BY <1>1, <2>1, <2>2 DEF Typed
  <2>4. UNCHANGED <<upload, chosen>>
    BY <1>6 DEF CommitComment
  <2>. QED
    BY <2>3, <2>4 DEF Pages, Spent, BookStep
<1>7. UNCHANGED <<entry, upload, chosen>> => BookStep
  BY DEF Pages, Spent, BookStep
<1>8. ASSUME NEW w \in Workers, Asks(w)
      PROVE  BookStep
  BY <1>7, <1>8 DEF Asks, Create, Ask, rows
<1>9. ASSUME NEW w \in Workers, Runs(w) \/ Crash(w)
      PROVE  BookStep
  <2>1. CASE RollBack(w) \/ LockEntry(w) \/ CommitText(w) \/ Notify(w) \/ NotifyFails(w)
             \/ \E u \in Uploads : LockUpload(w, u)
    BY <1>7, <2>1 DEF RollBack, LockEntry, CommitText, Notify, NotifyFails, LockUpload, rows
  <2>. QED
    BY <1>2, <1>3, <1>6, <1>9, <2>1 DEF Runs, Crash, RefuseEntry, RefuseMedia
<1>. QED
  BY <1>5, <1>7, <1>8, <1>9 DEF Next, vars

(* Requests, locks and failures implement the diary book: a file goes from *)
(* its upload to one entry, and from there nowhere else                    *)
(* (replace_diary_entry_media_uploads, delete_diary_entry).                *)
THEOREM BookIsKept == Spec => BookKept
<1>1. Init => Book!Init
  <2>1. SUFFICES ASSUME Init PROVE Book!Init
    OBVIOUS
  <2>2. Spent = {}
    BY <2>1 DEF Init, Blank, Spent
  <2>3. \A e \in Entries : entry[e].is # "live"
    BY <2>1 DEF Init
  <2>. QED
    BY <2>2, <2>3 DEF Book!Init, Spent
<1>. DEFINE Inv == IInv /\ PagesRead = Pages
<1>2. Inv /\ Inv' /\ BookStep => [Book!Next]_<<PagesRead, Spent>>
  <2>1. SUFFICES ASSUME IInv, BookStep, PagesRead = Pages, PagesRead' = Pages'
                 PROVE  Book!Next \/ UNCHANGED <<PagesRead, Spent>>
    OBVIOUS
  <2>2. \A e \in Entries : AttachedTo(e) = ShownOn(e)
    BY <2>1, ShownIsAttached DEF ShownOn
  <2>3. ASSUME NEW e \in Entries, NEW choice \in UNION {Sent[p] : p \in Participants},
               \A f \in InList(choice) \ ShownOn(e) :
                   f \notin Spent /\ \A x \in Entries : f \notin ShownOn(x),
               PagesRead' = [PagesRead EXCEPT ![e] = choice],
               Spent' = Spent \cup (ShownOn(e) \ InList(choice))
        PROVE  Book!Show(e, choice)
    BY <2>3
    DEF Book!Show, Book!Fresh, Book!Shown, Book!InList, InList, ShownOn, PagesRead, InPlaces, Spent
  <2>4. ASSUME NEW e \in Entries, PagesRead[e] # None,
               PagesRead' = [PagesRead EXCEPT ![e] = None], Spent' = Spent \cup ShownOn(e)
        PROVE  Book!TearOut(e)
    BY <2>4 DEF Book!TearOut, Book!Shown, Book!InList, InList, ShownOn, PagesRead, InPlaces, Spent
  <2>5. ASSUME NEW u \in Uploads, \A e \in Entries : u \notin ShownOn(e),
               Spent' = Spent \cup {u}, PagesRead' = PagesRead
        PROVE  Book!Lose(u)
    BY <2>5 DEF Book!Lose, Book!Shown, Book!InList, InList, ShownOn, PagesRead, InPlaces, Spent
  <2>. QED
    BY <2>1, <2>2, <2>3, <2>4, <2>5 DEF BookStep, Book!Next
<1>3. IInv => Inv
  BY PagesAreRead
<1>4. IInv /\ [Next]_vars => BookStep
  BY StepsOfTheBook
<1>5. Inv /\ Inv' /\ [Next]_vars =>
          [Book!Next]_<<[e \in Entries |->
              IF entry[e].is # "live" THEN None
              ELSE [i \in 1 .. Cardinality(AttachedTo(e)) |->
                       CHOOSE u \in AttachedTo(e) : upload[u].position = i - 1]],
              {u \in Uploads : upload[u].status \in {"deleting", "gone"}}>>
  BY <1>2, <1>4 DEF PagesRead, InPlaces, Spent
<1>. HIDE DEF Inv
<1>. QED
  BY <1>1, <1>3, <1>5, Invariance, PTL DEF Spec, BookKept, Book!Spec
=============================================================================
