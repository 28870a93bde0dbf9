------------------------------ MODULE Diaries -------------------------------
(***************************************************************************)
(* The shared diary: entries with their files, and comments on them, as    *)
(* the web workers run them against one database (services/                *)
(* diary_entries.py, services/diary_entry_comments.py and                  *)
(* replace_diary_entry_media_uploads).                                     *)
(*                                                                         *)
(* A request is one transaction: it waits for the row lock of its entry,   *)
(* then for the row locks of the uploads it names and of those the entry   *)
(* shows, one after the other by primary key, and what it wrote is seen by *)
(* others at its commit.  After the commit it deletes the objects of the   *)
(* files it took down, as far as the storage lets it.                      *)
(***************************************************************************)
EXTENDS Integers, Sequences, FiniteSets

CONSTANTS
    Participants, \* the two participants
    Partner,      \* the other participant of each
    Workers,      \* web workers
    Entries,      \* primary keys of entries
    Uploads,      \* the uploads made for the diary, numbered by primary key
    Uploader,     \* who initiates each upload
    Kind,         \* "image" or "video"
    None,         \* no participant, no worker, no entry
    MaxImages,    \* MAX_DIARY_ENTRY_IMAGE_ATTACHMENTS
    MaxVideos,    \* MAX_DIARY_ENTRY_VIDEO_ATTACHMENTS
    Sent,         \* bound of the model: the lists of uploads that each one's requests name
    Asked,        \* bound of the model: the kinds of requests that each one makes
    MaxComments   \* bound of the model on the comments of each entry

\* Lists of uploads without repetition, which _normalize_upload_ids refuses.
MediaLists == {m \in Seq(Uploads) : \A i, j \in 1 .. Len(m) : m[i] = m[j] => i = j}

ASSUME DiariesAssumption ==
    /\ Partner \in [Participants -> Participants]
    /\ \A p \in Participants : Partner[p] # p
    /\ None \notin Participants \cup Workers \cup Entries
    /\ IsFiniteSet(Workers)
    /\ Uploads \subseteq Nat
    /\ Uploader \in [Uploads -> Participants]
    /\ Kind \in [Uploads -> {"image", "video"}]
    /\ MaxImages \in Nat /\ MaxVideos \in Nat /\ MaxComments \in Nat
    /\ Sent \in [Participants -> SUBSET MediaLists]
    /\ None \notin UNION {Sent[p] : p \in Participants}
    /\ Asked \in [Participants -> SUBSET {"create", "edit", "text", "delete", "comment"}]

VARIABLES
    entry,      \* the committed DiaryEntry rows and their comments
    upload,     \* the MediaAttachment rows
    object,     \* the uploads whose accepted object is in the bucket
    entryLock,  \* who holds the row lock of each entry
    uploadLock, \* who holds the row lock of each upload
    request,    \* the request each worker is in
    notices,    \* the push notices sent
    chosen,     \* history: the list each entry was last committed with
    said        \* history: who committed a comment on which entry

vars == <<entry, upload, object, entryLock, uploadLock, request, notices, chosen, said>>
rows  == <<entry, upload, object, chosen, said>>
locks == <<entryLock, uploadLock>>

-----------------------------------------------------------------------------
InList(m) == {m[i] : i \in 1 .. Len(m)}
PlaceIn(m, u) == CHOOSE n \in 0 .. Len(m) - 1 : m[n + 1] = u

\* "kind" is which service runs: "edit" is an update with a list of uploads,
\* "text" one without.  "usable" are the uploads of the list that the locking
\* query read as fit for it, "old" those it read as shown by the entry.
NoRequest == [at |-> "idle", kind |-> "text", by |-> None, on |-> None, media |-> <<>>,
              toLock |-> {}, usable |-> {}, old |-> {}]

Blank == [status |-> "absent", entry |-> None, position |-> 0]

Init ==
    /\ entry = [e \in Entries |-> [is |-> "unwritten", author |-> None, comments |-> 0]]
    /\ upload = [u \in Uploads |-> Blank]
    /\ object = {}
    /\ entryLock = [e \in Entries |-> None]
    /\ uploadLock = [u \in Uploads |-> None]
    /\ request = [w \in Workers |-> NoRequest]
    /\ notices = {}
    /\ chosen = [e \in Entries |-> <<>>]
    /\ said = {}

-----------------------------------------------------------------------------
(* Helpers                                                                 *)

Becomes(w, r) == request' = [request EXCEPT ![w] = r]

\* The end of a transaction, committed or not, gives its locks back.
FreedBy(w, lock) == [x \in DOMAIN lock |-> IF lock[x] = w THEN None ELSE lock[x]]
Release(w) ==
    /\ entryLock' = FreedBy(w, entryLock)
    /\ uploadLock' = FreedBy(w, uploadLock)

AttachedTo(e) == {u \in Uploads : upload[u].status = "attached" /\ upload[u].entry = e}

\* The locking query of replace_diary_entry_media_uploads: the uploads named and
\* those the entry shows.
Selected(r, u) ==
    \/ u \in InList(r.media) /\ upload[u].status \notin {"absent", "gone"}
    \/ u \in AttachedTo(r.on)

\* An update without a list and a comment leave the uploads alone.
ChangesMedia(r) == r.kind \in {"create", "edit", "delete"}
WithMedia(r) ==
    [r EXCEPT !.at = "media",
              !.toLock = IF ChangesMedia(r) THEN {u \in Uploads : Selected(r, u)} ELSE {}]

\* The uploads the entry no longer shows once the request is committed.
Retired(r) == IF ChangesMedia(r) THEN r.old \ InList(r.media) ELSE {}

\* Mutant: the objects of the files taken down are deleted in the transaction,
\* which is then rolled back.
RollBackCleaned(w) ==
    /\ Becomes(w, NoRequest)
    /\ Release(w)
    /\ object' = object \ Retired(request[w])
    /\ UNCHANGED <<entry, upload, chosen, said, notices>>

\* Everything the transaction wrote is undone.
RollBack(w) ==
    /\ Becomes(w, NoRequest)
    /\ Release(w)
    /\ UNCHANGED <<rows, notices>>

-----------------------------------------------------------------------------
(* The requests.  The views look the entry up first and answer 404 when    *)
(* there is none.                                                          *)

Taken(e) == \E w \in Workers : request[w].kind = "create" /\ request[w].on = e

\* create_diary_entry inserts its row first, which nobody else can see or lock.
Create(w, p, e, media) ==
    /\ request[w].at = "idle"
    /\ entry[e].is = "unwritten" /\ ~Taken(e)
    /\ Becomes(w, WithMedia([NoRequest EXCEPT !.kind = "create", !.by = p, !.on = e,
                                              !.media = media]))
    /\ entryLock' = [entryLock EXCEPT ![e] = w]
    /\ UNCHANGED <<rows, uploadLock, notices>>

\* update_diary_entry with or without a list of uploads, delete_diary_entry, or
\* add_diary_entry_comment, up to the row lock of the entry.
Ask(w, p, e, kind, media) ==
    /\ request[w].at = "idle"
    /\ entry[e].is = "live"
    /\ kind \in {"edit", "text", "delete", "comment"}
    /\ kind # "edit" => media = <<>>
    /\ kind = "comment" => entry[e].comments < MaxComments
    /\ Becomes(w, [NoRequest EXCEPT !.at = "entry", !.kind = kind, !.by = p, !.on = e,
                                    !.media = media])
    /\ UNCHANGED <<rows, locks, notices>>

MayChange(r) == r.kind = "comment" \/ entry[r.on].author = r.by

\* Mutant: get() instead of select_for_update().get().
LockEntryUnlocked(w) ==
    /\ request[w].at = "entry"
    /\ entry[request[w].on].is = "live" /\ MayChange(request[w])
    /\ Becomes(w, WithMedia(request[w]))
    /\ UNCHANGED <<rows, locks, notices>>

LockEntry(w) ==
    LET r == request[w]
    IN  /\ r.at = "entry"
        /\ entryLock[r.on] = None
        /\ entry[r.on].is = "live" /\ MayChange(r)
        /\ entryLock' = [entryLock EXCEPT ![r.on] = w]
        /\ Becomes(w, WithMedia(r))
        /\ UNCHANGED <<rows, uploadLock, notices>>

\* The entry was deleted while its lock was waited for, or is someone else's.
RefuseEntry(w) ==
    LET r == request[w]
    IN  /\ r.at = "entry"
        /\ entryLock[r.on] = None
        /\ ~(entry[r.on].is = "live" /\ MayChange(r))
        /\ RollBack(w)

-----------------------------------------------------------------------------
(* replace_diary_entry_media_uploads                                       *)

\* Mutant: no order_by("pk"), so that rows are locked in the order of the list.
NextOfList(r, u) ==
    /\ u \in r.toLock
    /\ \A v \in r.toLock \cap InList(r.media) :
           u \in InList(r.media) /\ PlaceIn(r.media, u) <= PlaceIn(r.media, v)

NextToLock(r, u) == u \in r.toLock /\ \A v \in r.toLock : u <= v

\* _validate_diary_attachment_group, the part about one upload
FitFor(r, u) ==
    /\ Uploader[u] = r.by
    /\ upload[u].status = "ready" \/ u \in AttachedTo(r.on)

\* What the query makes of u; a row that no longer matches is passed over.
AfterReading(r, u) ==
    [r EXCEPT !.toLock = @ \ {u},
              !.usable = IF u \in InList(r.media) /\ FitFor(r, u) THEN @ \cup {u} ELSE @,
              !.old = IF u \in AttachedTo(r.on) THEN @ \cup {u} ELSE @]

\* Mutant: filter() instead of select_for_update().filter().
LockUploadUnlocked(w, u) ==
    /\ request[w].at = "media"
    /\ NextToLock(request[w], u)
    /\ Becomes(w, AfterReading(request[w], u))
    /\ UNCHANGED <<rows, locks, notices>>

LockUpload(w, u) ==
    LET r == request[w]
    IN  /\ r.at = "media"
        /\ NextToLock(r, u)
        /\ uploadLock[u] = None
        /\ uploadLock' = IF Selected(r, u) THEN [uploadLock EXCEPT ![u] = w] ELSE uploadLock
        /\ Becomes(w, AfterReading(r, u))
        /\ UNCHANGED <<rows, entryLock, notices>>

\* _validate_diary_attachment_group, the part about the group
Allowed(media) ==
    \/ media = <<>>
    \/ (\A u \in InList(media) : Kind[u] = "image") /\ Len(media) <= MaxImages
    \/ (\A u \in InList(media) : Kind[u] = "video") /\ Len(media) <= MaxVideos

\* Some upload does not fit, or its 24 hours ended while others were waited for.
RefuseMedia(w) ==
    /\ request[w].at = "media"
    /\ request[w].toLock = {}
    /\ request[w].media # <<>>
    /\ RollBack(w)

-----------------------------------------------------------------------------
(* The commits                                                             *)

\* The files taken down become deletable, those named are shown in their places.
Replaced(r) ==
    [u \in Uploads |->
        IF u \in InList(r.media)
          THEN [status |-> "attached", entry |-> r.on, position |-> PlaceIn(r.media, u)]
        ELSE IF u \in Retired(r)
          THEN [upload[u] EXCEPT !.status = "deleting", !.entry = None]
        ELSE upload[u]]

\* create_diary_entry, or update_diary_entry with a list; the storage is asked to
\* delete the files taken down only now (DeleteObject).
CommitFiles(w) ==
    LET r == request[w]
    IN  /\ r.at = "media" /\ r.kind \in {"create", "edit"}
        /\ r.toLock = {} /\ r.usable = InList(r.media) /\ Allowed(r.media)
        /\ entry' = IF r.kind = "edit" THEN entry
                    ELSE [entry EXCEPT ![r.on].is = "live", ![r.on].author = r.by]
        /\ upload' = Replaced(r)
        /\ chosen' = [chosen EXCEPT ![r.on] = r.media]
        /\ Becomes(w, NoRequest)
        /\ Release(w)
        /\ UNCHANGED <<object, said, notices>>

\* update_diary_entry without a list
CommitText(w) ==
    /\ request[w].at = "media" /\ request[w].kind = "text"
    /\ Becomes(w, NoRequest)
    /\ Release(w)
    /\ UNCHANGED <<rows, notices>>

\* delete_diary_entry: the comments go with their entry.
CommitDelete(w) ==
    LET r == request[w]
    IN  /\ r.at = "media" /\ r.kind = "delete"
        /\ r.toLock = {}
        /\ entry' = [entry EXCEPT ![r.on].is = "deleted", ![r.on].comments = 0]
        /\ upload' = Replaced(r)
        /\ chosen' = [chosen EXCEPT ![r.on] = <<>>]
        /\ Becomes(w, NoRequest)
        /\ Release(w)
        /\ UNCHANGED <<object, said, notices>>

\* add_diary_entry_comment
CommitComment(w) ==
    LET r == request[w]
    IN  /\ r.at = "media" /\ r.kind = "comment"
        /\ entry' = [entry EXCEPT ![r.on].comments = @ + 1]
        /\ said' = said \cup {<<r.by, r.on>>}
        /\ Becomes(w, [r EXCEPT !.at = "notify"])
        /\ Release(w)
        /\ UNCHANGED <<upload, object, chosen, notices>>

\* Mutant: the notice is sent in the transaction, not on_commit.
NotifyInTransaction(w) ==
    /\ request[w].at \in {"media", "notify"} /\ request[w].kind = "comment"
    /\ notices' = notices \cup {[to |-> Partner[request[w].by], on |-> request[w].on]}
    /\ UNCHANGED <<rows, locks, request>>

\* The notice of a comment leaves after its commit, or fails and is logged.
Notify(w) ==
    /\ request[w].at = "notify"
    /\ notices' = notices \cup {[to |-> Partner[request[w].by], on |-> request[w].on]}
    /\ Becomes(w, NoRequest)
    /\ UNCHANGED <<rows, locks>>

NotifyFails(w) ==
    /\ request[w].at = "notify"
    /\ Becomes(w, NoRequest)
    /\ UNCHANGED <<rows, locks, notices>>

\* The worker is killed, or a statement fails.
Crash(w) == request[w].at # "idle" /\ RollBack(w)

-----------------------------------------------------------------------------
(* What happens to uploads elsewhere                                       *)

\* An upload was initiated for the diary and accepted.
Accept(u) ==
    /\ upload[u].status = "absent"
    /\ upload' = [upload EXCEPT ![u].status = "ready"]
    /\ object' = object \cup {u}
    /\ UNCHANGED <<entry, chosen, said, locks, request, notices>>

\* It expired, or it was discarded: both take its row lock.
Lose(u) ==
    /\ upload[u].status = "ready"
    /\ uploadLock[u] = None
    /\ upload' = [upload EXCEPT ![u].status = "deleting"]
    /\ UNCHANGED <<entry, object, chosen, said, locks, request, notices>>

\* cleanup_expired_media_uploads, right after the commit that took the file down
\* or in a later clean-up; the row goes after the object.
DeleteObject(u) ==
    /\ upload[u].status = "deleting"
    /\ uploadLock[u] = None
    /\ u \in object
    /\ object' = object \ {u}
    /\ UNCHANGED <<entry, upload, chosen, said, locks, request, notices>>

DeleteRow(u) ==
    /\ upload[u].status = "deleting"
    /\ uploadLock[u] = None
    /\ u \notin object
    /\ upload' = [upload EXCEPT ![u].status = "gone"]
    /\ UNCHANGED <<entry, object, chosen, said, locks, request, notices>>

-----------------------------------------------------------------------------
Asks(w) ==
    \E p \in Participants, e \in Entries : \E media \in Sent[p] :
        \/ "create" \in Asked[p] /\ Create(w, p, e, media)
        \/ \E kind \in Asked[p] : Ask(w, p, e, kind, media)

Runs(w) ==
    \/ LockEntry(w)
    \/ RefuseEntry(w)
    \/ \E u \in Uploads : LockUpload(w, u)
    \/ RefuseMedia(w)
    \/ CommitFiles(w)
    \/ CommitText(w)
    \/ CommitDelete(w)
    \/ CommitComment(w)
    \/ Notify(w)
    \/ NotifyFails(w)

UploadStep == \E u \in Uploads : Accept(u) \/ Lose(u) \/ DeleteObject(u) \/ DeleteRow(u)

Next == (\E w \in Workers : Asks(w) \/ Runs(w) \/ Crash(w)) \/ UploadStep

Spec == Init /\ [][Next]_vars

-----------------------------------------------------------------------------
(* Properties                                                              *)

(* An entry shows exactly the files of the request that was committed last *)
(* on it, each at its place, and never a mixture of two requests that      *)
(* overlapped (the row locks of entry and uploads).                        *)
EntryShowsLastChoice ==
    \A e \in Entries :
        /\ AttachedTo(e) = InList(chosen[e])
        /\ \A i \in 1 .. Len(chosen[e]) : upload[chosen[e][i]].position = i - 1

(* The object of a file that an entry shows is in the bucket: a request    *)
(* that is rolled back has deleted nothing                                 *)
(* (_cleanup_retired_media_uploads_after_commit runs on_commit).           *)
ShownFilesAreStored ==
    \A u \in Uploads : upload[u].status = "attached" => u \in object

(* Only live entries show files and have comments: what raced with the     *)
(* deletion of its entry was refused or went with it.                      *)
NothingOutlivesItsEntry ==
    \A e \in Entries : entry[e].is # "live" => AttachedTo(e) = {} /\ entry[e].comments = 0

(* A push notice of a comment goes to the other participant, and only for  *)
(* a comment that was committed (transaction.on_commit).                   *)
NoticesTellTheTruth ==
    \A m \in notices : \E p \in Participants : <<p, m.on>> \in said /\ m.to = Partner[p]

WaitsFor(w, v) ==
    \/ request[w].at = "entry" /\ entryLock[request[w].on] = v
    \/ /\ request[w].at = "media"
       /\ \E u \in Uploads : NextToLock(request[w], u) /\ uploadLock[u] = v

(* Requests never wait for each other in a circle, whichever lists of      *)
(* uploads they name in whichever order (order_by("pk") in the locking     *)
(* query, the entry before the uploads).                                   *)
NoCircle ==
    \A S \in (SUBSET Workers) \ {{}} : \E w \in S : \A v \in S : ~WaitsFor(w, v)

Book == INSTANCE DiaryBook WITH
    Pages   <- Entries,
    Files   <- Uploads,
    Choices <- UNION {Sent[p] : p \in Participants},
    NoPage  <- None,
    page    <- [e \in Entries |->
                   IF entry[e].is # "live" THEN None
                   ELSE [i \in 1 .. Cardinality(AttachedTo(e)) |->
                            CHOOSE u \in AttachedTo(e) : upload[u].position = i - 1]],
    spent   <- {u \in Uploads : upload[u].status \in {"deleting", "gone"}}

(* Requests, locks and failures implement the diary book: files go from    *)
(* their upload to one entry, and from there nowhere else.                 *)
BookKept == Book!Spec
=============================================================================
