------------------------------ MODULE DiaryPage -----------------------------
(***************************************************************************)
(* One visit of a diary page (static/ratings/diary.js) and the requests it *)
(* makes: its list is read statement by statement, its form and its cards  *)
(* post, edit and delete, and everything may be on its way at once.        *)
(*                                                                         *)
(* A load is a GET of this page of the list; only the load begun last is   *)
(* drawn.  Loads begun by a push message or by coming back to the page are *)
(* protected: they leave a list with an open editor or a running request   *)
(* alone.  Drawing makes new cards: what the old ones were doing goes on   *)
(* without them.  Elsewhere, another page and the other participant write, *)
(* edit and delete too.                                                    *)
(***************************************************************************)
EXTENDS ApiAnswers, FiniteSets

CONSTANTS
    Entries,      \* entries by age: larger ones are newer
    Mine,         \* those that this participant writes
    PageNumbers,  \* the pages that may be visited
    PageSize,     \* DIARY_ENTRY_PAGE_SIZE
    MaxLoads,     \* bound of the model on the loads
    MaxRequests,  \* bound of the model on the requests of form and cards
    MaxVersion,   \* bound of the model on the versions of an entry
    MaxElsewhere  \* bound of the model on what others write while a page is visited

ASSUME DiaryPageAssumption ==
    /\ Entries \subseteq Nat \ {0} /\ IsFiniteSet(Entries) /\ Mine \subseteq Entries
    /\ PageNumbers \subseteq Nat \ {0} /\ PageSize \in Nat \ {0}
    /\ MaxLoads \in Nat \ {0} /\ MaxRequests \in Nat /\ MaxVersion \in Nat \ {0}
    /\ MaxElsewhere \in [PageNumbers -> Nat]

VARIABLES
    db,         \* the version of each entry's text and files; Unwritten, Deleted
    pageNumber, \* the page that is visited
    open,       \* FALSE once the page was left
    load,       \* the loads of the page
    sequence,   \* root.dataset.loadSequence: the load begun last
    shown,      \* the entries that have a card
    editing,    \* those whose editor is open
    spent,      \* those whose card says they are, or may be, deleted
    request,    \* the requests of form and cards
    elsewhere,  \* how many commands other pages may still give
    said        \* history: what the page has said is saved, or deleted, of each entry

vars == <<db, pageNumber, open, load, sequence, shown, editing, spent, request, elsewhere, said>>
cards == <<shown, editing, spent>>
page  == <<pageNumber, open, sequence, cards, said>>

-----------------------------------------------------------------------------
Loads    == 1 .. MaxLoads
Requests == 1 .. MaxRequests
Form     == 0  \* in place of an entry: the request is of the form

Unwritten == 0
Deleted   == -1
Live(e)   == db[e] > 0

\* Text and files as read; a load forgets them when it is settled.
Unread == [e \in {} |-> 0]
NoLoad == [at |-> "none", protected |-> FALSE, counted |-> 0, text |-> Unread, files |-> Unread]
In(at, protected) == [NoLoad EXCEPT !.at = at, !.protected = protected]

\* "server" is how far the view is, "did" whether it wrote or deleted an entry,
\* "version" what it answers with; "listed" whether the card that sent it is still in the list;
\* "page" is what the page waits for, "awaits" the load it begins in the end.
NoRequest == [kind |-> "none", on |-> Form, server |-> "over", did |-> FALSE, version |-> 0,
              listed |-> FALSE, page |-> "over", awaits |-> 0, result |-> "none"]

Init ==
    /\ \E newest \in Entries \cup {0} :  \* the newest entry, if there is one
           db = [e \in Entries |-> IF e <= newest THEN 1 ELSE Unwritten]
    /\ pageNumber \in PageNumbers
    /\ open = TRUE
    /\ load = [i \in Loads |-> IF i = 1 THEN In("count", FALSE) ELSE NoLoad]
    /\ sequence = 1
    /\ shown = {} /\ editing = {} /\ spent = {}
    /\ request = [m \in Requests |-> NoRequest]
    /\ elsewhere = MaxElsewhere[pageNumber]
    /\ said = [e \in Entries |-> Unwritten]

-----------------------------------------------------------------------------
(* GET of the list: DiaryEntryListView.get, one statement after the other  *)

Rank(e)  == Cardinality({d \in Entries : Live(d) /\ d >= e})
LiveRows == {e \in Entries : Live(e)}
First    == (pageNumber - 1) * PageSize + 1

\* paginator.count
CountRows(i) ==
    /\ load[i].at = "count"
    /\ pageNumber = 1 \/ First <= Cardinality(LiveRows)
    /\ load' = [load EXCEPT ![i].at = "slice", ![i].counted = Cardinality(LiveRows)]
    /\ UNCHANGED <<db, page, request>>

\* EmptyPage: a 404, for which the page offers the first page
MissPage(i) ==
    /\ load[i].at = "count"
    /\ pageNumber > 1 /\ First > Cardinality(LiveRows)
    /\ load' = [load EXCEPT ![i] = IF i = sequence THEN In("missing", FALSE) ELSE NoLoad]
    /\ UNCHANGED <<db, page, request>>

\* The slice ends where the count said that the list ends, so that an entry
\* written since pushes the oldest one off the last page.
Slice(counted) ==
    {e \in LiveRows : Rank(e) \in First .. First + PageSize - 1 /\ Rank(e) <= counted}

ReadSlice(i) ==
    /\ load[i].at = "slice"
    /\ load' = [load EXCEPT ![i].at = "files", ![i].counted = 0,
                            ![i].text = [e \in Slice(load[i].counted) |-> db[e]]]
    /\ UNCHANGED <<db, page, request>>

\* _diary_attachment_prefetch; what was deleted since has no files.
ReadFiles(i) ==
    /\ load[i].at = "files"
    /\ load' = [load EXCEPT ![i].at = "answered",
                            ![i].files = [e \in DOMAIN load[i].text |-> db[e]]]
    /\ UNCHANGED <<db, page, request>>

\* The request fails, on the way or in the view.  What the view has read by then
\* nobody sees, so it may as well have read nothing; and the failure of a load
\* that another has superseded shows no more than its answer would.
FailLoad(i) ==
    /\ load[i].at = "count" /\ i = sequence
    /\ load' = [load EXCEPT ![i] = In("failed", @.protected)]
    /\ UNCHANGED <<db, page, request>>

\* The session is over: redirectWhenAuthenticationExpired.
ExpireLoad(i) ==
    /\ load[i].at = "count" /\ i = sequence
    /\ open' = FALSE
    /\ UNCHANGED <<db, load, pageNumber, sequence, cards, request, said>>

-----------------------------------------------------------------------------
(* loadDiaryPage                                                           *)

InFlight(i) == load[i].at \in {"count", "slice", "files", "answered"}

\* The page waits for the answer of a request, or for the load after it.
Waits(m) ==
    \/ request[m].page = "waits"
    \/ request[m].page = "loads" /\ InFlight(request[m].awaits)

\* isMutating and hasActiveDiaryItem, of the cards in the list
Mutating(e) == \E m \in Requests : request[m].on = e /\ request[m].listed /\ Waits(m)
HasActiveItem == \E e \in shown : e \in editing \/ Mutating(e)

\* The message of a load that failed makes room for the next.
Begin(protected) ==
    /\ sequence < MaxLoads
    /\ sequence' = sequence + 1
    /\ load' = [load EXCEPT ![sequence] = IF InFlight(sequence) THEN @ ELSE NoLoad,
                            ![sequence + 1] = In("count", protected)]

\* refreshPageSafely: a push message arrives, or the page is looked at again.
Refresh ==
    /\ ~HasActiveItem
    /\ Begin(TRUE)
    /\ UNCHANGED <<db, pageNumber, open, cards, request, said>>

\* The button of renderDiaryLoadError, in place until another load begins
Retry ==
    /\ load[sequence].at = "failed"
    /\ Begin(load[sequence].protected)
    /\ UNCHANGED <<db, pageNumber, open, cards, request, said>>

\* Mutant: an answer is drawn whatever was begun since.
AnyLoad(i) == TRUE
IsNewest(i) == i = sequence

\* Mutant: open editors are looked for when the load begins, not when it ends.
AnyList(i) == TRUE
MayDraw(i) == load[i].protected => ~HasActiveItem

\* renderDiaryPage: every card is new.
Draw(i) ==
    /\ load[i].at = "answered"
    /\ IsNewest(i) /\ MayDraw(i)
    /\ shown' = DOMAIN load[i].text
    /\ editing' = {} /\ spent' = {}
    /\ load' = [load EXCEPT ![i] = NoLoad]
    /\ request' = [m \in Requests |-> [request[m] EXCEPT !.listed = FALSE]]
    /\ UNCHANGED <<db, pageNumber, open, sequence, said>>

Drop(i) ==
    /\ load[i].at = "answered"
    /\ ~(IsNewest(i) /\ MayDraw(i))
    /\ load' = [load EXCEPT ![i] = NoLoad]
    /\ UNCHANGED <<db, page, request>>

-----------------------------------------------------------------------------
(* The form and the cards                                                  *)

InDoubt == \E m \in Requests : request[m].kind = "create" /\ request[m].result = "unknown"

Send(m, kind, e) ==
    /\ request[m] = NoRequest /\ \A n \in 1 .. m - 1 : request[n] # NoRequest
    /\ request' = [request EXCEPT ![m] = [NoRequest EXCEPT
           !.kind = kind, !.on = e, !.listed = (e # Form),
           !.server = "running", !.page = "waits"]]
    /\ UNCHANGED <<db, load, page>>

\* The submit handler; isCreating lasts until the load after the POST, and
\* creationRequiresRefresh for good.
SubmitCreate(m) ==
    /\ ~\E n \in Requests : request[n].kind = "create" /\ Waits(n)
    /\ ~InDoubt
    /\ Send(m, "create", Form)

HasButtons(e) == e \in (shown \cap Mine) \ (editing \cup spent) /\ ~Mutating(e)

OpenEditor(e) ==
    /\ HasButtons(e)
    /\ editing' = editing \cup {e}
    /\ UNCHANGED <<db, load, pageNumber, open, sequence, shown, spent, request, said>>

Cancel(e) ==
    /\ e \in editing /\ ~Mutating(e)
    /\ editing' = editing \ {e}
    /\ UNCHANGED <<db, load, pageNumber, open, sequence, shown, spent, request, said>>

Save(m, e) == e \in editing /\ ~Mutating(e) /\ Send(m, "edit", e)

Remove(m, e) == HasButtons(e) /\ Send(m, "delete", e)

-----------------------------------------------------------------------------
(* The views                                                               *)

\* What the view may raise before its commit; edits and deletions look the entry
\* up, and only an edit or a new entry has a body.
Problems(kind) ==
    (IF kind = "delete" THEN Bodiless ELSE WithBody) \cup {"NotFound", "Error"}

\* Which problem it was, the page hears.  An answer that the page no longer waits
\* for changes nothing, and is not made.
Refuse(m) ==
    /\ request[m].server = "running" /\ request[m].page = "waits"
    /\ request' = [request EXCEPT ![m].server = "refused"]
    /\ UNCHANGED <<db, load, page>>

\* create_diary_entry: keys follow the order of the inserts, which need not be
\* that of the commits.
CommitCreate(m, e) ==
    /\ request[m].server = "running" /\ request[m].kind = "create"
    /\ e \in Mine /\ db[e] = Unwritten
    /\ db' = [db EXCEPT ![e] = 1]
    /\ request' = [request EXCEPT ![m].server = "committed", ![m].did = TRUE, ![m].version = e]
    /\ UNCHANGED <<load, page>>

\* update_diary_entry
CommitEdit(m) ==
    LET e == request[m].on
    IN  /\ request[m].server = "running" /\ request[m].kind = "edit"
        /\ Live(e) /\ db[e] < MaxVersion
        /\ db' = [db EXCEPT ![e] = @ + 1]
        /\ request' = [request EXCEPT ![m].server = "committed"]
        /\ UNCHANGED <<load, page>>

\* delete_diary_entry
CommitDelete(m) ==
    LET e == request[m].on
    IN  /\ request[m].server = "running" /\ request[m].kind = "delete"
        /\ Live(e)
        /\ db' = [db EXCEPT ![e] = Deleted]
        /\ request' = [request EXCEPT ![m].server = "committed", ![m].did = TRUE]
        /\ UNCHANGED <<load, page>>

\* An edit reads the entry again for its answer, after the commit; deleted since,
\* it is not found.
Reply(m) ==
    LET r == request[m]
    IN  /\ r.server = "committed" /\ r.page = "waits"
        /\ request' = [request EXCEPT
               ![m].server  = IF r.kind = "edit" /\ ~Live(r.on) THEN "refused" ELSE "answered",
               ![m].version = IF r.kind = "edit" /\ Live(r.on) THEN db[r.on] ELSE @]
        /\ UNCHANGED <<db, load, page>>

\* The answer cannot be made.
Break(m) ==
    /\ request[m].server = "committed" /\ request[m].page = "waits"
    /\ request' = [request EXCEPT ![m].server = "broken"]
    /\ UNCHANGED <<db, load, page>>

-----------------------------------------------------------------------------
(* What the page makes of an answer                                        *)

\* The answer that arrives, or none of the view's: the connection breaks or a
\* proxy gives up, wherever the view is.
Answers(r) ==
    (CASE r.server = "refused"  -> {AnswerTo(p) : p \in Problems(r.kind)}
       [] r.server = "answered" -> {Success(IF r.kind = "create" THEN 201 ELSE 200)}
       [] r.server = "broken"   -> {AnswerTo("Error")}
       [] OTHER                 -> {})
    \cup {NetworkError, ProxyError}

Hears(m, a) == request[m].page = "waits" /\ a \in Answers(request[m])

\* Mutant: every answer with a code counts as a refusal.
AnyCodeIsDefinite(kind, a) == a.code = ""

\* diaryMutationRequiresRefresh and diaryDeleteRequiresRefresh
RequiresRefresh(kind, a) ==
    IF kind = "create" /\ a = AnswerTo("MediaUploadServiceUnavailable") THEN FALSE
    ELSE \/ a.code = "" \/ a.status >= 500
         \/ kind = "create" /\ a.code = "CSRF_FAILED"

Refused(a) == a.code \notin {"SUCCESS", "AUTHENTICATION_REQUIRED"}

\* The request is over for the page, at once or after the load that it begins;
\* its view may still be running.
Heard(r, page_, awaits, result) ==
    [r EXCEPT !.page = page_, !.awaits = awaits, !.result = result, !.version = 0,
              !.server = IF @ = "running" THEN @ ELSE "over"]
Ended(m, result) ==
    [request EXCEPT ![m] = [Heard(request[m], "over", 0, result) EXCEPT
        !.listed = FALSE,
        !.on     = IF request[m].server = "running" THEN request[m].on ELSE Form]]
Reloads(m, result) == [request EXCEPT ![m] = Heard(@, "loads", sequence + 1, result)]

Leave ==
    /\ open' = FALSE
    /\ UNCHANGED <<db, load, pageNumber, sequence, cards>>

\* The card that sent the request, if it is still in the list
OfCard(m) == IF request[m].listed THEN {request[m].on} ELSE {}

\* New entries come first, so a page further back is left for the first one.
HearCreated(m) ==
    /\ request[m].kind = "create" /\ Hears(m, Success(201))
    /\ said' = [said EXCEPT ![request[m].version] = IF @ = Unwritten THEN 1 ELSE @]
    /\ IF pageNumber > 1
         THEN request' = Ended(m, "saved") /\ Leave
         ELSE /\ request' = Reloads(m, "saved")
              /\ Begin(FALSE)
              /\ UNCHANGED <<db, pageNumber, open, cards>>

\* renderCard, then onEntryChanged
HearUpdated(m) ==
    /\ request[m].kind = "edit" /\ Hears(m, Success(200))
    /\ said' = [said EXCEPT ![request[m].on] =
                   IF @ # Deleted /\ request[m].version > @ THEN request[m].version ELSE @]
    /\ editing' = editing \ OfCard(m)
    /\ request' = Reloads(m, "saved")
    /\ Begin(FALSE)
    /\ UNCHANGED <<db, pageNumber, open, shown, spent>>

\* renderDeletedCard, then onEntryDeleted
HearDeleted(m) ==
    /\ request[m].kind = "delete" /\ Hears(m, Success(200))
    /\ said' = [said EXCEPT ![request[m].on] = Deleted]
    /\ IF pageNumber > 1 /\ Cardinality(shown) <= 1
         THEN request' = Ended(m, "saved") /\ Leave
         ELSE /\ request' = Reloads(m, "saved")
              /\ spent' = spent \cup OfCard(m)
              /\ Begin(FALSE)
              /\ UNCHANGED <<db, pageNumber, open, shown, editing>>

\* redirectWhenAuthenticationExpired
HearExpired(m) ==
    /\ Hears(m, AnswerTo("NotAuthenticated"))
    /\ request' = Ended(m, "refused")
    /\ Leave
    /\ UNCHANGED said

\* An editor keeps its draft and may be saved again; so does the form, unless
\* its entry may be there; a card keeps its buttons.
HearRefusal(m, a) ==
    /\ Hears(m, a) /\ Refused(a)
    /\ request[m].kind = "edit" \/ ~RequiresRefresh(request[m].kind, a)
    /\ request' = Ended(m, "refused")
    /\ UNCHANGED <<db, load, page>>

HearDoubt(m, a) ==
    /\ Hears(m, a) /\ Refused(a)
    /\ request[m].kind = "create" /\ RequiresRefresh("create", a)
    /\ request' = Ended(m, "unknown")
    /\ UNCHANGED <<db, load, page>>

\* renderDeletionUncertainCard, then the list is read again.
HearDeletionDoubt(m, a) ==
    /\ Hears(m, a) /\ Refused(a)
    /\ request[m].kind = "delete" /\ RequiresRefresh("delete", a)
    /\ request' = Reloads(m, "unknown")
    /\ spent' = spent \cup OfCard(m)
    /\ Begin(FALSE)
    /\ UNCHANGED <<db, pageNumber, open, shown, editing, said>>

-----------------------------------------------------------------------------
(* Other pages, of this and of the other participant                       *)

WriteElsewhere(e) ==
    /\ elsewhere > 0 /\ elsewhere' = elsewhere - 1
    /\ \/ db[e] = Unwritten /\ db' = [db EXCEPT ![e] = 1]
       \/ Live(e) /\ db[e] < MaxVersion /\ db' = [db EXCEPT ![e] = @ + 1]
       \/ Live(e) /\ db' = [db EXCEPT ![e] = Deleted]
    /\ UNCHANGED <<load, page, request>>

-----------------------------------------------------------------------------
Reads(i) ==
    \/ CountRows(i)
    \/ MissPage(i)
    \/ ReadSlice(i)
    \/ ReadFiles(i)
    \/ FailLoad(i)
    \/ ExpireLoad(i)
    \/ Draw(i)
    \/ Drop(i)

Participant ==
    \/ Refresh
    \/ Retry
    \/ \E e \in Entries : OpenEditor(e) \/ Cancel(e)
    \/ \E m \in Requests :
          \/ SubmitCreate(m)
          \/ \E e \in Entries : Save(m, e) \/ Remove(m, e)

Views(m) ==
    \/ Refuse(m)
    \/ \E e \in Entries : CommitCreate(m, e)
    \/ CommitEdit(m)
    \/ CommitDelete(m)
    \/ Reply(m)
    \/ Break(m)

Hearing(m) ==
    \/ HearCreated(m)
    \/ HearUpdated(m)
    \/ HearDeleted(m)
    \/ HearExpired(m)
    \/ \E a \in Answers(request[m]) : HearRefusal(m, a) \/ HearDoubt(m, a) \/ HearDeletionDoubt(m, a)

\* Until the page is left.
Next ==
    /\ open
    /\ \/ /\ \/ \E i \in Loads : Reads(i)
             \/ Participant
             \/ \E m \in Requests : Views(m) \/ Hearing(m)
          /\ UNCHANGED elsewhere
       \/ \E e \in Entries : WriteElsewhere(e)

Spec == Init /\ [][Next]_vars

-----------------------------------------------------------------------------
(* Properties                                                              *)

\* What is drawn is never older than what the page has said is saved, does not
\* bring back an entry it has said is deleted, and shows every text with files
\* of its own version or of a later one, although loads overlap and the list is
\* read in several statements.
SavedStaysShown ==
    [][\A i \in Loads : Draw(i) =>
          \A e \in DOMAIN load[i].text :
              /\ said[e] # Deleted /\ load[i].text[e] >= said[e]
              /\ load[i].files[e] \in {Deleted} \cup {n \in Nat : n >= load[i].text[e]}]_vars

\* An editor disappears only when it is cancelled or saved, or when a change of
\* the participant's own draws the list again; never by a refresh.
DraftsSurviveRefreshes ==
    [][\A e \in editing \ editing' :
          \/ Cancel(e)
          \/ \E m \in Requests : request[m].on = e /\ HearUpdated(m)
          \/ \E i \in Loads : Draw(i) /\ ~load[i].protected]_vars

\* When the page takes an answer for a refusal of a new entry or of a deletion,
\* nothing was done and nothing will be; and at most one entry of the form is
\* there without the page having said so: it cannot be posted twice.
RefusalsAreTrue ==
    /\ \A m \in Requests :
           request[m].kind \in {"create", "delete"} /\ request[m].result = "refused" =>
               request[m].server # "running" /\ ~request[m].did
    /\ Cardinality({m \in Requests : /\ request[m].kind = "create"
                                     /\ request[m].did /\ request[m].result # "saved"}) <= 1
=============================================================================
