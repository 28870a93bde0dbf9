---------------------------- MODULE PushHandoff -----------------------------
(***************************************************************************)
(* From a click on a notice to its conversation: the service worker        *)
(* (src/templates/service-worker.js) keeps one navigation in its cache and *)
(* hands it to a page, which goes there and acknowledges it (app.js).      *)
(* Operations on the cache run one after the other; messages may be        *)
(* dropped; the worker may be stopped at any time and forgets what is not  *)
(* in the cache.  A navigation gives a window a new client id: whoever     *)
(* knew the old one then knows a client that is gone.                      *)
(***************************************************************************)
EXTENDS Naturals, FiniteSets

CONSTANTS
    Clicks,  \* numbers of the clicks, in their order
    Windows, \* a window names the client that is in it now
    Gone,    \* any client that is there no more
    Paths,   \* paths of conversations
    Deaf,    \* windows whose pages neither hear nor send messages
    LoggedOut,   \* whether participants may have to log in
    PostFails,   \* whether messages to pages may be refused
    MaxMessages, \* messages on their way when a page signals by itself
    None         \* no click, no client, no path

ASSUME PushHandoffAssumption ==
    /\ Clicks \subseteq Nat
    /\ Deaf \subseteq Windows
    /\ {LoggedOut, PostFails} \subseteq BOOLEAN
    /\ MaxMessages \in Nat
    /\ None # Gone /\ {None, Gone} \cap (Clicks \cup Windows \cup Paths) = {}

VARIABLES
    stored,    \* the pending navigation in the cache
    selecting, \* pendingPushNavigationSelections
    click,     \* what is done for each click
    releases,  \* <<c, p>>: p is to be cleared as the target of c
    page,      \* the page in each window
    messages,  \* messages on their way
    givenUp    \* clicks whose target was released, orphaned or not stored (history)

vars == <<stored, selecting, click, releases, page, messages, givenUp>>

App       == [kind |-> "app", path |-> None]
Thread(t) == [kind |-> "thread", path |-> t]
Login(t)  == [kind |-> "login", path |-> t]

\* going: where it is about to go; opened: navigatingPushNavigationId.
Opened(place) == [open |-> TRUE, place |-> place, going |-> None, opened |-> None]
NoPage        == [Opened(App) EXCEPT !.open = FALSE]

NoNavigation == [click |-> None, target |-> None, leased |-> FALSE]

\* at: where openConversation or what follows it is; client: the one it chose.
NoClick == [at |-> "none", saved |-> "no", path |-> None, client |-> None,
            excluded |-> {}, retry |-> {}]

Ready(p)       == [kind |-> "ready", client |-> p, click |-> None]
Available(p)   == [kind |-> "available", client |-> p, click |-> None]
Open(p, c)     == [kind |-> "open", client |-> p, click |-> c]
Direct(p, c)   == [kind |-> "direct", client |-> p, click |-> c] \* without the id
Consumed(p, c) == [kind |-> "consumed", client |-> p, click |-> c]

\* Pages that are open before the first click.
Init ==
    /\ stored = NoNavigation
    /\ selecting = {}
    /\ click = [c \in Clicks |-> NoClick]
    /\ releases = {}
    /\ page \in [Windows -> {NoPage, Opened(App)}
                            \cup {Opened(Thread(t)) : t \in Paths}
                            \cup (IF LoggedOut THEN {Opened(Login(None))} ELSE {})]
    /\ messages = {}
    /\ givenUp = {}

OpenPages  == {p \in Windows : page[p].open}
Listens(p) == p \in OpenPages \ Deaf

\* postMessage to a client that is gone or deaf goes nowhere.
Sendable(S) == {m \in S : Listens(m.client)}
Post(S)     == messages' = messages \cup Sendable(S)

Announcements(S) == {Available(p) : p \in S}

\* Where a page arrives that navigates to a conversation: a participant who is
\* not logged in comes to the login page.
Arrivals(t) == {Thread(t)} \cup (IF LoggedOut THEN {Login(t)} ELSE {})

\* Whoever knew the client in a window knows it no more.
Forgets(s, p) == [s EXCEPT !.client = IF @ = p THEN Gone ELSE @,
                           !.excluded = @ \ {p}, !.retry = @ \ {p}]

\* A page is left: what was sent to it is lost, its acknowledgement is not.
Leaves(p) ==
    /\ stored' = [stored EXCEPT !.target = IF @ = p THEN Gone ELSE @]
    /\ releases' = {known \in releases : known[2] # p}
    /\ messages' = {m \in messages : m.client # p}
                   \cup {Consumed(Gone, m.click) :
                            m \in {n \in messages : n.client = p /\ n.kind = "consumed"}}

NavigatesTo(p, place) == Leaves(p) /\ page' = [page EXCEPT ![p] = Opened(place)]

Becomes(c, s) == click' = [click EXCEPT ![c] = s]

\* A client is found: which ones failed before no longer matters.
Found(s, p) == [s EXCEPT !.at = "opened", !.client = p, !.excluded = {}]

\* What the handler of a click leaves behind when it ends.
Over(s) == [NoClick EXCEPT !.at = "over", !.saved = s.saved, !.path = s.path]

-----------------------------------------------------------------------------
(* A click: the navigation is saved while a page is opened for it          *)

Click(c, t) ==
    /\ click[c].at = "none"
    /\ \A d \in Clicks : d < c => click[d].at # "none"
    /\ Becomes(c, [NoClick EXCEPT !.at = "open", !.saved = "waiting", !.path = t])
    /\ selecting' = selecting \cup {c}
    /\ UNCHANGED <<stored, releases, page, messages, givenUp>>

\* Operations on the cache run in the order in which they were asked for.
SavesNow(c) ==
    /\ click[c].saved = "waiting"
    /\ \A d \in Clicks : d < c => click[d].saved # "waiting"

Save(c) ==
    /\ SavesNow(c)
    /\ stored' = [click |-> c, target |-> None, leased |-> FALSE]
    /\ Becomes(c, [click[c] EXCEPT !.saved = "yes"])
    /\ UNCHANGED <<selecting, releases, page, messages, givenUp>>

\* Mutant: the previous record stays when it cannot be replaced.
SaveFailsOnly(c) ==
    /\ SavesNow(c)
    /\ Becomes(c, [click[c] EXCEPT !.saved = "failed"])
    /\ selecting' = selecting \ {c}
    /\ UNCHANGED <<stored, releases, page, messages, givenUp>>

\* The write fails, and the previous record is deleted, unless that fails too.
SaveFails(c) ==
    /\ SavesNow(c)
    /\ \/ stored' = NoNavigation /\ Becomes(c, [click[c] EXCEPT !.saved = "failed"])
       \/ UNCHANGED stored /\ Becomes(c, [click[c] EXCEPT !.saved = "lost"])
    /\ selecting' = selecting \ {c}
    /\ UNCHANGED <<releases, page, messages, givenUp>>

\* openConversation: a page that shows the conversation comes first.
There(c) == {p \in OpenPages : page[p].place = Thread(click[c].path)}

Focus(c) ==
    /\ click[c].at = "open"
    /\ \E p \in There(c) : Becomes(c, Found(click[c], p))
    /\ UNCHANGED <<stored, selecting, releases, page, messages, givenUp>>

\* Windows that could not be focused: the first of them that is there.
Unfocused(c) == IF There(c) = {} THEN {{}} ELSE {{p} : p \in There(c)}

\* Any other page of the app is navigated and then focused.
Navigate(c, p) ==
    LET s == Forgets(click[c], p) IN
    /\ s.at = "open"
    /\ \E failed \in Unfocused(c) :
           /\ p \in OpenPages \ failed
           /\ \E found \in {Found(s, p),
                             [s EXCEPT !.at = "window", !.excluded = failed \cup {p}]} :
                  click' = [d \in Clicks |-> IF d = c THEN found ELSE Forgets(click[d], p)]
    /\ \E place \in Arrivals(s.path) : NavigatesTo(p, place)
    /\ UNCHANGED <<selecting, givenUp>>

\* There is none, or it is gone by now, or navigate() resolves to nothing or is
\* refused.
NavigateFails(c) ==
    LET s == click[c] IN
    /\ s.at = "open"
    /\ \E failed \in Unfocused(c) :
           \/ Becomes(c, [s EXCEPT !.at = "window", !.excluded = failed])
           \/ \E p \in OpenPages \ failed : \E refused \in SUBSET {p} :
                 Becomes(c, [s EXCEPT !.at = "window", !.retry = {p},
                                      !.excluded = failed \cup refused])
    /\ UNCHANGED <<stored, selecting, releases, page, messages, givenUp>>

\* WebKit may open the root of the app instead of the conversation.
OpenWindow(c, p) ==
    LET s == click[c] IN
    /\ s.at = "window"
    /\ p \notin OpenPages
    /\ \E place \in Arrivals(s.path) \cup {App} : page' = [page EXCEPT ![p] = Opened(place)]
    /\ Becomes(c, Found(s, p))
    /\ UNCHANGED <<stored, selecting, releases, messages, givenUp>>

OpenWindowFails(c) ==
    /\ click[c].at = "window"
    /\ Becomes(c, [click[c] EXCEPT !.at = "opened"])
    /\ UNCHANGED <<stored, selecting, releases, page, messages, givenUp>>

\* Without a record, the message goes to the opened page directly.
SendDirectly(c) ==
    LET s == click[c] IN
    /\ s.at = "opened" /\ s.saved \notin {"waiting", "yes"}
    /\ Becomes(c, Over(s))
    /\ IF s.client = None THEN UNCHANGED messages
       ELSE Post({Direct(s.client, c)}) \* refused or lost, it is gone
    /\ UNCHANGED <<stored, selecting, releases, page, givenUp>>

\* findPreferredAppClient: the focused, else a visible, else the only page. There
\* is none when several are hidden, or when they cannot be listed.
Candidates(c) ==
    IF click[c].client = None THEN OpenPages \ click[c].excluded ELSE {click[c].client}

NoTarget(c) ==
    /\ click[c].at = "opened" /\ click[c].saved = "yes"
    /\ click[c].client = None
    /\ Becomes(c, Over(click[c]))
    /\ selecting' = selecting \ {c}
    /\ Post(Announcements(click[c].retry))
    /\ UNCHANGED <<stored, releases, page, givenUp>>

\* targetPendingPushNavigation: another click may have taken the record's place,
\* and the cache may fail.
Target(c) ==
    /\ click[c].at = "opened" /\ click[c].saved = "yes"
    /\ \E t \in Candidates(c) :
           LET at(place) == Becomes(c, [Found(click[c], t) EXCEPT !.at = place]) IN
           \/ /\ stored.click = c
              /\ stored' = [stored EXCEPT !.target = t, !.leased = TRUE]
              /\ at("targeted")
           \/ stored.click # c /\ at("superseded") /\ UNCHANGED stored
           \/ at("unstored") /\ UNCHANGED stored
    /\ UNCHANGED <<selecting, releases, page, messages, givenUp>>

\* The target hears of it; if it cannot be told, others that are known do.
Announce(c) ==
    LET s      == click[c]
        others == Announcements(s.retry \ {s.client}) IN
    /\ s.at \in {"targeted", "unstored", "superseded"}
    /\ selecting' = selecting \ {c}
    /\ \/ /\ s.at # "superseded"
          /\ Post({Available(s.client)})
          /\ Becomes(c, Over(s))
       \/ /\ s.at = "targeted" /\ PostFails
          /\ UNCHANGED messages
          /\ Becomes(c, [s EXCEPT !.at = "releasing"])
       \/ /\ s.at = "superseded" \/ (s.at = "unstored" /\ PostFails)
          /\ Post(others)
          /\ Becomes(c, Over(s))
    /\ UNCHANGED <<stored, releases, page, givenUp>>

\* clearPendingPushNavigationTarget
Cleared(c, p) ==
    IF stored.click = c /\ stored.target = p
    THEN /\ stored' = [stored EXCEPT !.target = None, !.leased = FALSE]
         /\ givenUp' = givenUp \cup {c}
    ELSE UNCHANGED <<stored, givenUp>>

Release(c) ==
    LET s == click[c] IN
    /\ s.at = "releasing"
    /\ Cleared(c, s.client)
    /\ Post(Announcements(s.retry \ {s.client}))
    /\ Becomes(c, Over(s))
    /\ UNCHANGED <<selecting, releases, page>>

ReleaseFails(c) ==
    /\ click[c].at = "releasing"
    /\ Becomes(c, [click[c] EXCEPT !.at = "unstored"])
    /\ UNCHANGED <<stored, selecting, releases, page, messages, givenUp>>

-----------------------------------------------------------------------------
(* The worker hears a page                                                 *)

Reached(p, t) == page[p].place.path = t \* shown, or to be shown after the login

\* Mutant: the lease of the target is not looked at.
OrphanedGone(p) == stored.target = Gone

Orphaned(p) ==
    /\ stored.target \notin {p, None}
    /\ ~stored.leased \/ stored.target = Gone

\* Mutant: a click that still looks for its page is not spared.
EligibleAlways(p) ==
    /\ stored # NoNavigation
    /\ \/ Reached(p, click[stored.click].path)
       \/ stored.target \in {p, None}
       \/ Orphaned(p)

\* readPendingPushNavigationForClient
Eligible(p) ==
    /\ stored # NoNavigation
    /\ stored.click \notin selecting
    /\ \/ Reached(p, click[stored.click].path)
       \/ stored.target \in {p, None}
       \/ Orphaned(p)

Hears(m) == m \in messages

\* The page becomes the target, if it is not yet and that can be written.
Claimed(p) ==
    \/ /\ stored.target # p
       /\ stored' = [stored EXCEPT !.target = p, !.leased = TRUE]
       /\ givenUp' = IF Orphaned(p) THEN givenUp \cup {stored.click} ELSE givenUp
    \/ /\ UNCHANGED stored
       /\ givenUp' = IF stored.target = p THEN givenUp ELSE givenUp \cup {stored.click}

Deliver(p) ==
    /\ Hears(Ready(p))
    /\ Eligible(p)
    /\ Claimed(p)
    /\ messages' = (messages \ {Ready(p)})
                   \cup Sendable({Open(p, stored.click)})
    /\ UNCHANGED <<selecting, click, releases, page>>

DeliverFails(p) ==
    /\ PostFails
    /\ Hears(Ready(p))
    /\ Eligible(p)
    /\ Claimed(p)
    /\ messages' = messages \ {Ready(p)}
    /\ releases' = releases \cup {<<stored.click, p>>}
    /\ UNCHANGED <<selecting, click, page>>

DeliverNothing(p) ==
    /\ Hears(Ready(p))
    /\ ~Eligible(p)
    /\ messages' = messages \ {Ready(p)}
    /\ UNCHANGED <<stored, selecting, click, releases, page, givenUp>>

ReleaseDelivery(c, p) ==
    /\ <<c, p>> \in releases
    /\ releases' = releases \ {<<c, p>>}
    /\ Cleared(c, p) \/ UNCHANGED <<stored, givenUp>>
    /\ UNCHANGED <<selecting, click, page, messages>>

\* Mutant: any acknowledgement deletes the record.
AnyMatches(p, c) == stored # NoNavigation

Matches(p, c) ==
    /\ stored.click = c
    /\ \/ p = Gone \* it was there when it sent the message
       \/ stored.target = p \/ Reached(p, click[c].path)
       \/ page[p].place.kind = "login"

\* consumePendingPushNavigation
Consume(p, c) ==
    /\ Hears(Consumed(p, c))
    /\ stored' = IF Matches(p, c) THEN NoNavigation ELSE stored
    /\ messages' = messages \ {Consumed(p, c)}
    /\ UNCHANGED <<selecting, click, releases, page, givenUp>>

\* The browser stops the worker: what is in memory is gone.
Stop ==
    /\ selecting' = {}
    /\ releases' = {}
    /\ click' = [c \in Clicks |->
                    IF click[c].at \in {"none", "over"} THEN click[c]
                    ELSE [Over(click[c]) EXCEPT !.saved = IF @ = "waiting" THEN "lost" ELSE @]]
    /\ UNCHANGED <<stored, page, messages, givenUp>>

\* 30 seconds after the target was chosen; five minutes after the click.
LeaseEnds ==
    /\ stored.leased
    /\ stored' = [stored EXCEPT !.leased = FALSE]
    /\ UNCHANGED <<selecting, click, releases, page, messages, givenUp>>

Expire ==
    /\ stored # NoNavigation
    /\ stored' = NoNavigation
    /\ UNCHANGED <<selecting, click, releases, page, messages, givenUp>>

-----------------------------------------------------------------------------
(* A page                                                                  *)

\* When it is shown, when it becomes visible, and 1 and 31 seconds after it
\* was loaded.
SignalReady(p) ==
    /\ Listens(p)
    /\ Cardinality(messages) < MaxMessages
    /\ Post({Ready(p)})
    /\ UNCHANGED <<stored, selecting, click, releases, page, givenUp>>

HearAvailable(p) ==
    /\ Listens(p)
    /\ Hears(Available(p))
    /\ messages' = (messages \ {Available(p)}) \cup {Ready(p)}
    /\ UNCHANGED <<stored, selecting, click, releases, page, givenUp>>

\* The page is there, or keeps the path for after the login: acknowledged, if
\* the message names its record.
Arrive(p, m) ==
    LET t == click[m.click].path IN
    /\ Listens(p)
    /\ Hears(m) /\ m.kind \in {"open", "direct"} /\ m.client = p
    /\ page[p].place = Thread(t) \/ page[p].place.kind = "login"
    /\ page' = [page EXCEPT ![p].place.path = t]
    /\ messages' = (messages \ {m})
                   \cup IF m.kind = "open" THEN {Consumed(p, m.click)} ELSE {}
    /\ UNCHANGED <<stored, selecting, click, releases, givenUp>>

\* Otherwise it goes there, once for each record.
GoThere(p, m) ==
    LET t  == click[m.click].path
        id == IF m.kind = "open" THEN m.click ELSE None IN
    /\ Listens(p)
    /\ Hears(m) /\ m.kind \in {"open", "direct"} /\ m.client = p
    /\ page[p].place # Thread(t) /\ page[p].place.kind # "login"
    /\ messages' = messages \ {m}
    /\ IF id # None /\ id = page[p].opened
       THEN UNCHANGED page
       ELSE page' = [page EXCEPT ![p].opened = id, ![p].going = t]
    /\ UNCHANGED <<stored, selecting, click, releases, givenUp>>

\* location.replace: the next document is loaded.
Load(p) ==
    /\ p \in OpenPages /\ page[p].going # None
    /\ \E place \in Arrivals(page[p].going) : NavigatesTo(p, place)
    /\ click' = [c \in Clicks |-> Forgets(click[c], p)]
    /\ UNCHANGED <<selecting, givenUp>>

\* The participant logs in or goes elsewhere in the app.
Browse(p) ==
    /\ p \in OpenPages
    /\ NavigatesTo(p, IF page[p].place.kind = "login" /\ page[p].place.path # None
                      THEN Thread(page[p].place.path) ELSE App)
    /\ click' = [c \in Clicks |-> Forgets(click[c], p)]
    /\ UNCHANGED <<selecting, givenUp>>

Close(p) ==
    /\ p \in OpenPages
    /\ Leaves(p)
    /\ page' = [page EXCEPT ![p] = NoPage]
    /\ click' = [c \in Clicks |-> Forgets(click[c], p)]
    /\ UNCHANGED <<selecting, givenUp>>

Lose(m) ==
    /\ messages' = messages \ {m}
    /\ UNCHANGED <<stored, selecting, click, releases, page, givenUp>>

-----------------------------------------------------------------------------

ClickStep(c) ==
    \/ Save(c) \/ SaveFails(c) \/ Focus(c)
    \/ \E p \in Windows : Navigate(c, p) \/ OpenWindow(c, p)
    \/ NavigateFails(c) \/ OpenWindowFails(c) \/ SendDirectly(c)
    \/ NoTarget(c) \/ Target(c) \/ Announce(c) \/ Release(c) \/ ReleaseFails(c)

Hear(p) == \E m \in messages : Arrive(p, m) \/ GoThere(p, m)

Next ==
    \/ \E c \in Clicks : ClickStep(c) \/ \E t \in Paths : Click(c, t)
    \/ \E p \in Windows :
           \/ Deliver(p) \/ DeliverFails(p) \/ DeliverNothing(p)
           \/ \E c \in Clicks : ReleaseDelivery(c, p)
           \/ SignalReady(p) \/ HearAvailable(p) \/ Hear(p) \/ Close(p)
           \/ Load(p) \/ Browse(p)
    \/ \E p \in Windows \cup {Gone}, c \in Clicks : Consume(p, c)
    \/ Stop \/ LeaseEnds \/ Expire
    \/ \E m \in messages : Lose(m)

Spec == Init /\ [][Next]_vars

\* Pages signal again and again, as they are looked at; messages are not always
\* lost, and the worker is not always stopped before it is done.
Fairness ==
    /\ \A c \in Clicks : SF_vars(ClickStep(c))
    /\ \A p \in Windows :
           /\ WF_vars(SignalReady(p)) /\ WF_vars(HearAvailable(p))
           /\ SF_vars(Deliver(p)) /\ WF_vars(DeliverNothing(p))
           /\ SF_vars(Hear(p))
           /\ SF_vars(Load(p))
    /\ \A p \in Windows \cup {Gone} : SF_vars(\E c \in Clicks : Consume(p, c))
    /\ WF_vars(LeaseEnds)

FairSpec == Spec /\ Fairness

-----------------------------------------------------------------------------
(* Properties                                                              *)

\* A click whose record was written, or could not be written and the previous
\* one was removed, is never followed by an earlier conversation.
NewestIsStored ==
    \A c \in Clicks :
        click[c].saved \in {"yes", "failed"} => stored = NoNavigation \/ stored.click >= c

\* However pages signal, claim and die, a click has no two pages on their way to
\* its conversation, unless its target was given up.
MovesOnePage ==
    \A c \in Clicks \ givenUp :
        Cardinality({p \in OpenPages : page[p].opened = c}) <= 1

\* A navigation is removed for a page that is there, or that is at the login and
\* has been told where to go; the acknowledgement of an earlier one does not.
ConsumedWhenReached ==
    [][\A p \in Windows, c \in Clicks :
          Consume(p, c) /\ stored' # stored =>
              /\ c = stored.click
              /\ page[p].place \in {Thread(click[c].path)} \cup [kind : {"login"}, path : Paths]]_vars

\* While a page is there to take it, and participants do not keep leaving the
\* pages, a navigation does not stay in the cache, whatever messages are lost,
\* posts and writes fail, and targets stay silent.
Arrives ==
    <>[](\E p \in Windows : Listens(p)) /\ <>[][\A p \in Windows : ~Browse(p)]_vars
        => []<>(stored = NoNavigation)
=============================================================================
