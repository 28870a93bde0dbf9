--------------------------- MODULE Browser_proofs ---------------------------
(***************************************************************************)
(* What runs in the browser, for any bounds of the models: the score form  *)
(* and list of the home page, and the clicks on notices that the service   *)
(* worker hands to the open pages.                                         *)
(*                                                                         *)
(* The form and the list, for any number of submissions, loads and changes *)
(* from elsewhere.  The argument: only the answer to the load that was     *)
(* begun last is shown, so the server read what it says after everything   *)
(* shown, or confirmed, before that load was begun; and a submission is    *)
(* begun when none is under way, whatever the button says.                 *)
(*                                                                         *)
(* Clicks on notices, for any number of clicks, windows and conversations, *)
(* whatever messages are lost and whenever the worker is stopped.  The     *)
(* argument: navigations are saved in the order of the clicks, each once,  *)
(* so that what is in the cache is never overtaken by something older; and *)
(* a page other than the target of a navigation is only told of it when it *)
(* is there already, or when the target was given up.                      *)
(***************************************************************************)
EXTENDS ScorePage, PushHandoff, FiniteSetTheorems, TLAPS

-----------------------------------------------------------------------------
(* Home page: the inductive invariant                                      *)

PageTypes ==
    /\ recorded \in Nat
    /\ fate \in [Posts -> {"none", "running", "recorded", "refused"}]
    /\ version \in [Posts -> Nat]
    /\ stage \in [Posts -> {"unsent", "uploading", "posted", "reloading", "over"}]
    /\ awaited \in [Posts -> Nat]
    /\ load \in [Loads -> {"unbegun", "asked", "read", "settled"}]
    /\ read \in [Loads -> Nat]
    /\ isSubmitting \in BOOLEAN
    /\ reloads \in 0 .. MaxReloads
    /\ listed \in Nat
    /\ confirmed \in Nat

\* Submissions that have asked for the list again.
Reloaders == {s \in Posts : awaited[s] # 0}

\* Every load was begun by the page, by a submission, or on its own.
LoadsAreCounted ==
    /\ sequence = 1 + Cardinality(Reloaders) + reloads
    /\ \A s \in Posts : stage[s] \in {"unsent", "uploading", "posted"} => awaited[s] = 0

Underway(s) == stage[s] \in {"uploading", "posted", "reloading"}

\* A submission is under way while isSubmitting, and no other is.
OneUnderway ==
    \A s \in Posts : Underway(s) =>
        /\ isSubmitting
        /\ \A t \in Posts : Underway(t) => t = s

\* Nothing is shown or confirmed that the server has not recorded.
KnownIsRecorded ==
    /\ \A s \in Posts : version[s] <= recorded
    /\ confirmed <= recorded
    /\ listed # Nothing => listed <= recorded

\* The latest load has read no less than what is shown and what was confirmed,
\* and once it is settled the list has it.
LatestIsNewest ==
    /\ load[sequence] = "read" =>
          /\ read[sequence] <= recorded
          /\ read[sequence] >= confirmed
          /\ listed # Nothing => read[sequence] >= listed
    /\ load[sequence] = "settled" /\ listed # Nothing => listed >= confirmed

PageInv == PageTypes /\ LoadsAreCounted /\ OneUnderway /\ KnownIsRecorded /\ LatestIsNewest

-----------------------------------------------------------------------------
(* The numbers of the loads                                                *)

LEMMA ReloadersAreFew ==
    /\ IsFiniteSet(Reloaders)
    /\ Cardinality(Reloaders) \in 0 .. MaxPosts
<1>1. IsFiniteSet(Posts) /\ Cardinality(Posts) = MaxPosts
  BY FS_Interval, ScorePageAssumption DEF Posts
<1>2. Reloaders \subseteq Posts
  BY DEF Reloaders
<1>. QED
  BY <1>1, <1>2, FS_Subset, FS_CardinalityType, ScorePageAssumption

LEMMA SequenceIsALoad ==
    ASSUME PageInv
    PROVE  sequence \in Nat /\ sequence \in Loads
BY ReloadersAreFew, ScorePageAssumption
DEF PageInv, PageTypes, LoadsAreCounted, Loads, MaxLoads

\* The page can begin a load on its own,
LEMMA RoomForReload ==
    ASSUME PageInv, reloads < MaxReloads
    PROVE  sequence + 1 \in Loads
BY ReloadersAreFew, ScorePageAssumption
DEF PageInv, PageTypes, LoadsAreCounted, Loads, MaxLoads

\* and a submission can begin its one.
LEMMA RoomForSubmission ==
    ASSUME PageInv, NEW s \in Posts, stage[s] = "posted"
    PROVE  /\ sequence + 1 \in Loads
           /\ Cardinality(Reloaders \cup {s}) = Cardinality(Reloaders) + 1
<1>1. s \notin Reloaders
  BY DEF PageInv, LoadsAreCounted, Reloaders
<1>2. Cardinality(Reloaders \cup {s}) = Cardinality(Reloaders) + 1
  BY <1>1, ReloadersAreFew, FS_AddElement
<1>3. IsFiniteSet(Posts) /\ Cardinality(Posts) = MaxPosts
  BY FS_Interval, ScorePageAssumption DEF Posts
<1>4. Reloaders \cup {s} \subseteq Posts
  BY DEF Reloaders
<1>5. Cardinality(Reloaders \cup {s}) <= MaxPosts
  BY <1>3, <1>4, FS_Subset
<1>. QED
  BY <1>2, <1>5, ReloadersAreFew, ScorePageAssumption
  DEF PageInv, PageTypes, LoadsAreCounted, Loads, MaxLoads

\* A step that begins no load keeps the count.
LEMMA NoLoadBegun ==
    ASSUME PageInv, UNCHANGED <<sequence, awaited, reloads>>,
           \A s \in Posts : stage'[s] \in {"unsent", "uploading", "posted"}
                                => stage[s] \in {"unsent", "uploading", "posted"}
    PROVE  LoadsAreCounted'
<1>1. Reloaders' = Reloaders
  BY DEF Reloaders
<1>. QED
  BY <1>1 DEF PageInv, LoadsAreCounted

\* A load that was just begun has read nothing yet.
LEMMA LoadBegun ==
    ASSUME PageInv, sequence + 1 \in Loads, sequence' = sequence + 1,
           load'[sequence + 1] = "asked"
    PROVE  LatestIsNewest'
BY DEF LatestIsNewest

-----------------------------------------------------------------------------
(* Home page: the invariant holds                                          *)

LEMMA PageInitInvariant == PageInit => PageInv
<1>1. SUFFICES ASSUME PageInit PROVE PageInv
  OBVIOUS
<1>2. Reloaders = {}
  BY <1>1 DEF PageInit, Reloaders
<1>3. Cardinality(Reloaders) = 0
  BY <1>2, FS_EmptySet
<1>4. LoadsAreCounted
  BY <1>1, <1>3 DEF PageInit, LoadsAreCounted
<1>5. 1 \in Loads
  BY ScorePageAssumption DEF Loads, MaxLoads
<1>6. PageTypes
  <2>1. Nothing \in Nat /\ 0 \in 0 .. MaxReloads
    BY ScorePageAssumption DEF Nothing
  <2>2. load \in [Loads -> {"unbegun", "asked", "read", "settled"}]
    BY <1>1 DEF PageInit
  <2>. QED
    BY <1>1, <2>1, <2>2 DEF PageInit, PageTypes
<1>7. OneUnderway /\ KnownIsRecorded /\ LatestIsNewest
  BY <1>1, <1>5 DEF PageInit, OneUnderway, Underway, KnownIsRecorded, LatestIsNewest
<1>. QED
  BY <1>4, <1>6, <1>7 DEF PageInv

\* The server decides a POST, or the score changes elsewhere.
LEMMA ServerStep ==
    ASSUME PageInv,
           \/ \E s \in Posts : ServerRecords(s) \/ ServerRefuses(s)
           \/ ChangeElsewhere
    PROVE  PageInv'
<1>1. UNCHANGED <<stage, awaited, load, read, sequence, isSubmitting, listed,
                  reloads, confirmed>>
  BY DEF ServerRecords, ServerRefuses, ChangeElsewhere, loading
<1>2. /\ recorded' \in Nat /\ recorded' >= recorded
      /\ fate' \in [Posts -> {"none", "running", "recorded", "refused"}]
      /\ version' \in [Posts -> Nat]
      /\ \A s \in Posts : version'[s] <= recorded'
  BY DEF PageInv, PageTypes, KnownIsRecorded, ServerRecords, ServerRefuses, ChangeElsewhere
<1>3. PageTypes' /\ OneUnderway'
  BY <1>1, <1>2 DEF PageInv, PageTypes, OneUnderway, Underway
<1>4. LoadsAreCounted'
  BY <1>1, NoLoadBegun
<1>5. KnownIsRecorded'
  BY <1>1, <1>2 DEF PageInv, PageTypes, KnownIsRecorded
<1>6. LatestIsNewest'
  BY <1>1, <1>2, SequenceIsALoad DEF PageInv, PageTypes, LatestIsNewest
<1>. QED
  BY <1>3, <1>4, <1>5, <1>6 DEF PageInv

\* The form posts, or goes on to its POST.
LEMMA SubmitStep ==
    ASSUME PageInv, NEW s \in Posts, Submit(s) \/ ImageUploaded(s)
    PROVE  PageInv'
<1>1. UNCHANGED <<recorded, version, awaited, load, read, sequence, listed,
                  reloads, confirmed>>
  BY DEF Submit, StartSubmission, ImageUploaded, loading
<1>2. /\ stage[s] \in {"unsent", "uploading"}
      /\ \/ stage' = [stage EXCEPT ![s] = "uploading"]
         \/ stage' = [stage EXCEPT ![s] = "posted"]
      /\ fate' \in [Posts -> {"none", "running", "recorded", "refused"}]
      /\ isSubmitting' \in BOOLEAN
  BY DEF PageInv, PageTypes, Submit, StartSubmission, ImageUploaded
<1>3. PageTypes'
  BY <1>1, <1>2 DEF PageInv, PageTypes
<1>4. LoadsAreCounted'
  BY <1>1, <1>2, NoLoadBegun DEF PageInv, PageTypes
<1>5. isSubmitting' /\ \A t \in Posts \ {s} : ~Underway(t)
  BY DEF PageInv, PageTypes, OneUnderway, Underway, Submit, StartSubmission, ImageUploaded
<1>6. OneUnderway'
  BY <1>2, <1>5 DEF PageInv, PageTypes, OneUnderway, Underway
<1>7. KnownIsRecorded' /\ LatestIsNewest'
  BY <1>1 DEF PageInv, KnownIsRecorded, LatestIsNewest
<1>. QED
  BY <1>3, <1>4, <1>6, <1>7 DEF PageInv

\* A submission ends, with its list loaded or without.
LEMMA PageEndStep ==
    ASSUME PageInv, NEW s \in Posts,
           ImageFails(s) \/ PostRefused(s) \/ PostUnknown(s) \/ Reloaded(s)
    PROVE  PageInv'
<1>1. UNCHANGED <<recorded, fate, version, awaited, load, read, sequence, listed,
                  reloads, confirmed>>
  BY DEF ImageFails, PostRefused, PostUnknown, Reloaded, server, loading
<1>2. /\ Underway(s)
      /\ stage' = [stage EXCEPT ![s] = "over"]
      /\ isSubmitting' = FALSE
  BY DEF ImageFails, PostRefused, PostUnknown, Reloaded, EndSubmission, Underway
<1>3. PageTypes'
  BY <1>1, <1>2 DEF PageInv, PageTypes
<1>4. LoadsAreCounted'
  BY <1>1, <1>2, NoLoadBegun DEF PageInv, PageTypes
<1>5. \A t \in Posts : ~(stage'[t] \in {"uploading", "posted", "reloading"})
  BY <1>2 DEF PageInv, PageTypes, OneUnderway, Underway
<1>6. OneUnderway'
  BY <1>5 DEF OneUnderway, Underway
<1>7. KnownIsRecorded' /\ LatestIsNewest'
  BY <1>1 DEF PageInv, KnownIsRecorded, LatestIsNewest
<1>. QED
  BY <1>3, <1>4, <1>6, <1>7 DEF PageInv

\* The answer to the POST has the submission ask for the list.
LEMMA AskStep ==
    ASSUME PageInv, NEW s \in Posts, PostConfirmed(s) \/ PostUnchanged(s)
    PROVE  PageInv'
<1>1. UNCHANGED <<recorded, fate, version, read, isSubmitting, listed, reloads>>
  BY DEF PostConfirmed, PostUnchanged, BeginLoad, server
<1>2. /\ stage[s] = "posted"
      /\ stage' = [stage EXCEPT ![s] = "reloading"]
      /\ awaited' = [awaited EXCEPT ![s] = sequence + 1]
      /\ sequence' = sequence + 1
      /\ load' = [load EXCEPT ![sequence + 1] = "asked"]
  BY DEF PostConfirmed, PostUnchanged, BeginLoad
<1>3. confirmed' \in {confirmed, version[s]}
  BY DEF PostConfirmed, PostUnchanged
<1>4. sequence \in Nat /\ sequence + 1 \in Loads
  BY <1>2, SequenceIsALoad, RoomForSubmission
<1>5. PageTypes'
  BY <1>1, <1>2, <1>3, <1>4 DEF PageInv, PageTypes
<1>6. LoadsAreCounted'
  <2>1. Reloaders' = Reloaders \cup {s}
    BY <1>2, <1>4 DEF PageInv, PageTypes, Reloaders
  <2>2. Cardinality(Reloaders)' = Cardinality(Reloaders) + 1
    BY <1>2, <2>1, RoomForSubmission
  <2>3. sequence' = 1 + Cardinality(Reloaders)' + reloads'
    BY <1>1, <1>2, <2>2, ReloadersAreFew DEF PageInv, PageTypes, LoadsAreCounted
  <2>. QED
    BY <1>2, <2>3 DEF PageInv, PageTypes, LoadsAreCounted
<1>7. OneUnderway'
  BY <1>1, <1>2 DEF PageInv, PageTypes, OneUnderway, Underway
<1>8. KnownIsRecorded'
  BY <1>1, <1>3 DEF PageInv, KnownIsRecorded
<1>9. LatestIsNewest'
  BY <1>2, <1>4, LoadBegun DEF PageInv, PageTypes
<1>. QED
  BY <1>5, <1>6, <1>7, <1>8, <1>9 DEF PageInv

\* The server reads the scores for a load.
LEMMA ReadStep ==
    ASSUME PageInv, NEW l \in Loads, ServerReads(l)
    PROVE  PageInv'
<1>1. UNCHANGED <<recorded, fate, version, stage, awaited, sequence, isSubmitting,
                  listed, reloads, confirmed>>
  BY DEF ServerReads, server
<1>2. /\ load' = [load EXCEPT ![l] = "read"]
      /\ read' = [read EXCEPT ![l] = recorded]
  BY DEF ServerReads
<1>3. PageTypes' /\ OneUnderway'
  BY <1>1, <1>2 DEF PageInv, PageTypes, OneUnderway, Underway
<1>4. LoadsAreCounted'
  BY <1>1, NoLoadBegun
<1>5. KnownIsRecorded'
  BY <1>1 DEF PageInv, KnownIsRecorded
<1>6. LatestIsNewest'
  BY <1>1, <1>2, SequenceIsALoad DEF PageInv, PageTypes, KnownIsRecorded, LatestIsNewest
<1>. QED
  BY <1>3, <1>4, <1>5, <1>6 DEF PageInv

\* A load is over: shown, failed or ignored.
LEMMA SettleStep ==
    ASSUME PageInv, NEW l \in Loads, SettleLoad(l)
    PROVE  PageInv'
<1>1. UNCHANGED <<recorded, fate, version, stage, awaited, read, sequence,
                  isSubmitting, reloads, confirmed>>
  BY DEF SettleLoad, ShowLatest, ShowAnswer, LoadFails, AnswerIgnored, server
<1>2. load' = [load EXCEPT ![l] = "settled"]
  BY DEF SettleLoad, ShowLatest, ShowAnswer, LoadFails, AnswerIgnored
<1>3. \/ l = sequence /\ load[l] = "read" /\ listed' = read[l]
      \/ l = sequence /\ listed' = Nothing
      \/ l # sequence /\ listed' = listed
  BY DEF SettleLoad, ShowLatest, ShowAnswer, LoadFails, AnswerIgnored
<1>4. Nothing \in Nat
  BY ScorePageAssumption DEF Nothing
<1>5. PageTypes'
  BY <1>1, <1>2, <1>3, <1>4 DEF PageInv, PageTypes
<1>6. OneUnderway'
  BY <1>1 DEF PageInv, OneUnderway, Underway
<1>7. LoadsAreCounted'
  BY <1>1, NoLoadBegun
<1>8. Nothing' = Nothing
  BY DEF Nothing
<1>9. KnownIsRecorded'
  BY <1>1, <1>3, <1>8 DEF PageInv, KnownIsRecorded, LatestIsNewest
<1>10. LatestIsNewest'
  BY <1>1, <1>2, <1>3, <1>8, SequenceIsALoad DEF PageInv, PageTypes, LatestIsNewest
<1>. QED
  BY <1>5, <1>6, <1>7, <1>9, <1>10 DEF PageInv

\* The page begins a load, or is loaded afresh.
LEMMA ReloadStep ==
    ASSUME PageInv, Reload \/ Refresh
    PROVE  PageInv'
<1>1. UNCHANGED <<recorded, fate, version, awaited, read, confirmed>>
  BY DEF Reload, Refresh, BeginLoad, server
<1>2. /\ reloads < MaxReloads /\ reloads' = reloads + 1
      /\ sequence' = sequence + 1
  BY DEF Reload, Refresh, BeginLoad
<1>3. sequence \in Nat /\ sequence + 1 \in Loads
  BY <1>2, SequenceIsALoad, RoomForReload
<1>4. /\ load' \in [Loads -> {"unbegun", "asked", "read", "settled"}]
      /\ load'[sequence + 1] = "asked"
  BY <1>3 DEF PageInv, PageTypes, Reload, Refresh, BeginLoad
<1>5. /\ stage' \in [Posts -> {"unsent", "uploading", "posted", "reloading", "over"}]
      /\ \A s \in Posts : stage'[s] \in {stage[s], "over"}
      /\ isSubmitting' \in BOOLEAN
      /\ listed' \in {listed, Nothing} /\ listed' \in Nat
  <2>1. Nothing \in Nat
    BY ScorePageAssumption DEF Nothing
  <2>2. CASE Reload
    BY <2>1, <2>2 DEF PageInv, PageTypes, Reload
  <2>3. CASE Refresh
    BY <2>1, <2>3 DEF PageInv, PageTypes, Refresh
  <2>. QED
    BY <2>2, <2>3
<1>6. PageTypes'
  BY <1>1, <1>2, <1>4, <1>5, ScorePageAssumption DEF PageInv, PageTypes
<1>7. LoadsAreCounted'
  <2>1. Cardinality(Reloaders)' = Cardinality(Reloaders)
    BY <1>1 DEF Reloaders
  <2>2. sequence' = 1 + Cardinality(Reloaders)' + reloads'
    BY <1>2, <2>1, ReloadersAreFew DEF PageInv, PageTypes, LoadsAreCounted
  <2>. QED
    BY <1>1, <1>5, <2>2 DEF PageInv, PageTypes, LoadsAreCounted
<1>8. OneUnderway'
  BY DEF PageInv, PageTypes, OneUnderway, Underway, Reload, Refresh
<1>9. KnownIsRecorded'
  BY <1>1, <1>5 DEF PageInv, KnownIsRecorded, Nothing
<1>10. LatestIsNewest'
  BY <1>2, <1>3, <1>4, LoadBegun
<1>. QED
  BY <1>6, <1>7, <1>8, <1>9, <1>10 DEF PageInv

LEMMA PageInvariantStep == PageInv /\ [PageNext]_pageVars => PageInv'
<1>1. SUFFICES ASSUME PageInv, [PageNext]_pageVars PROVE PageInv'
  OBVIOUS
<1>2. CASE \/ \E s \in Posts : ServerRecords(s) \/ ServerRefuses(s)
           \/ ChangeElsewhere
  BY <1>1, <1>2, ServerStep
<1>3. ASSUME NEW s \in Posts, Submit(s) PROVE PageInv'
  BY <1>1, <1>3, SubmitStep
<1>4. ASSUME NEW s \in Posts, Settle(s) PROVE PageInv'
  BY <1>1, <1>4, SubmitStep, PageEndStep, AskStep DEF Settle
<1>5. ASSUME NEW l \in Loads, ServerReads(l) PROVE PageInv'
  BY <1>1, <1>5, ReadStep
<1>6. ASSUME NEW l \in Loads, SettleLoad(l) PROVE PageInv'
  BY <1>1, <1>6, SettleStep
<1>7. CASE Reload \/ Refresh
  BY <1>1, <1>7, ReloadStep
<1>8. CASE UNCHANGED pageVars
  BY <1>1, <1>8
  DEF pageVars, server, loading, PageInv, PageTypes, LoadsAreCounted, Reloaders, OneUnderway,
      Underway, KnownIsRecorded, LatestIsNewest
<1>. QED
  BY <1>1, <1>2, <1>3, <1>4, <1>5, <1>6, <1>7, <1>8 DEF PageNext

LEMMA PageInvariance == PageSpec => []PageInv
BY PageInitInvariant, PageInvariantStep, PTL DEF PageSpec

-----------------------------------------------------------------------------
(* What the page promises                                                  *)

\* However many loads overlap a submission and enable the button, and however
\* often the page is refreshed, the form waits for one submission at a time: its
\* submit listener never starts a second.
THEOREM OnePostAtATime == PageSpec => []OneSubmissionAtATime
<1>1. ASSUME PageInv PROVE OneSubmissionAtATime
  <2>. DEFINE waiting == {s \in Posts : stage[s] \in {"uploading", "posted", "reloading"}}
  <2>1. CASE waiting = {}
    BY <2>1, FS_EmptySet DEF OneSubmissionAtATime
  <2>2. CASE waiting # {}
    <3>1. PICK s \in Posts : s \in waiting
      BY <2>2
    <3>2. waiting = {s}
      BY <1>1, <3>1 DEF PageInv, OneUnderway, Underway
    <3>. QED
      BY <3>2, FS_Singleton DEF OneSubmissionAtATime
  <2>. QED
    BY <2>1, <2>2
<1>. QED
  BY <1>1, PageInvariance, PTL

\* When the page is at rest and its list was loaded, the list has every change
\* the server confirmed to this page, whichever loads overtook the one that the
\* submission had asked for.
THEOREM ConfirmedIsListed == PageSpec => []ListHasConfirmedChanges
<1>1. PageInv => ListHasConfirmedChanges
  BY DEF PageInv, LatestIsNewest, ListHasConfirmedChanges
<1>. QED
  BY <1>1, PageInvariance, PTL

\* No step puts an older score in the place of a newer one: loads overlap, and
\* their answers come in any order, but only that of the latest is shown.
THEOREM ListOnlyAdvances == PageSpec => ListNeverGoesBack
<1>1. ASSUME PageInv, [PageNext]_pageVars, listed # Nothing, listed' # Nothing
      PROVE  listed' >= listed
  <2>1. CASE listed' = listed
    BY <1>1, <2>1 DEF PageInv, PageTypes
  <2>2. CASE listed' # listed
    <3>1. PICK l \in Loads : ShowLatest(l)
      BY <1>1, <2>2
      DEF PageNext, ServerRecords, ServerRefuses, ServerReads, ChangeElsewhere, Submit,
          StartSubmission, Settle, ImageUploaded, ImageFails, PostConfirmed,
          PostUnchanged, PostRefused, PostUnknown, Reloaded, SettleLoad, LoadFails,
          AnswerIgnored, Reload, Refresh, Nothing, pageVars
    <3>. QED
      BY <1>1, <3>1 DEF PageInv, LatestIsNewest, ShowLatest, ShowAnswer
  <2>. QED
    BY <2>1, <2>2
<1>2. PageInv /\ [PageNext]_pageVars =>
          [listed # Nothing /\ listed' # Nothing => listed' >= listed]_pageVars
  BY <1>1
<1>. QED
  BY <1>2, PageInvariance, PTL DEF PageSpec, ListNeverGoesBack

-----------------------------------------------------------------------------
(* Push handoff: the inductive invariant                                   *)

Clients == Windows \cup {Gone}
ClickStates ==
    [at       : {"none", "open", "window", "opened", "targeted", "unstored", "superseded",
                 "releasing", "over"},
     saved    : {"no", "waiting", "yes", "failed", "lost"},
     path     : Paths \cup {None},
     client   : Clients \cup {None},
     excluded : SUBSET Windows,
     retry    : SUBSET Windows]
Places == [kind : {"app", "thread", "login"}, path : Paths \cup {None}]
Pages  == [open : BOOLEAN, place : Places, going : Paths \cup {None},
           opened : Clicks \cup {None}]
Messages ==
    [kind : {"open", "direct", "consumed"}, client : Clients, click : Clicks]
    \cup [kind : {"ready", "available"}, client : Windows, click : {None}]

Types ==
    /\ stored \in [click : Clicks \cup {None}, target : Clients \cup {None},
                   leased : BOOLEAN]
    /\ click \in [Clicks -> ClickStates]
    /\ page \in [Windows -> Pages]
    /\ messages \subseteq Messages

\* Clicks come in their order, and each has a conversation.
ClicksInOrder ==
    \A c \in Clicks :
        /\ click[c].at = "none" <=> click[c].saved = "no"
        /\ click[c].at # "none" =>
              /\ click[c].path \in Paths
              /\ \A d \in Clicks : d < c => click[d].at # "none"

\* Navigations are saved in the order of the clicks: none that is still waiting
\* is older than one that was written, or failed.
SavedInOrder ==
    \A c, d \in Clicks :
        d < c /\ click[c].saved \in {"yes", "failed"} => click[d].saved # "waiting"

\* What is in the cache was saved there.
StoredIsSaved ==
    stored = NoNavigation \/ (stored.click \in Clicks /\ click[stored.click].saved = "yes")

\* A click that looks for its page is spared by the pages that signal.
Searching == {"open", "window", "opened"}
SearchIsSpared ==
    \A c \in Clicks :
        click[c].at \in Searching /\ click[c].saved \in {"waiting", "yes"} => c \in selecting

Order == ClicksInOrder /\ SavedInOrder /\ StoredIsSaved /\ SearchIsSpared /\ NewestIsStored

\* The page shows the conversation of c, or is at the login.
IsThere(p, c) ==
    page[p].place = Thread(click[c].path) \/ page[p].place.kind = "login"

\* Pages that have heard of c, or will; and those of them that it moves.
Told(p, c)  == page[p].opened = c \/ Open(p, c) \in messages
Moved(p, c) == page[p].opened = c \/ (Open(p, c) \in messages /\ ~IsThere(p, c))

\* A page of the app has no conversation, nor has a window without a page.
PlacesAreSound ==
    \A p \in Windows :
        /\ page[p].place.kind = "app" => page[p].place.path = None
        /\ p \notin OpenPages => page[p].place.kind = "app"

\* Only pages that are open are told, and only of what was saved and has found
\* its page.
ToldIsSaved ==
    \A c \in Clicks, p \in Windows : Told(p, c) =>
        p \in OpenPages /\ click[c].saved = "yes" /\ click[c].at \notin Searching

\* While c is in the cache and its target was not given up, a page that is moved
\* is its target, unless the target has left or was there before.
MovedIsTarget ==
    \A c \in Clicks \ givenUp, p \in Windows :
        stored.click = c /\ Moved(p, c) =>
            /\ stored.target # None
            /\ stored.target \in {p, Gone} \/ IsThere(stored.target, c)

OneIsMoved ==
    \A c \in Clicks \ givenUp : \A p, q \in Windows : Moved(p, c) /\ Moved(q, c) => p = q

\* A page that acknowledges c is there, or keeps a conversation for after the
\* login; messages name clicks that were made.
MailIsTrue ==
    /\ \A m \in messages :
           m.kind \in {"open", "direct", "consumed"} => click[m.click].at # "none"
    /\ \A p \in Windows, c \in Clicks : Consumed(p, c) \in messages =>
           \/ page[p].place = Thread(click[c].path)
           \/ page[p].place.kind = "login" /\ page[p].place.path \in Paths

Moves == PlacesAreSound /\ ToldIsSaved /\ MovedIsTarget /\ OneIsMoved /\ MailIsTrue

IInv == Types /\ Order /\ Moves

-----------------------------------------------------------------------------
(* Kinds of steps                                                          *)

\* Clicks go on: none is saved, forgets its path or begins to search.
Advance ==
    /\ click' \in [Clicks -> ClickStates]
    /\ \A c \in Clicks :
           /\ \/ click'[c].saved = click[c].saved
              \/ click[c].saved = "waiting" /\ click'[c].saved = "lost"
           /\ click'[c].path = click[c].path
           /\ click'[c].at = "none" <=> click[c].at = "none"
           /\ click'[c].at \in Searching => click[c].at \in Searching

\* Those that end their search may be heard of.
SearchersStay ==
    \A c \in selecting \ selecting' :
        c \in Clicks /\ click'[c].saved \in {"waiting", "yes"} => click'[c].at \notin Searching

\* The navigation in the cache stays, or goes.
StoredStays ==
    \/ stored' = NoNavigation
    \/ stored # NoNavigation /\ stored'.click = stored.click

LEMMA OrderIsKept ==
    ASSUME Types, Order, Advance, SearchersStay, StoredStays
    PROVE  Order'
<1>. USE PushHandoffAssumption
<1>1. ClicksInOrder'
  BY DEF Order, ClicksInOrder, Advance, Types, ClickStates
<1>2. SavedInOrder'
  BY DEF Order, SavedInOrder, Advance
<1>3. StoredIsSaved'
  BY DEF Order, StoredIsSaved, Advance, StoredStays, NoNavigation
<1>4. SearchIsSpared'
  BY DEF Order, SearchIsSpared, Advance, SearchersStay
<1>5. NewestIsStored'
  BY DEF Order, NewestIsStored, Advance, StoredStays, NoNavigation
<1>. QED
  BY <1>1, <1>2, <1>3, <1>4, <1>5 DEF Order

\* Messages that name no record, and acknowledge none.
Harmless(m) ==
    \/ m.kind \in {"ready", "available"}
    \/ m.kind = "direct" /\ click[m.click].at # "none"

\* Nobody is told of anything, no page is left, and a target is only lost when
\* it is given up.
NothingMoves ==
    /\ UNCHANGED page
    /\ messages' \subseteq Messages
    /\ \A m \in messages' : m \in messages \/ Harmless(m)
    /\ stored'.click \in Clicks =>
           stored'.target = stored.target \/ stored.click \in givenUp'
    /\ givenUp \subseteq givenUp'

LEMMA MovesAreKept ==
    ASSUME IInv, Advance, StoredStays, NothingMoves
    PROVE  Moves'
<1>. USE PushHandoffAssumption
<1>1. \A p \in Windows, c \in Clicks : Told(p, c)' => Told(p, c)
  BY DEF NothingMoves, Harmless, Told, Open
<1>2. \A p \in Windows, c \in Clicks : IsThere(p, c)' = IsThere(p, c)
  BY DEF NothingMoves, Advance, IsThere, Thread
<1>3. \A p \in Windows, c \in Clicks : Moved(p, c)' => Moved(p, c)
  BY <1>2 DEF NothingMoves, Harmless, Moved, Open
<1>4. PlacesAreSound'
  BY DEF NothingMoves, IInv, Moves, PlacesAreSound, OpenPages
<1>5. ToldIsSaved'
  BY <1>1 DEF NothingMoves, IInv, Moves, ToldIsSaved, Advance, OpenPages, Searching
<1>6. MovedIsTarget'
  <2>1. SUFFICES ASSUME NEW c \in Clicks \ givenUp', NEW p \in Windows,
                        stored'.click = c, Moved(p, c)'
                 PROVE  /\ stored'.target # None
                        /\ \/ stored'.target \in {p, Gone}
                           \/ IsThere(stored.target, c)'
    BY DEF MovedIsTarget
  <2>2. stored.click = c /\ stored'.target = stored.target
    BY <2>1 DEF StoredStays, NoNavigation, NothingMoves
  <2>3. /\ stored.target # None
        /\ stored.target \in {p, Gone} \/ IsThere(stored.target, c)
    BY <1>3, <2>1, <2>2 DEF NothingMoves, IInv, Moves, MovedIsTarget
  <2>4. stored.target \in Windows \cup {None, Gone}
    BY DEF IInv, Types, Clients
  <2>. QED
    BY <1>2, <2>2, <2>3, <2>4 DEF NothingMoves, Advance, IsThere, Thread
<1>7. OneIsMoved'
  BY <1>3 DEF NothingMoves, IInv, Moves, OneIsMoved
<1>8. MailIsTrue'
  <2>1. \A m \in messages' : /\ m.kind = "consumed" => m \in messages
                             /\ m.kind \in {"open", "direct"} =>
                                    m \in messages \/ click[m.click].at # "none"
    BY DEF NothingMoves, Harmless
  <2>2. \A m \in messages' : m.kind \in {"open", "direct", "consumed"} => m.click \in Clicks
    BY DEF NothingMoves, Messages
  <2>3. \A m \in messages' :
           m.kind \in {"open", "direct", "consumed"} => click'[m.click].at # "none"
    BY <2>1, <2>2 DEF IInv, Moves, MailIsTrue, Advance
  <2>4. \A p \in Windows, c \in Clicks : Consumed(p, c) \in messages' =>
           \/ page[p].place = Thread(click[c].path)
           \/ page[p].place.kind = "login" /\ page[p].place.path \in Paths
    BY <2>1 DEF IInv, Moves, MailIsTrue, Consumed
  <2>. QED
    BY <2>3, <2>4 DEF MailIsTrue, NothingMoves, Advance, Thread, Consumed
<1>. QED
  BY <1>4, <1>5, <1>6, <1>7, <1>8 DEF Moves

LEMMA QuietStep ==
    ASSUME IInv, Advance, SearchersStay, StoredStays, NothingMoves,
           stored' \in [click : Clicks \cup {None}, target : Clients \cup {None},
                        leased : BOOLEAN]
    PROVE  IInv'
<1>1. Types'
  BY DEF IInv, Types, Advance, NothingMoves
<1>. QED
  BY <1>1, OrderIsKept, MovesAreKept DEF IInv

-----------------------------------------------------------------------------
(* What the steps are made of                                              *)

LEMMA States ==
    /\ NoClick \in ClickStates
    /\ \A s \in ClickStates :
           /\ Over(s) \in ClickStates
           /\ Over(s).at = "over" /\ Over(s).saved = s.saved /\ Over(s).path = s.path
    /\ \A s \in ClickStates, p \in Clients :
           /\ Found(s, p) \in ClickStates
           /\ Found(s, p).at = "opened" /\ Found(s, p).saved = s.saved
           /\ Found(s, p).path = s.path
    /\ \A s \in ClickStates, p \in Windows :
           /\ Forgets(s, p) \in ClickStates
           /\ Forgets(s, p).at = s.at /\ Forgets(s, p).saved = s.saved
           /\ Forgets(s, p).path = s.path
<1>1. NoClick \in ClickStates
  BY DEF NoClick, ClickStates
<1>2. ASSUME NEW s \in ClickStates
      PROVE  /\ Over(s) \in ClickStates
             /\ Over(s).at = "over" /\ Over(s).saved = s.saved /\ Over(s).path = s.path
  BY DEF Over, NoClick, ClickStates
<1>3. ASSUME NEW s \in ClickStates, NEW p \in Clients
      PROVE  /\ Found(s, p) \in ClickStates
             /\ Found(s, p).at = "opened" /\ Found(s, p).saved = s.saved
             /\ Found(s, p).path = s.path
  BY DEF Found, ClickStates, Clients
<1>4. ASSUME NEW s \in ClickStates, NEW p \in Windows
      PROVE  /\ Forgets(s, p) \in ClickStates
             /\ Forgets(s, p).at = s.at /\ Forgets(s, p).saved = s.saved
             /\ Forgets(s, p).path = s.path
  BY DEF Forgets, ClickStates, Clients
<1>. QED
  BY <1>1, <1>2, <1>3, <1>4

LEMMA Kinds ==
    /\ \A p \in Windows : Ready(p) \in Messages /\ Available(p) \in Messages
    /\ \A p \in Windows, c \in Clicks : Open(p, c) \in Messages
    /\ \A p \in Clients, c \in Clicks : Direct(p, c) \in Messages /\ Consumed(p, c) \in Messages
BY DEF Ready, Available, Open, Direct, Consumed, Messages, Clients

LEMMA PostIsSound ==
    ASSUME Types, NEW S, Post(S),
           \A m \in S : m.client \in Windows => m \in Messages /\ Harmless(m)
    PROVE  /\ messages' \subseteq Messages
           /\ \A m \in messages' : m \in messages \/ Harmless(m)
BY DEF Types, Post, Sendable, Listens, OpenPages

LEMMA AnnouncementsAreSound ==
    \A S \in SUBSET Windows : \A m \in Announcements(S) : m \in Messages /\ Harmless(m)
BY Kinds DEF Announcements, Available, Harmless

LEMMA Became ==
    ASSUME Types, NEW c \in Clicks, NEW s \in ClickStates, Becomes(c, s),
           s.saved = click[c].saved, s.path = click[c].path,
           s.at # "none", click[c].at # "none",
           s.at \in Searching => click[c].at \in Searching
    PROVE  Advance /\ click'[c] = s
BY DEF Types, Becomes, Advance

LEMMA TypedClick ==
    ASSUME IInv, NEW c \in Clicks
    PROVE  click[c] \in ClickStates
BY DEF IInv, Types

\* What is done for a click goes on without the cache.
LEMMA ClickGoesOn ==
    ASSUME IInv, NEW c \in Clicks, NEW s \in ClickStates, Becomes(c, s),
           s.saved = click[c].saved, s.path = click[c].path,
           s.at # "none", click[c].at # "none",
           s.at \in Searching => click[c].at \in Searching,
           UNCHANGED <<stored, page, givenUp>>,
           messages' \subseteq Messages,
           \A m \in messages' : m \in messages \/ Harmless(m),
           selecting' = selecting
               \/ (selecting' = selecting \ {c} /\ s.at \notin Searching)
    PROVE  IInv'
<1>1. Advance /\ click'[c] = s
  BY Became DEF IInv
<1>2. SearchersStay
  BY <1>1 DEF SearchersStay
<1>3. StoredStays /\ NothingMoves
  BY DEF StoredStays, NothingMoves
<1>. QED
  BY <1>1, <1>2, <1>3, QuietStep DEF IInv, Types

LEMMA SearchStep ==
    ASSUME IInv, NEW c \in Clicks, Focus(c) \/ NavigateFails(c) \/ OpenWindowFails(c)
    PROVE  IInv'
<1>1. UNCHANGED <<stored, selecting, page, messages, givenUp>>
  BY DEF Focus, NavigateFails, OpenWindowFails
<1>2. messages \subseteq Messages /\ click[c] \in ClickStates
  BY DEF IInv, Types
<1>. DEFINE Searched(s) ==
               /\ s \in ClickStates /\ Becomes(c, s)
               /\ s.saved = click[c].saved /\ s.path = click[c].path
               /\ s.at \in Searching
<1>3. \E s : Searched(s)
  <2>1. CASE Focus(c)
    <3>1. PICK p \in Windows : Becomes(c, Found(click[c], p))
      BY <2>1 DEF Focus, There, OpenPages
    <3>2. Searched(Found(click[c], p))
      BY <1>2, <3>1, States DEF Searching, Clients
    <3>. QED
      BY <3>2
  <2>2. CASE NavigateFails(c)
    <3>1. PICK failed \in Unfocused(c) :
             \/ Becomes(c, [click[c] EXCEPT !.at = "window", !.excluded = failed])
             \/ \E p \in OpenPages \ failed : \E refused \in SUBSET {p} :
                   Becomes(c, [click[c] EXCEPT !.at = "window", !.retry = {p},
                                        !.excluded = failed \cup refused])
      BY <2>2 DEF NavigateFails
    <3>2. failed \in SUBSET Windows
      BY DEF Unfocused, There, OpenPages
    <3>3. CASE Becomes(c, [click[c] EXCEPT !.at = "window", !.excluded = failed])
      <4>1. Searched([click[c] EXCEPT !.at = "window", !.excluded = failed])
        BY <1>2, <3>2, <3>3 DEF ClickStates, Searching
      <4>. QED
        BY <4>1
    <3>4. ASSUME NEW p \in OpenPages \ failed, NEW refused \in SUBSET {p},
                 Becomes(c, [click[c] EXCEPT !.at = "window", !.retry = {p},
                                      !.excluded = failed \cup refused])
          PROVE  \E s : Searched(s)
      <4>1. {p} \in SUBSET Windows /\ failed \cup refused \in SUBSET Windows
        BY <3>2, <3>4 DEF OpenPages
      <4>2. Searched([click[c] EXCEPT !.at = "window", !.retry = {p},
                                      !.excluded = failed \cup refused])
        BY <1>2, <3>4, <4>1 DEF ClickStates, Searching
      <4>. QED
        BY <4>2
    <3>. QED
      BY <3>1, <3>3, <3>4
  <2>3. CASE OpenWindowFails(c)
    <3>1. Searched([click[c] EXCEPT !.at = "opened"])
      BY <1>2, <2>3 DEF OpenWindowFails, ClickStates, Searching
    <3>. QED
      BY <3>1
  <2>. QED
    BY <2>1, <2>2, <2>3
<1>4. click[c].at \in Searching
  BY DEF Focus, NavigateFails, OpenWindowFails, Searching
<1>. QED
  BY <1>1, <1>2, <1>3, <1>4, ClickGoesOn DEF Searching

LEMMA EndStep ==
    ASSUME IInv, NEW c \in Clicks,
           SendDirectly(c) \/ NoTarget(c) \/ Announce(c) \/ ReleaseFails(c)
    PROVE  IInv'
<1>1. UNCHANGED <<stored, page, givenUp>>
  BY DEF SendDirectly, NoTarget, Announce, ReleaseFails
<1>2. messages \subseteq Messages /\ click[c] \in ClickStates
  BY DEF IInv, Types
<1>3. click[c].at # "none"
  BY DEF SendDirectly, NoTarget, Announce, ReleaseFails
<1>4. \E s \in ClickStates :
         /\ Becomes(c, s)
         /\ s.saved = click[c].saved /\ s.path = click[c].path
         /\ s.at # "none" /\ s.at \notin Searching
  BY <1>2, States
  DEF SendDirectly, NoTarget, Announce, ReleaseFails, ClickStates, Searching
<1>5. selecting' \in {selecting, selecting \ {c}}
  BY DEF SendDirectly, NoTarget, Announce, ReleaseFails
<1>6. \/ UNCHANGED messages
      \/ \E S : /\ Post(S)
                /\ \A m \in S : m.client \in Windows => m \in Messages /\ Harmless(m)
  <2>1. CASE SendDirectly(c)
    BY <1>3, <2>1, Kinds DEF SendDirectly, Direct, Clients, Harmless
  <2>2. CASE NoTarget(c)
    BY <1>2, <2>2, AnnouncementsAreSound DEF NoTarget, ClickStates
  <2>3. CASE Announce(c)
    <3>1. click[c].retry \ {click[c].client} \in SUBSET Windows
      BY <1>2 DEF ClickStates
    <3>. QED
      BY <2>3, <3>1, Kinds, AnnouncementsAreSound DEF Announce, Available, Harmless
  <2>4. CASE ReleaseFails(c)
    BY <2>4 DEF ReleaseFails
  <2>. QED
    BY <2>1, <2>2, <2>3, <2>4
<1>7. /\ messages' \subseteq Messages
      /\ \A m \in messages' : m \in messages \/ Harmless(m)
  BY <1>2, <1>6, PostIsSound DEF IInv
<1>. QED
  BY <1>1, <1>3, <1>4, <1>5, <1>7, ClickGoesOn

\* A target is cleared.
LEMMA ClearedIsGivenUp ==
    ASSUME IInv, NEW c \in Clicks, NEW p, Cleared(c, p) \/ UNCHANGED <<stored, givenUp>>
    PROVE  /\ StoredStays
           /\ stored'.click \in Clicks =>
                  stored'.target = stored.target \/ stored.click \in givenUp'
           /\ givenUp \subseteq givenUp'
           /\ stored' \in [click : Clicks \cup {None}, target : Clients \cup {None},
                           leased : BOOLEAN]
<1>1. stored \in [click : Clicks \cup {None}, target : Clients \cup {None},
                  leased : BOOLEAN]
  BY DEF IInv, Types
<1>2. CASE UNCHANGED <<stored, givenUp>>
  BY <1>1, <1>2 DEF StoredStays
<1>3. CASE Cleared(c, p) /\ stored.click = c /\ stored.target = p
  <2>1. /\ stored' = [stored EXCEPT !.target = None, !.leased = FALSE]
        /\ givenUp' = givenUp \cup {c}
    BY <1>3 DEF Cleared
  <2>2. stored' \in [click : Clicks \cup {None}, target : Clients \cup {None},
                     leased : BOOLEAN]
    BY <1>1, <2>1
  <2>3. stored # NoNavigation
    BY <1>3, PushHandoffAssumption DEF NoNavigation
  <2>. QED
    BY <1>1, <1>3, <2>1, <2>2, <2>3 DEF StoredStays
<1>. QED
  BY <1>2, <1>3 DEF Cleared

LEMMA ReleaseStep ==
    ASSUME IInv, NEW c \in Clicks, Release(c)
    PROVE  IInv'
<1>1. click[c] \in ClickStates /\ UNCHANGED <<selecting, page>>
  BY DEF Release, IInv, Types
<1>2. Advance
  BY <1>1, States, Became DEF Release, IInv, Searching
<1>3. click[c].retry \ {click[c].client} \in SUBSET Windows
  BY <1>1 DEF ClickStates
<1>4. /\ messages' \subseteq Messages
      /\ \A m \in messages' : m \in messages \/ Harmless(m)
  BY <1>3, AnnouncementsAreSound, PostIsSound DEF Release, IInv
<1>5. Cleared(c, click[c].client)
  BY DEF Release
<1>6. NothingMoves
  BY <1>1, <1>4, <1>5, ClearedIsGivenUp DEF NothingMoves
<1>7. SearchersStay
  BY <1>1 DEF SearchersStay
<1>. QED
  BY <1>2, <1>5, <1>6, <1>7, ClearedIsGivenUp, QuietStep

-----------------------------------------------------------------------------
(* The worker and its cache                                                *)

\* Steps of which no click takes part.
LEMMA AsideStep ==
    ASSUME IInv, UNCHANGED <<selecting, click, page>>,
           \/ UNCHANGED <<stored, givenUp>>
           \/ stored' = NoNavigation /\ UNCHANGED givenUp
           \/ \E c \in Clicks, p \in Windows : Cleared(c, p),
           messages' \subseteq Messages,
           \A m \in messages' : m \in messages \/ Harmless(m)
    PROVE  IInv'
<1>1. Advance
  BY DEF Advance, IInv, Types
<1>2. SearchersStay
  BY DEF SearchersStay
<1>3. CASE \/ UNCHANGED <<stored, givenUp>>
           \/ \E c \in Clicks, p \in Windows : Cleared(c, p)
  <2>1. /\ StoredStays
        /\ stored'.click \in Clicks =>
               stored'.target = stored.target \/ stored.click \in givenUp'
        /\ givenUp \subseteq givenUp'
        /\ stored' \in [click : Clicks \cup {None}, target : Clients \cup {None},
                        leased : BOOLEAN]
    <3>1. CASE UNCHANGED <<stored, givenUp>>
      BY <3>1 DEF IInv, Types, StoredStays
    <3>. QED
      BY <1>3, <3>1, ClearedIsGivenUp
  <2>2. NothingMoves
    BY <2>1 DEF NothingMoves
  <2>. QED
    BY <1>1, <1>2, <2>1, <2>2, QuietStep
<1>4. CASE stored' = NoNavigation /\ UNCHANGED givenUp
  <2>1. NothingMoves /\ StoredStays
    BY <1>4, PushHandoffAssumption DEF NothingMoves, StoredStays, NoNavigation
  <2>2. stored' \in [click : Clicks \cup {None}, target : Clients \cup {None},
                     leased : BOOLEAN]
    BY <1>4 DEF NoNavigation
  <2>. QED
    BY <1>1, <1>2, <2>1, <2>2, QuietStep
<1>. QED
  BY <1>3, <1>4

LEMMA MessageStep ==
    ASSUME IInv,
           \/ \E p \in Windows : \/ DeliverNothing(p) \/ SignalReady(p) \/ HearAvailable(p)
                                 \/ \E c \in Clicks : ReleaseDelivery(c, p)
           \/ \E p \in Windows \cup {Gone}, c \in Clicks : Consume(p, c)
           \/ Expire
           \/ \E m \in messages : Lose(m)
    PROVE  IInv'
<1>0. messages \subseteq Messages
  BY DEF IInv, Types
<1>1. ASSUME NEW p \in Windows, DeliverNothing(p) \/ HearAvailable(p) PROVE IInv'
  BY <1>0, <1>1, Kinds, AsideStep DEF DeliverNothing, HearAvailable, Ready, Harmless
<1>2. ASSUME NEW p \in Windows, SignalReady(p) PROVE IInv'
  <2>1. /\ messages' \subseteq Messages
        /\ \A m \in messages' : m \in messages \/ Harmless(m)
    BY <1>2, Kinds, PostIsSound DEF SignalReady, IInv, Ready, Harmless
  <2>. QED
    BY <1>2, <2>1, AsideStep DEF SignalReady
<1>3. ASSUME NEW p \in Windows, NEW c \in Clicks, ReleaseDelivery(c, p) PROVE IInv'
  BY <1>0, <1>3, AsideStep DEF ReleaseDelivery
<1>4. ASSUME NEW p \in Windows \cup {Gone}, NEW c \in Clicks, Consume(p, c) PROVE IInv'
  BY <1>0, <1>4, AsideStep DEF Consume
<1>5. ASSUME Expire PROVE IInv'
  BY <1>0, <1>5, AsideStep DEF Expire
<1>6. ASSUME NEW m \in messages, Lose(m) PROVE IInv'
  BY <1>0, <1>6, AsideStep DEF Lose
<1>. QED
  BY <1>1, <1>2, <1>3, <1>4, <1>5, <1>6

LEMMA LeaseStep ==
    ASSUME IInv, LeaseEnds
    PROVE  IInv'
<1>1. Advance /\ SearchersStay
  BY DEF LeaseEnds, Advance, SearchersStay, IInv, Types
<1>2. stored \in [click : Clicks \cup {None}, target : Clients \cup {None},
                  leased : BOOLEAN]
  BY DEF IInv, Types
<1>3. stored # NoNavigation /\ stored' = [stored EXCEPT !.leased = FALSE]
  BY DEF LeaseEnds, NoNavigation
<1>4. StoredStays
  BY <1>2, <1>3 DEF StoredStays
<1>5. NothingMoves
  BY <1>2, <1>3 DEF LeaseEnds, NothingMoves, IInv, Types
<1>. QED
  BY <1>1, <1>2, <1>3, <1>4, <1>5, QuietStep

\* What is in memory is lost with the worker, what is in the cache is not.
LEMMA StopStep ==
    ASSUME IInv, Stop
    PROVE  IInv'
<1>1. Advance /\ \A c \in Clicks : click'[c].at \notin Searching
  <2>1. ASSUME NEW c \in Clicks, click[c].at \in {"none", "over"}
        PROVE  click'[c] = click[c]
    BY <2>1 DEF Stop
  <2>2. ASSUME NEW c \in Clicks, click[c].at \notin {"none", "over"}
        PROVE  /\ click'[c] \in ClickStates
               /\ click'[c].at = "over" /\ click'[c].path = click[c].path
               /\ click'[c].saved = IF click[c].saved = "waiting" THEN "lost"
                                    ELSE click[c].saved
    <3>1. click[c] \in ClickStates
      BY DEF IInv, Types
    <3>2. click'[c] = [Over(click[c]) EXCEPT !.saved = IF @ = "waiting" THEN "lost" ELSE @]
      BY <2>2 DEF Stop
    <3>. QED
      BY <3>1, <3>2, States DEF ClickStates
  <2>3. \A c \in Clicks : click'[c] \in ClickStates
    BY <2>1, <2>2 DEF IInv, Types
  <2>4. click' \in [Clicks -> ClickStates]
    BY <2>3 DEF Stop
  <2>. QED
    BY <2>1, <2>2, <2>4 DEF Advance, Searching
<1>2. SearchersStay
  BY <1>1 DEF SearchersStay
<1>3. StoredStays /\ NothingMoves
  BY DEF Stop, StoredStays, NothingMoves, IInv, Types
<1>. QED
  BY <1>1, <1>2, <1>3, QuietStep DEF Stop, IInv, Types

\* Nobody is told of a click that was not saved, or looks for its page.
LEMMA UntoldClick ==
    ASSUME IInv, NEW c \in Clicks,
           click[c].saved \in {"no", "waiting"} \/ click[c].at \in Searching
    PROVE  \A p \in Windows : ~Told(p, c)
BY DEF IInv, Moves, ToldIsSaved

\* Of such a click nobody is moved when it goes on or gets into the cache.
LEMMA NobodyIsTold ==
    ASSUME IInv, NEW c \in Clicks, \A p \in Windows : ~Told(p, c),
           UNCHANGED <<page, messages, givenUp>>,
           click' \in [Clicks -> ClickStates],
           \A d \in Clicks \ {c} : click'[d] = click[d],
           /\ click'[c].at # "none"
           /\ click[c].at # "none" => click'[c].path = click[c].path,
           \/ stored' = stored
           \/ stored'.click \in {c, None}
    PROVE  Moves'
<1>1. \A p \in Windows : ~Told(p, c) /\ ~Told(p, c)'
  BY DEF Told, Open
<1>2. \A p \in Windows : ~Moved(p, c)'
  BY <1>1 DEF Told, Moved
<1>3. \A d \in Clicks \ {c}, p \in Windows : IsThere(p, d)' = IsThere(p, d)
  BY DEF IsThere, Thread
<1>4. \A d \in Clicks \ {c}, p \in Windows :
         Told(p, d)' = Told(p, d) /\ Moved(p, d)' = Moved(p, d)
  BY <1>3 DEF Told, Moved, Open
<1>5. PlacesAreSound'
  BY DEF IInv, Moves, PlacesAreSound, OpenPages
<1>6. ToldIsSaved'
  BY <1>1, <1>4 DEF IInv, Moves, ToldIsSaved, OpenPages, Searching
<1>7. MovedIsTarget'
  <2>1. SUFFICES ASSUME NEW d \in Clicks \ givenUp', NEW p \in Windows,
                        stored'.click = d, Moved(p, d)'
                 PROVE  /\ stored'.target # None
                        /\ \/ stored'.target \in {p, Gone}
                           \/ IsThere(stored.target, d)'
    BY DEF MovedIsTarget
  <2>2. d # c /\ stored' = stored
    BY <1>2, <2>1, PushHandoffAssumption
  <2>3. /\ stored.target # None
        /\ stored.target \in {p, Gone} \/ IsThere(stored.target, d)
    BY <1>4, <2>1, <2>2 DEF IInv, Moves, MovedIsTarget
  <2>4. stored.target \in Windows \cup {None, Gone}
    BY DEF IInv, Types, Clients
  <2>. QED
    BY <1>3, <2>2, <2>3, <2>4
<1>8. OneIsMoved'
  BY <1>2, <1>4 DEF IInv, Moves, OneIsMoved
<1>9. MailIsTrue'
  <2>1. \A m \in messages : m.kind \in {"open", "direct", "consumed"} => m.click \in Clicks
    BY DEF IInv, Types, Messages
  <2>2. \A m \in messages' :
           m.kind \in {"open", "direct", "consumed"} => click'[m.click].at # "none"
    BY <2>1 DEF IInv, Moves, MailIsTrue
  <2>3. \A p \in Windows, d \in Clicks : Consumed(p, d) \in messages =>
           /\ click'[d].path = click[d].path
           /\ \/ page[p].place = Thread(click[d].path)
              \/ page[p].place.kind = "login" /\ page[p].place.path \in Paths
    BY DEF IInv, Moves, MailIsTrue, Consumed
  <2>. QED
    BY <2>2, <2>3 DEF MailIsTrue, Thread, Consumed
<1>. QED
  BY <1>5, <1>6, <1>7, <1>8, <1>9 DEF Moves

LEMMA NewClickStep ==
    ASSUME IInv, NEW c \in Clicks, NEW t \in Paths, Click(c, t)
    PROVE  IInv'
<1>1. /\ UNCHANGED <<stored, page, messages, givenUp>>
      /\ selecting' = selecting \cup {c}
      /\ click[c].at = "none"
      /\ \A d \in Clicks : d < c => click[d].at # "none"
  BY DEF Click
<1>2. click[c].saved = "no"
  BY <1>1 DEF IInv, Order, ClicksInOrder
<1>3. /\ click' \in [Clicks -> ClickStates]
      /\ \A d \in Clicks \ {c} : click'[d] = click[d]
      /\ click'[c].at = "open" /\ click'[c].saved = "waiting" /\ click'[c].path = t
  <2>1. [NoClick EXCEPT !.at = "open", !.saved = "waiting", !.path = t] \in ClickStates
    BY States DEF NoClick, ClickStates
  <2>. QED
    BY <2>1 DEF Click, Becomes, NoClick, IInv, Types
<1>4. Moves'
  BY <1>1, <1>2, <1>3, UntoldClick, NobodyIsTold
<1>5. ClicksInOrder'
  BY <1>1, <1>3 DEF IInv, Order, ClicksInOrder
<1>6. SavedInOrder'
  <2>1. \A d \in Clicks : c < d => click[d].at = "none" /\ click[d].saved = "no"
    BY <1>1 DEF IInv, Order, ClicksInOrder
  <2>. QED
    BY <1>3, <2>1 DEF IInv, Order, SavedInOrder
<1>7. StoredIsSaved'
  BY <1>1, <1>2, <1>3 DEF IInv, Order, StoredIsSaved, NoNavigation
<1>8. SearchIsSpared'
  BY <1>1, <1>3 DEF IInv, Order, SearchIsSpared, Searching
<1>9. NewestIsStored'
  BY <1>1, <1>3 DEF IInv, Order, NewestIsStored, NoNavigation
<1>10. Types'
  BY <1>1, <1>3 DEF IInv, Types
<1>. QED
  BY <1>4, <1>5, <1>6, <1>7, <1>8, <1>9, <1>10 DEF IInv, Order

LEMMA SaveStep ==
    ASSUME IInv, NEW c \in Clicks, Save(c) \/ SaveFails(c)
    PROVE  IInv'
<1>. USE PushHandoffAssumption
<1>1. /\ UNCHANGED <<page, messages, givenUp>>
      /\ click[c].saved = "waiting"
      /\ \A d \in Clicks : d < c => click[d].saved # "waiting"
  BY DEF Save, SaveFails, SavesNow
<1>2. PICK saved \in {"yes", "failed", "lost"} :
         /\ Becomes(c, [click[c] EXCEPT !.saved = saved])
         /\ IF saved = "yes"
            THEN /\ stored' = [click |-> c, target |-> None, leased |-> FALSE]
                 /\ UNCHANGED selecting
            ELSE /\ stored' = NoNavigation \/ (saved = "lost" /\ UNCHANGED stored)
                 /\ selecting' = selecting \ {c}
  BY DEF Save, SaveFails
<1>3. /\ click' \in [Clicks -> ClickStates]
      /\ \A d \in Clicks \ {c} : click'[d] = click[d]
      /\ click'[c].saved = saved
      /\ click'[c].at = click[c].at /\ click'[c].path = click[c].path
  <2>1. [click[c] EXCEPT !.saved = saved] \in ClickStates
    BY TypedClick DEF ClickStates
  <2>2. click \in [Clicks -> ClickStates] /\ click[c] \in ClickStates
    BY DEF IInv, Types
  <2>. QED
    BY <1>2, <2>1, <2>2 DEF Becomes, ClickStates
<1>4. stored' \in [click : Clicks \cup {None}, target : Clients \cup {None},
                   leased : BOOLEAN]
  <2>1. NoNavigation \in [click : Clicks \cup {None}, target : Clients \cup {None},
                          leased : BOOLEAN]
    BY DEF NoNavigation
  <2>2. stored \in [click : Clicks \cup {None}, target : Clients \cup {None},
                    leased : BOOLEAN]
    BY DEF IInv, Types
  <2>3. c \in Clicks \cup {None} /\ None \in Clients \cup {None} /\ FALSE \in BOOLEAN
    OBVIOUS
  <2>4. [click |-> c, target |-> None, leased |-> FALSE]
            \in [click : Clicks \cup {None}, target : Clients \cup {None}, leased : BOOLEAN]
    BY <2>3
  <2>. QED
    BY <1>2, <2>1, <2>2, <2>4
<1>5. Moves'
  <2>1. click[c].at # "none"
    BY <1>1 DEF IInv, Order, ClicksInOrder
  <2>. QED
    BY <1>1, <1>2, <1>3, <2>1, UntoldClick, NobodyIsTold DEF NoNavigation
<1>6. ClicksInOrder'
  BY <1>1, <1>3 DEF IInv, Order, ClicksInOrder
<1>7. SavedInOrder'
  BY <1>1, <1>3 DEF IInv, Order, SavedInOrder
<1>8. StoredIsSaved'
  BY <1>1, <1>2, <1>3 DEF IInv, Order, StoredIsSaved, NoNavigation
<1>9. SearchIsSpared'
  BY <1>1, <1>2, <1>3 DEF IInv, Order, SearchIsSpared
<1>10. NewestIsStored'
  <2>1. \A d \in Clicks : click[d].saved \in {"yes", "failed"} => d <= c
    BY <1>1 DEF IInv, Order, SavedInOrder
  <2>2. CASE saved = "yes"
    BY <1>2, <1>3, <2>1, <2>2 DEF NewestIsStored
  <2>3. CASE stored' = NoNavigation
    BY <2>3 DEF NewestIsStored, NoNavigation
  <2>4. CASE saved = "lost" /\ UNCHANGED stored
    BY <1>3, <2>4 DEF IInv, Order, NewestIsStored, NoNavigation
  <2>. QED
    BY <1>2, <2>2, <2>3, <2>4
<1>11. Types'
  BY <1>1, <1>3, <1>4 DEF IInv, Types
<1>. QED
  BY <1>5, <1>6, <1>7, <1>8, <1>9, <1>10, <1>11 DEF IInv, Order

-----------------------------------------------------------------------------
(* Pages                                                                   *)

LEMMA TargetStep ==
    ASSUME IInv, NEW c \in Clicks, Target(c)
    PROVE  IInv'
<1>. USE PushHandoffAssumption
<1>1. /\ UNCHANGED <<selecting, page, messages, givenUp>>
      /\ click[c].at = "opened" /\ click[c] \in ClickStates
  BY TypedClick DEF Target
<1>2. PICK t \in Candidates(c), at \in {"targeted", "superseded", "unstored"} :
         /\ Becomes(c, [Found(click[c], t) EXCEPT !.at = at])
         /\ \/ UNCHANGED stored
            \/ /\ stored.click = c
               /\ stored' = [stored EXCEPT !.target = t, !.leased = TRUE]
  BY DEF Target
<1>3. t \in Clients
  BY <1>1 DEF Candidates, OpenPages, Clients, ClickStates
<1>4. [Found(click[c], t) EXCEPT !.at = at] \in ClickStates
  BY <1>1, <1>3, States DEF ClickStates
<1>5. Advance /\ \A d \in Clicks \ {c} : click'[d] = click[d]
  <2>1. click' \in [Clicks -> ClickStates] /\ \A d \in Clicks \ {c} : click'[d] = click[d]
    BY <1>2, <1>4 DEF Becomes, IInv, Types
  <2>2. /\ click'[c].saved = click[c].saved /\ click'[c].path = click[c].path
        /\ click'[c].at = at
    BY <1>1, <1>2, <1>3, States DEF Becomes, ClickStates, IInv, Types
  <2>. QED
    BY <1>1, <2>1, <2>2 DEF Advance, Searching
<1>6. stored' \in [click : Clicks \cup {None}, target : Clients \cup {None},
                   leased : BOOLEAN]
      /\ stored'.click = stored.click /\ StoredStays
  <2>1. stored \in [click : Clicks \cup {None}, target : Clients \cup {None},
                    leased : BOOLEAN]
    BY DEF IInv, Types
  <2>2. CASE UNCHANGED stored
    BY <2>1, <2>2 DEF StoredStays
  <2>3. CASE stored.click = c /\ stored' = [stored EXCEPT !.target = t, !.leased = TRUE]
    <3>1. stored # NoNavigation
      BY <2>3 DEF NoNavigation
    <3>. QED
      BY <1>3, <2>1, <2>3, <3>1 DEF StoredStays
  <2>. QED
    BY <1>2, <2>2, <2>3
<1>7. Moves'
  <2>1. \A p \in Windows : ~Told(p, c)
    BY <1>1, UntoldClick DEF Searching
  <2>2. stored' = stored \/ stored'.click \in {c, None}
    BY <1>2, <1>6
  <2>. QED
    BY <1>1, <1>5, <2>1, <2>2, NobodyIsTold DEF Advance
<1>8. Types'
  BY <1>1, <1>5, <1>6 DEF IInv, Types, Advance
<1>9. SearchersStay
  BY <1>1 DEF SearchersStay
<1>. QED
  BY <1>5, <1>6, <1>7, <1>8, <1>9, OrderIsKept DEF IInv

\* The page in p is another one by now, that was told of nothing.
LEMMA NewPage ==
    ASSUME IInv, NEW p \in Windows, NEW new \in Pages, Advance, UNCHANGED givenUp,
           page' = [page EXCEPT ![p] = new], new.opened = None,
           new.place.kind = "app" => new.place.path = None,
           ~new.open => new.place.kind = "app",
           \A c \in Clicks : Open(p, c) \notin messages',
           \A m \in messages' :
               \/ m \in messages
               \/ m.kind = "consumed" /\ m.client = Gone /\ click[m.click].at # "none",
           messages' \subseteq Messages,
           \A c \in Clicks : Consumed(p, c) \notin messages',
           \/ UNCHANGED stored /\ p \notin OpenPages
           \/ stored' = [stored EXCEPT !.target = IF @ = p THEN Gone ELSE @]
    PROVE  Moves'
<1>. USE PushHandoffAssumption
<1>1. /\ page' \in [Windows -> Pages] /\ page'[p] = new
      /\ \A q \in Windows \ {p} : page'[q] = page[q]
  BY DEF IInv, Types
<1>2. \A c \in Clicks : ~Told(p, c)' /\ ~Moved(p, c)'
  BY <1>1 DEF Told, Moved, Open
<1>3. \A q \in Windows \ {p}, c \in Clicks : Told(q, c)' => Told(q, c)
  BY <1>1 DEF Told, Open
<1>4. \A q \in Windows \ {p}, c \in Clicks : IsThere(q, c)' = IsThere(q, c)
  BY <1>1 DEF IsThere, Thread, Advance
<1>5. \A q \in Windows \ {p}, c \in Clicks : Moved(q, c)' => Moved(q, c)
  BY <1>1, <1>4 DEF Moved, Open
<1>6. PlacesAreSound'
  BY <1>1 DEF IInv, Moves, PlacesAreSound, OpenPages
<1>7. ToldIsSaved'
  <2>1. SUFFICES ASSUME NEW c \in Clicks, NEW q \in Windows, Told(q, c)'
                 PROVE  /\ (q \in OpenPages)'
                        /\ click'[c].saved = "yes" /\ click'[c].at \notin Searching
    BY DEF ToldIsSaved, Searching
  <2>2. q # p /\ Told(q, c)
    BY <1>2, <1>3, <2>1
  <2>3. q \in OpenPages /\ click[c].saved = "yes" /\ click[c].at \notin Searching
    BY <2>2 DEF IInv, Moves, ToldIsSaved
  <2>. QED
    BY <1>1, <2>2, <2>3 DEF OpenPages, Advance
<1>8. MovedIsTarget'
  <2>1. SUFFICES ASSUME NEW c \in Clicks \ givenUp', NEW q \in Windows,
                        stored'.click = c, Moved(q, c)'
                 PROVE  /\ stored'.target # None
                        /\ \/ stored'.target \in {q, Gone}
                           \/ IsThere(stored.target, c)'
    BY DEF MovedIsTarget
  <2>2. q # p /\ Moved(q, c)
    BY <1>2, <1>5, <2>1
  <2>3. stored \in [click : Clicks \cup {None}, target : Clients \cup {None},
                    leased : BOOLEAN]
    BY DEF IInv, Types
  <2>4. stored.click = c
    BY <2>1, <2>3
  <2>5. /\ stored.target # None
        /\ stored.target \in {q, Gone} \/ IsThere(stored.target, c)
    BY <2>1, <2>2, <2>4 DEF IInv, Moves, MovedIsTarget
  <2>6. CASE stored.target = p
    <3>1. CASE UNCHANGED stored /\ p \notin OpenPages
      BY <2>2, <2>5, <2>6, <3>1 DEF IInv, Moves, PlacesAreSound, IsThere, Thread
    <3>2. CASE stored' = [stored EXCEPT !.target = IF @ = p THEN Gone ELSE @]
      BY <2>3, <2>6, <3>2
    <3>. QED
      BY <3>1, <3>2
  <2>7. CASE stored.target # p
    <3>1. stored'.target = stored.target
      BY <2>3, <2>7
    <3>2. stored.target \in Windows \cup {Gone}
      BY <2>3, <2>5 DEF Clients
    <3>. QED
      BY <1>4, <2>5, <2>7, <3>1, <3>2
  <2>. QED
    BY <2>6, <2>7
<1>9. OneIsMoved'
  <2>1. \A q \in Windows, c \in Clicks : Moved(q, c)' => q # p /\ Moved(q, c)
    BY <1>2, <1>5
  <2>. QED
    BY <2>1 DEF IInv, Moves, OneIsMoved
<1>10. MailIsTrue'
  <2>1. \A m \in messages' : m.kind \in {"open", "direct", "consumed"} => m.click \in Clicks
    BY DEF Messages
  <2>2. \A m \in messages' :
           m.kind \in {"open", "direct", "consumed"} => click'[m.click].at # "none"
    BY <2>1 DEF IInv, Moves, MailIsTrue, Advance
  <2>3. \A q \in Windows, c \in Clicks : Consumed(q, c) \in messages' =>
           Consumed(q, c) \in messages /\ q # p
    BY DEF Consumed
  <2>4. \A q \in Windows, c \in Clicks : Consumed(q, c) \in messages' =>
           \/ page'[q].place = Thread(click'[c].path)
           \/ page'[q].place.kind = "login" /\ page'[q].place.path \in Paths
    BY <1>1, <2>3 DEF IInv, Moves, MailIsTrue, Advance
  <2>. QED
    BY <2>2, <2>4 DEF MailIsTrue, Thread, Consumed
<1>. QED
  BY <1>6, <1>7, <1>8, <1>9, <1>10 DEF Moves

LEMMA PlacesOfPages ==
    /\ NoPage \in Pages /\ NoPage.opened = None /\ NoPage.place.kind = "app"
    /\ NoPage.place.path = None
    /\ \A place \in Places :
           /\ Opened(place) \in Pages
           /\ Opened(place).open /\ Opened(place).opened = None
           /\ Opened(place).place = place
    /\ App \in Places /\ App.path = None
    /\ \A t \in Paths : \A place \in Arrivals(t) : place \in Places /\ place.kind # "app"
<1>1. App \in Places /\ App.path = None /\ App.kind = "app"
  BY DEF App, Places
<1>2. ASSUME NEW place \in Places
      PROVE  /\ Opened(place) \in Pages
             /\ Opened(place).open /\ Opened(place).opened = None
             /\ Opened(place).place = place
  BY DEF Opened, Pages
<1>3. /\ NoPage \in Pages /\ NoPage.opened = None /\ NoPage.place = App
  BY <1>1, <1>2 DEF NoPage, Pages
<1>4. ASSUME NEW t \in Paths, NEW place \in Arrivals(t)
      PROVE  place \in Places /\ place.kind # "app"
  <2>1. place = Thread(t) \/ place = Login(t)
    BY DEF Arrivals
  <2>2. Thread(t) \in Places /\ Thread(t).kind # "app"
    BY DEF Thread, Places
  <2>3. Login(t) \in Places /\ Login(t).kind # "app"
    BY DEF Login, Places
  <2>. QED
    BY <2>1, <2>2, <2>3
<1>. QED
  BY <1>1, <1>2, <1>3, <1>4

\* A page is left for another.
LEMMA LeaveStep ==
    ASSUME IInv, NEW p \in Windows, NEW new \in Pages, Advance,
           UNCHANGED <<selecting, givenUp>>, Leaves(p),
           page' = [page EXCEPT ![p] = new], new.opened = None,
           new.place.kind = "app" => new.place.path = None,
           ~new.open => new.place.kind = "app"
    PROVE  IInv'
<1>. USE PushHandoffAssumption
<1>1. stored' = [stored EXCEPT !.target = IF @ = p THEN Gone ELSE @]
  BY DEF Leaves
<1>2. stored \in [click : Clicks \cup {None}, target : Clients \cup {None},
                  leased : BOOLEAN]
  BY DEF IInv, Types
<1>3. stored' \in [click : Clicks \cup {None}, target : Clients \cup {None},
                   leased : BOOLEAN]
  BY <1>1, <1>2 DEF Clients
<1>4. StoredStays
  <2>1. CASE stored = NoNavigation
    <3>1. stored.target # p
      BY <2>1 DEF NoNavigation
    <3>. QED
      BY <1>1, <1>2, <2>1, <3>1 DEF StoredStays
  <2>2. CASE stored # NoNavigation
    BY <1>1, <1>2, <2>2 DEF StoredStays
  <2>. QED
    BY <2>1, <2>2
<1>5. /\ messages' \subseteq Messages
      /\ \A m \in messages' :
            \/ m \in messages
            \/ m.kind = "consumed" /\ m.client = Gone /\ click[m.click].at # "none"
      /\ \A c \in Clicks : Open(p, c) \notin messages' /\ Consumed(p, c) \notin messages'
  <2>1. messages \subseteq Messages
    BY DEF IInv, Types
  <2>2. \A m \in messages : m.kind = "consumed" =>
           m.click \in Clicks /\ click[m.click].at # "none"
    BY <2>1 DEF Messages, IInv, Moves, MailIsTrue
  <2>3. messages' = {m \in messages : m.client # p}
                    \cup {Consumed(Gone, m.click) :
                             m \in {n \in messages : n.client = p /\ n.kind = "consumed"}}
    BY DEF Leaves
  <2>4. ASSUME NEW m \in messages'
        PROVE  /\ m \in Messages
               /\ \/ m \in messages /\ m.client # p
                  \/ m.kind = "consumed" /\ m.client = Gone /\ click[m.click].at # "none"
    <3>1. CASE m \in messages /\ m.client # p
      BY <2>1, <3>1
    <3>2. CASE \E n \in messages : n.kind = "consumed" /\ m = Consumed(Gone, n.click)
      <4>1. PICK k \in Clicks : m = Consumed(Gone, k) /\ click[k].at # "none"
        BY <2>2, <3>2
      <4>. QED
        BY <4>1, Kinds DEF Consumed, Clients
    <3>. QED
      BY <2>3, <2>4, <3>1, <3>2
  <2>. QED
    BY <2>4 DEF Open, Consumed
<1>6. Moves'
  BY <1>1, <1>5, NewPage
<1>7. page' \in [Windows -> Pages]
  BY DEF IInv, Types
<1>8. Types'
  BY <1>3, <1>5, <1>7 DEF Types, Advance
<1>9. SearchersStay
  BY DEF SearchersStay
<1>. QED
  BY <1>4, <1>6, <1>8, <1>9, OrderIsKept DEF IInv

LEMMA AllForget ==
    ASSUME IInv, NEW p \in Windows, click' = [c \in Clicks |-> Forgets(click[c], p)]
    PROVE  Advance
<1>1. \A c \in Clicks : click[c] \in ClickStates /\ click'[c] = Forgets(click[c], p)
  BY DEF IInv, Types
<1>2. \A c \in Clicks : click'[c] \in ClickStates
  BY <1>1, States
<1>3. click' \in [Clicks -> ClickStates]
  BY <1>2
<1>. QED
  BY <1>1, <1>3, States DEF Advance

LEMMA PageLeaves ==
    ASSUME IInv, NEW p \in Windows, Load(p) \/ Browse(p) \/ Close(p)
    PROVE  IInv'
<1>1. Advance /\ Leaves(p) /\ UNCHANGED <<selecting, givenUp>>
  BY AllForget DEF Load, Browse, Close, NavigatesTo
<1>2. page[p] \in Pages
  BY DEF IInv, Types
<1>3. \E new \in Pages :
         /\ page' = [page EXCEPT ![p] = new] /\ new.opened = None
         /\ new.place.kind = "app" => new.place.path = None
         /\ ~new.open => new.place.kind = "app"
  <2>1. CASE Load(p)
    <3>1. page[p].going \in Paths
      BY <1>2, <2>1 DEF Load, Pages
    <3>2. PICK place \in Arrivals(page[p].going) : page' = [page EXCEPT ![p] = Opened(place)]
      BY <2>1 DEF Load, NavigatesTo
    <3>3. place \in Places /\ place.kind # "app"
      BY <3>1, PlacesOfPages
    <3>. QED
      BY <3>2, <3>3, PlacesOfPages
  <2>2. CASE Browse(p)
    <3>1. CASE page[p].place.kind = "login" /\ page[p].place.path # None
      <4>1. page[p].place.path \in Paths
        BY <1>2, <3>1 DEF Pages, Places
      <4>2. Thread(page[p].place.path) \in Places /\ Thread(page[p].place.path).kind = "thread"
        BY <4>1 DEF Thread, Places
      <4>. QED
        BY <2>2, <3>1, <4>2, PlacesOfPages DEF Browse, NavigatesTo
    <3>2. CASE ~(page[p].place.kind = "login" /\ page[p].place.path # None)
      BY <2>2, <3>2, PlacesOfPages DEF Browse, NavigatesTo
    <3>. QED
      BY <3>1, <3>2
  <2>3. CASE Close(p)
    BY <2>3, PlacesOfPages DEF Close
  <2>. QED
    BY <2>1, <2>2, <2>3
<1>. QED
  BY <1>1, <1>3, LeaveStep

LEMMA NavigateStep ==
    ASSUME IInv, NEW c \in Clicks, NEW p \in Windows, Navigate(c, p)
    PROVE  IInv'
<1>. DEFINE s == Forgets(click[c], p)
<1>1. /\ click[c] \in ClickStates /\ s \in ClickStates
      /\ s.at = click[c].at /\ s.saved = click[c].saved /\ s.path = click[c].path
      /\ click[c].at = "open" /\ UNCHANGED <<selecting, givenUp>>
  BY TypedClick, States DEF Navigate
<1>2. PICK found \in ClickStates :
         /\ click' = [d \in Clicks |-> IF d = c THEN found ELSE Forgets(click[d], p)]
         /\ found.saved = s.saved /\ found.path = s.path
         /\ found.at \in Searching
  <2>1. PICK failed \in Unfocused(c) :
          \E found \in {Found(s, p), [s EXCEPT !.at = "window", !.excluded = failed \cup {p}]} :
             click' = [d \in Clicks |-> IF d = c THEN found ELSE Forgets(click[d], p)]
    BY DEF Navigate
  <2>2. failed \cup {p} \in SUBSET Windows
    BY DEF Unfocused, There, OpenPages
  <2>3. LET found == Found(s, p) IN
           /\ found \in ClickStates /\ found.saved = s.saved /\ found.path = s.path
           /\ found.at \in Searching
    BY <1>1, States DEF Searching, Clients
  <2>4. LET found == [s EXCEPT !.at = "window", !.excluded = failed \cup {p}] IN
           /\ found \in ClickStates /\ found.saved = s.saved /\ found.path = s.path
           /\ found.at \in Searching
    <3>. HIDE DEF s
    <3>. QED
      BY <1>1, <2>2 DEF Searching, ClickStates
  <2>. QED
    BY <2>1, <2>3, <2>4
<1>3. Advance
  <2>1. \A d \in Clicks : click[d] \in ClickStates
    BY DEF IInv, Types
  <2>2. /\ \A d \in Clicks : click'[d] \in ClickStates
        /\ \A d \in Clicks \ {c} : /\ click'[d].saved = click[d].saved
                                   /\ click'[d].path = click[d].path
                                   /\ click'[d].at = click[d].at
        /\ click'[c] = found
    BY <1>2, <2>1, States
  <2>3. click' \in [Clicks -> ClickStates]
    BY <1>2, <2>2
  <2>. QED
    BY <1>1, <1>2, <2>2, <2>3 DEF Advance, Searching
<1>4. PICK place \in Arrivals(s.path) : NavigatesTo(p, place)
  BY DEF Navigate
<1>5. s.path \in Paths
  BY <1>1 DEF IInv, Order, ClicksInOrder
<1>6. place \in Places /\ place.kind # "app"
  BY <1>4, <1>5, PlacesOfPages
<1>. QED
  BY <1>1, <1>3, <1>4, <1>6, PlacesOfPages, LeaveStep DEF NavigatesTo

LEMMA OpenWindowStep ==
    ASSUME IInv, NEW c \in Clicks, NEW p \in Windows, OpenWindow(c, p)
    PROVE  IInv'
<1>1. /\ UNCHANGED <<stored, selecting, messages, givenUp>>
      /\ click[c].at = "window" /\ p \notin OpenPages /\ click[c] \in ClickStates
  BY TypedClick DEF OpenWindow
<1>2. Advance
  BY <1>1, States, Became DEF OpenWindow, IInv, Searching, Clients
<1>3. click[c].path \in Paths
  BY <1>1 DEF IInv, Order, ClicksInOrder
<1>4. PICK place \in Arrivals(click[c].path) \cup {App} :
         page' = [page EXCEPT ![p] = Opened(place)]
  BY DEF OpenWindow
<1>5. place \in Places /\ (place.kind = "app" => place.path = None)
  BY <1>3, <1>4, PlacesOfPages
<1>6. /\ Opened(place) \in Pages /\ Opened(place).open /\ Opened(place).opened = None
      /\ Opened(place).place = place
  BY <1>5, PlacesOfPages
<1>7. \A d \in Clicks : Open(p, d) \notin messages' /\ Consumed(p, d) \notin messages'
  <2>1. page[p].place.kind = "app"
    BY <1>1 DEF IInv, Moves, PlacesAreSound
  <2>2. \A d \in Clicks : Consumed(p, d) \notin messages
    <3>1. \A d \in Clicks : page[p].place # Thread(click[d].path)
      BY <2>1 DEF Thread
    <3>. QED
      BY <2>1, <3>1 DEF IInv, Moves, MailIsTrue
  <2>. QED
    BY <1>1, <2>2 DEF IInv, Moves, ToldIsSaved, Told
<1>8. Moves'
  BY <1>1, <1>2, <1>4, <1>5, <1>6, <1>7, NewPage DEF IInv, Types
<1>9. Types'
  BY <1>1, <1>2, <1>4, <1>6 DEF IInv, Types, Advance
<1>10. SearchersStay /\ StoredStays
  BY <1>1 DEF SearchersStay, StoredStays
<1>. QED
  BY <1>2, <1>8, <1>9, <1>10, OrderIsKept DEF IInv

\* A page hears of a conversation; nobody else does.
LEMMA HearStep ==
    ASSUME IInv, UNCHANGED <<stored, selecting, click, givenUp>>,
           page' \in [Windows -> Pages], messages' \subseteq Messages,
           \A q \in Windows :
               /\ page'[q].open = page[q].open
               /\ page'[q].place.kind = page[q].place.kind
               /\ page'[q].place.kind = "app" => page'[q].place.path = None,
           \A q \in Windows, c \in Clicks :
               /\ IsThere(q, c)' = IsThere(q, c)
               /\ Told(q, c)' => Told(q, c)
               /\ Moved(q, c)' => Moved(q, c),
           MailIsTrue'
    PROVE  IInv'
<1>1. Advance /\ SearchersStay /\ StoredStays
  BY DEF Advance, SearchersStay, StoredStays, IInv, Types
<1>2. PlacesAreSound'
  BY DEF IInv, Moves, PlacesAreSound, OpenPages
<1>3. ToldIsSaved'
  BY DEF IInv, Moves, ToldIsSaved, OpenPages, Searching
<1>4. MovedIsTarget'
  <2>1. SUFFICES ASSUME NEW c \in Clicks \ givenUp', NEW p \in Windows,
                        stored'.click = c, Moved(p, c)'
                 PROVE  /\ stored'.target # None
                        /\ \/ stored'.target \in {p, Gone}
                           \/ IsThere(stored.target, c)'
    BY DEF MovedIsTarget
  <2>2. stored.target \in Windows \cup {None, Gone}
    BY DEF IInv, Types, Clients
  <2>. QED
    BY <2>1, <2>2 DEF IInv, Moves, MovedIsTarget
<1>5. OneIsMoved'
  BY DEF IInv, Moves, OneIsMoved
<1>6. Types'
  BY DEF IInv, Types
<1>. QED
  BY <1>1, <1>2, <1>3, <1>4, <1>5, <1>6, OrderIsKept DEF IInv, Moves

LEMMA ArriveStep ==
    ASSUME IInv, NEW p \in Windows, NEW m \in messages, Arrive(p, m)
    PROVE  IInv'
<1>. DEFINE t == click[m.click].path
<1>1. m \in Messages /\ m.kind \in {"open", "direct"} /\ m.client = p
  BY DEF Arrive, IInv, Types
<1>2. m.click \in Clicks
  BY <1>1 DEF Messages
<1>3. t \in Paths \cup {None}
  BY <1>2, TypedClick DEF ClickStates
<1>4. page[p] \in Pages /\ (page[p].place = Thread(t) \/ page[p].place.kind = "login")
  BY DEF Arrive, IInv, Types
<1>5. page' = [page EXCEPT ![p].place.path = t]
  BY DEF Arrive
<1>. HIDE DEF t
<1>6. page' \in [Windows -> Pages] /\ \A q \in Windows \ {p} : page'[q] = page[q]
  BY <1>3, <1>4, <1>5 DEF IInv, Types, Pages, Places
<1>7. /\ page'[p].open = page[p].open /\ page'[p].opened = page[p].opened
      /\ page'[p].place = [page[p].place EXCEPT !.path = t]
  BY <1>4, <1>5 DEF IInv, Types, Pages
<1>8. /\ page'[p].place.kind = page[p].place.kind /\ page[p].place.kind # "app"
      /\ page[p].place.kind = "login" \/ page'[p].place = page[p].place
  BY <1>4, <1>7 DEF Thread, Pages, Places
<1>9. /\ messages' \subseteq Messages
      /\ \A n \in messages' : n \in messages \/ n.kind # "open"
  <2>1. Consumed(p, m.click) \in Messages /\ Consumed(p, m.click).kind # "open"
    BY <1>2, Kinds DEF Clients, Consumed
  <2>. QED
    BY <2>1 DEF Arrive, IInv, Types
<1>10. UNCHANGED <<stored, selecting, click, givenUp>>
  BY DEF Arrive
<1>11. \A q \in Windows, c \in Clicks : IsThere(q, c)' = IsThere(q, c)
  BY <1>6, <1>8, <1>10 DEF IsThere, Thread
<1>12. \A q \in Windows, c \in Clicks :
          (Told(q, c)' => Told(q, c)) /\ (Moved(q, c)' => Moved(q, c))
  BY <1>6, <1>7, <1>9, <1>11 DEF Told, Moved, Open
<1>13. \A q \in Windows :
          /\ page'[q].open = page[q].open
          /\ page'[q].place.kind = page[q].place.kind
          /\ page'[q].place.kind = "app" => page'[q].place.path = None
  BY <1>6, <1>7, <1>8 DEF IInv, Moves, PlacesAreSound
<1>14. MailIsTrue'
  <2>1. click[m.click].at # "none"
    BY <1>1 DEF IInv, Moves, MailIsTrue
  <2>2. t \in Paths
    BY <1>2, <2>1 DEF IInv, Order, ClicksInOrder, t
  <2>3. \A n \in messages' :
           \/ n \in messages
           \/ m.kind = "open" /\ n = Consumed(p, m.click)
    BY DEF Arrive
  <2>4. \A n \in messages' :
           n.kind \in {"open", "direct", "consumed"} => click'[n.click].at # "none"
    BY <1>10, <2>1, <2>3 DEF IInv, Moves, MailIsTrue, Consumed
  <2>5. ASSUME NEW q \in Windows, NEW c \in Clicks, Consumed(q, c) \in messages'
        PROVE  \/ page'[q].place = Thread(click'[c].path)
               \/ page'[q].place.kind = "login" /\ page'[q].place.path \in Paths
    <3>1. CASE q # p
      <4>1. Consumed(q, c) \in messages
        BY <2>3, <2>5, <3>1 DEF Consumed
      <4>. QED
        BY <1>6, <1>10, <3>1, <4>1 DEF IInv, Moves, MailIsTrue
    <3>2. CASE q = p /\ page[p].place.kind = "login"
      BY <1>4, <1>7, <1>8, <2>2, <3>2 DEF Pages, Places
    <3>3. CASE q = p /\ page[p].place.kind # "login"
      <4>1. page'[p].place = page[p].place /\ page[p].place = Thread(t)
        BY <1>4, <1>8, <3>3
      <4>2. CASE Consumed(q, c) \in messages
        BY <1>10, <3>3, <4>1, <4>2 DEF IInv, Moves, MailIsTrue
      <4>3. CASE c = m.click
        BY <1>10, <3>3, <4>1, <4>3 DEF t
      <4>. QED
        BY <2>3, <2>5, <4>2, <4>3 DEF Consumed
    <3>. QED
      BY <3>1, <3>2, <3>3
  <2>. QED
    BY <2>4, <2>5 DEF MailIsTrue, Thread, Consumed
<1>. QED
  BY <1>6, <1>9, <1>10, <1>11, <1>12, <1>13, <1>14, HearStep

LEMMA GoThereStep ==
    ASSUME IInv, NEW p \in Windows, NEW m \in messages, GoThere(p, m)
    PROVE  IInv'
<1>. DEFINE t  == click[m.click].path
            id == IF m.kind = "open" THEN m.click ELSE None
<1>1. m \in Messages /\ m.kind \in {"open", "direct"} /\ m.client = p
  BY DEF GoThere, IInv, Types
<1>2. m.click \in Clicks /\ (m.kind = "open" => m = Open(p, m.click))
  BY <1>1 DEF Messages, Open
<1>3. t \in Paths \cup {None} /\ id \in Clicks \cup {None}
  BY <1>2, TypedClick DEF ClickStates
<1>4. /\ page[p].place # Thread(t) /\ page[p].place.kind # "login"
      /\ messages' = messages \ {m}
      /\ UNCHANGED page \/ page' = [page EXCEPT ![p].opened = id, ![p].going = t]
      /\ UNCHANGED <<stored, selecting, click, givenUp>>
  BY DEF GoThere
<1>5. /\ page' \in [Windows -> Pages]
      /\ \A q \in Windows : page'[q].open = page[q].open /\ page'[q].place = page[q].place
      /\ \A q \in Windows \ {p} : page'[q].opened = page[q].opened
      /\ page'[p].opened \in {page[p].opened, id}
  <2>. HIDE DEF t, id
  <2>. QED
    BY <1>3, <1>4 DEF IInv, Types, Pages
<1>6. messages' \subseteq Messages
  BY <1>4 DEF IInv, Types
<1>7. \A q \in Windows, c \in Clicks : IsThere(q, c)' = IsThere(q, c)
  BY <1>4, <1>5 DEF IsThere, Thread
<1>8. ASSUME NEW q \in Windows, NEW c \in Clicks
      PROVE  (Told(q, c)' => Told(q, c)) /\ (Moved(q, c)' => Moved(q, c))
  <2>1. Open(q, c) \in messages' => Open(q, c) \in messages
    BY <1>4
  <2>2. page'[q].opened = c =>
            page[q].opened = c \/ (Open(q, c) \in messages /\ ~IsThere(q, c))
    <3>1. CASE q = p /\ page'[p].opened = id /\ id = c
      <4>1. m.kind = "open" /\ m.click = c
        BY <3>1, PushHandoffAssumption
      <4>. QED
        BY <1>2, <1>4, <3>1, <4>1 DEF IsThere
    <3>. QED
      BY <1>5, <3>1
  <2>. QED
    BY <1>7, <2>1, <2>2 DEF Told, Moved, Open
<1>9. \A q \in Windows :
          /\ page'[q].open = page[q].open
          /\ page'[q].place.kind = page[q].place.kind
          /\ page'[q].place.kind = "app" => page'[q].place.path = None
  BY <1>5 DEF IInv, Moves, PlacesAreSound
<1>10. MailIsTrue'
  BY <1>4, <1>5 DEF IInv, Moves, MailIsTrue, Consumed, Thread
<1>. QED
  BY <1>4, <1>5, <1>6, <1>7, <1>8, <1>9, <1>10, HearStep

\* The worker claims a page that signals, and tells it of the navigation.
LEMMA DeliverStep ==
    ASSUME IInv, NEW p \in Windows, Deliver(p) \/ DeliverFails(p)
    PROVE  IInv'
<1>. USE PushHandoffAssumption
<1>0. PICK c \in Clicks : stored.click = c
  BY DEF Deliver, DeliverFails, Eligible, IInv, Order, StoredIsSaved
<1>1. /\ Eligible(p) /\ Claimed(p) /\ UNCHANGED <<selecting, click, page>>
      /\ \A m \in messages' : m \in messages \/ (m = Open(p, c) /\ p \in OpenPages)
  BY <1>0 DEF Deliver, DeliverFails, Sendable, Listens, Open
<1>2. stored \in [click : Clicks \cup {None}, target : Clients \cup {None},
                  leased : BOOLEAN]
  BY DEF IInv, Types
<1>3. /\ click[c].saved = "yes" /\ click[c].at \notin Searching
      /\ click[c].path \in Paths /\ stored # NoNavigation
  BY <1>0, <1>1 DEF Eligible, IInv, Order, StoredIsSaved, SearchIsSpared, ClicksInOrder
<1>4. /\ stored' \in [click : Clicks \cup {None}, target : Clients \cup {None},
                      leased : BOOLEAN]
      /\ stored'.click = c /\ givenUp \subseteq givenUp'
      /\ c \notin givenUp' => /\ stored'.target = p
                              /\ stored.target = p \/ ~Orphaned(p)
  <2>1. CASE UNCHANGED stored
    BY <1>0, <1>1, <1>2, <2>1 DEF Claimed
  <2>2. CASE stored.target # p /\ stored' = [stored EXCEPT !.target = p, !.leased = TRUE]
    BY <1>0, <1>1, <1>2, <2>2 DEF Claimed, Clients
  <2>. QED
    BY <1>1, <2>1, <2>2 DEF Claimed
<1>5. messages' \subseteq Messages
  BY <1>1, <1>3, Kinds DEF IInv, Types
<1>6. Reached(p, click[c].path) => IsThere(p, c)
  <2>1. page[p].place \in Places
    BY DEF IInv, Types, Pages
  <2>2. ASSUME Reached(p, click[c].path), page[p].place.kind # "login"
        PROVE  page[p].place = Thread(click[c].path)
    <3>1. page[p].place.path = click[c].path
      BY <2>2 DEF Reached
    <3>2. page[p].place.path # None
      BY <1>3, <3>1
    <3>3. page[p].place.kind # "app"
      BY <3>2 DEF IInv, Moves, PlacesAreSound
    <3>4. page[p].place.kind = "thread"
      BY <2>1, <2>2, <3>3 DEF Places
    <3>. QED
      BY <2>1, <3>1, <3>4 DEF Places, Thread
  <2>. QED
    BY <2>2 DEF IsThere
<1>7. \A q \in Windows, d \in Clicks :
         /\ IsThere(q, d)' = IsThere(q, d)
         /\ Told(q, d)' => Told(q, d) \/ (q = p /\ d = c /\ p \in OpenPages)
         /\ Moved(q, d)' => Moved(q, d) \/ (q = p /\ d = c /\ ~IsThere(p, c))
  BY <1>1 DEF IsThere, Thread, Told, Moved, Open
<1>8. ASSUME c \notin givenUp', NEW q \in Windows, Moved(q, c)'
      PROVE  q = p \/ (Moved(q, c) /\ IsThere(p, c))
  <2>1. CASE Moved(q, c)
    <3>1. /\ stored.target # None
          /\ stored.target \in {q, Gone} \/ IsThere(stored.target, c)
      BY <1>0, <1>4, <1>8, <2>1 DEF IInv, Moves, MovedIsTarget
    <3>2. stored.target = p \/ ~Orphaned(p)
      BY <1>4, <1>8
    <3>3. stored.target = p \/ IsThere(p, c)
      BY <1>0, <1>1, <1>6, <3>1, <3>2 DEF Eligible
    <3>. QED
      BY <2>1, <3>1, <3>3
  <2>. QED
    BY <1>3, <1>7, <1>8, <2>1
<1>9. PlacesAreSound'
  BY <1>1 DEF IInv, Moves, PlacesAreSound, OpenPages
<1>10. ToldIsSaved'
  BY <1>1, <1>3, <1>7 DEF IInv, Moves, ToldIsSaved, OpenPages, Searching
<1>11. MovedIsTarget'
  <2>1. SUFFICES ASSUME NEW d \in Clicks \ givenUp', NEW q \in Windows,
                        stored'.click = d, Moved(q, d)'
                 PROVE  /\ stored'.target # None
                        /\ \/ stored'.target \in {q, Gone}
                           \/ IsThere(stored.target, d)'
    BY DEF MovedIsTarget
  <2>2. d = c /\ stored'.target = p
    BY <1>4, <2>1
  <2>. QED
    BY <1>7, <1>8, <2>1, <2>2
<1>12. OneIsMoved'
  <2>1. SUFFICES ASSUME NEW d \in Clicks \ givenUp', NEW q \in Windows, NEW r \in Windows,
                        Moved(q, d)', Moved(r, d)'
                 PROVE  q = r
    BY DEF OneIsMoved
  <2>2. CASE Moved(q, d) /\ Moved(r, d)
    BY <1>4, <2>1, <2>2 DEF IInv, Moves, OneIsMoved
  <2>3. CASE ~(Moved(q, d) /\ Moved(r, d))
    <3>1. d = c /\ ~IsThere(p, c)
      BY <1>7, <2>1, <2>3
    <3>. QED
      BY <1>8, <2>1, <3>1
  <2>. QED
    BY <2>2, <2>3
<1>13. Types'
  BY <1>1, <1>4, <1>5 DEF IInv, Types
<1>14. Advance /\ SearchersStay /\ StoredStays
  BY <1>0, <1>1, <1>3, <1>4 DEF Advance, SearchersStay, StoredStays, IInv, Types
<1>15. MailIsTrue'
  <2>1. click[c].at # "none"
    BY <1>3 DEF IInv, Order, ClicksInOrder
  <2>2. \A m \in messages' : m \in messages \/ m = Open(p, c)
    BY <1>1
  <2>. QED
    BY <1>1, <2>1, <2>2 DEF IInv, Moves, MailIsTrue, Consumed, Open, Thread
<1>. QED
  BY <1>9, <1>10, <1>11, <1>12, <1>13, <1>14, <1>15, OrderIsKept DEF IInv, Moves

-----------------------------------------------------------------------------
(* Push handoff: the invariant holds                                       *)

LEMMA InitInvariant == Init => IInv
<1>1. SUFFICES ASSUME Init PROVE IInv
  OBVIOUS
<1>. USE PushHandoffAssumption
<1>2. /\ stored = NoNavigation /\ messages = {} /\ \A c \in Clicks : click[c] = NoClick
      /\ click \in [Clicks -> ClickStates]
  BY <1>1, States DEF Init
<1>3. \A p \in Windows :
         /\ page[p] \in Pages /\ page[p].opened = None
         /\ page[p].place.kind = "app" => page[p].place.path = None
         /\ ~page[p].open => page[p].place.kind = "app"
  <2>1. ASSUME NEW t \in Paths \cup {None}
        PROVE  /\ Thread(t) \in Places /\ Thread(t).kind = "thread"
               /\ Login(t) \in Places /\ Login(t).kind = "login"
    BY DEF Thread, Login, Places
  <2>2. ASSUME NEW p \in Windows
        PROVE  \/ page[p] = NoPage
               \/ \E place \in Places : /\ page[p] = Opened(place)
                                        /\ place.kind = "app" => place.path = None
    <3>1. page[p] \in {NoPage, Opened(App)} \cup {Opened(Thread(t)) : t \in Paths}
                      \cup {Opened(Login(None))}
      BY <1>1 DEF Init
    <3>. QED
      BY <2>1, <3>1, PlacesOfPages
  <2>. QED
    BY <2>2, PlacesOfPages
<1>4. page \in [Windows -> Pages]
  BY <1>1, <1>3 DEF Init
<1>5. Types
  BY <1>2, <1>4 DEF Types, NoNavigation
<1>6. Order
  BY <1>2
  DEF Order, ClicksInOrder, SavedInOrder, StoredIsSaved, SearchIsSpared, Searching,
      NewestIsStored, NoClick
<1>7. \A p \in Windows, c \in Clicks : ~Told(p, c) /\ ~Moved(p, c)
  BY <1>2, <1>3 DEF Told, Moved
<1>8. Moves
  BY <1>2, <1>3, <1>7
  DEF Moves, MailIsTrue, PlacesAreSound, OpenPages, ToldIsSaved, MovedIsTarget, OneIsMoved
<1>. QED
  BY <1>5, <1>6, <1>8 DEF IInv

LEMMA InvariantStep == IInv /\ [Next]_vars => IInv'
<1>1. SUFFICES ASSUME IInv, [Next]_vars PROVE IInv'
  OBVIOUS
<1>2. ASSUME NEW c \in Clicks, ClickStep(c) PROVE IInv'
  BY <1>1, <1>2, SaveStep, SearchStep, NavigateStep, OpenWindowStep, EndStep, TargetStep,
     ReleaseStep
  DEF ClickStep
<1>3. ASSUME NEW c \in Clicks, NEW t \in Paths, Click(c, t) PROVE IInv'
  BY <1>1, <1>3, NewClickStep
<1>4. ASSUME NEW p \in Windows, Deliver(p) \/ DeliverFails(p) PROVE IInv'
  BY <1>1, <1>4, DeliverStep
<1>5. ASSUME NEW p \in Windows, Hear(p) PROVE IInv'
  BY <1>1, <1>5, ArriveStep, GoThereStep DEF Hear
<1>6. ASSUME NEW p \in Windows, Load(p) \/ Browse(p) \/ Close(p) PROVE IInv'
  BY <1>1, <1>6, PageLeaves
<1>7. CASE \/ \E p \in Windows : \/ DeliverNothing(p) \/ SignalReady(p) \/ HearAvailable(p)
                                 \/ \E c \in Clicks : ReleaseDelivery(c, p)
           \/ \E p \in Windows \cup {Gone}, c \in Clicks : Consume(p, c)
           \/ Expire
           \/ \E m \in messages : Lose(m)
  BY <1>1, <1>7, MessageStep
<1>8. CASE Stop
  BY <1>1, <1>8, StopStep
<1>9. CASE LeaseEnds
  BY <1>1, <1>9, LeaseStep
<1>10. CASE UNCHANGED vars
  <2>1. UNCHANGED <<selecting, click, page, stored, givenUp, messages>>
    BY <1>10 DEF vars
  <2>2. messages' \subseteq Messages /\ \A m \in messages' : m \in messages
    BY <1>1, <2>1 DEF IInv, Types
  <2>. QED
    BY <1>1, <2>1, <2>2, AsideStep
<1>. QED
  BY <1>1, <1>2, <1>3, <1>4, <1>5, <1>6, <1>7, <1>8, <1>9, <1>10 DEF Next

LEMMA Invariance == Spec => []IInv
BY InitInvariant, InvariantStep, PTL DEF Spec

-----------------------------------------------------------------------------
(* What a click promises                                                   *)

\* Once the record of a click was written, or could not be written and the
\* previous one was removed, the cache never holds the conversation of an earlier
\* click: writes run in the order of the clicks, and each is written once.
THEOREM NewestIsKept == Spec => []NewestIsStored
<1>1. IInv => NewestIsStored
  BY DEF IInv, Order
<1>. QED
  BY <1>1, Invariance, PTL

\* However pages signal, claim, leave and come back, and whatever messages are
\* lost, a click has no two pages on their way to its conversation, unless its
\* target was given up.
THEOREM OnePageGoes == Spec => []MovesOnePage
<1>1. ASSUME IInv PROVE MovesOnePage
  <2>1. SUFFICES ASSUME NEW c \in Clicks \ givenUp
                 PROVE  Cardinality({p \in OpenPages : page[p].opened = c}) <= 1
    BY DEF MovesOnePage
  <2>. DEFINE going == {p \in OpenPages : page[p].opened = c}
  <2>2. \A p, q \in going : p = q
    BY <1>1 DEF IInv, Moves, OneIsMoved, Moved, OpenPages
  <2>3. CASE going = {}
    <3>1. Cardinality(going) = 0
      BY <2>3, FS_EmptySet
    <3>. QED
      BY <3>1
  <2>4. CASE going # {}
    <3>1. PICK p : p \in going
      BY <2>4
    <3>2. going = {p}
      BY <2>2, <3>1
    <3>3. Cardinality(going) = 1
      BY <3>2, FS_Singleton
    <3>. QED
      BY <3>3
  <2>. QED
    BY <2>3, <2>4
<1>. QED
  BY <1>1, Invariance, PTL

\* A navigation leaves the cache for a page that shows its conversation, or that
\* is at the login and was told where to go; an acknowledgement of an earlier one
\* removes nothing.
THEOREM OnlyTheReachedIsRemoved == Spec => ConsumedWhenReached
<1>1. ASSUME IInv, NEW p \in Windows, NEW c \in Clicks, Consume(p, c), stored' # stored
      PROVE  /\ c = stored.click
             /\ page[p].place \in {Thread(click[c].path)} \cup [kind : {"login"}, path : Paths]
  <2>1. Matches(p, c) /\ Consumed(p, c) \in messages
    BY <1>1 DEF Consume, Hears
  <2>2. \/ page[p].place = Thread(click[c].path)
        \/ page[p].place.kind = "login" /\ page[p].place.path \in Paths
    BY <1>1, <2>1 DEF IInv, Moves, MailIsTrue
  <2>3. page[p].place \in Places
    BY <1>1 DEF IInv, Types, Pages
  <2>4. page[p].place.kind = "login" /\ page[p].place.path \in Paths =>
           page[p].place \in [kind : {"login"}, path : Paths]
    BY <2>3 DEF Places
  <2>. QED
    BY <2>1, <2>2, <2>4 DEF Matches
<1>2. IInv /\ [Next]_vars =>
         [\A p \in Windows, c \in Clicks :
             Consume(p, c) /\ stored' # stored =>
                 /\ c = stored.click
                 /\ page[p].place
                       \in {Thread(click[c].path)} \cup [kind : {"login"}, path : Paths]]_vars
  BY <1>1
<1>. QED
  BY <1>2, Invariance, PTL DEF Spec, ConsumedWhenReached
=============================================================================
