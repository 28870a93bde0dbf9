----------------------------- MODULE ScorePage ------------------------------
(***************************************************************************)
(* The score form and the score list of one open home page                 *)
(* (initializeDashboard in static/ratings/dashboard.js) against the        *)
(* server: submissions with an optional image, loads of the scores that    *)
(* overlap them, answers that are late, lost or unreadable, and a refresh  *)
(* of the page.                                                            *)
(*                                                                         *)
(* The own score of the participant is abstracted to its version, the      *)
(* number of changes the server has recorded; the preview beside the form  *)
(* is left out.                                                            *)
(***************************************************************************)
EXTENDS Naturals, FiniteSets

CONSTANTS
    MaxPosts,     \* bound of the model on the submissions
    MaxReloads,   \* bound of the model on background loads and refreshes
    MaxElsewhere  \* bound of the model on changes from another device

ASSUME ScorePageAssumption ==
    MaxPosts \in Nat \ {0} /\ MaxReloads \in Nat /\ MaxElsewhere \in Nat

\* The first load of the page, one for every submission, and the others.
MaxLoads == 1 + MaxPosts + MaxReloads
Posts    == 1 .. MaxPosts
Loads    == 1 .. MaxLoads
Versions == 0 .. MaxPosts + MaxElsewhere
Nothing  == MaxPosts + MaxElsewhere + 1  \* the list shows no score

VARIABLES
    recorded,     \* the server's version of the own score
    elsewhere,    \* how many of the changes came from another device
    fate,         \* what the server did with each POST
    version,      \* the version each recorded POST made
    stage,        \* how far the page is with each submission
    awaited,      \* the load each submission awaits at its end, 0 for none
    load,         \* how far each load is
    read,         \* the version each load has read
    sequence,     \* scoreLoadSequence
    isSubmitting,
    disabled,     \* submitButton.disabled
    listed,       \* the version the score list shows
    reloads,      \* background loads and refreshes so far
    confirmed,    \* history: the highest version confirmed to this page
    inDoubt       \* history: the loads begun when a POST's outcome became
                  \* unknown, 0 when no outcome is in doubt

server == <<recorded, elsewhere, fate, version>>
loading == <<load, read, sequence>>
pageVars == <<server, stage, awaited, loading, isSubmitting, disabled, listed,
              reloads, confirmed, inDoubt>>

\* The button is disabled in the page as served; the first load begins at once.
PageInit ==
    /\ recorded = 0
    /\ elsewhere = 0
    /\ fate = [s \in Posts |-> "none"]
    /\ version = [s \in Posts |-> 0]
    /\ stage = [s \in Posts |-> "unsent"]
    /\ awaited = [s \in Posts |-> 0]
    /\ load = [l \in Loads |-> IF l = 1 THEN "asked" ELSE "unbegun"]
    /\ read = [l \in Loads |-> 0]
    /\ sequence = 1
    /\ isSubmitting = FALSE
    /\ disabled = TRUE
    /\ listed = Nothing
    /\ reloads = 0
    /\ confirmed = 0
    /\ inDoubt = 0

-----------------------------------------------------------------------------
\* loadScores up to its await: it takes the next number and asks the server.
BeginLoad ==
    /\ sequence' = sequence + 1
    /\ load' = [load EXCEPT ![sequence + 1] = "asked"]
    /\ UNCHANGED read

-----------------------------------------------------------------------------
(* The server.                                                             *)

ServerRecords(s) ==
    /\ fate[s] = "running"
    /\ recorded' = recorded + 1
    /\ version' = [version EXCEPT ![s] = recorded + 1]
    /\ fate' = [fate EXCEPT ![s] = "recorded"]
    /\ UNCHANGED <<elsewhere, stage, awaited, loading, isSubmitting, disabled,
                   listed, reloads, confirmed, inDoubt>>

ServerRefuses(s) ==
    /\ fate[s] = "running"
    /\ fate' = [fate EXCEPT ![s] = "refused"]
    /\ UNCHANGED <<recorded, elsewhere, version, stage, awaited, loading,
                   isSubmitting, disabled, listed, reloads, confirmed, inDoubt>>

ServerReads(l) ==
    /\ load[l] = "asked"
    /\ load' = [load EXCEPT ![l] = "read"]
    /\ read' = [read EXCEPT ![l] = recorded]
    /\ UNCHANGED <<server, stage, awaited, sequence, isSubmitting, disabled,
                   listed, reloads, confirmed, inDoubt>>

\* The participant changes the score from another page or device.
ChangeElsewhere ==
    /\ elsewhere < MaxElsewhere
    /\ elsewhere' = elsewhere + 1
    /\ recorded' = recorded + 1
    /\ UNCHANGED <<fate, version, stage, awaited, loading, isSubmitting,
                   disabled, listed, reloads, confirmed, inDoubt>>

-----------------------------------------------------------------------------
(* Submissions.                                                            *)

\* submitScoreChange up to its first await: the upload of a selected image, or
\* the POST.
StartSubmission(s) ==
    /\ stage[s] = "unsent"
    /\ \A t \in 1 .. s - 1 : stage[t] # "unsent"
    /\ isSubmitting' = TRUE
    /\ disabled' = TRUE
    /\ \/ /\ stage' = [stage EXCEPT ![s] = "uploading"]
          /\ UNCHANGED fate
       \/ /\ stage' = [stage EXCEPT ![s] = "posted"]
          /\ fate' = [fate EXCEPT ![s] = "running"]
    /\ UNCHANGED <<recorded, elsewhere, version, awaited, loading, listed,
                       reloads, confirmed, inDoubt>>

\* A mutant: the button is the only guard of the form.
SubmitByButton(s) ==
    /\ ~disabled
    /\ StartSubmission(s)

\* The submit listener.
Submit(s) ==
    /\ ~disabled
    /\ ~isSubmitting
    /\ StartSubmission(s)

\* The image is uploaded and the POST leaves.
ImageUploaded(s) ==
    /\ stage[s] = "uploading"
    /\ stage' = [stage EXCEPT ![s] = "posted"]
    /\ fate' = [fate EXCEPT ![s] = "running"]
    /\ UNCHANGED <<recorded, elsewhere, version, awaited, loading, isSubmitting,
                   disabled, listed, reloads, confirmed, inDoubt>>

\* The finally block: the button is enabled unless the outcome asks for a
\* refresh.
EndSubmission(s, unlock) ==
    /\ stage' = [stage EXCEPT ![s] = "over"]
    /\ isSubmitting' = FALSE
    /\ disabled' = ~unlock

\* A MediaUploadError: nothing was posted.
ImageFails(s) ==
    /\ stage[s] = "uploading"
    /\ EndSubmission(s, TRUE)
    /\ UNCHANGED <<server, awaited, loading, listed, reloads, confirmed, inDoubt>>

\* A mutant: the form trusts its own answer and does not load the list again.
ConfirmedWithoutReload(s) ==
    /\ stage[s] = "posted"
    /\ fate[s] = "recorded"
    /\ confirmed' = IF version[s] > confirmed THEN version[s] ELSE confirmed
    /\ EndSubmission(s, TRUE)
    /\ UNCHANGED <<server, awaited, loading, listed, reloads, inDoubt>>

\* A readable 201: the form is cleared and loadScores is awaited.
PostConfirmed(s) ==
    /\ stage[s] = "posted"
    /\ fate[s] = "recorded"
    /\ confirmed' = IF version[s] > confirmed THEN version[s] ELSE confirmed
    /\ stage' = [stage EXCEPT ![s] = "reloading"]
    /\ awaited' = [awaited EXCEPT ![s] = sequence + 1]
    /\ BeginLoad
    /\ UNCHANGED <<server, isSubmitting, disabled, listed, reloads, inDoubt>>

\* SCORE_UNCHANGED: the list is loaded again too.
PostUnchanged(s) ==
    /\ stage[s] = "posted"
    /\ fate[s] = "refused"
    /\ stage' = [stage EXCEPT ![s] = "reloading"]
    /\ awaited' = [awaited EXCEPT ![s] = sequence + 1]
    /\ BeginLoad
    /\ UNCHANGED <<server, isSubmitting, disabled, listed, reloads, confirmed,
                   inDoubt>>

\* Any other refusal below 500 in the API's envelope; CSRF_FAILED asks for a
\* refresh, and an expired session redirects after the finally block.
PostRefused(s) ==
    /\ stage[s] = "posted"
    /\ fate[s] = "refused"
    /\ \E unlock \in BOOLEAN : EndSubmission(s, unlock)
    /\ UNCHANGED <<server, awaited, loading, listed, reloads, confirmed, inDoubt>>

\* No answer, an unreadable one, a 2xx that is not the expected change, or a
\* 5xx: the page cannot tell what the server did or will still do.
PostUnknown(s) ==
    /\ stage[s] = "posted"
    /\ EndSubmission(s, FALSE)
    /\ inDoubt' = sequence
    /\ UNCHANGED <<server, awaited, loading, listed, reloads, confirmed>>

\* A mutant: a submission whose load was overtaken is left waiting.
ReloadedByLatest(s) ==
    /\ stage[s] = "reloading"
    /\ awaited[s] = sequence
    /\ load[awaited[s]] = "settled"
    /\ EndSubmission(s, TRUE)
    /\ UNCHANGED <<server, awaited, loading, listed, reloads, confirmed, inDoubt>>

\* The await of loadScores is over, whatever the load came to.
Reloaded(s) ==
    /\ stage[s] = "reloading"
    /\ load[awaited[s]] = "settled"
    /\ EndSubmission(s, TRUE)
    /\ UNCHANGED <<server, awaited, loading, listed, reloads, confirmed, inDoubt>>

-----------------------------------------------------------------------------
(* Loads.                                                                  *)

\* An answer is shown and enables the button, during a submission too.
ShowAnswer(l) ==
    /\ load[l] = "read"
    /\ load' = [load EXCEPT ![l] = "settled"]
    /\ listed' = read[l]
    /\ disabled' = FALSE
    /\ inDoubt' = IF l > inDoubt THEN 0 ELSE inDoubt
    /\ UNCHANGED <<server, stage, awaited, read, sequence, isSubmitting, reloads,
                   confirmed>>

\* A mutant: whichever answer comes is shown.
ShowAny(l) == ShowAnswer(l)

\* Only the answer to the latest load is shown.
ShowLatest(l) ==
    /\ l = sequence
    /\ ShowAnswer(l)

\* A load without a readable answer: the latest one puts an error in the list.
LoadFails(l) ==
    /\ load[l] \in {"asked", "read"}
    /\ load' = [load EXCEPT ![l] = "settled"]
    /\ listed' = IF l = sequence THEN Nothing ELSE listed
    /\ UNCHANGED <<server, stage, awaited, read, sequence, isSubmitting, disabled,
                       reloads, confirmed, inDoubt>>

\* An answer that a later load has overtaken is ignored.
AnswerIgnored(l) ==
    /\ load[l] = "read"
    /\ l # sequence
    /\ load' = [load EXCEPT ![l] = "settled"]
    /\ UNCHANGED <<server, stage, awaited, read, sequence, isSubmitting, disabled,
                   listed, reloads, confirmed, inDoubt>>

\* A push message, the retry button of a failed list, or the page coming back
\* into view begins a load; the first two do so during a submission as well.
Reload ==
    /\ reloads < MaxReloads
    /\ reloads' = reloads + 1
    /\ BeginLoad
    /\ UNCHANGED <<server, stage, awaited, isSubmitting, disabled, listed,
                   confirmed, inDoubt>>

\* The participant refreshes the page: everything it knew is gone, and the POSTs
\* that have left go on without it.  Loads keep their numbering in the model.
Refresh ==
    /\ reloads < MaxReloads
    /\ reloads' = reloads + 1
    /\ stage' = [s \in Posts |-> IF stage[s] = "unsent" THEN "unsent" ELSE "over"]
    /\ isSubmitting' = FALSE
    /\ disabled' = TRUE
    /\ listed' = Nothing
    /\ inDoubt' = 0
    /\ sequence' = sequence + 1
    /\ load' = [l \in Loads |-> IF l <= sequence THEN "settled"
                                ELSE IF l = sequence + 1 THEN "asked"
                                ELSE load[l]]
    /\ UNCHANGED <<server, awaited, read, confirmed>>

Settle(s) ==
    \/ ImageUploaded(s) \/ ImageFails(s)
    \/ PostConfirmed(s) \/ PostUnchanged(s) \/ PostRefused(s) \/ PostUnknown(s)
    \/ Reloaded(s)
SettleLoad(l) == ShowLatest(l) \/ LoadFails(l) \/ AnswerIgnored(l)

PageNext ==
    \/ \E s \in Posts : ServerRecords(s) \/ ServerRefuses(s) \/ Submit(s) \/ Settle(s)
    \/ \E l \in Loads : ServerReads(l) \/ SettleLoad(l)
    \/ ChangeElsewhere
    \/ Reload
    \/ Refresh

PageSpec == PageInit /\ [][PageNext]_pageVars

\* A browser settles every request in the end, with an answer or an error; the
\* server need not ever decide a POST.
FairPageSpec ==
    /\ PageSpec
    /\ \A s \in Posts : WF_pageVars(Settle(s))
    /\ \A l \in Loads : WF_pageVars(SettleLoad(l))

-----------------------------------------------------------------------------
(* Properties.                                                             *)

\* The page waits for one submission at a time: an overlapping load that enables
\* the button does not let the form post again.
OneSubmissionAtATime ==
    Cardinality({s \in Posts : stage[s] \in {"uploading", "posted", "reloading"}}) <= 1

\* Overlapping loads never put an older score in the place of a newer one.
ListNeverGoesBack ==
    [][listed # Nothing /\ listed' # Nothing => listed' >= listed]_pageVars

\* When the page is at rest and its list was loaded, the list has every change
\* that was confirmed to this page.
ListHasConfirmedChanges ==
    (~isSubmitting /\ load[sequence] = "settled" /\ listed # Nothing)
        => listed >= confirmed

\* The form comes back from every submission, whichever loads overtake its own.
SubmissionsEnd == isSubmitting ~> ~isSubmitting

\* "An unverified successful mutation response locks retry until refresh": while
\* the outcome of a POST is in doubt, the button stays disabled until scores
\* asked for after the doubt arose are shown.
UnknownLocksUntilRefresh == inDoubt # 0 => disabled
=============================================================================
