# Verification of friendly-rating

A formal model of friendly-rating ("우리 사이"), a private Django application for exactly
two participants who keep a score for each other, discuss its changes, share a diary and
add private media to all of it. The TLA+ modules beside this file model the parts of the
application in which requests, workers, the bucket and the browser can get in each
other's way; TLC checks them on small instances, and TLAPS proves all that is not
liveness for instances of any size.

1. The system  2. Modules, and how they correspond to the code  3. Runs and bounds
4. Fairness and environment  5. Proofs  6. Findings  7. What is not modelled  8. Plan

To check a run: `tlc -config Scores_races.cfg MCScores.tla`. To check proofs:
`tlapm Scores_proofs.tla`. `PROJECT.json` lists the runs, the theorems, the hazards and,
for every definition, the lines of code it stands for. Paths below are relative to
`src/apps/ratings/` unless they begin with `src/`.

## 1. The system

Several web workers (and the management commands, run by hand) work on one PostgreSQL
database and one private R2 bucket. There is no queue, no scheduler and no shared memory:
workers meet in rows and objects only. `src/railway.toml` starts gunicorn without a
worker count, so a deployment may run one or several; locks and comments in the code
provide for several (services/media_uploads.py:211-213), and so do the models.

| component | code | state | operations | what makes it hard |
|---|---|---|---|---|
| private media uploads | services/media_uploads.py, services/media_cleanup.py, media_storage.py | MediaAttachment rows, objects under `pending/` and `media/` | initiate, complete, discard, attach, retire, download, clean up | the bucket is outside the transaction; deletes fail, copies land late, PUT URLs stay usable, leases run out, workers die |
| upload quota | services/media_uploads.py:194-251 | outstanding rows of a participant | initiate | check, then insert, by concurrent requests |
| scores, history, score comments | services/score_changes.py, services/score_change_comments.py, score_rules.py | RelationshipScore, ScoreChange, ScoreChangeComment, attached uploads | change by delta or to a target, comment | lost updates, an upload named twice, lock order, notices before the commit |
| diary entries and comments | services/diary_entries.py, services/diary_entry_comments.py, services/media_uploads.py:1046-1204 | DiaryEntry, DiaryEntryComment, attached uploads and their objects | create, edit, delete, comment | replacement of files by overlapping edits, clean-up after the commit, deletion under a waiting request |
| dashboard page | static/ratings/dashboard.js, templates/ratings/home.html | list shown, form, load sequence | load, submit, refresh, push message | answers out of order, replies that are lost |
| media selection in the browser | static/ratings/dashboard.js:201-780, score_change_thread.js, diary.js | the selected file, its intent and its upload | select, upload, retry, remove, replace | removal while a request is on the way |
| diary page | static/ratings/diary.js, api/views.py:251-500 | cards shown, open editors, form, load sequence | load, post, edit, delete, refresh | loads that overlap changes, a list read in several statements, replies that are lost |
| thread and history pages | static/ratings/score_change_thread.js, diary_entry_thread.js, history.js | thread shown, form, load sequence | load, submit, refresh | refreshes put off until a submission is settled |
| push devices, delivery | services/push_devices.py, notifications.py | PushDevice rows | register, unregister, send, deactivate | devices read before the send and changed after it |
| push handoff | src/templates/service-worker.js:98-600, static/ratings/app.js | one stored navigation with its target and lease | click, target, deliver, acknowledge, take over | windows that die, messages that are dropped |
| provisioning | participant_provisioning/ | users, participants, the two score rows | check, bootstrap, reconcile | concurrent runs, reads of several tables |
| HTTP API | api/ | none of its own | from request to command, from problem to answer | which answers leave it open what was done |
| login, pages, admin, configuration | views/, forms.py, admin.py, src/config/ | sessions and throttles, which belong to Django and axes | | stateless mapping |

How they interact: pages call the API; a view resolves the session, looks the parent row
up and runs one service call; score, comment and diary services attach uploads inside
their own transaction; notices leave in `transaction.on_commit`; initiations run a
clean-up of one expired upload; diary edits retire the files they replace and clean their
objects up after the commit; push messages make open pages reload.

What makes each component correct:

- uploads: accepted bytes stay what was verified; no object outlives the row that could
  find it; a row never comes back from the dead; everything unattached ends removed;
- quota: however many initiations race, count and bytes of what is open stay in bounds;
- scores: the history adds up to the score, an upload is used once, records are never
  rewritten, notices tell of committed records, requests end;
- diary: an entry shows exactly what the last committed request chose, whose objects are
  there; nothing outlives its entry; no deadlock; retired files are never used again;
- dashboard: one submission at a time, no older list over a newer one, what was confirmed
  is shown, an unknown outcome is not answered by sending again;
- devices: nobody has more active devices than the limit, inactive ones do not pile up,
  the devices kept are the newest, registrations do not block each other for good;
- handoff: the conversation clicked last is the one that is opened, on one page, and the
  navigation does not stay in the cache while a page is there to take it;
- provisioning: a setup is made whole or not at all, points given meanwhile are kept, a
  run that reports a match was right, and it fails for others' doing only;
- diary page: nothing saved or deleted is undone on the screen, drafts survive refreshes,
  and what it calls refused was not done, so that nothing is posted twice.

## 2. Modules, and how they correspond to the code

| module | role |
|---|---|
| `MediaUploads` | life of uploads: rows, bucket, copies, workers |
| `MediaPromise` | what it promises: the abstract life cycle of one upload |
| `UploadQuota` | the count under the participant's lock |
| `Scores` | score changes and their comments as transactions with row locks |
| `ScoreLedger` | what it promises: an append-only ledger whose entries follow each other |
| `Diaries` | entries, their files and comments as transactions with row locks |
| `DiaryBook` | what it promises: pages of files that are written once and spent once |
| `ScorePage` | the dashboard's loads and submissions against the server |
| `PushDevices` | registration of devices, their limit, and deactivation after a send |
| `PushHandoff` | the stored navigation of the service worker and the pages that take it |
| `Provisioning` | runs of the provisioning command next to each other and to score changes |
| `ApiAnswers` | what a request may be refused with, stage by stage, and the answer each problem becomes |
| `DiaryPage` | one visit of a diary page: loads, form, editors, and the views they call |
| `MC...` | instances for TLC |
| `..._proofs` | theorems and their proofs; `Browser_proofs` has those of `ScorePage` and `PushHandoff` |

The modules are composed by what they share. An upload that a score, comment or diary
request attaches is `"ready"` in `Scores` and `Diaries`, and `Lose` takes it away at any
time, which is what `MediaUploads` lets discards, expiry and clean-ups do; conversely
`Attach` and `Retire` of `MediaUploads` are what the transactions of `Scores` and
`Diaries` commit. `ScorePage` sees the server as a version of its own score. `DiaryPage`
extends `ApiAnswers`, and sees of `Diaries` the commits, each as one step, as the locks of
`Diaries` make them.

### MediaUploads

`row[u]` is the MediaAttachment row: status, finalization token, object key, whether
`expires_at` has passed (`expired`), and the identity of `expires_at` (`stamp`), which the
clean-up and the discard compare. `object[u][k]` is what the bucket holds under
`pending/<u>` (`Staging`) or `media/<u>/<token>`: nothing, bytes that pass the checks, or
bytes that do not. `copy` is a server-side copy that may land after the caller gave up.
`worker[w]` is the call a worker is in. Each transaction is one action, each call to the
bucket another:

- *initiate*: `Initiate`, `SignUrl`, `SignUrlFails`. Its opportunistic clean-up is the
  clean-up of another worker.
- *client*: `Put`, any time after the URL was offered. *Time*: `Expire`.
- *complete*: a claim takes a lease and a token (`Claim...`), inspects the staging object,
  copies it (`CopyLands` and `CopyIsLost` may come after the call raised), verifies the
  copy, marks the row READY or cleans up: re-check of the reference, delete, acknowledge.
  An expired FINALIZING row is reclaimed: its old object is deleted before a new claim.
- *discard* and *clean-up*: a DELETING tombstone first, then one delete for each key,
  staging first, then the row, if nothing changed it meanwhile.
- *attach*, *retire*: what the other modules' transactions do to the row.
- `Crash` kills a worker anywhere, or stands for a database call that raises.

The inspection (HEAD, then a ranged GET) is one step which may pass or fail when the
object changes; this allows more than the code does.

### UploadQuota

One participant, since participants share no state here. `LockParticipant` waits for the
participant's row, `Count` and `Insert` are two steps of that transaction, and uploads are
attached, retired, discarded and cleaned up between them, without the lock. A retired
diary file counts as outstanding but was admitted long ago: the properties speak of open
uploads only.

### Scores and ScoreLedger

A request waits for the score row (`rowLock`), or, for a comment, for no row; then takes
the rows of its uploads one by one in the order (position, created_at, pk) as its query
saw it (`NextToLock`), and commits or rolls back whole. Since attaching rewrites
`position`, two requests may take rows in opposite orders: `DeadlockVictim` is the
database's detector. Notices are queued until the commit; `NotifyFails` stands for
Firebase errors or for Firebase being off. Texts, media kinds and sizes are abstracted;
a request that names uploads may always be refused, because 24 hours may end while it
waits. `Sent` says which lists of uploads the requests of each participant name.

### Diaries and DiaryBook

`Ask` is the view's lookup, which may find an entry that is gone when its row lock is
granted (`RefuseEntry`). A request waits for the entry's row, then locks the uploads that
it names and those the entry shows, in order of primary key, and commits or rolls back.
Files left out are retired: DELETING in the same transaction, their objects deleted after
the commit (`DeleteObject`, `DeleteRow`, which stand for later clean-ups as well). A new
entry's row is invisible until it commits. `chosen` and `said` are history variables: the
files of the request committed last on an entry, and who commented.

### ScorePage

Loads are numbered like `scoreLoadSequence`; an answer is shown only if its number is the
latest. A submission may wait for an upload, posts, and reloads at its end; the server
decides a POST at any time, or never, and the page settles it at any time, with the
answer or an error. `Reload` is every background load (push message, retry, visibility,
pageshow); `Refresh` restarts the page while its POSTs go on. Preview and toasts are left
out.

### PushDevices

A registration is one transaction: it locks the participants one by one in order of
primary key (`LockParticipant`), then the device row (`Upsert`), then the inactive rows
and, after `Retain` has chosen the newest, the rows beyond the limit (`LockDropped`), and
commits. A DELETE that waited for a row looks at it again (`Doomed`), as PostgreSQL does
under READ COMMITTED. Unregistering is one statement and one action. A send reads the
active devices (`ReadDevices`), hears from Firebase which are unknown (`Sent`), and
deactivates these in one statement that locks row after row. `newer` is the order of
`updated_at`. Primary keys are not used again, so a deleted row leaves the rows that a send
has read (`Commit`). `RollBack` stands for a worker that dies, a statement that fails, and
the victim of the database's deadlock detector.

### PushHandoff

`stored` is the one record in the cache, with the click it stands for (the code has a
random id), its target and whether the 30 seconds since `targetedAt` are not over
(`leased`). `click[c]` is how far the handler of a click has come: it saves the record
(`saved`) while `openConversation` looks for a page (`at`), then targets, announces and, if
that fails, releases. `selecting` is `pendingPushNavigationSelections`. Operations on the
cache are queued by the code and are one action each; the saves of two clicks run in the
order of the clicks. A page is where it is (`place`; a login page has the path that comes
after it), where it is about to go, and `navigatingPushNavigationId` (`opened`).

Client ids are named by the window the client is in. A document that is loaded has a new
id, so `NavigatesTo` and `Close` turn whatever knew the old one into `Gone` (`Forgets`,
`Leaves`); for the record's target this is what `clients.get` finds. Acknowledgements of a
page that was left still arrive, with the URL it had. A READY from a page that was left is
dropped: the answer could reach nobody, but the record would be held for the dead client
until the next READY finds it gone; that state is also reached by leaving the page after
the answer. Pages are interchangeable, so which one is focused or visible is left open.
`Stop` is the browser ending the worker anywhere, `LeaseEnds` and `Expire` are the two
periods, `Lose` drops any message. A save that fails removes the previous record; where
that fails too, or the cache cannot be opened, `saved` is `"lost"`. `givenUp` is a history
variable: the clicks whose target was released, found orphaned, or could not be written.

### Provisioning

A run reads scores, participants and users, one statement after the other
(snapshot.py). Without locks a statement is one step (`Read`); with FOR UPDATE it finds its
rows (`Select`) and locks them one by one in the order of their keys (`LockNext`), reading
each as it is by then. `Inspect` and `Differences` are inspection.py: a setup is empty,
exact, drifted, or drifted beyond repair. The two passes over display names are one step
whose intermediate names are looked at (`NamesClash`). A user name is the slot it is
reserved for, a PIN either the same or not. An insertion of a key that another transaction
is writing waits for it (`RunWrites`, `InsertedAgain`) and fails if that one commits
(`TakenBy`). A web worker holds a score and, at its commit, needs a key-share lock of the
participant (`WriteScore`, `CommitScore`), the order that snapshot.py takes its locks in.

### ApiAnswers and DiaryPage

`ApiAnswers` names a problem after the exception that is raised. `Problems` says which a
command may raise before its commit: the session and its CSRF token, the participant, the
renderer, the parser, the strict serializer, the availability of uploads, what
_raise_media_upload_api_error makes of the service's errors, and anything else. `AnswerTo`
is api_exception_handler with _error_contract.

`DiaryPage` numbers loads like `root.dataset.loadSequence`. A load is the GET of this page,
one step for each statement: the count, the slice, the files. `db[e]` is the version of an
entry's text and files together. `request[m]` joins a request's view (`server`) and what
the page still does for it (`page`); the view may be anywhere when the page hears of a
broken connection or a proxy (`Answers`). `listed` tells whether the card that sent a
request is still in the list: drawing makes new cards, and the old ones go on without
effect. `said` is a history variable, what the page has told its reader. Hear... are the
branches of the handlers, with `RequiresRefresh` for diaryMutationRequiresRefresh and
diaryDeleteRequiresRefresh. The visit ends when the page is left, for the login page, for
page 1 after a post, or for the page before after the last deletion.

Left out: comment counts and paging links, the focus, the files selected in form and
editors with their uploads (a request may be refused for each of their reasons). A failing
load fails at once, since nobody sees what it had read.

## 3. Runs and bounds

Every property has at least one mutant, a plausible slip in the code, that makes its run fail.

| run | what it shows | instance |
|---|---|---|
| `media_takeovers` | accepted bytes stay and `MediaPromise` is implemented, also when leases end while their finalizers still run | 1 upload, 3 workers, 2 tokens, leases that end at any time |
| `media_settles` | no object under `media/` is lost, one finalizer at a time, every upload ends attached or removed | 1 upload, 2 workers, 2 tokens, leases that cover their finalizers |
| `quota_races` | count and bytes of open uploads stay within the quota | 3 workers, 5 uploads, 2 of size 2 and 3 of size 1; two uploads and three bytes allowed |
| `score_races` | history, uploads, notices; `ScoreLedger` is implemented; every request ends, deadlocks included | 2 workers, 1 change, 2 comments of one participant, 3 uploads, lists of two locked in opposite orders |
| `diary_edits` | entries show one choice, stored files, comments and notices, deletion, no circle of waiting; `DiaryBook` is implemented | 2 workers, 2 entries, 2 images in every order, 1 comment; one participant writes, edits and deletes, the other comments and tries to edit |
| `page_loads` | the dashboard under overlapping loads | 2 submissions, 2 other loads, 1 change elsewhere |
| `devices_races` | the limit, the newest stay, few inactive rows, no circle of registrations | 2 workers, 4 installations, limit 2 |
| `handoff_clicks` | one page is moved for a click, the newest click stays, acknowledgements remove their own record | 2 clicks, 2 conversations, 2 windows, login |
| `handoff_arrives` | a navigation leaves the cache | 1 click, 2 windows, one of them deaf, login, posts that are refused |
| `provisioning` | whole setups, true answers, no failure of a run's own making, no circle but over a new score, every run ends | 2 runs, any mode, 2 environments that exchange the names or not, 6 databases |
| `diary_page` | nothing saved is shown older or again, drafts survive refreshes, refusals are true | 2 entries, pages of one, the first or the second page, 3 loads, 2 requests, 1 command from elsewhere while the second page is visited |
| `page_unknown` | expected to fail: section 6 | 1 submission, 1 other load |

Why these bounds are enough to be of use. Uploads of `MediaUploads` share nothing but
workers, so one upload meets every interleaving; three workers are a finalizer, the one
that takes over from it, and a discard or clean-up. `Tokens` bounds the completion
attempts (two suffice for a takeover) and `MaxStamp` the discards that rewrite `expires_at`.
`media_settles` has no symmetry, which liveness forbids, and therefore two workers: a
finalizer and whoever discards, cleans up or completes again meanwhile; for more of them
`NoObjectIsLost` and `OneFinalizer` are proved. Two workers suffice where a hazard is between
two transactions, and two uploads in both orders are the smallest circle of locks.
With two uploads and three bytes allowed, two uploads of size 2 are refused by their bytes
alone and three of size 1 by their count alone. `MaxScore` 1 makes both ends of the range reachable; `MaxChanges`, `MaxComments`,
`MaxPosts`, `MaxReloads` and `MaxElsewhere` bound what participants do. `PushDevices`
has no such bound: a limit of two with four installations is exceeded by any
registration that does not make room, and two workers are two registrations, or one and
a deactivation. Two windows are a target and a page that takes over from it.
`MaxMessages` holds back only what pages send by themselves: with one, a page signals
when nothing else is on its way, and answers and announcements come on top.
`handoff_clicks` leaves out refused posts, which `handoff_arrives` has. Two runs of the
provisioning command are one and what it races with; the databases are empty, exact,
drifted in each way and beyond repair. Of three loads of the diary page one is overtaken
by two; two requests are a post and its repetition, or an edit and a deletion; pages of one
entry make the second page lose or gain one by any command. On the second page a command
from elsewhere moves entries across the boundary; the run leaves it out on the first page,
where the participant's own commands already do. Two comments of one participant let two
requests hold uploads and wait for each other's, so `DeadlockVictim` happens. Workers, tokens,
entries, installations, windows and conversations are interchangeable and reduced by
symmetry, except in the runs with liveness.

`CHECK_DEADLOCK FALSE` is set throughout: ids, tokens and requests of an instance are
finite, and when they are used up and every participant is done, the system rests.

## 4. Fairness and environment

- `media_settles`: weak fairness of each step of a worker that is in a call (a worker runs
  or dies, and both are steps), of time (`Expire`), and of copies, which the bucket ends.
  Strong fairness of clean-ups and of their deletes: they are run again and again, and a
  delete that is repeated often enough succeeds once. The first is up to the
  operator: the repository configures no cron (src/README.md:78-79); the command and
  the clean-up in each initiation are what `Settles` stands on.
- `score_races`: strong fairness of each worker. PostgreSQL grants a row lock first come,
  first served, so a waiting request gets its turn although others come and go.
- `page_loads`: browsers settle every request in the end, with an answer or an error. The
  server need not ever decide a POST.
- `provisioning`: strong fairness of each run, since a row lock is granted in turn, and weak
  fairness of the commits of web workers and of the deadlock detector. A run that is begun
  ends; nobody needs to begin one.
- `handoff_arrives`: pages signal as long as participants look at them: when they are shown
  or become visible, and 1 and 31 seconds after they were loaded. Steps of the worker and
  of pages have strong fairness: messages are not always lost, and the browser does not
  always stop the worker before the end. `Arrives` assumes that some page stays to listen
  and that participants do not leave pages for ever; the five minutes of the record need
  never end. The deaf window has a page that neither hears nor sends, and may have been
  chosen as the target.

`LeaseCovers` says that a lease (120 s) outlasts its finalizer and its copy. The S3 client
connects within 2 s, reads within 5 s and tries once (media_storage.py:137-139), and
gunicorn kills a worker silent for 30 s. The bucket promises no such bound for a copy that
went on after the client gave up, so the theorems do without it where they can. `media_takeovers`
runs without it: a completion that was taken over is still running, and only the comparison
of its token (media_uploads.py:644-648) keeps it from marking the row with a key whose object
is deleted. `media_settles` has `LeaseCovers`, where nobody is taken over before its last
step; `NoOrphan` and `SoleFinalizer` say nothing without it.

The database is PostgreSQL under READ COMMITTED, as in CI and production: a locking query
waits for the row's holder and then sees the committed row. SQLite, the local default,
has coarser locks.

## 5. Proofs

All theorems hold for any sets of workers, uploads and participants that satisfy the ASSUME
of the module, with no bound on numbers of requests except those named above. The
assumptions ask little: that numbers are numbers, that `None` and `Gone` are no worker, no
client and no list of files, that the other participant is another one, and that workers are
finitely many where circles of waiting are excluded. Of `Provisioning`, that the databases
found keep the constraints of their tables, that a new one has keys for two users, and that
nobody is called like a temporary name, which has a random part
(participant_provisioning/operations.py:97-101). Each inductive invariant was checked by TLC
on the instance of its component before it was proved.

*MediaUploads_proofs.* `IInv` has a part for each reason why accepted bytes survive: tokens
are fresh, so a key under `media/` has one writer (`FreshTokens`); a live claim is held by
one worker (`SoleHolder`); a claim that was reclaimed can no longer mark its row
(`ReclaimedIsDead`); an object that is being dropped is one that no row refers to and none
can come to refer to (`UnmarkedIsUnused`, `DroppedIsUnused`); a row whose objects are
being deleted is closed (`DeletedIsClosed`); what was verified cannot change before it is
marked, since its copy has landed (`VerifiedIsGood`, `AcceptedHasLanded`).
`ReadyObjectIntact` is not inductive: in a state where a finalizer is about to delete the
object of a READY row nothing is wrong yet. `Typing`, `RowsStayValid` and
`AcceptedBytesStay` follow, and `PromiseIsKept` maps every step to a step of
`MediaPromise` or to a stutter. None of them needs `LeaseCovers`.

*MediaUploads_proofs, its second part.* With `LeaseCovers`, a finalizer and a copy on its
way are named by their row, whose lease has not ended (`FinalizersAreNamed`,
`CopiesAreNamed`). Whoever takes the row over or removes it therefore does so after they are
gone, and after the delete of the object that they may have left: a clean-up that is still
current has dropped the object of the row's token or will (`PurgeIsCurrent`), a reclaimed
token is replaced only when its object is gone (`RestartIsBare`), and a finalizer
acknowledges only what has no copy on its way (`CleanHasNoCopy`, `AcknowledgedIsGone`).
`NoOrphan` is not inductive: in a state where a copy can land for a row that has moved on
nothing is lost yet. It builds on `IInv` of the first part; `NoObjectIsLost` and
`OneFinalizer` follow.

*Scores_proofs.* `IInv` adds to the properties what a request in flight has seen
(`RequestOK`): the score it read is still the score, since it holds the row; the uploads
it locked are still ready; its notices are of records that exist. `ScoresTyped`,
`NoChangeIsLost`, `UploadsAreUsedOnce`, `NoticesAreTrue` follow, and `LedgerIsKept` is the
refinement.

*UploadQuota_proofs.* Who has counted holds the row (`LockOK`), so open uploads become only
fewer until the insert (`RoomOK`). `QuotaTyped` and `QuotaHolds` follow. Their bytes get no
more either (`RoomFor`). That takes the sum over a set of uploads apart: the prover has no
induction, but a function that adds up every subset exists, since a smallest subset without
one could be made from a smaller one; so any upload can be taken out of a sum first, and
larger sets weigh no less. `BytesHold` follows.

*Diaries_proofs.* A request past its entry's lock holds that lock (`EntryHeld`), so nobody
else changes what the entry shows; the uploads it found usable, or shown by the entry, are
locked by it and are still what it found (`UploadsHeld`); and what the entry shows it has
locked or will lock (`NoneMissed`), which is why the lists it commits replace exactly what
is there. `EntryShowsLastChoice` says nothing of a request that is about to commit, hence
the rest. `LastChoiceIsShown`, `FilesAreStored`, `EntriesGoWhole` and `NoticesAreTrue` follow.
`NoDeadlock`: an entry is locked before any upload, and uploads in the order of their keys,
so whoever waits for an upload waits for a holder that waits for a higher one or for none;
of finitely many workers one is highest. `BookIsKept` maps each step to a step of
`DiaryBook` or a stutter: a commit writes one page, and a file that left a page is spent.

*Browser_proofs, the home page.* Only the answer to the load begun last is shown. When the
server reads for it, it reads everything shown or confirmed by then, and every confirmation
begins a load that is later (`LatestIsNewest`), so `ConfirmedIsListed` and
`ListOnlyAdvances` follow; neither is inductive, for they say nothing of an answer on its
way. A submission begins only when none is under way (`OneUnderway`), whatever the button
says: `OnePostAtATime`. That the numbers of loads do not run out of the model's is counted
(`LoadsAreCounted`).

*PushDevices_proofs.* A registration past the participants holds all their rows, so it is
the only one (`HoldsAll`); earlier ones hold a prefix of the participants in their order
(`HoldsPrefix`), so that whoever holds one holds the first and waits for none of the
others. While the only one removes devices, what would be left of its participant's
devices if it were committed now never exceeds the limit (`RoomLeft`), since a device that
is spared is no longer active. `ActiveWithinLimit` alone is not inductive: it says nothing
of a registration that is about to commit. `DevicesTyped`, `LimitHolds` and
`SwapsCannotDeadlock` follow. For what is removed, `Removals` adds that the rows found
inactive go, so that no more stay than the limit and one (`RoomForRows`), and that of the
active ones only those go that are older than all that stay (`OlderGo`): `RowsAreBounded`
and `NewestAreKept`.

*Browser_proofs, the push handoff.* Navigations are saved in the order of the clicks, each
once (`ClicksInOrder`, `SavedInOrder`), so that nothing older comes after what was written:
`NewestIsKept`. A page is told of a click only after the click has found its target
(`SearchIsSpared`, `ToldIsSaved`), and the worker tells another page than the target only
when that page is there already, in which case it does not move, or when it gives the target
up. So while the record is in the cache, a page that moves is its target, unless the target
has left or was there before (`MovedIsTarget`), and there is one (`OneIsMoved`):
`OnePageGoes`, with posts that fail, which its run leaves out. Acknowledgements come from
pages that are there (`MailIsTrue`): `OnlyTheReachedIsRemoved`.

*DiaryPage_proofs.* Whenever the page says that something is saved or deleted it begins a
load, or is left (`SaidIsTrue`, `LatestIsFresh`): so the only load that may be drawn reads
the list after all that was said, and finds no less, since versions of an entry only grow
and the files are read after the texts: `SavedIsShown`. `SavedStaysShown` says nothing of
what a load has read and not yet shown, hence the rest. The answers that the page takes for
a refusal come only of views that have ended without a commit, and while an entry may be
there unsaid the form is locked, so that no second one is posted (`OnePending`):
`RefusalsHold`. A load that is protected draws nothing while an editor is open:
`DraftsSurvive`.

*Provisioning_proofs.* Rows read under locks are held until the run ends, so at its commit
they are still the rows of the database (`ReadsHold`), and a run about to commit is the only
one that has written (`Apart`): what it merges into the database is consistent and whole
(`CommitFits`), which gives `RowsAreConsistent` and `SetupsAreWhole`. The first look takes
no locks. But rows do not go away, and between two of its statements either nothing was
committed or some setup became whole; a whole setup with the users and the PINs that were
read is the one asked for (`LooksTrue`, `SameSetup`), so that `unchanged` is true of some
moment of the run: `AnswersAreTrue`. A run that nobody raced has missed no row
(`MissesNone`), so no unique key refuses it, not even when it exchanges two names, and no
score it creates is there: `RacesOnly`.

Every invariant and every action property of a passing run is stated by a theorem.
`RowConstraint`, the CheckConstraint of the finalization fields, is a part of `IInv` of
MediaUploads_proofs and only proved. Only model-checked is liveness, which is beyond the
prover: `Settles`, `RequestsEnd`, `SubmissionsEnd`, `RunsEnd` and `Arrives`.

## 6. Findings

`page_unknown`: after a submission with an unknown outcome the dashboard locks the form
until a refresh, as its tests require (tests/js/dashboard.test.cjs:868). But a
load that was asked for before the outcome became unknown (a push message during the
submission is enough) enables the button when its answer arrives (dashboard.js:74), with
a list that may predate the change. The participant may then send it a second time.

Not findings, but worth knowing:

- files retired from the diary count against the quota until they are cleaned up;
- an edit carries the list of files it was opened with and takes down what another tab
  added;
- the opportunistic clean-up always takes the oldest expired upload, so that one failing
  delete hides the ones behind it;
- a comment may be aborted by the database's deadlock detector;
- a send deactivates devices by primary key, also one that has been registered again or by
  the other participant since the send read it; that deactivation and a registration may
  wait for each other, which the comment at services/push_devices.py:29 does not exclude,
  as it speaks of registrations;
- a page that navigates loses its client id, so another page that signals just then takes
  the navigation over although the first is on its way (`MovesOnePage` excuses it by
  `givenUp`);
- the comment at participant_provisioning/snapshot.py:28-29 says that locking scores first
  avoids deadlocks with score changes. One way is left, which `FailsOnlyInARace` states: the
  score was committed by another run after this one read the scores, a worker is changing
  it, and this run, holding the participants, inserts it again;
- a diary list is counted before it is sliced: an entry written in between pushes the
  oldest one off the last page;
- an edit that was committed is answered with a 404 if the entry is deleted before the view
  reads it again, and the diary page says of every answer it does not expect that the edit
  failed; saving again is harmless;
- the diary page's own post or deletion, when its list is read again, discards an editor
  that is open on another card; only refreshes spare it (`DraftsSurviveRefreshes`);
- the load after a post may be overtaken by a refresh that is then not drawn because an
  editor was opened: the new entry is missing until the next load;
- when a record could not be saved, the message sent instead has no id, is not repeated,
  and may come after the one of a later click.

## 7. What is not modelled, and why

The selection of files in the browser (dashboard.js:201-780, score_change_thread.js and
diary.js) is left out: `MediaUploads` takes any call in any order and number, which contains
what these pages send, and an upload they fail to discard expires. The thread pages and the
history load and submit the way `ScorePage` and `DiaryPage` do; a refresh that arrives
during a submission is put off there, which neither module has. The settings page of the
notifications is a preference and the callbacks of the Firebase SDK.

Of the HTTP API, `ApiAnswers` and `DiaryPage` have the diary; the other commands have the
same stages, and `Scores` and `Diaries` have their lookups and rollbacks. Validation is one
refusal: which field is wrong, templates and styles are stateless. The bucket's lifecycle
rule removes an object that a late PUT leaves under `pending/` (README.md:76-77);
`MediaUploads` has it as `BucketLifecycle`. Login, lockout and sessions belong to Django and
django-axes. Admin, migrations and settings have no behaviour of their own at run time; the
constraints of the models and the timeouts are in the modules above.

## 8. Plan

What is left, in this order:

1. One selected file across intent, PUT, completion, retry and removal, composed with the
   server's phases of `MediaPromise`: a removed file's upload is discarded once its id is
   known; a discarded one is never submitted.
2. The thread pages: refreshes put off until a submission is settled, and whether the unlock
   of section 6 can happen there.
3. The clean-up of an expired upload at each initiation, with more than one of them: one
   whose deletes go on failing is always the oldest and hides the others
   (services/media_cleanup.py:129).
