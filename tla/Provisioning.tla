---------------------------- MODULE Provisioning ----------------------------
(***************************************************************************)
(* The command that sets the two participants up (participant_provisioning *)
(* and management/commands/provision_participants.py), run by hand while    *)
(* web workers change scores.                                              *)
(*                                                                         *)
(* A run looks at three tables, one statement after the other: scores,     *)
(* participants, users.  Without locks it only answers; what it writes it  *)
(* decides on a second look that locks the rows it reads, row by row, in   *)
(* one transaction.  Rows committed after a statement began are not in it. *)
(***************************************************************************)
EXTENDS Integers, FiniteSets, Sequences

CONSTANTS
    Runs,      \* executions of the command
    Users,     \* primary keys of the users
    Environments, \* [name, pin: what the environment variables say of each slot]
    GoodNames, \* names of 1 to 30 characters
    GoodPins,  \* four digits
    MaxScore,  \* bound of the model on the scores
    Modes,     \* bound of the model: the modes it is called with
    Setups     \* bound of the model: the databases it may find

Slots    == 1 .. 2
Other(s) == 3 - s

\* A user name is the slot it is reserved for ("participant-1"), or 0.
UserNames == 0 .. 2
UserRows  == [username : UserNames, first : STRING, allowed : BOOLEAN,
              pin : STRING, current : BOOLEAN]
ParticipantRows == [user : Users, name : STRING]
Tables    == {"score", "participant", "user"}

\* What the constraints of the tables keep true of any database.
Consistent(d) ==
    /\ DOMAIN d = Tables
    /\ DOMAIN d.user \subseteq Users /\ DOMAIN d.participant \subseteq Slots
    /\ DOMAIN d.score \subseteq Slots
    /\ \A u \in DOMAIN d.user :
           /\ d.user[u] \in UserRows
           /\ \A v \in DOMAIN d.user \ {u} :
                  d.user[u].username = d.user[v].username => d.user[u].username = 0
    /\ \A s \in DOMAIN d.participant :
           /\ d.participant[s] \in ParticipantRows /\ d.participant[s].user \in DOMAIN d.user
           /\ \A o \in DOMAIN d.participant \ {s} : d.participant[o].user # d.participant[s].user
                                                 /\ d.participant[o].name # d.participant[s].name
    /\ \A s \in DOMAIN d.score : d.score[s] \in 0 .. MaxScore

\* Two keys that a new database can give to its users.
HasFreshKeys(d) ==
    DOMAIN d.participant = {} => \E u, v \in Users \ DOMAIN d.user : u # v

\* Names that no one can choose, for they have a random part.
Temporary == <<"__provision_1", "__provision_2">>

\* Mutant: participants are locked before the scores.
ParticipantsFirst == <<"participant", "score", "user", "inspect">>

\* The order in which they are read and locked, and what comes after them.
ReadingOrder == <<"score", "participant", "user", "inspect">>
Following(t) == ReadingOrder[(CHOOSE i \in 1 .. 3 : ReadingOrder[i] = t) + 1]

ASSUME ProvisioningAssumption ==
    /\ Users \subseteq Nat
    /\ Environments \subseteq [name : [Slots -> STRING], pin : [Slots -> STRING]]
    /\ Modes \subseteq {"default", "check", "reconcile"}
    /\ MaxScore \in Nat
    /\ Temporary[1] \notin GoodNames /\ Temporary[2] \notin GoodNames
    /\ \A d \in Setups : Consistent(d) /\ HasFreshKeys(d)

VARIABLES
    db,     \* the committed rows: a function from keys to rows for each table
    writer, \* slots whose score a web worker has locked and updated
    run     \* the runs

vars == <<db, writer, run>>

-----------------------------------------------------------------------------
\* Reading the environment
LoadSpecs(e) ==
    /\ \A s \in Slots : e.name[s] \in GoodNames /\ e.pin[s] \in GoodPins
    /\ e.name[1] # e.name[2]

\* Inspection of what was read
Canonical(rows) == {u \in DOMAIN rows.user : rows.user[u].username \in Slots}

PasswordStatus(user, pin) ==
    IF user.pin # pin THEN "mismatch" ELSE IF user.current THEN "exact" ELSE "outdated_hash"

\* Whose row a slot is, and what is wrong with it.
OwnUser(rows, s) == rows.user[rows.participant[s].user]
Differences(spec, rows, s) ==
    LET user == OwnUser(rows, s)
        taken == \E u \in Canonical(rows) : /\ rows.user[u].username = s
                                            /\ u # rows.participant[s].user
    IN  {d \in {"username", "foreign", "first", "allowed", "password", "name"} :
            CASE d = "username" -> user.username # s /\ ~taken
              [] d = "foreign"  -> user.username # s /\ taken
              [] d = "first"    -> user.first # spec.name[s]
              [] d = "allowed"  -> ~user.allowed
              [] d = "password" -> PasswordStatus(user, spec.pin[s]) # "exact"
              [] d = "name"     -> rows.participant[s].name # spec.name[s]}

MissingScores(rows) == Slots \ DOMAIN rows.score

\* A score can only lead to the other participant: its two keys are unique and
\* differ, and there are two slots.  So its direction is not kept.
Inspect(spec, rows) ==
    IF DOMAIN rows.participant \cup DOMAIN rows.score \cup Canonical(rows) = {} THEN "empty"
    ELSE IF \/ DOMAIN rows.participant # Slots
            \/ \E s \in Slots : "foreign" \in Differences(spec, rows, s) THEN "unsafe_drift"
    ELSE IF \/ MissingScores(rows) # {}
            \/ \E s \in Slots : Differences(spec, rows, s) # {} THEN "drift"
    ELSE "exact"

-----------------------------------------------------------------------------
NoRow  == [k \in {} |-> 0]
NoRows == [t \in Tables |-> NoRow]

\* The rows of f, and those of g whose keys f has not.
Over(f, g) == [k \in DOMAIN f \cup DOMAIN g |-> IF k \in DOMAIN f THEN f[k] ELSE g[k]]
Merged(wrote) == [t \in Tables |-> Over(wrote[t], db[t])]

\* "at" is the table to read next, "todo" the rows its statement found and has
\* still to lock, "held" the rows locked, "wrote" the rows written and not yet
\* committed.  "exact" and "raced" are for the properties: whether the setup
\* was as asked for at some moment of the run, and whether another committed.
Idle == [at |-> "idle", mode |-> "", spec |-> [name |-> <<>>, pin |-> <<>>],
         locking |-> FALSE, selected |-> FALSE, todo |-> {}, held |-> {}, rows |-> NoRows,
         wrote |-> NoRows, outcome |-> "", exact |-> FALSE, raced |-> FALSE]

Init ==
    /\ db \in Setups
    /\ writer = {}
    /\ run = [r \in Runs |-> Idle]

\* Mutant: a transaction that ends badly is left open.
EndedOpen(q, outcome) == [q EXCEPT !.at = "done", !.outcome = outcome]

Becomes(r, q) == run' = [run EXCEPT ![r] = q]
Ended(q, outcome) == [q EXCEPT !.at = "done", !.outcome = outcome, !.selected = FALSE,
                               !.todo = {}, !.held = {}, !.wrote = NoRows]

\* The environment is read before the database.
Begin(r, e, mode) ==
    LET q == [Idle EXCEPT !.at = ReadingOrder[1], !.mode = mode, !.spec = e,
                          !.locking = (mode = "reconcile"), !.exact = Inspect(e, db) = "exact"]
    IN  /\ run[r].at = "idle"
        /\ Becomes(r, IF LoadSpecs(e) THEN q ELSE Ended(Idle, "refused"))
        /\ UNCHANGED <<db, writer>>

\* The rows a statement asks for: all scores, all participants, then the users
\* of these participants or of a reserved name.
Asked(q) ==
    IF q.at # "user" THEN DOMAIN db[q.at]
    ELSE Canonical(db) \cup {q.rows.participant[s].user : s \in DOMAIN q.rows.participant}

\* A statement without FOR UPDATE reads its rows at once.
Read(r) ==
    LET q == run[r]
    IN  /\ q.at \in Tables /\ ~q.locking
        /\ Becomes(r, [q EXCEPT !.at = Following(q.at),
                                !.rows[q.at] = [k \in Asked(q) |-> db[q.at][k]]])
        /\ UNCHANGED <<db, writer>>

\* A statement with FOR UPDATE finds its rows when it starts ...
Select(r) ==
    LET q == run[r]
    IN  /\ q.at \in Tables /\ q.locking /\ ~q.selected
        /\ Becomes(r, IF Asked(q) = {} THEN [q EXCEPT !.at = Following(q.at)]
                      ELSE [q EXCEPT !.selected = TRUE, !.todo = Asked(q)])
        /\ UNCHANGED <<db, writer>>

Free(t, k, r) ==
    /\ t = "score" => k \notin writer
    /\ \A o \in Runs \ {r} : <<t, k>> \notin run[o].held

\* Mutant: the rows are read without FOR UPDATE.
NextUnlocked(r) ==
    LET q == run[r]
    IN  /\ q.at \in Tables /\ q.selected
        /\ Becomes(r, [q EXCEPT !.todo = {}, !.selected = FALSE, !.at = Following(q.at),
                                !.rows[q.at] = [k \in q.todo |-> db[q.at][k]]])
        /\ UNCHANGED <<db, writer>>

\* ... then locks them in the order of their keys, and reads each as it is by then.
LockNext(r) ==
    LET q    == run[r]
        k    == CHOOSE i \in q.todo : \A j \in q.todo : i <= j
        rest == q.todo \ {k}
    IN  /\ q.at \in Tables /\ q.selected
        /\ Free(q.at, k, r)
        /\ Becomes(r, [q EXCEPT !.todo = rest, !.selected = rest # {},
                                !.at = IF rest = {} THEN Following(q.at) ELSE q.at,
                                !.held = @ \cup {<<q.at, k>>},
                                !.rows[q.at] = Over([i \in {k} |-> db[q.at][i]], @)])
        /\ UNCHANGED <<db, writer>>

Found(q) == Inspect(q.spec, q.rows)

\* Without locks a check or a first look ends here, unless there is nothing yet.
Look(r) ==
    LET q == run[r]
    IN  /\ q.at = "inspect" /\ ~q.locking
        /\ Becomes(r, IF Found(q) = "exact" THEN Ended(q, "unchanged")
                      ELSE IF q.mode = "check" \/ Found(q) # "empty" THEN Ended(q, "refused")
                      ELSE [q EXCEPT !.at = ReadingOrder[1], !.locking = TRUE, !.rows = NoRows])
        /\ UNCHANGED <<db, writer>>

-----------------------------------------------------------------------------
\* The transaction

UserOf(spec, s) == [username |-> s, first |-> spec.name[s], allowed |-> TRUE,
                    pin |-> spec.pin[s], current |-> TRUE]

\* bootstrap_participants: two users with new keys, their participants, the scores.
OneUser(s) == CHOOSE u \in Users \ DOMAIN db.user : TRUE \* mutant: get_or_create
NewUser(s) == CHOOSE u \in Users \ DOMAIN db.user :
                  Cardinality({v \in Users \ DOMAIN db.user : v < u}) = s - 1
Bootstrapped(spec) ==
    [user        |-> [u \in {NewUser(s) : s \in Slots} |->
                         UserOf(spec, CHOOSE s \in Slots : u = NewUser(s))],
     participant |-> [s \in Slots |-> [user |-> NewUser(s), name |-> spec.name[s]]],
     score       |-> [s \in Slots |-> 0]]

\* Display names are unique at every save: those that change are set to
\* temporary ones first, then to what they shall be, slot by slot.
FirstPass(now, name) == [s \in Slots |-> IF now[s] = name[s] THEN now[s] ELSE Temporary[s]]
SecondPass(now, name, n) == [s \in Slots |-> IF s <= n THEN name[s] ELSE FirstPass(now, name)[s]]
NamesClash(now, name) == \E n \in Slots : SecondPass(now, name, n)[1] = SecondPass(now, name, n)[2]

\* reconcile_participants writes what differs, and scores only where there are none.
Reconciled(spec, rows) ==
    LET Differ(kinds) == {s \in Slots : Differences(spec, rows, s) \cap kinds # {}}
        stale == Differ({"username", "first", "allowed", "password"})
        Whose(u) == CHOOSE s \in Slots : u = rows.participant[s].user
    IN  [user        |-> [u \in {rows.participant[s].user : s \in stale} |->
                              UserOf(spec, Whose(u))],
         participant |-> [s \in Differ({"name"}) |->
                              [rows.participant[s] EXCEPT !.name = spec.name[s]]],
         score       |-> [s \in MissingScores(rows) |-> 0]]

\* Unique keys: a row that another transaction committed clashes.
TakenBy(wrote, inserted) ==
    \/ \E u \in DOMAIN db.user : \E v \in DOMAIN wrote.user :
           u # v /\ db.user[u].username = wrote.user[v].username
    \/ \E t \in inserted : DOMAIN db[t] \cap DOMAIN wrote[t] # {}

\* An insert or rename waits for whoever is writing the same key: another run ...
RunWrites(r) == \E o \in Runs \ {r} : run[o].wrote # NoRows

\* ... or the worker that is changing a score by now, on its first insertion again.
InsertedAgain(q) == LET there == MissingScores(q.rows) \cap DOMAIN db.score
                    IN  {s \in there : \A o \in there : s <= o}

\* Mutant: a clash is taken for the work of an equal run.
BootstrapAnyway(r) ==
    LET q == run[r]
        w == Bootstrapped(q.spec)
    IN  /\ q.at = "inspect" /\ q.locking /\ Found(q) = "empty"
        /\ ~RunWrites(r)
        /\ Becomes(r, IF TakenBy(w, Tables) THEN Ended(q, "bootstrapped")
                      ELSE [q EXCEPT !.at = "commit", !.wrote = w, !.outcome = "bootstrapped"])
        /\ UNCHANGED <<db, writer>>

Bootstrap(r) ==
    LET q == run[r]
        w == Bootstrapped(q.spec)
    IN  /\ q.at = "inspect" /\ q.locking /\ Found(q) = "empty"
        /\ ~RunWrites(r)
        /\ Becomes(r, IF TakenBy(w, Tables)
                      THEN Ended(q, "clash")
                      ELSE [q EXCEPT !.at = "commit", !.wrote = w, !.outcome = "bootstrapped"])
        /\ UNCHANGED <<db, writer>>

Reconcile(r) ==
    LET q == run[r]
        w == Reconciled(q.spec, q.rows)
        now == [s \in Slots |-> q.rows.participant[s].name]
    IN  /\ q.at = "inspect" /\ q.locking /\ Found(q) = "drift" /\ q.mode = "reconcile"
        /\ ~RunWrites(r) /\ InsertedAgain(q) \cap writer = {}
        /\ Becomes(r, IF \/ TakenBy(w, {"score"})
                         \/ NamesClash(now, q.spec.name)
                      THEN Ended(q, "clash")
                      ELSE [q EXCEPT !.at = "commit", !.wrote = w, !.outcome = "reconciled"])
        /\ UNCHANGED <<db, writer>>

\* Nothing to write, or nothing that may be written: the transaction ends.
Leave(r) ==
    LET q == run[r]
    IN  /\ q.at = "inspect" /\ q.locking
        /\ \/ Found(q) = "exact" /\ Becomes(r, Ended(q, "unchanged"))
           \/ /\ Found(q) = "unsafe_drift" \/ (Found(q) = "drift" /\ q.mode # "reconcile")
              /\ Becomes(r, Ended(q, "refused"))
        /\ UNCHANGED <<db, writer>>

Commit(r) ==
    LET new == Merged(run[r].wrote)
        Sees(q) == [q EXCEPT !.exact = @ \/ Inspect(q.spec, new) = "exact"]
    IN  /\ run[r].at = "commit"
        /\ db' = new
        /\ run' = [o \in Runs |->
                     IF o = r THEN Ended(Sees(run[r]), run[r].outcome)
                     ELSE IF run[o].at \in {"idle", "done"} THEN run[o]
                     ELSE [Sees(run[o]) EXCEPT !.raced = TRUE]]
        /\ UNCHANGED writer

\* The process or its connection is lost: the transaction is rolled back.
Killed(r) ==
    /\ run[r].at \notin {"idle", "done"}
    /\ Becomes(r, Ended(run[r], "killed"))
    /\ UNCHANGED <<db, writer>>

-----------------------------------------------------------------------------
\* A web worker that changes a score: it locks and updates the row, and its
\* commit checks the participant of the new ScoreChange, with a key-share lock.
WriteScore(s) ==
    /\ s \in DOMAIN db.score \ writer
    /\ Free("score", s, 0) /\ db.score[s] < MaxScore
    /\ writer' = writer \cup {s}
    /\ UNCHANGED <<db, run>>

CommitScore(s) ==
    /\ s \in writer
    /\ \A r \in Runs : <<"participant", s>> \notin run[r].held
    /\ db' = [db EXCEPT !.score[s] = @ + 1]
    /\ writer' = writer \ {s}
    /\ UNCHANGED run

\* A run and a worker that wait for each other.
WaitsForWriter(r, s) ==
    LET q == run[r]
    IN  \/ q.at = "score" /\ q.selected /\ s \in q.todo \cap writer
           /\ \A i \in q.todo : s <= i
        \/ /\ q.at = "inspect" /\ q.locking /\ q.mode = "reconcile" /\ Found(q) = "drift"
           /\ s \in InsertedAgain(q) \cap writer
Circle(r, s) == WaitsForWriter(r, s) /\ <<"participant", s>> \in run[r].held

\* PostgreSQL breaks a circle by failing one of the two.
DeadlockFound(r, s) ==
    /\ Circle(r, s)
    /\ \/ Becomes(r, Ended(run[r], "killed")) /\ UNCHANGED writer
       \/ writer' = writer \ {s} /\ UNCHANGED run
    /\ UNCHANGED db

-----------------------------------------------------------------------------
Step(r) ==
    \/ Read(r) \/ Select(r) \/ LockNext(r) \/ Look(r)
    \/ Bootstrap(r) \/ Reconcile(r) \/ Leave(r) \/ Commit(r)

Next ==
    \/ \E r \in Runs : \/ \E e \in Environments, mode \in Modes : Begin(r, e, mode)
                       \/ Step(r)
                       \/ Killed(r)
    \/ \E s \in Slots : WriteScore(s) \/ CommitScore(s)
    \/ \E r \in Runs, s \in Slots : DeadlockFound(r, s)

Spec == Init /\ [][Next]_vars

\* A run and a worker go on when they can, and a circle is found.
FairSpec ==
    /\ Spec
    /\ \A r \in Runs : SF_vars(Step(r))
    /\ \A s \in Slots : WF_vars(CommitScore(s))
    /\ \A r \in Runs, s \in Slots : WF_vars(DeadlockFound(r, s))

-----------------------------------------------------------------------------
\* The rows keep the constraints of their tables, whoever writes them: no
\* participant is without its user, and no user has two.
TypeOK ==
    /\ Consistent(db) /\ writer \subseteq DOMAIN db.score
    /\ \A r \in Runs :
           /\ run[r].at \in Tables \cup {"idle", "inspect", "commit", "done"}
           /\ run[r].outcome \in {"", "bootstrapped", "unchanged", "reconciled",
                                  "refused", "clash", "killed"}
           /\ run[r].held \subseteq Tables \X (Slots \cup Users)

\* Whatever a run commits, next to other runs and to workers that change
\* scores, makes the setup exactly what its environment asks for, and until
\* then nothing of it is seen: there is never half a setup.  No score that is
\* there is changed, so points given meanwhile are kept; and only the reconcile
\* mode touches a row that is there.
WholeSetups ==
    [][\A r \in Runs : run[r].at = "commit" /\ run'[r].at = "done" =>
          /\ run'[r].outcome # "killed" => Inspect(run[r].spec, db') = "exact"
          /\ \A t \in Tables : \A k \in DOMAIN db[t] :
                 t = "score" \/ run[r].mode # "reconcile" =>
                     k \in DOMAIN db'[t] /\ db'[t][k] = db[t][k]]_vars

\* A run that says the setup matches, or that it made it match, is right: at
\* some moment of the run the committed setup was what it asks for, although
\* it reads the tables one after the other.
AnswersWereTrue ==
    \A r \in Runs :
        run[r].at = "done" /\ run[r].outcome \in {"unchanged", "bootstrapped", "reconciled"}
            => run[r].exact

\* Alone, a run that may go ahead does, even when the two names are exchanged:
\* a unique key refuses it only if another run committed meanwhile.  And locking
\* scores before participants, as score changes do, leaves one way into a circle
\* with them: the score was committed by another run since this one read them.
FailsOnlyInARace ==
    \A r \in Runs :
        /\ run[r].outcome = "clash" => run[r].raced
        /\ \A s \in Slots : Circle(r, s) => s \notin DOMAIN run[r].rows.score /\ run[r].raced

\* Every run ends.
RunsEnd == \A r \in Runs : run[r].at # "idle" ~> run[r].at = "done"
=============================================================================
