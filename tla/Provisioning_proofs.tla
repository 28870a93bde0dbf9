------------------------- MODULE Provisioning_proofs -------------------------
(***************************************************************************)
(* Runs of the provisioning command, for any number of runs, users and     *)
(* environments, and any score changes beside them.                        *)
(*                                                                         *)
(* The argument: rows read under locks stay locked until the run ends, so  *)
(* at its commit they are still the rows of the database, and a run about  *)
(* to commit is the only one that has written.  A first look takes no      *)
(* locks; but rows do not go away, and between its statements either       *)
(* nothing was committed or some setup became whole, and a whole setup     *)
(* with the users and the PINs that were read is the one asked for.  A run *)
(* that nobody raced has missed no row, so no unique key refuses it.       *)
(***************************************************************************)
EXTENDS Provisioning, FiniteSetTheorems, WellFoundedInduction, TLAPS

-----------------------------------------------------------------------------
(* The inductive invariant                                                 *)

\* Tables of rows of a kind, and what is known of a table.
TableOf(K, R) == UNION {[D -> R] : D \in SUBSET K}
Snapshots == [user : TableOf(Users, UserRows), participant : TableOf(Slots, ParticipantRows),
              score : TableOf(Slots, Nat)]
Keys(t)   == IF t = "user" THEN Users ELSE Slots
RowsOf(t) == IF t = "user" THEN UserRows ELSE IF t = "participant" THEN ParticipantRows ELSE Nat

RunRecords ==
    [at : Tables \cup {"idle", "inspect", "commit", "done"}, mode : Modes \cup {""},
     spec : Environments \cup {Idle.spec}, locking : BOOLEAN, selected : BOOLEAN,
     todo : SUBSET Nat, held : SUBSET (Tables \X (Slots \cup Users)),
     rows : Snapshots, wrote : Snapshots,
     outcome : {"", "bootstrapped", "unchanged", "reconciled", "refused", "clash", "killed"},
     exact : BOOLEAN, raced : BOOLEAN]

Types == run \in [Runs -> RunRecords] /\ writer \subseteq Slots

\* The committed setup is what an environment asks for.
Matches(spec, d) ==
    /\ DOMAIN d.participant = Slots /\ Slots \subseteq DOMAIN d.score
    /\ \A s \in Slots :
           /\ OwnUser(d, s).username = s /\ OwnUser(d, s).first = spec.name[s]
           /\ OwnUser(d, s).allowed /\ OwnUser(d, s).current
           /\ OwnUser(d, s).pin = spec.pin[s]
           /\ d.participant[s].name = spec.name[s]

Active(q)  == q.at \notin {"idle", "done"}
Locking(q) == Active(q) /\ q.locking

\* How far a run is: what it has and what it has not yet.
Stages(q) ==
    /\ q.at = "idle" => q.outcome = ""
    /\ ~Active(q) \/ ~q.locking => q.held = {}
    /\ Active(q) => q.mode \in Modes /\ q.spec \in Environments /\ LoadSpecs(q.spec)
    /\ q.at # "commit" => q.wrote = NoRows
    /\ q.at = "commit" => q.locking /\ q.wrote # NoRows
    /\ Active(q) => q.outcome = IF q.at = "commit" THEN q.outcome ELSE ""
    /\ q.at = "commit" => q.outcome \in {"bootstrapped", "reconciled"}
    /\ q.selected => q.at \in Tables /\ q.locking /\ q.todo # {} /\ q.todo \subseteq DOMAIN db[q.at]
    /\ q.at \in {"score", "participant"} => DOMAIN q.rows.user = {}
    /\ q.at = "score" => DOMAIN q.rows.participant = {}
    /\ q.at \in Tables /\ ~q.selected => DOMAIN q.rows[q.at] = {}

\* Nothing that was read goes away; rows read with locks are still the same.
ReadsHold(q) ==
    Active(q) =>
        /\ DOMAIN q.rows.score \subseteq DOMAIN db.score
        /\ \A s \in DOMAIN q.rows.participant : q.rows.participant[s].user \in DOMAIN db.user
        /\ q.locking =>
               /\ \A t \in Tables, k \in Slots \cup Users :
                      <<t, k>> \in q.held <=> k \in DOMAIN q.rows[t]
               /\ \A k \in DOMAIN q.rows.participant :
                      k \in DOMAIN db.participant /\ q.rows.participant[k] = db.participant[k]
               /\ \A k \in DOMAIN q.rows.user :
                      k \in DOMAIN db.user /\ q.rows.user[k] = db.user[k]

\* The users of the participants it has read are among those it reads.
UsersAreRead(q) ==
    Locking(q) => \A s \in DOMAIN q.rows.participant :
        /\ q.selected /\ q.at = "user" =>
               q.rows.participant[s].user \in q.todo \cup DOMAIN q.rows.user
        /\ q.at \in {"inspect", "commit"} => q.rows.participant[s].user \in DOMAIN q.rows.user

\* Without a race it misses no row.
MissesNone(q) ==
    Locking(q) /\ ~q.raced =>
        /\ q.at # "score" => DOMAIN db.score \subseteq DOMAIN q.rows.score
        /\ q.at \notin {"score", "participant"} =>
               DOMAIN db.participant \subseteq DOMAIN q.rows.participant
        /\ q.at \in {"inspect", "commit"} => Canonical(db) \subseteq DOMAIN q.rows.user
        /\ q.selected =>
               IF q.at = "user" THEN Canonical(db) \subseteq q.todo \cup DOMAIN q.rows.user
               ELSE DOMAIN db[q.at] \subseteq q.todo \cup DOMAIN q.rows[q.at]

\* A setup that is as asked for is noticed.
ExactIsNoticed(q) == Active(q) /\ Matches(q.spec, db) => q.exact

\* Between the statements of a first look: what was read is there, or another
\* run has made a setup whole since.
SomeSetupIsWhole == \E e \in Environments : Matches(e, db)
SameParticipants(q) ==
    /\ DOMAIN q.rows.participant = DOMAIN db.participant
    /\ \A s \in DOMAIN db.participant : q.rows.participant[s] = db.participant[s]
LooksTrue(q) ==
    ~q.locking => /\ q.at = "user" => SameParticipants(q) \/ SomeSetupIsWhole
                  /\ q.at = "inspect" /\ Matches(q.spec, q.rows) => q.exact

Positive == {"unchanged", "bootstrapped", "reconciled"}
AnswerFits(q) ==
    /\ q.at = "done" /\ q.outcome \in Positive => q.exact
    /\ q.outcome = "clash" => q.raced

\* What is about to be committed makes the setup whole.
CommitFits(q) ==
    q.at = "commit" =>
        /\ Consistent(Merged(q.wrote)) /\ Matches(q.spec, Merged(q.wrote))
        /\ \A t \in Tables : \A k \in DOMAIN q.wrote[t] \cap DOMAIN db[t] :
               t # "score" /\ q.mode = "reconcile" /\ <<t, k>> \in q.held

RunFits(q) ==
    /\ Stages(q) /\ ReadsHold(q) /\ UsersAreRead(q) /\ MissesNone(q)
    /\ ExactIsNoticed(q) /\ LooksTrue(q) /\ AnswerFits(q) /\ CommitFits(q)

\* A row has one holder, and one run at a time has written.
Apart(p, q) == p.held \cap q.held = {} /\ ~(p.at = "commit" /\ q.at = "commit")

Database ==
    /\ Consistent(db) /\ HasFreshKeys(db)
    /\ \A s \in writer : s \in DOMAIN db.score /\ db.score[s] < MaxScore

IInv ==
    /\ Types /\ Database
    /\ \A r \in Runs : RunFits(run[r])
    /\ \A r \in Runs, o \in Runs : r # o => Apart(run[r], run[o])

-----------------------------------------------------------------------------
LEMMA TableHas ==
    ASSUME NEW K, NEW R, NEW f \in TableOf(K, R)
    PROVE  DOMAIN f \subseteq K /\ \A k \in DOMAIN f : f[k] \in R
BY DEF TableOf

LEMMA TableIs ==
    ASSUME NEW K, NEW R, NEW D \in SUBSET K, NEW f \in [D -> R]
    PROVE  f \in TableOf(K, R)
BY DEF TableOf

LEMMA SnapshotHas ==
    ASSUME NEW s \in Snapshots
    PROVE  /\ DOMAIN s = Tables
           /\ \A t \in Tables : /\ DOMAIN s[t] \subseteq Keys(t)
                                /\ \A k \in DOMAIN s[t] : s[t][k] \in RowsOf(t)
<1>1. DOMAIN s = Tables
  BY DEF Snapshots, Tables
<1>2. /\ s.user \in TableOf(Users, UserRows)
      /\ s.participant \in TableOf(Slots, ParticipantRows)
      /\ s.score \in TableOf(Slots, Nat)
  BY DEF Snapshots
<1>. QED
  BY <1>1, <1>2, TableHas DEF Tables, Keys, RowsOf

LEMMA SnapshotWith ==
    ASSUME NEW s \in Snapshots, NEW t \in Tables, NEW D \in SUBSET Keys(t),
           NEW f \in [D -> RowsOf(t)]
    PROVE  /\ [s EXCEPT ![t] = f] \in Snapshots
           /\ \A o \in Tables : [s EXCEPT ![t] = f][o] = IF o = t THEN f ELSE s[o]
<1>. f \in TableOf(Keys(t), RowsOf(t))
  BY TableIs
<1>1. CASE t = "user"
  BY <1>1 DEF Snapshots, Tables, Keys, RowsOf
<1>2. CASE t = "participant"
  BY <1>2 DEF Snapshots, Tables, Keys, RowsOf
<1>3. CASE t = "score"
  BY <1>3 DEF Snapshots, Tables, Keys, RowsOf
<1>. QED
  BY <1>1, <1>2, <1>3 DEF Tables

LEMMA DatabaseHas ==
    ASSUME IInv, NEW t \in Tables
    PROVE  /\ DOMAIN db = Tables /\ DOMAIN db[t] \subseteq Keys(t)
           /\ \A k \in DOMAIN db[t] : db[t][k] \in RowsOf(t)
BY ProvisioningAssumption DEF IInv, Database, Consistent, Tables, Keys, RowsOf

LEMMA NoRowsIs == NoRows \in Snapshots /\ \A t \in Tables : DOMAIN NoRows[t] = {}
<1>1. NoRow \in [{} -> UserRows] /\ NoRow \in [{} -> ParticipantRows] /\ NoRow \in [{} -> Nat]
  BY DEF NoRow
<1>2. /\ NoRow \in TableOf(Users, UserRows) /\ NoRow \in TableOf(Slots, ParticipantRows)
      /\ NoRow \in TableOf(Slots, Nat)
  BY <1>1, TableIs
<1>3. NoRows = [user |-> NoRow, participant |-> NoRow, score |-> NoRow]
  BY DEF NoRows, Tables
<1>4. NoRows \in Snapshots
  BY <1>2, <1>3 DEF Snapshots
<1>. QED
  BY <1>4 DEF NoRows, NoRow

LEMMA ExactIs ==
    ASSUME NEW spec, NEW d
    PROVE  (Inspect(spec, d) = "exact") <=> Matches(spec, d)
<1>1. ASSUME NEW s \in Slots
      PROVE  Differences(spec, d, s) = {} <=>
                 /\ OwnUser(d, s).username = s /\ OwnUser(d, s).first = spec.name[s]
                 /\ OwnUser(d, s).allowed /\ OwnUser(d, s).current
                 /\ OwnUser(d, s).pin = spec.pin[s]
                 /\ d.participant[s].name = spec.name[s]
  BY DEF Differences, PasswordStatus
<1>2. ASSUME NEW s \in Slots, Differences(spec, d, s) = {}
      PROVE  "foreign" \notin Differences(spec, d, s)
  BY <1>2
<1>3. 1 \in Slots
  BY DEF Slots
<1>. QED
  BY <1>1, <1>2, <1>3 DEF Inspect, Matches, MissingScores

\* The keys of a table have a smallest one.
LEMMA KeysMin ==
    ASSUME NEW S \in SUBSET Nat, S # {}
    PROVE  \E k \in S : \A j \in S : k <= j
<1>1. PICK x \in S : TRUE
  OBVIOUS
<1>. DEFINE Under(k) == {j \in S : j < k}
            Low      == {k \in S : k <= x}
            Unders   == {Under(k) : k \in Low}
<1>2. IsFiniteSet(0 .. x)
  BY FS_Interval
<1>3. Unders \subseteq FiniteSubsetsOf(0 .. x) /\ Unders # {}
  <2>1. ASSUME NEW k \in Low PROVE Under(k) \in FiniteSubsetsOf(0 .. x)
    <3>1. ASSUME NEW j \in S, j < k PROVE j \in 0 .. x
      BY <3>1
    <3>2. Under(k) \subseteq 0 .. x
      BY <3>1
    <3>. QED
      BY <3>2, <1>2, FS_Subset DEF FiniteSubsetsOf
  <2>2. x \in Low
    OBVIOUS
  <2>. QED
    BY <2>1, <2>2
<1>4. PICK T \in Unders : \A U \in Unders : ~ (<<U, T>> \in StrictSubsetOrdering(0 .. x))
  <2>. HIDE DEF Unders
  <2>. QED
    BY <1>2, <1>3, FS_StrictSubsetOrderingWellFounded, WFMin
<1>5. PICK k \in S : k <= x /\ T = Under(k)
  BY <1>4
<1>6. ASSUME NEW j \in S, j < k PROVE FALSE
  <2>1. Under(j) \in Unders
    BY <1>5, <1>6
  <2>2. Under(j) \subseteq Under(k)
    <3>1. ASSUME NEW i \in S, i < j PROVE i < k
      <4>1. i \in Nat /\ j \in Nat /\ k \in Nat
        OBVIOUS
      <4>. QED
        BY <4>1, <3>1, <1>6
    <3>. QED
      BY <3>1
  <2>3. j \in Under(k) /\ j \notin Under(j)
    BY <1>6
  <2>4. <<Under(j), T>> \in StrictSubsetOrdering(0 .. x)
    <3>. HIDE DEF Unders, Under
    <3>. QED
      BY <1>3, <1>4, <1>5, <2>1, <2>2, <2>3 DEF StrictSubsetOrdering, FiniteSubsetsOf
  <2>. QED
    BY <1>4, <2>1, <2>4
<1>. QED
  BY <1>5, <1>6

-----------------------------------------------------------------------------
(* Steps of one run                                                        *)

LEMMA FollowingIs ==
    /\ Following("score") = "participant" /\ Following("participant") = "user"
    /\ Following("user") = "inspect"
<1>1. \A i \in 1 .. 3 : ReadingOrder[i] = IF i = 1 THEN "score"
                                         ELSE IF i = 2 THEN "participant" ELSE "user"
  BY DEF ReadingOrder
<1>2. ReadingOrder[2] = "participant" /\ ReadingOrder[3] = "user" /\ ReadingOrder[4] = "inspect"
  BY DEF ReadingOrder
<1>. DEFINE Place(t) == CHOOSE i \in 1 .. 3 : ReadingOrder[i] = t
<1>3. Place("score") = 1 /\ Place("participant") = 2 /\ Place("user") = 3
  BY <1>1
<1>4. \A t \in Tables : Following(t) = ReadingOrder[Place(t) + 1]
  BY DEF Following
<1>. HIDE DEF Place
<1>. QED
  BY <1>2, <1>3, <1>4 DEF Tables

LEMMA FitsAlike ==
    ASSUME NEW q, db' = db
    PROVE  RunFits(q)' <=> RunFits(q)
<1>1. /\ Stages(q)' <=> Stages(q)
      /\ ReadsHold(q)' <=> ReadsHold(q)
      /\ UsersAreRead(q)' <=> UsersAreRead(q)
  BY DEF Stages, ReadsHold, UsersAreRead
<1>2. /\ MissesNone(q)' <=> MissesNone(q)
      /\ ExactIsNoticed(q)' <=> ExactIsNoticed(q)
  BY DEF MissesNone, ExactIsNoticed
<1>3. Merged(q.wrote)' = Merged(q.wrote)
  BY DEF Merged
<1>4. /\ LooksTrue(q)' <=> LooksTrue(q)
      /\ AnswerFits(q)' <=> AnswerFits(q)
      /\ CommitFits(q)' <=> CommitFits(q)
  BY <1>3 DEF LooksTrue, AnswerFits, CommitFits, SameParticipants, SomeSetupIsWhole
<1>. QED
  BY <1>1, <1>2, <1>4 DEF RunFits

LEMMA FitsAs ==
    ASSUME NEW o \in Runs, NEW q, run'[o] = q
    PROVE  RunFits(run[o])' <=> RunFits(q)'
<1>1. /\ Stages(run[o])' <=> Stages(q)'
      /\ ReadsHold(run[o])' <=> ReadsHold(q)'
      /\ UsersAreRead(run[o])' <=> UsersAreRead(q)'
  BY DEF Stages, ReadsHold, UsersAreRead, Active, Locking
<1>2. /\ MissesNone(run[o])' <=> MissesNone(q)'
      /\ ExactIsNoticed(run[o])' <=> ExactIsNoticed(q)'
      /\ LooksTrue(run[o])' <=> LooksTrue(q)'
  BY DEF MissesNone, ExactIsNoticed, LooksTrue, SameParticipants, Active, Locking
<1>3. /\ AnswerFits(run[o])' <=> AnswerFits(q)'
      /\ CommitFits(run[o])' <=> CommitFits(q)'
  BY DEF AnswerFits, CommitFits, Merged
<1>. QED
  BY <1>1, <1>2, <1>3 DEF RunFits

\* A step of one run that commits nothing.
LEMMA RunStep ==
    ASSUME IInv, NEW r \in Runs, NEW q \in RunRecords, Becomes(r, q),
           UNCHANGED <<db, writer>>, RunFits(q),
           \A o \in Runs : o # r => Apart(q, run[o])
    PROVE  IInv'
<1>1. \A o \in Runs : run'[o] = IF o = r THEN q ELSE run[o]
  BY DEF IInv, Types, Becomes
<1>2. Types'
  BY DEF IInv, Types, Becomes
<1>3. Database'
  BY DEF IInv, Database
<1>4. \A o \in Runs : RunFits(run[o])'
  <2>1. ASSUME NEW o \in Runs, o # r PROVE RunFits(run[o])'
    <3>1. run'[o] = run[o] /\ RunFits(run[o])
      BY <1>1, <2>1 DEF IInv
    <3>2. PICK p : p = run[o]
      OBVIOUS
    <3>3. RunFits(p)
      BY <3>1, <3>2
    <3>4. RunFits(p)'
      BY <3>3, FitsAlike
    <3>. QED
      BY <3>1, <3>2, <3>4, FitsAs
  <2>2. RunFits(run[r])'
    BY <1>1, FitsAlike, FitsAs
  <2>. QED
    BY <2>1, <2>2
<1>5. \A o \in Runs, p \in Runs : o # p => Apart(run[o], run[p])'
  BY <1>1 DEF IInv, Apart
<1>. QED
  BY <1>2, <1>3, <1>4, <1>5 DEF IInv, Apart

\* A run at its end.
LEMMA EndFits ==
    ASSUME NEW q \in RunRecords,
           NEW outcome \in {"bootstrapped", "unchanged", "reconciled", "refused", "clash", "killed"},
           outcome \in Positive => q.exact, outcome = "clash" => q.raced
    PROVE  /\ Ended(q, outcome) \in RunRecords
           /\ Ended(q, outcome).at = "done" /\ Ended(q, outcome).held = {}
           /\ RunFits(Ended(q, outcome))
<1>. DEFINE e == Ended(q, outcome)
<1>1. e \in RunRecords
  BY NoRowsIs DEF Ended, RunRecords
<1>2. /\ e.at = "done" /\ e.held = {} /\ e.wrote = NoRows /\ ~e.selected
      /\ e.outcome = outcome /\ e.exact = q.exact /\ e.raced = q.raced
  BY DEF Ended, RunRecords
<1>. HIDE DEF e
<1>. QED
  BY <1>1, <1>2 DEF RunFits, Stages, ReadsHold, UsersAreRead, MissesNone, ExactIsNoticed,
     LooksTrue, AnswerFits, CommitFits, Active, Locking, Tables, Positive, e

LEMMA EndStep ==
    ASSUME IInv, NEW r \in Runs,
           NEW outcome \in {"unchanged", "refused", "clash", "killed"},
           Becomes(r, Ended(run[r], outcome)), UNCHANGED <<db, writer>>,
           outcome = "unchanged" => run[r].exact, outcome = "clash" => run[r].raced
    PROVE  IInv'
<1>1. run[r] \in RunRecords
  BY DEF IInv, Types
<1>. DEFINE e == Ended(run[r], outcome)
<1>2. e \in RunRecords /\ e.at = "done" /\ e.held = {} /\ RunFits(e)
  BY <1>1, EndFits DEF Positive
<1>3. \A o \in Runs : o # r => Apart(e, run[o])
  BY <1>2 DEF Apart
<1>. QED
  BY <1>2, <1>3, RunStep

-----------------------------------------------------------------------------
(* Reading                                                                 *)

LEMMA BeginStep ==
    ASSUME IInv, NEW r \in Runs, NEW e \in Environments, NEW mode \in Modes, Begin(r, e, mode)
    PROVE  IInv'
<1>. DEFINE q == [Idle EXCEPT !.at = ReadingOrder[1], !.mode = mode, !.spec = e,
                              !.locking = (mode = "reconcile"), !.exact = Inspect(e, db) = "exact"]
<1>1. Idle \in RunRecords
  BY NoRowsIs DEF Idle, RunRecords, Tables
<1>2. CASE ~LoadSpecs(e)
  <2>. DEFINE d == Ended(Idle, "refused")
  <2>1. d \in RunRecords /\ d.held = {} /\ d.at = "done" /\ RunFits(d)
    BY <1>1, EndFits DEF Positive
  <2>2. Becomes(r, d) /\ UNCHANGED <<db, writer>>
    BY <1>2 DEF Begin
  <2>3. \A o \in Runs : o # r => Apart(d, run[o])
    BY <2>1 DEF Apart
  <2>. HIDE DEF d
  <2>. QED
    BY <2>1, <2>2, <2>3, RunStep
<1>3. CASE LoadSpecs(e)
  <2>1. q.at = "score" /\ q \in RunRecords
    <3>1. ReadingOrder[1] = "score"
      BY DEF ReadingOrder
    <3>2. PICK b \in BOOLEAN : b = (Inspect(e, db) = "exact")
      OBVIOUS
    <3>3. PICK l \in BOOLEAN : l = (mode = "reconcile")
      OBVIOUS
    <3>4. PICK i \in RunRecords : i = Idle
      BY <1>1
    <3>5. q = [i EXCEPT !.at = "score", !.mode = mode, !.spec = e, !.locking = l, !.exact = b]
      BY <3>1, <3>2, <3>3, <3>4
    <3>. HIDE DEF q
    <3>. QED
      BY <3>5 DEF RunRecords, Tables
  <2>2. /\ q.mode = mode /\ q.spec = e /\ q.exact = (Inspect(e, db) = "exact") /\ ~q.selected
        /\ q.held = {} /\ q.rows = NoRows /\ q.wrote = NoRows /\ q.outcome = ""
    BY DEF Idle
  <2>3. Becomes(r, q) /\ UNCHANGED <<db, writer>>
    BY <1>3 DEF Begin
  <2>. HIDE DEF q
  <2>4. \A t \in Tables : DOMAIN q.rows[t] = {}
    BY <2>2, NoRowsIs
  <2>5. Stages(q)
    BY <1>3, <2>1, <2>2, <2>4 DEF Stages, Active, Tables
  <2>6. ReadsHold(q) /\ UsersAreRead(q)
    BY <2>1, <2>2, <2>4 DEF ReadsHold, UsersAreRead, Tables
  <2>7. MissesNone(q) /\ LooksTrue(q) /\ AnswerFits(q) /\ CommitFits(q)
    BY <2>1, <2>2 DEF MissesNone, LooksTrue, AnswerFits, CommitFits
  <2>8. ExactIsNoticed(q)
    BY <2>2, ExactIs DEF ExactIsNoticed
  <2>9. \A o \in Runs : o # r => Apart(q, run[o])
    BY <2>1, <2>2 DEF Apart
  <2>. QED
    BY <2>1, <2>3, <2>5, <2>6, <2>7, <2>8, <2>9, RunStep DEF RunFits
<1>. QED
  BY <1>2, <1>3

\* A statement asks only for rows that are there.
LEMMA AskedAreThere ==
    ASSUME IInv, NEW r \in Runs, run[r].at \in Tables
    PROVE  Asked(run[r]) \subseteq DOMAIN db[run[r].at]
<1>1. Active(run[r]) /\ ReadsHold(run[r])
  BY DEF IInv, RunFits, Active, Tables
<1>2. CASE run[r].at = "user"
  BY <1>1, <1>2 DEF Asked, Canonical, ReadsHold
<1>3. CASE run[r].at # "user"
  BY <1>3 DEF Asked
<1>. QED
  BY <1>2, <1>3

\* Setups that match two environments with the same users match both.
LEMMA SameSetup ==
    ASSUME IInv, NEW q \in RunRecords, Active(q), NEW e \in Environments, Matches(e, db),
           NEW d, Matches(q.spec, d),
           \A u \in DOMAIN d.user : u \in DOMAIN db.user /\ d.user[u] = db.user[u],
           \A s \in Slots : d.participant[s].user \in DOMAIN d.user
    PROVE  Matches(q.spec, db)
<1>1. ASSUME NEW s \in Slots
      PROVE  e.name[s] = q.spec.name[s] /\ e.pin[s] = q.spec.pin[s]
  <2>. DEFINE u == d.participant[s].user
              v == db.participant[s].user
  <2>1. u \in DOMAIN db.user /\ db.user[u] = d.user[u] /\ d.user[u].username = s
    BY DEF Matches, OwnUser
  <2>2. v \in DOMAIN db.user /\ db.user[v].username = s
    BY DEF Matches, OwnUser, IInv, Database, Consistent
  <2>3. u = v
    BY <2>1, <2>2 DEF IInv, Database, Consistent, Slots
  <2>4. v = u /\ db.user[v] = d.user[u]
    BY <2>1, <2>3
  <2>5. e.name[s] = db.user[v].first /\ e.pin[s] = db.user[v].pin
    BY DEF Matches, OwnUser
  <2>6. q.spec.name[s] = d.user[u].first /\ q.spec.pin[s] = d.user[u].pin
    BY DEF Matches, OwnUser
  <2>. QED
    BY <2>4, <2>5, <2>6
<1>. QED
  BY <1>1 DEF Matches

LEMMA ReadStep ==
    ASSUME IInv, NEW r \in Runs, Read(r)
    PROVE  IInv'
<1>. DEFINE q == run[r]
            f == [k \in Asked(q) |-> db[q.at][k]]
            n == [q EXCEPT !.at = Following(q.at), !.rows[q.at] = f]
<1>1. /\ q.at \in Tables /\ ~q.locking /\ Becomes(r, n) /\ UNCHANGED <<db, writer>>
      /\ q \in RunRecords /\ RunFits(q)
  BY DEF Read, IInv, Types
<1>2. q.rows \in Snapshots /\ Asked(q) \subseteq DOMAIN db[q.at] /\ Asked(q) \in SUBSET Keys(q.at)
  <2>1. Asked(q) \subseteq DOMAIN db[q.at]
    BY <1>1, AskedAreThere
  <2>. QED
    BY <1>1, <2>1, DatabaseHas DEF RunRecords
<1>3. f \in [Asked(q) -> RowsOf(q.at)]
  BY <1>1, <1>2, DatabaseHas
<1>4. /\ [q.rows EXCEPT ![q.at] = f] \in Snapshots
      /\ \A o \in Tables : [q.rows EXCEPT ![q.at] = f][o] = IF o = q.at THEN f ELSE q.rows[o]
  <2>1. PICK t \in Tables : t = q.at
    BY <1>1
  <2>2. PICK D \in SUBSET Keys(t) : D = Asked(q)
    BY <1>2, <2>1
  <2>3. f \in [D -> RowsOf(t)]
    BY <1>3, <2>1, <2>2
  <2>4. PICK rows \in Snapshots : rows = q.rows
    BY <1>2
  <2>. HIDE DEF f
  <2>5. /\ [rows EXCEPT ![t] = f] \in Snapshots
        /\ \A o \in Tables : [rows EXCEPT ![t] = f][o] = IF o = t THEN f ELSE rows[o]
    BY <2>3, SnapshotWith
  <2>. QED
    BY <2>1, <2>4, <2>5
<1>5. /\ n \in RunRecords /\ n.at = Following(q.at) /\ n.rows = [q.rows EXCEPT ![q.at] = f]
      /\ n.mode = q.mode /\ n.spec = q.spec /\ n.locking = q.locking /\ n.selected = q.selected
      /\ n.held = q.held /\ n.wrote = q.wrote /\ n.outcome = q.outcome /\ n.exact = q.exact
      /\ n.raced = q.raced
  BY <1>1, <1>4, FollowingIs DEF RunRecords, Tables
<1>6. \A o \in Tables : n.rows[o] = IF o = q.at THEN f ELSE q.rows[o]
  BY <1>4, <1>5
<1>7. DOMAIN f = Asked(q) /\ \A k \in Asked(q) : f[k] = db[q.at][k]
  OBVIOUS
<1>. HIDE DEF n, f
<1>8. Active(q) /\ Active(n) /\ Following(q.at) \in {"participant", "user", "inspect"}
  BY <1>1, <1>5, FollowingIs DEF Active, Tables
<1>9. Stages(n)
  <2>1. ~q.selected
    BY <1>1 DEF RunFits, Stages
  <2>. QED
    BY <1>1, <1>5, <1>6, <1>8, <2>1, FollowingIs DEF RunFits, Stages, Tables
<1>10. ReadsHold(n)
  <2>1. DOMAIN n.rows.score \subseteq DOMAIN db.score
    BY <1>1, <1>2, <1>6, <1>7, <1>8 DEF RunFits, ReadsHold, Tables
  <2>2. \A s \in DOMAIN n.rows.participant : n.rows.participant[s].user \in DOMAIN db.user
    <3>1. CASE q.at = "participant"
      BY <1>2, <1>6, <1>7, <3>1 DEF Tables, IInv, Database, Consistent
    <3>2. CASE q.at # "participant"
      BY <1>1, <1>6, <1>8, <3>2 DEF RunFits, ReadsHold, Tables
    <3>. QED
      BY <3>1, <3>2
  <2>. QED
    BY <1>1, <1>5, <2>1, <2>2 DEF ReadsHold
<1>11. UsersAreRead(n) /\ MissesNone(n) /\ AnswerFits(n) /\ CommitFits(n)
  BY <1>1, <1>5, <1>8 DEF UsersAreRead, MissesNone, AnswerFits, CommitFits, Locking, RunFits
<1>12. ExactIsNoticed(n)
  BY <1>1, <1>5, <1>8 DEF ExactIsNoticed, RunFits
<1>13. LooksTrue(n)
  <2>1. ASSUME n.at = "user" PROVE SameParticipants(n)
    <3>1. q.at = "participant"
      BY <1>1, <1>5, <2>1, FollowingIs DEF Tables
    <3>. QED
      BY <1>6, <1>7, <3>1 DEF SameParticipants, Asked, Tables
  <2>2. ASSUME n.at = "inspect", Matches(n.spec, n.rows) PROVE n.exact
    <3>1. q.at = "user"
      BY <1>1, <1>5, <2>2, FollowingIs DEF Tables
    <3>2. /\ n.rows.user = f /\ n.rows.participant = q.rows.participant
          /\ n.rows.score = q.rows.score
      BY <1>6, <3>1 DEF Tables
    <3>3. \A s \in Slots : n.rows.participant[s].user \in DOMAIN n.rows.user
      BY <1>7, <2>2, <3>1, <3>2 DEF Asked, Matches
    <3>4. \A u \in DOMAIN n.rows.user : u \in DOMAIN db.user /\ n.rows.user[u] = db.user[u]
      BY <1>2, <1>7, <3>1, <3>2
    <3>5. Matches(q.spec, db)
      <4>1. CASE SameParticipants(q)
        <5>1. DOMAIN db.participant = Slots /\ Slots \subseteq DOMAIN db.score
          BY <1>1, <1>8, <2>2, <3>2, <4>1 DEF SameParticipants, Matches, RunFits, ReadsHold
        <5>2. \A s \in Slots : n.rows.participant[s] = db.participant[s]
          BY <3>2, <4>1, <5>1 DEF SameParticipants
        <5>3. \A s \in Slots : OwnUser(db, s) = OwnUser(n.rows, s)
          BY <3>3, <3>4, <5>2 DEF OwnUser
        <5>. QED
          BY <1>5, <2>2, <5>1, <5>2, <5>3 DEF Matches
      <4>2. CASE SomeSetupIsWhole
        BY <1>1, <1>5, <1>8, <2>2, <3>3, <3>4, <4>2, SameSetup DEF SomeSetupIsWhole
      <4>. QED
        BY <1>1, <3>1, <4>1, <4>2 DEF RunFits, LooksTrue
    <3>. QED
      BY <1>1, <1>5, <1>8, <3>5 DEF RunFits, ExactIsNoticed
  <2>. QED
    BY <2>1, <2>2 DEF LooksTrue
<1>14. \A o \in Runs : o # r => Apart(n, run[o])
  BY <1>1, <1>5, <1>8 DEF IInv, Apart
<1>. QED
  BY <1>1, <1>5, <1>9, <1>10, <1>11, <1>12, <1>13, <1>14, RunStep DEF RunFits

LEMMA SelectStep ==
    ASSUME IInv, NEW r \in Runs, Select(r)
    PROVE  IInv'
<1>. DEFINE q == run[r]
            A == Asked(q)
            m == [q EXCEPT !.at = Following(q.at)]
            n == [q EXCEPT !.selected = TRUE, !.todo = A]
<1>1. /\ q.at \in Tables /\ q.locking /\ ~q.selected /\ UNCHANGED <<db, writer>>
      /\ Becomes(r, IF A = {} THEN m ELSE n)
      /\ q \in RunRecords /\ RunFits(q) /\ Active(q)
  BY DEF Select, IInv, Types, Active, Tables
<1>2. A \subseteq DOMAIN db[q.at] /\ A \in SUBSET Nat
  <2>1. A \subseteq DOMAIN db[q.at]
    BY <1>1, AskedAreThere
  <2>2. Users \subseteq Nat /\ Slots \subseteq Nat
    BY ProvisioningAssumption DEF Slots
  <2>. QED
    BY <1>1, <2>1, <2>2, DatabaseHas DEF Keys
<1>3. ASSUME q.at \in {"score", "participant"} PROVE A = DOMAIN db[q.at]
  BY <1>3 DEF Asked
<1>4. ASSUME q.at = "user"
      PROVE  /\ Canonical(db) \subseteq A
             /\ \A s \in DOMAIN q.rows.participant : q.rows.participant[s].user \in A
  BY <1>4 DEF Asked
<1>5. CASE A = {}
  <2>1. /\ m \in RunRecords /\ m.at = Following(q.at) /\ m.rows = q.rows /\ m.mode = q.mode
        /\ m.spec = q.spec /\ m.locking = q.locking /\ m.selected = q.selected
        /\ m.held = q.held /\ m.wrote = q.wrote /\ m.outcome = q.outcome /\ m.exact = q.exact
        /\ m.raced = q.raced
    BY <1>1, FollowingIs DEF RunRecords, Tables
  <2>. HIDE DEF m, A
  <2>2. Active(m)
    BY <1>1, <2>1, FollowingIs DEF Active, Tables
  <2>3. Stages(m)
    BY <1>1, <2>1, <2>2, FollowingIs DEF RunFits, Stages, Tables
  <2>4. ReadsHold(m)
    BY <1>1, <2>1, <2>2 DEF RunFits, ReadsHold
  <2>5. UsersAreRead(m)
    BY <1>1, <1>4, <1>5, <2>1, FollowingIs DEF UsersAreRead, Tables
  <2>6. MissesNone(m)
    BY <1>1, <1>3, <1>4, <1>5, <2>1, <2>2, FollowingIs DEF RunFits, MissesNone, Locking, Tables
  <2>7. ExactIsNoticed(m) /\ LooksTrue(m) /\ AnswerFits(m) /\ CommitFits(m)
    BY <1>1, <2>1, <2>2, FollowingIs
    DEF RunFits, ExactIsNoticed, LooksTrue, AnswerFits, CommitFits, Tables
  <2>8. \A o \in Runs : o # r => Apart(m, run[o])
    BY <1>1, <2>1, FollowingIs DEF IInv, Apart, Tables
  <2>. QED
    BY <1>1, <1>5, <2>1, <2>3, <2>4, <2>5, <2>6, <2>7, <2>8, RunStep DEF RunFits
<1>6. CASE A # {}
  <2>1. /\ n \in RunRecords /\ n.at = q.at /\ n.rows = q.rows /\ n.mode = q.mode
        /\ n.spec = q.spec /\ n.locking = q.locking /\ n.selected /\ n.todo = A
        /\ n.held = q.held /\ n.wrote = q.wrote /\ n.outcome = q.outcome /\ n.exact = q.exact
        /\ n.raced = q.raced
    BY <1>1, <1>2 DEF RunRecords
  <2>. HIDE DEF n, A
  <2>2. Active(n)
    BY <1>1, <2>1 DEF Active
  <2>3. Stages(n)
    BY <1>1, <1>2, <1>6, <2>1, <2>2 DEF RunFits, Stages
  <2>4. ReadsHold(n)
    BY <1>1, <2>1, <2>2 DEF RunFits, ReadsHold
  <2>5. UsersAreRead(n)
    BY <1>1, <1>4, <2>1 DEF UsersAreRead, Tables
  <2>6. MissesNone(n)
    BY <1>1, <1>3, <1>4, <2>1, <2>2 DEF RunFits, MissesNone, Locking, Tables
  <2>7. ExactIsNoticed(n) /\ LooksTrue(n) /\ AnswerFits(n) /\ CommitFits(n)
    BY <1>1, <2>1, <2>2 DEF RunFits, ExactIsNoticed, LooksTrue, AnswerFits, CommitFits, Tables
  <2>8. \A o \in Runs : o # r => Apart(n, run[o])
    BY <1>1, <2>1 DEF IInv, Apart
  <2>. QED
    BY <1>1, <1>6, <2>1, <2>3, <2>4, <2>5, <2>6, <2>7, <2>8, RunStep DEF RunFits
<1>. QED
  BY <1>5, <1>6

LEMMA LockStep ==
    ASSUME IInv, NEW r \in Runs, LockNext(r)
    PROVE  IInv'
<1>. DEFINE q == run[r]
            t == q.at
            k == CHOOSE i \in q.todo : \A j \in q.todo : i <= j
            rest == q.todo \ {k}
            g == [i \in {k} |-> db[t][i]]
            f == Over(g, q.rows[t])
            n == [q EXCEPT !.todo = rest, !.selected = rest # {},
                           !.at = IF rest = {} THEN Following(t) ELSE t,
                           !.held = q.held \cup {<<t, k>>}, !.rows[t] = f]
<1>1. /\ t \in Tables /\ q.selected /\ Free(t, k, r) /\ UNCHANGED <<db, writer>>
      /\ q \in RunRecords /\ RunFits(q) /\ Active(q)
  BY DEF LockNext, IInv, Types, Active, Tables
<1>2. Becomes(r, n)
  BY DEF LockNext
<1>3. q.locking /\ q.todo # {} /\ q.todo \subseteq DOMAIN db[t] /\ q.todo \in SUBSET Nat
  BY <1>1 DEF RunFits, Stages, RunRecords
<1>4. k \in q.todo
  BY <1>3, KeysMin
<1>. HIDE DEF k
<1>5. k \in DOMAIN db[t] /\ k \in Keys(t) /\ k \in Slots \cup Users
  BY <1>1, <1>3, <1>4, DatabaseHas DEF Keys
<1>6. q.rows \in Snapshots /\ DOMAIN q.rows[t] \subseteq Keys(t)
  BY <1>1, SnapshotHas DEF RunRecords
<1>7. /\ DOMAIN f = {k} \cup DOMAIN q.rows[t]
      /\ f[k] = db[t][k] /\ \A i \in DOMAIN q.rows[t] : i # k => f[i] = q.rows[t][i]
  BY DEF Over
<1>8. f \in [{k} \cup DOMAIN q.rows[t] -> RowsOf(t)]
  <2>1. \A i \in {k} \cup DOMAIN q.rows[t] : f[i] \in RowsOf(t)
    BY <1>1, <1>5, <1>6, <1>7, DatabaseHas, SnapshotHas
  <2>. QED
    BY <2>1 DEF Over
<1>. HIDE DEF f, g
<1>9. /\ [q.rows EXCEPT ![t] = f] \in Snapshots
      /\ \A o \in Tables : [q.rows EXCEPT ![t] = f][o] = IF o = t THEN f ELSE q.rows[o]
  <2>1. {k} \cup DOMAIN q.rows[t] \in SUBSET Keys(t)
    BY <1>5, <1>6
  <2>2. PICK D \in SUBSET Keys(t) : D = {k} \cup DOMAIN q.rows[t]
    BY <2>1
  <2>3. f \in [D -> RowsOf(t)]
    BY <1>8, <2>2
  <2>. HIDE DEF t
  <2>. QED
    BY <1>1, <1>6, <2>3, SnapshotWith
<1>10. /\ n \in RunRecords /\ n.at = (IF rest = {} THEN Following(t) ELSE t)
       /\ n.rows = [q.rows EXCEPT ![t] = f] /\ n.mode = q.mode /\ n.spec = q.spec
       /\ n.locking = q.locking /\ n.selected = (rest # {}) /\ n.todo = rest
       /\ n.held = q.held \cup {<<t, k>>} /\ n.wrote = q.wrote /\ n.outcome = q.outcome
       /\ n.exact = q.exact /\ n.raced = q.raced
  <2>1. rest \in SUBSET Nat /\ q.held \cup {<<t, k>>} \in SUBSET (Tables \X (Slots \cup Users))
    <3>1. q.held \in SUBSET (Tables \X (Slots \cup Users))
      BY <1>1 DEF RunRecords
    <3>2. <<t, k>> \in Tables \X (Slots \cup Users)
      BY <1>1, <1>5
    <3>. QED
      BY <1>3, <3>1, <3>2
  <2>2. (IF rest = {} THEN Following(t) ELSE t) \in Tables \cup {"inspect"}
    BY <1>1, FollowingIs DEF Tables
  <2>. DEFINE at == IF rest = {} THEN Following(t) ELSE t
              held == q.held \cup {<<t, k>>}
              rows == [q.rows EXCEPT ![t] = f]
  <2>3. n = [q EXCEPT !.todo = rest, !.selected = rest # {}, !.at = at, !.held = held,
                      !.rows = rows]
    BY <1>1 DEF RunRecords
  <2>. HIDE DEF rest, n, at, held, rows
  <2>4. /\ n \in RunRecords /\ n.at = at /\ n.rows = rows /\ n.mode = q.mode
        /\ n.spec = q.spec /\ n.locking = q.locking /\ n.selected = (rest # {})
        /\ n.todo = rest /\ n.held = held /\ n.wrote = q.wrote /\ n.outcome = q.outcome
        /\ n.exact = q.exact /\ n.raced = q.raced
    BY <1>1, <1>9, <2>1, <2>2, <2>3 DEF RunRecords, at, held, rows
  <2>. QED
    BY <2>4 DEF at, held, rows
<1>11. \A o \in Tables : n.rows[o] = IF o = t THEN f ELSE q.rows[o]
  BY <1>9, <1>10
<1>. HIDE DEF n
<1>12. /\ Active(n) /\ n.at \in Tables \cup {"inspect"}
       /\ Following(t) \in {"participant", "user", "inspect"}
  BY <1>1, <1>10, FollowingIs DEF Active, Tables
<1>13. rest \cup DOMAIN f = q.todo \cup DOMAIN q.rows[t] /\ rest \subseteq q.todo
  BY <1>4, <1>7
<1>. HIDE DEF rest
<1>14. Stages(n)
  <2>1. /\ n.at \notin {"idle", "done", "commit"} /\ n.locking /\ n.wrote = NoRows
        /\ n.mode \in Modes /\ n.spec \in Environments /\ LoadSpecs(n.spec) /\ n.outcome = ""
    BY <1>1, <1>3, <1>10, <1>12 DEF RunFits, Stages, Active, Tables
  <2>2. n.selected => /\ n.at \in Tables /\ n.todo # {}
                      /\ n.todo \subseteq DOMAIN db[n.at]
    BY <1>1, <1>3, <1>10, <1>13
  <2>3. n.at \in {"score", "participant"} => DOMAIN n.rows.user = {}
    BY <1>1, <1>10, <1>11, FollowingIs DEF RunFits, Stages, Tables
  <2>4. n.at = "score" => DOMAIN n.rows.participant = {}
    BY <1>1, <1>10, <1>11, FollowingIs DEF RunFits, Stages, Tables
  <2>5. ASSUME n.at \in Tables, ~n.selected PROVE DOMAIN n.rows[n.at] = {}
    <3>1. n.at = Following(t)
      BY <1>10, <2>5
    <3>2. CASE t = "score"
      BY <1>1, <1>11, <3>1, <3>2, FollowingIs DEF RunFits, Stages, Tables
    <3>3. CASE t = "participant"
      BY <1>1, <1>11, <3>1, <3>3, FollowingIs DEF RunFits, Stages, Tables
    <3>4. CASE t = "user"
      BY <2>5, <3>1, <3>4, FollowingIs DEF Tables
    <3>. QED
      BY <1>1, <3>2, <3>3, <3>4 DEF Tables
  <2>. QED
    BY <2>1, <2>2, <2>3, <2>4, <2>5 DEF Stages, Active
<1>15. ReadsHold(n)
  <2>1. \A o \in Tables, i \in Slots \cup Users : <<o, i>> \in n.held <=> i \in DOMAIN n.rows[o]
    <3>1. \A o \in Tables, i \in Slots \cup Users :
              <<o, i>> \in q.held <=> i \in DOMAIN q.rows[o]
      BY <1>1, <1>3 DEF RunFits, ReadsHold
    <3>2. SUFFICES ASSUME NEW o \in Tables, NEW i \in Slots \cup Users
                   PROVE  <<o, i>> \in n.held <=> i \in DOMAIN n.rows[o]
      OBVIOUS
    <3>3. <<o, i>> \in n.held <=> (<<o, i>> \in q.held \/ (o = t /\ i = k))
      BY <1>10
    <3>4. i \in DOMAIN n.rows[o] <=> (i \in DOMAIN q.rows[o] \/ (o = t /\ i = k))
      BY <1>7, <1>11
    <3>. QED
      BY <3>1, <3>3, <3>4
  <2>2. DOMAIN n.rows.score \subseteq DOMAIN db.score
    BY <1>1, <1>5, <1>7, <1>11 DEF RunFits, ReadsHold, Tables
  <2>3. \A i \in DOMAIN n.rows.participant :
            i \in DOMAIN db.participant /\ n.rows.participant[i] = db.participant[i]
    BY <1>1, <1>3, <1>5, <1>7, <1>11 DEF RunFits, ReadsHold, Tables
  <2>4. \A i \in DOMAIN n.rows.user : i \in DOMAIN db.user /\ n.rows.user[i] = db.user[i]
    BY <1>1, <1>3, <1>5, <1>7, <1>11 DEF RunFits, ReadsHold, Tables
  <2>5. \A i \in DOMAIN n.rows.participant : n.rows.participant[i].user \in DOMAIN db.user
    BY <2>3 DEF IInv, Database, Consistent
  <2>. QED
    BY <2>1, <2>2, <2>3, <2>4, <2>5 DEF ReadsHold
<1>16. UsersAreRead(n)
  <2>1. CASE t = "user"
    <3>1. /\ n.rows.participant = q.rows.participant /\ n.rows.user = f
          /\ \A s \in DOMAIN q.rows.participant :
                 q.rows.participant[s].user \in q.todo \cup DOMAIN q.rows.user
      BY <1>1, <1>3, <1>11, <2>1 DEF RunFits, UsersAreRead, Locking, Tables
    <3>. QED
      BY <1>10, <1>13, <2>1, <3>1, FollowingIs DEF UsersAreRead
  <2>2. CASE t # "user"
    BY <1>1, <1>10, <2>2, FollowingIs DEF UsersAreRead, Tables
  <2>. QED
    BY <2>1, <2>2
<1>17. MissesNone(n)
  <2>1. SUFFICES ASSUME ~n.raced PROVE MissesNone(n)
    BY DEF MissesNone
  <2>2. MissesNone(q) /\ Locking(q) /\ ~q.raced
    BY <1>1, <1>3, <1>10, <2>1 DEF RunFits, Locking
  <2>3. CASE t = "score"
    BY <1>10, <1>11, <1>13, <2>2, <2>3, <1>1, FollowingIs DEF MissesNone, Tables
  <2>4. CASE t = "participant"
    BY <1>10, <1>11, <1>13, <2>2, <2>4, <1>1, FollowingIs DEF MissesNone, Tables
  <2>5. CASE t = "user"
    BY <1>10, <1>11, <1>13, <2>2, <2>5, <1>1, FollowingIs DEF MissesNone, Tables
  <2>. QED
    BY <1>1, <2>3, <2>4, <2>5 DEF Tables
<1>18. ExactIsNoticed(n) /\ LooksTrue(n) /\ AnswerFits(n) /\ CommitFits(n)
  BY <1>1, <1>3, <1>10, <1>12
  DEF RunFits, ExactIsNoticed, LooksTrue, AnswerFits, CommitFits, Tables, Active
<1>19. ASSUME NEW o \in Runs, o # r PROVE Apart(n, run[o])
  <2>1. <<t, k>> \notin run[o].held
    BY <1>1, <1>19 DEF Free
  <2>2. q.held \cap run[o].held = {}
    BY <1>19 DEF IInv, Apart
  <2>. QED
    BY <1>10, <1>12, <2>1, <2>2 DEF Apart, Tables
<1>. QED
  BY <1>1, <1>2, <1>10, <1>14, <1>15, <1>16, <1>17, <1>18, <1>19, RunStep DEF RunFits

LEMMA LookStep ==
    ASSUME IInv, NEW r \in Runs, Look(r)
    PROVE  IInv'
<1>. DEFINE q == run[r]
            n == [q EXCEPT !.at = ReadingOrder[1], !.locking = TRUE, !.rows = NoRows]
<1>1. /\ q.at = "inspect" /\ ~q.locking /\ UNCHANGED <<db, writer>>
      /\ q \in RunRecords /\ RunFits(q) /\ Active(q)
  BY DEF Look, IInv, Types, Active
<1>2. CASE Found(q) = "exact"
  <2>1. Becomes(r, Ended(q, "unchanged"))
    BY <1>2 DEF Look
  <2>2. q.exact
    BY <1>1, <1>2, ExactIs DEF RunFits, LooksTrue, Found
  <2>. QED
    BY <1>1, <2>1, <2>2, EndStep
<1>3. CASE Found(q) # "exact" /\ (q.mode = "check" \/ Found(q) # "empty")
  <2>1. Becomes(r, Ended(q, "refused"))
    BY <1>3 DEF Look
  <2>. QED
    BY <1>1, <2>1, EndStep
<1>4. CASE ~ (q.mode = "check" \/ Found(q) # "empty")
  <2>1. Becomes(r, n)
    BY <1>4 DEF Look
  <2>2. /\ n \in RunRecords /\ n.at = "score" /\ n.locking /\ n.rows = NoRows
        /\ n.mode = q.mode /\ n.spec = q.spec /\ n.held = q.held /\ n.wrote = q.wrote
        /\ n.selected = q.selected /\ n.outcome = q.outcome /\ n.exact = q.exact
        /\ n.raced = q.raced
    BY <1>1, NoRowsIs DEF RunRecords, ReadingOrder, Tables
  <2>3. /\ n.held = {} /\ ~n.selected /\ n.wrote = NoRows /\ n.outcome = ""
        /\ \A t \in Tables : DOMAIN n.rows[t] = {}
    BY <1>1, <2>2, NoRowsIs DEF RunFits, Stages
  <2>. HIDE DEF n
  <2>4. Stages(n) /\ UsersAreRead(n) /\ MissesNone(n)
    BY <1>1, <2>2, <2>3 DEF RunFits, Stages, UsersAreRead, MissesNone, Active, Tables
  <2>5. ReadsHold(n)
    BY <2>2, <2>3 DEF ReadsHold, Tables
  <2>6. ExactIsNoticed(n) /\ LooksTrue(n) /\ AnswerFits(n) /\ CommitFits(n)
    BY <1>1, <2>2, <2>3 DEF RunFits, ExactIsNoticed, LooksTrue, AnswerFits, CommitFits
  <2>7. \A o \in Runs : o # r => Apart(n, run[o])
    BY <2>2, <2>3 DEF Apart
  <2>. QED
    BY <1>1, <2>1, <2>2, <2>4, <2>5, <2>6, <2>7, RunStep DEF RunFits
<1>. QED
  BY <1>2, <1>3, <1>4

-----------------------------------------------------------------------------
(* What a transaction writes                                               *)

\* What was read with locks is in the database.
LEMMA LockedSetup ==
    ASSUME IInv, NEW r \in Runs, run[r].at = "inspect", run[r].locking
    PROVE  LET q == run[r]
           IN  /\ \A k \in DOMAIN q.rows.participant :
                      /\ k \in DOMAIN db.participant /\ q.rows.participant[k] = db.participant[k]
                      /\ q.rows.participant[k].user \in DOMAIN q.rows.user
               /\ \A k \in DOMAIN q.rows.user :
                      k \in DOMAIN db.user /\ q.rows.user[k] = db.user[k]
               /\ DOMAIN q.rows.score \subseteq DOMAIN db.score
               /\ DOMAIN db.participant \subseteq Slots
BY DEF IInv, RunFits, ReadsHold, UsersAreRead, Active, Locking, Database, Consistent

LEMMA LeaveStep ==
    ASSUME IInv, NEW r \in Runs, Leave(r)
    PROVE  IInv'
<1>. DEFINE q == run[r]
<1>1. q.at = "inspect" /\ q.locking /\ UNCHANGED <<db, writer>> /\ RunFits(q) /\ Active(q)
  BY DEF Leave, IInv, Active
<1>2. CASE Found(q) = "exact" /\ Becomes(r, Ended(q, "unchanged"))
  <2>1. Matches(q.spec, q.rows)
    BY <1>2, ExactIs DEF Found
  <2>2. \A s \in Slots : OwnUser(db, s) = OwnUser(q.rows, s)
    <3>1. SUFFICES ASSUME NEW s \in Slots PROVE OwnUser(db, s) = OwnUser(q.rows, s)
      OBVIOUS
    <3>2. s \in DOMAIN q.rows.participant
      BY <2>1 DEF Matches
    <3>3. db.participant[s] = q.rows.participant[s]
      BY <1>1, <3>2, LockedSetup
    <3>4. q.rows.participant[s].user \in DOMAIN q.rows.user
      BY <1>1, <3>2, LockedSetup
    <3>5. \A u \in DOMAIN q.rows.user : db.user[u] = q.rows.user[u]
      BY <1>1, LockedSetup
    <3>. QED
      BY <3>3, <3>4, <3>5 DEF OwnUser
  <2>3. Matches(q.spec, db)
    <3>1. DOMAIN db.participant = Slots /\ Slots \subseteq DOMAIN db.score
      BY <1>1, <2>1, LockedSetup DEF Matches
    <3>2. \A s \in Slots : db.participant[s].name = q.rows.participant[s].name
      BY <1>1, <2>1, LockedSetup DEF Matches
    <3>. QED
      BY <2>1, <2>2, <3>1, <3>2 DEF Matches
  <2>4. q.exact
    BY <1>1, <2>3 DEF RunFits, ExactIsNoticed
  <2>. QED
    BY <1>1, <1>2, <2>4, EndStep
<1>3. CASE Becomes(r, Ended(q, "refused"))
  BY <1>1, <1>3, EndStep
<1>. QED
  BY <1>2, <1>3 DEF Leave

LEMMA MergedIs ==
    ASSUME IInv, NEW w \in Snapshots
    PROVE  /\ DOMAIN Merged(w) = Tables
           /\ \A t \in Tables :
                 /\ DOMAIN Merged(w)[t] = DOMAIN w[t] \cup DOMAIN db[t]
                 /\ \A k \in DOMAIN w[t] : Merged(w)[t][k] = w[t][k]
                 /\ \A k \in DOMAIN db[t] : k \notin DOMAIN w[t] => Merged(w)[t][k] = db[t][k]
BY DEF Merged, Over

\* Rows that make a setup whole keep the constraints.
LEMMA WholeIsConsistent ==
    ASSUME IInv, NEW w \in Snapshots, NEW spec, LoadSpecs(spec), Matches(spec, Merged(w)),
           \A s \in Slots : Merged(w).participant[s].user \in DOMAIN Merged(w).user,
           \A s \in DOMAIN w.score : w.score[s] = 0,
           \A u, v \in DOMAIN w.user : u # v => w.user[u].username # w.user[v].username,
           \A u \in DOMAIN db.user, v \in DOMAIN w.user :
               u # v => db.user[u].username # w.user[v].username
    PROVE  Consistent(Merged(w))
<1>. DEFINE d == Merged(w)
<1>1. DOMAIN d = Tables /\ \A t \in Tables : DOMAIN d[t] \subseteq Keys(t)
  BY MergedIs, SnapshotHas, DatabaseHas
<1>2. \A t \in Tables : \A k \in DOMAIN d[t] : d[t][k] \in RowsOf(t)
  BY MergedIs, SnapshotHas, DatabaseHas
<1>3. ASSUME NEW u \in DOMAIN d.user, NEW v \in DOMAIN d.user, u # v,
             d.user[u].username = d.user[v].username
      PROVE  d.user[u].username = 0
  <2>. DEFINE Put(k) == k \in DOMAIN w.user
  <2>1. /\ Put(u) => d.user[u] = w.user[u]
        /\ ~Put(u) => u \in DOMAIN db.user /\ d.user[u] = db.user[u]
        /\ Put(v) => d.user[v] = w.user[v]
        /\ ~Put(v) => v \in DOMAIN db.user /\ d.user[v] = db.user[v]
    BY MergedIs DEF Tables
  <2>2. ~Put(u) /\ ~Put(v)
    BY <1>3, <2>1
  <2>. QED
    BY <1>3, <2>1, <2>2 DEF IInv, Database, Consistent
<1>4. ASSUME NEW s \in Slots, NEW o \in Slots, o # s
      PROVE  d.participant[o].user # d.participant[s].user
             /\ d.participant[o].name # d.participant[s].name
  <2>1. OwnUser(d, s).username = s /\ OwnUser(d, o).username = o
    BY DEF Matches
  <2>2. spec.name[o] # spec.name[s]
    BY <1>4 DEF LoadSpecs, Slots
  <2>. QED
    BY <1>4, <2>1, <2>2 DEF Matches, OwnUser
<1>5. \A s \in DOMAIN d.score : d.score[s] \in 0 .. MaxScore
  BY MergedIs, ProvisioningAssumption DEF IInv, Database, Consistent, Tables
<1>6. DOMAIN d.participant = Slots
  BY DEF Matches
<1>. HIDE DEF d
<1>. QED
  BY <1>1, <1>2, <1>3, <1>4, <1>5, <1>6 DEF Consistent, Tables, Keys, RowsOf, d

\* A new database has keys for two users.
LEMMA TwoKeys ==
    ASSUME IInv, DOMAIN db.participant = {}
    PROVE  /\ NewUser(1) # NewUser(2)
           /\ \A s \in Slots : NewUser(s) \in Users \ DOMAIN db.user
<1>. DEFINE S == Users \ DOMAIN db.user
            Under(k) == {v \in S : v < k}
<1>1. PICK x \in S, y \in S : x # y
  BY DEF IInv, Database, HasFreshKeys
<1>2. S \in SUBSET Nat
  BY ProvisioningAssumption
<1>. HIDE DEF S
<1>3. PICK a \in S : \A j \in S : a <= j
  BY <1>1, <1>2, KeysMin
<1>4. PICK b \in S \ {a} : \A j \in S \ {a} : b <= j
  <2>1. S \ {a} \in SUBSET Nat /\ S \ {a} # {}
    BY <1>1, <1>2
  <2>. QED
    BY <2>1, KeysMin
<1>5. Under(a) = {} /\ Under(b) = {a}
  <2>1. a \in Nat /\ b \in Nat /\ \A j \in S : j \in Nat
    BY <1>2
  <2>2. \A j \in S : ~ (j < a)
    BY <1>3, <2>1
  <2>3. \A j \in S : j < b <=> j = a
    BY <1>3, <1>4, <2>1
  <2>. QED
    BY <2>2, <2>3
<1>6. Cardinality(Under(a)) = 0 /\ Cardinality(Under(b)) = 1
  BY <1>5, FS_EmptySet, FS_Singleton
<1>7. ASSUME NEW s \in Slots
      PROVE  NewUser(s) \in S /\ Cardinality(Under(NewUser(s))) = s - 1
  <2>1. \E u \in S : Cardinality(Under(u)) = s - 1
    <3>. HIDE DEF Under
    <3>1. CASE s = 1
      BY <1>6, <3>1
    <3>2. CASE s = 2
      BY <1>6, <3>2
    <3>. QED
      BY <3>1, <3>2 DEF Slots
  <2>. HIDE DEF Under
  <2>2. (CHOOSE u \in S : Cardinality(Under(u)) = s - 1) \in S
    BY <2>1
  <2>3. Cardinality(Under(CHOOSE u \in S : Cardinality(Under(u)) = s - 1)) = s - 1
    BY <2>1
  <2>4. NewUser(s) = CHOOSE u \in S : Cardinality(Under(u)) = s - 1
    BY DEF NewUser, S, Under
  <2>. QED
    BY <2>2, <2>3, <2>4
<1>8. NewUser(1) # NewUser(2)
  <2>. HIDE DEF Under
  <2>. QED
    BY <1>7 DEF Slots
<1>. QED
  BY <1>7, <1>8 DEF S

LEMMA UserOfIs ==
    ASSUME NEW spec, NEW s \in Slots
    PROVE  LET u == UserOf(spec, s)
           IN  /\ u.username = s /\ u.first = spec.name[s] /\ u.pin = spec.pin[s]
               /\ u.allowed /\ u.current
BY DEF UserOf

LEMMA BootstrappedIs ==
    ASSUME IInv, NEW spec \in Environments, LoadSpecs(spec), DOMAIN db.participant = {}
    PROVE  LET w == Bootstrapped(spec)
           IN  /\ w \in Snapshots /\ w # NoRows
               /\ DOMAIN w.user = {NewUser(s) : s \in Slots}
               /\ DOMAIN w.participant = Slots /\ DOMAIN w.score = Slots
               /\ \A s \in Slots :
                     /\ w.user[NewUser(s)] = UserOf(spec, s)
                     /\ w.participant[s].user = NewUser(s)
                     /\ w.participant[s].name = spec.name[s]
                     /\ w.score[s] = 0
<1>. DEFINE New  == {NewUser(s) : s \in Slots}
            Of(u) == CHOOSE s \in Slots : u = NewUser(s)
            user == [u \in New |-> UserOf(spec, Of(u))]
            participant == [s \in Slots |-> [user |-> NewUser(s), name |-> spec.name[s]]]
            score == [s \in Slots |-> 0]
<1>1. \A s \in Slots : Of(NewUser(s)) = s /\ NewUser(s) \in Users
  BY TwoKeys DEF Slots
<1>2. spec.name \in [Slots -> STRING] /\ spec.pin \in [Slots -> STRING]
  BY ProvisioningAssumption
<1>3. \A s \in Slots : /\ UserOf(spec, s) \in UserRows
                       /\ [user |-> NewUser(s), name |-> spec.name[s]] \in ParticipantRows
  BY <1>1, <1>2 DEF UserOf, UserRows, UserNames, ParticipantRows, Slots
<1>4. New \in SUBSET Users
  BY <1>1
<1>5. user \in [New -> UserRows]
  BY <1>1, <1>3
<1>6. participant \in [Slots -> ParticipantRows] /\ score \in [Slots -> Nat]
  BY <1>3
<1>7. \A s \in Slots : user[NewUser(s)] = UserOf(spec, s)
  BY <1>1
<1>8. Bootstrapped(spec) = [user |-> user, participant |-> participant, score |-> score]
  BY DEF Bootstrapped
<1>9. user \in TableOf(Users, UserRows) /\ participant \in TableOf(Slots, ParticipantRows)
      /\ score \in TableOf(Slots, Nat)
  <2>. HIDE DEF user, participant, score, New
  <2>. QED
    BY <1>4, <1>5, <1>6, TableIs
<1>10. DOMAIN score = Slots /\ DOMAIN participant = Slots /\ DOMAIN user = New
  OBVIOUS
<1>11. \A s \in Slots : /\ score[s] = 0 /\ participant[s].user = NewUser(s)
                       /\ participant[s].name = spec.name[s]
  OBVIOUS
<1>. HIDE DEF user, participant, score
<1>12. Bootstrapped(spec) \in Snapshots
  BY <1>8, <1>9 DEF Snapshots
<1>13. Bootstrapped(spec) # NoRows
  BY <1>8, <1>10, NoRowsIs DEF Tables, Slots
<1>. QED
  BY <1>7, <1>8, <1>10, <1>11, <1>12, <1>13

\* A run that has written what makes the setup whole is about to commit.
LEMMA WriteStep ==
    ASSUME IInv, NEW r \in Runs, NEW w \in Snapshots, w # NoRows,
           NEW outcome \in {"bootstrapped", "reconciled"},
           run[r].at = "inspect", run[r].locking, ~RunWrites(r),
           Becomes(r, [run[r] EXCEPT !.at = "commit", !.wrote = w, !.outcome = outcome]),
           UNCHANGED <<db, writer>>,
           Consistent(Merged(w)), Matches(run[r].spec, Merged(w)),
           \A t \in Tables : \A k \in DOMAIN w[t] \cap DOMAIN db[t] :
               t # "score" /\ run[r].mode = "reconcile" /\ <<t, k>> \in run[r].held
    PROVE  IInv'
<1>. DEFINE q == run[r]
            n == [q EXCEPT !.at = "commit", !.wrote = w, !.outcome = outcome]
<1>1. q \in RunRecords /\ RunFits(q) /\ Active(q)
  BY DEF IInv, Types, Active
<1>2. /\ n \in RunRecords /\ n.at = "commit" /\ n.rows = q.rows /\ n.mode = q.mode
      /\ n.spec = q.spec /\ n.locking /\ n.selected = q.selected /\ n.todo = q.todo
      /\ n.held = q.held /\ n.wrote = w /\ n.outcome = outcome /\ n.exact = q.exact
      /\ n.raced = q.raced
  BY <1>1 DEF RunRecords
<1>. HIDE DEF n
<1>3. Stages(n)
  BY <1>1, <1>2 DEF RunFits, Stages, Active, Tables
<1>4. ReadsHold(n) /\ UsersAreRead(n) /\ MissesNone(n)
  <2>1. Active(n) /\ Locking(q) /\ ~q.selected
    BY <1>1, <1>2 DEF Active, Locking, RunFits, Stages, Tables
  <2>2. ReadsHold(n)
    BY <1>1, <1>2, <2>1 DEF RunFits, ReadsHold
  <2>3. UsersAreRead(n)
    BY <1>1, <1>2, <2>1 DEF RunFits, UsersAreRead
  <2>4. MissesNone(n)
    BY <1>1, <1>2, <2>1 DEF RunFits, MissesNone
  <2>. QED
    BY <2>2, <2>3, <2>4
<1>5. ExactIsNoticed(n) /\ LooksTrue(n) /\ AnswerFits(n) /\ CommitFits(n)
  BY <1>1, <1>2 DEF RunFits, ExactIsNoticed, LooksTrue, AnswerFits, CommitFits, Active
<1>6. ASSUME NEW o \in Runs, o # r PROVE Apart(n, run[o])
  <2>1. run[o].wrote = NoRows
    BY <1>6 DEF RunWrites
  <2>. QED
    BY <1>2, <1>6, <2>1 DEF IInv, Apart, RunFits, Stages
<1>. QED
  BY <1>2, <1>3, <1>4, <1>5, <1>6, RunStep DEF RunFits, n

LEMMA BootstrapStep ==
    ASSUME IInv, NEW r \in Runs, Bootstrap(r)
    PROVE  IInv'
<1>. DEFINE q == run[r]
            w == Bootstrapped(q.spec)
<1>1. /\ q.at = "inspect" /\ q.locking /\ Found(q) = "empty" /\ ~RunWrites(r)
      /\ UNCHANGED <<db, writer>> /\ RunFits(q) /\ Active(q)
      /\ q.spec \in Environments /\ LoadSpecs(q.spec)
  BY DEF Bootstrap, IInv, RunFits, Stages, Active
<1>2. DOMAIN q.rows.participant = {} /\ DOMAIN q.rows.score = {} /\ Canonical(q.rows) = {}
  <2>1. DOMAIN q.rows.participant \cup DOMAIN q.rows.score \cup Canonical(q.rows) = {}
    BY <1>1 DEF Found, Inspect
  <2>. QED
    BY <2>1
<1>3. CASE TakenBy(w, Tables)
  <2>1. Becomes(r, Ended(q, "clash"))
    BY <1>3 DEF Bootstrap
  <2>2. ASSUME ~q.raced PROVE FALSE
    <3>1. DOMAIN db.score = {} /\ DOMAIN db.participant = {} /\ Canonical(db) \subseteq DOMAIN q.rows.user
      BY <1>1, <1>2, <2>2 DEF RunFits, MissesNone, Locking
    <3>2. Canonical(db) = {}
      BY <1>1, <1>2, <3>1, LockedSetup DEF Canonical
    <3>3. \A t \in Tables : DOMAIN db[t] \cap DOMAIN w[t] = {}
      BY <1>1, <3>1, TwoKeys, BootstrappedIs DEF Tables
    <3>4. PICK u \in DOMAIN db.user, v \in DOMAIN w.user :
              u # v /\ db.user[u].username = w.user[v].username
      BY <1>3, <3>3 DEF TakenBy
    <3>5. w.user[v].username \in Slots
      <4>1. PICK s \in Slots : v = NewUser(s) /\ w.user[v] = UserOf(q.spec, s)
        BY <1>1, <3>1, <3>4, BootstrappedIs
      <4>. QED
        BY <4>1, UserOfIs
    <3>. QED
      BY <3>2, <3>4, <3>5 DEF Canonical
  <2>. QED
    BY <1>1, <2>1, <2>2, EndStep
<1>4. CASE ~TakenBy(w, Tables)
  <2>1. Becomes(r, [q EXCEPT !.at = "commit", !.wrote = w, !.outcome = "bootstrapped"])
    BY <1>4 DEF Bootstrap
  <2>2. DOMAIN db.participant = {}
    <3>1. DOMAIN db.participant \cap DOMAIN w.participant = {}
      BY <1>4 DEF TakenBy, Tables
    <3>2. DOMAIN w.participant = Slots
      BY DEF Bootstrapped
    <3>. QED
      BY <1>1, <3>1, <3>2, LockedSetup
  <2>3. /\ w \in Snapshots /\ w # NoRows /\ DOMAIN w.user = {NewUser(s) : s \in Slots}
        /\ DOMAIN w.participant = Slots /\ DOMAIN w.score = Slots
        /\ \A s \in Slots :
              /\ w.user[NewUser(s)] = UserOf(q.spec, s)
              /\ w.participant[s].user = NewUser(s) /\ w.participant[s].name = q.spec.name[s]
              /\ w.score[s] = 0
    BY <1>1, <2>2, BootstrappedIs
  <2>. HIDE DEF w
  <2>4. \A s \in Slots :
            /\ Merged(w).participant[s].user = NewUser(s)
            /\ Merged(w).participant[s].name = q.spec.name[s]
            /\ NewUser(s) \in DOMAIN Merged(w).user
            /\ Merged(w).user[NewUser(s)] = UserOf(q.spec, s)
    BY <2>3, MergedIs DEF Tables
  <2>5. DOMAIN Merged(w).participant = Slots /\ Slots \subseteq DOMAIN Merged(w).score
    BY <2>2, <2>3, MergedIs DEF Tables
  <2>6. Matches(q.spec, Merged(w))
    <3>1. \A s \in Slots : OwnUser(Merged(w), s) = UserOf(q.spec, s)
      BY <2>4 DEF OwnUser
    <3>. QED
      BY <2>4, <2>5, <3>1, UserOfIs DEF Matches
  <2>7. \A u, v \in DOMAIN w.user : u # v => w.user[u].username # w.user[v].username
    <3>1. ASSUME NEW s \in Slots, NEW o \in Slots, NewUser(s) # NewUser(o)
          PROVE  w.user[NewUser(s)].username # w.user[NewUser(o)].username
      BY <2>3, <3>1, UserOfIs
    <3>. QED
      BY <2>3, <3>1
  <2>8. \A u \in DOMAIN db.user, v \in DOMAIN w.user :
            u # v => db.user[u].username # w.user[v].username
    BY <1>4 DEF TakenBy
  <2>9. Consistent(Merged(w))
    <3>1. \A s \in Slots : Merged(w).participant[s].user \in DOMAIN Merged(w).user
      BY <2>4
    <3>. QED
      BY <1>1, <2>3, <2>6, <2>7, <2>8, <3>1, WholeIsConsistent
  <2>10. \A t \in Tables : DOMAIN w[t] \cap DOMAIN db[t] = {}
    BY <1>4 DEF TakenBy
  <2>. QED
    BY <1>1, <2>1, <2>3, <2>6, <2>9, <2>10, WriteStep
<1>. QED
  BY <1>3, <1>4

-----------------------------------------------------------------------------
(* Reconciliation                                                          *)

\* Slots whose user, or whose participant, is not as it should be
Stale(spec, rows)   == {s \in Slots : Differences(spec, rows, s)
                                          \cap {"username", "first", "allowed", "password"} # {}}
Renamed(spec, rows) == {s \in Slots : Differences(spec, rows, s) \cap {"name"} # {}}

LEMMA DifferencesAre ==
    ASSUME NEW spec, NEW rows, NEW s \in Slots
    PROVE  LET u == OwnUser(rows, s)
               taken == \E v \in Canonical(rows) : /\ rows.user[v].username = s
                                                   /\ v # rows.participant[s].user
               D == Differences(spec, rows, s)
           IN  /\ "foreign" \in D <=> u.username # s /\ taken
               /\ s \in Renamed(spec, rows) <=> rows.participant[s].name # spec.name[s]
               /\ s \notin Stale(spec, rows) /\ "foreign" \notin D =>
                      u.username = s /\ u.first = spec.name[s] /\ u.allowed
                      /\ u.pin = spec.pin[s] /\ u.current
               /\ D # {} /\ "foreign" \notin D => s \in Stale(spec, rows) \cup Renamed(spec, rows)
<1>. DEFINE D == Differences(spec, rows, s)
            u == OwnUser(rows, s)
            taken == \E v \in Canonical(rows) : /\ rows.user[v].username = s
                                                /\ v # rows.participant[s].user
<1>1. /\ "username" \in D <=> u.username # s /\ ~taken
      /\ "foreign" \in D <=> u.username # s /\ taken
      /\ "first" \in D <=> u.first # spec.name[s]
      /\ "allowed" \in D <=> ~u.allowed
      /\ "password" \in D <=> PasswordStatus(u, spec.pin[s]) # "exact"
      /\ "name" \in D <=> rows.participant[s].name # spec.name[s]
  BY DEF Differences
<1>2. D \subseteq {"username", "foreign", "first", "allowed", "password", "name"}
  BY DEF Differences
<1>3. PasswordStatus(u, spec.pin[s]) = "exact" => u.pin = spec.pin[s] /\ u.current
  BY DEF PasswordStatus
<1>. HIDE DEF D, u, taken
<1>4. s \in Stale(spec, rows) <=> D \cap {"username", "first", "allowed", "password"} # {}
  BY DEF Stale, D
<1>5. s \in Renamed(spec, rows) <=> "name" \in D
  BY DEF Renamed, D
<1>. QED
  BY <1>1, <1>2, <1>3, <1>4, <1>5 DEF D, u, taken

\* What drift that may be repaired looks like to a run with locks.
LEMMA DriftIs ==
    ASSUME IInv, NEW r \in Runs, run[r].at = "inspect", run[r].locking, Found(run[r]) = "drift"
    PROVE  LET q == run[r]
           IN  /\ DOMAIN q.rows.participant = Slots /\ DOMAIN db.participant = Slots
               /\ \A s \in Slots :
                     /\ "foreign" \notin Differences(q.spec, q.rows, s)
                     /\ q.rows.participant[s] = db.participant[s]
                     /\ q.rows.participant[s].user \in DOMAIN q.rows.user
                     /\ q.rows.participant[s].user \in Users
               /\ q.rows.participant[1].user # q.rows.participant[2].user
               /\ \/ MissingScores(q.rows) # {}
                  \/ \E s \in Slots : Differences(q.spec, q.rows, s) # {}
<1>. DEFINE q == run[r]
<1>1. /\ DOMAIN q.rows.participant = Slots
      /\ \A s \in Slots : "foreign" \notin Differences(q.spec, q.rows, s)
      /\ \/ MissingScores(q.rows) # {}
         \/ \E s \in Slots : Differences(q.spec, q.rows, s) # {}
  BY DEF Found, Inspect
<1>2. DOMAIN db.participant = Slots
  BY <1>1, LockedSetup
<1>3. \A s \in Slots : /\ q.rows.participant[s] = db.participant[s]
                       /\ q.rows.participant[s].user \in DOMAIN q.rows.user
  BY <1>1, LockedSetup
<1>4. /\ db.participant[1].user # db.participant[2].user
      /\ \A s \in Slots : db.participant[s].user \in Users
  BY <1>2 DEF IInv, Database, Consistent, Slots
<1>. QED
  BY <1>1, <1>2, <1>3, <1>4 DEF Slots

LEMMA ReconciledIs ==
    ASSUME IInv, NEW r \in Runs, run[r].at = "inspect", run[r].locking, Found(run[r]) = "drift"
    PROVE  LET q == run[r]
               w == Reconciled(q.spec, q.rows)
           IN  /\ w \in Snapshots /\ w # NoRows
               /\ DOMAIN w.user = {q.rows.participant[s].user : s \in Stale(q.spec, q.rows)}
               /\ DOMAIN w.participant = Renamed(q.spec, q.rows)
               /\ DOMAIN w.score = MissingScores(q.rows)
               /\ \A s \in Stale(q.spec, q.rows) :
                      w.user[q.rows.participant[s].user] = UserOf(q.spec, s)
               /\ \A s \in Renamed(q.spec, q.rows) :
                      /\ w.participant[s].user = q.rows.participant[s].user
                      /\ w.participant[s].name = q.spec.name[s]
               /\ \A s \in MissingScores(q.rows) : w.score[s] = 0
<1>. DEFINE q == run[r]
            spec == q.spec
            rows == q.rows
            stale == Stale(spec, rows)
            renamed == Renamed(spec, rows)
            Whose(u) == CHOOSE s \in Slots : u = rows.participant[s].user
            Owners == {rows.participant[s].user : s \in stale}
            user == [u \in Owners |-> UserOf(spec, Whose(u))]
            participant == [s \in renamed |-> [rows.participant[s] EXCEPT !.name = spec.name[s]]]
            score == [s \in MissingScores(rows) |-> 0]
<1>1. Reconciled(spec, rows) = [user |-> user, participant |-> participant, score |-> score]
  BY DEF Reconciled, Stale, Renamed
<1>2. spec \in Environments /\ spec.name \in [Slots -> STRING] /\ spec.pin \in [Slots -> STRING]
  <2>1. spec \in Environments
    BY DEF IInv, RunFits, Stages, Active
  <2>. QED
    BY <2>1, ProvisioningAssumption
<1>3. /\ \A s \in Slots : rows.participant[s] \in ParticipantRows /\ rows.participant[s].user \in Users
      /\ rows.participant[1].user # rows.participant[2].user
  BY DriftIs DEF IInv, Database, Consistent
<1>4. stale \subseteq Slots /\ renamed \subseteq Slots /\ MissingScores(rows) \subseteq Slots
  BY DEF Stale, Renamed, MissingScores
<1>5. \A s \in Slots : Whose(rows.participant[s].user) = s
  BY <1>3 DEF Slots
<1>6. \A s \in Slots :
          /\ UserOf(spec, s) \in UserRows
          /\ [rows.participant[s] EXCEPT !.name = spec.name[s]] \in ParticipantRows
          /\ [rows.participant[s] EXCEPT !.name = spec.name[s]].user = rows.participant[s].user
          /\ [rows.participant[s] EXCEPT !.name = spec.name[s]].name = spec.name[s]
  BY <1>2, <1>3 DEF UserOf, UserRows, UserNames, ParticipantRows, Slots
<1>. HIDE DEF stale, renamed, spec, rows, Whose
<1>7. Owners \in SUBSET Users /\ \A s \in stale : Whose(rows.participant[s].user) = s
  BY <1>3, <1>4, <1>5
<1>8. user \in [Owners -> UserRows]
  <2>1. \A u \in Owners : UserOf(spec, Whose(u)) \in UserRows
    BY <1>4, <1>6, <1>7
  <2>. QED
    BY <2>1
<1>9. participant \in [renamed -> ParticipantRows] /\ score \in [MissingScores(rows) -> Nat]
  BY <1>4, <1>6
<1>10. \A s \in stale : user[rows.participant[s].user] = UserOf(spec, s)
  BY <1>7
<1>11. /\ \A s \in renamed : /\ participant[s].user = rows.participant[s].user
                             /\ participant[s].name = spec.name[s]
       /\ \A s \in MissingScores(rows) : score[s] = 0
  BY <1>4, <1>6
<1>12. DOMAIN user = Owners /\ DOMAIN participant = renamed /\ DOMAIN score = MissingScores(rows)
  OBVIOUS
<1>13. user \in TableOf(Users, UserRows) /\ participant \in TableOf(Slots, ParticipantRows)
       /\ score \in TableOf(Slots, Nat)
  <2>. HIDE DEF user, participant, score, Owners
  <2>. QED
    BY <1>4, <1>7, <1>8, <1>9, TableIs
<1>14. MissingScores(rows) # {} \/ renamed # {} \/ stale # {}
  BY DriftIs, DifferencesAre DEF stale, renamed, spec, rows
<1>15. Owners = {} => stale = {}
  OBVIOUS
<1>. HIDE DEF user, participant, score, Owners
<1>16. Reconciled(spec, rows) \in Snapshots
  BY <1>1, <1>13 DEF Snapshots
<1>17. Reconciled(spec, rows) # NoRows
  BY <1>1, <1>12, <1>14, <1>15, NoRowsIs DEF Tables
<1>18. Reconciled(spec, rows).user = user /\ Reconciled(spec, rows).participant = participant
       /\ Reconciled(spec, rows).score = score
  BY <1>1
<1>. QED
  BY <1>10, <1>11, <1>12, <1>16, <1>17, <1>18 DEF stale, renamed, spec, rows, Owners

\* The names of an environment never clash on their way.
LEMMA NamesPass ==
    ASSUME NEW spec, LoadSpecs(spec), NEW now
    PROVE  ~NamesClash(now, spec.name)
<1>1. /\ spec.name[1] # spec.name[2] /\ spec.name[1] # Temporary[2]
      /\ FirstPass(now, spec.name)[2] \in {spec.name[2], Temporary[2]}
  BY ProvisioningAssumption DEF LoadSpecs, FirstPass, Slots
<1>2. ASSUME NEW n \in Slots
      PROVE  /\ SecondPass(now, spec.name, n)[1] = spec.name[1]
             /\ SecondPass(now, spec.name, n)[2] \in {spec.name[2], FirstPass(now, spec.name)[2]}
  BY DEF SecondPass, Slots
<1>. QED
  BY <1>1, <1>2 DEF NamesClash

\* Nobody else has a reserved name that a run without a race gives back.
LEMMA NameIsFree ==
    ASSUME IInv, NEW r \in Runs, run[r].at = "inspect", run[r].locking, Found(run[r]) = "drift",
           ~run[r].raced, NEW s \in Slots, NEW u \in DOMAIN db.user, db.user[u].username = s
    PROVE  u = run[r].rows.participant[s].user
<1>. DEFINE q == run[r]
            v == q.rows.participant[s].user
<1>1. SUFFICES ASSUME u # v PROVE FALSE
  OBVIOUS
<1>2. u \in Canonical(db)
  BY DEF Canonical
<1>3. u \in DOMAIN q.rows.user /\ q.rows.user[u] = db.user[u]
  BY <1>2, LockedSetup DEF IInv, RunFits, MissesNone, Active, Locking
<1>4. u \in Canonical(q.rows) /\ q.rows.user[u].username = s
  BY <1>3 DEF Canonical
<1>5. "foreign" \notin Differences(q.spec, q.rows, s) /\ v \in DOMAIN q.rows.user
  BY DriftIs
<1>6. OwnUser(q.rows, s).username = s
  BY <1>1, <1>4, <1>5, DifferencesAre
<1>7. v \in DOMAIN db.user /\ db.user[v].username = s
  BY <1>5, <1>6, LockedSetup DEF OwnUser
<1>. QED
  BY <1>1, <1>7 DEF IInv, Database, Consistent, Slots

LEMMA ReconcileStep ==
    ASSUME IInv, NEW r \in Runs, Reconcile(r)
    PROVE  IInv'
<1>. DEFINE q == run[r]
            w == Reconciled(q.spec, q.rows)
            now == [s \in Slots |-> q.rows.participant[s].name]
            own(s) == q.rows.participant[s].user
            stale == Stale(q.spec, q.rows)
            renamed == Renamed(q.spec, q.rows)
            missing == MissingScores(q.rows)
<1>1. /\ q.at = "inspect" /\ q.locking /\ Found(q) = "drift" /\ q.mode = "reconcile"
      /\ ~RunWrites(r) /\ UNCHANGED <<db, writer>> /\ RunFits(q) /\ Active(q)
      /\ LoadSpecs(q.spec)
  BY DEF Reconcile, IInv, RunFits, Stages, Active
<1>2. /\ w \in Snapshots /\ w # NoRows /\ DOMAIN w.user = {own(s) : s \in stale}
      /\ DOMAIN w.participant = renamed /\ DOMAIN w.score = missing
      /\ \A s \in stale : w.user[own(s)] = UserOf(q.spec, s)
      /\ \A s \in renamed : /\ w.participant[s].user = own(s)
                            /\ w.participant[s].name = q.spec.name[s]
      /\ \A s \in missing : w.score[s] = 0
  BY <1>1, ReconciledIs
<1>3. /\ DOMAIN q.rows.participant = Slots /\ DOMAIN db.participant = Slots
      /\ \A s \in Slots :
            /\ "foreign" \notin Differences(q.spec, q.rows, s)
            /\ q.rows.participant[s] = db.participant[s]
            /\ own(s) \in DOMAIN q.rows.user /\ own(s) \in Users
            /\ own(s) \in DOMAIN db.user /\ q.rows.user[own(s)] = db.user[own(s)]
      /\ own(1) # own(2)
  BY <1>1, DriftIs, LockedSetup
<1>4. stale \subseteq Slots /\ renamed \subseteq Slots /\ missing \subseteq Slots
  BY DEF Stale, Renamed, MissingScores
<1>5. CASE TakenBy(w, {"score"}) \/ NamesClash(now, q.spec.name)
  <2>1. Becomes(r, Ended(q, "clash"))
    BY <1>5 DEF Reconcile
  <2>2. TakenBy(w, {"score"})
    BY <1>1, <1>5, NamesPass
  <2>3. ASSUME ~q.raced PROVE FALSE
    <3>1. DOMAIN db.score \subseteq DOMAIN q.rows.score
      BY <1>1, <2>3 DEF RunFits, MissesNone, Locking
    <3>2. DOMAIN db.score \cap DOMAIN w.score = {}
      BY <1>2, <3>1 DEF MissingScores
    <3>3. PICK u \in DOMAIN db.user, v \in DOMAIN w.user :
              u # v /\ db.user[u].username = w.user[v].username
      BY <2>2, <3>2 DEF TakenBy
    <3>4. PICK s \in Slots : v = own(s) /\ w.user[v] = UserOf(q.spec, s)
      BY <1>2, <1>4, <3>3
    <3>5. db.user[u].username = s
      BY <3>3, <3>4, UserOfIs
    <3>. QED
      BY <1>1, <2>3, <3>3, <3>4, <3>5, NameIsFree
  <2>. QED
    BY <1>1, <2>1, <2>3, EndStep
<1>6. CASE ~TakenBy(w, {"score"}) /\ ~NamesClash(now, q.spec.name)
  <2>1. Becomes(r, [q EXCEPT !.at = "commit", !.wrote = w, !.outcome = "reconciled"])
    BY <1>6 DEF Reconcile
  <2>2. /\ DOMAIN db.score \cap DOMAIN w.score = {}
        /\ \A u \in DOMAIN db.user, v \in DOMAIN w.user :
               u # v => db.user[u].username # w.user[v].username
    BY <1>6 DEF TakenBy
  <2>. HIDE DEF w, stale, renamed, missing, own
  <2>. DEFINE d == Merged(w)
  <2>3. /\ \A t \in Tables : DOMAIN d[t] = DOMAIN w[t] \cup DOMAIN db[t]
        /\ \A t \in Tables : \A k \in DOMAIN w[t] : d[t][k] = w[t][k]
        /\ \A t \in Tables : \A k \in DOMAIN db[t] : k \notin DOMAIN w[t] => d[t][k] = db[t][k]
    BY <1>2, MergedIs
  <2>. HIDE DEF d
  <2>4. DOMAIN d.participant = Slots
    BY <1>2, <1>3, <1>4, <2>3 DEF Tables
  <2>5. Slots \subseteq DOMAIN d.score
    <3>1. Slots \subseteq missing \cup DOMAIN db.score
      BY <1>1, LockedSetup DEF missing, MissingScores
    <3>. QED
      BY <1>2, <2>3, <3>1 DEF Tables
  <2>6. ASSUME NEW s \in Slots
        PROVE  d.participant[s].user = own(s) /\ d.participant[s].name = q.spec.name[s]
    <3>1. CASE s \in renamed
      BY <1>2, <2>3, <3>1 DEF Tables
    <3>2. CASE s \notin renamed
      <4>1. d.participant[s] = q.rows.participant[s]
        BY <1>2, <1>3, <2>3, <3>2 DEF Tables
      <4>2. q.rows.participant[s].name = q.spec.name[s]
        BY <3>2, DifferencesAre DEF renamed
      <4>. QED
        BY <4>1, <4>2 DEF own
    <3>. QED
      BY <3>1, <3>2
  <2>7. ASSUME NEW s \in Slots
        PROVE  LET u == OwnUser(d, s)
               IN  /\ u.username = s /\ u.first = q.spec.name[s] /\ u.allowed
                   /\ u.pin = q.spec.pin[s] /\ u.current
    <3>1. OwnUser(d, s) = d.user[own(s)]
      BY <2>6 DEF OwnUser
    <3>2. CASE s \in stale
      <4>1. d.user[own(s)] = UserOf(q.spec, s)
        BY <1>2, <2>3, <3>2 DEF Tables
      <4>. QED
        BY <3>1, <4>1, UserOfIs
    <3>3. CASE s \notin stale
      <4>1. own(s) \notin DOMAIN w.user
        <5>1. \A o \in stale : o # s
          BY <3>3
        <5>. QED
          BY <1>2, <1>3, <1>4, <5>1 DEF Slots
      <4>2. OwnUser(d, s) = OwnUser(q.rows, s)
        BY <1>3, <2>3, <3>1, <4>1 DEF Tables, OwnUser, own
      <4>. QED
        BY <1>3, <3>3, <4>2, DifferencesAre DEF stale
    <3>. QED
      BY <3>2, <3>3
  <2>8. Matches(q.spec, d)
    BY <2>4, <2>5, <2>6, <2>7 DEF Matches
  <2>9. Consistent(d)
    <3>1. \A s \in Slots : d.participant[s].user \in DOMAIN d.user
      BY <1>3, <2>3, <2>6 DEF Tables
    <3>2. \A u, v \in DOMAIN w.user : u # v => w.user[u].username # w.user[v].username
      <4>1. ASSUME NEW s \in stale, NEW o \in stale, own(s) # own(o)
            PROVE  w.user[own(s)].username # w.user[own(o)].username
        BY <1>2, <1>4, <4>1, UserOfIs
      <4>. QED
        BY <1>2, <4>1
    <3>. QED
      BY <1>1, <1>2, <2>2, <2>8, <3>1, <3>2, WholeIsConsistent DEF d
  <2>10. ASSUME NEW t \in Tables, NEW k \in DOMAIN w[t] \cap DOMAIN db[t]
         PROVE  t # "score" /\ q.mode = "reconcile" /\ <<t, k>> \in q.held
    <3>1. t # "score"
      BY <2>2, <2>10
    <3>2. k \in Slots \cup Users /\ k \in DOMAIN q.rows[t]
      <4>1. CASE t = "user"
        BY <1>2, <1>3, <1>4, <2>10, <4>1
      <4>2. CASE t = "participant"
        BY <1>2, <1>3, <1>4, <2>10, <4>2
      <4>. QED
        BY <3>1, <4>1, <4>2 DEF Tables
    <3>. QED
      BY <1>1, <3>1, <3>2 DEF RunFits, ReadsHold
  <2>. QED
    BY <1>1, <1>2, <2>1, <2>8, <2>9, <2>10, WriteStep DEF d
<1>. QED
  BY <1>5, <1>6

-----------------------------------------------------------------------------
(* Commits                                                                 *)

\* Runs that are not under way do not depend on the database.
LEMMA QuietFits ==
    ASSUME NEW q, RunFits(q), q.at \in {"idle", "done"}
    PROVE  RunFits(q)'
<1>1. Stages(q)' /\ ReadsHold(q)' /\ UsersAreRead(q)' /\ MissesNone(q)'
  BY DEF RunFits, Stages, ReadsHold, UsersAreRead, MissesNone, Active, Locking, Tables
<1>2. ExactIsNoticed(q)' /\ LooksTrue(q)' /\ AnswerFits(q)' /\ CommitFits(q)'
  BY DEF RunFits, ExactIsNoticed, LooksTrue, AnswerFits, CommitFits, Active
<1>. QED
  BY <1>1, <1>2 DEF RunFits

\* The same run, but for what it is told.
Alike(p, q) ==
    /\ p.at = q.at /\ p.mode = q.mode /\ p.spec = q.spec /\ p.locking = q.locking
    /\ p.selected = q.selected /\ p.todo = q.todo /\ p.held = q.held /\ p.rows = q.rows
    /\ p.wrote = q.wrote /\ p.outcome = q.outcome

LEMMA Told ==
    ASSUME NEW q \in RunRecords, NEW b \in BOOLEAN
    PROVE  /\ [q EXCEPT !.exact = b] \in RunRecords /\ Alike([q EXCEPT !.exact = b], q)
           /\ [q EXCEPT !.exact = b].exact = b /\ [q EXCEPT !.exact = b].raced = q.raced
           /\ [q EXCEPT !.raced = b] \in RunRecords /\ Alike([q EXCEPT !.raced = b], q)
           /\ [q EXCEPT !.raced = b].raced = b /\ [q EXCEPT !.raced = b].exact = q.exact
BY DEF RunRecords, Alike

LEMMA CommitStep ==
    ASSUME IInv, NEW r \in Runs, Commit(r)
    PROVE  IInv'
<1>. DEFINE w == run[r].wrote
            new == Merged(w)
            Sees(q) == [q EXCEPT !.exact = q.exact \/ Inspect(q.spec, new) = "exact"]
            Seen(q) == [Sees(q) EXCEPT !.raced = TRUE]
<1>1. /\ run[r].at = "commit" /\ db' = new /\ UNCHANGED writer
      /\ run' = [o \in Runs |-> IF o = r THEN Ended(Sees(run[r]), run[r].outcome)
                                ELSE IF run[o].at \in {"idle", "done"} THEN run[o]
                                ELSE Seen(run[o])]
  BY DEF Commit
<1>2. /\ run[r] \in RunRecords /\ RunFits(run[r]) /\ Active(run[r])
      /\ run[r].outcome \in {"bootstrapped", "reconciled"}
      /\ w \in Snapshots /\ Consistent(new) /\ Matches(run[r].spec, new)
      /\ run[r].spec \in Environments /\ LoadSpecs(run[r].spec)
      /\ \A t \in Tables : \A k \in DOMAIN w[t] \cap DOMAIN db[t] :
             t # "score" /\ <<t, k>> \in run[r].held
  BY <1>1 DEF IInv, Types, RunFits, Stages, CommitFits, Active, RunRecords
<1>3. /\ \A t \in Tables : DOMAIN new[t] = DOMAIN w[t] \cup DOMAIN db[t]
      /\ \A t \in Tables : \A k \in DOMAIN db[t] : k \notin DOMAIN w[t] => new[t][k] = db[t][k]
  BY <1>2, MergedIs
<1>4. ASSUME NEW q \in RunRecords
      PROVE  /\ Sees(q) \in RunRecords /\ Alike(Sees(q), q) /\ Sees(q).raced = q.raced
             /\ Sees(q).exact <=> q.exact \/ Matches(q.spec, new)
  <2>. DEFINE x == q.exact \/ Inspect(q.spec, new) = "exact"
  <2>1. x <=> q.exact \/ Matches(q.spec, new)
    BY ExactIs
  <2>2. PICK b \in BOOLEAN : b <=> x
    OBVIOUS
  <2>3. x \in BOOLEAN /\ b = x
    BY <2>2
  <2>. HIDE DEF x
  <2>4. Sees(q) = [q EXCEPT !.exact = b]
    BY <2>3 DEF x
  <2>. HIDE DEF Sees
  <2>5. /\ [q EXCEPT !.exact = b] \in RunRecords /\ Alike([q EXCEPT !.exact = b], q)
        /\ [q EXCEPT !.exact = b].exact = b /\ [q EXCEPT !.exact = b].raced = q.raced
    BY <2>2, Told
  <2>6. /\ Sees(q) \in RunRecords /\ Alike(Sees(q), q) /\ Sees(q).raced = q.raced
        /\ Sees(q).exact = b
    BY <2>4, <2>5
  <2>. QED
    BY <2>1, <2>3, <2>6
<1>. HIDE DEF Sees
<1>5. ASSUME NEW q \in RunRecords
      PROVE  /\ Seen(q) \in RunRecords /\ Alike(Seen(q), q) /\ Seen(q).raced
             /\ Seen(q).exact <=> q.exact \/ Matches(q.spec, new)
  <2>1. Seen(q) \in RunRecords /\ Alike(Seen(q), Sees(q)) /\ Seen(q).raced = TRUE
        /\ Seen(q).exact = Sees(q).exact
    BY <1>4, Told
  <2>. QED
    BY <1>4, <2>1 DEF Alike
<1>. DEFINE e == Ended(Sees(run[r]), run[r].outcome)
<1>6. e \in RunRecords /\ e.at = "done" /\ e.held = {} /\ RunFits(e)
  <2>1. Sees(run[r]) \in RunRecords /\ Sees(run[r]).exact
    BY <1>2, <1>4
  <2>. QED
    BY <1>2, <2>1, EndFits
<1>. HIDE DEF Seen, e
<1>7. /\ run'[r] = e
      /\ \A o \in Runs : o # r =>
             run'[o] = IF run[o].at \in {"idle", "done"} THEN run[o] ELSE Seen(run[o])
  BY <1>1 DEF e
<1>8. Types'
  <2>1. \A o \in Runs : run'[o] \in RunRecords
    BY <1>5, <1>6, <1>7 DEF IInv, Types
  <2>2. DOMAIN run' = Runs
    BY <1>1
  <2>3. run' = [o \in Runs |-> run'[o]]
    BY <1>1, <2>2
  <2>. QED
    BY <1>1, <2>1, <2>3 DEF IInv, Types
<1>9. Database'
  <2>1. Consistent(db') /\ HasFreshKeys(db')
    BY <1>1, <1>2 DEF Matches, HasFreshKeys, Slots
  <2>2. \A s \in writer : s \in DOMAIN db'.score /\ db'.score[s] < MaxScore
    BY <1>1, <1>2, <1>3 DEF IInv, Database, Tables
  <2>. QED
    BY <1>1, <2>1, <2>2 DEF Database
<1>10. ASSUME NEW o \in Runs, o # r, run[o].at \notin {"idle", "done"}
       PROVE  RunFits(run[o])'
  <2>1. /\ run[o] \in RunRecords /\ RunFits(run[o]) /\ Active(run[o]) /\ run[o].at # "commit"
        /\ run[o].held \cap run[r].held = {}
    BY <1>1, <1>10 DEF IInv, Types, Apart, Active
  <2>2. PICK q : q = Seen(run[o])
    OBVIOUS
  <2>3. /\ run'[o] = q /\ q \in RunRecords
        /\ q.exact <=> run[o].exact \/ Matches(q.spec, new)
        /\ q.at = run[o].at /\ q.mode = run[o].mode /\ q.spec = run[o].spec
        /\ q.locking = run[o].locking /\ q.selected = run[o].selected /\ q.todo = run[o].todo
        /\ q.held = run[o].held /\ q.rows = run[o].rows /\ q.wrote = run[o].wrote
        /\ q.outcome = run[o].outcome /\ q.raced
    BY <1>5, <1>7, <1>10, <2>1, <2>2 DEF Alike
  <2>4. Active(q) /\ q.at # "commit" /\ q.wrote = NoRows
    BY <2>1, <2>3 DEF Active, RunFits, Stages
  <2>5. \A t \in Tables : DOMAIN db[t] \subseteq DOMAIN db'[t]
    BY <1>1, <1>3
  <2>6. Stages(q)'
    BY <2>1, <2>3, <2>4, <2>5 DEF RunFits, Stages, Active
  <2>7. ReadsHold(q)'
    <3>1. DOMAIN q.rows.score \subseteq DOMAIN db'.score
      BY <2>1, <2>3, <2>5 DEF RunFits, ReadsHold, Tables
    <3>2. \A s \in DOMAIN q.rows.participant : q.rows.participant[s].user \in DOMAIN db'.user
      BY <2>1, <2>3, <2>5 DEF RunFits, ReadsHold, Tables
    <3>3. ASSUME q.locking, NEW t \in {"participant", "user"}, NEW k \in DOMAIN q.rows[t]
          PROVE  k \in DOMAIN db'[t] /\ q.rows[t][k] = db'[t][k]
      <4>1. k \in DOMAIN db[t] /\ q.rows[t][k] = db[t][k]
        BY <2>1, <2>3, <3>3 DEF RunFits, ReadsHold
      <4>2. k \in Slots \cup Users /\ t \in Tables
        BY <2>1, <3>3, <4>1, DatabaseHas DEF Keys, Tables
      <4>3. <<t, k>> \in q.held
        BY <2>1, <2>3, <3>3, <4>2 DEF RunFits, ReadsHold
      <4>4. k \notin DOMAIN w[t]
        BY <1>2, <2>1, <2>3, <4>1, <4>2, <4>3
      <4>. QED
        BY <1>1, <1>3, <4>1, <4>2, <4>4
    <3>4. q.locking => \A t \in Tables, k \in Slots \cup Users :
                           <<t, k>> \in q.held <=> k \in DOMAIN q.rows[t]
      BY <2>1, <2>3 DEF RunFits, ReadsHold
    <3>. QED
      BY <3>1, <3>2, <3>3, <3>4 DEF ReadsHold
  <2>8. UsersAreRead(q)'
    BY <2>1, <2>3, <2>4 DEF RunFits, UsersAreRead, Active, Locking
  <2>9. MissesNone(q)' /\ AnswerFits(q)' /\ CommitFits(q)'
    BY <2>3, <2>4 DEF MissesNone, AnswerFits, CommitFits, Active
  <2>10. ExactIsNoticed(q)'
    BY <1>1, <2>3 DEF ExactIsNoticed
  <2>11. LooksTrue(q)'
    <3>1. SomeSetupIsWhole'
      BY <1>1, <1>2 DEF SomeSetupIsWhole
    <3>2. ~q.locking /\ q.at = "inspect" /\ Matches(q.spec, q.rows) => q.exact
      BY <2>1, <2>3 DEF RunFits, LooksTrue
    <3>. QED
      BY <3>1, <3>2 DEF LooksTrue
  <2>12. RunFits(q)'
    BY <2>6, <2>7, <2>8, <2>9, <2>10, <2>11 DEF RunFits
  <2>. QED
    BY <2>3, <2>12, FitsAs
<1>11. ASSUME NEW o \in Runs, o # r, run[o].at \in {"idle", "done"}
       PROVE  RunFits(run[o])'
  <2>1. run'[o] = run[o] /\ RunFits(run[o])
    BY <1>7, <1>11 DEF IInv
  <2>2. PICK q : q = run[o]
    OBVIOUS
  <2>3. RunFits(q) /\ q.at \in {"idle", "done"}
    BY <1>11, <2>1, <2>2
  <2>4. RunFits(q)'
    BY <2>3, QuietFits
  <2>. QED
    BY <2>1, <2>2, <2>4, FitsAs
<1>12. RunFits(run[r])'
  <2>1. PICK q : q = e
    OBVIOUS
  <2>2. RunFits(q) /\ q.at = "done"
    BY <1>6, <2>1
  <2>3. RunFits(q)'
    BY <2>2, QuietFits
  <2>. QED
    BY <1>7, <2>1, <2>3, FitsAs
<1>13. \A o \in Runs, p \in Runs : o # p => Apart(run[o], run[p])'
  <2>1. \A o \in Runs : o # r => run'[o].held = run[o].held /\ run'[o].at = run[o].at
    BY <1>5, <1>7 DEF IInv, Types, Alike
  <2>. QED
    BY <1>6, <1>7, <2>1 DEF IInv, Apart
<1>. QED
  BY <1>8, <1>9, <1>10, <1>11, <1>12, <1>13 DEF IInv

-----------------------------------------------------------------------------
(* Score changes, and the end of runs                                      *)

LEMMA WriteScoreStep ==
    ASSUME IInv, NEW s \in Slots, WriteScore(s)
    PROVE  IInv'
<1>1. /\ s \in DOMAIN db.score /\ db.score[s] < MaxScore /\ writer' = writer \cup {s}
      /\ UNCHANGED <<db, run>>
  BY DEF WriteScore
<1>2. Types' /\ Database'
  BY <1>1 DEF IInv, Types, Database
<1>3. ASSUME NEW o \in Runs PROVE RunFits(run[o])'
  <2>1. PICK q : q = run[o]
    OBVIOUS
  <2>2. RunFits(q)
    BY <2>1 DEF IInv
  <2>. QED
    BY <1>1, <2>1, <2>2, FitsAlike, FitsAs
<1>. QED
  BY <1>1, <1>2, <1>3 DEF IInv, Apart

\* A score change changes only a score that is there.
LEMMA ScoreFits ==
    ASSUME IInv, NEW s \in DOMAIN db.score, db.score[s] < MaxScore,
           db' = [db EXCEPT !.score[s] = @ + 1],
           NEW q \in RunRecords, RunFits(q)
    PROVE  RunFits(q)'
<1>1. /\ DOMAIN db' = Tables /\ db'.user = db.user /\ db'.participant = db.participant
      /\ DOMAIN db'.score = DOMAIN db.score
      /\ \A t \in Tables : DOMAIN db'[t] = DOMAIN db[t]
  BY DEF IInv, Database, Consistent, Tables
<1>2. \A i \in DOMAIN db.score : db'.score[i] = IF i = s THEN db.score[i] + 1 ELSE db.score[i]
  BY DEF IInv, Database, Consistent, Tables
<1>3. \A e : Matches(e, db)' <=> Matches(e, db)
  BY <1>1 DEF Matches, OwnUser
<1>4. Canonical(db)' = Canonical(db)
  BY <1>1 DEF Canonical
<1>5. Stages(q)' /\ ReadsHold(q)'
  <2>1. Stages(q)'
    BY <1>1 DEF RunFits, Stages
  <2>2. ReadsHold(q)'
    BY <1>1 DEF RunFits, ReadsHold
  <2>. QED
    BY <2>1, <2>2
<1>6. UsersAreRead(q)' /\ MissesNone(q)'
  BY <1>1, <1>4 DEF RunFits, UsersAreRead, MissesNone, Stages
<1>7. ExactIsNoticed(q)' /\ AnswerFits(q)'
  BY <1>3 DEF RunFits, ExactIsNoticed, AnswerFits
<1>8. LooksTrue(q)'
  BY <1>1, <1>3 DEF RunFits, LooksTrue, SameParticipants, SomeSetupIsWhole
<1>9. CommitFits(q)'
  <2>1. SUFFICES ASSUME q.at = "commit" PROVE CommitFits(q)'
    BY DEF CommitFits
  <2>. DEFINE w == q.wrote
              d == Merged(w)
              n == Merged(w)'
  <2>2. /\ Consistent(d) /\ Matches(q.spec, d) /\ DOMAIN w.score \cap DOMAIN db.score = {}
        /\ w \in Snapshots
    BY <2>1 DEF RunFits, CommitFits, RunRecords, Tables
  <2>3. /\ DOMAIN n = Tables /\ n.user = d.user /\ n.participant = d.participant
        /\ DOMAIN n.score = DOMAIN d.score
    BY <1>1 DEF Merged, Over, Tables
  <2>4. \A i \in DOMAIN n.score : n.score[i] = d.score[i] \/ (i = s /\ n.score[i] = db.score[s] + 1)
    BY <1>1, <1>2, <2>2 DEF Merged, Over, Tables
  <2>5. MaxScore \in Nat /\ db.score[s] \in Nat
    BY ProvisioningAssumption DEF IInv, Database, Consistent
  <2>. HIDE DEF n, d
  <2>6. \A i \in DOMAIN n.score : n.score[i] \in 0 .. MaxScore
    BY <2>2, <2>3, <2>4, <2>5 DEF Consistent
  <2>7. Consistent(n)
    BY <2>2, <2>3, <2>6 DEF Consistent
  <2>8. Matches(q.spec, n)
    BY <2>2, <2>3 DEF Matches, OwnUser
  <2>. QED
    BY <1>1, <2>1, <2>7, <2>8 DEF RunFits, CommitFits, n
<1>. QED
  BY <1>5, <1>6, <1>7, <1>8, <1>9 DEF RunFits

LEMMA CommitScoreStep ==
    ASSUME IInv, NEW s \in Slots, CommitScore(s)
    PROVE  IInv'
<1>1. /\ s \in writer /\ db' = [db EXCEPT !.score[s] = @ + 1] /\ writer' = writer \ {s}
      /\ UNCHANGED run
  BY DEF CommitScore
<1>2. s \in DOMAIN db.score /\ db.score[s] < MaxScore
  BY <1>1 DEF IInv, Database
<1>3. Types'
  BY <1>1 DEF IInv, Types
<1>4. Database'
  <2>1. /\ DOMAIN db' = Tables /\ db'.user = db.user /\ db'.participant = db.participant
        /\ DOMAIN db'.score = DOMAIN db.score
        /\ \A i \in DOMAIN db.score : db'.score[i] = IF i = s THEN db.score[i] + 1 ELSE db.score[i]
    BY <1>1 DEF IInv, Database, Consistent, Tables
  <2>2. MaxScore \in Nat /\ \A i \in DOMAIN db.score : db.score[i] \in 0 .. MaxScore
    BY ProvisioningAssumption DEF IInv, Database, Consistent
  <2>3. \A i \in DOMAIN db'.score : db'.score[i] \in 0 .. MaxScore
    BY <1>2, <2>1, <2>2
  <2>4. Consistent(db')
    BY <2>1, <2>3 DEF IInv, Database, Consistent
  <2>5. HasFreshKeys(db')
    BY <2>1 DEF IInv, Database, HasFreshKeys
  <2>6. \A i \in writer' : i \in DOMAIN db'.score /\ db'.score[i] < MaxScore
    BY <1>1, <2>1 DEF IInv, Database
  <2>. QED
    BY <2>4, <2>5, <2>6 DEF Database
<1>5. ASSUME NEW o \in Runs PROVE RunFits(run[o])'
  <2>1. PICK q : q = run[o]
    OBVIOUS
  <2>2. q \in RunRecords /\ RunFits(q)
    BY <2>1 DEF IInv, Types
  <2>3. RunFits(q)'
    BY <1>1, <1>2, <2>2, ScoreFits
  <2>. QED
    BY <1>1, <2>1, <2>3, FitsAs
<1>. QED
  BY <1>1, <1>3, <1>4, <1>5 DEF IInv, Apart

LEMMA DeadlockStep ==
    ASSUME IInv, NEW r \in Runs, NEW s \in Slots, DeadlockFound(r, s)
    PROVE  IInv'
<1>1. UNCHANGED db
  BY DEF DeadlockFound
<1>2. CASE Becomes(r, Ended(run[r], "killed")) /\ UNCHANGED writer
  BY <1>1, <1>2, EndStep
<1>3. CASE writer' = writer \ {s} /\ UNCHANGED run
  <2>1. Types' /\ Database'
    BY <1>1, <1>3 DEF IInv, Types, Database
  <2>2. ASSUME NEW o \in Runs PROVE RunFits(run[o])'
    <3>1. PICK q : q = run[o]
      OBVIOUS
    <3>2. RunFits(q)
      BY <3>1 DEF IInv
    <3>. QED
      BY <1>1, <1>3, <3>1, <3>2, FitsAlike, FitsAs
  <2>. QED
    BY <1>3, <2>1, <2>2 DEF IInv, Apart
<1>. QED
  BY <1>2, <1>3 DEF DeadlockFound

-----------------------------------------------------------------------------
(* The invariant holds                                                     *)

LEMMA InitInvariant == Init => IInv
<1>1. SUFFICES ASSUME Init PROVE IInv
  OBVIOUS
<1>2. Idle \in RunRecords /\ Idle.at = "idle" /\ Idle.outcome = "" /\ Idle.held = {}
      /\ Idle.wrote = NoRows /\ ~Idle.selected
  BY NoRowsIs DEF Idle, RunRecords
<1>3. RunFits(Idle)
  BY <1>2 DEF RunFits, Stages, ReadsHold, UsersAreRead, MissesNone, ExactIsNoticed, LooksTrue,
     AnswerFits, CommitFits, Active, Locking, Tables, Positive
<1>4. Types
  BY <1>1, <1>2 DEF Init, Types
<1>5. Database
  BY <1>1, ProvisioningAssumption DEF Init, Database
<1>6. \A r \in Runs : run[r] = Idle
  BY <1>1 DEF Init
<1>7. \A r \in Runs, o \in Runs : r # o => Apart(run[r], run[o])
  BY <1>2, <1>6 DEF Apart
<1>8. \A r \in Runs : RunFits(run[r])
  BY <1>3, <1>6
<1>. QED
  BY <1>4, <1>5, <1>7, <1>8 DEF IInv

LEMMA InvariantStep == IInv /\ [Next]_vars => IInv'
<1>1. SUFFICES ASSUME IInv, [Next]_vars PROVE IInv'
  OBVIOUS
<1>2. CASE UNCHANGED vars
  <2>1. UNCHANGED <<db, writer, run>>
    BY <1>2 DEF vars
  <2>2. ASSUME NEW o \in Runs PROVE RunFits(run[o])'
    <3>1. PICK q : q = run[o]
      OBVIOUS
    <3>2. RunFits(q)
      BY <1>1, <3>1 DEF IInv
    <3>. QED
      BY <2>1, <3>1, <3>2, FitsAlike, FitsAs
  <2>. QED
    BY <1>1, <2>1, <2>2 DEF IInv, Types, Database, Apart
<1>3. ASSUME NEW r \in Runs, NEW e \in Environments, NEW mode \in Modes, Begin(r, e, mode)
      PROVE  IInv'
  BY <1>1, <1>3, BeginStep
<1>4. ASSUME NEW r \in Runs, Step(r) PROVE IInv'
  BY <1>1, <1>4, ReadStep, SelectStep, LockStep, LookStep, BootstrapStep, ReconcileStep,
     LeaveStep, CommitStep DEF Step
<1>5. ASSUME NEW r \in Runs, Killed(r) PROVE IInv'
  BY <1>1, <1>5, EndStep DEF Killed
<1>6. ASSUME NEW s \in Slots, WriteScore(s) \/ CommitScore(s) PROVE IInv'
  BY <1>1, <1>6, WriteScoreStep, CommitScoreStep
<1>7. ASSUME NEW r \in Runs, NEW s \in Slots, DeadlockFound(r, s) PROVE IInv'
  BY <1>1, <1>7, DeadlockStep
<1>. QED
  BY <1>1, <1>2, <1>3, <1>4, <1>5, <1>6, <1>7 DEF Next

LEMMA Invariance == Spec => []IInv
BY InitInvariant, InvariantStep, PTL DEF Spec

-----------------------------------------------------------------------------
(* What follows                                                            *)

\* The rows keep the constraints of their tables, whoever writes them.
THEOREM RowsAreConsistent == Spec => []TypeOK
<1>1. IInv => TypeOK
  <2>1. SUFFICES ASSUME IInv PROVE TypeOK
    OBVIOUS
  <2>2. Consistent(db) /\ writer \subseteq DOMAIN db.score
    BY <2>1 DEF IInv, Database
  <2>3. ASSUME NEW r \in Runs
        PROVE  /\ run[r].at \in Tables \cup {"idle", "inspect", "commit", "done"}
               /\ run[r].outcome \in {"", "bootstrapped", "unchanged", "reconciled",
                                      "refused", "clash", "killed"}
               /\ run[r].held \subseteq Tables \X (Slots \cup Users)
    BY <2>1 DEF IInv, Types, RunRecords
  <2>. QED
    BY <2>2, <2>3 DEF TypeOK
<1>. QED
  BY <1>1, Invariance, PTL

\* A run that says the setup matches, or that it made it match, is right, although it
\* reads the tables one after the other while others write them.
THEOREM AnswersAreTrue == Spec => []AnswersWereTrue
<1>1. IInv => AnswersWereTrue
  BY DEF IInv, RunFits, AnswerFits, AnswersWereTrue, Positive
<1>. QED
  BY <1>1, Invariance, PTL

\* Without a race no unique key refuses a run; and a circle with a score change
\* takes a score that another run has committed since.
THEOREM RacesOnly == Spec => []FailsOnlyInARace
<1>1. IInv => FailsOnlyInARace
  <2>1. SUFFICES ASSUME IInv, NEW r \in Runs
                 PROVE  /\ run[r].outcome = "clash" => run[r].raced
                        /\ \A s \in Slots : Circle(r, s) =>
                               s \notin DOMAIN run[r].rows.score /\ run[r].raced
    BY DEF FailsOnlyInARace
  <2>2. RunFits(run[r])
    BY <2>1 DEF IInv
  <2>3. ASSUME NEW s \in Slots, Circle(r, s)
        PROVE  s \notin DOMAIN run[r].rows.score /\ run[r].raced
    <3>1. <<"participant", s>> \in run[r].held
      BY <2>3 DEF Circle
    <3>2. Active(run[r]) /\ run[r].locking
      BY <2>2, <3>1 DEF RunFits, Stages
    <3>3. s \in DOMAIN run[r].rows.participant
      BY <2>2, <3>1, <3>2 DEF RunFits, ReadsHold, Tables
    <3>4. run[r].at # "score"
      BY <2>2, <3>3 DEF RunFits, Stages
    <3>5. run[r].at = "inspect" /\ s \in MissingScores(run[r].rows) \cap DOMAIN db.score
      BY <2>3, <3>4 DEF Circle, WaitsForWriter, InsertedAgain
    <3>6. s \notin DOMAIN run[r].rows.score
      BY <3>5 DEF MissingScores
    <3>. QED
      BY <2>2, <3>2, <3>5, <3>6 DEF RunFits, MissesNone, Locking
  <2>. QED
    BY <2>2, <2>3 DEF RunFits, AnswerFits
<1>. QED
  BY <1>1, Invariance, PTL

\* A run that is about to commit ends by its commit, or is killed.
LEMMA CommitEnds ==
    ASSUME IInv, Next, NEW r \in Runs, run[r].at = "commit", run'[r].at = "done"
    PROVE  Commit(r) \/ Killed(r)
<1>1. run \in [Runs -> RunRecords] /\ ~run[r].selected
  BY DEF IInv, Types, RunFits, Stages, Tables
<1>. DEFINE Same == run'[r] = run[r]
<1>2. ASSUME NEW o \in Runs, NEW q, o # r, Becomes(o, q) PROVE Same
  BY <1>1, <1>2 DEF Becomes
<1>3. ASSUME NEW o \in Runs, NEW e \in Environments, NEW mode \in Modes, Begin(o, e, mode)
      PROVE  Same
  BY <1>2, <1>3 DEF Begin
<1>4. ASSUME NEW o \in Runs, Step(o) PROVE Same \/ Commit(r)
  <2>1. CASE Read(o) \/ Select(o) \/ LockNext(o)
    <3>1. o # r
      BY <2>1 DEF Read, Select, LockNext, Tables
    <3>. QED
      BY <1>2, <2>1, <3>1 DEF Read, Select, LockNext
  <2>2. CASE Look(o) \/ Bootstrap(o) \/ Reconcile(o)
    <3>1. o # r
      BY <2>2 DEF Look, Bootstrap, Reconcile
    <3>. QED
      BY <1>2, <2>2, <3>1 DEF Look, Bootstrap, Reconcile
  <2>3. CASE Leave(o)
    <3>1. o # r
      BY <2>3 DEF Leave
    <3>. QED
      BY <1>2, <2>3, <3>1 DEF Leave
  <2>4. CASE Commit(o)
    <3>1. run[o].at = "commit"
      BY <2>4 DEF Commit
    <3>. QED
      BY <2>4, <3>1 DEF IInv, Apart
  <2>. QED
    BY <1>4, <2>1, <2>2, <2>3, <2>4 DEF Step
<1>5. ASSUME NEW o \in Runs, Killed(o) PROVE Same \/ Killed(r)
  BY <1>2, <1>5 DEF Killed
<1>6. ASSUME NEW s \in Slots, WriteScore(s) \/ CommitScore(s) PROVE Same
  BY <1>6 DEF WriteScore, CommitScore
<1>7. ASSUME NEW o \in Runs, NEW s \in Slots, DeadlockFound(o, s) PROVE Same
  <2>1. o # r
    BY <1>1, <1>7 DEF DeadlockFound, Circle, WaitsForWriter
  <2>. QED
    BY <1>2, <1>7, <2>1 DEF DeadlockFound
<1>8. ~Same
  OBVIOUS
<1>. QED
  BY <1>3, <1>4, <1>5, <1>6, <1>7, <1>8 DEF Next

\* What a run commits makes the setup exactly what its environment asks for, changes
\* no score that is there, and only the reconcile mode changes rows at all.
THEOREM SetupsAreWhole == Spec => WholeSetups
<1>1. ASSUME IInv, Next, NEW r \in Runs, run[r].at = "commit", run'[r].at = "done"
      PROVE  /\ run'[r].outcome # "killed" => Inspect(run[r].spec, db') = "exact"
             /\ \A t \in Tables : \A k \in DOMAIN db[t] :
                    t = "score" \/ run[r].mode # "reconcile" =>
                        k \in DOMAIN db'[t] /\ db'[t][k] = db[t][k]
  <2>1. run[r] \in RunRecords /\ RunFits(run[r])
    BY <1>1 DEF IInv, Types
  <2>2. CASE Commit(r)
    <3>1. db' = Merged(run[r].wrote)
      BY <2>2 DEF Commit
    <3>2. /\ Matches(run[r].spec, Merged(run[r].wrote)) /\ run[r].wrote \in Snapshots
          /\ \A t \in Tables : \A k \in DOMAIN run[r].wrote[t] \cap DOMAIN db[t] :
                 t # "score" /\ run[r].mode = "reconcile"
      BY <1>1, <2>1 DEF RunFits, CommitFits, RunRecords
    <3>3. \A t \in Tables :
              /\ DOMAIN db'[t] = DOMAIN run[r].wrote[t] \cup DOMAIN db[t]
              /\ \A k \in DOMAIN db[t] : k \notin DOMAIN run[r].wrote[t] => db'[t][k] = db[t][k]
      BY <1>1, <3>1, <3>2, MergedIs
    <3>. QED
      BY <3>1, <3>2, <3>3, ExactIs
  <2>3. CASE Killed(r)
    <3>1. run'[r] = Ended(run[r], "killed") /\ db' = db
      BY <1>1, <2>3 DEF Killed, Becomes, IInv, Types
    <3>2. Ended(run[r], "killed").outcome = "killed"
      BY <2>1 DEF Ended, RunRecords
    <3>. QED
      BY <3>1, <3>2
  <2>. QED
    BY <1>1, <2>2, <2>3, CommitEnds
<1>2. IInv /\ [Next]_vars => [\A r \in Runs : run[r].at = "commit" /\ run'[r].at = "done" =>
          /\ run'[r].outcome # "killed" => Inspect(run[r].spec, db') = "exact"
          /\ \A t \in Tables : \A k \in DOMAIN db[t] :
                 t = "score" \/ run[r].mode # "reconcile" =>
                     k \in DOMAIN db'[t] /\ db'[t][k] = db[t][k]]_vars
  BY <1>1
<1>. QED
  BY <1>2, Invariance, PTL DEF Spec, WholeSetups
=============================================================================
