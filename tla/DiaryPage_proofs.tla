-------------------------- MODULE DiaryPage_proofs --------------------------
(***************************************************************************)
(* A visit of a diary page, for any entries, pages, loads, requests and    *)
(* commands from elsewhere.                                                *)
(*                                                                         *)
(* The argument: whenever the page says that something is saved or deleted *)
(* it begins a load, or is left, so that the only load that may be drawn   *)
(* reads the list after all that was said; versions only grow, and files   *)
(* are read after the texts.  An answer that is taken for a refusal can    *)
(* only be one, for the answers that may come after a commit are those     *)
(* after which the list is read again or the form stays locked.            *)
(***************************************************************************)
EXTENDS DiaryPage, FiniteSetTheorems, TLAPS

-----------------------------------------------------------------------------
(* The inductive invariant                                                 *)

Texts == UNION {[D -> Int] : D \in SUBSET Entries}

LoadRecords ==
    [at : {"none", "count", "slice", "files", "answered", "missing", "failed"},
     protected : BOOLEAN, counted : Nat, text : Texts, files : Texts]

RequestRecords ==
    [kind : {"none", "create", "edit", "delete"}, on : Entries \cup {Form},
     server : {"over", "running", "refused", "committed", "answered", "broken"},
     did : BOOLEAN, version : Nat, listed : BOOLEAN, page : {"over", "waits", "loads"},
     awaits : Nat, result : {"none", "saved", "refused", "unknown"}]

Types ==
    /\ db \in [Entries -> Int]
    /\ pageNumber \in PageNumbers
    /\ open \in BOOLEAN
    /\ load \in [Loads -> LoadRecords]
    /\ sequence \in Loads
    /\ shown \subseteq Entries /\ editing \subseteq shown /\ spent \subseteq Entries
    /\ request \in [Requests -> RequestRecords]
    /\ elsewhere \in Nat
    /\ said \in [Entries -> Int]

\* How far the view and the page are with a request.
StagesFit(r) ==
    /\ r.kind = "none" => r.page = "over"
    /\ r.page = "waits" <=> r.kind # "none" /\ r.result = "none"
    /\ r.page = "waits" => r.server # "over"
    /\ r.kind \in {"edit", "delete"} /\ r.server # "over" => r.on \in Entries

\* Nothing was done by a view that runs or refuses, nor when the page took it so.
DoesNothing(r) ==
    /\ r.server \in {"running", "refused"} \/ r.kind \notin {"create", "delete"} => ~r.did
    /\ r.kind \in {"create", "delete"} /\ r.result = "refused" =>
           r.server # "running" /\ ~r.did

\* What a view answers has been so.
AnswerFits(r) ==
    /\ r.kind = "create" /\ r.server \in {"committed", "answered"} =>
           r.version \in Entries /\ db[r.version] # Unwritten
    /\ r.kind = "edit" /\ r.server = "answered" => r.version <= db[r.on] \/ db[r.on] = Deleted
    /\ r.kind = "delete" /\ r.server \in {"committed", "answered"} => db[r.on] = Deleted

RequestsFit ==
    \A m \in Requests :
        StagesFit(request[m]) /\ DoesNothing(request[m]) /\ AnswerFits(request[m])

\* A post of the form whose outcome the page does not know
Pending(m) == request[m].kind = "create" /\ request[m].result \in {"none", "unknown"}

OnePending == \A m \in Requests, n \in Requests : Pending(m) /\ Pending(n) => m = n

\* What the page has said is so, or was.
SaidIsTrue ==
    \A e \in Entries :
        /\ said[e] = Deleted => db[e] = Deleted
        /\ said[e] <= db[e] \/ db[e] = Deleted

\* The load that may be drawn has read no less than was said.
LatestIsFresh ==
    open => LET r == load[sequence]
            IN  r.at \in {"files", "answered"} =>
                    \A e \in DOMAIN r.text :
                        /\ said[e] # Deleted /\ r.text[e] >= said[e] /\ r.text[e] > 0
                        /\ r.text[e] <= db[e] \/ db[e] = Deleted
                        /\ r.at = "answered" =>
                               /\ e \in DOMAIN r.files
                               /\ r.files[e] = Deleted \/ r.files[e] >= r.text[e]

IInv == Types /\ RequestsFit /\ OnePending /\ SaidIsTrue /\ LatestIsFresh

-----------------------------------------------------------------------------
(* What the steps change                                                   *)

\* Versions only grow, and what is deleted stays so.
Grows ==
    /\ db' \in [Entries -> Int]
    /\ \A e \in Entries :
          /\ db[e] = Deleted => db'[e] = Deleted
          /\ db[e] # Unwritten => db'[e] # Unwritten
          /\ db'[e] >= db[e] \/ db'[e] = Deleted

LEMMA SameGrows == ASSUME Types, db' = db PROVE Grows
BY DEF Types, Grows

LEMMA TextsAre ==
    ASSUME NEW t \in Texts
    PROVE  DOMAIN t \subseteq Entries /\ \A e \in DOMAIN t : t[e] \in Int
BY DEF Texts

LEMMA TextIs ==
    ASSUME NEW D \in SUBSET Entries, NEW t \in [D -> Int]
    PROVE  t \in Texts
BY DEF Texts

LEMMA UnreadIs == Unread \in Texts
<1>1. Unread \in [{} -> Int]
  BY DEF Unread
<1>. QED
  BY <1>1, TextIs

LEMMA RowsAreFew == IsFiniteSet(LiveRows) /\ Cardinality(LiveRows) \in Nat
<1>1. LiveRows \subseteq Entries
  BY DEF LiveRows
<1>. QED
  BY <1>1, FS_Subset, FS_CardinalityType, DiaryPageAssumption

LEMMA LoadIs ==
    ASSUME NEW at \in {"none", "count", "slice", "files", "answered", "missing", "failed"},
           NEW protected \in BOOLEAN
    PROVE  /\ In(at, protected) \in LoadRecords /\ In(at, protected).at = at
           /\ NoLoad \in LoadRecords /\ NoLoad.at = "none"
BY UnreadIs DEF In, NoLoad, LoadRecords

\* A step that lets versions grow keeps what was said true.
LEMMA SaidKept ==
    ASSUME IInv, Grows, said' = said
    PROVE  SaidIsTrue'
BY DEF IInv, Types, SaidIsTrue, Grows

\* Nor does it make the load older.
LEMMA FreshKept ==
    ASSUME IInv, Grows, UNCHANGED <<load, sequence, said, open>>
    PROVE  LatestIsFresh'
<1>. DEFINE r == load[sequence]
<1>1. SUFFICES ASSUME open, r.at \in {"files", "answered"}, NEW e \in DOMAIN r.text
               PROVE  /\ said[e] # Deleted /\ r.text[e] >= said[e] /\ r.text[e] > 0
                      /\ r.text[e] <= db'[e] \/ db'[e] = Deleted
                      /\ r.at = "answered" =>
                             /\ e \in DOMAIN r.files
                             /\ r.files[e] = Deleted \/ r.files[e] >= r.text[e]
  BY DEF LatestIsFresh
<1>2. r \in LoadRecords
  BY DEF IInv, Types
<1>3. e \in Entries /\ r.text[e] \in Int
  BY <1>1, <1>2, TextsAre DEF LoadRecords
<1>4. /\ said[e] # Deleted /\ r.text[e] >= said[e] /\ r.text[e] > 0
      /\ r.text[e] <= db[e] \/ db[e] = Deleted
      /\ r.at = "answered" =>
             /\ e \in DOMAIN r.files
             /\ r.files[e] = Deleted \/ r.files[e] >= r.text[e]
  BY <1>1 DEF IInv, LatestIsFresh
<1>5. /\ db[e] \in Int /\ db'[e] \in Int
      /\ db[e] = Deleted => db'[e] = Deleted
      /\ db'[e] >= db[e] \/ db'[e] = Deleted
  BY <1>3 DEF IInv, Types, Grows
<1>. QED
  BY <1>3, <1>4, <1>5

\* A load is begun: nothing of it is read yet.
LEMMA BeginIsFresh ==
    ASSUME IInv, NEW p \in BOOLEAN, Begin(p)
    PROVE  /\ load' \in [Loads -> LoadRecords]
           /\ sequence' \in Loads /\ sequence' \in Nat /\ sequence' = sequence + 1
           /\ LatestIsFresh'
<1>1. sequence \in Loads /\ sequence + 1 \in Loads /\ sequence \in Nat
  BY DiaryPageAssumption DEF IInv, Types, Loads, Begin
<1>2. load \in [Loads -> LoadRecords]
  BY DEF IInv, Types
<1>3. In("count", p) \in LoadRecords /\ In("count", p).at = "count" /\ NoLoad \in LoadRecords
  BY LoadIs
<1>4. /\ load' \in [Loads -> LoadRecords]
      /\ load'[sequence + 1] = In("count", p)
  BY <1>1, <1>2, <1>3 DEF Begin
<1>5. sequence' = sequence + 1
  BY DEF Begin
<1>6. load'[sequence'].at = "count"
  BY <1>3, <1>4, <1>5
<1>. QED
  BY <1>1, <1>4, <1>5, <1>6 DEF LatestIsFresh

\* One request changes.
LEMMA RequestStep ==
    ASSUME IInv, Grows, request' \in [Requests -> RequestRecords],
           NEW m \in Requests, \A n \in Requests : n # m => request'[n] = request[n],
           StagesFit(request'[m]), DoesNothing(request'[m]), AnswerFits(request[m])',
           Pending(m)' => Pending(m) \/ \A n \in Requests : ~Pending(n)
    PROVE  RequestsFit' /\ OnePending'
<1>1. ASSUME NEW n \in Requests, n # m
      PROVE  StagesFit(request'[n]) /\ DoesNothing(request'[n]) /\ AnswerFits(request[n])'
  <2>1. StagesFit(request[n]) /\ DoesNothing(request[n]) /\ AnswerFits(request[n])
    BY DEF IInv, RequestsFit
  <2>2. request'[n] = request[n] /\ request[n] \in RequestRecords
    BY <1>1 DEF IInv, Types
  <2>3. AnswerFits(request[n])'
    BY <2>1, <2>2 DEF AnswerFits, StagesFit, Grows, RequestRecords, IInv, Types
  <2>. QED
    BY <2>1, <2>2, <2>3
<1>2. RequestsFit'
  BY <1>1 DEF RequestsFit, StagesFit, DoesNothing
<1>3. \A n \in Requests : n # m => (Pending(n)' <=> Pending(n))
  BY DEF Pending
<1>4. OnePending'
  BY <1>3 DEF IInv, OnePending
<1>. QED
  BY <1>2, <1>4

LEMMA NoRequestStep ==
    ASSUME IInv, Grows, \A m \in Requests : /\ request'[m].kind = request[m].kind
                                            /\ request'[m].on = request[m].on
                                            /\ request'[m].server = request[m].server
                                            /\ request'[m].did = request[m].did
                                            /\ request'[m].version = request[m].version
                                            /\ request'[m].page = request[m].page
                                            /\ request'[m].result = request[m].result
    PROVE  RequestsFit' /\ OnePending'
<1>1. ASSUME NEW n \in Requests
      PROVE  StagesFit(request'[n]) /\ DoesNothing(request'[n]) /\ AnswerFits(request[n])'
  <2>1. StagesFit(request[n]) /\ DoesNothing(request[n]) /\ AnswerFits(request[n])
    BY DEF IInv, RequestsFit
  <2>2. request[n] \in RequestRecords
    BY DEF IInv, Types
  <2>3. AnswerFits(request[n])'
    BY <2>1, <2>2 DEF AnswerFits, StagesFit, Grows, RequestRecords, IInv, Types
  <2>4. StagesFit(request'[n]) /\ DoesNothing(request'[n])
    BY <2>1 DEF StagesFit, DoesNothing
  <2>. QED
    BY <2>3, <2>4
<1>2. RequestsFit'
  BY <1>1 DEF RequestsFit, StagesFit, DoesNothing
<1>3. OnePending'
  BY DEF IInv, OnePending, Pending
<1>. QED
  BY <1>2, <1>3

-----------------------------------------------------------------------------
(* Loads                                                                   *)

\* A load that is not, or no longer, read for the page.
LEMMA LoadStep ==
    ASSUME IInv, NEW i \in Loads, NEW r \in LoadRecords, load' = [load EXCEPT ![i] = r],
           UNCHANGED <<db, page, request, elsewhere>>,
           i = sequence => LatestIsFresh'
    PROVE  IInv'
<1>1. UNCHANGED <<db, pageNumber, open, sequence, shown, editing, spent, said, request, elsewhere>>
  BY DEF page, cards
<1>2. Types'
  BY <1>1 DEF IInv, Types
<1>3. RequestsFit' /\ OnePending'
  BY <1>1, SameGrows, NoRequestStep DEF IInv
<1>4. SaidIsTrue'
  BY <1>1, SameGrows, SaidKept DEF IInv
<1>5. LatestIsFresh'
  <2>1. CASE i # sequence
    <3>1. sequence' = sequence /\ load'[sequence] = load[sequence]
      BY <1>1, <2>1 DEF IInv, Types
    <3>. QED
      BY <1>1, <3>1 DEF IInv, LatestIsFresh
  <2>. QED
    BY <2>1
<1>. QED
  BY <1>2, <1>3, <1>4, <1>5 DEF IInv

LEMMA IdleLoadStep ==
    ASSUME IInv, NEW i \in Loads, NEW r \in LoadRecords, load' = [load EXCEPT ![i] = r],
           r.at \notin {"files", "answered"},
           UNCHANGED <<db, page, request, elsewhere>>
    PROVE  IInv'
<1>1. ASSUME i = sequence PROVE LatestIsFresh'
  <2>1. load'[i] = r /\ sequence' = i
    BY <1>1 DEF IInv, Types, page
  <2>. QED
    BY <2>1 DEF LatestIsFresh
<1>. QED
  BY <1>1, LoadStep

LEMMA CountRowsStep ==
    ASSUME IInv, NEW i \in Loads, CountRows(i), UNCHANGED elsewhere
    PROVE  IInv'
<1>. DEFINE r == [load[i] EXCEPT !.at = "slice", !.counted = Cardinality(LiveRows)]
<1>1. load[i] \in LoadRecords
  BY DEF IInv, Types
<1>2. r \in LoadRecords /\ r.at = "slice"
  BY <1>1, RowsAreFew DEF LoadRecords
<1>3. load' = [load EXCEPT ![i] = r]
  BY <1>1 DEF CountRows, IInv, Types
<1>. QED
  BY <1>2, <1>3, IdleLoadStep DEF CountRows

LEMMA MissPageStep ==
    ASSUME IInv, NEW i \in Loads, MissPage(i), UNCHANGED elsewhere
    PROVE  IInv'
<1>. DEFINE r == IF i = sequence THEN In("missing", FALSE) ELSE NoLoad
<1>1. r \in LoadRecords /\ r.at \notin {"files", "answered"}
  BY LoadIs
<1>. QED
  BY <1>1, IdleLoadStep DEF MissPage

\* The texts are of entries that are live now, of which nothing later was said.
LEMMA ReadSliceStep ==
    ASSUME IInv, NEW i \in Loads, ReadSlice(i), UNCHANGED elsewhere
    PROVE  IInv'
<1>. DEFINE t == [e \in Slice(load[i].counted) |-> db[e]]
            r == [load[i] EXCEPT !.at = "files", !.counted = 0, !.text = t]
<1>1. load[i] \in LoadRecords
  BY DEF IInv, Types
<1>2. t \in Texts /\ DOMAIN t = Slice(load[i].counted)
  <2>1. Slice(load[i].counted) \subseteq Entries
    BY DEF Slice, LiveRows
  <2>2. t \in [Slice(load[i].counted) -> Int]
    BY <2>1 DEF IInv, Types
  <2>. QED
    BY <2>1, <2>2, TextIs
<1>3. r \in LoadRecords /\ r.at = "files" /\ r.text = t
  BY <1>1, <1>2 DEF LoadRecords
<1>4. load' = [load EXCEPT ![i] = r]
  BY <1>1 DEF ReadSlice, IInv, Types
<1>5. ASSUME i = sequence PROVE LatestIsFresh'
  <2>1. load'[sequence'] = r
    BY <1>4, <1>5 DEF ReadSlice, page, IInv, Types
  <2>2. ASSUME NEW e \in Slice(load[i].counted)
        PROVE  t[e] <= db[e] /\ t[e] > 0 /\ said[e] # Deleted /\ t[e] >= said[e]
    BY <2>2 DEF Slice, LiveRows, Live, IInv, Types, SaidIsTrue, Deleted
  <2>3. db' = db /\ said' = said
    BY DEF ReadSlice, page
  <2>. HIDE DEF t, r
  <2>. QED
    BY <1>2, <1>3, <2>1, <2>2, <2>3 DEF LatestIsFresh
<1>. QED
  BY <1>3, <1>4, <1>5, LoadStep DEF ReadSlice

\* The files are read after the texts.
LEMMA ReadFilesStep ==
    ASSUME IInv, NEW i \in Loads, ReadFiles(i), UNCHANGED elsewhere
    PROVE  IInv'
<1>. DEFINE t == load[i].text
            f == [e \in DOMAIN t |-> db[e]]
            r == [load[i] EXCEPT !.at = "answered", !.files = f]
<1>1. load[i] \in LoadRecords /\ t \in Texts
  BY DEF IInv, Types, LoadRecords
<1>2. DOMAIN t \subseteq Entries /\ \A e \in DOMAIN t : t[e] \in Int
  BY <1>1, TextsAre
<1>3. f \in Texts
  <2>1. f \in [DOMAIN t -> Int]
    BY <1>2 DEF IInv, Types
  <2>. QED
    BY <1>2, <2>1, TextIs
<1>4. r \in LoadRecords /\ r.at = "answered" /\ r.text = t /\ r.files = f
  BY <1>1, <1>3 DEF LoadRecords
<1>5. load' = [load EXCEPT ![i] = r]
  BY <1>1 DEF ReadFiles, IInv, Types
<1>6. ASSUME i = sequence PROVE LatestIsFresh'
  <2>1. load'[sequence'] = r
    BY <1>5, <1>6 DEF ReadFiles, page, IInv, Types
  <2>2. db' = db /\ said' = said /\ open' = open
    BY DEF ReadFiles, page
  <2>3. ASSUME open, NEW e \in DOMAIN t
        PROVE  /\ said[e] # Deleted /\ t[e] >= said[e] /\ t[e] > 0
               /\ t[e] <= db[e] \/ db[e] = Deleted
    BY <1>6, <2>3 DEF ReadFiles, IInv, LatestIsFresh
  <2>. QED
    BY <1>4, <2>1, <2>2, <2>3 DEF LatestIsFresh
<1>. QED
  BY <1>4, <1>5, <1>6, LoadStep DEF ReadFiles

LEMMA FailLoadStep ==
    ASSUME IInv, NEW i \in Loads, FailLoad(i), UNCHANGED elsewhere
    PROVE  IInv'
<1>. DEFINE r == In("failed", load[i].protected)
<1>1. r \in LoadRecords /\ r.at \notin {"files", "answered"}
  BY LoadIs DEF IInv, Types, LoadRecords
<1>2. load' = [load EXCEPT ![i] = r]
  BY DEF FailLoad, IInv, Types
<1>. QED
  BY <1>1, <1>2, IdleLoadStep DEF FailLoad

LEMMA ExpireLoadStep ==
    ASSUME IInv, NEW i \in Loads, ExpireLoad(i), UNCHANGED elsewhere
    PROVE  IInv'
<1>1. UNCHANGED <<db, load, pageNumber, sequence, shown, editing, spent, request, said>>
  BY DEF ExpireLoad, cards
<1>2. Types'
  BY <1>1 DEF ExpireLoad, IInv, Types
<1>3. RequestsFit' /\ OnePending' /\ SaidIsTrue'
  BY <1>1, SameGrows, NoRequestStep, SaidKept DEF IInv
<1>4. LatestIsFresh'
  BY DEF ExpireLoad, LatestIsFresh
<1>. QED
  BY <1>2, <1>3, <1>4 DEF IInv

LEMMA DrawStep ==
    ASSUME IInv, NEW i \in Loads, Draw(i), UNCHANGED elsewhere
    PROVE  IInv'
<1>1. load[i] \in LoadRecords /\ DOMAIN load[i].text \subseteq Entries
  BY TextsAre DEF IInv, Types, LoadRecords
<1>2. \A m \in Requests : request[m] \in RequestRecords
  BY DEF IInv, Types
<1>3. \A m \in Requests : request'[m] = [request[m] EXCEPT !.listed = FALSE]
  BY DEF Draw
<1>4. request' \in [Requests -> RequestRecords]
  <2>1. \A m \in Requests : [request[m] EXCEPT !.listed = FALSE] \in RequestRecords
    BY <1>2 DEF RequestRecords
  <2>. QED
    BY <2>1 DEF Draw
<1>5. load' \in [Loads -> LoadRecords] /\ load'[i].at = "none"
  BY LoadIs DEF Draw, IInv, Types
<1>6. Types'
  BY <1>1, <1>4, <1>5 DEF Draw, IInv, Types
<1>7. RequestsFit' /\ OnePending'
  <2>1. Grows
    BY SameGrows DEF Draw, IInv
  <2>2. ASSUME NEW m \in Requests
        PROVE  /\ request'[m].kind = request[m].kind /\ request'[m].on = request[m].on
               /\ request'[m].server = request[m].server /\ request'[m].did = request[m].did
               /\ request'[m].version = request[m].version
               /\ request'[m].page = request[m].page /\ request'[m].result = request[m].result
    <3>1. request[m] \in RequestRecords /\ request'[m] = [request[m] EXCEPT !.listed = FALSE]
      BY <1>2, <1>3
    <3>. QED
      BY <3>1 DEF RequestRecords
  <2>. QED
    BY <2>1, <2>2, NoRequestStep
<1>8. SaidIsTrue'
  BY SameGrows, SaidKept DEF Draw, IInv
<1>9. LatestIsFresh'
  BY <1>5 DEF Draw, IsNewest, LatestIsFresh
<1>. QED
  BY <1>6, <1>7, <1>8, <1>9 DEF IInv

LEMMA DropStep ==
    ASSUME IInv, NEW i \in Loads, Drop(i), UNCHANGED elsewhere
    PROVE  IInv'
<1>1. NoLoad \in LoadRecords /\ NoLoad.at = "none"
  BY LoadIs
<1>. QED
  BY <1>1, IdleLoadStep DEF Drop

LEMMA BeginStep ==
    ASSUME IInv, NEW p \in BOOLEAN, Begin(p),
           UNCHANGED <<db, pageNumber, open, cards, request, said, elsewhere>>
    PROVE  IInv'
<1>1. UNCHANGED <<shown, editing, spent>>
  BY DEF cards
<1>2. Types'
  BY <1>1, BeginIsFresh DEF IInv, Types
<1>3. RequestsFit' /\ OnePending' /\ SaidIsTrue'
  BY SameGrows, NoRequestStep, SaidKept DEF IInv
<1>. QED
  BY <1>2, <1>3, BeginIsFresh DEF IInv

LEMMA RefreshStep ==
    ASSUME IInv, Refresh, UNCHANGED elsewhere
    PROVE  IInv'
BY BeginStep DEF Refresh

LEMMA RetryStep ==
    ASSUME IInv, Retry, UNCHANGED elsewhere
    PROVE  IInv'
<1>1. load[sequence].protected \in BOOLEAN
  BY DEF IInv, Types, LoadRecords
<1>. QED
  BY <1>1, BeginStep DEF Retry

-----------------------------------------------------------------------------
(* The form and the cards                                                  *)

\* The editors that are open belong to cards that are there.
LEMMA EditorStep ==
    ASSUME IInv, editing' \subseteq shown,
           UNCHANGED <<db, load, pageNumber, open, sequence, shown, spent, request, said>>,
           UNCHANGED elsewhere
    PROVE  IInv'
<1>1. Types'
  BY DEF IInv, Types
<1>2. RequestsFit' /\ OnePending' /\ SaidIsTrue'
  BY SameGrows, NoRequestStep, SaidKept DEF IInv
<1>3. LatestIsFresh'
  BY SameGrows, FreshKept DEF IInv
<1>. QED
  BY <1>1, <1>2, <1>3 DEF IInv

LEMMA OpenEditorStep ==
    ASSUME IInv, NEW e \in Entries, OpenEditor(e), UNCHANGED elsewhere
    PROVE  IInv'
BY EditorStep DEF OpenEditor, HasButtons, IInv, Types

LEMMA CancelStep ==
    ASSUME IInv, NEW e \in Entries, Cancel(e), UNCHANGED elsewhere
    PROVE  IInv'
BY EditorStep DEF Cancel, IInv, Types

\* A step that changes one request, and perhaps the entries.
LEMMA RequestOnly ==
    ASSUME IInv, NEW m \in Requests, NEW r \in RequestRecords,
           request' = [request EXCEPT ![m] = r],
           Grows, UNCHANGED <<load, page, elsewhere>>,
           StagesFit(r), DoesNothing(r), AnswerFits(r)',
           r.kind = "create" /\ r.result \in {"none", "unknown"} =>
               Pending(m) \/ \A n \in Requests : ~Pending(n)
    PROVE  IInv'
<1>1. UNCHANGED <<load, pageNumber, open, sequence, shown, editing, spent, said, elsewhere>>
  BY DEF page, cards
<1>2. /\ request' \in [Requests -> RequestRecords] /\ request'[m] = r
      /\ \A n \in Requests : n # m => request'[n] = request[n]
  BY DEF IInv, Types
<1>3. Types'
  BY <1>1, <1>2 DEF IInv, Types, Grows
<1>4. AnswerFits(request[m])'
  BY <1>2 DEF AnswerFits
<1>5. RequestsFit' /\ OnePending'
  <2>1. Pending(m)' => Pending(m) \/ \A n \in Requests : ~Pending(n)
    BY <1>2 DEF Pending
  <2>. QED
    BY <1>2, <1>4, <2>1, RequestStep
<1>6. SaidIsTrue' /\ LatestIsFresh'
  BY <1>1, SaidKept, FreshKept
<1>. QED
  BY <1>3, <1>5, <1>6 DEF IInv

LEMMA SendStep ==
    ASSUME IInv, NEW m \in Requests, NEW kind \in {"create", "edit", "delete"},
           NEW e \in Entries \cup {Form}, Send(m, kind, e), UNCHANGED elsewhere,
           kind # "create" => e \in Entries,
           kind = "create" => \A n \in Requests : ~Pending(n)
    PROVE  IInv'
<1>. DEFINE r == [NoRequest EXCEPT !.kind = kind, !.on = e, !.listed = (e # Form),
                                   !.server = "running", !.page = "waits"]
<1>1. /\ r \in RequestRecords
      /\ r.kind = kind /\ r.on = e /\ r.server = "running" /\ r.page = "waits"
      /\ r.result = "none" /\ r.did = FALSE
  BY DEF RequestRecords, NoRequest, Form
<1>2. request' = [request EXCEPT ![m] = r] /\ UNCHANGED <<db, load, page>>
  BY DEF Send
<1>3. StagesFit(r) /\ DoesNothing(r) /\ AnswerFits(r)'
  BY <1>1 DEF StagesFit, DoesNothing, AnswerFits
<1>4. Grows
  BY <1>2, SameGrows DEF IInv
<1>. HIDE DEF r
<1>. QED
  BY <1>1, <1>2, <1>3, <1>4, RequestOnly

\* A new entry is posted when no other is on its way or in doubt.
LEMMA SubmitCreateStep ==
    ASSUME IInv, NEW m \in Requests, SubmitCreate(m), UNCHANGED elsewhere
    PROVE  IInv'
<1>1. \A n \in Requests : ~Pending(n)
  <2>1. SUFFICES ASSUME NEW n \in Requests, Pending(n) PROVE FALSE
    OBVIOUS
  <2>2. request[n].kind = "create" /\ request[n].result = "none" => request[n].page = "waits"
    BY DEF IInv, RequestsFit, StagesFit
  <2>. QED
    BY <2>1, <2>2 DEF SubmitCreate, InDoubt, Waits, Pending
<1>2. Send(m, "create", Form)
  BY DEF SubmitCreate
<1>. QED
  BY <1>1, <1>2, SendStep

LEMMA SaveStep ==
    ASSUME IInv, NEW m \in Requests, NEW e \in Entries, Save(m, e), UNCHANGED elsewhere
    PROVE  IInv'
BY SendStep DEF Save

LEMMA RemoveStep ==
    ASSUME IInv, NEW m \in Requests, NEW e \in Entries, Remove(m, e), UNCHANGED elsewhere
    PROVE  IInv'
BY SendStep DEF Remove

-----------------------------------------------------------------------------
(* The views                                                               *)

LEMMA RequestFacts ==
    ASSUME IInv, NEW m \in Requests
    PROVE  /\ request[m] \in RequestRecords
           /\ StagesFit(request[m]) /\ DoesNothing(request[m]) /\ AnswerFits(request[m])
BY DEF IInv, Types, RequestsFit

LEMMA RefuseStep ==
    ASSUME IInv, NEW m \in Requests, Refuse(m), UNCHANGED elsewhere
    PROVE  IInv'
<1>0. PICK r : r = [request[m] EXCEPT !.server = "refused"]
  OBVIOUS
<1>1. /\ r \in RequestRecords
      /\ r.kind = request[m].kind /\ r.result = request[m].result /\ r.page = request[m].page
      /\ r.on = request[m].on /\ r.did = request[m].did /\ r.server = "refused"
  BY <1>0, RequestFacts DEF RequestRecords
<1>2. request' = [request EXCEPT ![m] = r]
  BY <1>0 DEF Refuse, IInv, Types
<1>3. StagesFit(r) /\ DoesNothing(r) /\ AnswerFits(r)'
  BY <1>1, RequestFacts DEF Refuse, StagesFit, DoesNothing, AnswerFits
<1>4. Grows
  BY SameGrows DEF Refuse, IInv
<1>. QED
  BY <1>1, <1>2, <1>3, <1>4, RequestOnly DEF Refuse, Pending

LEMMA CommitCreateStep ==
    ASSUME IInv, NEW m \in Requests, NEW e \in Entries, CommitCreate(m, e), UNCHANGED elsewhere
    PROVE  IInv'
<1>0. PICK r : r = [request[m] EXCEPT !.server = "committed", !.did = TRUE, !.version = e]
  OBVIOUS
<1>1. /\ r \in RequestRecords
      /\ r.kind = "create" /\ r.result = request[m].result /\ r.page = request[m].page
      /\ r.did = TRUE /\ r.server = "committed" /\ r.version = e
  <2>1. e \in Nat /\ request[m] \in RequestRecords /\ request[m].kind = "create"
    BY RequestFacts, DiaryPageAssumption DEF CommitCreate
  <2>. QED
    BY <1>0, <2>1 DEF RequestRecords
<1>2. request' = [request EXCEPT ![m] = r]
  BY <1>0 DEF CommitCreate, IInv, Types
<1>3. StagesFit(r) /\ DoesNothing(r)
  BY <1>1, RequestFacts DEF CommitCreate, StagesFit, DoesNothing
<1>4. Grows
  BY DEF CommitCreate, IInv, Types, Grows, Unwritten, Deleted
<1>5. db'[e] # Unwritten
  BY DEF CommitCreate, IInv, Types, Unwritten
<1>6. AnswerFits(r)'
  BY <1>1, <1>5 DEF AnswerFits
<1>. QED
  BY <1>1, <1>2, <1>3, <1>4, <1>6, RequestOnly DEF CommitCreate, Pending

LEMMA CommitEditStep ==
    ASSUME IInv, NEW m \in Requests, CommitEdit(m), UNCHANGED elsewhere
    PROVE  IInv'
<1>0. PICK r : r = [request[m] EXCEPT !.server = "committed"]
  OBVIOUS
<1>1. /\ r \in RequestRecords
      /\ r.kind = "edit" /\ r.result = request[m].result /\ r.page = request[m].page
      /\ r.on = request[m].on /\ r.did = request[m].did /\ r.server = "committed"
  BY <1>0, RequestFacts DEF RequestRecords, CommitEdit
<1>2. request' = [request EXCEPT ![m] = r]
  BY <1>0 DEF CommitEdit, IInv, Types
<1>3. StagesFit(r) /\ DoesNothing(r) /\ AnswerFits(r)'
  BY <1>1, RequestFacts DEF CommitEdit, StagesFit, DoesNothing, AnswerFits
<1>4. Grows
  <2>1. request[m].on \in Entries
    BY RequestFacts DEF CommitEdit, StagesFit
  <2>. QED
    BY <2>1 DEF CommitEdit, IInv, Types, Grows, Live, Unwritten, Deleted
<1>. QED
  BY <1>1, <1>2, <1>3, <1>4, RequestOnly DEF CommitEdit

LEMMA CommitDeleteStep ==
    ASSUME IInv, NEW m \in Requests, CommitDelete(m), UNCHANGED elsewhere
    PROVE  IInv'
<1>0. PICK r : r = [request[m] EXCEPT !.server = "committed", !.did = TRUE]
  OBVIOUS
<1>1. /\ r \in RequestRecords
      /\ r.kind = "delete" /\ r.result = request[m].result /\ r.page = request[m].page
      /\ r.on = request[m].on /\ r.did = TRUE /\ r.server = "committed"
  BY <1>0, RequestFacts DEF RequestRecords, CommitDelete
<1>2. request' = [request EXCEPT ![m] = r]
  BY <1>0 DEF CommitDelete, IInv, Types
<1>3. request[m].on \in Entries
  BY RequestFacts DEF CommitDelete, StagesFit
<1>4. StagesFit(r) /\ DoesNothing(r)
  BY <1>1, RequestFacts DEF CommitDelete, StagesFit, DoesNothing
<1>5. Grows /\ db'[request[m].on] = Deleted
  BY <1>3 DEF CommitDelete, IInv, Types, Grows, Live, Unwritten, Deleted
<1>6. AnswerFits(r)'
  BY <1>1, <1>5 DEF AnswerFits
<1>. QED
  BY <1>1, <1>2, <1>4, <1>5, <1>6, RequestOnly DEF CommitDelete

LEMMA ReplyStep ==
    ASSUME IInv, NEW m \in Requests, Reply(m), UNCHANGED elsewhere
    PROVE  IInv'
<1>. DEFINE q == request[m]
<1>0. PICK r : r = [q EXCEPT
                      !.server  = IF q.kind = "edit" /\ ~Live(q.on) THEN "refused" ELSE "answered",
                      !.version = IF q.kind = "edit" /\ Live(q.on) THEN db[q.on] ELSE @]
  OBVIOUS
<1>1. q.kind = "edit" => q.on \in Entries
  BY RequestFacts DEF Reply, StagesFit
<1>2. q.kind = "edit" /\ Live(q.on) => db[q.on] \in Nat
  BY <1>1 DEF Live, IInv, Types
<1>3. /\ r \in RequestRecords
      /\ r.kind = q.kind /\ r.result = q.result /\ r.page = q.page /\ r.on = q.on
      /\ r.did = q.did
      /\ r.server = IF q.kind = "edit" /\ ~Live(q.on) THEN "refused" ELSE "answered"
      /\ r.version = IF q.kind = "edit" /\ Live(q.on) THEN db[q.on] ELSE q.version
  BY <1>0, <1>2, RequestFacts DEF RequestRecords
<1>4. request' = [request EXCEPT ![m] = r] /\ db' = db
  BY <1>0 DEF Reply, IInv, Types
<1>5. StagesFit(r) /\ DoesNothing(r) /\ AnswerFits(r)
  BY <1>1, <1>2, <1>3, RequestFacts DEF Reply, StagesFit, DoesNothing, AnswerFits
<1>6. AnswerFits(r)'
  BY <1>4, <1>5 DEF AnswerFits
<1>7. Grows
  BY <1>4, SameGrows DEF IInv
<1>. QED
  BY <1>3, <1>4, <1>5, <1>6, <1>7, RequestOnly DEF Reply, Pending

LEMMA BreakStep ==
    ASSUME IInv, NEW m \in Requests, Break(m), UNCHANGED elsewhere
    PROVE  IInv'
<1>0. PICK r : r = [request[m] EXCEPT !.server = "broken"]
  OBVIOUS
<1>1. /\ r \in RequestRecords
      /\ r.kind = request[m].kind /\ r.result = request[m].result /\ r.page = request[m].page
      /\ r.on = request[m].on /\ r.did = request[m].did /\ r.server = "broken"
  BY <1>0, RequestFacts DEF RequestRecords
<1>2. request' = [request EXCEPT ![m] = r]
  BY <1>0 DEF Break, IInv, Types
<1>3. StagesFit(r) /\ DoesNothing(r) /\ AnswerFits(r)'
  BY <1>1, RequestFacts DEF Break, StagesFit, DoesNothing, AnswerFits
<1>4. Grows
  BY SameGrows DEF Break, IInv
<1>. QED
  BY <1>1, <1>2, <1>3, <1>4, RequestOnly DEF Break, Pending

LEMMA WriteElsewhereStep ==
    ASSUME IInv, NEW e \in Entries, WriteElsewhere(e)
    PROVE  IInv'
<1>1. UNCHANGED <<load, pageNumber, open, sequence, shown, editing, spent, said, request>>
  BY DEF WriteElsewhere, page, cards
<1>2. Grows
  BY DEF WriteElsewhere, IInv, Types, Grows, Live, Unwritten, Deleted
<1>3. elsewhere' \in Nat
  BY DEF WriteElsewhere, IInv, Types
<1>4. Types'
  BY <1>1, <1>2, <1>3 DEF IInv, Types, Grows
<1>5. RequestsFit' /\ OnePending'
  BY <1>1, <1>2, NoRequestStep
<1>6. SaidIsTrue' /\ LatestIsFresh'
  BY <1>1, <1>2, SaidKept, FreshKept
<1>. QED
  BY <1>4, <1>5, <1>6 DEF IInv

-----------------------------------------------------------------------------
(* Answers                                                                 *)

\* The answers that matter, by status and code.
LEMMA AnswersAre ==
    /\ AnswerTo("Error") = [status |-> 500, code |-> "INTERNAL_SERVER_ERROR"]
    /\ AnswerTo("NotAuthenticated") = [status |-> 403, code |-> "AUTHENTICATION_REQUIRED"]
    /\ AnswerTo("MediaUploadServiceUnavailable") =
           [status |-> 503, code |-> "MEDIA_UPLOADS_UNAVAILABLE"]
BY DEF AnswerTo, ApiProblems, UploadProblems, Contract, Unhandled

\* A view that answers with a success has answered.
LEMMA SuccessesAreAnswered ==
    ASSUME NEW r, NEW status, Success(status) \in Answers(r)
    PROVE  r.server = "answered"
<1>1. ASSUME NEW p PROVE AnswerTo(p).code # "SUCCESS"
  <2>1. /\ DOMAIN ApiProblems = {"CsrfFailed", "ParticipantRequired", "RequestBodyTooLarge"}
        /\ DOMAIN UploadProblems = {"MediaUploadConflict", "MediaUploadServiceUnavailable"}
        /\ DOMAIN Contract = {"ValidationError", "ParseError", "NotAuthenticated",
                              "PermissionDenied", "NotFound", "NotAcceptable",
                              "UnsupportedMediaType"}
    BY DEF ApiProblems, UploadProblems, Contract
  <2>2. CASE p \in DOMAIN ApiProblems
    <3>1. AnswerTo(p) = ApiProblems[p]
      BY <2>1, <2>2 DEF AnswerTo
    <3>. QED
      BY <2>1, <2>2, <3>1 DEF ApiProblems
  <2>3. CASE p \in DOMAIN UploadProblems
    <3>1. AnswerTo(p) = UploadProblems[p]
      BY <2>1, <2>3 DEF AnswerTo
    <3>. QED
      BY <2>1, <2>3, <3>1 DEF UploadProblems
  <2>4. CASE p \in DOMAIN Contract
    <3>1. AnswerTo(p) = Contract[p]
      BY <2>1, <2>4 DEF AnswerTo
    <3>. QED
      BY <2>1, <2>4, <3>1 DEF Contract
  <2>5. CASE p \notin DOMAIN ApiProblems \cup DOMAIN UploadProblems \cup DOMAIN Contract
    BY <2>5 DEF AnswerTo, Unhandled
  <2>. QED
    BY <2>2, <2>3, <2>4, <2>5
<1>2. Success(status).code = "SUCCESS"
  BY DEF Success
<1>3. NetworkError.code # "SUCCESS" /\ ProxyError.code # "SUCCESS"
  BY DEF NetworkError, ProxyError
<1>4. \/ Success(status) \in {NetworkError, ProxyError}
      \/ \E p : Success(status) = AnswerTo(p)
      \/ r.server = "answered"
  BY DEF Answers
<1>. QED
  BY <1>1, <1>2, <1>3, <1>4

\* What is taken for a refusal of a new entry or a deletion was refused.
LEMMA RefusalsAreRefused ==
    ASSUME NEW r \in RequestRecords, r.kind \in {"create", "delete"},
           NEW a \in Answers(r),
           a = AnswerTo("NotAuthenticated") \/ (Refused(a) /\ ~RequiresRefresh(r.kind, a))
    PROVE  r.server = "refused"
<1>1. SUFFICES ASSUME r.server # "refused" PROVE FALSE
  OBVIOUS
<1>2. \/ \E s \in {200, 201} : a = Success(s)
      \/ a = AnswerTo("Error") \/ a = NetworkError \/ a = ProxyError
  BY <1>1 DEF Answers
<1>3. /\ AnswerTo("Error").status = 500 /\ AnswerTo("Error").code = "INTERNAL_SERVER_ERROR"
      /\ AnswerTo("NotAuthenticated").code = "AUTHENTICATION_REQUIRED"
      /\ AnswerTo("MediaUploadServiceUnavailable").code = "MEDIA_UPLOADS_UNAVAILABLE"
  BY AnswersAre
<1>4. CASE \E s \in {200, 201} : a = Success(s)
  BY <1>3, <1>4 DEF Success, Refused
<1>5. CASE a = AnswerTo("Error")
  <2>1. a.status = 500 /\ a.code = "INTERNAL_SERVER_ERROR"
    BY <1>3, <1>5
  <2>. QED
    BY <1>3, <2>1 DEF RequiresRefresh
<1>6. CASE a = NetworkError \/ a = ProxyError
  <2>1. a.code = ""
    <3>1. NetworkError.code = ""
      BY DEF NetworkError
    <3>2. ProxyError.code = ""
      BY DEF ProxyError
    <3>. QED
      BY <1>6, <3>1, <3>2
  <2>. QED
    BY <1>3, <2>1 DEF RequiresRefresh
<1>. QED
  BY <1>2, <1>4, <1>5, <1>6

LEMMA HeardFields ==
    ASSUME NEW r \in RequestRecords, NEW page_ \in {"over", "loads"}, NEW awaits \in Nat,
           NEW result \in {"saved", "refused", "unknown"}
    PROVE  LET h == Heard(r, page_, awaits, result)
           IN  /\ h \in RequestRecords
               /\ h.kind = r.kind /\ h.on = r.on /\ h.did = r.did
               /\ h.page = page_ /\ h.result = result
               /\ h.server = (IF r.server = "running" THEN r.server ELSE "over")
<1>1. PICK s \in {"running", "over"} :
         s = IF r.server = "running" THEN r.server ELSE "over"
  OBVIOUS
<1>2. PICK h : h = [r EXCEPT !.page = page_, !.awaits = awaits, !.result = result,
                            !.version = 0, !.server = s]
  OBVIOUS
<1>3. h = Heard(r, page_, awaits, result)
  BY <1>1, <1>2 DEF Heard
<1>4. h \in RequestRecords
  BY <1>2, ZenonT(40) DEF RequestRecords
<1>5. /\ h.kind = r.kind /\ h.on = r.on /\ h.did = r.did
      /\ h.page = page_ /\ h.result = result /\ h.server = s
  BY <1>2 DEF RequestRecords
<1>. QED
  BY <1>1, <1>3, <1>4, <1>5

\* What the page has heard: the request is over for it.
LEMMA HeardStep ==
    ASSUME IInv, NEW m \in Requests, request[m].page = "waits",
           NEW result \in {"saved", "refused", "unknown"},
           request' = Ended(m, result) \/ request' = Reloads(m, result),
           request[m].kind \in {"create", "delete"} /\ result = "refused" =>
               request[m].server = "refused",
           db' = db
    PROVE  /\ request' \in [Requests -> RequestRecords]
           /\ RequestsFit' /\ OnePending'
<1>. DEFINE q == request[m]
<1>1. q \in RequestRecords /\ StagesFit(q) /\ DoesNothing(q)
  BY RequestFacts
<1>2. sequence + 1 \in Nat
  BY DiaryPageAssumption DEF IInv, Types, Loads
<1>3. PICK r \in RequestRecords :
         /\ request' = [request EXCEPT ![m] = r]
         /\ r.kind = q.kind /\ r.did = q.did /\ r.page # "waits" /\ r.result = result
         /\ r.server = (IF q.server = "running" THEN q.server ELSE "over")
         /\ q.server = "running" => r.on = q.on
  <2>1. CASE request' = Ended(m, result)
    <3>1. request' = [request EXCEPT ![m] = [Heard(q, "over", 0, result) EXCEPT
             !.listed = FALSE, !.on = IF q.server = "running" THEN q.on ELSE Form]]
      BY <2>1 DEF Ended
    <3>. DEFINE h == Heard(q, "over", 0, result)
    <3>2. /\ h \in RequestRecords
          /\ h.kind = q.kind /\ h.on = q.on /\ h.did = q.did
          /\ h.page = "over" /\ h.result = result
          /\ h.server = (IF q.server = "running" THEN q.server ELSE "over")
      BY <1>1, HeardFields, ZenonT(40)
    <3>. HIDE DEF h
    <3>3. PICK on \in Entries \cup {Form} : on = IF q.server = "running" THEN q.on ELSE Form
      BY <1>1 DEF RequestRecords
    <3>4. PICK r : r = [h EXCEPT !.listed = FALSE, !.on = on]
      OBVIOUS
    <3>5. /\ r \in RequestRecords
          /\ r.kind = h.kind /\ r.on = on /\ r.did = h.did /\ r.page = h.page
          /\ r.result = h.result /\ r.server = h.server
      BY <3>2, <3>4 DEF RequestRecords
    <3>6. request' = [request EXCEPT ![m] = r]
      BY <3>1, <3>3, <3>4 DEF h
    <3>. QED
      BY <3>2, <3>3, <3>5, <3>6
  <2>2. CASE request' = Reloads(m, result)
    <3>1. request' = [request EXCEPT ![m] = Heard(q, "loads", sequence + 1, result)]
      BY <2>2 DEF Reloads, IInv, Types
    <3>2. PICK n \in Nat : n = sequence + 1
      BY <1>2
    <3>. DEFINE h == Heard(q, "loads", n, result)
    <3>3. /\ h \in RequestRecords
          /\ h.kind = q.kind /\ h.on = q.on /\ h.did = q.did
          /\ h.page = "loads" /\ h.result = result
          /\ h.server = (IF q.server = "running" THEN q.server ELSE "over")
      BY <1>1, HeardFields, ZenonT(40)
    <3>. HIDE DEF h
    <3>4. request' = [request EXCEPT ![m] = h]
      BY <3>1, <3>2 DEF h
    <3>. QED
      BY <3>3, <3>4
  <2>. QED
    BY <2>1, <2>2
<1>4. /\ request' \in [Requests -> RequestRecords] /\ request'[m] = r
      /\ \A n \in Requests : n # m => request'[n] = request[n]
  BY <1>3 DEF IInv, Types
<1>5. StagesFit(r) /\ DoesNothing(r)
  BY <1>1, <1>3 DEF StagesFit, DoesNothing
<1>6. AnswerFits(request[m])'
  BY <1>3, <1>4 DEF AnswerFits
<1>7. Grows
  BY SameGrows DEF IInv
<1>8. Pending(m)' => Pending(m)
  BY <1>1, <1>3, <1>4 DEF Pending, StagesFit
<1>. QED
  BY <1>4, <1>5, <1>6, <1>7, <1>8, RequestStep

LEMMA LeaveStep ==
    ASSUME IInv, Leave, UNCHANGED elsewhere,
           request' \in [Requests -> RequestRecords], RequestsFit', OnePending',
           said' \in [Entries -> Int], SaidIsTrue'
    PROVE  IInv'
<1>1. /\ UNCHANGED <<db, load, pageNumber, sequence, shown, editing, spent>>
      /\ open' = FALSE
  BY DEF Leave, cards
<1>2. Types'
  BY <1>1 DEF IInv, Types
<1>3. LatestIsFresh'
  BY <1>1 DEF LatestIsFresh
<1>. QED
  BY <1>2, <1>3 DEF IInv

\* The load that follows an answer is begun after all that was said.
LEMMA ReloadStep ==
    ASSUME IInv, Begin(FALSE), UNCHANGED <<db, pageNumber, open, shown, elsewhere>>,
           editing' \subseteq shown, spent' \subseteq Entries,
           request' \in [Requests -> RequestRecords], RequestsFit', OnePending',
           said' \in [Entries -> Int], SaidIsTrue'
    PROVE  IInv'
<1>1. Types'
  BY BeginIsFresh DEF IInv, Types
<1>. QED
  BY <1>1, BeginIsFresh DEF IInv

LEMMA HearCreatedStep ==
    ASSUME IInv, NEW m \in Requests, HearCreated(m), UNCHANGED elsewhere
    PROVE  IInv'
<1>. DEFINE e == request[m].version
<1>1. request[m].page = "waits" /\ request[m].server = "answered"
  BY SuccessesAreAnswered DEF HearCreated, Hears
<1>2. e \in Entries /\ db[e] # Unwritten
  BY <1>1, RequestFacts DEF HearCreated, AnswerFits
<1>3. said' \in [Entries -> Int] /\ db' = db
  <2>1. db' = db
    BY DEF HearCreated, Leave
  <2>2. said' = [said EXCEPT ![e] = IF said[e] = Unwritten THEN 1 ELSE said[e]]
    BY DEF HearCreated
  <2>. QED
    BY <1>2, <2>1, <2>2 DEF IInv, Types
<1>4. SaidIsTrue'
  BY <1>2, <1>3 DEF HearCreated, IInv, Types, SaidIsTrue, Unwritten, Deleted
<1>5. request' = Ended(m, "saved") \/ request' = Reloads(m, "saved")
  BY DEF HearCreated
<1>6. request' \in [Requests -> RequestRecords] /\ RequestsFit' /\ OnePending'
  BY <1>1, <1>3, <1>5, HeardStep
<1>. QED
  BY <1>3, <1>4, <1>6, LeaveStep, ReloadStep DEF HearCreated, cards, IInv, Types

LEMMA HearUpdatedStep ==
    ASSUME IInv, NEW m \in Requests, HearUpdated(m), UNCHANGED elsewhere
    PROVE  IInv'
<1>. DEFINE e == request[m].on
            v == request[m].version
<1>1. request[m].page = "waits" /\ request[m].server = "answered"
  BY SuccessesAreAnswered DEF HearUpdated, Hears
<1>2. e \in Entries /\ v \in Nat /\ (v <= db[e] \/ db[e] = Deleted)
  BY <1>1, RequestFacts DEF HearUpdated, StagesFit, AnswerFits, RequestRecords
<1>3. db' = db /\ said' = [said EXCEPT ![e] = IF said[e] # Deleted /\ v > said[e] THEN v
                                             ELSE said[e]]
  BY DEF HearUpdated
<1>4. said' \in [Entries -> Int]
  BY <1>2, <1>3 DEF IInv, Types
<1>5. SaidIsTrue'
  BY <1>2, <1>3 DEF IInv, Types, SaidIsTrue, Deleted
<1>6. request' \in [Requests -> RequestRecords] /\ RequestsFit' /\ OnePending'
  BY <1>1, <1>3, HeardStep DEF HearUpdated
<1>. QED
  BY <1>4, <1>5, <1>6, ReloadStep DEF HearUpdated, IInv, Types

LEMMA HearDeletedStep ==
    ASSUME IInv, NEW m \in Requests, HearDeleted(m), UNCHANGED elsewhere
    PROVE  IInv'
<1>. DEFINE e == request[m].on
<1>1. request[m].page = "waits" /\ request[m].server = "answered"
  BY SuccessesAreAnswered DEF HearDeleted, Hears
<1>2. e \in Entries /\ db[e] = Deleted
  BY <1>1, RequestFacts DEF HearDeleted, StagesFit, AnswerFits
<1>3. db' = db /\ said' = [said EXCEPT ![e] = Deleted]
  BY DEF HearDeleted, Leave
<1>4. said' \in [Entries -> Int] /\ SaidIsTrue'
  BY <1>2, <1>3 DEF IInv, Types, SaidIsTrue, Deleted
<1>5. request' = Ended(m, "saved") \/ request' = Reloads(m, "saved")
  BY DEF HearDeleted
<1>6. request' \in [Requests -> RequestRecords] /\ RequestsFit' /\ OnePending'
  BY <1>1, <1>3, <1>5, HeardStep
<1>7. OfCard(m) \subseteq Entries
  BY <1>2 DEF OfCard
<1>. QED
  BY <1>4, <1>6, <1>7, LeaveStep, ReloadStep DEF HearDeleted, IInv, Types

LEMMA HearExpiredStep ==
    ASSUME IInv, NEW m \in Requests, HearExpired(m), UNCHANGED elsewhere
    PROVE  IInv'
<1>1. request[m].page = "waits" /\ AnswerTo("NotAuthenticated") \in Answers(request[m])
  BY DEF HearExpired, Hears
<1>2. request[m].kind \in {"create", "delete"} => request[m].server = "refused"
  BY <1>1, RequestFacts, RefusalsAreRefused
<1>3. db' = db /\ said' = said
  BY DEF HearExpired, Leave
<1>4. request' \in [Requests -> RequestRecords] /\ RequestsFit' /\ OnePending'
  BY <1>1, <1>2, <1>3, HeardStep DEF HearExpired
<1>5. said' \in [Entries -> Int] /\ SaidIsTrue'
  BY <1>3, SameGrows, SaidKept DEF IInv, Types
<1>. QED
  BY <1>4, <1>5, LeaveStep DEF HearExpired

\* What is heard changes nothing but the request.
LEMMA HeardOnly ==
    ASSUME IInv, UNCHANGED <<db, load, page, elsewhere>>,
           request' \in [Requests -> RequestRecords], RequestsFit', OnePending'
    PROVE  IInv'
<1>1. UNCHANGED <<pageNumber, open, sequence, shown, editing, spent, said>>
  BY DEF page, cards
<1>2. Types'
  BY <1>1 DEF IInv, Types
<1>3. SaidIsTrue' /\ LatestIsFresh'
  BY <1>1, SameGrows, SaidKept, FreshKept DEF IInv
<1>. QED
  BY <1>2, <1>3 DEF IInv

LEMMA HearRefusalStep ==
    ASSUME IInv, NEW m \in Requests, NEW a \in Answers(request[m]), HearRefusal(m, a),
           UNCHANGED elsewhere
    PROVE  IInv'
<1>1. request[m].page = "waits" /\ db' = db
  BY DEF HearRefusal, Hears
<1>2. request[m].kind \in {"create", "delete"} => request[m].server = "refused"
  BY RequestFacts, RefusalsAreRefused DEF HearRefusal
<1>3. request' \in [Requests -> RequestRecords] /\ RequestsFit' /\ OnePending'
  BY <1>1, <1>2, HeardStep DEF HearRefusal
<1>. QED
  BY <1>3, HeardOnly DEF HearRefusal

LEMMA HearDoubtStep ==
    ASSUME IInv, NEW m \in Requests, NEW a \in Answers(request[m]), HearDoubt(m, a),
           UNCHANGED elsewhere
    PROVE  IInv'
<1>1. request[m].page = "waits" /\ db' = db
  BY DEF HearDoubt, Hears
<1>2. request' \in [Requests -> RequestRecords] /\ RequestsFit' /\ OnePending'
  BY <1>1, HeardStep DEF HearDoubt
<1>. QED
  BY <1>2, HeardOnly DEF HearDoubt

LEMMA HearDeletionDoubtStep ==
    ASSUME IInv, NEW m \in Requests, NEW a \in Answers(request[m]), HearDeletionDoubt(m, a),
           UNCHANGED elsewhere
    PROVE  IInv'
<1>1. request[m].page = "waits" /\ db' = db /\ said' = said
  BY DEF HearDeletionDoubt, Hears
<1>2. request[m].on \in Entries
  BY <1>1, RequestFacts DEF HearDeletionDoubt, StagesFit
<1>3. request' \in [Requests -> RequestRecords] /\ RequestsFit' /\ OnePending'
  BY <1>1, HeardStep DEF HearDeletionDoubt
<1>4. said' \in [Entries -> Int] /\ SaidIsTrue'
  BY <1>1, SameGrows, SaidKept DEF IInv, Types
<1>5. OfCard(m) \subseteq Entries
  BY <1>2 DEF OfCard
<1>. QED
  BY <1>3, <1>4, <1>5, ReloadStep DEF HearDeletionDoubt, IInv, Types

-----------------------------------------------------------------------------
(* The invariant                                                           *)

LEMMA InitInvariant == Init => IInv
<1>1. SUFFICES ASSUME Init PROVE IInv
  OBVIOUS
<1>2. 1 \in Loads
  BY DiaryPageAssumption DEF Loads
<1>3. NoRequest \in RequestRecords
  BY DEF NoRequest, RequestRecords
<1>4. db \in [Entries -> Int]
  BY <1>1 DEF Init, Unwritten
<1>5. load \in [Loads -> LoadRecords] /\ load[1].at = "count"
  BY <1>1, <1>2, LoadIs DEF Init
<1>6. MaxElsewhere[pageNumber] \in Nat
  BY <1>1, DiaryPageAssumption DEF Init
<1>7. Types
  <2>1. request \in [Requests -> RequestRecords] /\ said \in [Entries -> Int]
    BY <1>1, <1>3 DEF Init, Unwritten
  <2>2. pageNumber \in PageNumbers /\ open \in BOOLEAN /\ sequence \in Loads
    BY <1>1, <1>2 DEF Init
  <2>3. shown = {} /\ editing = {} /\ spent = {} /\ elsewhere \in Nat
    BY <1>1, <1>6 DEF Init
  <2>. QED
    BY <1>4, <1>5, <2>1, <2>2, <2>3 DEF Types
<1>8. RequestsFit /\ OnePending
  BY <1>1 DEF Init, NoRequest, RequestsFit, StagesFit, DoesNothing, AnswerFits, OnePending,
     Pending
<1>9. SaidIsTrue
  BY <1>1 DEF Init, SaidIsTrue, Unwritten, Deleted
<1>10. LatestIsFresh
  BY <1>1, <1>5 DEF Init, LatestIsFresh
<1>. QED
  BY <1>7, <1>8, <1>9, <1>10 DEF IInv

LEMMA InvariantStep == IInv /\ [Next]_vars => IInv'
<1>1. SUFFICES ASSUME IInv, [Next]_vars PROVE IInv'
  OBVIOUS
<1>2. ASSUME NEW i \in Loads, Reads(i), UNCHANGED elsewhere PROVE IInv'
  BY <1>1, <1>2, CountRowsStep, MissPageStep, ReadSliceStep, ReadFilesStep, FailLoadStep,
     ExpireLoadStep, DrawStep, DropStep DEF Reads
<1>3. ASSUME Participant, UNCHANGED elsewhere PROVE IInv'
  BY <1>1, <1>3, RefreshStep, RetryStep, OpenEditorStep, CancelStep, SubmitCreateStep,
     SaveStep, RemoveStep DEF Participant
<1>4. ASSUME NEW m \in Requests, Views(m), UNCHANGED elsewhere PROVE IInv'
  BY <1>1, <1>4, RefuseStep, CommitCreateStep, CommitEditStep, CommitDeleteStep, ReplyStep,
     BreakStep DEF Views
<1>5. ASSUME NEW m \in Requests, Hearing(m), UNCHANGED elsewhere PROVE IInv'
  BY <1>1, <1>5, HearCreatedStep, HearUpdatedStep, HearDeletedStep, HearExpiredStep,
     HearRefusalStep, HearDoubtStep, HearDeletionDoubtStep DEF Hearing
<1>6. CASE UNCHANGED vars
  <2>1. UNCHANGED <<db, load, page, elsewhere, request>>
    BY <1>6 DEF vars, page, cards
  <2>2. RequestsFit' /\ OnePending'
    BY <1>1, <2>1, SameGrows, NoRequestStep DEF IInv
  <2>3. request' \in [Requests -> RequestRecords]
    BY <1>1, <2>1 DEF IInv, Types
  <2>. QED
    BY <1>1, <2>1, <2>2, <2>3, HeardOnly
<1>. QED
  BY <1>1, <1>2, <1>3, <1>4, <1>5, <1>6, WriteElsewhereStep DEF Next

LEMMA Invariance == Spec => []IInv
  BY InitInvariant, InvariantStep, PTL DEF Spec

-----------------------------------------------------------------------------
(* What follows                                                            *)

\* What diary.js takes for a refusal of a new entry or of a deletion was one, and
\* the form cannot post an entry twice: for any number of requests, in any order,
\* and however many other pages write.
THEOREM RefusalsHold == Spec => []RefusalsAreTrue
<1>1. IInv => RefusalsAreTrue
  <2>1. SUFFICES ASSUME IInv PROVE RefusalsAreTrue
    OBVIOUS
  <2>. DEFINE S == {m \in Requests : /\ request[m].kind = "create"
                                     /\ request[m].did /\ request[m].result # "saved"}
  <2>2. \A m \in S : Pending(m)
    BY <2>1 DEF IInv, Types, RequestRecords, RequestsFit, DoesNothing, Pending
  <2>3. \A m \in S, n \in S : m = n
    BY <2>1, <2>2 DEF IInv, OnePending
  <2>4. Cardinality(S) <= 1
    <3>1. CASE S = {}
      <4>. HIDE DEF S
      <4>. QED
        BY <3>1, FS_EmptySet
    <3>2. CASE S # {}
      <4>1. PICK m \in S : TRUE
        BY <3>2
      <4>2. S = {m}
        BY <2>3, <4>1
      <4>. HIDE DEF S
      <4>3. Cardinality({m}) = 1
        BY FS_Singleton
      <4>. QED
        BY <4>2, <4>3
    <3>. QED
      BY <3>1, <3>2
  <2>. QED
    BY <2>1, <2>4 DEF IInv, RequestsFit, DoesNothing, RefusalsAreTrue
<1>. QED
  BY <1>1, Invariance, PTL

\* renderDiaryPage never draws less than the page has said is saved, never an
\* entry it has said is deleted, and no text with files of an older version.
THEOREM SavedIsShown == Spec => SavedStaysShown
<1>. DEFINE Fresh(i) == \A e \in DOMAIN load[i].text :
              /\ said[e] # Deleted /\ load[i].text[e] >= said[e]
              /\ load[i].files[e] \in {Deleted} \cup {n \in Nat : n >= load[i].text[e]}
<1>1. IInv /\ [Next]_vars => [\A i \in Loads : Draw(i) => Fresh(i)]_vars
  <2>1. SUFFICES ASSUME IInv, Next, NEW i \in Loads, Draw(i), NEW e \in DOMAIN load[i].text
                 PROVE  /\ said[e] # Deleted /\ load[i].text[e] >= said[e]
                        /\ load[i].files[e] \in
                               {Deleted} \cup {n \in Nat : n >= load[i].text[e]}
    OBVIOUS
  <2>2. open /\ i = sequence /\ load[i].at = "answered"
    BY <2>1 DEF Next, Draw, IsNewest
  <2>3. load[i] \in LoadRecords
    BY <2>1 DEF IInv, Types
  <2>4. /\ said[e] # Deleted /\ load[i].text[e] >= said[e] /\ load[i].text[e] > 0
        /\ e \in DOMAIN load[i].files
        /\ load[i].files[e] = Deleted \/ load[i].files[e] >= load[i].text[e]
    BY <2>1, <2>2 DEF IInv, LatestIsFresh
  <2>5. load[i].files[e] \in Int /\ load[i].text[e] \in Int
    BY <2>1, <2>3, <2>4, TextsAre DEF LoadRecords
  <2>. QED
    BY <2>4, <2>5
<1>. QED
  BY <1>1, Invariance, PTL DEF Spec, SavedStaysShown

\* Neither a push message nor coming back to the page ends an editor that is
\* open: protected loads are dropped as long as one is.
THEOREM DraftsSurvive == Spec => DraftsSurviveRefreshes
<1>. DEFINE Ends(e) ==
              \/ Cancel(e)
              \/ \E m \in Requests : request[m].on = e /\ HearUpdated(m)
              \/ \E i \in Loads : Draw(i) /\ ~load[i].protected
<1>1. IInv /\ [Next]_vars => [\A e \in editing \ editing' : Ends(e)]_vars
  <2>1. SUFFICES ASSUME IInv, Next, NEW e \in editing \ editing'
                 PROVE  Ends(e)
    OBVIOUS
  <2>2. ASSUME NEW i \in Loads, Reads(i) PROVE Ends(e)
    <3>1. CASE Draw(i)
      <4>1. HasActiveItem
        BY <2>1 DEF HasActiveItem, IInv, Types
      <4>. QED
        BY <3>1, <4>1 DEF Draw, MayDraw
    <3>2. CASE ~Draw(i)
      <4>1. editing' = editing
        BY <2>2, <3>2 DEF Reads, CountRows, MissPage, ReadSlice, ReadFiles, FailLoad,
           ExpireLoad, Drop, page, cards
      <4>. QED
        BY <2>1, <4>1
    <3>. QED
      BY <3>1, <3>2
  <2>3. CASE Participant
    <3>1. ASSUME NEW d \in Entries, Cancel(d) PROVE Ends(e)
      BY <2>1, <3>1 DEF Cancel
    <3>2. CASE ~\E d \in Entries : Cancel(d)
      <4>1. editing \subseteq editing'
        BY <2>3, <3>2 DEF Participant, Refresh, Retry, OpenEditor, SubmitCreate, Save, Remove,
           Send, page, cards
      <4>. QED
        BY <2>1, <4>1
    <3>. QED
      BY <3>1, <3>2
  <2>4. ASSUME NEW m \in Requests, Views(m) PROVE Ends(e)
    <3>1. editing' = editing
      BY <2>4 DEF Views, Refuse, CommitCreate, CommitEdit, CommitDelete, Reply, Break, page,
         cards
    <3>. QED
      BY <2>1, <3>1
  <2>5. ASSUME NEW m \in Requests, Hearing(m) PROVE Ends(e)
    <3>1. CASE HearUpdated(m)
      <4>1. request[m].on = e
        BY <2>1, <3>1 DEF HearUpdated, OfCard
      <4>. QED
        BY <3>1, <4>1
    <3>2. CASE ~HearUpdated(m)
      <4>1. editing' = editing
        BY <2>5, <3>2 DEF Hearing, HearCreated, HearDeleted, HearExpired, HearRefusal,
           HearDoubt, HearDeletionDoubt, Leave, page, cards
      <4>. QED
        BY <2>1, <4>1
    <3>. QED
      BY <3>1, <3>2
  <2>6. ASSUME NEW d \in Entries, WriteElsewhere(d) PROVE Ends(e)
    <3>1. editing' = editing
      BY <2>6 DEF WriteElsewhere, page, cards
    <3>. QED
      BY <2>1, <3>1
  <2>. QED
    BY <2>1, <2>2, <2>3, <2>4, <2>5, <2>6 DEF Next
<1>. QED
  BY <1>1, Invariance, PTL DEF Spec, DraftsSurviveRefreshes
=============================================================================
