------------------------- MODULE UploadQuota_proofs -------------------------
(***************************************************************************)
(* The quota holds for any number of workers and uploads.  A worker that   *)
(* has counted holds the row lock, so that between its count and its       *)
(* insert the open uploads can only become fewer, and weigh less.          *)
(***************************************************************************)
EXTENDS UploadQuota, FiniteSetTheorems, WellFoundedInduction, TLAPS

-----------------------------------------------------------------------------
(* Sums of sizes                                                           *)

FirstOf(s) == CHOOSE x \in s : TRUE

\* f adds up the sizes of every subset of S, the way MapThenSumSet does.
Adds(f, S) ==
    f = [s \in SUBSET S |-> IF s = {} THEN 0
                            ELSE Size[FirstOf(s)] + f[s \ {FirstOf(s)}]]

Finite(S) == S \subseteq Uploads /\ IsFiniteSet(S)

LEMMA FirstIn == ASSUME NEW s, s # {} PROVE FirstOf(s) \in s
BY DEF FirstOf

LEMMA BytesIs == ASSUME NEW S PROVE Bytes(S) = (CHOOSE f : Adds(f, S))[S]
BY DEF Bytes, MapThenSumSet, MapThenFoldSet, Adds, FirstOf

LEMMA AddsStep ==
    ASSUME NEW f, NEW S, Adds(f, S), NEW s \in SUBSET S
    PROVE  f[s] = IF s = {} THEN 0 ELSE Size[FirstOf(s)] + f[s \ {FirstOf(s)}]
BY DEF Adds

\* A property of the finite sets of uploads that fails fails for a smallest set.
LEMMA Smallest ==
    ASSUME NEW S, IsFiniteSet(S), NEW Bad \in SUBSET (SUBSET S), Bad # {}
    PROVE  \E T \in Bad : \A U \in Bad : ~ (U \subseteq T /\ U # T)
<1>1. Bad \subseteq FiniteSubsetsOf(S)
  BY FS_Subset DEF FiniteSubsetsOf
<1>2. PICK T \in Bad : \A U \in Bad : ~ (<<U, T>> \in StrictSubsetOrdering(S))
  BY <1>1, FS_StrictSubsetOrderingWellFounded, WFMin
<1>3. \A U \in Bad : U \subseteq T /\ U # T => <<U, T>> \in StrictSubsetOrdering(S)
  BY DEF StrictSubsetOrdering
<1>4. ASSUME NEW U \in Bad, U \subseteq T, U # T PROVE FALSE
  BY <1>2, <1>3, <1>4
<1>. QED
  BY <1>4

\* Two such functions agree where both are defined.
LEMMA AddsOnce ==
    ASSUME NEW S, IsFiniteSet(S), NEW R, NEW f, NEW g, Adds(f, S), Adds(g, R), S \subseteq R
    PROVE  \A s \in SUBSET S : f[s] = g[s]
<1>. DEFINE Bad == {s \in SUBSET S : f[s] # g[s]}
<1>1. SUFFICES ASSUME Bad # {} PROVE FALSE
  OBVIOUS
<1>2. PICK T \in Bad : \A U \in Bad : ~ (U \subseteq T /\ U # T)
  <2>. Bad \in SUBSET (SUBSET S)
    OBVIOUS
  <2>. HIDE DEF Bad
  <2>. QED
    BY <1>1, Smallest
<1>3. CASE T = {}
  BY <1>3, AddsStep
<1>4. CASE T # {}
  <2>. DEFINE U == T \ {FirstOf(T)}
  <2>1. U \subseteq T /\ U # T
    BY <1>4, FirstIn
  <2>2. f[U] = g[U]
    BY <1>2, <2>1
  <2>3. f[T] = Size[FirstOf(T)] + f[U] /\ g[T] = Size[FirstOf(T)] + g[U]
    BY <1>4, AddsStep
  <2>. QED
    BY <2>2, <2>3
<1>. QED
  BY <1>3, <1>4

\* There is one, of natural numbers, for every finite set of uploads.
LEMMA AddsExists ==
    ASSUME NEW S, Finite(S)
    PROVE  \E f \in [SUBSET S -> Nat] : Adds(f, S)
<1>. DEFINE Fine(T) == \E f \in [SUBSET T -> Nat] : Adds(f, T)
            Bad     == {T \in SUBSET S : ~ Fine(T)}
<1>1. SUFFICES ASSUME Bad # {} PROVE FALSE
  OBVIOUS
<1>2. PICK T \in Bad : \A U \in Bad : ~ (U \subseteq T /\ U # T)
  <2>. Bad \in SUBSET (SUBSET S)
    OBVIOUS
  <2>. HIDE DEF Bad
  <2>. QED
    BY <1>1, Smallest DEF Finite
<1>3. \A U \in SUBSET T : U # T => Fine(U)
  BY <1>2
<1>4. T \subseteq Uploads /\ IsFiniteSet(T) /\ \A U \in SUBSET T : IsFiniteSet(U)
  BY <1>2, FS_Subset DEF Finite
<1>. DEFINE Of(U) == CHOOSE f \in [SUBSET U -> Nat] : Adds(f, U)
            g     == [U \in SUBSET T |-> IF U = {} THEN 0
                        ELSE Size[FirstOf(U)] + Of(U \ {FirstOf(U)})[U \ {FirstOf(U)}]]
<1>5. \A U \in SUBSET T : U # T => Of(U) \in [SUBSET U -> Nat] /\ Adds(Of(U), U)
  BY <1>3
<1>6. ASSUME NEW U \in SUBSET T, U # {}
      PROVE  /\ FirstOf(U) \in U /\ FirstOf(U) \in Uploads
             /\ U \ {FirstOf(U)} \in SUBSET T /\ U \ {FirstOf(U)} # T
  BY <1>4, <1>6, FirstIn
<1>. HIDE DEF Of
<1>7. g \in [SUBSET T -> Nat]
  <2>1. ASSUME NEW U \in SUBSET T PROVE g[U] \in Nat
    <3>1. CASE U = {}
      BY <3>1
    <3>2. CASE U # {}
      <4>. DEFINE V == U \ {FirstOf(U)}
      <4>1. Of(V)[V] \in Nat
        <5>1. V \in SUBSET T /\ V # T
          BY <1>6, <3>2
        <5>. HIDE DEF V
        <5>. QED
          BY <1>5, <5>1
      <4>2. Size[FirstOf(U)] \in Nat
        BY <1>6, <3>2, UploadQuotaAssumption
      <4>. QED
        BY <3>2, <4>1, <4>2
    <3>. QED
      BY <3>1, <3>2
  <2>. HIDE DEF g
  <2>2. g = [U \in SUBSET T |-> g[U]]
    BY DEF g
  <2>. QED
    BY <2>1, <2>2
<1>8. ASSUME NEW U \in SUBSET T, U # T PROVE g[U] = Of(U)[U]
  <2>1. CASE U = {}
    BY <2>1, <1>5, <1>8, AddsStep
  <2>2. CASE U # {}
    <3>. DEFINE V == U \ {FirstOf(U)}
    <3>1. V \subseteq U /\ V \in SUBSET T /\ V # T /\ IsFiniteSet(V)
      BY <1>4, <1>6, <2>2
    <3>2. Of(U)[V] = Of(V)[V]
      <4>. HIDE DEF V
      <4>1. Adds(Of(U), U) /\ Adds(Of(V), V)
        BY <1>5, <1>8, <3>1
      <4>. QED
        BY <3>1, <4>1, AddsOnce
    <3>3. Of(U)[U] = Size[FirstOf(U)] + Of(U)[V]
      BY <1>5, <1>8, <2>2, AddsStep
    <3>. QED
      BY <2>2, <3>2, <3>3
  <2>. QED
    BY <2>1, <2>2
<1>9. Adds(g, T)
  <2>1. ASSUME NEW U \in SUBSET T, U # {}
        PROVE  Of(U \ {FirstOf(U)})[U \ {FirstOf(U)}] = g[U \ {FirstOf(U)}]
    <3>1. U \ {FirstOf(U)} \in SUBSET T /\ U \ {FirstOf(U)} # T
      BY <1>6, <2>1
    <3>. HIDE DEF g
    <3>. QED
      BY <1>8, <3>1
  <2>2. \A U \in SUBSET T : g[U] = IF U = {} THEN 0
                                   ELSE Size[FirstOf(U)] + g[U \ {FirstOf(U)}]
    BY <2>1
  <2>3. g = [U \in SUBSET T |-> g[U]]
    OBVIOUS
  <2>. HIDE DEF g
  <2>. QED
    BY <2>2, <2>3 DEF Adds
<1>. QED
  BY <1>2, <1>7, <1>9

\* The sum over a set is the value of any function that adds up a larger one.
LEMMA BytesBy ==
    ASSUME NEW S, IsFiniteSet(S), NEW f, Adds(f, S), NEW T \in SUBSET S, T \subseteq Uploads
    PROVE  Bytes(T) = f[T]
<1>1. IsFiniteSet(T)
  BY FS_Subset
<1>2. PICK g : Adds(g, T)
  BY <1>1, AddsExists DEF Finite
<1>3. Adds(CHOOSE h : Adds(h, T), T)
  BY <1>2
<1>4. Bytes(T) = (CHOOSE h : Adds(h, T))[T]
  BY BytesIs
<1>. QED
  BY <1>1, <1>3, <1>4, AddsOnce

\* The empty set weighs nothing, and any upload can be taken out first.
LEMMA BytesSteps ==
    ASSUME NEW S, Finite(S)
    PROVE  /\ Bytes({}) = 0
           /\ Bytes(S) \in Nat
           /\ \A x \in S : Bytes(S) = Size[x] + Bytes(S \ {x})
<1>1. PICK f \in [SUBSET S -> Nat] : Adds(f, S)
  BY AddsExists
<1>2. \A T \in SUBSET S : Bytes(T) = f[T]
  BY <1>1, BytesBy DEF Finite
<1>3. Bytes({}) = 0
  BY <1>1, <1>2, AddsStep
<1>4. Bytes(S) \in Nat
  BY <1>1, <1>2
<1>. DEFINE Wrong(T) == \E x \in T : f[T] # Size[x] + f[T \ {x}]
            Bad      == {T \in SUBSET S : Wrong(T)}
<1>5. SUFFICES ASSUME Bad # {} PROVE FALSE
  <2>1. SUFFICES ASSUME Bad = {}, NEW x \in S PROVE Bytes(S) = Size[x] + Bytes(S \ {x})
    BY <1>3, <1>4
  <2>2. f[S] = Size[x] + f[S \ {x}]
    BY <2>1
  <2>. DEFINE U == S \ {x}
  <2>3. U \in SUBSET S
    OBVIOUS
  <2>. HIDE DEF U
  <2>4. Bytes(U) = f[U] /\ Bytes(S) = f[S]
    BY <1>2, <2>3
  <2>. QED
    BY <2>2, <2>4 DEF U
<1>6. PICK T \in Bad : \A U \in Bad : ~ (U \subseteq T /\ U # T)
  <2>. Bad \in SUBSET (SUBSET S)
    OBVIOUS
  <2>. HIDE DEF Bad
  <2>. QED
    BY <1>5, Smallest DEF Finite
<1>7. PICK x \in T : f[T] # Size[x] + f[T \ {x}]
  BY <1>6
<1>. DEFINE c == FirstOf(T)
<1>8. c \in T /\ f[T] = Size[c] + f[T \ {c}]
  BY <1>1, <1>6, <1>7, AddsStep, FirstIn
<1>. HIDE DEF c
<1>9. x # c
  BY <1>7, <1>8
<1>10. ~ Wrong(T \ {c}) /\ ~ Wrong(T \ {x})
  <2>1. ASSUME NEW y \in T PROVE ~ Wrong(T \ {y})
    <3>. DEFINE U == T \ {y}
    <3>1. U \subseteq T /\ U # T /\ U \in SUBSET S
      BY <1>6
    <3>. HIDE DEF U, Wrong
    <3>2. U \notin Bad
      BY <1>6, <3>1
    <3>3. ~ Wrong(U)
      BY <3>1, <3>2
    <3>. QED
      BY <3>3 DEF U
  <2>. QED
    BY <1>7, <1>8, <2>1
<1>11. f[T \ {c}] = Size[x] + f[(T \ {c}) \ {x}]
  BY <1>7, <1>9, <1>10
<1>12. f[T \ {x}] = Size[c] + f[(T \ {x}) \ {c}]
  BY <1>8, <1>9, <1>10
<1>13. (T \ {c}) \ {x} = (T \ {x}) \ {c} /\ (T \ {c}) \ {x} \in SUBSET S
  BY <1>6
<1>14. Size[c] \in Nat /\ Size[x] \in Nat /\ f[(T \ {c}) \ {x}] \in Nat
  BY <1>1, <1>6, <1>7, <1>8, <1>13, UploadQuotaAssumption DEF Finite
<1>15. f[(T \ {c}) \ {x}] = f[(T \ {x}) \ {c}]
  <2>. DEFINE U == (T \ {c}) \ {x}
              V == (T \ {x}) \ {c}
  <2>1. U = V
    BY <1>13
  <2>. HIDE DEF U, V
  <2>2. f[U] = f[V]
    BY <2>1
  <2>. QED
    BY <2>2 DEF U, V
<1>. QED
  BY <1>7, <1>8, <1>11, <1>12, <1>14, <1>15

\* An upload more adds its own size.
LEMMA BytesAdd ==
    ASSUME NEW S, Finite(S), NEW u \in Uploads
    PROVE  /\ Finite(S \cup {u})
           /\ Bytes(S \cup {u}) <= Bytes(S) + Size[u]
<1>1. Finite(S \cup {u})
  BY FS_AddElement DEF Finite
<1>2. Bytes(S) \in Nat /\ Size[u] \in Nat
  BY BytesSteps, UploadQuotaAssumption
<1>. DEFINE W == S \cup {u}
<1>3. CASE u \in S
  <2>1. W = S
    BY <1>3
  <2>. HIDE DEF W
  <2>2. Bytes(W) <= Bytes(S) + Size[u]
    BY <1>2, <2>1
  <2>. QED
    BY <1>1, <2>2 DEF W
<1>4. CASE u \notin S
  <2>. DEFINE V == W \ {u}
  <2>1. V = S /\ u \in W
    BY <1>4
  <2>. HIDE DEF W
  <2>2. Bytes(W) = Size[u] + Bytes(V)
    BY <1>1, <2>1, BytesSteps DEF W
  <2>. HIDE DEF V
  <2>3. Bytes(W) <= Bytes(S) + Size[u]
    BY <1>2, <2>1, <2>2
  <2>. QED
    BY <1>1, <2>3 DEF W
<1>. QED
  BY <1>3, <1>4

\* A larger set of uploads weighs at least as much.
LEMMA BytesMore ==
    ASSUME NEW S, Finite(S), NEW R \in SUBSET S
    PROVE  /\ Finite(R)
           /\ Bytes(R) <= Bytes(S)
<1>1. \A T \in SUBSET S : Finite(T) /\ Bytes(T) \in Nat
  BY FS_Subset, BytesSteps DEF Finite
<1>. DEFINE Bad == {T \in SUBSET S : R \subseteq T /\ ~ (Bytes(R) <= Bytes(T))}
<1>2. SUFFICES ASSUME Bad # {} PROVE FALSE
  BY <1>1
<1>3. PICK T \in Bad : \A U \in Bad : ~ (U \subseteq T /\ U # T)
  <2>. Bad \in SUBSET (SUBSET S)
    OBVIOUS
  <2>. HIDE DEF Bad
  <2>. QED
    BY <1>2, Smallest DEF Finite
<1>4. T # R
  BY <1>1, <1>3
<1>5. PICK x \in T : x \notin R
  BY <1>3, <1>4
<1>6. Bytes(T) = Size[x] + Bytes(T \ {x})
  BY <1>1, <1>3, <1>5, BytesSteps
<1>7. Bytes(R) <= Bytes(T \ {x})
  BY <1>3, <1>5
<1>8. /\ Size[x] \in Nat
      /\ Bytes(T \ {x}) \in Nat /\ Bytes(R) \in Nat /\ Bytes(T) \in Nat
  BY <1>1, <1>3, <1>5, UploadQuotaAssumption DEF Finite
<1>. QED
  BY <1>3, <1>6, <1>7, <1>8

-----------------------------------------------------------------------------
(* The invariant                                                           *)

LockOK == \A w \in Workers : request[w].at \in {"count", "insert"} => rowLock = w

UploadOK == \A w \in Workers : request[w].at # "idle" => request[w].upload \in Uploads

\* Whoever is about to insert has room for one more, and for its bytes.
RoomFor(u) == /\ Cardinality(Open) < MaxCount
              /\ Bytes(Open) + Size[u] <= MaxBytes

RoomOK == \A w \in Workers : request[w].at = "insert" => RoomFor(request[w].upload)

IInv ==
    /\ TypeOK
    /\ LockOK
    /\ UploadOK
    /\ RoomOK
    /\ IsFiniteSet(Outstanding)
    /\ CountWithinQuota
    /\ BytesWithinQuota

\* Open uploads are outstanding, and so at most as many and as heavy.
LEMMA OpenFew ==
    ASSUME IsFiniteSet(Outstanding)
    PROVE  /\ Finite(Open)
           /\ Cardinality(Open) \in Nat
           /\ Cardinality(Open) <= Cardinality(Outstanding)
           /\ Bytes(Open) \in Nat /\ Bytes(Outstanding) \in Nat
           /\ Bytes(Open) <= Bytes(Outstanding)
<1>1. Open \subseteq Outstanding /\ Finite(Outstanding)
  BY DEF Open, Outstanding, Finite
<1>2. Finite(Open) /\ Bytes(Open) <= Bytes(Outstanding)
  BY <1>1, BytesMore
<1>3. Bytes(Open) \in Nat /\ Bytes(Outstanding) \in Nat
  BY <1>1, <1>2, BytesSteps
<1>. QED
  BY <1>1, <1>2, <1>3, FS_Subset, FS_CardinalityType DEF Finite

\* When no upload becomes open, and at most one becomes outstanding, what was
\* counted still holds.
LEMMA FewerOpen ==
    ASSUME IInv, Open' \subseteq Open,
           NEW u \in Uploads, Outstanding' \subseteq Outstanding \cup {u}
    PROVE  /\ IsFiniteSet(Outstanding)'
           /\ CountWithinQuota' /\ BytesWithinQuota'
           /\ \A x \in Uploads : RoomFor(x) => RoomFor(x)'
<1>1. IsFiniteSet(Outstanding \cup {u})
  BY FS_AddElement DEF IInv
<1>2. IsFiniteSet(Outstanding')
  BY <1>1, FS_Subset
<1>3. /\ Finite(Open) /\ Cardinality(Open) \in Nat /\ Cardinality(Open) <= MaxCount
      /\ Bytes(Open) \in Nat /\ Bytes(Open) <= MaxBytes
  BY OpenFew DEF IInv, CountWithinQuota, BytesWithinQuota
<1>4. Cardinality(Open') \in Nat /\ Cardinality(Open') <= Cardinality(Open)
  BY <1>3, FS_Subset, FS_CardinalityType DEF Finite
<1>5. Bytes(Open') \in Nat /\ Bytes(Open') <= Bytes(Open)
  BY <1>3, BytesMore, BytesSteps
<1>6. ASSUME NEW x \in Uploads, RoomFor(x) PROVE RoomFor(x)'
  BY <1>3, <1>4, <1>5, <1>6, UploadQuotaAssumption DEF RoomFor
<1>7. CountWithinQuota' /\ BytesWithinQuota'
  BY <1>3, <1>4, <1>5, UploadQuotaAssumption DEF CountWithinQuota, BytesWithinQuota
<1>. QED
  BY <1>2, <1>6, <1>7

LEMMA InitInvariant == Init => IInv
<1>1. SUFFICES ASSUME Init PROVE IInv
  OBVIOUS
<1>2. Outstanding = {} /\ Open = {}
  BY <1>1 DEF Init, Outstanding, Open
<1>3. IsFiniteSet({}) /\ Cardinality({}) = 0 /\ Bytes({}) = 0
  BY FS_EmptySet, BytesSteps DEF Finite
<1>. QED
  BY <1>1, <1>2, <1>3, UploadQuotaAssumption
  DEF Init, IInv, TypeOK, NoRequest, LockOK, UploadOK, RoomOK, CountWithinQuota, BytesWithinQuota

\* A step that leaves the rows alone and keeps the three facts about requests.
LEMMA SameRows ==
    ASSUME IInv, UNCHANGED row, TypeOK', LockOK', UploadOK', RoomOK'
    PROVE  IInv'
<1>1. Open' = Open /\ Outstanding' = Outstanding
  BY DEF Open, Outstanding
<1>. QED
  BY <1>1 DEF IInv, CountWithinQuota, BytesWithinQuota

LEMMA InvariantStep == IInv /\ [Next]_vars => IInv'
<1>1. SUFFICES ASSUME IInv, [Next]_vars PROVE IInv'
  OBVIOUS
<1>. USE UploadQuotaAssumption
<1>2. ASSUME NEW w \in Workers, NEW u \in Uploads, Initiate(w, u)
      PROVE  IInv'
  <2>1. TypeOK' /\ LockOK' /\ UploadOK'
    BY <1>1, <1>2 DEF Initiate, Becomes, IInv, TypeOK, LockOK, UploadOK
  <2>2. RoomOK'
    BY <1>1, <1>2 DEF Initiate, Becomes, IInv, TypeOK, RoomOK, RoomFor, Open
  <2>. QED
    BY <1>1, <1>2, <2>1, <2>2, SameRows DEF Initiate
<1>3. ASSUME NEW w \in Workers, LockParticipant(w)
      PROVE  IInv'
  <2>1. TypeOK' /\ LockOK' /\ UploadOK'
    BY <1>1, <1>3 DEF LockParticipant, Becomes, IInv, TypeOK, LockOK, UploadOK
  <2>2. RoomOK'
    BY <1>1, <1>3 DEF LockParticipant, Becomes, IInv, TypeOK, RoomOK, RoomFor, Open
  <2>. QED
    BY <1>1, <1>3, <2>1, <2>2, SameRows DEF LockParticipant
<1>4. ASSUME NEW w \in Workers, Count(w)
      PROVE  IInv'
  <2>1. TypeOK' /\ LockOK' /\ UploadOK'
    BY <1>1, <1>4 DEF Count, Becomes, IInv, TypeOK, LockOK, UploadOK
  <2>. DEFINE u == request[w].upload
  <2>2. u \in Uploads /\ Size[u] \in Nat
    BY <1>1, <1>4 DEF Count, IInv, UploadOK
  <2>3. Cardinality(Outstanding) \in Nat
    BY <1>1, FS_CardinalityType DEF IInv
  <2>4. RoomFor(u)
    BY <1>1, <1>4, <2>2, <2>3, OpenFew DEF IInv, Count, Fits, RoomFor
  <2>5. Open' = Open
    BY <1>4 DEF Count, Open
  <2>6. RoomOK'
    <3>1. \A x : RoomFor(x) => RoomFor(x)'
      BY <2>5 DEF RoomFor
    <3>2. \A v \in Workers : v # w => request'[v] = request[v]
      BY <1>4 DEF Count, Becomes
    <3>3. request'[w].upload = u
      BY <1>1, <1>4 DEF Count, Becomes, IInv, TypeOK
    <3>. QED
      BY <1>1, <2>4, <3>1, <3>2, <3>3 DEF IInv, RoomOK
  <2>. QED
    BY <1>1, <1>4, <2>1, <2>6, SameRows DEF Count
<1>5. ASSUME NEW w \in Workers, Becomes(w, NoRequest), Release(w), UNCHANGED row
      PROVE  IInv'
  <2>1. TypeOK' /\ LockOK' /\ UploadOK'
    BY <1>1, <1>5 DEF Becomes, Release, NoRequest, IInv, TypeOK, LockOK, UploadOK
  <2>2. RoomOK'
    BY <1>1, <1>5 DEF Becomes, NoRequest, IInv, TypeOK, RoomOK, RoomFor, Open
  <2>. QED
    BY <1>1, <1>5, <2>1, <2>2, SameRows
<1>6. ASSUME NEW w \in Workers, Insert(w)
      PROVE  IInv'
  <2>. DEFINE u == request[w].upload
  <2>1. u \in Uploads /\ request[w].at = "insert" /\ rowLock = w
    BY <1>1, <1>6 DEF Insert, IInv, UploadOK, LockOK
  <2>2. TypeOK' /\ LockOK' /\ UploadOK'
    BY <1>1, <1>6, <2>1
    DEF Insert, Becomes, Release, NoRequest, IInv, TypeOK, LockOK, UploadOK
  <2>3. \A v \in Workers : request'[v].at # "insert"
    BY <1>1, <1>6, <2>1 DEF Insert, Becomes, NoRequest, IInv, TypeOK, LockOK
  <2>4. Open' = Open \cup {u} /\ Outstanding' = Outstanding \cup {u}
    BY <1>1, <1>6, <2>1 DEF Insert, Open, Outstanding, IInv, TypeOK
  <2>5. /\ Finite(Open) /\ Cardinality(Open) \in Nat /\ Cardinality(Open) < MaxCount
        /\ Bytes(Open) \in Nat /\ Size[u] \in Nat /\ Bytes(Open) + Size[u] <= MaxBytes
    BY <1>1, <2>1, OpenFew DEF IInv, RoomOK, RoomFor
  <2>6. IsFiniteSet(Outstanding')
    BY <1>1, <2>4, FS_AddElement DEF IInv
  <2>7. Cardinality(Open') <= Cardinality(Open) + 1
    <3>1. Cardinality(Open \cup {u}) =
            IF u \in Open THEN Cardinality(Open) ELSE Cardinality(Open) + 1
      BY <2>5, FS_AddElement DEF Finite
    <3>. QED
      BY <2>4, <2>5, <3>1
  <2>8. Cardinality(Open') \in Nat
    BY <2>4, <2>5, FS_AddElement, FS_CardinalityType DEF Finite
  <2>9. CountWithinQuota'
    BY <2>5, <2>7, <2>8 DEF CountWithinQuota
  <2>10. BytesWithinQuota'
    <3>. DEFINE W == Open'
    <3>1. Finite(W) /\ Bytes(W) <= Bytes(Open) + Size[u]
      <4>1. W = Open \cup {u}
        BY <2>4
      <4>2. Finite(Open \cup {u}) /\ Bytes(Open \cup {u}) <= Bytes(Open) + Size[u]
        BY <2>1, <2>5, BytesAdd
      <4>. HIDE DEF W
      <4>. QED
        BY <4>1, <4>2, Zenon
    <3>2. Bytes(W) \in Nat
      BY <3>1, BytesSteps
    <3>. QED
      BY <2>5, <3>1, <3>2 DEF BytesWithinQuota
  <2>. QED
    BY <2>2, <2>3, <2>6, <2>9, <2>10 DEF IInv, RoomOK
<1>7. ASSUME NEW u \in Uploads, Attach(u) \/ Retire(u) \/ Discard(u) \/ CleanUp(u)
      PROVE  IInv'
  <2>1. TypeOK' /\ LockOK' /\ UploadOK'
    BY <1>1, <1>7
    DEF Attach, Retire, Discard, CleanUp, Moves, IInv, TypeOK, LockOK, UploadOK
  <2>2. Open' \subseteq Open /\ Outstanding' \subseteq Outstanding \cup {u}
    BY <1>1, <1>7
    DEF Attach, Retire, Discard, CleanUp, Moves, Open, Outstanding, IInv, TypeOK
  <2>3. /\ IsFiniteSet(Outstanding)' /\ CountWithinQuota' /\ BytesWithinQuota'
        /\ \A x \in Uploads : RoomFor(x) => RoomFor(x)'
    BY <1>1, <2>2, FewerOpen
  <2>4. request' = request
    BY <1>7 DEF Attach, Retire, Discard, CleanUp, Moves
  <2>5. RoomOK'
    BY <1>1, <2>3, <2>4 DEF IInv, UploadOK, RoomOK
  <2>. QED
    BY <2>1, <2>3, <2>5 DEF IInv
<1>8. CASE UNCHANGED vars
  BY <1>1, <1>8, SameRows DEF vars, IInv, TypeOK, LockOK, UploadOK, RoomOK, RoomFor, Open
<1>9. ASSUME NEW w \in Workers, Refuse(w) \/ Crash(w)
      PROVE  IInv'
  BY <1>5, <1>9 DEF Refuse, Crash
<1>. QED
  BY <1>1, <1>2, <1>3, <1>4, <1>6, <1>7, <1>8, <1>9 DEF Next

\* The rows, the lock and the requests are well formed, for any sizes and quota.
THEOREM QuotaTyped == Spec => []TypeOK
<1>1. IInv => TypeOK
  BY DEF IInv
<1>. QED
  BY <1>1, InitInvariant, InvariantStep, PTL DEF Spec

\* However initiations race, no more uploads are open than the quota allows, for
\* any number of workers and uploads.
THEOREM QuotaHolds == Spec => []CountWithinQuota
<1>1. IInv => CountWithinQuota
  BY DEF IInv
<1>. QED
  BY <1>1, InitInvariant, InvariantStep, PTL DEF Spec

\* Nor do they weigh more bytes than it allows, whatever their sizes.
THEOREM BytesHold == Spec => []BytesWithinQuota
<1>1. IInv => BytesWithinQuota
  BY DEF IInv
<1>. QED
  BY <1>1, InitInvariant, InvariantStep, PTL DEF Spec
=============================================================================
