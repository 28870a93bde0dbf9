------------------------- MODULE PushDevices_proofs -------------------------
(***************************************************************************)
(* The limit on active devices, what is kept under it, and the absence of  *)
(* circles of registrations hold for any workers, installations and        *)
(* participants.                                                           *)
(*                                                                         *)
(* The argument: a registration that is past the participants holds all of *)
(* their rows, so that it is the only one, and devices of others can only  *)
(* become inactive under it.  Before that, participants are locked in      *)
(* order, so that whoever holds one holds the first.                       *)
(* What it removes are the rows found inactive, and of the active ones     *)
(* those that are older than all that stay.                                *)
(***************************************************************************)
EXTENDS PushDevices, FiniteSetTheorems, WellFoundedInduction, TLAPS

Past        == {"upsert", "inactive", "excess"}
Registering == {"participants"} \cup Past

CallsAreWhole ==
    \A w \in Workers :
        call[w].at \in Registering =>
            /\ call[w].by \in Participants
            /\ call[w].install \in Installs

\* A registration locks the participants in order, and then has them all.
HoldsPrefix ==
    \A w \in Workers, p \in Participants :
        participantLock[p] = w =>
            /\ call[w].at \in Registering
            /\ \A q \in Participants : q < p => participantLock[q] = w

HoldsAll ==
    \A w \in Workers : call[w].at \in Past => \A p \in Participants : participantLock[p] = w

\* What a worker knows of the devices that it holds.
Holds(w) ==
    \A f \in Installs :
        /\ deviceLock[f] = w =>
              /\ call[w].at \in {"inactive", "excess", "deactivate"}
              /\ call[w].at = "inactive" /\ f # call[w].install => ~device[f].active
        /\ f \in call[w].locked => deviceLock[f] = w
        /\ call[w].at \in {"inactive", "excess"} =>
              /\ deviceLock[call[w].install] = w
              /\ f \in call[w].drop => deviceLock[f] # w

HoldsDevices == \A w \in Workers : Holds(w)

\* What would be active if the registration were committed now, and what is
\* still to be removed were gone.
Left(w) == (Active(call[w].by) \ (call[w].drop \cup call[w].locked)) \cup {call[w].install}

RoomLeft == \A w \in Workers : call[w].at = "excess" => Cardinality(Left(w)) <= MaxActive

LocksOK == CallsAreWhole /\ HoldsPrefix /\ HoldsAll /\ HoldsDevices

IInv == TypeOK /\ LocksOK /\ RoomLeft /\ ActiveWithinLimit

-----------------------------------------------------------------------------
(* Lemmas                                                                  *)

\* Only one registration is past the participants.
LEMMA OnlyOnePast ==
    ASSUME TypeOK, CallsAreWhole, HoldsAll,
           NEW v \in Workers, NEW w \in Workers,
           call[v].at \in Past, call[w].at \in Past
    PROVE  v = w
<1>1. call[w].by \in Participants
  BY DEF CallsAreWhole, Past, Registering
<1>. QED
  BY <1>1 DEF HoldsAll

\* Sets of installations are finite.
LEMMA Finite ==
    ASSUME NEW S \in SUBSET Installs
    PROVE  IsFiniteSet(S) /\ Cardinality(S) \in Nat
  BY PushDevicesAssumption, FS_Subset, FS_CardinalityType

LEMMA Fewer ==
    ASSUME NEW S \in SUBSET Installs, NEW T \in SUBSET S, Cardinality(S) <= MaxActive
    PROVE  Cardinality(T) <= MaxActive
<1>1. Cardinality(T) <= Cardinality(S) /\ Cardinality(S) \in Nat /\ Cardinality(T) \in Nat
  BY Finite, FS_Subset
<1>. QED
  BY <1>1, PushDevicesAssumption

\* Nobody's active devices become more unless a registration is committed.
LEMMA FewerActive ==
    ASSUME IInv, \A p \in Participants : Active(p)' \subseteq Active(p)
    PROVE  ActiveWithinLimit'
<1>1. SUFFICES ASSUME NEW p \in Participants
               PROVE  Cardinality(Active(p)') <= MaxActive
  BY DEF ActiveWithinLimit
<1>2. Active(p) \in SUBSET Installs /\ Cardinality(Active(p)) <= MaxActive
  BY DEF IInv, ActiveWithinLimit, Active, Rows
<1>. QED
  BY <1>2, Fewer

-----------------------------------------------------------------------------
(* Type correctness                                                        *)

LEMMA NoCallType == NoCall \in Calls
  BY DEF NoCall, Calls

LEMMA TouchedType ==
    ASSUME TypeOK, NEW S \in SUBSET Installs
    PROVE  Touched(S) \subseteq Installs \X Installs
  BY DEF TypeOK, Touched

LEMMA ReleasedType ==
    ASSUME TypeOK, NEW w \in Workers, Released(w)
    PROVE  /\ participantLock' \in [Participants -> Workers \cup {None}]
           /\ deviceLock' \in [Installs -> Workers \cup {None}]
           /\ \A p \in Participants : participantLock'[p] =
                 IF participantLock[p] = w THEN None ELSE participantLock[p]
           /\ \A f \in Installs : deviceLock'[f] =
                 IF deviceLock[f] = w THEN None ELSE deviceLock[f]
  BY DEF TypeOK, Released, Unlocked

\* There is a least number in every set of numbers that is not empty.
LEMMA LeastNumber ==
    ASSUME NEW S \in SUBSET Nat, S # {}
    PROVE  \E n \in S : \A m \in S : n <= m
<1>1. IsWellFoundedOn({ss \in Nat \X Nat : ss[1] < ss[2]}, Nat)
  BY NatLessThanWellFounded DEF OpToRel
<1>2. PICK n \in S : \A m \in S : <<m, n>> \notin {ss \in Nat \X Nat : ss[1] < ss[2]}
  BY <1>1, WFMin
<1>3. ASSUME NEW m \in S PROVE n <= m
  <2>1. ~ (<<m, n>>[1] < <<m, n>>[2])
    BY <1>2
  <2>. QED
    BY <2>1
<1>. QED
  BY <1>3

LEMMA BecomesType ==
    ASSUME TypeOK, NEW w \in Workers, NEW c \in Calls, Becomes(w, c)
    PROVE  /\ call' \in [Workers -> Calls]
           /\ call'[w] = c
           /\ \A v \in Workers \ {w} : call'[v] = call[v]
  BY DEF TypeOK, Becomes

LEMMA TakesType ==
    ASSUME TypeOK, NEW w \in Workers, NEW f \in Installs, TakesDevice(w, f)
    PROVE  /\ deviceLock' \in [Installs -> Workers \cup {None}]
           /\ deviceLock[f] = None
           /\ deviceLock'[f] = w
           /\ \A g \in Installs \ {f} : deviceLock'[g] = deviceLock[g]
  BY DEF TypeOK, TakesDevice

\* What a call may become.
LEMMA CallFields ==
    ASSUME NEW c \in Calls
    PROVE  /\ c.by \in Participants \cup {None} /\ c.install \in Installs \cup {None}
           /\ c.drop \in SUBSET Installs /\ c.locked \in SUBSET Installs
           /\ \A a \in {"participants", "upsert", "inactive", "excess", "deactivate"},
                D \in SUBSET Installs :
                  /\ [c EXCEPT !.at = a] \in Calls
                  /\ [c EXCEPT !.drop = D] \in Calls
                  /\ [c EXCEPT !.at = a, !.drop = D] \in Calls
           /\ \A f \in Installs :
                  /\ [c EXCEPT !.drop = @ \ {f}] \in Calls
                  /\ [c EXCEPT !.drop = @ \ {f}, !.locked = @ \cup {f}] \in Calls
  BY DEF Calls

LEMMA CallType == TypeOK => \A w \in Workers : call[w] \in Calls
  BY DEF TypeOK

LEMMA TypeInit == Init => TypeOK
  BY NoCallType DEF Init, TypeOK, NoRow, Devices

LEMMA TypeStep == TypeOK /\ LocksOK /\ [Next]_vars => TypeOK'
<1>1. SUFFICES ASSUME TypeOK, LocksOK, Next PROVE TypeOK'
  BY DEF TypeOK, vars
<1>2. ASSUME NEW p \in Participants, NEW f \in Installs, Unregister(p, f) PROVE TypeOK'
  BY <1>1, <1>2, TouchedType DEF Unregister, Deactivated, TypeOK, Devices
<1>3. ASSUME NEW w \in Workers, NEW p \in Participants, NEW f \in Installs, Register(w, p, f)
      PROVE  TypeOK'
  BY <1>1, <1>3 DEF Register, Becomes, NoCall, TypeOK, Calls
<1>4. ASSUME NEW w \in Workers, NEW p \in Participants, LockParticipant(w, p) PROVE TypeOK'
  BY <1>1, <1>4 DEF LockParticipant, TypeOK
<1>5. ASSUME NEW w \in Workers, NEW p \in Participants, ReadDevices(w, p) PROVE TypeOK'
  BY <1>1, <1>5 DEF ReadDevices, Becomes, NoCall, Active, Rows, TypeOK, Calls
<1>6. ASSUME NEW w \in Workers, NEW f \in Installs, LockDropped(w, f) PROVE TypeOK'
  <2>1. call[w] \in Calls
    BY <1>1, CallType
  <2>2. CASE Doomed(call[w], f)
    BY <1>1, <1>6, <2>1, <2>2, CallFields, BecomesType, TakesType DEF LockDropped, TypeOK
  <2>3. CASE ~Doomed(call[w], f)
    BY <1>1, <1>6, <2>1, <2>3, CallFields, BecomesType DEF LockDropped, TypeOK
  <2>. QED
    BY <2>2, <2>3
<1>7. ASSUME NEW w \in Workers, NEW f \in Installs, LockInvalid(w, f) PROVE TypeOK'
  <2>1. call[w] \in Calls
    BY <1>1, CallType
  <2>. QED
    BY <1>1, <1>7, <2>1, CallFields, BecomesType, TakesType DEF LockInvalid, TypeOK
<1>8. ASSUME NEW w \in Workers, ParticipantsLocked(w) PROVE TypeOK'
  BY <1>1, <1>8 DEF ParticipantsLocked, Becomes, TypeOK, Calls
<1>9. ASSUME NEW w \in Workers, Upsert(w) PROVE TypeOK'
  <2>1. call[w] \in Calls /\ call[w].install \in Installs
    BY <1>1, <1>9, CallType DEF Upsert, LocksOK, CallsAreWhole, Registering, Past
  <2>2. Inactive(call[w].by) \ {call[w].install} \in SUBSET Installs
    BY DEF Inactive, Rows
  <2>3. Becomes(w, [call[w] EXCEPT !.at = "inactive",
                                   !.drop = Inactive(call[w].by) \ {call[w].install}])
    BY <1>9 DEF Upsert
  <2>4. call' \in [Workers -> Calls]
    BY <1>1, <2>1, <2>2, <2>3, CallFields, BecomesType
  <2>. QED
    BY <1>1, <1>9, <2>1, <2>4, TakesType DEF Upsert, TypeOK
<1>10. ASSUME NEW w \in Workers, Retain(w) PROVE TypeOK'
  <2>1. call[w] \in Calls
    BY <1>1, CallType
  <2>2. PICK D \in SUBSET Installs : Becomes(w, [call[w] EXCEPT !.at = "excess", !.drop = D])
    BY <1>10 DEF Retain, Active, Rows
  <2>. QED
    BY <1>1, <1>10, <2>1, <2>2, CallFields, BecomesType DEF Retain, TypeOK
<1>11. ASSUME NEW w \in Workers, Commit(w) PROVE TypeOK'
  <2>1. call[w].by \in Participants /\ call[w].install \in Installs
    BY <1>1, <1>11 DEF Commit, LocksOK, CallsAreWhole, Registering, Past
  <2>2. device' \in [Installs -> Devices]
    BY <1>1, <1>11, <2>1 DEF Commit, TypeOK, Devices, NoRow
  <2>3. newer' \subseteq Installs \X Installs
    BY <1>1, <1>11, <2>1, TouchedType DEF Commit
  <2>4. call' \in [Workers -> Calls]
    BY <1>1, <1>11, NoCallType DEF Commit, TypeOK, Calls
  <2>. QED
    BY <1>1, <1>11, <2>2, <2>3, <2>4, ReleasedType DEF Commit, TypeOK
<1>12. ASSUME NEW w \in Workers, Sent(w) PROVE TypeOK'
  <2>1. call[w] \in Calls
    BY <1>1, CallType
  <2>2. PICK D \in SUBSET call[w].drop :
            Becomes(w, IF D = {} THEN NoCall
                       ELSE [call[w] EXCEPT !.at = "deactivate", !.drop = D])
    BY <1>12 DEF Sent
  <2>3. D \in SUBSET Installs
    BY <2>1, CallFields
  <2>4. call' \in [Workers -> Calls]
    BY <1>1, <2>1, <2>2, <2>3, CallFields, NoCallType, BecomesType
  <2>. QED
    BY <1>1, <1>12, <2>4 DEF Sent, TypeOK
<1>13. ASSUME NEW w \in Workers, DeactivateInvalid(w) PROVE TypeOK'
  <2>1. call[w].locked \in SUBSET Installs
    BY <1>1 DEF TypeOK, Calls
  <2>2. newer' \subseteq Installs \X Installs
    BY <1>1, <1>13, <2>1, TouchedType DEF DeactivateInvalid, Deactivated
  <2>3. device' \in [Installs -> Devices]
    BY <1>1, <1>13 DEF DeactivateInvalid, Deactivated, TypeOK, Devices
  <2>. QED
    BY <1>1, <1>13, <2>2, <2>3, ReleasedType, NoCallType
    DEF DeactivateInvalid, Becomes, TypeOK
<1>14. ASSUME NEW w \in Workers, RollBack(w) PROVE TypeOK'
  BY <1>1, <1>14, ReleasedType, NoCallType DEF RollBack, Becomes, TypeOK
<1>. QED
  BY <1>1, <1>2, <1>3, <1>4, <1>5, <1>6, <1>7, <1>8, <1>9, <1>10, <1>11, <1>12,
     <1>13, <1>14 DEF Next

-----------------------------------------------------------------------------
(* The locks                                                               *)

LEMMA LocksInit == Init => LocksOK
  BY PushDevicesAssumption
     DEF Init, LocksOK, CallsAreWhole, HoldsPrefix, HoldsAll, HoldsDevices, Holds, NoCall, NoRow,
         Registering, Past

\* A step that does not touch what a worker holds.
LEMMA Bystander ==
    ASSUME LocksOK, NEW v \in Workers, call'[v] = call[v],
           \A f \in Installs : deviceLock'[f] = v <=> deviceLock[f] = v,
           \A f \in Installs : device'[f].active => device[f].active
    PROVE  Holds(v)'
<1>1. Holds(v) /\ (call[v].at \in {"inactive", "excess"} => call[v].install \in Installs)
  BY DEF LocksOK, HoldsDevices, CallsAreWhole, Registering, Past
<1>. QED
  BY <1>1 DEF Holds

\* A worker takes a device, and the others hold what they held.
LEMMA OthersHold ==
    ASSUME TypeOK, LocksOK, NEW w \in Workers, NEW f \in Installs, TakesDevice(w, f),
           UNCHANGED device, \A v \in Workers \ {w} : call'[v] = call[v]
    PROVE  \A v \in Workers \ {w} : Holds(v)'
<1>1. SUFFICES ASSUME NEW v \in Workers \ {w} PROVE Holds(v)'
  OBVIOUS
<1>2. \A g \in Installs : deviceLock'[g] = v <=> deviceLock[g] = v
  BY TakesType, PushDevicesAssumption
<1>. QED
  BY <1>2, Bystander

LEMMA UnregisterKeepsLocks ==
    ASSUME TypeOK, LocksOK, NEW p \in Participants, NEW f \in Installs, Unregister(p, f)
    PROVE  LocksOK'
<1>1. /\ UNCHANGED <<participantLock, deviceLock, call>>
      /\ \A g \in Installs : device'[g].active => device[g].active
  BY DEF Unregister, Deactivated, TypeOK, Devices
<1>2. (CallsAreWhole /\ HoldsPrefix /\ HoldsAll)'
  BY <1>1 DEF LocksOK, CallsAreWhole, HoldsPrefix, HoldsAll
<1>3. HoldsDevices'
  BY <1>1 DEF LocksOK, HoldsDevices, Holds
<1>. QED
  BY <1>2, <1>3 DEF LocksOK

LEMMA RegisterKeepsLocks ==
    ASSUME TypeOK, LocksOK,
           NEW w \in Workers, NEW p \in Participants, NEW f \in Installs, Register(w, p, f)
    PROVE  LocksOK'
<1>1. /\ call[w].at = "idle" /\ UNCHANGED <<device, participantLock, deviceLock>>
      /\ call' = [call EXCEPT ![w] = [NoCall EXCEPT !.at = "participants", !.by = p,
                                                   !.install = f]]
  BY DEF Register, Becomes
<1>2. /\ call'[w].at = "participants" /\ call'[w].by = p /\ call'[w].install = f
      /\ call'[w].locked = {}
      /\ \A v \in Workers \ {w} : call'[v] = call[v]
  BY <1>1 DEF TypeOK, NoCall
<1>3. CallsAreWhole'
  BY <1>2 DEF LocksOK, CallsAreWhole
<1>4. HoldsPrefix' /\ HoldsAll'
  BY <1>1, <1>2 DEF LocksOK, HoldsPrefix, HoldsAll, Registering, Past
<1>5. HoldsDevices'
  BY <1>1, <1>2 DEF LocksOK, HoldsDevices, Holds
<1>. QED
  BY <1>3, <1>4, <1>5 DEF LocksOK

LEMMA LockParticipantKeepsLocks ==
    ASSUME TypeOK, LocksOK, NEW w \in Workers, NEW p \in Participants, LockParticipant(w, p)
    PROVE  LocksOK'
<1>1. /\ call[w].at = "participants" /\ participantLock[p] = None
      /\ UNCHANGED <<device, deviceLock, call>>
      /\ participantLock' = [participantLock EXCEPT ![p] = w]
      /\ \A q \in Participants : q < p => participantLock[q] = w
  BY DEF LockParticipant, NextParticipant
<1>2. p \in Nat /\ Participants \subseteq Nat /\ None \notin Workers
  BY PushDevicesAssumption
<1>3. HoldsPrefix'
  BY <1>1, <1>2 DEF LocksOK, HoldsPrefix, TypeOK, Registering
<1>4. CallsAreWhole' /\ HoldsAll' /\ HoldsDevices'
  BY <1>1, <1>2 DEF LocksOK, CallsAreWhole, HoldsAll, HoldsDevices, Holds, TypeOK
<1>. QED
  BY <1>3, <1>4 DEF LocksOK

LEMMA ReadDevicesKeepsLocks ==
    ASSUME TypeOK, LocksOK, NEW w \in Workers, NEW p \in Participants, ReadDevices(w, p)
    PROVE  LocksOK'
<1>1. /\ call[w].at = "idle" /\ UNCHANGED <<device, participantLock, deviceLock>>
      /\ call' = [call EXCEPT ![w] = [NoCall EXCEPT !.at = "sending", !.drop = Active(p)]]
  BY DEF ReadDevices, Becomes
<1>2. /\ call'[w].at = "sending" /\ call'[w].locked = {}
      /\ \A v \in Workers \ {w} : call'[v] = call[v]
  BY <1>1 DEF TypeOK, NoCall
<1>3. CallsAreWhole' /\ HoldsPrefix' /\ HoldsAll'
  BY <1>1, <1>2 DEF LocksOK, CallsAreWhole, HoldsPrefix, HoldsAll, Registering, Past
<1>4. HoldsDevices'
  BY <1>1, <1>2 DEF LocksOK, HoldsDevices, Holds
<1>. QED
  BY <1>3, <1>4 DEF LocksOK

LEMMA ParticipantsLockedKeepsLocks ==
    ASSUME TypeOK, LocksOK, NEW w \in Workers, ParticipantsLocked(w)
    PROVE  LocksOK'
<1>1. /\ call[w].at = "participants" /\ UNCHANGED <<device, participantLock, deviceLock>>
      /\ \A p \in Participants : ~NextParticipant(w, p)
      /\ call' = [call EXCEPT ![w] = [call[w] EXCEPT !.at = "upsert"]]
  BY DEF ParticipantsLocked, Becomes
<1>2. /\ call'[w].at = "upsert" /\ call'[w].by = call[w].by
      /\ call'[w].install = call[w].install /\ call'[w].locked = call[w].locked
      /\ \A v \in Workers \ {w} : call'[v] = call[v]
  BY <1>1 DEF TypeOK, Calls
<1>3. \A p \in Participants : participantLock[p] = w
  <2>. DEFINE Free == {p \in Participants : participantLock[p] # w}
  <2>1. SUFFICES ASSUME Free # {} PROVE FALSE
    OBVIOUS
  <2>2. PICK p \in Free : \A q \in Free : p <= q
    BY <2>1, LeastNumber, PushDevicesAssumption
  <2>3. NextParticipant(w, p)
    BY <2>2, PushDevicesAssumption DEF NextParticipant
  <2>. QED
    BY <1>1, <2>2, <2>3
<1>4. CallsAreWhole' /\ HoldsPrefix' /\ HoldsAll'
  BY <1>1, <1>2, <1>3 DEF LocksOK, CallsAreWhole, HoldsPrefix, HoldsAll, Registering, Past
<1>5. HoldsDevices'
  BY <1>1, <1>2 DEF LocksOK, HoldsDevices, Holds
<1>. QED
  BY <1>4, <1>5 DEF LocksOK

LEMMA UpsertKeepsLocks ==
    ASSUME TypeOK, LocksOK, NEW w \in Workers, Upsert(w)
    PROVE  LocksOK'
<1>. DEFINE c == call[w]
<1>1. c.install \in Installs /\ c.by \in Participants
  BY DEF Upsert, LocksOK, CallsAreWhole, Registering, Past
<1>2. /\ c.at = "upsert" /\ UNCHANGED <<device, participantLock>>
      /\ TakesDevice(w, c.install)
      /\ call' = [call EXCEPT ![w] = [c EXCEPT !.at = "inactive",
                                              !.drop = Inactive(c.by) \ {c.install}]]
  BY DEF Upsert, Becomes
<1>3. /\ call'[w].at = "inactive" /\ call'[w].by = c.by
      /\ call'[w].install = c.install /\ call'[w].locked = c.locked
      /\ call'[w].drop = Inactive(c.by) \ {c.install}
      /\ \A v \in Workers \ {w} : call'[v] = call[v]
  BY <1>2 DEF TypeOK, Calls
<1>4. CallsAreWhole' /\ HoldsPrefix' /\ HoldsAll'
  BY <1>1, <1>2, <1>3 DEF LocksOK, CallsAreWhole, HoldsPrefix, HoldsAll, Registering, Past
<1>5. HoldsDevices'
  <2>1. \A f \in Installs : deviceLock[f] # w
    BY <1>2 DEF LocksOK, HoldsDevices, Holds
  <2>2. /\ deviceLock[c.install] = None /\ deviceLock'[c.install] = w
        /\ \A g \in Installs \ {c.install} : deviceLock'[g] = deviceLock[g]
    BY <1>1, <1>2, TakesType
  <2>3. Holds(w)'
    BY <1>1, <1>2, <1>3, <2>1, <2>2 DEF LocksOK, HoldsDevices, Holds
  <2>4. \A v \in Workers \ {w} : Holds(v)'
    BY <1>1, <1>2, <1>3, OthersHold
  <2>. QED
    BY <2>3, <2>4 DEF HoldsDevices
<1>. QED
  BY <1>4, <1>5 DEF LocksOK

LEMMA LockDroppedKeepsLocks ==
    ASSUME TypeOK, LocksOK, NEW w \in Workers, NEW f \in Installs, LockDropped(w, f)
    PROVE  LocksOK'
<1>. DEFINE c == call[w]
<1>1. /\ c.at \in {"inactive", "excess"} /\ f \in c.drop
      /\ UNCHANGED <<device, participantLock>>
      /\ c.install \in Installs
  BY DEF LockDropped, LocksOK, CallsAreWhole, Registering, Past
<1>2. /\ call'[w].at = c.at /\ call'[w].by = c.by /\ call'[w].install = c.install
      /\ call'[w].drop = c.drop \ {f}
      /\ call'[w].locked = IF Doomed(c, f) THEN c.locked \cup {f} ELSE c.locked
      /\ \A v \in Workers \ {w} : call'[v] = call[v]
  <2>1. CASE Doomed(c, f)
    <3>1. call' = [call EXCEPT ![w] = [c EXCEPT !.drop = @ \ {f}, !.locked = @ \cup {f}]]
      BY <2>1 DEF LockDropped, Becomes
    <3>. QED
      BY <2>1, <3>1 DEF TypeOK, Calls
  <2>2. CASE ~Doomed(c, f)
    <3>1. call' = [call EXCEPT ![w] = [c EXCEPT !.drop = @ \ {f}]]
      BY <2>2 DEF LockDropped, Becomes
    <3>. QED
      BY <2>2, <3>1 DEF TypeOK, Calls
  <2>. QED
    BY <2>1, <2>2
<1>3. CallsAreWhole' /\ HoldsPrefix' /\ HoldsAll'
  BY <1>1, <1>2 DEF LocksOK, CallsAreWhole, HoldsPrefix, HoldsAll, Registering, Past
<1>4. CASE Doomed(c, f)
  <2>1. TakesDevice(w, f)
    BY <1>4 DEF LockDropped
  <2>2. /\ deviceLock[f] = None /\ deviceLock'[f] = w
        /\ \A g \in Installs \ {f} : deviceLock'[g] = deviceLock[g]
    BY <2>1, TakesType
  <2>3. c.at = "inactive" => ~device[f].active
    <3>1. device[f].active = (c.at = "excess")
      BY <1>4 DEF Doomed
    <3>. QED
      BY <3>1
  <2>4. Holds(w)
    BY DEF LocksOK, HoldsDevices
  <2>5. Holds(w)'
    BY <1>1, <1>2, <1>4, <2>2, <2>3, <2>4 DEF Holds
  <2>6. \A v \in Workers \ {w} : Holds(v)'
    BY <1>1, <1>2, <2>1, OthersHold
  <2>. QED
    BY <1>3, <2>5, <2>6 DEF LocksOK, HoldsDevices
<1>5. CASE ~Doomed(c, f)
  <2>1. UNCHANGED deviceLock
    BY <1>5 DEF LockDropped
  <2>2. HoldsDevices'
    BY <1>1, <1>2, <1>5, <2>1 DEF LocksOK, HoldsDevices, Holds
  <2>. QED
    BY <1>3, <2>2 DEF LocksOK
<1>. QED
  BY <1>4, <1>5

LEMMA RetainKeepsLocks ==
    ASSUME TypeOK, LocksOK, NEW w \in Workers, Retain(w)
    PROVE  LocksOK'
<1>. DEFINE c      == call[w]
            others == Active(c.by) \ {c.install}
<1>1. PICK keep \in SUBSET others :
          call' = [call EXCEPT ![w] = [c EXCEPT !.at = "excess", !.drop = others \ keep]]
  BY DEF Retain, Becomes
<1>2. /\ c.at = "inactive" /\ UNCHANGED <<device, participantLock, deviceLock>>
  BY DEF Retain
<1>3. /\ call'[w].at = "excess" /\ call'[w].by = c.by /\ call'[w].install = c.install
      /\ call'[w].drop = others \ keep /\ call'[w].locked = c.locked
      /\ \A v \in Workers \ {w} : call'[v] = call[v]
  BY <1>1 DEF TypeOK, Calls
<1>4. CallsAreWhole' /\ HoldsPrefix' /\ HoldsAll'
  BY <1>2, <1>3 DEF LocksOK, CallsAreWhole, HoldsPrefix, HoldsAll, Registering, Past
<1>5. \A f \in others : deviceLock[f] # w
  BY <1>2 DEF LocksOK, HoldsDevices, Holds, Active, Rows
<1>6. HoldsDevices'
  BY <1>2, <1>3, <1>5 DEF LocksOK, HoldsDevices, Holds
<1>. QED
  BY <1>4, <1>6 DEF LocksOK

LEMMA SentKeepsLocks ==
    ASSUME TypeOK, LocksOK, NEW w \in Workers, Sent(w)
    PROVE  LocksOK'
<1>1. /\ call[w].at = "sending" /\ UNCHANGED <<device, participantLock, deviceLock>>
  BY DEF Sent
<1>2. PICK invalid \in SUBSET call[w].drop :
          Becomes(w, IF invalid = {} THEN NoCall
                     ELSE [call[w] EXCEPT !.at = "deactivate", !.drop = invalid])
  BY DEF Sent
<1>3. /\ call'[w].at \in {"idle", "deactivate"}
      /\ call'[w].locked \subseteq call[w].locked
      /\ \A v \in Workers \ {w} : call'[v] = call[v]
  BY <1>2 DEF Becomes, TypeOK, Calls, NoCall
<1>4. CallsAreWhole' /\ HoldsPrefix' /\ HoldsAll'
  BY <1>1, <1>3 DEF LocksOK, CallsAreWhole, HoldsPrefix, HoldsAll, Registering, Past
<1>5. HoldsDevices'
  BY <1>1, <1>3 DEF LocksOK, HoldsDevices, Holds
<1>. QED
  BY <1>4, <1>5 DEF LocksOK

LEMMA LockInvalidKeepsLocks ==
    ASSUME TypeOK, LocksOK, NEW w \in Workers, NEW f \in Installs, LockInvalid(w, f)
    PROVE  LocksOK'
<1>. DEFINE c == call[w]
<1>1. /\ c.at = "deactivate" /\ UNCHANGED <<device, participantLock>>
      /\ TakesDevice(w, f)
      /\ call' = [call EXCEPT ![w] = [c EXCEPT !.drop = @ \ {f}, !.locked = @ \cup {f}]]
  BY DEF LockInvalid, Becomes
<1>2. /\ call'[w].at = "deactivate" /\ call'[w].locked = c.locked \cup {f}
      /\ \A v \in Workers \ {w} : call'[v] = call[v]
  BY <1>1 DEF TypeOK, Calls
<1>3. CallsAreWhole' /\ HoldsPrefix' /\ HoldsAll'
  BY <1>1, <1>2 DEF LocksOK, CallsAreWhole, HoldsPrefix, HoldsAll, Registering, Past
<1>4. /\ deviceLock[f] = None /\ deviceLock'[f] = w
      /\ \A g \in Installs \ {f} : deviceLock'[g] = deviceLock[g]
  BY <1>1, TakesType
<1>5. Holds(w)'
  BY <1>1, <1>2, <1>4 DEF LocksOK, HoldsDevices, Holds
<1>6. \A v \in Workers \ {w} : Holds(v)'
  BY <1>1, <1>2, OthersHold
<1>. QED
  BY <1>3, <1>5, <1>6 DEF LocksOK, HoldsDevices

\* The end of a transaction: the worker is idle and holds nothing.
LEMMA ReleasedLocks ==
    ASSUME TypeOK, LocksOK, NEW w \in Workers, Released(w), call'[w] = NoCall,
           \A v \in Workers \ {w} :
               /\ call'[v].at = call[v].at /\ call'[v].by = call[v].by
               /\ call'[v].install = call[v].install /\ call'[v].locked = call[v].locked
    PROVE  /\ CallsAreWhole' /\ HoldsPrefix' /\ HoldsAll' /\ Holds(w)'
           /\ \A v \in Workers \ {w}, f \in Installs : deviceLock'[f] = v <=> deviceLock[f] = v
<1>1. None \notin Workers
  BY PushDevicesAssumption
<1>2. /\ \A v \in Workers \ {w}, f \in Installs : deviceLock'[f] = v <=> deviceLock[f] = v
      /\ \A f \in Installs : deviceLock'[f] # w
      /\ \A v \in Workers \ {w}, p \in Participants :
            participantLock'[p] = v <=> participantLock[p] = v
      /\ \A p \in Participants : participantLock'[p] # w
  BY <1>1, ReleasedType
<1>3. CallsAreWhole' /\ HoldsPrefix' /\ HoldsAll'
  BY <1>2 DEF LocksOK, CallsAreWhole, HoldsPrefix, HoldsAll, NoCall, Registering, Past
<1>4. Holds(w)'
  BY <1>2 DEF Holds, NoCall
<1>. QED
  BY <1>2, <1>3, <1>4

LEMMA CommitKeepsLocks ==
    ASSUME TypeOK, LocksOK, NEW w \in Workers, Commit(w)
    PROVE  LocksOK'
<1>1. /\ call[w].at = "excess" /\ Released(w) /\ call'[w] = NoCall
      /\ \A v \in Workers \ {w} :
            /\ call'[v].at = call[v].at /\ call'[v].by = call[v].by
            /\ call'[v].install = call[v].install /\ call'[v].locked = call[v].locked
  BY DEF Commit, TypeOK, Calls
<1>2. ASSUME NEW v \in Workers \ {w} PROVE Holds(v)'
  <2>1. call[v].at \notin Past
    BY <1>1, OnlyOnePast DEF LocksOK, Past
  <2>. QED
    BY <1>1, <2>1, ReleasedLocks DEF LocksOK, HoldsDevices, Holds, Past
<1>. QED
  BY <1>1, <1>2, ReleasedLocks DEF LocksOK, HoldsDevices

LEMMA DeactivateInvalidKeepsLocks ==
    ASSUME TypeOK, LocksOK, NEW w \in Workers, DeactivateInvalid(w)
    PROVE  LocksOK'
<1>1. /\ Released(w) /\ call'[w] = NoCall
      /\ \A v \in Workers \ {w} : call'[v] = call[v]
      /\ \A f \in Installs : device'[f].active => device[f].active
  BY DEF DeactivateInvalid, Becomes, Deactivated, TypeOK, Devices
<1>2. \A v \in Workers \ {w} : Holds(v)'
  BY <1>1, ReleasedLocks, Bystander
<1>. QED
  BY <1>1, <1>2, ReleasedLocks DEF LocksOK, HoldsDevices

LEMMA RollBackKeepsLocks ==
    ASSUME TypeOK, LocksOK, NEW w \in Workers, RollBack(w)
    PROVE  LocksOK'
<1>1. /\ Released(w) /\ call'[w] = NoCall /\ UNCHANGED device
      /\ \A v \in Workers \ {w} : call'[v] = call[v]
  BY DEF RollBack, Becomes, TypeOK
<1>2. \A v \in Workers \ {w} : Holds(v)'
  BY <1>1, ReleasedLocks, Bystander
<1>. QED
  BY <1>1, <1>2, ReleasedLocks DEF LocksOK, HoldsDevices

LEMMA LocksStep == TypeOK /\ LocksOK /\ [Next]_vars => LocksOK'
<1>1. SUFFICES ASSUME TypeOK, LocksOK, [Next]_vars PROVE LocksOK'
  OBVIOUS
<1>2. CASE UNCHANGED vars
  BY <1>1, <1>2 DEF LocksOK, CallsAreWhole, HoldsPrefix, HoldsAll, HoldsDevices, Holds, vars
<1>3. CASE Next
  BY <1>1, <1>3, UnregisterKeepsLocks, RegisterKeepsLocks, LockParticipantKeepsLocks,
     ReadDevicesKeepsLocks, ParticipantsLockedKeepsLocks, UpsertKeepsLocks,
     LockDroppedKeepsLocks, RetainKeepsLocks, CommitKeepsLocks, SentKeepsLocks,
     LockInvalidKeepsLocks, DeactivateInvalidKeepsLocks, RollBackKeepsLocks
  DEF Next
<1>. QED
  BY <1>1, <1>2, <1>3

-----------------------------------------------------------------------------
(* The limit                                                               *)

\* A registration past the participants is the only one: when it has chosen
\* what to keep, only its own steps and deactivations change what is left.
LEMMA LeftShrinks ==
    ASSUME IInv, TypeOK',
           NEW w \in Workers, call[w].at = "excess", call'[w].at = "excess",
           call'[w].by = call[w].by, call'[w].install = call[w].install,
           Active(call[w].by)' \ (call'[w].drop \cup call'[w].locked)
               \subseteq Active(call[w].by) \ (call[w].drop \cup call[w].locked)
    PROVE  Cardinality(Left(w)') <= MaxActive
<1>1. call[w].install \in Installs /\ call[w].by \in Participants
  BY DEF IInv, LocksOK, CallsAreWhole, Registering, Past
<1>2. Left(w)' \in SUBSET Left(w)
  BY DEF Left
<1>3. Left(w) \in SUBSET Installs /\ Cardinality(Left(w)) <= MaxActive
  BY <1>1 DEF IInv, RoomLeft, Left, Active, Rows
<1>. QED
  BY <1>2, <1>3, Fewer

\* A step that registers nothing and chooses nothing.
QuietStep ==
    /\ \A f \in Installs :
           device'[f].owner = device[f].owner /\ (device'[f].active => device[f].active)
    /\ \A w \in Workers : call'[w] = call[w] \/ call'[w].at # "excess"

LEMMA QuietKeepsLimit ==
    ASSUME IInv, TypeOK', QuietStep
    PROVE  RoomLeft' /\ ActiveWithinLimit'
<1>1. \A p \in Participants : Active(p)' \subseteq Active(p)
  BY DEF QuietStep, Active, Rows
<1>2. ASSUME NEW w \in Workers, call'[w].at = "excess"
      PROVE  Cardinality(Left(w)') <= MaxActive
  <2>1. call'[w] = call[w] /\ call[w].by \in Participants
    BY <1>2 DEF QuietStep, IInv, LocksOK, CallsAreWhole, Registering, Past
  <2>2. Active(call[w].by)' \subseteq Active(call[w].by)
    BY <2>1 DEF QuietStep, Active, Rows
  <2>. QED
    BY <1>2, <2>1, <2>2, LeftShrinks
<1>. QED
  BY <1>1, <1>2, FewerActive DEF RoomLeft

LEMMA LockDroppedKeepsLimit ==
    ASSUME IInv, TypeOK', NEW w \in Workers, NEW f \in Installs, LockDropped(w, f)
    PROVE  RoomLeft' /\ ActiveWithinLimit'
<1>. DEFINE c == call[w]
<1>1. UNCHANGED device /\ \A p \in Participants : Active(p)' \subseteq Active(p)
  BY DEF LockDropped, Active, Rows
<1>2. /\ call'[w].at = c.at /\ call'[w].by = c.by /\ call'[w].install = c.install
      /\ call'[w].drop = c.drop \ {f}
      /\ call'[w].locked = IF Doomed(c, f) THEN c.locked \cup {f} ELSE c.locked
      /\ \A v \in Workers \ {w} : call'[v] = call[v]
  <2>1. CASE Doomed(c, f)
    <3>1. call' = [call EXCEPT ![w] = [c EXCEPT !.drop = @ \ {f}, !.locked = @ \cup {f}]]
      BY <2>1 DEF LockDropped, Becomes
    <3>. QED
      BY <2>1, <3>1 DEF IInv, TypeOK, Calls
  <2>2. CASE ~Doomed(c, f)
    <3>1. call' = [call EXCEPT ![w] = [c EXCEPT !.drop = @ \ {f}]]
      BY <2>2 DEF LockDropped, Becomes
    <3>. QED
      BY <2>2, <3>1 DEF IInv, TypeOK, Calls
  <2>. QED
    BY <2>1, <2>2
<1>3. ASSUME c.at = "excess"
      PROVE  Cardinality(Left(w)') <= MaxActive
  <2>1. ~Doomed(c, f) => f \notin Active(c.by)
    <3>1. SUFFICES ASSUME f \in Active(c.by) PROVE device[f] = [owner |-> c.by, active |-> TRUE]
      BY <1>3 DEF Doomed
    <3>2. device[f].owner = c.by /\ device[f].active
      BY <3>1 DEF Active, Rows
    <3>. QED
      BY <3>2 DEF IInv, TypeOK, Devices
  <2>2. Active(c.by)' = Active(c.by)
    BY <1>1, <1>2 DEF Active, Rows
  <2>. QED
    BY <1>2, <1>3, <2>1, <2>2, LeftShrinks
<1>4. ASSUME NEW v \in Workers, call'[v].at = "excess"
      PROVE  Cardinality(Left(v)') <= MaxActive
  <2>1. v = w
    BY <1>2, <1>4, OnlyOnePast DEF LockDropped, IInv, LocksOK, Past
  <2>. QED
    BY <1>2, <1>3, <1>4, <2>1
<1>. QED
  BY <1>1, <1>4, FewerActive DEF RoomLeft

LEMMA RetainKeepsLimit ==
    ASSUME IInv, TypeOK', NEW w \in Workers, Retain(w)
    PROVE  RoomLeft' /\ ActiveWithinLimit'
<1>. DEFINE c      == call[w]
            others == Active(c.by) \ {c.install}
<1>1. /\ c.at = "inactive" /\ UNCHANGED device
      /\ c.install \in Installs
  BY DEF Retain, IInv, LocksOK, CallsAreWhole, Registering, Past
<1>2. PICK keep \in SUBSET others :
          /\ Cardinality(keep) <= MaxActive - 1
          /\ call' = [call EXCEPT ![w] = [c EXCEPT !.at = "excess", !.drop = others \ keep]]
  BY DEF Retain, Becomes, Newest
<1>3. /\ call'[w].at = "excess" /\ call'[w].by = c.by /\ call'[w].install = c.install
      /\ call'[w].drop = others \ keep
      /\ \A v \in Workers \ {w} : call'[v] = call[v]
  BY <1>2 DEF IInv, TypeOK, Calls
<1>4. Left(w)' \in SUBSET (keep \cup {c.install})
  BY <1>1, <1>3 DEF Left, Active, Rows
<1>5. keep \in SUBSET Installs /\ keep \cup {c.install} \in SUBSET Installs
  BY <1>1 DEF Active, Rows
<1>6. Cardinality(keep \cup {c.install}) <= MaxActive
  <2>1. IsFiniteSet(keep) /\ Cardinality(keep) \in Nat /\ MaxActive \in Nat
    BY <1>5, Finite, PushDevicesAssumption
  <2>2. c.install \notin keep
    OBVIOUS
  <2>3. Cardinality(keep \cup {c.install}) = Cardinality(keep) + 1
    BY <2>1, <2>2, FS_AddElement
  <2>. QED
    BY <1>2, <2>1, <2>3
<1>7. ASSUME NEW v \in Workers, call'[v].at = "excess"
      PROVE  Cardinality(Left(v)') <= MaxActive
  <2>1. v = w
    BY <1>1, <1>3, <1>7, OnlyOnePast DEF IInv, LocksOK, Past
  <2>. QED
    BY <1>4, <1>5, <1>6, <2>1, Fewer
<1>8. \A p \in Participants : Active(p)' \subseteq Active(p)
  BY <1>1 DEF Active, Rows
<1>. QED
  BY <1>7, <1>8, FewerActive DEF RoomLeft

LEMMA CommitKeepsLimit ==
    ASSUME IInv, TypeOK', NEW w \in Workers, Commit(w)
    PROVE  RoomLeft' /\ ActiveWithinLimit'
<1>. DEFINE c == call[w]
<1>1. /\ c.at = "excess" /\ c.drop = {} /\ call'[w] = NoCall
      /\ \A v \in Workers \ {w} : call'[v].at = call[v].at
      /\ c.install \in Installs /\ c.by \in Participants
  BY DEF Commit, IInv, TypeOK, Calls, LocksOK, CallsAreWhole, Registering, Past
<1>2. RoomLeft'
  <2>1. ASSUME NEW v \in Workers PROVE call'[v].at # "excess"
    BY <1>1, OnlyOnePast DEF IInv, LocksOK, Past, NoCall
  <2>. QED
    BY <2>1 DEF RoomLeft
<1>3. device' = [f \in Installs |->
                    IF f = c.install THEN [owner |-> c.by, active |-> TRUE]
                    ELSE IF f \in c.locked THEN NoRow ELSE device[f]]
  BY DEF Commit
<1>4. ASSUME NEW p \in Participants PROVE Cardinality(Active(p)') <= MaxActive
  <2>1. NoRow.owner # p
    BY PushDevicesAssumption DEF NoRow
  <2>2. CASE p = c.by
    <3>1. Active(p)' \in SUBSET Left(w)
      BY <1>1, <1>3, <2>1, <2>2 DEF Active, Rows, Left
    <3>2. Left(w) \in SUBSET Installs /\ Cardinality(Left(w)) <= MaxActive
      BY <1>1 DEF IInv, RoomLeft, Left, Active, Rows
    <3>. QED
      BY <3>1, <3>2, Fewer
  <2>3. CASE p # c.by
    <3>1. Active(p)' \in SUBSET Active(p)
      BY <1>1, <1>3, <2>1, <2>3 DEF Active, Rows
    <3>2. Active(p) \in SUBSET Installs /\ Cardinality(Active(p)) <= MaxActive
      BY DEF IInv, ActiveWithinLimit, Active, Rows
    <3>. QED
      BY <3>1, <3>2, Fewer
  <2>. QED
    BY <2>2, <2>3
<1>. QED
  BY <1>2, <1>4 DEF ActiveWithinLimit

LEMMA OtherStepsAreQuiet ==
    ASSUME IInv, Next
    PROVE  \/ QuietStep
           \/ \E w \in Workers :
                  (\E f \in Installs : LockDropped(w, f)) \/ Retain(w) \/ Commit(w)
<1>1. ASSUME NEW p \in Participants, NEW f \in Installs, Unregister(p, f) PROVE QuietStep
  BY <1>1 DEF Unregister, Deactivated, QuietStep, IInv, TypeOK, Devices
<1>2. ASSUME NEW w \in Workers, NEW p \in Participants, NEW f \in Installs, Register(w, p, f)
      PROVE  QuietStep
  BY <1>2 DEF Register, Becomes, NoCall, QuietStep, IInv, TypeOK
<1>3. ASSUME NEW w \in Workers, NEW p \in Participants, LockParticipant(w, p)
      PROVE  QuietStep
  BY <1>3 DEF LockParticipant, QuietStep
<1>4. ASSUME NEW w \in Workers, NEW p \in Participants, ReadDevices(w, p) PROVE QuietStep
  BY <1>4 DEF ReadDevices, Becomes, NoCall, QuietStep, IInv, TypeOK
<1>5. ASSUME NEW w \in Workers, NEW f \in Installs, LockInvalid(w, f) PROVE QuietStep
  <2>1. /\ call[w].at = "deactivate" /\ UNCHANGED device
        /\ call' = [call EXCEPT ![w] = [call[w] EXCEPT !.drop = @ \ {f},
                                                      !.locked = @ \cup {f}]]
    BY <1>5 DEF LockInvalid, Becomes
  <2>2. call'[w].at = "deactivate" /\ \A v \in Workers \ {w} : call'[v] = call[v]
    BY <2>1 DEF IInv, TypeOK, Calls
  <2>. QED
    BY <2>1, <2>2 DEF QuietStep
<1>6. ASSUME NEW w \in Workers, ParticipantsLocked(w) PROVE QuietStep
  BY <1>6 DEF ParticipantsLocked, Becomes, QuietStep, IInv, TypeOK, Calls
<1>7. ASSUME NEW w \in Workers, Upsert(w) PROVE QuietStep
  <2>1. /\ UNCHANGED device
        /\ call' = [call EXCEPT ![w] = [call[w] EXCEPT !.at = "inactive",
                                            !.drop = Inactive(call[w].by) \ {call[w].install}]]
    BY <1>7 DEF Upsert, Becomes
  <2>2. call'[w].at = "inactive" /\ \A v \in Workers \ {w} : call'[v] = call[v]
    BY <2>1 DEF IInv, TypeOK, Calls
  <2>. QED
    BY <2>1, <2>2 DEF QuietStep
<1>8. ASSUME NEW w \in Workers, Sent(w) PROVE QuietStep
  <2>1. PICK invalid \in SUBSET call[w].drop :
            Becomes(w, IF invalid = {} THEN NoCall
                       ELSE [call[w] EXCEPT !.at = "deactivate", !.drop = invalid])
    BY <1>8 DEF Sent
  <2>2. call'[w].at \in {"idle", "deactivate"} /\ \A v \in Workers \ {w} : call'[v] = call[v]
    BY <2>1 DEF Becomes, IInv, TypeOK, Calls, NoCall
  <2>. QED
    BY <1>8, <2>2 DEF Sent, QuietStep
<1>9. ASSUME NEW w \in Workers, DeactivateInvalid(w) PROVE QuietStep
  BY <1>9 DEF DeactivateInvalid, Deactivated, Becomes, NoCall, QuietStep, IInv, TypeOK, Devices
<1>10. ASSUME NEW w \in Workers, RollBack(w) PROVE QuietStep
  BY <1>10 DEF RollBack, Becomes, NoCall, QuietStep, IInv, TypeOK
<1>. QED
  BY <1>1, <1>2, <1>3, <1>4, <1>5, <1>6, <1>7, <1>8, <1>9, <1>10 DEF Next

LEMMA LimitStep ==
    ASSUME IInv, TypeOK', [Next]_vars
    PROVE  RoomLeft' /\ ActiveWithinLimit'
<1>1. CASE UNCHANGED vars
  BY <1>1, QuietKeepsLimit DEF vars, QuietStep
<1>2. CASE Next
  BY <1>2, OtherStepsAreQuiet, QuietKeepsLimit, LockDroppedKeepsLimit, RetainKeepsLimit,
     CommitKeepsLimit
<1>. QED
  BY <1>1, <1>2

LEMMA LimitInit == Init => RoomLeft /\ ActiveWithinLimit
<1>1. SUFFICES ASSUME Init PROVE RoomLeft /\ ActiveWithinLimit
  OBVIOUS
<1>2. RoomLeft
  BY <1>1 DEF Init, NoCall, RoomLeft
<1>3. ASSUME NEW p \in Participants PROVE Active(p) = {}
  BY <1>1, PushDevicesAssumption DEF Init, NoRow, Active, Rows
<1>4. Cardinality({}) = 0 /\ MaxActive \in Nat
  BY FS_EmptySet, PushDevicesAssumption
<1>. QED
  BY <1>2, <1>3, <1>4 DEF ActiveWithinLimit

LEMMA Invariance == Spec => []IInv
<1>1. Init => IInv
  BY TypeInit, LocksInit, LimitInit DEF IInv
<1>2. IInv /\ [Next]_vars => IInv'
  <2>1. SUFFICES ASSUME IInv, [Next]_vars PROVE IInv'
    OBVIOUS
  <2>2. TypeOK' /\ LocksOK'
    BY <2>1, TypeStep, LocksStep DEF IInv
  <2>. QED
    BY <2>1, <2>2, LimitStep DEF IInv
<1>. QED
  BY <1>1, <1>2, PTL DEF Spec

-----------------------------------------------------------------------------
(* Theorems                                                                *)

\* Every variable keeps its type.
THEOREM DevicesTyped == Spec => []TypeOK
  BY Invariance, PTL DEF IInv

\* Whatever workers, installations and participants there are, no participant
\* has more active devices than MAX_PUSH_DEVICES_PER_PARTICIPANT.
THEOREM LimitHolds == Spec => []ActiveWithinLimit
  BY Invariance, PTL DEF IInv

\* Among any workers one waits for none of them.
LEMMA NoCircle == IInv => SwapsNeverDeadlock
<1>1. SUFFICES ASSUME IInv, NEW S \in SUBSET Workers, S # {}
               PROVE  \E w \in S : \A v \in S : ~WaitsFor(w, v)
  BY DEF SwapsNeverDeadlock
<1>2. CASE \E w \in S : call[w].at \notin Registering
  BY <1>2 DEF WaitsFor, Registering, Past
<1>3. CASE \A w \in S : call[w].at = "participants"
  <2>1. CASE \E h \in S, p \in Participants : participantLock[p] = h
    <3>1. PICK h \in S, p \in Participants : participantLock[p] = h
      BY <2>1
    <3>2. ASSUME NEW v \in S, NEW q \in Participants, participantLock[q] = v PROVE v = h
      <4>1. q < p \/ p < q \/ p = q
        BY PushDevicesAssumption
      <4>. QED
        BY <1>1, <3>1, <3>2, <4>1 DEF IInv, LocksOK, HoldsPrefix
    <3>3. ASSUME NEW v \in S PROVE ~WaitsFor(h, v)
      BY <1>3, <3>2, <3>3 DEF WaitsFor, NextParticipant
    <3>. QED
      BY <3>3
  <2>2. CASE ~ \E h \in S, p \in Participants : participantLock[p] = h
    BY <1>1, <1>3, <2>2 DEF WaitsFor
  <2>. QED
    BY <2>1, <2>2
<1>4. CASE /\ \A w \in S : call[w].at \in Registering
           /\ \E w \in S : call[w].at \in Past
  <2>1. PICK w \in S : call[w].at \in Past
    BY <1>4
  <2>2. ASSUME NEW v \in S, NEW f \in Installs, deviceLock[f] = v
        PROVE  v = w /\ call[w].at \in {"inactive", "excess"}
    <3>1. call[v].at \in {"inactive", "excess"}
      BY <1>1, <1>4, <2>2 DEF IInv, LocksOK, HoldsDevices, Holds, Registering, Past
    <3>2. v = w
      BY <1>1, <2>1, <3>1, OnlyOnePast DEF IInv, LocksOK, Past
    <3>. QED
      BY <3>1, <3>2
  <2>3. call[w].install \in Installs /\ call[w].drop \in SUBSET Installs
    <3>1. call[w] \in Calls
      BY <1>1, CallType DEF IInv
    <3>. QED
      BY <1>1, <2>1, <3>1, CallFields DEF IInv, LocksOK, CallsAreWhole, Registering
  <2>4. \A f \in call[w].drop : call[w].at \in {"inactive", "excess"} => deviceLock[f] # w
    BY <1>1, <2>3 DEF IInv, LocksOK, HoldsDevices, Holds
  <2>5. ASSUME NEW v \in S PROVE ~WaitsFor(w, v)
    BY <2>1, <2>2, <2>3, <2>4 DEF WaitsFor, Past
  <2>. QED
    BY <2>5
<1>. QED
  BY <1>2, <1>3, <1>4 DEF Registering

\* Registrations, swaps of installations between participants among them, do
\* not wait for each other in a circle, however many there are.
THEOREM SwapsCannotDeadlock == Spec => []SwapsNeverDeadlock
  BY Invariance, NoCircle, PTL

-----------------------------------------------------------------------------
(* What a registration removes                                             *)

\* The rows that the registration leaves to its participant: those that it
\* found inactive go, whatever becomes inactive later stays.
Kept(w) ==
    (Rows(call[w].by) \ (call[w].locked \cup IF call[w].at = "inactive" THEN call[w].drop ELSE {}))
        \cup {call[w].install}

RoomForRows ==
    \A w \in Workers :
        call[w].at \in {"inactive", "excess"} => Cardinality(Kept(w)) <= MaxActive + 1

\* It deletes rows of its participant, first inactive ones.
DropsAreOwn ==
    \A w \in Workers, f \in Installs :
        /\ call[w].at = "inactive" /\ f \in call[w].drop => f \in Inactive(call[w].by)
        /\ call[w].at \in {"inactive", "excess"} /\ f \in call[w].locked => f \in Rows(call[w].by)

\* An active device goes only for a new one, and only if all that stay are newer.
OlderGo ==
    \A w \in Workers : call[w].at = "excess" =>
        \A f \in ((call[w].drop \cup call[w].locked) \cap Active(call[w].by)) \ {call[w].install} :
            /\ call[w].install \notin Active(call[w].by)
            /\ \A g \in Active(call[w].by) \ (call[w].drop \cup call[w].locked) :
                  <<g, f>> \in newer

Removals == RoomForRows /\ DropsAreOwn /\ OlderGo /\ RowsStayFew

\* A step that chooses, deletes and registers nothing: devices keep their
\* owners, none becomes active, and those still active keep their order.
StillStep ==
    /\ \A f \in Installs :
           device'[f].owner = device[f].owner /\ (device'[f].active => device[f].active)
    /\ \A f, g \in Installs :
           <<g, f>> \in newer /\ device'[f].active /\ device'[g].active => <<g, f>> \in newer'

LEMMA StillSets ==
    ASSUME TypeOK, StillStep
    PROVE  \A p \in Participants :
               /\ Rows(p)' = Rows(p) /\ Active(p)' \subseteq Active(p)
               /\ Inactive(p) \subseteq Inactive(p)'
  BY DEF StillStep, Rows, Active, Inactive

\* A participant's active devices and one more are a row more than the limit.
LEMMA OneMore ==
    ASSUME NEW S \in SUBSET Installs, NEW f \in Installs, Cardinality(S) <= MaxActive
    PROVE  Cardinality(S \cup {f}) <= MaxActive + 1
<1>1. IsFiniteSet(S) /\ Cardinality(S) \in Nat /\ MaxActive \in Nat
  BY Finite, PushDevicesAssumption
<1>. QED
  BY <1>1, FS_AddElement

LEMMA FewerRows ==
    ASSUME NEW S \in SUBSET Installs, NEW T \in SUBSET S, Cardinality(S) <= MaxActive + 1
    PROVE  Cardinality(T) <= MaxActive + 1
<1>1. Cardinality(T) <= Cardinality(S) /\ Cardinality(S) \in Nat /\ Cardinality(T) \in Nat
  BY Finite, FS_Subset
<1>. QED
  BY <1>1, PushDevicesAssumption

\* What the registration that is past the participants has in hand.
LEMMA InHand ==
    ASSUME IInv, NEW w \in Workers, call[w].at \in Past
    PROVE  /\ call[w].by \in Participants /\ call[w].install \in Installs
           /\ call[w].drop \in SUBSET Installs /\ call[w].locked \in SUBSET Installs
           /\ Kept(w) \in SUBSET Installs
  BY DEF IInv, TypeOK, Calls, LocksOK, CallsAreWhole, Registering, Past, Kept, Rows

\* A still step under which the registrations keep what they have in hand.
LEMMA StillKeepsRemovals ==
    ASSUME IInv, Removals, TypeOK', StillStep,
           \A w \in Workers : call'[w] = call[w] \/ call'[w].at \notin {"inactive", "excess"}
    PROVE  Removals'
<1>1. \A p \in Participants :
          /\ Rows(p)' = Rows(p) /\ Active(p)' \subseteq Active(p)
          /\ Inactive(p) \subseteq Inactive(p)'
  BY StillSets DEF IInv
<1>2. RowsStayFew'
  BY <1>1 DEF Removals, RowsStayFew
<1>3. ASSUME NEW w \in Workers, call'[w].at \in {"inactive", "excess"}
      PROVE  call'[w] = call[w] /\ call[w].by \in Participants
  BY <1>3, InHand DEF Past
<1>4. RoomForRows'
  BY <1>1, <1>3 DEF Removals, RoomForRows, Kept
<1>5. DropsAreOwn'
  BY <1>1, <1>3 DEF Removals, DropsAreOwn
<1>6. OlderGo'
  <2> SUFFICES ASSUME NEW w \in Workers, call'[w].at = "excess",
                      NEW f \in ((call'[w].drop \cup call'[w].locked) \cap Active(call[w].by)')
                                    \ {call'[w].install}
               PROVE  /\ call'[w].install \notin Active(call[w].by)'
                      /\ \A g \in Active(call[w].by)' \ (call'[w].drop \cup call'[w].locked) :
                            <<g, f>> \in newer'
    BY <1>3 DEF OlderGo
  <2>1. /\ call[w].at = "excess" /\ call'[w] = call[w] /\ call[w].by \in Participants
        /\ Active(call[w].by)' \subseteq Active(call[w].by)
    BY <1>1, <1>3
  <2>2. /\ call[w].install \notin Active(call[w].by)
        /\ \A g \in Active(call[w].by) \ (call[w].drop \cup call[w].locked) : <<g, f>> \in newer
    BY <2>1 DEF Removals, OlderGo
  <2>3. \A g \in Active(call[w].by)' : g \in Installs /\ device'[g].active
    BY DEF Active, Rows
  <2>. QED
    BY <2>1, <2>2, <2>3 DEF StillStep
<1>. QED
  BY <1>2, <1>4, <1>5, <1>6 DEF Removals

\* Only the registration past the participants has rows in hand.
LEMMA OthersIdle ==
    ASSUME IInv, NEW w \in Workers, call[w].at \in Past,
           \A v \in Workers \ {w} : call'[v].at = call[v].at,
           NEW v \in Workers, call'[v].at \in Past
    PROVE  v = w
  BY OnlyOnePast DEF IInv, LocksOK

LEMMA UpsertKeepsRemovals ==
    ASSUME IInv, Removals, NEW w \in Workers, Upsert(w)
    PROVE  Removals'
<1>. DEFINE c == call[w]
            p == c.by
<1>1. /\ c.at = "upsert" /\ UNCHANGED <<device, newer>>
      /\ call'[w].at = "inactive" /\ call'[w].by = p /\ call'[w].install = c.install
      /\ call'[w].drop = Inactive(p) \ {c.install} /\ call'[w].locked = c.locked
      /\ \A v \in Workers \ {w} : call'[v] = call[v]
  <2>1. /\ c.at = "upsert" /\ UNCHANGED <<device, newer>>
        /\ call' = [call EXCEPT ![w] = [c EXCEPT !.at = "inactive",
                                                 !.drop = Inactive(p) \ {c.install}]]
    BY DEF Upsert, Becomes
  <2>. QED
    BY <2>1 DEF IInv, TypeOK, Calls
<1>2. p \in Participants /\ c.install \in Installs /\ c.locked = {}
  <2>1. \A f \in c.locked : f \in Installs /\ deviceLock[f] = w
    BY <1>1, InHand DEF IInv, LocksOK, HoldsDevices, Holds, Past
  <2>2. \A f \in Installs : deviceLock[f] # w
    BY <1>1 DEF IInv, LocksOK, HoldsDevices, Holds
  <2>. QED
    BY <1>1, <2>1, <2>2, InHand DEF Past
<1>3. \A q \in Participants : Rows(q)' = Rows(q) /\ Active(q)' = Active(q) /\ Inactive(q)' = Inactive(q)
  BY <1>1 DEF Rows, Active, Inactive
<1>4. \A v \in Workers : call'[v].at \in {"inactive", "excess"} => v = w
  BY <1>1, OthersIdle DEF Past
<1>5. Cardinality(Kept(w)') <= MaxActive + 1
  <2>1. Active(p) \in SUBSET Installs /\ Cardinality(Active(p)) <= MaxActive
    BY <1>2 DEF IInv, ActiveWithinLimit, Active, Rows
  <2>2. Active(p) \cup {c.install} \in SUBSET Installs
    BY <1>2, <2>1
  <2>3. Kept(w)' \in SUBSET (Active(p) \cup {c.install})
    BY <1>1, <1>2, <1>3 DEF Kept, Inactive
  <2>. QED
    BY <1>2, <2>1, <2>2, <2>3, OneMore, FewerRows
<1>6. RoomForRows'
  BY <1>4, <1>5 DEF RoomForRows
<1>7. DropsAreOwn'
  BY <1>1, <1>2, <1>3, <1>4 DEF DropsAreOwn
<1>8. OlderGo'
  BY <1>1, <1>4 DEF OlderGo
<1>9. RowsStayFew'
  BY <1>3 DEF Removals, RowsStayFew
<1>. QED
  BY <1>6, <1>7, <1>8, <1>9 DEF Removals

LEMMA LockDroppedKeepsRemovals ==
    ASSUME IInv, Removals, NEW w \in Workers, NEW f \in Installs, LockDropped(w, f)
    PROVE  Removals'
<1>. DEFINE c == call[w]
            p == c.by
<1>1. /\ c.at \in {"inactive", "excess"} /\ f \in c.drop /\ UNCHANGED <<device, newer>>
      /\ call'[w].at = c.at /\ call'[w].by = p /\ call'[w].install = c.install
      /\ call'[w].drop = c.drop \ {f}
      /\ call'[w].locked = IF Doomed(c, f) THEN c.locked \cup {f} ELSE c.locked
      /\ \A v \in Workers \ {w} : call'[v] = call[v]
  <2>1. CASE Doomed(c, f)
    <3>1. call' = [call EXCEPT ![w] = [c EXCEPT !.drop = @ \ {f}, !.locked = @ \cup {f}]]
      BY <2>1 DEF LockDropped, Becomes
    <3>. QED
      BY <2>1, <3>1 DEF LockDropped, IInv, TypeOK, Calls
  <2>2. CASE ~Doomed(c, f)
    <3>1. call' = [call EXCEPT ![w] = [c EXCEPT !.drop = @ \ {f}]]
      BY <2>2 DEF LockDropped, Becomes
    <3>. QED
      BY <2>2, <3>1 DEF LockDropped, IInv, TypeOK, Calls
  <2>. QED
    BY <2>1, <2>2
<1>2. /\ p \in Participants /\ c.install \in Installs /\ device[f] \in Devices
      /\ c.drop \in SUBSET Installs /\ c.locked \in SUBSET Installs /\ Kept(w) \in SUBSET Installs
  BY <1>1, InHand DEF Past, IInv, TypeOK
<1>3. \A q \in Participants : Rows(q)' = Rows(q) /\ Active(q)' = Active(q) /\ Inactive(q)' = Inactive(q)
  BY <1>1 DEF Rows, Active, Inactive
<1>4. \A v \in Workers : call'[v].at \in {"inactive", "excess"} => v = w
  BY <1>1, OthersIdle DEF Past
<1>5. /\ Doomed(c, f) => f \in Rows(p)
      /\ c.at = "inactive" => Doomed(c, f)
      /\ c.at = "excess" /\ ~Doomed(c, f) => f \notin Active(p)
  <2>1. Doomed(c, f) <=> f \in Rows(p) /\ (device[f].active <=> c.at = "excess")
    BY <1>2 DEF Doomed, Rows, Devices
  <2>. QED
    BY <1>1, <2>1 DEF Removals, DropsAreOwn, Inactive, Active
<1>6. RoomForRows'
  <2>1. Kept(w)' \in SUBSET Kept(w)
    BY <1>1, <1>2, <1>3, <1>5 DEF Kept
  <2>. QED
    BY <1>1, <1>2, <1>4, <2>1, FewerRows DEF Removals, RoomForRows
<1>7. DropsAreOwn'
  BY <1>1, <1>2, <1>3, <1>4, <1>5 DEF Removals, DropsAreOwn
<1>8. OlderGo'
  <2>1. CASE c.at = "excess"
    <3>1. (call'[w].drop \cup call'[w].locked) \cap Active(p) = (c.drop \cup c.locked) \cap Active(p)
      BY <1>1, <1>5, <2>1
    <3>2. Active(p) \ (call'[w].drop \cup call'[w].locked) = Active(p) \ (c.drop \cup c.locked)
      BY <3>1
    <3>. QED
      BY <1>1, <1>2, <1>3, <1>4, <2>1, <3>1, <3>2 DEF Removals, OlderGo
  <2>2. CASE c.at # "excess"
    BY <1>1, <1>4, <2>2 DEF OlderGo
  <2>. QED
    BY <2>1, <2>2
<1>9. RowsStayFew'
  BY <1>3 DEF Removals, RowsStayFew
<1>. QED
  BY <1>6, <1>7, <1>8, <1>9 DEF Removals

LEMMA RetainKeepsRemovals ==
    ASSUME IInv, Removals, NEW w \in Workers, Retain(w)
    PROVE  Removals'
<1>. DEFINE c      == call[w]
            p      == c.by
            others == Active(p) \ {c.install}
<1>1. PICK keep \in SUBSET others :
          /\ Newest(MaxActive - 1, others, keep)
          /\ call' = [call EXCEPT ![w] = [c EXCEPT !.at = "excess", !.drop = others \ keep]]
  BY DEF Retain, Becomes
<1>2. /\ c.at = "inactive" /\ c.drop = {} /\ UNCHANGED <<device, newer>>
      /\ call'[w].at = "excess" /\ call'[w].by = p /\ call'[w].install = c.install
      /\ call'[w].drop = others \ keep /\ call'[w].locked = c.locked
      /\ \A v \in Workers \ {w} : call'[v] = call[v]
  BY <1>1 DEF Retain, IInv, TypeOK, Calls
<1>3. /\ p \in Participants /\ c.install \in Installs
      /\ c.locked \in SUBSET Installs /\ Kept(w) \in SUBSET Installs
  BY <1>2, InHand DEF Past
<1>4. \A q \in Participants : Rows(q)' = Rows(q) /\ Active(q)' = Active(q) /\ Inactive(q)' = Inactive(q)
  BY <1>2 DEF Rows, Active, Inactive
<1>5. \A v \in Workers : call'[v].at \in {"inactive", "excess"} => v = w
  BY <1>2, OthersIdle DEF Past
<1>6. RoomForRows'
  <2>1. Kept(w)' = Kept(w)
    BY <1>2, <1>3, <1>4 DEF Kept
  <2>. QED
    BY <1>2, <1>5, <2>1 DEF Removals, RoomForRows
<1>7. DropsAreOwn'
  BY <1>2, <1>3, <1>4, <1>5 DEF Removals, DropsAreOwn
<1>8. OlderGo'
  <2>1. \A f \in c.locked : f \in Active(p) => f = c.install
    BY <1>2, <1>3 DEF IInv, LocksOK, HoldsDevices, Holds, Active
  <2>2. ASSUME others \ keep # {}
        PROVE  c.install \notin Active(p)
    <3>1. SUFFICES ASSUME c.install \in Active(p) PROVE FALSE
      OBVIOUS
    <3>2. keep # others /\ Cardinality(keep) = MaxActive - 1
      BY <1>1, <2>2 DEF Newest
    <3>3. others \in SUBSET Installs /\ Active(p) \in SUBSET Installs
      BY DEF Active, Rows
    <3>4. /\ IsFiniteSet(others) /\ Cardinality(others) \in Nat /\ Cardinality(keep) \in Nat
          /\ Cardinality(keep) <= Cardinality(others) /\ Cardinality(keep) # Cardinality(others)
      BY <3>2, <3>3, Finite, FS_Subset
    <3>5. Active(p) = others \cup {c.install} /\ c.install \notin others
      BY <3>1
    <3>6. Cardinality(Active(p)) = Cardinality(others) + 1
      <4>1. PICK T : T = others
        OBVIOUS
      <4>2. Cardinality(T \cup {c.install}) = Cardinality(T) + 1
        BY <3>4, <3>5, <4>1, FS_AddElement
      <4>. QED
        BY <3>5, <4>1, <4>2
    <3>7. Cardinality(Active(p)) <= MaxActive /\ MaxActive \in Nat
      BY <1>3, PushDevicesAssumption DEF IInv, ActiveWithinLimit
    <3>. QED
      BY <3>2, <3>4, <3>6, <3>7
  <2>3. ASSUME NEW f \in ((call'[w].drop \cup call'[w].locked) \cap Active(p)) \ {c.install}
        PROVE  /\ c.install \notin Active(p)
               /\ \A g \in Active(p) \ (call'[w].drop \cup call'[w].locked) : <<g, f>> \in newer
    <3>1. f \in others \ keep
      BY <1>2, <2>1, <2>3
    <3>2. c.install \notin Active(p)
      BY <2>2, <3>1
    <3>3. \A g \in Active(p) \ (call'[w].drop \cup call'[w].locked) : g \in keep
      BY <1>2, <3>2
    <3>. QED
      BY <1>1, <3>1, <3>2, <3>3 DEF Newest
  <2>. QED
    BY <1>2, <1>3, <1>4, <1>5, <2>3 DEF OlderGo
<1>9. RowsStayFew'
  BY <1>4 DEF Removals, RowsStayFew
<1>. QED
  BY <1>6, <1>7, <1>8, <1>9 DEF Removals

LEMMA CommitKeepsRemovals ==
    ASSUME IInv, Removals, NEW w \in Workers, Commit(w)
    PROVE  Removals'
<1>. DEFINE c == call[w]
            p == c.by
<1>1. /\ c.at = "excess" /\ c.drop = {} /\ call'[w] = NoCall
      /\ \A v \in Workers \ {w} : call'[v].at = call[v].at
  BY DEF Commit, IInv, TypeOK, Calls
<1>2. /\ p \in Participants /\ c.install \in Installs
      /\ c.locked \in SUBSET Installs /\ Kept(w) \in SUBSET Installs
  BY <1>1, InHand DEF Past
<1>3. \A v \in Workers : call'[v].at \notin {"inactive", "excess"}
  BY <1>1, OthersIdle DEF Past, NoCall
<1>4. ASSUME NEW q \in Participants PROVE Cardinality(Rows(q)') <= MaxActive + 1
  <2>1. NoRow.owner # q
    BY PushDevicesAssumption DEF NoRow
  <2>2. device' = [f \in Installs |->
                      IF f = c.install THEN [owner |-> p, active |-> TRUE]
                      ELSE IF f \in c.locked THEN NoRow ELSE device[f]]
    BY DEF Commit
  <2>3. CASE q = p
    <3>1. Rows(q)' \in SUBSET Kept(w)
      BY <1>1, <2>1, <2>2, <2>3 DEF Rows, Kept
    <3>. QED
      BY <1>1, <1>2, <3>1, FewerRows DEF Removals, RoomForRows
  <2>4. CASE q # p
    <3>1. Rows(q)' \in SUBSET Rows(q) /\ Rows(q) \in SUBSET Installs
      BY <2>1, <2>2, <2>4 DEF Rows
    <3>. QED
      BY <3>1, FewerRows DEF Removals, RowsStayFew
  <2>. QED
    BY <2>3, <2>4
<1>. QED
  BY <1>3, <1>4 DEF Removals, RoomForRows, DropsAreOwn, OlderGo, RowsStayFew

LEMMA OtherStepsAreStill ==
    ASSUME IInv, Next
    PROVE  \/ /\ StillStep
              /\ \A w \in Workers : call'[w] = call[w] \/ call'[w].at \notin {"inactive", "excess"}
           \/ \E w \in Workers :
                  (\E f \in Installs : LockDropped(w, f)) \/ Upsert(w) \/ Retain(w) \/ Commit(w)
<1>. DEFINE Quiet ==
                /\ StillStep
                /\ \A w \in Workers :
                       call'[w] = call[w] \/ call'[w].at \notin {"inactive", "excess"}
<1>1. ASSUME NEW S \in SUBSET Installs, Deactivated(S) PROVE StillStep
  <2>1. \A f \in Installs :
            /\ device'[f].owner = device[f].owner
            /\ device'[f].active => device[f].active /\ f \notin S
    BY <1>1 DEF Deactivated, IInv, TypeOK, Devices
  <2>2. newer' = Touched(S)
    BY <1>1 DEF Deactivated
  <2>. QED
    BY <2>1, <2>2 DEF StillStep, Touched
<1>2. ASSUME UNCHANGED <<device, newer>> PROVE StillStep
  BY <1>2 DEF StillStep
<1>3. ASSUME NEW p \in Participants, NEW f \in Installs, Unregister(p, f) PROVE Quiet
  BY <1>1, <1>3 DEF Unregister
<1>4. ASSUME NEW w \in Workers, NEW p \in Participants, NEW f \in Installs, Register(w, p, f)
      PROVE  Quiet
  BY <1>2, <1>4 DEF Register, Becomes, NoCall, IInv, TypeOK
<1>5. ASSUME NEW w \in Workers, NEW p \in Participants, LockParticipant(w, p) PROVE Quiet
  BY <1>2, <1>5 DEF LockParticipant
<1>6. ASSUME NEW w \in Workers, NEW p \in Participants, ReadDevices(w, p) PROVE Quiet
  BY <1>2, <1>6 DEF ReadDevices, Becomes, NoCall, IInv, TypeOK
<1>7. ASSUME NEW w \in Workers, NEW f \in Installs, LockInvalid(w, f) PROVE Quiet
  <2>1. /\ call[w].at = "deactivate" /\ UNCHANGED <<device, newer>>
        /\ call' = [call EXCEPT ![w] = [call[w] EXCEPT !.drop = @ \ {f},
                                                      !.locked = @ \cup {f}]]
    BY <1>7 DEF LockInvalid, Becomes
  <2>2. call'[w].at = "deactivate" /\ \A v \in Workers \ {w} : call'[v] = call[v]
    BY <2>1 DEF IInv, TypeOK, Calls
  <2>. QED
    BY <1>2, <2>1, <2>2
<1>8. ASSUME NEW w \in Workers, ParticipantsLocked(w) PROVE Quiet
  BY <1>2, <1>8 DEF ParticipantsLocked, Becomes, IInv, TypeOK, Calls
<1>9. ASSUME NEW w \in Workers, Sent(w) PROVE Quiet
  <2>1. PICK invalid \in SUBSET call[w].drop :
            Becomes(w, IF invalid = {} THEN NoCall
                       ELSE [call[w] EXCEPT !.at = "deactivate", !.drop = invalid])
    BY <1>9 DEF Sent
  <2>2. call'[w].at \in {"idle", "deactivate"} /\ \A v \in Workers \ {w} : call'[v] = call[v]
    BY <2>1 DEF Becomes, IInv, TypeOK, Calls, NoCall
  <2>. QED
    BY <1>2, <1>9, <2>2 DEF Sent
<1>10. ASSUME NEW w \in Workers, DeactivateInvalid(w) PROVE Quiet
  <2>1. call[w].locked \in SUBSET Installs
    BY DEF IInv, TypeOK, Calls
  <2>. QED
    BY <1>1, <1>10, <2>1 DEF DeactivateInvalid, Becomes, NoCall, IInv, TypeOK
<1>11. ASSUME NEW w \in Workers, RollBack(w) PROVE Quiet
  BY <1>2, <1>11 DEF RollBack, Becomes, NoCall, IInv, TypeOK
<1>. QED
  BY <1>3, <1>4, <1>5, <1>6, <1>7, <1>8, <1>9, <1>10, <1>11 DEF Next

LEMMA RemovalsStep == IInv /\ TypeOK' /\ Removals /\ [Next]_vars => Removals'
<1>1. SUFFICES ASSUME IInv, TypeOK', Removals, [Next]_vars PROVE Removals'
  OBVIOUS
<1>2. CASE UNCHANGED vars
  BY <1>1, <1>2, StillKeepsRemovals DEF vars, StillStep
<1>3. CASE Next
  BY <1>1, <1>3, OtherStepsAreStill, StillKeepsRemovals, UpsertKeepsRemovals,
     LockDroppedKeepsRemovals, RetainKeepsRemovals, CommitKeepsRemovals
<1>. QED
  BY <1>1, <1>2, <1>3

LEMMA RemovalsInit == Init => Removals
<1>1. SUFFICES ASSUME Init PROVE Removals
  OBVIOUS
<1>2. ASSUME NEW p \in Participants PROVE Rows(p) = {}
  BY <1>1, PushDevicesAssumption DEF Init, NoRow, Rows
<1>3. Cardinality({}) = 0 /\ MaxActive \in Nat
  BY FS_EmptySet, PushDevicesAssumption
<1>. QED
  BY <1>1, <1>2, <1>3
     DEF Init, NoCall, Removals, RoomForRows, DropsAreOwn, OlderGo, RowsStayFew

LEMMA RemovalsInvariance == Spec => [](IInv /\ Removals)
<1>1. Init => IInv /\ Removals
  BY TypeInit, LocksInit, LimitInit, RemovalsInit DEF IInv
<1>2. IInv /\ Removals /\ [Next]_vars => (IInv /\ Removals)'
  <2>1. SUFFICES ASSUME IInv, Removals, [Next]_vars PROVE IInv' /\ Removals'
    OBVIOUS
  <2>2. TypeOK' /\ LocksOK'
    BY <2>1, TypeStep, LocksStep DEF IInv
  <2>3. IInv'
    BY <2>1, <2>2, LimitStep DEF IInv
  <2>. QED
    BY <2>1, <2>2, <2>3, RemovalsStep
<1>. QED
  BY <1>1, <1>2, PTL DEF Spec

\* Rows of inactive devices do not pile up: however many unregistrations and
\* deactivations race register_push_device, it leaves at most one row more
\* than the limit on active devices.
THEOREM RowsAreBounded == Spec => []RowsStayFew
  BY RemovalsInvariance, PTL DEF Removals

LEMMA CommitSparesNewer ==
    ASSUME IInv, Removals, NEW w \in Workers, Commit(w),
           NEW p \in Participants, NEW f \in Active(p), NEW g \in Active(p),
           device'[f] = NoRow, device'[g] = device[g]
    PROVE  <<g, f>> \in newer
<1>. DEFINE c == call[w]
<1>1. /\ c.at = "excess" /\ c.drop = {} /\ c.by \in Participants /\ c.install \in Installs
      /\ f \in Installs /\ g \in Installs /\ device[f].owner = p /\ device[g].owner = p
      /\ device' = [h \in Installs |->
                       IF h = c.install THEN [owner |-> c.by, active |-> TRUE]
                       ELSE IF h \in c.locked THEN NoRow ELSE device[h]]
  BY InHand DEF Commit, Past, Active, Rows
<1>2. NoRow.owner # p /\ NoRow.owner # c.by
  BY <1>1, PushDevicesAssumption DEF NoRow
<1>3. f # c.install /\ f \in c.locked /\ p = c.by
  <2>1. f # c.install
    BY <1>1, <1>2
  <2>2. f \in c.locked
    BY <1>1, <1>2, <2>1
  <2>3. device[f].owner = c.by
    BY <1>1, <2>2 DEF Removals, DropsAreOwn, Rows
  <2>. QED
    BY <1>1, <2>1, <2>2, <2>3
<1>4. /\ c.install \notin Active(p)
      /\ \A h \in Active(p) \ (c.drop \cup c.locked) : <<h, f>> \in newer
  BY <1>1, <1>3 DEF Removals, OlderGo
<1>5. g \notin c.locked
  BY <1>1, <1>2, <1>4
<1>. QED
  BY <1>1, <1>4, <1>5

\* A registration that makes room deletes older active devices than those it
\* keeps, whatever is unregistered or deactivated while it chooses.
THEOREM NewestAreKept == Spec => NewestStay
<1>1. IInv /\ Removals /\ [Next]_vars =>
          [\A p \in Participants : \A f, g \in Active(p) :
              device'[f] = NoRow /\ device'[g] = device[g] => <<g, f>> \in newer]_vars
  <2> SUFFICES ASSUME IInv, Removals, Next,
                      NEW p \in Participants, NEW f \in Active(p), NEW g \in Active(p),
                      device'[f] = NoRow, device'[g] = device[g]
               PROVE  <<g, f>> \in newer
    OBVIOUS
  <2>1. f \in Installs /\ device[f].owner = p /\ NoRow.owner # p
    BY PushDevicesAssumption DEF Active, Rows, NoRow
  <2>2. ~StillStep
    BY <2>1 DEF StillStep
  <2>3. PICK w \in Workers :
            (\E h \in Installs : LockDropped(w, h)) \/ Upsert(w) \/ Retain(w) \/ Commit(w)
    BY <2>2, OtherStepsAreStill
  <2>4. device' # device
    BY <2>1
  <2>5. Commit(w)
    BY <2>3, <2>4 DEF LockDropped, Upsert, Retain
  <2>. QED
    BY <2>5, CommitSparesNewer
<1>. QED
  BY <1>1, RemovalsInvariance, PTL DEF Spec, NewestStay
=============================================================================
