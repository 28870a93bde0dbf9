---------------------------- MODULE PushDevices -----------------------------
(***************************************************************************)
(* The devices that receive notices: registration and its limit            *)
(* (services/push_devices.py), and what a send does to devices that        *)
(* Firebase no longer knows (notifications.py).  A registration is one     *)
(* transaction: it locks the participants, one row after the other, then   *)
(* the device, the inactive devices and those beyond the limit, each when  *)
(* it comes to it.  Unregistering and deactivating lock devices only.      *)
(***************************************************************************)
EXTENDS Naturals, FiniteSets

CONSTANTS
    Participants, \* primary keys of the participants
    Installs,     \* Firebase installation ids, unique among devices
    Workers,
    MaxActive,    \* MAX_PUSH_DEVICES_PER_PARTICIPANT
    None          \* no participant, no worker, no installation

ASSUME PushDevicesAssumption ==
    /\ Participants \subseteq Nat
    /\ IsFiniteSet(Installs)
    /\ MaxActive \in Nat \ {0}
    /\ None \notin Participants \cup Workers \cup Installs

VARIABLES
    device,          \* the PushDevice row of each installation
    newer,           \* <<f, g>>: f was updated after g (updated_at)
    participantLock, \* who holds the row lock of each participant
    deviceLock,      \* and of each device
    call             \* the registration or send each worker is in

vars == <<device, newer, participantLock, deviceLock, call>>

NoRow   == [owner |-> None, active |-> FALSE]
Devices == [owner : Participants \cup {None}, active : BOOLEAN]

\* drop: rows to be locked and deleted, or deactivated; locked: those that are.
Calls == [at : {"idle", "participants", "upsert", "inactive", "excess",
                "sending", "deactivate"},
          by : Participants \cup {None}, install : Installs \cup {None},
          drop : SUBSET Installs, locked : SUBSET Installs]

NoCall == [at |-> "idle", by |-> None, install |-> None, drop |-> {}, locked |-> {}]

TypeOK ==
    /\ device \in [Installs -> Devices]
    /\ newer \subseteq Installs \X Installs
    /\ participantLock \in [Participants -> Workers \cup {None}]
    /\ deviceLock \in [Installs -> Workers \cup {None}]
    /\ call \in [Workers -> Calls]

Init ==
    /\ device = [f \in Installs |-> NoRow]
    /\ newer = {}
    /\ participantLock = [p \in Participants |-> None]
    /\ deviceLock = [f \in Installs |-> None]
    /\ call = [w \in Workers |-> NoCall]

Rows(p)     == {f \in Installs : device[f].owner = p}
Active(p)   == {f \in Rows(p) : device[f].active}
Inactive(p) == Rows(p) \ Active(p)

\* The rows of S are the ones updated last.
Touched(S) ==
    {pair \in newer : pair[1] \notin S /\ pair[2] \notin S} \cup (S \X (Installs \ S))

Becomes(w, c) == call' = [call EXCEPT ![w] = c]

\* The end of a transaction: its worker gives its locks back.
Unlocked(lock, w) == [x \in DOMAIN lock |-> IF lock[x] = w THEN None ELSE lock[x]]

Released(w) ==
    /\ participantLock' = Unlocked(participantLock, w)
    /\ deviceLock' = Unlocked(deviceLock, w)

-----------------------------------------------------------------------------
(* Registration                                                            *)

Register(w, p, f) ==
    /\ call[w].at = "idle"
    /\ Becomes(w, [NoCall EXCEPT !.at = "participants", !.by = p, !.install = f])
    /\ UNCHANGED <<device, newer, participantLock, deviceLock>>

\* Mutant: no locking query.
NextNone(w, p) == FALSE

\* Mutant: the locking query asks for the own participant only.
NextOwn(w, p) == p = call[w].by /\ participantLock[p] # w

\* order_by("pk"): the first participant that is not locked yet.
NextParticipant(w, p) ==
    /\ participantLock[p] # w
    /\ \A q \in Participants : q < p => participantLock[q] = w

LockParticipant(w, p) ==
    /\ call[w].at = "participants"
    /\ NextParticipant(w, p)
    /\ participantLock[p] = None
    /\ participantLock' = [participantLock EXCEPT ![p] = w]
    /\ UNCHANGED <<device, newer, deviceLock, call>>

ParticipantsLocked(w) ==
    /\ call[w].at = "participants"
    /\ \A p \in Participants : ~NextParticipant(w, p)
    /\ Becomes(w, [call[w] EXCEPT !.at = "upsert"])
    /\ UNCHANGED <<device, newer, participantLock, deviceLock>>

TakesDevice(w, f) ==
    /\ deviceLock[f] = None
    /\ deviceLock' = [deviceLock EXCEPT ![f] = w]

\* Mutant: inactive devices are left.
UpsertOnly(w) ==
    /\ call[w].at = "upsert"
    /\ TakesDevice(w, call[w].install)
    /\ Becomes(w, [call[w] EXCEPT !.at = "inactive"])
    /\ UNCHANGED <<device, newer, participantLock>>

\* update_or_create; the DELETE that follows sees the inactive rows as they are.
Upsert(w) ==
    LET c == call[w] IN
    /\ c.at = "upsert"
    /\ TakesDevice(w, c.install)
    /\ Becomes(w, [c EXCEPT !.at = "inactive", !.drop = Inactive(c.by) \ {c.install}])
    /\ UNCHANGED <<device, newer, participantLock>>

\* A DELETE locks its rows one after the other, and spares what it finds changed.
Doomed(c, f) == device[f] = [owner |-> c.by, active |-> c.at = "excess"]

LockDropped(w, f) ==
    LET c == call[w] IN
    /\ c.at \in {"inactive", "excess"}
    /\ f \in c.drop
    /\ IF Doomed(c, f)
       THEN /\ TakesDevice(w, f)
            /\ Becomes(w, [c EXCEPT !.drop = @ \ {f}, !.locked = @ \cup {f}])
       ELSE /\ deviceLock[f] = None
            /\ Becomes(w, [c EXCEPT !.drop = @ \ {f}])
            /\ UNCHANGED deviceLock
    /\ UNCHANGED <<device, newer, participantLock>>

\* Mutant: order_by("updated_at").
Oldest(n, S, keep) ==
    /\ keep \subseteq S
    /\ Cardinality(keep) <= n
    /\ keep = S \/ Cardinality(keep) = n
    /\ \A f \in keep, g \in S \ keep : <<g, f>> \in newer

\* The n newest of S, or all if they are fewer.
Newest(n, S, keep) ==
    /\ keep \subseteq S
    /\ Cardinality(keep) <= n
    /\ keep = S \/ Cardinality(keep) = n
    /\ \A f \in keep, g \in S \ keep : <<f, g>> \in newer

\* The device just registered is the newest of all.
Retain(w) ==
    LET c      == call[w]
        others == Active(c.by) \ {c.install} IN
    /\ c.at = "inactive" /\ c.drop = {}
    /\ \E keep \in SUBSET others :
           /\ Newest(MaxActive - 1, others, keep)
           /\ Becomes(w, [c EXCEPT !.at = "excess", !.drop = others \ keep])
    /\ UNCHANGED <<device, newer, participantLock, deviceLock>>

\* Primary keys are not used again: a deleted row is no longer among the rows
\* that a send has read.
Commit(w) ==
    LET c == call[w] IN
    /\ c.at = "excess" /\ c.drop = {}
    /\ device' = [f \in Installs |->
                     IF f = c.install THEN [owner |-> c.by, active |-> TRUE]
                     ELSE IF f \in c.locked THEN NoRow ELSE device[f]]
    /\ newer' = Touched({c.install})
    /\ Released(w)
    /\ call' = [v \in Workers |->
                   IF v = w THEN NoCall
                   ELSE IF call[v].at \in {"sending", "deactivate"}
                        THEN [call[v] EXCEPT !.drop = @ \ c.locked] ELSE call[v]]

-----------------------------------------------------------------------------
(* Unregistering, sending, and failures                                    *)

Deactivated(S) ==
    /\ device' = [f \in Installs |->
                     IF f \in S THEN [device[f] EXCEPT !.active = FALSE] ELSE device[f]]
    /\ newer' = Touched(S)

Unregister(p, f) ==
    /\ f \in Rows(p)
    /\ deviceLock[f] = None
    /\ Deactivated({f})
    /\ UNCHANGED <<participantLock, deviceLock, call>>

ReadDevices(w, p) ==
    /\ call[w].at = "idle"
    /\ Active(p) # {}
    /\ Becomes(w, [NoCall EXCEPT !.at = "sending", !.drop = Active(p)])
    /\ UNCHANGED <<device, newer, participantLock, deviceLock>>

\* Firebase answers for each device, or not at all; some may be unregistered.
Sent(w) ==
    /\ call[w].at = "sending"
    /\ \E invalid \in SUBSET call[w].drop :
           Becomes(w, IF invalid = {} THEN NoCall
                      ELSE [call[w] EXCEPT !.at = "deactivate", !.drop = invalid])
    /\ UNCHANGED <<device, newer, participantLock, deviceLock>>

LockInvalid(w, f) ==
    /\ call[w].at = "deactivate"
    /\ f \in call[w].drop
    /\ TakesDevice(w, f)
    /\ Becomes(w, [call[w] EXCEPT !.drop = @ \ {f}, !.locked = @ \cup {f}])
    /\ UNCHANGED <<device, newer, participantLock>>

DeactivateInvalid(w) ==
    /\ call[w].at = "deactivate" /\ call[w].drop = {}
    /\ Deactivated(call[w].locked)
    /\ Released(w)
    /\ Becomes(w, NoCall)

\* The worker is killed, a statement fails, or the database takes the worker
\* out of a circle of waiting ones: the transaction is rolled back.
RollBack(w) ==
    /\ call[w].at # "idle"
    /\ Released(w)
    /\ Becomes(w, NoCall)
    /\ UNCHANGED <<device, newer>>

Next ==
    \/ \E p \in Participants, f \in Installs : Unregister(p, f)
    \/ \E w \in Workers :
           \/ \E p \in Participants :
                  \/ \E f \in Installs : Register(w, p, f)
                  \/ LockParticipant(w, p) \/ ReadDevices(w, p)
           \/ \E f \in Installs : LockDropped(w, f) \/ LockInvalid(w, f)
           \/ ParticipantsLocked(w) \/ Upsert(w) \/ Retain(w) \/ Commit(w)
           \/ Sent(w) \/ DeactivateInvalid(w) \/ RollBack(w)

Spec == Init /\ [][Next]_vars

-----------------------------------------------------------------------------
(* Properties                                                              *)

\* However registrations of both participants, reassignments, unregistrations
\* and deactivations overlap, nobody has more active devices than the limit.
ActiveWithinLimit == \A p \in Participants : Cardinality(Active(p)) <= MaxActive

\* Inactive devices do not pile up, although some become inactive after a
\* registration has looked for them: the next one finds them.
RowsStayFew == \A p \in Participants : Cardinality(Rows(p)) <= MaxActive + 1

\* A registration that has to make room removes older devices than it keeps,
\* although devices are unregistered and deactivated while it does.
NewestStay ==
    [][\A p \in Participants : \A f, g \in Active(p) :
          device'[f] = NoRow /\ device'[g] = device[g] => <<g, f>> \in newer]_vars

WaitsFor(w, v) ==
    \/ /\ call[w].at = "participants"
       /\ \E p \in Participants : NextParticipant(w, p) /\ participantLock[p] = v
    \/ call[w].at = "upsert" /\ deviceLock[call[w].install] = v
    \/ /\ call[w].at \in {"inactive", "excess"}
       /\ \E f \in call[w].drop : deviceLock[f] = v

\* Registrations never wait for each other in a circle, even when they swap
\* installations of the two participants ("cross-owner swaps cannot deadlock").
SwapsNeverDeadlock ==
    \A S \in (SUBSET Workers) \ {{}} : \E w \in S : \A v \in S : ~WaitsFor(w, v)
=============================================================================
