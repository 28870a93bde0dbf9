---------------------------- MODULE MediaPromise ----------------------------
(***************************************************************************)
(* What a private media upload promises its participants, without leases,  *)
(* tokens, staging keys or workers: an upload is opened, accepted with its *)
(* bytes, used at most once, and closed for good; the bytes of an accepted *)
(* upload stay until it closes, and its record outlives them.              *)
(***************************************************************************)
CONSTANTS Uploads, Diary

VARIABLES
    phase,  \* where each upload is in its life
    kept    \* the uploads whose accepted bytes are in the bucket

promise == <<phase, kept>>

Init ==
    /\ phase = [u \in Uploads |-> "absent"]
    /\ kept = {}

Move(u, from, to) ==
    /\ phase[u] \in from
    /\ phase' = [phase EXCEPT ![u] = to]

Open(u) == Move(u, {"absent"}, "open") /\ UNCHANGED kept

Accept(u) == Move(u, {"open"}, "usable") /\ kept' = kept \cup {u}

Use(u) == Move(u, {"usable"}, "used") /\ UNCHANGED kept

\* Media of a score change or of a comment is never taken back.
Close(u) ==
    /\ Move(u, {"open", "usable"} \cup (IF u \in Diary THEN {"used"} ELSE {}), "closing")
    /\ UNCHANGED kept

DropBytes(u) ==
    /\ phase[u] = "closing"
    /\ kept' = kept \ {u}
    /\ UNCHANGED phase

\* The record goes last: no accepted bytes are left without one.
Erase(u) ==
    /\ u \notin kept
    /\ Move(u, {"open", "closing"}, "gone")
    /\ UNCHANGED kept

Next == \E u \in Uploads : \/ Open(u) \/ Accept(u) \/ Use(u)
                           \/ Close(u) \/ DropBytes(u) \/ Erase(u)

Spec == Init /\ [][Next]_promise
=============================================================================
