----------------------------- MODULE MCDiaries ------------------------------
(* Small instances of Diaries for TLC.                                     *)
EXTENDS Diaries, TLC

CONSTANTS one, two
TheOther == (one :> two) @@ (two :> one)

\* Two images of one participant, who chooses among them in every order; the
\* other one comments, and tries to edit what is not theirs.
AllByOne == [u \in 1 .. 2 |-> one]
Images   == [u \in 1 .. 2 |-> "image"]
Orders   == (one :> {<<>>, <<1>>, <<1, 2>>, <<2, 1>>}) @@ (two :> {<<>>})
Asking   == (one :> {"create", "edit", "text", "delete"}) @@ (two :> {"text", "comment"})

Interchangeable == Permutations(Workers) \cup Permutations(Entries)
=============================================================================
