----------------------------- MODULE MCScores -------------------------------
(* Small instances of Scores for TLC.                                      *)
EXTENDS Scores, TLC

CONSTANTS one, two
TheOther == (one :> two) @@ (two :> one)
\* Scores share no state, so one of the two writing changes is enough.
Once == (one :> 1) @@ (two :> 0)
\* Two comments by the same participant may take their uploads in a circle.
Twice == (one :> 0) @@ (two :> 2)

\* Who uploads what: two pictures for a comment, then an image for the score.
Uploader3 == (1 :> two) @@ (2 :> two) @@ (3 :> one)
Purpose3  == (1 :> "comment") @@ (2 :> "comment") @@ (3 :> "score")

\* What they send: nothing or the image from one; one picture or both, in the
\* opposite of the order they start in, from two.
OneOrBoth == (one :> {<<>>, <<3>>}) @@ (two :> {<<1>>, <<2, 1>>})
=============================================================================
