--------------------------- MODULE MCProvisioning ---------------------------
(* Small instances of Provisioning for TLC.                                *)
EXTENDS Provisioning, TLC

Env(a, b) == [name |-> <<a, b>>, pin |-> <<"0000", "1111">>]
AsNow     == Env("kim", "lee")
Swapped   == Env("lee", "kim")
Empty     == Env("", "kim")
NowOrSwapped == {AsNow, Swapped, Empty}

\* Databases to start from: none, as asked for, with names and user names of
\* before, with a score that is missing, with half a setup, and with a reserved
\* user name in other hands.
Row(n, name) == [username |-> n, first |-> name, allowed |-> TRUE,
                 pin |-> IF n = 1 THEN "0000" ELSE "1111", current |-> TRUE]
People   == 1 :> [user |-> 1, name |-> "kim"] @@ 2 :> [user |-> 2, name |-> "lee"]
Matching == [user |-> 1 :> Row(1, "kim") @@ 2 :> Row(2, "lee"), participant |-> People,
             score |-> <<0, 0>>]
Old      == [Matching EXCEPT !.user[1].username = 0, !.user[1].current = FALSE,
                             !.user[2].allowed = FALSE, !.participant[1].name = "kimm"]
OneScore == [Matching EXCEPT !.score = 1 :> 0]
Half     == [Matching EXCEPT !.participant = 1 :> People[1], !.score = NoRow]
Foreign  == [Old EXCEPT !.user = @ @@ 3 :> Row(1, "kim")]
AllSetups == {NoRows, Matching, Old, OneScore, Half, Foreign}

Alike == Permutations(Runs)
=============================================================================
