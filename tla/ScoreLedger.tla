---------------------------- MODULE ScoreLedger -----------------------------
(***************************************************************************)
(* What the scores promise, without requests, locks or transactions: each  *)
(* participant has one ledger, which only grows, one whole entry at a      *)
(* time, and whose last result is the score the other one is shown.        *)
(***************************************************************************)
EXTENDS Integers, Sequences

CONSTANTS Participants, MaxScore

VARIABLES
    score,   \* the score each participant gives
    ledger   \* the entries of each participant, oldest first

Init ==
    /\ score = [p \in Participants |-> 0]
    /\ ledger = [p \in Participants |-> <<>>]

Enter(p, result) ==
    /\ result # score[p]
    /\ score' = [score EXCEPT ![p] = result]
    /\ ledger' = [ledger EXCEPT ![p] =
                      Append(@, [delta |-> result - score[p], result |-> result])]

Next == \E p \in Participants, result \in 0 .. MaxScore : Enter(p, result)

Spec == Init /\ [][Next]_<<score, ledger>>
=============================================================================
