----------------------------- MODULE DiaryBook ------------------------------
(***************************************************************************)
(* What the shared diary promises, without requests, locks or              *)
(* transactions: a page shows exactly the files its writer chose last, a   *)
(* file is on one page at most, and a file that was taken down, or whose   *)
(* page was torn out, does not come back.                                  *)
(***************************************************************************)
EXTENDS Naturals, Sequences

CONSTANTS
    Pages,
    Files,
    Choices,  \* the lists of files a page may show
    NoPage

VARIABLES
    page,  \* the list each page shows, NoPage when there is no such page
    spent  \* the files taken down, or lost before their use

InList(m) == {m[i] : i \in 1 .. Len(m)}
Shown(p)  == IF page[p] = NoPage THEN {} ELSE InList(page[p])

Init ==
    /\ page = [p \in Pages |-> NoPage]
    /\ spent = {}

\* The files chosen for p that are new to it are on no page and were never spent.
Fresh(p, choice) ==
    \A f \in InList(choice) \ Shown(p) : f \notin spent /\ \A q \in Pages : f \notin Shown(q)

\* A page is written, or shows another list from now on.
Show(p, choice) ==
    /\ Fresh(p, choice)
    /\ page' = [page EXCEPT ![p] = choice]
    /\ spent' = spent \cup (Shown(p) \ InList(choice))

TearOut(p) ==
    /\ page[p] # NoPage
    /\ page' = [page EXCEPT ![p] = NoPage]
    /\ spent' = spent \cup Shown(p)

Lose(f) ==
    /\ \A p \in Pages : f \notin Shown(p)
    /\ spent' = spent \cup {f}
    /\ UNCHANGED page

Next ==
    \/ \E p \in Pages : TearOut(p) \/ \E choice \in Choices : Show(p, choice)
    \/ \E f \in Files : Lose(f)

Spec == Init /\ [][Next]_<<page, spent>>
=============================================================================
