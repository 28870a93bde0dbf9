---------------------------- MODULE MCDiaryPage -----------------------------
(* Small instances of DiaryPage for TLC.                                   *)
EXTENDS DiaryPage, TLC

\* The first page is read again after every command of its own; the second may
\* gain and lose its only entry, or go missing, by the command of another.
OnTheSecond == (1 :> 0) @@ (2 :> 1)
=============================================================================
