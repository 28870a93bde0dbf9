--------------------------- MODULE MCUploadQuota ----------------------------
(* Small instances of UploadQuota for TLC.                                 *)
EXTENDS UploadQuota, TLC

\* With two uploads and three bytes allowed, two of size 2 are refused by their
\* bytes alone, and three of size 1 by their count alone.
Sizes == [u \in 1 .. 5 |-> IF u <= 2 THEN 2 ELSE 1]

Interchangeable == Permutations(Workers)
=============================================================================
