--------------------------- MODULE MCPushHandoff ----------------------------
(* Small instances of PushHandoff for TLC.                                 *)
EXTENDS PushHandoff, TLC

Interchangeable == Permutations(Windows) \cup Permutations(Paths)
=============================================================================
