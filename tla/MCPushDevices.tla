--------------------------- MODULE MCPushDevices ----------------------------
(* Small instances of PushDevices for TLC.                                 *)
EXTENDS PushDevices, TLC

Interchangeable == Permutations(Workers) \cup Permutations(Installs)
=============================================================================
