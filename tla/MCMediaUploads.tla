-------------------------- MODULE MCMediaUploads ---------------------------
(* Small instances of MediaUploads for TLC.                                *)
EXTENDS MediaUploads, TLC

Interchangeable == Permutations(Workers) \cup Permutations(Tokens)
=============================================================================
