--------------------------- MODULE MCMirrorMount ---------------------------
(* A mounted directory, a process that uses its files and one that changes *)
(* its names.                                                              *)
EXTENDS MirrorMount, TLC

MCSetAsks == {{"mode", "owner"}, {"size", "atime", "mtime"}}
Files == Permutations(File)
============================================================================
