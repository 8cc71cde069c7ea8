------------------------ MODULE MCComponentsResolver ------------------------
(* Constants for model-checking ComponentsResolver. *)
EXTENDS ComponentsResolver, TLC

MCCounts == 0 .. Wrap - 1
Tasks == Permutations(Task)
=============================================================================
