---------------------------- MODULE MCInodeMapper ----------------------------
(* Constants for model-checking InodeMapper. *)
EXTENDS InodeMapperTree

CONSTANTS a, b, x, y

E(path, d) == [path |-> path, data |-> d]

(* insert_children of none, one and two names; batches with a parent listed
   after its child, a missing parent, and two depths in one call. *)
MCBatches ==
  { {},
    {E(<<a>>, y)},
    {E(<<a>>, x), E(<<b>>, y)},
    {E(<<a, b>>, y), E(<<a>>, y)},
    {E(<<a, b>>, y), E(<<b>>, x)},
    {E(<<a, b, a>>, y), E(<<a, b>>, y)} }
==============================================================================
