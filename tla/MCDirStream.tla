----------------------------- MODULE MCDirStream -----------------------------
(* Constants for model-checking DirStream.  Directory 3 lies in directory 2;
   a listing may be empty, and may change between two reads of it.  DirRead
   uses MCListings, DirPlus MCLong; the other two are for the variants
   described in README.md. *)
EXTENDS DirStream

MCListings == (2 :> {<<>>, <<3, 4>>, <<3, 4, 5>>}) @@ (3 :> {<<6, 7, 8, 9, 10>>})
MCShrinks  == 2 :> {<<3, 4>>, <<3, 4, 5>>}
MCLong     == 3 :> {<<6, 7, 8, 9, 10>>}
MCSingle   == 2 :> {<<3>>}
=============================================================================
