------------------------------ MODULE Namespace ------------------------------
(***************************************************************************)
(* What a tree of names promises, whoever keeps it: every node but the     *)
(* root has one place, a name in a directory; no place holds two nodes; a  *)
(* number is given to one node only; what is removed or replaced leaves    *)
(* with everything below it; and nothing else ever moves.                  *)
(*                                                                         *)
(* InodeMapper (src/src/inode_mapper.rs) and the in-memory example         *)
(* (src/examples/in_memory_fs/src/filesystem.rs) are shown to implement it *)
(***************************************************************************)
EXTENDS Integers, Functions

CONSTANTS Node,  \* numbers of the nodes other than the root
          Root,
          Name

VARIABLES at,    \* node -> <<directory, name>>, for every node of the tree
          used   \* numbers ever given to a node

tree == <<at, used>>

Tree == {Root} \cup DOMAIN at

(* The nodes of T at or below i: the smallest set with i that holds every
   node whose directory it holds. *)
Below(T, i) ==
  {j \in DOMAIN T :
     \A S \in SUBSET DOMAIN T :
       (i \in S /\ \A k \in DOMAIN T : T[k][1] \in S => k \in S) => j \in S}

Occupant(d, n) == {i \in DOMAIN at : at[i] = <<d, n>>}

Init == at = [i \in {} |-> <<Root, Root>>] /\ used = {}

Create(i, d, n) ==
  /\ i \notin used
  /\ d \in Tree
  /\ Occupant(d, n) = {}
  /\ at' = [j \in DOMAIN at \cup {i} |-> IF j = i THEN <<d, n>> ELSE at[j]]
  /\ used' = used \cup {i}

Remove(i) ==
  /\ i \in DOMAIN at
  /\ UNCHANGED used
  /\ at' = Restrict(at, DOMAIN at \ Below(at, i))

(* No node is moved below itself or onto a directory it is in. *)
Move(i, d, n) ==
  LET gone == UNION {Below(at, j) : j \in Occupant(d, n)}
  IN  /\ UNCHANGED used
      /\ i \in DOMAIN at \ gone
      /\ at' = [j \in DOMAIN at \ gone |-> IF j = i THEN <<d, n>> ELSE at[j]]
      /\ d \in Tree \ Below(at, i)

(* Every step moves a node in or out or to another place. *)
Next ==
  /\ at' # at
  /\ \/ \E i \in Node, d \in Tree, n \in Name : Create(i, d, n)
     \/ \E i \in DOMAIN at : Remove(i)
     \/ \E i \in DOMAIN at, d \in Tree, n \in Name : Move(i, d, n)

Spec == Init /\ [][Next]_tree
==============================================================================
