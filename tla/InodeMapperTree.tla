-------------------------- MODULE InodeMapperTree --------------------------
(***************************************************************************)
(* InodeMapper as a tree of names: a node is where the inode table says,   *)
(* and the numbers below next_inode are those ever given.  Data and the    *)
(* loop that is running are not part of the tree.                          *)
(***************************************************************************)
EXTENDS InodeMapper

Places ==
  [i \in Present(map) \ {Root} |->
     <<map.inodes[i].parent, map.inodes[i].name>>]

Names == INSTANCE Namespace WITH Node <- Inode, at <- Places,
                                 used <- Root + 1 .. map.next_inode - 1

(* Every call of an owner that never renames, and every insertion inside a
   batch, makes at most one node at a free place with a new number, or
   removes a node with all that is below it, and disturbs nothing else. *)
MapperIsATree == Names!Spec
=============================================================================
