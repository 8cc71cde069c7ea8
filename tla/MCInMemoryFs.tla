---------------------------- MODULE MCInMemoryFs ----------------------------
(* One user, who may take the right to write from a node, two names and    *)
(* two requests at a time.                                                 *)
EXTENDS InMemoryFs, TLC

MCUser == {[uid |-> 1, gid |-> 1]}
MCMode == {All}
ReadOnly == [c \in {"owner", "group", "other"} |-> {"r", "x"}]
MCChanges == {[perm |-> ReadOnly, size |-> 0], [size |-> 1]}
AllOps == {"create", "mkdir", "rename", "rmdir", "unlink", "readdir", "setattr",
           "read", "write", "fallocate"}
Symmetry == Permutations(Task) \cup Permutations(Name)
==============================================================================
