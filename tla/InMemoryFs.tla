----------------------------- MODULE InMemoryFs -----------------------------
(***************************************************************************)
(* The in-memory example (src/examples/in_memory_fs/src/filesystem.rs).    *)
(*                                                                         *)
(* One mutex guards the DataBank, but a method takes it twice: access()    *)
(* checks the caller's rights and lets go, and the operation locks again.  *)
(* A request is therefore one step per access and one step for the         *)
(* operation; Task is the set of requests that may be served at once (main *)
(* mounts with one thread, the handler is Sync and allows any number).  A  *)
(* panic in the second section poisons the mutex for good.                 *)
(*                                                                         *)
(* Content is abstracted to its length, a mode to the rights it gives each *)
(* class of callers, and times are left out.                               *)
(***************************************************************************)
EXTENDS Integers, FiniteSets, Functions

CONSTANTS MaxInode,    \* bound on the numbers handed out
          Name,
          User,        \* callers: [uid, gid]
          Mode,        \* modes: [owner, group, other] -> rights
          MaxSize,     \* bound on the length of a file
          Task,
          Op,          \* the operations the callers use
          Changes,     \* what setattr asks for: field -> value
          ReadRaces    \* may a truncation meet a READ that waits?

ASSUME InMemoryFsAssumption ==
  /\ MaxInode \in Nat \ {0}
  /\ MaxSize \in Nat \ {0}
  /\ IsFiniteSet(Task)
  /\ ReadRaces \in BOOLEAN
  /\ \A a \in Changes : /\ DOMAIN a \subseteq {"perm", "uid", "gid", "size"}
                        /\ "size" \in DOMAIN a => a["size"] \in 0 .. MaxSize

VARIABLES inodes, next_inode,   \* the DataBank
          poisoned,             \* its mutex
          task                  \* Task -> the request it serves

bank == <<inodes, next_inode>>
vars == <<inodes, next_inode, poisoned, task>>

Inode == 1 .. MaxInode
ROOT_INODE == 1
Right == {"r", "w", "x"}
All == [c \in {"owner", "group", "other"} |-> Right]
Nothing == [x \in {} |-> x]
Put(f, k, v) == [x \in DOMAIN f \cup {k} |-> IF x = k THEN v ELSE f[x]]
Without(f, S) == Restrict(f, DOMAIN f \ S)

FSNode(parent, kind, perm, u) ==
  [parent |-> parent, kind |-> kind, perm |-> perm, uid |-> u.uid,
   gid |-> u.gid, size |-> 0, len |-> 0, children |-> Nothing]

(* A request names one or two directories (or one node) and one or two
   names; checks is the number of access() calls it has still to make. *)
Idle == [op |-> "idle", by |-> [uid |-> 0, gid |-> 0], ino |-> ROOT_INODE,
         name |-> "", newparent |-> ROOT_INODE, newname |-> "", offset |-> 0,
         length |-> 0, punch |-> FALSE, attrs |-> Nothing, checks |-> 0]

Init ==
  /\ inodes = Put(Nothing, ROOT_INODE,
                  FSNode(ROOT_INODE, "dir", All, [uid |-> 0, gid |-> 0]))
  /\ next_inode = ROOT_INODE + 1
  /\ poisoned = FALSE
  /\ task = [t \in Task |-> Idle]

-----------------------------------------------------------------------------
(* What the kernel sends.  It holds the directories of a request that adds,
   removes or moves names, and what that request removes or replaces, for
   itself; a listing shares its directory; write, fallocate and
   setattr hold their inode. *)
Dirs == {i \in DOMAIN inodes : inodes[i].kind = "dir"}
Target(d, n) == IF d \in Dirs /\ n \in DOMAIN inodes[d].children
                THEN {inodes[d].children[n]} ELSE {}

Holds(q) ==
  CASE q.op \in {"create", "mkdir", "setattr", "write", "fallocate"} -> {q.ino}
    [] q.op \in {"unlink", "rmdir"} -> {q.ino} \cup Target(q.ino, q.name)
    [] q.op = "rename" -> {q.ino, q.newparent} \cup Target(q.newparent, q.newname)
    [] OTHER -> {}
Shares(q) == IF q.op = "readdir" THEN {q.ino} ELSE {}

Truncates(q) == q.op = "setattr" /\ "size" \in DOMAIN q.attrs

Exclude(q, r) ==
  \/ Holds(q) \cap (Holds(r) \cup Shares(r)) # {}
  \/ q.op = "rename" /\ r.op = "rename"
  \/ ~ ReadRaces /\ Truncates(q) /\ r.op = "read"

(* access() calls of a method. *)
Checks(op) == CASE op = "rename" -> 2
                [] op = "setattr" -> 0
                [] OTHER -> 1

Ask(t, u, q) ==
  /\ q.op \in Op
  /\ \A s \in Task \ {t} : ~ Exclude(q, task[s]) /\ ~ Exclude(task[s], q)
  /\ task' = [task EXCEPT ![t] = [q EXCEPT !.by = u, !.checks = Checks(q.op)]]
  /\ UNCHANGED <<inodes, next_inode, poisoned>>

AskNew(t, u) ==
  \E d \in Dirs, n \in Name, op \in {"create", "mkdir"}, m \in Mode :
    /\ Target(d, n) = {}
    /\ next_inode + Cardinality({s \in Task : task[s].op \in {"create", "mkdir"}})
         <= MaxInode
    /\ Ask(t, u, [Idle EXCEPT !.op = op, !.ino = d, !.name = n,
                              !.attrs = [perm |-> m]])

AskName(t, u) ==
  \E d \in Dirs, n \in Name : \E c \in Target(d, n) :
    Ask(t, u, [Idle EXCEPT !.op = IF c \in Dirs THEN "rmdir" ELSE "unlink",
                           !.ino = d, !.name = n])

(* Up(i): i and the directories above it, as far as parents are there. *)
Up(i) ==
  LET up[k \in 0 .. MaxInode] ==
        IF k = 0 THEN {i}
        ELSE up[k - 1] \cup {inodes[j].parent : j \in up[k - 1] \cap DOMAIN inodes}
  IN  up[MaxInode - 1]

Attached == {i \in DOMAIN inodes : ROOT_INODE \in Up(i)}

(* rename(2) refuses to move a directory below itself or onto one it is in,
   does nothing when both names are one node, and replaces like by like.
   A process that works in a directory that was replaced carries nothing
   from there into the tree. *)
AskRename(t, u) ==
  \E d, e \in Dirs, n, m \in Name : \E c \in Target(d, n) :
    /\ c \notin Up(e)
    /\ d \in Attached <=> e \in Attached
    /\ \A r \in Target(e, m) :
         /\ r # c
         /\ r \notin Up(d)
         /\ inodes[r].kind = inodes[c].kind
    /\ Ask(t, u, [Idle EXCEPT !.op = "rename", !.ino = d, !.name = n,
                              !.newparent = e, !.newname = m])

(* On a node the kernel has a number of; a file may be gone but still open.
   A READ starts below the size the kernel knows, or at 0. *)
AskNode(t, u) ==
  \E i \in 1 .. next_inode - 1 :
    \/ \E a \in Changes :
         /\ "size" \in DOMAIN a => i \notin Dirs
         /\ Ask(t, u, [Idle EXCEPT !.op = "setattr", !.ino = i, !.attrs = a])
    \/ i \in Dirs /\ Ask(t, u, [Idle EXCEPT !.op = "readdir", !.ino = i])
    \/ i \notin Dirs /\ \E o \in 0 .. MaxSize, l \in 1 .. MaxSize :
         LET q == [Idle EXCEPT !.ino = i, !.offset = o, !.length = l]
         IN  \/ /\ i \in DOMAIN inodes => o <= inodes[i].size
                /\ l = 1
                /\ Ask(t, u, [q EXCEPT !.op = "read"])
             \/ /\ o + l <= MaxSize
                /\ \/ Ask(t, u, [q EXCEPT !.op = "write"])
                   \/ \E p \in BOOLEAN :
                        Ask(t, u, [q EXCEPT !.op = "fallocate", !.punch = p])

-----------------------------------------------------------------------------
Rights(node, u) == IF u.uid = node.uid THEN node.perm["owner"]
                   ELSE IF u.gid = node.gid THEN node.perm["group"]
                   ELSE node.perm["other"]

Mask(op) == IF op \in {"readdir", "read"} THEN {"r"} ELSE {"w"}

(* access: Err(FileNotFound), the root user, the class of the caller, and a
   directory always needs execute. *)
Allowed(i, u, mask) ==
  /\ i \in DOMAIN inodes
  /\ \/ u.uid = 0
     \/ LET rights == Rights(inodes[i], u)
        IN  mask \cup (IF i \in Dirs THEN {"x"} ELSE {}) \subseteq rights

End(t) == task' = [task EXCEPT ![t] = Idle]

(* The first section of a method, or one of the two of rename.  Without the
   right it is also the last, and so is any section that finds the mutex
   poisoned. *)
Access(t) ==
  LET q == task[t]
      i == IF q.checks = 2 \/ q.op # "rename" THEN q.ino ELSE q.newparent
  IN  /\ q.op # "idle" /\ (q.checks > 0 \/ poisoned)
      /\ IF poisoned \/ ~ Allowed(i, q.by, Mask(q.op))
         THEN End(t)
         ELSE task' = [task EXCEPT ![t].checks = @ - 1]
      /\ UNCHANGED <<inodes, next_inode, poisoned>>

(* The second section: op is being served and its rights are checked. *)
Runs(t, op) == task[t].op = op /\ task[t].checks = 0 /\ ~ poisoned /\ End(t)

Fails == UNCHANGED <<inodes, next_inode, poisoned>>
Panics == poisoned' = TRUE /\ UNCHANGED bank
Becomes(table) == inodes' = table /\ UNCHANGED <<next_inode, poisoned>>

(* Mutant: the number is given to the next node again. *)
MakeSame(t, op, kind) ==
  LET q == task[t]
  IN  /\ Runs(t, op)
      /\ q.ino \in DOMAIN inodes
      /\ inodes' = Put([inodes EXCEPT ![q.ino].children = Put(@, q.name, next_inode)],
                       next_inode, FSNode(q.ino, kind, q.attrs.perm, q.by))
      /\ UNCHANGED <<next_inode, poisoned>>

(* create and mkdir: an entry of that name is overwritten, not checked. *)
Make(t, op, kind) ==
  LET q == task[t]
  IN  /\ Runs(t, op)
      /\ IF q.ino \notin DOMAIN inodes THEN Fails
         ELSE /\ inodes' = Put([inodes EXCEPT ![q.ino].children =
                                  Put(@, q.name, next_inode)],
                               next_inode,
                               FSNode(q.ino, kind, q.attrs.perm, q.by))
              /\ next_inode' = next_inode + 1
              /\ UNCHANGED poisoned

Create(t) == Make(t, "create", "file")
Mkdir(t)  == Make(t, "mkdir", "dir")

(* The unwrap of a child that is not there. *)
Readdir(t) ==
  LET i == task[t].ino
  IN  /\ Runs(t, "readdir")
      /\ IF i \in DOMAIN inodes
            /\ \E n \in DOMAIN inodes[i].children :
                 inodes[i].children[n] \notin DOMAIN inodes
         THEN Panics ELSE Fails

(* data[offset..] panics when it starts behind the end. *)
Read(t) ==
  LET q == task[t]
  IN  /\ Runs(t, "read")
      /\ IF q.ino \in DOMAIN inodes /\ q.offset > inodes[q.ino].len
         THEN Panics ELSE Fails

Greater(a, b) == IF a > b THEN a ELSE b

(* Mutant: the attribute is set, the data is not grown. *)
ResizedShort(i, l) == [inodes EXCEPT ![i].size = l]

Resized(i, l) == [inodes EXCEPT ![i].len = l, ![i].size = l]

Write(t) ==
  LET q == task[t]
  IN  /\ Runs(t, "write")
      /\ IF q.ino \notin DOMAIN inodes THEN Fails
         ELSE Becomes(Resized(q.ino, Greater(inodes[q.ino].len, q.offset + q.length)))

(* Not a regular file, or a hole behind the end: InvalidArgument. *)
Fallocate(t) ==
  LET q == task[t]
      to == q.offset + q.length
  IN  /\ Runs(t, "fallocate")
      /\ IF q.ino \notin DOMAIN inodes THEN Fails
         ELSE IF inodes[q.ino].kind # "file" \/ (q.punch /\ to > inodes[q.ino].len)
         THEN Fails
         ELSE Becomes(Resized(q.ino, IF q.punch THEN inodes[q.ino].len
                                     ELSE Greater(inodes[q.ino].len, to)))

(* Only the owner, the root user included; no access() call. *)
Setattr(t) ==
  LET q == task[t]
      node == inodes[q.ino]
      set == [f \in DOMAIN node |->
                IF f \in DOMAIN q.attrs THEN q.attrs[f]
                ELSE IF f = "len" /\ "size" \in DOMAIN q.attrs THEN q.attrs.size
                ELSE node[f]]
  IN  /\ Runs(t, "setattr")
      /\ IF q.ino \notin DOMAIN inodes THEN Fails
         ELSE IF node.uid # q.by.uid THEN Fails
         ELSE Becomes([inodes EXCEPT ![q.ino] = set])

(* Mutant: what is below a replaced directory goes with it. *)
MovedCascades(d, n, e, m) ==
  LET c == inodes[d].children[n]
      gone == {i \in DOMAIN inodes : Target(e, m) \cap Up(i) # {}}
  IN  [Without(inodes, gone) EXCEPT
         ![d].children = Without(@, {n}), ![e].children = Put(@, m, c),
         ![c].parent = e]

(* Mutant: the node goes on saying its old parent. *)
MovedStale(d, n, e, m) ==
  LET c == inodes[d].children[n]
  IN  [Without(inodes, Target(e, m)) EXCEPT
         ![d].children = Without(@, {n}), ![e].children = Put(@, m, c)]

(* What was at the new name leaves the table first, and only it; the error
   of a parent that is not there comes after the change. *)
MovedTable(d, n, e, m) ==
  LET c == inodes[d].children[n]
      kept == Without(inodes, Target(e, m))
      left == [kept EXCEPT ![d].children = Without(@, {n})]
  IN  IF d \notin DOMAIN kept THEN kept
      ELSE IF e \notin DOMAIN left THEN left
      ELSE [left EXCEPT ![e].children = Put(@, m, c), ![c].parent = e]

Rename(t) ==
  LET q == task[t]
  IN  /\ Runs(t, "rename")
      /\ IF Target(q.ino, q.name) = {} THEN Fails
         ELSE Becomes(MovedTable(q.ino, q.name, q.newparent, q.newname))

(* The unwrap of the child. *)
Rmdir(t) ==
  LET q == task[t]
  IN  /\ Runs(t, "rmdir")
      /\ IF Target(q.ino, q.name) = {} THEN Fails
         ELSE \E c \in Target(q.ino, q.name) :
           IF c \notin DOMAIN inodes THEN Panics
           ELSE IF inodes[c].kind # "dir" \/ DOMAIN inodes[c].children # {} THEN Fails
           ELSE Becomes([Without(inodes, {c}) EXCEPT
                           ![q.ino].children = Without(@, {q.name})])

(* The unwrap of the parent; the child may be missing. *)
Unlink(t) ==
  LET q == task[t]
  IN  /\ Runs(t, "unlink")
      /\ IF q.ino \notin DOMAIN inodes THEN Panics
         ELSE Becomes([Without(inodes, Target(q.ino, q.name)) EXCEPT
                         ![q.ino].children = Without(@, {q.name})])

-----------------------------------------------------------------------------
Next ==
  \E t \in Task :
    \/ task[t].op = "idle" /\ \E u \in User :
         AskNew(t, u) \/ AskName(t, u) \/ AskRename(t, u) \/ AskNode(t, u)
    \/ Access(t)
    \/ Create(t) \/ Mkdir(t) \/ Readdir(t) \/ Read(t)
    \/ Write(t) \/ Fallocate(t) \/ Setattr(t)
    \/ Rename(t) \/ Rmdir(t) \/ Unlink(t)

Spec == Init /\ [][Next]_vars
-----------------------------------------------------------------------------
TypeOK ==
  /\ DOMAIN inodes \subseteq 1 .. next_inode - 1
  /\ next_inode \in 2 .. MaxInode + 1
  /\ \A i \in DOMAIN inodes :
       /\ inodes[i].parent \in Inode /\ inodes[i].kind \in {"dir", "file"}
       /\ inodes[i].size \in 0 .. MaxSize /\ inodes[i].len \in 0 .. MaxSize
       /\ DOMAIN inodes[i].children \subseteq Name
  /\ poisoned \in BOOLEAN
  /\ \A t \in Task : task[t].checks \in 0 .. 2

(* Every name leads to a node that is there, says the directory it was
   found in and has no other name: lookup, the unwraps of readdir (line
   403) and rmdir (484) and the ".." of a listing rely on it. *)
EntriesLead ==
  \A d \in DOMAIN inodes : \A n \in DOMAIN inodes[d].children :
    LET c == inodes[d].children[n]
    IN  /\ d \in Dirs
        /\ c \in DOMAIN inodes
        /\ inodes[c].parent = d
        /\ \A e \in Dirs : \A m \in DOMAIN inodes[e].children :
             inodes[e].children[m] = c => <<e, m>> = <<d, n>>

(* No request panics under the mutex: no unwrap fails, and a READ that the
   kernel bounds by the size it was told is inside the data. *)
NotPoisoned == ~ poisoned

(* The rights are checked under one lock and the change is made under the
   next: what a request that changes names was sent for is still so, as the
   kernel keeps every other request away from its directories. *)
StillThere ==
  \A t \in Task :
    LET q == task[t]
    IN  /\ q.op \in {"create", "mkdir"} => q.ino \in Dirs /\ Target(q.ino, q.name) = {}
        /\ q.op \in {"unlink", "rmdir", "rename"} => Target(q.ino, q.name) # {}
        /\ q.op = "rename" => q.newparent \in Dirs
        /\ q.op = "readdir" => q.ino \in Dirs

(* The nodes a walk from the root reaches, and where. *)
NameOf(i) ==
  LET names == {n \in Name : Target(inodes[i].parent, n) = {i}}
  IN  IF names = {} THEN "" ELSE CHOOSE n \in names : TRUE

Places ==
  [i \in Attached \ {ROOT_INODE} |->
     <<inodes[i].parent, NameOf(i)>>]

Names == INSTANCE Namespace WITH Node <- Inode, Root <- ROOT_INODE,
                                 at <- Places, used <- 2 .. next_inode - 1

(* What lookups from the root can reach is a tree of names, and each
   request changes it as one step; a directory that a rename replaces takes
   what is in it along (the table keeps those nodes). *)
MemoryIsATree == Names!Spec
=============================================================================
