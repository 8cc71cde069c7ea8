-------------------------- MODULE InMemoryFsProofs --------------------------
(***************************************************************************)
(* The in-memory example is safe for every number of requests at once, of  *)
(* inodes, names, callers and modes.                                       *)
(*                                                                         *)
(* MemoryInv is the inductive invariant.  It adds to the types and to      *)
(* EntriesLead what a request that waits for its second section relies on  *)
(* (Sound), that no two requests served at once are in each other's way    *)
(* (Conflict), and that a number is left for each create and mkdir on its  *)
(* way.  A step changes only directories its request holds, so what the    *)
(* others rely on stays (StaysSound, Served); what each operation does to  *)
(* the table is a lemma of its own (MadeSafe, ResizedSafe, UnnamedSafe,    *)
(* MovedSafe).                                                             *)
(***************************************************************************)
EXTENDS InMemoryFs, NumberInduction, FiniteSetTheorems, TLAPS

(* A node as FSNode makes it, and a request as Idle is one. *)
IsNode(v) ==
  /\ v = [parent |-> v.parent, kind |-> v.kind, perm |-> v.perm, uid |-> v.uid,
          gid |-> v.gid, size |-> v.size, len |-> v.len, children |-> v.children]
  /\ v.parent \in Inode
  /\ v.kind \in {"dir", "file"}
  /\ v.len \in 0 .. MaxSize /\ v.size = v.len
  /\ v.children = [n \in DOMAIN v.children |-> v.children[n]]
  /\ DOMAIN v.children \subseteq Name

Fields == {"op", "by", "ino", "name", "newparent", "newname", "offset", "length",
           "punch", "attrs", "checks"}
IsRequest(q) == q = [f \in Fields |-> q[f]] /\ q.checks \in 0 .. 2

(***************************************************************************)
(* The state as a value: a table f, the next number, the requests.         *)
(***************************************************************************)
IsTable(f, next) ==
  /\ f = [i \in DOMAIN f |-> f[i]]
  /\ next \in 2 .. MaxInode + 1
  /\ DOMAIN f \subseteq 1 .. next - 1
  /\ \A i \in DOMAIN f : IsNode(f[i])

(* EntriesLead, and no directory lists itself. *)
Leads(f) ==
  \A d \in DOMAIN f : \A n \in DOMAIN f[d].children :
    /\ f[d].kind = "dir"
    /\ f[d].children[n] \in DOMAIN f
    /\ f[f[d].children[n]].parent = d
    /\ f[d].children[n] # d
    /\ \A m \in DOMAIN f[d].children : f[d].children[m] = f[d].children[n] => m = n

SafeTable(f, next) == IsTable(f, next) /\ Leads(f)

IsDir(f, i) == i \in DOMAIN f /\ f[i].kind = "dir"
At(f, d, n) == IF IsDir(f, d) /\ n \in DOMAIN f[d].children
               THEN {f[d].children[n]} ELSE {}

(* Target is At of the table there is. *)
LEMMA TargetIsAt == \A d, n : Target(d, n) = At(inodes, d, n)
BY DEF Target, At, IsDir, Dirs

(* What a request relies on until it is served. *)
Sound(f, next, q) ==
  /\ IsRequest(q)
  /\ q.ino \in 1 .. next - 1
  /\ q.newparent \in 1 .. next - 1
  /\ q.op \in {"create", "mkdir"} =>
       q.name \in Name /\ IsDir(f, q.ino) /\ At(f, q.ino, q.name) = {}
  /\ q.op \in {"unlink", "rmdir", "rename"} => At(f, q.ino, q.name) # {}
  /\ q.op = "rename" =>
       /\ q.newname \in Name
       /\ IsDir(f, q.newparent)
       /\ q.newparent \notin At(f, q.ino, q.name)
       /\ q.ino \notin At(f, q.newparent, q.newname)
       /\ At(f, q.newparent, q.newname) \cap At(f, q.ino, q.name) = {}
  /\ q.op = "readdir" => IsDir(f, q.ino)
  /\ q.op = "read" /\ ~ ReadRaces =>
       q.offset \in Int /\ (q.ino \in DOMAIN f => q.offset <= f[q.ino].len)
  /\ q.op \in {"write", "fallocate"} =>
       q.offset \in Nat /\ q.length \in Nat /\ q.offset + q.length <= MaxSize
  /\ q.op = "setattr" => q.attrs \in Changes

(* The inodes a request holds, with the table as a parameter. *)
Held(f, q) ==
  CASE q.op \in {"create", "mkdir", "setattr", "write", "fallocate"} -> {q.ino}
    [] q.op \in {"unlink", "rmdir"} -> {q.ino} \cup At(f, q.ino, q.name)
    [] q.op = "rename" -> {q.ino, q.newparent} \cup At(f, q.newparent, q.newname)
    [] OTHER -> {}

Conflict(f, q, r) ==
  \/ Held(f, q) \cap (Held(f, r) \cup Shares(r)) # {}
  \/ q.op = "rename" /\ r.op = "rename"
  \/ ~ ReadRaces /\ Truncates(q) /\ r.op = "read"

(* Holds is Held of the table there is. *)
LEMMA HoldsIsHeld == \A q : Holds(q) = Held(inodes, q)
BY TargetIsAt DEF Holds, Held

(* What the kernel keeps apart, with the table as a parameter. *)
LEMMA ExcludeIsConflict == \A q, r : Exclude(q, r) <=> Conflict(inodes, q, r)
BY HoldsIsHeld DEF Exclude, Conflict

Makers(tasks) == {s \in Task : tasks[s].op \in {"create", "mkdir"}}

Safe(f, next, tasks) ==
  /\ SafeTable(f, next)
  /\ tasks = [t \in Task |-> tasks[t]]
  /\ \A t \in Task : Sound(f, next, tasks[t])
  /\ \A s, t \in Task : s # t => ~ Conflict(f, tasks[s], tasks[t])
  /\ next + Cardinality(Makers(tasks)) <= MaxInode + 1

MemoryInv ==
  /\ Safe(inodes, next_inode, task)
  /\ poisoned \in BOOLEAN
  /\ ~ ReadRaces => ~ poisoned

(* The inductive invariant implies what the runs check. *)
LEMMA InvMeans ==
  ASSUME MemoryInv
  PROVE  TypeOK /\ EntriesLead /\ StillThere
<1>0. SafeTable(inodes, next_inode) /\ \A t \in Task : Sound(inodes, next_inode, task[t])
  BY DEF MemoryInv, Safe
<1>1. TypeOK
  BY <1>0 DEF SafeTable, IsTable, IsNode, Sound, IsRequest, TypeOK, MemoryInv
<1>2. EntriesLead
  BY <1>0 DEF SafeTable, Leads, EntriesLead, Dirs
<1>3. StillThere
  BY <1>0, TargetIsAt DEF Sound, StillThere, Dirs, IsDir
<1>. QED
  BY <1>1, <1>2, <1>3
-----------------------------------------------------------------------------
(* A request that is not served yet is not disturbed by a step that changes
   no directory it holds or lists. *)
SameDir(f, g, x) ==
  /\ x \in DOMAIN g <=> x \in DOMAIN f
  /\ x \in DOMAIN f => g[x].kind = f[x].kind /\ g[x].children = f[x].children

(* A directory that stays as it is has the same names. *)
LEMMA SameAt ==
  ASSUME NEW f, NEW g, NEW d, SameDir(f, g, d)
  PROVE  /\ IsDir(g, d) <=> IsDir(f, d)
         /\ \A n : At(g, d, n) = At(f, d, n)
BY DEF SameDir, IsDir, At

(* The directories a request names. *)
Named(q) ==
  CASE q.op \in {"create", "mkdir", "unlink", "rmdir", "readdir"} -> {q.ino}
    [] q.op = "rename" -> {q.ino, q.newparent}
    [] OTHER -> {}

(* A request holds or shares every directory it names. *)
LEMMA NamedHeld == \A f, q : Named(q) \subseteq Held(f, q) \cup Shares(q)
BY DEF Named, Held, Shares

(* Hence what a request relies on is still so, and it holds the same inodes. *)
LEMMA StaysSound ==
  ASSUME NEW f, NEW g, NEW next \in Int, NEW nxt \in Int, next <= nxt, NEW q,
         Sound(f, next, q), \A x \in Named(q) : SameDir(f, g, x),
         q.op = "read" /\ ~ ReadRaces /\ q.ino \in DOMAIN g =>
           q.ino \in DOMAIN f /\ f[q.ino].len \in Int /\ g[q.ino].len \in Int
           /\ f[q.ino].len <= g[q.ino].len
  PROVE  Sound(g, nxt, q) /\ Held(g, q) = Held(f, q)
<1>1. q.ino \in 1 .. nxt - 1 /\ q.newparent \in 1 .. nxt - 1
  BY DEF Sound
<1>2. q.op \in {"create", "mkdir", "unlink", "rmdir", "readdir", "rename"} =>
        /\ IsDir(g, q.ino) <=> IsDir(f, q.ino)
        /\ \A n : At(g, q.ino, n) = At(f, q.ino, n)
  BY SameAt DEF Named
<1>3. q.op = "rename" =>
        /\ IsDir(g, q.newparent) <=> IsDir(f, q.newparent)
        /\ \A n : At(g, q.newparent, n) = At(f, q.newparent, n)
  BY SameAt DEF Named
<1>4. Held(g, q) = Held(f, q)
  BY <1>2, <1>3 DEF Held
<1>5. q.op = "read" /\ ~ ReadRaces =>
       q.offset \in Int /\ (q.ino \in DOMAIN g => q.offset <= g[q.ino].len)
  BY DEF Sound
<1>. QED
  BY <1>1, <1>2, <1>3, <1>4, <1>5 DEF Sound
-----------------------------------------------------------------------------
(* The changes of the table. *)

(* Put, value by value. *)
LEMMA PutMeans ==
  ASSUME NEW f, NEW k, NEW v
  PROVE  /\ Put(f, k, v) = [x \in DOMAIN Put(f, k, v) |-> Put(f, k, v)[x]]
         /\ \A x : x \in DOMAIN Put(f, k, v) <=> x \in DOMAIN f \/ x = k
         /\ Put(f, k, v)[k] = v
         /\ \A x \in DOMAIN f \ {k} : Put(f, k, v)[x] = f[x]
BY DEF Put

(* Without, value by value. *)
LEMMA WithoutMeans ==
  ASSUME NEW f, NEW S
  PROVE  /\ Without(f, S) = [x \in DOMAIN Without(f, S) |-> Without(f, S)[x]]
         /\ \A x : x \in DOMAIN Without(f, S) <=> x \in DOMAIN f /\ x \notin S
         /\ \A x \in DOMAIN f \ S : Without(f, S)[x] = f[x]
BY DEF Without, Restrict

(* A node with another children map. *)
LEMMA NodeChildren ==
  ASSUME NEW v, IsNode(v), NEW k, k = [n \in DOMAIN k |-> k[n]], DOMAIN k \subseteq Name,
         NEW w, w = [v EXCEPT !.children = k]
  PROVE  /\ IsNode(w) /\ w.children = k /\ w.kind = v.kind
         /\ w.parent = v.parent /\ w.len = v.len
<1>1. w = [parent |-> v.parent, kind |-> v.kind, perm |-> v.perm, uid |-> v.uid,
           gid |-> v.gid, size |-> v.size, len |-> v.len, children |-> k]
  BY DEF IsNode
<1>. QED
  BY <1>1 DEF IsNode

(* A node with another parent. *)
LEMMA NodeParent ==
  ASSUME NEW v, IsNode(v), NEW p \in Inode, NEW w, w = [v EXCEPT !.parent = p]
  PROVE  /\ IsNode(w) /\ w.children = v.children /\ w.kind = v.kind
         /\ w.parent = p /\ w.len = v.len
<1>1. w = [parent |-> p, kind |-> v.kind, perm |-> v.perm, uid |-> v.uid,
           gid |-> v.gid, size |-> v.size, len |-> v.len, children |-> v.children]
  BY DEF IsNode
<1>. QED
  BY <1>1 DEF IsNode

(* A node that create or mkdir makes. *)
LEMMA NewNode ==
  ASSUME NEW d \in Inode, NEW kind \in {"dir", "file"}, NEW perm, NEW u
  PROVE  LET w == FSNode(d, kind, perm, u)
         IN  /\ IsNode(w) /\ DOMAIN w.children = {} /\ w.kind = kind
             /\ w.parent = d
BY InMemoryFsAssumption DEF IsNode, FSNode, Nothing

MadeTable(f, next, d, n, node) ==
  Put([f EXCEPT ![d].children = Put(@, n, next)], next, node)

(* create and mkdir: a name that was free, a number that was free. *)
LEMMA MadeSafe ==
  ASSUME NEW f, NEW next, SafeTable(f, next), next <= MaxInode,
         NEW d, IsDir(f, d), NEW n \in Name, At(f, d, n) = {},
         NEW w, IsNode(w), DOMAIN w.children = {}, w.parent = d,
         NEW made, made = MadeTable(f, next, d, n, w)
  PROVE  /\ SafeTable(made, next + 1)
         /\ \A x \in 1 .. next - 1 \ {d} : SameDir(f, made, x)
         /\ \A x \in DOMAIN f : x \in DOMAIN made /\ made[x].len = f[x].len
         /\ \A x \in DOMAIN made : x \in DOMAIN f \/ x = next
<1>. DEFINE kids == Put(f[d].children, n, next)
            h == [f EXCEPT ![d] = [f[d] EXCEPT !.children = kids]]
            g == Put(h, next, w)
<1>1. /\ f = [i \in DOMAIN f |-> f[i]] /\ DOMAIN f \subseteq 1 .. next - 1
      /\ next \in 2 .. MaxInode + 1 /\ d \in DOMAIN f /\ f[d].kind = "dir"
      /\ \A i \in DOMAIN f : IsNode(f[i])
      /\ next \notin DOMAIN f /\ d \in Inode /\ next # d
  BY InMemoryFsAssumption DEF SafeTable, IsTable, IsDir, Inode
<1>2. n \notin DOMAIN f[d].children
  BY <1>1 DEF At, IsDir
<1>3. /\ kids = [x \in DOMAIN kids |-> kids[x]]
      /\ \A x : x \in DOMAIN kids <=> x \in DOMAIN f[d].children \/ x = n
      /\ kids[n] = next
      /\ \A x \in DOMAIN f[d].children : kids[x] = f[d].children[x]
  BY <1>2, PutMeans
<1>0. made = g
  BY DEF MadeTable
<1>. HIDE DEF kids
<1>5. /\ DOMAIN h = DOMAIN f /\ \A x \in DOMAIN f \ {d} : h[x] = f[x]
      /\ h[d] = [f[d] EXCEPT !.children = kids]
  BY <1>1
<1>6. DOMAIN kids \subseteq Name
  BY <1>1, <1>3 DEF IsNode
<1>7. /\ IsNode(h[d]) /\ h[d].children = kids /\ h[d].kind = "dir"
      /\ h[d].parent = f[d].parent /\ h[d].len = f[d].len
  <2>1. IsNode(f[d])
    BY <1>1
  <2>. QED
    BY <1>1, <1>3, <1>5, <1>6, <2>1, NodeChildren
<1>. HIDE DEF h
<1>8. /\ g = [x \in DOMAIN g |-> g[x]]
      /\ \A x : x \in DOMAIN g <=> x \in DOMAIN f \/ x = next
      /\ g[next] = w
      /\ \A x \in DOMAIN f : g[x] = h[x]
  BY <1>1, <1>5, PutMeans
<1>. HIDE DEF g
<1>9. IsTable(g, next + 1)
  <2>1. \A i \in DOMAIN g : IsNode(g[i])
    BY <1>1, <1>5, <1>7, <1>8
  <2>2. DOMAIN g \subseteq 1 .. (next + 1) - 1 /\ next + 1 \in 2 .. MaxInode + 1
    BY <1>1, <1>8, InMemoryFsAssumption
  <2>. QED
    BY <1>8, <2>1, <2>2 DEF IsTable
<1>10. ASSUME NEW x \in DOMAIN g, NEW k \in DOMAIN g[x].children
       PROVE  /\ g[x].kind = "dir"
              /\ g[x].children[k] \in DOMAIN g
              /\ g[g[x].children[k]].parent = x
              /\ g[x].children[k] # x
              /\ \A m \in DOMAIN g[x].children :
                   g[x].children[m] = g[x].children[k] => m = k
  <2>1. x # next
    BY <1>8
  <2>2. CASE x = d
    <3>1. g[x].children = kids /\ g[x].kind = "dir"
      BY <1>1, <1>7, <1>8, <2>2
    <3>2. \A m \in DOMAIN f[d].children :
            /\ f[d].children[m] \in DOMAIN f /\ f[f[d].children[m]].parent = d
            /\ f[d].children[m] # d
            /\ \A l \in DOMAIN f[d].children :
                 f[d].children[l] = f[d].children[m] => l = m
      BY <1>1 DEF SafeTable, Leads
    <3>3. CASE k = n
      BY <1>1, <1>3, <1>8, <2>2, <3>1, <3>2, <3>3
    <3>4. CASE k # n
      <4>1. k \in DOMAIN f[d].children /\ kids[k] = f[d].children[k]
        BY <1>3, <3>1, <3>4
      <4>2. kids[k] \in DOMAIN f /\ f[kids[k]].parent = d /\ kids[k] # d
        BY <3>2, <4>1
      <4>3. g[kids[k]] = f[kids[k]]
        BY <1>5, <1>8, <4>2
      <4>. QED
        BY <1>1, <1>3, <1>8, <2>2, <3>1, <3>2, <4>1, <4>2, <4>3
    <3>. QED
      BY <3>3, <3>4
  <2>3. CASE x # d
    <3>1. x \in DOMAIN f /\ g[x] = f[x]
      BY <1>5, <1>8, <2>1, <2>3
    <3>2. /\ f[x].kind = "dir" /\ f[x].children[k] \in DOMAIN f
          /\ f[f[x].children[k]].parent = x /\ f[x].children[k] # x
          /\ \A m \in DOMAIN f[x].children :
               f[x].children[m] = f[x].children[k] => m = k
      BY <3>1 DEF SafeTable, Leads
    <3>3. g[f[x].children[k]].parent = x
      <4>1. ASSUME NEW i \in DOMAIN f PROVE g[i].parent = f[i].parent
        <5>1. g[i] = h[i]
          BY <1>8
        <5>2. i # d => h[i] = f[i]
          BY <1>5
        <5>3. h[d].parent = f[d].parent
          BY <1>7
        <5>. QED
          BY <5>1, <5>2, <5>3
      <4>. QED
        BY <3>2, <4>1
    <3>. QED
      BY <1>8, <3>1, <3>2, <3>3
  <2>. QED
    BY <2>2, <2>3
<1>11. \A x \in 1 .. next - 1 \ {d} : SameDir(f, g, x)
  <2>1. \A x \in 1 .. next - 1 : x # next
    BY <1>1
  <2>. QED
    BY <1>5, <1>8, <2>1 DEF SameDir
<1>12. \A x \in DOMAIN f : x \in DOMAIN g /\ g[x].len = f[x].len
  BY <1>5, <1>7, <1>8
<1>13. SafeTable(g, next + 1)
  BY <1>9, <1>10 DEF SafeTable, Leads
<1>14. \A x \in DOMAIN g : x \in DOMAIN f \/ x = next
  BY <1>8
<1>. QED
  BY <1>0, <1>11, <1>12, <1>13, <1>14

(* A node that keeps its name, its place and its children. *)
LEMMA ResizedSafe ==
  ASSUME NEW f, NEW next, SafeTable(f, next), NEW i \in DOMAIN f, NEW l \in 0 .. MaxSize,
         NEW v, IsNode(v), v.children = f[i].children, v.kind = f[i].kind,
         v.parent = f[i].parent, v.len = l
  PROVE  LET g == [f EXCEPT ![i] = v]
         IN  /\ SafeTable(g, next)
             /\ \A x : SameDir(f, g, x)
             /\ \A x \in DOMAIN f \ {i} : g[x] = f[x]
             /\ DOMAIN g = DOMAIN f /\ g[i].len = l
<1>. DEFINE g == [f EXCEPT ![i] = v]
<1>1. /\ g = [x \in DOMAIN f |-> IF x = i THEN v ELSE f[x]]
      /\ DOMAIN g = DOMAIN f
      /\ \A x \in DOMAIN f : /\ g[x].children = f[x].children /\ g[x].kind = f[x].kind
                             /\ g[x].parent = f[x].parent /\ IsNode(g[x])
                             /\ x # i => g[x] = f[x]
      /\ g[i] = v
  BY DEF SafeTable, IsTable
<1>2. g = [x \in DOMAIN g |-> g[x]]
  BY <1>1
<1>. HIDE DEF g
<1>3. IsTable(g, next)
  BY <1>1, <1>2 DEF SafeTable, IsTable
<1>4. Leads(g)
  BY <1>1 DEF SafeTable, Leads
<1>5. \A x : SameDir(f, g, x)
  BY <1>1 DEF SameDir
<1>. QED
  BY <1>1, <1>3, <1>4, <1>5 DEF SafeTable, g

LeftTable(f, d, n, c) == [Without(f, {c}) EXCEPT ![d].children = Without(@, {n})]

(* unlink and rmdir: a name goes, and the one node it led to. *)
LEMMA UnnamedSafe ==
  ASSUME NEW f, NEW next, SafeTable(f, next), NEW d, NEW n, NEW c, At(f, d, n) = {c},
         NEW left, left = LeftTable(f, d, n, c)
  PROVE  /\ SafeTable(left, next)
         /\ \A x : x \notin {c, d} => SameDir(f, left, x)
         /\ \A x \in DOMAIN left : x \in DOMAIN f /\ left[x].len = f[x].len
<1>. DEFINE kids == Without(f[d].children, {n})
            k == Without(f, {c})
            g == [k EXCEPT ![d] = [k[d] EXCEPT !.children = Without(k[d].children, {n})]]
<1>1. /\ f = [i \in DOMAIN f |-> f[i]] /\ DOMAIN f \subseteq 1 .. next - 1
      /\ d \in DOMAIN f /\ f[d].kind = "dir"
      /\ n \in DOMAIN f[d].children /\ f[d].children[n] = c
      /\ \A i \in DOMAIN f : IsNode(f[i])
  BY DEF SafeTable, IsTable, At, IsDir
<1>2. /\ c \in DOMAIN f /\ c # d /\ f[c].parent = d
      /\ \A m \in DOMAIN f[d].children : f[d].children[m] = c => m = n
  BY <1>1 DEF SafeTable, Leads
<1>3. /\ kids = [x \in DOMAIN kids |-> kids[x]]
      /\ \A x : x \in DOMAIN kids <=> x \in DOMAIN f[d].children /\ x # n
      /\ \A x \in DOMAIN kids : kids[x] = f[d].children[x]
  <2>. DEFINE all == f[d].children
  <2>. HIDE DEF all
  <2>1. LET w == Without(all, {n})
        IN  /\ w = [x \in DOMAIN w |-> w[x]]
            /\ \A x : x \in DOMAIN w <=> x \in DOMAIN all /\ x \notin {n}
            /\ \A x \in DOMAIN all \ {n} : w[x] = all[x]
    BY WithoutMeans
  <2>. QED
    BY <2>1 DEF all
<1>4. /\ k = [x \in DOMAIN k |-> k[x]]
      /\ \A x : x \in DOMAIN k <=> x \in DOMAIN f /\ x # c
      /\ \A x \in DOMAIN k : k[x] = f[x]
  BY WithoutMeans
<1>0. left = g
  BY DEF LeftTable
<1>. HIDE DEF k
<1>5. d \in DOMAIN k /\ k[d] = f[d]
  BY <1>1, <1>2, <1>4
<1>6. g = [k EXCEPT ![d] = [f[d] EXCEPT !.children = kids]]
  BY <1>5
<1>7. DOMAIN kids \subseteq Name
  BY <1>1, <1>3 DEF IsNode
<1>. HIDE DEF g, kids
<1>8. /\ DOMAIN g = DOMAIN k /\ g = [x \in DOMAIN g |-> g[x]]
      /\ \A x \in DOMAIN g \ {d} : g[x] = f[x]
      /\ g[d] = [f[d] EXCEPT !.children = kids]
  BY <1>4, <1>5, <1>6
<1>9. /\ IsNode(g[d]) /\ g[d].children = kids /\ g[d].kind = f[d].kind
      /\ g[d].parent = f[d].parent /\ g[d].len = f[d].len
  BY <1>1, <1>3, <1>7, <1>8, NodeChildren
<1>10. IsTable(g, next)
  BY <1>1, <1>4, <1>8, <1>9 DEF SafeTable, IsTable
<1>11. ASSUME NEW x \in DOMAIN g, NEW y \in DOMAIN g[x].children
       PROVE  /\ g[x].kind = "dir"
              /\ g[x].children[y] \in DOMAIN g
              /\ g[g[x].children[y]].parent = x
              /\ g[x].children[y] # x
              /\ \A m \in DOMAIN g[x].children :
                   g[x].children[m] = g[x].children[y] => m = y
  <2>1. /\ x \in DOMAIN f /\ y \in DOMAIN f[x].children
        /\ g[x].children[y] = f[x].children[y] /\ g[x].kind = f[x].kind
        /\ ~ (x = d /\ y = n)
        /\ \A m \in DOMAIN g[x].children :
             m \in DOMAIN f[x].children /\ g[x].children[m] = f[x].children[m]
    BY <1>3, <1>4, <1>8, <1>9
  <2>2. /\ f[x].kind = "dir" /\ f[x].children[y] \in DOMAIN f
        /\ f[f[x].children[y]].parent = x /\ f[x].children[y] # x
        /\ \A m \in DOMAIN f[x].children :
             f[x].children[m] = f[x].children[y] => m = y
    BY <2>1 DEF SafeTable, Leads
  <2>3. f[x].children[y] # c
    BY <1>1, <1>2, <2>1, <2>2
  <2>4. f[x].children[y] \in DOMAIN g
    BY <1>4, <1>8, <2>2, <2>3
  <2>. QED
    BY <1>8, <1>9, <2>1, <2>2, <2>4
<1>12. \A x : x \notin {c, d} => SameDir(f, g, x)
  BY <1>4, <1>8 DEF SameDir
<1>13. \A x \in DOMAIN g : x \in DOMAIN f /\ g[x].len = f[x].len
  BY <1>4, <1>8, <1>9
<1>14. SafeTable(g, next)
  BY <1>10, <1>11 DEF SafeTable, Leads
<1>. QED
  BY <1>0, <1>12, <1>13, <1>14
-----------------------------------------------------------------------------
(* rename, for a request that is Sound: three nodes change, and what stood
   at the new name leaves the table. *)
LEMMA MovedSafe ==
  ASSUME SafeTable(inodes, next_inode),
         NEW d, NEW n, NEW c, At(inodes, d, n) = {c},
         NEW e, IsDir(inodes, e), e # c, NEW m \in Name,
         d \notin At(inodes, e, m), c \notin At(inodes, e, m)
  PROVE  LET g == MovedTable(d, n, e, m)
         IN  /\ SafeTable(g, next_inode)
             /\ \A x : x \notin {d, e} \cup At(inodes, e, m) => SameDir(inodes, g, x)
             /\ \A x \in DOMAIN g : x \in DOMAIN inodes /\ g[x].len = inodes[x].len
<1>. DEFINE f == inodes
            R == At(f, e, m)
            k == Without(f, R)
            less == Without(k[d].children, {n})
            h == [k EXCEPT ![d] = [k[d] EXCEPT !.children = less]]
            more == Put(h[e].children, m, c)
            j == [h EXCEPT ![e] = [h[e] EXCEPT !.children = more]]
            g == [j EXCEPT ![c] = [j[c] EXCEPT !.parent = e]]
<1>1. /\ f = [i \in DOMAIN f |-> f[i]] /\ DOMAIN f \subseteq 1 .. next_inode - 1
      /\ d \in DOMAIN f /\ f[d].kind = "dir"
      /\ n \in DOMAIN f[d].children /\ f[d].children[n] = c
      /\ e \in DOMAIN f /\ f[e].kind = "dir"
      /\ \A i \in DOMAIN f : IsNode(f[i])
      /\ next_inode \in 2 .. MaxInode + 1
  BY DEF SafeTable, IsTable, At, IsDir
<1>2. /\ \A x \in DOMAIN f : \A y \in DOMAIN f[x].children :
           /\ f[x].kind = "dir"
           /\ f[x].children[y] \in DOMAIN f
           /\ f[f[x].children[y]].parent = x
           /\ f[x].children[y] # x
           /\ \A z \in DOMAIN f[x].children :
                f[x].children[z] = f[x].children[y] => z = y
  BY DEF SafeTable, Leads
<1>3. /\ \A r \in R : m \in DOMAIN f[e].children /\ r = f[e].children[m]
      /\ m \in DOMAIN f[e].children => f[e].children[m] \in R
      /\ d \notin R /\ c \notin R /\ e \notin R
      /\ c \in DOMAIN f /\ c # d /\ c # e /\ f[c].parent = d
  BY <1>1, <1>2 DEF At, IsDir
<1>. HIDE DEF R
<1>4. MovedTable(d, n, e, m) = g
  <2>1. Target(e, m) = R
    BY TargetIsAt DEF R
  <2>2. d \in DOMAIN k /\ e \in DOMAIN k
    BY <1>1, <1>3, WithoutMeans
  <2>. HIDE DEF k, f
  <2>3. e \in DOMAIN h
    BY <2>2
  <2>4. k = Without(inodes, Target(e, m)) /\ c = inodes[d].children[n]
    BY <1>1, <2>1 DEF k, f
  <2>. HIDE DEF more, less
  <2>. QED
    BY <2>2, <2>3, <2>4 DEF MovedTable, more, less
<1>5. /\ k = [x \in DOMAIN k |-> k[x]]
      /\ \A x : x \in DOMAIN k <=> x \in DOMAIN f /\ x \notin R
      /\ \A x \in DOMAIN k : k[x] = f[x]
  BY WithoutMeans
<1>. HIDE DEF k, f
<1>6. {d, e, c} \subseteq DOMAIN k
  BY <1>1, <1>3, <1>5
<1>7. /\ less = [x \in DOMAIN less |-> less[x]]
      /\ \A x : x \in DOMAIN less <=> x \in DOMAIN f[d].children /\ x # n
      /\ \A x \in DOMAIN less : less[x] = f[d].children[x]
  BY <1>5, <1>6, WithoutMeans
<1>8. DOMAIN less \subseteq Name
  BY <1>1, <1>7 DEF IsNode
<1>. HIDE DEF less
<1>9. /\ h = [x \in DOMAIN h |-> h[x]] /\ DOMAIN h = DOMAIN k
      /\ \A x \in DOMAIN k \ {d} : h[x] = f[x]
      /\ h[d] = [f[d] EXCEPT !.children = less]
  BY <1>5, <1>6
<1>. HIDE DEF h
<1>10. /\ IsNode(h[d]) /\ h[d].children = less /\ h[d].kind = "dir"
       /\ h[d].parent = f[d].parent /\ h[d].len = f[d].len
  <2>1. IsNode(f[d]) /\ f[d].kind = "dir"
    BY <1>1
  <2>2. h[d] = [f[d] EXCEPT !.children = less] /\ less = [x \in DOMAIN less |-> less[x]]
    BY <1>7, <1>9
  <2>. QED
    BY <1>8, <2>1, <2>2, NodeChildren
<1>11. /\ \A x \in DOMAIN h : IsNode(h[x]) /\ h[x].kind = f[x].kind
                              /\ h[x].parent = f[x].parent /\ h[x].len = f[x].len
       /\ \A x \in DOMAIN h \ {d} : h[x].children = f[x].children
       /\ \A x \in DOMAIN h : \A y \in DOMAIN h[x].children :
            /\ y \in DOMAIN f[x].children /\ h[x].children[y] = f[x].children[y]
            /\ ~ (x = d /\ y = n)
  BY <1>1, <1>5, <1>7, <1>9, <1>10
<1>12. /\ more = [x \in DOMAIN more |-> more[x]]
       /\ \A x : x \in DOMAIN more <=> x \in DOMAIN h[e].children \/ x = m
       /\ more[m] = c
       /\ \A x \in DOMAIN h[e].children \ {m} : more[x] = h[e].children[x]
  BY PutMeans
<1>13. DOMAIN more \subseteq Name
  BY <1>6, <1>9, <1>11, <1>12 DEF IsNode
<1>. HIDE DEF more
<1>14. /\ j = [x \in DOMAIN j |-> j[x]] /\ DOMAIN j = DOMAIN k
       /\ \A x \in DOMAIN k \ {e} : j[x] = h[x]
       /\ j[e] = [h[e] EXCEPT !.children = more]
  BY <1>6, <1>9
<1>. HIDE DEF j
<1>15. /\ IsNode(j[e]) /\ j[e].children = more /\ j[e].kind = "dir"
       /\ j[e].parent = f[e].parent /\ j[e].len = f[e].len
  <2>1. IsNode(h[e]) /\ h[e].kind = "dir" /\ h[e].parent = f[e].parent
        /\ h[e].len = f[e].len
    BY <1>1, <1>6, <1>9, <1>11
  <2>. QED
    BY <1>12, <1>13, <1>14, <2>1, NodeChildren
<1>16. /\ g = [x \in DOMAIN g |-> g[x]] /\ DOMAIN g = DOMAIN k
       /\ \A x \in DOMAIN k \ {c} : g[x] = j[x]
       /\ g[c] = [j[c] EXCEPT !.parent = e]
  BY <1>6, <1>14
<1>. HIDE DEF g
<1>17. e \in Inode
  BY <1>1, InMemoryFsAssumption DEF Inode
<1>18. /\ IsNode(g[c]) /\ g[c].children = h[c].children /\ g[c].kind = f[c].kind
       /\ g[c].parent = e /\ g[c].len = f[c].len
  <2>1. /\ j[c] = h[c] /\ IsNode(h[c]) /\ h[c].kind = f[c].kind
        /\ h[c].len = f[c].len
    BY <1>3, <1>6, <1>9, <1>11, <1>14
  <2>. QED
    BY <1>16, <1>17, <2>1, NodeParent
<1>19. /\ \A x \in DOMAIN g : /\ x \in DOMAIN f /\ x \notin R /\ IsNode(g[x])
                              /\ g[x].kind = f[x].kind /\ g[x].len = f[x].len
       /\ \A x \in DOMAIN g \ {c} : g[x].parent = f[x].parent
       /\ g[c].parent = e
       /\ g[e].children = more
       /\ \A x \in DOMAIN g \ {e} : g[x].children = h[x].children
  <2>1. ASSUME NEW x \in DOMAIN g
        PROVE  /\ x \in DOMAIN f /\ x \notin R /\ IsNode(g[x])
               /\ g[x].kind = f[x].kind /\ g[x].len = f[x].len
               /\ x # c => g[x].parent = f[x].parent
               /\ x # e => g[x].children = h[x].children
    <3>1. x \in DOMAIN k /\ x \in DOMAIN h
      BY <1>9, <1>16
    <3>2. x \in DOMAIN f /\ x \notin R
      BY <1>5, <3>1
    <3>3. CASE x = c
      BY <1>18, <3>2, <3>3
    <3>4. CASE x = e
      BY <1>1, <1>3, <1>15, <1>16, <3>1, <3>2, <3>4
    <3>5. CASE x # c /\ x # e
      BY <1>11, <1>14, <1>16, <3>1, <3>2, <3>5
    <3>. QED
      BY <3>3, <3>4, <3>5
  <2>2. g[e].children = more
    BY <1>3, <1>6, <1>15, <1>16
  <2>. QED
    BY <1>18, <2>1, <2>2
<1>20. IsTable(g, next_inode)
  BY <1>1, <1>16, <1>19 DEF IsTable
<1>21. \A x \in DOMAIN g : \A y \in DOMAIN g[x].children :
         \/ x = e /\ y = m /\ g[x].children[y] = c
         \/ /\ y \in DOMAIN f[x].children /\ g[x].children[y] = f[x].children[y]
            /\ ~ (x = d /\ y = n) /\ ~ (x = e /\ y = m)
  BY <1>6, <1>9, <1>11, <1>12, <1>16, <1>19
<1>22. ASSUME NEW x \in DOMAIN g, NEW y \in DOMAIN g[x].children
       PROVE  /\ g[x].kind = "dir"
              /\ g[x].children[y] \in DOMAIN g
              /\ g[g[x].children[y]].parent = x
              /\ g[x].children[y] # x
              /\ \A z \in DOMAIN g[x].children :
                   g[x].children[z] = g[x].children[y] => z = y
  <2>1. c \in DOMAIN g /\ e \in DOMAIN g
    BY <1>6, <1>16
  <2>2. CASE x = e /\ y = m /\ g[x].children[y] = c
    <3>1. \A z \in DOMAIN g[e].children : g[e].children[z] = c => z = m
      BY <1>1, <1>2, <1>3, <1>21, <2>1
    <3>. QED
      BY <1>1, <1>3, <1>19, <2>1, <2>2, <3>1
  <2>3. CASE /\ y \in DOMAIN f[x].children /\ g[x].children[y] = f[x].children[y]
             /\ ~ (x = d /\ y = n) /\ ~ (x = e /\ y = m)
    <3>. DEFINE w == f[x].children[y]
    <3>1. /\ x \in DOMAIN f /\ f[x].kind = "dir" /\ w \in DOMAIN f
          /\ f[w].parent = x /\ w # x
          /\ \A z \in DOMAIN f[x].children : f[x].children[z] = w => z = y
      BY <1>2, <1>19, <2>3
    <3>2. w # c
      <4>1. ASSUME w = c PROVE FALSE
        <5>1. x = d
          BY <1>3, <3>1, <4>1
        <5>. QED
          BY <1>1, <2>3, <3>1, <4>1, <5>1
      <4>. QED
        BY <4>1
    <3>3. w \notin R
      <4>1. ASSUME w \in R PROVE FALSE
        <5>1. m \in DOMAIN f[e].children /\ w = f[e].children[m]
          BY <1>3, <4>1
        <5>2. x = e
          BY <1>1, <1>2, <3>1, <5>1
        <5>. QED
          BY <2>3, <3>1, <5>1, <5>2
      <4>. QED
        BY <4>1
    <3>4. w \in DOMAIN g /\ g[w].parent = x
      BY <1>5, <1>16, <1>19, <3>1, <3>2, <3>3
    <3>5. \A z \in DOMAIN g[x].children : g[x].children[z] = w => z = y
      BY <1>21, <3>1, <3>2
    <3>. QED
      BY <1>19, <2>3, <3>1, <3>4, <3>5
  <2>. QED
    BY <1>21, <2>2, <2>3
<1>23. \A x : x \notin {d, e} \cup R => SameDir(f, g, x)
  BY <1>5, <1>9, <1>11, <1>14, <1>16, <1>19 DEF SameDir
<1>. QED
  BY <1>4, <1>19, <1>20, <1>22, <1>23 DEF SafeTable, Leads, f, R
-----------------------------------------------------------------------------
(* What Up adds at a time, and the function it is the last value of. *)
Above(X) == X \cup {inodes[j].parent : j \in X \cap DOMAIN inodes}

IsUp(f, i, l) ==
  /\ f = [k \in 0 .. l |-> f[k]]
  /\ f[0] = {i}
  /\ \A k \in 1 .. l : f[k] = Above(f[k - 1])

(* Such a function exists for every bound. *)
LEMMA UpExists == ASSUME NEW i, NEW l \in Nat PROVE \E f : IsUp(f, i, l)
<1>. DEFINE T == {n \in Nat : \E f : IsUp(f, i, n)}
<1>1. 0 \in T
  <2>. DEFINE f == [k \in 0 .. 0 |-> {i}]
  <2>1. IsUp(f, i, 0)
    BY DEF IsUp
  <2>. QED
    BY <2>1
<1>2. ASSUME NEW n \in Nat, n \in T PROVE n + 1 \in T
  <2>1. PICK f : IsUp(f, i, n)
    BY <1>2
  <2>. DEFINE v == Above(f[n])
              g == [k \in 0 .. n + 1 |-> IF k = n + 1 THEN v ELSE f[k]]
  <2>2. /\ g = [k \in 0 .. n + 1 |-> g[k]]
        /\ \A k \in 0 .. n : g[k] = f[k]
        /\ g[n + 1] = v
    OBVIOUS
  <2>. HIDE DEF g
  <2>3. ASSUME NEW k \in 1 .. n + 1 PROVE g[k] = Above(g[k - 1])
    <3>1. CASE k = n + 1
      <4>1. k - 1 = n /\ n \in 0 .. n
        BY <3>1
      <4>2. g[k - 1] = f[n] /\ g[k] = v
        BY <2>2, <3>1, <4>1
      <4>. QED
        BY <4>2
    <3>2. CASE k # n + 1
      <4>1. k \in 1 .. n /\ k \in 0 .. n /\ k - 1 \in 0 .. n
        BY <3>2
      <4>2. g[k] = f[k] /\ g[k - 1] = f[k - 1]
        BY <2>2, <4>1
      <4>. QED
        BY <2>1, <4>1, <4>2 DEF IsUp
    <3>. QED
      BY <3>1, <3>2
  <2>4. 0 \in 0 .. n /\ n + 1 \in Nat
    OBVIOUS
  <2>5. g[0] = {i}
    BY <2>1, <2>2, <2>4 DEF IsUp
  <2>6. IsUp(g, i, n + 1)
    BY <2>2, <2>3, <2>5 DEF IsUp
  <2>. QED
    BY <2>6
<1>. HIDE DEF T
<1>3. l \in T
  BY <1>1, <1>2, SetInduction
<1>. QED
  BY <1>3 DEF T

(* Up(i) is the value before the last of such a function. *)
LEMMA UpIsUp == ASSUME NEW i PROVE \E f : IsUp(f, i, MaxInode) /\ Up(i) = f[MaxInode - 1]
<1>. DEFINE W(f) == f = [k \in 0 .. MaxInode |->
                           IF k = 0 THEN {i}
                           ELSE f[k - 1] \cup {inodes[j].parent : j \in f[k - 1] \cap DOMAIN inodes}]
            g == CHOOSE f : W(f)
<1>1. ASSUME NEW f, IsUp(f, i, MaxInode) PROVE W(f)
  <2>1. \A k \in 0 .. MaxInode : f[k] = IF k = 0 THEN {i} ELSE Above(f[k - 1])
    <3>. SUFFICES ASSUME NEW k \in 0 .. MaxInode
                  PROVE  f[k] = IF k = 0 THEN {i} ELSE Above(f[k - 1])
      OBVIOUS
    <3>1. k # 0 => k \in 1 .. MaxInode
      BY InMemoryFsAssumption
    <3>. QED
      BY <1>1, <3>1 DEF IsUp
  <2>. QED
    BY <1>1, <2>1 DEF IsUp, Above
<1>2. ASSUME NEW f, W(f) PROVE IsUp(f, i, MaxInode)
  <2>1. \A k \in 0 .. MaxInode : f[k] = IF k = 0 THEN {i} ELSE Above(f[k - 1])
    BY <1>2 DEF Above
  <2>2. 0 \in 0 .. MaxInode /\ \A k \in 1 .. MaxInode : k \in 0 .. MaxInode /\ k # 0
    BY InMemoryFsAssumption
  <2>3. f = [k \in 0 .. MaxInode |-> f[k]]
    BY <1>2
  <2>. HIDE DEF W
  <2>. QED
    BY <2>1, <2>2, <2>3 DEF IsUp
<1>3. Up(i) = g[MaxInode - 1]
  BY DEF Up
<1>. HIDE DEF W
<1>4. \E f : IsUp(f, i, MaxInode)
  BY UpExists, InMemoryFsAssumption
<1>5. W(g)
  BY <1>1, <1>4
<1>. QED
  BY <1>2, <1>3, <1>5

(* A directory is among those it is in. *)
LEMMA UpSelf == ASSUME NEW i PROVE i \in Up(i)
<1>1. PICK f : IsUp(f, i, MaxInode) /\ Up(i) = f[MaxInode - 1]
  BY UpIsUp
<1>. DEFINE T == {k \in Nat : k <= MaxInode => i \in f[k]}
<1>2. 0 \in T
  BY <1>1 DEF IsUp
<1>3. ASSUME NEW k \in Nat, k \in T PROVE k + 1 \in T
  <2>. SUFFICES ASSUME k + 1 <= MaxInode PROVE i \in f[k + 1]
    OBVIOUS
  <2>1. k + 1 \in 1 .. MaxInode /\ (k + 1) - 1 = k /\ k <= MaxInode
    BY InMemoryFsAssumption
  <2>2. f[k + 1] = Above(f[k])
    BY <1>1, <2>1 DEF IsUp
  <2>. QED
    BY <1>3, <2>1, <2>2 DEF Above
<1>. HIDE DEF T
<1>4. MaxInode - 1 \in T
  BY <1>2, <1>3, SetInduction, InMemoryFsAssumption
<1>5. MaxInode - 1 <= MaxInode
  BY InMemoryFsAssumption
<1>. QED
  BY <1>1, <1>4, <1>5 DEF T
-----------------------------------------------------------------------------
(* Lengths are numbers. *)
LEMMA LenType ==
  ASSUME NEW f, NEW next, SafeTable(f, next)
  PROVE  \A i \in DOMAIN f : f[i].len \in Int
<1>1. \A i \in DOMAIN f : IsNode(f[i])
  BY DEF SafeTable, IsTable
<1>2. \A l \in 0 .. MaxSize : l \in Int
  OBVIOUS
<1>. QED
  BY <1>1, <1>2 DEF IsNode

(* A task that serves nothing. *)
LEMMA IdleFields ==
  /\ Idle.op = "idle" /\ Idle.ino = 1 /\ Idle.newparent = 1
  /\ IsRequest(Idle)
<1>1. Idle = [f \in Fields |-> Idle[f]]
  BY DEF Idle, Fields
<1>2. Idle.op = "idle" /\ Idle.ino = 1 /\ Idle.newparent = 1 /\ Idle.checks = 0
  BY DEF Idle, ROOT_INODE
<1>. QED
  BY <1>1, <1>2 DEF IsRequest

(* It relies on nothing, *)
LEMMA IdleSound ==
  ASSUME NEW f, NEW next \in Int, next >= 2
  PROVE  /\ Sound(f, next, Idle) /\ Held(f, Idle) = {} /\ Shares(Idle) = {}
         /\ Idle.op = "idle"
BY IdleFields DEF Sound, Held, Shares

(* and keeps nobody away. *)
LEMMA IdleNoConflict ==
  ASSUME NEW f, NEW q
  PROVE  ~ Conflict(f, Idle, q) /\ ~ Conflict(f, q, Idle)
<1>1. Held(f, Idle) = {} /\ Shares(Idle) = {} /\ Idle.op = "idle"
  BY DEF Idle, Held, Shares
<1>. QED
  BY <1>1 DEF Conflict, Truncates

(* One task gets another request; the others stay as they are. *)
LEMMA Asked ==
  ASSUME NEW f, NEW next, NEW tasks, Safe(f, next, tasks), NEW t \in Task, NEW r,
         Sound(f, next, r),
         \A s \in Task \ {t} : ~ Conflict(f, r, tasks[s]) /\ ~ Conflict(f, tasks[s], r),
         NEW rest, rest = [tasks EXCEPT ![t] = r],
         next + Cardinality(Makers(rest)) <= MaxInode + 1
  PROVE  Safe(f, next, rest)
<1>1. /\ rest = [s \in Task |-> rest[s]]
      /\ rest[t] = r
      /\ \A s \in Task \ {t} : rest[s] = tasks[s]
  BY DEF Safe
<1>. QED
  BY <1>1 DEF Safe

(* The request of t is served, with what it does to the table. *)
LEMMA Served ==
  ASSUME NEW f, NEW next, NEW tasks, Safe(f, next, tasks), NEW t \in Task,
         NEW g, NEW nxt, SafeTable(g, nxt), next <= nxt,
         \A x \in 1 .. next - 1 : x \notin Held(f, tasks[t]) => SameDir(f, g, x),
         \A s \in Task \ {t} :
           tasks[s].op = "read" /\ ~ ReadRaces /\ tasks[s].ino \in DOMAIN g =>
             LET i == tasks[s].ino
             IN  i \in DOMAIN f /\ f[i].len <= g[i].len,
         NEW rest, rest = [tasks EXCEPT ![t] = Idle],
         nxt + Cardinality(Makers(rest)) <= MaxInode + 1
  PROVE  Safe(g, nxt, rest)
<1>1. /\ rest = [s \in Task |-> rest[s]]
      /\ rest[t] = Idle
      /\ \A s \in Task \ {t} : rest[s] = tasks[s]
      /\ next \in Int /\ nxt \in Int /\ nxt >= 2
  BY DEF Safe, SafeTable, IsTable
<1>2. ASSUME NEW s \in Task \ {t}
      PROVE  Sound(g, nxt, tasks[s]) /\ Held(g, tasks[s]) = Held(f, tasks[s])
  <2>. DEFINE q == tasks[s]
  <2>1. Sound(f, next, q)
    BY DEF Safe
  <2>2. Held(f, tasks[t]) \cap (Held(f, q) \cup Shares(q)) = {}
    BY DEF Safe, Conflict
  <2>3. Named(q) \subseteq 1 .. next - 1
    BY <2>1 DEF Sound, Named
  <2>4. \A x \in Named(q) : SameDir(f, g, x)
    BY <2>2, <2>3, NamedHeld
  <2>5. q.op = "read" /\ ~ ReadRaces /\ q.ino \in DOMAIN g =>
          /\ q.ino \in DOMAIN f /\ f[q.ino].len \in Int /\ g[q.ino].len \in Int
          /\ f[q.ino].len <= g[q.ino].len
    <3>1. SafeTable(f, next)
      BY DEF Safe
    <3>2. (\A i \in DOMAIN f : f[i].len \in Int) /\ (\A i \in DOMAIN g : g[i].len \in Int)
      BY <3>1, LenType
    <3>. QED
      BY <3>1, <3>2
  <2>. HIDE DEF q
  <2>6. Sound(g, nxt, q) /\ Held(g, q) = Held(f, q)
    BY <1>1, <2>1, <2>4, <2>5, StaysSound
  <2>. QED
    BY <2>6 DEF q
<1>3. \A s \in Task : Sound(g, nxt, rest[s])
  BY <1>1, <1>2, IdleSound
<1>4. \A s, u \in Task : s # u => ~ Conflict(g, rest[s], rest[u])
  <2>. SUFFICES ASSUME NEW s \in Task, NEW u \in Task, s # u
                PROVE  ~ Conflict(g, rest[s], rest[u])
    OBVIOUS
  <2>1. CASE s # t /\ u # t
    <3>1. ~ Conflict(f, tasks[s], tasks[u])
      BY DEF Safe
    <3>. QED
      BY <1>1, <1>2, <2>1, <3>1 DEF Conflict
  <2>2. CASE s = t \/ u = t
    BY <1>1, <2>2, IdleNoConflict
  <2>. QED
    BY <2>1, <2>2
<1>. QED
  BY <1>1, <1>3, <1>4 DEF Safe

-----------------------------------------------------------------------------
(* Room for the numbers that requests still have to take. *)
LEMMA MakersRoom ==
  ASSUME NEW f, NEW next, NEW tasks, Safe(f, next, tasks), NEW t \in Task
  PROVE  /\ next \in Int
         /\ \A rest : rest = [tasks EXCEPT ![t] = Idle] =>
              /\ next + Cardinality(Makers(rest)) <= MaxInode + 1
              /\ tasks[t].op \in {"create", "mkdir"} =>
                   next + 1 + Cardinality(Makers(rest)) <= MaxInode + 1
         /\ \A r, rest : /\ rest = [tasks EXCEPT ![t] = r]
                         /\ r.op \in {"create", "mkdir"} => tasks[t].op = r.op
                         => next + Cardinality(Makers(rest)) <= MaxInode + 1
<1>1. /\ next \in Int /\ tasks = [s \in Task |-> tasks[s]]
      /\ next + Cardinality(Makers(tasks)) <= MaxInode + 1
  BY DEF Safe, SafeTable, IsTable
<1>2. IsFiniteSet(Makers(tasks)) /\ Cardinality(Makers(tasks)) \in Nat
  BY FS_Subset, FS_CardinalityType, InMemoryFsAssumption DEF Makers
<1>3. ASSUME NEW r, NEW rest, rest = [tasks EXCEPT ![t] = r],
             r.op \in {"create", "mkdir"} => tasks[t].op = r.op
      PROVE  next + Cardinality(Makers(rest)) <= MaxInode + 1
  <2>1. Makers(rest) \subseteq Makers(tasks)
    BY <1>1, <1>3 DEF Makers
  <2>2. Cardinality(Makers(rest)) <= Cardinality(Makers(tasks))
        /\ Cardinality(Makers(rest)) \in Nat
    BY <1>2, <2>1, FS_Subset, FS_CardinalityType
  <2>. QED
    BY <1>1, <1>2, <2>2, InMemoryFsAssumption
<1>4. ASSUME NEW rest, rest = [tasks EXCEPT ![t] = Idle],
             tasks[t].op \in {"create", "mkdir"}
      PROVE  next + 1 + Cardinality(Makers(rest)) <= MaxInode + 1
  <2>1. Makers(rest) = Makers(tasks) \ {t} /\ t \in Makers(tasks)
    BY <1>1, <1>4 DEF Makers, Idle
  <2>2. Cardinality(Makers(rest)) = Cardinality(Makers(tasks)) - 1
    BY <1>2, <2>1, FS_RemoveElement
  <2>. QED
    BY <1>1, <1>2, <2>2, InMemoryFsAssumption
<1>5. Idle.op = "idle"
  BY DEF Idle
<1>. QED
  BY <1>1, <1>3, <1>4, <1>5

(* A request that will take a number. *)
LEMMA MakersGrow ==
  ASSUME NEW tasks, NEW t \in Task, NEW r, NEW rest, NEW next \in Int,
         tasks = [s \in Task |-> tasks[s]],
         rest = [tasks EXCEPT ![t] = r], tasks[t].op = "idle",
         next + Cardinality(Makers(tasks)) <= MaxInode
  PROVE  next + Cardinality(Makers(rest)) <= MaxInode + 1
<1>1. IsFiniteSet(Makers(tasks)) /\ Cardinality(Makers(tasks)) \in Nat
  BY FS_Subset, FS_CardinalityType, InMemoryFsAssumption DEF Makers
<1>2. Makers(rest) \subseteq Makers(tasks) \cup {t} /\ t \notin Makers(tasks)
  BY DEF Makers
<1>3. /\ IsFiniteSet(Makers(tasks) \cup {t})
      /\ Cardinality(Makers(tasks) \cup {t}) = Cardinality(Makers(tasks)) + 1
  BY <1>1, <1>2, FS_AddElement
<1>4. /\ Cardinality(Makers(rest)) <= Cardinality(Makers(tasks) \cup {t})
      /\ Cardinality(Makers(rest)) \in Nat
  BY <1>2, <1>3, FS_Subset, FS_CardinalityType
<1>. QED
  BY <1>1, <1>3, <1>4, InMemoryFsAssumption
-----------------------------------------------------------------------------
(* The bank is made with its root and nobody is served. *)
LEMMA InitMemory == Init => MemoryInv
<1>. SUFFICES ASSUME Init PROVE MemoryInv
  OBVIOUS
<1>. DEFINE w == FSNode(ROOT_INODE, "dir", All, [uid |-> 0, gid |-> 0])
<1>1. IsNode(w) /\ DOMAIN w.children = {}
  BY NewNode, InMemoryFsAssumption DEF ROOT_INODE, Inode
<1>. HIDE DEF w
<1>2. /\ inodes = [x \in DOMAIN inodes |-> inodes[x]]
      /\ \A x : x \in DOMAIN inodes <=> x = 1
      /\ inodes[1] = w
  BY PutMeans DEF Init, Nothing, ROOT_INODE, w
<1>3. next_inode = 2 /\ next_inode \in 2 .. MaxInode + 1
  BY InMemoryFsAssumption DEF Init, ROOT_INODE
<1>4. SafeTable(inodes, next_inode)
  BY <1>1, <1>2, <1>3 DEF SafeTable, IsTable, Leads
<1>5. task = [t \in Task |-> task[t]] /\ \A t \in Task : task[t] = Idle
  BY DEF Init
<1>6. \A t \in Task : Sound(inodes, next_inode, task[t])
  BY <1>3, <1>5, IdleSound
<1>7. \A s, t \in Task : ~ Conflict(inodes, task[s], task[t])
  BY <1>5, IdleNoConflict
<1>8. Makers(task) = {}
  BY <1>5, IdleFields DEF Makers
<1>9. next_inode + Cardinality(Makers(task)) <= MaxInode + 1
  BY <1>3, <1>8, FS_EmptySet, InMemoryFsAssumption
<1>. QED
  BY <1>4, <1>5, <1>6, <1>7, <1>9 DEF MemoryInv, Safe, Init

-----------------------------------------------------------------------------
(* What a caller asks for is sound when it is asked. *)

(* The request that Ask files, from the request asked for. *)
Filed(q, u) == [q EXCEPT !.by = u, !.checks = Checks(q.op)]

(* It differs from that in the caller and in the checks to make. *)
LEMMA FiledFacts ==
  ASSUME NEW q, IsRequest(q), NEW u
  PROVE  LET r == Filed(q, u)
         IN  /\ IsRequest(r)
             /\ r.op = q.op /\ r.ino = q.ino /\ r.name = q.name
             /\ r.newparent = q.newparent /\ r.newname = q.newname
             /\ r.offset = q.offset /\ r.length = q.length
             /\ r.punch = q.punch /\ r.attrs = q.attrs
<1>. DEFINE r == Filed(q, u)
<1>1. Checks(q.op) \in 0 .. 2
  BY DEF Checks
<1>2. /\ r.op = q.op /\ r.ino = q.ino /\ r.name = q.name
      /\ r.newparent = q.newparent /\ r.newname = q.newname
      /\ r.offset = q.offset /\ r.length = q.length
      /\ r.punch = q.punch /\ r.attrs = q.attrs
      /\ r.checks = Checks(q.op)
  BY DEF Filed, IsRequest, Fields
<1>3. r = [f \in Fields |-> r[f]]
  BY DEF Filed, IsRequest
<1>. HIDE DEF r
<1>4. IsRequest(r)
  BY <1>1, <1>2, <1>3 DEF IsRequest
<1>. QED
  BY <1>2, <1>4 DEF r

(* A sound request may be filed when the kernel lets it through. *)
LEMMA AskSafe ==
  ASSUME MemoryInv, NEW t \in Task, NEW u, NEW q, Ask(t, u, q),
         task[t].op = "idle", Sound(inodes, next_inode, q),
         q.op \in {"create", "mkdir"} =>
           next_inode + Cardinality(Makers(task)) <= MaxInode
  PROVE  MemoryInv'
<1>. DEFINE r == Filed(q, u)
<1>0. Safe(inodes, next_inode, task) /\ next_inode \in Int
      /\ task = [s \in Task |-> task[s]]
  BY DEF MemoryInv, Safe, SafeTable, IsTable
<1>1. /\ task' = [task EXCEPT ![t] = r]
      /\ UNCHANGED <<inodes, next_inode, poisoned>>
      /\ \A s \in Task \ {t} : ~ Exclude(q, task[s]) /\ ~ Exclude(task[s], q)
  BY DEF Ask, Filed
<1>2. /\ IsRequest(r)
      /\ r.op = q.op /\ r.ino = q.ino /\ r.name = q.name
      /\ r.newparent = q.newparent /\ r.newname = q.newname
      /\ r.offset = q.offset /\ r.length = q.length
      /\ r.punch = q.punch /\ r.attrs = q.attrs
  BY FiledFacts DEF Sound
<1>. HIDE DEF r
<1>3. Sound(inodes, next_inode, r)
  BY <1>2 DEF Sound
<1>4. /\ Held(inodes, r) = Held(inodes, q) /\ Shares(r) = Shares(q)
      /\ Truncates(r) = Truncates(q)
  BY <1>2 DEF Held, Shares, Truncates
<1>5. \A s \in Task \ {t} : ~ Conflict(inodes, r, task[s]) /\ ~ Conflict(inodes, task[s], r)
  BY <1>1, <1>2, <1>4, ExcludeIsConflict DEF Conflict
<1>6. next_inode + Cardinality(Makers(task')) <= MaxInode + 1
  <2>1. CASE r.op \in {"create", "mkdir"}
    BY <1>0, <1>1, <1>2, <2>1, MakersGrow
  <2>2. CASE r.op \notin {"create", "mkdir"}
    BY <1>0, <1>1, <2>2, MakersRoom
  <2>. QED
    BY <2>1, <2>2
<1>7. Safe(inodes, next_inode, task')
  BY <1>0, <1>1, <1>3, <1>5, <1>6, Asked
<1>. QED
  BY <1>1, <1>7 DEF MemoryInv

(* Directories and what is in them, as the kernel reads them. *)
LEMMA DirFacts ==
  ASSUME MemoryInv
  PROVE  /\ next_inode \in Int /\ next_inode >= 2
         /\ \A d \in Dirs : IsDir(inodes, d) /\ d \in 1 .. next_inode - 1
         /\ \A d, n, c : c \in Target(d, n) =>
              At(inodes, d, n) = {c} /\ c \in DOMAIN inodes /\ c # d
<1>1. SafeTable(inodes, next_inode)
  BY DEF MemoryInv, Safe
<1>. QED
  BY <1>1, TargetIsAt DEF SafeTable, IsTable, Leads, Dirs, IsDir, At

(* create and mkdir are asked for a free name, while numbers last. *)
LEMMA AskNewSafe ==
  ASSUME MemoryInv, NEW t \in Task, NEW u, AskNew(t, u), task[t].op = "idle"
  PROVE  MemoryInv'
<1>1. PICK d \in Dirs, n \in Name, op \in {"create", "mkdir"}, m \in Mode :
        /\ Target(d, n) = {}
        /\ next_inode + Cardinality({s \in Task : task[s].op \in {"create", "mkdir"}})
             <= MaxInode
        /\ Ask(t, u, [Idle EXCEPT !.op = op, !.ino = d, !.name = n,
                                  !.attrs = [perm |-> m]])
  BY DEF AskNew
<1>. DEFINE q == [Idle EXCEPT !.op = op, !.ino = d, !.name = n, !.attrs = [perm |-> m]]
<1>2. /\ IsRequest(q) /\ q.op = op /\ q.ino = d /\ q.name = n /\ q.newparent = 1
  BY IdleFields DEF IsRequest, Fields
<1>3. Ask(t, u, q)
  BY <1>1
<1>. HIDE DEF q
<1>4. Sound(inodes, next_inode, q)
  BY <1>1, <1>2, DirFacts, TargetIsAt DEF Sound
<1>. QED
  BY <1>1, <1>3, <1>4, AskSafe DEF Makers

(* unlink and rmdir are asked for a name that is there. *)
LEMMA AskNameSafe ==
  ASSUME MemoryInv, NEW t \in Task, NEW u, AskName(t, u), task[t].op = "idle"
  PROVE  MemoryInv'
<1>1. PICK d \in Dirs, n \in Name : \E c \in Target(d, n) :
        Ask(t, u, [Idle EXCEPT !.op = IF c \in Dirs THEN "rmdir" ELSE "unlink",
                               !.ino = d, !.name = n])
  BY DEF AskName
<1>2. PICK c \in Target(d, n) :
        Ask(t, u, [Idle EXCEPT !.op = IF c \in Dirs THEN "rmdir" ELSE "unlink",
                               !.ino = d, !.name = n])
  BY <1>1
<1>. DEFINE q == [Idle EXCEPT !.op = IF c \in Dirs THEN "rmdir" ELSE "unlink",
                              !.ino = d, !.name = n]
<1>3. /\ IsRequest(q) /\ q.op \in {"rmdir", "unlink"} /\ q.ino = d /\ q.name = n
      /\ q.newparent = 1
  BY IdleFields DEF IsRequest, Fields
<1>4. Ask(t, u, q)
  BY <1>2
<1>. HIDE DEF q
<1>5. Sound(inodes, next_inode, q)
  BY <1>2, <1>3, DirFacts, TargetIsAt DEF Sound
<1>. QED
  BY <1>3, <1>4, <1>5, AskSafe

(* rename: no directory below itself, none replaced that holds the old name. *)
LEMMA AskRenameSafe ==
  ASSUME MemoryInv, NEW t \in Task, NEW u, AskRename(t, u), task[t].op = "idle"
  PROVE  MemoryInv'
<1>1. PICK d \in Dirs, e \in Dirs, n \in Name, m \in Name : \E c \in Target(d, n) :
        /\ c \notin Up(e)
        /\ \A r \in Target(e, m) : r # c /\ r \notin Up(d)
        /\ Ask(t, u, [Idle EXCEPT !.op = "rename", !.ino = d, !.name = n,
                                  !.newparent = e, !.newname = m])
  BY DEF AskRename
<1>2. PICK c \in Target(d, n) :
        /\ c \notin Up(e)
        /\ \A r \in Target(e, m) : r # c /\ r \notin Up(d)
        /\ Ask(t, u, [Idle EXCEPT !.op = "rename", !.ino = d, !.name = n,
                                  !.newparent = e, !.newname = m])
  BY <1>1
<1>. DEFINE q == [Idle EXCEPT !.op = "rename", !.ino = d, !.name = n,
                              !.newparent = e, !.newname = m]
<1>3. /\ IsRequest(q) /\ q.op = "rename" /\ q.ino = d /\ q.name = n
      /\ q.newparent = e /\ q.newname = m
  BY IdleFields DEF IsRequest, Fields
<1>4. Ask(t, u, q)
  BY <1>2
<1>. HIDE DEF q
<1>5. c # e /\ \A r \in Target(e, m) : r # c /\ r # d
  BY <1>2, UpSelf
<1>6. /\ IsDir(inodes, d) /\ IsDir(inodes, e)
      /\ d \in 1 .. next_inode - 1 /\ e \in 1 .. next_inode - 1
      /\ At(inodes, d, n) = {c}
  BY <1>2, DirFacts
<1>7. \A r \in At(inodes, e, m) : r # c /\ r # d
  BY <1>5, TargetIsAt
<1>8. Sound(inodes, next_inode, q)
  BY <1>3, <1>5, <1>6, <1>7 DEF Sound
<1>. QED
  BY <1>3, <1>4, <1>8, AskSafe

(* Requests on one node, by its number. *)
LEMMA AskNodeSafe ==
  ASSUME MemoryInv, NEW t \in Task, NEW u, AskNode(t, u), task[t].op = "idle"
  PROVE  MemoryInv'
<1>1. PICK i \in 1 .. next_inode - 1 :
    \/ \E a \in Changes : Ask(t, u, [Idle EXCEPT !.op = "setattr", !.ino = i, !.attrs = a])
    \/ i \in Dirs /\ Ask(t, u, [Idle EXCEPT !.op = "readdir", !.ino = i])
    \/ i \notin Dirs /\ \E o \in 0 .. MaxSize, l \in 1 .. MaxSize :
         LET q == [Idle EXCEPT !.ino = i, !.offset = o, !.length = l]
         IN  \/ /\ i \in DOMAIN inodes => o <= inodes[i].size
                /\ Ask(t, u, [q EXCEPT !.op = "read"])
             \/ /\ o + l <= MaxSize
                /\ \/ Ask(t, u, [q EXCEPT !.op = "write"])
                   \/ \E p \in BOOLEAN :
                        Ask(t, u, [q EXCEPT !.op = "fallocate", !.punch = p])
  BY DEF AskNode
<1>0. next_inode \in Int /\ next_inode >= 2
  BY DirFacts
<1>2. CASE \E a \in Changes : Ask(t, u, [Idle EXCEPT !.op = "setattr", !.ino = i, !.attrs = a])
  <2>1. PICK a \in Changes : Ask(t, u, [Idle EXCEPT !.op = "setattr", !.ino = i, !.attrs = a])
    BY <1>2
  <2>. DEFINE q == [Idle EXCEPT !.op = "setattr", !.ino = i, !.attrs = a]
  <2>2. IsRequest(q) /\ q.op = "setattr" /\ q.ino = i /\ q.attrs = a /\ q.newparent = 1
    BY IdleFields DEF IsRequest, Fields
  <2>3. Ask(t, u, q)
    BY <2>1
  <2>. HIDE DEF q
  <2>4. Sound(inodes, next_inode, q)
    BY <1>0, <2>2 DEF Sound
  <2>. QED
    BY <2>2, <2>3, <2>4, AskSafe
<1>3. CASE i \in Dirs /\ Ask(t, u, [Idle EXCEPT !.op = "readdir", !.ino = i])
  <2>. DEFINE q == [Idle EXCEPT !.op = "readdir", !.ino = i]
  <2>2. IsRequest(q) /\ q.op = "readdir" /\ q.ino = i /\ q.newparent = 1
    BY IdleFields DEF IsRequest, Fields
  <2>3. Ask(t, u, q)
    BY <1>3
  <2>. HIDE DEF q
  <2>4. Sound(inodes, next_inode, q)
    BY <1>0, <1>3, <2>2, DirFacts DEF Sound
  <2>. QED
    BY <2>2, <2>3, <2>4, AskSafe
<1>4. ASSUME NEW o \in 0 .. MaxSize, NEW l \in 1 .. MaxSize,
             NEW op \in {"read", "write", "fallocate"},
             op = "read" => (i \in DOMAIN inodes => o <= inodes[i].size),
             op # "read" => o + l <= MaxSize,
             NEW q, IsRequest(q), q.op = op, q.ino = i, q.offset = o, q.length = l,
             q.newparent = 1, Ask(t, u, q)
      PROVE  MemoryInv'
  <2>2. op = "read" => (i \in DOMAIN inodes => o <= inodes[i].len)
    BY <1>4 DEF MemoryInv, Safe, SafeTable, IsTable, IsNode
  <2>3. Sound(inodes, next_inode, q)
    BY <1>0, <1>4, <2>2, InMemoryFsAssumption DEF Sound
  <2>. QED
    BY <1>4, <2>3, AskSafe
<1>5. CASE i \notin Dirs /\ \E o \in 0 .. MaxSize, l \in 1 .. MaxSize :
         LET q == [Idle EXCEPT !.ino = i, !.offset = o, !.length = l]
         IN  \/ /\ i \in DOMAIN inodes => o <= inodes[i].size
                /\ Ask(t, u, [q EXCEPT !.op = "read"])
             \/ /\ o + l <= MaxSize
                /\ \/ Ask(t, u, [q EXCEPT !.op = "write"])
                   \/ \E p \in BOOLEAN :
                        Ask(t, u, [q EXCEPT !.op = "fallocate", !.punch = p])
  <2>1. PICK o \in 0 .. MaxSize, l \in 1 .. MaxSize :
         LET q == [Idle EXCEPT !.ino = i, !.offset = o, !.length = l]
         IN  \/ /\ i \in DOMAIN inodes => o <= inodes[i].size
                /\ Ask(t, u, [q EXCEPT !.op = "read"])
             \/ /\ o + l <= MaxSize
                /\ \/ Ask(t, u, [q EXCEPT !.op = "write"])
                   \/ \E p \in BOOLEAN :
                        Ask(t, u, [q EXCEPT !.op = "fallocate", !.punch = p])
    BY <1>5
  <2>. DEFINE q == [Idle EXCEPT !.ino = i, !.offset = o, !.length = l]
  <2>2. ASSUME NEW r, NEW op \in {"read", "write", "fallocate"}, NEW p,
               r = [q EXCEPT !.op = op] \/ r = [q EXCEPT !.op = op, !.punch = p]
        PROVE  /\ IsRequest(r) /\ r.op = op /\ r.ino = i /\ r.offset = o /\ r.length = l
               /\ r.newparent = 1
    <3>1. /\ IsRequest(q) /\ q.ino = i /\ q.offset = o /\ q.length = l
          /\ q.newparent = 1
      BY IdleFields DEF IsRequest, Fields
    <3>. HIDE DEF q
    <3>. QED
      BY <2>2, <3>1 DEF IsRequest, Fields
  <2>. HIDE DEF q
  <2>3. CASE /\ i \in DOMAIN inodes => o <= inodes[i].size
             /\ Ask(t, u, [q EXCEPT !.op = "read"])
    <3>. DEFINE r == [q EXCEPT !.op = "read"]
    <3>1. /\ IsRequest(r) /\ r.op = "read" /\ r.ino = i /\ r.offset = o
          /\ r.length = l /\ r.newparent = 1
      BY <2>2
    <3>2. Ask(t, u, r)
      BY <2>3
    <3>. HIDE DEF r
    <3>. QED
      BY <1>4, <2>3, <3>1, <3>2
  <2>4. CASE o + l <= MaxSize /\ Ask(t, u, [q EXCEPT !.op = "write"])
    <3>. DEFINE r == [q EXCEPT !.op = "write"]
    <3>1. /\ IsRequest(r) /\ r.op = "write" /\ r.ino = i /\ r.offset = o
          /\ r.length = l /\ r.newparent = 1
      BY <2>2
    <3>2. Ask(t, u, r)
      BY <2>4
    <3>. HIDE DEF r
    <3>. QED
      BY <1>4, <2>4, <3>1, <3>2
  <2>5. CASE /\ o + l <= MaxSize
             /\ \E p \in BOOLEAN : Ask(t, u, [q EXCEPT !.op = "fallocate", !.punch = p])
    <3>1. PICK p \in BOOLEAN : Ask(t, u, [q EXCEPT !.op = "fallocate", !.punch = p])
      BY <2>5
    <3>. DEFINE r == [q EXCEPT !.op = "fallocate", !.punch = p]
    <3>2. /\ IsRequest(r) /\ r.op = "fallocate" /\ r.ino = i /\ r.offset = o
          /\ r.length = l /\ r.newparent = 1
      BY <2>2
    <3>3. Ask(t, u, r)
      BY <3>1
    <3>. HIDE DEF r
    <3>. QED
      BY <1>4, <2>5, <3>2, <3>3
  <2>. QED
    BY <2>1, <2>3, <2>4, <2>5 DEF q
<1>. QED
  BY <1>1, <1>2, <1>3, <1>5
-----------------------------------------------------------------------------
(* The request of t is over and the table is as it was. *)
LEMMA EndSafe ==
  ASSUME MemoryInv, NEW t \in Task, End(t), UNCHANGED <<inodes, next_inode>>
  PROVE  Safe(inodes, next_inode, task)'
<1>0. Safe(inodes, next_inode, task) /\ SafeTable(inodes, next_inode)
  BY DEF MemoryInv, Safe
<1>1. next_inode \in Int /\ next_inode >= 2
  BY DirFacts
<1>2. task' = [task EXCEPT ![t] = Idle]
  BY DEF End
<1>3. next_inode + Cardinality(Makers(task')) <= MaxInode + 1
  BY <1>0, <1>2, MakersRoom
<1>4. Sound(inodes, next_inode, Idle)
  BY <1>1, IdleSound
<1>. QED
  BY <1>0, <1>2, <1>3, <1>4, IdleNoConflict, Asked

(* The first section of a method counts a check or ends the request. *)
LEMMA AccessSafe ==
  ASSUME MemoryInv, NEW t \in Task, Access(t) PROVE MemoryInv'
<1>0. Safe(inodes, next_inode, task)
  BY DEF MemoryInv
<1>1. UNCHANGED <<inodes, next_inode, poisoned>>
  BY DEF Access
<1>2. CASE End(t)
  BY <1>1, <1>2, EndSafe DEF MemoryInv
<1>3. CASE ~ poisoned /\ task' = [task EXCEPT ![t].checks = @ - 1] /\ task[t].checks > 0
  <2>. DEFINE q == task[t]
              r == [q EXCEPT !.checks = q.checks - 1]
  <2>1. task' = [task EXCEPT ![t] = r]
    BY <1>3
  <2>2. Sound(inodes, next_inode, q) /\ IsRequest(q) /\ q.checks > 0
    BY <1>0, <1>3 DEF Safe, Sound
  <2>. HIDE DEF q
  <2>3. /\ IsRequest(r) /\ r.op = q.op /\ r.ino = q.ino /\ r.name = q.name
        /\ r.newparent = q.newparent /\ r.newname = q.newname
        /\ r.offset = q.offset /\ r.length = q.length
        /\ r.punch = q.punch /\ r.attrs = q.attrs
    BY <2>2 DEF IsRequest, Fields
  <2>. HIDE DEF r
  <2>4. Sound(inodes, next_inode, r)
    BY <2>2, <2>3 DEF Sound
  <2>5. /\ Held(inodes, r) = Held(inodes, q) /\ Shares(r) = Shares(q)
        /\ Truncates(r) = Truncates(q)
    BY <2>3 DEF Held, Shares, Truncates
  <2>6. \A s \in Task \ {t} : ~ Conflict(inodes, q, task[s]) /\ ~ Conflict(inodes, task[s], q)
    BY <1>0 DEF Safe, q
  <2>7. \A s \in Task \ {t} : ~ Conflict(inodes, r, task[s]) /\ ~ Conflict(inodes, task[s], r)
    BY <2>3, <2>5, <2>6 DEF Conflict
  <2>8. next_inode + Cardinality(Makers(task')) <= MaxInode + 1
    BY <1>0, <2>1, <2>3, MakersRoom DEF q
  <2>9. Safe(inodes, next_inode, task')
    BY <1>0, <2>1, <2>4, <2>7, <2>8, Asked
  <2>. QED
    BY <1>1, <2>9 DEF MemoryInv
<1>. QED
  BY <1>2, <1>3 DEF Access

(* A file that gets shorter under a READ that was bounded by its size. *)
Shortens(i) ==
  /\ i \in DOMAIN inodes'
  /\ i \notin DOMAIN inodes \/ inodes'[i].len < inodes[i].len

(* A section that changes the table of its own directories only, shortens
   nothing unless it truncates and takes a number only when it was promised
   one keeps the invariant. *)
LEMMA ServedSafe ==
  ASSUME MemoryInv, NEW t \in Task, End(t), SafeTable(inodes', next_inode'),
         UNCHANGED poisoned,
         \/ next_inode' = next_inode
         \/ next_inode' = next_inode + 1 /\ task[t].op \in {"create", "mkdir"},
         \A x \in 1 .. next_inode - 1 :
           x \notin Held(inodes, task[t]) => SameDir(inodes, inodes', x),
         \A i \in 1 .. next_inode - 1 : Shortens(i) => Truncates(task[t])
  PROVE  MemoryInv'
<1>0. Safe(inodes, next_inode, task) /\ next_inode \in Int
  BY DirFacts DEF MemoryInv
<1>1. task' = [task EXCEPT ![t] = Idle] /\ next_inode <= next_inode'
  BY <1>0 DEF End
<1>2. next_inode' + Cardinality(Makers(task')) <= MaxInode + 1
  BY <1>0, <1>1, MakersRoom
<1>3. ASSUME NEW s \in Task \ {t}, task[s].op = "read", ~ ReadRaces,
             task[s].ino \in DOMAIN inodes'
      PROVE  LET i == task[s].ino
             IN  i \in DOMAIN inodes /\ inodes[i].len <= inodes'[i].len
  <2>. DEFINE i == task[s].ino
  <2>1. ~ Truncates(task[t])
    BY <1>0, <1>3 DEF Safe, Conflict
  <2>2. i \in 1 .. next_inode - 1
    BY <1>0 DEF Safe, Sound
  <2>3. ~ Shortens(i)
    BY <2>1, <2>2
  <2>4. i \in DOMAIN inodes /\ ~ (inodes'[i].len < inodes[i].len)
    BY <1>3, <2>3 DEF Shortens
  <2>5. inodes[i].len \in Int /\ inodes'[i].len \in Int
    <3>1. SafeTable(inodes, next_inode)
      BY <1>0 DEF Safe
    <3>. QED
      BY <1>3, <2>4, <3>1, LenType
  <2>. QED
    BY <2>4, <2>5
<1>4. Safe(inodes', next_inode', task')
  BY <1>0, <1>1, <1>2, <1>3, Served
<1>. QED
  BY <1>4 DEF MemoryInv

(* What is known of the request being served. *)
LEMMA RunsFacts ==
  ASSUME MemoryInv, NEW t \in Task, NEW op, Runs(t, op)
  PROVE  /\ task[t].op = op /\ End(t) /\ ~ poisoned
         /\ Sound(inodes, next_inode, task[t])
         /\ SafeTable(inodes, next_inode)
         /\ \A i \in DOMAIN inodes : IsNode(inodes[i]) /\ i \in 1 .. next_inode - 1
         /\ next_inode \in Int
BY DEF Runs, MemoryInv, Safe, SafeTable, IsTable

(* An operation that reports an error leaves the table. *)
LEMMA FailsSafe ==
  ASSUME MemoryInv, NEW t \in Task, End(t), Fails PROVE MemoryInv'
BY EndSafe DEF Fails, MemoryInv

(* create and mkdir have room for their number, taken when they were asked. *)
LEMMA MakeSafe ==
  ASSUME MemoryInv, NEW t \in Task, NEW op \in {"create", "mkdir"},
         NEW kind \in {"dir", "file"}, Make(t, op, kind)
  PROVE  MemoryInv'
<1>. DEFINE q == task[t]
<1>1. /\ q.op = op /\ End(t) /\ Sound(inodes, next_inode, q)
      /\ SafeTable(inodes, next_inode) /\ next_inode \in Int
      /\ \A i \in DOMAIN inodes : i \in 1 .. next_inode - 1
  BY RunsFacts DEF Make
<1>2. CASE Fails
  BY <1>1, <1>2, FailsSafe
<1>3. CASE /\ inodes' = Put([inodes EXCEPT ![q.ino].children = Put(@, q.name, next_inode)],
                            next_inode, FSNode(q.ino, kind, q.attrs.perm, q.by))
           /\ next_inode' = next_inode + 1
           /\ UNCHANGED poisoned
  <2>1. next_inode <= MaxInode
    <3>1. Safe(inodes, next_inode, task)
      BY DEF MemoryInv
    <3>2. task' = [task EXCEPT ![t] = Idle]
      BY <1>1 DEF End
    <3>3. next_inode + 1 + Cardinality(Makers(task')) <= MaxInode + 1
      BY <1>1, <3>1, <3>2, MakersRoom
    <3>4. Cardinality(Makers(task')) \in Nat
      BY FS_Subset, FS_CardinalityType, InMemoryFsAssumption DEF Makers
    <3>. QED
      BY <1>1, <3>3, <3>4, InMemoryFsAssumption
  <2>2. q.name \in Name /\ IsDir(inodes, q.ino) /\ At(inodes, q.ino, q.name) = {}
    BY <1>1 DEF Sound
  <2>. HIDE DEF q
  <2>3. /\ SafeTable(inodes', next_inode + 1)
        /\ \A x \in 1 .. next_inode - 1 \ {q.ino} : SameDir(inodes, inodes', x)
        /\ \A x \in DOMAIN inodes : x \in DOMAIN inodes' /\ inodes'[x].len = inodes[x].len
        /\ \A x \in DOMAIN inodes' : x \in DOMAIN inodes \/ x = next_inode
    <3>. DEFINE w == FSNode(q.ino, kind, q.attrs.perm, q.by)
    <3>1. inodes' = MadeTable(inodes, next_inode, q.ino, q.name, w)
      BY <1>3 DEF MadeTable
    <3>2. q.ino \in Inode
      BY <1>1, <2>2, InMemoryFsAssumption, <2>1 DEF IsDir, Inode
    <3>3. IsNode(w) /\ DOMAIN w.children = {} /\ w.parent = q.ino
      BY <3>2, NewNode
    <3>. HIDE DEF w
    <3>. QED
      BY <1>1, <2>1, <2>2, <3>1, <3>3, MadeSafe
  <2>4. q.ino \in Held(inodes, task[t])
    BY <1>1 DEF Held, q
  <2>5. \A i \in 1 .. next_inode - 1 : ~ Shortens(i)
    <3>1. \A i \in DOMAIN inodes : inodes[i].len \in Int
      BY <1>1, LenType
    <3>. QED
      BY <1>1, <2>3, <3>1 DEF Shortens
  <2>. QED
    BY <1>1, <1>3, <2>3, <2>4, <2>5, ServedSafe DEF q
<1>. QED
  BY <1>2, <1>3 DEF Make

(* readdir finds every child. *)
LEMMA ReaddirSafe ==
  ASSUME MemoryInv, NEW t \in Task, Readdir(t) PROVE MemoryInv'
<1>1. /\ End(t) /\ SafeTable(inodes, next_inode)
  BY RunsFacts DEF Readdir
<1>2. Fails
  BY <1>1 DEF Readdir, SafeTable, Leads
<1>. QED
  BY <1>1, <1>2, FailsSafe

(* read panics only when a truncation may have met it. *)
LEMMA ReadSafe ==
  ASSUME MemoryInv, NEW t \in Task, Read(t) PROVE MemoryInv'
<1>. DEFINE q == task[t]
<1>1. /\ End(t) /\ SafeTable(inodes, next_inode) /\ q.op = "read"
      /\ Sound(inodes, next_inode, q)
  BY RunsFacts DEF Read
<1>2. CASE Fails
  BY <1>1, <1>2, FailsSafe
<1>3. CASE Panics /\ q.ino \in DOMAIN inodes /\ q.offset > inodes[q.ino].len
  <2>1. inodes[q.ino].len \in Int
    BY <1>1, <1>3, LenType
  <2>2. ReadRaces
    BY <1>1, <1>3, <2>1 DEF Sound
  <2>. QED
    BY <1>1, <1>3, <2>2, EndSafe DEF Panics, bank, MemoryInv
<1>. QED
  BY <1>2, <1>3 DEF Read

(* A new length. *)
LEMMA ResizeSafe ==
  ASSUME MemoryInv, NEW t \in Task, NEW op, Runs(t, op), NEW i \in DOMAIN inodes,
         NEW l \in 0 .. MaxSize, inodes[i].len <= l, Becomes(Resized(i, l))
  PROVE  MemoryInv'
<1>1. /\ End(t) /\ SafeTable(inodes, next_inode) /\ IsNode(inodes[i])
      /\ \A x \in DOMAIN inodes : inodes[x].len \in Int
  BY RunsFacts, LenType
<1>. DEFINE v == [[inodes[i] EXCEPT !.len = l] EXCEPT !.size = l]
<1>3. /\ inodes' = [inodes EXCEPT ![i] = v]
      /\ UNCHANGED <<next_inode, poisoned>>
  BY DEF Becomes, Resized
<1>0. v = [[inodes[i] EXCEPT !.len = l] EXCEPT !.size = l]
  OBVIOUS
<1>. HIDE DEF v
<1>2. /\ IsNode(v) /\ v.children = inodes[i].children /\ v.kind = inodes[i].kind
      /\ v.parent = inodes[i].parent /\ v.len = l
  <2>. DEFINE o == inodes[i]
  <2>1. IsNode(o) /\ v = [[o EXCEPT !.len = l] EXCEPT !.size = l]
    BY <1>0, <1>1
  <2>. HIDE DEF o
  <2>2. /\ IsNode(v) /\ v.children = o.children /\ v.kind = o.kind
        /\ v.parent = o.parent /\ v.len = l
    <3>1. v = [parent |-> o.parent, kind |-> o.kind, perm |-> o.perm, uid |-> o.uid,
               gid |-> o.gid, size |-> l, len |-> l, children |-> o.children]
      BY <2>1 DEF IsNode
    <3>. QED
      BY <2>1, <3>1 DEF IsNode
  <2>. QED
    BY <2>2 DEF o
<1>4. /\ SafeTable(inodes', next_inode)
      /\ \A x : SameDir(inodes, inodes', x)
      /\ \A x \in DOMAIN inodes \ {i} : inodes'[x] = inodes[x]
      /\ DOMAIN inodes' = DOMAIN inodes /\ inodes'[i].len = l
  BY <1>1, <1>2, <1>3, ResizedSafe
<1>5. \A x : ~ Shortens(x)
  BY <1>1, <1>4 DEF Shortens
<1>. QED
  BY <1>1, <1>3, <1>4, <1>5, ServedSafe

(* write only lengthens. *)
LEMMA WriteSafe ==
  ASSUME MemoryInv, NEW t \in Task, Write(t) PROVE MemoryInv'
<1>. DEFINE q == task[t]
<1>1. /\ End(t) /\ SafeTable(inodes, next_inode) /\ q.op = "write"
      /\ Sound(inodes, next_inode, q) /\ Runs(t, "write")
  BY RunsFacts DEF Write
<1>2. CASE Fails
  BY <1>1, <1>2, FailsSafe
<1>3. CASE /\ q.ino \in DOMAIN inodes
           /\ Becomes(Resized(q.ino, Greater(inodes[q.ino].len, q.offset + q.length)))
  <2>. DEFINE l == Greater(inodes[q.ino].len, q.offset + q.length)
  <2>1. inodes[q.ino].len \in 0 .. MaxSize
    BY <1>3, RunsFacts, <1>1 DEF IsNode
  <2>2. q.offset \in Nat /\ q.length \in Nat /\ q.offset + q.length <= MaxSize
    BY <1>1 DEF Sound
  <2>3. l \in 0 .. MaxSize /\ inodes[q.ino].len <= l
    BY <2>1, <2>2, InMemoryFsAssumption DEF Greater
  <2>. HIDE DEF l
  <2>. QED
    BY <1>1, <1>3, <2>3, ResizeSafe DEF l
<1>. QED
  BY <1>2, <1>3 DEF Write

(* fallocate only lengthens; a hole leaves the length. *)
LEMMA FallocateSafe ==
  ASSUME MemoryInv, NEW t \in Task, Fallocate(t) PROVE MemoryInv'
<1>. DEFINE q == task[t]
            to == q.offset + q.length
            l == IF q.punch THEN inodes[q.ino].len ELSE Greater(inodes[q.ino].len, to)
<1>1. /\ End(t) /\ SafeTable(inodes, next_inode) /\ q.op = "fallocate"
      /\ Sound(inodes, next_inode, q) /\ Runs(t, "fallocate")
  BY RunsFacts DEF Fallocate
<1>2. CASE Fails
  BY <1>1, <1>2, FailsSafe
<1>3. CASE q.ino \in DOMAIN inodes /\ Becomes(Resized(q.ino, l))
  <2>1. inodes[q.ino].len \in 0 .. MaxSize
    BY <1>3, RunsFacts, <1>1 DEF IsNode
  <2>2. q.offset \in Nat /\ q.length \in Nat /\ q.offset + q.length <= MaxSize
    BY <1>1 DEF Sound
  <2>3. l \in 0 .. MaxSize /\ inodes[q.ino].len <= l
    BY <2>1, <2>2, InMemoryFsAssumption DEF Greater
  <2>. HIDE DEF l
  <2>. QED
    BY <1>1, <1>3, <2>3, ResizeSafe DEF l
<1>. QED
  BY <1>2, <1>3 DEF Fallocate
-----------------------------------------------------------------------------
(* The attributes that setattr may be asked for are not parent, kind or
   children, and a new size is also the new length. *)
LEMMA ChangedNode ==
  ASSUME NEW v, IsNode(v), NEW a \in Changes,
         NEW w, w = [f \in DOMAIN v |->
                       IF f \in DOMAIN a THEN a[f]
                       ELSE IF f = "len" /\ "size" \in DOMAIN a THEN a.size
                       ELSE v[f]]
  PROVE  /\ IsNode(w) /\ w.children = v.children /\ w.kind = v.kind
         /\ w.parent = v.parent
         /\ "size" \notin DOMAIN a => w.len = v.len
<1>1. DOMAIN v = {"parent", "kind", "perm", "uid", "gid", "size", "len", "children"}
  BY DEF IsNode
<1>2. /\ DOMAIN a \subseteq {"perm", "uid", "gid", "size"}
      /\ "size" \in DOMAIN a => a["size"] \in 0 .. MaxSize
  BY InMemoryFsAssumption
<1>3. w = [parent |-> w.parent, kind |-> w.kind, perm |-> w.perm, uid |-> w.uid,
           gid |-> w.gid, size |-> w.size, len |-> w.len, children |-> w.children]
  BY <1>1
<1>4. w.parent = v.parent /\ w.kind = v.kind /\ w.children = v.children
  BY <1>1, <1>2
<1>5. /\ "size" \notin DOMAIN a => w.len = v.len /\ w.size = v.size
      /\ "size" \in DOMAIN a => w.len = a["size"] /\ w.size = a["size"]
  BY <1>1, <1>2
<1>6. w.len \in 0 .. MaxSize /\ w.size = w.len
  BY <1>2, <1>5 DEF IsNode
<1>. HIDE <1>1
<1>. QED
  BY <1>3, <1>4, <1>5, <1>6 DEF IsNode

(* setattr shortens only when it truncates. *)
LEMMA SetattrSafe ==
  ASSUME MemoryInv, NEW t \in Task, Setattr(t) PROVE MemoryInv'
<1>. DEFINE q == task[t]
            i == q.ino
            a == q.attrs
            node == inodes[i]
            set == [f \in DOMAIN node |->
                      IF f \in DOMAIN a THEN a[f]
                      ELSE IF f = "len" /\ "size" \in DOMAIN a THEN a.size
                      ELSE node[f]]
<1>1. /\ End(t) /\ SafeTable(inodes, next_inode) /\ q.op = "setattr"
      /\ Sound(inodes, next_inode, q)
      /\ \A x \in DOMAIN inodes : IsNode(inodes[x])
  BY RunsFacts DEF Setattr
<1>2. CASE Fails
  BY <1>1, <1>2, FailsSafe
<1>3. CASE i \in DOMAIN inodes /\ Becomes([inodes EXCEPT ![i] = set])
  <2>1. IsNode(node) /\ a \in Changes
    BY <1>1, <1>3 DEF Sound
  <2>2. /\ IsNode(set) /\ set.children = node.children /\ set.kind = node.kind
        /\ set.parent = node.parent
        /\ "size" \notin DOMAIN a => set.len = node.len
    <3>. DEFINE v == set
    <3>1. v = set
      OBVIOUS
    <3>. HIDE DEF v, a, node
    <3>. QED
      BY <2>1, <3>1, ChangedNode
  <2>3. /\ inodes' = [inodes EXCEPT ![i] = set] /\ UNCHANGED <<next_inode, poisoned>>
    BY <1>3 DEF Becomes
  <2>. HIDE DEF set
  <2>4. set.len \in 0 .. MaxSize
    BY <2>2 DEF IsNode
  <2>5. /\ SafeTable(inodes', next_inode)
        /\ \A x : SameDir(inodes, inodes', x)
        /\ \A x \in DOMAIN inodes \ {i} : inodes'[x] = inodes[x]
        /\ DOMAIN inodes' = DOMAIN inodes /\ inodes'[i].len = set.len
    <3>1. ASSUME NEW l \in 0 .. MaxSize, l = set.len
          PROVE  /\ SafeTable(inodes', next_inode)
                 /\ \A x : SameDir(inodes, inodes', x)
                 /\ \A x \in DOMAIN inodes \ {i} : inodes'[x] = inodes[x]
                 /\ DOMAIN inodes' = DOMAIN inodes /\ inodes'[i].len = l
      BY <1>1, <1>3, <2>2, <2>3, <3>1, ResizedSafe
    <3>. QED
      BY <2>4, <3>1
  <2>6. ASSUME NEW x, Shortens(x) PROVE Truncates(q)
    <3>1. x \in DOMAIN inodes /\ inodes[x].len \in Int
      BY <1>1, <2>5, <2>6, LenType DEF Shortens
    <3>2. x = i
      BY <2>5, <2>6, <3>1 DEF Shortens
    <3>3. "size" \in DOMAIN a
      BY <2>2, <2>5, <2>6, <3>1, <3>2 DEF Shortens
    <3>. QED
      BY <1>1, <3>3 DEF Truncates
  <2>. QED
    BY <1>1, <2>3, <2>5, <2>6, ServedSafe
<1>. QED
  BY <1>2, <1>3 DEF Setattr

(* Names go and come; no length changes. *)
LEMMA KeepsLengths ==
  ASSUME MemoryInv,
         \A x \in DOMAIN inodes' : x \in DOMAIN inodes /\ inodes'[x].len = inodes[x].len
  PROVE  \A x : ~ Shortens(x)
<1>1. SafeTable(inodes, next_inode)
  BY DEF MemoryInv, Safe
<1>. QED
  BY <1>1, LenType DEF Shortens

(* rename: what it was asked for is still so. *)
LEMMA RenameSafe ==
  ASSUME MemoryInv, NEW t \in Task, Rename(t) PROVE MemoryInv'
<1>. DEFINE q == task[t]
            d == q.ino
            n == q.name
            e == q.newparent
            m == q.newname
<1>1. /\ End(t) /\ SafeTable(inodes, next_inode) /\ q.op = "rename"
      /\ Sound(inodes, next_inode, q)
  BY RunsFacts DEF Rename
<1>2. /\ At(inodes, d, n) # {} /\ m \in Name /\ IsDir(inodes, e)
      /\ e \notin At(inodes, d, n)
      /\ d \notin At(inodes, e, m)
      /\ At(inodes, e, m) \cap At(inodes, d, n) = {}
  BY <1>1 DEF Sound
<1>3. PICK c : At(inodes, d, n) = {c}
  BY <1>2 DEF At
<1>4. e # c /\ c \notin At(inodes, e, m)
  BY <1>2, <1>3
<1>5. inodes' = MovedTable(d, n, e, m) /\ UNCHANGED <<next_inode, poisoned>>
  BY <1>2, TargetIsAt DEF Rename, Becomes
<1>6. Held(inodes, q) = {d, e} \cup At(inodes, e, m)
  BY <1>1 DEF Held
<1>. HIDE DEF q, d, n, e, m
<1>7. /\ SafeTable(inodes', next_inode)
      /\ \A x : x \notin {d, e} \cup At(inodes, e, m) => SameDir(inodes, inodes', x)
      /\ \A x \in DOMAIN inodes' : x \in DOMAIN inodes /\ inodes'[x].len = inodes[x].len
  <2>1. LET g == MovedTable(d, n, e, m)
        IN  /\ SafeTable(g, next_inode)
            /\ \A x : x \notin {d, e} \cup At(inodes, e, m) => SameDir(inodes, g, x)
            /\ \A x \in DOMAIN g : x \in DOMAIN inodes /\ g[x].len = inodes[x].len
    BY <1>1, <1>2, <1>3, <1>4, MovedSafe
  <2>. QED
    BY <1>5, <2>1
<1>8. \A x : ~ Shortens(x)
  BY <1>7, KeepsLengths
<1>. QED
  BY <1>1, <1>5, <1>6, <1>7, <1>8, ServedSafe DEF q

(* unlink and rmdir, for a name that is there. *)
LEMMA UnnameSafe ==
  ASSUME MemoryInv, NEW t \in Task, NEW op \in {"unlink", "rmdir"}, Runs(t, op),
         NEW c, Target(task[t].ino, task[t].name) = {c},
         Becomes(LeftTable(inodes, task[t].ino, task[t].name, c))
  PROVE  MemoryInv'
<1>. DEFINE q == task[t]
            d == q.ino
            n == q.name
<1>1. /\ End(t) /\ SafeTable(inodes, next_inode) /\ q.op = op
      /\ At(inodes, d, n) = {c}
  BY RunsFacts, TargetIsAt
<1>2. inodes' = LeftTable(inodes, d, n, c) /\ UNCHANGED <<next_inode, poisoned>>
  BY DEF Becomes
<1>3. Held(inodes, q) = {d, c}
  BY <1>1 DEF Held
<1>. HIDE DEF q, d, n
<1>4. /\ SafeTable(inodes', next_inode)
      /\ \A x : x \notin {c, d} => SameDir(inodes, inodes', x)
      /\ \A x \in DOMAIN inodes' : x \in DOMAIN inodes /\ inodes'[x].len = inodes[x].len
  BY <1>1, <1>2, UnnamedSafe
<1>5. \A x : ~ Shortens(x)
  BY <1>4, KeepsLengths
<1>. QED
  BY <1>1, <1>2, <1>3, <1>4, <1>5, ServedSafe DEF q

(* The name that unlink and rmdir were asked for is still there. *)
LEMMA NameFacts ==
  ASSUME MemoryInv, NEW t \in Task, NEW op \in {"unlink", "rmdir"}, Runs(t, op)
  PROVE  /\ End(t) /\ task[t].ino \in DOMAIN inodes
         /\ \E c : Target(task[t].ino, task[t].name) = {c} /\ c \in DOMAIN inodes
<1>1. /\ End(t) /\ SafeTable(inodes, next_inode) /\ task[t].op = op
      /\ Sound(inodes, next_inode, task[t])
  BY RunsFacts
<1>2. At(inodes, task[t].ino, task[t].name) # {}
  BY <1>1 DEF Sound
<1>. QED
  BY <1>1, <1>2, TargetIsAt DEF SafeTable, Leads, At, IsDir

(* unlink removes the node it was asked for. *)
LEMMA UnlinkSafe ==
  ASSUME MemoryInv, NEW t \in Task, Unlink(t) PROVE MemoryInv'
<1>1. Runs(t, "unlink")
  BY DEF Unlink
<1>2. task[t].ino \in DOMAIN inodes
  BY <1>1, NameFacts
<1>3. PICK c : Target(task[t].ino, task[t].name) = {c}
  BY <1>1, NameFacts
<1>4. Becomes(LeftTable(inodes, task[t].ino, task[t].name, c))
  BY <1>2, <1>3 DEF Unlink, LeftTable
<1>. QED
  BY <1>1, <1>3, <1>4, UnnameSafe

(* rmdir removes it when it is an empty directory. *)
LEMMA RmdirSafe ==
  ASSUME MemoryInv, NEW t \in Task, Rmdir(t) PROVE MemoryInv'
<1>1. Runs(t, "rmdir")
  BY DEF Rmdir
<1>2. PICK c : Target(task[t].ino, task[t].name) = {c} /\ c \in DOMAIN inodes
  BY <1>1, NameFacts
<1>3. \/ Fails
      \/ Becomes(LeftTable(inodes, task[t].ino, task[t].name, c))
  BY <1>2 DEF Rmdir, LeftTable
<1>. QED
  BY <1>1, <1>2, <1>3, NameFacts, UnnameSafe, FailsSafe

(* Every step keeps the invariant. *)
LEMMA NextMemory == MemoryInv /\ [Next]_vars => MemoryInv'
<1>. SUFFICES ASSUME MemoryInv, [Next]_vars PROVE MemoryInv'
  OBVIOUS
<1>1. CASE UNCHANGED vars
  BY <1>1 DEF vars, MemoryInv
<1>2. CASE Next
  <2>1. PICK t \in Task :
          \/ task[t].op = "idle" /\ \E u \in User :
               AskNew(t, u) \/ AskName(t, u) \/ AskRename(t, u) \/ AskNode(t, u)
          \/ Access(t)
          \/ Create(t) \/ Mkdir(t) \/ Readdir(t) \/ Read(t)
          \/ Write(t) \/ Fallocate(t) \/ Setattr(t)
          \/ Rename(t) \/ Rmdir(t) \/ Unlink(t)
    BY <1>2 DEF Next
  <2>2. ASSUME task[t].op = "idle", NEW u \in User,
               AskNew(t, u) \/ AskName(t, u) \/ AskRename(t, u) \/ AskNode(t, u)
        PROVE  MemoryInv'
    BY <2>2, AskNewSafe, AskNameSafe, AskRenameSafe, AskNodeSafe
  <2>3. CASE Access(t)
    BY <2>3, AccessSafe
  <2>4. CASE Create(t) \/ Mkdir(t)
    BY <2>4, MakeSafe DEF Create, Mkdir
  <2>5. CASE Readdir(t) \/ Read(t)
    BY <2>5, ReaddirSafe, ReadSafe
  <2>6. CASE Write(t) \/ Fallocate(t) \/ Setattr(t)
    BY <2>6, WriteSafe, FallocateSafe, SetattrSafe
  <2>7. CASE Rename(t) \/ Rmdir(t) \/ Unlink(t)
    BY <2>7, RenameSafe, RmdirSafe, UnlinkSafe
  <2>. QED
    BY <2>1, <2>2, <2>3, <2>4, <2>5, <2>6, <2>7
<1>. QED
  BY <1>1, <1>2

(* The invariant holds in every state, for any number of tasks. *)
LEMMA MemoryInvHolds == Spec => []MemoryInv
BY InitMemory, NextMemory, PTL DEF Spec

(* The bank, the numbers and the requests have their types (TypeOK). *)
THEOREM MemoryTypes == Spec => []TypeOK
BY MemoryInvHolds, InvMeans, PTL

(* Every name leads to a node that is there, says the directory it was
   found in and has no other name, whatever is served at once: the unwraps
   of readdir, rmdir and unlink rely on it (EntriesLead). *)
THEOREM EveryNameLeads == Spec => []EntriesLead
BY MemoryInvHolds, InvMeans, PTL

(* What a request that changes names was sent for is still so when its
   second section runs, although the lock was let go after the check of the
   rights: the kernel keeps the others away from its directories and from
   what it removes or replaces (StillThere). *)
THEOREM CheckedIsStillSo == Spec => []StillThere
BY MemoryInvHolds, InvMeans, PTL

(* No request panics while it holds the mutex, provided no truncation runs
   while a READ of the same mount waits for its second section
   (NotPoisoned; with it the slice of read may start behind the end). *)
THEOREM NeverPoisoned ==
  ASSUME ~ ReadRaces PROVE Spec => []NotPoisoned
<1>1. MemoryInv => NotPoisoned
  BY DEF MemoryInv, NotPoisoned
<1>. QED
  BY <1>1, MemoryInvHolds, PTL
=============================================================================
