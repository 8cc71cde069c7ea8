-------------------------- MODULE InodeMapperProofs --------------------------
(***************************************************************************)
(* The life of an InodeMapper, for every number of inodes, every set of    *)
(* names and data and every batch: the mapper stays safe in the sense of   *)
(* InodeMapProofs, because each step of InodeMapper is one of the methods  *)
(* proved there, called on a present parent.  For an owner that never      *)
(* renames, the two tables agree, a removal is whole, and every step is a  *)
(* step of the tree of names of Namespace, or none.                        *)
(***************************************************************************)
EXTENDS InodeMapperTree, InodeMapProofs, NumberInduction, SequenceTheorems

LEMMA SafeMapIsInv ==
  SafeMap(map) <=> IsMap(map) /\ EntryAgrees /\ RootKept /\ NextNumberFree
BY DEF SafeMap, EntryAgrees, RootKept, NextNumberFree

LEMMA InvUnfolds ==
  MapperInv <=> SafeMap(map) /\ job \in Jobs /\ JobPlaced
BY SafeMapIsInv DEF MapperInv, TypeOK

LEMMA InvUnfoldsNext ==
  MapperInv' <=> SafeMap(map') /\ job' \in Jobs /\ JobPlaced'
BY DEF MapperInv, TypeOK, SafeMap, EntryAgrees, RootKept, NextNumberFree

LEMMA NoJobType == NoJob \in Jobs /\ NoJob.path = <<>> /\ NoJob.base = Root
                   /\ NoJob.at = Root
BY InodeMapAssumption, InodeMapperAssumption DEF NoJob, Jobs, Inode, Root

(* The job that starts a loop or goes to the next entry. *)
LEMMA NextEntriesType ==
  ASSUME NEW base \in Inode, NEW todo \in SUBSET Entry
  PROVE  LET j == NextEntries(base, todo)
         IN  /\ j \in Jobs /\ j.path = <<>>
             /\ j.at = Root /\ j.base \in {Root, base}
<1>1. CASE todo = {}
  BY <1>1, NoJobType DEF NextEntries
<1>2. CASE todo # {}
  <2>1. NextEntries(base, todo) = [NoJob EXCEPT !.base = base, !.todo = todo]
    BY <1>2 DEF NextEntries
  <2>. QED
    BY <2>1, NoJobType DEF Jobs
<1>. QED
  BY <1>1, <1>2

(* A safe step that leaves the loop alone and takes no inode it stands on. *)
LEMMA KeepsJob ==
  ASSUME MapperInv, SafeMap(map'), UNCHANGED job,
         job.base \in Present(map'), job.at \in Present(map')
  PROVE  MapperInv'
BY InvUnfolds, InvUnfoldsNext DEF JobPlaced

LEMMA InitInv == Init => MapperInv
<1>. SUFFICES ASSUME Init PROVE MapperInv
  OBVIOUS
<1>1. SafeMap(map)
  BY NewMapSafe DEF Init
<1>2. JobPlaced
  BY <1>1, NoJobType DEF Init, JobPlaced, SafeMap, RootStays
<1>. QED
  BY <1>1, <1>2, NoJobType, InvUnfolds DEF Init

LEMMA InsertChildInv ==
  ASSUME MapperInv, NEW p \in Inode, NEW n \in Name, NEW d \in Data,
         InsertChild(p, n, d)
  PROVE  MapperInv'
<1>1. SafeMap(map') /\ Present(map) \subseteq Present(map')
  BY InsertSafe, InvUnfolds DEF InsertChild
<1>. QED
  BY <1>1, KeepsJob DEF InsertChild, MapperInv, JobPlaced

LEMMA StartInsertChildrenInv ==
  ASSUME MapperInv, NEW p \in Inode, NEW batch \in Batches,
         StartInsertChildren(p, batch)
  PROVE  MapperInv'
<1>1. SafeMap(map') /\ Present(map') = Present(map)
  BY EnsureMapSafe, InvUnfolds DEF StartInsertChildren
<1>2. job' \in Jobs /\ job'.path = <<>> /\ job'.at = Root /\ job'.base \in {Root, p}
  BY NextEntriesType, InodeMapperAssumption DEF StartInsertChildren
<1>3. p \in Present(map') /\ Root \in Present(map')
  BY <1>1 DEF StartInsertChildren, SafeMap, RootStays
<1>. QED
  BY <1>1, <1>2, <1>3, InvUnfoldsNext DEF JobPlaced

LEMMA StartBatchInsertInv ==
  ASSUME MapperInv, NEW p \in Inode, NEW batch \in Batches,
         StartBatchInsert(p, batch)
  PROVE  MapperInv'
<1>1. SafeMap(map') /\ p \in Present(map')
  BY InvUnfolds DEF StartBatchInsert
<1>2. job' \in Jobs /\ job'.path = <<>> /\ job'.at = Root /\ job'.base \in {Root, p}
  BY NextEntriesType, InodeMapperAssumption DEF StartBatchInsert
<1>3. Root \in Present(map')
  BY <1>1 DEF SafeMap, RootStays
<1>. QED
  BY <1>1, <1>2, <1>3, InvUnfoldsNext DEF JobPlaced

LEMMA TakeEntryInv ==
  ASSUME MapperInv, TakeEntry
  PROVE  MapperInv'
<1>1. PICK e \in job.todo : NextEntry(e)
  BY DEF TakeEntry, Shortest
<1>2. SafeMap(map') /\ Present(map') = Present(map)
  BY <1>1, InvUnfolds DEF NextEntry
<1>3. job \in Jobs /\ job.base \in Present(map) /\ e \in Entry
  BY InvUnfolds DEF JobPlaced, Jobs
<1>4. e.path \in Seq(Name) /\ e.path # <<>> /\ e.data \in Data
  BY <1>3 DEF Entry
<1>5. /\ job' \in Jobs
      /\ job'.base = job.base /\ job'.at = job.base
      /\ job'.path = e.path /\ job'.done = 0
  BY <1>1, <1>3, <1>4 DEF NextEntry, Jobs
<1>6. 0 < Len(e.path)
  BY <1>4
<1>. QED
  BY <1>2, <1>3, <1>5, <1>6, InvUnfoldsNext DEF JobPlaced
(* The name the cursor is about to follow. *)
LEMMA ComponentType ==
  ASSUME MapperInv, job.path # <<>>
  PROVE  /\ Component \in Name /\ job.done \in Nat /\ job.done + 1 <= Len(job.path)
         /\ job.path \in Seq(Name) /\ job.at \in Present(map)
<1>1. job.path \in Seq(Name) /\ job.done \in Nat
  BY InvUnfolds DEF Jobs
<1>2. job.done < Len(job.path) /\ job.at \in Present(map)
  BY InvUnfolds DEF JobPlaced
<1>3. job.done + 1 \in 1 .. Len(job.path)
  BY <1>1, <1>2
<1>. QED
  BY <1>1, <1>2, <1>3 DEF Component

(* The cursor moves on to the inode i. *)
Stepped(j, i, k) == [j EXCEPT !.at = i, !.done = k]

LEMMA StepType ==
  ASSUME NEW j \in Jobs, NEW i \in Inode, NEW k \in Nat
  PROVE  LET r == Stepped(j, i, k)
         IN  /\ r \in Jobs /\ r.base = j.base /\ r.at = i
             /\ r.path = j.path /\ r.done = k
BY DEF Jobs, Stepped

LEMMA EnsureComponentInv ==
  ASSUME MapperInv, EnsureComponent
  PROVE  MapperInv'
<1>0. job \in Jobs /\ job.base \in Present(map) /\ SafeMap(map)
  BY InvUnfolds DEF JobPlaced
<1>1. job.path # <<>>
  BY <1>0 DEF EnsureComponent, Jobs
<1>2. /\ Component \in Name /\ job.done \in Nat /\ job.at \in Present(map)
      /\ job.path \in Seq(Name)
      /\ job.done + 1 < Len(job.path)
      /\ job.done + 1 \in Nat
  BY <1>1, ComponentType DEF EnsureComponent
<1>3. CASE Listed(map, job.at, Component)
  <2>. DEFINE c == Child(map, job.at, Component)
  <2>1. map' = map /\ job' = Stepped(job, c, job.done + 1)
    BY <1>3 DEF EnsureComponent, Stepped
  <2>2. c \in Present(map)
    BY <1>0, <1>3, ChildrenFacts DEF SafeMap, EntriesAgree, Listed, Child
  <2>3. c \in Inode
    BY <1>0, <2>2, InodeTypes DEF SafeMap
  <2>. HIDE DEF c
  <2>4. /\ job' \in Jobs /\ job'.base = job.base /\ job'.at = c
        /\ job'.path = job.path /\ job'.done = job.done + 1
    BY <1>0, <1>2, <2>1, <2>3, StepType
  <2>. QED
    BY <1>0, <1>2, <2>1, <2>2, <2>4, InvUnfoldsNext DEF JobPlaced
<1>4. CASE ~ Listed(map, job.at, Component)
  <2>1. /\ map' = Insert(map, job.at, Component, DefaultData)
        /\ job' = Stepped(job, map.next_inode, job.done + 1)
        /\ HasRoom(map)
    BY <1>4 DEF EnsureComponent, Stepped
  <2>2. /\ SafeMap(map')
        /\ Present(map') = Present(map) \cup {map.next_inode}
    BY <1>0, <1>2, <1>4, <2>1, InsertNewSafe, InodeMapperAssumption
  <2>3. map.next_inode \in Inode
    BY <2>2, InodeTypes DEF SafeMap
  <2>4. /\ job' \in Jobs /\ job'.base = job.base /\ job'.at = map.next_inode
        /\ job'.path = job.path /\ job'.done = job.done + 1
    BY <1>0, <1>2, <2>1, <2>3, StepType
  <2>. QED
    BY <1>0, <1>2, <2>2, <2>4, InvUnfoldsNext DEF JobPlaced
<1>. QED
  BY <1>3, <1>4

LEMMA InsertEntryInv ==
  ASSUME MapperInv, InsertEntry
  PROVE  MapperInv'
<1>0. job \in Jobs /\ job.base \in Present(map) /\ SafeMap(map)
  BY InvUnfolds DEF JobPlaced
<1>1. Component \in Name /\ job.at \in Present(map)
  BY ComponentType DEF InsertEntry
<1>2. job.data \in Data /\ job.todo \in SUBSET Entry /\ job.base \in Inode
  BY <1>0 DEF Jobs
<1>3. SafeMap(map') /\ Present(map) \subseteq Present(map')
  BY <1>0, <1>1, <1>2, InsertSafe DEF InsertEntry
<1>4. /\ job' \in Jobs /\ job'.path = <<>>
      /\ job'.at = Root /\ job'.base \in {Root, job.base}
  BY <1>2, NextEntriesType DEF InsertEntry
<1>5. Root \in Present(map')
  BY <1>3 DEF SafeMap, RootStays
<1>. QED
  BY <1>0, <1>3, <1>4, <1>5, InvUnfoldsNext DEF JobPlaced

(* Between two loops the job stands on the root. *)
LEMMA IdleKeepsJob ==
  ASSUME MapperInv, Idle, SafeMap(map'), UNCHANGED job
  PROVE  MapperInv'
BY KeepsJob, NoJobType DEF Idle, SafeMap, RootStays

LEMMA RenameInv ==
  ASSUME MapperInv, NEW p \in Inode, NEW q \in Inode, NEW o \in Name,
         NEW n \in Name, Rename(p, o, q, n)
  PROVE  MapperInv'
<1>1. SafeMap(map')
  BY MovedFacts, InvUnfolds DEF Rename
<1>. QED
  BY <1>1, IdleKeepsJob DEF Rename

LEMMA RemoveInv ==
  ASSUME MapperInv, NEW i \in Inode, Remove(i)
  PROVE  MapperInv'
<1>1. SafeMap(map')
  BY RemovedFacts, InvUnfolds DEF Remove
<1>. QED
  BY <1>1, IdleKeepsJob DEF Remove

LEMMA InsertionInv == ASSUME MapperInv, Insertion PROVE MapperInv'
BY InsertChildInv, StartInsertChildrenInv, StartBatchInsertInv, TakeEntryInv,
   EnsureComponentInv, InsertEntryInv DEF Insertion

LEMMA NextInv == ASSUME MapperInv, [Next]_vars PROVE MapperInv'
<1>1. CASE Insertion
  BY <1>1, InsertionInv
<1>2. CASE Removal
  BY <1>2, RemoveInv DEF Removal
<1>3. CASE \E p, q \in Inode, o, n \in Name : Rename(p, o, q, n)
  BY <1>3, RenameInv
<1>4. CASE UNCHANGED vars
  BY <1>4 DEF vars, MapperInv, TypeOK, EntryAgrees, RootKept, NextNumberFree, JobPlaced
<1>. QED
  BY <1>1, <1>2, <1>3, <1>4 DEF Next

-----------------------------------------------------------------------------
(* The invariant holds for any owner, and so does each of its parts. *)
THEOREM MapperSafe == Spec => []MapperInv
BY InitInv, NextInv, PTL DEF Spec

(* Every field of the mapper and of the running loop keeps its type. *)
THEOREM MapperTypeCorrect == Spec => []TypeOK
<1>1. MapperInv => TypeOK
  BY DEF MapperInv
<1>. QED
  BY <1>1, MapperSafe, PTL

(* A listed number is in the inode table, under the parent and name where
   it is listed: the unwraps of insert_child_unchecked, lookup and rename
   cannot fail. *)
THEOREM ListedInodesExist == Spec => []EntryAgrees
<1>1. MapperInv => EntryAgrees
  BY DEF MapperInv
<1>. QED
  BY <1>1, MapperSafe, PTL

(* No rename replaces the root and no cascade takes it. *)
THEOREM RootNeverLost == Spec => []RootKept
<1>1. MapperInv => RootKept
  BY DEF MapperInv
<1>. QED
  BY <1>1, MapperSafe, PTL

(* The next number is not in use, not even by what a replaced directory
   left behind. *)
THEOREM NextNumberNeverUsed == Spec => []NextNumberFree
<1>1. MapperInv => NextNumberFree
  BY DEF MapperInv
<1>. QED
  BY <1>1, MapperSafe, PTL

-----------------------------------------------------------------------------
(* The owner that does not move a directory below itself. *)
KernelInv == MapperInv /\ ParentsAcyclic

LEMMA NextKernelIsNext == [NextKernel]_vars => [Next]_vars
BY DEF NextKernel, Next, KernelRename

LEMMA SameInodesNoCycle ==
  ASSUME ParentsAcyclic, map'.inodes = map.inodes
  PROVE  ParentsAcyclic'
BY DEF ParentsAcyclic, NoCycle, Present

LEMMA NextKernelAcyclic ==
  ASSUME KernelInv, [NextKernel]_vars PROVE ParentsAcyclic'
<1>. USE DEF ParentsAcyclic
<1>0. SafeMap(map) /\ NoCycle(map)
  BY InvUnfolds DEF KernelInv
<1>1. ASSUME NEW p \in Inode, NEW n \in Name, NEW d \in Data, InsertChild(p, n, d)
      PROVE  NoCycle(map')
  BY <1>0, <1>1, InsertNoCycle DEF InsertChild
<1>2. ASSUME NEW p \in Inode, NEW batch \in Batches, StartInsertChildren(p, batch)
      PROVE  NoCycle(map')
  <2>1. map' = EnsureMap(map, p)
    BY <1>2 DEF StartInsertChildren
  <2>2. map'.inodes = map.inodes
    BY <1>0, <2>1 DEF EnsureMap, SafeMap, IsMap
  <2>. QED
    BY <1>0, <2>2, SameInodesNoCycle
<1>3. ASSUME UNCHANGED map PROVE NoCycle(map')
  BY <1>0, <1>3
<1>4. CASE EnsureComponent
  <2>1. job.path # <<>>
    BY <1>4, InvUnfolds DEF KernelInv, EnsureComponent, Jobs
  <2>2. Component \in Name /\ job.at \in Present(map)
    BY <2>1, ComponentType DEF KernelInv
  <2>. QED
    BY <1>0, <1>4, <2>2, InsertNoCycle, InodeMapperAssumption DEF EnsureComponent
<1>5. CASE InsertEntry
  <2>1. Component \in Name /\ job.at \in Present(map)
    BY <1>5, ComponentType DEF KernelInv, InsertEntry
  <2>2. job.data \in Data
    BY InvUnfolds DEF KernelInv, Jobs
  <2>. QED
    BY <1>0, <1>5, <2>1, <2>2, InsertNoCycle DEF InsertEntry
<1>6. ASSUME NEW i \in Inode, Remove(i) PROVE NoCycle(map')
  BY <1>0, <1>6, RemovedNoCycle DEF Remove
<1>7. ASSUME NEW p \in Inode, NEW q \in Inode, NEW o \in Name, NEW n \in Name,
             KernelRename(p, o, q, n)
      PROVE  NoCycle(map')
  BY <1>0, <1>7, MovedNoCycle DEF KernelRename, Rename
<1>8. CASE Insertion
  BY <1>1, <1>2, <1>3, <1>4, <1>5, <1>8
     DEF Insertion, StartBatchInsert, TakeEntry, NextEntry
<1>. QED
  BY <1>3, <1>6, <1>7, <1>8 DEF NextKernel, Removal, vars

(* resolve always returns: whatever was inserted, moved and removed, the
   walk along the parents never goes round in a circle. *)
THEOREM ResolveReturns == SpecKernel => []ParentsAcyclic
<1>1. Init => KernelInv
  BY InitInv, NewMapNoCycle DEF Init, KernelInv, ParentsAcyclic
<1>2. KernelInv /\ [NextKernel]_vars => KernelInv'
  BY NextKernelIsNext, NextKernelAcyclic, NextInv DEF KernelInv
<1>3. KernelInv => ParentsAcyclic
  BY DEF KernelInv
<1>. QED
  BY <1>1, <1>2, <1>3, PTL DEF SpecKernel

-----------------------------------------------------------------------------
(* A rename with the two tables in agreement, whichever directories it
   names. *)
LEMMA RenameKeeps ==
  ASSUME MapperInv, NEW p \in Present(map), NEW q \in Present(map), NEW n \in Name,
         NEW o \in DOMAIN Children(map, p), Rename(p, o, q, n)
  PROVE  LET c == Child(map, p, o)
         IN  /\ c \in Present(map')
             /\ \A i \in Present(map') : map'.inodes[i].data = map.inodes[i].data
             /\ \A i \in Present(map) \ Present(map') :
                  map.inodes[i].parent = q /\ map.inodes[i].name = n
             /\ \A d \in DOMAIN map.children \ {p, q} :
                  /\ d \in DOMAIN map'.children
                  /\ map'.children[d] = map.children[d]
<1>. DEFINE c    == Child(map, p, o)
            left == Unlink(map.children, p, o)
            gone == Replaced(left, q, n)
<1>0. SafeMap(map) /\ Listed(map, p, o) /\ map' = Moved(map, p, o, q, n)
  BY InvUnfolds DEF Rename
<1>1. /\ c \in Present(map) \ {Root} /\ c \notin gone
      /\ \A i : i \in Present(map') <=> i \in Present(map) /\ i \notin gone
      /\ map'.inodes[c].data = map.inodes[c].data
      /\ \A i \in Present(map') \ {c} : map'.inodes[i] = map.inodes[i]
  BY <1>0, MovedFacts
<1>2. p \in DOMAIN map.children /\ o \in DOMAIN map.children[p]
  BY <1>0, ListedMeans
<1>3. /\ \A e \in DOMAIN left : e \in DOMAIN map.children
      /\ \A e \in DOMAIN left : \A k \in DOMAIN left[e] :
           k \in DOMAIN map.children[e] /\ left[e][k] = map.children[e][k]
  BY <1>2, UnlinkFacts
<1>4. \A i \in gone : map.inodes[i].parent = q /\ map.inodes[i].name = n
  BY <1>0, <1>3 DEF Replaced, SafeMap, EntriesAgree
<1>5. ASSUME NEW d \in DOMAIN map.children \ {p, q}
      PROVE  d \in DOMAIN map'.children /\ map'.children[d] = map.children[d]
  <2>1. d \in DOMAIN left /\ left[d] = map.children[d]
    BY <1>2, UnlinkOthers
  <2>2. map'.children = IF q \in DOMAIN left
                        THEN [left EXCEPT ![q] = Put(@, n, c)] ELSE left
    BY <1>0 DEF Moved
  <2>. HIDE DEF left
  <2>. QED
    BY <2>1, <2>2
<1>. HIDE DEF c, left, gone
<1>6. \A i \in Present(map') : map'.inodes[i].data = map.inodes[i].data
  BY <1>1
<1>. QED
  BY <1>1, <1>4, <1>5, <1>6 DEF c

(* A rename takes away only the inode it replaces, and leaves the data and
   the children maps of the others alone: for any owner. *)
THEOREM RenamePreserves == Spec => RenameKeepsInodes
<1>1. MapperInv /\ [Next]_vars =>
        [\A p, q \in Present(map), n \in Name : \A o \in DOMAIN Children(map, p) :
           Rename(p, o, q, n) =>
             LET c == Child(map, p, o)
             IN  /\ c \in Present(map')
                 /\ \A i \in Present(map') : map'.inodes[i].data = map.inodes[i].data
                 /\ \A i \in Present(map) \ Present(map') :
                      map.inodes[i].parent = q /\ map.inodes[i].name = n
                 /\ \A d \in DOMAIN map.children \ {p, q} :
                      /\ d \in DOMAIN map'.children
                      /\ map'.children[d] = map.children[d]]_vars
  BY RenameKeeps
<1>. QED
  BY InitInv, NextInv, <1>1, PTL DEF Spec, RenameKeepsInodes

-----------------------------------------------------------------------------
(***************************************************************************)
(* The loops of insert_children and batch_insert: the cursor stands where  *)
(* lookup would arrive, however long the path is.                          *)
(***************************************************************************)

(* One step of lookup down a path; 0 where there is none. *)
Down(m, d, n) == IF d # 0 /\ Listed(m, d, n) THEN Child(m, d, n) ELSE 0

(* f holds what lookup finds behind each of the first l names of a path. *)
IsWalk(f, m, base, path, l) ==
  /\ f = [k \in 0 .. l |-> f[k]]
  /\ f[0] = base
  /\ \A k \in 1 .. l : f[k] = Down(m, f[k - 1], path[k])

LEMMA IsWalkMeans ==
  ASSUME NEW m, NEW base, NEW path, NEW l \in Nat, NEW f
  PROVE  IsWalk(f, m, base, path, l) <=>
           f = [k \in 0 .. l |-> IF k = 0 THEN base ELSE Down(m, f[k - 1], path[k])]
<1>. DEFINE g == [k \in 0 .. l |-> IF k = 0 THEN base ELSE Down(m, f[k - 1], path[k])]
<1>1. ASSUME f = g PROVE IsWalk(f, m, base, path, l)
  <2>1. f = [k \in 0 .. l |-> f[k]]
    BY <1>1
  <2>2. \A k \in 0 .. l : f[k] = g[k]
    BY <1>1
  <2>3. \A k \in 0 .. l : g[k] = IF k = 0 THEN base ELSE Down(m, f[k - 1], path[k])
    OBVIOUS
  <2>. HIDE DEF g
  <2>4. 0 \in 0 .. l /\ f[0] = base
    BY <2>2, <2>3
  <2>5. ASSUME NEW k \in 1 .. l PROVE f[k] = Down(m, f[k - 1], path[k])
    <3>1. k \in 0 .. l /\ k # 0
      OBVIOUS
    <3>. QED
      BY <2>2, <2>3, <3>1
  <2>. QED
    BY <2>1, <2>4, <2>5 DEF IsWalk
<1>2. ASSUME IsWalk(f, m, base, path, l) PROVE f = g
  <2>0. /\ f[0] = base
        /\ \A k \in 1 .. l : f[k] = Down(m, f[k - 1], path[k])
    BY <1>2 DEF IsWalk
  <2>1. ASSUME NEW k \in 0 .. l
        PROVE  f[k] = IF k = 0 THEN base ELSE Down(m, f[k - 1], path[k])
    <3>1. CASE k = 0
      BY <2>0, <3>1
    <3>2. CASE k # 0
      <4>1. k \in 1 .. l
        BY <3>2
      <4>. QED
        BY <2>0, <3>2, <4>1
    <3>. QED
      BY <3>1, <3>2
  <2>. QED
    BY <1>2, <2>1 DEF IsWalk
<1>. QED
  BY <1>1, <1>2

LEMMA WalkExists ==
  ASSUME NEW m, NEW base, NEW path, NEW l \in Nat
  PROVE  \E f : IsWalk(f, m, base, path, l)
<1>. DEFINE T == {n \in Nat : \E f : IsWalk(f, m, base, path, n)}
<1>1. 0 \in T
  <2>. DEFINE f == [k \in 0 .. 0 |-> base]
  <2>1. IsWalk(f, m, base, path, 0)
    BY DEF IsWalk
  <2>. QED
    BY <2>1
<1>2. ASSUME NEW n \in Nat, n \in T PROVE n + 1 \in T
  <2>1. PICK f : IsWalk(f, m, base, path, n)
    BY <1>2
  <2>2. /\ f[0] = base
        /\ \A k \in 1 .. n : f[k] = Down(m, f[k - 1], path[k])
    BY <2>1 DEF IsWalk
  <2>. DEFINE v == Down(m, f[n], path[n + 1])
              g == [k \in 0 .. n + 1 |-> IF k = n + 1 THEN v ELSE f[k]]
  <2>3. /\ g = [k \in 0 .. n + 1 |-> g[k]]
        /\ \A k \in 0 .. n : g[k] = f[k]
        /\ g[n + 1] = v
    OBVIOUS
  <2>. HIDE DEF g
  <2>4. \A k \in 1 .. n + 1 : g[k] = Down(m, g[k - 1], path[k])
    <3>. SUFFICES ASSUME NEW k \in 1 .. n + 1
                  PROVE  g[k] = Down(m, g[k - 1], path[k])
      OBVIOUS
    <3>1. CASE k = n + 1
      <4>1. k - 1 = n /\ n \in 0 .. n
        BY <3>1
      <4>2. g[k - 1] = f[n] /\ g[k] = v
        BY <2>3, <3>1, <4>1
      <4>. QED
        BY <3>1, <4>2
    <3>2. CASE k # n + 1
      <4>1. k \in 1 .. n /\ k \in 0 .. n /\ k - 1 \in 0 .. n
        BY <3>2
      <4>2. g[k] = f[k] /\ g[k - 1] = f[k - 1]
        BY <2>3, <4>1
      <4>. QED
        BY <2>2, <4>1, <4>2
    <3>. QED
      BY <3>1, <3>2
  <2>5. IsWalk(g, m, base, path, n + 1)
    <3>1. 0 \in 0 .. n /\ n + 1 \in Nat
      OBVIOUS
    <3>2. g[0] = base
      BY <2>2, <2>3, <3>1
    <3>. QED
      BY <2>3, <2>4, <3>2 DEF IsWalk
  <2>. QED
    BY <2>5
<1>. HIDE DEF T
<1>3. l \in T
  BY <1>1, <1>2, SetInduction
<1>. QED
  BY <1>3 DEF T

(* Walks along the same names agree. *)
LEMMA WalksAgree ==
  ASSUME NEW m, NEW base, NEW p, NEW q, NEW l \in Nat, NEW k \in Nat, k <= l,
         NEW f, IsWalk(f, m, base, p, l), NEW g, IsWalk(g, m, base, q, k),
         \A i \in 1 .. k : p[i] = q[i]
  PROVE  \A j \in 0 .. k : f[j] = g[j]
<1>. DEFINE T == {j \in Nat : j <= k => f[j] = g[j]}
<1>1. /\ f[0] = base /\ g[0] = base
      /\ \A j \in 1 .. l : f[j] = Down(m, f[j - 1], p[j])
      /\ \A j \in 1 .. k : g[j] = Down(m, g[j - 1], q[j])
  <2>1. /\ f[0] = base
        /\ \A j \in 1 .. l : f[j] = Down(m, f[j - 1], p[j])
    BY DEF IsWalk
  <2>2. /\ g[0] = base
        /\ \A j \in 1 .. k : g[j] = Down(m, g[j - 1], q[j])
    BY DEF IsWalk
  <2>. QED
    BY <2>1, <2>2
<1>2. 0 \in T
  BY <1>1
<1>3. ASSUME NEW j \in Nat, j \in T PROVE j + 1 \in T
  <2>. SUFFICES ASSUME j + 1 <= k PROVE f[j + 1] = g[j + 1]
    OBVIOUS
  <2>1. f[j] = g[j] /\ j + 1 \in 1 .. k /\ j + 1 \in 1 .. l /\ (j + 1) - 1 = j
    BY <1>3
  <2>. QED
    BY <1>1, <2>1
<1>. HIDE DEF T
<1>4. Nat \subseteq T
  BY <1>2, <1>3, SetInduction
<1>. QED
  BY <1>4 DEF T

(* Walk is what its recursion says. *)
LEMMA WalkIsWalk ==
  ASSUME NEW m, NEW base, NEW path, Len(path) \in Nat
  PROVE  \E f : /\ IsWalk(f, m, base, path, Len(path))
                /\ Walk(m, base, path) = f[Len(path)]
<1>. DEFINE W(f) == f = [k \in 0 .. Len(path) |->
                           IF k = 0 THEN base
                           ELSE IF f[k - 1] # 0 /\ Listed(m, f[k - 1], path[k])
                                THEN Child(m, f[k - 1], path[k]) ELSE 0]
            g == CHOOSE f : W(f)
<1>1. \A f : IsWalk(f, m, base, path, Len(path)) <=> W(f)
  BY IsWalkMeans DEF Down
<1>2. Walk(m, base, path) = g[Len(path)]
  BY DEF Walk
<1>. HIDE DEF W
<1>3. W(g)
  BY <1>1, WalkExists
<1>. QED
  BY <1>1, <1>2, <1>3

-----------------------------------------------------------------------------
Prefix(path, k) == SubSeq(path, 1, k)

LEMMA PrefixFacts ==
  ASSUME NEW path \in Seq(Name), NEW k \in 0 .. Len(path)
  PROVE  /\ Prefix(path, k) \in Seq(Name)
         /\ Len(Prefix(path, k)) = k
         /\ \A i \in 1 .. k : Prefix(path, k)[i] = path[i]
<1>1. \A i \in 1 .. k : path[i] \in Name
  OBVIOUS
<1>. QED
  BY <1>1 DEF Prefix

(* One walk serves all prefixes of a path. *)
LEMMA WalkPrefixes ==
  ASSUME NEW m, NEW base, NEW path \in Seq(Name)
  PROVE  \E f : /\ IsWalk(f, m, base, path, Len(path))
                /\ \A k \in 0 .. Len(path) : Walk(m, base, Prefix(path, k)) = f[k]
<1>0. Len(path) \in Nat
  OBVIOUS
<1>1. PICK f : IsWalk(f, m, base, path, Len(path))
  BY <1>0, WalkExists
<1>2. ASSUME NEW k \in 0 .. Len(path) PROVE Walk(m, base, Prefix(path, k)) = f[k]
  <2>. DEFINE q == Prefix(path, k)
  <2>1. Len(q) = k /\ \A i \in 1 .. k : path[i] = q[i]
    BY PrefixFacts
  <2>2. PICK g : IsWalk(g, m, base, q, k) /\ Walk(m, base, q) = g[k]
    BY <2>1, WalkIsWalk
  <2>. HIDE DEF q
  <2>3. \A j \in 0 .. k : f[j] = g[j]
    BY <1>1, <2>1, <2>2, WalksAgree
  <2>. QED
    BY <2>2, <2>3 DEF q
<1>. QED
  BY <1>1, <1>2

(* The walk starts at the base, goes one name down at a time, and ends with
   the whole path. *)
LEMMA WalkStart ==
  ASSUME NEW m, NEW base, NEW path \in Seq(Name)
  PROVE  Walk(m, base, Prefix(path, 0)) = base
<1>1. PICK f : /\ IsWalk(f, m, base, path, Len(path))
               /\ \A k \in 0 .. Len(path) : Walk(m, base, Prefix(path, k)) = f[k]
  BY WalkPrefixes
<1>2. f[0] = base /\ 0 \in 0 .. Len(path)
  BY <1>1 DEF IsWalk
<1>. QED
  BY <1>1, <1>2

LEMMA WalkNext ==
  ASSUME NEW m, NEW base, NEW path \in Seq(Name), NEW k \in Nat, k < Len(path)
  PROVE  Walk(m, base, Prefix(path, k + 1)) =
           Down(m, Walk(m, base, Prefix(path, k)), path[k + 1])
<1>1. PICK f : /\ IsWalk(f, m, base, path, Len(path))
               /\ \A j \in 0 .. Len(path) : Walk(m, base, Prefix(path, j)) = f[j]
  BY WalkPrefixes
<1>2. /\ k + 1 \in 1 .. Len(path) /\ k + 1 \in 0 .. Len(path)
      /\ k \in 0 .. Len(path) /\ (k + 1) - 1 = k
  OBVIOUS
<1>3. f[k + 1] = Down(m, f[k], path[k + 1])
  BY <1>1, <1>2 DEF IsWalk
<1>. QED
  BY <1>1, <1>2, <1>3

LEMMA WalkWhole ==
  ASSUME NEW path \in Seq(Name)
  PROVE  Prefix(path, Len(path)) = path
BY DEF Prefix

(* A walk that arrives goes the same way when every entry stays. *)
LEMMA WalkStays ==
  ASSUME NEW m, NEW r, NEW base, NEW path \in Seq(Name),
         \A d, n : Listed(m, d, n) => Listed(r, d, n) /\ Child(r, d, n) = Child(m, d, n),
         NEW k \in 0 .. Len(path), Walk(m, base, Prefix(path, k)) # 0
  PROVE  Walk(r, base, Prefix(path, k)) = Walk(m, base, Prefix(path, k))
<1>. DEFINE T == {j \in Nat : j <= Len(path) /\ Walk(m, base, Prefix(path, j)) # 0
                     => Walk(r, base, Prefix(path, j)) = Walk(m, base, Prefix(path, j))}
<1>1. 0 \in T
  BY WalkStart
<1>2. ASSUME NEW j \in Nat, j \in T PROVE j + 1 \in T
  <2>. DEFINE a == Walk(m, base, Prefix(path, j))
              b == Walk(m, base, Prefix(path, j + 1))
  <2>. SUFFICES ASSUME j + 1 <= Len(path), b # 0
                PROVE  Walk(r, base, Prefix(path, j + 1)) = b
    OBVIOUS
  <2>1. j < Len(path) /\ j <= Len(path)
    OBVIOUS
  <2>2. /\ b = Down(m, a, path[j + 1])
        /\ Walk(r, base, Prefix(path, j + 1)) =
             Down(r, Walk(r, base, Prefix(path, j)), path[j + 1])
    BY <2>1, WalkNext
  <2>. HIDE DEF b
  <2>3. a # 0 /\ Listed(m, a, path[j + 1])
    BY <2>2 DEF Down
  <2>4. Walk(r, base, Prefix(path, j)) = a
    BY <1>2, <2>1, <2>3
  <2>. HIDE DEF a
  <2>. QED
    BY <2>2, <2>3, <2>4 DEF Down
<1>. HIDE DEF T
<1>3. k \in T
  BY <1>1, <1>2, SetInduction
<1>. QED
  BY <1>3 DEF T

-----------------------------------------------------------------------------
(* The entry being inserted is no longer than those that wait. *)
Sorted == job.path # <<>> => \A e \in job.todo : Len(job.path) <= Len(e.path)

CursorInv == MapperInv /\ CursorOnPath /\ Sorted

LEMMA NoEntryCursor == ASSUME job.path = <<>> PROVE CursorOnPath /\ Sorted
BY DEF CursorOnPath, Sorted

(* Walk of what is behind the cursor. *)
LEMMA CursorMeans ==
  CursorOnPath <=> (job.path # <<>> => job.at = Walk(map, job.base, Prefix(job.path, job.done)))
BY DEF CursorOnPath, Prefix

LEMMA CursorMeansNext ==
  CursorOnPath' <=>
    (job'.path # <<>> => job'.at = Walk(map', job'.base, Prefix(job'.path, job'.done)))
BY DEF CursorOnPath, Prefix

LEMMA TakeEntryCursor ==
  ASSUME MapperInv, TakeEntry PROVE CursorOnPath' /\ Sorted'
<1>1. PICK e \in job.todo : NextEntry(e) /\ e \in Shortest(job.todo)
  BY DEF TakeEntry, Shortest
<1>2. e.path \in Seq(Name)
  BY InvUnfolds DEF Jobs, Entry
<1>3. /\ job'.base = job.base /\ job'.at = job.base
      /\ job'.path = e.path /\ job'.done = 0 /\ job'.todo = job.todo \ {e}
  BY <1>1, InvUnfolds DEF NextEntry, Jobs
<1>4. CursorOnPath'
  BY <1>2, <1>3, WalkStart, CursorMeansNext
<1>5. Sorted'
  BY <1>1, <1>3 DEF Shortest, Sorted
<1>. QED
  BY <1>4, <1>5

LEMMA EnsureComponentCursor ==
  ASSUME CursorInv, EnsureComponent PROVE CursorOnPath' /\ Sorted'
<1>0. MapperInv /\ SafeMap(map) /\ job \in Jobs
  BY InvUnfolds DEF CursorInv
<1>1. job.path # <<>>
  BY <1>0 DEF EnsureComponent, Jobs
<1>2. /\ Component \in Name /\ job.done \in Nat /\ job.at \in Present(map)
      /\ job.path \in Seq(Name) /\ job.done + 1 < Len(job.path)
  BY <1>0, <1>1, ComponentType DEF EnsureComponent
<1>. DEFINE b == job.base
            p == job.path
            k == job.done
<1>3. job.at = Walk(map, b, Prefix(p, k)) /\ job.at # 0 /\ job.at \in Int
  BY <1>0, <1>1, <1>2, CursorMeans, InodeTypes DEF CursorInv, SafeMap, Inode
<1>4. k < Len(p) /\ k \in 0 .. Len(p)
  BY <1>2
<1>5. /\ job'.path = p /\ job'.base = b /\ job'.done = k + 1 /\ job'.todo = job.todo
  BY <1>0 DEF EnsureComponent, Jobs
<1>6. \A m : Walk(m, b, Prefix(p, k + 1)) = Down(m, Walk(m, b, Prefix(p, k)), Component)
  BY <1>2, <1>4, WalkNext DEF Component
<1>7. CASE Listed(map, job.at, Component)
  <2>1. map' = map /\ job'.at = Child(map, job.at, Component)
    BY <1>0, <1>7 DEF EnsureComponent, Jobs
  <2>2. Walk(map', b, Prefix(p, k + 1)) = job'.at
    BY <1>3, <1>6, <1>7, <2>1 DEF Down
  <2>. QED
    BY <1>5, <2>2, CursorMeansNext DEF Sorted, CursorInv
<1>8. CASE ~ Listed(map, job.at, Component)
  <2>1. /\ map' = Insert(map, job.at, Component, DefaultData)
        /\ job'.at = map.next_inode
        /\ HasRoom(map)
    BY <1>0, <1>8 DEF EnsureComponent, Jobs
  <2>2. /\ \A e, n : Listed(map', e, n) <=> Listed(map, e, n) \/ (e = job.at /\ n = Component)
        /\ \A e, n : Listed(map, e, n) => Child(map', e, n) = Child(map, e, n)
        /\ Child(map', job.at, Component) = map.next_inode
    BY <1>0, <1>2, <1>8, <2>1, InsertListed, InodeMapperAssumption
  <2>3. Walk(map', b, Prefix(p, k)) = job.at
    BY <1>2, <1>3, <1>4, <2>2, WalkStays
  <2>4. Walk(map', b, Prefix(p, k + 1)) = job'.at
    BY <1>3, <1>6, <2>1, <2>2, <2>3 DEF Down
  <2>. QED
    BY <1>5, <2>4, CursorMeansNext DEF Sorted, CursorInv
<1>. QED
  BY <1>7, <1>8

LEMMA InitCursor == Init => CursorInv
BY InitInv, NoJobType, NoEntryCursor DEF Init, CursorInv

LEMMA NextCursor == ASSUME CursorInv, [Next]_vars PROVE CursorInv'
<1>0. MapperInv /\ job \in Jobs
  BY InvUnfolds DEF CursorInv
<1>1. MapperInv'
  BY <1>0, NextInv
<1>2. ASSUME job'.path = <<>> PROVE CursorOnPath' /\ Sorted'
  BY <1>2 DEF CursorOnPath, Sorted
<1>3. ASSUME Idle, UNCHANGED job PROVE job'.path = <<>>
  BY <1>3, NoJobType DEF Idle
<1>4. ASSUME NEW p \in Inode, NEW batch \in Batches,
             StartInsertChildren(p, batch) \/ StartBatchInsert(p, batch)
      PROVE  job'.path = <<>>
  BY <1>4, NextEntriesType, InodeMapperAssumption
     DEF StartInsertChildren, StartBatchInsert
<1>5. CASE InsertEntry
  <2>1. job'.path = <<>>
    BY <1>0, <1>5, NextEntriesType DEF InsertEntry, Jobs
  <2>. QED
    BY <1>1, <1>2, <2>1 DEF CursorInv
<1>6. CASE TakeEntry
  BY <1>0, <1>1, <1>6, TakeEntryCursor DEF CursorInv
<1>7. CASE EnsureComponent
  BY <1>1, <1>7, EnsureComponentCursor DEF CursorInv
<1>8. CASE UNCHANGED vars
  BY <1>1, <1>8 DEF vars, CursorInv, CursorOnPath, Sorted
<1>9. CASE Idle /\ UNCHANGED job
  BY <1>1, <1>2, <1>3, <1>9 DEF CursorInv
<1>10. CASE Insertion
  BY <1>1, <1>2, <1>4, <1>5, <1>6, <1>7, <1>9, <1>10
     DEF Insertion, InsertChild, CursorInv
<1>. QED
  BY <1>8, <1>9, <1>10 DEF Next, Removal, Remove, Rename

LEMMA CursorSafe == Spec => []CursorInv
BY InitCursor, NextCursor, PTL DEF Spec

(* The cursor of batch_insert, and with it path_cache, agrees with what
   lookup finds along the path. *)
THEOREM CursorFollowsLookup == Spec => []CursorOnPath
<1>1. CursorInv => CursorOnPath
  BY DEF CursorInv
<1>. QED
  BY <1>1, CursorSafe, PTL

(* Sorting the batch by length is enough: no parent is made by default that
   the batch has an entry for. *)
THEOREM ParentsComeFirst == Spec => []ParentsFirst
<1>1. CursorInv => ParentsFirst
  <2>. SUFFICES ASSUME CursorInv, job.done + 1 < Len(job.path), NEW e \in job.todo
                PROVE  e.path # SubSeq(job.path, 1, job.done + 1)
    BY DEF ParentsFirst
  <2>1. job.path \in Seq(Name) /\ job.done \in Nat /\ e.path \in Seq(Name)
    BY InvUnfolds DEF CursorInv, Jobs, Entry
  <2>2. job.path # <<>>
    BY <2>1
  <2>3. Len(job.path) <= Len(e.path)
    BY <2>2 DEF CursorInv, Sorted
  <2>4. job.done + 1 \in 0 .. Len(job.path)
    BY <2>1
  <2>5. Len(SubSeq(job.path, 1, job.done + 1)) = job.done + 1
    BY <2>1, <2>4, PrefixFacts DEF Prefix
  <2>. QED
    BY <2>1, <2>3, <2>5
<1>. QED
  BY <1>1, CursorSafe, PTL

LEMMA InsertKeepsInodes ==
  ASSUME NEW m, SafeMap(m), NEW p \in Present(m), NEW n \in Name, NEW d \in Data,
         Listed(m, p, n) \/ HasRoom(m), NEW i \in Present(m)
  PROVE  LET r == Insert(m, p, n, d)
         IN  /\ i \in Present(r)
             /\ r.inodes[i].parent = m.inodes[i].parent
             /\ r.inodes[i].name = m.inodes[i].name
             /\ r.inodes[i].data # m.inodes[i].data =>
                  Listed(m, p, n) /\ i = Child(m, p, n)
<1>1. CASE Listed(m, p, n)
  <2>1. Insert(m, p, n, d).inodes = [m.inodes EXCEPT ![Child(m, p, n)].data = d]
    BY <1>1 DEF Insert, SafeMap, IsMap
  <2>2. m.inodes \in [Present(m) -> InodeValue]
    BY DEF SafeMap, IsMap, Present
  <2>. QED
    BY <1>1, <2>1, <2>2, InsertPlaces DEF Present, InodeValue
<1>2. CASE ~ Listed(m, p, n)
  BY <1>2, InsertPlaces
<1>. QED
  BY <1>1, <1>2

LEMMA StepKeeps ==
  ASSUME CursorInv, [Next]_vars, job # NoJob, NEW i \in Present(map)
  PROVE  /\ i \in Present(map')
         /\ map'.inodes[i].parent = map.inodes[i].parent
         /\ map'.inodes[i].name = map.inodes[i].name
         /\ map'.inodes[i].data # map.inodes[i].data =>
              i = Walk(map, job.base, job.path)
<1>0. MapperInv /\ SafeMap(map) /\ job \in Jobs
  BY InvUnfolds DEF CursorInv
<1>1. CASE EnsureComponent
  <2>1. job.path # <<>>
    BY <1>0, <1>1 DEF EnsureComponent, Jobs
  <2>2. Component \in Name /\ job.at \in Present(map)
    BY <1>0, <2>1, ComponentType
  <2>. QED
    BY <1>0, <1>1, <2>2, InsertKeepsInodes, InodeMapperAssumption DEF EnsureComponent
<1>2. CASE InsertEntry
  <2>1. /\ Component \in Name /\ job.at \in Present(map)
        /\ job.path \in Seq(Name) /\ job.path # <<>> /\ job.done \in Nat
        /\ job.done + 1 = Len(job.path) /\ job.data \in Data
    BY <1>0, <1>2, ComponentType DEF InsertEntry, Jobs
  <2>2. job.at = Walk(map, job.base, Prefix(job.path, job.done))
    BY <2>1, CursorMeans DEF CursorInv
  <2>3. job.done < Len(job.path)
    BY <2>1
  <2>4. Walk(map, job.base, job.path) = Down(map, job.at, Component)
    <3>1. Walk(map, job.base, Prefix(job.path, job.done + 1)) =
            Down(map, job.at, Component)
      BY <2>1, <2>2, <2>3, WalkNext DEF Component
    <3>. QED
      BY <2>1, <3>1, WalkWhole
  <2>5. job.at # 0
    BY <1>0, <2>1, InodeTypes DEF SafeMap, Inode
  <2>6. map'.inodes[i].data # map.inodes[i].data =>
          Listed(map, job.at, Component) /\ i = Child(map, job.at, Component)
    BY <1>0, <1>2, <2>1, InsertKeepsInodes DEF InsertEntry
  <2>7. /\ i \in Present(map')
        /\ map'.inodes[i].parent = map.inodes[i].parent
        /\ map'.inodes[i].name = map.inodes[i].name
    BY <1>0, <1>2, <2>1, InsertKeepsInodes DEF InsertEntry
  <2>. QED
    BY <2>4, <2>5, <2>6, <2>7 DEF Down
<1>3. CASE UNCHANGED map
  BY <1>3
<1>4. ~ Idle
  BY DEF Idle
<1>. QED
  BY <1>1, <1>2, <1>3, <1>4
     DEF Next, Insertion, Removal, InsertChild, StartInsertChildren, StartBatchInsert,
         TakeEntry, NextEntry, Rename, Remove, vars

(* A loop of insertions keeps what was there, and changes the data of the
   inode at the path of the entry only. *)
THEOREM LoopsKeepInodes == Spec => InsertionKeeps
<1>1. CursorInv /\ [Next]_vars =>
        [job # NoJob =>
           \A i \in Present(map) :
             /\ i \in Present(map')
             /\ map'.inodes[i].parent = map.inodes[i].parent
             /\ map'.inodes[i].name = map.inodes[i].name
             /\ map'.inodes[i].data # map.inodes[i].data =>
                  i = Walk(map, job.base, job.path)]_vars
  BY StepKeeps
<1>. QED
  BY InitCursor, NextCursor, <1>1, PTL DEF Spec, InsertionKeeps

-----------------------------------------------------------------------------
(* An owner that never renames. *)

(* The inductive invariant. *)
ArchiveInv == MapperInv /\ TablesAgree

(* Such an owner is one of those MapperSafe is about. *)
LEMMA ArchiveIsKernel == [NextArchive]_vars => [Next]_vars
BY DEF NextArchive, Next

(* A new mapper has no inode but the root, so all are listed. *)
LEMMA NewMapListed == ASSUME NEW d PROVE AllListed(NewMap(d))
<1>1. \A i : i \in Present(NewMap(d)) <=> i = Root
  BY PutFacts, NothingFacts DEF NewMap, Present
<1>. QED
  BY <1>1 DEF AllListed

(* The invariant holds at the start, and every step keeps it. *)
LEMMA InitArchive == Init => ArchiveInv
BY InitInv, NewMapListed DEF Init, ArchiveInv, TablesAgree

(***************************************************************************)
(* What a step of an owner that never renames does to the mapper: nothing  *)
(* that a lookup would notice, one insertion, or one removal.              *)
(***************************************************************************)
Inserts(p, n, d) ==
  /\ p \in Present(map) /\ n \in Name /\ d \in Data
  /\ Listed(map, p, n) \/ HasRoom(map)
  /\ map' = Insert(map, p, n, d)

(* Every step is one of these. *)
LEMMA ArchiveStep ==
  ASSUME ArchiveInv, [NextArchive]_vars
  PROVE  \/ map' = map
         \/ \E p \in Present(map) : map' = EnsureMap(map, p)
         \/ \E p, n, d : Inserts(p, n, d)
         \/ \E i \in Present(map) \ {Root} : map' = Removed(map, i)
<1>1. ASSUME NEW p \in Inode, NEW n \in Name, NEW d \in Data, InsertChild(p, n, d)
      PROVE  Inserts(p, n, d)
  BY <1>1 DEF InsertChild, Inserts
<1>2. ASSUME NEW p \in Inode, NEW batch \in Batches, StartInsertChildren(p, batch)
      PROVE  p \in Present(map) /\ map' = EnsureMap(map, p)
  BY <1>2 DEF StartInsertChildren
<1>3. ASSUME NEW p \in Inode, NEW batch \in Batches, StartBatchInsert(p, batch)
      PROVE  map' = map
  BY <1>3 DEF StartBatchInsert
<1>4. ASSUME TakeEntry PROVE map' = map
  BY <1>4 DEF TakeEntry, NextEntry
<1>5. ASSUME EnsureComponent
      PROVE  map' = map \/ Inserts(job.at, Component, DefaultData)
  <2>1. job.path # <<>>
    BY <1>5, InvUnfolds DEF ArchiveInv, EnsureComponent, Jobs
  <2>2. Component \in Name /\ job.at \in Present(map)
    BY <2>1, ComponentType DEF ArchiveInv
  <2>. QED
    BY <1>5, <2>2, InodeMapperAssumption DEF EnsureComponent, Inserts
<1>6. ASSUME InsertEntry PROVE Inserts(job.at, Component, job.data)
  <2>1. Component \in Name /\ job.at \in Present(map)
    BY <1>6, ComponentType DEF ArchiveInv, InsertEntry
  <2>2. job.data \in Data
    BY InvUnfolds DEF ArchiveInv, Jobs
  <2>. QED
    BY <1>6, <2>1, <2>2 DEF InsertEntry, Inserts
<1>7. ASSUME NEW i \in Inode, Remove(i)
      PROVE  i \in Present(map) \ {Root} /\ map' = Removed(map, i)
  BY <1>7 DEF Remove
<1>8. CASE Insertion
  BY <1>1, <1>2, <1>3, <1>4, <1>5, <1>6, <1>8 DEF Insertion
<1>9. CASE Removal
  BY <1>7, <1>9 DEF Removal
<1>10. CASE UNCHANGED vars
  BY <1>10 DEF vars
<1>. QED
  BY <1>8, <1>9, <1>10 DEF NextArchive

LEMMA NextArchiveInv ==
  ASSUME ArchiveInv, [NextArchive]_vars PROVE ArchiveInv'
<1>0. SafeMap(map) /\ AllListed(map) /\ MapperInv
  BY InvUnfolds DEF ArchiveInv, TablesAgree
<1>1. MapperInv'
  BY <1>0, NextInv, ArchiveIsKernel
<1>2. ASSUME NEW p, NEW n, NEW d, Inserts(p, n, d) PROVE AllListed(map')
  BY <1>0, <1>2, InsertAllListed DEF Inserts
<1>3. AllListed(map')
  BY <1>0, <1>2, ArchiveStep, EnsureAllListed, RemovedAllListed
<1>. QED
  BY <1>1, <1>3 DEF ArchiveInv, TablesAgree

(* lookup and the inode table agree as long as nothing is renamed. *)
THEOREM LookupFindsAll == SpecArchive => []TablesAgree
<1>1. ArchiveInv => TablesAgree
  BY DEF ArchiveInv
<1>. QED
  BY InitArchive, NextArchiveInv, <1>1, PTL DEF SpecArchive

(* A removal leaves a parent for every inode that it leaves. *)
LEMMA RemovedOnly ==
  ASSUME ArchiveInv, NEW i \in Inode, Remove(i),
         NEW j \in Present(map'), map'.inodes[j].parent \in Present(map)
  PROVE  map'.inodes[j].parent \in Present(map')
<1>0. SafeMap(map) /\ AllListed(map) /\ i \in Present(map) \ {Root} /\ map' = Removed(map, i)
  BY InvUnfolds DEF ArchiveInv, TablesAgree, Remove
<1>1. AllListed(map') /\ SafeMap(map')
  BY <1>0, RemovedAllListed, RemovedFacts
<1>. QED
  BY <1>1 DEF AllListed, SafeMap, RootStays

(* remove leaves no inode behind whose parent it took away. *)
THEOREM RemovalIsWhole == SpecArchive => RemoveCascades
<1>1. ArchiveInv /\ [NextArchive]_vars =>
        [\A i \in Present(map) \ Present(map') :
           Remove(i) => \A j \in Present(map') :
                          map'.inodes[j].parent \in Present(map) =>
                            map'.inodes[j].parent \in Present(map')]_vars
  <2>1. ArchiveInv => \A i \in Present(map) : i \in Inode
    BY InvUnfolds, InodeTypes DEF ArchiveInv, SafeMap
  <2>. QED
    BY <2>1, RemovedOnly
<1>. QED
  BY InitArchive, NextArchiveInv, <1>1, PTL DEF SpecArchive, RemoveCascades

-----------------------------------------------------------------------------
Given == Root + 1 .. map.next_inode - 1

(* Where the refinement mapping puts an inode. *)
LEMMA PlacesFacts ==
  ASSUME SafeMap(map)
  PROVE  /\ DOMAIN Places = Present(map) \ {Root}
         /\ \A i \in DOMAIN Places : Places[i] = <<map.inodes[i].parent, map.inodes[i].name>>
         /\ Names!Tree = Present(map)
BY DEF Places, Names!Tree, SafeMap, RootStays

(* A step that moves no inode is no step of the tree. *)
LEMMA SameTree ==
  ASSUME SafeMap(map), map'.inodes = map.inodes, map'.next_inode = map.next_inode
  PROVE  UNCHANGED Names!tree
BY DEF Names!tree, Places, Present

(* An insertion of a name that is not listed is Create. *)
LEMMA InsertIsCreate ==
  ASSUME ArchiveInv, NEW p, NEW n, NEW d, Inserts(p, n, d)
  PROVE  [Names!Next]_(Names!tree)
<1>. DEFINE new == map.next_inode
<1>0. SafeMap(map) /\ AllListed(map) /\ IsMap(map)
  BY InvUnfolds DEF ArchiveInv, TablesAgree, SafeMap
<1>1. /\ Present(map') = IF Listed(map, p, n) THEN Present(map)
                         ELSE Present(map) \cup {new}
      /\ \A i \in Present(map) : /\ map'.inodes[i].parent = map.inodes[i].parent
                                 /\ map'.inodes[i].name = map.inodes[i].name
      /\ ~ Listed(map, p, n) =>
           /\ new \notin Present(map)
           /\ map'.inodes[new].parent = p
           /\ map'.inodes[new].name = n
  BY <1>0, InsertPlaces DEF Inserts
<1>2. CASE Listed(map, p, n)
  <2>1. Places' = Places
    BY <1>1, <1>2 DEF Places
  <2>2. map'.next_inode = map.next_inode
    BY <1>0, <1>2 DEF Inserts, Insert, IsMap
  <2>. QED
    BY <2>1, <2>2 DEF Names!tree
<1>3. CASE ~ Listed(map, p, n)
  <2>1. new \in Inode /\ new > Root /\ new # Root
    BY <1>0, <1>3, SafeNumbers, InodeMapAssumption
       DEF Inserts, HasRoom, IsMap, Inode, SafeMap, RootStays, Root
  <2>2. map'.next_inode = new + 1
    BY <1>3 DEF Inserts, Insert
  <2>3. new \notin Given /\ Given' = Given \cup {new}
    BY <2>1, <2>2 DEF Given, Root, Inode
  <2>4. p \in Names!Tree /\ n \in Name
    BY <1>0, PlacesFacts DEF Inserts
  <2>5. Names!Occupant(p, n) = {}
    BY <1>0, <1>3, PlacesFacts DEF Names!Occupant, AllListed
  <2>6. Places' = [j \in DOMAIN Places \cup {new} |->
                     IF j = new THEN <<p, n>> ELSE Places[j]]
    <3>1. Present(map') \ {Root} = DOMAIN Places \cup {new}
      BY <1>0, <1>1, <1>3, <2>1, PlacesFacts
    <3>2. \A j \in DOMAIN Places \cup {new} :
            <<map'.inodes[j].parent, map'.inodes[j].name>>
              = IF j = new THEN <<p, n>> ELSE Places[j]
      BY <1>0, <1>1, <1>3, PlacesFacts
    <3>. QED
      BY <3>1, <3>2 DEF Places
  <2>7. Places' # Places
    BY <1>0, <1>1, <1>3, <2>6, PlacesFacts
  <2>8. Names!Create(new, p, n)
    BY <2>3, <2>4, <2>5, <2>6 DEF Names!Create, Given
  <2>. QED
    BY <2>1, <2>4, <2>7, <2>8 DEF Names!Next
<1>. QED
  BY <1>2, <1>3

(* What remove takes away is what the tree has below the inode. *)
LEMMA BelowIsCascade ==
  ASSUME SafeMap(map), AllListed(map), NEW i \in Present(map) \ {Root}
  PROVE  Names!Below(Places, i) = Cascade(map, i)
<1>. DEFINE S == Cascade(map, i)
            B == Names!Below(Places, i)
<1>1. /\ DOMAIN Places = Present(map) \ {Root}
      /\ \A j \in DOMAIN Places : Places[j][1] = map.inodes[j].parent
  BY PlacesFacts
<1>2. /\ S \subseteq DOMAIN Places /\ i \in S
      /\ \A j \in Present(map) \ {Root} : map.inodes[j].parent \in S => j \in S
      /\ \A T \in SUBSET Present(map) :
           i \in T /\ (\A j \in Present(map) \ {Root} :
                         map.inodes[j].parent \in T => j \in T)
             => S \subseteq T
  BY <1>1, CascadeFacts
<1>3. B \subseteq S
  BY <1>1, <1>2 DEF Names!Below
<1>4. B \in SUBSET Present(map) /\ i \in B
  BY <1>1 DEF Names!Below
<1>5. ASSUME NEW j \in Present(map) \ {Root}, map.inodes[j].parent \in B
      PROVE  j \in B
  BY <1>1, <1>5 DEF Names!Below
<1>. QED
  BY <1>2, <1>3, <1>4, <1>5

(* A removal is Remove. *)
LEMMA RemovedIsRemove ==
  ASSUME ArchiveInv, NEW i \in Present(map) \ {Root}, map' = Removed(map, i)
  PROVE  [Names!Next]_(Names!tree)
<1>. DEFINE S == Cascade(map, i)
<1>0. SafeMap(map) /\ AllListed(map)
  BY InvUnfolds DEF ArchiveInv, TablesAgree
<1>1. /\ \A j : j \in Present(map') <=> j \in Present(map) /\ j \notin S
      /\ \A j \in Present(map') : map'.inodes[j] = map.inodes[j]
      /\ i \in S
  BY <1>0, RemovedFacts
<1>2. Names!Below(Places, i) = S
  BY <1>0, BelowIsCascade
<1>3. map'.next_inode = map.next_inode
  BY DEF Removed
<1>. HIDE DEF S
<1>4. Places' = Restrict(Places, DOMAIN Places \ S)
  BY <1>0, <1>1, PlacesFacts DEF Places, Restrict
<1>5. i \in DOMAIN Places /\ i \notin DOMAIN Places'
  BY <1>0, <1>1, PlacesFacts DEF Places
<1>6. Names!Remove(i)
  BY <1>2, <1>3, <1>4, <1>5 DEF Names!Remove, Names!Restrict, Restrict
<1>. QED
  BY <1>5, <1>6 DEF Names!Next

(* The initial states, and the steps, map to those of the tree. *)
LEMMA InitTree == Init => Names!Init
<1>. SUFFICES ASSUME Init PROVE Names!Init
  OBVIOUS
<1>1. PICK d \in Data : map = NewMap(d)
  BY DEF Init
<1>2. Present(map) \ {Root} = {} /\ map.next_inode = Root + 1
  BY <1>1, PutFacts, NothingFacts DEF NewMap, Present
<1>3. Places = [i \in {} |-> <<Root, Root>>]
  BY <1>2 DEF Places
<1>4. Root + 1 .. map.next_inode - 1 = {}
  BY <1>2 DEF Root
<1>. QED
  BY <1>3, <1>4 DEF Names!Init

LEMMA StepTree == ASSUME ArchiveInv, [NextArchive]_vars PROVE [Names!Next]_(Names!tree)
<1>0. SafeMap(map)
  BY InvUnfolds DEF ArchiveInv
<1>1. ASSUME NEW p \in Present(map), map' = EnsureMap(map, p)
      PROVE  UNCHANGED Names!tree
  BY <1>0, <1>1, EnsureListed, SameTree
<1>2. CASE map' = map
  BY <1>0, <1>2, SameTree
<1>. QED
  BY <1>1, <1>2, ArchiveStep, InsertIsCreate, RemovedIsRemove

(* A mapper that is never asked to rename implements the tree of names of
   Namespace: an insertion of a new name creates a node with a number never
   used before, remove (src/src/inode_mapper.rs) takes a node away with
   everything below it, and nothing else in the tree changes. *)
THEOREM MapperKeepsATree == SpecArchive => MapperIsATree
BY InitArchive, NextArchiveInv, InitTree, StepTree, PTL
   DEF SpecArchive, MapperIsATree, Names!Spec
=============================================================================
