----------------------------- MODULE InodeMapper -----------------------------
(***************************************************************************)
(* The life of one InodeMapper (src/src/inode_mapper.rs): its owner calls  *)
(* insert_child, insert_children, batch_insert, rename and remove in any   *)
(* order.  A call that returns an error leaves the mapper as it was.       *)
(*                                                                         *)
(* insert_children and batch_insert are loops that call the owner's value  *)
(* creators between two insertions; they advance one insertion at a time   *)
(* (job), and &mut self keeps every other call out until the loop is done. *)
(***************************************************************************)
EXTENDS InodeMap, FiniteSetsExt

CONSTANTS DefaultData,   \* what default_parent_creator makes
          Batches        \* the lists of entries the owner inserts

Entry == [path : Seq(Name) \ {<<>>}, data : Data]

ASSUME InodeMapperAssumption ==
  /\ DefaultData \in Data
  /\ Batches \subseteq SUBSET Entry

VARIABLES map,   \* the mapper
          job    \* the loop that is running

vars == <<map, job>>

(* base: the parent given by the caller; todo: entries not yet started;    *)
(* path, data: the entry being inserted (<<>> between two entries); done:  *)
(* how many components of path are behind the cursor at.                   *)
Jobs == [base : Inode, todo : SUBSET Entry, path : Seq(Name),
         data : Data, done : Nat, at : Inode]

NoJob == [base |-> Root, todo |-> {}, path |-> <<>>,
          data |-> DefaultData, done |-> 0, at |-> Root]
Idle == job = NoJob

TypeOK ==
  /\ IsMap(map)
  /\ job \in Jobs

Init ==
  /\ \E d \in Data : map = NewMap(d)
  /\ job = NoJob

-----------------------------------------------------------------------------
(* Err(ParentNotFound) when p is not in the table. *)
InsertChild(p, n, d) ==
  /\ Idle
  /\ p \in Present(map)
  /\ Listed(map, p, n) \/ HasRoom(map)
  /\ map' = Insert(map, p, n, d)
  /\ UNCHANGED job

(* Numbers left for every component of the batch (the bound MaxInode). *)
RoomFor(batch) ==
  map.next_inode + MapThenSumSet(LAMBDA e : Len(e.path), batch) <= MaxInode + 1

NextEntries(base, todo) ==
  IF todo = {} THEN NoJob ELSE [NoJob EXCEPT !.base = base, !.todo = todo]

StartInsertChildren(p, batch) ==
  /\ Idle
  /\ p \in Present(map)
  /\ \A e \in batch : Len(e.path) = 1
  /\ RoomFor(batch)
  /\ map' = EnsureMap(map, p)
  /\ job' = NextEntries(p, batch)

StartBatchInsert(p, batch) ==
  /\ Idle
  /\ p \in Present(map)
  /\ batch # {}
  /\ RoomFor(batch)
  /\ job' = NextEntries(p, batch)
  /\ UNCHANGED map

(* Mutant: the batch is not sorted. *)
Unsorted(todo) == todo

(* batch_insert sorts by path length; entries of one length come in the
   order of the caller's list, which is any. *)
Shortest(todo) ==
  {e \in todo : \A f \in todo : Len(e.path) <= Len(f.path)}

NextEntry(e) ==
  /\ job.path = <<>>
  /\ job' = [job EXCEPT !.todo = @ \ {e}, !.path = e.path, !.data = e.data,
                        !.done = 0, !.at = job.base]
  /\ UNCHANGED map

TakeEntry == \E e \in Shortest(job.todo) : NextEntry(e)

Component == job.path[job.done + 1]

(* Mutant: the cursor does not follow an entry that is there. *)
EnsureComponentStays ==
  /\ job.done + 1 < Len(job.path)
  /\ Listed(map, job.at, Component) \/ HasRoom(map)
  /\ job' = [job EXCEPT !.done = @ + 1]
  /\ map' = IF Listed(map, job.at, Component) THEN map
            ELSE Insert(map, job.at, Component, DefaultData)

(* Mutant: a parent that is there gets the default data again. *)
EnsureComponentResets ==
  LET m == Insert(map, job.at, Component, DefaultData)
  IN  /\ job.done + 1 < Len(job.path)
      /\ Listed(map, job.at, Component) \/ HasRoom(map)
      /\ job' = [job EXCEPT !.at = Child(m, job.at, Component), !.done = @ + 1]
      /\ map' = m

(* ensure_path_exists, one component: an entry that is there is followed
   as it is, a missing one is made by default_parent_creator.  path_cache
   remembers the same numbers, since nothing leaves the mapper meanwhile. *)
EnsureComponent ==
  /\ job.done + 1 < Len(job.path)
  /\ Listed(map, job.at, Component) \/ HasRoom(map)
  /\ IF Listed(map, job.at, Component)
     THEN /\ job' = [job EXCEPT !.at = Child(map, job.at, Component),
                                !.done = @ + 1]
          /\ UNCHANGED map
     ELSE /\ job' = [job EXCEPT !.at = map.next_inode, !.done = @ + 1]
          /\ map' = Insert(map, job.at, Component, DefaultData)

InsertEntry ==
  /\ job.path # <<>>
  /\ job.done + 1 = Len(job.path)
  /\ Listed(map, job.at, Component) \/ HasRoom(map)
  /\ map' = Insert(map, job.at, Component, job.data)
  /\ job' = NextEntries(job.base, job.todo)

(* Err(ParentNotFound), Err(NewParentNotFound) or Err(NotFound) when a
   parent is not in the table or the old name is not listed. *)
Rename(p, o, q, n) ==
  /\ Idle
  /\ p \in Present(map)
  /\ q \in Present(map)
  /\ Listed(map, p, o)
  /\ map' = Moved(map, p, o, q, n)
  /\ UNCHANGED job

(* None when i is not in the table; a debug build panics on the root. *)
Remove(i) ==
  /\ Idle
  /\ i \in Present(map) \ {Root}
  /\ map' = Removed(map, i)
  /\ UNCHANGED job

-----------------------------------------------------------------------------
Insertion ==
  \/ \E p \in Inode, n \in Name, d \in Data : InsertChild(p, n, d)
  \/ \E p \in Inode, batch \in Batches : StartInsertChildren(p, batch)
  \/ \E p \in Inode, batch \in Batches : StartBatchInsert(p, batch)
  \/ TakeEntry
  \/ EnsureComponent
  \/ InsertEntry

Removal == \E i \in Inode : Remove(i)

(* Any owner. *)
Next ==
  \/ Insertion
  \/ Removal
  \/ \E p, q \in Inode, o, n \in Name : Rename(p, o, q, n)

Spec == Init /\ [][Next]_vars

(* An owner that renames what a kernel renames: rename(2) fails with EINVAL
   before a directory is moved into itself or below itself. *)
KernelRename(p, o, q, n) ==
  /\ Rename(p, o, q, n)
  /\ ~ Under(map, q, Child(map, p, o))

NextKernel ==
  \/ Insertion
  \/ Removal
  \/ \E p, q \in Inode, o, n \in Name : KernelRename(p, o, q, n)

SpecKernel == Init /\ [][NextKernel]_vars

(* An owner that never renames, as examples/zip_fs. *)
NextArchive == Insertion \/ Removal

SpecArchive == Init /\ [][NextArchive]_vars
-----------------------------------------------------------------------------
(* Following a children map never meets a number that is not in the inode
   table, and the inode found says the parent and the name it was found
   under: the unwrap of insert_child_unchecked (existing entry), of lookup
   and of rename (replaced entry) cannot fail, and no inode is listed in
   two places.  Holds for any owner. *)
EntryAgrees == EntriesAgree(map)

(* The root is never replaced by a rename or removed by a cascade, and it
   stays the place where the walk of resolve ends.  Holds for any owner. *)
RootKept == RootStays(map)

(* The number the next new inode gets occurs nowhere: not as an inode, a
   parent, or the owner of a children map that a replaced directory left
   behind.  A new inode inherits nothing.  Holds for any owner. *)
NextNumberFree == NumbersIssued(map)

(* The loop stands on inodes that are there, inside its path. *)
JobPlaced ==
  /\ job.base \in Present(map) /\ job.at \in Present(map)
  /\ job.path # <<>> => job.done < Len(job.path)

(* Inductive for any owner. *)
MapperInv == TypeOK /\ EntryAgrees /\ RootKept /\ NextNumberFree /\ JobPlaced

(* A rename keeps the number, the data and the children map of what it
   moves, and of every inode it does not replace. *)
RenameKeepsInodes ==
  [][\A p, q \in Present(map), n \in Name : \A o \in DOMAIN Children(map, p) :
       Rename(p, o, q, n) =>
         LET c == Child(map, p, o)
         IN  /\ c \in Present(map')
             /\ \A i \in Present(map') : map'.inodes[i].data = map.inodes[i].data
             /\ \A i \in Present(map) \ Present(map') :
                  map.inodes[i].parent = q /\ map.inodes[i].name = n
             /\ \A d \in DOMAIN map.children \ {p, q} :
                  /\ d \in DOMAIN map'.children
                  /\ map'.children[d] = map.children[d]]_vars

(* resolve returns: the parent links never form a cycle, as long as no
   directory is moved below itself. *)
ParentsAcyclic == NoCycle(map)

(* The two tables say the same: an inode is found by lookup under the
   parent and name it says.  Without renames. *)
TablesAgree == AllListed(map)

(* "This operation will cascade to child inodes": when remove returns, no
   inode is left whose parent it took away. *)
RemoveCascades ==
  [][\A i \in Present(map) \ Present(map') :
       Remove(i) => \A j \in Present(map') :
                      map'.inodes[j].parent \in Present(map) =>
                        map'.inodes[j].parent \in Present(map')]_vars

(* The cursor of batch_insert stands on the inode that lookup finds along
   the part of the path behind it, for every entry and whatever was in the
   mapper before: path_cache and the tables agree. *)
CursorOnPath ==
  job.path # <<>> =>
    job.at = Walk(map, job.base, SubSeq(job.path, 1, job.done))

(* Sorting by path length works: a parent is made by default only if the
   batch has no entry for it left to insert. *)
ParentsFirst ==
  (job.done + 1 < Len(job.path) /\ ~ Listed(map, job.at, Component)) =>
    \A e \in job.todo : e.path # SubSeq(job.path, 1, job.done + 1)

(* What a loop of insertions may do to what was there: an inode keeps its
   number, parent and name, and a parent made or met on the way keeps its
   data, which only an entry for that very path replaces. *)
InsertionKeeps ==
  [][job # NoJob =>
       \A i \in Present(map) :
         /\ i \in Present(map')
         /\ map'.inodes[i].parent = map.inodes[i].parent
         /\ map'.inodes[i].name = map.inodes[i].name
         /\ map'.inodes[i].data # map.inodes[i].data =>
              i = Walk(map, job.base, job.path)]_vars

(* After a rename the child is found under its new parent and name, as
   test_rename_child_inode asserts (src/src/inode_mapper.rs:735).  Violated:
   see the finding. *)
RenamedIsFound ==
  [][\A p, q \in Inode, o, n \in Name :
       KernelRename(p, o, q, n) =>
         Listed(map', q, n) /\ Child(map', q, n) = Child(map, p, o)]_vars
=============================================================================
