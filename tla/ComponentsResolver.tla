------------------------- MODULE ComponentsResolver -------------------------
(***************************************************************************)
(* ComponentsResolver (src/src/core/inode_mapping.rs), the table from the  *)
(* inode numbers a kernel knows to paths, used by the requests of the      *)
(* FuseDriver (src/src/core/fuse_driver.rs, macros.rs).                    *)
(*                                                                         *)
(* A request is a task.  It runs on the session thread itself in a serial  *)
(* build (Serial), on a thread of the pool in a parallel build; forget     *)
(* always runs on the session thread, which starts nothing else meanwhile. *)
(* A step is one critical section of the RwLock around the mapper, or one  *)
(* call of the file system's handler, or the start of a request.           *)
(*                                                                         *)
(* The kernel is the environment: it keeps one reference per entry it was  *)
(* given (refs), the names it knows (dcache), and names an inode in a      *)
(* request only while it holds a reference to it.                          *)
(***************************************************************************)
EXTENDS InodeMap, FiniteSetsExt

CONSTANTS Task,     \* requests that can be under way at once
          Nobody,   \* no task
          Serial,   \* built with the feature "serial"
          Requests, \* the kinds of request the kernel sends
          MaxRefs,  \* bound on the references to one inode
          Wrap      \* the lookup counts are numbers modulo Wrap (2^64)

Kinds == {"entry", "link", "readdir", "readdirplus", "unlink", "rename",
          "replace", "forget"}

ASSUME ResolverAssumption ==
  /\ Nobody \notin Task
  /\ Serial \in BOOLEAN
  /\ Requests \subseteq Kinds
  /\ MaxRefs \in Nat \ {0} /\ Wrap \in Nat /\ MaxRefs < Wrap
  /\ Data = 0 .. Wrap - 1

VARIABLES map,      \* the InodeMapper; an inode's data is its lookup count
          poisoned, \* a thread panicked inside the write guard of the RwLock
          panics,   \* which expectations of the code failed so far
          alive,    \* the session thread runs
          writer,   \* the task that holds the write guard across steps
          task,     \* the requests under way
          forget,   \* the forget under way on the session thread
          refs,     \* kernel: references to each inode
          dcache    \* kernel: the inode it knows for a parent and name

resolver == <<map, poisoned, panics, alive, writer>>
kernel   == <<refs, dcache>>
vars     == <<resolver, task, forget, kernel>>

IdleTask == [kind |-> "none", pc |-> "idle", parent |-> Root, name |-> RootName,
             newparent |-> Root, newname |-> RootName, todo |-> {}, given |-> {}]
NoForget == [pc |-> "idle", ino |-> Root, n |-> 0]

PCs == {"idle", "resolve", "resolve2", "handler", "hit", "fill", "insert",
        "adding", "move", "reply"}

TaskState == [kind : Kinds \cup {"none"}, pc : PCs,
              parent : Inode, name : Name \cup {RootName},
              newparent : Inode, newname : Name \cup {RootName},
              todo : SUBSET Name, given : SUBSET (Name \X Inode)]

ForgetState == [pc : {"idle", "resolve", "subtract", "remove"}, ino : Inode, n : Nat]

TypeOK ==
  /\ IsMap(map)
  /\ poisoned \in BOOLEAN /\ alive \in BOOLEAN
  /\ panics \subseteq {"resolve", "lock", "insert", "rename", "forget"}
  /\ writer \in Task \cup {Nobody}
  /\ task \in [Task -> TaskState]
  /\ forget \in ForgetState
  /\ refs \in [Inode -> Nat]
  /\ dcache \in [DOMAIN dcache -> Inode]
  /\ DOMAIN dcache \subseteq Inode \X Name

Init ==
  /\ map = NewMap(0)
  /\ poisoned = FALSE /\ panics = {} /\ alive = TRUE /\ writer = Nobody
  /\ task = [t \in Task |-> IdleTask]
  /\ forget = NoForget
  /\ refs = [i \in Inode |-> 0]
  /\ dcache = Nothing

At(t, pc) == task[t].pc = pc
Becomes(t, r) == task' = [task EXCEPT ![t] = r]
Goto(t, pc) == Becomes(t, [task[t] EXCEPT !.pc = pc])
Finish(t) == Becomes(t, IdleTask)

(* A name has the number i: the reply is ready, or a listing goes on. *)
Answered(r, n, i) == [r EXCEPT !.pc = "reply", !.todo = {}, !.given = {<<n, i>>}]
Added(r, n, i) == [r EXCEPT !.todo = @ \ {n}, !.given = @ \cup {<<n, i>>}]

Busy == {t \in Task : task[t].pc # "idle"}
Unlocked == writer = Nobody
Quiet == Busy = {} /\ forget = NoForget

-----------------------------------------------------------------------------
(* What the kernel may send. *)

(* A directory that can be named as a parent: held, and not removed. *)
Known(i) == i = Root \/ (refs[i] > 0 /\ \E e \in DOMAIN dcache : dcache[e] = i)
IsRename(t) == task[t].kind \in {"rename", "replace"}
Named(i) == \E t \in Busy : i \in {task[t].parent, task[t].newparent}

(* The session thread takes a request from /dev/fuse.  MaxInode bounds the
   entries that can still be made: a request is taken only with room for all
   of its own, so that no HasRoom of a later step ever holds it up. *)
Takes(t, r, kind, demand) ==
  /\ kind \in Requests
  /\ alive /\ forget = NoForget
  /\ t \notin Busy /\ (Serial => Busy = {})
  /\ map.next_inode + demand
       + MapThenSumSet(LAMBDA u : Cardinality(task[u].todo), Busy) <= MaxInode + 1
  /\ Becomes(t, r)
  /\ UNCHANGED <<resolver, forget, kernel>>

(* lookup, mknod, mkdir, symlink and create. *)
StartEntry(t, p, n) ==
  /\ Known(p)
  /\ \A i \in Inode : refs[i] + Cardinality(Busy) < MaxRefs
  /\ Takes(t, [IdleTask EXCEPT !.kind = "entry", !.pc = "resolve", !.parent = p,
                               !.name = n, !.todo = {n}], "entry", 1)

(* link, a new name for the inode i: the mapper gives the name a number of
   its own. *)
StartLink(t, i, p, n) ==
  /\ i # Root /\ refs[i] > 0
  /\ Known(p) /\ <<p, n>> \notin DOMAIN dcache
  /\ \A j \in Inode : refs[j] + Cardinality(Busy) < MaxRefs
  /\ Takes(t, [IdleTask EXCEPT !.kind = "link", !.pc = "resolve", !.parent = p,
                               !.name = n, !.newparent = i, !.todo = {n}],
           "link", 1)

StartReaddir(t, p, names, kind) ==
  /\ Known(p)
  /\ \A i \in Inode : refs[i] + Cardinality(Busy) < MaxRefs
  /\ Takes(t, [IdleTask EXCEPT !.kind = kind, !.pc = "resolve", !.parent = p,
                               !.todo = names], kind, Cardinality(names))

(* unlink and rmdir; rmdir succeeds on an empty directory only. *)
StartUnlink(t, p, n) ==
  /\ <<p, n>> \in DOMAIN dcache
  /\ \A e \in DOMAIN dcache : e[1] # dcache[<<p, n>>]
  /\ Takes(t, [IdleTask EXCEPT !.kind = "unlink", !.pc = "resolve", !.parent = p,
                               !.name = n], "unlink", 0)

(* i is d or an ancestor of d in the kernel's tree. *)
Above(i, d) ==
  \A S \in SUBSET Inode :
    d \in S /\ (\A e \in DOMAIN dcache : dcache[e] \in S => e[1] \in S) => i \in S

(* rename(2) of a name the kernel knows; not onto itself, not below itself.
   "rename" has no file under the new name, neither now nor earlier, and the
   mapper lists another name in the new parent; "replace" needs neither. *)
StartRename(t, p, o, q, n, kind) ==
  /\ <<p, o>> \in DOMAIN dcache /\ Known(q) /\ <<p, o>> # <<q, n>>
  /\ ~ Above(dcache[<<p, o>>], q)
  /\ kind = "rename" =>
       /\ <<q, n>> \notin DOMAIN dcache /\ ~ Listed(map, q, n)
       /\ \E other \in DOMAIN Children(map, q) : <<q, other>> # <<p, o>>
  /\ \A u \in Busy : ~ IsRename(u)
  /\ Takes(t, [IdleTask EXCEPT !.kind = kind, !.pc = "resolve", !.parent = p,
                               !.name = o, !.newparent = q, !.newname = n],
           kind, 0)

(* forget gives up n references to an inode no request is about. *)
StartForget(i, n) ==
  /\ "forget" \in Requests
  /\ alive /\ forget = NoForget /\ (Serial => Busy = {})
  /\ i # Root /\ n \in 1 .. refs[i] /\ ~ Named(i)
  /\ n = refs[i] => \A e \in DOMAIN dcache : e[1] # i
  /\ forget' = [pc |-> "resolve", ino |-> i, n |-> n]
  /\ refs' = [refs EXCEPT ![i] = @ - n]
  /\ dcache' = IF n = refs[i]
               THEN Without(dcache, {e \in DOMAIN dcache : dcache[e] = i})
               ELSE dcache
  /\ UNCHANGED <<resolver, task>>

-----------------------------------------------------------------------------
(* The steps of a request. *)

(* A panic ends the task; the dropped reply answers EIO.  In a serial build
   it ends the session.  A panic under the write guard poisons the lock. *)
Panic(t, what, underWriteGuard) ==
  /\ Finish(t)
  /\ panics' = panics \cup {what}
  /\ alive' = (alive /\ ~ Serial)
  /\ poisoned' = (poisoned \/ underWriteGuard)
  /\ UNCHANGED <<map, writer, forget, kernel>>

(* Mutant: resolve_id waits for a poisoned lock. *)
LockPanicWaits(t) ==
  /\ \E pc \in {"hit", "fill", "insert", "move"} : At(t, pc)
  /\ Unlocked /\ poisoned
  /\ Panic(t, "lock", FALSE)

(* read().unwrap() and write().expect() of a poisoned lock. *)
LockPanic(t) ==
  /\ \E pc \in {"resolve", "resolve2", "hit", "fill", "insert", "move"} : At(t, pc)
  /\ Unlocked /\ poisoned
  /\ Panic(t, "lock", FALSE)

(* Mutant: a poisoned lock is entered all the same. *)
EntersPoisoned(t, pc) == At(t, pc) /\ Unlocked

Enters(t, pc) == At(t, pc) /\ Unlocked /\ ~ poisoned

(* resolve_id: under the read guard, which a panic does not poison.  The
   walk does not return when it goes round in a circle. *)
ResolveOne(t, pc, i, next) ==
  /\ Enters(t, pc)
  /\ \/ Resolves(map, i) /\ Goto(t, next) /\ UNCHANGED <<resolver, forget, kernel>>
     \/ LeadsNowhere(map, i) /\ Panic(t, "resolve", FALSE)

Resolve(t) == ResolveOne(t, "resolve", task[t].parent,
                         IF IsRename(t) \/ task[t].kind = "link"
                         THEN "resolve2" ELSE "handler")

(* The new parent of a rename, the inode of a link. *)
ResolveSecond(t) == ResolveOne(t, "resolve2", task[t].newparent, "handler")

AfterHandler == [entry |-> "hit", link |-> "hit", readdir |-> "insert",
                 readdirplus |-> "insert", unlink |-> "reply", rename |-> "move",
                 replace |-> "move"]

HandlerOk(t) ==
  /\ At(t, "handler")
  /\ Goto(t, AfterHandler[task[t].kind])
  /\ UNCHANGED <<resolver, forget, kernel>>

HandlerError(t) ==
  /\ At(t, "handler")
  /\ Finish(t)
  /\ UNCHANGED <<resolver, forget, kernel>>

Plus(count, n) == (count + n) % Wrap

(* Mutant: a known entry is not counted again. *)
LookupHitUncounted(t) ==
  /\ Enters(t, "hit")
  /\ Listed(map, task[t].parent, task[t].name)
  /\ LET i == Child(map, task[t].parent, task[t].name)
     IN  Becomes(t, Answered(task[t], task[t].name, i))
  /\ UNCHANGED <<map, poisoned, panics, alive, writer, forget, kernel>>

(* lookup, first half: under the read guard. *)
LookupHit(t) ==
  /\ Enters(t, "hit")
  /\ Listed(map, task[t].parent, task[t].name)
  /\ LET i == Child(map, task[t].parent, task[t].name)
     IN  /\ map' = [map EXCEPT !.inodes[i].data = Plus(@, 1)]
         /\ Becomes(t, Answered(task[t], task[t].name, i))
  /\ UNCHANGED <<poisoned, panics, alive, writer, forget, kernel>>

LookupMiss(t) ==
  /\ Enters(t, "hit")
  /\ ~ Listed(map, task[t].parent, task[t].name)
  /\ Goto(t, "fill")
  /\ UNCHANGED <<resolver, forget, kernel>>

(* lookup, second half: insert_child under the write guard.  Its value
   creator starts the count at 1 and does not look at existing_data. *)
Fill(t) ==
  LET p == task[t].parent
      n == task[t].name
      m == Insert(map, p, n, 1)
  IN  /\ Enters(t, "fill")
      /\ p \in Present(map)
      /\ Listed(map, p, n) \/ HasRoom(map)
      /\ map' = m
      /\ Becomes(t, Answered(task[t], n, Child(m, p, n)))
      /\ UNCHANGED <<poisoned, panics, alive, writer, forget, kernel>>

(* expect("Failed to insert child") and expect("Failed to insert children"). *)
InsertPanic(t) ==
  /\ Enters(t, "fill") \/ Enters(t, "insert")
  /\ task[t].parent \notin Present(map)
  /\ Panic(t, "insert", TRUE)

(* add_children: insert_children under one write guard, entry by entry.  Its
   value creator keeps the count of an existing entry, and counts one more
   for a readdirplus. *)
AddChildren(t) ==
  /\ Enters(t, "insert")
  /\ task[t].parent \in Present(map)
  /\ map' = EnsureMap(map, task[t].parent)
  /\ writer' = t
  /\ Goto(t, "adding")
  /\ UNCHANGED <<poisoned, panics, alive, forget, kernel>>

(* Mutant: the count of an existing entry is forgotten. *)
NewCountFresh(t, n) == IF task[t].kind = "readdirplus" THEN 1 ELSE 0

NewCount(t, n) ==
  LET p == task[t].parent
      one == IF task[t].kind = "readdirplus" THEN 1 ELSE 0
  IN  IF Listed(map, p, n) THEN Plus(map.inodes[Child(map, p, n)].data, one) ELSE one

AddChild(t, n) ==
  LET p == task[t].parent
      m == Insert(map, p, n, NewCount(t, n))
  IN  /\ At(t, "adding")
      /\ Listed(map, p, n) \/ HasRoom(map)
      /\ map' = m
      /\ Becomes(t, Added(task[t], n, Child(m, p, n)))
      /\ UNCHANGED <<poisoned, panics, alive, writer, forget, kernel>>

AddedChildren(t) ==
  /\ At(t, "adding") /\ task[t].todo = {}
  /\ writer' = Nobody
  /\ Goto(t, "reply")
  /\ UNCHANGED <<map, poisoned, panics, alive, forget, kernel>>

(* rename in the mapper, under the write guard, after the handler's rename. *)
CanMove(t) ==
  /\ task[t].parent \in Present(map) /\ task[t].newparent \in Present(map)
  /\ Listed(map, task[t].parent, task[t].name)

RenameInMapper(t) ==
  /\ Enters(t, "move")
  /\ CanMove(t)
  /\ map' = Moved(map, task[t].parent, task[t].name,
                  task[t].newparent, task[t].newname)
  /\ Goto(t, "reply")
  /\ UNCHANGED <<poisoned, panics, alive, writer, forget, kernel>>

(* expect("Failed to rename inode"). *)
RenamePanic(t) ==
  /\ Enters(t, "move")
  /\ ~ CanMove(t)
  /\ Panic(t, "rename", TRUE)

(* The kernel takes the reply: a reference and a name for each entry given
   to it, no name where it unlinked, the inode it moved under its new name. *)
Learned(given, p) == [e \in {<<p, g[1]>> : g \in given} |->
                        (CHOOSE g \in given : g[1] = e[2])[2]]

Merge(f, g) == [e \in DOMAIN f \cup DOMAIN g |->
                  IF e \in DOMAIN f THEN f[e] ELSE g[e]]

Reply(t) ==
  LET r == task[t]
      old == <<r.parent, r.name>>
      counted == IF r.kind = "readdir" THEN {} ELSE r.given
  IN  /\ At(t, "reply")
      /\ refs' = [i \in Inode |->
                    refs[i] + Cardinality({g \in counted : g[2] = i})]
      /\ dcache' =
           CASE r.kind = "unlink"  -> Without(dcache, {old})
             [] IsRename(t) /\ old \in DOMAIN dcache ->
                  Put(Without(dcache, {old}), <<r.newparent, r.newname>>, dcache[old])
             [] OTHER -> Merge(Learned(counted, r.parent), dcache)
      /\ Finish(t)
      /\ UNCHANGED <<resolver, forget>>

-----------------------------------------------------------------------------
(* The steps of a forget; a panic in them ends the session. *)
ForgetPanic(what, underWriteGuard) ==
  /\ forget' = NoForget
  /\ panics' = panics \cup {what}
  /\ alive' = FALSE
  /\ poisoned' = (poisoned \/ underWriteGuard)
  /\ UNCHANGED <<map, writer, task, kernel>>

InForget(pc) == forget.pc = pc /\ Unlocked

ForgetLockPanic ==
  /\ forget # NoForget /\ Unlocked /\ poisoned
  /\ ForgetPanic("lock", FALSE)

ForgetResolve ==
  /\ InForget("resolve") /\ ~ poisoned
  /\ \/ /\ Resolves(map, forget.ino)
        /\ forget' = [forget EXCEPT !.pc = "subtract"]
        /\ UNCHANGED <<resolver, task, kernel>>
     \/ LeadsNowhere(map, forget.ino) /\ ForgetPanic("resolve", FALSE)

(* Mutant: the inode goes when one reference is left. *)
ForgetSubtractEarly ==
  /\ InForget("subtract") /\ ~ poisoned
  /\ forget.ino \in Present(map)
  /\ LET left == map.inodes[forget.ino].data - forget.n
     IN  /\ map' = [map EXCEPT !.inodes[forget.ino].data = left % Wrap]
         /\ forget' = IF left > 1 THEN NoForget ELSE [forget EXCEPT !.pc = "remove"]
  /\ UNCHANGED <<poisoned, panics, alive, writer, task, kernel>>

(* fetch_sub answers the count before: the inode is kept unless that was 0. *)
ForgetSubtract ==
  /\ InForget("subtract") /\ ~ poisoned
  /\ forget.ino \in Present(map)
  /\ LET count == map.inodes[forget.ino].data
     IN  /\ map' = [map EXCEPT !.inodes[forget.ino].data
                                 = (count + Wrap - (forget.n % Wrap)) % Wrap]
         /\ forget' = IF count > 0 THEN NoForget ELSE [forget EXCEPT !.pc = "remove"]
  /\ UNCHANGED <<poisoned, panics, alive, writer, task, kernel>>

(* expect("Failed to find inode") under the read guard, unwrap of remove
   under the write guard. *)
ForgetMissing ==
  /\ InForget("subtract") \/ InForget("remove")
  /\ ~ poisoned
  /\ forget.ino \notin Present(map)
  /\ ForgetPanic("forget", forget.pc = "remove")

ForgetRemove ==
  /\ InForget("remove") /\ ~ poisoned
  /\ forget.ino \in Present(map)
  /\ map' = Removed(map, forget.ino)
  /\ forget' = NoForget
  /\ UNCHANGED <<poisoned, panics, alive, writer, task, kernel>>

-----------------------------------------------------------------------------
Start ==
  \E t \in Task, p \in Inode :
    \/ \E n \in Name : StartEntry(t, p, n)
    \/ \E n \in Name, i \in Inode : StartLink(t, i, p, n)
    \/ \E names \in SUBSET Name, kind \in {"readdir", "readdirplus"} :
         StartReaddir(t, p, names, kind)
    \/ \E n \in Name : StartUnlink(t, p, n)
    \/ \E o, n \in Name, q \in Inode, kind \in {"rename", "replace"} :
         StartRename(t, p, o, q, n, kind)

Step(t) ==
  \/ LockPanic(t)
  \/ Resolve(t)
  \/ ResolveSecond(t)
  \/ HandlerOk(t)
  \/ HandlerError(t)
  \/ LookupHit(t)
  \/ LookupMiss(t)
  \/ Fill(t)
  \/ InsertPanic(t)
  \/ AddChildren(t)
  \/ \E n \in task[t].todo : AddChild(t, n)
  \/ AddedChildren(t)
  \/ RenameInMapper(t)
  \/ RenamePanic(t)
  \/ Reply(t)

ForgetSteps ==
  \/ ForgetLockPanic
  \/ ForgetResolve
  \/ ForgetSubtract
  \/ ForgetMissing
  \/ ForgetRemove

Next ==
  \/ Start
  \/ \E i \in Inode, n \in 1 .. MaxRefs : StartForget(i, n)
  \/ \E t \in Task : Step(t)
  \/ ForgetSteps

Spec == Init /\ [][Next]_vars

(* A thread of the pool and the session thread go on while they can, and a
   thread that waits for the lock gets it in the end. *)
FairSpec ==
  /\ Spec
  /\ \A t \in Task : SF_vars(Step(t))
  /\ SF_vars(ForgetSteps)
-----------------------------------------------------------------------------
(* The mapper stays consistent whatever the requests do to each other and
   wherever they panic: an entry leads to an inode that is there and says
   the same, the root stays, and the next number is free. *)
MapSafe == EntriesAgree(map) /\ RootStays(map) /\ NumbersIssued(map)

(* Serial: between two requests every lookup count is the number of
   references the kernel holds, over lookups, listings, unlinks, renames and
   partial forgets; so forget compares the right numbers. *)
CountsAgree ==
  (Quiet /\ panics = {}) =>
    \A i \in Present(map) \ {Root} : map.inodes[i].data = refs[i]

(* Every inode the kernel may name in a request resolves to a path: the
   expect("Failed to resolve inode") cannot fail. *)
KernelInodesKnown == \A i \in Inode : refs[i] > 0 => Resolves(map, i)

(* Serial: the path made for an inode is the path the kernel knows it by,
   also after renames of it or of a directory above it. *)
NamesAgree ==
  (Quiet /\ panics = {}) =>
    \A e \in DOMAIN dcache :
      /\ dcache[e] \in Present(map)
      /\ map.inodes[dcache[e]].parent = e[1]
      /\ map.inodes[dcache[e]].name = e[2]

(* No expectation fails, and no thread panics under the write guard. *)
NoPanics == panics = {}

(* However lookups, creations and listings of one name overlap, they give
   the kernel one number for it: the second half of lookup finds what
   another task inserted since the first half. *)
OneNumberPerName ==
  \A i, j \in Present(map) :
    /\ map.inodes[i].parent = map.inodes[j].parent
    /\ map.inodes[i].name = map.inodes[j].name
    => i = j

(* Without forgets, an inode the kernel holds is counted at least once and
   at most as often as it is held: the first forget never removes an inode
   that was looked up, and no count is above what forgets will give back. *)
HeldIsCounted ==
  \A i \in Present(map) \ {Root} :
    /\ refs[i] > 0 => map.inodes[i].data > 0
    /\ Quiet => map.inodes[i].data <= refs[i]

(* Nobody changes the mapper once a panic poisoned its lock. *)
PoisonedIsFrozen == [][poisoned => map' = map /\ writer' = writer]_vars

(* Every request that was taken ends, with an answer or with a panic, and so
   does every forget: no thread waits for the lock for ever, also not after a
   panic poisoned it.  Only a circle of parent links, on which the walk of
   resolve does not return, keeps one: see ParentsAcyclic of InodeMapper for
   the renames that close none. *)
RequestsEnd ==
  /\ \A t \in Task : (t \in Busy) ~> (t \notin Busy \/ ~ NoCycle(map))
  /\ (forget # NoForget) ~> (forget = NoForget \/ ~ NoCycle(map))

(* An inode is released by a forget only if no reference is left
   (src/src/fuse_handler.rs:220).  Violated in a parallel build. *)
ReleasedOnlyAtZero ==
  [][\A i \in Present(map) \ Present(map') : ForgetRemove => refs[i] = 0]_vars

(* A forget of the last reference releases the inode
   (src/src/fuse_handler.rs:220).  Violated. *)
ReleasedAtZero ==
  [][(forget # NoForget /\ forget' = NoForget /\ refs[forget.ino] = 0) =>
       forget.ino \notin Present(map')]_vars
=============================================================================
