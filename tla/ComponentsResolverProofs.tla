----------------------- MODULE ComponentsResolverProofs -----------------------
(***************************************************************************)
(* The mapper under the requests of the driver, for any number of tasks    *)
(* and every bound.  In both builds and for every kind of request it stays *)
(* safe in the sense of InodeMapProofs, and is not touched once a panic    *)
(* poisoned its lock.  Without renames a name has one number.  Without     *)
(* renames and forgets what the kernel holds is counted.  In a serial      *)
(* build, with renames that replace nothing, the mapper and the kernel     *)
(* agree on every count and every name, and nothing panics.                *)
(***************************************************************************)
EXTENDS ComponentsResolver, InodeMapProofs, FiniteSetTheorems

(* Where a task stands says what its request is and what it may rely on:
   w holds the write guard across steps, and P are the inodes that exist. *)
Fits(t, r, w, P) ==
  /\ r.pc # "idle" => r.kind \in Kinds \ {"forget"}
  /\ r.kind \in {"entry", "link"} => r.name \in Name
  /\ r.kind \in {"rename", "replace"} => r.newname \in Name
  /\ r.pc \in {"hit", "fill"} => r.kind \in {"entry", "link"}
  /\ r.pc = "move" => r.kind \in {"rename", "replace"}
  /\ r.pc = "adding" <=> w = t
  /\ r.pc = "adding" => r.parent \in P

(* The forget is about an inode other than the root. *)
ForgetFits ==
  /\ forget \in ForgetState
  /\ forget.pc # "idle" => forget.ino # Root

(* The inductive invariant of MapSafe. *)
ResolverInv ==
  /\ SafeMap(map)
  /\ task \in [Task -> TaskState]
  /\ \A t \in Task : Fits(t, task[t], writer, Present(map))
  /\ ForgetFits
  /\ writer \in Task \cup {Nobody}
  /\ poisoned => writer = Nobody

-----------------------------------------------------------------------------
(* The lookup counts. *)
LEMMA CountTypes ==
  /\ 0 \in Data /\ 1 \in Data /\ Wrap \in Nat \ {0}
  /\ \A k \in Int : k % Wrap \in Data
BY ResolverAssumption

(* Changing the count of an inode changes nothing else. *)
LEMMA CountSafe ==
  ASSUME NEW m, SafeMap(m), NEW i \in Present(m), NEW d \in Data
  PROVE  LET r == [m EXCEPT !.inodes[i].data = d]
         IN  SafeMap(r) /\ Present(r) = Present(m)
<1>. DEFINE f == [m.inodes EXCEPT ![i].data = d]
            r == [m EXCEPT !.inodes[i].data = d]
<1>1. /\ m = [inodes |-> m.inodes, children |-> m.children,
              next_inode |-> m.next_inode]
      /\ IsMap(m)
  BY DEF SafeMap, IsMap
<1>2. /\ r.inodes = f /\ r.children = m.children /\ r.next_inode = m.next_inode
      /\ r = [inodes |-> r.inodes, children |-> r.children,
              next_inode |-> r.next_inode]
  BY <1>1
<1>3. /\ DOMAIN f = DOMAIN m.inodes
      /\ \A j \in DOMAIN f : /\ f[j] \in InodeValue
                             /\ f[j].parent = m.inodes[j].parent
                             /\ f[j].name = m.inodes[j].name
  BY <1>1 DEF IsMap, InodeValue, Present
<1>4. f \in [DOMAIN f -> InodeValue]
  <2>1. f = [j \in DOMAIN f |-> f[j]]
    OBVIOUS
  <2>. QED
    BY <1>3, <2>1
<1>. HIDE DEF f, r
<1>5. IsMap(r)
  BY <1>1, <1>2, <1>3, <1>4 DEF IsMap
<1>6. Present(r) = Present(m)
  BY <1>2, <1>3 DEF Present
<1>7. EntriesAgree(r) /\ RootStays(r) /\ NumbersIssued(r)
  BY <1>2, <1>3, <1>6 DEF SafeMap, EntriesAgree, RootStays, NumbersIssued, Present
<1>. QED
  BY <1>5, <1>6, <1>7 DEF SafeMap, r

(* The count an inode has. *)
LEMMA CountType ==
  ASSUME NEW m, SafeMap(m), NEW i \in Present(m)
  PROVE  m.inodes[i].data \in Data /\ m.inodes[i].data \in Int
BY ResolverAssumption DEF SafeMap, IsMap, InodeValue, Present

(* An entry of a safe mapper. *)
LEMMA ListedType ==
  ASSUME NEW m, SafeMap(m), NEW p, NEW n, Listed(m, p, n)
  PROVE  Child(m, p, n) \in Present(m) /\ Child(m, p, n) \in Inode
<1>1. Child(m, p, n) \in Present(m)
  BY ChildrenFacts DEF SafeMap, EntriesAgree, Listed, Child
<1>. QED
  BY <1>1, InodeTypes DEF SafeMap

(* After an insertion the name is listed. *)
LEMMA InsertLists ==
  ASSUME NEW m, SafeMap(m), NEW p \in Present(m), NEW n \in Name, NEW d \in Data,
         Listed(m, p, n) \/ HasRoom(m)
  PROVE  Listed(Insert(m, p, n, d), p, n)
<1>1. CASE Listed(m, p, n)
  <2>1. Insert(m, p, n, d).children = m.children
    BY <1>1 DEF Insert, SafeMap, IsMap
  <2>. QED
    BY <1>1, <2>1 DEF Listed, Children
<1>2. CASE ~ Listed(m, p, n)
  <2>1. Insert(m, p, n, d).children
          = Put(m.children, p, Put(Children(m, p), n, m.next_inode))
    BY <1>2 DEF Insert
  <2>. QED
    BY <2>1, PutFacts DEF Listed, Children
<1>. QED
  BY <1>1, <1>2

-----------------------------------------------------------------------------
(* The changes a step makes to a task. *)
LEMMA IdleType ==
  /\ IdleTask \in TaskState
  /\ IdleTask.pc = "idle" /\ IdleTask.kind = "none"
  /\ IdleTask.name = RootName /\ IdleTask.newname = RootName
BY InodeMapAssumption DEF IdleTask, TaskState, PCs, Inode, Root

LEMMA GotoType ==
  ASSUME NEW r \in TaskState, NEW pc \in PCs
  PROVE  LET s == [r EXCEPT !.pc = pc]
         IN  /\ s \in TaskState /\ s.pc = pc /\ s.kind = r.kind
             /\ s.name = r.name /\ s.newname = r.newname /\ s.parent = r.parent
BY DEF TaskState

LEMMA AnsweredType ==
  ASSUME NEW r \in TaskState, NEW n \in Name, NEW i \in Inode
  PROVE  LET s == Answered(r, n, i)
         IN  /\ s \in TaskState /\ s.pc = "reply" /\ s.kind = r.kind
             /\ s.name = r.name /\ s.newname = r.newname /\ s.parent = r.parent
<1>. DEFINE given == {<<n, i>>}
<1>1. given \in SUBSET (Name \X Inode) /\ {} \in SUBSET Name
  OBVIOUS
<1>2. Answered(r, n, i) = [r EXCEPT !.pc = "reply", !.todo = {}, !.given = given]
  BY DEF Answered
<1>. HIDE DEF given
<1>. QED
  BY <1>1, <1>2 DEF TaskState, PCs

LEMMA AddedType ==
  ASSUME NEW r \in TaskState, NEW n \in Name, NEW i \in Inode
  PROVE  LET s == Added(r, n, i)
         IN  /\ s \in TaskState /\ s.pc = r.pc /\ s.kind = r.kind
             /\ s.name = r.name /\ s.newname = r.newname /\ s.parent = r.parent
<1>. DEFINE todo  == r.todo \ {n}
            given == r.given \cup {<<n, i>>}
<1>1. given \in SUBSET (Name \X Inode) /\ todo \in SUBSET Name
  BY DEF TaskState
<1>2. Added(r, n, i) = [r EXCEPT !.todo = todo, !.given = given]
  BY DEF Added
<1>. HIDE DEF given, todo
<1>. QED
  BY <1>1, <1>2 DEF TaskState

(* A step of one task keeps the invariant if the mapper stays safe, the task
   fits its new place, and nobody else relies on what it changed. *)
LEMMA TaskStep ==
  ASSUME ResolverInv, NEW t \in Task, NEW r \in TaskState, Becomes(t, r),
         forget' = forget, SafeMap(map'),
         writer' \in Task \cup {Nobody}, poisoned' => writer' = Nobody,
         Fits(t, r, writer', Present(map')),
         \A u \in Task \ {t} : Fits(u, task[u], writer', Present(map'))
  PROVE  ResolverInv'
<1>1. task \in [Task -> TaskState]
  BY DEF ResolverInv
<1>2. /\ task' \in [Task -> TaskState] /\ task'[t] = r
      /\ \A u \in Task \ {t} : task'[u] = task[u]
  BY <1>1 DEF Becomes
<1>3. \A u \in Task : Fits(u, task'[u], writer', Present(map'))
  BY <1>2
<1>4. ForgetFits'
  BY DEF ResolverInv, ForgetFits
<1>. QED
  BY <1>2, <1>3, <1>4 DEF ResolverInv

(* A step outside the lock, or under the read guard. *)
LEMMA ReadStep ==
  ASSUME ResolverInv, NEW t \in Task, NEW r \in TaskState, Becomes(t, r),
         UNCHANGED <<map, poisoned, writer, forget>>,
         Fits(t, r, writer, Present(map))
  PROVE  ResolverInv'
BY TaskStep DEF ResolverInv

(* A step of a task while nobody is inside the write guard. *)
LEMMA UnlockedStep ==
  ASSUME ResolverInv, NEW t \in Task, NEW r \in TaskState, Becomes(t, r),
         Unlocked, forget' = forget, writer' = writer, SafeMap(map'),
         Fits(t, r, Nobody, Present(map'))
  PROVE  ResolverInv'
<1>1. \A u \in Task : u # Nobody
  BY ResolverAssumption
<1>2. \A u \in Task \ {t} : Fits(u, task[u], writer', Present(map'))
  BY <1>1 DEF ResolverInv, Fits, Unlocked
<1>. QED
  BY <1>2, TaskStep DEF ResolverInv, Unlocked

-----------------------------------------------------------------------------
(* The requests that start. *)
LEMMA TakesLeaves ==
  ASSUME NEW t, NEW r, NEW kind, NEW demand, Takes(t, r, kind, demand)
  PROVE  UNCHANGED <<map, poisoned, writer, forget>>
BY DEF Takes, resolver

LEMMA TakesInv ==
  ASSUME ResolverInv, NEW t \in Task, NEW r \in TaskState, NEW kind, NEW demand,
         Takes(t, r, kind, demand),
         r.pc = "resolve", r.kind \in Kinds \ {"forget"},
         r.kind \in {"entry", "link"} => r.name \in Name,
         r.kind \in {"rename", "replace"} => r.newname \in Name
  PROVE  ResolverInv'
<1>1. /\ t \notin Busy /\ Becomes(t, r)
      /\ UNCHANGED <<map, poisoned, writer, forget>>
  BY TakesLeaves DEF Takes
<1>2. writer # t
  BY <1>1 DEF ResolverInv, Fits, Busy
<1>. QED
  BY <1>1, <1>2, ReadStep DEF Fits

LEMMA StartEntryInv ==
  ASSUME ResolverInv, NEW t \in Task, NEW p \in Inode, NEW n \in Name,
         StartEntry(t, p, n)
  PROVE  ResolverInv'
<1>. DEFINE todo == {n}
            r == [IdleTask EXCEPT !.kind = "entry", !.pc = "resolve", !.parent = p,
                                  !.name = n, !.todo = todo]
<1>1. todo \in SUBSET Name
  OBVIOUS
<1>2. Takes(t, r, "entry", 1)
  BY DEF StartEntry
<1>. HIDE DEF todo
<1>3. /\ r \in TaskState /\ r.pc = "resolve" /\ r.kind = "entry" /\ r.name = n
  BY <1>1, IdleType DEF TaskState, Kinds, PCs
<1>. HIDE DEF r
<1>. QED
  BY <1>2, <1>3, TakesInv DEF Kinds

LEMMA StartLinkInv ==
  ASSUME ResolverInv, NEW t \in Task, NEW i \in Inode, NEW p \in Inode,
         NEW n \in Name, StartLink(t, i, p, n)
  PROVE  ResolverInv'
<1>. DEFINE todo == {n}
            r == [IdleTask EXCEPT !.kind = "link", !.pc = "resolve", !.parent = p,
                                  !.name = n, !.newparent = i, !.todo = todo]
<1>1. todo \in SUBSET Name
  OBVIOUS
<1>2. Takes(t, r, "link", 1)
  BY DEF StartLink
<1>. HIDE DEF todo
<1>3. /\ r \in TaskState /\ r.pc = "resolve" /\ r.kind = "link" /\ r.name = n
  BY <1>1, IdleType DEF TaskState, Kinds, PCs
<1>. HIDE DEF r
<1>. QED
  BY <1>2, <1>3, TakesInv DEF Kinds

LEMMA StartReaddirInv ==
  ASSUME ResolverInv, NEW t \in Task, NEW p \in Inode, NEW names \in SUBSET Name,
         NEW kind \in {"readdir", "readdirplus"}, StartReaddir(t, p, names, kind)
  PROVE  ResolverInv'
<1>. DEFINE r == [IdleTask EXCEPT !.kind = kind, !.pc = "resolve", !.parent = p,
                                  !.todo = names]
<1>1. Takes(t, r, kind, Cardinality(names))
  BY DEF StartReaddir
<1>2. r \in TaskState /\ r.pc = "resolve" /\ r.kind = kind
  BY IdleType DEF TaskState, Kinds, PCs
<1>. HIDE DEF r
<1>. QED
  BY <1>1, <1>2, TakesInv DEF Kinds

LEMMA StartUnlinkInv ==
  ASSUME ResolverInv, NEW t \in Task, NEW p \in Inode, NEW n \in Name,
         StartUnlink(t, p, n)
  PROVE  ResolverInv'
<1>. DEFINE r == [IdleTask EXCEPT !.kind = "unlink", !.pc = "resolve", !.parent = p,
                                  !.name = n]
<1>1. Takes(t, r, "unlink", 0)
  BY DEF StartUnlink
<1>2. r \in TaskState /\ r.pc = "resolve" /\ r.kind = "unlink"
  BY IdleType DEF TaskState, Kinds, PCs
<1>. HIDE DEF r
<1>. QED
  BY <1>1, <1>2, TakesInv DEF Kinds

LEMMA StartRenameInv ==
  ASSUME ResolverInv, NEW t \in Task, NEW p \in Inode, NEW o \in Name,
         NEW q \in Inode, NEW n \in Name, NEW kind \in {"rename", "replace"},
         StartRename(t, p, o, q, n, kind)
  PROVE  ResolverInv'
<1>. DEFINE r == [IdleTask EXCEPT !.kind = kind, !.pc = "resolve", !.parent = p,
                                  !.name = o, !.newparent = q, !.newname = n]
<1>1. Takes(t, r, kind, 0)
  BY DEF StartRename
<1>2. r \in TaskState /\ r.pc = "resolve" /\ r.kind = kind /\ r.newname = n
  BY IdleType DEF TaskState, Kinds, PCs
<1>. HIDE DEF r
<1>. QED
  BY <1>1, <1>2, TakesInv DEF Kinds

LEMMA StartInv == ASSUME ResolverInv, Start PROVE ResolverInv'
BY StartEntryInv, StartLinkInv, StartReaddirInv, StartUnlinkInv, StartRenameInv
   DEF Start

LEMMA StartForgetInv ==
  ASSUME ResolverInv, NEW i \in Inode, NEW n \in 1 .. MaxRefs, StartForget(i, n)
  PROVE  ResolverInv'
<1>1. n \in Nat
  BY ResolverAssumption
<1>2. /\ forget' = [pc |-> "resolve", ino |-> i, n |-> n] /\ i # Root
      /\ UNCHANGED <<map, poisoned, writer, task>>
  BY DEF StartForget, resolver
<1>3. ForgetFits'
  BY <1>1, <1>2 DEF ForgetFits, ForgetState
<1>. QED
  BY <1>2, <1>3 DEF ResolverInv

-----------------------------------------------------------------------------
(* The steps of a task. *)
LEMMA TaskFacts ==
  ASSUME ResolverInv, NEW t \in Task
  PROVE  task[t] \in TaskState /\ Fits(t, task[t], writer, Present(map))
BY DEF ResolverInv

LEMMA PanicInv ==
  ASSUME ResolverInv, NEW t \in Task, NEW what, NEW guard, Unlocked,
         Panic(t, what, guard)
  PROVE  ResolverInv'
<1>1. Becomes(t, IdleTask) /\ UNCHANGED <<map, writer, forget>>
  BY DEF Panic, Finish
<1>2. Fits(t, IdleTask, Nobody, Present(map'))
  BY IdleType, ResolverAssumption, InodeMapAssumption DEF Fits
<1>. QED
  BY <1>1, <1>2, IdleType, UnlockedStep DEF ResolverInv

LEMMA LockPanicInv ==
  ASSUME ResolverInv, NEW t \in Task, LockPanic(t) PROVE ResolverInv'
BY PanicInv DEF LockPanic

(* A task goes on and the mapper stays as it is. *)
LEMMA GotoInv ==
  ASSUME ResolverInv, NEW t \in Task, NEW pc \in PCs \ {"idle", "adding"},
         Goto(t, pc), UNCHANGED <<map, poisoned, writer, forget>>,
         writer # t, task[t].pc # "idle",
         pc \in {"hit", "fill"} => task[t].kind \in {"entry", "link"},
         pc = "move" => task[t].kind \in {"rename", "replace"}
  PROVE  ResolverInv'
<1>. DEFINE r == [task[t] EXCEPT !.pc = pc]
<1>1. Becomes(t, r)
  BY DEF Goto
<1>2. /\ r \in TaskState /\ r.pc = pc /\ r.kind = task[t].kind
      /\ r.name = task[t].name /\ r.newname = task[t].newname
      /\ r.parent = task[t].parent
  BY TaskFacts, GotoType
<1>. HIDE DEF r
<1>3. Fits(t, r, writer, Present(map))
  BY <1>2, TaskFacts DEF Fits
<1>. QED
  BY <1>1, <1>2, <1>3, ReadStep

LEMMA ResolveOneInv ==
  ASSUME ResolverInv, NEW t \in Task, NEW pc \in {"resolve", "resolve2"}, NEW i,
         NEW next \in {"resolve2", "handler"}, ResolveOne(t, pc, i, next)
  PROVE  ResolverInv'
<1>1. task[t].pc = pc /\ Unlocked
  BY DEF ResolveOne, Enters, At
<1>2. writer # t
  BY <1>1, ResolverAssumption DEF Unlocked
<1>3. CASE Goto(t, next) /\ UNCHANGED <<resolver, forget, kernel>>
  BY <1>1, <1>2, <1>3, GotoInv DEF resolver, PCs
<1>4. CASE Panic(t, "resolve", FALSE)
  BY <1>1, <1>4, PanicInv
<1>. QED
  BY <1>3, <1>4 DEF ResolveOne

LEMMA ResolveInv ==
  ASSUME ResolverInv, NEW t \in Task, Resolve(t) \/ ResolveSecond(t)
  PROVE  ResolverInv'
BY ResolveOneInv DEF Resolve, ResolveSecond

LEMMA HandlerInv ==
  ASSUME ResolverInv, NEW t \in Task, HandlerOk(t) \/ HandlerError(t)
  PROVE  ResolverInv'
<1>1. task[t].pc = "handler" /\ UNCHANGED <<map, poisoned, writer, forget>>
  BY DEF HandlerOk, HandlerError, At, resolver
<1>2. writer # t /\ task[t].kind \in Kinds \ {"forget"}
  BY <1>1, TaskFacts DEF Fits
<1>3. CASE HandlerOk(t)
  <2>. DEFINE pc == AfterHandler[task[t].kind]
  <2>1. /\ pc \in PCs \ {"idle", "adding"}
        /\ pc \in {"hit", "fill"} => task[t].kind \in {"entry", "link"}
        /\ pc = "move" => task[t].kind \in {"rename", "replace"}
    BY <1>2 DEF AfterHandler, Kinds, PCs
  <2>. HIDE DEF pc
  <2>2. Goto(t, pc)
    BY <1>3 DEF HandlerOk, pc
  <2>. QED
    BY <1>1, <1>2, <2>1, <2>2, GotoInv
<1>4. CASE HandlerError(t)
  <2>1. Becomes(t, IdleTask)
    BY <1>4 DEF HandlerError, Finish
  <2>2. Fits(t, IdleTask, writer, Present(map))
    BY <1>2, IdleType DEF Fits
  <2>. QED
    BY <1>1, <2>1, <2>2, IdleType, ReadStep
<1>. QED
  BY <1>3, <1>4

LEMMA LookupMissInv ==
  ASSUME ResolverInv, NEW t \in Task, LookupMiss(t) PROVE ResolverInv'
<1>1. /\ task[t].pc = "hit" /\ Goto(t, "fill")
      /\ UNCHANGED <<map, poisoned, writer, forget>>
  BY DEF LookupMiss, Enters, At, resolver
<1>. QED
  BY <1>1, GotoInv, TaskFacts DEF Fits, PCs

(* The answer of a lookup, on a mapper that stayed safe. *)
LEMMA AnswerInv ==
  ASSUME ResolverInv, NEW t \in Task, task[t].pc \in {"hit", "fill"}, Unlocked,
         NEW i \in Inode, Becomes(t, Answered(task[t], task[t].name, i)),
         UNCHANGED <<writer, forget>>, SafeMap(map')
  PROVE  ResolverInv'
<1>. DEFINE r == Answered(task[t], task[t].name, i)
<1>1. /\ task[t] \in TaskState /\ task[t].name \in Name
      /\ task[t].kind \in {"entry", "link"}
  BY TaskFacts DEF Fits
<1>2. /\ r \in TaskState /\ r.pc = "reply" /\ r.kind = task[t].kind
      /\ r.name = task[t].name
  BY <1>1, AnsweredType
<1>. HIDE DEF r
<1>3. Fits(t, r, Nobody, Present(map'))
  BY <1>1, <1>2, ResolverAssumption DEF Fits, Kinds
<1>. QED
  BY <1>2, <1>3, UnlockedStep DEF r

LEMMA LookupHitInv ==
  ASSUME ResolverInv, NEW t \in Task, LookupHit(t) PROVE ResolverInv'
<1>. DEFINE i == Child(map, task[t].parent, task[t].name)
            d == Plus(map.inodes[i].data, 1)
<1>1. /\ task[t].pc = "hit" /\ Unlocked
      /\ Becomes(t, Answered(task[t], task[t].name, i))
      /\ map' = [map EXCEPT !.inodes[i].data = d]
      /\ UNCHANGED <<writer, forget>>
  BY DEF LookupHit, Enters, At
<1>2. i \in Present(map) /\ i \in Inode /\ SafeMap(map)
  BY ListedType DEF ResolverInv, LookupHit
<1>. HIDE DEF i
<1>3. d \in Data
  BY <1>2, CountType, CountTypes DEF Plus
<1>4. SafeMap(map')
  BY <1>1, <1>2, <1>3, CountSafe
<1>. QED
  BY <1>1, <1>2, <1>4, AnswerInv DEF i

(* The two insertions leave the name listed under the parent. *)
LEMMA InsertFacts ==
  ASSUME NEW m, SafeMap(m), NEW p \in Present(m), NEW n \in Name, NEW d \in Data,
         Listed(m, p, n) \/ HasRoom(m)
  PROVE  LET r == Insert(m, p, n, d)
         IN  /\ SafeMap(r) /\ Present(m) \subseteq Present(r)
             /\ Child(r, p, n) \in Inode
BY InsertSafe, InsertLists, ListedType

LEMMA FillInv ==
  ASSUME ResolverInv, NEW t \in Task, Fill(t) PROVE ResolverInv'
<1>. DEFINE m == Insert(map, task[t].parent, task[t].name, 1)
            i == Child(m, task[t].parent, task[t].name)
<1>1. /\ task[t].pc = "fill" /\ Unlocked
      /\ Becomes(t, Answered(task[t], task[t].name, i))
      /\ map' = m /\ UNCHANGED <<writer, forget>>
  BY DEF Fill, Enters, At
<1>2. /\ task[t].parent \in Present(map) /\ task[t].name \in Name
      /\ Listed(map, task[t].parent, task[t].name) \/ HasRoom(map)
  BY <1>1, TaskFacts DEF Fits, Fill
<1>3. SafeMap(m) /\ i \in Inode
  BY <1>2, InsertFacts, CountTypes DEF ResolverInv
<1>. HIDE DEF m, i
<1>. QED
  BY <1>1, <1>3, AnswerInv

LEMMA InsertPanicInv ==
  ASSUME ResolverInv, NEW t \in Task, InsertPanic(t) PROVE ResolverInv'
BY PanicInv DEF InsertPanic, Enters

LEMMA AddChildrenInv ==
  ASSUME ResolverInv, NEW t \in Task, AddChildren(t) PROVE ResolverInv'
<1>. DEFINE r == [task[t] EXCEPT !.pc = "adding"]
<1>1. /\ task[t].pc = "insert" /\ Unlocked /\ ~ poisoned
      /\ task[t].parent \in Present(map)
      /\ map' = EnsureMap(map, task[t].parent) /\ writer' = t
      /\ Becomes(t, r) /\ UNCHANGED <<poisoned, forget>>
  BY DEF AddChildren, Enters, At, Goto
<1>2. SafeMap(map') /\ Present(map') = Present(map)
  BY <1>1, EnsureMapSafe DEF ResolverInv
<1>3. /\ r \in TaskState /\ r.pc = "adding" /\ r.kind = task[t].kind
      /\ r.name = task[t].name /\ r.newname = task[t].newname
      /\ r.parent = task[t].parent
  BY TaskFacts, GotoType DEF PCs
<1>. HIDE DEF r
<1>4. Fits(t, r, writer', Present(map'))
  BY <1>1, <1>2, <1>3, TaskFacts DEF Fits
<1>5. \A u \in Task \ {t} : Fits(u, task[u], writer', Present(map'))
  BY <1>1, <1>2, ResolverAssumption DEF ResolverInv, Fits, Unlocked
<1>. QED
  BY <1>1, <1>2, <1>3, <1>4, <1>5, TaskStep

(* The task that adds children is the writer. *)
LEMMA WriterFacts ==
  ASSUME ResolverInv, NEW t \in Task, task[t].pc = "adding"
  PROVE  /\ writer = t /\ ~ poisoned /\ task[t].parent \in Present(map)
         /\ \A u \in Task \ {t} : task[u].pc # "adding"
<1>1. writer = t /\ task[t].parent \in Present(map)
  BY TaskFacts DEF Fits
<1>2. \A u \in Task \ {t} : task[u].pc # "adding"
  BY <1>1, TaskFacts DEF Fits
<1>. QED
  BY <1>1, <1>2, ResolverAssumption DEF ResolverInv

LEMMA NewCountType ==
  ASSUME ResolverInv, NEW t \in Task, NEW n PROVE NewCount(t, n) \in Data
<1>. DEFINE p   == task[t].parent
            one == IF task[t].kind = "readdirplus" THEN 1 ELSE 0
<1>1. one \in Data /\ one \in Int
  BY CountTypes
<1>. HIDE DEF one
<1>2. NewCount(t, n) = IF Listed(map, p, n)
                       THEN Plus(map.inodes[Child(map, p, n)].data, one) ELSE one
  BY DEF NewCount, one
<1>3. CASE Listed(map, p, n)
  <2>1. map.inodes[Child(map, p, n)].data \in Int
    BY <1>3, ListedType, CountType DEF ResolverInv
  <2>. QED
    BY <1>1, <1>2, <1>3, <2>1, CountTypes DEF Plus
<1>. QED
  BY <1>1, <1>2, <1>3

LEMMA AddChildInv ==
  ASSUME ResolverInv, NEW t \in Task, NEW n \in task[t].todo, AddChild(t, n)
  PROVE  ResolverInv'
<1>. DEFINE m == Insert(map, task[t].parent, n, NewCount(t, n))
            i == Child(m, task[t].parent, n)
            r == Added(task[t], n, i)
<1>1. /\ task[t].pc = "adding" /\ map' = m /\ Becomes(t, r)
      /\ Listed(map, task[t].parent, n) \/ HasRoom(map)
      /\ UNCHANGED <<poisoned, writer, forget>>
  BY DEF AddChild, At
<1>2. task[t] \in TaskState /\ n \in Name
  BY TaskFacts DEF TaskState
<1>3. SafeMap(m) /\ Present(map) \subseteq Present(m) /\ i \in Inode
  BY <1>1, <1>2, WriterFacts, NewCountType, InsertFacts DEF ResolverInv
<1>. HIDE DEF m, i
<1>4. /\ r \in TaskState /\ r.pc = "adding" /\ r.kind = task[t].kind
      /\ r.name = task[t].name /\ r.newname = task[t].newname
      /\ r.parent = task[t].parent
  BY <1>1, <1>2, <1>3, AddedType
<1>. HIDE DEF r
<1>5. Fits(t, r, writer', Present(map'))
  BY <1>1, <1>3, <1>4, TaskFacts DEF Fits
<1>6. \A u \in Task \ {t} : Fits(u, task[u], writer', Present(map'))
  BY <1>1, <1>3, TaskFacts DEF Fits
<1>. QED
  BY <1>1, <1>3, <1>4, <1>5, <1>6, TaskStep DEF ResolverInv

LEMMA AddedChildrenInv ==
  ASSUME ResolverInv, NEW t \in Task, AddedChildren(t) PROVE ResolverInv'
<1>. DEFINE r == [task[t] EXCEPT !.pc = "reply"]
<1>1. /\ task[t].pc = "adding" /\ writer' = Nobody /\ Becomes(t, r)
      /\ UNCHANGED <<map, poisoned, forget>>
  BY DEF AddedChildren, At, Goto
<1>2. /\ r \in TaskState /\ r.pc = "reply" /\ r.kind = task[t].kind
      /\ r.name = task[t].name /\ r.newname = task[t].newname
  BY TaskFacts, GotoType DEF PCs
<1>. HIDE DEF r
<1>3. Fits(t, r, writer', Present(map'))
  BY <1>1, <1>2, TaskFacts, ResolverAssumption DEF Fits
<1>4. \A u \in Task \ {t} : Fits(u, task[u], writer', Present(map'))
  BY <1>1, WriterFacts, TaskFacts, ResolverAssumption DEF Fits
<1>. QED
  BY <1>1, <1>2, <1>3, <1>4, TaskStep DEF ResolverInv

LEMMA RenameInMapperInv ==
  ASSUME ResolverInv, NEW t \in Task, RenameInMapper(t) PROVE ResolverInv'
<1>. DEFINE r == [task[t] EXCEPT !.pc = "reply"]
<1>1. /\ task[t].pc = "move" /\ Unlocked /\ CanMove(t) /\ Becomes(t, r)
      /\ map' = Moved(map, task[t].parent, task[t].name,
                      task[t].newparent, task[t].newname)
      /\ UNCHANGED <<poisoned, writer, forget>>
  BY DEF RenameInMapper, Enters, At, Goto
<1>2. task[t].newname \in Name
  BY <1>1, TaskFacts DEF Fits
<1>3. SafeMap(map')
  BY <1>1, <1>2, MovedFacts DEF ResolverInv, CanMove
<1>4. /\ r \in TaskState /\ r.pc = "reply" /\ r.kind = task[t].kind
      /\ r.name = task[t].name /\ r.newname = task[t].newname
  BY TaskFacts, GotoType DEF PCs
<1>. HIDE DEF r
<1>5. Fits(t, r, Nobody, Present(map'))
  BY <1>1, <1>4, TaskFacts, ResolverAssumption DEF Fits
<1>. QED
  BY <1>1, <1>3, <1>4, <1>5, UnlockedStep

LEMMA RenamePanicInv ==
  ASSUME ResolverInv, NEW t \in Task, RenamePanic(t) PROVE ResolverInv'
BY PanicInv DEF RenamePanic, Enters

LEMMA ReplyInv ==
  ASSUME ResolverInv, NEW t \in Task, Reply(t) PROVE ResolverInv'
<1>1. /\ task[t].pc = "reply" /\ Becomes(t, IdleTask)
      /\ UNCHANGED <<map, poisoned, writer, forget>>
  BY DEF Reply, At, Finish, resolver
<1>2. Fits(t, IdleTask, writer, Present(map))
  BY <1>1, TaskFacts, IdleType DEF Fits
<1>. QED
  BY <1>1, <1>2, IdleType, ReadStep

LEMMA StepInv ==
  ASSUME ResolverInv, NEW t \in Task, Step(t) PROVE ResolverInv'
BY LockPanicInv, ResolveInv, HandlerInv, LookupHitInv, LookupMissInv, FillInv,
   InsertPanicInv, AddChildrenInv, AddChildInv, AddedChildrenInv,
   RenameInMapperInv, RenamePanicInv, ReplyInv
   DEF Step

-----------------------------------------------------------------------------
(* The steps of a forget. *)
LEMMA ForgetStep ==
  ASSUME ResolverInv, Unlocked, UNCHANGED <<task, writer>>, SafeMap(map'),
         ForgetFits'
  PROVE  ResolverInv'
<1>1. \A t \in Task : t # Nobody
  BY ResolverAssumption
<1>2. \A t \in Task : Fits(t, task[t], writer, Present(map'))
  BY <1>1 DEF ResolverInv, Fits, Unlocked
<1>. QED
  BY <1>2 DEF ResolverInv, Unlocked

LEMMA NoForgetFits == forget' = NoForget => ForgetFits'
BY InodeMapAssumption DEF NoForget, ForgetFits, ForgetState, Inode, Root

LEMMA ForgetPanicInv ==
  ASSUME ResolverInv, NEW what, NEW guard, Unlocked, ForgetPanic(what, guard)
  PROVE  ResolverInv'
BY ForgetStep, NoForgetFits DEF ForgetPanic, ResolverInv

LEMMA ForgetNextPlace ==
  ASSUME ForgetFits, forget.pc # "idle", NEW pc \in {"subtract", "remove"},
         forget' = [forget EXCEPT !.pc = pc]
  PROVE  ForgetFits'
BY DEF ForgetFits, ForgetState

LEMMA ForgetResolveInv == ASSUME ResolverInv, ForgetResolve PROVE ResolverInv'
<1>1. forget.pc = "resolve" /\ Unlocked
  BY DEF ForgetResolve, InForget
<1>2. CASE /\ forget' = [forget EXCEPT !.pc = "subtract"]
           /\ UNCHANGED <<resolver, task, kernel>>
  BY <1>1, <1>2, ForgetStep, ForgetNextPlace DEF ResolverInv, resolver
<1>3. CASE ForgetPanic("resolve", FALSE)
  BY <1>1, <1>3, ForgetPanicInv
<1>. QED
  BY <1>2, <1>3 DEF ForgetResolve

LEMMA ForgetSubtractInv == ASSUME ResolverInv, ForgetSubtract PROVE ResolverInv'
<1>. DEFINE i     == forget.ino
            count == map.inodes[i].data
            d     == (count + Wrap - (forget.n % Wrap)) % Wrap
<1>1. /\ forget.pc = "subtract" /\ Unlocked /\ i \in Present(map)
      /\ map' = [map EXCEPT !.inodes[i].data = d]
      /\ forget' = IF count > 0 THEN NoForget ELSE [forget EXCEPT !.pc = "remove"]
      /\ UNCHANGED <<task, writer>>
  BY DEF ForgetSubtract, InForget
<1>2. count \in Int /\ forget.n \in Int
  BY <1>1, CountType DEF ResolverInv, ForgetFits, ForgetState
<1>3. count + Wrap - (forget.n % Wrap) \in Int
  <2>. DEFINE k == forget.n % Wrap
  <2>1. k \in Data
    BY <1>2, CountTypes
  <2>. HIDE DEF k
  <2>2. k \in Int
    BY <2>1, ResolverAssumption
  <2>3. count + Wrap - k \in Int
    BY <1>2, <2>2, CountTypes
  <2>. QED
    BY <2>3 DEF k
<1>4. d \in Data
  BY <1>3, CountTypes
<1>. HIDE DEF d
<1>5. SafeMap(map')
  BY <1>1, <1>4, CountSafe DEF ResolverInv
<1>6. ForgetFits'
  BY <1>1, NoForgetFits, ForgetNextPlace DEF ResolverInv
<1>. QED
  BY <1>1, <1>5, <1>6, ForgetStep

LEMMA ForgetRemoveInv == ASSUME ResolverInv, ForgetRemove PROVE ResolverInv'
<1>1. /\ Unlocked /\ forget.ino \in Present(map) \ {Root}
      /\ map' = Removed(map, forget.ino) /\ forget' = NoForget
      /\ UNCHANGED <<task, writer>>
  BY DEF ForgetRemove, InForget, ResolverInv, ForgetFits
<1>2. SafeMap(map')
  BY <1>1, RemovedFacts DEF ResolverInv
<1>. QED
  BY <1>1, <1>2, ForgetStep, NoForgetFits

LEMMA ForgetStepsInv == ASSUME ResolverInv, ForgetSteps PROVE ResolverInv'
BY ForgetPanicInv, ForgetResolveInv, ForgetSubtractInv, ForgetRemoveInv
   DEF ForgetSteps, ForgetLockPanic, ForgetMissing, InForget

-----------------------------------------------------------------------------
LEMMA InitResolverInv == Init => ResolverInv
<1>. SUFFICES ASSUME Init PROVE ResolverInv
  OBVIOUS
<1>1. SafeMap(map)
  BY NewMapSafe, CountTypes DEF Init
<1>2. task \in [Task -> TaskState] /\ \A t \in Task : task[t] = IdleTask
  BY IdleType DEF Init
<1>3. \A t \in Task : Fits(t, task[t], writer, Present(map))
  BY <1>2, IdleType, ResolverAssumption DEF Init, Fits
<1>4. ForgetFits
  BY InodeMapAssumption DEF Init, NoForget, ForgetFits, ForgetState, Inode, Root
<1>. QED
  BY <1>1, <1>2, <1>3, <1>4 DEF Init, ResolverInv

LEMMA NextResolverInv == ASSUME ResolverInv, [Next]_vars PROVE ResolverInv'
<1>1. CASE Next
  BY <1>1, StartInv, StartForgetInv, StepInv, ForgetStepsInv DEF Next
<1>2. CASE UNCHANGED vars
  BY <1>2 DEF vars, resolver, ResolverInv, ForgetFits
<1>. QED
  BY <1>1, <1>2

(* However requests and forgets interleave, and wherever they panic, the
   mapper inside the lock stays consistent: its unwraps of listed entries
   cannot fail. *)
THEOREM MapStaysSafe == Spec => []MapSafe
<1>1. ResolverInv => MapSafe
  BY DEF ResolverInv, SafeMap, MapSafe
<1>. QED
  BY <1>1, InitResolverInv, NextResolverInv, PTL DEF Spec

-----------------------------------------------------------------------------
(* Whoever changes the mapper is inside the write guard, or inside the read
   guard on a count, of a lock that is not poisoned. *)
LEMMA PoisonedStep ==
  ASSUME ResolverInv, poisoned, [Next]_vars PROVE map' = map /\ writer' = writer
<1>. USE DEF resolver
<1>1. CASE Start
  <2>1. ASSUME NEW t, NEW p, NEW n, StartEntry(t, p, n) \/ StartUnlink(t, p, n)
        PROVE  map' = map /\ writer' = writer
    BY <2>1, TakesLeaves DEF StartEntry, StartUnlink
  <2>2. ASSUME NEW t, NEW i, NEW p, NEW n, StartLink(t, i, p, n)
        PROVE  map' = map /\ writer' = writer
    BY <2>2, TakesLeaves DEF StartLink
  <2>3. ASSUME NEW t, NEW p, NEW names, NEW kind, StartReaddir(t, p, names, kind)
        PROVE  map' = map /\ writer' = writer
    BY <2>3, TakesLeaves DEF StartReaddir
  <2>4. ASSUME NEW t, NEW p, NEW o, NEW q, NEW n, NEW kind,
               StartRename(t, p, o, q, n, kind)
        PROVE  map' = map /\ writer' = writer
    BY <2>4, TakesLeaves DEF StartRename
  <2>. QED
    BY <1>1, <2>1, <2>2, <2>3, <2>4 DEF Start
<1>2. ASSUME NEW i \in Inode, NEW n \in 1 .. MaxRefs, StartForget(i, n)
      PROVE  map' = map /\ writer' = writer
  BY <1>2 DEF StartForget
<1>3. ASSUME NEW t \in Task, Step(t) PROVE map' = map /\ writer' = writer
  <2>1. CASE LockPanic(t) \/ InsertPanic(t) \/ RenamePanic(t)
    BY <2>1 DEF LockPanic, InsertPanic, RenamePanic, Panic
  <2>2. CASE Resolve(t) \/ ResolveSecond(t)
    BY <2>2 DEF Resolve, ResolveSecond, ResolveOne, Enters
  <2>3. CASE HandlerOk(t) \/ HandlerError(t) \/ Reply(t)
    BY <2>3 DEF HandlerOk, HandlerError, Reply
  <2>4. CASE \/ LookupHit(t) \/ LookupMiss(t) \/ Fill(t) \/ AddChildren(t)
             \/ RenameInMapper(t)
    BY <2>4 DEF LookupHit, LookupMiss, Fill, AddChildren, RenameInMapper, Enters
  <2>5. CASE AddedChildren(t) \/ \E n \in task[t].todo : AddChild(t, n)
    BY <2>5, WriterFacts DEF AddedChildren, AddChild, At
  <2>. QED
    BY <1>3, <2>1, <2>2, <2>3, <2>4, <2>5 DEF Step
<1>4. CASE ForgetSteps
  BY <1>4 DEF ForgetSteps, ForgetLockPanic, ForgetResolve, ForgetSubtract,
              ForgetMissing, ForgetRemove, ForgetPanic
<1>. QED
  BY <1>1, <1>2, <1>3, <1>4 DEF Next, vars

(* After a panic under the write guard no request and no forget changes the
   mapper again, and none is left inside the guard. *)
THEOREM PoisonIsFinal == Spec => PoisonedIsFrozen
<1>1. ResolverInv /\ [Next]_vars => [poisoned => map' = map /\ writer' = writer]_vars
  BY PoisonedStep
<1>. QED
  BY <1>1, InitResolverInv, NextResolverInv, PTL DEF Spec, PoisonedIsFrozen

-----------------------------------------------------------------------------
(* What a step may do to the mapper. *)
Counts(m, r) == \E i \in Present(m), d \in Data : r = [m EXCEPT !.inodes[i].data = d]
Inserts(m, r) == \E p \in Present(m), n \in Name, d \in Data :
                   (Listed(m, p, n) \/ HasRoom(m)) /\ r = Insert(m, p, n, d)
Ensures(m, r) == \E p \in Present(m) : r = EnsureMap(m, p)
Removes(m, r) == \E i \in Present(m) \ {Root} : r = Removed(m, i)
Renames == \E t \in Task : RenameInMapper(t)

(* Starting a request changes nothing but its task. *)
LEMMA StartLeaves ==
  ASSUME Start
  PROVE  UNCHANGED <<map, poisoned, panics, alive, writer, forget, refs, dcache>>
<1>1. ASSUME NEW t, NEW r, NEW kind, NEW demand, Takes(t, r, kind, demand)
      PROVE  UNCHANGED <<map, poisoned, panics, alive, writer, forget, refs, dcache>>
  BY <1>1 DEF Takes, resolver, kernel
<1> DEFINE Left == UNCHANGED <<map, poisoned, panics, alive, writer, forget, refs, dcache>>
<1>2. ASSUME NEW t, NEW p, NEW n, StartEntry(t, p, n) \/ StartUnlink(t, p, n) PROVE Left
  BY <1>1, <1>2 DEF StartEntry, StartUnlink
<1>3. ASSUME NEW t, NEW i, NEW p, NEW n, StartLink(t, i, p, n) PROVE Left
  BY <1>1, <1>3 DEF StartLink
<1>4. ASSUME NEW t, NEW p, NEW names, NEW kind, StartReaddir(t, p, names, kind) PROVE Left
  BY <1>1, <1>4 DEF StartReaddir
<1>5. ASSUME NEW t, NEW p, NEW o, NEW q, NEW n, NEW kind, StartRename(t, p, o, q, n, kind)
      PROVE  Left
  BY <1>1, <1>5 DEF StartRename
<1> QED
  BY <1>2, <1>3, <1>4, <1>5 DEF Start

(* Every step leaves the mapper alone or does one of these to it. *)
LEMMA MapSteps ==
  ASSUME ResolverInv, [Next]_vars
  PROVE  map' = map \/ Counts(map, map') \/ Inserts(map, map') \/ Ensures(map, map')
         \/ Removes(map, map') \/ Renames
<1> DEFINE Goal == map' = map \/ Counts(map, map') \/ Inserts(map, map') \/ Ensures(map, map')
                   \/ Removes(map, map') \/ Renames
<1> SUFFICES Goal
  OBVIOUS
<1>0. SafeMap(map)
  BY DEF ResolverInv
<1>1. CASE UNCHANGED vars
  BY <1>1 DEF vars, resolver
<1>2. CASE Start
  BY <1>2, StartLeaves
<1>3. ASSUME NEW i \in Inode, NEW n \in 1 .. MaxRefs, StartForget(i, n) PROVE Goal
  BY <1>3 DEF StartForget, resolver
<1>4. ASSUME NEW t \in Task, Step(t) PROVE Goal
  <2>1. CASE LookupHit(t)
    <3> DEFINE i == Child(map, task[t].parent, task[t].name)
               d == Plus(map.inodes[i].data, 1)
    <3>1. map' = [map EXCEPT !.inodes[i].data = d] /\ Listed(map, task[t].parent, task[t].name)
      BY <2>1 DEF LookupHit
    <3>2. i \in Present(map)
      BY <3>1, <1>0, ListedType
    <3> HIDE DEF i
    <3>3. d \in Data
      BY <3>2, <1>0, CountType, CountTypes DEF Plus
    <3> HIDE DEF d
    <3> QED BY <3>1, <3>2, <3>3 DEF Counts
  <2>2. CASE Fill(t)
    <3>1. /\ task[t].parent \in Present(map)
          /\ Listed(map, task[t].parent, task[t].name) \/ HasRoom(map)
          /\ map' = Insert(map, task[t].parent, task[t].name, 1)
          /\ task[t].pc = "fill"
      BY <2>2 DEF Fill, Enters, At
    <3>2. task[t].name \in Name
      BY <3>1, TaskFacts DEF Fits
    <3> QED BY <3>1, <3>2, CountTypes DEF Inserts
  <2>3. CASE AddChildren(t)
    BY <2>3 DEF AddChildren, Ensures
  <2>4. ASSUME NEW n \in task[t].todo, AddChild(t, n) PROVE Goal
    <3>1. /\ Listed(map, task[t].parent, n) \/ HasRoom(map)
          /\ map' = Insert(map, task[t].parent, n, NewCount(t, n))
          /\ task[t].pc = "adding"
      BY <2>4 DEF AddChild, At
    <3>2. n \in Name /\ task[t].parent \in Present(map)
      BY <3>1, <2>4, TaskFacts, WriterFacts DEF TaskState
    <3> QED BY <3>1, <3>2, NewCountType DEF Inserts
  <2>5. CASE RenameInMapper(t)
    BY <2>5 DEF Renames
  <2>6. CASE LockPanic(t) \/ InsertPanic(t) \/ RenamePanic(t)
    BY <2>6 DEF LockPanic, InsertPanic, RenamePanic, Panic
  <2>7. CASE Resolve(t) \/ ResolveSecond(t)
    BY <2>7 DEF Resolve, ResolveSecond, ResolveOne, Panic, resolver
  <2>8. CASE HandlerOk(t) \/ HandlerError(t) \/ Reply(t) \/ LookupMiss(t) \/ AddedChildren(t)
    BY <2>8 DEF HandlerOk, HandlerError, Reply, LookupMiss, AddedChildren, resolver
  <2> QED BY <1>4, <2>1, <2>2, <2>3, <2>4, <2>5, <2>6, <2>7, <2>8 DEF Step
<1>5. CASE ForgetSteps
  <2>1. CASE ForgetSubtract
    <3> DEFINE i     == forget.ino
               d == (map.inodes[i].data + Wrap - (forget.n % Wrap)) % Wrap
    <3>1. i \in Present(map) /\ map' = [map EXCEPT !.inodes[i].data = d]
      BY <2>1 DEF ForgetSubtract
    <3>2. map.inodes[i].data \in Int /\ forget.n \in Int
      BY <1>0, <3>1, CountType DEF ResolverInv, ForgetFits, ForgetState
    <3>3. forget.n % Wrap \in Int
      <4> DEFINE k == forget.n % Wrap
      <4>1. k \in Data
        BY <3>2, CountTypes
      <4> HIDE DEF k
      <4>2. k \in Int
        BY <4>1, ResolverAssumption
      <4> QED BY <4>2 DEF k
    <3>4. \A x, y \in Int : (x + Wrap - y) \in Int
      BY CountTypes
    <3>5. map.inodes[i].data + Wrap - (forget.n % Wrap) \in Int
      BY <3>2, <3>3, <3>4
    <3>6. d \in Data
      BY <3>5, CountTypes
    <3> HIDE DEF d, i
    <3> QED BY <3>1, <3>6 DEF Counts
  <2>2. CASE ForgetRemove
    <3>1. forget.ino # Root
      BY <2>2 DEF ForgetRemove, InForget, ResolverInv, ForgetFits
    <3> QED BY <2>2, <3>1 DEF ForgetRemove, Removes
  <2>3. CASE ForgetLockPanic \/ ForgetResolve \/ ForgetMissing
    BY <2>3 DEF ForgetLockPanic, ForgetResolve, ForgetMissing, ForgetPanic, resolver
  <2> QED BY <1>5, <2>1, <2>2, <2>3 DEF ForgetSteps
<1> QED BY <1>1, <1>2, <1>3, <1>4, <1>5 DEF Next

(* What a step may do to a request. *)
Carries(r, s) ==
  /\ r.pc # "idle" /\ s.kind = r.kind
  /\ \E x : s.given \in {r.given, {x}, r.given \cup {x}}

(* Every step leaves a task alone, carries its request on, starts or ends it. *)
LEMMA TaskSteps ==
  ASSUME ResolverInv, [Next]_vars, NEW t \in Task
  PROVE  \/ task'[t] = task[t]
         \/ task'[t].given = {} /\ (task'[t].pc = "idle" \/ task'[t].kind \in Requests)
         \/ Carries(task[t], task'[t])
<1> DEFINE Goal == \/ task'[t] = task[t]
                   \/ task'[t].given = {} /\ (task'[t].pc = "idle" \/ task'[t].kind \in Requests)
                   \/ Carries(task[t], task'[t])
<1> SUFFICES Goal
  OBVIOUS
<1>0. task \in [Task -> TaskState] /\ \A u \in Task : task[u] \in TaskState
  BY DEF ResolverInv
<1>1. ASSUME NEW u \in Task, NEW r, Becomes(u, r),
             \/ r.given = {} /\ (r.pc = "idle" \/ r.kind \in Requests)
             \/ Carries(task[u], r)
      PROVE  Goal
  BY <1>0, <1>1 DEF Becomes
<1>2. ASSUME NEW u \in Task, Finish(u) PROVE Goal
  <2>1. IdleTask.given = {} /\ IdleTask.pc = "idle"
    BY DEF IdleTask
  <2> QED BY <1>1, <1>2, <2>1 DEF Finish
<1>3. ASSUME NEW u \in Task, NEW pc, Goto(u, pc), task[u].pc # "idle" PROVE Goal
  <2> DEFINE r == [task[u] EXCEPT !.pc = pc]
  <2>1. r.kind = task[u].kind /\ r.given = task[u].given
    BY <1>0 DEF TaskState
  <2>2. Becomes(u, r)
    BY <1>3 DEF Goto
  <2> HIDE DEF r
  <2> QED BY <1>1, <1>3, <2>1, <2>2 DEF Carries
<1>4. ASSUME NEW u \in Task, NEW r \in TaskState, NEW kind, NEW demand, Takes(u, r, kind, demand),
             r.given = {}, r.kind = kind
      PROVE  Goal
  BY <1>1, <1>4 DEF Takes
<1>5. CASE UNCHANGED vars
  BY <1>5 DEF vars
<1>6. CASE Start
  <2>0. IdleTask \in TaskState /\ IdleTask.given = {}
    BY IdleType DEF IdleTask
  <2>1. ASSUME NEW u \in Task, NEW p \in Inode, NEW n \in Name, StartEntry(u, p, n) PROVE Goal
    <3> DEFINE todo == {n}
               r == [IdleTask EXCEPT !.kind = "entry", !.pc = "resolve", !.parent = p,
                                     !.name = n, !.todo = todo]
    <3>1. todo \in SUBSET Name
      OBVIOUS
    <3>2. Takes(u, r, "entry", 1)
      BY <2>1 DEF StartEntry
    <3> HIDE DEF todo
    <3>3. r \in TaskState /\ r.given = {} /\ r.kind = "entry"
      BY <3>1, <2>0 DEF TaskState, Kinds, PCs
    <3> HIDE DEF r
    <3> QED BY <1>4, <3>2, <3>3
  <2>2. ASSUME NEW u \in Task, NEW i \in Inode, NEW p \in Inode, NEW n \in Name,
               StartLink(u, i, p, n) PROVE Goal
    <3> DEFINE todo == {n}
               r == [IdleTask EXCEPT !.kind = "link", !.pc = "resolve", !.parent = p,
                                     !.name = n, !.newparent = i, !.todo = todo]
    <3>1. todo \in SUBSET Name
      OBVIOUS
    <3>2. Takes(u, r, "link", 1)
      BY <2>2 DEF StartLink
    <3> HIDE DEF todo
    <3>3. r \in TaskState /\ r.given = {} /\ r.kind = "link"
      BY <3>1, <2>0 DEF TaskState, Kinds, PCs
    <3> HIDE DEF r
    <3> QED BY <1>4, <3>2, <3>3
  <2>3. ASSUME NEW u \in Task, NEW p \in Inode, NEW names \in SUBSET Name,
               NEW kind \in {"readdir", "readdirplus"}, StartReaddir(u, p, names, kind) PROVE Goal
    <3> DEFINE r == [IdleTask EXCEPT !.kind = kind, !.pc = "resolve", !.parent = p,
                                     !.todo = names]
    <3>1. Takes(u, r, kind, Cardinality(names))
      BY <2>3 DEF StartReaddir
    <3>2. r \in TaskState /\ r.given = {} /\ r.kind = kind
      BY <2>0 DEF TaskState, Kinds, PCs
    <3> HIDE DEF r
    <3> QED BY <1>4, <3>1, <3>2
  <2>4. ASSUME NEW u \in Task, NEW p \in Inode, NEW n \in Name, StartUnlink(u, p, n) PROVE Goal
    <3> DEFINE r == [IdleTask EXCEPT !.kind = "unlink", !.pc = "resolve", !.parent = p,
                                     !.name = n]
    <3>1. Takes(u, r, "unlink", 0)
      BY <2>4 DEF StartUnlink
    <3>2. r \in TaskState /\ r.given = {} /\ r.kind = "unlink"
      BY <2>0 DEF TaskState, Kinds, PCs
    <3> HIDE DEF r
    <3> QED BY <1>4, <3>1, <3>2
  <2>5. ASSUME NEW u \in Task, NEW p \in Inode, NEW o \in Name, NEW q \in Inode, NEW n \in Name,
               NEW kind \in {"rename", "replace"}, StartRename(u, p, o, q, n, kind) PROVE Goal
    <3> DEFINE r == [IdleTask EXCEPT !.kind = kind, !.pc = "resolve", !.parent = p,
                                     !.name = o, !.newparent = q, !.newname = n]
    <3>1. Takes(u, r, kind, 0)
      BY <2>5 DEF StartRename
    <3>2. r \in TaskState /\ r.given = {} /\ r.kind = kind
      BY <2>0 DEF TaskState, Kinds, PCs
    <3> HIDE DEF r
    <3> QED BY <1>4, <3>1, <3>2
  <2> QED BY <1>6, <2>1, <2>2, <2>3, <2>4, <2>5 DEF Start
<1>7. ASSUME NEW i \in Inode, NEW n \in 1 .. MaxRefs, StartForget(i, n) PROVE Goal
  BY <1>7 DEF StartForget
<1>8. ASSUME NEW u \in Task, Step(u) PROVE Goal
  <2>1. CASE LockPanic(u) \/ InsertPanic(u) \/ RenamePanic(u) \/ HandlerError(u) \/ Reply(u)
    BY <2>1, <1>2 DEF LockPanic, InsertPanic, RenamePanic, HandlerError, Reply, Panic
  <2>2. CASE Resolve(u)
    BY <2>2, <1>2, <1>3 DEF Resolve, ResolveOne, Panic, Enters, At
  <2>3. CASE ResolveSecond(u)
    BY <2>3, <1>2, <1>3 DEF ResolveSecond, ResolveOne, Panic, Enters, At
  <2>4. CASE HandlerOk(u) \/ LookupMiss(u) \/ AddChildren(u) \/ AddedChildren(u) \/ RenameInMapper(u)
    BY <2>4, <1>3 DEF HandlerOk, LookupMiss, AddChildren, AddedChildren, RenameInMapper, Enters, At
  <2>5. ASSUME NEW n, NEW i, Becomes(u, Answered(task[u], n, i)), task[u].pc # "idle" PROVE Goal
    <3> DEFINE g == {<<n, i>>}
               r == [task[u] EXCEPT !.pc = "reply", !.todo = {}, !.given = g]
    <3>1. Becomes(u, r)
      BY <2>5 DEF Answered
    <3> HIDE DEF g
    <3>2. r.kind = task[u].kind /\ r.given = g
      BY <1>0 DEF TaskState
    <3> HIDE DEF r
    <3>3. Carries(task[u], r)
      BY <2>5, <3>2 DEF Carries, g
    <3> QED BY <1>1, <3>1, <3>3
  <2>6. CASE LookupHit(u) \/ Fill(u)
    BY <2>5, <2>6 DEF LookupHit, Fill, Enters, At
  <2>7. ASSUME NEW n \in task[u].todo, AddChild(u, n) PROVE Goal
    <3>1. PICK i : Becomes(u, Added(task[u], n, i)) /\ task[u].pc = "adding"
      BY <2>7 DEF AddChild, At
    <3> DEFINE x == <<n, i>>
               g == task[u].given \cup {x}
               todo == task[u].todo \ {n}
               r == [task[u] EXCEPT !.todo = todo, !.given = g]
    <3>2. Becomes(u, r)
      BY <3>1 DEF Added
    <3> HIDE DEF g, todo
    <3>3. r.kind = task[u].kind /\ r.given = g
      BY <1>0 DEF TaskState
    <3> HIDE DEF r
    <3>4. Carries(task[u], r)
      <4> HIDE DEF x
      <4> QED BY <3>1, <3>3 DEF Carries, g
    <3> QED BY <1>1, <3>2, <3>4
  <2> QED BY <1>8, <2>1, <2>2, <2>3, <2>4, <2>6, <2>7 DEF Step
<1>9. CASE ForgetSteps
  BY <1>9 DEF ForgetSteps, ForgetLockPanic, ForgetResolve, ForgetSubtract, ForgetMissing,
              ForgetRemove, ForgetPanic
<1> QED BY <1>5, <1>6, <1>7, <1>8, <1>9 DEF Next

-----------------------------------------------------------------------------
(* One number for a name. *)

(* The mapper with another count for i. *)
Recounted(m, i, d) == [m EXCEPT !.inodes[i].data = d]

(* What changing a count leaves as it is. *)
LEMMA CountFacts ==
  ASSUME NEW m, SafeMap(m), NEW i \in Present(m), NEW d,
         NEW r, r = Recounted(m, i, d)
  PROVE  /\ r.children = m.children /\ Present(r) = Present(m)
         /\ r.next_inode = m.next_inode
         /\ \A j \in Present(m) : /\ r.inodes[j].parent = m.inodes[j].parent
                                  /\ r.inodes[j].name = m.inodes[j].name
                                  /\ r.inodes[j].data = IF j = i THEN d ELSE m.inodes[j].data
         /\ \A e, k : Listed(r, e, k) <=> Listed(m, e, k)
         /\ \A e, k : Child(r, e, k) = Child(m, e, k)
<1> DEFINE f == [m.inodes EXCEPT ![i].data = d]
<1>1. IsMap(m) /\ \A j \in DOMAIN m.inodes : m.inodes[j] \in InodeValue
  BY DEF SafeMap, IsMap
<1>2. r.inodes = f /\ r.children = m.children /\ r.next_inode = m.next_inode
  BY <1>1 DEF IsMap, Recounted
<1>3. DOMAIN f = DOMAIN m.inodes
      /\ \A j \in DOMAIN f : /\ f[j].parent = m.inodes[j].parent
                             /\ f[j].name = m.inodes[j].name
                             /\ f[j].data = IF j = i THEN d ELSE m.inodes[j].data
  BY <1>1 DEF InodeValue, Present
<1> HIDE DEF f
<1>4. Present(r) = Present(m)
  BY <1>2, <1>3 DEF Present
<1>5. /\ \A e, k : Listed(r, e, k) <=> Listed(m, e, k)
      /\ \A e, k : Child(r, e, k) = Child(m, e, k)
  BY <1>2 DEF Listed, Children, Child
<1>6. \A j \in Present(m) : /\ r.inodes[j].parent = m.inodes[j].parent
                            /\ r.inodes[j].name = m.inodes[j].name
                            /\ r.inodes[j].data = IF j = i THEN d ELSE m.inodes[j].data
  BY <1>2, <1>3 DEF Present
<1> QED BY <1>2, <1>4, <1>5, <1>6

(* A count does not tell whether an inode is listed. *)
LEMMA CountAllListed ==
  ASSUME NEW m, SafeMap(m), NEW i \in Present(m), NEW d, AllListed(m),
         NEW r, r = Recounted(m, i, d)
  PROVE  AllListed(r)
BY CountFacts DEF AllListed

(* A request is one that the kernel sends. *)
SentKinds == \A t \in Task : task[t].pc # "idle" => task[t].kind \in Requests

LEMMA KindsStep ==
  ASSUME ResolverInv, SentKinds, [Next]_vars
  PROVE  SentKinds'
<1> SUFFICES ASSUME NEW t \in Task, task'[t].pc # "idle" PROVE task'[t].kind \in Requests
  BY DEF SentKinds
<1> QED BY TaskSteps DEF SentKinds, Carries

(* Without such requests no step renames in the mapper. *)
LEMMA NoRenames ==
  ASSUME ResolverInv, SentKinds, Requests \cap {"rename", "replace"} = {}
  PROVE  ~ Renames
<1> SUFFICES ASSUME NEW t \in Task, RenameInMapper(t) PROVE FALSE
  BY DEF Renames
<1>1. task[t].pc = "move"
  BY DEF RenameInMapper, Enters, At
<1>2. task[t].kind \in {"rename", "replace"}
  BY <1>1, TaskFacts DEF Fits
<1> QED BY <1>1, <1>2 DEF SentKinds

(* Without renames every inode stays listed under its parent and name. *)
LEMMA ListedStep ==
  ASSUME ResolverInv, AllListed(map), [Next]_vars, ~ Renames
  PROVE  AllListed(map')
<1>0. SafeMap(map)
  BY DEF ResolverInv
<1>1. CASE Counts(map, map')
  BY <1>0, <1>1, CountAllListed DEF Counts, Recounted
<1>2. CASE Inserts(map, map')
  BY <1>0, <1>2, InsertAllListed DEF Inserts
<1>3. CASE Ensures(map, map')
  BY <1>0, <1>3, EnsureAllListed DEF Ensures
<1>4. CASE Removes(map, map')
  BY <1>0, <1>4, RemovedAllListed DEF Removes
<1> QED BY <1>1, <1>2, <1>3, <1>4, MapSteps

LEMMA NewMapAllListed ==
  ASSUME NEW d
  PROVE  AllListed(NewMap(d)) /\ Present(NewMap(d)) = {Root}
<1> DEFINE v == [parent |-> Root, name |-> RootName, data |-> d]
           f == Put(Nothing, Root, v)
<1>1. NewMap(d).inodes = f
  BY DEF NewMap
<1>2. DOMAIN f = {Root}
  BY DEF Put, Nothing
<1> HIDE DEF f
<1>3. Present(NewMap(d)) = {Root}
  BY <1>1, <1>2 DEF Present
<1> QED BY <1>3 DEF AllListed

LEMMA InitKinds == Init => SentKinds
BY DEF Init, SentKinds, IdleTask

(* Without renames, and however lookups, creations, listings, unlinks and
   forgets overlap, no two inodes of the mapper have the same parent and
   name: the second half of lookup finds what another task inserted since
   the first (src/src/core/inode_mapping.rs). *)
THEOREM OneNumber ==
  ASSUME Requests \cap {"rename", "replace"} = {}
  PROVE  Spec => []OneNumberPerName
<1> DEFINE Inv == ResolverInv /\ SentKinds /\ AllListed(map)
<1>1. Init => Inv
  BY InitResolverInv, InitKinds, NewMapAllListed DEF Init
<1>2. Inv /\ [Next]_vars => Inv'
  BY NextResolverInv, KindsStep, NoRenames, ListedStep
<1>3. Inv => OneNumberPerName
  <2> SUFFICES ASSUME ResolverInv, AllListed(map),
                      NEW i \in Present(map), NEW j \in Present(map),
                      map.inodes[i].parent = map.inodes[j].parent,
                      map.inodes[i].name = map.inodes[j].name
               PROVE  i = j
    BY DEF OneNumberPerName
  <2>0. SafeMap(map) /\ map.inodes[Root].name = RootName
    BY DEF ResolverInv, SafeMap, RootStays
  <2>1. \A k \in Present(map) \ {Root} :
          /\ Listed(map, map.inodes[k].parent, map.inodes[k].name)
          /\ Child(map, map.inodes[k].parent, map.inodes[k].name) = k
    BY DEF AllListed
  <2>2. \A k \in Present(map) \ {Root} : map.inodes[k].name # RootName
    BY <2>0, <2>1, ListedNames
  <2> QED BY <2>0, <2>1, <2>2
<1> QED BY <1>1, <1>2, <1>3, PTL DEF Spec

-----------------------------------------------------------------------------
(* Types. *)

(* A reply gives finitely many entries. *)
FiniteReplies == \A t \in Task : IsFiniteSet(task[t].given)

(* The types of the kernel's tables and of the lock. *)
Told ==
  /\ poisoned \in BOOLEAN /\ alive \in BOOLEAN
  /\ panics \subseteq {"resolve", "lock", "insert", "rename", "forget"}
  /\ refs \in [Inode -> Nat]
  /\ dcache \in [DOMAIN dcache -> Inode]
  /\ DOMAIN dcache \subseteq Inode \X Name

LEMMA FiniteStep ==
  ASSUME ResolverInv, FiniteReplies, [Next]_vars
  PROVE  FiniteReplies'
<1> SUFFICES ASSUME NEW t \in Task PROVE IsFiniteSet(task'[t].given)
  BY DEF FiniteReplies
<1>1. CASE Carries(task[t], task'[t])
  <2>1. PICK x : task'[t].given \in {task[t].given, {x}, task[t].given \cup {x}}
    BY <1>1 DEF Carries
  <2>2. IsFiniteSet(task[t].given)
    BY DEF FiniteReplies
  <2>3. IsFiniteSet({x}) /\ IsFiniteSet(task[t].given \cup {x})
    BY <2>2, FS_Singleton, FS_AddElement
  <2> QED BY <2>1, <2>2, <2>3
<1> QED BY <1>1, TaskSteps, FS_EmptySet DEF FiniteReplies

(* The names of a table of the kernel. *)
LEMMA CacheWithout ==
  ASSUME NEW f, f \in [DOMAIN f -> Inode], DOMAIN f \subseteq Inode \X Name, NEW S
  PROVE  /\ Without(f, S) \in [DOMAIN Without(f, S) -> Inode]
         /\ DOMAIN Without(f, S) \subseteq Inode \X Name
BY DEF Without, Restrict

LEMMA CachePut ==
  ASSUME NEW f, f \in [DOMAIN f -> Inode], DOMAIN f \subseteq Inode \X Name,
         NEW e \in Inode \X Name, NEW i \in Inode
  PROVE  /\ Put(f, e, i) \in [DOMAIN Put(f, e, i) -> Inode]
         /\ DOMAIN Put(f, e, i) \subseteq Inode \X Name
BY DEF Put

LEMMA CacheMerge ==
  ASSUME NEW f, f \in [DOMAIN f -> Inode], DOMAIN f \subseteq Inode \X Name,
         NEW g, g \in [DOMAIN g -> Inode], DOMAIN g \subseteq Inode \X Name
  PROVE  /\ Merge(f, g) \in [DOMAIN Merge(f, g) -> Inode]
         /\ DOMAIN Merge(f, g) \subseteq Inode \X Name
BY DEF Merge

(* The names of a reply. *)
LEMMA LearnedFacts ==
  ASSUME NEW given \in SUBSET (Name \X Inode), NEW p \in Inode
  PROVE  /\ DOMAIN Learned(given, p) = {<<p, g[1]>> : g \in given}
         /\ DOMAIN Learned(given, p) \subseteq Inode \X Name
         /\ Learned(given, p) \in [DOMAIN Learned(given, p) -> Inode]
         /\ \A e \in DOMAIN Learned(given, p) :
              \E g \in given : g[1] = e[2] /\ Learned(given, p)[e] = g[2]
<1>1. DOMAIN Learned(given, p) = {<<p, g[1]>> : g \in given}
  BY DEF Learned
<1>2. ASSUME NEW e \in DOMAIN Learned(given, p)
      PROVE  \E g \in given : g[1] = e[2] /\ Learned(given, p)[e] = g[2]
  <2> DEFINE h == CHOOSE g \in given : g[1] = e[2]
  <2>1. PICK g \in given : e = <<p, g[1]>>
    BY <1>1
  <2>2. h \in given /\ h[1] = e[2]
    BY <2>1
  <2>3. Learned(given, p)[e] = h[2]
    BY <1>1 DEF Learned
  <2> HIDE DEF h
  <2> QED BY <2>2, <2>3
<1>3. DOMAIN Learned(given, p) \subseteq Inode \X Name
  BY <1>1
<1>4. \A e \in DOMAIN Learned(given, p) : Learned(given, p)[e] \in Inode
  BY <1>2
<1>5. Learned(given, p) = [e \in DOMAIN Learned(given, p) |-> Learned(given, p)[e]]
  BY DEF Learned
<1> QED BY <1>1, <1>2, <1>3, <1>4, <1>5

(* A reply keeps the types of the kernel's tables; so does every other step. *)
LEMMA ReplyTold ==
  ASSUME ResolverInv, FiniteReplies, Told, NEW t \in Task, Reply(t)
  PROVE  Told'
<1> DEFINE r == task[t]
           old == <<r.parent, r.name>>
           counted == IF r.kind = "readdir" THEN {} ELSE r.given
<1>1. /\ refs' = [i \in Inode |-> refs[i] + Cardinality({g \in counted : g[2] = i})]
      /\ dcache' =
           CASE r.kind = "unlink"  -> Without(dcache, {old})
             [] IsRename(t) /\ old \in DOMAIN dcache ->
                  Put(Without(dcache, {old}), <<r.newparent, r.newname>>, dcache[old])
             [] OTHER -> Merge(Learned(counted, r.parent), dcache)
      /\ UNCHANGED <<poisoned, alive, panics>>
  BY DEF Reply, resolver
<1>2. r \in TaskState /\ Fits(t, r, writer, Present(map)) /\ IsFiniteSet(r.given)
  BY TaskFacts DEF FiniteReplies
<1>3. /\ r.parent \in Inode /\ r.newparent \in Inode
      /\ r.given \in SUBSET (Name \X Inode)
      /\ IsRename(t) => r.newname \in Name
  BY <1>2 DEF TaskState, Fits, IsRename
<1>4. IsFiniteSet(counted) /\ counted \in SUBSET (Name \X Inode)
  BY <1>2, <1>3, FS_EmptySet
<1> HIDE DEF counted, old
<1>5. \A i \in Inode : Cardinality({g \in counted : g[2] = i}) \in Nat
  <2> TAKE i \in Inode
  <2>1. IsFiniteSet({g \in counted : g[2] = i})
    BY <1>4, FS_Subset
  <2> QED BY <2>1, FS_CardinalityType
<1>6. refs' \in [Inode -> Nat]
  BY <1>1, <1>5 DEF Told
<1>7. dcache' \in [DOMAIN dcache' -> Inode] /\ DOMAIN dcache' \subseteq Inode \X Name
  <2>0. dcache \in [DOMAIN dcache -> Inode] /\ DOMAIN dcache \subseteq Inode \X Name
    BY DEF Told
  <2>1. CASE r.kind = "unlink"
    <3>1. dcache' = Without(dcache, {old})
      BY <2>1, <1>1 DEF IsRename
    <3> QED BY <2>0, <3>1, CacheWithout
  <2>2. CASE IsRename(t) /\ old \in DOMAIN dcache
    <3>1. dcache' = Put(Without(dcache, {old}), <<r.newparent, r.newname>>, dcache[old])
      BY <1>1, <2>2 DEF IsRename
    <3>2. <<r.newparent, r.newname>> \in Inode \X Name /\ dcache[old] \in Inode
      BY <1>3, <2>0, <2>2
    <3> DEFINE w == Without(dcache, {old})
    <3>3. w \in [DOMAIN w -> Inode] /\ DOMAIN w \subseteq Inode \X Name
      BY <2>0, CacheWithout
    <3> HIDE DEF w
    <3>4. dcache' = Put(w, <<r.newparent, r.newname>>, dcache[old])
      BY <3>1 DEF w
    <3> QED BY <3>2, <3>3, <3>4, CachePut
  <2>3. CASE r.kind # "unlink" /\ ~ (IsRename(t) /\ old \in DOMAIN dcache)
    <3> DEFINE l == Learned(counted, r.parent)
    <3>1. dcache' = Merge(l, dcache)
      BY <1>1, <2>3
    <3>2. l \in [DOMAIN l -> Inode] /\ DOMAIN l \subseteq Inode \X Name
      BY <1>3, <1>4, LearnedFacts
    <3> HIDE DEF l
    <3> QED BY <2>0, <3>1, <3>2, CacheMerge
  <2> QED BY <2>1, <2>2, <2>3
<1> QED BY <1>1, <1>6, <1>7 DEF Told

LEMMA ToldStep ==
  ASSUME ResolverInv, FiniteReplies, Told, [Next]_vars
  PROVE  Told'
<1>1. CASE UNCHANGED vars
  BY <1>1 DEF vars, resolver, kernel, Told
<1>2. CASE Start
  BY <1>2, StartLeaves DEF Told
<1>3. ASSUME NEW i \in Inode, NEW n \in 1 .. MaxRefs, StartForget(i, n) PROVE Told'
  <2>1. /\ refs' = [refs EXCEPT ![i] = @ - n] /\ n \in 1 .. refs[i]
        /\ \/ dcache' = Without(dcache, {e \in DOMAIN dcache : dcache[e] = i})
           \/ dcache' = dcache
        /\ UNCHANGED <<poisoned, alive, panics>>
    BY <1>3 DEF StartForget, resolver
  <2>2. refs' \in [Inode -> Nat]
    <3>1. refs[i] \in Nat /\ refs[i] - n \in Nat
      BY <2>1 DEF Told
    <3> QED BY <2>1, <3>1 DEF Told
  <2> QED BY <2>1, <2>2, CacheWithout DEF Told
<1>4. ASSUME NEW t \in Task, NEW what \in {"resolve", "lock", "insert", "rename", "forget"},
             NEW guard \in BOOLEAN, Panic(t, what, guard) PROVE Told'
  BY <1>4 DEF Panic, Told, kernel
<1>5. ASSUME NEW what \in {"resolve", "lock", "insert", "rename", "forget"},
             NEW guard \in BOOLEAN, ForgetPanic(what, guard) PROVE Told'
  BY <1>5 DEF ForgetPanic, Told, kernel
<1>6. ASSUME NEW t \in Task, Step(t) PROVE Told'
  <2>1. CASE LockPanic(t) \/ InsertPanic(t) \/ RenamePanic(t)
    BY <2>1, <1>4 DEF LockPanic, InsertPanic, RenamePanic
  <2>2. CASE Resolve(t) \/ ResolveSecond(t)
    BY <2>2, <1>4 DEF Resolve, ResolveSecond, ResolveOne, resolver, kernel, Told
  <2>3. CASE HandlerOk(t) \/ HandlerError(t) \/ LookupMiss(t) \/ LookupHit(t) \/ Fill(t)
             \/ AddChildren(t) \/ AddedChildren(t) \/ RenameInMapper(t)
    BY <2>3 DEF HandlerOk, HandlerError, LookupMiss, LookupHit, Fill, AddChildren,
                AddedChildren, RenameInMapper, resolver, kernel, Told
  <2>4. CASE \E n \in task[t].todo : AddChild(t, n)
    BY <2>4 DEF AddChild, kernel, Told
  <2>5. CASE Reply(t)
    BY <2>5, ReplyTold
  <2> QED BY <1>6, <2>1, <2>2, <2>3, <2>4, <2>5 DEF Step
<1>7. CASE ForgetSteps
  <2>1. CASE ForgetLockPanic \/ ForgetMissing
    BY <2>1, <1>5 DEF ForgetLockPanic, ForgetMissing
  <2>2. CASE ForgetResolve
    BY <2>2, <1>5 DEF ForgetResolve, resolver, kernel, Told
  <2>3. CASE ForgetSubtract \/ ForgetRemove
    BY <2>3 DEF ForgetSubtract, ForgetRemove, kernel, Told
  <2> QED BY <1>7, <2>1, <2>2, <2>3 DEF ForgetSteps
<1> QED BY <1>1, <1>2, <1>3, <1>6, <1>7 DEF Next

LEMMA InitTold == Init => FiniteReplies /\ Told
<1> SUFFICES ASSUME Init PROVE FiniteReplies /\ Told
  OBVIOUS
<1>1. \A t \in Task : task[t].given = {}
  BY DEF Init, IdleTask
<1>2. FiniteReplies
  BY <1>1, FS_EmptySet DEF FiniteReplies
<1>3. refs \in [Inode -> Nat]
  BY DEF Init
<1>4. dcache \in [DOMAIN dcache -> Inode] /\ DOMAIN dcache \subseteq Inode \X Name
  BY DEF Init, Nothing
<1> QED BY <1>2, <1>3, <1>4 DEF Init, Told

(* For every set of tasks and kinds of request, in both builds: the mapper,
   the requests and what the kernel knows have their types; a count stays
   below Wrap and the number of references is never negative. *)
THEOREM ResolverTypes == Spec => []TypeOK
<1> DEFINE Inv == ResolverInv /\ FiniteReplies /\ Told
<1>1. Init => Inv
  BY InitResolverInv, InitTold
<1>2. Inv /\ [Next]_vars => Inv'
  BY NextResolverInv, FiniteStep, ToldStep
<1>3. Inv => TypeOK
  BY DEF ResolverInv, SafeMap, ForgetFits, Told, TypeOK
<1> QED BY <1>1, <1>2, <1>3, PTL DEF Spec

-----------------------------------------------------------------------------
(* Counts and references. *)

(* Entries a request has for the kernel are entries of the mapper; it has
   none before it is inside the mapper. *)
GivenOf(m, r) ==
  /\ \A g \in r.given : Listed(m, r.parent, g[1]) /\ Child(m, r.parent, g[1]) = g[2]
  /\ r.pc \notin {"adding", "reply"} => r.given = {}
  /\ r.pc = "adding" => \A g \in r.given : g[1] \notin r.todo
  /\ r.pc \in {"insert", "adding"} => r.kind \in {"readdir", "readdirplus"}
  /\ r.given # {} => r.kind \in {"entry", "link", "readdir", "readdirplus"}
Givens == \A t \in Task : GivenOf(map, task[t])

(* The reply of a request will give the kernel a reference to i. *)
Promise(r, i) == r.kind # "readdir" /\ \E g \in r.given : g[2] = i
Holders(i) == {t \in Task : Promise(task[t], i)}

(* Requests that may give references. *)
Gives(r) == r.pc # "idle" /\ r.kind \in {"entry", "link", "readdirplus"}
Givers == {t \in Task : Gives(task[t])}

(* A task joins or leaves a finite set. *)
LEMMA SwapCard ==
  ASSUME NEW S, IsFiniteSet(S), NEW t, NEW b \in BOOLEAN,
         NEW T, T = IF b THEN S \cup {t} ELSE S \ {t}
  PROVE  /\ IsFiniteSet(T) /\ Cardinality(T) \in Nat /\ Cardinality(S) \in Nat
         /\ Cardinality(T) = CASE b /\ t \notin S   -> Cardinality(S) + 1
                               [] ~ b /\ t \in S    -> Cardinality(S) - 1
                               [] OTHER             -> Cardinality(S)
<1>1. CASE b
  BY <1>1, FS_AddElement, FS_CardinalityType
<1>2. CASE ~ b
  BY <1>2, FS_RemoveElement, FS_CardinalityType
<1> QED BY <1>1, <1>2

(* Who promises an inode, and who gives references, after a step of one task. *)
LEMMA HoldersBecome ==
  ASSUME ResolverInv, NEW t \in Task, NEW r, Becomes(t, r), NEW i, IsFiniteSet(Holders(i))
  PROVE  /\ IsFiniteSet(Holders(i)')
         /\ Holders(i)' = IF Promise(r, i) THEN Holders(i) \cup {t} ELSE Holders(i) \ {t}
         /\ Cardinality(Holders(i)) \in Nat /\ Cardinality(Holders(i)') \in Nat
         /\ Cardinality(Holders(i)') =
              CASE Promise(r, i) /\ ~ Promise(task[t], i) -> Cardinality(Holders(i)) + 1
                [] ~ Promise(r, i) /\ Promise(task[t], i) -> Cardinality(Holders(i)) - 1
                [] OTHER                                  -> Cardinality(Holders(i))
<1>1. \A u \in Task : task'[u] = IF u = t THEN r ELSE task[u]
  BY DEF ResolverInv, Becomes
<1> DEFINE b == Promise(r, i)
           T == Holders(i)'
<1>2. T = IF b THEN Holders(i) \cup {t} ELSE Holders(i) \ {t}
  <2>1. \A u \in Task : u \in T <=> IF u = t THEN b ELSE u \in Holders(i)
    BY <1>1 DEF Holders
  <2>2. T \subseteq Task /\ Holders(i) \subseteq Task
    BY DEF Holders
  <2> QED BY <2>1, <2>2
<1>3. t \in Holders(i) <=> Promise(task[t], i)
  BY DEF Holders
<1>4. b \in BOOLEAN
  BY DEF Promise
<1>5. T = Holders(i)'
  OBVIOUS
<1> HIDE DEF T, b
<1>6. /\ IsFiniteSet(T) /\ Cardinality(T) \in Nat /\ Cardinality(Holders(i)) \in Nat
      /\ Cardinality(T) = CASE b /\ t \notin Holders(i) -> Cardinality(Holders(i)) + 1
                            [] ~ b /\ t \in Holders(i)  -> Cardinality(Holders(i)) - 1
                            [] OTHER                    -> Cardinality(Holders(i))
  BY <1>2, <1>4, SwapCard
<1> QED BY <1>2, <1>3, <1>5, <1>6 DEF b

LEMMA GiversBecome ==
  ASSUME ResolverInv, NEW t \in Task, NEW r, Becomes(t, r), IsFiniteSet(Givers)
  PROVE  /\ IsFiniteSet(Givers')
         /\ Givers' = IF Gives(r) THEN Givers \cup {t} ELSE Givers \ {t}
         /\ Cardinality(Givers) \in Nat /\ Cardinality(Givers') \in Nat
         /\ Cardinality(Givers') =
              CASE Gives(r) /\ ~ Gives(task[t]) -> Cardinality(Givers) + 1
                [] ~ Gives(r) /\ Gives(task[t]) -> Cardinality(Givers) - 1
                [] OTHER                        -> Cardinality(Givers)
<1>1. \A u \in Task : task'[u] = IF u = t THEN r ELSE task[u]
  BY DEF ResolverInv, Becomes
<1> DEFINE b == Gives(r)
           T == Givers'
<1>2. T = IF b THEN Givers \cup {t} ELSE Givers \ {t}
  <2>1. \A u \in Task : u \in T <=> IF u = t THEN b ELSE u \in Givers
    BY <1>1 DEF Givers
  <2>2. T \subseteq Task /\ Givers \subseteq Task
    BY DEF Givers
  <2> QED BY <2>1, <2>2
<1>3. t \in Givers <=> Gives(task[t])
  BY DEF Givers
<1>4. b \in BOOLEAN
  BY DEF Gives
<1>5. T = Givers'
  OBVIOUS
<1> HIDE DEF T, b
<1>6. /\ IsFiniteSet(T) /\ Cardinality(T) \in Nat /\ Cardinality(Givers) \in Nat
      /\ Cardinality(T) = CASE b /\ t \notin Givers -> Cardinality(Givers) + 1
                            [] ~ b /\ t \in Givers  -> Cardinality(Givers) - 1
                            [] OTHER                -> Cardinality(Givers)
  BY <1>2, <1>4, SwapCard
<1> QED BY <1>2, <1>3, <1>5, <1>6 DEF b

(* A mapper that keeps its entries keeps those a request has. *)
Grows(m, r) ==
  /\ Present(m) \subseteq Present(r)
  /\ \A e, k : Listed(m, e, k) => Listed(r, e, k) /\ Child(r, e, k) = Child(m, e, k)

LEMMA GivensBecome ==
  ASSUME ResolverInv, Givens, NEW t \in Task, NEW r, Becomes(t, r), Grows(map, map'),
         GivenOf(map', r)
  PROVE  Givens'
<1>1. \A u \in Task : task'[u] = IF u = t THEN r ELSE task[u]
  BY DEF ResolverInv, Becomes
<1>2. \A u \in Task : GivenOf(map', task[u])
  BY DEF Givens, GivenOf, Grows
<1> QED BY <1>1, <1>2 DEF Givens

(* Inserting a name that is listed only changes its count. *)
LEMMA InsertOldData ==
  ASSUME NEW m, SafeMap(m), NEW p, NEW n, NEW d, Listed(m, p, n),
         NEW i, i = Child(m, p, n), NEW r, r = Insert(m, p, n, d)
  PROVE  \A j \in Present(m) : r.inodes[j].data = IF j = i THEN d ELSE m.inodes[j].data
<1>1. i \in Present(m)
  BY ListedType
<1>2. r = Recounted(m, i, d)
  BY DEF Insert, Recounted
<1>3. \A j \in Present(m) : r.inodes[j].data = IF j = i THEN d ELSE m.inodes[j].data
  BY <1>1, <1>2, CountFacts
<1> QED BY <1>3

(* What an insertion leaves: the entry, its data, and everything else. *)
LEMMA InsertData ==
  ASSUME NEW m, SafeMap(m), NEW p \in Present(m), NEW n \in Name, NEW d \in Data,
         Listed(m, p, n) \/ HasRoom(m)
  PROVE  LET r == Insert(m, p, n, d)
             i == Child(r, p, n)
         IN  /\ Grows(m, r) /\ Listed(r, p, n)
             /\ Present(r) = Present(m) \cup {i} /\ i \in Present(r)
             /\ r.inodes[i].data = d
             /\ \A j \in Present(m) \ {i} : r.inodes[j].data = m.inodes[j].data
             /\ Listed(m, p, n) => i = Child(m, p, n) /\ i \in Present(m)
             /\ ~ Listed(m, p, n) => i = m.next_inode /\ i \notin Present(m)
             /\ \A j \in Present(m) : /\ r.inodes[j].parent = m.inodes[j].parent
                                      /\ r.inodes[j].name = m.inodes[j].name
             /\ \A e, k : Listed(r, e, k) <=> Listed(m, e, k) \/ (e = p /\ k = n)
<1> DEFINE r == Insert(m, p, n, d)
           i == Child(r, p, n)
<1>1. /\ \A e, k : Listed(r, e, k) <=> Listed(m, e, k) \/ (e = p /\ k = n)
      /\ \A e, k : Listed(m, e, k) => Child(r, e, k) = Child(m, e, k)
      /\ ~ Listed(m, p, n) => i = m.next_inode
  BY InsertListed
<1>2. /\ Present(r) = IF Listed(m, p, n) THEN Present(m) ELSE Present(m) \cup {m.next_inode}
      /\ \A j \in Present(m) : /\ r.inodes[j].parent = m.inodes[j].parent
                               /\ r.inodes[j].name = m.inodes[j].name
      /\ ~ Listed(m, p, n) => m.next_inode \notin Present(m)
  BY InsertPlaces
<1>3. Listed(m, p, n) => i = Child(m, p, n) /\ i \in Present(m)
  BY <1>1, ListedType
<1>4. r.inodes[i].data = d /\ \A j \in Present(m) \ {i} : r.inodes[j].data = m.inodes[j].data
  <2>1. CASE Listed(m, p, n)
    <3>1. i \in Present(m) /\ i = Child(m, p, n)
      BY <2>1, <1>3
    <3>2. r = Insert(m, p, n, d)
      OBVIOUS
    <3> HIDE DEF r, i
    <3>3. \A j \in Present(m) : r.inodes[j].data = IF j = i THEN d ELSE m.inodes[j].data
      BY <2>1, <3>1, <3>2, InsertOldData
    <3> QED BY <3>1, <3>3
  <2>2. CASE ~ Listed(m, p, n)
    <3> DEFINE v == [parent |-> p, name |-> n, data |-> d]
    <3>1. r.inodes = Put(m.inodes, i, v)
      BY <2>2, <1>1 DEF Insert
    <3>2. v.data = d
      OBVIOUS
    <3> HIDE DEF r, i, v
    <3>3. r.inodes[i] = v
      BY <3>1, PutFacts
    <3>4. \A j \in DOMAIN m.inodes \ {i} : r.inodes[j] = m.inodes[j]
      BY <3>1, PutFacts
    <3> QED BY <3>2, <3>3, <3>4 DEF Present
  <2> QED BY <2>1, <2>2
<1>5. Present(r) = Present(m) \cup {i} /\ Present(m) \subseteq Present(r)
  BY <1>1, <1>2, <1>3
<1> HIDE DEF r, i
<1>6. Grows(m, r) /\ Listed(r, p, n)
  BY <1>1, <1>5 DEF Grows
<1> QED BY <1>1, <1>2, <1>3, <1>4, <1>5, <1>6 DEF r, i

LEMMA CountGrows ==
  ASSUME NEW m, SafeMap(m), NEW i \in Present(m), NEW d,
         NEW r, r = Recounted(m, i, d)
  PROVE  Grows(m, r)
BY CountFacts DEF Grows

LEMMA EnsureGrows ==
  ASSUME NEW m, SafeMap(m), NEW p \in Present(m)
  PROVE  LET r == EnsureMap(m, p)
         IN  /\ Grows(m, r) /\ r.inodes = m.inodes
             /\ \A e, k : Listed(r, e, k) <=> Listed(m, e, k)
BY EnsureListed DEF Grows, Present

(* A reply raises the references of an inode by one if it promises one. *)
LEMMA ReplyRefs ==
  ASSUME ResolverInv, Givens, refs \in [Inode -> Nat], NEW t \in Task, Reply(t),
         NEW i \in Inode
  PROVE  refs'[i] = IF Promise(task[t], i) THEN refs[i] + 1 ELSE refs[i]
<1> DEFINE r == task[t]
           counted == IF r.kind = "readdir" THEN {} ELSE r.given
           S == {g \in counted : g[2] = i}
<1>1. refs'[i] = refs[i] + Cardinality(S)
  BY DEF Reply
<1>2. \A g \in r.given : Listed(map, r.parent, g[1]) /\ Child(map, r.parent, g[1]) = g[2]
  BY DEF Givens, GivenOf
<1>3. r.given \in SUBSET (Name \X Inode)
  BY TaskFacts DEF TaskState
<1>4. Promise(r, i) <=> \E g \in counted : g[2] = i
  BY DEF Promise
<1>5. \A g, h \in S : g = h
  <2> TAKE g, h \in S
  <2>1. /\ g \in r.given /\ h \in r.given /\ g[2] = i /\ h[2] = i
    OBVIOUS
  <2>2. map.inodes[i].name = g[1] /\ map.inodes[i].name = h[1]
    BY <2>1, <1>2, ListedNames DEF ResolverInv
  <2>3. g = <<g[1], g[2]>> /\ h = <<h[1], h[2]>>
    BY <2>1, <1>3
  <2> QED BY <2>1, <2>2, <2>3
<1>6. S = {} <=> ~ Promise(r, i)
  BY <1>4
<1> HIDE DEF S, r, counted
<1>7. CASE S = {}
  <2>1. Cardinality(S) = 0
    BY <1>7, FS_EmptySet
  <2> QED BY <1>1, <1>6, <1>7, <2>1 DEF r
<1>8. CASE S # {}
  <2>1. PICK g : g \in S
    BY <1>8
  <2>2. S = {g}
    BY <1>5, <2>1
  <2>3. Cardinality(S) = 1
    BY <2>2, FS_Singleton
  <2> QED BY <1>1, <1>6, <1>8, <2>3 DEF r
<1> QED BY <1>7, <1>8

-----------------------------------------------------------------------------
(* What a request has for the kernel after each of its steps. *)

LEMMA GivenStart ==
  ASSUME NEW m, NEW r, r.given = {}, r.pc \in {"idle", "resolve"}
  PROVE  GivenOf(m, r) /\ \A i : ~ Promise(r, i)
BY DEF GivenOf, Promise

LEMMA GivenGoto ==
  ASSUME ResolverInv, Givens, NEW m, Grows(map, m), NEW t \in Task,
         NEW pc \in PCs, NEW r, r = [task[t] EXCEPT !.pc = pc],
         pc \in {"resolve2", "handler", "fill", "hit", "move"} \/ (pc = "insert")
           \/ (pc = "adding") \/ pc = "reply",
         pc # "reply" => task[t].pc \notin {"adding", "reply"},
         pc \in {"insert", "adding"} => task[t].kind \in {"readdir", "readdirplus"}
  PROVE  /\ GivenOf(m, r) /\ r.given = task[t].given /\ r.kind = task[t].kind
         /\ r.pc = pc /\ r.parent = task[t].parent
         /\ \A i : Promise(r, i) <=> Promise(task[t], i)
<1>1. task[t] \in TaskState /\ GivenOf(map, task[t])
  BY TaskFacts DEF Givens
<1>2. /\ r.given = task[t].given /\ r.kind = task[t].kind /\ r.pc = pc
      /\ r.parent = task[t].parent /\ r.todo = task[t].todo
  BY <1>1 DEF TaskState
<1>3. \A g \in r.given : Listed(m, r.parent, g[1]) /\ Child(m, r.parent, g[1]) = g[2]
  BY <1>1, <1>2 DEF GivenOf, Grows
<1>4. GivenOf(m, r)
  BY <1>1, <1>2, <1>3 DEF GivenOf
<1> QED BY <1>2, <1>4 DEF Promise

PromisesNothing(r) == \A j : ~ Promise(r, j)
PromisesOnly(r, i) == \A j : Promise(r, j) <=> j = i

LEMMA GivenAnswered ==
  ASSUME ResolverInv, Givens, NEW m, NEW t \in Task, task[t].pc \in {"hit", "fill"},
         NEW i, Listed(m, task[t].parent, task[t].name),
         Child(m, task[t].parent, task[t].name) = i,
         NEW r, r = Answered(task[t], task[t].name, i)
  PROVE  /\ GivenOf(m, r) /\ Gives(r) /\ Gives(task[t])
         /\ PromisesNothing(task[t]) /\ PromisesOnly(r, i)
<1> DEFINE n == task[t].name
           given == {<<n, i>>}
<1>1. /\ task[t] \in TaskState /\ GivenOf(map, task[t]) /\ task[t].kind \in {"entry", "link"}
  BY TaskFacts DEF Givens, Fits
<1>2. r = [task[t] EXCEPT !.pc = "reply", !.todo = {}, !.given = given]
  BY DEF Answered
<1> HIDE DEF given
<1>3. r.given = given /\ r.kind = task[t].kind /\ r.pc = "reply" /\ r.parent = task[t].parent
  BY <1>1, <1>2 DEF TaskState
<1>4. \A g \in given : g[1] = n /\ g[2] = i
  BY DEF given
<1>5. <<n, i>> \in given
  BY DEF given
<1>6. GivenOf(m, r)
  BY <1>1, <1>3, <1>4 DEF GivenOf
<1>7. \A j : ~ Promise(task[t], j)
  BY <1>1 DEF GivenOf, Promise
<1>8. \A j : Promise(r, j) <=> j = i
  BY <1>1, <1>3, <1>4, <1>5 DEF Promise
<1> QED BY <1>1, <1>3, <1>6, <1>7, <1>8 DEF Gives, PromisesNothing, PromisesOnly

LEMMA GivenAdded ==
  ASSUME ResolverInv, Givens, NEW m, Grows(map, m), SafeMap(m),
         NEW t \in Task, task[t].pc = "adding",
         NEW n \in task[t].todo, NEW i, Listed(m, task[t].parent, n),
         Child(m, task[t].parent, n) = i,
         NEW r, r = Added(task[t], n, i)
  PROVE  /\ GivenOf(m, r)
         /\ Gives(r) <=> Gives(task[t])
         /\ ~ Promise(task[t], i)
         /\ \A j : Promise(r, j) <=> Promise(task[t], j) \/ (j = i /\ task[t].kind = "readdirplus")
         /\ task[t].kind \in {"readdir", "readdirplus"}
<1> DEFINE x == <<n, i>>
           given == task[t].given \cup {x}
           todo == task[t].todo \ {n}
<1>1. /\ task[t] \in TaskState /\ GivenOf(map, task[t])
      /\ task[t].kind \in {"readdir", "readdirplus"}
  BY TaskFacts DEF Givens, GivenOf
<1>2. r = [task[t] EXCEPT !.todo = todo, !.given = given]
  BY DEF Added
<1> HIDE DEF given, todo
<1>3. /\ r.given = given /\ r.kind = task[t].kind /\ r.pc = "adding"
      /\ r.parent = task[t].parent /\ r.todo = todo
  BY <1>1, <1>2 DEF TaskState
<1>4. \A g \in given : g \in task[t].given \/ (g[1] = n /\ g[2] = i)
  BY DEF given
<1>5. x \in given /\ x[2] = i /\ task[t].given \subseteq given
  BY DEF given
<1>6. \A g \in given : g[1] \notin todo
  <2>1. \A g \in task[t].given : g[1] \notin task[t].todo
    BY <1>1 DEF GivenOf
  <2> QED BY <1>4, <2>1 DEF todo
<1>7. \A g \in given : Listed(m, r.parent, g[1]) /\ Child(m, r.parent, g[1]) = g[2]
  BY <1>1, <1>3, <1>4 DEF GivenOf, Grows
<1>8. GivenOf(m, r)
  BY <1>1, <1>3, <1>6, <1>7 DEF GivenOf
<1>9. ~ Promise(task[t], i)
  <2> SUFFICES ASSUME NEW g \in task[t].given, g[2] = i PROVE FALSE
    BY DEF Promise
  <2>1. Listed(m, task[t].parent, g[1]) /\ Child(m, task[t].parent, g[1]) = i
    BY <1>1 DEF GivenOf, Grows
  <2>2. m.inodes[i].name = g[1] /\ m.inodes[i].name = n
    BY <2>1, ListedNames
  <2> QED BY <1>1, <2>2 DEF GivenOf
<1> HIDE DEF x
<1>10. \A j : Promise(r, j) <=> Promise(task[t], j) \/ (j = i /\ task[t].kind = "readdirplus")
  BY <1>1, <1>3, <1>4, <1>5 DEF Promise
<1>11. Gives(r) <=> Gives(task[t])
  BY <1>3 DEF Gives
<1> QED BY <1>1, <1>8, <1>9, <1>10, <1>11

-----------------------------------------------------------------------------
(* Without forgets and renames. *)

(* A held inode is counted, and never more often than it is or will be held. *)
Count(i) ==
  /\ map.inodes[i].data <= refs[i] + Cardinality(Holders(i))
  /\ refs[i] > 0 \/ Holders(i) # {} => map.inodes[i].data > 0

(* The inductive invariant of HeldIsCounted. *)
HeldInv ==
  /\ Givens /\ IsFiniteSet(Busy)
  /\ \A i \in Inode : refs[i] + Cardinality(Givers) <= MaxRefs
  /\ \A i \in Inode : refs[i] > 0 => i \in Present(map)
  /\ \A i \in Present(map) \ {Root} : Count(i)

(* The sets that are counted are finite. *)
LEMMA FiniteHolders ==
  ASSUME ResolverInv, Givens, IsFiniteSet(Busy)
  PROVE  /\ Givers \subseteq Busy /\ IsFiniteSet(Givers)
         /\ Cardinality(Givers) \in Nat /\ Cardinality(Busy) \in Nat
         /\ Cardinality(Givers) <= Cardinality(Busy)
         /\ \A i : Holders(i) \subseteq Givers /\ IsFiniteSet(Holders(i))
                   /\ Cardinality(Holders(i)) \in Nat
                   /\ Cardinality(Holders(i)) <= Cardinality(Givers)
<1>1. Givers \subseteq Busy
  BY DEF Givers, Busy, Gives
<1>2. IsFiniteSet(Givers) /\ Cardinality(Givers) <= Cardinality(Busy)
  BY <1>1, FS_Subset
<1>3. \A i : Holders(i) \subseteq Givers
  <2> SUFFICES ASSUME NEW i, NEW t \in Task, Promise(task[t], i) PROVE Gives(task[t])
    BY DEF Holders, Givers
  <2>1. task[t].given # {} /\ GivenOf(map, task[t]) /\ task[t].kind # "readdir"
    BY DEF Promise, Givens
  <2> QED BY <2>1 DEF GivenOf, Gives
<1>4. \A i : /\ IsFiniteSet(Holders(i))
             /\ Cardinality(Holders(i)) <= Cardinality(Givers)
  BY <1>2, <1>3, FS_Subset
<1> QED BY <1>1, <1>2, <1>3, <1>4, FS_CardinalityType

(* A step that changes no count and no reference. *)
LEMMA HeldSame ==
  ASSUME ResolverInv, HeldInv, Told, NEW t \in Task, NEW r, Becomes(t, r),
         Grows(map, map'), Present(map') = Present(map),
         \A i \in Present(map) : map'.inodes[i].data = map.inodes[i].data,
         refs' = refs, GivenOf(map', r),
         \A i : Promise(r, i) <=> Promise(task[t], i),
         \/ Gives(r) => Gives(task[t])
         \/ \A i \in Inode : refs[i] + Cardinality(Busy) < MaxRefs,
         IsFiniteSet(Busy')
  PROVE  HeldInv'
<1>1. Givens'
  BY GivensBecome DEF HeldInv
<1>2. /\ IsFiniteSet(Givers) /\ Cardinality(Givers) \in Nat
      /\ Cardinality(Givers) <= Cardinality(Busy) /\ Cardinality(Busy) \in Nat
      /\ \A i : IsFiniteSet(Holders(i))
  BY FiniteHolders DEF HeldInv
<1>3. \A i : Cardinality(Holders(i)') = Cardinality(Holders(i))
             /\ (Holders(i)' = {} <=> Holders(i) = {})
  <2> TAKE i
  <2>1. Cardinality(Holders(i)') = Cardinality(Holders(i)) /\ Cardinality(Holders(i)) \in Nat
        /\ IsFiniteSet(Holders(i)')
    BY <1>2, HoldersBecome
  <2> QED BY <1>2, <2>1, FS_EmptySet
<1>4. /\ Cardinality(Givers') \in Nat
      /\ Cardinality(Givers') = CASE Gives(r) /\ ~ Gives(task[t]) -> Cardinality(Givers) + 1
                [] ~ Gives(r) /\ Gives(task[t]) -> Cardinality(Givers) - 1
                [] OTHER                        -> Cardinality(Givers)
  BY <1>2, GiversBecome
<1>5. ASSUME NEW i \in Inode PROVE refs'[i] + Cardinality(Givers') <= MaxRefs
  <2>1. refs[i] \in Nat /\ refs[i] + Cardinality(Givers) <= MaxRefs
    BY DEF Told, HeldInv
  <2>2. CASE Gives(r) => Gives(task[t])
    <3>1. Cardinality(Givers') <= Cardinality(Givers)
      BY <1>2, <1>4, <2>2
    <3> QED BY <1>2, <1>4, <2>1, <3>1, ResolverAssumption
  <2>3. CASE \A j \in Inode : refs[j] + Cardinality(Busy) < MaxRefs
    <3>1. Cardinality(Givers') <= Cardinality(Givers) + 1
      BY <1>2, <1>4
    <3>2. refs[i] + Cardinality(Busy) < MaxRefs
      BY <2>3
    <3> QED BY <1>2, <1>4, <2>1, <3>1, <3>2, ResolverAssumption
  <2> QED BY <2>2, <2>3
<1>6. ASSUME NEW i \in Present(map') \ {Root} PROVE Count(i)'
  <2>1. Count(i) /\ map'.inodes[i].data = map.inodes[i].data
    BY DEF HeldInv
  <2> QED BY <2>1, <1>3 DEF Count
<1> QED BY <1>1, <1>5, <1>6 DEF HeldInv

(* A step that puts one entry into a request. *)
LEMMA HeldOneMore ==
  ASSUME ResolverInv, HeldInv, Told, NEW t \in Task, NEW r, Becomes(t, r),
         Grows(map, map'), NEW i, Present(map') = Present(map) \cup {i}, i \in Inode,
         \A j \in Present(map) \ {i} : map'.inodes[j].data = map.inodes[j].data,
         refs' = refs, GivenOf(map', r), ~ Promise(task[t], i),
         \A j : j # i => (Promise(r, j) <=> Promise(task[t], j)),
         Gives(r) <=> Gives(task[t]),
         Promise(r, i) /\ i \notin Present(map) => map'.inodes[i].data = 1,
         Promise(r, i) /\ i \in Present(map) =>
           map'.inodes[i].data \in {1, map.inodes[i].data + 1},
         ~ Promise(r, i) /\ i \notin Present(map) => map'.inodes[i].data = 0,
         ~ Promise(r, i) /\ i \in Present(map) => map'.inodes[i].data = map.inodes[i].data,
         IsFiniteSet(Busy')
  PROVE  HeldInv'
<1>1. Givens'
  BY GivensBecome DEF HeldInv
<1>2. /\ IsFiniteSet(Givers) /\ Cardinality(Givers) \in Nat
      /\ \A j : IsFiniteSet(Holders(j)) /\ Cardinality(Holders(j)) \in Nat
  BY FiniteHolders DEF HeldInv
<1>3. \A j : IsFiniteSet(Holders(j)') /\ Cardinality(Holders(j)') \in Nat
  BY <1>2, HoldersBecome
<1>4. \A j : j # i => Cardinality(Holders(j)') = Cardinality(Holders(j))
  BY <1>2, HoldersBecome
<1>5. Cardinality(Holders(i)') = IF Promise(r, i) THEN Cardinality(Holders(i)) + 1
                                 ELSE Cardinality(Holders(i))
  BY <1>2, HoldersBecome
<1>6. \A j : /\ Holders(j) = {} <=> Cardinality(Holders(j)) = 0
             /\ Holders(j)' = {} <=> Cardinality(Holders(j)') = 0
  BY <1>2, <1>3, FS_EmptySet
<1>7. Cardinality(Givers') = Cardinality(Givers)
  BY <1>2, GiversBecome
<1>8. ASSUME NEW j \in Present(map') \ {Root} PROVE Count(j)'
  <2>0. refs[j] \in Nat
    <3>1. j \in Inode
      BY InodeTypes DEF ResolverInv, SafeMap
    <3> QED BY <3>1 DEF Told
  <2>1. CASE j # i
    <3>1. Count(j) /\ map'.inodes[j].data = map.inodes[j].data
      BY <2>1, <1>8 DEF HeldInv
    <3> QED BY <3>1, <1>4, <1>6, <2>1 DEF Count
  <2>2. CASE j = i /\ i \notin Present(map)
    <3>1. refs[i] = 0
      BY <2>0, <2>2 DEF HeldInv
    <3>2. CASE Promise(r, i)
      BY <1>2, <1>5, <2>2, <3>1, <3>2 DEF Count
    <3>3. CASE ~ Promise(r, i)
      <4>1. Holders(i) = {}
        <5> SUFFICES ASSUME NEW u \in Task, Promise(task[u], i) PROVE FALSE
          BY DEF Holders
        <5>1. PICK g \in task[u].given : g[2] = i
          BY DEF Promise
        <5>2. Listed(map, task[u].parent, g[1]) /\ Child(map, task[u].parent, g[1]) = i
          BY <5>1 DEF HeldInv, Givens, GivenOf
        <5> QED BY <5>2, <2>2, ListedType DEF ResolverInv
      <4> QED BY <1>5, <1>6, <2>2, <3>1, <3>3, <4>1 DEF Count
    <3> QED BY <3>2, <3>3
  <2>3. CASE j = i /\ i \in Present(map)
    <3>1. Count(i) /\ map.inodes[i].data \in Int
      BY <2>3, <1>8, CountType DEF HeldInv, ResolverInv
    <3>2. map.inodes[i].data >= 0
      BY <2>3, CountType, ResolverAssumption DEF ResolverInv
    <3>3. CASE Promise(r, i)
      <4>1. map'.inodes[i].data > 0
        BY <3>1, <3>2, <3>3, <2>3
      <4>2. map'.inodes[i].data <= refs[i] + Cardinality(Holders(i)')
        BY <3>1, <3>3, <2>0, <2>3, <1>2, <1>5 DEF Count
      <4> QED BY <4>1, <4>2, <2>3 DEF Count
    <3>4. CASE ~ Promise(r, i)
      BY <3>1, <3>4, <2>3, <1>2, <1>5, <1>6 DEF Count
    <3> QED BY <3>3, <3>4
  <2> QED BY <2>1, <2>2, <2>3
<1>9. \A j \in Inode : refs'[j] > 0 => j \in Present(map')
  BY DEF HeldInv, Grows
<1> QED BY <1>1, <1>7, <1>8, <1>9 DEF HeldInv

(* The reply of a request. *)
LEMMA HeldReply ==
  ASSUME ResolverInv, HeldInv, Told, NEW t \in Task, Reply(t), IsFiniteSet(Busy')
  PROVE  HeldInv'
<1>0. /\ Becomes(t, IdleTask) /\ map' = map /\ task[t].pc = "reply"
      /\ IdleTask.given = {} /\ IdleTask.pc = "idle"
  BY DEF Reply, Finish, resolver, IdleTask, At
<1>1. GivenOf(map', IdleTask) /\ \A i : ~ Promise(IdleTask, i)
  BY <1>0, GivenStart
<1>2. Grows(map, map')
  BY <1>0 DEF Grows
<1>3. Givens'
  BY <1>0, <1>1, <1>2, GivensBecome DEF HeldInv
<1>4. /\ IsFiniteSet(Givers) /\ Cardinality(Givers) \in Nat
      /\ \A j : IsFiniteSet(Holders(j)) /\ Cardinality(Holders(j)) \in Nat
  BY FiniteHolders DEF HeldInv
<1>5. \A j : /\ IsFiniteSet(Holders(j)') /\ Cardinality(Holders(j)') \in Nat
             /\ Cardinality(Holders(j)') = IF Promise(task[t], j) THEN Cardinality(Holders(j)) - 1
                                           ELSE Cardinality(Holders(j))
  BY <1>0, <1>1, <1>4, HoldersBecome
<1>6. \A j : Promise(task[t], j) => Gives(task[t])
  <2> SUFFICES ASSUME NEW j, Promise(task[t], j) PROVE Gives(task[t])
    OBVIOUS
  <2>1. task[t].given # {} /\ GivenOf(map, task[t]) /\ task[t].kind # "readdir"
    BY DEF Promise, HeldInv, Givens
  <2> QED BY <2>1 DEF GivenOf, Gives
<1>7. /\ Cardinality(Givers') \in Nat
      /\ Cardinality(Givers') = IF Gives(task[t]) THEN Cardinality(Givers) - 1
                                ELSE Cardinality(Givers)
  BY <1>0, <1>4, GiversBecome DEF Gives
<1>8. \A i \in Inode : refs'[i] = IF Promise(task[t], i) THEN refs[i] + 1 ELSE refs[i]
  BY ReplyRefs DEF HeldInv, Told
<1>9. ASSUME NEW i \in Inode PROVE refs'[i] + Cardinality(Givers') <= MaxRefs
  <2>1. refs[i] \in Nat /\ refs[i] + Cardinality(Givers) <= MaxRefs
    BY DEF Told, HeldInv
  <2> QED BY <1>4, <1>6, <1>7, <1>8, <2>1, ResolverAssumption
<1>10. ASSUME NEW i \in Inode, refs'[i] > 0 PROVE i \in Present(map')
  <2>1. CASE Promise(task[t], i)
    <3>1. PICK g \in task[t].given : g[2] = i
      BY <2>1 DEF Promise
    <3>2. Listed(map, task[t].parent, g[1]) /\ Child(map, task[t].parent, g[1]) = i
      BY <3>1 DEF HeldInv, Givens, GivenOf
    <3> QED BY <1>0, <3>2, ListedType DEF ResolverInv
  <2>2. CASE ~ Promise(task[t], i)
    BY <1>0, <1>8, <1>10, <2>2 DEF HeldInv
  <2> QED BY <2>1, <2>2
<1>11. ASSUME NEW i \in Present(map') \ {Root} PROVE Count(i)'
  <2>1. i \in Inode
    BY <1>0, InodeTypes DEF ResolverInv, SafeMap
  <2>2. Count(i) /\ refs[i] \in Nat
    BY <1>0, <2>1 DEF HeldInv, Told
  <2>3. Promise(task[t], i) => Holders(i) # {}
    BY DEF Holders
  <2>4. /\ Holders(i) = {} <=> Cardinality(Holders(i)) = 0
        /\ Holders(i)' = {} <=> Cardinality(Holders(i)') = 0
    BY <1>4, <1>5, FS_EmptySet
  <2>5. map.inodes[i].data \in Int
    BY <1>0, CountType DEF ResolverInv
  <2>6. refs'[i] + Cardinality(Holders(i)') = refs[i] + Cardinality(Holders(i))
    BY <1>4, <1>5, <1>8, <2>1, <2>2
  <2>7. refs'[i] > 0 \/ Holders(i)' # {} => refs[i] > 0 \/ Holders(i) # {}
    BY <1>4, <1>5, <1>8, <2>1, <2>2, <2>3, <2>4
  <2> QED BY <1>0, <2>2, <2>6, <2>7 DEF Count
<1> QED BY <1>3, <1>9, <1>10, <1>11 DEF HeldInv

-----------------------------------------------------------------------------
(* The steps of requests, without forgets and renames. *)

LEMMA FiniteBusy ==
  ASSUME ResolverInv, IsFiniteSet(Busy), NEW t \in Task, NEW r, Becomes(t, r)
  PROVE  IsFiniteSet(Busy')
<1>1. Busy' \subseteq Busy \cup {t}
  BY DEF ResolverInv, Becomes, Busy
<1>2. IsFiniteSet(Busy \cup {t})
  BY FS_AddElement
<1> QED BY <1>1, <1>2, FS_Subset

LEMMA SameGrows ==
  ASSUME map' = map
  PROVE  Grows(map, map')
BY DEF Grows

(* A request starts. *)
LEMMA HeldStart ==
  ASSUME ResolverInv, HeldInv, Told, NEW t \in Task, NEW r, NEW kind, NEW demand,
         Takes(t, r, kind, demand), r.given = {}, r.pc = "resolve",
         ~ Gives(r) \/ \A i \in Inode : refs[i] + Cardinality(Busy) < MaxRefs
  PROVE  HeldInv'
<1>1. /\ t \notin Busy /\ Becomes(t, r) /\ map' = map /\ refs' = refs
  BY DEF Takes, resolver, kernel
<1>2. GivenOf(map', r) /\ \A i : ~ Promise(r, i)
  BY GivenStart
<1>3. task[t].given = {}
  BY <1>1 DEF Busy, HeldInv, Givens, GivenOf
<1>4. \A i : ~ Promise(task[t], i)
  BY <1>3 DEF Promise
<1>5. IsFiniteSet(Busy')
  BY <1>1, FiniteBusy DEF HeldInv
<1> QED BY <1>1, <1>2, <1>4, <1>5, SameGrows, HeldSame

(* The start of each request. *)
LEMMA HeldStarts ==
  ASSUME ResolverInv, HeldInv, Told, Start,
         Requests \cap {"rename", "replace", "forget"} = {}
  PROVE  HeldInv'
<1>0. IdleTask \in TaskState /\ IdleTask.given = {}
  BY IdleType DEF IdleTask
<1>1. ASSUME NEW u \in Task, NEW p \in Inode, NEW n \in Name, StartEntry(u, p, n) PROVE HeldInv'
  <2> DEFINE todo == {n}
             r == [IdleTask EXCEPT !.kind = "entry", !.pc = "resolve", !.parent = p,
                                   !.name = n, !.todo = todo]
  <2>1. Takes(u, r, "entry", 1) /\ \A i \in Inode : refs[i] + Cardinality(Busy) < MaxRefs
    BY <1>1 DEF StartEntry
  <2> HIDE DEF todo
  <2>2. r.given = {} /\ r.pc = "resolve"
    BY <1>0 DEF TaskState
  <2> HIDE DEF r
  <2> QED BY <2>1, <2>2, HeldStart
<1>2. ASSUME NEW u \in Task, NEW i \in Inode, NEW p \in Inode, NEW n \in Name,
             StartLink(u, i, p, n) PROVE HeldInv'
  <2> DEFINE todo == {n}
             r == [IdleTask EXCEPT !.kind = "link", !.pc = "resolve", !.parent = p,
                                   !.name = n, !.newparent = i, !.todo = todo]
  <2>1. Takes(u, r, "link", 1) /\ \A j \in Inode : refs[j] + Cardinality(Busy) < MaxRefs
    BY <1>2 DEF StartLink
  <2> HIDE DEF todo
  <2>2. r.given = {} /\ r.pc = "resolve"
    BY <1>0 DEF TaskState
  <2> HIDE DEF r
  <2> QED BY <2>1, <2>2, HeldStart
<1>3. ASSUME NEW u \in Task, NEW p \in Inode, NEW names \in SUBSET Name,
             NEW kind \in {"readdir", "readdirplus"}, StartReaddir(u, p, names, kind)
      PROVE  HeldInv'
  <2> DEFINE r == [IdleTask EXCEPT !.kind = kind, !.pc = "resolve", !.parent = p,
                                   !.todo = names]
  <2>1. /\ Takes(u, r, kind, Cardinality(names))
        /\ \A i \in Inode : refs[i] + Cardinality(Busy) < MaxRefs
    BY <1>3 DEF StartReaddir
  <2>2. r.given = {} /\ r.pc = "resolve"
    BY <1>0 DEF TaskState
  <2> HIDE DEF r
  <2> QED BY <2>1, <2>2, HeldStart
<1>4. ASSUME NEW u \in Task, NEW p \in Inode, NEW n \in Name, StartUnlink(u, p, n) PROVE HeldInv'
  <2> DEFINE r == [IdleTask EXCEPT !.kind = "unlink", !.pc = "resolve", !.parent = p,
                                   !.name = n]
  <2>1. Takes(u, r, "unlink", 0)
    BY <1>4 DEF StartUnlink
  <2>2. r.given = {} /\ r.pc = "resolve" /\ r.kind = "unlink"
    BY <1>0 DEF TaskState
  <2> HIDE DEF r
  <2>3. ~ Gives(r)
    BY <2>2 DEF Gives
  <2> QED BY <2>1, <2>2, <2>3, HeldStart
<1>5. ASSUME NEW u \in Task, NEW p \in Inode, NEW o \in Name, NEW q \in Inode, NEW n \in Name,
             NEW kind \in {"rename", "replace"}, StartRename(u, p, o, q, n, kind)
      PROVE  FALSE
  <2>1. kind \in Requests
    BY <1>5 DEF StartRename, Takes
  <2> QED BY <2>1
<1> QED BY <1>1, <1>2, <1>3, <1>4, <1>5 DEF Start

(* A task ends without an answer, before it has anything for the kernel. *)
LEMMA HeldEnds ==
  ASSUME ResolverInv, HeldInv, Told, NEW t \in Task, Finish(t),
         task[t].pc \notin {"adding", "reply"}, map' = map, refs' = refs
  PROVE  HeldInv'
<1>1. Becomes(t, IdleTask) /\ IdleTask.given = {} /\ IdleTask.pc = "idle"
  BY DEF Finish, IdleTask
<1>2. GivenOf(map', IdleTask) /\ \A i : ~ Promise(IdleTask, i)
  BY <1>1, GivenStart
<1>3. task[t].given = {}
  BY DEF HeldInv, Givens, GivenOf
<1>4. \A i : ~ Promise(task[t], i)
  BY <1>3 DEF Promise
<1>5. IsFiniteSet(Busy')
  BY <1>1, FiniteBusy DEF HeldInv
<1>6. ~ Gives(IdleTask)
  BY <1>1 DEF Gives
<1> QED BY <1>1, <1>2, <1>4, <1>5, <1>6, SameGrows, HeldSame

(* A task goes on, and the mapper keeps its entries and counts. *)
LEMMA HeldGoes ==
  ASSUME ResolverInv, HeldInv, Told, NEW t \in Task, NEW pc \in PCs \ {"idle", "resolve"},
         Goto(t, pc), task[t].pc # "idle",
         Grows(map, map'), map'.inodes = map.inodes, refs' = refs,
         pc # "reply" => task[t].pc \notin {"adding", "reply"},
         pc \in {"insert", "adding"} => task[t].kind \in {"readdir", "readdirplus"}
  PROVE  HeldInv'
<1> DEFINE r == [task[t] EXCEPT !.pc = pc]
<1>1. Becomes(t, r)
  BY DEF Goto
<1>2. r = [task[t] EXCEPT !.pc = pc]
  OBVIOUS
<1> HIDE DEF r
<1>3. /\ GivenOf(map', r) /\ r.kind = task[t].kind /\ r.pc = pc
      /\ \A i : Promise(r, i) <=> Promise(task[t], i)
  BY <1>2, GivenGoto DEF HeldInv, PCs
<1>4. Gives(r) <=> Gives(task[t])
  BY <1>3 DEF Gives
<1>5. IsFiniteSet(Busy')
  BY <1>1, FiniteBusy DEF HeldInv
<1>6. Present(map') = Present(map) /\ \A i : map'.inodes[i].data = map.inodes[i].data
  BY DEF Present
<1> QED BY <1>1, <1>3, <1>4, <1>5, <1>6, HeldSame

(* A count that is raised for a request does not wrap. *)
LEMMA NoWrap ==
  ASSUME ResolverInv, HeldInv, Told, NEW t \in Task, Gives(task[t]),
         NEW i \in Present(map) \ {Root}, ~ Promise(task[t], i)
  PROVE  Plus(map.inodes[i].data, 1) = map.inodes[i].data + 1
<1>1. i \in Inode
  BY InodeTypes DEF ResolverInv, SafeMap
<1>2. refs[i] \in Nat /\ map.inodes[i].data \in Data
  BY <1>1, CountType DEF Told, ResolverInv
<1>3. /\ IsFiniteSet(Givers) /\ Holders(i) \subseteq Givers
      /\ Cardinality(Givers) \in Nat /\ Cardinality(Holders(i)) \in Nat
  BY FiniteHolders DEF HeldInv
<1>4. t \in Givers /\ Holders(i) \subseteq Givers \ {t}
  BY <1>3 DEF Givers, Holders
<1>5. /\ Cardinality(Givers \ {t}) = Cardinality(Givers) - 1
      /\ IsFiniteSet(Givers \ {t})
  BY <1>3, <1>4, FS_RemoveElement
<1>6. Cardinality(Holders(i)) <= Cardinality(Givers \ {t})
  BY <1>4, <1>5, FS_Subset
<1>7. map.inodes[i].data <= refs[i] + Cardinality(Holders(i))
  BY DEF HeldInv, Count
<1>8. refs[i] + Cardinality(Givers) <= MaxRefs
  BY <1>1 DEF HeldInv
<1>9. map.inodes[i].data \in Nat
  BY <1>2, ResolverAssumption
<1>10. map.inodes[i].data + 1 <= MaxRefs
  BY <1>2, <1>3, <1>5, <1>6, <1>7, <1>8, <1>9, ResolverAssumption
<1> DEFINE d == map.inodes[i].data
<1>11. d \in Nat /\ d + 1 < Wrap /\ Wrap \in Nat
  BY <1>9, <1>10, ResolverAssumption
<1> HIDE DEF d
<1>12. (d + 1) % Wrap = d + 1
  BY <1>11
<1> QED BY <1>12 DEF Plus, d

LEMMA PlusNothing ==
  ASSUME NEW d \in Data
  PROVE  Plus(d, 0) = d
<1>1. d \in Nat /\ d < Wrap /\ Wrap \in Nat
  BY ResolverAssumption
<1> QED BY <1>1 DEF Plus

(* The steps that change a count: the first half of lookup, the second half,
   and one entry of a listing. *)
LEMMA HeldHit ==
  ASSUME ResolverInv, HeldInv, Told, NEW t \in Task, LookupHit(t)
  PROVE  HeldInv'
<1> DEFINE n == task[t].name
           p == task[t].parent
           i == Child(map, p, n)
           d == Plus(map.inodes[i].data, 1)
           r == Answered(task[t], n, i)
<1>1. /\ task[t].pc = "hit" /\ Listed(map, p, n) /\ Becomes(t, r) /\ refs' = refs
      /\ map' = Recounted(map, i, d)
  BY DEF LookupHit, Enters, At, kernel, Recounted
<1>2. i \in Present(map) /\ i \in Inode /\ SafeMap(map)
  BY <1>1, ListedType DEF ResolverInv
<1>3. i # Root
  BY <1>1, ListedNames, <1>2 DEF SafeMap, RootStays
<1> DEFINE m == map'
<1>4. m = Recounted(map, i, d)
  BY <1>1
<1>5. /\ Present(m) = Present(map) /\ Grows(map, m)
      /\ \A e, k : Listed(m, e, k) <=> Listed(map, e, k)
      /\ \A e, k : Child(m, e, k) = Child(map, e, k)
      /\ \A j \in Present(map) : m.inodes[j].data = IF j = i THEN d ELSE map.inodes[j].data
  <2> HIDE DEF m, d, i
  <2> QED BY <1>2, <1>4, CountFacts, CountGrows
<1>6. r = Answered(task[t], task[t].name, i)
  OBVIOUS
<1>6a. /\ Listed(m, task[t].parent, task[t].name)
       /\ Child(m, task[t].parent, task[t].name) = i
       /\ Givens /\ task[t].pc \in {"hit", "fill"}
  BY <1>1, <1>5 DEF HeldInv
<1> HIDE DEF r, m, i
<1>7. /\ GivenOf(m, r) /\ Gives(r) /\ Gives(task[t])
      /\ PromisesNothing(task[t]) /\ PromisesOnly(r, i)
  BY <1>6, <1>6a, GivenAnswered
<1>8. d = map.inodes[i].data + 1
  BY <1>2, <1>3, <1>7, NoWrap DEF PromisesNothing
<1>9. IsFiniteSet(Busy')
  BY <1>1, FiniteBusy DEF HeldInv
<1>10. Present(m) = Present(map) \cup {i}
  BY <1>2, <1>5
<1> HIDE DEF d, i
<1> QED BY <1>1, <1>2, <1>5, <1>7, <1>8, <1>9, <1>10, HeldOneMore
       DEF m, PromisesNothing, PromisesOnly

LEMMA HeldFill ==
  ASSUME ResolverInv, HeldInv, Told, NEW t \in Task, Fill(t)
  PROVE  HeldInv'
<1> DEFINE n == task[t].name
           p == task[t].parent
           m == Insert(map, p, n, 1)
           i == Child(m, p, n)
           r == Answered(task[t], n, i)
<1>1. /\ task[t].pc = "fill" /\ Becomes(t, r) /\ refs' = refs
      /\ p \in Present(map)
      /\ Listed(map, p, n) \/ HasRoom(map)
      /\ map' = m
  BY DEF Fill, Enters, At, kernel
<1>2. n \in Name /\ SafeMap(map)
  BY <1>1, TaskFacts DEF Fits, ResolverInv
<1>3. /\ Grows(map, m) /\ Listed(m, p, n)
      /\ Present(m) = Present(map) \cup {i} /\ i \in Present(m)
      /\ m.inodes[i].data = 1
      /\ \A j \in Present(map) \ {i} : m.inodes[j].data = map.inodes[j].data
  BY <1>1, <1>2, CountTypes, InsertData
<1>4. i \in Inode
  BY <1>1, <1>2, CountTypes, InsertFacts
<1>5. r = Answered(task[t], task[t].name, i)
  OBVIOUS
<1>6. i = Child(m, p, n)
  OBVIOUS
<1> HIDE DEF r, i, m
<1>6a. /\ Listed(m, task[t].parent, task[t].name)
       /\ Child(m, task[t].parent, task[t].name) = i
       /\ Givens /\ task[t].pc \in {"hit", "fill"}
  BY <1>1, <1>3, <1>6 DEF HeldInv
<1>7. /\ GivenOf(m, r) /\ Gives(r) /\ Gives(task[t])
      /\ PromisesNothing(task[t]) /\ PromisesOnly(r, i)
  BY <1>5, <1>6a, GivenAnswered
<1>8. IsFiniteSet(Busy')
  BY <1>1, FiniteBusy DEF HeldInv
<1> QED BY <1>1, <1>3, <1>4, <1>7, <1>8, HeldOneMore DEF PromisesNothing, PromisesOnly

LEMMA HeldAdd ==
  ASSUME ResolverInv, HeldInv, Told, NEW t \in Task, NEW n \in task[t].todo, AddChild(t, n)
  PROVE  HeldInv'
<1> DEFINE p == task[t].parent
           d == NewCount(t, n)
           m == Insert(map, p, n, d)
           i == Child(m, p, n)
           r == Added(task[t], n, i)
           plus == task[t].kind = "readdirplus"
<1>1. /\ task[t].pc = "adding" /\ Becomes(t, r) /\ refs' = refs
      /\ Listed(map, p, n) \/ HasRoom(map)
      /\ map' = m
  BY DEF AddChild, At, kernel
<1>2. n \in Name /\ SafeMap(map) /\ p \in Present(map) /\ d \in Data
  BY <1>1, TaskFacts, WriterFacts, NewCountType DEF ResolverInv, TaskState
<1>3. d = IF Listed(map, p, n)
          THEN Plus(map.inodes[Child(map, p, n)].data, IF plus THEN 1 ELSE 0)
          ELSE IF plus THEN 1 ELSE 0
  BY DEF NewCount
<1> HIDE DEF d
<1>4. /\ Grows(map, m) /\ Listed(m, p, n)
      /\ Present(m) = Present(map) \cup {i} /\ i \in Present(m)
      /\ m.inodes[i].data = d
      /\ \A j \in Present(map) \ {i} : m.inodes[j].data = map.inodes[j].data
      /\ Listed(map, p, n) => i = Child(map, p, n) /\ i \in Present(map)
      /\ ~ Listed(map, p, n) => i \notin Present(map)
  BY <1>1, <1>2, InsertData
<1>5. i \in Inode /\ SafeMap(m)
  BY <1>1, <1>2, InsertFacts
<1>6. r = Added(task[t], n, i)
  OBVIOUS
<1>7. i = Child(m, p, n)
  OBVIOUS
<1> HIDE DEF r, i, m
<1>8. /\ GivenOf(m, r)
      /\ Gives(r) <=> Gives(task[t])
      /\ ~ Promise(task[t], i)
      /\ \A j : Promise(r, j) <=> Promise(task[t], j) \/ (j = i /\ plus)
      /\ task[t].kind \in {"readdir", "readdirplus"}
  BY <1>1, <1>4, <1>5, <1>6, <1>7, GivenAdded DEF HeldInv
<1>9. Listed(map, p, n) => i # Root
  BY <1>4, <1>2, ListedNames DEF SafeMap, RootStays
<1>10. Promise(r, i) <=> plus
  BY <1>8
<1>11. CASE plus /\ i \in Present(map)
  <2>1. Gives(task[t]) /\ Listed(map, p, n) /\ i # Root
    BY <1>1, <1>4, <1>9, <1>11 DEF Gives
  <2>2. d = map.inodes[i].data + 1
    BY <2>1, <1>3, <1>4, <1>8, <1>11, NoWrap
  <2> QED BY <1>1, <1>4, <1>5, <1>8, <1>10, <1>11, <2>2, FiniteBusy, HeldOneMore DEF HeldInv
<1>12. CASE plus /\ i \notin Present(map)
  <2>1. d = 1
    BY <1>3, <1>4, <1>12
  <2> QED BY <1>1, <1>4, <1>5, <1>8, <1>10, <1>12, <2>1, FiniteBusy, HeldOneMore DEF HeldInv
<1>13. CASE ~ plus /\ i \in Present(map)
  <2>1. Listed(map, p, n) /\ map.inodes[i].data \in Data
    BY <1>2, <1>4, <1>13, CountType
  <2>2. d = map.inodes[i].data
    BY <2>1, <1>3, <1>4, <1>13, PlusNothing
  <2> QED BY <1>1, <1>4, <1>5, <1>8, <1>10, <1>13, <2>2, FiniteBusy, HeldOneMore DEF HeldInv
<1>14. CASE ~ plus /\ i \notin Present(map)
  <2>1. d = 0
    BY <1>3, <1>4, <1>14
  <2> QED BY <1>1, <1>4, <1>5, <1>8, <1>10, <1>14, <2>1, FiniteBusy, HeldOneMore DEF HeldInv
<1> QED BY <1>11, <1>12, <1>13, <1>14

(* The steps that change none. *)
LEMMA HeldPanics ==
  ASSUME ResolverInv, HeldInv, Told, NEW t \in Task,
         LockPanic(t) \/ InsertPanic(t) \/ RenamePanic(t) \/ HandlerError(t)
  PROVE  HeldInv'
<1>1. /\ task[t].pc \in {"resolve", "resolve2", "hit", "fill", "insert", "move", "handler"}
      /\ Finish(t) /\ map' = map /\ refs' = refs
  BY DEF LockPanic, InsertPanic, RenamePanic, HandlerError, Panic, Enters, At, kernel, resolver
<1> QED BY <1>1, HeldEnds

LEMMA HeldResolves ==
  ASSUME ResolverInv, HeldInv, Told, NEW t \in Task, Resolve(t) \/ ResolveSecond(t)
  PROVE  HeldInv'
<1>1. ASSUME NEW pc \in {"resolve", "resolve2"}, NEW i,
             NEW next \in {"resolve2", "handler"}, ResolveOne(t, pc, i, next)
      PROVE  HeldInv'
  <2>1. task[t].pc = pc
    BY <1>1 DEF ResolveOne, Enters, At
  <2>2. CASE Goto(t, next) /\ UNCHANGED <<resolver, forget, kernel>>
    <3>1. map' = map /\ refs' = refs
      BY <2>2 DEF resolver, kernel
    <3> QED BY <2>1, <2>2, <3>1, SameGrows, HeldGoes DEF PCs
  <2>3. CASE Panic(t, "resolve", FALSE)
    BY <2>1, <2>3, HeldEnds DEF Panic, kernel
  <2> QED BY <1>1, <2>2, <2>3 DEF ResolveOne
<1> QED BY <1>1 DEF Resolve, ResolveSecond

LEMMA HeldAfterHandler ==
  ASSUME ResolverInv, HeldInv, Told, NEW t \in Task, HandlerOk(t)
  PROVE  HeldInv'
<1> DEFINE pc == AfterHandler[task[t].kind]
<1>1. /\ task[t].pc = "handler" /\ Goto(t, pc) /\ map' = map /\ refs' = refs
  BY DEF HandlerOk, At, resolver, kernel
<1>2. task[t].kind \in Kinds \ {"forget"}
  BY <1>1, TaskFacts DEF Fits
<1>3. /\ pc \in {"hit", "insert", "reply", "move"}
      /\ pc = "insert" => task[t].kind \in {"readdir", "readdirplus"}
  BY <1>2 DEF AfterHandler, Kinds
<1> HIDE DEF pc
<1> QED BY <1>1, <1>3, SameGrows, HeldGoes DEF PCs

LEMMA HeldLists ==
  ASSUME ResolverInv, HeldInv, Told, NEW t \in Task,
         LookupMiss(t) \/ AddChildren(t) \/ AddedChildren(t)
  PROVE  HeldInv'
<1>1. CASE LookupMiss(t)
  <2>1. task[t].pc = "hit" /\ Goto(t, "fill") /\ map' = map /\ refs' = refs
    BY <1>1 DEF LookupMiss, Enters, At, resolver, kernel
  <2> QED BY <2>1, SameGrows, HeldGoes DEF PCs
<1>2. CASE AddChildren(t)
  <2>1. /\ task[t].pc = "insert" /\ Goto(t, "adding") /\ refs' = refs
        /\ task[t].parent \in Present(map) /\ map' = EnsureMap(map, task[t].parent)
    BY <1>2 DEF AddChildren, Enters, At, kernel
  <2>2. Grows(map, map') /\ map'.inodes = map.inodes
    BY <2>1, EnsureGrows DEF ResolverInv
  <2>3. task[t].kind \in {"readdir", "readdirplus"}
    BY <2>1 DEF HeldInv, Givens, GivenOf
  <2> QED BY <2>1, <2>2, <2>3, HeldGoes DEF PCs
<1>3. CASE AddedChildren(t)
  <2>1. task[t].pc = "adding" /\ Goto(t, "reply") /\ map' = map /\ refs' = refs
    BY <1>3 DEF AddedChildren, At, kernel
  <2> QED BY <2>1, SameGrows, HeldGoes DEF PCs
<1> QED BY <1>1, <1>2, <1>3

(* All together. *)
LEMMA HeldStep ==
  ASSUME ResolverInv, HeldInv, Told, SentKinds, forget = NoForget, [Next]_vars,
         Requests \cap {"rename", "replace", "forget"} = {}
  PROVE  HeldInv' /\ forget' = NoForget
<1> DEFINE Goal == HeldInv' /\ forget' = NoForget
<1> SUFFICES Goal
  OBVIOUS
<1>1. CASE UNCHANGED vars
  <2>1. UNCHANGED <<map, task, refs, forget>>
    BY <1>1 DEF vars, resolver, kernel
  <2>2. \A i : Count(i) => Count(i)'
    BY <2>1 DEF Count, Holders
  <2> QED BY <2>1, <2>2 DEF HeldInv, Givens, Busy, Givers
<1>2. CASE Start
  BY <1>2, HeldStarts, StartLeaves
<1>3. ASSUME NEW i \in Inode, NEW n \in 1 .. MaxRefs, StartForget(i, n) PROVE FALSE
  BY <1>3 DEF StartForget
<1>4. ASSUME NEW t \in Task, Step(t) PROVE Goal
  <2>1. forget' = forget
    BY <1>4 DEF Step, LockPanic, Resolve, ResolveSecond, ResolveOne, HandlerOk, HandlerError,
                LookupHit, LookupMiss, Fill, InsertPanic, AddChildren, AddChild, AddedChildren,
                RenameInMapper, RenamePanic, Reply, Panic
  <2>2. CASE Reply(t)
    <3>1. Becomes(t, IdleTask)
      BY <2>2 DEF Reply, Finish
    <3>2. IsFiniteSet(Busy')
      BY <3>1, FiniteBusy DEF HeldInv
    <3> QED BY <2>1, <2>2, <3>2, HeldReply
  <2>3. ~ RenameInMapper(t)
    BY NoRenames DEF Renames
  <2> QED BY <1>4, <2>1, <2>2, <2>3, HeldPanics, HeldResolves, HeldAfterHandler, HeldLists,
             HeldHit, HeldFill, HeldAdd DEF Step
<1>5. CASE ForgetSteps
  <2>1. forget.pc = "idle"
    BY DEF NoForget
  <2>2. ~ ForgetSteps
    BY <2>1 DEF ForgetSteps, ForgetLockPanic, ForgetResolve, ForgetSubtract, ForgetMissing,
                ForgetRemove, InForget
  <2> QED BY <1>5, <2>2
<1> QED BY <1>1, <1>2, <1>3, <1>4, <1>5 DEF Next

LEMMA InitHeld == Init => HeldInv /\ forget = NoForget
<1> SUFFICES ASSUME Init PROVE HeldInv
  BY DEF Init
<1>1. \A t \in Task : task[t].given = {} /\ task[t].pc = "idle"
  BY DEF Init, IdleTask
<1>2. Givens
  BY <1>1, GivenStart DEF Givens
<1>3. Busy = {} /\ Givers = {}
  BY <1>1 DEF Busy, Givers, Gives
<1>4. Present(map) \ {Root} = {}
  BY NewMapAllListed DEF Init
<1>5. \A i \in Inode : refs[i] = 0
  BY DEF Init
<1> QED BY <1>2, <1>3, <1>4, <1>5, FS_EmptySet, ResolverAssumption DEF HeldInv

(* In a mount that sends no forget and no rename, with any number of lookups,
   creations, listings and unlinks under way at once: an inode the kernel
   holds has a count above 0, and when nothing is under way no count is above
   the number of references.  The increments of the lookup count under the
   read guard (src/src/core/inode_mapping.rs) lose nothing and wrap nowhere,
   and a count that the second half of a lookup sets back to 1 only gets
   smaller. *)
THEOREM CountedWhileHeld ==
  ASSUME Requests \cap {"rename", "replace", "forget"} = {}
  PROVE  Spec => []HeldIsCounted
<1> DEFINE Inv == /\ ResolverInv /\ SentKinds /\ FiniteReplies /\ Told
                  /\ HeldInv /\ forget = NoForget
<1>1. Init => Inv
  BY InitResolverInv, InitKinds, InitTold, InitHeld
<1>2. Inv /\ [Next]_vars => Inv'
  BY NextResolverInv, KindsStep, FiniteStep, ToldStep, HeldStep
<1>3. Inv => HeldIsCounted
  <2> SUFFICES ASSUME ResolverInv, Told, HeldInv, NEW i \in Present(map) \ {Root}
               PROVE  /\ refs[i] > 0 => map.inodes[i].data > 0
                      /\ Quiet => map.inodes[i].data <= refs[i]
    BY DEF HeldIsCounted
  <2>1. Count(i)
    BY DEF HeldInv
  <2>2. i \in Inode
    BY InodeTypes DEF ResolverInv, SafeMap
  <2>3. refs[i] \in Nat
    BY <2>2 DEF Told
  <2>4. ASSUME Quiet PROVE Cardinality(Holders(i)) = 0
    <3>1. Holders(i) = {}
      BY <2>4, FiniteHolders DEF Quiet, HeldInv
    <3> QED BY <3>1, FS_EmptySet
  <2> QED BY <2>1, <2>3, <2>4 DEF Count
<1> QED BY <1>1, <1>2, <1>3, PTL DEF Spec

-----------------------------------------------------------------------------
(* A mapper in which every inode resolves. *)
Sound(m) == SafeMap(m) /\ AllListed(m) /\ NoCycle(m)

(* What the walk of resolve visits is closed under parents. *)
LEMMA ChainClosed ==
  ASSUME NEW m, IsMap(m), NEW i \in Inode
  PROVE  /\ i \in Chain(m, i)
         /\ \A k \in Chain(m, i) \cap Present(m) : m.inodes[k].parent \in Chain(m, i)
<1>1. i \in Chain(m, i)
  BY DEF Chain
<1>2. ASSUME NEW k \in Chain(m, i) \cap Present(m)
      PROVE  m.inodes[k].parent \in Chain(m, i)
  <2>1. m.inodes[k].parent \in Inode
    BY InodeTypes
  <2>2. ASSUME NEW S \in SUBSET Inode, i \in S,
               \A j \in S \cap Present(m) : m.inodes[j].parent \in S
        PROVE  m.inodes[k].parent \in S
    <3>1. k \in S
      BY <2>2 DEF Chain
    <3> QED BY <2>2, <3>1
  <2> QED BY <2>1, <2>2 DEF Chain
<1> QED BY <1>1, <1>2

(* With every inode listed under a parent that is there, and no cycle, the
   walk from an inode ends at the root. *)
LEMMA ResolvesAll ==
  ASSUME NEW m, Sound(m), NEW i \in Present(m)
  PROVE  Resolves(m, i) /\ ~ LeadsNowhere(m, i)
<1>1. SafeMap(m) /\ IsMap(m) /\ RootStays(m) /\ AllListed(m) /\ NoCycle(m)
  BY DEF Sound, SafeMap
<1>2. i \in Inode /\ Present(m) \subseteq Inode
  BY <1>1, InodeTypes
<1>3. \A k \in Present(m) : m.inodes[k].parent \in Present(m)
  BY <1>1 DEF AllListed, RootStays
<1>4. Chain(m, i) \subseteq Present(m)
  BY <1>2, <1>3 DEF Chain
<1> DEFINE C == Chain(m, i)
<1>5. i \in C /\ \A k \in C : m.inodes[k].parent \in C
  BY <1>1, <1>2, <1>4, ChainClosed
<1>6. C \subseteq Present(m)
  BY <1>4
<1> HIDE DEF C
<1>7. Root \in C
  BY <1>1, <1>5, <1>6 DEF NoCycle
<1>8. \E j \in C : m.inodes[j].parent = j
  BY <1>1, <1>7 DEF RootStays
<1> QED BY <1>4, <1>8 DEF Resolves, LeadsNowhere, C

(* What keeps a mapper sound: a new count, an insertion, a children map. *)
LEMMA CountSound ==
  ASSUME NEW m, Sound(m), NEW i \in Present(m), NEW d \in Data,
         NEW r, r = Recounted(m, i, d)
  PROVE  Sound(r)
<1>1. SafeMap(m) /\ AllListed(m) /\ NoCycle(m)
  BY DEF Sound
<1>2. SafeMap(r)
  BY <1>1, CountSafe DEF Recounted
<1>3. AllListed(r)
  BY <1>1, CountAllListed
<1>4. NoCycle(r)
  <2>1. \A j \in Present(r) : j \in Present(m) /\ r.inodes[j].parent = m.inodes[j].parent
    BY <1>1, CountFacts
  <2> QED BY <1>1, <2>1, FewerNoCycle
<1> QED BY <1>2, <1>3, <1>4 DEF Sound

LEMMA InsertSound ==
  ASSUME NEW m, Sound(m), NEW p \in Present(m), NEW n \in Name, NEW d \in Data,
         Listed(m, p, n) \/ HasRoom(m)
  PROVE  Sound(Insert(m, p, n, d))
BY InsertSafe, InsertAllListed, InsertNoCycle DEF Sound

LEMMA EnsureSound ==
  ASSUME NEW m, Sound(m), NEW p \in Present(m)
  PROVE  Sound(EnsureMap(m, p))
<1>1. SafeMap(m) /\ AllListed(m) /\ NoCycle(m)
  BY DEF Sound
<1> DEFINE r == EnsureMap(m, p)
<1>2. SafeMap(r) /\ AllListed(r) /\ r.inodes = m.inodes
  BY <1>1, EnsureMapSafe, EnsureAllListed, EnsureListed
<1> HIDE DEF r
<1>3. NoCycle(r)
  BY <1>1, <1>2 DEF NoCycle, Present
<1> QED BY <1>2, <1>3 DEF Sound, r

(* A rename onto a name that is not listed, into a directory that keeps a
   children map: the entry changes its place, and nothing else changes. *)
LEMMA MovedFree ==
  ASSUME NEW m, SafeMap(m), NEW p, NEW o, NEW q \in Present(m), NEW n \in Name,
         Listed(m, p, o), ~ Listed(m, q, n),
         NEW other, Listed(m, q, other), ~ (q = p /\ other = o)
  PROVE  LET r == Moved(m, p, o, q, n)
             c == Child(m, p, o)
         IN  /\ Present(r) = Present(m)
             /\ \A e, k : Listed(r, e, k) <=> (Listed(m, e, k) /\ ~ (e = p /\ k = o))
                                              \/ (e = q /\ k = n)
             /\ Child(r, q, n) = c
             /\ \A e, k : Listed(m, e, k) /\ ~ (e = p /\ k = o)
                            => Child(r, e, k) = Child(m, e, k)
             /\ \A i \in Present(m) : r.inodes[i].data = m.inodes[i].data
<1> DEFINE c    == Child(m, p, o)
           left == Unlink(m.children, p, o)
           kids == [left EXCEPT ![q] = Put(@, n, c)]
           r    == Moved(m, p, o, q, n)
<1>1. /\ p \in DOMAIN m.children /\ o \in DOMAIN m.children[p]
      /\ q \in DOMAIN m.children /\ other \in DOMAIN m.children[q]
      /\ n \notin DOMAIN m.children[q]
  BY ListedMeans
<1>2. /\ \A e \in DOMAIN left : e \in DOMAIN m.children
      /\ \A e \in DOMAIN left : \A k \in DOMAIN left[e] :
           /\ k \in DOMAIN m.children[e] /\ left[e][k] = m.children[e][k]
           /\ ~ (e = p /\ k = o)
  BY <1>1, UnlinkFacts
<1>3. \A e \in DOMAIN m.children : \A k \in DOMAIN m.children[e] :
        ~ (e = p /\ k = o) => /\ e \in DOMAIN left /\ k \in DOMAIN left[e]
                              /\ left[e][k] = m.children[e][k]
  BY <1>1, UnlinkKeeps
<1>4. q \in DOMAIN left /\ n \notin DOMAIN left[q]
  BY <1>1, <1>2, <1>3
<1>5. Replaced(left, q, n) = {}
  BY <1>4 DEF Replaced
<1>6. r.children = kids
  BY <1>4 DEF Moved
<1>7. Present(r) = Present(m)
  <2>1. \A i : i \in Present(r) <=> i \in Present(m)
    BY <1>5, MovedFacts
  <2> QED BY <2>1
<1>8. \A i \in Present(m) : r.inodes[i].data = m.inodes[i].data
  BY <1>5, <1>7, MovedFacts
<1> HIDE DEF left, c
<1>9. /\ DOMAIN kids = DOMAIN left
      /\ \A e \in DOMAIN left \ {q} : kids[e] = left[e]
      /\ kids[q] = Put(left[q], n, c)
  BY <1>4
<1>10. /\ \A k : k \in DOMAIN kids[q] <=> k \in DOMAIN left[q] \/ k = n
       /\ kids[q][n] = c
       /\ \A k \in DOMAIN left[q] \ {n} : kids[q][k] = left[q][k]
  BY <1>4, <1>9, PutFacts
<1> HIDE DEF kids, r
<1>11. ASSUME NEW e, NEW k
       PROVE  Listed(r, e, k) <=> (Listed(m, e, k) /\ ~ (e = p /\ k = o)) \/ (e = q /\ k = n)
  <2>1. Listed(r, e, k) <=> e \in DOMAIN kids /\ k \in DOMAIN kids[e]
    BY <1>6, ListedMeans
  <2>2. Listed(m, e, k) <=> e \in DOMAIN m.children /\ k \in DOMAIN m.children[e]
    BY ListedMeans
  <2>3. e \in DOMAIN kids /\ k \in DOMAIN kids[e]
        <=> (e \in DOMAIN left /\ k \in DOMAIN left[e]) \/ (e = q /\ k = n)
    BY <1>4, <1>9, <1>10
  <2> QED BY <1>2, <1>3, <2>1, <2>2, <2>3
<1>12. Child(r, q, n) = c
  BY <1>6, <1>10 DEF Child
<1>13. ASSUME NEW e, NEW k, Listed(m, e, k), ~ (e = p /\ k = o)
       PROVE  Child(r, e, k) = Child(m, e, k)
  <2>1. /\ e \in DOMAIN left /\ k \in DOMAIN left[e] /\ left[e][k] = m.children[e][k]
    BY <1>3, <1>13, ListedMeans
  <2>2. kids[e][k] = left[e][k]
    BY <1>4, <1>9, <1>10, <2>1
  <2> QED BY <1>6, <2>1, <2>2 DEF Child
<1> QED BY <1>7, <1>8, <1>11, <1>12, <1>13 DEF r, c

(* A rename the kernel asks for keeps every inode listed and resolvable. *)
Movable(m, p, o, q, n) ==
  /\ ~ Listed(m, q, n)
  /\ \E other \in DOMAIN Children(m, q) : <<q, other>> # <<p, o>>
  /\ ~ Under(m, q, Child(m, p, o))

LEMMA MovedSound ==
  ASSUME NEW m, Sound(m), NEW p, NEW o, NEW q \in Present(m), NEW n \in Name,
         Listed(m, p, o), Movable(m, p, o, q, n)
  PROVE  LET r == Moved(m, p, o, q, n)
             c == Child(m, p, o)
         IN  /\ Sound(r) /\ Present(r) = Present(m) /\ c \in Present(m)
             /\ r.inodes[c].parent = q /\ r.inodes[c].name = n
             /\ \A i \in Present(m) : r.inodes[i].data = m.inodes[i].data
             /\ \A i \in Present(m) \ {c} : /\ r.inodes[i].parent = m.inodes[i].parent
                                            /\ r.inodes[i].name = m.inodes[i].name
<1> DEFINE r == Moved(m, p, o, q, n)
           c == Child(m, p, o)
<1>1. SafeMap(m) /\ AllListed(m) /\ NoCycle(m) /\ RootStays(m)
  BY DEF Sound, SafeMap
<1>2. PICK other : Listed(m, q, other) /\ <<q, other>> # <<p, o>>
  BY DEF Movable, Listed
<1>3. ~ Listed(m, q, n) /\ ~ Under(m, q, c) /\ ~ (q = p /\ other = o)
  BY <1>2 DEF Movable
<1>4. /\ Present(r) = Present(m)
      /\ \A e, k : Listed(r, e, k) <=> (Listed(m, e, k) /\ ~ (e = p /\ k = o))
                                       \/ (e = q /\ k = n)
      /\ Child(r, q, n) = c
      /\ \A e, k : Listed(m, e, k) /\ ~ (e = p /\ k = o) => Child(r, e, k) = Child(m, e, k)
      /\ \A i \in Present(m) : r.inodes[i].data = m.inodes[i].data
  BY <1>1, <1>2, <1>3, MovedFree
<1>5. /\ c \in Present(m) \ {Root} /\ SafeMap(r)
      /\ r.inodes[c].parent = q /\ r.inodes[c].name = n
      /\ \A i \in Present(r) \ {c} : r.inodes[i] = m.inodes[i]
  BY <1>1, MovedFacts
<1>6. NoCycle(r)
  BY <1>1, <1>3, MovedNoCycle
<1>7. m.inodes[c].parent = p /\ m.inodes[c].name = o
  BY <1>1, ListedNames
<1> HIDE DEF r, c
<1>8. AllListed(r)
  <2> SUFFICES ASSUME NEW i \in Present(m) \ {Root}
               PROVE  /\ r.inodes[i].parent \in Present(m)
                      /\ Listed(r, r.inodes[i].parent, r.inodes[i].name)
                      /\ Child(r, r.inodes[i].parent, r.inodes[i].name) = i
    BY <1>4 DEF AllListed
  <2>1. CASE i = c
    BY <1>4, <1>5, <2>1
  <2>2. CASE i # c
    <3> DEFINE e == m.inodes[i].parent
               k == m.inodes[i].name
    <3>1. e \in Present(m) /\ Listed(m, e, k) /\ Child(m, e, k) = i
      BY <1>1 DEF AllListed
    <3>2. r.inodes[i].parent = e /\ r.inodes[i].name = k
      BY <1>4, <1>5, <2>2
    <3>3. ~ (e = p /\ k = o)
      BY <3>1, <2>2 DEF c
    <3> HIDE DEF e, k
    <3> QED BY <1>4, <3>1, <3>2, <3>3
  <2> QED BY <2>1, <2>2
<1> QED BY <1>4, <1>5, <1>6, <1>8 DEF Sound, r, c

-----------------------------------------------------------------------------
(* A serial build.  One request or one forget is under way at a time, and the
   books agree: for a mapper m, references k and names c of the kernel, a
   forget f and the request r under way. *)

(* How many references to i the reply of r will give, whether it gives any,
   and how many the forget f is still to take off the count of i. *)
Pledge(r, i) == IF Promise(r, i) THEN 1 ELSE 0
Pend(r) == IF Gives(r) THEN 1 ELSE 0
Owed(f, i) == IF f.ino = i THEN f.n ELSE 0

(* Counts against references: the count of an inode is what the kernel holds,
   plus what the reply under way gives, plus what the forget still takes. *)
Balance(m, k, f, r) ==
  /\ \A i \in Inode : k[i] + Pend(r) + Owed(f, i) <= MaxRefs
  /\ \A i \in Inode : k[i] > 0 => i \in Present(m)
  /\ \A i \in Present(m) \ {Root} : m.inodes[i].data = k[i] + Pledge(r, i) + Owed(f, i)

(* The kernel has a path to i. *)
Rooted(c, i) == i = Root \/ \E e \in DOMAIN c : c[e] = i
PlacedAt(m, i, p, n) == m.inodes[i].parent = p /\ m.inodes[i].name = n

(* The mapper has renamed what the kernel still knows under the old name. *)
Renamed(r, e) ==
  r.kind = "rename" /\ r.pc = "reply" /\ e[1] = r.parent /\ e[2] = r.name

(* Names against places: an inode is in the mapper where the kernel knows it. *)
Cached(m, c, r) ==
  \A e \in DOMAIN c :
    /\ c[e] \in Present(m) /\ Rooted(c, e[1])
    /\ ~ Renamed(r, e) => PlacedAt(m, c[e], e[1], e[2])
    /\ Renamed(r, e) => PlacedAt(m, c[e], r.newparent, r.newname)

(* What StartRename made sure of still holds when the mapper renames. *)
RenameReady(m, c, r) ==
  /\ <<r.parent, r.name>> \in DOMAIN c /\ <<r.newparent, r.newname>> \notin DOMAIN c
  /\ r.newparent \in Present(m) /\ Rooted(c, r.newparent)
  /\ r.pc # "reply" => Movable(m, r.parent, r.name, r.newparent, r.newname)

(* What a request relies on from its start to its end. *)
ReadyFor(m, c, r) ==
  /\ r.kind # "replace"
  /\ r.parent \in Present(m) /\ Rooted(c, r.parent)
  /\ r.pc = "resolve2" => r.kind \in {"link", "rename"}
  /\ r.kind = "link" => r.newparent \in Present(m)
  /\ r.pc = "fill" => ~ Listed(m, r.parent, r.name)
  /\ r.kind = "unlink" => /\ <<r.parent, r.name>> \in DOMAIN c
                          /\ \A e \in DOMAIN c : e[1] # c[<<r.parent, r.name>>]
  /\ r.kind = "rename" => RenameReady(m, c, r)

(* What holds between the mapper and the kernel while r is under way. *)
Books(m, k, c, f, r) ==
  Balance(m, k, f, r) /\ Cached(m, c, r) /\ (r.pc # "idle" => ReadyFor(m, c, r))

(* One request or one forget; nothing failed so far. *)
OneAtATime ==
  /\ panics = {} /\ ~ poisoned
  /\ \A t, u \in Busy : t = u
  /\ Busy # {} => forget = NoForget
  /\ forget.pc \in {"idle", "resolve", "subtract"}
  /\ forget.pc = "idle" => forget = NoForget
  /\ forget.pc # "idle" => forget.n > 0 /\ forget.ino \in Present(map)

(* The inductive invariant of CountsAgree, NamesAgree, KernelInodesKnown and
   NoPanics in a serial build. *)
SerialInv ==
  /\ OneAtATime /\ Givens /\ Sound(map)
  /\ \A t \in Busy : Books(map, refs, dcache, forget, task[t])
  /\ Busy = {} => Books(map, refs, dcache, forget, IdleTask)

LEMMA NothingOwed == \A i : Owed(NoForget, i) = 0
BY DEF Owed, NoForget

LEMMA IdleFacts ==
  /\ \A i : Pledge(IdleTask, i) = 0
  /\ Pend(IdleTask) = 0
  /\ \A e : ~ Renamed(IdleTask, e)
  /\ IdleTask.pc = "idle" /\ IdleTask.given = {}
BY DEF Pledge, Pend, Renamed, IdleTask, Promise, Gives

(* A step of the only task under way. *)
LEMMA SoloStep ==
  ASSUME ResolverInv, SerialInv, NEW t \in Task, Busy \subseteq {t},
         NEW r, Becomes(t, r), forget = NoForget, forget' = NoForget,
         panics' = panics, poisoned' = poisoned,
         Sound(map'), GivenOf(map', r),
         r.pc # "idle" => Books(map', refs', dcache', NoForget, r),
         r.pc = "idle" => Books(map', refs', dcache', NoForget, IdleTask)
  PROVE  SerialInv'
<1>1. \A u \in Task : task'[u] = IF u = t THEN r ELSE task[u]
  BY DEF ResolverInv, Becomes
<1>2. \A u \in Task \ {t} : task[u].pc = "idle" /\ task[u].given = {}
  BY DEF Busy, SerialInv, Givens, GivenOf
<1>3. \A u \in Task : GivenOf(map', task'[u])
  BY <1>1, <1>2 DEF GivenOf
<1>4. Busy' = IF r.pc # "idle" THEN {t} ELSE {}
  BY <1>1, <1>2 DEF Busy
<1>5. OneAtATime'
  BY <1>4 DEF SerialInv, OneAtATime, NoForget
<1> QED BY <1>1, <1>3, <1>4, <1>5 DEF SerialInv, Givens

(* What a step of the request under way may use. *)
LEMMA BusyBooks ==
  ASSUME SerialInv, NEW t \in Task, task[t].pc # "idle"
  PROVE  /\ Busy = {t} /\ forget = NoForget /\ Busy \subseteq {t}
         /\ Balance(map, refs, NoForget, task[t]) /\ Cached(map, dcache, task[t])
         /\ ReadyFor(map, dcache, task[t]) /\ GivenOf(map, task[t]) /\ Sound(map)
         /\ panics = {} /\ ~ poisoned
BY DEF SerialInv, OneAtATime, Busy, Books, Givens

-----------------------------------------------------------------------------
(* What the kernel's names say of the mapper. *)
LEMMA CachedListed ==
  ASSUME NEW m, Sound(m), NEW c, NEW r, Cached(m, c, r), DOMAIN c \subseteq Inode \X Name,
         NEW e \in DOMAIN c, ~ Renamed(r, e)
  PROVE  Listed(m, e[1], e[2]) /\ Child(m, e[1], e[2]) = c[e] /\ e = <<e[1], e[2]>>
         /\ e[1] \in Inode /\ e[2] \in Name
<1>1. c[e] \in Present(m) /\ m.inodes[c[e]].parent = e[1] /\ m.inodes[c[e]].name = e[2]
  BY DEF Cached, PlacedAt
<1>2. e = <<e[1], e[2]>> /\ e[2] \in Name /\ e[1] \in Inode
  BY DEF Cached
<1>3. c[e] # Root
  BY <1>1, <1>2, InodeMapAssumption DEF Sound, SafeMap, RootStays
<1> QED BY <1>1, <1>2, <1>3 DEF Sound, AllListed

LEMMA RootedPresent ==
  ASSUME NEW m, Sound(m), NEW c, NEW r, Cached(m, c, r), NEW i, Rooted(c, i)
  PROVE  i \in Present(m)
BY DEF Rooted, Cached, Sound, SafeMap, RootStays

(* A directory that is not below c by the kernel's names is not below it in
   the mapper: an ancestor in the mapper is one in the kernel's tree. *)
LEMMA NotBelow ==
  ASSUME Sound(map), Cached(map, dcache, IdleTask), Told,
         NEW i, NEW q \in Inode, Rooted(dcache, q), ~ Above(i, q)
  PROVE  ~ Under(map, q, i)
<1>1. PICK S \in SUBSET Inode :
        /\ q \in S /\ i \notin S
        /\ \A e \in DOMAIN dcache : dcache[e] \in S => e[1] \in S
  BY DEF Above
<1> DEFINE T == {j \in S : Rooted(dcache, j)}
<1>2. \A j \in T \cap Present(map) : map.inodes[j].parent \in T
  <2> SUFFICES ASSUME NEW j \in S, Rooted(dcache, j)
               PROVE  map.inodes[j].parent \in S /\ Rooted(dcache, map.inodes[j].parent)
    OBVIOUS
  <2>1. CASE j = Root
    BY <2>1 DEF Sound, SafeMap, RootStays
  <2>2. CASE j # Root
    <3>1. PICK e \in DOMAIN dcache : dcache[e] = j
      BY <2>2 DEF Rooted
    <3>2. map.inodes[j].parent = e[1] /\ Rooted(dcache, e[1])
      BY <3>1, IdleFacts DEF Cached, PlacedAt
    <3> QED BY <1>1, <3>1, <3>2
  <2> QED BY <2>1, <2>2
<1>3. T \in SUBSET Inode /\ q \in T /\ i \notin T
  BY <1>1
<1> HIDE DEF T
<1> QED BY <1>2, <1>3 DEF Under, Chain

-----------------------------------------------------------------------------
(* Serial requests start. *)
LEMMA SerialStart ==
  ASSUME ResolverInv, SerialInv, Told, Serial, NEW t \in Task, NEW r, NEW kind, NEW demand,
         Takes(t, r, kind, demand), r.given = {}, r.pc = "resolve", r.kind = kind,
         ~ Gives(r) \/ \A i \in Inode : refs[i] + Cardinality(Busy) < MaxRefs,
         ReadyFor(map, dcache, r)
  PROVE  SerialInv'
<1>1. /\ Busy = {} /\ forget = NoForget /\ Becomes(t, r)
      /\ UNCHANGED <<map, panics, poisoned, forget, refs, dcache>>
  BY DEF Takes, resolver, kernel
<1>2. Balance(map, refs, NoForget, IdleTask) /\ Cached(map, dcache, IdleTask)
  BY <1>1 DEF SerialInv, Books
<1>3. GivenOf(map, r) /\ \A i : Pledge(r, i) = 0
  BY GivenStart DEF Pledge
<1>4. Balance(map, refs, NoForget, r)
  <2>1. \A i \in Inode : refs[i] \in Nat /\ refs[i] <= MaxRefs
    BY <1>2, NothingOwed, IdleFacts, ResolverAssumption DEF Balance, Told
  <2>2. \A i \in Inode : refs[i] + Pend(r) <= MaxRefs
    <3>1. CASE ~ Gives(r)
      BY <2>1, <3>1, ResolverAssumption DEF Pend
    <3>2. CASE \A i \in Inode : refs[i] + Cardinality(Busy) < MaxRefs
      <4>1. Cardinality(Busy) = 0
        BY <1>1, FS_EmptySet
      <4>2. \A i \in Inode : refs[i] < MaxRefs
        BY <2>1, <3>2, <4>1
      <4> QED BY <2>1, <4>2, ResolverAssumption DEF Pend
    <3> QED BY <3>1, <3>2
  <2>3. \A i \in Inode : refs[i] + Pend(r) + 0 <= MaxRefs
    BY <2>1, <2>2, ResolverAssumption DEF Pend
  <2> QED BY <1>2, <1>3, <2>3, NothingOwed, IdleFacts DEF Balance
<1>5. Cached(map, dcache, r)
  BY <1>2, IdleFacts DEF Cached, Renamed
<1>6. Books(map', refs', dcache', NoForget, r)
  BY <1>1, <1>4, <1>5 DEF Books
<1>7. Sound(map') /\ GivenOf(map', r)
  BY <1>1, <1>3 DEF SerialInv
<1> QED BY <1>1, <1>6, <1>7, SoloStep

(* A parent the kernel knows is in the mapper. *)
LEMMA KnownPresent ==
  ASSUME SerialInv, Busy = {}, forget = NoForget, NEW p \in Inode, Known(p)
  PROVE  p \in Present(map) /\ Rooted(dcache, p)
<1>1. Balance(map, refs, NoForget, IdleTask) /\ Cached(map, dcache, IdleTask) /\ Sound(map)
  BY DEF SerialInv, Books
<1>2. Rooted(dcache, p)
  BY DEF Known, Rooted
<1> QED BY <1>1, <1>2, RootedPresent

(* The start of each request: what its guard says makes it ready. *)
LEMMA SerialStarts ==
  ASSUME ResolverInv, SerialInv, Told, Serial, "replace" \notin Requests, Start
  PROVE  SerialInv'
<1>0. IdleTask \in TaskState /\ IdleTask.given = {}
  BY IdleType DEF IdleTask
<1>00. ASSUME NEW u, NEW r, NEW kind, NEW demand, Takes(u, r, kind, demand)
       PROVE  /\ Busy = {} /\ forget = NoForget /\ kind \in Requests
              /\ Balance(map, refs, NoForget, IdleTask) /\ Cached(map, dcache, IdleTask)
              /\ Sound(map)
  BY <1>00 DEF Takes, SerialInv, Books
<1>1. ASSUME NEW u \in Task, NEW p \in Inode, NEW n \in Name, StartEntry(u, p, n) PROVE SerialInv'
  <2> DEFINE todo == {n}
             r == [IdleTask EXCEPT !.kind = "entry", !.pc = "resolve", !.parent = p,
                                   !.name = n, !.todo = todo]
  <2>1. /\ Takes(u, r, "entry", 1) /\ Known(p)
        /\ \A i \in Inode : refs[i] + Cardinality(Busy) < MaxRefs
    BY <1>1 DEF StartEntry
  <2> HIDE DEF todo
  <2>2. r.given = {} /\ r.pc = "resolve" /\ r.kind = "entry" /\ r.parent = p
    BY <1>0 DEF TaskState
  <2> HIDE DEF r
  <2>3. ReadyFor(map, dcache, r)
    BY <1>00, <2>1, <2>2, KnownPresent DEF ReadyFor
  <2> QED BY <2>1, <2>2, <2>3, SerialStart
<1>2. ASSUME NEW u \in Task, NEW i \in Inode, NEW p \in Inode, NEW n \in Name,
             StartLink(u, i, p, n) PROVE SerialInv'
  <2> DEFINE todo == {n}
             r == [IdleTask EXCEPT !.kind = "link", !.pc = "resolve", !.parent = p,
                                   !.name = n, !.newparent = i, !.todo = todo]
  <2>1. /\ Takes(u, r, "link", 1) /\ Known(p) /\ refs[i] > 0
        /\ \A j \in Inode : refs[j] + Cardinality(Busy) < MaxRefs
    BY <1>2 DEF StartLink
  <2> HIDE DEF todo
  <2>2. r.given = {} /\ r.pc = "resolve" /\ r.kind = "link" /\ r.parent = p /\ r.newparent = i
    BY <1>0 DEF TaskState
  <2> HIDE DEF r
  <2>3. i \in Present(map)
    BY <1>00, <2>1 DEF Balance
  <2>4. ReadyFor(map, dcache, r)
    BY <1>00, <2>1, <2>2, <2>3, KnownPresent DEF ReadyFor
  <2> QED BY <2>1, <2>2, <2>4, SerialStart
<1>3. ASSUME NEW u \in Task, NEW p \in Inode, NEW names \in SUBSET Name,
             NEW kind \in {"readdir", "readdirplus"}, StartReaddir(u, p, names, kind)
      PROVE  SerialInv'
  <2> DEFINE r == [IdleTask EXCEPT !.kind = kind, !.pc = "resolve", !.parent = p,
                                   !.todo = names]
  <2>1. /\ Takes(u, r, kind, Cardinality(names)) /\ Known(p)
        /\ \A i \in Inode : refs[i] + Cardinality(Busy) < MaxRefs
    BY <1>3 DEF StartReaddir
  <2>2. r.given = {} /\ r.pc = "resolve" /\ r.kind = kind /\ r.parent = p
    BY <1>0 DEF TaskState
  <2> HIDE DEF r
  <2>3. ReadyFor(map, dcache, r)
    BY <1>00, <2>1, <2>2, KnownPresent DEF ReadyFor
  <2> QED BY <2>1, <2>2, <2>3, SerialStart
<1>4. ASSUME NEW u \in Task, NEW p \in Inode, NEW n \in Name, StartUnlink(u, p, n)
      PROVE  SerialInv'
  <2> DEFINE r == [IdleTask EXCEPT !.kind = "unlink", !.pc = "resolve", !.parent = p,
                                   !.name = n]
  <2>1. /\ Takes(u, r, "unlink", 0) /\ <<p, n>> \in DOMAIN dcache
        /\ \A e \in DOMAIN dcache : e[1] # dcache[<<p, n>>]
    BY <1>4 DEF StartUnlink
  <2>2. r.given = {} /\ r.pc = "resolve" /\ r.kind = "unlink" /\ r.parent = p /\ r.name = n
    BY <1>0 DEF TaskState
  <2> HIDE DEF r
  <2>3. ~ Gives(r)
    BY <2>2 DEF Gives
  <2>4. p \in Present(map) /\ Rooted(dcache, p)
    <3>1. Rooted(dcache, p)
      BY <1>00, <2>1 DEF Cached
    <3> QED BY <1>00, <2>1, <3>1, RootedPresent
  <2>5. ReadyFor(map, dcache, r)
    BY <2>1, <2>2, <2>4 DEF ReadyFor
  <2> QED BY <2>1, <2>2, <2>3, <2>5, SerialStart
<1>5. ASSUME NEW u \in Task, NEW p \in Inode, NEW o \in Name, NEW q \in Inode, NEW n \in Name,
             NEW kind \in {"rename", "replace"}, StartRename(u, p, o, q, n, kind)
      PROVE  SerialInv'
  <2> DEFINE r == [IdleTask EXCEPT !.kind = kind, !.pc = "resolve", !.parent = p,
                                   !.name = o, !.newparent = q, !.newname = n]
  <2>1. /\ Takes(u, r, kind, 0) /\ <<p, o>> \in DOMAIN dcache /\ Known(q)
        /\ ~ Above(dcache[<<p, o>>], q)
        /\ kind = "rename" =>
             /\ <<q, n>> \notin DOMAIN dcache /\ ~ Listed(map, q, n)
             /\ \E other \in DOMAIN Children(map, q) : <<q, other>> # <<p, o>>
    BY <1>5 DEF StartRename
  <2>2. /\ r.given = {} /\ r.pc = "resolve" /\ r.kind = kind /\ r.parent = p /\ r.name = o
        /\ r.newparent = q /\ r.newname = n
    BY <1>0 DEF TaskState
  <2> HIDE DEF r
  <2>3. ~ Gives(r)
    BY <2>2 DEF Gives
  <2>4. /\ kind = "rename" /\ Busy = {} /\ forget = NoForget
        /\ Cached(map, dcache, IdleTask) /\ Sound(map)
    BY <1>00, <2>1
  <2>5. p \in Present(map) /\ Rooted(dcache, p)
    <3>1. Rooted(dcache, p)
      BY <2>1, <2>4 DEF Cached
    <3> QED BY <2>4, <3>1, RootedPresent
  <2>6. q \in Present(map) /\ Rooted(dcache, q)
    BY <2>1, <2>4, KnownPresent
  <2> DEFINE e == <<p, o>>
  <2>7. Child(map, p, o) = dcache[<<p, o>>]
    <3>1. e \in DOMAIN dcache /\ e[1] = p /\ e[2] = o /\ ~ Renamed(IdleTask, e)
      BY <2>1, IdleFacts
    <3> HIDE DEF e
    <3>2. Child(map, e[1], e[2]) = dcache[e]
      BY <2>4, <3>1, CachedListed DEF Told
    <3> QED BY <3>1, <3>2 DEF e
  <2>8. ~ Under(map, q, Child(map, p, o))
    BY <2>1, <2>4, <2>6, <2>7, NotBelow
  <2>9. RenameReady(map, dcache, r)
    BY <2>1, <2>2, <2>4, <2>6, <2>8 DEF RenameReady, Movable
  <2>10. ReadyFor(map, dcache, r)
    BY <2>2, <2>4, <2>5, <2>9 DEF ReadyFor
  <2> QED BY <2>1, <2>2, <2>3, <2>10, SerialStart
<1> QED BY <1>1, <1>2, <1>3, <1>4, <1>5 DEF Start

-----------------------------------------------------------------------------
(* The steps of a serial request. *)

(* What depends on an inode's place only. *)
SamePlaces(m, r) ==
  /\ Present(m) \subseteq Present(r)
  /\ \A i \in Present(m) : /\ r.inodes[i].parent = m.inodes[i].parent
                           /\ r.inodes[i].name = m.inodes[i].name

LEMMA SameCached ==
  ASSUME NEW m, NEW n, SamePlaces(m, n), NEW c, NEW r, NEW s, Cached(m, c, r),
         \A e : ~ Renamed(r, e), \A e : ~ Renamed(s, e)
  PROVE  Cached(n, c, s)
BY DEF SamePlaces, Cached, PlacedAt

(* A request goes on. *)
LEMMA SerialGoes ==
  ASSUME ResolverInv, SerialInv, Told, NEW t \in Task, NEW pc \in PCs \ {"idle", "resolve"},
         Goto(t, pc), task[t].pc # "idle",
         Grows(map, map'), map'.inodes = map.inodes, Sound(map'),
         UNCHANGED <<forget, panics, poisoned, refs, dcache>>,
         pc # "reply" => task[t].pc \notin {"adding", "reply"},
         pc \in {"insert", "adding"} => task[t].kind \in {"readdir", "readdirplus"},
         task[t].kind = "rename" => map' = map /\ pc # "reply" /\ task[t].pc # "reply",
         pc = "fill" => ~ Listed(map', task[t].parent, task[t].name),
         pc = "resolve2" => task[t].kind \in {"link", "rename"}
  PROVE  SerialInv'
<1> DEFINE r == [task[t] EXCEPT !.pc = pc]
           w == task[t]
<1>1. Becomes(t, r)
  BY DEF Goto
<1>2. r = [task[t] EXCEPT !.pc = pc]
  OBVIOUS
<1>3. /\ r.name = w.name /\ r.newparent = w.newparent /\ r.newname = w.newname
      /\ r.pc = pc /\ r.kind = w.kind /\ r.parent = w.parent
  BY TaskFacts DEF TaskState
<1> HIDE DEF r
<1>4. /\ Busy \subseteq {t} /\ forget = NoForget
      /\ Balance(map, refs, NoForget, w) /\ Cached(map, dcache, w)
      /\ ReadyFor(map, dcache, w)
  BY BusyBooks
<1>5. /\ GivenOf(map', r) /\ \A i : Promise(r, i) <=> Promise(task[t], i)
  BY <1>2, GivenGoto DEF SerialInv, PCs
<1>6. Pend(r) = Pend(w) /\ \A i : Pledge(r, i) = Pledge(w, i)
  BY <1>3, <1>5 DEF Pend, Gives, Pledge
<1>7. Present(map') = Present(map)
  BY DEF Present
<1>8. Balance(map', refs', NoForget, r)
  BY <1>4, <1>6, <1>7 DEF Balance
<1>9. (\A e : ~ Renamed(w, e)) /\ (\A e : ~ Renamed(r, e))
  BY <1>3 DEF Renamed
<1>10. Cached(map', dcache', r)
  BY <1>4, <1>7, <1>9, SameCached DEF SamePlaces
<1>11. ReadyFor(map', dcache', r)
  <2>1. r.kind = "rename" => RenameReady(map', dcache', r)
    BY <1>3, <1>4 DEF ReadyFor, RenameReady
  <2> QED BY <1>3, <1>4, <1>7, <2>1 DEF ReadyFor
<1>12. Books(map', refs', dcache', NoForget, r)
  BY <1>8, <1>10, <1>11 DEF Books
<1> QED BY <1>1, <1>3, <1>4, <1>5, <1>12, SoloStep

(* The handler answers an error. *)
LEMMA SerialEnds ==
  ASSUME ResolverInv, SerialInv, Told, NEW t \in Task, HandlerError(t)
  PROVE  SerialInv'
<1> DEFINE w == task[t]
<1>1. /\ w.pc = "handler" /\ Becomes(t, IdleTask)
      /\ UNCHANGED <<map, forget, panics, poisoned, refs, dcache>>
  BY DEF HandlerError, At, Finish, resolver, kernel
<1>2. /\ Busy \subseteq {t} /\ forget = NoForget
      /\ Balance(map, refs, NoForget, w) /\ Cached(map, dcache, w) /\ GivenOf(map, w)
  BY <1>1, BusyBooks
<1>3. \A i : Pledge(w, i) = 0
  BY <1>1, <1>2 DEF GivenOf, Pledge, Promise
<1>4. Balance(map, refs, NoForget, IdleTask)
  <2>1. \A i \in Inode : refs[i] \in Nat /\ refs[i] + Pend(w) + Owed(NoForget, i) <= MaxRefs
    BY <1>2 DEF Balance, Told
  <2>2. \A i \in Inode : refs[i] + Pend(IdleTask) + Owed(NoForget, i) <= MaxRefs
    BY <2>1, NothingOwed, IdleFacts, ResolverAssumption DEF Pend
  <2> QED BY <1>2, <1>3, <2>2, IdleFacts DEF Balance
<1>5. Cached(map, dcache, IdleTask)
  BY <1>1, <1>2, IdleFacts DEF Cached, Renamed
<1>6. GivenOf(map, IdleTask) /\ Sound(map)
  BY GivenStart, IdleFacts DEF SerialInv
<1>7. Books(map', refs', dcache', NoForget, IdleTask)
  BY <1>1, <1>4, <1>5, IdleFacts DEF Books
<1> QED BY <1>1, <1>2, <1>6, <1>7, IdleFacts, SoloStep

(* resolve_id finds the parent, which is in the mapper. *)
LEMMA SerialResolves ==
  ASSUME ResolverInv, SerialInv, Told, NEW t \in Task, Resolve(t) \/ ResolveSecond(t)
  PROVE  SerialInv'
<1> DEFINE w == task[t]
<1>1. ASSUME NEW pc \in {"resolve", "resolve2"}, NEW i,
             NEW next \in {"resolve2", "handler"}, ResolveOne(t, pc, i, next),
             task[t].pc = pc => i \in Present(map),
             task[t].pc = pc /\ next = "resolve2" => w.kind \in {"link", "rename"}
      PROVE  SerialInv'
  <2>1. task[t].pc = pc /\ Sound(map)
    BY <1>1 DEF ResolveOne, Enters, At, SerialInv
  <2>2. ~ LeadsNowhere(map, i)
    BY <1>1, <2>1, ResolvesAll
  <2>3. Goto(t, next) /\ UNCHANGED <<map, forget, panics, poisoned, refs, dcache>>
    BY <1>1, <2>2 DEF ResolveOne, resolver, kernel
  <2> QED BY <1>1, <2>1, <2>3, SameGrows, SerialGoes DEF PCs
<1>2. CASE Resolve(t)
  <2> DEFINE next == IF IsRename(t) \/ w.kind = "link" THEN "resolve2" ELSE "handler"
  <2>1. ResolveOne(t, "resolve", w.parent, next) /\ next \in {"resolve2", "handler"}
    BY <1>2 DEF Resolve
  <2>2. w.pc = "resolve" => ReadyFor(map, dcache, w)
    BY BusyBooks
  <2>3. /\ w.pc = "resolve" => w.parent \in Present(map)
        /\ w.pc = "resolve" /\ next = "resolve2" => w.kind \in {"link", "rename"}
    BY <2>2 DEF ReadyFor, IsRename
  <2> HIDE DEF next
  <2> QED BY <1>1, <2>1, <2>3
<1>3. CASE ResolveSecond(t)
  <2>1. ResolveOne(t, "resolve2", w.newparent, "handler")
    BY <1>3 DEF ResolveSecond
  <2>2. w.pc = "resolve2" => ReadyFor(map, dcache, w)
    BY BusyBooks
  <2>3. w.pc = "resolve2" => w.newparent \in Present(map)
    BY <2>2 DEF ReadyFor, RenameReady
  <2> QED BY <1>1, <2>1, <2>3
<1> QED BY <1>2, <1>3

(* The handler answers well. *)
LEMMA SerialAfterHandler ==
  ASSUME ResolverInv, SerialInv, Told, NEW t \in Task, HandlerOk(t)
  PROVE  SerialInv'
<1> DEFINE pc == AfterHandler[task[t].kind]
<1>1. /\ task[t].pc = "handler" /\ Goto(t, pc)
      /\ UNCHANGED <<map, forget, panics, poisoned, refs, dcache>>
  BY DEF HandlerOk, At, resolver, kernel
<1>2. task[t].kind \in Kinds \ {"forget"}
  BY <1>1, TaskFacts DEF Fits
<1>3. /\ pc \in {"hit", "insert", "reply", "move"}
      /\ pc = "insert" => task[t].kind \in {"readdir", "readdirplus"}
      /\ task[t].kind = "rename" => pc = "move"
  BY <1>2 DEF AfterHandler, Kinds
<1>4. Sound(map)
  BY DEF SerialInv
<1> HIDE DEF pc
<1> QED BY <1>1, <1>3, <1>4, SameGrows, SerialGoes DEF PCs

(* A lookup that misses; the begin and the end of a listing. *)
LEMMA SerialLists ==
  ASSUME ResolverInv, SerialInv, Told, NEW t \in Task,
         LookupMiss(t) \/ AddChildren(t) \/ AddedChildren(t)
  PROVE  SerialInv'
<1>0. Sound(map)
  BY DEF SerialInv
<1>1. CASE LookupMiss(t)
  <2>1. /\ task[t].pc = "hit" /\ Goto(t, "fill")
        /\ ~ Listed(map, task[t].parent, task[t].name)
        /\ UNCHANGED <<map, forget, panics, poisoned, refs, dcache>>
    BY <1>1 DEF LookupMiss, Enters, At, resolver, kernel
  <2>2. task[t].kind \in {"entry", "link"}
    BY <2>1, TaskFacts DEF Fits
  <2> QED BY <1>0, <2>1, <2>2, SameGrows, SerialGoes DEF PCs
<1>2. CASE AddChildren(t)
  <2>1. /\ task[t].pc = "insert" /\ Goto(t, "adding")
        /\ UNCHANGED <<forget, panics, poisoned, refs, dcache>>
        /\ task[t].parent \in Present(map) /\ map' = EnsureMap(map, task[t].parent)
    BY <1>2 DEF AddChildren, Enters, At, kernel
  <2>2. Grows(map, map') /\ map'.inodes = map.inodes /\ Sound(map')
    BY <1>0, <2>1, EnsureGrows, EnsureSound DEF ResolverInv
  <2>3. task[t].kind \in {"readdir", "readdirplus"}
    BY <2>1 DEF SerialInv, Givens, GivenOf
  <2> QED BY <2>1, <2>2, <2>3, SerialGoes DEF PCs
<1>3. CASE AddedChildren(t)
  <2>1. /\ task[t].pc = "adding" /\ Goto(t, "reply")
        /\ UNCHANGED <<map, forget, panics, poisoned, refs, dcache>>
    BY <1>3 DEF AddedChildren, At, kernel
  <2>2. task[t].kind \in {"readdir", "readdirplus"}
    BY <2>1 DEF SerialInv, Givens, GivenOf
  <2> QED BY <1>0, <2>1, <2>2, SameGrows, SerialGoes DEF PCs
<1> QED BY <1>1, <1>2, <1>3

(* The requests that may give references. *)
Asks == {"entry", "link", "readdir", "readdirplus"}

(* One entry more is put into the request. *)
LEMMA SerialOneMore ==
  ASSUME ResolverInv, SerialInv, Told, NEW t \in Task, task[t].pc # "idle",
         task[t].kind \in Asks,
         NEW r, Becomes(t, r), r.kind = task[t].kind, r.parent = task[t].parent,
         r.newparent = task[t].newparent, r.pc \in {"adding", "reply"},
         SamePlaces(map, map'), Sound(map'), GivenOf(map', r),
         NEW i, i \in Inode, Present(map') = Present(map) \cup {i},
         \A j \in Present(map) \ {i} : map'.inodes[j].data = map.inodes[j].data,
         UNCHANGED <<forget, panics, poisoned, refs, dcache>>,
         ~ Promise(task[t], i),
         \A j : j # i => (Promise(r, j) <=> Promise(task[t], j)),
         Gives(r) <=> Gives(task[t]),
         i \in Present(map) => map'.inodes[i].data = map.inodes[i].data + Pledge(r, i),
         i \notin Present(map) => map'.inodes[i].data = Pledge(r, i)
  PROVE  SerialInv'
<1> DEFINE w == task[t]
<1>1. /\ Busy \subseteq {t} /\ forget = NoForget
      /\ Balance(map, refs, NoForget, w) /\ Cached(map, dcache, w)
      /\ ReadyFor(map, dcache, w)
  BY BusyBooks
<1>2. /\ Pend(r) = Pend(w) /\ Pledge(w, i) = 0 /\ Pledge(r, i) \in Nat
      /\ \A j : j # i => Pledge(r, j) = Pledge(w, j)
  BY DEF Pend, Pledge
<1>3. refs[i] \in Nat
  BY DEF Told
<1>4. Balance(map', refs', NoForget, r)
  <2>1. \A j \in Inode : refs[j] + Pend(r) + Owed(NoForget, j) <= MaxRefs
    BY <1>1, <1>2 DEF Balance
  <2>2. \A j \in Inode : refs[j] > 0 => j \in Present(map')
    BY <1>1 DEF Balance
  <2>3. ASSUME NEW j \in Present(map') \ {Root}
        PROVE  map'.inodes[j].data = refs[j] + Pledge(r, j) + Owed(NoForget, j)
    <3>1. CASE j # i
      BY <1>1, <1>2, <2>3, <3>1 DEF Balance
    <3>2. CASE j = i /\ i \in Present(map)
      <4>1. map.inodes[i].data = refs[i] + 0 + 0
        BY <1>1, <1>2, <2>3, <3>2, NothingOwed DEF Balance
      <4>2. map'.inodes[i].data = refs[i] + Pledge(r, i) + 0
        BY <1>2, <1>3, <3>2, <4>1
      <4> QED BY <3>2, <4>2, NothingOwed
    <3>3. CASE j = i /\ i \notin Present(map)
      <4>1. refs[i] = 0
        BY <1>1, <1>3, <3>3 DEF Balance
      <4>2. map'.inodes[i].data = refs[i] + Pledge(r, i) + 0
        BY <1>2, <1>3, <3>3, <4>1
      <4> QED BY <3>3, <4>2, NothingOwed
    <3> QED BY <3>1, <3>2, <3>3
  <2> QED BY <2>1, <2>2, <2>3 DEF Balance
<1>5. Cached(map', dcache', r)
  <2>1. (\A e : ~ Renamed(w, e)) /\ (\A e : ~ Renamed(r, e))
    BY DEF Renamed, Asks
  <2> QED BY <1>1, <2>1, SameCached
<1>6. ReadyFor(map', dcache', r)
  BY <1>1 DEF ReadyFor, Asks
<1>7. Books(map', refs', dcache', NoForget, r)
  BY <1>4, <1>5, <1>6 DEF Books
<1> QED BY <1>1, <1>7, SoloStep

(* A count that is raised for a serial request does not wrap. *)
LEMMA SerialNoWrap ==
  ASSUME ResolverInv, SerialInv, Told, NEW t \in Task, Gives(task[t]),
         NEW i \in Present(map) \ {Root}, ~ Promise(task[t], i)
  PROVE  Plus(map.inodes[i].data, 1) = map.inodes[i].data + 1
<1>1. i \in Inode
  BY InodeTypes DEF ResolverInv, SafeMap
<1>2. Balance(map, refs, NoForget, task[t]) /\ refs[i] \in Nat
  BY <1>1, BusyBooks DEF Gives, Told
<1>3. refs[i] + 1 + 0 <= MaxRefs
  BY <1>1, <1>2, NothingOwed DEF Balance, Pend
<1>4. map.inodes[i].data = refs[i] + 0 + 0
  BY <1>2, NothingOwed DEF Balance, Pledge
<1> DEFINE d == map.inodes[i].data
<1>5. d \in Nat /\ d + 1 < Wrap /\ Wrap \in Nat
  BY <1>2, <1>3, <1>4, ResolverAssumption
<1> HIDE DEF d
<1>6. (d + 1) % Wrap = d + 1
  BY <1>5
<1> QED BY <1>6 DEF Plus, d

(* The first half of lookup counts one more. *)
LEMMA SerialHit ==
  ASSUME ResolverInv, SerialInv, Told, NEW t \in Task, LookupHit(t)
  PROVE  SerialInv'
<1> DEFINE n == task[t].name
           p == task[t].parent
           i == Child(map, p, n)
           d == Plus(map.inodes[i].data, 1)
           r == Answered(task[t], n, i)
           m == map'
<1>1. /\ task[t].pc = "hit" /\ Listed(map, p, n) /\ Becomes(t, r)
      /\ UNCHANGED <<forget, panics, poisoned, refs, dcache>>
      /\ m = Recounted(map, i, d)
  BY DEF LookupHit, Enters, At, kernel, Recounted
<1>2. i \in Present(map) /\ i \in Inode /\ SafeMap(map) /\ Sound(map)
  BY <1>1, ListedType DEF ResolverInv, SerialInv
<1>3. i # Root /\ n \in Name
  BY <1>1, <1>2, ListedNames DEF SafeMap, RootStays
<1>4. d \in Data
  BY <1>2, CountType, CountTypes DEF Plus
<1>5. /\ Present(m) = Present(map) /\ Sound(m)
      /\ \A e, k : Listed(m, e, k) <=> Listed(map, e, k)
      /\ \A e, k : Child(m, e, k) = Child(map, e, k)
      /\ \A j \in Present(map) : /\ m.inodes[j].data = IF j = i THEN d ELSE map.inodes[j].data
                                 /\ m.inodes[j].parent = map.inodes[j].parent
                                 /\ m.inodes[j].name = map.inodes[j].name
  <2> HIDE DEF m, d, i
  <2> QED BY <1>1, <1>2, <1>4, CountFacts, CountSound
<1>6. /\ r.kind = task[t].kind /\ r.parent = task[t].parent /\ r.pc = "reply"
      /\ r.newparent = task[t].newparent
  <2> DEFINE given == {<<n, i>>}
  <2>1. r = [task[t] EXCEPT !.pc = "reply", !.todo = {}, !.given = given]
    BY DEF Answered
  <2> HIDE DEF given
  <2> QED BY <2>1, TaskFacts DEF TaskState
<1>7. r = Answered(task[t], task[t].name, i)
  OBVIOUS
<1>8. /\ Listed(m, task[t].parent, task[t].name)
      /\ Child(m, task[t].parent, task[t].name) = i
      /\ Givens /\ task[t].pc \in {"hit", "fill"}
  BY <1>1, <1>5 DEF SerialInv
<1> HIDE DEF r, m, i
<1>9. /\ GivenOf(m, r) /\ Gives(r) /\ Gives(task[t])
      /\ PromisesNothing(task[t]) /\ PromisesOnly(r, i)
  BY <1>7, <1>8, GivenAnswered
<1>10. d = map.inodes[i].data + 1
  BY <1>2, <1>3, <1>9, SerialNoWrap DEF PromisesNothing
<1>11. /\ ~ Promise(task[t], i) /\ Pledge(r, i) = 1
       /\ \A j : j # i => (Promise(r, j) <=> Promise(task[t], j))
  BY <1>9 DEF PromisesNothing, PromisesOnly, Pledge
<1>12. task[t].kind \in Asks
  BY <1>9 DEF Gives, Asks
<1>13. SamePlaces(map, m) /\ Present(m) = Present(map) \cup {i}
  BY <1>2, <1>5 DEF SamePlaces
<1> HIDE DEF d
<1>14. m.inodes[i].data = map.inodes[i].data + Pledge(r, i)
  BY <1>2, <1>5, <1>10, <1>11
<1> QED BY <1>1, <1>2, <1>5, <1>6, <1>9, <1>11, <1>12, <1>13, <1>14, SerialOneMore DEF m

(* The second half inserts the entry with the count 1. *)
LEMMA SerialFill ==
  ASSUME ResolverInv, SerialInv, Told, NEW t \in Task, Fill(t)
  PROVE  SerialInv'
<1> DEFINE n == task[t].name
           p == task[t].parent
           m == Insert(map, p, n, 1)
           i == Child(m, p, n)
           r == Answered(task[t], n, i)
<1>1. /\ task[t].pc = "fill" /\ Becomes(t, r)
      /\ UNCHANGED <<forget, panics, poisoned, refs, dcache>>
      /\ p \in Present(map)
      /\ Listed(map, p, n) \/ HasRoom(map)
      /\ map' = m
  BY DEF Fill, Enters, At, kernel
<1>2. n \in Name /\ SafeMap(map) /\ Sound(map)
  BY <1>1, TaskFacts DEF Fits, ResolverInv, SerialInv
<1>3. ~ Listed(map, p, n)
  BY <1>1, BusyBooks DEF ReadyFor
<1>4. /\ Listed(m, p, n)
      /\ Present(m) = Present(map) \cup {i}
      /\ m.inodes[i].data = 1 /\ i \notin Present(map)
      /\ \A j \in Present(map) \ {i} : m.inodes[j].data = map.inodes[j].data
      /\ \A j \in Present(map) : /\ m.inodes[j].parent = map.inodes[j].parent
                                 /\ m.inodes[j].name = map.inodes[j].name
  BY <1>1, <1>2, <1>3, CountTypes, InsertData
<1>5. i \in Inode /\ Sound(m)
  BY <1>1, <1>2, CountTypes, InsertFacts, InsertSound
<1>6. /\ r.kind = task[t].kind /\ r.parent = task[t].parent /\ r.pc = "reply"
      /\ r.newparent = task[t].newparent
  <2> DEFINE given == {<<n, i>>}
  <2>1. r = [task[t] EXCEPT !.pc = "reply", !.todo = {}, !.given = given]
    BY DEF Answered
  <2> HIDE DEF given
  <2> QED BY <2>1, TaskFacts DEF TaskState
<1>7. r = Answered(task[t], task[t].name, i)
  OBVIOUS
<1>8. /\ Listed(m, task[t].parent, task[t].name)
      /\ Child(m, task[t].parent, task[t].name) = i
      /\ Givens /\ task[t].pc \in {"hit", "fill"}
  BY <1>1, <1>4 DEF SerialInv
<1> HIDE DEF r, i, m
<1>9. /\ GivenOf(m, r) /\ Gives(r) /\ Gives(task[t])
      /\ PromisesNothing(task[t]) /\ PromisesOnly(r, i)
  BY <1>7, <1>8, GivenAnswered
<1>11. /\ ~ Promise(task[t], i) /\ Pledge(r, i) = 1
       /\ \A j : j # i => (Promise(r, j) <=> Promise(task[t], j))
  BY <1>9 DEF PromisesNothing, PromisesOnly, Pledge
<1>12. task[t].kind \in Asks
  BY <1>9 DEF Gives, Asks
<1>13. SamePlaces(map, m)
  BY <1>4 DEF SamePlaces
<1> QED BY <1>1, <1>4, <1>5, <1>6, <1>9, <1>11, <1>12, <1>13, SerialOneMore

(* One entry of a listing. *)
LEMMA SerialAdd ==
  ASSUME ResolverInv, SerialInv, Told, NEW t \in Task, NEW n \in task[t].todo, AddChild(t, n)
  PROVE  SerialInv'
<1> DEFINE p == task[t].parent
           d == NewCount(t, n)
           m == Insert(map, p, n, d)
           i == Child(m, p, n)
           r == Added(task[t], n, i)
           plus == task[t].kind = "readdirplus"
<1>1. /\ task[t].pc = "adding" /\ Becomes(t, r)
      /\ UNCHANGED <<forget, panics, poisoned, refs, dcache>>
      /\ Listed(map, p, n) \/ HasRoom(map)
      /\ map' = m
  BY DEF AddChild, At, kernel
<1>2. n \in Name /\ SafeMap(map) /\ Sound(map) /\ p \in Present(map) /\ d \in Data
  BY <1>1, TaskFacts, WriterFacts, NewCountType DEF ResolverInv, TaskState, SerialInv
<1>3. d = IF Listed(map, p, n)
          THEN Plus(map.inodes[Child(map, p, n)].data, IF plus THEN 1 ELSE 0)
          ELSE IF plus THEN 1 ELSE 0
  BY DEF NewCount
<1> HIDE DEF d
<1>4. /\ Grows(map, m) /\ Listed(m, p, n)
      /\ Present(m) = Present(map) \cup {i} /\ i \in Present(m)
      /\ m.inodes[i].data = d
      /\ \A j \in Present(map) \ {i} : m.inodes[j].data = map.inodes[j].data
      /\ \A j \in Present(map) : /\ m.inodes[j].parent = map.inodes[j].parent
                                 /\ m.inodes[j].name = map.inodes[j].name
      /\ Listed(map, p, n) => i = Child(map, p, n) /\ i \in Present(map)
      /\ ~ Listed(map, p, n) => i \notin Present(map)
  BY <1>1, <1>2, InsertData
<1>5. i \in Inode /\ SafeMap(m) /\ Sound(m)
  BY <1>1, <1>2, InsertFacts, InsertSound
<1>6. r = Added(task[t], n, i)
  OBVIOUS
<1>7. /\ r.kind = task[t].kind /\ r.parent = task[t].parent /\ r.pc = "adding"
      /\ r.newparent = task[t].newparent
  <2> DEFINE given == task[t].given \cup {<<n, i>>}
             todo == task[t].todo \ {n}
  <2>1. r = [task[t] EXCEPT !.todo = todo, !.given = given]
    BY DEF Added
  <2> HIDE DEF given, todo
  <2> QED BY <1>1, <2>1, TaskFacts DEF TaskState
<1>7a. i = Child(m, p, n)
  OBVIOUS
<1> HIDE DEF r, i, m
<1>8. /\ GivenOf(m, r)
      /\ Gives(r) <=> Gives(task[t])
      /\ ~ Promise(task[t], i)
      /\ \A j : Promise(r, j) <=> Promise(task[t], j) \/ (j = i /\ plus)
      /\ task[t].kind \in {"readdir", "readdirplus"}
  BY <1>1, <1>4, <1>5, <1>6, <1>7a, GivenAdded DEF SerialInv
<1>9. Listed(map, p, n) => i # Root
  BY <1>4, <1>2, ListedNames DEF SafeMap, RootStays
<1>10. Pledge(r, i) = IF plus THEN 1 ELSE 0
  BY <1>8 DEF Pledge
<1>11. i \in Present(map) => m.inodes[i].data = map.inodes[i].data + Pledge(r, i)
  <2> SUFFICES ASSUME i \in Present(map) PROVE d = map.inodes[i].data + Pledge(r, i)
    BY <1>4
  <2>1. Listed(map, p, n) /\ i # Root /\ map.inodes[i].data \in Data /\ map.inodes[i].data \in Int
    BY <1>2, <1>4, <1>9, CountType
  <2>2. d = Plus(map.inodes[i].data, Pledge(r, i))
    BY <1>3, <1>4, <1>10, <2>1
  <2>3. CASE plus
    <3>1. Gives(task[t])
      BY <1>1, <2>3 DEF Gives
    <3> QED BY <1>8, <1>10, <2>1, <2>2, <2>3, <3>1, SerialNoWrap
  <2>4. CASE ~ plus
    BY <1>10, <2>1, <2>2, <2>4, PlusNothing
  <2> QED BY <2>3, <2>4
<1>12. i \notin Present(map) => m.inodes[i].data = Pledge(r, i)
  BY <1>3, <1>4, <1>10
<1>13. SamePlaces(map, m)
  BY <1>4 DEF SamePlaces
<1>14. task[t].kind \in Asks /\ \A j : j # i => (Promise(r, j) <=> Promise(task[t], j))
  BY <1>8 DEF Asks
<1> QED BY <1>1, <1>4, <1>5, <1>7, <1>8, <1>11, <1>12, <1>13, <1>14, SerialOneMore

(* The rename of the mapper: the kernel still knows the inode by its old
   name, and every other name as the mapper does. *)
LEMMA SerialMoves ==
  ASSUME ResolverInv, SerialInv, Told, NEW t \in Task, RenameInMapper(t)
  PROVE  SerialInv'
<1> DEFINE w == task[t]
           p == w.parent
           o == w.name
           q == w.newparent
           n == w.newname
           r == [task[t] EXCEPT !.pc = "reply"]
           m == map'
           c == Child(map, p, o)
<1>1. /\ w.pc = "move" /\ Listed(map, p, o) /\ q \in Present(map)
      /\ m = Moved(map, p, o, q, n)
      /\ Becomes(t, r) /\ UNCHANGED <<forget, panics, poisoned, refs, dcache>>
  BY DEF RenameInMapper, Enters, At, CanMove, Goto, kernel
<1>2. w.kind \in {"rename", "replace"} /\ n \in Name /\ w \in TaskState
  BY <1>1, TaskFacts DEF Fits
<1>3. /\ Busy \subseteq {t} /\ forget = NoForget
      /\ Balance(map, refs, NoForget, w) /\ Cached(map, dcache, w)
      /\ ReadyFor(map, dcache, w) /\ GivenOf(map, w) /\ Sound(map)
  BY <1>1, BusyBooks
<1>4. w.kind = "rename" /\ RenameReady(map, dcache, w)
  BY <1>2, <1>3 DEF ReadyFor
<1>5. Movable(map, p, o, q, n) /\ <<p, o>> \in DOMAIN dcache
  BY <1>1, <1>4 DEF RenameReady
<1>6. /\ Sound(m) /\ Present(m) = Present(map) /\ c \in Present(map)
      /\ m.inodes[c].parent = q /\ m.inodes[c].name = n
      /\ \A i \in Present(map) : m.inodes[i].data = map.inodes[i].data
      /\ \A i \in Present(map) \ {c} : /\ m.inodes[i].parent = map.inodes[i].parent
                                       /\ m.inodes[i].name = map.inodes[i].name
  BY <1>1, <1>2, <1>3, <1>5, MovedSound
<1>7. /\ r.kind = "rename" /\ r.pc = "reply" /\ r.parent = p /\ r.name = o
      /\ r.newparent = q /\ r.newname = n /\ r.given = w.given
  BY <1>2, <1>4 DEF TaskState
<1>8. w.given = {} /\ GivenOf(m, r)
  BY <1>3, <1>4, <1>7 DEF GivenOf
<1> HIDE DEF r, m
<1>9. Pend(r) = Pend(w) /\ \A i : Pledge(r, i) = Pledge(w, i)
  BY <1>4, <1>7, <1>8 DEF Pend, Gives, Pledge, Promise
<1>10. Balance(m, refs, NoForget, r)
  BY <1>3, <1>6, <1>9 DEF Balance
<1>11. \A e \in DOMAIN dcache : ~ Renamed(w, e) /\ e = <<e[1], e[2]>>
  BY <1>1, CachedListed DEF Renamed, Told
<1>12. ASSUME NEW e \in DOMAIN dcache
       PROVE  /\ dcache[e] \in Present(m) /\ Rooted(dcache, e[1])
              /\ ~ Renamed(r, e) => PlacedAt(m, dcache[e], e[1], e[2])
              /\ Renamed(r, e) => PlacedAt(m, dcache[e], r.newparent, r.newname)
  <2>1. /\ dcache[e] \in Present(m) /\ Rooted(dcache, e[1])
        /\ PlacedAt(map, dcache[e], e[1], e[2])
    BY <1>3, <1>6, <1>11 DEF Cached
  <2>2. Listed(map, e[1], e[2]) /\ Child(map, e[1], e[2]) = dcache[e]
    BY <1>3, <1>11, CachedListed DEF Told
  <2>3. map.inodes[c].parent = p /\ map.inodes[c].name = o
    BY <1>1, ListedNames DEF ResolverInv
  <2>4. CASE e[1] = p /\ e[2] = o
    <3>1. dcache[e] = c /\ Renamed(r, e)
      BY <1>7, <2>2, <2>4 DEF Renamed
    <3> QED BY <1>6, <1>7, <2>1, <3>1 DEF PlacedAt
  <2>5. CASE ~ (e[1] = p /\ e[2] = o)
    <3>1. dcache[e] # c /\ ~ Renamed(r, e)
      BY <1>7, <2>1, <2>3, <2>5 DEF PlacedAt, Renamed
    <3> QED BY <1>6, <2>1, <3>1 DEF PlacedAt
  <2> QED BY <2>4, <2>5
<1>13. Cached(m, dcache, r)
  BY <1>12 DEF Cached
<1>14. ReadyFor(m, dcache, r)
  <2>1. RenameReady(m, dcache, r)
    BY <1>4, <1>6, <1>7 DEF RenameReady
  <2> QED BY <1>3, <1>6, <1>7, <2>1 DEF ReadyFor
<1>15. Books(map', refs', dcache', NoForget, r)
  BY <1>1, <1>10, <1>13, <1>14 DEF Books, m
<1> QED BY <1>1, <1>3, <1>6, <1>7, <1>8, <1>15, SoloStep DEF m

-----------------------------------------------------------------------------
(* The kernel takes a reply. *)

(* After an unlink the kernel forgets the name. *)
LEMMA WithoutCached ==
  ASSUME NEW m, NEW c, NEW r, Cached(m, c, r), \A e : ~ Renamed(r, e), NEW old \in DOMAIN c,
         \A e \in DOMAIN c : e[1] # c[old]
  PROVE  Cached(m, Without(c, {old}), IdleTask)
<1> DEFINE d == Without(c, {old})
<1>1. \A e : e \in DOMAIN d <=> e \in DOMAIN c /\ e # old
  BY WithoutFacts
<1>2. \A e \in DOMAIN d : d[e] = c[e]
  BY <1>1, WithoutFacts
<1> HIDE DEF d
<1>3. ASSUME NEW e \in DOMAIN d PROVE Rooted(d, e[1])
  <2>1. e \in DOMAIN c /\ Rooted(c, e[1])
    BY <1>1 DEF Cached
  <2> QED BY <1>1, <1>2, <2>1 DEF Rooted
<1>4. Cached(m, d, IdleTask)
  BY <1>1, <1>2, <1>3, IdleFacts DEF Cached
<1> QED BY <1>4 DEF d

(* After a rename it knows the inode by the new name, where the mapper put it. *)
LEMMA RenamedCached ==
  ASSUME NEW m, NEW c, NEW r, r.kind = "rename", r.pc = "reply", Cached(m, c, r),
         NEW old \in DOMAIN c, old = <<r.parent, r.name>>,
         NEW new, new = <<r.newparent, r.newname>>, new \notin DOMAIN c,
         Rooted(c, r.newparent), DOMAIN c \subseteq Inode \X Name
  PROVE  Cached(m, Put(Without(c, {old}), new, c[old]), IdleTask)
<1> DEFINE w == Without(c, {old})
           d == Put(w, new, c[old])
<1>1. \A e : e \in DOMAIN w <=> e \in DOMAIN c /\ e # old
  BY WithoutFacts
<1>2. \A e \in DOMAIN w : w[e] = c[e]
  BY <1>1, WithoutFacts
<1> HIDE DEF w
<1>3. /\ \A e : e \in DOMAIN d <=> e \in DOMAIN w \/ e = new
      /\ d[new] = c[old]
      /\ \A e \in DOMAIN w : e # new => d[e] = w[e]
  BY PutFacts
<1> HIDE DEF d
<1>4. \A e : e \in DOMAIN d <=> (e \in DOMAIN c /\ e # old) \/ e = new
  BY <1>1, <1>3
<1>5. \A e \in DOMAIN c : e # old => d[e] = c[e]
  BY <1>1, <1>2, <1>3
<1>6. \A i : Rooted(c, i) => Rooted(d, i)
  <2> SUFFICES ASSUME NEW i, NEW e \in DOMAIN c, c[e] = i PROVE Rooted(d, i)
    BY DEF Rooted
  <2>1. CASE e = old
    BY <1>3, <1>4, <2>1 DEF Rooted
  <2>2. CASE e # old
    BY <1>4, <1>5, <2>2 DEF Rooted
  <2> QED BY <2>1, <2>2
<1>7. \A e \in DOMAIN c : Renamed(r, e) <=> e = old
  BY DEF Renamed
<1>8. new[1] = r.newparent /\ new[2] = r.newname
  OBVIOUS
<1>9. ASSUME NEW e \in DOMAIN d
      PROVE  /\ d[e] \in Present(m) /\ Rooted(d, e[1]) /\ PlacedAt(m, d[e], e[1], e[2])
  <2>1. CASE e = new
    <3>1. c[old] \in Present(m) /\ PlacedAt(m, c[old], r.newparent, r.newname)
      BY <1>7 DEF Cached
    <3> QED BY <1>3, <1>6, <1>8, <2>1, <3>1
  <2>2. CASE e # new
    <3>1. e \in DOMAIN c /\ e # old /\ d[e] = c[e]
      BY <1>4, <1>5, <2>2
    <3>2. c[e] \in Present(m) /\ Rooted(c, e[1]) /\ PlacedAt(m, c[e], e[1], e[2])
      BY <1>7, <3>1 DEF Cached
    <3> QED BY <1>6, <3>1, <3>2
  <2> QED BY <2>1, <2>2
<1>10. Cached(m, d, IdleTask)
  BY <1>9, IdleFacts DEF Cached
<1> QED BY <1>10 DEF d, w

(* After a lookup or a listing it knows the names that were given. *)
LEMMA LearnedCached ==
  ASSUME NEW m, Sound(m), NEW c, NEW r, Cached(m, c, r), \A e : ~ Renamed(r, e),
         DOMAIN c \subseteq Inode \X Name,
         NEW p \in Inode, Rooted(c, p), NEW given \in SUBSET (Name \X Inode),
         \A g \in given : Listed(m, p, g[1]) /\ Child(m, p, g[1]) = g[2]
  PROVE  Cached(m, Merge(Learned(given, p), c), IdleTask)
<1> DEFINE l == Learned(given, p)
           d == Merge(l, c)
<1>1. /\ DOMAIN l \subseteq {<<p, g[1]>> : g \in given}
      /\ \A e \in DOMAIN l : \E g \in given : g[1] = e[2] /\ l[e] = g[2]
  BY LearnedFacts
<1> HIDE DEF l
<1>2. /\ DOMAIN d = DOMAIN l \cup DOMAIN c
      /\ \A e \in DOMAIN d : d[e] = IF e \in DOMAIN l THEN l[e] ELSE c[e]
  BY DEF Merge
<1> HIDE DEF d
<1>3. ASSUME NEW e \in DOMAIN l
      PROVE  /\ e[1] = p /\ Listed(m, e[1], e[2]) /\ d[e] = Child(m, e[1], e[2])
             /\ d[e] \in Present(m) /\ PlacedAt(m, d[e], e[1], e[2])
  <2>1. PICK g \in given : g[1] = e[2] /\ l[e] = g[2]
    BY <1>1
  <2>2. e[1] = p
    BY <1>1
  <2>3. Listed(m, e[1], e[2]) /\ d[e] = Child(m, e[1], e[2])
    BY <1>2, <2>1, <2>2
  <2>4. SafeMap(m)
    BY DEF Sound
  <2> QED BY <2>2, <2>3, <2>4, ListedNames DEF PlacedAt
<1>4. ASSUME NEW e \in DOMAIN c PROVE d[e] = c[e]
  <2>1. CASE e \in DOMAIN l
    <3>1. d[e] = Child(m, e[1], e[2])
      BY <1>3, <2>1
    <3>2. Child(m, e[1], e[2]) = c[e]
      BY CachedListed
    <3> QED BY <3>1, <3>2
  <2>2. CASE e \notin DOMAIN l
    BY <1>2, <2>2
  <2> QED BY <2>1, <2>2
<1>5. \A i : Rooted(c, i) => Rooted(d, i)
  BY <1>2, <1>4 DEF Rooted
<1>6. ASSUME NEW e \in DOMAIN d
      PROVE  d[e] \in Present(m) /\ Rooted(d, e[1]) /\ PlacedAt(m, d[e], e[1], e[2])
  <2>1. CASE e \in DOMAIN l
    BY <1>3, <1>5, <2>1
  <2>2. CASE e \in DOMAIN c
    <3>1. c[e] \in Present(m) /\ Rooted(c, e[1]) /\ PlacedAt(m, c[e], e[1], e[2])
      BY <2>2 DEF Cached
    <3> QED BY <1>4, <1>5, <2>2, <3>1
  <2> QED BY <1>2, <2>1, <2>2
<1>7. Cached(m, d, IdleTask)
  BY <1>6, IdleFacts DEF Cached
<1> QED BY <1>7 DEF d, l

(* So its names agree after every reply. *)
LEMMA SerialReplyCached ==
  ASSUME ResolverInv, SerialInv, Told, NEW t \in Task, Reply(t)
  PROVE  Cached(map, dcache', IdleTask)
<1> DEFINE w == task[t]
           old == <<w.parent, w.name>>
           new == <<w.newparent, w.newname>>
           counted == IF w.kind = "readdir" THEN {} ELSE w.given
<1>1. /\ w.pc = "reply"
      /\ dcache' =
           CASE w.kind = "unlink"  -> Without(dcache, {old})
             [] IsRename(t) /\ old \in DOMAIN dcache ->
                  Put(Without(dcache, {old}), new, dcache[old])
             [] OTHER -> Merge(Learned(counted, w.parent), dcache)
  BY DEF Reply, At
<1>2. /\ Cached(map, dcache, w) /\ ReadyFor(map, dcache, w) /\ GivenOf(map, w) /\ Sound(map)
  BY <1>1, BusyBooks
<1>3. w.parent \in Inode /\ w.given \in SUBSET (Name \X Inode)
  BY TaskFacts DEF TaskState
<1>4. DOMAIN dcache \subseteq Inode \X Name
  BY DEF Told
<1>5. CASE w.kind = "unlink"
  <2>1. dcache' = Without(dcache, {old})
    BY <1>1, <1>5 DEF IsRename
  <2>2. old \in DOMAIN dcache /\ \A e \in DOMAIN dcache : e[1] # dcache[old]
    BY <1>2, <1>5 DEF ReadyFor
  <2>3. \A e : ~ Renamed(w, e)
    BY <1>5 DEF Renamed
  <2> HIDE DEF old
  <2> QED BY <1>2, <2>1, <2>2, <2>3, WithoutCached
<1>6. CASE w.kind = "rename"
  <2>1. /\ old \in DOMAIN dcache /\ new \notin DOMAIN dcache /\ Rooted(dcache, w.newparent)
    BY <1>2, <1>6 DEF ReadyFor, RenameReady
  <2>2. dcache' = Put(Without(dcache, {old}), new, dcache[old])
    BY <1>1, <1>6, <2>1 DEF IsRename
  <2>3. old = <<w.parent, w.name>> /\ new = <<w.newparent, w.newname>>
    OBVIOUS
  <2> HIDE DEF old, new
  <2> QED BY <1>1, <1>2, <1>4, <1>6, <2>1, <2>2, <2>3, RenamedCached
<1>7. CASE w.kind # "unlink" /\ w.kind # "rename"
  <2>1. ~ IsRename(t)
    BY <1>2, <1>7 DEF IsRename, ReadyFor
  <2>2. dcache' = Merge(Learned(counted, w.parent), dcache)
    BY <1>1, <1>7, <2>1
  <2>3. /\ counted \in SUBSET (Name \X Inode)
        /\ \A g \in counted : Listed(map, w.parent, g[1]) /\ Child(map, w.parent, g[1]) = g[2]
    BY <1>2, <1>3 DEF GivenOf
  <2>4. \A e : ~ Renamed(w, e)
    BY <1>7 DEF Renamed
  <2>5. Rooted(dcache, w.parent)
    BY <1>2 DEF ReadyFor
  <2> HIDE DEF counted
  <2> QED BY <1>2, <1>3, <1>4, <2>2, <2>3, <2>4, <2>5, LearnedCached
<1> QED BY <1>5, <1>6, <1>7

(* And its references agree with the counts. *)
LEMMA SerialReply ==
  ASSUME ResolverInv, SerialInv, Told, NEW t \in Task, Reply(t)
  PROVE  SerialInv'
<1> DEFINE w == task[t]
<1>1. /\ w.pc = "reply" /\ Becomes(t, IdleTask)
      /\ UNCHANGED <<map, forget, panics, poisoned>>
  BY DEF Reply, At, Finish, resolver
<1>2. /\ Busy \subseteq {t} /\ forget = NoForget
      /\ Balance(map, refs, NoForget, w) /\ GivenOf(map, w) /\ Sound(map) /\ Givens
  BY <1>1, BusyBooks DEF SerialInv
<1>3. \A i \in Inode : refs'[i] = refs[i] + Pledge(w, i) /\ refs[i] \in Nat
  <2> TAKE i \in Inode
  <2>1. refs'[i] = IF Promise(w, i) THEN refs[i] + 1 ELSE refs[i]
    BY <1>2, ReplyRefs DEF Told
  <2> QED BY <2>1 DEF Pledge, Told
<1>4. \A i : Promise(w, i) => Gives(w) /\ i \in Present(map)
  <2> SUFFICES ASSUME NEW g \in w.given, w.kind # "readdir"
               PROVE  Gives(w) /\ g[2] \in Present(map)
    BY DEF Promise
  <2>1. Listed(map, w.parent, g[1]) /\ Child(map, w.parent, g[1]) = g[2]
    BY <1>2 DEF GivenOf
  <2> QED BY <1>1, <1>2, <2>1, ListedType DEF GivenOf, Gives, ResolverInv
<1>5. Balance(map, refs', NoForget, IdleTask)
  <2>1. ASSUME NEW i \in Inode
        PROVE  refs'[i] + Pend(IdleTask) + Owed(NoForget, i) <= MaxRefs
    <3>1. Pledge(w, i) \in {0, 1} /\ Pend(w) \in {0, 1} /\ Pledge(w, i) <= Pend(w)
      BY <1>4 DEF Pledge, Pend
    <3>2. refs[i] + Pend(w) + 0 <= MaxRefs
      BY <1>2, NothingOwed DEF Balance
    <3>3. refs[i] + Pledge(w, i) + 0 + 0 <= MaxRefs
      BY <1>3, <3>1, <3>2, ResolverAssumption
    <3> QED BY <1>3, <3>3, NothingOwed, IdleFacts
  <2>2. ASSUME NEW i \in Inode, refs'[i] > 0 PROVE i \in Present(map)
    <3>1. CASE Promise(w, i)
      BY <1>4, <3>1
    <3>2. CASE ~ Promise(w, i)
      BY <1>2, <1>3, <2>2, <3>2 DEF Balance, Pledge
    <3> QED BY <3>1, <3>2
  <2>3. ASSUME NEW i \in Present(map) \ {Root}
        PROVE  map.inodes[i].data = refs'[i] + Pledge(IdleTask, i) + Owed(NoForget, i)
    <3>1. i \in Inode
      BY InodeTypes DEF ResolverInv, SafeMap
    <3>2. map.inodes[i].data = refs[i] + Pledge(w, i) + 0
      BY <1>2, NothingOwed DEF Balance
    <3>3. refs'[i] = refs[i] + Pledge(w, i) /\ refs[i] \in Nat /\ Pledge(w, i) \in Nat
      BY <1>3, <3>1 DEF Pledge
    <3> QED BY <3>2, <3>3, NothingOwed, IdleFacts
  <2> QED BY <2>1, <2>2, <2>3 DEF Balance
<1>6. Cached(map, dcache', IdleTask)
  BY SerialReplyCached
<1>7. Books(map', refs', dcache', NoForget, IdleTask)
  BY <1>1, <1>5, <1>6, IdleFacts DEF Books
<1>8. GivenOf(map', IdleTask)
  BY GivenStart, IdleFacts
<1> QED BY <1>1, <1>2, <1>7, <1>8, IdleFacts, SoloStep

-----------------------------------------------------------------------------
(* No expectation fails in a serial build. *)
LEMMA NoPanicStep ==
  ASSUME ResolverInv, SerialInv, Told, NEW t \in Task,
         LockPanic(t) \/ InsertPanic(t) \/ RenamePanic(t)
  PROVE  FALSE
<1> DEFINE w == task[t]
<1>1. ~ poisoned
  BY DEF SerialInv, OneAtATime
<1>2. CASE InsertPanic(t)
  <2>1. w.pc \in {"fill", "insert"} /\ w.parent \notin Present(map)
    BY <1>2 DEF InsertPanic, Enters, At
  <2> QED BY <2>1, BusyBooks DEF ReadyFor
<1>3. CASE RenamePanic(t)
  <2>1. w.pc = "move" /\ ~ CanMove(t)
    BY <1>3 DEF RenamePanic, Enters, At
  <2>2. w.kind \in {"rename", "replace"}
    BY <2>1, TaskFacts DEF Fits
  <2>3. /\ Cached(map, dcache, w) /\ ReadyFor(map, dcache, w) /\ Sound(map)
    BY <2>1, BusyBooks
  <2>4. /\ w.kind = "rename" /\ w.parent \in Present(map) /\ w.newparent \in Present(map)
        /\ <<w.parent, w.name>> \in DOMAIN dcache
    BY <2>2, <2>3 DEF ReadyFor, RenameReady
  <2> DEFINE e == <<w.parent, w.name>>
  <2>5. e \in DOMAIN dcache /\ e[1] = w.parent /\ e[2] = w.name /\ ~ Renamed(w, e)
    BY <2>1, <2>4 DEF Renamed
  <2> HIDE DEF e
  <2>6. Listed(map, e[1], e[2])
    BY <2>3, <2>5, CachedListed DEF Told
  <2> QED BY <2>1, <2>4, <2>5, <2>6 DEF CanMove
<1> QED BY <1>1, <1>2, <1>3 DEF LockPanic

LEMMA SerialSteps ==
  ASSUME ResolverInv, SerialInv, Told, NEW t \in Task, Step(t)
  PROVE  SerialInv'
BY NoPanicStep, SerialResolves, SerialAfterHandler, SerialEnds, SerialHit, SerialLists,
   SerialFill, SerialAdd, SerialMoves, SerialReply DEF Step

-----------------------------------------------------------------------------
(* A forget of a serial build. *)

(* While no request is under way. *)
LEMMA ForgetSerial ==
  ASSUME SerialInv, Busy = {}, task' = task, Givens', Sound(map'),
         panics' = panics, poisoned' = poisoned,
         Balance(map', refs', forget', IdleTask), Cached(map', dcache', IdleTask),
         forget'.pc \in {"idle", "resolve", "subtract"},
         forget'.pc = "idle" => forget' = NoForget,
         forget'.pc # "idle" => forget'.n > 0 /\ forget'.ino \in Present(map')
  PROVE  SerialInv'
<1>1. Busy' = {}
  BY DEF Busy
<1>2. OneAtATime'
  BY <1>1 DEF SerialInv, OneAtATime
<1>3. Books(map', refs', dcache', forget', IdleTask)
  BY IdleFacts DEF Books
<1> QED BY <1>1, <1>2, <1>3 DEF SerialInv

(* The kernel takes off its references first; the forget owes them. *)
LEMMA SerialForgets ==
  ASSUME ResolverInv, SerialInv, Told, Serial,
         NEW i \in Inode, NEW n \in 1 .. MaxRefs, StartForget(i, n)
  PROVE  SerialInv'
<1> DEFINE away == {e \in DOMAIN dcache : dcache[e] = i}
<1>1. /\ Busy = {} /\ forget = NoForget /\ i # Root /\ n \in 1 .. refs[i]
      /\ n = refs[i] => \A e \in DOMAIN dcache : e[1] # i
      /\ forget' = [pc |-> "resolve", ino |-> i, n |-> n]
      /\ refs' = [refs EXCEPT ![i] = @ - n]
      /\ dcache' = IF n = refs[i] THEN Without(dcache, away) ELSE dcache
      /\ UNCHANGED <<map, poisoned, panics, task>>
  BY DEF StartForget, resolver
<1>2. /\ Balance(map, refs, NoForget, IdleTask) /\ Cached(map, dcache, IdleTask)
      /\ Sound(map) /\ Givens
  BY <1>1 DEF SerialInv, Books
<1>3. /\ n \in Nat \ {0} /\ refs[i] \in Nat /\ n <= refs[i]
      /\ \A j \in Inode : refs[j] \in Nat
      /\ refs'[i] = refs[i] - n /\ \A j \in Inode \ {i} : refs'[j] = refs[j]
  BY <1>1, ResolverAssumption DEF Told
<1>4. forget'.pc = "resolve" /\ forget'.ino = i /\ forget'.n = n
  BY <1>1
<1>5. \A j \in Inode : /\ refs[j] = refs'[j] + Owed(forget', j)
                       /\ refs'[j] \in Nat /\ refs'[j] <= refs[j]
  BY <1>3, <1>4 DEF Owed
<1>6. Balance(map', refs', forget', IdleTask)
  <2>1. ASSUME NEW j \in Inode
        PROVE  refs'[j] + Pend(IdleTask) + Owed(forget', j) <= MaxRefs
    <3>1. refs[j] + 0 + 0 <= MaxRefs
      BY <1>2, NothingOwed, IdleFacts DEF Balance
    <3>2. Owed(forget', j) \in Nat
      BY <1>3, <1>4 DEF Owed
    <3> QED BY <1>3, <1>5, <3>1, <3>2, IdleFacts, ResolverAssumption
  <2>2. ASSUME NEW j \in Inode, refs'[j] > 0 PROVE j \in Present(map')
    BY <1>1, <1>2, <1>3, <1>5, <2>2 DEF Balance
  <2>3. ASSUME NEW j \in Present(map') \ {Root}
        PROVE  map'.inodes[j].data = refs'[j] + Pledge(IdleTask, j) + Owed(forget', j)
    <3>1. j \in Inode /\ j \in Present(map) \ {Root}
      BY <1>1, InodeTypes DEF ResolverInv, SafeMap
    <3>2. map'.inodes[j].data = refs[j] + 0 + 0
      BY <1>1, <1>2, <3>1, NothingOwed, IdleFacts DEF Balance
    <3>3. Owed(forget', j) \in Nat
      BY <1>3, <1>4 DEF Owed
    <3> QED BY <1>3, <1>5, <3>1, <3>2, <3>3, IdleFacts
  <2> QED BY <2>1, <2>2, <2>3 DEF Balance
<1>7. Cached(map', dcache', IdleTask)
  <2>1. CASE n # refs[i]
    BY <1>1, <1>2, <2>1
  <2>2. CASE n = refs[i]
    <3>1. /\ \A e : e \in DOMAIN dcache' <=> e \in DOMAIN dcache /\ e \notin away
          /\ \A e \in DOMAIN dcache \ away : dcache'[e] = dcache[e]
      BY <1>1, <2>2, WithoutFacts
    <3>2. ASSUME NEW e \in DOMAIN dcache' PROVE Rooted(dcache', e[1])
      <4>1. e \in DOMAIN dcache /\ Rooted(dcache, e[1]) /\ e[1] # i
        BY <1>1, <1>2, <2>2, <3>1 DEF Cached
      <4>2. CASE e[1] = Root
        BY <4>2 DEF Rooted
      <4>3. CASE e[1] # Root
        <5>1. PICK d \in DOMAIN dcache : dcache[d] = e[1]
          BY <4>1, <4>3 DEF Rooted
        <5>2. d \in DOMAIN dcache' /\ dcache'[d] = e[1]
          BY <3>1, <4>1, <5>1
        <5> QED BY <5>2 DEF Rooted
      <4> QED BY <4>2, <4>3
    <3>3. \A e \in DOMAIN dcache' : e \in DOMAIN dcache /\ dcache'[e] = dcache[e]
      BY <3>1
    <3> QED BY <1>1, <1>2, <3>2, <3>3 DEF Cached
  <2> QED BY <2>1, <2>2
<1>8. i \in Present(map')
  BY <1>1, <1>2, <1>3 DEF Balance
<1>9. Givens' /\ Sound(map')
  BY <1>1, <1>2 DEF Givens
<1> QED BY <1>1, <1>3, <1>4, <1>6, <1>7, <1>8, <1>9, ForgetSerial

(* The count is not 0 before the subtraction, so the inode stays, and after
   it the count is what the kernel still holds. *)
LEMMA SubtractSerial ==
  ASSUME ResolverInv, SerialInv, Told, ForgetSubtract
  PROVE  SerialInv'
<1> DEFINE i == forget.ino
           n == forget.n
           count == map.inodes[i].data
           d == (count + Wrap - (n % Wrap)) % Wrap
<1>1. /\ forget.pc = "subtract" /\ i \in Present(map)
      /\ map' = Recounted(map, i, d)
      /\ forget' = IF count > 0 THEN NoForget ELSE [forget EXCEPT !.pc = "remove"]
      /\ UNCHANGED <<poisoned, panics, task, refs, dcache>>
  BY DEF ForgetSubtract, InForget, Recounted, kernel
<1>2. /\ Busy = {} /\ n > 0 /\ i # Root /\ n \in Nat /\ i \in Inode
  BY <1>1 DEF SerialInv, OneAtATime, NoForget, ResolverInv, ForgetFits, ForgetState
<1>3. /\ Balance(map, refs, forget, IdleTask) /\ Cached(map, dcache, IdleTask)
      /\ Sound(map) /\ Givens
  BY <1>2 DEF SerialInv, Books
<1>4. /\ refs[i] \in Nat /\ count = refs[i] + 0 + n /\ refs[i] + 0 + n <= MaxRefs
  <2>1. refs[i] \in Nat
    BY <1>2 DEF Told
  <2>2. Owed(forget, i) = n
    BY DEF Owed
  <2> HIDE DEF i, n
  <2> QED BY <1>1, <1>2, <1>3, <2>1, <2>2, IdleFacts DEF Balance
<1> HIDE DEF count
<1>5. d = refs[i] /\ d \in Data /\ count > 0
  <2>1. n < Wrap /\ refs[i] < Wrap /\ Wrap \in Nat
    BY <1>2, <1>4, ResolverAssumption
  <2>2. n % Wrap = n
    BY <1>2, <2>1
  <2>3. count + Wrap - n = refs[i] + Wrap
    BY <1>2, <1>4, <2>1
  <2>4. (refs[i] + Wrap) % Wrap = refs[i]
    BY <1>4, <2>1
  <2>5. d = (count + Wrap - n) % Wrap
    BY <2>2
  <2>6. d = refs[i]
    BY <2>3, <2>4, <2>5
  <2>7. count > 0
    BY <1>2, <1>4
  <2> HIDE DEF d
  <2> QED BY <1>4, <2>1, <2>6, <2>7, ResolverAssumption
<1> HIDE DEF d
<1>6. forget' = NoForget
  BY <1>1, <1>5
<1>7. Sound(map')
  BY <1>1, <1>3, <1>5, CountSound
<1>8. /\ Present(map') = Present(map)
      /\ \A j \in Present(map) : /\ map'.inodes[j].parent = map.inodes[j].parent
                                 /\ map'.inodes[j].name = map.inodes[j].name
                                 /\ map'.inodes[j].data = IF j = i THEN d ELSE map.inodes[j].data
  BY <1>1, CountFacts DEF ResolverInv
<1>9. Balance(map', refs', forget', IdleTask)
  <2>1. ASSUME NEW j \in Inode
        PROVE  refs[j] + Pend(IdleTask) + Owed(NoForget, j) <= MaxRefs
    <3>1. refs[j] + 0 + Owed(forget, j) <= MaxRefs
      BY <1>3, IdleFacts DEF Balance
    <3>2. refs[j] \in Nat /\ Owed(forget, j) \in Nat
      BY <1>2 DEF Owed, Told
    <3> QED BY <3>1, <3>2, NothingOwed, IdleFacts, ResolverAssumption
  <2>2. \A j \in Inode : refs[j] > 0 => j \in Present(map')
    BY <1>3, <1>8 DEF Balance
  <2>3. ASSUME NEW j \in Present(map') \ {Root}
        PROVE  map'.inodes[j].data = refs[j] + Pledge(IdleTask, j) + Owed(NoForget, j)
    <3>1. j \in Inode /\ refs[j] \in Nat
      BY <1>8, <2>3, InodeTypes DEF ResolverInv, SafeMap, Told
    <3>2. CASE j = i
      BY <1>5, <1>8, <2>3, <3>1, <3>2, NothingOwed, IdleFacts
    <3>3. CASE j # i
      <4>1. map.inodes[j].data = refs[j] + 0 + 0
        BY <1>3, <1>8, <2>3, <3>3, IdleFacts DEF Balance, Owed
      <4> QED BY <1>8, <2>3, <3>3, <4>1, NothingOwed, IdleFacts
    <3> QED BY <3>2, <3>3
  <2> QED BY <1>1, <1>6, <2>1, <2>2, <2>3 DEF Balance
<1>10. Cached(map', dcache', IdleTask)
  BY <1>1, <1>3, <1>8 DEF Cached, PlacedAt
<1>11. Givens'
  BY <1>2, <1>1, <1>3 DEF Givens, GivenOf, Busy
<1> QED BY <1>1, <1>2, <1>6, <1>7, <1>9, <1>10, <1>11, ForgetSerial DEF NoForget

(* A forget panics nowhere and removes nothing. *)
LEMMA SerialForgetSteps ==
  ASSUME ResolverInv, SerialInv, Told, ForgetSteps
  PROVE  SerialInv'
<1>1. /\ ~ poisoned /\ forget.pc # "remove" /\ Sound(map)
      /\ forget.pc # "idle" => forget.n > 0 /\ forget.ino \in Present(map)
      /\ forget.pc # "idle" => Busy = {}
  BY DEF SerialInv, OneAtATime, NoForget
<1>2. ~ ForgetLockPanic /\ ~ ForgetMissing /\ ~ ForgetRemove
  BY <1>1 DEF ForgetLockPanic, ForgetMissing, ForgetRemove, InForget
<1>3. CASE ForgetResolve
  <2>1. forget.pc = "resolve" /\ ~ LeadsNowhere(map, forget.ino)
    BY <1>1, <1>3, ResolvesAll DEF ForgetResolve, InForget
  <2>2. forget' = [forget EXCEPT !.pc = "subtract"]
        /\ UNCHANGED <<map, poisoned, panics, task, refs, dcache>>
    BY <1>3, <2>1 DEF ForgetResolve, resolver, kernel
  <2>3. forget \in ForgetState
    BY DEF ResolverInv, ForgetFits
  <2>4. forget'.pc = "subtract" /\ forget'.ino = forget.ino /\ forget'.n = forget.n
    BY <2>2, <2>3 DEF ForgetState
  <2>5. Balance(map, refs, forget, IdleTask) /\ Cached(map, dcache, IdleTask) /\ Givens
    BY <1>1, <2>1 DEF SerialInv, Books
  <2>6. \A j : Owed(forget', j) = Owed(forget, j)
    BY <2>4 DEF Owed
  <2>7. Balance(map', refs', forget', IdleTask)
    BY <2>2, <2>5, <2>6 DEF Balance
  <2>8. Givens' /\ Cached(map', dcache', IdleTask)
    BY <2>2, <2>5 DEF Givens
  <2> QED BY <1>1, <2>1, <2>2, <2>4, <2>7, <2>8, ForgetSerial
<1> QED BY <1>2, <1>3, SubtractSerial DEF ForgetSteps

-----------------------------------------------------------------------------
LEMMA SerialNext ==
  ASSUME ResolverInv, SerialInv, Told, Serial, "replace" \notin Requests, [Next]_vars
  PROVE  SerialInv'
<1>1. CASE UNCHANGED vars
  <2>1. UNCHANGED <<map, poisoned, panics, task, forget, refs, dcache>>
    BY <1>1 DEF vars, resolver, kernel
  <2>2. Busy' = Busy
    BY <2>1 DEF Busy
  <2>3. OneAtATime' /\ Givens'
    BY <2>1, <2>2 DEF SerialInv, OneAtATime, Givens
  <2> QED BY <2>1, <2>2, <2>3 DEF SerialInv
<1> QED BY <1>1, SerialStarts, SerialForgets, SerialSteps, SerialForgetSteps DEF Next

LEMMA InitSerial == Init => SerialInv
<1> SUFFICES ASSUME Init PROVE SerialInv
  OBVIOUS
<1>1. \A t \in Task : task[t].given = {} /\ task[t].pc = "idle"
  BY DEF Init, IdleTask
<1>2. Givens
  BY <1>1, GivenStart DEF Givens
<1>3. Busy = {}
  BY <1>1 DEF Busy
<1>4. OneAtATime
  BY <1>3 DEF Init, OneAtATime, NoForget
<1>5. Sound(map) /\ Present(map) = {Root}
  BY NewMapSafe, NewMapAllListed, NewMapNoCycle, CountTypes DEF Init, Sound
<1>6. Balance(map, refs, forget, IdleTask)
  <2>1. ASSUME NEW j \in Inode
        PROVE  refs[j] + Pend(IdleTask) + Owed(NoForget, j) <= MaxRefs /\ refs[j] = 0
    BY NothingOwed, IdleFacts, ResolverAssumption DEF Init
  <2> QED BY <1>5, <2>1 DEF Balance, Init
<1>7. Cached(map, dcache, IdleTask)
  BY DEF Init, Nothing, Cached
<1> QED BY <1>2, <1>3, <1>4, <1>5, <1>6, <1>7, IdleFacts DEF SerialInv, Books

(* The invariant of a serial build. *)
SerialBuild == ResolverInv /\ FiniteReplies /\ Told /\ SerialInv

LEMMA SerialAlways ==
  ASSUME Serial, "replace" \notin Requests
  PROVE  Spec => []SerialBuild
<1>1. Init => SerialBuild
  BY InitResolverInv, InitTold, InitSerial DEF SerialBuild
<1>2. SerialBuild /\ [Next]_vars => SerialBuild'
  BY NextResolverInv, FiniteStep, ToldStep, SerialNext DEF SerialBuild
<1> QED BY <1>1, <1>2, PTL DEF Spec

(* What holds when nothing is under way. *)
LEMMA QuietBooks ==
  ASSUME SerialBuild, Quiet
  PROVE  /\ \A i \in Present(map) \ {Root} : map.inodes[i].data = refs[i]
         /\ \A e \in DOMAIN dcache : /\ dcache[e] \in Present(map)
                                     /\ map.inodes[dcache[e]].parent = e[1]
                                     /\ map.inodes[dcache[e]].name = e[2]
<1>1. Balance(map, refs, NoForget, IdleTask) /\ Cached(map, dcache, IdleTask)
  BY DEF SerialBuild, SerialInv, Quiet, Books
<1>2. \A i \in Present(map) \ {Root} : refs[i] \in Nat
  BY InodeTypes DEF SerialBuild, ResolverInv, SafeMap, Told
<1>3. ASSUME NEW i \in Present(map) \ {Root} PROVE map.inodes[i].data = refs[i]
  <2>1. map.inodes[i].data = refs[i] + 0 + 0
    BY <1>1, <1>3, NothingOwed, IdleFacts DEF Balance
  <2> QED BY <1>2, <1>3, <2>1
<1>4. ASSUME NEW e \in DOMAIN dcache
      PROVE  /\ dcache[e] \in Present(map)
             /\ map.inodes[dcache[e]].parent = e[1]
             /\ map.inodes[dcache[e]].name = e[2]
  BY <1>1, <1>4, IdleFacts DEF Cached, PlacedAt
<1> QED BY <1>3, <1>4

(* In a serial build, for renames that replace nothing: between two requests
   every lookup count is the number of references the kernel holds, over
   lookups, creations, links, listings, unlinks, renames and forgets, partial
   or not.  So the test of forget (fetch_sub in
   src/src/core/inode_mapping.rs) compares the right numbers. *)
THEOREM CountsRight ==
  ASSUME Serial, "replace" \notin Requests
  PROVE  Spec => []CountsAgree
<1>1. SerialBuild => CountsAgree
  BY QuietBooks DEF CountsAgree
<1> QED BY <1>1, SerialAlways, PTL

(* In a serial build, for renames that replace nothing: between two requests
   the parent and the name that the mapper keeps for an inode are those the
   kernel knows it by, also after renames of it or of a directory above. *)
THEOREM NamesRight ==
  ASSUME Serial, "replace" \notin Requests
  PROVE  Spec => []NamesAgree
<1>1. SerialBuild => NamesAgree
  BY QuietBooks DEF NamesAgree
<1> QED BY <1>1, SerialAlways, PTL

(* In a serial build, for renames that replace nothing: every inode that the
   kernel holds resolves to a path, at any time, also during a request. *)
THEOREM KernelResolves ==
  ASSUME Serial, "replace" \notin Requests
  PROVE  Spec => []KernelInodesKnown
<1>1. SerialBuild => KernelInodesKnown
  <2> SUFFICES ASSUME SerialInv, NEW i \in Inode, refs[i] > 0 PROVE Resolves(map, i)
    BY DEF SerialBuild, KernelInodesKnown
  <2>1. PICK r, f : Balance(map, refs, f, r)
    BY DEF SerialInv, Books, Busy
  <2>2. i \in Present(map) /\ Sound(map)
    BY <2>1 DEF Balance, SerialInv
  <2> QED BY <2>2, ResolvesAll
<1> QED BY <1>1, SerialAlways, PTL

(* In a serial build, for renames that replace nothing: none of the
   expectations of the driver and of the resolver ever fails (to resolve an
   inode, to take the lock, to insert a child, to rename, to find the inode
   of a forget), so no request ends the session. *)
THEOREM NeverPanics ==
  ASSUME Serial, "replace" \notin Requests
  PROVE  Spec => []NoPanics
<1>1. SerialBuild => NoPanics
  BY DEF SerialBuild, SerialInv, OneAtATime, NoPanics
<1> QED BY <1>1, SerialAlways, PTL
=============================================================================
