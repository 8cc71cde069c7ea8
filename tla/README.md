# easy_fuser in TLA+

A verification project for `easy_fuser`, the Rust wrapper around `fuser` in
`src/`: TLA+ modules of its stateful parts, TLC configurations that check them
on small instances, and TLAPS proofs of what the mapper, the resolver, the
directory reads, a mounted mirror and the in-memory example keep for every
instance. Paths below are relative to the repository root, which is `src/` here
(`src/src/inode_mapper.rs` is the crate's `src/inode_mapper.rs`).

    tlc -config MapperKernel.cfg MCInodeMapper.tla      # one run
    tlapm InodeMapperProofs.tla                         # the proofs of one module

## 1. Inventory

| component | state it keeps | operations | with whom |
|---|---|---|---|
| `InodeMapper` (`inode_mapper.rs`) | `inodes`: number -> parent, name, data; `children`: number -> name -> number; `next_inode` | `insert_child`, `insert_children`, `batch_insert`, `rename`, `remove`; reads `resolve`, `lookup`, `get`, `get_children` | owned by the resolver, or by a file system (`examples/zip_fs`); calls the owner's value creators |
| `ComponentsResolver`, `PathResolver` (`core/inode_mapping.rs`) | an `InodeMapper<AtomicU64>` (the lookup counts) in an `RwLock` | `resolve_id`, `lookup`, `add_children`, `forget`, `rename` | called by every request of the driver |
| `InodeResolver` | none | identity | same |
| `FuseDriver` (`core/fuse_driver.rs`, `macros.rs`, `fuse_driver_types.rs`) | resolver, handler, two tables of saved directory entries, the thread pool | one method per FUSE request | called by the `fuser` session thread; calls resolver and handler; replies to the kernel |
| `FuseHandler` and templates (`fuse_handler.rs`, `templates/`) | none (`MirrorFs`: a path) | one method per request, forwarding by default | called by the driver |
| `unix_fs` | the file system of the host: descriptors, positions, attributes | one function per request | called by `MirrorFs`, `FdHandlerHelper` |
| types (`types/`) | none (`OwnedFileHandle`: a descriptor) | conversions of handles, attributes, flags, errors | everywhere |
| examples (`in_memory_fs`, `zip_fs`, ...) | their file trees | a subset of the handler | called by the driver |

How a request runs: the session thread takes it from `/dev/fuse`; in a
`serial` build it runs on that thread, in a `parallel` build on a thread of the
pool. It resolves the numbers in it to paths (read lock), calls the handler
(no lock), records the outcome in the resolver (read lock, then write lock for
a new name), and replies. `forget` has no reply and runs on the session thread
at once in both builds.

What is hard:

* the two tables of the mapper are updated separately by every operation, and
  lookups `unwrap` on their agreement;
* the lookup count of an inode and the references the kernel holds are changed
  in different places, and `forget` decides by the count;
* in a parallel build `lookup` and `forget` are two critical sections each, and
  a request is three;
* a panic ends the request, the session (serial build, or in `forget`), or
  poisons the lock (under the write guard);
* directory listings are cut into replies, with the rest kept in a table
  between two requests.

What makes each part correct is in section 4, as the properties the runs check.
`PROJECT.json` lists every hazard at its line.

## 2. Modules

| module | models |
|---|---|
| `InodeMap` | the mapper as a value: each method as an operator from a map to the map it leaves; the agreement predicates |
| `InodeMapper` | the life of one mapper: an owner's calls in any order, the insertion loops one insertion at a time |
| `ComponentsResolver` | the resolver under requests and forgets, with the kernel as environment; extends `InodeMap` |
| `DirStream` | `handle_dir_read!` and its two tables of saved entries |
| `Namespace` | abstract: a tree of names that is changed one name at a time |
| `InodeMapperTree` | the refinement mapping from `InodeMapper` to `Namespace` |
| `UnixFs` | each function of `unix_fs` as the sequence of its system calls |
| `DefaultFuseHandler` | the methods of the innermost handler, as such sequences |
| `MirrorFs` | each method of `MirrorFs`, `MirrorFsReadOnly` and `FdHandlerHelper`, composed from the two before |
| `MirrorMount` | the driver over a `MirrorFs`: every FUSE request, the thread pool, the calls of the handler on the host's directory and descriptors, the replies; with `InodeMap` as the resolver and the kernel as environment |
| `InMemoryFs` | the in-memory example, with the refinement mapping to `Namespace` |
| `MCInodeMapper`, `MCComponentsResolver`, `MCDirStream`, `MCMirrorMount`, `MCInMemoryFs` | constants of the runs |
| `NumberInduction` | induction over numbers for a property given as a set |
| `InodeMapProofs` | lemmas about the operators of `InodeMap` |
| `InodeMapperProofs` | theorems about `InodeMapper`, and that it implements `Namespace` |
| `ComponentsResolverProofs` | theorems about `ComponentsResolver` |
| `DirStreamProofs` | theorems about `DirStream` |
| `InMemoryFsProofs` | theorems about `InMemoryFs` |
| `MirrorMountBaseProofs`, `MirrorMountProofs` | theorems about `MirrorMount` |

Operators whose comment says *Mutant* are variants of the definition that
follows them with a plausible mistake. No specification uses them; they show
that the properties can fail: with the variant in place of the definition, TLC
refutes the property it is listed with in `PROJECT.json`.

### InodeMap and InodeMapper

A `HashMap` is a function whose domain is its set of keys. `Insert`,
`EnsureMap`, `Moved`, `Removed` are `insert_child_unchecked`, the start of
`insert_children`, `rename` and `remove`; a directory with an *empty* children
map and one with *none* are different values, because `rename` treats them
differently. The recursion of `remove` is a closure (`Cascade`: the smallest
set that contains the inode and what it lists), the walk of `resolve` is one
too (`Chain`); no operator is `RECURSIVE`, so the module can be proved about.

An action of `InodeMapper` is a call that succeeds; calls that return an error
change nothing (their early returns are the guards). `insert_children` and
`batch_insert` call the owner between insertions, so they run one insertion per
step; `job` is the loop's position. `path_cache` is not a variable: it
repeats what the tables say, and `CursorOnPath` checks that. The guard
`HasRoom` is the bound `MaxInode` on the numbers, not a guard of the code.

There are three owners: `Spec` calls anything; `SpecKernel` never moves a
directory below itself (as `rename(2)` guarantees, the resolver's case);
`SpecArchive` never renames (`examples/zip_fs`).

### ComponentsResolver

`map` is the mapper, whose data is the lookup count; `writer` the task inside
the write guard across steps (`add_children` inserts entry by entry);
`poisoned`, `panics`, `alive` what panics leave. `task` is a request under way,
with a program counter that stands before its next critical section or handler
call; `forget` is the forget on the session thread. `Serial` selects the
build. A lock section of the code is one step.

The kernel (external) is `refs` and `dcache`: references per number, and the
number it knows for a name. It names a number only while it holds a reference
to it, a parent only if it was not removed, does not move a directory below
itself, and does not forget a number a request is about. It does not count
the entries of a plain `readdir`. Kinds of request: `entry` stands for lookup,
create, mknod, mkdir and symlink, which make the same calls; `link` resolves a
second number; `unlink` stands for rmdir too, neither of which tells the
resolver. Renames come in two kinds, so that a known defect does not hide
everything else: `rename` moves onto a free name of a directory in which the
mapper lists another name, `replace` moves wherever `rename(2)` allows.

### DirStream

A stream is an open directory of a program: the position it reads on from,
the listing it was first answered, what it was given, whether it was told it is
at its end. A read is asked, then served in two steps (one per lock section of
the table): take the saved entries, or ask the handler for a listing at offset
0; then fill the reply and save the rest. How many entries fit is any number
from `MinFit` up: a page holds at least fourteen entries of the longest name,
so a reply of one entry means a directory of one entry.

### Namespace

The state is `at`, the directory and name of every node that has a place, and
`used`, the nodes that ever had one. A step creates an unused node in a free
place, moves a node and what is below it over at most one other, or removes a
node with all that is below it. Two components promise it and are checked
against it as `Names!Spec`: `InodeMapper` for an owner that never renames
(`MapperIsATree`: a cascade of `remove` is one step, an insertion loop is a
sequence of creations), and `InMemoryFs` for everything that lookups from the
root can reach (`MemoryIsATree`).

### UnixFs, DefaultFuseHandler, MirrorFs

These modules have no state of their own (`MirrorFs` has the choice of its
variant). A function of `unix_fs` is the sequence of system calls it makes when
all succeed; a method of a handler is such a sequence too, so a handler on top of a
handler is a choice between sequences: `ReadWrite(calls, forwarded)` is a method
that the read-only variant does not have and forwards. That any call may fail,
and what is closed then, is in `MirrorMount`.

### MirrorMount

One action per method of `FuseDriver` puts a request into `queue`
(`execute_task!`); `Begin` is a free worker that takes the first one and resolves
its number; one action per kind of system call does the next call of its
`script`, on the host or with an error that ends the request; `Answer` is the
reply with what `resolver.lookup` and `resolver.rename` do to the mapper.
`host.entry` is the mirrored directory and `host.desc` the descriptors of the
process. `own` is the descriptor that a request must give on or close: in the
code an `OwnedFd` or the raw number between `open` and `close` of `setattr`. A
drop of an `OwnedFd` is a `close` in the script, or part of `CallFails`.

The kernel (external) is `dent`, `means` and `files`: the number it has for a
name, the file it believes that number is, and the open files. It sends one
request per process, a request that changes names alone on its directory, and
`release` once, when nothing uses the handle. The directory is flat and changed by
nobody else. Ghosts in a request say which file the kernel meant and what was
reached.

The resolver here is the bare mapper: counts, forgets and the lock are in
`ComponentsResolver`, directory replies in `DirStream`.

### InMemoryFs

A method is one step for each `access()` (a lock section of its own) and one for
the operation, so two requests interleave between check and change. Content is a
length, a mode is the rights per class. A panic under the mutex poisons it. The
kernel (external) holds directories and inodes as in `Holds` and `Shares`; it
lets a READ run beside anything, but starts it inside the size it knows.
`lookup`, `getattr` and `access` change nothing and cannot panic, and have no
action. EXCHANGE and NOREPLACE are not asked for.

## 3. Bounds and assumptions

`InodeMapper`: `MaxInode` 4 or 5 numbers, two names, at most two payloads. Four
numbers are enough for a directory, a directory in it, a file, and a second
number for one of them, which all the failures below need; 5 are used for
batches of three levels. `MCBatches` has an empty batch, siblings, a parent
after its child, a missing parent, and two depths in one call.

`ComponentsResolver`: 3 or 4 numbers, one or two names, at most three tasks,
`MaxRefs` references per number. `Wrap` is the modulus of the counts (2^64 in the
code), one more than `MaxRefs`, so that a count that falls below zero shows. A
request is taken only when there are numbers left for all it may insert, so the
`HasRoom` guards of its later steps never hold it up.

`DirStream`: in `DirRead`, listings of 0, 2, 3 and 5 entries, `MinFit` 2, two
streams opened twice; `MaxGot` is above the longest listing, so it never stops a correct one.

`MirrorMount`: in `Mirror`, two names, three numbers, two files and a symbolic
link, descriptors 0 to 2, two threads, and two processes: one that uses files and
listings and one that changes names. Two users at once share only the
descriptors, which the other process takes and gives back too; two changers
exclude each other in the kernel, and two lookups at once are in
`ComponentsResolver`. Three numbers leave one to be replaced by a rename and
two in use. Two descriptors are an open file and one for `getattr` or
`setattr`, or two open files; a third `open` fails, as it may. `SetAsks` are a
`chmod` with a `chown`, and a truncation with both times. `MirrorLive` has
one name and one of every kind of file, pools of one and of two threads, and an
inner handler made with `new_with_panic`. `InUse = FALSE` keeps renames
from taking away a number that a request or an open file has (see 4).

`InMemoryFs`: four numbers (root, two directories and a file, or one made
again), two names, lengths 0 and 1, two requests at a time, one caller who may
lose the right to write. `ReadRaces = FALSE` keeps truncations and READs apart (see 4).

Assumptions on the constants. The `ASSUME`s of the modules, which every theorem
may use, give the constants their types and keep markers apart from values:
`RootNode`, `Elsewhere` and `NoNode` are no files, a symbolic link is of no other
kind, the mounted directory's name is no name in it, a `setattr` asks for
attributes there are, a change of the in-memory example is of its four attributes,
with a length it can store. Of the sets, only the tasks of `InMemoryFs`
are assumed finite.

Fairness. `Spec` of `MirrorMount` has weak fairness for each request that a
worker can go on with: threads of the pool run, and system calls other than the
`open` of a pipe return. `FairSpec` of `ComponentsResolver` has strong fairness for each task
and for the forget: a runnable thread runs, and a thread that waits for the
`RwLock` gets it in the end. Only `add_children` keeps the lock over several
steps; in the run that checks `RequestsEnd` nothing does, and weak fairness
would be enough. `FairSpec` of `DirStream` lets the program read on and the
handler not fail for ever. Starts of requests are never fair: the kernel may
stop.

`CHECK_DEADLOCK FALSE` stands in every configuration, because every system here
may stop: an owner stops calling, the bounds are used up, the session ends.

## 4. What the runs show

Passing:

| run | checks |
|---|---|
| MapperKernel | `EntryAgrees`, `RootKept`, `NextNumberFree`, `ParentsAcyclic` (resolve returns), `RenameKeepsInodes`; the first three are proved for any owner |
| MapperArchive | `TablesAgree`, `RemoveCascades`, and for `batch_insert`: `CursorOnPath`, `ParentsFirst`, `InsertionKeeps`; `MapperIsATree`: the mapper implements `Namespace` |
| ResolverSerial | `CountsAgree`, `NamesAgree`, `KernelInodesKnown`, `NoPanics`: with the defects below kept out, the serial resolver and the kernel agree on counts, names and numbers |
| ResolverParallel | `OneNumberPerName`, `HeldIsCounted` for overlapping lookups and listings of three tasks |
| ResolverRaces | `MapSafe`, `PoisonedIsFrozen`, `RequestsEnd` for every race of two requests and forgets, over known names, after panics, and when the parent of an insertion is removed under it |
| DirRead | `InOrder`, `Complete`, `SavedIsWanted`, `ListingEnds` for plain readdir |
| Memory | `EntriesLead`, `NotPoisoned`, `StillThere`: what `access()` checked still holds when the operation runs, as far as it must, and no `unwrap` or slice fails; `MemoryIsATree` |
| Mirror | `DescriptorsOwned` and `HandleMeansFile` (nothing leaks, nothing is closed twice or by the wrong request), `RightFile` and `KernelAgrees` (a number leads to its file through renames, removals and new files), `SetIsReported`, `ReadOnlyKeeps` |
| MirrorLive | `Answered`: every request is answered, unless it or all threads wait on a pipe |

`ResolverRaces` is the only run with renames of every kind in a parallel build.
It gives every file the same name, which leaves four numbers for depth: a
directory, one in it, and a second number for either.

Violated, each by what the code does and against what its docs, comments or
tests say (`PROJECT.json` "findings" quotes them):

| run | property | what happens |
|---|---|---|
| MapperRenamedLost | `RenamedIsFound` | a rename into a directory without a children map loses the entry |
| ResolverEarlyRelease | `ReleasedOnlyAtZero` | two first lookups of a name at once: a forget releases a held inode |
| DirPlus | `Complete` | `readdirplus` saves the rest under the wrong number: a long listing is cut short |

The same models show what follows from these and from the assumptions of the
passing runs. None of it has a run of its own; each takes one line in a
configuration.

* The last forget does not release an inode: `fetch_sub` answers the count before
  the subtraction (`ReleasedAtZero` with one task, serial, requests `entry` and
  `forget`), although `fuse_handler.rs:220` says it is released at zero.
* A rename over a name the kernel knows removes the replaced number while the
  kernel holds it, and its next use fails the `expect` of `resolve_id`
  (`KernelInodesKnown`, serial, with `replace`). In a `MirrorMount` the file may
  be open: its `release` then panics before the handler is called, and the
  descriptor is never closed (`Mirror` with `InUse = TRUE`: `DescriptorsOwned`;
  the other properties of that run still hold). `fuse_handler.rs:449` promises
  one call of release for every open.
* A READ of the in-memory example that waits while the file is truncated starts
  behind the end, panics in the slice and poisons the mutex: every later
  request fails (`Memory` with `ReadRaces = TRUE`: `NotPoisoned`).
* The in-memory example keeps the nodes of a non-empty directory that a rename
  replaced; they are out of reach but not out of the table.
* `getattr` of a mirror opens the path: for a named pipe it never returns and
  costs the pool a thread, for a symbolic link it answers for the target. These
  are the exceptions that `Answered` and `RightFile` state.
* `setattr` with only one of the two times does nothing and reports success
  (`SetAsks` with `{"atime"}`: `SetIsReported`).
* An inode whose entry a rename lost outlives the removal of its parent
  (`RemoveCascades` under `SpecKernel`), panics the next rename of the file under
  the write guard (`NoPanics` with requests `entry` and `replace`, serial), and,
  listed again, gets a second number: `mv b a/b; ls a; mv a/b b; mv a b/b` closes
  a circle of parents on which `resolve` never returns (`NoCycle(map)` with
  `readdir` too).
* Two streams on one directory take each other's saved entries (`DirRead` with
  `Shared = TRUE`: `Complete`).
* A directory of exactly one entry leaves the kernel at offset 0 and is listed
  again and again (`Listings <- MCSingle`: `InOrder`).
* A stream closed early leaves its saved entries to a later one (`Abandons =
  TRUE`, `Listings <- MCShrinks`: `InOrder`).

## 5. What is proved

Each theorem below is about `Spec` (or the specification it names) for every
value of the constants that meets the modules' named assumptions, and for every
number of tasks, streams or requests. The name of the property a run checks is in
brackets. Every proof rests on an inductive invariant that a run of TLC checked
first; the module's comments say what each conjunct is for.

### The mapper

`InodeMapperProofs`, any owner: `MapperSafe` and from it `MapperTypeCorrect`
(`TypeOK`), `ListedInodesExist` (`EntryAgrees`), `RootNeverLost` (`RootKept`),
`NextNumberNeverUsed` (`NextNumberFree`), `RenamePreserves`
(`RenameKeepsInodes`), `LoopsKeepInodes` (`InsertionKeeps`), `ParentsComeFirst`
(`ParentsFirst`), `CursorFollowsLookup` (`CursorOnPath`); for an owner that
renames as `rename(2)` allows, `ResolveReturns` (`ParentsAcyclic`).

`EntryAgrees` alone is not inductive: an insertion that reuses a number would
overwrite an inode another entry leads to, so the invariant needs
`NumbersIssued` (the next number occurs nowhere, not even as the owner of a
children map that a replaced directory left behind); a rename or a cascade
could take the root, unless the root's name is one no entry can have
(`RootStays`); and the loops need `JobPlaced` (the cursor stands on an inode
that is there). `MapperInv` is their conjunction. `InodeMapProofs` shows for
each operator that it keeps `SafeMap` (the conjunction for a map value), and the
theorem has one step per action on top of that. Acyclicity is proved separately
from the same invariant: a new inode is nobody's parent, a removal takes
parents away only with the set closed under listing or leaves them dangling
(which is no circle), and a rename cannot close a circle because the inode
moved is not above its new parent. `CursorOnPath` is about the recursive function
`Walk`: that a walk over a longer path goes on from where the shorter one
ended is an induction over the length, which `NumberInduction` provides for a
property given as a *set* of numbers.

For an owner that never renames (`SpecArchive`), in the same module:
`LookupFindsAll` (`TablesAgree`), `RemovalIsWhole` (`RemoveCascades`) and the
refinement `MapperKeepsATree` (`MapperIsATree`). The step to prove is that the
closure `Cascade` of `remove` is the closure `Below` of the abstract tree; they
are defined over different graphs (children maps, parent links), which agree by
`TablesAgree`. With renames `TablesAgree` is false (section 4).

### The resolver

`ComponentsResolverProofs`, both builds, any kinds of request: `MapStaysSafe`
(`MapSafe`), `PoisonIsFinal` (`PoisonedIsFrozen`), `ResolverTypes` (`TypeOK`).
They follow from `ResolverInv`. `MapSafe` is not inductive there: an insertion
of `add_children` runs several steps after its parent was found, so the
invariant says that the parent of a task inside the write guard exists, and that
nobody else is inside; a rename writes a name and `forget` takes an inode, so it
says which requests stand where, and that no forget is about the root; the
guard is free once the lock is poisoned. Every step then is one of the
operators of `InodeMapProofs`, or changes a count (`CountSafe`).

Parallel builds:

* `OneNumber` (`OneNumberPerName`), for mounts without renames: every inode is
  listed where it says (`AllListed`), which insertions keep because the second
  half of `lookup` looks again.
* `CountedWhileHeld` (`HeldIsCounted`), for mounts without renames and forgets.
  The invariant `Count` relates four things: the count of an inode is at most the
  references the kernel has plus the replies that carry the inode, is above 0 once
  there is either, and the references plus the requests that may still give
  one stay below the bound, so no count wraps. The number of such requests is a
  cardinality, and each step of a task moves one task into or out of a set.

Serial builds whose renames replace nothing: `CountsRight` (`CountsAgree`),
`NamesRight` (`NamesAgree`), `KernelResolves` (`KernelInodesKnown`),
`NeverPanics` (`NoPanics`). All four are faces of one invariant, `SerialInv`,
since they are not inductive one by one: that counts are right needs every
request to reach its reply, that it does needs the names to agree, and that a
name survives a rename needs that every inode resolves. `Balance` says the count
of an inode is what the kernel holds, plus what the reply under way will give,
plus what a forget still owes; `Cached` that the mapper has an inode where the
kernel knows it, with the one exception between a rename in the mapper and its
reply; `ReadyFor` what the request relies on; `Sound` that all inodes are listed and
no circle exists, so every inode resolves. The key lemma of the renames is
`NotBelow`: a directory that is not below another in the kernel's tree is not
below it in the mapper. The conditions are those under which the run
`ResolverSerial` checks them; section 4 says what happens without.

### The directory streams, the in-memory example

`DirStreamProofs`: `StreamTypes` (`TypeOK`) for any streams; for plain `readdir`
with one stream per directory that reads to its end, replies of at least two
entries when cut, and no listing of a single entry (`ReadPlainly`):
`GivenInOrder` (`InOrder`), `GivenWhole` (`Complete`), `NothingLeftBehind`
(`SavedIsWanted`). The invariant (`Delivered`, `Wanted`) says of each stream that
what it was given, followed by what is saved for its position or is in the
reply under way, is the listing; and of each saved rest that exactly one
stream will ask for it. The conditions are those of the run `DirRead`;
section 4 says what each prevents.

`InMemoryFsProofs`, any number of requests at once: `MemoryTypes` (`TypeOK`),
`EveryNameLeads` (`EntriesLead`), `CheckedIsStillSo` (`StillThere`), and, if no
truncation runs beside a READ, `NeverPoisoned` (`NotPoisoned`). What makes
`EntriesLead` inductive is what a request relies on between its two lock
sections (`Sound`, the kernel's side included), that no two requests at once are in
each other's way (`Conflict`), and for renames that the directory moved is not
above its new parent, where the ancestors of a directory are the recursive
function `Up` (by `NumberInduction` again).

### The mounted mirror

`MirrorMountBaseProofs` and `MirrorMountProofs` are about `MirrorMount`, for any
number of processes, threads, names, files and descriptors, and every place
where a call may fail: `MountTypes` (`TypeOK`), `ReadOnlyAlways`
(`ReadOnlyKeeps`), `KernelAgreesAlways` (`KernelAgrees`), `HandlesMeanFiles`
(`HandleMeansFile`), `RightFileAlways` (`RightFile`); with a hypothesis,
`SetReportedAlways` (`SetIsReported`, if callers of `setattr` set both times or
none) and `DescriptorsOwnedAlways` (`DescriptorsOwned`, unless `InUse`). Both
hypotheses are those of the run `Mirror`, and section 4 says what happens
without. The invariant has layers, each relying on those before it:

* `Base`: the rest of a request's script is one its method can have left, given
  its lock and its descriptor (`Fit`); who waits, runs and is in the queue
  agree; the mapper is safe, by `InodeMapProofs`; there is a number for each name.
* `Kept`: a request that is to answer with an entry has found the node that its
  name leads to (`Found`), since whoever changes that name waits for its
  directory. `ReadOnlyKeeps` and `SetIsReported` follow here: what a read-only
  method has left never writes, and what a `setattr` was asked for is set or still
  in its script.
* `Names`: what the kernel knows of a name, the resolver and the host agree
  unless a request has changed the name and is not answered.
* `Owned`, `OpenedRight`, `FilesKnown`: a descriptor has at most one owner, which
  is a request or a handle, and what `create` opened is the node of its name.
  Every step passes, opens, closes, gives or takes one descriptor (`Effect`).
* `Alive`, `AllHeld`, unless `InUse`: a number of a request or of a handle stays,
  so no descriptor loses its owner. With `InUse` it does, when `release` finds
  its number removed.
* `Flat`, `Right`: every number is listed under its name, and the path of a
  request on a node leads to that node. This is not inductive for running
  requests alone: the path is resolved when a worker takes the request, after
  any number of others. `WillBe` says what the path of a queued request will lead
  to, with renames that the host has made and the resolver has not been told of;
  and that whatever is created at this path came later into the queue, since the
  kernel sent the request while it knew the name. The order of the queue is part
  of the invariant: this is where a queue that reorders would break it.
* `Handled`: a handle's descriptor is open on its file while a call on it is
  queued or runs, and what a request opened by its path is its node.

### Not proved

Left to TLC: the refinement `MemoryIsATree` of the in-memory example. Out of
reach of the prover: the liveness properties `RequestsEnd`, `ListingEnds` and
`Answered`. Nothing here is proved of what a recursive *operator* computes; the
modules have none.

## 6. Plan

Done: the mapper, the resolver, directory reads, the in-memory example and the
mounted mirror with their proofs (every safety invariant that a passing run
checks is a theorem), the abstract tree of names and its two refinements (one of
them proved). From here:

1. `MemoryIsATree` as a theorem.
2. `readdirplus` counts of entries that are never delivered, composed from
   `ComponentsResolver` and `DirStream`.
3. Pure operators: `DeviceType` from and to a raw number.

## 7. Not modelled

`InodeResolver` is the identity; mounting is `fuser`'s; flags and errors are
tables. The async mode is not implemented in the code. A value creator that
panics inside the mapper is left out: the resolver's creators do not. The
content of names is left out; so is the `u64` width of inode numbers, which a
mount does not exhaust. Of the templates, `init`, `destroy`, the time-to-live
and the generation of a reply are left out, and what a mirror does for a file
that is open but has no name left, except by handle. The contents of files,
attribute lists and the conversions of `stat` and times are data that no
property is about; `copy_file_range` (Linux) and the positions of descriptors are
therefore calls that succeed or fail. The wrappers for the BSDs and macOS are
not built here. `hello_fs`, `random_fs`, `ftp_fs` and `passthrough_fs` answer
constants, random numbers, or forward.
