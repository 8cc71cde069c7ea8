----------------------------- MODULE MirrorMount -----------------------------
(***************************************************************************)
(* A mounted MirrorFs: the methods of FuseDriver (core/fuse_driver.rs) as  *)
(* requests, the thread pool that serves them, the resolver that turns the *)
(* kernel's inode numbers into paths, the handler's system calls one at a  *)
(* time, and the host directory that is mirrored.                          *)
(*                                                                         *)
(* A request is put into the queue of the pool (execute_task); a worker    *)
(* that is free takes the first one, resolves its number (Begin), makes    *)
(* the system calls of the handler, each of which may fail and between any *)
(* two of which other workers run, and replies (Answer).  With one thread  *)
(* this is also the serial build, except that a panic ends its session.    *)
(*                                                                         *)
(* The directory is flat and nobody else changes it.  The resolver is the  *)
(* InodeMapper of module InodeMap; its reference counts, the forgets and   *)
(* its lock are in ComponentsResolver.                                     *)
(***************************************************************************)
EXTENDS MirrorFs, Integers, FiniteSets, FiniteSetsExt

CONSTANTS Name, RootName, MaxInode,
          Special,    \* names under which callers make what is not a file
          File, Pipe, Dir, Soft,    \* nodes that may be in the directory
          RootNode, Elsewhere,      \* the directory, a file outside it
          NoNode,
          MaxFd,      \* the last descriptor the process may have
          User,       \* processes that use files and listings
          Namer,      \* processes that look up and change names
          Threads,    \* sizes the pool may have
          SetAsks,    \* what callers of setattr ask for
          InUse       \* may a rename replace a name that is in use?

ASSUME MirrorMountAssumption ==
  /\ {RootNode, Elsewhere, NoNode} \cap (File \cup Pipe \cup Dir \cup Soft) = {}
  /\ NoNode \notin {RootNode, Elsewhere}
  /\ Soft \cap (File \cup Pipe \cup Dir) = {}
  /\ Threads \cup {MaxInode, MaxFd} \subseteq Nat \ {0}
  /\ RootName \notin Name /\ Special \subseteq Name
  /\ \A set \in SetAsks :
       set \subseteq {"mode", "owner", "size", "atime", "mtime", "mixed"}
  /\ InUse \in BOOLEAN

(* A process waits for the answer to its request. *)
Caller == User \cup Namer

Data == {"entry"}
mapper == INSTANCE InodeMap
Root == 1
Node == File \cup Pipe \cup Dir \cup Soft
OfKind == [file |-> File, fifo |-> Pipe, dir |-> Dir, link |-> Soft]
Fd == 0 .. MaxFd
NoFd == MaxFd + 1

VARIABLES threads,  \* size of the pool
          host,     \* entry and desc: the node of a name and of a descriptor
          map,      \* the resolver's InodeMapper
          queue,    \* of the thread pool: the callers that wait
          call,     \* Caller -> its request
          dent,     \* kernel: name -> inode number, 0 without one
          means,    \* kernel: number -> the node it was told of
          files     \* kernel: open files

kernel == <<dent, means, files>>
vars == <<readonly, threads, host, map, queue, call, dent, means, files>>

(* num, name, newname, fd: what the request names; at Begin the name of a
   request by number becomes the path its number resolves to.  own: the
   descriptor the request has to give on or to close, found: the node that
   an entry is answered for.  Ghosts: node is the node that the kernel
   means, raced says whether the name changed meanwhile, stray whether a
   call reached another node although it did not, did the attributes set. *)
NoCall == [step |-> "idle", num |-> Root, name |-> RootName,
           newname |-> RootName, fd |-> NoFd, kind |-> "file", set |-> {},
           script |-> <<>>, reply |-> "none", lock |-> "none", own |-> NoFd,
           found |-> NoNode, node |-> NoNode, raced |-> FALSE,
           stray |-> FALSE, did |-> {}]

Init ==
  /\ readonly \in BOOLEAN
  /\ threads \in Threads
  /\ \E given \in [Name -> Node \cup {NoNode}] :
       /\ \A n, o \in Name : n # o /\ given[n] # NoNode => given[n] # given[o]
       /\ \A n \in Name : given[n] \in File \cup {NoNode} \/ n \in Special
       /\ host = [entry |-> [n \in Name \cup {RootName} |->
                               IF n = RootName THEN RootNode ELSE given[n]],
                  desc |-> [d \in Fd |-> IF d = 0 THEN Elsewhere ELSE NoNode]]
  /\ map = mapper!NewMap("entry")
  /\ queue = <<>>
  /\ call = [c \in Caller |-> NoCall]
  /\ dent = [n \in Name |-> 0]
  /\ means = [i \in 1 .. MaxInode |-> IF i = Root THEN RootNode ELSE NoNode]
  /\ files = {}

-----------------------------------------------------------------------------
(* The kernel's side of a request. *)
Busy(c) == call[c].step # "idle"
Running(c) == call[c].step = "running"

(* The lock of the directory: a request that changes it has it alone. *)
Lockable(lock) ==
  \A c \in Caller : Busy(c) =>
    ~ (lock = "exclusive" /\ call[c].lock # "none")
    /\ ~ (lock # "none" /\ call[c].lock = "exclusive")

(* A number for a new name, in case every entry asked for gets one. *)
RoomFor(n) ==
  \/ mapper!Listed(map, Root, n)
  \/ map.next_inode + Cardinality({c \in Caller : call[c].reply \in {"entry", "created"}})
       <= MaxInode

(* execute_task *)
Send(c, r) ==
  /\ ~ Busy(c)
  /\ Lockable(r.lock)
  /\ call' = [call EXCEPT ![c] = [r EXCEPT !.step = "queued"]]
  /\ queue' = Append(queue, c)
  /\ UNCHANGED <<readonly, threads, host, map, dent, means>>

Asks(c, r) == Send(c, r) /\ UNCHANGED files

OnName(n, lock, reply, script) ==
  [NoCall EXCEPT !.name = n, !.newname = n, !.lock = lock, !.reply = reply,
                 !.script = script]
OnNumber(i, reply, script) ==
  [NoCall EXCEPT !.num = i, !.node = means[i], !.reply = reply,
                 !.script = script]
OnFile(f, script) ==
  [NoCall EXCEPT !.num = f.num, !.fd = f.fd, !.node = f.node,
                 !.script = script]

Used == {f.num : f \in files} \cup {call[c].num : c \in Caller}
Taken == {mapper!Child(map, Root, call[c].newname) :
            c \in {d \in Caller : call[d].reply = "renamed"}}
Usable == ({dent[n] : n \in Name} \ {0}) \ (IF InUse THEN {} ELSE Taken)

(* A number is used by path only while it has a name: what fstat(2) does
   to a file that is open but removed is left out. *)
ByNumber(c, script) ==
  \E i \in Usable : Asks(c, OnNumber(i, "none", script))
ByFile(c, script) == \E f \in files : Asks(c, OnFile(f, script))
OnRoot(c, reply, script) == Asks(c, OnNumber(Root, reply, script))

Access(c)      == ByNumber(c, access)
Getxattr(c)    == ByNumber(c, getxattr)
Listxattr(c)   == ByNumber(c, listxattr)
Readlink(c)    == ByNumber(c, readlink)
Statfs(c)      == ByNumber(c, statfs)
Setxattr(c)    == ByNumber(c, setxattr)
Removexattr(c) == ByNumber(c, removexattr)
Getattr(c)     == ByNumber(c, getattr)
Bmap(c)        == ByNumber(c, bmap)
Ioctl(c)       == ByNumber(c, ioctl)
Link(c)        == ByNumber(c, link)

Setattr(c) ==
  \E i \in Usable, set \in SetAsks :
    /\ "size" \in set => means[i] \in File
    /\ Asks(c, [OnNumber(i, "attr", setattr(set)) EXCEPT !.set = set])

Open(c) ==
  \E i \in Usable : /\ means[i] \in File
                   /\ Asks(c, OnNumber(i, "opened", open))

Read(c)      == ByFile(c, read("start"))
Write(c)     == ByFile(c, write("start"))
Flush(c)     == ByFile(c, flush)
Fsync(c)     == ByFile(c, fsync)
Fallocate(c) == ByFile(c, fallocate)
Getlk(c)     == ByFile(c, getlk)
Setlk(c)     == ByFile(c, setlk)
CopyFileRange(c) == ByFile(c, copy_file_range)

(* A kernel asks only for SEEK_DATA and SEEK_HOLE, for which seek_from_raw
   panics before the handler is called. *)
Lseek(c) == ByFile(c, <<"panic">>)

(* The handle goes back to the handler, once and when nothing uses it. *)
Release(c) ==
  \E f \in files :
    /\ \A d \in Caller : call[d].fd # f.fd
    /\ Send(c, [OnFile(f, release) EXCEPT !.own = f.fd])
    /\ files' = files \ {f}

Opendir(c)     == OnRoot(c, "none", opendir)
Fsyncdir(c)    == OnRoot(c, "none", fsyncdir)
Readdir(c)     == Asks(c, [OnNumber(Root, "none", readdir) EXCEPT !.lock = "shared"])
Readdirplus(c) == Asks(c, [OnNumber(Root, "none", readdirplus) EXCEPT !.lock = "shared"])

(* The kernel gives back handle 0, which opendir answered. *)
Releasedir(c) ==
  Asks(c, [OnNumber(Root, "none", releasedir) EXCEPT !.own = 0])

Lookup(c) ==
  \E n \in Name :
    /\ RoomFor(n)
    /\ Asks(c, OnName(n, "shared", "entry", lookup))

(* Callers make a name they know nothing of, and a special file only under
   a name of Special. *)
New(c, n, kind, reply, script) ==
  /\ dent[n] = 0
  /\ RoomFor(n)
  /\ kind # "file" => n \in Special
  /\ Asks(c, [OnName(n, "exclusive", reply, script) EXCEPT !.kind = kind])

Create(c)  == \E n \in Name : New(c, n, "file", "created", create)
Mknod(c)   == \E n \in Name : New(c, n, "fifo", "entry", mknod)
Mkdir(c)   == \E n \in Name : New(c, n, "dir", "entry", mkdir)
Symlink(c) == \E n \in Name : New(c, n, "link", "entry", symlink)

Old(c, n, script) ==
  /\ dent[n] # 0
  /\ Asks(c, OnName(n, "exclusive", "removed", script))

Unlink(c) == \E n \in Name : Old(c, n, unlink)
Rmdir(c)  == \E n \in Name : Old(c, n, rmdir)

(* InodeMapper loses an entry that is moved where nothing else is listed:
   callers rename only onto names that are.  The number listed there is
   taken away; unless InUse, no open file and no request has it. *)
Rename(c) ==
  \E o, n \in Name :
    /\ o # n /\ dent[o] # 0
    /\ mapper!Listed(map, Root, n)
    /\ InUse \/ mapper!Child(map, Root, n) \notin Used
    /\ Asks(c, [OnName(o, "exclusive", "renamed", rename) EXCEPT !.newname = n])

UseFiles(c) ==
  \/ Access(c) \/ Getxattr(c) \/ Listxattr(c) \/ Readlink(c) \/ Statfs(c)
  \/ Setxattr(c) \/ Removexattr(c) \/ Getattr(c) \/ Setattr(c) \/ Bmap(c)
  \/ Ioctl(c) \/ Link(c) \/ Open(c) \/ Read(c) \/ Write(c) \/ Flush(c)
  \/ Fsync(c) \/ Fallocate(c) \/ Getlk(c) \/ Setlk(c) \/ CopyFileRange(c)
  \/ Lseek(c) \/ Release(c) \/ Opendir(c) \/ Fsyncdir(c) \/ Readdir(c)
  \/ Readdirplus(c) \/ Releasedir(c)

ChangeNames(c) ==
  \/ Lookup(c) \/ Create(c) \/ Mknod(c) \/ Mkdir(c) \/ Symlink(c)
  \/ Unlink(c) \/ Rmdir(c) \/ Rename(c)

-----------------------------------------------------------------------------
(* What the kernel goes on knowing. *)
Held(d, fs) == {Root} \cup {d[n] : n \in Name} \cup {f.num : f \in fs}
Recall(d, m, fs) ==
  /\ dent' = d
  /\ files' = fs
  /\ means' = [i \in 1 .. MaxInode |-> IF i \in Held(d, fs) THEN m[i] ELSE NoNode]

End(c) == call' = [call EXCEPT ![c] = NoCall]

(* An error, also for a request whose worker panics: a name that was looked
   up is not there. *)
Refused(c) ==
  /\ End(c)
  /\ Recall(IF call[c].script # <<>> /\ call[c].lock = "shared" /\ call[c].reply = "entry"
            THEN [dent EXCEPT ![call[c].name] = 0] ELSE dent, means, files)
  /\ UNCHANGED <<readonly, threads, map, queue>>

Changes(r) == IF r.lock = "exclusive" THEN {r.name, r.newname} ELSE {}

(* resolve_id: the expect fails when the number is not in the mapper. *)
Resolved(i) ==
  IF i \in mapper!Present(map) THEN {map.inodes[i].name} ELSE {}

(* Mutant: the request that a worker takes stays in the queue. *)
RestAll == queue

Rest == Tail(queue)

Begin(c) ==
  /\ queue # <<>> /\ c = Head(queue)
  /\ Cardinality({d \in Caller : Running(d)}) < threads
  /\ queue' = Rest
  /\ \/ /\ Resolved(call[c].num) = {}
        /\ End(c)
     \/ \E p \in Resolved(call[c].num) :
          LET r == [call[c] EXCEPT !.step = "running",
                                   !.name = IF call[c].num = Root THEN @ ELSE p]
          IN  call' = [d \in Caller |->
                IF d = c
                THEN [r EXCEPT !.raced = r.node \in Node /\ \E e \in Caller :
                        Running(e) /\ r.name \in Changes(call[e])]
                ELSE [call[d] EXCEPT !.raced =
                        @ \/ (/\ Running(d) /\ call[d].node \in Node
                              /\ call[d].name \in Changes(call[c]))]]
  /\ UNCHANGED <<readonly, threads, host, map, dent, means, files>>

-----------------------------------------------------------------------------
(* System calls, each with what it does when it succeeds. *)
Turn(c, s) == Running(c) /\ call[c].script # <<>> /\ Head(call[c].script) = s

Succeeds(c, h, r) ==
  /\ host' = h
  /\ call' = [call EXCEPT ![c] = [r EXCEPT !.script = Tail(@)]]
  /\ UNCHANGED <<readonly, threads, map, queue, dent, means, files>>

At(c) == host.entry[call[c].name]

(* What is known of a request when one of its calls has reached node v. *)
Hit(r, v) ==
  [r EXCEPT !.found = IF r.reply \in {"entry", "created"} THEN v ELSE NoNode,
            !.stray = @ \/ (/\ ~ r.raced /\ r.node \in Node
                            /\ v # r.node /\ r.node \notin Soft)]

Sets(s) == CASE s = "chmod" -> {"mode"} [] s = "chown" -> {"owner"}
             [] s = "ftruncate" -> {"size"}
             [] s = "utimensat" -> {"atime", "mtime"} [] OTHER -> {}

(* open, chmod and chown follow a link; lstat and utimensat do not. *)
Followed(v) == IF v \in Soft THEN Elsewhere ELSE v

PathCall(c) ==
  \E s \in {"lstat", "look", "mark", "chmod", "chown", "utimensat"} :
    /\ Turn(c, s)
    /\ At(c) # NoNode
    /\ Succeeds(c, host, [Hit(call[c], IF s \in {"chmod", "chown"}
                                       THEN Followed(At(c)) ELSE At(c))
                          EXCEPT !.did = @ \cup Sets(s)])

(* The kernel gives the lowest descriptor that is free, if there is one. *)
Free == {d \in Fd : host.desc[d] = NoNode}

Opens(c, h, v) ==
  /\ Free # {}
  /\ LET d == Min(Free)
     IN  Succeeds(c, [h EXCEPT !.desc[d] = v],
                  [Hit(call[c], v) EXCEPT !.own = d])

OpenCall(c) ==
  /\ Turn(c, "open")
  /\ At(c) # NoNode /\ At(c) \notin Pipe
  /\ Opens(c, host, Followed(At(c)))

(* Opening a pipe waits for the other end, which nobody opens. *)
OpenWaits(c) ==
  /\ Turn(c, "open")
  /\ At(c) \in Pipe
  /\ call' = [call EXCEPT ![c].script = <<"wait">>]
  /\ UNCHANGED <<readonly, threads, host, map, queue, dent, means, files>>

Nodes == {host.entry[n] : n \in Name} \cup {host.desc[d] : d \in Fd}
          \cup {means[i] : i \in 1 .. MaxInode}
          \cup UNION {{call[c].node, call[c].found} : c \in Caller}
          \cup {f.node : f \in files}

(* Nodes for what the request makes, and the directory with it. *)
Unmade(c) == OfKind[call[c].kind] \ Nodes
Made(c, v) == [host EXCEPT !.entry[call[c].name] = v]

MakeCall(c) ==
  /\ Turn(c, "make")
  /\ At(c) = NoNode
  /\ \E v \in Unmade(c) : Succeeds(c, Made(c, v), call[c])

(* O_CREAT without O_EXCL: what is there is opened. *)
CreatCall(c) ==
  /\ Turn(c, "creat")
  /\ \/ At(c) \in File /\ Opens(c, host, At(c))
     \/ At(c) = NoNode /\ \E v \in Unmade(c) : Opens(c, Made(c, v), v)

RemoveCall(c) ==
  \E s \in {"unlink", "rmdir"} :
    /\ Turn(c, s)
    /\ At(c) # NoNode /\ (At(c) \in Dir) = (s = "rmdir")
    /\ Succeeds(c, [host EXCEPT !.entry[call[c].name] = NoNode], call[c])

RenameCall(c) ==
  /\ Turn(c, "rename")
  /\ At(c) # NoNode
  /\ LET v == host.entry[call[c].newname]
     IN  v # NoNode => (v \in Dir) = (At(c) \in Dir)
  /\ Succeeds(c, [host EXCEPT !.entry[call[c].name] = NoNode,
                              !.entry[call[c].newname] = At(c)], call[c])

(* On the descriptor the request opened itself. *)
OwnCall(c) ==
  \E s \in {"fstat", "ftruncate", "getdents"} :
    /\ Turn(c, s)
    /\ Succeeds(c, host, [Hit(call[c], host.desc[call[c].own])
                          EXCEPT !.did = @ \cup Sets(s)])

CloseCall(c) ==
  /\ Turn(c, "close")
  /\ host.desc[call[c].own] # NoNode
  /\ Succeeds(c, [host EXCEPT !.desc[call[c].own] = NoNode],
              [Hit(call[c], host.desc[call[c].own]) EXCEPT !.own = NoFd])

(* On the descriptor that is the handle. *)
HandleCall(c) ==
  \E s \in {"pread", "pwrite"} :
    /\ Turn(c, s)
    /\ host.desc[call[c].fd] # NoNode
    /\ Succeeds(c, host, Hit(call[c], host.desc[call[c].fd]))

(* Mutant: no answer follows the panic of a handler. *)
MayFailNoPanic(c) ==
  Running(c) /\ call[c].script # <<>> /\ Head(call[c].script) \notin {"wait", "panic"}

MayFail(c) ==
  Running(c) /\ call[c].script # <<>> /\ Head(call[c].script) # "wait"

(* The error of any call, or the panic of the request: what the function
   opened is closed, and so is what a failed close was given. *)
CallFails(c) ==
  /\ MayFail(c)
  /\ host' = IF call[c].own \in Fd \ {0}
             THEN [host EXCEPT !.desc[call[c].own] = NoNode] ELSE host
  /\ Refused(c)

SystemCall(c) ==
  \/ PathCall(c) \/ OpenCall(c) \/ OpenWaits(c) \/ MakeCall(c) \/ CreatCall(c)
  \/ RemoveCall(c) \/ RenameCall(c) \/ OwnCall(c) \/ CloseCall(c)
  \/ HandleCall(c) \/ CallFails(c)

-----------------------------------------------------------------------------
(* The replies, and what the kernel makes of them. *)
Ready(c, reply) ==
  /\ Running(c) /\ call[c].script = <<>> /\ call[c].reply = reply
  /\ End(c)
  /\ UNCHANGED <<readonly, threads, host, queue>>

(* resolver.lookup, then reply.entry and reply.created. *)
EntryReply(c, opened) ==
  LET r  == call[c]
      m  == IF mapper!Listed(map, Root, r.name) THEN map
            ELSE mapper!Insert(map, Root, r.name, "entry")
      i  == mapper!Child(m, Root, r.name)
  IN  /\ map' = m
      /\ Recall([dent EXCEPT ![r.name] = i], [means EXCEPT ![i] = r.found],
                IF opened THEN files \cup {[fd |-> r.own, num |-> i, node |-> r.found]}
                ELSE files)

AnswerEntry(c)   == Ready(c, "entry") /\ EntryReply(c, FALSE)
AnswerCreated(c) == Ready(c, "created") /\ EntryReply(c, TRUE)

(* A file that was opened while its name changed may be another one. *)
AnswerOpened(c) ==
  LET r == call[c]
      v == IF r.raced THEN host.desc[r.own] ELSE r.node
  IN  /\ Ready(c, "opened")
      /\ Recall(dent, means, files \cup {[fd |-> r.own, num |-> r.num, node |-> v]})
      /\ UNCHANGED map

(* Mutant: the resolver is not told. *)
AnswerRenamedUntold(c) ==
  /\ Ready(c, "renamed")
  /\ Recall([dent EXCEPT ![call[c].name] = 0,
                         ![call[c].newname] = dent[call[c].name]], means, files)
  /\ UNCHANGED map

(* resolver.rename *)
AnswerRenamed(c) ==
  LET o == call[c].name
      n == call[c].newname
  IN  /\ Ready(c, "renamed")
      /\ map' = mapper!Moved(map, Root, o, Root, n)
      /\ Recall([dent EXCEPT ![o] = 0, ![n] = dent[o]], means, files)

(* unlink and rmdir do not tell the resolver. *)
AnswerRemoved(c) ==
  /\ Ready(c, "removed")
  /\ Recall([dent EXCEPT ![call[c].name] = 0], means, files)
  /\ UNCHANGED map

AnswerOther(c) ==
  /\ \E reply \in {"none", "attr"} : Ready(c, reply)
  /\ UNCHANGED <<map, dent, means, files>>

Answer(c) ==
  \/ AnswerEntry(c) \/ AnswerCreated(c) \/ AnswerOpened(c)
  \/ AnswerRenamed(c) \/ AnswerRemoved(c) \/ AnswerOther(c)

Serve(c) == Begin(c) \/ SystemCall(c) \/ Answer(c)

Next ==
  \/ \E c \in User : ~ Busy(c) /\ UseFiles(c)
  \/ \E c \in Namer : ~ Busy(c) /\ ChangeNames(c)
  \/ \E c \in Caller : Serve(c)

(* A worker that can go on does. *)
Spec == Init /\ [][Next]_vars /\ \A c \in Caller : WF_vars(Serve(c))

-----------------------------------------------------------------------------
(* The tables have their shape, the queue holds the callers that wait, and
   no more requests run than the pool has threads. *)
TypeOK ==
  /\ host.entry \in [Name \cup {RootName} -> Node \cup {NoNode, RootNode}]
  /\ host.desc \in [Fd -> Node \cup {NoNode, RootNode, Elsewhere}]
  /\ dent \in [Name -> 0 .. MaxInode]
  /\ means \in [1 .. MaxInode -> Node \cup {NoNode, RootNode}]
  /\ files \subseteq [fd : Fd, num : 1 .. MaxInode, node : Node \cup {Elsewhere}]
  /\ \A c \in Caller :
       call[c].step = "queued" <=> \E k \in DOMAIN queue : queue[k] = c
  /\ Len(queue) = Cardinality({c \in Caller : call[c].step = "queued"})
  /\ Cardinality({c \in Caller : Running(c)}) <= threads

(* Every descriptor that the process has open has one owner: the request
   that opened it or was given it to release, or the file the kernel holds.
   OwnedFd, into_raw_fd and FileHandle::from_owned_fd pass it on through
   open, create, setattr, getattr and release, whatever call fails. *)
DescriptorsOwned ==
  \A d \in Fd \ {0} :
    LET owners == {c \in Caller : call[c].own = d}
        given == {f \in files : f.fd = d}
    IN  Cardinality(owners) + Cardinality(given) = IF host.desc[d] = NoNode THEN 0 ELSE 1

(* A handle that open or create answered stands, until its release, for the
   file the kernel opened, and the handle 0 of opendir for nothing of the
   handler's: no request closes what the process has under that number. *)
HandleMeansFile ==
  /\ \A f \in files : host.desc[f.fd] = f.node
  /\ host.desc[0] = Elsewhere

(* Unless its name changes while a request runs, the path that the resolver
   gives for its number leads to the file the kernel asked about, or to
   what a symbolic link in its place names. *)
RightFile == \A c \in Caller : ~ call[c].stray

(* While no request changes it, a name the kernel knows is the name the
   resolver has for its number, and leads to the file of that number. *)
KernelAgrees ==
  \A n \in Name :
    (dent[n] # 0 /\ ~ \E c \in Caller : Busy(c) /\ n \in Changes(call[c])) =>
      /\ mapper!Listed(map, Root, n) /\ mapper!Child(map, Root, n) = dent[n]
      /\ host.entry[n] = means[dent[n]]

(* A setattr that is going to be answered with attributes has set all that
   it was asked for, although it takes several system calls. *)
SetIsReported ==
  \A c \in Caller :
    (Running(c) /\ call[c].reply = "attr" /\ call[c].script = <<>>)
      => (call[c].set \ {"mixed"}) \subseteq call[c].did

Altering == {"make", "creat", "unlink", "rmdir", "rename", "chmod", "chown",
             "ftruncate", "utimensat", "mark", "pwrite"}

(* No method of MirrorFsReadOnly, its own or forwarded, makes a system call
   that changes the host's files. *)
ReadOnlyKeeps ==
  readonly => \A c \in Caller : \A k \in DOMAIN call[c].script :
                call[c].script[k] \notin Altering

Waits(c) == Running(c) /\ call[c].script = <<"wait">>

(* Every request is answered, also when a call fails or the handler panics,
   unless it opens a pipe, or all the threads of the pool do. *)
Answered ==
  \A c \in Caller :
    Busy(c) ~> (\/ ~ Busy(c) \/ Waits(c)
                \/ Cardinality({d \in Caller : Waits(d)}) = threads)
=============================================================================
