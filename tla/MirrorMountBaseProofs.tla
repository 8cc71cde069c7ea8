------------------------ MODULE MirrorMountBaseProofs ------------------------
(***************************************************************************)
(* A mounted MirrorFs, for any number of processes and threads and every   *)
(* bound: what a request may be and have left to do (Base), and what an    *)
(* entry is answered with (Kept).  The other layers of the proof, in       *)
(* MirrorMountProofs, rely on these two.                                   *)
(***************************************************************************)
EXTENDS MirrorMount, NumberInduction, SequenceTheorems, FiniteSetTheorems, TLAPS

-----------------------------------------------------------------------------
(* Scripts: the system calls a request has left to make. *)

Left(s) == {s[k] : k \in DOMAIN s}

Opening == {"open", "creat"}
Renaming == {"make", "creat", "unlink", "rmdir", "rename"}
OnOwn == {"fstat", "ftruncate", "getdents", "close"}
Never == {"refuse", "panic", "wait"}

(* The system calls of a method, the errors and panics of no call, and the
   wait for the other end of a pipe. *)
SysCall == {"lstat", "look", "mark", "chmod", "chown", "utimensat", "open",
            "creat", "make", "unlink", "rmdir", "rename", "fstat", "ftruncate",
            "getdents", "close", "pread", "pwrite", "lseek", "refuse", "panic",
            "wait"}

IsScript(s) ==
  /\ s \in Seq(SysCall)
  /\ \A j, k \in DOMAIN s :
       /\ s[j] = s[k] => j = k
       /\ j < k /\ s[j] \in OnOwn => s[k] \notin Opening
       /\ j < k /\ s[j] = "lstat" => s[k] \notin Renaming
       /\ j < k /\ s[j] = "close" => s[k] \notin OnOwn

(* Nothing is left of the empty script. *)
LEMMA EmptyScript == IsScript(<<>>) /\ Left(<<>>) = {}
BY DEF IsScript, Left

(* The script of one call. *)
LEMMA OneCall == ASSUME NEW x \in SysCall PROVE IsScript(<<x>>) /\ Left(<<x>>) = {x}
BY DEF IsScript, Left

(* Scripts in sequence are a script, if no call is in both and the order of
   what is opened, used and closed is kept. *)
LEMMA Joined ==
  ASSUME NEW a, NEW b, IsScript(a), IsScript(b), Left(a) \cap Left(b) = {},
         Left(a) \cap OnOwn = {} \/ Left(b) \cap Opening = {},
         "lstat" \notin Left(a) \/ Left(b) \cap Renaming = {},
         "close" \notin Left(a) \/ Left(b) \cap OnOwn = {}
  PROVE  IsScript(a \o b) /\ Left(a \o b) = Left(a) \cup Left(b)
<1>. DEFINE s == a \o b
            m == Len(a)
            n == Len(b)
<1>1. /\ a \in Seq(SysCall) /\ b \in Seq(SysCall) /\ s \in Seq(SysCall)
      /\ m \in Nat /\ n \in Nat /\ Len(s) = m + n
      /\ DOMAIN a = 1 .. m /\ DOMAIN b = 1 .. n /\ DOMAIN s = 1 .. m + n
      /\ \A k \in 1 .. m : s[k] = a[k]
      /\ \A k \in 1 .. n : s[m + k] = b[k]
  BY DEF IsScript
<1>. HIDE DEF s, m, n
<1>2. ASSUME NEW k \in DOMAIN s
      PROVE  \/ k \in DOMAIN a /\ s[k] = a[k] /\ s[k] \in Left(a)
             \/ /\ k - m \in DOMAIN b /\ s[k] = b[k - m] /\ s[k] \in Left(b)
                /\ k > m
  <2>1. CASE k \in 1 .. m
    BY <1>1, <2>1 DEF Left
  <2>2. CASE k \notin 1 .. m
    <3>1. k - m \in 1 .. n /\ m + (k - m) = k /\ k > m
      BY <1>1, <2>2
    <3>2. s[k] = b[k - m]
      BY <1>1, <3>1
    <3>. QED
      BY <1>1, <3>1, <3>2 DEF Left
  <2>. QED
    BY <2>1, <2>2
<1>3. Left(s) = Left(a) \cup Left(b)
  <2>1. Left(s) \subseteq Left(a) \cup Left(b)
    BY <1>2 DEF Left
  <2>2. Left(a) \subseteq Left(s)
    BY <1>1 DEF Left
  <2>3. ASSUME NEW k \in DOMAIN b PROVE b[k] \in Left(s)
    <3>1. m + k \in DOMAIN s /\ s[m + k] = b[k]
      BY <1>1
    <3>. QED
      BY <3>1 DEF Left
  <2>. QED
    BY <2>1, <2>2, <2>3 DEF Left
<1>4. ASSUME NEW j \in DOMAIN s, NEW k \in DOMAIN s
      PROVE  /\ s[j] = s[k] => j = k
             /\ j < k /\ s[j] \in OnOwn => s[k] \notin Opening
             /\ j < k /\ s[j] = "lstat" => s[k] \notin Renaming
             /\ j < k /\ s[j] = "close" => s[k] \notin OnOwn
  <2>0. j \in Int /\ k \in Int /\ m \in Int
    BY <1>1
  <2>1. CASE j \in DOMAIN a /\ k \in DOMAIN a
    BY <1>1, <2>1 DEF IsScript
  <2>2. CASE j \notin DOMAIN a /\ k \notin DOMAIN a
    <3>1. j - m \in DOMAIN b /\ k - m \in DOMAIN b /\ s[j] = b[j - m] /\ s[k] = b[k - m]
      BY <1>2, <2>2
    <3>2. /\ b[j - m] = b[k - m] => j - m = k - m
          /\ j - m < k - m /\ b[j - m] \in OnOwn => b[k - m] \notin Opening
          /\ j - m < k - m /\ b[j - m] = "lstat" => b[k - m] \notin Renaming
          /\ j - m < k - m /\ b[j - m] = "close" => b[k - m] \notin OnOwn
      BY <3>1 DEF IsScript
    <3>. QED
      BY <2>0, <3>1, <3>2
  <2>3. CASE j \in DOMAIN a /\ k \notin DOMAIN a
    <3>1. s[j] \in Left(a) /\ s[k] \in Left(b)
      BY <1>1, <1>2, <2>3 DEF Left
    <3>. QED
      BY <3>1
  <2>4. CASE j \notin DOMAIN a /\ k \in DOMAIN a
    <3>1. s[j] \in Left(b) /\ s[k] \in Left(a) /\ j > m /\ k <= m
      BY <1>1, <1>2, <2>4 DEF Left
    <3>. QED
      BY <2>0, <3>1
  <2>. QED
    BY <2>1, <2>2, <2>3, <2>4
<1>. QED
  BY <1>1, <1>3, <1>4 DEF IsScript, s

(* A script is empty when nothing is left of it. *)
LEMMA Done == ASSUME NEW s, IsScript(s) PROVE s = <<>> <=> Left(s) = {}
<1>1. s \in Seq(SysCall) /\ DOMAIN s = 1 .. Len(s) /\ Len(s) \in Nat
  BY DEF IsScript
<1>2. s # <<>> => s[1] \in Left(s)
  BY <1>1 DEF Left
<1>. QED
  BY <1>2, EmptyScript

(* What is left after the first call. *)
LEMMA OneLess ==
  ASSUME NEW s, IsScript(s), s # <<>>
  PROVE  /\ IsScript(Tail(s))
         /\ Head(s) \in Left(s)
         /\ Left(Tail(s)) = Left(s) \ {Head(s)}
         /\ Head(s) \in OnOwn => Left(s) \cap Opening = {}
         /\ Head(s) = "lstat" => Left(s) \cap Renaming = {}
         /\ Head(s) = "close" => Left(s) \cap OnOwn = {"close"}
<1>. DEFINE t == Tail(s)
            n == Len(s)
<1>1. /\ s \in Seq(SysCall) /\ n \in Nat /\ n >= 1 /\ DOMAIN s = 1 .. n
      /\ Head(s) = s[1] /\ t \in Seq(SysCall) /\ DOMAIN t = 1 .. n - 1
      /\ \A k \in 1 .. n - 1 : t[k] = s[k + 1]
  BY HeadTailProperties DEF IsScript
<1>2. \A j, k \in DOMAIN s :
        /\ s[j] = s[k] => j = k
        /\ j < k /\ s[j] \in OnOwn => s[k] \notin Opening
        /\ j < k /\ s[j] = "lstat" => s[k] \notin Renaming
        /\ j < k /\ s[j] = "close" => s[k] \notin OnOwn
  BY DEF IsScript
<1>. HIDE DEF t, n
<1>3. \A k \in DOMAIN t : k \in Int /\ k + 1 \in DOMAIN s /\ t[k] = s[k + 1] /\ k + 1 # 1
  BY <1>1
<1>4. \A k \in DOMAIN s : k # 1 => k - 1 \in DOMAIN t /\ (k - 1) + 1 = k /\ 1 < k
  BY <1>1
<1>5. 1 \in DOMAIN s
  BY <1>1
<1>6. IsScript(t)
  <2>1. ASSUME NEW j \in DOMAIN t, NEW k \in DOMAIN t
        PROVE  /\ t[j] = t[k] => j = k
               /\ j < k /\ t[j] \in OnOwn => t[k] \notin Opening
               /\ j < k /\ t[j] = "lstat" => t[k] \notin Renaming
               /\ j < k /\ t[j] = "close" => t[k] \notin OnOwn
    <3>1. /\ j \in Int /\ k \in Int
          /\ j + 1 \in DOMAIN s /\ k + 1 \in DOMAIN s
          /\ t[j] = s[j + 1] /\ t[k] = s[k + 1]
      BY <1>3
    <3>2. /\ s[j + 1] = s[k + 1] => j + 1 = k + 1
          /\ j + 1 < k + 1 /\ s[j + 1] \in OnOwn => s[k + 1] \notin Opening
          /\ j + 1 < k + 1 /\ s[j + 1] = "lstat" => s[k + 1] \notin Renaming
          /\ j + 1 < k + 1 /\ s[j + 1] = "close" => s[k + 1] \notin OnOwn
      BY <1>2, <3>1
    <3>. QED
      BY <3>1, <3>2
  <2>. QED
    BY <1>1, <2>1 DEF IsScript
<1>7. Head(s) \in Left(s)
  BY <1>1, <1>5 DEF Left
<1>8. Left(t) \subseteq Left(s) \ {Head(s)}
  BY <1>1, <1>2, <1>3, <1>5 DEF Left
<1>9. Left(s) \ {Head(s)} \subseteq Left(t)
  <2>1. ASSUME NEW k \in DOMAIN s, s[k] # Head(s) PROVE s[k] \in Left(t)
    <3>1. k - 1 \in DOMAIN t /\ (k - 1) + 1 = k
      BY <1>1, <1>4, <2>1
    <3>2. t[k - 1] = s[k]
      BY <1>3, <3>1
    <3>. QED
      BY <3>1, <3>2 DEF Left
  <2>. QED
    BY <2>1 DEF Left
<1>10. ASSUME NEW k \in DOMAIN s
       PROVE  /\ Head(s) \in OnOwn => s[k] \notin Opening
              /\ Head(s) = "lstat" => s[k] \notin Renaming
              /\ Head(s) = "close" => s[k] \notin OnOwn \/ s[k] = "close"
  <2>1. OnOwn \cap Opening = {} /\ "lstat" \notin Renaming
    BY DEF OnOwn, Opening, Renaming
  <2>. QED
    BY <1>1, <1>2, <1>4, <1>5, <2>1
<1>11. "close" \in OnOwn
  BY DEF OnOwn
<1>. QED
  BY <1>6, <1>7, <1>8, <1>9, <1>10, <1>11 DEF Left, t

-----------------------------------------------------------------------------
(* The resolver's map: the facts of InodeMapProofs, about this map. *)

MP == INSTANCE InodeMapProofs

(* The map here is the one of InodeMapProofs, operator by operator. *)
LEMMA SamePut == \A f, k, v : MP!Put(f, k, v) = mapper!Put(f, k, v)
BY DEF MP!Put, mapper!Put
LEMMA SameWithout == \A f, S : MP!Without(f, S) = mapper!Without(f, S)
BY DEF MP!Without, mapper!Without, MP!Restrict, mapper!Restrict
LEMMA SameChildren ==
  /\ \A m, d : MP!Children(m, d) = mapper!Children(m, d)
  /\ \A m, d, n : MP!Listed(m, d, n) <=> mapper!Listed(m, d, n)
  /\ \A m, d, n : MP!Child(m, d, n) = mapper!Child(m, d, n)
  /\ \A m : MP!Present(m) = mapper!Present(m)
BY DEF MP!Children, mapper!Children, MP!Nothing, mapper!Nothing, MP!Listed, mapper!Listed,
       MP!Child, mapper!Child, MP!Present, mapper!Present
LEMMA SameInsert == \A m, p, n, d : MP!Insert(m, p, n, d) = mapper!Insert(m, p, n, d)
BY SamePut, SameChildren DEF MP!Insert, mapper!Insert
LEMMA SameNewMap == \A d : MP!NewMap(d) = mapper!NewMap(d)
BY SamePut DEF MP!NewMap, mapper!NewMap, MP!Nothing, mapper!Nothing, MP!Root, mapper!Root
LEMMA SameUnlink == \A f, d, n : MP!Unlink(f, d, n) = mapper!Unlink(f, d, n)
BY SameWithout DEF MP!Unlink, mapper!Unlink
LEMMA SameReplaced == \A f, d, n : MP!Replaced(f, d, n) = mapper!Replaced(f, d, n)
BY DEF MP!Replaced, mapper!Replaced
LEMMA SameMoved == \A m, p, o, q, n : MP!Moved(m, p, o, q, n) = mapper!Moved(m, p, o, q, n)
BY SamePut, SameChildren, SameWithout, SameUnlink, SameReplaced DEF MP!Moved, mapper!Moved

GoodMap(m) ==
  /\ MP!SafeMap(m)
  /\ \A i \in mapper!Present(m) \ {Root} : m.inodes[i].name \in Name

(* A new mapper knows the root only. *)
LEMMA MapNew ==
  LET m == mapper!NewMap("entry")
  IN  /\ GoodMap(m) /\ Root \in mapper!Present(m) /\ m.next_inode = 2
      /\ \A n : ~ mapper!Listed(m, Root, n)
<1>. DEFINE m == mapper!NewMap("entry")
<1>1. MP!SafeMap(m)
  BY MP!NewMapSafe, MirrorMountAssumption, SameNewMap DEF Data
<1>2. /\ mapper!Present(m) = {Root} /\ m.next_inode = 2
      /\ DOMAIN m.children = {}
  BY DEF mapper!NewMap, mapper!Present, mapper!Put, mapper!Nothing, mapper!Root, Root
<1>. HIDE DEF m
<1>3. \A n : ~ mapper!Listed(m, Root, n)
  BY <1>2 DEF mapper!Listed, mapper!Children, mapper!Nothing
<1>. QED
  BY <1>1, <1>2, <1>3 DEF GoodMap, m

(* Numbers that are present have been given out. *)
LEMMA MapNumbers ==
  ASSUME NEW m, GoodMap(m)
  PROVE  /\ m.next_inode \in 1 .. MaxInode + 1
         /\ Root \in mapper!Present(m)
         /\ \A i \in mapper!Present(m) : i \in 1 .. MaxInode /\ i < m.next_inode
BY SameChildren, MP!SafeNumbers, MirrorMountAssumption
   DEF GoodMap, MP!SafeMap, MP!IsMap, MP!RootStays, MP!Root, Root, MP!Present, MP!Inode

(* A listed name has a number, which has that name. *)
LEMMA MapChild ==
  ASSUME NEW m, GoodMap(m), NEW n, mapper!Listed(m, Root, n)
  PROVE  LET i == mapper!Child(m, Root, n)
         IN  /\ n \in Name /\ i \in mapper!Present(m) \ {Root}
             /\ m.inodes[i].name = n
BY SameChildren, MP!ListedNames, MirrorMountAssumption DEF GoodMap, MP!Root, Root

(* Inserting a name that is not listed gives it the next number. *)
LEMMA MapInsert ==
  ASSUME NEW m, GoodMap(m), NEW n \in Name, ~ mapper!Listed(m, Root, n),
         m.next_inode <= MaxInode
  PROVE  LET r == mapper!Insert(m, Root, n, "entry")
         IN  /\ GoodMap(r)
             /\ mapper!Present(r) = mapper!Present(m) \cup {m.next_inode}
             /\ \A i \in mapper!Present(m) : r.inodes[i].name = m.inodes[i].name
             /\ \A k : mapper!Listed(r, Root, k) <=> mapper!Listed(m, Root, k) \/ k = n
             /\ \A k : mapper!Listed(m, Root, k) =>
                         mapper!Child(r, Root, k) = mapper!Child(m, Root, k)
             /\ mapper!Child(r, Root, n) = m.next_inode
             /\ r.next_inode = m.next_inode + 1
             /\ m.next_inode # Root
<1>. DEFINE r == MP!Insert(m, Root, n, "entry")
<1>0. /\ MP!SafeMap(m) /\ Root \in MP!Present(m) /\ ~ MP!Listed(m, Root, n) /\ MP!HasRoom(m)
      /\ "entry" \in Data
  BY MapNumbers, SameChildren DEF GoodMap, MP!HasRoom, Data
<1>1. MP!SafeMap(r) /\ MP!Present(r) = MP!Present(m) \cup {m.next_inode}
  BY <1>0, MP!InsertNewSafe, MirrorMountAssumption
<1>2. /\ \A e, k : MP!Listed(r, e, k) <=> MP!Listed(m, e, k) \/ (e = Root /\ k = n)
      /\ \A e, k : MP!Listed(m, e, k) => MP!Child(r, e, k) = MP!Child(m, e, k)
      /\ MP!Child(r, Root, n) = m.next_inode
  BY <1>0, MP!InsertListed, MirrorMountAssumption
<1>3. /\ \A i \in MP!Present(m) : r.inodes[i].name = m.inodes[i].name
      /\ m.next_inode \notin MP!Present(m)
  BY <1>0, MP!InsertPlaces, MirrorMountAssumption
<1>4. r.next_inode = m.next_inode + 1
  BY <1>0 DEF MP!Insert
<1>5. r.inodes[m.next_inode].name = n
  <2>1. MP!Listed(r, Root, n)
    BY <1>2
  <2>. QED
    BY <1>1, <1>2, <2>1, MP!ListedNames, MirrorMountAssumption
<1>. HIDE DEF r
<1>6. GoodMap(r)
  BY <1>1, <1>3, <1>5, SameChildren DEF GoodMap
<1>7. r = mapper!Insert(m, Root, n, "entry")
  BY SameInsert DEF r
<1>. QED
  BY <1>0, <1>1, <1>2, <1>3, <1>4, <1>6, <1>7, SameChildren

(* Moving a name onto another that is listed takes the other's number away,
   and changes nothing else. *)
LEMMA MapMoved ==
  ASSUME NEW m, GoodMap(m), NEW o, NEW n, o # n, mapper!Listed(m, Root, o),
         mapper!Listed(m, Root, n)
  PROVE  LET r == mapper!Moved(m, Root, o, Root, n)
             c == mapper!Child(m, Root, o)
             j == mapper!Child(m, Root, n)
         IN  /\ GoodMap(r)
             /\ mapper!Present(r) = mapper!Present(m) \ {j}
             /\ r.inodes[c].name = n
             /\ \A i \in mapper!Present(r) \ {c} : r.inodes[i].name = m.inodes[i].name
             /\ \A k : mapper!Listed(r, Root, k) <=> mapper!Listed(m, Root, k) /\ k # o
             /\ mapper!Child(r, Root, n) = c
             /\ \A k : mapper!Listed(m, Root, k) /\ k \notin {o, n} =>
                         mapper!Child(r, Root, k) = mapper!Child(m, Root, k)
             /\ r.next_inode = m.next_inode
<1>. DEFINE r == MP!Moved(m, Root, o, Root, n)
            c == MP!Child(m, Root, o)
            j == MP!Child(m, Root, n)
<1>0. /\ MP!SafeMap(m) /\ Root \in MP!Present(m) /\ n \in Name
      /\ MP!Listed(m, Root, o) /\ MP!Listed(m, Root, n)
      /\ <<Root, n>> # <<Root, o>>
  BY MapNumbers, MapChild, SameChildren DEF GoodMap
<1>1. /\ c \in MP!Present(m) /\ r.inodes[c].name = n
      /\ \A i \in MP!Present(r) \ {c} : r.inodes[i] = m.inodes[i]
      /\ MP!SafeMap(r)
  BY <1>0, MP!MovedFacts, MirrorMountAssumption
<1>2. /\ \A i : i \in MP!Present(r) <=> i \in MP!Present(m) /\ i # j
      /\ \A e, k : MP!Listed(r, e, k) <=> MP!Listed(m, e, k) /\ <<e, k>> # <<Root, o>>
      /\ MP!Child(r, Root, n) = c
      /\ \A e, k : MP!Listed(m, e, k) /\ <<e, k>> # <<Root, o>> /\ <<e, k>> # <<Root, n>>
                     => MP!Child(r, e, k) = MP!Child(m, e, k)
      /\ r.next_inode = m.next_inode
  BY <1>0, MP!MovedListed, MirrorMountAssumption
<1>. HIDE DEF r
<1>3. GoodMap(r)
  BY <1>0, <1>1, <1>2, SameChildren DEF GoodMap
<1>4. r = mapper!Moved(m, Root, o, Root, n)
  BY SameMoved DEF r
<1>5. MP!Present(r) = MP!Present(m) \ {j}
  BY <1>2
<1>. QED
  BY <1>1, <1>2, <1>3, <1>4, <1>5, SameChildren

-----------------------------------------------------------------------------
(* The scripts of the handler's methods. *)

(* No system call of a read-only handler changes the host's files. *)
Harmless(s) == readonly => Left(s) \cap Altering = {}

(* What a request on a path may run, on an open file, and for a name. *)
Plain(s) ==
  /\ IsScript(s)
  /\ Left(s) \cap (Renaming \cup {"pread", "pwrite"}) = {}
  /\ Left(s) \cap OnOwn # {} => "open" \in Left(s)
  /\ "open" \in Left(s) => "close" \in Left(s)

OnFileOnly(s) == IsScript(s) /\ Left(s) \subseteq {"pread", "pwrite"} \cup Never

Makes(s, first) ==
  /\ IsScript(s)
  /\ Left(s) = {first, "lstat"} \/ (Left(s) \subseteq Never /\ Left(s) # {})

Moves(s, only) ==
  /\ IsScript(s)
  /\ \E x : Left(s) = {x} /\ x \in {only} \cup Never

(* What the read-only handler and the default handler refuse. *)
LEMMA RefusedScript ==
  ASSUME NEW x, x = inner!NotImplemented
  PROVE  IsScript(x) /\ Left(x) \subseteq Never /\ Left(x) # {} /\ \E y : Left(x) = {y}
<1>1. CASE x = <<"panic">>
  BY <1>1, OneCall DEF Never, SysCall
<1>2. CASE x = <<"refuse">>
  BY <1>2, OneCall DEF Never, SysCall
<1>. QED
  BY <1>1, <1>2 DEF inner!NotImplemented

(* Refusing changes nothing. *)
LEMMA NeverHarmless == Never \cap Altering = {}
BY DEF Never, Altering

(* A method that refuses fits wherever a script is asked for. *)
LEMMA RefusedPlain ==
  ASSUME NEW x, x = inner!NotImplemented
  PROVE  /\ Plain(x) /\ OnFileOnly(x) /\ Harmless(x)
         /\ \A f : Makes(x, f) /\ Moves(x, f)
<1>1. Never \cap (Renaming \cup {"pread", "pwrite"} \cup OnOwn \cup {"open"}) = {}
  BY DEF Never, Renaming, OnOwn
<1>. QED
  BY <1>1, RefusedScript, NeverHarmless DEF Plain, OnFileOnly, Harmless, Makes, Moves

(* One call that is no opening, on no descriptor and changes no name. *)
LEMMA OnePlain ==
  ASSUME NEW x \in {"look", "mark", "lstat"}
  PROVE  Plain(<<x>>) /\ (x # "mark" => Harmless(<<x>>))
<1>1. IsScript(<<x>>) /\ Left(<<x>>) = {x}
  BY OneCall DEF SysCall
<1>. QED
  BY <1>1 DEF Plain, Harmless, Altering, Renaming, OnOwn

(* Methods that look at a path. *)
LEMMA LookScripts ==
  /\ \A s \in {access, getxattr, listxattr, readlink, statfs} : Plain(s) /\ Harmless(s)
  /\ \A s \in {setxattr, removexattr} : Plain(s) /\ Harmless(s)
  /\ \A s \in {bmap, ioctl, link} : Plain(s) /\ Harmless(s)
<1>1. /\ access = <<"look">> /\ getxattr = <<"look">> /\ listxattr = <<"look">>
      /\ readlink = <<"look">> /\ statfs = <<"look">>
  BY DEF access, getxattr, listxattr, readlink, statfs, unix_fs!access,
         unix_fs!getxattr, unix_fs!listxattr, unix_fs!readlink, unix_fs!statfs
<1>2. \A s \in {setxattr, removexattr} :
        IF readonly THEN s = inner!NotImplemented ELSE s = <<"mark">>
  BY DEF setxattr, removexattr, ReadWrite, unix_fs!setxattr, unix_fs!removexattr,
         inner!setxattr, inner!removexattr
<1>3. \A s \in {bmap, ioctl, link} : s = inner!NotImplemented
  BY DEF bmap, ioctl, link, inner!bmap, inner!ioctl, inner!link
<1>4. ~ readonly => Harmless(<<"mark">>)
  BY DEF Harmless
<1>5. Plain(<<"look">>) /\ Harmless(<<"look">>) /\ Plain(<<"mark">>)
  BY OnePlain
<1>. QED
  BY <1>1, <1>2, <1>3, <1>4, <1>5, RefusedPlain

(* A call between open and close. *)
LEMMA ThreeCalls ==
  ASSUME NEW x \in {"fstat", "ftruncate", "getdents"}
  PROVE  LET s == <<"open">> \o <<x>> \o <<"close">>
         IN  IsScript(s) /\ Left(s) = {"open", x, "close"}
<1>. DEFINE a == <<"open">>
            b == <<x>>
            c == <<"close">>
            ab == a \o b
            s == ab \o c
<1>1. /\ IsScript(a) /\ Left(a) = {"open"} /\ IsScript(b) /\ Left(b) = {x}
      /\ IsScript(c) /\ Left(c) = {"close"}
  BY OneCall DEF SysCall
<1>. HIDE DEF a, b, c
<1>2. IsScript(ab) /\ Left(ab) = {"open", x}
  BY <1>1, Joined DEF Opening, OnOwn, Renaming
<1>. HIDE DEF ab
<1>3. IsScript(s) /\ Left(s) = {"open", x, "close"}
  BY <1>1, <1>2, Joined DEF Opening, OnOwn, Renaming
<1>. QED
  BY <1>3 DEF s, ab, a, b, c

(* The literal of three calls is the same sequence. *)
LEMMA ThreeLiteral ==
  ASSUME NEW x \in {"fstat", "ftruncate", "getdents"}
  PROVE  IsScript(<<"open", x, "close">>) /\ Left(<<"open", x, "close">>) = {"open", x, "close"}
<1>1. <<"open", x, "close">> = <<"open">> \o <<x>> \o <<"close">>
  OBVIOUS
<1>. QED
  BY <1>1, ThreeCalls

(* Such a script is plain. *)
LEMMA ThreePlain ==
  ASSUME NEW s, IsScript(s), NEW x \in {"fstat", "ftruncate", "getdents"}, NEW more,
         more \in {{}, {"lstat"}}, Left(s) = {"open", x, "close"} \cup more
  PROVE  Plain(s) /\ (x # "ftruncate" => Harmless(s))
BY DEF Plain, Harmless, Altering, Renaming, OnOwn

(* Methods that open a path for a while, and those of directories. *)
LEMMA OpenScripts ==
  /\ \A s \in {getattr, readdir, readdirplus} : Plain(s) /\ Harmless(s)
  /\ \A s \in {opendir, fsyncdir, releasedir} : s = <<>> /\ Plain(s) /\ Harmless(s)
<1>1. getattr = <<"open">> \o <<"fstat">> \o <<"close">>
  BY DEF getattr, unix_fs!open, unix_fs!getattr
<1>2. readdir = <<"open", "getdents", "close">>
  BY DEF readdir, unix_fs!readdir
<1>3. readdirplus = readdir \o <<"lstat">>
  BY DEF readdirplus, lookup, unix_fs!lookup
<1>4. Plain(getattr) /\ Harmless(getattr)
  BY <1>1, ThreeCalls, ThreePlain
<1>5. IsScript(readdir) /\ Left(readdir) = {"open", "getdents", "close"}
  BY <1>2, ThreeLiteral
<1>6. Plain(readdir) /\ Harmless(readdir)
  BY <1>5, ThreePlain
<1>7. IsScript(<<"lstat">>) /\ Left(<<"lstat">>) = {"lstat"}
  BY OneCall DEF SysCall
<1>8. IsScript(readdirplus) /\ Left(readdirplus) = {"open", "getdents", "close"} \cup {"lstat"}
  <2>. DEFINE a == readdir
              b == <<"lstat">>
  <2>1. IsScript(a) /\ Left(a) = {"open", "getdents", "close"}
        /\ IsScript(b) /\ Left(b) = {"lstat"} /\ readdirplus = a \o b
    BY <1>3, <1>5, <1>7
  <2>. HIDE DEF a, b
  <2>. QED
    BY <2>1, Joined DEF Opening, OnOwn, Renaming
<1>9. Plain(readdirplus) /\ Harmless(readdirplus)
  BY <1>8, ThreePlain
<1>10. opendir = <<>> /\ fsyncdir = <<>> /\ releasedir = <<>>
  BY DEF opendir, fsyncdir, releasedir, inner!opendir, inner!fsyncdir, inner!releasedir
<1>11. Plain(<<>>) /\ Harmless(<<>>)
  BY EmptyScript DEF Plain, Harmless
<1>. QED
  BY <1>4, <1>6, <1>9, <1>10, <1>11

(* Methods on a handle. *)
LEMMA FileScripts ==
  /\ \A s \in {read("start"), write("start"), flush, fsync, fallocate, getlk, setlk,
               copy_file_range, <<"panic">>} : OnFileOnly(s) /\ Harmless(s)
  /\ release = <<"close">> /\ IsScript(release) /\ Left(release) = {"close"}
  /\ Harmless(release)
<1>1. /\ unix_fs!Seek("start") = <<>>
  BY DEF unix_fs!Seek, unix_fs!When
<1>2. /\ read("start") = <<"pread">> /\ flush = <<"pread">> /\ fsync = <<"pread">>
  <2>1. <<>> \o <<"pread">> = <<"pread">>
    OBVIOUS
  <2>. QED
    BY <1>1, <2>1 DEF read, flush, fsync, unix_fs!read, unix_fs!flush, unix_fs!fsync
<1>3. \A s \in {write("start"), fallocate, copy_file_range} :
        IF readonly THEN s = inner!NotImplemented ELSE s = <<"pwrite">>
  <2>1. <<>> \o <<"pwrite">> = <<"pwrite">>
    OBVIOUS
  <2>. QED
    BY <1>1, <2>1 DEF write, fallocate, copy_file_range, ReadWrite, unix_fs!write,
              unix_fs!fallocate, unix_fs!copy_file_range, inner!write,
              inner!fallocate, inner!copy_file_range
<1>4. \A s \in {getlk, setlk} : s = inner!NotImplemented
  BY DEF getlk, setlk, inner!getlk, inner!setlk
<1>5. release = <<"close">>
  BY DEF release, unix_fs!release
<1>6. \A x \in {"pread", "pwrite", "panic", "close"} : IsScript(<<x>>) /\ Left(<<x>>) = {x}
  BY OneCall DEF SysCall
<1>7. /\ OnFileOnly(<<"pread">>) /\ Harmless(<<"pread">>)
      /\ OnFileOnly(<<"panic">>) /\ Harmless(<<"panic">>)
      /\ OnFileOnly(<<"pwrite">>) /\ (~ readonly => Harmless(<<"pwrite">>))
      /\ Harmless(<<"close">>)
  BY <1>6 DEF OnFileOnly, Harmless, Never, Altering
<1>8. \A s \in {write("start"), fallocate, copy_file_range} : OnFileOnly(s) /\ Harmless(s)
  BY <1>3, <1>7, RefusedPlain
<1>9. \A s \in {getlk, setlk} : OnFileOnly(s) /\ Harmless(s)
  BY <1>4, RefusedPlain
<1>. QED
  BY <1>2, <1>5, <1>6, <1>7, <1>8, <1>9

(* Making something, then looking at it. *)
LEMMA TwoCalls ==
  ASSUME NEW x \in {"make", "creat"}
  PROVE  Makes(<<x>> \o <<"lstat">>, x)
<1>. DEFINE a == <<x>>
            b == <<"lstat">>
<1>1. IsScript(a) /\ Left(a) = {x} /\ IsScript(b) /\ Left(b) = {"lstat"}
  BY OneCall DEF SysCall
<1>. HIDE DEF a, b
<1>2. IsScript(a \o b) /\ Left(a \o b) = {x, "lstat"}
  BY <1>1, Joined DEF Opening, OnOwn, Renaming
<1>. QED
  BY <1>2 DEF Makes, a, b

(* Methods that look up or change a name. *)
LEMMA NameScripts ==
  /\ Harmless(lookup) /\ IsScript(lookup) /\ Left(lookup) = {"lstat"}
  /\ Harmless(open) /\ IsScript(open) /\ Left(open) = {"open"}
  /\ Harmless(create) /\ Makes(create, "creat")
  /\ \A s \in {mknod, mkdir, symlink} : Harmless(s) /\ Makes(s, "make")
  /\ Harmless(unlink) /\ Moves(unlink, "unlink")
  /\ Harmless(rmdir) /\ Moves(rmdir, "rmdir")
  /\ Harmless(rename) /\ Moves(rename, "rename")
<1>1. lookup = <<"lstat">> /\ open = <<"open">>
  BY DEF lookup, unix_fs!lookup, open, unix_fs!open
<1>2. IF readonly THEN create = inner!NotImplemented ELSE create = <<"creat">> \o <<"lstat">>
  BY DEF create, ReadWrite, unix_fs!create, inner!create, unix_fs!lookup
<1>3. \A s \in {mknod, mkdir, symlink} :
        IF readonly THEN s = inner!NotImplemented ELSE s = <<"make">> \o <<"lstat">>
  BY DEF mknod, mkdir, symlink, ReadWrite, unix_fs!mknod, unix_fs!mkdir, unix_fs!symlink,
         inner!mknod, inner!mkdir, inner!symlink, unix_fs!lookup
<1>4. /\ IF readonly THEN unlink = inner!NotImplemented ELSE unlink = <<"unlink">>
      /\ IF readonly THEN rmdir = inner!NotImplemented ELSE rmdir = <<"rmdir">>
      /\ IF readonly THEN rename = inner!NotImplemented ELSE rename = <<"rename">>
  BY DEF unlink, rmdir, rename, ReadWrite, unix_fs!unlink, unix_fs!rmdir, unix_fs!rename,
         inner!unlink, inner!rmdir, inner!rename
<1>5. \A x \in {"lstat", "open", "unlink", "rmdir", "rename"} : IsScript(<<x>>) /\ Left(<<x>>) = {x}
  BY OneCall DEF SysCall
<1>6. \A x \in {"unlink", "rmdir", "rename"} : Moves(<<x>>, x)
  BY <1>5 DEF Moves
<1>7. Harmless(<<"lstat">>) /\ Harmless(<<"open">>)
  BY <1>5 DEF Harmless, Altering
<1>8. ~ readonly => \A s : Harmless(s)
  BY DEF Harmless
<1>9. Harmless(create) /\ Makes(create, "creat")
  BY <1>2, <1>8, RefusedPlain, TwoCalls
<1>10. \A s \in {mknod, mkdir, symlink} : Harmless(s) /\ Makes(s, "make")
  BY <1>3, <1>8, RefusedPlain, TwoCalls
<1>. QED
  BY <1>1, <1>4, <1>5, <1>6, <1>7, <1>8, <1>9, <1>10, RefusedPlain

(* A part of a script that is made on a condition. *)
LEMMA WhenScript ==
  ASSUME NEW b \in BOOLEAN, NEW s, IsScript(s), NEW w, w = unix_fs!When(b, s)
  PROVE  IsScript(w) /\ Left(w) = IF b THEN Left(s) ELSE {}
BY EmptyScript DEF unix_fs!When

(* The calls of setattr. *)
LEMMA SetattrScript ==
  ASSUME NEW set, NEW s, s = unix_fs!setattr(set)
  PROVE  /\ IsScript(s)
         /\ Left(s) = (IF "mode" \in set THEN {"chmod"} ELSE {})
                        \cup (IF "owner" \in set THEN {"chown"} ELSE {})
                        \cup (IF "size" \in set THEN {"open", "ftruncate", "close"} ELSE {})
                        \cup (IF {"atime", "mtime"} \subseteq set
                              THEN (IF "mixed" \in set THEN {"refuse"} ELSE {"utimensat"})
                              ELSE {})
                        \cup {"lstat"}
<1>0. /\ ("mode" \in set) \in BOOLEAN /\ ("owner" \in set) \in BOOLEAN /\ ("size" \in set) \in BOOLEAN
      /\ ({"atime", "mtime"} \subseteq set) \in BOOLEAN
  OBVIOUS
<1>1. PICK m : m = unix_fs!When("mode" \in set, <<"chmod">>)
  OBVIOUS
<1>2. PICK o : o = unix_fs!When("owner" \in set, <<"chown">>)
  OBVIOUS
<1>3. PICK z : z = unix_fs!When("size" \in set, <<"open", "ftruncate", "close">>)
  OBVIOUS
<1>4. PICK x : x = IF "mixed" \in set THEN <<"refuse">> ELSE <<"utimensat">>
  OBVIOUS
<1>5. PICK t : t = unix_fs!When({"atime", "mtime"} \subseteq set, x)
  OBVIOUS
<1>6. PICK l : l = <<"lstat">>
  OBVIOUS
<1>7. s = (((m \o o) \o z) \o t) \o l
  BY <1>1, <1>2, <1>3, <1>4, <1>5, <1>6 DEF unix_fs!setattr, unix_fs!lookup
<1>8. /\ IsScript(<<"chmod">>) /\ Left(<<"chmod">>) = {"chmod"}
      /\ IsScript(<<"chown">>) /\ Left(<<"chown">>) = {"chown"}
      /\ IsScript(<<"refuse">>) /\ Left(<<"refuse">>) = {"refuse"}
      /\ IsScript(<<"utimensat">>) /\ Left(<<"utimensat">>) = {"utimensat"}
      /\ IsScript(<<"lstat">>) /\ Left(<<"lstat">>) = {"lstat"}
  BY OneCall DEF SysCall
<1>9. IsScript(m) /\ Left(m) = IF "mode" \in set THEN {"chmod"} ELSE {}
  BY <1>0, <1>1, <1>8, WhenScript
<1>10. IsScript(o) /\ Left(o) = IF "owner" \in set THEN {"chown"} ELSE {}
  BY <1>0, <1>2, <1>8, WhenScript
<1>11. IsScript(z) /\ Left(z) = IF "size" \in set THEN {"open", "ftruncate", "close"} ELSE {}
  <2>. DEFINE w == <<"open", "ftruncate", "close">>
  <2>1. IsScript(w) /\ Left(w) = {"open", "ftruncate", "close"}
    BY ThreeLiteral
  <2>2. z = unix_fs!When("size" \in set, w)
    BY <1>3
  <2>. HIDE DEF w
  <2>. QED
    BY <1>0, <2>1, <2>2, WhenScript
<1>12. IsScript(x) /\ Left(x) = IF "mixed" \in set THEN {"refuse"} ELSE {"utimensat"}
  BY <1>4, <1>8
<1>13. IsScript(t) /\ Left(t) = IF {"atime", "mtime"} \subseteq set THEN Left(x) ELSE {}
  BY <1>0, <1>5, <1>12, WhenScript
<1>14. PICK mo : mo = m \o o
  OBVIOUS
<1>15. IsScript(mo) /\ Left(mo) = Left(m) \cup Left(o)
  BY <1>9, <1>10, <1>14, Joined DEF Opening, OnOwn, Renaming
<1>16. PICK moz : moz = mo \o z
  OBVIOUS
<1>17. IsScript(moz) /\ Left(moz) = Left(mo) \cup Left(z)
  BY <1>9, <1>10, <1>11, <1>15, <1>16, Joined DEF Opening, OnOwn, Renaming
<1>18. PICK mozt : mozt = moz \o t
  OBVIOUS
<1>19. IsScript(mozt) /\ Left(mozt) = Left(moz) \cup Left(t)
  <2>1. Left(t) \subseteq {"refuse", "utimensat"}
    BY <1>12, <1>13
  <2>2. Left(moz) \subseteq {"chmod", "chown", "open", "ftruncate", "close"}
    BY <1>9, <1>10, <1>11, <1>15, <1>17
  <2>. QED
    BY <1>13, <1>17, <1>18, <2>1, <2>2, Joined DEF Opening, OnOwn, Renaming
<1>20. IsScript(s) /\ Left(s) = Left(mozt) \cup Left(l)
  <2>1. Left(mozt) \subseteq {"chmod", "chown", "open", "ftruncate", "close", "refuse", "utimensat"}
    BY <1>9, <1>10, <1>11, <1>12, <1>13, <1>15, <1>17, <1>19
  <2>2. Left(l) = {"lstat"} /\ IsScript(l) /\ s = mozt \o l
    BY <1>6, <1>7, <1>8, <1>14, <1>16, <1>18
  <2>3. Left(mozt) \cap Left(l) = {} /\ Left(l) \cap Opening = {} /\ "lstat" \notin Left(mozt)
        /\ Left(l) \cap OnOwn = {}
    BY <2>1, <2>2 DEF Opening, OnOwn
  <2>. QED
    BY <1>19, <2>2, <2>3, Joined
<1>. QED
  BY <1>6, <1>8, <1>9, <1>10, <1>11, <1>12, <1>13, <1>15, <1>17, <1>19, <1>20

(* What setattr was asked to set, some call still to come sets, if none is
   an error and both times come together. *)
LEMMA SetattrSets ==
  ASSUME NEW set, NEW s, s = setattr(set),
         set \subseteq {"mode", "owner", "size", "atime", "mtime", "mixed"}
  PROVE  /\ Plain(s) /\ Harmless(s)
         /\ ("atime" \in set <=> "mtime" \in set) /\ Left(s) \cap Never = {}
              => set \ {"mixed"} \subseteq UNION {Sets(x) : x \in Left(s)}
<1>1. CASE readonly
  <2>1. s = inner!NotImplemented
    BY <1>1 DEF setattr, ReadWrite, inner!setattr
  <2>2. Left(s) \subseteq Never /\ Left(s) # {}
    BY <2>1, RefusedScript
  <2>. QED
    BY <2>1, <2>2, RefusedPlain
<1>2. CASE ~ readonly
  <2>1. s = unix_fs!setattr(set)
    BY <1>2 DEF setattr, ReadWrite
  <2>2. IsScript(s) /\ Left(s) = (IF "mode" \in set THEN {"chmod"} ELSE {})
                        \cup (IF "owner" \in set THEN {"chown"} ELSE {})
                        \cup (IF "size" \in set THEN {"open", "ftruncate", "close"} ELSE {})
                        \cup (IF {"atime", "mtime"} \subseteq set
                              THEN (IF "mixed" \in set THEN {"refuse"} ELSE {"utimensat"})
                              ELSE {})
                        \cup {"lstat"}
    BY <2>1, SetattrScript
  <2>3. Plain(s) /\ Harmless(s)
    <3>1. Left(s) \cap (Renaming \cup {"pread", "pwrite"}) = {}
      BY <2>2 DEF Renaming
    <3>2. /\ Left(s) \cap OnOwn # {} => "open" \in Left(s)
          /\ "open" \in Left(s) => "close" \in Left(s)
      BY <2>2 DEF OnOwn
    <3>. QED
      BY <1>2, <2>2, <3>1, <3>2 DEF Plain, Harmless
  <2>4. ASSUME "atime" \in set <=> "mtime" \in set, Left(s) \cap Never = {},
               NEW a \in set \ {"mixed"}
        PROVE  a \in UNION {Sets(x) : x \in Left(s)}
    <3>0. "refuse" \notin Left(s)
      BY <2>4 DEF Never
    <3>1. CASE a = "mode"
      <4>1. "chmod" \in Left(s) /\ a \in Sets("chmod")
        BY <2>2, <2>4, <3>1 DEF Sets
      <4>. QED
        BY <4>1
    <3>2. CASE a = "owner"
      <4>1. "chown" \in Left(s) /\ a \in Sets("chown")
        BY <2>2, <2>4, <3>2 DEF Sets
      <4>. QED
        BY <4>1
    <3>3. CASE a = "size"
      <4>1. "ftruncate" \in Left(s) /\ a \in Sets("ftruncate")
        BY <2>2, <2>4, <3>3 DEF Sets
      <4>. QED
        BY <4>1
    <3>4. CASE a \in {"atime", "mtime"}
      <4>1. "utimensat" \in Left(s) /\ a \in Sets("utimensat")
        BY <2>2, <2>4, <3>0, <3>4 DEF Sets
      <4>. QED
        BY <4>1
    <3>. QED
      BY <2>4, <3>1, <3>2, <3>3, <3>4
  <2>. QED
    BY <2>3, <2>4
<1>. QED
  BY <1>1, <1>2

-----------------------------------------------------------------------------
(* What holds of every request, and of the tables. *)

Thing == Node \cup {NoNode, RootNode, Elsewhere}
AName == Name \cup {RootName}
Attr == {"mode", "owner", "size", "atime", "mtime", "mixed"}

Request ==
  [step : {"idle", "queued", "running"}, num : 1 .. MaxInode, name : AName,
   newname : AName, fd : 0 .. NoFd, kind : DOMAIN OfKind, set : SUBSET Attr,
   script : Seq(SysCall),
   reply : {"none", "attr", "entry", "created", "opened", "removed", "renamed"},
   lock : {"none", "shared", "exclusive"}, own : 0 .. NoFd, found : Thing,
   node : Thing, raced : BOOLEAN, stray : BOOLEAN, did : SUBSET Attr]

Scripted(r) ==
  /\ IsScript(r.script)
  /\ Harmless(r.script)
  /\ ~ (Opening \subseteq Left(r.script))
  /\ ~ ({"unlink", "rmdir"} \subseteq Left(r.script))
  /\ r.step = "idle" => r = NoCall

Creating(r) == r.lock = "exclusive" /\ r.reply \in {"entry", "created"}

(* What a request that has the directory alone does. *)
AloneFit(r, left) ==
  /\ r.name \in Name /\ r.newname \in Name
  /\ r.reply \in {"entry", "created", "removed", "renamed"}
  /\ r.reply # "renamed" <=> r.name = r.newname
  /\ r.step = "queued" => left \cap (Renaming \cup Never) # {}
  /\ left \cap Never # {} => left \subseteq Never
  /\ r.reply = "created" => left \subseteq {"creat", "lstat"} \cup Never
  /\ r.reply = "entry" => left \subseteq {"make", "lstat"} \cup Never
  /\ r.reply = "removed" => left \subseteq {"unlink", "rmdir"} \cup Never
  /\ r.reply = "renamed" => left \subseteq {"rename"} \cup Never

LockFit(r, left) ==
  /\ r.lock # "exclusive" => left \cap Renaming = {}
  /\ r.lock = "none" => r.reply \in {"none", "attr", "opened"}
  /\ r.lock = "shared" => r.reply \in {"none", "entry"}
  /\ r.lock = "shared" /\ r.reply = "entry" => left \subseteq {"lstat"} /\ r.name \in Name
  /\ r.lock = "exclusive" => AloneFit(r, left)
  /\ r.lock # "none" => r.num = Root
  /\ r.num = Root => r.node \notin Node /\ r.fd = NoFd
  /\ r.reply \in {"attr", "opened"} => r.num # Root
  /\ r.step = "running" /\ r.num # Root => r.name \in Name

Answers(r) == r.reply \in {"created", "opened"}
HasOwn(r) == r.own \in Fd \ {0}

OwnFit(r, left) ==
  /\ r.own = 0 => left = {} /\ r.reply = "none"
  /\ r.own \in Fd => left \cap Opening = {}
  /\ left \cap OnOwn # {} => HasOwn(r) \/ left \cap Opening # {}
  /\ HasOwn(r) \/ left \cap Opening # {} => (Answers(r) <=> "close" \notin left)
  /\ Answers(r) => "close" \notin left /\ (HasOwn(r) \/ left \cap (Opening \cup Never) # {})

FileFit(r, left) ==
  /\ r.reply = "opened" => r.node \in File /\ left \subseteq {"open"} \cup Never /\ r.fd = NoFd
  /\ r.fd \in Fd => r.fd # 0 /\ left \subseteq {"pread", "pwrite", "close"} \cup Never
  /\ r.fd \in Fd /\ r.own # NoFd => r.own = r.fd
  /\ left \cap {"pread", "pwrite"} # {} => r.fd \in Fd /\ r.own = NoFd

SetFit(r) ==
  r.reply = "attr" /\ Left(r.script) \cap Never = {} =>
     r.set \ {"mixed"} \subseteq r.did \cup UNION {Sets(x) : x \in Left(r.script)}

Fit(r) ==
  /\ r \in Request
  /\ Scripted(r)
  /\ LockFit(r, Left(r.script))
  /\ OwnFit(r, Left(r.script))
  /\ FileFit(r, Left(r.script))

Requested == \A c \in Caller : Fit(call[c])

(* Both times are asked for, or none. *)
BothTimes == \A set \in SetAsks : "atime" \in set <=> "mtime" \in set

SetsLeft == \A c \in Caller : SetFit(call[c])

-----------------------------------------------------------------------------
Hosted ==
  /\ host \in [entry : [AName -> Node \cup {NoNode, RootNode}], desc : [Fd -> Thing]]
  /\ \A n \in Name : host.entry[n] \in Node \cup {NoNode}
  /\ host.entry[RootName] = RootNode
  /\ host.desc[0] = Elsewhere

Locked ==
  \A c, d \in Caller : c # d /\ call[c].lock = "exclusive" => call[d].lock = "none"

Mapped ==
  /\ GoodMap(map)
  /\ dent \in [Name -> 0 .. MaxInode]
  /\ \A n \in Name : dent[n] # 0 =>
       mapper!Listed(map, Root, n) /\ mapper!Child(map, Root, n) = dent[n]
  /\ \A c \in Caller : call[c].reply = "renamed" =>
       dent[call[c].name] # 0 /\ mapper!Listed(map, Root, call[c].newname)
  /\ \A c \in Caller : Creating(call[c]) => dent[call[c].name] = 0

Told ==
  /\ means \in [1 .. MaxInode -> Node \cup {NoNode, RootNode}]
  /\ means[Root] = RootNode
  /\ \A i \in 2 .. MaxInode : means[i] \in Node \cup {NoNode}
  /\ files \subseteq [fd : Fd \ {0}, num : 2 .. MaxInode, node : Thing]
  /\ \A f \in files : f.num < map.next_inode
  /\ \A c \in Caller : call[c].num < map.next_inode

Asking == {c \in Caller : call[c].reply \in {"entry", "created"}}
Wanting == {c \in Asking : ~ mapper!Listed(map, Root, call[c].name)}
Room ==
  /\ IsFiniteSet(Asking)
  /\ map.next_inode + Cardinality(Wanting) <= MaxInode + 1

InStep(s) == {c \in Caller : call[c].step = s}
Pool ==
  /\ queue \in Seq(Caller)
  /\ \A j, k \in DOMAIN queue : queue[j] = queue[k] => j = k
  /\ \A c \in Caller : call[c].step = "queued" <=> \E k \in DOMAIN queue : queue[k] = c
  /\ IsFiniteSet(InStep("queued")) /\ IsFiniteSet(InStep("running"))
  /\ Len(queue) = Cardinality(InStep("queued"))
  /\ Cardinality(InStep("running")) <= threads

Shaped == DOMAIN call = Caller /\ call = [c \in Caller |-> call[c]] /\ threads \in Threads
Base == Shaped /\ Requested /\ Hosted /\ Locked /\ Mapped /\ Told /\ Room /\ Pool

-----------------------------------------------------------------------------
(* What a request that is sent is, and what it is about. *)
Sent(c, q, fs) ==
  /\ ~ Busy(c) /\ Lockable(q.lock)
  /\ Fit(q) /\ q.step = "queued" /\ ~ q.raced /\ ~ q.stray
  /\ BothTimes => SetFit(q)
  /\ q.reply = "entry" => Left(q.script) \cap ({"lstat"} \cup Never) # {}
  /\ q.reply \in {"entry", "created"} => RoomFor(q.name)
  /\ Creating(q) => dent[q.name] = 0
  /\ q.reply = "renamed" =>
       /\ dent[q.name] # 0 /\ mapper!Listed(map, Root, q.newname)
       /\ InUse \/ mapper!Child(map, Root, q.newname) \notin Used
  /\ \/ q.num = Root
     \/ q.fd = NoFd /\ q.num \in Usable /\ q.node = means[q.num]
     \/ \E f \in files : q.fd = f.fd /\ q.num = f.num /\ q.node = f.node
  /\ \/ fs = files /\ q.own \in {0, NoFd}
     \/ \E f \in files : /\ fs = files \ {f} /\ q.own = f.fd /\ q.fd = f.fd
                         /\ q.num = f.num /\ q.node = f.node
                         /\ \A d \in Caller : call[d].fd # f.fd

AsQueued(q, num, name, newname, fd, kind, set, script, reply, lock, own, node) ==
  /\ q \in Request
  /\ q.step = "queued" /\ q.num = num /\ q.name = name /\ q.newname = newname
  /\ q.fd = fd /\ q.kind = kind /\ q.set = set /\ q.script = script /\ q.reply = reply
  /\ q.lock = lock /\ q.own = own /\ q.node = node /\ q.raced = FALSE
  /\ q.stray = FALSE /\ q.did = {}

(* The constants are where their names say. *)
LEMMA RootIs == Root = 1 /\ 1 \in 1 .. MaxInode /\ NoFd \in 0 .. NoFd /\ NoFd \notin Fd
               /\ Fd \subseteq 0 .. NoFd /\ 0 \in Fd /\ MaxFd \in Nat /\ MaxInode \in Nat
BY MirrorMountAssumption DEF Root, NoFd, Fd

(* A process without a request. *)
LEMMA NoCallFit == Fit(NoCall) /\ SetFit(NoCall) /\ NoCall.step = "idle"
<1>1. NoCall \in Request
  BY RootIs, EmptyScript DEF NoCall, Request, AName, Thing, OfKind, IsScript, Attr
<1>2. Scripted(NoCall)
  BY EmptyScript DEF Scripted, NoCall, Harmless, Opening
<1>3. NoNode \notin Node
  BY MirrorMountAssumption DEF Node
<1>. QED
  BY <1>1, <1>2, <1>3, RootIs, EmptyScript DEF Fit, LockFit, OwnFit, FileFit, SetFit, NoCall, Answers, HasOwn

(* A request about names fits. *)
LEMMA NameFit ==
  ASSUME NEW n \in Name, NEW o \in Name, NEW kind \in DOMAIN OfKind, NEW s,
         NEW reply \in {"entry", "created", "removed", "renamed"},
         NEW lock \in {"shared", "exclusive"},
         IsScript(s), Harmless(s),
         lock = "shared" => reply = "entry" /\ Left(s) = {"lstat"},
         reply # "renamed" <=> n = o,
         lock = "exclusive" =>
           \/ Left(s) \subseteq Never /\ Left(s) # {}
           \/ reply = "created" /\ Left(s) = {"creat", "lstat"}
           \/ reply = "entry" /\ Left(s) = {"make", "lstat"}
           \/ reply = "removed" /\ Left(s) \in {{"unlink"}, {"rmdir"}}
           \/ reply = "renamed" /\ Left(s) = {"rename"},
         NEW q, AsQueued(q, Root, n, o, NoFd, kind, {}, s, reply, lock, NoFd, NoNode)
  PROVE  Fit(q) /\ SetFit(q)
<1>1. q \in Request
  BY DEF AsQueued
<1>2. /\ q.step = "queued" /\ q.num = Root /\ q.name = n /\ q.newname = o /\ q.fd = NoFd
      /\ q.script = s /\ q.reply = reply /\ q.lock = lock /\ q.own = NoFd /\ q.node = NoNode
  BY DEF AsQueued
<1>3. Scripted(q)
  BY <1>2 DEF Scripted, Opening, Never
<1>4. NoNode \notin Node
  BY MirrorMountAssumption DEF Node
<1>5. LockFit(q, Left(s))
  BY <1>2, <1>4 DEF LockFit, AloneFit, Renaming, Never
<1>6. OwnFit(q, Left(s))
  BY <1>2, RootIs DEF OwnFit, Answers, HasOwn, Opening, OnOwn, Never
<1>7. FileFit(q, Left(s))
  BY <1>2, RootIs DEF FileFit, Never
<1>8. SetFit(q)
  BY <1>2 DEF SetFit
<1>. QED
  BY <1>1, <1>2, <1>3, <1>5, <1>6, <1>7, <1>8 DEF Fit

(* A request by number fits. *)
LEMMA PathFit ==
  ASSUME NEW i \in 2 .. MaxInode, NEW node \in Thing, NEW set \in SUBSET Attr, NEW s,
         NEW reply \in {"none", "attr", "opened"},
         Harmless(s),
         reply # "opened" => Plain(s),
         reply = "opened" => IsScript(s) /\ Left(s) = {"open"} /\ node \in File,
         reply = "attr" => (Left(s) \cap Never = {} /\ BothTimes =>
                              set \ {"mixed"} \subseteq UNION {Sets(x) : x \in Left(s)}),
         NEW q, AsQueued(q, i, RootName, RootName, NoFd, "file", set, s, reply, "none", NoFd, node)
  PROVE  Fit(q) /\ (BothTimes => SetFit(q))
<1>0. IsScript(s) /\ ~ (Opening \subseteq Left(s)) /\ ~ ({"unlink", "rmdir"} \subseteq Left(s))
      /\ Left(s) \cap Renaming = {}
  BY DEF Plain, Opening, Renaming
<1>1. q \in Request
  BY DEF AsQueued
<1>2. /\ q.step = "queued" /\ q.num = i /\ q.name = RootName /\ q.fd = NoFd /\ q.set = set /\ q.did = {}
      /\ q.script = s /\ q.reply = reply /\ q.lock = "none" /\ q.own = NoFd /\ q.node = node
  BY DEF AsQueued
<1>3. Scripted(q)
  BY <1>0, <1>2 DEF Scripted
<1>5. LockFit(q, Left(s))
  BY <1>0, <1>2, RootIs DEF LockFit
<1>6. OwnFit(q, Left(s))
  BY <1>2, RootIs DEF OwnFit, Answers, HasOwn, Opening, OnOwn, Never, Plain, Renaming
<1>7. FileFit(q, Left(s))
  BY <1>2, RootIs DEF FileFit, Plain
<1>8. BothTimes => SetFit(q)
  BY <1>2 DEF SetFit
<1>. QED
  BY <1>1, <1>2, <1>3, <1>5, <1>6, <1>7, <1>8 DEF Fit

(* A request about the directory fits. *)
LEMMA RootFit ==
  ASSUME NEW s, Plain(s), Harmless(s), NEW lock \in {"none", "shared"}, NEW own \in {0, NoFd},
         own = 0 => s = <<>>,
         NEW q, AsQueued(q, Root, RootName, RootName, NoFd, "file", {}, s, "none", lock, own, RootNode)
  PROVE  Fit(q) /\ SetFit(q)
<1>0. IsScript(s) /\ ~ (Opening \subseteq Left(s)) /\ ~ ({"unlink", "rmdir"} \subseteq Left(s))
      /\ Left(s) \cap Renaming = {}
  BY DEF Plain, Opening, Renaming
<1>1. q \in Request
  BY DEF AsQueued
<1>2. /\ q.step = "queued" /\ q.num = Root /\ q.name = RootName /\ q.fd = NoFd
      /\ q.script = s /\ q.reply = "none" /\ q.lock = lock /\ q.own = own /\ q.node = RootNode
  BY DEF AsQueued
<1>3. Scripted(q)
  BY <1>0, <1>2 DEF Scripted
<1>4. RootNode \notin Node
  BY MirrorMountAssumption DEF Node
<1>5. LockFit(q, Left(s))
  BY <1>0, <1>2, <1>4, RootIs DEF LockFit
<1>6. OwnFit(q, Left(s))
  BY <1>2, RootIs, EmptyScript DEF OwnFit, Answers, HasOwn, Opening, OnOwn, Never, Plain, Renaming
<1>7. FileFit(q, Left(s))
  BY <1>2, RootIs DEF FileFit, Plain
<1>8. SetFit(q)
  BY <1>2 DEF SetFit
<1>. QED
  BY <1>1, <1>2, <1>3, <1>5, <1>6, <1>7, <1>8 DEF Fit

(* A request by handle fits. *)
LEMMA FileFits ==
  ASSUME NEW f, f \in [fd : Fd \ {0}, num : 2 .. MaxInode, node : Thing],
         NEW s, IsScript(s), Harmless(s), NEW own \in {f.fd, NoFd},
         own = NoFd => Left(s) \subseteq {"pread", "pwrite"} \cup Never,
         own # NoFd => Left(s) = {"close"},
         NEW q, AsQueued(q, f.num, RootName, RootName, f.fd, "file", {}, s, "none", "none", own, f.node)
  PROVE  Fit(q) /\ SetFit(q)
<1>0. /\ f.fd \in Fd /\ f.fd # 0 /\ f.fd \in 0 .. NoFd /\ f.num \in 1 .. MaxInode /\ f.num # Root
      /\ f.node \in Thing /\ f.fd # NoFd
  BY RootIs DEF Thing, Fd, NoFd
<1>1. q \in Request
  BY DEF AsQueued
<1>2. /\ q.step = "queued" /\ q.num = f.num /\ q.name = RootName /\ q.fd = f.fd
      /\ q.script = s /\ q.reply = "none" /\ q.lock = "none" /\ q.own = own /\ q.node = f.node
  BY DEF AsQueued
<1>3. Scripted(q)
  BY <1>2 DEF Scripted, Opening, Never
<1>5. LockFit(q, Left(s))
  BY <1>0, <1>2, RootIs DEF LockFit, Renaming, Never
<1>6. OwnFit(q, Left(s))
  BY <1>0, <1>2, RootIs DEF OwnFit, Answers, HasOwn, Opening, OnOwn, Never
<1>7. FileFit(q, Left(s))
  BY <1>0, <1>2, RootIs DEF FileFit
<1>8. SetFit(q)
  BY <1>2 DEF SetFit
<1>. QED
  BY <1>1, <1>2, <1>3, <1>5, <1>6, <1>7, <1>8 DEF Fit

-----------------------------------------------------------------------------
(* Every request that is sent fits. *)

SendStep(c, q) ==
  /\ Sent(c, q, files')
  /\ call' = [call EXCEPT ![c] = q] /\ queue' = Append(queue, c)
  /\ UNCHANGED <<readonly, threads, host, map, dent, means>>

Replies == {"none", "attr", "entry", "created", "opened", "removed", "renamed"}

(* What the kernel puts together is a request. *)
LEMMA RequestsMade ==
  ASSUME NEW s \in Seq(SysCall), NEW reply \in Replies
  PROVE  /\ \A i \in 1 .. MaxInode : means[i] \in Thing => OnNumber(i, reply, s) \in Request
         /\ \A n \in Name, lock \in {"shared", "exclusive"} :
              OnName(n, lock, reply, s) \in Request
         /\ \A f \in [fd : Fd \ {0}, num : 2 .. MaxInode, node : Thing] :
              OnFile(f, s) \in Request
<1>1. NoCall \in Request
  BY NoCallFit DEF Fit
<1>2. ASSUME NEW i \in 1 .. MaxInode, means[i] \in Thing PROVE OnNumber(i, reply, s) \in Request
  BY <1>1, <1>2 DEF OnNumber, Request, Replies
<1>3. ASSUME NEW n \in Name, NEW lock \in {"shared", "exclusive"}
      PROVE OnName(n, lock, reply, s) \in Request
  BY <1>1 DEF OnName, Request, Replies, AName
<1>4. ASSUME NEW f \in [fd : Fd \ {0}, num : 2 .. MaxInode, node : Thing]
      PROVE  OnFile(f, s) \in Request
  <2>1. f.fd \in 0 .. NoFd /\ f.num \in 1 .. MaxInode /\ f.node \in Thing
    BY RootIs DEF Thing, Fd, NoFd
  <2>. QED
    BY <1>1, <2>1 DEF OnFile, Request
<1>. QED
  BY <1>2, <1>3, <1>4

(* A number that can be used has a name and was told of. *)
LEMMA UsableNumber ==
  ASSUME Mapped, Told, NEW i \in Usable
  PROVE  /\ i \in 2 .. MaxInode /\ i \in 1 .. MaxInode /\ means[i] \in Thing
         /\ i \in mapper!Present(map)
         /\ \E n \in Name : dent[n] = i
<1>1. PICK n \in Name : i = dent[n] /\ i # 0
  BY DEF Usable
<1>2. mapper!Listed(map, Root, n) /\ mapper!Child(map, Root, n) = i /\ i \in 0 .. MaxInode
      /\ GoodMap(map)
  BY <1>1 DEF Mapped
<1>3. i # Root /\ i \in mapper!Present(map)
  BY <1>2, MapChild
<1>. QED
  BY <1>1, <1>2, <1>3, RootIs DEF Told, Thing

(* Sending a request about names. *)
LEMMA NameSent ==
  ASSUME NEW c \in Caller, NEW r, Send(c, r), UNCHANGED files,
         NEW n \in Name, NEW o \in Name, NEW kind \in DOMAIN OfKind, NEW s,
         NEW reply \in {"entry", "created", "removed", "renamed"},
         NEW lock \in {"shared", "exclusive"},
         IsScript(s), Harmless(s),
         lock = "shared" => reply = "entry" /\ Left(s) = {"lstat"},
         reply # "renamed" <=> n = o,
         lock = "exclusive" =>
           \/ Left(s) \subseteq Never /\ Left(s) # {}
           \/ reply = "created" /\ Left(s) = {"creat", "lstat"}
           \/ reply = "entry" /\ Left(s) = {"make", "lstat"}
           \/ reply = "removed" /\ Left(s) \in {{"unlink"}, {"rmdir"}}
           \/ reply = "renamed" /\ Left(s) = {"rename"},
         r.lock = lock,
         AsQueued([r EXCEPT !.step = "queued"],
           Root, n, o, NoFd, kind, {}, s, reply, lock, NoFd, NoNode),
         reply \in {"entry", "created"} => RoomFor(n) /\ (lock = "exclusive" => dent[n] = 0),
         reply = "renamed" =>
           /\ dent[n] # 0 /\ mapper!Listed(map, Root, o)
           /\ InUse \/ mapper!Child(map, Root, o) \notin Used
  PROVE  \E q : SendStep(c, q)
<1>. DEFINE q == [r EXCEPT !.step = "queued"]
<1>1. Fit(q) /\ SetFit(q)
  BY NameFit
<1>2. /\ q.step = "queued" /\ q.num = Root /\ q.name = n /\ q.newname = o /\ q.lock = lock
      /\ q.reply = reply /\ q.own = NoFd /\ ~ q.raced /\ ~ q.stray
  BY DEF AsQueued
<1>3. /\ ~ Busy(c) /\ Lockable(lock) /\ call' = [call EXCEPT ![c] = q]
      /\ queue' = Append(queue, c)
      /\ UNCHANGED <<readonly, threads, host, map, dent, means>>
  BY DEF Send
<1>. HIDE DEF q
<1>5. q.reply = "entry" => Left(q.script) \cap ({"lstat"} \cup Never) # {}
  <2>1. q.script = s /\ q.reply = reply
    BY DEF q, AsQueued
  <2>2. reply = "entry" => Left(s) \cap ({"lstat"} \cup Never) # {}
    OBVIOUS
  <2>. QED
    BY <2>1, <2>2
<1>4. Sent(c, q, files')
  BY <1>1, <1>2, <1>3, <1>5 DEF Sent, Creating
<1>. QED
  BY <1>3, <1>4 DEF SendStep

(* Sending a request by number. *)
LEMMA PathSent ==
  ASSUME NEW c \in Caller, NEW r, Send(c, r), UNCHANGED files, Mapped, Told,
         NEW i \in Usable, NEW set \in SUBSET Attr, NEW s,
         NEW reply \in {"none", "attr", "opened"},
         Harmless(s),
         reply # "opened" => Plain(s),
         reply = "opened" => IsScript(s) /\ Left(s) = {"open"} /\ means[i] \in File,
         reply = "attr" => (Left(s) \cap Never = {} /\ BothTimes =>
                              set \ {"mixed"} \subseteq UNION {Sets(x) : x \in Left(s)}),
         r.lock = "none",
         AsQueued([r EXCEPT !.step = "queued"],
           i, RootName, RootName, NoFd, "file", set, s, reply, "none", NoFd, means[i])
  PROVE  \E q : SendStep(c, q)
<1>. DEFINE q == [r EXCEPT !.step = "queued"]
<1>1. i \in 2 .. MaxInode /\ means[i] \in Thing
  BY UsableNumber
<1>2. Fit(q) /\ (BothTimes => SetFit(q))
  <2>1. AsQueued(q, i, RootName, RootName, NoFd, "file", set, s, reply, "none", NoFd, means[i])
    OBVIOUS
  <2>. HIDE DEF q
  <2>2. PICK node : node = means[i]
    OBVIOUS
  <2>3. node \in Thing /\ (reply = "opened" => node \in File)
    BY <1>1, <2>2
  <2>4. AsQueued(q, i, RootName, RootName, NoFd, "file", set, s, reply, "none", NoFd, node)
    BY <2>1, <2>2
  <2>. QED
    BY <1>1, <2>3, <2>4, PathFit
<1>3. /\ q.step = "queued" /\ q.num = i /\ q.lock = "none" /\ q.fd = NoFd /\ q.node = means[i]
      /\ q.reply = reply /\ q.own = NoFd /\ ~ q.raced /\ ~ q.stray
  BY DEF AsQueued
<1>4. /\ ~ Busy(c) /\ Lockable("none") /\ call' = [call EXCEPT ![c] = q]
      /\ queue' = Append(queue, c)
      /\ UNCHANGED <<readonly, threads, host, map, dent, means>>
  BY DEF Send
<1>. HIDE DEF q
<1>5. Sent(c, q, files')
  BY <1>2, <1>3, <1>4 DEF Sent, Creating
<1>. QED
  BY <1>4, <1>5 DEF SendStep

(* Sending a request about the directory. *)
LEMMA RootSent ==
  ASSUME NEW c \in Caller, NEW r, Send(c, r), UNCHANGED files, Told,
         NEW s, Plain(s), Harmless(s), NEW lock \in {"none", "shared"}, NEW own \in {0, NoFd},
         own = 0 => s = <<>>,
         r.lock = lock,
         AsQueued([r EXCEPT !.step = "queued"],
           Root, RootName, RootName, NoFd, "file", {}, s, "none", lock, own, means[Root])
  PROVE  \E q : SendStep(c, q)
<1>. DEFINE q == [r EXCEPT !.step = "queued"]
<1>1. means[Root] = RootNode
  BY DEF Told
<1>2. Fit(q) /\ SetFit(q)
  <2>1. AsQueued(q, Root, RootName, RootName, NoFd, "file", {}, s, "none", lock, own, RootNode)
    BY <1>1
  <2>. HIDE DEF q
  <2>. QED
    BY <2>1, RootFit
<1>3. /\ q.step = "queued" /\ q.num = Root /\ q.lock = lock /\ q.fd = NoFd
      /\ q.reply = "none" /\ q.own = own /\ ~ q.raced /\ ~ q.stray
  BY DEF AsQueued
<1>4. /\ ~ Busy(c) /\ Lockable(lock) /\ call' = [call EXCEPT ![c] = q]
      /\ queue' = Append(queue, c)
      /\ UNCHANGED <<readonly, threads, host, map, dent, means>>
  BY <1>1 DEF Send
<1>. HIDE DEF q
<1>5. Sent(c, q, files')
  BY <1>2, <1>3, <1>4 DEF Sent, Creating
<1>. QED
  BY <1>4, <1>5 DEF SendStep

(* Sending a request by handle. *)
LEMMA FileSent ==
  ASSUME NEW c \in Caller, NEW r, Send(c, r), Told,
         NEW f \in files, NEW s, IsScript(s), Harmless(s), NEW own \in {f.fd, NoFd},
         own = NoFd => Left(s) \subseteq {"pread", "pwrite"} \cup Never /\ UNCHANGED files,
         own # NoFd => /\ Left(s) = {"close"} /\ files' = files \ {f}
                       /\ \A d \in Caller : call[d].fd # f.fd,
         r.lock = "none",
         AsQueued([r EXCEPT !.step = "queued"],
           f.num, RootName, RootName, f.fd, "file", {}, s, "none", "none", own, f.node)
  PROVE  \E q : SendStep(c, q)
<1>. DEFINE q == [r EXCEPT !.step = "queued"]
<1>1. f \in [fd : Fd \ {0}, num : 2 .. MaxInode, node : Thing]
  BY DEF Told
<1>2. Fit(q) /\ SetFit(q)
  <2>1. AsQueued(q, f.num, RootName, RootName, f.fd, "file", {}, s, "none", "none", own, f.node)
    OBVIOUS
  <2>2. /\ own = NoFd => Left(s) \subseteq {"pread", "pwrite"} \cup Never
        /\ own # NoFd => Left(s) = {"close"}
    OBVIOUS
  <2>. HIDE DEF q
  <2>. QED
    BY <1>1, <2>1, <2>2, FileFits
<1>3. /\ q.step = "queued" /\ q.num = f.num /\ q.lock = "none" /\ q.fd = f.fd /\ q.node = f.node
      /\ q.reply = "none" /\ q.own = own /\ ~ q.raced /\ ~ q.stray
  BY DEF AsQueued
<1>4. /\ ~ Busy(c) /\ Lockable("none") /\ call' = [call EXCEPT ![c] = q]
      /\ queue' = Append(queue, c)
      /\ UNCHANGED <<readonly, threads, host, map, dent, means>>
  BY DEF Send
<1>. HIDE DEF q
<1>5. Sent(c, q, files')
  BY <1>2, <1>3, <1>4 DEF Sent, Creating
<1>. QED
  BY <1>4, <1>5 DEF SendStep

-----------------------------------------------------------------------------

(* Whatever users ask fits. *)
LEMMA UseFilesSent ==
  ASSUME Mapped, Told, NEW c \in Caller, UseFiles(c)
  PROVE  \E q : SendStep(c, q)
<1>1. ASSUME NEW s, Plain(s), Harmless(s), ByNumber(c, s) PROVE \E q : SendStep(c, q)
  <2>1. PICK i \in Usable : Send(c, OnNumber(i, "none", s)) /\ UNCHANGED files
    BY <1>1 DEF ByNumber, Asks
  <2>. DEFINE r == OnNumber(i, "none", s)
  <2>2. r.lock = "none" /\ AsQueued([r EXCEPT !.step = "queued"],
           i, RootName, RootName, NoFd, "file", {}, s, "none", "none", NoFd, means[i])
    <3>0. s \in Seq(SysCall)
      BY <1>1 DEF Plain, IsScript
    <3>1. OnNumber(i, "none", s) \in Request
      BY <3>0, UsableNumber, RequestsMade DEF Replies
    <3>2. [r EXCEPT !.step = "queued"] \in Request
      BY <3>1, RootIs DEF Request
    <3>. QED
      BY <3>2 DEF OnNumber, NoCall, AsQueued, OfKind
  <2>. HIDE DEF r
  <2>. QED
    BY <1>1, <2>1, <2>2, PathSent DEF r
<1>2. ASSUME NEW s, OnFileOnly(s), Harmless(s), ByFile(c, s) PROVE \E q : SendStep(c, q)
  <2>1. PICK f \in files : Send(c, OnFile(f, s)) /\ UNCHANGED files
    BY <1>2 DEF ByFile, Asks
  <2>. DEFINE r == OnFile(f, s)
  <2>2. r.lock = "none" /\ AsQueued([r EXCEPT !.step = "queued"],
           f.num, RootName, RootName, f.fd, "file", {}, s, "none", "none", NoFd, f.node)
    <3>0. s \in Seq(SysCall)
      BY <1>2 DEF OnFileOnly, IsScript
    <3>1. OnFile(f, s) \in Request
      BY <3>0, RequestsMade DEF Told, Replies
    <3>2. [r EXCEPT !.step = "queued"] \in Request
      BY <3>1, RootIs DEF Request
    <3>. QED
      BY <3>2 DEF OnFile, NoCall, AsQueued, OfKind
  <2>. HIDE DEF r
  <2>. QED
    BY <1>2, <2>1, <2>2, FileSent DEF r, OnFileOnly
<1>3. ASSUME NEW s, Plain(s), Harmless(s), OnRoot(c, "none", s) PROVE \E q : SendStep(c, q)
  <2>. DEFINE r == OnNumber(Root, "none", s)
  <2>1. Send(c, r) /\ UNCHANGED files
    BY <1>3 DEF OnRoot, Asks
  <2>2. r.lock = "none" /\ AsQueued([r EXCEPT !.step = "queued"],
           Root, RootName, RootName, NoFd, "file", {}, s, "none", "none", NoFd, means[Root])
    <3>0. s \in Seq(SysCall)
      BY <1>3 DEF Plain, IsScript
    <3>1. OnNumber(Root, "none", s) \in Request
      BY <3>0, RootIs, RequestsMade DEF Replies, Told, Thing
    <3>2. [r EXCEPT !.step = "queued"] \in Request
      BY <3>1, RootIs DEF Request
    <3>. QED
      BY <3>2 DEF OnNumber, NoCall, AsQueued, OfKind
  <2>. HIDE DEF r
  <2>. QED
    BY <1>3, <2>1, <2>2, RootSent, RootIs
<1>4. ASSUME NEW s, Plain(s), Harmless(s),
             Asks(c, [OnNumber(Root, "none", s) EXCEPT !.lock = "shared"])
      PROVE  \E q : SendStep(c, q)
  <2>. DEFINE r == [OnNumber(Root, "none", s) EXCEPT !.lock = "shared"]
  <2>1. Send(c, r) /\ UNCHANGED files
    BY <1>4 DEF Asks
  <2>2. r.lock = "shared" /\ AsQueued([r EXCEPT !.step = "queued"],
           Root, RootName, RootName, NoFd, "file", {}, s, "none", "shared", NoFd, means[Root])
    <3>0. s \in Seq(SysCall)
      BY <1>4 DEF Plain, IsScript
    <3>1. OnNumber(Root, "none", s) \in Request
      BY <3>0, RootIs, RequestsMade DEF Replies, Told, Thing
    <3>2. [r EXCEPT !.step = "queued"] \in Request
      BY <3>1, RootIs DEF Request
    <3>. QED
      BY <3>2 DEF OnNumber, NoCall, AsQueued, OfKind
  <2>. HIDE DEF r
  <2>. QED
    BY <1>4, <2>1, <2>2, RootSent, RootIs
<1>5. ASSUME Releasedir(c) PROVE \E q : SendStep(c, q)
  <2>. DEFINE r == [OnNumber(Root, "none", releasedir) EXCEPT !.own = 0]
  <2>1. Send(c, r) /\ UNCHANGED files
    BY <1>5 DEF Releasedir, Asks
  <2>2. r.lock = "none" /\ AsQueued([r EXCEPT !.step = "queued"],
           Root, RootName, RootName, NoFd, "file", {}, releasedir, "none", "none", 0, means[Root])
    <3>0. releasedir \in Seq(SysCall)
      BY OpenScripts DEF Plain, IsScript
    <3>1. OnNumber(Root, "none", releasedir) \in Request
      BY <3>0, RootIs, RequestsMade DEF Replies, Told, Thing
    <3>2. [r EXCEPT !.step = "queued"] \in Request
      BY <3>1, RootIs DEF Request
    <3>. QED
      BY <3>2 DEF OnNumber, NoCall, AsQueued, OfKind
  <2>3. releasedir = <<>> /\ Plain(releasedir) /\ Harmless(releasedir)
    BY OpenScripts
  <2>. HIDE DEF r
  <2>. QED
    BY <2>1, <2>2, <2>3, RootSent
<1>6. ASSUME Setattr(c) PROVE \E q : SendStep(c, q)
  <2>1. PICK i \in Usable, set \in SetAsks :
          Asks(c, [OnNumber(i, "attr", setattr(set)) EXCEPT !.set = set])
    BY <1>6 DEF Setattr
  <2>2. PICK s : s = setattr(set)
    OBVIOUS
  <2>. DEFINE r == [OnNumber(i, "attr", s) EXCEPT !.set = set]
  <2>3. Send(c, r) /\ UNCHANGED files
    BY <2>1, <2>2 DEF Asks
  <2>4. r.lock = "none" /\ AsQueued([r EXCEPT !.step = "queued"],
           i, RootName, RootName, NoFd, "file", set, s, "attr", "none", NoFd, means[i])
    <3>0. s \in Seq(SysCall)
      BY <2>2, SetattrSets, MirrorMountAssumption DEF Plain, IsScript
    <3>1. OnNumber(i, "attr", s) \in Request
      BY <3>0, UsableNumber, RequestsMade DEF Replies
    <3>2. [r EXCEPT !.step = "queued"] \in Request
      BY <3>1, <2>1, MirrorMountAssumption DEF Request, Attr
    <3>. QED
      BY <3>2 DEF OnNumber, NoCall, AsQueued, OfKind
  <2>5. set \in SUBSET Attr
    BY MirrorMountAssumption DEF Attr
  <2>6. /\ Plain(s) /\ Harmless(s)
        /\ Left(s) \cap Never = {} /\ BothTimes =>
                              set \ {"mixed"} \subseteq UNION {Sets(x) : x \in Left(s)}
    BY <2>2, <2>5, SetattrSets DEF Attr, BothTimes
  <2>. HIDE DEF r
  <2>. QED
    BY <2>3, <2>4, <2>5, <2>6, PathSent
<1>7. ASSUME Open(c) PROVE \E q : SendStep(c, q)
  <2>1. PICK i \in Usable : means[i] \in File /\ Asks(c, OnNumber(i, "opened", open))
    BY <1>7 DEF Open
  <2>. DEFINE r == OnNumber(i, "opened", open)
  <2>3. Send(c, r) /\ UNCHANGED files
    BY <2>1 DEF Asks
  <2>4. r.lock = "none" /\ AsQueued([r EXCEPT !.step = "queued"],
           i, RootName, RootName, NoFd, "file", {}, open, "opened", "none", NoFd, means[i])
    <3>0. open \in Seq(SysCall)
      BY NameScripts DEF IsScript
    <3>1. OnNumber(i, "opened", open) \in Request
      BY <3>0, UsableNumber, RequestsMade DEF Replies
    <3>2. [r EXCEPT !.step = "queued"] \in Request
      BY <3>1, RootIs DEF Request
    <3>. QED
      BY <3>2 DEF OnNumber, NoCall, AsQueued, OfKind
  <2>6. Harmless(open) /\ IsScript(open) /\ Left(open) = {"open"}
    BY NameScripts
  <2>. HIDE DEF r
  <2>. QED
    BY <2>1, <2>3, <2>4, <2>6, PathSent
<1>8. ASSUME Release(c) PROVE \E q : SendStep(c, q)
  <2>1. PICK f \in files :
          /\ \A d \in Caller : call[d].fd # f.fd
          /\ Send(c, [OnFile(f, release) EXCEPT !.own = f.fd])
          /\ files' = files \ {f}
    BY <1>8 DEF Release
  <2>. DEFINE r == [OnFile(f, release) EXCEPT !.own = f.fd]
  <2>4. r.lock = "none" /\ AsQueued([r EXCEPT !.step = "queued"],
           f.num, RootName, RootName, f.fd, "file", {}, release, "none", "none", f.fd, f.node)
    <3>0. release \in Seq(SysCall)
      BY FileScripts DEF IsScript
    <3>1. OnFile(f, release) \in Request
      BY <3>0, RequestsMade DEF Told, Replies
    <3>2. [r EXCEPT !.step = "queued"] \in Request
      BY <3>1, RootIs DEF Request, Told
    <3>. QED
      BY <3>2 DEF OnFile, NoCall, AsQueued, OfKind
  <2>5. Harmless(release) /\ IsScript(release) /\ Left(release) = {"close"}
    BY FileScripts
  <2>6. f.fd # NoFd
    BY RootIs DEF Told
  <2>. HIDE DEF r
  <2>. QED
    BY <2>1, <2>4, <2>5, <2>6, FileSent DEF r
<1>9. CASE Access(c) \/ Getxattr(c) \/ Listxattr(c) \/ Readlink(c) \/ Statfs(c)
           \/ Setxattr(c) \/ Removexattr(c) \/ Bmap(c) \/ Ioctl(c) \/ Link(c)
  BY <1>1, <1>9, LookScripts DEF Access, Getxattr, Listxattr, Readlink, Statfs, Setxattr,
     Removexattr, Bmap, Ioctl, Link
<1>10. CASE Getattr(c)
  BY <1>1, <1>10, OpenScripts DEF Getattr
<1>11. CASE Read(c) \/ Write(c) \/ Flush(c) \/ Fsync(c) \/ Fallocate(c) \/ Getlk(c)
            \/ Setlk(c) \/ CopyFileRange(c) \/ Lseek(c)
  BY <1>2, <1>11, FileScripts DEF Read, Write, Flush, Fsync, Fallocate, Getlk, Setlk,
     CopyFileRange, Lseek
<1>12. CASE Opendir(c) \/ Fsyncdir(c)
  BY <1>3, <1>12, OpenScripts DEF Opendir, Fsyncdir
<1>13. CASE Readdir(c) \/ Readdirplus(c)
  BY <1>4, <1>13, OpenScripts DEF Readdir, Readdirplus
<1>. QED
  BY <1>5, <1>6, <1>7, <1>8, <1>9, <1>10, <1>11, <1>12, <1>13 DEF UseFiles

(* Whatever is asked about names fits. *)
LEMMA ChangeNamesSent ==
  ASSUME NEW c \in Caller, ChangeNames(c)
  PROVE  \E q : SendStep(c, q)
<1>1. CASE Lookup(c)
  <2>1. PICK n \in Name : RoomFor(n) /\ Asks(c, OnName(n, "shared", "entry", lookup))
    BY <1>1 DEF Lookup
  <2>. DEFINE r == OnName(n, "shared", "entry", lookup)
  <2>2. Send(c, r) /\ UNCHANGED files
    BY <2>1 DEF Asks
  <2>3. r.lock = "shared" /\ AsQueued([r EXCEPT !.step = "queued"],
           Root, n, n, NoFd, "file", {}, lookup, "entry", "shared", NoFd, NoNode)
    <3>0. lookup \in Seq(SysCall)
      BY NameScripts DEF IsScript
    <3>1. OnName(n, "shared", "entry", lookup) \in Request
      BY <3>0, RequestsMade DEF Replies
    <3>2. [r EXCEPT !.step = "queued"] \in Request
      BY <3>1, RootIs DEF Request
    <3>. QED
      BY <3>2 DEF OnName, NoCall, AsQueued, OfKind
  <2>4. Harmless(lookup) /\ IsScript(lookup) /\ Left(lookup) = {"lstat"} /\ "file" \in DOMAIN OfKind
    BY NameScripts DEF OfKind
  <2>. HIDE DEF r
  <2>. QED
    BY <2>1, <2>2, <2>3, <2>4, NameSent
<1>2. ASSUME NEW n \in Name, NEW kind \in DOMAIN OfKind, NEW s, Harmless(s),
             NEW reply \in {"entry", "created"},
             reply = "entry" => Makes(s, "make"), reply = "created" => Makes(s, "creat"),
             New(c, n, kind, reply, s)
      PROVE  \E q : SendStep(c, q)
  <2>. DEFINE r == [OnName(n, "exclusive", reply, s) EXCEPT !.kind = kind]
  <2>1. Send(c, r) /\ UNCHANGED files /\ dent[n] = 0 /\ RoomFor(n)
    BY <1>2 DEF New, Asks
  <2>2. r.lock = "exclusive" /\ AsQueued([r EXCEPT !.step = "queued"],
           Root, n, n, NoFd, kind, {}, s, reply, "exclusive", NoFd, NoNode)
    <3>0. s \in Seq(SysCall)
      BY <1>2 DEF Makes, IsScript
    <3>1. OnName(n, "exclusive", reply, s) \in Request
      BY <3>0, RequestsMade DEF Replies
    <3>2. [r EXCEPT !.step = "queued"] \in Request
      BY <3>1, <1>2 DEF Request
    <3>. QED
      BY <3>2 DEF OnName, NoCall, AsQueued, OfKind
  <2>3. /\ IsScript(s)
        /\ \/ Left(s) \subseteq Never /\ Left(s) # {}
           \/ reply = "created" /\ Left(s) = {"creat", "lstat"}
           \/ reply = "entry" /\ Left(s) = {"make", "lstat"}
    BY <1>2 DEF Makes
  <2>. HIDE DEF r
  <2>. QED
    BY <1>2, <2>1, <2>2, <2>3, NameSent
<1>3. ASSUME NEW n \in Name, NEW s, Harmless(s), Moves(s, "unlink") \/ Moves(s, "rmdir"),
             Old(c, n, s)
      PROVE  \E q : SendStep(c, q)
  <2>. DEFINE r == OnName(n, "exclusive", "removed", s)
  <2>1. Send(c, r) /\ UNCHANGED files
    BY <1>3 DEF Old, Asks
  <2>2. r.lock = "exclusive" /\ "file" \in DOMAIN OfKind /\ AsQueued([r EXCEPT !.step = "queued"],
           Root, n, n, NoFd, "file", {}, s, "removed", "exclusive", NoFd, NoNode)
    <3>0. s \in Seq(SysCall)
      BY <1>3 DEF Moves, IsScript
    <3>1. OnName(n, "exclusive", "removed", s) \in Request
      BY <3>0, RequestsMade DEF Replies
    <3>2. [r EXCEPT !.step = "queued"] \in Request
      BY <3>1, RootIs DEF Request
    <3>. QED
      BY <3>2 DEF OnName, NoCall, AsQueued, OfKind
  <2>3. /\ IsScript(s)
        /\ \/ Left(s) \subseteq Never /\ Left(s) # {}
           \/ Left(s) \in {{"unlink"}, {"rmdir"}}
    BY <1>3 DEF Moves
  <2>. HIDE DEF r
  <2>. QED
    BY <1>3, <2>1, <2>2, <2>3, NameSent
<1>4. CASE Rename(c)
  <2>1. PICK o \in Name, n \in Name :
          /\ o # n /\ dent[o] # 0
          /\ mapper!Listed(map, Root, n)
          /\ InUse \/ mapper!Child(map, Root, n) \notin Used
          /\ Asks(c, [OnName(o, "exclusive", "renamed", rename) EXCEPT !.newname = n])
    BY <1>4 DEF Rename
  <2>. DEFINE r == [OnName(o, "exclusive", "renamed", rename) EXCEPT !.newname = n]
  <2>2. Send(c, r) /\ UNCHANGED files
    BY <2>1 DEF Asks
  <2>3. r.lock = "exclusive" /\ "file" \in DOMAIN OfKind /\ AsQueued([r EXCEPT !.step = "queued"],
           Root, o, n, NoFd, "file", {}, rename, "renamed", "exclusive", NoFd, NoNode)
    <3>0. rename \in Seq(SysCall)
      BY NameScripts DEF Moves, IsScript
    <3>1. OnName(o, "exclusive", "renamed", rename) \in Request
      BY <3>0, RequestsMade DEF Replies
    <3>2. [r EXCEPT !.step = "queued"] \in Request
      BY <3>1, <2>1 DEF Request, AName
    <3>. QED
      BY <3>2 DEF OnName, NoCall, AsQueued, OfKind
  <2>4. /\ IsScript(rename) /\ Harmless(rename)
        /\ \/ Left(rename) \subseteq Never /\ Left(rename) # {}
           \/ Left(rename) = {"rename"}
    BY NameScripts DEF Moves
  <2>. HIDE DEF r
  <2>. QED
    BY <2>1, <2>2, <2>3, <2>4, NameSent
<1>5. CASE Create(c) \/ Mknod(c) \/ Mkdir(c) \/ Symlink(c)
  <2>1. DOMAIN OfKind = {"file", "fifo", "dir", "link"}
    BY DEF OfKind
  <2>2. CASE Create(c)
    BY <1>2, <2>1, <2>2, NameScripts DEF Create
  <2>3. CASE Mknod(c)
    BY <1>2, <2>1, <2>3, NameScripts DEF Mknod
  <2>4. CASE Mkdir(c)
    BY <1>2, <2>1, <2>4, NameScripts DEF Mkdir
  <2>5. CASE Symlink(c)
    BY <1>2, <2>1, <2>5, NameScripts DEF Symlink
  <2>. QED
    BY <1>5, <2>2, <2>3, <2>4, <2>5
<1>6. CASE Unlink(c) \/ Rmdir(c)
  BY <1>3, <1>6, NameScripts DEF Unlink, Rmdir
<1>. QED
  BY <1>1, <1>4, <1>5, <1>6 DEF ChangeNames

-----------------------------------------------------------------------------
(* What a system call does, without the form of its action. *)

(* A set of numbers that is not empty has a least element. *)
LEMMA LeastFree ==
  ASSUME NEW S \in SUBSET Nat, S # {}
  PROVE  Min(S) \in S
BY LeastNumber DEF Min

(* The request that a call leaves behind, q, but for what is said apart. *)
Same(r, q) ==
  /\ q.step = r.step /\ q.num = r.num /\ q.name = r.name /\ q.newname = r.newname
  /\ q.fd = r.fd /\ q.kind = r.kind /\ q.set = r.set /\ q.reply = r.reply
  /\ q.lock = r.lock /\ q.node = r.node /\ q.raced = r.raced

Runs(c, q) ==
  /\ Running(c) /\ call[c].script # <<>>
  /\ call' = [call EXCEPT ![c] = q]
  /\ q \in Request /\ Same(call[c], q)
  /\ UNCHANGED <<readonly, threads, map, queue, dent, means, files>>

HitBy(r, q, v) ==
  /\ q.found = IF r.reply \in {"entry", "created"} THEN v ELSE NoNode
  /\ q.stray = (r.stray \/ (~ r.raced /\ r.node \in Node /\ v # r.node /\ r.node \notin Soft))

(* What is noted of a request whose call reached a node. *)
LEMMA HitForm ==
  ASSUME NEW r \in Request, NEW v \in Thing, NEW h, h = Hit(r, v)
  PROVE  /\ h \in Request /\ Same(r, h) /\ HitBy(r, h, v)
         /\ h.did = r.did /\ h.script = r.script /\ h.own = r.own
<1>1. NoNode \in Thing
  BY DEF Thing
<1>2. h.found = IF r.reply \in {"entry", "created"} THEN v ELSE NoNode
  BY DEF Hit, Request
<1>3. h.stray = (r.stray \/ (~ r.raced /\ r.node \in Node /\ v # r.node /\ r.node \notin Soft))
  BY DEF Hit, Request
<1>4. h \in Request
  BY <1>1 DEF Hit, Request
<1>5. h.did = r.did /\ h.script = r.script /\ h.own = r.own /\ Same(r, h)
  BY DEF Hit, Request, Same
<1>. QED
  BY <1>2, <1>3, <1>4, <1>5 DEF HitBy

(* What is left of a request after its call. *)
LEMMA TailForm ==
  ASSUME NEW r \in Request, r.script # <<>>, NEW q, q = [r EXCEPT !.script = Tail(@)]
  PROVE  /\ q \in Request /\ Same(r, q) /\ q.own = r.own /\ q.did = r.did
         /\ q.found = r.found /\ q.stray = r.stray /\ q.script = Tail(r.script)
<1>1. PICK t : t = Tail(r.script)
  OBVIOUS
<1>2. t \in Seq(SysCall)
  BY <1>1, HeadTailProperties DEF Request
<1>3. q = [r EXCEPT !.script = t]
  BY <1>1
<1>4. q.script = t
  BY <1>3 DEF Request
<1>5. Same(r, q) /\ q.own = r.own /\ q.did = r.did /\ q.found = r.found /\ q.stray = r.stray
  BY <1>3 DEF Request, Same
<1>6. q \in Request
  BY <1>2, <1>3 DEF Request
<1>. QED
  BY <1>1, <1>4, <1>5, <1>6

(* The step of a call that succeeds. *)
LEMMA SuccessForm ==
  ASSUME Shaped, Requested, NEW c \in Caller, NEW s, Turn(c, s), NEW h, NEW r,
         Succeeds(c, h, r)
  PROVE  /\ Running(c) /\ call[c].script # <<>> /\ Head(call[c].script) = s
         /\ call[c] \in Request
         /\ call' = [call EXCEPT ![c] = [r EXCEPT !.script = Tail(@)]]
         /\ host' = h
         /\ UNCHANGED <<readonly, threads, map, queue, dent, means, files>>
BY DEF Turn, Succeeds, Requested, Fit

(* One form for each system call: q is the request it leaves, v the node it
   reached. *)
Tailed(r, q) == q.script = Tail(r.script)

Reaches(c, q, v) ==
  Runs(c, q) /\ Tailed(call[c], q) /\ HitBy(call[c], q, v) /\ v \in Thing

PathForm(c, q, v) ==
  /\ Reaches(c, q, v) /\ host' = host /\ q.own = call[c].own
  /\ At(c) # NoNode
  /\ \/ Head(call[c].script) \in {"lstat", "look", "mark", "utimensat"} /\ v = At(c)
     \/ Head(call[c].script) \in {"chmod", "chown"} /\ v = Followed(At(c))
  /\ q.did = call[c].did \cup Sets(Head(call[c].script))

Opened(c, q, v) ==
  /\ Reaches(c, q, v) /\ q.did = call[c].did
  /\ q.own \in Fd \ {0} /\ host.desc[q.own] = NoNode
  /\ host'.desc = [host.desc EXCEPT ![q.own] = v]

OpenForm(c, q, v) ==
  /\ Opened(c, q, v) /\ Head(call[c].script) = "open"
  /\ host'.entry = host.entry
  /\ At(c) # NoNode /\ v = Followed(At(c))

CreatForm(c, q, v) ==
  /\ Opened(c, q, v) /\ Head(call[c].script) = "creat"
  /\ host'.entry = [host.entry EXCEPT ![call[c].name] = v]
  /\ v \in Node /\ At(c) \in {v, NoNode}

WaitForm(c, q) ==
  /\ Runs(c, q) /\ q.script = <<"wait">> /\ Head(call[c].script) = "open"
  /\ q.own = call[c].own /\ q.did = call[c].did
  /\ q.found = call[c].found /\ q.stray = call[c].stray /\ host' = host

NameForm(c, q) ==
  /\ Runs(c, q) /\ Tailed(call[c], q)
  /\ q.own = call[c].own /\ q.did = call[c].did
  /\ q.found = call[c].found /\ q.stray = call[c].stray /\ host'.desc = host.desc
  /\ \/ /\ Head(call[c].script) = "make" /\ At(c) = NoNode
        /\ \E v \in Node : host'.entry = [host.entry EXCEPT ![call[c].name] = v]
     \/ /\ Head(call[c].script) \in {"unlink", "rmdir"}
        /\ host'.entry = [host.entry EXCEPT ![call[c].name] = NoNode]
     \/ /\ Head(call[c].script) = "rename" /\ At(c) # NoNode
        /\ host'.entry = [host.entry EXCEPT ![call[c].name] = NoNode,
                                            ![call[c].newname] = At(c)]

OwnForm(c, q, v) ==
  /\ Reaches(c, q, v) /\ host' = host /\ q.own = call[c].own
  /\ Head(call[c].script) \in {"fstat", "ftruncate", "getdents"}
  /\ v = host.desc[call[c].own] /\ q.did = call[c].did \cup Sets(Head(call[c].script))

CloseForm(c, q, v) ==
  /\ Reaches(c, q, v) /\ q.own = NoFd /\ q.did = call[c].did
  /\ Head(call[c].script) = "close"
  /\ v = host.desc[call[c].own] /\ v # NoNode
  /\ host'.entry = host.entry
  /\ host'.desc = [host.desc EXCEPT ![call[c].own] = NoNode]

HandleForm(c, q, v) ==
  /\ Reaches(c, q, v) /\ host' = host /\ q.own = call[c].own /\ q.did = call[c].did
  /\ Head(call[c].script) \in {"pread", "pwrite"}
  /\ v = host.desc[call[c].fd]

(* The node behind a name and what open makes of it. *)
LEMMA AtThing ==
  ASSUME Requested, Hosted, NEW c \in Caller
  PROVE  /\ At(c) \in Thing /\ Followed(At(c)) \in Thing
         /\ call[c].name \in Name => At(c) \in Node \cup {NoNode}
         /\ call[c].name \in AName
         /\ host.entry \in [AName -> Node \cup {NoNode, RootNode}]
         /\ host.desc \in [Fd -> Thing]
<1>1. call[c].name \in AName
  BY DEF Requested, Fit, Request
<1>. QED
  BY <1>1 DEF Hosted, At, Followed, Thing

(* A change of the names leaves the descriptors, and conversely. *)
LEMMA HostEntry ==
  ASSUME Hosted, NEW x
  PROVE  /\ [host EXCEPT !.entry = x].entry = x /\ [host EXCEPT !.entry = x].desc = host.desc
         /\ [host EXCEPT !.desc = x].desc = x /\ [host EXCEPT !.desc = x].entry = host.entry
BY DEF Hosted

(* A call by path. *)
LEMMA PathCallForm ==
  ASSUME Shaped, Requested, Hosted, NEW c \in Caller, PathCall(c)
  PROVE  \E q, v : PathForm(c, q, v)
<1>1. PICK s \in {"lstat", "look", "mark", "chmod", "chown", "utimensat"} :
    /\ Turn(c, s)
    /\ At(c) # NoNode
    /\ Succeeds(c, host, [Hit(call[c], IF s \in {"chmod", "chown"}
                                       THEN Followed(At(c)) ELSE At(c))
                          EXCEPT !.did = @ \cup Sets(s)])
  BY DEF PathCall
<1>2. PICK v : v = IF s \in {"chmod", "chown"} THEN Followed(At(c)) ELSE At(c)
  OBVIOUS
<1>3. v \in Thing
  BY <1>2, AtThing
<1>4. PICK r : r = call[c]
  OBVIOUS
<1>5. PICK h : h = Hit(r, v)
  OBVIOUS
<1>6. PICK d : d = [h EXCEPT !.did = @ \cup Sets(s)]
  OBVIOUS
<1>7. Turn(c, s) /\ Succeeds(c, host, d)
  BY <1>1, <1>2, <1>4, <1>5, <1>6
<1>8. /\ Running(c) /\ r.script # <<>> /\ Head(r.script) = s
      /\ r \in Request
      /\ call' = [call EXCEPT ![c] = [d EXCEPT !.script = Tail(@)]]
      /\ host' = host
      /\ UNCHANGED <<readonly, threads, map, queue, dent, means, files>>
  BY <1>4, <1>7, SuccessForm
<1>9. /\ h \in Request /\ Same(r, h) /\ HitBy(r, h, v)
      /\ h.did = r.did /\ h.script = r.script /\ h.own = r.own
  BY <1>3, <1>5, <1>8, HitForm
<1>10. Sets(s) \subseteq Attr
  BY DEF Sets, Attr
<1>11. /\ d \in Request /\ Same(r, d) /\ HitBy(r, d, v)
       /\ d.did = r.did \cup Sets(s) /\ d.script = r.script /\ d.own = r.own
  BY <1>6, <1>9, <1>10 DEF Request, Same, HitBy
<1>12. PICK q : q = [d EXCEPT !.script = Tail(@)]
  OBVIOUS
<1>13. /\ q \in Request /\ Same(d, q) /\ q.own = d.own /\ q.did = d.did
       /\ q.found = d.found /\ q.stray = d.stray /\ q.script = Tail(d.script)
  BY <1>8, <1>11, <1>12, TailForm
<1>14. /\ Same(r, q) /\ HitBy(r, q, v)
  BY <1>11, <1>13 DEF Same, HitBy
<1>15. Runs(c, q)
  BY <1>4, <1>8, <1>12, <1>13, <1>14 DEF Runs
<1>16. PathForm(c, q, v)
  BY <1>1, <1>2, <1>3, <1>4, <1>8, <1>11, <1>13, <1>14, <1>15 DEF PathForm, Reaches, Tailed
<1>. QED
  BY <1>16

(* A call on the descriptor of the request. *)
LEMMA OwnCallForm ==
  ASSUME Shaped, Requested, Hosted, NEW c \in Caller, OwnCall(c)
  PROVE  \E q, v : OwnForm(c, q, v)
<1>1. PICK s \in {"fstat", "ftruncate", "getdents"} :
    /\ Turn(c, s)
    /\ Succeeds(c, host, [Hit(call[c], host.desc[call[c].own]) EXCEPT !.did = @ \cup Sets(s)])
  BY DEF OwnCall
<1>2. PICK v : v = host.desc[call[c].own]
  OBVIOUS
<1>4. PICK r : r = call[c]
  OBVIOUS
<1>5. PICK h : h = Hit(r, v)
  OBVIOUS
<1>6. PICK d : d = [h EXCEPT !.did = @ \cup Sets(s)]
  OBVIOUS
<1>7. Turn(c, s) /\ Succeeds(c, host, d)
  BY <1>1, <1>2, <1>4, <1>5, <1>6
<1>8. /\ Running(c) /\ r.script # <<>> /\ Head(r.script) = s
      /\ r \in Request
      /\ call' = [call EXCEPT ![c] = [d EXCEPT !.script = Tail(@)]]
      /\ host' = host
      /\ UNCHANGED <<readonly, threads, map, queue, dent, means, files>>
  BY <1>4, <1>7, SuccessForm
<1>3. v \in Thing
  <2>1. IsScript(r.script) /\ OwnFit(r, Left(r.script))
    BY <1>4 DEF Requested, Fit, Scripted
  <2>2. s \in Left(r.script) /\ s \in OnOwn /\ Left(r.script) \cap Opening = {}
    BY <1>8, <2>1, OneLess DEF OnOwn
  <2>3. r.own \in Fd
    BY <2>1, <2>2 DEF OwnFit, HasOwn
  <2>. QED
    BY <1>2, <1>4, <2>3, AtThing
<1>9. /\ h \in Request /\ Same(r, h) /\ HitBy(r, h, v)
      /\ h.did = r.did /\ h.script = r.script /\ h.own = r.own
  BY <1>3, <1>5, <1>8, HitForm
<1>10. Sets(s) \subseteq Attr
  BY DEF Sets, Attr
<1>11. /\ d \in Request /\ Same(r, d) /\ HitBy(r, d, v)
       /\ d.did = r.did \cup Sets(s) /\ d.script = r.script /\ d.own = r.own
  BY <1>6, <1>9, <1>10 DEF Request, Same, HitBy
<1>12. PICK q : q = [d EXCEPT !.script = Tail(@)]
  OBVIOUS
<1>13. /\ q \in Request /\ Same(d, q) /\ q.own = d.own /\ q.did = d.did
       /\ q.found = d.found /\ q.stray = d.stray /\ q.script = Tail(d.script)
  BY <1>8, <1>11, <1>12, TailForm
<1>14. /\ Same(r, q) /\ HitBy(r, q, v)
  BY <1>11, <1>13 DEF Same, HitBy
<1>15. Runs(c, q)
  BY <1>4, <1>8, <1>12, <1>13, <1>14 DEF Runs
<1>16. OwnForm(c, q, v)
  BY <1>1, <1>2, <1>3, <1>4, <1>8, <1>11, <1>13, <1>14, <1>15 DEF OwnForm, Reaches, Tailed
<1>. QED
  BY <1>16

(* A call of close. *)
LEMMA CloseCallForm ==
  ASSUME Shaped, Requested, Hosted, NEW c \in Caller, CloseCall(c)
  PROVE  \E q, v : CloseForm(c, q, v)
<1>2. PICK v : v = host.desc[call[c].own]
  OBVIOUS
<1>4. PICK r : r = call[c]
  OBVIOUS
<1>5. PICK h : h = Hit(r, v)
  OBVIOUS
<1>6. PICK d : d = [h EXCEPT !.own = NoFd]
  OBVIOUS
<1>1. PICK k : k = [host EXCEPT !.desc[call[c].own] = NoNode]
  OBVIOUS
<1>7. Turn(c, "close") /\ Succeeds(c, k, d) /\ v # NoNode
  BY <1>1, <1>2, <1>4, <1>5, <1>6 DEF CloseCall
<1>8. /\ Running(c) /\ r.script # <<>> /\ Head(r.script) = "close"
      /\ r \in Request
      /\ call' = [call EXCEPT ![c] = [d EXCEPT !.script = Tail(@)]]
      /\ host' = k
      /\ UNCHANGED <<readonly, threads, map, queue, dent, means, files>>
  BY <1>4, <1>7, SuccessForm
<1>3. v \in Thing
  <2>1. IsScript(r.script) /\ OwnFit(r, Left(r.script))
    BY <1>4 DEF Requested, Fit, Scripted
  <2>2. "close" \in Left(r.script) /\ "close" \in OnOwn /\ Left(r.script) \cap Opening = {}
    BY <1>8, <2>1, OneLess DEF OnOwn
  <2>3. r.own \in Fd
    BY <2>1, <2>2 DEF OwnFit, HasOwn
  <2>. QED
    BY <1>2, <1>4, <2>3, AtThing
<1>9. /\ h \in Request /\ Same(r, h) /\ HitBy(r, h, v)
      /\ h.did = r.did /\ h.script = r.script /\ h.own = r.own
  BY <1>3, <1>5, <1>8, HitForm
<1>11. /\ d \in Request /\ Same(r, d) /\ HitBy(r, d, v)
       /\ d.did = r.did /\ d.script = r.script /\ d.own = NoFd
  BY <1>6, <1>9, RootIs DEF Request, Same, HitBy
<1>12. PICK q : q = [d EXCEPT !.script = Tail(@)]
  OBVIOUS
<1>13. /\ q \in Request /\ Same(d, q) /\ q.own = d.own /\ q.did = d.did
       /\ q.found = d.found /\ q.stray = d.stray /\ q.script = Tail(d.script)
  BY <1>8, <1>11, <1>12, TailForm
<1>14. /\ Same(r, q) /\ HitBy(r, q, v)
  BY <1>11, <1>13 DEF Same, HitBy
<1>15. Runs(c, q)
  BY <1>4, <1>8, <1>12, <1>13, <1>14 DEF Runs
<1>17. host'.entry = host.entry /\ host'.desc = [host.desc EXCEPT ![call[c].own] = NoNode]
  BY <1>1, <1>8 DEF Hosted
<1>16. CloseForm(c, q, v)
  BY <1>2, <1>3, <1>4, <1>7, <1>8, <1>11, <1>13, <1>14, <1>15, <1>17 DEF CloseForm, Reaches, Tailed
<1>. QED
  BY <1>16

(* A call on a handle. *)
LEMMA HandleCallForm ==
  ASSUME Shaped, Requested, Hosted, NEW c \in Caller, HandleCall(c)
  PROVE  \E q, v : HandleForm(c, q, v)
<1>2. PICK v : v = host.desc[call[c].fd]
  OBVIOUS
<1>4. PICK r : r = call[c]
  OBVIOUS
<1>5. PICK h : h = Hit(r, v)
  OBVIOUS
<1>1. PICK s \in {"pread", "pwrite"} : Turn(c, s) /\ v # NoNode /\ Succeeds(c, host, h)
  BY <1>2, <1>4, <1>5 DEF HandleCall
<1>8. /\ Running(c) /\ r.script # <<>> /\ Head(r.script) = s
      /\ r \in Request
      /\ call' = [call EXCEPT ![c] = [h EXCEPT !.script = Tail(@)]]
      /\ host' = host
      /\ UNCHANGED <<readonly, threads, map, queue, dent, means, files>>
  BY <1>1, <1>4, SuccessForm
<1>3. v \in Thing
  <2>1. IsScript(r.script) /\ FileFit(r, Left(r.script))
    BY <1>4 DEF Requested, Fit, Scripted
  <2>2. s \in Left(r.script)
    BY <1>8, <2>1, OneLess
  <2>3. r.fd \in Fd
    BY <2>1, <2>2 DEF FileFit
  <2>. QED
    BY <1>2, <1>4, <2>3, AtThing
<1>9. /\ h \in Request /\ Same(r, h) /\ HitBy(r, h, v)
      /\ h.did = r.did /\ h.script = r.script /\ h.own = r.own
  BY <1>3, <1>5, <1>8, HitForm
<1>12. PICK q : q = [h EXCEPT !.script = Tail(@)]
  OBVIOUS
<1>13. /\ q \in Request /\ Same(h, q) /\ q.own = h.own /\ q.did = h.did
       /\ q.found = h.found /\ q.stray = h.stray /\ q.script = Tail(h.script)
  BY <1>8, <1>9, <1>12, TailForm
<1>14. /\ Same(r, q) /\ HitBy(r, q, v)
  BY <1>9, <1>13 DEF Same, HitBy
<1>15. Runs(c, q)
  BY <1>4, <1>8, <1>12, <1>13, <1>14 DEF Runs
<1>16. HandleForm(c, q, v)
  BY <1>2, <1>3, <1>4, <1>8, <1>9, <1>13, <1>14, <1>15 DEF HandleForm, Reaches, Tailed
<1>. QED
  BY <1>16

(* A call that opens a descriptor. *)
LEMMA OpensForm ==
  ASSUME Shaped, Requested, Hosted, NEW c \in Caller, NEW s, Turn(c, s), NEW h, NEW v \in Thing,
         Opens(c, h, v), h.desc = host.desc,
         \A d, x : [h EXCEPT !.desc[d] = x].entry = h.entry
                   /\ [h EXCEPT !.desc[d] = x].desc = [h.desc EXCEPT ![d] = x]
  PROVE  \E q : /\ Opened(c, q, v) /\ Head(call[c].script) = s
                /\ host'.entry = h.entry
<1>1. PICK d : d = Min(Free)
  OBVIOUS
<1>2. d \in Fd \ {0} /\ host.desc[d] = NoNode
  <2>1. Free \in SUBSET Nat /\ Free # {}
    BY RootIs DEF Free, Opens, Fd
  <2>2. d \in Free
    BY <1>1, <2>1, LeastFree
  <2>3. host.desc[0] # NoNode
    BY MirrorMountAssumption DEF Hosted
  <2>. QED
    BY <2>2, <2>3 DEF Free
<1>3. PICK r : r = call[c]
  OBVIOUS
<1>4. PICK k : k = Hit(r, v)
  OBVIOUS
<1>5. PICK o : o = [k EXCEPT !.own = d]
  OBVIOUS
<1>6. Succeeds(c, [h EXCEPT !.desc[d] = v], o)
  BY <1>1, <1>3, <1>4, <1>5 DEF Opens
<1>8. /\ Running(c) /\ r.script # <<>> /\ Head(r.script) = s
      /\ r \in Request
      /\ call' = [call EXCEPT ![c] = [o EXCEPT !.script = Tail(@)]]
      /\ host' = [h EXCEPT !.desc[d] = v]
      /\ UNCHANGED <<readonly, threads, map, queue, dent, means, files>>
  BY <1>3, <1>6, SuccessForm
<1>9. /\ k \in Request /\ Same(r, k) /\ HitBy(r, k, v)
      /\ k.did = r.did /\ k.script = r.script
  BY <1>4, <1>8, HitForm
<1>10. d \in 0 .. NoFd
  BY <1>2, RootIs
<1>11. /\ o \in Request /\ Same(r, o) /\ HitBy(r, o, v)
       /\ o.did = r.did /\ o.script = r.script /\ o.own = d
  BY <1>5, <1>9, <1>10 DEF Request, Same, HitBy
<1>12. PICK q : q = [o EXCEPT !.script = Tail(@)]
  OBVIOUS
<1>13. /\ q \in Request /\ Same(o, q) /\ q.own = o.own /\ q.did = o.did
       /\ q.found = o.found /\ q.stray = o.stray /\ q.script = Tail(o.script)
  BY <1>8, <1>11, <1>12, TailForm
<1>14. /\ Same(r, q) /\ HitBy(r, q, v)
  BY <1>11, <1>13 DEF Same, HitBy
<1>15. Runs(c, q)
  BY <1>3, <1>8, <1>12, <1>13, <1>14 DEF Runs
<1>16. host'.entry = h.entry /\ host'.desc = [host.desc EXCEPT ![d] = v]
  BY <1>8
<1>17. Opened(c, q, v)
  BY <1>2, <1>3, <1>8, <1>11, <1>13, <1>14, <1>15, <1>16 DEF Opened, Reaches, Tailed
<1>. QED
  BY <1>3, <1>8, <1>16, <1>17

(* A call of open. *)
LEMMA OpenCallForm ==
  ASSUME Shaped, Requested, Hosted, NEW c \in Caller, OpenCall(c)
  PROVE  \E q, v : OpenForm(c, q, v)
<1>1. /\ Turn(c, "open")
      /\ At(c) # NoNode
      /\ Opens(c, host, Followed(At(c)))
  BY DEF OpenCall
<1>2. PICK v : v = Followed(At(c))
  OBVIOUS
<1>3. v \in Thing
  BY <1>2, AtThing
<1>4. \A d, x : [host EXCEPT !.desc[d] = x].entry = host.entry
                   /\ [host EXCEPT !.desc[d] = x].desc = [host.desc EXCEPT ![d] = x]
  BY DEF Hosted
<1>5. PICK q : Opened(c, q, v) /\ Head(call[c].script) = "open" /\ host'.entry = host.entry
  BY <1>1, <1>2, <1>3, <1>4, OpensForm
<1>. QED
  BY <1>1, <1>2, <1>5 DEF OpenForm

(* A call of open with O_CREAT. *)
LEMMA CreatCallForm ==
  ASSUME Shaped, Requested, Hosted, NEW c \in Caller, CreatCall(c)
  PROVE  \E q, v : CreatForm(c, q, v)
<1>0. Turn(c, "creat")
  BY DEF CreatCall
<1>1. CASE At(c) \in File /\ Opens(c, host, At(c))
  <2>2. PICK v : v = At(c)
    OBVIOUS
  <2>3. v \in Thing /\ v \in Node
    BY <1>1, <2>2 DEF Node, Thing
  <2>4. \A d, x : [host EXCEPT !.desc[d] = x].entry = host.entry
                     /\ [host EXCEPT !.desc[d] = x].desc = [host.desc EXCEPT ![d] = x]
    BY DEF Hosted
  <2>5. PICK q : Opened(c, q, v) /\ Head(call[c].script) = "creat" /\ host'.entry = host.entry
    BY <1>0, <1>1, <2>2, <2>3, <2>4, OpensForm
  <2>6. host.entry = [host.entry EXCEPT ![call[c].name] = v]
    BY <2>2, AtThing DEF At
  <2>. QED
    BY <2>2, <2>3, <2>5, <2>6 DEF CreatForm
<1>2. CASE At(c) = NoNode /\ \E v \in Unmade(c) : Opens(c, Made(c, v), v)
  <2>1. PICK v \in Unmade(c) : Opens(c, Made(c, v), v)
    BY <1>2
  <2>2. v \in Node /\ v \in Thing
    <3>1. call[c].kind \in DOMAIN OfKind
      BY DEF Requested, Fit, Request
    <3>. QED
      BY <3>1 DEF Unmade, OfKind, Node, Thing
  <2>3. PICK h : h = Made(c, v)
    OBVIOUS
  <2>4. /\ h.desc = host.desc /\ h.entry = [host.entry EXCEPT ![call[c].name] = v]
        /\ h \in [entry : {h.entry}, desc : {h.desc}]
    BY <2>3 DEF Made, Hosted
  <2>5. \A d, x : [h EXCEPT !.desc[d] = x].entry = h.entry
                     /\ [h EXCEPT !.desc[d] = x].desc = [h.desc EXCEPT ![d] = x]
    BY <2>4
  <2>6. PICK q : Opened(c, q, v) /\ Head(call[c].script) = "creat" /\ host'.entry = h.entry
    BY <1>0, <2>1, <2>2, <2>3, <2>4, <2>5, OpensForm
  <2>. QED
    BY <1>2, <2>2, <2>4, <2>6 DEF CreatForm
<1>. QED
  BY <1>1, <1>2 DEF CreatCall

(* Opening a pipe. *)
LEMMA OpenWaitsForm ==
  ASSUME Shaped, Requested, Hosted, NEW c \in Caller, OpenWaits(c)
  PROVE  \E q : WaitForm(c, q)
<1>1. /\ Running(c) /\ call[c].script # <<>> /\ Head(call[c].script) = "open"
      /\ call' = [call EXCEPT ![c].script = <<"wait">>]
      /\ UNCHANGED <<readonly, threads, host, map, queue, dent, means, files>>
  BY DEF OpenWaits, Turn
<1>2. PICK r : r = call[c]
  OBVIOUS
<1>3. r \in Request
  BY <1>2 DEF Requested, Fit
<1>4. PICK w : w = <<"wait">>
  OBVIOUS
<1>5. w \in Seq(SysCall)
  BY <1>4 DEF SysCall
<1>6. PICK q : q = [r EXCEPT !.script = w]
  OBVIOUS
<1>7. q \in Request /\ Same(r, q) /\ q.script = w /\ q.own = r.own /\ q.did = r.did
      /\ q.found = r.found /\ q.stray = r.stray
  BY <1>3, <1>5, <1>6 DEF Request, Same
<1>8. call' = [call EXCEPT ![c] = q]
  BY <1>1, <1>2, <1>4, <1>6
<1>. QED
  BY <1>1, <1>2, <1>4, <1>7, <1>8 DEF WaitForm, Runs

(* A call that changes names. *)
LEMMA NameCallForm ==
  ASSUME Shaped, Requested, Hosted, NEW c \in Caller, MakeCall(c) \/ RemoveCall(c) \/ RenameCall(c)
  PROVE  \E q : NameForm(c, q)
<1>1. ASSUME NEW s, Turn(c, s), NEW h, Succeeds(c, h, call[c])
      PROVE  \E q : /\ Runs(c, q) /\ Tailed(call[c], q)
                    /\ q.own = call[c].own /\ q.did = call[c].did
                    /\ q.found = call[c].found /\ q.stray = call[c].stray
                    /\ host' = h /\ Head(call[c].script) = s
  <2>1. PICK r : r = call[c]
    OBVIOUS
  <2>8. /\ Running(c) /\ r.script # <<>> /\ Head(r.script) = s
        /\ r \in Request
        /\ call' = [call EXCEPT ![c] = [r EXCEPT !.script = Tail(@)]]
        /\ host' = h
        /\ UNCHANGED <<readonly, threads, map, queue, dent, means, files>>
    BY <1>1, <2>1, SuccessForm
  <2>12. PICK q : q = [r EXCEPT !.script = Tail(@)]
    OBVIOUS
  <2>13. /\ q \in Request /\ Same(r, q) /\ q.own = r.own /\ q.did = r.did
         /\ q.found = r.found /\ q.stray = r.stray /\ q.script = Tail(r.script)
    BY <2>8, <2>12, TailForm
  <2>. QED
    BY <2>1, <2>8, <2>12, <2>13 DEF Runs, Tailed
<1>2. CASE MakeCall(c)
  <2>1. PICK v \in Unmade(c) : Succeeds(c, Made(c, v), call[c])
    BY <1>2 DEF MakeCall
  <2>2. v \in Node
    <3>1. call[c].kind \in DOMAIN OfKind
      BY DEF Requested, Fit, Request
    <3>. QED
      BY <3>1 DEF Unmade, OfKind, Node
  <2>3. PICK h : h = Made(c, v)
    OBVIOUS
  <2>4. h.desc = host.desc /\ h.entry = [host.entry EXCEPT ![call[c].name] = v]
    BY <2>3 DEF Made, Hosted
  <2>. QED
    BY <1>1, <1>2, <2>1, <2>2, <2>3, <2>4 DEF NameForm, MakeCall
<1>3. CASE RemoveCall(c)
  <2>1. PICK s \in {"unlink", "rmdir"} :
          Turn(c, s) /\ Succeeds(c, [host EXCEPT !.entry[call[c].name] = NoNode], call[c])
    BY <1>3 DEF RemoveCall
  <2>3. PICK h : h = [host EXCEPT !.entry[call[c].name] = NoNode]
    OBVIOUS
  <2>4. h.desc = host.desc /\ h.entry = [host.entry EXCEPT ![call[c].name] = NoNode]
    BY <2>3 DEF Hosted
  <2>. QED
    BY <1>1, <2>1, <2>3, <2>4 DEF NameForm
<1>4. CASE RenameCall(c)
  <2>3. PICK h : h = [host EXCEPT !.entry[call[c].name] = NoNode,
                                  !.entry[call[c].newname] = At(c)]
    OBVIOUS
  <2>4. h.desc = host.desc /\ h.entry = [host.entry EXCEPT ![call[c].name] = NoNode,
                                            ![call[c].newname] = At(c)]
    BY <2>3 DEF Hosted
  <2>. QED
    BY <1>1, <1>4, <2>3, <2>4 DEF NameForm, RenameCall
<1>. QED
  BY <1>2, <1>3, <1>4

-----------------------------------------------------------------------------
(* A request that makes a call of its script still fits. *)

(* The rest of a script is a script. *)
LEMMA ScriptedTail ==
  ASSUME NEW r, NEW q, Scripted(r), r.step = "running", r.script # <<>>,
         q.step = r.step, q.script = Tail(r.script)
  PROVE  /\ Scripted(q) /\ IsScript(r.script)
         /\ Head(r.script) \in Left(r.script)
         /\ Left(q.script) = Left(r.script) \ {Head(r.script)}
         /\ Head(r.script) \in OnOwn => Left(r.script) \cap Opening = {}
         /\ Head(r.script) = "lstat" => Left(r.script) \cap Renaming = {}
         /\ Head(r.script) = "close" => Left(r.script) \cap OnOwn = {"close"}
         /\ ~ (Opening \subseteq Left(r.script))
BY OneLess DEF Scripted, Harmless

(* With less left to do a request still fits its lock. *)
LEMMA LockTail ==
  ASSUME NEW r, NEW q, Same(r, q), r.step = "running", NEW left, NEW less, less \subseteq left,
         LockFit(r, left)
  PROVE  LockFit(q, less)
<1>1. \A S : S \cap less = {} \/ S \cap left # {}
  OBVIOUS
<1>2. r.lock = "exclusive" => AloneFit(q, less)
  BY DEF LockFit, AloneFit, Same
<1>. QED
  BY <1>2 DEF LockFit, Same

(* With less left to do a request still fits its handle. *)
LEMMA FileTail ==
  ASSUME NEW r, NEW q, Same(r, q), NEW left, NEW less, less \subseteq left,
         FileFit(r, left), q.own = r.own
  PROVE  FileFit(q, less)
BY DEF FileFit, Same

(* A call that neither opens nor closes. *)
LEMMA FitTail ==
  ASSUME NEW r, NEW q, Fit(r), r.step = "running", r.script # <<>>,
         q \in Request, Same(r, q), q.script = Tail(r.script), q.own = r.own,
         Head(r.script) \notin Opening \cup {"close"} \cup Never
  PROVE  Fit(q)
<1>. DEFINE h == Head(r.script)
            left == Left(r.script)
            less == Left(q.script)
<1>1. Scripted(q) /\ h \in left /\ less = left \ {h}
  BY ScriptedTail DEF Fit, Same
<1>2. h \notin Opening /\ h # "close" /\ h \notin Never
  OBVIOUS
<1>. HIDE DEF h, left, less
<1>3. LockFit(q, less)
  BY <1>1, LockTail DEF Fit, left
<1>4. FileFit(q, less)
  BY <1>1, FileTail DEF Fit, left
<1>5. OwnFit(r, left)
  BY DEF Fit, left
<1>6. less \cap Opening = left \cap Opening /\ ("close" \in less <=> "close" \in left)
      /\ less \cap (Opening \cup Never) = left \cap (Opening \cup Never)
      /\ less \cap OnOwn \subseteq left \cap OnOwn
  BY <1>1, <1>2
<1>7. HasOwn(q) = HasOwn(r) /\ Answers(q) = Answers(r)
  BY DEF HasOwn, Answers, Same
<1>8. OwnFit(q, less)
  <2>1. q.own = 0 => less = {} /\ q.reply = "none"
    BY <1>1, <1>5 DEF OwnFit, Same
  <2>. QED
    BY <1>5, <1>6, <1>7, <2>1 DEF OwnFit
<1>. QED
  BY <1>1, <1>3, <1>4, <1>8 DEF Fit, less

(* A call that opens. *)
LEMMA FitOpened ==
  ASSUME NEW r, NEW q, Fit(r), r.step = "running", r.script # <<>>,
         q \in Request, Same(r, q), q.script = Tail(r.script), q.own \in Fd \ {0},
         Head(r.script) \in Opening
  PROVE  Fit(q) /\ r.own \notin Fd /\ r.fd \notin Fd
<1>. DEFINE h == Head(r.script)
            left == Left(r.script)
            less == Left(q.script)
<1>1. Scripted(q) /\ h \in left /\ less = left \ {h} /\ ~ (Opening \subseteq left)
  BY ScriptedTail DEF Fit, Same
<1>2. h \in Opening /\ h # "close" /\ h \notin {"pread", "pwrite"} \cup Never
  BY DEF Opening, Never
<1>. HIDE DEF h, left, less
<1>3. LockFit(q, less)
  BY <1>1, LockTail DEF Fit, left
<1>5. OwnFit(r, left) /\ FileFit(r, left)
  BY DEF Fit, left
<1>6. less \cap Opening = {} /\ ("close" \in less <=> "close" \in left)
  BY <1>1, <1>2 DEF Opening
<1>7. HasOwn(q) /\ Answers(q) = Answers(r) /\ left \cap Opening # {}
  BY <1>1, <1>2 DEF HasOwn, Answers, Same
<1>8. OwnFit(q, less)
  BY <1>5, <1>6, <1>7 DEF OwnFit, HasOwn
<1>9. r.own \notin Fd /\ r.fd \notin Fd
  BY <1>1, <1>2, <1>5, <1>7 DEF OwnFit, FileFit
<1>10. FileFit(q, less)
  BY <1>1, <1>5, <1>9 DEF FileFit, Same
<1>. QED
  BY <1>1, <1>3, <1>8, <1>9, <1>10 DEF Fit, less

(* A call that closes. *)
LEMMA FitClosed ==
  ASSUME NEW r, NEW q, Fit(r), r.step = "running", r.script # <<>>,
         q \in Request, Same(r, q), q.script = Tail(r.script), q.own = NoFd,
         Head(r.script) = "close"
  PROVE  Fit(q) /\ r.own \in Fd \ {0} /\ ~ Answers(r)
<1>. DEFINE h == Head(r.script)
            left == Left(r.script)
            less == Left(q.script)
<1>1. Scripted(q) /\ h \in left /\ less = left \ {h} /\ left \cap Opening = {}
      /\ left \cap OnOwn = {"close"} /\ h = "close"
  BY ScriptedTail DEF Fit, Same, OnOwn
<1>. HIDE DEF h, left, less
<1>3. LockFit(q, less)
  BY <1>1, LockTail DEF Fit, left
<1>5. OwnFit(r, left) /\ FileFit(r, left)
  BY DEF Fit, left
<1>6. less \cap Opening = {} /\ "close" \notin less /\ less \cap OnOwn = {}
  BY <1>1
<1>7. HasOwn(r) /\ ~ Answers(r) /\ ~ HasOwn(q) /\ ~ Answers(q)
  BY <1>1, <1>5, RootIs DEF HasOwn, Answers, Same, OwnFit
<1>8. OwnFit(q, less)
  BY <1>5, <1>6, <1>7, RootIs DEF OwnFit
<1>10. FileFit(q, less)
  BY <1>1, <1>5, RootIs DEF FileFit, Same
<1>. QED
  BY <1>1, <1>3, <1>7, <1>8, <1>10 DEF Fit, less, HasOwn

(* An open that waits. *)
LEMMA FitWaits ==
  ASSUME NEW r, NEW q, Fit(r), r.step = "running", r.script # <<>>,
         q \in Request, Same(r, q), q.script = <<"wait">>, q.own = r.own,
         Head(r.script) = "open"
  PROVE  Fit(q) /\ SetFit(q) /\ r.own \notin Fd /\ Left(q.script) = {"wait"}
<1>. DEFINE left == Left(r.script)
            less == Left(q.script)
<1>1. IsScript(q.script) /\ less = {"wait"}
  BY OneCall DEF SysCall
<1>2. "open" \in left
  BY OneLess DEF Fit, Scripted
<1>. HIDE DEF left, less
<1>5. OwnFit(r, left) /\ FileFit(r, left) /\ LockFit(r, left)
  BY DEF Fit, left
<1>3. r.own \notin Fd /\ r.fd \notin Fd
  BY <1>2, <1>5 DEF OwnFit, FileFit, Opening, Never
<1>4. r.lock # "exclusive" /\ ~ (r.lock = "shared" /\ r.reply = "entry")
  BY <1>2, <1>5 DEF LockFit, AloneFit, Never
<1>6. Scripted(q)
  BY <1>1 DEF Scripted, Harmless, Altering, Opening, Same, less
<1>7. LockFit(q, less)
  BY <1>1, <1>4, <1>5 DEF LockFit, Same, Renaming
<1>8. OwnFit(q, less)
  <2>1. Answers(r) => "close" \notin less
    BY <1>1
  <2>. QED
    BY <1>1, <1>3, <1>5, RootIs DEF OwnFit, HasOwn, Answers, Same, Opening, OnOwn, Never
<1>9. FileFit(q, less)
  BY <1>1, <1>3, <1>5 DEF FileFit, Same, Never
<1>10. SetFit(q)
  BY <1>1 DEF SetFit, Never, less
<1>. QED
  BY <1>1, <1>3, <1>6, <1>7, <1>8, <1>9, <1>10 DEF Fit, less

(* Fields that no condition looks at. *)
LEMMA FitRaced ==
  ASSUME NEW r, Fit(r), r.step # "idle", NEW b \in BOOLEAN, NEW q, q = [r EXCEPT !.raced = b]
  PROVE  /\ Fit(q) /\ (SetFit(r) => SetFit(q))
         /\ q \in Request /\ q.raced = b /\ q.step = r.step /\ q.num = r.num /\ q.name = r.name
         /\ q.newname = r.newname /\ q.fd = r.fd /\ q.kind = r.kind /\ q.set = r.set
         /\ q.script = r.script /\ q.reply = r.reply /\ q.lock = r.lock /\ q.own = r.own
         /\ q.found = r.found /\ q.node = r.node /\ q.stray = r.stray /\ q.did = r.did
<1>1. r \in Request
  BY DEF Fit
<1>2. q \in Request /\ q.raced = b /\ q.step = r.step /\ q.num = r.num /\ q.name = r.name
         /\ q.newname = r.newname /\ q.fd = r.fd /\ q.kind = r.kind /\ q.set = r.set
         /\ q.script = r.script /\ q.reply = r.reply /\ q.lock = r.lock /\ q.own = r.own
         /\ q.found = r.found /\ q.node = r.node /\ q.stray = r.stray /\ q.did = r.did
  BY <1>1 DEF Request
<1>3. Scripted(q)
  BY <1>2 DEF Fit, Scripted
<1>4. Answers(q) = Answers(r) /\ HasOwn(q) = HasOwn(r)
  BY <1>2 DEF Answers, HasOwn
<1>5. LockFit(q, Left(q.script))
  BY <1>2 DEF Fit, LockFit, AloneFit
<1>6. OwnFit(q, Left(q.script)) /\ FileFit(q, Left(q.script))
  BY <1>2, <1>4 DEF Fit, OwnFit, FileFit
<1>7. SetFit(r) => SetFit(q)
  BY <1>2 DEF SetFit
<1>. QED
  BY <1>2, <1>3, <1>5, <1>6, <1>7 DEF Fit

(* A field that is set to what it was. *)
LEMMA SameRaced ==
  ASSUME NEW r \in Request
  PROVE  [r EXCEPT !.raced = r.raced] = r
BY DEF Request

-----------------------------------------------------------------------------
(* A worker takes a request. *)

(* A worker takes the first request, and others notice that a name they use
   is going to change. *)
Takes(c) ==
  /\ queue # <<>> /\ c = Head(queue) /\ call[c].step = "queued"
  /\ Cardinality(InStep("running")) < threads
  /\ queue' = Tail(queue)
  /\ UNCHANGED <<readonly, threads, host, map, dent, means, files>>

BeginLost(c) ==
  Takes(c) /\ call[c].num \notin mapper!Present(map) /\ call' = [call EXCEPT ![c] = NoCall]

Noticed(c, d) == Running(d) /\ call[d].node \in Node /\ call[d].name \in Changes(call[c])

Started(c, r, q) ==
  /\ q \in Request /\ q.step = "running"
  /\ q.name = IF r.num = Root THEN r.name ELSE map.inodes[r.num].name
  /\ q.raced = (r.node \in Node /\ \E e \in Caller : Running(e) /\ q.name \in Changes(call[e]))
  /\ q.num = r.num /\ q.newname = r.newname /\ q.fd = r.fd /\ q.kind = r.kind
  /\ q.set = r.set /\ q.script = r.script /\ q.reply = r.reply /\ q.lock = r.lock
  /\ q.own = r.own /\ q.found = r.found /\ q.node = r.node /\ q.stray = r.stray
  /\ q.did = r.did

BeginForm(c, q) ==
  /\ Takes(c) /\ call[c].num \in mapper!Present(map)
  /\ Started(c, call[c], q)
  /\ call' = [d \in Caller |-> IF d = c THEN q
                ELSE [call[d] EXCEPT !.raced = call[d].raced \/ Noticed(c, d)]]

(* The first of the queue is queued. *)
LEMMA HeadQueued ==
  ASSUME Pool, queue # <<>>
  PROVE  /\ Head(queue) \in Caller /\ call[Head(queue)].step = "queued"
         /\ 1 \in DOMAIN queue /\ queue[1] = Head(queue)
<1>1. /\ 1 \in DOMAIN queue /\ queue[1] = Head(queue) /\ Head(queue) \in Caller
  BY HeadTailProperties DEF Pool
<1>. QED
  BY <1>1 DEF Pool

(* A number that is present resolves to a name. *)
LEMMA PathName ==
  ASSUME Mapped, NEW i \in mapper!Present(map), i # Root
  PROVE  map.inodes[i].name \in Name
BY DEF Mapped, GoodMap

(* A worker begins a request or finds its number lost. *)
LEMMA BeginForms ==
  ASSUME Shaped, Requested, Mapped, Pool, NEW c \in Caller, Begin(c)
  PROVE  BeginLost(c) \/ \E q : BeginForm(c, q)
<1>0. Takes(c)
  BY HeadQueued DEF Begin, Rest, Takes, InStep, Running
<1>1. CASE Resolved(call[c].num) = {} /\ End(c)
  BY <1>0, <1>1 DEF BeginLost, Resolved, End
<1>2. ASSUME NEW p \in Resolved(call[c].num), NEW r,
             r = [call[c] EXCEPT !.step = "running",
                                 !.name = IF call[c].num = Root THEN @ ELSE p],
             call' = [d \in Caller |->
                IF d = c
                THEN [r EXCEPT !.raced = r.node \in Node /\ \E e \in Caller :
                        Running(e) /\ r.name \in Changes(call[e])]
                ELSE [call[d] EXCEPT !.raced =
                        @ \/ (/\ Running(d) /\ call[d].node \in Node
                              /\ call[d].name \in Changes(call[c]))]]
      PROVE  \E q : BeginForm(c, q)
  <2>1. call[c].num \in mapper!Present(map) /\ p = map.inodes[call[c].num].name
    BY DEF Resolved
  <2>2. PICK o : o = call[c]
    OBVIOUS
  <2>3. o \in Request
    BY <2>2 DEF Requested, Fit
  <2>4. PICK name : name = IF o.num = Root THEN o.name ELSE map.inodes[o.num].name
    OBVIOUS
  <2>5. name \in AName
    BY <2>1, <2>2, <2>3, <2>4, PathName DEF AName, Request
  <2>6. r = [o EXCEPT !.step = "running", !.name = name]
    BY <1>2, <2>1, <2>2, <2>4
  <2>7. r \in Request /\ r.step = "running" /\ r.name = name
        /\ r.num = o.num /\ r.newname = o.newname /\ r.fd = o.fd /\ r.kind = o.kind
        /\ r.set = o.set /\ r.script = o.script /\ r.reply = o.reply /\ r.lock = o.lock
        /\ r.own = o.own /\ r.found = o.found /\ r.node = o.node /\ r.stray = o.stray
        /\ r.did = o.did
    BY <2>3, <2>5, <2>6 DEF Request
  <2>8. PICK b \in BOOLEAN : b = (r.node \in Node /\ \E e \in Caller :
                        Running(e) /\ r.name \in Changes(call[e]))
    OBVIOUS
  <2>9. PICK q : q = [r EXCEPT !.raced = b]
    OBVIOUS
  <2>10. q \in Request /\ q.raced = b /\ q.step = "running" /\ q.name = name
        /\ q.num = o.num /\ q.newname = o.newname /\ q.fd = o.fd /\ q.kind = o.kind
        /\ q.set = o.set /\ q.script = o.script /\ q.reply = o.reply /\ q.lock = o.lock
        /\ q.own = o.own /\ q.found = o.found /\ q.node = o.node /\ q.stray = o.stray
        /\ q.did = o.did
    BY <2>7, <2>8, <2>9 DEF Request
  <2>11. Started(c, o, q)
    BY <2>4, <2>7, <2>8, <2>10 DEF Started
  <2>12. call' = [d \in Caller |-> IF d = c THEN q
                ELSE [call[d] EXCEPT !.raced = call[d].raced \/ Noticed(c, d)]]
    BY <1>2, <2>8, <2>9 DEF Noticed
  <2>. QED
    BY <1>0, <2>1, <2>2, <2>11, <2>12 DEF BeginForm
<1>3. ASSUME NEW p \in Resolved(call[c].num),
             LET r == [call[c] EXCEPT !.step = "running",
                                      !.name = IF call[c].num = Root THEN @ ELSE p]
             IN  call' = [d \in Caller |->
                IF d = c
                THEN [r EXCEPT !.raced = r.node \in Node /\ \E e \in Caller :
                        Running(e) /\ r.name \in Changes(call[e])]
                ELSE [call[d] EXCEPT !.raced =
                        @ \/ (/\ Running(d) /\ call[d].node \in Node
                              /\ call[d].name \in Changes(call[c]))]]
      PROVE  \E q : BeginForm(c, q)
  <2>1. PICK r : r = [call[c] EXCEPT !.step = "running",
                                      !.name = IF call[c].num = Root THEN @ ELSE p]
    OBVIOUS
  <2>2. call' = [d \in Caller |->
                IF d = c
                THEN [r EXCEPT !.raced = r.node \in Node /\ \E e \in Caller :
                        Running(e) /\ r.name \in Changes(call[e])]
                ELSE [call[d] EXCEPT !.raced =
                        @ \/ (/\ Running(d) /\ call[d].node \in Node
                              /\ call[d].name \in Changes(call[c]))]]
    BY <1>3, <2>1
  <2>. QED
    BY <1>2, <2>1, <2>2
<1>. QED
  BY <1>1, <1>3 DEF Begin

(* A request still fits when its number was resolved. *)
LEMMA FitStarted ==
  ASSUME Mapped, NEW c, NEW r, Fit(r), r.step = "queued", r.num \in mapper!Present(map),
         NEW q, Started(c, r, q)
  PROVE  Fit(q) /\ (SetFit(r) => SetFit(q))
<1>1. r.num # Root => q.name \in Name
  BY PathName DEF Started
<1>2. r.lock # "none" => q.name = r.name
  BY DEF Fit, LockFit, Started
<1>3. Scripted(q)
  BY DEF Fit, Scripted, Started
<1>4. Answers(q) = Answers(r) /\ HasOwn(q) = HasOwn(r)
  BY DEF Answers, HasOwn, Started
<1>5. LockFit(q, Left(q.script))
  BY <1>1, <1>2 DEF Fit, LockFit, AloneFit, Started
<1>6. OwnFit(q, Left(q.script)) /\ FileFit(q, Left(q.script))
  BY <1>4 DEF Fit, OwnFit, FileFit, Started
<1>. QED
  BY <1>3, <1>5, <1>6 DEF Fit, SetFit, Started

-----------------------------------------------------------------------------
(* The same facts one step later. *)

(* Constant operators are the same after a step. *)
LEMMA ConstantLater ==
  /\ Request' = Request /\ NoCall' = NoCall /\ Fd' = Fd /\ NoFd' = NoFd /\ Root' = Root
  /\ Node' = Node /\ Thing' = Thing /\ AName' = AName /\ Caller' = Caller
<1>1. Node' = Node /\ AName' = AName /\ NoFd' = NoFd /\ Fd' = Fd /\ Root' = Root /\ Caller' = Caller
  BY DEF Node, AName, NoFd, Fd, Root, Caller
<1>2. Thing' = Thing
  BY <1>1 DEF Thing
<1>3. NoCall' = NoCall
  BY <1>1 DEF NoCall
<1>4. Request' = Request
  BY <1>1, <1>2 DEF Request, OfKind, Attr, SysCall
<1>. QED
  BY <1>1, <1>2, <1>3, <1>4

(* What fits is a request after the step too. *)
LEMMA FitLater ==
  ASSUME UNCHANGED readonly, NEW c \in Caller, NEW q, call'[c] = q, Fit(q)
  PROVE  Fit(call[c])' /\ (SetFit(q) => SetFit(call[c])')
<1>1. Left(call[c].script)' = Left(q.script)
  BY DEF Left
<1>2. Scripted(call[c])'
  BY <1>1, ConstantLater DEF Fit, Scripted, Harmless, Altering, Opening, IsScript, OnOwn, Renaming, SysCall
<1>3. LockFit(call[c], Left(call[c].script))'
  BY <1>1, ConstantLater DEF Fit, LockFit, AloneFit, Renaming, Never
<1>4. OwnFit(call[c], Left(call[c].script))'
  BY <1>1, ConstantLater DEF Fit, OwnFit, HasOwn, Answers, Opening, OnOwn, Never
<1>5. FileFit(call[c], Left(call[c].script))'
  BY <1>1, ConstantLater DEF Fit, FileFit, Never
<1>6. (call[c] \in Request)'
  BY ConstantLater DEF Fit
<1>7. SetFit(q) => SetFit(call[c])'
  BY <1>1 DEF SetFit, Never, Sets
<1>. QED
  BY <1>2, <1>3, <1>4, <1>5, <1>6, <1>7 DEF Fit

(* A step of one request, which still fits. *)
LEMMA OneCallLater ==
  ASSUME Shaped, Requested, UNCHANGED <<readonly, threads>>,
         NEW c \in Caller, NEW q, Fit(q), call' = [call EXCEPT ![c] = q]
  PROVE  /\ Shaped' /\ Requested' /\ (SetsLeft /\ SetFit(q) => SetsLeft')
         /\ call'[c] = q /\ \A d \in Caller : d # c => call'[d] = call[d]
<1>1. call'[c] = q /\ \A d \in Caller : d # c => call'[d] = call[d]
  BY DEF Shaped
<1>2. Shaped'
  BY ConstantLater DEF Shaped
<1>3. ASSUME NEW d \in Caller PROVE Fit(call[d])' /\ (SetsLeft /\ SetFit(q) => SetFit(call[d])')
  <2>1. PICK r : r = call'[d]
    OBVIOUS
  <2>2. Fit(r) /\ (SetsLeft /\ SetFit(q) => SetFit(r))
    BY <1>1, <2>1 DEF Requested, SetsLeft
  <2>. QED
    BY <2>1, <2>2, FitLater
<1>4. \A d \in Caller : Fit(call[d])'
  BY <1>3
<1>5. ASSUME SetsLeft, SetFit(q) PROVE \A d \in Caller : SetFit(call[d])'
  BY <1>3, <1>5
<1>. QED
  BY <1>1, <1>2, <1>4, <1>5, ConstantLater DEF Requested, SetsLeft

(* What a setattr was asked for is set or still to be set. *)
LEMMA SetsTail ==
  ASSUME NEW r, NEW q, Fit(r), r.step = "running", r.script # <<>>, SetFit(r),
         q.set = r.set, q.reply = r.reply, q.script = Tail(r.script),
         r.did \subseteq q.did,
         Sets(Head(r.script)) \subseteq q.did, Head(r.script) \notin Never
  PROVE  SetFit(q)
<1>1. /\ Head(r.script) \in Left(r.script)
      /\ Left(q.script) = Left(r.script) \ {Head(r.script)}
  BY OneLess DEF Fit, Scripted
<1>2. UNION {Sets(x) : x \in Left(r.script)} \subseteq
        q.did \cup UNION {Sets(x) : x \in Left(q.script)}
  BY <1>1
<1>3. Left(r.script) \cap Never = {} <=> Left(q.script) \cap Never = {}
  BY <1>1
<1>. QED
  BY <1>2, <1>3 DEF SetFit

(* The call that a step executes. *)
LEMMA NowCall ==
  ASSUME Requested, NEW c \in Caller
  PROVE  call[c] \in Request /\ Fit(call[c])
         /\ (Running(c) => call[c].step = "running" /\ call[c].step # "idle")
         /\ (SetsLeft => SetFit(call[c]))
BY DEF Requested, Fit, Running, SetsLeft

(* A call, and what it leaves of its request. *)
LEMMA RunsLater ==
  ASSUME Shaped, Requested, NEW c \in Caller, NEW q, Runs(c, q),
         \/ /\ Tailed(call[c], q) /\ q.own = call[c].own
            /\ Head(call[c].script) \notin Opening \cup {"close"} \cup Never
         \/ /\ Tailed(call[c], q) /\ q.own \in Fd \ {0} /\ Head(call[c].script) \in Opening
         \/ /\ Tailed(call[c], q) /\ q.own = NoFd /\ Head(call[c].script) = "close"
         \/ /\ q.script = <<"wait">> /\ q.own = call[c].own /\ Head(call[c].script) = "open",
         \/ q.script = <<"wait">> /\ Head(call[c].script) = "open"
         \/ q.did = call[c].did \cup Sets(Head(call[c].script))
         \/ q.did = call[c].did /\ Sets(Head(call[c].script)) = {}
  PROVE  /\ Shaped' /\ Requested' /\ (SetsLeft => SetsLeft') /\ Fit(q)
         /\ call'[c] = q /\ \A d \in Caller : d # c => call'[d] = call[d]
<1>. DEFINE r == call[c]
<1>1. /\ Fit(r) /\ r.step = "running" /\ r.script # <<>> /\ q \in Request /\ Same(r, q)
      /\ call' = [call EXCEPT ![c] = q] /\ UNCHANGED <<readonly, threads>>
      /\ (SetsLeft => SetFit(r))
  BY NowCall DEF Runs
<1>2. Fit(q)
  <2>1. CASE Tailed(r, q) /\ q.own = r.own /\ Head(r.script) \notin Opening \cup {"close"} \cup Never
    BY <1>1, <2>1, FitTail DEF Tailed
  <2>2. CASE Tailed(r, q) /\ q.own \in Fd \ {0} /\ Head(r.script) \in Opening
    BY <1>1, <2>2, FitOpened DEF Tailed
  <2>3. CASE Tailed(r, q) /\ q.own = NoFd /\ Head(r.script) = "close"
    BY <1>1, <2>3, FitClosed DEF Tailed
  <2>4. CASE q.script = <<"wait">> /\ q.own = r.own /\ Head(r.script) = "open"
    BY <1>1, <2>4, FitWaits
  <2>. QED
    BY <2>1, <2>2, <2>3, <2>4
<1>3. ASSUME SetsLeft PROVE SetFit(q)
  <2>1. CASE q.script = <<"wait">> /\ Head(r.script) = "open"
    <3>1. IsScript(q.script) /\ Left(q.script) = {"wait"}
      BY <2>1, OneCall DEF SysCall
    <3>. QED
      BY <3>1 DEF SetFit, Never
  <2>2. CASE ~ (q.script = <<"wait">> /\ Head(r.script) = "open")
    <3>1. Tailed(r, q) /\ Head(r.script) \notin Never
      BY <2>2 DEF Opening, Never
    <3>2. r.did \subseteq q.did /\ Sets(Head(r.script)) \subseteq q.did
      BY <2>2
    <3>3. q.set = r.set /\ q.reply = r.reply
      BY <1>1 DEF Same
    <3>. HIDE DEF r
    <3>. QED
      BY <1>1, <1>3, <3>1, <3>2, <3>3, SetsTail DEF Tailed
  <2>. QED
    BY <2>1, <2>2
<1>. QED
  BY <1>1, <1>2, <1>3, OneCallLater

(* The end of a request. *)
LEMMA EndsLater ==
  ASSUME Shaped, Requested, NEW c \in Caller, End(c), UNCHANGED <<readonly, threads>>
  PROVE  /\ Shaped' /\ Requested' /\ (SetsLeft => SetsLeft')
         /\ call'[c] = NoCall /\ \A d \in Caller : d # c => call'[d] = call[d]
<1>1. Fit(NoCall) /\ SetFit(NoCall) /\ call' = [call EXCEPT ![c] = NoCall]
  BY NoCallFit DEF End
<1>. QED
  BY <1>1, OneCallLater

-----------------------------------------------------------------------------
(* What the other requests see of a step. *)

(* All of a request but whether its name changed. *)
ButRaced(r, q) ==
  /\ q.step = r.step /\ q.num = r.num /\ q.name = r.name
  /\ q.newname = r.newname /\ q.fd = r.fd /\ q.kind = r.kind /\ q.set = r.set
  /\ q.script = r.script /\ q.reply = r.reply /\ q.lock = r.lock /\ q.own = r.own
  /\ q.found = r.found /\ q.node = r.node /\ q.stray = r.stray /\ q.did = r.did

(* The begin of a request changes others only by what they notice. *)
LEMMA BeginLater ==
  ASSUME Shaped, Requested, Mapped, NEW c \in Caller, NEW q, BeginForm(c, q)
  PROVE  /\ Shaped' /\ Requested' /\ (SetsLeft => SetsLeft') /\ Fit(q)
         /\ call'[c] = q
         /\ \A d \in Caller : d # c =>
              /\ ButRaced(call[d], call'[d])
              /\ call'[d].raced = (call[d].raced \/ Noticed(c, d))
<1>1. /\ call' = [d \in Caller |-> IF d = c THEN q
                ELSE [call[d] EXCEPT !.raced = call[d].raced \/ Noticed(c, d)]]
      /\ Started(c, call[c], q) /\ call[c].step = "queued" /\ call[c].num \in mapper!Present(map)
      /\ UNCHANGED <<readonly, threads>>
  BY DEF BeginForm, Takes
<1>2. call'[c] = q /\ Shaped'
  BY <1>1, ConstantLater DEF Shaped
<1>3. Fit(q) /\ (SetsLeft => SetFit(q))
  BY <1>1, NowCall, FitStarted
<1>4. ASSUME NEW d \in Caller, d # c, NEW r, r = call'[d]
      PROVE  /\ ButRaced(call[d], r) /\ r.raced = (call[d].raced \/ Noticed(c, d))
             /\ Fit(r) /\ (SetsLeft => SetFit(r))
  <2>1. PICK b \in BOOLEAN : b = (call[d].raced \/ Noticed(c, d))
    OBVIOUS
  <2>2. r = [call[d] EXCEPT !.raced = b]
    BY <1>1, <1>4, <2>1
  <2>3. PICK o : o = call[d]
    OBVIOUS
  <2>4. Fit(o) /\ o \in Request /\ (SetsLeft => SetFit(o))
    BY <2>3, NowCall
  <2>5. CASE o.step = "idle"
    <3>1. b = o.raced
      BY <2>1, <2>3, <2>4, <2>5 DEF Noticed, Running, Request
    <3>2. r = o
      BY <2>2, <2>3, <2>4, <3>1, SameRaced
    <3>. QED
      BY <2>1, <2>3, <2>4, <3>1, <3>2 DEF ButRaced
  <2>6. CASE o.step # "idle"
    <3>1. r = [o EXCEPT !.raced = b]
      BY <2>2, <2>3
    <3>2. /\ Fit(r) /\ (SetFit(o) => SetFit(r)) /\ r.raced = b
          /\ ButRaced(o, r)
      BY <2>4, <2>6, <3>1, FitRaced DEF ButRaced
    <3>. QED
      BY <2>1, <2>3, <2>4, <3>2
  <2>. QED
    BY <2>5, <2>6
<1>5. ASSUME NEW d \in Caller PROVE Fit(call[d])' /\ (SetsLeft => SetFit(call[d])')
  <2>1. PICK r : r = call'[d]
    OBVIOUS
  <2>2. Fit(r) /\ (SetsLeft => SetFit(r))
    BY <1>2, <1>3, <1>4, <2>1
  <2>. QED
    BY <1>1, <2>1, <2>2, FitLater
<1>6. ASSUME NEW d \in Caller, d # c
      PROVE  ButRaced(call[d], call'[d]) /\ call'[d].raced = (call[d].raced \/ Noticed(c, d))
  <2>1. PICK r : r = call'[d]
    OBVIOUS
  <2>. QED
    BY <1>4, <1>6, <2>1
<1>7. Requested' /\ (SetsLeft => SetsLeft')
  BY <1>5, ConstantLater DEF Requested, SetsLeft
<1>. QED
  BY <1>2, <1>3, <1>6, <1>7

(* What a request keeps from when it is sent to its answer. *)
Alike(r, q) ==
  /\ q.num = r.num /\ q.newname = r.newname /\ q.fd = r.fd /\ q.kind = r.kind
  /\ q.reply = r.reply /\ q.lock = r.lock /\ q.node = r.node
  /\ r.lock # "none" => q.name = r.name

Calms == \A d \in Caller : call'[d] = NoCall \/ Alike(call[d], call'[d])

(* A step that ends a request, or leaves its promises as they are. *)
LEMMA OneCalms ==
  ASSUME NEW c \in Caller, \A d \in Caller : d # c => call'[d] = call[d],
         call'[c] = NoCall \/ Alike(call[c], call'[c])
  PROVE  Calms
BY DEF Calms, Alike

(* Beginning is such a step. *)
LEMMA BeginCalms ==
  ASSUME Shaped, Requested, Mapped, NEW c \in Caller, NEW q, BeginForm(c, q)
  PROVE  Calms
<1>1. Alike(call[c], q)
  BY NowCall DEF BeginForm, Started, Alike, Fit, LockFit
<1>2. call'[c] = q /\ \A d \in Caller : d # c => ButRaced(call[d], call'[d])
  BY BeginLater
<1>3. ASSUME NEW d \in Caller, d # c PROVE Alike(call[d], call'[d])
  BY <1>2, <1>3 DEF ButRaced, Alike
<1>. QED
  BY <1>1, <1>2, <1>3 DEF Calms

(* A call is such a step. *)
LEMMA RunsCalms ==
  ASSUME NEW c \in Caller, NEW q, Runs(c, q), call'[c] = q,
         \A d \in Caller : d # c => call'[d] = call[d]
  PROVE  Calms
<1>1. Alike(call[c], q)
  BY DEF Runs, Same, Alike
<1>. QED
  BY <1>1, OneCalms

NoReply == NoCall.reply = "none" /\ NoCall.lock = "none" /\ NoCall.num = Root
           /\ NoCall.step = "idle" /\ NoCall.own = NoFd /\ NoCall.fd = NoFd
           /\ NoCall.script = <<>> /\ NoCall.node = NoNode /\ ~ NoCall.stray

(* A process without a request promises nothing. *)
LEMMA NoCallReplies == NoReply
BY DEF NoCall, NoReply

(* Such a step takes no lock. *)
LEMMA LockedCalms == ASSUME Locked, Calms PROVE Locked'
BY NoCallReplies, ConstantLater DEF Locked, Calms, Alike, NoReply

(* Requests that are answered with what they do to names have a lock. *)
LEMMA LockedReply ==
  ASSUME Requested, NEW c \in Caller
  PROVE  /\ call[c].reply \notin {"none", "attr", "opened"} => call[c].lock # "none"
         /\ call[c].reply \in {"created", "removed", "renamed"} => call[c].lock = "exclusive"
         /\ call[c].reply \in {"entry", "created", "removed", "renamed"} =>
              call[c].name \in Name
         /\ call[c].reply = "renamed" => call[c].newname \in Name /\ call[c].name # call[c].newname
         /\ call[c].lock # "none" => call[c].num = Root
<1>1. call[c].lock \in {"none", "shared", "exclusive"} /\ LockFit(call[c], Left(call[c].script))
      /\ call[c].reply \in Replies
  BY DEF Requested, Fit, Request, Replies
<1>. QED
  BY <1>1 DEF LockFit, AloneFit, Replies

(* Such a step leaves the map and the kernel in agreement. *)
LEMMA MappedCalms ==
  ASSUME Requested, Mapped, Calms, UNCHANGED <<map, dent>>
  PROVE  Mapped'
<1>1. ASSUME NEW c \in Caller, call'[c].reply = "renamed"
      PROVE  dent[call'[c].name] # 0 /\ mapper!Listed(map, Root, call'[c].newname)
  <2>1. Alike(call[c], call'[c])
    BY <1>1, NoCallReplies DEF Calms, NoReply
  <2>. QED
    BY <1>1, <2>1, LockedReply DEF Mapped, Alike
<1>2. ASSUME NEW c \in Caller, Creating(call'[c]) PROVE dent[call'[c].name] = 0
  <2>1. Alike(call[c], call'[c])
    BY <1>2, NoCallReplies DEF Calms, NoReply, Creating
  <2>. QED
    BY <1>2, <2>1, LockedReply DEF Mapped, Alike, Creating
<1>3. GoodMap(map)'
  BY DEF Mapped, GoodMap
<1>. QED
  BY <1>1, <1>2, <1>3, ConstantLater DEF Mapped, Creating

(* Such a step gives no number to a request. *)
LEMMA NumbersCalms ==
  ASSUME Mapped, Told, Calms, NEW c \in Caller
  PROVE  call'[c].num < map.next_inode
<1>1. Root < map.next_inode
  BY MapNumbers DEF Mapped
<1>. QED
  BY <1>1, NoCallReplies DEF Calms, Alike, NoReply, Told

(* Such a step leaves what the kernel was told. *)
LEMMA ToldCalms ==
  ASSUME Mapped, Told, Calms, UNCHANGED <<map, means, files>>
  PROVE  Told'
<1>1. \A c \in Caller : call'[c].num < map'.next_inode
  BY NumbersCalms
<1>. QED
  BY <1>1, ConstantLater DEF Told

(* Such a step asks for no number. *)
LEMMA RoomCalms ==
  ASSUME Requested, Room, Calms, UNCHANGED map, map.next_inode \in Nat
  PROVE  Room'
<1>1. ASSUME NEW c \in Caller, call'[c].reply \in {"entry", "created"}
      PROVE  call'[c].reply = call[c].reply /\ call'[c].name = call[c].name
  <2>1. Alike(call[c], call'[c])
    BY <1>1, NoCallReplies DEF Calms, NoReply
  <2>. QED
    BY <1>1, <2>1, LockedReply DEF Alike
<1>2. Asking' \subseteq Asking
  BY <1>1, ConstantLater DEF Asking
<1>3. Wanting' \subseteq Wanting
  BY <1>1, <1>2, ConstantLater DEF Wanting, Asking
<1>4. IsFiniteSet(Asking) /\ IsFiniteSet(Wanting)
  <2>1. Wanting \subseteq Asking
    BY DEF Wanting
  <2>. QED
    BY <2>1, FS_Subset DEF Room
<1>5. IsFiniteSet(Asking') /\ IsFiniteSet(Wanting') /\ Cardinality(Wanting') <= Cardinality(Wanting)
  BY <1>2, <1>3, <1>4, FS_Subset
<1>6. Cardinality(Wanting') \in Nat /\ Cardinality(Wanting) \in Nat
  BY <1>4, <1>5, FS_CardinalityType
<1>. QED
  BY <1>5, <1>6, RootIs DEF Room

(* The pool, after a step of a running request. *)
LEMMA PoolSteps ==
  ASSUME Pool, Shaped, UNCHANGED <<queue, threads>>,
         \A d \in Caller : \/ call'[d].step = call[d].step
                           \/ call[d].step = "running" /\ call'[d].step = "idle"
  PROVE  Pool'
<1>1. InStep("queued")' = InStep("queued") /\ InStep("running")' \subseteq InStep("running")
  BY ConstantLater DEF InStep
<1>2. /\ IsFiniteSet(InStep("running")')
      /\ Cardinality(InStep("running")') <= Cardinality(InStep("running"))
      /\ Cardinality(InStep("running")') \in Nat /\ Cardinality(InStep("running")) \in Nat
  BY <1>1, FS_Subset, FS_CardinalityType DEF Pool
<1>3. \A c \in Caller : call'[c].step = "queued" <=> call[c].step = "queued"
  OBVIOUS
<1>4. threads \in Nat
  BY MirrorMountAssumption DEF Shaped
<1>5. Cardinality(InStep("running")') <= threads'
  BY <1>2, <1>4 DEF Pool
<1>. QED
  BY <1>1, <1>2, <1>3, <1>5, ConstantLater DEF Pool

(* The pool, after a request was queued. *)
LEMMA PoolSent ==
  ASSUME Pool, Shaped, NEW c \in Caller, NEW q, SendStep(c, q)
  PROVE  Pool'
<1>1. /\ call'[c] = q /\ q.step = "queued" /\ call[c].step = "idle"
      /\ \A d \in Caller : d # c => call'[d] = call[d]
      /\ queue' = Append(queue, c) /\ UNCHANGED threads
  BY DEF SendStep, Sent, Busy, Shaped
<1>2. InStep("queued")' = InStep("queued") \cup {c} /\ c \notin InStep("queued")
      /\ InStep("running")' = InStep("running")
  BY <1>1, ConstantLater DEF InStep
<1>3. IsFiniteSet(InStep("queued")') /\ Cardinality(InStep("queued")') = Cardinality(InStep("queued")) + 1
  BY <1>2, FS_AddElement DEF Pool
<1>4. /\ queue' \in Seq(Caller) /\ Len(queue') = Len(queue) + 1 /\ Len(queue) \in Nat
      /\ DOMAIN queue = 1 .. Len(queue) /\ DOMAIN queue' = 1 .. (Len(queue) + 1)
      /\ \A k \in DOMAIN queue : queue'[k] = queue[k]
      /\ queue'[Len(queue) + 1] = c
  BY <1>1, AppendProperties DEF Pool
<1>5. \A k \in DOMAIN queue : queue[k] # c
  BY <1>1 DEF Pool
<1>6. \A j, k \in DOMAIN queue' : queue'[j] = queue'[k] => j = k
  BY <1>4, <1>5 DEF Pool
<1>7. \A d \in Caller : call'[d].step = "queued" <=> \E k \in DOMAIN queue' : queue'[k] = d
  <2>1. \A d \in Caller : d # c =>
          ((\E k \in DOMAIN queue' : queue'[k] = d) <=> \E k \in DOMAIN queue : queue[k] = d)
    BY <1>4
  <2>2. \E k \in DOMAIN queue' : queue'[k] = c
    BY <1>4
  <2>. QED
    BY <1>1, <2>1, <2>2 DEF Pool
<1>. QED
  BY <1>1, <1>2, <1>3, <1>4, <1>6, <1>7, ConstantLater DEF Pool

(* The pool, after a worker took a request. *)
LEMMA PoolTaken ==
  ASSUME Pool, Shaped, NEW c \in Caller, Takes(c),
         call'[c].step \in {"idle", "running"},
         \A d \in Caller : d # c => call'[d].step = call[d].step
  PROVE  Pool'
<1>1. /\ queue # <<>> /\ c = Head(queue) /\ call[c].step = "queued"
      /\ Cardinality(InStep("running")) < threads
      /\ queue' = Tail(queue) /\ UNCHANGED threads
  BY DEF Takes
<1>2. InStep("queued")' = InStep("queued") \ {c} /\ c \in InStep("queued")
      /\ InStep("running")' \subseteq InStep("running") \cup {c}
  BY <1>1, ConstantLater DEF InStep
<1>3. IsFiniteSet(InStep("queued")') /\ Cardinality(InStep("queued")') = Cardinality(InStep("queued")) - 1
  BY <1>2, FS_RemoveElement DEF Pool
<1>4. /\ IsFiniteSet(InStep("running") \cup {c})
      /\ Cardinality(InStep("running") \cup {c}) <= Cardinality(InStep("running")) + 1
      /\ Cardinality(InStep("running") \cup {c}) \in Nat /\ Cardinality(InStep("running")) \in Nat
  <2>1. IsFiniteSet(InStep("running")) /\ c \notin InStep("running")
    BY <1>1 DEF Pool, InStep
  <2>2. /\ IsFiniteSet(InStep("running") \cup {c})
        /\ Cardinality(InStep("running") \cup {c}) = Cardinality(InStep("running")) + 1
    BY <2>1, FS_AddElement
  <2>3. Cardinality(InStep("running") \cup {c}) \in Nat /\ Cardinality(InStep("running")) \in Nat
    BY <2>1, <2>2, FS_CardinalityType
  <2>. QED
    BY <2>2, <2>3
<1>5. /\ IsFiniteSet(InStep("running")')
      /\ Cardinality(InStep("running")') <= Cardinality(InStep("running") \cup {c})
      /\ Cardinality(InStep("running")') \in Nat
  BY <1>2, <1>4, FS_Subset, FS_CardinalityType
<1>6. threads \in Nat
  BY MirrorMountAssumption DEF Shaped
<1>7. Cardinality(InStep("running")') <= threads'
  BY <1>1, <1>4, <1>5, <1>6
<1>8. /\ queue' \in Seq(Caller) /\ Len(queue') = Len(queue) - 1 /\ Len(queue) \in Nat \ {0}
      /\ DOMAIN queue = 1 .. Len(queue) /\ DOMAIN queue' = 1 .. (Len(queue) - 1)
      /\ \A k \in 1 .. (Len(queue) - 1) : queue'[k] = queue[k + 1]
      /\ queue[1] = c
  BY <1>1, HeadTailProperties DEF Pool
<1>9. \A k \in DOMAIN queue' : k + 1 \in DOMAIN queue /\ queue'[k] = queue[k + 1] /\ k + 1 # 1
  BY <1>8
<1>10. \A j, k \in DOMAIN queue' : queue'[j] = queue'[k] => j = k
  BY <1>8, <1>9 DEF Pool
<1>11. \A k \in DOMAIN queue : queue[k] = c => k = 1
  BY <1>8 DEF Pool
<1>12. ASSUME NEW d \in Caller
       PROVE  call'[d].step = "queued" <=> \E k \in DOMAIN queue' : queue'[k] = d
  <2>1. CASE d = c
    BY <1>9, <1>11, <2>1
  <2>2. CASE d # c
    <3>1. \A k \in DOMAIN queue : queue[k] = d => k # 1 /\ k - 1 \in DOMAIN queue' /\ queue'[k - 1] = d
      BY <1>8, <2>2
    <3>. QED
      BY <1>9, <2>2, <3>1 DEF Pool
  <2>. QED
    BY <2>1, <2>2
<1>. QED
  BY <1>3, <1>5, <1>7, <1>8, <1>10, <1>12, ConstantLater DEF Pool

-----------------------------------------------------------------------------
(* Base is inductive: sending, beginning and calling. *)

(* Sending a request touches no other. *)
LEMMA SentCalls ==
  ASSUME Shaped, Requested, NEW c \in Caller, NEW q, SendStep(c, q)
  PROVE  /\ Shaped' /\ Requested' /\ (SetsLeft /\ BothTimes => SetsLeft') /\ Fit(q)
         /\ call'[c] = q /\ call[c] = NoCall
         /\ \A d \in Caller : d # c => call'[d] = call[d]
<1>1. /\ Fit(q) /\ (BothTimes => SetFit(q)) /\ call' = [call EXCEPT ![c] = q]
      /\ UNCHANGED <<readonly, threads>>
  BY DEF SendStep, Sent
<1>2. call[c] = NoCall
  BY DEF SendStep, Sent, Busy, Requested, Fit, Scripted
<1>. QED
  BY <1>1, <1>2, OneCallLater

(* The kernel waits for the lock of the directory. *)
LEMMA SentLocked ==
  ASSUME Shaped, Requested, Locked, NEW c \in Caller, NEW q, SendStep(c, q)
  PROVE  Locked'
<1>1. call'[c] = q /\ \A d \in Caller : d # c => call'[d] = call[d]
  BY SentCalls
<1>2. \A d \in Caller : Busy(d) =>
        ~ (q.lock = "exclusive" /\ call[d].lock # "none")
        /\ ~ (q.lock # "none" /\ call[d].lock = "exclusive")
  BY DEF SendStep, Sent, Lockable
<1>3. \A d \in Caller : ~ Busy(d) => call[d].lock = "none"
  BY NoCallReplies DEF Busy, Requested, Fit, Scripted, NoReply
<1>4. ASSUME NEW a \in Caller, NEW b \in Caller, a # b, call'[a].lock = "exclusive"
      PROVE  call'[b].lock = "none"
  <2>1. CASE a = c
    BY <1>1, <1>2, <1>3, <1>4, <2>1
  <2>2. CASE b = c
    BY <1>1, <1>2, <1>3, <1>4, <2>2
  <2>3. CASE a # c /\ b # c
    BY <1>1, <1>4, <2>3 DEF Locked
  <2>. QED
    BY <2>1, <2>2, <2>3
<1>. QED
  BY <1>4, ConstantLater DEF Locked

(* A request is about names the resolver has. *)
LEMMA SentMapped ==
  ASSUME Shaped, Requested, Mapped, NEW c \in Caller, NEW q, SendStep(c, q)
  PROVE  Mapped'
<1>1. call'[c] = q /\ \A d \in Caller : d # c => call'[d] = call[d]
  BY SentCalls
<1>2. /\ Creating(q) => dent[q.name] = 0
      /\ q.reply = "renamed" => dent[q.name] # 0 /\ mapper!Listed(map, Root, q.newname)
      /\ UNCHANGED <<map, dent>>
  BY DEF SendStep, Sent
<1>3. GoodMap(map)'
  BY <1>2 DEF Mapped, GoodMap
<1>4. ASSUME NEW d \in Caller
      PROVE  /\ call'[d].reply = "renamed" =>
                  dent[call'[d].name] # 0 /\ mapper!Listed(map, Root, call'[d].newname)
             /\ Creating(call'[d]) => dent[call'[d].name] = 0
  BY <1>1, <1>2 DEF Mapped
<1>5. \A n \in Name : dent'[n] # 0 =>
         mapper!Listed(map', Root, n) /\ mapper!Child(map', Root, n) = dent'[n]
  BY <1>2 DEF Mapped
<1>6. dent' \in [Name -> 0 .. MaxInode]
  BY <1>2 DEF Mapped
<1>. QED
  BY <1>2, <1>3, <1>4, <1>5, <1>6, ConstantLater DEF Mapped, Creating

(* A request is about numbers that were given out. *)
LEMMA SentTold ==
  ASSUME Shaped, Requested, Mapped, Told, NEW c \in Caller, NEW q, SendStep(c, q)
  PROVE  Told' /\ files' \subseteq files
<1>1. call'[c] = q /\ \A d \in Caller : d # c => call'[d] = call[d]
  BY SentCalls
<1>2. UNCHANGED <<map, means>> /\ files' \subseteq files
  BY DEF SendStep, Sent
<1>3. q.num < map.next_inode
  <2>1. CASE q.num = Root
    BY <2>1, MapNumbers DEF Mapped
  <2>2. CASE q.num \in Usable
    BY <2>2, UsableNumber, MapNumbers DEF Mapped
  <2>3. CASE \E f \in files : q.num = f.num
    BY <2>3 DEF Told
  <2>. QED
    BY <2>1, <2>2, <2>3 DEF SendStep, Sent
<1>4. \A d \in Caller : call'[d].num < map'.next_inode
  BY <1>1, <1>2, <1>3 DEF Told
<1>. QED
  BY <1>2, <1>4, ConstantLater DEF Told

(* There is a number for every name that may be entered. *)
LEMMA SentRoom ==
  ASSUME Shaped, Requested, Mapped, Room, NEW c \in Caller, NEW q, SendStep(c, q)
  PROVE  Room'
<1>1. /\ call'[c] = q /\ \A d \in Caller : d # c => call'[d] = call[d]
      /\ call[c] = NoCall
  BY SentCalls
<1>2. /\ q.reply \in {"entry", "created"} => RoomFor(q.name)
      /\ UNCHANGED map
  BY DEF SendStep, Sent
<1>3. /\ Asking' \subseteq Asking \cup {c} /\ c \notin Asking
      /\ q.reply \notin {"entry", "created"} => Asking' = Asking
  BY <1>1, NoCallReplies, ConstantLater DEF Asking, NoReply
<1>4. /\ Wanting' \subseteq Wanting \cup {c} /\ c \notin Wanting /\ Wanting \subseteq Asking
      /\ c \in Wanting' => q.reply \in {"entry", "created"} /\ ~ mapper!Listed(map, Root, q.name)
  BY <1>1, <1>2, <1>3, ConstantLater DEF Wanting, Asking
<1>5. /\ IsFiniteSet(Asking) /\ IsFiniteSet(Wanting) /\ IsFiniteSet(Asking')
      /\ Cardinality(Wanting) <= Cardinality(Asking)
      /\ Cardinality(Asking) \in Nat /\ Cardinality(Wanting) \in Nat
  <2>1. IsFiniteSet(Asking)
    BY DEF Room
  <2>2. IsFiniteSet(Asking \cup {c})
    BY <2>1, FS_AddElement
  <2>. QED
    BY <1>3, <1>4, <2>1, <2>2, FS_Subset, FS_CardinalityType
<1>6. map.next_inode \in Nat
  BY MapNumbers DEF Mapped
<1>7. CASE c \notin Wanting'
  <2>1. Wanting' \subseteq Wanting
    BY <1>4, <1>7
  <2>2. Cardinality(Wanting') <= Cardinality(Wanting) /\ Cardinality(Wanting') \in Nat
    BY <1>5, <2>1, FS_Subset, FS_CardinalityType
  <2>. QED
    BY <1>2, <1>5, <1>6, <2>2, RootIs DEF Room
<1>8. CASE c \in Wanting'
  <2>1. IsFiniteSet(Wanting \cup {c}) /\ Cardinality(Wanting \cup {c}) = Cardinality(Wanting) + 1
    BY <1>4, <1>5, FS_AddElement
  <2>2. Cardinality(Wanting') <= Cardinality(Wanting) + 1 /\ Cardinality(Wanting') \in Nat
    BY <1>4, <2>1, FS_Subset, FS_CardinalityType
  <2>3. map.next_inode + Cardinality(Asking) <= MaxInode
    BY <1>2, <1>4, <1>8 DEF RoomFor, Asking
  <2>. QED
    BY <1>2, <1>5, <1>6, <2>2, <2>3, RootIs DEF Room
<1>. QED
  BY <1>7, <1>8

(* The host is as it was. *)
LEMMA HostedSame == ASSUME Hosted, UNCHANGED host PROVE Hosted'
BY ConstantLater DEF Hosted

(* Sending keeps Base. *)
LEMMA BaseSent ==
  ASSUME Base, NEW c \in Caller, NEW q, SendStep(c, q)
  PROVE  Base' /\ (SetsLeft /\ BothTimes => SetsLeft')
<1>1. UNCHANGED host
  BY DEF SendStep
<1>. QED
  BY <1>1, SentCalls, SentLocked, SentMapped, SentTold, SentRoom, HostedSame, PoolSent DEF Base

(* A request whose number is lost keeps Base. *)
LEMMA BaseLost ==
  ASSUME Base, NEW c \in Caller, BeginLost(c)
  PROVE  Base' /\ (SetsLeft => SetsLeft')
<1>0. Takes(c) /\ End(c) /\ UNCHANGED <<readonly, threads, host, map, dent, means, files>>
  BY DEF BeginLost, Takes, End
<1>1. /\ Shaped' /\ Requested' /\ (SetsLeft => SetsLeft')
      /\ call'[c] = NoCall /\ \A d \in Caller : d # c => call'[d] = call[d]
  BY <1>0, EndsLater DEF Base
<1>2. Calms
  BY <1>1, OneCalms
<1>3. Pool'
  BY <1>0, <1>1, NoCallReplies, PoolTaken DEF NoReply, Base
<1>4. map.next_inode \in Nat
  BY MapNumbers DEF Base, Mapped
<1>. QED
  BY <1>0, <1>1, <1>2, <1>3, <1>4, LockedCalms, MappedCalms, ToldCalms, RoomCalms, HostedSame DEF Base

(* Beginning keeps Base. *)
LEMMA BaseBegin ==
  ASSUME Base, NEW c \in Caller, NEW q, BeginForm(c, q)
  PROVE  Base' /\ (SetsLeft => SetsLeft')
<1>0. Takes(c) /\ UNCHANGED <<readonly, threads, host, map, dent, means, files>>
      /\ q.step = "running"
  BY DEF BeginForm, Takes, Started
<1>1. /\ Shaped' /\ Requested' /\ (SetsLeft => SetsLeft')
      /\ call'[c] = q /\ \A d \in Caller : d # c => call'[d].step = call[d].step
  BY BeginLater DEF Base, ButRaced
<1>2. Calms
  BY BeginCalms DEF Base
<1>3. Pool'
  BY <1>0, <1>1, PoolTaken DEF Base
<1>4. map.next_inode \in Nat
  BY MapNumbers DEF Base, Mapped
<1>. QED
  BY <1>0, <1>1, <1>2, <1>3, <1>4, LockedCalms, MappedCalms, ToldCalms, RoomCalms, HostedSame DEF Base

(* A call keeps Base when it keeps the host. *)
LEMMA BaseRuns ==
  ASSUME Base, NEW c \in Caller, NEW q, Runs(c, q), Hosted', Shaped', Requested', call'[c] = q,
         \A d \in Caller : d # c => call'[d] = call[d]
  PROVE  Base'
<1>0. UNCHANGED <<readonly, threads, map, queue, dent, means, files>> /\ q.step = call[c].step
  BY DEF Runs, Same
<1>2. Calms
  BY RunsCalms
<1>3. Pool'
  BY <1>0, PoolSteps DEF Base
<1>4. map.next_inode \in Nat
  BY MapNumbers DEF Base, Mapped
<1>. QED
  BY <1>0, <1>2, <1>3, <1>4, LockedCalms, MappedCalms, ToldCalms, RoomCalms DEF Base

(* The host is well formed when its tables are. *)
LEMMA HostedParts ==
  ASSUME Hosted, host' \in [entry : [AName -> Node \cup {NoNode, RootNode}], desc : [Fd -> Thing]],
         \A n \in Name : host'.entry[n] \in Node \cup {NoNode},
         host'.entry[RootName] = RootNode, host'.desc[0] = Elsewhere
  PROVE  Hosted'
BY ConstantLater DEF Hosted

IsHost(h) == h \in [entry : {h.entry}, desc : {h.desc}]

(* Changing a table of the host gives a host. *)
LEMMA HostWith ==
  ASSUME NEW h, IsHost(h), NEW x, NEW k, k = [h EXCEPT !.entry = x] \/ k = [h EXCEPT !.desc = x]
  PROVE  IsHost(k)
<1>1. PICK e, d : h = [entry |-> e, desc |-> d]
  BY DEF IsHost
<1>2. [h EXCEPT !.entry = x] = [entry |-> x, desc |-> d]
  BY <1>1
<1>3. [h EXCEPT !.desc = x] = [entry |-> e, desc |-> x]
  BY <1>1
<1>. QED
  BY <1>2, <1>3 DEF IsHost

(* A call leaves a host. *)
LEMMA HostStays ==
  ASSUME Hosted, NEW c \in Caller, SystemCall(c)
  PROVE  IsHost(host')
<1>0. IsHost(host)
  BY DEF Hosted, IsHost
<1>1. CASE PathCall(c) \/ OpenWaits(c) \/ OwnCall(c) \/ HandleCall(c)
  BY <1>0, <1>1 DEF PathCall, OpenWaits, OwnCall, HandleCall, Succeeds
<1>2. ASSUME NEW h, IsHost(h), NEW v, Opens(c, h, v) PROVE IsHost(host')
  <2>1. host' = [h EXCEPT !.desc[Min(Free)] = v]
    BY <1>2 DEF Opens, Succeeds
  <2>2. [h EXCEPT !.desc[Min(Free)] = v] = [h EXCEPT !.desc = [h.desc EXCEPT ![Min(Free)] = v]]
    BY <1>2 DEF IsHost
  <2>. QED
    BY <1>2, <2>1, <2>2, HostWith
<1>3. \A v : IsHost(Made(c, v))
  <2>1. ASSUME NEW v PROVE IsHost(Made(c, v))
    <3>0. PICK x : x = [host.entry EXCEPT ![call[c].name] = v]
      OBVIOUS
    <3>1. Made(c, v) = [host EXCEPT !.entry = x]
      BY <1>0, <3>0 DEF Made, IsHost
    <3>. QED
      BY <1>0, <3>1, HostWith
  <2>. QED
    BY <2>1
<1>4. CASE OpenCall(c)
  BY <1>0, <1>2, <1>4 DEF OpenCall
<1>5. CASE CreatCall(c)
  BY <1>0, <1>2, <1>3, <1>5 DEF CreatCall
<1>6. CASE MakeCall(c)
  BY <1>3, <1>6 DEF MakeCall, Succeeds
<1>7. CASE RemoveCall(c)
  <2>1. host' = [host EXCEPT !.entry[call[c].name] = NoNode]
    BY <1>7 DEF RemoveCall, Succeeds
  <2>2. host' = [host EXCEPT !.entry = [host.entry EXCEPT ![call[c].name] = NoNode]]
    BY <1>0, <2>1 DEF IsHost
  <2>. QED
    BY <1>0, <2>2, HostWith
<1>8. CASE RenameCall(c)
  <2>1. host' = [host EXCEPT !.entry[call[c].name] = NoNode,
                              !.entry[call[c].newname] = At(c)]
    BY <1>8 DEF RenameCall, Succeeds
  <2>0. PICK x : x = [host.entry EXCEPT ![call[c].name] = NoNode, ![call[c].newname] = At(c)]
    OBVIOUS
  <2>2. host' = [host EXCEPT !.entry = x]
    BY <1>0, <2>0, <2>1 DEF IsHost
  <2>. QED
    BY <1>0, <2>2, HostWith
<1>9. CASE CloseCall(c)
  <2>1. host' = [host EXCEPT !.desc[call[c].own] = NoNode]
    BY <1>9 DEF CloseCall, Succeeds
  <2>2. host' = [host EXCEPT !.desc = [host.desc EXCEPT ![call[c].own] = NoNode]]
    BY <1>0, <2>1 DEF IsHost
  <2>. QED
    BY <1>0, <2>2, HostWith
<1>10. CASE CallFails(c)
  <2>1. \/ host' = host
        \/ host' = [host EXCEPT !.desc[call[c].own] = NoNode]
    BY <1>10 DEF CallFails
  <2>2. [host EXCEPT !.desc[call[c].own] = NoNode]
          = [host EXCEPT !.desc = [host.desc EXCEPT ![call[c].own] = NoNode]]
    BY <1>0 DEF IsHost
  <2>. QED
    BY <1>0, <2>1, <2>2, HostWith
<1>. QED
  BY <1>1, <1>4, <1>5, <1>6, <1>7, <1>8, <1>9, <1>10 DEF SystemCall

(* A call that changes names is made by a request that has the directory. *)
LEMMA RenamingCall ==
  ASSUME NEW r, Fit(r), r.step = "running", r.script # <<>>, Head(r.script) \in Renaming
  PROVE  /\ r.lock = "exclusive" /\ r.name \in Name /\ r.newname \in Name
         /\ Head(r.script) = "rename" => r.reply = "renamed" /\ r.name # r.newname
         /\ Head(r.script) \in {"make", "creat"} => r.reply \in {"entry", "created"}
         /\ Head(r.script) = "creat" => r.reply = "created"
         /\ Head(r.script) = "make" => r.reply = "entry"
         /\ Head(r.script) \in {"unlink", "rmdir"} => r.reply = "removed"
         /\ Left(r.script) \cap Never = {}
<1>1. Head(r.script) \in Left(r.script)
  BY OneLess DEF Fit, Scripted
<1>2. LockFit(r, Left(r.script))
  BY DEF Fit
<1>3. r.lock = "exclusive" /\ AloneFit(r, Left(r.script))
  BY <1>1, <1>2 DEF LockFit
<1>. QED
  BY <1>1, <1>3 DEF AloneFit, Renaming, Never

(* A change of names that leaves the root. *)
LEMMA HostedEntry ==
  ASSUME Hosted, IsHost(host'), host'.desc = host.desc,
         NEW e, host'.entry = e, e \in [AName -> Node \cup {NoNode, RootNode}],
         \A n \in Name : e[n] \in Node \cup {NoNode}, e[RootName] = RootNode
  PROVE  Hosted'
<1>1. host' \in [entry : [AName -> Node \cup {NoNode, RootNode}], desc : [Fd -> Thing]]
  BY DEF Hosted, IsHost
<1>. QED
  BY <1>1, HostedParts DEF Hosted

(* A change of one descriptor. *)
LEMMA HostedDesc ==
  ASSUME Hosted, IsHost(host'), host'.entry = host.entry,
         NEW d \in Fd \ {0}, NEW v \in Thing, host'.desc = [host.desc EXCEPT ![d] = v]
  PROVE  Hosted'
<1>0. host'.desc \in [Fd -> Thing] /\ host'.desc[0] = Elsewhere
  BY RootIs DEF Hosted
<1>1. host' \in [entry : [AName -> Node \cup {NoNode, RootNode}], desc : [Fd -> Thing]]
  BY <1>0 DEF Hosted, IsHost
<1>. QED
  BY <1>0, <1>1, HostedParts DEF Hosted

(* The root has no name of the directory. *)
LEMMA NamesApart == RootName \notin Name /\ Name \subseteq AName /\ RootName \in AName
BY MirrorMountAssumption DEF AName

(* The host after an open with O_CREAT. *)
LEMMA CreatHosted ==
  ASSUME Hosted, Requested, NEW c \in Caller, NEW q, NEW v, CreatForm(c, q, v), IsHost(host')
  PROVE  Hosted'
<1>1. /\ host'.entry = [host.entry EXCEPT ![call[c].name] = v] /\ v \in Node
      /\ host'.desc = [host.desc EXCEPT ![q.own] = v]
      /\ q.own \in Fd \ {0}
      /\ Running(c) /\ call[c].script # <<>> /\ Head(call[c].script) \in Renaming
  BY DEF CreatForm, Opened, Reaches, Runs, Renaming
<1>2. call[c].name \in Name
  BY <1>1, NowCall, RenamingCall
<1>3. host' \in [entry : [AName -> Node \cup {NoNode, RootNode}], desc : [Fd -> Thing]]
  <2>1. host'.entry \in [AName -> Node \cup {NoNode, RootNode}]
    BY <1>1, <1>2, NamesApart DEF Hosted
  <2>2. host'.desc \in [Fd -> Thing]
    BY <1>1 DEF Hosted, Thing
  <2>. QED
    BY <2>1, <2>2 DEF IsHost
<1>4. /\ \A n \in Name : host'.entry[n] \in Node \cup {NoNode}
      /\ host'.entry[RootName] = RootNode /\ host'.desc[0] = Elsewhere
  BY <1>1, <1>2, NamesApart, RootIs DEF Hosted
<1>. QED
  BY <1>3, <1>4, HostedParts

(* The host after a change of names. *)
LEMMA NameHosted ==
  ASSUME Hosted, Requested, NEW c \in Caller, NEW q, NameForm(c, q), IsHost(host')
  PROVE  Hosted'
<1>1. Running(c) /\ call[c].script # <<>> /\ Head(call[c].script) \in Renaming
      /\ host'.desc = host.desc
  BY DEF NameForm, Runs, Renaming
<1>2. call[c].name \in Name /\ call[c].newname \in Name
  BY <1>1, NowCall, RenamingCall
<1>3. PICK e : e = host'.entry
  OBVIOUS
<1>4. At(c) \in Node \cup {NoNode}
  BY <1>2, AtThing
<1>5. e \in [AName -> Node \cup {NoNode, RootNode}]
  BY <1>2, <1>3, <1>4, NamesApart DEF Hosted, NameForm
<1>6. (\A n \in Name : e[n] \in Node \cup {NoNode}) /\ e[RootName] = RootNode
  BY <1>2, <1>3, <1>4, NamesApart DEF Hosted, NameForm
<1>. QED
  BY <1>1, <1>3, <1>5, <1>6, HostedEntry

(* Every call keeps Base. *)
LEMMA BaseCall ==
  ASSUME Base, NEW c \in Caller, IsHost(host'), NEW q, NEW v,
         \/ PathForm(c, q, v) \/ OpenForm(c, q, v) \/ CreatForm(c, q, v)
         \/ WaitForm(c, q) \/ NameForm(c, q) \/ OwnForm(c, q, v) \/ CloseForm(c, q, v)
         \/ HandleForm(c, q, v)
  PROVE  /\ Base' /\ (SetsLeft => SetsLeft') /\ Fit(q) /\ Runs(c, q)
         /\ call'[c] = q /\ \A d \in Caller : d # c => call'[d] = call[d]
<1>. DEFINE h == Head(call[c].script)
<1>0. Shaped /\ Requested /\ Hosted
  BY DEF Base
<1>1. Runs(c, q)
  BY DEF PathForm, OpenForm, CreatForm, WaitForm, NameForm, OwnForm, CloseForm, HandleForm,
         Opened, Reaches
<1>2. \/ /\ Tailed(call[c], q) /\ q.own = call[c].own
         /\ h \notin Opening \cup {"close"} \cup Never
      \/ /\ Tailed(call[c], q) /\ q.own \in Fd \ {0} /\ h \in Opening
      \/ /\ Tailed(call[c], q) /\ q.own = NoFd /\ h = "close"
      \/ /\ q.script = <<"wait">> /\ q.own = call[c].own /\ h = "open"
  <2>1. CASE PathForm(c, q, v)
    BY <2>1 DEF PathForm, Reaches, Opening, Never
  <2>2. CASE OpenForm(c, q, v) \/ CreatForm(c, q, v)
    BY <2>2 DEF OpenForm, CreatForm, Opened, Reaches, Opening
  <2>3. CASE WaitForm(c, q)
    BY <2>3 DEF WaitForm
  <2>4. CASE NameForm(c, q)
    BY <2>4 DEF NameForm, Opening, Never
  <2>5. CASE OwnForm(c, q, v) \/ HandleForm(c, q, v)
    BY <2>5 DEF OwnForm, HandleForm, Reaches, Opening, Never
  <2>6. CASE CloseForm(c, q, v)
    BY <2>6 DEF CloseForm, Reaches
  <2>. QED
    BY <2>1, <2>2, <2>3, <2>4, <2>5, <2>6
<1>3. \/ q.script = <<"wait">> /\ h = "open"
      \/ q.did = call[c].did \cup Sets(h)
      \/ q.did = call[c].did /\ Sets(h) = {}
  <2>1. CASE PathForm(c, q, v) \/ OwnForm(c, q, v)
    BY <2>1 DEF PathForm, OwnForm
  <2>2. CASE OpenForm(c, q, v) \/ CreatForm(c, q, v)
    BY <2>2 DEF OpenForm, CreatForm, Opened, Sets
  <2>3. CASE WaitForm(c, q)
    BY <2>3 DEF WaitForm
  <2>4. CASE NameForm(c, q)
    BY <2>4 DEF NameForm, Sets
  <2>5. CASE CloseForm(c, q, v) \/ HandleForm(c, q, v)
    BY <2>5 DEF CloseForm, HandleForm, Sets
  <2>. QED
    BY <2>1, <2>2, <2>3, <2>4, <2>5
<1>4. /\ Shaped' /\ Requested' /\ (SetsLeft => SetsLeft') /\ Fit(q)
      /\ call'[c] = q /\ \A d \in Caller : d # c => call'[d] = call[d]
  BY <1>0, <1>1, <1>2, <1>3, RunsLater
<1>5. Hosted'
  <2>1. CASE PathForm(c, q, v) \/ OwnForm(c, q, v) \/ HandleForm(c, q, v) \/ WaitForm(c, q)
    BY <1>0, <2>1, HostedSame DEF PathForm, OwnForm, HandleForm, WaitForm
  <2>2. CASE OpenForm(c, q, v)
    BY <1>0, <2>2, HostedDesc DEF OpenForm, Opened, Reaches
  <2>3. CASE CreatForm(c, q, v)
    BY <1>0, <2>3, CreatHosted
  <2>4. CASE NameForm(c, q)
    BY <1>0, <2>4, NameHosted
  <2>5. CASE CloseForm(c, q, v)
    <3>1. Running(c) /\ call[c].script # <<>> /\ q \in Request /\ Same(call[c], q)
          /\ Tailed(call[c], q) /\ q.own = NoFd /\ h = "close"
      BY <2>5 DEF CloseForm, Reaches, Runs
    <3>2. call[c].own \in Fd \ {0}
      BY <1>0, <3>1, NowCall, FitClosed DEF Tailed
    <3>3. NoNode \in Thing
      BY DEF Thing
    <3>. QED
      BY <1>0, <2>5, <3>2, <3>3, HostedDesc DEF CloseForm
  <2>. QED
    BY <2>1, <2>2, <2>3, <2>4, <2>5
<1>. QED
  BY <1>1, <1>4, <1>5, BaseRuns

-----------------------------------------------------------------------------
(* Base is inductive: the end of a request. *)

(* What the kernel recalls has its shape. *)
LEMMA RecallTold ==
  ASSUME NEW d \in [Name -> 0 .. MaxInode], NEW m, NEW fs, Recall(d, m, fs),
         m \in [1 .. MaxInode -> Node \cup {NoNode, RootNode}], m[Root] = RootNode,
         \A i \in 2 .. MaxInode : m[i] \in Node \cup {NoNode},
         fs \subseteq [fd : Fd \ {0}, num : 2 .. MaxInode, node : Thing],
         \A f \in fs : f.num < map'.next_inode,
         \A c \in Caller : call'[c].num < map'.next_inode
  PROVE  Told'
<1>1. /\ files' = fs /\ dent' = d
      /\ means' = [i \in 1 .. MaxInode |-> IF i \in Held(d, fs) THEN m[i] ELSE NoNode]
  BY DEF Recall
<1>2. means' \in [1 .. MaxInode -> Node \cup {NoNode, RootNode}]
  BY <1>1
<1>3. means'[Root] = RootNode
  BY <1>1, RootIs DEF Held
<1>4. \A i \in 2 .. MaxInode : i \in 1 .. MaxInode
  BY RootIs
<1>5. \A i \in 2 .. MaxInode : means'[i] \in Node \cup {NoNode}
  BY <1>1, <1>4
<1>. QED
  BY <1>1, <1>2, <1>3, <1>5, ConstantLater DEF Told

(* The end of a request keeps what is about requests. *)
LEMMA EndCalms ==
  ASSUME Base, NEW c \in Caller, call[c].step = "running", End(c),
         UNCHANGED <<readonly, threads, queue>>
  PROVE  /\ Shaped' /\ Requested' /\ (SetsLeft => SetsLeft') /\ Locked' /\ Pool' /\ Calms
         /\ call'[c] = NoCall /\ \A d \in Caller : d # c => call'[d] = call[d]
<1>1. /\ Shaped' /\ Requested' /\ (SetsLeft => SetsLeft')
      /\ call'[c] = NoCall /\ \A d \in Caller : d # c => call'[d] = call[d]
  BY EndsLater DEF Base
<1>2. Calms
  BY <1>1, OneCalms
<1>3. Pool'
  BY <1>1, NoCallReplies, PoolSteps DEF NoReply, Base
<1>. QED
  BY <1>1, <1>2, <1>3, LockedCalms DEF Base

(* A name is forgotten while no request that changes names goes on. *)
LEMMA MappedForgets ==
  ASSUME Base, Calms, UNCHANGED map, dent' \in [Name -> 0 .. MaxInode],
         \A n \in Name : dent'[n] \in {dent[n], 0},
         dent' # dent => \A d \in Caller : call'[d].reply # "renamed"
  PROVE  Mapped'
<1>0. Requested /\ Mapped
  BY DEF Base
<1>1. ASSUME NEW c \in Caller, call'[c].reply = "renamed"
      PROVE  dent'[call'[c].name] # 0 /\ mapper!Listed(map, Root, call'[c].newname)
  <2>1. Alike(call[c], call'[c])
    BY <1>1, NoCallReplies DEF Calms, NoReply
  <2>. QED
    BY <1>0, <1>1, <2>1, LockedReply DEF Mapped, Alike
<1>2. ASSUME NEW c \in Caller, Creating(call'[c]) PROVE dent'[call'[c].name] = 0
  <2>1. Alike(call[c], call'[c])
    BY <1>2, NoCallReplies DEF Calms, NoReply, Creating
  <2>2. call[c].name \in Name /\ call'[c].name = call[c].name /\ Creating(call[c])
    BY <1>0, <1>2, <2>1, LockedReply DEF Alike, Creating
  <2>. QED
    BY <1>0, <2>2 DEF Mapped
<1>3. GoodMap(map)'
  BY <1>0 DEF Mapped, GoodMap
<1>4. \A n \in Name : dent'[n] # 0 => dent'[n] = dent[n]
  OBVIOUS
<1>. QED
  BY <1>0, <1>1, <1>2, <1>3, <1>4, ConstantLater DEF Mapped, Creating

(* A call that fails keeps Base. *)
LEMMA BaseFails ==
  ASSUME Base, NEW c \in Caller, CallFails(c), IsHost(host')
  PROVE  Base' /\ (SetsLeft => SetsLeft')
<1>0. /\ Running(c) /\ call[c].script # <<>> /\ End(c) /\ call[c].step = "running"
      /\ UNCHANGED <<readonly, threads, map, queue>>
  BY DEF CallFails, MayFail, Refused, Running
<1>1. /\ Shaped' /\ Requested' /\ (SetsLeft => SetsLeft') /\ Locked' /\ Pool' /\ Calms
      /\ call'[c] = NoCall /\ \A d \in Caller : d # c => call'[d] = call[d]
  BY <1>0, EndCalms
<1>2. Hosted'
  <2>1. CASE call[c].own \in Fd \ {0}
    <3>1. host' = [host EXCEPT !.desc[call[c].own] = NoNode]
      BY <2>1 DEF CallFails
    <3>2. host'.entry = host.entry /\ host'.desc = [host.desc EXCEPT ![call[c].own] = NoNode]
      BY <3>1 DEF Base, Hosted
    <3>. QED
      BY <2>1, <3>2, HostedDesc DEF Thing, Base
  <2>2. CASE call[c].own \notin Fd \ {0}
    BY <2>2, HostedSame DEF CallFails, Base
  <2>. QED
    BY <2>1, <2>2
<1>3. PICK d : d = IF call[c].script # <<>> /\ call[c].lock = "shared" /\ call[c].reply = "entry"
            THEN [dent EXCEPT ![call[c].name] = 0] ELSE dent
  OBVIOUS
<1>4. Recall(d, means, files)
  BY <1>3 DEF CallFails, Refused
<1>5. dent' = d /\ files' = files
  BY <1>4 DEF Recall
<1>6. d \in [Name -> 0 .. MaxInode] /\ \A n \in Name : d[n] \in {dent[n], 0}
  <2>1. dent \in [Name -> 0 .. MaxInode] /\ 0 \in 0 .. MaxInode
    BY RootIs DEF Base, Mapped
  <2>. QED
    BY <1>3, <2>1
<1>7. \A a \in Caller : call'[a].num < map'.next_inode
  BY <1>0, <1>1, NumbersCalms DEF Base
<1>8. Told'
  BY <1>0, <1>4, <1>6, <1>7, RecallTold DEF Base, Told
<1>9. dent' # dent => \A a \in Caller : call'[a].reply # "renamed"
  <2>1. ASSUME dent' # dent, NEW a \in Caller, call'[a].reply = "renamed" PROVE FALSE
    <3>1. call[c].lock = "shared"
      BY <1>3, <1>5, <2>1
    <3>2. a # c /\ call[a].reply = "renamed"
      BY <1>1, <2>1, NoCallReplies DEF NoReply
    <3>3. call[a].lock = "exclusive"
      BY <3>2, LockedReply DEF Base
    <3>. QED
      BY <3>1, <3>2, <3>3 DEF Base, Locked
  <2>. QED
    BY <2>1
<1>10. Mapped'
  BY <1>0, <1>1, <1>5, <1>6, <1>9, MappedForgets
<1>11. Room'
  BY <1>0, <1>1, RoomCalms, MapNumbers DEF Base, Mapped
<1>. QED
  BY <1>1, <1>2, <1>8, <1>10, <1>11 DEF Base

(* The answer to a removal keeps Base. *)
LEMMA BaseRemoved ==
  ASSUME Base, NEW c \in Caller, AnswerRemoved(c)
  PROVE  Base' /\ (SetsLeft => SetsLeft')
<1>0. /\ Running(c) /\ call[c].script = <<>> /\ End(c) /\ call[c].step = "running"
      /\ call[c].reply = "removed"
      /\ UNCHANGED <<readonly, threads, map, queue, host>>
      /\ Recall([dent EXCEPT ![call[c].name] = 0], means, files)
  BY DEF AnswerRemoved, Ready, Running
<1>1. /\ Shaped' /\ Requested' /\ (SetsLeft => SetsLeft') /\ Locked' /\ Pool' /\ Calms
      /\ call'[c] = NoCall /\ \A d \in Caller : d # c => call'[d] = call[d]
  BY <1>0, EndCalms
<1>2. Hosted'
  BY <1>0, HostedSame DEF Base
<1>3. PICK d : d = [dent EXCEPT ![call[c].name] = 0]
  OBVIOUS
<1>4. Recall(d, means, files)
  BY <1>0, <1>3
<1>5. dent' = d /\ files' = files
  BY <1>4 DEF Recall
<1>6. d \in [Name -> 0 .. MaxInode] /\ \A n \in Name : d[n] \in {dent[n], 0}
  <2>1. dent \in [Name -> 0 .. MaxInode] /\ 0 \in 0 .. MaxInode
    BY RootIs DEF Base, Mapped
  <2>. QED
    BY <1>3, <2>1
<1>7. \A a \in Caller : call'[a].num < map'.next_inode
  BY <1>0, <1>1, NumbersCalms DEF Base
<1>8. Told'
  BY <1>0, <1>4, <1>6, <1>7, RecallTold DEF Base, Told
<1>9. ASSUME NEW a \in Caller, call'[a].reply = "renamed" PROVE FALSE
  <2>1. call[c].lock = "exclusive"
    BY <1>0, LockedReply DEF Base
  <2>2. a # c /\ call[a].reply = "renamed"
    BY <1>1, <1>9, NoCallReplies DEF NoReply
  <2>3. call[a].lock = "exclusive"
    BY <2>2, LockedReply DEF Base
  <2>. QED
    BY <2>1, <2>2, <2>3 DEF Base, Locked
<1>10. Mapped'
  BY <1>0, <1>1, <1>5, <1>6, <1>9, MappedForgets
<1>11. Room'
  BY <1>0, <1>1, RoomCalms, MapNumbers DEF Base, Mapped
<1>. QED
  BY <1>1, <1>2, <1>8, <1>10, <1>11 DEF Base

(* An answer that changes nothing keeps Base. *)
LEMMA BaseOther ==
  ASSUME Base, NEW c \in Caller, AnswerOther(c)
  PROVE  Base' /\ (SetsLeft => SetsLeft')
<1>0. /\ End(c) /\ call[c].step = "running"
      /\ UNCHANGED <<readonly, threads, map, queue, host, dent, means, files>>
  BY DEF AnswerOther, Ready, Running
<1>1. /\ Shaped' /\ Requested' /\ (SetsLeft => SetsLeft') /\ Locked' /\ Pool' /\ Calms
  BY <1>0, EndCalms
<1>2. map.next_inode \in Nat
  BY MapNumbers DEF Base, Mapped
<1>. QED
  BY <1>0, <1>1, <1>2, HostedSame, MappedCalms, ToldCalms, RoomCalms DEF Base

(* The answer to open keeps Base, and has a descriptor. *)
LEMMA BaseOpened ==
  ASSUME Base, NEW c \in Caller, AnswerOpened(c)
  PROVE  /\ Base' /\ (SetsLeft => SetsLeft')
         /\ call[c].own \in Fd \ {0} /\ call[c].num \in 2 .. MaxInode
<1>0. /\ Running(c) /\ call[c].script = <<>> /\ End(c) /\ call[c].step = "running"
      /\ call[c].reply = "opened"
      /\ UNCHANGED <<readonly, threads, map, queue, host>>
  BY DEF AnswerOpened, Ready, Running
<1>1. /\ Shaped' /\ Requested' /\ (SetsLeft => SetsLeft') /\ Locked' /\ Pool' /\ Calms
      /\ call'[c] = NoCall /\ \A d \in Caller : d # c => call'[d] = call[d]
  BY <1>0, EndCalms
<1>2. PICK v : v = IF call[c].raced THEN host.desc[call[c].own] ELSE call[c].node
  OBVIOUS
<1>3. PICK f : f = [fd |-> call[c].own, num |-> call[c].num, node |-> v]
  OBVIOUS
<1>4. Recall(dent, means, files \cup {f})
  BY <1>2, <1>3 DEF AnswerOpened
<1>5. Left(call[c].script) = {} /\ Fit(call[c]) /\ call[c] \in Request
  BY <1>0, EmptyScript, NowCall DEF Base
<1>6. call[c].own \in Fd \ {0} /\ call[c].num \in 2 .. MaxInode
  BY <1>0, <1>5, RootIs DEF Fit, OwnFit, LockFit, Answers, HasOwn, Request
<1>7. v \in Thing
  BY <1>2, <1>5, <1>6, AtThing DEF Request, Base
<1>8. f \in [fd : Fd \ {0}, num : 2 .. MaxInode, node : Thing] /\ f.num = call[c].num
  BY <1>3, <1>6, <1>7
<1>9. \A a \in Caller : call'[a].num < map'.next_inode
  BY <1>0, <1>1, NumbersCalms DEF Base
<1>10. \A g \in files \cup {f} : g.num < map'.next_inode
  BY <1>0, <1>8 DEF Base, Told
<1>11. Told'
  BY <1>4, <1>8, <1>9, <1>10, RecallTold DEF Base, Told, Mapped
<1>12. UNCHANGED dent
  BY <1>4 DEF Recall
<1>13. map.next_inode \in Nat
  BY MapNumbers DEF Base, Mapped
<1>. QED
  BY <1>0, <1>1, <1>6, <1>11, <1>12, <1>13, HostedSame, MappedCalms, RoomCalms DEF Base

-----------------------------------------------------------------------------
(* What an entry is answered with. *)

(* What has still to be looked at before the answer. *)
Looking(r) ==
  r.reply = "entry" /\ (r.step = "queued" \/ "make" \in Left(r.script))
    => Left(r.script) \cap ({"lstat"} \cup Never) # {}
Looks == \A c \in Caller : Looking(call[c])

(* The node of an answer is the one that has the name. *)
FoundBy(r, e) ==
  (/\ r.step = "running" /\ r.reply \in {"entry", "created"}
   /\ Left(r.script) \cap ({"lstat"} \cup Renaming \cup Never) = {})
    => r.found = e[r.name]
Found == \A c \in Caller : FoundBy(call[c], host.entry)

(* An entry is answered with the node that has the name. *)
LEMMA FoundIs ==
  ASSUME Base, Found, NEW c \in Caller, Running(c), call[c].script = <<>>,
         call[c].reply \in {"entry", "created"}
  PROVE  call[c].found \in Node \cup {NoNode} /\ call[c].found = host.entry[call[c].name]
         /\ call[c].name \in Name
<1>1. call[c].found = host.entry[call[c].name]
  BY EmptyScript DEF Found, FoundBy, Running
<1>2. call[c].name \in Name
  BY LockedReply DEF Base
<1>. QED
  BY <1>1, <1>2 DEF Base, Hosted

(* What is left does not change while it is looked at. *)
LEMMA LeftLater ==
  ASSUME NEW c \in Caller, NEW q, call'[c] = q
  PROVE  /\ Looking(q) => Looking(call[c])'
         /\ FoundBy(q, host'.entry) => FoundBy(call[c], host.entry)'
BY DEF Looking, FoundBy, Left, Renaming, Never

(* The requests that c does not touch. *)
LEMMA LooksOthers ==
  ASSUME Base, Looks, Found, NEW c \in Caller,
         \A d \in Caller : d # c => ButRaced(call[d], call'[d]),
         \/ host'.entry = host.entry
         \/ call[c].lock = "exclusive",
         NEW q, call'[c] = q, Looking(q), FoundBy(q, host'.entry)
  PROVE  Looks' /\ Found'
<1>1. ASSUME NEW d \in Caller, NEW r, r = call'[d]
      PROVE  Looking(r) /\ FoundBy(r, host'.entry)
  <2>1. CASE d = c
    BY <1>1, <2>1
  <2>2. CASE d # c
    <3>1. ButRaced(call[d], r) /\ Looking(call[d]) /\ FoundBy(call[d], host.entry)
      BY <1>1, <2>2 DEF Looks, Found
    <3>2. r.reply \in {"entry", "created"} => host'.entry = host.entry
      <4>1. CASE call[c].lock = "exclusive"
        <5>1. call[d].lock = "none"
          BY <2>2, <4>1 DEF Base, Locked
        <5>2. call[d].reply \notin {"entry", "created"}
          BY <5>1, LockedReply DEF Base
        <5>. QED
          BY <3>1, <5>2 DEF ButRaced
      <4>. QED
        BY <4>1
    <3>. QED
      BY <3>1, <3>2 DEF ButRaced, Looking, FoundBy
  <2>. QED
    BY <2>1, <2>2
<1>2. ASSUME NEW d \in Caller PROVE Looking(call[d])' /\ FoundBy(call[d], host.entry)'
  <2>1. PICK r : r = call'[d]
    OBVIOUS
  <2>2. Looking(r) /\ FoundBy(r, host'.entry)
    BY <1>1, <2>1
  <2>. QED
    BY <2>1, <2>2, LeftLater
<1>. QED
  BY <1>2, ConstantLater DEF Looks, Found

(* A request that did not change. *)
LEMMA SameButRaced == \A r : ButRaced(r, r)
BY DEF ButRaced

(* A process without a request looks at nothing. *)
LEMMA NoCallLooks == Looking(NoCall) /\ \A e : FoundBy(NoCall, e)
BY NoCallReplies DEF Looking, FoundBy, NoReply

(* What is found, after the end of a request. *)
LEMMA LooksEnds ==
  ASSUME Base, Looks, Found, NEW c \in Caller, call'[c] = NoCall,
         \A d \in Caller : d # c => call'[d] = call[d], host'.entry = host.entry
  PROVE  Looks' /\ Found'
<1>1. \A d \in Caller : d # c => ButRaced(call[d], call'[d])
  BY SameButRaced
<1>2. PICK q : q = call'[c]
  OBVIOUS
<1>. QED
  BY <1>1, <1>2, NoCallLooks, LooksOthers

(* What is found, after sending. *)
LEMMA LooksSent ==
  ASSUME Base, Looks, Found, NEW c \in Caller, NEW q, SendStep(c, q)
  PROVE  Looks' /\ Found'
<1>1. call'[c] = q /\ \A d \in Caller : d # c => call'[d] = call[d]
  BY SentCalls DEF Base
<1>2. Looking(q) /\ FoundBy(q, host'.entry) /\ host' = host
  BY DEF SendStep, Sent, Looking, FoundBy
<1>3. \A d \in Caller : d # c => ButRaced(call[d], call'[d])
  BY <1>1, SameButRaced
<1>. QED
  BY <1>1, <1>2, <1>3, LooksOthers

(* What is found, after a begin. *)
LEMMA LooksBegin ==
  ASSUME Base, Looks, Found, NEW c \in Caller, NEW q, BeginForm(c, q)
  PROVE  Looks' /\ Found'
<1>1. call'[c] = q /\ \A d \in Caller : d # c => ButRaced(call[d], call'[d])
  BY BeginLater DEF Base
<1>2. host' = host /\ q.script = call[c].script /\ q.reply = call[c].reply
      /\ call[c].step = "queued"
  BY DEF BeginForm, Takes, Started
<1>3. Looking(call[c]) /\ LockFit(call[c], Left(call[c].script))
  BY DEF Base, Looks, Requested, Fit
<1>4. Looking(q)
  BY <1>2, <1>3 DEF Looking
<1>5. FoundBy(q, host'.entry)
  <2>1. CASE call[c].reply = "entry"
    BY <1>2, <1>3, <2>1 DEF Looking, FoundBy
  <2>2. CASE call[c].reply = "created"
    <3>1. call[c].lock = "exclusive"
      BY <2>2, LockedReply DEF Base
    <3>2. Left(call[c].script) \cap (Renaming \cup Never) # {}
      BY <1>2, <1>3, <3>1 DEF LockFit, AloneFit
    <3>. QED
      BY <1>2, <3>2 DEF FoundBy
  <2>. QED
    BY <1>2, <2>1, <2>2 DEF FoundBy
<1>. QED
  BY <1>1, <1>2, <1>4, <1>5, LooksOthers

(* A request that is answered with an entry makes no other calls. *)
LEMMA EntryCalls ==
  ASSUME NEW r, Fit(r), r.step = "running", r.script # <<>>, r.reply \in {"entry", "created"}
  PROVE  /\ Head(r.script) \in {"lstat", "make", "creat"} \cup Never
         /\ Head(r.script) \in Left(r.script)
         /\ r.reply = "entry" => Head(r.script) # "creat"
         /\ r.reply = "created" => Head(r.script) # "make"
<1>1. Head(r.script) \in Left(r.script)
  BY OneLess DEF Fit, Scripted
<1>2. LockFit(r, Left(r.script)) /\ r.lock \in {"none", "shared", "exclusive"}
  BY DEF Fit, Request
<1>. QED
  BY <1>1, <1>2 DEF LockFit, AloneFit, Never

(* What is found, after a call. *)
LEMMA LooksCall ==
  ASSUME Base, Looks, Found, NEW c \in Caller, IsHost(host'), NEW q, NEW v,
         \/ PathForm(c, q, v) \/ OpenForm(c, q, v) \/ CreatForm(c, q, v)
         \/ WaitForm(c, q) \/ NameForm(c, q) \/ OwnForm(c, q, v) \/ CloseForm(c, q, v)
         \/ HandleForm(c, q, v)
  PROVE  Looks' /\ Found'
<1>. DEFINE r == call[c]
            h == Head(call[c].script)
<1>0. /\ Runs(c, q) /\ call'[c] = q /\ \A d \in Caller : d # c => call'[d] = call[d]
  BY BaseCall
<1>1. /\ Fit(r) /\ r.step = "running" /\ r.script # <<>> /\ Same(r, q)
      /\ Looking(r) /\ FoundBy(r, host.entry)
  BY <1>0, NowCall DEF Runs, Base, Looks, Found
<1>2. h \in Left(r.script) /\ Left(Tail(r.script)) = Left(r.script) \ {h}
      /\ (h = "lstat" => Left(r.script) \cap Renaming = {})
  BY <1>1, OneLess DEF Fit, Scripted
<1>3. \/ host'.entry = host.entry
      \/ r.lock = "exclusive"
  <2>1. CASE CreatForm(c, q, v) \/ NameForm(c, q)
    <3>1. h \in Renaming
      BY <2>1 DEF CreatForm, NameForm, Renaming
    <3>. QED
      BY <1>1, <3>1, RenamingCall
  <2>. QED
    BY <2>1 DEF PathForm, OpenForm, WaitForm, OwnForm, CloseForm, HandleForm
<1>4. CASE r.reply \notin {"entry", "created"}
  <2>1. Looking(q) /\ FoundBy(q, host'.entry)
    BY <1>1, <1>4 DEF Looking, FoundBy, Same
  <2>. QED
    BY <1>0, <1>3, <2>1, SameButRaced, LooksOthers
<1>5. CASE r.reply \in {"entry", "created"}
  <2>1. h \in {"lstat", "make", "creat"} \cup Never
    BY <1>1, <1>5, EntryCalls
  <2>2. \/ PathForm(c, q, v) /\ h = "lstat"
        \/ CreatForm(c, q, v)
        \/ NameForm(c, q) /\ h = "make"
    BY <2>1 DEF PathForm, OpenForm, WaitForm, OwnForm, CloseForm, HandleForm, NameForm, Never
  <2>3. Tailed(r, q) /\ q.step = "running" /\ q.reply = r.reply /\ q.name = r.name
    BY <1>1, <2>2 DEF PathForm, CreatForm, NameForm, Opened, Reaches, Same
  <2>4. Left(q.script) = Left(r.script) \ {h}
    BY <1>2, <2>3 DEF Tailed
  <2>5. Looking(q)
    <3>1. "make" \in Left(q.script) => Left(r.script) \cap ({"lstat"} \cup Never) # {}
                                         \/ r.reply # "entry"
      BY <1>1, <2>4 DEF Looking
    <3>2. "make" \in Left(q.script) => h # "lstat" /\ h \notin Never
      BY <1>2, <2>2, <2>4 DEF Renaming, Never, CreatForm
    <3>. QED
      BY <2>3, <2>4, <3>1, <3>2 DEF Looking
  <2>6. FoundBy(q, host'.entry)
    <3>1. CASE PathForm(c, q, v) /\ h = "lstat"
      <4>1. q.found = v /\ v = At(c) /\ host' = host
        BY <1>5, <3>1 DEF PathForm, Reaches, HitBy
      <4>. QED
        BY <2>3, <4>1 DEF FoundBy, At
    <3>2. CASE CreatForm(c, q, v)
      <4>1. q.found = v /\ host'.entry = [host.entry EXCEPT ![r.name] = v]
        BY <1>5, <3>2 DEF CreatForm, Opened, Reaches, HitBy
      <4>2. r.name \in AName /\ host.entry \in [AName -> Node \cup {NoNode, RootNode}]
        BY AtThing DEF Base
      <4>. QED
        BY <2>3, <4>1, <4>2 DEF FoundBy
    <3>3. CASE NameForm(c, q) /\ h = "make"
      <4>1. r.reply = "entry"
        BY <1>1, <1>5, <3>3, EntryCalls
      <4>2. Left(r.script) \cap ({"lstat"} \cup Never) # {}
        BY <1>1, <1>2, <3>3, <4>1 DEF Looking
      <4>3. Left(q.script) \cap ({"lstat"} \cup Never) # {}
        BY <2>4, <3>3, <4>2 DEF Never
      <4>. QED
        BY <4>3 DEF FoundBy
    <3>. QED
      BY <2>2, <3>1, <3>2, <3>3
  <2>. QED
    BY <1>0, <1>3, <2>5, <2>6, SameButRaced, LooksOthers
<1>. QED
  BY <1>4, <1>5

-----------------------------------------------------------------------------
(* Base is inductive: the answers that change the resolver. *)

(* What lookup makes of the resolver, and the number it gives. *)
EntryMap(n, m, i) ==
  /\ GoodMap(m) /\ mapper!Listed(m, Root, n)
  /\ i = mapper!Child(m, Root, n) /\ i \in 2 .. MaxInode /\ i < m.next_inode
  /\ \A k : mapper!Listed(m, Root, k) <=> mapper!Listed(map, Root, k) \/ k = n
  /\ \A k : mapper!Listed(map, Root, k) =>
       mapper!Child(m, Root, k) = mapper!Child(map, Root, k)
  /\ mapper!Present(map) \subseteq mapper!Present(m)
  /\ mapper!Present(m) \subseteq mapper!Present(map) \cup {i}
  /\ \A j \in mapper!Present(map) : m.inodes[j].name = map.inodes[j].name
  /\ m.next_inode \in Nat /\ map.next_inode \in Nat
  /\ \/ m.next_inode = map.next_inode /\ mapper!Listed(map, Root, n)
     \/ m.next_inode = map.next_inode + 1 /\ ~ mapper!Listed(map, Root, n)
        /\ i = map.next_inode /\ i \notin mapper!Present(map)

(* The resolver after a lookup: the name is listed, as it was or under a
   new number. *)
LEMMA EntryMaps ==
  ASSUME Base, NEW c \in Caller, call[c].reply \in {"entry", "created"},
         NEW m, m = IF mapper!Listed(map, Root, call[c].name) THEN map
                    ELSE mapper!Insert(map, Root, call[c].name, "entry"),
         NEW i, i = mapper!Child(m, Root, call[c].name)
  PROVE  EntryMap(call[c].name, m, i)
<1>0. GoodMap(map) /\ call[c].name \in Name
  BY LockedReply DEF Base, Mapped
<1>1. map.next_inode \in 1 .. MaxInode + 1
      /\ \A j \in mapper!Present(map) : j \in 1 .. MaxInode /\ j < map.next_inode
  BY <1>0, MapNumbers
<1>2. CASE mapper!Listed(map, Root, call[c].name)
  <2>1. m = map
    BY <1>2
  <2>2. i \in mapper!Present(map) \ {Root}
    BY <1>0, <1>2, <2>1, MapChild
  <2>3. i \in 2 .. MaxInode
    BY <1>1, <2>2, RootIs
  <2>. QED
    BY <1>0, <1>1, <1>2, <2>1, <2>2, <2>3, RootIs DEF EntryMap
<1>3. CASE ~ mapper!Listed(map, Root, call[c].name)
  <2>1. c \in Wanting /\ Wanting \subseteq Asking
    BY <1>3 DEF Wanting, Asking
  <2>2. IsFiniteSet(Wanting) /\ Cardinality(Wanting) >= 1
    <3>1. IsFiniteSet(Wanting)
      BY <2>1, FS_Subset DEF Base, Room
    <3>2. Cardinality(Wanting) # 0 /\ Cardinality(Wanting) \in Nat
      BY <2>1, <3>1, FS_EmptySet, FS_CardinalityType
    <3>. QED
      BY <3>1, <3>2
  <2>3. map.next_inode <= MaxInode
    <3>1. Cardinality(Wanting) \in Nat
      BY <2>2, FS_CardinalityType
    <3>. QED
      BY <1>1, <2>2, <3>1, RootIs DEF Base, Room
  <2>4. m = mapper!Insert(map, Root, call[c].name, "entry")
    BY <1>3
  <2>5. /\ GoodMap(m)
        /\ mapper!Present(m) = mapper!Present(map) \cup {map.next_inode}
        /\ \A j \in mapper!Present(map) : m.inodes[j].name = map.inodes[j].name
        /\ \A k : mapper!Listed(m, Root, k) <=> mapper!Listed(map, Root, k) \/ k = call[c].name
        /\ \A k : mapper!Listed(map, Root, k) =>
                    mapper!Child(m, Root, k) = mapper!Child(map, Root, k)
        /\ mapper!Child(m, Root, call[c].name) = map.next_inode
        /\ m.next_inode = map.next_inode + 1
        /\ map.next_inode # Root
    BY <1>0, <1>3, <2>3, <2>4, MapInsert
  <2>6. i = map.next_inode /\ i \in 2 .. MaxInode /\ i \notin mapper!Present(map)
    BY <1>1, <2>3, <2>5, RootIs
  <2>. QED
    BY <1>0, <1>1, <1>3, <2>5, <2>6, RootIs DEF EntryMap
<1>. QED
  BY <1>2, <1>3

(* The reply to a lookup, or to a request that made a name. *)
EntryAnswer(c, m, i, opened) ==
  /\ Running(c) /\ call[c].script = <<>> /\ call[c].step = "running" /\ End(c)
  /\ call[c].reply \in {"entry", "created"} /\ (opened = (call[c].reply = "created"))
  /\ UNCHANGED <<readonly, threads, queue, host>>
  /\ EntryMap(call[c].name, m, i) /\ map' = m
  /\ Recall([dent EXCEPT ![call[c].name] = i], [means EXCEPT ![i] = call[c].found],
            IF opened THEN files \cup {[fd |-> call[c].own, num |-> i, node |-> call[c].found]}
            ELSE files)

(* The answer of an entry is of this form. *)
LEMMA EntryAnswers ==
  ASSUME Base, NEW c \in Caller, AnswerEntry(c) \/ AnswerCreated(c)
  PROVE  \E m, i : \E opened \in BOOLEAN : EntryAnswer(c, m, i, opened)
<1>1. PICK opened \in BOOLEAN :
        /\ EntryReply(c, opened) /\ Ready(c, IF opened THEN "created" ELSE "entry")
  BY DEF AnswerEntry, AnswerCreated
<1>2. PICK m : m = IF mapper!Listed(map, Root, call[c].name) THEN map
                    ELSE mapper!Insert(map, Root, call[c].name, "entry")
  OBVIOUS
<1>3. PICK i : i = mapper!Child(m, Root, call[c].name)
  OBVIOUS
<1>4. /\ map' = m
      /\ Recall([dent EXCEPT ![call[c].name] = i], [means EXCEPT ![i] = call[c].found],
                IF opened THEN files \cup {[fd |-> call[c].own, num |-> i, node |-> call[c].found]}
                ELSE files)
  BY <1>1, <1>2, <1>3 DEF EntryReply
<1>5. /\ Running(c) /\ call[c].script = <<>> /\ call[c].step = "running" /\ End(c)
      /\ call[c].reply \in {"entry", "created"} /\ (opened = (call[c].reply = "created"))
      /\ UNCHANGED <<readonly, threads, queue, host>>
  BY <1>1 DEF Ready, Running
<1>6. EntryMap(call[c].name, m, i)
  BY <1>2, <1>3, <1>5, EntryMaps
<1>. QED
  BY <1>4, <1>5, <1>6 DEF EntryAnswer

(* While a request has the lock that changes names need, or shares it, no
   other request changes them. *)
LEMMA Alone ==
  ASSUME Base, NEW c \in Caller, call[c].lock # "none", NEW d \in Caller, d # c
  PROVE  /\ call[d].lock # "exclusive"
         /\ call[d].reply \notin {"created", "removed", "renamed"} /\ ~ Creating(call[d])
         /\ call[c].lock = "exclusive" =>
              call[d].lock = "none" /\ call[d].reply \notin {"entry", "created"}
<1>1. call[d].lock # "exclusive" /\ (call[c].lock = "exclusive" => call[d].lock = "none")
  BY DEF Base, Locked
<1>. QED
  BY <1>1, LockedReply DEF Base, Creating

(* The answer of an entry keeps Base. *)
LEMMA BaseEntry ==
  ASSUME Base, Found, NEW c \in Caller, NEW m, NEW i, NEW opened \in BOOLEAN,
         EntryAnswer(c, m, i, opened)
  PROVE  Base' /\ (SetsLeft => SetsLeft') /\ (opened => call[c].own \in Fd \ {0})
<1>. DEFINE n == call[c].name
<1>0. /\ Running(c) /\ call[c].script = <<>> /\ End(c) /\ call[c].step = "running"
      /\ call[c].reply \in {"entry", "created"} /\ (opened = (call[c].reply = "created"))
      /\ UNCHANGED <<readonly, threads, queue, host>>
      /\ map' = m
  BY DEF EntryAnswer
<1>1. /\ Shaped' /\ Requested' /\ (SetsLeft => SetsLeft') /\ Locked' /\ Pool' /\ Calms
      /\ call'[c] = NoCall /\ \A d \in Caller : d # c => call'[d] = call[d]
  BY <1>0, EndCalms
<1>2. Hosted'
  BY <1>0, HostedSame DEF Base
<1>3. call[c].found \in Node \cup {NoNode} /\ n \in Name /\ call[c].lock # "none"
  BY <1>0, FoundIs, LockedReply DEF Base
<1>4. /\ GoodMap(m) /\ mapper!Listed(m, Root, n)
      /\ i = mapper!Child(m, Root, n) /\ i \in 2 .. MaxInode /\ i < m.next_inode
      /\ \A k : mapper!Listed(m, Root, k) <=> mapper!Listed(map, Root, k) \/ k = n
      /\ \A k : mapper!Listed(map, Root, k) =>
           mapper!Child(m, Root, k) = mapper!Child(map, Root, k)
      /\ m.next_inode \in Nat /\ map.next_inode \in Nat
      /\ \/ m.next_inode = map.next_inode /\ mapper!Listed(map, Root, n)
         \/ m.next_inode = map.next_inode + 1 /\ ~ mapper!Listed(map, Root, n)
  BY DEF EntryAnswer, EntryMap
<1>5. PICK d : d = [dent EXCEPT ![n] = i]
  OBVIOUS
<1>6. PICK mm : mm = [means EXCEPT ![i] = call[c].found]
  OBVIOUS
<1>7. PICK f : f = [fd |-> call[c].own, num |-> i, node |-> call[c].found]
  OBVIOUS
<1>8. PICK fs : fs = IF opened THEN files \cup {f} ELSE files
  OBVIOUS
<1>9. Recall(d, mm, fs)
  BY <1>5, <1>6, <1>7, <1>8 DEF EntryAnswer
<1>10. i \in 1 .. MaxInode /\ i \in 0 .. MaxInode /\ i # Root
  BY <1>4, RootIs
<1>11. d \in [Name -> 0 .. MaxInode] /\ d[n] = i /\ \A k \in Name : k # n => d[k] = dent[k]
  BY <1>3, <1>5, <1>10 DEF Base, Mapped
<1>12. /\ mm \in [1 .. MaxInode -> Node \cup {NoNode, RootNode}] /\ mm[Root] = RootNode
       /\ \A j \in 2 .. MaxInode : mm[j] \in Node \cup {NoNode}
  <2>1. \A j \in 2 .. MaxInode : j \in 1 .. MaxInode
    BY RootIs
  <2>. QED
    BY <1>3, <1>6, <1>10, <2>1, RootIs DEF Base, Told
<1>13. opened => call[c].own \in Fd \ {0}
  <2>1. Left(call[c].script) = {} /\ Fit(call[c])
    BY <1>0, EmptyScript, NowCall DEF Base
  <2>. QED
    BY <1>0, <2>1 DEF Fit, OwnFit, Answers, HasOwn
<1>14. opened => f \in [fd : Fd \ {0}, num : 2 .. MaxInode, node : Thing] /\ f.num = i
  BY <1>3, <1>4, <1>7, <1>13 DEF Thing
<1>15. \A g \in fs : g.num < map'.next_inode
  BY <1>0, <1>4, <1>8, <1>14 DEF Base, Told
<1>16. \A a \in Caller : call'[a].num < map'.next_inode
  <2>1. \A a \in Caller : call'[a].num < map.next_inode /\ call'[a].num \in Int
    <3>1. \A a \in Caller : call'[a].num \in Int
      BY <1>1, ConstantLater, RootIs DEF Requested, Fit, Request
    <3>. QED
      BY <1>1, <3>1, NumbersCalms DEF Base
  <2>. QED
    BY <1>0, <1>4, <2>1
<1>17. Told'
  <2>1. fs \subseteq [fd : Fd \ {0}, num : 2 .. MaxInode, node : Thing]
    BY <1>8, <1>14 DEF Base, Told
  <2>. QED
    BY <1>9, <1>11, <1>12, <1>15, <1>16, <2>1, RecallTold
<1>18. Mapped'
  <2>1. dent' = d
    BY <1>9 DEF Recall
  <2>2. GoodMap(map)'
    <3>1. GoodMap(m)
      BY <1>4
    <3>. QED
      BY <1>0, <3>1 DEF GoodMap
  <2>3. \A k \in Name : d[k] # 0 => mapper!Listed(m, Root, k) /\ mapper!Child(m, Root, k) = d[k]
    BY <1>4, <1>11 DEF Base, Mapped
  <2>4. \A a \in Caller : call'[a].reply # "renamed" /\ ~ Creating(call'[a])
    BY <1>1, <1>3, NoCallReplies, Alone DEF NoReply, Creating
  <2>. QED
    BY <1>0, <1>11, <2>1, <2>2, <2>3, <2>4, ConstantLater DEF Mapped, Creating
<1>19. Room'
  <2>1. IsFiniteSet(Asking) /\ IsFiniteSet(Wanting) /\ Wanting \subseteq Asking
    <3>1. Wanting \subseteq Asking
      BY DEF Wanting
    <3>. QED
      BY <3>1, FS_Subset DEF Base, Room
  <2>2. /\ Asking' \subseteq Asking \ {c} /\ Wanting' \subseteq Wanting \ {c}
    <3>1. \A a \in Caller : call'[a].reply \in {"entry", "created"} =>
            a # c /\ call'[a] = call[a]
      BY <1>1, NoCallReplies DEF NoReply
    <3>2. \A k : mapper!Listed(map, Root, k) => mapper!Listed(map', Root, k)
      BY <1>0, <1>4
    <3>3. Asking' \subseteq Asking \ {c}
      BY <3>1, ConstantLater DEF Asking
    <3>4. Wanting' \subseteq Wanting \ {c}
      BY <3>1, <3>2, <3>3, ConstantLater DEF Wanting, Asking
    <3>. QED
      BY <3>3, <3>4
  <2>3. IsFiniteSet(Asking') /\ IsFiniteSet(Wanting') /\ Cardinality(Wanting') <= Cardinality(Wanting)
        /\ Cardinality(Wanting') \in Nat /\ Cardinality(Wanting) \in Nat
    <3>1. Asking' \subseteq Asking /\ Wanting' \subseteq Wanting
      BY <2>2
    <3>. QED
      BY <2>1, <3>1, FS_Subset, FS_CardinalityType
  <2>4. c \in Wanting => Cardinality(Wanting') <= Cardinality(Wanting) - 1
    <3>1. ASSUME c \in Wanting PROVE Cardinality(Wanting') <= Cardinality(Wanting) - 1
      <4>1. IsFiniteSet(Wanting \ {c}) /\ Cardinality(Wanting \ {c}) = Cardinality(Wanting) - 1
        BY <2>1, <3>1, FS_RemoveElement
      <4>. QED
        BY <2>2, <4>1, FS_Subset
    <3>. QED
      BY <3>1
  <2>5. ~ mapper!Listed(map, Root, n) => c \in Wanting
    BY <1>0 DEF Wanting, Asking
  <2>6. map.next_inode + Cardinality(Wanting) <= MaxInode + 1 /\ MaxInode \in Nat
    BY RootIs DEF Base, Room
  <2>7. map'.next_inode + Cardinality(Wanting') <= MaxInode + 1
    BY <1>0, <1>4, <2>3, <2>4, <2>5, <2>6
  <2>. QED
    BY <2>3, <2>7 DEF Room
<1>. QED
  BY <1>1, <1>2, <1>13, <1>17, <1>18, <1>19 DEF Base

(* What rename makes of the resolver. *)
MovedMap(o, n, m) ==
  /\ o # n /\ o \in Name /\ n \in Name
  /\ mapper!Listed(map, Root, o) /\ mapper!Listed(map, Root, n)
  /\ mapper!Child(map, Root, o) = dent[o] /\ dent[o] # 0
  /\ GoodMap(m)
  /\ mapper!Present(m) = mapper!Present(map) \ {mapper!Child(map, Root, n)}
  /\ m.inodes[dent[o]].name = n
  /\ \A i \in mapper!Present(m) \ {dent[o]} : m.inodes[i].name = map.inodes[i].name
  /\ \A k : mapper!Listed(m, Root, k) <=> mapper!Listed(map, Root, k) /\ k # o
  /\ mapper!Child(m, Root, n) = dent[o]
  /\ \A k : mapper!Listed(map, Root, k) /\ k \notin {o, n} =>
       mapper!Child(m, Root, k) = mapper!Child(map, Root, k)
  /\ m.next_inode = map.next_inode /\ m.next_inode \in Nat

RenameAnswer(c, m) ==
  /\ Running(c) /\ call[c].script = <<>> /\ call[c].step = "running" /\ End(c)
  /\ call[c].reply = "renamed" /\ call[c].lock = "exclusive"
  /\ UNCHANGED <<readonly, threads, queue, host>>
  /\ MovedMap(call[c].name, call[c].newname, m) /\ map' = m
  /\ Recall([dent EXCEPT ![call[c].name] = 0, ![call[c].newname] = dent[call[c].name]],
            means, files)

(* The answer to a rename is of this form. *)
LEMMA RenameAnswers ==
  ASSUME Base, NEW c \in Caller, AnswerRenamed(c)
  PROVE  \E m : RenameAnswer(c, m)
<1>1. PICK o, n : o = call[c].name /\ n = call[c].newname
  OBVIOUS
<1>2. /\ Running(c) /\ call[c].script = <<>> /\ call[c].step = "running" /\ End(c)
      /\ call[c].reply = "renamed"
      /\ UNCHANGED <<readonly, threads, queue, host>>
      /\ map' = mapper!Moved(map, Root, o, Root, n)
      /\ Recall([dent EXCEPT ![o] = 0, ![n] = dent[o]], means, files)
  BY <1>1 DEF AnswerRenamed, Ready, Running
<1>3. /\ call[c].lock = "exclusive" /\ o \in Name /\ n \in Name /\ o # n
  BY <1>1, <1>2, LockedReply DEF Base
<1>4. dent[o] # 0 /\ mapper!Listed(map, Root, n) /\ GoodMap(map)
  BY <1>1, <1>2 DEF Base, Mapped
<1>5. mapper!Listed(map, Root, o) /\ mapper!Child(map, Root, o) = dent[o]
  BY <1>3, <1>4 DEF Base, Mapped
<1>6. PICK m : m = mapper!Moved(map, Root, o, Root, n)
  OBVIOUS
<1>7. PICK e, j : e = mapper!Child(map, Root, o) /\ j = mapper!Child(map, Root, n)
  OBVIOUS
<1>8. /\ GoodMap(m)
      /\ mapper!Present(m) = mapper!Present(map) \ {j}
      /\ m.inodes[e].name = n
      /\ \A i \in mapper!Present(m) \ {e} : m.inodes[i].name = map.inodes[i].name
      /\ \A k : mapper!Listed(m, Root, k) <=> mapper!Listed(map, Root, k) /\ k # o
      /\ mapper!Child(m, Root, n) = e
      /\ \A k : mapper!Listed(map, Root, k) /\ k \notin {o, n} =>
                         mapper!Child(m, Root, k) = mapper!Child(map, Root, k)
      /\ m.next_inode = map.next_inode
  BY <1>3, <1>4, <1>5, <1>6, <1>7, MapMoved
<1>9. m.next_inode \in Nat
  BY <1>4, <1>8, MapNumbers
<1>10. MovedMap(o, n, m)
  BY <1>3, <1>4, <1>5, <1>7, <1>8, <1>9 DEF MovedMap
<1>. QED
  BY <1>1, <1>2, <1>3, <1>6, <1>10 DEF RenameAnswer

(* The answer to a rename keeps Base. *)
LEMMA BaseRenamed ==
  ASSUME Base, NEW c \in Caller, NEW m, RenameAnswer(c, m)
  PROVE  Base' /\ (SetsLeft => SetsLeft')
<1>1. PICK o, n : o = call[c].name /\ n = call[c].newname
  OBVIOUS
<1>2. /\ Running(c) /\ call[c].script = <<>> /\ call[c].step = "running" /\ End(c)
      /\ call[c].reply = "renamed" /\ call[c].lock = "exclusive"
      /\ UNCHANGED <<readonly, threads, queue, host>> /\ map' = m
      /\ Recall([dent EXCEPT ![o] = 0, ![n] = dent[o]], means, files)
  BY <1>1 DEF RenameAnswer
<1>3. /\ o # n /\ o \in Name /\ n \in Name
      /\ mapper!Listed(map, Root, o) /\ mapper!Listed(map, Root, n)
      /\ mapper!Child(map, Root, o) = dent[o] /\ dent[o] # 0
      /\ GoodMap(m)
      /\ \A k : mapper!Listed(m, Root, k) <=> mapper!Listed(map, Root, k) /\ k # o
      /\ mapper!Child(m, Root, n) = dent[o]
      /\ \A k : mapper!Listed(map, Root, k) /\ k \notin {o, n} =>
           mapper!Child(m, Root, k) = mapper!Child(map, Root, k)
      /\ m.next_inode = map.next_inode /\ m.next_inode \in Nat
  BY <1>1 DEF RenameAnswer, MovedMap
<1>4. /\ Shaped' /\ Requested' /\ (SetsLeft => SetsLeft') /\ Locked' /\ Pool' /\ Calms
      /\ call'[c] = NoCall /\ \A d \in Caller : d # c => call'[d] = call[d]
  BY <1>2, EndCalms
<1>5. Hosted'
  BY <1>2, HostedSame DEF Base
<1>6. PICK d : d = [dent EXCEPT ![o] = 0, ![n] = dent[o]]
  OBVIOUS
<1>7. Recall(d, means, files)
  BY <1>2, <1>6
<1>8. dent \in [Name -> 0 .. MaxInode] /\ 0 \in 0 .. MaxInode
  BY RootIs DEF Base, Mapped
<1>9. /\ d \in [Name -> 0 .. MaxInode] /\ d[o] = 0 /\ d[n] = dent[o]
      /\ \A k \in Name : k \notin {o, n} => d[k] = dent[k]
  BY <1>3, <1>6, <1>8
<1>10. \A a \in Caller : call'[a].num < map'.next_inode
  BY <1>2, <1>3, <1>4, NumbersCalms DEF Base
<1>11. Told'
  BY <1>2, <1>3, <1>7, <1>9, <1>10, RecallTold DEF Base, Told
<1>12. \A a \in Caller : call'[a].reply \notin {"entry", "created", "renamed"} /\ ~ Creating(call'[a])
  BY <1>2, <1>4, NoCallReplies, Alone DEF NoReply, Creating
<1>13. Mapped'
  <2>1. dent' = d
    BY <1>7 DEF Recall
  <2>2. GoodMap(map)'
    <3>1. GoodMap(m)
      BY <1>3
    <3>. QED
      BY <1>2, <3>1 DEF GoodMap
  <2>3. \A k \in Name : d[k] # 0 => mapper!Listed(m, Root, k) /\ mapper!Child(m, Root, k) = d[k]
    <3>1. ASSUME NEW k \in Name, d[k] # 0
          PROVE  mapper!Listed(m, Root, k) /\ mapper!Child(m, Root, k) = d[k]
      <4>1. CASE k = n
        BY <1>3, <1>9, <4>1
      <4>2. CASE k \notin {o, n}
        <5>1. d[k] = dent[k]
          BY <1>9, <4>2
        <5>2. mapper!Listed(map, Root, k) /\ mapper!Child(map, Root, k) = dent[k]
          BY <3>1, <5>1 DEF Base, Mapped
        <5>. QED
          BY <1>3, <4>2, <5>1, <5>2
      <4>. QED
        BY <1>9, <3>1, <4>1, <4>2
    <3>. QED
      BY <3>1
  <2>. QED
    BY <1>2, <1>9, <1>12, <2>1, <2>2, <2>3, ConstantLater DEF Mapped, Creating
<1>14. Room'
  <2>1. Asking' = {} /\ Wanting' = {}
    BY <1>12, ConstantLater DEF Asking, Wanting
  <2>2. IsFiniteSet(Asking') /\ Cardinality(Wanting') = 0
    BY <2>1, FS_EmptySet
  <2>3. map.next_inode <= MaxInode + 1
    BY MapNumbers, RootIs DEF Base, Mapped
  <2>. QED
    BY <1>2, <1>3, <2>2, <2>3, RootIs DEF Room
<1>. QED
  BY <1>4, <1>5, <1>11, <1>13, <1>14 DEF Base

(* Nothing happens. *)
LEMMA BaseSame ==
  ASSUME Base, UNCHANGED vars
  PROVE  Base' /\ (SetsLeft => SetsLeft')
<1>1. UNCHANGED <<readonly, threads, host, map, queue, call, dent, means, files>>
  BY DEF vars
<1>2. ASSUME NEW c \in Caller PROVE Fit(call[c])' /\ (SetsLeft => SetFit(call[c])')
  <2>1. PICK r : r = call[c]
    OBVIOUS
  <2>2. Fit(r) /\ (SetsLeft => SetFit(r)) /\ call'[c] = r
    BY <1>1, <2>1, NowCall DEF Base
  <2>. QED
    BY <1>1, <2>2, FitLater
<1>3. Requested' /\ (SetsLeft => SetsLeft') /\ Shaped'
  BY <1>1, <1>2, ConstantLater DEF Requested, SetsLeft, Base, Shaped
<1>4. Calms
  BY <1>1 DEF Calms, Alike
<1>5. Pool'
  BY <1>1, PoolSteps DEF Base
<1>6. map.next_inode \in Nat
  BY MapNumbers DEF Base, Mapped
<1>. QED
  BY <1>1, <1>3, <1>4, <1>5, <1>6, LockedCalms, MappedCalms, ToldCalms, RoomCalms, HostedSame DEF Base

-----------------------------------------------------------------------------
(* Every step is one of these, and keeps all that is above. *)

Kept == Base /\ Looks /\ Found

(* The forms of a step, with what they keep. *)
Called(c, q, v) ==
  \/ PathForm(c, q, v) \/ OpenForm(c, q, v) \/ CreatForm(c, q, v)
  \/ WaitForm(c, q) \/ NameForm(c, q) \/ OwnForm(c, q, v) \/ CloseForm(c, q, v)
  \/ HandleForm(c, q, v)

(* Every step of the mount is one of these. *)
LEMMA EveryStep ==
  ASSUME Kept, Next
  PROVE  \E c \in Caller :
           \/ \E q : SendStep(c, q)
           \/ BeginLost(c)
           \/ \E q : BeginForm(c, q)
           \/ IsHost(host') /\ \E q, v : Called(c, q, v)
           \/ IsHost(host') /\ CallFails(c)
           \/ \E m, i : \E opened \in BOOLEAN : EntryAnswer(c, m, i, opened)
           \/ AnswerOpened(c)
           \/ \E m : RenameAnswer(c, m)
           \/ AnswerRemoved(c)
           \/ AnswerOther(c)
<1>0. Base /\ Shaped /\ Requested /\ Hosted /\ Mapped /\ Told /\ Pool
  BY DEF Base, Kept
<1>1. CASE \E c \in User : ~ Busy(c) /\ UseFiles(c)
  <2>1. PICK c \in User : UseFiles(c)
    BY <1>1
  <2>2. c \in Caller
    BY DEF Caller
  <2>. QED
    BY <1>0, <2>1, <2>2, UseFilesSent
<1>2. CASE \E c \in Namer : ~ Busy(c) /\ ChangeNames(c)
  <2>1. PICK c \in Namer : ChangeNames(c)
    BY <1>2
  <2>2. c \in Caller
    BY DEF Caller
  <2>. QED
    BY <2>1, <2>2, ChangeNamesSent
<1>3. ASSUME NEW c \in Caller, SystemCall(c)
      PROVE  IsHost(host') /\ (CallFails(c) \/ \E q, v : Called(c, q, v))
  <2>0. IsHost(host')
    BY <1>0, <1>3, HostStays
  <2>1. CASE PathCall(c)
    BY <1>0, <2>0, <2>1, PathCallForm DEF Called
  <2>2. CASE OpenCall(c)
    BY <1>0, <2>0, <2>2, OpenCallForm DEF Called
  <2>3. CASE CreatCall(c)
    BY <1>0, <2>0, <2>3, CreatCallForm DEF Called
  <2>4. CASE OpenWaits(c)
    BY <1>0, <2>0, <2>4, OpenWaitsForm DEF Called
  <2>5. CASE MakeCall(c) \/ RemoveCall(c) \/ RenameCall(c)
    BY <1>0, <2>0, <2>5, NameCallForm DEF Called
  <2>6. CASE OwnCall(c)
    BY <1>0, <2>0, <2>6, OwnCallForm DEF Called
  <2>7. CASE CloseCall(c)
    BY <1>0, <2>0, <2>7, CloseCallForm DEF Called
  <2>8. CASE HandleCall(c)
    BY <1>0, <2>0, <2>8, HandleCallForm DEF Called
  <2>. QED
    BY <1>3, <2>0, <2>1, <2>2, <2>3, <2>4, <2>5, <2>6, <2>7, <2>8 DEF SystemCall
<1>4. CASE \E c \in Caller : Serve(c)
  <2>1. PICK c \in Caller : Begin(c) \/ SystemCall(c) \/ Answer(c)
    BY <1>4 DEF Serve
  <2>2. CASE Begin(c)
    <3>1. BeginLost(c) \/ \E q : BeginForm(c, q)
      BY <1>0, <2>2, BeginForms
    <3>. QED
      BY <3>1
  <2>3. CASE SystemCall(c)
    BY <1>3, <2>3
  <2>4. CASE AnswerEntry(c) \/ AnswerCreated(c)
    <3>1. \E m, i : \E opened \in BOOLEAN : EntryAnswer(c, m, i, opened)
      BY <1>0, <2>4, EntryAnswers
    <3>. QED
      BY <3>1
  <2>5. CASE AnswerRenamed(c)
    <3>1. \E m : RenameAnswer(c, m)
      BY <1>0, <2>5, RenameAnswers
    <3>. QED
      BY <3>1
  <2>. QED
    BY <2>1, <2>2, <2>3, <2>4, <2>5 DEF Answer
<1>. QED
  BY <1>1, <1>2, <1>4 DEF Next

(* The invariant is inductive; with both times or none asked for, so is
   what a setattr has left to set. *)
LEMMA KeptNext ==
  ASSUME Kept, [Next]_vars
  PROVE  Kept' /\ (SetsLeft /\ BothTimes => SetsLeft')
<1>0. Base /\ Looks /\ Found
  BY DEF Kept
<1>1. CASE UNCHANGED vars
  <2>1. Base' /\ (SetsLeft => SetsLeft')
    BY <1>0, <1>1, BaseSame
  <2>2. UNCHANGED <<call, host>>
    BY <1>1 DEF vars
  <2>3. Looks' /\ Found'
    <3>1. ASSUME NEW d \in Caller PROVE Looking(call[d])' /\ FoundBy(call[d], host.entry)'
      <4>1. PICK r : r = call'[d]
        OBVIOUS
      <4>2. Looking(r) /\ FoundBy(r, host'.entry)
        BY <1>0, <2>2, <4>1 DEF Looks, Found
      <4>. QED
        BY <4>1, <4>2, LeftLater
    <3>. QED
      BY <3>1, ConstantLater DEF Looks, Found
  <2>. QED
    BY <2>1, <2>3 DEF Kept
<1>2. CASE Next
  <2>1. PICK c \in Caller :
           \/ \E q : SendStep(c, q)
           \/ BeginLost(c)
           \/ \E q : BeginForm(c, q)
           \/ IsHost(host') /\ \E q, v : Called(c, q, v)
           \/ IsHost(host') /\ CallFails(c)
           \/ \E m, i : \E opened \in BOOLEAN : EntryAnswer(c, m, i, opened)
           \/ AnswerOpened(c)
           \/ \E m : RenameAnswer(c, m)
           \/ AnswerRemoved(c)
           \/ AnswerOther(c)
    BY <1>2, EveryStep
  <2>2. CASE \E q : SendStep(c, q)
    BY <1>0, <2>2, BaseSent, LooksSent DEF Kept
  <2>3. CASE \E q : BeginForm(c, q)
    BY <1>0, <2>3, BaseBegin, LooksBegin DEF Kept
  <2>4. CASE IsHost(host') /\ \E q, v : Called(c, q, v)
    <3>1. PICK q, v : Called(c, q, v)
      BY <2>4
    <3>. QED
      BY <1>0, <2>4, <3>1, BaseCall, LooksCall DEF Kept, Called
  <2>5. ASSUME Base', End(c), host'.entry = host.entry PROVE Looks' /\ Found'
    <3>1. call'[c] = NoCall /\ \A d \in Caller : d # c => call'[d] = call[d]
      BY <1>0, <2>5 DEF End, Base, Shaped
    <3>. QED
      BY <1>0, <2>5, <3>1, LooksEnds
  <2>6. CASE BeginLost(c)
    <3>1. End(c) /\ host'.entry = host.entry
      BY <2>6 DEF BeginLost, Takes, End
    <3>. QED
      BY <1>0, <2>5, <2>6, <3>1, BaseLost DEF Kept
  <2>7. CASE IsHost(host') /\ CallFails(c)
    <3>1. End(c) /\ host'.entry = host.entry
      BY <1>0, <2>7 DEF CallFails, Refused, Base, Hosted
    <3>. QED
      BY <1>0, <2>5, <2>7, <3>1, BaseFails DEF Kept
  <2>8. CASE \E m, i : \E opened \in BOOLEAN : EntryAnswer(c, m, i, opened)
    <3>1. PICK m, i : \E opened \in BOOLEAN : EntryAnswer(c, m, i, opened)
      BY <2>8
    <3>2. PICK opened \in BOOLEAN : EntryAnswer(c, m, i, opened)
      BY <3>1
    <3>3. End(c) /\ host'.entry = host.entry
      BY <3>2 DEF EntryAnswer
    <3>4. Base' /\ (SetsLeft => SetsLeft')
      BY <1>0, <3>2, BaseEntry
    <3>. QED
      BY <1>0, <2>5, <3>3, <3>4 DEF Kept
  <2>9. CASE AnswerOpened(c)
    <3>1. End(c) /\ host'.entry = host.entry
      BY <2>9 DEF AnswerOpened, Ready
    <3>. QED
      BY <1>0, <2>5, <2>9, <3>1, BaseOpened DEF Kept
  <2>10. CASE \E m : RenameAnswer(c, m)
    <3>1. PICK m : RenameAnswer(c, m)
      BY <2>10
    <3>2. End(c) /\ host'.entry = host.entry
      BY <3>1 DEF RenameAnswer
    <3>3. Base' /\ (SetsLeft => SetsLeft')
      BY <1>0, <3>1, BaseRenamed
    <3>. QED
      BY <1>0, <2>5, <3>2, <3>3 DEF Kept
  <2>11. CASE AnswerRemoved(c)
    <3>1. End(c) /\ host'.entry = host.entry
      BY <2>11 DEF AnswerRemoved, Ready
    <3>. QED
      BY <1>0, <2>5, <2>11, <3>1, BaseRemoved DEF Kept
  <2>12. CASE AnswerOther(c)
    <3>1. End(c) /\ host'.entry = host.entry
      BY <2>12 DEF AnswerOther, Ready
    <3>. QED
      BY <1>0, <2>5, <2>12, <3>1, BaseOther DEF Kept
  <2>. QED
    BY <2>1, <2>2, <2>3, <2>4, <2>6, <2>7, <2>8, <2>9, <2>10, <2>11, <2>12
<1>. QED
  BY <1>1, <1>2

-----------------------------------------------------------------------------
(* What follows for read-only mounts and for setattr. *)

(* It holds in the beginning. *)
LEMMA InitKept == Init => Kept /\ SetsLeft
<1>. SUFFICES ASSUME Init PROVE Kept /\ SetsLeft
  OBVIOUS
<1>1. /\ readonly \in BOOLEAN /\ threads \in Threads
      /\ map = mapper!NewMap("entry") /\ queue = <<>>
      /\ call = [c \in Caller |-> NoCall] /\ dent = [n \in Name |-> 0]
      /\ means = [i \in 1 .. MaxInode |-> IF i = Root THEN RootNode ELSE NoNode]
      /\ files = {}
  BY DEF Init
<1>2. PICK given \in [Name -> Node \cup {NoNode}] :
        host = [entry |-> [n \in Name \cup {RootName} |->
                             IF n = RootName THEN RootNode ELSE given[n]],
                desc |-> [d \in Fd |-> IF d = 0 THEN Elsewhere ELSE NoNode]]
  BY DEF Init
<1>3. GoodMap(map) /\ map.next_inode = 2 /\ \A n : ~ mapper!Listed(map, Root, n)
  BY <1>1, MapNew
<1>4. \A c \in Caller : call[c] = NoCall
  BY <1>1
<1>5. Shaped /\ Requested /\ SetsLeft
  <2>1. Shaped
    BY <1>1 DEF Shaped
  <2>. QED
    BY <1>4, <2>1, NoCallFit DEF Requested, SetsLeft
<1>6. Hosted
  <2>1. host.entry \in [AName -> Node \cup {NoNode, RootNode}] /\ host.desc \in [Fd -> Thing]
    BY <1>2 DEF AName, Thing
  <2>2. host \in [entry : [AName -> Node \cup {NoNode, RootNode}], desc : [Fd -> Thing]]
    BY <1>2, <2>1
  <2>3. \A n \in Name : host.entry[n] \in Node \cup {NoNode}
    BY <1>2, NamesApart
  <2>. QED
    BY <1>2, <2>2, <2>3, RootIs DEF Hosted
<1>7. Locked
  BY <1>4, NoCallReplies DEF Locked, NoReply
<1>8. Mapped
  BY <1>1, <1>3, <1>4, NoCallReplies, RootIs DEF Mapped, NoReply, Creating
<1>9. Told
  <2>1. 2 .. MaxInode \subseteq 1 .. MaxInode /\ Root \in 1 .. MaxInode /\ \A i \in 2 .. MaxInode : i # Root
    BY RootIs
  <2>. QED
    BY <1>1, <1>3, <1>4, <2>1, NoCallReplies, RootIs DEF Told, NoReply
<1>10. Room
  <2>1. Asking = {} /\ Wanting = {}
    BY <1>4, NoCallReplies DEF Asking, Wanting, NoReply
  <2>2. MaxInode >= 1
    BY MirrorMountAssumption
  <2>. QED
    BY <1>3, <2>1, <2>2, RootIs, FS_EmptySet DEF Room
<1>11. Pool
  <2>1. InStep("queued") = {} /\ InStep("running") = {}
    BY <1>4, NoCallReplies DEF InStep, NoReply
  <2>2. queue \in Seq(Caller) /\ DOMAIN queue = {} /\ Len(queue) = 0
    BY <1>1
  <2>3. threads \in Nat
    BY <1>1, MirrorMountAssumption
  <2>4. IsFiniteSet(InStep("queued")) /\ IsFiniteSet(InStep("running"))
        /\ Cardinality(InStep("queued")) = 0 /\ Cardinality(InStep("running")) = 0
    BY <2>1, FS_EmptySet
  <2>5. \A c \in Caller : call[c].step = "queued" <=> \E k \in DOMAIN queue : queue[k] = c
    BY <1>4, <2>2, NoCallReplies DEF NoReply
  <2>. QED
    BY <2>2, <2>3, <2>4, <2>5 DEF Pool
<1>12. Looks /\ Found
  BY <1>4, NoCallLooks DEF Looks, Found
<1>. QED
  BY <1>5, <1>6, <1>7, <1>8, <1>9, <1>10, <1>11, <1>12 DEF Kept, Base

(* The invariant the other layers rely on: every request has left to do
   only what its method, its lock and its descriptor allow, whatever was
   interleaved or failed, and an entry is answered with the node its name
   leads to. *)
THEOREM KeptAlways == Spec => []Kept
<1>1. Init => Kept
  BY InitKept
<1>2. Kept /\ [Next]_vars => Kept'
  BY KeptNext
<1>. QED
  BY <1>1, <1>2, PTL DEF Spec

(* It keeps read-only mounts from changing files. *)
LEMMA KeptReadOnly == Kept => ReadOnlyKeeps
BY DEF Kept, Base, Requested, Fit, Scripted, Harmless, Left, ReadOnlyKeeps

(* No request of a MirrorFsReadOnly ever makes a system call that changes
   the host's files. *)
THEOREM ReadOnlyAlways == Spec => []ReadOnlyKeeps
BY KeptAlways, KeptReadOnly, PTL

(* What setattr reports is what it has set. *)
LEMMA SetsReported ==
  ASSUME Kept, SetsLeft
  PROVE  SetIsReported
<1>1. ASSUME NEW c \in Caller, Running(c), call[c].reply = "attr", call[c].script = <<>>
      PROVE  (call[c].set \ {"mixed"}) \subseteq call[c].did
  <2>1. Left(call[c].script) = {}
    BY <1>1, EmptyScript
  <2>2. SetFit(call[c])
    BY DEF SetsLeft
  <2>. QED
    BY <1>1, <2>1, <2>2 DEF SetFit
<1>. QED
  BY <1>1 DEF SetIsReported

(* If callers set both times or none, a setattr that is about to be
   answered with attributes has set everything it was asked for.  With one
   time only it has not: unix_fs::setattr ignores it. *)
THEOREM SetReportedAlways == ASSUME BothTimes PROVE Spec => []SetIsReported
<1>1. Init => Kept /\ SetsLeft
  BY InitKept
<1>2. (Kept /\ SetsLeft) /\ [Next]_vars => (Kept /\ SetsLeft)'
  BY KeptNext
<1>3. Kept /\ SetsLeft => SetIsReported
  BY SetsReported
<1>. QED
  BY <1>1, <1>2, <1>3, PTL DEF Spec
=============================================================================
