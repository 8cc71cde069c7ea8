--------------------------- MODULE InodeMapProofs ---------------------------
(***************************************************************************)
(* What every operator of InodeMap keeps: SafeMap, the type of the mapper  *)
(* with the agreement of its two tables, in one lemma per method.          *)
(***************************************************************************)
EXTENDS InodeMap, TLAPS

SafeMap(m) == IsMap(m) /\ EntriesAgree(m) /\ RootStays(m) /\ NumbersIssued(m)

-----------------------------------------------------------------------------
(* The two ways in which a HashMap changes. *)

(* Inserting a key. *)
LEMMA PutFacts ==
  ASSUME NEW f, NEW k, NEW v
  PROVE  /\ \A x : x \in DOMAIN Put(f, k, v) <=> x \in DOMAIN f \/ x = k
         /\ Put(f, k, v)[k] = v
         /\ \A x \in DOMAIN f \ {k} : Put(f, k, v)[x] = f[x]
BY DEF Put

LEMMA PutType ==
  ASSUME NEW D, NEW R, NEW f \in [D -> R], NEW k, NEW v \in R
  PROVE  Put(f, k, v) \in [D \cup {k} -> R]
BY DEF Put

(* Removing keys. *)
LEMMA WithoutFacts ==
  ASSUME NEW f, NEW S
  PROVE  /\ \A x : x \in DOMAIN Without(f, S) <=> x \in DOMAIN f /\ x \notin S
         /\ \A x \in DOMAIN f \ S : Without(f, S)[x] = f[x]
BY DEF Without, Restrict

LEMMA WithoutType ==
  ASSUME NEW D, NEW R, NEW f \in [D -> R], NEW S
  PROVE  Without(f, S) \in [D \ S -> R]
BY DEF Without, Restrict

(* The children maps. *)
LEMMA ChildMapFacts ==
  ASSUME NEW f
  PROVE  f \in ChildMap <=> DOMAIN f \subseteq Name /\ f \in [DOMAIN f -> Inode]
BY DEF ChildMap

LEMMA NothingFacts == DOMAIN Nothing = {} /\ Nothing \in ChildMap
BY DEF Nothing, ChildMap

LEMMA ChildMapPut ==
  ASSUME NEW f \in ChildMap, NEW n \in Name, NEW i \in Inode
  PROVE  Put(f, n, i) \in ChildMap
<1>1. f \in [DOMAIN f -> Inode] /\ DOMAIN f \subseteq Name
  BY ChildMapFacts
<1>2. Put(f, n, i) \in [DOMAIN f \cup {n} -> Inode]
  BY <1>1, PutType
<1>. QED
  BY <1>1, <1>2 DEF ChildMap

LEMMA ChildMapWithout ==
  ASSUME NEW f \in ChildMap, NEW S
  PROVE  Without(f, S) \in ChildMap
<1>1. f \in [DOMAIN f -> Inode] /\ DOMAIN f \subseteq Name
  BY ChildMapFacts
<1>2. Without(f, S) \in [DOMAIN f \ S -> Inode]
  BY <1>1, WithoutType
<1>. QED
  BY <1>1, <1>2 DEF ChildMap

(* Children maps read through Children, which is empty where there is none. *)
LEMMA ChildrenFacts ==
  ASSUME NEW m, NEW d
  PROVE  /\ d \in DOMAIN m.children => Children(m, d) = m.children[d]
         /\ \A n \in DOMAIN Children(m, d) :
              d \in DOMAIN m.children /\ Children(m, d)[n] = m.children[d][n]
         /\ IsMap(m) => Children(m, d) \in ChildMap
BY NothingFacts DEF Children, IsMap

-----------------------------------------------------------------------------
(* An empty mapper is safe. *)
LEMMA NewMapSafe == ASSUME NEW d \in Data PROVE SafeMap(NewMap(d))
<1>. DEFINE v == [parent |-> Root, name |-> RootName, data |-> d]
            f == Put(Nothing, Root, v)
            m == NewMap(d)
<1>1. /\ m = [inodes |-> f, children |-> Nothing, next_inode |-> 2]
      /\ DOMAIN f = {1} /\ f[1] = v
  <2>1. m = [inodes |-> f, children |-> Nothing, next_inode |-> 2]
    BY DEF NewMap, Root
  <2>2. DOMAIN f = {1} /\ f[1] = v
    BY NothingFacts, PutFacts DEF Root
  <2>. QED
    BY <2>1, <2>2
<1>2. v \in InodeValue
  BY InodeMapAssumption DEF InodeValue, Inode, Root
<1>3. f \in [{1} -> InodeValue]
  BY <1>2 DEF Put, Nothing, Root
<1>4. {1} \subseteq Inode /\ 2 \in 1 .. MaxInode + 1
  BY InodeMapAssumption DEF Inode
<1>5. Nothing \in [DOMAIN Nothing -> ChildMap] /\ DOMAIN Nothing = {}
  BY DEF Nothing
<1>. HIDE DEF f, m
<1>6. IsMap(m)
  BY <1>1, <1>3, <1>4, <1>5 DEF IsMap
<1>7. EntriesAgree(m) /\ RootStays(m) /\ NumbersIssued(m)
  BY <1>1, <1>5 DEF EntriesAgree, RootStays, NumbersIssued, Present, Root
<1>. QED
  BY <1>6, <1>7 DEF SafeMap, m

(* What IsMap says of one inode. *)
LEMMA InodeTypes ==
  ASSUME NEW m, IsMap(m)
  PROVE  \A i \in Present(m) : /\ i \in Inode
                               /\ m.inodes[i] \in InodeValue
                               /\ m.inodes[i].parent \in Inode
BY DEF IsMap, Present, InodeValue

(* The numbers of a safe mapper. *)
LEMMA SafeNumbers ==
  ASSUME NEW m, SafeMap(m)
  PROVE  /\ m.next_inode \in Int
         /\ \A i \in Present(m) :
              /\ i \in Int /\ i < m.next_inode
              /\ m.inodes[i].parent \in Int /\ m.inodes[i].parent < m.next_inode
         /\ \A d \in DOMAIN m.children : d \in Int /\ d < m.next_inode
<1>1. IsMap(m) /\ NumbersIssued(m)
  BY DEF SafeMap
<1>2. m.next_inode \in Int
  BY <1>1 DEF IsMap
<1>3. \A i \in Present(m) : i \in Inode /\ m.inodes[i].parent \in Inode
  BY <1>1, InodeTypes
<1>4. \A d \in DOMAIN m.children : d \in Inode
  BY <1>1 DEF IsMap
<1>. QED
  BY <1>1, <1>2, <1>3, <1>4 DEF NumbersIssued, Inode

(* A new entry: the number next_inode is free, so no entry and no inode is
   overwritten. *)
LEMMA InsertNewSafe ==
  ASSUME NEW m, SafeMap(m), NEW p \in Present(m), NEW n \in Name,
         NEW d \in Data, ~ Listed(m, p, n), HasRoom(m)
  PROVE  /\ SafeMap(Insert(m, p, n, d))
         /\ Present(Insert(m, p, n, d)) = Present(m) \cup {m.next_inode}
<1>. DEFINE new == m.next_inode
            v   == [parent |-> p, name |-> n, data |-> d]
            kids == Put(Children(m, p), n, new)
            r   == Insert(m, p, n, d)
<1>1. r = [inodes |-> Put(m.inodes, new, v), children |-> Put(m.children, p, kids),
           next_inode |-> new + 1]
  BY DEF Insert
<1>. HIDE DEF r, kids, v
<1>0. /\ r.inodes = Put(m.inodes, new, v)
      /\ r.children = Put(m.children, p, kids)
      /\ r.next_inode = new + 1
  BY <1>1
<1>2. /\ new \in Inode /\ new \notin Present(m) /\ new > 1 /\ new # p
      /\ \A e \in DOMAIN m.children : e < new
      /\ new + 1 \in 1 .. MaxInode + 1
  BY SafeNumbers, InodeMapAssumption
     DEF SafeMap, HasRoom, RootStays, Root, Inode
<1>3. /\ \A i : i \in Present(r) <=> i \in Present(m) \/ i = new
      /\ r.inodes[new] = v
      /\ \A i \in Present(m) : r.inodes[i] = m.inodes[i]
  BY <1>0, <1>2, PutFacts DEF Present
<1>4. /\ \A e : e \in DOMAIN r.children <=> e \in DOMAIN m.children \/ e = p
      /\ r.children[p] = kids
      /\ \A e \in DOMAIN m.children \ {p} : r.children[e] = m.children[e]
  BY <1>0, PutFacts
<1>5. /\ \A k : k \in DOMAIN kids <=> k \in DOMAIN Children(m, p) \/ k = n
      /\ kids[n] = new
      /\ \A k \in DOMAIN Children(m, p) \ {n} : kids[k] = Children(m, p)[k]
  BY PutFacts DEF kids
<1>6. n \notin DOMAIN Children(m, p)
  BY DEF Listed
<1>7. \A k \in DOMAIN Children(m, p) :
        p \in DOMAIN m.children /\ Children(m, p)[k] = m.children[p][k]
  BY ChildrenFacts
<1>8. IsMap(r)
  <2>1. IsMap(m) /\ p \in Inode
    BY InodeTypes DEF SafeMap
  <2>2. v \in InodeValue
    BY <2>1 DEF InodeValue, v
  <2>3. r.inodes \in [Present(r) -> InodeValue] /\ Present(r) \subseteq Inode
    <3>1. m.inodes \in [Present(m) -> InodeValue] /\ Present(m) \subseteq Inode
      BY <2>1 DEF IsMap, Present
    <3>2. Put(m.inodes, new, v) \in [Present(m) \cup {new} -> InodeValue]
      BY <2>2, <3>1, PutType
    <3>. QED
      BY <1>0, <1>2, <1>3, <3>1, <3>2
  <2>4. kids \in ChildMap
    <3>1. Children(m, p) \in ChildMap
      BY <2>1, ChildrenFacts
    <3>. QED
      BY <1>2, <3>1, ChildMapPut DEF kids
  <2>5. /\ r.children \in [DOMAIN r.children -> ChildMap]
        /\ DOMAIN r.children \subseteq Inode
    <3>1. /\ m.children \in [DOMAIN m.children -> ChildMap]
          /\ DOMAIN m.children \subseteq Inode
      BY <2>1 DEF IsMap
    <3>2. Put(m.children, p, kids) \in [DOMAIN m.children \cup {p} -> ChildMap]
      BY <2>4, <3>1, PutType
    <3>. QED
      BY <1>0, <1>4, <2>1, <3>1, <3>2
  <2>6. /\ r = [inodes |-> r.inodes, children |-> r.children, next_inode |-> r.next_inode]
        /\ r.next_inode \in 1 .. MaxInode + 1
    BY <1>0, <1>1, <1>2
  <2>. QED
    BY <2>3, <2>5, <2>6 DEF IsMap, Present
<1>. HIDE DEF new
<1>9. EntriesAgree(r)
  <2>. SUFFICES ASSUME NEW e \in DOMAIN r.children, NEW k \in DOMAIN r.children[e]
                PROVE  /\ r.children[e][k] \in Present(r)
                       /\ r.inodes[r.children[e][k]].parent = e
                       /\ r.inodes[r.children[e][k]].name = k
    BY DEF EntriesAgree
  <2>1. CASE e = p /\ k = n
    BY <1>3, <1>4, <1>5, <2>1 DEF v
  <2>2. CASE ~ (e = p /\ k = n)
    <3>1. e \in DOMAIN m.children /\ k \in DOMAIN m.children[e]
          /\ r.children[e][k] = m.children[e][k]
      <4>1. CASE e = p
        <5>1. k \in DOMAIN Children(m, p) /\ k # n
          BY <1>4, <1>5, <2>2, <4>1
        <5>. QED
          BY <1>4, <1>5, <1>7, <4>1, <5>1, ChildrenFacts
      <4>2. CASE e # p
        BY <1>4, <4>2
      <4>. QED
        BY <4>1, <4>2
    <3>. QED
      BY <1>3, <3>1 DEF SafeMap, EntriesAgree
  <2>. QED
    BY <2>1, <2>2
<1>10. RootStays(r)
  BY <1>2, <1>3 DEF SafeMap, RootStays
<1>11. NumbersIssued(r)
  <2>1. r.next_inode = new + 1 /\ new \in Int
    BY <1>0, <1>2 DEF Inode, new
  <2>2. p < new /\ p \in Int
    BY SafeNumbers DEF new
  <2>3. ASSUME NEW i \in Present(r)
        PROVE  i < new + 1 /\ r.inodes[i].parent < new + 1
    <3>1. CASE i = new
      BY <1>3, <2>1, <2>2, <3>1 DEF v
    <3>2. CASE i \in Present(m)
      <4>1. /\ i \in Int /\ i < new
            /\ m.inodes[i].parent \in Int /\ m.inodes[i].parent < new
        BY <3>2, SafeNumbers DEF new
      <4>. QED
        BY <1>3, <2>1, <3>2, <4>1
    <3>. QED
      BY <1>3, <3>1, <3>2
  <2>4. ASSUME NEW e \in DOMAIN r.children PROVE e < new + 1
    <3>1. CASE e = p
      BY <2>1, <2>2, <3>1
    <3>2. CASE e \in DOMAIN m.children
      <4>1. e \in Int /\ e < new
        BY <3>2, SafeNumbers DEF new
      <4>. QED
        BY <2>1, <4>1
    <3>. QED
      BY <1>4, <3>1, <3>2
  <2>. QED
    BY <2>1, <2>3, <2>4 DEF NumbersIssued
<1>. QED
  BY <1>3, <1>8, <1>9, <1>10, <1>11 DEF SafeMap, r, new
(* An entry that is there: only the data of its inode changes. *)
LEMMA InsertOldSafe ==
  ASSUME NEW m, SafeMap(m), NEW p, NEW n, NEW d \in Data, Listed(m, p, n)
  PROVE  /\ SafeMap(Insert(m, p, n, d))
         /\ Present(Insert(m, p, n, d)) = Present(m)
<1>. DEFINE c == Child(m, p, n)
            r == Insert(m, p, n, d)
            f == [m.inodes EXCEPT ![c].data = d]
<1>1. /\ r = [m EXCEPT !.inodes = f]
      /\ IsMap(m)
  BY DEF Insert, SafeMap
<1>. HIDE DEF r, f
<1>2. /\ r.inodes = f /\ r.children = m.children /\ r.next_inode = m.next_inode
      /\ r = [inodes |-> r.inodes, children |-> r.children,
              next_inode |-> r.next_inode]
  BY <1>1 DEF IsMap
<1>3. p \in DOMAIN m.children /\ n \in DOMAIN m.children[p] /\ c = m.children[p][n]
  BY ChildrenFacts DEF Listed, Child
<1>4. c \in Present(m)
  BY <1>3 DEF SafeMap, EntriesAgree
<1>5. /\ f \in [Present(m) -> InodeValue]
      /\ \A i \in Present(m) : f[i].parent = m.inodes[i].parent
                            /\ f[i].name = m.inodes[i].name
  BY <1>1, <1>4 DEF f, IsMap, Present, InodeValue
<1>6. Present(r) = Present(m)
  BY <1>2, <1>5 DEF Present
<1>7. IsMap(r)
  BY <1>1, <1>2, <1>5, <1>6 DEF IsMap, Present
<1>8. EntriesAgree(r)
  BY <1>2, <1>5, <1>6 DEF SafeMap, EntriesAgree
<1>9. RootStays(r) /\ NumbersIssued(r)
  BY <1>2, <1>5, <1>6 DEF SafeMap, RootStays, NumbersIssued
<1>. QED
  BY <1>6, <1>7, <1>8, <1>9 DEF SafeMap, r

(* Either way. *)
LEMMA InsertSafe ==
  ASSUME NEW m, SafeMap(m), NEW p \in Present(m), NEW n \in Name,
         NEW d \in Data, Listed(m, p, n) \/ HasRoom(m)
  PROVE  /\ SafeMap(Insert(m, p, n, d))
         /\ Present(m) \subseteq Present(Insert(m, p, n, d))
<1>1. CASE Listed(m, p, n)
  BY <1>1, InsertOldSafe
<1>2. CASE ~ Listed(m, p, n)
  BY <1>2, InsertNewSafe
<1>. QED
  BY <1>1, <1>2

(* An empty children map lists nothing. *)
LEMMA EnsureMapSafe ==
  ASSUME NEW m, SafeMap(m), NEW p \in Present(m)
  PROVE  SafeMap(EnsureMap(m, p)) /\ Present(EnsureMap(m, p)) = Present(m)
<1>. DEFINE kids == Children(m, p)
            f == Put(m.children, p, kids)
            r == EnsureMap(m, p)
<1>1. r = [m EXCEPT !.children = f] /\ IsMap(m)
  BY DEF EnsureMap, SafeMap
<1>. HIDE DEF r, f, kids
<1>2. /\ r.inodes = m.inodes /\ r.children = f /\ r.next_inode = m.next_inode
      /\ r = [inodes |-> r.inodes, children |-> r.children,
              next_inode |-> r.next_inode]
      /\ Present(r) = Present(m)
  BY <1>1 DEF IsMap, Present
<1>3. p \in Inode /\ p \in Int /\ p < m.next_inode
  BY <1>1, InodeTypes, SafeNumbers
<1>4. /\ \A e : e \in DOMAIN f <=> e \in DOMAIN m.children \/ e = p
      /\ f[p] = kids
      /\ \A e \in DOMAIN m.children \ {p} : f[e] = m.children[e]
  BY PutFacts DEF f
<1>5. /\ kids \in ChildMap
      /\ \A k \in DOMAIN kids : p \in DOMAIN m.children /\ kids[k] = m.children[p][k]
      /\ p \in DOMAIN m.children => kids = m.children[p]
  BY <1>1, ChildrenFacts DEF kids
<1>6. IsMap(r)
  <2>1. m.children \in [DOMAIN m.children -> ChildMap]
    BY <1>1 DEF IsMap
  <2>2. f \in [DOMAIN m.children \cup {p} -> ChildMap]
    BY <1>5, <2>1, PutType DEF f
  <2>. QED
    BY <1>1, <1>2, <1>3, <2>2 DEF IsMap
<1>7. EntriesAgree(r)
  BY <1>2, <1>4, <1>5 DEF SafeMap, EntriesAgree
<1>8. RootStays(r) /\ NumbersIssued(r)
  BY <1>2, <1>3, <1>4 DEF SafeMap, RootStays, NumbersIssued
<1>. QED
  BY <1>2, <1>6, <1>7, <1>8 DEF SafeMap, r

-----------------------------------------------------------------------------
(* Unlink takes away one entry, and the map it leaves empty. *)
LEMMA UnlinkFacts ==
  ASSUME NEW children, NEW d \in DOMAIN children, NEW n
  PROVE  /\ \A e \in DOMAIN Unlink(children, d, n) : e \in DOMAIN children
         /\ \A e \in DOMAIN Unlink(children, d, n) :
              \A k \in DOMAIN Unlink(children, d, n)[e] :
                /\ k \in DOMAIN children[e]
                /\ Unlink(children, d, n)[e][k] = children[e][k]
                /\ ~ (e = d /\ k = n)
<1>. DEFINE left == Without(children[d], {n})
            u == Unlink(children, d, n)
<1>1. /\ \A k : k \in DOMAIN left <=> k \in DOMAIN children[d] /\ k # n
      /\ \A k \in DOMAIN left : left[k] = children[d][k]
  BY WithoutFacts
<1>. HIDE DEF left
<1>2. CASE DOMAIN left = {}
  <2>1. u = Without(children, {d})
    BY <1>2 DEF Unlink, left
  <2>. HIDE DEF u
  <2>2. \A e \in DOMAIN u : e \in DOMAIN children /\ e # d /\ u[e] = children[e]
    BY <2>1, WithoutFacts
  <2>. QED
    BY <2>2 DEF u
<1>3. CASE DOMAIN left # {}
  <2>1. u = [children EXCEPT ![d] = left]
    BY <1>3 DEF Unlink, left
  <2>. HIDE DEF u
  <2>2. \A e \in DOMAIN u : /\ e \in DOMAIN children
                            /\ e # d => u[e] = children[e]
                            /\ e = d => u[e] = left
    BY <2>1
  <2>. QED
    BY <1>1, <2>2 DEF u
<1>. QED
  BY <1>2, <1>3

LEMMA UnlinkType ==
  ASSUME NEW children, children \in [DOMAIN children -> ChildMap],
         NEW d \in DOMAIN children, NEW n
  PROVE  Unlink(children, d, n) \in [DOMAIN Unlink(children, d, n) -> ChildMap]
<1>. DEFINE left == Without(children[d], {n})
            u == Unlink(children, d, n)
<1>1. left \in ChildMap
  BY ChildMapWithout
<1>. HIDE DEF left
<1>2. CASE DOMAIN left = {}
  <2>1. u = Without(children, {d})
    BY <1>2 DEF Unlink, left
  <2>2. Without(children, {d}) \in [DOMAIN children \ {d} -> ChildMap]
    BY WithoutType
  <2>. QED
    BY <2>1, <2>2
<1>3. CASE DOMAIN left # {}
  <2>1. u = [children EXCEPT ![d] = left]
    BY <1>3 DEF Unlink, left
  <2>. QED
    BY <1>1, <2>1
<1>. QED
  BY <1>2, <1>3
(***************************************************************************)
(* rename.  The child keeps its number and leaves its only entry; an inode *)
(* that goes away had its only entry where the child now is.               *)
(***************************************************************************)
LEMMA MovedFacts ==
  ASSUME NEW m, SafeMap(m), NEW p, NEW o, NEW q \in Present(m), NEW n \in Name,
         Listed(m, p, o)
  PROVE  LET c    == Child(m, p, o)
             left == Unlink(m.children, p, o)
             gone == Replaced(left, q, n)
             r    == Moved(m, p, o, q, n)
         IN  /\ c \in Present(m) \ {Root} /\ c \notin gone
             /\ \A i : i \in Present(r) <=> i \in Present(m) /\ i \notin gone
             /\ r.inodes[c].parent = q /\ r.inodes[c].name = n
             /\ r.inodes[c].data = m.inodes[c].data
             /\ \A i \in Present(r) \ {c} : r.inodes[i] = m.inodes[i]
             /\ \A j \in gone : /\ j \in Present(m) /\ m.inodes[j].parent = q
                                /\ m.inodes[j].name = n
             /\ SafeMap(r)
<1>. DEFINE c    == Child(m, p, o)
            left == Unlink(m.children, p, o)
            gone == Replaced(left, q, n)
            kept == [m.inodes EXCEPT ![c].parent = q, ![c].name = n]
            kids == IF q \in DOMAIN left
                    THEN [left EXCEPT ![q] = Put(@, n, c)] ELSE left
            r    == Moved(m, p, o, q, n)
<1>1. r = [inodes |-> Without(kept, gone), children |-> kids,
           next_inode |-> m.next_inode]
  BY DEF Moved
<1>2. IsMap(m) /\ EntriesAgree(m)
  BY DEF SafeMap
<1>3. p \in DOMAIN m.children /\ o \in DOMAIN m.children[p] /\ c = m.children[p][o]
  BY ChildrenFacts DEF Listed, Child
<1>4. o \in Name
  BY <1>2, <1>3, ChildMapFacts DEF IsMap
<1>5. /\ c \in Present(m) /\ m.inodes[c].parent = p /\ m.inodes[c].name = o
      /\ c # Root
  BY <1>2, <1>3, <1>4, InodeMapAssumption DEF EntriesAgree, SafeMap, RootStays
<1>6. /\ \A e \in DOMAIN left : e \in DOMAIN m.children
      /\ \A e \in DOMAIN left : \A k \in DOMAIN left[e] :
           /\ k \in DOMAIN m.children[e]
           /\ left[e][k] = m.children[e][k]
           /\ ~ (e = p /\ k = o)
      /\ left \in [DOMAIN left -> ChildMap]
  BY <1>2, <1>3, UnlinkFacts, UnlinkType DEF IsMap
<1>. HIDE DEF r, c, left, kept, kids
(* Whatever is still listed is not the child. *)
<1>7. \A e \in DOMAIN left : \A k \in DOMAIN left[e] :
        /\ left[e][k] \in Present(m) \ {c, Root}
        /\ m.inodes[left[e][k]].parent = e
        /\ m.inodes[left[e][k]].name = k
        /\ k \in Name
  <2>1. \A e \in DOMAIN left : \A k \in DOMAIN left[e] :
          /\ left[e][k] \in Present(m)
          /\ m.inodes[left[e][k]].parent = e
          /\ m.inodes[left[e][k]].name = k
    BY <1>2, <1>6 DEF EntriesAgree
  <2>2. \A e \in DOMAIN left : \A k \in DOMAIN left[e] : k \in Name
    BY <1>6, ChildMapFacts
  <2>. QED
    BY <1>5, <1>6, <2>1, <2>2, InodeMapAssumption DEF SafeMap, RootStays
<1>8. \A j \in gone : /\ q \in DOMAIN left /\ n \in DOMAIN left[q] /\ j = left[q][n]
                      /\ j \in Present(m) \ {c, Root}
                      /\ m.inodes[j].parent = q /\ m.inodes[j].name = n
  BY <1>7 DEF Replaced
<1>9. q \in DOMAIN left /\ n \in DOMAIN left[q] => left[q][n] \in gone
  BY DEF Replaced
<1>. HIDE DEF gone
<1>10. /\ r.inodes = Without(kept, gone) /\ r.children = kids
       /\ r.next_inode = m.next_inode
       /\ r = [inodes |-> r.inodes, children |-> r.children,
               next_inode |-> r.next_inode]
  BY <1>1
<1>11. /\ kept \in [Present(m) -> InodeValue]
       /\ kept[c].parent = q /\ kept[c].name = n /\ kept[c].data = m.inodes[c].data
       /\ \A i \in Present(m) \ {c} : kept[i] = m.inodes[i]
  <2>1. q \in Inode
    BY <1>2, InodeTypes
  <2>. QED
    BY <1>2, <1>5, <2>1 DEF kept, IsMap, Present, InodeValue
<1>12. /\ \A i : i \in Present(r) <=> i \in Present(m) /\ i \notin gone
       /\ \A i \in Present(r) : r.inodes[i] = kept[i]
  BY <1>10, <1>11, WithoutFacts DEF Present
<1>13. IsMap(r)
  <2>1. r.inodes \in [Present(r) -> InodeValue]
    <3>1. Without(kept, gone) \in [Present(m) \ gone -> InodeValue]
      BY <1>11, WithoutType
    <3>. QED
      BY <1>10, <1>12, <3>1
  <2>2. kids \in [DOMAIN left -> ChildMap]
    <3>1. CASE q \in DOMAIN left
      <4>1. left[q] \in ChildMap
        BY <1>6, <3>1
      <4>2. c \in Inode
        BY <1>2, <1>5, InodeTypes
      <4>3. Put(left[q], n, c) \in ChildMap
        BY <4>1, <4>2, ChildMapPut
      <4>. QED
        BY <1>6, <3>1, <4>3 DEF kids
    <3>2. CASE q \notin DOMAIN left
      BY <1>6, <3>2 DEF kids
    <3>. QED
      BY <3>1, <3>2
  <2>. QED
    BY <1>2, <1>6, <1>10, <1>12, <2>1, <2>2 DEF IsMap, Present
<1>14. EntriesAgree(r)
  <2>. SUFFICES ASSUME NEW e \in DOMAIN kids, NEW k \in DOMAIN kids[e]
                PROVE  /\ kids[e][k] \in Present(r)
                       /\ r.inodes[kids[e][k]].parent = e
                       /\ r.inodes[kids[e][k]].name = k
    BY <1>10 DEF EntriesAgree
  <2>1. ASSUME e \in DOMAIN left, k \in DOMAIN left[e], kids[e][k] = left[e][k],
               ~ (e = q /\ k = n)
        PROVE  /\ kids[e][k] \in Present(r)
               /\ r.inodes[kids[e][k]].parent = e
               /\ r.inodes[kids[e][k]].name = k
    <3>1. /\ left[e][k] \in Present(m) \ {c} /\ left[e][k] \notin gone
          /\ m.inodes[left[e][k]].parent = e /\ m.inodes[left[e][k]].name = k
      BY <1>7, <1>8, <2>1
    <3>. QED
      BY <1>11, <1>12, <2>1, <3>1
  <2>2. CASE q \notin DOMAIN left
    <3>1. kids = left
      BY <2>2 DEF kids
    <3>. QED
      BY <2>1, <2>2, <3>1
  <2>3. CASE q \in DOMAIN left
    <3>1. /\ e \in DOMAIN left
          /\ e # q => kids[e] = left[e]
          /\ e = q => kids[e] = Put(left[q], n, c)
      BY <2>3 DEF kids
    <3>2. CASE e = q /\ k = n
      <4>1. kids[e][k] = c
        BY <3>1, <3>2, PutFacts
      <4>. QED
        BY <1>5, <1>8, <1>11, <1>12, <3>2, <4>1
    <3>3. CASE ~ (e = q /\ k = n)
      <4>1. k \in DOMAIN left[e] /\ kids[e][k] = left[e][k]
        BY <3>1, <3>3, PutFacts
      <4>. QED
        BY <2>1, <3>1, <3>3, <4>1
    <3>. QED
      BY <3>2, <3>3
  <2>. QED
    BY <2>2, <2>3
<1>15. RootStays(r)
  BY <1>5, <1>8, <1>11, <1>12 DEF SafeMap, RootStays
<1>16. NumbersIssued(r)
  <2>1. \A e \in DOMAIN kids : e \in DOMAIN m.children
    BY <1>6 DEF kids
  <2>2. \A i \in Present(r) : /\ i \in Present(m)
                              /\ r.inodes[i].parent = m.inodes[i].parent
                                 \/ r.inodes[i].parent = q
    BY <1>11, <1>12
  <2>. QED
    BY <1>10, <2>1, <2>2 DEF SafeMap, NumbersIssued
<1>17. SafeMap(r)
  BY <1>13, <1>14, <1>15, <1>16 DEF SafeMap
<1>18. c \notin gone
  BY <1>8
<1>19. /\ r.inodes[c].parent = q /\ r.inodes[c].name = n
       /\ r.inodes[c].data = m.inodes[c].data
       /\ \A i \in Present(r) \ {c} : r.inodes[i] = m.inodes[i]
  BY <1>5, <1>11, <1>12, <1>18
<1>20. \A j \in gone : j \in Present(m) /\ m.inodes[j].parent = q /\ m.inodes[j].name = n
  BY <1>8
<1>. QED
  BY <1>5, <1>12, <1>17, <1>18, <1>19, <1>20 DEF r, c, left, gone
-----------------------------------------------------------------------------
(***************************************************************************)
(* remove.  The cascade is closed: an inode listed below one of its members*)
(* is a member.  An inode of it other than the start is listed below a     *)
(* member, because it is listed in one place only.                         *)
(***************************************************************************)
LEMMA UnlistedFacts ==
  ASSUME NEW m, SafeMap(m), NEW i \in Present(m)
  PROVE  LET u == Unlisted(m, i)
         IN  /\ \A e \in DOMAIN u : e \in DOMAIN m.children
             /\ \A e \in DOMAIN u : \A k \in DOMAIN u[e] :
                  /\ k \in DOMAIN m.children[e]
                  /\ u[e][k] = m.children[e][k]
                  /\ u[e][k] \in Present(m) \ {i}
                  /\ m.inodes[u[e][k]].parent = e
                  /\ m.inodes[u[e][k]].name = k
             /\ u \in [DOMAIN u -> ChildMap]
<1>. DEFINE u == Unlisted(m, i)
            p == m.inodes[i].parent
            n == m.inodes[i].name
<1>1. EntriesAgree(m) /\ m.children \in [DOMAIN m.children -> ChildMap]
  BY DEF SafeMap, IsMap
<1>2. CASE p \in DOMAIN m.children
  <2>1. u = Unlink(m.children, p, n)
    BY <1>2 DEF Unlisted
  <2>. HIDE DEF u
  <2>2. /\ \A e \in DOMAIN u : e \in DOMAIN m.children
        /\ \A e \in DOMAIN u : \A k \in DOMAIN u[e] :
             /\ k \in DOMAIN m.children[e]
             /\ u[e][k] = m.children[e][k]
             /\ ~ (e = p /\ k = n)
    BY <1>2, <2>1, UnlinkFacts
  <2>3. u \in [DOMAIN u -> ChildMap]
    BY <1>1, <1>2, <2>1, UnlinkType
  <2>. QED
    BY <1>1, <2>2, <2>3 DEF EntriesAgree, u
<1>3. CASE p \notin DOMAIN m.children
  <2>1. u = m.children
    BY <1>3 DEF Unlisted
  <2>. HIDE DEF u
  <2>. QED
    BY <1>1, <1>3, <2>1 DEF EntriesAgree, u
<1>. QED
  BY <1>2, <1>3

LEMMA RemovedFacts ==
  ASSUME NEW m, SafeMap(m), NEW i \in Present(m) \ {Root}
  PROVE  LET r == Removed(m, i)
         IN  /\ \A j : j \in Present(r) <=> j \in Present(m) /\ j \notin Cascade(m, i)
             /\ \A j \in Present(r) : r.inodes[j] = m.inodes[j]
             /\ i \in Cascade(m, i)
             /\ SafeMap(r)
<1>. DEFINE S == Cascade(m, i)
            u == Unlisted(m, i)
            r == Removed(m, i)
<1>1. r = [inodes |-> Without(m.inodes, S), children |-> Without(u, S),
           next_inode |-> m.next_inode]
  BY DEF Removed
<1>2. /\ \A e \in DOMAIN u : e \in DOMAIN m.children
      /\ \A e \in DOMAIN u : \A k \in DOMAIN u[e] :
           /\ k \in DOMAIN m.children[e]
           /\ u[e][k] = m.children[e][k]
           /\ u[e][k] \in Present(m) \ {i}
           /\ m.inodes[u[e][k]].parent = e
           /\ m.inodes[u[e][k]].name = k
      /\ u \in [DOMAIN u -> ChildMap]
  BY UnlistedFacts
<1>. HIDE DEF u, r
<1>3. S \subseteq Present(m) /\ i \in S
  BY DEF Cascade
<1>4. \A d \in S \cap DOMAIN u : \A k \in DOMAIN u[d] : u[d][k] \in S
  <2>. SUFFICES ASSUME NEW d \in S, d \in DOMAIN u, NEW k \in DOMAIN u[d],
                       NEW T \in SUBSET Present(m), i \in T, ClosedBelow(m, u, T)
                PROVE  u[d][k] \in T
    BY <1>2 DEF Cascade, u
  <2>1. d \in T
    BY DEF Cascade, u
  <2>. QED
    BY <1>2, <2>1 DEF ClosedBelow
<1>5. \A T \in SUBSET Present(m) : i \in T /\ ClosedBelow(m, u, T) => S \subseteq T
  BY DEF Cascade, u
<1>. HIDE DEF S
<1>6. \A e \in DOMAIN u \ S : \A k \in DOMAIN u[e] : u[e][k] \notin S
  <2>. SUFFICES ASSUME NEW e \in DOMAIN u, e \notin S, NEW k \in DOMAIN u[e],
                       u[e][k] \in S
                PROVE  FALSE
    OBVIOUS
  <2>. DEFINE j == u[e][k]
              T == S \ {j}
  <2>1. T \in SUBSET Present(m) /\ i \in T
    BY <1>2, <1>3
  <2>2. ClosedBelow(m, u, T)
    BY <1>2, <1>4 DEF ClosedBelow
  <2>. QED
    BY <1>5, <2>1, <2>2
<1>7. Root \notin S
  <2>. DEFINE T == Present(m) \ {Root}
  <2>1. ClosedBelow(m, u, T)
    <3>1. \A e \in DOMAIN u : \A k \in DOMAIN u[e] : k \in Name
      BY <1>2, ChildMapFacts
    <3>. QED
      BY <1>2, <3>1, InodeMapAssumption DEF ClosedBelow, SafeMap, RootStays
  <2>. QED
    BY <1>5, <2>1
<1>8. /\ r.inodes = Without(m.inodes, S) /\ r.children = Without(u, S)
      /\ r.next_inode = m.next_inode
      /\ r = [inodes |-> r.inodes, children |-> r.children,
              next_inode |-> r.next_inode]
  BY <1>1
<1>9. /\ \A j : j \in Present(r) <=> j \in Present(m) /\ j \notin S
      /\ \A j \in Present(r) : r.inodes[j] = m.inodes[j]
  BY <1>8, WithoutFacts DEF Present
<1>10. /\ \A e : e \in DOMAIN r.children <=> e \in DOMAIN u /\ e \notin S
       /\ \A e \in DOMAIN r.children : r.children[e] = u[e]
  BY <1>8, WithoutFacts
<1>11. IsMap(r)
  <2>1. IsMap(m)
    BY DEF SafeMap
  <2>2. r.inodes \in [Present(r) -> InodeValue]
    <3>1. Without(m.inodes, S) \in [Present(m) \ S -> InodeValue]
      BY <2>1, WithoutType DEF IsMap, Present
    <3>. QED
      BY <1>8, <1>9, <3>1
  <2>3. r.children \in [DOMAIN r.children -> ChildMap]
    <3>1. Without(u, S) \in [DOMAIN u \ S -> ChildMap]
      BY <1>2, WithoutType
    <3>. QED
      BY <1>8, <3>1
  <2>. QED
    BY <1>2, <1>8, <1>9, <1>10, <2>1, <2>2, <2>3 DEF IsMap, Present
<1>12. EntriesAgree(r)
  BY <1>2, <1>6, <1>9, <1>10 DEF EntriesAgree
<1>13. RootStays(r) /\ NumbersIssued(r)
  BY <1>2, <1>7, <1>8, <1>9, <1>10 DEF SafeMap, RootStays, NumbersIssued
<1>. QED
  BY <1>3, <1>9, <1>11, <1>12, <1>13 DEF SafeMap, r, S
-----------------------------------------------------------------------------
(* The parent links stay free of cycles. *)
LEMMA NewMapNoCycle == ASSUME NEW d PROVE NoCycle(NewMap(d))
<1>. DEFINE v == [parent |-> Root, name |-> RootName, data |-> d]
            m == NewMap(d)
<1>1. m.inodes = Put(Nothing, Root, v)
  BY DEF NewMap
<1>2. \A i : i \in Present(m) <=> i = Root
  BY <1>1, PutFacts, NothingFacts DEF Present
<1>. QED
  BY <1>2 DEF NoCycle

(* Fewer inodes with the parents they had. *)
LEMMA FewerNoCycle ==
  ASSUME NEW m, NoCycle(m), NEW r,
         \A i \in Present(r) : /\ i \in Present(m)
                               /\ r.inodes[i].parent = m.inodes[i].parent
  PROVE  NoCycle(r)
BY DEF NoCycle

(* A new inode is nobody's parent yet. *)
LEMMA InsertNoCycle ==
  ASSUME NEW m, SafeMap(m), NoCycle(m), NEW p \in Present(m), NEW n \in Name,
         NEW d \in Data, Listed(m, p, n) \/ HasRoom(m)
  PROVE  NoCycle(Insert(m, p, n, d))
<1>. DEFINE r == Insert(m, p, n, d)
            new == m.next_inode
<1>1. CASE Listed(m, p, n)
  <2>. DEFINE c == Child(m, p, n)
              f == [m.inodes EXCEPT ![c].data = d]
  <2>1. r = [m EXCEPT !.inodes = f] /\ IsMap(m)
    BY <1>1 DEF Insert, SafeMap
  <2>2. \A i \in Present(m) : f[i].parent = m.inodes[i].parent
    BY <2>1 DEF IsMap, Present, InodeValue
  <2>3. DOMAIN f = Present(m)
    BY DEF Present
  <2>. HIDE DEF f, r
  <2>4. r.inodes = f
    BY <2>1 DEF IsMap
  <2>5. \A i \in Present(r) : i \in Present(m) /\ r.inodes[i].parent = m.inodes[i].parent
    BY <2>2, <2>3, <2>4 DEF Present
  <2>. QED
    BY <2>5, FewerNoCycle DEF r
<1>2. CASE ~ Listed(m, p, n)
  <2>. DEFINE v == [parent |-> p, name |-> n, data |-> d]
  <2>1. r.inodes = Put(m.inodes, new, v)
    BY <1>2 DEF Insert
  <2>. HIDE DEF r, new
  <2>2. new \notin Present(m) /\ new # p /\ \A i \in Present(m) : m.inodes[i].parent # new
    BY SafeNumbers DEF new
  <2>3. /\ \A i : i \in Present(r) <=> i \in Present(m) \/ i = new
        /\ r.inodes[new].parent = p
        /\ \A i \in Present(m) : r.inodes[i] = m.inodes[i]
    BY <2>1, <2>2, PutFacts DEF Present
  <2>. SUFFICES ASSUME NEW S \in SUBSET (Present(r) \ {Root}), S # {},
                       \A i \in S : r.inodes[i].parent \in S
                PROVE  FALSE
    BY DEF NoCycle, r
  <2>. DEFINE T == S \ {new}
  <2>4. T \in SUBSET (Present(m) \ {Root})
    BY <2>3
  <2>5. T # {}
    BY <2>2, <2>3
  <2>6. \A i \in T : m.inodes[i].parent \in T
    BY <2>2, <2>3
  <2>. QED
    BY <2>4, <2>5, <2>6 DEF NoCycle
<1>. QED
  BY <1>1, <1>2

(* A directory is not moved below itself: some set of inodes closed under
   parents holds the new parent and not the child, so a cycle through the
   child would have a part that was a cycle before. *)
LEMMA MovedNoCycle ==
  ASSUME NEW m, SafeMap(m), NoCycle(m), NEW p, NEW o, NEW q \in Present(m),
         NEW n \in Name, Listed(m, p, o), ~ Under(m, q, Child(m, p, o))
  PROVE  NoCycle(Moved(m, p, o, q, n))
<1>. DEFINE c == Child(m, p, o)
            r == Moved(m, p, o, q, n)
<1>1. /\ c \in Present(m)
      /\ \A i \in Present(r) : i \in Present(m)
      /\ r.inodes[c].parent = q
      /\ \A i \in Present(r) \ {c} : r.inodes[i] = m.inodes[i]
  BY MovedFacts
<1>2. c \in Inode
  BY <1>1, InodeTypes DEF SafeMap
<1>3. PICK A \in SUBSET Inode :
        /\ q \in A /\ c \notin A
        /\ \A k \in A \cap Present(m) : m.inodes[k].parent \in A
  BY <1>2 DEF Under, Chain
<1>. HIDE DEF c, r
<1>. SUFFICES ASSUME NEW S \in SUBSET (Present(r) \ {Root}), S # {},
                     \A i \in S : r.inodes[i].parent \in S
              PROVE  FALSE
  BY DEF NoCycle, r
<1>4. CASE c \notin S
  <2>1. \A i \in S : m.inodes[i].parent \in S
    BY <1>1, <1>4
  <2>. QED
    BY <1>1, <2>1 DEF NoCycle
<1>5. CASE c \in S
  <2>. DEFINE T == S \cap A
  <2>1. T \in SUBSET (Present(m) \ {Root})
    BY <1>1
  <2>2. q \in T
    BY <1>1, <1>3, <1>5
  <2>3. \A i \in T : m.inodes[i].parent \in T
    BY <1>1, <1>3
  <2>. QED
    BY <2>1, <2>2, <2>3 DEF NoCycle
<1>. QED
  BY <1>4, <1>5

LEMMA RemovedNoCycle ==
  ASSUME NEW m, SafeMap(m), NoCycle(m), NEW i \in Present(m) \ {Root}
  PROVE  NoCycle(Removed(m, i))
BY RemovedFacts, FewerNoCycle

-----------------------------------------------------------------------------
(* What lookup finds, in terms of the table of children maps. *)
LEMMA ListedMeans ==
  ASSUME NEW m, NEW e, NEW k
  PROVE  Listed(m, e, k) <=> e \in DOMAIN m.children /\ k \in DOMAIN m.children[e]
BY NothingFacts DEF Listed, Children

(* An insertion lists one name more, or leaves the names as they are. *)
LEMMA InsertListed ==
  ASSUME NEW m, SafeMap(m), NEW p \in Present(m), NEW n \in Name,
         NEW d \in Data, Listed(m, p, n) \/ HasRoom(m)
  PROVE  LET r == Insert(m, p, n, d)
         IN  /\ \A e, k : Listed(r, e, k) <=> Listed(m, e, k) \/ (e = p /\ k = n)
             /\ \A e, k : Listed(m, e, k) => Child(r, e, k) = Child(m, e, k)
             /\ ~ Listed(m, p, n) => Child(r, p, n) = m.next_inode
<1>. DEFINE r == Insert(m, p, n, d)
            kids == Put(Children(m, p), n, m.next_inode)
<1>1. CASE Listed(m, p, n)
  <2>1. r.children = m.children
    BY <1>1 DEF Insert, SafeMap, IsMap
  <2>. QED
    BY <1>1, <2>1 DEF Listed, Children, Child
<1>2. CASE ~ Listed(m, p, n)
  <2>1. r.children = Put(m.children, p, kids)
    BY <1>2 DEF Insert
  <2>2. /\ \A k : k \in DOMAIN kids <=> k \in DOMAIN Children(m, p) \/ k = n
        /\ kids[n] = m.next_inode
        /\ \A k \in DOMAIN Children(m, p) \ {n} : kids[k] = Children(m, p)[k]
    BY PutFacts
  <2>. HIDE DEF r, kids
  <2>3. /\ \A e : e \in DOMAIN r.children <=> e \in DOMAIN m.children \/ e = p
        /\ r.children[p] = kids
        /\ \A e \in DOMAIN m.children \ {p} : r.children[e] = m.children[e]
    BY <2>1, PutFacts
  <2>4. ASSUME NEW e, NEW k PROVE Listed(r, e, k) <=> Listed(m, e, k) \/ (e = p /\ k = n)
    BY <2>2, <2>3, ListedMeans, ChildrenFacts
  <2>5. ASSUME NEW e, NEW k, Listed(m, e, k) PROVE Child(r, e, k) = Child(m, e, k)
    <3>1. e \in DOMAIN m.children /\ k \in DOMAIN m.children[e]
      BY <2>5, ListedMeans
    <3>2. CASE e = p
      <4>1. k # n
        BY <1>2, <2>5, <3>2
      <4>2. kids[k] = m.children[p][k]
        BY <2>2, <3>1, <3>2, <4>1, ChildrenFacts
      <4>. QED
        BY <2>3, <3>2, <4>2 DEF Child
    <3>3. CASE e # p
      BY <2>3, <3>1, <3>3 DEF Child
    <3>. QED
      BY <3>2, <3>3
  <2>6. Child(r, p, n) = m.next_inode
    BY <2>2, <2>3 DEF Child
  <2>. QED
    BY <1>2, <2>4, <2>5, <2>6 DEF r
<1>. QED
  BY <1>1, <1>2

(* ... and the inodes keep their parents and names. *)
LEMMA InsertPlaces ==
  ASSUME NEW m, SafeMap(m), NEW p \in Present(m), NEW n \in Name,
         NEW d \in Data, Listed(m, p, n) \/ HasRoom(m)
  PROVE  LET r == Insert(m, p, n, d)
         IN  /\ Present(r) = IF Listed(m, p, n) THEN Present(m)
                             ELSE Present(m) \cup {m.next_inode}
             /\ \A i \in Present(m) : /\ r.inodes[i].parent = m.inodes[i].parent
                                      /\ r.inodes[i].name = m.inodes[i].name
             /\ ~ Listed(m, p, n) =>
                  /\ m.next_inode \notin Present(m)
                  /\ r.inodes[m.next_inode].parent = p
                  /\ r.inodes[m.next_inode].name = n
                  /\ \A i \in Present(m) : r.inodes[i] = m.inodes[i]
<1>. DEFINE r == Insert(m, p, n, d)
<1>0. IsMap(m)
  BY DEF SafeMap
<1>1. CASE Listed(m, p, n)
  <2>. DEFINE f == [m.inodes EXCEPT ![Child(m, p, n)].data = d]
  <2>1. r = [m EXCEPT !.inodes = f]
    BY <1>1 DEF Insert
  <2>2. \A i \in Present(m) : /\ f[i].parent = m.inodes[i].parent
                              /\ f[i].name = m.inodes[i].name
    BY <1>0 DEF IsMap, Present, InodeValue
  <2>3. r.inodes = f
    BY <1>0, <2>1 DEF IsMap
  <2>4. Present(r) = Present(m)
    BY <2>3 DEF Present
  <2>. QED
    BY <1>1, <2>2, <2>3, <2>4
<1>2. CASE ~ Listed(m, p, n)
  <2>. DEFINE v == [parent |-> p, name |-> n, data |-> d]
  <2>1. r.inodes = Put(m.inodes, m.next_inode, v)
    BY <1>2 DEF Insert
  <2>2. m.next_inode \notin Present(m)
    BY SafeNumbers
  <2>. HIDE DEF r
  <2>3. /\ Present(r) = Present(m) \cup {m.next_inode}
        /\ r.inodes[m.next_inode] = v
        /\ \A i \in Present(m) : r.inodes[i] = m.inodes[i]
    BY <2>1, <2>2, PutFacts DEF Present
  <2>. QED
    BY <1>2, <2>2, <2>3 DEF r
<1>. QED
  BY <1>1, <1>2

LEMMA InsertAllListed ==
  ASSUME NEW m, SafeMap(m), NEW p \in Present(m), NEW n \in Name,
         NEW d \in Data, Listed(m, p, n) \/ HasRoom(m), AllListed(m)
  PROVE  AllListed(Insert(m, p, n, d))
<1>. DEFINE r == Insert(m, p, n, d)
<1>1. /\ \A e, k : Listed(r, e, k) <=> Listed(m, e, k) \/ (e = p /\ k = n)
      /\ \A e, k : Listed(m, e, k) => Child(r, e, k) = Child(m, e, k)
      /\ ~ Listed(m, p, n) => Child(r, p, n) = m.next_inode
  BY InsertListed
<1>2. /\ Present(r) = IF Listed(m, p, n) THEN Present(m)
                      ELSE Present(m) \cup {m.next_inode}
      /\ \A i \in Present(m) : /\ r.inodes[i].parent = m.inodes[i].parent
                               /\ r.inodes[i].name = m.inodes[i].name
      /\ ~ Listed(m, p, n) =>
           /\ r.inodes[m.next_inode].parent = p
           /\ r.inodes[m.next_inode].name = n
  BY InsertPlaces
<1>. HIDE DEF r
<1>. SUFFICES ASSUME NEW i \in Present(r) \ {Root}
              PROVE  LET v == r.inodes[i]
                     IN  /\ v.parent \in Present(r)
                         /\ Listed(r, v.parent, v.name)
                         /\ Child(r, v.parent, v.name) = i
  BY DEF AllListed, r
<1>3. CASE i \in Present(m)
  BY <1>1, <1>2, <1>3 DEF AllListed
<1>4. CASE i \notin Present(m)
  BY <1>1, <1>2, <1>4
<1>. QED
  BY <1>3, <1>4

(* The root apart, an inode that is listed nowhere else has a name that an
   entry can have. *)
LEMMA ListedNames ==
  ASSUME NEW m, SafeMap(m), NEW e, NEW k, Listed(m, e, k)
  PROVE  /\ k \in Name /\ k # RootName
         /\ Child(m, e, k) \in Present(m) \ {Root}
         /\ m.inodes[Child(m, e, k)].parent = e
         /\ m.inodes[Child(m, e, k)].name = k
<1>1. e \in DOMAIN m.children /\ k \in DOMAIN m.children[e]
  BY ListedMeans
<1>2. m.children[e] \in ChildMap
  BY <1>1 DEF SafeMap, IsMap
<1>3. k \in Name
  BY <1>1, <1>2, ChildMapFacts
<1>4. /\ Child(m, e, k) \in Present(m)
      /\ m.inodes[Child(m, e, k)].parent = e
      /\ m.inodes[Child(m, e, k)].name = k
  BY <1>1 DEF SafeMap, EntriesAgree, Child
<1>. QED
  BY <1>3, <1>4, InodeMapAssumption DEF SafeMap, RootStays

LEMMA EnsureListed ==
  ASSUME NEW m, SafeMap(m), NEW p
  PROVE  LET r == EnsureMap(m, p)
         IN  /\ r.inodes = m.inodes /\ r.next_inode = m.next_inode
             /\ \A e, k : Listed(r, e, k) <=> Listed(m, e, k)
             /\ \A e, k : Listed(m, e, k) => Child(r, e, k) = Child(m, e, k)
<1>. DEFINE r == EnsureMap(m, p)
<1>1. /\ r.inodes = m.inodes /\ r.next_inode = m.next_inode
      /\ r.children = Put(m.children, p, Children(m, p))
  BY DEF EnsureMap, SafeMap, IsMap
<1>. HIDE DEF r
<1>2. /\ \A e : e \in DOMAIN r.children <=> e \in DOMAIN m.children \/ e = p
      /\ r.children[p] = Children(m, p)
      /\ \A e \in DOMAIN m.children \ {p} : r.children[e] = m.children[e]
  BY <1>1, PutFacts
<1>3. ASSUME NEW e, NEW k PROVE Listed(r, e, k) <=> Listed(m, e, k)
  BY <1>2, ListedMeans, ChildrenFacts
<1>4. ASSUME NEW e, NEW k, Listed(m, e, k) PROVE Child(r, e, k) = Child(m, e, k)
  BY <1>2, <1>4, ListedMeans, ChildrenFacts DEF Child
<1>. QED
  BY <1>1, <1>3, <1>4 DEF r

LEMMA EnsureAllListed ==
  ASSUME NEW m, SafeMap(m), NEW p, AllListed(m)
  PROVE  AllListed(EnsureMap(m, p))
<1>. DEFINE r == EnsureMap(m, p)
<1>1. /\ r.inodes = m.inodes
      /\ \A e, k : Listed(r, e, k) <=> Listed(m, e, k)
      /\ \A e, k : Listed(m, e, k) => Child(r, e, k) = Child(m, e, k)
  BY EnsureListed
<1>. HIDE DEF r
<1>2. AllListed(r)
  BY <1>1 DEF AllListed, Present
<1>. QED
  BY <1>2 DEF r

(* The other entries stay. *)
LEMMA UnlinkKeeps ==
  ASSUME NEW children, NEW d \in DOMAIN children, NEW n,
         NEW e \in DOMAIN children, NEW k \in DOMAIN children[e], ~ (e = d /\ k = n)
  PROVE  /\ e \in DOMAIN Unlink(children, d, n)
         /\ k \in DOMAIN Unlink(children, d, n)[e]
         /\ Unlink(children, d, n)[e][k] = children[e][k]
<1>. DEFINE left == Without(children[d], {n})
            u == Unlink(children, d, n)
<1>1. /\ \A x : x \in DOMAIN left <=> x \in DOMAIN children[d] /\ x # n
      /\ \A x \in DOMAIN left : left[x] = children[d][x]
  BY WithoutFacts
<1>. HIDE DEF left
<1>2. CASE DOMAIN left = {}
  <2>1. u = Without(children, {d})
    BY <1>2 DEF Unlink, left
  <2>2. e # d
    BY <1>1, <1>2
  <2>. HIDE DEF u
  <2>3. e \in DOMAIN u /\ u[e] = children[e]
    BY <2>1, <2>2, WithoutFacts
  <2>. QED
    BY <2>3 DEF u
<1>3. CASE DOMAIN left # {}
  <2>1. u = [children EXCEPT ![d] = left]
    BY <1>3 DEF Unlink, left
  <2>. HIDE DEF u
  <2>2. /\ e \in DOMAIN u
        /\ e # d => u[e] = children[e]
        /\ e = d => u[e] = left
    BY <2>1
  <2>. QED
    BY <1>1, <2>2 DEF u
<1>. QED
  BY <1>2, <1>3

(* A rename onto a name that is listed: the old name goes, the new one leads
   to the child, the others are as they were. *)
LEMMA MovedListed ==
  ASSUME NEW m, SafeMap(m), NEW p, NEW o, NEW q \in Present(m), NEW n \in Name,
         Listed(m, p, o), Listed(m, q, n), <<q, n>> # <<p, o>>
  PROVE  LET r == Moved(m, p, o, q, n)
         IN  /\ \A i : i \in Present(r) <=> i \in Present(m) /\ i # Child(m, q, n)
             /\ \A e, k : Listed(r, e, k) <=> Listed(m, e, k) /\ <<e, k>> # <<p, o>>
             /\ Child(r, q, n) = Child(m, p, o)
             /\ \A e, k : /\ Listed(m, e, k) /\ <<e, k>> # <<p, o>>
                          /\ <<e, k>> # <<q, n>>
                          => Child(r, e, k) = Child(m, e, k)
             /\ r.next_inode = m.next_inode
<1>. DEFINE c    == Child(m, p, o)
            left == Unlink(m.children, p, o)
            kids == [left EXCEPT ![q] = Put(@, n, c)]
            r    == Moved(m, p, o, q, n)
<1>1. /\ p \in DOMAIN m.children /\ o \in DOMAIN m.children[p]
      /\ q \in DOMAIN m.children /\ n \in DOMAIN m.children[q]
  BY ListedMeans
<1>2. q \in DOMAIN left /\ n \in DOMAIN left[q] /\ left[q][n] = Child(m, q, n)
  BY <1>1, UnlinkKeeps DEF Child
<1>3. Replaced(left, q, n) = {Child(m, q, n)}
  BY <1>2 DEF Replaced
<1>4. r.children = kids /\ r.next_inode = m.next_inode
  BY <1>2 DEF Moved
<1>5. \A i : i \in Present(r) <=> i \in Present(m) /\ i # Child(m, q, n)
  BY <1>3, MovedFacts
<1>6. /\ \A e \in DOMAIN left : e \in DOMAIN m.children
      /\ \A e \in DOMAIN left : \A k \in DOMAIN left[e] :
           /\ k \in DOMAIN m.children[e] /\ left[e][k] = m.children[e][k]
           /\ ~ (e = p /\ k = o)
  BY <1>1, UnlinkFacts
<1>7. \A e \in DOMAIN m.children : \A k \in DOMAIN m.children[e] :
        ~ (e = p /\ k = o) => /\ e \in DOMAIN left /\ k \in DOMAIN left[e]
                              /\ left[e][k] = m.children[e][k]
  BY <1>1, UnlinkKeeps
<1>. HIDE DEF left, c
<1>8. /\ DOMAIN kids = DOMAIN left
      /\ \A e \in DOMAIN left \ {q} : kids[e] = left[e]
      /\ kids[q] = Put(left[q], n, c)
  BY <1>2
<1>9. /\ \A k : k \in DOMAIN kids[q] <=> k \in DOMAIN left[q]
      /\ kids[q][n] = c
      /\ \A k \in DOMAIN left[q] \ {n} : kids[q][k] = left[q][k]
  BY <1>2, <1>8, PutFacts
<1>. HIDE DEF kids, r
<1>10. ASSUME NEW e, NEW k
       PROVE  Listed(r, e, k) <=> Listed(m, e, k) /\ ~ (e = p /\ k = o)
  <2>1. Listed(r, e, k) <=> e \in DOMAIN kids /\ k \in DOMAIN kids[e]
    BY <1>4, ListedMeans
  <2>2. Listed(m, e, k) <=> e \in DOMAIN m.children /\ k \in DOMAIN m.children[e]
    BY ListedMeans
  <2>3. e \in DOMAIN kids /\ k \in DOMAIN kids[e] <=> e \in DOMAIN left /\ k \in DOMAIN left[e]
    BY <1>8, <1>9
  <2>. QED
    BY <1>6, <1>7, <2>1, <2>2, <2>3
<1>11. Child(r, q, n) = c
  BY <1>4, <1>9 DEF Child
<1>12. ASSUME NEW e, NEW k, Listed(m, e, k), ~ (e = p /\ k = o), ~ (e = q /\ k = n)
       PROVE  Child(r, e, k) = Child(m, e, k)
  <2>1. /\ e \in DOMAIN left /\ k \in DOMAIN left[e] /\ left[e][k] = m.children[e][k]
    BY <1>7, <1>12, ListedMeans
  <2>2. kids[e][k] = left[e][k]
    BY <1>8, <1>9, <1>12, <2>1
  <2>. QED
    BY <1>4, <2>1, <2>2 DEF Child
<1>. QED
  BY <1>4, <1>5, <1>10, <1>11, <1>12 DEF r, c

(* ... and the maps of other directories stay whole. *)
LEMMA UnlinkOthers ==
  ASSUME NEW children, NEW d \in DOMAIN children, NEW n,
         NEW e \in DOMAIN children \ {d}
  PROVE  /\ e \in DOMAIN Unlink(children, d, n)
         /\ Unlink(children, d, n)[e] = children[e]
<1>1. /\ e \in DOMAIN Without(children, {d})
      /\ Without(children, {d})[e] = children[e]
  BY WithoutFacts
<1>. QED
  BY <1>1 DEF Unlink

(* Taking one inode out of the listings leaves every other inode listed. *)
LEMMA UnlistedKeeps ==
  ASSUME NEW m, AllListed(m), NEW i \in Present(m) \ {Root},
         NEW j \in Present(m) \ {Root, i}
  PROVE  LET u == Unlisted(m, i)
             v == m.inodes[j]
         IN  /\ v.parent \in DOMAIN u /\ v.name \in DOMAIN u[v.parent]
             /\ u[v.parent][v.name] = j
<1>. DEFINE u == Unlisted(m, i)
            p == m.inodes[j].parent
            n == m.inodes[j].name
<1>1. p \in DOMAIN m.children /\ n \in DOMAIN m.children[p] /\ m.children[p][n] = j
  BY ListedMeans DEF AllListed, Child
<1>2. CASE m.inodes[i].parent \in DOMAIN m.children
  <2>1. u = Unlink(m.children, m.inodes[i].parent, m.inodes[i].name)
    BY <1>2 DEF Unlisted
  <2>2. ~ (p = m.inodes[i].parent /\ n = m.inodes[i].name)
    BY <1>1 DEF AllListed, Child
  <2>. HIDE DEF p, n, u
  <2>. QED
    BY <1>1, <1>2, <2>1, <2>2, UnlinkKeeps DEF p, n, u
<1>3. CASE m.inodes[i].parent \notin DOMAIN m.children
  BY <1>1, <1>3 DEF Unlisted
<1>. QED
  BY <1>2, <1>3

(***************************************************************************)
(* remove, when every inode is listed: the cascade is what lies below the  *)
(* inode by the parent links, and nothing that stays is lost to lookup.    *)
(***************************************************************************)
LEMMA CascadeFacts ==
  ASSUME NEW m, SafeMap(m), AllListed(m), NEW i \in Present(m) \ {Root}
  PROVE  /\ Cascade(m, i) \subseteq Present(m) \ {Root}
         /\ i \in Cascade(m, i)
         /\ \A j \in Present(m) \ {Root} :
              m.inodes[j].parent \in Cascade(m, i) => j \in Cascade(m, i)
         /\ \A T \in SUBSET Present(m) :
              i \in T /\ (\A j \in Present(m) \ {Root} :
                            m.inodes[j].parent \in T => j \in T)
                => Cascade(m, i) \subseteq T
<1>. DEFINE S == Cascade(m, i)
            u == Unlisted(m, i)
<1>1. /\ \A e \in DOMAIN u : e \in DOMAIN m.children
      /\ \A e \in DOMAIN u : \A k \in DOMAIN u[e] :
           /\ k \in DOMAIN m.children[e]
           /\ u[e][k] = m.children[e][k]
           /\ u[e][k] \in Present(m) \ {i}
           /\ m.inodes[u[e][k]].parent = e
           /\ m.inodes[u[e][k]].name = k
      /\ u \in [DOMAIN u -> ChildMap]
  BY UnlistedFacts
<1>2. S \subseteq Present(m) /\ i \in S
  BY DEF Cascade
<1>3. \A T \in SUBSET Present(m) : i \in T /\ ClosedBelow(m, u, T) => S \subseteq T
  BY DEF Cascade
<1>4. \A j \in S, T \in SUBSET Present(m) : i \in T /\ ClosedBelow(m, u, T) => j \in T
  BY <1>3
<1>5. \A j \in Present(m) :
        (\A T \in SUBSET Present(m) : i \in T /\ ClosedBelow(m, u, T) => j \in T)
          => j \in S
  BY DEF Cascade
<1>6. Root \notin S
  <2>1. /\ \A k : k \in Present(Removed(m, i)) <=> k \in Present(m) /\ k \notin S
        /\ SafeMap(Removed(m, i))
    BY RemovedFacts
  <2>. QED
    BY <2>1 DEF SafeMap, RootStays
<1>7. \A j \in Present(m) \ {Root, i} :
        LET v == m.inodes[j]
        IN  /\ v.parent \in DOMAIN u /\ v.name \in DOMAIN u[v.parent]
            /\ u[v.parent][v.name] = j
  BY UnlistedKeeps
<1>. HIDE DEF S, u
<1>8. ASSUME NEW j \in Present(m) \ {Root}, m.inodes[j].parent \in S
      PROVE  j \in S
  <2>1. CASE j = i
    BY <1>2, <2>1
  <2>2. CASE j # i
    <3>. SUFFICES ASSUME NEW T \in SUBSET Present(m), i \in T, ClosedBelow(m, u, T)
                  PROVE  j \in T
      BY <1>5
    <3>1. m.inodes[j].parent \in T
      BY <1>4, <1>8
    <3>. QED
      BY <1>7, <2>2, <3>1 DEF ClosedBelow
  <2>. QED
    BY <2>1, <2>2
<1>9. ASSUME NEW T \in SUBSET Present(m), i \in T,
             \A j \in Present(m) \ {Root} : m.inodes[j].parent \in T => j \in T
      PROVE  S \subseteq T
  <2>1. \A e \in DOMAIN u : \A k \in DOMAIN u[e] : k \in Name
    BY <1>1, ChildMapFacts
  <2>2. \A e \in DOMAIN u : \A k \in DOMAIN u[e] : u[e][k] # Root
    BY <1>1, <2>1, InodeMapAssumption DEF SafeMap, RootStays
  <2>3. ClosedBelow(m, u, T)
    BY <1>1, <1>9, <2>2 DEF ClosedBelow
  <2>. QED
    BY <1>3, <1>9, <2>3
<1>. QED
  BY <1>2, <1>6, <1>8, <1>9 DEF S

LEMMA RemovedAllListed ==
  ASSUME NEW m, SafeMap(m), AllListed(m), NEW i \in Present(m) \ {Root}
  PROVE  AllListed(Removed(m, i))
<1>. DEFINE S == Cascade(m, i)
            u == Unlisted(m, i)
            r == Removed(m, i)
<1>1. r.children = Without(u, S)
  BY DEF Removed
<1>2. /\ \A j : j \in Present(r) <=> j \in Present(m) /\ j \notin S
      /\ \A j \in Present(r) : r.inodes[j] = m.inodes[j]
  BY RemovedFacts
<1>3. i \in S /\ \A j \in Present(m) \ {Root} : m.inodes[j].parent \in S => j \in S
  BY CascadeFacts
<1>. HIDE DEF S, r
<1>. SUFFICES ASSUME NEW j \in Present(r) \ {Root}
              PROVE  LET v == r.inodes[j]
                     IN  /\ v.parent \in Present(r)
                         /\ Listed(r, v.parent, v.name)
                         /\ Child(r, v.parent, v.name) = j
  BY DEF AllListed, r
<1>. DEFINE p == m.inodes[j].parent
            n == m.inodes[j].name
<1>4. j \in Present(m) \ {Root, i} /\ r.inodes[j] = m.inodes[j]
  BY <1>2, <1>3
<1>5. p \in Present(r) /\ p \notin S
  BY <1>2, <1>3, <1>4 DEF AllListed
<1>6. p \in DOMAIN u /\ n \in DOMAIN u[p] /\ u[p][n] = j
  BY <1>4, UnlistedKeeps
<1>. HIDE DEF p, n, u
<1>7. p \in DOMAIN r.children /\ r.children[p] = u[p]
  BY <1>1, <1>5, <1>6, WithoutFacts
<1>. QED
  BY <1>4, <1>5, <1>6, <1>7, ListedMeans DEF Child, p, n
=============================================================================
