------------------------------ MODULE InodeMap ------------------------------
(***************************************************************************)
(* The InodeMapper struct of src/src/inode_mapper.rs as a value, and its   *)
(* methods as operators from a value to the value they leave behind.       *)
(*                                                                         *)
(* A HashMap is a function whose domain is the set of its keys.  A map     *)
(* value m is a record with the three fields of the struct:                *)
(*   m.inodes      inode -> [parent, name, data]                           *)
(*   m.children    inode -> (name -> inode); a directory may own an empty  *)
(*                 children map or none at all, and the difference matters *)
(*   m.next_inode  the number the next new inode gets                      *)
(* A name is an element of Name and the generic payload T of Data.         *)
(***************************************************************************)
EXTENDS Integers, Sequences, FiniteSets, Functions

CONSTANTS MaxInode,  \* bound on the numbers handed out (u64 in the code)
          Name,      \* file names
          RootName,  \* the empty name, which only the root has
          Data       \* payloads of an inode

ASSUME InodeMapAssumption ==
  /\ MaxInode \in Nat \ {0}
  /\ RootName \notin Name

Inode == 1 .. MaxInode
Root  == 1
InodeValue == [parent : Inode, name : Name \cup {RootName}, data : Data]

(* HashMap: new, insert, remove. *)
Nothing == [x \in {} |-> x]
Put(f, k, v) == [x \in DOMAIN f \cup {k} |-> IF x = k THEN v ELSE f[x]]
Without(f, S) == Restrict(f, DOMAIN f \ S)

ChildMap == UNION {[N -> Inode] : N \in SUBSET Name}

IsMap(m) ==
  /\ m = [inodes |-> m.inodes, children |-> m.children,
          next_inode |-> m.next_inode]
  /\ DOMAIN m.inodes \subseteq Inode
  /\ m.inodes \in [DOMAIN m.inodes -> InodeValue]
  /\ DOMAIN m.children \subseteq Inode
  /\ m.children \in [DOMAIN m.children -> ChildMap]
  /\ m.next_inode \in 1 .. MaxInode + 1

(* Mutant: the root has no parent. *)
NewMapNoParent(d) ==
  [inodes     |-> Put(Nothing, Root, [parent |-> 0, name |-> RootName, data |-> d]),
   children   |-> Nothing,
   next_inode |-> Root + 1]

(* Mutant: the counter starts at the number of the root. *)
NewMapFromRoot(d) ==
  [inodes     |-> Put(Nothing, Root, [parent |-> Root, name |-> RootName, data |-> d]),
   children   |-> Nothing,
   next_inode |-> Root]

NewMap(d) ==
  [inodes     |-> Put(Nothing, Root, [parent |-> Root, name |-> RootName, data |-> d]),
   children   |-> Nothing,
   next_inode |-> Root + 1]

Present(m) == DOMAIN m.inodes
Children(m, d) == IF d \in DOMAIN m.children THEN m.children[d] ELSE Nothing
Listed(m, d, n) == n \in DOMAIN Children(m, d)
Child(m, d, n) == m.children[d][n]
HasRoom(m) == m.next_inode <= MaxInode

-----------------------------------------------------------------------------
(* Mutant: an existing entry is inserted again. *)
InsertAgain(m, p, n, d) ==
  [inodes     |-> Put(m.inodes, m.next_inode, [parent |-> p, name |-> n, data |-> d]),
   children   |-> Put(m.children, p, Put(Children(m, p), n, m.next_inode)),
   next_inode |-> m.next_inode + 1]

(***************************************************************************)
(* An existing entry keeps its number and only its data is replaced; a new *)
(* entry takes next_inode and creates the parent's children map when there *)
(* is none.                                                                *)
(***************************************************************************)
Insert(m, p, n, d) ==
  IF Listed(m, p, n)
  THEN [m EXCEPT !.inodes[Child(m, p, n)].data = d]
  ELSE [inodes     |-> Put(m.inodes, m.next_inode,
                           [parent |-> p, name |-> n, data |-> d]),
        children   |-> Put(m.children, p,
                           Put(Children(m, p), n, m.next_inode)),
        next_inode |-> m.next_inode + 1]

(* insert_children gives the parent an (empty) children map first. *)
EnsureMap(m, p) == [m EXCEPT !.children = Put(@, p, Children(m, p))]

(* A name leaves a children map; a map left empty leaves the table. *)
Unlink(children, d, n) ==
  LET left == Without(children[d], {n})
  IN  IF DOMAIN left = {} THEN Without(children, {d})
                          ELSE [children EXCEPT ![d] = left]

(***************************************************************************)
(* rename, when both parents exist and the old name is listed.  The entry  *)
(* is added to the new parent's map only if there is one at that point;    *)
(* an inode found under the new name leaves the inode table, and nothing   *)
(* else of it is touched.                                                  *)
(***************************************************************************)
Replaced(left, q, n) ==
  IF q \in DOMAIN left /\ n \in DOMAIN left[q] THEN {left[q][n]} ELSE {}

(* Mutant: the inode keeps its old parent and name. *)
MovedStale(m, p, o, q, n) ==
  LET c    == Child(m, p, o)
      left == Unlink(m.children, p, o)
  IN  [m EXCEPT !.inodes = Without(@, Replaced(left, q, n)),
                !.children = IF q \in DOMAIN left
                             THEN [left EXCEPT ![q] = Put(@, n, c)] ELSE left]

(* Mutant: the inode becomes its own parent. *)
MovedUnderItself(m, p, o, q, n) ==
  LET c    == Child(m, p, o)
      left == Unlink(m.children, p, o)
      kept == [m.inodes EXCEPT ![c].parent = c, ![c].name = n]
  IN  [m EXCEPT !.inodes = Without(kept, Replaced(left, q, n)),
                !.children = IF q \in DOMAIN left
                             THEN [left EXCEPT ![q] = Put(@, n, c)] ELSE left]

(* Mutant: a moved directory leaves its children map behind. *)
MovedEmpty(m, p, o, q, n) ==
  LET c    == Child(m, p, o)
      left == Without(Unlink(m.children, p, o), {c})
      kept == [m.inodes EXCEPT ![c].parent = q, ![c].name = n]
  IN  [m EXCEPT !.inodes = Without(kept, Replaced(left, q, n)),
                !.children = IF q \in DOMAIN left
                             THEN [left EXCEPT ![q] = Put(@, n, c)] ELSE left]

(* Mutant: the new parent lists the inode under its old name. *)
MovedListedAsBefore(m, p, o, q, n) ==
  LET c    == Child(m, p, o)
      left == Unlink(m.children, p, o)
      kept == [m.inodes EXCEPT ![c].parent = q, ![c].name = n]
  IN  [m EXCEPT !.inodes = Without(kept, Replaced(left, q, n)),
                !.children = IF q \in DOMAIN left
                             THEN [left EXCEPT ![q] = Put(@, o, c)] ELSE left]

Moved(m, p, o, q, n) ==
  LET c    == Child(m, p, o)
      left == Unlink(m.children, p, o)
      kept == [m.inodes EXCEPT ![c].parent = q, ![c].name = n]
  IN  [inodes     |-> Without(kept, Replaced(left, q, n)),
       children   |-> IF q \in DOMAIN left
                      THEN [left EXCEPT ![q] = Put(@, n, c)]
                      ELSE left,
       next_inode |-> m.next_inode]

(***************************************************************************)
(* remove: the inode, whatever entry stands under its parent and name, and *)
(* the inodes listed below it.  A child found in the cascade looks for its *)
(* own entry in the map of its parent, which is already gone, so only the  *)
(* first removal unlinks.                                                  *)
(***************************************************************************)
Unlisted(m, i) ==
  LET v == m.inodes[i]
  IN  IF v.parent \in DOMAIN m.children
      THEN Unlink(m.children, v.parent, v.name) ELSE m.children

ClosedBelow(m, children, S) ==
  \A d \in S \cap DOMAIN children : \A n \in DOMAIN children[d] :
     children[d][n] \in Present(m) => children[d][n] \in S

(* Mutant: nothing below is removed. *)
CascadeOne(m, i) == {i}

Cascade(m, i) ==
  {j \in Present(m) : \A S \in SUBSET Present(m) :
     i \in S /\ ClosedBelow(m, Unlisted(m, i), S) => j \in S}

(* Mutant: the number is handed out again. *)
RemovedReused(m, i) ==
  [inodes     |-> Without(m.inodes, Cascade(m, i)),
   children   |-> Without(Unlisted(m, i), Cascade(m, i)),
   next_inode |-> i]

(* Mutant: the parent goes on listing the inode. *)
RemovedListed(m, i) ==
  [inodes     |-> Without(m.inodes, Cascade(m, i)),
   children   |-> Without(m.children, Cascade(m, i)),
   next_inode |-> m.next_inode]

Removed(m, i) ==
  [inodes     |-> Without(m.inodes, Cascade(m, i)),
   children   |-> Without(Unlisted(m, i), Cascade(m, i)),
   next_inode |-> m.next_inode]

-----------------------------------------------------------------------------
(***************************************************************************)
(* resolve walks the parent links until an inode that is its own parent.   *)
(* Chain is what it visits; it answers None when the walk meets an inode   *)
(* that is not there, and it does not return when the walk is a cycle.     *)
(***************************************************************************)
Chain(m, i) ==
  {j \in Inode : \A S \in SUBSET Inode :
     i \in S /\ (\A k \in S \cap Present(m) : m.inodes[k].parent \in S)
       => j \in S}

Resolves(m, i) ==
  /\ Chain(m, i) \subseteq Present(m)
  /\ \E j \in Chain(m, i) : m.inodes[j].parent = j

LeadsNowhere(m, i) == ~ (Chain(m, i) \subseteq Present(m))

(* d is i or lies below i by the parent links. *)
Under(m, d, i) == i \in Chain(m, d)

(* Following a path of names down from an inode with lookup; 0 if a name is
   not listed on the way. *)
Walk(m, base, path) ==
  LET at[k \in 0 .. Len(path)] ==
        IF k = 0 THEN base
        ELSE IF at[k - 1] # 0 /\ Listed(m, at[k - 1], path[k])
             THEN Child(m, at[k - 1], path[k]) ELSE 0
  IN  at[Len(path)]

-----------------------------------------------------------------------------
(* What every method of the mapper keeps. *)

(* An entry of a children map leads to an inode that is in the table and
   says the same parent and name. *)
EntriesAgree(m) ==
  \A d \in DOMAIN m.children : \A n \in DOMAIN m.children[d] :
    /\ m.children[d][n] \in Present(m)
    /\ m.inodes[m.children[d][n]].parent = d
    /\ m.inodes[m.children[d][n]].name = n

(* The root stays, is its own parent, and has the name no entry can have. *)
RootStays(m) ==
  /\ Root \in Present(m)
  /\ m.inodes[Root].parent = Root
  /\ m.inodes[Root].name = RootName

(* Every number in use, also as a parent or as the owner of a children map,
   was handed out before. *)
NumbersIssued(m) ==
  /\ \A i \in Present(m) : i < m.next_inode /\ m.inodes[i].parent < m.next_inode
  /\ \A d \in DOMAIN m.children : d < m.next_inode

(* No set of inodes has all its parents inside itself, the root apart: the
   walk of resolve cannot go round in a circle. *)
NoCycle(m) ==
  \A S \in SUBSET (Present(m) \ {Root}) :
    S # {} => \E i \in S : m.inodes[i].parent \notin S

(* Every inode but the root is listed under its parent and name. *)
AllListed(m) ==
  \A i \in Present(m) \ {Root} :
    LET v == m.inodes[i]
    IN  /\ v.parent \in Present(m)
        /\ Listed(m, v.parent, v.name)
        /\ Child(m, v.parent, v.name) = i
=============================================================================
