--------------------------- MODULE DirStreamProofs ---------------------------
(***************************************************************************)
(* Theorems about DirStream.  The types are kept by any streams.  That a   *)
(* listing is given once, in order and to its end is proved for what the   *)
(* documentation of the driver has in mind: plain readdir, one stream per  *)
(* directory that is read to its end, and no directory of a single entry.  *)
(* README.md says what happens without each of these.                      *)
(***************************************************************************)
EXTENDS DirStream, SequenceTheorems, TLAPS

-----------------------------------------------------------------------------
(* Sequences. *)

(* A sequence is a prefix of what it is continued to. *)
LEMMA PrefixOfConcat ==
  ASSUME NEW S, NEW a \in Seq(S), NEW b \in Seq(S)
  PROVE  IsPrefix(a, a \o b)
<1>1. /\ a \o b \in Seq(S) /\ Len(a \o b) = Len(a) + Len(b)
      /\ Len(a) \in Nat /\ Len(b) \in Nat
      /\ \A i \in 1 .. Len(a) : (a \o b)[i] = a[i]
  BY ConcatProperties, LenProperties
<1>2. SubSeq(a, 1, Len(a)) = a
  BY SubSeqFull
<1>3. SubSeq(a \o b, 1, Len(a)) = a
  <2>1. \A i \in 1 .. Len(a) : (a \o b)[i] \in S
    BY <1>1, ElementOfSeq
  <2>2. /\ SubSeq(a \o b, 1, Len(a)) \in Seq(S)
        /\ Len(SubSeq(a \o b, 1, Len(a))) = IF 1 <= Len(a) THEN Len(a) - 1 + 1 ELSE 0
        /\ \A i \in 1 .. Len(a) - 1 + 1 :
             SubSeq(a \o b, 1, Len(a))[i] = (a \o b)[1 + i - 1]
    BY <1>1, <2>1, SubSeqProperties
  <2>3. Len(SubSeq(a \o b, 1, Len(a))) = Len(a)
    BY <1>1, <2>2
  <2>4. \A i \in 1 .. Len(a) : SubSeq(a \o b, 1, Len(a))[i] = a[i]
    <3> TAKE i \in 1 .. Len(a)
    <3>1. 1 + i - 1 = i /\ i \in 1 .. Len(a) - 1 + 1
      BY <1>1
    <3> QED BY <1>1, <2>2, <3>1
  <2> QED BY <2>2, <2>3, <2>4, SeqEqual
<1> QED BY <1>1, <1>2, <1>3 DEF IsPrefix

(* A reply and what is left of the entries are all the entries. *)
LEMMA Cut ==
  ASSUME NEW S, NEW iter \in Seq(S), NEW n \in 0 .. Len(iter)
  PROVE  /\ SubSeq(iter, 1, n) \in Seq(S)
         /\ SubSeq(iter, n + 1, Len(iter)) \in Seq(S)
         /\ SubSeq(iter, 1, n) \o SubSeq(iter, n + 1, Len(iter)) = iter
         /\ n = 0 <=> SubSeq(iter, 1, n) = <<>>
         /\ n = Len(iter) <=> SubSeq(iter, n + 1, Len(iter)) = <<>>
<1>1. Len(iter) \in Nat /\ n \in Nat /\ n <= Len(iter)
  BY LenProperties
<1>2. /\ SubSeq(iter, 1, n) \in Seq(S)
      /\ Len(SubSeq(iter, 1, n)) = n
  <2>1. \A i \in 1 .. n : iter[i] \in S
    BY <1>1, ElementOfSeq
  <2>2. /\ SubSeq(iter, 1, n) \in Seq(S)
        /\ Len(SubSeq(iter, 1, n)) = IF 1 <= n THEN n - 1 + 1 ELSE 0
    BY <1>1, <2>1, SubSeqProperties
  <2> QED BY <1>1, <2>2
<1>3. /\ SubSeq(iter, n + 1, Len(iter)) \in Seq(S)
      /\ Len(SubSeq(iter, n + 1, Len(iter))) = Len(iter) - n
  <2>1. \A i \in n + 1 .. Len(iter) : iter[i] \in S
    BY <1>1, ElementOfSeq
  <2>2. /\ SubSeq(iter, n + 1, Len(iter)) \in Seq(S)
        /\ Len(SubSeq(iter, n + 1, Len(iter)))
             = IF n + 1 <= Len(iter) THEN Len(iter) - (n + 1) + 1 ELSE 0
    BY <1>1, <2>1, SubSeqProperties
  <2> QED BY <1>1, <2>2
<1>4. SubSeq(iter, 1, n) \o SubSeq(iter, n + 1, Len(iter)) = SubSeq(iter, 1, Len(iter))
  <2>1. 1 \in 1 .. Len(iter) + 1 /\ n \in 1 - 1 .. Len(iter) /\ Len(iter) \in n .. Len(iter)
    BY <1>1
  <2> QED BY <2>1, ConcatAdjacentSubSeq
<1>5. SubSeq(iter, 1, Len(iter)) = iter
  BY SubSeqFull
<1>6. \A q \in Seq(S) : q = <<>> <=> Len(q) = 0
  BY EmptySeq
<1>7. n = 0 <=> SubSeq(iter, 1, n) = <<>>
  BY <1>2, <1>6, <1>1
<1>8. n = Len(iter) <=> Len(SubSeq(iter, n + 1, Len(iter))) = 0
  BY <1>1, <1>3
<1>9. n = Len(iter) <=> SubSeq(iter, n + 1, Len(iter)) = <<>>
  BY <1>3, <1>6, <1>8
<1> QED BY <1>2, <1>3, <1>4, <1>5, <1>7, <1>9

(* What a file system answers is a sequence of numbers. *)
LEMMA ListingType ==
  ASSUME NEW d \in Dir, NEW listing \in Listings[d]
  PROVE  listing \in Seq(Number)
<1>1. listing \in Seq(Nat)
  BY DirStreamAssumption
<1>2. \A i \in 1 .. Len(listing) : listing[i] \in ToSet(listing)
  BY <1>1, LenProperties DEF ToSet
<1>3. ToSet(listing) \subseteq Number
  BY DEF Number
<1>4. \A i \in 1 .. Len(listing) : listing[i] \in Number
  BY <1>2, <1>3
<1>5. listing \in [1 .. Len(listing) -> Number] /\ Len(listing) \in Nat
  BY <1>1, <1>4, LenProperties
<1> QED BY <1>5, SeqDef

-----------------------------------------------------------------------------
(* Types. *)

(* A read is about a stream that is open. *)
ReadsOfOpen == \A s \in Stream : read[s].pc # "idle" => Opened(s)

TypeInv == TypeOK /\ ReadsOfOpen

LEMMA InitTypes == Init => TypeInv
<1> SUFFICES ASSUME Init PROVE TypeInv
  OBVIOUS
<1>1. NoRead \in Reads /\ Closed \in Streams
  <2>1. <<>> \in Seq(Number)
    BY EmptySeq
  <2>2. 0 \in 0 .. MaxOpens
    BY DirStreamAssumption
  <2> QED BY <2>1, <2>2 DEF NoRead, Closed, Reads, Streams
<1>2. read \in [Stream -> Reads] /\ stream \in [Stream -> Streams]
  BY <1>1 DEF Init
<1>3. DOMAIN saved = Kinds /\ \A k \in Kinds : DOMAIN saved[k] = {}
  BY DEF Init
<1>4. ReadsOfOpen
  BY DEF Init, ReadsOfOpen, NoRead
<1> QED BY <1>2, <1>3, <1>4 DEF TypeInv, TypeOK

(* The fields of a stream and of a read. *)
LEMMA Fields ==
  ASSUME TypeInv, NEW s \in Stream
  PROVE  /\ stream[s].dir \in Dir \cup {0} /\ stream[s].pos \in Nat
         /\ stream[s].whole \in Seq(Number) /\ stream[s].got \in Seq(Number)
         /\ stream[s].end \in BOOLEAN /\ stream[s].opens \in 0 .. MaxOpens
         /\ read[s].pc \in {"idle", "asked", "fill"}
         /\ read[s].kind \in {"readdir", "readdirplus"}
         /\ read[s].offset \in Nat /\ read[s].iter \in Seq(Number)
         /\ read[s].pc # "idle" => stream[s].dir \in Dir
<1>1. stream[s] \in Streams /\ read[s] \in Reads
  BY DEF TypeInv, TypeOK
<1>2. read[s].pc # "idle" => stream[s].dir # 0
  BY DEF TypeInv, ReadsOfOpen, Opened
<1> QED BY <1>1, <1>2 DEF Streams, Reads

(* A reply writes the entries it has no room for under a number and an
   offset. *)
LEMMA SaveType ==
  ASSUME TypeInv, NEW s \in Stream, read[s].pc # "idle", read[s].kind \in Kinds,
         NEW n \in Nat \ {0}, NEW left \in Seq(Number), left # <<>>
  PROVE  /\ DOMAIN Save(s, n, left) = Kinds
         /\ \A k \in Kinds :
              /\ DOMAIN Save(s, n, left)[k] \subseteq Number \X Nat
              /\ \A key \in DOMAIN Save(s, n, left)[k] :
                   Save(s, n, left)[k][key] \in Seq(Number)
<1> DEFINE kind == read[s].kind
           place == <<KeyInode(s, left), Cookie(read[s].offset, n)>>
           new == [key \in DOMAIN saved[kind] \cup {place} |->
                     IF key = place THEN left ELSE saved[kind][key]]
<1>1. /\ DOMAIN saved = Kinds
      /\ \A k \in Kinds : /\ DOMAIN saved[k] \subseteq Number \X Nat
                          /\ \A key \in DOMAIN saved[k] : saved[k][key] \in Seq(Number)
  BY DEF TypeInv, TypeOK
<1>2. place \in Number \X Nat
  <2>1. Dir \subseteq Number
    BY DEF Number
  <2>2. KeyInode(s, left) \in Number
    BY <2>1, Fields, HeadTailProperties DEF KeyInode
  <2>3. Cookie(read[s].offset, n) \in Nat
    BY Fields DEF Cookie
  <2> QED BY <2>2, <2>3
<1>3. Save(s, n, left) = [saved EXCEPT ![kind] = new]
  BY DEF Save
<1>4. DOMAIN new \subseteq Number \X Nat /\ \A key \in DOMAIN new : new[key] \in Seq(Number)
  BY <1>1, <1>2
<1> HIDE DEF new, place
<1>5. \A k \in Kinds : Save(s, n, left)[k] = IF k = kind THEN new ELSE saved[k]
  BY <1>1, <1>3
<1> QED BY <1>1, <1>3, <1>4, <1>5

(* A read is of a kind that the kernel sends. *)
KindsRead == \A s \in Stream : read[s].pc # "idle" => read[s].kind \in Kinds

LEMMA NextTypes ==
  ASSUME TypeInv, KindsRead, [Next]_vars
  PROVE  TypeInv' /\ KindsRead'
<1>0. /\ DOMAIN saved = Kinds
      /\ \A k \in Kinds : /\ DOMAIN saved[k] \subseteq Number \X Nat
                          /\ \A key \in DOMAIN saved[k] : saved[k][key] \in Seq(Number)
      /\ read \in [Stream -> Reads] /\ stream \in [Stream -> Streams]
  BY DEF TypeInv, TypeOK
<1>1. <<>> \in Seq(Number)
  BY EmptySeq
<1> DEFINE Table(t) == /\ DOMAIN t = Kinds
                       /\ \A k \in Kinds :
                            /\ DOMAIN t[k] \subseteq Number \X Nat
                            /\ \A key \in DOMAIN t[k] : t[k][key] \in Seq(Number)
<1>2. (* What has to be shown of a step of one stream. *)
      ASSUME NEW s \in Stream, NEW r \in Reads, NEW q \in Streams,
             read' = [read EXCEPT ![s] = r], stream' = [stream EXCEPT ![s] = q],
             r.pc # "idle" => q.dir # 0 /\ r.kind \in Kinds, Table(saved')
      PROVE  TypeInv' /\ KindsRead'
  <2>1. read' \in [Stream -> Reads] /\ stream' \in [Stream -> Streams]
    BY <1>0, <1>2
  <2>2. \A t \in Stream : /\ read'[t] = IF t = s THEN r ELSE read[t]
                          /\ stream'[t] = IF t = s THEN q ELSE stream[t]
    BY <1>0, <1>2
  <2>3. TypeOK'
    BY <2>1, <1>2 DEF TypeOK
  <2>4. ReadsOfOpen'
    BY <2>2, <1>2 DEF TypeInv, ReadsOfOpen, Opened
  <2>5. KindsRead'
    BY <2>2, <1>2 DEF KindsRead
  <2> QED BY <2>3, <2>4, <2>5 DEF TypeInv
<1>3. Table(saved)
  BY <1>0
<1>4. \A s \in Stream : read = [read EXCEPT ![s] = read[s]] /\ stream = [stream EXCEPT ![s] = stream[s]]
  BY <1>0
<1>5. \A s \in Stream : /\ read[s] \in Reads /\ stream[s] \in Streams
                        /\ read[s].pc # "idle" => stream[s].dir # 0 /\ read[s].kind \in Kinds
  BY <1>0 DEF TypeInv, ReadsOfOpen, Opened, KindsRead
<1>6. NoRead \in Reads /\ NoRead.pc = "idle"
  BY <1>1 DEF NoRead, Reads
<1>7. CASE UNCHANGED vars
  BY <1>7 DEF vars, TypeInv, TypeOK, ReadsOfOpen, Opened, KindsRead
<1>8. ASSUME NEW s \in Stream, NEW d \in Dir, Open(s, d) PROVE TypeInv' /\ KindsRead'
  <2> DEFINE q == [Closed EXCEPT !.dir = d, !.opens = stream[s].opens + 1]
  <2>1. q \in Streams
    <3>1. stream[s].opens + 1 \in 0 .. MaxOpens
      BY <1>8, Fields, DirStreamAssumption DEF Open
    <3> QED BY <1>1, <3>1 DEF Closed, Streams
  <2>2. stream' = [stream EXCEPT ![s] = q] /\ read' = [read EXCEPT ![s] = read[s]]
    BY <1>8, <1>4 DEF Open
  <2>3. read[s].pc = "idle" /\ Table(saved')
    BY <1>8, <1>3 DEF Open, Resting
  <2> HIDE DEF q, Table
  <2> QED BY <1>2, <1>5, <2>1, <2>2, <2>3
<1>9. ASSUME NEW s \in Stream, Close(s) PROVE TypeInv' /\ KindsRead'
  <2> DEFINE q == [Closed EXCEPT !.opens = stream[s].opens]
  <2>1. q \in Streams
    BY <1>1, Fields DEF Closed, Streams
  <2>2. stream' = [stream EXCEPT ![s] = q] /\ read' = [read EXCEPT ![s] = read[s]]
    BY <1>9, <1>4 DEF Close
  <2>3. read[s].pc = "idle" /\ Table(saved')
    BY <1>9, <1>3 DEF Close, Resting
  <2> HIDE DEF q, Table
  <2> QED BY <1>2, <1>5, <2>1, <2>2, <2>3
<1>10. ASSUME NEW s \in Stream, NEW kind \in Kinds, Ask(s, kind) PROVE TypeInv' /\ KindsRead'
  <2> DEFINE r == [NoRead EXCEPT !.pc = "asked", !.kind = kind, !.offset = stream[s].pos]
  <2>1. r \in Reads /\ r.kind = kind
    BY <1>1, Fields, DirStreamAssumption DEF NoRead, Reads
  <2>2. stream' = [stream EXCEPT ![s] = stream[s]] /\ read' = [read EXCEPT ![s] = r]
    BY <1>10, <1>4 DEF Ask
  <2>3. stream[s].dir # 0 /\ Table(saved')
    BY <1>10, <1>3 DEF Ask, Opened
  <2> HIDE DEF r, Table
  <2> QED BY <1>2, <1>5, <2>1, <2>2, <2>3
<1>11. ASSUME NEW s \in Stream, ReadError(s) PROVE TypeInv' /\ KindsRead'
  <2>2. stream' = [stream EXCEPT ![s] = stream[s]] /\ read' = [read EXCEPT ![s] = NoRead]
    BY <1>11, <1>4 DEF ReadError
  <2>3. Table(saved')
    BY <1>11, <1>3 DEF ReadError
  <2> HIDE DEF Table
  <2> QED BY <1>2, <1>5, <1>6, <2>2, <2>3
<1>12. ASSUME NEW s \in Stream, ReadListing(s) PROVE TypeInv' /\ KindsRead'
  <2>1. stream[s].dir \in Dir /\ read[s].pc # "idle"
    BY <1>12, Fields DEF ReadListing, Asked
  <2>2. PICK listing \in Listings[stream[s].dir] :
          /\ read' = [read EXCEPT ![s].pc = "fill", ![s].iter = listing]
          /\ stream' = IF stream[s].got = <<>>
                       THEN [stream EXCEPT ![s].whole = listing] ELSE stream
    BY <1>12 DEF ReadListing
  <2> DEFINE r == [read[s] EXCEPT !.pc = "fill", !.iter = listing]
             q == [stream[s] EXCEPT !.whole = IF stream[s].got = <<>> THEN listing ELSE @]
  <2>3. listing \in Seq(Number)
    BY <2>1, ListingType
  <2>4. r \in Reads /\ r.kind = read[s].kind /\ q \in Streams /\ q.dir = stream[s].dir
    BY <1>5, <2>3 DEF Reads, Streams
  <2>5. read' = [read EXCEPT ![s] = r]
    BY <2>2, <1>0 DEF Reads
  <2>6. stream' = [stream EXCEPT ![s] = q]
    <3>1. CASE stream[s].got = <<>>
      BY <3>1, <2>2, <1>0 DEF Streams
    <3>2. CASE stream[s].got # <<>>
      <4>1. q = stream[s]
        BY <3>2, <1>5 DEF Streams
      <4> QED BY <3>2, <4>1, <2>2, <1>4
    <3> QED BY <3>1, <3>2
  <2>7. Table(saved')
    BY <1>12, <1>3 DEF ReadListing
  <2> HIDE DEF r, q, Table
  <2>8. q.dir # 0 /\ r.kind \in Kinds
    BY <1>5, <2>1, <2>4
  <2> QED BY <1>2, <2>4, <2>5, <2>6, <2>7, <2>8
<1>13. ASSUME NEW s \in Stream, TakeSaved(s) PROVE TypeInv' /\ KindsRead'
  <2> DEFINE kind == read[s].kind
             key == <<stream[s].dir, read[s].offset>>
             r == [read[s] EXCEPT !.pc = "fill", !.iter = saved[kind][key]]
  <2>1. /\ read[s].pc # "idle" /\ key \in DOMAIN saved[kind]
        /\ read' = [read EXCEPT ![s].pc = "fill", ![s].iter = saved[kind][key]]
        /\ saved' = [saved EXCEPT ![kind] = Restrict(@, DOMAIN @ \ {key})]
        /\ stream' = stream
    BY <1>13 DEF TakeSaved, Asked
  <2>2. kind \in Kinds /\ saved[kind][key] \in Seq(Number)
    BY <1>5, <1>0, <2>1
  <2>3. r \in Reads /\ r.kind = read[s].kind
    BY <1>5, <2>2 DEF Reads
  <2>4. read' = [read EXCEPT ![s] = r] /\ stream' = [stream EXCEPT ![s] = stream[s]]
    BY <2>1, <1>0, <1>4 DEF Reads
  <2>5. Table(saved')
    <3>1. \A k \in Kinds : saved'[k] = IF k = kind THEN Restrict(saved[k], DOMAIN saved[k] \ {key})
                                       ELSE saved[k]
      BY <2>1, <1>0
    <3> HIDE DEF key, kind, r
    <3>2. DOMAIN saved' = Kinds
      BY <2>1, <1>0
    <3>3. ASSUME NEW k \in Kinds
          PROVE  /\ DOMAIN saved'[k] \subseteq DOMAIN saved[k]
                 /\ \A x \in DOMAIN saved'[k] : saved'[k][x] = saved[k][x]
      <4>1. CASE k = kind
        <5>1. saved'[k] = [x \in DOMAIN saved[k] \ {key} |-> saved[k][x]]
          BY <3>1, <4>1 DEF Restrict
        <5> QED BY <5>1
      <4>2. CASE k # kind
        BY <3>1, <4>2
      <4> QED BY <4>1, <4>2
    <3> QED BY <3>2, <3>3, <1>0
  <2> HIDE DEF r, Table, key, kind
  <2>6. stream[s] \in Streams /\ stream[s].dir # 0 /\ r.kind \in Kinds
    BY <1>5, <2>1, <2>3
  <2> QED BY <1>2, <2>3, <2>4, <2>5, <2>6
<1>14. ASSUME NEW s \in Stream, NothingSaved(s) PROVE TypeInv' /\ KindsRead'
  <2> DEFINE q == [stream[s] EXCEPT !.end = TRUE]
  <2>1. q \in Streams
    BY <1>5 DEF Streams
  <2>2. stream' = [stream EXCEPT ![s] = q] /\ read' = [read EXCEPT ![s] = NoRead]
    BY <1>14, <1>0 DEF NothingSaved, Streams
  <2>3. Table(saved')
    BY <1>14, <1>3 DEF NothingSaved
  <2> HIDE DEF q, Table
  <2> QED BY <1>2, <1>6, <2>1, <2>2, <2>3
<1>15. ASSUME NEW s \in Stream, NEW n \in 0 .. MaxGot, Fill(s, n) PROVE TypeInv' /\ KindsRead'
  <2> DEFINE iter == read[s].iter
             left == SubSeq(iter, n + 1, Len(iter))
             q == [stream[s] EXCEPT !.got = @ \o SubSeq(iter, 1, n),
                                    !.pos = IF n = 0 THEN @ ELSE Cookie(read[s].offset, n),
                                    !.end = (n = 0)]
  <2>1. /\ read[s].pc = "fill" /\ n \in 0 .. Len(iter) /\ (n >= MinFit \/ left = <<>>)
        /\ saved' = IF left = <<>> THEN saved ELSE Save(s, n, left)
        /\ read' = [read EXCEPT ![s] = NoRead]
    BY <1>15 DEF Fill
  <2>2. stream' = [stream EXCEPT
           ![s].got = @ \o SubSeq(iter, 1, n),
           ![s].pos = IF n = 0 THEN @ ELSE Cookie(read[s].offset, n),
           ![s].end = (n = 0)]
    BY <1>15 DEF Fill
  <2>3. iter \in Seq(Number)
    BY Fields
  <2>4. SubSeq(iter, 1, n) \in Seq(Number) /\ left \in Seq(Number)
    BY <2>1, <2>3, Cut
  <2>5. stream[s].got \o SubSeq(iter, 1, n) \in Seq(Number)
    BY <2>4, Fields, ConcatProperties
  <2>6. n # 0 => Cookie(read[s].offset, n) \in Nat
    BY Fields DEF Cookie
  <2> HIDE DEF iter, left
  <2>7. q \in Streams
    BY <1>5, <2>5, <2>6 DEF Streams
  <2>8. stream' = [stream EXCEPT ![s] = q]
    BY <2>2, <1>0 DEF Streams
  <2>9. Table(saved')
    <3>1. CASE left = <<>>
      BY <3>1, <2>1, <1>3
    <3>2. CASE left # <<>>
      <4>1. n \in Nat \ {0}
        BY <3>2, <2>1, DirStreamAssumption
      <4> QED BY <3>2, <4>1, <2>1, <2>4, <1>5, SaveType
    <3> QED BY <3>1, <3>2
  <2> HIDE DEF q, Table
  <2> QED BY <1>2, <1>6, <2>1, <2>7, <2>8, <2>9
<1> QED
  BY <1>7, <1>8, <1>9, <1>10, <1>11, <1>12, <1>13, <1>14, <1>15 DEF Next, Serve

(* For every set of streams and directories and every way of reading them:
   the tables of saved entries, the reads and the streams have their types. *)
THEOREM StreamTypes == Spec => []TypeOK
<1>1. Init => TypeInv /\ KindsRead
  BY InitTypes DEF Init, KindsRead, NoRead
<1>2. TypeInv /\ KindsRead /\ [Next]_vars => TypeInv' /\ KindsRead'
  BY NextTypes
<1>3. TypeInv => TypeOK
  BY DEF TypeInv
<1> QED BY <1>1, <1>2, <1>3, PTL DEF Spec

-----------------------------------------------------------------------------
(* Listings are given whole. *)

(* Plain readdir, one stream per directory that is read to its end, at least
   two entries in a reply that is cut, and no directory of one entry. *)
ReadPlainly ==
  /\ Kinds = {"readdir"} /\ ~ Shared /\ ~ Abandons /\ MinFit >= 2
  /\ \A d \in Dir : \A listing \in Listings[d] : Len(listing) # 1

Rest == saved["readdir"]

(* A directory has one stream. *)
Alone == \A s, t \in Stream : s # t /\ Opened(s) => stream[t].dir # stream[s].dir

(* What a stream was given, what the reply under way will take from and what
   is saved for it are the listing; its position is 0 until it has entries. *)
Delivered(s) ==
  /\ ~ Opened(s) => /\ stream[s].got = <<>> /\ stream[s].pos = 0
                    /\ ~ stream[s].end
  /\ stream[s].end => read[s].pc = "idle" /\ stream[s].got = stream[s].whole
  /\ read[s].pc # "idle" => read[s].offset = stream[s].pos
  /\ stream[s].pos = 0 <=> stream[s].got = <<>>
  /\ read[s].pc = "fill" => /\ stream[s].whole = stream[s].got \o read[s].iter
                            /\ stream[s].pos = 0 => Len(read[s].iter) # 1
  /\ read[s].pc # "fill" /\ stream[s].pos # 0 /\ stream[s].got # stream[s].whole
       => <<stream[s].dir, stream[s].pos>> \in DOMAIN Rest

(* Saved entries are what stream s will ask for next. *)
Wants(s, key) ==
  /\ Opened(s) /\ read[s].pc # "fill" /\ ~ stream[s].end
  /\ stream[s].dir = key[1] /\ stream[s].pos = key[2] /\ stream[s].pos # 0
  /\ stream[s].whole = stream[s].got \o Rest[key]

Wanted == \A key \in DOMAIN Rest : \E s \in Stream : Wants(s, key)

ListingInv == Alone /\ (\A s \in Stream : Delivered(s)) /\ Wanted

LEMMA InitListing == Init /\ ReadPlainly => ListingInv
<1> SUFFICES ASSUME Init, ReadPlainly PROVE ListingInv
  OBVIOUS
<1>1. \A s \in Stream : stream[s] = Closed /\ read[s] = NoRead
  BY DEF Init
<1>2. Alone
  BY <1>1 DEF Alone, Opened, Closed
<1>3. \A s \in Stream :
        /\ read[s].pc = "idle" /\ stream[s].dir = 0 /\ stream[s].pos = 0
        /\ stream[s].got = <<>> /\ stream[s].whole = <<>> /\ stream[s].end = FALSE
  BY <1>1 DEF Closed, NoRead
<1>4. \A s \in Stream : Delivered(s)
  BY <1>3 DEF Delivered, Opened
<1>5. DOMAIN Rest = {}
  BY DEF Init, Rest, ReadPlainly
<1> QED BY <1>2, <1>4, <1>5 DEF ListingInv, Wanted

(* A step of one stream, if it leaves what the others have saved. *)
LEMMA OneStream ==
  ASSUME TypeInv, ListingInv, NEW s \in Stream, NEW r, NEW q,
         read' = [read EXCEPT ![s] = r], stream' = [stream EXCEPT ![s] = q],
         q.dir # 0 => \A t \in Stream \ {s} : stream[t].dir # q.dir,
         Delivered(s)',
         \A key \in DOMAIN Rest' :
           \/ Wants(s, key)'
           \/ key \in DOMAIN Rest /\ Rest'[key] = Rest[key] /\ ~ Wants(s, key),
         \A t \in Stream \ {s} : \A key \in DOMAIN Rest :
           Opened(t) /\ key[1] = stream[t].dir => key \in DOMAIN Rest'
  PROVE  ListingInv'
<1>0. read \in [Stream -> Reads] /\ stream \in [Stream -> Streams]
  BY DEF TypeInv, TypeOK
<1>1. \A t \in Stream \ {s} : read'[t] = read[t] /\ stream'[t] = stream[t]
  BY <1>0
<1>2. stream'[s] = q
  BY <1>0
<1>3. Alone'
  <2> SUFFICES ASSUME NEW t \in Stream, NEW u \in Stream, t # u, stream'[t].dir # 0
               PROVE  stream'[u].dir # stream'[t].dir
    BY DEF Alone, Opened
  <2>1. CASE t = s
    BY <2>1, <1>1, <1>2
  <2>2. CASE u = s
    BY <2>2, <1>1, <1>2
  <2>3. CASE t # s /\ u # s
    BY <2>3, <1>1 DEF ListingInv, Alone, Opened
  <2> QED BY <2>1, <2>2, <2>3
<1>4. ASSUME NEW t \in Stream \ {s} PROVE Delivered(t)'
  <2>1. Delivered(t)
    BY DEF ListingInv
  <2>2. stream[t].pos # 0 => Opened(t)
    BY <2>1 DEF Delivered
  <2>3. /\ read[t].pc # "fill" /\ stream[t].pos # 0 /\ stream[t].got # stream[t].whole
             => <<stream[t].dir, stream[t].pos>> \in DOMAIN Rest
    BY <2>1 DEF Delivered
  <2>4. /\ read[t].pc # "fill" /\ stream[t].pos # 0 /\ stream[t].got # stream[t].whole
             => <<stream[t].dir, stream[t].pos>> \in DOMAIN Rest'
    BY <2>2, <2>3
  <2> QED BY <1>1, <2>1, <2>4 DEF Delivered, Opened
<1>5. Wanted'
  <2> SUFFICES ASSUME NEW key \in DOMAIN Rest' PROVE \E t \in Stream : Wants(t, key)'
    BY DEF Wanted
  <2>1. CASE Wants(s, key)'
    BY <2>1
  <2>2. CASE key \in DOMAIN Rest /\ Rest'[key] = Rest[key] /\ ~ Wants(s, key)
    <3>1. PICK t \in Stream : Wants(t, key)
      BY <2>2 DEF ListingInv, Wanted
    <3>2. t # s
      BY <3>1, <2>2
    <3>3. Wants(t, key)'
      BY <1>1, <2>2, <3>1, <3>2 DEF Wants, Opened
    <3> QED BY <3>3
  <2> QED BY <2>1, <2>2
<1> QED BY <1>3, <1>4, <1>5 DEF ListingInv

(* What is saved for a directory is wanted by its stream. *)
LEMMA SavedForStream ==
  ASSUME ListingInv, NEW s \in Stream, Opened(s), NEW key \in DOMAIN Rest,
         key[1] = stream[s].dir
  PROVE  Wants(s, key)
<1>1. PICK t \in Stream : Wants(t, key)
  BY DEF ListingInv, Wanted
<1>2. t = s
  BY <1>1 DEF ListingInv, Alone, Wants
<1> QED BY <1>1, <1>2

LEMMA NextListing ==
  ASSUME TypeInv, KindsRead, ListingInv, ReadPlainly, [Next]_vars
  PROVE  ListingInv'
<1>0. /\ DOMAIN saved = Kinds /\ DOMAIN Rest \subseteq Number \X Nat
      /\ \A key \in DOMAIN Rest : Rest[key] \in Seq(Number)
      /\ read \in [Stream -> Reads] /\ stream \in [Stream -> Streams]
  BY DEF TypeInv, TypeOK, ReadPlainly, Rest
<1>1. \A s \in Stream : read = [read EXCEPT ![s] = read[s]] /\ stream = [stream EXCEPT ![s] = stream[s]]
  BY <1>0
<1>2. \A s \in Stream : Delivered(s)
  BY DEF ListingInv
<1>3. \A s \in Stream : stream[s].dir # 0 => \A t \in Stream \ {s} : stream[t].dir # stream[s].dir
  BY DEF ListingInv, Alone, Opened
<1>4. /\ \A s \in Stream : \A r : read' = [read EXCEPT ![s] = r] => read'[s] = r
      /\ NoRead.pc = "idle"
  BY <1>0 DEF NoRead
<1>5. \A s \in Stream : \A q : stream' = [stream EXCEPT ![s] = q] => stream'[s] = q
  BY <1>0
<1>6. CASE UNCHANGED vars
  BY <1>6 DEF vars, ListingInv, Alone, Delivered, Wanted, Wants, Opened, Rest
<1>7. ASSUME NEW s \in Stream, NEW d \in Dir, Open(s, d) PROVE ListingInv'
  <2> DEFINE q == [Closed EXCEPT !.dir = d, !.opens = stream[s].opens + 1]
  <2>1. /\ stream[s].dir = 0 /\ read[s].pc = "idle"
        /\ \A other \in Stream \ {s} : stream[other].dir # d
        /\ stream' = [stream EXCEPT ![s] = q] /\ read' = [read EXCEPT ![s] = read[s]]
        /\ saved' = saved
    BY <1>7, <1>1 DEF Open, Opened, Resting, ReadPlainly
  <2>2. q.dir = d /\ q.pos = 0 /\ q.got = <<>> /\ q.whole = <<>> /\ q.end = FALSE
    BY DEF Closed
  <2> HIDE DEF q
  <2>3. stream'[s] = q /\ read'[s].pc = "idle"
    BY <2>1, <1>4, <1>5
  <2>4. Delivered(s)'
    BY <2>2, <2>3 DEF Delivered, Opened
  <2>5. Rest' = Rest /\ \A key \in DOMAIN Rest : ~ Wants(s, key)
    BY <2>1 DEF Rest, Wants, Opened
  <2> QED BY <2>1, <2>2, <2>4, <2>5, OneStream
<1>8. ASSUME NEW s \in Stream, Close(s) PROVE ListingInv'
  <2> DEFINE q == [Closed EXCEPT !.opens = stream[s].opens]
  <2>1. /\ stream[s].end /\ read[s].pc = "idle"
        /\ stream' = [stream EXCEPT ![s] = q] /\ read' = [read EXCEPT ![s] = read[s]]
        /\ saved' = saved
    BY <1>8, <1>1 DEF Close, Opened, Resting, ReadPlainly
  <2>2. q.dir = 0 /\ q.pos = 0 /\ q.got = <<>> /\ q.whole = <<>> /\ q.end = FALSE
    BY DEF Closed
  <2> HIDE DEF q
  <2>3. stream'[s] = q /\ read'[s].pc = "idle"
    BY <2>1, <1>4, <1>5
  <2>4. Delivered(s)'
    BY <2>2, <2>3 DEF Delivered, Opened
  <2>5. Rest' = Rest /\ \A key \in DOMAIN Rest : ~ Wants(s, key)
    BY <2>1 DEF Rest, Wants
  <2> QED BY <2>1, <2>2, <2>4, <2>5, OneStream
<1>9. ASSUME NEW s \in Stream, NEW kind \in Kinds, Ask(s, kind) PROVE ListingInv'
  <2> DEFINE r == [NoRead EXCEPT !.pc = "asked", !.kind = kind, !.offset = stream[s].pos]
  <2>1. /\ Opened(s) /\ read[s].pc = "idle" /\ ~ stream[s].end
        /\ stream' = [stream EXCEPT ![s] = stream[s]] /\ read' = [read EXCEPT ![s] = r]
        /\ saved' = saved
    BY <1>9, <1>1 DEF Ask, Resting
  <2>2. r.pc = "asked" /\ r.offset = stream[s].pos
    BY DEF NoRead
  <2> HIDE DEF r
  <2>3. stream'[s] = stream[s] /\ read'[s] = r /\ Rest' = Rest
    BY <2>1, <1>4, <1>5 DEF Rest
  <2>4. Delivered(s)'
    BY <2>1, <2>2, <2>3, <1>2 DEF Delivered, Opened
  <2>5. \A key \in DOMAIN Rest : Wants(s, key) => Wants(s, key)'
    BY <2>2, <2>3 DEF Wants, Opened
  <2> QED BY <2>1, <2>3, <2>4, <2>5, <1>3, OneStream
<1>10. ASSUME NEW s \in Stream, ReadError(s) PROVE ListingInv'
  <2>1. /\ read[s].pc = "asked" /\ read[s].offset = 0
        /\ stream' = [stream EXCEPT ![s] = stream[s]] /\ read' = [read EXCEPT ![s] = NoRead]
        /\ saved' = saved
    BY <1>10, <1>1 DEF ReadError, Asked
  <2>3. stream'[s] = stream[s] /\ read'[s].pc = "idle" /\ Rest' = Rest
    BY <2>1, <1>4, <1>5 DEF Rest
  <2>4. Delivered(s)'
    BY <2>1, <2>3, <1>2 DEF Delivered, Opened
  <2>5. \A key \in DOMAIN Rest : Wants(s, key) => Wants(s, key)'
    BY <2>3 DEF Wants, Opened
  <2> QED BY <2>1, <2>3, <2>4, <2>5, <1>3, OneStream
<1>11. ASSUME NEW s \in Stream, ReadListing(s) PROVE ListingInv'
  <2>1. /\ read[s].pc = "asked" /\ read[s].offset = 0 /\ saved' = saved
    BY <1>11 DEF ReadListing, Asked
  <2>2. stream[s].got = <<>> /\ stream[s].pos = 0 /\ ~ stream[s].end
    BY <2>1, <1>2 DEF Delivered
  <2>3. PICK listing \in Listings[stream[s].dir] :
          /\ read' = [read EXCEPT ![s].pc = "fill", ![s].iter = listing]
          /\ stream' = [stream EXCEPT ![s].whole = listing]
    BY <1>11, <2>2 DEF ReadListing
  <2>4. stream[s].dir \in Dir /\ Opened(s)
    BY <2>1, Fields DEF TypeInv, ReadsOfOpen
  <2>5. listing \in Seq(Number) /\ Len(listing) # 1
    BY <2>4, ListingType DEF ReadPlainly
  <2> DEFINE r == [read[s] EXCEPT !.pc = "fill", !.iter = listing]
             q == [stream[s] EXCEPT !.whole = listing]
  <2>6. read' = [read EXCEPT ![s] = r] /\ stream' = [stream EXCEPT ![s] = q]
    BY <2>3, <1>0 DEF Reads, Streams
  <2>7. /\ r.pc = "fill" /\ r.iter = listing /\ r.offset = 0
        /\ q.dir = stream[s].dir /\ q.pos = 0 /\ q.got = <<>> /\ q.whole = listing
        /\ ~ q.end
    BY <1>0, <2>1, <2>2 DEF Reads, Streams
  <2> HIDE DEF r, q
  <2>8. stream'[s] = q /\ read'[s] = r /\ Rest' = Rest
    BY <2>1, <2>6, <1>4, <1>5 DEF Rest
  <2>9. <<>> \o listing = listing
    BY <2>5, ConcatEmptySeq
  <2>10. Delivered(s)'
    BY <2>4, <2>5, <2>7, <2>8, <2>9 DEF Delivered, Opened
  <2>11. \A key \in DOMAIN Rest : ~ Wants(s, key)
    BY <2>2 DEF Wants
  <2>12. q.dir # 0 => \A t \in Stream \ {s} : stream[t].dir # q.dir
    BY <2>7, <1>3
  <2> QED BY <2>6, <2>8, <2>10, <2>11, <2>12, OneStream
<1>12. ASSUME NEW s \in Stream, TakeSaved(s) PROVE ListingInv'
  <2> DEFINE key == <<stream[s].dir, read[s].offset>>
             r == [read[s] EXCEPT !.pc = "fill", !.iter = Rest[key]]
  <2>1. /\ read[s].pc = "asked" /\ read[s].offset # 0 /\ read[s].kind \in Kinds
        /\ stream' = [stream EXCEPT ![s] = stream[s]]
    BY <1>12, <1>1 DEF TakeSaved, Asked, KindsRead
  <2>2. read[s].kind = "readdir"
    BY <2>1 DEF ReadPlainly
  <2>3. /\ key \in DOMAIN Rest
        /\ read' = [read EXCEPT ![s].pc = "fill", ![s].iter = Rest[key]]
        /\ saved' = [saved EXCEPT !["readdir"] = Restrict(@, DOMAIN @ \ {key})]
    BY <1>12, <2>2 DEF TakeSaved, Rest
  <2>4. read' = [read EXCEPT ![s] = r]
    BY <2>3, <1>0 DEF Reads
  <2>5. r.pc = "fill" /\ r.iter = Rest[key] /\ r.offset = read[s].offset
    BY <1>0 DEF Reads
  <2> HIDE DEF r
  <2>6. stream'[s] = stream[s] /\ read'[s] = r
    BY <2>1, <2>4, <1>4, <1>5
  <2>7. stream[s].pos = read[s].offset /\ Opened(s) /\ key[1] = stream[s].dir
    BY <2>1, <1>2 DEF Delivered, TypeInv, ReadsOfOpen
  <2>8. Wants(s, key)
    BY <2>3, <2>7, SavedForStream
  <2>9. Rest' = [x \in DOMAIN Rest \ {key} |-> Rest[x]]
    BY <2>3, <1>0 DEF Rest, Restrict, ReadPlainly
  <2>10. Delivered(s)'
    BY <2>1, <2>5, <2>6, <2>7, <2>8, <1>2 DEF Delivered, Opened, Wants
  <2>11. ASSUME NEW x \in DOMAIN Rest' PROVE x \in DOMAIN Rest /\ Rest'[x] = Rest[x] /\ ~ Wants(s, x)
    <3>1. x \in DOMAIN Rest /\ x # key /\ Rest'[x] = Rest[x]
      BY <2>9
    <3>2. x = <<x[1], x[2]>>
      BY <3>1, <1>0
    <3>3. ~ Wants(s, x)
      BY <3>1, <3>2, <2>7 DEF Wants
    <3> QED BY <3>1, <3>3
  <2>12. \A t \in Stream \ {s} : \A x \in DOMAIN Rest :
           Opened(t) /\ x[1] = stream[t].dir => x \in DOMAIN Rest'
    BY <2>7, <2>9, <1>3 DEF Opened
  <2> HIDE DEF key
  <2> QED BY <2>1, <2>4, <2>10, <2>11, <2>12, <1>3, OneStream
<1>13. ASSUME NEW s \in Stream, NothingSaved(s) PROVE ListingInv'
  <2> DEFINE q == [stream[s] EXCEPT !.end = TRUE]
  <2>1. /\ read[s].pc = "asked" /\ read[s].offset # 0 /\ read[s].kind \in Kinds
        /\ read' = [read EXCEPT ![s] = NoRead] /\ stream' = [stream EXCEPT ![s].end = TRUE]
        /\ saved' = saved /\ <<stream[s].dir, read[s].offset>> \notin DOMAIN saved[read[s].kind]
    BY <1>13 DEF NothingSaved, Asked, KindsRead
  <2>2. /\ stream' = [stream EXCEPT ![s] = q]
        /\ q.dir = stream[s].dir /\ q.pos = stream[s].pos /\ q.got = stream[s].got
        /\ q.whole = stream[s].whole /\ q.end
    BY <2>1, <1>0 DEF Streams
  <2>3. <<stream[s].dir, stream[s].pos>> \notin DOMAIN Rest /\ stream[s].pos # 0
    BY <2>1, <1>2 DEF Delivered, Rest, ReadPlainly
  <2>4. stream[s].got = stream[s].whole /\ Opened(s)
    BY <2>1, <2>3, <1>2 DEF Delivered, TypeInv, ReadsOfOpen
  <2> HIDE DEF q
  <2>5. stream'[s] = q /\ read'[s].pc = "idle" /\ Rest' = Rest
    BY <2>1, <2>2, <1>4, <1>5 DEF Rest
  <2>6. Delivered(s)'
    BY <2>2, <2>3, <2>4, <2>5, <1>2 DEF Delivered, Opened
  <2>7. \A key \in DOMAIN Rest : ~ Wants(s, key)
    <3> SUFFICES ASSUME NEW key \in DOMAIN Rest, Wants(s, key) PROVE FALSE
      OBVIOUS
    <3>1. key = <<key[1], key[2]>>
      BY <1>0
    <3> QED BY <3>1, <2>3 DEF Wants
  <2>8. q.dir # 0 => \A t \in Stream \ {s} : stream[t].dir # q.dir
    BY <2>2, <1>3
  <2> QED BY <2>1, <2>2, <2>5, <2>6, <2>7, <2>8, OneStream
<1>14. ASSUME NEW s \in Stream, NEW n \in 0 .. MaxGot, Fill(s, n) PROVE ListingInv'
  <2> DEFINE iter == read[s].iter
             given == SubSeq(iter, 1, n)
             left == SubSeq(iter, n + 1, Len(iter))
             pos == IF n = 0 THEN stream[s].pos ELSE Cookie(read[s].offset, n)
             place == <<stream[s].dir, Cookie(read[s].offset, n)>>
             q == [stream[s] EXCEPT !.got = @ \o given, !.pos = pos, !.end = (n = 0)]
  <2>1. /\ read[s].pc = "fill" /\ n \in 0 .. Len(iter) /\ (n >= MinFit \/ left = <<>>)
        /\ saved' = IF left = <<>> THEN saved ELSE Save(s, n, left)
        /\ read' = [read EXCEPT ![s] = NoRead]
        /\ stream' = [stream EXCEPT
             ![s].got = @ \o SubSeq(iter, 1, n),
             ![s].pos = IF n = 0 THEN @ ELSE Cookie(read[s].offset, n),
             ![s].end = (n = 0)]
    BY <1>14 DEF Fill
  <2>2. /\ iter \in Seq(Number) /\ stream[s].got \in Seq(Number) /\ read[s].offset \in Nat
        /\ read[s].kind \in Kinds
    BY <2>1, Fields DEF KindsRead
  <2>3. /\ given \in Seq(Number) /\ left \in Seq(Number) /\ given \o left = iter
        /\ n = 0 <=> given = <<>>
        /\ n = Len(iter) <=> left = <<>>
    BY <2>1, <2>2, Cut
  <2>4. /\ stream[s].pos = read[s].offset /\ Opened(s) /\ ~ stream[s].end
        /\ stream[s].whole = stream[s].got \o iter
        /\ stream[s].pos = 0 => Len(iter) # 1
        /\ stream[s].pos = 0 <=> stream[s].got = <<>>
    BY <2>1, <1>2 DEF Delivered, TypeInv, ReadsOfOpen
  <2>5. stream' = [stream EXCEPT ![s] = q]
    BY <2>1, <1>0 DEF Streams
  <2> HIDE DEF iter, given, left
  <2>6. /\ q.dir = stream[s].dir /\ q.pos = pos /\ q.got = stream[s].got \o given
        /\ q.whole = stream[s].whole /\ q.end = (n = 0)
    BY <1>0 DEF Streams
  <2>7. left # <<>> => n >= 2
    BY <2>1, <2>2, DirStreamAssumption DEF ReadPlainly
  <2>8. stream[s].pos = 0 => n # 1
    <3>1. n = 1 => left = <<>>
      BY <2>7
    <3>2. left = <<>> => n = Len(iter)
      BY <2>3
    <3> QED BY <2>4, <3>1, <3>2
  <2>9. stream[s].whole = q.got \o left
    <3>1. \A u, v, w \in Seq(Number) : (u \o v) \o w = u \o (v \o w)
      BY ConcatAssociative
    <3>2. (stream[s].got \o given) \o left = stream[s].got \o (given \o left)
      BY <2>2, <2>3, <3>1
    <3> HIDE DEF q
    <3>3. stream[s].whole = stream[s].got \o (given \o left)
      BY <2>3, <2>4
    <3> QED BY <2>6, <3>2, <3>3
  <2>10. q.got = <<>> <=> stream[s].got = <<>> /\ n = 0
    BY <2>2, <2>3, <2>6, ConcatEqualIffEmpty
  <2>11. pos \in Nat /\ (pos = 0 <=> q.got = <<>>)
    BY <2>2, <2>4, <2>8, <2>10 DEF Cookie
  <2>12. left = <<>> => q.got = q.whole
    <3>1. q.got \in Seq(Number)
      BY <2>2, <2>3, <2>6, ConcatProperties
    <3> QED BY <3>1, <2>6, <2>9, ConcatEmptySeq
  <2>13. n = 0 => left = <<>>
    BY <2>7
  <2>14. \A key \in DOMAIN Rest : key[1] # stream[s].dir /\ ~ Wants(s, key)
    BY <2>1, <2>4, SavedForStream DEF Wants
  <2> HIDE DEF q
  <2>15. q.dir # 0 => \A t \in Stream \ {s} : stream[t].dir # q.dir
    BY <2>6, <1>3
  <2>16. stream'[s] = q /\ read'[s].pc = "idle"
    BY <2>1, <2>5, <1>4, <1>5
  <2>17. CASE left = <<>>
    <3>1. Rest' = Rest
      BY <2>17, <2>1 DEF Rest
    <3> HIDE DEF pos
    <3>2. Delivered(s)'
      BY <2>17, <2>4, <2>6, <2>11, <2>12, <2>16 DEF Delivered, Opened
    <3> QED BY <3>1, <3>2, <2>1, <2>5, <2>14, <2>15, OneStream
  <2>18. CASE left # <<>>
    <3>1. n # 0 /\ pos = Cookie(read[s].offset, n) /\ place = <<stream[s].dir, pos>>
      BY <2>18, <2>13
    <3> HIDE DEF pos
    <3>2. KeyInode(s, left) = stream[s].dir /\ read[s].kind = "readdir"
      BY <2>2 DEF KeyInode, ReadPlainly
    <3>3. Rest' = [key \in DOMAIN Rest \cup {place} |-> IF key = place THEN left ELSE Rest[key]]
      BY <2>18, <3>2, <2>1, <1>0 DEF Save, Rest, ReadPlainly
    <3> HIDE DEF place
    <3>4. DOMAIN Rest' = DOMAIN Rest \cup {place} /\ Rest'[place] = left
          /\ \A key \in DOMAIN Rest \ {place} : Rest'[key] = Rest[key]
      BY <3>3
    <3>5. place[1] = stream[s].dir /\ place[2] = pos
      BY <3>1
    <3>6. place \notin DOMAIN Rest
      BY <3>5, <2>14
    <3>7. Delivered(s)'
      BY <3>1, <3>4, <2>4, <2>6, <2>11, <2>16 DEF Delivered, Opened
    <3>8. pos # 0 /\ ~ q.end
      BY <3>1, <2>6, <2>10, <2>11
    <3>9. \A key \in DOMAIN Rest' : key = place => Wants(s, key)'
      BY <3>4, <3>5, <3>8, <2>4, <2>6, <2>9, <2>16 DEF Wants, Opened
    <3>10. \A key \in DOMAIN Rest' :
           \/ Wants(s, key)'
           \/ key \in DOMAIN Rest /\ Rest'[key] = Rest[key] /\ ~ Wants(s, key)
      BY <3>4, <3>6, <3>9, <2>14
    <3> QED BY <3>4, <3>7, <3>10, <2>1, <2>5, <2>15, OneStream
  <2> QED BY <2>17, <2>18
<1> QED
  BY <1>6, <1>7, <1>8, <1>9, <1>10, <1>11, <1>12, <1>13, <1>14 DEF Next, Serve

(* The inductive invariant of plain reads. *)
LEMMA ListingAlways ==
  ASSUME ReadPlainly
  PROVE  Spec => [](TypeInv /\ ListingInv)
<1>1. Init => TypeInv /\ KindsRead /\ ListingInv
  BY InitTypes, InitListing DEF Init, KindsRead, NoRead
<1>2. TypeInv /\ KindsRead /\ ListingInv /\ [Next]_vars => (TypeInv /\ KindsRead /\ ListingInv)'
  BY NextTypes, NextListing
<1> QED BY <1>1, <1>2, PTL DEF Spec

(* However long the listings are, however many streams read them and
   wherever the buffers cut them: a stream is given the beginning of its
   listing, in order, no entry twice and none skipped
   (src/src/core/macros.rs:153). *)
THEOREM GivenInOrder ==
  ASSUME ReadPlainly
  PROVE  Spec => []InOrder
<1>1. TypeInv /\ ListingInv => InOrder
  <2> SUFFICES ASSUME TypeInv, ListingInv, NEW s \in Stream
               PROVE  IsPrefix(stream[s].got, stream[s].whole)
    BY DEF InOrder
  <2>1. /\ stream[s].got \in Seq(Number) /\ stream[s].whole \in Seq(Number)
        /\ read[s].iter \in Seq(Number) /\ Delivered(s)
    BY Fields DEF ListingInv
  <2>2. stream[s].got = stream[s].whole => stream[s].whole = stream[s].got \o <<>>
    BY <2>1, ConcatEmptySeq
  <2>3. stream[s].got = <<>> => stream[s].whole = stream[s].got \o stream[s].whole
    BY <2>1, ConcatEmptySeq
  <2>4. CASE read[s].pc = "fill"
    BY <2>1, <2>4, PrefixOfConcat DEF Delivered
  <2>5. CASE stream[s].got = stream[s].whole
    BY <2>1, <2>2, <2>5, EmptySeq, PrefixOfConcat
  <2>6. CASE stream[s].got = <<>>
    BY <2>1, <2>3, <2>6, PrefixOfConcat
  <2>7. CASE read[s].pc # "fill" /\ stream[s].got # stream[s].whole /\ stream[s].got # <<>>
    <3> DEFINE key == <<stream[s].dir, stream[s].pos>>
    <3>1. key \in DOMAIN Rest /\ Opened(s) /\ key[1] = stream[s].dir
      BY <2>1, <2>7 DEF Delivered
    <3>2. stream[s].whole = stream[s].got \o Rest[key]
      BY <3>1, SavedForStream DEF Wants
    <3>3. Rest[key] \in Seq(Number)
      <4>1. CASE "readdir" \in Kinds
        BY <3>1, <4>1 DEF TypeInv, TypeOK, Rest
      <4> QED BY <4>1, ReadPlainly DEF ReadPlainly
    <3> QED BY <2>1, <3>2, <3>3, PrefixOfConcat
  <2> QED BY <2>4, <2>5, <2>6, <2>7
<1> QED BY <1>1, ListingAlways, PTL

(* A stream that is told it is at the end was given the whole listing: the
   entries that did not fit a reply are never lost
   (src/src/core/macros.rs:153). *)
THEOREM GivenWhole ==
  ASSUME ReadPlainly
  PROVE  Spec => []Complete
<1>1. ListingInv => Complete
  BY DEF ListingInv, Delivered, Complete
<1> QED BY <1>1, ListingAlways, PTL

(* Every saved entry is what one open stream asks for next: the table keeps
   nothing for a later stream to find (src/src/core/macros.rs:171). *)
THEOREM NothingLeftBehind ==
  ASSUME ReadPlainly
  PROVE  Spec => []SavedIsWanted
<1>1. ListingInv => SavedIsWanted
  BY ReadPlainly DEF ReadPlainly, ListingInv, Wanted, Wants, SavedIsWanted, Rest
<1> QED BY <1>1, ListingAlways, PTL
=============================================================================
