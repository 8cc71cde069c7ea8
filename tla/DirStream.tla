------------------------------ MODULE DirStream ------------------------------
(***************************************************************************)
(* Reading a directory in pieces: handle_dir_read! of                      *)
(* src/src/core/macros.rs, which FuseDriver uses for readdir and for       *)
(* readdirplus.                                                            *)
(*                                                                         *)
(* A read at offset 0 asks the file system for the whole listing; what     *)
(* does not fit the reply is saved in a table of the driver, from which    *)
(* the read at a later offset takes it.  A table is keyed by an inode and  *)
(* an offset, not by the open directory; there is one per kind of read.    *)
(*                                                                         *)
(* The kernel and the program that lists a directory are the environment:  *)
(* an open stream reads on from the cookie of the last entry it got, one   *)
(* read at a time, until a reply is empty.  An entry is its inode number.  *)
(***************************************************************************)
EXTENDS Integers, Sequences, FiniteSets, SequencesExt

CONSTANTS Stream,   \* what a program has opened with opendir
          Listings, \* directory -> the listings its file system may answer
          Kinds,    \* the kinds of read the kernel sends
          MinFit,   \* entries that fit every reply (a page, at least)
          Shared,   \* two streams may be open on one directory
          Abandons, \* a stream may be rewound or closed in the middle
          MaxGot,   \* bound on what one stream is given
          MaxOpens  \* bound on how often a stream is opened or rewound

Dir == DOMAIN Listings
Number == Dir \cup UNION {UNION {ToSet(l) : l \in Listings[d]} : d \in Dir}

ASSUME DirStreamAssumption ==
  /\ Kinds \subseteq {"readdir", "readdirplus"}
  /\ \A d \in Dir : Listings[d] \subseteq Seq(Nat)
  /\ Shared \in BOOLEAN /\ Abandons \in BOOLEAN
  /\ MinFit \in Nat \ {0}
  /\ MaxGot \in Nat /\ MaxOpens \in Nat

VARIABLES saved,   \* dirmap_iter and dirmapplus_iter: <<inode, offset>> -> entries
          read,    \* the read of each stream that is under way
          stream   \* the streams, as their program sees them

vars == <<saved, read, stream>>

NoRead == [pc |-> "idle", kind |-> "readdir", offset |-> 0, iter |-> <<>>]
Closed == [dir |-> 0, pos |-> 0, whole |-> <<>>, got |-> <<>>, end |-> FALSE,
           opens |-> 0]

Reads == [pc : {"idle", "asked", "fill"}, kind : {"readdir", "readdirplus"},
          offset : Nat, iter : Seq(Number)]
Streams == [dir : Dir \cup {0}, pos : Nat, whole : Seq(Number),
            got : Seq(Number), end : BOOLEAN, opens : 0 .. MaxOpens]

TypeOK ==
  /\ DOMAIN saved = Kinds
  /\ \A k \in Kinds : /\ DOMAIN saved[k] \subseteq Number \X Nat
                      /\ \A key \in DOMAIN saved[k] : saved[k][key] \in Seq(Number)
  /\ read \in [Stream -> Reads]
  /\ stream \in [Stream -> Streams]

Init ==
  /\ saved = [k \in Kinds |-> <<>>]
  /\ read = [s \in Stream |-> NoRead]
  /\ stream = [s \in Stream |-> Closed]

Opened(s) == stream[s].dir # 0
Resting(s) == read[s].pc = "idle"

-----------------------------------------------------------------------------
(* The program and the kernel. *)

(* opendir, and rewinddir on an open stream. *)
Open(s, d) ==
  /\ ~ Opened(s) \/ (Abandons /\ stream[s].dir = d)
  /\ Resting(s)
  /\ stream[s].opens < MaxOpens
  /\ Shared \/ \A other \in Stream \ {s} : stream[other].dir # d
  /\ stream' = [stream EXCEPT ![s] = [Closed EXCEPT !.dir = d,
                                             !.opens = stream[s].opens + 1]]
  /\ UNCHANGED <<saved, read>>

(* releasedir, which leaves the saved entries alone. *)
Close(s) ==
  /\ Opened(s) /\ Resting(s)
  /\ Abandons \/ stream[s].end
  /\ stream' = [stream EXCEPT ![s] = [Closed EXCEPT !.opens = stream[s].opens]]
  /\ UNCHANGED <<saved, read>>

(* A read at the position of the stream.  The kernel sends no negative
   offset, which the driver would answer with InvalidArgument. *)
Ask(s, kind) ==
  /\ Opened(s) /\ Resting(s) /\ ~ stream[s].end
  /\ Len(stream[s].got) < MaxGot
  /\ read' = [read EXCEPT ![s] = [NoRead EXCEPT !.pc = "asked", !.kind = kind,
                                               !.offset = stream[s].pos]]
  /\ UNCHANGED <<saved, stream>>

-----------------------------------------------------------------------------
(* The task of a read. *)

Asked(s) == read[s].pc = "asked"

(* The handler answers with a listing.  whole remembers the first one a
   stream was answered, which is what its program should see. *)
ReadListing(s) ==
  /\ Asked(s) /\ read[s].offset = 0
  /\ \E listing \in Listings[stream[s].dir] :
       /\ read' = [read EXCEPT ![s].pc = "fill", ![s].iter = listing]
       /\ stream' = IF stream[s].got = <<>>
                    THEN [stream EXCEPT ![s].whole = listing] ELSE stream
  /\ UNCHANGED saved

(* The handler fails; the program sees an error and the stream stays. *)
ReadError(s) ==
  /\ Asked(s) /\ read[s].offset = 0
  /\ read' = [read EXCEPT ![s] = NoRead]
  /\ UNCHANGED <<saved, stream>>

(* Mutant: the entries are read but stay in the table. *)
TakeSavedKeeps(s) ==
  LET kind == read[s].kind
      key  == <<stream[s].dir, read[s].offset>>
  IN  /\ Asked(s) /\ read[s].offset # 0
      /\ key \in DOMAIN saved[kind]
      /\ read' = [read EXCEPT ![s].pc = "fill", ![s].iter = saved[kind][key]]
      /\ UNCHANGED <<saved, stream>>

(* First lock section: the saved entries leave the table. *)
TakeSaved(s) ==
  LET kind == read[s].kind
      key  == <<stream[s].dir, read[s].offset>>
  IN  /\ Asked(s) /\ read[s].offset # 0
      /\ key \in DOMAIN saved[kind]
      /\ read' = [read EXCEPT ![s].pc = "fill", ![s].iter = saved[kind][key]]
      /\ saved' = [saved EXCEPT ![kind] = Restrict(@, DOMAIN @ \ {key})]
      /\ UNCHANGED stream

(* Nothing saved: an empty reply, "when fuse tries to read again after the
   final item". *)
NothingSaved(s) ==
  /\ Asked(s) /\ read[s].offset # 0
  /\ <<stream[s].dir, read[s].offset>> \notin DOMAIN saved[read[s].kind]
  /\ read' = [read EXCEPT ![s] = NoRead]
  /\ stream' = [stream EXCEPT ![s].end = TRUE]
  /\ UNCHANGED saved

(* Mutant: the offset counts back from the end of the reply. *)
CookieFromSize(offset, n) == offset - n

(* Mutant: every entry of a reply has the offset of the read. *)
CookieStays(offset, n) == offset

(* The cookie of the n-th entry of a reply to a read at an offset. *)
Cookie(offset, n) == offset + n - 1

(* Mutant: always under the number of the entry that did not fit. *)
KeyInodeEntry(s, left) == Head(left)

(* What is left is saved under the directory's number by readdir.  In
   readdirplus, `ino` is by then the number of the entry that did not fit. *)
KeyInode(s, left) ==
  IF read[s].kind = "readdir" THEN stream[s].dir ELSE Head(left)

Save(s, n, left) ==
  [saved EXCEPT ![read[s].kind] =
     [key \in DOMAIN @ \cup {<<KeyInode(s, left), Cookie(read[s].offset, n)>>} |->
        IF key = <<KeyInode(s, left), Cookie(read[s].offset, n)>>
        THEN left ELSE @[key]]]

(* Mutant: the entry that did not fit is not put back. *)
FillDrops(s, n) ==
  LET iter == read[s].iter
      left == SubSeq(iter, n + 2, Len(iter))
  IN  /\ read[s].pc = "fill"
      /\ n \in 0 .. Len(iter)
      /\ n >= MinFit \/ n = Len(iter)
      /\ saved' = IF n = Len(iter) THEN saved ELSE Save(s, n, left)
      /\ stream' = [stream EXCEPT
           ![s].got = @ \o SubSeq(iter, 1, n),
           ![s].pos = IF n = 0 THEN @ ELSE Cookie(read[s].offset, n),
           ![s].end = (n = 0)]
      /\ read' = [read EXCEPT ![s] = NoRead]

(* The reply takes n entries, MinFit of them if there are, and the rest is
   saved in a second lock section; the stream stands at the last cookie.  A
   reply without entries ends the stream. *)
Fill(s, n) ==
  LET iter == read[s].iter
      left == SubSeq(iter, n + 1, Len(iter))
  IN  /\ read[s].pc = "fill"
      /\ n \in 0 .. Len(iter)
      /\ n >= MinFit \/ left = <<>>
      /\ saved' = IF left = <<>> THEN saved ELSE Save(s, n, left)
      /\ stream' = [stream EXCEPT
           ![s].got = @ \o SubSeq(iter, 1, n),
           ![s].pos = IF n = 0 THEN @ ELSE Cookie(read[s].offset, n),
           ![s].end = (n = 0)]
      /\ read' = [read EXCEPT ![s] = NoRead]

Serve(s) ==
  \/ ReadListing(s)
  \/ TakeSaved(s)
  \/ NothingSaved(s)
  \/ \E n \in 0 .. MaxGot : Fill(s, n)

Next ==
  \E s \in Stream :
    \/ \E d \in Dir : Open(s, d)
    \/ Close(s)
    \/ \E kind \in Kinds : Ask(s, kind)
    \/ ReadError(s)
    \/ Serve(s)

Spec == Init /\ [][Next]_vars

(* A program that lists a directory reads on, a read that was taken is
   answered, and the handler does not fail for ever. *)
FairSpec ==
  /\ Spec
  /\ \A s \in Stream : /\ SF_vars(Serve(s))
                       /\ WF_vars(\E kind \in Kinds : Ask(s, kind))
-----------------------------------------------------------------------------
(* What a stream was given is the beginning of the listing it was opened on:
   no entry twice, none skipped, none of another directory or of an older
   listing, however the buffers cut it and whatever other streams read. *)
InOrder == \A s \in Stream : IsPrefix(stream[s].got, stream[s].whole)

(* A stream that was told it is at its end was given the whole listing: an
   offset with nothing saved is the one after the final item
   (src/src/core/macros.rs:153). *)
Complete == \A s \in Stream : stream[s].end => stream[s].got = stream[s].whole

(* Saved entries are what an open stream still has to get, at the position
   it will ask for: nothing is left behind for a later stream to find. *)
SavedIsWanted ==
  \A k \in Kinds : \A key \in DOMAIN saved[k] :
    \E s \in Stream : /\ stream[s].dir = key[1] /\ stream[s].pos = key[2]
                      /\ stream[s].whole = stream[s].got \o saved[k][key]

(* A listing ends: a program that reads on comes to the end of the directory
   or has closed or rewound the stream. *)
ListingEnds ==
  \A s \in Stream : Opened(s) ~> (stream[s].end \/ ~ Opened(s))
=============================================================================
