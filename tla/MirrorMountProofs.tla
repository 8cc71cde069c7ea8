-------------------------- MODULE MirrorMountProofs --------------------------
(***************************************************************************)
(* A mounted MirrorFs, for any number of processes and threads and every   *)
(* bound, continued.  Each layer is an invariant that relies on those      *)
(* before it: what names lead to (Names), who owns the descriptors         *)
(* (Owned), which numbers stay (Alive), which file a request that waits or *)
(* runs will reach (Right), and what handles mean (Handled).               *)
(***************************************************************************)
EXTENDS MirrorMountBaseProofs

-----------------------------------------------------------------------------
(* What names lead to. *)

(* A request that has changed the host's names and is not answered yet. *)
Changed(r) ==
  /\ r.step = "running" /\ r.lock = "exclusive"
  /\ Left(r.script) \cap (Renaming \cup Never) = {}

NamesKnown ==
  \A n \in Name :
    dent[n] # 0 /\ (\A e \in Caller : Changed(call[e]) => n \notin Changes(call[e]))
      => host.entry[n] = means[dent[n]]

ReplacedBy(r, e, d, m) ==
  Changed(r) =>
    /\ r.reply \in {"removed", "renamed"} => e[r.name] = NoNode
    /\ r.reply = "renamed" => e[r.newname] = m[d[r.name]]
Replaced == \A c \in Caller : ReplacedBy(call[c], host.entry, dent, means)

Names == NamesKnown /\ Replaced

(* The kernel remembers what its names stand for. *)
LEMMA RecallMeans ==
  ASSUME NEW d, NEW m, NEW fs, Recall(d, m, fs), NEW n \in Name, d[n] \in 1 .. MaxInode
  PROVE  dent'[n] = d[n] /\ means'[d[n]] = m[d[n]]
BY DEF Recall, Held

(* The number of a name is a number. *)
LEMMA DentNumbers ==
  ASSUME Base, NEW n \in Name, dent[n] # 0
  PROVE  dent[n] \in 1 .. MaxInode
BY RootIs DEF Base, Mapped

(* Names after a step, in terms of the new values. *)
LEMMA NamesPrimed ==
  ASSUME \A n \in Name :
           dent'[n] # 0 /\ (\A e \in Caller : Changed(call'[e]) => n \notin Changes(call'[e]))
             => host'.entry[n] = means'[dent'[n]],
         \A c \in Caller : ReplacedBy(call'[c], host'.entry, dent', means')
  PROVE  Names'
<1>1. \A e \in Caller : Changed(call[e])' <=> Changed(call'[e])
  BY DEF Changed, Left, Renaming, Never
<1>2. \A e \in Caller : Changes(call[e])' = Changes(call'[e])
  BY DEF Changes
<1>3. NamesKnown'
  BY <1>1, <1>2, ConstantLater DEF NamesKnown
<1>4. \A c \in Caller : ReplacedBy(call[c], host.entry, dent, means)'
  BY <1>1 DEF ReplacedBy
<1>. QED
  BY <1>3, <1>4, ConstantLater DEF Names, Replaced

(* Being raced changes nothing about names. *)
LEMMA ChangedButRaced ==
  ASSUME NEW r, NEW q, ButRaced(r, q)
  PROVE  /\ Changed(q) <=> Changed(r)
         /\ Changes(q) = Changes(r)
         /\ \A e, d, m : ReplacedBy(r, e, d, m) <=> ReplacedBy(q, e, d, m)
BY DEF ButRaced, Changed, Changes, ReplacedBy

(* A process without a request has changed nothing. *)
LEMMA NoCallUnchanged == ~ Changed(NoCall)
BY NoCallReplies DEF NoReply, Changed

(* Nothing is answered, and no request comes to have changed a name. *)
LEMMA NamesKept ==
  ASSUME Base, Names, UNCHANGED <<dent, means>>, host'.entry = host.entry,
         \A d \in Caller : /\ Changed(call'[d]) <=> Changed(call[d])
                           /\ Changed(call[d]) =>
                                Changes(call'[d]) = Changes(call[d])
                                /\ call'[d].reply = call[d].reply
                                /\ call'[d].name = call[d].name
                                /\ call'[d].newname = call[d].newname
  PROVE  Names'
<1>1. ASSUME NEW d \in Caller PROVE ReplacedBy(call'[d], host'.entry, dent', means')
  <2>1. ReplacedBy(call[d], host.entry, dent, means)
    BY DEF Names, Replaced
  <2>. QED
    BY <2>1 DEF ReplacedBy
<1>2. ASSUME NEW n \in Name, dent'[n] # 0,
             \A e \in Caller : Changed(call'[e]) => n \notin Changes(call'[e])
      PROVE  host'.entry[n] = means'[dent'[n]]
  <2>1. \A e \in Caller : Changed(call[e]) => n \notin Changes(call[e])
    BY <1>2
  <2>. QED
    BY <1>2, <2>1 DEF Names, NamesKnown
<1>. QED
  BY <1>1, <1>2, NamesPrimed

(* A request ends, with what the kernel makes of it. *)
LEMMA NamesEnd ==
  ASSUME Base, Names, NEW c \in Caller, call'[c] = NoCall,
         \A d \in Caller : d # c => call'[d] = call[d], host'.entry = host.entry,
         \A n \in Name : dent'[n] # 0 =>
           \/ /\ dent'[n] = dent[n] /\ means'[dent[n]] = means[dent[n]]
              /\ Changed(call[c]) => n \notin Changes(call[c])
           \/ host.entry[n] = means'[dent'[n]],
         \/ call[c].lock # "none"
         \/ \A n \in Name : dent'[n] = dent[n] /\ (dent[n] # 0 => means'[dent[n]] = means[dent[n]])
  PROVE  Names'
<1>1. ASSUME NEW d \in Caller PROVE ReplacedBy(call'[d], host'.entry, dent', means')
  <2>1. CASE d = c \/ ~ Changed(call[d])
    BY <2>1, NoCallUnchanged DEF ReplacedBy
  <2>2. CASE d # c /\ Changed(call[d])
    <3>1. ReplacedBy(call[d], host.entry, dent, means)
      BY DEF Names, Replaced
    <3>2. call[d].lock = "exclusive"
      BY <2>2 DEF Changed
    <3>3. call[c].lock = "none"
      BY <2>2, <3>2 DEF Base, Locked
    <3>4. call[d].reply = "renamed" => call[d].name \in Name /\ dent[call[d].name] # 0
      BY LockedReply DEF Base, Mapped
    <3>5. call[d].reply = "renamed" => means'[dent'[call[d].name]] = means[dent[call[d].name]]
      BY <3>3, <3>4
    <3>. QED
      BY <2>2, <3>1, <3>5 DEF ReplacedBy
  <2>. QED
    BY <2>1, <2>2
<1>2. ASSUME NEW n \in Name, dent'[n] # 0,
             \A e \in Caller : Changed(call'[e]) => n \notin Changes(call'[e])
      PROVE  host'.entry[n] = means'[dent'[n]]
  <2>1. CASE host.entry[n] = means'[dent'[n]]
    BY <2>1
  <2>2. CASE /\ dent'[n] = dent[n] /\ means'[dent[n]] = means[dent[n]]
             /\ Changed(call[c]) => n \notin Changes(call[c])
    <3>1. \A e \in Caller : Changed(call[e]) => n \notin Changes(call[e])
      BY <1>2, <2>2
    <3>. QED
      BY <1>2, <2>2, <3>1 DEF Names, NamesKnown
  <2>. QED
    BY <1>2, <2>1, <2>2
<1>. QED
  BY <1>1, <1>2, NamesPrimed

(* Names, after sending. *)
LEMMA NamesSent ==
  ASSUME Base, Names, NEW c \in Caller, NEW q, SendStep(c, q)
  PROVE  Names'
<1>1. call'[c] = q /\ call[c] = NoCall /\ \A d \in Caller : d # c => call'[d] = call[d]
  BY SentCalls DEF Base
<1>2. ~ Changed(q) /\ ~ Changed(call[c]) /\ UNCHANGED <<host, dent, means>>
  BY <1>1, NoCallUnchanged DEF SendStep, Sent, Changed
<1>. QED
  BY <1>1, <1>2, NamesKept

(* Names, when a number is lost. *)
LEMMA NamesLost ==
  ASSUME Base, Names, NEW c \in Caller, BeginLost(c)
  PROVE  Names'
<1>1. call'[c] = NoCall /\ \A d \in Caller : d # c => call'[d] = call[d]
  BY DEF BeginLost, Base, Shaped
<1>2. ~ Changed(call[c]) /\ ~ Changed(NoCall) /\ UNCHANGED <<host, dent, means>>
  BY NoCallUnchanged DEF BeginLost, Takes, Changed
<1>. QED
  BY <1>1, <1>2, NamesKept

(* Names, after a begin. *)
LEMMA NamesBegin ==
  ASSUME Base, Names, NEW c \in Caller, NEW q, BeginForm(c, q)
  PROVE  Names'
<1>1. call'[c] = q /\ \A d \in Caller : d # c => ButRaced(call[d], call'[d])
  BY BeginLater DEF Base
<1>2. call[c].step = "queued" /\ q.script = call[c].script /\ q.lock = call[c].lock
      /\ UNCHANGED <<host, dent, means>>
  BY DEF BeginForm, Takes, Started
<1>3. LockFit(call[c], Left(call[c].script))
  BY DEF Base, Requested, Fit
<1>4. ~ Changed(q) /\ ~ Changed(call[c])
  BY <1>2, <1>3 DEF Changed, LockFit, AloneFit
<1>5. ASSUME NEW d \in Caller, d # c
      PROVE  /\ Changed(call'[d]) <=> Changed(call[d])
             /\ Changes(call'[d]) = Changes(call[d])
             /\ call'[d].reply = call[d].reply
             /\ call'[d].name = call[d].name
             /\ call'[d].newname = call[d].newname
  <2>1. PICK r : r = call'[d]
    OBVIOUS
  <2>2. ButRaced(call[d], r)
    BY <1>1, <1>5, <2>1
  <2>3. (Changed(r) <=> Changed(call[d])) /\ Changes(r) = Changes(call[d])
    BY <2>2, ChangedButRaced
  <2>. QED
    BY <2>1, <2>2, <2>3 DEF ButRaced
<1>. QED
  BY <1>1, <1>2, <1>4, <1>5, NamesKept

(* The call after which a request has changed the host's names. *)
LEMMA NamesChange ==
  ASSUME Base, Names, NEW c \in Caller, NEW q, Same(call[c], q), call'[c] = q,
         \A d \in Caller : d # c => call'[d] = call[d], UNCHANGED <<dent, means>>,
         call[c].lock = "exclusive", ~ Changed(call[c]),
         Changed(q),
         \A n \in Name : n \notin Changes(call[c]) => host'.entry[n] = host.entry[n],
         call[c].reply \in {"removed", "renamed"} => host'.entry[call[c].name] = NoNode,
         call[c].reply = "renamed" => host'.entry[call[c].newname] = host.entry[call[c].name]
  PROVE  Names'
<1>1. \A d \in Caller : d # c => ~ Changed(call[d])
  BY DEF Base, Locked, Changed
<1>2. Changes(q) = Changes(call[c])
  BY DEF Changes, Same
<1>3. ReplacedBy(q, host'.entry, dent', means')
  <2>1. ASSUME call[c].reply = "renamed" PROVE host.entry[call[c].name] = means[dent[call[c].name]]
    <3>1. call[c].name \in Name /\ dent[call[c].name] # 0
      BY <2>1, LockedReply DEF Base, Mapped
    <3>. QED
      BY <1>1, <3>1 DEF Names, NamesKnown
  <2>. QED
    BY <2>1 DEF ReplacedBy, Same
<1>4. ASSUME NEW d \in Caller PROVE ReplacedBy(call'[d], host'.entry, dent', means')
  <2>1. CASE d = c
    BY <1>3, <2>1
  <2>2. CASE d # c
    BY <1>1, <2>2 DEF ReplacedBy
  <2>. QED
    BY <2>1, <2>2
<1>5. ASSUME NEW n \in Name, dent'[n] # 0,
             \A e \in Caller : Changed(call'[e]) => n \notin Changes(call'[e])
      PROVE  host'.entry[n] = means'[dent'[n]]
  <2>1. n \notin Changes(call[c])
    BY <1>2, <1>5
  <2>2. host.entry[n] = means[dent[n]]
    BY <1>1, <1>5 DEF Names, NamesKnown
  <2>. QED
    BY <2>1, <2>2
<1>. QED
  BY <1>4, <1>5, NamesPrimed

(* What a call does to the host's names. *)
Renamed(c, q) ==
  /\ call[c].lock = "exclusive" /\ ~ Changed(call[c]) /\ Changed(q)
  /\ \A n \in Name : n \notin Changes(call[c]) => host'.entry[n] = host.entry[n]
  /\ call[c].reply \in {"removed", "renamed"} => host'.entry[call[c].name] = NoNode
  /\ call[c].reply = "renamed" => host'.entry[call[c].newname] = host.entry[call[c].name]
Unnamed(c, q) == host'.entry = host.entry /\ (Changed(q) <=> Changed(call[c]))

(* A call changes the name its request is about, or none. *)
LEMMA CallNames ==
  ASSUME Base, NEW c \in Caller, IsHost(host'), NEW q, NEW v, Called(c, q, v)
  PROVE  /\ Runs(c, q) /\ Same(call[c], q) /\ call[c].step = "running"
         /\ call'[c] = q /\ \A d \in Caller : d # c => call'[d] = call[d]
         /\ Renamed(c, q) \/ Unnamed(c, q)
<1>. DEFINE r == call[c]
            h == Head(call[c].script)
<1>0. /\ Runs(c, q) /\ call'[c] = q /\ \A d \in Caller : d # c => call'[d] = call[d]
  BY BaseCall DEF Called
<1>1. /\ Fit(r) /\ r.step = "running" /\ r.script # <<>> /\ Same(r, q)
      /\ UNCHANGED <<dent, means>> /\ q.step = "running" /\ q.lock = r.lock
  BY <1>0, NowCall DEF Runs, Base, Same
<1>2. h \in Left(r.script) /\ Left(Tail(r.script)) = Left(r.script) \ {h}
      /\ ~ ({"unlink", "rmdir"} \subseteq Left(r.script))
  BY <1>1, OneLess DEF Fit, Scripted
<1>3. /\ r.name \in AName /\ host.entry \in [AName -> Node \cup {NoNode, RootNode}]
  BY AtThing DEF Base
<1>4. CASE CreatForm(c, q, v) \/ NameForm(c, q)
  <2>1. h \in Renaming /\ Tailed(r, q)
    BY <1>4 DEF CreatForm, NameForm, Opened, Reaches, Renaming
  <2>2. /\ r.lock = "exclusive" /\ r.name \in Name /\ r.newname \in Name
        /\ h = "rename" => r.reply = "renamed" /\ r.name # r.newname
        /\ h = "creat" => r.reply = "created"
        /\ h = "make" => r.reply = "entry"
        /\ h \in {"unlink", "rmdir"} => r.reply = "removed"
        /\ Left(r.script) \cap Never = {}
    BY <1>1, <2>1, RenamingCall
  <2>3. Left(q.script) = Left(r.script) \ {h}
    BY <1>2, <2>1 DEF Tailed
  <2>4. AloneFit(r, Left(r.script))
    BY <1>1, <2>2 DEF Fit, LockFit
  <2>5. Left(q.script) \cap (Renaming \cup Never) = {}
    BY <1>2, <2>1, <2>2, <2>3, <2>4 DEF AloneFit, Renaming, Never
  <2>6. ~ Changed(r) /\ Changed(q)
    BY <1>1, <1>2, <2>1, <2>2, <2>5 DEF Changed
  <2>7. r.name \in Changes(r) /\ r.newname \in Changes(r)
    BY <2>2 DEF Changes
  <2>8. \A n \in Name : n \notin Changes(r) => host'.entry[n] = host.entry[n]
    <3>1. \A n \in Name : n \in AName /\ (n \notin Changes(r) => n # r.name /\ n # r.newname)
      BY <2>7, NamesApart
    <3>2. CASE CreatForm(c, q, v)
      BY <1>3, <3>1, <3>2 DEF CreatForm
    <3>3. CASE NameForm(c, q)
      BY <1>3, <3>1, <3>3 DEF NameForm
    <3>. QED
      BY <1>4, <3>2, <3>3
  <2>9. r.reply \in {"removed", "renamed"} => host'.entry[r.name] = NoNode
    <3>1. CASE CreatForm(c, q, v)
      BY <2>2, <3>1 DEF CreatForm
    <3>2. CASE NameForm(c, q)
      BY <1>3, <2>2, <3>2, NamesApart DEF NameForm
    <3>. QED
      BY <1>4, <3>1, <3>2
  <2>10. r.reply = "renamed" => host'.entry[r.newname] = host.entry[r.name]
    <3>1. CASE CreatForm(c, q, v)
      BY <2>2, <3>1 DEF CreatForm
    <3>2. CASE NameForm(c, q)
      BY <1>3, <2>2, <3>2, NamesApart DEF NameForm, At
    <3>. QED
      BY <1>4, <3>1, <3>2
  <2>. HIDE DEF r, h
  <2>. QED
    BY <1>0, <1>1, <2>2, <2>6, <2>8, <2>9, <2>10 DEF r, Renamed
<1>5. CASE ~ (CreatForm(c, q, v) \/ NameForm(c, q))
  <2>1. host'.entry = host.entry
    BY <1>5 DEF Called, PathForm, OpenForm, WaitForm, OwnForm, CloseForm, HandleForm
  <2>2. \/ Tailed(r, q) /\ h \notin Renaming \cup Never
        \/ q.script = <<"wait">> /\ h = "open"
    BY <1>5 DEF Called, PathForm, OpenForm, WaitForm, OwnForm, CloseForm, HandleForm, Opened,
       Reaches, Renaming, Never
  <2>3. Changed(q) <=> Changed(r)
    <3>1. CASE Tailed(r, q) /\ h \notin Renaming \cup Never
      <4>1. Left(q.script) = Left(r.script) \ {h}
        BY <1>2, <3>1 DEF Tailed
      <4>. QED
        BY <1>1, <3>1, <4>1 DEF Changed
    <3>2. CASE h = "open"
      <4>1. r.lock # "exclusive"
        BY <1>1, <1>2, <3>2 DEF Fit, LockFit, AloneFit, Never
      <4>. QED
        BY <1>1, <4>1 DEF Changed
    <3>. QED
      BY <2>2, <3>1, <3>2
  <2>. HIDE DEF r, h
  <2>. QED
    BY <1>0, <1>1, <2>1, <2>3 DEF r, Unnamed
<1>. QED
  BY <1>4, <1>5

(* Names, after a call. *)
LEMMA NamesCall ==
  ASSUME Base, Names, NEW c \in Caller, IsHost(host'), NEW q, NEW v, Called(c, q, v)
  PROVE  Names'
<1>1. /\ Runs(c, q) /\ Same(call[c], q) /\ call'[c] = q /\ \A d \in Caller : d # c => call'[d] = call[d]
      /\ Renamed(c, q) \/ Unnamed(c, q)
  BY CallNames
<1>2. UNCHANGED <<dent, means>>
  BY <1>1 DEF Runs
<1>3. CASE Renamed(c, q)
  BY <1>1, <1>2, <1>3, NamesChange DEF Renamed
<1>4. CASE Unnamed(c, q)
  <2>1. Changes(q) = Changes(call[c]) /\ q.reply = call[c].reply
        /\ q.name = call[c].name /\ q.newname = call[c].newname
    BY <1>1 DEF Same, Changes
  <2>. QED
    BY <1>1, <1>2, <1>4, <2>1, NamesKept DEF Unnamed
<1>. QED
  BY <1>1, <1>3, <1>4

(* Names, after a call failed: it had changed a name only if it made one,
   and the kernel knows nothing of that name. *)
LEMMA NamesFails ==
  ASSUME Base, Names, NEW c \in Caller, IsHost(host'), CallFails(c)
  PROVE  Names'
<1>0. /\ Running(c) /\ call[c].script # <<>> /\ End(c) /\ host'.entry = host.entry
  BY DEF CallFails, MayFail, Refused, Base, Hosted
<1>1. call'[c] = NoCall /\ \A d \in Caller : d # c => call'[d] = call[d]
  BY <1>0 DEF End, Base, Shaped
<1>2. PICK d : d = IF call[c].script # <<>> /\ call[c].lock = "shared" /\ call[c].reply = "entry"
            THEN [dent EXCEPT ![call[c].name] = 0] ELSE dent
  OBVIOUS
<1>3. Recall(d, means, files)
  BY <1>2 DEF CallFails, Refused
<1>4. \A n \in Name : d[n] \in {dent[n], 0}
  BY <1>2 DEF Base, Mapped
<1>5. \A n \in Name : dent'[n] = d[n]
  BY <1>3 DEF Recall
<1>6. ASSUME NEW n \in Name, d[n] # 0 PROVE dent'[n] = dent[n] /\ means'[dent[n]] = means[dent[n]]
  <2>1. d[n] = dent[n] /\ dent[n] # 0
    BY <1>4, <1>6
  <2>. QED
    BY <1>3, <1>5, <2>1, DentNumbers, RecallMeans
<1>7. ASSUME NEW n \in Name, dent[n] # 0, Changed(call[c]) PROVE n \notin Changes(call[c])
  <2>1. /\ call[c].lock = "exclusive" /\ Left(call[c].script) \cap (Renaming \cup Never) = {}
        /\ Left(call[c].script) # {} /\ AloneFit(call[c], Left(call[c].script))
    BY <1>0, <1>7, Done DEF Changed, Base, Requested, Fit, LockFit, Scripted
  <2>2. call[c].reply \in {"entry", "created"} /\ call[c].name = call[c].newname
    BY <2>1 DEF AloneFit, Renaming
  <2>3. dent[call[c].name] = 0
    BY <2>1, <2>2 DEF Base, Mapped, Creating
  <2>. QED
    BY <1>7, <2>2, <2>3 DEF Changes
<1>8. call[c].lock # "none" \/ d = dent
  BY <1>2
<1>9. \A n \in Name : dent'[n] # 0 => /\ dent'[n] = dent[n] /\ means'[dent[n]] = means[dent[n]]
                                      /\ Changed(call[c]) => n \notin Changes(call[c])
  BY <1>5, <1>6, <1>7
<1>10. \/ call[c].lock # "none"
       \/ \A n \in Name : dent'[n] = dent[n] /\ (dent[n] # 0 => means'[dent[n]] = means[dent[n]])
  BY <1>5, <1>6, <1>8
<1>. QED
  BY <1>0, <1>1, <1>9, <1>10, NamesEnd

(* Names, after the answer to a removal. *)
LEMMA NamesRemoved ==
  ASSUME Base, Names, NEW c \in Caller, AnswerRemoved(c)
  PROVE  Names'
<1>0. /\ Running(c) /\ call[c].script = <<>> /\ End(c) /\ host' = host
      /\ call[c].reply = "removed" /\ Recall([dent EXCEPT ![call[c].name] = 0], means, files)
  BY DEF AnswerRemoved, Ready
<1>1. call'[c] = NoCall /\ \A d \in Caller : d # c => call'[d] = call[d]
  BY <1>0 DEF End, Base, Shaped
<1>2. PICK d : d = [dent EXCEPT ![call[c].name] = 0]
  OBVIOUS
<1>3. Recall(d, means, files)
  BY <1>0, <1>2
<1>4. call[c].lock = "exclusive" /\ call[c].name = call[c].newname /\ call[c].name \in Name
  BY <1>0, LockedReply DEF Base, Requested, Fit, LockFit, AloneFit
<1>5. d[call[c].name] = 0 /\ \A n \in Name : n # call[c].name => d[n] = dent[n]
  BY <1>2, <1>4 DEF Base, Mapped
<1>6. \A n \in Name : dent'[n] = d[n]
  BY <1>3 DEF Recall
<1>7. ASSUME NEW n \in Name, dent'[n] # 0
      PROVE  dent'[n] = dent[n] /\ means'[dent[n]] = means[dent[n]] /\ n \notin Changes(call[c])
  <2>1. d[n] = dent[n] /\ dent[n] # 0 /\ n # call[c].name
    BY <1>5, <1>6, <1>7
  <2>2. dent'[n] = dent[n] /\ means'[dent[n]] = means[dent[n]]
    BY <1>3, <2>1, DentNumbers, RecallMeans
  <2>. QED
    BY <1>4, <2>1, <2>2 DEF Changes
<1>. QED
  BY <1>0, <1>1, <1>4, <1>7, NamesEnd

(* Names, after an answer that is not about names. *)
LEMMA NamesOther ==
  ASSUME Base, Names, NEW c \in Caller, End(c), Running(c), host'.entry = host.entry,
         call[c].reply \in {"none", "attr", "opened"}, NEW fs, Recall(dent, means, fs) \/ UNCHANGED <<dent, means>>
  PROVE  Names'
<1>1. call'[c] = NoCall /\ \A d \in Caller : d # c => call'[d] = call[d]
  BY DEF End, Base, Shaped
<1>2. ~ Changed(call[c])
  BY DEF Changed, Base, Requested, Fit, LockFit, AloneFit
<1>3. \A n \in Name : dent'[n] = dent[n] /\ (dent[n] # 0 => means'[dent[n]] = means[dent[n]])
  <2>1. CASE UNCHANGED <<dent, means>>
    BY <2>1
  <2>2. CASE Recall(dent, means, fs)
    BY <2>2, DentNumbers, RecallMeans DEF Recall
  <2>. QED
    BY <2>1, <2>2
<1>. QED
  BY <1>1, <1>2, <1>3, NamesEnd

(* Names, after the answer of an entry: the number it gives stands for no
   other name. *)
LEMMA NamesEntry ==
  ASSUME Base, Found, Names, NEW c \in Caller, NEW m, NEW i, NEW opened \in BOOLEAN,
         EntryAnswer(c, m, i, opened)
  PROVE  Names'
<1>0. PICK n0 : n0 = call[c].name
  OBVIOUS
<1>1. /\ Running(c) /\ call[c].script = <<>> /\ End(c) /\ host' = host
      /\ call[c].reply \in {"entry", "created"}
      /\ EntryMap(n0, m, i)
  BY <1>0 DEF EntryAnswer
<1>2. call'[c] = NoCall /\ \A d \in Caller : d # c => call'[d] = call[d]
  BY <1>1 DEF End, Base, Shaped
<1>3. /\ call[c].found = host.entry[n0] /\ n0 \in Name /\ call[c].lock # "none"
  BY <1>0, <1>1, FoundIs, LockedReply DEF Base
<1>4. PICK fs : fs = IF opened THEN files \cup {[fd |-> call[c].own, num |-> i, node |-> call[c].found]}
                     ELSE files
  OBVIOUS
<1>5. PICK d, mm : d = [dent EXCEPT ![n0] = i] /\ mm = [means EXCEPT ![i] = call[c].found]
  OBVIOUS
<1>6. Recall(d, mm, fs)
  BY <1>0, <1>4, <1>5 DEF EntryAnswer
<1>7. i \in 1 .. MaxInode
  BY <1>1, RootIs DEF EntryMap
<1>8. d[n0] = i /\ \A n \in Name : n # n0 => d[n] = dent[n]
  BY <1>3, <1>5 DEF Base, Mapped
<1>9. mm[i] = call[c].found /\ \A j \in 1 .. MaxInode : j # i => mm[j] = means[j]
  BY <1>5, <1>7 DEF Base, Told
<1>10. \A n \in Name : dent'[n] = d[n]
  BY <1>6 DEF Recall
<1>11. ASSUME NEW n \in Name, n # n0, dent[n] # 0 PROVE dent[n] # i
  <2>1. mapper!Listed(map, Root, n) /\ mapper!Child(map, Root, n) = dent[n] /\ GoodMap(m)
    BY <1>1, <1>11 DEF Base, Mapped, EntryMap
  <2>2. /\ mapper!Listed(m, Root, n) /\ mapper!Child(m, Root, n) = dent[n]
        /\ mapper!Listed(m, Root, n0) /\ mapper!Child(m, Root, n0) = i
    BY <1>1, <2>1 DEF EntryMap
  <2>3. m.inodes[dent[n]].name = n /\ m.inodes[i].name = n0
    BY <2>1, <2>2, MapChild
  <2>. QED
    BY <1>11, <2>3
<1>12. ASSUME NEW n \in Name, dent'[n] # 0
       PROVE  \/ /\ dent'[n] = dent[n] /\ means'[dent[n]] = means[dent[n]]
                 /\ Changed(call[c]) => n \notin Changes(call[c])
              \/ host.entry[n] = means'[dent'[n]]
  <2>1. CASE n = n0
    BY <1>3, <1>6, <1>7, <1>8, <1>9, <1>10, <2>1, RecallMeans
  <2>2. CASE n # n0
    <3>1. d[n] = dent[n] /\ dent[n] # 0
      BY <1>8, <1>10, <1>12, <2>2
    <3>2. dent[n] \in 1 .. MaxInode /\ dent[n] # i
      BY <1>11, <2>2, <3>1, DentNumbers
    <3>3. dent'[n] = dent[n] /\ means'[dent[n]] = means[dent[n]]
      BY <1>6, <1>9, <3>1, <3>2, RecallMeans
    <3>4. Changed(call[c]) => n \notin Changes(call[c])
      BY <1>0, <1>1, <2>2 DEF Changed, Changes, Base, Requested, Fit, LockFit, AloneFit
    <3>. QED
      BY <3>3, <3>4
  <2>. QED
    BY <2>1, <2>2
<1>. QED
  BY <1>1, <1>2, <1>3, <1>12, NamesEnd

(* Names, after the answer to a rename. *)
LEMMA NamesRenamed ==
  ASSUME Base, Names, NEW c \in Caller, NEW m, RenameAnswer(c, m)
  PROVE  Names'
<1>1. PICK o, n : o = call[c].name /\ n = call[c].newname
  OBVIOUS
<1>2. /\ Running(c) /\ call[c].script = <<>> /\ End(c) /\ host' = host
      /\ call[c].reply = "renamed" /\ call[c].lock = "exclusive"
      /\ o # n /\ o \in Name /\ n \in Name /\ dent[o] # 0
  BY <1>1 DEF RenameAnswer, MovedMap
<1>3. call'[c] = NoCall /\ \A d \in Caller : d # c => call'[d] = call[d]
  BY <1>2 DEF End, Base, Shaped
<1>4. PICK d : d = [dent EXCEPT ![o] = 0, ![n] = dent[o]]
  OBVIOUS
<1>5. Recall(d, means, files)
  BY <1>1, <1>4 DEF RenameAnswer
<1>6. d[o] = 0 /\ d[n] = dent[o] /\ \A k \in Name : k \notin {o, n} => d[k] = dent[k]
  BY <1>2, <1>4 DEF Base, Mapped
<1>7. \A k \in Name : dent'[k] = d[k]
  BY <1>5 DEF Recall
<1>8. host.entry[n] = means[dent[o]]
  <2>1. Changed(call[c]) /\ ReplacedBy(call[c], host.entry, dent, means)
    BY <1>2, EmptyScript DEF Changed, Names, Replaced, Running
  <2>. QED
    BY <1>1, <1>2, <2>1 DEF ReplacedBy
<1>9. ASSUME NEW k \in Name, dent'[k] # 0
      PROVE  \/ /\ dent'[k] = dent[k] /\ means'[dent[k]] = means[dent[k]]
                /\ Changed(call[c]) => k \notin Changes(call[c])
             \/ host.entry[k] = means'[dent'[k]]
  <2>1. CASE k = n
    <3>1. d[n] \in 1 .. MaxInode
      BY <1>2, <1>6, DentNumbers
    <3>. QED
      BY <1>2, <1>5, <1>6, <1>8, <2>1, <3>1, RecallMeans
  <2>2. CASE k \notin {o, n}
    <3>1. d[k] = dent[k] /\ dent[k] # 0
      BY <1>6, <1>7, <1>9, <2>2
    <3>2. dent'[k] = dent[k] /\ means'[dent[k]] = means[dent[k]]
      BY <1>5, <3>1, DentNumbers, RecallMeans
    <3>. QED
      BY <1>1, <2>2, <3>2 DEF Changes
  <2>. QED
    BY <1>6, <1>7, <1>9, <2>1, <2>2
<1>. QED
  BY <1>2, <1>3, <1>9, NamesEnd

(* Names is inductive. *)
LEMMA NamesNext ==
  ASSUME Kept, Names, [Next]_vars
  PROVE  Names'
<1>0. Base /\ Found
  BY DEF Kept
<1>1. CASE UNCHANGED vars
  BY <1>0, <1>1, NamesKept DEF vars
<1>2. CASE Next
  <2>1. PICK c \in Caller :
           \/ \E q : SendStep(c, q)
           \/ BeginLost(c)
           \/ \E q : BeginForm(c, q)
           \/ IsHost(host') /\ \E q, v : Called(c, q, v)
           \/ IsHost(host') /\ CallFails(c)
           \/ \E m, i : \E opened \in BOOLEAN : EntryAnswer(c, m, i, opened)
           \/ AnswerOpened(c)
           \/ \E m : RenameAnswer(c, m)
           \/ AnswerRemoved(c)
           \/ AnswerOther(c)
    BY <1>2, EveryStep
  <2>2. CASE AnswerOpened(c)
    <3>1. /\ End(c) /\ Running(c) /\ host'.entry = host.entry /\ call[c].reply = "opened"
          /\ \E fs : Recall(dent, means, fs)
      BY <2>2 DEF AnswerOpened, Ready
    <3>. QED
      BY <1>0, <3>1, NamesOther
  <2>3. CASE AnswerOther(c)
    <3>1. /\ End(c) /\ Running(c) /\ host'.entry = host.entry /\ call[c].reply \in {"none", "attr"}
          /\ UNCHANGED <<dent, means>>
      BY <2>3 DEF AnswerOther, Ready
    <3>. QED
      BY <1>0, <3>1, NamesOther
  <2>4. CASE (\E q : SendStep(c, q)) \/ BeginLost(c) \/ (\E q : BeginForm(c, q))
    BY <1>0, <2>4, NamesSent, NamesLost, NamesBegin
  <2>5. CASE IsHost(host') /\ ((\E q, v : Called(c, q, v)) \/ CallFails(c))
    BY <1>0, <2>5, NamesCall, NamesFails
  <2>6. CASE \E m, i : \E opened \in BOOLEAN : EntryAnswer(c, m, i, opened)
    BY <1>0, <2>6, NamesEntry
  <2>7. CASE (\E m : RenameAnswer(c, m)) \/ AnswerRemoved(c)
    BY <1>0, <2>7, NamesRenamed, NamesRemoved
  <2>. QED
    BY <2>1, <2>2, <2>3, <2>4, <2>5, <2>6, <2>7
<1>. QED
  BY <1>1, <1>2

(* It holds in the beginning, when the kernel knows no name. *)
LEMMA InitNames == Init => Names
<1>1. SUFFICES ASSUME Init PROVE Names
  OBVIOUS
<1>2. \A n \in Name : dent[n] = 0
  BY <1>1 DEF Init
<1>3. \A c \in Caller : call[c] = NoCall
  BY <1>1 DEF Init
<1>. QED
  BY <1>2, <1>3, NoCallUnchanged DEF Names, NamesKnown, Replaced, ReplacedBy

(* It makes the kernel agree. *)
LEMMA NamesAgree ==
  ASSUME Base, Names
  PROVE  KernelAgrees
<1>1. ASSUME NEW n \in Name, dent[n] # 0, ~ \E c \in Caller : Busy(c) /\ n \in Changes(call[c])
      PROVE  /\ mapper!Listed(map, Root, n) /\ mapper!Child(map, Root, n) = dent[n]
             /\ host.entry[n] = means[dent[n]]
  <2>1. \A c \in Caller : Changed(call[c]) => n \notin Changes(call[c])
    BY <1>1 DEF Changed, Busy
  <2>. QED
    BY <1>1, <2>1 DEF Base, Mapped, Names, NamesKnown
<1>. QED
  BY <1>1 DEF KernelAgrees

(* While no request changes it, a name the kernel knows is the name the
   resolver has for its number, and leads to the file of that number, with
   any number of lookups, renames, removals and creations in flight,
   whatever calls fail. *)
THEOREM KernelAgreesAlways == Spec => []KernelAgrees
<1>1. Init => Kept /\ Names
  BY InitKept, InitNames
<1>2. (Kept /\ Names) /\ [Next]_vars => (Kept /\ Names)'
  BY KeptNext, NamesNext
<1>3. Kept /\ Names => KernelAgrees
  BY NamesAgree DEF Kept
<1>. QED
  BY <1>1, <1>2, <1>3, PTL DEF Spec

-----------------------------------------------------------------------------
(* Who owns the descriptors. *)

(* Who owns the descriptors ds, where o is the descriptor of each request:
   the owner is one, what is owned is open, *)
OwnedBy(o, fs, ds) ==
  /\ \A c \in Caller : o[c] \in Fd \ {0} => ds[o[c]] # NoNode
  /\ \A f \in fs : f.fd \in Fd \ {0} /\ ds[f.fd] # NoNode
  /\ \A c, e \in Caller : o[c] \in Fd \ {0} /\ o[c] = o[e] => c = e
  /\ \A f, g \in fs : f.fd = g.fd => f = g
  /\ \A c \in Caller : \A f \in fs : o[c] # f.fd

(* and what is open is owned. *)
HeldBy(o, fs, ds) ==
  \A d \in Fd \ {0} : ds[d] # NoNode =>
    (\E c \in Caller : o[c] = d) \/ (\E f \in fs : f.fd = d)

OwnOf == [c \in Caller |-> call[c].own]
Owned == OwnedBy(OwnOf, files, host.desc)
AllHeld == HeldBy(OwnOf, files, host.desc)

(* A request passes by, or is lost with its descriptor. *)
LEMMA OwnPasses ==
  ASSUME NEW o, NEW fs, NEW ds, OwnedBy(o, fs, ds),
         NEW c \in Caller, NEW p, \A d \in Caller : d # c => p[d] = o[d],
         p[c] = o[c] \/ p[c] \in {0, NoFd}
  PROVE  /\ OwnedBy(p, fs, ds)
         /\ HeldBy(o, fs, ds) /\ (p[c] = o[c] \/ o[c] \notin Fd \ {0}) => HeldBy(p, fs, ds)
<1>1. NoFd \notin Fd
  BY RootIs
<1>2. OwnedBy(p, fs, ds)
  BY <1>1 DEF OwnedBy
<1>3. ASSUME HeldBy(o, fs, ds), p[c] = o[c] \/ o[c] \notin Fd \ {0}
      PROVE  HeldBy(p, fs, ds)
  BY <1>3 DEF HeldBy
<1>. QED
  BY <1>2, <1>3

(* A request closes its descriptor. *)
LEMMA OwnCloses ==
  ASSUME NEW o, NEW fs, NEW ds \in [Fd -> Thing], OwnedBy(o, fs, ds),
         NEW c \in Caller, NEW p, \A d \in Caller : d # c => p[d] = o[d],
         o[c] \in Fd \ {0}, p[c] = NoFd, NEW es, es = [ds EXCEPT ![o[c]] = NoNode]
  PROVE  /\ OwnedBy(p, fs, es) /\ (HeldBy(o, fs, ds) => HeldBy(p, fs, es))
         /\ \A d \in Caller : d # c /\ o[d] \in Fd \ {0} => es[o[d]] = ds[o[d]]
         /\ \A f \in fs : es[f.fd] = ds[f.fd]
<1>1. NoFd \notin Fd /\ es[o[c]] = NoNode /\ \A d \in Fd : d # o[c] => es[d] = ds[d]
  BY RootIs
<1>2. \A d \in Caller : d # c /\ o[d] \in Fd \ {0} => o[d] # o[c] /\ es[o[d]] = ds[o[d]]
  BY <1>1 DEF OwnedBy
<1>3. \A f \in fs : f.fd # o[c] /\ f.fd \in Fd /\ es[f.fd] = ds[f.fd]
  BY <1>1 DEF OwnedBy
<1>4. OwnedBy(p, fs, es)
  BY <1>1, <1>2, <1>3 DEF OwnedBy
<1>5. ASSUME HeldBy(o, fs, ds) PROVE HeldBy(p, fs, es)
  BY <1>1, <1>5 DEF HeldBy
<1>. QED
  BY <1>2, <1>3, <1>4, <1>5

(* A request opens a descriptor that was closed. *)
LEMMA OwnOpens ==
  ASSUME NEW o, NEW fs, NEW ds, OwnedBy(o, fs, ds),
         NEW c \in Caller, NEW p, \A d \in Caller : d # c => p[d] = o[d],
         o[c] \notin Fd \ {0}, p[c] \in Fd \ {0}, ds[p[c]] = NoNode,
         NEW es, es[p[c]] # NoNode, \A d \in Fd : d # p[c] => es[d] = ds[d]
  PROVE  /\ OwnedBy(p, fs, es) /\ (HeldBy(o, fs, ds) => HeldBy(p, fs, es))
         /\ \A d \in Caller : d # c /\ o[d] \in Fd \ {0} => es[o[d]] = ds[o[d]]
         /\ \A f \in fs : es[f.fd] = ds[f.fd]
<1>1. \A d \in Caller : d # c /\ o[d] \in Fd \ {0} => o[d] # p[c] /\ es[o[d]] = ds[o[d]]
  BY DEF OwnedBy
<1>2. \A f \in fs : f.fd # p[c] /\ f.fd \in Fd /\ es[f.fd] = ds[f.fd]
  BY DEF OwnedBy
<1>3. OwnedBy(p, fs, es)
  BY <1>1, <1>2 DEF OwnedBy
<1>4. ASSUME HeldBy(o, fs, ds) PROVE HeldBy(p, fs, es)
  BY <1>4 DEF HeldBy
<1>. QED
  BY <1>1, <1>2, <1>3, <1>4

(* A request gives its descriptor to the kernel, as an open file. *)
LEMMA OwnGives ==
  ASSUME NEW o, NEW fs, NEW ds, OwnedBy(o, fs, ds),
         NEW c \in Caller, NEW p, \A d \in Caller : d # c => p[d] = o[d],
         o[c] \in Fd \ {0}, p[c] = NoFd, NEW f, f.fd = o[c]
  PROVE  /\ OwnedBy(p, fs \cup {f}, ds) /\ (HeldBy(o, fs, ds) => HeldBy(p, fs \cup {f}, ds))
<1>1. NoFd \notin Fd
  BY RootIs
<1>2. OwnedBy(p, fs \cup {f}, ds)
  BY <1>1 DEF OwnedBy
<1>3. ASSUME HeldBy(o, fs, ds) PROVE HeldBy(p, fs \cup {f}, ds)
  BY <1>1, <1>3 DEF HeldBy
<1>. QED
  BY <1>2, <1>3

(* The kernel gives the descriptor of an open file to a request. *)
LEMMA OwnTakes ==
  ASSUME NEW o, NEW fs, NEW ds, OwnedBy(o, fs, ds),
         NEW c \in Caller, NEW p, \A d \in Caller : d # c => p[d] = o[d],
         o[c] = NoFd, NEW f \in fs, p[c] = f.fd
  PROVE  /\ OwnedBy(p, fs \ {f}, ds) /\ (HeldBy(o, fs, ds) => HeldBy(p, fs \ {f}, ds))
<1>1. NoFd \notin Fd
  BY RootIs
<1>2. OwnedBy(p, fs \ {f}, ds)
  BY <1>1 DEF OwnedBy
<1>3. ASSUME HeldBy(o, fs, ds) PROVE HeldBy(p, fs \ {f}, ds)
  BY <1>1, <1>3 DEF HeldBy, OwnedBy
<1>. QED
  BY <1>2, <1>3

-----------------------------------------------------------------------------
(* What a step of c does to the descriptors. *)
Passes(c) ==
  /\ files' = files /\ host'.desc = host.desc
  /\ \/ call'[c].own = call[c].own
     \/ /\ call'[c].own \in {0, NoFd}
        /\ HasOwn(call[c]) => call[c].num \notin mapper!Present(map)
Closes(c) ==
  /\ HasOwn(call[c]) /\ call'[c].own = NoFd
  /\ files' = files /\ host'.desc = [host.desc EXCEPT ![call[c].own] = NoNode]
Begets(c) ==
  /\ ~ HasOwn(call[c]) /\ call'[c].own \in Fd \ {0} /\ host.desc[call'[c].own] = NoNode
  /\ \E v : v # NoNode /\ host'.desc = [host.desc EXCEPT ![call'[c].own] = v]
  /\ files' = files
Gives(c) ==
  /\ HasOwn(call[c]) /\ call'[c].own = NoFd /\ host'.desc = host.desc
  /\ \E f : files' = files \cup {f} /\ f.fd = call[c].own
Receives(c) ==
  /\ call[c].own = NoFd /\ host'.desc = host.desc
  /\ \E f \in files : files' = files \ {f} /\ call'[c].own = f.fd

Effect(c) ==
  /\ \A d \in Caller : d # c => ButRaced(call[d], call'[d])
  /\ Passes(c) \/ Closes(c) \/ Begets(c) \/ Gives(c) \/ Receives(c)

(* The descriptors of others are not touched. *)
LEMMA OwnedEffect ==
  ASSUME Base, Owned, NEW c \in Caller, Effect(c)
  PROVE  /\ Owned'
         /\ AllHeld /\ (HasOwn(call[c]) => call[c].num \in mapper!Present(map)) => AllHeld'
         /\ \A d \in Caller : d # c /\ HasOwn(call[d]) => host'.desc[call[d].own] = host.desc[call[d].own]
         /\ \A f \in files : host'.desc[f.fd] = host.desc[f.fd]
<1>1. PICK o, p : /\ o = [d \in Caller |-> call[d].own] /\ p = [d \in Caller |-> call'[d].own]
  OBVIOUS
<1>2. /\ \A d \in Caller : o[d] = call[d].own /\ p[d] = call'[d].own
      /\ \A d \in Caller : d # c => p[d] = o[d]
  BY <1>1 DEF Effect, ButRaced
<1>3. OwnedBy(o, files, host.desc) /\ (AllHeld <=> HeldBy(o, files, host.desc))
  BY <1>1 DEF Owned, AllHeld, OwnOf
<1>4. /\ OwnedBy(p, files', host'.desc) => Owned'
      /\ HeldBy(p, files', host'.desc) => AllHeld'
  <2>1. p = OwnOf'
    BY <1>1, ConstantLater DEF OwnOf
  <2>. QED
    BY <2>1, ConstantLater DEF Owned, AllHeld, OwnedBy, HeldBy
<1>5. host.desc \in [Fd -> Thing]
  BY DEF Base, Hosted
<1>6. CASE Passes(c)
  BY <1>2, <1>3, <1>4, <1>6, OwnPasses DEF Passes, HasOwn
<1>7. CASE Closes(c)
  BY <1>2, <1>3, <1>4, <1>5, <1>7, OwnCloses DEF Closes, HasOwn
<1>8. CASE Begets(c)
  <2>1. PICK v : v # NoNode /\ host'.desc = [host.desc EXCEPT ![call'[c].own] = v]
    BY <1>8 DEF Begets
  <2>2. /\ o[c] \notin Fd \ {0} /\ p[c] \in Fd \ {0} /\ host.desc[p[c]] = NoNode
        /\ files' = files /\ \A d \in Caller : d # c => p[d] = o[d]
    BY <1>2, <1>8 DEF Begets, HasOwn
  <2>3. PICK es, ds : es = host'.desc /\ ds = host.desc
    OBVIOUS
  <2>4. /\ es[p[c]] # NoNode /\ (\A d \in Fd : d # p[c] => es[d] = ds[d]) /\ ds[p[c]] = NoNode
        /\ OwnedBy(o, files, ds) /\ o[c] \notin Fd \ {0} /\ p[c] \in Fd \ {0}
        /\ \A d \in Caller : d # c => p[d] = o[d]
    BY <1>2, <1>3, <1>5, <2>1, <2>2, <2>3
  <2>5. /\ OwnedBy(p, files, es) /\ (HeldBy(o, files, ds) => HeldBy(p, files, es))
        /\ \A d \in Caller : d # c /\ o[d] \in Fd \ {0} => es[o[d]] = ds[o[d]]
        /\ \A f \in files : es[f.fd] = ds[f.fd]
    <3>. HIDE <2>3
    <3>. QED
      BY <2>4, OwnOpens
  <2>6. \A d \in Caller : d # c /\ HasOwn(call[d]) => host'.desc[call[d].own] = host.desc[call[d].own]
    BY <1>2, <2>3, <2>5 DEF HasOwn
  <2>. QED
    BY <1>3, <1>4, <2>2, <2>3, <2>5, <2>6
<1>9. CASE Gives(c)
  <2>1. PICK f : files' = files \cup {f} /\ f.fd = call[c].own
    BY <1>9 DEF Gives
  <2>2. /\ o[c] \in Fd \ {0} /\ p[c] = NoFd /\ f.fd = o[c] /\ \A d \in Caller : d # c => p[d] = o[d]
        /\ host'.desc = host.desc
    BY <1>2, <1>9, <2>1 DEF Gives, HasOwn
  <2>3. /\ OwnedBy(p, files \cup {f}, host.desc)
        /\ HeldBy(o, files, host.desc) => HeldBy(p, files \cup {f}, host.desc)
    BY <1>3, <2>2, OwnGives
  <2>. QED
    BY <1>3, <1>4, <2>1, <2>2, <2>3
<1>10. CASE Receives(c)
  <2>1. PICK f \in files : files' = files \ {f} /\ call'[c].own = f.fd
    BY <1>10 DEF Receives
  <2>. QED
    BY <1>2, <1>3, <1>4, <1>10, <2>1, OwnTakes DEF Receives
<1>. QED
  BY <1>6, <1>7, <1>8, <1>9, <1>10 DEF Effect

-----------------------------------------------------------------------------
(* Every step opens, closes or hands over at most one descriptor. *)

(* Only answers that give a descriptor have one left. *)
LEMMA NoOwnLeft ==
  ASSUME Base, NEW c \in Caller, call[c].script = <<>>, call[c].reply \notin {"created", "opened"}
  PROVE  ~ HasOwn(call[c])
<1>1. OwnFit(call[c], Left(call[c].script))
  BY DEF Base, Requested, Fit
<1>. QED
  BY <1>1, EmptyScript DEF OwnFit, Answers

(* Sending gives a request nothing, or the descriptor to release. *)
LEMMA SentEffect ==
  ASSUME Base, NEW c \in Caller, NEW q, SendStep(c, q)
  PROVE  Effect(c)
<1>1. call'[c] = q /\ call[c] = NoCall /\ \A d \in Caller : d # c => call'[d] = call[d]
  BY SentCalls DEF Base
<1>2. call[c].own = NoFd /\ ~ HasOwn(call[c]) /\ host' = host
  BY <1>1, NoCallReplies, RootIs DEF NoReply, HasOwn, SendStep
<1>3. CASE files' = files /\ q.own \in {0, NoFd}
  BY <1>1, <1>2, <1>3, SameButRaced DEF Effect, Passes
<1>4. CASE \E f \in files : files' = files \ {f} /\ q.own = f.fd
  BY <1>1, <1>2, <1>4, SameButRaced DEF Effect, Receives
<1>. QED
  BY <1>3, <1>4 DEF SendStep, Sent

(* Beginning leaves the descriptors. *)
LEMMA BeginEffect ==
  ASSUME Base, NEW c \in Caller, NEW q, BeginForm(c, q)
  PROVE  Effect(c)
<1>1. call'[c] = q /\ \A d \in Caller : d # c => ButRaced(call[d], call'[d])
  BY BeginLater DEF Base
<1>2. q.own = call[c].own /\ UNCHANGED <<files, host>>
  BY DEF BeginForm, Takes, Started
<1>. QED
  BY <1>1, <1>2 DEF Effect, Passes

(* A request whose number is lost drops what it was given. *)
LEMMA LostEffect ==
  ASSUME Base, NEW c \in Caller, BeginLost(c)
  PROVE  Effect(c)
<1>1. call'[c] = NoCall /\ \A d \in Caller : d # c => call'[d] = call[d]
  BY DEF BeginLost, Base, Shaped
<1>2. call'[c].own = NoFd /\ UNCHANGED <<files, host>> /\ call[c].num \notin mapper!Present(map)
  BY <1>1, NoCallReplies DEF NoReply, BeginLost, Takes
<1>. QED
  BY <1>1, <1>2, SameButRaced DEF Effect, Passes

(* What a call leaves of its own descriptor. *)
LEMMA CallEffect ==
  ASSUME Base, NEW c \in Caller, IsHost(host'), NEW q, NEW v, Called(c, q, v)
  PROVE  Effect(c)
<1>1. /\ Runs(c, q) /\ call'[c] = q /\ \A d \in Caller : d # c => call'[d] = call[d]
  BY BaseCall DEF Called
<1>2. files' = files /\ Fit(call[c]) /\ call[c].script # <<>> /\ Head(call[c].script) \in Left(call[c].script)
  BY <1>1, NowCall, OneLess DEF Runs, Base, Fit, Scripted
<1>3. CASE q.own = call[c].own /\ host'.desc = host.desc
  BY <1>1, <1>2, <1>3, SameButRaced DEF Effect, Passes
<1>4. CASE CloseForm(c, q, v)
  <2>1. HasOwn(call[c])
    <3>1. "close" \in Left(call[c].script) /\ Left(call[c].script) \cap Opening = {}
      BY <1>2, <1>4, OneLess DEF CloseForm, Fit, Scripted, OnOwn
    <3>. QED
      BY <1>2, <3>1 DEF Fit, OwnFit, OnOwn
  <2>. QED
    BY <1>1, <1>2, <1>4, <2>1, SameButRaced DEF Effect, Closes, CloseForm
<1>5. CASE OpenForm(c, q, v) \/ CreatForm(c, q, v)
  <2>1. Opened(c, q, v) /\ Head(call[c].script) \in Opening
    BY <1>5 DEF OpenForm, CreatForm, Opening
  <2>2. ~ HasOwn(call[c])
    BY <1>2, <2>1 DEF Fit, OwnFit, HasOwn
  <2>3. v # NoNode
    BY <1>5, MirrorMountAssumption DEF OpenForm, CreatForm, Followed, Node
  <2>. QED
    BY <1>1, <1>2, <2>1, <2>2, <2>3, SameButRaced DEF Effect, Begets, Opened
<1>. QED
  BY <1>3, <1>4, <1>5 DEF Called, PathForm, WaitForm, NameForm, OwnForm, HandleForm

(* A call that fails closes what its request had opened. *)
LEMMA FailsEffect ==
  ASSUME Base, NEW c \in Caller, CallFails(c)
  PROVE  Effect(c)
<1>1. End(c) /\ files' = files
  BY DEF CallFails, Refused, Recall
<1>2. call'[c] = NoCall /\ call'[c].own = NoFd /\ \A d \in Caller : d # c => call'[d] = call[d]
  BY <1>1, NoCallReplies DEF End, Base, Shaped, NoReply
<1>3. CASE call[c].own \in Fd \ {0}
  <2>1. host' = [host EXCEPT !.desc[call[c].own] = NoNode]
    BY <1>3 DEF CallFails
  <2>2. host'.desc = [host.desc EXCEPT ![call[c].own] = NoNode]
    BY <2>1 DEF Base, Hosted
  <2>. QED
    BY <1>1, <1>2, <1>3, <2>2, SameButRaced DEF Effect, Closes, HasOwn
<1>4. CASE call[c].own \notin Fd \ {0}
  BY <1>1, <1>2, <1>4, SameButRaced DEF Effect, Passes, HasOwn, CallFails
<1>. QED
  BY <1>3, <1>4

(* An answer without a descriptor. *)
LEMMA EndEffect ==
  ASSUME Base, NEW c \in Caller, End(c), call[c].script = <<>>,
         call[c].reply \notin {"created", "opened"}, files' = files, host' = host
  PROVE  Effect(c)
<1>1. call'[c].own = NoFd /\ \A d \in Caller : d # c => call'[d] = call[d]
  BY NoCallReplies DEF End, Base, Shaped, NoReply
<1>. QED
  BY <1>1, NoOwnLeft, SameButRaced DEF Effect, Passes

(* An answer that gives its descriptor to the kernel. *)
LEMMA GiveEffect ==
  ASSUME Base, NEW c \in Caller, End(c), HasOwn(call[c]), host' = host,
         NEW f, f.fd = call[c].own, files' = files \cup {f}
  PROVE  Effect(c)
<1>1. call'[c].own = NoFd /\ \A d \in Caller : d # c => call'[d] = call[d]
  BY NoCallReplies DEF End, Base, Shaped, NoReply
<1>. QED
  BY <1>1, SameButRaced DEF Effect, Gives

(* An answer with an entry gives the descriptor of create, and of no other. *)
LEMMA EntryEffect ==
  ASSUME Base, Found, NEW c \in Caller, NEW m, NEW i, NEW opened \in BOOLEAN,
         EntryAnswer(c, m, i, opened)
  PROVE  /\ Effect(c)
         /\ opened => HasOwn(call[c])
         /\ files' = IF opened THEN files \cup {[fd |-> call[c].own, num |-> i, node |-> call[c].found]}
                     ELSE files
<1>1. /\ End(c) /\ call[c].script = <<>> /\ host' = host
      /\ call[c].reply \in {"entry", "created"} /\ (opened = (call[c].reply = "created"))
      /\ files' = IF opened THEN files \cup {[fd |-> call[c].own, num |-> i, node |-> call[c].found]}
                  ELSE files
  BY DEF EntryAnswer, Recall
<1>2. opened => HasOwn(call[c])
  BY BaseEntry DEF HasOwn
<1>3. CASE opened
  <2>1. PICK f : f = [fd |-> call[c].own, num |-> i, node |-> call[c].found]
    OBVIOUS
  <2>. QED
    BY <1>1, <1>2, <1>3, <2>1, GiveEffect
<1>4. CASE ~ opened
  BY <1>1, <1>4, EndEffect
<1>. QED
  BY <1>1, <1>2, <1>3, <1>4

(* The answer to open gives its descriptor. *)
LEMMA OpenedEffect ==
  ASSUME Base, NEW c \in Caller, AnswerOpened(c)
  PROVE  Effect(c) /\ HasOwn(call[c])
<1>1. HasOwn(call[c])
  BY BaseOpened DEF HasOwn
<1>2. PICK v : v = IF call[c].raced THEN host.desc[call[c].own] ELSE call[c].node
  OBVIOUS
<1>3. PICK f : f = [fd |-> call[c].own, num |-> call[c].num, node |-> v]
  OBVIOUS
<1>4. End(c) /\ host' = host /\ files' = files \cup {f}
  BY <1>2, <1>3 DEF AnswerOpened, Ready, Recall
<1>. QED
  BY <1>1, <1>3, <1>4, GiveEffect

(* The other answers have none. *)
LEMMA RestEffect ==
  ASSUME Base, NEW c \in Caller, AnswerOther(c) \/ AnswerRemoved(c) \/ (\E m : RenameAnswer(c, m))
  PROVE  Effect(c)
<1>1. /\ End(c) /\ call[c].script = <<>> /\ files' = files /\ host' = host
      /\ call[c].reply \in {"none", "attr", "removed", "renamed"}
  BY DEF AnswerOther, AnswerRemoved, RenameAnswer, Ready, Recall
<1>. QED
  BY <1>1, EndEffect

(* Nothing happens. *)
LEMMA SameEffect ==
  ASSUME NEW c \in Caller, UNCHANGED vars
  PROVE  Effect(c)
BY SameButRaced DEF vars, Effect, Passes

(* Every step has such an effect. *)
LEMMA EveryEffect ==
  ASSUME Kept, Next
  PROVE  \E c \in Caller :
           /\ Effect(c)
           /\ \/ \E q : SendStep(c, q)
              \/ BeginLost(c)
              \/ \E q : BeginForm(c, q)
              \/ IsHost(host') /\ \E q, v : Called(c, q, v)
              \/ IsHost(host') /\ CallFails(c)
              \/ \E m, i : \E opened \in BOOLEAN : EntryAnswer(c, m, i, opened)
              \/ AnswerOpened(c)
              \/ \E m : RenameAnswer(c, m)
              \/ AnswerRemoved(c)
              \/ AnswerOther(c)
<1>1. PICK c \in Caller :
           \/ \E q : SendStep(c, q)
           \/ BeginLost(c)
           \/ \E q : BeginForm(c, q)
           \/ IsHost(host') /\ \E q, v : Called(c, q, v)
           \/ IsHost(host') /\ CallFails(c)
           \/ \E m, i : \E opened \in BOOLEAN : EntryAnswer(c, m, i, opened)
           \/ AnswerOpened(c)
           \/ \E m : RenameAnswer(c, m)
           \/ AnswerRemoved(c)
           \/ AnswerOther(c)
  BY EveryStep
<1>2. Base /\ Found
  BY DEF Kept
<1>3. CASE IsHost(host') /\ \E q, v : Called(c, q, v)
  <2>1. Effect(c)
    BY <1>2, <1>3, CallEffect
  <2>. QED
    BY <1>3, <2>1
<1>4. CASE \E m, i : \E opened \in BOOLEAN : EntryAnswer(c, m, i, opened)
  <2>1. Effect(c)
    BY <1>2, <1>4, EntryEffect
  <2>. QED
    BY <1>4, <2>1
<1>5. CASE \E q : SendStep(c, q)
  <2>1. Effect(c)
    BY <1>2, <1>5, SentEffect
  <2>. QED
    BY <1>5, <2>1
<1>6. CASE BeginLost(c) \/ \E q : BeginForm(c, q)
  <2>1. Effect(c)
    BY <1>2, <1>6, LostEffect, BeginEffect
  <2>. QED
    BY <1>6, <2>1
<1>7. CASE (IsHost(host') /\ CallFails(c)) \/ AnswerOpened(c)
  <2>1. Effect(c)
    BY <1>2, <1>7, FailsEffect, OpenedEffect
  <2>. QED
    BY <1>7, <2>1
<1>8. CASE (\E m : RenameAnswer(c, m)) \/ AnswerRemoved(c) \/ AnswerOther(c)
  <2>1. Effect(c)
    BY <1>2, <1>8, RestEffect
  <2>. QED
    BY <1>8, <2>1
<1>. QED
  BY <1>1, <1>3, <1>4, <1>5, <1>6, <1>7, <1>8

-----------------------------------------------------------------------------
(* What is open is a file. *)

(* What a request has opened: a file for open, and for create the one that
   has the name. *)
OpenedFit(r, e, ds) ==
  /\ HasOwn(r) /\ r.reply = "opened" => ds[r.own] \in Node \cup {Elsewhere}
  /\ HasOwn(r) /\ r.reply = "created" => ds[r.own] = e[r.name] /\ ds[r.own] \in Node
OpenedRight == \A c \in Caller : OpenedFit(call[c], host.entry, host.desc)

FilesKnown == \A f \in files : f.node \in Node \cup {Elsewhere}

(* What was opened fits, one step later. *)
LEMMA OpenedLater ==
  ASSUME NEW c \in Caller, NEW q, call'[c] = q, OpenedFit(q, host'.entry, host'.desc)
  PROVE  OpenedFit(call[c], host.entry, host.desc)'
BY ConstantLater DEF OpenedFit, HasOwn

(* The step of one request, for what the others opened. *)
LEMMA OpenedOthers ==
  ASSUME Base, Owned, OpenedRight, NEW c \in Caller, Effect(c),
         host'.entry = host.entry \/ call[c].lock = "exclusive",
         NEW q, call'[c] = q, OpenedFit(q, host'.entry, host'.desc)
  PROVE  OpenedRight'
<1>1. ASSUME NEW d \in Caller, NEW r, r = call'[d]
      PROVE  OpenedFit(r, host'.entry, host'.desc)
  <2>1. CASE d = c
    BY <1>1, <2>1
  <2>2. CASE d # c
    <3>1. ButRaced(call[d], r) /\ OpenedFit(call[d], host.entry, host.desc)
      BY <1>1, <2>2 DEF OpenedRight, Effect
    <3>2. HasOwn(call[d]) => host'.desc[call[d].own] = host.desc[call[d].own]
      BY <2>2, OwnedEffect
    <3>3. call[d].reply = "created" => host'.entry = host.entry
      BY <2>2, LockedReply DEF Base, Locked
    <3>. QED
      BY <3>1, <3>2, <3>3 DEF ButRaced, OpenedFit, HasOwn
  <2>. QED
    BY <2>1, <2>2
<1>2. ASSUME NEW d \in Caller PROVE OpenedFit(call[d], host.entry, host.desc)'
  <2>1. PICK r : r = call'[d]
    OBVIOUS
  <2>. QED
    BY <1>1, <2>1, OpenedLater
<1>. QED
  BY <1>2, ConstantLater DEF OpenedRight

(* A step that opens nothing and changes no name. *)
LEMMA OpenedNothing ==
  ASSUME Base, Owned, OpenedRight, NEW c \in Caller, Effect(c), host'.entry = host.entry,
         \/ ~ HasOwn(call'[c])
         \/ /\ call'[c].own = call[c].own /\ call'[c].reply = call[c].reply
            /\ call'[c].name = call[c].name /\ host'.desc = host.desc
  PROVE  OpenedRight'
<1>1. PICK q : q = call'[c]
  OBVIOUS
<1>2. OpenedFit(call[c], host.entry, host.desc)
  BY DEF OpenedRight
<1>3. OpenedFit(q, host'.entry, host'.desc)
  BY <1>1, <1>2 DEF OpenedFit, HasOwn
<1>. QED
  BY <1>1, <1>3, OpenedOthers

(* What was opened, after sending. *)
LEMMA OpenedSent ==
  ASSUME Base, Owned, OpenedRight, NEW c \in Caller, NEW q, SendStep(c, q)
  PROVE  OpenedRight'
<1>1. Effect(c) /\ call'[c] = q /\ host' = host
  BY SentEffect, SentCalls DEF Base, SendStep
<1>2. OpenedFit(q, host'.entry, host'.desc)
  <2>1. CASE q.own \in {0, NoFd}
    BY <2>1, RootIs DEF OpenedFit, HasOwn
  <2>2. CASE \E f \in files : q.own = f.fd /\ q.fd = f.fd
    <3>1. q.fd \in Fd /\ q.fd # NoFd
      BY <2>2, RootIs DEF Base, Told
    <3>2. LockFit(q, Left(q.script)) /\ FileFit(q, Left(q.script)) /\ q \in Request
      BY DEF SendStep, Sent, Fit
    <3>3. q.reply \notin {"created", "opened"}
      BY <3>1, <3>2 DEF LockFit, FileFit, Request
    <3>. QED
      BY <3>3 DEF OpenedFit
  <2>. QED
    BY <2>1, <2>2 DEF SendStep, Sent
<1>. QED
  BY <1>1, <1>2, OpenedOthers

(* What was opened, after a begin. *)
LEMMA OpenedBegin ==
  ASSUME Base, Owned, OpenedRight, NEW c \in Caller, NEW q, BeginForm(c, q)
  PROVE  OpenedRight'
<1>1. Effect(c) /\ call'[c] = q /\ host' = host
  BY BeginEffect, BeginLater DEF Base, BeginForm, Takes
<1>2. q.own = call[c].own /\ q.reply = call[c].reply
      /\ q.name = IF call[c].num = Root THEN call[c].name ELSE map.inodes[call[c].num].name
  BY DEF BeginForm, Started
<1>3. call[c].reply = "created" => q.name = call[c].name
  BY <1>2, LockedReply DEF Base
<1>4. OpenedFit(call[c], host.entry, host.desc)
  BY DEF OpenedRight
<1>5. OpenedFit(q, host'.entry, host'.desc)
  BY <1>1, <1>2, <1>3, <1>4 DEF OpenedFit, HasOwn
<1>. QED
  BY <1>1, <1>5, OpenedOthers

(* What was opened, after a call. *)
LEMMA OpenedCall ==
  ASSUME Base, Owned, OpenedRight, NEW c \in Caller, IsHost(host'), NEW q, NEW v, Called(c, q, v)
  PROVE  OpenedRight'
<1>0. /\ Runs(c, q) /\ call'[c] = q /\ Effect(c)
  BY BaseCall, CallEffect DEF Called
<1>1. /\ Fit(call[c]) /\ call[c].script # <<>> /\ Head(call[c].script) \in Left(call[c].script)
      /\ q.reply = call[c].reply /\ q.name = call[c].name /\ call[c].step = "running"
  BY <1>0, NowCall, OneLess DEF Runs, Base, Fit, Scripted, Same
<1>2. CASE PathForm(c, q, v) \/ WaitForm(c, q) \/ OwnForm(c, q, v) \/ HandleForm(c, q, v)
  <2>1. host' = host /\ q.own = call[c].own
    BY <1>2 DEF PathForm, WaitForm, OwnForm, HandleForm
  <2>. QED
    BY <1>0, <1>1, <2>1, OpenedNothing
<1>3. CASE CloseForm(c, q, v)
  BY <1>0, <1>3, OpenedNothing, RootIs DEF CloseForm, HasOwn
<1>4. CASE NameForm(c, q) \/ CreatForm(c, q, v)
  <2>1. Head(call[c].script) \in Renaming
    BY <1>4 DEF NameForm, CreatForm, Renaming
  <2>2. call[c].lock = "exclusive" /\ call[c].name \in Name
    BY <1>0, <1>1, <2>1, RenamingCall DEF Base
  <2>3. LockFit(call[c], Left(call[c].script))
    BY <1>1 DEF Fit
  <2>4. call[c].reply # "opened"
    BY <2>2, <2>3 DEF LockFit, AloneFit
  <2>5. CASE NameForm(c, q)
    <3>1. call[c].reply # "created"
      BY <1>1, <2>1, <2>2, <2>3, <2>5 DEF LockFit, AloneFit, NameForm, Never
    <3>2. OpenedFit(q, host'.entry, host'.desc)
      BY <1>1, <2>4, <3>1 DEF OpenedFit
    <3>. QED
      BY <1>0, <2>2, <3>2, OpenedOthers
  <2>6. CASE CreatForm(c, q, v)
    <3>1. /\ q.own \in Fd /\ host'.desc = [host.desc EXCEPT ![q.own] = v]
          /\ host'.entry = [host.entry EXCEPT ![call[c].name] = v] /\ v \in Node
      BY <2>6 DEF CreatForm, Opened
    <3>2. host'.desc[q.own] = v /\ host'.entry[call[c].name] = v
      BY <2>2, <3>1, NamesApart DEF Base, Hosted
    <3>3. OpenedFit(q, host'.entry, host'.desc)
      BY <1>1, <2>4, <3>1, <3>2 DEF OpenedFit
    <3>. QED
      BY <1>0, <2>2, <3>3, OpenedOthers
  <2>. QED
    BY <1>4, <2>5, <2>6
<1>5. CASE OpenForm(c, q, v)
  <2>1. /\ q.own \in Fd /\ host'.desc = [host.desc EXCEPT ![q.own] = v] /\ host'.entry = host.entry
        /\ Head(call[c].script) = "open" /\ v = Followed(At(c)) /\ At(c) # NoNode
    BY <1>5 DEF OpenForm, Opened
  <2>2. host'.desc[q.own] = v
    BY <2>1 DEF Base, Hosted
  <2>3. call[c].reply # "created"
    BY <1>1, <2>1 DEF Fit, LockFit, AloneFit, Never, Request
  <2>4. call[c].reply = "opened" => v \in Node \cup {Elsewhere}
    <3>1. call[c].reply = "opened" => call[c].name \in Name
      BY <1>1 DEF Fit, LockFit
    <3>. QED
      BY <2>1, <3>1, AtThing DEF Followed, Base
  <2>5. OpenedFit(q, host'.entry, host'.desc)
    BY <1>1, <2>2, <2>3, <2>4 DEF OpenedFit
  <2>. QED
    BY <1>0, <2>1, <2>5, OpenedOthers
<1>. QED
  BY <1>2, <1>3, <1>4, <1>5 DEF Called

(* What was opened, after the end of a request. *)
LEMMA OpenedEnd ==
  ASSUME Base, Owned, OpenedRight, NEW c \in Caller, Effect(c), End(c), host'.entry = host.entry
  PROVE  OpenedRight'
<1>1. call'[c].own = NoFd
  BY NoCallReplies DEF End, Base, Shaped, NoReply
<1>. QED
  BY <1>1, OpenedNothing, RootIs DEF HasOwn

(* These are inductive. *)
LEMMA OpenedNext ==
  ASSUME Kept, Owned, OpenedRight, FilesKnown, [Next]_vars
  PROVE  Owned' /\ OpenedRight' /\ FilesKnown'
<1>0. Base /\ Found
  BY DEF Kept
<1>1. CASE UNCHANGED vars
  <2>1. UNCHANGED <<call, host, files>>
    BY <1>1 DEF vars
  <2>2. ASSUME NEW d \in Caller PROVE OpenedFit(call[d], host.entry, host.desc)'
    <3>1. PICK r : r = call'[d]
      OBVIOUS
    <3>2. OpenedFit(r, host'.entry, host'.desc)
      BY <2>1, <3>1 DEF OpenedRight
    <3>. QED
      BY <3>1, <3>2, OpenedLater
  <2>. QED
    BY <2>1, <2>2, ConstantLater DEF Owned, OwnOf, OwnedBy, OpenedRight, FilesKnown
<1>2. CASE Next
  <2>1. PICK c \in Caller :
           /\ Effect(c)
           /\ \/ \E q : SendStep(c, q)
              \/ BeginLost(c)
              \/ \E q : BeginForm(c, q)
              \/ IsHost(host') /\ \E q, v : Called(c, q, v)
              \/ IsHost(host') /\ CallFails(c)
              \/ \E m, i : \E opened \in BOOLEAN : EntryAnswer(c, m, i, opened)
              \/ AnswerOpened(c)
              \/ \E m : RenameAnswer(c, m)
              \/ AnswerRemoved(c)
              \/ AnswerOther(c)
    BY <1>2, EveryEffect
  <2>2. Owned'
    BY <1>0, <2>1, OwnedEffect
  <2>3. ASSUME files' \subseteq files PROVE FilesKnown'
    BY <2>3, ConstantLater DEF FilesKnown
  <2>4. OpenedFit(call[c], host.entry, host.desc)
    BY DEF OpenedRight
  <2>5. CASE \E q : SendStep(c, q)
    <3>1. files' \subseteq files
      BY <1>0, <2>5, SentTold DEF Base
    <3>. QED
      BY <1>0, <2>2, <2>3, <2>5, <3>1, OpenedSent
  <2>6. CASE \E q : BeginForm(c, q)
    <3>1. files' \subseteq files
      BY <2>6 DEF BeginForm, Takes
    <3>. QED
      BY <1>0, <2>2, <2>3, <2>6, <3>1, OpenedBegin
  <2>7. CASE IsHost(host') /\ \E q, v : Called(c, q, v)
    <3>1. PICK q, v : Called(c, q, v)
      BY <2>7
    <3>2. Runs(c, q)
      BY <1>0, <2>7, <3>1, BaseCall DEF Called
    <3>3. files' \subseteq files
      BY <3>2 DEF Runs
    <3>. QED
      BY <1>0, <2>2, <2>3, <2>7, <3>1, <3>3, OpenedCall
  <2>8. CASE BeginLost(c) \/ (IsHost(host') /\ CallFails(c)) \/ AnswerRemoved(c) \/ AnswerOther(c)
             \/ \E m : RenameAnswer(c, m)
    <3>1. End(c) /\ host'.entry = host.entry /\ files' \subseteq files
      BY <1>0, <2>8 DEF BeginLost, Takes, End, CallFails, Refused, Recall, AnswerRemoved, AnswerOther,
         RenameAnswer, Ready, Base, Hosted
    <3>. QED
      BY <1>0, <2>1, <2>2, <2>3, <3>1, OpenedEnd
  <2>9. CASE \E m, i : \E opened \in BOOLEAN : EntryAnswer(c, m, i, opened)
    <3>1. PICK m, i : \E opened \in BOOLEAN : EntryAnswer(c, m, i, opened)
      BY <2>9
    <3>2. PICK opened \in BOOLEAN : EntryAnswer(c, m, i, opened)
      BY <3>1
    <3>3. End(c) /\ host' = host /\ Running(c) /\ call[c].script = <<>>
          /\ call[c].reply \in {"entry", "created"} /\ (opened = (call[c].reply = "created"))
      BY <3>2 DEF EntryAnswer
    <3>4. /\ opened => HasOwn(call[c])
          /\ files' = IF opened THEN files \cup {[fd |-> call[c].own, num |-> i, node |-> call[c].found]}
                      ELSE files
      BY <1>0, <3>2, EntryEffect
    <3>5. opened => call[c].found \in Node
      BY <1>0, <2>4, <3>3, <3>4, FoundIs DEF OpenedFit
    <3>6. FilesKnown'
      BY <3>4, <3>5, ConstantLater DEF FilesKnown
    <3>. QED
      BY <1>0, <2>1, <2>2, <3>3, <3>6, OpenedEnd
  <2>10. CASE AnswerOpened(c)
    <3>1. HasOwn(call[c]) /\ call[c].reply = "opened"
      BY <1>0, <2>10, OpenedEffect DEF AnswerOpened, Ready
    <3>2. PICK v : v = IF call[c].raced THEN host.desc[call[c].own] ELSE call[c].node
      OBVIOUS
    <3>3. End(c) /\ host' = host
          /\ files' = files \cup {[fd |-> call[c].own, num |-> call[c].num, node |-> v]}
      BY <2>10, <3>2 DEF AnswerOpened, Ready, Recall
    <3>4. call[c].node \in File
      BY <1>0, <3>1, NowCall DEF Fit, FileFit, Base
    <3>5. v \in Node \cup {Elsewhere}
      BY <2>4, <3>1, <3>2, <3>4 DEF OpenedFit, Node
    <3>6. FilesKnown'
      BY <3>3, <3>5, ConstantLater DEF FilesKnown
    <3>. QED
      BY <1>0, <2>1, <2>2, <3>3, <3>6, OpenedEnd
  <2>. QED
    BY <2>1, <2>5, <2>6, <2>7, <2>8, <2>9, <2>10
<1>. QED
  BY <1>1, <1>2

(* They hold in the beginning, when nothing is open. *)
LEMMA InitOwned == Init => Owned /\ AllHeld /\ OpenedRight /\ FilesKnown
<1>1. SUFFICES ASSUME Init PROVE Owned /\ AllHeld /\ OpenedRight /\ FilesKnown
  OBVIOUS
<1>2. \A c \in Caller : call[c] = NoCall /\ call[c].own = NoFd
  BY <1>1, NoCallReplies DEF Init, NoReply
<1>3. files = {} /\ \A d \in Fd \ {0} : host.desc[d] = NoNode
  BY <1>1, RootIs DEF Init
<1>4. PICK o : o = OwnOf
  OBVIOUS
<1>5. \A c \in Caller : o[c] = NoFd
  BY <1>2, <1>4 DEF OwnOf
<1>6. OwnedBy(o, files, host.desc) /\ HeldBy(o, files, host.desc)
  BY <1>3, <1>5, RootIs DEF OwnedBy, HeldBy
<1>. QED
  BY <1>2, <1>3, <1>4, <1>6, RootIs DEF Owned, AllHeld, OpenedRight, OpenedFit, HasOwn, FilesKnown

(* They give the types. *)
LEMMA TypesKept ==
  ASSUME Base, FilesKnown
  PROVE  TypeOK
<1>1. /\ host.entry \in [Name \cup {RootName} -> Node \cup {NoNode, RootNode}]
      /\ host.desc \in [Fd -> Node \cup {NoNode, RootNode, Elsewhere}]
  BY DEF Base, Hosted, AName, Thing
<1>2. dent \in [Name -> 0 .. MaxInode]
      /\ means \in [1 .. MaxInode -> Node \cup {NoNode, RootNode}]
  BY DEF Base, Mapped, Told
<1>3. files \subseteq [fd : Fd, num : 1 .. MaxInode, node : Node \cup {Elsewhere}]
  <2>1. ASSUME NEW f \in files PROVE f \in [fd : Fd, num : 1 .. MaxInode, node : Node \cup {Elsewhere}]
    <3>1. f \in [fd : Fd \ {0}, num : 2 .. MaxInode, node : Thing]
      BY <2>1 DEF Base, Told
    <3>2. f.fd \in Fd /\ f.num \in 1 .. MaxInode /\ f.node \in Node \cup {Elsewhere}
      BY <3>1, RootIs DEF FilesKnown
    <3>. QED
      BY <3>1, <3>2
  <2>. QED
    BY <2>1
<1>4. /\ \A c \in Caller : call[c].step = "queued" <=> \E k \in DOMAIN queue : queue[k] = c
      /\ Len(queue) = Cardinality({c \in Caller : call[c].step = "queued"})
      /\ Cardinality({c \in Caller : Running(c)}) <= threads
  BY DEF Base, Pool, InStep, Running
<1>. QED
  BY <1>1, <1>2, <1>3, <1>4 DEF TypeOK

(* Every state of the mount is well formed: the requests in the queue are
   the queued ones, each once, no more run than there are threads, every
   entry, descriptor and number has what it may have. *)
THEOREM MountTypes == Spec => []TypeOK
<1>1. Init => Kept /\ Owned /\ OpenedRight /\ FilesKnown
  BY InitKept, InitOwned
<1>2. (Kept /\ Owned /\ OpenedRight /\ FilesKnown) /\ [Next]_vars
        => (Kept /\ Owned /\ OpenedRight /\ FilesKnown)'
  BY KeptNext, OpenedNext
<1>3. Kept /\ Owned /\ OpenedRight /\ FilesKnown => TypeOK
  BY TypesKept DEF Kept
<1>. QED
  BY <1>1, <1>2, <1>3, PTL DEF Spec

-----------------------------------------------------------------------------
(* A number in use stays. *)

(* No number that a request or an open file has is taken away, neither now
   nor by the rename that goes on. *)
Alive ==
  /\ \A c \in Caller : call[c].num \in mapper!Present(map)
  /\ \A f \in files : f.num \in mapper!Present(map)
  /\ \A c \in Caller : call[c].reply = "renamed" =>
       /\ \A d \in Caller : call[d].num # mapper!Child(map, Root, call[c].newname)
       /\ \A f \in files : f.num # mapper!Child(map, Root, call[c].newname)

(* A rename that was made has a listed target, which is not the directory. *)
LEMMA RenamedChild ==
  ASSUME Base, NEW c \in Caller, call[c].reply = "renamed"
  PROVE  /\ mapper!Listed(map, Root, call[c].newname)
         /\ mapper!Child(map, Root, call[c].newname) # Root
BY MapChild DEF Base, Mapped

(* Alive after a step, in terms of the new values. *)
LEMMA AliveLater ==
  ASSUME NEW m, map' = m,
         \A c \in Caller : call'[c].num \in mapper!Present(m),
         \A f \in files' : f.num \in mapper!Present(m),
         \A c \in Caller : call'[c].reply = "renamed" =>
           /\ \A d \in Caller : call'[d].num # mapper!Child(m, Root, call'[c].newname)
           /\ \A f \in files' : f.num # mapper!Child(m, Root, call'[c].newname)
  PROVE  Alive'
<1>1. mapper!Present(map)' = mapper!Present(m)
  BY DEF mapper!Present
<1>2. \A n : mapper!Child(map, Root, n)' = mapper!Child(m, Root, n)
  BY DEF mapper!Child, mapper!Children, Root
<1>. QED
  BY <1>1, <1>2, ConstantLater DEF Alive, mapper!Present, mapper!Child, mapper!Children, Root

(* Requests that go on or end keep theirs. *)
LEMMA AliveCalms ==
  ASSUME Base, Alive, Calms, UNCHANGED map,
         \A f \in files' : \/ \E d \in Caller : f.num = call[d].num
                          \/ \E g \in files : f.num = g.num
  PROVE  Alive'
<1>1. Root \in mapper!Present(map)
  BY MapNumbers DEF Base, Mapped
<1>2. ASSUME NEW c \in Caller
      PROVE  /\ call'[c].num \in {Root, call[c].num}
             /\ call'[c].reply = "renamed" =>
                  call[c].reply = "renamed" /\ call'[c].newname = call[c].newname
  BY <1>2, NoCallReplies DEF Calms, Alike, NoReply
<1>3. \A c \in Caller : call'[c].num \in mapper!Present(map)
  BY <1>1, <1>2 DEF Alive
<1>4. \A f \in files' : f.num \in mapper!Present(map)
  BY DEF Alive
<1>5. ASSUME NEW c \in Caller, call'[c].reply = "renamed"
      PROVE  /\ \A d \in Caller : call'[d].num # mapper!Child(map, Root, call'[c].newname)
             /\ \A f \in files' : f.num # mapper!Child(map, Root, call'[c].newname)
  <2>1. call[c].reply = "renamed" /\ call'[c].newname = call[c].newname
    BY <1>2, <1>5
  <2>2. mapper!Child(map, Root, call[c].newname) # Root
    BY <2>1, RenamedChild
  <2>3. /\ \A d \in Caller : call[d].num # mapper!Child(map, Root, call[c].newname)
        /\ \A f \in files : f.num # mapper!Child(map, Root, call[c].newname)
    BY <2>1 DEF Alive
  <2>4. \A d \in Caller : call'[d].num # mapper!Child(map, Root, call[c].newname)
    BY <1>2, <2>2, <2>3
  <2>5. \A f \in files' : f.num # mapper!Child(map, Root, call[c].newname)
    BY <2>3
  <2>. QED
    BY <2>1, <2>4, <2>5
<1>. QED
  BY <1>3, <1>4, <1>5, AliveLater

(* The kernel does not use a number that is being taken away. *)
LEMMA AliveSent ==
  ASSUME ~ InUse, Base, Alive, NEW c \in Caller, NEW q, SendStep(c, q)
  PROVE  Alive'
<1>1. /\ call'[c] = q /\ call[c] = NoCall /\ \A d \in Caller : d # c => call'[d] = call[d]
      /\ map' = map /\ files' \subseteq files /\ Fit(q)
  BY SentCalls, SentTold DEF Base, SendStep, Sent
<1>2. /\ q.num \in mapper!Present(map)
      /\ \A d \in Caller : call[d].reply = "renamed" =>
           q.num # mapper!Child(map, Root, call[d].newname)
  <2>1. CASE q.num = Root
    BY <2>1, MapNumbers, RenamedChild DEF Base, Mapped
  <2>2. CASE q.num \in Usable
    <3>1. PICK n \in Name : q.num = dent[n] /\ dent[n] # 0
      BY <2>2 DEF Usable
    <3>2. mapper!Listed(map, Root, n) /\ mapper!Child(map, Root, n) = q.num
      BY <3>1 DEF Base, Mapped
    <3>3. q.num \in mapper!Present(map)
      BY <3>2, MapChild DEF Base, Mapped
    <3>4. q.num \notin Taken
      BY <2>2 DEF Usable
    <3>. QED
      BY <3>3, <3>4 DEF Taken
  <2>3. CASE \E f \in files : q.num = f.num
    BY <2>3 DEF Alive
  <2>. QED
    BY <2>1, <2>2, <2>3 DEF SendStep, Sent
<1>3. q.reply = "renamed" =>
        /\ q.num # mapper!Child(map, Root, q.newname)
        /\ \A d \in Caller : call[d].num # mapper!Child(map, Root, q.newname)
        /\ \A f \in files : f.num # mapper!Child(map, Root, q.newname)
  <2>1. ASSUME q.reply = "renamed" PROVE q.num = Root
    BY <1>1, <2>1 DEF Fit, LockFit, Request
  <2>2. ASSUME q.reply = "renamed"
        PROVE  mapper!Child(map, Root, q.newname) \notin Used /\ mapper!Listed(map, Root, q.newname)
    BY <2>2 DEF SendStep, Sent
  <2>3. ASSUME q.reply = "renamed" PROVE mapper!Child(map, Root, q.newname) # Root
    BY <2>2, <2>3, MapChild DEF Base, Mapped
  <2>. QED
    BY <2>1, <2>2, <2>3 DEF Used
<1>4. \A d \in Caller : call'[d].num \in mapper!Present(map)
  BY <1>1, <1>2 DEF Alive
<1>5. \A f \in files' : f.num \in mapper!Present(map)
  BY <1>1 DEF Alive
<1>6. ASSUME NEW e \in Caller, call'[e].reply = "renamed"
      PROVE  /\ \A d \in Caller : call'[d].num # mapper!Child(map, Root, call'[e].newname)
             /\ \A f \in files' : f.num # mapper!Child(map, Root, call'[e].newname)
  <2>1. CASE e = c
    BY <1>1, <1>3, <1>6, <2>1
  <2>2. CASE e # c
    <3>1. call[e].reply = "renamed" /\ call'[e] = call[e]
      BY <1>1, <1>6, <2>2
    <3>. QED
      BY <1>1, <1>2, <3>1 DEF Alive
  <2>. QED
    BY <2>1, <2>2
<1>. QED
  BY <1>1, <1>4, <1>5, <1>6, AliveLater

(* An answer with an entry. *)
LEMMA AliveEntry ==
  ASSUME Base, Found, Alive, NEW c \in Caller, NEW m, NEW i, NEW opened \in BOOLEAN,
         EntryAnswer(c, m, i, opened)
  PROVE  Alive'
<1>1. /\ End(c) /\ EntryMap(call[c].name, m, i) /\ map' = m
      /\ call[c].reply \in {"entry", "created"}
  BY DEF EntryAnswer
<1>2. call'[c] = NoCall /\ \A d \in Caller : d # c => call'[d] = call[d]
  BY <1>1 DEF End, Base, Shaped
<1>3. call[c].lock # "none"
  BY <1>1, LockedReply DEF Base
<1>4. \A d \in Caller : call'[d].reply # "renamed"
  BY <1>2, <1>3, Alone, NoCallReplies DEF NoReply
<1>5. GoodMap(m) /\ Root \in mapper!Present(m) /\ i \in mapper!Present(m)
      /\ mapper!Present(map) \subseteq mapper!Present(m)
  BY <1>1, MapNumbers, MapChild DEF EntryMap
<1>6. \A d \in Caller : call'[d].num \in mapper!Present(m)
  BY <1>2, <1>5, NoCallReplies DEF NoReply, Alive
<1>7. \A f \in files' : f.num \in mapper!Present(m)
  <2>1. files' = IF opened THEN files \cup {[fd |-> call[c].own, num |-> i, node |-> call[c].found]}
                 ELSE files
    BY EntryEffect
  <2>. QED
    BY <1>5, <2>1 DEF Alive
<1>. QED
  BY <1>1, <1>4, <1>6, <1>7, AliveLater

(* The number a rename takes away is nobody's. *)
LEMMA AliveRenamed ==
  ASSUME Base, Alive, NEW c \in Caller, NEW m, RenameAnswer(c, m)
  PROVE  Alive'
<1>1. /\ End(c) /\ map' = m /\ MovedMap(call[c].name, call[c].newname, m)
      /\ call[c].reply = "renamed" /\ call[c].lock = "exclusive"
      /\ files' = files
  BY DEF RenameAnswer, Recall
<1>2. call'[c] = NoCall /\ \A d \in Caller : d # c => call'[d] = call[d]
  BY <1>1 DEF End, Base, Shaped
<1>3. \A d \in Caller : call'[d].reply # "renamed"
  BY <1>1, <1>2, Alone, NoCallReplies DEF NoReply
<1>4. GoodMap(m) /\ Root \in mapper!Present(m)
      /\ mapper!Present(m) = mapper!Present(map) \ {mapper!Child(map, Root, call[c].newname)}
  BY <1>1, MapNumbers DEF MovedMap
<1>5. \A d \in Caller : call'[d].num \in mapper!Present(m)
  BY <1>1, <1>2, <1>4, NoCallReplies DEF NoReply, Alive
<1>6. \A f \in files' : f.num \in mapper!Present(m)
  BY <1>1, <1>4 DEF Alive
<1>. QED
  BY <1>1, <1>3, <1>5, <1>6, AliveLater

(* A request that ends, and what it opened has its number. *)
LEMMA AliveEnds ==
  ASSUME Base, Alive, NEW c \in Caller, End(c), UNCHANGED map,
         \A f \in files' : f.num = call[c].num \/ f \in files
  PROVE  Alive'
<1>1. call'[c] = NoCall /\ \A d \in Caller : d # c => call'[d] = call[d]
  BY DEF End, Base, Shaped
<1>2. Calms
  BY <1>1, OneCalms
<1>. QED
  BY <1>2, AliveCalms

(* Alive is inductive, if names in use are not replaced. *)
LEMMA AliveNext ==
  ASSUME ~ InUse, Kept, Alive, [Next]_vars
  PROVE  Alive'
<1>0. Base /\ Found
  BY DEF Kept
<1>1. CASE UNCHANGED vars
  <2>1. /\ UNCHANGED <<map, files>> /\ \A d \in Caller : call'[d] = call[d]
    BY <1>1 DEF vars
  <2>2. Calms
    BY <2>1 DEF Calms, Alike
  <2>. QED
    BY <1>0, <2>1, <2>2, AliveCalms
<1>2. CASE Next
  <2>1. PICK c \in Caller :
           \/ \E q : SendStep(c, q)
           \/ BeginLost(c)
           \/ \E q : BeginForm(c, q)
           \/ IsHost(host') /\ \E q, v : Called(c, q, v)
           \/ IsHost(host') /\ CallFails(c)
           \/ \E m, i : \E opened \in BOOLEAN : EntryAnswer(c, m, i, opened)
           \/ AnswerOpened(c)
           \/ \E m : RenameAnswer(c, m)
           \/ AnswerRemoved(c)
           \/ AnswerOther(c)
    BY <1>2, EveryStep
  <2>2. CASE \E q : SendStep(c, q)
    BY <1>0, <2>2, AliveSent
  <2>3. CASE \E q : BeginForm(c, q)
    <3>1. PICK q : BeginForm(c, q)
      BY <2>3
    <3>2. Calms /\ UNCHANGED <<map, files>>
      BY <1>0, <3>1, BeginCalms DEF Base, BeginForm, Takes
    <3>. QED
      BY <1>0, <3>2, AliveCalms
  <2>4. CASE IsHost(host') /\ \E q, v : Called(c, q, v)
    <3>1. PICK q, v : Called(c, q, v)
      BY <2>4
    <3>2. /\ Runs(c, q) /\ call'[c] = q /\ \A d \in Caller : d # c => call'[d] = call[d]
      BY <1>0, <2>4, <3>1, BaseCall DEF Called
    <3>3. Calms /\ UNCHANGED <<map, files>>
      BY <3>2, RunsCalms DEF Runs
    <3>. QED
      BY <1>0, <3>3, AliveCalms
  <2>5. CASE BeginLost(c) \/ CallFails(c) \/ AnswerRemoved(c) \/ AnswerOther(c)
    <3>1. End(c) /\ UNCHANGED <<map, files>>
      BY <2>5 DEF BeginLost, Takes, End, CallFails, Refused, Recall, AnswerRemoved, AnswerOther, Ready
    <3>. QED
      BY <1>0, <3>1, AliveEnds
  <2>6. CASE AnswerOpened(c)
    <3>1. PICK v : v = IF call[c].raced THEN host.desc[call[c].own] ELSE call[c].node
      OBVIOUS
    <3>2. End(c) /\ UNCHANGED map
          /\ files' = files \cup {[fd |-> call[c].own, num |-> call[c].num, node |-> v]}
      BY <2>6, <3>1 DEF AnswerOpened, Ready, Recall
    <3>. QED
      BY <1>0, <3>2, AliveEnds
  <2>7. CASE \E m, i : \E opened \in BOOLEAN : EntryAnswer(c, m, i, opened)
    BY <1>0, <2>7, AliveEntry
  <2>8. CASE \E m : RenameAnswer(c, m)
    BY <1>0, <2>8, AliveRenamed
  <2>. QED
    BY <2>1, <2>2, <2>3, <2>4, <2>5, <2>6, <2>7, <2>8
<1>. QED
  BY <1>1, <1>2

(* It holds in the beginning. *)
LEMMA InitAlive == Init => Alive
<1>1. SUFFICES ASSUME Init PROVE Alive
  OBVIOUS
<1>2. \A c \in Caller : call[c].num = Root /\ call[c].reply = "none"
  BY <1>1, NoCallReplies DEF Init, NoReply
<1>3. Root \in mapper!Present(map) /\ files = {}
  BY <1>1, MapNew DEF Init
<1>. QED
  BY <1>2, <1>3 DEF Alive

(* While numbers in use stay, no descriptor is left open without an owner. *)
LEMMA HeldNext ==
  ASSUME Kept, Owned, Alive, AllHeld, [Next]_vars
  PROVE  AllHeld'
<1>0. Base
  BY DEF Kept
<1>1. CASE UNCHANGED vars
  <2>1. UNCHANGED <<call, host, files>>
    BY <1>1 DEF vars
  <2>. QED
    BY <2>1, ConstantLater DEF AllHeld, HeldBy, OwnOf
<1>2. CASE Next
  <2>1. PICK c \in Caller : Effect(c)
    BY <1>2, EveryEffect
  <2>2. call[c].num \in mapper!Present(map)
    BY DEF Alive
  <2>. QED
    BY <1>0, <2>1, <2>2, OwnedEffect
<1>. QED
  BY <1>1, <1>2

(* Each open descriptor has one owner, counted. *)
LEMMA OwnersCounted ==
  ASSUME Owned, AllHeld
  PROVE  DescriptorsOwned
<1>. DEFINE os(d) == {c \in Caller : call[c].own = d}
            fs(d) == {f \in files : f.fd = d}
<1>1. ASSUME NEW d \in Fd \ {0}
      PROVE  Cardinality(os(d)) + Cardinality(fs(d)) = IF host.desc[d] = NoNode THEN 0 ELSE 1
  <2>1. PICK o : o = OwnOf
    OBVIOUS
  <2>2. /\ \A c \in Caller : o[c] = call[c].own
        /\ OwnedBy(o, files, host.desc) /\ HeldBy(o, files, host.desc)
    BY <2>1 DEF OwnOf, Owned, AllHeld
  <2>3. Cardinality({}) = 0 /\ \A x : Cardinality({x}) = 1
    BY FS_EmptySet, FS_Singleton
  <2>4. CASE host.desc[d] = NoNode
    <3>1. os(d) = {} /\ fs(d) = {}
      BY <1>1, <2>2, <2>4 DEF OwnedBy
    <3>. HIDE DEF os, fs
    <3>. QED
      BY <2>3, <2>4, <3>1
  <2>5. ASSUME NEW c \in Caller, o[c] = d, host.desc[d] # NoNode PROVE os(d) = {c} /\ fs(d) = {}
    BY <1>1, <2>2, <2>5 DEF OwnedBy
  <2>6. ASSUME NEW f \in files, f.fd = d, host.desc[d] # NoNode PROVE os(d) = {} /\ fs(d) = {f}
    BY <1>1, <2>2, <2>6 DEF OwnedBy
  <2>7. CASE host.desc[d] # NoNode
    <3>1. (\E c \in Caller : o[c] = d) \/ (\E f \in files : f.fd = d)
      BY <1>1, <2>2, <2>7 DEF HeldBy
    <3>2. \/ \E c : os(d) = {c} /\ fs(d) = {}
          \/ \E f : os(d) = {} /\ fs(d) = {f}
      BY <2>5, <2>6, <2>7, <3>1
    <3>. HIDE DEF os, fs
    <3>3. CASE \E c : os(d) = {c} /\ fs(d) = {}
      <4>1. Cardinality(os(d)) = 1 /\ Cardinality(fs(d)) = 0
        BY <2>3, <3>3
      <4>. QED
        BY <2>7, <4>1
    <3>4. CASE \E f : os(d) = {} /\ fs(d) = {f}
      <4>1. Cardinality(os(d)) = 0 /\ Cardinality(fs(d)) = 1
        BY <2>3, <3>4
      <4>. QED
        BY <2>7, <4>1
    <3>. QED
      BY <3>2, <3>3, <3>4
  <2>. QED
    BY <2>4, <2>7
<1>. QED
  BY <1>1 DEF DescriptorsOwned

(* If the kernel does not replace a name that is in use, every open
   descriptor belongs to exactly one request or one handle of the kernel:
   none is leaked and none is closed by two, whatever calls fail. *)
THEOREM DescriptorsOwnedAlways == ASSUME ~ InUse PROVE Spec => []DescriptorsOwned
<1>1. Init => Kept /\ Owned /\ OpenedRight /\ FilesKnown /\ Alive /\ AllHeld
  BY InitKept, InitOwned, InitAlive
<1>2. (Kept /\ Owned /\ OpenedRight /\ FilesKnown /\ Alive /\ AllHeld) /\ [Next]_vars
        => (Kept /\ Owned /\ OpenedRight /\ FilesKnown /\ Alive /\ AllHeld)'
  BY KeptNext, OpenedNext, AliveNext, HeldNext
<1>3. Kept /\ Owned /\ OpenedRight /\ FilesKnown /\ Alive /\ AllHeld => DescriptorsOwned
  BY OwnersCounted
<1>. QED
  BY <1>1, <1>2, <1>3, PTL DEF Spec

-----------------------------------------------------------------------------
(* The path of a request leads to its node: one request changes. *)

(* A request on a node by its path. *)
ByPath(r) == r.node \in Node /\ r.fd = NoFd

(* While its name does not change, a request by path has the name of its node. *)
OnRight ==
  \A c \in Caller : call[c].step = "running" /\ ByPath(call[c]) /\ ~ call[c].raced =>
    /\ host.entry[call[c].name] \in {call[c].node, NoNode}
    /\ \A x \in Caller : call[x].step = "running" => call[c].name \notin Changes(call[x])

(* A request by path has no lock, changes no name, and when it runs it has
   a name. *)
LEMMA PathUnlocked ==
  ASSUME Base, NEW c \in Caller, ByPath(call[c])
  PROVE  /\ call[c].num # Root /\ call[c].lock = "none" /\ Changes(call[c]) = {}
         /\ call[c].step = "running" => call[c].name \in Name
<1>1. Fit(call[c])
  BY DEF Base, Requested
<1>2. call[c].num # Root
  BY <1>1 DEF Fit, LockFit, ByPath
<1>3. call[c].lock \in {"none", "shared", "exclusive"}
  BY <1>1 DEF Fit, Request
<1>. QED
  BY <1>1, <1>2, <1>3 DEF Fit, LockFit, Changes

(* OnRight after a step, in terms of the new values. *)
LEMMA RightPrimed ==
  ASSUME \A c \in Caller : call'[c].step = "running" /\ ByPath(call'[c]) /\ ~ call'[c].raced =>
           /\ host'.entry[call'[c].name] \in {call'[c].node, NoNode}
           /\ \A x \in Caller : call'[x].step = "running" => call'[c].name \notin Changes(call'[x])
  PROVE  OnRight'
<1>1. \A e \in Caller : Changes(call[e])' = Changes(call'[e])
  BY DEF Changes
<1>2. \A e \in Caller : ByPath(call[e])' <=> ByPath(call'[e])
  BY ConstantLater DEF ByPath
<1>. QED
  BY <1>1, <1>2, ConstantLater DEF OnRight

(* One request takes a step that is not its beginning. *)
LEMMA RightStep ==
  ASSUME Base, OnRight, NEW c \in Caller, \A d \in Caller : d # c => call'[d] = call[d],
         \/ host'.entry = host.entry
         \/ /\ call[c].step = "running" /\ call[c].lock = "exclusive"
            /\ \A n \in Name : n \notin Changes(call[c]) => host'.entry[n] = host.entry[n],
         \/ call'[c].step # "running"
         \/ call[c].step = "running" /\ Same(call[c], call'[c])
  PROVE  OnRight'
<1>1. PICK q : q = call'[c]
  OBVIOUS
<1>2. ASSUME NEW d \in Caller, NEW r, r = call'[d], r.step = "running", ByPath(r), ~ r.raced
      PROVE  /\ host'.entry[r.name] \in {r.node, NoNode}
             /\ \A x \in Caller : call'[x].step = "running" => r.name \notin Changes(call'[x])
  <2>1. /\ call[d].step = "running" /\ ByPath(call[d]) /\ ~ call[d].raced
        /\ r.name = call[d].name /\ r.node = call[d].node
    <3>1. CASE d = c
      BY <1>2, <3>1 DEF Same, ByPath
    <3>2. CASE d # c
      BY <1>2, <3>2
    <3>. QED
      BY <3>1, <3>2
  <2>2. /\ host.entry[r.name] \in {r.node, NoNode} /\ r.name \in Name
        /\ \A x \in Caller : call[x].step = "running" => r.name \notin Changes(call[x])
    BY <2>1, PathUnlocked DEF OnRight
  <2>3. host'.entry[r.name] = host.entry[r.name]
    BY <2>2
  <2>4. ASSUME NEW x \in Caller, call'[x].step = "running" PROVE r.name \notin Changes(call'[x])
    <3>1. CASE x = c
      <4>1. call[c].step = "running" /\ Same(call[c], q)
        BY <1>1, <2>4, <3>1
      <4>2. Changes(q) = Changes(call[c])
        BY <4>1 DEF Same, Changes
      <4>. QED
        BY <1>1, <2>2, <3>1, <4>1, <4>2
    <3>2. CASE x # c
      BY <2>2, <2>4, <3>2
    <3>. QED
      BY <3>1, <3>2
  <2>. QED
    BY <2>2, <2>3, <2>4
<1>. QED
  BY <1>2, RightPrimed

-----------------------------------------------------------------------------
(* c waits for longer than e. *)
AheadIn(q, c, e) == \E j, k \in DOMAIN q : j < k /\ q[j] = c /\ q[k] = e

(* A rename that is not answered yet. *)
Renames(r) == Changed(r) /\ r.reply = "renamed"

(* The path p that the number of a waiting request c will resolve to leads to
   its node, unless a rename will have changed it; a rename of the path leads
   on to the node; and nothing is made at the path before c begins. *)
Leads(c, p, e, cs, q) ==
  /\ \/ e[p] \in {cs[c].node, NoNode}
     \/ \E x \in Caller : Renames(cs[x]) /\ cs[x].newname = p
  /\ \A x \in Caller : Renames(cs[x]) /\ cs[x].name = p =>
       e[cs[x].newname] \in {cs[c].node, NoNode}
  /\ \A x \in Caller : Creating(cs[x]) /\ cs[x].name = p =>
       cs[x].step = "queued" /\ AheadIn(q, c, x)

WillBe ==
  \A c \in Caller :
    call[c].step = "queued" /\ ByPath(call[c]) /\ call[c].num \in mapper!Present(map) =>
      Leads(c, map.inodes[call[c].num].name, host.entry, call, queue)

(* WillBe after a step, in terms of the new values. *)
LEMMA WillBePrimed ==
  ASSUME NEW m, map' = m,
         \A c \in Caller :
           call'[c].step = "queued" /\ ByPath(call'[c]) /\ call'[c].num \in mapper!Present(m) =>
             Leads(c, m.inodes[call'[c].num].name, host'.entry, call', queue')
  PROVE  WillBe'
<1>1. \A e \in Caller : /\ Renames(call[e])' <=> Renames(call'[e])
                        /\ Creating(call[e])' <=> Creating(call'[e])
  BY DEF Renames, Changed, Left, Renaming, Never, Creating
<1>2. \A e \in Caller : ByPath(call[e])' <=> ByPath(call'[e])
  BY ConstantLater DEF ByPath
<1>3. \A c, e \in Caller : AheadIn(queue, c, e)' <=> AheadIn(queue', c, e)
  BY DEF AheadIn
<1>4. mapper!Present(map)' = mapper!Present(m)
  BY DEF mapper!Present
<1>5. ASSUME NEW c \in Caller, (call[c].step = "queued" /\ ByPath(call[c]) /\ call[c].num \in mapper!Present(map))'
      PROVE  Leads(c, map.inodes[call[c].num].name, host.entry, call, queue)'
  <2>1. Leads(c, m.inodes[call'[c].num].name, host'.entry, call', queue')
    BY <1>2, <1>4, <1>5
  <2>. QED
    BY <1>1, <1>3, <2>1, ConstantLater DEF Leads
<1>. QED
  BY <1>5, ConstantLater DEF WillBe

(* The others wait as before. *)
LEMMA WillBeOthers ==
  ASSUME Base, WillBe, NEW c \in Caller, \A d \in Caller : d # c => ButRaced(call[d], call'[d]),
         host'.entry = host.entry, call'[c].step # "queued",
         Renames(call[c]) \/ Renames(call'[c]) =>
           /\ Renames(call[c]) /\ Renames(call'[c])
           /\ call'[c].name = call[c].name /\ call'[c].newname = call[c].newname,
         Creating(call'[c]) =>
           /\ Creating(call[c]) /\ call'[c].name = call[c].name
           /\ call[c].step = "queued" => \A d \in Caller : ~ AheadIn(queue, d, c),
         NEW m, map' = m,
         \A d \in Caller : d # c /\ call[d].num \in mapper!Present(m) =>
           call[d].num \in mapper!Present(map) /\ m.inodes[call[d].num].name = map.inodes[call[d].num].name,
         \A d, e \in Caller : d # c /\ AheadIn(queue, d, e) => AheadIn(queue', d, e)
  PROVE  WillBe'
<1>1. ASSUME NEW x \in Caller
      PROVE  /\ Renames(call[x]) <=> Renames(call'[x])
             /\ Renames(call[x]) => call'[x].name = call[x].name /\ call'[x].newname = call[x].newname
  <2>1. CASE x = c
    BY <2>1
  <2>2. CASE x # c
    <3>1. PICK r : r = call'[x]
      OBVIOUS
    <3>2. ButRaced(call[x], r)
      BY <2>2, <3>1
    <3>3. Changed(r) <=> Changed(call[x])
      BY <3>2, ChangedButRaced
    <3>. QED
      BY <3>1, <3>2, <3>3 DEF Renames, ButRaced
  <2>. QED
    BY <2>1, <2>2
<1>2. ASSUME NEW d \in Caller, call'[d].step = "queued", ByPath(call'[d]), call'[d].num \in mapper!Present(m)
      PROVE  Leads(d, m.inodes[call'[d].num].name, host'.entry, call', queue')
  <2>1. d # c /\ ButRaced(call[d], call'[d])
    BY <1>2
  <2>2. /\ call[d].step = "queued" /\ ByPath(call[d]) /\ call[d].num \in mapper!Present(m)
        /\ call'[d].num = call[d].num /\ call'[d].node = call[d].node
    BY <1>2, <2>1 DEF ButRaced, ByPath
  <2>3. PICK p : p = m.inodes[call'[d].num].name
    OBVIOUS
  <2>4. call[d].num \in mapper!Present(map) /\ p = map.inodes[call[d].num].name
    BY <2>1, <2>2, <2>3
  <2>5. Leads(d, p, host.entry, call, queue)
    BY <2>2, <2>4 DEF WillBe
  <2>6. ASSUME NEW x \in Caller, Creating(call'[x]), call'[x].name = p
        PROVE  call'[x].step = "queued" /\ AheadIn(queue', d, x)
    <3>1. CASE x = c
      BY <2>5, <2>6, <3>1 DEF Leads
    <3>2. CASE x # c
      <4>1. Creating(call[x]) /\ call[x].name = p /\ call'[x].step = call[x].step
        BY <2>6, <3>2 DEF ButRaced, Creating
      <4>. QED
        BY <2>1, <2>5, <4>1 DEF Leads
    <3>. QED
      BY <3>1, <3>2
  <2>7. host'.entry[p] \in {call'[d].node, NoNode} \/ \E x \in Caller : Renames(call'[x]) /\ call'[x].newname = p
    BY <1>1, <2>2, <2>5 DEF Leads
  <2>8. \A x \in Caller : Renames(call'[x]) /\ call'[x].name = p =>
          host'.entry[call'[x].newname] \in {call'[d].node, NoNode}
    BY <1>1, <2>2, <2>5 DEF Leads
  <2>. QED
    BY <2>3, <2>6, <2>7, <2>8 DEF Leads
<1>. QED
  BY <1>2, WillBePrimed

-----------------------------------------------------------------------------
(* The same, for what the kernel sends. *)

(* Nobody waits for longer than the first of the queue; the others go on
   waiting in their order. *)
LEMMA AheadTail ==
  ASSUME Pool, queue # <<>>, NEW c, c = Head(queue)
  PROVE  /\ \A d : ~ AheadIn(queue, d, c)
         /\ \A d, e : d # c /\ AheadIn(queue, d, e) => AheadIn(Tail(queue), d, e)
<1>1. /\ c = queue[1] /\ DOMAIN queue = 1 .. Len(queue) /\ Len(queue) \in Nat /\ 1 \in DOMAIN queue
      /\ DOMAIN Tail(queue) = 1 .. Len(queue) - 1
      /\ \A k \in 1 .. Len(queue) - 1 : Tail(queue)[k] = queue[k + 1]
  BY HeadTailProperties DEF Pool
<1>2. \A j \in DOMAIN queue : queue[j] = c => j = 1
  BY <1>1 DEF Pool
<1>3. \A d : ~ AheadIn(queue, d, c)
  BY <1>1, <1>2 DEF AheadIn
<1>4. ASSUME NEW d, NEW e, d # c, AheadIn(queue, d, e) PROVE AheadIn(Tail(queue), d, e)
  <2>1. PICK j, k \in DOMAIN queue : j < k /\ queue[j] = d /\ queue[k] = e
    BY <1>4 DEF AheadIn
  <2>2. j # 1
    BY <1>1, <1>4, <2>1
  <2>3. /\ j - 1 \in DOMAIN Tail(queue) /\ k - 1 \in DOMAIN Tail(queue) /\ j - 1 < k - 1
        /\ Tail(queue)[j - 1] = d /\ Tail(queue)[k - 1] = e
    BY <1>1, <2>1, <2>2
  <2>. QED
    BY <2>3 DEF AheadIn
<1>. QED
  BY <1>3, <1>4

(* The last of the queue has waited less than the others. *)
LEMMA AheadAppend ==
  ASSUME Pool, NEW c \in Caller, NEW q, q = Append(queue, c)
  PROVE  /\ \A d, e : AheadIn(queue, d, e) => AheadIn(q, d, e)
         /\ \A d \in Caller : call[d].step = "queued" => AheadIn(q, d, c)
<1>1. /\ DOMAIN queue = 1 .. Len(queue) /\ Len(queue) \in Nat
      /\ DOMAIN q = 1 .. Len(queue) + 1 /\ q[Len(queue) + 1] = c
      /\ \A k \in 1 .. Len(queue) : q[k] = queue[k]
  BY DEF Pool
<1>2. \A d, e : AheadIn(queue, d, e) => AheadIn(q, d, e)
  BY <1>1 DEF AheadIn
<1>3. ASSUME NEW d \in Caller, call[d].step = "queued" PROVE AheadIn(q, d, c)
  <2>1. PICK k \in DOMAIN queue : queue[k] = d
    BY <1>3 DEF Pool
  <2>2. k \in DOMAIN q /\ Len(queue) + 1 \in DOMAIN q /\ k < Len(queue) + 1 /\ q[k] = d
    BY <1>1, <2>1
  <2>. QED
    BY <1>1, <2>2 DEF AheadIn
<1>. QED
  BY <1>2, <1>3

Right == OnRight /\ WillBe

(* The kernel asks for a node by the name that the resolver has for it. *)
LEMMA RightSent ==
  ASSUME Base, Names, Right, NEW c \in Caller, NEW q, SendStep(c, q)
  PROVE  Right'
<1>0. /\ call'[c] = q /\ call[c] = NoCall /\ \A d \in Caller : d # c => call'[d] = call[d]
      /\ UNCHANGED <<map, host>> /\ queue' = Append(queue, c) /\ q.step = "queued" /\ Fit(q)
  BY SentCalls DEF Base, SendStep, Sent
<1>1. OnRight'
  BY <1>0, RightStep DEF Right
<1>2. ~ Changed(q) /\ ~ Changed(NoCall)
  BY <1>0, NoCallUnchanged DEF Changed
<1>3. \A x \in Caller : Renames(call'[x]) <=> Renames(call[x])
  BY <1>0, <1>2 DEF Renames
<1>4. \A x \in Caller : x # c => call'[x] = call[x]
  BY <1>0
<1>5. /\ \A d, e : AheadIn(queue, d, e) => AheadIn(queue', d, e)
      /\ \A d \in Caller : call[d].step = "queued" => AheadIn(queue', d, c)
  BY <1>0, AheadAppend DEF Base
<1>6. ASSUME NEW d \in Caller, d # c, call[d].step = "queued", ByPath(call[d]),
             call[d].num \in mapper!Present(map)
      PROVE  Leads(d, map.inodes[call[d].num].name, host.entry, call', queue')
  <2>1. PICK p : p = map.inodes[call[d].num].name
    OBVIOUS
  <2>2. Leads(d, p, host.entry, call, queue)
    BY <1>6, <2>1 DEF Right, WillBe
  <2>3. ASSUME NEW x \in Caller, Creating(call'[x]), call'[x].name = p
        PROVE  call'[x].step = "queued" /\ AheadIn(queue', d, x)
    BY <1>0, <1>4, <1>5, <1>6, <2>2, <2>3 DEF Leads
  <2>4. call'[d] = call[d] /\ \A x \in Caller : Renames(call'[x]) => call'[x] = call[x]
    BY <1>0, <1>2, <1>6 DEF Renames
  <2>. QED
    BY <1>3, <2>1, <2>2, <2>3, <2>4 DEF Leads
<1>7. ASSUME ByPath(q), q.num \in mapper!Present(map)
      PROVE  Leads(c, map.inodes[q.num].name, host.entry, call', queue')
  <2>1. q.num \in Usable /\ q.node = means[q.num]
    <3>1. q.num # Root
      BY <1>0, <1>7 DEF Fit, LockFit, ByPath
    <3>2. \A f \in files : f.fd \in Fd /\ f.fd # NoFd
      BY RootIs DEF Base, Told
    <3>. QED
      BY <1>7, <3>1, <3>2 DEF SendStep, Sent, ByPath
  <2>2. PICK n \in Name : q.num = dent[n] /\ dent[n] # 0
    BY <2>1 DEF Usable
  <2>3. map.inodes[q.num].name = n
    BY <2>2, MapChild DEF Base, Mapped
  <2>4. \A x \in Caller : ~ (Creating(call'[x]) /\ call'[x].name = n)
    <3>1. \A x \in Caller : ~ (Creating(call[x]) /\ call[x].name = n)
      BY <2>2 DEF Base, Mapped
    <3>2. ~ Creating(q)
      BY <1>0, <1>7 DEF Fit, LockFit, ByPath, Creating
    <3>. QED
      BY <1>0, <3>1, <3>2
  <2>5. \A x \in Caller : Renames(call[x]) /\ call[x].name = n =>
          host.entry[call[x].newname] = q.node
    BY <2>1, <2>2 DEF Renames, Names, Replaced, ReplacedBy
  <2>6. \/ host.entry[n] \in {q.node, NoNode}
        \/ \E x \in Caller : Renames(call[x]) /\ call[x].newname = n
    <3>1. CASE \A e \in Caller : Changed(call[e]) => n \notin Changes(call[e])
      BY <2>1, <2>2, <3>1 DEF Names, NamesKnown
    <3>2. CASE \E e \in Caller : Changed(call[e]) /\ n \in Changes(call[e])
      <4>1. PICK e \in Caller : Changed(call[e]) /\ n \in Changes(call[e])
        BY <3>2
      <4>2. /\ call[e].lock = "exclusive" /\ n \in {call[e].name, call[e].newname}
            /\ AloneFit(call[e], Left(call[e].script))
        BY <4>1 DEF Changed, Changes, Base, Requested, Fit, LockFit
      <4>3. CASE call[e].reply \in {"entry", "created"}
        <5>1. Creating(call[e]) /\ call[e].name = n
          BY <4>2, <4>3 DEF Creating, AloneFit
        <5>. QED
          BY <2>2, <5>1 DEF Base, Mapped
      <4>4. CASE call[e].reply \in {"removed", "renamed"}
        <5>1. host.entry[call[e].name] = NoNode
          BY <4>1, <4>4 DEF Names, Replaced, ReplacedBy
        <5>2. n # call[e].name => call[e].reply = "renamed" /\ call[e].newname = n
          BY <4>2, <4>4 DEF AloneFit
        <5>. QED
          BY <4>1, <5>1, <5>2 DEF Renames
      <4>. QED
        BY <4>2, <4>3, <4>4 DEF AloneFit
    <3>. QED
      BY <3>1, <3>2
  <2>7. \A x \in Caller : Renames(call'[x]) => call'[x] = call[x]
    BY <1>0, <1>2 DEF Renames
  <2>. QED
    BY <1>0, <1>3, <2>3, <2>4, <2>5, <2>6, <2>7 DEF Leads
<1>8. ASSUME NEW d \in Caller, call'[d].step = "queued", ByPath(call'[d]),
             call'[d].num \in mapper!Present(map)
      PROVE  Leads(d, map.inodes[call'[d].num].name, host'.entry, call', queue')
  <2>1. CASE d = c
    BY <1>0, <1>7, <1>8, <2>1
  <2>2. CASE d # c
    BY <1>0, <1>4, <1>6, <1>8, <2>2
  <2>. QED
    BY <2>1, <2>2
<1>9. WillBe'
  BY <1>0, <1>8, WillBePrimed
<1>. QED
  BY <1>1, <1>9 DEF Right

-----------------------------------------------------------------------------
(* The same, for begins and for changes of the names. *)

(* After a number is lost. *)
LEMMA RightLost ==
  ASSUME Base, Right, NEW c \in Caller, BeginLost(c)
  PROVE  Right'
<1>1. /\ call'[c] = NoCall /\ \A d \in Caller : d # c => call'[d] = call[d]
      /\ UNCHANGED <<map, host>> /\ queue # <<>> /\ c = Head(queue) /\ queue' = Tail(queue)
      /\ call[c].step = "queued"
  BY DEF BeginLost, Takes, Base, Shaped
<1>2. NoCall.step = "idle" /\ ~ Renames(NoCall) /\ ~ Creating(NoCall) /\ ~ Renames(call[c])
  BY <1>1, NoCallReplies, NoCallUnchanged DEF NoReply, Renames, Creating, Changed
<1>3. OnRight'
  BY <1>1, <1>2, RightStep DEF Right
<1>4. \A d, e : d # c /\ AheadIn(queue, d, e) => AheadIn(queue', d, e)
  BY <1>1, AheadTail DEF Base
<1>5. \A d \in Caller : d # c => ButRaced(call[d], call'[d])
  BY <1>1, SameButRaced
<1>6. WillBe'
  BY <1>1, <1>2, <1>4, <1>5, WillBeOthers DEF Right
<1>. QED
  BY <1>3, <1>6 DEF Right

(* After a begin: the path that was resolved leads to the node, or the
   request was raced. *)
LEMMA RightBegin ==
  ASSUME Base, Right, NEW c \in Caller, NEW q, BeginForm(c, q)
  PROVE  Right'
<1>1. /\ call'[c] = q /\ Fit(q) /\ Started(c, call[c], q) /\ call[c].num \in mapper!Present(map)
      /\ \A d \in Caller : d # c => /\ ButRaced(call[d], call'[d])
                                    /\ call'[d].raced = (call[d].raced \/ Noticed(c, d))
      /\ UNCHANGED <<map, host>> /\ queue # <<>> /\ c = Head(queue) /\ queue' = Tail(queue)
      /\ call[c].step = "queued"
  BY BeginLater DEF BeginForm, Takes, Base
<1>2. Changes(q) = Changes(call[c])
  <2>1. call[c].lock = "none" \/ q.name = call[c].name
    BY <1>1, LockedReply DEF Started, Base
  <2>. QED
    BY <1>1, <2>1 DEF Started, Changes
<1>3. \A d \in Caller : d # c => Changes(call'[d]) = Changes(call[d]) /\ call'[d].step = call[d].step
  BY <1>1 DEF ButRaced, Changes
<1>4. ~ Changed(q) /\ ~ Changed(call[c])
  BY <1>1 DEF Changed, Started, Base, Requested, Fit, LockFit, AloneFit
<1>5. ASSUME NEW d \in Caller, NEW r, r = call'[d], r.step = "running", ByPath(r), ~ r.raced
      PROVE  /\ host'.entry[r.name] \in {r.node, NoNode}
             /\ \A x \in Caller : call'[x].step = "running" => r.name \notin Changes(call'[x])
  <2>1. CASE d = c
    <3>1. r = q /\ ByPath(call[c]) /\ call[c].node = q.node
      BY <1>1, <1>5, <2>1 DEF ByPath, Started
    <3>2. Changes(call[c]) = {} /\ call[c].num # Root
      BY <3>1, PathUnlocked
    <3>3. PICK p : p = map.inodes[call[c].num].name
      OBVIOUS
    <3>4. q.name = p
      BY <1>1, <3>2, <3>3 DEF Started
    <3>5. \A e \in Caller : call[e].step = "running" => p \notin Changes(call[e])
      BY <1>1, <1>5, <3>1, <3>4 DEF Started, Running, ByPath
    <3>6. Leads(c, p, host.entry, call, queue)
      BY <1>1, <3>1, <3>3 DEF Right, WillBe
    <3>7. \A x \in Caller : ~ (Renames(call[x]) /\ call[x].newname = p)
      BY <3>5 DEF Renames, Changed, Changes
    <3>8. host.entry[p] \in {call[c].node, NoNode}
      BY <3>6, <3>7 DEF Leads
    <3>9. ASSUME NEW x \in Caller, call'[x].step = "running" PROVE p \notin Changes(call'[x])
      BY <1>1, <1>2, <1>3, <3>2, <3>5, <3>9
    <3>. QED
      BY <1>1, <3>1, <3>4, <3>8, <3>9
  <2>2. CASE d # c
    <3>1. /\ call[d].step = "running" /\ ByPath(call[d]) /\ ~ call[d].raced /\ ~ Noticed(c, d)
          /\ r.name = call[d].name /\ r.node = call[d].node
      BY <1>1, <1>5, <2>2 DEF ButRaced, ByPath
    <3>2. /\ host.entry[r.name] \in {r.node, NoNode}
          /\ \A x \in Caller : call[x].step = "running" => r.name \notin Changes(call[x])
      BY <3>1 DEF Right, OnRight
    <3>3. r.name \notin Changes(call[c])
      BY <3>1 DEF Noticed, Running, ByPath
    <3>4. ASSUME NEW x \in Caller, call'[x].step = "running" PROVE r.name \notin Changes(call'[x])
      BY <1>1, <1>2, <1>3, <3>2, <3>3, <3>4
    <3>. QED
      BY <1>1, <3>2, <3>4
  <2>. QED
    BY <2>1, <2>2
<1>6. OnRight'
  BY <1>5, RightPrimed
<1>7. /\ \A d, e : d # c /\ AheadIn(queue, d, e) => AheadIn(queue', d, e)
      /\ \A d : ~ AheadIn(queue, d, c)
  BY <1>1, AheadTail DEF Base
<1>8. Creating(q) => Creating(call[c]) /\ q.name = call[c].name
  <2>1. call[c].lock = "none" \/ q.name = call[c].name
    BY <1>1, LockedReply DEF Started, Base
  <2>. QED
    BY <1>1, <2>1 DEF Started, Creating
<1>9. ~ Renames(q) /\ ~ Renames(call[c]) /\ q.step # "queued"
  BY <1>1, <1>4 DEF Renames, Started
<1>10. WillBe'
  BY <1>1, <1>7, <1>8, <1>9, WillBeOthers DEF Right
<1>. QED
  BY <1>6, <1>10 DEF Right

(* A request goes on or ends without changing a name. *)
LEMMA RightKeeps ==
  ASSUME Base, Right, NEW c \in Caller, \A d \in Caller : d # c => call'[d] = call[d],
         call[c].step = "running", UNCHANGED <<map, queue>>, host'.entry = host.entry,
         \/ call'[c] = NoCall /\ ~ Renames(call[c])
         \/ Same(call[c], call'[c]) /\ (Changed(call'[c]) <=> Changed(call[c]))
  PROVE  Right'
<1>1. PICK q : q = call'[c]
  OBVIOUS
<1>2. NoCall.step = "idle" /\ ~ Renames(NoCall) /\ ~ Creating(NoCall)
  BY NoCallReplies, NoCallUnchanged DEF NoReply, Renames, Creating
<1>3. /\ q.step # "running" \/ Same(call[c], q)
      /\ q.step # "queued"
  BY <1>1, <1>2 DEF Same
<1>4. OnRight'
  BY <1>1, <1>3, RightStep DEF Right
<1>5. Creating(q) => Creating(call[c]) /\ q.name = call[c].name
  BY <1>1, <1>2 DEF Same, Creating
<1>6. Renames(call[c]) \/ Renames(q) =>
        Renames(call[c]) /\ Renames(q) /\ q.name = call[c].name /\ q.newname = call[c].newname
  BY <1>1, <1>2 DEF Same, Renames
<1>7. \A d \in Caller : d # c => ButRaced(call[d], call'[d])
  BY SameButRaced
<1>8. WillBe'
  BY <1>1, <1>3, <1>5, <1>6, <1>7, WillBeOthers DEF Right
<1>. QED
  BY <1>4, <1>8 DEF Right

(* A request has changed the host's names. *)
LEMMA RightChange ==
  ASSUME Base, Right, NEW c \in Caller, NEW q, Same(call[c], q), call'[c] = q,
         \A d \in Caller : d # c => call'[d] = call[d], UNCHANGED <<map, queue>>,
         call[c].step = "running", call[c].lock = "exclusive", ~ Changed(call[c]), Changed(q),
         \A n \in Name : n \notin Changes(call[c]) => host'.entry[n] = host.entry[n],
         call[c].reply \in {"removed", "renamed"} => host'.entry[call[c].name] = NoNode,
         call[c].reply = "renamed" => host'.entry[call[c].newname] = host.entry[call[c].name]
  PROVE  Right'
<1>1. OnRight'
  BY RightStep DEF Right
<1>2. /\ \A d \in Caller : d # c => ~ Changed(call[d]) /\ ~ Changed(call'[d])
      /\ \A d \in Caller : ~ Renames(call[d])
  BY DEF Base, Locked, Changed, Renames
<1>3. /\ AloneFit(call[c], Left(call[c].script))
      /\ q.name = call[c].name /\ q.newname = call[c].newname /\ q.reply = call[c].reply
      /\ q.step = "running" /\ q.lock = "exclusive"
  BY DEF Base, Requested, Fit, LockFit, Same
<1>4. ASSUME NEW d \in Caller, call'[d].step = "queued", ByPath(call'[d]),
             call'[d].num \in mapper!Present(map)
      PROVE  Leads(d, map.inodes[call'[d].num].name, host'.entry, call', queue)
  <2>1. d # c /\ call'[d] = call[d]
    BY <1>3, <1>4
  <2>2. PICK p : p = map.inodes[call'[d].num].name
    OBVIOUS
  <2>3. Leads(d, p, host.entry, call, queue) /\ p \in Name
    <3>1. call[d].num # Root /\ call[d].num \in mapper!Present(map)
      BY <1>4, <2>1, PathUnlocked
    <3>. QED
      BY <1>4, <2>1, <2>2, <3>1, PathName DEF Right, WillBe, Base
  <2>4. host.entry[p] \in {call[d].node, NoNode}
    BY <1>2, <2>3 DEF Leads
  <2>5. ASSUME NEW x \in Caller, Creating(call'[x]), call'[x].name = p
        PROVE  call'[x].step = "queued" /\ AheadIn(queue, d, x)
    <3>1. Creating(call[x]) /\ call[x].name = p
      BY <1>3, <2>5 DEF Creating
    <3>2. call[x].step = "queued" /\ AheadIn(queue, d, x)
      BY <2>3, <3>1 DEF Leads
    <3>. QED
      BY <3>2
  <2>6. ASSUME NEW x \in Caller, Renames(call'[x]), call'[x].name = p
        PROVE  host'.entry[call'[x].newname] \in {call'[d].node, NoNode}
    <3>1. x = c
      BY <1>2, <2>6 DEF Renames
    <3>. QED
      BY <1>3, <2>1, <2>4, <2>6, <3>1 DEF Renames
  <2>7. host'.entry[p] \in {call'[d].node, NoNode} \/ \E x \in Caller : Renames(call'[x]) /\ call'[x].newname = p
    <3>1. CASE p \notin Changes(call[c])
      BY <2>1, <2>3, <2>4, <3>1
    <3>2. CASE p \in Changes(call[c])
      <4>1. p = call[c].name \/ p = call[c].newname
        BY <3>2 DEF Changes
      <4>2. CASE call[c].reply \in {"entry", "created"}
        <5>1. Creating(call[c]) /\ call[c].name = p
          BY <1>3, <4>1, <4>2 DEF Creating, AloneFit
        <5>. QED
          BY <2>3, <5>1 DEF Leads
      <4>3. CASE call[c].reply = "removed"
        BY <1>3, <4>1, <4>3 DEF AloneFit
      <4>4. CASE call[c].reply = "renamed"
        BY <1>3, <4>1, <4>4 DEF Renames
      <4>. QED
        BY <1>3, <4>2, <4>3, <4>4 DEF AloneFit
    <3>. QED
      BY <3>1, <3>2
  <2>. QED
    BY <2>2, <2>5, <2>6, <2>7 DEF Leads
<1>5. WillBe'
  BY <1>4, WillBePrimed
<1>. QED
  BY <1>1, <1>5 DEF Right

-----------------------------------------------------------------------------
(* The same, for answers. *)

(* After a call. *)
LEMMA RightCall ==
  ASSUME Base, Right, NEW c \in Caller, IsHost(host'), NEW q, NEW v, Called(c, q, v)
  PROVE  Right'
<1>1. /\ Runs(c, q) /\ Same(call[c], q) /\ call[c].step = "running"
      /\ call'[c] = q /\ \A d \in Caller : d # c => call'[d] = call[d]
      /\ Renamed(c, q) \/ Unnamed(c, q)
  BY CallNames
<1>2. UNCHANGED <<map, queue>>
  BY <1>1 DEF Runs
<1>3. CASE Renamed(c, q)
  BY <1>1, <1>2, <1>3, RightChange DEF Renamed
<1>4. CASE Unnamed(c, q)
  BY <1>1, <1>2, <1>4, RightKeeps DEF Unnamed
<1>. QED
  BY <1>1, <1>3, <1>4

(* A request ends, and not a rename that has been made. *)
LEMMA RightEnds ==
  ASSUME Base, Right, NEW c \in Caller, End(c), Running(c), UNCHANGED <<map, queue>>,
         host'.entry = host.entry, call[c].reply # "renamed" \/ call[c].script # <<>>
  PROVE  Right'
<1>1. call'[c] = NoCall /\ \A d \in Caller : d # c => call'[d] = call[d]
  BY DEF End, Base, Shaped
<1>2. ~ Renames(call[c])
  <2>1. ASSUME Changed(call[c]), call[c].reply = "renamed" PROVE call[c].script = <<>>
    <3>1. Fit(call[c]) /\ AloneFit(call[c], Left(call[c].script))
      BY <2>1 DEF Changed, Base, Requested, Fit, LockFit
    <3>2. Left(call[c].script) = {}
      BY <2>1, <3>1 DEF Changed, AloneFit, Renaming
    <3>. QED
      BY <3>1, <3>2, Done DEF Fit, Scripted
  <2>. QED
    BY <2>1 DEF Renames
<1>. QED
  BY <1>1, <1>2, RightKeeps DEF Running

(* Every number but the directory's is listed under its name. *)
FlatMap(m) ==
  \A i \in mapper!Present(m) \ {Root} :
    /\ mapper!Listed(m, Root, m.inodes[i].name)
    /\ mapper!Child(m, Root, m.inodes[i].name) = i
Flat == FlatMap(map)

(* Flat, one step later. *)
LEMMA FlatLater == ASSUME NEW m, map' = m, FlatMap(m) PROVE Flat'
BY ConstantLater DEF Flat, FlatMap, mapper!Present, mapper!Listed, mapper!Child, mapper!Children

(* An entry keeps the map flat. *)
LEMMA FlatEntry ==
  ASSUME Flat, GoodMap(map), NEW n, NEW m, NEW i, EntryMap(n, m, i)
  PROVE  FlatMap(m)
<1>1. ASSUME NEW j \in mapper!Present(m) \ {Root}
      PROVE  mapper!Listed(m, Root, m.inodes[j].name) /\ mapper!Child(m, Root, m.inodes[j].name) = j
  <2>1. CASE j \in mapper!Present(map)
    <3>1. PICK k : k = map.inodes[j].name
      OBVIOUS
    <3>2. mapper!Listed(map, Root, k) /\ mapper!Child(map, Root, k) = j
      BY <1>1, <2>1, <3>1 DEF Flat, FlatMap
    <3>3. m.inodes[j].name = k /\ mapper!Listed(m, Root, k) /\ mapper!Child(m, Root, k) = j
      BY <2>1, <3>1, <3>2 DEF EntryMap
    <3>. QED
      BY <3>3
  <2>2. CASE j \notin mapper!Present(map)
    <3>1. j = i /\ mapper!Listed(m, Root, n) /\ i = mapper!Child(m, Root, n) /\ GoodMap(m)
      BY <1>1, <2>2 DEF EntryMap
    <3>2. m.inodes[i].name = n
      BY <3>1, MapChild
    <3>. QED
      BY <3>1, <3>2
  <2>. QED
    BY <2>1, <2>2
<1>. QED
  BY <1>1 DEF FlatMap

(* A move keeps the map flat. *)
LEMMA FlatMoved ==
  ASSUME Flat, GoodMap(map), NEW o, NEW n, NEW m, MovedMap(o, n, m)
  PROVE  FlatMap(m)
<1>1. ASSUME NEW j \in mapper!Present(m) \ {Root}
      PROVE  mapper!Listed(m, Root, m.inodes[j].name) /\ mapper!Child(m, Root, m.inodes[j].name) = j
  <2>1. CASE j = dent[o]
    BY <2>1 DEF MovedMap
  <2>2. CASE j # dent[o]
    <3>1. PICK k : k = map.inodes[j].name
      OBVIOUS
    <3>2. m.inodes[j].name = k /\ j \in mapper!Present(map) \ {Root} /\ j # mapper!Child(map, Root, n)
      BY <1>1, <2>2, <3>1 DEF MovedMap
    <3>3. mapper!Listed(map, Root, k) /\ mapper!Child(map, Root, k) = j
      BY <3>1, <3>2 DEF Flat, FlatMap
    <3>4. k # o /\ k # n
      BY <2>2, <3>2, <3>3 DEF MovedMap
    <3>5. mapper!Listed(m, Root, k) /\ mapper!Child(m, Root, k) = j
      BY <3>3, <3>4 DEF MovedMap
    <3>. QED
      BY <3>2, <3>5
  <2>. QED
    BY <2>1, <2>2
<1>. QED
  BY <1>1 DEF FlatMap

(* An entry changes the name of no number. *)
LEMMA RightEntry ==
  ASSUME Base, Right, NEW c \in Caller, NEW m, NEW i, NEW opened \in BOOLEAN,
         EntryAnswer(c, m, i, opened)
  PROVE  Right'
<1>1. /\ End(c) /\ Running(c) /\ UNCHANGED <<queue, host>> /\ map' = m /\ call[c].step = "running"
      /\ EntryMap(call[c].name, m, i) /\ call[c].reply \in {"entry", "created"}
  BY DEF EntryAnswer
<1>2. call'[c] = NoCall /\ \A d \in Caller : d # c => call'[d] = call[d]
  BY <1>1 DEF End, Base, Shaped
<1>3. NoCall.step = "idle" /\ ~ Renames(NoCall) /\ ~ Creating(NoCall) /\ ~ Renames(call[c])
  BY <1>1, NoCallReplies, NoCallUnchanged DEF NoReply, Renames, Creating
<1>4. OnRight'
  BY <1>1, <1>2, <1>3, RightStep DEF Right
<1>5. ASSUME NEW d \in Caller, call[d].num \in mapper!Present(m)
      PROVE  /\ call[d].num \in mapper!Present(map)
             /\ m.inodes[call[d].num].name = map.inodes[call[d].num].name
  <2>1. map.next_inode \in Nat /\ call[d].num < map.next_inode /\ call[d].num \in Nat
    BY <1>1, RootIs DEF EntryMap, Base, Told, Requested, Fit, Request
  <2>2. i \in mapper!Present(map) \/ i = map.next_inode
    BY <1>1, MapChild DEF EntryMap, Base, Mapped
  <2>3. call[d].num \in mapper!Present(map)
    BY <1>1, <1>5, <2>1, <2>2 DEF EntryMap
  <2>. QED
    BY <1>1, <2>3 DEF EntryMap
<1>6. \A d \in Caller : d # c => ButRaced(call[d], call'[d])
  BY <1>2, SameButRaced
<1>7. WillBe'
  BY <1>1, <1>2, <1>3, <1>5, <1>6, WillBeOthers DEF Right
<1>. QED
  BY <1>4, <1>7 DEF Right

(* The resolver is told of the rename: the path of the number that moves is
   now the new name, and the number that was there is gone. *)
LEMMA RightRenamed ==
  ASSUME Base, Flat, Right, NEW c \in Caller, NEW m, RenameAnswer(c, m)
  PROVE  Right'
<1>1. PICK o, n : o = call[c].name /\ n = call[c].newname
  OBVIOUS
<1>2. /\ End(c) /\ UNCHANGED <<queue, host>> /\ map' = m /\ call[c].step = "running"
      /\ MovedMap(o, n, m) /\ call[c].reply = "renamed" /\ call[c].lock = "exclusive"
      /\ call[c].script = <<>>
  BY <1>1 DEF RenameAnswer
<1>3. call'[c] = NoCall /\ \A d \in Caller : d # c => call'[d] = call[d]
  BY <1>2 DEF End, Base, Shaped
<1>4. NoCall.step = "idle" /\ ~ Renames(NoCall) /\ ~ Creating(NoCall)
  BY NoCallReplies, NoCallUnchanged DEF NoReply, Renames, Creating
<1>5. OnRight'
  BY <1>2, <1>3, <1>4, RightStep DEF Right
<1>6. Renames(call[c])
  BY <1>2, EmptyScript DEF Renames, Changed
<1>7. /\ \A x \in Caller : ~ Renames(call'[x]) /\ ~ Creating(call'[x])
      /\ \A x \in Caller : Renames(call[x]) => x = c
  BY <1>2, <1>3, <1>4, Alone DEF Renames
<1>8. ASSUME NEW d \in Caller, call'[d].step = "queued", ByPath(call'[d]),
             call'[d].num \in mapper!Present(m)
      PROVE  Leads(d, m.inodes[call'[d].num].name, host'.entry, call', queue')
  <2>1. d # c /\ call'[d] = call[d]
    BY <1>3, <1>4, <1>8
  <2>2. PICK p, k : p = map.inodes[call[d].num].name /\ k = m.inodes[call[d].num].name
    OBVIOUS
  <2>3. call[d].num \in mapper!Present(map) \ {Root} /\ call[d].num # mapper!Child(map, Root, n)
    BY <1>2, <1>8, <2>1, PathUnlocked DEF MovedMap
  <2>4. Leads(d, p, host.entry, call, queue)
    BY <1>8, <2>1, <2>2, <2>3 DEF Right, WillBe
  <2>5. host.entry[k] \in {call[d].node, NoNode}
    <3>1. CASE call[d].num = dent[o]
      <4>1. k = n /\ p = o
        <5>1. GoodMap(map)
          BY DEF Base, Mapped
        <5>. QED
          BY <1>2, <2>2, <3>1, <5>1, MapChild DEF MovedMap
      <4>. QED
        BY <1>1, <1>6, <2>4, <4>1 DEF Leads
    <3>2. CASE call[d].num # dent[o]
      <4>1. k = p
        BY <1>2, <1>8, <2>1, <2>2, <3>2 DEF MovedMap
      <4>2. mapper!Child(map, Root, p) = call[d].num
        BY <2>2, <2>3 DEF Flat, FlatMap
      <4>3. p # n
        BY <2>3, <4>2
      <4>. QED
        BY <1>1, <1>7, <2>4, <4>1, <4>3 DEF Leads
    <3>. QED
      BY <3>1, <3>2
  <2>. QED
    BY <1>2, <1>7, <2>1, <2>2, <2>5 DEF Leads
<1>9. WillBe'
  BY <1>2, <1>8, WillBePrimed
<1>. QED
  BY <1>5, <1>9 DEF Right

(* Flat and Right are inductive. *)
LEMMA RightNext ==
  ASSUME Kept, Names, Flat, Right, [Next]_vars
  PROVE  Flat' /\ Right'
<1>0. Base /\ Found
  BY DEF Kept
<1>1. CASE UNCHANGED vars
  <2>1. UNCHANGED <<map, queue, host, call>>
    BY <1>1 DEF vars
  <2>2. Flat'
    BY <2>1, FlatLater DEF Flat
  <2>3. OnRight'
    BY <2>1, RightPrimed DEF Right, OnRight
  <2>4. WillBe'
    BY <2>1, WillBePrimed DEF Right, WillBe
  <2>. QED
    BY <2>2, <2>3, <2>4 DEF Right
<1>2. CASE Next
  <2>1. PICK c \in Caller :
           \/ \E q : SendStep(c, q)
           \/ BeginLost(c)
           \/ \E q : BeginForm(c, q)
           \/ IsHost(host') /\ \E q, v : Called(c, q, v)
           \/ IsHost(host') /\ CallFails(c)
           \/ \E m, i : \E opened \in BOOLEAN : EntryAnswer(c, m, i, opened)
           \/ AnswerOpened(c)
           \/ \E m : RenameAnswer(c, m)
           \/ AnswerRemoved(c)
           \/ AnswerOther(c)
    BY <1>2, EveryStep
  <2>2. ASSUME UNCHANGED map PROVE Flat'
    BY <2>2, FlatLater DEF Flat
  <2>3. CASE \E q : SendStep(c, q)
    <3>1. UNCHANGED map
      BY <2>3 DEF SendStep
    <3>. QED
      BY <1>0, <2>2, <2>3, <3>1, RightSent
  <2>4. CASE BeginLost(c) \/ \E q : BeginForm(c, q)
    <3>1. UNCHANGED map
      BY <2>4 DEF BeginLost, BeginForm, Takes
    <3>. QED
      BY <1>0, <2>2, <2>4, <3>1, RightLost, RightBegin
  <2>5. CASE IsHost(host') /\ \E q, v : Called(c, q, v)
    <3>1. PICK q, v : Called(c, q, v)
      BY <2>5
    <3>2. Runs(c, q)
      BY <1>0, <2>5, <3>1, CallNames
    <3>3. UNCHANGED map
      BY <3>2 DEF Runs
    <3>. QED
      BY <1>0, <2>2, <2>5, <3>1, <3>3, RightCall
  <2>6. CASE CallFails(c) \/ AnswerRemoved(c) \/ AnswerOther(c) \/ AnswerOpened(c)
    <3>1. /\ End(c) /\ Running(c) /\ UNCHANGED <<map, queue>> /\ host'.entry = host.entry
          /\ call[c].reply # "renamed" \/ call[c].script # <<>>
      BY <1>0, <2>6 DEF CallFails, MayFail, Refused, AnswerRemoved, AnswerOther, AnswerOpened,
         Ready, Base, Hosted
    <3>. QED
      BY <1>0, <2>2, <3>1, RightEnds
  <2>7. CASE \E m, i : \E opened \in BOOLEAN : EntryAnswer(c, m, i, opened)
    <3>1. PICK m, i : \E opened \in BOOLEAN : EntryAnswer(c, m, i, opened)
      BY <2>7
    <3>2. EntryMap(call[c].name, m, i) /\ map' = m
      BY <3>1 DEF EntryAnswer
    <3>3. Flat'
      BY <1>0, <3>2, FlatEntry, FlatLater DEF Base, Mapped
    <3>. QED
      BY <1>0, <3>1, <3>3, RightEntry
  <2>8. CASE \E m : RenameAnswer(c, m)
    <3>1. PICK m : RenameAnswer(c, m)
      BY <2>8
    <3>2. MovedMap(call[c].name, call[c].newname, m) /\ map' = m
      BY <3>1 DEF RenameAnswer
    <3>3. Flat'
      BY <1>0, <3>2, FlatMoved, FlatLater DEF Base, Mapped
    <3>. QED
      BY <1>0, <3>1, <3>3, RightRenamed
  <2>. QED
    BY <2>1, <2>3, <2>4, <2>5, <2>6, <2>7, <2>8
<1>. QED
  BY <1>1, <1>2

(* They hold in the beginning. *)
LEMMA InitRight == Init => Flat /\ Right
<1>1. SUFFICES ASSUME Init PROVE Flat /\ Right
  OBVIOUS
<1>2. \A c \in Caller : call[c].step = "idle"
  BY <1>1, NoCallReplies DEF Init, NoReply
<1>3. mapper!Present(map) = {Root}
  <2>1. GoodMap(map) /\ map.next_inode = 2 /\ Root \in mapper!Present(map)
    BY <1>1, MapNew DEF Init
  <2>2. \A i \in mapper!Present(map) : i \in 1 .. MaxInode /\ i < 2
    BY <2>1, MapNumbers
  <2>3. ASSUME NEW i \in mapper!Present(map) PROVE i = Root
    BY <2>2, RootIs
  <2>. QED
    BY <2>1, <2>3
<1>. QED
  BY <1>2, <1>3 DEF Flat, FlatMap, Right, OnRight, WillBe

-----------------------------------------------------------------------------
(* What handles mean. *)

(* What a request knows of its descriptors: the file behind a handle is open
   until the calls on it are made; the handle given back for release is the
   file's; what it opened itself is its node, unless the name changed. *)
HandleFit(r, fs, ds) ==
  /\ Left(r.script) \cap {"pread", "pwrite"} # {} => \E f \in fs : f.fd = r.fd /\ f.node = r.node
  /\ r.fd \in Fd /\ r.own = r.fd => ds[r.own] = r.node
  /\ HasOwn(r) /\ ByPath(r) /\ r.node \notin Soft =>
       r.step = "running" /\ (~ r.raced => ds[r.own] = r.node)
  /\ ~ r.stray

FilesMean == \A f \in files : host.desc[f.fd] = f.node
Handled == FilesMean /\ \A c \in Caller : HandleFit(call[c], files, host.desc)

(* A number of a descriptor is one, or none. *)
LEMMA FdOrNone == \A x \in 0 .. NoFd : x \in Fd \/ x = NoFd
BY RootIs DEF Fd, NoFd

(* A process without a request has no descriptor. *)
LEMMA NoCallHandle == \A fs, ds : HandleFit(NoCall, fs, ds)
BY NoCallReplies, RootIs, EmptyScript DEF HandleFit, NoReply, HasOwn

(* What a request knows of its descriptors, one step later. *)
LEMMA HandleLater ==
  ASSUME NEW c \in Caller, NEW q, call'[c] = q, HandleFit(q, files', host'.desc)
  PROVE  HandleFit(call[c], files, host.desc)'
<1>1. Left(call[c].script)' = Left(q.script)
  BY DEF Left
<1>. QED
  BY <1>1, ConstantLater DEF HandleFit, HasOwn, ByPath

(* The step of one request, for the descriptors of the others. *)
LEMMA HandleOthers ==
  ASSUME Base, Owned, Handled, NEW c \in Caller, Effect(c),
         \A d \in Caller : d # c /\ call[d].raced => call'[d].raced,
         \A f \in files' : f \in files \/ host'.desc[f.fd] = f.node,
         \A f \in files : f \in files' \/ \A d \in Caller : call[d].fd # f.fd,
         NEW q, call'[c] = q, HandleFit(q, files', host'.desc)
  PROVE  Handled'
<1>1. ASSUME NEW d \in Caller, NEW r, r = call'[d] PROVE HandleFit(r, files', host'.desc)
  <2>1. CASE d = c
    BY <1>1, <2>1
  <2>2. CASE d # c
    <3>1. ButRaced(call[d], r) /\ HandleFit(call[d], files, host.desc) /\ (call[d].raced => r.raced)
      BY <1>1, <2>2 DEF Handled, Effect
    <3>2. HasOwn(call[d]) => host'.desc[call[d].own] = host.desc[call[d].own]
      BY <2>2, OwnedEffect
    <3>3. call[d].fd \in Fd => call[d].fd # 0
      BY DEF Base, Requested, Fit, FileFit
    <3>4. Left(r.script) \cap {"pread", "pwrite"} # {} => \E f \in files' : f.fd = r.fd /\ f.node = r.node
      BY <3>1 DEF HandleFit, ButRaced
    <3>5. r.fd \in Fd /\ r.own = r.fd => host'.desc[r.own] = r.node
      BY <3>1, <3>2, <3>3 DEF HandleFit, ButRaced, HasOwn
    <3>6. HasOwn(r) /\ ByPath(r) /\ r.node \notin Soft =>
            r.step = "running" /\ (~ r.raced => host'.desc[r.own] = r.node)
      <4>1. HasOwn(r) <=> HasOwn(call[d])
        BY <3>1 DEF HasOwn, ButRaced
      <4>2. ByPath(r) <=> ByPath(call[d])
        BY <3>1 DEF ByPath, ButRaced
      <4>3. r.step = call[d].step /\ r.node = call[d].node /\ r.own = call[d].own
        BY <3>1 DEF ButRaced
      <4>. QED
        BY <3>1, <3>2, <4>1, <4>2, <4>3 DEF HandleFit
    <3>. QED
      BY <3>1, <3>4, <3>5, <3>6 DEF HandleFit, ButRaced
  <2>. QED
    BY <2>1, <2>2
<1>2. ASSUME NEW d \in Caller PROVE HandleFit(call[d], files, host.desc)'
  <2>1. PICK r : r = call'[d]
    OBVIOUS
  <2>. QED
    BY <1>1, <2>1, HandleLater
<1>3. \A f \in files' : host'.desc[f.fd] = f.node
  BY OwnedEffect DEF Handled, FilesMean
<1>. QED
  BY <1>2, <1>3, ConstantLater DEF Handled, FilesMean

(* Handles, after sending. *)
LEMMA HandleSent ==
  ASSUME Base, Owned, Handled, NEW c \in Caller, NEW q, SendStep(c, q)
  PROVE  Handled'
<1>1. /\ Effect(c) /\ call'[c] = q /\ host' = host /\ Fit(q) /\ ~ q.stray
      /\ \A d \in Caller : d # c => call'[d] = call[d]
      /\ files' \subseteq files
  BY SentEffect, SentCalls, SentTold DEF Base, SendStep, Sent
<1>2. /\ \A f \in files : f \in files' \/ \A d \in Caller : call[d].fd # f.fd
      /\ \A f \in files : f.fd \in Fd \ {0} /\ host.desc[f.fd] = f.node
  BY DEF SendStep, Sent, Base, Told, Handled, FilesMean
<1>3. \/ files' = files /\ q.own \in {0, NoFd}
      \/ \E f \in files : q.own = f.fd /\ q.fd = f.fd /\ q.node = f.node
  BY DEF SendStep, Sent
<1>4. q.fd \in Fd => q.fd # 0 /\ \E f \in files : q.fd = f.fd /\ q.node = f.node
  BY <1>1, RootIs DEF SendStep, Sent, Fit, FileFit, LockFit
<1>5. ASSUME Left(q.script) \cap {"pread", "pwrite"} # {} PROVE \E f \in files' : f.fd = q.fd /\ f.node = q.node
  <2>1. q.fd \in Fd /\ q.own = NoFd
    BY <1>1, <1>5 DEF Fit, FileFit
  <2>2. files' = files
    BY <1>2, <1>3, <2>1, RootIs
  <2>. QED
    BY <1>4, <2>1, <2>2
<1>6. q.fd \in Fd /\ q.own = q.fd => host.desc[q.own] = q.node
  BY <1>2, <1>4
<1>7. HasOwn(q) => ~ ByPath(q)
  BY <1>2, <1>3, RootIs DEF HasOwn, ByPath
<1>8. HandleFit(q, files', host'.desc)
  BY <1>1, <1>5, <1>6, <1>7 DEF HandleFit
<1>. QED
  BY <1>1, <1>2, <1>8, HandleOthers

(* Handles, after a begin. *)
LEMMA HandleBegin ==
  ASSUME Base, Owned, Handled, NEW c \in Caller, NEW q, BeginForm(c, q)
  PROVE  Handled'
<1>1. /\ Effect(c) /\ call'[c] = q /\ UNCHANGED <<host, files>> /\ call[c].step = "queued"
      /\ Started(c, call[c], q)
      /\ \A d \in Caller : d # c => call'[d].raced = (call[d].raced \/ Noticed(c, d))
  BY BeginEffect, BeginLater DEF Base, BeginForm, Takes
<1>2. HandleFit(call[c], files, host.desc)
  BY DEF Handled
<1>3. ~ (HasOwn(q) /\ ByPath(q) /\ q.node \notin Soft)
  BY <1>1, <1>2 DEF HandleFit, Started, HasOwn, ByPath
<1>4. HandleFit(q, files', host'.desc)
  BY <1>1, <1>2, <1>3 DEF HandleFit, Started
<1>. QED
  BY <1>1, <1>4, HandleOthers

(* A request ends, and what is given to the kernel is what it says. *)
LEMMA HandleEnds ==
  ASSUME Base, Owned, Handled, NEW c \in Caller, Effect(c), End(c), files \subseteq files',
         \A f \in files' : f \in files \/ host'.desc[f.fd] = f.node
  PROVE  Handled'
<1>1. call'[c] = NoCall /\ \A d \in Caller : d # c => call'[d] = call[d]
  BY DEF End, Base, Shaped
<1>. QED
  BY <1>1, NoCallHandle, HandleOthers

(* The node that a call reaches. *)
LEMMA ReachesRight ==
  ASSUME Base, Right, Handled, NEW c \in Caller, NEW q, NEW v,
         Reaches(c, q, v),
         \/ PathForm(c, q, v) \/ OpenForm(c, q, v) \/ CreatForm(c, q, v)
         \/ OwnForm(c, q, v) \/ CloseForm(c, q, v) \/ HandleForm(c, q, v),
         ~ call[c].raced, call[c].node \in Node, call[c].node \notin Soft
  PROVE  v = call[c].node
<1>1. /\ Fit(call[c]) /\ call[c].script # <<>> /\ Head(call[c].script) \in Left(call[c].script)
      /\ call[c].step = "running" /\ call[c].fd \in 0 .. NoFd
      /\ Head(call[c].script) \in OnOwn => Left(call[c].script) \cap Opening = {}
      /\ Runs(c, q) /\ HandleFit(call[c], files, host.desc)
  BY NowCall, OneLess DEF Reaches, Runs, Base, Fit, Scripted, Request, Handled
<1>2. call[c].fd \notin Fd => ByPath(call[c])
  BY <1>1, FdOrNone DEF ByPath
<1>3. call[c].lock # "exclusive"
  BY <1>1 DEF Fit, LockFit
<1>4. call[c].fd \notin Fd => host.entry[call[c].name] \in {call[c].node, NoNode}
  BY <1>1, <1>2 DEF Right, OnRight
<1>5. call[c].fd \in Fd => Head(call[c].script) \in {"pread", "pwrite", "close"} \cup Never
  BY <1>1 DEF Fit, FileFit
<1>6. CASE PathForm(c, q, v)
  <2>1. call[c].fd \notin Fd /\ At(c) = call[c].node
    BY <1>4, <1>5, <1>6 DEF PathForm, Never, At
  <2>. QED
    BY <1>6, <2>1 DEF PathForm, Followed
<1>7. CASE OpenForm(c, q, v)
  <2>1. call[c].fd \notin Fd /\ At(c) = call[c].node
    BY <1>4, <1>5, <1>7 DEF OpenForm, Never, At
  <2>. QED
    BY <1>7, <2>1 DEF OpenForm, Followed
<1>8. CASE CreatForm(c, q, v)
  BY <1>1, <1>3, <1>8 DEF CreatForm, Fit, LockFit, Renaming
<1>9. CASE OwnForm(c, q, v) \/ CloseForm(c, q, v)
  <2>1. Head(call[c].script) \in OnOwn /\ v = host.desc[call[c].own]
    BY <1>9 DEF OwnForm, CloseForm, OnOwn
  <2>2. HasOwn(call[c])
    BY <1>1, <2>1 DEF Fit, OwnFit
  <2>3. CASE call[c].fd \in Fd
    <3>1. call[c].own = call[c].fd
      BY <1>1, <2>2, <2>3, RootIs DEF Fit, FileFit, HasOwn
    <3>. QED
      BY <1>1, <2>1, <2>3, <3>1 DEF HandleFit
  <2>4. CASE call[c].fd \notin Fd
    BY <1>1, <1>2, <2>1, <2>2, <2>4 DEF HandleFit
  <2>. QED
    BY <2>3, <2>4
<1>10. CASE HandleForm(c, q, v)
  <2>1. PICK f \in files : f.fd = call[c].fd /\ f.node = call[c].node
    BY <1>1, <1>10 DEF HandleForm, HandleFit
  <2>. QED
    BY <1>10, <2>1 DEF HandleForm, Handled, FilesMean
<1>. QED
  BY <1>6, <1>7, <1>8, <1>9, <1>10

-----------------------------------------------------------------------------
(* The descriptors of every step, and what follows. *)

(* Handles, after a call. *)
LEMMA HandleCalled ==
  ASSUME Base, Owned, Right, Handled, NEW c \in Caller, IsHost(host'), NEW q, NEW v, Called(c, q, v)
  PROVE  Handled'
<1>1. /\ Runs(c, q) /\ Same(call[c], q) /\ call[c].step = "running" /\ call'[c] = q
      /\ \A d \in Caller : d # c => call'[d] = call[d]
      /\ Effect(c)
  BY CallNames, CallEffect
<1>2. /\ Fit(call[c]) /\ call[c].script # <<>> /\ Head(call[c].script) \in Left(call[c].script)
      /\ Left(Tail(call[c].script)) = Left(call[c].script) \ {Head(call[c].script)}
      /\ HandleFit(call[c], files, host.desc) /\ files' = files
  BY <1>1, NowCall, OneLess DEF Runs, Base, Fit, Scripted, Handled
<1>3. Left(q.script) \cap {"pread", "pwrite"} # {} => \E f \in files : f.fd = q.fd /\ f.node = q.node
  <2>1. Tailed(call[c], q) \/ q.script = <<"wait">>
    BY DEF Called, PathForm, OpenForm, CreatForm, WaitForm, NameForm, OwnForm, CloseForm, HandleForm,
       Opened, Reaches
  <2>2. "wait" \in SysCall
    BY DEF SysCall
  <2>3. Left(q.script) \subseteq Left(call[c].script) \cup {"wait"}
    BY <1>2, <2>1, <2>2, OneCall DEF Tailed
  <2>. QED
    BY <1>1, <1>2, <2>3 DEF HandleFit, Same
<1>4. q.stray => Reaches(c, q, v) /\ ~ call[c].raced /\ call[c].node \in Node
                   /\ v # call[c].node /\ call[c].node \notin Soft
  BY <1>2 DEF HandleFit, Called, PathForm, OpenForm, CreatForm, WaitForm, NameForm, OwnForm, CloseForm,
     HandleForm, Opened, Reaches, HitBy
<1>5. ~ q.stray
  <2>1. CASE WaitForm(c, q) \/ NameForm(c, q)
    BY <1>2, <2>1 DEF WaitForm, NameForm, HandleFit
  <2>2. CASE ~ (WaitForm(c, q) \/ NameForm(c, q))
    BY <1>4, <2>2, ReachesRight DEF Called
  <2>. QED
    BY <2>1, <2>2
<1>6. /\ q.fd \in Fd /\ q.own = q.fd => host'.desc[q.own] = q.node
      /\ HasOwn(q) /\ ByPath(q) /\ q.node \notin Soft /\ ~ q.raced => host'.desc[q.own] = q.node
  <2>1. CASE q.own = call[c].own /\ host'.desc = host.desc
    <3>1. HasOwn(q) = HasOwn(call[c]) /\ ByPath(q) = ByPath(call[c])
      BY <1>1, <2>1 DEF Same, HasOwn, ByPath
    <3>. QED
      BY <1>1, <1>2, <2>1, <3>1 DEF Same, HandleFit
  <2>2. CASE CloseForm(c, q, v)
    BY <2>2, RootIs DEF CloseForm, HasOwn
  <2>3. CASE OpenForm(c, q, v) \/ CreatForm(c, q, v)
    <3>1. /\ Reaches(c, q, v) /\ q.own \in Fd \ {0}
          /\ host'.desc = [host.desc EXCEPT ![q.own] = v] /\ Head(call[c].script) \in Opening
      BY <2>3 DEF OpenForm, CreatForm, Opened, Opening
    <3>2. host'.desc[q.own] = v
      BY <3>1 DEF Base, Hosted
    <3>3. q.fd \notin Fd
      BY <1>1, <1>2, <3>1 DEF Fit, FileFit, Opening, Never, Same
    <3>4. ASSUME ByPath(q), q.node \notin Soft, ~ q.raced PROVE v = q.node
      <4>1. /\ ~ call[c].raced /\ call[c].node \in Node /\ call[c].node \notin Soft
            /\ q.node = call[c].node
        BY <1>1, <3>4 DEF Same, ByPath
      <4>. QED
        BY <2>3, <3>1, <4>1, ReachesRight
    <3>. QED
      BY <3>2, <3>3, <3>4
  <2>. QED
    BY <2>1, <2>2, <2>3 DEF Called, PathForm, WaitForm, NameForm, OwnForm, HandleForm
<1>7. q.step = "running"
  BY <1>1 DEF Same
<1>8. HandleFit(q, files', host'.desc)
  BY <1>2, <1>3, <1>5, <1>6, <1>7 DEF HandleFit
<1>. QED
  BY <1>1, <1>2, <1>8, HandleOthers

(* Handled is inductive. *)
LEMMA HandleNext ==
  ASSUME Kept, Owned, OpenedRight, Right, Handled, [Next]_vars
  PROVE  Handled'
<1>0. Base /\ Found
  BY DEF Kept
<1>1. CASE UNCHANGED vars
  <2>1. UNCHANGED <<call, host, files>>
    BY <1>1 DEF vars
  <2>2. ASSUME NEW d \in Caller PROVE HandleFit(call[d], files, host.desc)'
    <3>1. PICK r : r = call'[d]
      OBVIOUS
    <3>2. HandleFit(r, files', host'.desc)
      BY <2>1, <3>1 DEF Handled
    <3>. QED
      BY <3>1, <3>2, HandleLater
  <2>3. FilesMean'
    BY <2>1 DEF Handled, FilesMean
  <2>. QED
    BY <2>2, <2>3, ConstantLater DEF Handled
<1>2. CASE Next
  <2>1. PICK c \in Caller :
           /\ Effect(c)
           /\ \/ \E q : SendStep(c, q)
              \/ BeginLost(c)
              \/ \E q : BeginForm(c, q)
              \/ IsHost(host') /\ \E q, v : Called(c, q, v)
              \/ IsHost(host') /\ CallFails(c)
              \/ \E m, i : \E opened \in BOOLEAN : EntryAnswer(c, m, i, opened)
              \/ AnswerOpened(c)
              \/ \E m : RenameAnswer(c, m)
              \/ AnswerRemoved(c)
              \/ AnswerOther(c)
    BY <1>2, EveryEffect
  <2>2. CASE (\E q : SendStep(c, q)) \/ (\E q : BeginForm(c, q))
    BY <1>0, <2>2, HandleSent, HandleBegin
  <2>3. CASE IsHost(host') /\ \E q, v : Called(c, q, v)
    BY <1>0, <2>3, HandleCalled
  <2>4. CASE BeginLost(c) \/ (IsHost(host') /\ CallFails(c)) \/ AnswerRemoved(c) \/ AnswerOther(c)
             \/ \E m : RenameAnswer(c, m)
    <3>1. End(c) /\ files' = files
      BY <2>4 DEF BeginLost, Takes, End, CallFails, Refused, Recall, AnswerRemoved, AnswerOther,
         RenameAnswer, Ready
    <3>. QED
      BY <1>0, <2>1, <3>1, HandleEnds
  <2>5. CASE \E m, i : \E opened \in BOOLEAN : EntryAnswer(c, m, i, opened)
    <3>1. PICK m, i : \E opened \in BOOLEAN : EntryAnswer(c, m, i, opened)
      BY <2>5
    <3>2. PICK opened \in BOOLEAN : EntryAnswer(c, m, i, opened)
      BY <3>1
    <3>3. End(c) /\ host' = host /\ Running(c) /\ call[c].script = <<>>
          /\ call[c].reply \in {"entry", "created"} /\ (opened = (call[c].reply = "created"))
      BY <3>2 DEF EntryAnswer
    <3>4. /\ opened => HasOwn(call[c])
          /\ files' = IF opened THEN files \cup {[fd |-> call[c].own, num |-> i, node |-> call[c].found]}
                      ELSE files
      BY <1>0, <3>2, EntryEffect
    <3>5. opened => host'.desc[call[c].own] = call[c].found
      BY <1>0, <3>3, <3>4, FoundIs DEF OpenedRight, OpenedFit
    <3>. QED
      BY <1>0, <2>1, <3>3, <3>4, <3>5, HandleEnds
  <2>6. CASE AnswerOpened(c)
    <3>1. HasOwn(call[c]) /\ call[c].reply = "opened"
      BY <1>0, <2>6, OpenedEffect DEF AnswerOpened, Ready
    <3>2. PICK v : v = IF call[c].raced THEN host.desc[call[c].own] ELSE call[c].node
      OBVIOUS
    <3>3. End(c) /\ host' = host
          /\ files' = files \cup {[fd |-> call[c].own, num |-> call[c].num, node |-> v]}
      BY <2>6, <3>2 DEF AnswerOpened, Ready, Recall
    <3>4. ByPath(call[c]) /\ call[c].node \notin Soft
      BY <1>0, <3>1, NowCall, MirrorMountAssumption DEF Fit, FileFit, Base, ByPath, Node
    <3>5. HandleFit(call[c], files, host.desc)
      BY DEF Handled
    <3>6. host'.desc[call[c].own] = v
      BY <3>1, <3>2, <3>3, <3>4, <3>5 DEF HandleFit
    <3>. QED
      BY <1>0, <2>1, <3>3, <3>6, HandleEnds
  <2>. QED
    BY <2>1, <2>2, <2>3, <2>4, <2>5, <2>6
<1>. QED
  BY <1>1, <1>2

(* It holds in the beginning. *)
LEMMA InitHandled == Init => Handled
BY NoCallHandle DEF Init, Handled, FilesMean

(* What the last two theorems rest on. *)
Served == Kept /\ Names /\ Owned /\ OpenedRight /\ FilesKnown /\ Flat /\ Right /\ Handled

(* All layers together are inductive. *)
LEMMA ServedAlways ==
  /\ Init => Served
  /\ Served /\ [Next]_vars => Served'
<1>1. Init => Served
  BY InitKept, InitNames, InitOwned, InitRight, InitHandled DEF Served
<1>2. Served /\ [Next]_vars => Served'
  BY KeptNext, NamesNext, OpenedNext, RightNext, HandleNext DEF Served
<1>. QED
  BY <1>1, <1>2

(* A handle of the kernel means the file it was opened for, however
   descriptors were closed and their numbers given out again since. *)
THEOREM HandlesMeanFiles == Spec => []HandleMeansFile
<1>1. Served => HandleMeansFile
  BY DEF Served, Kept, Base, Hosted, Handled, FilesMean, HandleMeansFile
<1>. QED
  BY <1>1, ServedAlways, PTL DEF Spec

(* A request whose path was not changed while it ran reaches the file the
   kernel meant, or what a symbolic link in its place names, and no other,
   whatever renames, removals and creations were answered between the
   kernel's send and the worker's begin. *)
THEOREM RightFileAlways == Spec => []RightFile
<1>1. Served => RightFile
  BY DEF Served, Handled, HandleFit, RightFile
<1>. QED
  BY <1>1, ServedAlways, PTL DEF Spec
=============================================================================
