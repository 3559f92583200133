--------------------------- MODULE SnapshotProofs ---------------------------
(***************************************************************************)
(* Proofs about Snapshot, for any number of writers and inodes, any files, *)
(* any failures and restarts: a reader sees whole payloads only, and the   *)
(* directory implements SnapshotFiles, except where calls met at a file.   *)
(***************************************************************************)
EXTENDS Snapshot, TLAPS

USE SnapshotAssumption

Opened(w) == writer[w].pc \in {"write", "finish", "rename"}

\* A temporary file is nobody else's, and never one that calls have met over.
NamesInv ==
    /\ \A f, g \in Files :
          /\ tmp[f] # None => tmp[f] # pub[g] /\ tmp[f] # reader /\ tmp[f] \notin doubtful
          /\ tmp[f] # None /\ tmp[f] = tmp[g] => f = g
    /\ \A i \in doubtful : InUse(i)

\* Writers that are at the same file know it.
MetInv ==
    \A v, w \in Writers :
        v # w /\ AtFile(v) /\ AtFile(w) /\ File(v) = File(w) => writer[w].met

\* What a writer has open still has its temporary name, or another call has renamed it.
OpenInv ==
    \A w \in Writers : Opened(w) =>
        \/ writer[w].fd = tmp[File(w)]
        \/ /\ writer[w].met /\ writer[w].fd \in doubtful
           /\ \A g \in Files : pub[g] = writer[w].fd => g = File(w)

\* What a writer has written that is alone at its file.
WritingInv ==
    \A w \in Writers : ~writer[w].met =>
        /\ writer[w].pc = "write" => data[writer[w].fd] = Empty
        /\ writer[w].pc = "finish" => data[writer[w].fd] = Half(w)
        /\ writer[w].pc = "rename" => data[writer[w].fd] = Whole(writer[w].version)

\* The payload on its way is not older than the one it replaces, if its writer is alone.
AgeInv ==
    /\ \A i \in Inodes : data[i].version <= version
    /\ \A w \in Writers :
          /\ writer[w].version <= version
          /\ AtFile(w) /\ ~writer[w].met => Shown(File(w)) <= writer[w].version

SnapshotInv == NamesInv /\ MetInv /\ OpenInv /\ WritingInv /\ AgeInv /\ WholeUnlessMet

-----------------------------------------------------------------------------
(* Type correctness. *)

LEMMA OrderTypes ==
  /\ Len(Order) \in Nat
  /\ \A k \in 1 .. Len(Order) : Order[k] \in Files
BY DEF Files

LEMMA ContentTypes ==
  /\ Empty \in Content /\ Torn \in Content
  /\ \A w \in Writers : Half(w) \in Content
  /\ \A v \in Version : Whole(v) \in Content
BY DEF Content, Empty, Torn, Half, Whole, Version

LEMMA StateTypes ==
  ASSUME TypeOK
  PROVE  /\ tmp \in [Files -> Inodes \cup {None}] /\ pub \in [Files -> Inodes \cup {None}]
         /\ data \in [Inodes -> Content] /\ writer \in [Writers -> Call]
         /\ reader \in Inodes \cup {None} /\ doubtful \subseteq Inodes
         /\ version \in Version
BY DEF TypeOK, Version

LEMMA CallTypes ==
  ASSUME TypeOK, NEW w \in Writers
  PROVE  /\ writer[w] \in Call
         /\ writer[w].k \in 1 .. Len(Order)
         /\ writer[w].version \in Version
         /\ writer[w].fd \in Inodes \cup {None}
         /\ writer[w].met \in BOOLEAN
         /\ File(w) \in Files
         /\ Opened(w) <=> writer[w].fd # None
<1>1. writer[w] \in Call
  BY DEF TypeOK
<1>2. writer[w].k \in 1 .. Len(Order)
  BY <1>1 DEF Call
<1>3. File(w) \in Files
  BY <1>2, OrderTypes DEF File
<1>4. QED
  BY <1>1, <1>2, <1>3 DEF Call, TypeOK, Opened

LEMMA IdleType ==
  /\ Idle \in Call /\ Idle.pc = "next" /\ Idle.fd = None /\ Idle.version = 0
  /\ Idle.met = FALSE
BY OrderTypes DEF Idle, Call, Version

LEMMA InitTypeOK == Init => TypeOK
BY IdleType, ContentTypes DEF Init, TypeOK

\* The open descriptor of a call agrees with where the call is.
HoldsFd(call) == call.fd # None <=> call.pc \in {"write", "finish", "rename"}

LEMMA ReclaimTypes ==
  ASSUME TypeOK, NEW named, named \subseteq Inodes, Reclaim(named)
  PROVE  data' \in [Inodes -> Content] /\ doubtful' \subseteq Inodes
BY ContentTypes, StateTypes DEF Reclaim

LEMMA ProceedTypes ==
  ASSUME TypeOK, NEW w \in Writers
  PROVE  /\ Proceed(writer[w]) \in Call /\ Proceed(writer[w]).pc = "next"
         /\ Proceed(writer[w]).fd = None /\ Proceed(writer[w]).version = 0
<1>1. CASE writer[w].k < Len(Order)
  <2>1. Proceed(writer[w]) = [pc |-> "next", k |-> writer[w].k + 1, version |-> 0,
                              fd |-> None, met |-> FALSE]
    BY <1>1 DEF Proceed, Idle
  <2>2. writer[w].k + 1 \in 1 .. Len(Order) /\ 0 \in Version
    BY <1>1, CallTypes, OrderTypes DEF Version
  <2>3. QED
    BY <2>1, <2>2 DEF Call
<1>2. CASE ~(writer[w].k < Len(Order))
  BY <1>2, IdleType DEF Proceed
<1>3. QED
  BY <1>1, <1>2

LEMMA WriterTypeOK ==
  ASSUME TypeOK, NEW w \in Writers, WriterStep(w)
  PROVE  TypeOK'
<1> USE CallTypes, ContentTypes, IdleType, OrderTypes, StateTypes
<1>a. ASSUME NEW call \in Call, HoldsFd(call), writer' = [writer EXCEPT ![w] = call],
             UNCHANGED <<version, reader>>, doubtful' \subseteq Inodes,
             tmp' \in [Files -> Inodes \cup {None}], pub' \in [Files -> Inodes \cup {None}],
             data' \in [Inodes -> Content]
      PROVE  TypeOK'
  BY <1>a DEF TypeOK, HoldsFd
<1>b. HoldsFd(Idle)
  BY DEF HoldsFd
<1>c. \A v \in Writers : HoldsFd(writer[v])
  BY DEF TypeOK, HoldsFd
<1>1. CASE Build(w)
  <2>1. \A v \in Writers : writer'[v] \in Call /\ HoldsFd(writer'[v])
    <3> TAKE v \in Writers
    <3>1. writer[v] \in Call /\ HoldsFd(writer[v]) /\ (v = w => writer[v].pc = "next")
      BY <1>1, <1>c DEF Build
    <3>2. CASE v = w
      BY <1>1, <3>1, <3>2 DEF Build, Call, HoldsFd
    <3>3. CASE v # w
      BY <1>1, <3>1, <3>3 DEF Build, Call, HoldsFd
    <3>4. QED
      BY <3>2, <3>3
  <2>2. writer' = [v \in Writers |-> writer'[v]]
    BY <1>1 DEF Build
  <2>3. UNCHANGED <<version, tmp, pub, data, reader, doubtful>>
    BY <1>1 DEF Build
  <2>4. QED
    BY <2>1, <2>2, <2>3 DEF TypeOK, HoldsFd
<1>2. CASE Create(w)
  <2>1. PICK i \in Inodes : /\ tmp' = [tmp EXCEPT ![File(w)] = i]
                            /\ data' = [data EXCEPT ![i] = Empty]
                            /\ writer' = [writer EXCEPT ![w].pc = "write", ![w].fd = i]
    BY <1>2 DEF Create, Fresh
  <2> DEFINE call == [writer[w] EXCEPT !.pc = "write", !.fd = i]
  <2>2. call \in Call /\ HoldsFd(call)
    BY DEF Call, HoldsFd
  <2>3. writer' = [writer EXCEPT ![w] = call]
    BY <2>1
  <2>4. data' \in [Inodes -> Content] /\ tmp' \in [Files -> Inodes \cup {None}]
    BY <2>1
  <2>5. UNCHANGED <<version, pub, reader, doubtful>>
    BY <1>2 DEF Create
  <2>6. QED
    BY <1>a, <2>2, <2>3, <2>4, <2>5
<1>3. CASE Write(w)
  <2> DEFINE call == [writer[w] EXCEPT !.pc = "finish"]
  <2>1. call \in Call /\ HoldsFd(call)
    BY <1>3, <1>c DEF Write, Call, HoldsFd
  <2>2. writer' = [writer EXCEPT ![w] = call]
    BY <1>3 DEF Write
  <2>3. data' \in [Inodes -> Content]
    BY <1>3 DEF Write
  <2>4. QED
    BY <1>3, <1>a, <2>1, <2>2, <2>3 DEF Write
<1>4. CASE Finish(w)
  <2> DEFINE call == [writer[w] EXCEPT !.pc = "rename"]
  <2>1. call \in Call /\ HoldsFd(call)
    BY <1>4, <1>c DEF Finish, Call, HoldsFd
  <2>2. writer' = [writer EXCEPT ![w] = call]
    BY <1>4 DEF Finish
  <2>3. Finished(data[writer[w].fd], w) \subseteq Content
    BY DEF Finished
  <2>4. data' \in [Inodes -> Content]
    BY <1>4, <2>3 DEF Finish
  <2>5. QED
    BY <1>4, <1>a, <2>1, <2>2, <2>4 DEF Finish
<1>5. CASE Rename(w)
  <2>1. CASE tmp[File(w)] = None
    <3>1. data' \in [Inodes -> Content] /\ doubtful' \subseteq Inodes
      BY <1>5, <2>1, ReclaimTypes DEF Rename
    <3>2. QED
      BY <1>5, <1>a, <1>b, <2>1, <3>1 DEF Rename
  <2>2. CASE tmp[File(w)] # None
    <3>1. Proceed(writer[w]) \in Call /\ HoldsFd(Proceed(writer[w]))
      BY ProceedTypes DEF HoldsFd
    <3>2. /\ writer' = [writer EXCEPT ![w] = Proceed(writer[w])]
          /\ pub' = [pub EXCEPT ![File(w)] = tmp[File(w)]]
          /\ tmp' = [tmp EXCEPT ![File(w)] = None]
          /\ UNCHANGED <<version, reader>>
      BY <1>5, <2>2 DEF Rename
    <3>3. data' \in [Inodes -> Content] /\ doubtful' \subseteq Inodes
      BY <1>5, <2>2, ReclaimTypes DEF Rename
    <3>4. tmp' \in [Files -> Inodes \cup {None}] /\ pub' \in [Files -> Inodes \cup {None}]
      BY <3>2
    <3>5. QED
      BY <1>a, <3>1, <3>2, <3>3, <3>4
  <2>3. QED
    BY <2>1, <2>2
<1>6. CASE Fail(w)
  <2>1. data' \in [Inodes -> Content] /\ doubtful' \subseteq Inodes
    BY <1>6, ReclaimTypes DEF Fail
  <2>2. QED
    BY <1>6, <1>a, <1>b, <2>1 DEF Fail
<1>7. QED
  BY <1>1, <1>2, <1>3, <1>4, <1>5, <1>6 DEF WriterStep

LEMMA NextTypeOK == TypeOK /\ [Next]_vars => TypeOK'
<1> SUFFICES ASSUME TypeOK, [Next]_vars PROVE TypeOK'
  OBVIOUS
<1>1. CASE Collect
  BY <1>1 DEF Collect, TypeOK
<1>2. CASE Restart
  BY <1>2, IdleType, ReclaimTypes DEF Restart, TypeOK
<1>3. CASE \E f \in Files : Open(f)
  BY <1>3 DEF Open, TypeOK
<1>4. CASE Release
  BY <1>4, ReclaimTypes DEF Release, TypeOK
<1>5. CASE UNCHANGED vars
  BY <1>5 DEF vars, TypeOK
<1>6. QED
  BY <1>1, <1>2, <1>3, <1>4, <1>5, WriterTypeOK DEF Next

\* Every variable keeps its type, and a writer has a file open exactly while it writes to it,
\* whatever fails and however the calls meet.
THEOREM SnapshotTypes == Spec => []TypeOK
BY InitTypeOK, NextTypeOK, PTL DEF Spec

-----------------------------------------------------------------------------
(* The invariant of calls that may meet. *)

LEMMA SnapshotInit == Init => SnapshotInv
BY IdleType, ContentTypes DEF Init, SnapshotInv, NamesInv, MetInv, OpenInv, WritingInv, AgeInv,
   WholeUnlessMet, Visible, Opened, AtFile, Shown, Empty

\* What a reader sees stays as it is.
Quiet ==
    \A f \in Files : Shown(f)' = Shown(f) /\ (pub'[f] \in doubtful' <=> pub[f] \in doubtful)

\* The step shows a payload that is not older in the file of writer w, which is whole.
Replaces(w) ==
    \A f \in Files :
        IF f = File(w) THEN Shown(f)' \in Shown(f) .. version /\ pub'[f] \notin doubtful'
        ELSE Shown(f)' = Shown(f) /\ (pub'[f] \in doubtful' <=> pub[f] \in doubtful)

\* The step shows something of the file of writer w that may be damaged.
Disturbs(w) ==
    \A f \in Files :
        IF f = File(w) THEN Shown(f)' \in 0 .. version /\ pub'[f] \in doubtful'
        ELSE Shown(f)' = Shown(f) /\ (pub'[f] \in doubtful' <=> pub[f] \in doubtful)

\* What nobody alone at a file has open, and no two writers that are alone share.
LEMMA AloneHasIt ==
  ASSUME TypeOK, SnapshotInv, NEW v \in Writers, NEW w \in Writers, v # w,
         AtFile(w), ~writer[w].met, Opened(v)
  PROVE  /\ Opened(w) => writer[v].fd # writer[w].fd
         /\ pub[File(w)] # writer[v].fd
         /\ File(v) # File(w)
<1> USE CallTypes, StateTypes DEF SnapshotInv
<1>1. AtFile(v)
  BY DEF Opened, AtFile
<1>2. File(v) # File(w)
  BY <1>1 DEF MetInv
<1>3. writer[v].fd # None
  BY DEF TypeOK, Opened
<1>4. Opened(w) => writer[w].fd = tmp[File(w)] /\ writer[w].fd # None
  BY DEF OpenInv
<1>5. CASE writer[v].fd = tmp[File(v)]
  BY <1>2, <1>3, <1>4, <1>5 DEF NamesInv
<1>6. CASE writer[v].fd # tmp[File(v)]
  BY <1>2, <1>3, <1>4, <1>6 DEF NamesInv, OpenInv
<1>7. QED
  BY <1>2, <1>5, <1>6

\* Calls end or are cut short, the reader lets go: what nothing refers to is reclaimed.
LEMMA DropKeeps ==
  ASSUME TypeOK, TypeOK', SnapshotInv,
         \A v \in Writers : writer'[v] = writer[v] \/ writer'[v] = Idle,
         UNCHANGED <<version, tmp, pub>>, reader' \in {reader, None}, Reclaim(doubtful)
  PROVE  SnapshotInv' /\ Quiet
<1> USE CallTypes, IdleType, StateTypes DEF SnapshotInv
<1>1. \A i \in Inodes : data'[i] = (IF InUse(i)' THEN data[i] ELSE Empty)
  BY DEF Reclaim
<1>2. \A i \in Inodes : i \in doubtful' <=> i \in doubtful /\ InUse(i)'
  BY DEF Reclaim
<1>3. /\ \A f \in Files : InUse(tmp[f])' /\ InUse(pub[f])'
      /\ \A v \in Writers : InUse(writer[v].fd)'
      /\ InUse(reader)'
  BY DEF InUse
<1>4. \A v \in Writers : /\ AtFile(v)' => writer'[v] = writer[v] /\ AtFile(v)
                         /\ Opened(v)' => writer'[v] = writer[v] /\ Opened(v)
                         /\ writer'[v] = writer[v] => File(v)' = File(v)
  BY DEF AtFile, Opened, File
<1>5. NamesInv'
  BY <1>2 DEF NamesInv, Reclaim
<1>6. MetInv'
  BY <1>4 DEF MetInv
<1>7. OpenInv'
  <2> SUFFICES ASSUME NEW w \in Writers, Opened(w)'
               PROVE  \/ writer'[w].fd = tmp'[File(w)']
                      \/ /\ writer'[w].met /\ writer'[w].fd \in doubtful'
                         /\ \A g \in Files : pub'[g] = writer'[w].fd => g = File(w)'
    BY DEF OpenInv
  <2>1. writer'[w] = writer[w] /\ Opened(w) /\ File(w)' = File(w)
    BY <1>4
  <2>2. writer[w].fd \in Inodes /\ InUse(writer[w].fd)'
    BY <1>3, <2>1
  <2>3. QED
    BY <1>2, <2>1, <2>2 DEF OpenInv
<1>8. WritingInv'
  <2> SUFFICES ASSUME NEW w \in Writers, ~writer'[w].met, Opened(w)'
               PROVE  /\ writer'[w].pc = "write" => data'[writer'[w].fd] = Empty
                      /\ writer'[w].pc = "finish" => data'[writer'[w].fd] = Half(w)
                      /\ writer'[w].pc = "rename" =>
                            data'[writer'[w].fd] = Whole(writer'[w].version)
    BY DEF WritingInv, Opened
  <2>1. writer'[w] = writer[w] /\ Opened(w)
    BY <1>4
  <2>2. writer[w].fd \in Inodes /\ InUse(writer[w].fd)'
    BY <1>3, <2>1
  <2>3. data'[writer[w].fd] = data[writer[w].fd]
    BY <1>1, <2>1, <2>2
  <2>4. QED
    BY <2>1, <2>3 DEF WritingInv
<1>9. \A f \in Files : pub[f] # None => data'[pub[f]] = data[pub[f]]
  BY <1>1, <1>3
<1>10. Quiet
  <2>1. ASSUME NEW f \in Files
        PROVE  Shown(f)' = Shown(f) /\ (pub'[f] \in doubtful' <=> pub[f] \in doubtful)
    <3>1. Shown(f)' = Shown(f)
      BY <1>9 DEF Shown
    <3>2. InUse(pub[f])' /\ pub'[f] = pub[f]
      BY <1>3
    <3>3. pub[f] \in doubtful => pub[f] \in Inodes
      OBVIOUS
    <3>4. doubtful' \subseteq Inodes
      BY DEF TypeOK
    <3>5. QED
      BY <1>2, <3>1, <3>2, <3>3, <3>4
  <2>2. QED
    BY <2>1 DEF Quiet
<1>11. AgeInv'
  <2>1. \A i \in Inodes : data'[i].version <= version'
    BY <1>1 DEF AgeInv, Empty, Version
  <2>2. ASSUME NEW w \in Writers
        PROVE  /\ writer'[w].version <= version'
               /\ AtFile(w)' /\ ~writer'[w].met => Shown(File(w))' <= writer'[w].version
    <3>1. writer'[w].version <= version'
      BY DEF AgeInv, Version
    <3>2. ASSUME AtFile(w)', ~writer'[w].met
          PROVE  Shown(File(w))' <= writer'[w].version
      <4>1. writer'[w] = writer[w] /\ AtFile(w) /\ File(w)' = File(w)
        BY <1>4, <3>2
      <4>2. Shown(File(w))' = Shown(File(w))
        BY <1>9, <4>1 DEF Shown
      <4>3. QED
        BY <3>2, <4>1, <4>2 DEF AgeInv
    <3>3. QED
      BY <3>1, <3>2
  <2>3. QED
    BY <2>1, <2>2 DEF AgeInv
<1>12. WholeUnlessMet'
  <2> SUFFICES ASSUME NEW i \in Inodes, i \notin doubtful', Visible(i)'
               PROVE  data'[i].state = "whole"
    BY DEF WholeUnlessMet
  <2>1. InUse(i)' /\ Visible(i)
    BY DEF InUse, Visible
  <2>2. QED
    BY <1>1, <1>2, <2>1 DEF WholeUnlessMet
<1>13. QED
  BY <1>5, <1>6, <1>7, <1>8, <1>10, <1>11, <1>12

\* A descriptor is written to: only what calls have met over can be seen to change.
LEMMA WriteKeeps ==
  ASSUME TypeOK, TypeOK', SnapshotInv, NEW w \in Writers,
         NEW new \in Content, NEW next \in {"finish", "rename"},
         Opened(w), new.version <= version,
         writer' = [writer EXCEPT ![w].pc = next],
         data' = [data EXCEPT ![writer[w].fd] = new],
         ~writer[w].met /\ next = "finish" => new = Half(w),
         ~writer[w].met /\ next = "rename" => new = Whole(writer[w].version),
         UNCHANGED <<version, tmp, pub, reader, doubtful>>
  PROVE  SnapshotInv' /\ (Quiet \/ Disturbs(w))
<1> USE CallTypes, StateTypes DEF SnapshotInv
<1>1. /\ writer'[w].pc = next /\ writer'[w].fd = writer[w].fd /\ writer'[w].k = writer[w].k
      /\ writer'[w].version = writer[w].version /\ writer'[w].met = writer[w].met
      /\ \A v \in Writers : v # w => writer'[v] = writer[v]
  BY DEF Call
<1>2. \A v \in Writers : /\ writer'[v].fd = writer[v].fd /\ writer'[v].met = writer[v].met
                         /\ writer'[v].version = writer[v].version
                         /\ File(v)' = File(v)
                         /\ Opened(v)' <=> Opened(v)
                         /\ AtFile(v)' <=> AtFile(v)
  BY <1>1 DEF Opened, AtFile, File
<1>3. writer[w].fd \in Inodes /\ data'[writer[w].fd] = new
      /\ \A i \in Inodes : i # writer[w].fd => data'[i] = data[i]
  OBVIOUS
<1>4. \A i \in Inodes : InUse(i) => InUse(i)'
  BY <1>2 DEF InUse
<1>5. NamesInv'
  BY <1>4 DEF NamesInv
<1>6. MetInv'
  BY <1>2 DEF MetInv
<1>7. OpenInv'
  BY <1>2 DEF OpenInv
<1>8. WritingInv'
  <2> SUFFICES ASSUME NEW v \in Writers, ~writer'[v].met, Opened(v)'
               PROVE  /\ writer'[v].pc = "write" => data'[writer'[v].fd] = Empty
                      /\ writer'[v].pc = "finish" => data'[writer'[v].fd] = Half(v)
                      /\ writer'[v].pc = "rename" =>
                            data'[writer'[v].fd] = Whole(writer'[v].version)
    BY DEF WritingInv, Opened
  <2>1. CASE v = w
    BY <1>1, <1>3, <2>1
  <2>2. CASE v # w
    <3>1. Opened(v) /\ AtFile(v) /\ ~writer[v].met /\ writer'[v] = writer[v]
      BY <1>1, <1>2, <2>2 DEF Opened, AtFile
    <3>2. writer[v].fd # writer[w].fd /\ writer[v].fd \in Inodes
      BY <2>2, <3>1, AloneHasIt
    <3>3. data'[writer[v].fd] = data[writer[v].fd]
      BY <1>3, <3>2
    <3>4. QED
      BY <3>1, <3>3 DEF WritingInv
  <2>3. QED
    BY <2>1, <2>2
\* What has a final name and nobody has met over is not written to.
<1>9. \A i \in Inodes : i \notin doubtful /\ Visible(i) => data'[i] = data[i]
  <2>1. \A i \in Inodes : i \notin doubtful /\ Visible(i) => i # writer[w].fd
    BY DEF OpenInv, NamesInv, Visible
  <2>2. QED
    BY <1>3, <2>1
<1>10. WholeUnlessMet'
  BY <1>9 DEF WholeUnlessMet, Visible
<1>11. AgeInv'
  <2>1. \A i \in Inodes : data'[i].version <= version'
    BY <1>3 DEF AgeInv
  <2>2. ASSUME NEW v \in Writers, AtFile(v)', ~writer'[v].met
        PROVE  Shown(File(v))' <= writer'[v].version
    <3>1. AtFile(v) /\ ~writer[v].met /\ Shown(File(v)) <= writer[v].version
      BY <1>2, <2>2 DEF AgeInv
    <3>2. pub[File(v)] # writer[w].fd
      <4>1. CASE v = w
        BY <3>1, <4>1 DEF OpenInv, NamesInv
      <4>2. CASE v # w
        BY <3>1, <4>2, AloneHasIt
      <4>3. QED
        BY <4>1, <4>2
    <3>3. Shown(File(v))' = Shown(File(v))
      BY <1>2, <1>3, <3>2 DEF Shown
    <3>4. QED
      BY <1>2, <3>1, <3>3
  <2>3. \A v \in Writers : writer'[v].version <= version'
    BY <1>2 DEF AgeInv
  <2>4. QED
    BY <2>1, <2>2, <2>3 DEF AgeInv
<1>12. Quiet \/ Disturbs(w)
  <2>1. CASE pub[File(w)] = writer[w].fd
    <3>1. writer[w].fd \in doubtful /\ \A g \in Files : pub[g] = writer[w].fd => g = File(w)
      BY <2>1 DEF OpenInv, NamesInv
    <3>2. \A f \in Files : f # File(w) => Shown(f)' = Shown(f)
      BY <1>3, <3>1 DEF Shown
    <3>3. Shown(File(w))' \in 0 .. version
      <4>1. pub'[File(w)] = writer[w].fd /\ File(w)' = File(w)
        BY <1>2, <2>1
      <4>2. Shown(File(w))' = new.version
        BY <1>3, <4>1 DEF Shown
      <4>3. new.version \in Nat /\ version \in Nat
        BY DEF Content, Version
      <4>4. QED
        BY <4>2, <4>3
    <3>4. \A f \in Files : pub'[f] = pub[f]
      OBVIOUS
    <3>5. ASSUME NEW f \in Files
          PROVE  IF f = File(w) THEN Shown(f)' \in 0 .. version /\ pub'[f] \in doubtful'
                 ELSE Shown(f)' = Shown(f) /\ (pub'[f] \in doubtful' <=> pub[f] \in doubtful)
      <4>1. CASE f = File(w)
        <5>1. Shown(f)' = Shown(File(w))'
          BY <1>2, <4>1 DEF Shown
        <5>2. QED
          BY <2>1, <3>1, <3>3, <3>4, <4>1, <5>1
      <4>2. CASE f # File(w)
        BY <3>2, <3>4, <4>2
      <4>3. QED
        BY <4>1, <4>2
    <3>6. QED
      BY <3>5 DEF Disturbs
  <2>2. CASE pub[File(w)] # writer[w].fd
    <3>1. \A g \in Files : pub[g] # writer[w].fd
      BY <2>2 DEF OpenInv, NamesInv
    <3>2. QED
      BY <1>3, <3>1 DEF Quiet, Shown
  <2>3. QED
    BY <2>1, <2>2
<1>13. QED
  BY <1>5, <1>6, <1>7, <1>8, <1>10, <1>11, <1>12

LEMMA BuildKeeps ==
  ASSUME TypeOK, TypeOK', SnapshotInv, NEW w \in Writers, Build(w)
  PROVE  SnapshotInv' /\ Quiet
<1> USE CallTypes, StateTypes DEF SnapshotInv
<1>1. /\ UNCHANGED <<version, tmp, pub, data, reader, doubtful>> /\ writer[w].pc = "next"
      /\ writer' = [v \in Writers |->
            IF v = w THEN [writer[v] EXCEPT !.pc = "create", !.version = version,
                                            !.met = Others(w) # {}]
            ELSE IF v \in Others(w) THEN [writer[v] EXCEPT !.met = TRUE]
            ELSE writer[v]]
  BY DEF Build
<1>2. /\ writer'[w].pc = "create" /\ writer'[w].version = version /\ writer'[w].k = writer[w].k
      /\ writer'[w].fd = writer[w].fd /\ (writer'[w].met <=> Others(w) # {})
  BY <1>1 DEF Call
<1>3. ASSUME NEW v \in Writers, v # w
      PROVE  /\ writer'[v].pc = writer[v].pc /\ writer'[v].version = writer[v].version
             /\ writer'[v].k = writer[v].k /\ writer'[v].fd = writer[v].fd
             /\ writer'[v].met <=> writer[v].met \/ v \in Others(w)
  BY <1>1, <1>3 DEF Call
<1>4. ASSUME NEW v \in Writers
      PROVE  /\ writer'[v].fd = writer[v].fd /\ File(v)' = File(v)
             /\ Opened(v)' <=> Opened(v)
             /\ AtFile(v)' <=> (AtFile(v) \/ v = w)
             /\ Opened(v) => v # w
  <2>1. CASE v = w
    BY <1>1, <1>2, <2>1 DEF Opened, AtFile, File
  <2>2. CASE v # w
    BY <1>3, <2>2 DEF Opened, AtFile, File
  <2>3. QED
    BY <2>1, <2>2
<1>5. NamesInv' /\ WholeUnlessMet'
  <2>1. \A i \in Inodes : InUse(i) => InUse(i)'
    BY <1>1, <1>4 DEF InUse
  <2>2. QED
    BY <1>1, <2>1 DEF NamesInv, WholeUnlessMet, Visible
<1>6. MetInv'
  <2> SUFFICES ASSUME NEW u \in Writers, NEW v \in Writers, u # v, AtFile(u)', AtFile(v)',
                      File(u)' = File(v)'
               PROVE  writer'[v].met
    BY DEF MetInv
  <2>1. File(u) = File(v)
    BY <1>4
  <2>2. CASE v = w
    BY <1>2, <1>4, <2>1, <2>2 DEF Others
  <2>3. CASE u = w
    BY <1>3, <1>4, <2>1, <2>3 DEF Others
  <2>4. CASE u # w /\ v # w
    BY <1>3, <1>4, <2>1, <2>4 DEF MetInv
  <2>5. QED
    BY <2>2, <2>3, <2>4
<1>7. OpenInv'
  <2> SUFFICES ASSUME NEW v \in Writers, Opened(v)'
               PROVE  \/ writer'[v].fd = tmp'[File(v)']
                      \/ /\ writer'[v].met /\ writer'[v].fd \in doubtful'
                         /\ \A g \in Files : pub'[g] = writer'[v].fd => g = File(v)'
    BY DEF OpenInv
  <2>1. v # w /\ Opened(v) /\ writer'[v].fd = writer[v].fd /\ File(v)' = File(v)
    BY <1>4
  <2>2. writer[v].met => writer'[v].met
    BY <1>3, <2>1
  <2>3. \/ writer[v].fd = tmp[File(v)]
        \/ /\ writer[v].met /\ writer[v].fd \in doubtful
           /\ \A g \in Files : pub[g] = writer[v].fd => g = File(v)
    BY <2>1 DEF OpenInv
  <2>4. tmp' = tmp /\ pub' = pub /\ doubtful' = doubtful
    BY <1>1
  <2>5. QED
    BY <2>1, <2>2, <2>3, <2>4
<1>8. WritingInv'
  BY <1>1, <1>2, <1>3 DEF WritingInv
<1>9. AgeInv'
  <2>1. \A f \in Files : Shown(f)' = Shown(f) /\ Shown(f) <= version
    <3>1. \A f \in Files : Shown(f)' = Shown(f)
      BY <1>1 DEF Shown
    <3>2. 0 <= version
      BY DEF Version
    <3>3. QED
      BY <3>1, <3>2 DEF Shown, AgeInv
  <2>2. ASSUME NEW v \in Writers
        PROVE  /\ writer'[v].version <= version'
               /\ AtFile(v)' /\ ~writer'[v].met => Shown(File(v))' <= writer'[v].version
    <3>1. Shown(File(v))' = Shown(File(v))
      BY <1>1, <1>4 DEF Shown
    <3>2. File(v) \in Files /\ version' = version /\ version \in Int
      <4>1. File(v) \in Files
        BY CallTypes
      <4>2. version \in Int
        BY StateTypes DEF Version
      <4>3. QED
        BY <1>1, <4>1, <4>2
    <3>3. CASE v = w
      <4>1. writer'[v].version = version /\ Shown(File(v)) <= version
        BY <1>2, <2>1, <3>2, <3>3
      <4>2. QED
        BY <3>1, <3>2, <4>1
    <3>4. CASE v # w
      <4>1. writer'[v].version = writer[v].version /\ (AtFile(v)' <=> AtFile(v))
            /\ (writer[v].met => writer'[v].met)
        BY <1>3, <1>4, <3>4
      <4>2. writer[v].version <= version
            /\ (AtFile(v) /\ ~writer[v].met => Shown(File(v)) <= writer[v].version)
        BY DEF AgeInv
      <4>3. QED
        BY <3>1, <3>2, <4>1, <4>2
    <3>5. QED
      BY <3>3, <3>4
  <2>3. QED
    BY <1>1, <2>2 DEF AgeInv
<1>10. Quiet
  BY <1>1 DEF Quiet, Shown
<1>11. QED
  BY <1>5, <1>6, <1>7, <1>8, <1>9, <1>10
\* What os.Create opens is seen by nobody.
LEMMA CreateKeeps ==
  ASSUME TypeOK, TypeOK', SnapshotInv, NEW w \in Writers, Create(w)
  PROVE  SnapshotInv' /\ Quiet
<1> USE CallTypes, StateTypes DEF SnapshotInv
<1>1. PICK i \in Inodes :
        /\ IF tmp[File(w)] = None THEN ~InUse(i) ELSE i = tmp[File(w)]
        /\ tmp' = [tmp EXCEPT ![File(w)] = i]
        /\ data' = [data EXCEPT ![i] = Empty]
        /\ writer' = [writer EXCEPT ![w].pc = "write", ![w].fd = i]
  BY DEF Create, Fresh
<1>2. UNCHANGED <<version, pub, reader, doubtful>> /\ writer[w].pc = "create"
  BY DEF Create
<1>3. /\ writer'[w].pc = "write" /\ writer'[w].fd = i /\ writer'[w].k = writer[w].k
      /\ writer'[w].version = writer[w].version /\ writer'[w].met = writer[w].met
      /\ \A v \in Writers : v # w => writer'[v] = writer[v]
  BY <1>1 DEF Call
<1>4. ASSUME NEW v \in Writers
      PROVE  /\ File(v)' = File(v) /\ (AtFile(v)' <=> AtFile(v))
             /\ writer'[v].met = writer[v].met /\ writer'[v].version = writer[v].version
             /\ v # w => (Opened(v)' <=> Opened(v))
  <2>1. CASE v = w
    BY <1>2, <1>3, <2>1 DEF AtFile, File
  <2>2. CASE v # w
    BY <1>3, <2>2 DEF Opened, AtFile, File
  <2>3. QED
    BY <2>1, <2>2
<1>5. tmp'[File(w)] = i /\ \A f \in Files : f # File(w) => tmp'[f] = tmp[f]
  BY <1>1
<1>6. /\ i # None /\ i # reader /\ i \notin doubtful
      /\ \A f \in Files : pub[f] # i /\ (f # File(w) => tmp[f] # i)
  <2>1. CASE tmp[File(w)] = None
    BY <1>1, <2>1 DEF InUse, NamesInv
  <2>2. CASE tmp[File(w)] # None
    BY <1>1, <2>2 DEF NamesInv
  <2>3. QED
    BY <2>1, <2>2
<1>7. data'[i] = Empty /\ \A j \in Inodes : j # i => data'[j] = data[j]
  BY <1>1
<1>8. NamesInv'
  <2>1. ASSUME NEW f \in Files, NEW g \in Files
        PROVE  /\ tmp'[f] # None =>
                     tmp'[f] # pub'[g] /\ tmp'[f] # reader' /\ tmp'[f] \notin doubtful'
               /\ tmp'[f] # None /\ tmp'[f] = tmp'[g] => f = g
    BY <1>2, <1>5, <1>6 DEF NamesInv
  <2>2. ASSUME NEW j \in doubtful
        PROVE  InUse(j)'
    <3>1. InUse(j) /\ j \in Inodes /\ j # i
      BY <1>6 DEF NamesInv
    <3>2. \A f \in Files : tmp[f] = j => f # File(w)
      BY <3>1 DEF NamesInv
    <3>3. \A v \in Writers : writer[v].fd = j => v # w
      BY <1>2, <3>1 DEF Opened
    <3>4. QED
      BY <1>2, <1>3, <1>5, <3>1, <3>2, <3>3 DEF InUse
  <2>3. QED
    BY <1>2, <2>1, <2>2 DEF NamesInv
<1>9. MetInv'
  BY <1>4 DEF MetInv
<1>10. OpenInv'
  <2> SUFFICES ASSUME NEW v \in Writers, Opened(v)'
               PROVE  \/ writer'[v].fd = tmp'[File(v)']
                      \/ /\ writer'[v].met /\ writer'[v].fd \in doubtful'
                         /\ \A g \in Files : pub'[g] = writer'[v].fd => g = File(v)'
    BY DEF OpenInv
  <2>1. CASE v = w
    BY <1>3, <1>4, <1>5, <2>1
  <2>2. CASE v # w
    <3>1. Opened(v) /\ writer'[v] = writer[v] /\ File(v)' = File(v)
      BY <1>3, <1>4, <2>2
    <3>2. CASE writer[v].fd = tmp[File(v)]
      <4>1. tmp'[File(v)] = tmp[File(v)]
        BY <1>1, <1>5, <3>1, <3>2
      <4>2. QED
        BY <3>1, <3>2, <4>1
    <3>3. CASE writer[v].fd # tmp[File(v)]
      BY <1>2, <3>1, <3>3 DEF OpenInv
    <3>4. QED
      BY <3>2, <3>3
  <2>3. QED
    BY <2>1, <2>2
<1>11. WritingInv'
  <2> SUFFICES ASSUME NEW v \in Writers, ~writer'[v].met, Opened(v)'
               PROVE  /\ writer'[v].pc = "write" => data'[writer'[v].fd] = Empty
                      /\ writer'[v].pc = "finish" => data'[writer'[v].fd] = Half(v)
                      /\ writer'[v].pc = "rename" =>
                            data'[writer'[v].fd] = Whole(writer'[v].version)
    BY DEF WritingInv, Opened
  <2>1. CASE v = w
    BY <1>3, <1>7, <2>1
  <2>2. CASE v # w
    <3>1. Opened(v) /\ AtFile(v) /\ ~writer[v].met /\ writer'[v] = writer[v]
      BY <1>3, <1>4, <2>2 DEF Opened, AtFile
    \* Nobody alone at a file has the one open that another creates.
    <3>2. writer[v].fd # i /\ writer[v].fd \in Inodes
      <4>1. writer[v].fd = tmp[File(v)] /\ writer[v].fd \in Inodes
        BY <3>1 DEF OpenInv
      <4>2. File(v) # File(w)
        BY <1>2, <2>2, <3>1 DEF MetInv, AtFile
      <4>3. QED
        BY <1>6, <4>1, <4>2
    <3>3. QED
      BY <1>7, <3>1, <3>2 DEF WritingInv
  <2>3. QED
    BY <2>1, <2>2
<1>12. \A f \in Files : Shown(f)' = Shown(f)
  BY <1>2, <1>6, <1>7 DEF Shown
<1>13. AgeInv'
  <2>1. \A j \in Inodes : data'[j].version <= version'
    BY <1>2, <1>7 DEF AgeInv, Empty, Version
  <2>2. ASSUME NEW v \in Writers
        PROVE  /\ writer'[v].version <= version'
               /\ AtFile(v)' /\ ~writer'[v].met => Shown(File(v))' <= writer'[v].version
    <3>1. Shown(File(v))' = Shown(File(v))
      <4>1. File(v)' = File(v) /\ File(v) \in Files
        BY <1>4, CallTypes
      <4>2. QED
        BY <1>2, <1>6, <1>7, <4>1 DEF Shown
    <3>2. QED
      BY <1>2, <1>4, <3>1 DEF AgeInv
  <2>3. QED
    BY <2>1, <2>2 DEF AgeInv
<1>14. WholeUnlessMet'
  BY <1>2, <1>6, <1>7 DEF WholeUnlessMet, Visible
<1>15. Quiet
  BY <1>2, <1>12 DEF Quiet
<1>16. QED
  BY <1>8, <1>9, <1>10, <1>11, <1>13, <1>14, <1>15

\* The file gets its final name: whole and not older if its writer was alone.
LEMMA RenameKeeps ==
  ASSUME TypeOK, TypeOK', SnapshotInv, NEW w \in Writers, Rename(w), tmp[File(w)] # None
  PROVE  SnapshotInv' /\ (Replaces(w) \/ Disturbs(w))
<1> USE CallTypes, StateTypes DEF SnapshotInv
<1> DEFINE i == tmp[File(w)]
<1>1. /\ writer[w].pc = "rename" /\ UNCHANGED <<version, reader>>
      /\ pub' = [pub EXCEPT ![File(w)] = i]
      /\ tmp' = [tmp EXCEPT ![File(w)] = None]
      /\ writer' = [writer EXCEPT ![w] = Proceed(writer[w])]
      /\ Reclaim(IF writer[w].met THEN doubtful \cup {i} ELSE doubtful)
  BY DEF Rename
<1>2. /\ i \in Inodes /\ pub'[File(w)] = i /\ tmp'[File(w)] = None
      /\ \A f \in Files : f # File(w) => pub'[f] = pub[f] /\ tmp'[f] = tmp[f]
      /\ i \notin doubtful /\ i # reader /\ \A f \in Files : pub[f] # i /\ tmp'[f] # i
  BY <1>1 DEF NamesInv
<1>3. /\ writer'[w].pc = "next" /\ writer'[w].fd = None /\ writer'[w].version = 0
      /\ \A v \in Writers : v # w => writer'[v] = writer[v]
  BY <1>1, ProceedTypes
<1>4. \A v \in Writers : AtFile(v)' =>
        v # w /\ AtFile(v) /\ writer'[v] = writer[v] /\ File(v)' = File(v)
  BY <1>3 DEF AtFile, File
<1>5. /\ \A j \in Inodes : data'[j] = (IF InUse(j)' THEN data[j] ELSE Empty)
      /\ \A j \in Inodes : j \in doubtful' <=>
            InUse(j)' /\ (j \in doubtful \/ (writer[w].met /\ j = i))
  BY <1>1, <1>2 DEF Reclaim
<1>6. \A j \in Inodes : (\E f \in Files : tmp'[f] = j \/ pub'[f] = j) \/ j = reader' => InUse(j)'
  BY DEF InUse
<1>7. \A v \in Writers : \A j \in Inodes : writer'[v].fd = j => InUse(j)'
  BY DEF InUse
<1>8. NamesInv'
  <2>1. ASSUME NEW f \in Files, NEW g \in Files
        PROVE  /\ tmp'[f] # None =>
                     tmp'[f] # pub'[g] /\ tmp'[f] # reader' /\ tmp'[f] \notin doubtful'
               /\ tmp'[f] # None /\ tmp'[f] = tmp'[g] => f = g
    BY <1>1, <1>2, <1>5 DEF NamesInv
  <2>2. \A j \in doubtful' : InUse(j)'
    BY <1>1 DEF Reclaim
  <2>3. QED
    BY <2>1, <2>2 DEF NamesInv
<1>9. MetInv'
  BY <1>4 DEF MetInv
<1>10. OpenInv'
  <2> SUFFICES ASSUME NEW v \in Writers, Opened(v)'
               PROVE  \/ writer'[v].fd = tmp'[File(v)']
                      \/ /\ writer'[v].met /\ writer'[v].fd \in doubtful'
                         /\ \A g \in Files : pub'[g] = writer'[v].fd => g = File(v)'
    BY DEF OpenInv
  <2>1. AtFile(v)'
    BY DEF Opened, AtFile
  <2>2. /\ v # w /\ AtFile(v) /\ writer'[v] = writer[v] /\ File(v)' = File(v)
        /\ Opened(v) /\ writer[v].fd \in Inodes /\ InUse(writer[v].fd)'
    <3>1. v # w /\ AtFile(v) /\ writer'[v] = writer[v] /\ File(v)' = File(v)
      BY <1>4, <2>1
    <3>2. Opened(v)
      BY <3>1 DEF Opened
    <3>3. writer[v].fd \in Inodes
      BY <3>2
    <3>4. InUse(writer[v].fd)'
      BY <1>7, <3>1, <3>3
    <3>5. QED
      BY <3>1, <3>2, <3>3, <3>4
  <2>3. CASE writer[v].fd = tmp[File(v)]
    <3>1. CASE File(v) = File(w)
      <4>1. writer[w].met /\ writer[v].met
        BY <1>1, <2>2, <3>1 DEF MetInv, AtFile
      <4>2. writer[v].fd = i /\ i \in doubtful'
        BY <1>2, <1>5, <1>6, <2>3, <3>1, <4>1
      <4>3. \A g \in Files : pub'[g] = i => g = File(v)
        BY <1>2, <3>1
      <4>4. QED
        BY <2>2, <4>1, <4>2, <4>3
    <3>2. CASE File(v) # File(w)
      BY <1>2, <2>2, <2>3, <3>2
    <3>3. QED
      BY <3>1, <3>2
  <2>4. CASE writer[v].fd # tmp[File(v)]
    <3>1. /\ writer[v].met /\ writer[v].fd \in doubtful
          /\ \A g \in Files : pub[g] = writer[v].fd => g = File(v)
      BY <2>2, <2>4 DEF OpenInv
    <3>2. writer[v].fd \in doubtful'
      BY <1>5, <2>2, <3>1
    <3>3. \A g \in Files : pub'[g] = writer[v].fd => g = File(v)
      BY <1>2, <3>1
    <3>4. QED
      BY <2>2, <3>1, <3>2, <3>3
  <2>5. QED
    BY <2>3, <2>4
<1>11. WritingInv'
  <2> SUFFICES ASSUME NEW v \in Writers, ~writer'[v].met, Opened(v)'
               PROVE  /\ writer'[v].pc = "write" => data'[writer'[v].fd] = Empty
                      /\ writer'[v].pc = "finish" => data'[writer'[v].fd] = Half(v)
                      /\ writer'[v].pc = "rename" =>
                            data'[writer'[v].fd] = Whole(writer'[v].version)
    BY DEF WritingInv, Opened
  <2>1. AtFile(v)'
    BY DEF Opened, AtFile
  <2>2. writer'[v] = writer[v] /\ Opened(v)
    BY <1>4, <2>1 DEF Opened
  <2>3. writer[v].fd \in Inodes
    BY <2>2
  <2>4. data'[writer[v].fd] = data[writer[v].fd]
    BY <1>5, <1>7, <2>2, <2>3
  <2>5. QED
    BY <2>2, <2>4 DEF WritingInv
<1>12. data'[i] = data[i] /\ \A f \in Files : pub'[f] # None => data'[pub'[f]] = data[pub'[f]]
  <2>1. \A f \in Files : pub'[f] \in Inodes \cup {None}
    BY DEF TypeOK
  <2>2. \A f \in Files : pub'[f] # None => InUse(pub[f])'
    BY <1>6, <2>1
  <2>3. \A j \in Inodes : InUse(j)' => data'[j] = data[j]
    BY <1>5
  <2>4. \A f \in Files : pub'[f] # None => data'[pub'[f]] = data[pub'[f]]
    BY <1>6, <2>1, <2>3
  <2>5. File(w) \in Files
    BY CallTypes
  <2>6. QED
    BY <1>2, <2>4, <2>5
<1>13. ~writer[w].met => data[i] = Whole(writer[w].version)
  <2>1. ~writer[w].met => writer[w].fd = i
    BY <1>1 DEF OpenInv, Opened
  <2>2. QED
    BY <1>1, <2>1 DEF WritingInv
<1>14. WholeUnlessMet'
  <2> SUFFICES ASSUME NEW j \in Inodes, j \notin doubtful', Visible(j)'
               PROVE  data'[j].state = "whole"
    BY DEF WholeUnlessMet
  <2>1. InUse(j)'
    BY <1>6 DEF Visible
  <2>2. j \notin doubtful /\ data'[j] = data[j]
    BY <1>5, <2>1
  <2>3. CASE j = i
    <3>1. ~writer[w].met
      BY <1>5, <2>1, <2>3
    <3>2. QED
      BY <1>13, <2>2, <2>3, <3>1 DEF Whole
  <2>4. CASE j # i
    BY <1>1, <1>2, <2>2, <2>4 DEF WholeUnlessMet, Visible
  <2>5. QED
    BY <2>3, <2>4
<1>15. ASSUME NEW f \in Files
       PROVE  /\ f # File(w) => Shown(f)' = Shown(f)
              /\ f = File(w) => Shown(f)' = data[i].version
  BY <1>2, <1>12 DEF Shown
<1>16. data[i].version \in 0 .. version
  BY <1>2 DEF AgeInv, Content, Version
<1>17. \A f \in Files : f # File(w) => (pub'[f] \in doubtful' <=> pub[f] \in doubtful)
  <2> SUFFICES ASSUME NEW f \in Files, f # File(w)
               PROVE  pub'[f] \in doubtful' <=> pub[f] \in doubtful
    OBVIOUS
  <2>1. pub'[f] = pub[f] /\ pub[f] # i
    BY <1>2
  <2>2. CASE pub[f] = None
    BY <2>1, <2>2 DEF TypeOK
  <2>3. CASE pub[f] # None
    <3>1. pub[f] \in Inodes
      BY <2>3
    <3>2. \E g \in Files : tmp'[g] = pub[f] \/ pub'[g] = pub[f]
      BY <2>1
    <3>3. QED
      BY <1>5, <1>6, <2>1, <3>1, <3>2
  <2>4. QED
    BY <2>2, <2>3
<1>18. Replaces(w) \/ Disturbs(w)
  <2>1. CASE writer[w].met
    <3>1. i \in doubtful'
      BY <1>2, <1>5, <1>6, <2>1, CallTypes
    <3>2. QED
      BY <1>2, <1>15, <1>16, <1>17, <3>1 DEF Disturbs
  <2>2. CASE ~writer[w].met
    <3>1. i \notin doubtful'
      BY <1>2, <1>5, <2>2
    <3>2. data[i].version = writer[w].version
      BY <1>13, <2>2 DEF Whole
    <3>3. Shown(File(w)) <= writer[w].version
      BY <1>1, <2>2 DEF AgeInv, AtFile
    <3>4. Shown(File(w)) \in Int
      <4>1. \A j \in Inodes : data[j].version \in Int
        BY DEF Content, Version
      <4>2. pub[File(w)] \in Inodes \cup {None}
        BY CallTypes
      <4>3. QED
        BY <4>1, <4>2 DEF Shown
    <3>5. data[i].version \in Shown(File(w)) .. version
      BY <1>16, <3>2, <3>3, <3>4
    <3>6. QED
      BY <1>2, <1>15, <1>17, <3>1, <3>5 DEF Replaces
  <2>3. QED
    BY <2>1, <2>2
<1>19. AgeInv'
  <2>1. \A j \in Inodes : data'[j].version <= version'
    BY <1>1, <1>5 DEF AgeInv, Empty, Version
  <2>2. ASSUME NEW v \in Writers
        PROVE  /\ writer'[v].version <= version'
               /\ AtFile(v)' /\ ~writer'[v].met => Shown(File(v))' <= writer'[v].version
    <3>1. writer'[v].version <= version'
      BY <1>1, <1>3 DEF AgeInv, Version
    <3>2. ASSUME AtFile(v)', ~writer'[v].met
          PROVE  Shown(File(v))' <= writer'[v].version
      <4>1. v # w /\ AtFile(v) /\ writer'[v] = writer[v] /\ File(v)' = File(v)
        BY <1>4, <3>2
      <4>2. File(v) # File(w)
        BY <1>1, <3>2, <4>1 DEF MetInv, AtFile
      <4>3. File(v) \in Files /\ pub'[File(v)] = pub[File(v)]
            /\ (pub[File(v)] # None => data'[pub[File(v)]] = data[pub[File(v)]])
        BY <1>2, <1>12, <4>2, CallTypes
      <4>4. Shown(File(v))' = Shown(File(v))
        BY <4>1, <4>3 DEF Shown
      <4>5. QED
        BY <3>2, <4>1, <4>4 DEF AgeInv
    <3>3. QED
      BY <3>1, <3>2
  <2>3. QED
    BY <2>1, <2>2 DEF AgeInv
<1>20. QED
  BY <1>8, <1>9, <1>10, <1>11, <1>14, <1>18, <1>19

LEMMA WriterKeeps ==
  ASSUME TypeOK, TypeOK', SnapshotInv, NEW w \in Writers, WriterStep(w)
  PROVE  SnapshotInv' /\ (Quiet \/ Replaces(w) \/ Disturbs(w))
<1> USE CallTypes, StateTypes, ContentTypes
<1>1. CASE Build(w)
  BY <1>1, BuildKeeps
<1>2. CASE Create(w)
  BY <1>2, CreateKeeps
<1>a. 0 <= version /\ writer[w].version <= version
  BY DEF SnapshotInv, AgeInv, Version
<1>3. CASE Write(w)
  <2> DEFINE new == IF data[writer[w].fd].state = "empty" THEN Half(w) ELSE Torn
  <2>1. Opened(w) /\ writer[w].fd \in Inodes
    BY <1>3 DEF Write, Opened
  <2>2. /\ data' = [data EXCEPT ![writer[w].fd] = new]
        /\ writer' = [writer EXCEPT ![w].pc = "finish"]
        /\ UNCHANGED <<version, tmp, pub, reader, doubtful>>
    BY <1>3, <2>1 DEF Write
  <2>3. new \in Content /\ new.version <= version
    BY <1>a DEF Half, Torn
  <2>4. ~writer[w].met => new = Half(w)
    BY <1>3 DEF Write, SnapshotInv, WritingInv, Empty
  <2> HIDE DEF new
  <2>5. QED
    BY <2>1, <2>2, <2>3, <2>4, WriteKeeps
<1>4. CASE Finish(w)
  <2>1. Opened(w) /\ writer[w].fd \in Inodes
    BY <1>4 DEF Finish, Opened
  <2>2. PICK new \in Finished(data[writer[w].fd], w) :
            data' = [data EXCEPT ![writer[w].fd] = new]
    BY <1>4 DEF Finish
  <2>3. new \in {Whole(writer[w].version), Torn}
    BY <2>2 DEF Finished
  <2>4. new \in Content /\ new.version <= version
    BY <1>a, <2>3 DEF Whole, Torn
  <2>5. ~writer[w].met => new = Whole(writer[w].version)
    <3>1. ~writer[w].met => data[writer[w].fd] = Half(w)
      BY <1>4 DEF Finish, SnapshotInv, WritingInv
    <3>2. QED
      BY <2>2, <3>1 DEF Finished, Half, Torn
  <2>6. /\ writer' = [writer EXCEPT ![w].pc = "rename"]
        /\ UNCHANGED <<version, tmp, pub, reader, doubtful>>
    BY <1>4 DEF Finish
  <2>7. QED
    BY <2>1, <2>2, <2>4, <2>5, <2>6, WriteKeeps
<1>5. CASE Rename(w) /\ tmp[File(w)] # None
  BY <1>5, RenameKeeps
<1>6. CASE (Rename(w) /\ tmp[File(w)] = None) \/ Fail(w)
  <2>1. /\ writer' = [writer EXCEPT ![w] = Idle]
        /\ UNCHANGED <<version, tmp, pub, reader>> /\ Reclaim(doubtful)
    BY <1>6 DEF Rename, Fail
  <2>2. \A v \in Writers : writer'[v] = writer[v] \/ writer'[v] = Idle
    BY <2>1
  <2>3. QED
    BY <2>1, <2>2, DropKeeps
<1>7. QED
  BY <1>1, <1>2, <1>3, <1>4, <1>5, <1>6 DEF WriterStep

\* What the steps of the others do: the reader, a restart, new data.
LEMMA CollectKeeps ==
  ASSUME TypeOK, SnapshotInv, Collect
  PROVE  SnapshotInv'
<1>1. version' = version + 1 /\ UNCHANGED <<tmp, pub, data, writer, reader, doubtful>>
  BY DEF Collect
<1>2. NamesInv' /\ MetInv' /\ OpenInv' /\ WritingInv' /\ WholeUnlessMet'
  BY <1>1 DEF SnapshotInv, NamesInv, MetInv, OpenInv, WritingInv, WholeUnlessMet, Visible, InUse,
     AtFile, Opened, File
<1>3. AgeInv'
  <2>1. version \in Int /\ \A i \in Inodes : data[i].version \in Int
    BY StateTypes DEF Content, Version
  <2>2. \A w \in Writers : writer[w].version \in Int
    BY CallTypes DEF Version
  <2>3. \A w \in Writers : /\ (AtFile(w)' <=> AtFile(w)) /\ writer'[w] = writer[w]
                           /\ Shown(File(w))' = Shown(File(w))
    BY <1>1 DEF AtFile, File, Shown
  <2>4. QED
    BY <1>1, <2>1, <2>2, <2>3 DEF SnapshotInv, AgeInv
<1>4. QED
  BY <1>2, <1>3 DEF SnapshotInv

LEMMA StillKeeps ==
  ASSUME TypeOK, TypeOK', SnapshotInv,
         Restart \/ (\E f \in Files : Open(f)) \/ Release \/ UNCHANGED vars
  PROVE  SnapshotInv' /\ Quiet /\ UNCHANGED version
<1>1. CASE Restart
  BY <1>1, DropKeeps DEF Restart
<1>2. CASE Release
  BY <1>2, DropKeeps DEF Release
<1>3. CASE (\E f \in Files : Open(f)) \/ UNCHANGED vars
  <2>1. /\ UNCHANGED <<version, tmp, pub, data, writer, doubtful>>
        /\ reader' = reader \/ (reader = None /\ \E f \in Files : reader' = pub[f])
    BY <1>3 DEF Open, vars
  <2>2. \A i \in Inodes : InUse(i) => InUse(i)'
    BY <2>1, StateTypes DEF InUse
  <2>3. NamesInv'
    BY <2>1, <2>2, StateTypes DEF SnapshotInv, NamesInv
  <2>4. MetInv' /\ OpenInv' /\ WritingInv'
    BY <2>1 DEF SnapshotInv, MetInv, OpenInv, WritingInv, AtFile, Opened, File
  <2>5. AgeInv' /\ Quiet
    BY <2>1 DEF SnapshotInv, AgeInv, AtFile, File, Shown, Quiet
  <2>6. WholeUnlessMet'
    BY <2>1 DEF SnapshotInv, WholeUnlessMet, Visible
  <2>7. QED
    BY <2>1, <2>3, <2>4, <2>5, <2>6 DEF SnapshotInv
<1>4. QED
  BY <1>1, <1>2, <1>3

LEMMA SnapshotNext == TypeOK /\ TypeOK' /\ SnapshotInv /\ [Next]_vars => SnapshotInv'
BY WriterKeeps, CollectKeeps, StillKeeps DEF Next

LEMMA SnapshotInvariant == Spec => [](TypeOK /\ SnapshotInv)
BY SnapshotTypes, SnapshotInit, SnapshotNext, PTL DEF Spec

\* For any number of writers, whatever fails and however often the collector is restarted: the
\* publish script finds whole payloads in every file that only one call was at when it got
\* its name, and so again after the next such call.
THEOREM WholeFilesUnlessMet == Spec => []WholeUnlessMet
<1>1. SnapshotInv => WholeUnlessMet
  BY DEF SnapshotInv
<1>2. QED
  BY <1>1, SnapshotInvariant, PTL

-----------------------------------------------------------------------------
(* Snapshot implements SnapshotFiles. *)

LEMMA DirInit == Init => Dir!Init
BY DEF Init, Dir!Init, Shown

LEMMA DirNext ==
  TypeOK /\ TypeOK' /\ SnapshotInv /\ [Next]_vars => [Dir!Next]_(Dir!vars)
<1> SUFFICES ASSUME TypeOK, TypeOK', SnapshotInv, [Next]_vars
             PROVE  [Dir!Next]_(Dir!vars)
  OBVIOUS
<1> DEFINE shown == [f \in Files |-> Shown(f)]
           doubted == {f \in Files : pub[f] \in doubtful}
<1>1. CASE Collect
  BY <1>1 DEF Collect, Dir!Next, Dir!Collect, Shown
<1>2. ASSUME Quiet, UNCHANGED version PROVE UNCHANGED Dir!vars
  BY <1>2 DEF Quiet, Dir!vars
<1>3. ASSUME NEW w \in Writers, WriterStep(w) PROVE [Dir!Next]_(Dir!vars)
  <2>1. UNCHANGED version
    BY <1>3 DEF WriterStep, Build, Create, Write, Finish, Rename, Fail
  <2>2. Quiet \/ Replaces(w) \/ Disturbs(w)
    BY <1>3, WriterKeeps
  <2>3. File(w) \in Files
    BY CallTypes
  <2>4. CASE Replaces(w)
    <3>1. PICK v \in Shown(File(w)) .. version : \A f \in Files : f = File(w) => Shown(f)' = v
      BY <2>3, <2>4 DEF Replaces
    <3>2. shown' = [shown EXCEPT ![File(w)] = v]
      BY <2>3, <2>4, <3>1 DEF Replaces
    <3>3. doubted' = doubted \ {File(w)}
      BY <2>3, <2>4 DEF Replaces
    <3>4. shown[File(w)] = Shown(File(w))
      BY <2>3
    <3>5. \E f \in Files : Dir!Replace(f)
      BY <2>1, <2>3, <3>1, <3>2, <3>3, <3>4 DEF Dir!Replace
    <3>6. QED
      BY <3>5 DEF Dir!Next
  <2>5. CASE Disturbs(w)
    <3>1. PICK v \in 0 .. version : \A f \in Files : f = File(w) => Shown(f)' = v
      BY <2>3, <2>5 DEF Disturbs
    <3>2. shown' = [shown EXCEPT ![File(w)] = v]
      BY <2>3, <2>5, <3>1 DEF Disturbs
    <3>3. doubted' = doubted \cup {File(w)}
      BY <2>3, <2>5 DEF Disturbs
    <3>4. \E f \in Files : Dir!Disturb(f)
      BY <2>1, <2>3, <3>1, <3>2, <3>3 DEF Dir!Disturb
    <3>5. QED
      BY <3>4 DEF Dir!Next
  <2>6. QED
    BY <1>2, <2>1, <2>2, <2>4, <2>5
<1>4. CASE Restart \/ (\E f \in Files : Open(f)) \/ Release \/ UNCHANGED vars
  BY <1>2, <1>4, StillKeeps
<1>5. QED
  BY <1>1, <1>3, <1>4 DEF Next

\* Snapshot implements SnapshotFiles, for any number of writers: a file is replaced in one step
\* by a payload that is not older, and only where calls met at it may it show anything else.
THEOREM DirUnlessMet == Spec => DirSpec
BY SnapshotInvariant, DirInit, DirNext, PTL DEF Spec, DirSpec, Dir!Spec
=============================================================================
