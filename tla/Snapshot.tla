------------------------------ MODULE Snapshot ------------------------------
(***************************************************************************)
(* internal/api, WriteSnapshot and writeJSONFile: the payloads of the API  *)
(* are written to files that a separate process reads at any moment.  Each *)
(* goroutine of main that calls writeSnapshot is a writer; the temporary   *)
(* name of a file is the same for all of them.  The file system is         *)
(* external: names point to inodes, a descriptor keeps pointing to the     *)
(* inode it opened, os.Create empties the file that has the name.          *)
(*                                                                         *)
(* A payload is written in two steps, so that a reader, a failure or the   *)
(* other writer may come in between; its content is the version of the     *)
(* collected data it was built from.                                       *)
(***************************************************************************)
EXTENDS Integers, Sequences, FiniteSets

CONSTANTS
    Order,       \* the files in the order WriteSnapshot writes them
    Writers,     \* the goroutines that call writeSnapshot
    Inodes,      \* inodes of the file system
    None,        \* no inode, no writer
    MaxVersion,  \* bound on the changes of the collected data
    MayFail      \* whether the calls to the file system may fail

Files == {Order[k] : k \in 1 .. Len(Order)}
Version == 0 .. MaxVersion

ASSUME SnapshotAssumption ==
    /\ Order \in Seq(Files)
    /\ Len(Order) > 0
    /\ \A j, k \in 1 .. Len(Order) : Order[j] = Order[k] => j = k
    /\ None \notin Inodes \cup Writers
    /\ MaxVersion \in Nat \ {0}
    /\ MayFail \in BOOLEAN

VARIABLES
    version,  \* the collected data: the database, Poller.live, Registry.latest
    tmp,      \* the inode named path + ".tmp", per file
    pub,      \* the inode named path, per file
    data,     \* the content of each inode
    writer,   \* how far the WriteSnapshot call of each writer is; between calls, at the start
    reader,   \* the inode the publish script has open
    doubtful  \* history: inodes that got their final name from calls that met at the file

vars == <<version, tmp, pub, data, writer, reader, doubtful>>

Content == [state : {"empty", "half", "torn", "whole"},
            by : Writers \cup {None}, version : Version]
Call == [pc : {"next", "create", "write", "finish", "rename"},
         k : 1 .. Len(Order), version : Version, fd : Inodes \cup {None}, met : BOOLEAN]

Empty == [state |-> "empty", by |-> None, version |-> 0]
Torn == [state |-> "torn", by |-> None, version |-> 0]
Half(w) == [state |-> "half", by |-> w, version |-> 0]
Whole(v) == [state |-> "whole", by |-> None, version |-> v]
Idle == [pc |-> "next", k |-> 1, version |-> 0, fd |-> None, met |-> FALSE]

Init ==
    /\ version = 1
    /\ tmp = [f \in Files |-> None]
    /\ pub = [f \in Files |-> None]
    /\ data = [i \in Inodes |-> Empty]
    /\ writer = [w \in Writers |-> Idle]
    /\ reader = None
    /\ doubtful = {}

\* The file writer w is busy with.
File(w) == Order[writer[w].k]

InUse(i) ==
    \/ \E f \in Files : tmp[f] = i \/ pub[f] = i
    \/ \E w \in Writers : writer[w].fd = i
    \/ reader = i

\* The inode of a new file; which one it is makes no difference.
Fresh == CHOOSE i \in Inodes : ~InUse(i)

\* An inode is reclaimed as soon as nothing refers to it.
Reclaim(named) ==
    /\ data' = [i \in Inodes |-> IF InUse(i)' THEN data[i] ELSE Empty]
    /\ doubtful' = {i \in named : InUse(i)'}

-----------------------------------------------------------------------------
\* A probe, a sample or a drain changes what the payloads are built from.
Collect ==
    /\ version < MaxVersion
    /\ version' = version + 1
    /\ UNCHANGED <<tmp, pub, data, writer, reader, doubtful>>

\* The other writers that are at the file of writer w: from the queries for its payload to
\* the rename.
AtFile(w) == writer[w].pc \in {"create", "write", "finish", "rename"}
Others(w) == {v \in Writers \ {w} : AtFile(v) /\ File(v) = File(w)}

\* Variant: one file too many.
ProceedTooFar(call) ==
    IF call.k <= Len(Order) THEN [Idle EXCEPT !.k = call.k + 1] ELSE Idle

\* After a file is done: the next one, or the end of the call.
Proceed(call) ==
    IF call.k < Len(Order) THEN [Idle EXCEPT !.k = call.k + 1] ELSE Idle

\* Variant: a temporary file is taken for the other writer's, who will see to the file.
BuildUnlessThere(w) ==
    /\ writer[w].pc = "next"
    /\ writer' = IF tmp[File(w)] # None THEN [writer EXCEPT ![w] = Proceed(@)]
                 ELSE [writer EXCEPT ![w].pc = "create", ![w].version = version]
    /\ UNCHANGED <<version, tmp, pub, data, reader, doubtful>>

\* buildStatus, buildComfy, buildHosts: each payload is built when its file's turn comes, the
\* first one when WriteSnapshot is called.  From here on the writers at the file have met.
Build(w) ==
    /\ writer[w].pc = "next"
    /\ writer' = [v \in Writers |->
          IF v = w THEN [writer[v] EXCEPT !.pc = "create", !.version = version,
                                          !.met = Others(w) # {}]
          ELSE IF v \in Others(w) THEN [writer[v] EXCEPT !.met = TRUE]
          ELSE writer[v]]
    /\ UNCHANGED <<version, tmp, pub, data, reader, doubtful>>

\* Variant: the file is opened under its final name.
CreateInPlace(w) ==
    /\ writer[w].pc = "create"
    /\ \E i \in Inodes :
          /\ IF pub[File(w)] = None THEN ~InUse(i) ELSE i = pub[File(w)]
          /\ tmp' = [tmp EXCEPT ![File(w)] = i]
          /\ pub' = [pub EXCEPT ![File(w)] = i]
          /\ data' = [data EXCEPT ![i] = Empty]
          /\ writer' = [writer EXCEPT ![w].pc = "write", ![w].fd = i]
    /\ UNCHANGED <<version, reader, doubtful>>

\* os.Create: the temporary file that is there is emptied, or a new one is made.
Create(w) ==
    /\ writer[w].pc = "create"
    /\ tmp[File(w)] = None => \E i \in Inodes : ~InUse(i)
    /\ LET i == IF tmp[File(w)] = None THEN Fresh ELSE tmp[File(w)] IN
          /\ tmp' = [tmp EXCEPT ![File(w)] = i]
          /\ data' = [data EXCEPT ![i] = Empty]
          /\ writer' = [writer EXCEPT ![w].pc = "write", ![w].fd = i]
    /\ UNCHANGED <<version, pub, reader, doubtful>>

\* Encode writes the payload from offset 0: the first half of it ...
Write(w) ==
    /\ writer[w].pc = "write"
    /\ data' = [data EXCEPT ![writer[w].fd] = IF @.state = "empty" THEN Half(w) ELSE Torn]
    /\ writer' = [writer EXCEPT ![w].pc = "finish"]
    /\ UNCHANGED <<version, tmp, pub, reader, doubtful>>

\* ... and the rest.  On a file that another writer wrote to, the payload covers
\* everything there or leaves the tail of a longer one; on a file that was emptied in
\* the meantime it leaves a hole.
Finished(old, w) ==
    CASE old = Half(w) -> {Whole(writer[w].version)}
      [] old = Torn    -> {Whole(writer[w].version), Torn}
      [] OTHER         -> {Torn}

Finish(w) ==
    /\ writer[w].pc = "finish"
    /\ \E new \in Finished(data[writer[w].fd], w) :
          data' = [data EXCEPT ![writer[w].fd] = new]
    /\ writer' = [writer EXCEPT ![w].pc = "rename"]
    /\ UNCHANGED <<version, tmp, pub, reader, doubtful>>

\* Close, then Rename: whatever has the temporary name gets the final one; if nothing has
\* it any more the call fails.
Rename(w) ==
    /\ writer[w].pc = "rename"
    /\ IF tmp[File(w)] = None
         THEN /\ writer' = [writer EXCEPT ![w] = Idle]
              /\ UNCHANGED <<tmp, pub, reader>>
              /\ Reclaim(doubtful)
         ELSE /\ pub' = [pub EXCEPT ![File(w)] = tmp[File(w)]]
              /\ tmp' = [tmp EXCEPT ![File(w)] = None]
              /\ writer' = [writer EXCEPT ![w] = Proceed(@)]
              /\ UNCHANGED reader
              /\ Reclaim(IF writer[w].met THEN doubtful \cup {tmp[File(w)]} ELSE doubtful)
    /\ UNCHANGED version

\* Variant: an encoding error is logged and the file is renamed all the same.
FailAndRename(w) ==
    /\ MayFail
    /\ writer[w] # Idle
    /\ writer' = IF writer[w].pc = "finish" THEN [writer EXCEPT ![w].pc = "rename"]
                 ELSE [writer EXCEPT ![w] = Idle]
    /\ UNCHANGED <<version, tmp, pub, reader>>
    /\ Reclaim(doubtful)

\* MkdirAll, Create, Encode, Close or Rename fails: WriteSnapshot returns at once, the
\* temporary file stays, the files that follow are not written.
Fail(w) ==
    /\ MayFail
    /\ writer[w] # Idle
    /\ writer' = [writer EXCEPT ![w] = Idle]
    /\ UNCHANGED <<version, tmp, pub, reader>>
    /\ Reclaim(doubtful)

\* The collector is killed and started again; temporary files stay behind.
Restart ==
    /\ MayFail
    /\ writer' = [w \in Writers |-> Idle]
    /\ UNCHANGED <<version, tmp, pub, reader>>
    /\ Reclaim(doubtful)

\* publish-snapshot.sh: cp opens a file by its name and reads it until it lets go.
Open(f) ==
    /\ reader = None
    /\ reader' = pub[f]
    /\ UNCHANGED <<version, tmp, pub, data, writer, doubtful>>

Release ==
    /\ reader' = None
    /\ UNCHANGED <<version, tmp, pub, writer>>
    /\ Reclaim(doubtful)

WriterStep(w) ==
    Build(w) \/ Create(w) \/ Write(w) \/ Finish(w) \/ Rename(w) \/ Fail(w)

Next ==
    \/ Collect
    \/ \E w \in Writers : WriterStep(w)
    \/ Restart
    \/ \E f \in Files : Open(f)
    \/ Release

Spec == Init /\ [][Next]_vars

\* The snapshot ticker fires for ever and calls return.  A full disk or a missing
\* directory lasts for some time only: in the end the collector runs without failures.
Succeed(w) == Build(w) \/ Create(w) \/ Write(w) \/ Finish(w) \/ Rename(w)
Meet(w) == Build(w) /\ Others(w) # {}
Trouble == Restart \/ \E w \in Writers : Fail(w) \/ Meet(w)
Fairness == (\A w \in Writers : WF_vars(Succeed(w))) /\ <>[][~Trouble]_vars

FairSpec == Spec /\ Fairness

-----------------------------------------------------------------------------
(* Properties. *)

\* Every variable has its type; a writer has a file open exactly while it writes to it.
TypeOK ==
    /\ version \in 1 .. MaxVersion
    /\ tmp \in [Files -> Inodes \cup {None}]
    /\ pub \in [Files -> Inodes \cup {None}]
    /\ data \in [Inodes -> Content]
    /\ writer \in [Writers -> Call]
    /\ \A w \in Writers : writer[w].fd # None <=> writer[w].pc \in {"write", "finish", "rename"}
    /\ reader \in Inodes \cup {None}
    /\ doubtful \subseteq Inodes

\* What a reader may find in a file: what has its final name, or what it has still open.
Visible(i) == i = reader \/ \E f \in Files : pub[f] = i

\* writeJSONFile: "writes atomically - the publish script may read the directory at any
\* moment and must never pick up a half-written file".  A file that has its final name
\* holds one whole payload, and so does a file the script still has open.
WholeFiles == \A i \in Inodes : Visible(i) => data[i].state = "whole"

\* What is left of it when main's writers meet: a file is whole unless two calls were at it
\* at the same time when it got its name, whatever they left under the temporary name,
\* and the next call that is alone at the file makes it whole again.
WholeUnlessMet == \A i \in Inodes \ doubtful : Visible(i) => data[i].state = "whole"

\* The directory behaves as SnapshotFiles says: a file goes from one payload to another that
\* is not older, and shows nothing in between, except where two calls meet at the file.
Shown(f) == IF pub[f] = None THEN 0 ELSE data[pub[f]].version
Dir == INSTANCE SnapshotFiles WITH
    shown <- [f \in Files |-> Shown(f)],
    doubted <- {f \in Files : pub[f] \in doubtful}
DirSpec == Dir!Spec

\* Once the data no longer changes, every file shows it in the end, whatever a failure, a
\* crash or calls that met left behind under the temporary and the final names.
SnapshotCatchesUp ==
    [](version = MaxVersion => <>(\A f \in Files : Shown(f) = version))
=============================================================================
