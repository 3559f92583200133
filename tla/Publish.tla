------------------------------ MODULE Publish ------------------------------
(***************************************************************************)
(* From the snapshot directory to the branch the status page falls back    *)
(* to.  Two goroutines of the collector replace the files of the directory *)
(* one after the other (WriteSnapshot; each file by a rename, see          *)
(* Snapshot).  A systemd timer starts deploy/publish-snapshot.sh every 15  *)
(* minutes, one run at a time: it copies the files into a git work         *)
(* directory, in the order of their names, amends the only commit there    *)
(* and force-pushes it.  `set -e' ends the script at the first command     *)
(* that fails.                                                             *)
(*                                                                         *)
(* A file is the number of the WriteSnapshot call that wrote it, 0 when it *)
(* is missing: every payload carries its generated_at, so no two calls     *)
(* write the same.  A file that two calls wrote at a time counts as the    *)
(* one's that gave it its name last (what it may hold is checked with      *)
(* Snapshot).  The calls never end, so the numbers in use are made smaller *)
(* with each: equal ones stay equal, the newer stays the newer, and a      *)
(* distance below Apart stays as it is between the files of one stage and  *)
(* between those of the directory and the latest call.  git and the remote *)
(* are external.                                                           *)
(***************************************************************************)
EXTENDS Integers, FiniteSets, Sequences, SequencesExt

CONSTANTS
    WriteOrder,   \* the files in the order WriteSnapshot writes them
    CopyOrder,    \* the files in the order of their names
    MaxMisses,    \* bound on the WriteSnapshot calls in a row that stop half way
    PushMayFail,  \* whether the remote may be out of reach
    CrashPoints   \* the commands during which the script may be killed

Files == ToSet(WriteOrder)
Commands == {"init", "remote", "branch", "cp", "add", "commit", "push"}

ASSUME PublishAssumption ==
    /\ WriteOrder \in Seq(Files) \ {<<>>}
    /\ ToSet(CopyOrder) = Files
    /\ MaxMisses \in Nat
    /\ PushMayFail \in BOOLEAN
    /\ CrashPoints \subseteq Commands \ {"add", "push"}

VARIABLES
    call,      \* the number of the latest WriteSnapshot call
    left,      \* how many files each call under way has yet to write
    met,       \* whether the earlier of them has met a later one
    misses,    \* the calls that stopped half way since one was finished
    snapshot,  \* the files in the snapshot directory
    pc,        \* the command the script is at, "idle" between runs
    todo,      \* the files cp has yet to copy
    overlap,   \* how many calls have been under way since cp began
    repo,      \* the work directory: none, or how far its creation has come
    locked,    \* an index.lock left behind
    work,      \* the copied files
    index,     \* the staged files
    head,      \* the files of the commit
    remote     \* the files of the branch at the remote

writerVars == <<call, left, met, misses, snapshot>>
gitVars == <<repo, locked, index, head, remote>>
vars == <<writerVars, pc, todo, overlap, work, gitVars>>

\* main starts two goroutines that write snapshots: after each check and every -snapshot-interval.
\* So two calls are under way at most.  Which goroutine makes which is of no account.
Calls == {"earlier", "later"}
UnderWay == {c \in Calls : left[c] > 0}
Number(c) == IF c = "earlier" /\ met THEN call - 1 ELSE call

Nothing == [f \in Files |-> 0]
Torn == -1  \* what a killed cp left: a torn copy, or one of another run than the next

Init ==
    /\ call = 0 /\ met = FALSE /\ misses = 0
    /\ left = [c \in Calls |-> 0]
    /\ snapshot = Nothing
    /\ pc = "idle" /\ todo = {} /\ overlap = 0
    /\ repo = "none" /\ locked = FALSE
    /\ work = Nothing /\ index = Nothing /\ head = Nothing /\ remote = Nothing

-----------------------------------------------------------------------------
(* The collector. *)

Apart == MaxMisses + 4

\* The numbers in use, and those whose distances matter: of the files a copy is taken of, the
\* copies taken since cp began, and the latest call.  What is staged and published later on is
\* nothing but such copies.
InUse == UNION {{t[f] : f \in Files} : t \in {snapshot, work, index, head, remote}}
Compared ==
    {call} \union {snapshot[f] : f \in Files} \union
    {work[f] : f \in IF pc = "cp" THEN Files \ todo ELSE {}}

\* What each number becomes: those in use stay, and those close below a compared one.
Kept ==
    {n \in 1 .. call : n \in InUse \/ \E u, v \in Compared : v <= n /\ n <= u /\ u < n + Apart}
Renumber(v) == IF v <= 0 THEN v ELSE Cardinality({n \in Kept : n <= v})
Renumbered(t) == [f \in Files |-> Renumber(t[f])]

\* Only the start of a run and cp read the directory, so what the collector does while the script
\* is at any other command is taken when the run has ended.
DirectoryRead == pc \in {"idle", "cp"}

\* WriteSnapshot is called.  The calls of one goroutine are minutes apart, and a call and cp take
\* less: a call meets at most one of the other goroutine (they do at each full hour), and each
\* is in at most one call during cp.
BeginWrite ==
    /\ DirectoryRead
    /\ UnderWay = {} \/ (UnderWay = {"earlier"} /\ ~met)
    /\ pc = "cp" => overlap < 2
    /\ call' = Renumber(call) + 1
    /\ left' = [left EXCEPT ![IF UnderWay = {} THEN "earlier" ELSE "later"] = Len(WriteOrder)]
    /\ met' = (UnderWay # {})
    /\ overlap' = IF pc = "cp" THEN overlap + 1 ELSE 0
    /\ snapshot' = Renumbered(snapshot) /\ work' = Renumbered(work)
    /\ index' = Renumbered(index) /\ head' = Renumbered(head) /\ remote' = Renumbered(remote)
    /\ UNCHANGED <<misses, pc, todo, repo, locked>>

\* The call is over, or has files left to write.
LeaveAt(c, files) ==
    /\ left' = [left EXCEPT ![c] = files]
    /\ met' = (met /\ UnderWay' # {})
    /\ UNCHANGED <<call, pc, todo, overlap, work, gitVars>>

\* Of two calls that have met the earlier may be the later one to write a file.
WriteFile(c) ==
    /\ c \in UnderWay /\ DirectoryRead
    /\ snapshot' = [snapshot EXCEPT ![WriteOrder[Len(WriteOrder) - left[c] + 1]] = Number(c)]
    /\ misses' = IF left[c] = 1 THEN 0 ELSE misses
    /\ LeaveAt(c, left[c] - 1)

\* A file cannot be written, or the collector is killed: the rest is not written either.
WriteFails(c) ==
    /\ c \in UnderWay /\ DirectoryRead
    /\ misses < MaxMisses
    /\ misses' = misses + 1
    /\ LeaveAt(c, 0)
    /\ UNCHANGED snapshot

-----------------------------------------------------------------------------
(* The script. *)

Goto(command) ==
    /\ pc' = command
    /\ UNCHANGED <<writerVars, todo, overlap>>

Present(f) == snapshot[f] > 0

\* cp *.json: the shell lists the files that are there, cp takes one after the other.
ExpandGlob ==
    /\ pc' = "cp"
    /\ todo' = {f \in Files : Present(f)}
    /\ overlap' = Cardinality(UnderWay)
    /\ UNCHANGED writerVars

\* Variant: the work directory is made afresh by every run.
BeginAfresh ==
    /\ pc = "idle"
    /\ \E f \in Files : Present(f)
    /\ Goto("init")
    /\ UNCHANGED <<work, gitVars>>

\* The timer fires.  Without a JSON file there is nothing to do; with a .git directory
\* the initialisation is skipped.
Begin ==
    /\ pc = "idle"
    /\ \E f \in Files : Present(f)
    /\ IF repo = "none" THEN Goto("init") ELSE ExpandGlob
    /\ UNCHANGED <<work, gitVars>>

\* rm -rf, mkdir, git init
InitRepo ==
    /\ pc = "init"
    /\ Goto("remote")
    /\ repo' = "init"
    /\ work' = Nothing /\ index' = Nothing /\ head' = Nothing
    /\ UNCHANGED <<locked, remote>>

AddRemote ==
    /\ pc = "remote"
    /\ Goto("branch")
    /\ repo' = "remote"
    /\ UNCHANGED <<locked, work, index, head, remote>>

CheckoutBranch ==
    /\ pc = "branch"
    /\ ExpandGlob
    /\ repo' = "ready"
    /\ UNCHANGED <<locked, work, index, head, remote>>

\* The file that is next, by name.
Before(f, g) == \E j, k \in DOMAIN CopyOrder : j <= k /\ CopyOrder[j] = f /\ CopyOrder[k] = g
Upcoming == {f \in todo : \A g \in todo : Before(f, g)}

Copied(f) ==
    /\ todo' = todo \ {f}
    /\ pc' = IF todo' = {} THEN "add" ELSE "cp"
    /\ overlap' = IF todo' = {} THEN 0 ELSE overlap

\* Variant: cp -n, which leaves a file alone that is there.
CopyFileOnce ==
    /\ pc = "cp"
    /\ \E f \in Upcoming :
          /\ work' = [work EXCEPT ![f] = IF @ = 0 THEN snapshot[f] ELSE @]
          /\ Copied(f)
    /\ UNCHANGED <<writerVars, gitVars>>

CopyFile ==
    /\ pc = "cp"
    /\ \E f \in Upcoming :
          /\ work' = [work EXCEPT ![f] = snapshot[f]]
          /\ Copied(f)
    /\ UNCHANGED <<writerVars, gitVars>>

\* git add -A, which fails while index.lock exists, and git diff --cached --quiet: nothing staged
\* since the last commit ends the script.
Add ==
    /\ pc = "add"
    /\ index' = IF locked THEN index ELSE work
    /\ Goto(IF locked \/ work = head THEN "idle" ELSE "commit")
    /\ UNCHANGED <<repo, locked, work, head, remote>>

Commit ==
    /\ pc = "commit"
    /\ Goto("push")
    /\ head' = index
    /\ UNCHANGED <<repo, locked, work, index, remote>>

\* Variant: without --force an amended commit is refused as soon as the branch exists.
PushPlain ==
    /\ pc = "push"
    /\ repo = "ready"
    /\ Goto("idle")
    /\ remote' = IF remote = Nothing THEN head ELSE remote
    /\ UNCHANGED <<repo, locked, work, index, head>>

Push ==
    /\ pc = "push"
    /\ repo = "ready"
    /\ Goto("idle")
    /\ remote' = head
    /\ UNCHANGED <<repo, locked, work, index, head>>

\* No network - or no remote or no such branch in a half-made work directory.
PushFails ==
    /\ pc = "push"
    /\ PushMayFail \/ repo # "ready"
    /\ Goto("idle")
    /\ UNCHANGED <<work, gitVars>>

\* The script is killed or the power goes: cp leaves some files copied, one torn and others
\* as they were, a commit may leave index.lock, and a killed git init a .git directory.  A
\* killed push is a failed one; a killed add, which may leave index.lock, a killed commit here.
Crash ==
    /\ pc \in CrashPoints
    /\ pc' = "idle" /\ todo' = {} /\ overlap' = 0
    /\ work' = [f \in Files |->
          IF pc = "cp" /\ (f \in todo \/ work[f] > 0) THEN Torn ELSE work[f]]
    /\ repo' \in IF pc = "init" THEN {"none", "init"} ELSE {repo}
    /\ locked' \in IF pc = "commit" THEN {locked, TRUE} ELSE {locked}
    /\ UNCHANGED <<writerVars, index, head, remote>>

-----------------------------------------------------------------------------
Collector == BeginWrite \/ \E c \in Calls : WriteFile(c) \/ WriteFails(c)
Script ==
    \/ Begin \/ InitRepo \/ AddRemote \/ CheckoutBranch
    \/ CopyFile \/ Add \/ Commit \/ Push \/ PushFails \/ Crash

Next == Collector \/ Script

Spec == Init /\ [][Next]_vars

\* The timer fires for ever and commands return, the remote is not out of reach at each push,
\* and the script is not killed for ever.
Fairness == WF_vars(Script) /\ SF_vars(Push) /\ <>[][~Crash]_vars

\* The collector writes its snapshots for ever, or stops at some time.
RunningSpec == Spec /\ Fairness /\ SF_vars(Collector)
StoppedSpec == Spec /\ Fairness /\ <>[][~Collector]_vars

-----------------------------------------------------------------------------
(* Properties. *)

\* Every variable has its type, and the stages of publication follow each other: no file of
\* the branch is newer than in the commit, nor than what was staged, copied or is in the
\* directory, and so on - but by the one call that an older one which it met may have
\* overwritten.  Nothing that a killed cp left is ever staged.
AtMostOneBack(t, s) == \A f \in Files : t[f] <= s[f] + 1

StagesInOrder ==
    /\ call \in Nat /\ left \in [Calls -> 0 .. Len(WriteOrder)] /\ met \in BOOLEAN
    /\ misses \in 0 .. MaxMisses
    /\ pc \in Commands \union {"idle"} /\ todo \subseteq Files /\ overlap \in 0 .. 2
    /\ repo \in {"none", "init", "remote", "ready"} /\ locked \in BOOLEAN
    /\ work \in [Files -> {Torn} \union 0 .. call]
    /\ \A t \in {snapshot, index, head, remote} : t \in [Files -> 0 .. call]
    /\ AtMostOneBack(index, snapshot)
    /\ AtMostOneBack(head, index) /\ AtMostOneBack(head, snapshot)
    /\ AtMostOneBack(remote, head) /\ AtMostOneBack(remote, index)
    /\ AtMostOneBack(remote, snapshot)
    /\ \A f \in Files : work[f] # Torn =>
          /\ work[f] <= snapshot[f] + 1
          /\ index[f] <= work[f] + 1 /\ head[f] <= work[f] + 1 /\ remote[f] <= work[f] + 1

\* The page shows the age of status.json only.  Whatever was copied while it was replaced, in
\* what order two calls that met wrote it, and whichever push failed, the files of the branch
\* stem from WriteSnapshot calls that are near each other: 3 apart at most, and the calls
\* that stopped half way besides.
Together(t) ==
    \A f, g \in Files : t[f] > 0 /\ t[g] > 0 => t[f] - t[g] <= 3 + MaxMisses

PartsTogether == Together(index) /\ Together(head) /\ Together(remote)

\* While the collector keeps writing snapshots, a branch that lags behind the commit catches
\* up: a failed or killed push is made up for by a later run, because the next snapshot
\* differs.  Later runs only trip over what a killed git command left in the work directory.
Damaged == locked \/ (pc = "idle" /\ repo \in {"init", "remote"})

CommitsGetPublished == head # remote ~> (head = remote \/ Damaged)

\* README: without the live API the page shows "the last known state".  When the collector
\* has stopped writing and the remote can be reached again, the branch gets the last snapshot.
LastStateGetsPublished == <>[](remote = snapshot)
=============================================================================
