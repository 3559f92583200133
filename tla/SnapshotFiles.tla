--------------------------- MODULE SnapshotFiles ---------------------------
(***************************************************************************)
(* What the snapshot directory promises to whoever reads it: each file is  *)
(* absent or holds one payload as a whole, and is replaced in one step by  *)
(* a payload that is not older.  A file is in doubt when several calls     *)
(* were at it when it was replaced: then it may hold anything collected    *)
(* so far, and change while it is read, until it is replaced again.        *)
(***************************************************************************)
EXTENDS Integers

CONSTANT Files

VARIABLES
    version,   \* how far the collected data has come
    shown,     \* the version of the payload in each file, 0 for a missing or damaged one
    doubted    \* the files that are in doubt

vars == <<version, shown, doubted>>

Init ==
    /\ version = 1
    /\ shown = [f \in Files |-> 0]
    /\ doubted = {}

Collect ==
    /\ version' = version + 1
    /\ UNCHANGED <<shown, doubted>>

\* A file is replaced, which ends all doubt about it.
Replace(f) ==
    /\ \E v \in shown[f] .. version : shown' = [shown EXCEPT ![f] = v]
    /\ doubted' = doubted \ {f}
    /\ UNCHANGED version

\* A file several calls are at is replaced, or changes afterwards.
Disturb(f) ==
    /\ \E v \in 0 .. version : shown' = [shown EXCEPT ![f] = v]
    /\ doubted' = doubted \cup {f}
    /\ UNCHANGED version

Next == Collect \/ \E f \in Files : Replace(f) \/ Disturb(f)

Spec == Init /\ [][Next]_vars
=============================================================================
