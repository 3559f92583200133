----------------------------- MODULE SnapshotMC -----------------------------
(* Small instances of Snapshot: the two writers of main at one of the files. *)
EXTENDS Snapshot

OneFile == <<"status">>
=============================================================================
