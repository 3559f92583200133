----------------------------- MODULE PublishMC -----------------------------
(* Small instances of Publish: two files that are copied in the opposite of the order in which
   they are written, as status.json and the other two are. *)
EXTENDS Publish

AsWritten == <<"status", "comfy">>
AsNamed == <<"comfy", "status">>
Killed == {"cp","init"}
NoPoint == {}
=============================================================================
