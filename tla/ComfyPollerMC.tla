------------------------- MODULE ComfyPollerMC -------------------------
(* Small instances of ComfyPoller. *)
EXTENDS ComfyPoller

NoCall == {}
DrainCalls == {"history", "lookup", "upsert"}
AnyCall == Calls

\* Every kind of build; the kinds the fallback concerns.
AnyBuild == BuildKinds
Unstamped == {[stamped |-> FALSE, timed |-> TRUE]}
=============================================================================
