----------------------------- MODULE StatusApiMC -----------------------------
(* A small instance of StatusApi: two endpoints, the second of which needs a model name. *)
EXTENDS StatusApi, TLC

TwoEndpoints == <<"web", "chat">>
Second == {"chat"}
==============================================================================
