---------------------------- MODULE StatusPageMC ----------------------------
(* A small instance of StatusPage: a narrow and a wide window. *)
EXTENDS StatusPage, TLC

NarrowAndWide == {1, 4, 8}
=============================================================================
