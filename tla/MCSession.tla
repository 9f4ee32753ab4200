----------------------------- MODULE MCSession -----------------------------
(***************************************************************************)
(* Instance of Session for TLC, with one publishing thread.                *)
(***************************************************************************)
EXTENDS Session

CONSTANT p1

OnePublisher == {p1}
=============================================================================
