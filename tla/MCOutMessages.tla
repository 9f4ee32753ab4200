--------------------------- MODULE MCOutMessages ---------------------------
(***************************************************************************)
(* Instance of OutMessages for TLC.  Two threads publish, so a send after  *)
(* the unlock can be overtaken by the loop thread and by the other thread. *)
(***************************************************************************)
EXTENDS OutMessages

CONSTANTS p1, p2

OnePublisher == {p1}
TwoPublishers == {p1, p2}
Symmetry == Permutations(TwoPublishers)
=============================================================================
