--------------------------- MODULE MCMessageLists ---------------------------
(***************************************************************************)
(* Instance of MessageLists for TLC.  The broker uses the mids the client  *)
(* uses too, so a message on the wrong list can be taken for another.      *)
(***************************************************************************)
EXTENDS MessageLists

BrokerMids == {1, 2}
=============================================================================
