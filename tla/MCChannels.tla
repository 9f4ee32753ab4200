------------------------------ MODULE MCChannels ------------------------------
(* Channels with the app connecting with a topic or an invalid one. *)
EXTENDS Channels

CONSTANTS a, bad

MCFirstTopics == {<<a>>, <<bad>>}
=============================================================================
