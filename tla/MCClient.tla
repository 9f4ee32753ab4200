------------------------------- MODULE MCClient -------------------------------
(***************************************************************************)
(* Instance of Client for TLC: the Java subscriber, the threaded one with  *)
(* exponential back-off, and the publisher at both QoS.                    *)
(***************************************************************************)
EXTENDS Client

Listener(threaded) == [kind |-> "subscriber", threaded |-> threaded, sends |-> FALSE,
                       qos |-> 0, backoff |-> threaded]
Sender(qos) == [kind |-> "publisher", threaded |-> FALSE, sends |-> TRUE,
                qos |-> qos, backoff |-> FALSE]

FourApps == {Listener(FALSE), Listener(TRUE), Sender(0), Sender(1)}
=============================================================================
