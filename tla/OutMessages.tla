----------------------------- MODULE OutMessages -----------------------------
(***************************************************************************)
(* The outgoing QoS 1/2 queue of the client: mosquitto_publish called from *)
(* application threads, and the loop thread handling acknowledgements,     *)
(* retrying, losing the connection and reconnecting.                       *)
(*                                                                         *)
(* The broker and the network are the most liberal ones: while the         *)
(* connection lasts, an acknowledgement of any packet written on it can    *)
(* arrive at any moment, repeatedly, in any order.  Session replaces them  *)
(* by FIFO channels and a broker that follows MQTT.                        *)
(***************************************************************************)
EXTENDS MessageQueue

CONSTANTS Publishers,     \* application threads calling mosquitto_publish
          MaxMid,         \* last mid before the counter wraps (65535)
          MaxPublish,     \* bound on the messages published in a run
          MaxReconnects   \* bound on the calls of mosquitto_reconnect

ASSUME PublishersAssumption == IsFiniteSet(Publishers) /\ Publishers # {}
ASSUME BoundsAssumption == /\ MaxMid \in Nat \ {0}
                           /\ MaxPublish \in Nat
                           /\ MaxReconnects \in Nat

VARIABLES
    out_messages,       \* the linked list, first entry first
    inflight_messages,  \* the slots of the window counted as taken
    last_mid,           \* the mid generated last
    link,               \* the socket, as the loop thread sees it
    pending,            \* thread -> the PUBLISH it sends after unlocking
    sent,               \* packets written on the present connection
    notified,           \* mid -> calls of on_publish
    published,          \* messages published so far
    reconnects          \* calls of mosquitto_reconnect so far

vars == <<out_messages, inflight_messages, last_mid, link, pending, sent,
          notified, published, reconnects>>

Mids == 1 .. MaxMid
NoPacket == [type |-> "none", mid |-> 0, qos |-> 0]
Message == [mid : Mids, qos : {1, 2}, state : OutStates]
Packet == [type : {"PUBLISH", "PUBREL"}, mid : Mids, qos : {1, 2}]

(***************************************************************************)
(* "up": a valid socket that carries data.  "broken": the socket is still  *)
(* valid for the client but writes on it fail.  "closed": INVALID_SOCKET,  *)
(* loop_forever is about to reconnect.  "connecting": INVALID_SOCKET, with *)
(* the reset done.  "stopped": loop_forever returned.                      *)
(***************************************************************************)
LinkStates == {"up", "broken", "closed", "connecting", "stopped"}
SocketValid == link \in {"up", "broken"}

NextMid(mid) == IF mid = MaxMid THEN 1 ELSE mid + 1

Init ==
    /\ out_messages = <<>>
    /\ inflight_messages = 0
    /\ last_mid = 0
    /\ link = "up"
    /\ pending = [p \in Publishers |-> NoPacket]
    /\ sent = {}
    /\ notified = [mid \in Mids |-> 0]
    /\ published = 0
    /\ reconnects = 0

-----------------------------------------------------------------------------
(* mosquitto_publish, application threads.                                 *)

\* QoS 0: the packet goes out at once and on_publish runs when it is written.
PublishQos0(p) ==
    /\ published < MaxPublish
    /\ pending[p] = NoPacket
    /\ last_mid' = NextMid(last_mid)
    /\ published' = published + 1
    /\ notified' = IF link = "up"
                   THEN [notified EXCEPT ![NextMid(last_mid)] = @ + 1]
                   ELSE notified
    /\ UNCHANGED <<out_messages, inflight_messages, link, pending, sent, reconnects>>

\* QoS 1 and 2, under out_message_mutex: the message joins the list, started
\* when the window has room.  The send itself comes after the unlock.
PublishQueue(p, qos) ==
    LET mid == NextMid(last_mid)
        room == HasRoom(inflight_messages)
        m == [mid |-> mid, qos |-> qos,
              state |-> IF room THEN FirstWait(qos) ELSE "invalid"]
    IN  /\ published < MaxPublish
        /\ pending[p] = NoPacket
        /\ out_messages' = Append(out_messages, m)
        /\ inflight_messages' = inflight_messages + (IF room THEN 1 ELSE 0)
        /\ pending' = IF room THEN [pending EXCEPT ![p] = PublishOf(m)] ELSE pending
        /\ last_mid' = mid
        /\ published' = published + 1
        /\ UNCHANGED <<link, sent, notified, reconnects>>

\* Mutant: on_publish runs when the PUBLISH is written, as for QoS 0.
PublishSendNotifies(p) ==
    /\ pending[p] # NoPacket
    /\ pending' = [pending EXCEPT ![p] = NoPacket]
    /\ sent' = IF link = "up" THEN sent \cup {pending[p]} ELSE sent
    /\ notified' = [notified EXCEPT ![pending[p].mid] = 1]
    /\ UNCHANGED <<out_messages, inflight_messages, last_mid, link, published, reconnects>>

\* The send after the unlock.  It reads the fields of the message again, even
\* when the message has left the list in between: then it reads freed memory,
\* which still holds the old values or makes a packet the broker refuses.
PublishSend(p) ==
    /\ pending[p] # NoPacket
    /\ pending' = [pending EXCEPT ![p] = NoPacket]
    /\ sent' = IF link = "up" THEN sent \cup {pending[p]} ELSE sent
    /\ UNCHANGED <<out_messages, inflight_messages, last_mid, link, notified,
                   published, reconnects>>

PublishSendFreed(p) ==
    /\ pending[p] # NoPacket
    /\ pending[p].mid \notin MidsOf(out_messages)
    /\ link = "up"
    /\ pending' = [pending EXCEPT ![p] = NoPacket]
    /\ link' = "broken"
    /\ UNCHANGED <<out_messages, inflight_messages, last_mid, sent, notified,
                   published, reconnects>>

-----------------------------------------------------------------------------
(* Acknowledgements, loop thread.                                          *)

\* _mosquitto_message_delete: the list and the count once the message is gone.
Rest(mid) == RemoveAt(out_messages, Position(out_messages, mid))
Startable(mid) == FirstHeldBack(Rest(mid), Room(Rest(mid), inflight_messages - 1))

\* Mutant: the walk forgets to count the messages it starts.
RemoveAndStartUncounted(mid, S, Written) ==
    /\ out_messages' = Start(Rest(mid), S)
    /\ inflight_messages' = inflight_messages - 1
    /\ sent' = sent \cup {PublishOf(Rest(mid)[i]) : i \in Written}
    /\ UNCHANGED <<last_mid, pending, published, reconnects>>

\* Remove the message and start the messages in S, of which those in Written
\* reach the socket.
RemoveAndStart(mid, S, Written) ==
    /\ out_messages' = Start(Rest(mid), S)
    /\ inflight_messages' = inflight_messages - 1 + Cardinality(S)
    /\ sent' = sent \cup {PublishOf(Rest(mid)[i]) : i \in Written}
    /\ UNCHANGED <<last_mid, pending, published, reconnects>>

\* Mutant: on_publish runs whether or not a message was removed.
HandlePubackcompUnchecked(mid) ==
    /\ link = "up"
    /\ \/ mid \in MidsOf(out_messages) /\ RemoveAndStart(mid, Startable(mid), Startable(mid))
       \/ /\ mid \notin MidsOf(out_messages)
          /\ UNCHANGED <<out_messages, inflight_messages, sent, last_mid, pending,
                         published, reconnects>>
    /\ notified' = [notified EXCEPT ![mid] = (@ + 1) % 3]
    /\ UNCHANGED link

\* PUBACK or PUBCOMP for a message of the list.  An acknowledgement of a
\* message no longer there changes nothing.
HandlePubackcomp(mid) ==
    /\ mid \in MidsOf(out_messages)
    /\ link = "up" \/ Startable(mid) = {}
    /\ RemoveAndStart(mid, Startable(mid), Startable(mid))
    /\ notified' = [notified EXCEPT ![mid] = @ + 1]
    /\ UNCHANGED link

\* The same when the write of a started message fails: the walk stops there,
\* and the caller takes the error for "not removed".
HandlePubackcompSendFails(mid) ==
    /\ mid \in MidsOf(out_messages)
    /\ \E last \in Startable(mid) :
         LET S == {i \in Startable(mid) : i <= last}
         IN  /\ link = "broken" => Cardinality(S) = 1
             /\ RemoveAndStart(mid, S, S \ {last})
    /\ link' = "broken"
    /\ UNCHANGED notified

\* PUBREC for a message of the list; a failed write closes the socket.
HandlePubrec(mid) ==
    /\ mid \in MidsOf(out_messages)
    /\ out_messages' = [out_messages EXCEPT
                          ![Position(out_messages, mid)].state = "wait_for_pubcomp"]
    /\ \/ /\ link = "up"
          /\ sent' = sent \cup {PubrelOf(mid)}
          /\ UNCHANGED link
       \/ /\ link' = "closed"
          /\ UNCHANGED sent
    /\ UNCHANGED <<inflight_messages, last_mid, pending, notified, published, reconnects>>

\* PUBREC for any other mid: MOSQ_ERR_NOT_FOUND closes the socket and is one
\* of the errors on which loop_forever returns.
HandlePubrecUnknown(mid) ==
    /\ mid \notin MidsOf(out_messages)
    /\ link' = "stopped"
    /\ UNCHANGED <<out_messages, inflight_messages, last_mid, pending, sent,
                   notified, published, reconnects>>

-----------------------------------------------------------------------------
(* Retry, connection loss and reconnection, loop thread.                   *)

\* Mutant: a message that waits for its PUBCOMP is not retried.
RetryCheckPublishOnly(S) ==
    /\ link = "up"
    /\ \A i \in S : out_messages[i].state \in {"wait_for_puback", "wait_for_pubrec"}
    /\ sent' = sent \cup {PublishOf(out_messages[i]) : i \in S}
    /\ UNCHANGED <<out_messages, inflight_messages, last_mid, link, pending,
                   notified, published, reconnects>>

\* S is the set of messages found overdue; the others are skipped, as are the
\* messages held back.
RetryCheck(S) ==
    /\ link = "up"
    /\ S \cap HeldBack(out_messages) = {}
    /\ sent' = sent \cup {ResendOf(out_messages[i]) : i \in S}
    /\ UNCHANGED <<out_messages, inflight_messages, last_mid, link, pending,
                   notified, published, reconnects>>

\* The connection fails under the client, which finds out by its next write
\* or read.
LinkBreaks ==
    /\ link = "up"
    /\ link' = "broken"
    /\ UNCHANGED <<out_messages, inflight_messages, last_mid, pending, sent,
                   notified, published, reconnects>>

\* _mosquitto_loop_rc_handle after a read or write error, or a missing PINGRESP.
SocketClose ==
    /\ SocketValid
    /\ link' = "closed"
    /\ UNCHANGED <<out_messages, inflight_messages, last_mid, pending, sent,
                   notified, published, reconnects>>

\* Mutant: the reset empties the window but does not count the list again.
ReconnectUncounted ==
    /\ link = "closed"
    /\ reconnects < MaxReconnects
    /\ reconnects' = reconnects + 1
    /\ out_messages' = ReconnectReset(out_messages)
    /\ inflight_messages' = 0
    /\ sent' = {}
    /\ link' = "connecting"
    /\ UNCHANGED <<last_mid, pending, notified, published>>

\* mosquitto_reconnect: unsent packets are dropped and the list is reset, before
\* the connection attempt, which succeeds or not.
Reconnect ==
    /\ link = "closed"
    /\ reconnects < MaxReconnects
    /\ reconnects' = reconnects + 1
    /\ out_messages' = ReconnectReset(out_messages)
    /\ inflight_messages' = Len(out_messages)
    /\ sent' = {}
    /\ link' = "connecting"
    /\ UNCHANGED <<last_mid, pending, notified, published>>

SocketConnect ==
    /\ link = "connecting"
    /\ link' \in {"up", "closed"}
    /\ UNCHANGED <<out_messages, inflight_messages, last_mid, pending, sent,
                   notified, published, reconnects>>

-----------------------------------------------------------------------------
Publish(p) ==
    \/ PublishQos0(p)
    \/ \E qos \in {1, 2} : PublishQueue(p, qos)
    \/ PublishSend(p)
    \/ PublishSendFreed(p)

\* A PUBACK answers a QoS 1 PUBLISH, a PUBCOMP a PUBREL, a PUBREC a QoS 2 PUBLISH.
AckArrives(mid) ==
    /\ SocketValid
    /\ \E pkt \in sent : pkt.mid = mid /\ pkt.qos = 1

PubrecArrives(mid) ==
    /\ SocketValid
    /\ \E pkt \in sent : pkt.mid = mid /\ pkt.type = "PUBLISH" /\ pkt.qos = 2

HandleAck(mid) ==
    \/ AckArrives(mid) /\ HandlePubackcomp(mid)
    \/ AckArrives(mid) /\ HandlePubackcompSendFails(mid)
    \/ PubrecArrives(mid) /\ HandlePubrec(mid)
    \/ PubrecArrives(mid) /\ HandlePubrecUnknown(mid)

Next ==
    \/ \E p \in Publishers : Publish(p)
    \/ \E mid \in Mids : HandleAck(mid)
    \/ \E S \in SUBSET DOMAIN out_messages : RetryCheck(S)
    \/ LinkBreaks
    \/ SocketClose
    \/ Reconnect
    \/ SocketConnect

Spec == Init /\ [][Next]_vars

-----------------------------------------------------------------------------
(* Properties.                                                             *)

\* Every variable has the type its C counterpart is used with: the list holds
\* QoS 1/2 messages only, and the window count is never negative.
TypeOK ==
    /\ out_messages \in Seq(Message)
    /\ inflight_messages \in Nat
    /\ last_mid \in 0 .. MaxMid
    /\ link \in LinkStates
    /\ pending \in [Publishers -> Packet \cup {NoPacket}]
    /\ sent \subseteq Packet
    /\ notified \in [Mids -> Nat]
    /\ published \in 0 .. MaxPublish
    /\ reconnects \in 0 .. MaxReconnects

\* No mid is generated twice in a run.
NoWrap == MaxPublish <= MaxMid

\* The messages part way through their delivery flow.
InFlow == InFlowOf(out_messages)

\* The messages of the list whose PUBLISH an acknowledgement may answer, now or
\* once the publishing thread has sent it, held back again or not.
Touched == {mid \in MidsOf(out_messages) :
                \/ \E pkt \in sent : pkt.mid = mid
                \/ \E p \in Publishers : pending[p].mid = mid}

Covered == InFlow \cup Touched

\* inflight_messages, incremented in three functions and decremented in one,
\* never falls below the messages that are or can become part of a flow: an
\* acknowledgement never frees a slot another message still occupies.
InflightCoversFlow == Cardinality(Covered) <= inflight_messages

\* mosquitto_max_inflight_messages_set: the number of messages in flight stays
\* within the window.  A thread whose send a reconnect overtakes puts a message
\* in flight that the reset had taken out, so each thread but one can exceed
\* the window by one message.
WindowBound ==
    MaxInflight > 0 =>
        Cardinality(InFlow) <= MaxInflight + Cardinality(Publishers) - 1

\* handle_pubackcomp: on_publish runs at most once per message, and only once
\* the message has left the list.
NotifiedOnce ==
    \A mid \in Mids : /\ notified[mid] <= 1
                      /\ mid \in MidsOf(out_messages) => notified[mid] = 0

\* Until the first reconnect a message is held back only while the window is
\* full, so every acknowledgement that frees a slot starts the next message.
HeldBackOnlyWhenFull ==
    reconnects = 0 /\ HeldBack(out_messages) # {} =>
        /\ MaxInflight > 0
        /\ Cardinality(InFlow) >= MaxInflight
        /\ inflight_messages = Cardinality(InFlow)

(* What mosquitto.h promises and the code does not keep.                   *)

\* mosquitto_max_inflight_messages_set: messages are queued "until the number of
\* in flight messages reduces".  With none in flight, nothing will ever start
\* the messages held back.
HeldBackWaitsForAnAck == HeldBack(out_messages) # {} => InFlow # {}

\* mosquitto_publish_callback_set: on_publish is called for a message the broker
\* has acknowledged, that is when an acknowledgement takes it off the list.
AcknowledgedIsNotified ==
    [][\A mid \in MidsOf(out_messages) \ MidsOf(out_messages') :
          notified'[mid] = notified[mid] + 1]_vars
=============================================================================
