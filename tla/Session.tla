------------------------------- MODULE Session -------------------------------
(***************************************************************************)
(* The outgoing queue of OutMessages joined to a broker: the packets of a  *)
(* connection travel in order in both directions and are lost with it.     *)
(* Every client step is an OutMessages step together with the packets it   *)
(* writes or reads.  The broker is not part of the repository: it answers  *)
(* as MQTT says, and keeps the mids of a QoS 2 flow across connections.    *)
(* QoS 0 messages, which the broker does not answer, are left out.         *)
(***************************************************************************)
EXTENDS OutMessages, Orders

CONSTANT MaxAcks      \* bound on the acknowledgements under way

ASSUME MaxAcksAssumption == MaxAcks \in Nat \ {0}

VARIABLES
    c2b,              \* packets on their way to the broker, oldest first
    b2c,              \* acknowledgements on their way to the client
    stored,           \* mids of the QoS 2 messages the broker has not released
    received,         \* mid -> times the broker took the message as a new one
    qos,              \* mid -> QoS of the message published with it, or 0
    prompt            \* no thread is overtaken between queueing and sending

network == <<c2b, b2c>>
broker == <<stored, received>>
sessionVars == <<vars, network, broker, qos, prompt>>

Ack(type, mid) == [type |-> type, mid |-> mid]

SessionInit ==
    /\ Init
    /\ c2b = <<>> /\ b2c = <<>>
    /\ stored = {}
    /\ received = [mid \in Mids |-> 0]
    /\ qos = [mid \in Mids |-> 0]
    /\ prompt \in BOOLEAN

\* The connection may still fail: there is a reconnect left.
MayFail == reconnects < MaxReconnects

\* In a prompt behaviour nothing comes between the two halves of a publish.
Settled == prompt => \A p \in Publishers : pending[p] = NoPacket

\* Mutant: what was under way on one connection arrives on the next.
CutOffNothing == UNCHANGED network

\* What is under way when the socket is closed is lost.
CutOff == c2b' = <<>> /\ b2c' = <<>>

-----------------------------------------------------------------------------
(* The client's steps.                                                     *)

Queue(p) ==
    /\ Settled
    /\ \E q \in {1, 2} : /\ PublishQueue(p, q)
                         /\ qos' = [qos EXCEPT ![NextMid(last_mid)] = q]
    /\ UNCHANGED <<network, broker, prompt>>

Send(p) ==
    /\ \/ PublishSend(p) /\ c2b' = IF link = "up" THEN Append(c2b, pending[p]) ELSE c2b
       \/ MayFail /\ PublishSendFreed(p) /\ UNCHANGED c2b
    /\ UNCHANGED <<b2c, broker, qos, prompt>>

\* The next acknowledgement is read.
Read(types, mid) ==
    /\ Settled
    /\ SocketValid
    /\ b2c # <<>>
    /\ Head(b2c).type \in types /\ Head(b2c).mid = mid

\* The walk writes what it starts front to back.
Packets(mid, walk) == [k \in DOMAIN walk |-> PublishOf(Rest(mid)[walk[k]])]

ReadPubackcomp(mid) ==
    /\ Read({"PUBACK", "PUBCOMP"}, mid)
    /\ b2c' = Tail(b2c)
    /\ \/ /\ HandlePubackcomp(mid)
          /\ \E walk \in InOrder(Startable(mid)) : c2b' = c2b \o Packets(mid, walk)
       \/ MayFail /\ HandlePubackcompSendFails(mid) /\ UNCHANGED c2b
       \/ mid \notin MidsOf(out_messages) /\ UNCHANGED <<vars, c2b>>
    /\ UNCHANGED <<broker, qos, prompt>>

ReadPubrec(mid) ==
    /\ Read({"PUBREC"}, mid)
    /\ \/ /\ HandlePubrec(mid)
          /\ link' = "up"
          /\ c2b' = Append(c2b, PubrelOf(mid))
          /\ b2c' = Tail(b2c)
       \/ (link = "broken" \/ MayFail) /\ HandlePubrec(mid) /\ link' = "closed" /\ CutOff
       \/ HandlePubrecUnknown(mid) /\ CutOff
    /\ UNCHANGED <<broker, qos, prompt>>

\* A message is sent again when its timestamp is old, and right after a
\* reconnect.  Bound: not while a copy of the packet is on its way.
Retry(mid) ==
    /\ Settled
    /\ mid \in MidsOf(out_messages)
    /\ LET i == Position(out_messages, mid)
       IN  /\ RetryCheck({i})
           /\ ~ Contains(c2b, ResendOf(out_messages[i]))
           /\ c2b' = Append(c2b, ResendOf(out_messages[i]))
    /\ UNCHANGED <<b2c, broker, qos, prompt>>

Break ==
    /\ Settled
    /\ MayFail
    /\ LinkBreaks
    /\ UNCHANGED <<network, broker, qos, prompt>>

\* A read, write or keepalive error, or a broken connection noticed.
Close ==
    /\ Settled
    /\ MayFail
    /\ SocketClose
    /\ CutOff
    /\ UNCHANGED <<broker, qos, prompt>>

\* mosquitto_reconnect.  The last attempt succeeds.
Reopen ==
    /\ Settled
    /\ Reconnect \/ (SocketConnect /\ (link' = "up" \/ MayFail))
    /\ UNCHANGED <<network, broker, qos, prompt>>

-----------------------------------------------------------------------------
(* The broker, as MQTT describes it.                                       *)

BrokerPublish ==
    /\ Settled
    /\ c2b # <<>> /\ Head(c2b).type = "PUBLISH"
    /\ Len(b2c) < MaxAcks
    /\ LET pkt == Head(c2b)
           new == pkt.qos = 1 \/ pkt.mid \notin stored
       IN  /\ received' = [received EXCEPT ![pkt.mid] = @ + (IF new THEN 1 ELSE 0)]
           /\ stored' = IF pkt.qos = 2 THEN stored \cup {pkt.mid} ELSE stored
           /\ b2c' = Append(b2c, Ack(IF pkt.qos = 1 THEN "PUBACK" ELSE "PUBREC", pkt.mid))
    /\ c2b' = Tail(c2b)
    /\ UNCHANGED <<vars, qos, prompt>>

BrokerPubrel ==
    /\ Settled
    /\ c2b # <<>> /\ Head(c2b).type = "PUBREL"
    /\ Len(b2c) < MaxAcks
    /\ stored' = stored \ {Head(c2b).mid}
    /\ b2c' = Append(b2c, Ack("PUBCOMP", Head(c2b).mid))
    /\ c2b' = Tail(c2b)
    /\ UNCHANGED <<vars, received, qos, prompt>>

-----------------------------------------------------------------------------
SessionNext ==
    \/ \E p \in Publishers : Queue(p)
    \/ \E p \in Publishers : Send(p)
    \/ \E mid \in Mids : ReadPubackcomp(mid)
    \/ \E mid \in Mids : ReadPubrec(mid)
    \/ \E mid \in Mids : Retry(mid)
    \/ Break
    \/ Close
    \/ Reopen
    \/ BrokerPublish
    \/ BrokerPubrel

\* The threads run, the loop thread reads, retries and reconnects, a broken
\* connection is noticed, and the broker answers.
Fairness ==
    /\ \A p \in Publishers : WF_sessionVars(Send(p))
    /\ WF_sessionVars(\E mid \in Mids : ReadPubackcomp(mid) \/ ReadPubrec(mid))
    /\ \A mid \in Mids : WF_sessionVars(Retry(mid))
    /\ WF_sessionVars(link = "broken" /\ Close)
    /\ WF_sessionVars(Reopen)
    /\ WF_sessionVars(BrokerPublish \/ BrokerPubrel)

SessionSpec == SessionInit /\ [][SessionNext]_sessionVars /\ Fairness

-----------------------------------------------------------------------------
(* Properties.                                                             *)

\* The packets under way are well formed, and only while the socket is valid.
SessionTypeOK ==
    /\ c2b \in Seq(Packet)
    /\ b2c \in Seq([type : {"PUBACK", "PUBREC", "PUBCOMP"}, mid : Mids])
    /\ Len(b2c) <= MaxAcks
    /\ stored \subseteq Mids
    /\ received \in [Mids -> Nat]
    /\ qos \in [Mids -> 0 .. 2]
    /\ ~ SocketValid => network = <<<<>>, <<>>>>

\* QoS 1 and 2: on_publish says that the broker has the message, whatever was
\* lost, repeated or overtaken on the way.
AtLeastOnce == \A mid \in Mids : notified[mid] > 0 => received[mid] > 0

\* QoS 2: the broker takes a message once, however often the connection fails,
\* as long as no publishing thread is overtaken between queueing and sending.
ExactlyOnce == prompt => \A mid \in Mids : qos[mid] = 2 => received[mid] <= 1

\* The FIFO connection is one of the networks OutMessages allows.
ImplementsOutMessages == Spec

\* A message published is confirmed to the application in the end, provided the
\* window never fills.  Only a thread overtaken in the middle of a publish can
\* make loop_forever give up (HandlePubrecUnknown) instead.
EventuallyNotified ==
    \A mid \in Mids : qos[mid] > 0 ~> \/ notified[mid] > 0
                                      \/ ~ prompt /\ link = "stopped"
=============================================================================
