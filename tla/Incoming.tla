------------------------------- MODULE Incoming -------------------------------
(***************************************************************************)
(* What the client does with the bytes that arrive: _mosquitto_packet_read *)
(* gathers a packet over as many reads as it takes, the handlers deliver   *)
(* messages and answer, and the list of QoS 2 messages waits for PUBREL.   *)
(* The broker at the other end keeps a session, or loses it, and repeats   *)
(* what was not answered when the client comes back.                       *)
(*                                                                         *)
(* A byte of a body stands for a field (topic, message id) or for payload. *)
(***************************************************************************)
EXTENDS Naturals, SequencesExt

CONSTANTS Base, MaxDigits,        \* 128 and 4 in the code
          Mids,                   \* message ids of the broker
          MaxMessages, MaxReconnects, MaxRetries  \* bounds of the model

ASSUME IncomingBounds ==
    /\ Base \in Nat \ {0, 1} /\ MaxDigits \in Nat \ {0}
    /\ Mids \subseteq Nat /\ IsFiniteSet(Mids)
    /\ MaxMessages \in Nat /\ MaxReconnects \in Nat /\ MaxRetries \in Nat

\* The weight of a digit of the remaining length.
Weight[i \in Nat] == IF i = 0 THEN 1 ELSE Base * Weight[i - 1]

VARIABLES
    clean,       \* the broker forgets the session with the connection
    conn,        \* "up", "lost" or "stopped" (loop_forever has returned)
    stream,      \* the bytes the socket has ready, or will have
    pending,     \* the packets they belong to, as the broker sent them
    in_packet,   \* the packet being read
    in_messages, \* QoS 2 messages that wait for PUBREL
    delivered,   \* calls of on_message, by message
    back,        \* answers on their way to the broker
    outgoing,    \* the broker's session, by message id
    made,        \* messages published so far
    done,        \* messages of QoS 1 and 2 the broker has finished with
    doubled,     \* ids of which the client may hold a message too many
    reconnects, retries

clientVars == <<in_packet, in_messages, delivered>>
brokerVars == <<clean, outgoing, made, done>>
countVars == <<doubled, reconnects, retries>>
vars == <<conn, stream, pending, clientVars, back, brokerVars, countVars>>

Messages == 1 .. MaxMessages
Free == [msg |-> 0, qos |-> 0, stage |-> "none"]
NoPacket == [command |-> <<>>, count |-> 0, complete |-> FALSE, length |-> 0, mult |-> 1,
             to_process |-> 0, body |-> <<>>]

Publish(msg, qos, mid, len) ==
    [type |-> "PUBLISH", qos |-> qos, mid |-> mid, msg |-> msg, len |-> len]
Pubrel(mid) == [type |-> "PUBREL", qos |-> 1, mid |-> mid, msg |-> 0, len |-> 1]
Pingresp == [type |-> "PINGRESP", qos |-> 0, mid |-> 0, msg |-> 0, len |-> 0]

\* No such packet, an impossible QoS, a body that ends before its message id,
\* and (len = Weight[MaxDigits]) a length of too many digits.
Malformed == {[type |-> "UNKNOWN", qos |-> 0, mid |-> 0, msg |-> 0, len |-> 0],
              Publish(0, 3, 0, 2), Publish(0, 1, 0, 1),
              Publish(0, 0, 0, Weight[MaxDigits])}

\* The fields a body must have room for: topic, message id.
Needed(p) == (IF p.type = "PUBLISH" THEN 1 ELSE 0) + (IF p.qos > 0 THEN 1 ELSE 0)

\* _mosquitto_packet_alloc: the remaining length, low digit first.
LengthDigits[n \in Nat] ==
    IF n < Base THEN <<<<"length", n, FALSE>>>>
                ELSE <<<<"length", n % Base, TRUE>>>> \o LengthDigits[n \div Base]

Body(p, n) == [i \in 1 .. n |-> <<"body", p, i>>]
Encode(p) == <<<<"command", p>>>> \o LengthDigits[p.len] \o Body(p, p.len)
Bytes(packets) == FlattenSeq([i \in DOMAIN packets |-> Encode(packets[i])])

Init ==
    /\ clean \in BOOLEAN
    /\ conn = "up" /\ stream = <<>> /\ pending = <<>>
    /\ in_packet = NoPacket /\ in_messages = <<>>
    /\ delivered = [m \in Messages |-> 0]
    /\ back = <<>>
    /\ outgoing = [mid \in Mids |-> Free]
    /\ made = 0 /\ done = {}
    /\ doubled = {} /\ reconnects = 0 /\ retries = 0

-----------------------------------------------------------------------------
(* _mosquitto_packet_read.  It may return for want of data after any byte. *)

ReadCommand ==
    /\ conn = "up" /\ stream # <<>>
    /\ in_packet.command = <<>>
    /\ in_packet' = [in_packet EXCEPT !.command = Head(stream)]
    /\ stream' = Tail(stream)
    /\ UNCHANGED <<conn, pending, in_messages, delivered, back, brokerVars, countVars>>

ReadingLength == /\ conn = "up" /\ stream # <<>>
                 /\ in_packet.command # <<>> /\ ~ in_packet.complete

\* A digit of the remaining length; after the last one the body has its room.
TakeDigit ==
    LET digit == Head(stream)
        length == in_packet.length + digit[2] * in_packet.mult
    IN  /\ in_packet' = [in_packet EXCEPT
               !.count = @ + 1, !.length = length, !.mult = @ * Base,
               !.complete = ~ digit[3],
               !.to_process = IF digit[3] THEN 0 ELSE length]
        /\ stream' = Tail(stream)

\* Mutant: a digit more than the limit is taken.
ReadLengthLong ==
    /\ ReadingLength /\ in_packet.count <= MaxDigits
    /\ TakeDigit
    /\ UNCHANGED <<conn, pending, in_messages, delivered, back, brokerVars, countVars>>

\* Mutant: every digit has the weight of the first.
ReadLengthFlat ==
    /\ ReadingLength /\ in_packet.count < MaxDigits
    /\ LET digit == Head(stream)
           length == in_packet.length + digit[2]
       IN  in_packet' = [in_packet EXCEPT
               !.count = @ + 1, !.length = length, !.complete = ~ digit[3],
               !.to_process = IF digit[3] THEN 0 ELSE length]
    /\ stream' = Tail(stream)
    /\ UNCHANGED <<conn, pending, in_messages, delivered, back, brokerVars, countVars>>

ReadLength ==
    /\ ReadingLength /\ in_packet.count < MaxDigits
    /\ TakeDigit
    /\ UNCHANGED <<conn, pending, in_messages, delivered, back, brokerVars, countVars>>

\* A digit too many: an error of the protocol, on which loop_forever returns.
ReadLengthFails ==
    /\ ReadingLength /\ in_packet.count = MaxDigits
    /\ conn' = "stopped"
    /\ UNCHANGED <<stream, pending, clientVars, back, brokerVars, countVars>>

\* As much of the body as the socket has, or less.
ReadBody ==
    /\ conn = "up" /\ in_packet.to_process > 0
    /\ \E n \in 1 .. in_packet.to_process :
           /\ n <= Len(stream)
           /\ in_packet' = [in_packet EXCEPT !.to_process = @ - n,
                                             !.body = @ \o SubSeq(stream, 1, n)]
           /\ stream' = SubSeq(stream, n + 1, Len(stream))
    /\ UNCHANGED <<conn, pending, in_messages, delivered, back, brokerVars, countVars>>

-----------------------------------------------------------------------------
(* _mosquitto_packet_handle, when the whole packet is there.               *)

Whole(type) ==
    /\ conn = "up"
    /\ in_packet.complete /\ in_packet.to_process = 0
    /\ in_packet.command[2].type = type

Arrived == in_packet.command[2]
Handled == in_packet' = NoPacket /\ pending' = Tail(pending)
OnMessage(m) == delivered' = [delivered EXCEPT ![m] = @ + 1]

\* An answer is on its way, or cannot be written: then the read returns its
\* error and the connection is given up.
Answer(type, mid) ==
    \/ back' = Append(back, [type |-> type, mid |-> mid]) /\ UNCHANGED conn
    \/ conn' = "lost" /\ UNCHANGED back

HandlePingresp ==
    /\ Whole("PINGRESP")
    /\ Handled
    /\ UNCHANGED <<conn, stream, in_messages, delivered, back, brokerVars, countVars>>

HandleMalformed ==
    /\ \/ Whole("UNKNOWN")
       \/ Whole("PUBLISH") /\ (Arrived.qos = 3 \/ Len(in_packet.body) < Needed(Arrived))
    /\ Handled
    /\ conn' = "stopped"
    /\ UNCHANGED <<stream, in_messages, delivered, back, brokerVars, countVars>>

Publication(qos) ==
    /\ Whole("PUBLISH") /\ Arrived.qos = qos /\ Len(in_packet.body) >= Needed(Arrived)
    /\ Handled

HandlePublish0 ==
    /\ Publication(0)
    /\ OnMessage(Arrived.msg)
    /\ UNCHANGED <<conn, stream, in_messages, back, brokerVars, countVars>>

\* PUBACK first, whether it can be sent or not.
HandlePublish1 ==
    /\ Publication(1)
    /\ Answer("PUBACK", Arrived.mid)
    /\ OnMessage(Arrived.msg)
    /\ UNCHANGED <<stream, in_messages, brokerVars, countVars>>

\* The message is queued whether or not the same one already waits, and whether
\* or not the PUBREC could be sent.
HandlePublish2 ==
    /\ Publication(2)
    /\ Answer("PUBREC", Arrived.mid)
    /\ in_messages' = Append(in_messages, [mid |-> Arrived.mid, msg |-> Arrived.msg])
    /\ doubled' = IF \E i \in DOMAIN in_messages : in_messages[i].mid = Arrived.mid
                  THEN doubled \cup {Arrived.mid} ELSE doubled
    /\ UNCHANGED <<stream, delivered, brokerVars, reconnects, retries>>

Waiting(mid) == {i \in DOMAIN in_messages : in_messages[i].mid = mid}
Oldest(mid) == CHOOSE i \in Waiting(mid) : \A j \in Waiting(mid) : i <= j

\* Mutant: the message stays in the list.
HandlePubrelKeeps ==
    /\ Whole("PUBREL") /\ Handled
    /\ Waiting(Arrived.mid) # {}
    /\ OnMessage(in_messages[Oldest(Arrived.mid)].msg)
    /\ Answer("PUBCOMP", Arrived.mid)
    /\ UNCHANGED <<stream, in_messages, brokerVars, countVars>>

HandlePubrel ==
    /\ Whole("PUBREL") /\ Handled
    /\ Waiting(Arrived.mid) # {}
    /\ OnMessage(in_messages[Oldest(Arrived.mid)].msg)
    /\ in_messages' = RemoveAt(in_messages, Oldest(Arrived.mid))
    /\ Answer("PUBCOMP", Arrived.mid)
    /\ UNCHANGED <<stream, brokerVars, countVars>>

\* Mutant: no PUBCOMP for a message that is not there.
HandlePubrelAgainSilent ==
    /\ Whole("PUBREL") /\ Handled
    /\ Waiting(Arrived.mid) = {}
    /\ UNCHANGED <<conn, stream, in_messages, delivered, back, brokerVars, countVars>>

\* A PUBREL repeated: answered, nothing delivered.
HandlePubrelAgain ==
    /\ Whole("PUBREL") /\ Handled
    /\ Waiting(Arrived.mid) = {}
    /\ Answer("PUBCOMP", Arrived.mid)
    /\ UNCHANGED <<stream, in_messages, delivered, brokerVars, countVars>>

-----------------------------------------------------------------------------
\* _mosquitto_message_retry_check sends the PUBREC of a waiting message again.
RetryPubrec ==
    /\ conn = "up" /\ retries < MaxRetries
    /\ retries' = retries + 1
    /\ \E i \in DOMAIN in_messages :
           back' = Append(back, [type |-> "PUBREC", mid |-> in_messages[i].mid])
    /\ UNCHANGED <<conn, stream, pending, clientVars, brokerVars, doubled, reconnects>>

Lose ==
    /\ conn = "up"
    /\ conn' = "lost"
    /\ UNCHANGED <<stream, pending, clientVars, back, brokerVars, countVars>>

\* What the broker sends again for an id it is not done with, when the client
\* comes back, in any order of the ids.
Repeated(mid) ==
    IF outgoing[mid].stage = "release" THEN Pubrel(mid)
    ELSE Publish(outgoing[mid].msg, outgoing[mid].qos, mid, outgoing[mid].qos + 1)

Open == {mid \in Mids : outgoing[mid] # Free}

\* _mosquitto_reconnect discards the packet half read and keeps the QoS 2
\* messages, for a session the broker may have forgotten.
Reconnect ==
    /\ conn = "lost" /\ reconnects < MaxReconnects
    /\ conn' = "up"
    /\ reconnects' = reconnects + 1
    /\ in_packet' = NoPacket
    /\ back' = <<>>
    /\ IF clean
       THEN /\ outgoing' = [mid \in Mids |-> Free]
            /\ pending' = <<>>
            /\ doubled' = doubled \cup {in_messages[i].mid : i \in DOMAIN in_messages}
       ELSE /\ \E order \in Bijection(1 .. Cardinality(Open), Open) :
                   pending' = [i \in DOMAIN order |-> Repeated(order[i])]
            /\ UNCHANGED <<outgoing, doubled>>
    /\ stream' = Bytes(pending')
    /\ UNCHANGED <<clean, in_messages, delivered, made, done, retries>>

-----------------------------------------------------------------------------
(* The broker.                                                             *)

Send(p) == pending' = Append(pending, p) /\ stream' = stream \o Encode(p)

\* The lowest free id is taken, so that ids come back soon.
BrokerPublishes ==
    /\ conn = "up" /\ made < MaxMessages
    /\ made' = made + 1
    /\ \/ /\ Send(Publish(made + 1, 0, 0, 1))
          /\ UNCHANGED outgoing
       \/ \E qos \in 1 .. 2, mid \in Mids :
              /\ outgoing[mid] = Free
              /\ \A other \in Mids : outgoing[other] = Free => mid <= other
              /\ outgoing' = [outgoing EXCEPT ![mid] =
                                 [msg |-> made + 1, qos |-> qos, stage |-> "publish"]]
              /\ Send(Publish(made + 1, qos, mid, qos + 1))
    /\ UNCHANGED <<conn, clientVars, back, clean, done, countVars>>

\* At most one packet without a message is on its way.
BrokerSendsOther ==
    /\ conn = "up" /\ pending = <<>> /\ made = MaxMessages
    /\ \E p \in Malformed \cup {Pingresp} : Send(p)
    /\ UNCHANGED <<conn, clientVars, back, brokerVars, countVars>>

Finish(mid) ==
    /\ outgoing' = [outgoing EXCEPT ![mid] = Free]
    /\ done' = done \cup {[msg |-> outgoing[mid].msg, qos |-> outgoing[mid].qos, mid |-> mid]}

BrokerGets ==
    /\ conn = "up" /\ back # <<>>
    /\ back' = Tail(back)
    /\ LET answer == Head(back)  o == outgoing[answer.mid] IN
       \/ /\ answer.type = "PUBACK" /\ o.qos = 1
          /\ Finish(answer.mid) /\ UNCHANGED <<pending, stream>>
       \/ /\ answer.type = "PUBREC" /\ o.qos = 2
          /\ outgoing' = [outgoing EXCEPT ![answer.mid].stage = "release"]
          /\ Send(Pubrel(answer.mid)) /\ UNCHANGED done
       \/ /\ answer.type = "PUBCOMP" /\ o.stage = "release"
          /\ Finish(answer.mid) /\ UNCHANGED <<pending, stream>>
       \/ /\ o = Free \/ (answer.type = "PUBCOMP" /\ o.stage # "release")
          /\ UNCHANGED <<outgoing, done, pending, stream>>
       \/ /\ o.qos = 1 /\ answer.type # "PUBACK"
          /\ UNCHANGED <<outgoing, done, pending, stream>>
    /\ UNCHANGED <<conn, clientVars, clean, made, countVars>>

-----------------------------------------------------------------------------
Read == ReadCommand \/ ReadLength \/ ReadLengthFails \/ ReadBody

Handle == \/ HandlePingresp \/ HandleMalformed
          \/ HandlePublish0 \/ HandlePublish1 \/ HandlePublish2
          \/ HandlePubrel \/ HandlePubrelAgain

Next ==
    \/ Read \/ Handle \/ RetryPubrec \/ Lose \/ Reconnect
    \/ BrokerPublishes \/ BrokerSendsOther \/ BrokerGets

Fairness == WF_vars(Read \/ Handle) /\ WF_vars(Reconnect) /\ WF_vars(BrokerGets)

Spec == Init /\ [][Next]_vars /\ Fairness

-----------------------------------------------------------------------------
(* Properties.                                                             *)

\* Types; in particular a remaining length has at most MaxDigits digits.
IncomingTypeOK ==
    /\ conn \in {"up", "lost", "stopped"}
    /\ in_packet.count \in 0 .. MaxDigits
    /\ in_packet.length \in 0 .. Weight[MaxDigits] - 1
    /\ in_packet.to_process + Len(in_packet.body) =
          (IF in_packet.complete THEN in_packet.length ELSE 0)
    /\ in_messages \in Seq([mid : Mids, msg : Messages])
    /\ delivered \in [Messages -> Nat]
    /\ outgoing \in [Mids -> {Free} \cup
                              [msg : Messages, qos : 1 .. 2, stage : {"publish", "release"}]]
    /\ made \in 0 .. MaxMessages /\ doubled \subseteq Mids
    /\ done \subseteq [msg : Messages, qos : 1 .. 2, mid : Mids]
    /\ reconnects \in 0 .. MaxReconnects /\ retries \in 0 .. MaxRetries

\* What in_packet stands for, as bytes.
Gathered ==
    IF in_packet.command = <<>> THEN <<>>
    ELSE <<in_packet.command>>
         \o [i \in 1 .. in_packet.count |->
                <<"length", (in_packet.length \div Weight[i - 1]) % Base,
                  i < in_packet.count \/ ~ in_packet.complete>>]
         \o in_packet.body

\* Wherever the reads stop, the bytes gathered and those still to come are the
\* packets the broker sent: none is taken apart, joined to another or handled
\* before it is whole, also after a connection lost in the middle of one.
Framing ==
    conn = "up" => Gathered \o stream = Bytes(pending)

\* A message of QoS 1 or 2 is delivered before the broker is done with it.  One
\* of QoS 2 is delivered once, not before its PUBREL, unless its id was repeated
\* to a client holding it, or forgotten by the broker while the client held it.
ReleasedOnce ==
    /\ \A mid \in Mids \ doubled :
           /\ outgoing[mid].qos = 2 =>
                 delivered[outgoing[mid].msg] <= (IF outgoing[mid].stage = "publish" THEN 0 ELSE 1)
           /\ \A i \in Waiting(mid) : delivered[in_messages[i].msg] = 0
    /\ \A d \in done : d.mid \notin doubled =>
           IF d.qos = 2 THEN delivered[d.msg] = 1 ELSE delivered[d.msg] >= 1

\* The broker gets rid of every message while the client stays: no answer is
\* missing, whatever is repeated.
AllAnswered ==
    []<>((\A mid \in Mids : outgoing[mid] = Free) \/ conn # "up")
=============================================================================
