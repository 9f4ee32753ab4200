---------------------------- MODULE SessionProofs ----------------------------
(***************************************************************************)
(* Theorems about Session: that it is one of the behaviours of OutMessages *)
(* and that what the application is told is true of the broker, whatever   *)
(* is lost or repeated on the way.                                         *)
(***************************************************************************)
EXTENDS Session, OutMessagesProofs

USE MaxInflightAssumption, PublishersAssumption, BoundsAssumption,
   MaxAcksAssumption

\* The acknowledgements of the broker.
AckTypes == {"PUBACK", "PUBREC", "PUBCOMP"}
Acks == [type : AckTypes, mid : Mids]

\* The types of the client's variables that do not depend on a count.
Shapes ==
    /\ out_messages \in Seq(Message)
    /\ last_mid \in 0 .. MaxMid
    /\ link \in LinkStates
    /\ pending \in [Publishers -> Packet \cup {NoPacket}]
    /\ sent \subseteq Packet
    /\ notified \in [Mids -> Nat]

\* What travels was written on the present connection, and what the broker
\* says answers something that was.
Answers(ack, pkt) ==
    /\ pkt.mid = ack.mid
    /\ IF ack.type = "PUBREC" THEN pkt.type = "PUBLISH" /\ pkt.qos = 2 ELSE pkt.qos = 1

Carried ==
    /\ \A i \in DOMAIN c2b : c2b[i] \in sent
    /\ \A i \in DOMAIN b2c : \E pkt \in sent : Answers(b2c[i], pkt)
    /\ \A pkt \in sent : pkt.type = "PUBREL" => pkt.qos = 1

\* Whatever comes of an answer of the broker is about a message it has.
Taken(mid) == received[mid] > 0

Answered ==
    /\ \A p \in Publishers : pending[p].type # "PUBREL"
    /\ \A i \in DOMAIN out_messages :
          out_messages[i].state = "wait_for_pubcomp" => Taken(out_messages[i].mid)
    /\ \A i \in DOMAIN c2b : c2b[i].type = "PUBREL" => Taken(c2b[i].mid)
    /\ \A mid \in stored : Taken(mid)
    /\ \A i \in DOMAIN b2c : Taken(b2c[i].mid)

\* The inductive invariant.
Delivery == Shapes /\ SessionTypeOK /\ Carried /\ Answered /\ AtLeastOnce

-----------------------------------------------------------------------------
(* Sequences and lists.                                                    *)

\* The entries of a sequence with one more at its end.
LEMMA AppendEntries ==
    ASSUME NEW S, NEW s \in Seq(S), NEW x \in S
    PROVE  /\ Append(s, x) \in Seq(S)
           /\ Len(Append(s, x)) = Len(s) + 1
           /\ \A i \in DOMAIN s : i \in DOMAIN Append(s, x) /\ Append(s, x)[i] = s[i]
           /\ Append(s, x)[Len(s) + 1] = x
           /\ \A i \in DOMAIN Append(s, x) : i \in DOMAIN s \/ i = Len(s) + 1
BY AppendProperties

\* The entries of a sequence without its first.
LEMMA TailEntries ==
    ASSUME NEW S, NEW s \in Seq(S), s # <<>>
    PROVE  /\ Head(s) \in S /\ Head(s) = s[1] /\ 1 \in DOMAIN s
           /\ Tail(s) \in Seq(S)
           /\ Len(Tail(s)) = Len(s) - 1
           /\ \A i \in DOMAIN Tail(s) : i + 1 \in DOMAIN s /\ Tail(s)[i] = s[i + 1]
BY HeadTailProperties

\* The entries of two sequences, one behind the other.
LEMMA ConcatEntries ==
    ASSUME NEW S, NEW s \in Seq(S), NEW t \in Seq(S)
    PROVE  /\ s \o t \in Seq(S)
           /\ \A i \in DOMAIN (s \o t) : \/ i \in DOMAIN s /\ (s \o t)[i] = s[i]
                                        \/ \E j \in DOMAIN t : (s \o t)[i] = t[j]
<1>1. /\ s \o t \in Seq(S)
      /\ Len(s \o t) = Len(s) + Len(t)
      /\ \A i \in 1 .. Len(s) + Len(t) :
            (s \o t)[i] = IF i <= Len(s) THEN s[i] ELSE t[i - Len(s)]
  BY ConcatProperties, Zenon
<1>2. ASSUME NEW i \in DOMAIN (s \o t)
      PROVE  \/ i \in DOMAIN s /\ (s \o t)[i] = s[i]
             \/ \E j \in DOMAIN t : (s \o t)[i] = t[j]
  <2>1. i \in 1 .. Len(s) + Len(t)
    BY <1>1
  <2>2. CASE i <= Len(s)
    BY <1>1, <2>1, <2>2
  <2>3. CASE ~ (i <= Len(s))
    <3>1. i - Len(s) \in DOMAIN t /\ (s \o t)[i] = t[i - Len(s)]
      BY <1>1, <2>1, <2>3
    <3>. QED  BY <3>1
  <2>. QED  BY <2>2, <2>3
<1>. QED  BY <1>1, <1>2

\* A list without the message acknowledged.
LEMMA RestProperties ==
    ASSUME out_messages \in Seq(Message), NEW mid \in MidsOf(out_messages)
    PROVE  /\ Position(out_messages, mid) \in DOMAIN out_messages
           /\ out_messages[Position(out_messages, mid)].mid = mid
           /\ Rest(mid) \in Seq(Message)
           /\ Len(Rest(mid)) = Len(out_messages) - 1
           /\ \A i \in DOMAIN Rest(mid) : \E j \in DOMAIN out_messages : Rest(mid)[i] = out_messages[j]
<1>1. out_messages \in Seq(Entry(Mids))
  BY MessageIsEntry
<1>2. /\ Position(out_messages, mid) \in 1 .. Len(out_messages)
      /\ out_messages[Position(out_messages, mid)].mid = mid
  BY <1>1, PositionProperties
<1>3. /\ Rest(mid) \in Seq(Message)
      /\ Len(Rest(mid)) = Len(out_messages) - 1
      /\ \A j \in 1 .. Len(out_messages) - 1 :
            Rest(mid)[j] = IF j < Position(out_messages, mid) THEN out_messages[j] ELSE out_messages[j + 1]
  BY <1>2, RemoveAtProperties DEF Rest
<1>4. \A i \in DOMAIN Rest(mid) : \E j \in DOMAIN out_messages : Rest(mid)[i] = out_messages[j]
  <2>. SUFFICES ASSUME NEW i \in DOMAIN Rest(mid)
                PROVE  \E j \in DOMAIN out_messages : Rest(mid)[i] = out_messages[j]
    OBVIOUS
  <2>1. i \in 1 .. Len(out_messages) - 1 /\ Len(out_messages) \in Nat
    BY <1>3
  <2>2. i \in DOMAIN out_messages /\ i + 1 \in DOMAIN out_messages
    BY <2>1
  <2>3. Rest(mid)[i] = out_messages[i] \/ Rest(mid)[i] = out_messages[i + 1]
    BY <1>3, <2>1
  <2>. QED  BY <2>2, <2>3
<1>. QED  BY <1>2, <1>3, <1>4

\* The list once the walk has started some of the messages.
LEMMA StartedProperties ==
    ASSUME out_messages \in Seq(Message), NEW mid \in MidsOf(out_messages),
           NEW S \in SUBSET Startable(mid)
    PROVE  /\ S \in SUBSET (DOMAIN Rest(mid)) /\ S \in SUBSET Nat /\ IsFiniteSet(S)
           /\ Start(Rest(mid), S) \in Seq(Message)
           /\ Len(Start(Rest(mid), S)) = Len(Rest(mid))
           /\ \A i \in DOMAIN Start(Rest(mid), S) :
                 /\ i \in DOMAIN Rest(mid)
                 /\ Start(Rest(mid), S)[i].mid = Rest(mid)[i].mid
                 /\ Start(Rest(mid), S)[i].state = "wait_for_pubcomp" =>
                       Start(Rest(mid), S)[i] = Rest(mid)[i]
<1>. DEFINE r == Rest(mid)
            t == Start(r, S)
<1>1. r \in Seq(Message)
  BY RestProperties
<1>2. S \in SUBSET (DOMAIN r)
  BY DEF Startable, FirstHeldBack, HeldBack
<1>. HIDE DEF r
<1>3. S \in SUBSET Nat /\ IsFiniteSet(S)
  <2>1. Len(r) \in Nat /\ DOMAIN r = 1 .. Len(r)
    BY <1>1
  <2>2. IsFiniteSet(1 .. Len(r))
    BY <2>1, FS_Interval
  <2>3. IsFiniteSet(S)
    BY ONLY <1>2, <2>1, <2>2, FS_Subset
  <2>. QED  BY <1>2, <2>1, <2>3
<1>4. t = [i \in 1 .. Len(r) |->
              IF i \in S THEN [r[i] EXCEPT !.state = FirstWait(r[i].qos)] ELSE r[i]]
  BY <1>1 DEF Start
<1>. HIDE DEF t
<1>5. ASSUME NEW i \in 1 .. Len(r)
      PROVE  /\ t[i] \in Message
             /\ t[i].mid = r[i].mid
             /\ t[i].state = "wait_for_pubcomp" => t[i] = r[i]
  <2>1. r[i] \in Message
    BY <1>1
  <2>2. CASE i \in S
    <3>1. t[i] = [r[i] EXCEPT !.state = FirstWait(r[i].qos)]
      BY <1>4, <2>2
    <3>. QED  BY <2>1, <3>1 DEF Message, FirstWait, OutStates
  <2>3. CASE i \notin S
    BY <1>4, <2>1, <2>3
  <2>. QED  BY <2>2, <2>3
<1>6. t \in Seq(Message) /\ Len(t) = Len(r) /\ DOMAIN t = 1 .. Len(r)
  BY <1>1, <1>4, <1>5
<1>. QED  BY <1>1, <1>2, <1>3, <1>5, <1>6 DEF r, t

\* The packets of the messages started: a PUBLISH of each, and no other.
LEMMA PacketsProperties ==
    ASSUME out_messages \in Seq(Message), NEW mid \in MidsOf(out_messages),
           NEW S \in SUBSET Startable(mid)
    PROVE  /\ \A w \in InOrder(S) :
                 /\ Packets(mid, w) \in Seq(Packet)
                 /\ \A k \in DOMAIN Packets(mid, w) :
                       /\ Packets(mid, w)[k].type = "PUBLISH"
                       /\ \E i \in S : Packets(mid, w)[k] = PublishOf(Rest(mid)[i])
           /\ \A i \in S : PublishOf(Rest(mid)[i]) \in Packet
<1>1. Rest(mid) \in Seq(Message)
  BY RestProperties
<1>2. S \in SUBSET (DOMAIN Rest(mid)) /\ S \in SUBSET Nat /\ IsFiniteSet(S)
  BY StartedProperties
<1>3. \A i \in S : Rest(mid)[i] \in Message
  BY <1>1, <1>2
<1>4. \A i \in S : /\ PublishOf(Rest(mid)[i]) \in Packet
                   /\ PublishOf(Rest(mid)[i]).type = "PUBLISH"
  BY <1>3 DEF PublishOf, Packet, Message
<1>5. Cardinality(S) \in Nat /\ \A w \in InOrder(S) : w \in [1 .. Cardinality(S) -> S]
  BY <1>2, FS_CardinalityType DEF InOrder, Bijection, Injection
<1>. QED  BY <1>4, <1>5 DEF Packets

-----------------------------------------------------------------------------
(* Every step is one that OutMessages allows.                              *)

\* An acknowledgement read answers a packet of this connection.
LEMMA ReadIsAllowed ==
    ASSUME Delivery, NEW types, NEW mid \in Mids, Read(types, mid)
    PROVE  /\ b2c # <<>> /\ b2c \in Seq(Acks)
           /\ Head(b2c) = b2c[1] /\ 1 \in DOMAIN b2c
           /\ types = {"PUBACK", "PUBCOMP"} => AckArrives(mid)
           /\ types = {"PUBREC"} => PubrecArrives(mid)
           /\ Taken(mid)
<1>1. b2c # <<>> /\ b2c \in Seq(Acks)
  BY DEF Read, Delivery, SessionTypeOK, Acks, AckTypes
<1>2. Head(b2c) = b2c[1] /\ 1 \in DOMAIN b2c
  BY <1>1, TailEntries
<1>3. b2c[1].mid = mid /\ b2c[1].type \in types /\ SocketValid
  BY <1>2 DEF Read
<1>4. PICK pkt \in sent : Answers(b2c[1], pkt)
  BY <1>2 DEF Delivery, Carried
<1>5. Taken(mid)
  BY <1>2, <1>3 DEF Delivery, Answered
<1>. QED  BY <1>1, <1>2, <1>3, <1>4, <1>5 DEF Answers, AckArrives,
   PubrecArrives

\* Each client step is a step of OutMessages, and the broker's are none.
LEMMA StepIsAllowed ==
    ASSUME Delivery, [SessionNext]_sessionVars
    PROVE  [Next]_vars
<1>1. ASSUME NEW p \in Publishers, Queue(p)  PROVE Next
  <2>1. \E q \in {1, 2} : PublishQueue(p, q)
    BY <1>1 DEF Queue
  <2>. QED  BY <2>1 DEF Next, Publish
<1>2. ASSUME NEW p \in Publishers, Send(p)  PROVE Next
  <2>1. PublishSend(p) \/ PublishSendFreed(p)
    BY <1>2 DEF Send
  <2>. QED  BY <2>1 DEF Next, Publish
<1>3. ASSUME NEW mid \in Mids, ReadPubackcomp(mid)  PROVE [Next]_vars
  <2>1. AckArrives(mid)
    BY <1>3, ReadIsAllowed DEF ReadPubackcomp
  <2>2. \/ HandlePubackcomp(mid)
        \/ HandlePubackcompSendFails(mid)
        \/ UNCHANGED vars
    BY <1>3 DEF ReadPubackcomp
  <2>. QED  BY <2>1, <2>2 DEF Next, HandleAck
<1>4. ASSUME NEW mid \in Mids, ReadPubrec(mid)  PROVE Next
  <2>1. PubrecArrives(mid)
    BY <1>4, ReadIsAllowed DEF ReadPubrec
  <2>2. HandlePubrec(mid) \/ HandlePubrecUnknown(mid)
    BY <1>4 DEF ReadPubrec
  <2>. QED  BY <2>1, <2>2 DEF Next, HandleAck
<1>5. ASSUME NEW mid \in Mids, Retry(mid)  PROVE Next
  <2>1. RetryCheck({Position(out_messages, mid)}) /\ mid \in MidsOf(out_messages)
    BY <1>5 DEF Retry
  <2>2. {Position(out_messages, mid)} \in SUBSET DOMAIN out_messages
    BY <2>1, RestProperties DEF Delivery, Shapes
  <2>. QED  BY <2>1, <2>2 DEF Next
<1>6. ASSUME Break \/ Close \/ Reopen  PROVE Next
  BY <1>6 DEF Break, Close, Reopen, Next
<1>7. ASSUME BrokerPublish \/ BrokerPubrel \/ UNCHANGED sessionVars  PROVE UNCHANGED vars
  BY <1>7 DEF BrokerPublish, BrokerPubrel, sessionVars
<1>. QED  BY <1>1, <1>2, <1>3, <1>4, <1>5, <1>6, <1>7 DEF SessionNext

-----------------------------------------------------------------------------
(* The invariant, action by action.                                        *)

\* The initial state satisfies the invariant.
LEMMA DeliveryInit == SessionInit => Delivery
<1>. SUFFICES ASSUME SessionInit  PROVE Delivery
  OBVIOUS
<1>. USE DEF SessionInit, Init
<1>1. Shapes
  BY DEF Shapes, LinkStates, NoPacket, Message
<1>2. SessionTypeOK
  BY DEF SessionTypeOK, Packet, SocketValid, network
<1>3. Carried /\ Answered /\ AtLeastOnce
  BY DEF Carried, Answered, AtLeastOnce, NoPacket
<1>. QED  BY <1>1, <1>2, <1>3 DEF Delivery

\* A thread queues a message.
LEMMA DeliveryQueue ==
    ASSUME Delivery, NEW p \in Publishers, Queue(p)
    PROVE  Delivery'
<1>. USE DEF Delivery
<1>1. PICK q \in {1, 2} : /\ PublishQueue(p, q)
                          /\ qos' = [qos EXCEPT ![NextMid(last_mid)] = q]
  BY DEF Queue
<1>. DEFINE m == [mid |-> NextMid(last_mid), qos |-> q,
                  state |-> IF HasRoom(inflight_messages) THEN FirstWait(q) ELSE "invalid"]
<1>2. NextMid(last_mid) \in Mids
  BY DEF Shapes, NextMid, Mids
<1>3. /\ m \in Message /\ m.state # "wait_for_pubcomp"
      /\ PublishOf(m) \in Packet /\ PublishOf(m).type = "PUBLISH"
  BY <1>2 DEF Message, OutStates, FirstWait, PublishOf, Packet
<1>4. /\ out_messages' = Append(out_messages, m)
      /\ pending' = pending \/ pending' = [pending EXCEPT ![p] = PublishOf(m)]
      /\ last_mid' = NextMid(last_mid)
      /\ UNCHANGED <<link, sent, notified, c2b, b2c, stored, received>>
  BY <1>1 DEF PublishQueue, Queue, network, broker
<1>. HIDE DEF m
<1>5. Shapes'
  BY <1>2, <1>3, <1>4, AppendEntries DEF Shapes, Mids
<1>6. SessionTypeOK'
  BY <1>1, <1>2, <1>4 DEF SessionTypeOK, SocketValid, network
<1>7. Carried'
  BY <1>4 DEF Carried
<1>8. Answered'
  <2>1. \A t \in Publishers : pending'[t].type # "PUBREL"
    BY <1>3, <1>4 DEF Answered, Shapes
  <2>2. \A i \in DOMAIN out_messages' :
           \/ i \in DOMAIN out_messages /\ out_messages'[i] = out_messages[i]
           \/ out_messages'[i] = m
    BY <1>3, <1>4, AppendEntries DEF Shapes
  <2>. QED  BY <1>3, <1>4, <2>1, <2>2 DEF Answered, Taken
<1>9. AtLeastOnce'
  BY <1>4 DEF AtLeastOnce
<1>. QED  BY <1>5, <1>6, <1>7, <1>8, <1>9

\* A thread sends it.
LEMMA DeliverySend ==
    ASSUME Delivery, NEW p \in Publishers, Send(p)
    PROVE  Delivery'
<1>. USE DEF Delivery
<1>1. /\ pending[p] # NoPacket /\ pending[p] \in Packet /\ pending[p].type = "PUBLISH"
      /\ pending' = [pending EXCEPT ![p] = NoPacket]
      /\ UNCHANGED <<out_messages, last_mid, notified, b2c, stored, received, qos>>
  <2>1. /\ pending[p] # NoPacket
        /\ pending' = [pending EXCEPT ![p] = NoPacket]
        /\ UNCHANGED <<out_messages, last_mid, notified, b2c, stored, received, qos>>
    BY DEF Send, PublishSend, PublishSendFreed, broker
  <2>2. pending[p] \in Packet /\ pending[p].type # "PUBREL"
    BY <2>1 DEF Shapes, Answered
  <2>. QED  BY <2>1, <2>2 DEF Packet
<1>2. \/ /\ link' = link /\ sent' = sent /\ c2b' = c2b
      \/ /\ link = "up" /\ link' = "broken" /\ sent' = sent /\ c2b' = c2b
      \/ /\ link = "up" /\ link' = link /\ sent' = sent \cup {pending[p]}
         /\ c2b' = Append(c2b, pending[p])
  BY DEF Send, PublishSend, PublishSendFreed
<1>3. /\ c2b' \in Seq(Packet)
      /\ \A i \in DOMAIN c2b' : \/ i \in DOMAIN c2b /\ c2b'[i] = c2b[i]
                                \/ c2b'[i] = pending[p] /\ pending[p] \in sent'
      /\ sent \subseteq sent' /\ sent' \subseteq sent \cup {pending[p]}
  <2>1. c2b \in Seq(Packet)
    BY DEF SessionTypeOK
  <2>2. CASE c2b' = c2b /\ sent' = sent
    BY <2>1, <2>2
  <2>3. CASE sent' = sent \cup {pending[p]} /\ c2b' = Append(c2b, pending[p])
    BY <1>1, <2>1, <2>3, AppendEntries
  <2>. QED  BY <1>2, <2>2, <2>3
<1>4. Shapes'
  BY <1>1, <1>2, <1>3 DEF Shapes, LinkStates
<1>5. SessionTypeOK'
  BY <1>1, <1>2, <1>3 DEF SessionTypeOK, SocketValid, network
<1>6. Carried'
  BY <1>1, <1>3 DEF Carried
<1>7. Answered'
  <2>1. \A t \in Publishers : pending'[t].type # "PUBREL"
    BY <1>1 DEF Answered, NoPacket, Shapes
  <2>. QED  BY <1>1, <1>3, <2>1 DEF Answered, Taken
<1>8. AtLeastOnce'
  BY <1>1 DEF AtLeastOnce
<1>. QED  BY <1>4, <1>5, <1>6, <1>7, <1>8

\* The client handles a PUBACK or PUBCOMP.
LEMMA DeliveryPubackcomp ==
    ASSUME Delivery, NEW mid \in Mids, ReadPubackcomp(mid)
    PROVE  Delivery'
<1>. USE DEF Delivery
<1>1. /\ Read({"PUBACK", "PUBCOMP"}, mid)
      /\ b2c' = Tail(b2c)
      /\ UNCHANGED <<stored, received, qos, prompt>>
  BY DEF ReadPubackcomp, broker
<1>2. Taken(mid) /\ SocketValid /\ b2c # <<>> /\ b2c \in Seq(Acks)
  BY <1>1, ReadIsAllowed DEF Read
<1>3. /\ b2c' \in Seq(Acks) /\ Len(b2c') <= MaxAcks
      /\ \A i \in DOMAIN b2c' : i + 1 \in DOMAIN b2c /\ b2c'[i] = b2c[i + 1]
  BY <1>1, <1>2, TailEntries DEF SessionTypeOK
<1>4. CASE UNCHANGED <<vars, c2b>>
  <2>. USE <1>4 DEF vars
  <2>1. Shapes' /\ AtLeastOnce'
    BY <1>1 DEF Shapes, AtLeastOnce
  <2>2. SessionTypeOK'
    BY <1>1, <1>2, <1>3 DEF SessionTypeOK, SocketValid, network, Acks,
       AckTypes
  <2>3. Carried' /\ Answered'
    BY <1>1, <1>3 DEF Carried, Answered, Taken
  <2>. QED  BY <2>1, <2>2, <2>3
<1>5. ASSUME mid \in MidsOf(out_messages),
             NEW S \in SUBSET Startable(mid), NEW W \in SUBSET S,
             RemoveAndStart(mid, S, W),
             c2b' = c2b \/ (W = S /\ \E w \in InOrder(S) : c2b' = c2b \o Packets(mid, w)),
             link' = link \/ link' = "broken",
             notified' = [notified EXCEPT ![mid] = @ + 1] \/ notified' = notified
      PROVE  Delivery'
  <2>1. /\ Rest(mid) \in Seq(Message)
        /\ \A i \in DOMAIN Rest(mid) :
              \E j \in DOMAIN out_messages : Rest(mid)[i] = out_messages[j]
    BY <1>5, RestProperties DEF Shapes
  <2>2. /\ out_messages' \in Seq(Message)
        /\ \A i \in DOMAIN out_messages' :
              out_messages'[i].state = "wait_for_pubcomp" =>
                  i \in DOMAIN Rest(mid) /\ out_messages'[i] = Rest(mid)[i]
    BY <1>5, StartedProperties DEF RemoveAndStart, Shapes
  <2>3. /\ sent' = sent \cup {PublishOf(Rest(mid)[i]) : i \in W}
        /\ UNCHANGED <<last_mid, pending>>
    BY <1>5 DEF RemoveAndStart
  <2>4. /\ \A w \in InOrder(S) :
              /\ Packets(mid, w) \in Seq(Packet)
              /\ \A k \in DOMAIN Packets(mid, w) :
                    /\ Packets(mid, w)[k].type = "PUBLISH"
                    /\ \E i \in S : Packets(mid, w)[k] = PublishOf(Rest(mid)[i])
        /\ \A i \in S : PublishOf(Rest(mid)[i]) \in Packet
    BY <1>5, PacketsProperties DEF Shapes
  <2>5. /\ c2b' \in Seq(Packet)
        /\ \A i \in DOMAIN c2b' : \/ i \in DOMAIN c2b /\ c2b'[i] = c2b[i]
                                  \/ c2b'[i].type = "PUBLISH" /\ c2b'[i] \in sent'
    <3>1. CASE c2b' = c2b
      BY <3>1 DEF SessionTypeOK
    <3>2. ASSUME W = S, NEW w \in InOrder(S), c2b' = c2b \o Packets(mid, w)
          PROVE  /\ c2b' \in Seq(Packet)
                 /\ \A i \in DOMAIN c2b' :
                       \/ i \in DOMAIN c2b /\ c2b'[i] = c2b[i]
                       \/ c2b'[i].type = "PUBLISH" /\ c2b'[i] \in sent'
      <4>1. /\ c2b' \in Seq(Packet)
            /\ \A i \in DOMAIN c2b' : \/ i \in DOMAIN c2b /\ c2b'[i] = c2b[i]
                                      \/ \E k \in DOMAIN Packets(mid, w) : c2b'[i] = Packets(mid, w)[k]
        BY <3>2, <2>4, ConcatEntries DEF SessionTypeOK
      <4>. QED  BY <2>3, <2>4, <3>2, <4>1
    <3>. QED  BY <1>5, <3>1, <3>2
  <2>6. Shapes'
    BY <1>5, <2>2, <2>3, <2>4 DEF Shapes, LinkStates
  <2>7. SessionTypeOK'
    <3>1. SocketValid'
      BY <1>2, <1>5 DEF SocketValid
    <3>. QED
      BY <1>1, <1>3, <2>5, <3>1 DEF SessionTypeOK, Acks, AckTypes
  <2>8. Carried'
    <3>1. sent \subseteq sent'
      BY <2>3
    <3>2. \A pkt \in sent' : pkt.type = "PUBREL" => pkt.qos = 1
      BY <2>3 DEF Carried, PublishOf
    <3>. QED  BY <1>3, <2>5, <3>1, <3>2 DEF Carried
  <2>9. Answered'
    <3>1. \A i \in DOMAIN out_messages' :
             out_messages'[i].state = "wait_for_pubcomp" => Taken(out_messages'[i].mid)
      BY <2>1, <2>2 DEF Answered
    <3>. QED  BY <1>1, <1>3, <2>3, <2>5, <3>1 DEF Answered, Taken
  <2>10. AtLeastOnce'
    BY <1>1, <1>2, <1>5 DEF AtLeastOnce, Taken, Shapes
  <2>. QED  BY <2>6, <2>7, <2>8, <2>9, <2>10
<1>6. CASE /\ HandlePubackcomp(mid)
           /\ \E w \in InOrder(Startable(mid)) : c2b' = c2b \o Packets(mid, w)
  BY <1>5, <1>6 DEF HandlePubackcomp
<1>7. CASE HandlePubackcompSendFails(mid) /\ UNCHANGED c2b
  <2>1. PICK last \in Startable(mid) :
           LET S == {i \in Startable(mid) : i <= last}
           IN  RemoveAndStart(mid, S, S \ {last})
    BY <1>7 DEF HandlePubackcompSendFails
  <2>. QED  BY <1>5, <1>7, <2>1 DEF HandlePubackcompSendFails
<1>. QED  BY <1>4, <1>6, <1>7 DEF ReadPubackcomp

\* The client handles a PUBREC.
LEMMA DeliveryPubrec ==
    ASSUME Delivery, NEW mid \in Mids, ReadPubrec(mid)
    PROVE  Delivery'
<1>. USE DEF Delivery
<1>1. Read({"PUBREC"}, mid) /\ UNCHANGED <<stored, received, qos>>
  BY DEF ReadPubrec, broker
<1>2. Taken(mid) /\ SocketValid /\ b2c # <<>> /\ b2c \in Seq(Acks)
  BY <1>1, ReadIsAllowed DEF Read
<1>3. /\ Tail(b2c) \in Seq(Acks) /\ Len(Tail(b2c)) <= MaxAcks
      /\ \A i \in DOMAIN Tail(b2c) : i + 1 \in DOMAIN b2c /\ Tail(b2c)[i] = b2c[i + 1]
  BY <1>2, TailEntries DEF SessionTypeOK
<1>4. PubrelOf(mid) \in Packet /\ PubrelOf(mid).mid = mid /\ PubrelOf(mid).qos = 1
  BY DEF PubrelOf, Packet
<1>5. UNCHANGED <<last_mid, pending, notified>>
  BY DEF ReadPubrec, HandlePubrec, HandlePubrecUnknown
<1>6. /\ out_messages' \in Seq(Message)
      /\ \A i \in DOMAIN out_messages' :
            \/ i \in DOMAIN out_messages /\ out_messages'[i] = out_messages[i]
            \/ out_messages'[i].mid = mid
  <2>1. CASE HandlePubrec(mid)
    <3>1. mid \in MidsOf(out_messages)
      BY <2>1 DEF HandlePubrec
    <3>. DEFINE pos == Position(out_messages, mid)
    <3>2. pos \in DOMAIN out_messages /\ out_messages[pos].mid = mid
      BY <3>1, RestProperties DEF Shapes
    <3>3. out_messages' = [out_messages EXCEPT ![pos].state = "wait_for_pubcomp"]
      BY <2>1 DEF HandlePubrec
    <3>. HIDE DEF pos
    <3>4. out_messages \in Seq(Message)
      BY DEF Shapes
    <3>5. out_messages[pos] \in Message
      BY <3>2, <3>4
    <3>6. [out_messages[pos] EXCEPT !.state = "wait_for_pubcomp"] \in Message
      BY <3>5 DEF Message, OutStates
    <3>. QED  BY <3>2, <3>3, <3>4, <3>5, <3>6
  <2>2. CASE HandlePubrecUnknown(mid)
    BY <2>2 DEF HandlePubrecUnknown, Shapes
  <2>. QED  BY <2>1, <2>2 DEF ReadPubrec
<1>7. \/ /\ link = "up" /\ link' = "up" /\ sent' = sent \cup {PubrelOf(mid)}
         /\ c2b' = Append(c2b, PubrelOf(mid)) /\ b2c' = Tail(b2c)
      \/ /\ link' \in {"closed", "stopped"} /\ sent' = sent
         /\ c2b' = <<>> /\ b2c' = <<>>
  <2>1. CASE HandlePubrec(mid) /\ link' = "up"
    BY <2>1 DEF ReadPubrec, HandlePubrec, HandlePubrecUnknown
  <2>2. CASE HandlePubrec(mid) /\ link' = "closed"
    BY <2>2 DEF ReadPubrec, HandlePubrec, HandlePubrecUnknown, CutOff
  <2>3. CASE HandlePubrecUnknown(mid)
    BY <2>3 DEF ReadPubrec, HandlePubrec, HandlePubrecUnknown, CutOff
  <2>. QED  BY <2>1, <2>2, <2>3 DEF ReadPubrec
<1>8. /\ c2b' \in Seq(Packet) /\ b2c' \in Seq(Acks) /\ Len(b2c') <= MaxAcks
      /\ \A i \in DOMAIN c2b' : \/ i \in DOMAIN c2b /\ c2b'[i] = c2b[i]
                                \/ c2b'[i] = PubrelOf(mid) /\ PubrelOf(mid) \in sent'
      /\ \A i \in DOMAIN b2c' : i + 1 \in DOMAIN b2c /\ b2c'[i] = b2c[i + 1]
      /\ sent \subseteq sent' /\ sent' \subseteq sent \cup {PubrelOf(mid)}
      /\ link' \in LinkStates
      /\ ~ SocketValid' => c2b' = <<>> /\ b2c' = <<>>
  <2>1. c2b \in Seq(Packet)
    BY DEF SessionTypeOK
  <2>2. CASE /\ link = "up" /\ link' = "up" /\ sent' = sent \cup {PubrelOf(mid)}
             /\ c2b' = Append(c2b, PubrelOf(mid)) /\ b2c' = Tail(b2c)
    BY <1>3, <1>4, <2>1, <2>2, AppendEntries DEF LinkStates, SocketValid
  <2>3. CASE /\ link' \in {"closed", "stopped"} /\ sent' = sent
             /\ c2b' = <<>> /\ b2c' = <<>>
    BY <2>3 DEF LinkStates, SocketValid
  <2>. QED  BY <1>7, <2>2, <2>3
<1>9. Shapes'
  BY <1>4, <1>5, <1>6, <1>8 DEF Shapes
<1>10. SessionTypeOK'
  BY <1>1, <1>8 DEF SessionTypeOK, network, Acks, AckTypes
<1>11. Carried'
  BY <1>4, <1>8 DEF Carried
<1>12. Answered'
  <2>1. \A i \in DOMAIN out_messages' :
           out_messages'[i].state = "wait_for_pubcomp" => Taken(out_messages'[i].mid)
    BY <1>2, <1>6 DEF Answered
  <2>. QED  BY <1>1, <1>2, <1>4, <1>5, <1>8, <2>1 DEF Answered, Taken
<1>13. AtLeastOnce'
  BY <1>1, <1>5 DEF AtLeastOnce
<1>. QED  BY <1>9, <1>10, <1>11, <1>12, <1>13

\* The client sends a message again.
LEMMA DeliveryRetry ==
    ASSUME Delivery, NEW mid \in Mids, Retry(mid)
    PROVE  Delivery'
<1>. USE DEF Delivery
<1>. DEFINE pos == Position(out_messages, mid)
            again == ResendOf(out_messages[pos])
<1>1. /\ mid \in MidsOf(out_messages) /\ link = "up"
      /\ sent' = sent \cup {ResendOf(out_messages[i]) : i \in {pos}}
      /\ c2b' = Append(c2b, again)
      /\ UNCHANGED <<out_messages, last_mid, link, pending, notified>>
      /\ UNCHANGED <<b2c, stored, received, qos>>
  BY DEF Retry, RetryCheck, broker
<1>2. out_messages[pos] \in Message /\ pos \in DOMAIN out_messages
  BY <1>1, RestProperties DEF Shapes
<1>3. /\ again \in Packet
      /\ again.type = "PUBREL" => again.qos = 1 /\ Taken(again.mid)
  BY <1>2 DEF ResendOf, PubrelOf, PublishOf, Packet, Message, Answered
<1>4. sent' = sent \cup {again}
  BY <1>1
<1>. HIDE DEF again
<1>5. /\ c2b' \in Seq(Packet)
      /\ \A i \in DOMAIN c2b' : \/ i \in DOMAIN c2b /\ c2b'[i] = c2b[i]
                                \/ c2b'[i] = again
  BY <1>1, <1>3, AppendEntries DEF SessionTypeOK
<1>6. Shapes'
  BY <1>1, <1>3, <1>4 DEF Shapes
<1>7. SessionTypeOK'
  BY <1>1, <1>5 DEF SessionTypeOK, SocketValid, network
<1>8. Carried' /\ Answered' /\ AtLeastOnce'
  BY <1>1, <1>3, <1>4, <1>5 DEF Carried, Answered, AtLeastOnce, Taken
<1>. QED  BY <1>6, <1>7, <1>8

\* The connection breaks, is closed, and opened again.
LEMMA DeliveryConnection ==
    ASSUME Delivery, Break \/ Close \/ Reopen
    PROVE  Delivery'
<1>. USE DEF Delivery
<1>1. UNCHANGED <<last_mid, pending, notified, stored, received, qos>>
  BY DEF Break, Close, Reopen, LinkBreaks, SocketClose, Reconnect,
     SocketConnect, broker
<1>2. CASE Break
  <2>1. /\ link' = "broken" /\ link = "up"
        /\ UNCHANGED <<out_messages, sent, c2b, b2c>>
    BY <1>2 DEF Break, LinkBreaks, network
  <2>2. Shapes' /\ SessionTypeOK'
    BY <1>1, <2>1 DEF Shapes, LinkStates, SessionTypeOK, SocketValid, network
  <2>. QED  BY <1>1, <2>1, <2>2 DEF Carried, Answered, AtLeastOnce, Taken
<1>3. CASE Close
  <2>1. /\ link' = "closed" /\ c2b' = <<>> /\ b2c' = <<>>
        /\ UNCHANGED <<out_messages, sent>>
    BY <1>3 DEF Close, SocketClose, CutOff
  <2>2. Shapes' /\ SessionTypeOK'
    BY <1>1, <2>1 DEF Shapes, LinkStates, SessionTypeOK, SocketValid, network
  <2>. QED  BY <1>1, <2>1, <2>2 DEF Carried, Answered, AtLeastOnce, Taken
<1>4. CASE Reopen /\ Reconnect
  <2>1. /\ link' = "connecting" /\ sent' = {} /\ c2b' = <<>> /\ b2c' = <<>>
        /\ out_messages' = ReconnectReset(out_messages)
    BY <1>4 DEF Reopen, Reconnect, SessionTypeOK, SocketValid, network
  <2>2. out_messages' \in Seq(Message)
    BY <2>1, MessageIsEntry, ResetProperties DEF Shapes
  <2>3. \A i \in DOMAIN out_messages' :
           /\ i \in DOMAIN out_messages
           /\ out_messages'[i].state = "wait_for_pubcomp" => out_messages'[i] = out_messages[i]
    <3>1. out_messages \in Seq(Message)
      BY DEF Shapes
    <3>2. out_messages' = [i \in DOMAIN out_messages |->
                              [out_messages[i] EXCEPT !.state = ResetState(out_messages[i], i)]]
      BY <2>1 DEF ReconnectReset
    <3>. SUFFICES ASSUME NEW i \in DOMAIN out_messages,
                         out_messages'[i].state = "wait_for_pubcomp"
                  PROVE  out_messages'[i] = out_messages[i]
      BY <3>2
    <3>3. out_messages[i] \in Message
      BY <3>1
    <3>4. out_messages'[i] = [out_messages[i] EXCEPT !.state = ResetState(out_messages[i], i)]
      BY <3>2
    <3>5. ResetState(out_messages[i], i) = "wait_for_pubcomp"
      BY <3>3, <3>4 DEF Message
    <3>6. ResetState(out_messages[i], i) = out_messages[i].state
      BY <3>5 DEF ResetState
    <3>. QED  BY <3>3, <3>4, <3>6 DEF Message
  <2>4. Shapes' /\ SessionTypeOK'
    BY <1>1, <2>1, <2>2 DEF Shapes, LinkStates, SessionTypeOK, SocketValid,
       network
  <2>5. Carried'
    BY <2>1 DEF Carried
  <2>6. Answered'
    BY <1>1, <2>1, <2>3 DEF Answered, Taken
  <2>. QED  BY <1>1, <2>4, <2>5, <2>6 DEF AtLeastOnce
<1>5. CASE Reopen /\ SocketConnect
  <2>1. /\ link = "connecting" /\ link' \in {"up", "closed"}
        /\ UNCHANGED <<out_messages, sent, c2b, b2c>>
    BY <1>5 DEF Reopen, SocketConnect, network
  <2>2. Shapes' /\ SessionTypeOK'
    BY <1>1, <2>1 DEF Shapes, LinkStates, SessionTypeOK, SocketValid, network
  <2>. QED  BY <1>1, <2>1, <2>2 DEF Carried, Answered, AtLeastOnce, Taken
<1>. QED  BY <1>2, <1>3, <1>4, <1>5 DEF Reopen

\* The broker takes a PUBLISH.
LEMMA DeliveryBrokerPublish ==
    ASSUME Delivery, BrokerPublish
    PROVE  Delivery'
<1>. USE DEF Delivery
<1>. DEFINE pkt == Head(c2b)
            new == pkt.qos = 1 \/ pkt.mid \notin stored
            ack == Ack(IF pkt.qos = 1 THEN "PUBACK" ELSE "PUBREC", pkt.mid)
<1>1. /\ c2b # <<>> /\ pkt.type = "PUBLISH" /\ Len(b2c) < MaxAcks
      /\ received' = [received EXCEPT ![pkt.mid] = @ + (IF new THEN 1 ELSE 0)]
      /\ stored' = IF pkt.qos = 2 THEN stored \cup {pkt.mid} ELSE stored
      /\ b2c' = Append(b2c, ack)
      /\ c2b' = Tail(c2b)
      /\ UNCHANGED vars /\ qos' = qos
  BY DEF BrokerPublish
<1>2. /\ pkt \in Packet /\ pkt = c2b[1] /\ 1 \in DOMAIN c2b
      /\ c2b' \in Seq(Packet)
      /\ \A i \in DOMAIN c2b' : i + 1 \in DOMAIN c2b /\ c2b'[i] = c2b[i + 1]
  BY <1>1, TailEntries DEF SessionTypeOK
<1>3. pkt \in sent /\ pkt.mid \in Mids /\ pkt.qos \in {1, 2}
  BY <1>2 DEF Carried, Packet
<1>4. ack \in Acks /\ ack.mid = pkt.mid /\ Answers(ack, pkt)
  BY <1>1, <1>3 DEF Ack, Acks, AckTypes, Answers
<1>. HIDE DEF ack
<1>5. received' \in [Mids -> Nat] /\ \A mid \in Mids : received[mid] > 0 => received'[mid] > 0
  BY <1>1, <1>3 DEF SessionTypeOK, Taken
<1>6. received'[pkt.mid] > 0
  <2>1. received[pkt.mid] \in Nat /\ received'[pkt.mid] = received[pkt.mid] + (IF new THEN 1 ELSE 0)
    BY <1>1, <1>3 DEF SessionTypeOK
  <2>2. CASE new
    <3>1. received'[pkt.mid] = received[pkt.mid] + 1
      BY <2>1, <2>2
    <3>. QED  BY <2>1, <3>1 DEF Taken
  <2>3. CASE ~ new
    <3>1. received'[pkt.mid] = received[pkt.mid]
      BY <2>1, <2>3
    <3>2. received[pkt.mid] > 0
      BY <2>3 DEF Answered, Taken
    <3>. QED  BY <3>1, <3>2 DEF Taken
  <2>. QED  BY <2>2, <2>3
<1>. HIDE DEF pkt, new
<1>7. /\ b2c' \in Seq(Acks) /\ Len(b2c') <= MaxAcks
      /\ \A i \in DOMAIN b2c' : \/ i \in DOMAIN b2c /\ b2c'[i] = b2c[i]
                                \/ b2c'[i] = ack
  BY <1>1, <1>4, AppendEntries DEF SessionTypeOK, Acks, AckTypes
<1>8. Shapes'
  BY <1>1 DEF Shapes, vars
<1>9. SessionTypeOK'
  <2>1. SocketValid'
    BY <1>1 DEF SessionTypeOK, SocketValid, network, vars
  <2>2. stored' \subseteq Mids
    BY <1>1, <1>3 DEF SessionTypeOK
  <2>. QED  BY <1>1, <1>2, <1>5, <1>7, <2>1, <2>2 DEF SessionTypeOK, Acks,
     AckTypes
<1>10. Carried'
  <2>1. sent' = sent
    BY <1>1 DEF vars
  <2>. QED  BY <1>2, <1>3, <1>4, <1>7, <2>1 DEF Carried
<1>11. Answered'
  <2>1. UNCHANGED <<pending, out_messages>>
    BY <1>1 DEF vars
  <2>2. \A i \in DOMAIN out_messages : out_messages[i].mid \in Mids
    <3>1. \A i \in DOMAIN out_messages : out_messages[i] \in Message
      BY DEF Shapes
    <3>. QED  BY <3>1 DEF Message
  <2>3. \A i \in DOMAIN c2b : c2b[i].mid \in Mids
    BY DEF Carried, Shapes, Packet
  <2>4. \A i \in DOMAIN b2c : b2c[i].mid \in Mids
    <3>1. b2c \in Seq(Acks)
      BY DEF SessionTypeOK, Acks, AckTypes
    <3>2. \A i \in DOMAIN b2c : b2c[i] \in Acks
      BY <3>1
    <3>. QED  BY <3>2 DEF Acks
  <2>5. \A mid \in stored' : received'[mid] > 0
    <3>1. \A mid \in stored : received'[mid] > 0
      BY <1>5 DEF Answered, SessionTypeOK, Taken
    <3>2. stored' \subseteq stored \cup {pkt.mid}
      BY <1>1
    <3>. QED  BY <1>6, <3>1, <3>2
  <2>6. \A i \in DOMAIN out_messages' :
           out_messages'[i].state = "wait_for_pubcomp" => received'[out_messages'[i].mid] > 0
    BY <1>5, <2>1, <2>2 DEF Answered, Taken
  <2>7. \A i \in DOMAIN c2b' : c2b'[i].type = "PUBREL" => received'[c2b'[i].mid] > 0
    BY <1>2, <1>5, <2>3 DEF Answered, Taken
  <2>8. \A i \in DOMAIN b2c' : received'[b2c'[i].mid] > 0
    BY <1>4, <1>5, <1>6, <1>7, <2>4 DEF Answered, Taken
  <2>. QED  BY <2>1, <2>5, <2>6, <2>7, <2>8 DEF Answered, Taken
<1>12. AtLeastOnce'
  BY <1>1, <1>5 DEF AtLeastOnce, Taken, vars
<1>. QED  BY <1>8, <1>9, <1>10, <1>11, <1>12

\* The broker takes a PUBREL.
LEMMA DeliveryBrokerPubrel ==
    ASSUME Delivery, BrokerPubrel
    PROVE  Delivery'
<1>. USE DEF Delivery
<1>. DEFINE pkt == Head(c2b)
            ack == Ack("PUBCOMP", pkt.mid)
<1>1. /\ c2b # <<>> /\ pkt.type = "PUBREL" /\ Len(b2c) < MaxAcks
      /\ stored' = stored \ {pkt.mid}
      /\ b2c' = Append(b2c, ack)
      /\ c2b' = Tail(c2b)
      /\ UNCHANGED vars /\ received' = received /\ qos' = qos
  BY DEF BrokerPubrel
<1>2. /\ pkt \in Packet /\ pkt = c2b[1] /\ 1 \in DOMAIN c2b
      /\ c2b' \in Seq(Packet)
      /\ \A i \in DOMAIN c2b' : i + 1 \in DOMAIN c2b /\ c2b'[i] = c2b[i + 1]
  BY <1>1, TailEntries DEF SessionTypeOK
<1>3. pkt \in sent /\ pkt.mid \in Mids /\ pkt.qos = 1
  BY <1>1, <1>2 DEF Carried, Packet
<1>4. /\ ack \in Acks /\ ack.mid = pkt.mid /\ Answers(ack, pkt)
      /\ Taken(ack.mid)
  BY <1>1, <1>2, <1>3 DEF Ack, Acks, AckTypes, Answers, Answered
<1>. HIDE DEF ack, pkt
<1>5. /\ b2c' \in Seq(Acks) /\ Len(b2c') <= MaxAcks
      /\ \A i \in DOMAIN b2c' : \/ i \in DOMAIN b2c /\ b2c'[i] = b2c[i]
                                \/ b2c'[i] = ack
  BY <1>1, <1>4, AppendEntries DEF SessionTypeOK, Acks, AckTypes
<1>6. Shapes'
  BY <1>1 DEF Shapes, vars
<1>7. SessionTypeOK'
  <2>1. SocketValid'
    BY <1>1 DEF SessionTypeOK, SocketValid, network, vars
  <2>. QED  BY <1>1, <1>2, <1>5, <2>1 DEF SessionTypeOK, Acks, AckTypes
<1>8. Carried'
  <2>1. sent' = sent
    BY <1>1 DEF vars
  <2>. QED  BY <1>2, <1>3, <1>4, <1>5, <2>1 DEF Carried
<1>9. Answered'
  BY <1>1, <1>2, <1>4, <1>5 DEF Answered, Taken, vars
<1>10. AtLeastOnce'
  BY <1>1 DEF AtLeastOnce, vars
<1>. QED  BY <1>6, <1>7, <1>8, <1>9, <1>10

\* The invariant holds after every step.
LEMMA DeliveryStep ==
    ASSUME Delivery, [SessionNext]_sessionVars
    PROVE  Delivery'
<1>1. ASSUME UNCHANGED sessionVars  PROVE Delivery'
  BY <1>1 DEF sessionVars, vars, network, broker, Delivery, Shapes,
     SessionTypeOK, SocketValid, Carried, Answered, Taken, AtLeastOnce
<1>. QED
  BY <1>1, DeliveryQueue, DeliverySend, DeliveryPubackcomp, DeliveryPubrec,
     DeliveryRetry, DeliveryConnection, DeliveryBrokerPublish,
     DeliveryBrokerPubrel DEF SessionNext

\* Every reachable state satisfies the invariant.
THEOREM Delivered == SessionSpec => []Delivery
<1>1. Delivery /\ [SessionNext]_sessionVars => Delivery'
  BY DeliveryStep
<1>. QED  BY <1>1, DeliveryInit, PTL DEF SessionSpec

\* The packets under way are well formed, and only while the socket is valid.
THEOREM SessionTyped == SessionSpec => []SessionTypeOK
<1>1. Delivery => SessionTypeOK
  BY DEF Delivery
<1>. QED  BY <1>1, Delivered, PTL

\* The client joined to a FIFO connection and a broker that follows MQTT does
\* nothing that OutMessages does not allow, so that what is proved of
\* OutMessages holds here too.
THEOREM Refinement == SessionSpec => ImplementsOutMessages
<1>1. SessionInit => Init
  BY DEF SessionInit
<1>2. Delivery /\ [SessionNext]_sessionVars => [Next]_vars
  BY StepIsAllowed
<1>. QED  BY <1>1, <1>2, Delivered, PTL DEF SessionSpec,
   ImplementsOutMessages, Spec

\* on_publish says of a message of QoS 1 or 2 only what is true: the broker has
\* it, whatever was lost, repeated or overtaken, and however often mids wrap.
THEOREM DeliveredAtLeastOnce == SessionSpec => []AtLeastOnce
<1>1. Delivery => AtLeastOnce
  BY DEF Delivery
<1>. QED  BY <1>1, Delivered, PTL

-----------------------------------------------------------------------------
(* QoS 2.                                                                  *)

\* The window never fills.  Otherwise mosquitto_reconnect starts a message of
\* QoS 2 over that the broker has released already, and delivers it twice.
WindowNeverFills == MaxInflight = 0 \/ MaxPublish < MaxInflight

\* So no message is held back, and the count is the length of the list.
RoomForAll ==
    /\ HeldBack(out_messages) = {}
    /\ inflight_messages = Len(out_messages)
    /\ Len(out_messages) <= published

\* Packets carry the QoS of their message, and mids to come are unused.
QosKept ==
    /\ \A i \in DOMAIN out_messages :
          /\ out_messages[i].qos = qos[out_messages[i].mid]
          /\ out_messages[i].state = "wait_for_puback" => out_messages[i].qos = 1
          /\ out_messages[i].state = "wait_for_pubrec" => out_messages[i].qos = 2
    /\ \A p \in Publishers : pending[p] # NoPacket => pending[p].qos = qos[pending[p].mid]
    /\ \A i \in DOMAIN c2b : c2b[i].type = "PUBLISH" => c2b[i].qos = qos[c2b[i].mid]
    /\ \A mid \in Mids : mid > last_mid => received[mid] = 0

\* A message the broker has taken, and the PUBLISH of which is on its way or
\* can still be sent, is one that it still knows: the PUBLISH never follows the
\* PUBREL on which the broker forgets the mid.
Publishing(pkt) == pkt.type = "PUBLISH" /\ pkt.qos = 2

Once ==
    /\ \A p \in Publishers :
          pending[p] # NoPacket =>
              \E i \in DOMAIN out_messages : /\ pending[p] = PublishOf(out_messages[i])
                                             /\ out_messages[i].state # "wait_for_pubcomp"
    /\ \A i \in DOMAIN c2b :
          Publishing(c2b[i]) /\ received[c2b[i].mid] > 0 => c2b[i].mid \in stored
    /\ \A i, j \in DOMAIN c2b :
          i < j /\ c2b[i].type = "PUBREL" /\ Publishing(c2b[j]) => c2b[i].mid # c2b[j].mid
    /\ \A i \in DOMAIN out_messages :
          out_messages[i].state = "wait_for_pubrec" =>
              /\ received[out_messages[i].mid] > 0 => out_messages[i].mid \in stored
              /\ \A j \in DOMAIN c2b : c2b[j].type = "PUBREL" => c2b[j].mid # out_messages[i].mid
    /\ \A mid \in Mids : qos[mid] = 2 => received[mid] <= 1

\* The inductive invariant, with IInv and Delivery.
OnceInv == RoomForAll /\ QosKept /\ (prompt => Once)

\* What the invariants say of the entries of the list and of the packets.
LEMMA InUse ==
    ASSUME IInv, Delivery, RoomForAll
    PROVE  /\ \A i \in DOMAIN out_messages :
                 /\ out_messages[i] \in Message /\ out_messages[i].mid \in Mids
                 /\ out_messages[i].mid <= last_mid
                 /\ out_messages[i].state # "invalid"
           /\ \A p \in Publishers :
                 pending[p] # NoPacket => /\ pending[p] \in Packet /\ pending[p].mid \in Mids
                                          /\ pending[p].mid <= last_mid
                                          /\ pending[p].type = "PUBLISH"
           /\ \A i \in DOMAIN c2b :
                 c2b[i] \in Packet /\ c2b[i].mid \in Mids /\ c2b[i].mid <= last_mid
<1>. USE DEF IInv, Delivery, Shapes
<1>1. ASSUME NEW i \in DOMAIN out_messages
      PROVE  /\ out_messages[i] \in Message /\ out_messages[i].mid \in Mids
             /\ out_messages[i].mid <= last_mid
             /\ out_messages[i].state # "invalid"
  <2>1. out_messages[i] \in Message
    OBVIOUS
  <2>2. out_messages[i].mid \in Mids
    BY <2>1 DEF Message
  <2>3. out_messages[i].mid \in MidsOf(out_messages)
    BY DEF MidsOf
  <2>. QED  BY <2>1, <2>2, <2>3 DEF MidsGenerated, RoomForAll, HeldBack
<1>2. ASSUME NEW p \in Publishers, pending[p] # NoPacket
      PROVE  /\ pending[p] \in Packet /\ pending[p].mid \in Mids
             /\ pending[p].mid <= last_mid
             /\ pending[p].type = "PUBLISH"
  <2>1. pending[p] \in Packet
    BY <1>2
  <2>. QED  BY <2>1 DEF Packet, MidsGenerated, Answered
<1>3. ASSUME NEW i \in DOMAIN c2b
      PROVE  c2b[i] \in Packet /\ c2b[i].mid \in Mids /\ c2b[i].mid <= last_mid
  <2>1. c2b[i] \in sent
    BY DEF Carried
  <2>. QED  BY <2>1 DEF Packet, MidsGenerated
<1>. QED  BY <1>1, <1>2, <1>3

\* The initial state satisfies the invariant.
LEMMA OnceInit == SessionInit => OnceInv
<1>. SUFFICES ASSUME SessionInit  PROVE OnceInv
  OBVIOUS
<1>. USE DEF SessionInit, Init
<1>1. RoomForAll
  BY DEF RoomForAll, HeldBack
<1>2. QosKept /\ Once
  BY DEF QosKept, Once, NoPacket
<1>. QED  BY <1>1, <1>2 DEF OnceInv

\* A message queued has a mid that nothing bears yet.
LEMMA OnceQueue ==
    ASSUME NoWrap, WindowNeverFills, IInv, Delivery, OnceInv, NEW p \in Publishers, Queue(p)
    PROVE  OnceInv'
<1>. USE DEF OnceInv
<1>. DEFINE mid == last_mid + 1
<1>1. PICK q \in {1, 2} : /\ PublishQueue(p, q)
                          /\ qos' = [qos EXCEPT ![NextMid(last_mid)] = q]
  BY DEF Queue
<1>2. /\ published < MaxPublish /\ published \in Nat
      /\ NextMid(last_mid) = mid /\ mid \in Mids /\ last_mid \in Nat
  BY <1>1 DEF PublishQueue, IInv, TypeOK, MidsGenerated, NextMid, Mids, NoWrap
<1>3. HasRoom(inflight_messages)
  <2>1. inflight_messages \in Nat /\ inflight_messages <= published
    BY DEF IInv, TypeOK, RoomForAll
  <2>. QED  BY <1>2, <2>1 DEF HasRoom, WindowNeverFills
<1>. DEFINE m == [mid |-> mid, qos |-> q, state |-> FirstWait(q)]
<1>4. /\ out_messages' = Append(out_messages, m)
      /\ inflight_messages' = inflight_messages + 1
      /\ pending' = [pending EXCEPT ![p] = PublishOf(m)]
      /\ last_mid' = mid
      /\ published' = published + 1
      /\ qos' = [qos EXCEPT ![mid] = q]
      /\ UNCHANGED <<c2b, stored, received, prompt>>
  BY <1>1, <1>2, <1>3 DEF PublishQueue, Queue, network, broker
<1>5. /\ m \in Message /\ m.mid = mid /\ m.qos = q
      /\ m.state \notin {"invalid", "wait_for_pubcomp"}
      /\ m.state = "wait_for_puback" => m.qos = 1
      /\ m.state = "wait_for_pubrec" => m.qos = 2
  BY <1>2 DEF Message, FirstWait, OutStates
<1>6. /\ PublishOf(m).type = "PUBLISH" /\ PublishOf(m).mid = mid /\ PublishOf(m).qos = q
      /\ PublishOf(m) # NoPacket
  BY <1>5 DEF PublishOf, NoPacket
<1>. HIDE DEF m
<1>7. /\ out_messages \in Seq(Message)
      /\ Len(out_messages') = Len(out_messages) + 1
      /\ \A i \in DOMAIN out_messages : i \in DOMAIN out_messages' /\ out_messages'[i] = out_messages[i]
      /\ Len(out_messages) + 1 \in DOMAIN out_messages'
      /\ out_messages'[Len(out_messages) + 1] = m
      /\ \A i \in DOMAIN out_messages' : i \in DOMAIN out_messages \/ i = Len(out_messages) + 1
  <2>1. out_messages \in Seq(Message)
    BY DEF Delivery, Shapes
  <2>. QED  BY <1>4, <1>5, <2>1, AppendEntries
<1>8. \A i \in DOMAIN out_messages' :
         \/ i \in DOMAIN out_messages /\ out_messages'[i] = out_messages[i]
         \/ out_messages'[i] = m
  BY <1>7
<1>9. /\ \A i \in DOMAIN out_messages : out_messages[i].mid \in Mids /\ out_messages[i].mid # mid
      /\ \A i \in DOMAIN c2b : c2b[i].mid \in Mids /\ c2b[i].mid # mid
      /\ \A t \in Publishers : pending[t] # NoPacket =>
            pending[t].mid \in Mids /\ pending[t].mid # mid
  BY <1>2, InUse DEF Mids
<1>10. qos \in [Mids -> 0 .. 2] /\ received[mid] = 0
  BY <1>2 DEF Delivery, SessionTypeOK, QosKept
<1>11. RoomForAll'
  <2>1. HeldBack(out_messages') = {}
    BY <1>5, <1>8, InUse DEF HeldBack
  <2>2. Len(out_messages) \in Nat
    BY <1>7
  <2>. QED  BY <1>2, <1>4, <1>7, <2>1, <2>2 DEF RoomForAll
<1>12. \A t \in Publishers : \/ pending'[t] = pending[t]
                             \/ t = p /\ pending'[t] = PublishOf(m)
  BY <1>4 DEF Delivery, Shapes
<1>. HIDE DEF mid
<1>13. QosKept'
  <2>1. \A i \in DOMAIN out_messages' :
           /\ out_messages'[i].qos = qos'[out_messages'[i].mid]
           /\ out_messages'[i].state = "wait_for_puback" => out_messages'[i].qos = 1
           /\ out_messages'[i].state = "wait_for_pubrec" => out_messages'[i].qos = 2
    BY <1>2, <1>4, <1>5, <1>8, <1>9, <1>10 DEF QosKept
  <2>2. \A t \in Publishers : pending'[t] # NoPacket => pending'[t].qos = qos'[pending'[t].mid]
    BY <1>2, <1>4, <1>6, <1>9, <1>10, <1>12 DEF QosKept
  <2>3. \A i \in DOMAIN c2b' : c2b'[i].type = "PUBLISH" => c2b'[i].qos = qos'[c2b'[i].mid]
    BY <1>4, <1>9, <1>10 DEF QosKept
  <2>4. \A n \in Mids : n > last_mid' => received'[n] = 0
    BY <1>2, <1>4 DEF QosKept, Mids, mid
  <2>. QED  BY <2>1, <2>2, <2>3, <2>4 DEF QosKept
<1>14. ASSUME Once  PROVE Once'
  <2>1. \A t \in Publishers :
           pending'[t] # NoPacket =>
               \E i \in DOMAIN out_messages' : /\ pending'[t] = PublishOf(out_messages'[i])
                                               /\ out_messages'[i].state # "wait_for_pubcomp"
    <3>. SUFFICES ASSUME NEW t \in Publishers, pending'[t] # NoPacket
                  PROVE  \E i \in DOMAIN out_messages' :
                             /\ pending'[t] = PublishOf(out_messages'[i])
                             /\ out_messages'[i].state # "wait_for_pubcomp"
      OBVIOUS
    <3>1. CASE pending'[t] = pending[t]
      BY <1>7, <1>14, <3>1 DEF Once
    <3>2. CASE pending'[t] = PublishOf(m)
      BY <1>5, <1>7, <3>2
    <3>. QED  BY <1>12, <3>1, <3>2
  <2>2. \A i \in DOMAIN out_messages' :
           out_messages'[i].state = "wait_for_pubrec" =>
               /\ received'[out_messages'[i].mid] > 0 => out_messages'[i].mid \in stored'
               /\ \A j \in DOMAIN c2b' : c2b'[j].type = "PUBREL" => c2b'[j].mid # out_messages'[i].mid
    BY <1>4, <1>5, <1>8, <1>9, <1>10, <1>14 DEF Once
  <2>3. \A n \in Mids : qos'[n] = 2 => received'[n] <= 1
    BY <1>2, <1>4, <1>10, <1>14 DEF Once
  <2>. QED  BY <1>4, <1>14, <2>1, <2>2, <2>3 DEF Once, Publishing
<1>. QED  BY <1>4, <1>11, <1>13, <1>14

\* A PUBLISH sent after the unlock is one of a message still in the list.
LEMMA OnceSend ==
    ASSUME IInv, Delivery, OnceInv, NEW p \in Publishers, Send(p)
    PROVE  OnceInv'
<1>. USE DEF OnceInv
<1>. DEFINE pkt == pending[p]
<1>1. /\ pkt # NoPacket
      /\ pending' = [pending EXCEPT ![p] = NoPacket]
      /\ UNCHANGED <<out_messages, inflight_messages, last_mid, published, stored, received,
                     qos, prompt>>
  BY DEF Send, PublishSend, PublishSendFreed, broker
<1>2. pkt \in Packet /\ pkt.mid \in Mids /\ pkt.type = "PUBLISH" /\ pkt.qos = qos[pkt.mid]
  BY <1>1, InUse DEF QosKept
<1>3. \A t \in Publishers : pending'[t] = pending[t] \/ pending'[t] = NoPacket
  BY <1>1 DEF Delivery, Shapes
<1>4. c2b' = c2b \/ c2b' = Append(c2b, pkt)
  BY DEF Send
<1>. HIDE DEF pkt
<1>5. \A i \in DOMAIN c2b' : \/ i \in DOMAIN c2b /\ c2b'[i] = c2b[i]
                             \/ i = Len(c2b) + 1 /\ c2b'[i] = pkt
  BY <1>2, <1>4, AppendEntries DEF Delivery, SessionTypeOK
<1>6. RoomForAll'
  BY <1>1 DEF RoomForAll
<1>7. QosKept'
  BY <1>1, <1>2, <1>3, <1>5 DEF QosKept
<1>8. ASSUME Once  PROVE Once'
  <2>1. PICK k \in DOMAIN out_messages : /\ pkt = PublishOf(out_messages[k])
                                         /\ out_messages[k].state # "wait_for_pubcomp"
    BY <1>1, <1>8 DEF Once, pkt
  <2>2. pkt.mid = out_messages[k].mid /\ pkt.qos = out_messages[k].qos
    BY <2>1 DEF PublishOf
  <2>3. pkt.qos = 2 => out_messages[k].state = "wait_for_pubrec"
    <3>1. out_messages[k] \in Message /\ out_messages[k].state # "invalid"
      BY InUse
    <3>2. out_messages[k].state \in OutStates
      BY <3>1 DEF Message
    <3>3. out_messages[k].state = "wait_for_puback" => out_messages[k].qos = 1
      BY DEF QosKept
    <3>. QED  BY ONLY <2>1, <2>2, <3>1, <3>2, <3>3 DEF OutStates
  <2>4. /\ Publishing(pkt) /\ received[pkt.mid] > 0 => pkt.mid \in stored
        /\ \A j \in DOMAIN c2b : c2b[j].type = "PUBREL" /\ Publishing(pkt) => c2b[j].mid # pkt.mid
    BY <1>8, <2>2, <2>3 DEF Once, Publishing
  <2>5. \A i \in DOMAIN c2b' :
           Publishing(c2b'[i]) /\ received'[c2b'[i].mid] > 0 => c2b'[i].mid \in stored'
    BY <1>1, <1>5, <1>8, <2>4 DEF Once
  <2>6. \A i, j \in DOMAIN c2b' :
           i < j /\ c2b'[i].type = "PUBREL" /\ Publishing(c2b'[j]) => c2b'[i].mid # c2b'[j].mid
    <3>1. \A i \in DOMAIN c2b : i < Len(c2b) + 1 /\ ~ (Len(c2b) + 1 < i)
      BY DEF Delivery, SessionTypeOK
    <3>2. c2b \in Seq(Packet) /\ Len(c2b) \in Nat
      BY DEF Delivery, SessionTypeOK
    <3>. QED  BY <1>2, <1>5, <1>8, <2>4, <3>1, <3>2 DEF Once
  <2>7. \A t \in Publishers :
           pending'[t] # NoPacket =>
               \E i \in DOMAIN out_messages' : /\ pending'[t] = PublishOf(out_messages'[i])
                                               /\ out_messages'[i].state # "wait_for_pubcomp"
    BY <1>1, <1>3, <1>8 DEF Once
  <2>8. \A i \in DOMAIN out_messages' :
           out_messages'[i].state = "wait_for_pubrec" =>
               /\ received'[out_messages'[i].mid] > 0 => out_messages'[i].mid \in stored'
               /\ \A j \in DOMAIN c2b' : c2b'[j].type = "PUBREL" => c2b'[j].mid # out_messages'[i].mid
    BY <1>1, <1>2, <1>5, <1>8 DEF Once
  <2>9. \A n \in Mids : qos'[n] = 2 => received'[n] <= 1
    BY <1>1, <1>8 DEF Once
  <2>. QED  BY <2>5, <2>6, <2>7, <2>8, <2>9 DEF Once, Publishing
<1>. QED  BY <1>1, <1>6, <1>7, <1>8

\* No message waits for room, so the walk after an acknowledgement starts none.
LEMMA OncePubackcomp ==
    ASSUME IInv, Delivery, OnceInv, NEW mid \in Mids, ReadPubackcomp(mid)
    PROVE  OnceInv'
<1>. USE DEF OnceInv
<1>1. /\ Settled
      /\ UNCHANGED <<stored, received, qos, prompt>>
  BY DEF ReadPubackcomp, Read, broker
<1>2. CASE UNCHANGED <<vars, c2b>>
  BY <1>1, <1>2 DEF vars, RoomForAll, QosKept, Once
<1>3. CASE /\ ~ UNCHANGED <<vars, c2b>>
           /\ \/ /\ HandlePubackcomp(mid)
                 /\ \E w \in InOrder(Startable(mid)) : c2b' = c2b \o Packets(mid, w)
              \/ HandlePubackcompSendFails(mid) /\ UNCHANGED c2b
  <2>1. mid \in MidsOf(out_messages)
    BY <1>3 DEF HandlePubackcomp, HandlePubackcompSendFails
  <2>2. /\ Rest(mid) \in Seq(Message)
        /\ Len(Rest(mid)) = Len(out_messages) - 1
        /\ \A i \in DOMAIN Rest(mid) :
              \E j \in DOMAIN out_messages : Rest(mid)[i] = out_messages[j]
    BY <2>1, RestProperties DEF Delivery, Shapes
  <2>3. Startable(mid) = {}
    <3>1. \A i \in DOMAIN Rest(mid) : Rest(mid)[i].state # "invalid"
      BY <2>2, InUse
    <3>. QED  BY <3>1 DEF Startable, FirstHeldBack, HeldBack
  <2>4. /\ RemoveAndStart(mid, {}, {})
        /\ c2b' = c2b \/ \E w \in InOrder({}) : c2b' = c2b \o Packets(mid, w)
    BY <1>3, <2>3 DEF HandlePubackcomp, HandlePubackcompSendFails
  <2>5. \A w \in InOrder({}) : Packets(mid, w) = <<>>
    <3>1. Cardinality({}) = 0
      BY FS_EmptySet
    <3>2. \A w \in InOrder({}) : DOMAIN w = {}
      BY <3>1 DEF InOrder, Bijection, Injection
    <3>. QED  BY <3>2 DEF Packets
  <2>6. c2b' = c2b
    <3>1. c2b \in Seq(Packet)
      BY DEF Delivery, SessionTypeOK
    <3>. QED  BY <2>4, <2>5, <3>1
  <2>7. /\ out_messages' = Rest(mid)
        /\ inflight_messages' = inflight_messages - 1
        /\ UNCHANGED <<last_mid, pending, published>>
    <3>1. Start(Rest(mid), {}) = Rest(mid)
      BY <2>2 DEF Start
    <3>2. Cardinality({}) = 0
      BY FS_EmptySet
    <3>3. RemoveAndStart(mid, {}, {})
      BY <2>4
    <3>4. inflight_messages' = inflight_messages - 1
      BY <3>2, <3>3 DEF RemoveAndStart, IInv, TypeOK
    <3>. QED  BY <3>1, <3>3, <3>4 DEF RemoveAndStart
  <2>8. RoomForAll'
    <3>1. HeldBack(out_messages') = {}
      BY <2>2, <2>7, InUse DEF HeldBack
    <3>2. published \in Nat /\ Len(out_messages) \in Nat
      BY DEF IInv, TypeOK
    <3>. QED  BY <2>2, <2>7, <3>1, <3>2 DEF RoomForAll
  <2>9. QosKept'
    BY <1>1, <2>2, <2>6, <2>7 DEF QosKept
  <2>10. prompt => \A p \in Publishers : pending[p] = NoPacket
    BY <1>1 DEF Settled
  <2>11. ASSUME Once, prompt  PROVE Once'
    BY <1>1, <2>2, <2>6, <2>7, <2>10, <2>11 DEF Once
  <2>. QED  BY <1>1, <2>8, <2>9, <2>11
<1>. QED  BY <1>2, <1>3 DEF ReadPubackcomp

\* Once a PUBREL is written its message is not published again.
LEMMA OncePubrec ==
    ASSUME IInv, Delivery, OnceInv, NEW mid \in Mids, ReadPubrec(mid)
    PROVE  OnceInv'
<1>. USE DEF OnceInv
<1>1. /\ Settled
      /\ UNCHANGED <<last_mid, inflight_messages, published, pending>>
      /\ UNCHANGED <<stored, received, qos, prompt>>
  BY DEF ReadPubrec, Read, HandlePubrec, HandlePubrecUnknown, broker
<1>2. CASE HandlePubrecUnknown(mid) /\ CutOff
  BY <1>1, <1>2 DEF HandlePubrecUnknown, CutOff, RoomForAll, QosKept, Once
<1>3. CASE HandlePubrec(mid) /\ (CutOff \/ c2b' = Append(c2b, PubrelOf(mid)))
  <2>. DEFINE pos == Position(out_messages, mid)
  <2>1. mid \in MidsOf(out_messages)
    BY <1>3 DEF HandlePubrec
  <2>2. pos \in DOMAIN out_messages /\ out_messages[pos].mid = mid
    BY <2>1, RestProperties DEF Delivery, Shapes
  <2>3. out_messages' = [out_messages EXCEPT ![pos].state = "wait_for_pubcomp"]
    BY <1>3 DEF HandlePubrec
  <2>4. \A i \in DOMAIN out_messages : out_messages[i].mid = mid => i = pos
    BY <2>2 DEF IInv, MidsDistinct, DistinctMids
  <2>. HIDE DEF pos
  <2>5. out_messages \in Seq(Message) /\ out_messages[pos] \in Message
    BY <2>2, InUse DEF Delivery, Shapes
  <2>6. /\ DOMAIN out_messages' = DOMAIN out_messages
        /\ Len(out_messages') = Len(out_messages)
        /\ \A i \in DOMAIN out_messages :
              /\ out_messages'[i].mid = out_messages[i].mid
              /\ out_messages'[i].qos = out_messages[i].qos
              /\ \/ i # pos /\ out_messages'[i] = out_messages[i]
                 \/ out_messages'[i].state = "wait_for_pubcomp"
    BY <2>2, <2>3, <2>5 DEF Message
  <2>7. \A i \in DOMAIN c2b' : \/ i \in DOMAIN c2b /\ c2b'[i] = c2b[i]
                               \/ i = Len(c2b) + 1 /\ c2b'[i] = PubrelOf(mid)
    <3>1. PubrelOf(mid) \in Packet
      BY DEF PubrelOf, Packet
    <3>2. c2b \in Seq(Packet)
      BY DEF Delivery, SessionTypeOK
    <3>3. CASE CutOff
      BY <3>3 DEF CutOff
    <3>4. CASE c2b' = Append(c2b, PubrelOf(mid))
      BY <3>1, <3>2, <3>4, AppendEntries
    <3>. QED  BY <1>3, <3>3, <3>4
  <2>8. PubrelOf(mid).type = "PUBREL" /\ PubrelOf(mid).mid = mid
    BY DEF PubrelOf
  <2>9. RoomForAll'
    BY <1>1, <2>6, InUse DEF RoomForAll, HeldBack
  <2>10. QosKept'
    BY <1>1, <2>6, <2>7, <2>8 DEF QosKept
  <2>11. prompt => \A p \in Publishers : pending[p] = NoPacket
    BY <1>1 DEF Settled
  <2>12. ASSUME Once, prompt  PROVE Once'
    <3>1. \A i \in DOMAIN c2b' :
             Publishing(c2b'[i]) /\ received'[c2b'[i].mid] > 0 => c2b'[i].mid \in stored'
      BY <1>1, <2>7, <2>8, <2>12 DEF Once, Publishing
    <3>2. \A i, j \in DOMAIN c2b' :
             i < j /\ c2b'[i].type = "PUBREL" /\ Publishing(c2b'[j]) => c2b'[i].mid # c2b'[j].mid
      <4>1. \A i \in DOMAIN c2b : ~ (Len(c2b) + 1 < i)
        BY DEF Delivery, SessionTypeOK
      <4>. QED  BY <2>7, <2>8, <2>12, <4>1 DEF Once, Publishing
    <3>3. \A i \in DOMAIN out_messages' :
             out_messages'[i].state = "wait_for_pubrec" =>
                 /\ received'[out_messages'[i].mid] > 0 => out_messages'[i].mid \in stored'
                 /\ \A j \in DOMAIN c2b' : c2b'[j].type = "PUBREL" => c2b'[j].mid # out_messages'[i].mid
      BY <1>1, <2>4, <2>6, <2>7, <2>8, <2>12 DEF Once
    <3>. QED  BY <1>1, <2>11, <2>12, <3>1, <3>2, <3>3 DEF Once, Publishing
  <2>. QED  BY <1>1, <2>9, <2>10, <2>12
<1>. QED  BY <1>2, <1>3 DEF ReadPubrec

\* What is sent again is what the state of the message says.
LEMMA OnceRetry ==
    ASSUME IInv, Delivery, OnceInv, NEW mid \in Mids, Retry(mid)
    PROVE  OnceInv'
<1>. USE DEF OnceInv
<1>. DEFINE pos == Position(out_messages, mid)
            again == ResendOf(out_messages[pos])
<1>1. /\ mid \in MidsOf(out_messages) /\ Settled
      /\ c2b' = Append(c2b, again)
      /\ UNCHANGED <<out_messages, inflight_messages, last_mid, pending, published>>
      /\ UNCHANGED <<stored, received, qos, prompt>>
  BY DEF Retry, RetryCheck, broker
<1>2. pos \in DOMAIN out_messages /\ out_messages[pos].mid = mid
  BY <1>1, RestProperties DEF Delivery, Shapes
<1>3. \A i \in DOMAIN out_messages : out_messages[i].mid = mid => i = pos
  BY <1>2 DEF IInv, MidsDistinct, DistinctMids
<1>4. out_messages[pos] \in Message /\ out_messages[pos].state # "invalid"
  BY <1>2, InUse
<1>5. \/ out_messages[pos].state = "wait_for_pubcomp" /\ again = PubrelOf(mid)
      \/ out_messages[pos].state # "wait_for_pubcomp" /\ again = PublishOf(out_messages[pos])
  BY <1>2 DEF ResendOf
<1>6. /\ again \in Packet /\ again.mid = mid
      /\ again.type = "PUBLISH" => again.qos = out_messages[pos].qos
      /\ again.type = "PUBREL" => out_messages[pos].state = "wait_for_pubcomp"
      /\ Publishing(again) => out_messages[pos].state = "wait_for_pubrec"
  <2>1. out_messages[pos].state \in OutStates
    BY <1>4 DEF Message
  <2>2. out_messages[pos].mid \in Mids /\ out_messages[pos].qos \in {1, 2}
    BY <1>4 DEF Message
  <2>3. CASE again = PubrelOf(mid) /\ out_messages[pos].state = "wait_for_pubcomp"
    BY <2>3 DEF PubrelOf, Packet, Publishing
  <2>4. CASE again = PublishOf(out_messages[pos]) /\ out_messages[pos].state # "wait_for_pubcomp"
    BY <1>2, <1>4, <2>1, <2>2, <2>4 DEF PublishOf, Packet, Publishing,
       QosKept, OutStates
  <2>. QED  BY <1>5, <2>3, <2>4
<1>. HIDE DEF pos, again
<1>7. \A i \in DOMAIN c2b' : \/ i \in DOMAIN c2b /\ c2b'[i] = c2b[i]
                             \/ i = Len(c2b) + 1 /\ c2b'[i] = again
  BY <1>1, <1>6, AppendEntries DEF Delivery, SessionTypeOK
<1>8. RoomForAll'
  BY <1>1 DEF RoomForAll
<1>9. QosKept'
  BY <1>1, <1>2, <1>6, <1>7 DEF QosKept
<1>10. ASSUME Once  PROVE Once'
  <2>1. \A i \in DOMAIN c2b' :
           Publishing(c2b'[i]) /\ received'[c2b'[i].mid] > 0 => c2b'[i].mid \in stored'
    BY <1>1, <1>2, <1>6, <1>7, <1>10 DEF Once
  <2>2. \A i, j \in DOMAIN c2b' :
           i < j /\ c2b'[i].type = "PUBREL" /\ Publishing(c2b'[j]) => c2b'[i].mid # c2b'[j].mid
    <3>1. \A i \in DOMAIN c2b : ~ (Len(c2b) + 1 < i)
      BY DEF Delivery, SessionTypeOK
    <3>2. Publishing(again) => again.type # "PUBREL"
      BY DEF Publishing
    <3>. QED  BY <1>2, <1>6, <1>7, <1>10, <3>1, <3>2 DEF Once
  <2>3. \A i \in DOMAIN out_messages' :
           out_messages'[i].state = "wait_for_pubrec" =>
               /\ received'[out_messages'[i].mid] > 0 => out_messages'[i].mid \in stored'
               /\ \A j \in DOMAIN c2b' : c2b'[j].type = "PUBREL" => c2b'[j].mid # out_messages'[i].mid
    BY <1>1, <1>3, <1>6, <1>7, <1>10 DEF Once
  <2>. QED  BY <1>1, <1>10, <2>1, <2>2, <2>3 DEF Once, Publishing
<1>. QED  BY <1>1, <1>8, <1>9, <1>10

\* A reconnect loses what is under way and leaves every flow where it is.
LEMMA OnceConnection ==
    ASSUME NoWrap, WindowNeverFills, IInv, Delivery, OnceInv, Break \/ Close \/ Reopen
    PROVE  OnceInv'
<1>. USE DEF OnceInv
<1>1. /\ Settled
      /\ UNCHANGED <<last_mid, pending, published, stored, received, qos, prompt>>
  BY DEF Break, Close, Reopen, LinkBreaks, SocketClose, Reconnect,
     SocketConnect, broker
<1>2. CASE Break \/ Close \/ (Reopen /\ SocketConnect)
  <2>1. /\ UNCHANGED <<out_messages, inflight_messages>>
        /\ c2b' = c2b \/ c2b' = <<>>
    BY <1>2 DEF Break, Close, Reopen, LinkBreaks, SocketClose, SocketConnect,
       network, CutOff
  <2>. QED  BY <1>1, <2>1 DEF RoomForAll, QosKept, Once
<1>3. CASE Reopen /\ Reconnect
  <2>1. /\ c2b' = <<>>
        /\ out_messages' = ReconnectReset(out_messages)
        /\ inflight_messages' = Len(out_messages)
    BY <1>3 DEF Reopen, Reconnect, Delivery, SessionTypeOK, SocketValid,
       network
  <2>2. out_messages \in Seq(Message) /\ out_messages' \in Seq(Message)
        /\ Len(out_messages') = Len(out_messages)
    BY <2>1, MessageIsEntry, ResetProperties DEF Delivery, Shapes
  <2>3. DOMAIN out_messages' = DOMAIN out_messages
    BY <2>2
  <2>4. ASSUME NEW i \in DOMAIN out_messages
        PROVE  /\ out_messages'[i].mid = out_messages[i].mid
               /\ out_messages'[i].qos = out_messages[i].qos
               /\ \/ out_messages[i].qos = 1 /\ out_messages'[i].state = "wait_for_puback"
                  \/ out_messages[i].qos = 2 /\ out_messages'[i].state = out_messages[i].state
    <3>1. out_messages[i] \in Message
      BY InUse
    <3>2. out_messages'[i] = [out_messages[i] EXCEPT !.state = ResetState(out_messages[i], i)]
      BY <2>1 DEF ReconnectReset
    <3>3. HasRoom(i)
      <4>1. i \in Nat /\ i <= Len(out_messages) /\ Len(out_messages) \in Nat
        BY <2>2
      <4>2. published \in Nat /\ published <= MaxPublish /\ Len(out_messages) <= published
        BY DEF IInv, TypeOK, RoomForAll
      <4>. QED  BY <4>1, <4>2 DEF HasRoom, WindowNeverFills
    <3>4. ResetState(out_messages[i], i) = IF out_messages[i].qos = 1 THEN "wait_for_puback"
                                                                     ELSE out_messages[i].state
      BY <3>3 DEF ResetState
    <3>. QED  BY <3>1, <3>2, <3>4 DEF Message
  <2>5. RoomForAll'
    BY <1>1, <2>1, <2>2, <2>3, <2>4, InUse DEF RoomForAll, HeldBack
  <2>6. QosKept'
    BY <1>1, <2>1, <2>3, <2>4 DEF QosKept
  <2>7. prompt => \A p \in Publishers : pending[p] = NoPacket
    BY <1>1 DEF Settled
  <2>8. ASSUME Once, prompt  PROVE Once'
    BY <1>1, <2>1, <2>3, <2>4, <2>7, <2>8 DEF Once
  <2>. QED  BY <1>1, <2>5, <2>6, <2>8
<1>. QED  BY <1>2, <1>3 DEF Reopen

\* The broker takes a PUBLISH, of QoS 2 as a new message only the first time.
LEMMA OnceBrokerPublish ==
    ASSUME IInv, Delivery, OnceInv, BrokerPublish
    PROVE  OnceInv'
<1>. USE DEF OnceInv
<1>. DEFINE pkt == Head(c2b)
            new == pkt.qos = 1 \/ pkt.mid \notin stored
<1>1. /\ c2b # <<>> /\ pkt.type = "PUBLISH"
      /\ received' = [received EXCEPT ![pkt.mid] = @ + (IF new THEN 1 ELSE 0)]
      /\ stored' = IF pkt.qos = 2 THEN stored \cup {pkt.mid} ELSE stored
      /\ c2b' = Tail(c2b)
      /\ UNCHANGED vars /\ qos' = qos /\ prompt' = prompt
  BY DEF BrokerPublish
<1>2. /\ pkt = c2b[1] /\ 1 \in DOMAIN c2b
      /\ \A i \in DOMAIN c2b' : i + 1 \in DOMAIN c2b /\ c2b'[i] = c2b[i + 1]
      /\ c2b' \in Seq(Packet)
  BY <1>1, TailEntries DEF Delivery, SessionTypeOK
<1>3. /\ pkt.mid \in Mids /\ pkt.mid <= last_mid /\ pkt.qos \in {1, 2}
      /\ pkt.qos = qos[pkt.mid]
  BY <1>1, <1>2, InUse DEF Packet, QosKept
<1>4. /\ received \in [Mids -> Nat] /\ received' \in [Mids -> Nat]
      /\ \A n \in Mids : n # pkt.mid => received'[n] = received[n]
      /\ received'[pkt.mid] = received[pkt.mid] + (IF new THEN 1 ELSE 0)
  BY <1>1, <1>3 DEF Delivery, SessionTypeOK
<1>5. stored \subseteq stored' /\ (pkt.qos = 2 => pkt.mid \in stored')
  BY <1>1
<1>. HIDE DEF pkt, new
<1>6. RoomForAll'
  BY <1>1 DEF vars, RoomForAll
<1>7. QosKept'
  <2>1. \A i \in DOMAIN c2b' : c2b'[i].type = "PUBLISH" => c2b'[i].qos = qos'[c2b'[i].mid]
    BY <1>1, <1>2 DEF QosKept
  <2>2. \A mid \in Mids : mid > last_mid => received'[mid] = 0
    BY <1>3, <1>4 DEF QosKept, IInv, TypeOK, Mids
  <2>. QED  BY <1>1, <2>1, <2>2 DEF vars, QosKept
<1>8. ASSUME Once  PROVE Once'
  <2>1. \A i \in DOMAIN c2b' :
           Publishing(c2b'[i]) /\ received'[c2b'[i].mid] > 0 => c2b'[i].mid \in stored'
    <3>. SUFFICES ASSUME NEW i \in DOMAIN c2b', Publishing(c2b'[i]), received'[c2b'[i].mid] > 0
                  PROVE  c2b'[i].mid \in stored'
      OBVIOUS
    <3>1. /\ i + 1 \in DOMAIN c2b /\ c2b'[i] = c2b[i + 1]
          /\ c2b[i + 1].mid \in Mids /\ qos[c2b[i + 1].mid] = 2
      BY <1>2, InUse DEF QosKept, Publishing
    <3>2. CASE c2b'[i].mid = pkt.mid
      BY <1>3, <1>5, <3>1, <3>2
    <3>3. CASE c2b'[i].mid # pkt.mid
      BY <1>4, <1>5, <1>8, <3>1, <3>3 DEF Once
    <3>. QED  BY <3>2, <3>3
  <2>2. \A i, j \in DOMAIN c2b' :
           i < j /\ c2b'[i].type = "PUBREL" /\ Publishing(c2b'[j]) => c2b'[i].mid # c2b'[j].mid
    <3>1. \A i, j \in DOMAIN c2b' : i < j => i + 1 < j + 1
      BY <1>2
    <3>. QED  BY <1>2, <1>8, <3>1 DEF Once
  <2>3. \A i \in DOMAIN out_messages' :
           out_messages'[i].state = "wait_for_pubrec" =>
               /\ received'[out_messages'[i].mid] > 0 => out_messages'[i].mid \in stored'
               /\ \A j \in DOMAIN c2b' : c2b'[j].type = "PUBREL" => c2b'[j].mid # out_messages'[i].mid
    <3>1. out_messages' = out_messages
      BY <1>1 DEF vars
    <3>2. \A i \in DOMAIN out_messages :
             out_messages[i].state = "wait_for_pubrec" /\ received'[out_messages[i].mid] > 0 =>
                 out_messages[i].mid \in stored'
      <4>. SUFFICES ASSUME NEW i \in DOMAIN out_messages,
                           out_messages[i].state = "wait_for_pubrec",
                           received'[out_messages[i].mid] > 0
                    PROVE  out_messages[i].mid \in stored'
        OBVIOUS
      <4>1. out_messages[i].mid \in Mids /\ qos[out_messages[i].mid] = 2
        BY InUse DEF QosKept
      <4>2. CASE out_messages[i].mid = pkt.mid
        BY <1>3, <1>5, <4>1, <4>2
      <4>3. CASE out_messages[i].mid # pkt.mid
        BY <1>4, <1>5, <1>8, <4>1, <4>3 DEF Once
      <4>. QED  BY <4>2, <4>3
    <3>. QED  BY <1>2, <1>8, <3>1, <3>2 DEF Once
  <2>4. \A n \in Mids : qos'[n] = 2 => received'[n] <= 1
    <3>. SUFFICES ASSUME NEW n \in Mids, qos[n] = 2  PROVE received'[n] <= 1
      BY <1>1
    <3>1. CASE n # pkt.mid
      BY <1>4, <1>8, <3>1 DEF Once
    <3>2. CASE n = pkt.mid
      <4>1. Publishing(c2b[1])
        BY <1>1, <1>2, <1>3, <3>2 DEF Publishing
      <4>2. received[n] > 0 => n \in stored
        BY <1>2, <1>8, <3>2, <4>1 DEF Once
      <4>3. new <=> n \notin stored
        BY <1>3, <3>2 DEF new
      <4>4. received[n] \in Nat /\ received[n] <= 1
        BY <1>4, <1>8 DEF Once
      <4>5. CASE new
        <5>1. received'[n] = received[n] + 1
          BY <1>4, <3>2, <4>5
        <5>. QED  BY <4>2, <4>3, <4>4, <4>5, <5>1
      <4>6. CASE ~ new
        <5>1. received'[n] = received[n]
          BY <1>4, <3>2, <4>4, <4>6
        <5>. QED  BY <4>4, <5>1
      <4>. QED  BY <4>5, <4>6
    <3>. QED  BY <3>1, <3>2
  <2>. QED  BY <1>1, <1>8, <2>1, <2>2, <2>3, <2>4 DEF vars, Once, Publishing
<1>. QED  BY <1>1, <1>6, <1>7, <1>8

\* The broker forgets a mid when nothing can publish it again.
LEMMA OnceBrokerPubrel ==
    ASSUME IInv, Delivery, OnceInv, BrokerPubrel
    PROVE  OnceInv'
<1>. USE DEF OnceInv
<1>. DEFINE pkt == Head(c2b)
<1>1. /\ c2b # <<>> /\ pkt.type = "PUBREL"
      /\ stored' = stored \ {pkt.mid}
      /\ c2b' = Tail(c2b)
      /\ UNCHANGED vars /\ received' = received /\ qos' = qos /\ prompt' = prompt
  BY DEF BrokerPubrel
<1>2. /\ pkt = c2b[1] /\ 1 \in DOMAIN c2b
      /\ \A i \in DOMAIN c2b' : i + 1 \in DOMAIN c2b /\ 1 < i + 1 /\ c2b'[i] = c2b[i + 1]
  BY <1>1, TailEntries DEF Delivery, SessionTypeOK
<1>. HIDE DEF pkt
<1>3. RoomForAll'
  BY <1>1 DEF vars, RoomForAll
<1>4. QosKept'
  BY <1>1, <1>2 DEF vars, QosKept
<1>5. ASSUME Once  PROVE Once'
  <2>1. \A i \in DOMAIN c2b' :
           Publishing(c2b'[i]) /\ received'[c2b'[i].mid] > 0 => c2b'[i].mid \in stored'
    BY <1>1, <1>2, <1>5 DEF Once
  <2>2. \A i, j \in DOMAIN c2b' :
           i < j /\ c2b'[i].type = "PUBREL" /\ Publishing(c2b'[j]) => c2b'[i].mid # c2b'[j].mid
    <3>1. \A i, j \in DOMAIN c2b' : i < j => i + 1 < j + 1
      BY <1>1, TailEntries DEF Delivery, SessionTypeOK
    <3>. QED  BY <1>2, <1>5, <3>1 DEF Once
  <2>3. \A i \in DOMAIN out_messages' :
           out_messages'[i].state = "wait_for_pubrec" =>
               /\ received'[out_messages'[i].mid] > 0 => out_messages'[i].mid \in stored'
               /\ \A j \in DOMAIN c2b' : c2b'[j].type = "PUBREL" => c2b'[j].mid # out_messages'[i].mid
    BY <1>1, <1>2, <1>5 DEF vars, Once
  <2>. QED  BY <1>1, <1>5, <2>1, <2>2, <2>3 DEF vars, Once, Publishing
<1>. QED  BY <1>1, <1>3, <1>4, <1>5

\* The invariant holds after every step.
LEMMA OnceStep ==
    ASSUME NoWrap, WindowNeverFills, IInv, Delivery, OnceInv, [SessionNext]_sessionVars
    PROVE  OnceInv'
<1>1. ASSUME UNCHANGED sessionVars  PROVE OnceInv'
  BY <1>1 DEF sessionVars, vars, network, broker, OnceInv, RoomForAll,
     QosKept, Once, Publishing
<1>. QED
  BY <1>1, OnceQueue, OnceSend, OncePubackcomp, OncePubrec, OnceRetry,
     OnceConnection, OnceBrokerPublish, OnceBrokerPubrel DEF SessionNext

\* The broker takes a message of QoS 2 once, however often the connection fails
\* and whatever is repeated, provided no publishing thread is overtaken, the
\* window never fills and mids do not wrap (run qos2_duplicate shows what
\* happens when the window fills).
THEOREM TakenOnce == NoWrap /\ WindowNeverFills => (SessionSpec => []ExactlyOnce)
<1>. SUFFICES ASSUME NoWrap, WindowNeverFills  PROVE SessionSpec => []ExactlyOnce
  OBVIOUS
<1>1. SessionSpec => []IInv
  BY Refinement, Invariance, PTL DEF ImplementsOutMessages
<1>2. IInv /\ Delivery /\ OnceInv /\ [SessionNext]_sessionVars => OnceInv'
  BY OnceStep
<1>3. OnceInv => ExactlyOnce
  BY DEF OnceInv, Once, ExactlyOnce
<1>. QED  BY <1>1, <1>2, <1>3, OnceInit, Delivered, PTL DEF SessionSpec
=============================================================================
