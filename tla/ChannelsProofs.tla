--------------------------- MODULE ChannelsProofs ----------------------------
(***************************************************************************)
(* Theorems about Channels, for every set of threads and of topics, every  *)
(* size of topic_qos and every list of first topics.                       *)
(***************************************************************************)
EXTENDS Channels, FunctionTheorems, FiniteSetTheorems, SequenceTheorems, TLAPS

USE ChannelsAssumption

\* What travels, and what the table and the broker hold.
PacketType == [type : {"CONNECT", "CONNACK", "SUBSCRIBE", "SUBACK", "UNSUBSCRIBE", "UNSUBACK"},
               topic : Topics \cup {NoTopic}, qos : 0 .. 2, call : BOOLEAN]
EntryType == [topic : Channels, qos : 0 .. 2]
CallType == [pc : {"idle", "subscribe", "note topic", "note set", "unsubscribe"},
             topic : Topics \cup {NoTopic}, qos : 0 .. 2]

Types ==
    /\ app \in {"idle", "running", "ended", "crashed"}
    /\ link \in {"up", "closed", "dialing", "connecting"}
    /\ table \in Seq(EntryType) /\ Len(table) <= QosSlots
    /\ below \in Nat
    /\ below > 0 => table = <<>>
    /\ change \in [topic : Topics \cup {NoTopic}, qos : 0 .. 2, set : BOOLEAN]
    /\ java \in [Threads -> CallType]
    /\ up \in Seq(PacketType) /\ down \in Seq(PacketType)
    /\ \A i \in DOMAIN up : up[i].type = "SUBSCRIBE" => up[i].topic \in Channels
    /\ subs \subseteq EntryType
    /\ \A s, u \in subs : s.topic = u.topic => s = u
    /\ clean \in BOOLEAN /\ orderly \in BOOLEAN

AllIdle == \A t \in Threads : java[t].pc = "idle"
Entries == {table[i] : i \in DOMAIN table}
Distinct == \A i, j \in DOMAIN table : table[i].topic = table[j].topic => i = j

\* No SUBACK would add what change holds.
NothingNoted == change.set => change.topic \notin Channels
NothingSent == up = <<>> /\ down = <<>>

\* A table that the broker has yet to forget the last start for.
Fresh == clean /\ (link = "dialing" \/ (link = "connecting" /\ up # <<>>))

\* No call is under way: the broker has no topic that the table lacks, and on a
\* connection that is up every entry is at the broker or on its way there.
Calm ==
    /\ AllIdle /\ NothingNoted
    /\ link \in {"closed", "dialing"} => NothingSent
    /\ link = "connecting" =>
          \/ up = <<Packet("CONNECT", NoTopic, 0, FALSE)>> /\ down = <<>>
          \/ up = <<>> /\ down = <<Packet("CONNACK", NoTopic, 0, FALSE)>>
    /\ ~ Fresh => \A s \in subs : Known(s.topic)
    /\ link = "up" =>
          /\ \A i \in DOMAIN down : down[i].type = "SUBACK" /\ ~ down[i].call
          /\ \A i \in DOMAIN up : /\ up[i].type = "SUBSCRIBE" /\ ~ up[i].call
                                  /\ Entry(up[i].topic, up[i].qos) \in Entries
          /\ \A i \in DOMAIN table : \/ table[i] \in subs
                                     \/ \E k \in DOMAIN up : up[k].topic = table[i].topic

\* The call has not sent its packet.
Starting(t) ==
    /\ link = "up" /\ NothingSent /\ NothingNoted /\ subs = Entries
    /\ \A u \in Threads \ {t} : java[u].pc = "idle"
    /\ \/ java[t].pc = "subscribe" /\ ~ Known(java[t].topic) /\ Len(table) < QosSlots
       \/ java[t].pc = "unsubscribe" /\ table # <<>> /\ Last(table).topic = java[t].topic

\* The packet of a subscription is on its way there or back.
Subscribed(c, q) ==
    /\ c \in Channels /\ ~ Known(c) /\ Len(table) < QosSlots
    /\ \/ up = <<Packet("SUBSCRIBE", c, q, TRUE)>> /\ down = <<>> /\ subs = Entries
       \/ /\ up = <<>> /\ down = <<Packet("SUBACK", c, q, TRUE)>>
          /\ subs = Entries \cup {Entry(c, q)}

\* The call has sent it, unless the topic is invalid, and is noting the topic.
Noting(t) ==
    /\ link = "up"
    /\ \A u \in Threads \ {t} : java[u].pc = "idle"
    /\ \/ Subscribed(java[t].topic, java[t].qos)
       \/ java[t].topic \notin Channels /\ NothingSent /\ subs = Entries
    /\ \/ java[t].pc = "note topic" /\ NothingNoted
       \/ java[t].pc = "note set" /\ change.topic = java[t].topic /\ change.qos = java[t].qos

\* The call has returned and its answer is still to come.
Entering ==
    /\ link = "up" /\ AllIdle /\ change.set
    /\ Subscribed(change.topic, change.qos)
Quitting ==
    /\ link = "up" /\ AllIdle /\ NothingNoted /\ table # <<>>
    /\ \/ up = <<Packet("UNSUBSCRIBE", Last(table).topic, 0, TRUE)>> /\ down = <<>>
          /\ subs = Entries
       \/ up = <<>> /\ down = <<Packet("UNSUBACK", Last(table).topic, 0, TRUE)>>
          /\ subs = Entries \ {Last(table)}

\* An app that takes turns is in one of these phases.
Phase == Calm \/ (\E t \in Threads : Starting(t) \/ Noting(t)) \/ Entering \/ Quitting

InTurns ==
    orderly =>
        /\ below = 0
        /\ app # "running" => AllIdle /\ NothingNoted
        /\ app = "running" => Distinct /\ Phase

\* The inductive invariant.
ChannelsInv == Types /\ InTurns

-----------------------------------------------------------------------------
(* Sequences.                                                              *)

\* A sequence of one.
LEMMA Single ==
    ASSUME NEW S, NEW x \in S
    PROVE  /\ <<x>> \in Seq(S) /\ <<x>> # <<>> /\ Len(<<x>>) = 1 /\ <<x>>[1] = x
           /\ DOMAIN <<x>> = {1} /\ Head(<<x>>) = x /\ Tail(<<x>>) = <<>>
           /\ Append(<<>>, x) = <<x>>
<1>1. /\ <<x>> \in Seq(S) /\ <<x>> # <<>> /\ Len(<<x>>) = 1 /\ <<x>>[1] = x
      /\ DOMAIN <<x>> = {1} /\ Head(<<x>>) = x
  OBVIOUS
<1>2. Tail(<<x>>) \in Seq(S) /\ Len(Tail(<<x>>)) = 0
  BY <1>1, HeadTailProperties
<1>3. Tail(<<x>>) = <<>>
  BY <1>2, EmptySeq
<1>4. Append(<<>>, x) \in Seq(S) /\ Len(Append(<<>>, x)) = 1 /\ Append(<<>>, x)[1] = x
  BY AppendProperties, EmptySeq
<1>5. Append(<<>>, x) = <<x>>
  BY <1>1, <1>4, SeqEqual
<1>. QED  BY <1>1, <1>3, <1>5

\* The head and what stays behind it.
LEMMA Behind ==
    ASSUME NEW S, NEW s \in Seq(S), s # <<>>
    PROVE  /\ 1 \in DOMAIN s /\ Head(s) = s[1] /\ Head(s) \in S /\ Tail(s) \in Seq(S)
           /\ \A i \in DOMAIN Tail(s) : i + 1 \in DOMAIN s /\ Tail(s)[i] = s[i + 1]
           /\ \A k \in DOMAIN s : k = 1 \/ (k - 1 \in DOMAIN Tail(s) /\ Tail(s)[k - 1] = s[k])
<1>1. Len(s) \in Nat \ {0}
  BY EmptySeq
<1>2. /\ Head(s) \in S /\ Tail(s) \in Seq(S) /\ Len(Tail(s)) = Len(s) - 1
      /\ \A i \in 1 .. Len(Tail(s)) : Tail(s)[i] = s[i + 1]
  BY HeadTailProperties
<1>3. Head(s) = s[1] /\ DOMAIN s = 1 .. Len(s) /\ DOMAIN Tail(s) = 1 .. Len(Tail(s))
  BY <1>2
<1>4. \A k \in 1 .. Len(s) : k = 1 \/ k - 1 \in 1 .. Len(Tail(s))
  BY <1>1, <1>2
<1>5. \A k \in 1 .. Len(s) : (k - 1) + 1 = k
  BY <1>1
<1>. QED  BY <1>1, <1>2, <1>3, <1>4, <1>5

\* The entries of a sequence with one more at its end.
LEMMA AppendEntries ==
    ASSUME NEW S, NEW s \in Seq(S), NEW x \in S
    PROVE  /\ Append(s, x) \in Seq(S)
           /\ Len(Append(s, x)) = Len(s) + 1
           /\ \A i \in DOMAIN s : i \in DOMAIN Append(s, x) /\ Append(s, x)[i] = s[i]
           /\ Append(s, x)[Len(s) + 1] = x /\ Len(s) + 1 \in DOMAIN Append(s, x)
           /\ \A i \in DOMAIN Append(s, x) : i \in DOMAIN s \/ i = Len(s) + 1
BY AppendProperties

\* The beginning of a sequence.
LEMMA Beginning ==
    ASSUME NEW S, NEW s \in Seq(S), NEW n \in Nat, n <= Len(s)
    PROVE  /\ SubSeq(s, 1, n) \in Seq(S)
           /\ Len(SubSeq(s, 1, n)) = n
           /\ DOMAIN SubSeq(s, 1, n) = 1 .. n /\ 1 .. n \subseteq DOMAIN s
           /\ \A i \in 1 .. n : SubSeq(s, 1, n)[i] = s[i]
BY SubSeqProperties

\* What travels both ways.
LEMMA Travelling ==
    ASSUME Types
    PROVE  /\ InFlight = <<>> <=> NothingSent
           /\ (\A i \in DOMAIN InFlight : ~ InFlight[i].call) =>
                  /\ \A i \in DOMAIN up : ~ up[i].call
                  /\ \A i \in DOMAIN down : ~ down[i].call
<1>1. up \in Seq(PacketType) /\ down \in Seq(PacketType)
  BY DEF Types
<1>2. /\ InFlight \in Seq(PacketType) /\ Len(InFlight) = Len(up) + Len(down)
      /\ \A i \in 1 .. Len(up) + Len(down) :
            InFlight[i] = IF i <= Len(up) THEN up[i] ELSE down[i - Len(up)]
  BY <1>1, ConcatProperties DEF InFlight
<1>. HIDE DEF InFlight
<1>3. Len(up) \in Nat /\ Len(down) \in Nat
  BY <1>1
<1>4. InFlight = <<>> <=> NothingSent
  <2>1. /\ InFlight = <<>> <=> Len(InFlight) = 0
        /\ up = <<>> <=> Len(up) = 0
        /\ down = <<>> <=> Len(down) = 0
    BY <1>1, <1>2, EmptySeq
  <2>. QED  BY <1>2, <1>3, <2>1 DEF NothingSent
<1>5. ASSUME \A i \in DOMAIN InFlight : ~ InFlight[i].call, NEW i \in DOMAIN up
      PROVE  ~ up[i].call
  <2>1. i \in 1 .. Len(up) /\ i \in DOMAIN InFlight /\ InFlight[i] = up[i]
    BY <1>1, <1>2, <1>3
  <2>. QED  BY <1>5, <2>1
<1>6. ASSUME \A i \in DOMAIN InFlight : ~ InFlight[i].call, NEW i \in DOMAIN down
      PROVE  ~ down[i].call
  <2>1. i \in 1 .. Len(down)
    BY <1>1
  <2>2. Len(up) + i \in 1 .. Len(InFlight) /\ ~ (Len(up) + i <= Len(up))
        /\ Len(up) + i - Len(up) = i
    BY <1>2, <1>3, <2>1
  <2>3. Len(up) + i \in DOMAIN InFlight /\ InFlight[Len(up) + i] = down[i]
    BY <1>2, <2>2
  <2>. QED  BY <1>6, <2>3
<1>. QED  BY <1>4, <1>5, <1>6

-----------------------------------------------------------------------------
(* The types.                                                              *)

\* Arguments in range.
LEMMA Arguments ==
    /\ \A q : Qos(q) \in 0 .. 2
    /\ Idle \in CallType /\ Idle.pc = "idle"
    /\ QosSlots \in Nat /\ QosSlots >= 2
    /\ \A c, q : Entry(c, q).topic = c /\ Entry(c, q).qos = q
    /\ \A c \in Channels, q \in 0 .. 2 : Entry(c, q) \in EntryType
    /\ \A e \in EntryType : Entry(e.topic, e.qos) = e
    /\ \A type, c, q, call : LET p == Packet(type, c, q, call)
                             IN  p.type = type /\ p.topic = c /\ p.qos = q
<1>1. \A q : Qos(q) \in 0 .. 2
  BY DEF Qos
<1>2. Idle \in CallType /\ Idle.pc = "idle"
  BY DEF Idle, CallType
<1>3. QosSlots \in Nat /\ QosSlots >= 2
  OBVIOUS
<1>4. /\ \A c, q : Entry(c, q).topic = c /\ Entry(c, q).qos = q
      /\ \A c \in Channels, q \in 0 .. 2 : Entry(c, q) \in EntryType
      /\ \A e \in EntryType : Entry(e.topic, e.qos) = e
  BY DEF Entry, EntryType
<1>5. \A type, c, q, call : LET p == Packet(type, c, q, call)
                            IN  p.type = type /\ p.topic = c /\ p.qos = q
  BY DEF Packet
<1>. QED  BY <1>1, <1>2, <1>3, <1>4, <1>5

\* The table at the start holds each valid topic of the list, and no other.
LEMMA Started ==
    ASSUME NEW topics \in FirstTopics, NEW q, NEW w \in InOrder(Valid(topics))
    PROVE  /\ Given(topics, q, w) \in Seq(EntryType)
           /\ Len(Given(topics, q, w)) <= QosSlots
           /\ \A i \in DOMAIN topics : topics[i] \in Channels =>
                 \E n \in DOMAIN Given(topics, q, w) : Given(topics, q, w)[n].topic = topics[i]
           /\ IsInjective(topics) =>
                 \A n, m \in DOMAIN Given(topics, q, w) :
                    Given(topics, q, w)[n].topic = Given(topics, q, w)[m].topic => n = m
<1>. DEFINE V == Valid(topics)
            N == Cardinality(V)
            g == Given(topics, q, w)
<1>1. /\ topics \in Seq(Channels \cup BadChannels) /\ Len(topics) < QosSlots
      /\ Len(topics) \in Nat /\ DOMAIN topics = 1 .. Len(topics)
  OBVIOUS
<1>2. /\ V \in SUBSET (1 .. Len(topics)) /\ V \in SUBSET Nat
      /\ \A i \in V : topics[i] \in Channels /\ i \in DOMAIN topics
      /\ \A i \in DOMAIN topics : topics[i] \in Channels => i \in V
  BY <1>1 DEF Valid
<1>3. g = [n \in DOMAIN w |-> Entry(topics[w[n]], Qos(q))]
  BY DEF Given
<1>. HIDE DEF V, g
<1>4. /\ IsFiniteSet(1 .. Len(topics)) /\ Cardinality(1 .. Len(topics)) = Len(topics)
  <2>1. Len(topics) \in Int /\ 1 \in Int
    BY <1>1
  <2>2. /\ IsFiniteSet(1 .. Len(topics))
        /\ Cardinality(1 .. Len(topics)) = IF 1 > Len(topics) THEN 0 ELSE Len(topics) - 1 + 1
    BY ONLY <2>1, FS_Interval
  <2>. QED  BY <1>1, <2>2
<1>5. IsFiniteSet(V) /\ Cardinality(V) <= Len(topics)
  <2>1. IsFiniteSet(V) /\ Cardinality(V) <= Cardinality(1 .. Len(topics))
    BY ONLY <1>2, <1>4, FS_Subset
  <2>. QED  BY <1>4, <2>1
<1>6. /\ N \in Nat
      /\ \A n \in 1 .. N : w[n] \in V
      /\ \A n, m \in 1 .. N : w[n] = w[m] => n = m
      /\ \A i \in V : \E n \in 1 .. N : w[n] = i
      /\ DOMAIN w = 1 .. N
  <2>1. N \in Nat
    BY <1>5, FS_CardinalityType
  <2>2. w \in Bijection(1 .. N, V)
    BY DEF InOrder, N, V
  <2>. QED  BY <2>1, <2>2 DEF Bijection, Injection, Surjection, IsInjective
<1>7. N <= Len(topics)
  BY <1>5
<1>. HIDE DEF N
<1>8. \A n \in 1 .. N : Entry(topics[w[n]], Qos(q)) \in EntryType
  BY <1>2, <1>6, Arguments
<1>9. g \in Seq(EntryType) /\ Len(g) = N /\ DOMAIN g = 1 .. N
  BY <1>3, <1>6, <1>8
<1>10. \A n \in 1 .. N : g[n].topic = topics[w[n]]
  BY <1>3, <1>6, Arguments
<1>11. Len(g) <= QosSlots
  BY <1>1, <1>6, <1>7, <1>9
<1>12. ASSUME NEW i \in DOMAIN topics, topics[i] \in Channels
       PROVE  \E n \in DOMAIN g : g[n].topic = topics[i]
  <2>1. i \in V
    BY <1>2, <1>12
  <2>2. PICK n \in 1 .. N : w[n] = i
    BY ONLY <1>6, <2>1
  <2>. QED  BY ONLY <1>9, <1>10, <2>2
<1>13. ASSUME IsInjective(topics), NEW n \in DOMAIN g, NEW m \in DOMAIN g,
              g[n].topic = g[m].topic
       PROVE  n = m
  <2>1. n \in 1 .. N /\ m \in 1 .. N
    BY ONLY <1>9, <1>13
  <2>2. topics[w[n]] = topics[w[m]]
    BY ONLY <1>10, <1>13, <2>1
  <2>3. w[n] \in DOMAIN topics /\ w[m] \in DOMAIN topics
    BY ONLY <1>2, <1>6, <2>1
  <2>4. w[n] = w[m]
    BY ONLY <1>13, <2>2, <2>3 DEF IsInjective
  <2>. QED  BY ONLY <1>6, <2>1, <2>4
<1>. QED  BY <1>9, <1>11, <1>12, <1>13 DEF g

\* What client_topic_set does to the types.
LEMMA ClientTopicSetTypes ==
    ASSUME Types, NEW c, NEW q \in 0 .. 2, ClientTopicSet(c, q)
    PROVE  /\ table' \in Seq(EntryType) /\ Len(table') <= QosSlots
           /\ below' \in Nat /\ (below' > 0 => table' = <<>>)
           /\ app' = app \/ app' = "crashed"
<1>1. /\ table \in Seq(EntryType) /\ Len(table) <= QosSlots /\ Len(table) \in Nat
      /\ below \in Nat /\ (below > 0 => table = <<>>)
  BY DEF Types
<1>2. CASE UNCHANGED <<configVars, app>> \/ (app' = "crashed" /\ UNCHANGED configVars)
  BY <1>1, <1>2 DEF configVars
<1>3. CASE /\ c \in Channels /\ below = 0 /\ UNCHANGED <<below, app>>
           /\ table' = IF Len(table) < QosSlots THEN Append(table, Entry(c, q))
                                                ELSE SubSeq(table, 1, q)
  <2>1. CASE Len(table) < QosSlots
    <3>1. Entry(c, q) \in EntryType
      BY <1>3, Arguments
    <3>2. table' = Append(table, Entry(c, q))
      BY <1>3, <2>1
    <3>3. table' \in Seq(EntryType) /\ Len(table') = Len(table) + 1
      BY <1>1, <3>1, <3>2, AppendProperties
    <3>. QED  BY <1>1, <1>3, <2>1, <3>3, Arguments
  <2>2. CASE ~ (Len(table) < QosSlots)
    <3>1. table' = SubSeq(table, 1, q) /\ q \in Nat /\ q <= Len(table)
      BY <1>1, <1>3, <2>2, Arguments
    <3>2. table' \in Seq(EntryType) /\ Len(table') = q
      BY <1>1, <3>1, Beginning
    <3>. QED  BY <1>1, <1>3, <3>1, <3>2, Arguments
  <2>. QED  BY <2>1, <2>2
<1>4. CASE below = 1 /\ below' = 0 /\ UNCHANGED <<table, app>>
  BY <1>1, <1>4
<1>. QED  BY <1>2, <1>3, <1>4 DEF ClientTopicSet

\* The initial state.
LEMMA InitTypes == Init => ChannelsInv
<1>. SUFFICES ASSUME Init  PROVE ChannelsInv
  OBVIOUS
<1>. USE DEF Init
<1>1. table \in Seq(EntryType) /\ Len(table) = 0 /\ DOMAIN up = {}
      /\ up \in Seq(PacketType) /\ down \in Seq(PacketType)
  BY EmptySeq
<1>2. java \in [Threads -> CallType] /\ \A t \in Threads : java[t].pc = "idle"
  BY Arguments
<1>3. change \in [topic : Topics \cup {NoTopic}, qos : 0 .. 2, set : BOOLEAN] /\ ~ change.set
  OBVIOUS
<1>4. Types
  <2>1. Len(table) <= QosSlots /\ below \in Nat /\ (below > 0 => table = <<>>)
    BY <1>1, Arguments
  <2>. QED  BY <1>1, <1>2, <1>3, <2>1 DEF Types
<1>5. InTurns
  BY <1>2, <1>3 DEF InTurns, AllIdle, NothingNoted
<1>. QED  BY <1>4, <1>5 DEF ChannelsInv

-----------------------------------------------------------------------------
(* The loop.                                                               *)

\* The app starts: the table lists what the broker has kept, or the broker
\* will forget it.
LEMMA SubInitConnectStep ==
    ASSUME ChannelsInv, NEW topics \in FirstTopics, NEW q \in GivenQos,
           NEW cleanSession \in BOOLEAN, SubInitConnect(topics, q, cleanSession)
    PROVE  ChannelsInv'
<1>. USE DEF ChannelsInv
<1>1. /\ app # "running" /\ app' = "running" /\ link' = "dialing"
      /\ \E w \in InOrder(Valid(topics)) : table' = Given(topics, q, w)
      /\ below' = 0
      /\ clean' = cleanSession /\ up' = <<>> /\ down' = <<>>
      /\ UNCHANGED <<change, java, subs>>
  BY DEF SubInitConnect
<1>2. /\ orderly' => orderly /\ IsInjective(topics)
      /\ orderly' => \/ cleanSession
                     \/ \A s \in subs : \E i \in DOMAIN topics : topics[i] = s.topic
      /\ orderly' \in BOOLEAN
  BY Zenon DEF SubInitConnect
<1>3. /\ table' \in Seq(EntryType) /\ Len(table') <= QosSlots
      /\ \A i \in DOMAIN topics : topics[i] \in Channels =>
            \E n \in DOMAIN table' : table'[n].topic = topics[i]
      /\ IsInjective(topics) =>
            \A n, m \in DOMAIN table' : table'[n].topic = table'[m].topic => n = m
  BY <1>1, Started
<1>4. Types'
  <2>1. up' \in Seq(PacketType) /\ down' \in Seq(PacketType) /\ DOMAIN up' = {}
    BY <1>1, EmptySeq
  <2>. QED  BY <1>1, <1>2, <1>3, <2>1 DEF Types
<1>5. ASSUME orderly'  PROVE Distinct' /\ Calm'
  <2>1. Distinct'
    BY <1>2, <1>3, <1>5 DEF Distinct
  <2>2. AllIdle' /\ NothingNoted' /\ NothingSent'
    BY <1>1, <1>2, <1>5 DEF InTurns, AllIdle, NothingNoted, NothingSent
  <2>3. ASSUME ~ Fresh', NEW s \in subs'  PROVE Known(s.topic)'
    <3>1. s \in subs /\ s.topic \in Channels /\ ~ cleanSession
      BY <1>1, <2>3 DEF Fresh, Types, EntryType
    <3>2. PICK i \in DOMAIN topics : topics[i] = s.topic
      BY <1>2, <1>5, <3>1
    <3>. QED  BY <1>3, <3>1, <3>2 DEF Known
  <2>. QED  BY <1>1, <2>1, <2>2, <2>3 DEF Calm
<1>6. InTurns'
  BY <1>1, <1>5 DEF InTurns, Phase
<1>. QED  BY <1>4, <1>6

\* With the table, the packets and java as they were, so are the types.
LEMMA TypesKept ==
    ASSUME Types, up' \in Seq(PacketType), down' \in Seq(PacketType),
           \A i \in DOMAIN up' : up'[i].type = "SUBSCRIBE" => up'[i].topic \in Channels,
           app' \in {"idle", "running", "ended", "crashed"},
           link' \in {"up", "closed", "dialing", "connecting"},
           orderly' \in BOOLEAN,
           UNCHANGED <<table, below, change, java, subs, clean>>
    PROVE  Types'
BY DEF Types

\* A phase in which the link is not up is calm.
LEMMA DownIsCalm ==
    ASSUME Phase, link # "up"
    PROVE  Calm
BY DEF Phase, Starting, Noting, Entering, Quitting

\* A connection begins.
LEMMA DialStep ==
    ASSUME ChannelsInv, Dial
    PROVE  ChannelsInv'
<1>. USE DEF ChannelsInv
<1>. DEFINE p == Packet("CONNECT", NoTopic, 0, FALSE)
<1>1. /\ app = "running" /\ link = "dialing" /\ link' = "connecting" /\ up' = <<p>>
      /\ UNCHANGED <<app, table, below, change, java, down, subs, clean, orderly>>
  BY DEF Dial, configVars
<1>2. p \in PacketType /\ p.type = "CONNECT"
  BY DEF Packet, PacketType
<1>. HIDE DEF p
<1>3. up' \in Seq(PacketType) /\ up' # <<>> /\ \A i \in DOMAIN up' : up'[i] = p
  BY <1>1, <1>2, Single
<1>4. Types'
  BY <1>1, <1>2, <1>3, TypesKept DEF Types
<1>5. ASSUME orderly  PROVE Distinct' /\ Calm'
  <2>1. Distinct /\ Calm
    BY <1>1, <1>5, DownIsCalm DEF InTurns
  <2>2. AllIdle' /\ NothingNoted' /\ Distinct'
    BY <1>1, <2>1 DEF Calm, AllIdle, NothingNoted, Distinct
  <2>3. ~ Fresh' => \A s \in subs' : Known(s.topic)'
    BY <1>1, <1>3, <2>1 DEF Calm, Fresh, Known
  <2>4. up' = <<p>> /\ down' = <<>>
    BY <1>1, <2>1 DEF Calm, NothingSent
  <2>. QED  BY <1>1, <2>2, <2>3, <2>4 DEF Calm, p
<1>6. InTurns'
  BY <1>1, <1>5 DEF InTurns, Phase
<1>. QED  BY <1>4, <1>6

\* The loop finds the socket closed.
LEMMA BeginReconnectStep ==
    ASSUME ChannelsInv, BeginReconnect
    PROVE  ChannelsInv'
<1>. USE DEF ChannelsInv
<1>1. /\ app = "running" /\ link = "closed" /\ link' = "dialing"
      /\ UNCHANGED <<app, table, below, change, java, up, down, subs, clean, orderly>>
  BY DEF BeginReconnect, configVars
<1>2. Types'
  BY <1>1 DEF Types
<1>3. ASSUME orderly  PROVE Distinct' /\ Calm'
  <2>1. Distinct /\ Calm
    BY <1>1, <1>3, DownIsCalm DEF InTurns
  <2>2. AllIdle' /\ NothingNoted' /\ Distinct' /\ NothingSent'
    BY <1>1, <2>1 DEF Calm, AllIdle, NothingNoted, Distinct, NothingSent
  <2>3. \A s \in subs' : Known(s.topic)'
    BY <1>1, <2>1 DEF Calm, Fresh, Known
  <2>. QED  BY <1>1, <2>2, <2>3 DEF Calm
<1>4. InTurns'
  BY <1>1, <1>3 DEF InTurns, Phase
<1>. QED  BY <1>2, <1>4

\* CONNACK: the whole table goes out.
LEMMA HandleConnackStep ==
    ASSUME ChannelsInv, HandleConnack
    PROVE  ChannelsInv'
<1>. USE DEF ChannelsInv
<1>1. /\ app = "running" /\ link = "connecting" /\ link' = "up" /\ down # <<>>
      /\ down' = Tail(down) /\ up' = up \o Subscriptions
      /\ UNCHANGED <<app, table, below, change, java, subs, clean, orderly>>
  BY DEF HandleConnack, configVars
<1>2. /\ table \in Seq(EntryType) /\ Len(table) \in Nat /\ DOMAIN table = 1 .. Len(table)
      /\ up \in Seq(PacketType) /\ down \in Seq(PacketType)
      /\ \A i \in DOMAIN table : /\ table[i] \in EntryType /\ table[i].topic \in Channels
                                 /\ table[i].qos \in 0 .. 2
  <2>1. table \in Seq(EntryType) /\ up \in Seq(PacketType) /\ down \in Seq(PacketType)
    BY DEF Types
  <2>2. \A i \in DOMAIN table : table[i] \in EntryType
    BY <2>1, ElementOfSeq
  <2>3. \A e \in EntryType : e.topic \in Channels /\ e.qos \in 0 .. 2
    BY DEF EntryType
  <2>4. Len(table) \in Nat /\ DOMAIN table = 1 .. Len(table)
    BY ONLY <2>1
  <2>. QED  BY ONLY <2>1, <2>2, <2>3, <2>4
<1>3. \A i \in DOMAIN table :
         LET p == Packet("SUBSCRIBE", table[i].topic, table[i].qos, FALSE)
         IN  p \in PacketType /\ p.type = "SUBSCRIBE" /\ ~ p.call /\ p.topic = table[i].topic
             /\ Entry(p.topic, p.qos) = table[i]
  BY <1>2, Arguments DEF Packet, PacketType, Topics
<1>4. /\ Subscriptions \in Seq(PacketType) /\ DOMAIN Subscriptions = DOMAIN table
      /\ \A i \in DOMAIN table :
            /\ Subscriptions[i] \in PacketType /\ Subscriptions[i].type = "SUBSCRIBE"
            /\ ~ Subscriptions[i].call /\ Subscriptions[i].topic = table[i].topic
            /\ Entry(Subscriptions[i].topic, Subscriptions[i].qos) = table[i]
  <2>1. Subscriptions = [i \in 1 .. Len(table) |->
                            Packet("SUBSCRIBE", table[i].topic, table[i].qos, FALSE)]
    BY <1>2 DEF Subscriptions
  <2>2. Subscriptions \in [1 .. Len(table) -> PacketType]
    BY <1>2, <1>3, <2>1
  <2>. HIDE DEF PacketType, Subscriptions
  <2>3. Subscriptions \in Seq(PacketType) /\ DOMAIN Subscriptions = 1 .. Len(table)
    BY ONLY <1>2, <2>2
  <2>. QED  BY <1>2, <1>3, <2>1, <2>3
<1>. HIDE DEF Subscriptions
<1>5. Tail(down) \in Seq(PacketType)
  BY <1>1, <1>2, HeadTailProperties
<1>6. /\ up' \in Seq(PacketType)
      /\ \A i \in DOMAIN up' : (i \in DOMAIN up /\ up'[i] = up[i])
                                  \/ \E k \in DOMAIN table : up'[i] = Subscriptions[k]
  <2>1. /\ up' \in Seq(PacketType) /\ Len(up') = Len(up) + Len(Subscriptions)
        /\ \A i \in 1 .. Len(up) + Len(Subscriptions) :
              up'[i] = IF i <= Len(up) THEN up[i] ELSE Subscriptions[i - Len(up)]
    BY <1>1, <1>2, <1>4, ConcatProperties
  <2>. SUFFICES ASSUME NEW i \in DOMAIN up'
                PROVE  (i \in DOMAIN up /\ up'[i] = up[i])
                          \/ \E k \in DOMAIN table : up'[i] = Subscriptions[k]
    BY <2>1
  <2>2. Len(up) \in Nat /\ Len(Subscriptions) \in Nat /\ i \in 1 .. Len(up) + Len(Subscriptions)
    BY <1>2, <1>4, <2>1
  <2>3. CASE i <= Len(up)
    BY <1>2, <2>1, <2>2, <2>3
  <2>4. CASE ~ (i <= Len(up))
    <3>1. i - Len(up) \in 1 .. Len(Subscriptions) /\ up'[i] = Subscriptions[i - Len(up)]
      BY <2>1, <2>2, <2>4
    <3>. QED  BY <1>4, <3>1
  <2>. QED  BY <2>3, <2>4
<1>7. \A i \in DOMAIN up' : up'[i].type = "SUBSCRIBE" => up'[i].topic \in Channels
  <2>1. \A i \in DOMAIN up : up[i].type = "SUBSCRIBE" => up[i].topic \in Channels
    BY DEF Types
  <2>2. \A k \in DOMAIN table : Subscriptions[k].topic \in Channels
    BY <1>2, <1>4
  <2>. QED  BY ONLY <1>6, <2>1, <2>2
<1>8. Types'
  BY <1>1, <1>5, <1>6, <1>7, TypesKept DEF Types
<1>9. ASSUME orderly  PROVE Distinct' /\ Calm'
  <2>1. Distinct /\ Calm
    BY <1>1, <1>9, DownIsCalm DEF InTurns
  <2>2. up = <<>> /\ down = <<Packet("CONNACK", NoTopic, 0, FALSE)>>
    BY <1>1, <2>1 DEF Calm
  <2>3. down' = <<>>
    <3>1. Packet("CONNACK", NoTopic, 0, FALSE) \in PacketType
      BY DEF Packet, PacketType
    <3>. QED  BY <1>1, <2>2, <3>1, Single
  <2>4. up' = Subscriptions
    <3>1. /\ up' \in Seq(PacketType) /\ Len(up') = Len(up) + Len(Subscriptions)
          /\ \A i \in 1 .. Len(up) + Len(Subscriptions) :
                up'[i] = IF i <= Len(up) THEN up[i] ELSE Subscriptions[i - Len(up)]
      BY <1>1, <1>2, <1>4, ConcatProperties
    <3>2. Len(up) = 0 /\ Len(Subscriptions) \in Nat
      BY <1>4, <2>2
    <3>. QED  BY <1>4, <3>1, <3>2, SeqEqual
  <2>5. AllIdle' /\ NothingNoted' /\ Distinct'
    BY <1>1, <2>1 DEF Calm, AllIdle, NothingNoted, Distinct
  <2>6. \A s \in subs' : Known(s.topic)'
    BY <1>1, <2>1, <2>2 DEF Calm, Fresh, Known
  <2>7. \A i \in DOMAIN up' : /\ up'[i].type = "SUBSCRIBE" /\ ~ up'[i].call
                              /\ Entry(up'[i].topic, up'[i].qos) \in Entries'
    BY <1>1, <1>4, <2>4 DEF Entries
  <2>8. \A i \in DOMAIN table' : \E k \in DOMAIN up' : up'[k].topic = table'[i].topic
    BY <1>1, <1>4, <2>4
  <2>9. DOMAIN down' = {}
    BY <2>3
  <2>. QED  BY <1>1, <2>5, <2>6, <2>7, <2>8, <2>9 DEF Calm
<1>10. InTurns'
  BY <1>1, <1>9 DEF InTurns, Phase
<1>. QED  BY <1>8, <1>10

\* What the entries of the table are.
LEMMA EntriesTyped ==
    ASSUME Types
    PROVE  /\ Len(table) \in Nat /\ DOMAIN table = 1 .. Len(table)
           /\ \A i \in DOMAIN table : /\ table[i] \in EntryType /\ table[i].topic \in Channels
                                      /\ table[i].qos \in 0 .. 2
<1>1. table \in Seq(EntryType)
  BY DEF Types
<1>2. \A i \in DOMAIN table : table[i] \in EntryType
  BY <1>1, ElementOfSeq
<1>3. \A e \in EntryType : e.topic \in Channels /\ e.qos \in 0 .. 2
  BY DEF EntryType
<1>4. Len(table) \in Nat /\ DOMAIN table = 1 .. Len(table)
  BY ONLY <1>1
<1>. QED  BY ONLY <1>2, <1>3, <1>4

\* A topic comes in at the end of the table.
LEMMA Entered ==
    ASSUME Types, Distinct, NEW c \in Channels, NEW q \in 0 .. 2, ~ Known(c),
           table' = Append(table, Entry(c, q))
    PROVE  Entries' = Entries \cup {Entry(c, q)} /\ Distinct'
<1>1. table \in Seq(EntryType) /\ Entry(c, q) \in EntryType /\ Entry(c, q).topic = c
  BY Arguments DEF Types
<1>2. /\ \A i \in DOMAIN table : i \in DOMAIN table' /\ table'[i] = table[i]
      /\ table'[Len(table) + 1] = Entry(c, q) /\ Len(table) + 1 \in DOMAIN table'
      /\ \A i \in DOMAIN table' : i \in DOMAIN table \/ i = Len(table) + 1
  BY <1>1, AppendEntries
<1>3. \A i \in DOMAIN table : table[i].topic # c
  BY DEF Known
<1>4. Entries' = Entries \cup {Entry(c, q)}
  BY <1>2 DEF Entries
<1>5. Distinct'
  BY <1>1, <1>2, <1>3 DEF Distinct
<1>. QED  BY <1>4, <1>5

\* No other entry has the topic of the last.
LEMMA LastEntry ==
    ASSUME Types, Distinct, table # <<>>
    PROVE  /\ Last(table) \in EntryType
           /\ \A e \in Entries : e.topic = Last(table).topic <=> e = Last(table)
<1>1. table \in Seq(EntryType)
  BY DEF Types
<1>2. Len(table) \in Nat \ {0} /\ DOMAIN table = 1 .. Len(table)
  BY <1>1, EmptySeq
<1>3. Len(table) \in DOMAIN table
  BY <1>2
<1>4. Last(table) = table[Len(table)] /\ Last(table) \in EntryType
  BY <1>1, <1>2, ElementOfSeq DEF Last
<1>5. \A i \in DOMAIN table : table[i].topic = Last(table).topic => i = Len(table)
  BY <1>3, <1>4 DEF Distinct
<1>. QED  BY <1>4, <1>5 DEF Entries

\* The last topic goes out of the table.
LEMMA LeftLast ==
    ASSUME Types, Distinct, table # <<>>, table' = SubSeq(table, 1, Len(table) - 1)
    PROVE  Entries' = Entries \ {Last(table)} /\ Distinct'
<1>1. table \in Seq(EntryType)
  BY DEF Types
<1>2. Len(table) \in Nat \ {0} /\ DOMAIN table = 1 .. Len(table)
  BY <1>1, EmptySeq
<1>3. Len(table) \in DOMAIN table /\ Len(table) - 1 \in Nat /\ Len(table) - 1 <= Len(table)
  BY <1>2
<1>4. /\ DOMAIN table' = 1 .. Len(table) - 1
      /\ \A i \in 1 .. Len(table) - 1 : table'[i] = table[i]
  BY <1>1, <1>3, Beginning
<1>5. \A i \in DOMAIN table : i = Len(table) \/ i \in DOMAIN table'
  BY <1>2, <1>4
<1>6. \A i \in DOMAIN table' : i \in DOMAIN table /\ i # Len(table) /\ table'[i] = table[i]
  BY <1>2, <1>4
<1>7. Last(table) = table[Len(table)]
  BY DEF Last
<1>8. \A i \in DOMAIN table : table[i].topic = Last(table).topic => i = Len(table)
  BY <1>3, <1>7 DEF Distinct
<1>9. Entries' = Entries \ {Last(table)}
  <2>1. ASSUME NEW i \in DOMAIN table'  PROVE table'[i] \in Entries \ {Last(table)}
    BY <1>6, <1>8 DEF Entries
  <2>2. ASSUME NEW e \in Entries, e # Last(table)  PROVE e \in Entries'
    <3>1. PICK i \in DOMAIN table : e = table[i]
      BY DEF Entries
    <3>2. i \in DOMAIN table'
      BY <1>5, <1>7, <2>2, <3>1
    <3>. QED  BY <1>6, <3>1, <3>2 DEF Entries
  <2>3. Entries' = {table'[i] : i \in DOMAIN table'}
    BY DEF Entries
  <2>. QED  BY <2>1, <2>2, <2>3
<1>10. Distinct'
  BY <1>6 DEF Distinct
<1>. QED  BY <1>9, <1>10

\* With every answer in and the broker where the table is, all is calm.
LEMMA CalmOnceAnswered ==
    ASSUME link' = "up", up' = <<>>, down' = <<>>, AllIdle', NothingNoted', subs' = Entries'
    PROVE  Calm'
<1>1. \A s \in subs' : Known(s.topic)'
  BY DEF Entries, Known
<1>2. \A i \in DOMAIN table' : table'[i] \in subs'
  BY DEF Entries
<1>3. DOMAIN up' = {} /\ DOMAIN down' = {}
  OBVIOUS
<1>. QED  BY <1>1, <1>2, <1>3 DEF Calm

\* SUBACK: what was noted comes into the table.
LEMMA HandleSubackStep ==
    ASSUME ChannelsInv, HandleSuback
    PROVE  ChannelsInv'
<1>. USE DEF ChannelsInv
<1>1. /\ app = "running" /\ down # <<>> /\ Head(down).type = "SUBACK" /\ down' = Tail(down)
      /\ UNCHANGED <<link, java, up, subs, clean>>
      /\ \/ /\ change.set
            /\ ClientTopicSet(change.topic, change.qos)
            /\ change' = [change EXCEPT !.set = FALSE]
         \/ /\ ~ change.set
            /\ UNCHANGED <<table, below, app, change>>
  BY DEF HandleSuback, configVars
<1>2. /\ orderly' \in BOOLEAN
      /\ orderly' => orderly /\ \A t \in Threads : java[t].pc \notin {"note topic", "note set"}
  BY Zenon DEF HandleSuback
<1>3. /\ change.topic \in Topics \cup {NoTopic} /\ change.qos \in 0 .. 2
      /\ change' \in [topic : Topics \cup {NoTopic}, qos : 0 .. 2, set : BOOLEAN]
      /\ ~ change'.set
  BY <1>1 DEF Types
<1>4. /\ down \in Seq(PacketType) /\ Tail(down) \in Seq(PacketType)
      /\ Head(down) = down[1] /\ 1 \in DOMAIN down
      /\ \A i \in DOMAIN Tail(down) : i + 1 \in DOMAIN down /\ Tail(down)[i] = down[i + 1]
  BY <1>1, Behind DEF Types
<1>5. Types'
  <2>1. /\ table' \in Seq(EntryType) /\ Len(table') <= QosSlots
        /\ below' \in Nat /\ (below' > 0 => table' = <<>>)
        /\ app' = app \/ app' = "crashed"
    BY <1>1, <1>3, ClientTopicSetTypes DEF Types
  <2>2. app' \in {"idle", "running", "ended", "crashed"}
    BY <1>1, <2>1
  <2>. QED  BY <1>1, <1>2, <1>3, <1>4, <2>1, <2>2 DEF Types
<1>6. ASSUME orderly', Calm, Distinct, below = 0
      PROVE  UNCHANGED <<table, below, app>> /\ Distinct' /\ Calm'
  <2>1. link = "up"
    <3>1. CASE link = "connecting"
      <4>1. down = <<Packet("CONNACK", NoTopic, 0, FALSE)>>
        BY <1>1, <1>6, <3>1 DEF Calm
      <4>2. Head(down).type = "CONNACK"
        BY <4>1 DEF Packet
      <4>. QED  BY <1>1, <4>2
    <3>. QED  BY <1>1, <1>6, <3>1 DEF Calm, NothingSent, Types
  <2>2. UNCHANGED <<table, below, app>>
    BY <1>1, <1>6 DEF Calm, NothingNoted, ClientTopicSet, configVars
  <2>3. AllIdle' /\ NothingNoted' /\ Distinct'
    BY <1>1, <1>3, <1>6, <2>2 DEF Calm, AllIdle, NothingNoted, Distinct
  <2>4. \A s \in subs' : Known(s.topic)'
    BY <1>1, <1>6, <2>1, <2>2 DEF Calm, Fresh, Known
  <2>5. \A i \in DOMAIN down' : down'[i].type = "SUBACK" /\ ~ down'[i].call
    BY <1>1, <1>4, <1>6, <2>1 DEF Calm
  <2>6. /\ \A i \in DOMAIN up' : /\ up'[i].type = "SUBSCRIBE" /\ ~ up'[i].call
                                 /\ Entry(up'[i].topic, up'[i].qos) \in Entries'
        /\ \A i \in DOMAIN table' : \/ table'[i] \in subs'
                                    \/ \E k \in DOMAIN up' : up'[k].topic = table'[i].topic
    BY <1>1, <1>6, <2>1, <2>2 DEF Calm, Entries
  <2>. QED  BY <1>1, <2>1, <2>2, <2>3, <2>4, <2>5, <2>6 DEF Calm
<1>7. ASSUME orderly', Entering, Distinct, below = 0
      PROVE  UNCHANGED <<below, app>> /\ Distinct' /\ Calm'
  <2>. DEFINE c == change.topic
              q == change.qos
  <2>1. /\ link = "up" /\ AllIdle /\ change.set /\ c \in Channels /\ ~ Known(c)
        /\ Len(table) < QosSlots /\ up = <<>> /\ down = <<Packet("SUBACK", c, q, TRUE)>>
        /\ subs = Entries \cup {Entry(c, q)}
    BY <1>1, <1>7 DEF Entering, Subscribed
  <2>2. table' = Append(table, Entry(c, q)) /\ UNCHANGED <<below, app>>
    BY <1>1, <1>7, <2>1 DEF ClientTopicSet, configVars
  <2>3. Entries' = Entries \cup {Entry(c, q)} /\ Distinct'
    BY <1>3, <1>7, <2>1, <2>2, Entered
  <2>4. down' = <<>>
    <3>1. Packet("SUBACK", c, q, TRUE) \in PacketType
      BY <1>3 DEF Packet, PacketType
    <3>. QED  BY <1>1, <2>1, <3>1, Single
  <2>5. AllIdle' /\ NothingNoted'
    BY <1>1, <1>3, <2>1 DEF AllIdle, NothingNoted
  <2>. QED  BY <1>1, <2>1, <2>2, <2>3, <2>4, <2>5, CalmOnceAnswered
<1>8. ASSUME orderly', app' = "running"
      PROVE  below' = 0 /\ Distinct' /\ Phase'
  <2>1. below = 0 /\ Distinct /\ Phase
    BY <1>1, <1>2, <1>8 DEF InTurns
  <2>2. ASSUME NEW t \in Threads, Starting(t) \/ Noting(t)  PROVE FALSE
    BY <1>1, <1>2, <1>8, <2>2 DEF Starting, Noting, NothingSent
  <2>3. CASE Quitting
    <3>1. down = <<Packet("UNSUBACK", Last(table).topic, 0, TRUE)>>
      BY <1>1, <2>3 DEF Quitting
    <3>2. Head(down).type = "UNSUBACK"
      BY <3>1 DEF Packet
    <3>. QED  BY <1>1, <3>2
  <2>. QED  BY <1>6, <1>7, <1>8, <2>1, <2>2, <2>3 DEF Phase
<1>9. ASSUME orderly'  PROVE app' = "running" /\ below' = 0
  <2>1. below = 0
    BY <1>2, <1>9 DEF InTurns
  <2>. QED  BY <1>1, <2>1 DEF ClientTopicSet, configVars
<1>10. InTurns'
  BY <1>8, <1>9 DEF InTurns
<1>. QED  BY <1>5, <1>10

\* UNSUBACK: the last topic goes out of the table.
LEMMA HandleUnsubackStep ==
    ASSUME ChannelsInv, HandleUnsuback
    PROVE  ChannelsInv'
<1>. USE DEF ChannelsInv
<1>1. /\ app = "running" /\ down # <<>> /\ Head(down).type = "UNSUBACK" /\ down' = Tail(down)
      /\ table' = SubSeq(table, 1, Len(table) - 1)
      /\ below' = IF table = <<>> THEN below + 1 ELSE below
      /\ UNCHANGED <<app, change, java, link, up, subs, clean, orderly>>
  BY DEF HandleUnsuback
<1>2. /\ down \in Seq(PacketType) /\ Tail(down) \in Seq(PacketType)
      /\ Head(down) = down[1] /\ 1 \in DOMAIN down
  BY <1>1, Behind DEF Types
<1>3. table \in Seq(EntryType) /\ Len(table) <= QosSlots /\ below \in Nat
      /\ (below > 0 => table = <<>>)
  BY DEF Types
<1>4. /\ table' \in Seq(EntryType) /\ Len(table') <= QosSlots /\ below' \in Nat
      /\ (below' > 0 => table' = <<>>)
  <2>1. CASE table = <<>>
    <3>1. table' \in Seq(EntryType) /\ Len(table') = 0
      BY <1>1, <2>1, SubSeqProperties
    <3>2. table' = <<>>
      BY <3>1, EmptySeq
    <3>. QED  BY <1>1, <1>3, <2>1, <3>1, <3>2, Arguments
  <2>2. CASE table # <<>>
    <3>1. Len(table) \in Nat \ {0}
      BY <1>3, <2>2, EmptySeq
    <3>2. Len(table) - 1 \in Nat /\ Len(table) - 1 <= Len(table)
      BY <3>1
    <3>3. table' \in Seq(EntryType) /\ Len(table') = Len(table) - 1
      <4>1. table \in Seq(EntryType)
        BY <1>3
      <4>. QED  BY ONLY <1>1, <3>2, <4>1, Beginning
    <3>. QED  BY <1>1, <1>3, <2>2, <3>1, <3>3, Arguments
  <2>. QED  BY <2>1, <2>2
<1>5. Types'
  BY <1>1, <1>2, <1>4 DEF Types
<1>6. ASSUME orderly  PROVE below' = 0 /\ Distinct' /\ Phase'
  <2>1. below = 0 /\ Distinct /\ Phase
    BY <1>1, <1>6 DEF InTurns
  <2>2. ASSUME Calm  PROVE FALSE
    <3>1. CASE link = "connecting"
      <4>1. down = <<Packet("CONNACK", NoTopic, 0, FALSE)>>
        BY <1>1, <2>2, <3>1 DEF Calm
      <4>2. Head(down).type = "CONNACK"
        BY <4>1 DEF Packet
      <4>. QED  BY <1>1, <4>2
    <3>2. CASE link = "up"
      BY <1>1, <1>2, <2>2, <3>2 DEF Calm
    <3>. QED  BY <1>1, <2>2, <3>1, <3>2 DEF Calm, NothingSent, Types
  <2>3. ASSUME NEW c, NEW q, Subscribed(c, q)  PROVE FALSE
    <3>1. down = <<Packet("SUBACK", c, q, TRUE)>>
      BY <1>1, <2>3 DEF Subscribed
    <3>2. Head(down).type = "SUBACK"
      BY <3>1 DEF Packet
    <3>. QED  BY <1>1, <3>2
  <2>4. Quitting
    BY <1>1, <2>1, <2>2, <2>3 DEF Phase, Starting, Noting, Entering,
       NothingSent
  <2>5. /\ link = "up" /\ AllIdle /\ NothingNoted /\ table # <<>> /\ up = <<>>
        /\ down = <<Packet("UNSUBACK", Last(table).topic, 0, TRUE)>>
        /\ subs = Entries \ {Last(table)}
    BY <1>1, <2>4 DEF Quitting
  <2>6. /\ Last(table) \in EntryType
        /\ Entries' = Entries \ {Last(table)} /\ Distinct'
    BY <1>1, <2>1, <2>5, LastEntry, LeftLast
  <2>7. down' = <<>>
    <3>1. Packet("UNSUBACK", Last(table).topic, 0, TRUE) \in PacketType
      BY <2>6 DEF Packet, PacketType, EntryType, Topics
    <3>. QED  BY <1>1, <2>5, <3>1, Single
  <2>8. AllIdle' /\ NothingNoted'
    BY <1>1, <2>5 DEF AllIdle, NothingNoted
  <2>9. Calm'
    BY <1>1, <2>5, <2>6, <2>7, <2>8, CalmOnceAnswered
  <2>. QED  BY <1>1, <2>1, <2>5, <2>6, <2>9 DEF Phase
<1>7. InTurns'
  BY <1>1, <1>6 DEF InTurns
<1>. QED  BY <1>5, <1>7

\* The loop is over and the configuration is freed.
LEMMA CliSubFreeStep ==
    ASSUME ChannelsInv, CliSubFree
    PROVE  ChannelsInv'
<1>. USE DEF ChannelsInv
<1>1. /\ app = "running" /\ link \in {"closed", "dialing"} /\ app' = "ended"
      /\ table' = <<>> /\ below' = 0
      /\ UNCHANGED <<change, java, link, up, down, subs, clean>>
  BY DEF CliSubFree, netVars
<1>2. orderly' \in BOOLEAN /\ (orderly' => orderly)
  BY Zenon DEF CliSubFree
<1>3. Types'
  <2>1. table' \in Seq(EntryType) /\ Len(table') <= QosSlots
    BY <1>1, EmptySeq, Arguments
  <2>. QED  BY <1>1, <1>2, <2>1 DEF Types
<1>4. ASSUME orderly'  PROVE AllIdle' /\ NothingNoted'
  <2>1. Calm
    BY <1>1, <1>2, <1>4, DownIsCalm DEF InTurns
  <2>. QED  BY <1>1, <2>1 DEF Calm, AllIdle, NothingNoted
<1>5. InTurns'
  BY <1>1, <1>4 DEF InTurns
<1>. QED  BY <1>3, <1>5

-----------------------------------------------------------------------------
(* The calls.                                                              *)

\* A crash ends the turns.
LEMMA CrashStep ==
    ASSUME ChannelsInv, NEW t \in Threads, Crash(t) \/ SubUnscribeTopic(t)
    PROVE  ChannelsInv'
<1>1. /\ app' = "crashed" /\ orderly' = FALSE
      /\ UNCHANGED <<table, below, change, java, link, up, down, subs, clean>>
  BY DEF Crash, SubUnscribeTopic, configVars, netVars
<1>2. Types'
  BY <1>1 DEF ChannelsInv, Types
<1>. QED  BY <1>1, <1>2 DEF ChannelsInv, InTurns

\* In turn, the broker is where the table is.
LEMMA InTurnSettled ==
    ASSUME ChannelsInv, orderly, app = "running", AllIdle, NothingSent, link = "up"
    PROVE  Distinct /\ below = 0 /\ NothingNoted /\ subs = Entries
<1>. USE DEF ChannelsInv
<1>1. Distinct /\ below = 0 /\ Phase
  BY DEF InTurns
<1>2. up = <<>> /\ down = <<>>
  BY DEF NothingSent
<1>3. \A c, q : ~ Subscribed(c, q)
  <2>. SUFFICES ASSUME NEW c, NEW q, Subscribed(c, q)  PROVE FALSE
    OBVIOUS
  <2>. QED  BY <1>2 DEF Subscribed
<1>4. ~ Entering /\ ~ Quitting
  BY <1>2, <1>3 DEF Entering, Quitting
<1>5. ASSUME NEW t \in Threads  PROVE ~ Starting(t) /\ ~ Noting(t)
  BY DEF AllIdle, Starting, Noting
<1>6. Calm
  BY <1>1, <1>4, <1>5 DEF Phase
<1>7. \A i \in DOMAIN table : table[i] \in subs
  BY <1>2, <1>6 DEF Calm
<1>8. ASSUME NEW s \in subs  PROVE s \in Entries
  <2>1. PICK i \in DOMAIN table : table[i].topic = s.topic
    BY <1>6 DEF Calm, Fresh, Known
  <2>2. table[i] = s
    BY <1>7, <2>1 DEF Types
  <2>. QED  BY <2>2 DEF Entries
<1>9. subs = Entries
  BY <1>7, <1>8 DEF Entries
<1>. QED  BY <1>1, <1>6, <1>9 DEF Calm

\* What InTurn asks for, of a connection.
LEMMA TakesTurn ==
    ASSUME Types, InTurn, Connected
    PROVE  AllIdle /\ NothingSent /\ link = "up"
BY Travelling DEF InTurn, AllIdle, Connected

\* With the table and the broker as they were, and every call typed.
LEMMA TypesOfCall ==
    ASSUME Types, java' \in [Threads -> CallType],
           change' \in [topic : Topics \cup {NoTopic}, qos : 0 .. 2, set : BOOLEAN],
           orderly' \in BOOLEAN,
           UNCHANGED <<app, table, below, link, up, down, subs, clean>>
    PROVE  Types'
BY DEF Types

\* A call begins to enter a channel.
LEMMA SubEnterChannelStep ==
    ASSUME ChannelsInv, NEW t \in Threads, NEW topic \in Topics, NEW q \in GivenQos,
           SubEnterChannel(t, topic, q)
    PROVE  ChannelsInv'
<1>. USE DEF ChannelsInv
<1>. DEFINE now == [pc |-> "subscribe", topic |-> topic, qos |-> Qos(q)]
<1>1. /\ app = "running" /\ java[t].pc = "idle" /\ ~ Known(topic) /\ Connected
      /\ java' = [java EXCEPT ![t] = now]
      /\ UNCHANGED <<app, table, below, change, link, up, down, subs, clean>>
  BY DEF SubEnterChannel, Call, configVars, netVars
<1>2. orderly' \in BOOLEAN /\ (orderly' => orderly /\ InTurn /\ Len(table) < QosSlots)
  BY Zenon DEF SubEnterChannel
<1>3. java \in [Threads -> CallType]
  BY DEF Types
<1>4. now \in CallType /\ now.pc = "subscribe" /\ now.topic = topic
  BY Arguments DEF CallType
<1>. HIDE DEF now
<1>5. /\ java' \in [Threads -> CallType] /\ java'[t] = now
      /\ \A u \in Threads \ {t} : java'[u] = java[u]
  BY <1>1, <1>3, <1>4
<1>6. Types'
  BY <1>1, <1>2, <1>5, TypesOfCall DEF Types
<1>7. ASSUME orderly'  PROVE below' = 0 /\ Distinct' /\ Starting(t)'
  <2>1. AllIdle /\ NothingSent /\ link = "up"
    BY <1>1, <1>2, <1>7, TakesTurn
  <2>2. Distinct /\ below = 0 /\ NothingNoted /\ subs = Entries
    BY <1>1, <1>2, <1>7, <2>1, InTurnSettled
  <2>3. below' = 0 /\ Distinct' /\ NothingNoted' /\ NothingSent' /\ subs' = Entries'
    BY <1>1, <2>1, <2>2 DEF Distinct, NothingNoted, NothingSent, Entries
  <2>4. java'[t].pc = "subscribe" /\ ~ Known(java[t].topic)' /\ Len(table') < QosSlots
    BY <1>1, <1>2, <1>4, <1>5, <1>7 DEF Known
  <2>5. \A u \in Threads \ {t} : java'[u].pc = "idle"
    BY <1>5, <2>1 DEF AllIdle
  <2>. QED  BY <1>1, <2>1, <2>3, <2>4, <2>5 DEF Starting
<1>8. InTurns'
  BY <1>1, <1>7 DEF InTurns, Phase
<1>. QED  BY <1>6, <1>8

\* A call begins to quit a channel.
LEMMA SubQuitChannelStep ==
    ASSUME ChannelsInv, NEW t \in Threads, NEW topic \in Topics, SubQuitChannel(t, topic)
    PROVE  ChannelsInv'
<1>. USE DEF ChannelsInv
<1>. DEFINE now == [pc |-> "unsubscribe", topic |-> topic, qos |-> 0]
<1>1. /\ app = "running" /\ java[t].pc = "idle" /\ Known(topic) /\ Connected
      /\ java' = [java EXCEPT ![t] = now]
      /\ UNCHANGED <<app, table, below, change, link, up, down, subs, clean>>
  BY DEF SubQuitChannel, Call, configVars, netVars
<1>2. orderly' \in BOOLEAN /\ (orderly' => orderly /\ InTurn /\ Last(table).topic = topic)
  BY Zenon DEF SubQuitChannel
<1>3. java \in [Threads -> CallType]
  BY DEF Types
<1>4. now \in CallType /\ now.pc = "unsubscribe" /\ now.topic = topic
  BY DEF CallType
<1>. HIDE DEF now
<1>5. /\ java' \in [Threads -> CallType] /\ java'[t] = now
      /\ \A u \in Threads \ {t} : java'[u] = java[u]
  BY <1>1, <1>3, <1>4
<1>6. Types'
  BY <1>1, <1>2, <1>5, TypesOfCall DEF Types
<1>7. ASSUME orderly'  PROVE below' = 0 /\ Distinct' /\ Starting(t)'
  <2>1. AllIdle /\ NothingSent /\ link = "up"
    BY <1>1, <1>2, <1>7, TakesTurn
  <2>2. Distinct /\ below = 0 /\ NothingNoted /\ subs = Entries
    BY <1>1, <1>2, <1>7, <2>1, InTurnSettled
  <2>3. below' = 0 /\ Distinct' /\ NothingNoted' /\ NothingSent' /\ subs' = Entries'
    BY <1>1, <2>1, <2>2 DEF Distinct, NothingNoted, NothingSent, Entries
  <2>4. table # <<>>
    BY <1>1 DEF Known
  <2>5. java'[t].pc = "unsubscribe" /\ table' # <<>> /\ Last(table').topic = java'[t].topic
    BY <1>1, <1>2, <1>4, <1>5, <1>7, <2>4
  <2>6. \A u \in Threads \ {t} : java'[u].pc = "idle"
    BY <1>5, <2>1 DEF AllIdle
  <2>. QED  BY <1>1, <2>1, <2>3, <2>5, <2>6 DEF Starting
<1>8. InTurns'
  BY <1>1, <1>7 DEF InTurns, Phase
<1>. QED  BY <1>6, <1>8

\* The call under way is the only one.
LEMMA OneCall ==
    ASSUME ChannelsInv, orderly, app = "running", NEW t \in Threads, java[t].pc # "idle"
    PROVE  below = 0 /\ Distinct /\ (Starting(t) \/ Noting(t))
<1>1. below = 0 /\ Distinct /\ Phase
  BY DEF ChannelsInv, InTurns
<1>2. ~ AllIdle
  BY DEF AllIdle
<1>3. PICK u \in Threads : Starting(u) \/ Noting(u)
  BY <1>1, <1>2 DEF Phase, Calm, Entering, Quitting
<1>4. u = t
  BY <1>3 DEF Starting, Noting
<1>. QED  BY <1>1, <1>3, <1>4

\* mosquitto_subscribe queues the packet, if the topic is valid.
LEMMA SubscribeStep ==
    ASSUME ChannelsInv, NEW t \in Threads, Subscribe(t)
    PROVE  ChannelsInv'
<1>. USE DEF ChannelsInv
<1>. DEFINE c == java[t].topic
            q == java[t].qos
            p == Packet("SUBSCRIBE", c, q, TRUE)
<1>1. /\ app = "running" /\ java[t].pc = "subscribe"
      /\ up' = IF HasSocket /\ c \in Channels THEN Append(up, p) ELSE up
      /\ java' = [java EXCEPT ![t].pc = "note topic"]
      /\ UNCHANGED <<app, table, below, change, link, down, subs, clean, orderly>>
  BY DEF Subscribe, configVars
<1>2. java \in [Threads -> CallType] /\ java[t] \in CallType
  BY DEF Types
<1>3. c \in Topics \cup {NoTopic} /\ q \in 0 .. 2
  BY <1>2 DEF CallType
<1>4. p \in PacketType /\ p.type = "SUBSCRIBE" /\ p.topic = c
  BY <1>3 DEF Packet, PacketType
<1>. HIDE DEF p
<1>5. /\ java' \in [Threads -> CallType] /\ java'[t].pc = "note topic"
      /\ java'[t].topic = c /\ java'[t].qos = q
      /\ \A u \in Threads \ {t} : java'[u] = java[u]
  BY <1>1, <1>2 DEF CallType
<1>. HIDE DEF c, q
<1>6. up \in Seq(PacketType) /\ \A i \in DOMAIN up : up[i].type = "SUBSCRIBE" => up[i].topic \in Channels
  BY DEF Types
<1>7. /\ up' \in Seq(PacketType)
      /\ \A i \in DOMAIN up' : up'[i].type = "SUBSCRIBE" => up'[i].topic \in Channels
  <2>1. CASE HasSocket /\ c \in Channels
    <3>1. up' = Append(up, p)
      BY <1>1, <2>1
    <3>2. /\ up' \in Seq(PacketType)
          /\ \A i \in DOMAIN up : up'[i] = up[i]
          /\ up'[Len(up) + 1] = p
          /\ \A i \in DOMAIN up' : i \in DOMAIN up \/ i = Len(up) + 1
      BY <1>4, <1>6, <3>1, AppendEntries
    <3>. QED  BY <1>4, <1>6, <2>1, <3>2
  <2>2. CASE ~ (HasSocket /\ c \in Channels)
    BY <1>1, <1>6, <2>2
  <2>. QED  BY <2>1, <2>2
<1>8. Types'
  BY <1>1, <1>5, <1>7 DEF Types
<1>9. ASSUME orderly  PROVE below' = 0 /\ Distinct' /\ Noting(t)'
  <2>1. below = 0 /\ Distinct /\ Starting(t)
    BY <1>1, <1>9, OneCall DEF Noting
  <2>2. /\ link = "up" /\ up = <<>> /\ down = <<>> /\ NothingNoted /\ subs = Entries
        /\ \A u \in Threads \ {t} : java[u].pc = "idle"
        /\ ~ Known(c) /\ Len(table) < QosSlots
    BY <1>1, <2>1 DEF Starting, NothingSent, c
  <2>3. /\ below' = 0 /\ Distinct' /\ NothingNoted' /\ subs' = Entries'
        /\ ~ Known(java[t].topic)'
    <3>1. below' = 0 /\ Distinct' /\ NothingNoted'
      BY <1>1, <2>1, <2>2 DEF Distinct, NothingNoted
    <3>2. subs' = Entries'
      BY <1>1, <2>2 DEF Entries
    <3>3. \A i \in DOMAIN table : table[i].topic # c
      BY <2>2 DEF Known
    <3>4. ~ Known(java[t].topic)'
      BY <1>1, <1>5, <3>3 DEF Known
    <3>. QED  BY <3>1, <3>2, <3>4
  <2>4. c \in Channels => up' = <<p>> /\ down' = <<>>
    BY <1>1, <1>4, <2>2, Single DEF HasSocket
  <2>5. c \notin Channels => NothingSent'
    BY <1>1, <2>2 DEF NothingSent
  <2>6. c \in Channels => Subscribed(java[t].topic, java[t].qos)'
    BY <1>1, <1>5, <2>2, <2>3, <2>4 DEF Subscribed, p
  <2>. QED  BY <1>1, <1>5, <2>2, <2>3, <2>5, <2>6 DEF Noting
<1>10. InTurns'
  BY <1>1, <1>9 DEF InTurns, Phase
<1>. QED  BY <1>8, <1>10

\* change_topic and change_qos are set.
LEMMA NoteTopicStep ==
    ASSUME ChannelsInv, NEW t \in Threads, NoteTopic(t)
    PROVE  ChannelsInv'
<1>. USE DEF ChannelsInv
<1>1. /\ app = "running" /\ java[t].pc = "note topic"
      /\ change' = [change EXCEPT !.topic = java[t].topic, !.qos = java[t].qos]
      /\ java' = [java EXCEPT ![t].pc = "note set"]
      /\ UNCHANGED <<app, table, below, link, up, down, subs, clean, orderly>>
  BY DEF NoteTopic, configVars, netVars
<1>2. java \in [Threads -> CallType] /\ java[t] \in CallType
  BY DEF Types
<1>3. /\ java' \in [Threads -> CallType] /\ java'[t].pc = "note set"
      /\ java'[t].topic = java[t].topic /\ java'[t].qos = java[t].qos
      /\ \A u \in Threads \ {t} : java'[u] = java[u]
  BY <1>1, <1>2 DEF CallType
<1>4. /\ change' \in [topic : Topics \cup {NoTopic}, qos : 0 .. 2, set : BOOLEAN]
      /\ change'.topic = java'[t].topic /\ change'.qos = java'[t].qos
  BY <1>1, <1>2, <1>3 DEF Types, CallType
<1>5. Types'
  BY <1>1, <1>3, <1>4, TypesOfCall DEF Types
<1>6. ASSUME orderly  PROVE below' = 0 /\ Distinct' /\ Noting(t)'
  <2>1. below = 0 /\ Distinct /\ Noting(t)
    BY <1>1, <1>6, OneCall DEF Starting
  <2>2. below' = 0 /\ Distinct'
    BY <1>1, <2>1 DEF Distinct
  <2>3. ASSUME Subscribed(java[t].topic, java[t].qos)
        PROVE  Subscribed(java[t].topic, java[t].qos)'
    <3>1. Entries' = Entries /\ (Known(java[t].topic)' <=> Known(java[t].topic))
      BY <1>1, <1>3 DEF Entries, Known
    <3>2. Packet("SUBSCRIBE", java'[t].topic, java'[t].qos, TRUE)
              = Packet("SUBSCRIBE", java[t].topic, java[t].qos, TRUE)
          /\ Packet("SUBACK", java'[t].topic, java'[t].qos, TRUE)
              = Packet("SUBACK", java[t].topic, java[t].qos, TRUE)
          /\ Entry(java'[t].topic, java'[t].qos) = Entry(java[t].topic, java[t].qos)
      BY <1>3
    <3>. QED  BY <1>1, <1>3, <2>3, <3>1, <3>2 DEF Subscribed
  <2>4. \/ Subscribed(java[t].topic, java[t].qos)'
        \/ java'[t].topic \notin Channels /\ NothingSent' /\ subs' = Entries'
    BY <1>1, <1>3, <2>1, <2>3 DEF Noting, NothingSent, Entries
  <2>. QED  BY <1>1, <1>3, <1>4, <2>1, <2>2, <2>4 DEF Noting
<1>7. InTurns'
  BY <1>1, <1>6 DEF InTurns, Phase
<1>. QED  BY <1>5, <1>7

\* sub_set is set, and the call returns.
LEMMA NoteSetStep ==
    ASSUME ChannelsInv, NEW t \in Threads, NoteSet(t)
    PROVE  ChannelsInv'
<1>. USE DEF ChannelsInv
<1>1. /\ app = "running" /\ java[t].pc = "note set"
      /\ change' = [change EXCEPT !.set = TRUE]
      /\ java' = [java EXCEPT ![t] = Idle]
      /\ UNCHANGED <<app, table, below, link, up, down, subs, clean, orderly>>
  BY DEF NoteSet, Resting, configVars, netVars
<1>2. /\ java \in [Threads -> CallType]
      /\ change \in [topic : Topics \cup {NoTopic}, qos : 0 .. 2, set : BOOLEAN]
  BY DEF Types
<1>3. /\ java' \in [Threads -> CallType] /\ java'[t].pc = "idle"
      /\ \A u \in Threads \ {t} : java'[u] = java[u]
  BY <1>1, <1>2, Arguments
<1>4. /\ change' \in [topic : Topics \cup {NoTopic}, qos : 0 .. 2, set : BOOLEAN]
      /\ change'.set /\ change'.topic = change.topic /\ change'.qos = change.qos
  BY <1>1, <1>2
<1>5. Types'
  BY <1>1, <1>3, <1>4, TypesOfCall DEF Types
<1>6. ASSUME orderly  PROVE below' = 0 /\ Distinct' /\ (Entering' \/ Calm')
  <2>1. below = 0 /\ Distinct /\ Noting(t)
    BY <1>1, <1>6, OneCall DEF Starting
  <2>2. below' = 0 /\ Distinct'
    BY <1>1, <2>1 DEF Distinct
  <2>3. /\ link = "up" /\ \A u \in Threads \ {t} : java[u].pc = "idle"
        /\ change.topic = java[t].topic /\ change.qos = java[t].qos
    BY <1>1, <2>1 DEF Noting
  <2>4. AllIdle'
    BY <1>3, <2>3 DEF AllIdle
  <2>5. CASE Subscribed(change.topic, change.qos)
    <3>1. Subscribed(change.topic, change.qos)'
      BY <1>1, <1>4, <2>5 DEF Subscribed, Known, Entries
    <3>2. Entering'
      BY <1>1, <1>4, <2>3, <2>4, <3>1 DEF Entering
    <3>. QED  BY <2>2, <3>2
  <2>6. CASE ~ Subscribed(change.topic, change.qos)
    <3>1. change.topic \notin Channels /\ up = <<>> /\ down = <<>> /\ subs = Entries
      BY <2>1, <2>3, <2>6 DEF Noting, NothingSent
    <3>2. NothingNoted' /\ subs' = Entries'
      BY <1>1, <1>4, <3>1 DEF NothingNoted, Entries
    <3>3. Calm'
      BY <1>1, <2>3, <2>4, <3>1, <3>2, CalmOnceAnswered
    <3>. QED  BY <2>2, <3>3
  <2>. QED  BY <2>5, <2>6
<1>7. InTurns'
  BY <1>1, <1>6 DEF InTurns, Phase
<1>. QED  BY <1>5, <1>7

\* mosquitto_unsubscribe queues the packet, and the call returns.
LEMMA UnsubscribeStep ==
    ASSUME ChannelsInv, NEW t \in Threads, Unsubscribe(t)
    PROVE  ChannelsInv'
<1>. USE DEF ChannelsInv
<1>. DEFINE p == Packet("UNSUBSCRIBE", java[t].topic, 0, TRUE)
<1>1. /\ app = "running" /\ java[t].pc = "unsubscribe"
      /\ up' = IF HasSocket THEN Append(up, p) ELSE up
      /\ java' = [java EXCEPT ![t] = Idle]
      /\ UNCHANGED <<app, table, below, change, link, down, subs, clean, orderly>>
  BY DEF Unsubscribe, Resting, configVars
<1>2. java \in [Threads -> CallType] /\ java[t] \in CallType
  BY DEF Types
<1>3. p \in PacketType /\ p.type = "UNSUBSCRIBE"
  <2>1. java[t].topic \in Topics \cup {NoTopic}
    BY <1>2 DEF CallType
  <2>. QED  BY <2>1 DEF Packet, PacketType
<1>. HIDE DEF p
<1>4. /\ java' \in [Threads -> CallType] /\ java'[t].pc = "idle"
      /\ \A u \in Threads \ {t} : java'[u] = java[u]
  BY <1>1, <1>2, Arguments
<1>5. up \in Seq(PacketType) /\ \A i \in DOMAIN up : up[i].type = "SUBSCRIBE" => up[i].topic \in Channels
  BY DEF Types
<1>6. /\ up' \in Seq(PacketType)
      /\ \A i \in DOMAIN up' : up'[i].type = "SUBSCRIBE" => up'[i].topic \in Channels
  <2>1. CASE HasSocket
    <3>1. up' = Append(up, p)
      BY <1>1, <2>1
    <3>2. /\ up' \in Seq(PacketType)
          /\ \A i \in DOMAIN up : up'[i] = up[i]
          /\ up'[Len(up) + 1] = p
          /\ \A i \in DOMAIN up' : i \in DOMAIN up \/ i = Len(up) + 1
      BY <1>3, <1>5, <3>1, AppendEntries
    <3>. QED  BY <1>3, <1>5, <3>2
  <2>2. CASE ~ HasSocket
    BY <1>1, <1>5, <2>2
  <2>. QED  BY <2>1, <2>2
<1>7. Types'
  BY <1>1, <1>4, <1>6 DEF Types
<1>8. ASSUME orderly  PROVE below' = 0 /\ Distinct' /\ Quitting'
  <2>1. below = 0 /\ Distinct /\ Starting(t)
    BY <1>1, <1>8, OneCall DEF Noting
  <2>2. /\ link = "up" /\ up = <<>> /\ down = <<>> /\ NothingNoted /\ subs = Entries
        /\ \A u \in Threads \ {t} : java[u].pc = "idle"
        /\ table # <<>> /\ Last(table).topic = java[t].topic
    BY <1>1, <2>1 DEF Starting, NothingSent
  <2>3. below' = 0 /\ Distinct' /\ NothingNoted' /\ subs' = Entries' /\ AllIdle'
    BY <1>1, <1>4, <2>1, <2>2 DEF Distinct, NothingNoted, Entries, AllIdle
  <2>4. up' = <<Packet("UNSUBSCRIBE", Last(table).topic, 0, TRUE)>>
    BY <1>1, <1>3, <2>2, Single DEF HasSocket, p
  <2>. QED  BY <1>1, <2>2, <2>3, <2>4 DEF Quitting
<1>9. InTurns'
  BY <1>1, <1>8 DEF InTurns, Phase
<1>. QED  BY <1>7, <1>9

-----------------------------------------------------------------------------
(* The network and the broker.                                             *)

\* The connection is lost, with the packets on their way.
LEMMA LoseStep ==
    ASSUME ChannelsInv, Lose
    PROVE  ChannelsInv'
<1>. USE DEF ChannelsInv
<1>1. /\ app = "running" /\ link \in {"up", "connecting"}
      /\ link' = IF link = "up" THEN "closed" ELSE "dialing"
      /\ up' = <<>> /\ down' = <<>>
      /\ UNCHANGED <<app, table, below, change, java, subs, clean>>
  BY DEF Lose, HasSocket, configVars
<1>2. /\ orderly' \in BOOLEAN
      /\ orderly' => orderly /\ AllIdle /\ \A i \in DOMAIN InFlight : ~ InFlight[i].call
  BY Zenon DEF Lose, AllIdle
<1>3. Types'
  <2>1. up' \in Seq(PacketType) /\ down' \in Seq(PacketType) /\ DOMAIN up' = {}
    BY <1>1, EmptySeq
  <2>2. link' \in {"up", "closed", "dialing", "connecting"}
    BY <1>1
  <2>. QED  BY <1>1, <1>2, <2>1, <2>2 DEF Types
<1>4. ASSUME orderly'  PROVE below' = 0 /\ Distinct' /\ Calm'
  <2>1. below = 0 /\ Distinct /\ Phase /\ AllIdle
    BY <1>1, <1>2, <1>4 DEF InTurns
  <2>2. (\A i \in DOMAIN up : ~ up[i].call) /\ (\A i \in DOMAIN down : ~ down[i].call)
    BY <1>2, <1>4, Travelling
  <2>3. ASSUME NEW type, NEW topic, NEW q, NEW s, s = <<Packet(type, topic, q, TRUE)>>,
               \A i \in DOMAIN s : ~ s[i].call
        PROVE  FALSE
    BY <2>3 DEF Packet
  <2>4. ~ Entering /\ ~ Quitting
    BY <2>2, <2>3 DEF Entering, Subscribed, Quitting
  <2>5. \A t \in Threads : ~ Starting(t) /\ ~ Noting(t)
    BY <2>1 DEF AllIdle, Starting, Noting
  <2>6. Calm
    BY <2>1, <2>4, <2>5 DEF Phase
  <2>7. below' = 0 /\ Distinct' /\ AllIdle' /\ NothingNoted' /\ NothingSent'
    BY <1>1, <2>1, <2>6 DEF Calm, AllIdle, NothingNoted, NothingSent, Distinct
  <2>8. ~ Fresh' => ~ Fresh
    BY <1>1 DEF Fresh
  <2>9. ~ Fresh' => \A s \in subs' : Known(s.topic)'
    BY <1>1, <2>6, <2>8 DEF Calm, Known
  <2>. QED  BY <1>1, <2>7, <2>9 DEF Calm
<1>5. InTurns'
  BY <1>1, <1>4 DEF InTurns, Phase
<1>. QED  BY <1>3, <1>5

\* An answer is the packet with another type.
LEMMA Answers ==
    \A type, other, c, q, call :
        [Packet(type, c, q, call) EXCEPT !.type = other] = Packet(other, c, q, call)
BY DEF Packet

\* What the broker takes and what it answers.
LEMMA Answering ==
    ASSUME Types, up # <<>>, up' = Tail(up), NEW answer \in PacketType,
           down' = Append(down, answer)
    PROVE  /\ up' \in Seq(PacketType) /\ down' \in Seq(PacketType)
           /\ Head(up) = up[1] /\ 1 \in DOMAIN up /\ Head(up) \in PacketType
           /\ \A i \in DOMAIN up' : i + 1 \in DOMAIN up /\ up'[i] = up[i + 1]
           /\ \A k \in DOMAIN up : k = 1 \/ (k - 1 \in DOMAIN up' /\ up'[k - 1] = up[k])
           /\ \A i \in DOMAIN up' : up'[i].type = "SUBSCRIBE" => up'[i].topic \in Channels
           /\ \A i \in DOMAIN down' :
                 (i \in DOMAIN down /\ down'[i] = down[i]) \/ down'[i] = answer
<1>1. up \in Seq(PacketType) /\ down \in Seq(PacketType)
  BY DEF Types
<1>2. /\ up' \in Seq(PacketType)
      /\ Head(up) = up[1] /\ 1 \in DOMAIN up /\ Head(up) \in PacketType
      /\ \A i \in DOMAIN up' : i + 1 \in DOMAIN up /\ up'[i] = up[i + 1]
      /\ \A k \in DOMAIN up : k = 1 \/ (k - 1 \in DOMAIN up' /\ up'[k - 1] = up[k])
  BY <1>1, Behind
<1>3. \A i \in DOMAIN up' : up'[i].type = "SUBSCRIBE" => up'[i].topic \in Channels
  BY <1>2 DEF Types
<1>4. /\ down' \in Seq(PacketType)
      /\ \A i \in DOMAIN down' :
            (i \in DOMAIN down /\ down'[i] = down[i]) \/ down'[i] = answer
  BY <1>1, AppendEntries
<1>. QED  BY <1>2, <1>3, <1>4

\* CONNACK; a clean session begins without subscriptions.
LEMMA BrokerConnackStep ==
    ASSUME ChannelsInv, BrokerConnack
    PROVE  ChannelsInv'
<1>. USE DEF ChannelsInv
<1>. DEFINE answer == Packet("CONNACK", NoTopic, 0, FALSE)
<1>1. /\ app = "running" /\ up # <<>> /\ Head(up).type = "CONNECT"
      /\ subs' = IF clean THEN {} ELSE subs
      /\ up' = Tail(up) /\ down' = Append(down, answer)
      /\ UNCHANGED <<app, table, below, change, java, link, clean, orderly>>
  BY DEF BrokerConnack, configVars
<1>2. answer \in PacketType
  BY DEF Packet, PacketType
<1>. HIDE DEF answer
<1>3. /\ up' \in Seq(PacketType) /\ down' \in Seq(PacketType)
      /\ Head(up) = up[1] /\ 1 \in DOMAIN up
      /\ \A i \in DOMAIN up' : up'[i].type = "SUBSCRIBE" => up'[i].topic \in Channels
  BY <1>1, <1>2, Answering
<1>4. subs' \subseteq subs
  BY <1>1
<1>5. Types'
  BY <1>1, <1>3, <1>4 DEF Types
<1>6. ASSUME orderly  PROVE below' = 0 /\ Distinct' /\ Calm'
  <2>1. below = 0 /\ Distinct /\ Phase
    BY <1>1, <1>6 DEF InTurns
  <2>2. ASSUME NEW type, NEW topic, NEW q, NEW call, up = <<Packet(type, topic, q, call)>>
        PROVE  type = "CONNECT"
    BY <1>1, <2>2 DEF Packet
  <2>3. ~ Entering /\ ~ Quitting
    BY <1>1, <2>2 DEF Entering, Subscribed, Quitting
  <2>4. \A t \in Threads : ~ Starting(t) /\ ~ Noting(t)
    BY <1>1, <2>2 DEF Starting, Noting, Subscribed, NothingSent
  <2>5. Calm
    BY <2>1, <2>3, <2>4 DEF Phase
  <2>6. link = "connecting"
    <3>1. link # "up"
      BY <1>1, <1>3, <2>5 DEF Calm
    <3>2. link \notin {"closed", "dialing"}
      BY <1>1, <2>5 DEF Calm, NothingSent
    <3>. QED  BY <3>1, <3>2 DEF Types
  <2>7. up = <<Packet("CONNECT", NoTopic, 0, FALSE)>> /\ down = <<>>
    BY <1>1, <2>5, <2>6 DEF Calm
  <2>8. up' = <<>> /\ down' = <<answer>>
    <3>1. Packet("CONNECT", NoTopic, 0, FALSE) \in PacketType
      BY DEF Packet, PacketType
    <3>. QED  BY <1>1, <1>2, <2>7, <3>1, Single
  <2>9. below' = 0 /\ Distinct' /\ AllIdle' /\ NothingNoted'
    BY <1>1, <2>1, <2>5 DEF Calm, AllIdle, NothingNoted, Distinct
  <2>10. \A s \in subs' : Known(s.topic)'
    BY <1>1, <2>5 DEF Calm, Fresh, Known
  <2>. QED  BY <1>1, <2>6, <2>8, <2>9, <2>10 DEF Calm, answer
<1>7. InTurns'
  BY <1>1, <1>6 DEF InTurns, Phase
<1>. QED  BY <1>5, <1>7

\* SUBACK.
LEMMA BrokerSubackStep ==
    ASSUME ChannelsInv, BrokerSuback
    PROVE  ChannelsInv'
<1>. USE DEF ChannelsInv
<1>. DEFINE p == Head(up)
            e == Entry(p.topic, p.qos)
            answer == [p EXCEPT !.type = "SUBACK"]
<1>1. /\ app = "running" /\ up # <<>> /\ p.type = "SUBSCRIBE"
      /\ subs' = Without(p.topic) \cup {e}
      /\ up' = Tail(up) /\ down' = Append(down, answer)
      /\ UNCHANGED <<app, table, below, change, java, link, clean, orderly>>
  BY DEF BrokerSuback, configVars
<1>2. p \in PacketType /\ p = up[1] /\ 1 \in DOMAIN up
  BY <1>1, Behind DEF Types
<1>3. p.topic \in Channels /\ p.qos \in 0 .. 2 /\ p.call \in BOOLEAN
  BY <1>1, <1>2 DEF Types, PacketType
<1>4. /\ answer \in PacketType /\ answer.type = "SUBACK" /\ answer.topic = p.topic
      /\ answer.qos = p.qos /\ (answer.call <=> p.call)
  BY <1>2 DEF PacketType
<1>5. e \in EntryType /\ e.topic = p.topic
  BY <1>3, Arguments
<1>. HIDE DEF p, e, answer
<1>6. /\ up' \in Seq(PacketType) /\ down' \in Seq(PacketType)
      /\ \A i \in DOMAIN up' : i + 1 \in DOMAIN up /\ up'[i] = up[i + 1]
      /\ \A k \in DOMAIN up : k = 1 \/ (k - 1 \in DOMAIN up' /\ up'[k - 1] = up[k])
      /\ \A i \in DOMAIN up' : up'[i].type = "SUBSCRIBE" => up'[i].topic \in Channels
      /\ \A i \in DOMAIN down' :
            (i \in DOMAIN down /\ down'[i] = down[i]) \/ down'[i] = answer
  BY <1>1, <1>4, Answering
<1>7. Types'
  <2>1. subs' \subseteq EntryType /\ \A s, u \in subs' : s.topic = u.topic => s = u
    BY <1>1, <1>5 DEF Types, Without
  <2>. QED  BY <1>1, <1>6, <2>1 DEF Types
<1>8. ASSUME Calm, Distinct  PROVE Distinct' /\ Calm'
  <2>1. link = "up"
    <3>1. link # "connecting"
      BY <1>1, <1>2, <1>8 DEF Calm, Packet
    <3>2. link \notin {"closed", "dialing"}
      BY <1>1, <1>8 DEF Calm, NothingSent
    <3>. QED  BY <3>1, <3>2 DEF Types
  <2>2. Distinct' /\ AllIdle' /\ NothingNoted' /\ Entries' = Entries
    BY <1>1, <1>8 DEF Calm, AllIdle, NothingNoted, Distinct, Entries
  <2>3. e \in Entries /\ ~ p.call
    BY <1>2, <1>8, <2>1 DEF Calm, e
  <2>4. \A s \in subs' : Known(s.topic)'
    BY <1>1, <1>8, <2>1, <2>3 DEF Calm, Fresh, Known, Entries, Without
  <2>5. \A i \in DOMAIN down' : down'[i].type = "SUBACK" /\ ~ down'[i].call
    BY <1>4, <1>6, <1>8, <2>1, <2>3 DEF Calm
  <2>6. \A i \in DOMAIN up' : /\ up'[i].type = "SUBSCRIBE" /\ ~ up'[i].call
                              /\ Entry(up'[i].topic, up'[i].qos) \in Entries'
    BY <1>6, <1>8, <2>1, <2>2 DEF Calm
  <2>7. ASSUME NEW i \in DOMAIN table
        PROVE  table[i] \in subs' \/ \E k \in DOMAIN up' : up'[k].topic = table[i].topic
    <3>1. CASE table[i].topic = p.topic
      <4>1. table[i] = e
        BY <1>5, <1>8, <2>3, <3>1 DEF Distinct, Entries
      <4>. QED  BY <1>1, <4>1
    <3>2. CASE table[i].topic # p.topic /\ table[i] \in subs
      BY <1>1, <3>2 DEF Without
    <3>3. ASSUME table[i].topic # p.topic, NEW k \in DOMAIN up, up[k].topic = table[i].topic
          PROVE  \E n \in DOMAIN up' : up'[n].topic = table[i].topic
      BY <1>2, <1>6, <3>3
    <3>. QED  BY <1>8, <2>1, <3>1, <3>2, <3>3 DEF Calm
  <2>. QED  BY <1>1, <2>1, <2>2, <2>4, <2>5, <2>6, <2>7 DEF Calm
<1>9. ASSUME NEW c, NEW q, Subscribed(c, q)
      PROVE  /\ c \in Channels /\ ~ (\E i \in DOMAIN table' : table'[i].topic = c)
             /\ Len(table') < QosSlots
             /\ up' = <<>> /\ down' = <<Packet("SUBACK", c, q, TRUE)>>
             /\ subs' = Entries' \cup {Entry(c, q)}
  <2>1. /\ c \in Channels /\ ~ Known(c) /\ Len(table) < QosSlots
        /\ up = <<Packet("SUBSCRIBE", c, q, TRUE)>> /\ down = <<>> /\ subs = Entries
    BY <1>1, <1>9 DEF Subscribed
  <2>2. p = Packet("SUBSCRIBE", c, q, TRUE)
    BY <1>2, <2>1
  <2>3. p.topic = c /\ p.qos = q
    BY <2>2 DEF Packet
  <2>4. answer = Packet("SUBACK", c, q, TRUE)
    <3>. DEFINE yes == TRUE
    <3>1. p = Packet("SUBSCRIBE", c, q, yes)
      BY <2>2
    <3>. HIDE DEF yes
    <3>2. answer = Packet("SUBACK", c, q, yes)
      BY <3>1, Answers DEF answer
    <3>. QED  BY <3>2 DEF yes
  <2>5. up' = <<>> /\ down' = <<answer>>
    BY <1>1, <1>2, <1>4, <2>1, <2>2, Single
  <2>6. Entries' = Entries /\ ~ (\E i \in DOMAIN table' : table'[i].topic = c)
    BY <1>1, <2>1 DEF Entries, Known
  <2>7. Without(c) = subs
    BY <2>1 DEF Without, Entries, Known
  <2>8. subs' = Entries' \cup {Entry(c, q)}
    BY <1>1, <2>1, <2>3, <2>6, <2>7 DEF e
  <2>. QED  BY <1>1, <2>1, <2>4, <2>5, <2>6, <2>8
<1>10. ASSUME NEW t \in Threads, Noting(t)  PROVE Noting(t)'
  <2>1. Subscribed(java[t].topic, java[t].qos)
    BY <1>1, <1>10 DEF Noting, NothingSent
  <2>2. Subscribed(java[t].topic, java[t].qos)'
    BY <1>1, <1>9, <2>1 DEF Subscribed, Known
  <2>. QED  BY <1>1, <1>10, <2>2 DEF Noting, NothingNoted
<1>11. ASSUME Entering  PROVE Entering'
  <2>1. Subscribed(change.topic, change.qos)'
    BY <1>1, <1>9, <1>11 DEF Subscribed, Known, Entering
  <2>. QED  BY <1>1, <1>11, <2>1 DEF Entering, AllIdle
<1>12. ASSUME orderly  PROVE below' = 0 /\ Distinct' /\ Phase'
  <2>1. below = 0 /\ Distinct /\ Phase
    BY <1>1, <1>12 DEF InTurns
  <2>2. below' = 0 /\ Distinct'
    BY <1>1, <2>1 DEF Distinct
  <2>3. \A t \in Threads : ~ Starting(t)
    BY <1>1 DEF Starting, NothingSent
  <2>4. ~ Quitting
    BY <1>1, <1>2 DEF Quitting, Packet
  <2>. QED  BY <1>8, <1>10, <1>11, <2>1, <2>2, <2>3, <2>4 DEF Phase
<1>13. InTurns'
  BY <1>1, <1>12 DEF InTurns
<1>. QED  BY <1>7, <1>13

\* UNSUBACK.
LEMMA BrokerUnsubackStep ==
    ASSUME ChannelsInv, BrokerUnsuback
    PROVE  ChannelsInv'
<1>. USE DEF ChannelsInv
<1>. DEFINE p == Head(up)
            answer == [p EXCEPT !.type = "UNSUBACK"]
<1>1. /\ app = "running" /\ up # <<>> /\ p.type = "UNSUBSCRIBE"
      /\ subs' = Without(p.topic)
      /\ up' = Tail(up) /\ down' = Append(down, answer)
      /\ UNCHANGED <<app, table, below, change, java, link, clean, orderly>>
  BY DEF BrokerUnsuback, configVars
<1>2. p \in PacketType /\ p = up[1] /\ 1 \in DOMAIN up
  BY <1>1, Behind DEF Types
<1>3. answer \in PacketType
  BY <1>2 DEF PacketType
<1>. HIDE DEF p, answer
<1>4. /\ up' \in Seq(PacketType) /\ down' \in Seq(PacketType)
      /\ \A i \in DOMAIN up' : up'[i].type = "SUBSCRIBE" => up'[i].topic \in Channels
  BY <1>1, <1>3, Answering
<1>5. Types'
  <2>1. subs' \subseteq subs
    BY <1>1 DEF Without
  <2>. QED  BY <1>1, <1>4, <2>1 DEF Types
<1>6. ASSUME orderly  PROVE below' = 0 /\ Distinct' /\ Quitting'
  <2>1. below = 0 /\ Distinct /\ Phase
    BY <1>1, <1>6 DEF InTurns
  <2>2. ASSUME NEW type, NEW topic, NEW q, NEW call, up = <<Packet(type, topic, q, call)>>
        PROVE  type = "UNSUBSCRIBE"
    BY <1>1, <1>2, <2>2 DEF Packet
  <2>3. \A c, q : ~ Subscribed(c, q)
    <3>. SUFFICES ASSUME NEW c, NEW q, Subscribed(c, q)  PROVE FALSE
      OBVIOUS
    <3>. QED  BY <1>1, <2>2 DEF Subscribed
  <2>4. ~ Calm
    <3>1. ASSUME Calm, link = "connecting"  PROVE FALSE
      BY <1>1, <2>2, <3>1 DEF Calm
    <3>2. ASSUME Calm, link = "up"  PROVE FALSE
      BY <1>1, <1>2, <3>2 DEF Calm
    <3>3. ASSUME Calm, link \in {"closed", "dialing"}  PROVE FALSE
      BY <1>1, <3>3 DEF Calm, NothingSent
    <3>. QED  BY <3>1, <3>2, <3>3 DEF Types
  <2>5. Quitting
    BY <1>1, <2>1, <2>3, <2>4 DEF Phase, Starting, Noting, Entering,
       NothingSent
  <2>. DEFINE l == Last(table)
  <2>6. /\ link = "up" /\ AllIdle /\ NothingNoted /\ table # <<>>
        /\ up = <<Packet("UNSUBSCRIBE", l.topic, 0, TRUE)>> /\ down = <<>> /\ subs = Entries
    BY <1>1, <2>5 DEF Quitting
  <2>7. p = Packet("UNSUBSCRIBE", l.topic, 0, TRUE)
    BY <1>2, <2>6
  <2>8. answer = Packet("UNSUBACK", l.topic, 0, TRUE) /\ p.topic = l.topic
    <3>. DEFINE yes == TRUE
    <3>1. p = Packet("UNSUBSCRIBE", l.topic, 0, yes)
      BY <2>7
    <3>. HIDE DEF yes
    <3>2. answer = Packet("UNSUBACK", l.topic, 0, yes) /\ p.topic = l.topic
      BY <3>1, Arguments, Answers DEF answer
    <3>. QED  BY <3>2 DEF yes
  <2>9. up' = <<>> /\ down' = <<answer>>
    BY <1>1, <1>2, <1>3, <2>6, <2>7, Single
  <2>10. \A x \in Entries : x.topic = l.topic <=> x = l
    BY <2>1, <2>6, LastEntry
  <2>11. subs' = Entries \ {l}
    BY <1>1, <2>6, <2>8, <2>10 DEF Without
  <2>12. below' = 0 /\ Distinct' /\ AllIdle' /\ NothingNoted' /\ Entries' = Entries
    BY <1>1, <2>1, <2>6 DEF Distinct, AllIdle, NothingNoted, Entries
  <2>13. l' = l
    BY <1>1
  <2>. QED  BY <1>1, <2>6, <2>8, <2>9, <2>11, <2>12, <2>13 DEF Quitting
<1>7. InTurns'
  BY <1>1, <1>6 DEF InTurns, Phase
<1>. QED  BY <1>5, <1>7

-----------------------------------------------------------------------------
(* The theorems.                                                           *)

\* Every step keeps the invariant.
LEMMA StepHolds ==
    ASSUME ChannelsInv, [Next]_vars
    PROVE  ChannelsInv'
<1>1. CASE UNCHANGED vars
  <2>1. UNCHANGED <<app, link, table, below, change, java, up, down, clean, subs, orderly>>
    BY <1>1 DEF vars, configVars, netVars
  <2>2. Types'
    BY <2>1 DEF ChannelsInv, Types
  <2>3. Phase' <=> Phase
    BY <2>1 DEF Phase, Calm, Starting, Noting, Entering, Quitting, Subscribed,
       AllIdle, NothingNoted, NothingSent, Fresh, Known, Entries
  <2>4. InTurns'
    BY <2>1, <2>3 DEF ChannelsInv, InTurns, Distinct, AllIdle, NothingNoted
  <2>. QED  BY <2>2, <2>4 DEF ChannelsInv
<1>2. CASE SubObjectConnectServer
  BY <1>2, SubInitConnectStep DEF SubObjectConnectServer
<1>3. CASE LoopStep \/ CliSubFree
  BY <1>3, DialStep, BeginReconnectStep, HandleConnackStep, HandleSubackStep,
     HandleUnsubackStep, CliSubFreeStep DEF LoopStep
<1>4. CASE Lose \/ BrokerStep
  BY <1>4, LoseStep, BrokerConnackStep, BrokerSubackStep, BrokerUnsubackStep
     DEF BrokerStep
<1>5. ASSUME NEW t \in Threads, SubEnterChannelJni(t) \/ SubQuitChannelJni(t)
      PROVE  ChannelsInv'
  BY <1>5, SubEnterChannelStep, SubQuitChannelStep DEF SubEnterChannelJni,
     SubQuitChannelJni
<1>6. ASSUME NEW t \in Threads, SubChangeTopicJni(t) \/ Crash(t) \/ InCall(t)
      PROVE  ChannelsInv'
  BY <1>6, CrashStep, SubscribeStep, NoteTopicStep, NoteSetStep,
     UnsubscribeStep DEF InCall, SubChangeTopicJni
<1>. QED
  BY <1>1, <1>2, <1>3, <1>4, <1>5, <1>6 DEF Next

\* The invariant holds in every state.
THEOREM ChannelsInvariance == Spec => []ChannelsInv
BY InitTypes, StepHolds, PTL DEF Spec

\* Nothing checks the size of topic_qos (client_topic_set), and yet the table
\* never outgrows it; topic_count goes below zero only for an app that does not
\* take turns.
THEOREM TableFits == Spec => []ChannelsTypeOK
<1>1. ChannelsInv => ChannelsTypeOK
  <2>. SUFFICES ASSUME ChannelsInv  PROVE ChannelsTypeOK
    OBVIOUS
  <2>1. below > 0 => table = <<>> /\ ~ orderly
    BY DEF ChannelsInv, Types, InTurns
  <2>. QED  BY <2>1 DEF ChannelsInv, Types, ChannelsTypeOK, EntryType,
     CallType
<1>. QED
  BY <1>1, ChannelsInvariance, PTL

\* For an app that keeps the conditions of orderly, through any number of
\* starts, losses and reconnections, the table is what the broker has once all
\* answers are in (my_subscribe_callback, sub_enter_channel, sub_quit_channel).
THEOREM TableAgrees == Spec => []TableMatchesBroker
<1>1. ChannelsInv => TableMatchesBroker
  <2>. SUFFICES ASSUME ChannelsInv, orderly, app = "running", link = "up", InFlight = <<>>,
                       AllIdle
                PROVE  /\ ToSet(table) = subs
                       /\ \A i, j \in DOMAIN table : table[i].topic = table[j].topic => i = j
    BY DEF TableMatchesBroker, AllIdle
  <2>1. NothingSent
    BY Travelling DEF ChannelsInv
  <2>2. Distinct /\ subs = Entries
    BY <2>1, InTurnSettled
  <2>. QED  BY <2>2 DEF Distinct, Entries, ToSet
<1>. QED
  BY <1>1, ChannelsInvariance, PTL
=============================================================================
