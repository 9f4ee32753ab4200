------------------------------- MODULE Channels -------------------------------
(***************************************************************************)
(* The channels of the Android app: sub_init_connect subscribes the first  *)
(* topics and runs the loop, sub_enter_channel and sub_quit_channel are    *)
(* called by other Java threads, and a table of topics, changed when the   *)
(* SUBACK or UNSUBACK arrives, is subscribed again on every connection.    *)
(* The calls and the callbacks share the table, change_topic, change_qos   *)
(* and sub_set; only the callbacks take the mutex.                         *)
(***************************************************************************)
EXTENDS Integers, FiniteSets, SequencesExt, Orders

CONSTANTS Threads,          \* Java threads that enter and quit channels
          Channels,         \* topics that pass mosquitto_sub_topic_check
          BadChannels,      \* topics that do not
          NoTopic,          \* change_topic before the first call
          QosSlots,         \* entries of topic_qos, 5 in the code
          FirstTopics,      \* the topic lists the app may connect with
          MaxEvents         \* bounds starts, calls, losses and ends together

ASSUME ChannelsAssumption ==
    /\ Channels \cap BadChannels = {} /\ NoTopic \notin Channels \cup BadChannels
    /\ QosSlots \in Nat \ {0, 1}    \* an overflow leaves at most two entries
    /\ \A ts \in FirstTopics : ts \in Seq(Channels \cup BadChannels) /\ Len(ts) < QosSlots
    /\ MaxEvents \in Nat

VARIABLES
    app,      \* "idle", "running", "ended" (loop_forever returned, all freed) or "crashed"
    link,     \* "up"; "closed" (no socket, state still connected); "dialing"; "connecting"
    table,    \* topics[0 .. topic_count-1] with topic_qos
    below,    \* how far topic_count is below zero
    change,   \* change_topic, change_qos and sub_set
    java,     \* where each thread is, and with which arguments
    up, down, \* packets to and from the broker
    clean,    \* clean_session of this connection
    subs,     \* the broker's subscriptions: [topic, qos]
    orderly,  \* the app has only used the calls as TableMatchesBroker asks
    events

configVars == <<table, below>>
netVars == <<link, up, down, subs>>
vars == <<app, configVars, change, java, netVars, clean, orderly, events>>

Topics == Channels \cup BadChannels
GivenQos == {1, 3}                                         \* as the app may pass it
Qos(q) == IF q \in 0 .. 2 THEN q ELSE 0
Entry(topic, q) == [topic |-> topic, qos |-> q]
Packet(type, topic, q, call) == [type |-> type, topic |-> topic, qos |-> q, call |-> call]
Idle == [pc |-> "idle", topic |-> NoTopic, qos |-> 0]
Resting(t) == java' = [java EXCEPT ![t] = Idle]

Known(topic) == \E i \in DOMAIN table : table[i].topic = topic
\* What the app or the network does at will, up to the bound.
Event == events < MaxEvents /\ events' = events + 1

Connected == link \in {"up", "closed"}                     \* mosq->state
HasSocket == link \in {"up", "connecting"}                 \* mosq->sock
InFlight == up \o down

Init ==
    /\ app = "idle" /\ link = "dialing"
    /\ table = <<>> /\ below = 0
    /\ change = [topic |-> NoTopic, qos |-> 0, set |-> FALSE]
    /\ java = [t \in Threads |-> Idle]
    /\ up = <<>> /\ down = <<>>
    /\ clean = TRUE /\ subs = {}
    /\ orderly = TRUE
    /\ events = 0

-----------------------------------------------------------------------------
(* The table.                                                              *)

\* Mutant: topic_qos has room for one entry more.
ClientTopicSetRoomy(topic, q) ==
    /\ topic \in Channels
    /\ table' = Append(table, Entry(topic, q))
    /\ UNCHANGED <<below, app>>

\* client_topic_set adds without asking for duplicates or room.  The entry
\* after the last of topic_qos is topic_count itself, and with a topic_count
\* below zero the write goes before the start of both arrays.
ClientTopicSet(topic, q) ==
    \/ /\ topic \notin Channels
       /\ UNCHANGED <<configVars, app>>
    \/ /\ topic \in Channels /\ below = 0
       /\ table' = IF Len(table) < QosSlots THEN Append(table, Entry(topic, q))
                                            ELSE SubSeq(table, 1, q)
       /\ UNCHANGED <<below, app>>
    \/ /\ topic \in Channels /\ below = 1
       /\ below' = 0
       /\ UNCHANGED <<table, app>>
    \/ /\ topic \in Channels /\ below > 0
       /\ app' = "crashed"
       /\ UNCHANGED configVars

\* The table at the start: the topics given, in order, without the invalid ones.
Valid(topics) == {i \in DOMAIN topics : topics[i] \in Channels}

Given(topics, q, walk) == [n \in DOMAIN walk |-> Entry(topics[walk[n]], Qos(q))]

-----------------------------------------------------------------------------
(* sub_init_connect and the loop.                                          *)

\* On illegal parameters it returns with nothing done.
SubInitConnect(topics, q, cleanSession) ==
    /\ app \in {"idle", "ended"}
    /\ Event
    /\ app' = "running" /\ link' = "dialing"
    /\ \E walk \in InOrder(Valid(topics)) : table' = Given(topics, q, walk)
    /\ below' = 0
    /\ clean' = cleanSession
    /\ up' = <<>> /\ down' = <<>>
    /\ orderly' = (orderly /\ IsInjective(topics)
                           /\ (cleanSession \/ \A s \in subs : \E i \in DOMAIN topics :
                                                  topics[i] = s.topic))
    /\ UNCHANGED <<change, java, subs>>

SubObjectConnectServer ==
    \E topics \in FirstTopics, q \in GivenQos, cleanSession \in BOOLEAN :
        SubInitConnect(topics, q, cleanSession)

\* A connection after _mosquitto_reconnect has set the state and drained.
Dial ==
    /\ app = "running" /\ link = "dialing"
    /\ link' = "connecting"
    /\ up' = <<Packet("CONNECT", NoTopic, 0, FALSE)>>
    /\ UNCHANGED <<app, configVars, change, java, down, subs, clean, orderly, events>>

BeginReconnect ==
    /\ app = "running" /\ link = "closed"
    /\ link' = "dialing"
    /\ UNCHANGED <<app, configVars, change, java, up, down, subs, clean, orderly, events>>

\* CONNACK: my_connect_callback subscribes the table, then the state is connected.
Subscriptions == [i \in DOMAIN table |-> Packet("SUBSCRIBE", table[i].topic, table[i].qos, FALSE)]

HandleConnack ==
    /\ app = "running" /\ link = "connecting" /\ down # <<>>
    /\ Head(down).type = "CONNACK"
    /\ down' = Tail(down)
    /\ up' = up \o Subscriptions
    /\ link' = "up"
    /\ UNCHANGED <<app, configVars, change, java, subs, clean, orderly, events>>

\* A SUBACK does not name a topic: the callback records the last one noted.
HandleSuback ==
    /\ app = "running" /\ down # <<>> /\ Head(down).type = "SUBACK"
    /\ down' = Tail(down)
    /\ \/ /\ change.set
          /\ ClientTopicSet(change.topic, change.qos)
          /\ change' = [change EXCEPT !.set = FALSE]
       \/ /\ ~ change.set
          /\ UNCHANGED <<configVars, app, change>>
    /\ orderly' = (orderly /\ \A t \in Threads : java[t].pc \notin {"note topic", "note set"})
    /\ UNCHANGED <<link, java, up, subs, clean, events>>

\* Mutant: the table is left alone.
HandleUnsubackKeeps ==
    /\ app = "running" /\ down # <<>> /\ Head(down).type = "UNSUBACK"
    /\ down' = Tail(down)
    /\ UNCHANGED <<app, configVars, change, java, link, up, subs, clean, orderly, events>>

\* An UNSUBACK takes off the last entry, whichever topic was unsubscribed.
HandleUnsuback ==
    /\ app = "running" /\ down # <<>> /\ Head(down).type = "UNSUBACK"
    /\ down' = Tail(down)
    /\ table' = SubSeq(table, 1, Len(table) - 1)
    /\ below' = IF table = <<>> THEN below + 1 ELSE below
    /\ UNCHANGED <<app, change, java, link, up, subs, clean, orderly, events>>

\* CliSubFree after the loop has returned: the socket is closed, so that
\* nothing is unsubscribed; the pointers keep their values.
CliSubFree ==
    /\ app = "running" /\ link \in {"closed", "dialing"}
    /\ Event
    /\ app' = "ended"
    /\ table' = <<>> /\ below' = 0
    /\ orderly' = (orderly /\ \A t \in Threads : java[t].pc = "idle")
    /\ UNCHANGED <<change, java, netVars, clean>>

-----------------------------------------------------------------------------
(* The calls of the Java threads.                                          *)

\* Configuration and client are read unchecked: before they exist, or after
\* they were freed, a call crashes.
Crash(t) ==
    /\ app \in {"idle", "ended"}
    /\ \/ java[t].pc = "idle" /\ Event
       \/ java[t].pc # "idle" /\ UNCHANGED events
    /\ app' = "crashed" /\ orderly' = FALSE
    /\ UNCHANGED <<configVars, change, java, netVars, clean>>

\* One call at a time, each after the answers to all before it.
InTurn == (\A t \in Threads : java[t].pc = "idle") /\ InFlight = <<>> /\ link # "closed"

Call(t) == /\ app = "running" /\ java[t].pc = "idle" /\ Event

\* A known topic is refused (-1) and a call without a connection returns 0
\* with nothing done: neither changes anything.
SubEnterChannel(t, topic, q) ==
    /\ Call(t)
    /\ ~ Known(topic) /\ Connected
    /\ java' = [java EXCEPT ![t] = [pc |-> "subscribe", topic |-> topic, qos |-> Qos(q)]]
    /\ orderly' = (orderly /\ InTurn /\ Len(table) < QosSlots)
    /\ UNCHANGED <<app, configVars, change, netVars, clean>>

\* mosquitto_subscribe: no packet without a socket or for an invalid topic;
\* the caller goes on whatever it returned.
Subscribe(t) ==
    /\ app = "running" /\ java[t].pc = "subscribe"
    /\ up' = IF HasSocket /\ java[t].topic \in Channels
             THEN Append(up, Packet("SUBSCRIBE", java[t].topic, java[t].qos, TRUE)) ELSE up
    /\ java' = [java EXCEPT ![t].pc = "note topic"]
    /\ UNCHANGED <<app, configVars, change, link, down, subs, clean, orderly, events>>

NoteTopic(t) ==
    /\ app = "running" /\ java[t].pc = "note topic"
    /\ change' = [change EXCEPT !.topic = java[t].topic, !.qos = java[t].qos]
    /\ java' = [java EXCEPT ![t].pc = "note set"]
    /\ UNCHANGED <<app, configVars, netVars, clean, orderly, events>>

\* Mutant: sub_set is not set.
NoteSetForgotten(t) ==
    /\ app = "running" /\ java[t].pc = "note set"
    /\ Resting(t)
    /\ UNCHANGED <<app, configVars, change, netVars, clean, orderly, events>>

NoteSet(t) ==
    /\ app = "running" /\ java[t].pc = "note set"
    /\ change' = [change EXCEPT !.set = TRUE]
    /\ Resting(t)
    /\ UNCHANGED <<app, configVars, netVars, clean, orderly, events>>

SubQuitChannel(t, topic) ==
    /\ Call(t)
    /\ Known(topic) /\ Connected
    /\ java' = [java EXCEPT ![t] = [pc |-> "unsubscribe", topic |-> topic, qos |-> 0]]
    /\ orderly' = (orderly /\ InTurn /\ Last(table).topic = topic)
    /\ UNCHANGED <<app, configVars, change, netVars, clean>>

Unsubscribe(t) ==
    /\ app = "running" /\ java[t].pc = "unsubscribe"
    /\ up' = IF HasSocket THEN Append(up, Packet("UNSUBSCRIBE", java[t].topic, 0, TRUE)) ELSE up
    /\ Resting(t)
    /\ UNCHANGED <<app, configVars, change, link, down, subs, clean, orderly, events>>

\* The topic compared with, config->topic, is never set on a subscriber.
SubUnscribeTopic(t) ==
    /\ Call(t)
    /\ app' = "crashed" /\ orderly' = FALSE
    /\ UNCHANGED <<configVars, change, java, netVars, clean>>

\* subChangeTopic, which hands on any two topics that are not null.
SubChangeTopicJni(t) == SubUnscribeTopic(t)

SubEnterChannelJni(t) == \E topic \in Topics, q \in GivenQos : SubEnterChannel(t, topic, q)
SubQuitChannelJni(t) == \E topic \in Topics : SubQuitChannel(t, topic)

-----------------------------------------------------------------------------
(* The network and the broker.                                             *)

\* Packets on their way are lost with the connection.
Lose ==
    /\ app = "running" /\ HasSocket
    /\ Event
    /\ link' = IF link = "up" THEN "closed" ELSE "dialing"
    /\ up' = <<>> /\ down' = <<>>
    /\ orderly' = (orderly /\ (\A t \in Threads : java[t].pc = "idle")
                           /\ \A i \in DOMAIN InFlight : ~ InFlight[i].call)
    /\ UNCHANGED <<app, configVars, change, java, subs, clean>>

Without(topic) == {s \in subs : s.topic # topic}

BrokerConnack ==
    /\ app = "running" /\ up # <<>> /\ Head(up).type = "CONNECT"
    /\ subs' = IF clean THEN {} ELSE subs
    /\ up' = Tail(up) /\ down' = Append(down, Packet("CONNACK", NoTopic, 0, FALSE))
    /\ UNCHANGED <<app, configVars, change, java, link, clean, orderly, events>>

BrokerSuback ==
    /\ app = "running" /\ up # <<>> /\ Head(up).type = "SUBSCRIBE"
    /\ LET p == Head(up)
       IN  /\ subs' = Without(p.topic) \cup {Entry(p.topic, p.qos)}
           /\ down' = Append(down, [p EXCEPT !.type = "SUBACK"])
    /\ up' = Tail(up)
    /\ UNCHANGED <<app, configVars, change, java, link, clean, orderly, events>>

BrokerUnsuback ==
    /\ app = "running" /\ up # <<>> /\ Head(up).type = "UNSUBSCRIBE"
    /\ subs' = Without(Head(up).topic)
    /\ down' = Append(down, [Head(up) EXCEPT !.type = "UNSUBACK"])
    /\ up' = Tail(up)
    /\ UNCHANGED <<app, configVars, change, java, link, clean, orderly, events>>

-----------------------------------------------------------------------------
LoopStep == BeginReconnect \/ Dial \/ HandleConnack \/ HandleSuback \/ HandleUnsuback
BrokerStep == BrokerConnack \/ BrokerSuback \/ BrokerUnsuback
InCall(t) == Subscribe(t) \/ NoteTopic(t) \/ NoteSet(t) \/ Unsubscribe(t)

Next ==
    \/ SubObjectConnectServer
    \/ LoopStep
    \/ CliSubFree
    \/ Lose
    \/ BrokerStep
    \/ \E t \in Threads :
          \/ SubEnterChannelJni(t) \/ SubQuitChannelJni(t) \/ SubChangeTopicJni(t) \/ Crash(t)
          \/ InCall(t)

\* The loop and a call under way go on, and the broker answers; a call, a
\* loss or a new start need not happen.
Fairness == WF_vars(LoopStep) /\ WF_vars(BrokerStep) /\ \A t \in Threads : WF_vars(InCall(t))

Spec == Init /\ [][Next]_vars /\ Fairness

-----------------------------------------------------------------------------
\* Every variable keeps its type: the table, which nothing bounds, never
\* outgrows topic_qos (an entry too many overwrites the count instead), and
\* topic_count falls below zero only for an app that does not take turns.
ChannelsTypeOK ==
    /\ app \in {"idle", "running", "ended", "crashed"}
    /\ link \in {"up", "closed", "dialing", "connecting"}
    /\ table \in Seq([topic : Channels, qos : 0 .. 2]) /\ Len(table) <= QosSlots
    /\ below \in Nat /\ (below > 0 => table = <<>> /\ ~ orderly)
    /\ change \in [topic : Topics \cup {NoTopic}, qos : 0 .. 2, set : BOOLEAN]
    /\ java \in [Threads -> [pc : {"idle", "subscribe", "note topic", "note set", "unsubscribe"},
                             topic : Topics \cup {NoTopic}, qos : 0 .. 2]]
    /\ subs \subseteq [topic : Channels, qos : 0 .. 2]
    /\ clean \in BOOLEAN /\ orderly \in BOOLEAN

\* Once every answer has arrived, what the client would subscribe on the next
\* connection is what the broker has, with the same QoS, and each topic is in
\* the table once - for an app that starts with no topic twice and with those
\* that the broker has kept, calls in turn, waits for each answer (nothing
\* tells it of one), quits the channel entered last, stays within topic_qos,
\* loses no connection during a call, and whose SUBACK does not overtake the
\* call that asked for it.  Each condition is needed.
TableMatchesBroker ==
    orderly /\ app = "running" /\ link = "up" /\ InFlight = <<>>
            /\ (\A t \in Threads : java[t].pc = "idle") =>
        /\ ToSet(table) = subs
        /\ \A i, j \in DOMAIN table : table[i].topic = table[j].topic => i = j

\* A channel entered, or quit, in that way is in the table, or out of it, when
\* the answers are in: no SUBACK or UNSUBACK leaves the call without effect.
CallsSettle ==
    \A c \in Channels :
        /\ ((\E t \in Threads : java[t].pc = "subscribe" /\ java[t].topic = c) /\ orderly)
               ~> (Known(c) /\ (\E s \in subs : s.topic = c)) \/ ~ orderly \/ app # "running"
        /\ ((\E t \in Threads : java[t].pc = "unsubscribe" /\ java[t].topic = c) /\ orderly)
               ~> (~ Known(c) /\ (\A s \in subs : s.topic # c)) \/ ~ orderly \/ app # "running"
=============================================================================
