---------------------------- MODULE MessageQueue ----------------------------
(***************************************************************************)
(* The list operations of messages_mosq.c on the queue of outgoing QoS 1   *)
(* and QoS 2 messages (mosq->out_messages), as operators on sequences.     *)
(* No state is kept here: OutMessages and Session put these operations     *)
(* under the locks and between the packets where the client runs them.     *)
(*                                                                         *)
(* A queued message is a record [mid, qos, state].  Topic, payload and     *)
(* retain never influence the queue.  timestamp and dup only decide which  *)
(* messages a retry pass picks and one header bit: the retry action picks  *)
(* any set of messages instead.  QoS 0 messages are never queued.          *)
(***************************************************************************)
EXTENDS Integers, Sequences, FiniteSets, SequencesExt

CONSTANT MaxInflight    \* mosq->max_inflight_messages, 0 for no limit

ASSUME MaxInflightAssumption == MaxInflight \in Nat

\* The values of enum mosquitto_msg_state an outgoing message can take.
OutStates == {"invalid", "wait_for_puback", "wait_for_pubrec", "wait_for_pubcomp"}

\* What the client waits for once the PUBLISH of a message is on its way.
FirstWait(qos) == IF qos = 1 THEN "wait_for_puback" ELSE "wait_for_pubrec"

\* The test of _mosquitto_message_queue and _mosquitto_message_remove.
HasRoom(inflight) == MaxInflight = 0 \/ inflight < MaxInflight

MidsOf(q) == {q[i].mid : i \in DOMAIN q}
DistinctMids(q) == \A i, j \in DOMAIN q : q[i].mid = q[j].mid => i = j

\* The first entry of the list with this mid; every search stops there.
Position(q, mid) ==
    CHOOSE i \in DOMAIN q : /\ q[i].mid = mid
                            /\ \A j \in 1 .. i-1 : q[j].mid # mid

\* Packets the client writes.  Bit 1 of the flags of a PUBREL is set, hence
\* its qos field.
PublishOf(m) == [type |-> "PUBLISH", mid |-> m.mid, qos |-> m.qos]
PubrelOf(mid) == [type |-> "PUBREL", mid |-> mid, qos |-> 1]

\* What a retry pass sends for a message it finds overdue.
ResendOf(m) == IF m.state = "wait_for_pubcomp" THEN PubrelOf(m.mid) ELSE PublishOf(m)

-----------------------------------------------------------------------------
\* Mutant: the reset does not ask whether the window has room.
ResetStateUnbounded(m, count) == IF m.qos = 1 THEN "wait_for_puback" ELSE m.state

\* Mutant: the reset starts the flow of a QoS 2 message over.
ResetStateRestarts(m, count) == IF HasRoom(count) THEN FirstWait(m.qos) ELSE "invalid"

(***************************************************************************)
(* _mosquitto_messages_reconnect_reset counts a message before it asks     *)
(* whether the window has room for it, so the i-th message of the list is  *)
(* tested against a count of i.  A QoS 2 message that fits keeps the state *)
(* it has, "invalid" included.                                             *)
(***************************************************************************)
ResetState(m, count) ==
    CASE ~ HasRoom(count) -> "invalid"
      [] HasRoom(count) /\ m.qos = 1 -> "wait_for_puback"
      [] OTHER -> m.state

ReconnectReset(q) ==
    [i \in DOMAIN q |-> [q[i] EXCEPT !.state = ResetState(q[i], i)]]

(***************************************************************************)
(* The walk at the end of _mosquitto_message_remove: front to back, start  *)
(* the messages held back, as long as the window has room.                 *)
(***************************************************************************)
HeldBack(q) == {i \in DOMAIN q : q[i].state = "invalid"}

\* The mids of the messages part way through their delivery flow.
InFlowOf(q) == {q[i].mid : i \in DOMAIN q \ HeldBack(q)}

Room(q, inflight) == IF MaxInflight = 0 THEN Len(q) ELSE MaxInflight - inflight

\* Mutant: the walk stops one message early.
FirstHeldBackShort(q, n) ==
    {i \in HeldBack(q) : Cardinality({j \in HeldBack(q) : j <= i}) < n}

FirstHeldBack(q, n) ==
    {i \in HeldBack(q) : Cardinality({j \in HeldBack(q) : j <= i}) <= n}

Start(q, S) ==
    [i \in DOMAIN q |->
        IF i \in S THEN [q[i] EXCEPT !.state = FirstWait(q[i].qos)] ELSE q[i]]
=============================================================================
