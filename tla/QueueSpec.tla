------------------------------ MODULE QueueSpec ------------------------------
(***************************************************************************)
(* What the two message queues of the client promise, as sequences: first  *)
(* in first out, removal by mid, a window on the outgoing one.             *)
(* MessageLists implements it with linked lists.                           *)
(***************************************************************************)
EXTENDS MessageQueue

CONSTANT Mids         \* the mids in use, of either direction

VARIABLES out,        \* outgoing messages, oldest first
          in,         \* incoming QoS 2 messages waiting for a PUBREL
          inflight    \* slots of the window taken

queues == <<out, in, inflight>>

Without(q, mid) == RemoveAt(q, Position(q, mid))

\* The sets of messages a walk may start: all it has room for, or those up to
\* the first one whose send fails.
Walks(F) == {F} \cup {{i \in F : i <= last} : last \in F}

Init == out = <<>> /\ in = <<>> /\ inflight = 0

PutOut(mid, qos) ==
    LET room == HasRoom(inflight)
    IN  /\ out' = Append(out, [mid |-> mid, qos |-> qos,
                               state |-> IF room THEN FirstWait(qos) ELSE "invalid"])
        /\ inflight' = inflight + (IF room THEN 1 ELSE 0)
        /\ UNCHANGED in

TakeOut(mid) ==
    /\ mid \in MidsOf(out)
    /\ LET rest == Without(out, mid)
       IN  \E S \in Walks(FirstHeldBack(rest, Room(rest, inflight - 1))) :
             /\ out' = Start(rest, S)
             /\ inflight' = inflight - 1 + Cardinality(S)
    /\ UNCHANGED in

UpdateOut(mid) ==
    /\ mid \in MidsOf(out)
    /\ out' = [out EXCEPT ![Position(out, mid)].state = "wait_for_pubcomp"]
    /\ UNCHANGED <<in, inflight>>

PutIn(mid) ==
    /\ in' = Append(in, [mid |-> mid, qos |-> 2, state |-> "wait_for_pubrel"])
    /\ UNCHANGED <<out, inflight>>

TakeIn(mid) ==
    /\ mid \in MidsOf(in)
    /\ in' = Without(in, mid)
    /\ UNCHANGED <<out, inflight>>

Reset ==
    /\ out' = ReconnectReset(out)
    /\ inflight' = Len(out)
    /\ UNCHANGED in

Empty == out' = <<>> /\ in' = <<>> /\ UNCHANGED inflight

Next ==
    \/ \E mid \in Mids : \/ \E qos \in {1, 2} : PutOut(mid, qos)
                        \/ PutIn(mid)
    \/ \E mid \in MidsOf(out) : TakeOut(mid) \/ UpdateOut(mid)
    \/ \E mid \in MidsOf(in) : TakeIn(mid)
    \/ Reset
    \/ Empty

Spec == Init /\ [][Next]_queues
=============================================================================
