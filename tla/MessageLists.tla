---------------------------- MODULE MessageLists ----------------------------
(***************************************************************************)
(* The linked lists behind the message queues: messages_mosq.c works on    *)
(* cells with a next pointer, and keeps a pointer to the first and to the  *)
(* last cell of each direction.  Every operation runs under the mutex of   *)
(* its list, so it is one step; the reset takes the two mutexes in turn,   *)
(* and a publishing thread needs only the second: its loop over the        *)
(* incoming messages is one step a message.                                *)
(*                                                                         *)
(* Memory that has been freed is not handed out again here: a use of it,   *)
(* or of a null pointer, is undefined behaviour and ends the run with pc   *)
(* at "crashed".                                                           *)
(***************************************************************************)
EXTENDS MessageQueue

CONSTANTS MaxCells,     \* bound on the messages allocated in a run
          MaxResets,    \* bound on the calls of mosquitto_reconnect
          InMids        \* mids the broker uses for its QoS 2 messages

\* Fewer messages than there are mids: the counter of mids does not wrap.
ASSUME ListsAssumption == /\ MaxCells \in Nat /\ MaxCells <= 65535
                          /\ MaxResets \in Nat
                          /\ InMids \subseteq Nat

VARIABLES
    heap,               \* cell -> message and next pointer
    head, last, len,    \* direction -> *_messages, *_messages_last, *_queue_len
    inflight_messages,
    allocated,          \* cells handed out so far
    last_mid,           \* the mid generated last
    pc,                 \* where the loop thread is
    message, prev,      \* the local variables of the reset
    resets,
    crossed             \* a reset pointed last["out"] at an incoming message

vars == <<heap, head, last, len, inflight_messages, allocated, last_mid, pc, message,
          prev, resets, crossed>>

NULL == 0
Cells == 1 .. MaxCells
Directions == {"in", "out"}
Unused == [mid |-> 0, qos |-> 0, state |-> "freed", next |-> NULL]
Cell(mid, qos, state) == [mid |-> mid, qos |-> qos, state |-> state, next |-> NULL]

Live(c) == heap[c] # Unused
NewCell == allocated + 1

\* The cells a walk over the cells of a heap visits from a first one.
ChainOf(cells, first) ==
    LET from[c \in Cells \cup {NULL}] ==
            IF c = NULL THEN <<>> ELSE <<c>> \o from[cells[c].next]
    IN  from[first]

Chain(dir) == ChainOf(heap, head[dir])

\* The messages these cells hold.
MessagesAt(cells, chain) ==
    [i \in DOMAIN chain |-> [mid |-> cells[chain[i]].mid, qos |-> cells[chain[i]].qos,
                             state |-> cells[chain[i]].state]]

Contents(dir) == MessagesAt(heap, Chain(dir))

Init ==
    /\ heap = [c \in Cells |-> Unused]
    /\ head = [dir \in Directions |-> NULL]
    /\ last = [dir \in Directions |-> NULL]
    /\ len = [dir \in Directions |-> 0]
    /\ inflight_messages = 0
    /\ allocated = 0
    /\ last_mid = 0
    /\ pc = "loop"
    /\ message = NULL
    /\ prev = NULL
    /\ resets = 0
    /\ crossed = FALSE

-----------------------------------------------------------------------------
(* _mosquitto_message_queue: append after the last cell.                   *)

Queue(dir, new) ==
    LET added == [heap EXCEPT ![NewCell] = new]
        tail == last[dir]
    IN  /\ NewCell \in Cells
        /\ \/ /\ tail = NULL
              /\ heap' = added
              /\ head' = [head EXCEPT ![dir] = NewCell]
              /\ UNCHANGED pc
           \/ /\ tail # NULL
              /\ Live(tail)
              /\ heap' = [added EXCEPT ![tail].next = NewCell]
              /\ UNCHANGED <<head, pc>>
           \/ /\ tail # NULL
              /\ ~ Live(tail)
              /\ heap' = added
              /\ pc' = "crashed"
              /\ UNCHANGED head
        /\ last' = [last EXCEPT ![dir] = NewCell]
        /\ len' = [len EXCEPT ![dir] = @ + 1]
        /\ allocated' = NewCell

\* mosquitto_publish, under out_message_mutex: any thread, at any time.
Publish(qos) ==
    LET room == HasRoom(inflight_messages)
    IN  /\ pc \in {"loop", "reset_in", "reset_out"}
        /\ Queue("out", Cell(last_mid + 1, qos, IF room THEN FirstWait(qos) ELSE "invalid"))
        /\ inflight_messages' = inflight_messages + (IF room THEN 1 ELSE 0)
        /\ last_mid' = last_mid + 1
        /\ UNCHANGED <<message, prev, resets, crossed>>

\* _mosquitto_handle_publish for a QoS 2 message, duplicate or not.
HandlePublish(mid) ==
    /\ pc = "loop"
    /\ Queue("in", Cell(mid, 2, "wait_for_pubrel"))
    /\ UNCHANGED <<inflight_messages, last_mid, message, prev, resets, crossed>>

-----------------------------------------------------------------------------
(* _mosquitto_message_remove: unlink the first cell with the mid.          *)

\* Mutant: the last pointer stays on the removed cell.
UnlinkKeepsLast(dir, k, rest) ==
    LET cell == Chain(dir)[k]
        before == IF k = 1 THEN NULL ELSE Chain(dir)[k-1]
        next == heap[cell].next
    IN  /\ heap' = LET cleaned == [rest EXCEPT ![cell] = Unused]
                   IN  IF k = 1 THEN cleaned ELSE [cleaned EXCEPT ![before].next = next]
        /\ head' = IF k = 1 THEN [head EXCEPT ![dir] = next] ELSE head
        /\ last' = IF head'[dir] = NULL THEN [last EXCEPT ![dir] = NULL] ELSE last
        /\ len' = [len EXCEPT ![dir] = @ - 1]

\* "rest" is the heap with the states the walk has given the other messages.
Unlink(dir, k, rest) ==
    LET cell == Chain(dir)[k]
        before == IF k = 1 THEN NULL ELSE Chain(dir)[k-1]
        next == heap[cell].next
    IN  /\ heap' = LET cleaned == [rest EXCEPT ![cell] = Unused]
                   IN  IF k = 1 THEN cleaned ELSE [cleaned EXCEPT ![before].next = next]
        /\ head' = IF k = 1 THEN [head EXCEPT ![dir] = next] ELSE head
        /\ last' = [last EXCEPT ![dir] = IF next = NULL THEN before
                                         ELSE IF head'[dir] = NULL THEN NULL ELSE @]
        /\ len' = [len EXCEPT ![dir] = @ - 1]

\* Mutant: the walk does not look at the window.
StartedAll(k) == {HeldBack(RemoveAt(Contents("out"), k))}

\* The walk over the outgoing messages left: it starts those it has room for,
\* or those up to the first one whose send fails.
Started(k) ==
    LET left == RemoveAt(Contents("out"), k)
        startable == FirstHeldBack(left, Room(left, inflight_messages - 1))
    IN  {startable} \cup {{i \in startable : i <= end} : end \in startable}

\* PUBACK or PUBCOMP for a message of the list; Next has the broker answer the
\* messages that are not held back.
HandlePubackcomp(mid) ==
    /\ pc = "loop"
    /\ LET k == Position(Contents("out"), mid)
           left == RemoveAt(Chain("out"), k)
       IN  \E S \in Started(k) :
             /\ Unlink("out", k,
                       [c \in Cells |-> IF \E i \in S : left[i] = c
                                        THEN [heap[c] EXCEPT !.state = FirstWait(heap[c].qos)]
                                        ELSE heap[c]])
             /\ inflight_messages' = inflight_messages - 1 + Cardinality(S)
    /\ UNCHANGED <<allocated, last_mid, pc, message, prev, resets, crossed>>

\* PUBREC: _mosquitto_message_out_update.
HandlePubrec(mid) ==
    /\ pc = "loop"
    /\ heap' = [heap EXCEPT ![Chain("out")[Position(Contents("out"), mid)]].state =
                  "wait_for_pubcomp"]
    /\ UNCHANGED <<head, last, len, inflight_messages, allocated, last_mid, pc, message,
                   prev, resets, crossed>>

\* PUBREL: the message is handed to on_message and freed.
HandlePubrel(mid) ==
    /\ pc = "loop"
    /\ mid \in MidsOf(Contents("in"))
    /\ Unlink("in", Position(Contents("in"), mid), heap)
    /\ UNCHANGED <<inflight_messages, allocated, last_mid, pc, message, prev, resets,
                   crossed>>

-----------------------------------------------------------------------------
(* _mosquitto_messages_reconnect_reset.                                    *)

ResetInBegin ==
    /\ pc = "loop"
    /\ resets < MaxResets
    /\ message' = head["in"]
    /\ prev' = NULL
    /\ len' = [len EXCEPT !["in"] = 0]
    /\ pc' = "reset_in"
    /\ resets' = resets + 1
    /\ UNCHANGED <<heap, head, last, inflight_messages, allocated, last_mid, crossed>>

\* One turn of the loop over the incoming messages.
ResetInTurn ==
    /\ pc = "reset_in"
    /\ message # NULL
    /\ len' = [len EXCEPT !["in"] = @ + 1]
    /\ UNCHANGED <<last, inflight_messages, allocated, last_mid, resets, crossed>>

\* A QoS 2 message stays.
ResetInKeep ==
    /\ ResetInTurn
    /\ heap[message].qos = 2
    /\ prev' = message
    /\ message' = heap[message].next
    /\ UNCHANGED <<heap, head, pc>>

\* Any other is dropped; the loop goes on behind it ...
ResetInDrop ==
    LET next == heap[message].next
    IN  /\ ResetInTurn
        /\ heap[message].qos # 2
        /\ prev # NULL
        /\ heap' = [heap EXCEPT ![message] = Unused, ![prev].next = next]
        /\ message' = next
        /\ UNCHANGED <<head, prev, pc>>

\* ... but skips the one behind a dropped head, and reads a null pointer when
\* there is none.
ResetInDropHead ==
    LET next == heap[message].next
    IN  /\ ResetInTurn
        /\ heap[message].qos # 2
        /\ prev = NULL
        /\ heap' = [heap EXCEPT ![message] = Unused]
        /\ head' = [head EXCEPT !["in"] = next]
        /\ prev' = next
        /\ \/ next # NULL /\ message' = heap[next].next /\ UNCHANGED pc
           \/ next = NULL /\ message' = NULL /\ pc' = "crashed"

ResetInEnd ==
    /\ pc = "reset_in"
    /\ message = NULL
    /\ last' = [last EXCEPT !["in"] = prev]
    /\ pc' = "reset_out"
    /\ UNCHANGED <<heap, head, len, inflight_messages, allocated, last_mid, message, prev,
                   resets, crossed>>

\* Mutant: the reset empties the window and does not count the messages left.
OccupiedNone(cells) == 0

\* The window after a reset: every message counts, held back or not.
Occupied(cells) == Len(cells)

\* The loop over the outgoing messages begins with the prev of the loop before.
ResetOut ==
    LET cells == Chain("out")
        reset == ReconnectReset(Contents("out"))
    IN  /\ pc = "reset_out"
        /\ heap' = [c \in Cells |->
                      IF \E i \in DOMAIN cells : cells[i] = c
                      THEN [heap[c] EXCEPT
                              !.state = reset[CHOOSE i \in DOMAIN cells : cells[i] = c].state]
                      ELSE heap[c]]
        /\ last' = [last EXCEPT !["out"] = IF cells = <<>> THEN prev ELSE Last(cells)]
        /\ len' = [len EXCEPT !["out"] = Len(cells)]
        /\ inflight_messages' = Occupied(cells)
        /\ crossed' = (crossed \/ (cells = <<>> /\ prev # NULL))
        /\ pc' = "loop"
        /\ prev' = NULL
        /\ UNCHANGED <<head, allocated, last_mid, message, resets>>

\* _mosquitto_message_cleanup_all, called by mosquitto_destroy.
CleanupAll ==
    /\ pc = "loop"
    /\ heap' = [c \in Cells |->
                  IF \E dir \in Directions : Contains(Chain(dir), c) THEN Unused ELSE heap[c]]
    /\ head' = [dir \in Directions |-> NULL]
    /\ pc' = "destroyed"
    /\ UNCHANGED <<last, len, inflight_messages, allocated, last_mid, message, prev,
                   resets, crossed>>

-----------------------------------------------------------------------------
Next ==
    \/ \E qos \in {1, 2} : Publish(qos)
    \/ \E mid \in InMids : HandlePublish(mid)
    \/ \E mid \in InMids : HandlePubrel(mid)
    \/ \E mid \in InFlowOf(Contents("out")) : HandlePubackcomp(mid)
    \/ \E mid \in InFlowOf(Contents("out")) : HandlePubrec(mid)
    \/ ResetInBegin
    \/ ResetInKeep
    \/ ResetInDrop
    \/ ResetInDropHead
    \/ ResetInEnd
    \/ ResetOut
    \/ CleanupAll

Spec == Init /\ [][Next]_vars

-----------------------------------------------------------------------------
(* Properties.                                                             *)

Reachable(dir) == ToSet(Chain(dir))

\* Every pointer is NULL or a cell handed out, every cell handed out holds a
\* message of one of the two directions or has been freed, and the counters are
\* not negative (until the lists are crossed).
ListsTypeOK ==
    /\ \A c \in Cells : \/ heap[c] = Unused
                        \/ /\ c <= allocated
                           /\ heap[c].state \in OutStates \cup {"wait_for_pubrel"}
                           /\ heap[c].next \in 0 .. allocated
    /\ head \in [Directions -> 0 .. allocated]
    /\ last \in [Directions -> 0 .. allocated]
    /\ ~ crossed => len \in [Directions -> Nat] /\ inflight_messages \in Nat
    /\ pc \in {"loop", "reset_in", "reset_out", "destroyed", "crashed"}
    /\ message \in 0 .. allocated /\ prev \in 0 .. allocated

\* The queue, unlink and reset code keeps two disjoint lists, each ending at its
\* last pointer and as long as its counter says (but for the one a reset is
\* walking over), and no message is leaked.  It fails only after a reset that
\* found incoming messages and no outgoing one.
WellLinked ==
    ~ crossed =>
        /\ Reachable("in") \cap Reachable("out") = {}
        /\ Reachable("in") \cup Reachable("out") = {c \in Cells : Live(c)}
        /\ pc # "destroyed" =>
              \A dir \in Directions \ (IF pc = "reset_in" THEN {"in"} ELSE {}) :
                 /\ len[dir] = Len(Chain(dir))
                 /\ last[dir] = IF Chain(dir) = <<>> THEN NULL ELSE Last(Chain(dir))

\* No use of freed memory and no null pointer, but after such a reset.
CrashOnlyIfCrossed == pc = "crashed" => crossed

\* The lists implement the two queues, until such a reset.
Queues == INSTANCE QueueSpec
            WITH out <- Contents("out"), in <- Contents("in"),
                 inflight <- inflight_messages,
                 Mids <- InMids \cup 1 .. MaxCells

ImplementsQueues == Queues!Init /\ [][crossed \/ Queues!Next]_(Queues!queues)

\* A message accepted by mosquitto_publish stays on the outgoing list, where its
\* acknowledgement is looked for and where it is retried, until acknowledged.
PublishedIsQueued ==
    \A c \in Cells : heap[c].state \in OutStates => c \in Reachable("out")
=============================================================================
