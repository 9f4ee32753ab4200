----------------------------- MODULE PacketQueue -----------------------------
(***************************************************************************)
(* The queue of outgoing packets and the locks around it.  The application *)
(* thread and the network thread both queue packets and, unless the client *)
(* is threaded or a callback runs, both write them: net_mosq.c finishes a  *)
(* packet before the next, over short writes and EAGAIN, and calls         *)
(* on_publish and on_disconnect with current_out_packet_mutex held.        *)
(*                                                                         *)
(* A packet is a number, in the order of queueing, and two parts long.     *)
(* out_packet_mutex is only held over the assignments of one step.         *)
(***************************************************************************)
EXTENDS Naturals, FiniteSets, SequencesExt

CONSTANTS MaxPackets, MaxDials, MaxAgains   \* bounds of the model

ASSUME PacketBounds == MaxPackets \in Nat /\ MaxDials \in Nat /\ MaxAgains \in Nat

VARIABLES
    threaded,    \* mosq->threaded
    made,        \* the number of packets made so far
    out,         \* out_packet ...
    outLast,     \* ... and out_packet_last, which may be left dangling
    current,     \* current_out_packet, and the parts of it written
    pos,
    sock,        \* "open", "down" (every write fails) or "invalid"
    wire,        \* the first packet this connection has carried, the number
                 \* of the last one, and its parts
    owner,       \* the holder of each mutex
    in_callback, \* mosq->in_callback
    at,          \* where each thread is,
    calling,     \* the callback it runs
    connecting,  \* the loop sends CONNECT
    want,        \* writefds holds the socket in this turn of the loop
    dials, agains

callVars == <<made, connecting>>
queueVars == <<out, outLast, current, pos>>
netVars == <<sock, wire, dials, agains>>
lockVars == <<owner, in_callback, calling>>
vars == <<threaded, callVars, queueVars, netVars, lockVars, at, want>>

Threads == {"app", "loop"}
Mutexes == {"current_out_packet", "out_message", "callback"}
Kinds == {"CONNECT", "PUBLISH0", "PUBLISH", "DISCONNECT"}  \* "PUBLISH": any other packet
Callbacks == {"on_publish", "on_disconnect", "on_message", "closed"}
\* "early": queued between the drain of a reconnect and its CONNECT.
Packet == [no : 1 .. MaxPackets, kind : Kinds, early : BOOLEAN]
None == [no |-> 0, kind |-> "none", early |-> FALSE]
Unused == [first |-> None, last |-> 0, part |-> 2]

Init ==
    /\ threaded \in BOOLEAN
    /\ made = 0 /\ connecting = FALSE
    /\ out = <<>> /\ outLast = None /\ current = None /\ pos = 0
    /\ sock = "invalid" /\ wire = Unused /\ dials = 0 /\ agains = 0
    /\ owner = [m \in Mutexes |-> "free"] /\ in_callback = FALSE
    /\ calling = [t \in Threads |-> "none"]
    /\ at = [t \in Threads |-> IF t = "loop" THEN "drain" ELSE "idle"]
    /\ want = FALSE

-----------------------------------------------------------------------------
Goto(t, there) == at' = [at EXCEPT ![t] = there]
Take(m, t) == owner[m] = "free" /\ owner' = [owner EXCEPT ![m] = t]
Release(ms) == owner' = [m \in Mutexes |-> IF m \in ms THEN "free" ELSE owner[m]]
Held(t) == {m \in Mutexes : owner[m] = t}

\* The caller of _mosquitto_packet_queue or _mosquitto_packet_write goes on: the
\* loop closes the socket after an error, except that of a CONNECT.
Return(t, failed) ==
    Goto(t, IF t = "app" THEN "idle"
            ELSE IF ~ failed THEN "loop"
            ELSE IF connecting THEN "drain" ELSE "close")

\* The bound leaves room for the packets that will be made.
Sending == {"PUBLISH0", "PUBLISH", "DISCONNECT", "connect", "callback_message", "ack"}
Room == made + Cardinality({t \in Threads : at[t] \in Sending}) < MaxPackets

\* Mutant: out_packet_last is set for the first packet only.
LinkKeepsLast(packet) ==
    /\ out' = IF out = <<>> THEN <<packet>>
              ELSE IF outLast = Last(out) THEN Append(out, packet)
              ELSE out
    /\ outLast' = IF out = <<>> THEN packet ELSE outLast

\* Mutant: only an empty out_packet_last means an empty queue.
LinkByLast(packet) ==
    /\ out' = IF outLast = None THEN <<packet>>
              ELSE IF out # <<>> /\ outLast = Last(out) THEN Append(out, packet)
              ELSE out
    /\ outLast' = packet

\* A packet joins the queue, through out_packet_last when there is one in it.
Link(packet) ==
    /\ out' = IF out = <<>> THEN <<packet>>
              ELSE IF outLast = Last(out) THEN Append(out, packet)
              ELSE out
    /\ outLast' = packet

\* _mosquitto_packet_queue: the packet is numbered in the order it is linked.
Queue(k) ==
    /\ made' = made + 1
    /\ Link([no |-> made + 1, kind |-> k,
             early |-> k # "CONNECT" /\ at["loop"] \in {"dial", "connect"}])
    /\ UNCHANGED <<current, pos>>

\* The head of the queue becomes the current packet.
Advance ==
    /\ current' = IF out = <<>> THEN None ELSE Head(out)
    /\ out' = IF out = <<>> THEN out ELSE Tail(out)
    /\ outLast' = IF Len(out) = 1 THEN None ELSE outLast
    /\ pos' = 0

-----------------------------------------------------------------------------
(* Calls of the application.                                               *)

\* mosquitto_publish and mosquitto_disconnect.  The socket is tested first and
\* the packet queued a step later.  A message of QoS 1 or 2 joins its own queue
\* under out_message_mutex, which is released before the packet is made.
AppCall ==
    /\ at["app"] = "idle" /\ Room
    /\ sock # "invalid"
    /\ \/ \E k \in {"PUBLISH0", "DISCONNECT"} : Goto("app", k)
       \/ owner["out_message"] = "free" /\ Goto("app", "PUBLISH")
    /\ UNCHANGED <<threaded, callVars, queueVars, netVars, lockVars, want>>

\* The packet is queued; whether it is written at once is decided here, by one
\* flag for all threads.
SendPacket(t) ==
    /\ at[t] \in Kinds \cup {"connect"}
    /\ Queue(IF at[t] = "connect" THEN "CONNECT" ELSE at[t])
    /\ IF in_callback \/ threaded
       THEN Return(t, FALSE) /\ Release(Held(t))
       ELSE Goto(t, "write") /\ UNCHANGED owner
    /\ UNCHANGED <<threaded, connecting, netVars, in_callback, calling, want>>

-----------------------------------------------------------------------------
(* _mosquitto_packet_write.                                                *)

WriteBegin(t) ==
    /\ at[t] = "write"
    /\ \/ /\ sock = "invalid"
          /\ Return(t, TRUE) /\ Release(Held(t))
          /\ UNCHANGED queueVars
       \/ /\ sock # "invalid"
          /\ Take("current_out_packet", t) /\ Goto(t, "writing")
          /\ IF current = None THEN Advance ELSE UNCHANGED queueVars
    /\ UNCHANGED <<threaded, callVars, netVars, in_callback, calling, want>>

\* A part of the current packet goes out; after the last one, what its kind asks.
WritePart(t) ==
    /\ at[t] = "writing" /\ current # None /\ sock = "open"
    /\ wire' = [first |-> IF wire.first = None THEN current ELSE wire.first,
                last |-> current.no, part |-> pos + 1]
    /\ \/ /\ pos = 0 /\ pos' = 1
          /\ UNCHANGED <<out, outLast, current, sock, at, calling>>
       \/ /\ pos = 1 /\ current.kind = "PUBLISH0"
          /\ pos' = 2
          /\ Goto(t, "lock_callback") /\ calling' = [calling EXCEPT ![t] = "on_publish"]
          /\ UNCHANGED <<out, outLast, current, sock>>
       \/ /\ pos = 1 /\ current.kind = "DISCONNECT"
          /\ sock' = "invalid"
          /\ Advance
          /\ Goto(t, "lock_callback") /\ calling' = [calling EXCEPT ![t] = "on_disconnect"]
       \/ /\ pos = 1 /\ current.kind \notin {"PUBLISH0", "DISCONNECT"}
          /\ Advance
          /\ UNCHANGED <<sock, at, calling>>
    /\ UNCHANGED <<threaded, callVars, dials, agains, owner, in_callback, want>>

\* Mutant: a packet cut short is taken to have been sent.
WriteAgainDrops(t) ==
    /\ at[t] = "writing" /\ current # None /\ sock = "open" /\ agains < MaxAgains
    /\ agains' = agains + 1
    /\ Return(t, FALSE) /\ Release(Held(t))
    /\ Advance
    /\ UNCHANGED <<threaded, callVars, sock, wire, dials, in_callback,
                   calling, want>>

\* Mutant: the lock is kept on this way out.
WriteAgainKeepsLock(t) ==
    /\ at[t] = "writing" /\ current # None /\ sock = "open" /\ agains < MaxAgains
    /\ agains' = agains + 1
    /\ Return(t, FALSE)
    /\ UNCHANGED <<threaded, callVars, queueVars, sock, wire, dials, owner, in_callback,
                   calling, want>>

\* EAGAIN: the rest is left for the next call, of either thread.
WriteAgain(t) ==
    /\ at[t] = "writing" /\ current # None /\ sock = "open" /\ agains < MaxAgains
    /\ agains' = agains + 1
    /\ Return(t, FALSE) /\ Release(Held(t))
    /\ UNCHANGED <<threaded, callVars, queueVars, sock, wire, dials, in_callback,
                   calling, want>>

WriteFails(t) ==
    /\ at[t] = "writing" /\ current # None /\ sock # "open"
    /\ Return(t, TRUE) /\ Release(Held(t))
    /\ UNCHANGED <<threaded, callVars, queueVars, netVars, in_callback, calling, want>>

WriteDone(t) ==
    /\ at[t] = "writing" /\ current = None
    /\ Return(t, FALSE) /\ Release(Held(t))
    /\ UNCHANGED <<threaded, callVars, queueVars, netVars, in_callback, calling, want>>

-----------------------------------------------------------------------------
(* Callbacks: of the two above, of a message read, of a connection closed. *)

CallbackBegin(t) ==
    /\ at[t] = "lock_callback"
    /\ Take("callback", t)
    /\ in_callback' = TRUE
    /\ Goto(t, "callback")
    /\ UNCHANGED <<threaded, callVars, queueVars, netVars, calling, want>>

\* The application sends from a callback.
CallbackSends(t) ==
    /\ at[t] = "callback" /\ sock # "invalid" /\ Room
    /\ \E k \in {"PUBLISH0", "DISCONNECT"} : Queue(k)
    /\ UNCHANGED <<threaded, connecting, netVars, lockVars, at, want>>

CallbackPublishes(t) ==
    /\ at[t] = "callback" /\ Room
    /\ Goto(t, "callback_message")
    /\ UNCHANGED <<threaded, callVars, queueVars, netVars, lockVars, want>>

CallbackStores(t) ==
    /\ at[t] = "callback_message" /\ owner["out_message"] = "free"
    /\ IF sock # "invalid" THEN Queue("PUBLISH")
                           ELSE UNCHANGED <<made, queueVars>>
    /\ Goto(t, "callback")
    /\ UNCHANGED <<threaded, connecting, netVars, lockVars, want>>

CallbackEnd(t) ==
    /\ at[t] = "callback"
    /\ in_callback' = FALSE
    /\ calling' = [calling EXCEPT ![t] = "none"]
    /\ \/ /\ calling[t] = "on_publish"
          /\ Release({"callback"}) /\ Goto(t, "writing") /\ Advance
       \/ /\ calling[t] = "on_disconnect"
          /\ Release(Held(t)) /\ Return(t, FALSE) /\ UNCHANGED queueVars
       \/ /\ calling[t] = "on_message"
          /\ Release(Held(t)) /\ Goto(t, "turn") /\ UNCHANGED queueVars
       \/ /\ calling[t] = "closed"
          /\ Release(Held(t)) /\ Goto(t, "drain") /\ UNCHANGED queueVars
    /\ UNCHANGED <<threaded, callVars, netVars, want>>

-----------------------------------------------------------------------------
(* The network thread.                                                     *)

\* Mutant: a packet half written stays.
DrainQueueOnly ==
    /\ at["loop"] = "drain" /\ owner["current_out_packet"] = "free"
    /\ out' = <<>>
    /\ Goto("loop", "dial")
    /\ UNCHANGED <<threaded, callVars, outLast, current, pos, netVars, lockVars, want>>

\* _mosquitto_reconnect drops what is queued.  out_packet_last is left alone.
Drain ==
    /\ at["loop"] = "drain" /\ owner["current_out_packet"] = "free"
    /\ out' = <<>> /\ current' = None /\ pos' = 0
    /\ Goto("loop", "dial")
    /\ UNCHANGED <<threaded, callVars, outLast, netVars, lockVars, want>>

\* The locks are released before the connection is made.
Dial ==
    /\ at["loop"] = "dial" /\ dials < MaxDials /\ Room
    /\ dials' = dials + 1
    /\ \/ sock' = "open" /\ wire' = Unused /\ Goto("loop", "connect")
       \/ UNCHANGED <<sock, wire>> /\ Goto("loop", "drain")
    /\ connecting' = TRUE
    /\ UNCHANGED <<threaded, made, queueVars, agains, lockVars, want>>

\* A turn of mosquitto_loop looks at the queue under its locks.  Then there is
\* nothing to read, a message, an acknowledgement that lets a message held back
\* go, or the end of the connection.
LoopTop ==
    /\ at["loop"] = "loop"
    /\ connecting' = FALSE
    /\ \/ sock = "invalid" /\ Goto("loop", "drain") /\ UNCHANGED <<want, calling>>
       \/ /\ sock # "invalid" /\ owner["current_out_packet"] = "free"
          /\ want' = (out # <<>> \/ current # None)
          /\ \/ Goto("loop", "turn") /\ UNCHANGED calling
             \/ /\ sock = "open" /\ Goto("loop", "lock_callback")
                /\ calling' = [calling EXCEPT !["loop"] = "on_message"]
             \/ sock = "open" /\ Room /\ Goto("loop", "ack") /\ UNCHANGED calling
             \/ sock = "down" /\ Goto("loop", "close") /\ UNCHANGED calling
    /\ UNCHANGED <<threaded, made, queueVars, netVars, owner, in_callback>>

\* The walk of _mosquitto_message_remove sends with out_message_mutex held.
Ack ==
    /\ at["loop"] = "ack"
    /\ Take("out_message", "loop")
    /\ Goto("loop", "PUBLISH")
    /\ UNCHANGED <<threaded, callVars, queueVars, netVars, in_callback, calling, want>>

\* The write of the turn: asked for at its top, or by the byte on sockpairR.
LoopWrite ==
    /\ at["loop"] = "turn"
    /\ \/ sock # "invalid" /\ Goto("loop", "write")
       \/ (sock = "invalid" \/ ~ want) /\ Goto("loop", "loop")
    /\ want' = FALSE
    /\ UNCHANGED <<threaded, callVars, queueVars, netVars, lockVars>>

\* _mosquitto_loop_rc_handle takes no lock to close the socket.
Close ==
    /\ at["loop"] = "close"
    /\ sock' = "invalid"
    /\ Goto("loop", "lock_callback")
    /\ calling' = [calling EXCEPT !["loop"] = "closed"]
    /\ UNCHANGED <<threaded, callVars, queueVars, wire, dials, agains, owner, in_callback,
                   want>>

LinkFails ==
    /\ sock = "open" /\ sock' = "down"
    /\ UNCHANGED <<threaded, callVars, queueVars, wire, dials, agains, lockVars, at, want>>

-----------------------------------------------------------------------------
Sends(t) ==
    \/ SendPacket(t)
    \/ WriteBegin(t) \/ WritePart(t) \/ WriteAgain(t)
    \/ WriteFails(t) \/ WriteDone(t)
    \/ CallbackBegin(t) \/ CallbackSends(t) \/ CallbackPublishes(t)
    \/ CallbackStores(t) \/ CallbackEnd(t)

Loop == Drain \/ Dial \/ LoopTop \/ Ack \/ LoopWrite \/ Close

Next == (\E t \in Threads : Sends(t)) \/ AppCall \/ Loop \/ LinkFails

\* Both threads run; the application need not call.
Fairness == WF_vars(Sends("app")) /\ WF_vars(Sends("loop") \/ Loop)

Spec == Init /\ [][Next]_vars /\ Fairness

-----------------------------------------------------------------------------
(* Properties.                                                             *)

\* Types; and out_packet_last, which the drain leaves dangling, is the last
\* packet whenever there is one to link the next to.
PacketTypeOK ==
    /\ made \in 0 .. MaxPackets
    /\ out \in Seq(Packet) /\ current \in Packet \cup {None} /\ pos \in 0 .. 2
    /\ out # <<>> => outLast = Last(out)
    /\ sock \in {"open", "down", "invalid"}
    /\ owner \in [Mutexes -> Threads \cup {"free"}]
    /\ in_callback = (\E t \in Threads : at[t] \in {"callback", "callback_message"})
    /\ calling \in [Threads -> Callbacks \cup {"none"}]
    /\ dials \in 0 .. MaxDials /\ agains \in 0 .. MaxAgains

\* Whichever threads write, and wherever a write stops, the connection carries
\* whole packets, each once, in the order in which they were queued.
Framed ==
    [][wire' # wire /\ wire' # Unused =>
          \/ wire.part = 1 /\ wire' = [wire EXCEPT !.part = 2]
          \/ wire.part = 2 /\ wire'.part = 1 /\ wire'.last > wire.last]_vars

\* A connection begins with CONNECT, unless another thread queued a packet
\* after the drain of the reconnect and before the CONNECT.
ConnectFirst ==
    wire # Unused => wire.first.kind = "CONNECT" \/ wire.first.early

Wanted(t) ==
    CASE at[t] = "drain" -> {"current_out_packet"}
      [] at[t] \in {"loop", "write"} -> IF sock = "invalid" THEN {} ELSE {"current_out_packet"}
      [] at[t] = "lock_callback" -> {"callback"}
      [] at[t] \in {"callback_message", "ack"} -> {"out_message"}
      [] OTHER -> {}

WaitsFor(t, u) == \E m \in Wanted(t) : owner[m] = u
Deadlocked == \E t \in Threads, u \in Threads : WaitsFor(t, u) /\ WaitsFor(u, t)

\* The threads never wait for each other, or for themselves, unless a callback
\* run by the writing of a packet publishes with QoS 1 or 2.
NoDeadlock ==
    Deadlocked => \E t \in Threads : /\ at[t] = "callback_message"
                                     /\ owner["current_out_packet"] = t

\* Every packet queued is written as long as the connection lasts, also when only
\* the other thread can write it: in the end the last one made has gone out.
EventuallyWritten ==
    []<>((wire.last = made /\ wire.part = 2) \/ sock # "open" \/ Deadlocked)
=============================================================================
