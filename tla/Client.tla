-------------------------------- MODULE Client --------------------------------
(***************************************************************************)
(* The life of a connection: connect, CONNACK, keepalive, loss, back-off,  *)
(* reconnection and disconnection, as the thread that runs the network     *)
(* loop goes through them while another thread calls mosquitto_disconnect. *)
(*                                                                         *)
(* Two applications use it.  The subscriber runs mosquitto_loop_forever,   *)
(* in a Java thread or (threaded) in the thread of mosquitto_loop_start.   *)
(* The publisher of pub_client.c connects, publishes from on_connect,      *)
(* disconnects from on_publish and runs mosquitto_loop until then.         *)
(*                                                                         *)
(* Times are kept as ages, saturated at the keepalive: only whether it has *)
(* been reached is ever tested.                                            *)
(***************************************************************************)
EXTENDS Naturals, Sequences, FiniteSets

CONSTANTS Apps,           \* the applications: records of the set App
          Keepalive,      \* of the subscriber, in ticks
          ReconnectDelay, \* reconnect_delay and reconnect_delay_max
          DelayMax,
          MaxInbox,       \* bound on the packets waiting in the socket
          MaxOut          \* bound on the packets queued while a thread of the app sends

App == [kind : {"subscriber", "publisher"}, threaded : BOOLEAN, sends : BOOLEAN,
        qos : {0, 1}, backoff : BOOLEAN]

ASSUME AppsAssumption == Apps \subseteq App
ASSUME ClientBounds == /\ Keepalive \in Nat \ {0} /\ ReconnectDelay \in Nat
                       /\ DelayMax \in Nat /\ MaxInbox \in Nat \ {0} /\ MaxOut \in Nat

VARIABLES
    app,         \* the application that runs
    pc,          \* where the network thread is
    state,       \* mosq->state
    sock,        \* mosq->sock: "open" or "invalid"
    link,        \* what the network does with an open socket
    greeted,     \* the handshake as the broker sees it
    inbox,       \* packets the socket has ready
    result,      \* the return code of the CONNACK being handled
    out,         \* packets queued and not written
    age,         \* time since last_msg_in, last_msg_out and ping_t
    pinging,     \* ping_t # 0
    reconnects,  \* the counter of mosquitto_loop_forever
    delay,       \* the last sleep before a reconnect, 0 after a good turn
    failing,     \* no CONNECT has been sent since that sleep
    asked,       \* mosquitto_disconnect: not called, state set, returned
    raced,       \* it was called between a test of state and an assignment
    unsent,      \* it found no socket while one was being connected
    reported,    \* on_disconnect: its calls for this connection, its last code
    doubled,     \* the socket was closed where a second report can follow
    unclosed,    \* the write of CONNECT failed with the socket open
    confirmed    \* the publisher: its message is unsent, sent or confirmed

netVars == <<sock, link, greeted, inbox>>
timeVars == <<age, pinging>>
backoffVars == <<reconnects, delay, failing>>
askVars == <<asked, raced, unsent>>
reportVars == <<reported, doubled>>
vars == <<app, pc, state, netVars, result, out, timeVars, backoffVars,
          askVars, reportVars, unclosed, confirmed>>

States == {"new", "connected", "disconnecting"}
Pcs == {"connect", "dial", "send_connect", "loop", "select", "read", "on_connect",
        "connack_set", "write", "misc", "misc_ping", "check", "sleep", "reconnect",
        "returned"}
Results == {"accept", "refuse", "bad"}

\* What arrives.  "PUBLISH1" is a packet answered with another one: a PUBLISH of
\* QoS 1 or 2, a PUBREC.  "PUBLISH" is one without an answer.
Packets == Results \cup {"PINGRESP", "PUBLISH", "PUBLISH1", "PUBREL", "PUBACK"}

\* What is sent.  "PUBLISH" is the message of the publisher, "OTHER" an answer or
\* a packet of another thread, which nothing here tells apart.
Sendable == {"CONNECT", "PINGREQ", "PUBLISH", "DISCONNECT", "OTHER"}

Subscriber == app.kind = "subscriber"
NoReport == [calls |-> 0, rc |-> "none"]
Fresh == [in |-> 0, out |-> 0, ping |-> 0]

\* The publisher leaves its keepalive 0, which switches the checks off.
Overdue(which) == Subscriber /\ age[which] >= Keepalive

Init ==
    /\ app \in Apps
    /\ pc = "connect"
    /\ state = "new"
    /\ sock = "invalid" /\ link = "up" /\ greeted = "no" /\ inbox = <<>>
    /\ result = "none"
    /\ out = <<>>
    /\ age = Fresh /\ pinging = FALSE
    /\ reconnects = 0 /\ delay = 0 /\ failing = FALSE
    /\ asked = "no" /\ raced = FALSE /\ unsent = FALSE
    /\ reported = NoReport /\ doubled = FALSE
    /\ unclosed = FALSE
    /\ confirmed = "no"

-----------------------------------------------------------------------------
(* Closing, reporting, and what a turn of the loop comes back to.          *)

SocketClose == sock' = "invalid" /\ link' = "up" /\ greeted' = "no" /\ inbox' = <<>>

OnDisconnect(rc) ==
    reported' = [calls |-> IF reported.calls = 0 THEN 1 ELSE 2, rc |-> rc]

\* The return code once a disconnect has been asked for.
Expected(rc) == IF state = "disconnecting" THEN "ok" ELSE rc

\* my_disconnect_callback clears the flag on which the publisher's loop goes on.
Connected == reported'.calls = 0

\* The loop of the publisher's pub_send_msg.
PublisherGoesOn(rc) == rc = "ok" /\ Connected

\* What the caller of mosquitto_loop does with its return code.
LoopReturns(rc) ==
    \/ /\ IF Subscriber THEN rc = "ok" ELSE PublisherGoesOn(rc)
       /\ pc' = "loop" /\ reconnects' = 0 /\ delay' = 0 /\ UNCHANGED failing
    \/ /\ Subscriber /\ rc \notin {"ok", "protocol"}
       /\ pc' = "check" /\ UNCHANGED backoffVars
    \/ /\ IF Subscriber THEN rc = "protocol" ELSE ~ PublisherGoesOn(rc)
       /\ pc' = "returned" /\ UNCHANGED backoffVars

\* Mutant: the code is reported without a look at the state.
RcHandleRaw(rc) ==
    /\ SocketClose
    /\ OnDisconnect(rc)
    /\ LoopReturns(Expected(rc))

\* Mutant: the socket stays open.
RcHandleOpen(rc) ==
    /\ UNCHANGED netVars
    /\ OnDisconnect(Expected(rc))
    /\ LoopReturns(Expected(rc))

\* _mosquitto_loop_rc_handle for an error of the read or the write.
RcHandle(rc) ==
    /\ SocketClose
    /\ OnDisconnect(Expected(rc))
    /\ LoopReturns(Expected(rc))

\* After the read: write what is queued (select said so, or the byte on
\* sockpairR), then the rest of the turn.
AfterRead ==
    \/ sock = "open" /\ pc' = (IF out' # <<>> THEN "write" ELSE "misc") /\ UNCHANGED backoffVars
    \/ sock = "invalid" /\ LoopReturns("ok")

-----------------------------------------------------------------------------
(* _mosquitto_packet_queue: a packet is queued, and the caller writes the  *)
(* queue, unless the client is threaded or a callback runs.  A write that  *)
(* fails leaves the packet queued.                                         *)

Writable == sock = "open" /\ ~ app.threaded /\ link # "reset"

\* For the network thread, which has written all it queued before it reads or
\* sends again.
Sent(packet) == IF Writable THEN out ELSE Append(out, packet)
OutAge == IF Writable THEN 0 ELSE age.out

\* The queue is written; a DISCONNECT in it closes the socket, and what is behind
\* it stays queued.  The thread that runs the loop may find this out later.
Flush(queue) ==
    \/ /\ \A i \in DOMAIN queue : queue[i] # "DISCONNECT"
       /\ out' = <<>>
       /\ UNCHANGED <<netVars, reportVars>>
    \/ \E i \in DOMAIN queue :
          /\ queue[i] = "DISCONNECT"
          /\ \A j \in 1 .. i - 1 : queue[j] # "DISCONNECT"
          /\ out' = SubSeq(queue, i + 1, Len(queue))
          /\ SocketClose /\ OnDisconnect("ok")
          /\ doubled' = (doubled \/ pc \in {"read", "write", "misc_ping"})

\* For another thread with a socket.  in_callback does not tell whose callback
\* it is.
AtOnce == Writable /\ pc # "on_connect"

Sends(packet) ==
    \/ AtOnce /\ Flush(Append(out, packet))
    \/ /\ ~ AtOnce
       /\ out' = Append(out, packet)
       /\ UNCHANGED <<netVars, reportVars>>

-----------------------------------------------------------------------------
(* mosquitto_connect_bind, _mosquitto_reconnect.                           *)

\* The state is overwritten, the times restart, unsent packets are dropped.
BeginReconnect ==
    /\ pc \in {"connect", "reconnect"}
    /\ state' = "new"
    /\ age' = Fresh /\ pinging' = FALSE
    /\ out' = <<>>
    /\ pc' = "dial"
    /\ UNCHANGED <<app, netVars, result, backoffVars, askVars, reportVars,
                   unclosed, confirmed>>

\* The subscriber ignores a failed first connect: its loop finds no socket and
\* reconnects.  The publisher gives up.
DialFails ==
    /\ pc = "dial"
    /\ pc' = IF Subscriber THEN "check" ELSE "returned"
    /\ UNCHANGED <<app, state, netVars, result, out, timeVars, backoffVars,
                   askVars, reportVars, unclosed, confirmed>>

\* The new descriptor replaces the old one, open or not.
DialSucceeds ==
    /\ pc = "dial"
    /\ sock' = "open" /\ link' = "up" /\ greeted' = "no" /\ inbox' = <<>>
    /\ reported' = NoReport /\ doubled' = FALSE
    /\ unclosed' = FALSE
    /\ pc' = "send_connect"
    /\ UNCHANGED <<app, state, result, out, timeVars, backoffVars, askVars, confirmed>>

\* CONNECT is written at once, behind what other threads queued during the dial
\* (a DISCONNECT in it ends the connection), or queued for the network thread.
SendConnect ==
    /\ pc = "send_connect"
    /\ \/ /\ app.threaded
          /\ out' = Append(out, "CONNECT")
          /\ pc' = "loop" /\ failing' = FALSE
          /\ UNCHANGED <<netVars, age, reportVars, unclosed>>
       \/ /\ Writable /\ \A i \in DOMAIN out : out[i] # "DISCONNECT"
          /\ greeted' = "connect"
          /\ age' = [age EXCEPT !.out = 0]
          /\ out' = <<>>
          /\ pc' = "loop" /\ failing' = FALSE
          /\ UNCHANGED <<sock, link, inbox, reportVars, unclosed>>
       \/ /\ Writable /\ \E i \in DOMAIN out : out[i] = "DISCONNECT"
          /\ Flush(Append(out, "CONNECT"))
          /\ age' = [age EXCEPT !.out = 0]
          /\ pc' = "loop" /\ failing' = FALSE
          /\ UNCHANGED unclosed
       \/ /\ ~ app.threaded /\ ~ Writable
          /\ unclosed' = (sock = "open")
          /\ pc' = IF Subscriber THEN "check" ELSE "returned"
          /\ UNCHANGED <<netVars, out, age, failing, reportVars>>
    /\ UNCHANGED <<app, state, result, pinging, reconnects, delay, askVars, confirmed>>

-----------------------------------------------------------------------------
(* mosquitto_loop.                                                         *)

LoopTop ==
    /\ pc = "loop"
    /\ \/ sock = "open" /\ pc' = "select" /\ UNCHANGED backoffVars
       \/ sock = "invalid" /\ LoopReturns("no_conn")
    /\ UNCHANGED <<app, state, netVars, result, out, timeVars, askVars,
                   reportVars, unclosed, confirmed>>

Readable == inbox # <<>> \/ link = "reset"

\* select returns, with the socket ready or without.  When another thread has
\* closed it, select fails or the timeout passes.
Select ==
    /\ pc = "select"
    /\ \/ /\ sock = "open"
          /\ pc' = IF Readable THEN "read" ELSE IF out # <<>> THEN "write" ELSE "misc"
          /\ UNCHANGED backoffVars
       \/ sock = "invalid" /\ LoopReturns("errno")
       \/ sock = "invalid" /\ pc' = "misc" /\ UNCHANGED backoffVars
    /\ UNCHANGED <<app, state, netVars, result, out, timeVars, askVars,
                   reportVars, unclosed, confirmed>>

\* The socket was closed since select returned, or the peer closed it.
ReadFails ==
    /\ pc = "read"
    /\ \/ sock = "invalid" /\ RcHandle("no_conn")
       \/ sock = "open" /\ inbox = <<>> /\ RcHandle("conn_lost")
    /\ UNCHANGED <<app, state, result, out, timeVars, askVars, doubled,
                   unclosed, confirmed>>

Received(types) == pc = "read" /\ inbox # <<>> /\ Head(inbox) \in types

\* _mosquitto_handle_pingresp.
ReadPingresp ==
    /\ Received({"PINGRESP"})
    /\ inbox' = Tail(inbox)
    /\ pinging' = FALSE
    /\ age' = [age EXCEPT !.in = 0]
    /\ UNCHANGED <<out, reported>> /\ AfterRead
    /\ UNCHANGED <<app, state, sock, link, greeted, result, askVars, doubled,
                   unclosed, confirmed>>

\* mosquitto_disconnect in a callback: the packet is only queued.
DisconnectInCallback ==
    /\ state' = "disconnecting" /\ asked' = "done"
    /\ out' = Append(out, "DISCONNECT")

\* A message; my_message_callback may disconnect (msg_count reached).
ReadPublish ==
    /\ Received({"PUBLISH"})
    /\ inbox' = Tail(inbox)
    /\ age' = [age EXCEPT !.in = 0]
    /\ \/ UNCHANGED <<state, asked, out>>
       \/ Subscriber /\ asked = "no" /\ DisconnectInCallback
    /\ UNCHANGED reported /\ AfterRead
    /\ UNCHANGED <<app, sock, link, greeted, result, pinging, raced, unsent, doubled,
                   unclosed, confirmed>>

\* A handler that has sent an answer returns what its write returned.
Answered(rc) ==
    IF app.threaded \/ Writable
    THEN /\ inbox' = Tail(inbox)
         /\ UNCHANGED <<sock, link, greeted, reported>>
         /\ AfterRead
    ELSE SocketClose /\ OnDisconnect(rc) /\ LoopReturns(rc)

\* The answer (PUBACK, PUBREC) is sent before the message is passed on.
ReadPublish1 ==
    /\ Received({"PUBLISH1"})
    /\ age' = [age EXCEPT !.in = 0, !.out = OutAge]
    /\ \/ /\ out' = Sent("OTHER")
          /\ UNCHANGED <<state, asked>>
          /\ Answered(Expected("errno"))
       \/ /\ asked = "no" /\ state' = "disconnecting" /\ asked' = "done"
          /\ out' = Append(Sent("OTHER"), "DISCONNECT")
          /\ Answered("ok")
    /\ UNCHANGED <<app, result, pinging, raced, unsent, doubled, unclosed, confirmed>>

\* The message is passed on before the PUBCOMP is sent, whose write finds the
\* DISCONNECT of the callback before it.
ReadPubrel ==
    /\ Received({"PUBREL"})
    /\ age' = [age EXCEPT !.in = 0, !.out = OutAge]
    /\ \/ /\ out' = Sent("OTHER")
          /\ UNCHANGED <<state, asked>>
          /\ Answered(Expected("errno"))
       \/ /\ asked = "no" /\ state' = "disconnecting" /\ asked' = "done"
          /\ \/ /\ ~ Writable
                /\ out' = Append(Append(out, "DISCONNECT"), "OTHER")
                /\ Answered("ok")
             \/ /\ Writable
                /\ out' = <<"OTHER">>
                /\ SocketClose /\ OnDisconnect("ok") /\ LoopReturns("ok")
    /\ UNCHANGED <<app, result, pinging, raced, unsent, doubled, unclosed, confirmed>>

\* Mutant: on_publish is not called for a QoS 1 message.
ReadPubackSilent ==
    /\ Received({"PUBACK"})
    /\ inbox' = Tail(inbox)
    /\ age' = [age EXCEPT !.in = 0]
    /\ UNCHANGED <<out, reported>> /\ AfterRead
    /\ UNCHANGED <<app, state, sock, link, greeted, result, pinging, askVars,
                   doubled, unclosed, confirmed>>

\* The PUBACK of the publisher's message: on_publish disconnects.
ReadPuback ==
    /\ Received({"PUBACK"})
    /\ inbox' = Tail(inbox)
    /\ age' = [age EXCEPT !.in = 0]
    /\ DisconnectInCallback
    /\ UNCHANGED reported /\ AfterRead
    /\ UNCHANGED <<app, sock, link, greeted, result, pinging, raced, unsent, doubled,
                   unclosed, confirmed>>

\* _mosquitto_handle_connack begins: on_connect runs.
ReadConnack ==
    /\ Received(Results)
    /\ result' = Head(inbox)
    /\ inbox' = Tail(inbox)
    /\ pc' = "on_connect"
    /\ UNCHANGED <<app, state, sock, link, greeted, out, timeVars, backoffVars,
                   askVars, reportVars, unclosed, confirmed>>

\* The publisher publishes, whatever the result, if it knows the trans mode.
MyPubConnectCallback == out' = IF app.sends THEN Append(out, "PUBLISH") ELSE out

\* on_connect returns.  The state is tested here and set in a step of its own.
OnConnect ==
    /\ pc = "on_connect"
    /\ MyPubConnectCallback
    /\ age' = [age EXCEPT !.in = 0]
    /\ result' = "none"
    /\ \/ /\ result = "accept" /\ state # "disconnecting"
          /\ pc' = "connack_set"
          /\ UNCHANGED <<netVars, backoffVars, reported>>
       \/ /\ result = "accept" /\ state = "disconnecting"
          /\ UNCHANGED <<netVars, reported>> /\ AfterRead
       \/ result = "refuse" /\ RcHandle("refused")
       \/ result = "bad" /\ RcHandle("protocol")
    /\ UNCHANGED <<app, state, pinging, askVars, doubled, unclosed, confirmed>>

ConnackSet ==
    /\ pc = "connack_set"
    /\ state' = "connected"
    /\ UNCHANGED <<out, reported>> /\ AfterRead
    /\ UNCHANGED <<app, netVars, result, timeVars, askVars, doubled, unclosed, confirmed>>

WriteFails ==
    /\ pc = "write"
    /\ \/ sock = "invalid" /\ RcHandle("no_conn")
       \/ sock = "open" /\ link = "reset" /\ RcHandle("errno")
    /\ UNCHANGED <<app, state, result, out, timeVars, askVars, doubled, unclosed, confirmed>>

\* One packet of _mosquitto_packet_write, other than DISCONNECT.  on_publish
\* runs for a QoS 0 message, and the publisher disconnects in it.
Write ==
    /\ pc = "write" /\ sock = "open" /\ link # "reset"
    /\ out # <<>> /\ Head(out) # "DISCONNECT"
    /\ greeted' = IF Head(out) = "CONNECT" THEN "connect" ELSE greeted
    /\ age' = [age EXCEPT !.out = 0]
    /\ \/ /\ Head(out) = "PUBLISH" /\ app.qos = 0
          /\ state' = "disconnecting" /\ asked' = "done" /\ confirmed' = "sent"
          /\ out' = Append(Tail(out), "DISCONNECT")
       \/ /\ Head(out) = "PUBLISH" /\ app.qos = 1
          /\ confirmed' = "sent" /\ out' = Tail(out)
          /\ UNCHANGED <<state, asked>>
       \/ /\ Head(out) # "PUBLISH" /\ out' = Tail(out)
          /\ UNCHANGED <<state, asked, confirmed>>
    /\ UNCHANGED <<app, pc, sock, link, inbox, result, pinging, backoffVars,
                   raced, unsent, reportVars, unclosed>>

\* The DISCONNECT is written: the socket is closed and on_disconnect runs.
WriteDisconnect ==
    /\ pc = "write" /\ sock = "open" /\ link # "reset"
    /\ out # <<>> /\ Head(out) = "DISCONNECT"
    /\ out' = Tail(out)
    /\ age' = [age EXCEPT !.out = 0]
    /\ SocketClose /\ OnDisconnect("ok") /\ LoopReturns("ok")
    /\ UNCHANGED <<app, state, result, pinging, askVars, doubled, unclosed, confirmed>>

WriteDone ==
    /\ pc = "write" /\ out = <<>> /\ sock = "open"
    /\ pc' = "misc"
    /\ UNCHANGED <<app, state, netVars, result, out, timeVars, backoffVars,
                   askVars, reportVars, unclosed, confirmed>>

-----------------------------------------------------------------------------
(* mosquitto_loop_misc.                                                    *)

PingDue == Overdue("in") \/ Overdue("out")

\* Mutant: a turn without a socket is handled like a failed read.
NoSocketReports ==
    /\ pc = "misc" /\ sock = "invalid"
    /\ RcHandle("no_conn")
    /\ UNCHANGED <<app, state, result, out, timeVars, askVars, doubled,
                   unclosed, confirmed>>

NoSocket ==
    /\ pc = "misc" /\ sock = "invalid"
    /\ UNCHANGED reported /\ LoopReturns("no_conn")
    /\ UNCHANGED <<app, state, netVars, result, out, timeVars, askVars, doubled,
                   unclosed, confirmed>>

KeepaliveQuiet ==
    /\ pc = "misc" /\ sock = "open" /\ ~ PingDue
    /\ pc' = "misc_ping"
    /\ UNCHANGED <<app, state, netVars, result, out, timeVars, backoffVars,
                   askVars, reportVars, unclosed, confirmed>>

\* Mutant: a PINGREQ is sent again while the answer to the last is due.
KeepalivePingAgain ==
    /\ pc = "misc" /\ sock = "open" /\ PingDue
    /\ state = "connected"
    /\ age' = Fresh
    /\ pinging' = TRUE
    /\ pc' = "misc_ping"
    /\ UNCHANGED <<app, state, netVars, result, out, backoffVars, askVars,
                   reportVars, unclosed, confirmed>>

\* A PINGREQ is sent (or fails), and the times restart from before it.
KeepalivePing ==
    /\ pc = "misc" /\ sock = "open" /\ PingDue
    /\ state = "connected" /\ ~ pinging
    /\ \E late \in 0 .. 1 : age' = [in |-> late, out |-> late, ping |-> 0]
    /\ pinging' = (app.threaded \/ link # "reset")
    /\ out' = Sent("PINGREQ")
    /\ pc' = "misc_ping"
    /\ UNCHANGED <<app, state, netVars, result, backoffVars, askVars,
                   reportVars, unclosed, confirmed>>

\* Mutant: only a PINGREQ without an answer closes the connection.
KeepaliveCloseByPing ==
    /\ pc = "misc" /\ sock = "open" /\ PingDue
    /\ pc' = "misc_ping"
    /\ IF pinging
       THEN SocketClose /\ OnDisconnect(Expected("timeout")) /\ doubled' = TRUE
       ELSE state # "connected" /\ UNCHANGED <<netVars, reportVars>>
    /\ UNCHANGED <<app, state, result, out, timeVars, backoffVars, askVars,
                   unclosed, confirmed>>

\* No CONNACK, no PINGRESP, or a disconnect that was not written: the
\* connection is given up, and the turn goes on to the second test.
KeepaliveClose ==
    /\ pc = "misc" /\ sock = "open" /\ PingDue
    /\ state # "connected" \/ pinging
    /\ SocketClose /\ OnDisconnect(Expected("timeout"))
    /\ doubled' = (doubled \/ pinging)
    /\ pc' = "misc_ping"
    /\ UNCHANGED <<app, state, result, out, timeVars, backoffVars, askVars,
                   unclosed, confirmed>>

\* _mosquitto_message_retry_check between the two tests: a PUBREC or another
\* packet whose answer is overdue is sent again, with or without success.
Retries ==
    \/ UNCHANGED <<out, age>>
    \/ Subscriber /\ out' = Sent("OTHER") /\ age' = [age EXCEPT !.out = OutAge]

PingTimeout ==
    /\ pc = "misc_ping"
    /\ pinging /\ Overdue("ping")
    /\ Retries
    /\ SocketClose /\ OnDisconnect(Expected("timeout")) /\ LoopReturns("conn_lost")
    /\ UNCHANGED <<app, state, result, pinging, askVars, doubled, unclosed, confirmed>>

TurnDone ==
    /\ pc = "misc_ping"
    /\ ~ (pinging /\ Overdue("ping"))
    /\ Retries
    /\ UNCHANGED reported /\ LoopReturns("ok")
    /\ UNCHANGED <<app, state, netVars, result, pinging, askVars, doubled, unclosed, confirmed>>

-----------------------------------------------------------------------------
(* mosquitto_loop_forever after an error.                                  *)

BackoffOf(r) == IF app.backoff THEN ReconnectDelay * r * r ELSE ReconnectDelay

\* Mutant: the counter goes on at the limit.
CheckStateUncapped ==
    /\ pc = "check" /\ state # "disconnecting"
    /\ pc' = "sleep" /\ failing' = TRUE
    /\ delay' = IF BackoffOf(reconnects) > DelayMax THEN DelayMax ELSE BackoffOf(reconnects)
    /\ reconnects' = IF app.backoff THEN reconnects + 1 ELSE 1
    /\ UNCHANGED <<app, state, netVars, result, out, timeVars, askVars,
                   reportVars, unclosed, confirmed>>

\* Mutant: the counter starts over at the limit.
CheckStateWraps ==
    /\ pc = "check" /\ state # "disconnecting"
    /\ pc' = "sleep" /\ failing' = TRUE
    /\ IF BackoffOf(reconnects) > DelayMax
       THEN delay' = DelayMax /\ reconnects' = 0
       ELSE delay' = BackoffOf(reconnects) /\ reconnects' = reconnects + 1
    /\ UNCHANGED <<app, state, netVars, result, out, timeVars, askVars,
                   reportVars, unclosed, confirmed>>

\* The state is tested before the sleep.  Without back-off only whether the
\* counter is 0 matters, so it stops at 1.
CheckState ==
    /\ pc = "check"
    /\ \/ state = "disconnecting" /\ pc' = "returned" /\ UNCHANGED backoffVars
       \/ /\ state # "disconnecting"
          /\ pc' = "sleep" /\ failing' = TRUE
          /\ IF BackoffOf(reconnects) > DelayMax
             THEN delay' = DelayMax /\ UNCHANGED reconnects
             ELSE /\ delay' = BackoffOf(reconnects)
                  /\ reconnects' = IF app.backoff THEN reconnects + 1 ELSE 1
    /\ UNCHANGED <<app, state, netVars, result, out, timeVars, askVars,
                   reportVars, unclosed, confirmed>>

\* Mutant: the sleep is not followed by a second look at the state.
SleepUnchecked ==
    /\ pc = "sleep"
    /\ pc' = "reconnect"
    /\ UNCHANGED <<app, state, netVars, result, out, timeVars, backoffVars,
                   askVars, reportVars, unclosed, confirmed>>

\* ... and after it.
Sleep ==
    /\ pc = "sleep"
    /\ pc' = IF state = "disconnecting" THEN "returned" ELSE "reconnect"
    /\ UNCHANGED <<app, state, netVars, result, out, timeVars, backoffVars,
                   askVars, reportVars, unclosed, confirmed>>

-----------------------------------------------------------------------------
(* Another thread.                                                         *)

\* mosquitto_disconnect sets the state.  Between a test of the state and the
\* assignment that follows it, this is overwritten.
AskDisconnect ==
    /\ Subscriber /\ asked = "no"
    /\ asked' = "set"
    /\ state' = "disconnecting"
    /\ raced' = (pc \in {"connect", "reconnect", "connack_set"})
    /\ UNCHANGED <<app, pc, netVars, result, out, timeVars, backoffVars, unsent,
                   reportVars, unclosed, confirmed>>

\* ... and sends the packet, if there is a socket.
SendDisconnect ==
    /\ asked = "set"
    /\ asked' = "done"
    /\ \/ /\ sock = "invalid"
          /\ unsent' = (pc = "dial")
          /\ UNCHANGED <<netVars, out, age, reportVars>>
       \/ /\ sock = "open" /\ Sends("DISCONNECT")
          /\ age' = [age EXCEPT !.out = IF AtOnce THEN 0 ELSE @]
          /\ UNCHANGED unsent
    /\ UNCHANGED <<app, pc, state, result, pinging, backoffVars, raced, unclosed,
                   confirmed>>

\* mosquitto_publish, called by a Java thread.
AppPublishes ==
    /\ Subscriber /\ pc \notin {"connect", "returned"} /\ Len(out) < MaxOut
    /\ sock = "open" /\ Sends("OTHER")
    /\ age' = [age EXCEPT !.out = IF AtOnce THEN 0 ELSE @]
    /\ UNCHANGED <<app, pc, state, result, pinging, backoffVars, askVars, unclosed, confirmed>>

\* sub_enter_channel, sub_quit_channel: a SUBSCRIBE or UNSUBSCRIBE when the state
\* is connected; then, whatever came of it, both times are set to now.
Touch ==
    /\ Subscriber /\ pc \notin {"connect", "returned"} /\ Len(out) < MaxOut
    /\ IF state = "connected" /\ sock = "open"
       THEN Sends("OTHER")
       ELSE UNCHANGED <<netVars, out, reportVars>>
    /\ age' = [age EXCEPT !.in = 0, !.out = 0]
    /\ UNCHANGED <<app, pc, state, result, pinging, backoffVars, askVars, unclosed, confirmed>>

-----------------------------------------------------------------------------
(* Time, the network and the broker.                                       *)

Tick ==
    /\ \E which \in DOMAIN age : age[which] < Keepalive
    /\ age' = [which \in DOMAIN age |->
                  IF age[which] < Keepalive THEN age[which] + 1 ELSE Keepalive]
    /\ UNCHANGED <<app, pc, state, netVars, result, out, pinging, backoffVars,
                   askVars, reportVars, unclosed, confirmed>>

\* "dead": nothing arrives any more and writes still succeed.  "reset": the
\* peer has closed the connection.
LinkFails ==
    /\ sock = "open" /\ link = "up"
    /\ link' \in {"dead", "reset"}
    /\ UNCHANGED <<app, pc, state, sock, greeted, inbox, result, out, timeVars,
                   backoffVars, askVars, reportVars, unclosed, confirmed>>

Arrives(packet) ==
    /\ sock = "open" /\ link = "up" /\ Len(inbox) < MaxInbox
    /\ inbox' = Append(inbox, packet)
    /\ UNCHANGED <<app, pc, state, sock, link, result, out, timeVars,
                   backoffVars, askVars, reportVars, unclosed>>

BrokerConnack ==
    /\ greeted = "connect" /\ greeted' = "connack"
    /\ \E r \in Results : Arrives(r)
    /\ UNCHANGED confirmed

BrokerPingresp ==
    /\ pinging /\ \A i \in DOMAIN inbox : inbox[i] # "PINGRESP"
    /\ Arrives("PINGRESP")
    /\ UNCHANGED <<greeted, confirmed>>

BrokerPublish ==
    /\ Subscriber /\ greeted = "connack"
    /\ \E packet \in {"PUBLISH", "PUBLISH1", "PUBREL"} : Arrives(packet)
    /\ UNCHANGED <<greeted, confirmed>>

BrokerPuback ==
    /\ app.qos = 1 /\ confirmed = "sent" /\ confirmed' = "yes"
    /\ Arrives("PUBACK")
    /\ UNCHANGED greeted

-----------------------------------------------------------------------------
NetworkThread ==
    \/ BeginReconnect \/ DialFails \/ DialSucceeds \/ SendConnect
    \/ LoopTop \/ Select
    \/ ReadFails \/ ReadPingresp \/ ReadPublish \/ ReadPublish1 \/ ReadPubrel
    \/ ReadPuback \/ ReadConnack
    \/ OnConnect \/ ConnackSet
    \/ WriteFails \/ Write \/ WriteDisconnect \/ WriteDone
    \/ NoSocket \/ KeepaliveQuiet \/ KeepalivePing \/ KeepaliveClose
    \/ PingTimeout \/ TurnDone
    \/ CheckState \/ Sleep

Broker == BrokerConnack \/ BrokerPingresp \/ BrokerPublish \/ BrokerPuback

Next ==
    \/ NetworkThread
    \/ AskDisconnect \/ SendDisconnect \/ AppPublishes \/ Touch
    \/ Tick \/ LinkFails
    \/ Broker

\* The threads run and time passes; nothing is assumed of the network except
\* that an answer that is due comes as long as the connection lasts.
Fairness ==
    /\ WF_vars(NetworkThread)
    /\ WF_vars(SendDisconnect)
    /\ WF_vars(Tick)
    /\ WF_vars(BrokerConnack) /\ WF_vars(BrokerPuback)

Spec == Init /\ [][Next]_vars /\ Fairness

-----------------------------------------------------------------------------
(* Properties.                                                             *)

\* Every variable keeps its type; in particular the back-off counter stops.
ClientTypeOK ==
    /\ app \in Apps /\ pc \in Pcs /\ state \in States
    /\ sock \in {"open", "invalid"} /\ link \in {"up", "dead", "reset"}
    /\ greeted \in {"no", "connect", "connack"}
    /\ inbox \in Seq(Packets) /\ Len(inbox) <= MaxInbox
    /\ result \in Results \cup {"none"}
    /\ out \in Seq(Sendable)
    /\ age \in [{"in", "out", "ping"} -> 0 .. Keepalive]
    /\ pinging \in BOOLEAN
    /\ reconnects \in 0 .. DelayMax + 1 /\ delay \in 0 .. DelayMax /\ failing \in BOOLEAN
    /\ asked \in {"no", "set", "done"} /\ raced \in BOOLEAN /\ unsent \in BOOLEAN
    /\ reported.calls \in 0 .. 2
    /\ doubled \in BOOLEAN /\ unclosed \in BOOLEAN
    /\ confirmed \in {"no", "sent", "yes"}

\* mosquitto_disconnect is final: nothing the network thread does, on any path
\* of connecting, failing or reconnecting, takes the state back, except when
\* the call came in one of the windows between a test and an assignment.
DisconnectSticks == asked # "no" /\ ~ raced => state = "disconnecting"

\* _mosquitto_reconnect never dials while the last socket is open (it would
\* lose the descriptor), except after a CONNECT that could not be written.
NoDescriptorLost == pc = "dial" /\ sock = "open" => unclosed

\* on_disconnect is called once for a connection, however the keepalive, the
\* peer and the other thread's DISCONNECT end it, except when the socket was
\* closed between the two timeout tests of a turn, or by the other thread
\* between select and the read or write.
ReportedOnce == reported.calls > 1 => doubled

\* on_disconnect gets 0 when the application has disconnected, and only then.
ReportsTruthfully ==
    [][\A rc \in {"ok", "no_conn", "conn_lost", "errno", "refused", "protocol", "timeout"} :
          reported' = [calls |-> reported.calls + 1, rc |-> rc] =>
              IF rc = "ok" THEN asked' # "no" ELSE asked = "no" \/ raced]_vars

\* The waits before reconnecting get longer with every attempt that fails, up to
\* the maximum, when there is back-off; and they start over only after a turn of
\* a connection on which CONNECT was sent.  This is what is left of the examples
\* of mosquitto.h:1248-1254, 2, 4, 6, 8, 10, 10 without back-off and 3, 6, 12, 24,
\* 30, 30 with it: the code waits 2, 2, 2 and 0, 3, 12, 27, 30, 30.
BackoffGrows ==
    [][/\ delay' < delay => ~ failing
       /\ pc = "check" /\ pc' = "sleep" /\ failing /\ app.backoff /\ ReconnectDelay > 0
             => delay' > delay \/ delay' = DelayMax]_vars

\* A disconnect ends mosquitto_loop_forever, whatever it finds the network thread
\* doing; except that, when it came during the dial, so that no DISCONNECT was
\* sent, traffic in both directions may keep the times fresh for ever, and with
\* them the connection (or other threads queue as fast as the thread writes).
DisconnectReturns ==
    \/ asked # "no" /\ ~ raced ~> pc = "returned"
    \/ <>unsent /\ ([]<>(~ PingDue) \/ <>[](pc = "write"))

\* A peer that has fallen silent is given up in the end, unless the app goes on
\* for ever with calls of sub_enter_channel, each of which sets the times to now,
\* or queues packets as fast as they are written.
DeadPeerNoticed ==
    \/ Subscriber /\ sock = "open" /\ link = "dead" ~> sock = "invalid" \/ link = "up"
    \/ []<><<Touch>>_vars
    \/ <>[](pc = "write")

\* pub_send_msg of the stand-alone publisher returns when its broker stays
\* connected and the mode of the message is one that is sent.
PublisherReturns ==
    ~ Subscriber /\ app.sends => <>(pc = "returned" \/ link = "dead")
=============================================================================
