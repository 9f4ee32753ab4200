----------------------------- MODULE ClientProofs -----------------------------
(***************************************************************************)
(* Theorems about Client, for every set of applications, every keepalive,  *)
(* every delay and every bound.                                            *)
(***************************************************************************)
EXTENDS Client, SequenceTheorems, TLAPS

USE DEF PublisherGoesOn, MyPubConnectCallback

\* A disconnect holds, and the network thread is not about to overwrite it.
StickInv ==
    /\ DisconnectSticks
    /\ asked # "no" /\ ~ raced =>
          pc \notin {"connect", "reconnect", "connack_set"}

\* The thread leaves the loop without a socket, or with one that could not
\* take its CONNECT.
SocketInv ==
    pc \in {"connect", "dial", "check", "sleep", "reconnect"} /\ sock = "open" =>
        unclosed

\* A report goes with a close: an open socket has none, and whoever would report
\* a closed one again is counted in doubled.
ReportInv ==
    /\ reported.calls \in 0 .. 2
    /\ sock = "open" => reported.calls = 0
    /\ inbox # <<>> \/ pc = "on_connect" => sock = "open"
    /\ pc \in {"read", "write"} => sock = "open" \/ doubled
    /\ pc = "misc_ping" /\ pinging => sock = "open" \/ doubled
    /\ reported.calls > 1 => doubled
    /\ doubled \in BOOLEAN

\* The state is "disconnecting" only after mosquitto_disconnect, and only then
\* is there a DISCONNECT to write.
TruthInv ==
    /\ StickInv
    /\ reported.calls \in 0 .. 2
    /\ state = "disconnecting" => asked # "no"
    /\ asked = "no" => out \in Seq(Sendable \ {"DISCONNECT"})

\* The codes on_disconnect may get.
Codes == {"ok", "no_conn", "conn_lost", "errno", "refused", "protocol", "timeout"}

\* The last wait does not exceed the next one; and while attempts fail, so that
\* no turn of the loop begins, it is the maximum or the one before the next.
WaitInv ==
    /\ app \in App
    /\ reconnects \in Nat /\ delay \in 0 .. DelayMax /\ failing \in BOOLEAN
    /\ delay <= BackoffOf(reconnects)
    /\ failing =>
          /\ pc \in {"check", "sleep", "reconnect", "dial", "send_connect", "returned"}
          /\ \/ delay = DelayMax /\ BackoffOf(reconnects) > DelayMax
             \/ reconnects >= 1 /\ delay = BackoffOf(reconnects - 1)

\* ClientTypeOK, in parts.
ThreadTypes ==
    /\ app \in Apps /\ pc \in Pcs /\ state \in States
    /\ sock \in {"open", "invalid"} /\ link \in {"up", "dead", "reset"}
    /\ greeted \in {"no", "connect", "connack"}
    /\ result \in Results \cup {"none"}
    /\ asked \in {"no", "set", "done"}
    /\ confirmed \in {"no", "sent", "yes"}
QueueTypes ==
    /\ inbox \in Seq(Packets) /\ Len(inbox) <= MaxInbox
    /\ out \in Seq(Sendable)
Ages == [{"in", "out", "ping"} -> 0 .. Keepalive]
CountTypes ==
    /\ age \in [{"in", "out", "ping"} -> 0 .. Keepalive]
    /\ reconnects \in 0 .. DelayMax + 1 /\ delay \in 0 .. DelayMax
    /\ reported.calls \in 0 .. 2
FlagTypes == /\ pinging \in BOOLEAN /\ raced \in BOOLEAN /\ unsent \in BOOLEAN
             /\ failing \in BOOLEAN /\ doubled \in BOOLEAN /\ unclosed \in BOOLEAN

\* What an action does with the queues.
InboxStep == \/ inbox' = inbox
             \/ inbox' = <<>>
             \/ inbox # <<>> /\ inbox' = Tail(inbox)
OutStep ==
    \/ out' = out
    \/ out' = <<>>
    \/ out' = <<"OTHER">>
    \/ out # <<>> /\ out' = Tail(out)
    \/ out # <<>> /\ out' = Append(Tail(out), "DISCONNECT")
    \/ \E p \in Sendable : out' = Append(out, p)
    \/ \E p, q \in Sendable : out' = Append(Append(out, p), q)
    \/ \E p \in Sendable : \E i \in DOMAIN Append(out, p) :
          out' = SubSeq(Append(out, p), i + 1, Len(Append(out, p)))

-----------------------------------------------------------------------------
\* What an action does with the queues keeps their types.
LEMMA QueueStep ==
    ASSUME QueueTypes, InboxStep, OutStep
    PROVE  QueueTypes'
<1>. USE ClientBounds
<1>1. inbox' \in Seq(Packets) /\ Len(inbox') <= MaxInbox
  <2>1. CASE inbox' = <<>>
    BY <2>1
  <2>2. CASE inbox # <<>> /\ inbox' = Tail(inbox)
    BY <2>2, HeadTailProperties, LenProperties DEF QueueTypes
  <2>. QED  BY <2>1, <2>2 DEF InboxStep, QueueTypes
<1>2. out' \in Seq(Sendable)
  <2>0. "DISCONNECT" \in Sendable /\ "OTHER" \in Sendable
    BY DEF Sendable
  <2>1. CASE out' = out \/ out' = <<>>
    BY <2>1, EmptySeq, Zenon DEF QueueTypes
  <2>2. CASE out # <<>> /\ out' \in {Tail(out), Append(Tail(out), "DISCONNECT")}
    <3>1. Tail(out) \in Seq(Sendable)
      BY <2>2, HeadTailProperties DEF QueueTypes
    <3>. QED  BY <2>0, <2>2, <3>1, AppendProperties
  <2>3. CASE \E p \in Sendable : out' = Append(out, p)
    BY <2>3, AppendProperties DEF QueueTypes
  <2>4. CASE \E p, q \in Sendable : out' = Append(Append(out, p), q)
    BY <2>4, AppendProperties DEF QueueTypes
  <2>5. CASE out' = <<"OTHER">>
    BY <2>0, <2>5
  <2>6. CASE \E p \in Sendable : \E i \in DOMAIN Append(out, p) :
                out' = SubSeq(Append(out, p), i + 1, Len(Append(out, p)))
    <3>. PICK p \in Sendable : \E i \in DOMAIN Append(out, p) :
             out' = SubSeq(Append(out, p), i + 1, Len(Append(out, p)))
      BY <2>6
    <3>. PICK i \in DOMAIN Append(out, p) :
             out' = SubSeq(Append(out, p), i + 1, Len(Append(out, p)))
      OBVIOUS
    <3>. DEFINE q == Append(out, p)
    <3>1. q \in Seq(Sendable)
      BY AppendProperties DEF QueueTypes
    <3>2. i \in 1 .. Len(q) /\ Len(q) \in Nat
      BY <3>1, LenProperties
    <3>3. i + 1 \in 1 .. Len(q) + 1 /\ Len(q) \in (i + 1) - 1 .. Len(q)
      BY <3>2
    <3>. QED  BY <3>1, <3>3, SubSeqProperties
  <2>. QED  BY <2>1, <2>2, <2>3, <2>4, <2>5, <2>6 DEF OutStep
<1>. QED  BY <1>1, <1>2 DEF QueueTypes

\* A write of the queue, and what it does to the counted and typed variables.
LEMMA FlushStep ==
    ASSUME NEW p \in Sendable, Flush(Append(out, p))
    PROVE  /\ OutStep
           /\ inbox' = inbox \/ inbox' = <<>>
           /\ sock' = sock \/ sock' = "invalid"
           /\ link' = link \/ link' = "up"
           /\ greeted' = greeted \/ greeted' = "no"
           /\ reported' = reported \/ reported'.calls \in 1 .. 2
           /\ doubled' \in {doubled, doubled \/ pc \in {"read", "write", "misc_ping"}}
<1>1. CASE out' = <<>> /\ UNCHANGED <<netVars, reportVars>>
  BY <1>1 DEF OutStep, netVars, reportVars
<1>2. CASE \E i \in DOMAIN Append(out, p) :
              /\ out' = SubSeq(Append(out, p), i + 1, Len(Append(out, p)))
              /\ SocketClose /\ OnDisconnect("ok")
              /\ doubled' = (doubled \/ pc \in {"read", "write", "misc_ping"})
  <2>1. OutStep
    BY <1>2, Zenon DEF OutStep
  <2>2. SocketClose /\ OnDisconnect("ok")
    BY <1>2, Zenon
  <2>3. doubled' = (doubled \/ pc \in {"read", "write", "misc_ping"})
    BY <1>2, Zenon
  <2>. QED  BY <2>1, <2>2, <2>3 DEF SocketClose, OnDisconnect
<1>. QED  BY <1>1, <1>2, Zenon DEF Flush

LEMMA SendsStep ==
    ASSUME NEW p \in Sendable, Sends(p)
    PROVE  /\ OutStep
           /\ inbox' = inbox \/ inbox' = <<>>
           /\ sock' = sock \/ sock' = "invalid"
           /\ link' = link \/ link' = "up"
           /\ greeted' = greeted \/ greeted' = "no"
           /\ reported' = reported \/ reported'.calls \in 1 .. 2
           /\ doubled' \in {doubled, doubled \/ pc \in {"read", "write", "misc_ping"}}
<1>1. CASE AtOnce /\ Flush(Append(out, p))
  BY <1>1, FlushStep
<1>2. CASE out' = Append(out, p) /\ UNCHANGED <<netVars, reportVars>>
  BY <1>2 DEF OutStep, netVars, reportVars
<1>. QED  BY <1>1, <1>2 DEF Sends

LEMMA SentStep ==
    ASSUME NEW p \in Sendable, out' = Sent(p)
    PROVE  OutStep
BY DEF Sent, OutStep

\* Restarting a time keeps the ages within the keepalive.
LEMMA AgesReset ==
    ASSUME age \in Ages
    PROVE  /\ Fresh \in Ages
           /\ [age EXCEPT !.in = 0] \in Ages
           /\ [age EXCEPT !.out = 0] \in Ages
           /\ [age EXCEPT !.in = 0, !.out = 0] \in Ages
<1>1. 0 \in 0 .. Keepalive
  BY ClientBounds
<1>2. Fresh \in Ages
  BY <1>1 DEF Fresh, Ages
<1>3. [age EXCEPT !.in = 0] \in Ages
  BY <1>1, Zenon DEF Ages
<1>4. [age EXCEPT !.out = 0] \in Ages
  BY <1>1, Zenon DEF Ages
<1>5. [age EXCEPT !.in = 0, !.out = 0] \in Ages
  BY <1>1, Zenon DEF Ages
<1>. QED  BY <1>2, <1>3, <1>4, <1>5

LEMMA RetriesStep ==
    ASSUME age \in Ages, Retries
    PROVE  OutStep /\ age' \in Ages
<1>1. CASE UNCHANGED <<out, age>>
  BY <1>1 DEF OutStep
<1>2. CASE out' = Sent("OTHER") /\ age' = [age EXCEPT !.out = OutAge]
  <2>1. OutStep
    BY <1>2, SentStep DEF Sendable
  <2>2. age' \in {age, [age EXCEPT !.out = 0]}
    BY <1>2 DEF OutAge, Ages
  <2>. QED  BY <2>1, <2>2, AgesReset
<1>. QED  BY <1>1, <1>2 DEF Retries

\* The back-off is monotonic in the number of attempts, strictly unless it is 0.
LEMMA SquareGrows ==
    ASSUME NEW d \in Nat, NEW r \in Nat
    PROVE  /\ d * r * r \in Nat
           /\ d * r * r <= d * (r + 1) * (r + 1)
           /\ d > 0 => d * r * r < d * (r + 1) * (r + 1)
<1>. DEFINE s == d * r
<1>1. s \in Nat /\ s * r \in Nat
  OBVIOUS
<1>2. d * (r + 1) = s + d
  OBVIOUS
<1>3. (s + d) * (r + 1) = s * r + s + d * r + d
  BY <1>1
<1>. QED  BY <1>1, <1>2, <1>3

\* While it is within the limit, the square limits the number of attempts.
LEMMA SquareAboveRoot ==
    ASSUME NEW d \in Nat \ {0}, NEW r \in Nat
    PROVE  d * r * r >= r
<1>. DEFINE s == d * r
<1>1. s \in Nat /\ s >= r
  OBVIOUS
<1>2. s * r >= r
  BY <1>1
<1>. QED  BY <1>2

\* Each step keeps StickInv: the state is overwritten only at three places.
LEMMA StickInductive ==
    ASSUME StickInv, [Next]_vars
    PROVE  StickInv'
<1>. USE DEF vars, netVars, timeVars, backoffVars, askVars, reportVars,
         StickInv, DisconnectSticks
<1>1. CASE BeginReconnect
  BY <1>1 DEF BeginReconnect
<1>2. CASE DialFails
  BY <1>2 DEF DialFails
<1>3. CASE DialSucceeds
  BY <1>3 DEF DialSucceeds, NoReport, Fresh
<1>4. CASE SendConnect
  BY <1>4 DEF SendConnect, Writable, Flush, SocketClose, OnDisconnect
<1>5. CASE LoopTop
  BY <1>5 DEF LoopTop, LoopReturns, Connected
<1>6. CASE Select
  BY <1>6 DEF Select, LoopReturns, Connected
<1>7. CASE ReadFails
  BY <1>7 DEF ReadFails, RcHandle, SocketClose, OnDisconnect, Expected,
     LoopReturns, Connected
<1>8. CASE ReadPingresp
  BY <1>8 DEF ReadPingresp, Received, AfterRead, LoopReturns, Connected
<1>9. CASE ReadPublish
  BY <1>9 DEF ReadPublish, Received, DisconnectInCallback, AfterRead,
     LoopReturns, Connected
<1>10. CASE ReadPuback
  BY <1>10 DEF ReadPuback, Received, DisconnectInCallback, AfterRead,
     LoopReturns, Connected
<1>11. CASE ReadConnack
  BY <1>11 DEF ReadConnack, Received
<1>12. CASE OnConnect
  BY <1>12 DEF OnConnect, RcHandle, SocketClose, OnDisconnect, Expected,
     AfterRead, LoopReturns, Connected
<1>13. CASE ConnackSet
  BY <1>13 DEF ConnackSet, AfterRead, LoopReturns, Connected
<1>14. CASE WriteFails
  BY <1>14 DEF WriteFails, RcHandle, SocketClose, OnDisconnect, Expected,
     LoopReturns, Connected
<1>15. CASE Write
  BY <1>15 DEF Write
<1>16. CASE WriteDisconnect
  BY <1>16 DEF WriteDisconnect, SocketClose, OnDisconnect, LoopReturns,
     Connected
<1>17. CASE WriteDone
  BY <1>17 DEF WriteDone
<1>18. CASE NoSocket
  BY <1>18 DEF NoSocket, LoopReturns, Connected
<1>19. CASE KeepaliveQuiet
  BY <1>19 DEF KeepaliveQuiet
<1>20. CASE KeepalivePing
  BY <1>20 DEF KeepalivePing
<1>21. CASE KeepaliveClose
  BY <1>21 DEF KeepaliveClose, SocketClose, OnDisconnect, Expected
<1>22. CASE PingTimeout
  BY <1>22 DEF PingTimeout, Retries, SocketClose, OnDisconnect, Expected, LoopReturns,
     Connected
<1>23. CASE TurnDone
  BY <1>23 DEF TurnDone, Retries, LoopReturns, Connected
<1>24. CASE CheckState
  BY <1>24 DEF CheckState
<1>25. CASE Sleep
  BY <1>25 DEF Sleep
<1>26. CASE AskDisconnect
  BY <1>26 DEF AskDisconnect
<1>27. CASE SendDisconnect
  BY <1>27 DEF SendDisconnect, Sends, Flush, SocketClose, OnDisconnect
<1>28. CASE Touch
  BY <1>28 DEF Touch, Sends, Flush, SocketClose, OnDisconnect
<1>29. CASE Tick
  BY <1>29 DEF Tick
<1>30. CASE LinkFails
  BY <1>30 DEF LinkFails
<1>31. CASE BrokerConnack
  BY <1>31 DEF BrokerConnack, Arrives
<1>32. CASE BrokerPingresp
  BY <1>32 DEF BrokerPingresp, Arrives
<1>33. CASE BrokerPublish
  BY <1>33 DEF BrokerPublish, Arrives
<1>34. CASE BrokerPuback
  BY <1>34 DEF BrokerPuback, Arrives
<1>35. CASE UNCHANGED vars
  BY <1>35
<1>36. CASE ReadPublish1
  BY <1>36 DEF ReadPublish1, Received, Answered, Writable, SocketClose, OnDisconnect,
     AfterRead, LoopReturns, Connected
<1>37. CASE ReadPubrel
  BY <1>37 DEF ReadPubrel, Received, Answered, Writable, SocketClose, OnDisconnect,
     AfterRead, LoopReturns, Connected
<1>38. CASE AppPublishes
  BY <1>38 DEF AppPublishes, Sends, Flush, SocketClose, OnDisconnect
<1>. QED
  BY <1>1, <1>2, <1>3, <1>4, <1>5, <1>6, <1>7, <1>8, <1>9, <1>10, <1>11,
     <1>12, <1>13, <1>14, <1>15, <1>16, <1>17, <1>18, <1>19, <1>20, <1>21, <1>22,
     <1>23, <1>24, <1>25, <1>26, <1>27, <1>28, <1>29, <1>30, <1>31, <1>32, <1>33,
     <1>34, <1>35, <1>36, <1>37, <1>38 DEF Next, NetworkThread, Broker

\* A disconnect asked for outside the windows stays: no step of the network
\* thread undoes it.
THEOREM DisconnectFinal == Spec => []DisconnectSticks
<1>1. Init => StickInv
  BY DEF Init, StickInv, DisconnectSticks
<1>2. StickInv => DisconnectSticks
  BY DEF StickInv
<1>. QED  BY <1>1, <1>2, StickInductive, PTL DEF Spec

\* Each step keeps SocketInv.
LEMMA SocketInductive ==
    ASSUME SocketInv, [Next]_vars
    PROVE  SocketInv'
<1>. USE DEF vars, netVars, timeVars, backoffVars, askVars, reportVars,
         SocketInv
<1>1. CASE BeginReconnect
  BY <1>1 DEF BeginReconnect
<1>2. CASE DialFails
  BY <1>2 DEF DialFails
<1>3. CASE DialSucceeds
  BY <1>3 DEF DialSucceeds, NoReport, Fresh
<1>4. CASE SendConnect
  BY <1>4 DEF SendConnect, Writable, Flush, SocketClose, OnDisconnect
<1>5. CASE LoopTop
  BY <1>5 DEF LoopTop, LoopReturns, Connected
<1>6. CASE Select
  BY <1>6 DEF Select, LoopReturns, Connected
<1>7. CASE ReadFails
  BY <1>7 DEF ReadFails, RcHandle, SocketClose, OnDisconnect, Expected,
     LoopReturns, Connected
<1>8. CASE ReadPingresp
  BY <1>8 DEF ReadPingresp, Received, AfterRead, LoopReturns, Connected
<1>9. CASE ReadPublish
  BY <1>9 DEF ReadPublish, Received, DisconnectInCallback, AfterRead,
     LoopReturns, Connected
<1>10. CASE ReadPuback
  BY <1>10 DEF ReadPuback, Received, DisconnectInCallback, AfterRead,
     LoopReturns, Connected
<1>11. CASE ReadConnack
  BY <1>11 DEF ReadConnack, Received
<1>12. CASE OnConnect
  BY <1>12 DEF OnConnect, RcHandle, SocketClose, OnDisconnect, Expected,
     AfterRead, LoopReturns, Connected
<1>13. CASE ConnackSet
  BY <1>13 DEF ConnackSet, AfterRead, LoopReturns, Connected
<1>14. CASE WriteFails
  BY <1>14 DEF WriteFails, RcHandle, SocketClose, OnDisconnect, Expected,
     LoopReturns, Connected
<1>15. CASE Write
  BY <1>15 DEF Write
<1>16. CASE WriteDisconnect
  BY <1>16 DEF WriteDisconnect, SocketClose, OnDisconnect, LoopReturns,
     Connected
<1>17. CASE WriteDone
  BY <1>17 DEF WriteDone
<1>18. CASE NoSocket
  BY <1>18 DEF NoSocket, LoopReturns, Connected
<1>19. CASE KeepaliveQuiet
  BY <1>19 DEF KeepaliveQuiet
<1>20. CASE KeepalivePing
  BY <1>20 DEF KeepalivePing
<1>21. CASE KeepaliveClose
  BY <1>21 DEF KeepaliveClose, SocketClose, OnDisconnect, Expected
<1>22. CASE PingTimeout
  BY <1>22 DEF PingTimeout, Retries, SocketClose, OnDisconnect, Expected, LoopReturns,
     Connected
<1>23. CASE TurnDone
  BY <1>23 DEF TurnDone, Retries, LoopReturns, Connected
<1>24. CASE CheckState
  BY <1>24 DEF CheckState
<1>25. CASE Sleep
  BY <1>25 DEF Sleep
<1>26. CASE AskDisconnect
  BY <1>26 DEF AskDisconnect
<1>27. CASE SendDisconnect
  BY <1>27 DEF SendDisconnect, Sends, Flush, SocketClose, OnDisconnect
<1>28. CASE Touch
  BY <1>28 DEF Touch, Sends, Flush, SocketClose, OnDisconnect
<1>29. CASE Tick
  BY <1>29 DEF Tick
<1>30. CASE LinkFails
  BY <1>30 DEF LinkFails
<1>31. CASE BrokerConnack
  BY <1>31 DEF BrokerConnack, Arrives
<1>32. CASE BrokerPingresp
  BY <1>32 DEF BrokerPingresp, Arrives
<1>33. CASE BrokerPublish
  BY <1>33 DEF BrokerPublish, Arrives
<1>34. CASE BrokerPuback
  BY <1>34 DEF BrokerPuback, Arrives
<1>35. CASE UNCHANGED vars
  BY <1>35
<1>36. CASE ReadPublish1
  BY <1>36 DEF ReadPublish1, Received, Answered, Writable, SocketClose, OnDisconnect,
     AfterRead, LoopReturns, Connected
<1>37. CASE ReadPubrel
  BY <1>37 DEF ReadPubrel, Received, Answered, Writable, SocketClose, OnDisconnect,
     AfterRead, LoopReturns, Connected
<1>38. CASE AppPublishes
  BY <1>38 DEF AppPublishes, Sends, Flush, SocketClose, OnDisconnect
<1>. QED
  BY <1>1, <1>2, <1>3, <1>4, <1>5, <1>6, <1>7, <1>8, <1>9, <1>10, <1>11,
     <1>12, <1>13, <1>14, <1>15, <1>16, <1>17, <1>18, <1>19, <1>20, <1>21, <1>22,
     <1>23, <1>24, <1>25, <1>26, <1>27, <1>28, <1>29, <1>30, <1>31, <1>32, <1>33,
     <1>34, <1>35, <1>36, <1>37, <1>38 DEF Next, NetworkThread, Broker

\* A descriptor is overwritten only after a CONNECT that could not be written.
THEOREM DescriptorKept == Spec => []NoDescriptorLost
<1>1. Init => SocketInv
  BY DEF Init, SocketInv
<1>2. SocketInv => NoDescriptorLost
  BY DEF SocketInv, NoDescriptorLost
<1>. QED  BY <1>1, <1>2, SocketInductive, PTL DEF Spec

\* A thread that writes the queue and finds a DISCONNECT in it reports the close;
\* the network thread, when it would report it again, is counted.
LEMMA SendsReports ==
    ASSUME ReportInv, sock = "open", NEW p, Sends(p),
           pc' = pc, pinging' = pinging
    PROVE  ReportInv'
<1>1. CASE sock' = sock /\ UNCHANGED <<inbox, reportVars>>
  BY <1>1 DEF ReportInv, reportVars
<1>2. CASE /\ AtOnce /\ SocketClose /\ OnDisconnect("ok")
           /\ doubled' = (doubled \/ pc \in {"read", "write", "misc_ping"})
  <2>1. /\ doubled' \in BOOLEAN
        /\ pc \in {"read", "write", "misc_ping"} => doubled'
    BY <1>2, Zenon
  <2>2. inbox' = <<>> /\ sock' = "invalid"
    BY <1>2 DEF SocketClose
  <2>3. reported'.calls = 1
    BY <1>2 DEF OnDisconnect, ReportInv
  <2>. QED  BY <1>2, <2>1, <2>2, <2>3 DEF ReportInv, AtOnce
<1>. QED  BY <1>1, <1>2, Zenon DEF Sends, Flush, netVars

\* Each step keeps ReportInv.
LEMMA ReportInductive ==
    ASSUME ReportInv, [Next]_vars
    PROVE  ReportInv'
<1>. USE DEF vars, netVars, timeVars, backoffVars, askVars, reportVars,
         ReportInv
<1>1. CASE BeginReconnect
  BY <1>1 DEF BeginReconnect
<1>2. CASE DialFails
  BY <1>2 DEF DialFails
<1>3. CASE DialSucceeds
  <2>1. doubled' = FALSE /\ reported' = NoReport /\ sock' = "open"
    BY <1>3 DEF DialSucceeds
  <2>2. pc' = "send_connect" /\ doubled' \in BOOLEAN
    BY <1>3, <2>1 DEF DialSucceeds
  <2>. QED  BY <2>1, <2>2 DEF NoReport
<1>4. CASE SendConnect
  <2>1. CASE UNCHANGED <<sock, inbox, reportVars>>
    BY <1>4, <2>1 DEF SendConnect
  <2>2. CASE Writable /\ Flush(Append(out, "CONNECT"))
    <3>. HIDE DEF ReportInv
    <3>1. "CONNECT" \in Sendable
      BY DEF Sendable
    <3>2. sock = "open" /\ pc = "send_connect" /\ pc' = "loop" /\ pinging' = pinging
      BY <1>4, <2>2, SMTT(30) DEF SendConnect, Writable
    <3>3. \/ UNCHANGED <<netVars, reportVars>>
          \/ SocketClose /\ OnDisconnect("ok") /\ doubled' = (doubled \/ FALSE)
      BY <2>2, <3>2 DEF Flush
    <3>4. CASE UNCHANGED <<netVars, reportVars>>
      BY <3>2, <3>4 DEF ReportInv
    <3>5. CASE SocketClose /\ OnDisconnect("ok") /\ doubled' = (doubled \/ FALSE)
      <4>1. inbox' = <<>> /\ sock' = "invalid"
        BY <3>5 DEF SocketClose
      <4>2. reported'.calls = 1
        BY <3>2, <3>5 DEF OnDisconnect, ReportInv
      <4>3. doubled' \in BOOLEAN
        BY <3>5, Zenon
      <4>. QED  BY <3>2, <4>1, <4>2, <4>3 DEF ReportInv
    <3>. QED  BY <3>3, <3>4, <3>5
  <2>. QED  BY <1>4, <2>1, <2>2, Zenon DEF SendConnect
<1>5. CASE LoopTop
  BY <1>5 DEF LoopTop, LoopReturns, Connected
<1>6. CASE Select
  BY <1>6 DEF Select, LoopReturns, Connected
<1>7. CASE ReadFails
  BY <1>7 DEF ReadFails, RcHandle, SocketClose, OnDisconnect, Expected,
     LoopReturns, Connected
<1>8. CASE ReadPingresp
  BY <1>8 DEF ReadPingresp, Received, AfterRead, LoopReturns, Connected
<1>9. CASE ReadPublish
  BY <1>9 DEF ReadPublish, Received, DisconnectInCallback, AfterRead,
     LoopReturns, Connected
<1>10. CASE ReadPuback
  BY <1>10 DEF ReadPuback, Received, DisconnectInCallback, AfterRead,
     LoopReturns, Connected
<1>11. CASE ReadConnack
  BY <1>11 DEF ReadConnack, Received
<1>12. CASE OnConnect
  BY <1>12 DEF OnConnect, RcHandle, SocketClose, OnDisconnect, Expected,
     AfterRead, LoopReturns, Connected
<1>13. CASE ConnackSet
  BY <1>13 DEF ConnackSet, AfterRead, LoopReturns, Connected
<1>14. CASE WriteFails
  BY <1>14 DEF WriteFails, RcHandle, SocketClose, OnDisconnect, Expected,
     LoopReturns, Connected
<1>15. CASE Write
  BY <1>15 DEF Write
<1>16. CASE WriteDisconnect
  BY <1>16 DEF WriteDisconnect, SocketClose, OnDisconnect, LoopReturns,
     Connected
<1>17. CASE WriteDone
  BY <1>17 DEF WriteDone
<1>18. CASE NoSocket
  BY <1>18 DEF NoSocket, LoopReturns, Connected
<1>19. CASE KeepaliveQuiet
  BY <1>19 DEF KeepaliveQuiet
<1>20. CASE KeepalivePing
  BY <1>20 DEF KeepalivePing
<1>21. CASE KeepaliveClose
  <2>1. doubled' = (doubled \/ pinging)
    BY <1>21 DEF KeepaliveClose
  <2>2. /\ doubled' \in BOOLEAN
        /\ doubled => doubled'
        /\ pinging => doubled'
    BY <2>1, Zenon
  <2>3. pc' = "misc_ping" /\ pinging' = pinging /\ inbox' = <<>>
    BY <1>21 DEF KeepaliveClose, SocketClose
  <2>4. reported'.calls \in 0 .. 1
    BY <1>21 DEF KeepaliveClose, OnDisconnect
  <2>5. sock' = "invalid"
    BY <1>21 DEF KeepaliveClose, SocketClose
  <2>. QED  BY <2>2, <2>3, <2>4, <2>5
<1>22. CASE PingTimeout
  BY <1>22 DEF PingTimeout, Retries, SocketClose, OnDisconnect, Expected, LoopReturns,
     Connected
<1>23. CASE TurnDone
  BY <1>23 DEF TurnDone, Retries, LoopReturns, Connected
<1>24. CASE CheckState
  BY <1>24 DEF CheckState
<1>25. CASE Sleep
  BY <1>25 DEF Sleep
<1>26. CASE AskDisconnect
  BY <1>26 DEF AskDisconnect
<1>27. CASE SendDisconnect
  <2>1. CASE sock' = sock /\ UNCHANGED <<inbox, reportVars>>
    BY <1>27, <2>1 DEF SendDisconnect
  <2>2. CASE sock = "open" /\ Sends("DISCONNECT")
    BY <1>27, <2>2, SendsReports DEF SendDisconnect
  <2>. QED  BY <1>27, <2>1, <2>2, Zenon DEF SendDisconnect
<1>28. CASE Touch
  <2>1. CASE sock' = sock /\ UNCHANGED <<inbox, reportVars>>
    BY <1>28, <2>1 DEF Touch
  <2>2. CASE sock = "open" /\ Sends("OTHER")
    BY <1>28, <2>2, SendsReports DEF Touch
  <2>. QED  BY <1>28, <2>1, <2>2, Zenon DEF Touch
<1>29. CASE Tick
  BY <1>29 DEF Tick
<1>30. CASE LinkFails
  BY <1>30 DEF LinkFails
<1>31. CASE BrokerConnack
  BY <1>31 DEF BrokerConnack, Arrives
<1>32. CASE BrokerPingresp
  BY <1>32 DEF BrokerPingresp, Arrives
<1>33. CASE BrokerPublish
  BY <1>33 DEF BrokerPublish, Arrives
<1>34. CASE BrokerPuback
  BY <1>34 DEF BrokerPuback, Arrives
<1>35. CASE UNCHANGED vars
  BY <1>35
<1>36. CASE ReadPublish1
  BY <1>36 DEF ReadPublish1, Received, Answered, Writable, SocketClose, OnDisconnect,
     AfterRead, LoopReturns, Connected
<1>37. CASE ReadPubrel
  BY <1>37 DEF ReadPubrel, Received, Answered, Writable, SocketClose, OnDisconnect,
     AfterRead, LoopReturns, Connected
<1>38. CASE AppPublishes
  BY <1>38, SendsReports DEF AppPublishes
<1>. QED
  BY <1>1, <1>2, <1>3, <1>4, <1>5, <1>6, <1>7, <1>8, <1>9, <1>10, <1>11,
     <1>12, <1>13, <1>14, <1>15, <1>16, <1>17, <1>18, <1>19, <1>20, <1>21, <1>22,
     <1>23, <1>24, <1>25, <1>26, <1>27, <1>28, <1>29, <1>30, <1>31, <1>32, <1>33,
     <1>34, <1>35, <1>36, <1>37, <1>38 DEF Next, NetworkThread, Broker

\* Outside the two windows that doubled records, a connection is reported once.
THEOREM OneReport == Spec => []ReportedOnce
<1>1. Init => ReportInv
  <2>1. Init => doubled \in BOOLEAN /\ reported = NoReport /\ sock = "invalid"
    BY Zenon DEF Init
  <2>2. Init => inbox = <<>> /\ pc = "connect"
    BY DEF Init
  <2>. QED  BY <2>1, <2>2 DEF ReportInv, NoReport
<1>2. ReportInv => ReportedOnce
  BY DEF ReportInv, ReportedOnce
<1>. QED  BY <1>1, <1>2, ReportInductive, PTL DEF Spec

\* Each step keeps WaitInv, and waits as BackoffGrows says.
LEMMA WaitInductive ==
    ASSUME WaitInv, [Next]_vars
    PROVE  /\ WaitInv'
           /\ delay' < delay => ~ failing
           /\ pc = "check" /\ pc' = "sleep" /\ failing /\ app.backoff
              /\ ReconnectDelay > 0 => delay' > delay \/ delay' = DelayMax
<1>. USE DEF vars, netVars, timeVars, backoffVars, askVars, reportVars,
         WaitInv, BackoffOf
<1>. USE ClientBounds
<1>1. CASE BeginReconnect
  BY <1>1 DEF BeginReconnect
<1>2. CASE DialFails
  BY <1>2 DEF DialFails
<1>3. CASE DialSucceeds
  BY <1>3 DEF DialSucceeds, NoReport, Fresh
<1>4. CASE SendConnect
  <2>1. UNCHANGED <<app, reconnects, delay>> /\ pc = "send_connect"
    BY <1>4 DEF SendConnect
  <2>2. \/ failing' = FALSE
        \/ failing' = failing /\ pc' \in {"check", "returned"}
    BY <1>4, Zenon DEF SendConnect
  <2>3. failing' \in BOOLEAN
    BY <2>2, Zenon
  <2>. QED  BY <2>1, <2>2, <2>3
<1>5. CASE LoopTop
  BY <1>5 DEF LoopTop, LoopReturns, Connected
<1>6. CASE Select
  BY <1>6 DEF Select, LoopReturns, Connected
<1>7. CASE ReadFails
  BY <1>7 DEF ReadFails, RcHandle, SocketClose, OnDisconnect, Expected,
     LoopReturns, Connected
<1>8. CASE ReadPingresp
  BY <1>8 DEF ReadPingresp, Received, AfterRead, LoopReturns, Connected
<1>9. CASE ReadPublish
  BY <1>9 DEF ReadPublish, Received, DisconnectInCallback, AfterRead,
     LoopReturns, Connected
<1>10. CASE ReadPuback
  BY <1>10 DEF ReadPuback, Received, DisconnectInCallback, AfterRead,
     LoopReturns, Connected
<1>11. CASE ReadConnack
  BY <1>11 DEF ReadConnack, Received
<1>12. CASE OnConnect
  BY <1>12 DEF OnConnect, RcHandle, SocketClose, OnDisconnect, Expected,
     AfterRead, LoopReturns, Connected
<1>13. CASE ConnackSet
  BY <1>13 DEF ConnackSet, AfterRead, LoopReturns, Connected
<1>14. CASE WriteFails
  BY <1>14 DEF WriteFails, RcHandle, SocketClose, OnDisconnect, Expected,
     LoopReturns, Connected
<1>15. CASE Write
  BY <1>15 DEF Write
<1>16. CASE WriteDisconnect
  BY <1>16 DEF WriteDisconnect, SocketClose, OnDisconnect, LoopReturns,
     Connected
<1>17. CASE WriteDone
  BY <1>17 DEF WriteDone
<1>18. CASE NoSocket
  BY <1>18 DEF NoSocket, LoopReturns, Connected
<1>19. CASE KeepaliveQuiet
  BY <1>19 DEF KeepaliveQuiet
<1>20. CASE KeepalivePing
  BY <1>20 DEF KeepalivePing
<1>21. CASE KeepaliveClose
  BY <1>21 DEF KeepaliveClose, SocketClose, OnDisconnect, Expected
<1>22. CASE PingTimeout
  BY <1>22 DEF PingTimeout, Retries, SocketClose, OnDisconnect, Expected, LoopReturns,
     Connected
<1>23. CASE TurnDone
  BY <1>23 DEF TurnDone, Retries, LoopReturns, Connected
<1>24. CASE CheckState
  <2>1. app' = app /\ pc = "check"
    BY <1>24 DEF CheckState
  <2>2. CASE pc' = "returned" /\ UNCHANGED backoffVars
    BY <2>1, <2>2
  <2>3. CASE pc' = "sleep" /\ failing' = TRUE
    <3>1. BackoffOf(reconnects) \in Nat
      BY SquareGrows DEF App
    <3>2. failing' \in BOOLEAN
      BY <2>3, Zenon
    <3>3. CASE /\ BackoffOf(reconnects) > DelayMax
               /\ delay' = DelayMax /\ UNCHANGED reconnects
      BY <2>1, <2>3, <3>1, <3>2, <3>3
    <3>4. CASE /\ ~ BackoffOf(reconnects) > DelayMax
               /\ delay' = BackoffOf(reconnects)
               /\ reconnects' = IF app.backoff THEN reconnects + 1 ELSE 1
      <4>1. CASE ~ app.backoff
        BY <2>1, <2>3, <3>1, <3>2, <3>4, <4>1
      <4>2. CASE app.backoff
        <5>1. /\ reconnects' = reconnects + 1 /\ (reconnects + 1) - 1 = reconnects
              /\ BackoffOf(reconnects) <= BackoffOf(reconnects + 1)
          BY <3>4, <4>2, SquareGrows
        <5>2. WaitInv'
          BY <2>1, <2>3, <3>1, <3>2, <3>4, <5>1
        <5>3. delay' >= delay
          BY <3>1, <3>4
        <5>4. ASSUME failing, ReconnectDelay > 0
              PROVE  delay' > delay
          <6>1. reconnects - 1 \in Nat /\ delay = BackoffOf(reconnects - 1)
            BY <3>4, <5>4
          <6>2. (reconnects - 1) + 1 = reconnects
            OBVIOUS
          <6>3. BackoffOf(reconnects - 1) < BackoffOf(reconnects)
            BY <4>2, <5>4, <6>1, <6>2, SquareGrows
          <6>. QED  BY <3>1, <3>4, <6>1, <6>3
        <5>5. delay \in Nat /\ delay' \in Nat /\ ~ (delay' < delay)
          BY <3>1, <3>4, <5>3
        <5>. QED  BY <2>3, <5>2, <5>4, <5>5
      <4>. QED  BY <4>1, <4>2
    <3>. QED  BY <1>24, <2>3, <3>3, <3>4 DEF CheckState
  <2>. QED  BY <1>24, <2>2, <2>3 DEF CheckState
<1>25. CASE Sleep
  BY <1>25 DEF Sleep
<1>26. CASE AskDisconnect
  BY <1>26 DEF AskDisconnect
<1>27. CASE SendDisconnect
  BY <1>27 DEF SendDisconnect, Sends, Flush, SocketClose, OnDisconnect
<1>28. CASE Touch
  BY <1>28 DEF Touch, Sends, Flush, SocketClose, OnDisconnect
<1>29. CASE Tick
  BY <1>29 DEF Tick
<1>30. CASE LinkFails
  BY <1>30 DEF LinkFails
<1>31. CASE BrokerConnack
  BY <1>31 DEF BrokerConnack, Arrives
<1>32. CASE BrokerPingresp
  BY <1>32 DEF BrokerPingresp, Arrives
<1>33. CASE BrokerPublish
  BY <1>33 DEF BrokerPublish, Arrives
<1>34. CASE BrokerPuback
  BY <1>34 DEF BrokerPuback, Arrives
<1>35. CASE UNCHANGED vars
  BY <1>35
<1>36. CASE ReadPublish1
  BY <1>36 DEF ReadPublish1, Received, Answered, Writable, SocketClose, OnDisconnect,
     AfterRead, LoopReturns, Connected
<1>37. CASE ReadPubrel
  BY <1>37 DEF ReadPubrel, Received, Answered, Writable, SocketClose, OnDisconnect,
     AfterRead, LoopReturns, Connected
<1>38. CASE AppPublishes
  BY <1>38 DEF AppPublishes, Sends, Flush, SocketClose, OnDisconnect
<1>. QED
  BY <1>1, <1>2, <1>3, <1>4, <1>5, <1>6, <1>7, <1>8, <1>9, <1>10, <1>11,
     <1>12, <1>13, <1>14, <1>15, <1>16, <1>17, <1>18, <1>19, <1>20, <1>21, <1>22,
     <1>23, <1>24, <1>25, <1>26, <1>27, <1>28, <1>29, <1>30, <1>31, <1>32, <1>33,
     <1>34, <1>35, <1>36, <1>37, <1>38 DEF Next, NetworkThread, Broker

\* While attempts fail, each wait is longer than the one before it up to the
\* maximum, and the waits start over only after a turn of a connection on which
\* CONNECT was sent: for all delays whose products fit an unsigned int.
THEOREM WaitsGrow == Spec => BackoffGrows
<1>1. ASSUME Init  PROVE WaitInv
  <2>1. failing = FALSE /\ failing \in BOOLEAN
    BY <1>1, Zenon DEF Init
  <2>. QED  BY <1>1, <2>1, ClientBounds, AppsAssumption DEF Init, WaitInv, BackoffOf, App
<1>. QED  BY <1>1, WaitInductive, PTL DEF Spec, BackoffGrows

\* Before a disconnect is asked for, a write of the queue closes nothing.
LEMMA FlushQuiet ==
    ASSUME TruthInv, asked = "no", NEW p \in Sendable \ {"DISCONNECT"},
           Flush(Append(out, p))
    PROVE  out' = <<>> /\ UNCHANGED <<netVars, reportVars>>
<1>. DEFINE q == Append(out, p)
<1>1. q \in Seq(Sendable \ {"DISCONNECT"})
  BY AppendProperties DEF TruthInv
<1>2. \A i \in DOMAIN q : q[i] # "DISCONNECT"
  BY <1>1, ElementOfSeq, LenProperties
<1>. QED  BY <1>2, Zenon DEF Flush

LEMMA SendsQuiet ==
    ASSUME TruthInv, asked = "no", NEW p \in Sendable \ {"DISCONNECT"}, Sends(p)
    PROVE  /\ out' \in Seq(Sendable \ {"DISCONNECT"})
           /\ UNCHANGED <<netVars, reportVars>>
<1>1. CASE AtOnce /\ Flush(Append(out, p))
  BY <1>1, FlushQuiet, EmptySeq
<1>2. CASE out' = Append(out, p) /\ UNCHANGED <<netVars, reportVars>>
  BY <1>2, AppendProperties DEF TruthInv
<1>. QED  BY <1>1, <1>2 DEF Sends

LEMMA SentQuiet ==
    ASSUME TruthInv, asked = "no", NEW p \in Sendable \ {"DISCONNECT"}
    PROVE  Sent(p) \in Seq(Sendable \ {"DISCONNECT"})
BY AppendProperties DEF TruthInv, Sent

\* Each step keeps TruthInv.
LEMMA TruthInductive ==
    ASSUME TruthInv, [Next]_vars
    PROVE  TruthInv'
<1>. USE DEF vars, netVars, timeVars, backoffVars, askVars, reportVars,
         TruthInv
<1>. StickInv'
  BY StickInductive
<1>1. CASE BeginReconnect
  BY <1>1 DEF BeginReconnect
<1>2. CASE DialFails
  BY <1>2 DEF DialFails
<1>3. CASE DialSucceeds
  BY <1>3 DEF DialSucceeds, NoReport, Fresh
<1>4. CASE SendConnect
  <2>1. UNCHANGED <<state, asked, raced>>
    BY <1>4 DEF SendConnect
  <2>2. "CONNECT" \in Sendable \ {"DISCONNECT"}
    BY DEF Sendable
  <2>3. reported' = reported \/ reported'.calls \in 1 .. 2
    BY <1>4, <2>2, FlushStep DEF SendConnect
  <2>4. asked = "no" => out' \in Seq(Sendable \ {"DISCONNECT"})
    <3>. SUFFICES ASSUME asked = "no"
                  PROVE  out' \in Seq(Sendable \ {"DISCONNECT"})
      OBVIOUS
    <3>1. CASE out' = Append(out, "CONNECT")
      BY <2>2, <3>1, AppendProperties
    <3>2. CASE out' = <<>> \/ out' = out
      BY <3>2, EmptySeq
    <3>3. CASE Flush(Append(out, "CONNECT"))
      BY <2>2, <3>3, FlushQuiet, EmptySeq
    <3>. QED  BY <1>4, <3>1, <3>2, <3>3 DEF SendConnect
  <2>. QED  BY <2>1, <2>3, <2>4
<1>5. CASE LoopTop
  BY <1>5 DEF LoopTop, LoopReturns, Connected
<1>6. CASE Select
  BY <1>6 DEF Select, LoopReturns, Connected
<1>7. CASE ReadFails
  BY <1>7 DEF ReadFails, RcHandle, SocketClose, OnDisconnect, Expected,
     LoopReturns, Connected
<1>8. CASE ReadPingresp
  BY <1>8 DEF ReadPingresp, Received, AfterRead, LoopReturns, Connected
<1>9. CASE ReadPublish
  BY <1>9 DEF ReadPublish, Received, DisconnectInCallback, AfterRead,
     LoopReturns, Connected
<1>10. CASE ReadPuback
  BY <1>10 DEF ReadPuback, Received, DisconnectInCallback, AfterRead,
     LoopReturns, Connected
<1>11. CASE ReadConnack
  BY <1>11 DEF ReadConnack, Received
<1>12. CASE OnConnect
  <2>1. UNCHANGED <<state, asked, raced>>
    BY <1>12 DEF OnConnect
  <2>2. reported' = reported \/ reported'.calls \in 1 .. 2
    BY <1>12 DEF OnConnect, RcHandle, OnDisconnect
  <2>3. asked = "no" => out' \in Seq(Sendable \ {"DISCONNECT"})
    <3>1. "PUBLISH" \in Sendable \ {"DISCONNECT"}
      BY DEF Sendable
    <3>. QED  BY <1>12, <3>1, AppendProperties DEF OnConnect
  <2>. QED  BY <2>1, <2>2, <2>3
<1>13. CASE ConnackSet
  BY <1>13 DEF ConnackSet, AfterRead, LoopReturns, Connected
<1>14. CASE WriteFails
  BY <1>14 DEF WriteFails, RcHandle, SocketClose, OnDisconnect, Expected,
     LoopReturns, Connected
<1>15. CASE Write
  BY <1>15, HeadTailProperties DEF Write
<1>16. CASE WriteDisconnect
  BY <1>16, HeadTailProperties DEF WriteDisconnect, SocketClose, OnDisconnect,
     LoopReturns, Connected
<1>17. CASE WriteDone
  BY <1>17 DEF WriteDone
<1>18. CASE NoSocket
  BY <1>18 DEF NoSocket, LoopReturns, Connected
<1>19. CASE KeepaliveQuiet
  BY <1>19 DEF KeepaliveQuiet
<1>20. CASE KeepalivePing
  <2>1. UNCHANGED <<state, asked, raced, reported>>
    BY <1>20 DEF KeepalivePing
  <2>2. asked = "no" => out' \in Seq(Sendable \ {"DISCONNECT"})
    BY <1>20, SentQuiet DEF KeepalivePing, Sendable
  <2>. QED  BY <2>1, <2>2
<1>21. CASE KeepaliveClose
  BY <1>21 DEF KeepaliveClose, SocketClose, OnDisconnect, Expected
<1>22. CASE PingTimeout
  <2>1. UNCHANGED <<state, asked, raced>>
    BY <1>22 DEF PingTimeout
  <2>2. reported'.calls \in 1 .. 2
    BY <1>22 DEF PingTimeout, OnDisconnect
  <2>3. asked = "no" => out' \in Seq(Sendable \ {"DISCONNECT"})
    BY <1>22, SentQuiet DEF PingTimeout, Retries, Sendable
  <2>. QED  BY <2>1, <2>2, <2>3
<1>23. CASE TurnDone
  <2>1. UNCHANGED <<state, asked, raced, reported>>
    BY <1>23 DEF TurnDone
  <2>2. asked = "no" => out' \in Seq(Sendable \ {"DISCONNECT"})
    BY <1>23, SentQuiet DEF TurnDone, Retries, Sendable
  <2>. QED  BY <2>1, <2>2
<1>24. CASE CheckState
  BY <1>24 DEF CheckState
<1>25. CASE Sleep
  BY <1>25 DEF Sleep
<1>26. CASE AskDisconnect
  BY <1>26 DEF AskDisconnect
<1>27. CASE SendDisconnect
  <2>1. UNCHANGED <<state, raced>> /\ asked' = "done"
    BY <1>27 DEF SendDisconnect
  <2>2. reported' = reported \/ reported'.calls \in 1 .. 2
    BY <1>27, SendsStep DEF SendDisconnect, Sendable
  <2>. QED  BY <2>1, <2>2
<1>28. CASE Touch
  <2>1. UNCHANGED <<state, asked, raced>>
    BY <1>28 DEF Touch
  <2>2. "OTHER" \in Sendable \ {"DISCONNECT"}
    BY DEF Sendable
  <2>3. reported' = reported \/ reported'.calls \in 1 .. 2
    BY <1>28, <2>2, SendsStep DEF Touch
  <2>4. asked = "no" => out' \in Seq(Sendable \ {"DISCONNECT"})
    BY <1>28, <2>2, SendsQuiet DEF Touch
  <2>. QED  BY <2>1, <2>3, <2>4
<1>29. CASE Tick
  BY <1>29 DEF Tick
<1>30. CASE LinkFails
  BY <1>30 DEF LinkFails
<1>31. CASE BrokerConnack
  BY <1>31 DEF BrokerConnack, Arrives
<1>32. CASE BrokerPingresp
  BY <1>32 DEF BrokerPingresp, Arrives
<1>33. CASE BrokerPublish
  BY <1>33 DEF BrokerPublish, Arrives
<1>34. CASE BrokerPuback
  BY <1>34 DEF BrokerPuback, Arrives
<1>35. CASE UNCHANGED vars
  BY <1>35
<1>36. CASE ReadPublish1
  <2>1. \/ UNCHANGED <<state, asked, raced>> /\ out' = Sent("OTHER")
        \/ raced' = raced /\ state' = "disconnecting" /\ asked' = "done"
    BY <1>36 DEF ReadPublish1
  <2>2. reported' = reported \/ reported'.calls \in 1 .. 2
    BY <1>36 DEF ReadPublish1, Answered, OnDisconnect
  <2>3. asked' = "no" => out' \in Seq(Sendable \ {"DISCONNECT"})
    BY <2>1, SentQuiet DEF Sendable
  <2>. QED  BY <2>1, <2>2, <2>3
<1>37. CASE ReadPubrel
  <2>1. \/ UNCHANGED <<state, asked, raced>> /\ out' = Sent("OTHER")
        \/ raced' = raced /\ state' = "disconnecting" /\ asked' = "done"
    BY <1>37 DEF ReadPubrel
  <2>2. reported' = reported \/ reported'.calls \in 1 .. 2
    BY <1>37 DEF ReadPubrel, Answered, OnDisconnect
  <2>3. asked' = "no" => out' \in Seq(Sendable \ {"DISCONNECT"})
    BY <2>1, SentQuiet DEF Sendable
  <2>. QED  BY <2>1, <2>2, <2>3
<1>38. CASE AppPublishes
  <2>1. UNCHANGED <<state, asked, raced>>
    BY <1>38 DEF AppPublishes
  <2>2. "OTHER" \in Sendable \ {"DISCONNECT"}
    BY DEF Sendable
  <2>3. reported' = reported \/ reported'.calls \in 1 .. 2
    BY <1>38, <2>2, SendsStep DEF AppPublishes
  <2>4. asked = "no" => out' \in Seq(Sendable \ {"DISCONNECT"})
    BY <1>38, <2>2, SendsQuiet DEF AppPublishes
  <2>. QED  BY <2>1, <2>3, <2>4
<1>. QED
  BY <1>1, <1>2, <1>3, <1>4, <1>5, <1>6, <1>7, <1>8, <1>9, <1>10, <1>11,
     <1>12, <1>13, <1>14, <1>15, <1>16, <1>17, <1>18, <1>19, <1>20, <1>21, <1>22,
     <1>23, <1>24, <1>25, <1>26, <1>27, <1>28, <1>29, <1>30, <1>31, <1>32, <1>33,
     <1>34, <1>35, <1>36, <1>37, <1>38 DEF Next, NetworkThread, Broker

\* The code of _mosquitto_loop_rc_handle is right in every state of TruthInv.
LEMMA ExpectedIsTruthful ==
    ASSUME TruthInv, NEW code \in Codes \ {"ok"}, NEW rc, asked' = asked,
           OnDisconnect(Expected(code)), reported'.rc = rc
    PROVE  IF rc = "ok" THEN asked' # "no" ELSE asked = "no" \/ raced
<1>1. rc = Expected(code)
  BY DEF OnDisconnect
<1>2. CASE state = "disconnecting"
  BY <1>1, <1>2 DEF Expected, TruthInv
<1>3. CASE state # "disconnecting"
  BY <1>1, <1>3 DEF Expected, TruthInv, StickInv, DisconnectSticks
<1>. QED  BY <1>2, <1>3

\* A call of on_disconnect is told why, as far as the state says so.
LEMMA ReportStep ==
    ASSUME TruthInv, [Next]_vars, NEW rc \in Codes,
           reported' = [calls |-> reported.calls + 1, rc |-> rc]
    PROVE  IF rc = "ok" THEN asked' # "no" ELSE asked = "no" \/ raced
<1>. USE DEF vars, netVars, timeVars, backoffVars, askVars, reportVars,
         TruthInv
<1>. reported' # reported /\ reported'.rc = rc
  OBVIOUS
<1>1. CASE BeginReconnect
  BY <1>1 DEF BeginReconnect
<1>2. CASE DialFails
  BY <1>2 DEF DialFails
<1>3. CASE DialSucceeds
  BY <1>3 DEF DialSucceeds, NoReport, Fresh
<1>4. CASE SendConnect
  <2>1. asked' = asked /\ Flush(Append(out, "CONNECT"))
    BY <1>4 DEF SendConnect
  <2>2. OnDisconnect("ok")
    BY <2>1 DEF Flush
  <2>3. asked # "no"
    BY <2>1, FlushQuiet DEF Sendable
  <2>. QED  BY <2>1, <2>2, <2>3 DEF OnDisconnect
<1>5. CASE LoopTop
  BY <1>5 DEF LoopTop, LoopReturns, Connected
<1>6. CASE Select
  BY <1>6 DEF Select, LoopReturns, Connected
<1>7. CASE ReadFails
  <2>1. asked' = asked
    BY <1>7 DEF ReadFails
  <2>2. \E code \in Codes \ {"ok"} : OnDisconnect(Expected(code))
    BY <1>7 DEF ReadFails, RcHandle, Codes
  <2>. QED  BY <2>1, <2>2, ExpectedIsTruthful
<1>8. CASE ReadPingresp
  BY <1>8 DEF ReadPingresp, Received, AfterRead, LoopReturns, Connected
<1>9. CASE ReadPublish
  BY <1>9 DEF ReadPublish, Received, DisconnectInCallback, AfterRead,
     LoopReturns, Connected
<1>10. CASE ReadPuback
  BY <1>10 DEF ReadPuback, Received, DisconnectInCallback, AfterRead,
     LoopReturns, Connected
<1>11. CASE ReadConnack
  BY <1>11 DEF ReadConnack, Received
<1>12. CASE OnConnect
  <2>1. asked' = asked
    BY <1>12 DEF OnConnect
  <2>2. \E code \in Codes \ {"ok"} : OnDisconnect(Expected(code))
    BY <1>12 DEF OnConnect, RcHandle, Codes
  <2>. QED  BY <2>1, <2>2, ExpectedIsTruthful
<1>13. CASE ConnackSet
  BY <1>13 DEF ConnackSet, AfterRead, LoopReturns, Connected
<1>14. CASE WriteFails
  <2>1. asked' = asked
    BY <1>14 DEF WriteFails
  <2>2. \E code \in Codes \ {"ok"} : OnDisconnect(Expected(code))
    BY <1>14 DEF WriteFails, RcHandle, Codes
  <2>. QED  BY <2>1, <2>2, ExpectedIsTruthful
<1>15. CASE Write
  BY <1>15 DEF Write
<1>16. CASE WriteDisconnect
  BY <1>16 DEF WriteDisconnect, SocketClose, OnDisconnect, LoopReturns,
     Connected
<1>17. CASE WriteDone
  BY <1>17 DEF WriteDone
<1>18. CASE NoSocket
  BY <1>18 DEF NoSocket, LoopReturns, Connected
<1>19. CASE KeepaliveQuiet
  BY <1>19 DEF KeepaliveQuiet
<1>20. CASE KeepalivePing
  BY <1>20 DEF KeepalivePing
<1>21. CASE KeepaliveClose
  <2>1. asked' = asked
    BY <1>21 DEF KeepaliveClose
  <2>2. \E code \in Codes \ {"ok"} : OnDisconnect(Expected(code))
    BY <1>21 DEF KeepaliveClose, Codes
  <2>. QED  BY <2>1, <2>2, ExpectedIsTruthful
<1>22. CASE PingTimeout
  <2>1. asked' = asked
    BY <1>22 DEF PingTimeout
  <2>2. \E code \in Codes \ {"ok"} : OnDisconnect(Expected(code))
    BY <1>22 DEF PingTimeout, Codes
  <2>. QED  BY <2>1, <2>2, ExpectedIsTruthful
<1>23. CASE TurnDone
  BY <1>23 DEF TurnDone, Retries, LoopReturns, Connected
<1>24. CASE CheckState
  BY <1>24 DEF CheckState
<1>25. CASE Sleep
  BY <1>25 DEF Sleep
<1>26. CASE AskDisconnect
  BY <1>26 DEF AskDisconnect
<1>27. CASE SendDisconnect
  BY <1>27 DEF SendDisconnect, Sends, Flush, SocketClose, OnDisconnect
<1>28. CASE Touch
  <2>1. asked' = asked /\ Sends("OTHER")
    BY <1>28 DEF Touch
  <2>2. OnDisconnect("ok")
    BY <2>1 DEF Sends, Flush
  <2>3. asked # "no"
    BY <2>1, SendsQuiet DEF Sendable
  <2>. QED  BY <2>1, <2>2, <2>3 DEF OnDisconnect
<1>29. CASE Tick
  BY <1>29 DEF Tick
<1>30. CASE LinkFails
  BY <1>30 DEF LinkFails
<1>31. CASE BrokerConnack
  BY <1>31 DEF BrokerConnack, Arrives
<1>32. CASE BrokerPingresp
  BY <1>32 DEF BrokerPingresp, Arrives
<1>33. CASE BrokerPublish
  BY <1>33 DEF BrokerPublish, Arrives
<1>34. CASE BrokerPuback
  BY <1>34 DEF BrokerPuback, Arrives
<1>35. CASE UNCHANGED vars
  BY <1>35
<1>36. CASE ReadPublish1
  <2>1. CASE asked' = asked /\ Answered(Expected("errno"))
    <3>1. OnDisconnect(Expected("errno"))
      BY <2>1 DEF Answered
    <3>. QED  BY <2>1, <3>1, ExpectedIsTruthful DEF Codes
  <2>2. CASE asked' = "done" /\ (Answered("ok") \/ OnDisconnect("ok"))
    <3>1. OnDisconnect("ok")
      BY <2>2 DEF Answered
    <3>. QED  BY <2>2, <3>1 DEF OnDisconnect
  <2>. QED  BY <1>36, <2>1, <2>2 DEF ReadPublish1
<1>37. CASE ReadPubrel
  <2>1. CASE asked' = asked /\ Answered(Expected("errno"))
    <3>1. OnDisconnect(Expected("errno"))
      BY <2>1 DEF Answered
    <3>. QED  BY <2>1, <3>1, ExpectedIsTruthful DEF Codes
  <2>2. CASE asked' = "done" /\ (Answered("ok") \/ OnDisconnect("ok"))
    <3>1. OnDisconnect("ok")
      BY <2>2 DEF Answered
    <3>. QED  BY <2>2, <3>1 DEF OnDisconnect
  <2>. QED  BY <1>37, <2>1, <2>2 DEF ReadPubrel
<1>38. CASE AppPublishes
  <2>1. asked' = asked /\ Sends("OTHER")
    BY <1>38 DEF AppPublishes
  <2>2. OnDisconnect("ok")
    BY <2>1 DEF Sends, Flush
  <2>3. asked # "no"
    BY <2>1, SendsQuiet DEF Sendable
  <2>. QED  BY <2>1, <2>2, <2>3 DEF OnDisconnect
<1>. QED
  BY <1>1, <1>2, <1>3, <1>4, <1>5, <1>6, <1>7, <1>8, <1>9, <1>10, <1>11,
     <1>12, <1>13, <1>14, <1>15, <1>16, <1>17, <1>18, <1>19, <1>20, <1>21, <1>22,
     <1>23, <1>24, <1>25, <1>26, <1>27, <1>28, <1>29, <1>30, <1>31, <1>32, <1>33,
     <1>34, <1>35, <1>36, <1>37, <1>38 DEF Next, NetworkThread, Broker

\* Every code handed to on_disconnect is right: 0 after a disconnect and only
\* then, on every path on which a connection ends.
THEOREM TruthfulReports == Spec => ReportsTruthfully
<1>1. Init => TruthInv
  BY EmptySeq DEF Init, TruthInv, StickInv, DisconnectSticks, NoReport
<1>2. TruthInv /\ [Next]_vars =>
        [\A rc \in {"ok", "no_conn", "conn_lost", "errno", "refused", "protocol",
                    "timeout"} :
            reported' = [calls |-> reported.calls + 1, rc |-> rc] =>
                IF rc = "ok" THEN asked' # "no" ELSE asked = "no" \/ raced]_vars
  BY ReportStep DEF Codes
<1>. QED  BY <1>1, <1>2, TruthInductive, PTL DEF Spec, ReportsTruthfully

\* Each step keeps the types.
LEMMA TypeInductive ==
    ASSUME ClientTypeOK, ReconnectDelay > 0, [Next]_vars
    PROVE  ClientTypeOK'
<1>. USE DEF vars, netVars, timeVars, backoffVars, askVars, reportVars,
         ClientTypeOK, Pcs, States, Packets, Results, BackoffOf
<1>. USE ClientBounds, AppsAssumption
<1>. QueueTypes
  BY DEF QueueTypes
<1>. age \in Ages
  BY DEF Ages
<1>1. CASE BeginReconnect
  <2>1. ThreadTypes'
    BY <1>1 DEF BeginReconnect, ThreadTypes
  <2>2. QueueTypes'
    <3>1. InboxStep /\ OutStep
      BY <1>1 DEF BeginReconnect, InboxStep, OutStep
    <3>. QED  BY <3>1, QueueStep
  <2>3. CountTypes'
    <3>1. age' \in Ages
      BY <1>1, AgesReset DEF BeginReconnect
    <3>2. /\ reported'.calls \in 0 .. 2
          /\ reconnects' \in 0 .. DelayMax + 1 /\ delay' \in 0 .. DelayMax
      BY <1>1 DEF BeginReconnect
    <3>. QED  BY <3>1, <3>2 DEF CountTypes, Ages
  <2>4. FlagTypes'
    BY <1>1, Zenon DEF BeginReconnect, FlagTypes
  <2>. QED  BY <2>1, <2>2, <2>3, <2>4 DEF ThreadTypes, QueueTypes, CountTypes,
    FlagTypes
<1>2. CASE DialFails
  BY <1>2 DEF DialFails
<1>3. CASE DialSucceeds
  <2>1. ThreadTypes'
    BY <1>3 DEF DialSucceeds, NoReport, Fresh, ThreadTypes
  <2>2. QueueTypes'
    <3>1. InboxStep /\ OutStep
      BY <1>3 DEF DialSucceeds, NoReport, Fresh, InboxStep, OutStep
    <3>. QED  BY <3>1, QueueStep
  <2>3. CountTypes'
    <3>1. age' \in Ages
      BY <1>3, AgesReset DEF DialSucceeds
    <3>2. /\ reported'.calls \in 0 .. 2
          /\ reconnects' \in 0 .. DelayMax + 1 /\ delay' \in 0 .. DelayMax
      BY <1>3 DEF DialSucceeds, NoReport, Fresh
    <3>. QED  BY <3>1, <3>2 DEF CountTypes, Ages
  <2>4. FlagTypes'
    BY <1>3, Zenon DEF DialSucceeds, NoReport, Fresh, FlagTypes
  <2>. QED  BY <2>1, <2>2, <2>3, <2>4 DEF ThreadTypes, QueueTypes, CountTypes,
    FlagTypes
<1>4. CASE SendConnect
  <2>1. ThreadTypes'
    <3>1. "CONNECT" \in Sendable
      BY DEF Sendable
    <3>2. /\ sock' \in {"open", "invalid"} /\ link' \in {"up", "dead", "reset"}
          /\ greeted' \in {"no", "connect", "connack"}
      BY <1>4, <3>1, FlushStep DEF SendConnect
    <3>. QED  BY <1>4, <3>2 DEF SendConnect, ThreadTypes
  <2>2. QueueTypes'
    <3>1. InboxStep /\ OutStep
      <4>1. "CONNECT" \in Sendable
        BY DEF Sendable
      <4>2. UNCHANGED <<inbox, out>> => InboxStep /\ OutStep
        BY DEF InboxStep, OutStep
      <4>. QED  BY <1>4, <4>1, <4>2, FlushStep DEF SendConnect, InboxStep, OutStep
    <3>. QED  BY <3>1, QueueStep
  <2>3. CountTypes'
    <3>1. age' \in Ages
      <4>1. age' \in {age, [age EXCEPT !.in = 0], [age EXCEPT !.out = 0],
                       [age EXCEPT !.in = 0, !.out = 0]}
        BY <1>4 DEF SendConnect, OutAge, Ages
      <4>. QED  BY <4>1, AgesReset
    <3>2. /\ reported'.calls \in 0 .. 2
          /\ reconnects' \in 0 .. DelayMax + 1 /\ delay' \in 0 .. DelayMax
      BY <1>4, FlushStep DEF SendConnect, Sendable
    <3>. QED  BY <3>1, <3>2 DEF CountTypes, Ages
  <2>4. FlagTypes'
    <3>1. "CONNECT" \in Sendable
      BY DEF Sendable
    <3>2. \/ doubled' = doubled
          \/ doubled' = (doubled \/ pc \in {"read", "write", "misc_ping"})
      BY <1>4, <3>1, FlushStep DEF SendConnect
    <3>3. doubled' \in BOOLEAN
      BY <3>2, Zenon
    <3>4. unsent' \in BOOLEAN /\ unclosed' \in BOOLEAN /\ failing' \in BOOLEAN
      BY <1>4, Zenon DEF SendConnect
    <3>5. UNCHANGED <<pinging, raced>>
      BY <1>4 DEF SendConnect
    <3>. QED  BY <3>3, <3>4, <3>5, Zenon DEF FlagTypes
  <2>. QED  BY <2>1, <2>2, <2>3, <2>4 DEF ThreadTypes, QueueTypes, CountTypes,
    FlagTypes
<1>5. CASE LoopTop
  BY <1>5 DEF LoopTop, LoopReturns, Connected
<1>6. CASE Select
  BY <1>6 DEF Select, LoopReturns, Connected
<1>7. CASE ReadFails
  <2>1. ThreadTypes'
    BY <1>7 DEF ReadFails, RcHandle, SocketClose, OnDisconnect, Expected,
       LoopReturns, Connected, ThreadTypes
  <2>2. QueueTypes'
    <3>1. InboxStep /\ OutStep
      BY <1>7 DEF ReadFails, RcHandle, SocketClose, OnDisconnect, Expected,
         LoopReturns, Connected, InboxStep, OutStep
    <3>. QED  BY <3>1, QueueStep
  <2>3. CountTypes'
    <3>1. age' \in Ages
      BY <1>7, AgesReset DEF ReadFails
    <3>2. /\ reported'.calls \in 0 .. 2
          /\ reconnects' \in 0 .. DelayMax + 1 /\ delay' \in 0 .. DelayMax
      BY <1>7 DEF ReadFails, RcHandle, SocketClose, OnDisconnect, Expected,
         LoopReturns, Connected
    <3>. QED  BY <3>1, <3>2 DEF CountTypes, Ages
  <2>4. FlagTypes'
    BY <1>7, Zenon DEF ReadFails, RcHandle, SocketClose, OnDisconnect, Expected,
       LoopReturns, Connected, FlagTypes
  <2>. QED  BY <2>1, <2>2, <2>3, <2>4 DEF ThreadTypes, QueueTypes, CountTypes,
    FlagTypes
<1>8. CASE ReadPingresp
  <2>1. ThreadTypes'
    BY <1>8 DEF ReadPingresp, Received, AfterRead, LoopReturns, Connected,
       ThreadTypes
  <2>2. QueueTypes'
    <3>1. InboxStep /\ OutStep
      BY <1>8 DEF ReadPingresp, Received, AfterRead, LoopReturns, Connected,
         InboxStep, OutStep
    <3>. QED  BY <3>1, QueueStep
  <2>3. CountTypes'
    <3>1. age' \in Ages
      BY <1>8, AgesReset DEF ReadPingresp
    <3>2. /\ reported'.calls \in 0 .. 2
          /\ reconnects' \in 0 .. DelayMax + 1 /\ delay' \in 0 .. DelayMax
      BY <1>8 DEF ReadPingresp, Received, AfterRead, LoopReturns, Connected
    <3>. QED  BY <3>1, <3>2 DEF CountTypes, Ages
  <2>4. FlagTypes'
    BY <1>8, Zenon DEF ReadPingresp, Received, AfterRead, LoopReturns, Connected,
       FlagTypes
  <2>. QED  BY <2>1, <2>2, <2>3, <2>4 DEF ThreadTypes, QueueTypes, CountTypes,
    FlagTypes
<1>9. CASE ReadPublish
  <2>1. ThreadTypes'
    BY <1>9 DEF ReadPublish, Received, DisconnectInCallback, AfterRead,
       LoopReturns, Connected, ThreadTypes
  <2>2. QueueTypes'
    <3>1. InboxStep /\ OutStep
      BY <1>9 DEF ReadPublish, Received, DisconnectInCallback, SocketClose, Sendable,
         InboxStep, OutStep
    <3>. QED  BY <3>1, QueueStep
  <2>3. CountTypes'
    <3>1. age' \in Ages
      BY <1>9, AgesReset DEF ReadPublish
    <3>2. /\ reported'.calls \in 0 .. 2
          /\ reconnects' \in 0 .. DelayMax + 1 /\ delay' \in 0 .. DelayMax
      BY <1>9 DEF ReadPublish, Received, DisconnectInCallback, AfterRead,
         LoopReturns, Connected
    <3>. QED  BY <3>1, <3>2 DEF CountTypes, Ages
  <2>4. FlagTypes'
    BY <1>9, Zenon DEF ReadPublish, Received, DisconnectInCallback, AfterRead,
       LoopReturns, Connected, FlagTypes
  <2>. QED  BY <2>1, <2>2, <2>3, <2>4 DEF ThreadTypes, QueueTypes, CountTypes,
    FlagTypes
<1>10. CASE ReadPuback
  <2>1. ThreadTypes'
    BY <1>10 DEF ReadPuback, Received, DisconnectInCallback, AfterRead,
       LoopReturns, Connected, ThreadTypes
  <2>2. QueueTypes'
    <3>1. InboxStep /\ OutStep
      BY <1>10 DEF ReadPuback, Received, DisconnectInCallback, SocketClose, Sendable,
         InboxStep, OutStep
    <3>. QED  BY <3>1, QueueStep
  <2>3. CountTypes'
    <3>1. age' \in Ages
      BY <1>10, AgesReset DEF ReadPuback
    <3>2. /\ reported'.calls \in 0 .. 2
          /\ reconnects' \in 0 .. DelayMax + 1 /\ delay' \in 0 .. DelayMax
      BY <1>10 DEF ReadPuback, Received, DisconnectInCallback, AfterRead,
         LoopReturns, Connected
    <3>. QED  BY <3>1, <3>2 DEF CountTypes, Ages
  <2>4. FlagTypes'
    BY <1>10, Zenon DEF ReadPuback, Received, DisconnectInCallback, AfterRead,
       LoopReturns, Connected, FlagTypes
  <2>. QED  BY <2>1, <2>2, <2>3, <2>4 DEF ThreadTypes, QueueTypes, CountTypes,
    FlagTypes
<1>11. CASE ReadConnack
  BY <1>11, HeadTailProperties DEF ReadConnack, Received
<1>12. CASE OnConnect
  <2>1. ThreadTypes'
    BY <1>12 DEF OnConnect, RcHandle, SocketClose, OnDisconnect, Expected,
       AfterRead, LoopReturns, Connected, ThreadTypes
  <2>2. QueueTypes'
    <3>1. InboxStep /\ OutStep
      BY <1>12 DEF OnConnect, RcHandle, Received, DisconnectInCallback, SocketClose, Sendable,
         InboxStep, OutStep
    <3>. QED  BY <3>1, QueueStep
  <2>3. CountTypes'
    <3>1. age' \in Ages
      BY <1>12, AgesReset DEF OnConnect
    <3>2. /\ reported'.calls \in 0 .. 2
          /\ reconnects' \in 0 .. DelayMax + 1 /\ delay' \in 0 .. DelayMax
      <4>1. reported'.calls \in {reported.calls, 1, 2}
        BY <1>12 DEF OnConnect, RcHandle, OnDisconnect
      <4>2. \/ UNCHANGED backoffVars
            \/ reconnects' = 0 /\ delay' = 0
        BY <1>12 DEF OnConnect, RcHandle, AfterRead, LoopReturns
      <4>. QED  BY <4>1, <4>2
    <3>. QED  BY <3>1, <3>2 DEF CountTypes, Ages
  <2>4. FlagTypes'
    BY <1>12, Zenon DEF OnConnect, RcHandle, SocketClose, OnDisconnect, Expected,
       AfterRead, LoopReturns, Connected, FlagTypes
  <2>. QED  BY <2>1, <2>2, <2>3, <2>4 DEF ThreadTypes, QueueTypes, CountTypes,
    FlagTypes
<1>13. CASE ConnackSet
  BY <1>13 DEF ConnackSet, AfterRead, LoopReturns, Connected
<1>14. CASE WriteFails
  <2>1. ThreadTypes'
    BY <1>14 DEF WriteFails, RcHandle, SocketClose, OnDisconnect, Expected,
       LoopReturns, Connected, ThreadTypes
  <2>2. QueueTypes'
    <3>1. InboxStep /\ OutStep
      BY <1>14 DEF WriteFails, RcHandle, SocketClose, OnDisconnect, Expected,
         LoopReturns, Connected, InboxStep, OutStep
    <3>. QED  BY <3>1, QueueStep
  <2>3. CountTypes'
    <3>1. age' \in Ages
      BY <1>14, AgesReset DEF WriteFails
    <3>2. /\ reported'.calls \in 0 .. 2
          /\ reconnects' \in 0 .. DelayMax + 1 /\ delay' \in 0 .. DelayMax
      BY <1>14 DEF WriteFails, RcHandle, SocketClose, OnDisconnect, Expected,
         LoopReturns, Connected
    <3>. QED  BY <3>1, <3>2 DEF CountTypes, Ages
  <2>4. FlagTypes'
    BY <1>14, Zenon DEF WriteFails, RcHandle, SocketClose, OnDisconnect, Expected,
       LoopReturns, Connected, FlagTypes
  <2>. QED  BY <2>1, <2>2, <2>3, <2>4 DEF ThreadTypes, QueueTypes, CountTypes,
    FlagTypes
<1>15. CASE Write
  <2>1. ThreadTypes'
    BY <1>15 DEF Write, ThreadTypes
  <2>2. QueueTypes'
    <3>1. InboxStep /\ OutStep
      BY <1>15 DEF Write, InboxStep, OutStep
    <3>. QED  BY <3>1, QueueStep
  <2>3. CountTypes'
    <3>1. age' \in Ages
      BY <1>15, AgesReset DEF Write
    <3>2. /\ reported'.calls \in 0 .. 2
          /\ reconnects' \in 0 .. DelayMax + 1 /\ delay' \in 0 .. DelayMax
      BY <1>15 DEF Write
    <3>. QED  BY <3>1, <3>2 DEF CountTypes, Ages
  <2>4. FlagTypes'
    BY <1>15, Zenon DEF Write, FlagTypes
  <2>. QED  BY <2>1, <2>2, <2>3, <2>4 DEF ThreadTypes, QueueTypes, CountTypes,
    FlagTypes
<1>16. CASE WriteDisconnect
  <2>1. ThreadTypes'
    BY <1>16 DEF WriteDisconnect, SocketClose, LoopReturns, Connected, ThreadTypes
  <2>2. QueueTypes'
    <3>1. InboxStep /\ OutStep
      BY <1>16 DEF WriteDisconnect, SocketClose, InboxStep, OutStep
    <3>. QED  BY <3>1, QueueStep
  <2>3. CountTypes'
    <3>1. age' \in Ages
      BY <1>16, AgesReset DEF WriteDisconnect
    <3>2. /\ reported'.calls \in 0 .. 2
          /\ reconnects' \in 0 .. DelayMax + 1 /\ delay' \in 0 .. DelayMax
      BY <1>16 DEF WriteDisconnect, OnDisconnect, LoopReturns
    <3>. QED  BY <3>1, <3>2 DEF CountTypes, Ages
  <2>4. FlagTypes'
    <3>1. failing' = failing
      BY <1>16 DEF WriteDisconnect, LoopReturns
    <3>. QED  BY <1>16, <3>1, Zenon DEF WriteDisconnect, FlagTypes
  <2>. QED  BY <2>1, <2>2, <2>3, <2>4 DEF ThreadTypes, QueueTypes, CountTypes,
    FlagTypes
<1>17. CASE WriteDone
  BY <1>17 DEF WriteDone
<1>18. CASE NoSocket
  BY <1>18 DEF NoSocket, LoopReturns, Connected
<1>19. CASE KeepaliveQuiet
  BY <1>19 DEF KeepaliveQuiet
<1>20. CASE KeepalivePing
  <2>1. ThreadTypes'
    BY <1>20 DEF KeepalivePing, ThreadTypes
  <2>2. QueueTypes'
    <3>1. InboxStep /\ OutStep
      BY <1>20, SentStep DEF KeepalivePing, InboxStep, Sendable
    <3>. QED  BY <3>1, QueueStep
  <2>3. CountTypes'
    <3>1. age' \in Ages
      BY <1>20 DEF KeepalivePing, Ages
    <3>2. /\ reported'.calls \in 0 .. 2
          /\ reconnects' \in 0 .. DelayMax + 1 /\ delay' \in 0 .. DelayMax
      BY <1>20 DEF KeepalivePing
    <3>. QED  BY <3>1, <3>2 DEF CountTypes, Ages
  <2>4. FlagTypes'
    BY <1>20, Zenon DEF KeepalivePing, FlagTypes
  <2>. QED  BY <2>1, <2>2, <2>3, <2>4 DEF ThreadTypes, QueueTypes, CountTypes,
    FlagTypes
<1>21. CASE KeepaliveClose
  BY <1>21 DEF KeepaliveClose, SocketClose, OnDisconnect, Expected
<1>22. CASE PingTimeout
  <2>1. ThreadTypes'
    BY <1>22 DEF PingTimeout, SocketClose, LoopReturns, Connected, ThreadTypes
  <2>2. QueueTypes'
    <3>1. InboxStep /\ OutStep
      BY <1>22, RetriesStep DEF PingTimeout, SocketClose, InboxStep
    <3>. QED  BY <3>1, QueueStep
  <2>3. CountTypes'
    <3>1. age' \in Ages
      BY <1>22, RetriesStep DEF PingTimeout
    <3>2. /\ reported'.calls \in 0 .. 2
          /\ reconnects' \in 0 .. DelayMax + 1 /\ delay' \in 0 .. DelayMax
      <4>1. reported' = reported \/ reported'.calls \in 1 .. 2
        BY <1>22 DEF PingTimeout, OnDisconnect
      <4>2. \/ UNCHANGED backoffVars
            \/ reconnects' = 0 /\ delay' = 0
        BY <1>22 DEF PingTimeout, LoopReturns
      <4>. QED  BY <4>1, <4>2
    <3>. QED  BY <3>1, <3>2 DEF CountTypes, Ages
  <2>4. FlagTypes'
    <3>1. failing' = failing
      BY <1>22 DEF PingTimeout, LoopReturns
    <3>. QED  BY <1>22, <3>1, Zenon DEF PingTimeout, FlagTypes
  <2>. QED  BY <2>1, <2>2, <2>3, <2>4 DEF ThreadTypes, QueueTypes, CountTypes,
    FlagTypes
<1>23. CASE TurnDone
  <2>1. ThreadTypes'
    BY <1>23 DEF TurnDone, SocketClose, LoopReturns, Connected, ThreadTypes
  <2>2. QueueTypes'
    <3>1. InboxStep /\ OutStep
      BY <1>23, RetriesStep DEF TurnDone, SocketClose, InboxStep
    <3>. QED  BY <3>1, QueueStep
  <2>3. CountTypes'
    <3>1. age' \in Ages
      BY <1>23, RetriesStep DEF TurnDone
    <3>2. /\ reported'.calls \in 0 .. 2
          /\ reconnects' \in 0 .. DelayMax + 1 /\ delay' \in 0 .. DelayMax
      <4>1. reported' = reported \/ reported'.calls \in 1 .. 2
        BY <1>23 DEF TurnDone, OnDisconnect
      <4>2. \/ UNCHANGED backoffVars
            \/ reconnects' = 0 /\ delay' = 0
        BY <1>23 DEF TurnDone, LoopReturns
      <4>. QED  BY <4>1, <4>2
    <3>. QED  BY <3>1, <3>2 DEF CountTypes, Ages
  <2>4. FlagTypes'
    <3>1. failing' = failing
      BY <1>23 DEF TurnDone, LoopReturns
    <3>. QED  BY <1>23, <3>1, Zenon DEF TurnDone, FlagTypes
  <2>. QED  BY <2>1, <2>2, <2>3, <2>4 DEF ThreadTypes, QueueTypes, CountTypes,
    FlagTypes
<1>24. CASE CheckState
  <2>1. ThreadTypes'
    BY <1>24 DEF CheckState, ThreadTypes
  <2>2. QueueTypes'
    <3>1. InboxStep /\ OutStep
      BY <1>24 DEF CheckState, InboxStep, OutStep
    <3>. QED  BY <3>1, QueueStep
  <2>3. CountTypes'
    <3>1. age' \in Ages
      BY <1>24, AgesReset DEF CheckState
    <3>2. /\ reported'.calls \in 0 .. 2
          /\ reconnects' \in 0 .. DelayMax + 1 /\ delay' \in 0 .. DelayMax
      <4>1. UNCHANGED reported /\ reconnects \in Nat
        BY <1>24 DEF CheckState
      <4>2. CASE UNCHANGED backoffVars
        BY <4>1, <4>2
      <4>3. CASE delay' = DelayMax /\ UNCHANGED reconnects
        BY <4>1, <4>3
      <4>4. CASE /\ BackoffOf(reconnects) <= DelayMax
                 /\ delay' = BackoffOf(reconnects)
                 /\ reconnects' = IF app.backoff THEN reconnects + 1 ELSE 1
        <5>1. CASE app.backoff
          BY <4>1, <4>4, <5>1, SquareAboveRoot
        <5>2. CASE ~ app.backoff
          BY <4>1, <4>4, <5>2
        <5>. QED  BY <5>1, <5>2
      <4>5. BackoffOf(reconnects) \in Nat
        BY <4>1, SquareGrows
      <4>. QED  BY <1>24, <4>2, <4>3, <4>4, <4>5 DEF CheckState
    <3>. QED  BY <3>1, <3>2 DEF CountTypes, Ages
  <2>4. FlagTypes'
    BY <1>24, Zenon DEF CheckState, FlagTypes
  <2>. QED  BY <2>1, <2>2, <2>3, <2>4 DEF ThreadTypes, QueueTypes, CountTypes,
    FlagTypes
<1>25. CASE Sleep
  BY <1>25 DEF Sleep
<1>26. CASE AskDisconnect
  BY <1>26 DEF AskDisconnect
<1>27. CASE SendDisconnect
  <2>1. ThreadTypes'
    <3>1. "DISCONNECT" \in Sendable
      BY DEF Sendable
    <3>2. /\ sock' \in {"open", "invalid"} /\ link' \in {"up", "dead", "reset"}
          /\ greeted' \in {"no", "connect", "connack"}
      BY <1>27, <3>1, SendsStep DEF SendDisconnect
    <3>. QED  BY <1>27, <3>2 DEF SendDisconnect, ThreadTypes
  <2>2. QueueTypes'
    <3>1. InboxStep /\ OutStep
      <4>1. "DISCONNECT" \in Sendable
        BY DEF Sendable
      <4>2. UNCHANGED <<inbox, out>> => InboxStep /\ OutStep
        BY DEF InboxStep, OutStep
      <4>. QED  BY <1>27, <4>1, <4>2, SendsStep DEF SendDisconnect, InboxStep, OutStep
    <3>. QED  BY <3>1, QueueStep
  <2>3. CountTypes'
    <3>1. age' \in Ages
      <4>1. age' \in {age, [age EXCEPT !.in = 0], [age EXCEPT !.out = 0],
                       [age EXCEPT !.in = 0, !.out = 0]}
        BY <1>27 DEF SendDisconnect, OutAge, Ages
      <4>. QED  BY <4>1, AgesReset
    <3>2. /\ reported'.calls \in 0 .. 2
          /\ reconnects' \in 0 .. DelayMax + 1 /\ delay' \in 0 .. DelayMax
      BY <1>27, SendsStep DEF SendDisconnect, Sendable
    <3>. QED  BY <3>1, <3>2 DEF CountTypes, Ages
  <2>4. FlagTypes'
    <3>1. "DISCONNECT" \in Sendable
      BY DEF Sendable
    <3>2. \/ doubled' = doubled
          \/ doubled' = (doubled \/ pc \in {"read", "write", "misc_ping"})
      BY <1>27, <3>1, SendsStep DEF SendDisconnect
    <3>3. doubled' \in BOOLEAN
      BY <3>2, Zenon
    <3>4. unsent' \in BOOLEAN /\ unclosed' \in BOOLEAN /\ failing' \in BOOLEAN
      BY <1>27, Zenon DEF SendDisconnect
    <3>5. UNCHANGED <<pinging, raced>>
      BY <1>27 DEF SendDisconnect
    <3>. QED  BY <3>3, <3>4, <3>5, Zenon DEF FlagTypes
  <2>. QED  BY <2>1, <2>2, <2>3, <2>4 DEF ThreadTypes, QueueTypes, CountTypes,
    FlagTypes
<1>28. CASE Touch
  <2>1. ThreadTypes'
    <3>1. "OTHER" \in Sendable
      BY DEF Sendable
    <3>2. /\ sock' \in {"open", "invalid"} /\ link' \in {"up", "dead", "reset"}
          /\ greeted' \in {"no", "connect", "connack"}
      BY <1>28, <3>1, SendsStep DEF Touch
    <3>. QED  BY <1>28, <3>2 DEF Touch, ThreadTypes
  <2>2. QueueTypes'
    <3>1. InboxStep /\ OutStep
      <4>1. "OTHER" \in Sendable
        BY DEF Sendable
      <4>2. UNCHANGED <<inbox, out>> => InboxStep /\ OutStep
        BY DEF InboxStep, OutStep
      <4>. QED  BY <1>28, <4>1, <4>2, SendsStep DEF Touch, InboxStep, OutStep
    <3>. QED  BY <3>1, QueueStep
  <2>3. CountTypes'
    <3>1. age' \in Ages
      <4>1. age' \in {age, [age EXCEPT !.in = 0], [age EXCEPT !.out = 0],
                       [age EXCEPT !.in = 0, !.out = 0]}
        BY <1>28 DEF Touch, OutAge, Ages
      <4>. QED  BY <4>1, AgesReset
    <3>2. /\ reported'.calls \in 0 .. 2
          /\ reconnects' \in 0 .. DelayMax + 1 /\ delay' \in 0 .. DelayMax
      BY <1>28, SendsStep DEF Touch, Sendable
    <3>. QED  BY <3>1, <3>2 DEF CountTypes, Ages
  <2>4. FlagTypes'
    <3>1. "OTHER" \in Sendable
      BY DEF Sendable
    <3>2. \/ doubled' = doubled
          \/ doubled' = (doubled \/ pc \in {"read", "write", "misc_ping"})
      BY <1>28, <3>1, SendsStep DEF Touch
    <3>3. doubled' \in BOOLEAN
      BY <3>2, Zenon
    <3>4. unsent' \in BOOLEAN /\ unclosed' \in BOOLEAN /\ failing' \in BOOLEAN
      BY <1>28, Zenon DEF Touch
    <3>5. UNCHANGED <<pinging, raced>>
      BY <1>28 DEF Touch
    <3>. QED  BY <3>3, <3>4, <3>5, Zenon DEF FlagTypes
  <2>. QED  BY <2>1, <2>2, <2>3, <2>4 DEF ThreadTypes, QueueTypes, CountTypes,
    FlagTypes
<1>29. CASE Tick
  BY <1>29 DEF Tick
<1>30. CASE LinkFails
  BY <1>30 DEF LinkFails
<1>31. CASE BrokerConnack
  BY <1>31, AppendProperties DEF BrokerConnack, Arrives
<1>32. CASE BrokerPingresp
  BY <1>32, AppendProperties DEF BrokerPingresp, Arrives
<1>33. CASE BrokerPublish
  BY <1>33, AppendProperties DEF BrokerPublish, Arrives
<1>34. CASE BrokerPuback
  BY <1>34, AppendProperties DEF BrokerPuback, Arrives
<1>35. CASE UNCHANGED vars
  BY <1>35
<1>36. CASE ReadPublish1
  <2>1. ThreadTypes'
    BY <1>36 DEF ReadPublish1, Received, Answered, Writable, SocketClose, OnDisconnect,
     AfterRead, LoopReturns, Connected, ThreadTypes
  <2>2. QueueTypes'
    <3>1. InboxStep /\ OutStep
      <4>1. InboxStep
        BY <1>36 DEF ReadPublish1, Received, Answered, SocketClose, InboxStep
      <4>2. OutStep
        BY <1>36 DEF ReadPublish1, Sent, Sendable, OutStep
      <4>. QED  BY <4>1, <4>2
    <3>. QED  BY <3>1, QueueStep
  <2>3. CountTypes'
    <3>1. age' \in Ages
      <4>1. age' \in {age, [age EXCEPT !.in = 0], [age EXCEPT !.out = 0],
                       [age EXCEPT !.in = 0, !.out = 0]}
        BY <1>36 DEF ReadPublish1, OutAge, Ages
      <4>. QED  BY <4>1, AgesReset
    <3>2. /\ reported'.calls \in 0 .. 2
          /\ reconnects' \in 0 .. DelayMax + 1 /\ delay' \in 0 .. DelayMax
      <4>1. reported' = reported \/ reported'.calls \in 1 .. 2
        BY <1>36 DEF ReadPublish1, Answered, OnDisconnect
      <4>2. \/ UNCHANGED backoffVars
            \/ reconnects' = 0 /\ delay' = 0
        BY <1>36 DEF ReadPublish1, Answered, AfterRead, LoopReturns
      <4>. QED  BY <4>1, <4>2
    <3>. QED  BY <3>1, <3>2 DEF CountTypes, Ages
  <2>4. FlagTypes'
    <3>1. failing' = failing
      BY <1>36 DEF ReadPublish1, Answered, AfterRead, LoopReturns
    <3>. QED  BY <1>36, <3>1, Zenon DEF ReadPublish1, FlagTypes
  <2>. QED  BY <2>1, <2>2, <2>3, <2>4 DEF ThreadTypes, QueueTypes, CountTypes,
    FlagTypes
<1>37. CASE ReadPubrel
  <2>1. ThreadTypes'
    BY <1>37 DEF ReadPubrel, Received, Answered, Writable, SocketClose, OnDisconnect,
     AfterRead, LoopReturns, Connected, ThreadTypes
  <2>2. QueueTypes'
    <3>1. InboxStep /\ OutStep
      <4>1. InboxStep
        BY <1>37 DEF ReadPubrel, Received, Answered, SocketClose, InboxStep
      <4>2. OutStep
        BY <1>37 DEF ReadPubrel, Sent, Sendable, OutStep
      <4>. QED  BY <4>1, <4>2
    <3>. QED  BY <3>1, QueueStep
  <2>3. CountTypes'
    <3>1. age' \in Ages
      <4>1. age' \in {age, [age EXCEPT !.in = 0], [age EXCEPT !.out = 0],
                       [age EXCEPT !.in = 0, !.out = 0]}
        BY <1>37 DEF ReadPubrel, OutAge, Ages
      <4>. QED  BY <4>1, AgesReset
    <3>2. /\ reported'.calls \in 0 .. 2
          /\ reconnects' \in 0 .. DelayMax + 1 /\ delay' \in 0 .. DelayMax
      <4>1. reported' = reported \/ reported'.calls \in 1 .. 2
        BY <1>37 DEF ReadPubrel, Answered, OnDisconnect
      <4>2. \/ UNCHANGED backoffVars
            \/ reconnects' = 0 /\ delay' = 0
        BY <1>37 DEF ReadPubrel, Answered, AfterRead, LoopReturns
      <4>. QED  BY <4>1, <4>2
    <3>. QED  BY <3>1, <3>2 DEF CountTypes, Ages
  <2>4. FlagTypes'
    <3>1. failing' = failing
      BY <1>37 DEF ReadPubrel, Answered, AfterRead, LoopReturns
    <3>. QED  BY <1>37, <3>1, Zenon DEF ReadPubrel, FlagTypes
  <2>. QED  BY <2>1, <2>2, <2>3, <2>4 DEF ThreadTypes, QueueTypes, CountTypes,
    FlagTypes
<1>38. CASE AppPublishes
  <2>1. ThreadTypes'
    <3>1. "OTHER" \in Sendable
      BY DEF Sendable
    <3>2. /\ sock' \in {"open", "invalid"} /\ link' \in {"up", "dead", "reset"}
          /\ greeted' \in {"no", "connect", "connack"}
      BY <1>38, <3>1, SendsStep DEF AppPublishes
    <3>. QED  BY <1>38, <3>2 DEF AppPublishes, ThreadTypes
  <2>2. QueueTypes'
    <3>1. InboxStep /\ OutStep
      <4>1. "OTHER" \in Sendable
        BY DEF Sendable
      <4>2. UNCHANGED <<inbox, out>> => InboxStep /\ OutStep
        BY DEF InboxStep, OutStep
      <4>. QED  BY <1>38, <4>1, <4>2, SendsStep DEF AppPublishes, InboxStep, OutStep
    <3>. QED  BY <3>1, QueueStep
  <2>3. CountTypes'
    <3>1. age' \in Ages
      <4>1. age' \in {age, [age EXCEPT !.in = 0], [age EXCEPT !.out = 0],
                       [age EXCEPT !.in = 0, !.out = 0]}
        BY <1>38 DEF AppPublishes, OutAge, Ages
      <4>. QED  BY <4>1, AgesReset
    <3>2. /\ reported'.calls \in 0 .. 2
          /\ reconnects' \in 0 .. DelayMax + 1 /\ delay' \in 0 .. DelayMax
      BY <1>38, SendsStep DEF AppPublishes, Sendable
    <3>. QED  BY <3>1, <3>2 DEF CountTypes, Ages
  <2>4. FlagTypes'
    <3>1. "OTHER" \in Sendable
      BY DEF Sendable
    <3>2. \/ doubled' = doubled
          \/ doubled' = (doubled \/ pc \in {"read", "write", "misc_ping"})
      BY <1>38, <3>1, SendsStep DEF AppPublishes
    <3>3. doubled' \in BOOLEAN
      BY <3>2, Zenon
    <3>4. unsent' \in BOOLEAN /\ unclosed' \in BOOLEAN /\ failing' \in BOOLEAN
      BY <1>38, Zenon DEF AppPublishes
    <3>5. UNCHANGED <<pinging, raced>>
      BY <1>38 DEF AppPublishes
    <3>. QED  BY <3>3, <3>4, <3>5, Zenon DEF FlagTypes
  <2>. QED  BY <2>1, <2>2, <2>3, <2>4 DEF ThreadTypes, QueueTypes, CountTypes,
    FlagTypes
<1>. QED
  BY <1>1, <1>2, <1>3, <1>4, <1>5, <1>6, <1>7, <1>8, <1>9, <1>10, <1>11,
     <1>12, <1>13, <1>14, <1>15, <1>16, <1>17, <1>18, <1>19, <1>20, <1>21, <1>22,
     <1>23, <1>24, <1>25, <1>26, <1>27, <1>28, <1>29, <1>30, <1>31, <1>32, <1>33,
     <1>34, <1>35, <1>36, <1>37, <1>38 DEF Next, NetworkThread, Broker

\* Every variable keeps its type when a wait is not 0; with the wait 0 and the
\* back-off on, the counter of attempts has no limit.
THEOREM TypeCorrect ==
    ASSUME ReconnectDelay > 0
    PROVE  Spec => []ClientTypeOK
<1>1. Init => ClientTypeOK
  <2>. SUFFICES ASSUME Init  PROVE ClientTypeOK
    OBVIOUS
  <2>1. ThreadTypes
    BY DEF Init, ThreadTypes, Pcs, States
  <2>2. QueueTypes
    BY ClientBounds, EmptySeq DEF Init, QueueTypes
  <2>3. CountTypes
    <3>1. Fresh \in Ages
      BY ClientBounds DEF Fresh, Ages
    <3>. QED  BY <3>1, ClientBounds DEF Init, CountTypes, Ages, NoReport
  <2>4. FlagTypes
    BY Zenon DEF Init, FlagTypes
  <2>. QED  BY <2>1, <2>2, <2>3, <2>4 DEF ClientTypeOK, ThreadTypes, QueueTypes,
    CountTypes, FlagTypes
<1>2. ClientTypeOK /\ [Next]_vars => ClientTypeOK'
  BY TypeInductive
<1>. QED  BY <1>1, <1>2, PTL DEF Spec
=============================================================================
