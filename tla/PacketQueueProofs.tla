-------------------------- MODULE PacketQueueProofs --------------------------
(***************************************************************************)
(* Theorems about PacketQueue, for every number of packets, connections    *)
(* and short writes.                                                       *)
(***************************************************************************)
EXTENDS PacketQueue, FiniteSetTheorems, SequenceTheorems, TLAPS

\* Where each thread can be.
Places(t) ==
    {"PUBLISH0", "PUBLISH", "DISCONNECT", "write", "writing",
     "lock_callback", "callback", "callback_message"}
        \cup (IF t = "app" THEN {"idle"}
              ELSE {"drain", "dial", "connect", "loop", "turn", "ack", "close"})

InCallback(t) == at[t] \in {"callback", "callback_message"}
Calling(t, cs) == /\ at[t] \in {"lock_callback", "callback", "callback_message"}
                  /\ calling[t] \in cs

\* Types, but for the queue.
ThreadTypes ==
    /\ threaded \in BOOLEAN /\ want \in BOOLEAN /\ connecting \in BOOLEAN
    /\ made \in Nat
    /\ in_callback \in BOOLEAN
    /\ sock \in {"open", "down", "invalid"}
    /\ owner \in [Mutexes -> Threads \cup {"free"}]
    /\ calling \in [Threads -> Callbacks \cup {"none"}]
    /\ at \in [Threads -> Places("app") \cup Places("loop")]
    /\ \A t \in Threads : at[t] \in Places(t)
    /\ dials \in 0 .. MaxDials /\ agains \in 0 .. MaxAgains

\* Each packet that will be made has its place below the bound.
Reserved(place) == IF place \in Sending THEN 1 ELSE 0
RoomKept == made + Reserved(at["app"]) + Reserved(at["loop"]) <= MaxPackets

\* Which lock a thread holds where.
LocksHeld ==
    /\ \A t \in Threads :
          /\ owner["callback"] = t <=> InCallback(t)
          /\ owner["current_out_packet"] = t <=>
                at[t] = "writing" \/ Calling(t, {"on_publish", "on_disconnect"})
          /\ Calling(t, Callbacks \cup {"none"}) => calling[t] # "none"
    /\ owner["out_message"] # "app"
    /\ owner["out_message"] = "loop" =>
          \/ at["loop"] \in {"PUBLISH", "write", "writing"}
          \/ Calling("loop", {"on_publish", "on_disconnect"})
    /\ ~ Calling("app", {"on_message", "closed"})
    /\ (in_callback <=> \E t \in Threads : InCallback(t))

\* The current packet and those behind it are in the order of their numbers.
QueueOrdered ==
    /\ out \in Seq(Packet) /\ current \in Packet \cup {None} /\ pos \in 0 .. 2
    /\ current = None => pos = 0
    /\ out # <<>> => outLast = Last(out)
    /\ \A i \in DOMAIN out : out[i].no <= made
    /\ \A i, j \in DOMAIN out : i < j => out[i].no < out[j].no
    /\ current # None => /\ current.no <= made
                         /\ \A i \in DOMAIN out : current.no < out[i].no

\* Where the threads are, against the packet under way and the socket.
WritePlaces ==
    /\ at["loop"] = "dial" => pos = 0
    /\ at["loop"] \in {"drain", "dial"} \/ Calling("loop", {"closed"}) => sock # "open"
    /\ pos = 2 <=> \E t \in Threads : Calling(t, {"on_publish"})

\* What an open connection has carried, against what is to be written next.
WireBehind ==
    /\ wire \in [first : Packet \cup {None}, last : Nat, part : 1 .. 2]
    /\ wire.first = None => wire = Unused
    /\ wire.last <= made
    /\ sock = "open" =>
          /\ pos = 0 => /\ wire.part = 2
                        /\ current # None => wire.last < current.no
                        /\ \A i \in DOMAIN out : wire.last < out[i].no
          /\ pos = 1 => wire.first # None /\ wire.part = 1 /\ wire.last = current.no
          /\ pos = 2 => wire.first # None /\ wire.part = 2 /\ wire.last = current.no

Opens(p) == p.kind = "CONNECT" \/ p.early

\* What stands to be written first on a new connection.
OpensConnection ==
    /\ ConnectFirst
    /\ at["loop"] \in {"dial", "connect"} =>
          /\ current # None => current.early
          /\ \A i \in DOMAIN out : out[i].early
    /\ sock = "open" /\ wire.first = None /\ at["loop"] # "connect" =>
          /\ current # None \/ out # <<>>
          /\ Opens(IF current # None THEN current ELSE Head(out))

IInv == /\ ThreadTypes /\ RoomKept /\ LocksHeld /\ QueueOrdered
        /\ WritePlaces /\ WireBehind /\ OpensConnection

-----------------------------------------------------------------------------
\* What a thread held is free, and nothing else has changed.
LEMMA Released ==
    ASSUME NEW t \in Threads, ThreadTypes, Release(Held(t))
    PROVE  /\ owner' \in [Mutexes -> Threads \cup {"free"}]
           /\ \A m \in Mutexes : owner'[m] = IF owner[m] = t THEN "free" ELSE owner[m]
BY DEF Release, Held, ThreadTypes, Threads, Mutexes

\* on_publish gives back callback_mutex alone, as the writing goes on.
LEMMA CallbackReleases ==
    ASSUME NEW t \in Threads, ThreadTypes, CallbackEnd(t)
    PROVE  /\ owner' \in [Mutexes -> Threads \cup {"free"}]
           /\ \A m \in Mutexes :
                 owner'[m] = IF calling[t] = "on_publish"
                             THEN IF m = "callback" THEN "free" ELSE owner[m]
                             ELSE IF owner[m] = t THEN "free" ELSE owner[m]
<1>1. CASE calling[t] = "on_publish"
  <2>1. owner' = [m \in Mutexes |-> IF m \in {"callback"} THEN "free" ELSE owner[m]]
    BY <1>1 DEF CallbackEnd, Release
  <2>. QED
    BY <1>1, <2>1 DEF ThreadTypes, Threads, Mutexes
<1>2. CASE calling[t] # "on_publish"
  <2>1. Release(Held(t))
    BY <1>2 DEF CallbackEnd
  <2>. QED
    BY <1>2, <2>1, Released
<1>. QED
  BY <1>1, <1>2

\* Each step keeps the types.
LEMMA ThreadTypesStep ==
    ASSUME ThreadTypes, LocksHeld, [Next]_vars
    PROVE  ThreadTypes'
<1>. USE PacketBounds DEF ThreadTypes, Threads, Places, Kinds, Callbacks,
   Mutexes, callVars, queueVars, netVars, lockVars
<1>1. ASSUME NEW t \in Threads, SendPacket(t) PROVE ThreadTypes'
  BY <1>1 DEF SendPacket, Queue, Link, Return, Goto, Release, Held
<1>2. ASSUME NEW t \in Threads, WriteBegin(t) PROVE ThreadTypes'
  BY <1>2 DEF WriteBegin, Return, Goto, Release, Held, Take, Advance
<1>3. ASSUME NEW t \in Threads, WritePart(t) PROVE ThreadTypes'
  BY <1>3 DEF WritePart, Goto, Advance
<1>4. ASSUME NEW t \in Threads, WriteAgain(t) PROVE ThreadTypes'
  BY <1>4 DEF WriteAgain, Return, Goto, Release, Held
<1>5. ASSUME NEW t \in Threads, WriteFails(t) PROVE ThreadTypes'
  BY <1>5 DEF WriteFails, Return, Goto, Release, Held
<1>6. ASSUME NEW t \in Threads, WriteDone(t) PROVE ThreadTypes'
  BY <1>6 DEF WriteDone, Return, Goto, Release, Held
<1>7. ASSUME NEW t \in Threads, CallbackBegin(t) PROVE ThreadTypes'
  BY <1>7 DEF CallbackBegin, Take, Goto
<1>8. ASSUME NEW t \in Threads, CallbackSends(t) PROVE ThreadTypes'
  BY <1>8 DEF CallbackSends, Queue, Link
<1>9. ASSUME NEW t \in Threads, CallbackPublishes(t) PROVE ThreadTypes'
  BY <1>9 DEF CallbackPublishes, Goto
<1>10. ASSUME NEW t \in Threads, CallbackStores(t) PROVE ThreadTypes'
  BY <1>10 DEF CallbackStores, Queue, Link, Goto
<1>11. ASSUME NEW t \in Threads, CallbackEnd(t) PROVE ThreadTypes'
  <2>1. at' \in [Threads -> Places("app") \cup Places("loop")]
    BY <1>11 DEF CallbackEnd, Goto, Return
  <2>2. CASE t = "app"
    <3>1. calling[t] \in {"on_publish", "on_disconnect"}
      BY <1>11, <2>2 DEF CallbackEnd, LocksHeld, Calling
    <3>2. \A u \in Threads : at'[u] \in Places(u)
      BY <1>11, <2>2, <3>1 DEF CallbackEnd, Goto, Return
    <3>. QED
      BY <1>11, <2>1, <3>2, CallbackReleases DEF CallbackEnd
  <2>3. CASE t = "loop"
    <3>1. \A u \in Threads : at'[u] \in Places(u)
      BY <1>11, <2>3 DEF CallbackEnd, Goto, Return
    <3>. QED
      BY <1>11, <2>1, <3>1, CallbackReleases DEF CallbackEnd
  <2>. QED
    BY <2>2, <2>3
<1>12. CASE AppCall
  BY <1>12 DEF AppCall, Goto
<1>13. CASE Drain
  BY <1>13 DEF Drain, Goto
<1>14. CASE Dial
  BY <1>14 DEF Dial, Goto
<1>15. CASE LoopTop
  <2>1. want' \in BOOLEAN /\ connecting' \in BOOLEAN
    BY <1>15, Zenon DEF LoopTop
  <2>. QED
    BY <1>15, <2>1 DEF LoopTop, Goto
<1>16. CASE Ack
  BY <1>16 DEF Ack, Take, Goto
<1>17. CASE LoopWrite
  BY <1>17 DEF LoopWrite, Goto
<1>18. CASE Close
  BY <1>18 DEF Close, Goto
<1>19. CASE LinkFails
  BY <1>19 DEF LinkFails
<1>20. CASE UNCHANGED vars
  BY <1>20 DEF vars, callVars, queueVars, netVars, lockVars
<1>. QED
  BY <1>1, <1>2, <1>3, <1>4, <1>5, <1>6, <1>7, <1>8, <1>9, <1>10, <1>11,
     <1>12, <1>13, <1>14, <1>15, <1>16, <1>17, <1>18, <1>19, <1>20 DEF Next,
     Sends, Loop

\* Each step keeps the locks where the threads are.
LEMMA LocksStep ==
    ASSUME ThreadTypes, LocksHeld, [Next]_vars
    PROVE  LocksHeld'
<1>. USE DEF ThreadTypes, LocksHeld, InCallback, Calling, Callbacks, Threads,
   Places, Mutexes, Kinds, callVars, queueVars, netVars, lockVars
<1>1. ASSUME NEW t \in Threads, SendPacket(t) PROVE LocksHeld'
  BY <1>1 DEF SendPacket, Queue, Link, Return, Goto, Release, Held
<1>2. ASSUME NEW t \in Threads, WriteBegin(t) PROVE LocksHeld'
  BY <1>2 DEF WriteBegin, Return, Goto, Release, Held, Take, Advance
<1>3. ASSUME NEW t \in Threads, WritePart(t) PROVE LocksHeld'
  BY <1>3 DEF WritePart, Goto, Advance
<1>4. ASSUME NEW t \in Threads, WriteAgain(t) PROVE LocksHeld'
  BY <1>4 DEF WriteAgain, Return, Goto, Release, Held
<1>5. ASSUME NEW t \in Threads, WriteFails(t) PROVE LocksHeld'
  BY <1>5 DEF WriteFails, Return, Goto, Release, Held
<1>6. ASSUME NEW t \in Threads, WriteDone(t) PROVE LocksHeld'
  BY <1>6 DEF WriteDone, Return, Goto, Release, Held
<1>7. ASSUME NEW t \in Threads, CallbackBegin(t) PROVE LocksHeld'
  BY <1>7 DEF CallbackBegin, Take, Goto
<1>8. ASSUME NEW t \in Threads, CallbackSends(t) PROVE LocksHeld'
  BY <1>8 DEF CallbackSends, Queue, Link
<1>9. ASSUME NEW t \in Threads, CallbackPublishes(t) PROVE LocksHeld'
  BY <1>9 DEF CallbackPublishes, Goto
<1>10. ASSUME NEW t \in Threads, CallbackStores(t) PROVE LocksHeld'
  BY <1>10 DEF CallbackStores, Queue, Link, Goto
<1>11. ASSUME NEW t \in Threads, CallbackEnd(t) PROVE LocksHeld'
  <2>1. at[t] = "callback" /\ calling[t] \in Callbacks
    BY <1>11 DEF CallbackEnd
  <2>2. ~ in_callback'
    BY <1>11 DEF CallbackEnd
  <2>3. \A u \in Threads \ {t} : at'[u] = at[u] /\ calling'[u] = calling[u]
    BY <1>11 DEF CallbackEnd, Goto, Return
  <2>4. calling'[t] = "none"
    BY <1>11 DEF CallbackEnd
  <2>5. \A u \in Threads \ {t}, m \in Mutexes : owner'[m] = u <=> owner[m] = u
    BY <2>1, CallbackReleases, <1>11
  <2>6. CASE calling[t] = "on_publish"
    <3>1. at'[t] = "writing" /\ owner'["callback"] # t
      BY <1>11, <2>6 DEF CallbackEnd, Goto, Release
    <3>2. owner'["current_out_packet"] = t /\ owner'["out_message"] = owner["out_message"]
      BY <1>11, <2>1, <2>6 DEF CallbackEnd, Release
    <3>. QED
      BY <2>1, <2>2, <2>3, <2>4, <2>5, <2>6, <3>1, <3>2
  <2>7. CASE calling[t] # "on_publish"
    <3>1. at'[t] \in {"idle", "loop", "turn", "drain"}
      BY <1>11, <2>7 DEF CallbackEnd, Goto, Return
    <3>2. \A m \in Mutexes : owner'[m] # t
      BY <1>11, <2>7, CallbackReleases
    <3>. QED
      BY <2>1, <2>2, <2>3, <2>4, <2>5, <2>7, <3>1, <3>2
  <2>. QED
    BY <2>6, <2>7
<1>12. CASE AppCall
  BY <1>12 DEF AppCall, Goto
<1>13. CASE Drain
  BY <1>13 DEF Drain, Goto
<1>14. CASE Dial
  BY <1>14 DEF Dial, Goto
<1>15. CASE LoopTop
  BY <1>15 DEF LoopTop, Goto
<1>16. CASE Ack
  BY <1>16 DEF Ack, Take, Goto
<1>17. CASE LoopWrite
  BY <1>17 DEF LoopWrite, Goto
<1>18. CASE Close
  BY <1>18 DEF Close, Goto
<1>19. CASE LinkFails
  BY <1>19 DEF LinkFails
<1>20. CASE UNCHANGED vars
  BY <1>20 DEF vars, callVars, queueVars, netVars, lockVars
<1>. QED
  BY <1>1, <1>2, <1>3, <1>4, <1>5, <1>6, <1>7, <1>8, <1>9, <1>10, <1>11,
     <1>12, <1>13, <1>14, <1>15, <1>16, <1>17, <1>18, <1>19, <1>20 DEF Next,
     Sends, Loop

\* The threads that are about to make a packet, counted.
LEMMA SendersCount ==
    ASSUME NEW f
    PROVE  Cardinality({t \in Threads : f[t] \in Sending})
               = Reserved(f["app"]) + Reserved(f["loop"])
<1>. DEFINE S == {t \in Threads : f[t] \in Sending}
<1>1. CASE f["app"] \in Sending /\ f["loop"] \in Sending
  <2>1. S = {"app"} \cup {"loop"} /\ "loop" \notin {"app"}
    BY <1>1 DEF Threads
  <2>2. Cardinality({"app"}) = 1 /\ IsFiniteSet({"app"})
    BY FS_Singleton
  <2>3. Cardinality({"app"} \cup {"loop"}) = 2
    BY <2>1, <2>2, FS_AddElement
  <2>. QED
    BY <1>1, <2>1, <2>3 DEF Reserved
<1>2. CASE f["app"] \in Sending /\ f["loop"] \notin Sending
  <2>1. S = {"app"}
    BY <1>2 DEF Threads
  <2>. QED
    BY <1>2, <2>1, FS_Singleton DEF Reserved
<1>3. CASE f["app"] \notin Sending /\ f["loop"] \in Sending
  <2>1. S = {"loop"}
    BY <1>3 DEF Threads
  <2>. QED
    BY <1>3, <2>1, FS_Singleton DEF Reserved
<1>4. CASE f["app"] \notin Sending /\ f["loop"] \notin Sending
  <2>1. S = {}
    BY <1>4 DEF Threads
  <2>. QED
    BY <1>4, <2>1, FS_EmptySet DEF Reserved
<1>. QED
  BY <1>1, <1>2, <1>3, <1>4

\* There is room when a packet fits behind those.
LEMMA RoomCounts ==
    ASSUME made \in Nat
    PROVE  Room <=> made + Reserved(at["app"]) + Reserved(at["loop"]) < MaxPackets
<1>1. Reserved(at["app"]) \in Nat /\ Reserved(at["loop"]) \in Nat
  BY DEF Reserved
<1>. QED
  BY <1>1, SendersCount, PacketBounds DEF Room

\* Whoever is about to make a packet has its place.
LEMMA RoomStep ==
    ASSUME ThreadTypes, LocksHeld, RoomKept, [Next]_vars
    PROVE  RoomKept'
<1>1. Room => made + Reserved(at["app"]) + Reserved(at["loop"]) < MaxPackets
  BY RoomCounts DEF ThreadTypes
<1>. USE PacketBounds, <1>1 DEF ThreadTypes, RoomKept, Reserved, Sending,
   Threads, Kinds, Callbacks, Places, callVars, queueVars, netVars, lockVars
<1>2. ASSUME NEW t \in Threads, SendPacket(t) PROVE RoomKept'
  BY <1>2 DEF SendPacket, Queue, Return, Goto
<1>3. ASSUME NEW t \in Threads, WriteBegin(t) PROVE RoomKept'
  BY <1>3 DEF WriteBegin, Return, Goto
<1>4. ASSUME NEW t \in Threads, WritePart(t) PROVE RoomKept'
  BY <1>4 DEF WritePart, Goto
<1>5. ASSUME NEW t \in Threads, WriteAgain(t) PROVE RoomKept'
  BY <1>5 DEF WriteAgain, Return, Goto
<1>6. ASSUME NEW t \in Threads, WriteFails(t) PROVE RoomKept'
  BY <1>6 DEF WriteFails, Return, Goto
<1>7. ASSUME NEW t \in Threads, WriteDone(t) PROVE RoomKept'
  BY <1>7 DEF WriteDone, Return, Goto
<1>8. ASSUME NEW t \in Threads, CallbackBegin(t) PROVE RoomKept'
  BY <1>8 DEF CallbackBegin, Goto
<1>9. ASSUME NEW t \in Threads, CallbackSends(t) PROVE RoomKept'
  BY <1>9 DEF CallbackSends, Queue
<1>10. ASSUME NEW t \in Threads, CallbackPublishes(t) PROVE RoomKept'
  BY <1>10 DEF CallbackPublishes, Goto
<1>11. ASSUME NEW t \in Threads, CallbackStores(t) PROVE RoomKept'
  BY <1>11 DEF CallbackStores, Queue, Goto
<1>12. ASSUME NEW t \in Threads, CallbackEnd(t) PROVE RoomKept'
  BY <1>12 DEF CallbackEnd, Goto, Return
<1>13. CASE AppCall
  BY <1>13 DEF AppCall, Goto
<1>14. CASE Drain
  BY <1>14 DEF Drain, Goto
<1>15. CASE Dial
  BY <1>15 DEF Dial, Goto
<1>16. CASE LoopTop
  BY <1>16 DEF LoopTop, Goto
<1>17. CASE Ack
  BY <1>17 DEF Ack, Goto
<1>18. CASE LoopWrite
  BY <1>18 DEF LoopWrite, Goto
<1>19. CASE Close
  BY <1>19 DEF Close, Goto
<1>20. CASE LinkFails
  BY <1>20 DEF LinkFails
<1>21. CASE UNCHANGED vars
  BY <1>21 DEF vars, callVars, queueVars, netVars, lockVars
<1>. QED
  BY <1>2, <1>3, <1>4, <1>5, <1>6, <1>7, <1>8, <1>9, <1>10, <1>11, <1>12,
     <1>13, <1>14, <1>15, <1>16, <1>17, <1>18, <1>19, <1>20, <1>21 DEF Next,
     Sends, Loop

-----------------------------------------------------------------------------
\* A packet queued comes last, with the highest number.
LEMMA Queued ==
    ASSUME ThreadTypes, QueueOrdered, NEW k \in Kinds, Queue(k), made < MaxPackets
    PROVE  /\ QueueOrdered'
           /\ made' = made + 1 /\ current' = current /\ pos' = pos
           /\ Len(out) \in Nat /\ Len(out') = Len(out) + 1
           /\ \A i \in 1 .. Len(out) : out'[i] = out[i]
           /\ out'[Len(out')].no = made + 1
           /\ out'[Len(out')].kind = k
           /\ k # "CONNECT" /\ at["loop"] \in {"dial", "connect"} => out'[Len(out')].early
<1>. DEFINE e == (k # "CONNECT" /\ at["loop"] \in {"dial", "connect"})
            p == [no |-> made + 1, kind |-> k, early |-> e]
<1>1. e \in BOOLEAN
  BY Zenon
<1>2. p \in Packet
  <2>1. made + 1 \in 1 .. MaxPackets
    BY PacketBounds DEF ThreadTypes
  <2>. HIDE DEF e
  <2>. QED
    BY <1>1, <2>1 DEF Packet
<1>3. /\ p.no = made + 1 /\ p.kind = k
      /\ k # "CONNECT" /\ at["loop"] \in {"dial", "connect"} => p.early
  BY Zenon
<1>4. made' = made + 1 /\ current' = current /\ pos' = pos /\ outLast' = p
  BY DEF Queue, Link
<1>. HIDE DEF p
<1>5. out \in Seq(Packet) /\ Len(out) \in Nat /\ DOMAIN out = 1 .. Len(out)
  BY LenProperties DEF QueueOrdered
<1>6. out' = Append(out, p)
  <2>1. CASE out = <<>>
    <3>1. out' = <<p>>
      BY <2>1 DEF Queue, Link, p
    <3>. QED
      BY <2>1, <3>1
  <2>2. CASE out # <<>>
    <3>1. outLast = Last(out)
      BY <2>2 DEF QueueOrdered
    <3>. QED
      BY <2>2, <3>1 DEF Queue, Link, p
  <2>. QED
    BY <2>1, <2>2
<1>7. /\ out' \in Seq(Packet) /\ Len(out') = Len(out) + 1
      /\ \A i \in 1 .. Len(out) : out'[i] = out[i]
      /\ out'[Len(out) + 1] = p
      /\ DOMAIN out' = 1 .. Len(out) + 1
  BY <1>2, <1>5, <1>6, AppendProperties, LenProperties
<1>8. Last(out') = p /\ out'[Len(out')] = p
  BY <1>7 DEF Last
<1>88. \A i \in DOMAIN out : out[i].no \in Nat
  <2>1. \A i \in DOMAIN out : out[i] \in Packet
    BY <1>5, ElementOfSeq
  <2>2. \A x \in Packet : x.no \in Nat
    BY DEF Packet
  <2>. QED
    BY <2>1, <2>2
<1>89. /\ made \in Nat
       /\ current # None => current.no \in Nat
       /\ \A i \in DOMAIN out : out[i].no <= made
       /\ current # None => current.no <= made
  BY DEF ThreadTypes, QueueOrdered, Packet
<1>9. \A i \in DOMAIN out' : out'[i].no <= made'
  BY <1>3, <1>4, <1>5, <1>7, <1>88, <1>89
<1>10. \A i, j \in DOMAIN out' : i < j => out'[i].no < out'[j].no
  BY <1>3, <1>4, <1>5, <1>7, <1>88, <1>89 DEF QueueOrdered
<1>11. current' # None => /\ current'.no <= made'
                          /\ \A i \in DOMAIN out' : current'.no < out'[i].no
  BY <1>3, <1>4, <1>5, <1>7, <1>88, <1>89 DEF QueueOrdered
<1>12. QueueOrdered'
  BY <1>4, <1>7, <1>8, <1>9, <1>10, <1>11 DEF QueueOrdered
<1>. QED
  BY <1>3, <1>4, <1>5, <1>7, <1>8, <1>12

\* The head of the queue becomes the current packet, or none when it is empty.
LEMMA Advanced ==
    ASSUME ThreadTypes, QueueOrdered, Advance, made' = made
    PROVE  /\ QueueOrdered' /\ pos' = 0 /\ Len(out) \in Nat
           /\ out = <<>> => current' = None /\ out' = <<>>
           /\ out # <<>> => /\ current' = out[1] /\ current' # None
                            /\ 1 \in DOMAIN out
                            /\ \A i \in DOMAIN out' : i + 1 \in DOMAIN out /\ out'[i] = out[i + 1]
<1>1. out \in Seq(Packet) /\ Len(out) \in Nat /\ DOMAIN out = 1 .. Len(out)
  BY LenProperties DEF QueueOrdered
<1>2. pos' = 0
  BY DEF Advance
<1>3. CASE out = <<>>
  <2>1. current' = None /\ out' = <<>> /\ DOMAIN out' = {}
    BY <1>3, EmptySeq DEF Advance
  <2>. QED
    BY <1>1, <1>2, <1>3, <2>1 DEF QueueOrdered
<1>4. CASE out # <<>>
  <2>1. Len(out) > 0 /\ Head(out) = out[1] /\ Head(out) \in Packet
    BY <1>1, <1>4, HeadTailProperties, EmptySeq
  <2>2. current' = out[1] /\ out' = Tail(out)
    BY <1>4, <2>1 DEF Advance
  <2>3. current' \in Packet /\ current' # None
    <3>1. current'.no \in 1 .. MaxPackets
      BY <2>1, <2>2 DEF Packet
    <3>. QED
      BY <2>1, <2>2, <3>1, PacketBounds DEF None
  <2>4. /\ out' \in Seq(Packet) /\ Len(out') = Len(out) - 1
        /\ \A i \in 1 .. Len(out) - 1 : out'[i] = out[i + 1]
        /\ DOMAIN out' = 1 .. Len(out) - 1
    BY <1>1, <1>4, <2>1, <2>2, HeadTailProperties, LenProperties
  <2>5. out' # <<>> => outLast' = Last(out')
    <3>. SUFFICES ASSUME out' # <<>> PROVE outLast' = Last(out')
      OBVIOUS
    <3>1. Len(out) # 1
      BY <2>4, EmptySeq
    <3>2. outLast' = outLast /\ outLast = out[Len(out)]
      BY <1>4, <3>1 DEF Advance, QueueOrdered, Last
    <3>3. Last(out') = out[Len(out)]
      BY <1>1, <2>1, <2>4, <3>1 DEF Last
    <3>. QED
      BY <3>2, <3>3
  <2>6. \A i \in DOMAIN out' : i + 1 \in DOMAIN out /\ out'[i] = out[i + 1]
    BY <1>1, <2>4
  <2>7. \A i \in DOMAIN out' : out'[i].no <= made
    BY <2>6 DEF QueueOrdered
  <2>8. \A i, j \in DOMAIN out' : i < j => out'[i].no < out'[j].no
    BY <1>1, <2>4, <2>6 DEF QueueOrdered
  <2>9. current'.no <= made /\ \A i \in DOMAIN out' : current'.no < out'[i].no
    BY <1>1, <2>1, <2>2, <2>4, <2>6 DEF QueueOrdered
  <2>10. QueueOrdered'
    BY <1>2, <2>3, <2>4, <2>5, <2>7, <2>8, <2>9 DEF QueueOrdered
  <2>. QED
    BY <1>1, <1>2, <1>4, <2>1, <2>2, <2>3, <2>6, <2>10
<1>. QED
  BY <1>3, <1>4

\* Room for the packet of a thread that is about to queue one.
LEMMA RoomToSend ==
    ASSUME ThreadTypes, RoomKept, NEW t \in Threads,
           at[t] \in Sending \/ Room
    PROVE  made < MaxPackets
<1>1. Reserved(at["app"]) \in Nat /\ Reserved(at["loop"]) \in Nat
  BY DEF Reserved
<1>2. CASE Room
  BY <1>1, <1>2, RoomCounts, PacketBounds DEF ThreadTypes
<1>3. CASE at[t] \in Sending
  <2>1. Reserved(at[t]) = 1
    BY <1>3 DEF Reserved
  <2>. QED
    BY <1>1, <2>1, PacketBounds DEF ThreadTypes, RoomKept, Threads
<1>. QED
  BY <1>2, <1>3

\* Each step keeps the order of the queue.
LEMMA QueueStep ==
    ASSUME ThreadTypes, LocksHeld, RoomKept, QueueOrdered, [Next]_vars
    PROVE  QueueOrdered'
<1>1. ASSUME NEW t \in Threads, SendPacket(t) PROVE QueueOrdered'
  <2>1. at[t] \in Sending
    BY <1>1 DEF SendPacket, Sending, ThreadTypes, Places, Kinds
  <2>2. PICK k \in Kinds : Queue(k)
    BY <1>1 DEF SendPacket, Kinds
  <2>. QED
    BY <2>1, <2>2, RoomToSend, Queued
<1>2. ASSUME NEW t \in Threads, WriteBegin(t) PROVE QueueOrdered'
  <2>1. made' = made
    BY <1>2 DEF WriteBegin, callVars
  <2>2. Advance \/ UNCHANGED <<made, queueVars>>
    BY <1>2, <2>1 DEF WriteBegin
  <2>. QED
    BY <2>1, <2>2, Advanced DEF QueueOrdered, queueVars
<1>3. ASSUME NEW t \in Threads, WritePart(t) PROVE QueueOrdered'
  <2>1. made' = made
    BY <1>3 DEF WritePart, callVars
  <2>2. CASE Advance
    BY <2>1, <2>2, Advanced
  <2>3. CASE ~ Advance
    BY <1>3, <2>1, <2>3 DEF WritePart, QueueOrdered
  <2>. QED
    BY <2>2, <2>3
<1>4. ASSUME NEW t \in Threads, WriteAgain(t) PROVE QueueOrdered'
  BY <1>4 DEF WriteAgain, QueueOrdered, callVars, queueVars
<1>5. ASSUME NEW t \in Threads, WriteFails(t) PROVE QueueOrdered'
  BY <1>5 DEF WriteFails, QueueOrdered, callVars, queueVars
<1>6. ASSUME NEW t \in Threads, WriteDone(t) PROVE QueueOrdered'
  BY <1>6 DEF WriteDone, QueueOrdered, callVars, queueVars
<1>7. ASSUME NEW t \in Threads, CallbackBegin(t) PROVE QueueOrdered'
  BY <1>7 DEF CallbackBegin, QueueOrdered, callVars, queueVars
<1>8. ASSUME NEW t \in Threads, CallbackSends(t) PROVE QueueOrdered'
  <2>1. PICK k \in Kinds : Queue(k)
    BY <1>8 DEF CallbackSends, Kinds
  <2>2. made < MaxPackets
    BY <1>8, RoomToSend DEF CallbackSends
  <2>. QED
    BY <2>1, <2>2, Queued
<1>9. ASSUME NEW t \in Threads, CallbackPublishes(t) PROVE QueueOrdered'
  BY <1>9 DEF CallbackPublishes, QueueOrdered, callVars, queueVars
<1>10. ASSUME NEW t \in Threads, CallbackStores(t) PROVE QueueOrdered'
  <2>1. made < MaxPackets
    BY <1>10, RoomToSend DEF CallbackStores, Sending
  <2>2. CASE Queue("PUBLISH")
    BY <2>1, <2>2, Queued DEF Kinds
  <2>3. CASE UNCHANGED <<made, queueVars>>
    BY <2>3 DEF queueVars, QueueOrdered
  <2>. QED
    BY <1>10, <2>2, <2>3 DEF CallbackStores
<1>11. ASSUME NEW t \in Threads, CallbackEnd(t) PROVE QueueOrdered'
  <2>1. made' = made
    BY <1>11 DEF CallbackEnd, callVars
  <2>2. CASE Advance
    BY <2>1, <2>2, Advanced
  <2>3. CASE UNCHANGED queueVars
    BY <2>1, <2>3 DEF queueVars, QueueOrdered
  <2>. QED
    BY <1>11, <2>2, <2>3 DEF CallbackEnd
<1>12. CASE AppCall
  BY <1>12 DEF AppCall, QueueOrdered, callVars, queueVars
<1>13. CASE Drain
  BY <1>13, EmptySeq DEF Drain, QueueOrdered, callVars
<1>14. CASE Dial
  BY <1>14 DEF Dial, QueueOrdered, callVars, queueVars
<1>15. CASE LoopTop
  BY <1>15 DEF LoopTop, QueueOrdered, callVars, queueVars
<1>16. CASE Ack
  BY <1>16 DEF Ack, QueueOrdered, callVars, queueVars
<1>17. CASE LoopWrite
  BY <1>17 DEF LoopWrite, QueueOrdered, callVars, queueVars
<1>18. CASE Close
  BY <1>18 DEF Close, QueueOrdered, callVars, queueVars
<1>19. CASE LinkFails
  BY <1>19 DEF LinkFails, QueueOrdered, callVars, queueVars
<1>20. CASE UNCHANGED vars
  BY <1>20 DEF vars, callVars, queueVars, QueueOrdered
<1>. QED
  BY <1>1, <1>2, <1>3, <1>4, <1>5, <1>6, <1>7, <1>8, <1>9, <1>10, <1>11,
     <1>12, <1>13, <1>14, <1>15, <1>16, <1>17, <1>18, <1>19, <1>20 DEF Next,
     Sends, Loop

-----------------------------------------------------------------------------
\* Each step keeps what is written where the threads are.
LEMMA PlacesStep ==
    ASSUME ThreadTypes, LocksHeld, QueueOrdered, WritePlaces, [Next]_vars
    PROVE  WritePlaces'
<1>. USE DEF ThreadTypes, LocksHeld, WritePlaces, InCallback, Calling,
   Callbacks, Threads, Places, Mutexes, Kinds, callVars, queueVars, netVars,
   lockVars
<1>1. ASSUME NEW t \in Threads, SendPacket(t) PROVE WritePlaces'
  BY <1>1 DEF SendPacket, Queue, Return, Goto
<1>2. ASSUME NEW t \in Threads, WriteBegin(t) PROVE WritePlaces'
  BY <1>2 DEF WriteBegin, Return, Goto, Take, Advance
<1>3. ASSUME NEW t \in Threads, WritePart(t) PROVE WritePlaces'
  BY <1>3 DEF WritePart, Goto, Advance
<1>4. ASSUME NEW t \in Threads, WriteAgain(t) PROVE WritePlaces'
  BY <1>4 DEF WriteAgain, Return, Goto
<1>5. ASSUME NEW t \in Threads, WriteFails(t) PROVE WritePlaces'
  BY <1>5 DEF WriteFails, Return, Goto
<1>6. ASSUME NEW t \in Threads, WriteDone(t) PROVE WritePlaces'
  BY <1>6 DEF WriteDone, Return, Goto
<1>7. ASSUME NEW t \in Threads, CallbackBegin(t) PROVE WritePlaces'
  BY <1>7 DEF CallbackBegin, Take, Goto
<1>8. ASSUME NEW t \in Threads, CallbackSends(t) PROVE WritePlaces'
  BY <1>8 DEF CallbackSends, Queue
<1>9. ASSUME NEW t \in Threads, CallbackPublishes(t) PROVE WritePlaces'
  BY <1>9 DEF CallbackPublishes, Goto
<1>10. ASSUME NEW t \in Threads, CallbackStores(t) PROVE WritePlaces'
  BY <1>10 DEF CallbackStores, Queue, Goto
<1>11. ASSUME NEW t \in Threads, CallbackEnd(t) PROVE WritePlaces'
  BY <1>11 DEF CallbackEnd, Goto, Return, Advance
<1>12. CASE AppCall
  BY <1>12 DEF AppCall, Goto
<1>13. CASE Drain
  BY <1>13 DEF Drain, Goto
<1>14. CASE Dial
  BY <1>14 DEF Dial, Goto
<1>15. CASE LoopTop
  BY <1>15 DEF LoopTop, Goto
<1>16. CASE Ack
  BY <1>16 DEF Ack, Take, Goto
<1>17. CASE LoopWrite
  BY <1>17 DEF LoopWrite, Goto
<1>18. CASE Close
  BY <1>18 DEF Close, Goto
<1>19. CASE LinkFails
  BY <1>19 DEF LinkFails
<1>20. CASE UNCHANGED vars
  BY <1>20 DEF vars
<1>. QED
  BY <1>1, <1>2, <1>3, <1>4, <1>5, <1>6, <1>7, <1>8, <1>9, <1>10, <1>11,
     <1>12, <1>13, <1>14, <1>15, <1>16, <1>17, <1>18, <1>19, <1>20 DEF Next,
     Sends, Loop

\* Packets are numbered from 1.
LEMMA Numbers ==
    ASSUME QueueOrdered
    PROVE  /\ \A i \in DOMAIN out : out[i].no \in Nat \ {0}
           /\ current # None => current.no \in Nat \ {0}
<1>1. \A x \in Packet : x.no \in Nat \ {0}
  BY DEF Packet
<1>2. \A i \in DOMAIN out : out[i] \in Packet
  <2>1. out \in Seq(Packet) /\ DOMAIN out = 1 .. Len(out)
    BY LenProperties DEF QueueOrdered
  <2>. QED
    BY <2>1, ElementOfSeq
<1>. QED
  BY <1>1, <1>2 DEF QueueOrdered

\* A step that writes nothing, and opens nothing.
LEMMA WireRests ==
    ASSUME WireBehind, UNCHANGED <<made, wire, out, current, pos>>,
           sock' = "open" => sock = "open"
    PROVE  WireBehind'
BY DEF WireBehind

\* A packet queued is not due before those that have gone out.
LEMMA WireQueued ==
    ASSUME ThreadTypes, QueueOrdered, WireBehind, UNCHANGED <<wire, sock>>,
           NEW k \in Kinds, Queue(k), made < MaxPackets
    PROVE  WireBehind'
<1>1. /\ made' = made + 1 /\ current' = current /\ pos' = pos
      /\ Len(out) \in Nat /\ Len(out') = Len(out) + 1
      /\ \A i \in 1 .. Len(out) : out'[i] = out[i]
      /\ out'[Len(out')].no = made + 1
      /\ QueueOrdered'
  BY Queued
<1>2. DOMAIN out = 1 .. Len(out) /\ DOMAIN out' = 1 .. Len(out) + 1
  BY <1>1, LenProperties DEF QueueOrdered
<1>3. made \in Nat /\ wire.last \in Nat /\ wire.last <= made
  BY DEF ThreadTypes, WireBehind
<1>4. ASSUME sock = "open", pos = 0, NEW i \in DOMAIN out' PROVE wire.last < out'[i].no
  BY <1>1, <1>2, <1>3, <1>4, Numbers DEF WireBehind
<1>. QED
  BY <1>1, <1>3, <1>4 DEF WireBehind

\* The head of the queue is due once the current packet has gone out whole.
LEMMA WireAdvanced ==
    ASSUME ThreadTypes, QueueOrdered, WireBehind, Advance, made' = made,
           UNCHANGED <<wire, sock>>,
           current = None \/ pos = 2
    PROVE  WireBehind'
<1>1. /\ QueueOrdered' /\ pos' = 0 /\ Len(out) \in Nat
      /\ out = <<>> => current' = None /\ out' = <<>>
      /\ out # <<>> => /\ current' = out[1] /\ current' # None
                       /\ 1 \in DOMAIN out
                       /\ \A i \in DOMAIN out' : i + 1 \in DOMAIN out /\ out'[i] = out[i + 1]
  BY Advanced
<1>2. sock = "open" => wire.part = 2 /\ \A i \in DOMAIN out : wire.last < out[i].no
  BY DEF WireBehind, QueueOrdered
<1>3. \A i \in DOMAIN <<>> : FALSE
  OBVIOUS
<1>. QED
  BY <1>1, <1>2, <1>3 DEF WireBehind

\* Each step keeps the connection behind the queue.
LEMMA WireStep ==
    ASSUME ThreadTypes, LocksHeld, RoomKept, QueueOrdered, WritePlaces,
           WireBehind, [Next]_vars
    PROVE  WireBehind'
<1>1. ASSUME NEW t \in Threads, SendPacket(t) PROVE WireBehind'
  <2>1. at[t] \in Sending
    BY <1>1 DEF SendPacket, Sending, ThreadTypes, Places, Kinds
  <2>2. PICK k \in Kinds : Queue(k)
    BY <1>1 DEF SendPacket, Kinds
  <2>3. UNCHANGED <<wire, sock>>
    BY <1>1 DEF SendPacket, netVars
  <2>. QED
    BY <2>1, <2>2, <2>3, RoomToSend, WireQueued
<1>2. ASSUME NEW t \in Threads, WriteBegin(t) PROVE WireBehind'
  <2>1. UNCHANGED <<made, wire, sock>>
    BY <1>2 DEF WriteBegin, callVars, netVars
  <2>2. (current = None /\ Advance) \/ UNCHANGED queueVars
    BY <1>2, <2>1 DEF WriteBegin
  <2>. QED
    BY <2>1, <2>2, WireAdvanced, WireRests DEF queueVars
<1>3. ASSUME NEW t \in Threads, WritePart(t) PROVE WireBehind'
  <2>1. /\ made' = made /\ current # None /\ sock = "open"
        /\ wire' = [first |-> IF wire.first = None THEN current ELSE wire.first,
                    last |-> current.no, part |-> pos + 1]
    BY <1>3 DEF WritePart, callVars
  <2>2. current \in Packet /\ current.no \in Nat /\ current.no <= made
    BY <2>1, Numbers DEF QueueOrdered
  <2>3. pos \in {0, 1}
    BY <1>3 DEF WritePart
  <2>4. /\ wire' \in [first : Packet \cup {None}, last : Nat, part : 1 .. 2]
        /\ wire'.first # None /\ wire'.last = current.no /\ wire'.part = pos + 1
    BY <2>1, <2>2, <2>3 DEF WireBehind
  <2>5. CASE pos = 0
    BY <1>3, <2>1, <2>2, <2>4, <2>5 DEF WritePart, WireBehind
  <2>6. CASE pos = 1 /\ current.kind = "PUBLISH0"
    BY <1>3, <2>1, <2>2, <2>4, <2>6 DEF WritePart, WireBehind
  <2>7. CASE pos = 1 /\ current.kind # "PUBLISH0"
    <3>1. Advance
      BY <1>3, <2>7 DEF WritePart
    <3>2. /\ QueueOrdered' /\ pos' = 0
          /\ out = <<>> => current' = None /\ out' = <<>>
          /\ out # <<>> => /\ current' = out[1] /\ current' # None
                           /\ 1 \in DOMAIN out
                           /\ \A i \in DOMAIN out' : i + 1 \in DOMAIN out /\ out'[i] = out[i + 1]
      BY <2>1, <3>1, Advanced
    <3>3. \A i \in DOMAIN out : current.no < out[i].no
      BY <2>1 DEF QueueOrdered
    <3>4. \A i \in DOMAIN <<>> : FALSE
      OBVIOUS
    <3>. QED
      BY <2>1, <2>2, <2>4, <2>7, <3>2, <3>3, <3>4 DEF WireBehind
  <2>. QED
    BY <2>3, <2>5, <2>6, <2>7
<1>4. ASSUME NEW t \in Threads, WriteAgain(t) PROVE WireBehind'
  <2>1. /\ UNCHANGED <<made, wire, out, current, pos>>
        /\ sock' = "open" => sock = "open"
    BY <1>4 DEF WriteAgain, callVars, queueVars, netVars
  <2>. QED
    BY <2>1, WireRests
<1>5. ASSUME NEW t \in Threads, WriteFails(t) PROVE WireBehind'
  <2>1. /\ UNCHANGED <<made, wire, out, current, pos>>
        /\ sock' = "open" => sock = "open"
    BY <1>5 DEF WriteFails, callVars, queueVars, netVars
  <2>. QED
    BY <2>1, WireRests
<1>6. ASSUME NEW t \in Threads, WriteDone(t) PROVE WireBehind'
  <2>1. /\ UNCHANGED <<made, wire, out, current, pos>>
        /\ sock' = "open" => sock = "open"
    BY <1>6 DEF WriteDone, callVars, queueVars, netVars
  <2>. QED
    BY <2>1, WireRests
<1>7. ASSUME NEW t \in Threads, CallbackBegin(t) PROVE WireBehind'
  <2>1. /\ UNCHANGED <<made, wire, out, current, pos>>
        /\ sock' = "open" => sock = "open"
    BY <1>7 DEF CallbackBegin, callVars, queueVars, netVars
  <2>. QED
    BY <2>1, WireRests
<1>8. ASSUME NEW t \in Threads, CallbackSends(t) PROVE WireBehind'
  <2>1. PICK k \in Kinds : Queue(k)
    BY <1>8 DEF CallbackSends, Kinds
  <2>2. made < MaxPackets /\ UNCHANGED <<wire, sock>>
    BY <1>8, RoomToSend DEF CallbackSends, netVars
  <2>. QED
    BY <2>1, <2>2, WireQueued
<1>9. ASSUME NEW t \in Threads, CallbackPublishes(t) PROVE WireBehind'
  <2>1. /\ UNCHANGED <<made, wire, out, current, pos>>
        /\ sock' = "open" => sock = "open"
    BY <1>9 DEF CallbackPublishes, callVars, queueVars, netVars
  <2>. QED
    BY <2>1, WireRests
<1>10. ASSUME NEW t \in Threads, CallbackStores(t) PROVE WireBehind'
  <2>1. made < MaxPackets /\ UNCHANGED <<wire, sock>>
    BY <1>10, RoomToSend DEF CallbackStores, Sending, netVars
  <2>2. CASE Queue("PUBLISH")
    BY <2>1, <2>2, WireQueued DEF Kinds
  <2>3. CASE UNCHANGED <<made, queueVars>>
    BY <2>1, <2>3, WireRests DEF queueVars
  <2>. QED
    BY <1>10, <2>2, <2>3 DEF CallbackStores
<1>11. ASSUME NEW t \in Threads, CallbackEnd(t) PROVE WireBehind'
  <2>1. UNCHANGED <<made, wire, sock>>
    BY <1>11 DEF CallbackEnd, callVars, netVars
  <2>2. CASE calling[t] = "on_publish"
    <3>1. Advance /\ pos = 2
      BY <1>11, <2>2 DEF CallbackEnd, WritePlaces, Calling
    <3>. QED
      BY <2>1, <3>1, WireAdvanced
  <2>3. CASE calling[t] # "on_publish"
    <3>1. UNCHANGED queueVars
      BY <1>11, <2>3 DEF CallbackEnd
    <3>. QED
      BY <2>1, <3>1, WireRests DEF queueVars
  <2>. QED
    BY <2>2, <2>3
<1>12. CASE AppCall
  <2>1. /\ UNCHANGED <<made, wire, out, current, pos>>
        /\ sock' = "open" => sock = "open"
    BY <1>12 DEF AppCall, callVars, queueVars, netVars
  <2>. QED
    BY <2>1, WireRests
<1>13. CASE Drain
  <2>1. UNCHANGED <<made, wire, sock>> /\ sock # "open"
    BY <1>13 DEF Drain, callVars, netVars, WritePlaces
  <2>. QED
    BY <2>1 DEF WireBehind
<1>14. CASE Dial
  <2>1. UNCHANGED <<made, out, current, pos>> /\ pos = 0
    BY <1>14 DEF Dial, queueVars, WritePlaces
  <2>2. CASE wire' = Unused
    <3>1. \A i \in DOMAIN out : 0 < out[i].no
      BY Numbers
    <3>2. current # None => 0 < current.no
      BY Numbers
    <3>3. /\ wire' \in [first : Packet \cup {None}, last : Nat, part : 1 .. 2]
          /\ wire'.last = 0 /\ wire'.part = 2
      BY <2>2 DEF Unused
    <3>. QED
      BY <2>1, <2>2, <3>1, <3>2, <3>3 DEF WireBehind, ThreadTypes
  <2>3. CASE UNCHANGED <<sock, wire>>
    BY <2>1, <2>3, WireRests
  <2>. QED
    BY <1>14, <2>2, <2>3 DEF Dial
<1>15. CASE LoopTop
  <2>1. /\ UNCHANGED <<made, wire, out, current, pos>>
        /\ sock' = "open" => sock = "open"
    BY <1>15 DEF LoopTop, callVars, queueVars, netVars
  <2>. QED
    BY <2>1, WireRests
<1>16. CASE Ack
  <2>1. /\ UNCHANGED <<made, wire, out, current, pos>>
        /\ sock' = "open" => sock = "open"
    BY <1>16 DEF Ack, callVars, queueVars, netVars
  <2>. QED
    BY <2>1, WireRests
<1>17. CASE LoopWrite
  <2>1. /\ UNCHANGED <<made, wire, out, current, pos>>
        /\ sock' = "open" => sock = "open"
    BY <1>17 DEF LoopWrite, callVars, queueVars, netVars
  <2>. QED
    BY <2>1, WireRests
<1>18. CASE Close
  <2>1. /\ UNCHANGED <<made, wire, out, current, pos>>
        /\ sock' = "open" => sock = "open"
    BY <1>18 DEF Close, callVars, queueVars, netVars
  <2>. QED
    BY <2>1, WireRests
<1>19. CASE LinkFails
  <2>1. /\ UNCHANGED <<made, wire, out, current, pos>>
        /\ sock' = "open" => sock = "open"
    BY <1>19 DEF LinkFails, callVars, queueVars, netVars
  <2>. QED
    BY <2>1, WireRests
<1>20. CASE UNCHANGED vars
  BY <1>20, WireRests DEF vars, callVars, queueVars, netVars
<1>. QED
  BY <1>1, <1>2, <1>3, <1>4, <1>5, <1>6, <1>7, <1>8, <1>9, <1>10, <1>11,
     <1>12, <1>13, <1>14, <1>15, <1>16, <1>17, <1>18, <1>19, <1>20 DEF Next,
     Sends, Loop

-----------------------------------------------------------------------------
\* Whatever stands first, and whatever is queued before the CONNECT.
Early == /\ current # None => current.early
         /\ \A i \in DOMAIN out : out[i].early
FirstOpens == /\ current # None \/ out # <<>>
              /\ Opens(IF current # None THEN current ELSE Head(out))

\* What another thread queues before the CONNECT is early; the CONNECT finds
\* only such packets before it.
LEMMA EarlyQueued ==
    ASSUME ThreadTypes, QueueOrdered, NEW k \in Kinds, Queue(k),
           made < MaxPackets, Early
    PROVE  /\ k # "CONNECT" /\ at["loop"] \in {"dial", "connect"} => Early'
           /\ k = "CONNECT" => FirstOpens'
<1>1. /\ QueueOrdered' /\ current' = current
      /\ Len(out) \in Nat /\ Len(out') = Len(out) + 1
      /\ \A i \in 1 .. Len(out) : out'[i] = out[i]
      /\ out'[Len(out')].kind = k
      /\ k # "CONNECT" /\ at["loop"] \in {"dial", "connect"} => out'[Len(out')].early
  BY Queued
<1>2. DOMAIN out = 1 .. Len(out) /\ DOMAIN out' = 1 .. Len(out) + 1
  BY <1>1, LenProperties DEF QueueOrdered
<1>3. out' # <<>> /\ Head(out') = out'[1]
  BY <1>1, <1>2, EmptySeq, HeadTailProperties DEF QueueOrdered
<1>4. Opens(out'[1]) \/ k # "CONNECT"
  BY <1>1, <1>2 DEF Early, Opens
<1>5. ASSUME k # "CONNECT", at["loop"] \in {"dial", "connect"} PROVE Early'
  BY <1>1, <1>2, <1>5 DEF Early
<1>. QED
  BY <1>1, <1>3, <1>4, <1>5 DEF Early, FirstOpens, Opens

\* A packet queued behind another does not stand first.
LEMMA FirstQueued ==
    ASSUME ThreadTypes, QueueOrdered, NEW k \in Kinds, Queue(k),
           made < MaxPackets, FirstOpens
    PROVE  FirstOpens'
<1>1. /\ QueueOrdered' /\ current' = current
      /\ Len(out) \in Nat /\ Len(out') = Len(out) + 1
      /\ \A i \in 1 .. Len(out) : out'[i] = out[i]
  BY Queued
<1>2. DOMAIN out = 1 .. Len(out) /\ DOMAIN out' = 1 .. Len(out) + 1
  BY <1>1, LenProperties DEF QueueOrdered
<1>3. out' # <<>> /\ Head(out') = out'[1]
  BY <1>1, <1>2, EmptySeq, HeadTailProperties DEF QueueOrdered
<1>4. out # <<>> => Head(out) = out[1] /\ out'[1] = out[1]
  BY <1>1, <1>2, EmptySeq, HeadTailProperties DEF QueueOrdered
<1>. QED
  BY <1>1, <1>3, <1>4 DEF FirstOpens

\* Taking the head of the queue changes neither, before anything has gone out.
LEMMA EarlyAdvanced ==
    ASSUME ThreadTypes, QueueOrdered, Advance, made' = made
    PROVE  /\ Early => Early'
           /\ FirstOpens /\ current = None => FirstOpens'
<1>1. /\ out = <<>> => current' = None /\ out' = <<>>
      /\ out # <<>> => /\ current' = out[1] /\ current' # None
                       /\ 1 \in DOMAIN out
                       /\ \A i \in DOMAIN out' : i + 1 \in DOMAIN out /\ out'[i] = out[i + 1]
  BY Advanced
<1>2. \A i \in DOMAIN <<>> : FALSE
  OBVIOUS
<1>3. out # <<>> => Head(out) = out[1]
  BY HeadTailProperties DEF QueueOrdered
<1>. QED
  BY <1>1, <1>2, <1>3 DEF Early, FirstOpens

\* The loop is no nearer to its CONNECT, and has not sent it.
DialingKept ==
    /\ at'["loop"] \in {"dial", "connect"} <=> at["loop"] \in {"dial", "connect"}
    /\ at["loop"] = "connect" => at'["loop"] = "connect"

\* OpensConnection, in those words.
OpensWords ==
    /\ ConnectFirst
    /\ at["loop"] \in {"dial", "connect"} => Early
    /\ sock = "open" /\ wire.first = None /\ at["loop"] # "connect" => FirstOpens

LEMMA OpensInParts ==
    /\ OpensConnection <=> OpensWords
    /\ OpensConnection' <=> OpensWords'
BY DEF OpensConnection, OpensWords, Early, FirstOpens

\* Each step keeps what a connection begins with.
LEMMA OpensStep ==
    ASSUME ThreadTypes, LocksHeld, RoomKept, QueueOrdered, WritePlaces,
           WireBehind, OpensConnection, [Next]_vars
    PROVE  OpensConnection'
<1>. USE DEF ConnectFirst, OpensWords, DialingKept
<1>1. ASSUME NEW t \in Threads, SendPacket(t) PROVE OpensConnection'
  <2>1. at[t] \in Sending
    BY <1>1 DEF SendPacket, Sending, ThreadTypes, Places, Kinds
  <2>2. PICK k \in Kinds : Queue(k) /\ (k = "CONNECT" <=> at[t] = "connect")
    BY <1>1 DEF SendPacket, Kinds, ThreadTypes, Places
  <2>3. UNCHANGED <<wire, sock>> /\ made < MaxPackets
    BY <1>1, <2>1, RoomToSend DEF SendPacket, netVars
  <2>4. CASE at[t] = "connect"
    <3>1. t = "loop" /\ at'["loop"] \notin {"dial", "connect"}
      BY <1>1, <2>4 DEF SendPacket, ThreadTypes, Places, Threads, Return, Goto
    <3>2. Early
      BY <2>4, <3>1, OpensInParts
    <3>3. FirstOpens'
      BY <2>2, <2>3, <2>4, <3>2, EarlyQueued
    <3>4. ConnectFirst'
      BY <2>3, OpensInParts
    <3>. QED
      BY <3>1, <3>3, <3>4, OpensInParts
  <2>5. CASE at[t] # "connect"
    <3>1. /\ at'["loop"] \in {"dial", "connect"} => at["loop"] \in {"dial", "connect"}
          /\ at["loop"] = "connect" => at'["loop"] = "connect"
      BY <1>1, <2>5 DEF SendPacket, ThreadTypes, Places, Threads, Kinds,
         Return, Goto
    <3>2. at["loop"] \in {"dial", "connect"} => Early'
      BY <2>2, <2>3, <2>5, EarlyQueued, OpensInParts
    <3>3. FirstOpens => FirstOpens'
      BY <2>2, <2>3, FirstQueued
    <3>. QED
      BY <2>3, <3>1, <3>2, <3>3, OpensInParts
  <2>. QED
    BY <2>4, <2>5
<1>2. ASSUME NEW t \in Threads, WriteBegin(t) PROVE OpensConnection'
  <2>1. /\ UNCHANGED <<made, wire, sock>>
        /\ DialingKept
    BY <1>2 DEF WriteBegin, callVars, netVars, Return, Goto, ThreadTypes,
       Threads
  <2>2. (current = None /\ Advance) \/ UNCHANGED queueVars
    BY <1>2, <2>1 DEF WriteBegin
  <2>3. CASE current = None /\ Advance
    BY <2>1, <2>3, EarlyAdvanced, OpensInParts
  <2>4. CASE UNCHANGED queueVars
    BY <2>1, <2>4 DEF queueVars, OpensConnection
  <2>. QED
    BY <2>2, <2>3, <2>4
<1>3. ASSUME NEW t \in Threads, WritePart(t) PROVE OpensConnection'
  <2>1. /\ made' = made /\ current # None /\ sock = "open"
        /\ wire'.first = IF wire.first = None THEN current ELSE wire.first
        /\ DialingKept
    BY <1>3 DEF WritePart, callVars, Goto, ThreadTypes, Threads
  <2>2. wire'.first # None
    BY <2>1
  <2>3. at["loop"] \in {"dial", "connect"} => Early'
    <3>1. CASE Advance
      BY <2>1, <3>1, EarlyAdvanced, OpensInParts
    <3>2. CASE ~ Advance
      BY <1>3, <3>2, OpensInParts DEF WritePart, Early
    <3>. QED
      BY <3>1, <3>2
  <2>4. wire.first # None => wire # Unused
    BY DEF Unused
  <2>5. Opens(wire'.first)
    <3>1. CASE wire.first # None
      BY <2>1, <2>4, <3>1 DEF OpensConnection, Opens
    <3>2. CASE wire.first = None /\ at["loop"] = "connect"
      BY <2>1, <3>2 DEF OpensConnection, Opens
    <3>3. CASE wire.first = None /\ at["loop"] # "connect"
      BY <2>1, <3>3 DEF OpensConnection, Opens
    <3>. QED
      BY <3>1, <3>2, <3>3
  <2>. QED
    BY <2>1, <2>2, <2>3, <2>5, OpensInParts DEF Opens
<1>4. ASSUME NEW t \in Threads, WriteAgain(t) PROVE OpensConnection'
  <2>1. /\ UNCHANGED <<wire, out, current>> /\ (sock' = "open" => sock = "open")
        /\ DialingKept
    BY <1>4 DEF WriteAgain, callVars, queueVars, netVars, Goto, Return,
       ThreadTypes, Threads
  <2>. QED
    BY <2>1 DEF OpensConnection
<1>5. ASSUME NEW t \in Threads, WriteFails(t) PROVE OpensConnection'
  <2>1. /\ UNCHANGED <<wire, out, current>> /\ (sock' = "open" => sock = "open")
        /\ DialingKept
    BY <1>5 DEF WriteFails, callVars, queueVars, netVars, Goto, Return,
       ThreadTypes, Threads
  <2>. QED
    BY <2>1 DEF OpensConnection
<1>6. ASSUME NEW t \in Threads, WriteDone(t) PROVE OpensConnection'
  <2>1. /\ UNCHANGED <<wire, out, current>> /\ (sock' = "open" => sock = "open")
        /\ DialingKept
    BY <1>6 DEF WriteDone, callVars, queueVars, netVars, Goto, Return,
       ThreadTypes, Threads
  <2>. QED
    BY <2>1 DEF OpensConnection
<1>7. ASSUME NEW t \in Threads, CallbackBegin(t) PROVE OpensConnection'
  <2>1. /\ UNCHANGED <<wire, out, current>> /\ (sock' = "open" => sock = "open")
        /\ DialingKept
    BY <1>7 DEF CallbackBegin, callVars, queueVars, netVars, Goto, Return,
       ThreadTypes, Threads
  <2>. QED
    BY <2>1 DEF OpensConnection
<1>8. ASSUME NEW t \in Threads, CallbackSends(t) PROVE OpensConnection'
  <2>1. UNCHANGED <<wire, sock, at>> /\ made < MaxPackets
    BY <1>8, RoomToSend DEF CallbackSends, netVars
  <2>2. PICK k \in Kinds \ {"CONNECT"} : Queue(k)
    BY <1>8 DEF CallbackSends, Kinds
  <2>3. at["loop"] \in {"dial", "connect"} => Early'
    BY <2>1, <2>2, EarlyQueued, OpensInParts
  <2>4. FirstOpens => FirstOpens'
    BY <2>1, <2>2, FirstQueued
  <2>. QED
    BY <2>1, <2>3, <2>4, OpensInParts
<1>9. ASSUME NEW t \in Threads, CallbackPublishes(t) PROVE OpensConnection'
  <2>1. /\ UNCHANGED <<wire, out, current>> /\ (sock' = "open" => sock = "open")
        /\ DialingKept
    BY <1>9 DEF CallbackPublishes, callVars, queueVars, netVars, Goto, Return,
       ThreadTypes, Threads
  <2>. QED
    BY <2>1 DEF OpensConnection
<1>10. ASSUME NEW t \in Threads, CallbackStores(t) PROVE OpensConnection'
  <2>1. /\ UNCHANGED <<wire, sock>> /\ made < MaxPackets
        /\ DialingKept
    BY <1>10, RoomToSend DEF CallbackStores, Sending, netVars, Goto,
       ThreadTypes, Threads
  <2>2. CASE Queue("PUBLISH")
    <3>1. at["loop"] \in {"dial", "connect"} => Early'
      BY <2>1, <2>2, EarlyQueued, OpensInParts DEF Kinds
    <3>2. FirstOpens => FirstOpens'
      BY <2>1, <2>2, FirstQueued DEF Kinds
    <3>. QED
      BY <2>1, <3>1, <3>2, OpensInParts
  <2>3. CASE UNCHANGED <<made, queueVars>>
    BY <2>1, <2>3 DEF queueVars, OpensConnection
  <2>. QED
    BY <1>10, <2>2, <2>3 DEF CallbackStores
<1>11. ASSUME NEW t \in Threads, CallbackEnd(t) PROVE OpensConnection'
  <2>1. /\ UNCHANGED <<made, wire, sock>>
        /\ DialingKept
    BY <1>11 DEF CallbackEnd, callVars, netVars, Goto, Return, ThreadTypes,
       Threads
  <2>2. CASE calling[t] = "on_publish"
    <3>1. Advance /\ pos = 2
      BY <1>11, <2>2 DEF CallbackEnd, WritePlaces, Calling
    <3>2. sock = "open" => wire.first # None
      BY <3>1 DEF WireBehind
    <3>. QED
      BY <2>1, <3>1, <3>2, EarlyAdvanced, OpensInParts
  <2>3. CASE calling[t] # "on_publish"
    <3>1. UNCHANGED queueVars
      BY <1>11, <2>3 DEF CallbackEnd
    <3>. QED
      BY <2>1, <3>1 DEF queueVars, OpensConnection
  <2>. QED
    BY <2>2, <2>3
<1>12. CASE AppCall
  <2>1. /\ UNCHANGED <<wire, out, current>> /\ (sock' = "open" => sock = "open")
        /\ DialingKept
    BY <1>12 DEF AppCall, callVars, queueVars, netVars, Goto, Return,
       ThreadTypes, Threads
  <2>. QED
    BY <2>1 DEF OpensConnection
<1>13. CASE Drain
  <2>1. UNCHANGED <<wire, sock>> /\ sock # "open" /\ out' = <<>> /\ current' = None
    BY <1>13 DEF Drain, callVars, netVars, WritePlaces
  <2>2. \A i \in DOMAIN <<>> : FALSE
    OBVIOUS
  <2>. QED
    BY <2>1, <2>2 DEF OpensConnection
<1>14. CASE Dial
  <2>1. UNCHANGED <<out, current>> /\ at["loop"] = "dial"
    BY <1>14 DEF Dial, queueVars
  <2>2. CASE wire' = Unused /\ Goto("loop", "connect")
    <3>1. at'["loop"] = "connect"
      BY <2>2 DEF Goto, ThreadTypes, Threads
    <3>. QED
      BY <2>1, <2>2, <3>1 DEF OpensConnection
  <2>3. CASE UNCHANGED <<sock, wire>> /\ Goto("loop", "drain")
    <3>1. at'["loop"] = "drain" /\ sock # "open"
      BY <2>1, <2>3 DEF Goto, ThreadTypes, Threads, WritePlaces
    <3>. QED
      BY <2>1, <2>3, <3>1 DEF OpensConnection
  <2>. QED
    BY <1>14, <2>2, <2>3 DEF Dial
<1>15. CASE LoopTop
  <2>1. /\ UNCHANGED <<wire, out, current>> /\ (sock' = "open" => sock = "open")
        /\ DialingKept
    BY <1>15 DEF LoopTop, callVars, queueVars, netVars, Goto, Return,
       ThreadTypes, Threads
  <2>. QED
    BY <2>1 DEF OpensConnection
<1>16. CASE Ack
  <2>1. /\ UNCHANGED <<wire, out, current>> /\ (sock' = "open" => sock = "open")
        /\ DialingKept
    BY <1>16 DEF Ack, callVars, queueVars, netVars, Goto, Return, ThreadTypes,
       Threads
  <2>. QED
    BY <2>1 DEF OpensConnection
<1>17. CASE LoopWrite
  <2>1. /\ UNCHANGED <<wire, out, current>> /\ (sock' = "open" => sock = "open")
        /\ DialingKept
    BY <1>17 DEF LoopWrite, callVars, queueVars, netVars, Goto, Return,
       ThreadTypes, Threads
  <2>. QED
    BY <2>1 DEF OpensConnection
<1>18. CASE Close
  <2>1. /\ UNCHANGED <<wire, out, current>> /\ (sock' = "open" => sock = "open")
        /\ DialingKept
    BY <1>18 DEF Close, callVars, queueVars, netVars, Goto, Return,
       ThreadTypes, Threads
  <2>. QED
    BY <2>1 DEF OpensConnection
<1>19. CASE LinkFails
  <2>1. /\ UNCHANGED <<wire, out, current>> /\ (sock' = "open" => sock = "open")
        /\ DialingKept
    BY <1>19 DEF LinkFails, callVars, queueVars, netVars, Goto, Return,
       ThreadTypes, Threads
  <2>. QED
    BY <2>1 DEF OpensConnection
<1>20. CASE UNCHANGED vars
  BY <1>20 DEF vars, callVars, queueVars, netVars, OpensConnection
<1>. QED
  BY <1>1, <1>2, <1>3, <1>4, <1>5, <1>6, <1>7, <1>8, <1>9, <1>10, <1>11,
     <1>12, <1>13, <1>14, <1>15, <1>16, <1>17, <1>18, <1>19, <1>20 DEF Next,
     Sends, Loop

-----------------------------------------------------------------------------
\* The queue starts empty, the socket closed, every mutex free.
LEMMA InitHolds == Init => IInv
<1>. SUFFICES ASSUME Init PROVE IInv
  OBVIOUS
<1>. USE PacketBounds DEF Init
<1>1. ThreadTypes
  <2>1. /\ in_callback \in BOOLEAN /\ want \in BOOLEAN
        /\ connecting \in BOOLEAN /\ threaded \in BOOLEAN
    BY Zenon
  <2>. QED
    BY <2>1 DEF ThreadTypes, Threads, Places, Mutexes, Callbacks
<1>2. RoomKept
  BY DEF RoomKept, Reserved, Sending, Threads
<1>3. LocksHeld
  BY DEF LocksHeld, InCallback, Calling, Threads, Mutexes, Callbacks
<1>. /\ \A i \in DOMAIN out : FALSE
     /\ out \in Seq(Packet)
  OBVIOUS
<1>4. QueueOrdered
  BY DEF QueueOrdered
<1>5. WritePlaces
  BY DEF WritePlaces, Calling, Threads
<1>6. WireBehind
  <2>1. wire \in [first : Packet \cup {None}, last : Nat, part : 1 .. 2]
    BY DEF Unused
  <2>2. wire.first = None /\ wire.last = 0
    BY DEF Unused
  <2>. QED
    BY <2>1, <2>2 DEF WireBehind
<1>7. OpensConnection
  BY DEF OpensConnection, ConnectFirst, Threads
<1>. QED
  BY <1>1, <1>2, <1>3, <1>4, <1>5, <1>6, <1>7 DEF IInv

\* Each step of either thread keeps the invariant.
LEMMA Inductive == IInv /\ [Next]_vars => IInv'
BY ThreadTypesStep, LocksStep, RoomStep, QueueStep, PlacesStep, WireStep,
   OpensStep DEF IInv

\* The inductive invariant of the packet queue.
THEOREM Invariance == Spec => []IInv
BY InitHolds, Inductive, PTL DEF Spec

\* Types; and out_packet_last is the last packet of a queue that is not empty,
\* whatever the drain of a reconnect left in it.
THEOREM PacketTypes == Spec => []PacketTypeOK
<1>1. ASSUME IInv PROVE PacketTypeOK
  <2>. USE <1>1 DEF IInv
  <2>1. made \in 0 .. MaxPackets
    <3>1. Reserved(at["app"]) \in Nat /\ Reserved(at["loop"]) \in Nat
      BY DEF Reserved
    <3>. QED
      BY <3>1, PacketBounds DEF ThreadTypes, RoomKept
  <2>2. in_callback = \E t \in Threads : at[t] \in {"callback", "callback_message"}
    <3>1. in_callback \in BOOLEAN
      BY DEF ThreadTypes
    <3>2. in_callback <=> \E t \in Threads : at[t] \in {"callback", "callback_message"}
      BY DEF LocksHeld, InCallback
    <3>. QED
      BY <3>1, <3>2, Zenon
  <2>. QED
    BY <2>1, <2>2 DEF PacketTypeOK, ThreadTypes, QueueOrdered
<1>. QED
  BY <1>1, Invariance, PTL

\* A connection begins with CONNECT, unless another thread queued a packet
\* between the drain of the reconnect and the CONNECT.
THEOREM OpenedByConnect == Spec => []ConnectFirst
<1>1. IInv => ConnectFirst
  BY DEF IInv, OpensConnection
<1>. QED
  BY <1>1, Invariance, PTL

\* The threads do not wait for each other, nor for themselves, unless a callback
\* run by the writing of a packet publishes with QoS 1 or 2.
THEOREM NoneWaits == Spec => []NoDeadlock
<1>1. ASSUME IInv PROVE NoDeadlock
  <2>. USE <1>1 DEF IInv
  <2>1. SUFFICES ASSUME NEW t \in Threads, NEW u \in Threads,
                        WaitsFor(t, u), WaitsFor(u, t)
                 PROVE  \E w \in Threads : /\ at[w] = "callback_message"
                                           /\ owner["current_out_packet"] = w
    BY DEF NoDeadlock, Deadlocked
  <2>2. PICK m \in Wanted(t) : owner[m] = u
    BY <2>1 DEF WaitsFor
  <2>3. PICK n \in Wanted(u) : owner[n] = t
    BY <2>1 DEF WaitsFor
  <2>. QED
    BY <2>2, <2>3 DEF Wanted, ThreadTypes, LocksHeld, InCallback, Calling,
       Threads, Mutexes, Callbacks, Places
<1>. QED
  BY <1>1, Invariance, PTL

\* A step that writes continues the packet under way or begins a later one.
LEMMA FramedStep ==
    ASSUME IInv, [Next]_vars, wire' # wire, wire' # Unused
    PROVE  \/ wire.part = 1 /\ wire' = [wire EXCEPT !.part = 2]
           \/ wire.part = 2 /\ wire'.part = 1 /\ wire'.last > wire.last
<1>1. \/ \E t \in Threads : WritePart(t)
      \/ Dial /\ wire' = Unused
  BY DEF Next, Sends, Loop, SendPacket, WriteBegin, WriteAgain, WriteFails,
     WriteDone, CallbackBegin, CallbackSends, CallbackPublishes, CallbackStores,
     CallbackEnd, AppCall, Drain, Dial, LoopTop, Ack, LoopWrite, Close,
     LinkFails, vars, netVars
<1>2. PICK t \in Threads : WritePart(t)
  BY <1>1
<1>3. /\ current # None /\ sock = "open" /\ pos \in {0, 1}
      /\ wire' = [first |-> IF wire.first = None THEN current ELSE wire.first,
                  last |-> current.no, part |-> pos + 1]
  BY <1>2 DEF WritePart
<1>4. /\ wire \in [first : Packet \cup {None}, last : Nat, part : 1 .. 2]
      /\ pos = 0 => wire.part = 2 /\ wire.last < current.no
      /\ pos = 1 => wire.first # None /\ wire.part = 1 /\ wire.last = current.no
  BY <1>3 DEF IInv, WireBehind
<1>5. current.no \in Nat
  BY <1>3, Numbers DEF IInv
<1>6. CASE pos = 0
  BY <1>3, <1>4, <1>5, <1>6
<1>7. CASE pos = 1
  BY <1>3, <1>4, <1>7
<1>. QED
  BY <1>3, <1>6, <1>7

\* Whole packets, each once, in the order of queueing, on every connection.
THEOREM WholePackets == Spec => Framed
<1>1. IInv /\ [Next]_vars =>
          [wire' # wire /\ wire' # Unused =>
              \/ wire.part = 1 /\ wire' = [wire EXCEPT !.part = 2]
              \/ wire.part = 2 /\ wire'.part = 1 /\ wire'.last > wire.last]_vars
  BY FramedStep
<1>. QED
  BY <1>1, Invariance, PTL DEF Spec, Framed

=============================================================================
