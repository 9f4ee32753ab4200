------------------------------ MODULE AppProofs ------------------------------
(***************************************************************************)
(* Theorems about the two parts of the app that have no state in common:   *)
(* Posting, for every content, every file and every number of calls, and   *)
(* Topics, for strings of every length over every alphabet.                *)
(***************************************************************************)
EXTENDS Posting, Topics, FiniteSetTheorems, SequenceTheorems, TLAPS

USE PostingAssumption

\* What a message is made of.
Messages == [mode : Modes, chat : ChatModes, to : Users \cup {NoUser},
             text : Seq(Bytes \cup {NUL})]
Calls == [pc : {"idle", "length", "content", "publish"}, asked : Messages, len : Int,
          payload : Messages, cut : BOOLEAN, changed : BOOLEAN]
Sendings == [call : Nat, asked : Messages, payload : Messages, cut : BOOLEAN,
             changed : BOOLEAN]
Hearings == [told : BOOLEAN, why : {"", "exception", "mode", "file"}, message : Messages]

PostingTypes ==
    /\ file \in Files
    /\ call \in Calls
    /\ calls \in Nat
    /\ refused \subseteq Nat
    /\ sent \in Seq(Sendings)
    /\ heard \in Seq(Hearings)
    /\ Len(heard) <= Len(sent)
    /\ refs \in Nat
    /\ pending \in BOOLEAN
    /\ crashed \in {"none", "sender", "receiver"}

\* A payload is what was asked for: a text ends with a NUL, a file is whole
\* unless it was changed during the call, and only then the payload can be cut.
AsAsked(m) ==
    /\ m.asked.mode \in PublishedModes
    /\ m.payload.mode = m.asked.mode /\ m.payload.chat = m.asked.chat
    /\ m.payload.to = m.asked.to
    /\ m.asked.mode = "text" => m.payload.text = Append(m.asked.text, NUL)
    /\ m.asked.mode = "voice" /\ ~ m.changed => m.payload.text = m.asked.text
    /\ m.asked.mode \in Commands => m.payload.text = <<>> /\ m.asked.text = <<>>
    /\ m.cut => m.asked.mode = "voice" /\ m.changed

\* Where the call is, what it has found out about the file still holds unless
\* the file was changed during the call.
OnTheWay ==
    call.pc # "idle" =>
        /\ call.asked.chat # 3 => call.asked.to = NoUser
        /\ call.asked.mode \in Commands => call.asked.text = <<>>
        /\ call.pc # "publish" /\ call.asked.mode = "voice" /\ ~ call.changed =>
              call.asked.text = file.bytes /\ file.there
        /\ call.pc = "content" =>
              /\ call.asked.mode \in PublishedModes
              /\ call.asked.mode = "text" => call.len = Len(call.asked.text) + 1
              /\ call.asked.mode \in Commands => call.len = 0
              /\ call.asked.mode = "voice" /\ ~ call.changed => call.len = Len(call.asked.text)
        /\ call.pc = "publish" => AsAsked(call)

\* Calls are numbered; the present one has neither sent nor been refused.
Numbered ==
    \A n \in refused \cup {sent[i].call : i \in DOMAIN sent} :
        n <= calls /\ (call.pc # "idle" => n # calls)

SentAsAsked == \A i \in DOMAIN sent : AsAsked(sent[i])

\* What is left on the loop thread, by what was heard.
RefsCounted == refs = VoicesHeard + Dropped

\* The inductive invariant.
PostingInv ==
    /\ PostingTypes /\ OnTheWay /\ Numbered /\ SentAsAsked /\ RefsCounted
    /\ HeardAsSent /\ CrashExplained

-----------------------------------------------------------------------------
(* Sequences.                                                              *)

\* The entries of a sequence with one more at its end.
LEMMA AppendEntries ==
    ASSUME NEW S, NEW s \in Seq(S), NEW x \in S
    PROVE  /\ Append(s, x) \in Seq(S)
           /\ Len(Append(s, x)) = Len(s) + 1
           /\ \A i \in DOMAIN s : i \in DOMAIN Append(s, x) /\ Append(s, x)[i] = s[i]
           /\ Append(s, x)[Len(s) + 1] = x
           /\ \A i \in DOMAIN Append(s, x) : i \in DOMAIN s \/ i = Len(s) + 1
BY AppendProperties

\* The beginning of a sequence is a prefix of it, and itself.
LEMMA Beginnings ==
    ASSUME NEW S, NEW s \in Seq(S), NEW n \in 0 .. Len(s)
    PROVE  /\ SubSeq(s, 1, n) \in Seq(S)
           /\ IsPrefix(SubSeq(s, 1, n), s)
<1>. DEFINE t == SubSeq(s, 1, n)
<1>1. /\ t \in Seq(S) /\ Len(t) = n
      /\ \A i \in 1 .. n : t[i] = s[i]
  BY SubSeqProperties
<1>. HIDE DEF t
<1>2. /\ SubSeq(t, 1, n) \in Seq(S) /\ Len(SubSeq(t, 1, n)) = n
      /\ \A i \in 1 .. n : SubSeq(t, 1, n)[i] = t[i]
  BY <1>1, SubSeqProperties
<1>3. SubSeq(t, 1, n) = t
  BY <1>1, <1>2, SeqEqual
<1>. QED
  BY <1>1, <1>3 DEF t, IsPrefix

\* Front takes back what Append added.
LEMMA FrontOfAppend ==
    ASSUME NEW S, NEW s \in Seq(S), NEW x \in S
    PROVE  Front(Append(s, x)) = s
<1>1. /\ Append(s, x) \in Seq(S)
      /\ Len(Append(s, x)) = Len(s) + 1
      /\ \A i \in 1 .. Len(s) : Append(s, x)[i] = s[i]
  BY AppendProperties
<1>. DEFINE a == Append(s, x)
            t == SubSeq(a, 1, Len(s))
<1>. HIDE DEF a
<1>2. /\ t \in Seq(S) /\ Len(t) = Len(s)
      /\ \A i \in 1 .. Len(s) : t[i] = a[i]
  BY <1>1, SubSeqProperties DEF a
<1>. HIDE DEF t
<1>3. t = s
  BY <1>1, <1>2, SeqEqual DEF a
<1>4. Front(a) = t
  BY <1>1 DEF Front, t, a
<1>. QED
  BY <1>3, <1>4 DEF a

\* The counts of what was heard, once one more has come.
LEMMA HeardCounts ==
    ASSUME heard \in Seq(Hearings), NEW what \in Hearings, heard' = Append(heard, what)
    PROVE  /\ VoicesHeard \in Nat /\ Dropped \in Nat
           /\ VoicesHeard' = VoicesHeard
                                 + (IF what.told /\ what.message.mode = "voice" THEN 1 ELSE 0)
           /\ Dropped' = Dropped + (IF what.why = "exception" THEN 1 ELSE 0)
<1>. DEFINE n == Len(heard)
            V == {i \in DOMAIN heard : heard[i].told /\ heard[i].message.mode = "voice"}
            W == {i \in DOMAIN heard' : heard'[i].told /\ heard'[i].message.mode = "voice"}
            D == {i \in DOMAIN heard : heard[i].why = "exception"}
            E == {i \in DOMAIN heard' : heard'[i].why = "exception"}
<1>1. /\ n \in Nat /\ DOMAIN heard = 1 .. n /\ DOMAIN heard' = 1 .. n + 1
      /\ n + 1 \notin 1 .. n /\ 1 .. n + 1 = (1 .. n) \cup {n + 1}
      /\ \A i \in 1 .. n : heard'[i] = heard[i]
      /\ heard'[n + 1] = what
  BY AppendProperties
<1>2. /\ V \in SUBSET (1 .. n) /\ D \in SUBSET (1 .. n)
      /\ n + 1 \notin V /\ n + 1 \notin D
  BY <1>1
<1>3. /\ W = IF what.told /\ what.message.mode = "voice" THEN V \cup {n + 1} ELSE V
      /\ E = IF what.why = "exception" THEN D \cup {n + 1} ELSE D
  BY <1>1
<1>4. VoicesHeard = Cardinality(V) /\ Dropped = Cardinality(D)
  BY DEF VoicesHeard, Dropped
<1>5. VoicesHeard' = Cardinality(W) /\ Dropped' = Cardinality(E)
  BY DEF VoicesHeard, Dropped
<1>. HIDE DEF V, W, D, E, n
<1>6. IsFiniteSet(1 .. n)
  BY <1>1, FS_Interval
<1>7. IsFiniteSet(V) /\ IsFiniteSet(D)
  BY ONLY <1>2, <1>6, FS_Subset
<1>8. Cardinality(V) \in Nat /\ Cardinality(D) \in Nat
  BY ONLY <1>7, FS_CardinalityType
<1>9. /\ Cardinality(V \cup {n + 1}) = Cardinality(V) + 1
      /\ Cardinality(D \cup {n + 1}) = Cardinality(D) + 1
  BY ONLY <1>2, <1>7, FS_AddElement
<1>. QED
  BY ONLY <1>3, <1>4, <1>5, <1>8, <1>9

-----------------------------------------------------------------------------
(* The sender.                                                             *)

\* Between two calls.
LEMMA IdleCall == Idle \in Calls /\ Idle.pc = "idle" /\ Nothing \in Messages
BY DEF Idle, Nothing, Calls, Messages, Modes, Commands, ChatModes

\* The initial state satisfies the invariant.
LEMMA InitHolds == PostingInit => PostingInv
<1>. SUFFICES ASSUME PostingInit  PROVE PostingInv
  OBVIOUS
<1>. USE IdleCall DEF PostingInit
<1>1. PostingTypes
  <2>1. sent \in Seq(Sendings) /\ heard \in Seq(Hearings) /\ Len(heard) <= Len(sent)
    OBVIOUS
  <2>2. file \in Files /\ call \in Calls /\ calls \in Nat /\ refused \subseteq Nat
    OBVIOUS
  <2>3. refs \in Nat /\ pending \in BOOLEAN /\ crashed \in {"none", "sender", "receiver"}
    OBVIOUS
  <2>. QED  BY <2>1, <2>2, <2>3 DEF PostingTypes
<1>2. VoicesHeard = 0 /\ Dropped = 0
  BY FS_EmptySet DEF VoicesHeard, Dropped
<1>3. OnTheWay /\ Numbered /\ SentAsAsked /\ RefsCounted
  BY <1>2 DEF OnTheWay, Numbered, SentAsAsked, RefsCounted
<1>4. HeardAsSent /\ CrashExplained
  BY DEF HeardAsSent, CrashExplained
<1>. QED  BY <1>1, <1>3, <1>4 DEF PostingInv

\* What Texts are, as sequences.
LEMMA TextsAreSequences ==
    /\ Texts \subseteq Seq(Bytes) /\ Texts \subseteq Seq(Bytes \cup {NUL})
    /\ <<>> \in Texts
<1>1. ASSUME NEW t \in Texts
      PROVE  t \in Seq(Bytes) /\ t \in Seq(Bytes \cup {NUL})
  <2>1. PICK n \in 0 .. MaxLen : t \in [1 .. n -> Bytes]
    BY DEF Texts
  <2>. QED  BY <2>1
<1>2. <<>> \in [1 .. 0 -> Bytes] /\ 0 \in 0 .. MaxLen
  OBVIOUS
<1>. QED  BY <1>1, <1>2 DEF Texts

\* The recorder changes the file.
LEMMA ChangeFileStep ==
    ASSUME PostingInv, ChangeFile
    PROVE  PostingInv'
<1>. USE DEF PostingInv
<1>1. /\ crashed = "none"
      /\ file' \in Files
      /\ call' = [call EXCEPT !.changed = call.pc # "idle"]
      /\ UNCHANGED <<calls, refused, sent, heard, refs, pending, crashed>>
  BY DEF ChangeFile, receiverVars
<1>2. call \in Calls /\ call' \in Calls
  BY <1>1 DEF PostingTypes, Calls
<1>3. /\ call'.pc = call.pc /\ call'.asked = call.asked /\ call'.len = call.len
      /\ call'.payload = call.payload /\ call'.cut = call.cut
      /\ call.pc # "idle" => call'.changed
  BY <1>1, <1>2 DEF Calls
<1>4. PostingTypes'
  BY <1>1, <1>2 DEF PostingTypes
<1>5. OnTheWay'
  BY <1>3 DEF OnTheWay, AsAsked
<1>6. Numbered' /\ SentAsAsked' /\ RefsCounted'
  BY <1>1, <1>3 DEF Numbered, SentAsAsked, RefsCounted, AsAsked, VoicesHeard,
     Dropped
<1>7. HeardAsSent' /\ CrashExplained'
  BY <1>1 DEF HeardAsSent, CrashExplained
<1>. QED  BY <1>4, <1>5, <1>6, <1>7

\* Java asks for a message to be sent.
LEMMA PubObjectSendMsgStep ==
    ASSUME PostingInv, PubObjectSendMsg
    PROVE  PostingInv'
<1>. USE DEF PostingInv
<1>1. /\ crashed = "none" /\ call.pc = "idle"
      /\ calls' = calls + 1
      /\ UNCHANGED <<file, heard, refs, pending>>
  BY DEF PubObjectSendMsg, receiverVars
<1>2. calls \in Nat /\ calls' \in Nat /\ \A n \in Nat : n <= calls => n <= calls' /\ n # calls'
  BY <1>1 DEF PostingTypes
<1>3. Idle \in Calls /\ Idle.pc = "idle"
  BY IdleCall
<1>4. \A i \in DOMAIN sent : sent[i] \in Sendings /\ sent[i].call \in Nat
  <2>1. \A i \in DOMAIN sent : sent[i] \in Sendings
    BY DEF PostingTypes
  <2>. QED  BY <2>1 DEF Sendings
<1>5. CASE crashed' = "sender" /\ UNCHANGED <<call, refused, sent>>
  <2>1. PostingTypes' /\ OnTheWay'
    BY <1>1, <1>2, <1>5 DEF PostingTypes, OnTheWay
  <2>2. Numbered' /\ SentAsAsked' /\ RefsCounted'
    BY <1>1, <1>2, <1>4, <1>5 DEF Numbered, SentAsAsked, RefsCounted,
       VoicesHeard, Dropped, PostingTypes
  <2>3. HeardAsSent' /\ CrashExplained'
    BY <1>1, <1>5 DEF HeardAsSent, CrashExplained
  <2>. QED  BY <2>1, <2>2, <2>3
<1>6. CASE Refuse(calls') /\ UNCHANGED crashed
  <2>1. refused' = refused \cup {calls'} /\ call' = Idle /\ sent' = sent
    BY <1>6 DEF Refuse
  <2>2. PostingTypes' /\ OnTheWay'
    BY <1>1, <1>2, <1>3, <1>6, <2>1 DEF PostingTypes, OnTheWay
  <2>3. Numbered' /\ SentAsAsked' /\ RefsCounted'
    BY <1>1, <1>2, <1>3, <1>4, <2>1 DEF Numbered, SentAsAsked, RefsCounted,
       VoicesHeard, Dropped, PostingTypes
  <2>4. HeardAsSent'
    BY <1>1, <1>2, <1>4, <2>1 DEF HeardAsSent, Numbered
  <2>5. CrashExplained'
    BY <1>1, <1>6 DEF CrashExplained
  <2>. QED  BY <2>2, <2>3, <2>4, <2>5
<1>7. ASSUME NEW mode \in Modes, NEW chat \in ChatModes, NEW to \in Users, NEW text \in Texts,
             PubSendMsg(InitBasePubConfig(mode, chat, to, text)),
             UNCHANGED crashed
      PROVE  PostingInv'
  <2>. DEFINE asked == InitBasePubConfig(mode, chat, to, text)
  <2>1. CASE ~ SetSendMosqConfig(asked) /\ Refuse(calls')
    BY <1>6, <1>7, <2>1
  <2>2. CASE /\ SetSendMosqConfig(asked)
             /\ call' = [Idle EXCEPT !.pc = "length", !.asked = asked]
             /\ UNCHANGED <<refused, sent>>
    <3>1. file.bytes \in Seq(Bytes \cup {NUL}) /\ text \in Seq(Bytes \cup {NUL})
      <4>1. file.bytes \in Texts \/ file.bytes = <<>>
        BY DEF PostingTypes, Files
      <4>. DEFINE S == Bytes \cup {NUL}
      <4>2. <<>> \in Seq(S) /\ Texts \subseteq Seq(S)
        BY TextsAreSequences
      <4>. HIDE DEF S
      <4>3. file.bytes \in Seq(S)
        BY ONLY <4>1, <4>2
      <4>. QED  BY <4>3, TextsAreSequences DEF S
    <3>2. /\ asked.mode = mode /\ asked.chat = chat
          /\ chat # 3 => asked.to = NoUser
          /\ asked.to \in Users \cup {NoUser}
          /\ mode = "voice" => asked.text = file.bytes /\ file.there
          /\ mode \in Commands => asked.text = <<>>
          /\ asked.text \in Seq(Bytes \cup {NUL})
      <4>1. /\ asked.mode = mode /\ asked.chat = chat
            /\ asked.to = IF chat = 3 THEN to ELSE NoUser
            /\ asked.text = CASE mode = "text" -> text
                               [] mode = "voice" -> file.bytes
                               [] OTHER -> <<>>
        BY DEF InitBasePubConfig
      <4>2. mode \in Commands => mode # "text" /\ mode # "voice"
        BY DEF Commands
      <4>3. mode = "voice" => file.there
        BY <2>2, <4>1 DEF SetSendMosqConfig
      <4>. HIDE DEF asked
      <4>4. CASE mode = "text"
        BY <1>7, <3>1, <4>1, <4>2, <4>4
      <4>5. CASE mode = "voice"
        BY <1>7, <3>1, <4>1, <4>2, <4>3, <4>5
      <4>6. CASE mode # "text" /\ mode # "voice"
        BY <1>7, <4>1, <4>6
      <4>. QED  BY <4>4, <4>5, <4>6
    <3>3. asked \in Messages
      BY <3>2 DEF InitBasePubConfig, Messages
    <3>. HIDE DEF asked
    <3>4. call' \in Calls /\ call'.pc = "length" /\ call'.asked = asked
      BY <1>3, <2>2, <3>3 DEF Calls
    <3>5. PostingTypes'
      BY <1>1, <1>2, <1>7, <2>2, <3>4 DEF PostingTypes
    <3>6. OnTheWay'
      BY <1>1, <3>2, <3>4 DEF OnTheWay
    <3>7. Numbered' /\ SentAsAsked' /\ RefsCounted'
      BY SMTT(40), <1>1, <1>2, <1>4, <2>2 DEF Numbered, SentAsAsked, RefsCounted,
         VoicesHeard, Dropped, PostingTypes
    <3>8. HeardAsSent' /\ CrashExplained'
      BY <1>1, <1>7, <2>2 DEF HeardAsSent, CrashExplained
    <3>. QED  BY <3>5, <3>6, <3>7, <3>8
  <2>. QED  BY <1>7, <2>1, <2>2 DEF PubSendMsg
<1>. QED
  BY <1>5, <1>6, <1>7 DEF PubObjectSendMsg, Crash

\* A step of the call that neither sends nor refuses leaves the rest as it is.
LEMMA CallStep ==
    ASSUME PostingInv, crashed = "none", call' \in Calls, file' \in Files,
           call.pc # "idle", OnTheWay',
           UNCHANGED <<calls, refused, sent, heard, refs, pending, crashed>>
    PROVE  PostingInv'
<1>. USE DEF PostingInv
<1>1. PostingTypes'
  BY DEF PostingTypes
<1>2. Numbered' /\ SentAsAsked' /\ RefsCounted'
  BY DEF Numbered, SentAsAsked, RefsCounted, VoicesHeard, Dropped
<1>3. HeardAsSent' /\ CrashExplained'
  BY DEF HeardAsSent, CrashExplained
<1>. QED  BY <1>1, <1>2, <1>3

\* The length of the content is looked for.
LEMMA RealPublishMsgStep ==
    ASSUME PostingInv, RealPublishMsg
    PROVE  PostingInv'
<1>. USE DEF PostingInv
<1>1. /\ crashed = "none" /\ call.pc = "length" /\ call \in Calls
      /\ UNCHANGED <<file, calls, refused, sent, heard, refs, pending, crashed>>
  BY DEF RealPublishMsg, receiverVars, PostingTypes
<1>2. CASE call' = Idle
  <2>1. call' \in Calls /\ OnTheWay'
    BY <1>2, IdleCall DEF OnTheWay
  <2>. QED  BY <1>1, <2>1, CallStep DEF PostingTypes
<1>3. CASE /\ call.asked.mode \in PublishedModes
           /\ call' = [call EXCEPT !.pc = "content", !.len = GetFileOrMsgLen]
  <2>1. call.asked \in Messages /\ file \in Files
    BY <1>1 DEF Calls, PostingTypes
  <2>2. Len(call.asked.text) \in Nat /\ Len(file.bytes) \in Nat
    <3>1. file.bytes \in Texts \/ file.bytes = <<>>
      BY <2>1 DEF Files
    <3>. QED  BY <2>1, <3>1, TextsAreSequences DEF Messages
  <2>3. /\ GetFileOrMsgLen \in Int
        /\ call.asked.mode = "text" => GetFileOrMsgLen = Len(call.asked.text) + 1
        /\ call.asked.mode \in Commands => GetFileOrMsgLen = 0
        /\ call.asked.mode = "voice" /\ file.there => GetFileOrMsgLen = Len(file.bytes)
    <3>1. GetFileOrMsgLen =
              CASE call.asked.mode = "voice" -> IF file.there THEN Len(file.bytes) ELSE -1
                [] call.asked.mode = "text" -> Len(call.asked.text) + 1
                [] OTHER -> 0
      BY DEF GetFileOrMsgLen
    <3>2. call.asked.mode \in Commands => call.asked.mode # "text" /\ call.asked.mode # "voice"
      BY DEF Commands
    <3>3. CASE call.asked.mode = "voice"
      BY <2>2, <3>1, <3>2, <3>3
    <3>4. CASE call.asked.mode = "text"
      BY <2>2, <3>1, <3>2, <3>4
    <3>5. CASE call.asked.mode # "voice" /\ call.asked.mode # "text"
      BY <3>1, <3>5
    <3>. QED  BY <3>3, <3>4, <3>5
  <2>. DEFINE n == GetFileOrMsgLen
  <2>. HIDE DEF n
  <2>4. /\ call' \in Calls /\ call'.pc = "content" /\ call'.asked = call.asked
        /\ call'.len = n /\ call'.changed = call.changed
    BY <1>1, <1>3, <2>3 DEF Calls, n
  <2>5. OnTheWay'
    BY <1>1, <1>3, <2>3, <2>4 DEF OnTheWay, n
  <2>. QED  BY <1>1, <2>1, <2>4, <2>5, CallStep
<1>. QED  BY <1>2, <1>3 DEF RealPublishMsg

\* The payload is filled.
LEMMA SetSendInfoStep ==
    ASSUME PostingInv, SetSendInfo
    PROVE  PostingInv'
<1>. USE DEF PostingInv
<1>1. /\ crashed = "none" /\ call.pc = "content" /\ call \in Calls
      /\ UNCHANGED <<calls, refused, sent, heard, refs, pending>>
  BY DEF SetSendInfo, receiverVars, PostingTypes
<1>2. /\ call.asked \in Messages /\ file \in Files /\ call.len \in Int
      /\ call.asked.text \in Seq(Bytes \cup {NUL})
      /\ call.asked.mode \in PublishedModes
  BY <1>1 DEF Calls, Messages, PostingTypes, OnTheWay
<1>3. file.bytes \in Seq(Bytes \cup {NUL})
  <2>. DEFINE S == Bytes \cup {NUL}
  <2>1. file.bytes \in Texts \/ file.bytes = <<>>
    BY <1>2 DEF Files
  <2>2. <<>> \in Seq(S) /\ Texts \subseteq Seq(S)
    BY TextsAreSequences
  <2>. HIDE DEF S
  <2>3. file.bytes \in Seq(S)
    BY ONLY <2>1, <2>2
  <2>. QED  BY <2>3 DEF S
<1>4. call.len < 0 => call.asked.mode = "voice" /\ call.changed
  <2>1. Len(call.asked.text) \in Nat
    BY <1>2
  <2>. QED  BY <1>1, <1>2, <2>1 DEF OnTheWay, PublishedModes
<1>5. CASE crashed' = "sender" /\ UNCHANGED <<call, file>>
  <2>1. PostingTypes' /\ OnTheWay'
    BY <1>1, <1>5 DEF PostingTypes, OnTheWay, AsAsked
  <2>2. Numbered' /\ SentAsAsked' /\ RefsCounted' /\ HeardAsSent'
    BY <1>1, <1>5 DEF Numbered, SentAsAsked, AsAsked, RefsCounted,
       VoicesHeard, Dropped, HeardAsSent
  <2>3. call.asked.mode = "voice" /\ (call.changed \/ ~ file.writable)
    BY <1>1, <1>4, <1>5 DEF SetSendInfo, Filled
  <2>4. CrashExplained'
    BY <1>5, <2>3 DEF CrashExplained
  <2>. QED  BY <2>1, <2>2, <2>4
<1>6. ASSUME NEW body \in Seq(Bytes \cup {NUL}), NEW cut \in BOOLEAN, Filled(body, cut),
             cut => call.asked.mode = "voice" /\ call.changed,
             call.asked.mode = "text" => body = Append(call.asked.text, NUL),
             call.asked.mode = "voice" /\ ~ call.changed => body = call.asked.text,
             call.asked.mode \in Commands => body = call.asked.text,
             file' \in Files, crashed' = crashed
      PROVE  PostingInv'
  <2>. DEFINE payload == [mode |-> SetMessBody.mode, chat |-> SetMessBody.chat,
                          to |-> SetMessBody.to, text |-> body]
  <2>1. payload.mode = call.asked.mode /\ payload.chat = call.asked.chat
        /\ payload.to = call.asked.to /\ payload.text = body
    BY <1>1 DEF SetMessBody, OnTheWay
  <2>2. payload \in Messages
    BY <1>2, <1>6, <2>1 DEF Messages
  <2>3. call' = [call EXCEPT !.pc = "publish", !.cut = cut, !.payload = payload]
    BY <1>6 DEF Filled
  <2>. HIDE DEF payload
  <2>4. /\ call' \in Calls /\ call'.pc = "publish" /\ call'.asked = call.asked
        /\ call'.payload = payload /\ call'.cut = cut /\ call'.changed = call.changed
    BY <1>1, <1>6, <2>2, <2>3 DEF Calls
  <2>5. AsAsked(call')
    <3>1. call.asked.mode \in Commands => call.asked.text = <<>>
      BY <1>1 DEF OnTheWay
    <3>. QED  BY <1>2, <1>6, <2>1, <2>4, <3>1 DEF AsAsked
  <2>6. OnTheWay'
    BY <1>1, <2>4, <2>5 DEF OnTheWay, AsAsked
  <2>. QED  BY <1>1, <1>6, <2>4, <2>6, CallStep
<1>7. CASE call.len <= 0 /\ Filled(<<>>, call.len < 0) /\ UNCHANGED <<crashed, file>>
  <2>1. call.asked.mode # "text"
    <3>1. Len(call.asked.text) \in Nat
      BY <1>2
    <3>. QED  BY <1>1, <1>7, <3>1 DEF OnTheWay
  <2>2. call.asked.mode = "voice" /\ ~ call.changed => <<>> = call.asked.text
    <3>1. call.asked.mode = "voice" /\ ~ call.changed => Len(call.asked.text) <= 0
      BY <1>1, <1>7 DEF OnTheWay
    <3>. QED  BY <1>2, <3>1
  <2>3. call.asked.mode \in Commands => <<>> = call.asked.text
    BY <1>1 DEF OnTheWay
  <2>4. <<>> \in Seq(Bytes \cup {NUL}) /\ (call.len < 0) \in BOOLEAN
    OBVIOUS
  <2>. QED  BY <1>2, <1>4, <1>6, <1>7, <2>1, <2>2, <2>3, <2>4
<1>8. CASE call.len > 0 /\ Filled(GetFileOrMsg, FALSE) /\ crashed' = crashed
           /\ file' = IF call.asked.mode = "voice" THEN [file EXCEPT !.there = TRUE] ELSE file
  <2>1. file' \in Files
    BY <1>2, <1>8, TextsAreSequences DEF Files
  <2>2. call.asked.mode \notin Commands
    BY <1>1, <1>8 DEF OnTheWay
  <2>3. CASE call.asked.mode = "text"
    <3>1. GetFileOrMsg = Append(call.asked.text, NUL)
      BY <2>3 DEF GetFileOrMsg
    <3>2. Append(call.asked.text, NUL) \in Seq(Bytes \cup {NUL})
      BY <1>2
    <3>. QED  BY <1>6, <1>8, <2>1, <2>2, <2>3, <3>1, <3>2
  <2>4. CASE call.asked.mode = "voice"
    <3>1. GetFileOrMsg = [i \in 1 .. call.len |->
                             IF i <= Len(file.bytes) THEN file.bytes[i] ELSE NUL]
      BY <2>4 DEF GetFileOrMsg
    <3>2. \A i \in 1 .. call.len :
             (IF i <= Len(file.bytes) THEN file.bytes[i] ELSE NUL) \in Bytes \cup {NUL}
      BY <1>3
    <3>3. GetFileOrMsg \in Seq(Bytes \cup {NUL}) /\ Len(GetFileOrMsg) = call.len
      BY SMTT(40), <1>2, <1>8, <3>1, <3>2
    <3>4. ~ call.changed => GetFileOrMsg = call.asked.text
      <4>. SUFFICES ASSUME ~ call.changed  PROVE GetFileOrMsg = call.asked.text
        OBVIOUS
      <4>1. call.asked.text = file.bytes /\ call.len = Len(call.asked.text)
        BY <1>1, <2>4 DEF OnTheWay
      <4>2. \A i \in 1 .. call.len : GetFileOrMsg[i] = call.asked.text[i]
        BY <1>2, <3>1, <4>1
      <4>. QED  BY <1>2, <3>3, <4>1, <4>2, SeqEqual
    <3>. QED  BY <1>6, <1>8, <2>1, <2>2, <2>4, <3>3, <3>4
  <2>. QED  BY <1>2, <2>2, <2>3, <2>4 DEF PublishedModes
<1>. QED  BY <1>5, <1>7, <1>8 DEF SetSendInfo, Crash

\* The payload is queued, or refused.
LEMMA PublishStep ==
    ASSUME PostingInv, Publish
    PROVE  PostingInv'
<1>. USE DEF PostingInv
<1>1. /\ crashed = "none" /\ call.pc = "publish" /\ call \in Calls /\ call' = Idle
      /\ UNCHANGED <<file, calls, heard, refs, pending, crashed>>
  BY DEF Publish, Refuse, receiverVars, PostingTypes
<1>2. calls \in Nat /\ refused \subseteq Nat /\ sent \in Seq(Sendings) /\ heard \in Seq(Hearings)
  BY DEF PostingTypes
<1>3. /\ \A n \in refused : n <= calls /\ n # calls
      /\ \A i \in DOMAIN sent : sent[i].call <= calls /\ sent[i].call # calls
                                /\ sent[i].call \in Nat
  <2>1. \A i \in DOMAIN sent : sent[i] \in Sendings
    BY <1>2
  <2>. QED  BY <1>1, <2>1 DEF Numbered, Sendings
<1>4. OnTheWay'
  BY <1>1, IdleCall DEF OnTheWay
<1>5. CrashExplained'
  BY <1>1 DEF CrashExplained
<1>6. CASE Refuse(calls)
  <2>1. refused' = refused \cup {calls} /\ sent' = sent
    BY <1>6 DEF Refuse
  <2>2. PostingTypes'
    BY <1>1, <1>2, <2>1, IdleCall DEF PostingTypes
  <2>3. Numbered' /\ SentAsAsked' /\ RefsCounted'
    BY <1>1, <1>2, <1>3, <2>1, IdleCall DEF Numbered, SentAsAsked,
       RefsCounted, VoicesHeard, Dropped
  <2>4. HeardAsSent'
    BY <1>1, <1>3, <2>1 DEF HeardAsSent
  <2>. QED  BY <1>4, <1>5, <2>2, <2>3, <2>4
<1>7. CASE sent' = Append(sent, [call |-> calls, asked |-> call.asked, payload |-> call.payload,
                                 cut |-> call.cut, changed |-> call.changed])
           /\ refused' = refused
  <2>. DEFINE m == [call |-> calls, asked |-> call.asked, payload |-> call.payload,
                    cut |-> call.cut, changed |-> call.changed]
  <2>1. m \in Sendings
    BY <1>1, <1>2 DEF Calls, Sendings
  <2>2. AsAsked(m) /\ m.call = calls
    <3>1. AsAsked(call)
      BY <1>1 DEF OnTheWay
    <3>. QED  BY <3>1 DEF AsAsked
  <2>. HIDE DEF m
  <2>3. sent' = Append(sent, m)
    BY <1>7 DEF m
  <2>4. /\ sent' \in Seq(Sendings)
        /\ Len(sent') = Len(sent) + 1 /\ Len(sent) \in Nat
        /\ \A i \in DOMAIN sent : i \in DOMAIN sent' /\ sent'[i] = sent[i] /\ i < Len(sent) + 1
        /\ sent'[Len(sent) + 1] = m
        /\ \A i \in DOMAIN sent' : i \in DOMAIN sent \/ i = Len(sent) + 1
    BY <1>2, <2>1, <2>3, AppendEntries
  <2>5. \A i \in DOMAIN sent' :
           \/ i \in DOMAIN sent /\ sent'[i] = sent[i]
           \/ i = Len(sent) + 1 /\ sent'[i] = m
    BY <2>4
  <2>6. PostingTypes'
    <3>1. Len(heard') <= Len(sent')
      BY <1>1, <1>2, <2>4 DEF PostingTypes
    <3>. QED  BY <1>1, <1>7, <2>4, <3>1, IdleCall DEF PostingTypes
  <2>7. Numbered' /\ SentAsAsked' /\ RefsCounted'
    <3>1. Numbered'
      BY <1>1, <1>2, <1>3, <1>7, <2>2, <2>5, IdleCall DEF Numbered
    <3>2. SentAsAsked'
      <4>1. \A i \in DOMAIN sent' : AsAsked(sent'[i])
        BY <2>2, <2>5 DEF SentAsAsked
      <4>. QED  BY <4>1 DEF SentAsAsked, AsAsked
    <3>. QED  BY <1>1, <3>1, <3>2 DEF RefsCounted, VoicesHeard, Dropped
  <2>8. HeardAsSent'
    <3>1. \A i \in DOMAIN heard : i \in DOMAIN sent
      BY <1>2 DEF PostingTypes
    <3>2. \A i, j \in DOMAIN sent' : i < j => sent'[i].call < sent'[j].call
      <4>. SUFFICES ASSUME NEW i \in DOMAIN sent', NEW j \in DOMAIN sent', i < j
                    PROVE  sent'[i].call < sent'[j].call
        OBVIOUS
      <4>1. CASE j \in DOMAIN sent
        <5>1. i \in DOMAIN sent
          BY <1>2, <2>4, <4>1
        <5>. QED  BY <2>4, <4>1, <5>1 DEF HeardAsSent
      <4>2. CASE j = Len(sent) + 1
        <5>1. i \in DOMAIN sent
          BY <1>2, <2>4, <4>2
        <5>2. sent'[i].call \in Nat /\ sent'[i].call <= calls /\ sent'[i].call # calls
          BY <1>3, <2>4, <5>1
        <5>. QED  BY <1>2, <2>2, <2>4, <4>2, <5>2
      <4>. QED  BY <2>4, <4>1, <4>2
    <3>3. \A i \in DOMAIN sent' : sent'[i].call \notin refused'
      BY <1>3, <1>7, <2>2, <2>5 DEF HeardAsSent
    <3>. QED  BY <1>1, <2>4, <3>1, <3>2, <3>3 DEF HeardAsSent
  <2>. QED  BY <1>4, <1>5, <2>6, <2>7, <2>8
<1>. QED  BY <1>6, <1>7 DEF Publish

-----------------------------------------------------------------------------
(* The receiver.                                                           *)

\* What Java may hear of a message.
Faithful(what, m) ==
    what.told =>
        /\ what.message.mode = m.asked.mode /\ what.message.chat = m.asked.chat
        /\ what.message.to = m.asked.to
        /\ m.asked.mode # "voice" => what.message.text = m.asked.text
        /\ m.asked.mode = "voice" /\ ~ m.changed => IsPrefix(what.message.text, m.asked.text)

\* Something has come of a message, and the references are counted.
LEMMA Reception ==
    ASSUME PostingInv, crashed = "none", Len(heard) < Len(sent),
           NEW what \in Hearings, heard' = Append(heard, what),
           Faithful(what, sent[Len(heard) + 1]),
           refs' = refs + (IF what.told /\ what.message.mode = "voice" THEN 1 ELSE 0)
                        + (IF what.why = "exception" THEN 1 ELSE 0),
           pending' \in BOOLEAN,
           UNCHANGED <<file, call, calls, refused, sent, crashed>>
    PROVE  PostingInv'
<1>. USE DEF PostingInv
<1>1. /\ heard \in Seq(Hearings) /\ sent \in Seq(Sendings) /\ refs \in Nat
      /\ Len(heard) \in Nat /\ Len(sent) \in Nat
  BY DEF PostingTypes
<1>2. /\ heard' \in Seq(Hearings) /\ Len(heard') = Len(heard) + 1
      /\ \A i \in DOMAIN heard' : \/ i \in DOMAIN heard /\ heard'[i] = heard[i]
                                  \/ i = Len(heard) + 1 /\ heard'[i] = what
  BY <1>1, AppendEntries
<1>3. /\ VoicesHeard' = VoicesHeard
                            + (IF what.told /\ what.message.mode = "voice" THEN 1 ELSE 0)
      /\ Dropped' = Dropped + (IF what.why = "exception" THEN 1 ELSE 0)
      /\ VoicesHeard \in Nat /\ Dropped \in Nat
  BY <1>1, HeardCounts
<1>4. refs' \in Nat /\ RefsCounted'
  BY SMTT(40), <1>1, <1>3 DEF RefsCounted
<1>5. PostingTypes'
  BY <1>1, <1>2, <1>4 DEF PostingTypes
<1>6. OnTheWay' /\ Numbered' /\ SentAsAsked' /\ CrashExplained'
  BY DEF OnTheWay, AsAsked, Numbered, SentAsAsked, CrashExplained
<1>7. HeardAsSent'
  <2>1. \A i \in DOMAIN heard' : Faithful(heard'[i], sent[i])
    <3>1. \A i \in DOMAIN heard : Faithful(heard[i], sent[i])
      BY SMTT(40) DEF HeardAsSent, Faithful
    <3>. QED  BY <1>2, <3>1
  <2>2. /\ \A i, j \in DOMAIN sent : i < j => sent[i].call < sent[j].call
        /\ \A i \in DOMAIN sent : sent[i].call \notin refused
    BY DEF HeardAsSent
  <2>. QED  BY <2>1, <2>2 DEF HeardAsSent, Faithful
<1>. QED  BY <1>4, <1>5, <1>6, <1>7

\* The receiver goes down for one of the reasons known.
LEMMA ReceiverDown ==
    ASSUME PostingInv, crashed' = "receiver",
           UNCHANGED <<file, call, calls, refused, sent, heard, refs, pending>>,
           LET m == sent[Len(heard) + 1]
           IN  \/ m.cut /\ m.changed
               \/ m.payload.mode = "text" /\ Len(m.asked.text) >= TextRoom
               \/ pending
               \/ VoicesHeard + Dropped + Made(m.payload) > RefTable
    PROVE  PostingInv'
<1>. USE DEF PostingInv
<1>1. PostingTypes' /\ OnTheWay' /\ Numbered' /\ SentAsAsked' /\ RefsCounted' /\ HeardAsSent'
  BY DEF PostingTypes, OnTheWay, AsAsked, Numbered, SentAsAsked, RefsCounted,
     VoicesHeard, Dropped, HeardAsSent
<1>2. CrashExplained'
  BY DEF CrashExplained, VoicesHeard, Dropped
<1>. QED  BY <1>1, <1>2

\* send_msg_toJava, given the message as it was asked for.
LEMMA SendMsgToJavaStep ==
    ASSUME PostingInv, crashed = "none", Len(heard) < Len(sent),
           NEW m, m = sent[Len(heard) + 1],
           NEW body \in Seq(Bytes \cup {NUL}), SendMsgToJava(m.payload, body),
           m.asked.mode # "voice" => body = m.asked.text,
           m.asked.mode = "voice" /\ ~ m.changed => IsPrefix(body, m.asked.text),
           UNCHANGED <<file, call, calls, refused, sent>>
    PROVE  PostingInv'
<1>. USE DEF PostingInv
<1>1. /\ Len(heard) + 1 \in DOMAIN sent /\ m \in Sendings /\ AsAsked(m)
      /\ m.payload \in Messages /\ refs \in Nat /\ pending \in BOOLEAN
  <2>1. Len(heard) + 1 \in DOMAIN sent
    BY DEF PostingTypes
  <2>2. m \in Sendings
    BY <2>1 DEF PostingTypes
  <2>. QED  BY <2>1, <2>2 DEF Sendings, PostingTypes, SentAsAsked
<1>2. ASSUME NEW why \in {"exception", "mode"}
      PROVE  /\ Lost(why) \in Hearings /\ Faithful(Lost(why), m)
             /\ Lost(why).told = FALSE /\ Lost(why).why = why
  BY IdleCall DEF Lost, Hearings, Faithful
<1>3. CASE pending /\ Came(Lost("exception")) /\ refs' = refs + 1 /\ UNCHANGED <<pending, crashed>>
  <2>1. refs' = refs + 0 + 1
    BY <1>1, <1>3
  <2>. QED  BY <1>1, <1>2, <1>3, <2>1, Reception DEF Came
<1>4. CASE crashed' = "receiver" /\ UNCHANGED <<heard, refs, pending>>
           /\ (pending \/ refs + Made(m.payload) > RefTable)
  BY <1>4, ReceiverDown DEF RefsCounted
<1>5. CASE ~ pending /\ Came(Told(m.payload, body)) /\ refs' = refs + Kept(m.payload)
           /\ pending' \in BOOLEAN /\ UNCHANGED crashed
  <2>. DEFINE what == Told(m.payload, body)
  <2>1. /\ what.told = TRUE /\ what.why = "" /\ what.message = [m.payload EXCEPT !.text = body]
    BY DEF Told
  <2>2. /\ what.message \in Messages /\ what.message.text = body
        /\ what.message.mode = m.payload.mode /\ what.message.chat = m.payload.chat
        /\ what.message.to = m.payload.to
    BY ZenonT(40), <1>1, <2>1 DEF Messages
  <2>3. what \in Hearings
    BY <2>1, <2>2 DEF Told, Hearings
  <2>4. Faithful(what, m)
    BY <1>1, <2>2 DEF Faithful, AsAsked
  <2>5. refs' = refs + (IF what.message.mode = "voice" THEN 1 ELSE 0) + 0
    BY <1>1, <1>5, <2>2 DEF Kept
  <2>. HIDE DEF what
  <2>6. heard' = Append(heard, what)
    BY <1>5 DEF Came, what
  <2>. QED  BY <1>5, <2>1, <2>3, <2>4, <2>5, <2>6, Reception
<1>6. CASE ~ pending /\ Came(Lost("mode")) /\ UNCHANGED <<refs, pending, crashed>>
  <2>1. refs' = refs + 0 + 0
    BY <1>1, <1>6
  <2>. QED  BY <1>1, <1>2, <1>6, <2>1, Reception DEF Came
<1>. QED
  BY <1>3, <1>4, <1>5, <1>6 DEF SendMsgToJava, Crash, receiverVars

\* A message comes at the receiver.
LEMMA MyMessageCallbackStep ==
    ASSUME PostingInv, MyMessageCallback
    PROVE  PostingInv'
<1>. USE DEF PostingInv
<1>. DEFINE m == sent[Len(heard) + 1]
<1>1. /\ crashed = "none" /\ Len(heard) < Len(sent)
      /\ ProcessMessage(m.payload, m.cut)
      /\ UNCHANGED <<file, call, calls, refused, sent>>
  BY DEF MyMessageCallback, senderVars
<1>2. m \in Sendings /\ AsAsked(m)
  <2>1. Len(heard) + 1 \in DOMAIN sent
    BY <1>1 DEF PostingTypes
  <2>2. m \in Sendings
    BY <2>1 DEF PostingTypes
  <2>. QED  BY <2>1, <2>2 DEF SentAsAsked
<1>. HIDE DEF m
<1>3. /\ m.payload.mode = m.asked.mode /\ m.payload.mode \in PublishedModes
      /\ m.payload.text \in Seq(Bytes \cup {NUL}) /\ m.asked.text \in Seq(Bytes \cup {NUL})
  BY <1>2 DEF AsAsked, Sendings, Messages
<1>4. ASSUME NEW why \in {"file", "mode"}, Came(Lost(why)), UNCHANGED <<refs, pending, crashed>>
      PROVE  PostingInv'
  <2>1. /\ Lost(why) \in Hearings /\ Faithful(Lost(why), m)
        /\ Lost(why).told = FALSE /\ Lost(why).why = why
    BY IdleCall DEF Lost, Hearings, Faithful
  <2>2. refs' = refs + 0 + 0 /\ pending' \in BOOLEAN
    BY <1>4 DEF PostingTypes
  <2>. QED  BY <1>1, <1>4, <2>1, <2>2, Reception DEF Came, m
<1>5. CASE m.payload.mode = "voice"
  <2>1. WriteFile(m.payload, m.cut)
    BY <1>1, <1>5 DEF ProcessMessage, ProcessedModes
  <2>2. CASE Came(Lost("file")) /\ UNCHANGED <<refs, pending, crashed>>
    BY <1>4, <2>2
  <2>3. CASE m.cut /\ Crash("receiver") /\ UNCHANGED receiverVars
    <3>1. m.cut /\ m.changed
      BY <1>2, <2>3 DEF AsAsked
    <3>. QED  BY <1>1, <2>3, <3>1, ReceiverDown DEF Crash, receiverVars, m
  <2>4. ASSUME NEW n \in 0 .. Len(m.payload.text),
               SendMsgToJava(m.payload, SubSeq(m.payload.text, 1, n))
        PROVE  PostingInv'
    <3>1. /\ SubSeq(m.payload.text, 1, n) \in Seq(Bytes \cup {NUL})
          /\ IsPrefix(SubSeq(m.payload.text, 1, n), m.payload.text)
      BY <1>3, Beginnings
    <3>2. ~ m.changed => IsPrefix(SubSeq(m.payload.text, 1, n), m.asked.text)
      BY <1>2, <1>3, <1>5, <3>1 DEF AsAsked
    <3>. QED  BY <1>1, <1>3, <1>5, <2>4, <3>1, <3>2, SendMsgToJavaStep DEF m
  <2>. QED  BY <2>1, <2>2, <2>3, <2>4 DEF WriteFile
<1>6. CASE m.payload.mode = "text"
  <2>1. GetTextMsg(m.payload)
    BY <1>1, <1>6 DEF ProcessMessage, ProcessedModes
  <2>2. m.payload.text = Append(m.asked.text, NUL)
    BY <1>2, <1>3, <1>6 DEF AsAsked
  <2>3. Front(m.payload.text) = m.asked.text
    BY <1>3, <2>2, FrontOfAppend
  <2>4. CASE SendMsgToJava(m.payload, Front(m.payload.text))
    BY <1>1, <1>3, <1>6, <2>3, <2>4, SendMsgToJavaStep DEF m
  <2>5. CASE Len(m.payload.text) > TextRoom /\ Crash("receiver") /\ UNCHANGED receiverVars
    <3>1. Len(m.asked.text) >= TextRoom
      <4>1. Len(m.payload.text) = Len(m.asked.text) + 1 /\ Len(m.asked.text) \in Nat
        BY <1>3, <2>2
      <4>. QED  BY <2>5, <4>1
    <3>. QED  BY <1>1, <1>6, <2>5, <3>1, ReceiverDown DEF Crash, receiverVars,
       m
  <2>. QED  BY <2>1, <2>4, <2>5 DEF GetTextMsg
<1>7. CASE m.payload.mode # "voice" /\ m.payload.mode # "text"
  <2>1. m.asked.mode \in Commands
    BY <1>3, <1>7 DEF PublishedModes
  <2>2. m.asked.text = <<>>
    BY <1>2, <2>1 DEF AsAsked
  <2>3. m.payload.mode \in ProcessedModes
    BY <1>3, <2>1 DEF ProcessedModes, Commands
  <2>4. SendMsgToJava(m.payload, <<>>)
    BY <1>1, <1>7, <2>3 DEF ProcessMessage
  <2>. QED  BY <1>1, <1>3, <1>7, <2>2, <2>4, SendMsgToJavaStep DEF m
<1>. QED  BY <1>5, <1>6, <1>7

-----------------------------------------------------------------------------
(* The theorems.                                                           *)

\* Every step keeps the invariant.
LEMMA StepHolds ==
    ASSUME PostingInv, [PostingNext]_postingVars
    PROVE  PostingInv'
<1>1. CASE UNCHANGED postingVars
  <2>1. UNCHANGED <<file, call, calls, refused, sent, heard, refs, pending, crashed>>
    BY <1>1 DEF postingVars, senderVars, receiverVars
  <2>2. VoicesHeard' = VoicesHeard /\ Dropped' = Dropped
    BY <2>1 DEF VoicesHeard, Dropped
  <2>3. PostingTypes' /\ OnTheWay' /\ Numbered'
    BY <2>1 DEF PostingInv, PostingTypes, OnTheWay, Numbered, AsAsked
  <2>4. SentAsAsked' /\ RefsCounted'
    BY <2>1, <2>2 DEF PostingInv, SentAsAsked, RefsCounted, AsAsked
  <2>5. HeardAsSent' /\ CrashExplained'
    BY <2>1, <2>2 DEF PostingInv, HeardAsSent, CrashExplained
  <2>. QED  BY <2>3, <2>4, <2>5 DEF PostingInv
<1>. QED
  BY <1>1, ChangeFileStep, PubObjectSendMsgStep, RealPublishMsgStep,
     SetSendInfoStep, PublishStep, MyMessageCallbackStep DEF PostingNext

\* The invariant holds in every state.
THEOREM PostingInvariance == PostingSpec => []PostingInv
BY InitHolds, StepHolds, PTL DEF PostingSpec

\* What Java hears of is what some call asked for, in the order of the calls
\* and for the same user, cut or changed only where the disk or the recorder
\* did it; whatever Java got no error for is sent (pub_send_msg,
\* set_send_info, process_message).
THEOREM HeardFaithfully == PostingSpec => []HeardAsSent
<1>1. PostingInv => HeardAsSent
  BY DEF PostingInv
<1>. QED
  BY <1>1, PostingInvariance, PTL

\* When the process dies, it is for one of these: an object without content,
\* a file changed during the call or not writable (set_send_info), a text
\* longer than text_msg (get_text_msg), a pending Java exception, or the
\* references that send_msg_toJava and the exceptions left on the loop thread.
THEOREM CrashesExplained == PostingSpec => []CrashExplained
<1>1. PostingInv => CrashExplained
  BY DEF PostingInv
<1>. QED
  BY <1>1, PostingInvariance, PTL

-----------------------------------------------------------------------------
(* Topics: where the levels of a string are.                               *)

\* A set of numbers has a least one.
LEMMA Least ==
    ASSUME NEW T \in SUBSET Nat, T # {}
    PROVE  \E x \in T : \A y \in T : x <= y
<1>1. T # {} /\ T \subseteq Nat
  OBVIOUS
<1>2. \E x \in T : \A y \in T : ~ (<<y, x>> \in OpToRel(<, Nat))
  BY ONLY <1>1, NatLessThanWellFounded, WFMin
<1>3. PICK x \in T : \A y \in T : ~ (<<y, x>> \in OpToRel(<, Nat))
  BY ONLY <1>2
<1>4. ASSUME NEW y \in T  PROVE x <= y
  <2>1. x \in Nat /\ y \in Nat /\ ~ (<<y, x>> \in OpToRel(<, Nat))
    BY ONLY <1>1, <1>3, <1>4
  <2>. QED  BY ONLY <2>1 DEF OpToRel
<1>. QED  BY ONLY <1>3, <1>4

\* Where the tokeniser stops: at separators, and once behind the string.
LEMMA StopsAt ==
    ASSUME NEW S, NEW str \in Seq(S)
    PROVE  /\ Len(str) \in Nat /\ IsFiniteSet(Stops(str))
           /\ Stops(str) \subseteq 1 .. Len(str) + 1
           /\ Len(str) + 1 \in Stops(str)
           /\ \A i \in 1 .. Len(str) : i \in Stops(str) <=> str[i] = "/"
<1>1. Len(str) \in Nat
  OBVIOUS
<1>2. Stops(str) \subseteq 1 .. Len(str) + 1
  BY DEF Stops
<1>3. IsFiniteSet(1 .. Len(str) + 1)
  BY ONLY <1>1, FS_Interval
<1>4. IsFiniteSet(Stops(str))
  BY ONLY <1>2, <1>3, FS_Subset
<1>5. \A i \in 1 .. Len(str) : i \in 1 .. Len(str) + 1 /\ i # Len(str) + 1
  BY ONLY <1>1
<1>6. \A i \in 1 .. Len(str) : i \in Stops(str) <=> str[i] = "/"
  BY ONLY <1>5 DEF Stops
<1>7. Len(str) + 1 \in Stops(str)
  BY ONLY <1>1 DEF Stops
<1>. QED  BY ONLY <1>1, <1>2, <1>4, <1>6, <1>7

\* How the number of stops behind a position grows with it.
LEMMA BehindSet ==
    ASSUME NEW S, NEW str \in Seq(S), NEW pos \in 0 .. Len(str) + 1
    PROVE  IsFiniteSet({i \in Stops(str) : i <= pos}) /\ Behind(str, pos) \in Nat
<1>1. IsFiniteSet(Stops(str)) /\ {i \in Stops(str) : i <= pos} \subseteq Stops(str)
  BY StopsAt
<1>2. IsFiniteSet({i \in Stops(str) : i <= pos})
  BY ONLY <1>1, FS_Subset
<1>3. Behind(str, pos) \in Nat
  BY ONLY <1>2, FS_CardinalityType DEF Behind
<1>. QED  BY ONLY <1>2, <1>3

LEMMA BehindZero ==
    ASSUME NEW S, NEW str \in Seq(S)
    PROVE  Behind(str, 0) = 0
<1>1. {i \in Stops(str) : i <= 0} = {}
  BY StopsAt
<1>2. Cardinality({}) = 0
  BY ONLY FS_EmptySet
<1>. QED  BY ONLY <1>1, <1>2 DEF Behind

LEMMA BehindNext ==
    ASSUME NEW S, NEW str \in Seq(S), NEW pos \in 0 .. Len(str)
    PROVE  /\ pos + 1 \in Stops(str) => Behind(str, pos + 1) = Behind(str, pos) + 1
           /\ pos + 1 \notin Stops(str) => Behind(str, pos + 1) = Behind(str, pos)
<1>. DEFINE A == {i \in Stops(str) : i <= pos}
            B == {i \in Stops(str) : i <= pos + 1}
<1>1. pos \in Nat /\ Len(str) \in Nat /\ Stops(str) \subseteq Nat /\ pos \in 0 .. Len(str) + 1
  BY StopsAt
<1>2. IsFiniteSet(A)
  BY ONLY <1>1, BehindSet, str \in Seq(S)
<1>3. CASE pos + 1 \in Stops(str)
  <2>1. B = A \cup {pos + 1} /\ pos + 1 \notin A
    BY ONLY <1>1, <1>3
  <2>2. Cardinality(A \cup {pos + 1}) = Cardinality(A) + 1
    BY ONLY <1>2, <2>1, FS_AddElement
  <2>. QED  BY ONLY <1>3, <2>1, <2>2 DEF Behind
<1>4. CASE pos + 1 \notin Stops(str)
  <2>1. B = A
    BY ONLY <1>1, <1>4
  <2>. QED  BY ONLY <1>4, <2>1 DEF Behind
<1>. QED  BY ONLY <1>3, <1>4

LEMMA BehindGrows ==
    ASSUME NEW S, NEW str \in Seq(S), NEW i \in 0 .. Len(str) + 1,
           NEW j \in 0 .. Len(str) + 1, i <= j
    PROVE  /\ Behind(str, i) <= Behind(str, j)
           /\ i < j /\ j \in Stops(str) => Behind(str, i) < Behind(str, j)
<1>. DEFINE T(n) == {k \in Stops(str) : k <= n}
<1>1. /\ Len(str) \in Nat /\ i \in Nat /\ j \in Nat /\ Stops(str) \subseteq Nat
  BY StopsAt
<1>2. \A n \in 0 .. Len(str) + 1 : IsFiniteSet(T(n)) /\ Cardinality(T(n)) \in Nat
  BY BehindSet DEF Behind
<1>3. ASSUME NEW m \in 0 .. Len(str) + 1, NEW n \in 0 .. Len(str) + 1, m <= n
      PROVE  Cardinality(T(m)) <= Cardinality(T(n))
  <2>1. T(m) \subseteq T(n)
    BY ONLY <1>1, <1>3
  <2>2. IsFiniteSet(T(n))
    BY ONLY <1>2, <1>3
  <2>. QED  BY ONLY <2>1, <2>2, FS_Subset
<1>4. Behind(str, i) <= Behind(str, j)
  BY ONLY <1>3, i \in 0 .. Len(str) + 1, j \in 0 .. Len(str) + 1, i <= j DEF Behind
<1>5. ASSUME i < j, j \in Stops(str)
      PROVE  Behind(str, i) < Behind(str, j)
  <2>1. /\ j - 1 \in 0 .. Len(str) /\ j - 1 \in 0 .. Len(str) + 1 /\ i <= j - 1
        /\ (j - 1) + 1 = j
    BY ONLY <1>1, <1>5, i \in 0 .. Len(str) + 1, j \in 0 .. Len(str) + 1
  <2>2. Behind(str, j) = Behind(str, j - 1) + 1
    BY ONLY <1>5, <2>1, BehindNext, str \in Seq(S)
  <2>3. Behind(str, i) <= Behind(str, j - 1)
    BY ONLY <1>3, <2>1, i \in 0 .. Len(str) + 1 DEF Behind
  <2>4. Behind(str, i) \in Nat /\ Behind(str, j - 1) \in Nat
    BY ONLY <1>2, <2>1, i \in 0 .. Len(str) + 1 DEF Behind
  <2>. QED  BY ONLY <2>2, <2>3, <2>4
<1>. QED  BY ONLY <1>4, <1>5

\* Start is where the level of a position begins, and the only such place.
StartsLevel(str, pos, i) ==
    /\ i \in 0 .. pos /\ i \in {0} \cup Stops(str)
    /\ \A j \in i + 1 .. pos : j \notin Stops(str)

LEMMA StartUnique ==
    ASSUME NEW str, NEW pos \in Nat, NEW s, StartsLevel(str, pos, s)
    PROVE  Start(str, pos) = s
<1>1. ASSUME NEW i \in 0 .. pos, StartsLevel(str, pos, i)  PROVE i = s
  <2>1. i \in Nat /\ s \in Nat /\ i <= pos /\ s <= pos
    BY <1>1 DEF StartsLevel
  <2>2. ~ (i < s)
    <3>1. ASSUME i < s  PROVE FALSE
      <4>1. s \in i + 1 .. pos /\ s # 0
        BY <2>1, <3>1
      <4>. QED  BY <1>1, <4>1 DEF StartsLevel
    <3>. QED  BY <3>1
  <2>3. ~ (s < i)
    <3>1. ASSUME s < i  PROVE FALSE
      <4>1. i \in s + 1 .. pos /\ i # 0
        BY <2>1, <3>1
      <4>. QED  BY <1>1, <4>1 DEF StartsLevel
    <3>. QED  BY <3>1
  <2>. QED  BY ONLY <2>1, <2>2, <2>3
<1>2. s \in 0 .. pos
  BY DEF StartsLevel
<1>3. Start(str, pos) = CHOOSE i \in 0 .. pos : StartsLevel(str, pos, i)
  BY DEF Start, StartsLevel
<1>. HIDE DEF StartsLevel
<1>. QED  BY <1>1, <1>2, <1>3

LEMMA StartLaw ==
    ASSUME NEW S, NEW str \in Seq(S), NEW pos \in 0 .. Len(str)
    PROVE  StartsLevel(str, pos, Start(str, pos))
<1>. DEFINE T == {d \in 0 .. pos : pos - d \in {0} \cup Stops(str)}
<1>1. /\ pos \in Nat /\ T \subseteq Nat /\ pos \in T
  BY StopsAt
<1>2. PICK d \in T : \A e \in T : d <= e
  BY ONLY <1>1, Least
<1>3. /\ d \in Nat /\ d <= pos /\ pos - d \in 0 .. pos /\ pos - d \in {0} \cup Stops(str)
  BY ONLY <1>1, <1>2
<1>4. ASSUME NEW j \in (pos - d) + 1 .. pos, j \in Stops(str)  PROVE FALSE
  <2>1. pos - j \in 0 .. pos /\ pos - (pos - j) = j /\ pos - j < d /\ pos - j \in Nat
    BY ONLY <1>1, <1>3, <1>4
  <2>2. pos - j \in T
    BY ONLY <1>4, <2>1
  <2>. HIDE DEF T
  <2>3. d <= pos - j
    BY ONLY <1>2, <2>2
  <2>. QED  BY ONLY <1>3, <2>1, <2>3
<1>5. StartsLevel(str, pos, pos - d)
  BY ONLY <1>3, <1>4 DEF StartsLevel
<1>. QED  BY ONLY <1>1, <1>5, StartUnique

\* The next stop behind a position.
NextStop(str, pos, e) ==
    /\ e \in pos .. Len(str) /\ e + 1 \in Stops(str)
    /\ \A j \in pos + 1 .. e : j \notin Stops(str)

LEMMA StopAhead ==
    ASSUME NEW S, NEW str \in Seq(S), NEW pos \in 0 .. Len(str)
    PROVE  \E e \in pos .. Len(str) : NextStop(str, pos, e)
<1>. DEFINE T == {e \in pos .. Len(str) : e + 1 \in Stops(str)}
<1>1. /\ pos \in Nat /\ Len(str) \in Nat /\ T \subseteq Nat /\ Len(str) \in T
  BY StopsAt
<1>2. PICK e \in T : \A x \in T : e <= x
  BY ONLY <1>1, Least
<1>3. e \in Nat /\ e \in pos .. Len(str) /\ e + 1 \in Stops(str)
  BY ONLY <1>1, <1>2
<1>4. ASSUME NEW j \in pos + 1 .. e, j \in Stops(str)  PROVE FALSE
  <2>1. j - 1 \in pos .. Len(str) /\ (j - 1) + 1 = j /\ j - 1 < e /\ j - 1 \in Nat
    BY ONLY <1>1, <1>3, <1>4
  <2>2. j - 1 \in T
    BY ONLY <1>4, <2>1
  <2>. HIDE DEF T
  <2>3. e <= j - 1
    BY ONLY <1>2, <2>2
  <2>. QED  BY ONLY <1>3, <2>1, <2>3
<1>. QED  BY ONLY <1>3, <1>4 DEF NextStop

\* Up to the next stop a position stays in its level.
LEMMA SameLevel ==
    ASSUME NEW S, NEW str \in Seq(S), NEW pos \in 0 .. Len(str), NEW e,
           e \in pos .. Len(str), \A j \in pos + 1 .. e : j \notin Stops(str)
    PROVE  Behind(str, e) = Behind(str, pos) /\ Start(str, e) = Start(str, pos)
<1>1. /\ Len(str) \in Nat /\ pos \in Nat /\ e \in Nat /\ pos <= e /\ Stops(str) \subseteq Nat
  BY StopsAt
<1>2. {i \in Stops(str) : i <= e} = {i \in Stops(str) : i <= pos}
  <2>1. ASSUME NEW i \in Stops(str), i <= e  PROVE i <= pos
    <3>1. i \in Nat /\ (i <= pos \/ i \in pos + 1 .. e)
      BY ONLY <1>1, <2>1
    <3>. QED  BY ONLY <2>1, <3>1, \A j \in pos + 1 .. e : j \notin Stops(str)
  <2>2. \A i \in Stops(str) : i <= pos => i <= e
    BY ONLY <1>1
  <2>. QED  BY ONLY <2>1, <2>2
<1>3. StartsLevel(str, pos, Start(str, pos))
  BY StartLaw
<1>. DEFINE s == Start(str, pos)
<1>4. s \in 0 .. pos /\ s \in 0 .. e
  BY ONLY <1>1, <1>3 DEF StartsLevel
<1>5. ASSUME NEW j \in s + 1 .. e  PROVE j \notin Stops(str)
  <2>1. j \in s + 1 .. pos \/ j \in pos + 1 .. e
    BY ONLY <1>1, <1>4, <1>5
  <2>. QED  BY ONLY <1>3, <2>1, \A i \in pos + 1 .. e : i \notin Stops(str) DEF StartsLevel
<1>6. StartsLevel(str, e, s)
  BY ONLY <1>3, <1>4, <1>5 DEF StartsLevel
<1>. QED  BY ONLY <1>1, <1>2, <1>6, StartUnique DEF Behind

\* What the tokeniser returns for the level of a position.
IsLevel(str, k, s, e) ==
    /\ k \in 1 .. Len(Tokens(str)) /\ Len(Tokens(str)) \in Nat
    /\ Tokens(str)[k] = SubSeq(str, s + 1, e)
    /\ k = Len(Tokens(str)) <=> e = Len(str)

LEMMA LevelText ==
    ASSUME NEW S, NEW str \in Seq(S), NEW pos \in 0 .. Len(str), NEW e, NextStop(str, pos, e)
    PROVE  IsLevel(str, Behind(str, pos) + 1, Start(str, pos), e)
<1>. DEFINE k == Behind(str, pos) + 1
<1>1. /\ Len(str) \in Nat /\ pos \in Nat /\ e \in Nat /\ pos <= e /\ e <= Len(str)
      /\ e + 1 \in 0 .. Len(str) + 1 /\ e \in 0 .. Len(str) /\ (e + 1) - 1 = e
      /\ Len(str) + 1 \in 0 .. Len(str) + 1
      /\ pos \in 0 .. Len(str) + 1 /\ e + 1 \in Stops(str) /\ e \in pos .. Len(str)
      /\ \A j \in pos + 1 .. e : j \notin Stops(str)
  BY StopsAt DEF NextStop
<1>2. Behind(str, e) = Behind(str, pos) /\ Start(str, e) = Start(str, pos)
  BY ONLY <1>1, SameLevel, str \in Seq(S), pos \in 0 .. Len(str)
<1>3. Behind(str, e + 1) = k /\ k \in Nat /\ k >= 1
  <2>1. Behind(str, e + 1) = Behind(str, e) + 1
    BY ONLY <1>1, BehindNext, str \in Seq(S)
  <2>2. Behind(str, pos) \in Nat
    BY ONLY <1>1, BehindSet, str \in Seq(S)
  <2>. QED  BY ONLY <1>2, <2>1, <2>2, k = Behind(str, pos) + 1
<1>4. \A i \in Stops(str) : Behind(str, i) = k => i = e + 1
  <2>1. ASSUME NEW i \in Stops(str), Behind(str, i) = k  PROVE i = e + 1
    <3>1. i \in 0 .. Len(str) + 1 /\ i \in Nat
      BY ONLY <1>1, StopsAt, str \in Seq(S), <2>1
    <3>2. ~ (i < e + 1)
      BY ONLY <1>1, <1>3, <2>1, <3>1, BehindGrows, str \in Seq(S)
    <3>3. ~ (e + 1 < i)
      BY ONLY <1>1, <1>3, <2>1, <3>1, BehindGrows, str \in Seq(S)
    <3>. QED  BY ONLY <1>1, <3>1, <3>2, <3>3
  <2>. QED  BY ONLY <2>1
<1>5. /\ Behind(str, Len(str) + 1) = Cardinality(Stops(str))
      /\ Cardinality(Stops(str)) \in Nat
  <2>1. {i \in Stops(str) : i <= Len(str) + 1} = Stops(str)
    BY StopsAt
  <2>2. Behind(str, Len(str) + 1) \in Nat
    BY ONLY <1>1, BehindSet, str \in Seq(S)
  <2>. QED  BY ONLY <2>1, <2>2 DEF Behind
<1>6. k <= Cardinality(Stops(str)) /\ (k = Cardinality(Stops(str)) <=> e = Len(str))
  <2>1. CASE e = Len(str)
    BY ONLY <1>3, <1>5, <2>1
  <2>2. CASE e # Len(str)
    <3>1. e + 1 < Len(str) + 1 /\ Len(str) + 1 \in Stops(str)
      BY ONLY <1>1, <2>2, StopsAt, str \in Seq(S)
    <3>2. Behind(str, e + 1) < Behind(str, Len(str) + 1)
      BY ONLY <1>1, <3>1, BehindGrows, str \in Seq(S)
    <3>. QED  BY ONLY <1>3, <1>5, <2>2, <3>2
  <2>. QED  BY ONLY <2>1, <2>2
<1>7. /\ Len(Tokens(str)) = Cardinality(Stops(str)) /\ k \in 1 .. Cardinality(Stops(str))
      /\ DOMAIN Tokens(str) = 1 .. Cardinality(Stops(str))
  BY ONLY <1>3, <1>5, <1>6 DEF Tokens
<1>8. (CHOOSE i \in Stops(str) : Behind(str, i) = k) = e + 1
  BY ONLY <1>1, <1>3, <1>4
<1>9. Tokens(str)[k] = SubSeq(str, Start(str, e) + 1, e)
  BY ONLY <1>1, <1>7, <1>8 DEF Tokens
<1>. HIDE DEF k
<1>10. IsLevel(str, k, Start(str, pos), e)
  BY ONLY <1>1, <1>2, <1>5, <1>6, <1>7, <1>9 DEF IsLevel
<1>. QED  BY ONLY <1>10 DEF k

-----------------------------------------------------------------------------
(* Topics: the two strings.                                                *)

SubChars == Letters \cup {"+", "#", "/"}
TopicChars == Letters \cup {"/"}
Checked == sub \in Seq(SubChars) /\ topic \in Seq(TopicChars) /\ SubTopicCheck(sub)

LEMMA SubCharacters ==
    ASSUME Checked
    PROVE  /\ sub \in Seq(SubChars) /\ Len(sub) \in Nat
           /\ \A i \in 1 .. Len(sub) : sub[i] # "end" /\ (i \in Stops(sub) <=> sub[i] = "/")
           /\ Len(sub) + 1 \in Stops(sub)
<1>1. sub \in Seq(SubChars) /\ Len(sub) \in Nat /\ \A i \in 1 .. Len(sub) : sub[i] \in SubChars
  BY DEF Checked
<1>2. \A x \in SubChars : x # "end"
  BY TopicsAssumption DEF SubChars
<1>. QED  BY ONLY <1>1, <1>2, StopsAt

LEMMA TopicCharacters ==
    ASSUME Checked
    PROVE  /\ topic \in Seq(TopicChars) /\ Len(topic) \in Nat
           /\ \A i \in 1 .. Len(topic) : /\ topic[i] \notin {"end", "+", "#"}
                                         /\ i \in Stops(topic) <=> topic[i] = "/"
           /\ Len(topic) + 1 \in Stops(topic)
<1>1. /\ topic \in Seq(TopicChars) /\ Len(topic) \in Nat
      /\ \A i \in 1 .. Len(topic) : topic[i] \in TopicChars
  BY DEF Checked
<1>2. \A x \in TopicChars : x \notin {"end", "+", "#"}
  BY TopicsAssumption DEF TopicChars
<1>. QED  BY ONLY <1>1, <1>2, StopsAt

\* What a part of a string is.
LEMMA Part ==
    ASSUME NEW S, NEW str \in Seq(S), NEW a \in 0 .. Len(str), NEW b \in a .. Len(str)
    PROVE  /\ SubSeq(str, a + 1, b) \in Seq(S) /\ Len(SubSeq(str, a + 1, b)) = b - a
           /\ \A i \in 1 .. b - a : SubSeq(str, a + 1, b)[i] = str[a + i]
<1>1. Len(str) \in Nat /\ a \in Nat /\ b \in Nat /\ a + 1 \in Int
  OBVIOUS
<1>2. \A i \in a + 1 .. b : str[i] \in S
  BY <1>1
<1>3. SubSeq(str, a + 1, b) \in Seq(S)
  BY ONLY <1>1, <1>2, SubSeqProperties, str \in Seq(S), a \in 0 .. Len(str),
          b \in a .. Len(str)
<1>4. Len(SubSeq(str, a + 1, b)) = b - a
  BY <1>1
<1>5. ASSUME NEW i \in 1 .. b - a  PROVE SubSeq(str, a + 1, b)[i] = str[a + i]
  BY <1>1, <1>5
<1>. QED  BY ONLY <1>3, <1>4, <1>5

\* A string of one character is a part of length one with this character.
LEMMA Single ==
    ASSUME NEW S, NEW p \in Seq(S), NEW c
    PROVE  p = <<c>> <=> Len(p) = 1 /\ p[1] = c
<1>1. ASSUME Len(p) = 1, p[1] = c  PROVE p = <<c>>
  <2>1. c \in S /\ <<c>> \in Seq(S) /\ Len(<<c>>) = 1
    BY <1>1
  <2>2. \A i \in 1 .. 1 : p[i] = <<c>>[i]
    BY <1>1
  <2>. QED  BY ONLY <1>1, <2>1, <2>2, p \in Seq(S), SeqEqual
<1>2. ASSUME p = <<c>>  PROVE Len(p) = 1 /\ p[1] = c
  BY <1>2
<1>. QED  BY ONLY <1>1, <1>2

\* A wildcard is a level of its own.
LEMMA WildLevel ==
    ASSUME Checked, NEW p \in 1 .. Len(sub), sub[p] \in {"+", "#"},
           NEW k, k = Behind(sub, p - 1) + 1
    PROVE  /\ p \notin Stops(sub) /\ p + 1 \in Stops(sub)
           /\ p < Len(sub) => sub[p] = "+" /\ sub[p + 1] = "/"
           /\ Start(sub, p - 1) = p - 1 /\ Start(sub, p) = p - 1
           /\ Behind(sub, p) = Behind(sub, p - 1)
           /\ k \in 1 .. Len(Tokens(sub)) /\ Tokens(sub)[k] = <<sub[p]>>
           /\ k = Len(Tokens(sub)) <=> p = Len(sub)
<1>1. /\ sub \in Seq(SubChars) /\ Len(sub) \in Nat /\ Len(sub) + 1 \in Stops(sub)
      /\ \A i \in 1 .. Len(sub) : i \in Stops(sub) <=> sub[i] = "/"
  BY SubCharacters
<1>2. /\ p > 1 => sub[p - 1] = "/"
      /\ p < Len(sub) => sub[p] = "+" /\ sub[p + 1] = "/"
  <2>1. p \in DOMAIN sub
    BY <1>1
  <2>. QED  BY <2>1 DEF Checked, SubTopicCheck
<1>3. p \in Nat /\ p >= 1 /\ p <= Len(sub) /\ p - 1 \in Nat /\ Len(sub) \in Nat
  BY <1>1
<1>4. p \notin Stops(sub)
  <2>1. sub[p] # "/"
    OBVIOUS
  <2>. QED  BY ONLY <1>1, <2>1, p \in 1 .. Len(sub)
<1>5. p + 1 \in Stops(sub)
  <2>1. p = Len(sub) \/ (p + 1 \in 1 .. Len(sub) /\ p < Len(sub))
    BY ONLY <1>3
  <2>. QED  BY ONLY <1>1, <1>2, <2>1
<1>6. Start(sub, p - 1) = p - 1
  <2>1. p - 1 = 0 \/ p - 1 \in Stops(sub)
    <3>1. p = 1 \/ (p > 1 /\ p - 1 \in 1 .. Len(sub))
      BY ONLY <1>3
    <3>. QED  BY ONLY <1>1, <1>2, <1>3, <3>1
  <2>2. StartsLevel(sub, p - 1, p - 1)
    BY ONLY <1>3, <2>1 DEF StartsLevel
  <2>. QED  BY ONLY <1>3, <2>2, StartUnique
<1>7. /\ p - 1 \in 0 .. Len(sub) /\ p \in (p - 1) .. Len(sub)
      /\ \A j \in (p - 1) + 1 .. p : j \notin Stops(sub)
  BY ONLY <1>1, <1>3, <1>4
<1>8. Start(sub, p) = p - 1 /\ Behind(sub, p) = Behind(sub, p - 1)
  BY ONLY <1>1, <1>6, <1>7, SameLevel
<1>9. NextStop(sub, p - 1, p)
  BY ONLY <1>5, <1>7 DEF NextStop
<1>10. /\ k \in 1 .. Len(Tokens(sub))
       /\ k = Len(Tokens(sub)) <=> p = Len(sub)
       /\ Tokens(sub)[k] = SubSeq(sub, (p - 1) + 1, p)
  <2>1. IsLevel(sub, Behind(sub, p - 1) + 1, Start(sub, p - 1), p)
    <3>1. sub \in Seq(SubChars)
      BY ONLY <1>1
    <3>. QED  BY ONLY <1>7, <1>9, <3>1, LevelText
  <2>. QED  BY ONLY <1>6, <2>1, k = Behind(sub, p - 1) + 1 DEF IsLevel
<1>11. SubSeq(sub, (p - 1) + 1, p) = <<sub[p]>>
  <2>1. p - (p - 1) = 1 /\ (p - 1) + 1 = p
    BY ONLY <1>3
  <2>2. /\ SubSeq(sub, (p - 1) + 1, p) \in Seq(SubChars)
        /\ Len(SubSeq(sub, (p - 1) + 1, p)) = p - (p - 1)
        /\ \A i \in 1 .. p - (p - 1) : SubSeq(sub, (p - 1) + 1, p)[i] = sub[(p - 1) + i]
    BY ONLY <1>1, <1>7, Part
  <2>3. 1 \in 1 .. p - (p - 1)
    BY ONLY <2>1
  <2>4. Len(SubSeq(sub, (p - 1) + 1, p)) = 1 /\ SubSeq(sub, (p - 1) + 1, p)[1] = sub[p]
    BY ONLY <2>1, <2>2, <2>3
  <2>. QED  BY ONLY <2>2, <2>4, Single
<1>. QED  BY ONLY <1>2, <1>4, <1>5, <1>6, <1>8, <1>10, <1>11

\* The level of a position, read between where it begins and the next stop.
Reads(str, chars, pos, k, s, e) ==
    /\ Len(str) \in Nat /\ pos \in Nat /\ s \in 0 .. pos /\ e \in pos .. Len(str)
    /\ e + 1 \in Stops(str)
    /\ k \in 1 .. Len(Tokens(str)) /\ Len(Tokens(str)) \in Nat
    /\ k = Len(Tokens(str)) <=> e = Len(str)
    /\ Tokens(str)[k] \in Seq(chars) /\ Len(Tokens(str)[k]) = e - s
    /\ \A i \in 1 .. e - s : Tokens(str)[k][i] = str[s + i]

LEMMA LevelReads ==
    ASSUME NEW S, NEW str \in Seq(S), NEW pos \in 0 .. Len(str), NEW e, NextStop(str, pos, e)
    PROVE  Reads(str, S, pos, Behind(str, pos) + 1, Start(str, pos), e)
<1>. DEFINE k == Behind(str, pos) + 1
            s == Start(str, pos)
<1>1. IsLevel(str, k, s, e)
  BY LevelText
<1>2. s \in 0 .. pos
  BY StartLaw DEF StartsLevel
<1>. HIDE DEF s, k
<1>3. /\ Len(str) \in Nat /\ pos \in Nat /\ e \in pos .. Len(str) /\ e + 1 \in Stops(str)
      /\ s \in 0 .. Len(str) /\ e \in s .. Len(str)
  BY <1>2 DEF NextStop
<1>4. /\ SubSeq(str, s + 1, e) \in Seq(S) /\ Len(SubSeq(str, s + 1, e)) = e - s
      /\ \A i \in 1 .. e - s : SubSeq(str, s + 1, e)[i] = str[s + i]
  BY ONLY <1>3, Part, str \in Seq(S)
<1>5. Reads(str, S, pos, k, s, e)
  BY ONLY <1>1, <1>2, <1>3, <1>4 DEF Reads, IsLevel
<1>. QED  BY ONLY <1>5 DEF k, s

-----------------------------------------------------------------------------
(* Topics: when lists of levels match.                                     *)

\* A level that is no wildcard and is not the same is in the way.
LEMMA LevelDiffers ==
    ASSUME NEW levels, NEW names, Len(levels) \in Nat, Len(names) \in Nat,
           NEW k \in 1 .. Len(levels), ~ Wild(levels[k]),
           k <= Len(names) => levels[k] # names[k]
    PROVE  ~ Matches(levels, names)
<1>. DEFINE fixed == IF Last(levels) = <<"#">> THEN Len(levels) - 1 ELSE Len(levels)
<1>1. k \in 1 .. fixed
  <2>1. k = Len(levels) => Last(levels) # <<"#">>
    BY DEF Last, Wild
  <2>. QED  BY <2>1
<1>2. ASSUME Matches(levels, names)  PROVE FALSE
  <2>1. fixed <= Len(names) /\ \A i \in 1 .. fixed : Fits(levels[i], names[i])
    BY <1>2 DEF Matches
  <2>2. fixed \in Nat
    OBVIOUS
  <2>. HIDE DEF fixed
  <2>3. k <= Len(names) /\ Fits(levels[k], names[k])
    BY <1>1, <2>1, <2>2
  <2>4. levels[k] # <<"+">>
    BY DEF Wild
  <2>. QED  BY <2>3, <2>4 DEF Fits
<1>. QED  BY <1>2

\* Without a "#" at the end both have as many levels; with one there is at most
\* one level more in the subscription.
LEMMA CountDiffers ==
    ASSUME NEW levels, NEW names, Len(levels) \in Nat, Len(names) \in Nat,
           \/ Len(levels) > Len(names) + 1
           \/ Len(levels) # Len(names) /\ Last(levels) # <<"#">>
    PROVE  ~ Matches(levels, names)
BY DEF Matches

LEMMA AllFit ==
    ASSUME NEW levels, NEW names, Len(levels) \in Nat, Len(names) \in Nat,
           NEW k \in Nat, \A i \in 1 .. k : Fits(levels[i], names[i]),
           \/ Last(levels) # <<"#">> /\ Len(levels) = k /\ Len(names) = k
           \/ Last(levels) = <<"#">> /\ Len(levels) = k + 1 /\ k <= Len(names)
    PROVE  Matches(levels, names)
BY SMTT(40) DEF Matches

-----------------------------------------------------------------------------
(* Topics: the walk and the levels.                                        *)

\* The walk has the same characters of the present level behind it in both, or
\* a "+" in the one and the whole level in the other.
Alike(sp, tp) ==
    /\ sp - Start(sub, sp) = tp - Start(topic, tp)
    /\ \A i \in 1 .. sp - Start(sub, sp) :
           sub[Start(sub, sp) + i] = topic[Start(topic, tp) + i]
Skipped(sp, tp) ==
    /\ sp = Start(sub, sp) + 1 /\ sub[sp] = "+"
    /\ sp + 1 \in Stops(sub) /\ tp + 1 \in Stops(topic)

\* The levels behind the walk fit one by one.
Aligned(sp, tp) ==
    /\ Behind(sub, sp) = Behind(topic, tp)
    /\ \A i \in 1 .. Behind(sub, sp) : Fits(Tokens(sub)[i], Tokens(topic)[i])
    /\ Alike(sp, tp) \/ Skipped(sp, tp)

\* A level that is alike up to a stop is the same in both or longer in the topic.
LEMMA AlikeLevel ==
    ASSUME Checked, NEW sp \in 0 .. Len(sub), NEW tp \in 0 .. Len(topic), Alike(sp, tp),
           Behind(sub, sp) = Behind(topic, tp), sp + 1 \in Stops(sub),
           NEW k, k = Behind(sub, sp) + 1
    PROVE  /\ ~ Wild(Tokens(sub)[k])
           /\ Tokens(topic)[k] = Tokens(sub)[k] <=> tp + 1 \in Stops(topic)
<1>. DEFINE s == Start(sub, sp)
            t == Start(topic, tp)
<1>1. sub \in Seq(SubChars) /\ Len(sub) \in Nat /\ topic \in Seq(TopicChars) /\ Len(topic) \in Nat
  BY SubCharacters, TopicCharacters
<1>2. NextStop(sub, sp, sp)
  BY <1>1 DEF NextStop
<1>3. PICK f \in tp .. Len(topic) : NextStop(topic, tp, f)
  BY <1>1, StopAhead
<1>4. Reads(sub, SubChars, sp, k, s, sp)
  BY <1>1, <1>2, LevelReads
<1>5. Reads(topic, TopicChars, tp, k, t, f)
  BY <1>1, <1>3, LevelReads
<1>6. /\ s \in Nat /\ t \in Nat /\ sp \in Nat /\ tp \in Nat /\ f \in Nat
      /\ s <= sp /\ t <= tp /\ tp <= f /\ f <= Len(topic) /\ sp - s = tp - t
      /\ \A i \in 1 .. sp - s : sub[s + i] = topic[t + i]
  <2>1. s \in 0 .. sp /\ t \in 0 .. tp /\ f \in tp .. Len(topic)
    BY ONLY <1>4, <1>5 DEF Reads
  <2>2. sp - s = tp - t /\ \A i \in 1 .. sp - s : sub[s + i] = topic[t + i]
    BY DEF Alike
  <2>. HIDE DEF s, t
  <2>. QED  BY ONLY <1>1, <2>1, <2>2, sp \in 0 .. Len(sub), tp \in 0 .. Len(topic)
<1>. DEFINE w == Tokens(sub)[k]
            v == Tokens(topic)[k]
<1>7. /\ w \in Seq(SubChars) /\ Len(w) = sp - s /\ v \in Seq(TopicChars) /\ Len(v) = f - t
      /\ \A i \in 1 .. sp - s : w[i] = sub[s + i]
      /\ \A i \in 1 .. f - t : v[i] = topic[t + i]
  BY ONLY <1>4, <1>5 DEF Reads
<1>. HIDE DEF w, v, s, t
<1>8. ~ Wild(w)
  <2>1. ASSUME Len(w) = 1  PROVE w[1] \notin {"+", "#"}
    <3>a. /\ t \in Nat /\ tp - t = 1 /\ sp - s = 1 /\ tp \in Nat /\ tp <= Len(topic)
          /\ Len(topic) \in Nat
      <4>1. sp - s = 1
        BY ONLY <1>7, <2>1
      <4>2. tp <= Len(topic)
        BY ONLY <1>1, tp \in 0 .. Len(topic)
      <4>. QED  BY ONLY <1>1, <1>6, <4>1, <4>2
    <3>1. 1 \in 1 .. sp - s /\ t + 1 \in 1 .. Len(topic)
      BY ONLY <3>a
    <3>2. w[1] = topic[t + 1]
      BY ONLY <1>6, <1>7, <3>1
    <3>3. topic[t + 1] \notin {"+", "#"}
      BY <3>1, TopicCharacters
    <3>. QED  BY ONLY <3>2, <3>3
  <2>2. \A c : w = <<c>> => Len(w) = 1 /\ w[1] = c
    BY ONLY <1>7, Single
  <2>. QED  BY ONLY <2>1, <2>2 DEF Wild
<1>9. CASE tp + 1 \in Stops(topic)
  <2>1. f = tp
    <3>1. f # tp => tp + 1 \in tp + 1 .. f
      BY ONLY <1>6
    <3>. QED  BY ONLY <1>3, <1>9, <3>1 DEF NextStop
  <2>2. Len(w) = Len(v) /\ Len(v) = sp - s /\ f - t = sp - s
    BY ONLY <1>6, <1>7, <2>1
  <2>3. \A i \in 1 .. Len(v) : v[i] = w[i]
    BY ONLY <1>6, <1>7, <2>2
  <2>4. w \in Seq(SubChars \cup TopicChars) /\ v \in Seq(SubChars \cup TopicChars)
    BY ONLY <1>7, SeqMonotonic
  <2>5. v = w
    BY ONLY <2>2, <2>3, <2>4, SeqEqual
  <2>. QED  BY ONLY <1>8, <1>9, <2>5 DEF v, w
<1>10. CASE tp + 1 \notin Stops(topic)
  <2>1. f # tp
    BY ONLY <1>3, <1>10 DEF NextStop
  <2>2. Len(w) # Len(v)
    BY ONLY <1>6, <1>7, <2>1
  <2>. QED  BY ONLY <1>8, <1>10, <2>2 DEF v, w
<1>. QED  BY ONLY <1>9, <1>10

LEMMA SkippedLevel ==
    ASSUME Checked, NEW sp \in 0 .. Len(sub), Start(sub, sp) + 1 = sp, sub[sp] = "+",
           NEW k, k = Behind(sub, sp) + 1
    PROVE  /\ Tokens(sub)[k] = <<"+">> /\ k \in 1 .. Len(Tokens(sub))
           /\ k = Len(Tokens(sub)) <=> sp = Len(sub)
<1>1. /\ sub \in Seq(SubChars) /\ Len(sub) \in Nat
  BY SubCharacters
<1>2. Start(sub, sp) \in Nat
  BY <1>1, StartLaw DEF StartsLevel
<1>3. sp \in 1 .. Len(sub)
  BY <1>1, <1>2
<1>4. Behind(sub, sp) = Behind(sub, sp - 1)
  BY <1>3, WildLevel
<1>. QED  BY SMTT(40), <1>3, <1>4, WildLevel

\* At a wildcard the walk is where a level begins, in both.
LEMMA AtWildcard ==
    ASSUME Checked, NEW sp \in 0 .. Len(sub), NEW tp \in 0 .. Len(topic), Aligned(sp, tp),
           sp < Len(sub), sub[sp + 1] \in {"+", "#"}
    PROVE  /\ Start(sub, sp) = sp /\ Start(topic, tp) = tp
           /\ sp + 1 \notin Stops(sub) /\ sp + 2 \in Stops(sub)
           /\ sp + 1 < Len(sub) => sub[sp + 1] = "+"
           /\ Start(sub, sp + 1) = sp /\ Behind(sub, sp + 1) = Behind(sub, sp)
           /\ Behind(sub, sp) + 1 \in 1 .. Len(Tokens(sub))
           /\ Tokens(sub)[Behind(sub, sp) + 1] = <<sub[sp + 1]>>
           /\ Behind(sub, sp) + 1 = Len(Tokens(sub)) <=> sp + 1 = Len(sub)
<1>1. Len(sub) \in Nat /\ sp \in Nat /\ tp \in Nat /\ Len(topic) \in Nat
  BY SubCharacters, TopicCharacters
<1>. DEFINE p == sp + 1
<1>2. p \in 1 .. Len(sub) /\ p - 1 = sp /\ p + 1 = sp + 2 /\ sub[p] \in {"+", "#"}
  BY <1>1
<1>. HIDE DEF p
<1>3. /\ p \notin Stops(sub) /\ p + 1 \in Stops(sub)
      /\ p < Len(sub) => sub[p] = "+"
      /\ Start(sub, p - 1) = p - 1 /\ Start(sub, p) = p - 1
      /\ Behind(sub, p) = Behind(sub, p - 1)
      /\ Behind(sub, p - 1) + 1 \in 1 .. Len(Tokens(sub))
      /\ Tokens(sub)[Behind(sub, p - 1) + 1] = <<sub[p]>>
      /\ Behind(sub, p - 1) + 1 = Len(Tokens(sub)) <=> p = Len(sub)
  BY <1>2, WildLevel
<1>4. Start(sub, sp) = sp /\ p \notin Stops(sub)
  BY ONLY <1>2, <1>3
<1>5. ~ Skipped(sp, tp)
  BY <1>4 DEF Skipped, p
<1>6. Start(topic, tp) = tp
  <2>1. sp - Start(sub, sp) = tp - Start(topic, tp)
    BY <1>5 DEF Aligned, Alike
  <2>2. Start(topic, tp) \in Nat
    BY <1>1, TopicCharacters, StartLaw DEF StartsLevel
  <2>. QED  BY ONLY <1>1, <1>4, <2>1, <2>2
<1>. QED  BY ONLY <1>2, <1>3, <1>4, <1>6 DEF p

\* Behind a separator a level begins.
LEMMA BehindSeparator ==
    ASSUME NEW S, NEW str \in Seq(S), NEW pos \in 0 .. Len(str), pos < Len(str),
           pos + 1 \in Stops(str)
    PROVE  Behind(str, pos + 1) = Behind(str, pos) + 1 /\ Start(str, pos + 1) = pos + 1
<1>1. pos + 1 \in Nat /\ pos + 1 \in 0 .. pos + 1
  OBVIOUS
<1>2. StartsLevel(str, pos + 1, pos + 1)
  BY <1>1 DEF StartsLevel
<1>. QED  BY <1>1, <1>2, StartUnique, BehindNext

LEMMA SameStep ==
    ASSUME Checked, NEW sp \in 0 .. Len(sub), NEW tp \in 0 .. Len(topic), Aligned(sp, tp),
           sp < Len(sub), tp < Len(topic), sub[sp + 1] = topic[tp + 1]
    PROVE  Aligned(sp + 1, tp + 1) /\ Alike(sp + 1, tp + 1)
<1>1. /\ Len(sub) \in Nat /\ sp \in Nat /\ tp \in Nat /\ Len(topic) \in Nat
      /\ sub \in Seq(SubChars) /\ topic \in Seq(TopicChars)
      /\ sp + 1 \in 1 .. Len(sub) /\ tp + 1 \in 1 .. Len(topic)
  BY SMTT(40), SubCharacters, TopicCharacters
<1>2. /\ sp + 1 \in Stops(sub) <=> sub[sp + 1] = "/"
      /\ tp + 1 \in Stops(topic) <=> topic[tp + 1] = "/"
  BY <1>1, SubCharacters, TopicCharacters
<1>. DEFINE k == Behind(sub, sp) + 1
<1>3. /\ Behind(sub, sp) = Behind(topic, tp) /\ Behind(sub, sp) \in Nat
      /\ \A i \in 1 .. Behind(sub, sp) : Fits(Tokens(sub)[i], Tokens(topic)[i])
      /\ Alike(sp, tp) \/ Skipped(sp, tp)
  <2>1. Behind(sub, sp) \in Nat
    <3>1. sp \in 0 .. Len(sub) + 1
      BY ONLY <1>1
    <3>. QED  BY ONLY <1>1, <3>1, BehindSet
  <2>. QED  BY <2>1 DEF Aligned
<1>4. CASE sub[sp + 1] = "/"
  <2>1. sp + 1 \in Stops(sub) /\ tp + 1 \in Stops(topic)
    BY <1>2, <1>4
  <2>2. /\ Behind(sub, sp + 1) = k /\ Start(sub, sp + 1) = sp + 1
        /\ Behind(topic, tp + 1) = k /\ Start(topic, tp + 1) = tp + 1
    <3>1. Behind(sub, sp + 1) = k /\ Start(sub, sp + 1) = sp + 1
      BY SMTT(40), <1>1, <2>1, BehindSeparator
    <3>2. Behind(topic, tp + 1) = Behind(topic, tp) + 1 /\ Start(topic, tp + 1) = tp + 1
      BY SMTT(40), <1>1, <2>1, BehindSeparator
    <3>. QED  BY <1>3, <3>1, <3>2
  <2>3. Fits(Tokens(sub)[k], Tokens(topic)[k])
    <3>1. CASE Alike(sp, tp)
      <4>1. Tokens(topic)[k] = Tokens(sub)[k]
        BY <1>1, <1>3, <2>1, <3>1, AlikeLevel
      <4>. QED  BY ONLY <4>1 DEF Fits
    <3>2. CASE Skipped(sp, tp)
      <4>1. Tokens(sub)[k] = <<"+">>
        BY <1>1, <3>2, SkippedLevel DEF Skipped
      <4>. QED  BY ONLY <4>1 DEF Fits
    <3>. QED  BY ONLY <1>3, <3>1, <3>2
  <2>4. Alike(sp + 1, tp + 1)
    <3>1. (sp + 1) - (sp + 1) = 0 /\ (tp + 1) - (tp + 1) = 0 /\ 1 .. 0 = {}
      BY ONLY <1>1
    <3>. QED  BY ONLY <2>2, <3>1 DEF Alike
  <2>5. \A i \in 1 .. k : Fits(Tokens(sub)[i], Tokens(topic)[i])
    BY ONLY <1>3, <2>3
  <2>. QED  BY ONLY <2>2, <2>4, <2>5 DEF Aligned
<1>5. CASE sub[sp + 1] # "/"
  <2>1. sp + 1 \notin Stops(sub) /\ tp + 1 \notin Stops(topic)
    BY <1>2, <1>5
  <2>2. Alike(sp, tp)
    BY <1>3, <2>1 DEF Skipped
  <2>. DEFINE s == Start(sub, sp)
              t == Start(topic, tp)
  <2>3. /\ Behind(sub, sp + 1) = Behind(sub, sp) /\ Start(sub, sp + 1) = s
        /\ Behind(topic, tp + 1) = Behind(topic, tp) /\ Start(topic, tp + 1) = t
    <3>1. /\ sp + 1 \in sp .. Len(sub) /\ \A j \in sp + 1 .. sp + 1 : j \notin Stops(sub)
          /\ tp + 1 \in tp .. Len(topic) /\ \A j \in tp + 1 .. tp + 1 : j \notin Stops(topic)
      BY ONLY <1>1, <2>1
    <3>. QED  BY <1>1, <3>1, SameLevel
  <2>4. /\ s \in Nat /\ t \in Nat /\ s <= sp /\ t <= tp
    BY <1>1, StartLaw DEF StartsLevel
  <2>5. sp - s = tp - t /\ \A i \in 1 .. sp - s : sub[s + i] = topic[t + i]
    BY <2>2 DEF Alike
  <2>. HIDE DEF s, t
  <2>6. (sp + 1) - s = (tp + 1) - t
    BY ONLY <1>1, <2>4, <2>5
  <2>7. ASSUME NEW i \in 1 .. (sp + 1) - s  PROVE sub[s + i] = topic[t + i]
    <3>1. i \in 1 .. sp - s \/ (s + i = sp + 1 /\ t + i = tp + 1)
      BY ONLY <1>1, <2>4, <2>6, <2>7
    <3>. QED  BY ONLY <2>5, <3>1, sub[sp + 1] = topic[tp + 1]
  <2>8. Alike(sp + 1, tp + 1)
    BY ONLY <2>3, <2>6, <2>7 DEF Alike
  <2>. QED  BY ONLY <1>3, <2>3, <2>8 DEF Aligned
<1>. QED  BY ONLY <1>4, <1>5

LEMMA PlusStep ==
    ASSUME Checked, NEW sp \in 0 .. Len(sub), NEW tp \in 0 .. Len(topic), Aligned(sp, tp),
           sp < Len(sub), tp < Len(topic), sub[sp + 1] = "+", NEW e, NextStop(topic, tp, e)
    PROVE  Aligned(sp + 1, e) /\ ~ Alike(sp + 1, e)
<1>1. /\ Len(sub) \in Nat /\ sp \in Nat /\ tp \in Nat /\ Len(topic) \in Nat
      /\ topic \in Seq(TopicChars) /\ tp + 1 \in 1 .. Len(topic)
  BY TopicCharacters, SubCharacters
<1>2. /\ Start(sub, sp) = sp /\ Start(topic, tp) = tp
      /\ Start(sub, sp + 1) = sp /\ Behind(sub, sp + 1) = Behind(sub, sp)
      /\ sp + 2 \in Stops(sub)
  BY AtWildcard
<1>3. /\ e \in tp .. Len(topic) /\ e + 1 \in Stops(topic)
      /\ \A j \in tp + 1 .. e : j \notin Stops(topic)
  BY DEF NextStop
<1>4. Behind(topic, e) = Behind(topic, tp) /\ Start(topic, e) = tp
  BY ONLY <1>1, <1>2, <1>3, tp \in 0 .. Len(topic), SameLevel
<1>5. Skipped(sp + 1, e)
  <2>1. (sp + 1) + 1 = sp + 2
    BY ONLY <1>1
  <2>. QED  BY ONLY <1>2, <1>3, <2>1, sub[sp + 1] = "+" DEF Skipped
<1>6. ~ Alike(sp + 1, e)
  <2>1. (sp + 1) - sp = 1 /\ 1 \in 1 .. 1
    BY ONLY <1>1
  <2>2. topic[tp + 1] # "+"
    BY <1>1, TopicCharacters
  <2>. QED  BY ONLY <1>2, <1>4, <2>1, <2>2, sub[sp + 1] = "+" DEF Alike
<1>7. /\ Behind(sub, sp) = Behind(topic, tp)
      /\ \A i \in 1 .. Behind(sub, sp) : Fits(Tokens(sub)[i], Tokens(topic)[i])
  BY DEF Aligned
<1>. QED  BY ONLY <1>2, <1>4, <1>5, <1>6, <1>7 DEF Aligned

-----------------------------------------------------------------------------
(* Topics: where the walk returns.                                         *)

\* What all the cases below use of an aligned walk.
LEMMA AlignedFacts ==
    ASSUME Checked, NEW sp \in 0 .. Len(sub), NEW tp \in 0 .. Len(topic), Aligned(sp, tp)
    PROVE  /\ Len(sub) \in Nat /\ Len(topic) \in Nat /\ sp \in Nat /\ tp \in Nat
           /\ sub \in Seq(SubChars) /\ topic \in Seq(TopicChars)
           /\ Len(Tokens(sub)) \in Nat /\ Len(Tokens(topic)) \in Nat
           /\ Behind(sub, sp) \in Nat /\ Behind(topic, tp) = Behind(sub, sp)
           /\ \A i \in 1 .. Behind(sub, sp) : Fits(Tokens(sub)[i], Tokens(topic)[i])
           /\ Alike(sp, tp) \/ Skipped(sp, tp)
<1>1. /\ Len(sub) \in Nat /\ sp \in Nat /\ tp \in Nat /\ Len(topic) \in Nat
      /\ sub \in Seq(SubChars) /\ topic \in Seq(TopicChars)
  BY SubCharacters, TopicCharacters
<1>2. Behind(sub, sp) \in Nat
  <2>1. sp \in 0 .. Len(sub) + 1
    BY ONLY <1>1, sp \in 0 .. Len(sub)
  <2>. QED  BY ONLY <1>1, <2>1, BehindSet
<1>3. PICK e \in sp .. Len(sub) : NextStop(sub, sp, e)
  BY <1>1, StopAhead
<1>4. PICK f \in tp .. Len(topic) : NextStop(topic, tp, f)
  BY <1>1, StopAhead
<1>5. Len(Tokens(sub)) \in Nat /\ Len(Tokens(topic)) \in Nat
  <2>1. IsLevel(sub, Behind(sub, sp) + 1, Start(sub, sp), e)
    BY <1>1, <1>3, LevelText
  <2>2. IsLevel(topic, Behind(topic, tp) + 1, Start(topic, tp), f)
    BY <1>1, <1>4, LevelText
  <2>. QED  BY ONLY <2>1, <2>2 DEF IsLevel
<1>. QED  BY <1>1, <1>2, <1>5 DEF Aligned

\* Where the next level of a string is, and that it is the last.
LEMMA LevelCount ==
    ASSUME NEW S, NEW str \in Seq(S), NEW pos \in 0 .. Len(str), pos + 1 \in Stops(str)
    PROVE  /\ Behind(str, pos) + 1 \in 1 .. Len(Tokens(str)) /\ Len(Tokens(str)) \in Nat
           /\ Behind(str, pos) + 1 = Len(Tokens(str)) <=> pos = Len(str)
<1>1. Len(str) \in Nat /\ pos \in Nat /\ pos \in pos .. Len(str) /\ \A j \in pos + 1 .. pos : FALSE
  OBVIOUS
<1>2. NextStop(str, pos, pos)
  BY <1>1 DEF NextStop
<1>3. IsLevel(str, Behind(str, pos) + 1, Start(str, pos), pos)
  BY <1>1, <1>2, LevelText
<1>. QED  BY ONLY <1>3 DEF IsLevel

\* Both strings are at an end: as many levels, and each fits.
LEMMA MatchAtEnds ==
    ASSUME Checked, Aligned(Len(sub), Len(topic))
    PROVE  Matches(Tokens(sub), Tokens(topic)) /\ Last(Tokens(sub)) # <<"#">>
<1>. DEFINE sp == Len(sub)
            tp == Len(topic)
            k == Behind(sub, sp) + 1
<1>1. /\ Len(sub) \in Nat /\ Len(topic) \in Nat /\ sp \in 0 .. Len(sub)
      /\ tp \in 0 .. Len(topic) /\ sp + 1 \in Stops(sub) /\ tp + 1 \in Stops(topic)
  BY SubCharacters, TopicCharacters
<1>2. /\ sub \in Seq(SubChars) /\ topic \in Seq(TopicChars)
      /\ Behind(sub, sp) \in Nat /\ Behind(topic, tp) = Behind(sub, sp)
      /\ \A i \in 1 .. Behind(sub, sp) : Fits(Tokens(sub)[i], Tokens(topic)[i])
      /\ Alike(sp, tp) \/ Skipped(sp, tp)
  BY <1>1, AlignedFacts
<1>3. /\ Len(Tokens(sub)) = k /\ Len(Tokens(topic)) = k /\ k \in Nat
  BY <1>1, <1>2, LevelCount
<1>4. Fits(Tokens(sub)[k], Tokens(topic)[k]) /\ Tokens(sub)[k] # <<"#">>
  <2>1. CASE Alike(sp, tp)
    <3>1. Tokens(topic)[k] = Tokens(sub)[k] /\ ~ Wild(Tokens(sub)[k])
      BY <1>1, <1>2, <2>1, AlikeLevel
    <3>. QED  BY ONLY <3>1 DEF Fits, Wild
  <2>2. CASE Skipped(sp, tp)
    <3>1. Tokens(sub)[k] = <<"+">>
      BY <1>1, <2>2, SkippedLevel DEF Skipped
    <3>. QED  BY ONLY <3>1 DEF Fits
  <2>. QED  BY ONLY <1>2, <2>1, <2>2
<1>5. \A i \in 1 .. k : Fits(Tokens(sub)[i], Tokens(topic)[i])
  BY ONLY <1>2, <1>4
<1>. HIDE DEF k
<1>6. Last(Tokens(sub)) # <<"#">>
  BY ONLY <1>3, <1>4 DEF Last
<1>. QED  BY ONLY <1>3, <1>5, <1>6, AllFit

\* The topic is at its end and a "+" is left: it stands for an empty level.
LEMMA MatchPlusAtEnd ==
    ASSUME Checked, NEW sp \in 0 .. Len(sub), sp + 1 = Len(sub), sub[sp + 1] = "+",
           Aligned(sp, Len(topic))
    PROVE  Matches(Tokens(sub), Tokens(topic)) /\ Last(Tokens(sub)) # <<"#">>
<1>. DEFINE tp == Len(topic)
            k == Behind(sub, sp) + 1
<1>1. /\ Len(sub) \in Nat /\ Len(topic) \in Nat /\ sp < Len(sub) /\ sp \in Nat
      /\ tp \in 0 .. Len(topic) /\ tp + 1 \in Stops(topic)
  BY SubCharacters, TopicCharacters
<1>2. /\ topic \in Seq(TopicChars)
      /\ Behind(sub, sp) \in Nat /\ Behind(topic, tp) = Behind(sub, sp)
      /\ \A i \in 1 .. Behind(sub, sp) : Fits(Tokens(sub)[i], Tokens(topic)[i])
  BY <1>1, AlignedFacts
<1>3. Len(Tokens(topic)) = k /\ k \in Nat
  BY <1>1, <1>2, LevelCount
<1>4. Len(Tokens(sub)) = k /\ Tokens(sub)[k] = <<"+">>
  BY <1>1, AtWildcard
<1>5. \A i \in 1 .. k : Fits(Tokens(sub)[i], Tokens(topic)[i])
  BY ONLY <1>2, <1>4 DEF Fits
<1>. HIDE DEF k
<1>6. Last(Tokens(sub)) # <<"#">>
  BY ONLY <1>4 DEF Last
<1>. QED  BY ONLY <1>3, <1>4, <1>5, <1>6, AllFit

\* A "/#" is left of the subscription, or no more than it is.
LEMMA HashLevel ==
    ASSUME Checked, NEW sp \in 0 .. Len(sub), sp < Len(sub), sub[sp + 1] = "/"
    PROVE  /\ Behind(sub, sp) + 1 < Len(Tokens(sub)) /\ Len(Tokens(sub)) \in Nat
           /\ (Len(Tokens(sub)) = Behind(sub, sp) + 2 /\ Last(Tokens(sub)) = <<"#">>)
              <=> (sp + 2 = Len(sub) /\ sub[sp + 2] = "#")
<1>. DEFINE q == sp + 1
            k == Behind(sub, sp) + 2
<1>1. /\ Len(sub) \in Nat /\ sub \in Seq(SubChars) /\ sp \in Nat /\ q \in Stops(sub)
      /\ q \in 0 .. Len(sub) /\ q + 1 = sp + 2
  BY SubCharacters
<1>2. Behind(sub, q) = Behind(sub, sp) + 1 /\ Start(sub, q) = q
  BY <1>1, BehindSeparator
<1>3. Behind(sub, sp) \in Nat
  <2>1. sp \in 0 .. Len(sub) + 1
    BY ONLY <1>1, sp \in 0 .. Len(sub)
  <2>. QED  BY ONLY <1>1, <2>1, BehindSet
<1>4. PICK e \in q .. Len(sub) : NextStop(sub, q, e)
  BY <1>1, StopAhead
<1>5. Reads(sub, SubChars, q, k, q, e)
  <2>1. Reads(sub, SubChars, q, Behind(sub, q) + 1, Start(sub, q), e)
    BY <1>1, <1>4, LevelReads
  <2>2. Behind(sub, q) + 1 = k
    BY ONLY <1>2, <1>3
  <2>. QED  BY ONLY <1>2, <2>1, <2>2
<1>. HIDE DEF k, q
<1>6. /\ k \in 1 .. Len(Tokens(sub)) /\ Len(Tokens(sub)) \in Nat
      /\ k = Len(Tokens(sub)) <=> e = Len(sub)
      /\ Tokens(sub)[k] \in Seq(SubChars) /\ Len(Tokens(sub)[k]) = e - q
      /\ \A i \in 1 .. e - q : Tokens(sub)[k][i] = sub[q + i]
      /\ e \in Nat /\ q \in Nat /\ q <= e /\ e <= Len(sub)
  BY ONLY <1>1, <1>5 DEF Reads
<1>7. Behind(sub, sp) + 1 < Len(Tokens(sub))
  BY ONLY <1>3, <1>6 DEF k
<1>8. ASSUME Len(Tokens(sub)) = k, Last(Tokens(sub)) = <<"#">>
      PROVE  q + 1 = Len(sub) /\ sub[q + 1] = "#"
  <2>1. Tokens(sub)[k] = <<"#">> /\ e = Len(sub)
    BY ONLY <1>6, <1>8 DEF Last
  <2>2. Len(Tokens(sub)[k]) = 1 /\ Tokens(sub)[k][1] = "#"
    BY ONLY <1>6, <2>1, Single
  <2>3. e - q = 1 /\ q + 1 = e
    BY ONLY <1>6, <2>2
  <2>. QED  BY ONLY <1>6, <2>1, <2>2, <2>3
<1>9. ASSUME q + 1 = Len(sub), sub[q + 1] = "#"
      PROVE  Len(Tokens(sub)) = k /\ Last(Tokens(sub)) = <<"#">>
  <2>1. q + 1 \notin Stops(sub)
    <3>1. q + 1 \in 1 .. Len(sub)
      BY ONLY <1>1, <1>6, <1>9
    <3>2. sub[q + 1] # "/"
      BY ONLY <1>9
    <3>. QED  BY <3>1, <3>2, SubCharacters
  <2>2. e # q
    BY ONLY <1>4, <2>1 DEF NextStop
  <2>3. e = Len(sub) /\ e - q = 1 /\ 1 \in 1 .. 1
    BY ONLY <1>1, <1>6, <1>9, <2>2
  <2>4. Len(Tokens(sub)[k]) = 1 /\ Tokens(sub)[k][1] = "#"
    BY ONLY <1>6, <1>9, <2>3
  <2>5. Tokens(sub)[k] = <<"#">>
    BY ONLY <1>6, <2>4, Single
  <2>. QED  BY ONLY <1>6, <2>3, <2>5 DEF Last
<1>. QED  BY ONLY <1>1, <1>6, <1>7, <1>8, <1>9 DEF k, q

\* The topic is at its end and a "/#" is left: the level above is enough.
LEMMA MatchParent ==
    ASSUME Checked, NEW sp \in 0 .. Len(sub), sp + 2 = Len(sub), sub[sp + 1] = "/",
           sub[sp + 2] = "#", Aligned(sp, Len(topic)), Alike(sp, Len(topic)), topic # <<>>
    PROVE  Matches(Tokens(sub), Tokens(topic)) /\ ~ MissedParent
<1>. DEFINE tp == Len(topic)
            k == Behind(sub, sp) + 1
<1>1. /\ Len(sub) \in Nat /\ Len(topic) \in Nat /\ sp < Len(sub) /\ sp \in Nat
      /\ tp \in 0 .. Len(topic) /\ tp + 1 \in Stops(topic)
      /\ sp + 1 \in 1 .. Len(sub) /\ sp + 1 \in Stops(sub)
  BY SubCharacters, TopicCharacters
<1>2. /\ topic \in Seq(TopicChars)
      /\ Behind(sub, sp) \in Nat /\ Behind(topic, tp) = Behind(sub, sp)
      /\ \A i \in 1 .. Behind(sub, sp) : Fits(Tokens(sub)[i], Tokens(topic)[i])
  BY <1>1, AlignedFacts
<1>3. Len(Tokens(topic)) = k /\ k \in Nat
  BY <1>1, <1>2, LevelCount
<1>4. Len(Tokens(sub)) = k + 1 /\ Last(Tokens(sub)) = <<"#">>
  <2>1. Len(Tokens(sub)) = Behind(sub, sp) + 2 /\ Last(Tokens(sub)) = <<"#">>
    BY <1>1, HashLevel
  <2>. QED  BY ONLY <1>2, <2>1
<1>5. Tokens(topic)[k] = Tokens(sub)[k] /\ ~ Wild(Tokens(sub)[k])
  BY <1>1, <1>2, AlikeLevel
<1>6. \A i \in 1 .. k : Fits(Tokens(sub)[i], Tokens(topic)[i])
  BY ONLY <1>2, <1>5 DEF Fits
<1>. HIDE DEF k
<1>7. Matches(Tokens(sub), Tokens(topic))
  <2>1. Len(Tokens(sub)) \in Nat /\ Len(Tokens(topic)) \in Nat /\ k <= Len(Tokens(topic))
    BY ONLY <1>3, <1>4
  <2>. QED  BY ONLY <1>3, <1>4, <1>6, <2>1, AllFit
<1>8. ~ MissedParent
  <2>1. Len(Tokens(sub)) - 1 = k /\ Len(Tokens(topic)) # k + 1 /\ Tokens(sub)[k] # <<"+">>
    BY ONLY <1>3, <1>4, <1>5 DEF Wild
  <2>. QED  BY <2>1 DEF MissedParent
<1>. QED  BY ONLY <1>7, <1>8

\* A "#" is read before the topic is at its end.
LEMMA MatchAtHash ==
    ASSUME Checked, NEW sp \in 0 .. Len(sub), NEW tp \in 0 .. Len(topic), Aligned(sp, tp),
           sp < Len(sub), tp < Len(topic), sub[sp + 1] = "#"
    PROVE  sp + 1 = Len(sub) /\ Matches(Tokens(sub), Tokens(topic)) /\ ~ MissedParent
<1>. DEFINE k == Behind(sub, sp) + 1
<1>1. /\ Len(sub) \in Nat /\ Len(topic) \in Nat /\ sp \in Nat /\ tp \in Nat
      /\ topic \in Seq(TopicChars)
      /\ Behind(sub, sp) \in Nat /\ Behind(topic, tp) = Behind(sub, sp)
      /\ \A i \in 1 .. Behind(sub, sp) : Fits(Tokens(sub)[i], Tokens(topic)[i])
  BY AlignedFacts
<1>2. /\ sp + 1 = Len(sub) /\ Start(topic, tp) = tp
      /\ Len(Tokens(sub)) = k /\ Tokens(sub)[k] = <<"#">>
  <2>1. /\ Start(topic, tp) = tp
        /\ sp + 1 < Len(sub) => sub[sp + 1] = "+"
        /\ Tokens(sub)[k] = <<sub[sp + 1]>>
        /\ k = Len(Tokens(sub)) <=> sp + 1 = Len(sub)
    BY AtWildcard
  <2>2. sp + 1 = Len(sub)
    BY ONLY <1>1, <2>1, sp < Len(sub), sub[sp + 1] = "#"
  <2>. QED  BY ONLY <2>1, <2>2, sub[sp + 1] = "#"
<1>3. PICK f \in tp .. Len(topic) : NextStop(topic, tp, f)
  BY <1>1, StopAhead
<1>4. Reads(topic, TopicChars, tp, k, tp, f)
  BY <1>1, <1>2, <1>3, LevelReads
<1>5. /\ k \in 1 .. Len(Tokens(topic)) /\ Len(Tokens(topic)) \in Nat
      /\ k = Len(Tokens(topic)) <=> f = Len(topic)
      /\ Len(Tokens(topic)[k]) = f - tp
  BY ONLY <1>4 DEF Reads
<1>. HIDE DEF k
<1>6. Last(Tokens(sub)) = <<"#">> /\ k - 1 \in Nat /\ k - 1 = Behind(sub, sp) /\ k \in Nat
  BY ONLY SMTT(40), <1>1, <1>2 DEF Last, k
<1>7. Matches(Tokens(sub), Tokens(topic))
  <2>1. /\ Len(Tokens(sub)) \in Nat /\ Len(Tokens(sub)) = (k - 1) + 1
        /\ k - 1 <= Len(Tokens(topic))
    BY ONLY <1>2, <1>5, <1>6
  <2>2. \A i \in 1 .. k - 1 : Fits(Tokens(sub)[i], Tokens(topic)[i])
    BY ONLY <1>1, <1>6
  <2>. QED  BY ONLY <1>5, <1>6, <2>1, <2>2, AllFit
<1>8. ~ MissedParent
  <2>1. Len(Tokens(sub)) - 1 = k - 1 /\ Len(Tokens(topic)) # k - 1 /\ (k - 1) + 1 = k
    BY ONLY <1>2, <1>5, <1>6
  <2>2. ASSUME Len(Tokens(topic)) = k  PROVE Last(Tokens(topic)) # <<>>
    <3>1. Len(Tokens(topic)[k]) # 0
      BY ONLY <1>1, <1>5, <2>2, tp < Len(topic)
    <3>. QED  BY ONLY <2>2, <3>1 DEF Last
  <2>3. topic # <<>>
    BY <1>1
  <2>. QED  BY ONLY <2>1, <2>2, <2>3 DEF MissedParent
<1>. QED  BY ONLY <1>2, <1>7, <1>8

\* A character of the subscription that is no wildcard differs from the topic's,
\* or the topic is at its end.
LEMMA NoMatchDiffers ==
    ASSUME Checked, NEW sp \in 0 .. Len(sub), NEW tp \in 0 .. Len(topic), Aligned(sp, tp),
           Alike(sp, tp), sp < Len(sub), sub[sp + 1] \notin {"+", "#", "/"},
           tp < Len(topic) => topic[tp + 1] # sub[sp + 1]
    PROVE  ~ Matches(Tokens(sub), Tokens(topic))
<1>. DEFINE k == Behind(sub, sp) + 1
            s == Start(sub, sp)
            t == Start(topic, tp)
            w == Tokens(sub)[k]
            v == Tokens(topic)[k]
<1>1. /\ Len(sub) \in Nat /\ Len(topic) \in Nat /\ sp \in Nat /\ tp \in Nat
      /\ sub \in Seq(SubChars) /\ topic \in Seq(TopicChars)
      /\ Len(Tokens(sub)) \in Nat /\ Len(Tokens(topic)) \in Nat
      /\ Behind(sub, sp) \in Nat /\ Behind(topic, tp) = Behind(sub, sp)
  BY AlignedFacts
<1>2. PICK e \in sp .. Len(sub) : NextStop(sub, sp, e)
  BY <1>1, StopAhead
<1>3. PICK f \in tp .. Len(topic) : NextStop(topic, tp, f)
  BY <1>1, StopAhead
<1>4. Reads(sub, SubChars, sp, k, s, e)
  BY <1>1, <1>2, LevelReads
<1>5. Reads(topic, TopicChars, tp, k, t, f)
  BY <1>1, <1>3, LevelReads
<1>6. /\ s \in Nat /\ t \in Nat /\ e \in Nat /\ f \in Nat /\ s <= sp /\ t <= tp
      /\ sp <= e /\ tp <= f /\ f <= Len(topic)
  <2>. HIDE DEF k, s, t
  <2>. QED  BY ONLY <1>1, <1>4, <1>5 DEF Reads
<1>7. sp - s = tp - t /\ \A i \in 1 .. sp - s : sub[s + i] = topic[t + i]
  BY DEF Alike
<1>8. /\ k \in 1 .. Len(Tokens(sub)) /\ w \in Seq(SubChars) /\ Len(w) = e - s
      /\ \A i \in 1 .. e - s : w[i] = sub[s + i]
      /\ Len(v) = f - t /\ \A i \in 1 .. f - t : v[i] = topic[t + i]
  BY ONLY <1>4, <1>5 DEF Reads
<1>. HIDE DEF k, s, t, w, v
<1>. DEFINE n == (sp - s) + 1
<1>9. sp < e
  <2>1. sp + 1 \notin Stops(sub)
    <3>1. sp + 1 \in 1 .. Len(sub)
      BY ONLY <1>1, sp < Len(sub)
    <3>. QED  BY <3>1, SubCharacters
  <2>2. e # sp
    BY ONLY <1>2, <2>1 DEF NextStop
  <2>. QED  BY ONLY <1>1, <1>6, <2>2
<1>10. n \in 1 .. e - s /\ s + n = sp + 1 /\ t + n = tp + 1 /\ n \in Nat /\ n > 0
  BY ONLY <1>1, <1>6, <1>7, <1>9
<1>11. w[n] = sub[sp + 1]
  BY ONLY SMTT(40), <1>8, <1>10
<1>12. w # v
  <2>1. CASE f = tp
    <3>1. Len(w) # Len(v)
      BY ONLY SMTT(40), <1>1, <1>6, <1>7, <1>8, <1>9, <2>1
    <3>. QED  BY ONLY <3>1
  <2>2. CASE f # tp
    <3>1. n \in 1 .. f - t /\ tp < Len(topic)
      BY ONLY <1>1, <1>6, <1>7, <2>2
    <3>2. v[n] = topic[tp + 1]
      BY ONLY SMTT(40), <1>8, <1>10, <3>1
    <3>. QED  BY ONLY <1>11, <3>1, <3>2, tp < Len(topic) => topic[tp + 1] # sub[sp + 1]
  <2>. QED  BY ONLY <2>1, <2>2
<1>13. ~ Wild(w)
  <2>1. ASSUME Len(w) = 1  PROVE w[1] \notin {"+", "#"}
    <3>1. n = 1
      <4>1. e - s = 1
        BY ONLY <1>8, <2>1
      <4>. QED  BY ONLY <1>10, <4>1
    <3>. QED  BY ONLY <1>11, <3>1, sub[sp + 1] \notin {"+", "#", "/"}
  <2>2. \A c : w = <<c>> => Len(w) = 1 /\ w[1] = c
    BY ONLY <1>8, Single
  <2>. QED  BY ONLY <2>1, <2>2 DEF Wild
<1>. QED  BY ONLY <1>1, <1>8, <1>12, <1>13, LevelDiffers DEF w, v

\* A separator of the subscription is where the topic's level goes on.
LEMMA NoMatchShorter ==
    ASSUME Checked, NEW sp \in 0 .. Len(sub), NEW tp \in 0 .. Len(topic), Aligned(sp, tp),
           Alike(sp, tp), sp + 1 \in Stops(sub), tp + 1 \notin Stops(topic)
    PROVE  ~ Matches(Tokens(sub), Tokens(topic))
<1>. DEFINE k == Behind(sub, sp) + 1
<1>1. /\ sub \in Seq(SubChars)
      /\ Len(Tokens(sub)) \in Nat /\ Len(Tokens(topic)) \in Nat
      /\ Behind(topic, tp) = Behind(sub, sp)
  BY AlignedFacts
<1>2. k \in 1 .. Len(Tokens(sub))
  BY <1>1, LevelCount
<1>3. ~ Wild(Tokens(sub)[k]) /\ Tokens(topic)[k] # Tokens(sub)[k]
  BY <1>1, AlikeLevel
<1>. HIDE DEF k
<1>. QED  BY ONLY <1>1, <1>2, <1>3, LevelDiffers

\* The subscription is at its end, the topic is not.
LEMMA NoMatchTopicLonger ==
    ASSUME Checked, NEW tp \in 0 .. Len(topic), tp < Len(topic), Aligned(Len(sub), tp)
    PROVE  ~ Matches(Tokens(sub), Tokens(topic))
<1>. DEFINE sp == Len(sub)
            k == Behind(sub, sp) + 1
<1>1. sp \in 0 .. Len(sub) /\ sp + 1 \in Stops(sub)
  BY SubCharacters
<1>2. /\ sub \in Seq(SubChars) /\ topic \in Seq(TopicChars)
      /\ Len(Tokens(sub)) \in Nat /\ Len(Tokens(topic)) \in Nat
      /\ Behind(topic, tp) = Behind(sub, sp)
      /\ Alike(sp, tp) \/ Skipped(sp, tp)
  BY <1>1, AlignedFacts
<1>3. CASE tp + 1 \in Stops(topic)
  <2>1. Len(Tokens(sub)) = k
    BY <1>1, <1>2, LevelCount
  <2>2. Len(Tokens(topic)) # k
    BY SMTT(40), <1>2, <1>3, LevelCount
  <2>3. Tokens(sub)[k] # <<"#">>
    <3>1. CASE Alike(sp, tp)
      <4>1. ~ Wild(Tokens(sub)[k])
        BY <1>1, <1>2, <3>1, AlikeLevel
      <4>. QED  BY ONLY <4>1 DEF Wild
    <3>2. CASE Skipped(sp, tp)
      <4>1. Tokens(sub)[k] = <<"+">>
        BY <1>1, <3>2, SkippedLevel DEF Skipped
      <4>. QED  BY ONLY <4>1
    <3>. QED  BY ONLY <1>2, <3>1, <3>2
  <2>. HIDE DEF k
  <2>4. Last(Tokens(sub)) # <<"#">>
    BY ONLY <2>1, <2>3 DEF Last
  <2>. QED  BY ONLY <1>2, <2>1, <2>2, <2>4, CountDiffers
<1>4. CASE tp + 1 \notin Stops(topic)
  <2>1. Alike(sp, tp)
    BY ONLY <1>2, <1>4 DEF Skipped
  <2>. QED  BY <1>1, <1>4, <2>1, NoMatchShorter
<1>. QED  BY ONLY <1>3, <1>4

\* The topic is at its end, the subscription is not; the matches that are left
\* are those that the walk misses.
LEMMA NoMatchSubLonger ==
    ASSUME Checked, NEW sp \in 0 .. Len(sub), sp < Len(sub), Aligned(sp, Len(topic)),
           topic # <<>>, Alike(sp, Len(topic)) =>
               /\ ~ (sp + 1 = Len(sub) /\ sub[sp + 1] = "+")
               /\ ~ (sp + 2 = Len(sub) /\ sub[sp + 1] = "/" /\ sub[sp + 2] = "#")
    PROVE  Matches(Tokens(sub), Tokens(topic)) => MissedParent
<1>. DEFINE tp == Len(topic)
            k == Behind(sub, sp) + 1
<1>1. tp \in 0 .. Len(topic) /\ tp + 1 \in Stops(topic) /\ topic \in Seq(TopicChars)
  BY TopicCharacters
<1>2. /\ sub \in Seq(SubChars) /\ Len(sub) \in Nat /\ sp \in Nat /\ Len(topic) \in Nat
      /\ Len(Tokens(sub)) \in Nat /\ Len(Tokens(topic)) \in Nat
      /\ Behind(topic, tp) = Behind(sub, sp) /\ Behind(sub, sp) \in Nat
      /\ Alike(sp, tp) \/ Skipped(sp, tp)
      /\ sp + 1 \in 1 .. Len(sub)
  BY <1>1, AlignedFacts
<1>3. Len(Tokens(topic)) = k /\ k \in Nat /\ k > 0
  <2>1. /\ Behind(topic, tp) + 1 \in 1 .. Len(Tokens(topic))
        /\ Behind(topic, tp) + 1 = Len(Tokens(topic)) <=> tp = Len(topic)
    BY ONLY SMTT(40), <1>1, LevelCount
  <2>. QED  BY ONLY SMTT(40), <1>2, <2>1
<1>4. ASSUME Tokens(sub)[k] = <<"+">>, k < Len(Tokens(sub)),
             Matches(Tokens(sub), Tokens(topic))
      PROVE  MissedParent
  <2>1. Last(Tokens(sub)) = <<"#">> /\ Len(Tokens(sub)) = k + 1
    BY SMTT(40), <1>2, <1>3, <1>4, CountDiffers
  <2>2. Len(Tokens(sub)) - 1 = k
    BY ONLY <1>3, <2>1
  <2>. QED  BY <1>3, <1>4, <2>1, <2>2 DEF MissedParent
<1>5. CASE Skipped(sp, tp)
  <2>1. Tokens(sub)[k] = <<"+">> /\ k # Len(Tokens(sub)) /\ k \in 1 .. Len(Tokens(sub))
    BY SMTT(40), <1>2, <1>5, SkippedLevel DEF Skipped
  <2>2. k < Len(Tokens(sub))
    BY ONLY <1>2, <1>3, <2>1
  <2>. QED  BY ONLY <1>4, <2>1, <2>2
<1>6. CASE Alike(sp, tp) /\ sub[sp + 1] = "+"
  <2>1. sp + 1 # Len(sub)
    BY <1>6
  <2>2. /\ Tokens(sub)[k] = <<"+">> /\ k # Len(Tokens(sub)) /\ k \in 1 .. Len(Tokens(sub))
    BY <1>1, <1>6, <2>1, AtWildcard
  <2>3. k < Len(Tokens(sub))
    BY ONLY <1>2, <1>3, <2>2
  <2>. QED  BY ONLY <1>4, <2>2, <2>3
<1>7. CASE Alike(sp, tp) /\ sub[sp + 1] = "/"
  <2>1. /\ k < Len(Tokens(sub))
        /\ ~ (Len(Tokens(sub)) = Behind(sub, sp) + 2 /\ Last(Tokens(sub)) = <<"#">>)
    BY <1>7, HashLevel
  <2>2. Len(Tokens(sub)) > k + 1 \/ Last(Tokens(sub)) # <<"#">>
    BY ONLY <1>2, <1>3, <2>1
  <2>3. \/ Len(Tokens(sub)) > Len(Tokens(topic)) + 1
        \/ Len(Tokens(sub)) # Len(Tokens(topic)) /\ Last(Tokens(sub)) # <<"#">>
    BY ONLY <1>2, <1>3, <2>1, <2>2
  <2>. QED  BY ONLY <1>2, <2>3, CountDiffers
<1>8. CASE Alike(sp, tp) /\ sub[sp + 1] = "#"
  <2>1. /\ Start(topic, tp) = tp
        /\ sp + 1 < Len(sub) => sub[sp + 1] = "+"
        /\ Tokens(sub)[k] = <<sub[sp + 1]>>
        /\ k = Len(Tokens(sub)) <=> sp + 1 = Len(sub)
    BY <1>1, <1>8, AtWildcard
  <2>2. Len(Tokens(sub)) = k /\ Tokens(sub)[k] = <<"#">>
    BY SMTT(40), <1>2, <1>8, <2>1
  <2>3. tp > 0 /\ tp \in Stops(topic)
    <3>1. tp # 0
      BY <1>1
    <3>2. StartsLevel(topic, tp, tp)
      BY <1>1, <2>1, StartLaw
    <3>. QED  BY ONLY <1>2, <3>1, <3>2 DEF StartsLevel
  <2>4. k > 1
    <3>1. 0 \in 0 .. Len(topic) + 1 /\ tp \in 0 .. Len(topic) + 1 /\ 0 < tp /\ 0 <= tp
      BY ONLY <1>2, <2>3
    <3>2. Behind(topic, 0) < Behind(topic, tp)
      BY ONLY <1>1, <2>3, <3>1, BehindGrows
    <3>3. Behind(topic, 0) = 0
      BY <1>1, BehindZero
    <3>. QED  BY ONLY <1>2, <3>2, <3>3
  <2>5. Tokens(topic)[k] = <<>>
    <3>1. NextStop(topic, tp, tp)
      BY <1>1, <1>2 DEF NextStop
    <3>2. Reads(topic, TopicChars, tp, k, tp, tp)
      BY <1>1, <1>2, <2>1, <3>1, LevelReads
    <3>. HIDE DEF k, tp
    <3>3. Tokens(topic)[k] \in Seq(TopicChars) /\ Len(Tokens(topic)[k]) = 0
      BY ONLY <3>2 DEF Reads
    <3>. QED  BY ONLY <3>3, EmptySeq
  <2>. HIDE DEF k
  <2>6. /\ Last(Tokens(sub)) = <<"#">> /\ Len(Tokens(sub)) - 1 = k - 1 /\ k - 1 > 0
        /\ Len(Tokens(topic)) = (k - 1) + 1 /\ Last(Tokens(topic)) = <<>>
    BY ONLY <1>3, <2>2, <2>4, <2>5 DEF Last
  <2>. QED  BY ONLY <2>6 DEF MissedParent
<1>9. CASE Alike(sp, tp) /\ sub[sp + 1] \notin {"+", "/", "#"}
  <2>1. ~ (tp < Len(topic))
    BY <1>2
  <2>. QED  BY <1>1, <1>9, <2>1, NoMatchDiffers
<1>. QED  BY ONLY <1>2, <1>5, <1>6, <1>7, <1>8, <1>9

-----------------------------------------------------------------------------
(* Topics: the invariant.                                                  *)

TopicsTypes ==
    /\ Checked
    /\ spos \in 0 .. Len(sub) /\ tpos \in 0 .. Len(topic)
    /\ walk \in {"called", "walking", "returned"}
    /\ walk = "called" => spos = 0 /\ tpos = 0
    /\ walk # "returned" => result = "unset"

\* What the walk still may find at the end of the topic: "+" and "/#" have made
\* it return.
NothingMissed ==
    /\ spos # Len(sub)
    /\ Alike(spos, tpos) =>
          /\ ~ (spos + 1 = Len(sub) /\ sub[spos + 1] = "+")
          /\ ~ (spos + 2 = Len(sub) /\ sub[spos + 1] = "/" /\ sub[spos + 2] = "#")

Apart == Dollar(topic) /\ Wild(Tokens(sub)[1])

WalkInv ==
    walk = "walking" =>
        /\ ~ Apart
        /\ Aligned(spos, tpos)
        /\ topic = <<>> => spos = 0
        /\ tpos = Len(topic) /\ topic # <<>> => NothingMissed

TopicsInv == TopicsTypes /\ WalkInv /\ TopicsMatch

\* A character of C, read at a position from 0 on.
LEMMA AtIs ==
    ASSUME NEW S, NEW str \in Seq(S), NEW pos \in 0 .. Len(str)
    PROVE  /\ pos < Len(str) => At(str, pos) = str[pos + 1]
           /\ pos = Len(str) => At(str, pos) = "end"
BY DEF At

\* A string that starts with "$" has a first level that does.
LEMMA DollarLevel ==
    ASSUME Checked, Dollar(sub) \/ Len(sub) = 0
    PROVE  ~ Wild(Tokens(sub)[1])
<1>1. /\ sub \in Seq(SubChars) /\ Len(sub) \in Nat /\ 0 \in 0 .. Len(sub)
      /\ \A i \in 1 .. Len(sub) : i \in Stops(sub) <=> sub[i] = "/"
  BY SubCharacters
<1>2. PICK e \in 0 .. Len(sub) : NextStop(sub, 0, e)
  BY <1>1, StopAhead
<1>3. Start(sub, 0) = 0 /\ Behind(sub, 0) + 1 = 1
  <2>1. Start(sub, 0) \in 0 .. 0
    BY <1>1, StartLaw DEF StartsLevel
  <2>. QED  BY <1>1, <2>1, BehindZero
<1>4. Reads(sub, SubChars, 0, 1, 0, e)
  BY <1>1, <1>2, <1>3, LevelReads
<1>. DEFINE w == Tokens(sub)[1]
<1>5. w \in Seq(SubChars) /\ Len(w) = e - 0 /\ \A i \in 1 .. e - 0 : w[i] = sub[0 + i]
  BY ONLY <1>4 DEF Reads
<1>. HIDE DEF w
<1>6. ASSUME Len(w) = 1  PROVE w[1] \notin {"+", "#"}
  <2>1. e = 1 /\ 1 <= Len(sub) /\ Len(sub) # 0
    <3>1. e - 0 = 1
      BY ONLY <1>5, <1>6
    <3>2. Len(sub) \in Nat
      BY ONLY <1>1
    <3>. QED  BY ONLY <3>1, <3>2, e \in 0 .. Len(sub)
  <2>2. sub[1] = "$"
    BY <1>1, <2>1 DEF Dollar, At
  <2>3. w[1] = sub[1]
    <3>1. 1 \in 1 .. e - 0 /\ 0 + 1 = 1
      BY ONLY <2>1
    <3>. QED  BY ONLY <1>5, <3>1
  <2>. QED  BY ONLY <2>2, <2>3
<1>7. \A c : w = <<c>> => Len(w) = 1 /\ w[1] = c
  BY ONLY <1>5, Single
<1>8. ~ Wild(w)
  BY ONLY <1>6, <1>7 DEF Wild
<1>. QED  BY ONLY <1>8 DEF w

\* At the beginning the walk is aligned.
LEMMA AlignedFirst ==
    ASSUME Checked
    PROVE  /\ Aligned(0, 0) /\ Alike(0, 0) /\ Len(sub) \in Nat /\ Len(topic) \in Nat
           /\ 0 \in 0 .. Len(sub) /\ 0 \in 0 .. Len(topic)
<1>1. /\ sub \in Seq(SubChars) /\ Len(sub) \in Nat /\ topic \in Seq(TopicChars)
      /\ Len(topic) \in Nat /\ 0 \in 0 .. Len(sub) /\ 0 \in 0 .. Len(topic)
  BY SubCharacters, TopicCharacters
<1>2. Behind(sub, 0) = 0 /\ Behind(topic, 0) = 0
  BY <1>1, BehindZero
<1>3. Start(sub, 0) \in 0 .. 0 /\ Start(topic, 0) \in 0 .. 0
  BY <1>1, StartLaw DEF StartsLevel
<1>4. Alike(0, 0)
  <2>1. Start(sub, 0) = 0 /\ Start(topic, 0) = 0 /\ 0 - 0 = 0 /\ 1 .. 0 = {}
    BY ONLY <1>3
  <2>. QED  BY ONLY <2>1 DEF Alike
<1>. QED  BY <1>1, <1>2, <1>4 DEF Aligned

\* An answer of the walk is right.
Right(b) == b <=> (Expected /\ ~ MissedParent)

LEMMA Answered ==
    ASSUME UNCHANGED <<sub, topic>>, NEW b \in BOOLEAN, Return(b), Right(b),
           sub # <<>> \/ topic # <<>>
    PROVE  TopicsMatch' /\ WalkInv'
<1>1. Answer((Expected /\ ~ MissedParent)') = Answer(b)
  <2>1. (Expected /\ ~ MissedParent)' <=> (Expected /\ ~ MissedParent)
    BY DEF Expected, MissedParent, Matches, Tokens, Stops, Behind, Start, Dollar, At, Wild,
           Fits, Last
  <2>. QED  BY ZenonT(40), <2>1 DEF Right, Answer
<1>2. walk' = "returned" /\ result' = Answer(b) /\ sub' = sub /\ topic' = topic
  BY DEF Return
<1>. QED  BY <1>1, <1>2 DEF TopicsMatch, WalkInv

LEMMA TopicsInitHolds == TopicsInit => TopicsInv
<1>. SUFFICES ASSUME TopicsInit PROVE TopicsInv
  OBVIOUS
<1>1. ASSUME NEW chars, NEW str \in Strings(chars)  PROVE str \in Seq(chars)
  <2>1. PICK n \in 0 .. MaxTopic : str \in [1 .. n -> chars]
    BY <1>1 DEF Strings
  <2>2. n \in Nat
    BY <2>1, TopicsAssumption
  <2>. QED  BY ONLY <2>1, <2>2
<1>2. sub \in Strings(SubChars) /\ SubTopicCheck(sub) /\ topic \in Strings(TopicChars)
  BY DEF TopicsInit, SubChars, TopicChars
<1>3. Checked
  BY ONLY <1>1, <1>2 DEF Checked
<1>4. spos = 0 /\ tpos = 0 /\ walk = "called" /\ result = "unset"
  BY DEF TopicsInit
<1>5. TopicsTypes
  BY <1>3, <1>4, AlignedFirst DEF TopicsTypes
<1>. QED  BY ONLY <1>4, <1>5 DEF TopicsInv, WalkInv, TopicsMatch

LEMMA MatchCalledStep ==
    ASSUME TopicsInv, MatchCalled
    PROVE  TopicsMatch' /\ WalkInv'
<1>1. /\ Checked /\ spos = 0 /\ tpos = 0 /\ walk = "called" /\ result = "unset"
      /\ UNCHANGED <<sub, topic, spos, tpos>>
  BY DEF TopicsInv, TopicsTypes, MatchCalled
<1>2. /\ Aligned(0, 0) /\ Alike(0, 0) /\ Len(sub) \in Nat /\ Len(topic) \in Nat
      /\ 0 \in 0 .. Len(sub) /\ 0 \in 0 .. Len(topic)
      /\ sub \in Seq(SubChars) /\ topic \in Seq(TopicChars)
  BY <1>1, AlignedFirst, SubCharacters, TopicCharacters
<1>3. CASE slen > 0 /\ tlen > 0 /\ Dollar(sub) # Dollar(topic)
  <2>1. Return(FALSE) /\ sub # <<>> /\ 0 < Len(sub) /\ 0 < Len(topic)
    <3>1. Return(FALSE)
      BY ONLY <1>3, MatchCalled DEF MatchCalled
    <3>2. sub # <<>> /\ 0 < Len(sub) /\ 0 < Len(topic)
      BY ONLY <1>2, <1>3 DEF slen, tlen
    <3>. QED  BY ONLY <3>1, <3>2
  <2>2. Dollar(sub) <=> sub[0 + 1] = "$"
    BY <1>2, <2>1 DEF Dollar, At
  <2>3. Dollar(topic) <=> topic[0 + 1] = "$"
    BY <1>2, <2>1 DEF Dollar, At
  <2>4. ~ (Dollar(sub) <=> Dollar(topic))
    BY <1>3 DEF Dollar
  <2>5. ~ Expected
    <3>1. CASE sub[0 + 1] \in {"+", "#"}
      <4>1. Tokens(sub)[Behind(sub, 0) + 1] = <<sub[0 + 1]>>
        BY <1>1, <1>2, <2>1, <3>1, AtWildcard
      <4>2. Behind(sub, 0) + 1 = 1
        BY <1>2, BehindZero
      <4>3. Wild(Tokens(sub)[1])
        BY <3>1, <4>1, <4>2 DEF Wild
      <4>4. ~ Dollar(sub)
        BY <2>2, <3>1
      <4>. QED  BY <2>4, <4>3, <4>4 DEF Expected
    <3>2. CASE sub[0 + 1] = "/"
      <4>1. 0 + 1 \in Stops(sub) /\ 0 + 1 \notin Stops(topic)
        <5>1. 0 + 1 \in 1 .. Len(sub) /\ 0 + 1 \in 1 .. Len(topic)
          BY <1>2, <2>1
        <5>2. topic[0 + 1] = "$"
          BY <2>2, <2>3, <2>4, <3>2
        <5>3. topic[0 + 1] # "/"
          BY ONLY <5>2
        <5>. QED  BY <1>1, <3>2, <5>1, <5>3, SubCharacters, TopicCharacters
      <4>2. ~ Matches(Tokens(sub), Tokens(topic))
        BY <1>1, <1>2, <4>1, NoMatchShorter
      <4>. QED  BY <4>2 DEF Expected
    <3>3. CASE sub[0 + 1] \notin {"+", "#", "/"}
      <4>1. topic[0 + 1] # sub[0 + 1]
        BY <2>2, <2>3, <2>4
      <4>2. ~ Matches(Tokens(sub), Tokens(topic))
        BY <1>1, <1>2, <2>1, <3>3, <4>1, NoMatchDiffers
      <4>. QED  BY <4>2 DEF Expected
    <3>. QED  BY <3>1, <3>2, <3>3
  <2>6. Right(FALSE)
    BY <2>5 DEF Right
  <2>. QED  BY <1>1, <2>1, <2>6, Answered
<1>4. CASE ~ (slen > 0 /\ tlen > 0 /\ Dollar(sub) # Dollar(topic))
  <2>1. walk' = "walking" /\ result' = "unset"
    BY <1>1, <1>4 DEF MatchCalled
  <2>2. ~ Apart
    <3>1. ASSUME Dollar(topic)  PROVE Dollar(sub) \/ Len(sub) = 0
      <4>1. Len(topic) # 0
        BY <1>2, <3>1 DEF Dollar, At
      <4>2. Len(sub) = 0 \/ Dollar(sub) = Dollar(topic)
        BY <1>2, <1>4, <4>1 DEF slen, tlen
      <4>. QED  BY <3>1, <4>2
    <3>. QED  BY <1>1, <3>1, DollarLevel DEF Apart
  <2>3. Apart' = Apart /\ Aligned(spos, tpos)' = Aligned(spos', tpos')
    BY <1>1 DEF Apart, Wild, Tokens, Stops, Behind, Start, Dollar, At, Aligned, Alike,
                Skipped, Fits
  <2>4. ~ (tpos' = Len(topic') /\ topic' # <<>>)
    BY <1>1, <1>2
  <2>5. WalkInv'
    BY <1>1, <1>2, <2>2, <2>3, <2>4 DEF WalkInv
  <2>. QED  BY <2>1, <2>5 DEF TopicsMatch
<1>. QED  BY <1>3, <1>4

\* A walk goes on: the aligned positions, and what is left at the topic's end.
LEMMA WalksOn ==
    ASSUME TopicsInv, walk = "walking", UNCHANGED <<sub, topic, walk, result>>,
           Aligned(spos', tpos'), topic # <<>>,
           tpos' = Len(topic) =>
               /\ spos' # Len(sub)
               /\ Alike(spos', tpos') =>
                     /\ ~ (spos' + 1 = Len(sub) /\ sub[spos' + 1] = "+")
                     /\ ~ (spos' + 2 = Len(sub) /\ sub[spos' + 1] = "/" /\ sub[spos' + 2] = "#")
    PROVE  TopicsMatch' /\ WalkInv'
<1>1. ~ Apart
  BY DEF TopicsInv, WalkInv
<1>2. Apart' = Apart
  BY SMTT(40) DEF Apart, Wild, Tokens, Stops, Behind, Start, Dollar, At
<1>3. Aligned(spos, tpos)' = Aligned(spos', tpos') /\ Alike(spos, tpos)' = Alike(spos', tpos')
  BY DEF Tokens, Stops, Behind, Start, Aligned, Alike, Skipped, Fits
<1>4. tpos' = Len(topic) => NothingMissed'
  BY <1>3 DEF NothingMissed
<1>5. WalkInv'
  BY <1>1, <1>2, <1>3, <1>4 DEF WalkInv
<1>. QED  BY <1>5 DEF TopicsMatch

\* What a turn of the loop starts from.
LEMMA Turn ==
    ASSUME TopicsInv, Walking
    PROVE  /\ Checked /\ walk = "walking" /\ result = "unset" /\ ~ Apart
           /\ Aligned(spos, tpos)
           /\ spos \in 0 .. Len(sub) /\ spos < Len(sub) /\ tpos \in 0 .. Len(topic)
           /\ tpos < Len(topic) /\ spos \in Nat /\ tpos \in Nat
           /\ Len(sub) \in Nat /\ Len(topic) \in Nat /\ topic # <<>>
           /\ At(sub, spos) = sub[spos + 1] /\ At(topic, tpos) = topic[tpos + 1]
<1>1. /\ Checked /\ walk = "walking" /\ result = "unset" /\ ~ Apart /\ Aligned(spos, tpos)
      /\ spos \in 0 .. Len(sub) /\ spos < Len(sub) /\ tpos \in 0 .. Len(topic)
      /\ tpos < Len(topic)
  BY DEF TopicsInv, TopicsTypes, WalkInv, Walking, slen, tlen
<1>2. sub \in Seq(SubChars) /\ topic \in Seq(TopicChars) /\ Len(sub) \in Nat /\ Len(topic) \in Nat
  BY <1>1, SubCharacters, TopicCharacters
<1>. QED  BY <1>1, <1>2, AtIs

LEMMA MatchSameStep ==
    ASSUME TopicsInv, MatchSame
    PROVE  TopicsMatch' /\ WalkInv' /\ spos' \in 0 .. Len(sub) /\ tpos' \in 0 .. Len(topic)
<1>1. /\ Walking /\ UNCHANGED <<sub, topic>> /\ spos' = spos + 1 /\ tpos' = tpos + 1
      /\ IF ParentOf \/ BothEnd THEN Return(TRUE) ELSE UNCHANGED <<walk, result>>
      /\ At(sub, spos) = At(topic, tpos)
  BY DEF MatchSame
<1>2. /\ Checked /\ walk = "walking" /\ result = "unset" /\ ~ Apart
      /\ Aligned(spos, tpos)
      /\ spos \in 0 .. Len(sub) /\ spos < Len(sub) /\ tpos \in 0 .. Len(topic)
      /\ tpos < Len(topic) /\ spos \in Nat /\ tpos \in Nat
      /\ Len(sub) \in Nat /\ Len(topic) \in Nat /\ topic # <<>>
      /\ sub[spos + 1] = topic[tpos + 1]
  BY <1>1, Turn
<1>. DEFINE sp == spos + 1
            tp == tpos + 1
<1>3. Aligned(sp, tp) /\ Alike(sp, tp)
  BY <1>2, SameStep
<1>4. /\ sp \in Nat /\ sp \in 0 .. Len(sub) /\ tp \in Nat /\ tp \in 0 .. Len(topic)
      /\ sp >= 1
  BY ONLY <1>2
<1>5. /\ sub \in Seq(SubChars) /\ \A i \in 1 .. Len(sub) : sub[i] # "end"
  BY <1>2, SubCharacters
<1>6. At(sub, sp) = IF sp < Len(sub) THEN sub[sp + 1] ELSE "end"
  BY ONLY <1>4 DEF At
<1>7. At(sub, sp + 1) = IF sp + 1 < Len(sub) THEN sub[sp + 2] ELSE "end"
  <2>1. (sp + 1) + 1 = sp + 2
    BY ONLY <1>4
  <2>. QED  BY ONLY <2>1 DEF At
<1>. DEFINE parent == tp = Len(topic) /\ sp + 2 = Len(sub) /\ sub[sp + 1] = "/"
                      /\ sub[sp + 2] = "#"
            ends == tp = Len(topic) /\ sp = Len(sub)
            plus == tp = Len(topic) /\ sp + 1 = Len(sub) /\ sub[sp + 1] = "+"
<1>8. ParentOf <=> parent
  <2>1. spos + 2 = sp + 1 /\ (tpos = tlen - 1 <=> tp = Len(topic))
        /\ (spos = slen - 3 <=> sp + 2 = Len(sub))
    BY ONLY <1>2 DEF slen, tlen
  <2>2. sp + 2 = Len(sub) => sp < Len(sub) /\ sp + 1 < Len(sub)
    BY ONLY <1>2, <1>4
  <2>. QED  BY <1>6, <1>7, <2>1, <2>2 DEF ParentOf
<1>9. BothEnd <=> ends \/ plus
  <2>1. /\ tpos = tlen - 1 <=> tp = Len(topic)
        /\ spos = slen - 2 <=> sp + 1 = Len(sub)
        /\ sp + 1 = Len(sub) => sp < Len(sub)
        /\ sp < Len(sub) => sp + 1 \in 1 .. Len(sub)
        /\ ~ (sp < Len(sub)) <=> sp = Len(sub)
    BY ONLY <1>2, <1>4 DEF slen, tlen
  <2>2. At(sub, sp) = "end" <=> sp = Len(sub)
    BY ONLY <1>5, <1>6, <2>1
  <2>3. At(sub, sp) = "+" <=> sp < Len(sub) /\ sub[sp + 1] = "+"
    BY ONLY <1>6
  <2>. HIDE DEF sp, tp
  <2>4. BothEnd <=> /\ tp = Len(topic)
                    /\ At(sub, sp) \in {"+", "end"}
                    /\ At(sub, sp) = "+" => sp + 1 = Len(sub)
    BY ONLY <2>1 DEF BothEnd, sp
  <2>. QED  BY ONLY <2>1, <2>2, <2>3, <2>4
<1>. HIDE DEF sp, tp
<1>10. CASE ParentOf \/ BothEnd
  <2>1. /\ Matches(Tokens(sub), Tokens(topic))
        /\ (Last(Tokens(sub)) # <<"#">> \/ ~ MissedParent)
    <3>1. CASE parent
      BY <1>2, <1>3, <1>4, <3>1, MatchParent
    <3>2. CASE ends
      BY <1>2, <1>3, <3>2, MatchAtEnds
    <3>3. CASE plus
      BY <1>2, <1>3, <1>4, <3>3, MatchPlusAtEnd
    <3>. QED  BY <1>8, <1>9, <1>10, <3>1, <3>2, <3>3
  <2>2. ~ MissedParent
    BY <1>2, <2>1 DEF MissedParent
  <2>3. Right(TRUE)
    BY <1>2, <2>1, <2>2 DEF Right, Expected, Apart
  <2>4. Return(TRUE)
    BY ONLY <1>1, <1>10
  <2>. QED  BY <1>1, <1>2, <1>4, <2>3, <2>4, Answered DEF sp, tp
<1>11. CASE ~ (ParentOf \/ BothEnd)
  <2>1. UNCHANGED <<walk, result>>
    BY ONLY <1>1, <1>11
  <2>2. tp = Len(topic) => /\ sp # Len(sub)
                           /\ ~ (sp + 1 = Len(sub) /\ sub[sp + 1] = "+")
                           /\ ~ (sp + 2 = Len(sub) /\ sub[sp + 1] = "/" /\ sub[sp + 2] = "#")
    BY ONLY <1>8, <1>9, <1>11
  <2>3. spos' = sp /\ tpos' = tp
    BY ONLY <1>1 DEF sp, tp
  <2>. QED  BY <1>1, <1>2, <1>3, <1>4, <2>1, <2>2, <2>3, WalksOn
<1>. QED  BY ONLY <1>10, <1>11

LEMMA MatchPlusStep ==
    ASSUME TopicsInv, MatchPlus
    PROVE  TopicsMatch' /\ WalkInv' /\ spos' \in 0 .. Len(sub) /\ tpos' \in 0 .. Len(topic)
<1>1. /\ Walking /\ UNCHANGED <<sub, topic>> /\ spos' = spos + 1 /\ tpos' = LevelEnd
      /\ IF tpos' = tlen /\ spos' = slen THEN Return(TRUE) ELSE UNCHANGED <<walk, result>>
      /\ At(sub, spos) = "+"
  BY DEF MatchPlus
<1>2. /\ Checked /\ walk = "walking" /\ result = "unset" /\ ~ Apart
      /\ Aligned(spos, tpos)
      /\ spos \in 0 .. Len(sub) /\ spos < Len(sub) /\ tpos \in 0 .. Len(topic)
      /\ tpos < Len(topic) /\ spos \in Nat /\ tpos \in Nat
      /\ Len(sub) \in Nat /\ Len(topic) \in Nat /\ topic # <<>>
      /\ sub[spos + 1] = "+" /\ spos + 1 \in 0 .. Len(sub)
  BY SMTT(40), <1>1, Turn
<1>3. /\ topic \in Seq(TopicChars) /\ Len(topic) + 1 \in Stops(topic)
      /\ \A i \in 1 .. Len(topic) : topic[i] # "end" /\ (i \in Stops(topic) <=> topic[i] = "/")
  BY <1>2, TopicCharacters
<1>. DEFINE P(e) == /\ At(topic, e) \in {"/", "end"}
                    /\ \A i \in tpos .. e - 1 : At(topic, i) # "/"
<1>4. PICK e \in tpos .. Len(topic) : NextStop(topic, tpos, e)
  BY <1>2, <1>3, StopAhead
<1>5. ASSUME NEW i \in tpos .. Len(topic)
      PROVE  /\ At(topic, i) = "/" <=> i < Len(topic) /\ i + 1 \in Stops(topic)
             /\ At(topic, i) \in {"/", "end"} <=> i + 1 \in Stops(topic)
  <2>1. i \in Nat /\ i \in 0 .. Len(topic) /\ (i < Len(topic) => i + 1 \in 1 .. Len(topic))
        /\ (i < Len(topic) \/ i = Len(topic))
    BY ONLY <1>2, <1>5
  <2>2. /\ i < Len(topic) => At(topic, i) = topic[i + 1]
        /\ i = Len(topic) => At(topic, i) = "end"
    BY ONLY <1>3, <2>1, AtIs
  <2>3. CASE i < Len(topic)
    BY ONLY <1>3, <2>1, <2>2, <2>3
  <2>4. CASE i = Len(topic)
    <3>1. ~ (i < Len(topic)) /\ At(topic, i) = "end" /\ i + 1 \in Stops(topic)
      BY ONLY <1>2, <1>3, <2>2, <2>4
    <3>. QED  BY ONLY <3>1
  <2>. QED  BY ONLY <2>1, <2>3, <2>4
<1>6. P(e)
  <2>1. /\ e + 1 \in Stops(topic) /\ \A j \in tpos + 1 .. e : j \notin Stops(topic)
        /\ e \in Nat /\ e <= Len(topic)
    BY <1>2, <1>4 DEF NextStop
  <2>2. ASSUME NEW i \in tpos .. e - 1  PROVE At(topic, i) # "/"
    <3>1. i \in tpos .. Len(topic) /\ i + 1 \in tpos + 1 .. e
      BY ONLY <1>2, <2>1, <2>2
    <3>. QED  BY ONLY <1>5, <2>1, <3>1
  <2>. QED  BY ONLY <1>4, <1>5, <2>1, <2>2
<1>7. LevelEnd \in tpos .. Len(topic) /\ P(LevelEnd)
  <2>1. LevelEnd = CHOOSE x \in tpos .. Len(topic) : P(x)
    BY DEF LevelEnd, tlen
  <2>. HIDE DEF P
  <2>. QED  BY <1>6, <2>1
<1>8. NextStop(topic, tpos, LevelEnd)
  <2>. DEFINE l == LevelEnd
  <2>1. /\ l \in tpos .. Len(topic) /\ At(topic, l) \in {"/", "end"}
        /\ \A i \in tpos .. l - 1 : At(topic, i) # "/"
    BY ONLY <1>7
  <2>. HIDE DEF l, P
  <2>2. l \in Nat /\ l <= Len(topic)
    BY ONLY <1>2, <2>1
  <2>3. ASSUME NEW j \in tpos + 1 .. l  PROVE j \notin Stops(topic)
    <3>1. /\ j - 1 \in tpos .. l - 1 /\ j - 1 \in tpos .. Len(topic) /\ j - 1 < Len(topic)
          /\ (j - 1) + 1 = j
      BY ONLY <1>2, <2>2, <2>3
    <3>. QED  BY ONLY <1>5, <2>1, <3>1
  <2>4. l + 1 \in Stops(topic)
    BY ONLY <1>5, <2>1
  <2>5. NextStop(topic, tpos, l)
    BY ONLY <2>1, <2>3, <2>4 DEF NextStop
  <2>. QED  BY ONLY <2>5 DEF l
<1>9. Aligned(spos', tpos') /\ ~ Alike(spos', tpos')
  BY <1>1, <1>2, <1>8, PlusStep
<1>10. spos' \in 0 .. Len(sub) /\ tpos' \in 0 .. Len(topic)
  BY <1>1, <1>2, <1>7
<1>11. CASE tpos' = Len(topic) /\ spos' = Len(sub)
  <2>1. Return(TRUE)
    BY ONLY <1>1, <1>11 DEF slen, tlen
  <2>2. Matches(Tokens(sub), Tokens(topic)) /\ Last(Tokens(sub)) # <<"#">>
    BY <1>2, <1>9, <1>11, MatchAtEnds
  <2>3. Right(TRUE)
    BY <1>2, <2>2 DEF Right, Expected, Apart, MissedParent
  <2>. QED  BY <1>1, <1>2, <1>10, <2>1, <2>3, Answered
<1>12. CASE ~ (tpos' = Len(topic) /\ spos' = Len(sub))
  <2>1. UNCHANGED <<walk, result>>
    BY ONLY <1>1, <1>12 DEF slen, tlen
  <2>. QED  BY <1>1, <1>2, <1>9, <1>10, <1>12, <2>1, WalksOn
<1>. QED  BY ONLY <1>11, <1>12

LEMMA MatchHashStep ==
    ASSUME TopicsInv, MatchHash
    PROVE  TopicsMatch' /\ WalkInv'
<1>1. /\ Walking /\ UNCHANGED <<sub, topic, spos, tpos>> /\ Return(spos + 1 = slen)
      /\ At(sub, spos) = "#"
  BY DEF MatchHash
<1>2. /\ Checked /\ ~ Apart /\ Aligned(spos, tpos) /\ spos \in 0 .. Len(sub) /\ spos < Len(sub)
      /\ tpos \in 0 .. Len(topic) /\ tpos < Len(topic) /\ topic # <<>> /\ sub[spos + 1] = "#"
  BY <1>1, Turn
<1>3. spos + 1 = Len(sub) /\ Matches(Tokens(sub), Tokens(topic)) /\ ~ MissedParent
  BY <1>2, MatchAtHash
<1>4. Right(TRUE)
  BY <1>2, <1>3 DEF Right, Expected, Apart
<1>5. Return(TRUE)
  BY ONLY <1>1, <1>3 DEF Return, Answer, slen
<1>. QED  BY <1>1, <1>2, <1>4, <1>5, Answered

LEMMA MatchDiffersStep ==
    ASSUME TopicsInv, MatchDiffers
    PROVE  TopicsMatch' /\ WalkInv'
<1>1. /\ Walking /\ UNCHANGED <<sub, topic, spos, tpos>> /\ Return(FALSE)
      /\ At(sub, spos) # At(topic, tpos) /\ At(sub, spos) \notin {"+", "#"}
  BY DEF MatchDiffers
<1>2. /\ Checked /\ Aligned(spos, tpos) /\ spos \in 0 .. Len(sub) /\ spos < Len(sub)
      /\ tpos \in 0 .. Len(topic) /\ tpos < Len(topic) /\ topic # <<>>
      /\ sub[spos + 1] # topic[tpos + 1] /\ sub[spos + 1] \notin {"+", "#"}
      /\ spos + 1 \in 1 .. Len(sub) /\ tpos + 1 \in 1 .. Len(topic)
  BY SMTT(40), <1>1, Turn
<1>3. /\ spos + 1 \in Stops(sub) <=> sub[spos + 1] = "/"
      /\ tpos + 1 \in Stops(topic) <=> topic[tpos + 1] = "/"
  BY <1>2, SubCharacters, TopicCharacters
<1>4. Alike(spos, tpos)
  <2>1. ~ Skipped(spos, tpos)
    BY ONLY <1>2, <1>3 DEF Skipped
  <2>. QED  BY ONLY <1>2, <2>1 DEF Aligned
<1>5. ~ Matches(Tokens(sub), Tokens(topic))
  <2>1. CASE sub[spos + 1] = "/"
    <3>1. spos + 1 \in Stops(sub) /\ tpos + 1 \notin Stops(topic)
      BY ONLY <1>2, <1>3, <2>1
    <3>. QED  BY <1>2, <1>4, <3>1, NoMatchShorter
  <2>2. CASE sub[spos + 1] # "/"
    BY <1>2, <1>4, <2>2, NoMatchDiffers
  <2>. QED  BY ONLY <2>1, <2>2
<1>6. Right(FALSE)
  BY <1>5 DEF Right, Expected
<1>. QED  BY <1>1, <1>2, <1>6, Answered

LEMMA MatchRunsOutStep ==
    ASSUME TopicsInv, MatchRunsOut
    PROVE  TopicsMatch' /\ WalkInv'
<1>1. /\ UNCHANGED <<sub, topic, spos, tpos>> /\ walk = "walking"
      /\ ~ (spos < Len(sub) /\ tpos < Len(topic))
      /\ IF tpos < Len(topic) \/ spos < Len(sub)
         THEN Return(FALSE) ELSE walk' = "returned" /\ UNCHANGED result
  BY DEF MatchRunsOut, slen, tlen
<1>2. /\ Checked /\ spos \in 0 .. Len(sub) /\ tpos \in 0 .. Len(topic) /\ result = "unset"
      /\ ~ Apart /\ Aligned(spos, tpos) /\ (topic = <<>> => spos = 0)
      /\ (tpos = Len(topic) /\ topic # <<>> => NothingMissed)
  BY <1>1 DEF TopicsInv, TopicsTypes, WalkInv
<1>3. /\ Len(sub) \in Nat /\ Len(topic) \in Nat /\ spos \in Nat /\ tpos \in Nat
      /\ spos <= Len(sub) /\ tpos <= Len(topic)
      /\ sub \in Seq(SubChars) /\ topic \in Seq(TopicChars)
  BY <1>2, SubCharacters, TopicCharacters
<1>4. CASE tpos < Len(topic)
  <2>1. spos = Len(sub) /\ topic # <<>>
    BY <1>1, <1>3, <1>4
  <2>2. ~ Matches(Tokens(sub), Tokens(topic))
    BY <1>2, <1>4, <2>1, NoMatchTopicLonger
  <2>3. Right(FALSE) /\ Return(FALSE)
    <3>1. Return(FALSE)
      BY ONLY <1>1, <1>4
    <3>. QED  BY <2>2, <3>1 DEF Right, Expected
  <2>. QED  BY <1>1, <2>1, <2>3, Answered
<1>5. CASE spos < Len(sub)
  <2>1. tpos = Len(topic) /\ sub # <<>>
    BY <1>1, <1>3, <1>5
  <2>2. Matches(Tokens(sub), Tokens(topic)) => MissedParent
    <3>1. CASE topic = <<>>
      BY <3>1 DEF MissedParent
    <3>2. CASE topic # <<>>
      <4>1. NothingMissed
        BY ONLY <1>2, <2>1, <3>2
      <4>. QED  BY <1>2, <1>5, <2>1, <3>2, <4>1, NoMatchSubLonger DEF NothingMissed
    <3>. QED  BY ONLY <3>1, <3>2
  <2>3. Right(FALSE) /\ Return(FALSE)
    <3>1. Return(FALSE)
      BY ONLY <1>1, <1>5
    <3>. QED  BY <2>2, <3>1 DEF Right, Expected
  <2>. QED  BY <1>1, <2>1, <2>3, Answered
<1>6. CASE ~ (tpos < Len(topic)) /\ ~ (spos < Len(sub))
  <2>1. tpos = Len(topic) /\ spos = Len(sub)
    BY ONLY <1>3, <1>6
  <2>2. topic = <<>>
    BY ONLY <1>2, <2>1 DEF NothingMissed
  <2>3. sub = <<>>
    BY ONLY <1>2, <1>3, <2>1, <2>2, EmptySeq
  <2>4. walk' = "returned" /\ result' = "unset" /\ sub' = <<>> /\ topic' = <<>>
    BY ONLY <1>1, <1>2, <1>6, <2>2, <2>3
  <2>. QED  BY <2>4 DEF TopicsMatch, WalkInv
<1>. QED  BY ONLY <1>4, <1>5, <1>6

\* The types, from where the positions are after each step.
LEMMA TopicsTypesKept ==
    ASSUME TopicsTypes, TopicsNext, spos' \in 0 .. Len(sub), tpos' \in 0 .. Len(topic)
    PROVE  TopicsTypes'
<1>1. UNCHANGED <<sub, topic>>
  BY DEF TopicsNext, MatchCalled, MatchSame, MatchPlus, MatchHash, MatchDiffers, MatchRunsOut
<1>2. /\ walk' \in {"walking", "returned"} /\ walk # "returned"
      /\ walk' # "returned" => UNCHANGED result
  BY DEF TopicsNext, MatchCalled, MatchSame, MatchPlus, MatchHash, MatchDiffers, MatchRunsOut,
         Return, Walking
<1>3. Checked'
  BY <1>1 DEF TopicsTypes, Checked, SubTopicCheck
<1>. QED  BY <1>1, <1>2, <1>3 DEF TopicsTypes

LEMMA TopicsStepHolds == TopicsInv /\ [TopicsNext]_topicVars => TopicsInv'
<1>. SUFFICES ASSUME TopicsInv, [TopicsNext]_topicVars PROVE TopicsInv'
  OBVIOUS
<1>1. CASE TopicsNext
  <2>1. spos \in 0 .. Len(sub) /\ tpos \in 0 .. Len(topic)
    BY DEF TopicsInv, TopicsTypes
  <2>2. TopicsMatch' /\ WalkInv' /\ spos' \in 0 .. Len(sub) /\ tpos' \in 0 .. Len(topic)
    <3>1. CASE MatchCalled
      BY <2>1, <3>1, MatchCalledStep DEF MatchCalled
    <3>2. CASE MatchSame
      BY <3>2, MatchSameStep
    <3>3. CASE MatchPlus
      BY <3>3, MatchPlusStep
    <3>4. CASE MatchHash
      BY <2>1, <3>4, MatchHashStep DEF MatchHash
    <3>5. CASE MatchDiffers
      BY <2>1, <3>5, MatchDiffersStep DEF MatchDiffers
    <3>6. CASE MatchRunsOut
      BY <2>1, <3>6, MatchRunsOutStep DEF MatchRunsOut
    <3>. QED  BY <1>1, <3>1, <3>2, <3>3, <3>4, <3>5, <3>6 DEF TopicsNext
  <2>3. TopicsTypes'
    BY <1>1, <2>2, TopicsTypesKept DEF TopicsInv
  <2>. QED  BY ONLY <2>2, <2>3 DEF TopicsInv
<1>2. CASE UNCHANGED topicVars
  <2>1. TopicsTypes'
    BY <1>2 DEF TopicsInv, TopicsTypes, topicVars, Checked, SubTopicCheck
  <2>2. WalkInv'
    <3>1. UNCHANGED <<sub, topic, spos, tpos, walk, result>> /\ WalkInv
      BY <1>2 DEF TopicsInv, topicVars
    <3>2. Aligned(spos, tpos)' = Aligned(spos, tpos) /\ Alike(spos, tpos)' = Alike(spos, tpos)
      BY ONLY <3>1 DEF Tokens, Stops, Behind, Start, Aligned, Alike, Skipped, Fits
    <3>3. Apart' = Apart
      BY ONLY <3>1 DEF Apart, Tokens, Stops, Behind, Start, Wild, Dollar, At
    <3>. QED  BY ONLY <3>1, <3>2, <3>3 DEF WalkInv, NothingMissed
  <2>3. TopicsMatch'
    <3>1. (Expected /\ ~ MissedParent)' <=> (Expected /\ ~ MissedParent)
      BY <1>2 DEF topicVars, Expected, MissedParent, Matches, Tokens, Stops, Behind, Start,
                  Dollar, At, Wild, Fits, Last
    <3>2. UNCHANGED <<walk, result, sub, topic>> /\ TopicsMatch
      BY <1>2 DEF TopicsInv, topicVars
    <3>. QED  BY ZenonT(40), <3>1, <3>2 DEF TopicsMatch, Answer
  <2>. QED  BY ONLY <2>1, <2>2, <2>3 DEF TopicsInv
<1>. QED  BY <1>1, <1>2

\* The walk of mosquitto_topic_matches_sub, for topics and subscriptions of any
\* length that pass the checks, answers as matching level by level what the
\* tokeniser returns, except where it misses a match as MissedParent says.
THEOREM MatcherAnswers == TopicsSpec => []TopicsMatch
<1>1. TopicsInv => TopicsMatch
  BY DEF TopicsInv
<1>. QED
  BY <1>1, TopicsInitHolds, TopicsStepHolds, PTL DEF TopicsSpec
=============================================================================
