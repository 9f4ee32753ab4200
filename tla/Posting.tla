------------------------------- MODULE Posting -------------------------------
(***************************************************************************)
(* A message of the Android app from pubObjectSendMsg of one phone to the  *)
(* Java method SendCliAllMsg of another.  The sender looks at a recorded   *)
(* file three times (access, stat, fopen) while the recorder may change    *)
(* it; the receiver's loop thread creates Java references that no return   *)
(* to Java ever frees.  The session between the two is Session's: here     *)
(* it delivers in order, once.                                             *)
(***************************************************************************)
EXTENDS Integers, FiniteSets, SequencesExt

CONSTANTS Users,        \* toUserID of a message to one user
          NoUser,       \* no toUserID
          Bytes,        \* what a file or a text is made of, without NUL
          MaxLen,       \* longest file and text
          TextRoom,     \* text_msg, 2048 in the code
          RefTable,     \* local references of a thread, 512 in Android 7
          MaxCalls,     \* bounds calls of pubObjectSendMsg
          MaxChanges    \* bounds changes of the file

ASSUME PostingAssumption ==
    /\ NoUser \notin Users /\ 0 \notin Bytes
    /\ {MaxLen, TextRoom, RefTable, MaxCalls, MaxChanges} \subseteq Nat
    /\ RefTable >= 10     \* one message fits

VARIABLES
    file,       \* the recorded file: [there, writable, bytes]
    changes,
    call,       \* pubObjectSendMsg: where it is, what was asked, what it holds
    calls,
    refused,    \* the calls that Java got an error for
    sent,       \* payloads queued by mosquitto_publish
    heard,      \* what came of each at the receiver
    refs,       \* local references left on the loop thread
    pending,    \* an exception of SendCliAllMsg is pending on the loop thread
    crashed     \* "none", "sender" or "receiver"

senderVars == <<call, calls, refused, sent>>
receiverVars == <<heard, refs, pending>>
postingVars == <<file, changes, senderVars, receiverVars, crashed>>

\* The modes of client_shared.h, and a value that is none.
Commands == {"praise", "online", "offline", "add friend", "delete friend"}
Modes == {"voice", "text", "other"} \cup Commands
ChatModes == {1, 3}
NUL == 0
Texts == UNION {[1 .. n -> Bytes] : n \in 0 .. MaxLen}
Files == [there : {TRUE}, writable : BOOLEAN, bytes : Texts]
             \cup [there : {FALSE}, writable : BOOLEAN, bytes : {<<>>}]

Nothing == [mode |-> "other", chat |-> 1, to |-> NoUser, text |-> <<>>]
Idle == [pc |-> "idle", asked |-> Nothing, len |-> 0, payload |-> Nothing, cut |-> FALSE,
         changed |-> FALSE]

PostingInit ==
    /\ file \in Files /\ changes = 0
    /\ call = Idle /\ calls = 0 /\ refused = {}
    /\ sent = <<>> /\ heard = <<>>
    /\ refs = 0 /\ pending = FALSE
    /\ crashed = "none"

-----------------------------------------------------------------------------
(* The sender.                                                             *)

\* The recorder, or the user, at any time.
ChangeFile ==
    /\ crashed = "none" /\ changes < MaxChanges
    /\ \E f \in Files \ {file} : file' = f
    /\ changes' = changes + 1
    /\ call' = [call EXCEPT !.changed = call.pc # "idle"]
    /\ UNCHANGED <<calls, refused, sent, receiverVars, crashed>>

Refuse(n) == refused' = refused \cup {n} /\ call' = Idle /\ UNCHANGED sent
Crash(phone) == crashed' = phone

\* What is copied into the configuration of the call: what Java asked for.
\* (A file as it is when the call comes, for the properties.)
InitBasePubConfig(mode, chat, to, text) ==
    [mode |-> mode, chat |-> chat, to |-> IF chat = 3 THEN to ELSE NoUser,
     text |-> CASE mode = "text" -> text
                [] mode = "voice" -> file.bytes
                [] OTHER -> <<>>]

\* The file is looked for with access.
SetSendMosqConfig(asked) == asked.mode = "voice" => file.there

PubSendMsg(asked) ==
    \/ ~ SetSendMosqConfig(asked) /\ Refuse(calls')
    \/ /\ SetSendMosqConfig(asked)
       /\ call' = [Idle EXCEPT !.pc = "length", !.asked = asked]
       /\ UNCHANGED <<refused, sent>>

\* lacks: what is null in the object, the path or text, a required string or
\* toUserID.  GetStringUTFChars of null gives null, or the VM aborts.
PubObjectSendMsg ==
    /\ crashed = "none" /\ call.pc = "idle" /\ calls < MaxCalls
    /\ calls' = calls + 1
    /\ \E mode \in Modes, chat \in ChatModes, lacks \in {"nothing", "content", "string", "user"} :
          \/ /\ lacks = "content" /\ mode \in {"voice", "text"}
             /\ Crash("sender") /\ UNCHANGED <<call, refused, sent>>
          \/ /\ \/ lacks = "content" /\ mode \in {"voice", "text"}
                \/ lacks = "string"
                \/ lacks = "user" /\ chat = 3
             /\ Refuse(calls') /\ UNCHANGED crashed
          \/ /\ lacks = "nothing"
             /\ \E to \in Users, text \in Texts : PubSendMsg(InitBasePubConfig(mode, chat, to, text))
             /\ UNCHANGED crashed
    /\ UNCHANGED <<file, changes, receiverVars>>

\* The modes that real_publish_msg publishes; of others it says success.
PublishedModes == {"voice", "text"} \cup Commands

\* GetFileOrMsgLen: -1 if the file is gone, so that the payload is a byte
\* shorter than its header.
GetFileOrMsgLen ==
    LET asked == call.asked
    IN  CASE asked.mode = "voice" -> IF file.there THEN Len(file.bytes) ELSE -1
          [] asked.mode = "text" -> Len(asked.text) + 1
          [] OTHER -> 0

RealPublishMsg ==
    /\ crashed = "none" /\ call.pc = "length"
    /\ IF call.asked.mode \in PublishedModes
       THEN call' = [call EXCEPT !.pc = "content", !.len = GetFileOrMsgLen]
       ELSE call' = Idle
    /\ UNCHANGED <<file, changes, calls, refused, sent, receiverVars, crashed>>

\* Mutant: toUserID is not copied.
SetMessBodyNoUser == [mode |-> call.asked.mode, chat |-> call.asked.chat, to |-> NoUser]

\* The header of the message.
SetMessBody == [mode |-> call.asked.mode, chat |-> call.asked.chat,
                to |-> IF call.asked.chat = 3 THEN call.asked.to ELSE NoUser]

\* GetFileOrMsg: as many bytes as stat said, those the file has not are zero.
GetFileOrMsg ==
    IF call.asked.mode = "voice"
    THEN [i \in 1 .. call.len |-> IF i <= Len(file.bytes) THEN file.bytes[i] ELSE NUL]
    ELSE Append(call.asked.text, NUL)

Filled(body, cut) ==
    call' = [call EXCEPT !.pc = "publish", !.cut = cut,
                         !.payload = [mode |-> SetMessBody.mode, chat |-> SetMessBody.chat,
                                      to |-> SetMessBody.to, text |-> body]]

\* With no content the file is not opened.  fopen "ab+" makes a file that is
\* gone anew; where it may not be written, the NULL it returns is used.  A
\* header in a payload too short for it may bring the phone down.
SetSendInfo ==
    /\ crashed = "none" /\ call.pc = "content"
    /\ \/ /\ call.len <= 0
          /\ \/ Filled(<<>>, call.len < 0) /\ UNCHANGED crashed
             \/ call.len < 0 /\ Crash("sender") /\ UNCHANGED call
          /\ UNCHANGED file
       \/ /\ call.len > 0 /\ call.asked.mode = "voice" /\ ~ file.writable
          /\ Crash("sender")
          /\ UNCHANGED <<call, file>>
       \/ /\ call.len > 0
          /\ call.asked.mode = "voice" => file.writable
          /\ Filled(GetFileOrMsg, FALSE)
          /\ file' = IF call.asked.mode = "voice" THEN [file EXCEPT !.there = TRUE] ELSE file
          /\ UNCHANGED crashed
    /\ UNCHANGED <<changes, calls, refused, sent, receiverVars>>

\* mosquitto_publish queues the payload or says why not.
Publish ==
    /\ crashed = "none" /\ call.pc = "publish"
    /\ \/ /\ sent' = Append(sent, [call |-> calls, asked |-> call.asked, payload |-> call.payload,
                                   cut |-> call.cut, changed |-> call.changed])
          /\ call' = Idle
          /\ UNCHANGED refused
       \/ Refuse(calls)
    /\ UNCHANGED <<file, changes, calls, receiverVars, crashed>>

-----------------------------------------------------------------------------
(* The receiver.                                                           *)

Came(what) == heard' = Append(heard, what)
Lost(why) == [told |-> FALSE, why |-> why, message |-> Nothing]
Told(payload, body) == [told |-> TRUE, why |-> "", message |-> [payload EXCEPT !.text = body]]

\* The references send_msg_toJava makes: the class and the strings.
Made(payload) == 1 + (CASE payload.mode = "voice" -> 8
                        [] payload.mode = "text" -> 7
                        [] OTHER -> 6) + (IF payload.chat = 3 THEN 1 ELSE 0)

\* Mutant: the class stays too.
KeptWithClass(payload) == IF payload.mode = "voice" THEN 2 ELSE 1

\* Those it leaves: the string of the playing time.
Kept(payload) == IF payload.mode = "voice" THEN 1 ELSE 0

ToldModes == {"voice", "text"} \cup Commands

\* A pending exception is found after GetMethodID and never cleared; the class
\* stays.  SendCliAllMsg may leave one.
SendMsgToJava(payload, body) ==
    \/ /\ pending
       /\ \/ Came(Lost("exception")) /\ refs' = refs + 1 /\ UNCHANGED <<pending, crashed>>
          \/ Crash("receiver") /\ UNCHANGED receiverVars
    \/ /\ ~ pending /\ payload.mode \in ToldModes /\ refs + Made(payload) > RefTable
       /\ Crash("receiver") /\ UNCHANGED receiverVars
    \/ /\ ~ pending /\ payload.mode \in ToldModes /\ refs + Made(payload) <= RefTable
       /\ Came(Told(payload, body))
       /\ refs' = refs + Kept(payload)
       /\ pending' \in BOOLEAN
       /\ UNCHANGED crashed
    \/ /\ ~ pending /\ payload.mode \notin ToldModes
       /\ Came(Lost("mode"))
       /\ UNCHANGED <<refs, pending, crashed>>

\* write_file does not look at what fwrite returns.  With a payload shorter
\* than its header the length to write is huge.
WriteFile(payload, cut) ==
    \/ Came(Lost("file")) /\ UNCHANGED <<refs, pending, crashed>>
    \/ cut /\ Crash("receiver") /\ UNCHANGED receiverVars
    \/ \E n \in 0 .. Len(payload.text) :
          SendMsgToJava(payload, SubSeq(payload.text, 1, n))

\* get_text_msg copies into text_msg without asking for room; what is beyond
\* may be read back, or bring the phone down.
GetTextMsg(payload) ==
    \/ SendMsgToJava(payload, Front(payload.text))
    \/ Len(payload.text) > TextRoom /\ Crash("receiver") /\ UNCHANGED receiverVars

\* Mutant: a command without a branch of its own.
ProcessedModesOld == {"praise", "online", "offline"}

\* The commands process_message has a branch for.
ProcessedModes == {"praise", "online", "offline", "add friend", "delete friend"}

ProcessMessage(payload, cut) ==
    \/ payload.mode = "voice" /\ WriteFile(payload, cut)
    \/ payload.mode = "text" /\ GetTextMsg(payload)
    \/ payload.mode \in ProcessedModes /\ SendMsgToJava(payload, <<>>)
    \/ /\ payload.mode \notin {"voice", "text"} \cup ProcessedModes
       /\ Came(Lost("mode")) /\ UNCHANGED <<refs, pending, crashed>>

MyMessageCallback ==
    /\ crashed = "none" /\ Len(heard) < Len(sent)
    /\ LET m == sent[Len(heard) + 1] IN ProcessMessage(m.payload, m.cut)
    /\ UNCHANGED <<file, changes, senderVars>>

PostingNext == \/ ChangeFile \/ PubObjectSendMsg \/ RealPublishMsg \/ SetSendInfo \/ Publish
               \/ MyMessageCallback

\* A call that has begun goes on, and so does the loop; nobody has to call.
PostingFairness == WF_postingVars(RealPublishMsg \/ SetSendInfo \/ Publish)
                       /\ WF_postingVars(MyMessageCallback)

PostingSpec == PostingInit /\ [][PostingNext]_postingVars /\ PostingFairness

-----------------------------------------------------------------------------
\* What Java hears is what a call asked for, to the same user, in the same
\* order: a text as it is, a file as it was when the call looked for it or the
\* beginning of it (a full disk), unless it was changed during the call.  And
\* each call that Java got no error for has sent its message, but for an
\* unknown mode (pub_send_msg, process_message).
HeardAsSent ==
    /\ \A i \in DOMAIN heard :
          LET asked == sent[i].asked
              said == heard[i].message
          IN  heard[i].told =>
                /\ said.mode = asked.mode /\ said.chat = asked.chat /\ said.to = asked.to
                /\ asked.mode # "voice" => said.text = asked.text
                /\ asked.mode = "voice" /\ ~ sent[i].changed => IsPrefix(said.text, asked.text)
    /\ \A i, j \in DOMAIN sent : i < j => sent[i].call < sent[j].call
    /\ \A i \in DOMAIN sent : sent[i].call \notin refused

VoicesHeard == Cardinality({i \in DOMAIN heard : heard[i].told /\ heard[i].message.mode = "voice"})
Dropped == Cardinality({i \in DOMAIN heard : heard[i].why = "exception"})

\* A phone goes down only for one of the reasons known: the sender if path or
\* text was null, or the file was changed during the call or may not be
\* written; the receiver if that made a payload too short, a text has no room,
\* an exception is pending, or references left by voice messages (or by calls
\* that found the exception) fill the table.
CrashExplained ==
    /\ crashed = "sender" => \/ call.pc = "idle"
                             \/ call.asked.mode = "voice" /\ (call.changed \/ ~ file.writable)
    /\ crashed = "receiver" =>
          LET m == sent[Len(heard) + 1]
          IN  \/ m.cut /\ m.changed
              \/ m.payload.mode = "text" /\ Len(m.asked.text) >= TextRoom
              \/ pending
              \/ VoicesHeard + Dropped + Made(m.payload) > RefTable

\* Every call of a known mode ends with an error, or is heard by Java at the
\* other end, unless a phone goes down, the file cannot be made there, or an
\* exception of Java's is pending on the loop thread for good.
EventuallyTold ==
    \A n \in 1 .. MaxCalls :
        (calls = n /\ call.pc # "idle" /\ call.asked.mode \in PublishedModes) ~>
            \/ n \in refused \/ crashed # "none" \/ pending
            \/ \E i \in DOMAIN heard : sent[i].call = n /\ (heard[i].told \/ heard[i].why = "file")
=============================================================================
