# A verification of the MQTT client of MQTT-Android

The repository is an Android library, `libcarRadio`: a copy of the
libmosquitto 1.3 client with an application layer that joins and leaves
"channels" (topics). This directory holds TLA+ models of it, checked by TLC,
and proofs about them, checked by TLAPS. `PROJECT.json` lists the runs, the
source lines of each definition, the findings, hazards and theorems.

Paths below are relative to `src/libcar/`.

## The system

`Android.mk` builds the client (`mosquitto.c`, `messages_mosq.c`, `net_mosq.c`,
`send*_mosq.c`, `read_handle*.c`, `util_mosq.c` and the small helpers) and the
application layer (`client_shared.c`, `sub_client.c`, `jsubApi.c`).
`WITH_THREADING` is defined; TLS, SRV, SOCKS and the broker are not compiled in.

One Java thread calls `sub_init_connect`, which connects and stays in
`mosquitto_loop_forever`. Any other Java thread may at the same time enter a
channel, quit one, unsubscribe or publish. These calls use the same
`struct mosquitto`. Its field `threaded` is false, so a packet is written to
the socket by the thread that queues it, unless a callback is running.

| part | state | operations |
|---|---|---|
| Outgoing QoS 1/2 queue (`messages_mosq.c`) | `out_messages`, `out_messages_last`, `out_queue_len`, `inflight_messages` | queue, remove (which starts messages held back), update, retry, reset, cleanup |
| Incoming QoS 2 queue (`messages_mosq.c`, `read_handle*.c`) | `in_messages`, `in_messages_last`, `in_queue_len` | queue on PUBLISH, remove on PUBREL, retry PUBREC, reset |
| Publishing (`mosquitto.c`, `send_mosq.c`) | `last_mid` | `mosquitto_publish` |
| Acknowledgement handlers (`read_handle_shared.c`) | the queues, `on_publish`, `on_message` | PUBACK, PUBREC, PUBREL, PUBCOMP |
| Loop and reconnection (`mosquitto.c`) | `sock`, `state`, back-off | `mosquitto_loop_forever`, `_mosquitto_loop_rc_handle`, `_mosquitto_reconnect` |
| Client state | `state`, under `state_mutex` in most places | connect, disconnect, CONNACK |
| Packet output (`net_mosq.c`) | `out_packet`, `out_packet_last`, `current_out_packet`, `in_callback` | queue, write, drain at a reconnect |
| Packet reader (`net_mosq.c`) | `in_packet` | non-blocking read, dispatch |
| Keepalive (`util_mosq.c`) | `last_msg_in`, `last_msg_out`, `ping_t` | PINGREQ, PINGRESP, timeout |
| Topics (`util_mosq.c`, `mosquitto.c`) | none | validity, matching, tokeniser |
| Channels (`sub_client.c`, `client_shared.c`) | `topics`, `topic_qos`, `topic_count`, `change_topic`, `sub_set` | enter, quit, the subscribe and unsubscribe callbacks |
| Posting (`sub_client.c`) | the file, a configuration per call, the Java references of the loop thread | `pub_send_msg`, `my_message_callback` |
| JNI (`jsubApi.c`) | none of its own | the first step of each call |

How they interact. Application threads and the loop thread share the outgoing
queue under `out_message_mutex`, packet output under two mutexes, the client
state under `state_mutex`, and nothing else in common. The loop thread reads
packets, and each handler changes the queue, writes answers and runs callbacks
under `callback_mutex`. A read or write error closes the socket;
`mosquitto_loop_forever` then drains the packet output, resets both queues and
connects again.

What is hard, and so what the properties are about:

* `mosquitto_publish` unlocks between queueing a message and sending it; the
  loop thread may reset, resend or remove the message in between.
* A connection can be lost at any packet; both queues survive it. Retries and
  reconnects repeat packets, so acknowledgements can come twice, or for a
  message no longer there.
* The in-flight window is a bare counter, changed in three functions.
* The lists are singly linked with a last pointer that five places maintain.
* An error in the middle of a walk (a failed send) leaves half of it done.
* `state` is tested in one place and assigned in another while another thread
  may call `mosquitto_disconnect`.
* Two threads write packets, in parts, and run callbacks with locks held.
* A packet arrives in pieces; a broker repeats what was not answered, or has
  forgotten the session.
* The app keeps its own table of topics, changed by callbacks that do not say
  which topic they are about.
* A file is looked at three times while it is being recorded; the loop thread
  collects Java references that are never freed.

What makes each part correct, and where that is looked at:

| part | correct when | module |
|---|---|---|
| Outgoing queue | the counter accounts for every flow under way; the window is respected; nothing held back is forgotten | OutMessages (checked, proved) |
| Lists | both lists are what the walk, the last pointer and the length say; no freed cell is used | MessageLists (checked, proved) |
| Session | confirmed means delivered; QoS 2 means once; everything is confirmed in the end | Session (checked, proved but for liveness) |
| Client state | a disconnect is final and ends the loop; one report for each loss, with the right code; no descriptor lost; a dead peer is given up | Client (checked, proved but for liveness) |
| Packet output | packets whole, in order, CONNECT first; nobody waits for ever; nothing stays queued | PacketQueue (checked, proved but for liveness) |
| Packet reader, incoming queue | whatever the read sizes, the packets sent are the packets handled; `on_message` once for a QoS 2 message; everything answered | Incoming (checked, proved but for liveness) |
| Channels | when the answers are in, the table holds what the broker has subscribed | Channels (checked, proved but for liveness) |
| Posting | Java hears what a call asked for; a phone goes down for known reasons only | Posting (checked, proved but for liveness) |
| Topics | matching by characters agrees with matching by levels | Topics (checked, proved) |

## Modules

    MessageQueue ----> OutMessages ----> Session (with Orders) ----> MCSession
        |                  |  \             \------> SessionProofs
        |                  |   \---> MCOutMessages         |
        |                  \-------> OutMessagesProofs <---/
        +-----> MessageLists ----> MCMessageLists, MessageListsProofs
        \-----> QueueSpec  (implemented by MessageLists)

    Client ----> MCClient, ClientProofs
    Channels (with Orders) ----> MCChannels, ChannelsProofs
    PacketQueue ----> PacketQueueProofs     Incoming ----> IncomingProofs
    Posting, Topics ----> MCApp, AppProofs

The second group has one module for each other part of the system. Each has its
own view of the connection, with as much of the others as its properties need:
Client knows packets by kind, PacketQueue knows their parts and the locks but
not what they say, Incoming knows bytes, Channels and Posting know what the app
makes of them.

**MessageQueue**: the operations of `messages_mosq.c` on the outgoing list,
as operators on sequences of records `[mid, qos, state]`. Topic, payload and
retain never influence the queue. `timestamp` and `dup` decide only which
messages a retry picks, and one header bit; the retry action picks any set.

**OutMessages**: the outgoing queue under concurrency.
`PublishQueue` is the part of `mosquitto_publish` under `out_message_mutex`,
`PublishSend` the send after the unlock (`PublishSendFreed` the same when the
message has been freed meanwhile and the packet made from it is refused).
`pending` holds what the thread is about to send. `HandlePubackcomp`,
`HandlePubrec` and their failing variants are the handlers with everything
they call. `link` is the socket as the loop thread sees it; `broken` is a
socket on which a write will fail although the client does not know yet.
`Reconnect` is `_mosquitto_reconnect` up to the connection attempt,
`SocketConnect` the attempt. The broker is the most liberal one: while the
socket is valid it may acknowledge any packet written on this connection, any
number of times, in any order. `last_mid` is generated in the step that queues
the message; two threads that queue in the other order differ only in the order
of the list. The mids of SUBSCRIBE and UNSUBSCRIBE are left out.
`max_inflight_messages` is a constant. The library's default is 20
(`mosquitto.c:192`). The app asks for 100 before there is a client
(`sub_client.c:786`), to no effect, and `client_opts_set` then sets it to the 0
of a cleared configuration (`client_shared.c:784`): the app runs without a
limit. The runs use a window, as a user of the library would.

**MessageLists**: the same lists as cells with `next` pointers and first and
last pointers, for both directions. A handler is one step. The reset is not: its
loop over the incoming messages takes a step for each message (`ResetInKeep`,
`ResetInDrop`, `ResetInDropHead`) and its second half, under the other mutex, is
a step of its own, so a publish can come between any two of them. `message` and
`prev` are its local variables; `prev` is carried from one half to the other.
Use of a freed cell or a null pointer ends the run in `crashed`. `crossed`
records that a reset has pointed `out_messages_last` at an incoming message.
There are fewer cells than mids, so that mids do not wrap.

**QueueSpec**: what the two queues promise, as two sequences and the count.

**Session**: OutMessages with the liberal network replaced by two FIFO
channels, cut at a close, and a broker that follows MQTT (it is not part of the
repository: mids of a QoS 2 flow are kept across connections, as for a client
with `clean_session` false). Every client step is an OutMessages step together
with the packets it writes or reads. `prompt` is chosen at the start: in a
prompt behaviour no step comes between queueing and sending.

**Orders**: a set of positions in its order, as the bijection that enumerates
it. The packets that a walk over the list writes (Session) and the topics that
the start enters (Channels) are the entries at a set of positions, in their
order.

**Client**: the network thread as a program counter `pc` over the steps of
`mosquitto_loop_forever` and what it calls, with a step wherever another thread
can come between: before `select`, between it and the read and the write,
before and after `on_connect`, between the two timeout tests of
`mosquitto_loop_misc`, around the sleep, and between the test of `state` and
`_mosquitto_reconnect`'s assignment. `AskDisconnect` and `SendDisconnect` are
the two halves of `mosquitto_disconnect` in another thread; `AppPublishes` and
`Touch` (`sub_enter_channel`, `sub_quit_channel`) are its other calls, as often
as it likes. Packets are told apart by what they do here: those that are
answered with another packet (`PUBLISH1`, `PUBREL`), which refresh both times,
those that are not, CONNACK, PINGRESP, PUBACK; and of those sent, CONNECT,
PINGREQ, DISCONNECT, the publisher's message and any `OTHER`. `Sent`, `Sends`
and `Flush` are `_mosquitto_packet_queue` with the write it makes, which fails
when the peer has closed; PacketQueue has the parts of packets and the locks.
Before it reads, and in `mosquitto_loop_misc`, a client that is not threaded
has nothing queued unless its peer is gone, so `Sent` looks at no older packet.
Each write of the queue in the loop is a step; a packet that another thread
writes goes out with its queue in one. Times are ages that stop at the
keepalive. Six ghosts say when a property cannot hold: `raced` (a
disconnect in one of the two windows in which it is overwritten), `unsent` (one
that found no socket during a dial), `doubled` (a socket closed where a second
report follows), `unclosed` (a CONNECT that could not be written), `failing`
(no CONNECT sent since the last wait) and `reported`. Two kinds of application:
the subscriber of the
app and the publisher of `pub_client.c`.

**PacketQueue**: `out_packet`, `out_packet_last` (which the drain leaves
dangling), `current_out_packet` and the mutexes with their holders. A packet is
two parts long. Both threads go through `_mosquitto_packet_queue` and
`_mosquitto_packet_write` with a step for each lock, write and callback.
`out_packet_mutex` is held over single steps only and is left out.

**Incoming**: `_mosquitto_packet_read` with a read that may end anywhere: the
command, each digit of the length, any part of the body. The handlers come
after the packet is whole. The length is coded with `Base` and `MaxDigits` in
place of 128 and 4; `Weight` is what `remaining_mult` is at a digit. The broker
(external) keeps or forgets the session at a reconnect and repeats what was not
answered, in any order of the ids. It has finitely many ids.

**Channels**: `sub_enter_channel` is four steps (test, subscribe, topic noted,
`sub_set`), `sub_quit_channel` two; each callback is one, under its mutex, which
the calls do not take. The order of the two parallel arrays is the order of the
table. What lies behind `topic_qos` is `topic_count`, as `struct mosq_config`
has it (`client_shared.h:224`). `orderly` is a ghost: the app has kept to the
conditions of `TableMatchesBroker`.

**Posting**: a call of `pubObjectSendMsg` is four steps, one for each look at
the file and one for `mosquitto_publish`; `ChangeFile` is the recorder. The
receiver is one step for each message, with every way it can come out. The
session in between is Session's; here it delivers in order, once. Trans modes
that no sender publishes have branches that this model never reaches.

**Topics**: the walk of `mosquitto_topic_matches_sub`, a step for each turn of
its loop, and `Expected`, the definition it is compared with, over what the
library's tokeniser returns: the levels between its stops, which are the
separators and the end. `Letters` is the alphabet without separator and
wildcards; a topic of the broker begins with `$`, if `Letters` has it. The app
uses the walk for `filter_outs`, which it leaves empty; it is the library's.

Not modelled anywhere: failed allocations, and the byte layout of what is sent.

## Runs

| run | instance | distinct states | shows |
|---|---|---|---|
| `out_messages` | 2 threads, window 2, 4 messages, 2 reconnects | 702,834 | the window is neither leaked nor overrun; one callback per message |
| `message_lists` | window 2, 5 cells, 2 resets, 2 mids shared with the broker | 364,454 | the lists implement the queues and use no freed memory, unless crossed |
| `session` | 1 thread, 2 messages, window 3, 2 reconnects, 2 acks under way | 132,834 | delivery guarantees, liveness, refinement of OutMessages |
| `client` | 4 applications, keepalive 2, delays 1 to 3, 1 packet waiting, 1 queued by other threads | 239,531 | the connection's state, reports, descriptor, back-off; termination, dead peers |
| `packet_queue` | 2 threads, 4 packets of 2 parts, 2 connections, 1 EAGAIN | 374,604 | framing, order, CONNECT first, deadlocks, nothing left behind |
| `incoming` | base 2, 2 digits, 2 ids, 3 messages, 1 reconnect, 1 retry | 832,966 | reading in pieces, QoS 2 once, everything answered |
| `channels` | 2 threads, 2 channels and a bad one, 2 entries of `topic_qos`, 4 events | 423,865 | table against broker |
| `app` | 2 calls, 1 change of the file, files and texts up to 2 bytes, 10 references; topics up to 4 characters | 382,400 | Java to Java; the matcher |
| `window_stall` | 1 thread, window 2, 3 messages, 1 reconnect | violation | messages held back with none in flight |
| `lost_notification` | 1 thread, window 1 | violation | acknowledged without `on_publish` |
| `lost_publish` | window 2, 5 cells | violation | a published message is on no outgoing list |
| `qos2_duplicate` | 1 thread, window 2, 2 messages, 1 reconnect | violation | a QoS 2 message is taken twice |

Why the bounds are enough. A window of two is the smallest that is partly full;
four messages are two in flight and two held back, so a walk can start two, one
or none. Two threads are needed for one to be overtaken while another fills the
slot: with one thread the bound of `WindowBound` is the window itself. Two
reconnects make a reset of a list a reset has already changed. Five cells give
lists of up to three and two with every case of unlinking (first, last, middle,
only). In `out_messages` and `session` there are as many mids as messages, so
mids do not wrap (`NoWrap`); what a wrap does is told below.

Properties of `out_messages`. `InflightCoversFlow` is the property that the
counter exists for: it bounds from below not only the messages in flight but
also those that an acknowledgement may still name although a reset holds them
back. `WindowBound` admits `Cardinality(Publishers) - 1` messages above the
window: a thread overtaken by a reset sends a message that the reset holds
back, and its PUBREC puts it in flight. `HeldBackOnlyWhenFull` holds until the
first reconnect only; the run `window_stall` shows what happens after.

Properties of `message_lists`. Reset finds incoming messages and no outgoing
one: that is exactly the condition (`crossed`) under which the lists break.
`WellLinked`, `CrashOnlyIfCrossed` and `ImplementsQueues` hold until then. Freed
cells are not handed out again in the model; with a real allocator a crossed
list can also corrupt a later message. While a reset walks over the incoming
list, its length and its last pointer are not yet what they will be, and
`WellLinked` speaks of the other list only. Acknowledgements come only for messages
that are not held back, so the run leaves out those of overtaken threads.

Properties of `session`. `AtLeastOnce` and `ExactlyOnce` relate the broker's
view to the client's. The window never fills in this run: with a full one,
`qos2_duplicate` shows that `ExactlyOnce` fails. `EventuallyNotified`
is liveness. `ImplementsOutMessages` makes what is proved of OutMessages hold
here too. `ExactlyOnce` is stated for prompt behaviours: a thread that sends its
PUBLISH after the broker has released the mid (having answered the retry's copy)
makes a duplicate.

Fairness of `session`, and why the code justifies it: an application thread goes
on after its unlock; the loop thread calls read, and `mosquitto_loop_misc` at
each turn, which retries each overdue message; a broken connection is noticed
by the keepalive at the latest; `mosquitto_loop_forever` reconnects until it
succeeds; the broker answers. Connections fail as often as there are reconnects
left (`MayFail`), and the last attempt succeeds: without that nothing can be
promised. A retry waits while its packet is under way, which stands for the
20 seconds of `message_retry`. There is no fairness on publishing or on failing.

Properties of `client`. `DisconnectSticks` and
`DisconnectReturns` hold but for the two windows (`raced`). `ReportedOnce` and
`NoDescriptorLost` name the only paths on which a loss is reported twice or a
descriptor lost. `ReportsTruthfully` and `BackoffGrows` are action properties;
`BackoffGrows` says what is left of the documented delays: with back-off a wait
after a failed attempt is longer than the last up to the maximum, and nothing
but a CONNECT sent on a new connection (`failing`) starts the waits over.
`DisconnectReturns` excepts the disconnect that finds no socket during a dial
(`unsent`) and then traffic that keeps the times fresh, or other threads that
queue as fast as the loop writes. `DeadPeerNoticed` excepts an app that never
stops calling `Touch`, and the same queue. The bounds: a keepalive of two ticks
has a tick before, at and after; three delays are the first, a longer one and
the maximum; another thread queues a packet when fewer than `MaxOut` wait; the
number of reconnects, calls and messages is not bounded. One packet waits in
the socket at most, as a turn reads one and the next may come at any time later,
before or after the peer's death; with two, which turns can leave behind, the
invariants and action properties hold as well (715,819 states), but the
liveness properties take too long. Fairness: the
network thread runs, a call of `mosquitto_disconnect` that has set the state
goes on, time passes, the broker answers CONNECT and PUBLISH while the
connection lasts. Nothing is assumed of connections: they may fail for ever.

Properties of `packet_queue`. `Framed` says of each step on the wire that it
finishes a packet or begins a later one; `ConnectFirst` names the only packets
that can come before CONNECT; `NoDeadlock` looks for two threads that wait for
each other, or one for itself, and names the only use that leads there.
`EventuallyWritten` catches a packet that is queued and has no one to write it.
Four packets are one under way, one queued, one made by a callback and a
CONNECT; two parts give one place to stop; one EAGAIN can come in each of them.
Fairness: both threads run. An application need not call.

Properties of `incoming`. Base 2 with two digits has lengths of one and two
digits, the largest of two, and one digit too many; three messages on two ids
use an id again. `Framing` relates what the reader holds and what is still in
the socket to what the broker sent, after every read. `ReleasedOnce` excepts
ids repeated to a client that holds them, or forgotten by a broker while it
does (`doubled`). Fairness: the client reads and handles what has arrived,
reconnects, and the broker reads answers.

Properties of `channels`. `TableMatchesBroker` and `CallsSettle` hold for an app
that starts with no topic twice and with those the broker has kept, calls in turn, waits for answers that nothing tells it of, quits the channel
it entered last, keeps within `topic_qos`, loses no connection during a call and
has its SUBACK after its call has returned. Without any one of these conditions
they fail. `ChannelsTypeOK` holds for every app. Fairness: the loop, a call
under way and the broker go on.

Properties of `app`. The run is two state machines without common state, told
apart by the initial state. `HeardAsSent` excepts a file that changes during the
call. `CrashExplained` lists why a phone goes down. `EventuallyTold` ends with
an error for the caller, a message heard, or one of the losses it names. One
call leaves a reference, the next does not fit (10 references: 9 for a voice
message, 1 more to a single user). One change of the file is enough to come
between any two looks of one call. Fairness: a call goes on and so does the
loop. `TopicsMatch` says for each pair what the walk answers; `MissedParent`
describes the matches it misses. The same holds with five characters (635,852
states), which takes longer and adds nothing.

`CHECK_DEADLOCK FALSE` everywhere: once all messages are confirmed and the
bounds are used up the system is at rest. Deadlocks of the code's own locks are
`NoDeadlock`'s.

## What the runs found

1. **The window stalls after a reconnect** (`messages_mosq.c:195`). The reset
   counts all queued messages, held back or not, and one too many at the test.
   With a list of at least 2M-1 messages for a window of M, the M-1 started are
   confirmed and nothing starts the others.
2. **A confirmed message is not reported** (`messages_mosq.c:261`): a failed
   send of another message makes the removal look like "not found".
3. **A publish is linked into the incoming list** (`messages_mosq.c:209`): the
   local `prev` is used for both loops of the reset.
4. **A QoS 2 message is published twice** (`messages_mosq.c:205`): the reset
   takes a message that waits for its PUBCOMP back to its beginning.

These four have runs of their own that end in a violation. They are about the
library; 1, 2 and 4 need a window, which the app does not set. The conditions in
the properties of the other runs are what else was found:

*OutMessages.*
A mid may be used again while a message with it is still queued
(`util_mosq.c:161-163`): `_mosquitto_mid_generate` skips 0 at the wrap and does
not look at the list. It takes 65535 further calls while one message is not
answered, or held back by 1. The first acknowledgement then removes the older of
the two, and `on_publish` names a message that was not confirmed, although
`mosquitto.h:572-575` has the mid tell when its message was sent. `NextMid` has
the wrap; an instance of two mids and three messages gets there in a few steps.
The properties of `out_messages` speak of messages by their mids, so they are
checked and proved for runs without a wrap.

*Client.*
The waits before reconnecting are not those documented (`mosquitto.c:1042`).
`mosquitto.h:1248-1254` gives 2, 4, 6, 8, 10 for delay 2 and maximum 10 without
back-off, and 3, 6, 12, 24, 30 for 3 and 30 with it. The code waits 2, 2, 2, ...
as the delay does not depend on the attempt, and 0, 3, 12, 27, 30, as it is
multiplied with the square of a count that begins at 0. The app leaves the
defaults: one second, no back-off.
A disconnect that comes during the dial (`mosquitto.c:555`) finds no socket and
sends nothing, and the state alone ends the loop only once the connection is
lost. The keepalive gives it up when either time is overdue, which messages of
QoS 1 or 2 prevent: each refreshes one time when it comes and the other when it
is answered. Then `mosquitto_loop_forever` does not return as long as such
traffic lasts. Each call of `sub_enter_channel` or `sub_quit_channel` sets both
times to now (`sub_client.c:921`, `:973`), whether anything was sent or not: an
app that goes on calling never notices that its peer is dead.
A broker that accepts connections and then refuses the CONNECT, or never answers
it, may start the back-off over each time: a turn of the loop that finds nothing
to read counts as a good one (`mosquitto.c:1009`).
`mosquitto_disconnect` is overwritten when it comes between a test of `state`
and an assignment (`mosquitto.c:488`, `read_handle_client.c:46`). `on_disconnect`
may run twice for one loss: `_mosquitto_check_keepalive` closes and reports,
and `mosquitto_loop_misc` tests `ping_t` again (`mosquitto.c:1088`), or another
thread's DISCONNECT fails between `select` and the read. A CONNECT that cannot
be written leaves its descriptor open and the next attempt overwrites it
(`mosquitto.c:545`). A close by the keepalive lets `mosquitto_loop_misc` return
success, which resets the back-off. The publisher waits for ever when its peer
dies silently (its keepalive is 0) or when the mode of its message is unknown,
and publishes from `on_connect` whatever the result.

*PacketQueue.*
`on_publish` runs with `current_out_packet_mutex` held. If it publishes with QoS
1 or 2 it takes `out_message_mutex`, which the loop may hold while it waits for
the former, or hold itself when an acknowledgement makes it write: a deadlock
of two threads, or of one (`net_mosq.c:817`), although `mosquitto.h` says
that the calls are thread safe. A packet queued between the drain of a reconnect
and its CONNECT comes before the CONNECT (`mosquitto.c:520`).

*Incoming.*
A QoS 2 PUBLISH that is repeated is queued again (`read_handle.c:147`), and the
entry left over is delivered for a later message with its id; so is one kept
by the client over a reconnect to a broker that forgot the session.

*Channels.*
Each condition of `orderly` is a way to lose or invent an entry: a SUBACK before
`sub_set`; a second call that overwrites `change_topic`; a connection lost
during a call; quitting a channel that is not the last one (the last entry goes,
`sub_client.c:668`); a sixth channel, whose QoS is written over `topic_count`;
a topic given twice at the start, which `sub_init_connect` enters twice;
two quits of one channel, after which `topic_count` is -1; a persistent session
left behind by a restart, as the socket is closed before the channels are
unsubscribed. Calls before the start or after the end use null or freed
pointers, and `sub_unscribe_topic` always uses a null one (`config->topic` is
never set).

*Posting.*
A file that goes away during a call makes a payload shorter than its header, by
one byte: the receiver then writes with a huge length. A file that may be read
but not written crashes the sender (`fopen "ab+"` fails and its result is used).
Each voice message leaves one Java reference, until there is no room. One
exception thrown by `SendCliAllMsg` and no later message is heard. A text longer
than `text_msg` is copied beyond it.

*Topics.*
`+/#` does not match its parent level, nor `a/#` the topic `a/`, nor any
wildcard an empty topic.

## Proofs

Every safety property, action property and refinement that a passing run checks
is a theorem, for every value of the constants. The hypotheses are the
`ASSUME`s of the modules and, where stated below, one of two more: `NoWrap`, no
mid is generated twice (`MaxPublish <= MaxMid`), and `WindowNeverFills`, there
is no limit or there are fewer messages than slots. The app sets no limit.

| module | proves | assumes besides |
|---|---|---|
| `OutMessagesProofs` | `TypeOK`, `InflightCoversFlow`, `WindowBound`, `NotifiedOnce`, `HeldBackOnlyWhenFull` | `NoWrap` |
| `SessionProofs` | `SessionTypeOK`, `AtLeastOnce`, `ImplementsOutMessages` | nothing |
| | `ExactlyOnce` | `NoWrap`, `WindowNeverFills` |
| `ClientProofs` | `DisconnectSticks`, `NoDescriptorLost`, `ReportedOnce`, `ReportsTruthfully`, `BackoffGrows` | nothing |
| | `ClientTypeOK` | a delay that is not 0 |
| `PacketQueueProofs` | `PacketTypeOK`, `Framed`, `ConnectFirst`, `NoDeadlock` | nothing |
| `ChannelsProofs` | `ChannelsTypeOK`, `TableMatchesBroker` | nothing |
| `AppProofs` | `HeardAsSent`, `CrashExplained`, `TopicsMatch` | nothing |
| `MessageListsProofs` | `ListsTypeOK`, `WellLinked`, `CrashOnlyIfCrossed`, `ImplementsQueues` | nothing |
| `IncomingProofs` | `IncomingTypeOK`, `Framing`, `ReleasedOnce` | nothing |

None of these is inductive by itself; what makes them so follows.

**OutMessages.** A reset holds back messages that threads have yet to send, and
an acknowledgement for one of them takes a slot although the message is not in
flight. So the invariant `IInv` speaks of `Covered`: the mids in flight, and
those of the list that a packet written or pending can draw an acknowledgement
for. (a) mids in use are at most `last_mid`, and distinct, so a new message is
not covered by old packets; (b) only messages in `Covered` are acknowledged, so
each removal that frees a slot also leaves `Covered`; (c) a walk adds as many
mids as it counts; (d) a reset counts the whole list, and every covered mid is
in it; (e) what a reset may leave above the window is one for each thread whose
send is pending, less the slot that the reset wastes. (e) gives the bound
`M + K - 1` of `WindowBound`. A message on the list has not been notified, and a
mid is used once: `NotifiedOnce`. `HeldBackOnlyWhenFull` adds that before the
first reset the window count is exactly the messages in flow, and that each walk
goes on until it is full. The module begins with the lemmas on the operators of
MessageQueue: removal keeps distinct mids, a reset keeps the mids, a walk starts at
most as many as there is room for, the cardinality of the mids in flight.

**Session.** `Delivery` follows a message through the connection. `Answered`:
the broker has taken every mid that an acknowledgement or a PUBREL under way
names, that it has stored, or that the client's list has waiting for PUBCOMP.
This holds whatever is lost or repeated, since `received` only grows, and needs
no distinct mids: `AtLeastOnce` holds even if mids wrap. `Carried`: every
packet under way is one that OutMessages has in `sent`, and every
acknowledgement answers one. So `Refinement` can take each step in turn: when
the client reads an acknowledgement, the liberal network of OutMessages could
have given it; what the client writes joins `sent`; a step of the broker or of
the network changes nothing that OutMessages knows.
`ExactlyOnce` needs `OnceInv`: in a prompt behaviour a QoS 2 message that was
taken, and has a PUBLISH under way or is still waiting for its PUBREC, is
stored by the broker, and no PUBLISH follows the PUBREL of its mid in the
channel. A reset that starts a released message over breaks this. It does so
when the window is full, which is the run `qos2_duplicate` and the reason for
`WindowNeverFills`: then no message is ever held back and the count is the
length of the list (`RoomForAll`).
The first lemmas of the module say that `InOrder` (Orders) counts off a set of
positions in their order, once each: what a walk writes is what it picked.

**Client.** Each property has an invariant of its own:

* `DisconnectFinal` (`DisconnectSticks`): after a disconnect that met no window,
  the thread is not at one of the three places that assign the state;
* `DescriptorKept` (`NoDescriptorLost`): the thread comes to the back-off, and
  so to a new connection, without a socket or after a failed CONNECT;
* `OneReport` (`ReportedOnce`): a report goes with a close, so an open socket
  has none; a thread about to read, write or test the ping time on a closed one
  is counted in `doubled`;
* `TruthfulReports` (`ReportsTruthfully`): the state is "disconnecting", and a
  DISCONNECT is queued, only after the call; so a queue written before it closes
  nothing (`FlushQuiet`);
* `WaitsGrow` (`BackoffGrows`): the last wait is at most the uncapped next one,
  and while attempts fail it is the maximum or the product of the attempt before,
  which the next exceeds as squares do. `failing` keeps the thread out of
  the loop, where the waits start over. The product is taken in `Nat`: delays
  that overflow an `unsigned int` are outside it;
* `TypeCorrect` (`ClientTypeOK`), for a delay that is not 0: with 0 the counter
  of attempts is never capped.

**PacketQueue.** Which mutexes a thread has follows from where it is
(`LocksHeld`), and the places at which it asks for one while it holds others
leave only the cycles that `NoDeadlock` names. Packets are numbered as they
are made. The queue is sorted, `current_out_packet` is below it
(`QueueOrdered`), and what an open connection has carried is below both, or is
the current packet and as far as `pos` says (`WireBehind`, `WritePlaces`): this
gives `Framed`. `RoomKept` says that each packet that a
thread is about to make has a number left. `OpensConnection` says of the place
between the drain and the CONNECT what may be queued there: `ConnectFirst`.

**Channels.** `Types` holds for every app. `InTurns` is for the orderly ones:
the connection, the calls and what is under way are always in one of five
phases: no call and no answer to one under way, but perhaps a connection that
starts and resubscribes (`Calm`), a call that has yet to send (`Starting`), one
that is noting its topic (`Noting`), or one that has returned and whose answer is
to come (`Entering`, `Quitting`). Each phase says by how much table and broker
may differ and which packet under way will make them agree. The condition on
topics given twice was found by this proof.

**Posting.** What a call has found out about the file still holds where it is,
unless the file was changed during the call (`OnTheWay`), so each payload sent is
what was asked for or marked as changed (`SentAsAsked`). Calls are numbered, and
the present one has neither sent nor been refused (`Numbered`). The references in
use are those of the voice messages heard and of the exceptions
(`RefsCounted`).

**Topics.** The two strings pass their checks, and nothing more is assumed of
their length or characters. Which level a position belongs to is the number of
stops up to it (`Behind`), and where the level starts the last of them (`Start`);
so the lemmas on the tokeniser are about cardinalities of sets of positions:
passing a separator adds one, passing any other character changes neither, and
`LevelText` says which characters a level consists of. The invariant `WalkInv`
has two main parts, besides that topics of the broker are kept apart (`Apart`). `Aligned`: both positions have as many levels behind them, these
fit one by one, and the present ones are alike so far (`Alike`), or a `+` has
just been put against a whole level (`Skipped`). `NothingMissed`: a walk that
goes on with the topic at its end has not left, of the subscription, nothing, `+`
or `/#`, as it would have returned before. Then each return is a case: the
answer "match" with every level fitting (`MatchAtEnds`, `MatchPlusAtEnd`,
`MatchParent`, `MatchAtHash`), the answer "no match" with a level that differs or
too many levels (`NoMatchDiffers`, `NoMatchTopicLonger`), and the topic that ends
first (`NoMatchSubLonger`), where levels may still match: these are the cases of
`MissedParent`, which is why it has just these.

**MessageLists.** `IInv` has four parts. Three hold whether a reset has crossed
the lists or not: types (`Typed`), `Pointers` and `Walking`. `Pointers` says that
a next pointer leads to a cell handed out later, and at most one pointer to each
cell: publishing appends a new cell, unlinking lets a pointer skip one, and both
keep this. So every walk ends (`PointersInOrder`), and what a reset under way
holds in `message` and `prev` is still live however many publishes have come
between its steps (`Walking`). `Lists` holds until the lists are crossed: they
are disjoint, hold all live cells (`Split`), and lengths, last pointers and the
window count are what they should be for the half of the reset that is under way
(`Counted`). A list is a sequence, `Chain`, that a recursion over the cells
defines. That this recursion has a value is shown from the ordered pointers, cell
by cell from the last, and what each handler does to the sequence (append,
remove, change a cell, drop the first) is a lemma on chains. The refinement then
takes the actions in turn: each does to the two sequences what the step of
QueueSpec does, or leaves them alone.

**Incoming.** `Reader` (`Typed`, `ReaderTyped`, `Reading`, `Framing`) needs
nothing of the rest. `Reading` says for each place at which a read may stop what
the socket still holds: the rest of the digits of the first packet's length, of
its body, and then the other packets. With `Weight` this determines what has
been gathered: the digits read are those of the length modulo the weight reached,
the quotient is still to come. `ReaderStep` is proved apart, and gives every
handler that the packet it looks at is the first the broker sent (`WholeArrived`).
`ReleasedOnce` is about one message id at a time. `Owned` says that no message
has two ids, so a step that concerns one id leaves the others alone. For an id
that is not in `doubled`, `Sessions` follows the flow: which packets and answers
are under way and in which order (`Underway`), what the client holds (`Held`),
and what that means before the release (`Unreleased`), after it (`Released`), for
a QoS 1 message (`Acknowledged`) and for one the broker is done with
(`Finished`). The order is what matters: while the client holds the message no
PUBREL comes before a repeated PUBLISH, and until the broker has the PUBREC no
PUBCOMP is behind one.
A broker that repeats in any order of the ids keeps it, as each id is repeated
once. `Weight`, `LengthDigits` and the fold that joins the bytes are recursive
functions; that they exist, and obey their equations, is proved by taking the
least number at which they would not.

### Only model-checked

* Liveness, which is out of this prover's reach: `EventuallyNotified`,
  `AllAnswered`, `DisconnectReturns`, `DeadPeerNoticed`, `PublisherReturns`,
  `EventuallyWritten`, `CallsSettle`, `EventuallyTold`.

## Plan

All modules of the first plan are written, and every safety property that a run
checks is proved. What would come next:

1. Incoming and Session composed: both directions over one connection.
2. Channels over PacketQueue: what a call does while a callback is running.

## Not modelled

* `client_config_load` and its helpers (`client_shared.c`): nothing in the
  repository calls them. `pub_client.c` beyond its callbacks and loop: not built,
  and it does not compile against `client_shared.h`. `mosquitto_loop_start` and
  `mosquitto_loop_stop`, the C++ wrapper and the test drivers: not called, not
  built.
* SOCKS, SRV, TLS and the broker parts: compiled out.
* Allocation failures, logging, the clock, the fields of the will: no control
  of their own. Java strings left pinned on error paths: memory only.
* The byte layout of packets, except the fixed header in Incoming.
* The second close of one descriptor by two threads (`net_mosq.c:228`): which
  descriptor it hits is outside the process's state as modelled here.
