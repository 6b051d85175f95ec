# Verification of the yunba lock

The repository is the firmware of a shared-bicycle lock on an MTK feature-phone
platform: it drives a motor, two switches and a buzzer, and talks to the yunba
cloud over MQTT. This directory holds TLA+ models of it, TLC configurations that
check them and proofs checked by TLAPS. Every definition is translated from the
source; `PROJECT.json` maps each one to its lines.

## 1. Inventory

Paths are relative to `src/plutommi/MtkApp`.

| part | source | state | operations | hard behaviour |
|---|---|---|---|---|
| lock | `Mqtt/yunba_lock.c` | `g_lock_status`, `g_lock_step`, two interrupt levels, `g_buzzing`, cells | two interrupt routines, `yblock_unlock`, `_report`, `_buzz`, `_adjust`, `_status_notify`, `_step_notify`, `_btn_down`, `_handle_cell_info` | interrupts and commands meet in one mailbox; the motor stops only after a message has gone through it; a timer callback in another task |
| mailbox task | `Mqtt/mqtt_demo.c` | mailbox of `MOD_MQTT` | one handler per message | everything above and below is serialised here, except timer callbacks |
| session | `Mqtt/MQTTClient-C/src/mtk/MQTTMTK.c` | `MQTT_DEMO_State`, three `Network`s over one socket, the MQTT client, four timers | bootstrap (registration server, ticket server), broker connection, keepalive, publish, recovery | timers of the MMI task against handlers; stale notifications and lookups; duplicate starts and closes |
| socket manager | `.../mtk/mtk_socket.c` | `MTK_SOC_MNGR` | open, connect, close, read, write | asynchronous; open overwrites the socket it held |
| packet reading | `.../src/MQTTClient.c` `readPacket`, `sendPacket`, `MQTTMTK.c` `MTK_cycle`, `messageArrived`, `publish_message` | three buffers of 100 bytes | frame and dispatch packets, answer them, write packets | split packets, partial writes, lengths, a loop that ends on one return value only |
| packet codec | `Mqtt/MQTTPacket/src` | none | serialize, deserialize | length checks at the boundaries of the remaining length |
| topic matching | `MQTTClient.c` `isTopicMatched` | none | match a filter | one pass over two strings that end in different ways |
| file transfer | `Threedo/ThreedoSrc/threedo_ftm.c`, `threedo_socket.c` | task queue of six nodes, one socket, two timers | upload, download, heartbeat, retry, stop | retries, time limits, callbacks and stale timer messages in any order |
| audio recorder | `Threedo/ThreedoSrc/threedo_media.c`, `Threedo_main.c` `threedo_process_key` | a context per recording, a timer | start, stop, limit timer, callback | stop by key, timer or driver, with the callback later |
| start-up and glue | `threedo_task.c`, `Threedo_main.c` | `threedo_runnable` | posts `MSG_ID_MQTT_START` when SMS is ready and each time full service is back | duplicate starts |

How they interact: switches and the cloud post to, or are read by, the mailbox
task; its handlers run to their end. The lock publishes through the session,
the session hands commands to the lock (`messageArrived`). Timer callbacks run in
the MMI task between handlers: some only post a message, but
`mqttdemo_retry_cb` and `mqtt_retry_cb` close the shared socket themselves and
`yblock_stop_buzz` writes the buzzer.

What makes each part correct: the motor runs only when it should; the lock's
status follows the bolt; the last report made is current; the buzzer is released; the session
never gets stuck off line, is on line only over the connection on which the broker has
answered its CONNECT, keeps it alive and comes back after every failure but one (a
registration it cannot use, see 3); a recording is reported at most once and
only when every piece of it was taken, and never clogs the queue; sockets are not lost without bound;
packets are taken once, in order, answered in kind and written whole; no length
goes wrong at a boundary; a recording is stopped by its own timer only and settled once. `PROJECT.json` lists the hazards line by
line, with the properties that cover each.

## 2. Modules

| module | what it is |
|---|---|
| `LockCycle` | abstract specification of the lock as the cloud sees it |
| `YunbaLock` | the lock with its interrupts, mailbox, motor, buzzer and an external mechanism; implements `LockCycle` |
| `YunbaLockProofs` | theorems of `YunbaLock` |
| `LockPower` | `YunbaLock` over restarts of the phone |
| `LockPowerProofs` | theorem of `LockPower`, from the lemmas of `YunbaLockProofs` |
| `MtkSocket` | the socket manager with the external stack, resolver and peers |
| `MqttSession` | the session over `MtkSocket` |
| `MqttSessionProofs`, `MqttOnlineProofs` | theorems of `MqttSession`: off line, and on line |
| `UploadService` | abstract specification of what the recorder may expect of the file transfer |
| `ThreedoSocket` | the socket of the file transfer with the external stack, resolver and upload server |
| `FileTransfer` | the task queue, uploads, heartbeats and timers over `ThreedoSocket`; implements `UploadService` |
| `FileTransferProofs` | theorems of `FileTransfer` |
| `PacketCodec` | the packet library as operators on bytes |
| `PacketCodecProofs` | a theorem and the lemmas about `PacketCodec` |
| `PacketPipe` | abstract specification of the lock's end of a connection: packets taken once and in order |
| `PacketStream` | reading, dispatching, answering and writing packets over a byte stream; implements `PacketPipe` |
| `PacketStreamProofs` | theorems of `PacketStream` |
| `TopicMatch` | `isTopicMatched` and what a filter means by its levels |
| `AudioRecorder` | recording by key, timer and audio driver |
| `AudioRecorderProofs` | theorems of `AudioRecorder` |
| `MCYunbaLock`, `MCLockPower`, `MCMqttSession`, `MCFileTransfer`, `MCPacketStream` | values of the constants for TLC |

### YunbaLock

One action per interrupt routine, per message of the mailbox and per half of the
buzzer's callback (it clears the pin, then the flag, in another task). A handler is one
step; `yblock_adjust` is two, because it sleeps in between. `g_eint_level`
joins the two level variables into a function of the sensor; `TRUE` is
`LEVEL_HIGH`. The timing of tones, the texts, the battery and the cells are left
out (see 6). `yblock_buzz` is one step: it sets `g_buzzing` after it has started the timer
(line 163), and the model takes the shortest tone, 300 ms, to be longer than the moment in
between. `lastReport` is the last report the lock has made; off line or when a
publish fails it does not reach the cloud, and nothing makes it again. `MSG_ID_MQTT_START` buzzes like the `buzzer` command, which stands for it.

The mechanism is external and is read off the code: unlocking and locking
drive one motor in one direction, and each movement ends at the first step "on"
after a step "off". So one pass of the cam off its switch and on again carries the
bolt to the other end. The rider moves the shackle at any time. Three
disturbances can be switched on: `late` (the cam goes on before the last step
message has been taken), `adjust` (the command is sent) and `noise` (the step
switch changes by itself).

`LockPower` adds a restart at any moment between two handlers: every variable of the code
gets its initial value, the mailbox is empty, the interrupts wait for the low level
again, and switches, bolt and cam stay as they are. `yblock_init` does not write the
motor's pin; the model takes it to be off after a reset. `agree` is history: what
the restart has found, changed by each movement that begins with the cam
off its switch, as such a movement takes one pass more than it should.

### MtkSocket and MqttSession

`sock` is `MTK_SOC_MNGR` together with what the stack and the peer hold of that
socket: connection, replies due, packets unread. Sockets that the code has lost
stay in `open`; their notifications are dropped by `event_cb` and not modelled.
Request ids are ticks; the model only knows whether an answer belongs to the
current lookup, and assumes that two opens do not share a tick. Socket ids
may be used again at once, so queued notifications can match a newer socket.

`nets` abstracts each `Network` to: zeroed (`disconnect` is a null pointer), in use,
or `my_socket = -1`. `cpu` is `crashed` after a call through a null pointer - the
phone restarts, which is an assumption on the platform - and `hung` once
`MTK_cycle` reads from a socket that only this task could replace. The loop reads
one packet a step so that timers can come in between. `ping_outstanding`, which
is never read, the alternatives of `soc_recv` on a closed connection (taken to be
anything but `SOC_WOULDBLOCK`), `ST_MQTT_SUB` and `ST_GET_MQTT_START`, which are
never entered, and `SOC_WRITE`, which does nothing, are left out. Commands of the
broker appear by their acknowledgement and by whether the lock publishes.

`sock.link` is `acked` once the broker has answered the CONNECT, whatever its verdict:
`MTK_cycle` reads the return code of a CONNACK, and whether it could be read at all, without
looking at either (lines 836-850), and the lock goes on line and posts its alias over
a refusal. `sock.refused` is the verdict. `registered` is whether `info` holds
credentials: `get_reg_info_from_json` leaves them empty if the reply has none, and its result
is not looked at (line 557). Two assumptions on the broker: it refuses a client without
credentials, and one with them only as an upset (`refused`); and after a refusal it
answers nothing more and closes, as MQTT requires.

What goes wrong outside is an *upset* of one of thirteen kinds; a run chooses the
kinds and their number.

### ThreedoSocket and FileTransfer

`threedo_ftm.c` is written so that every function calls the next one last
(`process`, `after_connect`, `write_socket`, `upload_continue`, `read_socket`,
`check_and_clear_task`, `process` again). The model runs one function, or one piece
of a body, a step and `pc` names the function that runs next; the stack and the
timers may come in between, the task's next message may not. `tasks` is the linked
list, `timers` the timers that run. A timer that is stopped may already have posted
its message, which stays in `queue` as in the code. `retry` is the static counter of
`threedo_file_trans_process`, of which only zero or not zero matters.

`sock.error` keeps only what the code tells apart: 0, more, `SOC_WOULDBLOCK`, another
error. `sock.wire` is what the server has of the current request; it becomes `Torn`
when a piece arrives that does not continue it, and the server then answers nothing
but an error. `got` counts the pieces of a body that were taken (`currSize`), `open`
is a valid `fsHandle`. The total time of a task is the upset `age`: it may be exceeded
at any attempt, an over-approximation. `asked`, `finished` and `taken` are history;
`taken` gets a recording when the stack has taken its tail behind every piece of the
body. The task takes any result above 0 for the whole of a head or a tail (lines 672, 1075,
1118), so it may have been a part of either, and `read_socket` reports any answer;
`finished` grows when `MSG_ID_THREEDO_FILE_TRANS_FINISH_IND` is posted for a recording,
whose handler only announces the file to the cloud.

Two assumptions: an access through a null pointer (`pc = "fault"`) restarts the phone,
which forgets the queue; each recording has a file name of its own, as the recorder
names it by the time, and is handed over once. The request head is one piece that
the stack takes or refuses, of which a part may be taken (`partial`). `free_all` with
a task in the queue is `pc = "hung"`. Downloads are left out: nothing in the
firmware posts `MSG_ID_THREEDO_FILE_DOWNLOAD_REQ`, which would start one.

### PacketCodec, PacketPipe, PacketStream and TopicMatch

`PacketCodec` gives every serializer and deserializer the lock uses as an operator: a
buffer is a sequence of bytes, a serializer is what it writes and `TooShort` any result
that its callers take for an error. A deserializer gives its result `rc`, which callers compare
with 1, and whether the fields were set (`read`): for a packet that ends too early `rc` is the
number of digits of its length, 1 below 128, so that it passes for success. Packet identifiers are eight bytes, as four 16-bit
words. One oddity is kept out because it does no harm here: `MQTTSerialize_ack`
compares the room with 4 bytes and writes 10, into a buffer of 100.

`PacketStream` is one connection. The broker's bytes go from `wire` to the stack
(`rx`) in segments, with a notification whenever the stack had nothing to read; the task
takes them as the code does, one read of the socket a step: a byte, the digits of the
remaining length one by one, then the rest with one read that is not repeated. `pc`
names the next step. `sendPacket` offers the whole length again after a partial
write, so the model lets the stack take bytes behind the packet, and the handler of a packet
goes on when the send has returned. The lock pings for each PUBACK and PUBCOMP inside the
loop (`Puback`), and when the timer of the last ping has run out (`Keepalive`). Packets
that start or stop something elsewhere, or nothing (`Noted`: SUBACK, PINGRESP, PUBLISH2), leave
this model's state alone. A PUBREC or PUBLISH cut before its identifier is answered with what the
local for it may hold (`StrayIds`) and taken as `short_PUBREC` or `short_PUBLISH`. `whole` picks, once, whether
segments end where packets end. A write behind a buffer ends the behaviour with its
name in `pc`; so does `stray`, a write through the payload pointer that a short PUBLISH
leaves unset, or the send of what is left in `buf` for a PUBLISH of QoS 3. `M.retained` is not initialised in `publish_message`, so both values
are tried. A receive of 0 bytes stands for an empty stack (`SOC_WOULDBLOCK`).

`sent`, `got`, `done` and `out` are history. `PacketPipe` says what they promise:
the next packet taken is the next one sent, or that one put aside because its answer
could not be written.

`TopicMatch` walks filter and topic as the code does and compares the result with the
meaning of a filter by its levels. The meaning differs from MQTT's in two points that the
code leaves out: a wildcard does not stand for an empty level, and `a/#` does
not match `a`.

### AudioRecorder

One action per key event, for the timer, the driver's end of a recording and the
callback; all of them run in the MMI task. The driver is external: it ends a recording at
its limits, when told to or when a call comes, and calls back later. Other applications use
it as well. A context is allocated with the recording, and freed by the callback.
`threedo_process_key` and `threedo_process_secure_code` are called by the part of the
phone that is not in the repository. The window of `threedo_window.c` would share the
timer, but nothing posts the message that opens it; playing follows a download, which
nothing requests. Both are left out.

## 3. Runs

| run | question | bounds |
|---|---|---|
| `lock_rough` | with every disturbance: `TypeOK`, `MotorDriven`, `SwitchesAlternate`, `BuzzerReleased`, `LastReportCurrent`, and the refinement `ImplementsLockCycle` | mailbox of 3: one message per switch and a command, in any order |
| `lock_quiet` | without disturbances: `BoltMatchesStatus` | mailbox of 4 |
| `lock_power` | over a restart, with adjusts: `AgreementKept`, and under fairness `MovementEnds`, `BuzzerStops` | mailbox of 2, 1 restart |
| `session_rough` | all upsets, timers that may run out at any time: `TypeOK`, `NeverStranded`, `RunningHasAnswer`, `PublishedAfterConnack`, while nothing stays unanswered `KeepaliveCovered`, and while connections are asked for one at a time `ConnectComesFirst` | 2 sockets, 2 upsets, mailbox filled from outside up to 5 |
| `session_recovers` | timers longer than any answer, under fairness: `LeaksBounded`, `Recovers` | 3 sockets, so that both upsets may lose one |
| `session_lookup_fails` | a failed lookup is retried, as the comment in `MQTTMTK.c` line 663 says: violated | 1 upset |
| `transfer_rough` | all upsets, timers that may run out at any time: `TypeOK`, `OneAtATime`, `FinishedOnceAndTaken`, `ErrorCloses`, and the refinement `ImplementsUploadService` | server by address, 1 socket id (so every stale notification matches), 2 recordings, bodies of 2 pieces, queue of 2, 2 tries, 2 upsets |
| `transfer_by_name` | the same with lookups, under fairness: `NeverStranded`, `HeartbeatKept`, `Settles` | 2 socket ids, 1 upset |
| `transfer_stop` | `*83*00#` stops the task, `Threedo_main.c` line 1154: violated | 1 upset, the code is dialled |
| `packet_link` | segments, notifications, reads, pings and partial writes in any order: `TypeOK`, `NothingForgotten`, `BuffersHold`, `OutWhole`, `AnswersMatch`, the refinement `ImplementsPacketPipe`, and under fairness `EachTaken`; of the codec and the filters `CodecExact`, `TopicsExact` | two packets out of ten kinds (one if it may be cut, behind byte 1, 2 or 5), a report or a ping of the timer, 1 upset, buffers of 28 bytes |
| `packet_split` | a packet is taken as it was sent however it is cut, `MQTTClient.c` line 119: violated | as above, no refinement |
| `recorder` | key, timer, driver and other applications in any order: `TypeOK`, `ContextsOwned`, `TimerIsMine`, `SettledOnce`, and under fairness `EachSettled` | 3 recordings, 3 contexts |

The bound on the mailbox stops the outside and the interrupts from posting, never
a handler. Two upsets suffice for the histories that are hard here: one to leave the
straight path and one to disturb the recovery. `session_rough` was also run with
3 upsets and a mailbox of 4 (5.0 million states), with the same result.
In the transfer a queue of two tasks has a head and a task behind it, which is all the
code distinguishes, and two recordings with a heartbeat find it full.
`BufSize = 28` instead of 100 keeps the bytes few and has every case: messages that fit
with room, fill the buffer but for one byte, fill it, and pass it with a remaining length
of two digits; reports likewise. The kinds of packets are all those `MTK_cycle` tells
apart, and two of them are a packet and what it may leave behind. The inputs of
`CodecExact` lie next to every boundary of the remaining length (2, 128, 16384,
2097152, and the largest one); the packets formed have 90 to 130 bytes of text in buffers of 120 to
140. Filters and topics of five characters have room for three levels and for empty ones.
A third recording finds the contexts of two others not yet freed. `DueMax = 1`
bounds the answers under way to one a connection plus the refusals.
The runs of the session, the transfer and the connection do not check deadlock: when no more
upsets are allowed and no timer is armed the phone really is idle, and a connection ends.

What the runs show besides their properties:

* After power-on a failed lookup restarts the phone instead of being retried
  (`session_lookup_fails`).
* `Recovers` allows the task to hang. Without that clause TLC finds a broker
  that closes right behind its last packet: `MTK_cycle` reads on and never gets
  `SOC_WOULDBLOCK`. With `Patient = FALSE` a timer that closes the socket during the
  loop does the same.
* After a refused CONNACK the lock is on line until the broker closes; `RunningHasAnswer`,
  `PublishedAfterConnack` and `ConnectComesFirst` therefore speak of the broker's answer, not of
  its consent. `Recovers` asks for an accepted session in the end.
* `Recovers` also excepts a lock that has got as far as the broker without credentials:
  after a registration reply it cannot use, it never asks the registration server
  again and is refused for ever. Without the exception TLC finds this with one `garbled` reply.
  `LeaksBounded` leaves these histories out too, as each refusal may lose a socket.
* `KeepaliveCovered` fails if an acknowledgement is lost. It is therefore stated as long
  as nothing has stayed unanswered, which `MtkSocket` keeps in the history variable `answered`.
* `ConnectComesFirst` fails if two requests for a connection are in the mailbox: if the
  phone posts `MSG_ID_MQTT_START` while on line, and also without that. Then the
  peer closes and the retry timer runs out, both ask for `MSG_ID_MQTT_CONN`, a stale
  `SOC_CONNECT` with the id of the first new socket puts the session on line early, and the second
  request then replaces that socket without `mqtt_close`. The keepalive timer goes
  on, and its PINGREQ goes to the third socket ahead of the CONNECT. It takes a
  mailbox of five messages. The property is therefore stated for histories with one
  request at a time (`OneRequest`); what is published never gets ahead
  (`PublishedAfterConnack`, without a condition).
* `LeaksBounded` fails with `Patient = FALSE`: each racing timer may lose a socket. With `Patient`
  it was also run with 3 upsets, 4 sockets and a mailbox of 4 (1.7 million states), with the same result.
* `MovementEnds` fails with `late` or `noise`: a step message that is missed leaves the
  motor running, as no timer bounds a movement.
* `transfer_stop`: `free_all` frees the first node in a loop that never moves on.
* Met while modelling the transfer: when an error of `soc_send` strikes a heartbeat, or
  the last task with its tries used up, `check_and_clear_task` removes it and then writes
  to it through the null head before it closes the socket (`threedo_ftm.c` line 1332; a fault
  state of the model). And a stack that blocks for six seconds makes the task start
  anew on the same connection, so that the server finds a request head inside a body
  (line 1330; `sock.wire = Torn`).
* `NeverStranded` of the transfer is stated for one upset. With two it fails for a server
  given by name: `soc_create` fails and leaves `get_ip` at `THREEDO_DNS_START`, the answer to
  an older lookup is then taken, stops the timer and finds no socket. A queue stranded
  this way moves on with the next recording. `HeartbeatKept` fails in the same way, and
  without its exception: two heartbeat messages in a row, one of them stale, remove
  a recording that is the only task, and no timer runs until the next recording.

* `AgreementKept`: after a restart in mid-movement or with the lock open, the status is
  `LOCKED` and the bolt is not: the next command to unlock locks. No later movement
  heals it, because every movement turns the bolt over, and only an adjust by hand
  does.
* `packet_split`: `readPacket` does not put a packet together whose segments it reads
  apart. With its first byte alone a CONNACK of no length puts the session on line. Over
  GPRS a connection may cut a packet anywhere; `ImplementsPacketPipe` holds as long as it
  does not.
* Met while modelling the connection: a PUBREC cut behind its first byte is read as a packet of
  no length, for which `MQTTDeserialize_ack` returns 1 without an identifier, although its comment
  (`MQTTDeserializePublish.c` line 80) says that 0 is failure; the lock answers it with a PUBREL
  that carries what the local held. A PUBLISH cut there ends in `messageArrived` with
  a write through a pointer nobody has set.
* `BuffersHold` names the packets that do not fit: one that fills `readbuf` leaves no
  room for the NUL behind its payload, and a longer one is read past the buffer, whose size
  `readPacket` does not know. With texts as short as the lock's commands this does not come up.
* `AnswersMatch` and `PacketPipe` have a packet put aside: if its acknowledgement
  cannot be written, a command is dropped and the session stays as it is.
* `recorder`: the 18 s timer outlives a recording that the driver has ended. It does not
  cut the next one short, because that starts the timer again, but it does stop
  a recording of another application that is under way then, and so does the release of the
  key.

### Fairness

`lock_power`: the task, the interrupts and the timer are scheduled (weak fairness of
the task and the callback; strong fairness of a level-triggered interrupt, which
stays pending while the mailbox has no room), and a driven motor turns the cam.
Nothing is assumed of cloud, rider, knocks and restarts. `session_recovers`: the task
runs, the phone restarts after a crash, the two recovery timers run out, and an
answer that no upset takes away arrives (strong, as the mailbox may be full for
a moment); a broker that has refused a client closes. Nothing is assumed of the keepalive timer and of upsets. `transfer_by_name`: the task
runs, a phone at fault restarts, the block timer runs out (strong: the mailbox may be
full for a moment), and a lookup, a connect, `SOC_WRITE` or an answer that is due arrives
unless an upset takes it away. Nothing is assumed of the heartbeat timer. `packet_link`: the task
runs and what the broker has sent arrives. `recorder`: the driver ends a recording, as it has
a limit of 20 s, and calls back. `Settles`
allows for `free_all` to hang.

## 4. Theorems

Each theorem holds for every value of the constants that the `ASSUME` of its component
allows. TLC evaluates these assumptions in the runs of the component: they say that bounds
are numbers and that sets of disturbances or upsets are among those the actions know.
Each invariant below was checked by TLC before it was proved.

### The lock: `YunbaLockProofs`, `LockPowerProofs`

For every bound of the mailbox and, where nothing else is said, every set of disturbances:

* `LockTyped`, `MotorSafe`, `BuzzerSafe`, `ReportsCurrent`: `TypeOK`, `MotorDriven`,
  `BuzzerReleased` and `LastReportCurrent`. Each is inductive together with `TypeOK`.
* `LockRefinesCycle`: each action is a step of `LockCycle` or leaves status and last
  report alone. An "on" of the step switch needs `TypeOK` to know which movement it ends.
* `SwitchesHeard`: `SwitchesAlternate`. It is inductive when it is stated by places: the
  messages of one switch alternate in the mailbox, beginning with the one the task heard
  last as place 0, and the last one is the level the interrupt was set to. `TakeShifts` and `PostExtends` say what the two ends of the mailbox do to it.
* `BoltFollowed`, `BoltSafe`: without disturbances the bolt and the status agree at
  rest. `BoltMatchesStatus` is not inductive: it says nothing of a movement.
  `BoltTracked` adds that at most one step message is in the mailbox and tells where
  the cam is, and where the bolt is before and after the task has taken the "off".
* `AgreementSafe`: `AgreementKept` over any number of restarts at any moment, for
  `Disturbances \subseteq {"adjust"}`. `PowerInv` says for a lock at rest, before and
  after the first switch message of a movement how bolt, cam and agreement go together
  (`AsAgreed`). A restart in mid-movement is why the cam may be off its switch when a
  movement begins; this movement then turns the bolt over an odd or an even number of
  times, which is where the agreement changes. The hypothesis is needed: with a cam that
  runs ahead of the task or a knock the property is false, and TLC shows it.

### The session: `MqttSessionProofs`, `MqttOnlineProofs`

For any sockets, any kinds and number of upsets, any bound of the mailbox, timers that may
run out at any moment:

* `SessionTyped`: `TypeOK`, together with `LinkOpen` (a connection under way or up has an open
  socket), which gives the notifications their socket ids.
* `SessionMovesOn`: `NeverStranded`, inductive with `TypeOK` and `LinkOpen`: a handler or a
  timer that takes the only way on leaves another.
* `OnlineHasAnswer`: `RunningHasAnswer`. It rests on the order of the mailbox: the
  messages of older sockets and of older lookups are under way together with those of
  the current ones, a socket id may be given again, and only the order rules out that a
  stale report is taken for a new one. `LookupInv` follows the answers to lookups,
  `OrderInv` says which reports and reads may be in front of which, and `OnlineInv` what the
  session has on its way on line and there, as long as no message that opens another connection
  is in the mailbox.
* `KeepaliveGoesOn`: `KeepaliveCovered`. Its inductive form `CoveredInv` counts only news of
  the end of the current connection (`Pings`): news of an older one are dropped by their handler
  and leave no other way to go on.
* `PublishesAfterConnack`: `PublishedAfterConnack`. `PublishInv` follows the answer to the CONNECT
  from the bytes the broker has sent (`AnswerRead`) to the state of the session (`RunningAnswered`).
  Whether the answer is a refusal does not enter: the code does not ask.
* `ConnectFirst`: `ConnectComesFirst`, from `[]OneRequest`. `OrderlyInv` says of each keepalive in
  the mailbox, and of the timer as one behind the last message, that it meets the connection
  that is on line or none at all (`Harmless`): a connection is asked for behind it, or
  the current one is closed before it. `HarmShift` and `HarmLast` carry this along with the mailbox. `PhaseInv` ties
  the phases to the sockets: a connection is asked for when there is none, and keepalives exist
  only once there is a broker. Where two requests meet, `NoneHeld` is what breaks.

### The file transfer: `FileTransferProofs`

For any recordings, sizes, tries, sockets and upsets, and any queue:

* `TransferTyped`, `OneTaskAtATime`, `ErrorsClose`: `TypeOK`, `OneAtATime` and
  `ErrorCloses`. `TransferInv` joins to them that the pieces left to send are those of the
  task's size (`PieceLeft`), that the loops of the task run with a head to work on and tries
  left (`Progress`), and that an error met is acted on at `pc = "check"` (`ErrorMet`).
* `ReportedOnceAndTaken`: `FinishedOnceAndTaken`. `UploadInv` is that a recording handed over is in
  one place: in the list, in a message of the mailbox, or reported; and that a task in its last
  states has had its pieces and its tail taken. Neither half of `FinishedOnceAndTaken` is inductive without it:
  a recording already reported could be in the list once more.
* `UploadServiceImplemented`: the refinement. The history of what was uploaded and
  reported takes one step of `UploadService` or none with every action, which needs `UploadInv`.
* `NeverStrandedByOne`, `HeartbeatKeptByOne`: `NeverStranded` and `HeartbeatKept` as long as there
  was at most one upset, of any kind and at any moment, with no bound on `MaxUpsets`. `StrandInv`
  follows what the one upset was spent on. `CleanInv` says how little there is before it: no failed
  answer, no `SOC_WRITE`, no stale lookup, and reads only over a connection that is up. `NameInv` ties
  the lookups to the socket that waits for one, `ReadInv` rules out that a read of an earlier
  connection wakes a socket that has no name yet. `GoingInv` names what moves the head on, by its
  state: the block timer or its message (`Armed`), a `SOC_WRITE` the stack owes (`Blocked`), or
  an event that names the socket (`Owed`). Only after the upset may a lookup or a connect under way
  be counted on (`Coming`): before it, it may still be lost. `BeatInv` does the same for the
  empty list, and needs that the tasks behind the head have tries left.

### The recorder: `AudioRecorderProofs`

For any number of contexts and recordings: `RecorderTyped`, `ContextsSafe`, `TimerSafe`,
and the action property `SettledOnce` as `RecordingsSettledOnce`. `RecorderInv` adds that
contexts in use carry different recordings, the current one being recorded and the others
ended (`RecordingsApart`). Without it a late callback could settle a recording again.

### The connection: `PacketCodecProofs`, `PacketStreamProofs`

For any packets a broker may send (`Packet`: of the kinds `MTK_cycle` tells apart, with lengths
their format can express), any buffers of ten bytes or more, any topic for which the
lock's alias message fits the buffer, any reports, pings, cuts and partial writes, and whatever
identifiers a local may hold that nobody has set:

* `LengthsAreExact`: for every remaining length up to 268435455, `MQTTPacket_decodeBuf`
  reads what `MQTTPacket_encode` has written, and `MQTTPacket_len` is the packet's length
  or one more. `CodecExact` checks this next to the boundaries. That the two recursive functions
  of the codec are functions at all, so that their equations may be used, is
  `EncodeUnfolds` and `ConcatUnfolds`; both follow from `LinearRecursion`, which builds the
  solution of such an equation from the least number principle (`Least`, `Induct`).
* The lemmas about fields and packets (`ReadsInt`, `ReadsId`, `ReadsString`, `FrameRead`,
  `AckFrames`, `PublishFrames`) say that a reader finds in a buffer what the writer has put
  there; `Written` says it of each kind of packet of the broker.
* `StreamTyped`: `TypeOK`. It needs that each packet the lock sends is not empty, hence
  the assumption on the alias.
* `NothingIsForgotten`: `NothingForgotten`, inductive as `Heard`, which adds the moments when
  the task sends a message of its own and goes back to its mailbox from there.
* `BuffersSuffice`, `PacketPipeImplemented`: `BuffersHold` and the refinement of `PacketPipe`.
  Both rest on `ReadInv`: as long as no packet is cut, the bytes in the stack are what is left of the
  packet the task is reading, followed by the next ones, and the wire holds those behind them
  (`Line`). `Middle` says how far the task is in its packet: which digits of the remaining
  length are read and what they stand for (`Partial`), that the length is the body's, or that
  the whole packet stands in `readbuf`. The lemmas `ConnackTaken` to `PublishTaken` say that
  what the loop then takes is the packet sent; `HeaderRead`, `DigitRead` and `BodyRead` are the
  three reads, `ReaderSends` and `ReaderArrives` the interleaving with broker and stack.
* `PacketsGoOutWhole`: `OutWhole`, inductive with `TypeOK`. `SentSoFar` is the step: the bytes
  taken continue the packet as long as their number does not pass its length. The pings of
  `Puback` and `Keepalive` are among the packets.
* `AnswersAreRight`: `AnswersMatch`. The packets taken that ask for an answer and the answers
  sent are numbered by their places among their like (`Nth`); `Account` says that they agree place by
  place, and that from the moment its answer is sent until it is handed over a PUBLISH has its
  answer one `Ahead`. `JobAnswers` is what makes this inductive: what is being sent is
  the answer to what still stands in `readbuf`, or a message or ping of the lock's own, whose type
  tells it from an answer (`OfItsOwn`). `PubrecAsks` and `PublishAsks` say which answer settles
  which packet, short ones included: those only in kind. `GivesAnswer` and `TakesAnswered` are the two ends of an answer,
  `GivesOther` and `TakesOther` what comes between; `AckSays` reads an answer back out of its bytes.

### Only model-checked

* Liveness (`MovementEnds`, `BuzzerStops`, `Recovers`, `Settles`, `EachTaken`,
  `EachSettled`): fairness and `ENABLED` are beyond the prover.
* `LeaksBounded` of the session: it holds with `Patient` only and needs an account of how many
  sockets each timer may still lose.
* `TopicsExact`, and of `CodecExact` the serializers' lengths (`Framed`).

## 5. Plan

Done: the modules of section 2. Left is a proof of `LeaksBounded` of the session.

## 6. Not modelled

* One model with lock, session and connection over one mailbox. They meet in two places,
  a command that is posted and a report that is published, and each of the models has the other
  side of these in all its orders: the lock takes any command at any time, the
  connection any report, and the session any moment to publish. What the cloud knows of the lock
  after a report was lost is not promised by anything in the source.
* Neighbour cells: nothing calls `yblock_reg_cell_info`, so their indication never comes.
* Modelled all the same: `MSG_ID_YBLOCK_BTN_DOWN` is in `YunbaLock` although its only sender, `keybrd.c` line 4575, is
  commented out: the task still has a case for it.
* Subscription and the extended commands of the session, the library's own loop in
  `MQTTClient.c`, `deliverMessage`, `MQTTPacket_read` and `_readnb`: not called.
  The server side of the packet library is not called either.
* Downloads and playing: nothing requests them. The status window: nothing opens it.
* The configuration file and its parser: reading it is compiled out, the configuration is
  constants. Calls, SMS, USSD and drives: single calls into the phone, without state.
* The phone's framework and data. These are most of the repository's lines:
  `threedo_win32.c` (22128 lines of embedded media), `keybrd.c` (12328 lines of the vendored
  keypad framework, of which lines from 6950 on are its unit tests), and about 14000 lines of
  generated or vendored headers with message, task, timer and resource numbers. They
  carry no logic of this system. The parts above that do are about 9000 lines, a third of
  them comments and traces. This is why the map covers a small share of the repository.

`PROJECT.json` lists each component with its status.
