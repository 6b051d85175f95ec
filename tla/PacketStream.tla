---------------------------- MODULE PacketStream ----------------------------
(***************************************************************************)
(* How packets pass between the broker and the lock over one connection:   *)
(* MTK_cycle and readPacket take packets out of a byte stream, answer them *)
(* and hand commands over; sendPacket and publish_message put packets of   *)
(* the lock on the stream.  The codec is PacketCodec's.                    *)
(*                                                                         *)
(* The stack hands over what has arrived, one segment after the other, at  *)
(* any moment between two reads.  The connection itself stays up until the *)
(* lock closes it: what else may happen to it is MqttSession's.            *)
(***************************************************************************)
EXTENDS PacketCodec

CONSTANTS
  BrokerPackets,   \* what the broker may send
  MaxPackets,      \* bound on how many it sends if none is cut
  MaxCutPackets,   \* and if they may be cut
  CutsAt,          \* where a packet may be cut into two segments
  BufSize,         \* size of buf, readbuf and pubMsg: 100
  Topic,           \* DEVICE_ID, to which the lock reports
  ReportCmd,       \* the payload of the command "report"
  ReportLengths,   \* lengths of the reports the lock makes
  MaxReports,      \* bound on how many it makes by itself, pings of its timer included
  StrayIds,        \* what the local for an identifier may hold that nobody has set
  MaxUpsets        \* bound on cuts and on writes the stack does not take as a whole

(* The packets the loop tells apart, as long as their format allows: two bytes count a string *)
(* and four digits the rest of a packet. *)
LongestRest == 268435455
LongestPacket == LongestRest + 5
Connacks == [type : {"CONNACK"}, rc : Byte]
Pingresps == [type : {"PINGRESP"}]
Acks == [type : {"PUBACK", "PUBREC", "PUBCOMP"}, id : Id]
Publishes ==
  {p \in [type : {"PUBLISH"}, dup : 0..1, qos : 0..2, retained : 0..1, id : Id,
          topic : Seq(Byte), payload : Seq(Byte)] :
     /\ Len(p.topic) \in Word
     /\ MQTTSerialize_publishLength(p.qos, p.topic, Len(p.payload)) <= LongestRest
     /\ p.qos = 0 => p.id = NoId}
Commands ==
  {p \in [type : {"PUBLISH2"}, id : Id, cmd : Byte, status : Byte, payload : Seq(Byte)] :
     Len(p.payload) \in Word}
Packet == Connacks \cup Pingresps \cup Acks \cup Publishes \cup Commands

(* The topic of the message that sets the lock's alias: ",yali". *)
AliasTopic == <<44, 121, 97, 108, 105>>

(* The lock's messages of its own fit pubMsg: the alias is its DEVICE_ID. *)
ASSUME StreamAssumption ==
  /\ MaxPackets \in Nat /\ MaxCutPackets \in Nat /\ MaxReports \in Nat /\ MaxUpsets \in Nat
  /\ CutsAt \subseteq Nat
  /\ StrayIds \subseteq Id /\ StrayIds # {}
  /\ BufSize \in Nat /\ BufSize >= 10
  /\ ReportLengths \subseteq Nat /\ ReportLengths # {}
  /\ BrokerPackets \subseteq Packet
  /\ Topic \in Seq(Byte) /\ ReportCmd \in Seq(Byte)
  /\ Fits(MQTTSerialize_publishLength(1, AliasTopic, Len(Topic)), BufSize)

VARIABLES
  whole,     \* every segment ends where a packet ends
  sent,      \* history: the packets the broker has sent
  wire,      \* their bytes that have not arrived, one sequence for each packet
  rx,        \* bytes the stack holds for the lock
  queue,     \* the task's mailbox: "READ", "SET_ALIAS", "CLOSE"
  pc,        \* what the task does next; "past ..." after a write behind a buffer, "stray"
             \* after one through a pointer, or a send of a length, that nobody has set
  readbuf,   \* Client.readbuf
  rem,       \* readPacket: the remaining length so far, and how many digits it has
  online,    \* MQTT_DEMO_State = ST_MQTT_RUNNING
  job,       \* sendPacket: the packet in buf, how much is sent, and what it is for
  out,       \* bytes the stack has taken from the lock
  done,      \* history: the packets for which sendPacket has returned SUCCESS
  failed,    \* history: it has returned FAILURE
  got,       \* history: the packets taken
  reports,   \* the reports and pings the lock has made by itself
  upsets     \* cuts, and writes the stack did not take as a whole

readVars == <<rx, readbuf, rem>>
writeVars == <<job, out, done, failed, upsets>>
vars == <<whole, sent, wire, rx, queue, pc, readbuf, rem, online, job, out, done, failed, got, reports, upsets>>

Messages == {"READ", "SET_ALIAS", "CLOSE"}
Jobs == [bytes : Seq(Byte), sent : Nat, 
         for : {"none", "own", "report", "keepalive", "PUBLISH", "PUBREC"}]
NoJob == [bytes |-> <<>>, sent |-> 0, for |-> "none"]
PutAside == [type |-> "put aside"]
IdOfReports == [i \in 1..4 |-> 1]

Init ==
  /\ whole \in BOOLEAN
  /\ sent = <<>> /\ wire = <<>> /\ rx = <<>> /\ queue = <<>>
  /\ pc = "idle"
  /\ readbuf = [i \in 1..BufSize |-> 0]
  /\ rem = [value |-> 0, digits |-> 0]
  /\ online = FALSE
  /\ job = NoJob /\ out = <<>> /\ done = <<>> /\ failed = FALSE
  /\ got = <<>>
  /\ reports = 0 /\ upsets = 0

-------------------------------------------------------------------------------
(* The broker and the stack. *)

(* The packet as the broker writes it.  Its PUBLISH2 has the fields the client reads. *)
OnWire(p) ==
  CASE p.type = "PUBLISH" -> MQTTSerialize_publish(LongestPacket, p)
    [] p.type = "CONNACK" -> MQTTHeader("CONNACK", 0, 0, 0) \o MQTTPacket_encode[2] \o <<0, p.rc>>
    [] p.type = "PINGRESP" -> MQTTSerialize_zero(2, "PINGRESP")
    [] p.type = "PUBLISH2" -> MQTTHeader("PUBLISH2", 0, 0, 0)
         \o MQTTPacket_encode[12 + Len(p.payload)] \o writeInt64(p.id)
         \o <<p.cmd, p.status>> \o writeInt(Len(p.payload)) \o p.payload
    [] OTHER -> MQTTSerialize_ack(10, p.type, 0, p.id)

Up == pc \notin {"closed", "past readbuf", "past pubMsg", "stray"}

BrokerSends ==
  /\ Up
  /\ Len(sent) < IF whole THEN MaxPackets ELSE MaxCutPackets
  /\ \E p \in BrokerPackets :
       /\ sent' = Append(sent, p)
       /\ wire' = Append(wire, OnWire(p))
  /\ UNCHANGED <<whole, rx, queue, pc, readbuf, rem, online, job, out, done, failed, got, reports, upsets>>

(* A segment arrives; the task is notified when there was nothing to read. *)
Arrives(bytes) ==
  /\ Up
  /\ rx' = rx \o bytes
  /\ queue' = IF rx = <<>> THEN Append(queue, "READ") ELSE queue
  /\ UNCHANGED <<whole, sent, pc, readbuf, rem, online, job, out, done, failed, got, reports>>

Upset == upsets < MaxUpsets /\ upsets' = upsets + 1

WholePacketsArrive ==
  \E n \in 1..Len(wire) :
    /\ Arrives(Concat[SubSeq(wire, 1, n)])
    /\ wire' = SubSeq(wire, n + 1, Len(wire))
    /\ UNCHANGED upsets

PartArrives ==
  /\ ~whole
  /\ wire # <<>>
  /\ Upset
  /\ \E n \in CutsAt \cap 1..Len(wire[1]) - 1 :
       /\ Arrives(SubSeq(wire[1], 1, n))
       /\ wire' = [wire EXCEPT ![1] = SubSeq(@, n + 1, Len(@))]

-------------------------------------------------------------------------------
(* readPacket: each read of the socket is a step, as more may arrive between two. *)

(* Mutant: SOC_READ ends after one packet, as in cycle of MQTTClient.c. *)
Again_Once == pc' = "idle"

(* MTK_cycle goes to begin. *)
Again == pc' = "header"

(* SOC_READ of the broker's socket: the loop of MTK_cycle begins. *)
SocketReadable ==
  /\ pc = "idle"
  /\ queue # <<>> /\ Head(queue) = "READ"
  /\ queue' = Tail(queue)
  /\ Again
  /\ UNCHANGED <<whole, sent, wire, rx, readbuf, rem, online, job, out, done, failed, got, reports, upsets>>

(* Without a byte the loop ends: SOC_WOULDBLOCK. *)
ReadHeader ==
  /\ pc = "header"
  /\ IF rx = <<>>
     THEN pc' = "idle" /\ UNCHANGED readVars
     ELSE /\ readbuf' = [readbuf EXCEPT ![1] = Head(rx)]
          /\ rx' = Tail(rx)
          /\ rem' = [value |-> 0, digits |-> 0]
          /\ pc' = "length"
  /\ UNCHANGED <<whole, sent, wire, queue, online, job, out, done, failed, got, reports, upsets>>

(* Mutant: a fifth digit is read. *)
decodePacket_FiveDigits ==
  /\ pc = "length"
  /\ IF rem.digits > 4 \/ rx = <<>>
     THEN pc' = "body" /\ UNCHANGED <<rx, rem>>
     ELSE /\ rem' = [value |-> rem.value, digits |-> rem.digits + 1]
          /\ rx' = Tail(rx)
          /\ pc' = IF Head(rx) >= 128 THEN "length" ELSE "body"
  /\ UNCHANGED <<whole, sent, wire, queue, readbuf, online, job, out, done, failed, got, reports, upsets>>

(* One digit of the remaining length.  A digit that is missing, or a fifth one, ends the loop *)
(* with the length so far. *)
decodePacket ==
  /\ pc = "length"
  /\ IF rem.digits = 4 \/ rx = <<>>
     THEN pc' = "body" /\ UNCHANGED <<rx, rem>>
     ELSE /\ rem' = [value |-> rem.value + (Head(rx) % 128) * multiplier[rem.digits + 1],
                     digits |-> rem.digits + 1]
          /\ rx' = Tail(rx)
          /\ pc' = IF Head(rx) >= 128 THEN "length" ELSE "body"
  /\ UNCHANGED <<whole, sent, wire, queue, readbuf, online, job, out, done, failed, got, reports, upsets>>

Overwrite(buf, at, bytes) ==
  [i \in 1..Len(buf) |-> IF i - at \in 0..Len(bytes) - 1 THEN bytes[i - at + 1] ELSE buf[i]]

(* Mutant: the read takes all there is. *)
ReadBody_Greedy ==
  /\ pc = "body"
  /\ LET digits == MQTTPacket_encode[rem.value]
         n == Len(rx)
     IN /\ readbuf' = Overwrite(readbuf, 2, digits \o rx)
        /\ rx' = <<>>
        /\ IF 1 + Len(digits) + n > BufSize THEN pc' = "past readbuf"
           ELSE IF n >= rem.value THEN pc' = "dispatch"
           ELSE IF n = 0 THEN pc' = "idle" ELSE Again
  /\ UNCHANGED <<whole, sent, wire, queue, rem, online, job, out, done, failed, got, reports, upsets>>

(* One read for the whole rest, into readbuf without a look at its size.  A part of it is *)
(* dropped, and what follows is taken for the next packet; with nothing at all the loop ends. *)
ReadBody ==
  /\ pc = "body"
  /\ LET digits == MQTTPacket_encode[rem.value]
         n == Min({rem.value, Len(rx)})
         after == Overwrite(readbuf, 2, digits \o SubSeq(rx, 1, n))
     IN /\ readbuf' = after
        /\ rx' = SubSeq(rx, n + 1, Len(rx))
        /\ IF 1 + Len(digits) + n > BufSize THEN pc' = "past readbuf"
           ELSE IF n = rem.value THEN pc' = "dispatch"
           ELSE IF n = 0 THEN pc' = "idle" ELSE Again
  /\ UNCHANGED <<whole, sent, wire, queue, rem, online, job, out, done, failed, got, reports, upsets>>

-------------------------------------------------------------------------------
(* What the packet in readbuf says. *)

PacketType ==
  IF \E t \in DOMAIN msgTypes : IsType(readbuf, t)
  THEN CHOOSE t \in DOMAIN msgTypes : IsType(readbuf, t)
  ELSE "none"

Payload(d) == SubSeq(readbuf, d.payload, Min({d.payload + d.payloadlen - 1, BufSize}))

(* What messageArrived is handed. *)
Handed(d) ==
  [type |-> "PUBLISH", dup |-> d.dup, qos |-> d.qos, retained |-> d.retained,
   id |-> d.id, topic |-> d.topicName, payload |-> Payload(d)]

(* A packet that ends before its identifier or its topic has none. *)
Taken ==
  CASE PacketType = "PUBLISH" /\ ~MQTTDeserialize_publish(readbuf).read ->
         [type |-> "short_PUBLISH", qos |-> QosBits(readbuf[1])]
    [] PacketType = "PUBREC" /\ ~MQTTDeserialize_ack(readbuf).read -> [type |-> "short_PUBREC"]
    [] PacketType = "PUBLISH" /\ MQTTDeserialize_publish(readbuf).read ->
         Handed(MQTTDeserialize_publish(readbuf))
    [] PacketType = "PUBLISH2" ->
         LET d == MQTTDeserialize_publish2(readbuf)
         IN [type |-> "PUBLISH2", id |-> d.id, cmd |-> d.cmd, status |-> d.status,
             payload |-> Payload(d)]
    [] PacketType = "CONNACK" ->
         [type |-> "CONNACK", rc |-> IF MQTTDeserialize_connack(readbuf).read
                                     THEN MQTTDeserialize_connack(readbuf).connack_rc ELSE 255]
    [] PacketType = "PUBREC" /\ MQTTDeserialize_ack(readbuf).read ->
         [type |-> "PUBREC", id |-> MQTTDeserialize_ack(readbuf).id]
    [] PacketType \in {"PUBACK", "PUBCOMP"} ->
         [type |-> PacketType, id |-> IF MQTTDeserialize_ack(readbuf).read
                                      THEN MQTTDeserialize_ack(readbuf).id ELSE NoId]
    [] OTHER -> [type |-> PacketType]

-------------------------------------------------------------------------------
(* sendPacket. *)

StartSend(bytes, for) ==
  /\ job' = [bytes |-> bytes, sent |-> 0, for |-> for]
  /\ pc' = "send"

(* Where the task goes on: an acknowledged PUBLISH is handed over; a report asked for by the *)
(* broker and a ping for an acknowledgement were sent inside the loop. *)
After(for) == CASE for = "PUBLISH" -> "arrived" [] for = "own" -> "idle" [] OTHER -> "header"

Succeeds ==
  /\ done' = Append(done, job.bytes)
  /\ job' = NoJob
  /\ pc' = After(job.for)
  /\ got' = IF job.for = "PUBREC" THEN Append(got, Taken) ELSE got
  /\ UNCHANGED <<failed, queue>>

(* A packet that is not answered is put aside; a publish or a ping that fails closes the *)
(* session. *)
Fails ==
  /\ failed' = TRUE
  /\ job' = NoJob
  /\ pc' = IF job.for = "own" THEN "idle" ELSE "header"
  /\ IF job.for \in {"PUBLISH", "PUBREC"}
     THEN got' = Append(got, PutAside) /\ UNCHANGED queue
     ELSE queue' = Append(queue, "CLOSE") /\ UNCHANGED got
  /\ UNCHANGED done

(* Mutant: what was written beyond the packet counts as success. *)
Write_AtLeast(n) ==
  LET length == Len(job.bytes)
      behind == [i \in 1..length |-> 0]
      total == job.sent + n
  IN /\ pc = "send"
     /\ out' = out \o SubSeq(job.bytes \o behind, job.sent + 1, total)
     /\ IF total < length
        THEN job' = [job EXCEPT !.sent = total] /\ UNCHANGED <<pc, done, failed, got, queue>>
        ELSE Succeeds
     /\ UNCHANGED <<whole, sent, wire, rx, readbuf, rem, online, reports>>

(* The stack takes n bytes.  Each call asks for the length of the whole packet from where *)
(* the last one stopped, so that after a part it may also take bytes behind the packet. *)
Write(n) ==
  LET length == Len(job.bytes)
      behind == [i \in 1..length |-> 0]
      total == job.sent + n
  IN /\ pc = "send"
     /\ out' = out \o SubSeq(job.bytes \o behind, job.sent + 1, total)
     /\ IF total < length
        THEN job' = [job EXCEPT !.sent = total] /\ UNCHANGED <<pc, done, failed, got, queue>>
        ELSE IF total = length THEN Succeeds ELSE Fails
     /\ UNCHANGED <<whole, sent, wire, rx, readbuf, rem, online, reports>>

AllTaken == Write(Len(job.bytes)) /\ UNCHANGED upsets
(* One byte of it, or all that is asked for but one byte. *)
PartTaken == (\E n \in {1, Len(job.bytes) - 1} : Write(n)) /\ Upset

(* The stack takes nothing, or the timer of sendPacket has run out. *)
NoneTaken ==
  /\ pc = "send"
  /\ Fails
  /\ Upset
  /\ UNCHANGED <<whole, sent, wire, rx, readbuf, rem, online, out, reports>>

(* MQTT_publish, or off line the copy into pubMsg, whose message to the task has no case.  *)
(* M.retained is not initialised. *)
publish_message(topic, payload, for) ==
  \E retained \in {0, 1} :
    LET bytes == MQTTSerialize_publish(BufSize,
          [type |-> "PUBLISH", dup |-> 0, qos |-> 1, retained |-> retained,
           id |-> IdOfReports, topic |-> topic, payload |-> payload])
    IN CASE online /\ bytes # TooShort -> StartSend(bytes, for) /\ UNCHANGED queue
         [] online /\ bytes = TooShort ->
              pc' = After(for) /\ queue' = Append(queue, "CLOSE") /\ UNCHANGED job
         [] OTHER ->
              /\ pc' = IF Len(payload) > BufSize THEN "past pubMsg" ELSE After(for)
              /\ UNCHANGED <<job, queue>>

yblock_report(for) ==
  \E n \in ReportLengths : publish_message(Topic, [i \in 1..n |-> 120], for)

-------------------------------------------------------------------------------
(* MTK_cycle: one action for each kind of packet. *)

Dispatch(types) ==
  /\ pc = "dispatch"
  /\ PacketType \in types

(* The return code is not looked at. *)
Connack ==
  /\ Dispatch({"CONNACK"})
  /\ online' = TRUE
  /\ queue' = IF online THEN queue ELSE Append(queue, "SET_ALIAS")
  /\ got' = Append(got, Taken)
  /\ Again
  /\ UNCHANGED <<whole, sent, wire, rx, readbuf, rem, reports>>
  /\ UNCHANGED writeVars

(* Packets that start or stop something outside this module, or nothing. *)
Noted ==
  /\ Dispatch({"SUBACK", "PINGRESP", "PUBLISH2"})
  /\ got' = Append(got, Taken)
  /\ Again
  /\ UNCHANGED <<whole, sent, wire, rx, queue, readbuf, rem, online, reports>>
  /\ UNCHANGED writeVars

(* MQTTkeepalive_start: a PINGREQ, whatever the lock waits for. *)
mqtt_keepalive(for) == StartSend(MQTTSerialize_zero(BufSize, "PINGREQ"), for)

(* The lock pings for each acknowledgement, inside the loop. *)
Puback ==
  /\ Dispatch({"PUBACK", "PUBCOMP"})
  /\ got' = Append(got, Taken)
  /\ mqtt_keepalive("keepalive")
  /\ UNCHANGED <<whole, sent, wire, rx, queue, readbuf, rem, online, reports>>
  /\ UNCHANGED <<out, done, failed, upsets>>

(* The identifier an answer carries: if the packet has none, what was in the local. *)
Answering(d) == IF d.read THEN {d.id} ELSE StrayIds

(* Mutant: the PUBREL is not sent. *)
Pubrec_Ignored ==
  /\ Dispatch({"PUBREC"})
  /\ MQTTDeserialize_ack(readbuf).rc = 1
  /\ got' = Append(got, Taken)
  /\ Again
  /\ UNCHANGED <<whole, sent, wire, rx, queue, readbuf, rem, online, reports>>
  /\ UNCHANGED writeVars

Pubrec ==
  /\ Dispatch({"PUBREC"})
  /\ MQTTDeserialize_ack(readbuf).rc = 1
  /\ \E id \in Answering(MQTTDeserialize_ack(readbuf)) :
       StartSend(MQTTSerialize_ack(BufSize, "PUBREL", 0, id), "PUBREC")
  /\ UNCHANGED <<whole, sent, wire, rx, queue, readbuf, rem, online, got, reports>>
  /\ UNCHANGED <<out, done, failed, upsets>>

(* A PUBLISH is answered before it is handed over.  QoS 3, which no broker sends and a cut *)
(* may show, has no answer: if an earlier answer left its length, buf is sent as it is. *)
Publish ==
  /\ Dispatch({"PUBLISH"})
  /\ MQTTDeserialize_publish(readbuf).rc = 1
  /\ CASE QosBits(readbuf[1]) = 0 -> pc' = "arrived" /\ UNCHANGED job
       [] QosBits(readbuf[1]) = 3 -> pc' = "stray" /\ UNCHANGED job
       [] OTHER ->
            \E id \in Answering(MQTTDeserialize_publish(readbuf)) :
              StartSend(MQTTSerialize_ack(BufSize,
                IF QosBits(readbuf[1]) = 1 THEN "PUBACK" ELSE "PUBREC", 0, id), "PUBLISH")
  /\ UNCHANGED <<whole, sent, wire, rx, queue, readbuf, rem, online, got, reports>>
  /\ UNCHANGED <<out, done, failed, upsets>>

(* No case for the type, or a result that is not 1, as a packet too short has whose length *)
(* takes two digits or more; or QoS 3 without a length left over: on to the next packet. *)
Ignored ==
  /\ pc = "dispatch"
  /\ \/ PacketType \in {"none", "CONNECT", "PUBREL", "SUBSCRIBE", "UNSUBSCRIBE", "UNSUBACK",
                        "PINGREQ", "DISCONNECT"}
     \/ PacketType = "PUBREC" /\ MQTTDeserialize_ack(readbuf).rc # 1
     \/ /\ PacketType = "PUBLISH"
        /\ MQTTDeserialize_publish(readbuf).rc # 1 \/ QosBits(readbuf[1]) = 3
  /\ Again
  /\ UNCHANGED <<whole, sent, wire, rx, queue, readbuf, rem, online, got, reports>>
  /\ UNCHANGED writeVars

(* A byte is written behind the payload, wherever that is if the packet is too short to have *)
(* one; the other commands do not use the connection. *)
messageArrived ==
  /\ pc = "arrived"
  /\ \E d \in {MQTTDeserialize_publish(readbuf)} :
       LET end == d.payload + d.payloadlen
       IN IF ~d.read
          THEN pc' = "stray" /\ UNCHANGED <<readbuf, got, queue, job>>
          ELSE IF end > BufSize
          THEN pc' = "past readbuf" /\ UNCHANGED <<readbuf, got, queue, job>>
          ELSE /\ readbuf' = [readbuf EXCEPT ![end] = 0]
               /\ got' = Append(got, Handed(d))
               /\ IF Payload(d) = ReportCmd THEN yblock_report("report")
                  ELSE Again /\ UNCHANGED <<queue, job>>
  /\ UNCHANGED <<whole, sent, wire, rx, rem, online, out, done, failed, reports, upsets>>

-------------------------------------------------------------------------------
(* The task's other messages. *)

TakeMessage(m) ==
  /\ pc = "idle"
  /\ queue # <<>> /\ Head(queue) = m

(* MSG_ID_MQTT_SET_ALIAS: the device id is published under ",yali". *)
SetAlias ==
  /\ TakeMessage("SET_ALIAS")
  /\ \E retained \in {0, 1} :
       StartSend(MQTTSerialize_publish(BufSize,
         [type |-> "PUBLISH", dup |-> 0, qos |-> 1, retained |-> retained, id |-> IdOfReports,
          topic |-> AliasTopic, payload |-> Topic]), "own")
  /\ queue' = Tail(queue)
  /\ UNCHANGED <<whole, sent, wire, rx, readbuf, rem, online, got, reports>>
  /\ UNCHANGED <<out, done, failed, upsets>>

(* The lock reports at the end of a movement, in the handler of a step message. *)
LockReports ==
  /\ pc = "idle"
  /\ reports < MaxReports
  /\ reports' = reports + 1
  /\ yblock_report("own")
  /\ UNCHANGED <<whole, sent, wire, rx, readbuf, rem, online, got>>
  /\ UNCHANGED <<out, done, failed, upsets>>

(* MSG_ID_MQTT_KEEPALIVE, which the timer of the last ping posts: one on this connection or,  *)
(* when it comes late, on the one before. *)
Keepalive ==
  /\ pc = "idle"
  /\ reports < MaxReports
  /\ reports' = reports + 1
  /\ mqtt_keepalive("own")
  /\ UNCHANGED <<whole, sent, wire, rx, queue, readbuf, rem, online, got>>
  /\ UNCHANGED <<out, done, failed, upsets>>

(* MSG_ID_MQTT_CLOSE: the session goes on with another connection. *)
Close ==
  /\ TakeMessage("CLOSE")
  /\ pc' = "closed"
  /\ queue' = Tail(queue)
  /\ UNCHANGED <<whole, sent, wire, rx, readbuf, rem, online, got, reports>>
  /\ UNCHANGED writeVars

Task ==
  \/ SocketReadable \/ ReadHeader \/ decodePacket \/ ReadBody
  \/ Connack \/ Noted \/ Puback \/ Pubrec \/ Publish \/ Ignored \/ messageArrived
  \/ AllTaken \/ SetAlias \/ Close

Next ==
  \/ Task \/ PartTaken \/ NoneTaken \/ LockReports \/ Keepalive
  \/ BrokerSends \/ WholePacketsArrive \/ PartArrives

Spec == Init /\ [][Next]_vars

(* The task is scheduled and what the broker has sent arrives. *)
FairSpec == Spec /\ WF_vars(Task) /\ WF_vars(WholePacketsArrive)

-------------------------------------------------------------------------------
JobOK ==
  /\ job \in Jobs /\ job.sent <= Len(job.bytes)
  /\ IF pc = "send" THEN job.bytes # <<>> /\ job.for # "none" ELSE job = NoJob

(* Every variable keeps its range, and something is being sent exactly while the task is at it. *)
TypeOK ==
  /\ whole \in BOOLEAN
  /\ sent \in Seq(BrokerPackets) /\ Len(sent) <= (IF whole THEN MaxPackets ELSE MaxCutPackets)
  /\ wire \in Seq(Seq(Byte)) /\ rx \in Seq(Byte)
  /\ queue \in Seq(Messages)
  /\ pc \in {"idle", "header", "length", "body", "dispatch", "arrived", "send", "closed",
             "past readbuf", "past pubMsg", "stray"}
  /\ readbuf \in [1..BufSize -> Byte]
  /\ rem.value \in Nat /\ rem.digits \in 0..4
  /\ online \in BOOLEAN /\ failed \in BOOLEAN
  /\ JobOK
  /\ out \in Seq(Byte) /\ done \in Seq(Seq(Byte))
  /\ reports \in 0..MaxReports /\ upsets \in 0..MaxUpsets

(* Packets are taken in order, each once and as it was sent, however segments, reads and     *)
(* notifications of MTK_cycle meet, as long as no packet is cut: the lock's end of the        *)
(* connection is PacketPipe's. *)
Answers(p) ==
  p.type \in {"PUBREC", "short_PUBREC"} \/ (p.type \in {"PUBLISH", "short_PUBLISH"} /\ p.qos > 0)
Pipe == INSTANCE PacketPipe WITH Packets <- BrokerPackets, Answered <- Answers,
          sent <- IF whole THEN sent ELSE <<>>, got <- IF whole THEN got ELSE <<>>
ImplementsPacketPipe == Pipe!Spec

(* The same as an invariant, for segments that need not end with a packet: readPacket's *)
(* comment says it reads the rest of the packet (MQTTClient.c 119). *)
TakenAsSent ==
  /\ Len(got) <= Len(sent)
  /\ \A i \in 1..Len(got) : got[i] \in {sent[i], PutAside}

(* While the task is elsewhere nothing it has been notified of lies unread: the loop ends on *)
(* an empty socket only, and what comes later is notified again. *)
NothingForgotten == pc = "idle" /\ rx # <<>> => \E i \in 1..Len(queue) : queue[i] = "READ"

(* If no packet is cut, readbuf holds every packet that is shorter than it; one that fills it *)
(* leaves no room for the byte messageArrived writes behind the payload.  A report of any     *)
(* length fits what it is put in while on line. *)
BuffersHold ==
  /\ whole /\ pc = "past readbuf" => /\ Len(got) < Len(sent)
                            /\ Len(OnWire(sent[Len(got) + 1])) >= BufSize
  /\ pc = "past pubMsg" => ~online

(* What the stack has taken is one packet after the other, as long as sendPacket has not *)
(* returned FAILURE, although each call offers bytes behind the packet. *)
OutWhole == ~failed => out = Concat[done] \o SubSeq(job.bytes, 1, job.sent)

(* Each packet that asks for an answer has got one, of its kind, in the order of the packets, *)
(* and with its identifier if it is long enough to have one, although pings and reports use   *)
(* the same buffer; none is answered twice, and none is acted on before.  Nothing is said     *)
(* once the lock has written where it should not. *)
AnswerType(p) ==
  IF p.type \in {"PUBREC", "short_PUBREC"} THEN "PUBREL"
  ELSE IF p.qos = 1 THEN "PUBACK" ELSE "PUBREC"
Settles(b, p) ==
  /\ IsType(b, AnswerType(p))
  /\ p.type \in {"PUBREC", "PUBLISH"} => MQTTDeserialize_ack(b).id = p.id
OfItsOwn(b) == IsType(b, "PUBLISH") \/ IsType(b, "PINGREQ")
Asked == {i \in 1..Len(got) : Answers(got[i])}
Given == {i \in 1..Len(done) : ~OfItsOwn(done[i])}
Nth(S, i) == Cardinality({j \in S : j <= i})
AnswersMatch ==
  pc \notin {"past readbuf", "stray"} =>
    /\ Cardinality(Given)
         = Cardinality(Asked) + (IF pc = "arrived" /\ QosBits(readbuf[1]) > 0 THEN 1 ELSE 0)
    /\ \A i \in Asked, j \in Given : Nth(Asked, i) = Nth(Given, j) => Settles(done[j], got[i])

(* Every packet the broker has sent is taken in the end if none is cut, unless the lock closes the *)
(* connection or has written behind a buffer. *)
EachTaken == \A n \in 1..MaxPackets : whole /\ Len(sent) >= n ~> (Len(got) >= n \/ ~Up)

===============================================================================
