-------------------------- MODULE PacketStreamProofs --------------------------
(***************************************************************************)
(* Proofs about one connection, for every set of packets, every size of    *)
(* the buffers and every way the stream is cut.                            *)
(***************************************************************************)
EXTENDS PacketStream, PacketCodecProofs, FiniteSetTheorems

LEMMA Sizes == BufSize \in Nat /\ BufSize >= 10
BY StreamAssumption

-------------------------------------------------------------------------------
(* What is in a buffer. *)

LEMMA Readbuf ==
  ASSUME NEW b \in [1..BufSize -> Byte]
  PROVE  b \in Seq(Byte) /\ Len(b) = BufSize
BY Sizes

LEMMA OverwriteTyped ==
  ASSUME NEW b \in [1..BufSize -> Byte], NEW at \in Nat, NEW s \in Seq(Byte)
  PROVE  Overwrite(b, at, s) \in [1..BufSize -> Byte]
<1>0. BufSize \in Nat
  BY Sizes
<1>1. Len(b) = BufSize
  BY Readbuf
<1>2. ASSUME NEW i \in 1..BufSize
      PROVE  (IF i - at \in 0..Len(s) - 1 THEN s[i - at + 1] ELSE b[i]) \in Byte
  BY <1>0
<1> QED
  BY <1>1, <1>2 DEF Overwrite

LEMMA ByteAtTyped ==
  ASSUME NEW b \in [1..BufSize -> Byte], NEW at \in Nat \ {0}
  PROVE  ByteAt(b, at) \in Byte
<1>1. 0 \in Byte
  BY DEF Byte
<1> QED
  BY <1>1, Readbuf DEF ByteAt

LEMMA ReadIntTyped ==
  ASSUME NEW b \in [1..BufSize -> Byte], NEW at \in Nat \ {0}
  PROVE  readInt(b, at) \in Word
<1>1. ByteAt(b, at) \in Byte /\ ByteAt(b, at + 1) \in Byte
  BY ByteAtTyped
<1>2. \A x, y \in Byte : 256 * x + y \in Word
  BY SMT DEF Byte, Word
<1> QED
  BY <1>1, <1>2, Zenon DEF readInt

LEMMA ReadIdTyped ==
  ASSUME NEW b \in [1..BufSize -> Byte], NEW at \in Nat \ {0}
  PROVE  readInt64(b, at) \in Id
<1>1. \A i \in 1..4 : at + 2 * (i - 1) \in Nat \ {0}
  OBVIOUS
<1>2. \A i \in 1..4 : readInt(b, at + 2 * (i - 1)) \in Word
  BY <1>1, ReadIntTyped, Zenon
<1> QED
  BY <1>2 DEF readInt64, Id

(* Wherever the length is thought to end, the rest begins behind it. *)
LEMMA BodyStartTyped ==
  ASSUME NEW b
  PROVE  BodyStart(b) \in Nat \ {0}
<1> DEFINE ends == {i \in 1..4 : b[2 + i - 1] < 128}
<1>1. MQTTPacket_decodeBuf(b, 2).len = IF ends = {} THEN 5 ELSE Min(ends)
  BY DEF MQTTPacket_decodeBuf
<1>2. ends # {} => Min(ends) \in 1..4
  <2> SUFFICES ASSUME ends # {} PROVE Min(ends) \in 1..4
    OBVIOUS
  <2>1. ends \in SUBSET Nat /\ \A i \in ends : i \in 1..4
    OBVIOUS
  <2> HIDE DEF ends
  <2>2. \E x \in ends : \A y \in ends : x <= y
    BY <2>1, Least
  <2>3. Min(ends) \in ends
    BY <2>2 DEF Min
  <2> QED
    BY <2>1, <2>3
<1> HIDE DEF ends
<1>3. MQTTPacket_decodeBuf(b, 2).len \in 1..5
  BY <1>1, <1>2
<1> QED
  BY <1>3 DEF BodyStart

(* The identifiers that are answered are ones, whatever the packet looks like. *)
LEMMA AnsweredIds ==
  ASSUME NEW b \in [1..BufSize -> Byte]
  PROVE  /\ Answering(MQTTDeserialize_ack(b)) \subseteq Id
         /\ Answering(MQTTDeserialize_publish(b)) \subseteq Id
<1> DEFINE at == BodyStart(b)
           end == BodyEnd(b)
           name == readMQTTLenString(b, at, end)
           qos == QosBits(b[1])
<1>0. at \in Nat \ {0}
  BY BodyStartTyped
<1>1. readInt64(b, at) \in Id
  BY <1>0, ReadIdTyped
<1>2. MQTTDeserialize_ack(b).read => MQTTDeserialize_ack(b).id = readInt64(b, at)
  <2> HIDE DEF at
  <2>1. MQTTDeserialize_ack(b) =
          IF BodyEnd(b) - at < 2 THEN TooEarly(b)
          ELSE [rc |-> 1, read |-> TRUE, type |-> TypeBits(b[1]), dup |-> DupBit(b[1]),
                id |-> readInt64(b, at)]
    BY Zenon DEF MQTTDeserialize_ack, at
  <2> QED
    BY <2>1 DEF TooEarly
<1>3. MQTTDeserialize_publish(b) =
        IF ~IsType(b, "PUBLISH") THEN WrongType
        ELSE IF ~name.ok THEN TooEarly(b)
        ELSE [rc |-> 1, read |-> TRUE,
              dup |-> DupBit(b[1]), qos |-> qos, retained |-> RetainBit(b[1]),
              id |-> IF qos > 0 THEN readInt64(b, name.next) ELSE NoId,
              topicName |-> name.data, payload |-> name.next + IdLength(qos),
              payloadlen |-> end - (name.next + IdLength(qos))]
  BY Zenon DEF MQTTDeserialize_publish
<1>4. name.ok => name.next \in Nat \ {0}
  <2>1. readInt(b, at) \in Nat
    <3>1. readInt(b, at) \in Word
      BY <1>0, ReadIntTyped
    <3> QED
      BY <3>1 DEF Word
  <2>2. name.ok => name.next = at + 2 + readInt(b, at)
    BY DEF readMQTTLenString
  <2> HIDE DEF name, at
  <2> QED
    BY <1>0, <2>1, <2>2
<1>5. NoId \in Id
  BY DEF NoId, Id, Word
<1>6. MQTTDeserialize_publish(b).read => MQTTDeserialize_publish(b).id \in Id
  <2> HIDE DEF name, qos, end
  <2> SUFFICES ASSUME MQTTDeserialize_publish(b).read PROVE MQTTDeserialize_publish(b).id \in Id
    OBVIOUS
  <2>1. name.ok /\ MQTTDeserialize_publish(b).id = IF qos > 0 THEN readInt64(b, name.next) ELSE NoId
    BY <1>3 DEF WrongType, TooEarly
  <2>2. readInt64(b, name.next) \in Id
    BY <1>4, <2>1, ReadIdTyped
  <2> QED
    BY <1>5, <2>1, <2>2
<1> QED
  BY <1>1, <1>2, <1>6, StreamAssumption, Zenon DEF Answering

-------------------------------------------------------------------------------
(* What is sent. *)

LEMMA TypeNames ==
  {"CONNACK", "PINGREQ", "PINGRESP", "PUBACK", "PUBREC", "PUBCOMP", "PUBREL", "PUBLISH", "PUBLISH2"}
    \subseteq DOMAIN msgTypes
BY DEF msgTypes

LEMMA AckSent ==
  ASSUME NEW type \in DOMAIN msgTypes, NEW id \in Id
  PROVE  MQTTSerialize_ack(BufSize, type, 0, id) \in Seq(Byte) \ {<<>>}
<1>1. BufSize \in Nat /\ BufSize >= 4
  BY Sizes
<1>2. PICK h \in Byte : Frames(MQTTSerialize_ack(BufSize, type, 0, id), h, 8, writeInt64(id))
  BY <1>1, AckFrames, Zenon
<1>3. /\ MQTTSerialize_ack(BufSize, type, 0, id) \in Seq(Byte)
      /\ Len(MQTTSerialize_ack(BufSize, type, 0, id)) = 1 + Len(MQTTPacket_encode[8]) + 8
      /\ Len(MQTTPacket_encode[8]) \in 1..4
  BY <1>2, FrameBytes
<1>4. Len(MQTTSerialize_ack(BufSize, type, 0, id)) # 0
  BY <1>3
<1> QED
  BY <1>3, <1>4

(* A ping fits the buffer. *)
LEMMA PingSent ==
  LET b == MQTTSerialize_zero(BufSize, "PINGREQ")
  IN b \in Seq(Byte) \ {<<>>} /\ IsType(b, "PINGREQ")
<1> DEFINE b == MQTTSerialize_zero(BufSize, "PINGREQ")
<1>1. PICK h \in Byte : /\ MQTTHeader("PINGREQ", 0, 0, 0) = <<h>>
                        /\ HeaderBits(h, "PINGREQ", 0, 0, 0)
  BY TypeNames, HeaderByte
<1>2. b = <<h>> \o MQTTPacket_encode[0]
  <2>1. ~(BufSize < 2)
    BY Sizes
  <2> QED
    BY <1>1, <2>1, Zenon DEF MQTTSerialize_zero
<1>3. MQTTPacket_encode[0] \in Seq(Byte)
  <2>1. 0 \in Nat
    OBVIOUS
  <2> QED
    BY <2>1, EncodeUnfolds, Zenon
<1> HIDE DEF b
<1>4. b \in Seq(Byte) /\ Len(b) # 0 /\ b[1] = h
  BY <1>2, <1>3, Joined
<1>5. b # <<>>
  BY <1>4
<1>6. IsType(b, "PINGREQ")
  BY <1>1, <1>4, Zenon DEF IsType, HeaderBits
<1> QED
  BY <1>4, <1>5, <1>6 DEF b

OwnPublish(retained, topic, payload) ==
  [type |-> "PUBLISH", dup |-> 0, qos |-> 1, retained |-> retained, id |-> IdOfReports,
   topic |-> topic, payload |-> payload]

LEMMA PublishSent ==
  ASSUME NEW retained \in {0, 1}, NEW topic \in Seq(Byte), NEW payload \in Seq(Byte)
  PROVE  /\ MQTTSerialize_publish(BufSize, OwnPublish(retained, topic, payload)) \in Seq(Byte)
         /\ Fits(MQTTSerialize_publishLength(1, topic, Len(payload)), BufSize) =>
              MQTTSerialize_publish(BufSize, OwnPublish(retained, topic, payload)) # <<>>
<1> DEFINE p == OwnPublish(retained, topic, payload)
           b == MQTTSerialize_publish(BufSize, p)
<1>1. /\ p.dup = 0 /\ p.qos = 1 /\ p.retained = retained /\ p.id = IdOfReports
      /\ p.topic = topic /\ p.payload = payload
  BY DEF OwnPublish
<1>2. IdOfReports \in Id
  BY DEF IdOfReports, Id, Word
<1> HIDE DEF p
<1>3. PublishFields(p)
  BY <1>1, <1>2 DEF PublishFields
<1>4. PublishLength(p) = MQTTSerialize_publishLength(1, topic, Len(payload))
  BY <1>1, Zenon DEF PublishLength
<1>5. CASE ~Fits(PublishLength(p), BufSize)
  <2>1. b = <<>>
    BY <1>5, Zenon DEF MQTTSerialize_publish, PublishLength, TooShort
  <2> QED
    BY <1>4, <1>5, <2>1 DEF p
<1>6. CASE Fits(PublishLength(p), BufSize)
  <2>1. PICK h \in Byte : b = <<h>> \o MQTTPacket_encode[PublishLength(p)] \o PublishBody(p)
    BY <1>3, <1>6, PublishFrames, Zenon
  <2>2. PublishLength(p) \in Nat /\ PublishBody(p) \in Seq(Byte)
    BY <1>3, PublishBodyBytes
  <2>3. MQTTPacket_encode[PublishLength(p)] \in Seq(Byte)
    BY <2>2, EncodeUnfolds, Zenon
  <2>4. /\ <<h>> \o MQTTPacket_encode[PublishLength(p)] \in Seq(Byte)
        /\ Len(<<h>> \o MQTTPacket_encode[PublishLength(p)])
             = 1 + Len(MQTTPacket_encode[PublishLength(p)])
    BY <2>3, Joined
  <2>5. b \in Seq(Byte) /\ Len(b) # 0
    <3>1. /\ b \in Seq(Byte)
          /\ Len(b) = Len(<<h>> \o MQTTPacket_encode[PublishLength(p)]) + Len(PublishBody(p))
      BY <2>1, <2>2, <2>4, Joined, Zenon
    <3> HIDE DEF b
    <3> QED
      BY <2>2, <2>3, <2>4, <3>1
  <2> QED
    BY <2>5 DEF p
<1> QED
  BY <1>5, <1>6, Zenon

-------------------------------------------------------------------------------
(* What the broker writes. *)

(* The packet p has the body body. *)
Written(p, body) ==
  \E h \in Byte : /\ Frames(OnWire(p), h, Len(body), body)
                  /\ TypeBits(h) = msgTypes[p.type]

LEMMA ConnackWritten ==
  ASSUME NEW p \in Connacks
  PROVE  Written(p, <<0, p.rc>>)
<1>1. p.type = "CONNACK" /\ p.rc \in Byte
  BY DEF Connacks
<1>2. PICK h \in Byte : MQTTHeader("CONNACK", 0, 0, 0) = <<h>> /\ HeaderBits(h, "CONNACK", 0, 0, 0)
  BY TypeNames, HeaderByte
<1>3. OnWire(p) = <<h>> \o MQTTPacket_encode[2] \o <<0, p.rc>>
  BY <1>1, <1>2 DEF OnWire
<1>4. <<0, p.rc>> \in Seq(Byte) /\ Len(<<0, p.rc>>) = 2 /\ 2 \in Lengths
  BY <1>1, SMT DEF Byte, Lengths
<1> DEFINE body == <<0, p.rc>>
<1> HIDE DEF body
<1>5. Frames(OnWire(p), h, Len(body), body)
  BY <1>3, <1>4, Zenon DEF Frames, body
<1> QED
  BY <1>1, <1>2, <1>5, Zenon DEF Written, HeaderBits, body

LEMMA PingrespWritten ==
  ASSUME NEW p \in Pingresps
  PROVE  Written(p, <<>>)
<1>1. p.type = "PINGRESP"
  BY DEF Pingresps
<1>2. PICK h \in Byte : /\ MQTTHeader("PINGRESP", 0, 0, 0) = <<h>>
                        /\ HeaderBits(h, "PINGRESP", 0, 0, 0)
  BY TypeNames, HeaderByte
<1>3. OnWire(p) = <<h>> \o MQTTPacket_encode[0]
  <2>1. OnWire(p) = MQTTSerialize_zero(2, "PINGRESP")
    BY <1>1 DEF OnWire
  <2>2. ~(2 < 2)
    OBVIOUS
  <2> QED
    BY <1>2, <2>1, <2>2, Zenon DEF MQTTSerialize_zero
<1>4. MQTTPacket_encode[0] \in Seq(Byte)
  <2>1. 0 \in Nat
    OBVIOUS
  <2> QED
    BY <2>1, EncodeUnfolds, Zenon
<1>5. OnWire(p) = <<h>> \o MQTTPacket_encode[0] \o <<>>
  <2>1. OnWire(p) \in Seq(Byte)
    BY <1>3, <1>4, Joined
  <2>2. OnWire(p) = OnWire(p) \o <<>>
    BY <2>1, ConcatEmptySeq
  <2> QED
    BY <1>3, <2>2, Zenon
<1>6. <<>> \in Seq(Byte) /\ Len(<<>>) = 0 /\ 0 \in Lengths
  BY SMT DEF Lengths
<1>7. Frames(OnWire(p), h, Len(<<>>), <<>>)
  BY <1>5, <1>6, Zenon DEF Frames
<1> QED
  BY <1>1, <1>2, <1>7, Zenon DEF Written, HeaderBits

LEMMA AckWritten ==
  ASSUME NEW p \in Acks
  PROVE  Written(p, writeInt64(p.id))
<1>1. p.type \in {"PUBACK", "PUBREC", "PUBCOMP"} /\ p.id \in Id
  BY DEF Acks
<1>2. OnWire(p) = MQTTSerialize_ack(10, p.type, 0, p.id)
  BY <1>1 DEF OnWire
<1>3. \E h \in Byte : /\ Frames(OnWire(p), h, 8, writeInt64(p.id))
                      /\ TypeBits(h) = msgTypes[p.type]
  <2>1. p.type \in DOMAIN msgTypes /\ 10 \in Nat /\ 10 >= 4
    BY <1>1, TypeNames
  <2> QED
    BY <1>1, <1>2, <2>1, AckFrames
<1>4. Len(writeInt64(p.id)) = 8
  BY <1>1, IdField
<1> QED
  BY <1>3, <1>4, Zenon DEF Written

LEMMA PublishWritten ==
  ASSUME NEW p \in Publishes
  PROVE  /\ Written(p, PublishBody(p)) /\ PublishFields(p)
         /\ Len(PublishBody(p)) = PublishLength(p)
         /\ \E h \in Byte : /\ Frames(OnWire(p), h, PublishLength(p), PublishBody(p))
                            /\ HeaderBits(h, "PUBLISH", p.dup, p.qos, p.retained)
<1>1. p.type = "PUBLISH" /\ PublishFields(p) /\ PublishLength(p) <= LongestRest
  BY DEF Publishes, PublishFields, PublishLength
<1>2. PublishBody(p) \in Seq(Byte) /\ Len(PublishBody(p)) = PublishLength(p)
  BY <1>1, PublishBodyBytes, Zenon
<1>3. PublishLength(p) \in Nat
  BY <1>2
<1>4. PublishLength(p) \in Lengths /\ Fits(PublishLength(p), LongestPacket)
  BY <1>1, <1>3, SMT DEF LongestPacket, LongestRest, Lengths, Fits, MQTTPacket_len
<1>5. OnWire(p) = MQTTSerialize_publish(LongestPacket, p)
  BY <1>1 DEF OnWire
<1>6. PICK h \in Byte : /\ Frames(OnWire(p), h, PublishLength(p), PublishBody(p))
                        /\ HeaderBits(h, "PUBLISH", p.dup, p.qos, p.retained)
  BY <1>1, <1>4, <1>5, PublishFrames, Zenon
<1> QED
  BY <1>1, <1>2, <1>6, Zenon DEF Written, HeaderBits

CommandBody(p) == writeInt64(p.id) \o <<p.cmd, p.status>> \o writeInt(Len(p.payload)) \o p.payload

LEMMA CommandWritten ==
  ASSUME NEW p \in Commands
  PROVE  Written(p, CommandBody(p)) /\ Len(CommandBody(p)) = 12 + Len(p.payload)
<1>1. /\ p.type = "PUBLISH2" /\ p.id \in Id /\ p.cmd \in Byte /\ p.status \in Byte
      /\ p.payload \in Seq(Byte) /\ Len(p.payload) \in Word
  BY DEF Commands
<1>2. PICK h \in Byte : /\ MQTTHeader("PUBLISH2", 0, 0, 0) = <<h>>
                        /\ HeaderBits(h, "PUBLISH2", 0, 0, 0)
  BY TypeNames, HeaderByte
<1> DEFINE n == 12 + Len(p.payload)
           a == <<h>> \o MQTTPacket_encode[n]
           i == writeInt64(p.id)
           c == <<p.cmd, p.status>>
           l == writeInt(Len(p.payload))
<1>3. OnWire(p) = a \o i \o c \o l \o p.payload
  BY <1>1, <1>2 DEF OnWire
<1>4. n \in Lengths /\ n \in Nat
  <2>1. Len(p.payload) \in Nat
    BY <1>1
  <2> QED
    BY <1>1, <2>1, SMT DEF Word, Lengths
<1>5. a \in Seq(Byte)
  <2> HIDE DEF n
  <2>1. MQTTPacket_encode[n] \in Seq(Byte)
    BY <1>4, EncodeUnfolds, Zenon
  <2> QED
    BY <2>1, Joined
<1>6. i \in Seq(Byte) /\ Len(i) = 8
  BY <1>1, IdField
<1>7. c \in Seq(Byte) /\ Len(c) = 2
  BY <1>1
<1>8. l \in Seq(Byte) /\ Len(l) = 2
  BY <1>1, IntField
<1> HIDE DEF n, a, i, c, l
<1>9. i \o c \in Seq(Byte) /\ Len(i \o c) = 10
  <2>1. i \o c \in Seq(Byte) /\ Len(i \o c) = Len(i) + Len(c)
    BY <1>6, <1>7, Joined, Zenon
  <2> QED
    BY <1>6, <1>7, <2>1
<1>10. i \o c \o l \in Seq(Byte) /\ Len(i \o c \o l) = 12
  <2>1. i \o c \o l \in Seq(Byte) /\ Len(i \o c \o l) = Len(i \o c) + Len(l)
    BY <1>8, <1>9, Joined, Zenon
  <2> QED
    BY <1>8, <1>9, <2>1
<1>11. /\ i \o c \o l \o p.payload \in Seq(Byte)
       /\ Len(i \o c \o l \o p.payload) = Len(i \o c \o l) + Len(p.payload)
  BY <1>1, <1>10, Joined, Zenon
<1>12. Len(i \o c \o l \o p.payload) = n
  BY <1>10, <1>11, Zenon DEF n
<1>13. OnWire(p) = a \o (i \o c \o l \o p.payload)
  <2>1. a \o i \o c \o l = a \o (i \o c \o l)
    <3>1. (a \o i) \o c = a \o (i \o c)
      BY <1>5, <1>6, <1>7, Associative, Zenon
    <3>2. (a \o (i \o c)) \o l = a \o ((i \o c) \o l)
      BY <1>5, <1>8, <1>9, Associative, Zenon
    <3> QED
      BY <3>1, <3>2, Zenon
  <2>2. (a \o (i \o c \o l)) \o p.payload = a \o ((i \o c \o l) \o p.payload)
    BY <1>1, <1>5, <1>10, Associative, Zenon
  <2> QED
    BY <1>3, <2>1, <2>2, Zenon
<1>14. CommandBody(p) = i \o c \o l \o p.payload
  BY Zenon DEF CommandBody, i, c, l
<1>15. Frames(OnWire(p), h, n, CommandBody(p))
  BY <1>4, <1>11, <1>12, <1>13, <1>14, Zenon DEF Frames, a
<1> QED
  BY <1>1, <1>2, <1>12, <1>14, <1>15, Zenon DEF Written, HeaderBits, n

-------------------------------------------------------------------------------
(* Types. *)

LEMMA OnWireTyped ==
  ASSUME NEW p \in BrokerPackets
  PROVE  OnWire(p) \in Seq(Byte) /\ Len(OnWire(p)) > 0
<1>1. p \in Connacks \/ p \in Pingresps \/ p \in Acks \/ p \in Publishes \/ p \in Commands
  BY StreamAssumption DEF Packet
<1>2. PICK body : Written(p, body)
  BY <1>1, ConnackWritten, PingrespWritten, AckWritten, PublishWritten, CommandWritten, Zenon
<1>3. PICK h \in Byte : Frames(OnWire(p), h, Len(body), body)
  BY <1>2, Zenon DEF Written
<1>4. /\ OnWire(p) \in Seq(Byte) /\ Len(OnWire(p)) = 1 + Len(MQTTPacket_encode[Len(body)]) + Len(body)
      /\ Len(MQTTPacket_encode[Len(body)]) \in 1..4 /\ Len(body) \in Nat
  BY <1>3, FrameBytes
<1> QED
  BY <1>4

LEMMA Bytes == \A b \in Byte : b \in Nat /\ b % 128 \in Nat
BY SMT DEF Byte

LEMMA Queued ==
  ASSUME NEW S, NEW q \in Seq(S)
  PROVE  /\ \A m \in S : Append(q, m) \in Seq(S) /\ Len(Append(q, m)) = Len(q) + 1
         /\ q # <<>> => Head(q) \in S /\ Tail(q) \in Seq(S) /\ Len(q) \in Nat \ {0}
OBVIOUS

LEMMA PartOf ==
  ASSUME NEW S, NEW q \in Seq(S), NEW n \in 1..Len(q)
  PROVE  SubSeq(q, 1, n) \in Seq(S) /\ SubSeq(q, n + 1, Len(q)) \in Seq(S)
<1>1. (\A i \in 1..n : q[i] \in S) /\ (\A i \in n + 1..Len(q) : q[i] \in S)
  OBVIOUS
<1> QED
  BY <1>1, SubSeqProperties

LEMMA MessageTypes == {"READ", "SET_ALIAS", "CLOSE"} \subseteq Messages
BY DEF Messages

LEMMA StartSendTyped ==
  ASSUME NEW bytes \in Seq(Byte) \ {<<>>}, 
         NEW for \in {"own", "report", "keepalive", "PUBLISH", "PUBREC"}, StartSend(bytes, for)
  PROVE  JobOK' /\ pc' = "send"
BY DEF StartSend, JobOK, Jobs

LEMMA NoJobOK ==
  ASSUME job' = NoJob, pc' # "send"
  PROVE  JobOK'
<1>1. NoJob \in Jobs /\ NoJob.sent = 0 /\ NoJob.bytes = <<>>
  BY DEF NoJob, Jobs
<1>2. 0 <= Len(<<>>)
  OBVIOUS
<1> QED
  BY <1>1, <1>2 DEF JobOK

LEMMA PublishMessageTyped ==
  ASSUME NEW topic \in Seq(Byte), NEW payload \in Seq(Byte), NEW for \in {"own", "report"},
         TypeOK, pc # "send", publish_message(topic, payload, for)
  PROVE  /\ JobOK' /\ queue' \in Seq(Messages)
         /\ pc' \in {"send", "idle", "header", "past pubMsg"}
<1>1. PICK retained \in {0, 1} :
        LET bytes == MQTTSerialize_publish(BufSize, OwnPublish(retained, topic, payload))
        IN CASE online /\ bytes # TooShort -> StartSend(bytes, for) /\ UNCHANGED queue
             [] online /\ bytes = TooShort ->
                  pc' = After(for) /\ queue' = Append(queue, "CLOSE") /\ UNCHANGED job
             [] OTHER ->
                  /\ pc' = IF Len(payload) > BufSize THEN "past pubMsg" ELSE After(for)
                  /\ UNCHANGED <<job, queue>>
  BY DEF publish_message, OwnPublish
<1> DEFINE bytes == MQTTSerialize_publish(BufSize, OwnPublish(retained, topic, payload))
<1>2. bytes \in Seq(Byte)
  BY PublishSent
<1>3. online \in BOOLEAN /\ queue \in Seq(Messages) /\ job = NoJob /\ JobOK
  BY DEF TypeOK, JobOK
<1>4. After(for) \in {"idle", "header"}
  BY DEF After
<1> HIDE DEF bytes
<1>5. CASE online /\ bytes # TooShort
  <2>1. StartSend(bytes, for) /\ UNCHANGED queue
    BY <1>1, <1>5 DEF bytes
  <2> QED
    BY <1>2, <1>3, <1>5, <2>1, StartSendTyped DEF TooShort
<1>6. CASE online /\ bytes = TooShort
  <2>1. pc' = After(for) /\ queue' = Append(queue, "CLOSE") /\ job' = NoJob
    BY <1>1, <1>3, <1>6 DEF bytes
  <2>2. pc' \in {"idle", "header"} /\ JobOK'
    BY <1>4, <2>1, NoJobOK
  <2>3. queue' \in Seq(Messages)
    BY <1>3, <2>1, Queued, MessageTypes
  <2> QED
    BY <2>2, <2>3
<1>7. CASE ~online
  <2>1. /\ pc' = IF Len(payload) > BufSize THEN "past pubMsg" ELSE After(for)
        /\ job' = NoJob /\ queue' = queue
    BY <1>1, <1>3, <1>7 DEF bytes
  <2>2. pc' \in {"idle", "header", "past pubMsg"} /\ JobOK'
    BY <1>4, <2>1, NoJobOK
  <2> QED
    BY <1>3, <2>1, <2>2
<1> QED
  BY <1>3, <1>5, <1>6, <1>7

LEMMA Piece ==
  ASSUME NEW s \in Seq(Byte), NEW m \in Nat \ {0}, NEW n \in Nat, n <= Len(s)
  PROVE  SubSeq(s, m, n) \in Seq(Byte)
<1>1. \A i \in m..n : s[i] \in Byte
  OBVIOUS
<1> QED
  BY <1>1, SubSeqProperties

(* A PUBLISH is answered with an identifier, or handed over, or followed by a stray write. *)
LEMMA PublishForm ==
  ASSUME TypeOK, Publish
  PROVE  /\ pc = "dispatch" /\ PacketType = "PUBLISH" /\ MQTTDeserialize_publish(readbuf).rc = 1
         /\ \/ pc' = "arrived" /\ QosBits(readbuf[1]) = 0 /\ job' = job
            \/ pc' = "stray" /\ QosBits(readbuf[1]) = 3 /\ job' = job
            \/ /\ QosBits(readbuf[1]) \notin {0, 3}
               /\ \E id \in Answering(MQTTDeserialize_publish(readbuf)) :
                    /\ id \in Id
                    /\ StartSend(MQTTSerialize_ack(BufSize,
                         IF QosBits(readbuf[1]) = 1 THEN "PUBACK" ELSE "PUBREC", 0, id), "PUBLISH")
<1> DEFINE d == MQTTDeserialize_publish(readbuf)
           Starts(id) == StartSend(MQTTSerialize_ack(BufSize,
                           IF QosBits(readbuf[1]) = 1 THEN "PUBACK" ELSE "PUBREC", 0, id), "PUBLISH")
<1>1. Answering(d) \subseteq Id
  BY AnsweredIds DEF TypeOK
<1>2. /\ pc = "dispatch" /\ PacketType = "PUBLISH" /\ d.rc = 1
      /\ CASE QosBits(readbuf[1]) = 0 -> pc' = "arrived" /\ UNCHANGED job
           [] QosBits(readbuf[1]) = 3 -> pc' = "stray" /\ UNCHANGED job
           [] OTHER -> \E id \in Answering(d) : Starts(id)
  BY DEF Publish, Dispatch
<1> HIDE DEF d, Starts
<1>3. \/ pc' = "arrived" /\ QosBits(readbuf[1]) = 0 /\ job' = job
      \/ pc' = "stray" /\ QosBits(readbuf[1]) = 3 /\ job' = job
      \/ /\ QosBits(readbuf[1]) \notin {0, 3}
         /\ \E id \in Answering(d) : id \in Id /\ Starts(id)
  BY <1>1, <1>2
<1> QED
  BY <1>2, <1>3 DEF d, Starts

LEMMA PubrecForm ==
  ASSUME TypeOK, Pubrec
  PROVE  /\ pc = "dispatch" /\ PacketType = "PUBREC"
         /\ \E id \in Answering(MQTTDeserialize_ack(readbuf)) :
              /\ id \in Id
              /\ StartSend(MQTTSerialize_ack(BufSize, "PUBREL", 0, id), "PUBREC")
<1>1. Answering(MQTTDeserialize_ack(readbuf)) \subseteq Id
  BY AnsweredIds DEF TypeOK
<1> QED
  BY <1>1 DEF Pubrec, Dispatch

(* What a write leaves behind. *)
WriteTypes ==
  /\ JobOK' /\ out' \in Seq(Byte) /\ done' \in Seq(Seq(Byte)) /\ failed' \in BOOLEAN
  /\ queue' \in Seq(Messages)
  /\ pc' \in {"send", "idle", "header", "arrived"}

LEMMA FailsTyped ==
  ASSUME TypeOK, Fails, out' \in Seq(Byte)
  PROVE  WriteTypes
<1>1. /\ failed' = TRUE /\ job' = NoJob /\ done' = done
      /\ pc' = IF job.for = "own" THEN "idle" ELSE "header"
      /\ queue' = queue \/ queue' = Append(queue, "CLOSE")
  BY DEF Fails
<1>2. /\ queue \in Seq(Messages) /\ out \in Seq(Byte)
      /\ done \in Seq(Seq(Byte))
  BY DEF TypeOK
<1>3. JobOK'
  BY <1>1, NoJobOK
<1>4. queue' \in Seq(Messages)
  BY <1>1, <1>2, Queued, MessageTypes
<1> QED
  BY <1>1, <1>2, <1>3, <1>4 DEF WriteTypes

LEMMA WriteTyped ==
  ASSUME NEW n \in Nat, TypeOK, Write(n), n <= Len(job.bytes)
  PROVE  WriteTypes
<1> DEFINE length == Len(job.bytes)
           behind == [i \in 1..length |-> 0]
           total == job.sent + n
           both == job.bytes \o behind
<1>1. /\ pc = "send" /\ job \in Jobs /\ job.bytes \in Seq(Byte) /\ job.sent \in Nat
      /\ job.sent <= length /\ job.bytes # <<>> /\ job.for # "none"
      /\ queue \in Seq(Messages) /\ out \in Seq(Byte)
      /\ done \in Seq(Seq(Byte)) /\ failed \in BOOLEAN
  BY DEF Write, TypeOK, JobOK, Jobs
<1>2. length \in Nat /\ total \in Nat /\ total <= length + length
  BY <1>1
<1>3. out' = out \o SubSeq(both, job.sent + 1, total)
  BY DEF Write
<1>4. behind \in Seq(Byte) /\ Len(behind) = length
  <2>1. 0 \in Byte
    BY DEF Byte
  <2> QED
    BY <1>2, <2>1
<1>5. out' \in Seq(Byte)
  <2>1. both \in Seq(Byte) /\ Len(both) = length + length
    BY <1>1, <1>4, Joined
  <2> HIDE DEF both, total, length
  <2>2. SubSeq(both, job.sent + 1, total) \in Seq(Byte)
    BY <1>1, <1>2, <2>1, Piece
  <2> QED
    BY <1>1, <1>3, <2>2, Joined
<1>6. CASE total < length
  <2>1. job' = [job EXCEPT !.sent = total] /\ UNCHANGED <<pc, done, failed, got, queue>>
    BY <1>6 DEF Write
  <2>2. job' \in Jobs /\ job'.sent = total /\ job'.bytes = job.bytes /\ job'.for = job.for
    BY <1>1, <1>2, <2>1 DEF Jobs
  <2> HIDE DEF total, length
  <2>3. JobOK'
    BY <1>1, <1>2, <1>6, <2>1, <2>2 DEF JobOK, length
  <2> QED
    BY <1>1, <1>5, <2>1, <2>3 DEF WriteTypes
<1>7. CASE total = length
  <2>1. Succeeds
    BY <1>2, <1>7 DEF Write
  <2>2. /\ done' = Append(done, job.bytes) /\ job' = NoJob /\ pc' = After(job.for)
        /\ failed' = failed /\ queue' = queue
    BY <2>1 DEF Succeeds
  <2>3. pc' \in {"idle", "header", "arrived"}
    BY <2>2 DEF After
  <2>4. JobOK'
    BY <2>2, <2>3, NoJobOK
  <2>5. done' \in Seq(Seq(Byte))
    BY <1>1, <2>2
  <2> QED
    BY <1>1, <1>5, <2>2, <2>3, <2>4, <2>5 DEF WriteTypes
<1>8. CASE total > length
  <2>1. Fails
    BY <1>2, <1>8 DEF Write
  <2> QED
    BY <1>5, <2>1, FailsTyped
<1> QED
  BY <1>2, <1>6, <1>7, <1>8

LEMMA Multipliers ==
  ASSUME NEW i \in 0..3
  PROVE  multiplier[i + 1] \in Nat
BY SMT DEF multiplier

LEMMA MinOfTwo ==
  ASSUME NEW m \in Nat, NEW n \in Nat
  PROVE  Min({m, n}) = IF m <= n THEN m ELSE n
BY DEF Min

LEMMA ReportTyped ==
  ASSUME NEW for \in {"own", "report"}, TypeOK, pc # "send", yblock_report(for)
  PROVE  /\ JobOK' /\ queue' \in Seq(Messages)
         /\ pc' \in {"send", "idle", "header", "past pubMsg"}
<1>1. PICK n \in ReportLengths : publish_message(Topic, [i \in 1..n |-> 120], for)
  BY DEF yblock_report
<1>2. Topic \in Seq(Byte) /\ n \in Nat
  BY <1>1, StreamAssumption
<1>3. [i \in 1..n |-> 120] \in Seq(Byte)
  <2>1. 120 \in Byte
    BY SMT DEF Byte
  <2> QED
    BY <1>2, <2>1
<1> QED
  BY <1>1, <1>2, <1>3, PublishMessageTyped

LEMMA InitTyped == Init => TypeOK
<1> SUFFICES ASSUME Init PROVE TypeOK
  OBVIOUS
<1> USE DEF Init
<1>1. readbuf \in [1..BufSize -> Byte]
  <2>1. 0 \in Byte
    BY DEF Byte
  <2> QED
    BY <2>1
<1>2. JobOK
  BY DEF JobOK, Jobs, NoJob
<1>3. rem.value \in Nat /\ rem.digits \in 0..4
  OBVIOUS
<1>4. /\ MaxPackets \in Nat /\ MaxCutPackets \in Nat /\ MaxReports \in Nat /\ MaxUpsets \in Nat
  BY StreamAssumption
<1>5. /\ sent \in Seq(BrokerPackets) /\ Len(sent) <= IF whole THEN MaxPackets ELSE MaxCutPackets
      /\ reports \in 0..MaxReports /\ upsets \in 0..MaxUpsets
  BY <1>4
<1>6. /\ wire \in Seq(Seq(Byte)) /\ rx \in Seq(Byte) /\ queue \in Seq(Messages)
      /\ out \in Seq(Byte) /\ done \in Seq(Seq(Byte))
  OBVIOUS
<1> QED
  BY <1>1, <1>2, <1>3, <1>5, <1>6 DEF TypeOK

(* One step of the broker, the stack or the task. *)
LEMMA StepTyped ==
  ASSUME TypeOK, [Next]_vars
  PROVE  TypeOK'
<1>t. /\ whole \in BOOLEAN /\ sent \in Seq(BrokerPackets)
      /\ Len(sent) <= IF whole THEN MaxPackets ELSE MaxCutPackets
      /\ wire \in Seq(Seq(Byte)) /\ out \in Seq(Byte) /\ done \in Seq(Seq(Byte))
      /\ online \in BOOLEAN /\ failed \in BOOLEAN
      /\ reports \in 0..MaxReports /\ upsets \in 0..MaxUpsets
  BY DEF TypeOK
<1>x. rx \in Seq(Byte) /\ queue \in Seq(Messages)
  BY DEF TypeOK
<1>r. readbuf \in [1..BufSize -> Byte] /\ rem.value \in Nat /\ rem.digits \in 0..4
  BY DEF TypeOK
<1>b. /\ MaxPackets \in Nat /\ MaxCutPackets \in Nat /\ MaxReports \in Nat /\ MaxUpsets \in Nat
      /\ BufSize \in Nat /\ BufSize >= 10
  BY StreamAssumption
<1>j. JobOK /\ (job.bytes \in Seq(Byte)) /\ (pc # "send" => job = NoJob)
  BY DEF TypeOK, JobOK, Jobs
<1>k. ASSUME UNCHANGED job, pc # "send", pc' # "send" PROVE JobOK'
  BY <1>j, <1>k, NoJobOK
<1>1. CASE BrokerSends
  <2>1. PICK p \in BrokerPackets : sent' = Append(sent, p) /\ wire' = Append(wire, OnWire(p))
    BY <1>1 DEF BrokerSends
  <2>2. /\ Len(sent) < IF whole THEN MaxPackets ELSE MaxCutPackets
        /\ UNCHANGED <<whole, rx, queue, pc, readbuf, rem, online, job, out, done, failed,
                       got, reports, upsets>>
    BY <1>1 DEF BrokerSends
  <2>3. wire' \in Seq(Seq(Byte))
    BY <1>t, <2>1, OnWireTyped, Queued
  <2>4. /\ sent' \in Seq(BrokerPackets)
        /\ Len(sent') <= IF whole' THEN MaxPackets ELSE MaxCutPackets
    <3>1. sent' \in Seq(BrokerPackets) /\ Len(sent') = Len(sent) + 1 /\ Len(sent) \in Nat
      BY <1>t, <2>1, Queued
    <3> QED
      BY <1>b, <1>t, <2>2, <3>1
  <2>5. JobOK'
    BY <1>j, <2>2 DEF JobOK
  <2> QED
    BY <2>2, <2>3, <2>4, <2>5 DEF TypeOK
<1>2. ASSUME NEW bytes \in Seq(Byte), Arrives(bytes), wire' \in Seq(Seq(Byte)),
             upsets' \in 0..MaxUpsets
      PROVE  TypeOK'
  <2>1. UNCHANGED <<whole, sent, pc, readbuf, rem, online, job, out, done, failed, got, reports>>
    BY <1>2 DEF Arrives
  <2>2. rx' \in Seq(Byte)
    BY <1>2, <1>x, Joined DEF Arrives
  <2>3. queue' = queue \/ queue' = Append(queue, "READ")
    BY <1>2 DEF Arrives
  <2>4. queue' \in Seq(Messages)
    BY <1>x, <2>3, Queued, MessageTypes
  <2>5. JobOK'
    BY <1>j, <2>1 DEF JobOK
  <2> QED
    BY <1>2, <2>1, <2>2, <2>4, <2>5 DEF TypeOK
<1>3. CASE WholePacketsArrive
  <2>1. PICK n \in 1..Len(wire) : /\ Arrives(Concat[SubSeq(wire, 1, n)])
                                  /\ wire' = SubSeq(wire, n + 1, Len(wire))
                                  /\ UNCHANGED upsets
    BY <1>3 DEF WholePacketsArrive
  <2>2. SubSeq(wire, 1, n) \in Seq(Seq(Byte)) /\ wire' \in Seq(Seq(Byte))
    BY <1>t, <2>1, PartOf
  <2>3. Concat[SubSeq(wire, 1, n)] \in Seq(Byte)
    BY <2>2, ConcatUnfolds, Zenon
  <2> QED
    BY <1>t, <1>2, <2>1, <2>2, <2>3
<1>4. CASE PartArrives
  <2>1. PICK n \in CutsAt \cap 1..Len(wire[1]) - 1 :
          /\ Arrives(SubSeq(wire[1], 1, n))
          /\ wire' = [wire EXCEPT ![1] = SubSeq(@, n + 1, Len(@))]
    BY <1>4 DEF PartArrives
  <2>2. wire # <<>> /\ Upset
    BY <1>4 DEF PartArrives
  <2>3. wire[1] \in Seq(Byte) /\ 1 \in 1..Len(wire) /\ n \in 1..Len(wire[1])
    <3>1. wire[1] \in Seq(Byte) /\ 1 \in 1..Len(wire)
      BY <1>t, <2>2
    <3> QED
      BY <2>1, <3>1
  <2>4. SubSeq(wire[1], 1, n) \in Seq(Byte) /\ SubSeq(wire[1], n + 1, Len(wire[1])) \in Seq(Byte)
    BY <2>3, PartOf
  <2>5. wire' \in Seq(Seq(Byte))
    BY <1>t, <2>1, <2>3, <2>4, ExceptSeq
  <2>6. upsets' \in 0..MaxUpsets
    BY <1>b, <1>t, <2>2 DEF Upset
  <2> QED
    BY <1>2, <2>1, <2>4, <2>5, <2>6
<1>5. CASE SocketReadable
  <2>1. /\ pc = "idle" /\ pc' = "header" /\ queue # <<>> /\ queue' = Tail(queue)
        /\ UNCHANGED <<whole, sent, wire, rx, readbuf, rem, online, job, out, done, failed,
                       got, reports, upsets>>
    BY <1>5 DEF SocketReadable, Again
  <2>2. queue' \in Seq(Messages)
    BY <1>x, <2>1, Queued
  <2> QED
    BY <1>k, <2>1, <2>2 DEF TypeOK
<1>6. CASE ReadHeader
  <2>1. /\ pc = "header" /\ pc' \in {"idle", "length"}
        /\ UNCHANGED <<whole, sent, wire, queue, online, job, out, done, failed, got, reports, upsets>>
    BY <1>6 DEF ReadHeader
  <2>2. CASE rx = <<>>
    BY <1>6, <1>k, <2>1, <2>2 DEF ReadHeader, readVars, TypeOK
  <2>3. CASE rx # <<>>
    <3>1. /\ readbuf' = [readbuf EXCEPT ![1] = Head(rx)] /\ rx' = Tail(rx)
          /\ rem' = [value |-> 0, digits |-> 0]
      BY <1>6, <2>3 DEF ReadHeader
    <3>2. Head(rx) \in Byte /\ rx' \in Seq(Byte)
      BY <1>x, <2>3, <3>1, Queued
    <3>3. readbuf' \in [1..BufSize -> Byte]
      BY <1>r, <3>1, <3>2
    <3>4. rem'.value \in Nat /\ rem'.digits \in 0..4
      BY <3>1
    <3> QED
      BY <1>k, <2>1, <3>2, <3>3, <3>4 DEF TypeOK
  <2> QED
    BY <2>2, <2>3
<1>7. CASE decodePacket
  <2>1. /\ pc = "length" /\ pc' \in {"length", "body"}
        /\ UNCHANGED <<whole, sent, wire, queue, readbuf, online, job, out, done, failed, got,
                       reports, upsets>>
    BY <1>7 DEF decodePacket
  <2>2. CASE rem.digits = 4 \/ rx = <<>>
    <3>1. UNCHANGED <<rx, rem>>
      BY <1>7, <2>2 DEF decodePacket
    <3> QED
      BY <1>k, <2>1, <3>1 DEF TypeOK
  <2>3. CASE ~(rem.digits = 4 \/ rx = <<>>)
    <3>1. /\ rem' = [value |-> rem.value + (Head(rx) % 128) * multiplier[rem.digits + 1],
                     digits |-> rem.digits + 1]
          /\ rx' = Tail(rx)
      BY <1>7, <2>3 DEF decodePacket
    <3>2. Head(rx) \in Byte /\ rx' \in Seq(Byte)
      BY <1>x, <2>3, <3>1, Queued
    <3>3. Head(rx) % 128 \in Nat
      BY <3>2, Bytes
    <3>4. multiplier[rem.digits + 1] \in Nat
      BY <1>r, <2>3, Multipliers
    <3>5. (Head(rx) % 128) * multiplier[rem.digits + 1] \in Nat
      BY <3>3, <3>4
    <3>6. rem'.value \in Nat /\ rem'.digits \in 0..4
      BY <1>r, <2>3, <3>1, <3>5
    <3> QED
      BY <1>k, <2>1, <3>2, <3>6 DEF TypeOK
  <2> QED
    BY <2>2, <2>3
<1>8. CASE ReadBody
  <2> DEFINE digits == MQTTPacket_encode[rem.value]
             n == Min({rem.value, Len(rx)})
  <2>1. /\ pc = "body" /\ pc' \in {"past readbuf", "dispatch", "idle", "header"}
        /\ readbuf' = Overwrite(readbuf, 2, digits \o SubSeq(rx, 1, n))
        /\ rx' = SubSeq(rx, n + 1, Len(rx))
        /\ UNCHANGED <<whole, sent, wire, queue, rem, online, job, out, done, failed, got,
                       reports, upsets>>
    BY <1>8 DEF ReadBody, Again
  <2>2. digits \in Seq(Byte)
    BY <1>r, EncodeUnfolds, Zenon
  <2>3. n \in Nat /\ n <= Len(rx)
    <3>1. Len(rx) \in Nat
      BY <1>x
    <3> QED
      BY <1>r, <3>1, MinOfTwo
  <2> HIDE DEF digits, n
  <2>4. SubSeq(rx, 1, n) \in Seq(Byte) /\ SubSeq(rx, n + 1, Len(rx)) \in Seq(Byte)
    BY <1>x, <2>3, Piece
  <2>5. readbuf' \in [1..BufSize -> Byte]
    <3>1. digits \o SubSeq(rx, 1, n) \in Seq(Byte)
      BY <2>2, <2>4, Joined
    <3> QED
      BY <1>r, <2>1, <3>1, OverwriteTyped
  <2> QED
    BY <1>k, <2>1, <2>4, <2>5 DEF TypeOK
<1>9. CASE Connack
  <2>1. /\ pc = "dispatch" /\ pc' = "header" /\ online' = TRUE
        /\ queue' = queue \/ queue' = Append(queue, "SET_ALIAS")
        /\ UNCHANGED <<whole, sent, wire, rx, readbuf, rem, reports, job, out, done, failed, upsets>>
    BY <1>9 DEF Connack, Dispatch, Again, writeVars
  <2>2. queue' \in Seq(Messages)
    BY <1>x, <2>1, Queued, MessageTypes
  <2> QED
    BY <1>k, <2>1, <2>2 DEF TypeOK
<1>10. CASE Noted \/ Ignored
  <2>1. /\ pc = "dispatch" /\ pc' = "header"
        /\ UNCHANGED <<whole, sent, wire, rx, queue, readbuf, rem, online, reports, job, out, done,
                       failed, upsets>>
    BY <1>10 DEF Noted, Ignored, Dispatch, Again, writeVars
  <2> QED
    BY <1>k, <2>1 DEF TypeOK
<1>11. CASE Pubrec
  <2>1. UNCHANGED <<whole, sent, wire, rx, queue, readbuf, rem, online, reports, out, done,
                    failed, upsets>>
    BY <1>11 DEF Pubrec
  <2>2. PICK id \in Id : StartSend(MQTTSerialize_ack(BufSize, "PUBREL", 0, id), "PUBREC")
    BY <1>11, PubrecForm
  <2>3. MQTTSerialize_ack(BufSize, "PUBREL", 0, id) \in Seq(Byte) \ {<<>>}
    BY TypeNames, AckSent
  <2>4. JobOK' /\ pc' = "send"
    BY <2>2, <2>3, StartSendTyped
  <2> QED
    BY <2>1, <2>4 DEF TypeOK
<1>12. CASE Publish
  <2> DEFINE type == IF QosBits(readbuf[1]) = 1 THEN "PUBACK" ELSE "PUBREC"
  <2>1. /\ pc = "dispatch"
        /\ UNCHANGED <<whole, sent, wire, rx, queue, readbuf, rem, online, reports, out, done,
                       failed, upsets>>
    BY <1>12 DEF Publish, Dispatch
  <2>2. \/ pc' \in {"arrived", "stray"} /\ UNCHANGED job
        \/ \E id \in Id : StartSend(MQTTSerialize_ack(BufSize, type, 0, id), "PUBLISH")
    BY <1>12, PublishForm
  <2>3. type \in DOMAIN msgTypes
    BY TypeNames
  <2> HIDE DEF type
  <2>4. \A id \in Id : MQTTSerialize_ack(BufSize, type, 0, id) \in Seq(Byte) \ {<<>>}
    BY <2>3, AckSent
  <2>5. CASE pc' \in {"arrived", "stray"} /\ UNCHANGED job
    BY <1>k, <2>1, <2>5 DEF TypeOK
  <2>6. ASSUME NEW id \in Id, StartSend(MQTTSerialize_ack(BufSize, type, 0, id), "PUBLISH")
        PROVE  TypeOK'
    <3>1. JobOK' /\ pc' = "send"
      BY <2>4, <2>6, StartSendTyped
    <3> QED
      BY <2>1, <3>1 DEF TypeOK
  <2> QED
    BY <2>2, <2>5, <2>6
<1>13. CASE messageArrived
  <2> DEFINE d == MQTTDeserialize_publish(readbuf)
             end == d.payload + d.payloadlen
  <2>1. /\ pc = "arrived"
        /\ IF ~d.read \/ end > BufSize
           THEN pc' \in {"stray", "past readbuf"} /\ UNCHANGED <<readbuf, got, queue, job>>
           ELSE /\ readbuf' = [readbuf EXCEPT ![end] = 0]
                /\ IF Payload(d) = ReportCmd THEN yblock_report("report")
                   ELSE Again /\ UNCHANGED <<queue, job>>
        /\ UNCHANGED <<whole, sent, wire, rx, rem, online, out, done, failed, reports, upsets>>
    BY <1>13 DEF messageArrived
  <2> HIDE DEF d, end
  <2>2. readbuf' \in [1..BufSize -> Byte]
    <3>1. 0 \in Byte
      BY SMT DEF Byte
    <3> QED
      BY <1>r, <2>1, <3>1
  <2>3. /\ JobOK' /\ queue' \in Seq(Messages)
        /\ pc' \in {"send", "idle", "header", "past pubMsg", "past readbuf", "stray"}
    <3>1. CASE UNCHANGED <<queue, job>> /\ pc' \in {"past readbuf", "stray", "header"}
      BY <1>k, <1>x, <2>1, <3>1
    <3>2. CASE yblock_report("report")
      BY <2>1, <3>2, ReportTyped
    <3> QED
      BY <2>1, <3>1, <3>2 DEF Again
  <2> QED
    BY <2>1, <2>2, <2>3 DEF TypeOK
<1>14. ASSUME WriteTypes, UNCHANGED <<whole, sent, wire, rx, readbuf, rem, online, reports>>,
              upsets' \in 0..MaxUpsets
       PROVE  TypeOK'
  BY <1>14, <1>t DEF WriteTypes, TypeOK
<1>15. CASE AllTaken
  <2>1. Write(Len(job.bytes)) /\ UNCHANGED upsets
    BY <1>15 DEF AllTaken
  <2>2. UNCHANGED <<whole, sent, wire, rx, readbuf, rem, online, reports>>
    BY <2>1 DEF Write
  <2>3. WriteTypes
    <3>1. Len(job.bytes) \in Nat /\ Len(job.bytes) <= Len(job.bytes)
      BY <1>j
    <3> QED
      BY <2>1, <3>1, WriteTyped
  <2> QED
    BY <1>14, <1>t, <2>1, <2>2, <2>3
<1>16. CASE PartTaken
  <2>1. PICK n \in {1, Len(job.bytes) - 1} : Write(n)
    BY <1>16 DEF PartTaken
  <2>2. UNCHANGED <<whole, sent, wire, rx, readbuf, rem, online, reports>> /\ pc = "send"
    BY <2>1 DEF Write
  <2>3. n \in Nat /\ n <= Len(job.bytes)
    <3>1. job.bytes # <<>>
      BY <1>j, <2>2 DEF JobOK
    <3>2. Len(job.bytes) \in Nat /\ Len(job.bytes) # 0
      BY <1>j, <3>1
    <3> QED
      BY <2>1, <3>2
  <2>4. WriteTypes
    BY <2>1, <2>3, WriteTyped, Zenon
  <2>5. upsets' \in 0..MaxUpsets
    BY <1>16, <1>b, <1>t DEF PartTaken, Upset
  <2> QED
    BY <1>14, <2>2, <2>4, <2>5
<1>17. CASE NoneTaken
  <2>1. Fails /\ Upset /\ UNCHANGED <<whole, sent, wire, rx, readbuf, rem, online, out, reports>>
    BY <1>17 DEF NoneTaken
  <2>2. WriteTypes
    BY <1>t, <2>1, FailsTyped
  <2>3. upsets' \in 0..MaxUpsets
    BY <1>b, <1>t, <2>1 DEF Upset
  <2> QED
    BY <1>14, <2>1, <2>2, <2>3
<1>18. CASE SetAlias
  <2>1. PICK retained \in {0, 1} :
          StartSend(MQTTSerialize_publish(BufSize, OwnPublish(retained, AliasTopic, Topic)), "own")
    BY <1>18 DEF SetAlias, OwnPublish
  <2>2. /\ queue # <<>> /\ queue' = Tail(queue)
        /\ UNCHANGED <<whole, sent, wire, rx, readbuf, rem, online, reports, out, done, failed, upsets>>
    BY <1>18 DEF SetAlias, TakeMessage
  <2>3. AliasTopic \in Seq(Byte) /\ Topic \in Seq(Byte)
    <3>1. 44 \in Byte /\ 121 \in Byte /\ 97 \in Byte /\ 108 \in Byte /\ 105 \in Byte
      BY SMT DEF Byte
    <3> QED
      BY <3>1, StreamAssumption DEF AliasTopic
  <2>4. MQTTSerialize_publish(BufSize, OwnPublish(retained, AliasTopic, Topic)) \in Seq(Byte) \ {<<>>}
    BY <2>3, PublishSent, StreamAssumption
  <2>5. JobOK' /\ pc' = "send"
    BY <2>1, <2>4, StartSendTyped
  <2>6. queue' \in Seq(Messages)
    BY <1>x, <2>2, Queued
  <2> QED
    BY <2>2, <2>5, <2>6 DEF TypeOK
<1>19. CASE LockReports
  <2>1. /\ pc = "idle" /\ reports < MaxReports /\ reports' = reports + 1 /\ yblock_report("own")
        /\ UNCHANGED <<whole, sent, wire, rx, readbuf, rem, online, got, out, done, failed, upsets>>
    BY <1>19 DEF LockReports
  <2>2. /\ JobOK' /\ queue' \in Seq(Messages)
        /\ pc' \in {"send", "idle", "header", "past pubMsg"}
    BY <2>1, ReportTyped
  <2>3. reports' \in 0..MaxReports
    BY <1>b, <1>t, <2>1
  <2> QED
    BY <2>1, <2>2, <2>3 DEF TypeOK
<1>20. CASE Close
  <2>1. /\ pc = "idle" /\ pc' = "closed" /\ queue # <<>> /\ queue' = Tail(queue)
        /\ UNCHANGED <<whole, sent, wire, rx, readbuf, rem, online, reports, job, out, done, failed,
                       upsets>>
    BY <1>20 DEF Close, TakeMessage, writeVars
  <2>2. queue' \in Seq(Messages)
    BY <1>x, <2>1, Queued
  <2> QED
    BY <1>k, <2>1, <2>2 DEF TypeOK
<1>21. CASE UNCHANGED vars
  BY <1>j, <1>21 DEF vars, JobOK, TypeOK
<1>22. CASE Puback
  <2>1. /\ mqtt_keepalive("keepalive")
        /\ UNCHANGED <<whole, sent, wire, rx, queue, readbuf, rem, online, reports, out, done,
                       failed, upsets>>
    BY <1>22 DEF Puback
  <2>2. JobOK' /\ pc' = "send"
    BY <2>1, PingSent, StartSendTyped DEF mqtt_keepalive
  <2> QED
    BY <2>1, <2>2 DEF TypeOK
<1>23. CASE Keepalive
  <2>1. /\ mqtt_keepalive("own") /\ reports < MaxReports /\ reports' = reports + 1
        /\ UNCHANGED <<whole, sent, wire, rx, queue, readbuf, rem, online, out, done, failed, upsets>>
    BY <1>23 DEF Keepalive
  <2>2. JobOK' /\ pc' = "send"
    BY <2>1, PingSent, StartSendTyped DEF mqtt_keepalive
  <2>3. reports' \in 0..MaxReports
    BY <1>b, <1>t, <2>1
  <2> QED
    BY <2>1, <2>2, <2>3 DEF TypeOK
<1> QED
  BY <1>1, <1>3, <1>4, <1>5, <1>6, <1>7, <1>8, <1>9, <1>10, <1>11, <1>12, <1>13, <1>15, <1>16,
     <1>17, <1>18, <1>19, <1>20, <1>21, <1>22, <1>23 DEF Next, Task

(* Whatever the broker sends and however it is cut, every variable of the connection keeps its *)
(* range: readPacket's loop and the buffers of sendPacket and publish_message.                 *)
THEOREM StreamTyped == Spec => []TypeOK
<1>1. Init => TypeOK
  BY InitTyped
<1>2. TypeOK /\ [Next]_vars => TypeOK'
  BY StepTyped
<1> QED
  BY <1>1, <1>2, PTL DEF Spec

-------------------------------------------------------------------------------
(* Notifications. *)

Notified(q) == \E i \in 1..Len(q) : q[i] = "READ"

(* The same as NothingForgotten, and while a message is sent for which the task leaves no loop. *)
Heard ==
  (pc = "idle" \/ (pc = "send" /\ job.for = "own")) /\ rx # <<>> => Notified(queue)

LEMMA NotifiedStays ==
  ASSUME NEW q \in Seq(Messages)
  PROVE  /\ \A m \in Messages : Notified(q) => Notified(Append(q, m))
         /\ Notified(Append(q, "READ"))
         /\ Notified(q) /\ Head(q) # "READ" => Notified(Tail(q))
<1>1. ASSUME NEW m \in Messages, Notified(q) PROVE Notified(Append(q, m))
  <2>1. PICK i \in 1..Len(q) : q[i] = "READ"
    BY <1>1 DEF Notified
  <2>2. i \in 1..Len(Append(q, m)) /\ Append(q, m)[i] = "READ"
    BY <2>1
  <2> QED
    BY <2>2 DEF Notified
<1>2. Notified(Append(q, "READ"))
  <2>1. Len(q) + 1 \in 1..Len(Append(q, "READ")) /\ Append(q, "READ")[Len(q) + 1] = "READ"
    BY MessageTypes
  <2> QED
    BY <2>1 DEF Notified
<1>3. ASSUME Notified(q), Head(q) # "READ" PROVE Notified(Tail(q))
  <2>1. PICK i \in 1..Len(q) : q[i] = "READ"
    BY <1>3 DEF Notified
  <2>2. i # 1 /\ i - 1 \in 1..Len(Tail(q)) /\ Tail(q)[i - 1] = "READ"
    BY <1>3, <2>1
  <2> QED
    BY <2>2 DEF Notified
<1> QED
  BY <1>1, <1>2, <1>3

(* A message the lock publishes: it is being sent, or nothing changes but the mailbox. *)
LEMMA PublishMessageHeard ==
  ASSUME NEW topic, NEW payload, NEW for \in {"own", "report"}, TypeOK,
         publish_message(topic, payload, for)
  PROVE  /\ pc' \in {"send", "past pubMsg", After(for)}
         /\ pc' = "send" => job'.for = for
         /\ queue' = queue \/ queue' = Append(queue, "CLOSE")
         /\ pc' = "past pubMsg" => ~online
<1>0. online \in BOOLEAN
  BY DEF TypeOK
<1>1. PICK retained \in {0, 1} :
        LET bytes == MQTTSerialize_publish(BufSize, OwnPublish(retained, topic, payload))
        IN CASE online /\ bytes # TooShort -> StartSend(bytes, for) /\ UNCHANGED queue
             [] online /\ bytes = TooShort ->
                  pc' = After(for) /\ queue' = Append(queue, "CLOSE") /\ UNCHANGED job
             [] OTHER ->
                  /\ pc' = IF Len(payload) > BufSize THEN "past pubMsg" ELSE After(for)
                  /\ UNCHANGED <<job, queue>>
  BY DEF publish_message, OwnPublish
<1> DEFINE bytes == MQTTSerialize_publish(BufSize, OwnPublish(retained, topic, payload))
<1> HIDE DEF bytes
<1>2. After(for) \in {"idle", "header"}
  BY DEF After
<1>3. CASE online /\ bytes # TooShort
  <2>1. StartSend(bytes, for) /\ UNCHANGED queue
    BY <1>1, <1>3 DEF bytes
  <2> QED
    BY <2>1 DEF StartSend
<1>4. CASE online /\ bytes = TooShort
  <2>1. pc' = After(for) /\ queue' = Append(queue, "CLOSE") /\ UNCHANGED job
    BY <1>1, <1>4 DEF bytes
  <2> QED
    BY <1>2, <2>1
<1>5. CASE ~online
  <2>1. /\ pc' = IF Len(payload) > BufSize THEN "past pubMsg" ELSE After(for)
        /\ UNCHANGED <<job, queue>>
    BY <1>1, <1>5 DEF bytes
  <2> QED
    BY <1>2, <1>5, <2>1
<1> QED
  BY <1>0, <1>3, <1>4, <1>5

(* What the task may do next after a write. *)
LEMMA WriteHeard ==
  ASSUME TypeOK, (\E n \in Nat : Write(n)) \/ (Fails /\ pc = "send" /\ UNCHANGED rx)
  PROVE  /\ pc = "send" /\ rx' = rx /\ (queue' = queue \/ queue' = Append(queue, "CLOSE"))
         /\ \/ pc' = "send" /\ job'.for = job.for
            \/ pc' = "idle" /\ job.for = "own"
            \/ pc' \in {"header", "arrived"}
<1>1. ASSUME Fails, pc = "send", UNCHANGED rx
      PROVE  /\ rx' = rx /\ (queue' = queue \/ queue' = Append(queue, "CLOSE"))
             /\ \/ pc' = "idle" /\ job.for = "own"
                \/ pc' = "header"
  BY <1>1 DEF Fails
<1>2. ASSUME NEW n \in Nat, Write(n)
      PROVE  /\ pc = "send" /\ rx' = rx /\ (queue' = queue \/ queue' = Append(queue, "CLOSE"))
             /\ \/ pc' = "send" /\ job'.for = job.for
                \/ pc' = "idle" /\ job.for = "own"
                \/ pc' \in {"header", "arrived"}
  <2>1. pc = "send" /\ UNCHANGED rx
    BY <1>2 DEF Write
  <2>2. job \in Jobs
    BY DEF TypeOK, JobOK
  <2>3. \/ job' = [job EXCEPT !.sent = job.sent + n] /\ UNCHANGED <<pc, queue>>
        \/ Succeeds \/ Fails
    BY <1>2 DEF Write
  <2>4. CASE job' = [job EXCEPT !.sent = job.sent + n] /\ UNCHANGED <<pc, queue>>
    BY <2>1, <2>2, <2>4 DEF Jobs
  <2>5. CASE Succeeds
    BY <2>1, <2>5 DEF Succeeds, After
  <2> QED
    BY <1>1, <2>1, <2>3, <2>4, <2>5
<1> QED
  BY <1>1, <1>2

LEMMA StepHeard ==
  ASSUME TypeOK, Heard, [Next]_vars
  PROVE  Heard'
<1>x. rx \in Seq(Byte) /\ queue \in Seq(Messages) /\ rem.value \in Nat
  BY DEF TypeOK
<1>1. CASE UNCHANGED <<rx, queue, pc, job>>
  BY <1>1 DEF Heard
<1>2. ASSUME NEW bytes, Arrives(bytes) PROVE Heard'
  <2>1. /\ pc' = pc /\ job' = job
        /\ queue' = IF rx = <<>> THEN Append(queue, "READ") ELSE queue
    BY <1>2 DEF Arrives
  <2>2. CASE rx = <<>>
    <3>1. Notified(queue')
      BY <1>x, <2>1, <2>2, NotifiedStays
    <3> QED
      BY <3>1 DEF Heard
  <2>3. CASE rx # <<>>
    BY <2>1, <2>3 DEF Heard
  <2> QED
    BY <2>2, <2>3
<1>3. CASE pc' \notin {"idle", "send"}
  BY <1>3 DEF Heard
<1>4. CASE ReadHeader
  <2>1. CASE rx = <<>>
    BY <1>4, <2>1 DEF ReadHeader, readVars, Heard
  <2>2. CASE rx # <<>>
    BY <1>4, <2>2 DEF ReadHeader, Heard
  <2> QED
    BY <2>1, <2>2
<1>5. CASE ReadBody
  <2> DEFINE digits == MQTTPacket_encode[rem.value]
             n == Min({rem.value, Len(rx)})
  <2>1. /\ rx' = SubSeq(rx, n + 1, Len(rx))
        /\ IF 1 + Len(digits) + n > BufSize THEN pc' = "past readbuf"
           ELSE IF n = rem.value THEN pc' = "dispatch"
           ELSE IF n = 0 THEN pc' = "idle" ELSE pc' = "header"
    BY <1>5 DEF ReadBody, Again
  <2>2. n = IF rem.value <= Len(rx) THEN rem.value ELSE Len(rx)
    BY <1>x, MinOfTwo
  <2> HIDE DEF digits, n
  <2>3. pc' # "send" /\ (pc' = "idle" => Len(rx) = 0)
    BY <1>x, <2>1, <2>2
  <2>4. pc' = "idle" => rx' = <<>>
    BY <1>x, <2>1, <2>2, <2>3
  <2> QED
    BY <2>3, <2>4 DEF Heard
<1>6. CASE Pubrec \/ Publish \/ Puback \/ Keepalive
  <2>1. CASE Pubrec
    BY <2>1, PubrecForm DEF StartSend, Heard
  <2>2. CASE Publish
    BY <2>2, PublishForm DEF StartSend, Heard
  <2>3. CASE Puback
    BY <2>3 DEF Puback, mqtt_keepalive, StartSend, Heard
  <2>4. CASE Keepalive
    <3>1. pc = "idle" /\ rx' = rx /\ queue' = queue
      BY <2>4 DEF Keepalive
    <3> QED
      BY <3>1 DEF Heard
  <2> QED
    BY <1>6, <2>1, <2>2, <2>3, <2>4
<1>7. CASE messageArrived
  <2>1. pc' \in {"past readbuf", "stray", "header"} \/ yblock_report("report")
    BY <1>7 DEF messageArrived, Again
  <2>2. CASE yblock_report("report")
    <3>1. PICK n \in ReportLengths : publish_message(Topic, [i \in 1..n |-> 120], "report")
      BY <2>2 DEF yblock_report
    <3>2. pc' \in {"send", "past pubMsg", After("report")} /\ (pc' = "send" => job'.for = "report")
      BY <3>1, PublishMessageHeard
    <3>3. After("report") = "header"
      BY DEF After
    <3> QED
      BY <3>2, <3>3 DEF Heard
  <2> QED
    BY <1>3, <2>1, <2>2
<1>8. ASSUME (\E n \in Nat : Write(n)) \/ (Fails /\ pc = "send" /\ UNCHANGED rx)
      PROVE  Heard'
  <2>1. /\ pc = "send" /\ rx' = rx /\ (queue' = queue \/ queue' = Append(queue, "CLOSE"))
        /\ \/ pc' = "send" /\ job'.for = job.for
           \/ pc' = "idle" /\ job.for = "own"
           \/ pc' \in {"header", "arrived"}
    BY <1>8, WriteHeard
  <2>2. Notified(queue) => Notified(queue')
    BY <1>x, <2>1, NotifiedStays, MessageTypes
  <2> QED
    BY <2>1, <2>2 DEF Heard
<1>9. CASE SetAlias
  <2>1. pc = "idle" /\ Head(queue) = "SET_ALIAS" /\ queue' = Tail(queue) /\ UNCHANGED rx
    BY <1>9 DEF SetAlias, TakeMessage
  <2>2. Notified(queue) => Notified(queue')
    BY <1>x, <2>1, NotifiedStays
  <2> QED
    BY <2>1, <2>2 DEF Heard
<1>10. CASE LockReports
  <2>1. pc = "idle" /\ UNCHANGED rx /\ yblock_report("own")
    BY <1>10 DEF LockReports
  <2>2. queue' = queue \/ queue' = Append(queue, "CLOSE")
    BY <2>1, PublishMessageHeard DEF yblock_report
  <2>3. Notified(queue) => Notified(queue')
    BY <1>x, <2>2, NotifiedStays, MessageTypes
  <2> QED
    BY <2>1, <2>3 DEF Heard
<1>11. CASE AllTaken \/ PartTaken \/ NoneTaken
  <2>1. (\E n \in Nat : Write(n)) \/ (Fails /\ pc = "send" /\ UNCHANGED rx)
    <3>1. Len(job.bytes) \in Nat /\ (pc = "send" => Len(job.bytes) - 1 \in Nat)
      <4>1. job.bytes \in Seq(Byte) /\ (pc = "send" => job.bytes # <<>>)
        BY DEF TypeOK, JobOK, Jobs
      <4> QED
        BY <4>1
    <3>2. \A n : Write(n) => pc = "send"
      BY DEF Write
    <3> QED
      BY <1>11, <3>1, <3>2 DEF AllTaken, PartTaken, NoneTaken
  <2> QED
    BY <1>8, <2>1
<1>12. CASE SocketReadable \/ decodePacket \/ Connack \/ Noted \/ Ignored \/ Close
  <2>1. pc' \notin {"idle", "send"}
    BY <1>12 DEF SocketReadable, decodePacket, Connack, Noted, Ignored, Close, Again
  <2> QED
    BY <1>3, <2>1
<1>13. CASE BrokerSends \/ WholePacketsArrive \/ PartArrives \/ UNCHANGED vars
  BY <1>1, <1>2, <1>13 DEF BrokerSends, WholePacketsArrive, PartArrives, vars
<1> QED
  BY <1>4, <1>5, <1>6, <1>7, <1>9, <1>10, <1>11, <1>12, <1>13 DEF Next, Task

(* While the task is elsewhere, bytes that wait for it have a SOC_READ that is not handled: *)
(* MTK_cycle leaves its loop on an empty socket only, whatever arrives between its reads.    *)
THEOREM NothingIsForgotten == Spec => []NothingForgotten
<1>1. Init => TypeOK /\ Heard
  BY InitTyped DEF Init, Heard
<1>2. TypeOK /\ Heard /\ [Next]_vars => TypeOK' /\ Heard'
  BY StepTyped, StepHeard
<1>3. Heard => NothingForgotten
  BY DEF Heard, NothingForgotten, Notified
<1> QED
  BY <1>1, <1>2, <1>3, PTL DEF Spec

-------------------------------------------------------------------------------
(* What is sent. *)

LEMMA SentSoFar ==
  ASSUME NEW b \in Seq(Byte), NEW t \in Seq(Byte), NEW k \in Nat, NEW n \in Nat, k + n <= Len(b)
  PROVE  SubSeq(b, 1, k) \o SubSeq(b \o t, k + 1, k + n) = SubSeq(b, 1, k + n)
<1>1. CASE n = 0
  <2>1. SubSeq(b \o t, k + 1, k + n) = <<>>
    BY <1>1, SubSeqEmpty
  <2>2. SubSeq(b, 1, k) \in Seq(Byte)
    BY Piece
  <2>3. SubSeq(b, 1, k) \o <<>> = SubSeq(b, 1, k)
    BY <2>2, ConcatEmptySeq
  <2> QED
    BY <1>1, <2>1, <2>3
<1>2. CASE n > 0
  <2>1. SubSeq(b \o t, k + 1, k + n) = SubSeq(b, k + 1, k + n)
    BY <1>2, SubSeqOfConcat1
  <2>2. 1 \in 1..Len(b) + 1 /\ k \in 1 - 1..Len(b) /\ k + n \in k..Len(b)
    OBVIOUS
  <2>3. SubSeq(b, 1, k) \o SubSeq(b, k + 1, k + n) = SubSeq(b, 1, k + n)
    BY <2>2, ConcatAdjacentSubSeq
  <2> QED
    BY <2>1, <2>3
<1> QED
  BY <1>1, <1>2

LEMMA AppendParts ==
  ASSUME NEW S, NEW ss \in Seq(S), NEW b \in S
  PROVE  /\ Append(ss, b) \in Seq(S) /\ Append(ss, b) # <<>>
         /\ Last(Append(ss, b)) = b /\ Front(Append(ss, b)) = ss
<1>1. /\ Append(ss, b) \in Seq(S) /\ Append(ss, b) # <<>>
      /\ Len(Append(ss, b)) = Len(ss) + 1 /\ Append(ss, b)[Len(ss) + 1] = b
      /\ \A i \in 1..Len(ss) : Append(ss, b)[i] = ss[i]
  BY AppendProperties
<1>2. SubSeq(Append(ss, b), 1, Len(Append(ss, b)) - 1) = ss
  <2> DEFINE t == Append(ss, b)
  <2>1. t \in Seq(S) /\ Len(t) = Len(ss) + 1 /\ \A i \in 1..Len(ss) : t[i] = ss[i]
    BY <1>1
  <2> HIDE DEF t
  <2>2. SubSeq(t, 1, Len(t) - 1) = ss
    BY <2>1
  <2> QED
    BY <2>2 DEF t
<1> QED
  BY <1>1, <1>2, Zenon DEF Last, Front

LEMMA ConcatAppend ==
  ASSUME NEW ss \in Seq(Seq(Byte)), NEW b \in Seq(Byte)
  PROVE  Concat[Append(ss, b)] = Concat[ss] \o b
<1>1. /\ Append(ss, b) \in Seq(Seq(Byte)) /\ Append(ss, b) # <<>>
      /\ Last(Append(ss, b)) = b /\ Front(Append(ss, b)) = ss
  BY AppendParts, Zenon
<1> QED
  BY <1>1, ConcatUnfolds, Zenon

LEMMA WriteWhole ==
  ASSUME NEW n \in Nat, TypeOK, OutWhole, Write(n)
  PROVE  OutWhole'
<1> DEFINE length == Len(job.bytes)
           behind == [i \in 1..length |-> 0]
           total == job.sent + n
<1>1. /\ job.bytes \in Seq(Byte) /\ job.sent \in Nat /\ job.sent <= length /\ length \in Nat
      /\ out \in Seq(Byte) /\ done \in Seq(Seq(Byte)) /\ failed \in BOOLEAN /\ job \in Jobs
  BY DEF Write, TypeOK, JobOK, Jobs
<1>2. out' = out \o SubSeq(job.bytes \o behind, job.sent + 1, total)
  BY DEF Write
<1>3. behind \in Seq(Byte)
  <2>1. 0 \in Byte
    BY DEF Byte
  <2> QED
    BY <1>1, <2>1
<1>4. ASSUME total <= length, ~failed
      PROVE  out' = Concat[done] \o SubSeq(job.bytes, 1, total)
  <2>1. /\ SubSeq(job.bytes, 1, job.sent) \in Seq(Byte)
        /\ SubSeq(job.bytes \o behind, job.sent + 1, total) \in Seq(Byte)
        /\ Concat[done] \in Seq(Byte)
    <3>1. job.bytes \o behind \in Seq(Byte) /\ Len(job.bytes \o behind) = length + Len(behind)
      BY <1>1, <1>3, Joined
    <3>2. Len(behind) \in Nat
      BY <1>3
    <3> DEFINE both == job.bytes \o behind
    <3> HIDE DEF behind, both
    <3>3. /\ both \in Seq(Byte) /\ total <= Len(both) /\ total \in Nat
          /\ job.sent + 1 \in Nat \ {0} /\ job.sent <= Len(job.bytes)
      BY <1>1, <1>4, <3>1, <3>2 DEF both
    <3> HIDE DEF total
    <3>4. SubSeq(job.bytes, 1, job.sent) \in Seq(Byte) /\ SubSeq(both, job.sent + 1, total) \in Seq(Byte)
      BY <1>1, <3>3, Piece
    <3>5. Concat[done] \in Seq(Byte)
      BY <1>1, ConcatUnfolds, Zenon
    <3> QED
      BY <3>4, <3>5 DEF both
  <2>2. out = Concat[done] \o SubSeq(job.bytes, 1, job.sent)
    BY <1>4 DEF OutWhole
  <2>3. SubSeq(job.bytes, 1, job.sent) \o SubSeq(job.bytes \o behind, job.sent + 1, total)
          = SubSeq(job.bytes, 1, total)
    BY <1>1, <1>3, <1>4, SentSoFar
  <2> DEFINE a == Concat[done]
             b == SubSeq(job.bytes, 1, job.sent)
             c == SubSeq(job.bytes \o behind, job.sent + 1, total)
  <2>4. (a \o b) \o c = a \o (b \o c)
    BY <2>1, Associative
  <2> QED
    BY <1>2, <2>2, <2>3, <2>4, Zenon
<1>5. CASE total < length
  <2>1. job' = [job EXCEPT !.sent = total] /\ UNCHANGED <<done, failed>>
    BY <1>5 DEF Write
  <2>2. job'.bytes = job.bytes /\ job'.sent = total
    BY <1>1, <2>1 DEF Jobs
  <2>3. total <= length
    BY <1>1, <1>5
  <2> HIDE DEF behind, total, length
  <2> QED
    BY <1>4, <2>1, <2>2, <2>3 DEF OutWhole
<1>6. CASE total = length
  <2>1. done' = Append(done, job.bytes) /\ job' = NoJob /\ failed' = failed
    BY <1>1, <1>6 DEF Write, Succeeds
  <2>2. SubSeq(job.bytes, 1, length) = job.bytes
    BY <1>1
  <2>3. SubSeq(job'.bytes, 1, job'.sent) = <<>>
    BY <2>1, SubSeqEmpty DEF NoJob
  <2>4. Concat[done'] = Concat[done] \o job.bytes /\ Concat[done'] \in Seq(Byte)
    <3>1. Concat[done'] = Concat[done] \o job.bytes
      BY <1>1, <2>1, ConcatAppend
    <3>2. Concat[done] \in Seq(Byte)
      BY <1>1, ConcatUnfolds
    <3> QED
      BY <1>1, <3>1, <3>2, Joined
  <2>5. Concat[done'] \o <<>> = Concat[done']
    BY <2>4, ConcatEmptySeq
  <2>6. total <= length
    BY <1>1, <1>6
  <2>7. ASSUME ~failed'
        PROVE  out' = Concat[done'] \o SubSeq(job'.bytes, 1, job'.sent)
    <3>1. out' = Concat[done] \o SubSeq(job.bytes, 1, total)
      BY <1>4, <2>1, <2>6, <2>7
    <3>2. out' = Concat[done']
      BY <1>6, <2>2, <2>4, <3>1
    <3> QED
      BY <2>3, <2>5, <3>2, Zenon
  <2> QED
    BY <2>7, Zenon DEF OutWhole
<1>7. CASE total > length
  <2>1. failed' = TRUE
    BY <1>1, <1>7 DEF Write, Fails
  <2> QED
    BY <2>1 DEF OutWhole
<1>8. total < length \/ total = length \/ total > length
  <2>1. length \in Nat /\ total \in Nat
    BY <1>1
  <2> HIDE DEF total, length
  <2> QED
    BY <2>1
<1> QED
  BY <1>5, <1>6, <1>7, <1>8, Zenon

(* The part of an empty packet that is sent. *)
LEMMA NothingSent ==
  ASSUME NEW b
  PROVE  SubSeq(b, 1, 0) = <<>>
BY SubSeqEmpty

LEMMA PublishMessageWhole ==
  ASSUME NEW topic, NEW payload, NEW for, TypeOK, pc # "send",
         publish_message(topic, payload, for)
  PROVE  (job' = job \/ job'.sent = 0)
<1>1. PICK retained \in {0, 1} :
        LET bytes == MQTTSerialize_publish(BufSize, OwnPublish(retained, topic, payload))
        IN CASE online /\ bytes # TooShort -> StartSend(bytes, for) /\ UNCHANGED queue
             [] online /\ bytes = TooShort ->
                  pc' = After(for) /\ queue' = Append(queue, "CLOSE") /\ UNCHANGED job
             [] OTHER ->
                  /\ pc' = IF Len(payload) > BufSize THEN "past pubMsg" ELSE After(for)
                  /\ UNCHANGED <<job, queue>>
  BY DEF publish_message, OwnPublish
<1> DEFINE bytes == MQTTSerialize_publish(BufSize, OwnPublish(retained, topic, payload))
<1>2. \/ StartSend(bytes, for) \/ UNCHANGED job
  <2> HIDE DEF bytes
  <2>1. online \in BOOLEAN
    BY DEF TypeOK
  <2> QED
    BY <1>1, <2>1 DEF bytes
<1> QED
  BY <1>2 DEF StartSend

LEMMA StepWhole ==
  ASSUME TypeOK, OutWhole, [Next]_vars
  PROVE  OutWhole'
<1>1. CASE UNCHANGED <<failed, out, done, job>>
  BY <1>1 DEF OutWhole
<1>2. ASSUME pc # "send", job'.sent = 0, UNCHANGED <<failed, out, done>>
      PROVE  OutWhole'
  <2>1. job = NoJob
    BY <1>2 DEF TypeOK, JobOK
  <2>3. job.sent = 0
    BY <2>1 DEF NoJob
  <2>2. SubSeq(job.bytes, 1, job.sent) = SubSeq(job'.bytes, 1, job'.sent)
    BY <1>2, <2>3, NothingSent
  <2> QED
    BY <1>2, <2>2 DEF OutWhole
<1>3. CASE AllTaken \/ PartTaken
  <2>1. Len(job.bytes) \in Nat /\ (pc = "send" => Len(job.bytes) - 1 \in Nat)
    <3>1. job.bytes \in Seq(Byte) /\ (pc = "send" => job.bytes # <<>>)
      BY DEF TypeOK, JobOK, Jobs
    <3> QED
      BY <3>1
  <2>2. \A n : Write(n) => pc = "send"
    BY DEF Write
  <2>3. PICK n \in Nat : Write(n)
    BY <1>3, <2>1, <2>2 DEF AllTaken, PartTaken
  <2> QED
    BY <2>3, WriteWhole
<1>4. CASE NoneTaken
  BY <1>4 DEF NoneTaken, Fails, OutWhole
<1>5. CASE Pubrec \/ Publish \/ Puback \/ Keepalive \/ SetAlias
  <2>1. pc # "send" /\ UNCHANGED <<failed, out, done>>
    BY <1>5 DEF Pubrec, Publish, Puback, Keepalive, SetAlias, Dispatch, TakeMessage
  <2>2. job' = job \/ job'.sent = 0
    <3>1. CASE Pubrec
      BY <3>1, PubrecForm DEF StartSend
    <3>2. CASE Publish
      BY <3>2, PublishForm DEF StartSend
    <3>3. CASE Puback \/ Keepalive \/ SetAlias
      BY <3>3 DEF Puback, Keepalive, SetAlias, mqtt_keepalive, StartSend
    <3> QED
      BY <1>5, <3>1, <3>2, <3>3
  <2> QED
    BY <1>1, <1>2, <2>1, <2>2
<1>6. CASE messageArrived
  <2>1. pc # "send" /\ UNCHANGED <<failed, out, done>> /\ (UNCHANGED job \/ yblock_report("report"))
    BY <1>6 DEF messageArrived
  <2>2. job' = job \/ job'.sent = 0
    BY <2>1, PublishMessageWhole DEF yblock_report
  <2> QED
    BY <1>1, <1>2, <2>1, <2>2
<1>7. CASE LockReports
  <2>1. pc # "send" /\ UNCHANGED <<failed, out, done>> /\ yblock_report("own")
    BY <1>7 DEF LockReports
  <2>2. job' = job \/ job'.sent = 0
    BY <2>1, PublishMessageWhole DEF yblock_report
  <2> QED
    BY <1>1, <1>2, <2>1, <2>2
<1>8. CASE \/ BrokerSends \/ WholePacketsArrive \/ PartArrives
           \/ SocketReadable \/ ReadHeader \/ decodePacket \/ ReadBody
           \/ Connack \/ Noted \/ Ignored \/ Close \/ UNCHANGED vars
  <2>1. UNCHANGED <<failed, out, done, job>>
    BY <1>8 DEF BrokerSends, WholePacketsArrive, PartArrives, Arrives, SocketReadable, ReadHeader,
                decodePacket, ReadBody, Connack, Noted, Ignored, Close, writeVars, vars
  <2> QED
    BY <1>1, <2>1
<1> QED
  BY <1>3, <1>4, <1>5, <1>6, <1>7, <1>8 DEF Next, Task

(* Once the broker has answered the CONNECT and as long as no call of sendPacket has returned  *)
(* FAILURE, what the stack has taken is every answer, report, alias and ping sent so far, one  *)
(* behind the other, and the part of the one being sent: although all of them share one buffer *)
(* and each write asks for the length of the whole packet from where the last one stopped, a   *)
(* success never has bytes behind the packet in it.                                            *)
THEOREM PacketsGoOutWhole == Spec => []OutWhole
<1>1. Init => TypeOK /\ OutWhole
  <2> SUFFICES ASSUME Init PROVE OutWhole
    BY InitTyped
  <2>1. done = <<>> /\ out = <<>> /\ SubSeq(job.bytes, 1, job.sent) = <<>>
    BY NothingSent DEF Init, NoJob
  <2>2. Concat[<<>>] = <<>>
    <3>1. <<>> \in Seq(Seq(Byte))
      OBVIOUS
    <3> QED
      BY <3>1, ConcatUnfolds, Zenon
  <2>3. <<>> \o <<>> = <<>>
    OBVIOUS
  <2> QED
    BY <2>1, <2>2, <2>3, Zenon DEF OutWhole
<1>2. TypeOK /\ OutWhole /\ [Next]_vars => TypeOK' /\ OutWhole'
  BY StepTyped, StepWhole
<1> QED
  BY <1>1, <1>2, PTL DEF Spec

-------------------------------------------------------------------------------
(* Packets in a row. *)

LEMMA ConcatJoin ==
  ASSUME NEW s \in Seq(Seq(Byte)), NEW t \in Seq(Seq(Byte))
  PROVE  Concat[s \o t] = Concat[s] \o Concat[t]
<1> DEFINE Joins(u) == Concat[s \o u] = Concat[s] \o Concat[u]
           S == {n \in Nat : \A u \in Seq(Seq(Byte)) : Len(u) = n => Joins(u)}
<1>1. 0 \in S
  <2> SUFFICES ASSUME NEW u \in Seq(Seq(Byte)), Len(u) = 0 PROVE Joins(u)
    OBVIOUS
  <2>1. u = <<>> /\ s \o u = s
    OBVIOUS
  <2>2. Concat[u] = <<>> /\ Concat[s] \in Seq(Byte)
    BY <2>1, ConcatUnfolds, Zenon
  <2>3. Concat[s] \o <<>> = Concat[s]
    BY <2>2, ConcatEmptySeq
  <2> QED
    BY <2>1, <2>2, <2>3, Zenon
<1>2. ASSUME NEW n \in S PROVE n + 1 \in S
  <2>0. n + 1 \in Nat
    <3> HIDE DEF Joins
    <3> QED
      OBVIOUS
  <2> SUFFICES ASSUME NEW u \in Seq(Seq(Byte)), Len(u) = n + 1 PROVE Joins(u)
    BY <2>0, Zenon
  <2> DEFINE f == Front(u)
             b == Last(u)
  <2>1. n \in Nat /\ u # <<>>
    OBVIOUS
  <2>2. f \in Seq(Seq(Byte)) /\ Len(f) = n /\ b \in Seq(Byte) /\ u = Append(f, b)
    <3>1. SubSeq(u, 1, Len(u) - 1) \in Seq(Seq(Byte)) /\ Len(SubSeq(u, 1, Len(u) - 1)) = n
      BY <2>1
    <3>2. u = Append(SubSeq(u, 1, Len(u) - 1), u[Len(u)])
      BY <2>1
    <3> QED
      BY <2>1, <3>1, <3>2 DEF Front, Last
  <2> HIDE DEF f, b
  <2>3. s \o u = Append(s \o f, b) /\ s \o f \in Seq(Seq(Byte))
    BY <2>2
  <2>4. Concat[s \o u] = Concat[s \o f] \o b /\ Concat[u] = Concat[f] \o b
    BY <2>2, <2>3, ConcatAppend
  <2>5. Joins(f)
    BY <2>1, <2>2
  <2>6. (Concat[s] \o Concat[f]) \o b = Concat[s] \o (Concat[f] \o b)
    <3>1. Concat[s] \in Seq(Byte) /\ Concat[f] \in Seq(Byte)
      BY <2>2, ConcatUnfolds, Zenon
    <3> QED
      BY <2>2, <3>1, Associative
  <2> QED
    BY <2>4, <2>5, <2>6, Zenon
<1>3. S \in SUBSET Nat
  OBVIOUS
<1> HIDE DEF S
<1>4. S = Nat
  BY <1>1, <1>2, <1>3, Induct
<1>5. Len(t) \in S
  BY <1>4
<1> QED
  BY <1>5 DEF S

LEMMA ConcatOne ==
  ASSUME NEW b \in Seq(Byte)
  PROVE  Concat[<<b>>] = b
<1>1. <<>> \in Seq(Seq(Byte)) /\ Append(<<>>, b) = <<b>>
  OBVIOUS
<1>2. Concat[Append(<<>>, b)] = Concat[<<>>] \o b
  BY <1>1, ConcatAppend
<1>3. Concat[<<>>] = <<>>
  BY <1>1, ConcatUnfolds, Zenon
<1>4. <<>> \o b = b
  OBVIOUS
<1> QED
  BY <1>1, <1>2, <1>3, <1>4, Zenon

(* The bytes of the packets of s behind the first m, up to the kth. *)
Wires(s, m, k) == [i \in 1..k - m |-> OnWire(s[m + i])]

LEMMA WiresTyped ==
  ASSUME NEW s \in Seq(BrokerPackets), NEW m \in Nat, NEW k \in Nat, m <= k, k <= Len(s)
  PROVE  /\ Wires(s, m, k) \in Seq(Seq(Byte)) /\ Len(Wires(s, m, k)) = k - m
         /\ Concat[Wires(s, m, k)] \in Seq(Byte)
<1>1. \A i \in 1..k - m : s[m + i] \in BrokerPackets
  OBVIOUS
<1>2. \A i \in 1..k - m : OnWire(s[m + i]) \in Seq(Byte)
  BY <1>1, OnWireTyped
<1>3. Wires(s, m, k) \in Seq(Seq(Byte)) /\ Len(Wires(s, m, k)) = k - m
  BY <1>2 DEF Wires
<1> QED
  BY <1>3, ConcatUnfolds, Zenon

LEMMA WiresJoin ==
  ASSUME NEW s \in Seq(BrokerPackets), NEW m \in Nat, NEW j \in Nat, NEW k \in Nat,
         m <= j, j <= k, k <= Len(s)
  PROVE  /\ Wires(s, m, k) = Wires(s, m, j) \o Wires(s, j, k)
         /\ Concat[Wires(s, m, k)] = Concat[Wires(s, m, j)] \o Concat[Wires(s, j, k)]
<1>1. /\ Wires(s, m, k) \in Seq(Seq(Byte)) /\ Len(Wires(s, m, k)) = k - m
      /\ Wires(s, m, j) \in Seq(Seq(Byte)) /\ Len(Wires(s, m, j)) = j - m
      /\ Wires(s, j, k) \in Seq(Seq(Byte)) /\ Len(Wires(s, j, k)) = k - j
  <2>1. m <= k /\ j <= Len(s)
    OBVIOUS
  <2> QED
    BY <2>1, WiresTyped
<1> DEFINE a == Wires(s, m, j)
           b == Wires(s, j, k)
           c == Wires(s, m, k)
<1>2. \A i \in 1..k - m : c[i] = IF i <= Len(a) THEN a[i] ELSE b[i - Len(a)]
  <2> SUFFICES ASSUME NEW i \in 1..k - m
               PROVE  c[i] = IF i <= j - m THEN a[i] ELSE b[i - (j - m)]
    BY <1>1
  <2>1. c[i] = OnWire(s[m + i])
    BY DEF Wires
  <2>2. CASE i <= j - m
    <3>1. i \in 1..j - m
      BY <2>2
    <3>2. a[i] = OnWire(s[m + i])
      BY <3>1 DEF Wires
    <3> QED
      BY <2>1, <2>2, <3>2
  <2>3. CASE ~(i <= j - m)
    <3>1. i - (j - m) \in 1..k - j /\ j + (i - (j - m)) = m + i
      BY <2>3
    <3>2. b[i - (j - m)] = OnWire(s[j + (i - (j - m))])
      BY <3>1 DEF Wires
    <3> QED
      BY <2>1, <2>3, <3>1, <3>2
  <2> QED
    BY <2>2, <2>3
<1> HIDE DEF a, b, c
<1>3. c = a \o b
  <2>0. /\ a \in Seq(Seq(Byte)) /\ b \in Seq(Seq(Byte)) /\ c \in Seq(Seq(Byte))
        /\ Len(a) = j - m /\ Len(b) = k - j /\ Len(c) = k - m
    BY <1>1 DEF a, b, c
  <2>1. /\ a \o b \in Seq(Seq(Byte)) /\ Len(a \o b) = Len(a) + Len(b)
        /\ \A i \in 1..Len(a) + Len(b) : (a \o b)[i] = IF i <= Len(a) THEN a[i] ELSE b[i - Len(a)]
    BY <2>0, ConcatProperties
  <2>2. Len(a) + Len(b) = k - m
    BY <2>0
  <2> DEFINE d == a \o b
  <2>3. d \in Seq(Seq(Byte)) /\ Len(d) = Len(c) /\ \A i \in 1..Len(c) : c[i] = d[i]
    BY <1>2, <2>0, <2>1, <2>2
  <2> HIDE DEF d
  <2>4. c = d
    BY <2>0, <2>3
  <2> QED
    BY <2>4 DEF d
<1> QED
  BY <1>1, <1>3, ConcatJoin DEF a, b, c

(* The first of them, and the others. *)
LEMMA WiresFirst ==
  ASSUME NEW s \in Seq(BrokerPackets), NEW m \in Nat, NEW k \in Nat, m < k, k <= Len(s)
  PROVE  /\ Concat[Wires(s, m, k)] = OnWire(s[m + 1]) \o Concat[Wires(s, m + 1, k)]
         /\ s[m + 1] \in BrokerPackets
<1>1. s[m + 1] \in BrokerPackets
  OBVIOUS
<1>2. OnWire(s[m + 1]) \in Seq(Byte)
  BY <1>1, OnWireTyped
<1>3. Wires(s, m, m + 1) = <<OnWire(s[m + 1])>>
  <2>1. (m + 1) - m = 1
    OBVIOUS
  <2> QED
    BY <2>1 DEF Wires
<1>4. Concat[Wires(s, m, k)] = Concat[Wires(s, m, m + 1)] \o Concat[Wires(s, m + 1, k)]
  <2>1. m + 1 \in Nat /\ m <= m + 1 /\ m + 1 <= k
    OBVIOUS
  <2> QED
    BY <2>1, WiresJoin
<1> QED
  BY <1>1, <1>2, <1>3, <1>4, ConcatOne, Zenon

LEMMA NoWires ==
  ASSUME NEW s, NEW m \in Nat
  PROVE  Wires(s, m, m) = <<>> /\ Concat[Wires(s, m, m)] = <<>>
<1>1. Wires(s, m, m) = <<>>
  BY DEF Wires
<1>2. <<>> \in Seq(Seq(Byte))
  OBVIOUS
<1> QED
  BY <1>1, <1>2, ConcatUnfolds, Zenon

-------------------------------------------------------------------------------
(* What the task takes from readbuf. *)

(* readbuf begins with the packet p and has room for it. *)
InReadbuf(p) ==
  /\ readbuf \in [1..BufSize -> Byte]
  /\ Holds(readbuf, 1, OnWire(p)) /\ Len(OnWire(p)) <= BufSize

(* Where the body body of a packet of type type is found. *)
Found(type, body) ==
  /\ PacketType = type
  /\ \A t \in DOMAIN msgTypes : IsType(readbuf, t) <=> t = type
  /\ BodyStart(readbuf) \in Nat \ {0} /\ BodyEnd(readbuf) = BodyStart(readbuf) + Len(body)
  /\ Len(body) \in Nat /\ BodyEnd(readbuf) <= BufSize + 1
  /\ Holds(readbuf, BodyStart(readbuf), body)
  /\ readbuf \in Seq(Byte) /\ Len(readbuf) = BufSize

LEMMA PacketFound ==
  ASSUME NEW p, NEW body, Written(p, body), p.type \in DOMAIN msgTypes, InReadbuf(p)
  PROVE  Found(p.type, body) /\ BodyEnd(readbuf) = Len(OnWire(p)) + 1
<1>1. PICK h \in Byte : Frames(OnWire(p), h, Len(body), body) /\ TypeBits(h) = msgTypes[p.type]
  BY Zenon DEF Written
<1>2. Holds(readbuf, 1, OnWire(p))
  BY DEF InReadbuf
<1>3. /\ readbuf[1] = h /\ BodyEnd(readbuf) = BodyStart(readbuf) + Len(body)
      /\ BodyEnd(readbuf) = Len(OnWire(p)) + 1 /\ Holds(readbuf, BodyStart(readbuf), body)
  BY <1>1, <1>2, FrameRead
<1>4. \A t \in DOMAIN msgTypes : IsType(readbuf, t) <=> t = p.type
  <2>1. TypeBits(readbuf[1]) = msgTypes[p.type]
    BY <1>1, <1>3, Zenon
  <2> QED
    BY <2>1, HeaderType, Zenon
<1>5. PacketType = p.type
  BY <1>4, Zenon DEF PacketType
<1>6. BodyStart(readbuf) \in Nat \ {0}
  BY BodyStartTyped
<1>7. Len(body) \in Nat
  BY <1>1, Zenon, FrameBytes
<1>8. readbuf \in Seq(Byte) /\ Len(readbuf) = BufSize
  BY Readbuf DEF InReadbuf
<1>9. BodyEnd(readbuf) <= BufSize + 1
  <2>1. Len(OnWire(p)) <= BufSize /\ BufSize \in Nat /\ Len(OnWire(p)) \in Nat
    <3>1. OnWire(p) \in Seq(Byte)
      BY <1>1, FrameBytes, Zenon
    <3> QED
      BY <3>1, Sizes DEF InReadbuf
  <2> QED
    BY <1>3, <2>1
<1> QED
  BY <1>3, <1>4, <1>5, <1>6, <1>7, <1>8, <1>9, Zenon DEF Found

LEMMA ConnackTaken ==
  ASSUME NEW p \in Connacks, InReadbuf(p)
  PROVE  Taken = p /\ PacketType = "CONNACK"
<1>1. p = [type |-> "CONNACK", rc |-> p.rc] /\ p.rc \in Byte /\ p.type = "CONNACK"
  BY DEF Connacks
<1> DEFINE body == <<0, p.rc>>
           at == BodyStart(readbuf)
<1>2. Found("CONNACK", body)
  BY <1>1, ConnackWritten, PacketFound, TypeNames
<1>3. PacketType = "CONNACK" /\ IsType(readbuf, "CONNACK")
  BY <1>2, TypeNames, Zenon DEF Found
<1>4. ~(BodyEnd(readbuf) - at < 2) /\ readbuf[at + 1] = p.rc
  <2>1. /\ Len(body) = 2 /\ body[2] = p.rc /\ at \in Nat \ {0}
        /\ BodyEnd(readbuf) = at + 2 /\ \A i \in 1..2 : readbuf[at + i - 1] = body[i]
    BY <1>2 DEF Found, Holds
  <2> HIDE DEF body, at
  <2>2. readbuf[at + 2 - 1] = body[2] /\ at + 2 - 1 = at + 1
    BY <2>1
  <2> QED
    BY <2>1, <2>2
<1>5. /\ MQTTDeserialize_connack(readbuf).read
      /\ MQTTDeserialize_connack(readbuf).connack_rc = p.rc
  <2>1. MQTTDeserialize_connack(readbuf)
          = [rc |-> 1, read |-> TRUE,
             sessionPresent |-> readbuf[at] \div 128, connack_rc |-> readbuf[at + 1]]
    BY <1>3, <1>4 DEF MQTTDeserialize_connack
  <2> QED
    BY <1>4, <2>1
<1>6. Taken = [type |-> "CONNACK", rc |-> p.rc]
  BY <1>3, <1>5 DEF Taken
<1> QED
  BY <1>1, <1>3, <1>6, Zenon

LEMMA PingrespTaken ==
  ASSUME NEW p \in Pingresps, InReadbuf(p)
  PROVE  Taken = p /\ PacketType = "PINGRESP"
<1>1. p = [type |-> "PINGRESP"] /\ p.type = "PINGRESP"
  BY DEF Pingresps
<1>2. PacketType = "PINGRESP"
  BY <1>1, PingrespWritten, PacketFound, TypeNames DEF Found
<1> QED
  BY <1>1, <1>2 DEF Taken

LEMMA AckTaken ==
  ASSUME NEW p \in Acks, InReadbuf(p)
  PROVE  /\ Taken = p /\ PacketType = p.type
         /\ MQTTDeserialize_ack(readbuf).rc = 1 /\ MQTTDeserialize_ack(readbuf).read
         /\ MQTTDeserialize_ack(readbuf).id = p.id
<1>1. /\ p = [type |-> p.type, id |-> p.id] /\ p.id \in Id
      /\ p.type \in {"PUBACK", "PUBREC", "PUBCOMP"}
  BY DEF Acks
<1> DEFINE body == writeInt64(p.id)
           at == BodyStart(readbuf)
<1>2. Found(p.type, body)
  <2>1. p.type \in DOMAIN msgTypes
    BY <1>1, TypeNames
  <2> QED
    BY <2>1, AckWritten, PacketFound
<1>3. /\ PacketType = p.type /\ at \in Nat \ {0} /\ BodyEnd(readbuf) = at + 8
      /\ BodyEnd(readbuf) <= BufSize + 1 /\ Holds(readbuf, at, body)
      /\ readbuf \in Seq(Byte) /\ Len(readbuf) = BufSize
  BY <1>1, <1>2, IdField, Zenon DEF Found
<1>4. at \in Nat /\ at + 7 <= Len(readbuf) /\ ~(BodyEnd(readbuf) - at < 2)
  <2> HIDE DEF at
  <2> QED
    BY <1>3, Sizes
<1>5. readInt64(readbuf, at) = p.id
  BY <1>1, <1>3, <1>4, ReadsId
<1>6. /\ MQTTDeserialize_ack(readbuf).rc = 1 /\ MQTTDeserialize_ack(readbuf).read
      /\ MQTTDeserialize_ack(readbuf).id = p.id
  <2>1. MQTTDeserialize_ack(readbuf)
          = [rc |-> 1, read |-> TRUE, type |-> TypeBits(readbuf[1]), dup |-> DupBit(readbuf[1]),
             id |-> readInt64(readbuf, at)]
    BY <1>4 DEF MQTTDeserialize_ack
  <2> QED
    BY <1>5, <2>1
<1>7. Taken = [type |-> p.type, id |-> p.id]
  BY <1>1, <1>3, <1>6 DEF Taken
<1> QED
  BY <1>1, <1>3, <1>6, <1>7, Zenon

(* Where the fields of a packet lie in a buffer of size bytes. *)
LEMMA CommandPlaces ==
  ASSUME NEW at \in Nat \ {0}, NEW n \in Nat, NEW end, NEW size \in Nat,
         end = at + (12 + n), end <= size + 1
  PROVE  /\ at \in Nat /\ at + 7 <= size /\ at + 9 <= size /\ at + 11 <= size
         /\ at + 8 \in Nat \ {0} /\ at + 10 \in Nat /\ at + 12 \in Nat \ {0}
         /\ (at + 12) + n - 1 <= size /\ (at + 12) + n - 1 \in Nat
OBVIOUS

LEMMA CommandTaken ==
  ASSUME NEW p \in Commands, InReadbuf(p)
  PROVE  Taken = p /\ PacketType = "PUBLISH2"
<1>1. /\ p = [type |-> "PUBLISH2", id |-> p.id, cmd |-> p.cmd, status |-> p.status,
              payload |-> p.payload]
      /\ p.type = "PUBLISH2" /\ p.id \in Id /\ p.cmd \in Byte /\ p.status \in Byte
      /\ p.payload \in Seq(Byte) /\ Len(p.payload) \in Word
  BY DEF Commands
<1> DEFINE at == BodyStart(readbuf)
           i == writeInt64(p.id)
           c == <<p.cmd, p.status>>
           l == writeInt(Len(p.payload))
<1>2. Found("PUBLISH2", CommandBody(p)) /\ Len(CommandBody(p)) = 12 + Len(p.payload)
  BY <1>1, CommandWritten, PacketFound, TypeNames
<1>3. /\ PacketType = "PUBLISH2" /\ IsType(readbuf, "PUBLISH2") /\ at \in Nat \ {0}
      /\ BodyEnd(readbuf) = at + (12 + Len(p.payload)) /\ BodyEnd(readbuf) <= BufSize + 1
      /\ Holds(readbuf, at, CommandBody(p)) /\ readbuf \in Seq(Byte) /\ Len(readbuf) = BufSize
  BY <1>2, TypeNames, Zenon DEF Found
<1>4. i \in Seq(Byte) /\ Len(i) = 8
  BY <1>1, IdField
<1>5. c \in Seq(Byte) /\ Len(c) = 2 /\ c[1] = p.cmd /\ c[2] = p.status
  BY <1>1
<1>6. l \in Seq(Byte) /\ Len(l) = 2 /\ Len(p.payload) \in Nat
  BY <1>1, IntField
<1>7. CommandBody(p) = i \o c \o l \o p.payload
  BY Zenon DEF CommandBody
<1>8. /\ at \in Nat /\ at + 7 <= Len(readbuf) /\ at + 9 <= Len(readbuf) /\ at + 11 <= Len(readbuf)
      /\ at + 8 \in Nat \ {0} /\ at + 10 \in Nat /\ at + 12 \in Nat \ {0}
      /\ (at + 12) + Len(p.payload) - 1 <= Len(readbuf)
      /\ (at + 12) + Len(p.payload) - 1 \in Nat
  <2>1. BufSize \in Nat
    BY Sizes
  <2> QED
    BY <1>3, <1>6, <2>1, CommandPlaces, Zenon
<1> HIDE DEF i, c, l
<1>9. /\ Holds(readbuf, at, i) /\ Holds(readbuf, at + 8, c) /\ Holds(readbuf, at + 10, l)
      /\ Holds(readbuf, at + 12, p.payload)
  <2>1. i \o c \in Seq(Byte) /\ Len(i \o c) = 10
    <3>1. i \o c \in Seq(Byte) /\ Len(i \o c) = Len(i) + Len(c)
      BY <1>4, <1>5, Joined, Zenon
    <3> QED
      BY <1>4, <1>5, <3>1
  <2>2. i \o c \o l \in Seq(Byte) /\ Len(i \o c \o l) = 12
    <3>1. i \o c \o l \in Seq(Byte) /\ Len(i \o c \o l) = Len(i \o c) + Len(l)
      BY <1>6, <2>1, Joined, Zenon
    <3> QED
      BY <1>6, <2>1, <3>1
  <2>3. Holds(readbuf, at, i \o c \o l \o p.payload)
    BY <1>3, <1>7, Zenon
  <2>4. Holds(readbuf, at, i \o c \o l) /\ Holds(readbuf, at + 12, p.payload)
    BY <1>1, <1>8, <2>2, <2>3, HoldsParts, Zenon
  <2>5. Holds(readbuf, at, i \o c) /\ Holds(readbuf, at + 10, l)
    BY <1>6, <1>8, <2>1, <2>4, HoldsParts, Zenon
  <2>6. Holds(readbuf, at, i) /\ Holds(readbuf, at + 8, c)
    BY <1>4, <1>5, <1>8, <2>5, HoldsParts, Zenon
  <2> QED
    BY <2>4, <2>5, <2>6, Zenon
<1>10. readInt64(readbuf, at) = p.id
  BY <1>1, <1>3, <1>8, <1>9, ReadsId, Zenon DEF i
<1>11. ByteAt(readbuf, at + 8) = p.cmd /\ ByteAt(readbuf, at + 8 + 1) = p.status
  <2> HIDE DEF at
  <2>1. \A k \in 1..2 : readbuf[at + 8 + k - 1] = c[k]
    BY <1>5, <1>9 DEF Holds
  <2>2. readbuf[at + 8] = p.cmd /\ readbuf[at + 8 + 1] = p.status
    BY <1>5, <1>8, <2>1
  <2>3. at + 8 <= Len(readbuf) /\ at + 8 + 1 <= Len(readbuf)
    BY <1>8
  <2> QED
    BY <2>2, <2>3 DEF ByteAt
<1>12. readInt(readbuf, at + 10) = Len(p.payload)
  <2> HIDE DEF at
  <2>1. at + 10 + 1 <= Len(readbuf)
    BY <1>8
  <2> QED
    BY <1>1, <1>3, <1>8, <1>9, <2>1, ReadsInt, Zenon DEF l
<1> DEFINE d == MQTTDeserialize_publish2(readbuf)
<1>13. /\ d.id = p.id /\ d.cmd = p.cmd /\ d.status = p.status
       /\ d.payload = at + 12 /\ d.payloadlen = Len(p.payload)
  <2>1. d = [rc |-> 1, read |-> TRUE, dup |-> DupBit(readbuf[1]), qos |-> QosBits(readbuf[1]),
             retained |-> RetainBit(readbuf[1]), id |-> readInt64(readbuf, at),
             cmd |-> ByteAt(readbuf, at + 8), status |-> ByteAt(readbuf, at + 8 + 1),
             payload |-> at + 8 + 4, payloadlen |-> readInt(readbuf, at + 8 + 2)]
    BY <1>3 DEF MQTTDeserialize_publish2
  <2>2. at + 8 + 4 = at + 12 /\ at + 8 + 2 = at + 10
    <3> HIDE DEF at
    <3> QED
      BY <1>8
  <2> QED
    BY <1>10, <1>11, <1>12, <2>1, <2>2
<1> HIDE DEF d
<1>14. Payload(d) = p.payload
  <2> HIDE DEF at
  <2>1. SubSeq(readbuf, at + 12, (at + 12) + Len(p.payload) - 1) = p.payload
    BY <1>1, <1>3, <1>8, <1>9, HeldString
  <2>2. Min({d.payload + d.payloadlen - 1, BufSize}) = (at + 12) + Len(p.payload) - 1
    <3>1. (at + 12) + Len(p.payload) - 1 \in Nat /\ (at + 12) + Len(p.payload) - 1 <= BufSize
      BY <1>3, <1>8, Zenon
    <3> QED
      BY <1>13, <3>1, Sizes, MinOfTwo
  <2> QED
    BY <1>13, <2>1, <2>2 DEF Payload
<1>15. Taken = [type |-> "PUBLISH2", id |-> p.id, cmd |-> p.cmd, status |-> p.status,
                payload |-> p.payload]
  BY <1>3, <1>13, <1>14 DEF Taken, d
<1> QED
  BY <1>1, <1>3, <1>15, Zenon

(* What MTK_cycle and messageArrived make of the PUBLISH p. *)
PublishRead(p) ==
  LET d == MQTTDeserialize_publish(readbuf)
  IN /\ d.rc = 1 /\ d.read /\ d.id = p.id /\ Handed(d) = p
     /\ d.payload + d.payloadlen = Len(OnWire(p)) + 1
     /\ QosBits(readbuf[1]) = p.qos
     /\ d.payload + d.payloadlen \in Nat \ {0}

LEMMA PublishTaken ==
  ASSUME NEW p \in Publishes, InReadbuf(p)
  PROVE  Taken = p /\ PacketType = "PUBLISH" /\ PublishRead(p)
<1>1. /\ p = [type |-> "PUBLISH", dup |-> p.dup, qos |-> p.qos, retained |-> p.retained,
              id |-> p.id, topic |-> p.topic, payload |-> p.payload]
      /\ p.type = "PUBLISH" /\ Len(p.topic) \in Word /\ (p.qos = 0 => p.id = NoId)
      /\ PublishFields(p)
  BY DEF Publishes, PublishFields
<1>2. /\ p.id \in Id /\ p.topic \in Seq(Byte) /\ p.payload \in Seq(Byte) /\ p.qos \in 0..2
      /\ Len(p.topic) \in Nat /\ Len(p.payload) \in Nat
  BY <1>1 DEF PublishFields
<1> DEFINE at == BodyStart(readbuf)
           t == writeMQTTString(p.topic)
           i == IF p.qos > 0 THEN writeInt64(p.id) ELSE <<>>
           next == at + 2 + Len(p.topic)
           body == next + IdLength(p.qos)
<1>3. /\ Found("PUBLISH", PublishBody(p)) /\ BodyEnd(readbuf) = Len(OnWire(p)) + 1
      /\ Len(PublishBody(p)) = 2 + Len(p.topic) + Len(p.payload) + IdLength(p.qos)
  <2>1. PublishLength(p) = 2 + Len(p.topic) + Len(p.payload) + IdLength(p.qos)
    BY DEF PublishLength, MQTTSerialize_publishLength
  <2> QED
    BY <1>1, <2>1, PublishWritten, PacketFound, TypeNames
<1>4. PICK h \in Byte : /\ Frames(OnWire(p), h, PublishLength(p), PublishBody(p))
                        /\ HeaderBits(h, "PUBLISH", p.dup, p.qos, p.retained)
  BY PublishWritten, Zenon
<1>5. /\ DupBit(readbuf[1]) = p.dup /\ QosBits(readbuf[1]) = p.qos
      /\ RetainBit(readbuf[1]) = p.retained
  <2>1. readbuf[1] = h
    BY <1>4, FrameRead DEF InReadbuf
  <2> QED
    BY <1>4, <2>1, Zenon DEF HeaderBits
<1>6. /\ PacketType = "PUBLISH" /\ IsType(readbuf, "PUBLISH") /\ at \in Nat \ {0}
      /\ BodyEnd(readbuf) = at + Len(PublishBody(p)) /\ BodyEnd(readbuf) <= BufSize + 1
      /\ Holds(readbuf, at, PublishBody(p)) /\ readbuf \in Seq(Byte) /\ Len(readbuf) = BufSize
  BY <1>3, TypeNames, Zenon DEF Found
<1>7. /\ t \in Seq(Byte) /\ Len(t) = 2 + Len(p.topic)
      /\ i \in Seq(Byte) /\ Len(i) = IdLength(p.qos) /\ IdLength(p.qos) \in Nat
  BY <1>1, PublishBodyBytes
<1>8. IdLength(p.qos) \in {0, 8} /\ (p.qos > 0 => IdLength(p.qos) = 8)
  BY DEF IdLength
<1>9. PublishBody(p) = t \o i \o p.payload
  BY Zenon DEF PublishBody
<1> HIDE DEF at, t, i
<1>10. /\ next = at + Len(t) /\ body = at + (Len(t) + Len(i)) /\ next \in Nat /\ at \in Nat
       /\ BodyEnd(readbuf) = body + Len(p.payload) /\ body \in Nat \ {0}
       /\ next <= BodyEnd(readbuf) /\ at + 1 + Len(p.topic) <= Len(readbuf)
       /\ body + Len(p.payload) - 1 <= Len(readbuf)
       /\ (p.qos > 0 => next + 7 <= Len(readbuf))
       /\ BodyEnd(readbuf) \in Nat \ {0} /\ body + (BodyEnd(readbuf) - body) = BodyEnd(readbuf)
       /\ body + Len(p.payload) - 1 \in Nat
  <2>1. /\ BodyEnd(readbuf) = at + (2 + Len(p.topic) + Len(p.payload) + IdLength(p.qos))
        /\ BodyEnd(readbuf) <= BufSize + 1 /\ BufSize \in Nat
    BY <1>3, <1>6, Sizes, Zenon
  <2>2. at \in Nat \ {0} /\ Len(readbuf) = BufSize
    BY <1>6, Zenon
  <2> QED
    <3>1. /\ next = at + (2 + Len(p.topic)) /\ body = at + ((2 + Len(p.topic)) + IdLength(p.qos))
          /\ next \in Nat /\ at \in Nat /\ BodyEnd(readbuf) = body + Len(p.payload)
          /\ body \in Nat \ {0} /\ next <= BodyEnd(readbuf) /\ at + 1 + Len(p.topic) <= BufSize
          /\ body + Len(p.payload) - 1 <= BufSize /\ body + Len(p.payload) - 1 \in Nat
          /\ (IdLength(p.qos) = 8 => next + 7 <= BufSize)
          /\ BodyEnd(readbuf) \in Nat \ {0}
          /\ body + (BodyEnd(readbuf) - body) = BodyEnd(readbuf)
      <4>1. next = at + 2 + Len(p.topic) /\ body = next + IdLength(p.qos)
        OBVIOUS
      <4> DEFINE topic == Len(p.topic)
                 n == Len(p.payload)
                 id == IdLength(p.qos)
                 end == BodyEnd(readbuf)
      <4>2. /\ at \in Nat \ {0} /\ topic \in Nat /\ n \in Nat /\ id \in {0, 8} /\ BufSize \in Nat
            /\ end = at + (2 + topic + n + id) /\ end <= BufSize + 1
            /\ next = at + 2 + topic /\ body = next + id
        BY <1>2, <1>8, <2>1, <2>2, <4>1
      <4> HIDE DEF next, body, topic, n, id, end
      <4>3. /\ next = at + (2 + topic) /\ body = at + ((2 + topic) + id)
            /\ next \in Nat /\ at \in Nat /\ end = body + n /\ body \in Nat \ {0}
            /\ next <= end /\ at + 1 + topic <= BufSize
            /\ body + n - 1 <= BufSize /\ body + n - 1 \in Nat
            /\ (id = 8 => next + 7 <= BufSize)
            /\ end \in Nat \ {0} /\ body + (end - body) = end
        BY <4>2
      <4> QED
        BY <4>3 DEF topic, n, id, end
    <3> HIDE DEF next, body
    <3> QED
      BY <1>7, <1>8, <2>2, <3>1, Zenon
<1> HIDE DEF next, body
<1>11. /\ Holds(readbuf, at, t) /\ Holds(readbuf, next, i) /\ Holds(readbuf, body, p.payload)
  <2>1. t \o i \in Seq(Byte) /\ Len(t \o i) = Len(t) + Len(i)
    BY <1>7, Joined, Zenon
  <2>2. Holds(readbuf, at, t \o i \o p.payload)
    BY <1>6, <1>9, Zenon
  <2>3. Holds(readbuf, at, t \o i) /\ Holds(readbuf, body, p.payload)
    BY <1>2, <1>10, <2>1, <2>2, HoldsParts, Zenon
  <2>4. Holds(readbuf, at, t) /\ Holds(readbuf, next, i)
    BY <1>7, <1>10, <2>3, HoldsParts, Zenon
  <2> QED
    BY <2>3, <2>4, Zenon
<1> DEFINE name == readMQTTLenString(readbuf, at, BodyEnd(readbuf))
<1>12. name = [ok |-> TRUE, data |-> p.topic, next |-> next]
  <2>1. /\ at + 2 + Len(p.topic) <= BodyEnd(readbuf) /\ at \in Nat \ {0}
        /\ BodyEnd(readbuf) \in Nat
    BY <1>6, <1>10, Zenon DEF next
  <2>2. Holds(readbuf, at, writeMQTTString(p.topic)) /\ at + 1 + Len(p.topic) <= Len(readbuf)
    BY <1>10, <1>11, Zenon DEF t
  <2>3. readMQTTLenString(readbuf, at, BodyEnd(readbuf))
          = [ok |-> TRUE, data |-> p.topic, next |-> at + 2 + Len(p.topic)]
    BY <1>1, <1>2, <1>6, <2>1, <2>2, ReadsString
  <2> QED
    BY <2>3, Zenon DEF next
<1> HIDE DEF name
<1>13. p.qos > 0 => readInt64(readbuf, next) = p.id
  <2> SUFFICES ASSUME p.qos > 0 PROVE readInt64(readbuf, next) = p.id
    OBVIOUS
  <2>1. Holds(readbuf, next, writeInt64(p.id)) /\ next + 7 <= Len(readbuf)
    BY <1>10, <1>11 DEF i
  <2> QED
    BY <1>2, <1>6, <1>10, <2>1, ReadsId
<1> DEFINE d == MQTTDeserialize_publish(readbuf)
<1>14. /\ d.rc = 1 /\ d.read /\ d.dup = p.dup /\ d.qos = p.qos /\ d.retained = p.retained /\ d.id = p.id
       /\ d.topicName = p.topic /\ d.payload = body /\ d.payloadlen = BodyEnd(readbuf) - body
  <2>1. d = [rc |-> 1, read |-> TRUE, dup |-> p.dup, qos |-> p.qos, retained |-> p.retained,
             id |-> IF p.qos > 0 THEN readInt64(readbuf, next) ELSE NoId,
             topicName |-> p.topic, payload |-> next + IdLength(p.qos),
             payloadlen |-> BodyEnd(readbuf) - (next + IdLength(p.qos))]
    <3>1. name.ok /\ name.data = p.topic /\ name.next = next
      BY <1>12
    <3>2. d = [rc |-> 1, read |-> TRUE, dup |-> DupBit(readbuf[1]), qos |-> QosBits(readbuf[1]),
               retained |-> RetainBit(readbuf[1]),
               id |-> IF QosBits(readbuf[1]) > 0 THEN readInt64(readbuf, name.next) ELSE NoId,
               topicName |-> name.data, payload |-> name.next + IdLength(QosBits(readbuf[1])),
               payloadlen |-> BodyEnd(readbuf) - (name.next + IdLength(QosBits(readbuf[1])))]
      BY <1>6, <3>1, Zenon DEF MQTTDeserialize_publish, name, at
    <3> QED
      BY <1>5, <3>1, <3>2, Zenon
  <2>2. (IF p.qos > 0 THEN readInt64(readbuf, next) ELSE NoId) = p.id
    BY <1>1, <1>2, <1>13
  <2> QED
    BY <2>1, <2>2 DEF body
<1> HIDE DEF d
<1>15. d.payload + d.payloadlen = BodyEnd(readbuf) /\ BodyEnd(readbuf) \in Nat \ {0}
  BY <1>10, <1>14, Zenon
<1>16. Payload(d) = p.payload
  <2>1. SubSeq(readbuf, body, body + Len(p.payload) - 1) = p.payload
    BY <1>2, <1>6, <1>10, <1>11, HeldString
  <2>2. Min({d.payload + d.payloadlen - 1, BufSize}) = body + Len(p.payload) - 1
    <3>1. body + Len(p.payload) - 1 \in Nat /\ body + Len(p.payload) - 1 <= BufSize
      BY <1>6, <1>10, Zenon
    <3>2. d.payload + d.payloadlen - 1 = body + Len(p.payload) - 1
      <4>1. /\ d.payload = body /\ d.payloadlen = BodyEnd(readbuf) - body
            /\ BodyEnd(readbuf) = body + Len(p.payload) /\ body \in Nat /\ Len(p.payload) \in Nat
        BY <1>2, <1>10, <1>14
      <4> QED
        BY <4>1
    <3> QED
      BY <3>1, <3>2, Sizes, MinOfTwo
  <2> QED
    BY <1>14, <2>1, <2>2 DEF Payload
<1>17. Taken = [type |-> "PUBLISH", dup |-> p.dup, qos |-> p.qos, retained |-> p.retained,
                id |-> p.id, topic |-> p.topic, payload |-> p.payload]
       /\ Handed(d) = Taken
  <2>1. Handed(d) = [type |-> "PUBLISH", dup |-> p.dup, qos |-> p.qos, retained |-> p.retained,
                     id |-> p.id, topic |-> p.topic, payload |-> p.payload]
    BY <1>14, <1>16 DEF Handed
  <2>2. Taken = Handed(d)
    BY <1>6, <1>14 DEF Taken, d
  <2> QED
    BY <2>1, <2>2, Zenon
<1>18. PublishRead(p)
  BY <1>1, <1>3, <1>5, <1>14, <1>15, <1>17, Zenon DEF PublishRead, d
<1> QED
  BY <1>1, <1>6, <1>17, <1>18, Zenon

-------------------------------------------------------------------------------
(* From the broker to the stack, if no packet is cut. *)

(* s has been sent, w of it is on the wire and r in the stack: r is rest, which belongs to the *)
(* first m packets, and the packets behind them that have arrived.                             *)
Line(rest, m, s, w, r) ==
  /\ Len(w) <= Len(s) /\ m <= Len(s) - Len(w)
  /\ r = rest \o Concat[Wires(s, m, Len(s) - Len(w))]
  /\ w = Wires(s, Len(s) - Len(w), Len(s))

LEMMA LineSends ==
  ASSUME NEW rest, NEW m \in Nat, NEW s \in Seq(BrokerPackets), NEW w \in Seq(Seq(Byte)), NEW r,
         Line(rest, m, s, w, r), NEW p \in BrokerPackets
  PROVE  Line(rest, m, Append(s, p), Append(w, OnWire(p)), r)
<1> DEFINE a == Len(s) - Len(w)
           s2 == Append(s, p)
           w2 == Append(w, OnWire(p))
<1>1. /\ Len(s) \in Nat /\ Len(w) \in Nat /\ a \in Nat /\ m <= a /\ a <= Len(s)
      /\ w = Wires(s, a, Len(s)) /\ r = rest \o Concat[Wires(s, m, a)]
  BY DEF Line
<1>2. OnWire(p) \in Seq(Byte)
  BY OnWireTyped
<1>3. /\ s2 \in Seq(BrokerPackets) /\ Len(s2) = Len(s) + 1 /\ s2[Len(s) + 1] = p
      /\ \A i \in 1..Len(s) : s2[i] = s[i]
  BY AppendProperties
<1>4. /\ w2 \in Seq(Seq(Byte)) /\ Len(w2) = Len(w) + 1 /\ w2[Len(w) + 1] = OnWire(p)
      /\ \A i \in 1..Len(w) : w2[i] = w[i]
  BY <1>2, AppendProperties
<1> HIDE DEF s2, w2
<1>5. Len(s2) - Len(w2) = a
  BY <1>1, <1>3, <1>4
<1> HIDE DEF a
<1>6. Wires(s2, m, a) = Wires(s, m, a)
  <2>1. ASSUME NEW i \in 1..a - m PROVE s2[m + i] = s[m + i]
    <3>1. m + i \in 1..Len(s)
      BY <1>1
    <3> QED
      BY <1>3, <3>1
  <2> QED
    BY <2>1 DEF Wires
<1>7. w2 = Wires(s2, a, Len(s2))
  <2>1. /\ Wires(s2, a, Len(s2)) \in Seq(Seq(Byte)) /\ Len(Wires(s2, a, Len(s2))) = Len(s2) - a
    <3>1. Len(s2) \in Nat /\ a <= Len(s2) /\ Len(s2) <= Len(s2)
      BY <1>1, <1>3
    <3> QED
      BY <1>1, <1>3, <3>1, WiresTyped, Zenon
  <2>2. Len(s2) - a = Len(w2) /\ Len(w2) = Len(w) + 1 /\ a + Len(w2) = Len(s) + 1 /\ Len(s) - a = Len(w)
    BY <1>1, <1>3, <1>4, <1>5
  <2>3. ASSUME NEW i \in 1..Len(w2) PROVE w2[i] = Wires(s2, a, Len(s2))[i]
    <3>1. Wires(s2, a, Len(s2))[i] = OnWire(s2[a + i])
      BY <2>2 DEF Wires
    <3>2. CASE i <= Len(w)
      <4>1. i \in 1..Len(w) /\ a + i \in 1..Len(s)
        BY <1>1, <2>2, <3>2
      <4>2. w[i] = OnWire(s[a + i])
        <5>1. i \in 1..Len(s) - a
          BY <2>2, <4>1
        <5> QED
          BY <1>1, <5>1 DEF Wires
      <4> QED
        BY <1>3, <1>4, <3>1, <4>1, <4>2
    <3>3. CASE ~(i <= Len(w))
      <4>1. i = Len(w) + 1 /\ a + i = Len(s) + 1
        <5>1. /\ Len(w) \in Nat /\ Len(w2) = Len(w) + 1 /\ a + Len(w2) = Len(s) + 1 /\ a \in Nat
              /\ Len(s) \in Nat /\ i \in 1..Len(w2) /\ ~(i <= Len(w))
          BY <1>1, <2>2, <3>3
        <5>2. i = Len(w) + 1
          BY <5>1
        <5> QED
          BY <5>1, <5>2
      <4> QED
        BY <1>3, <1>4, <3>1, <4>1
    <3> QED
      BY <3>2, <3>3
  <2> DEFINE v == Wires(s2, a, Len(s2))
  <2>4. v \in Seq(Seq(Byte)) /\ Len(v) = Len(w2) /\ \A i \in 1..Len(w2) : w2[i] = v[i]
    BY <2>1, <2>2, <2>3
  <2> HIDE DEF v
  <2>5. w2 = v
    BY <1>4, <2>4
  <2> QED
    BY <2>5 DEF v
<1>8. Len(w2) <= Len(s2) /\ m <= Len(s2) - Len(w2)
  BY <1>1, <1>3, <1>4, <1>5
<1>9. Line(rest, m, s2, w2, r)
  BY <1>1, <1>5, <1>6, <1>7, <1>8, Zenon DEF Line
<1> QED
  BY <1>9 DEF s2, w2

LEMMA SplitAgain ==
  ASSUME NEW S, NEW u \in Seq(S), NEW v \in Seq(S)
  PROVE  /\ SubSeq(u \o v, 1, Len(u)) = u
         /\ SubSeq(u \o v, Len(u) + 1, Len(u) + Len(v)) = v
OBVIOUS

Cuts(s, m, j, k) == m \in Nat /\ j \in Nat /\ k \in Nat /\ m <= j /\ j <= k /\ k <= Len(s)
Meets(s, m, j, k) ==
  /\ Wires(s, m, k) = Wires(s, m, j) \o Wires(s, j, k)
  /\ Concat[Wires(s, m, k)] = Concat[Wires(s, m, j)] \o Concat[Wires(s, j, k)]

LEMMA CutAnywhere ==
  ASSUME NEW s \in Seq(BrokerPackets), NEW m, NEW j, NEW k, Cuts(s, m, j, k)
  PROVE  Meets(s, m, j, k)
BY WiresJoin DEF Cuts, Meets

LEMMA LineArrives ==
  ASSUME NEW rest \in Seq(Byte), NEW m \in Nat, NEW s \in Seq(BrokerPackets),
         NEW w \in Seq(Seq(Byte)), NEW r, Line(rest, m, s, w, r), NEW n \in 1..Len(w)
  PROVE  Line(rest, m, s, SubSeq(w, n + 1, Len(w)), r \o Concat[SubSeq(w, 1, n)])
<1>1. PICK a \in Nat : a = Len(s) - Len(w)
  <2>1. Len(s) - Len(w) \in Nat
    BY DEF Line
  <2> QED
    BY <2>1, Zenon
<1>2. PICK k \in Nat : k = Len(s)
  OBVIOUS
<1>3. PICK j \in Nat : j = a + n
  <2>1. a + n \in Nat
    OBVIOUS
  <2> QED
    BY <2>1, Zenon
<1>4. /\ m <= a /\ a <= k /\ k <= Len(s) /\ w = Wires(s, a, k) /\ r = rest \o Concat[Wires(s, m, a)]
  BY <1>1, <1>2 DEF Line
<1>5. n \in Nat /\ Len(w) = k - a /\ a <= j /\ j <= k /\ m <= j /\ j - a = n /\ a <= Len(s) /\ j <= Len(s)
  BY <1>1, <1>2, <1>3, <1>4
<1> Cuts(s, a, j, k) /\ Cuts(s, m, a, j)
  BY <1>1, <1>2, <1>3, <1>4, <1>5, Zenon DEF Cuts
<1> Meets(s, a, j, k) /\ Meets(s, m, a, j)
  BY CutAnywhere, Zenon
<1>6. w = Wires(s, a, j) \o Wires(s, j, k)
  BY <1>4, Zenon DEF Meets
<1>7. PICK u \in Seq(Seq(Byte)) : u = Wires(s, a, j) /\ Len(u) = n /\ Concat[u] \in Seq(Byte)
  BY <1>4, <1>5, WiresTyped, Zenon
<1>8. PICK v \in Seq(Seq(Byte)) : v = Wires(s, j, k) /\ Len(v) = k - j
  BY <1>4, <1>5, WiresTyped, Zenon
<1>9. SubSeq(w, 1, n) = u /\ SubSeq(w, n + 1, Len(w)) = v
  <2>1. w = u \o v
    BY <1>6, <1>7, <1>8, Zenon
  <2>2. Len(w) = n + Len(v)
    BY <1>3, <1>5, <1>8
  <2>3. SubSeq(u \o v, 1, Len(u)) = u /\ SubSeq(u \o v, Len(u) + 1, Len(u) + Len(v)) = v
    BY SplitAgain, Zenon
  <2> QED
    BY <1>7, <2>1, <2>2, <2>3, Zenon
<1>10. r \o Concat[u] = rest \o Concat[Wires(s, m, j)]
  <2>1. Concat[Wires(s, m, a)] \in Seq(Byte)
    BY <1>4, <1>5, WiresTyped, Zenon
  <2>2. Concat[Wires(s, m, j)] = Concat[Wires(s, m, a)] \o Concat[Wires(s, a, j)]
    BY Zenon DEF Meets
  <2>3. (rest \o Concat[Wires(s, m, a)]) \o Concat[u] = rest \o (Concat[Wires(s, m, a)] \o Concat[u])
    BY <1>7, <2>1, Associative
  <2> QED
    BY <1>4, <1>7, <2>2, <2>3, Zenon
<1>11. Len(v) <= Len(s) /\ Len(s) - Len(v) = j
  BY <1>2, <1>5, <1>8
<1>12. Line(rest, m, s, v, r \o Concat[u])
  BY <1>2, <1>5, <1>8, <1>10, <1>11, Zenon DEF Line
<1> QED
  BY <1>9, <1>12, Zenon

(* The next packet, when there is something to read. *)
LEMMA LineNext ==
  ASSUME NEW m \in Nat, NEW s \in Seq(BrokerPackets), NEW w \in Seq(Seq(Byte)), NEW r,
         Line(<<>>, m, s, w, r), r # <<>>
  PROVE  m + 1 <= Len(s) /\ s[m + 1] \in BrokerPackets /\ Line(OnWire(s[m + 1]), m + 1, s, w, r)
<1> DEFINE a == Len(s) - Len(w)
           c == Concat[Wires(s, m, a)]
<1>1. /\ Len(s) \in Nat /\ Len(w) \in Nat /\ a \in Nat /\ m <= a /\ a <= Len(s)
      /\ w = Wires(s, a, Len(s)) /\ r = <<>> \o c /\ Len(w) <= Len(s)
  BY DEF Line
<1>2. c \in Seq(Byte)
  <2> HIDE DEF a
  <2> QED
    BY <1>1, WiresTyped
<1>3. r = c
  <2> HIDE DEF c
  <2> QED
    BY <1>1, <1>2
<1> HIDE DEF a
<1>4. m # a
  BY <1>3, NoWires
<1>5. m < a /\ m + 1 <= a /\ m + 1 <= Len(s)
  BY <1>1, <1>4
<1>6. c = OnWire(s[m + 1]) \o Concat[Wires(s, m + 1, a)] /\ s[m + 1] \in BrokerPackets
  BY <1>1, <1>5, WiresFirst
<1> QED
  BY <1>1, <1>3, <1>5, <1>6, Zenon DEF Line, a

LEMMA LineTyped ==
  ASSUME NEW rest \in Seq(Byte), NEW m \in Nat, NEW s \in Seq(BrokerPackets),
         NEW w \in Seq(Seq(Byte)), NEW r, Line(rest, m, s, w, r)
  PROVE  /\ m <= Len(s)
         /\ \E c \in Seq(Byte) : r = rest \o c /\ Concat[Wires(s, m, Len(s) - Len(w))] = c
<1> DEFINE a == Len(s) - Len(w)
<1>1. /\ Len(s) \in Nat /\ Len(w) \in Nat /\ a \in Nat /\ m <= a /\ a <= Len(s)
      /\ r = rest \o Concat[Wires(s, m, a)]
  BY DEF Line
<1> HIDE DEF a
<1>2. Concat[Wires(s, m, a)] \in Seq(Byte)
  BY <1>1, WiresTyped
<1>3. m <= Len(s)
  BY <1>1
<1> QED
  BY <1>1, <1>2, <1>3 DEF a

(* A read of one byte, and a read of all that is left of a packet. *)
LEMMA LineByte ==
  ASSUME NEW rest \in Seq(Byte), NEW m \in Nat, NEW s \in Seq(BrokerPackets),
         NEW w \in Seq(Seq(Byte)), NEW r, Line(rest, m, s, w, r), rest # <<>>
  PROVE  r # <<>> /\ Head(r) = Head(rest) /\ Line(Tail(rest), m, s, w, Tail(r))
<1>1. PICK c \in Seq(Byte) : r = rest \o c /\ Concat[Wires(s, m, Len(s) - Len(w))] = c
  BY LineTyped
<1>2. /\ rest \o c # <<>> /\ Head(rest \o c) = Head(rest) /\ Tail(rest \o c) = Tail(rest) \o c
  OBVIOUS
<1> QED
  BY <1>1, <1>2, Zenon DEF Line

LEMMA LineRest ==
  ASSUME NEW rest \in Seq(Byte), NEW m \in Nat, NEW s \in Seq(BrokerPackets),
         NEW w \in Seq(Seq(Byte)), NEW r, Line(rest, m, s, w, r)
  PROVE  /\ Len(rest) <= Len(r) /\ SubSeq(r, 1, Len(rest)) = rest
         /\ Line(<<>>, m, s, w, SubSeq(r, Len(rest) + 1, Len(r)))
<1>1. PICK c \in Seq(Byte) : r = rest \o c /\ Concat[Wires(s, m, Len(s) - Len(w))] = c
  BY LineTyped
<1>2. /\ Len(rest \o c) = Len(rest) + Len(c) /\ SubSeq(rest \o c, 1, Len(rest)) = rest
      /\ SubSeq(rest \o c, Len(rest) + 1, Len(rest) + Len(c)) = c
  OBVIOUS
<1>3. Len(rest) <= Len(r)
  BY <1>1, <1>2
<1>4. <<>> \o c = c
  OBVIOUS
<1> QED
  BY <1>1, <1>2, <1>3, <1>4, Zenon DEF Line

-------------------------------------------------------------------------------
(* The remaining length, digit by digit. *)

(* What the first d digits of e stand for. *)
Partial(e, d) ==
  (IF d < 1 THEN 0 ELSE e[1] % 128) + (IF d < 2 THEN 0 ELSE (e[2] % 128) * 128)
    + (IF d < 3 THEN 0 ELSE (e[3] % 128) * (128 * 128))
    + (IF d < 4 THEN 0 ELSE (e[4] % 128) * (128 * 128 * 128))

LEMMA PartialNone == ASSUME NEW e PROVE Partial(e, 0) = 0
BY DEF Partial

LEMMA PartialStep ==
  ASSUME NEW e \in Seq(Byte), NEW d \in 0..3, d < Len(e)
  PROVE  Partial(e, d + 1) = Partial(e, d) + (e[d + 1] % 128) * multiplier[d + 1]
<1>1. \A i \in 1..d + 1 : e[i] % 128 \in Nat
  <2>1. \A i \in 1..d + 1 : e[i] \in Byte
    OBVIOUS
  <2> QED
    BY <2>1, Bytes
<1>2. /\ multiplier[1] = 1 /\ multiplier[2] = 128 /\ multiplier[3] = 128 * 128
      /\ multiplier[4] = 128 * 128 * 128
  BY SMT DEF multiplier
<1>3. CASE d = 0
  BY <1>1, <1>2, <1>3 DEF Partial
<1>4. CASE d = 1
  BY <1>1, <1>2, <1>4 DEF Partial
<1>5. CASE d = 2
  BY <1>1, <1>2, <1>5 DEF Partial
<1>6. CASE d = 3
  BY <1>1, <1>2, <1>6 DEF Partial
<1> QED
  BY <1>3, <1>4, <1>5, <1>6

LEMMA PartialAll ==
  ASSUME NEW e, NEW n, Shape(e, n)
  PROVE  Partial(e, Len(e)) = n
BY DEF Shape, Partial

LEMMA DigitsLeft ==
  ASSUME NEW e \in Seq(Byte), NEW body \in Seq(Byte), NEW d \in Nat, d < Len(e)
  PROVE  LET rest == SubSeq(e, d + 1, Len(e)) \o body
         IN /\ rest \in Seq(Byte) /\ rest # <<>> /\ Head(rest) = e[d + 1]
            /\ Tail(rest) = SubSeq(e, (d + 1) + 1, Len(e)) \o body
<1> DEFINE u == SubSeq(e, d + 1, Len(e))
<1>1. u \in Seq(Byte) /\ u # <<>> /\ Head(u) = e[d + 1] /\ Tail(u) = SubSeq(e, (d + 1) + 1, Len(e))
  <2>1. d + 1 \in Nat \ {0} /\ Len(e) \in Nat /\ Len(e) <= Len(e)
    OBVIOUS
  <2>2. u \in Seq(Byte)
    BY <2>1, Piece
  <2>3. Len(u) = Len(e) - d /\ \A i \in 1..Len(e) - d : u[i] = e[d + i]
    OBVIOUS
  <2>4. Head(u) = e[d + 1]
    BY <2>3
  <2>5. Tail(u) = SubSeq(e, (d + 1) + 1, Len(e))
    OBVIOUS
  <2>6. u # <<>>
    <3> HIDE DEF u
    <3> QED
      BY <2>3
  <2> QED
    BY <2>2, <2>4, <2>5, <2>6, Zenon
<1> HIDE DEF u
<1>2. u \o body \in Seq(Byte) /\ u \o body # <<>> /\ Head(u \o body) = Head(u)
      /\ Tail(u \o body) = Tail(u) \o body
  BY <1>1
<1> QED
  BY <1>1, <1>2 DEF u

LEMMA AllDigitsLeft ==
  ASSUME NEW e \in Seq(Byte), NEW body \in Seq(Byte)
  PROVE  SubSeq(e, 1, Len(e)) \o body = e \o body /\ SubSeq(e, Len(e) + 1, Len(e)) \o body = body
<1>1. SubSeq(e, 1, Len(e)) = e /\ SubSeq(e, Len(e) + 1, Len(e)) = <<>> /\ <<>> \o body = body
  OBVIOUS
<1> QED
  BY <1>1, Zenon

-------------------------------------------------------------------------------
(* The reader. *)

(* The task is not in the middle of a packet of the broker. *)
Between(c, for) ==
  c \in {"idle", "header", "closed", "past pubMsg"} \/ (c = "send" /\ for \in {"own", "report", "keepalive"})

(* In the middle of p: rest of it has not been read. *)
Middle(c, for, buf, rm, p, rest) ==
  CASE c = "length" ->
         \E h, n, body :
           /\ Frames(OnWire(p), h, n, body) /\ buf[1] = h
           /\ rm.digits < Len(MQTTPacket_encode[n])
           /\ rm.value = Partial(MQTTPacket_encode[n], rm.digits)
           /\ rest = SubSeq(MQTTPacket_encode[n], rm.digits + 1, Len(MQTTPacket_encode[n])) \o body
    [] c = "body" -> \E h : Frames(OnWire(p), h, rm.value, rest) /\ buf[1] = h
    [] c = "past readbuf" -> rest = <<>> /\ Len(OnWire(p)) >= BufSize
    [] OTHER -> /\ rest = <<>>
                /\ Holds(buf, 1, OnWire(p)) /\ Len(OnWire(p)) <= BufSize
                /\ c = "arrived" => p.type = "PUBLISH"
                /\ c = "send" => p.type = for /\ Answers(p)

(* m packets have been taken, and where the task and the packets behind them are. *)
Reader(c, for, m, s, w, r, buf, rm) ==
  IF Between(c, for) THEN Line(<<>>, m, s, w, r)
  ELSE /\ m < Len(s)
       /\ \E rest \in Seq(Byte) :
            Middle(c, for, buf, rm, s[m + 1], rest) /\ Line(rest, m + 1, s, w, r)

(* The invariant of the reader. *)
ReadInv ==
  whole => /\ got \in Seq(BrokerPackets \cup {PutAside})
           /\ Reader(pc, job.for, Len(got), sent, wire, rx, readbuf, rem)

LEMMA ReaderSends ==
  ASSUME NEW c, NEW for, NEW m \in Nat, NEW s \in Seq(BrokerPackets), NEW w \in Seq(Seq(Byte)),
         NEW r, NEW buf, NEW rm, Reader(c, for, m, s, w, r, buf, rm), NEW p \in BrokerPackets
  PROVE  Reader(c, for, m, Append(s, p), Append(w, OnWire(p)), r, buf, rm)
<1> DEFINE s2 == Append(s, p)
           w2 == Append(w, OnWire(p))
<1>1. CASE Between(c, for)
  <2>1. Line(<<>>, m, s, w, r)
    BY <1>1, Zenon DEF Reader
  <2>2. Line(<<>>, m, s2, w2, r)
    BY <2>1, LineSends, Zenon
  <2> QED
    BY <1>1, <2>2, Zenon DEF Reader
<1>2. CASE ~Between(c, for)
  <2>1. PICK rest \in Seq(Byte) :
          /\ m < Len(s) /\ Middle(c, for, buf, rm, s[m + 1], rest) /\ Line(rest, m + 1, s, w, r)
    BY <1>2, Zenon DEF Reader
  <2>2. m + 1 \in Nat /\ m < Len(s2) /\ s2[m + 1] = s[m + 1]
    BY <2>1, AppendProperties
  <2>3. Line(rest, m + 1, s2, w2, r)
    BY <2>1, <2>2, LineSends, Zenon
  <2> HIDE DEF s2, w2
  <2>4. Reader(c, for, m, s2, w2, r, buf, rm)
    BY <1>2, <2>1, <2>2, <2>3, Zenon DEF Reader
  <2> QED
    BY <2>4 DEF s2, w2
<1> QED
  BY <1>1, <1>2

LEMMA ReaderArrives ==
  ASSUME NEW c, NEW for, NEW m \in Nat, NEW s \in Seq(BrokerPackets), NEW w \in Seq(Seq(Byte)),
         NEW r, NEW buf, NEW rm, Reader(c, for, m, s, w, r, buf, rm), NEW n \in 1..Len(w)
  PROVE  Reader(c, for, m, s, SubSeq(w, n + 1, Len(w)), r \o Concat[SubSeq(w, 1, n)], buf, rm)
<1> DEFINE w2 == SubSeq(w, n + 1, Len(w))
           r2 == r \o Concat[SubSeq(w, 1, n)]
<1>1. CASE Between(c, for)
  <2>1. Line(<<>>, m, s, w, r)
    BY <1>1, Zenon DEF Reader
  <2>2. <<>> \in Seq(Byte)
    OBVIOUS
  <2>3. Line(<<>>, m, s, w2, r2)
    BY <2>1, <2>2, LineArrives, Zenon
  <2> QED
    BY <1>1, <2>3, Zenon DEF Reader
<1>2. CASE ~Between(c, for)
  <2>1. PICK rest \in Seq(Byte) :
          /\ m < Len(s) /\ Middle(c, for, buf, rm, s[m + 1], rest) /\ Line(rest, m + 1, s, w, r)
    BY <1>2, Zenon DEF Reader
  <2>2. m + 1 \in Nat
    OBVIOUS
  <2>3. Line(rest, m + 1, s, w2, r2)
    BY <2>1, <2>2, LineArrives, Zenon
  <2> HIDE DEF w2, r2
  <2>4. Reader(c, for, m, s, w2, r2, buf, rm)
    BY <1>2, <2>1, <2>3, Zenon DEF Reader
  <2> QED
    BY <2>4 DEF w2, r2
<1> QED
  BY <1>1, <1>2

(* A packet has one to four digits. *)
LEMMA DigitCount ==
  /\ \A k \in 1..4 : 0 < k
  /\ \A k \in 1..4, d \in 0..4 :
       d < k => /\ d \in 0..3 /\ d \in Nat /\ d # 4 /\ d + 1 \in 1..4 /\ k \in Nat
                /\ d + 1 < k \/ d + 1 = k
OBVIOUS

(* The first byte of the next packet is read. *)
LEMMA HeaderRead ==
  ASSUME NEW for, NEW m \in Nat, NEW s \in Seq(BrokerPackets), NEW w \in Seq(Seq(Byte)), NEW r,
         Line(<<>>, m, s, w, r), r # <<>>, NEW buf \in [1..BufSize -> Byte]
  PROVE  Reader("length", for, m, s, w, Tail(r), [buf EXCEPT ![1] = Head(r)],
                [value |-> 0, digits |-> 0])
<1> DEFINE p == s[m + 1]
           buf2 == [buf EXCEPT ![1] = Head(r)]
           rm2 == [value |-> 0, digits |-> 0]
<1>1. m + 1 <= Len(s) /\ p \in BrokerPackets /\ Line(OnWire(p), m + 1, s, w, r)
  BY LineNext
<1> HIDE DEF p
<1>2. OnWire(p) \in Seq(Byte) /\ OnWire(p) # <<>>
  BY <1>1, OnWireTyped
<1>3. PICK h, n, body : Frames(OnWire(p), h, n, body)
  <2>1. p \in Connacks \/ p \in Pingresps \/ p \in Acks \/ p \in Publishes \/ p \in Commands
    BY <1>1, StreamAssumption DEF Packet
  <2>2. PICK body : Written(p, body)
    BY <2>1, ConnackWritten, PingrespWritten, AckWritten, PublishWritten, CommandWritten, Zenon
  <2> QED
    BY <2>2, Zenon DEF Written
<1> DEFINE e == MQTTPacket_encode[n]
<1>4. /\ h \in Byte /\ body \in Seq(Byte) /\ OnWire(p) = <<h>> \o e \o body
      /\ e \in Seq(Byte) /\ Len(e) \in 1..4
  <2>1. h \in Byte /\ n \in Lengths /\ body \in Seq(Byte) /\ OnWire(p) = <<h>> \o e \o body
    BY <1>3, Zenon DEF Frames
  <2> QED
    BY <2>1, EncodeShape, Zenon DEF Shape
<1> DEFINE rest == SubSeq(e, 1, Len(e)) \o body
<1>5. Head(OnWire(p)) = h /\ Tail(OnWire(p)) = rest /\ rest \in Seq(Byte)
  <2> HIDE DEF e
  <2>1. /\ Head(<<h>> \o (e \o body)) = h /\ Tail(<<h>> \o (e \o body)) = e \o body
        /\ e \o body \in Seq(Byte)
    BY <1>4
  <2>2. (<<h>> \o e) \o body = <<h>> \o (e \o body)
    <3>1. <<h>> \in Seq(Byte)
      BY <1>4
    <3> QED
      BY <1>4, <3>1, Associative, Zenon
  <2>3. rest = e \o body
    BY <1>4, AllDigitsLeft, Zenon
  <2> QED
    BY <1>4, <2>1, <2>2, <2>3, Zenon
<1>6. m + 1 \in Nat
  OBVIOUS
<1>7. Head(r) = h /\ Line(rest, m + 1, s, w, Tail(r))
  <2> HIDE DEF rest
  <2> QED
    BY <1>1, <1>2, <1>5, <1>6, LineByte, Zenon
<1>8. buf2[1] = h
  BY <1>7, Sizes
<1>9. Middle("length", for, buf2, rm2, p, rest)
  <2>1. rm2.digits = 0 /\ rm2.value = 0 /\ rm2.digits < Len(e) /\ rm2.digits + 1 = 1
    <3>1. rm2.digits = 0 /\ rm2.value = 0 /\ 0 + 1 = 1
      OBVIOUS
    <3>2. 0 < Len(e)
      BY <1>4, DigitCount, Zenon
    <3> QED
      BY <3>1, <3>2, Zenon
  <2>2. rm2.value = Partial(e, rm2.digits)
    BY <2>1, PartialNone, Zenon
  <2>3. rest = SubSeq(e, rm2.digits + 1, Len(e)) \o body
    BY <2>1, Zenon
  <2> HIDE DEF buf2, rm2, rest
  <2> QED
    BY <1>3, <1>8, <2>1, <2>2, <2>3, Zenon DEF Middle
<1>10. ~Between("length", for)
  BY DEF Between
<1>11. m < Len(s)
  BY <1>1
<1> HIDE DEF buf2, rm2, rest
<1>12. Reader("length", for, m, s, w, Tail(r), buf2, rm2)
  BY <1>5, <1>7, <1>9, <1>10, <1>11, Zenon DEF Reader, p
<1> QED
  BY <1>12 DEF buf2, rm2

(* The next digit of the remaining length is there; no more than four are asked for. *)
LEMMA DigitRead ==
  ASSUME NEW for, NEW m \in Nat, NEW s \in Seq(BrokerPackets), NEW w \in Seq(Seq(Byte)), NEW r,
         NEW buf, NEW rm, Reader("length", for, m, s, w, r, buf, rm), rm.digits \in 0..4
  PROVE  /\ r # <<>> /\ rm.digits # 4
         /\ Reader(IF Head(r) >= 128 THEN "length" ELSE "body", for, m, s, w, Tail(r), buf,
                   [value |-> rm.value + (Head(r) % 128) * multiplier[rm.digits + 1],
                    digits |-> rm.digits + 1])
<1> DEFINE p == s[m + 1]
           d == rm.digits
           rm2 == [value |-> rm.value + (Head(r) % 128) * multiplier[d + 1], digits |-> d + 1]
           c2 == IF Head(r) >= 128 THEN "length" ELSE "body"
<1>1. ~Between("length", for) /\ ~Between("body", for)
  BY DEF Between
<1>2. PICK rest \in Seq(Byte) :
        /\ m < Len(s) /\ Middle("length", for, buf, rm, p, rest) /\ Line(rest, m + 1, s, w, r)
  BY <1>1, Zenon DEF Reader
<1> HIDE DEF p
<1>3. PICK h, n, body :
        /\ Frames(OnWire(p), h, n, body) /\ buf[1] = h
        /\ rm.digits < Len(MQTTPacket_encode[n])
        /\ rm.value = Partial(MQTTPacket_encode[n], rm.digits)
        /\ rest = SubSeq(MQTTPacket_encode[n], rm.digits + 1, Len(MQTTPacket_encode[n])) \o body
  BY <1>2, Zenon DEF Middle
<1> DEFINE e == MQTTPacket_encode[n]
<1>4. /\ n \in Lengths /\ body \in Seq(Byte) /\ Len(body) = n /\ Shape(e, n)
      /\ e \in Seq(Byte) /\ Len(e) \in 1..4 /\ e[Len(e)] \in Last7
      /\ \A i \in 1..4 : i < Len(e) => e[i] \in More
  <2>1. n \in Lengths /\ body \in Seq(Byte) /\ Len(body) = n
    BY <1>3, Zenon DEF Frames
  <2> QED
    BY <2>1, EncodeShape, Zenon DEF Shape
<1>5. d < Len(e) /\ rm.value = Partial(e, d) /\ rest = SubSeq(e, d + 1, Len(e)) \o body
  BY <1>3, Zenon
<1> HIDE DEF e, d
<1>6. /\ d \in 0..3 /\ d \in Nat /\ d # 4 /\ d + 1 \in 1..4
      /\ d + 1 < Len(e) \/ d + 1 = Len(e)
  <2>1. d \in 0..4
    BY Zenon DEF d
  <2> QED
    BY <1>4, <1>5, <2>1, DigitCount, Zenon
<1>7. /\ rest # <<>> /\ Head(rest) = e[d + 1]
      /\ Tail(rest) = SubSeq(e, (d + 1) + 1, Len(e)) \o body /\ Tail(rest) \in Seq(Byte)
  <2>1. rest \in Seq(Byte) /\ rest # <<>> => Tail(rest) \in Seq(Byte)
    OBVIOUS
  <2> QED
    BY <1>4, <1>5, <1>6, <2>1, DigitsLeft, Zenon
<1>8. r # <<>> /\ Head(r) = e[d + 1] /\ Line(Tail(rest), m + 1, s, w, Tail(r))
  <2>1. m + 1 \in Nat
    OBVIOUS
  <2> QED
    BY <1>2, <1>7, <2>1, LineByte, Zenon
<1>9. rm2.digits = d + 1 /\ rm2.value = Partial(e, d + 1)
  <2>1. Partial(e, d + 1) = Partial(e, d) + (e[d + 1] % 128) * multiplier[d + 1]
    BY <1>4, <1>5, <1>6, PartialStep, Zenon
  <2>2. rm2.digits = d + 1 /\ rm2.value = rm.value + (Head(r) % 128) * multiplier[d + 1]
    OBVIOUS
  <2> HIDE DEF rm2
  <2> QED
    BY <1>5, <1>8, <2>1, <2>2, Zenon
<1> HIDE DEF rm2
<1>10. \A a \in More : a >= 128
  BY DEF More
<1>11. \A a \in Last7 : ~(a >= 128)
  BY DEF Last7
<1>12. ASSUME d + 1 < Len(e) PROVE Reader(c2, for, m, s, w, Tail(r), buf, rm2)
  <2>1. c2 = "length"
    BY <1>4, <1>6, <1>8, <1>10, <1>12
  <2>2. Middle("length", for, buf, rm2, p, Tail(rest))
    BY <1>3, <1>7, <1>9, <1>12, Zenon DEF Middle, e
  <2> HIDE DEF c2
  <2> QED
    BY <1>1, <1>2, <1>7, <1>8, <2>1, <2>2, Zenon DEF Reader, p
<1>13. ASSUME d + 1 = Len(e) PROVE Reader(c2, for, m, s, w, Tail(r), buf, rm2)
  <2>1. c2 = "body"
    <3>1. e[d + 1] \in Last7
      BY <1>4, <1>13, Zenon
    <3> QED
      BY <1>8, <1>11, <3>1
  <2>2. rm2.value = n
    BY <1>4, <1>9, <1>13, PartialAll, Zenon
  <2>3. Tail(rest) = body
    BY <1>4, <1>7, <1>13, AllDigitsLeft, Zenon
  <2>4. Middle("body", for, buf, rm2, p, Tail(rest))
    <3>1. Frames(OnWire(p), h, rm2.value, Tail(rest)) /\ buf[1] = h
      BY <1>3, <2>2, <2>3, Zenon
    <3>2. "body" # "length"
      OBVIOUS
    <3> QED
      BY <3>1, <3>2, Zenon DEF Middle
  <2> HIDE DEF c2
  <2> QED
    BY <1>1, <1>2, <1>7, <1>8, <2>1, <2>4, Zenon DEF Reader, p
<1> HIDE DEF c2
<1>14. Reader(c2, for, m, s, w, Tail(r), buf, rm2)
  BY <1>6, <1>12, <1>13, Zenon
<1> QED
  BY <1>6, <1>8, <1>14, Zenon DEF c2, rm2, d

LEMMA OverwriteHolds ==
  ASSUME NEW bytes \in Seq(Byte), NEW buf \in Seq(Byte), NEW h \in Byte, buf[1] = h,
         1 + Len(bytes) <= Len(buf)
  PROVE  Holds(Overwrite(buf, 2, bytes), 1, <<h>> \o bytes)
<1> DEFINE all == <<h>> \o bytes
<1>1. /\ Len(all) = 1 + Len(bytes) /\ all[1] = h
      /\ \A i \in 2..1 + Len(bytes) : all[i] = bytes[i - 1]
  OBVIOUS
<1> HIDE DEF all
<1>2. ASSUME NEW i \in 1..1 + Len(bytes) PROVE Overwrite(buf, 2, bytes)[1 + i - 1] = all[i]
  <2>1. 1 + i - 1 = i /\ i \in 1..Len(buf)
    OBVIOUS
  <2>2. Overwrite(buf, 2, bytes)[i]
          = IF i - 2 \in 0..Len(bytes) - 1 THEN bytes[i - 2 + 1] ELSE buf[i]
    BY <2>1 DEF Overwrite
  <2>3. CASE i = 1
    BY <1>1, <2>2, <2>3
  <2>4. CASE i # 1
    <3>1. i - 2 \in 0..Len(bytes) - 1 /\ i - 2 + 1 = i - 1 /\ i \in 2..1 + Len(bytes)
      BY <2>4
    <3> QED
      BY <1>1, <2>1, <2>2, <3>1
  <2> QED
    BY <2>3, <2>4
<1>3. Holds(Overwrite(buf, 2, bytes), 1, all)
  BY <1>1, <1>2 DEF Holds
<1> QED
  BY <1>3 DEF all

(* The one read finds the whole rest. *)
LEMMA BodyRead ==
  ASSUME NEW for, NEW m \in Nat, NEW s \in Seq(BrokerPackets), NEW w \in Seq(Seq(Byte)),
         NEW r \in Seq(Byte), NEW buf \in [1..BufSize -> Byte], NEW rm,
         Reader("body", for, m, s, w, r, buf, rm), rm.value \in Nat
  PROVE  LET e == MQTTPacket_encode[rm.value]
             n == Min({rm.value, Len(r)})
         IN /\ n = rm.value
            /\ Reader(IF 1 + Len(e) + n > BufSize THEN "past readbuf" ELSE "dispatch",
                      for, m, s, w, SubSeq(r, n + 1, Len(r)),
                      Overwrite(buf, 2, e \o SubSeq(r, 1, n)), rm)
<1> DEFINE p == s[m + 1]
           v == rm.value
           e == MQTTPacket_encode[v]
           n == Min({v, Len(r)})
           buf2 == Overwrite(buf, 2, e \o SubSeq(r, 1, n))
           c2 == IF 1 + Len(e) + n > BufSize THEN "past readbuf" ELSE "dispatch"
<1>1. ~Between("body", for) /\ ~Between("past readbuf", for) /\ ~Between("dispatch", for)
  BY DEF Between
<1>2. PICK rest \in Seq(Byte) :
        /\ m < Len(s) /\ Middle("body", for, buf, rm, p, rest) /\ Line(rest, m + 1, s, w, r)
  BY <1>1, Zenon DEF Reader
<1> HIDE DEF p
<1>3. PICK h : Frames(OnWire(p), h, v, rest) /\ buf[1] = h
  <2>1. "body" # "length"
    OBVIOUS
  <2> QED
    BY <1>2, <2>1, Zenon DEF Middle
<1> v \in Nat
  OBVIOUS
<1> HIDE DEF v
<1>4. /\ h \in Byte /\ v \in Lengths /\ Len(rest) = v /\ OnWire(p) = <<h>> \o e \o rest
      /\ e \in Seq(Byte) /\ Len(e) \in 1..4 /\ Len(OnWire(p)) = 1 + Len(e) + v
  <2>1. h \in Byte /\ v \in Lengths /\ Len(rest) = v /\ OnWire(p) = <<h>> \o e \o rest
    BY <1>3, Zenon DEF Frames
  <2>2. Shape(e, v)
    BY <2>1, EncodeShape, Zenon
  <2>3. Len(OnWire(p)) = 1 + Len(e) + v
    BY <1>3, FrameBytes, Zenon
  <2> QED
    BY <2>1, <2>2, <2>3, Zenon DEF Shape
<1> HIDE DEF e
<1>5. /\ Len(rest) <= Len(r) /\ SubSeq(r, 1, v) = rest
      /\ Line(<<>>, m + 1, s, w, SubSeq(r, v + 1, Len(r)))
  <2>1. m + 1 \in Nat
    OBVIOUS
  <2> QED
    BY <1>2, <1>4, <2>1, LineRest, Zenon
<1>6. n = v
  <2>1. v <= Len(r) /\ Len(r) \in Nat
    BY <1>4, <1>5
  <2> QED
    BY <2>1, MinOfTwo
<1> HIDE DEF n
<1>7. <<>> \in Seq(Byte)
  OBVIOUS
<1>8. Len(e) \in Nat
  BY <1>4
<1>9. ASSUME 1 + Len(e) + n > BufSize
      PROVE  c2 = "past readbuf" /\ Middle(c2, for, buf2, rm, p, <<>>)
  <2>1. c2 = "past readbuf"
    BY <1>9
  <2>2. Len(OnWire(p)) >= BufSize
    BY <1>4, <1>6, <1>8, <1>9, Sizes
  <2>3. "past readbuf" # "length" /\ "past readbuf" # "body"
    OBVIOUS
  <2>4. Middle("past readbuf", for, buf2, rm, p, <<>>)
    BY <2>2, <2>3, Zenon DEF Middle
  <2> QED
    BY <2>1, <2>4, Zenon
<1>10. ASSUME ~(1 + Len(e) + n > BufSize)
       PROVE  c2 = "dispatch" /\ Middle(c2, for, buf2, rm, p, <<>>)
  <2>1. c2 = "dispatch"
    BY <1>10
  <2>2. Len(OnWire(p)) <= BufSize
    BY <1>4, <1>6, <1>8, <1>10, Sizes
  <2>3. "dispatch" # "length" /\ "dispatch" # "body" /\ "dispatch" # "past readbuf"
        /\ "dispatch" # "arrived" /\ "dispatch" # "send"
    OBVIOUS
  <2>4. Holds(buf2, 1, OnWire(p))
    <3>1. buf \in Seq(Byte) /\ Len(buf) = BufSize
      BY Sizes
    <3>2. e \o rest \in Seq(Byte) /\ Len(e \o rest) = Len(e) + Len(rest)
      BY <1>4, Joined, Zenon
    <3>3. 1 + Len(e \o rest) <= Len(buf)
      <4>1. Len(e \o rest) = Len(e) + v
        BY <1>4, <3>2, Zenon
      <4> QED
        BY <1>4, <1>8, <2>2, <3>1, <4>1
    <3>4. OnWire(p) = <<h>> \o (e \o rest)
      <4>1. <<h>> \in Seq(Byte)
        BY <1>4
      <4> QED
        BY <1>4, <4>1, Associative, Zenon
    <3>5. buf2 = Overwrite(buf, 2, e \o rest)
      BY <1>5, <1>6, Zenon
    <3> HIDE DEF buf2
    <3> QED
      BY <1>3, <1>4, <3>1, <3>2, <3>3, <3>4, <3>5, OverwriteHolds, Zenon
  <2> HIDE DEF buf2, c2
  <2>5. Middle("dispatch", for, buf2, rm, p, <<>>)
    BY <2>2, <2>3, <2>4, Zenon DEF Middle
  <2> QED
    BY <2>1, <2>5, Zenon
<1> HIDE DEF c2, buf2
<1>11. Reader(c2, for, m, s, w, SubSeq(r, n + 1, Len(r)), buf2, rm)
  BY <1>1, <1>2, <1>5, <1>6, <1>7, <1>9, <1>10, Zenon DEF Reader, p
<1> QED
  BY <1>6, <1>11, Zenon DEF c2, buf2, n, e, v

(* What a packet of the broker is, by its type. *)
LEMMA KindOf ==
  ASSUME NEW p \in BrokerPackets
  PROVE  /\ p.type \in {"CONNACK", "PINGRESP", "PUBACK", "PUBREC", "PUBCOMP", "PUBLISH", "PUBLISH2"}
         /\ p.type = "PUBLISH" => p \in Publishes
         /\ p.type = "PUBREC" => p \in Acks
<1>1. p \in Connacks \/ p \in Pingresps \/ p \in Acks \/ p \in Publishes \/ p \in Commands
  BY StreamAssumption DEF Packet
<1>2. CASE p \in Connacks
  BY <1>2 DEF Connacks
<1>3. CASE p \in Pingresps
  BY <1>3 DEF Pingresps
<1>4. CASE p \in Acks
  BY <1>4 DEF Acks
<1>5. CASE p \in Publishes
  <2>1. p.type = "PUBLISH"
    BY <1>5 DEF Publishes
  <2> QED
    BY <1>5, <2>1
<1>6. CASE p \in Commands
  BY <1>6 DEF Commands
<1> QED
  BY <1>1, <1>2, <1>3, <1>4, <1>5, <1>6

(* What the loop takes out of readbuf is the packet that was sent. *)
LEMMA TakenIsIt ==
  ASSUME NEW p \in BrokerPackets, InReadbuf(p)
  PROVE  Taken = p /\ PacketType = p.type
<1>1. p \in Connacks \/ p \in Pingresps \/ p \in Acks \/ p \in Publishes \/ p \in Commands
  BY StreamAssumption DEF Packet
<1>2. CASE p \in Connacks
  <2>1. p.type = "CONNACK"
    BY <1>2 DEF Connacks
  <2> QED
    BY <1>2, <2>1, ConnackTaken, Zenon
<1>3. CASE p \in Pingresps
  <2>1. p.type = "PINGRESP"
    BY <1>3 DEF Pingresps
  <2> QED
    BY <1>3, <2>1, PingrespTaken, Zenon
<1>4. CASE p \in Acks
  BY <1>4, AckTaken, Zenon
<1>5. CASE p \in Publishes
  <2>1. p.type = "PUBLISH"
    BY <1>5 DEF Publishes
  <2> QED
    BY <1>5, <2>1, PublishTaken, Zenon
<1>6. CASE p \in Commands
  <2>1. p.type = "PUBLISH2"
    BY <1>6 DEF Commands
  <2> QED
    BY <1>6, <2>1, CommandTaken, Zenon
<1> QED
  BY <1>1, <1>2, <1>3, <1>4, <1>5, <1>6, Zenon

(* A packet stands in readbuf and has not been taken. *)
Holding(c, for) == c \in {"dispatch", "arrived"} \/ (c = "send" /\ for \in {"PUBLISH", "PUBREC"})

InHand(p) ==
  /\ p \in BrokerPackets /\ p = sent[Len(got) + 1] /\ Len(got) < Len(sent)
  /\ got \in Seq(BrokerPackets \cup {PutAside})
  /\ InReadbuf(p) /\ Line(<<>>, Len(got) + 1, sent, wire, rx)
  /\ pc = "arrived" => p.type = "PUBLISH"
  /\ pc = "send" => p.type = job.for /\ Answers(p)

LEMMA HasPacket ==
  ASSUME TypeOK, ReadInv, whole, Holding(pc, job.for)
  PROVE  InHand(sent[Len(got) + 1])
<1> DEFINE p == sent[Len(got) + 1]
<1>1. /\ sent \in Seq(BrokerPackets) /\ readbuf \in [1..BufSize -> Byte]
  BY DEF TypeOK
<1>2. /\ got \in Seq(BrokerPackets \cup {PutAside})
      /\ Reader(pc, job.for, Len(got), sent, wire, rx, readbuf, rem)
  BY Zenon DEF ReadInv
<1>3. /\ ~Between(pc, job.for) /\ pc # "length" /\ pc # "body" /\ pc # "past readbuf"
  BY DEF Holding, Between
<1>4. PICK rest \in Seq(Byte) :
        /\ Len(got) < Len(sent)
        /\ Middle(pc, job.for, readbuf, rem, p, rest) /\ Line(rest, Len(got) + 1, sent, wire, rx)
  BY <1>2, <1>3, Zenon DEF Reader
<1>5. p \in BrokerPackets
  <2>1. Len(got) \in Nat
    BY <1>2
  <2> QED
    BY <1>1, <1>4, <2>1
<1> HIDE DEF p
<1>6. /\ rest = <<>> /\ Holds(readbuf, 1, OnWire(p)) /\ Len(OnWire(p)) <= BufSize
      /\ pc = "arrived" => p.type = "PUBLISH"
      /\ pc = "send" => p.type = job.for /\ Answers(p)
  BY <1>3, <1>4, Zenon DEF Middle
<1>7. InReadbuf(p)
  BY <1>1, <1>6, Zenon DEF InReadbuf
<1> QED
  BY <1>2, <1>4, <1>5, <1>6, <1>7, Zenon DEF InHand, p

(* A step of the lock's end of the connection, as PacketPipe sees it. *)
TakesOne ==
  /\ Len(got) < Len(sent) /\ sent' = sent
  /\ \/ got' = Append(got, sent[Len(got) + 1])
     \/ Answers(sent[Len(got) + 1]) /\ got' = Append(got, PutAside)

PipeStep ==
  whole => \/ sent' = sent /\ got' = got
           \/ TakesOne
           \/ got' = got /\ \E p \in BrokerPackets : sent' = Append(sent, p)

(* The three ways a step may go: past no packet, past the one in readbuf, or on with it. *)
LEMMA StaysBetween ==
  ASSUME ReadInv, Between(pc, job.for), Between(pc', job'.for),
         UNCHANGED <<whole, got, sent, wire, rx>>
  PROVE  ReadInv' /\ PipeStep
<1>1. PipeStep
  BY DEF PipeStep
<1>2. ASSUME whole' PROVE got' \in Seq(BrokerPackets \cup {PutAside})
                          /\ Line(<<>>, Len(got'), sent', wire', rx')
  <2>1. /\ whole' = whole /\ got' = got /\ sent' = sent /\ wire' = wire /\ rx' = rx
    OBVIOUS
  <2>2. got \in Seq(BrokerPackets \cup {PutAside}) /\ Line(<<>>, Len(got), sent, wire, rx)
    <3>1. whole
      BY <1>2, <2>1
    <3>2. /\ got \in Seq(BrokerPackets \cup {PutAside})
          /\ Reader(pc, job.for, Len(got), sent, wire, rx, readbuf, rem)
      BY <3>1, Zenon DEF ReadInv
    <3> QED
      BY <3>2, Zenon DEF Reader
  <2> QED
    BY <2>1, <2>2, Zenon
<1>3. ReadInv'
  BY <1>2, Zenon DEF ReadInv, Reader
<1> QED
  BY <1>1, <1>3

LEMMA TakesPacket ==
  ASSUME TypeOK, ReadInv, Holding(pc, job.for), Between(pc', job'.for),
         UNCHANGED <<whole, sent, wire, rx>>,
         NEW x, got' = Append(got, x),
         whole => \/ x = sent[Len(got) + 1]
                  \/ x = PutAside /\ Answers(sent[Len(got) + 1])
  PROVE  ReadInv' /\ PipeStep
<1> DEFINE p == sent[Len(got) + 1]
<1>0. whole' = whole /\ sent' = sent /\ wire' = wire /\ rx' = rx
  OBVIOUS
<1>1. ASSUME whole PROVE InHand(p) /\ TakesOne
  <2>1. InHand(p)
    BY <1>1, HasPacket
  <2>2. Len(got) < Len(sent)
    BY <2>1, Zenon DEF InHand
  <2>3. TakesOne
    BY <1>0, <1>1, <2>2, Zenon DEF TakesOne
  <2> QED
    BY <2>1, <2>3
<1>2. PipeStep
  BY <1>1, Zenon DEF PipeStep
<1>3. ASSUME whole' PROVE got' \in Seq(BrokerPackets \cup {PutAside})
                          /\ Line(<<>>, Len(got'), sent', wire', rx')
  <2> HIDE DEF p
  <2>1. /\ got \in Seq(BrokerPackets \cup {PutAside}) /\ p \in BrokerPackets
        /\ Line(<<>>, Len(got) + 1, sent, wire, rx)
    BY <1>0, <1>1, <1>3, Zenon DEF InHand
  <2>2. x \in BrokerPackets \cup {PutAside}
    BY <1>0, <1>3, <2>1, Zenon DEF p
  <2>3. got' \in Seq(BrokerPackets \cup {PutAside}) /\ Len(got') = Len(got) + 1
    BY <2>1, <2>2, AppendProperties
  <2> QED
    BY <1>0, <2>1, <2>3, Zenon
<1>4. ReadInv'
  BY <1>3, Zenon DEF ReadInv, Reader
<1> QED
  BY <1>2, <1>4

LEMMA KeepsPacket ==
  ASSUME TypeOK, ReadInv, Holding(pc, job.for), Holding(pc', job'.for),
         UNCHANGED <<whole, sent, wire, rx, got, readbuf>>,
         whole => LET p == sent[Len(got) + 1]
                  IN /\ pc' = "arrived" => p.type = "PUBLISH"
                     /\ pc' = "send" => p.type = job'.for /\ Answers(p)
  PROVE  ReadInv' /\ PipeStep
<1> DEFINE p == sent[Len(got) + 1]
<1>0. /\ whole' = whole /\ sent' = sent /\ wire' = wire /\ rx' = rx /\ got' = got
      /\ readbuf' = readbuf
  OBVIOUS
<1>1. PipeStep
  BY <1>0 DEF PipeStep
<1>2. ASSUME whole' PROVE /\ got' \in Seq(BrokerPackets \cup {PutAside})
                          /\ Reader(pc', job'.for, Len(got'), sent', wire', rx', readbuf', rem')
  <2>1. InHand(p)
    BY <1>0, <1>2, HasPacket, Zenon
  <2>2. /\ pc' = "arrived" => p.type = "PUBLISH"
        /\ pc' = "send" => p.type = job'.for /\ Answers(p)
    BY <1>0, <1>2, Zenon
  <2>3. /\ ~Between(pc', job'.for) /\ pc' # "length" /\ pc' # "body" /\ pc' # "past readbuf"
    BY DEF Holding, Between
  <2>4. Middle(pc', job'.for, readbuf, rem', p, <<>>)
    <3> HIDE DEF p
    <3> QED
      BY <2>1, <2>2, <2>3, Zenon DEF Middle, InHand, InReadbuf
  <2>5. <<>> \in Seq(Byte)
    OBVIOUS
  <2>6. Reader(pc', job'.for, Len(got), sent, wire, rx, readbuf, rem')
    <3>1. Len(got) < Len(sent) /\ Line(<<>>, Len(got) + 1, sent, wire, rx)
      BY <2>1, Zenon DEF InHand
    <3> QED
      BY <2>3, <2>4, <2>5, <3>1, Zenon DEF Reader
  <2> QED
    BY <1>0, <2>1, <2>6, Zenon DEF InHand
<1>3. ReadInv'
  BY <1>2, Zenon DEF ReadInv
<1> QED
  BY <1>1, <1>3

(* A report leaves the task between two packets. *)
LEMMA ReportBetween ==
  ASSUME NEW for \in {"own", "report"}, TypeOK, yblock_report(for)
  PROVE  Between(pc', job'.for) /\ (pc' = "past pubMsg" => ~online)
<1>1. /\ pc' \in {"send", "past pubMsg", After(for)} /\ (pc' = "send" => job'.for = for)
      /\ pc' = "past pubMsg" => ~online
  BY PublishMessageHeard DEF yblock_report
<1> QED
  BY <1>1 DEF Between, After

LEMMA FailsReads ==
  ASSUME TypeOK, ReadInv, pc = "send", Fails, UNCHANGED <<whole, sent, wire, rx, readbuf>>
  PROVE  ReadInv' /\ PipeStep
<1>1. job.for \in {"own", "report", "keepalive", "PUBLISH", "PUBREC"}
  BY DEF TypeOK, JobOK, Jobs
<1>2. pc' \in {"idle", "header"}
  BY DEF Fails
<1>3. Between(pc', job'.for)
  BY <1>2 DEF Between
<1>4. CASE job.for \in {"own", "report", "keepalive"}
  <2>1. Between(pc, job.for) /\ got' = got
    BY <1>4 DEF Between, Fails
  <2> QED
    BY <1>3, <2>1, StaysBetween
<1>5. CASE job.for \in {"PUBLISH", "PUBREC"}
  <2>1. Holding(pc, job.for) /\ got' = Append(got, PutAside)
    BY <1>5 DEF Holding, Fails
  <2>2. whole => Answers(sent[Len(got) + 1])
    BY <2>1, HasPacket, Zenon DEF InHand
  <2> QED
    BY <1>3, <2>1, <2>2, TakesPacket
<1> QED
  BY <1>1, <1>4, <1>5

LEMMA SucceedsReads ==
  ASSUME TypeOK, ReadInv, pc = "send", Succeeds, UNCHANGED <<whole, sent, wire, rx, readbuf>>
  PROVE  ReadInv' /\ PipeStep
<1>1. job.for \in {"own", "report", "keepalive", "PUBLISH", "PUBREC"}
  BY DEF TypeOK, JobOK, Jobs
<1>2. /\ pc' = After(job.for)
      /\ got' = IF job.for = "PUBREC" THEN Append(got, Taken) ELSE got
  BY DEF Succeeds
<1>3. CASE job.for \in {"own", "report", "keepalive"}
  <2>1. Between(pc, job.for) /\ Between(pc', job'.for) /\ got' = got
    BY <1>2, <1>3 DEF Between, After
  <2> QED
    BY <2>1, StaysBetween
<1>4. CASE job.for = "PUBLISH"
  <2>1. Holding(pc, job.for) /\ pc' = "arrived" /\ Holding(pc', job'.for) /\ got' = got
    BY <1>2, <1>4 DEF Holding, After
  <2>2. whole => sent[Len(got) + 1].type = "PUBLISH"
    BY <1>4, <2>1, HasPacket, Zenon DEF InHand
  <2>3. "arrived" # "send"
    OBVIOUS
  <2> QED
    BY <2>1, <2>2, <2>3, KeepsPacket
<1>5. CASE job.for = "PUBREC"
  <2>1. Holding(pc, job.for) /\ Between(pc', job'.for) /\ got' = Append(got, Taken)
    BY <1>2, <1>5 DEF Holding, Between, After
  <2>2. whole => Taken = sent[Len(got) + 1]
    BY <2>1, HasPacket, TakenIsIt, Zenon DEF InHand
  <2> QED
    BY <2>1, <2>2, TakesPacket
<1> QED
  BY <1>1, <1>3, <1>4, <1>5

LEMMA WriteReads ==
  ASSUME NEW n \in Nat, TypeOK, ReadInv, Write(n)
  PROVE  ReadInv' /\ PipeStep
<1> DEFINE length == Len(job.bytes)
           total == job.sent + n
<1>1. /\ pc = "send" /\ job \in Jobs /\ length \in Nat /\ total \in Nat
  BY DEF Write, TypeOK, JobOK, Jobs
<1>2. UNCHANGED <<whole, sent, wire, rx, readbuf, rem>>
  BY DEF Write
<1>3. CASE total < length
  <2>1. job' = [job EXCEPT !.sent = total] /\ UNCHANGED <<pc, got>>
    BY <1>3 DEF Write
  <2>2. job'.for = job.for
    BY <1>1, <2>1 DEF Jobs
  <2>3. ReadInv'
    BY <1>2, <2>1, <2>2 DEF ReadInv
  <2> QED
    BY <1>2, <2>1, <2>3 DEF PipeStep
<1>4. CASE total = length
  <2>1. Succeeds
    BY <1>1, <1>4 DEF Write
  <2> QED
    BY <1>1, <1>2, <2>1, SucceedsReads
<1>5. CASE total > length
  <2>1. Fails
    BY <1>1, <1>5 DEF Write
  <2> QED
    BY <1>1, <1>2, <2>1, FailsReads
<1> QED
  BY <1>1, <1>3, <1>4, <1>5

(* One step of the broker, the stack or the task. *)
LEMMA StepReads ==
  ASSUME TypeOK, ReadInv, [Next]_vars
  PROVE  ReadInv' /\ PipeStep
<1>t. /\ sent \in Seq(BrokerPackets) /\ wire \in Seq(Seq(Byte)) /\ rx \in Seq(Byte)
      /\ readbuf \in [1..BufSize -> Byte] /\ rem.value \in Nat /\ rem.digits \in 0..4
      /\ whole \in BOOLEAN
  BY DEF TypeOK
<1>g. ASSUME whole
      PROVE  /\ got \in Seq(BrokerPackets \cup {PutAside}) /\ Len(got) \in Nat
             /\ Reader(pc, job.for, Len(got), sent, wire, rx, readbuf, rem)
  <2>1. /\ got \in Seq(BrokerPackets \cup {PutAside})
        /\ Reader(pc, job.for, Len(got), sent, wire, rx, readbuf, rem)
    BY <1>g, Zenon DEF ReadInv
  <2>2. Len(got) \in Nat
    BY <2>1
  <2> QED
    BY <2>1, <2>2
<1>h. ASSUME whole, Holding(pc, job.for)
      PROVE  /\ sent[Len(got) + 1] \in BrokerPackets /\ InReadbuf(sent[Len(got) + 1])
             /\ Taken = sent[Len(got) + 1] /\ PacketType = sent[Len(got) + 1].type
  BY <1>h, HasPacket, TakenIsIt, Zenon DEF InHand
<1>1. CASE BrokerSends
  <2>1. PICK p \in BrokerPackets : sent' = Append(sent, p) /\ wire' = Append(wire, OnWire(p))
    BY <1>1 DEF BrokerSends
  <2>2. UNCHANGED <<whole, rx, pc, readbuf, rem, job, got>>
    BY <1>1 DEF BrokerSends
  <2>3. PipeStep
    BY <2>1, <2>2, Zenon DEF PipeStep
  <2>4. ASSUME whole
        PROVE  Reader(pc, job.for, Len(got), sent', wire', rx, readbuf, rem)
    BY <1>g, <1>t, <2>1, <2>4, ReaderSends
  <2>5. ReadInv'
    BY <1>g, <2>2, <2>4 DEF ReadInv
  <2> QED
    BY <2>3, <2>5
<1>2. CASE WholePacketsArrive
  <2>1. PICK n \in 1..Len(wire) : /\ rx' = rx \o Concat[SubSeq(wire, 1, n)]
                                  /\ wire' = SubSeq(wire, n + 1, Len(wire))
    BY <1>2 DEF WholePacketsArrive, Arrives
  <2>2. UNCHANGED <<whole, sent, pc, readbuf, rem, job, got>>
    BY <1>2 DEF WholePacketsArrive, Arrives
  <2>3. PipeStep
    BY <2>2, Zenon DEF PipeStep
  <2>4. ASSUME whole
        PROVE  Reader(pc, job.for, Len(got), sent, wire', rx', readbuf, rem)
    BY <1>g, <1>t, <2>1, <2>4, ReaderArrives
  <2>5. ReadInv'
    BY <1>g, <2>2, <2>4 DEF ReadInv
  <2> QED
    BY <2>3, <2>5
<1>3. CASE PartArrives
  <2>1. ~whole /\ whole' = whole
    BY <1>3 DEF PartArrives, Arrives
  <2> QED
    BY <2>1 DEF ReadInv, PipeStep
<1>4. CASE SocketReadable
  <2>1. Between(pc, job.for) /\ Between(pc', job'.for) /\ UNCHANGED <<whole, got, sent, wire, rx>>
    BY <1>4 DEF SocketReadable, Again, Between
  <2> QED
    BY <2>1, StaysBetween
<1>5. CASE ReadHeader
  <2>1. UNCHANGED <<whole, sent, wire, job, got>> /\ Between(pc, job.for)
    BY <1>5 DEF ReadHeader, Between
  <2>2. CASE rx = <<>>
    <3>1. UNCHANGED rx /\ Between(pc', job'.for)
      BY <1>5, <2>2 DEF ReadHeader, readVars, Between
    <3> QED
      BY <2>1, <3>1, StaysBetween
  <2>3. CASE rx # <<>>
    <3>1. /\ readbuf' = [readbuf EXCEPT ![1] = Head(rx)] /\ rx' = Tail(rx)
          /\ rem' = [value |-> 0, digits |-> 0] /\ pc' = "length"
      BY <1>5, <2>3 DEF ReadHeader
    <3>2. PipeStep
      BY <2>1, Zenon DEF PipeStep
    <3>3. ASSUME whole
          PROVE  Reader("length", job.for, Len(got), sent, wire, rx', readbuf', rem')
      <4>1. Line(<<>>, Len(got), sent, wire, rx)
        BY <1>g, <2>1, <3>3, Zenon DEF Reader
      <4> QED
        BY <1>g, <1>t, <2>3, <3>1, <3>3, <4>1, HeaderRead
    <3>4. ReadInv'
      BY <1>g, <2>1, <3>1, <3>3 DEF ReadInv
    <3> QED
      BY <3>2, <3>4
  <2> QED
    BY <2>2, <2>3
<1>6. CASE decodePacket
  <2>1. UNCHANGED <<whole, sent, wire, job, got, readbuf>> /\ pc = "length"
    BY <1>6 DEF decodePacket
  <2>2. PipeStep
    BY <2>1, Zenon DEF PipeStep
  <2>3. ASSUME whole
        PROVE  Reader(pc', job.for, Len(got), sent, wire, rx', readbuf, rem')
    <3>1. Reader("length", job.for, Len(got), sent, wire, rx, readbuf, rem)
      BY <1>g, <2>1, <2>3
    <3>2. /\ rx # <<>> /\ rem.digits # 4
          /\ Reader(IF Head(rx) >= 128 THEN "length" ELSE "body", job.for, Len(got), sent, wire,
                    Tail(rx), readbuf,
                    [value |-> rem.value + (Head(rx) % 128) * multiplier[rem.digits + 1],
                     digits |-> rem.digits + 1])
      BY <1>g, <1>t, <2>3, <3>1, DigitRead
    <3>3. /\ rem' = [value |-> rem.value + (Head(rx) % 128) * multiplier[rem.digits + 1],
                     digits |-> rem.digits + 1]
          /\ rx' = Tail(rx) /\ pc' = IF Head(rx) >= 128 THEN "length" ELSE "body"
      BY <1>6, <3>2 DEF decodePacket
    <3> QED
      BY <3>2, <3>3, Zenon
  <2>4. ReadInv'
    BY <1>g, <2>1, <2>3 DEF ReadInv
  <2> QED
    BY <2>2, <2>4
<1>7. CASE ReadBody
  <2> DEFINE e == MQTTPacket_encode[rem.value]
             n == Min({rem.value, Len(rx)})
  <2>1. /\ UNCHANGED <<whole, sent, wire, job, got, rem>> /\ pc = "body"
        /\ readbuf' = Overwrite(readbuf, 2, e \o SubSeq(rx, 1, n))
        /\ rx' = SubSeq(rx, n + 1, Len(rx))
        /\ pc' = IF 1 + Len(e) + n > BufSize THEN "past readbuf"
                 ELSE IF n = rem.value THEN "dispatch"
                 ELSE IF n = 0 THEN "idle" ELSE "header"
    BY <1>7, Zenon DEF ReadBody, Again
  <2>2. PipeStep
    BY <2>1, Zenon DEF PipeStep
  <2>3. ASSUME whole
        PROVE  Reader(pc', job.for, Len(got), sent, wire, rx', readbuf', rem)
    <3>1. Reader("body", job.for, Len(got), sent, wire, rx, readbuf, rem)
      BY <1>g, <2>1, <2>3
    <3>2. /\ n = rem.value
          /\ Reader(IF 1 + Len(e) + n > BufSize THEN "past readbuf" ELSE "dispatch",
                    job.for, Len(got), sent, wire, SubSeq(rx, n + 1, Len(rx)),
                    Overwrite(readbuf, 2, e \o SubSeq(rx, 1, n)), rem)
      BY <1>g, <1>t, <2>3, <3>1, BodyRead
    <3> HIDE DEF e, n
    <3>3. pc' = IF 1 + Len(e) + n > BufSize THEN "past readbuf" ELSE "dispatch"
      BY <2>1, <3>2
    <3> QED
      BY <2>1, <3>2, <3>3, Zenon
  <2>4. ReadInv'
    BY <1>g, <2>1, <2>3 DEF ReadInv
  <2> QED
    BY <2>2, <2>4
<1>8. CASE Connack \/ Noted
  <2>1. /\ pc = "dispatch" /\ got' = Append(got, Taken) /\ pc' = "header"
        /\ UNCHANGED <<whole, sent, wire, rx, readbuf, rem, job>>
    BY <1>8 DEF Connack, Noted, Dispatch, Again, writeVars
  <2>2. Holding(pc, job.for) /\ Between(pc', job'.for)
    BY <2>1 DEF Holding, Between
  <2> QED
    BY <1>h, <2>1, <2>2, TakesPacket
<1>19. CASE Puback
  <2>1. /\ pc = "dispatch" /\ got' = Append(got, Taken) /\ pc' = "send" /\ job'.for = "keepalive"
        /\ UNCHANGED <<whole, sent, wire, rx, readbuf, rem>>
    BY <1>19 DEF Puback, Dispatch, mqtt_keepalive, StartSend
  <2>2. Holding(pc, job.for) /\ Between(pc', job'.for)
    BY <2>1 DEF Holding, Between
  <2> QED
    BY <1>h, <2>1, <2>2, TakesPacket
<1>9. CASE Pubrec
  <2>1. /\ pc = "dispatch" /\ PacketType = "PUBREC" /\ pc' = "send" /\ job'.for = "PUBREC"
        /\ UNCHANGED <<whole, sent, wire, rx, readbuf, got>>
    <3>1. UNCHANGED <<whole, sent, wire, rx, readbuf, got>>
      BY <1>9 DEF Pubrec
    <3> QED
      BY <1>9, <3>1, PubrecForm DEF StartSend
  <2>2. Holding(pc, job.for) /\ Holding(pc', job'.for)
    BY <2>1 DEF Holding
  <2>3. "send" # "arrived"
    OBVIOUS
  <2>4. whole => LET p == sent[Len(got) + 1]
                 IN /\ pc' = "arrived" => p.type = "PUBLISH"
                    /\ pc' = "send" => p.type = job'.for /\ Answers(p)
    BY <1>h, <2>1, <2>2, <2>3 DEF Answers
  <2> QED
    BY <2>1, <2>2, <2>4, KeepsPacket
<1>10. CASE Publish
  <2> DEFINE qos == QosBits(readbuf[1])
  <2>1. /\ pc = "dispatch" /\ PacketType = "PUBLISH"
        /\ \/ pc' = "arrived"
           \/ pc' = "stray" /\ qos = 3
           \/ pc' = "send" /\ job'.for = "PUBLISH" /\ qos # 0
        /\ UNCHANGED <<whole, sent, wire, rx, readbuf, got>>
    <3>1. UNCHANGED <<whole, sent, wire, rx, readbuf, got>>
      BY <1>10 DEF Publish
    <3> QED
      BY <1>10, <3>1, PublishForm DEF StartSend
  <2>2. Holding(pc, job.for) /\ (pc' # "stray" => Holding(pc', job'.for))
    BY <2>1 DEF Holding
  <2> HIDE DEF qos
  <2>3. ASSUME whole PROVE LET p == sent[Len(got) + 1]
                           IN p.type = "PUBLISH" /\ p.qos = qos /\ p.qos \in 0..2
    <3>1. PICK p \in BrokerPackets : p = sent[Len(got) + 1] /\ InReadbuf(p) /\ PacketType = p.type
      BY <1>h, <2>2, <2>3, Zenon
    <3>2. p.type = "PUBLISH" /\ p \in Publishes
      BY <2>1, <3>1, KindOf, Zenon
    <3>3. p.qos = qos
      BY <3>1, <3>2, PublishTaken, Zenon DEF PublishRead, qos
    <3>4. p.qos \in 0..2
      BY <3>2 DEF Publishes
    <3> QED
      BY <3>1, <3>2, <3>3, <3>4, Zenon
  <2>4. whole => LET p == sent[Len(got) + 1]
                 IN /\ pc' = "arrived" => p.type = "PUBLISH"
                    /\ pc' = "send" => p.type = job'.for /\ Answers(p)
    BY <2>1, <2>3 DEF Answers
  <2>5. CASE pc' = "stray"
    <3>1. ~whole /\ ~whole'
      <4>1. qos = 3 /\ whole' = whole
        BY <2>1, <2>5
      <4> QED
        BY <2>3, <4>1
    <3> QED
      BY <3>1 DEF ReadInv, PipeStep
  <2>6. CASE pc' # "stray"
    BY <2>1, <2>2, <2>4, <2>6, KeepsPacket
  <2> QED
    BY <2>5, <2>6
<1>11. CASE Ignored
  <2>1. /\ pc = "dispatch" /\ UNCHANGED <<whole, sent, got>> /\ Holding(pc, job.for)
    BY <1>11 DEF Ignored, Holding
  <2>2. ~whole
    <3> SUFFICES ASSUME whole PROVE FALSE
      OBVIOUS
    <3>1. PICK p \in BrokerPackets : p = sent[Len(got) + 1] /\ InReadbuf(p) /\ PacketType = p.type
      BY <1>h, <2>1, Zenon
    <3>2. p.type \in {"CONNACK", "PINGRESP", "PUBACK", "PUBREC", "PUBCOMP", "PUBLISH", "PUBLISH2"}
      BY KindOf, Zenon
    <3>3. \/ PacketType = "PUBREC" /\ MQTTDeserialize_ack(readbuf).rc # 1
          \/ /\ PacketType = "PUBLISH"
             /\ MQTTDeserialize_publish(readbuf).rc # 1 \/ QosBits(readbuf[1]) = 3
      BY <1>11, <3>1, <3>2 DEF Ignored
    <3>4. CASE PacketType = "PUBREC" /\ MQTTDeserialize_ack(readbuf).rc # 1
      BY <3>1, <3>4, KindOf, AckTaken, Zenon
    <3>5. CASE /\ PacketType = "PUBLISH"
               /\ MQTTDeserialize_publish(readbuf).rc # 1 \/ QosBits(readbuf[1]) = 3
      <4>1. p \in Publishes
        BY <3>1, <3>5, KindOf, Zenon
      <4>2. MQTTDeserialize_publish(readbuf).rc = 1 /\ QosBits(readbuf[1]) = p.qos
        BY <3>1, <4>1, PublishTaken, Zenon DEF PublishRead
      <4>3. p.qos # 3
        BY <4>1 DEF Publishes
      <4> QED
        BY <3>5, <4>2, <4>3, Zenon
    <3> QED
      BY <3>3, <3>4, <3>5
  <2> QED
    BY <2>1, <2>2 DEF ReadInv, PipeStep
<1>12. CASE messageArrived
  <2> DEFINE d == MQTTDeserialize_publish(readbuf)
             end == d.payload + d.payloadlen
  <2>1. /\ pc = "arrived" /\ UNCHANGED <<whole, sent, wire, rx, rem>>
        /\ Holding(pc, job.for)
    BY <1>12 DEF messageArrived, Holding
  <2>0. ASSUME whole PROVE d.read /\ Handed(d) = sent[Len(got) + 1]
    <3>1. PICK p \in BrokerPackets : p = sent[Len(got) + 1] /\ InHand(p)
      BY <2>0, <2>1, HasPacket, Zenon DEF InHand
    <3>2. p \in Publishes
      BY <2>1, <3>1, KindOf, Zenon DEF InHand
    <3> QED
      BY <3>1, <3>2, PublishTaken, Zenon DEF InHand, PublishRead
  <2>4. CASE ~d.read
    <3>1. whole' = whole /\ ~whole
      BY <2>0, <2>1, <2>4
    <3>2. sent' = sent /\ got' = got
      BY <1>12, <2>1, <2>4 DEF messageArrived
    <3> QED
      BY <3>1, <3>2 DEF ReadInv, PipeStep
  <2>2. CASE d.read /\ end > BufSize
    <3>1. pc' = "past readbuf" /\ UNCHANGED <<readbuf, got, job>>
      BY <1>12, <2>2 DEF messageArrived
    <3>2. PipeStep
      BY <2>1, <3>1, Zenon DEF PipeStep
    <3>3. ASSUME whole
          PROVE  Reader("past readbuf", job.for, Len(got), sent, wire, rx, readbuf, rem)
      <4>1. PICK p \in BrokerPackets : p = sent[Len(got) + 1] /\ InHand(p)
        BY <2>1, <3>3, HasPacket, Zenon DEF InHand
      <4>2. p \in Publishes
        BY <2>1, <4>1, KindOf, Zenon DEF InHand
      <4>3. end = Len(OnWire(p)) + 1
        BY <4>1, <4>2, PublishTaken, Zenon DEF InHand, PublishRead
      <4>4. Len(OnWire(p)) >= BufSize
        <5>1. Len(OnWire(p)) \in Nat /\ BufSize \in Nat
          BY OnWireTyped, Sizes
        <5> HIDE DEF end
        <5> QED
          BY <2>2, <4>3, <5>1
      <4>5. /\ "past readbuf" # "length" /\ "past readbuf" # "body"
            /\ ~Between("past readbuf", job.for)
        BY DEF Between
      <4>6. <<>> \in Seq(Byte)
        OBVIOUS
      <4>7. Middle("past readbuf", job.for, readbuf, rem, p, <<>>)
        BY <4>4, <4>5, Zenon DEF Middle
      <4> QED
        BY <4>1, <4>5, <4>6, <4>7, Zenon DEF Reader, InHand
    <3>4. ReadInv'
      BY <1>g, <2>1, <3>1, <3>3 DEF ReadInv
    <3> QED
      BY <3>2, <3>4
  <2>3. CASE d.read /\ ~(end > BufSize)
    <3>1. /\ got' = Append(got, Handed(d))
          /\ yblock_report("report") \/ pc' = "header"
      BY <1>12, <2>3 DEF messageArrived, Again
    <3>2. Between(pc', job'.for)
      <4>1. CASE yblock_report("report")
        BY <4>1, ReportBetween
      <4>2. CASE pc' = "header"
        BY <4>2 DEF Between
      <4> QED
        BY <3>1, <4>1, <4>2
    <3> QED
      BY <2>0, <2>1, <3>1, <3>2, TakesPacket
  <2> QED
    BY <2>2, <2>3, <2>4
<1>13. CASE AllTaken \/ PartTaken
  <2>1. PICK n \in Nat : Write(n)
    <3>1. (job.bytes \in Seq(Byte) /\ job.bytes # <<>>) \/ pc # "send"
      BY DEF TypeOK, JobOK, Jobs
    <3>2. pc = "send"
      BY <1>13 DEF AllTaken, PartTaken, Write
    <3>3. Len(job.bytes) \in Nat /\ 1 \in Nat /\ Len(job.bytes) - 1 \in Nat
      BY <3>1, <3>2
    <3> QED
      BY <1>13, <3>3, Zenon DEF AllTaken, PartTaken
  <2> QED
    BY <2>1, WriteReads
<1>14. CASE NoneTaken
  <2>1. pc = "send" /\ Fails /\ UNCHANGED <<whole, sent, wire, rx, readbuf>>
    BY <1>14 DEF NoneTaken
  <2> QED
    BY <2>1, FailsReads
<1>15. CASE SetAlias
  <2>1. Between(pc, job.for) /\ Between(pc', job'.for) /\ UNCHANGED <<whole, got, sent, wire, rx>>
    BY <1>15 DEF SetAlias, TakeMessage, StartSend, Between
  <2> QED
    BY <2>1, StaysBetween
<1>16. CASE LockReports
  <2>1. /\ Between(pc, job.for) /\ yblock_report("own") /\ UNCHANGED <<whole, got, sent, wire, rx>>
    BY <1>16 DEF LockReports, Between
  <2>2. Between(pc', job'.for)
    BY <2>1, ReportBetween
  <2> QED
    BY <2>1, <2>2, StaysBetween
<1>20. CASE Keepalive
  <2>1. /\ Between(pc, job.for) /\ pc' = "send" /\ job'.for = "own"
        /\ UNCHANGED <<whole, got, sent, wire, rx>>
    BY <1>20 DEF Keepalive, mqtt_keepalive, StartSend, Between
  <2>2. Between(pc', job'.for)
    BY <2>1 DEF Between
  <2> QED
    BY <2>1, <2>2, StaysBetween
<1>17. CASE Close
  <2>1. Between(pc, job.for) /\ Between(pc', job'.for) /\ UNCHANGED <<whole, got, sent, wire, rx>>
    BY <1>17 DEF Close, TakeMessage, Between
  <2> QED
    BY <2>1, StaysBetween
<1>18. CASE UNCHANGED vars
  BY <1>18 DEF vars, ReadInv, PipeStep
<1> QED
  BY <1>1, <1>2, <1>3, <1>4, <1>5, <1>6, <1>7, <1>8, <1>9, <1>10, <1>11, <1>12, <1>13, <1>14,
     <1>15, <1>16, <1>17, <1>18, <1>19, <1>20 DEF Next, Task

LEMMA InitReads == Init => ReadInv
<1> SUFFICES ASSUME Init PROVE ReadInv
  OBVIOUS
<1>1. /\ pc = "idle" /\ got = <<>> /\ sent = <<>> /\ wire = <<>> /\ rx = <<>>
  BY DEF Init
<1>2. Len(got) = 0 /\ Len(sent) = 0 /\ Len(wire) = 0 /\ got \in Seq(BrokerPackets \cup {PutAside})
  BY <1>1
<1>3. Concat[Wires(sent, 0, 0)] = <<>> /\ Wires(sent, 0, 0) = <<>>
  BY NoWires
<1>4. Line(<<>>, Len(got), sent, wire, rx)
  <2>1. <<>> \o <<>> = <<>> /\ 0 <= 0 /\ 0 - 0 = 0
    OBVIOUS
  <2> QED
    BY <1>1, <1>2, <1>3, <2>1, Zenon DEF Line
<1>5. Between(pc, job.for)
  BY <1>1 DEF Between
<1> QED
  BY <1>2, <1>4, <1>5, Zenon DEF ReadInv, Reader

LEMMA StepPubMsg ==
  ASSUME TypeOK, pc = "past pubMsg" => ~online, [Next]_vars
  PROVE  pc' = "past pubMsg" => ~online'
<1>1. CASE UNCHANGED <<pc, online>>
  BY <1>1
<1>2. CASE SocketReadable \/ ReadHeader \/ decodePacket \/ ReadBody \/ Close
  BY <1>2 DEF SocketReadable, ReadHeader, decodePacket, ReadBody, Close, Again
<1>3. CASE Connack \/ Noted \/ Puback \/ Pubrec \/ Publish \/ Ignored \/ SetAlias \/ Keepalive
  <2>1. CASE Connack \/ Noted \/ Puback \/ Ignored \/ SetAlias \/ Keepalive
    BY <2>1 DEF Connack, Noted, Puback, Ignored, SetAlias, Keepalive, mqtt_keepalive, Again, StartSend
  <2>2. CASE Pubrec
    BY <2>2, PubrecForm DEF StartSend
  <2>3. CASE Publish
    BY <2>3, PublishForm DEF StartSend
  <2> QED
    BY <1>3, <2>1, <2>2, <2>3
<1>4. CASE messageArrived
  <2>1. online' = online /\ (pc' \in {"past readbuf", "stray", "header"} \/ yblock_report("report"))
    BY <1>4 DEF messageArrived, Again
  <2> QED
    BY <2>1, ReportBetween
<1>5. CASE LockReports
  <2>1. online' = online /\ yblock_report("own")
    BY <1>5 DEF LockReports
  <2> QED
    BY <2>1, ReportBetween
<1>6. CASE AllTaken \/ PartTaken \/ NoneTaken
  <2>1. (\E n \in Nat : Write(n)) \/ (Fails /\ pc = "send" /\ UNCHANGED rx)
    <3>1. (job.bytes \in Seq(Byte) /\ job.bytes # <<>>) \/ pc # "send"
      BY DEF TypeOK, JobOK, Jobs
    <3>2. pc = "send"
      BY <1>6 DEF AllTaken, PartTaken, NoneTaken, Write
    <3>3. Len(job.bytes) \in Nat /\ 1 \in Nat /\ Len(job.bytes) - 1 \in Nat
      BY <3>1, <3>2
    <3>4. CASE AllTaken \/ PartTaken
      BY <3>3, <3>4, Zenon DEF AllTaken, PartTaken
    <3>5. CASE NoneTaken
      BY <3>5 DEF NoneTaken
    <3> QED
      BY <1>6, <3>4, <3>5
  <2> QED
    BY <2>1, WriteHeard
<1>7. CASE BrokerSends \/ WholePacketsArrive \/ PartArrives \/ UNCHANGED vars
  BY <1>7 DEF BrokerSends, WholePacketsArrive, PartArrives, Arrives, vars
<1> QED
  BY <1>2, <1>3, <1>4, <1>5, <1>6, <1>7 DEF Next, Task

(* readbuf and pubMsg hold what is put into them: if no packet is cut the task writes behind   *)
(* readbuf only for a packet that fills it, and behind pubMsg only off line.                    *)
THEOREM BuffersSuffice == Spec => []BuffersHold
<1> DEFINE PubMsgInv == pc = "past pubMsg" => ~online
           Inv == TypeOK /\ ReadInv /\ PubMsgInv
<1>1. Init => Inv
  BY InitTyped, InitReads DEF Init
<1>2. Inv /\ [Next]_vars => Inv'
  BY StepTyped, StepReads, StepPubMsg
<1>3. Inv => BuffersHold
  <2> SUFFICES ASSUME Inv, whole, pc = "past readbuf"
               PROVE  Len(got) < Len(sent) /\ Len(OnWire(sent[Len(got) + 1])) >= BufSize
    BY DEF BuffersHold
  <2>1. /\ ~Between("past readbuf", job.for)
        /\ "past readbuf" # "length" /\ "past readbuf" # "body"
    BY DEF Between
  <2>2. Reader("past readbuf", job.for, Len(got), sent, wire, rx, readbuf, rem)
    BY Zenon DEF ReadInv
  <2> QED
    BY <2>1, <2>2, Zenon DEF Reader, Middle
<1> HIDE DEF Inv
<1>4. Spec => []Inv
  BY <1>1, <1>2, PTL DEF Spec
<1> QED
  BY <1>3, <1>4, PTL

LEMMA WholeStays == ASSUME [Next]_vars PROVE whole' = whole
BY DEF Next, Task, vars, SocketReadable, ReadHeader, decodePacket, ReadBody, Connack, Noted, Puback,
       Pubrec, Publish, Ignored, Keepalive, messageArrived, AllTaken, PartTaken, NoneTaken, Write, SetAlias, Close,
       LockReports, BrokerSends, WholePacketsArrive, PartArrives, Arrives

(* The lock's end of the connection is PacketPipe's as long as no packet is cut: packets are taken *)
(* in the order they were sent, each once and as it was sent. *)
THEOREM PacketPipeImplemented == Spec => ImplementsPacketPipe
<1> DEFINE Inv == TypeOK /\ ReadInv
           s == IF whole THEN sent ELSE <<>>
           g == IF whole THEN got ELSE <<>>
<1>1. Init => Inv
  BY InitTyped, InitReads
<1>2. Inv /\ [Next]_vars => Inv'
  BY StepTyped, StepReads
<1>3. Init => Pipe!Init
  BY DEF Init, Pipe!Init
<1>4. Inv /\ [Next]_vars => [Pipe!Next]_<<s, g>>
  <2> SUFFICES ASSUME Inv, [Next]_vars PROVE Pipe!Next \/ (s' = s /\ g' = g)
    OBVIOUS
  <2>1. whole' = whole /\ whole \in BOOLEAN /\ PipeStep
    BY WholeStays, StepReads DEF TypeOK
  <2>2. CASE ~whole
    BY <2>1, <2>2
  <2>3. CASE whole
    <3>1. s = sent /\ g = got /\ s' = sent' /\ g' = got'
      BY <2>1, <2>3
    <3>2. CASE sent' = sent /\ got' = got
      BY <3>1, <3>2
    <3>3. CASE TakesOne
      <4>1. Pipe!TakePacket
        BY <2>1, <2>3, <3>3 DEF TakesOne, Pipe!TakePacket
      <4> QED
        BY <4>1 DEF Pipe!Next
    <3>4. CASE got' = got /\ \E p \in BrokerPackets : sent' = Append(sent, p)
      <4>1. PICK p \in BrokerPackets : sent' = Append(sent, p)
        BY <3>4
      <4>2. Pipe!SendPacket(p)
        BY <2>1, <2>3, <3>4, <4>1 DEF Pipe!SendPacket
      <4> QED
        BY <4>2 DEF Pipe!Next
    <3> QED
      BY <2>1, <2>3, <3>2, <3>3, <3>4 DEF PipeStep
  <2> QED
    BY <2>1, <2>2, <2>3
<1> HIDE DEF Inv
<1> QED
  BY <1>1, <1>2, <1>3, <1>4, PTL DEF Spec, ImplementsPacketPipe, Pipe!Spec

-------------------------------------------------------------------------------
(* Answers. *)

(* Which packets of g ask for an answer, and which of d are one. *)
AskedIn(g) == {i \in 1..Len(g) : Answers(g[i])}
GivenIn(d) == {i \in 1..Len(d) : ~OfItsOwn(d[i])}

(* The answers in d are those the packets in g ask for; where ahead is 1 there is one more,   *)
(* for p. *)
Matched(g, d) ==
  \A i \in AskedIn(g), j \in GivenIn(d) :
    Nth(AskedIn(g), i) = Nth(GivenIn(d), j) => Settles(d[j], g[i])
Account(g, d, ahead, p) ==
  /\ Cardinality(GivenIn(d)) = Cardinality(AskedIn(g)) + ahead
  /\ Matched(g, d)
  /\ ahead = 1 => \A j \in GivenIn(d) : Nth(GivenIn(d), j) = Cardinality(GivenIn(d)) => Settles(d[j], p)

(* The places of a set of numbers, and of the same set with one more behind them. *)
Ranked(S, T, m) ==
  /\ Cardinality(S) \in Nat /\ Cardinality(T) = Cardinality(S) + 1 /\ m \in T
  /\ Nth(T, m) = Cardinality(S) + 1
  /\ \A i \in S : i \in T /\ Nth(T, i) = Nth(S, i) /\ Nth(S, i) <= Cardinality(S) /\ Nth(S, i) \in Nat
  /\ \A i \in T : i \in S \/ i = m

LEMMA RankBounded ==
  ASSUME NEW n \in Nat, NEW S \in SUBSET (1..n), NEW i
  PROVE  Nth(S, i) <= Cardinality(S) /\ Nth(S, i) \in Nat /\ Cardinality(S) \in Nat /\ IsFiniteSet(S)
<1>1. IsFiniteSet(1..n)
  BY FS_Interval
<1>2. IsFiniteSet(S)
  BY <1>1, FS_Subset
<1> DEFINE R == {j \in S : j <= i}
<1>3. R \in SUBSET S
  OBVIOUS
<1> HIDE DEF R
<1>4. IsFiniteSet(R) /\ Cardinality(R) <= Cardinality(S)
  BY <1>2, <1>3, FS_Subset
<1>5. Cardinality(R) \in Nat /\ Cardinality(S) \in Nat
  BY <1>2, <1>4, FS_CardinalityType
<1> QED
  BY <1>2, <1>4, <1>5, Zenon DEF Nth, R

LEMMA OneMore ==
  ASSUME NEW n \in Nat, NEW S \in SUBSET (1..n)
  PROVE  Ranked(S, S \cup {n + 1}, n + 1)
<1> DEFINE m == n + 1
           T == S \cup {m}
<1>1. m \notin S /\ \A i \in S : i <= m /\ ~(m <= i)
  OBVIOUS
<1>2. IsFiniteSet(S) /\ Cardinality(S) \in Nat
  BY RankBounded
<1>3. Cardinality(T) = Cardinality(S) + 1
  <2> HIDE DEF m
  <2> QED
    BY <1>1, <1>2, FS_AddElement
<1>4. {j \in T : j <= m} = T
  <2>1. \A j \in T : j <= m
    BY <1>1
  <2> HIDE DEF T, m
  <2> QED
    BY <2>1
<1>5. \A i \in S : {j \in T : j <= i} = {j \in S : j <= i}
  BY <1>1
<1> HIDE DEF T
<1>6. Nth(T, m) = Cardinality(S) + 1
  BY <1>3, <1>4, Zenon DEF Nth
<1>7. ASSUME NEW i \in S PROVE Nth(T, i) = Nth(S, i)
  BY <1>5, <1>7, Zenon DEF Nth
<1>8. \A i \in S : Nth(S, i) <= Cardinality(S) /\ Nth(S, i) \in Nat
  BY RankBounded, Zenon
<1>9. m \in T /\ (\A i \in S : i \in T) /\ (\A i \in T : i \in S \/ i = m)
  BY DEF T
<1> HIDE DEF m
<1>10. Ranked(S, T, m)
  BY <1>2, <1>3, <1>6, <1>7, <1>8, <1>9, Zenon DEF Ranked
<1> QED
  BY <1>10 DEF T, m

(* One more packet behind the others asks for an answer or does not. *)
LEMMA AskedGrows ==
  ASSUME NEW S, NEW g \in Seq(S), NEW p
  PROVE  /\ AskedIn(Append(g, p)) = IF Answers(p) THEN AskedIn(g) \cup {Len(g) + 1} ELSE AskedIn(g)
         /\ AskedIn(g) \in SUBSET (1..Len(g)) /\ Len(g) \in Nat
         /\ Append(g, p)[Len(g) + 1] = p /\ \A i \in AskedIn(g) : Append(g, p)[i] = g[i]
<1> DEFINE h == Append(g, p)
<1>1. /\ Len(g) \in Nat /\ Len(h) = Len(g) + 1 /\ h[Len(g) + 1] = p
      /\ \A i \in 1..Len(g) : h[i] = g[i]
  <2>1. g \in Seq(S \cup {p})
    OBVIOUS
  <2> QED
    BY <2>1
<1> HIDE DEF h
<1>2. 1..Len(h) = (1..Len(g)) \cup {Len(g) + 1}
  BY <1>1
<1>3. AskedIn(g) \in SUBSET (1..Len(g))
  BY Zenon DEF AskedIn
<1>4. \A i : i \in AskedIn(h) <=> (i \in AskedIn(g) \/ (i = Len(g) + 1 /\ Answers(p)))
  BY <1>1, <1>2, Zenon DEF AskedIn
<1>5. AskedIn(h) = IF Answers(p) THEN AskedIn(g) \cup {Len(g) + 1} ELSE AskedIn(g)
  BY <1>4
<1> QED
  BY <1>1, <1>3, <1>5, Zenon DEF h

LEMMA GivenGrows ==
  ASSUME NEW d \in Seq(Seq(Byte)), NEW b \in Seq(Byte)
  PROVE  /\ GivenIn(Append(d, b)) = IF OfItsOwn(b) THEN GivenIn(d) ELSE GivenIn(d) \cup {Len(d) + 1}
         /\ GivenIn(d) \in SUBSET (1..Len(d)) /\ Len(d) \in Nat
         /\ Append(d, b)[Len(d) + 1] = b /\ \A i \in GivenIn(d) : Append(d, b)[i] = d[i]
<1> DEFINE h == Append(d, b)
<1>1. /\ Len(d) \in Nat /\ Len(h) = Len(d) + 1 /\ h[Len(d) + 1] = b
      /\ \A i \in 1..Len(d) : h[i] = d[i]
  OBVIOUS
<1> HIDE DEF h
<1>2. 1..Len(h) = (1..Len(d)) \cup {Len(d) + 1}
  BY <1>1
<1>3. GivenIn(d) \in SUBSET (1..Len(d))
  BY Zenon DEF GivenIn
<1>4. \A i : i \in GivenIn(h) <=> (i \in GivenIn(d) \/ (i = Len(d) + 1 /\ ~OfItsOwn(b)))
  BY <1>1, <1>2, Zenon DEF GivenIn
<1>5. GivenIn(h) = IF OfItsOwn(b) THEN GivenIn(d) ELSE GivenIn(d) \cup {Len(d) + 1}
  BY <1>4
<1> QED
  BY <1>1, <1>3, <1>5, Zenon DEF h

(* A packet that asks for nothing is taken. *)
LEMMA TakesOther ==
  ASSUME NEW S, NEW g \in Seq(S), NEW d, NEW p, NEW w, NEW v, ~Answers(p), Account(g, d, 0, w)
  PROVE  Account(Append(g, p), d, 0, v)
<1>1. /\ AskedIn(Append(g, p)) = AskedIn(g) /\ \A i \in AskedIn(g) : Append(g, p)[i] = g[i]
  BY AskedGrows, Zenon
<1>2. Matched(Append(g, p), d)
  BY <1>1, Zenon DEF Matched, Account
<1> QED
  BY <1>1, <1>2 DEF Account

(* A message of the lock's own is sent. *)
LEMMA GivesOther ==
  ASSUME NEW g, NEW d \in Seq(Seq(Byte)), NEW b \in Seq(Byte), NEW w, NEW v,
         OfItsOwn(b), Account(g, d, 0, w)
  PROVE  Account(g, Append(d, b), 0, v)
<1>1. /\ GivenIn(Append(d, b)) = GivenIn(d) /\ \A i \in GivenIn(d) : Append(d, b)[i] = d[i]
  BY GivenGrows, Zenon
<1>2. Matched(g, Append(d, b))
  BY <1>1, Zenon DEF Matched, Account
<1> QED
  BY <1>1, <1>2 DEF Account

(* An answer is sent: nothing that was taken asks for it yet. *)
LEMMA GivesAnswer ==
  ASSUME NEW S, NEW g \in Seq(S), NEW d \in Seq(Seq(Byte)), NEW b \in Seq(Byte), NEW w,
         ~OfItsOwn(b), NEW p, Settles(b, p), Account(g, d, 0, w)
  PROVE  Account(g, Append(d, b), 1, p)
<1> DEFINE A == AskedIn(g)
           G == GivenIn(d)
           m == Len(d) + 1
           e == Append(d, b)
           H == GivenIn(e)
<1>1. /\ H = G \cup {m} /\ e[m] = b /\ \A j \in G : e[j] = d[j]
  BY GivenGrows, Zenon
<1>2. Ranked(G, H, m)
  BY <1>1, GivenGrows, OneMore
<1>3. \A i \in A : Nth(A, i) <= Cardinality(A) /\ Nth(A, i) \in Nat /\ Cardinality(A) \in Nat
  <2>1. AskedIn(g) \in SUBSET (1..Len(g)) /\ Len(g) \in Nat
    BY AskedGrows, Zenon
  <2> QED
    BY <2>1, RankBounded, Zenon
<1>4. Cardinality(G) = Cardinality(A)
  <2>1. Cardinality(G) = Cardinality(A) + 0
    BY Zenon DEF Account
  <2>2. CASE A = {}
    <3>1. Cardinality(A) = 0
      BY <2>2, FS_EmptySet
    <3> HIDE DEF A, G
    <3> QED
      BY <2>1, <3>1
  <2>3. CASE A # {}
    <3>1. Cardinality(A) \in Nat
      BY <1>3, <2>3, Zenon
    <3> HIDE DEF A, G
    <3> QED
      BY <2>1, <3>1
  <2> QED
    BY <2>2, <2>3
<1>5. Cardinality(H) = Cardinality(A) + 1
  BY <1>2, <1>4, Zenon DEF Ranked
<1> HIDE DEF A, G, H, m, e
<1>6. ASSUME NEW i \in A, NEW j \in H, Nth(A, i) = Nth(H, j) PROVE Settles(e[j], g[i])
  <2>1. j \in G
    <3>1. Nth(H, m) = Cardinality(G) + 1
      BY <1>2, Zenon DEF Ranked
    <3>2. j # m
      BY <1>3, <1>4, <1>6, <3>1
    <3> QED
      BY <1>2, <3>2, Zenon DEF Ranked
  <2>2. Nth(A, i) = Nth(G, j)
    BY <1>2, <1>6, <2>1, Zenon DEF Ranked
  <2>3. Settles(d[j], g[i])
    BY <2>1, <2>2, Zenon DEF Account, Matched, A, G
  <2> QED
    BY <1>1, <2>1, <2>3, Zenon
<1>7. ASSUME NEW j \in H, Nth(H, j) = Cardinality(H) PROVE Settles(e[j], p)
  <2>1. j \notin G
    BY <1>2, <1>7 DEF Ranked
  <2>2. j = m
    BY <1>2, <2>1, Zenon DEF Ranked
  <2> QED
    BY <1>1, <2>2, Zenon
<1>8. Matched(g, e)
  BY <1>6, Zenon DEF Matched, A, H
<1> QED
  BY <1>5, <1>7, <1>8, Zenon DEF Account, A, H, e

(* The packet the last answer is for is taken. *)
LEMMA TakesAnswered ==
  ASSUME NEW S, NEW g \in Seq(S), NEW d \in Seq(Seq(Byte)), NEW p, NEW w, NEW v,
         Answers(p), Account(g, d, 1, p)
  PROVE  Account(Append(g, p), d, 0, v)
<1> DEFINE A == AskedIn(g)
           G == GivenIn(d)
           m == Len(g) + 1
           h == Append(g, p)
           B == AskedIn(h)
<1>1. /\ B = A \cup {m} /\ h[m] = p /\ \A i \in A : h[i] = g[i]
  BY AskedGrows, Zenon
<1>2. Ranked(A, B, m)
  BY <1>1, AskedGrows, OneMore
<1>3. Cardinality(G) = Cardinality(A) + 1 /\ Cardinality(A) \in Nat
  BY <1>2, Zenon DEF Account, Ranked
<1> HIDE DEF A, G, B, m, h
<1>4. Cardinality(G) = Cardinality(B) + 0
  BY <1>2, <1>3 DEF Ranked
<1>5. ASSUME NEW i \in B, NEW j \in G, Nth(B, i) = Nth(G, j) PROVE Settles(d[j], h[i])
  <2>1. CASE i \in A
    <3>1. Nth(A, i) = Nth(G, j)
      BY <1>2, <1>5, <2>1, Zenon DEF Ranked
    <3>2. Settles(d[j], g[i])
      BY <2>1, <3>1, Zenon DEF Account, Matched, A, G
    <3> QED
      BY <1>1, <2>1, <3>2, Zenon
  <2>2. CASE i = m
    <3>1. Nth(G, j) = Cardinality(G)
      BY <1>2, <1>3, <1>5, <2>2, Zenon DEF Ranked
    <3>2. Settles(d[j], p)
      BY <3>1, Zenon DEF Account, G
    <3> QED
      BY <1>1, <2>2, <3>2, Zenon
  <2> QED
    BY <1>2, <2>1, <2>2, Zenon DEF Ranked
<1>6. Matched(h, d)
  BY <1>5, Zenon DEF Matched, B, G
<1>7. 0 # 1
  OBVIOUS
<1> QED
  BY <1>4, <1>6, <1>7, Zenon DEF Account, B, G, h

(* What an answer says, and that the lock's own messages are none. *)
LEMMA AckSays ==
  ASSUME NEW type \in DOMAIN msgTypes, type \notin {"PUBLISH", "PINGREQ"}, NEW id \in Id
  PROVE  LET b == MQTTSerialize_ack(BufSize, type, 0, id)
         IN ~OfItsOwn(b) /\ IsType(b, type) /\ MQTTDeserialize_ack(b).id = id
<1> DEFINE b == MQTTSerialize_ack(BufSize, type, 0, id)
<1>1. BufSize \in Nat /\ BufSize >= 4
  BY Sizes
<1>2. PICK h \in Byte : Frames(b, h, 8, writeInt64(id)) /\ TypeBits(h) = msgTypes[type]
  BY <1>1, AckFrames, Zenon
<1> HIDE DEF b
<1>3. /\ b \in Seq(Byte) /\ Len(b) = 1 + Len(MQTTPacket_encode[8]) + 8
      /\ Len(MQTTPacket_encode[8]) \in 1..4
  BY <1>2, FrameBytes, Zenon
<1>4. Holds(b, 1, b)
  BY <1>3 DEF Holds
<1>5. /\ b[1] = h /\ BodyStart(b) = 2 + Len(MQTTPacket_encode[8])
      /\ BodyEnd(b) = BodyStart(b) + 8 /\ Holds(b, BodyStart(b), writeInt64(id))
  BY <1>2, <1>4, FrameRead
<1>6. TypeBits(b[1]) = msgTypes[type]
  BY <1>2, <1>5, Zenon
<1>7. \A t \in DOMAIN msgTypes : IsType(b, t) <=> t = type
  BY <1>6, HeaderType, Zenon
<1> DEFINE at == BodyStart(b)
<1>9. at \in Nat /\ at + 7 <= Len(b) /\ ~(BodyEnd(b) - at < 2)
  <2> HIDE DEF at
  <2>1. at = 2 + Len(MQTTPacket_encode[8]) /\ BodyEnd(b) = at + 8
    BY <1>5 DEF at
  <2> QED
    BY <1>3, <2>1
<1>10. readInt64(b, at) = id
  BY <1>3, <1>5, <1>9, ReadsId
<1>11. MQTTDeserialize_ack(b)
         = [rc |-> 1, read |-> TRUE, type |-> TypeBits(b[1]), dup |-> DupBit(b[1]),
            id |-> readInt64(b, at)]
  BY <1>9, Zenon DEF MQTTDeserialize_ack
<1>12. MQTTDeserialize_ack(b).id = id
  BY <1>10, <1>11
<1>13. ~OfItsOwn(b) /\ IsType(b, type)
  <2>1. "PUBLISH" \in DOMAIN msgTypes /\ "PINGREQ" \in DOMAIN msgTypes
    BY TypeNames
  <2> QED
    BY <1>7, <2>1, Zenon DEF OfItsOwn
<1> QED
  BY <1>12, <1>13, Zenon DEF b

LEMMA OwnIsOwn ==
  ASSUME NEW retained \in {0, 1}, NEW topic \in Seq(Byte), NEW payload \in Seq(Byte),
         MQTTSerialize_publish(BufSize, OwnPublish(retained, topic, payload)) # <<>>
  PROVE  OfItsOwn(MQTTSerialize_publish(BufSize, OwnPublish(retained, topic, payload)))
<1> DEFINE p == OwnPublish(retained, topic, payload)
           b == MQTTSerialize_publish(BufSize, p)
<1>1. /\ p.dup = 0 /\ p.qos = 1 /\ p.retained = retained /\ p.id = IdOfReports
      /\ p.topic = topic /\ p.payload = payload
  BY DEF OwnPublish
<1>2. IdOfReports \in Id
  BY DEF IdOfReports, Id, Word
<1> HIDE DEF p
<1>3. PublishFields(p)
  BY <1>1, <1>2 DEF PublishFields
<1>4. Fits(PublishLength(p), BufSize)
  <2> SUFFICES ASSUME ~Fits(PublishLength(p), BufSize) PROVE FALSE
    OBVIOUS
  <2>1. b = <<>>
    BY Zenon DEF MQTTSerialize_publish, PublishLength, TooShort
  <2> QED
    BY <2>1 DEF p
<1>5. PICK h \in Byte : /\ HeaderBits(h, "PUBLISH", p.dup, p.qos, p.retained)
                        /\ b = <<h>> \o MQTTPacket_encode[PublishLength(p)] \o PublishBody(p)
  BY <1>3, <1>4, PublishFrames, Zenon
<1> HIDE DEF b
<1>6. PublishLength(p) \in Nat /\ PublishBody(p) \in Seq(Byte)
  BY <1>3, PublishBodyBytes
<1>7. MQTTPacket_encode[PublishLength(p)] \in Seq(Byte)
  BY <1>6, EncodeUnfolds, Zenon
<1>8. b[1] = h
  <2> DEFINE e == MQTTPacket_encode[PublishLength(p)]
             c == PublishBody(p)
  <2>1. e \in Seq(Byte) /\ c \in Seq(Byte) /\ b = <<h>> \o e \o c
    BY <1>5, <1>6, <1>7
  <2> HIDE DEF e, c
  <2> QED
    BY <2>1
<1>9. IsType(b, "PUBLISH")
  BY <1>5, <1>8, Zenon DEF IsType, HeaderBits
<1> QED
  BY <1>9, Zenon DEF OfItsOwn, b, p

LEMMA PublishQos ==
  ASSUME MQTTDeserialize_publish(readbuf).read
  PROVE  MQTTDeserialize_publish(readbuf).qos = QosBits(readbuf[1])
<1>1. PICK n, o, e :
        MQTTDeserialize_publish(readbuf) =
          IF ~IsType(readbuf, "PUBLISH") THEN WrongType
          ELSE IF ~n.ok THEN TooEarly(readbuf)
          ELSE [rc |-> 1, read |-> TRUE, dup |-> DupBit(readbuf[1]), qos |-> QosBits(readbuf[1]),
                retained |-> RetainBit(readbuf[1]), id |-> o,
                topicName |-> n.data, payload |-> n.next + IdLength(QosBits(readbuf[1])),
                payloadlen |-> e - (n.next + IdLength(QosBits(readbuf[1])))]
  BY Zenon DEF MQTTDeserialize_publish
<1> QED
  BY <1>1 DEF WrongType, TooEarly

(* An acknowledgement of this type and identifier is the answer to what is taken. *)
Suits(type, id) ==
  \A b : IsType(b, type) /\ MQTTDeserialize_ack(b).id = id => Settles(b, Taken)

LEMMA PubrecAsks ==
  ASSUME PacketType = "PUBREC"
  PROVE  /\ Answers(Taken)
         /\ \A id \in Answering(MQTTDeserialize_ack(readbuf)) : Suits("PUBREL", id)
<1> DEFINE d == MQTTDeserialize_ack(readbuf)
<1>1. CASE d.read
  <2>1. Taken = [type |-> "PUBREC", id |-> d.id]
    BY <1>1 DEF Taken
  <2> HIDE DEF d
  <2>2. Taken.type = "PUBREC" /\ Taken.id = d.id
    BY <2>1
  <2>3. Answering(d) = {d.id}
    BY <1>1 DEF Answering
  <2>4. Answers(Taken)
    BY <2>2 DEF Answers
  <2>5. Suits("PUBREL", d.id)
    <3> SUFFICES ASSUME NEW b, IsType(b, "PUBREL"), MQTTDeserialize_ack(b).id = d.id
                 PROVE  Settles(b, Taken)
      BY Zenon DEF Suits
    <3>1. AnswerType(Taken) = "PUBREL"
      BY <2>2 DEF AnswerType
    <3>2. MQTTDeserialize_ack(b).id = Taken.id
      BY <2>2
    <3> QED
      BY <3>1, <3>2, Zenon DEF Settles
  <2>6. \A id \in Answering(d) : Suits("PUBREL", id)
    BY <2>3, <2>5
  <2> QED
    BY <2>4, <2>6 DEF d
<1>2. CASE ~d.read
  <2>1. Taken = [type |-> "short_PUBREC"]
    BY <1>2 DEF Taken
  <2>2. Taken.type = "short_PUBREC"
    BY <2>1
  <2>3. Answers(Taken)
    BY <2>2 DEF Answers
  <2>4. "short_PUBREC" # "PUBREC"
    OBVIOUS
  <2>5. \A id : Suits("PUBREL", id)
    <3> SUFFICES ASSUME NEW id, NEW b, IsType(b, "PUBREL")
                 PROVE  Settles(b, Taken)
      BY Zenon DEF Suits
    <3>1. AnswerType(Taken) = "PUBREL"
      BY <2>2 DEF AnswerType
    <3>2. Taken.type \notin {"PUBREC", "PUBLISH"}
      BY <2>2
    <3> QED
      BY <3>1, <3>2, Zenon DEF Settles
  <2> QED
    BY <2>3, <2>5, Zenon
<1> QED
  BY <1>1, <1>2

LEMMA PublishAsks ==
  ASSUME PacketType = "PUBLISH"
  PROVE  LET d == MQTTDeserialize_publish(readbuf)
             qos == QosBits(readbuf[1])
         IN /\ Answers(Taken) <=> qos > 0
            /\ d.read => Taken = Handed(d)
            /\ \A id \in Answering(d) : Suits(IF qos = 1 THEN "PUBACK" ELSE "PUBREC", id)
<1> DEFINE d == MQTTDeserialize_publish(readbuf)
           qos == QosBits(readbuf[1])
           type == IF qos = 1 THEN "PUBACK" ELSE "PUBREC"
<1>1. CASE d.read
  <2>1. Taken = Handed(d)
    BY <1>1 DEF Taken
  <2>2. d.qos = qos
    BY <1>1, PublishQos
  <2> HIDE DEF d, qos
  <2>3. Taken.type = "PUBLISH" /\ Taken.qos = qos /\ Taken.id = d.id
    BY <2>1, <2>2 DEF Handed
  <2>4. Answering(d) = {d.id}
    BY <1>1 DEF Answering
  <2>5. Answers(Taken) <=> qos > 0
    BY <2>3 DEF Answers
  <2>6. Suits(type, d.id)
    BY <2>3 DEF Suits, Settles, AnswerType
  <2>7. \A id \in Answering(d) : Suits(type, id)
    BY <2>4, <2>6
  <2> QED
    BY <2>1, <2>5, <2>7 DEF d, qos
<1>2. CASE ~d.read
  <2>1. Taken = [type |-> "short_PUBLISH", qos |-> qos]
    BY <1>2 DEF Taken
  <2> HIDE DEF d, qos
  <2>2. Taken.type = "short_PUBLISH" /\ Taken.qos = qos
    BY <2>1
  <2>3. Answers(Taken) <=> qos > 0
    BY <2>2 DEF Answers
  <2>4. \A id : Suits(type, id)
    BY <2>2 DEF Suits, Settles, AnswerType
  <2> QED
    BY <1>2, <2>3, <2>4, Zenon DEF d, qos
<1> QED
  BY <1>1, <1>2

LEMMA OtherAsksNothing ==
  ASSUME PacketType \notin {"PUBLISH", "PUBREC"}
  PROVE  ~Answers(Taken)
<1>1. Taken.type = PacketType
  BY DEF Taken
<1>2. Taken.type \notin {"PUBLISH", "PUBREC", "short_PUBLISH", "short_PUBREC"}
  <2>1. PacketType \notin {"short_PUBLISH", "short_PUBREC"}
    <3>1. PacketType \in DOMAIN msgTypes \cup {"none"}
      BY DEF PacketType
    <3>2. {"short_PUBLISH", "short_PUBREC"} \cap (DOMAIN msgTypes \cup {"none"}) = {}
      BY DEF msgTypes
    <3> QED
      BY <3>1, <3>2
  <2> QED
    BY <1>1, <2>1
<1> QED
  BY <1>2 DEF Answers

LEMMA SameTaken ==
  ASSUME readbuf' = readbuf
  PROVE  Taken' = Taken /\ PacketType' = PacketType
<1>1. PacketType' = PacketType
  BY DEF PacketType
<1>2. Taken' = Taken
  BY <1>1 DEF Taken, Handed, Payload
<1> QED
  BY <1>1, <1>2

(* The answers and the packets taken keep pace: the answer to a PUBLISH is one ahead until the *)
(* message is handed over, and what is being sent is the answer to what stands in readbuf or a *)
(* message of the lock's own. *)
Ahead(c, b) == IF c = "arrived" /\ QosBits(b[1]) > 0 THEN 1 ELSE 0
JobAnswers ==
  pc = "send" =>
    /\ job.for \in {"own", "report", "keepalive"} => OfItsOwn(job.bytes)
    /\ job.for \in {"PUBLISH", "PUBREC"} =>
         /\ ~OfItsOwn(job.bytes) /\ Settles(job.bytes, Taken)
         /\ PacketType = job.for /\ Answers(Taken)
         /\ job.for = "PUBLISH" => QosBits(readbuf[1]) > 0
AnswerInv ==
  /\ \E S : got \in Seq(S)
  /\ pc \notin {"past readbuf", "stray"} => Account(got, done, Ahead(pc, readbuf), Taken)
  /\ pc = "arrived" => PacketType = "PUBLISH" /\ (Answers(Taken) <=> QosBits(readbuf[1]) > 0)
  /\ JobAnswers

LEMMA NoneAhead ==
  ASSUME NEW c, NEW b, c # "arrived"
  PROVE  Ahead(c, b) = 0
BY DEF Ahead

LEMMA AnyAnswer ==
  ASSUME NEW g, NEW d, NEW w, NEW v, Account(g, d, 0, w)
  PROVE  Account(g, d, 0, v)
<1>1. 0 # 1
  OBVIOUS
<1> QED
  BY <1>1, Zenon DEF Account

LEMMA AppendTaken ==
  ASSUME NEW S, NEW g \in Seq(S), NEW p
  PROVE  \E T : Append(g, p) \in Seq(T)
<1>1. Append(g, p) \in Seq(S \cup {p})
  OBVIOUS
<1> QED
  BY <1>1, Zenon

(* The task comes to a place where nothing is being answered. *)
LEMMA ComesToRest ==
  ASSUME AnswerInv, pc \notin {"past readbuf", "stray"}, pc # "arrived", UNCHANGED <<got, done>>,
         pc' # "arrived", JobAnswers'
  PROVE  AnswerInv'
<1>1. Account(got, done, 0, Taken)
  BY NoneAhead, Zenon DEF AnswerInv
<1>2. got' = got /\ done' = done
  OBVIOUS
<1>3. Account(got', done', 0, Taken')
  BY <1>1, <1>2, AnyAnswer, Zenon
<1>4. Ahead(pc', readbuf') = 0
  BY NoneAhead, Zenon
<1> QED
  BY <1>2, <1>3, <1>4, Zenon DEF AnswerInv

(* A packet is taken, and nothing is answered then. *)
LEMMA ComesAfter ==
  ASSUME AnswerInv, NEW x, got' = Append(got, x), pc' # "arrived", JobAnswers',
         pc' \notin {"past readbuf", "stray"} => \A v : Account(got', done', 0, v)
  PROVE  AnswerInv'
<1>1. \E T : got' \in Seq(T)
  BY AppendTaken, Zenon DEF AnswerInv
<1>2. Ahead(pc', readbuf') = 0
  BY NoneAhead, Zenon
<1> QED
  BY <1>1, <1>2, Zenon DEF AnswerInv

LEMMA JobRests ==
  ASSUME pc' # "send"
  PROVE  JobAnswers'
BY DEF JobAnswers

(* A message of the lock's own. *)
LEMMA ReportAnswers ==
  ASSUME NEW topic \in Seq(Byte), NEW payload \in Seq(Byte), NEW for \in {"own", "report"},
         TypeOK, publish_message(topic, payload, for)
  PROVE  JobAnswers' /\ pc' # "arrived"
<1>0. online \in BOOLEAN
  BY DEF TypeOK
<1>1. PICK retained \in {0, 1} :
        LET bytes == MQTTSerialize_publish(BufSize, OwnPublish(retained, topic, payload))
        IN CASE online /\ bytes # TooShort -> StartSend(bytes, for) /\ UNCHANGED queue
             [] online /\ bytes = TooShort ->
                  pc' = After(for) /\ queue' = Append(queue, "CLOSE") /\ UNCHANGED job
             [] OTHER ->
                  /\ pc' = IF Len(payload) > BufSize THEN "past pubMsg" ELSE After(for)
                  /\ UNCHANGED <<job, queue>>
  BY DEF publish_message, OwnPublish
<1> DEFINE bytes == MQTTSerialize_publish(BufSize, OwnPublish(retained, topic, payload))
<1>b. bytes # <<>> => OfItsOwn(bytes)
  BY OwnIsOwn, Zenon
<1> HIDE DEF bytes
<1>2. After(for) \in {"idle", "header"}
  BY DEF After
<1>3. CASE online /\ bytes # TooShort
  <2>1. StartSend(bytes, for)
    BY <1>1, <1>3 DEF bytes
  <2>2. pc' = "send" /\ job'.bytes = bytes /\ job'.for = for
    BY <2>1 DEF StartSend
  <2>3. OfItsOwn(bytes)
    BY <1>3, <1>b DEF TooShort
  <2>4. OfItsOwn(job'.bytes) /\ job'.for \in {"own", "report"}
        /\ job'.for \notin {"PUBLISH", "PUBREC"}
    <3>1. for \in {"own", "report"} /\ for \notin {"PUBLISH", "PUBREC"}
      OBVIOUS
    <3> QED
      BY <2>2, <2>3, <3>1, Zenon
  <2>5. JobAnswers'
    BY <2>4, Zenon DEF JobAnswers
  <2> QED
    BY <2>2, <2>5
<1>4. CASE online /\ bytes = TooShort
  <2>1. pc' = After(for)
    BY <1>1, <1>4 DEF bytes
  <2> QED
    BY <1>2, <2>1, JobRests
<1>5. CASE ~online
  <2>1. pc' = IF Len(payload) > BufSize THEN "past pubMsg" ELSE After(for)
    BY <1>1, <1>5 DEF bytes
  <2> QED
    BY <1>2, <2>1, JobRests
<1> QED
  BY <1>0, <1>3, <1>4, <1>5

(* sendPacket returns. *)
LEMMA SucceedsAnswers ==
  ASSUME TypeOK, AnswerInv, pc = "send", Succeeds, UNCHANGED readbuf
  PROVE  AnswerInv'
<1>0. /\ job.for \in {"own", "report", "keepalive", "PUBLISH", "PUBREC"}
      /\ job.bytes \in Seq(Byte) /\ done \in Seq(Seq(Byte))
  BY DEF TypeOK, JobOK, Jobs
<1>1. /\ done' = Append(done, job.bytes) /\ pc' = After(job.for) /\ readbuf' = readbuf
      /\ got' = IF job.for = "PUBREC" THEN Append(got, Taken) ELSE got
  BY DEF Succeeds
<1>2. Account(got, done, 0, Taken)
  BY NoneAhead, Zenon DEF AnswerInv
<1>3. PICK S : got \in Seq(S)
  BY Zenon DEF AnswerInv
<1>4. pc' # "send" /\ JobAnswers'
  BY <1>0, <1>1, JobRests DEF After
<1>5. Taken' = Taken /\ PacketType' = PacketType
  BY <1>1, SameTaken, Zenon
<1>6. CASE job.for \in {"own", "report", "keepalive"}
  <2>1. OfItsOwn(job.bytes)
    BY <1>6, Zenon DEF AnswerInv, JobAnswers
  <2>2. got' = got /\ pc' # "arrived"
    BY <1>1, <1>6 DEF After
  <2>3. Account(got, done', 0, Taken')
    BY <1>0, <1>1, <1>2, <2>1, GivesOther, Zenon
  <2>4. Ahead(pc', readbuf') = 0
    BY <2>2, NoneAhead, Zenon
  <2> QED
    BY <1>3, <1>4, <2>2, <2>3, <2>4, Zenon DEF AnswerInv
<1>7. CASE job.for = "PUBLISH"
  <2>1. /\ ~OfItsOwn(job.bytes) /\ Settles(job.bytes, Taken)
        /\ Answers(Taken) /\ QosBits(readbuf[1]) > 0 /\ PacketType = "PUBLISH"
    BY <1>7, Zenon DEF AnswerInv, JobAnswers
  <2>2. got' = got /\ pc' = "arrived"
    BY <1>1, <1>7 DEF After
  <2>3. Account(got, done', 1, Taken)
    BY <1>0, <1>1, <1>2, <1>3, <2>1, GivesAnswer, Zenon
  <2>4. Ahead(pc', readbuf') = 1
    BY <1>1, <2>1, <2>2, Zenon DEF Ahead
  <2> QED
    BY <1>1, <1>3, <1>4, <1>5, <2>1, <2>2, <2>3, <2>4, Zenon DEF AnswerInv
<1>8. CASE job.for = "PUBREC"
  <2>1. ~OfItsOwn(job.bytes) /\ Settles(job.bytes, Taken) /\ Answers(Taken)
    BY <1>8, Zenon DEF AnswerInv, JobAnswers
  <2>2. got' = Append(got, Taken) /\ pc' # "arrived"
    BY <1>1, <1>8 DEF After
  <2>3. Account(got, done', 1, Taken)
    BY <1>0, <1>1, <1>2, <1>3, <2>1, GivesAnswer, Zenon
  <2>4. done' \in Seq(Seq(Byte))
    BY <1>0, <1>1
  <2>5. \A v : Account(got', done', 0, v)
    BY <1>3, <2>1, <2>2, <2>3, <2>4, TakesAnswered, Zenon
  <2> QED
    BY <1>4, <2>2, <2>5, ComesAfter, Zenon
<1> QED
  BY <1>0, <1>6, <1>7, <1>8

LEMMA FailsAnswers ==
  ASSUME TypeOK, AnswerInv, pc = "send", Fails
  PROVE  AnswerInv'
<1>1. /\ done' = done /\ pc' \in {"idle", "header"}
      /\ got' = got \/ got' = Append(got, PutAside)
  BY DEF Fails
<1>2. JobAnswers' /\ pc' # "arrived"
  BY <1>1, JobRests
<1>3. CASE got' = got
  BY <1>1, <1>2, <1>3, ComesToRest
<1>4. CASE got' = Append(got, PutAside)
  <2>1. ~Answers(PutAside)
    BY DEF Answers, PutAside
  <2>2. Account(got, done, 0, Taken)
    BY NoneAhead, Zenon DEF AnswerInv
  <2>3. \A v : Account(got', done', 0, v)
    <3>1. PICK S : got \in Seq(S)
      BY Zenon DEF AnswerInv
    <3> QED
      BY <1>1, <1>4, <2>1, <2>2, <3>1, TakesOther, Zenon
  <2> QED
    BY <1>2, <1>4, <2>3, ComesAfter, Zenon
<1> QED
  BY <1>1, <1>3, <1>4

LEMMA WriteAnswers ==
  ASSUME NEW n \in Nat, TypeOK, AnswerInv, Write(n)
  PROVE  AnswerInv'
<1> DEFINE length == Len(job.bytes)
           total == job.sent + n
<1>1. /\ pc = "send" /\ job \in Jobs /\ length \in Nat /\ total \in Nat
  BY DEF Write, TypeOK, JobOK, Jobs
<1>2. UNCHANGED readbuf
  BY DEF Write
<1>3. CASE total < length
  <2>1. job' = [job EXCEPT !.sent = total] /\ UNCHANGED <<pc, done, got>>
    BY <1>3 DEF Write
  <2>2. job'.for = job.for /\ job'.bytes = job.bytes
    BY <1>1, <2>1 DEF Jobs
  <2>3. Taken' = Taken /\ PacketType' = PacketType
    BY <1>2, SameTaken
  <2>4. JobAnswers'
    BY <1>2, <2>1, <2>2, <2>3, Zenon DEF AnswerInv, JobAnswers
  <2> QED
    BY <1>1, <2>1, <2>4, ComesToRest
<1>4. CASE total = length
  <2>1. Succeeds
    BY <1>1, <1>4 DEF Write
  <2> QED
    BY <1>1, <1>2, <2>1, SucceedsAnswers
<1>5. CASE total > length
  <2>1. Fails
    BY <1>1, <1>5 DEF Write
  <2> QED
    BY <1>1, <2>1, FailsAnswers
<1> QED
  BY <1>1, <1>3, <1>4, <1>5

(* The answer to a PUBLISH or a PUBREC begins to be sent. *)
LEMMA BeginsAnswer ==
  ASSUME AnswerInv, pc = "dispatch", UNCHANGED <<readbuf, got, done>>,
         NEW for \in {"PUBLISH", "PUBREC"}, NEW type \in {"PUBACK", "PUBREC", "PUBREL"},
         NEW id \in Id, StartSend(MQTTSerialize_ack(BufSize, type, 0, id), for),
         Suits(type, id), Answers(Taken), PacketType = for,
         for = "PUBLISH" => QosBits(readbuf[1]) > 0
  PROVE  AnswerInv'
<1> DEFINE b == MQTTSerialize_ack(BufSize, type, 0, id)
<1>1. ~OfItsOwn(b) /\ Settles(b, Taken)
  <2>1. type \in DOMAIN msgTypes /\ type \notin {"PUBLISH", "PINGREQ"}
    BY TypeNames
  <2>2. ~OfItsOwn(b) /\ IsType(b, type) /\ MQTTDeserialize_ack(b).id = id
    BY <2>1, AckSays, Zenon
  <2> QED
    BY <2>2, Zenon DEF Suits
<1> HIDE DEF b
<1>2. pc' = "send" /\ job'.bytes = b /\ job'.for = for
  BY DEF StartSend, b
<1>3. Taken' = Taken /\ PacketType' = PacketType /\ readbuf' = readbuf
  BY SameTaken
<1>4. for \notin {"own", "report", "keepalive"}
  OBVIOUS
<1>5. JobAnswers'
  BY <1>1, <1>2, <1>3, <1>4, Zenon DEF JobAnswers
<1> QED
  BY <1>2, <1>5, ComesToRest

LEMMA ReportBytes ==
  ASSUME NEW n \in ReportLengths
  PROVE  [i \in 1..n |-> 120] \in Seq(Byte) /\ Topic \in Seq(Byte)
<1>1. Topic \in Seq(Byte) /\ n \in Nat
  BY StreamAssumption
<1>2. 120 \in Byte
  BY SMT DEF Byte
<1> QED
  BY <1>1, <1>2

LEMMA StepAnswers ==
  ASSUME TypeOK, AnswerInv, [Next]_vars
  PROVE  AnswerInv'
<1>t. /\ readbuf \in [1..BufSize -> Byte] /\ done \in Seq(Seq(Byte))
      /\ QosBits(readbuf[1]) \in 0..3
  <2>1. readbuf \in [1..BufSize -> Byte] /\ done \in Seq(Seq(Byte))
    BY DEF TypeOK
  <2>2. 1 \in 1..BufSize
    BY Sizes
  <2>3. readbuf[1] \in Byte
    BY <2>1, <2>2, Zenon
  <2>4. \A b \in Byte : (b \div 2) % 4 \in 0..3
    BY SMT DEF Byte
  <2>5. QosBits(readbuf[1]) \in 0..3
    BY <2>3, <2>4, Zenon DEF QosBits
  <2> QED
    BY <2>1, <2>5
<1>p. PICK S : got \in Seq(S)
  BY Zenon DEF AnswerInv
<1>q. pc = "dispatch" => Account(got, done, 0, Taken)
  <2>1. pc = "dispatch" => pc # "arrived" /\ pc \notin {"past readbuf", "stray"}
    OBVIOUS
  <2> QED
    BY <2>1, NoneAhead, Zenon DEF AnswerInv
<1>1. CASE \/ BrokerSends \/ WholePacketsArrive \/ PartArrives \/ UNCHANGED vars
  <2>1. UNCHANGED <<pc, readbuf, got, done, job>>
    BY <1>1 DEF BrokerSends, WholePacketsArrive, PartArrives, Arrives, vars
  <2>2. Taken' = Taken /\ PacketType' = PacketType
    BY <2>1, SameTaken
  <2>3. pc' = pc /\ readbuf' = readbuf /\ got' = got /\ done' = done /\ job' = job
    BY <2>1
  <2> QED
    BY <2>2, <2>3, Zenon DEF AnswerInv, JobAnswers
<1>2. CASE \/ SocketReadable \/ ReadHeader \/ decodePacket \/ ReadBody \/ Ignored \/ Close
  <2>1. /\ pc \in {"idle", "header", "length", "body", "dispatch"} /\ UNCHANGED <<got, done>>
        /\ pc' \in {"idle", "header", "length", "body", "dispatch", "closed", "past readbuf"}
    BY <1>2 DEF SocketReadable, ReadHeader, decodePacket, ReadBody, Ignored, Close, Again,
                TakeMessage, writeVars
  <2>2. JobAnswers'
    BY <2>1, JobRests
  <2> QED
    BY <2>1, <2>2, ComesToRest
<1>3. CASE Connack \/ Noted
  <2>1. /\ pc = "dispatch" /\ PacketType \notin {"PUBLISH", "PUBREC"} /\ pc' = "header"
        /\ got' = Append(got, Taken) /\ done' = done
    BY <1>3 DEF Connack, Noted, Dispatch, Again, writeVars
  <2>2. ~Answers(Taken)
    BY <2>1, OtherAsksNothing, Zenon
  <2>3. \A v : Account(got', done', 0, v)
    BY <1>p, <1>q, <2>1, <2>2, TakesOther, Zenon
  <2>4. JobAnswers' /\ pc' # "arrived"
    BY <2>1, JobRests
  <2> QED
    BY <2>1, <2>3, <2>4, ComesAfter, Zenon
<1>11. CASE Puback
  <2> DEFINE b == MQTTSerialize_zero(BufSize, "PINGREQ")
  <2>1. /\ pc = "dispatch" /\ PacketType \notin {"PUBLISH", "PUBREC"} /\ StartSend(b, "keepalive")
        /\ got' = Append(got, Taken) /\ done' = done
    BY <1>11 DEF Puback, Dispatch, mqtt_keepalive
  <2>2. ~Answers(Taken)
    BY <2>1, OtherAsksNothing, Zenon
  <2>3. \A v : Account(got', done', 0, v)
    BY <1>p, <1>q, <2>1, <2>2, TakesOther, Zenon
  <2>4. OfItsOwn(b)
    BY PingSent, Zenon DEF OfItsOwn
  <2> HIDE DEF b
  <2>5. pc' = "send" /\ job'.bytes = b /\ job'.for = "keepalive"
    BY <2>1 DEF StartSend
  <2>6. "keepalive" \notin {"PUBLISH", "PUBREC"} /\ "send" # "arrived"
    OBVIOUS
  <2>7. JobAnswers'
    BY <2>4, <2>5, <2>6, Zenon DEF JobAnswers
  <2> QED
    BY <2>1, <2>3, <2>5, <2>6, <2>7, ComesAfter, Zenon
<1>4. CASE Pubrec
  <2>1. UNCHANGED <<readbuf, got, done>>
    BY <1>4 DEF Pubrec
  <2>2. PICK id \in Answering(MQTTDeserialize_ack(readbuf)) :
          /\ id \in Id
          /\ StartSend(MQTTSerialize_ack(BufSize, "PUBREL", 0, id), "PUBREC")
    BY <1>4, PubrecForm
  <2>3. pc = "dispatch" /\ PacketType = "PUBREC"
    BY <1>4, PubrecForm
  <2>4. Answers(Taken) /\ Suits("PUBREL", id)
    BY <2>2, <2>3, PubrecAsks, Zenon
  <2> QED
    BY <2>1, <2>2, <2>3, <2>4, BeginsAnswer
<1>5. CASE Publish
  <2> DEFINE d == MQTTDeserialize_publish(readbuf)
             qos == QosBits(readbuf[1])
             type == IF qos = 1 THEN "PUBACK" ELSE "PUBREC"
  <2>1. UNCHANGED <<readbuf, got, done>>
    BY <1>5 DEF Publish
  <2>2. /\ pc = "dispatch" /\ PacketType = "PUBLISH"
        /\ \/ pc' = "arrived" /\ qos = 0 /\ job' = job
           \/ pc' = "stray" /\ qos = 3 /\ job' = job
           \/ /\ qos \notin {0, 3}
              /\ \E id \in Answering(d) :
                   id \in Id /\ StartSend(MQTTSerialize_ack(BufSize, type, 0, id), "PUBLISH")
    BY <1>5, PublishForm
  <2>3. (Answers(Taken) <=> qos > 0) /\ \A id \in Answering(d) : Suits(type, id)
    BY <2>2, PublishAsks, Zenon
  <2>4. type \in {"PUBACK", "PUBREC", "PUBREL"}
    OBVIOUS
  <2>5. qos \in 0..3
    BY <1>t
  <2> HIDE DEF d, type
  <2>6. CASE pc' = "arrived" /\ qos = 0
    <3>1. pc' = "arrived" /\ readbuf' = readbuf /\ got' = got /\ done' = done
      BY <2>1, <2>6
    <3>2. Taken' = Taken /\ PacketType' = PacketType
      BY <3>1, SameTaken
    <3>3. ~(qos > 0) /\ ~Answers(Taken)
      BY <2>3, <2>6
    <3>4. Ahead(pc', readbuf') = 0
      BY <3>1, <3>3, Zenon DEF Ahead
    <3>5. JobAnswers'
      BY <3>1, JobRests
    <3> QED
      BY <1>p, <1>q, <2>2, <3>1, <3>2, <3>3, <3>4, <3>5, Zenon DEF AnswerInv
  <2>7. CASE pc' = "stray"
    <3>1. JobAnswers' /\ pc' # "arrived"
      BY <2>7, JobRests
    <3>2. got' = got
      BY <2>1
    <3> QED
      BY <1>p, <2>7, <3>1, <3>2, Zenon DEF AnswerInv
  <2>8. ASSUME qos \notin {0, 3}, NEW id \in Answering(d), id \in Id,
               StartSend(MQTTSerialize_ack(BufSize, type, 0, id), "PUBLISH")
        PROVE  AnswerInv'
    <3>1. qos > 0
      BY <2>5, <2>8
    <3>2. Suits(type, id) /\ Answers(Taken)
      BY <2>3, <3>1, Zenon
    <3> QED
      BY <2>1, <2>2, <2>4, <2>8, <3>1, <3>2, BeginsAnswer
  <2> QED
    BY <2>2, <2>6, <2>7, <2>8, Zenon
<1>6. CASE messageArrived
  <2> DEFINE d == MQTTDeserialize_publish(readbuf)
  <2>1. /\ pc = "arrived" /\ done' = done
        /\ \/ pc' \in {"past readbuf", "stray"} /\ got' = got
           \/ /\ d.read /\ got' = Append(got, Handed(d))
              /\ yblock_report("report") \/ pc' = "header"
    BY <1>6 DEF messageArrived, Again
  <2>2. CASE pc' \in {"past readbuf", "stray"} /\ got' = got
    <3>1. JobAnswers' /\ pc' # "arrived"
      BY <2>2, JobRests
    <3> QED
      BY <2>2, <3>1, Zenon DEF AnswerInv
  <2>3. CASE d.read /\ got' = Append(got, Handed(d)) /\ (yblock_report("report") \/ pc' = "header")
    <3>0. PacketType = "PUBLISH" /\ got' = Append(got, Taken)
      <4>1. PacketType = "PUBLISH"
        BY <2>1, Zenon DEF AnswerInv
      <4>2. Taken = Handed(d)
        BY <2>3, <4>1, PublishAsks, Zenon
      <4> QED
        BY <2>3, <4>1, <4>2, Zenon
    <3>1. JobAnswers' /\ pc' # "arrived"
      <4>1. CASE yblock_report("report")
        <5>1. PICK n \in ReportLengths : publish_message(Topic, [i \in 1..n |-> 120], "report")
          BY <4>1 DEF yblock_report
        <5>2. [i \in 1..n |-> 120] \in Seq(Byte) /\ Topic \in Seq(Byte)
          BY ReportBytes, <5>1
        <5> QED
          BY <5>1, <5>2, ReportAnswers
      <4>2. CASE pc' = "header"
        BY <4>2, JobRests
      <4> QED
        BY <2>3, <4>1, <4>2
    <3>2. /\ Account(got, done, Ahead(pc, readbuf), Taken)
          /\ (Answers(Taken) <=> QosBits(readbuf[1]) > 0)
      <4>1. pc \notin {"past readbuf", "stray"}
        BY <2>1
      <4> QED
        BY <2>1, <4>1, Zenon DEF AnswerInv
    <3>3. \A v : Account(got', done', 0, v)
      <4>1. CASE Answers(Taken)
        <5>1. Ahead(pc, readbuf) = 1
          BY <2>1, <3>2, <4>1, Zenon DEF Ahead
        <5> QED
          BY <1>p, <1>t, <2>1, <3>0, <3>2, <4>1, <5>1, TakesAnswered, Zenon
      <4>2. CASE ~Answers(Taken)
        <5>1. Ahead(pc, readbuf) = 0
          BY <2>1, <3>2, <4>2, Zenon DEF Ahead
        <5> QED
          BY <1>p, <2>1, <3>0, <3>2, <4>2, <5>1, TakesOther, Zenon
      <4> QED
        BY <4>1, <4>2, Zenon
    <3> QED
      BY <3>0, <3>1, <3>3, ComesAfter, Zenon
  <2> QED
    BY <2>1, <2>2, <2>3
<1>7. CASE AllTaken \/ PartTaken
  <2>1. Len(job.bytes) \in Nat /\ (pc = "send" => Len(job.bytes) - 1 \in Nat)
    <3>1. job.bytes \in Seq(Byte) /\ (pc = "send" => job.bytes # <<>>)
      BY DEF TypeOK, JobOK, Jobs
    <3> QED
      BY <3>1
  <2>2. \A n : Write(n) => pc = "send"
    BY DEF Write
  <2>3. PICK n \in Nat : Write(n)
    BY <1>7, <2>1, <2>2 DEF AllTaken, PartTaken
  <2> QED
    BY <2>3, WriteAnswers
<1>8. CASE NoneTaken
  BY <1>8, FailsAnswers DEF NoneTaken
<1>9. CASE SetAlias
  <2>1. PICK retained \in {0, 1} :
          StartSend(MQTTSerialize_publish(BufSize, OwnPublish(retained, AliasTopic, Topic)), "own")
    BY <1>9 DEF SetAlias, OwnPublish
  <2>2. pc = "idle" /\ got' = got /\ done' = done
    BY <1>9 DEF SetAlias, TakeMessage
  <2>3. AliasTopic \in Seq(Byte) /\ Topic \in Seq(Byte)
    BY StreamAssumption DEF AliasTopic, Byte
  <2> DEFINE b == MQTTSerialize_publish(BufSize, OwnPublish(retained, AliasTopic, Topic))
  <2>4. b # <<>>
    BY <2>3, PublishSent, StreamAssumption, Zenon
  <2>5. OfItsOwn(b)
    BY <2>3, <2>4, OwnIsOwn, Zenon
  <2> HIDE DEF b
  <2>6. pc' = "send" /\ job'.bytes = b /\ job'.for = "own"
    BY <2>1 DEF StartSend, b
  <2>7. job'.for \notin {"PUBLISH", "PUBREC"}
    BY <2>6
  <2>8. JobAnswers'
    BY <2>5, <2>6, <2>7, Zenon DEF JobAnswers
  <2> QED
    BY <2>2, <2>6, <2>8, ComesToRest
<1>12. CASE Keepalive
  <2> DEFINE b == MQTTSerialize_zero(BufSize, "PINGREQ")
  <2>1. pc = "idle" /\ got' = got /\ done' = done /\ StartSend(b, "own")
    BY <1>12 DEF Keepalive, mqtt_keepalive
  <2>2. OfItsOwn(b)
    BY PingSent, Zenon DEF OfItsOwn
  <2> HIDE DEF b
  <2>3. pc' = "send" /\ job'.bytes = b /\ job'.for = "own"
    BY <2>1 DEF StartSend
  <2>4. job'.for \notin {"PUBLISH", "PUBREC"}
    BY <2>3
  <2>5. JobAnswers'
    BY <2>2, <2>3, <2>4, Zenon DEF JobAnswers
  <2> QED
    BY <2>1, <2>3, <2>5, ComesToRest
<1>10. CASE LockReports
  <2>1. pc = "idle" /\ UNCHANGED <<got, done>> /\ yblock_report("own")
    BY <1>10 DEF LockReports
  <2>2. PICK n \in ReportLengths : publish_message(Topic, [i \in 1..n |-> 120], "own")
    BY <2>1 DEF yblock_report
  <2>3. [i \in 1..n |-> 120] \in Seq(Byte) /\ Topic \in Seq(Byte)
    BY ReportBytes, <2>2
  <2>4. JobAnswers' /\ pc' # "arrived"
    BY <2>2, <2>3, ReportAnswers
  <2> QED
    BY <2>1, <2>4, ComesToRest
<1> QED
  BY <1>1, <1>2, <1>3, <1>4, <1>5, <1>6, <1>7, <1>8, <1>9, <1>10, <1>11, <1>12 DEF Next, Task

(* Each packet that asks for an answer has got one of its own type, in the order of the        *)
(* packets, none is answered twice, and none is handed over before it is answered: however the *)
(* stream is cut, whatever is put aside because its answer could not be sent, and whatever     *)
(* pings and reports go out in between.  The answer carries the packet's identifier if the     *)
(* packet is long enough to have one; for one that a cut has left without, only its type is    *)
(* right, as the code then sends what was in the local.  It says nothing once the task has     *)
(* written behind readbuf or through a pointer, or sent a length, that nobody has set.         *)
THEOREM AnswersAreRight == Spec => []AnswersMatch
<1>1. Init => TypeOK /\ AnswerInv
  <2> SUFFICES ASSUME Init PROVE AnswerInv
    BY InitTyped
  <2>1. got = <<>> /\ done = <<>> /\ pc = "idle"
    BY DEF Init
  <2>2. AskedIn(<<>>) = {} /\ GivenIn(<<>>) = {}
    BY DEF AskedIn, GivenIn
  <2>3. \A w : Account(<<>>, <<>>, 0, w)
    <3>1. Cardinality({}) = 0 + 0 /\ Cardinality({}) = 0
      BY FS_EmptySet
    <3>2. Cardinality({}) = Cardinality({}) + 0
      BY <3>1
    <3>3. Matched(<<>>, <<>>)
      BY <2>2, Zenon DEF Matched
    <3>4. 0 # 1
      OBVIOUS
    <3> QED
      BY <2>2, <3>2, <3>3, <3>4, Zenon DEF Account
  <2>4. Ahead("idle", readbuf) = 0
    BY DEF Ahead
  <2>5. <<>> \in Seq({}) /\ "idle" # "arrived" /\ "idle" # "send"
    OBVIOUS
  <2> QED
    BY <2>1, <2>3, <2>4, <2>5, Zenon DEF AnswerInv, JobAnswers
<1>2. TypeOK /\ AnswerInv /\ [Next]_vars => TypeOK' /\ AnswerInv'
  BY StepTyped, StepAnswers
<1>3. AnswerInv => AnswersMatch
  <2>1. Asked = AskedIn(got) /\ Given = GivenIn(done)
    BY Zenon DEF Asked, Given, AskedIn, GivenIn
  <2> QED
    BY <2>1, Zenon DEF AnswerInv, AnswersMatch, Account, Matched, Ahead
<1> HIDE DEF AnswerInv, AnswersMatch, TypeOK
<1> QED
  BY <1>1, <1>2, <1>3, PTL DEF Spec

===============================================================================
