---------------------------- MODULE PacketCodec ----------------------------
(***************************************************************************)
(* The packet codec of the lock (MQTTPacket/src), which speaks MQTT with   *)
(* packet identifiers of eight bytes.  A buffer is a sequence of bytes; a  *)
(* pointer into it is an index from 1.  A serializer is what it writes,    *)
(* and TooShort stands for a result <= 0: its callers only compare with 0. *)
(* A packet identifier is the sequence of its four 16-bit words.           *)
(***************************************************************************)
EXTENDS Integers, Sequences, SequencesExt

Byte == 0..255
TooShort == <<>>
Word == {n \in Nat : n < 65536}
Id == [1..4 -> Word]
NoId == [i \in 1..4 |-> 0]

msgTypes == [CONNECT |-> 1, CONNACK |-> 2, PUBLISH |-> 3, PUBACK |-> 4, PUBREC |-> 5,
             PUBREL |-> 6, PUBCOMP |-> 7, SUBSCRIBE |-> 8, SUBACK |-> 9, UNSUBSCRIBE |-> 10,
             UNSUBACK |-> 11, PINGREQ |-> 12, PINGRESP |-> 13, DISCONNECT |-> 14, PUBLISH2 |-> 15]

Concat[ss \in Seq(Seq(Byte))] == IF ss = <<>> THEN <<>> ELSE Concat[Front(ss)] \o Last(ss)

-------------------------------------------------------------------------------
(* The fixed header. *)

MQTTHeader(type, dup, qos, retain) == <<16 * msgTypes[type] + 8 * dup + 2 * qos + retain>>
TypeBits(b) == b \div 16
DupBit(b) == (b \div 8) % 2
QosBits(b) == (b \div 2) % 4
RetainBit(b) == b % 2

MQTTPacket_encode[length \in Nat] ==
  IF length < 128 THEN <<length>>
  ELSE <<128 + (length % 128)>> \o MQTTPacket_encode[length \div 128]

(* The multiplier of each digit that is read. *)
multiplier == <<1, 128, 16384, 2097152>>

(* len is the number of bytes the loop has counted: 5 when the fourth byte still asks for *)
(* another one. *)
MQTTPacket_decodeBuf(buf, at) ==
  LET ends == {i \in 1..4 : buf[at + i - 1] < 128}
      used == IF ends = {} THEN 4 ELSE Min(ends)
      part(i) == IF i > used THEN 0 ELSE (buf[at + i - 1] % 128) * multiplier[i]
  IN [len |-> IF ends = {} THEN 5 ELSE used,
      value |-> part(1) + part(2) + part(3) + part(4)]

(* Mutant: the boundary of two digits is one too far. *)
MQTTPacket_len_Late(rem_len) ==
  rem_len + 1 + (IF rem_len <= 128 THEN 1 ELSE IF rem_len + 1 < 16384 THEN 2
                 ELSE IF rem_len + 1 < 2097151 THEN 3 ELSE 4)

(* The header byte is added before the comparisons. *)
MQTTPacket_len(rem_len) ==
  rem_len + 1 + (IF rem_len + 1 < 128 THEN 1 ELSE IF rem_len + 1 < 16384 THEN 2
                 ELSE IF rem_len + 1 < 2097151 THEN 3 ELSE 4)

Fits(rem_len, buflen) == MQTTPacket_len(rem_len) <= buflen

-------------------------------------------------------------------------------
(* Fields. *)

writeInt(n) == <<(n \div 256) % 256, n % 256>>

(* What lies behind the buffer is taken to be 0. *)
ByteAt(buf, at) == IF at <= Len(buf) THEN buf[at] ELSE 0
readInt(buf, at) == 256 * ByteAt(buf, at) + ByteAt(buf, at + 1)

writeInt64(id) == writeInt(id[1]) \o writeInt(id[2]) \o writeInt(id[3]) \o writeInt(id[4])

(* Mutant: the words the other way round. *)
readInt64_LowFirst(buf, at) == [i \in 1..4 |-> readInt(buf, at + 2 * (4 - i))]

readInt64(buf, at) == [i \in 1..4 |-> readInt(buf, at + 2 * (i - 1))]

writeMQTTString(s) == writeInt(Len(s)) \o s

(* end is the index behind the last byte of the packet. *)
readMQTTLenString(buf, at, end) ==
  LET next == at + 2 + readInt(buf, at)
  IN IF end - at > 1 /\ next <= end
     THEN [ok |-> TRUE, data |-> SubSeq(buf, at + 2, next - 1), next |-> next]
     ELSE [ok |-> FALSE]

IdLength(qos) == IF qos > 0 THEN 8 ELSE 0

-------------------------------------------------------------------------------
(* Packets of the client. *)

Strings(o) == <<o.clientID>> \o o.will \o o.username \o o.password

MQTTSerialize_connectLength(o) ==
  (CASE o.MQTTVersion \in {3, 19} -> 12 [] o.MQTTVersion = 4 -> 10 [] OTHER -> 0)
    + FoldLeft(LAMBDA n, s : n + Len(s) + 2, 0, Strings(o))

(* o.will is <<>> or the topic and the message, o.username and o.password are <<>> or one *)
(* string.  "MQTT" and "MQIsdp" are written in ASCII. *)
MQTTSerialize_connect(buflen, o) ==
  LET rem_len == MQTTSerialize_connectLength(o)
      protocol == IF o.MQTTVersion = 4 THEN writeMQTTString(<<77, 81, 84, 84>>) \o <<4>>
                  ELSE writeMQTTString(<<77, 81, 73, 115, 100, 112>>)
                         \o <<IF o.MQTTVersion = 19 THEN 19 ELSE 3>>
      bit(b, n) == IF b THEN n ELSE 0
      flags == bit(o.cleansession, 2)
                 + (IF o.will = <<>> THEN 0
                    ELSE 4 + 8 * o.willQoS + bit(o.willRetain, 32))
                 + bit(o.password # <<>>, 64) + bit(o.username # <<>>, 128)
  IN IF ~Fits(rem_len, buflen) THEN TooShort
     ELSE MQTTHeader("CONNECT", 0, 0, 0) \o MQTTPacket_encode[rem_len] \o protocol \o <<flags>>
            \o writeInt(o.keepAliveInterval)
            \o Concat[[i \in 1..Len(Strings(o)) |-> writeMQTTString(Strings(o)[i])]]

(* DISCONNECT and PINGREQ. *)
MQTTSerialize_zero(buflen, type) ==
  IF buflen < 2 THEN TooShort ELSE MQTTHeader(type, 0, 0, 0) \o MQTTPacket_encode[0]

(* The room is compared with 4, the length of the original library's acknowledgements. *)
MQTTSerialize_ack(buflen, type, dup, id) ==
  IF buflen < 4 THEN TooShort
  ELSE MQTTHeader(type, dup, IF type = "PUBREL" THEN 1 ELSE 0, 0)
         \o MQTTPacket_encode[8] \o writeInt64(id)

MQTTSerialize_publishLength(qos, topic, payloadlen) == 2 + Len(topic) + payloadlen + IdLength(qos)

MQTTSerialize_publish(buflen, p) ==
  LET rem_len == MQTTSerialize_publishLength(p.qos, p.topic, Len(p.payload))
  IN IF ~Fits(rem_len, buflen) THEN TooShort
     ELSE MQTTHeader("PUBLISH", p.dup, p.qos, p.retained) \o MQTTPacket_encode[rem_len]
            \o writeMQTTString(p.topic) \o (IF p.qos > 0 THEN writeInt64(p.id) ELSE <<>>)
            \o p.payload

(* The extended command: identifier, command and a counted parameter. *)
MQTTSerialize_publish2(buflen, p) ==
  LET rem_len == 1 + Len(p.payload) + 2 + IdLength(p.qos)
  IN IF ~Fits(rem_len, buflen) THEN TooShort
     ELSE MQTTHeader("PUBLISH2", p.dup, p.qos, p.retained) \o MQTTPacket_encode[rem_len]
            \o (IF p.qos > 0 THEN writeInt64(p.id) ELSE <<>>)
            \o <<p.cmd>> \o writeInt(Len(p.payload)) \o p.payload

(* filters is a sequence of records of a topic filter and a requested QoS. *)
MQTTSerialize_subscribe(buflen, dup, id, filters) ==
  LET rem_len == 8 + FoldLeft(LAMBDA n, f : n + 2 + Len(f.topic) + 1, 0, filters)
  IN IF ~Fits(rem_len, buflen) THEN TooShort
     ELSE MQTTHeader("SUBSCRIBE", dup, 1, 0) \o MQTTPacket_encode[rem_len] \o writeInt64(id)
            \o Concat[[i \in 1..Len(filters) |->
                         writeMQTTString(filters[i].topic) \o <<filters[i].qos>>]]

MQTTSerialize_unsubscribe(buflen, dup, id, topics) ==
  LET rem_len == 8 + FoldLeft(LAMBDA n, t : n + 2 + Len(t), 0, topics)
  IN IF ~Fits(rem_len, buflen) THEN TooShort
     ELSE MQTTHeader("UNSUBSCRIBE", dup, 1, 0) \o MQTTPacket_encode[rem_len] \o writeInt64(id)
            \o Concat[[i \in 1..Len(topics) |-> writeMQTTString(topics[i])]]

-------------------------------------------------------------------------------
(* Packets of the broker, as the client reads them.  rc is the result, which callers compare *)
(* with 1, and read says whether the fields behind the fixed header were set. *)

WrongType == [rc |-> 0, read |-> FALSE]

(* The first byte behind the fixed header, and the first one behind the packet. *)
BodyStart(buf) == 2 + MQTTPacket_decodeBuf(buf, 2).len
BodyEnd(buf) == BodyStart(buf) + MQTTPacket_decodeBuf(buf, 2).value

IsType(buf, type) == TypeBits(buf[1]) = msgTypes[type]

(* A packet that ends too early leaves in rc the number of digits of its length: 1, as for *)
(* success, below 128. *)
TooEarly(buf) == [rc |-> MQTTPacket_decodeBuf(buf, 2).len, read |-> FALSE]

(* sessionpresent is the top bit of the flags. *)
MQTTDeserialize_connack(buf) ==
  LET at == BodyStart(buf)
  IN IF ~IsType(buf, "CONNACK") THEN WrongType
     ELSE IF BodyEnd(buf) - at < 2 THEN TooEarly(buf)
     ELSE [rc |-> 1, read |-> TRUE,
           sessionPresent |-> buf[at] \div 128, connack_rc |-> buf[at + 1]]

(* Two bytes are asked for, eight are read.  type and dup are set in any case. *)
MQTTDeserialize_ack(buf) ==
  LET at == BodyStart(buf)
  IN IF BodyEnd(buf) - at < 2 THEN TooEarly(buf)
     ELSE [rc |-> 1, read |-> TRUE, type |-> TypeBits(buf[1]), dup |-> DupBit(buf[1]),
           id |-> readInt64(buf, at)]

(* The identifier is read without a look at the end of the packet, so that the payload of a *)
(* packet that is too short has a negative length.  payload is an index.  dup, qos and *)
(* retained are set if the type is right. *)
MQTTDeserialize_publish(buf) ==
  LET name == readMQTTLenString(buf, BodyStart(buf), BodyEnd(buf))
      qos == QosBits(buf[1])
      payload == name.next + IdLength(qos)
  IN IF ~IsType(buf, "PUBLISH") THEN WrongType
     ELSE IF ~name.ok THEN TooEarly(buf)
     ELSE [rc |-> 1, read |-> TRUE,
           dup |-> DupBit(buf[1]), qos |-> qos, retained |-> RetainBit(buf[1]),
           id |-> IF qos > 0 THEN readInt64(buf, name.next) ELSE NoId,
           topicName |-> name.data, payload |-> payload, payloadlen |-> BodyEnd(buf) - payload]

(* The identifier is read whatever the QoS, and a status byte which the serializer above *)
(* does not write; the length of the parameter is not compared with the packet. *)
MQTTDeserialize_publish2(buf) ==
  LET at == BodyStart(buf) + 8
  IN IF ~IsType(buf, "PUBLISH2") THEN WrongType
     ELSE [rc |-> 1, read |-> TRUE, dup |-> DupBit(buf[1]), qos |-> QosBits(buf[1]),
           retained |-> RetainBit(buf[1]), id |-> readInt64(buf, BodyStart(buf)),
           cmd |-> ByteAt(buf, at), status |-> ByteAt(buf, at + 1),
           payload |-> at + 4, payloadlen |-> readInt(buf, at + 2)]

-------------------------------------------------------------------------------
(* What the codec promises, over bounded inputs. *)

(* MQTTPacket_decodeBuf reads what MQTTPacket_encode has written, and MQTTPacket_len is the *)
(* length of the packet or, just below a boundary, one more: never less. *)
LengthsExact(lengths) ==
  \A n \in lengths :
    LET digits == MQTTPacket_encode[n]
        padded == digits \o <<0, 0, 0, 0>>
    IN /\ MQTTPacket_decodeBuf(padded, 1) = [len |-> Len(digits), value |-> n]
       /\ MQTTPacket_len(n) - (1 + Len(digits) + n) \in {0, 1}

(* A packet put together in a buffer of buflen bytes fits it, and its fixed header gives the  *)
(* length of the rest, so that the reader finds its end. *)
Framed(packet, buflen) ==
  packet # TooShort => /\ Len(packet) <= buflen
                       /\ BodyEnd(packet \o <<0, 0, 0>>) = Len(packet) + 1

===============================================================================
