--------------------------- MODULE MCPacketStream ---------------------------
(* Constants of PacketStream for TLC, and the inputs of PacketCodec and TopicMatch. *)
EXTENDS PacketStream, TopicMatch

DeviceId == <<49, 50>>
Command == <<114>>
(* Six bytes that look like digits of a remaining length, when they are read as one. *)
IdA == <<65535, 65535, 65535, 513>>
(* One that, cut behind its third byte, goes on with the header of a PUBLISH of QoS 3. *)
IdB == <<65535, 65334, 0, 0>>
Strays == {NoId, IdB}

(* A PUBLISH to the device with this quality of service and payload. *)
Message(qos, payload) ==
  [type |-> "PUBLISH", dup |-> 0, qos |-> qos, retained |-> 0,
   id |-> IF qos > 0 THEN IdA ELSE NoId, topic |-> DeviceId, payload |-> payload]
Text(n) == [i \in 1..n |-> 120]

(* One packet of each kind that the loop tells apart, a message that fills readbuf but for *)
(* one byte, one that fills it and one whose remaining length has two digits. *)
Kinds == {[type |-> "CONNACK", rc |-> 5], [type |-> "PUBACK", id |-> IdB],
          [type |-> "PINGRESP"], [type |-> "PUBREC", id |-> IdA],
          [type |-> "PUBLISH2", id |-> IdA, cmd |-> 10, status |-> 0, payload |-> <<65>>],
          Message(1, Command), Message(2, <<>>),
          Message(0, Text(21)), Message(0, Text(22)), Message(0, Text(125))}

ReportsAround == {14, 15, 29}

------------------------------------------------------------------------------------------------------------
(* Inputs of the codec: remaining lengths on both sides of each boundary, and packets of the  *)
(* client around the first one, in buffers that are too short, just long enough and longer.   *)
Edges == UNION {{n - 2, n - 1, n, n + 1} : n \in {2, 128, 16384, 2097152}} \cup {268435455}

Login(version, will, n) ==
  [MQTTVersion |-> version, clientID |-> Text(n), will |-> will, willQoS |-> 1,
   willRetain |-> TRUE, username |-> <<DeviceId>>, password |-> <<Command>>,
   cleansession |-> TRUE, keepAliveInterval |-> 300]

Extended(qos, n) ==
  [qos |-> qos, dup |-> 0, retained |-> 0, id |-> IdA, cmd |-> 10, payload |-> Text(n)]

Formed(n, buflen) ==
  {MQTTSerialize_connect(buflen, Login(v, w, n)) :
      v \in {3, 4, 19}, w \in {<<>>, <<DeviceId, Command>>}}
    \cup {MQTTSerialize_publish(buflen, Message(qos, Text(n))) : qos \in 0..2}
    \cup {MQTTSerialize_publish2(buflen, Extended(qos, n)) : qos \in 0..1}
    \cup {MQTTSerialize_subscribe(buflen, 0, IdA, filters) :
            filters \in {<<[topic |-> Text(n), qos |-> 1]>>,
                         <<[topic |-> DeviceId, qos |-> 0], [topic |-> Text(n), qos |-> 1]>>}}
    \cup {MQTTSerialize_unsubscribe(buflen, 0, IdA, <<Text(n), DeviceId>>)}

LengthsAgree ==
  /\ LengthsExact(Edges)
  /\ \A n \in 90..130, buflen \in 120..140 :
       \A packet \in Formed(n, buflen) : Framed(packet, buflen)

(* Next to every boundary of the remaining length, the length MQTTPacket_len compares with the *)
(* buffer, the digits MQTTPacket_encode writes and what MQTTPacket_decodeBuf reads agree, so   *)
(* that no serializer writes behind its buffer or a header that does not end the packet.       *)
(* It is about the operators alone; Up makes it a predicate of the connection.                 *)
CodecExact == Up => LengthsAgree

FiltersAgree ==
  TopicsMatched(BoundedSeq({"/", "a", "+", "#"}, 5), BoundedSeq({"/", "a", "b"}, 5))

(* The filter's meaning for every filter and topic of up to five characters, which have room  *)
(* for three levels and for empty ones: isTopicMatched assumes the format of a filter in its   *)
(* comment and neither skips a separator nor stops short of the end. *)
TopicsExact == Up => FiltersAgree

==============================================================================
