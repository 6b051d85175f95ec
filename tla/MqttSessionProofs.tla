-------------------------- MODULE MqttSessionProofs ---------------------------
(***************************************************************************)
(* What holds of MqttSession for every set of sockets, every kind and      *)
(* number of upsets and every bound of the mailbox.                        *)
(***************************************************************************)
EXTENDS MqttSession, SequenceTheorems, TLAPS

(* A connection that is under way or up belongs to a socket that is open. *)
LinkOpen == sock.link \in {"connecting", "up", "acked"} => sock.id \in open

-------------------------------------------------------------------------------
(* The messages of the mailbox. *)

LEMMA MessageForms ==
  /\ \A t \in Requests : Msg(t) \in Message
  /\ \A id \in Sockets : [type |-> "READ", id |-> id] \in Message
  /\ \A id \in Sockets : [type |-> "CLOSED", id |-> id] \in Message
  /\ \A id \in Sockets, ok \in BOOLEAN : [type |-> "CONNECT", id |-> id, ok |-> ok] \in Message
  /\ \A mine, ok \in BOOLEAN : [type |-> "DNS", mine |-> mine, ok |-> ok] \in Message
BY DEF Msg, Message

LEMMA DnsForm ==
  ASSUME NEW m \in Message, m.type = "DNS"
  PROVE  m \in [type : {"DNS"}, mine : BOOLEAN, ok : BOOLEAN]
BY DEF Message, Requests

(* An answer made an older one stays an answer. *)
LEMMA OlderAnswer ==
  ASSUME NEW m \in Message, m.type = "DNS"
  PROVE  /\ [m EXCEPT !.mine = FALSE] \in Message
         /\ [m EXCEPT !.mine = FALSE].type = "DNS"
BY DnsForm DEF Message

(* A new request id changes answers only, and keeps the order of the mailbox. *)
LEMMA OutdateKeeps ==
  ASSUME NEW q \in Seq(Message)
  PROVE  /\ Outdate(q) \in Seq(Message)
         /\ Len(Outdate(q)) = Len(q)
         /\ \A i \in 1 .. Len(q) : /\ Outdate(q)[i].type = q[i].type
                                   /\ q[i].type # "DNS" => Outdate(q)[i] = q[i]
<1>1. Len(q) \in Nat /\ DOMAIN q = 1 .. Len(q) /\ \A i \in 1 .. Len(q) : q[i] \in Message
  BY LenProperties, ElementOfSeq
<1> DEFINE e(i) == IF q[i].type = "DNS" THEN [q[i] EXCEPT !.mine = FALSE] ELSE q[i]
           f == [i \in 1 .. Len(q) |-> e(i)]
<1>2. \A i \in 1 .. Len(q) : /\ e(i) \in Message
                             /\ e(i).type = q[i].type
                             /\ q[i].type # "DNS" => e(i) = q[i]
  BY <1>1, OlderAnswer
<1>3. Outdate(q) = f
  BY <1>1 DEF Outdate
<1>4. f \in [1 .. Len(q) -> Message] /\ \A i \in 1 .. Len(q) : f[i] = e(i)
  <2> HIDE DEF e
  <2> QED
    BY <1>2
<1>5. f \in Seq(Message) /\ Len(f) = Len(q)
  <2> HIDE DEF f
  <2> QED
    BY <1>1, <1>4
<1> HIDE DEF e, f
<1> QED
  BY <1>2, <1>3, <1>4, <1>5

(* What is posted goes behind the mailbox. *)
LEMMA PostKeeps ==
  ASSUME NEW q \in Seq(Message), NEW t \in Requests
  PROVE  /\ Post(q, t) \in Seq(Message)
         /\ Len(Post(q, t)) = Len(q) + 1
         /\ \A i \in 1 .. Len(q) : Post(q, t)[i] = q[i]
         /\ Post(q, t)[Len(q) + 1].type = t
<1>1. Msg(t) \in Message /\ Msg(t).type = t
  BY MessageForms DEF Msg
<1> QED
  BY <1>1, AppendProperties DEF Post

(* The handler of a message leaves the rest. *)
LEMMA RestKeeps ==
  ASSUME queue \in Seq(Message), queue # <<>>
  PROVE  /\ Rest \in Seq(Message)
         /\ Len(queue) \in Nat \ {0} /\ Len(Rest) = Len(queue) - 1
         /\ \A i \in 1 .. Len(Rest) : Rest[i] = queue[i + 1]
         /\ Head(queue) = queue[1] /\ Head(queue) \in Message
BY HeadTailProperties, EmptySeq, LenProperties DEF Rest

-------------------------------------------------------------------------------
(* The socket manager. *)

LEMMA UpsetType ==
  ASSUME TypeOK, Calm \/ \E k \in UpsetKinds : Upset(k)
  PROVE  upsets' \in 0 .. MaxUpsets /\ answered' \in BOOLEAN
<1>1. CASE Calm
  BY <1>1 DEF Calm, TypeOK
<1>2. ASSUME NEW k \in UpsetKinds, Upset(k) PROVE upsets' \in 0 .. MaxUpsets
  BY <1>2, UpsetsAssumption DEF Upset, TypeOK
<1>3. ASSUME NEW k \in UpsetKinds, Upset(k) PROVE answered' \in BOOLEAN
  BY <1>3 DEF Upset
<1> QED
  BY <1>1, <1>2, <1>3

SockVarsTyped ==
  /\ sock' \in SocketState /\ open' \subseteq Sockets /\ lookups' \subseteq BOOLEAN
  /\ upsets' \in 0 .. MaxUpsets /\ answered' \in BOOLEAN
  /\ LinkOpen'

LEMMA ClosedType == Closed \in SocketState /\ Closed.link = "none" /\ Closed.dns = "IGNORE"
BY DEF Closed, SocketState

LEMMA ConnectKeeps ==
  ASSUME TypeOK, NEW s \in SocketState, NEW rc, mtk_socket_connect(s, rc)
  PROVE  /\ sock' \in SocketState /\ LinkOpen'
         /\ upsets' \in 0 .. MaxUpsets /\ answered' \in BOOLEAN
<1>1. sock' \in SocketState
  BY DEF mtk_socket_connect, SocketState
<1>2. LinkOpen'
  BY DEF mtk_socket_connect, SocketState, LinkOpen
<1>3. Calm \/ \E k \in UpsetKinds : Upset(k)
  BY DEF mtk_socket_connect, UpsetKinds
<1> QED
  BY <1>1, <1>2, <1>3, UpsetType

LEMMA OlderType == \A ls : Older(ls) \subseteq BOOLEAN
BY Zenon DEF Older

LEMMA OpenKeeps ==
  ASSUME TypeOK, NEW peer \in Peers, NEW byName \in BOOLEAN, NEW before \in SUBSET Sockets,
         NEW rc, mtk_socket_open(peer, byName, before, rc)
  PROVE  SockVarsTyped
<1> DEFINE fresh == [Closed EXCEPT !.peer = peer, !.dns = IF byName THEN "START" ELSE "IGNORE"]
<1>1. fresh \in SocketState /\ fresh.link = "none"
  BY DEF Closed, SocketState
<1>2. \A id \in Sockets : /\ [fresh EXCEPT !.id = id] \in SocketState
                          /\ [fresh EXCEPT !.id = id].link = "none"
  BY <1>1 DEF SocketState
<1>3. \A id \in Sockets : \A d \in {"IGNORE", "BLOCKED"} :
         /\ [fresh EXCEPT !.id = id, !.dns = d] \in SocketState
         /\ [fresh EXCEPT !.id = id, !.dns = d].link = "none"
  BY <1>1 DEF SocketState
<1>4. \A id \in Sockets : \A link \in AtOnce(rc) :
         /\ [fresh EXCEPT !.id = id, !.dns = "IGNORE", !.link = link] \in SocketState
         /\ [fresh EXCEPT !.id = id, !.dns = "IGNORE", !.link = link].id = id
  BY <1>1 DEF SocketState, AtOnce
<1> HIDE DEF fresh
<1>5. CASE /\ sock' = fresh /\ open' = before /\ lookups' = Older(lookups)
           /\ IF before = Sockets THEN Calm ELSE Upset("create")
  BY <1>1, <1>5, OlderType, UpsetType DEF SockVarsTyped, LinkOpen, UpsetKinds
<1>6. ASSUME NEW id \in Sockets \ before,
             \/ /\ sock' = [fresh EXCEPT !.id = id] /\ open' = before
                /\ lookups' = Older(lookups) /\ Upset("create")
             \/ /\ sock' = [fresh EXCEPT !.id = id, !.dns = "BLOCKED"] /\ open' = before \cup {id}
                /\ lookups' = Older(lookups) \cup {TRUE} /\ Calm
             \/ /\ sock' = [fresh EXCEPT !.id = id, !.dns = "IGNORE"] /\ open' = before \cup {id}
                /\ lookups' = Older(lookups) /\ Upset("dns")
      PROVE  SockVarsTyped
  <2>1. sock' \in SocketState /\ sock'.link = "none" /\ open' \subseteq Sockets
    BY <1>2, <1>3, <1>6
  <2>2. lookups' \subseteq BOOLEAN
    BY <1>6, OlderType
  <2>3. Calm \/ \E k \in UpsetKinds : Upset(k)
    BY <1>6 DEF UpsetKinds
  <2> QED
    BY <2>1, <2>2, <2>3, UpsetType DEF SockVarsTyped, LinkOpen
<1>7. ASSUME NEW id \in Sockets \ before, NEW link \in AtOnce(rc),
             sock' = [fresh EXCEPT !.id = id, !.dns = "IGNORE", !.link = link],
             open' = before \cup {id}, lookups' = Older(lookups), Upset("cached")
      PROVE  SockVarsTyped
  <2>1. sock' \in SocketState /\ sock'.id = id
    BY <1>4, <1>7, Zenon
  <2>2. open' \subseteq Sockets /\ id \in open'
    BY <1>7
  <2> QED
    BY <1>7, <2>1, <2>2, OlderType, UpsetType DEF SockVarsTyped, LinkOpen, UpsetKinds
<1>8. ASSUME NEW id \in Sockets \ before, open' = before \cup {id}, lookups' = Older(lookups),
             mtk_socket_connect([fresh EXCEPT !.id = id], rc)
      PROVE  SockVarsTyped
  BY <1>2, <1>8, ConnectKeeps, OlderType DEF SockVarsTyped
<1> QED
  BY <1>5, <1>6, <1>7, <1>8, Zenon DEF mtk_socket_open, fresh

LEMMA CloseKeeps ==
  ASSUME TypeOK, LinkOpen, mtk_socket_close
  PROVE  /\ sock' \in SocketState /\ open' \subseteq Sockets /\ lookups' \subseteq BOOLEAN
         /\ LinkOpen'
<1>1. CASE HasSocket
  BY <1>1, ClosedType, OlderType DEF mtk_socket_close, AfterClose, TypeOK, LinkOpen
<1>2. CASE ~HasSocket
  <2>1. NoSocket \notin open
    BY SocketsAssumption DEF TypeOK
  <2>2. sock' = sock /\ open' = open /\ lookups' = lookups
    BY <1>2, <2>1 DEF mtk_socket_close, AfterClose, HasSocket, TypeOK
  <2> QED
    BY <2>2 DEF TypeOK, LinkOpen
<1> QED
  BY <1>1, <1>2

LEMMA SendKeeps ==
  ASSUME TypeOK, LinkOpen, NEW s \in SocketState, s.link = sock.link, s.id = sock.id,
         open' = open, NEW replies \in SUBSET Replies, Send(s, replies) \/ SendFails(s)
  PROVE  /\ sock' \in SocketState /\ LinkOpen'
         /\ upsets' \in 0 .. MaxUpsets /\ answered' \in BOOLEAN
<1>1. Calm \/ \E k \in UpsetKinds : Upset(k)
  BY DEF Send, SendFails, UpsetKinds
<1>2. sock' = s \/ sock' = [s EXCEPT !.due = @ \cup replies]
  BY DEF Send, SendFails
<1>3. sock' \in SocketState /\ sock'.link = sock.link /\ sock'.id = sock.id
  BY <1>2 DEF SocketState
<1> QED
  BY <1>1, <1>3, UpsetType DEF LinkOpen

LEMMA StackKept ==
  ASSUME TypeOK, LinkOpen, UNCHANGED stackVars, Calm \/ \E k \in UpsetKinds : Upset(k)
  PROVE  SockVarsTyped
BY UpsetType DEF stackVars, TypeOK, LinkOpen, SockVarsTyped

-------------------------------------------------------------------------------
(* The procedures of the session. *)

SessionVarsTyped ==
  /\ state' \in States
  /\ nets' \in [Nets -> {"null", "open", "closed"}]
  /\ connected' \in BOOLEAN /\ broker' \in BOOLEAN /\ registered' \in BOOLEAN
  /\ timers' \subseteq Timers
  /\ cpu' \in {"ready", "reading", "hung", "crashed"}

SessInv == TypeOK /\ LinkOpen

LEMMA Together ==
  ASSUME SockVarsTyped, SessionVarsTyped, queue' \in Seq(Message)
  PROVE  SessInv'
BY DEF SockVarsTyped, SessionVarsTyped, SessInv, TypeOK

LEMMA SessionKept ==
  ASSUME TypeOK, UNCHANGED sessionVars
  PROVE  SessionVarsTyped
BY DEF TypeOK, sessionVars, SessionVarsTyped

LEMMA mqtt_close_Keeps ==
  ASSUME SessInv, NEW q \in Seq(Message), NEW ts \in SUBSET Timers, mqtt_close(q, ts)
  PROVE  SessInv'
<1> USE DEF SessInv
<1>1. queue' \in Seq(Message)
  <2>1. Post(Outdate(q), "CONN") \in Seq(Message)
    BY OutdateKeeps, PostKeeps DEF Requests
  <2> QED
    BY <2>1 DEF mqtt_close
<1>2. SessionVarsTyped
  BY DEF mqtt_close, SessionVarsTyped, TypeOK
<1>3. SockVarsTyped
  <2>1. CASE UNCHANGED stackVars
    BY <2>1, StackKept DEF mqtt_close
  <2>2. CASE mtk_socket_close
    BY <2>2, CloseKeeps, UpsetType DEF mqtt_close, SockVarsTyped
  <2> QED
    BY <2>1, <2>2 DEF mqtt_close
<1> QED
  BY <1>1, <1>2, <1>3, Together

LEMMA publish_message_Keeps ==
  ASSUME SessInv, NEW s \in SocketState, s.link = sock.link, s.id = sock.id,
         NEW q \in Seq(Message), publish_message(s, q), open' = open, lookups' = lookups
  PROVE  SockVarsTyped /\ queue' \in Seq(Message) /\ timers' \subseteq Timers
<1> USE DEF SessInv
<1>1. queue' \in Seq(Message)
  <2>1. Post(q, "CLOSE") \in Seq(Message)
    BY PostKeeps DEF Requests
  <2> QED
    BY <2>1 DEF publish_message
<1>2. timers' \subseteq Timers
  BY DEF publish_message, TypeOK, Timers
<1>3. SockVarsTyped
  <2>1. CASE Send(s, {"PUBACK"}) \/ SendFails(s)
    BY <2>1, SendKeeps DEF SockVarsTyped, TypeOK, Replies
  <2>2. CASE sock' = s /\ Calm
    BY <2>2, UpsetType DEF SockVarsTyped, TypeOK, LinkOpen
  <2> QED
    BY <2>1, <2>2 DEF publish_message
<1> QED
  BY <1>1, <1>2, <1>3

LEMMA MQTTkeepalive_start_Keeps ==
  ASSUME SessInv, NEW s \in SocketState, s.link = sock.link, s.id = sock.id,
         NEW q \in Seq(Message), MQTTkeepalive_start(s, q), open' = open, lookups' = lookups
  PROVE  SockVarsTyped /\ queue' \in Seq(Message) /\ timers' \subseteq Timers
<1> USE DEF SessInv
<1>1. queue' \in Seq(Message)
  <2>1. Post(q, "CLOSE") \in Seq(Message)
    BY PostKeeps DEF Requests
  <2> QED
    BY <2>1 DEF MQTTkeepalive_start
<1>2. timers' \subseteq Timers
  BY DEF MQTTkeepalive_start, TypeOK, Timers
<1>3. SockVarsTyped
  <2> DEFINE rs == IF s.peer = "BROKER" THEN {"PINGRESP"} ELSE {}
  <2>1. rs \in SUBSET Replies
    BY DEF Replies
  <2>2. Send(s, rs) \/ SendFails(s)
    BY DEF MQTTkeepalive_start
  <2> HIDE DEF rs
  <2> QED
    BY <2>1, <2>2, SendKeeps DEF SockVarsTyped, TypeOK
<1> QED
  BY <1>1, <1>2, <1>3

-------------------------------------------------------------------------------
(* The handlers of the task, the timers, the outside and a restart keep the ranges. *)
LEMMA TaskTyped == SessInv /\ Task => SessInv'
<1> SUFFICES ASSUME SessInv, Task PROVE SessInv'
  OBVIOUS
<1> USE DEF SessInv
<1>1. queue \in Seq(Message) /\ sock \in SocketState /\ timers \subseteq Timers
  BY DEF TypeOK
<1>2. ASSUME NEW t, Take(t)
      PROVE  Rest \in Seq(Message) /\ Outdate(Rest) \in Seq(Message)
  BY <1>1, <1>2, RestKeeps, OutdateKeeps DEF Take
<1>3. {"DEMO", "RETRY", "KEEPALIVE", "PUB"} \subseteq Timers
  BY DEF Timers
<1>4. CASE Start
  <2>1. SockVarsTyped
    BY <1>4, OpenKeeps DEF Start, TypeOK, Peers
  <2>2. SessionVarsTyped
    BY <1>3, <1>4 DEF Start, SessionVarsTyped, TypeOK, States, Bootstrap
  <2>3. queue' \in Seq(Message)
    BY <1>2, <1>4 DEF Start
  <2> QED
    BY <2>1, <2>2, <2>3, Together
<1>5. CASE NotMine \/ Dropped \/ NotCurrent \/ NotReachable
  <2>1. SockVarsTyped /\ SessionVarsTyped
    BY <1>5, StackKept, SessionKept DEF NotMine, Dropped, NotCurrent, NotReachable
  <2>2. queue' \in Seq(Message)
    BY <1>2, <1>5 DEF NotMine, Dropped, NotCurrent, NotReachable, Event
  <2> QED
    BY <2>1, <2>2, Together
<1>6. CASE NameFound
  <2> DEFINE s == [sock EXCEPT !.dns = "IGNORE"]
  <2>1. s \in SocketState
    BY <1>1 DEF SocketState
  <2>2. \E rc \in {"wait", "done", "error"} : mtk_socket_connect(s, rc)
    BY <1>6 DEF NameFound
  <2>3. open' \subseteq Sockets /\ lookups' \subseteq BOOLEAN
    BY <1>6 DEF NameFound, TypeOK
  <2> HIDE DEF s
  <2>4. SockVarsTyped
    BY <2>1, <2>2, <2>3, ConnectKeeps DEF SockVarsTyped
  <2>5. nets' \in [Nets -> {"null", "open", "closed"}] /\ state' \in States
    BY <1>6 DEF NameFound, TypeOK, MySocket, Nets, States, Bootstrap
  <2>6. SessionVarsTyped
    BY <1>6, <2>5 DEF NameFound, SessionVarsTyped, TypeOK
  <2>7. queue' \in Seq(Message)
    BY <1>2, <1>6 DEF NameFound, Mine
  <2> QED
    BY <2>4, <2>6, <2>7, Together
<1>7. CASE NameNotFound
  <2>1. sock' \in SocketState /\ LinkOpen'
    BY <1>1, <1>7 DEF NameNotFound, SocketState, LinkOpen
  <2>2. SockVarsTyped
    BY <1>7, <2>1, UpsetType DEF NameNotFound, SockVarsTyped, TypeOK
  <2>3. SessionVarsTyped
    BY <1>3, <1>7 DEF NameNotFound, SessionVarsTyped, TypeOK
  <2>4. queue' \in Seq(Message)
    BY <1>2, <1>7 DEF NameNotFound, Mine
  <2> QED
    BY <2>2, <2>3, <2>4, Together
<1>8. CASE Conn
  <2>1. CASE broker
    <3>1. PICK rc \in {"wait", "done", "error"} :
            /\ mtk_socket_open("BROKER", BrokerByName, open, rc)
            /\ queue' = Outdate(Rest)
            /\ timers' = timers \cup {"RETRY"}
            /\ nets' = IF rc = "done" THEN [nets EXCEPT !["MQTT"] = "open"] ELSE nets
            /\ connected' = IF rc = "done" THEN FALSE ELSE connected
      BY <1>8, <2>1 DEF Conn
    <3>2. SockVarsTyped
      BY <3>1, OpenKeeps, FlagsAssumption DEF TypeOK, Peers
    <3>3. SessionVarsTyped
      BY <1>3, <1>8, <3>1 DEF Conn, SessionVarsTyped, TypeOK, States
    <3>4. queue' \in Seq(Message)
      BY <1>2, <1>8, <3>1 DEF Conn
    <3> QED
      BY <3>2, <3>3, <3>4, Together
  <2>2. CASE ~broker
    <3>1. SockVarsTyped
      BY <1>8, <2>2, StackKept DEF Conn
    <3>2. SessionVarsTyped
      BY <1>8, <2>2 DEF Conn, SessionVarsTyped, TypeOK, States
    <3>3. queue' \in Seq(Message)
      BY <1>2, <1>8, <2>2, PostKeeps DEF Conn, Requests
    <3> QED
      BY <3>1, <3>2, <3>3, Together
  <2> QED
    BY <2>1, <2>2
<1>9. CASE Close
  BY <1>1, <1>2, <1>9, mqtt_close_Keeps DEF Close
<1>10. CASE Publish
  <2>1. Rest \in Seq(Message)
    BY <1>2, <1>10 DEF Publish
  <2>2. SockVarsTyped /\ queue' \in Seq(Message) /\ timers' \subseteq Timers
    BY <1>1, <1>10, <2>1, publish_message_Keeps DEF Publish
  <2>3. SessionVarsTyped
    BY <1>10, <2>2 DEF Publish, SessionVarsTyped, TypeOK
  <2> QED
    BY <2>2, <2>3, Together
<1>11. CASE Keepalive
  <2>1. Rest \in Seq(Message)
    BY <1>2, <1>11 DEF Keepalive
  <2>2. SockVarsTyped /\ queue' \in Seq(Message) /\ timers' \subseteq Timers
    BY <1>1, <1>11, <2>1, MQTTkeepalive_start_Keeps DEF Keepalive
  <2>3. SessionVarsTyped
    BY <1>11, <2>2 DEF Keepalive, SessionVarsTyped, TypeOK
  <2> QED
    BY <2>2, <2>3, Together
<1>12. CASE ReadRegInfo
  <2>1. AfterClose \in SUBSET Sockets
    BY DEF AfterClose, TypeOK
  <2>2. SockVarsTyped
    BY <1>12, <2>1, OpenKeeps DEF ReadRegInfo, Peers
  <2>3. SessionVarsTyped
    BY <1>12 DEF ReadRegInfo, SessionVarsTyped, TypeOK, States, Bootstrap, Nets
  <2>4. queue' \in Seq(Message)
    BY <1>2, <1>12 DEF ReadRegInfo, Event
  <2> QED
    BY <2>2, <2>3, <2>4, Together
<1>13. CASE ReadTicket
  <2>1. SockVarsTyped
    BY <1>13, CloseKeeps, UpsetType DEF ReadTicket, SockVarsTyped
  <2>2. SessionVarsTyped
    BY <1>13 DEF ReadTicket, SessionVarsTyped, TypeOK, States, Nets
  <2>3. queue' \in Seq(Message)
    BY <1>2, <1>13, PostKeeps DEF ReadTicket, Event, Requests
  <2> QED
    BY <2>1, <2>2, <2>3, Together
<1>14. CASE ReadPackets
  <2>1. SockVarsTyped
    BY <1>14, StackKept DEF ReadPackets
  <2>2. SessionVarsTyped
    BY <1>14 DEF ReadPackets, SessionVarsTyped, TypeOK
  <2>3. queue' \in Seq(Message)
    BY <1>2, <1>14 DEF ReadPackets, Event
  <2> QED
    BY <2>1, <2>2, <2>3, Together
<1>15. CASE Reachable
  <2>1. queue' \in Seq(Message)
    BY <1>2, <1>15 DEF Reachable, Event
  <2>2. (Send(sock, {"HTTP"}) \/ SendConnect \/ SendFails(sock)) \/ (Calm /\ sock' = sock)
    BY <1>15 DEF Reachable
  <2>3. SockVarsTyped
    <3>1. open' = open /\ lookups' = lookups
      BY <1>15 DEF Reachable
    <3>2. CASE Send(sock, {"HTTP"}) \/ SendFails(sock)
      BY <1>1, <3>1, <3>2, SendKeeps DEF SockVarsTyped, TypeOK, Replies
    <3>4. CASE SendConnect
      <4> DEFINE asking == [sock EXCEPT !.refused = ~registered]
      <4>1. /\ asking \in SocketState /\ asking.link = sock.link /\ asking.id = sock.id
            /\ Send(asking, {"CONNACK"})
        BY <1>1, <3>4 DEF TypeOK, SocketState, SendConnect
      <4> HIDE DEF asking
      <4> QED
        BY <1>1, <3>1, <4>1, SendKeeps DEF SockVarsTyped, TypeOK, Replies
    <3>3. CASE Calm /\ sock' = sock
      BY <3>1, <3>3, StackKept DEF stackVars
    <3> QED
      BY <2>2, <3>2, <3>3, <3>4
  <2>4. nets' \in [Nets -> {"null", "open", "closed"}] /\ connected' \in BOOLEAN
    BY <1>15 DEF Reachable, TypeOK, Nets
  <2>5. SessionVarsTyped
    BY <1>15, <2>4 DEF Reachable, SessionVarsTyped, TypeOK
  <2> QED
    BY <2>1, <2>3, <2>5, Together
<1>16. CASE PeerGone
  <2>1. CASE mqtt_close(Rest, timers)
    BY <1>1, <1>2, <1>16, <2>1, mqtt_close_Keeps DEF PeerGone, Event
  <2>2. CASE queue' = Rest /\ Calm /\ UNCHANGED <<stackVars, sessionVars>>
    BY <1>2, <1>16, <2>2, StackKept, SessionKept, Together DEF PeerGone, Event
  <2> QED
    BY <1>16, <2>1, <2>2 DEF PeerGone
<1>17. ASSUME NEW p PROVE /\ Unread(p) \in SocketState
                          /\ Unread(p).link = sock.link /\ Unread(p).id = sock.id
  BY <1>1 DEF Unread, SocketState
<1>18. CASE CycleConnack
  <2>1. SockVarsTyped
    BY <1>17, <1>18, UpsetType DEF CycleConnack, SockVarsTyped, TypeOK, LinkOpen
  <2>2. SessionVarsTyped
    BY <1>18 DEF CycleConnack, SessionVarsTyped, TypeOK, States
  <2>3. queue' \in Seq(Message)
    BY <1>1, <1>18, PostKeeps DEF CycleConnack, Requests
  <2> QED
    BY <2>1, <2>2, <2>3, Together
<1>19. CASE CyclePuback
  <2>1. SockVarsTyped /\ queue' \in Seq(Message) /\ timers' \subseteq Timers
    BY <1>1, <1>17, <1>19, MQTTkeepalive_start_Keeps DEF CyclePuback
  <2>2. SessionVarsTyped
    BY <1>19, <2>1 DEF CyclePuback, SessionVarsTyped, TypeOK
  <2> QED
    BY <2>1, <2>2, Together
<1>20. CASE CycleCommand
  <2>1. open' = open /\ lookups' = lookups
    BY <1>20 DEF CycleCommand
  <2>2. SockVarsTyped /\ queue' \in Seq(Message) /\ timers' \subseteq Timers
    <3>1. CASE publish_message(Unread("CMD"), queue)
      BY <1>1, <1>17, <2>1, <3>1, publish_message_Keeps
    <3>2. CASE /\ Send(Unread("CMD"), {}) \/ SendFails(Unread("CMD"))
               /\ UNCHANGED <<queue, timers>>
      <4>1. {} \in SUBSET Replies
        OBVIOUS
      <4>2. /\ sock' \in SocketState /\ LinkOpen'
            /\ upsets' \in 0 .. MaxUpsets /\ answered' \in BOOLEAN
        BY <1>17, <2>1, <3>2, <4>1, SendKeeps
      <4> QED
        BY <1>1, <2>1, <3>2, <4>2 DEF SockVarsTyped, TypeOK
    <3> QED
      BY <1>20, <3>1, <3>2 DEF CycleCommand
  <2>3. SessionVarsTyped
    BY <1>20, <2>2 DEF CycleCommand, SessionVarsTyped, TypeOK
  <2> QED
    BY <2>2, <2>3, Together
<1>21. CASE CycleOther
  <2>1. SockVarsTyped
    BY <1>17, <1>21, UpsetType DEF CycleOther, SockVarsTyped, TypeOK, LinkOpen
  <2> QED
    BY <1>1, <1>21, <2>1, SessionKept, Together DEF CycleOther
<1>22. CASE CycleEnds \/ CycleSpins
  <2>1. SockVarsTyped
    BY <1>22, StackKept DEF CycleEnds, CycleSpins
  <2>2. SessionVarsTyped /\ queue' \in Seq(Message)
    BY <1>22 DEF CycleEnds, CycleSpins, SessionVarsTyped, TypeOK
  <2> QED
    BY <2>1, <2>2, Together
<1> QED
  BY <1>4, <1>5, <1>6, <1>7, <1>8, <1>9, <1>10, <1>11, <1>12, <1>13, <1>14, <1>15, <1>16,
     <1>18, <1>19, <1>20, <1>21, <1>22 DEF Task

LEMMA ExpiryTyped == SessInv /\ Expiry => SessInv'
<1> SUFFICES ASSUME SessInv, Expiry PROVE SessInv'
  OBVIOUS
<1> USE DEF SessInv
<1>1. queue \in Seq(Message) /\ \A t : timers \ {t} \in SUBSET Timers
  BY DEF TypeOK
<1>2. CASE DemoExpires
  <2>1. SockVarsTyped
    <3>1. CASE UNCHANGED stackVars
      BY <1>2, <3>1, StackKept DEF DemoExpires
    <3>2. CASE mtk_socket_close
      BY <1>2, <3>2, CloseKeeps, UpsetType DEF DemoExpires, SockVarsTyped
    <3> QED
      BY <1>2, <3>1, <3>2 DEF DemoExpires
  <2>2. SessionVarsTyped
    BY <1>2 DEF DemoExpires, SessionVarsTyped, TypeOK, Nets
  <2>3. queue' \in Seq(Message)
    <3>1. /\ Post(Outdate(queue), "START") \in Seq(Message)
          /\ Post(queue, "START") \in Seq(Message)
      BY <1>1, OutdateKeeps, PostKeeps DEF Requests
    <3> QED
      BY <1>1, <1>2, <3>1 DEF DemoExpires
  <2> QED
    BY <2>1, <2>2, <2>3, Together
<1>3. CASE RetryExpires
  <2>1. CASE mqtt_close(queue, timers \ {"RETRY"})
    BY <1>1, <2>1, mqtt_close_Keeps
  <2>2. CASE /\ timers' = timers \ {"RETRY"} /\ Calm
             /\ UNCHANGED <<stackVars, queue, state, nets, connected, broker, registered, cpu>>
    <3>1. SockVarsTyped
      BY <2>2, StackKept
    <3>2. SessionVarsTyped
      BY <2>2 DEF SessionVarsTyped, TypeOK
    <3> QED
      BY <1>1, <2>2, <3>1, <3>2, Together
  <2> QED
    BY <1>3, <2>1, <2>2 DEF RetryExpires
<1>4. ASSUME NEW t \in Timers, NEW r \in Requests, Reminds(t, r) PROVE SessInv'
  <2>1. SockVarsTyped
    BY <1>4, StackKept DEF Reminds
  <2>2. SessionVarsTyped
    BY <1>4 DEF Reminds, SessionVarsTyped, TypeOK
  <2>3. queue' \in Seq(Message)
    BY <1>1, <1>4, PostKeeps DEF Reminds
  <2> QED
    BY <2>1, <2>2, <2>3, Together
<1> QED
  BY <1>2, <1>3, <1>4 DEF Expiry, KeepaliveExpires, PubExpires, Timers, Requests

(* A packet comes over a connection, so its notification names a socket. *)
LEMMA ArrivesKeeps ==
  ASSUME SessInv, Linked, NEW p \in Packets, NEW settled, NEW link \in {sock.link, "acked"},
         Arrives(p, settled, link), Calm \/ \E k \in UpsetKinds : Upset(k)
  PROVE  SockVarsTyped /\ queue' \in Seq(Message)
<1> USE DEF SessInv
<1>1. sock \in SocketState /\ sock.id \in open /\ sock.id \in Sockets
  BY DEF TypeOK, LinkOpen, Linked
<1>2. sock' \in SocketState /\ sock'.id = sock.id
  BY <1>1 DEF Arrives, SocketState
<1>3. queue' \in Seq(Message)
  <2>1. Append(queue, [type |-> "READ", id |-> sock.id]) \in Seq(Message)
    BY <1>1, MessageForms, AppendProperties DEF TypeOK
  <2> QED
    BY <2>1 DEF Arrives, TypeOK
<1> QED
  BY <1>1, <1>2, <1>3, UpsetType DEF Arrives, SockVarsTyped, LinkOpen, TypeOK

LEMMA WorldTyped == SessInv /\ World => SessInv'
<1> SUFFICES ASSUME SessInv, World PROVE SessInv'
  OBVIOUS
<1> USE DEF SessInv
<1>0. SessionVarsTyped
  BY SessionKept DEF World
<1>1. queue \in Seq(Message) /\ sock \in SocketState
  BY DEF TypeOK
<1>2. ASSUME NEW mine \in BOOLEAN, NEW ok \in BOOLEAN, LookupAnswered(mine, ok) PROVE SessInv'
  <2>1. queue' \in Seq(Message)
    BY <1>1, <1>2, MessageForms, AppendProperties DEF LookupAnswered
  <2>2. SockVarsTyped
    BY <1>2, UpsetType DEF LookupAnswered, SockVarsTyped, TypeOK, LinkOpen, UpsetKinds
  <2> QED
    BY <1>0, <2>1, <2>2, Together
<1>3. ASSUME NEW ok \in BOOLEAN, Connected(ok) PROVE SessInv'
  <2>1. sock.id \in open /\ sock.id \in Sockets
    BY <1>3 DEF Connected, LinkOpen, TypeOK
  <2>2. queue' \in Seq(Message)
    BY <1>1, <1>3, <2>1, MessageForms, AppendProperties DEF Connected
  <2>3. sock' \in SocketState /\ sock'.id = sock.id
    BY <1>1, <1>3 DEF Connected, SocketState
  <2>4. SockVarsTyped
    BY <1>3, <2>1, <2>3, UpsetType DEF Connected, SockVarsTyped, TypeOK, LinkOpen, UpsetKinds
  <2> QED
    BY <1>0, <2>2, <2>4, Together
<1>4. ASSUME NEW p \in Replies, PeerReplies(p) PROVE SessInv'
  BY <1>0, <1>4, ArrivesKeeps, Together DEF PeerReplies, Packets
<1>5. CASE LookupLost
  <2>1. SockVarsTyped
    BY <1>5, UpsetType DEF LookupLost, SockVarsTyped, TypeOK, LinkOpen, UpsetKinds
  <2> QED
    BY <1>0, <1>1, <1>5, <2>1, Together DEF LookupLost
<1>6. CASE ConnectLost \/ BrokerRefuses \/ ReplyLost
  <2>1. sock' \in SocketState /\ LinkOpen'
    BY <1>1, <1>6 DEF ConnectLost, BrokerRefuses, ReplyLost, SocketState, LinkOpen
  <2>2. SockVarsTyped
    BY <1>6, <2>1, UpsetType
       DEF ConnectLost, BrokerRefuses, ReplyLost, SockVarsTyped, TypeOK, UpsetKinds
  <2> QED
    BY <1>0, <1>1, <1>6, <2>2, Together DEF ConnectLost, BrokerRefuses, ReplyLost
<1>7. CASE ReplyGarbled
  BY <1>0, <1>7, ArrivesKeeps, Together DEF ReplyGarbled, Packets, UpsetKinds
<1>8. CASE BrokerCommands
  BY <1>0, <1>8, ArrivesKeeps, Together DEF BrokerCommands, Packets, UpsetKinds, Linked
<1>9. CASE PeerCloses
  <2>1. sock.id \in Sockets
    BY <1>9 DEF PeerCloses, Linked, LinkOpen, TypeOK
  <2>2. queue' \in Seq(Message)
    BY <1>1, <1>9, <2>1, MessageForms, AppendProperties DEF PeerCloses
  <2>3. sock' \in SocketState /\ sock'.link = "dead"
    BY <1>1, <1>9 DEF PeerCloses, SocketState
  <2>4. SockVarsTyped
    BY <1>9, <2>3, UpsetType DEF PeerCloses, SockVarsTyped, TypeOK, LinkOpen, UpsetKinds
  <2> QED
    BY <1>0, <2>2, <2>4, Together
<1>10. ASSUME NEW t \in Requests, NEW k \in UpsetKinds, Posted(t, k) PROVE SessInv'
  <2>1. queue' \in Seq(Message)
    BY <1>1, <1>10, MessageForms, AppendProperties DEF Posted
  <2>2. SockVarsTyped
    BY <1>10, StackKept DEF Posted
  <2> QED
    BY <1>0, <2>1, <2>2, Together
<1> QED
  BY <1>2, <1>3, <1>4, <1>5, <1>6, <1>7, <1>8, <1>9, <1>10
     DEF World, Outside, Requests, UpsetKinds

LEMMA BootTyped ==
  ASSUME SessInv, Reboot
  PROVE  SessInv'
<1> USE DEF SessInv
<1>1. queue' \in Seq(Message)
  <2>1. Msg("START") \in Message
    BY MessageForms DEF Requests
  <2> QED
    BY <2>1 DEF Reboot, Boot
<1>2. SockVarsTyped
  BY ClosedType, UpsetType DEF Reboot, Boot, SockVarsTyped, LinkOpen
<1>3. SessionVarsTyped
  BY DEF Reboot, Boot, SessionVarsTyped, States, Bootstrap
<1> QED
  BY <1>1, <1>2, <1>3, Together

LEMMA SessionStep == SessInv /\ [Next]_vars => SessInv'
<1> SUFFICES ASSUME SessInv, [Next]_vars PROVE SessInv'
  OBVIOUS
<1>1. CASE UNCHANGED vars
  BY <1>1 DEF vars, SessInv, TypeOK, LinkOpen
<1> QED
  BY <1>1, TaskTyped, ExpiryTyped, WorldTyped, BootTyped DEF Next

LEMMA SessionInvariant == Spec => []SessInv
<1>1. Init => SessInv
  <2> SUFFICES ASSUME Init PROVE SessInv
    OBVIOUS
  <2>1. queue \in Seq(Message)
    <3>1. Msg("START") \in Message
      BY MessageForms DEF Requests
    <3> QED
      BY <3>1 DEF Init
  <2>2. upsets \in 0 .. MaxUpsets
    BY UpsetsAssumption DEF Init
  <2>3. nets \in [Nets -> {"null", "open", "closed"}]
    BY DEF Init
  <2> QED
    BY <2>1, <2>2, <2>3, ClosedType DEF Init, SessInv, TypeOK, LinkOpen, States, Bootstrap
<1> QED
  BY <1>1, SessionStep, PTL DEF Spec

(* Every variable of the session keeps its range and the mailbox holds messages, whatever the
   two tasks, the stack, the resolver and the peers do (MQTTMTK.c, mtk_socket.c). *)
THEOREM SessionTyped == Spec => []TypeOK
<1>1. SessInv => TypeOK
  BY DEF SessInv
<1> QED
  BY <1>1, SessionInvariant, PTL

-------------------------------------------------------------------------------
(* What a step of the mailbox keeps of the messages in it. *)

Has(q, t) == \E i \in 1 .. Len(q) : q[i].type = t
Opens(q) == Has(q, "START") \/ Has(q, "CONN") \/ Has(q, "CLOSE")

LEMMA HasPosted ==
  ASSUME NEW q \in Seq(Message), NEW u \in Requests
  PROVE  /\ Has(Post(q, u), u)
         /\ \A t : Has(q, t) => Has(Post(q, u), t)
<1>1. Len(q) \in Nat
  BY LenProperties
<1>2. /\ Len(Post(q, u)) = Len(q) + 1
      /\ \A i \in 1 .. Len(q) : Post(q, u)[i] = q[i]
      /\ Post(q, u)[Len(q) + 1].type = u
  BY PostKeeps
<1>3. Has(Post(q, u), u)
  BY <1>1, <1>2 DEF Has
<1>4. ASSUME NEW t, Has(q, t) PROVE Has(Post(q, u), t)
  BY <1>1, <1>2, <1>4 DEF Has
<1> QED
  BY <1>3, <1>4

LEMMA HasAppended ==
  ASSUME NEW q \in Seq(Message), NEW m \in Message, NEW t, Has(q, t)
  PROVE  Has(Append(q, m), t)
<1>1. Len(q) \in Nat
  BY LenProperties
<1> QED
  BY <1>1, AppendProperties DEF Has

LEMMA HasOutdated ==
  ASSUME NEW q \in Seq(Message)
  PROVE  \A t : Has(q, t) <=> Has(Outdate(q), t)
BY OutdateKeeps DEF Has

LEMMA HasRest ==
  ASSUME queue \in Seq(Message), NEW s, Take(s), NEW t, t # s, Has(queue, t)
  PROVE  Has(Rest, t)
<1>1. queue # <<>> /\ queue[1].type = s
  BY RestKeeps DEF Take
<1>2. PICK i \in 1 .. Len(queue) : queue[i].type = t
  BY DEF Has
<1>3. i # 1 /\ i - 1 \in 1 .. Len(Rest)
  BY <1>1, <1>2, RestKeeps
<1>4. Rest[i - 1].type = t
  BY <1>1, <1>2, <1>3, RestKeeps
<1> QED
  BY <1>3, <1>4 DEF Has

LEMMA WayOutHas == WayOut <=> Opens(queue)
BY DEF WayOut, Opens, Queued, Has

LEMMA OpensRest ==
  ASSUME queue \in Seq(Message), NEW s, Take(s), s \notin {"START", "CONN", "CLOSE"}, WayOut
  PROVE  Opens(Rest) /\ Opens(Outdate(Rest))
<1>1. Rest \in Seq(Message)
  BY RestKeeps DEF Take
<1>2. Opens(Rest)
  BY WayOutHas, HasRest DEF Opens
<1> QED
  BY <1>1, <1>2, HasOutdated DEF Opens

LEMMA OpensPosted ==
  ASSUME NEW q \in Seq(Message), NEW t \in Requests,
         Opens(q) \/ t \in {"START", "CONN", "CLOSE"}
  PROVE  Opens(Post(q, t))
BY HasPosted DEF Opens

-------------------------------------------------------------------------------
(* A step that takes no way out, stops no timer and stays in the phase strands nobody. *)
LEMMA PhaseKept ==
  ASSUME NeverStranded, Alive' => Alive, WayOut => WayOut', timers \subseteq timers',
         state' = state \/ (state \in Bootstrap /\ state' \in Bootstrap)
  PROVE  NeverStranded'
<1>1. \A b \in Bootstrap : b # "RUNNING" /\ b # "MQTT_CONN"
  BY DEF Bootstrap
<1> QED
  BY <1>1 DEF NeverStranded

LEMMA mqtt_close_Moves ==
  ASSUME NEW q \in Seq(Message), NEW ts, mqtt_close(q, ts)
  PROVE  NeverStranded'
<1>1. CASE cpu' = "crashed"
  BY <1>1 DEF NeverStranded, Alive
<1>2. CASE queue' = Post(Outdate(q), "CONN")
  <2>1. Opens(queue')
    BY <1>2, OutdateKeeps, OpensPosted DEF Requests
  <2> QED
    BY <2>1 DEF NeverStranded, WayOut, Queued, Opens, Has
<1> QED
  BY <1>1, <1>2 DEF mqtt_close

LEMMA StrandedStep == SessInv /\ NeverStranded /\ [Next]_vars => NeverStranded'
<1> SUFFICES ASSUME SessInv, NeverStranded, [Next]_vars PROVE NeverStranded'
  OBVIOUS
<1>1. queue \in Seq(Message)
  BY DEF SessInv, TypeOK
<1>2. ASSUME NEW t, Take(t) PROVE Rest \in Seq(Message) /\ Outdate(Rest) \in Seq(Message)
  BY <1>1, <1>2, RestKeeps, OutdateKeeps DEF Take
<1>3. Opens(queue') => WayOut'
  BY DEF WayOut, Queued, Opens, Has
<1>4. Alive' => cpu' # "crashed"
  BY DEF Alive
<1>5. CASE Start
  BY <1>5 DEF Start, NeverStranded, Bootstrap
<1>6. CASE Conn
  <2>1. CASE broker
    BY <1>6, <2>1 DEF Conn, NeverStranded
  <2>2. CASE ~broker
    <3>1. Opens(queue')
      BY <1>2, <1>6, <2>2, OpensPosted DEF Conn, Requests
    <3> QED
      BY <1>3, <3>1 DEF NeverStranded
  <2> QED
    BY <2>1, <2>2
<1>7. CASE Close
  BY <1>2, <1>7, mqtt_close_Moves DEF Close
<1>8. CASE NotMine \/ Dropped \/ NotCurrent \/ NotReachable \/ ReadPackets \/ Reachable
  <2>1. PICK s : Take(s) /\ s \notin {"START", "CONN", "CLOSE"}
    BY <1>8 DEF NotMine, Dropped, NotCurrent, NotReachable, ReadPackets, Reachable, Event
  <2>2. queue' = Rest /\ state' = state /\ timers' = timers
    BY <1>8 DEF NotMine, Dropped, NotCurrent, NotReachable, ReadPackets, Reachable, sessionVars
  <2>3. Alive
    BY <2>1 DEF Take, Alive
  <2>4. WayOut => WayOut'
    BY <1>1, <1>3, <2>1, <2>2, OpensRest
  <2> QED
    BY <2>2, <2>3, <2>4, PhaseKept
<1>9. CASE NameFound \/ NameNotFound
  <2>1. Take("DNS") /\ queue' = Rest /\ timers \subseteq timers' /\ Alive
    BY <1>9 DEF NameFound, NameNotFound, Mine, Take, Alive
  <2>2. WayOut => WayOut'
    BY <1>1, <1>3, <2>1, OpensRest
  <2>3. state' = state \/ (state \in Bootstrap /\ state' \in Bootstrap)
    BY <1>9 DEF NameFound, NameNotFound, Bootstrap
  <2> QED
    BY <2>1, <2>2, <2>3, PhaseKept
<1>10. CASE ReadRegInfo
  <2>1. Take("READ") /\ queue' = Outdate(Rest) /\ timers' = timers /\ Alive
    BY <1>10 DEF ReadRegInfo, Event, Take, Alive
  <2>2. WayOut => WayOut'
    BY <1>1, <1>3, <2>1, OpensRest
  <2>3. state \in Bootstrap /\ state' \in Bootstrap
    BY <1>10 DEF ReadRegInfo, Bootstrap
  <2> QED
    BY <2>1, <2>2, <2>3, PhaseKept
<1>11. CASE ReadTicket
  <2>1. Opens(queue')
    BY <1>2, <1>11, OpensPosted DEF ReadTicket, Event, Requests
  <2> QED
    BY <1>3, <2>1 DEF NeverStranded
<1>12. CASE PeerGone
  <2>1. CASE mqtt_close(Rest, timers)
    BY <1>2, <1>12, <2>1, mqtt_close_Moves DEF PeerGone, Event
  <2>2. CASE queue' = Rest /\ Calm /\ UNCHANGED <<stackVars, sessionVars>>
    <3>1. Take("CLOSED") /\ Alive
      BY <1>12 DEF PeerGone, Event, Take, Alive
    <3>2. WayOut => WayOut'
      BY <1>1, <1>3, <2>2, <3>1, OpensRest
    <3> QED
      BY <2>2, <3>1, <3>2, PhaseKept DEF sessionVars
  <2> QED
    BY <1>12, <2>1, <2>2 DEF PeerGone
<1>13. CASE Publish \/ Keepalive
  <2>1. PICK s : Take(s) /\ s \notin {"START", "CONN", "CLOSE"}
    BY <1>13 DEF Publish, Keepalive
  <2>2. /\ queue' \in {Rest, Post(Rest, "CLOSE")}
        /\ timers \subseteq timers' /\ state' = state /\ Alive
    BY <1>13 DEF Publish, Keepalive, publish_message, MQTTkeepalive_start, Take, Alive
  <2>3. WayOut => WayOut'
    BY <1>1, <1>2, <1>3, <2>1, <2>2, OpensRest, OpensPosted DEF Requests
  <2> QED
    BY <2>2, <2>3, PhaseKept
<1>14. CASE CycleConnack
  <2>1. CASE state = "MQTT_CONN"
    BY <1>14, <2>1 DEF CycleConnack, NeverStranded
  <2>2. CASE state # "MQTT_CONN"
    BY <1>14, <2>2, PhaseKept DEF CycleConnack, Cycle, Alive, WayOut, Queued
  <2> QED
    BY <2>1, <2>2
<1>15. CASE CyclePuback \/ CycleCommand
  <2>1. /\ queue' \in {queue, Post(queue, "CLOSE")}
        /\ timers \subseteq timers' /\ state' = state /\ Alive
    BY <1>15 DEF CyclePuback, CycleCommand, publish_message, MQTTkeepalive_start, Cycle, Alive
  <2>2. WayOut => WayOut'
    BY <1>1, <1>3, <2>1, WayOutHas, OpensPosted DEF Requests
  <2> QED
    BY <2>1, <2>2, PhaseKept
<1>16. CASE CycleOther \/ CycleEnds \/ CycleSpins
  <2>1. /\ queue' = queue /\ timers' = timers /\ state' = state
        /\ Alive' => Alive
    BY <1>16 DEF CycleOther, CycleEnds, CycleSpins, Cycle, Alive, sessionVars
  <2>2. WayOut => WayOut'
    BY <2>1 DEF WayOut, Queued
  <2> QED
    BY <2>1, <2>2, PhaseKept
<1>17. CASE DemoExpires
  <2>1. CASE state \notin Bootstrap
    <3>1. queue' = queue /\ timers' = timers \ {"DEMO"} /\ state' = state /\ cpu' = cpu
      BY <1>17, <2>1 DEF DemoExpires
    <3> QED
      BY <2>1, <3>1 DEF NeverStranded, WayOut, Queued, Alive
  <2>2. CASE cpu' = "crashed"
    BY <2>2 DEF NeverStranded, Alive
  <2>3. CASE queue' \in {Post(Outdate(queue), "START"), Post(queue, "START")}
    <3>1. Opens(queue')
      BY <1>1, <2>3, OutdateKeeps, OpensPosted DEF Requests
    <3> QED
      BY <1>3, <3>1 DEF NeverStranded
  <2> QED
    BY <1>17, <2>1, <2>2, <2>3 DEF DemoExpires
<1>18. CASE RetryExpires
  <2>1. CASE mqtt_close(queue, timers \ {"RETRY"})
    BY <1>1, <2>1, mqtt_close_Moves
  <2>2. CASE state = "RUNNING"
    BY <1>18, <2>2 DEF RetryExpires, NeverStranded
  <2> QED
    BY <1>18, <2>1, <2>2 DEF RetryExpires
<1>19. CASE KeepaliveExpires \/ PubExpires
  <2>1. PICK t \in {"KEEPALIVE", "PUB"} :
          /\ timers' = timers \ {t} /\ state' = state /\ cpu' = cpu
          /\ queue' \in {Post(queue, "KEEPALIVE"), Post(queue, "PUBLISH")}
    BY <1>19 DEF KeepaliveExpires, PubExpires, Reminds
  <2>2. WayOut => WayOut'
    BY <1>1, <1>3, <2>1, WayOutHas, OpensPosted DEF Requests
  <2> QED
    BY <2>1, <2>2 DEF NeverStranded, Alive
<1>20. CASE Reboot
  <2>1. queue' = <<Msg("START")>>
    BY <1>20 DEF Reboot, Boot
  <2>2. Len(queue') = 1 /\ queue'[1].type = "START"
    BY <2>1 DEF Msg
  <2> QED
    BY <1>3, <2>2 DEF NeverStranded, Opens, Has
<1>21. CASE World
  <2>1. WayOut => WayOut'
    <3>1. queue' = queue \/ \E m \in Message : queue' = Append(queue, m)
      <4>1. sock.link \in {"connecting", "up", "acked"} => sock.id \in Sockets
        BY DEF SessInv, TypeOK, LinkOpen
      <4> QED
        BY <1>21, <4>1, MessageForms
           DEF World, Outside, LookupAnswered, LookupLost, Connected, ConnectLost, PeerReplies,
               Arrives, BrokerRefuses, ReplyGarbled, ReplyLost, BrokerCommands, PeerCloses, Posted, Linked,
               Requests
    <3> QED
      BY <1>1, <1>3, <3>1, WayOutHas, HasAppended DEF Opens
  <2> QED
    BY <1>21, <2>1, PhaseKept DEF World, sessionVars, Alive
<1>22. CASE UNCHANGED vars
  BY <1>22 DEF vars, NeverStranded, WayOut, Queued, Alive
<1> QED
  BY <1>5, <1>6, <1>7, <1>8, <1>9, <1>10, <1>11, <1>12, <1>13, <1>14, <1>15, <1>16, <1>17,
     <1>18, <1>19, <1>20, <1>21, <1>22 DEF Next, Task, Expiry

(* Off line the session always has something that moves it on: every handler and timer that
   takes one way on leaves another (mqtt_conn_start, mqtt_close, the retry timers). *)
THEOREM SessionMovesOn == Spec => []NeverStranded
<1>1. Init => NeverStranded
  <2> SUFFICES ASSUME Init PROVE NeverStranded
    OBVIOUS
  <2>1. Len(queue) = 1 /\ queue[1].type = "START"
    BY DEF Init, Msg
  <2> QED
    BY <2>1 DEF NeverStranded, WayOut, Queued
<1> QED
  BY <1>1, StrandedStep, SessionInvariant, PTL DEF Spec

===============================================================================
