----------------------------- MODULE MqttSession -----------------------------
(***************************************************************************)
(* How the lock gets and keeps its connection to the cloud (MQTTMTK.c with *)
(* the part of MqttDemoTask that calls it): registration server, ticket    *)
(* server, broker, all over the one socket of MtkSocket; keepalives;       *)
(* reports; and the recovery by three timers.                              *)
(*                                                                         *)
(* Two tasks run this code.  Handlers of mailbox messages run in the task  *)
(* of MOD_MQTT, timer callbacks in the MMI task: they close sockets and    *)
(* post messages between any two handlers, and between any two packets of  *)
(* the loop that reads the broker's socket.                                *)
(***************************************************************************)
EXTENDS MtkSocket

CONSTANTS
  BrokerByName,  \* the ticket server names the broker, it gives no address
  Patient        \* the timers are long: none runs out while an answer is due

ASSUME FlagsAssumption == BrokerByName \in BOOLEAN /\ Patient \in BOOLEAN

VARIABLES
  state,      \* MQTT_DEMO_State
  nets,       \* REG_Net, Ticket_Net, MQTT_Net: "null" before NewNetwork (the pointer to
              \* disconnect is NULL), then "open" or, with my_socket = -1, "closed"
  connected,  \* MQTT_Client.isconnected
  broker,     \* the ticket server has named a broker
  registered, \* info holds credentials: a reply of the registration server had them
  timers,     \* the timers that are armed
  cpu         \* "ready"; "reading" in MTK_cycle; "hung" when that loop cannot end;
              \* "crashed" by a call through a null pointer

sessionVars == <<state, nets, connected, broker, registered, timers, cpu>>
vars == <<sock, open, lookups, queue, upsets, answered,
          state, nets, connected, broker, registered, timers, cpu>>

Nets == {"REG", "TICKET", "MQTT"}
Timers == {"DEMO", "RETRY", "KEEPALIVE", "PUB"}
Bootstrap == {"REG_SERVER_IP", "REG_INFO", "TICK_SERVER_IP", "MQTT_BROKER"}
States == Bootstrap \cup {"MQTT_CONN", "RUNNING"}

-------------------------------------------------------------------------------
(* The task takes one message and runs its handler to the end. *)

Take(t) ==
  /\ cpu = "ready"
  /\ queue # <<>>
  /\ Head(queue).type = t
Rest == Tail(queue)
Post(q, t) == Append(q, Msg(t))

(* Mutant: the bootstrap is not watched by its timer. *)
Start_NoTimer ==
  /\ Take("START")
  /\ \E rc \in {"wait", "done", "error"} : mtk_socket_open("REG", TRUE, open, rc)
  /\ queue' = Outdate(Rest)
  /\ state' = "REG_SERVER_IP"
  /\ UNCHANGED <<nets, connected, broker, registered, timers, cpu>>

(* get_register_info *)
Start ==
  /\ Take("START")
  /\ \E rc \in {"wait", "done", "error"} : mtk_socket_open("REG", TRUE, open, rc)
  /\ queue' = Outdate(Rest)
  /\ state' = "REG_SERVER_IP"
  /\ timers' = timers \cup {"DEMO"}
  /\ UNCHANGED <<nets, connected, broker, registered, cpu>>

(* host_name_cb *)
NotMine ==
  /\ Take("DNS")
  /\ ~Head(queue).mine /\ sock.dns # "START"
  /\ queue' = Rest
  /\ Calm
  /\ UNCHANGED <<stackVars, sessionVars>>

Mine == Take("DNS") /\ (Head(queue).mine \/ sock.dns = "START")

(* NewNetwork and ConnectNetwork: my_socket is the id, which may be -1. *)
MySocket == IF HasSocket THEN "open" ELSE "closed"

NameFound ==
  /\ Mine
  /\ Head(queue).ok
  /\ queue' = Rest
  /\ UNCHANGED open
  /\ \E rc \in {"wait", "done", "error"} :
       mtk_socket_connect([sock EXCEPT !.dns = "IGNORE"], rc)
  /\ nets' = CASE state = "REG_SERVER_IP" -> [nets EXCEPT !["REG"] = MySocket]
               [] state = "TICK_SERVER_IP" -> [nets EXCEPT !["TICKET"] = MySocket]
               [] OTHER -> nets
  /\ state' = CASE state = "REG_SERVER_IP" -> "REG_INFO"
                [] state = "TICK_SERVER_IP" -> "MQTT_BROKER"
                [] OTHER -> state
  /\ UNCHANGED <<lookups, connected, broker, registered, timers, cpu>>

NameNotFound ==
  /\ Mine
  /\ ~Head(queue).ok
  /\ queue' = Rest
  /\ sock' = [sock EXCEPT !.dns = "FAILED"]
  /\ timers' = timers \cup {"DEMO"}
  /\ Calm
  /\ UNCHANGED <<open, lookups, state, nets, connected, broker, registered, cpu>>

(* mqtt_conn_start.  Without a broker the address is empty and the whole
   bootstrap is asked for again. *)
Conn ==
  /\ Take("CONN")
  /\ state' = "MQTT_CONN"
  /\ IF broker
       THEN \E rc \in {"wait", "done", "error"} :
              /\ mtk_socket_open("BROKER", BrokerByName, open, rc)
              /\ queue' = Outdate(Rest)
              /\ timers' = timers \cup {"RETRY"}
              /\ nets' = IF rc = "done" THEN [nets EXCEPT !["MQTT"] = "open"] ELSE nets
              /\ connected' = IF rc = "done" THEN FALSE ELSE connected
       ELSE /\ queue' = Post(Rest, "START")
            /\ Calm
            /\ UNCHANGED <<stackVars, timers, nets, connected>>
  /\ UNCHANGED <<broker, registered, cpu>>

(* Mutant: no new connection is asked for. *)
mqtt_close_NoConn(q, ts) ==
  /\ timers' = ts \ {"KEEPALIVE"}
  /\ connected' = FALSE
  /\ IF nets["MQTT"] = "null"
       THEN /\ cpu' = "crashed"
            /\ queue' = q
            /\ UNCHANGED <<stackVars, nets>>
       ELSE /\ mtk_socket_close
            /\ nets' = [nets EXCEPT !["MQTT"] = "closed"]
            /\ queue' = Outdate(q)
            /\ UNCHANGED cpu
  /\ Calm
  /\ UNCHANGED <<state, broker, registered>>

(* Mutant: the keepalive goes on while there is no connection. *)
mqtt_close_Pinging(q, ts) ==
  /\ timers' = ts
  /\ connected' = FALSE
  /\ IF nets["MQTT"] = "null"
       THEN /\ cpu' = "crashed"
            /\ queue' = q
            /\ UNCHANGED <<stackVars, nets>>
       ELSE /\ mtk_socket_close
            /\ nets' = [nets EXCEPT !["MQTT"] = "closed"]
            /\ queue' = Post(Outdate(q), "CONN")
            /\ UNCHANGED cpu
  /\ Calm
  /\ UNCHANGED <<state, broker, registered>>

(* mqtt_close, with q the mailbox it posts to and ts the armed timers. *)
mqtt_close(q, ts) ==
  /\ timers' = ts \ {"KEEPALIVE"}
  /\ connected' = FALSE
  /\ IF nets["MQTT"] = "null"
       THEN /\ cpu' = "crashed"
            /\ queue' = q
            /\ UNCHANGED <<stackVars, nets>>
       ELSE /\ mtk_socket_close
            /\ nets' = [nets EXCEPT !["MQTT"] = "closed"]
            /\ queue' = Post(Outdate(q), "CONN")
            /\ UNCHANGED cpu
  /\ Calm
  /\ UNCHANGED <<state, broker, registered>>

Close == Take("CLOSE") /\ mqtt_close(Rest, timers)

(* publish_message, sent on s and posting to q.  Off line the message is kept for
   a timer. *)
publish_message(s, q) ==
  IF state = "RUNNING"
    THEN /\ \/ connected /\ Send(s, {"PUBACK"}) /\ queue' = q
            \/ connected /\ SendFails(s) /\ queue' = Post(q, "CLOSE")
            \/ ~connected /\ Calm /\ sock' = s /\ queue' = Post(q, "CLOSE")
         /\ UNCHANGED timers
    ELSE /\ timers' = timers \cup {"PUB"}
         /\ sock' = s /\ queue' = q
         /\ Calm

(* MSG_ID_MQTT_SET_ALIAS, and whatever makes the lock publish. *)
Publish ==
  /\ Take("ALIAS") \/ Take("REPORT")
  /\ publish_message(sock, Rest)
  /\ UNCHANGED <<open, lookups, state, nets, connected, broker, registered, cpu>>

(* What the timer of an off-line message posts: the task has no case for it. *)
Dropped ==
  /\ Take("PUBLISH")
  /\ queue' = Rest
  /\ Calm
  /\ UNCHANGED <<stackVars, sessionVars>>

(* Mutant: the keepalive is sent once and not set again. *)
MQTTkeepalive_start_Once(s, q) ==
  /\ \/ Send(s, IF s.peer = "BROKER" THEN {"PINGRESP"} ELSE {}) /\ queue' = q
     \/ SendFails(s) /\ queue' = Post(q, "CLOSE")
  /\ UNCHANGED timers

(* MQTTkeepalive_start, likewise; only the broker answers a PINGREQ. *)
MQTTkeepalive_start(s, q) ==
  /\ \/ Send(s, IF s.peer = "BROKER" THEN {"PINGRESP"} ELSE {}) /\ queue' = q
     \/ SendFails(s) /\ queue' = Post(q, "CLOSE")
  /\ timers' = timers \cup {"KEEPALIVE"}

Keepalive ==
  /\ Take("KEEPALIVE")
  /\ MQTTkeepalive_start(sock, Rest)
  /\ UNCHANGED <<open, lookups, state, nets, connected, broker, registered, cpu>>

(* event_cb: an event of any socket but the current one is dropped. *)
Event(t) == Take(t) /\ Head(queue).id = sock.id

NotCurrent ==
  /\ \E t \in {"READ", "CONNECT", "CLOSED"} : Take(t) /\ Head(queue).id # sock.id
  /\ queue' = Rest
  /\ Calm
  /\ UNCHANGED <<stackVars, sessionVars>>

(* Mutant: the registration server's socket is not closed. *)
ReadRegInfo_NoClose ==
  /\ Event("READ")
  /\ state = "REG_INFO"
  /\ registered' = (registered \/ "HTTP" \in sock.inbox)
  /\ nets' = [nets EXCEPT !["REG"] = "closed"]
  /\ state' = "TICK_SERVER_IP"
  /\ \E rc \in {"wait", "done", "error"} : mtk_socket_open("TICKET", TRUE, open, rc)
  /\ queue' = Outdate(Rest)
  /\ UNCHANGED <<connected, broker, timers, cpu>>

(* get_reg_info_from_json: a reply without credentials leaves those there are, none
   at first, and the bootstrap goes on all the same. *)
ReadRegInfo ==
  /\ Event("READ")
  /\ state = "REG_INFO"
  /\ registered' = (registered \/ "HTTP" \in sock.inbox)
  /\ nets' = [nets EXCEPT !["REG"] = "closed"]
  /\ state' = "TICK_SERVER_IP"
  /\ \E rc \in {"wait", "done", "error"} : mtk_socket_open("TICKET", TRUE, AfterClose, rc)
  /\ queue' = Outdate(Rest)
  /\ UNCHANGED <<connected, broker, timers, cpu>>

(* Mutant: the enumerator that no code handles, ST_GET_MQTT_START. *)
ReadTicket_NextState ==
  /\ Event("READ")
  /\ state = "MQTT_BROKER"
  /\ broker' = (broker \/ "HTTP" \in sock.inbox)
  /\ nets' = [nets EXCEPT !["TICKET"] = "closed"]
  /\ mtk_socket_close
  /\ state' = "MQTT_START"
  /\ queue' = Post(Outdate(Rest), "CONN")
  /\ Calm
  /\ UNCHANGED <<connected, registered, timers, cpu>>

ReadTicket ==
  /\ Event("READ")
  /\ state = "MQTT_BROKER"
  /\ broker' = (broker \/ "HTTP" \in sock.inbox)
  /\ nets' = [nets EXCEPT !["TICKET"] = "closed"]
  /\ mtk_socket_close
  /\ state' = "MQTT_CONN"
  /\ queue' = Post(Outdate(Rest), "CONN")
  /\ Calm
  /\ UNCHANGED <<connected, registered, timers, cpu>>

(* In every other state MTK_cycle reads packets; before MQTTClient its client has
   no network to read from. *)
ReadPackets ==
  /\ Event("READ")
  /\ state \notin {"REG_INFO", "MQTT_BROKER"}
  /\ cpu' = IF nets["MQTT"] = "null" THEN "crashed" ELSE "reading"
  /\ queue' = Rest
  /\ Calm
  /\ UNCHANGED <<stackVars, state, nets, connected, broker, registered, timers>>

(* MQTT_connect, with the credentials in info.  The broker refuses a client that
   has none. *)
SendConnect == Send([sock EXCEPT !.refused = ~registered], {"CONNACK"})

(* Mutant: the session counts as running once its CONNECT is sent. *)
Reachable_Hasty ==
  /\ Event("CONNECT")
  /\ Head(queue).ok
  /\ queue' = Rest
  /\ CASE state \in {"REG_INFO", "MQTT_BROKER"} ->
            (Send(sock, {"HTTP"}) \/ SendFails(sock)) /\ UNCHANGED <<state, nets, connected>>
       [] state = "MQTT_CONN" ->
            /\ nets' = [nets EXCEPT !["MQTT"] = "open"]
            /\ \/ SendConnect /\ connected' = TRUE /\ state' = "RUNNING"
               \/ SendFails(sock) /\ connected' = FALSE /\ UNCHANGED state
       [] OTHER -> Calm /\ UNCHANGED <<sock, state, nets, connected>>
  /\ UNCHANGED <<open, lookups, broker, registered, timers, cpu>>

Reachable ==
  /\ Event("CONNECT")
  /\ Head(queue).ok
  /\ queue' = Rest
  /\ CASE state \in {"REG_INFO", "MQTT_BROKER"} ->
            (Send(sock, {"HTTP"}) \/ SendFails(sock)) /\ UNCHANGED <<nets, connected>>
       [] state = "MQTT_CONN" ->
            /\ nets' = [nets EXCEPT !["MQTT"] = "open"]
            /\ \/ SendConnect /\ connected' = TRUE
               \/ SendFails(sock) /\ connected' = FALSE
       [] OTHER -> Calm /\ UNCHANGED <<sock, nets, connected>>
  /\ UNCHANGED <<open, lookups, state, broker, registered, timers, cpu>>

NotReachable ==
  /\ Event("CONNECT")
  /\ ~Head(queue).ok
  /\ queue' = Rest
  /\ Calm
  /\ UNCHANGED <<stackVars, sessionVars>>

PeerGone ==
  /\ Event("CLOSED")
  /\ IF state \in {"MQTT_CONN", "RUNNING"}
       THEN mqtt_close(Rest, timers)
       ELSE queue' = Rest /\ Calm /\ UNCHANGED <<stackVars, sessionVars>>

-------------------------------------------------------------------------------
(* MTK_cycle, one packet a step.  It ends when the socket has nothing more to read
   for now, and never when reading fails: the task itself would have to open
   another socket. *)

Readable == sock.id \in open /\ sock.dns = "IGNORE"

Cycle(p) ==
  /\ cpu = "reading"
  /\ Readable
  /\ p \in sock.inbox
  /\ "CONNACK" \in sock.inbox => p = "CONNACK"

Unread(p) == [sock EXCEPT !.inbox = @ \ {p}]

(* Neither the return code of the CONNACK nor whether it can be deserialized
   changes what is done: refused or not, the lock is on line. *)
CycleConnack ==
  /\ Cycle("CONNACK")
  /\ sock' = Unread("CONNACK")
  /\ IF state = "MQTT_CONN" THEN state' = "RUNNING" /\ queue' = Post(queue, "ALIAS")
                            ELSE UNCHANGED <<state, queue>>
  /\ Calm
  /\ UNCHANGED <<open, lookups, nets, connected, broker, registered, timers, cpu>>

CyclePuback ==
  /\ Cycle("PUBACK")
  /\ MQTTkeepalive_start(Unread("PUBACK"), queue)
  /\ UNCHANGED <<open, lookups, state, nets, connected, broker, registered, cpu>>

(* A command is acknowledged, or dropped if that fails; the lock may publish. *)
CycleCommand ==
  /\ Cycle("CMD")
  /\ \/ CanSend /\ publish_message(Unread("CMD"), queue)
     \/ CanSend /\ Send(Unread("CMD"), {}) /\ UNCHANGED <<queue, timers>>
     \/ SendFails(Unread("CMD")) /\ UNCHANGED <<queue, timers>>
  /\ UNCHANGED <<open, lookups, state, nets, connected, broker, registered, cpu>>

CycleOther ==
  /\ \E p \in {"PINGRESP", "HTTP", "JUNK"} : Cycle(p) /\ sock' = Unread(p)
  /\ Calm
  /\ UNCHANGED <<open, lookups, queue, sessionVars>>

CycleEnds ==
  /\ cpu = "reading"
  /\ Readable /\ sock.inbox = {} /\ Linked
  /\ cpu' = "ready"
  /\ Calm
  /\ UNCHANGED <<stackVars, queue, state, nets, connected, broker, registered, timers>>

CycleSpins ==
  /\ cpu \in {"reading", "hung"}
  /\ ~Readable \/ (sock.inbox = {} /\ sock.link \in {"none", "dead"})
  /\ cpu' = "hung"
  /\ Calm
  /\ UNCHANGED <<stackVars, queue, state, nets, connected, broker, registered, timers>>

Task ==
  \/ Start \/ NotMine \/ NameFound \/ NameNotFound \/ Conn \/ Close
  \/ Publish \/ Dropped \/ Keepalive
  \/ NotCurrent \/ ReadRegInfo \/ ReadTicket \/ ReadPackets
  \/ Reachable \/ NotReachable \/ PeerGone
  \/ CycleConnack \/ CyclePuback \/ CycleCommand \/ CycleOther
  \/ CycleEnds \/ CycleSpins

-------------------------------------------------------------------------------
(* The timers, whose callbacks run in the MMI task. *)

Quiet ==
  /\ cpu = "ready" /\ queue = <<>>
  /\ TRUE \notin lookups /\ sock.link # "connecting" /\ sock.due = {} /\ ~Refusing

Expires(t) ==
  /\ cpu # "crashed"
  /\ t \in timers
  /\ Room
  /\ Patient => Quiet

(* mqttdemo_retry_cb *)
DemoExpires ==
  /\ Expires("DEMO")
  /\ timers' = timers \ {"DEMO"}
  /\ IF state \notin Bootstrap
       THEN UNCHANGED <<stackVars, nets, queue, cpu>>
       ELSE IF "null" \in {nets["REG"], nets["TICKET"]}
         THEN cpu' = "crashed" /\ UNCHANGED <<stackVars, nets, queue>>
         ELSE /\ IF "open" \in {nets["REG"], nets["TICKET"]}
                   THEN mtk_socket_close /\ queue' = Post(Outdate(queue), "START")
                   ELSE UNCHANGED stackVars /\ queue' = Post(queue, "START")
              /\ nets' = [nets EXCEPT !["REG"] = "closed", !["TICKET"] = "closed"]
              /\ UNCHANGED cpu
  /\ Calm
  /\ UNCHANGED <<state, connected, broker, registered>>

(* Mutant: the callback does nothing while the broker is being connected. *)
RetryExpires_Waits ==
  /\ Expires("RETRY")
  /\ IF state \in Bootstrap
       THEN mqtt_close(queue, timers \ {"RETRY"})
       ELSE /\ timers' = timers \ {"RETRY"}
            /\ Calm
            /\ UNCHANGED <<stackVars, queue, state, nets, connected, broker, registered, cpu>>

(* mqtt_retry_cb *)
RetryExpires ==
  /\ Expires("RETRY")
  /\ IF state # "RUNNING"
       THEN mqtt_close(queue, timers \ {"RETRY"})
       ELSE /\ timers' = timers \ {"RETRY"}
            /\ Calm
            /\ UNCHANGED <<stackVars, queue, state, nets, connected, broker, registered, cpu>>

(* mqtt_keepalive_timeout_cb and mqtt_publish_retry_cb *)
Reminds(t, message) ==
  /\ Expires(t)
  /\ timers' = timers \ {t}
  /\ queue' = Post(queue, message)
  /\ Calm
  /\ UNCHANGED <<stackVars, state, nets, connected, broker, registered, cpu>>

KeepaliveExpires == Reminds("KEEPALIVE", "KEEPALIVE")
PubExpires == Reminds("PUB", "PUBLISH")

-------------------------------------------------------------------------------
Boot ==
  /\ sock' = Closed /\ open' = {} /\ lookups' = {}
  /\ queue' = <<Msg("START")>>
  /\ state' = "REG_SERVER_IP"
  /\ nets' = [n \in Nets |-> "null"]
  /\ connected' = FALSE /\ broker' = FALSE /\ registered' = FALSE
  /\ timers' = {} /\ cpu' = "ready"

(* A call through a null pointer restarts the phone. *)
Reboot ==
  /\ cpu = "crashed"
  /\ Boot
  /\ Calm

Init ==
  /\ sock = Closed /\ open = {} /\ lookups = {}
  /\ queue = <<Msg("START")>>
  /\ upsets = 0 /\ answered = TRUE
  /\ state = "REG_SERVER_IP"
  /\ nets = [n \in Nets |-> "null"]
  /\ connected = FALSE /\ broker = FALSE /\ registered = FALSE
  /\ timers = {} /\ cpu = "ready"

Expiry == DemoExpires \/ RetryExpires \/ KeepaliveExpires \/ PubExpires

World == cpu # "crashed" /\ Outside /\ UNCHANGED sessionVars

Next == Task \/ Expiry \/ Reboot \/ World

(* The task runs, a phone that crashed starts again, the timers that recover the
   session run out, the network gives the answer that is due unless an upset
   takes it away, and a broker that has refused a client closes.  Nothing is
   assumed of the other timers and of upsets. *)
Answer ==
  /\ \/ LookupAnswered(TRUE, TRUE) \/ Connected(TRUE)
     \/ \E p \in Replies : PeerReplies(p)
     \/ Refusing /\ PeerCloses
  /\ cpu # "crashed"
  /\ UNCHANGED sessionVars

Fairness ==
  /\ WF_vars(Task \/ Reboot)
  /\ SF_vars(DemoExpires) /\ SF_vars(RetryExpires)
  /\ SF_vars(Answer)

Spec == Init /\ [][Next]_vars

FairSpec == Spec /\ Fairness

-------------------------------------------------------------------------------
(* Every variable stays in its range. *)
TypeOK ==
  /\ sock \in SocketState
  /\ open \subseteq Sockets
  /\ lookups \subseteq BOOLEAN
  /\ queue \in Seq(Message)
  /\ upsets \in 0 .. MaxUpsets
  /\ answered \in BOOLEAN
  /\ state \in States
  /\ nets \in [Nets -> {"null", "open", "closed"}]
  /\ connected \in BOOLEAN
  /\ broker \in BOOLEAN
  /\ registered \in BOOLEAN
  /\ timers \subseteq Timers
  /\ cpu \in {"ready", "reading", "hung", "crashed"}

WayOut == Queued("START") \/ Queued("CONN") \/ Queued("CLOSE")
Alive == cpu \in {"ready", "reading"}

(* Off line the session always has something that will move it on: a message
   that opens a connection or the timer of the phase it is in. *)
NeverStranded ==
  (Alive /\ state # "RUNNING") =>
    \/ WayOut
    \/ state \in Bootstrap /\ "DEMO" \in timers
    \/ state = "MQTT_CONN" /\ "RETRY" \in timers

(* On line the session really has a broker that has heard it: the client is
   connected over the connection on which its CONNECT was answered, with whatever
   verdict, unless the news that this connection is gone is in the mailbox. *)
RunningHasAnswer ==
  (Alive /\ state = "RUNNING") =>
    \/ WayOut
    \/ /\ connected /\ sock.id \in open /\ sock.peer = "BROKER"
       /\ \/ sock.link = "acked"
          \/ \E i \in 1 .. Len(queue) : queue[i].type = "CLOSED" /\ queue[i].id = sock.id

(* On line, the keepalive is running or the acknowledgement that starts it is
   still to come, as long as nothing was left unanswered. *)
KeepaliveCovered ==
  (answered /\ Alive /\ state = "RUNNING") =>
    \/ WayOut \/ Queued("ALIAS") \/ Queued("KEEPALIVE") \/ Queued("CLOSED")
    \/ "KEEPALIVE" \in timers
    \/ "PUBACK" \in sock.due \cup sock.inbox

(* What is published goes out behind the broker's answer to the CONNECT of this
   very connection, however often the session was closed and asked for again. *)
PublishedAfterConnack == "PUBACK" \in sock.due => sock.link = "acked"

(* One request for a connection at a time, and no new start once there is a
   broker. *)
OneRequest ==
  /\ \A i, j \in 1 .. Len(queue) :
       {queue[i].type, queue[j].type} \subseteq {"START", "CONN"} => i = j
  /\ broker => ~Queued("START")

(* The broker hears nothing of a client before it has answered its CONNECT, as
   long as connections are asked for one at a time. *)
ConnectComesFirst ==
  []OneRequest => [](sock.due \cap {"PUBACK", "PINGRESP"} # {} => sock.link = "acked")

(* Sockets are lost only to upsets, one each at the most, as long as the lock does
   not go to the broker without credentials: then every refusal may cost one. *)
LeaksBounded ==
  [](state \in {"MQTT_CONN", "RUNNING"} => registered)
    => [](Cardinality(open \ {sock.id}) <= upsets)

(* A failed lookup is tried again. *)
DnsFailureRetried ==
  [][(state \in Bootstrap /\ sock.dns = "FAILED" /\ "DEMO" \in timers /\ "DEMO" \notin timers')
       => \E i \in 1 .. Len(queue') : queue'[i].type = "START"]_vars

(* When nothing is upset any more the session comes to stay on line over a
   connection that the broker has accepted, or the task hangs, or the lock has got
   as far as the broker without credentials: from there it never asks the
   registration server again, and is refused for ever. *)
Recovers ==
  <>[](\/ cpu = "hung"
       \/ ~registered /\ broker /\ state \notin Bootstrap
       \/ state = "RUNNING" /\ connected /\ sock.link = "acked" /\ ~sock.refused)

===============================================================================
