------------------------------ MODULE MtkSocket ------------------------------
(***************************************************************************)
(* The one socket that the MQTT client shares between the registration     *)
(* server, the ticket server and the broker (mtk_socket.c), and what it    *)
(* stands on: the asynchronous TCP stack and resolver of the phone and the *)
(* peers, which report to the mailbox of the task.                         *)
(*                                                                         *)
(* The stack and the peers are external: their actions say what the code   *)
(* has to cope with.  Whatever goes wrong outside is an upset: a run       *)
(* chooses the kinds and how many may happen.                              *)
(***************************************************************************)
EXTENDS Naturals, Sequences, FiniteSets

CONSTANTS
  Sockets,     \* the ids soc_create hands out
  NoSocket,    \* MTK_INVALID_SOCID
  QueueLen,    \* bound: messages the outside may pile up in the mailbox
  Upsets,      \* the kinds of upset of this run, a subset of UpsetKinds
  MaxUpsets    \* bound: how many upsets may happen

(***************************************************************************)
(* "create"  soc_create or soc_setsockopt fails                            *)
(* "dns"     a lookup fails          "cached"  it is answered on the spot  *)
(* "connect" a connect fails         "instant" it succeeds on the spot     *)
(* "lost"    a query, a connect or a reply is never answered               *)
(* "refused" the broker refuses the CONNECT of a lock that is registered   *)
(* "garbled" an HTTP reply has no content the code can use                 *)
(* "peer"    the peer closes         "send"    soc_send fails              *)
(* "service" the phone posts MSG_ID_MQTT_START once more                   *)
(* "report"  the lock publishes      "cmd"     the broker has a command    *)
(***************************************************************************)
UpsetKinds == {"create", "dns", "cached", "connect", "instant", "lost", "garbled",
               "refused", "peer", "send", "service", "report", "cmd"}

ASSUME SocketsAssumption == NoSocket \notin Sockets /\ IsFiniteSet(Sockets)
ASSUME UpsetsAssumption == Upsets \subseteq UpsetKinds /\ MaxUpsets \in Nat /\ QueueLen \in Nat

VARIABLES
  sock,     \* MTK_SOC_MNGR, with what the stack and the peer hold of it
  open,     \* the sockets created and not closed
  lookups,  \* lookups to be answered: TRUE the one sock waits for, FALSE older ones
  queue,    \* the mailbox of MOD_MQTT
  upsets,   \* how many upsets there have been
  answered  \* history: nothing was left unanswered and the phone started the session once

stackVars == <<sock, open, lookups>>

Peers == {"REG", "TICKET", "BROKER"}
Replies == {"HTTP", "CONNACK", "PUBACK", "PINGRESP"}
Packets == Replies \cup {"JUNK", "CMD"}

(***************************************************************************)
(* link: the TCP connection; "acked" once the broker has answered the      *)
(* CONNECT with a CONNACK, whatever its return code, which the code never  *)
(* looks at.  refused: the broker refuses the session of that CONNECT: it  *)
(* answers nothing after the CONNACK and closes, as MQTT requires.  due:   *)
(* what the peer has still to answer.  inbox: what has arrived and is      *)
(* unread.                                                                 *)
(***************************************************************************)
SocketState ==
  [id : Sockets \cup {NoSocket}, dns : {"IGNORE", "START", "BLOCKED", "FAILED"},
   peer : Peers \cup {"none"}, link : {"none", "connecting", "up", "acked", "dead"},
   refused : BOOLEAN, due : SUBSET Replies, inbox : SUBSET Packets]

Closed == [id |-> NoSocket, dns |-> "IGNORE", peer |-> "none", link |-> "none",
           refused |-> FALSE, due |-> {}, inbox |-> {}]

Requests == {"START", "CONN", "CLOSE", "KEEPALIVE", "ALIAS", "REPORT", "PUBLISH"}
Message ==
  [type : Requests] \cup [type : {"READ", "CLOSED"}, id : Sockets]
  \cup [type : {"CONNECT"}, id : Sockets, ok : BOOLEAN]
  \cup [type : {"DNS"}, mine : BOOLEAN, ok : BOOLEAN]

Upset(kind) ==
  /\ kind \in Upsets /\ upsets < MaxUpsets
  /\ upsets' = upsets + 1
  /\ answered' = (answered /\ kind \notin {"lost", "service"})
Calm == UNCHANGED <<upsets, answered>>

Msg(t) == [type |-> t]
Queued(t) == \E i \in 1 .. Len(queue) : queue[i].type = t

Linked == sock.link \in {"up", "acked"}

-------------------------------------------------------------------------------
(* mtk_socket.c.  A new request id makes every lookup under way an older one,
   and so does clearing the structure. *)

Older(ls) == IF ls = {} THEN {} ELSE {FALSE}
Outdate(q) == [i \in DOMAIN q |-> IF q[i].type = "DNS" THEN [q[i] EXCEPT !.mine = FALSE] ELSE q[i]]

(* soc_connect on the socket of s. *)
mtk_socket_connect(s, rc) ==
  \/ /\ rc = "wait" /\ s.id \in open'
     /\ sock' = [s EXCEPT !.link = "connecting"]
     /\ Calm
  \/ /\ rc = "done" /\ s.id \in open'
     /\ sock' = [s EXCEPT !.link = "up"]
     /\ Upset("instant")
  \/ /\ rc = "error"
     /\ sock' = [s EXCEPT !.link = "dead"]
     /\ IF s.id \in open' THEN Upset("connect") ELSE Calm

(* A name that is known is connected to in the same call, whatever comes of that. *)
AtOnce(rc) ==
  {link \in {"connecting", "up", "dead"} :
     CASE link = "connecting" -> rc = "wait"
       [] link = "up" -> rc = "done" /\ "instant" \in Upsets
       [] link = "dead" -> rc = "error" /\ "connect" \in Upsets}

(* mtk_socket_open overwrites the structure, whatever socket it held; before is
   the set of sockets open when it is called.  A failure of soc_setsockopt leaves
   the id of the socket it has closed. *)
mtk_socket_open(peer, byName, before, rc) ==
  LET fresh == [Closed EXCEPT !.peer = peer, !.dns = IF byName THEN "START" ELSE "IGNORE"]
  IN \/ /\ rc = "error"
        /\ sock' = fresh
        /\ open' = before
        /\ lookups' = Older(lookups)
        /\ IF before = Sockets THEN Calm ELSE Upset("create")
     \/ \E id \in Sockets \ before :
          \/ /\ rc = "error"
             /\ sock' = [fresh EXCEPT !.id = id]
             /\ open' = before
             /\ lookups' = Older(lookups)
             /\ Upset("create")
          \/ /\ byName /\ rc = "wait"
             /\ sock' = [fresh EXCEPT !.id = id, !.dns = "BLOCKED"]
             /\ open' = before \cup {id}
             /\ lookups' = Older(lookups) \cup {TRUE}
             /\ Calm
          \/ /\ byName /\ rc = "error"
             /\ sock' = [fresh EXCEPT !.id = id, !.dns = "IGNORE"]
             /\ open' = before \cup {id}
             /\ lookups' = Older(lookups)
             /\ Upset("dns")
          \/ /\ byName
             /\ open' = before \cup {id}
             /\ lookups' = Older(lookups)
             /\ \E link \in AtOnce(rc) :
                  sock' = [fresh EXCEPT !.id = id, !.dns = "IGNORE", !.link = link]
             /\ Upset("cached")
          \/ /\ ~byName
             /\ open' = before \cup {id}
             /\ lookups' = Older(lookups)
             /\ mtk_socket_connect([fresh EXCEPT !.id = id], rc)

(* Closing without a socket does nothing. *)
HasSocket == sock.id # NoSocket
AfterClose == open \ {sock.id}
mtk_socket_close ==
  /\ sock' = IF HasSocket THEN Closed ELSE sock
  /\ open' = AfterClose
  /\ lookups' = IF HasSocket THEN Older(lookups) ELSE lookups

CanSend == sock.id \in open /\ sock.dns = "IGNORE" /\ Linked

(* sendPacket and the HTTP requests: the packet goes out and the peer owes the
   replies, or it does not.  s is the socket the packet is sent on. *)
Send(s, replies) ==
  /\ CanSend
  /\ sock' = [s EXCEPT !.due = @ \cup replies]
  /\ Calm
SendFails(s) ==
  /\ IF CanSend THEN Upset("send") ELSE Calm
  /\ sock' = s

-------------------------------------------------------------------------------
(* The stack, the resolver and the peers. *)

Room == Len(queue) < QueueLen

LookupAnswered(mine, ok) ==
  /\ Room
  /\ mine \in lookups
  /\ lookups' = lookups \ {mine}
  /\ queue' = Append(queue, [type |-> "DNS", mine |-> mine, ok |-> ok])
  /\ IF ok THEN Calm ELSE Upset("dns")
  /\ UNCHANGED <<sock, open>>

LookupLost ==
  /\ lookups # {}
  /\ lookups' = {}
  /\ Upset("lost")
  /\ UNCHANGED <<sock, open, queue>>

Connected(ok) ==
  /\ Room
  /\ sock.link = "connecting"
  /\ sock' = [sock EXCEPT !.link = IF ok THEN "up" ELSE "dead"]
  /\ queue' = Append(queue, [type |-> "CONNECT", id |-> sock.id, ok |-> ok])
  /\ IF ok THEN Calm ELSE Upset("connect")
  /\ UNCHANGED <<open, lookups>>

ConnectLost ==
  /\ sock.link = "connecting"
  /\ sock' = [sock EXCEPT !.link = "dead"]
  /\ Upset("lost")
  /\ UNCHANGED <<open, lookups, queue>>

(* A packet arrives; the task is notified when there was nothing to read. *)
Arrives(p, settled, link) ==
  /\ Room
  /\ sock' = [sock EXCEPT !.due = @ \ settled, !.inbox = @ \cup {p}, !.link = link]
  /\ queue' = IF sock.inbox = {} THEN Append(queue, [type |-> "READ", id |-> sock.id]) ELSE queue
  /\ UNCHANGED <<open, lookups>>

(* Whether the broker accepts the client or not, the CONNECT is answered. *)
Refusing == sock.link = "acked" /\ sock.refused

PeerReplies(p) ==
  /\ Linked
  /\ p \in sock.due
  /\ p = "CONNACK" \/ ~sock.refused
  /\ Arrives(p, {p}, IF p = "CONNACK" THEN "acked" ELSE sock.link)
  /\ Calm

BrokerRefuses ==
  /\ "CONNACK" \in sock.due
  /\ ~sock.refused
  /\ sock' = [sock EXCEPT !.refused = TRUE]
  /\ Upset("refused")
  /\ UNCHANGED <<open, lookups, queue>>

ReplyGarbled ==
  /\ Linked
  /\ "HTTP" \in sock.due
  /\ Arrives("JUNK", {"HTTP"}, sock.link)
  /\ Upset("garbled")

ReplyLost ==
  /\ \E p \in sock.due : sock' = [sock EXCEPT !.due = @ \ {p}]
  /\ Upset("lost")
  /\ UNCHANGED <<open, lookups, queue>>

BrokerCommands ==
  /\ sock.link = "acked" /\ ~sock.refused
  /\ "CMD" \notin sock.inbox
  /\ Arrives("CMD", {}, sock.link)
  /\ Upset("cmd")

PeerCloses ==
  /\ Room
  /\ Linked
  /\ sock' = [sock EXCEPT !.link = "dead", !.due = {}]
  /\ queue' = Append(queue, [type |-> "CLOSED", id |-> sock.id])
  /\ IF Refusing THEN Calm ELSE Upset("peer")
  /\ UNCHANGED <<open, lookups>>

(* The rest of the phone posts to the mailbox: MSG_ID_MQTT_START when the SMS
   service is ready and whenever full service is back, and what makes the lock
   publish. *)
Posted(t, kind) ==
  /\ Room
  /\ queue' = Append(queue, Msg(t))
  /\ Upset(kind)
  /\ UNCHANGED stackVars

Outside ==
  \/ \E mine, ok \in BOOLEAN : LookupAnswered(mine, ok)
  \/ \E ok \in BOOLEAN : Connected(ok)
  \/ \E p \in Replies : PeerReplies(p)
  \/ LookupLost \/ ConnectLost \/ BrokerRefuses \/ ReplyGarbled \/ ReplyLost
  \/ BrokerCommands \/ PeerCloses
  \/ Posted("START", "service") \/ Posted("REPORT", "report")

==============================================================================
