--------------------------- MODULE MqttOnlineProofs ---------------------------
(***************************************************************************)
(* That the session is on line only over a connection whose CONNECT the    *)
(* broker has answered (RunningHasAnswer of MqttSession), for every set of *)
(* sockets, every kind and number of upsets and every bound of the         *)
(* mailbox.  Whether the answer was a refusal makes no difference to the   *)
(* code, so none of this is about an accepted session.                     *)
(*                                                                         *)
(* Socket ids are used again at once, so the mailbox may hold events of an *)
(* older socket with the id of the current one.  The argument is about     *)
(* their order: what is left of a closed socket is always ahead of a       *)
(* message that opens or closes the next one, so none of it is taken for   *)
(* an event of the socket that the session goes on line with.              *)
(*                                                                         *)
(* From the same invariants: the keepalive goes on while the session is on *)
(* line (KeepaliveCovered), nothing is published ahead of the CONNACK of   *)
(* its connection (PublishedAfterConnack), and neither is a PINGREQ sent   *)
(* ahead of it, as long as connections are asked for one at a time         *)
(* (ConnectComesFirst).                                                    *)
(***************************************************************************)
EXTENDS MqttSessionProofs

Ways == {"START", "CONN", "CLOSE"}
Positions == 1 .. Len(queue)

(* A message behind this one opens or closes a socket. *)
Covered(i) == \E j \in i + 1 .. Len(queue) : queue[j].type \in Ways

(* An event of the current socket, or of an older one with its id. *)
Is(i, t) == queue[i].type = t /\ queue[i].id = sock.id

(* The answer to the current lookup. *)
MineAt(i) == queue[i].type = "DNS" /\ queue[i].mine

-------------------------------------------------------------------------------
(* The lookup under way and the state of the socket. *)

LookupBlocks == TRUE \in lookups \/ (\E i \in Positions : MineAt(i)) => sock.dns = "BLOCKED"
OneAnswer ==
  /\ \A i, j \in Positions : MineAt(i) /\ MineAt(j) => i = j
  /\ TRUE \in lookups => \A i \in Positions : ~MineAt(i)
QuietSocket == sock.dns # "IGNORE" \/ sock.link \in {"none", "connecting"} =>
                 sock.due = {} /\ sock.inbox = {}
NoLink == sock.dns # "IGNORE" => sock.link = "none"
NotCreated == sock.dns = "START" => sock.id \notin open
DataOpen == sock.due # {} \/ sock.inbox # {} => sock.id \in open

LookupInv == LookupBlocks /\ OneAnswer /\ QuietSocket /\ NoLink /\ NotCreated /\ DataOpen

-------------------------------------------------------------------------------
(* The order of the mailbox. *)

(* No connect report of a closed socket is left uncovered. *)
StaleCovered ==
  \A i \in Positions : queue[i].type = "CONNECT" /\ queue[i].id \notin open => Covered(i)

(* The registration server is read after its connection was reported. *)
ReadAfterConnect ==
  state = "REG_INFO" =>
    \A i, j \in Positions : i < j /\ Is(i, "READ") /\ Is(j, "CONNECT") => Covered(j)
NoEarlyRead ==
  state = "REG_INFO" /\ sock.link = "connecting" => \A i \in Positions : ~Is(i, "READ")
AnswerBehindReads == \A k, i \in Positions : k < i /\ MineAt(k) => ~Is(i, "READ")
NameKnown == state = "REG_INFO" => sock.dns = "IGNORE"

OrderInv == StaleCovered /\ ReadAfterConnect /\ NoEarlyRead /\ AnswerBehindReads /\ NameKnown

-------------------------------------------------------------------------------
(* The way on line, as long as no way out is in the mailbox. *)

Settled == ~WayOut /\ cpu # "crashed"
OneReport == \A i, j \in Positions : Is(i, "CONNECT") /\ Is(j, "CONNECT") => i = j
ReportFirst ==
  \A i \in Positions : Is(i, "CONNECT") =>
    /\ sock.link # "connecting" /\ sock.dns = "IGNORE"
    /\ "CONNACK" \notin sock.due \cup sock.inbox
Answered ==
  sock.link = "acked" \/ (sock.link = "dead" /\ \E i \in Positions : Is(i, "CLOSED"))
Joining ==
  /\ sock.peer = "BROKER"
  /\ "CONNACK" \in sock.due \cup sock.inbox => connected
  /\ "CONNACK" \in sock.inbox => Answered
Joined == connected /\ sock.id \in open /\ sock.peer = "BROKER" /\ Answered

OnlineInv ==
  Settled =>
    /\ OneReport /\ ReportFirst
    /\ state = "MQTT_CONN" => Joining
    /\ state = "RUNNING" => Joined

-------------------------------------------------------------------------------
(* How a step changes the mailbox: it takes d messages and posts n, and of those
   that stay it may make answers older. *)

Moved(d, n) ==
  /\ d \in {0, 1} /\ n \in {0, 1}
  /\ Len(queue) \in Nat /\ d <= Len(queue)
  /\ Len(queue') = Len(queue) - d + n
  /\ \A i \in 1 .. Len(queue) - d :
       /\ queue'[i].type = queue[i + d].type
       /\ queue[i + d].type # "DNS" => queue'[i] = queue[i + d]
       /\ queue'[i].type = "DNS" /\ queue'[i].mine => queue[i + d].mine

(* The message that was posted. *)
Newest == queue'[Len(queue')]

NoneMine == \A i \in Positions : ~MineAt(i)

LEMMA OutdatedNotMine ==
  ASSUME NEW q \in Seq(Message)
  PROVE  \A i \in 1 .. Len(q) : Outdate(q)[i].type = "DNS" => ~Outdate(q)[i].mine
<1>1. DOMAIN q = 1 .. Len(q) /\ \A i \in 1 .. Len(q) : q[i] \in Message
  BY LenProperties, ElementOfSeq
<1>2. ASSUME NEW i \in 1 .. Len(q), q[i].type = "DNS"
      PROVE  Outdate(q)[i] = [q[i] EXCEPT !.mine = FALSE]
  BY <1>1, <1>2 DEF Outdate
<1>3. ASSUME NEW m \in Message, m.type = "DNS"
      PROVE  [m EXCEPT !.mine = FALSE].mine = FALSE
  BY <1>3, DnsForm
<1> SUFFICES ASSUME NEW i \in 1 .. Len(q), Outdate(q)[i].type = "DNS"
             PROVE  Outdate(q)[i].mine = FALSE
  OBVIOUS
<1>4. q[i].type = "DNS" /\ q[i] \in Message
  BY <1>1, OutdateKeeps
<1> QED
  BY <1>2, <1>3, <1>4

(* The seven ways in which the code changes the mailbox. *)
LEMMA MovedRest ==
  ASSUME queue \in Seq(Message), NEW t, Take(t)
  PROVE  /\ queue' = Rest => Moved(1, 0)
         /\ queue' = Outdate(Rest) => Moved(1, 0) /\ NoneMine'
         /\ Len(queue) >= 1 /\ queue[1].type = t /\ Head(queue) = queue[1]
         /\ queue[1] \in Message
<1>1. /\ Rest \in Seq(Message)
      /\ Len(queue) \in Nat \ {0} /\ Len(Rest) = Len(queue) - 1
      /\ \A i \in 1 .. Len(Rest) : Rest[i] = queue[i + 1]
      /\ Head(queue) = queue[1] /\ Head(queue) \in Message
  BY RestKeeps DEF Take
<1>0. /\ Len(queue) \in Nat /\ 1 <= Len(queue)
      /\ Len(queue) - 1 + 0 = Len(queue) - 1 /\ 1 \in {0, 1} /\ 0 \in {0, 1}
  BY <1>1
<1>2. ASSUME queue' = Rest PROVE Moved(1, 0)
  <2>1. Len(queue') = Len(queue) - 1
    BY <1>1, <1>2, Zenon
  <2>2. \A i \in 1 .. Len(queue) - 1 : queue'[i] = queue[i + 1]
    BY <1>1, <1>2, Zenon
  <2> QED
    BY <1>0, <2>1, <2>2, Zenon DEF Moved
<1>3. ASSUME queue' = Outdate(Rest) PROVE Moved(1, 0) /\ NoneMine'
  <2>0. /\ Len(queue') = Len(Rest)
        /\ \A i \in 1 .. Len(Rest) :
             /\ queue'[i].type = Rest[i].type
             /\ Rest[i].type # "DNS" => queue'[i] = Rest[i]
    BY <1>1, <1>3, OutdateKeeps, Zenon
  <2>1. NoneMine'
    BY <1>1, <1>3, OutdateKeeps, OutdatedNotMine DEF NoneMine, MineAt, Positions
  <2>2. Moved(1, 0)
    <3>1. Len(queue') = Len(queue) - 1
      BY <1>1, <2>0
    <3>2. \A i \in 1 .. Len(queue) - 1 : ~(queue'[i].type = "DNS" /\ queue'[i].mine)
      BY <1>1, <2>1, <3>1 DEF NoneMine, MineAt, Positions
    <3>3. \A i \in 1 .. Len(queue) - 1 :
             /\ queue'[i].type = queue[i + 1].type
             /\ queue[i + 1].type # "DNS" => queue'[i] = queue[i + 1]
      <4> TAKE i \in 1 .. Len(queue) - 1
      <4>1. i \in 1 .. Len(Rest)
        BY <1>1
      <4>2. Rest[i] = queue[i + 1]
        BY <1>1, <4>1, Zenon
      <4>3. queue'[i].type = Rest[i].type /\ (Rest[i].type # "DNS" => queue'[i] = Rest[i])
        BY <2>0, <4>1, Zenon
      <4> QED
        BY <4>2, <4>3, Zenon
    <3> QED
      BY <1>0, <3>1, <3>2, <3>3, Zenon DEF Moved
  <2> QED
    BY <2>1, <2>2
<1> QED
  BY <1>1, <1>2, <1>3 DEF Take

LEMMA MovedPost ==
  ASSUME queue \in Seq(Message), NEW t, Take(t), NEW u \in Requests
  PROVE  /\ queue' = Post(Rest, u) => Moved(1, 1) /\ Newest.type = u
         /\ queue' = Post(Outdate(Rest), u) => Moved(1, 1) /\ Newest.type = u /\ NoneMine'
<1>1. /\ Rest \in Seq(Message)
      /\ Len(queue) \in Nat \ {0} /\ Len(Rest) = Len(queue) - 1
      /\ \A i \in 1 .. Len(Rest) : Rest[i] = queue[i + 1]
  BY RestKeeps DEF Take
<1>2. ASSUME NEW q \in Seq(Message), queue' = Post(q, u), Len(q) = Len(Rest)
      PROVE  /\ Len(queue') = Len(queue) - 1 + 1
             /\ \A i \in 1 .. Len(queue) - 1 : queue'[i] = q[i]
             /\ Newest.type = u
  <2>1. /\ Len(queue') = Len(q) + 1
        /\ \A i \in 1 .. Len(q) : queue'[i] = q[i]
        /\ queue'[Len(q) + 1].type = u
    BY <1>2, PostKeeps
  <2>2. Len(q) = Len(queue) - 1
    BY <1>1, <1>2
  <2>3. Newest.type = u
    BY <2>1 DEF Newest
  <2> QED
    BY <2>1, <2>2, <2>3
<1>3. queue' = Post(Rest, u) => Moved(1, 1) /\ Newest.type = u
  BY <1>1, <1>2 DEF Moved
<1>4. ASSUME queue' = Post(Outdate(Rest), u)
      PROVE  Moved(1, 1) /\ Newest.type = u /\ NoneMine'
  <2>1. /\ Outdate(Rest) \in Seq(Message) /\ Len(Outdate(Rest)) = Len(Rest)
        /\ \A i \in 1 .. Len(Rest) :
             /\ Outdate(Rest)[i].type = Rest[i].type
             /\ Rest[i].type # "DNS" => Outdate(Rest)[i] = Rest[i]
             /\ Outdate(Rest)[i].type = "DNS" => ~Outdate(Rest)[i].mine
    BY <1>1, OutdateKeeps, OutdatedNotMine
  <2>2. /\ Len(queue') = Len(queue) - 1 + 1
        /\ \A i \in 1 .. Len(queue) - 1 : queue'[i] = Outdate(Rest)[i]
        /\ Newest.type = u
    BY <1>2, <1>4, <2>1
  <2>3. Moved(1, 1)
    BY <1>1, <2>1, <2>2 DEF Moved
  <2>4. NoneMine'
    <3> SUFFICES ASSUME NEW i \in 1 .. Len(queue'), queue'[i].type = "DNS"
                 PROVE  ~queue'[i].mine
      BY DEF NoneMine, MineAt, Positions
    <3>1. u # "DNS"
      BY DEF Requests
    <3>2. i \in 1 .. Len(queue) - 1
      BY <1>1, <2>2, <3>1 DEF Newest
    <3> QED
      BY <1>1, <2>1, <2>2, <3>2
  <2> QED
    BY <2>2, <2>3, <2>4
<1> QED
  BY <1>3, <1>4

LEMMA MovedBehind ==
  ASSUME queue \in Seq(Message)
  PROVE  /\ queue' = queue => Moved(0, 0)
         /\ queue' = Outdate(queue) => Moved(0, 0) /\ NoneMine'
         /\ \A m \in Message : queue' = Append(queue, m) => Moved(0, 1) /\ Newest = m
         /\ \A u \in Requests : queue' = Post(queue, u) => Moved(0, 1) /\ Newest.type = u
<1>1. Len(queue) \in Nat
  BY LenProperties
<1>2. queue' = queue => Moved(0, 0)
  BY <1>1 DEF Moved
<1>3. queue' = Outdate(queue) => Moved(0, 0) /\ NoneMine'
  BY <1>1, OutdateKeeps, OutdatedNotMine DEF Moved, NoneMine, MineAt, Positions
<1>4. ASSUME NEW m \in Message, queue' = Append(queue, m) PROVE Moved(0, 1) /\ Newest = m
  BY <1>1, <1>4, AppendProperties DEF Moved, Newest
<1>5. ASSUME NEW u \in Requests, queue' = Post(queue, u) PROVE Moved(0, 1) /\ Newest.type = u
  BY <1>1, <1>5, PostKeeps DEF Moved, Newest
<1> QED
  BY <1>2, <1>3, <1>4, <1>5

LEMMA MovedOlder ==
  ASSUME queue \in Seq(Message), NEW u \in Requests, queue' = Post(Outdate(queue), u)
  PROVE  Moved(0, 1) /\ Newest.type = u /\ NoneMine'
<1>1. Len(queue) \in Nat
  BY LenProperties
<1>2. /\ Outdate(queue) \in Seq(Message) /\ Len(Outdate(queue)) = Len(queue)
      /\ \A i \in 1 .. Len(queue) :
           /\ Outdate(queue)[i].type = queue[i].type
           /\ queue[i].type # "DNS" => Outdate(queue)[i] = queue[i]
           /\ Outdate(queue)[i].type = "DNS" => ~Outdate(queue)[i].mine
  BY OutdateKeeps, OutdatedNotMine
<1>3. /\ Len(queue') = Len(queue) + 1
      /\ \A i \in 1 .. Len(queue) : queue'[i] = Outdate(queue)[i]
      /\ Newest.type = u
  BY <1>2, PostKeeps DEF Newest
<1>4. Moved(0, 1)
  BY <1>1, <1>2, <1>3 DEF Moved
<1>5. NoneMine'
  <2> SUFFICES ASSUME NEW i \in 1 .. Len(queue'), queue'[i].type = "DNS"
               PROVE  ~queue'[i].mine
    BY DEF NoneMine, MineAt, Positions
  <2>1. u # "DNS"
    BY DEF Requests
  <2>2. i \in 1 .. Len(queue)
    <3>1. Newest.type # "DNS"
      BY <1>3, <2>1, Zenon
    <3>2. i = Len(queue') => queue'[i] = Newest
      BY DEF Newest
    <3>3. i # Len(queue')
      BY <3>1, <3>2
    <3> QED
      BY <1>1, <1>3, <3>3
  <2> QED
    BY <1>2, <1>3, <2>2
<1> QED
  BY <1>3, <1>4, <1>5

-------------------------------------------------------------------------------
(* The socket manager. *)

SocketShape == QuietSocket /\ NoLink /\ NotCreated /\ DataOpen

(* A structure with nothing due and nothing to read. *)
Blank(s, id, peer, dns, link) ==
  /\ s.id = id /\ s.peer = peer /\ s.dns = dns /\ s.link = link
  /\ s.due = {} /\ s.inbox = {}

Opened(peer, before) ==
  /\ sock'.due = {} /\ sock'.inbox = {} /\ sock'.peer = peer
  /\ SocketShape'
  /\ TRUE \in lookups' => sock'.dns = "BLOCKED"
  /\ sock'.id \notin before
  /\ before \subseteq open' /\ open' \subseteq before \cup {sock'.id}

(* A socket that is opened holds nothing of an older one; only a lookup that is waited for
   can be the current one (mtk_socket_open). *)
LEMMA OpenShape ==
  ASSUME NEW peer \in Peers, NEW byName \in BOOLEAN, NEW before \in SUBSET Sockets, NEW rc,
         mtk_socket_open(peer, byName, before, rc)
  PROVE  Opened(peer, before)
<1> USE SocketsAssumption DEF SocketShape, QuietSocket, NoLink, NotCreated, DataOpen, Older, Opened
<1> DEFINE fresh == [Closed EXCEPT !.peer = peer, !.dns = IF byName THEN "START" ELSE "IGNORE"]
<1>1. /\ fresh.id = NoSocket /\ fresh.link = "none" /\ fresh.peer = peer
      /\ fresh.due = {} /\ fresh.inbox = {} /\ fresh.dns \in {"START", "IGNORE"}
      /\ ~byName => fresh.dns = "IGNORE"
  BY DEF Closed
<1>2. \A id : Blank([fresh EXCEPT !.id = id], id, peer, fresh.dns, "none")
  BY <1>1 DEF Closed, Blank
<1>3. \A id, d : Blank([fresh EXCEPT !.id = id, !.dns = d], id, peer, d, "none")
  BY <1>1 DEF Closed, Blank
<1>4. \A id, link : Blank([fresh EXCEPT !.id = id, !.dns = "IGNORE", !.link = link],
                         id, peer, "IGNORE", link)
  BY <1>1 DEF Closed, Blank
<1>5. ~byName => \A id, link : Blank([[fresh EXCEPT !.id = id] EXCEPT !.link = link],
                                   id, peer, "IGNORE", link)
  BY <1>1 DEF Closed, Blank
<1> HIDE DEF fresh
<1>6. CASE sock' = fresh /\ open' = before /\ lookups' = Older(lookups)
  BY <1>1, <1>6
<1>7. ASSUME NEW id \in Sockets \ before,
             \/ /\ Blank(sock', id, peer, fresh.dns, "none") /\ open' = before
                /\ TRUE \notin lookups'
             \/ /\ Blank(sock', id, peer, "BLOCKED", "none") /\ open' = before \cup {id}
             \/ \E link : /\ Blank(sock', id, peer, "IGNORE", link) /\ open' = before \cup {id}
                          /\ TRUE \notin lookups'
      PROVE  Opened(peer, before)
  BY <1>7 DEF Blank
<1>8. ASSUME NEW id \in Sockets \ before, ~byName, mtk_socket_connect([fresh EXCEPT !.id = id], rc)
       PROVE  \E link : Blank(sock', id, peer, "IGNORE", link)
  <2>1. PICK link : sock' = [[fresh EXCEPT !.id = id] EXCEPT !.link = link]
    BY <1>8, Zenon DEF mtk_socket_connect
  <2> QED
    BY <1>5, <1>8, <2>1
<1>9. \/ sock' = fresh /\ open' = before /\ lookups' = Older(lookups)
      \/ \E id \in Sockets \ before :
            \/ sock' = [fresh EXCEPT !.id = id] /\ open' = before /\ lookups' = Older(lookups)
            \/ /\ sock' = [fresh EXCEPT !.id = id, !.dns = "BLOCKED"]
               /\ open' = before \cup {id}
            \/ /\ sock' = [fresh EXCEPT !.id = id, !.dns = "IGNORE"]
               /\ open' = before \cup {id} /\ lookups' = Older(lookups)
            \/ /\ \E link : sock' = [fresh EXCEPT !.id = id, !.dns = "IGNORE", !.link = link]
               /\ open' = before \cup {id} /\ lookups' = Older(lookups)
            \/ /\ ~byName /\ mtk_socket_connect([fresh EXCEPT !.id = id], rc)
               /\ open' = before \cup {id} /\ lookups' = Older(lookups)
  BY Zenon DEF mtk_socket_open, fresh
<1>10. TRUE \notin Older(lookups)
  OBVIOUS
<1>11. ASSUME NEW id \in Sockets \ before,
              sock' = [fresh EXCEPT !.id = id], open' = before, lookups' = Older(lookups)
       PROVE  Blank(sock', id, peer, fresh.dns, "none")
  BY <1>2, <1>11, Zenon
<1>12. ASSUME NEW id \in Sockets \ before, sock' = [fresh EXCEPT !.id = id, !.dns = "BLOCKED"]
       PROVE  Blank(sock', id, peer, "BLOCKED", "none")
  BY <1>3, <1>12, Zenon
<1>13. ASSUME NEW id \in Sockets \ before, sock' = [fresh EXCEPT !.id = id, !.dns = "IGNORE"]
       PROVE  Blank(sock', id, peer, "IGNORE", "none")
  BY <1>3, <1>13, Zenon
<1>14. ASSUME NEW id \in Sockets \ before, NEW link,
              sock' = [fresh EXCEPT !.id = id, !.dns = "IGNORE", !.link = link]
       PROVE  Blank(sock', id, peer, "IGNORE", link)
  BY <1>4, <1>14, Zenon
<1> QED
  BY <1>6, <1>7, <1>8, <1>9, <1>10, <1>11, <1>12, <1>13, <1>14

(* Closing forgets everything, or there was no socket (mtk_socket_close). *)
LEMMA CloseShape ==
  ASSUME SessInv, mtk_socket_close
  PROVE  \/ sock' = Closed /\ TRUE \notin lookups' /\ open' = open \ {sock.id}
         \/ ~HasSocket /\ UNCHANGED stackVars
<1>1. ~HasSocket => AfterClose = open
  BY SocketsAssumption DEF HasSocket, AfterClose, SessInv, TypeOK
<1> QED
  BY <1>1 DEF mtk_socket_close, Older, AfterClose, stackVars

LEMMA ClosedShape ==
  ASSUME sock' = Closed
  PROVE  SocketShape'
BY DEF Closed, SocketShape, QuietSocket, NoLink, NotCreated, DataOpen

(* A connect keeps the rest of the socket (mtk_socket_connect). *)
LEMMA ConnectShape ==
  ASSUME SessInv, mtk_socket_connect([sock EXCEPT !.dns = "IGNORE"], "wait")
            \/ mtk_socket_connect([sock EXCEPT !.dns = "IGNORE"], "done")
            \/ mtk_socket_connect([sock EXCEPT !.dns = "IGNORE"], "error")
  PROVE  /\ sock'.dns = "IGNORE" /\ sock'.id = sock.id /\ sock'.peer = sock.peer
         /\ sock'.due = sock.due /\ sock'.inbox = sock.inbox
         /\ sock'.link \in {"connecting", "up", "dead"}
         /\ sock.id \notin open' => sock'.link = "dead"
<1>1. sock \in SocketState
  BY DEF SessInv, TypeOK
<1>2. PICK link \in {"connecting", "up", "dead"} :
        /\ sock' = [[sock EXCEPT !.dns = "IGNORE"] EXCEPT !.link = link]
        /\ link # "dead" => [sock EXCEPT !.dns = "IGNORE"].id \in open'
  BY DEF mtk_socket_connect
<1> QED
  BY <1>1, <1>2 DEF SocketState

-------------------------------------------------------------------------------
(* The lookup under way: at most one answer is to come, and the socket waits for it. *)

LEMMA MineKept ==
  ASSUME NEW d, NEW n, Moved(d, n), n = 1 => ~(Newest.type = "DNS" /\ Newest.mine)
  PROVE  \A i \in Positions' : MineAt(i)' => i + d \in Positions /\ MineAt(i + d)
<1> SUFFICES ASSUME NEW i \in 1 .. Len(queue'), queue'[i].type = "DNS", queue'[i].mine
             PROVE  i + d \in Positions /\ MineAt(i + d)
  BY DEF Positions, MineAt
<1>1. i \in 1 .. Len(queue) - d
  BY DEF Moved, Newest
<1>2. i + d \in 1 .. Len(queue)
  BY <1>1 DEF Moved
<1> QED
  BY <1>1, <1>2 DEF Moved, Positions, MineAt

LEMMA LookupKept ==
  ASSUME LookupBlocks, OneAnswer, sock'.dns = sock.dns, TRUE \in lookups' => TRUE \in lookups,
         NEW d, NEW n, Moved(d, n), n = 1 => ~(Newest.type = "DNS" /\ Newest.mine)
  PROVE  LookupBlocks' /\ OneAnswer'
<1>1. \A i \in Positions' : MineAt(i)' => i + d \in Positions /\ MineAt(i + d)
  BY MineKept
<1>2. LookupBlocks'
  BY <1>1 DEF LookupBlocks
<1>3. OneAnswer'
  <2>1. \A i, j \in Positions' : MineAt(i)' /\ MineAt(j)' => i + d = j + d
    BY <1>1 DEF OneAnswer
  <2>2. \A i, j \in Positions' : i + d = j + d => i = j
    BY DEF Moved, Positions
  <2> QED
    BY <1>1, <2>1, <2>2 DEF OneAnswer
<1> QED
  BY <1>2, <1>3

LEMMA LookupFresh ==
  ASSUME NoneMine', TRUE \in lookups' => sock'.dns = "BLOCKED"
  PROVE  LookupBlocks' /\ OneAnswer'
BY DEF NoneMine, LookupBlocks, OneAnswer

(* What keeps the socket and posts no answer keeps the invariant. *)
LEMMA LookupStack ==
  ASSUME LookupInv, UNCHANGED stackVars,
         NEW d, NEW n, Moved(d, n), n = 1 => ~(Newest.type = "DNS" /\ Newest.mine)
  PROVE  LookupInv'
<1>1. LookupBlocks' /\ OneAnswer'
  BY LookupKept DEF LookupInv, stackVars
<1> QED
  BY <1>1 DEF LookupInv, QuietSocket, NoLink, NotCreated, DataOpen, stackVars

(* So does what the code sends on the socket of s or reads from it. *)
LEMMA LookupData ==
  ASSUME SessInv, LookupInv, NEW s \in SocketState, NEW r,
         s.id = sock.id, s.link = sock.link, s.dns = sock.dns, s.due = sock.due,
         s.inbox \subseteq sock.inbox,
         Send(s, r) \/ sock' = s,
         open' = open, lookups' = lookups,
         NEW d, NEW n, Moved(d, n), n = 1 => ~(Newest.type = "DNS" /\ Newest.mine)
  PROVE  LookupInv'
<1>1. sock' = s \/ (CanSend /\ sock' = [s EXCEPT !.due = @ \cup r])
  BY DEF Send
<1>2. /\ sock'.id = sock.id /\ sock'.link = sock.link /\ sock'.dns = sock.dns
      /\ sock'.inbox \subseteq sock.inbox
      /\ sock'.due = sock.due \/ CanSend
  BY <1>1 DEF SocketState
<1>3. LookupBlocks' /\ OneAnswer'
  BY <1>2, LookupKept DEF LookupInv
<1>4. QuietSocket' /\ NoLink' /\ NotCreated' /\ DataOpen'
  BY <1>2 DEF LookupInv, QuietSocket, NoLink, NotCreated, DataOpen, CanSend, Linked
<1> QED
  BY <1>3, <1>4 DEF LookupInv

LEMMA LookupOpen ==
  ASSUME NEW peer \in Peers, NEW byName \in BOOLEAN, NEW before \in SUBSET Sockets, NEW rc,
         mtk_socket_open(peer, byName, before, rc), NoneMine'
  PROVE  LookupInv'
<1>1. Opened(peer, before)
  BY OpenShape, Zenon
<1> QED
  BY <1>1, LookupFresh DEF Opened, LookupInv, SocketShape

LEMMA LookupClose ==
  ASSUME SessInv, LookupInv, mtk_socket_close, NoneMine'
  PROVE  LookupInv'
<1>1. CASE sock' = Closed /\ TRUE \notin lookups'
  BY <1>1, ClosedShape, LookupFresh DEF LookupInv, SocketShape
<1>2. CASE UNCHANGED stackVars
  BY <1>2, LookupFresh
     DEF LookupInv, LookupBlocks, QuietSocket, NoLink, NotCreated, DataOpen, stackVars
<1> QED
  BY <1>1, <1>2, CloseShape

(* The procedures of the session run on the mailbox or on what a handler leaves of it. *)
Left(q, d) ==
  \/ d = 0 /\ q = queue
  \/ d = 1 /\ q = Rest /\ \E t : Take(t)

LEMMA mqtt_close_Queue ==
  ASSUME queue \in Seq(Message), NEW q, NEW d, Left(q, d), NEW ts, mqtt_close(q, ts)
  PROVE  \/ UNCHANGED stackVars /\ cpu' = "crashed" /\ Moved(d, 0)
         \/ mtk_socket_close /\ Moved(d, 1) /\ Newest.type = "CONN" /\ NoneMine'
<1>1. "CONN" \in Requests
  BY DEF Requests
<1>2. CASE d = 0 /\ q = queue
  BY <1>1, <1>2, MovedBehind, MovedOlder DEF mqtt_close
<1>3. CASE d = 1 /\ q = Rest /\ \E t : Take(t)
  BY <1>1, <1>3, MovedRest, MovedPost DEF mqtt_close
<1> QED
  BY <1>2, <1>3 DEF Left

(* A packet that cannot be sent has the connection closed later. *)
LEMMA ClosePosted ==
  ASSUME queue \in Seq(Message), NEW q, NEW d, Left(q, d), queue' \in {q, Post(q, "CLOSE")}
  PROVE  Moved(d, 0) \/ (Moved(d, 1) /\ Newest.type = "CLOSE")
<1>1. "CLOSE" \in Requests
  BY DEF Requests
<1>2. CASE d = 0 /\ q = queue
  BY <1>1, <1>2, MovedBehind
<1>3. CASE d = 1 /\ q = Rest /\ \E t : Take(t)
  BY <1>1, <1>3, MovedRest, MovedPost
<1> QED
  BY <1>2, <1>3 DEF Left

LEMMA UnreadShape ==
  ASSUME SessInv, NEW p
  PROVE  /\ Unread(p) \in SocketState
         /\ Unread(p).id = sock.id /\ Unread(p).link = sock.link /\ Unread(p).dns = sock.dns
         /\ Unread(p).peer = sock.peer /\ Unread(p).due = sock.due
         /\ Unread(p).inbox = sock.inbox \ {p}
BY DEF SessInv, TypeOK, Unread, SocketState

LEMMA LookupMqttClose ==
  ASSUME SessInv, LookupInv, NEW q, NEW d, Left(q, d), NEW ts, mqtt_close(q, ts)
  PROVE  LookupInv'
<1>1. queue \in Seq(Message)
  BY DEF SessInv, TypeOK
<1> QED
  BY <1>1, mqtt_close_Queue, LookupStack, LookupClose

LEMMA LookupSend ==
  ASSUME SessInv, LookupInv, NEW s \in SocketState,
         s.id = sock.id, s.link = sock.link, s.dns = sock.dns, s.due = sock.due,
         s.inbox \subseteq sock.inbox,
         NEW r, Send(s, r) \/ sock' = s, open' = open, lookups' = lookups,
         NEW q, NEW d, Left(q, d), queue' \in {q, Post(q, "CLOSE")}
  PROVE  LookupInv'
<1>1. queue \in Seq(Message)
  BY DEF SessInv, TypeOK
<1>2. PICK n : Moved(d, n) /\ (n = 1 => Newest.type = "CLOSE")
  BY <1>1, ClosePosted
<1> QED
  BY <1>2, LookupData

(* What is sent when a server is reachable, on s, keeps all of the socket that the
   invariants are about: only the verdict that the broker will give is new. *)
Asked(s, r) ==
  /\ s.id = sock.id /\ s.link = sock.link /\ s.dns = sock.dns /\ s.peer = sock.peer
  /\ s.due = sock.due /\ s.inbox = sock.inbox
  /\ r \in {{"HTTP"}, {"CONNACK"}}
  /\ Send(s, r) \/ sock' = s

LEMMA SendConnectAsks ==
  ASSUME SessInv, SendConnect
  PROVE  \E s \in SocketState : Asked(s, {"CONNACK"}) /\ Send(s, {"CONNACK"})
<1> DEFINE asking == [sock EXCEPT !.refused = ~registered]
<1>1. asking \in SocketState /\ Send(asking, {"CONNACK"})
  BY DEF SessInv, TypeOK, SocketState, SendConnect
<1>2. /\ asking.id = sock.id /\ asking.link = sock.link /\ asking.dns = sock.dns
      /\ asking.peer = sock.peer /\ asking.due = sock.due /\ asking.inbox = sock.inbox
  BY DEF SessInv, TypeOK, SocketState
<1> HIDE DEF asking
<1> QED
  BY <1>1, <1>2 DEF Asked

LEMMA ReachableAsks ==
  ASSUME SessInv, Reachable
  PROVE  \E s, r : s \in SocketState /\ Asked(s, r)
<1>1. sock \in SocketState
  BY DEF SessInv, TypeOK
<1>2. Send(sock, {"HTTP"}) \/ SendConnect \/ sock' = sock
  BY DEF Reachable, SendFails
<1> QED
  BY <1>1, <1>2, SendConnectAsks DEF Asked

LEMMA LookupTask == SessInv /\ LookupInv /\ Task => LookupInv'
<1> SUFFICES ASSUME SessInv, LookupInv, Task PROVE LookupInv'
  OBVIOUS
<1>1. /\ queue \in Seq(Message) /\ sock \in SocketState /\ open \in SUBSET Sockets
      /\ AfterClose \in SUBSET Sockets /\ BrokerByName \in BOOLEAN
      /\ {"REG", "TICKET", "BROKER"} \subseteq Peers
  BY FlagsAssumption DEF SessInv, TypeOK, AfterClose, Peers
<1>2. CASE Start
  BY <1>1, <1>2, MovedRest, LookupOpen DEF Start
<1>3. CASE NotMine \/ Dropped \/ NotCurrent \/ NotReachable \/ ReadPackets
  <2>1. Moved(1, 0) /\ UNCHANGED stackVars
    BY <1>1, <1>3, MovedRest DEF NotMine, Dropped, NotCurrent, NotReachable, ReadPackets, Event
  <2> QED
    BY <2>1, LookupStack
<1>4. CASE NameFound \/ NameNotFound
  <2>1. Take("DNS") /\ queue' = Rest
    BY <1>4 DEF NameFound, NameNotFound, Mine
  <2>2. Moved(1, 0) /\ Len(queue) >= 1 /\ queue[1].type = "DNS"
    BY <1>1, <2>1, MovedRest
  <2>3. MineAt(1) \/ sock.dns = "START"
    BY <1>1, <1>4, <2>1, MovedRest DEF NameFound, NameNotFound, Mine, MineAt
  <2> 1 \in Positions
    BY <2>2 DEF Positions, Moved
  <2>4. TRUE \notin lookups /\ \A i \in Positions : i # 1 => ~MineAt(i)
    <3>1. CASE MineAt(1)
      BY <3>1 DEF LookupInv, OneAnswer
    <3>2. CASE sock.dns = "START"
      BY <3>2 DEF LookupInv, LookupBlocks
    <3> QED
      BY <2>3, <3>1, <3>2
  <2>5. NoneMine'
    <3>1. \A i \in Positions' : MineAt(i)' => i + 1 \in Positions /\ MineAt(i + 1)
      BY <2>2, MineKept
    <3>2. \A i \in Positions' : i + 1 # 1
      BY DEF Positions
    <3> QED
      BY <2>4, <3>1, <3>2 DEF NoneMine
  <2>6. sock.due = {} /\ sock.inbox = {} /\ sock.link = "none"
    <3>1. sock.dns # "IGNORE"
      BY <2>3 DEF LookupInv, LookupBlocks
    <3> QED
      BY <3>1 DEF LookupInv, QuietSocket, NoLink
  <2>7. CASE NameFound
    <3>1. sock'.due = {} /\ sock'.inbox = {} /\ sock'.dns = "IGNORE"
      BY <2>6, <2>7, ConnectShape DEF NameFound
    <3>2. TRUE \notin lookups'
      BY <2>4, <2>7 DEF NameFound
    <3> QED
      BY <2>5, <3>1, <3>2, LookupFresh
         DEF LookupInv, QuietSocket, NoLink, NotCreated, DataOpen
  <2>8. CASE NameNotFound
    <3>1. /\ sock'.due = {} /\ sock'.inbox = {} /\ sock'.dns = "FAILED"
          /\ sock'.link = "none"
      BY <1>1, <2>6, <2>8 DEF NameNotFound, SocketState
    <3>2. TRUE \notin lookups'
      BY <2>4, <2>8 DEF NameNotFound
    <3> QED
      BY <2>5, <3>1, <3>2, LookupFresh
         DEF LookupInv, QuietSocket, NoLink, NotCreated, DataOpen
  <2> QED
    BY <1>4, <2>7, <2>8
<1>5. CASE Conn
  <2>1. CASE broker
    <3>1. NoneMine' /\ \E rc : mtk_socket_open("BROKER", BrokerByName, open, rc)
      BY <1>1, <1>5, <2>1, MovedRest DEF Conn
    <3> QED
      BY <1>1, <3>1, LookupOpen
  <2>2. CASE ~broker
    <3>1. Moved(1, 1) /\ Newest.type = "START" /\ UNCHANGED stackVars
      BY <1>1, <1>5, <2>2, MovedPost DEF Conn, Requests
    <3> QED
      BY <3>1, LookupStack
  <2> QED
    BY <2>1, <2>2
<1>6. CASE Close
  BY <1>6, LookupMqttClose DEF Close, Left
<1>7. CASE Publish
  <2>1. Left(Rest, 1)
    BY <1>7 DEF Publish, Left
  <2>2. /\ \E r : Send(sock, r) \/ sock' = sock
        /\ queue' \in {Rest, Post(Rest, "CLOSE")}
        /\ open' = open /\ lookups' = lookups
    BY <1>7 DEF Publish, publish_message, SendFails
  <2> QED
    BY <1>1, <2>1, <2>2, LookupSend
<1>8. CASE Keepalive
  <2>1. Left(Rest, 1)
    BY <1>8 DEF Keepalive, Left
  <2>2. /\ \E r : Send(sock, r) \/ sock' = sock
        /\ queue' \in {Rest, Post(Rest, "CLOSE")}
        /\ open' = open /\ lookups' = lookups
    BY <1>8 DEF Keepalive, MQTTkeepalive_start, SendFails
  <2> QED
    BY <1>1, <2>1, <2>2, LookupSend
<1>9. CASE ReadRegInfo
  BY <1>1, <1>9, MovedRest, LookupOpen DEF ReadRegInfo, Event
<1>10. CASE ReadTicket
  BY <1>1, <1>10, MovedPost, LookupClose DEF ReadTicket, Event, Requests
<1>11. CASE Reachable
  <2>1. Left(Rest, 1)
    BY <1>11 DEF Reachable, Event, Left
  <2>2. queue' \in {Rest, Post(Rest, "CLOSE")} /\ open' = open /\ lookups' = lookups
    BY <1>11 DEF Reachable
  <2>3. PICK s, r : s \in SocketState /\ Asked(s, r)
    BY <1>11, ReachableAsks
  <2> QED
    BY <1>1, <2>1, <2>2, <2>3, LookupSend DEF Asked
<1>12. CASE PeerGone
  <2>1. CASE mqtt_close(Rest, timers)
    BY <1>12, <2>1, LookupMqttClose DEF PeerGone, Event, Left
  <2>2. CASE queue' = Rest /\ UNCHANGED stackVars
    BY <1>1, <1>12, <2>2, MovedRest, LookupStack DEF PeerGone, Event
  <2> QED
    BY <1>12, <2>1, <2>2 DEF PeerGone
<1>13. CASE CycleConnack
  <2>1. /\ Moved(0, 0) \/ (Moved(0, 1) /\ Newest.type = "ALIAS")
    BY <1>1, <1>13, MovedBehind DEF CycleConnack, Requests
  <2>2. sock' = Unread("CONNACK") /\ open' = open /\ lookups' = lookups
    BY <1>13 DEF CycleConnack
  <2> QED
    BY <2>1, <2>2, UnreadShape, LookupData
<1>14. CASE CyclePuback
  <2>1. /\ \E r : Send(Unread("PUBACK"), r) \/ sock' = Unread("PUBACK")
        /\ queue' \in {queue, Post(queue, "CLOSE")}
        /\ open' = open /\ lookups' = lookups
    BY <1>14 DEF CyclePuback, MQTTkeepalive_start, SendFails
  <2> QED
    BY <2>1, UnreadShape, LookupSend DEF Left
<1>15. CASE CycleCommand
  <2>1. /\ \E r : Send(Unread("CMD"), r) \/ sock' = Unread("CMD")
        /\ queue' \in {queue, Post(queue, "CLOSE")}
        /\ open' = open /\ lookups' = lookups
    BY <1>15 DEF CycleCommand, publish_message, SendFails
  <2> QED
    BY <2>1, UnreadShape, LookupSend DEF Left
<1>16. CASE CycleOther
  <2>1. \E p : sock' = Unread(p)
    BY <1>16 DEF CycleOther
  <2>2. Moved(0, 0) /\ open' = open /\ lookups' = lookups
    BY <1>1, <1>16, MovedBehind DEF CycleOther
  <2> QED
    BY <2>1, <2>2, UnreadShape, LookupData
<1>17. CASE CycleEnds \/ CycleSpins
  BY <1>1, <1>17, MovedBehind, LookupStack DEF CycleEnds, CycleSpins
<1> QED
  BY <1>2, <1>3, <1>4, <1>5, <1>6, <1>7, <1>8, <1>9, <1>10, <1>11, <1>12, <1>13, <1>14,
     <1>15, <1>16, <1>17 DEF Task

LEMMA LookupExpiry == SessInv /\ LookupInv /\ Expiry => LookupInv'
<1> SUFFICES ASSUME SessInv, LookupInv, Expiry PROVE LookupInv'
  OBVIOUS
<1>1. queue \in Seq(Message) /\ {"START", "KEEPALIVE", "PUBLISH"} \subseteq Requests
  BY DEF SessInv, TypeOK, Requests
<1>2. CASE DemoExpires
  <2>1. CASE UNCHANGED stackVars /\ queue' \in {queue, Post(queue, "START")}
    BY <1>1, <2>1, MovedBehind, LookupStack
  <2>2. CASE mtk_socket_close /\ queue' = Post(Outdate(queue), "START")
    BY <1>1, <2>2, MovedOlder, LookupClose
  <2> QED
    BY <1>2, <2>1, <2>2 DEF DemoExpires
<1>3. CASE RetryExpires
  <2>1. CASE mqtt_close(queue, timers \ {"RETRY"})
    BY <2>1, LookupMqttClose DEF Left
  <2>2. CASE UNCHANGED stackVars /\ queue' = queue
    BY <1>1, <2>2, MovedBehind, LookupStack
  <2> QED
    BY <1>3, <2>1, <2>2 DEF RetryExpires
<1>4. CASE KeepaliveExpires \/ PubExpires
  BY <1>1, <1>4, MovedBehind, LookupStack DEF KeepaliveExpires, PubExpires, Reminds
<1> QED
  BY <1>2, <1>3, <1>4 DEF Expiry

LEMMA LookupWorld == SessInv /\ LookupInv /\ World => LookupInv'
<1> SUFFICES ASSUME SessInv, LookupInv, World PROVE LookupInv'
  OBVIOUS
<1>1. queue \in Seq(Message) /\ sock \in SocketState
  BY DEF SessInv, TypeOK
<1>2. sock.link \in {"connecting", "up", "acked"} => /\ sock.id \in open /\ sock.id \in Sockets
                                                       /\ sock.dns = "IGNORE"
  BY DEF SessInv, TypeOK, LinkOpen, LookupInv, NoLink
<1>3. ASSUME NEW mine \in BOOLEAN, NEW ok \in BOOLEAN, LookupAnswered(mine, ok)
      PROVE  LookupInv'
  <2> DEFINE m == [type |-> "DNS", mine |-> mine, ok |-> ok]
  <2>1. Moved(0, 1) /\ Newest = m
    BY <1>1, <1>3, MessageForms, MovedBehind DEF LookupAnswered
  <2>2. mine \in lookups /\ lookups' = lookups \ {mine} /\ sock' = sock /\ open' = open
    BY <1>3 DEF LookupAnswered
  <2>3. LookupBlocks' /\ OneAnswer'
    <3>1. CASE ~mine
      BY <2>1, <2>2, <3>1, LookupKept DEF LookupInv
    <3>2. CASE mine
      <4>1. TRUE \notin lookups' /\ sock'.dns = "BLOCKED" /\ NoneMine
        BY <2>2, <3>2 DEF LookupInv, LookupBlocks, OneAnswer, NoneMine
      <4>2. \A i \in Positions' : MineAt(i)' => i = Len(queue')
        BY <2>1, <4>1 DEF Moved, Positions, MineAt, NoneMine
      <4> QED
        BY <4>1, <4>2 DEF LookupBlocks, OneAnswer
    <3> QED
      BY <3>1, <3>2
  <2> QED
    BY <2>2, <2>3 DEF LookupInv, QuietSocket, NoLink, NotCreated, DataOpen
<1>4. ASSUME NEW ok \in BOOLEAN, Connected(ok) PROVE LookupInv'
  <2>1. Moved(0, 1) /\ Newest.type = "CONNECT"
    BY <1>1, <1>2, <1>4, MessageForms, MovedBehind DEF Connected
  <2>2. /\ sock'.dns = sock.dns /\ sock'.due = sock.due /\ sock'.inbox = sock.inbox
        /\ sock'.id = sock.id /\ open' = open /\ lookups' = lookups
        /\ sock.due = {} /\ sock.inbox = {} /\ sock.dns = "IGNORE"
    BY <1>1, <1>2, <1>4 DEF Connected, SocketState, LookupInv, QuietSocket
  <2>3. LookupBlocks' /\ OneAnswer'
    BY <2>1, <2>2, LookupKept DEF LookupInv
  <2> QED
    BY <2>2, <2>3 DEF LookupInv, QuietSocket, NoLink, NotCreated, DataOpen
<1>5. ASSUME Linked, NEW p, NEW settled, NEW link \in {"acked", sock.link},
             Arrives(p, settled, link)
      PROVE  LookupInv'
  <2>1. \E n : Moved(0, n) /\ (n = 1 => Newest.type = "READ")
    BY <1>1, <1>2, <1>5, MessageForms, MovedBehind DEF Arrives, Linked
  <2>2. /\ sock'.dns = sock.dns /\ sock'.id = sock.id /\ sock'.link \in {"up", "acked"}
        /\ open' = open /\ lookups' = lookups /\ sock.dns = "IGNORE" /\ sock.id \in open
    BY <1>1, <1>2, <1>5 DEF Arrives, SocketState, Linked
  <2>3. LookupBlocks' /\ OneAnswer'
    BY <2>1, <2>2, LookupKept DEF LookupInv
  <2> QED
    BY <2>2, <2>3 DEF LookupInv, QuietSocket, NoLink, NotCreated, DataOpen
<1>6. CASE LookupLost
  <2>1. Moved(0, 0) /\ sock' = sock /\ open' = open /\ lookups' = {}
    BY <1>1, <1>6, MovedBehind DEF LookupLost
  <2>2. LookupBlocks' /\ OneAnswer'
    BY <2>1, LookupKept DEF LookupInv
  <2> QED
    BY <2>1, <2>2 DEF LookupInv, QuietSocket, NoLink, NotCreated, DataOpen
<1>7. CASE ConnectLost \/ BrokerRefuses \/ ReplyLost \/ PeerCloses
  <2>1. \E n : Moved(0, n) /\ (n = 1 => Newest.type = "CLOSED")
    BY <1>1, <1>2, <1>7, MessageForms, MovedBehind
       DEF ConnectLost, BrokerRefuses, ReplyLost, PeerCloses, Linked
  <2>2. /\ sock'.dns = sock.dns /\ sock'.id = sock.id /\ sock'.due \subseteq sock.due
        /\ sock'.inbox = sock.inbox /\ open' = open /\ lookups' = lookups
        /\ sock'.link = sock.link \/ (sock.dns = "IGNORE" /\ sock'.link = "dead")
    BY <1>1, <1>2, <1>7
       DEF ConnectLost, BrokerRefuses, ReplyLost, PeerCloses, Linked, SocketState
  <2>3. LookupBlocks' /\ OneAnswer'
    BY <2>1, <2>2, LookupKept DEF LookupInv
  <2> QED
    BY <2>2, <2>3 DEF LookupInv, QuietSocket, NoLink, NotCreated, DataOpen
<1>8. ASSUME NEW t \in Requests, NEW k, Posted(t, k) PROVE LookupInv'
  <2>1. Msg(t) \in Message /\ Msg(t).type = t /\ t # "DNS"
    BY MessageForms DEF Msg, Requests
  <2> QED
    BY <1>1, <1>8, <2>1, MovedBehind, LookupStack DEF Posted
<1>9. CASE \E p \in Replies : PeerReplies(p)
  BY <1>5, <1>9 DEF PeerReplies
<1>10. CASE ReplyGarbled \/ BrokerCommands
  BY <1>5, <1>10 DEF ReplyGarbled, BrokerCommands, Linked
<1> QED
  BY <1>3, <1>4, <1>6, <1>7, <1>8, <1>9, <1>10 DEF World, Outside, Requests

LEMMA LookupStep == SessInv /\ LookupInv /\ [Next]_vars => LookupInv'
<1> SUFFICES ASSUME SessInv, LookupInv, [Next]_vars PROVE LookupInv'
  OBVIOUS
<1>1. CASE UNCHANGED vars
  BY <1>1, MovedBehind, LookupStack DEF vars, stackVars, SessInv, TypeOK
<1>2. CASE Reboot
  <2>1. NoneMine'
    BY <1>2 DEF Reboot, Boot, NoneMine, MineAt, Positions, Msg
  <2> QED
    BY <1>2, <2>1, ClosedShape, LookupFresh DEF Reboot, Boot, LookupInv, SocketShape
<1> QED
  BY <1>1, <1>2, LookupTask, LookupExpiry, LookupWorld DEF Next

LEMMA LookupInvariant == Spec => []LookupInv
<1>1. Init => LookupInv
  <2> SUFFICES ASSUME Init PROVE LookupInv
    OBVIOUS
  <2>1. NoneMine /\ TRUE \notin lookups
    BY DEF Init, NoneMine, MineAt, Positions, Msg
  <2> QED
    BY <2>1 DEF Init, Closed, LookupInv, LookupBlocks, OneAnswer, NoneMine, QuietSocket,
                NoLink, NotCreated, DataOpen
<1> QED
  BY <1>1, LookupStep, SessionInvariant, PTL DEF Spec

-------------------------------------------------------------------------------
(* What is ahead of a way out stays ahead of it. *)

LEMMA CoveredKept ==
  ASSUME NEW d, NEW n, Moved(d, n), NEW i \in 1 .. Len(queue) - d, Covered(i + d)
  PROVE  Covered(i)'
<1>1. PICK j \in i + d + 1 .. Len(queue) : queue[j].type \in Ways
  BY DEF Covered
<1>2. /\ j - d \in i + 1 .. Len(queue') /\ j - d \in 1 .. Len(queue) - d
      /\ (j - d) + d = j
  BY DEF Moved
<1>3. queue'[j - d].type = queue[j].type
  BY <1>2 DEF Moved
<1> QED
  BY <1>1, <1>2, <1>3 DEF Covered

LEMMA CoveredByNew ==
  ASSUME NEW d, Moved(d, 1), Newest.type \in Ways, NEW i \in 1 .. Len(queue) - d
  PROVE  Covered(i)'
<1>1. Len(queue') \in i + 1 .. Len(queue')
  BY DEF Moved
<1> QED
  BY <1>1 DEF Covered, Newest

(* An event that stays is the event it was. *)
LEMMA EventKept ==
  ASSUME NEW d, NEW n, Moved(d, n), NEW i \in Positions', queue'[i].type # "DNS",
         n = 1 => i # Len(queue')
  PROVE  /\ i \in 1 .. Len(queue) - d /\ i + d \in Positions
         /\ queue'[i] = queue[i + d]
<1>1. i \in 1 .. Len(queue) - d /\ i + d \in 1 .. Len(queue)
  BY DEF Moved, Positions
<1> QED
  BY <1>1 DEF Moved, Positions

LEMMA StaleKept ==
  ASSUME StaleCovered, NEW d, NEW n, Moved(d, n), open \subseteq open',
         n = 1 => ~(Newest.type = "CONNECT" /\ Newest.id \notin open')
  PROVE  StaleCovered'
<1> SUFFICES ASSUME NEW i \in Positions', queue'[i].type = "CONNECT", queue'[i].id \notin open'
             PROVE  Covered(i)'
  BY DEF StaleCovered
<1>1. /\ i \in 1 .. Len(queue) - d /\ i + d \in Positions
      /\ queue'[i] = queue[i + d]
  BY EventKept DEF Newest
<1>2. Covered(i + d)
  BY <1>1 DEF StaleCovered
<1> QED
  BY <1>1, <1>2, CoveredKept

LEMMA StaleWay ==
  ASSUME NEW d, Moved(d, 1), Newest.type \in Ways
  PROVE  StaleCovered'
<1> SUFFICES ASSUME NEW i \in Positions', queue'[i].type = "CONNECT"
             PROVE  Covered(i)'
  BY DEF StaleCovered
<1>1. i # Len(queue')
  BY DEF Newest, Ways
<1>2. i \in 1 .. Len(queue) - d
  BY <1>1, EventKept
<1> QED
  BY <1>2, CoveredByNew

(* A step that keeps the id of the socket and posts no event of it. *)
LEMMA OrderSame ==
  ASSUME OrderInv, NEW d, NEW n, Moved(d, n), sock'.id = sock.id, open \subseteq open',
         n = 1 => Newest.type \notin {"CONNECT", "READ"},
         state' = "REG_INFO" => state = "REG_INFO" /\ sock'.dns = "IGNORE",
         sock'.link = "connecting" => sock.link = "connecting"
  PROVE  OrderInv'
<1> USE DEF OrderInv
<1>1. StaleCovered'
  BY StaleKept
<1>2. \A i \in Positions', t \in {"CONNECT", "READ"} :
         Is(i, t)' => i \in 1 .. Len(queue) - d /\ i + d \in Positions /\ Is(i + d, t)
  <2> SUFFICES ASSUME NEW i \in Positions', NEW t \in {"CONNECT", "READ"}, Is(i, t)'
               PROVE  i \in 1 .. Len(queue) - d /\ i + d \in Positions /\ Is(i + d, t)
    OBVIOUS
  <2>1. queue'[i].type # "DNS" /\ (n = 1 => i # Len(queue'))
    BY DEF Is, Newest
  <2> QED
    BY <2>1, EventKept DEF Is
<1>3. ReadAfterConnect'
  <2> SUFFICES ASSUME state' = "REG_INFO", NEW i \in Positions', NEW j \in Positions', i < j,
                      Is(i, "READ")', Is(j, "CONNECT")'
               PROVE  Covered(j)'
    BY DEF ReadAfterConnect
  <2>1. /\ i + d \in Positions /\ Is(i + d, "READ")
        /\ j \in 1 .. Len(queue) - d /\ j + d \in Positions /\ Is(j + d, "CONNECT")
    BY <1>2
  <2>2. i + d < j + d
    BY DEF Moved, Positions
  <2>3. Covered(j + d)
    BY <2>1, <2>2 DEF ReadAfterConnect
  <2> QED
    BY <2>1, <2>3, CoveredKept
<1>4. NoEarlyRead'
  BY <1>2 DEF NoEarlyRead
<1>5. AnswerBehindReads'
  <2> SUFFICES ASSUME NEW k \in Positions', NEW i \in Positions', k < i,
                      MineAt(k)', Is(i, "READ")'
               PROVE  FALSE
    BY DEF AnswerBehindReads
  <2>1. i + d \in Positions /\ Is(i + d, "READ") /\ i \in 1 .. Len(queue) - d
    BY <1>2
  <2>2. k \in 1 .. Len(queue) - d /\ k + d \in Positions /\ k + d < i + d
    BY <2>1 DEF Moved, Positions
  <2>3. MineAt(k + d)
    BY <2>2 DEF MineAt, Moved
  <2> QED
    BY <2>1, <2>2, <2>3 DEF AnswerBehindReads
<1>6. NameKnown'
  BY DEF NameKnown
<1> QED
  BY <1>1, <1>3, <1>4, <1>5, <1>6

(* Without a socket no event is taken for one of it. *)
LEMMA OrderGone ==
  ASSUME queue' \in Seq(Message), sock' = Closed, StaleCovered'
  PROVE  OrderInv'
<1>1. sock'.id = NoSocket /\ sock'.dns = "IGNORE"
  BY DEF Closed
<1>2. \A i \in Positions' : queue'[i] \in Message
  BY ElementOfSeq DEF Positions
<1>3. \A m \in Message : m.type \in {"READ", "CONNECT"} => m.id \in Sockets
  BY DEF Message, Requests
<1>4. \A i \in Positions', t \in {"READ", "CONNECT"} : ~Is(i, t)'
  BY <1>1, <1>2, <1>3, SocketsAssumption DEF Is
<1> QED
  BY <1>1, <1>4 DEF OrderInv, ReadAfterConnect, NoEarlyRead, AnswerBehindReads, NameKnown

(* Outside REG_INFO only the stale reports matter while no lookup is waited for. *)
LEMMA OrderElsewhere ==
  ASSUME state' # "REG_INFO", NoneMine', StaleCovered'
  PROVE  OrderInv'
BY DEF OrderInv, ReadAfterConnect, NoEarlyRead, AnswerBehindReads, NameKnown, NoneMine

LEMMA OrderMqttClose ==
  ASSUME SessInv, SessInv', OrderInv, NEW q, NEW d, Left(q, d), NEW ts, mqtt_close(q, ts)
  PROVE  OrderInv'
<1>1. queue \in Seq(Message) /\ queue' \in Seq(Message) /\ state' = state
  BY DEF SessInv, TypeOK, mqtt_close
<1>2. CASE UNCHANGED stackVars /\ \E n : Moved(d, n) /\ (n = 1 => Newest.type = "CONN")
  BY <1>1, <1>2, OrderSame DEF stackVars, OrderInv, NameKnown
<1>3. CASE sock' = Closed /\ Moved(d, 1) /\ Newest.type = "CONN"
  BY <1>1, <1>3, StaleWay, OrderGone DEF Ways
<1>4. CASE mtk_socket_close /\ Moved(d, 1) /\ Newest.type = "CONN"
  BY <1>2, <1>3, <1>4, CloseShape
<1>5. CASE UNCHANGED stackVars /\ Moved(d, 0)
  BY <1>2, <1>5
<1> QED
  BY <1>1, <1>4, <1>5, mqtt_close_Queue

LEMMA OrderSend ==
  ASSUME SessInv, OrderInv, NEW s \in SocketState,
         s.id = sock.id, s.link = sock.link, s.dns = sock.dns,
         NEW r, Send(s, r) \/ sock' = s, open' = open, state' = state,
         NEW q, NEW d, Left(q, d), queue' \in {q, Post(q, "CLOSE")}
  PROVE  OrderInv'
<1>1. queue \in Seq(Message)
  BY DEF SessInv, TypeOK
<1>2. PICK n : Moved(d, n) /\ (n = 1 => Newest.type = "CLOSE")
  BY <1>1, ClosePosted
<1>3. sock'.id = sock.id /\ sock'.link = sock.link /\ sock'.dns = sock.dns
  BY DEF Send, SocketState
<1> QED
  BY <1>2, <1>3, OrderSame DEF OrderInv, NameKnown

(* The answer to the current lookup, or a lookup taken for it (host_name_cb). *)
LEMMA OrderNamed ==
  ASSUME SessInv, LookupInv, LookupInv', OrderInv, NameFound \/ NameNotFound
  PROVE  OrderInv'
<1>1. queue \in Seq(Message) /\ sock \in SocketState
  BY DEF SessInv, TypeOK
<1>2. Take("DNS") /\ queue' = Rest /\ open' = open
  BY DEF NameFound, NameNotFound, Mine
<1>3. Moved(1, 0) /\ Len(queue) >= 1
  BY <1>1, <1>2, MovedRest
<1>4. 1 \in Positions /\ (MineAt(1) \/ sock.dns = "START")
  BY <1>1, <1>2, <1>3, MovedRest DEF NameFound, NameNotFound, Mine, MineAt, Positions, Moved
<1>5. state # "REG_INFO"
  BY <1>4 DEF OrderInv, NameKnown, LookupInv, LookupBlocks
<1>6. StaleCovered'
  BY <1>2, <1>3, StaleKept DEF OrderInv
<1>7. CASE NameNotFound
  <2>1. state' = state /\ sock'.id = sock.id /\ sock'.link = sock.link
    BY <1>1, <1>7 DEF NameNotFound, SocketState
  <2> QED
    BY <1>2, <1>3, <1>5, <2>1, OrderSame
<1>8. CASE NameFound
  <2>1. /\ sock'.dns = "IGNORE" /\ sock'.id = sock.id
        /\ sock.id \notin open => sock'.link = "dead"
    BY <1>2, <1>8, ConnectShape DEF NameFound
  <2>2. NoneMine'
    BY <2>1 DEF LookupInv, LookupBlocks, NoneMine
  <2>3. CASE MineAt(1)
    <3>1. \A i \in Positions' : ~Is(i, "READ")'
      <4> SUFFICES ASSUME NEW i \in Positions', Is(i, "READ")'
                   PROVE  FALSE
        OBVIOUS
      <4>1. i + 1 \in Positions /\ Is(i + 1, "READ")
        BY <1>3, <2>1, EventKept DEF Is
      <4>2. 1 < i + 1
        BY DEF Positions
      <4> QED
        BY <1>4, <2>3, <4>1, <4>2 DEF OrderInv, AnswerBehindReads
    <3> QED
      BY <1>6, <2>1, <3>1
         DEF OrderInv, ReadAfterConnect, NoEarlyRead, AnswerBehindReads, NameKnown
  <2>4. CASE sock.dns = "START"
    <3>1. sock'.id \notin open' /\ sock'.link = "dead"
      BY <1>2, <2>1, <2>4 DEF LookupInv, NotCreated
    <3>2. ReadAfterConnect'
      BY <1>6, <3>1 DEF StaleCovered, ReadAfterConnect, Is
    <3> QED
      BY <1>6, <2>1, <2>2, <3>1, <3>2
         DEF OrderInv, NoEarlyRead, AnswerBehindReads, NameKnown, NoneMine
  <2> QED
    BY <1>4, <2>3, <2>4
<1> QED
  BY <1>7, <1>8

(* The registration server's socket is closed with what is left of it behind a way out. *)
LEMMA OrderRegInfo ==
  ASSUME SessInv, OrderInv, ReadRegInfo
  PROVE  OrderInv'
<1>1. queue \in Seq(Message) /\ AfterClose \in SUBSET Sockets
  BY DEF SessInv, TypeOK, AfterClose
<1>2. Moved(1, 0) /\ NoneMine' /\ Len(queue) >= 1 /\ queue[1].type = "READ"
      /\ queue[1].id = sock.id
  BY <1>1, MovedRest DEF ReadRegInfo, Event
<1>3. open \ {sock.id} \subseteq open'
  <2>1. Opened("TICKET", AfterClose)
    BY <1>1, OpenShape DEF ReadRegInfo, Peers
  <2> QED
    BY <2>1 DEF Opened, AfterClose
<1>4. StaleCovered'
  <2> SUFFICES ASSUME NEW i \in Positions', queue'[i].type = "CONNECT",
                      queue'[i].id \notin open'
               PROVE  Covered(i)'
    BY DEF StaleCovered
  <2>1. /\ i \in 1 .. Len(queue) - 1 /\ i + 1 \in Positions
        /\ queue'[i] = queue[i + 1]
    BY <1>2, EventKept
  <2>2. 1 \in Positions /\ 1 < i + 1
    BY <1>2, <2>1 DEF Positions, Moved
  <2>3. CASE queue[i + 1].id \notin open
    BY <1>2, <2>1, <2>3, CoveredKept DEF OrderInv, StaleCovered
  <2>4. CASE queue[i + 1].id = sock.id
    <3>1. Is(1, "READ") /\ Is(i + 1, "CONNECT")
      BY <1>2, <2>1, <2>4 DEF Is
    <3>2. Covered(i + 1)
      BY <2>1, <2>2, <3>1 DEF OrderInv, ReadAfterConnect, ReadRegInfo
    <3> QED
      BY <1>2, <2>1, <3>2, CoveredKept
  <2> QED
    BY <1>3, <2>1, <2>3, <2>4
<1> QED
  BY <1>2, <1>4, OrderElsewhere DEF ReadRegInfo

LEMMA OrderTask == SessInv /\ SessInv' /\ LookupInv /\ LookupInv' /\ OrderInv /\ Task => OrderInv'
<1> SUFFICES ASSUME SessInv, SessInv', LookupInv, LookupInv', OrderInv, Task PROVE OrderInv'
  OBVIOUS
<1>1. /\ queue \in Seq(Message) /\ sock \in SocketState /\ open \in SUBSET Sockets
      /\ BrokerByName \in BOOLEAN /\ {"REG", "TICKET", "BROKER"} \subseteq Peers
  BY FlagsAssumption DEF SessInv, TypeOK, Peers
<1>2. ASSUME NEW peer \in Peers, NEW byName \in BOOLEAN, NEW rc, state' # "REG_INFO",
             mtk_socket_open(peer, byName, open, rc), Moved(1, 0), NoneMine'
      PROVE  OrderInv'
  <2> open \in SUBSET Sockets
    BY <1>1
  <2>1. Opened(peer, open)
    BY <1>2, OpenShape, Zenon
  <2>2. StaleCovered'
    BY <1>2, <2>1, StaleKept DEF OrderInv, Opened
  <2> QED
    BY <1>2, <2>2, OrderElsewhere
<1>3. CASE Start
  BY <1>1, <1>2, <1>3, MovedRest DEF Start
<1>4. CASE NotMine \/ Dropped \/ NotCurrent \/ NotReachable \/ ReadPackets
  <2>1. Moved(1, 0) /\ UNCHANGED stackVars /\ state' = state
    BY <1>1, <1>4, MovedRest
       DEF NotMine, Dropped, NotCurrent, NotReachable, ReadPackets, Event, sessionVars
  <2> QED
    BY <2>1, OrderSame DEF stackVars, OrderInv, NameKnown
<1>5. CASE NameFound \/ NameNotFound
  BY <1>5, OrderNamed
<1>6. CASE Conn
  <2>1. CASE broker
    <3>1. /\ Moved(1, 0) /\ NoneMine' /\ state' # "REG_INFO"
          /\ \E rc : mtk_socket_open("BROKER", BrokerByName, open, rc)
      BY <1>1, <1>6, <2>1, MovedRest DEF Conn
    <3> QED
      BY <1>1, <1>2, <3>1
  <2>2. CASE ~broker
    <3>1. Moved(1, 1) /\ Newest.type = "START" /\ UNCHANGED stackVars /\ state' # "REG_INFO"
      BY <1>1, <1>6, <2>2, MovedPost DEF Conn, Requests
    <3> QED
      BY <3>1, OrderSame DEF stackVars
  <2> QED
    BY <2>1, <2>2
<1>7. CASE Close
  BY <1>7, OrderMqttClose DEF Close, Left
<1>8. CASE Publish
  <2>1. Left(Rest, 1)
    BY <1>8 DEF Publish, Left
  <2>2. /\ \E r : Send(sock, r) \/ sock' = sock
        /\ queue' \in {Rest, Post(Rest, "CLOSE")}
        /\ open' = open /\ state' = state
    BY <1>8 DEF Publish, publish_message, SendFails
  <2> QED
    BY <1>1, <2>1, <2>2, OrderSend
<1>9. CASE Keepalive
  <2>1. Left(Rest, 1)
    BY <1>9 DEF Keepalive, Left
  <2>2. /\ \E r : Send(sock, r) \/ sock' = sock
        /\ queue' \in {Rest, Post(Rest, "CLOSE")}
        /\ open' = open /\ state' = state
    BY <1>9 DEF Keepalive, MQTTkeepalive_start, SendFails
  <2> QED
    BY <1>1, <2>1, <2>2, OrderSend
<1>10. CASE ReadRegInfo
  BY <1>10, OrderRegInfo
<1>11. CASE ReadTicket
  <2>1. Moved(1, 1) /\ Newest.type = "CONN" /\ NoneMine' /\ state' # "REG_INFO"
    BY <1>1, <1>11, MovedPost DEF ReadTicket, Event, Requests
  <2> QED
    BY <2>1, StaleWay, OrderElsewhere DEF Ways
<1>12. CASE Reachable
  <2>1. Left(Rest, 1)
    BY <1>12 DEF Reachable, Event, Left
  <2>2. queue' \in {Rest, Post(Rest, "CLOSE")} /\ open' = open /\ state' = state
    BY <1>12 DEF Reachable
  <2>3. PICK s, r : s \in SocketState /\ Asked(s, r)
    BY <1>12, ReachableAsks
  <2> QED
    BY <1>1, <2>1, <2>2, <2>3, OrderSend DEF Asked
<1>13. CASE PeerGone
  <2>1. CASE mqtt_close(Rest, timers)
    BY <1>13, <2>1, OrderMqttClose DEF PeerGone, Event, Left
  <2>2. CASE queue' = Rest /\ UNCHANGED <<stackVars, sessionVars>>
    <3>1. Moved(1, 0) /\ UNCHANGED stackVars /\ state' = state
      BY <1>1, <1>13, <2>2, MovedRest DEF PeerGone, Event, sessionVars
    <3> QED
      BY <3>1, OrderSame DEF stackVars, OrderInv, NameKnown
  <2> QED
    BY <1>13, <2>1, <2>2 DEF PeerGone
<1>14. CASE CycleConnack
  <2>1. \E n : Moved(0, n) /\ (n = 1 => Newest.type = "ALIAS")
    BY <1>1, <1>14, MovedBehind DEF CycleConnack, Requests
  <2>2. /\ sock' = Unread("CONNACK") /\ open' = open
        /\ state' = "REG_INFO" => state = "REG_INFO"
    BY <1>14 DEF CycleConnack
  <2> QED
    BY <2>1, <2>2, UnreadShape, OrderSame DEF OrderInv, NameKnown
<1>15. CASE CyclePuback
  <2>1. /\ \E r : Send(Unread("PUBACK"), r) \/ sock' = Unread("PUBACK")
        /\ queue' \in {queue, Post(queue, "CLOSE")}
        /\ open' = open /\ state' = state
    BY <1>15 DEF CyclePuback, MQTTkeepalive_start, SendFails
  <2> QED
    BY <2>1, UnreadShape, OrderSend DEF Left
<1>16. CASE CycleCommand
  <2>1. /\ \E r : Send(Unread("CMD"), r) \/ sock' = Unread("CMD")
        /\ queue' \in {queue, Post(queue, "CLOSE")}
        /\ open' = open /\ state' = state
    BY <1>16 DEF CycleCommand, publish_message, SendFails
  <2> QED
    BY <2>1, UnreadShape, OrderSend DEF Left
<1>17. CASE CycleOther
  <2>1. \E p : sock' = Unread(p)
    BY <1>17 DEF CycleOther
  <2>2. Moved(0, 0) /\ open' = open /\ state' = state
    BY <1>1, <1>17, MovedBehind DEF CycleOther, sessionVars
  <2> QED
    BY <2>1, <2>2, UnreadShape, OrderSame DEF OrderInv, NameKnown
<1>18. CASE CycleEnds \/ CycleSpins
  <2>1. Moved(0, 0) /\ UNCHANGED stackVars /\ state' = state
    BY <1>1, <1>18, MovedBehind DEF CycleEnds, CycleSpins
  <2> QED
    BY <2>1, OrderSame DEF stackVars, OrderInv, NameKnown
<1> QED
  BY <1>3, <1>4, <1>5, <1>6, <1>7, <1>8, <1>9, <1>10, <1>11, <1>12, <1>13, <1>14, <1>15,
     <1>16, <1>17, <1>18 DEF Task

LEMMA OrderExpiry == SessInv /\ SessInv' /\ OrderInv /\ Expiry => OrderInv'
<1> SUFFICES ASSUME SessInv, SessInv', OrderInv, Expiry PROVE OrderInv'
  OBVIOUS
<1>1. /\ queue \in Seq(Message) /\ queue' \in Seq(Message)
      /\ {"START", "KEEPALIVE", "PUBLISH"} \subseteq Requests
  BY DEF SessInv, TypeOK, Requests
<1>2. ASSUME UNCHANGED stackVars, state' = state, NEW n, Moved(0, n),
             n = 1 => Newest.type \in Requests
      PROVE  OrderInv'
  <2>1. n = 1 => Newest.type \notin {"CONNECT", "READ"}
    BY <1>2 DEF Requests
  <2> QED
    BY <1>2, <2>1, OrderSame DEF stackVars, OrderInv, NameKnown
<1>3. CASE DemoExpires
  <2>1. state' = state
    BY <1>3 DEF DemoExpires
  <2>2. CASE UNCHANGED stackVars /\ queue' \in {queue, Post(queue, "START")}
    BY <1>1, <1>2, <2>1, <2>2, MovedBehind
  <2>3. CASE mtk_socket_close /\ queue' = Post(Outdate(queue), "START")
    <3>1. Moved(0, 1) /\ Newest.type = "START"
      BY <1>1, <2>3, MovedOlder
    <3>2. CASE UNCHANGED stackVars
      BY <1>1, <1>2, <2>1, <3>1, <3>2
    <3>3. CASE sock' = Closed
      BY <1>1, <3>1, <3>3, StaleWay, OrderGone DEF Ways
    <3> QED
      BY <2>3, <3>2, <3>3, CloseShape
  <2> QED
    BY <1>3, <2>2, <2>3 DEF DemoExpires
<1>4. CASE RetryExpires
  <2>1. CASE mqtt_close(queue, timers \ {"RETRY"})
    BY <2>1, OrderMqttClose DEF Left
  <2>2. CASE UNCHANGED stackVars /\ queue' = queue /\ state' = state
    BY <1>1, <1>2, <2>2, MovedBehind
  <2> QED
    BY <1>4, <2>1, <2>2 DEF RetryExpires
<1>5. CASE KeepaliveExpires \/ PubExpires
  <2>1. \E u \in {"KEEPALIVE", "PUBLISH"} : queue' = Post(queue, u)
    BY <1>5 DEF KeepaliveExpires, PubExpires, Reminds
  <2>2. Moved(0, 1) /\ Newest.type \in Requests
    BY <1>1, <2>1, MovedBehind
  <2> QED
    BY <1>2, <1>5, <2>2 DEF KeepaliveExpires, PubExpires, Reminds
<1> QED
  BY <1>3, <1>4, <1>5 DEF Expiry

(* What the stack and the peers report goes behind the mailbox. *)
LEMMA OrderWorld == SessInv /\ LookupInv /\ LookupInv' /\ OrderInv /\ World => OrderInv'
<1> SUFFICES ASSUME SessInv, LookupInv, LookupInv', OrderInv, World PROVE OrderInv'
  OBVIOUS
<1>1. queue \in Seq(Message) /\ sock \in SocketState /\ state' = state
  BY DEF SessInv, TypeOK, World, sessionVars
<1>2. sock.link \in {"connecting", "up", "acked"} => /\ sock.id \in open /\ sock.id \in Sockets
                                                       /\ sock.dns = "IGNORE"
  BY DEF SessInv, TypeOK, LinkOpen, LookupInv, NoLink
<1>3. ASSUME NEW n, Moved(0, n), n = 1 => Newest.type \notin {"CONNECT", "READ"},
             sock'.id = sock.id, sock'.dns = sock.dns, open' = open,
             sock'.link = "connecting" => sock.link = "connecting"
      PROVE  OrderInv'
  BY <1>1, <1>3, OrderSame DEF OrderInv, NameKnown
<1>4. ASSUME NEW mine \in BOOLEAN, NEW ok \in BOOLEAN, LookupAnswered(mine, ok)
      PROVE  OrderInv'
  <2>1. Moved(0, 1) /\ Newest.type = "DNS"
    BY <1>1, <1>4, MessageForms, MovedBehind DEF LookupAnswered
  <2> QED
    BY <1>3, <1>4, <2>1 DEF LookupAnswered
<1>5. ASSUME NEW ok \in BOOLEAN, Connected(ok) PROVE OrderInv'
  <2>1. /\ Moved(0, 1) /\ Newest.type = "CONNECT" /\ Newest.id = sock.id
        /\ sock.id \in open /\ sock.link = "connecting"
    BY <1>1, <1>2, <1>5, MessageForms, MovedBehind DEF Connected
  <2>2. /\ sock'.dns = sock.dns /\ sock'.id = sock.id /\ sock'.link # "connecting"
        /\ open' = open
    BY <1>1, <1>5 DEF Connected, SocketState
  <2>3. StaleCovered'
    BY <2>1, <2>2, StaleKept DEF OrderInv
  <2>4. NoneMine'
    BY <1>2, <2>1, <2>2 DEF LookupInv, LookupBlocks, NoneMine
  <2>5. state = "REG_INFO" => \A i \in Positions' : ~Is(i, "READ")'
    <3> SUFFICES ASSUME state = "REG_INFO", NEW i \in Positions', Is(i, "READ")' PROVE FALSE
      OBVIOUS
    <3>1. queue'[i].type = "READ" /\ i # Len(queue')
      BY <2>1 DEF Is, Newest
    <3>2. i + 0 \in Positions /\ queue'[i] = queue[i + 0]
      BY <2>1, <3>1, EventKept
    <3> QED
      BY <2>1, <2>2, <3>2 DEF Is, OrderInv, NoEarlyRead
  <2> QED
    BY <1>1, <2>2, <2>3, <2>4, <2>5
       DEF OrderInv, ReadAfterConnect, NoEarlyRead, AnswerBehindReads, NameKnown, NoneMine
<1>6. ASSUME Linked, NEW p, NEW settled, NEW link \in {"acked", sock.link},
             Arrives(p, settled, link)
      PROVE  OrderInv'
  <2>1. PICK n : Moved(0, n) /\ (n = 1 => Newest.type = "READ")
    BY <1>1, <1>2, <1>6, MessageForms, MovedBehind DEF Arrives, Linked
  <2>2. /\ sock'.dns = sock.dns /\ sock'.id = sock.id /\ sock'.link \in {"up", "acked"}
        /\ open' = open /\ sock.dns = "IGNORE"
    BY <1>1, <1>2, <1>6 DEF Arrives, SocketState, Linked
  <2>3. StaleCovered'
    BY <2>1, <2>2, StaleKept DEF OrderInv
  <2>4. NoneMine'
    BY <2>2 DEF LookupInv, LookupBlocks, NoneMine
  <2>5. ReadAfterConnect'
    <3> SUFFICES ASSUME state' = "REG_INFO", NEW i \in Positions', NEW j \in Positions', i < j,
                        Is(i, "READ")', Is(j, "CONNECT")'
                 PROVE  Covered(j)'
      BY DEF ReadAfterConnect
    <3>1. n = 1 => j # Len(queue')
      BY <2>1 DEF Is, Newest
    <3>2. n = 1 => i # Len(queue')
      BY <3>1 DEF Positions
    <3>3. /\ i + 0 \in Positions /\ Is(i + 0, "READ") /\ i + 0 < j + 0
          /\ j \in 1 .. Len(queue) - 0 /\ j + 0 \in Positions /\ Is(j + 0, "CONNECT")
      <4>1. queue'[i].type # "DNS" /\ queue'[j].type # "DNS"
        BY DEF Is
      <4>2. i + 0 < j + 0
        BY DEF Positions
      <4> QED
        BY <2>1, <2>2, <3>1, <3>2, <4>1, <4>2, EventKept DEF Is
    <3>4. Covered(j + 0)
      BY <1>1, <3>3 DEF OrderInv, ReadAfterConnect
    <3> QED
      BY <2>1, <3>3, <3>4, CoveredKept
  <2> QED
    BY <2>2, <2>3, <2>4, <2>5
       DEF OrderInv, NoEarlyRead, AnswerBehindReads, NameKnown, NoneMine
<1>7. CASE LookupLost
  BY <1>1, <1>3, <1>7, MovedBehind DEF LookupLost
<1>8. CASE ConnectLost \/ BrokerRefuses \/ ReplyLost \/ PeerCloses
  <2>1. \E n : Moved(0, n) /\ (n = 1 => Newest.type = "CLOSED")
    BY <1>1, <1>2, <1>8, MessageForms, MovedBehind
       DEF ConnectLost, BrokerRefuses, ReplyLost, PeerCloses, Linked
  <2>2. /\ sock'.dns = sock.dns /\ sock'.id = sock.id /\ open' = open
        /\ sock'.link = sock.link \/ sock'.link = "dead"
    BY <1>1, <1>8 DEF ConnectLost, BrokerRefuses, ReplyLost, PeerCloses, SocketState
  <2> QED
    BY <1>3, <2>1, <2>2
<1>9. ASSUME NEW t \in Requests, NEW k, Posted(t, k) PROVE OrderInv'
  <2>1. Msg(t) \in Message /\ Msg(t).type = t /\ t \notin {"CONNECT", "READ"}
    BY MessageForms DEF Msg, Requests
  <2>2. Moved(0, 1) /\ Newest = Msg(t)
    BY <1>1, <1>9, <2>1, MovedBehind DEF Posted
  <2> QED
    BY <1>3, <1>9, <2>1, <2>2 DEF Posted, stackVars
<1>10. CASE \E p \in Replies : PeerReplies(p)
  BY <1>6, <1>10 DEF PeerReplies
<1>11. CASE ReplyGarbled \/ BrokerCommands
  BY <1>6, <1>11 DEF ReplyGarbled, BrokerCommands, Linked
<1> QED
  BY <1>4, <1>5, <1>7, <1>8, <1>9, <1>10, <1>11 DEF World, Outside, Requests

LEMMA OrderStep ==
  SessInv /\ SessInv' /\ LookupInv /\ LookupInv' /\ OrderInv /\ [Next]_vars => OrderInv'
<1> SUFFICES ASSUME SessInv, SessInv', LookupInv, LookupInv', OrderInv, [Next]_vars
             PROVE  OrderInv'
  OBVIOUS
<1>1. queue \in Seq(Message) /\ queue' \in Seq(Message)
  BY DEF SessInv, TypeOK
<1>2. CASE UNCHANGED vars
  <2>1. Moved(0, 0) /\ sock' = sock /\ open' = open /\ state' = state
    BY <1>1, <1>2, MovedBehind DEF vars
  <2> QED
    BY <2>1, OrderSame DEF OrderInv, NameKnown
<1>3. CASE Reboot
  <2>1. StaleCovered'
    BY <1>3 DEF Reboot, Boot, StaleCovered, Positions, Msg
  <2> QED
    BY <1>1, <1>3, <2>1, OrderGone DEF Reboot, Boot
<1> QED
  BY <1>2, <1>3, OrderTask, OrderExpiry, OrderWorld DEF Next

LEMMA OrderInvariant == Spec => []OrderInv
<1>1. Init => OrderInv
  <2> SUFFICES ASSUME Init PROVE OrderInv
    OBVIOUS
  <2>1. \A i \in Positions : queue[i].type = "START"
    BY DEF Init, Positions, Msg
  <2> QED
    BY <2>1 DEF Init, OrderInv, StaleCovered, ReadAfterConnect, NoEarlyRead, AnswerBehindReads,
                NameKnown, Is
<1> QED
  BY <1>1, OrderStep, SessionInvariant, LookupInvariant, PTL DEF Spec

-------------------------------------------------------------------------------
(* The way on line.  A step that posts a way out has nothing to show. *)

LEMMA WayOutAt == WayOut <=> \E i \in Positions : queue[i].type \in Ways
BY DEF WayOut, Queued, Ways, Positions

LEMMA WayKept ==
  ASSUME WayOut, NEW d, NEW n, Moved(d, n), d = 1 => queue[1].type \notin Ways
  PROVE  WayOut'
<1>1. PICK i \in Positions : queue[i].type \in Ways
  BY WayOutAt
<1>2. i - d \in 1 .. Len(queue) - d /\ (i - d) + d = i /\ i - d \in Positions'
  BY <1>1 DEF Positions, Moved
<1>3. queue'[i - d].type = queue[i].type
  BY <1>2 DEF Moved
<1> QED
  BY <1>1, <1>2, <1>3 DEF WayOut, Queued, Ways, Positions

LEMMA WayPosted ==
  ASSUME NEW d, Moved(d, 1), Newest.type \in Ways
  PROVE  WayOut' /\ OnlineInv'
<1>1. Len(queue') \in 1 .. Len(queue')
  BY DEF Moved
<1> QED
  BY <1>1 DEF WayOut, Queued, Ways, Newest, OnlineInv, Settled

LEMMA SettledBefore ==
  ASSUME Settled', cpu # "crashed",
         NEW d, NEW n, Moved(d, n), d = 1 => queue[1].type \notin Ways
  PROVE  Settled
BY WayKept DEF Settled

(* An event of the current socket stays behind the message that is taken. *)
LEMMA IsKept ==
  ASSUME NEW d, NEW n, Moved(d, n), sock'.id = sock.id, NEW t \in {"CONNECT", "CLOSED"},
         n = 1 => Newest.type # t, NEW i \in Positions', Is(i, t)'
  PROVE  i + d \in Positions /\ Is(i + d, t)
<1>1. queue'[i].type # "DNS" /\ (n = 1 => i # Len(queue'))
  BY DEF Is, Newest
<1> QED
  BY <1>1, EventKept DEF Is

LEMMA AnsweredKept ==
  ASSUME Answered, NEW d, NEW n, Moved(d, n), sock'.id = sock.id, sock'.link = sock.link,
         d = 1 => ~Is(1, "CLOSED")
  PROVE  Answered'
<1>1. CASE sock.link = "acked"
  BY <1>1 DEF Answered
<1>2. CASE sock.link = "dead"
  <2>1. PICK i \in Positions : Is(i, "CLOSED")
    BY <1>2 DEF Answered
  <2>2. i - d \in 1 .. Len(queue) - d /\ (i - d) + d = i /\ i - d \in Positions'
    BY <2>1 DEF Positions, Moved
  <2>3. queue'[i - d] = queue[i]
    BY <2>1, <2>2 DEF Moved, Is
  <2>4. Is(i - d, "CLOSED")'
    BY <2>1, <2>3 DEF Is
  <2> QED
    BY <1>2, <2>2, <2>4 DEF Answered
<1> QED
  BY <1>1, <1>2 DEF Answered

(* No step of this kind brings the session further or takes it back. *)
LEMMA OnlineSame ==
  ASSUME OnlineInv, Settled, NEW d, NEW n, Moved(d, n), n = 1 => Newest.type # "CONNECT",
         sock'.id = sock.id, sock'.peer = sock.peer, sock'.dns = sock.dns,
         sock'.link = "connecting" => sock.link = "connecting",
         state' = state, connected' = connected, open' = open,
         "CONNACK" \in sock'.due \cup sock'.inbox => "CONNACK" \in sock.due \cup sock.inbox,
         "CONNACK" \in sock'.inbox => "CONNACK" \in sock.inbox \/ Answered',
         state \in {"MQTT_CONN", "RUNNING"} /\ Answered => Answered'
  PROVE  OnlineInv'
<1>1. \A i \in Positions' : Is(i, "CONNECT")' => i + d \in Positions /\ Is(i + d, "CONNECT")
  BY IsKept
<1>2. OneReport'
  <2>1. \A i, j \in Positions' : i + d = j + d => i = j
    BY DEF Positions, Moved
  <2>2. OneReport
    BY DEF OnlineInv
  <2>3. \A i, j \in Positions' : Is(i, "CONNECT")' /\ Is(j, "CONNECT")' => i + d = j + d
    BY <1>1, <2>2 DEF OneReport
  <2> QED
    BY <2>1, <2>3 DEF OneReport
<1>3. ReportFirst'
  BY <1>1 DEF ReportFirst, OnlineInv
<1>4. state' = "MQTT_CONN" => Joining'
  BY DEF Joining, OnlineInv
<1>5. state' = "RUNNING" => Joined'
  BY DEF Joined, OnlineInv
<1> QED
  BY <1>2, <1>3, <1>4, <1>5 DEF OnlineInv

(* What keeps the socket, takes no way out and posts nothing of the socket. *)
LEMMA OnlineStack ==
  ASSUME OnlineInv, cpu # "crashed", UNCHANGED <<stackVars, state, connected>>,
         NEW d, NEW n, Moved(d, n), n = 1 => Newest.type # "CONNECT",
         d = 1 => queue[1].type \notin Ways,
         d = 1 /\ state \in {"MQTT_CONN", "RUNNING"} => ~Is(1, "CLOSED")
  PROVE  OnlineInv'
<1> SUFFICES ASSUME Settled' PROVE OnlineInv'
  BY DEF OnlineInv
<1>1. Settled
  BY SettledBefore
<1>2. sock' = sock /\ open' = open
  BY DEF stackVars
<1>3. state \in {"MQTT_CONN", "RUNNING"} /\ Answered => Answered'
  BY <1>2, AnsweredKept
<1> QED
  BY <1>1, <1>2, <1>3, OnlineSame

LEMMA OnlineMqttClose ==
  ASSUME queue \in Seq(Message), NEW q, NEW d, Left(q, d), NEW ts, mqtt_close(q, ts)
  PROVE  OnlineInv'
<1>1. CASE cpu' = "crashed"
  BY <1>1 DEF OnlineInv, Settled
<1>2. CASE Moved(d, 1) /\ Newest.type = "CONN"
  BY <1>2, WayPosted DEF Ways
<1> QED
  BY <1>1, <1>2, mqtt_close_Queue

(* What the code sends on the socket of s, except a CONNECT (publish_message,
   MQTTkeepalive_start, the HTTP requests). *)
LEMMA OnlineSend ==
  ASSUME SessInv, OnlineInv, cpu # "crashed", NEW s \in SocketState,
         s.id = sock.id, s.link = sock.link, s.dns = sock.dns, s.due = sock.due,
         s.inbox \subseteq sock.inbox, s.peer = sock.peer,
         NEW r, "CONNACK" \notin r, Send(s, r) \/ sock' = s,
         open' = open, state' = state, connected' = connected,
         NEW q, NEW d, Left(q, d), queue' \in {q, Post(q, "CLOSE")},
         d = 1 => queue[1].type \notin Ways \cup {"CLOSED"}
  PROVE  OnlineInv'
<1> SUFFICES ASSUME Settled' PROVE OnlineInv'
  BY DEF OnlineInv
<1>1. queue \in Seq(Message)
  BY DEF SessInv, TypeOK
<1>2. PICK n : Moved(d, n) /\ (n = 1 => Newest.type = "CLOSE")
  BY <1>1, ClosePosted
<1>3. sock' = s \/ sock' = [s EXCEPT !.due = @ \cup r]
  BY DEF Send
<1>4. /\ sock'.id = sock.id /\ sock'.link = sock.link /\ sock'.dns = sock.dns
      /\ sock'.peer = sock.peer /\ sock'.inbox \subseteq sock.inbox
      /\ sock'.due \subseteq sock.due \cup r
  BY <1>3 DEF SocketState
<1>5. Settled
  BY <1>2, SettledBefore
<1>6. Answered => Answered'
  BY <1>2, <1>4, AnsweredKept DEF Is
<1> QED
  BY <1>2, <1>4, <1>5, <1>6, OnlineSame

(* No report is there for the id of a socket that has just been opened. *)
NoReport == \A i \in Positions : ~Is(i, "CONNECT")

LEMMA FreshQuiet ==
  ASSUME SessInv', Moved(1, 0), ~WayOut', NEW before,
         sock'.id \notin before,
         \A i \in Positions : i # 1 /\ queue[i].type = "CONNECT" /\ queue[i].id \notin before
                                => Covered(i)
  PROVE  NoReport'
<1> SUFFICES ASSUME NEW i \in Positions', Is(i, "CONNECT")' PROVE FALSE
  BY DEF NoReport
<1>1. queue'[i].type = "CONNECT" /\ queue'[i].id = sock'.id
  BY DEF Is
<1>2. /\ i \in 1 .. Len(queue) - 1 /\ i + 1 \in Positions /\ queue'[i] = queue[i + 1]
  BY <1>1, EventKept
<1>3. i + 1 # 1
  BY DEF Positions
<1>4. sock'.id \in Sockets
  <2>1. queue'[i] \in Message
    BY ElementOfSeq DEF SessInv, TypeOK, Positions
  <2> QED
    BY <1>1, <2>1 DEF Message, Requests
<1>5. Covered(i + 1)
  BY <1>1, <1>2, <1>3, <1>4, SocketsAssumption
<1>6. Covered(i)'
  BY <1>2, <1>5, CoveredKept
<1>7. WayOut'
  BY <1>6 DEF Covered, WayOut, Queued, Ways, Positions
<1> QED
  BY <1>7

LEMMA QuietStart ==
  ASSUME NoReport', state' # "RUNNING", state' = "MQTT_CONN" => Joining'
  PROVE  OnlineInv'
BY DEF NoReport, OnlineInv, OneReport, ReportFirst

LEMMA OnlineOpened ==
  ASSUME SessInv, SessInv', OrderInv, NEW peer \in Peers, NEW byName \in BOOLEAN, NEW rc,
         mtk_socket_open(peer, byName, open, rc), Moved(1, 0),
         state' # "RUNNING", state' = "MQTT_CONN" => peer = "BROKER"
  PROVE  OnlineInv'
<1> SUFFICES ASSUME ~WayOut' PROVE OnlineInv'
  BY DEF OnlineInv, Settled
<1> open \in SUBSET Sockets
  BY DEF SessInv, TypeOK
<1>1. Opened(peer, open)
  BY OpenShape, Zenon
<1>2. NoReport'
  BY <1>1, FreshQuiet DEF OrderInv, StaleCovered, Opened
<1> QED
  BY <1>1, <1>2, QuietStart DEF Joining, Opened

(* The registration server's socket makes way for the ticket server's. *)
LEMMA OnlineRegInfo ==
  ASSUME SessInv, SessInv', OrderInv, ReadRegInfo
  PROVE  OnlineInv'
<1> SUFFICES ASSUME ~WayOut' PROVE OnlineInv'
  BY DEF OnlineInv, Settled
<1>1. queue \in Seq(Message) /\ AfterClose \in SUBSET Sockets
  BY DEF SessInv, TypeOK, AfterClose
<1>2. /\ Moved(1, 0) /\ Len(queue) >= 1 /\ queue[1].type = "READ" /\ queue[1].id = sock.id
      /\ state = "REG_INFO"
  BY <1>1, MovedRest DEF ReadRegInfo, Event
<1>3. Opened("TICKET", AfterClose)
  BY <1>1, OpenShape DEF ReadRegInfo, Peers
<1>4. ASSUME NEW i \in Positions, i # 1, queue[i].type = "CONNECT", queue[i].id \notin AfterClose
      PROVE  Covered(i)
  <2>1. CASE queue[i].id \notin open
    BY <1>4, <2>1 DEF OrderInv, StaleCovered
  <2>2. CASE queue[i].id = sock.id
    <3>1. 1 \in Positions /\ 1 < i
      BY <1>2, <1>4 DEF Positions, Moved
    <3>2. Is(1, "READ") /\ Is(i, "CONNECT")
      BY <1>2, <1>4, <2>2 DEF Is
    <3> QED
      BY <1>2, <1>4, <3>1, <3>2 DEF OrderInv, ReadAfterConnect
  <2> QED
    BY <1>4, <2>1, <2>2 DEF AfterClose
<1>5. NoReport'
  BY <1>2, <1>3, <1>4, FreshQuiet DEF Opened
<1> QED
  BY <1>5, QuietStart DEF ReadRegInfo

(* An answered lookup belongs to a socket that has reported nothing yet (host_name_cb). *)
LEMMA OnlineNamed ==
  ASSUME SessInv, LookupInv, OnlineInv, NameFound \/ NameNotFound
  PROVE  OnlineInv'
<1> SUFFICES ASSUME Settled' PROVE OnlineInv'
  BY DEF OnlineInv
<1>1. queue \in Seq(Message) /\ sock \in SocketState
  BY DEF SessInv, TypeOK
<1>2. Take("DNS") /\ queue' = Rest
  BY DEF NameFound, NameNotFound, Mine
<1>3. Moved(1, 0) /\ Len(queue) >= 1 /\ queue[1].type = "DNS" /\ Head(queue) = queue[1]
  BY <1>1, <1>2, MovedRest
<1>4. 1 \in Positions
  BY <1>3 DEF Positions, Moved
<1>5. MineAt(1) \/ sock.dns = "START"
  BY <1>3 DEF NameFound, NameNotFound, Mine, MineAt
<1>6. sock.dns # "IGNORE"
  BY <1>4, <1>5 DEF LookupInv, LookupBlocks
<1>7. sock.link = "none" /\ sock.due = {} /\ sock.inbox = {}
  BY <1>6 DEF LookupInv, NoLink, QuietSocket
<1>8. Settled
  BY <1>2, <1>3, SettledBefore DEF Ways, Take
<1>9. NoReport /\ state # "RUNNING" /\ (state = "MQTT_CONN" => sock.peer = "BROKER")
  BY <1>6, <1>7, <1>8 DEF OnlineInv, NoReport, ReportFirst, Joined, Answered, Joining
<1>10. /\ sock'.id = sock.id /\ sock'.peer = sock.peer
       /\ sock'.due = {} /\ sock'.inbox = {}
  <2>1. CASE NameFound
    BY <1>7, <2>1, ConnectShape DEF NameFound
  <2>2. CASE NameNotFound
    BY <1>1, <1>7, <2>2 DEF NameNotFound, SocketState
  <2> QED
    BY <2>1, <2>2
<1>11. NoReport'
  BY <1>3, <1>9, <1>10, IsKept DEF NoReport
<1>12. state' # "RUNNING" /\ (state' = "MQTT_CONN" => state = "MQTT_CONN")
  BY <1>9 DEF NameFound, NameNotFound
<1> QED
  BY <1>9, <1>10, <1>11, <1>12, QuietStart DEF Joining

(* The report of the connection is the only one, and is answered with a CONNECT. *)
LEMMA OnlineReachable ==
  ASSUME SessInv, OnlineInv, Reachable
  PROVE  OnlineInv'
<1> SUFFICES ASSUME Settled' PROVE OnlineInv'
  BY DEF OnlineInv
<1>1. queue \in Seq(Message) /\ sock \in SocketState
  BY DEF SessInv, TypeOK
<1>2. /\ Moved(1, 0) /\ Len(queue) >= 1 /\ queue[1].type = "CONNECT" /\ queue[1].id = sock.id
      /\ state' = state /\ open' = open /\ cpu # "crashed"
  BY <1>1, MovedRest DEF Reachable, Event, Take
<1>3. 1 \in Positions /\ Is(1, "CONNECT")
  BY <1>2 DEF Positions, Moved, Is
<1>4. Settled
  BY <1>2, SettledBefore DEF Ways
<1>5. OneReport /\ ReportFirst /\ (state = "MQTT_CONN" => Joining)
      /\ (state = "RUNNING" => Joined)
  BY <1>4 DEF OnlineInv
<1>6. \A s \in SocketState : \A r : Asked(s, r) /\ Send(s, r) =>
        /\ sock'.due = sock.due \cup r
        /\ sock'.id = sock.id /\ sock'.peer = sock.peer
        /\ sock'.inbox = sock.inbox /\ sock'.link = sock.link
  BY <1>1 DEF Send, SocketState, Asked
<1>7. sock'.id = sock.id
  BY <1>6, ReachableAsks DEF Asked
<1>8. NoReport'
  <2> SUFFICES ASSUME NEW i \in Positions', Is(i, "CONNECT")' PROVE FALSE
    BY DEF NoReport
  <2>1. i + 1 \in Positions /\ Is(i + 1, "CONNECT")
    BY <1>2, <1>7, IsKept
  <2>2. i + 1 # 1
    BY DEF Positions
  <2> QED
    BY <1>3, <1>5, <2>1, <2>2 DEF OneReport
<1>9. CASE state = "MQTT_CONN"
  <2>1. "CONNACK" \notin sock.due \cup sock.inbox /\ sock.peer = "BROKER"
    BY <1>3, <1>5, <1>9 DEF ReportFirst, Joining
  <2>2. ASSUME SendConnect, connected' = TRUE PROVE Joining'
    <3>1. PICK s \in SocketState : Asked(s, {"CONNACK"}) /\ Send(s, {"CONNACK"})
      BY <2>2, SendConnectAsks
    <3> QED
      BY <1>6, <2>1, <2>2, <3>1 DEF Joining
  <2>3. ASSUME sock' = sock PROVE Joining'
    BY <2>1, <2>3 DEF Joining
  <2>4. Joining'
    BY <1>9, <2>2, <2>3 DEF Reachable, SendFails
  <2> QED
    BY <1>2, <1>8, <1>9, <2>4, QuietStart
<1>10. CASE state = "RUNNING"
  <2>1. sock' = sock /\ connected' = connected
    BY <1>10 DEF Reachable
  <2>2. Answered'
    BY <1>2, <1>5, <1>10, <2>1, AnsweredKept DEF Joined, Is
  <2> QED
    BY <1>2, <1>5, <1>8, <1>10, <2>1, <2>2
       DEF Joined, NoReport, OnlineInv, OneReport, ReportFirst
<1>11. CASE state \notin {"MQTT_CONN", "RUNNING"}
  BY <1>2, <1>8, <1>11, QuietStart
<1> QED
  BY <1>9, <1>10, <1>11

(* The broker has answered the client that has just sent its CONNECT. *)
LEMMA OnlineConnack ==
  ASSUME SessInv, OnlineInv, CycleConnack
  PROVE  OnlineInv'
<1> SUFFICES ASSUME Settled' PROVE OnlineInv'
  BY DEF OnlineInv
<1>1. queue \in Seq(Message)
  BY DEF SessInv, TypeOK
<1>2. PICK n : Moved(0, n) /\ (n = 1 => Newest.type = "ALIAS")
  BY <1>1, MovedBehind DEF CycleConnack, Requests
<1>3. /\ sock'.id = sock.id /\ sock'.link = sock.link /\ sock'.dns = sock.dns
      /\ sock'.peer = sock.peer /\ sock'.due = sock.due /\ sock'.inbox \subseteq sock.inbox
  BY UnreadShape DEF CycleConnack
<1>4. /\ open' = open /\ connected' = connected /\ cpu # "crashed"
      /\ "CONNACK" \in sock.inbox /\ sock.id \in open
  BY DEF CycleConnack, Cycle, Readable
<1>5. Settled
  BY <1>2, <1>4, SettledBefore
<1>6. Answered => Answered'
  BY <1>2, <1>3, AnsweredKept
<1>7. CASE state' = state
  BY <1>2, <1>3, <1>4, <1>5, <1>6, <1>7, OnlineSame
<1>8. CASE state = "MQTT_CONN" /\ state' = "RUNNING"
  <2>1. Joining /\ OneReport /\ ReportFirst
    BY <1>5, <1>8 DEF OnlineInv
  <2>2. NoReport
    BY <1>4, <2>1 DEF NoReport, ReportFirst
  <2>3. NoReport'
    BY <1>2, <1>3, <2>2, IsKept DEF NoReport
  <2>4. Joined'
    BY <1>3, <1>4, <1>6, <2>1 DEF Joining, Joined
  <2> QED
    BY <1>8, <2>3, <2>4 DEF NoReport, OnlineInv, OneReport, ReportFirst
<1> QED
  BY <1>7, <1>8 DEF CycleConnack

LEMMA OnlineTask ==
  SessInv /\ SessInv' /\ LookupInv /\ OrderInv /\ OnlineInv /\ Task => OnlineInv'
<1> SUFFICES ASSUME SessInv, SessInv', LookupInv, OrderInv, OnlineInv, Task PROVE OnlineInv'
  OBVIOUS
<1>1. /\ queue \in Seq(Message) /\ sock \in SocketState
      /\ BrokerByName \in BOOLEAN /\ {"REG", "BROKER"} \subseteq Peers
  BY FlagsAssumption DEF SessInv, TypeOK, Peers
<1>2. CASE Start
  <2>1. Moved(1, 0) /\ state' \notin {"RUNNING", "MQTT_CONN"}
    BY <1>1, <1>2, MovedRest DEF Start
  <2>2. PICK rc : mtk_socket_open("REG", TRUE, open, rc)
    BY <1>2 DEF Start
  <2> QED
    BY <1>1, <2>1, <2>2, OnlineOpened
<1>3. CASE NotMine \/ Dropped \/ NotCurrent \/ NotReachable \/ ReadPackets
  <2>1. PICK t \in {"DNS", "PUBLISH", "READ", "CONNECT", "CLOSED"} :
          /\ Take(t) /\ queue' = Rest
          /\ t = "CLOSED" => Head(queue).id # sock.id
    BY <1>3 DEF NotMine, Dropped, NotCurrent, NotReachable, ReadPackets, Event
  <2>2. /\ Moved(1, 0) /\ queue[1].type = t /\ cpu # "crashed"
        /\ queue[1].type \notin Ways /\ ~Is(1, "CLOSED")
    BY <1>1, <2>1, MovedRest DEF Ways, Is, Take
  <2>3. UNCHANGED <<stackVars, state, connected>>
    BY <1>3 DEF NotMine, Dropped, NotCurrent, NotReachable, ReadPackets, sessionVars
  <2> QED
    BY <2>2, <2>3, OnlineStack
<1>4. CASE NameFound \/ NameNotFound
  BY <1>4, OnlineNamed
<1>5. CASE Conn
  <2>1. CASE broker
    <3>1. Moved(1, 0) /\ state' = "MQTT_CONN"
      BY <1>1, <1>5, <2>1, MovedRest DEF Conn
    <3>2. PICK rc : mtk_socket_open("BROKER", BrokerByName, open, rc)
      BY <1>5, <2>1 DEF Conn
    <3> QED
      BY <1>1, <3>1, <3>2, OnlineOpened
  <2>2. CASE ~broker
    <3>1. Moved(1, 1) /\ Newest.type = "START"
      BY <1>1, <1>5, <2>2, MovedPost DEF Conn, Requests
    <3> QED
      BY <3>1, WayPosted DEF Ways
  <2> QED
    BY <2>1, <2>2
<1>6. CASE Close
  BY <1>1, <1>6, OnlineMqttClose DEF Close, Left
<1>7. CASE Publish
  <2>1. PICK t \in {"ALIAS", "REPORT"} : Take(t)
    BY <1>7 DEF Publish
  <2>2. Left(Rest, 1) /\ queue[1].type \notin Ways \cup {"CLOSED"} /\ cpu # "crashed"
    BY <1>1, <2>1, MovedRest DEF Left, Ways, Take
  <2>3. /\ Send(sock, {"PUBACK"}) \/ sock' = sock
        /\ queue' \in {Rest, Post(Rest, "CLOSE")}
        /\ open' = open /\ state' = state /\ connected' = connected
    BY <1>7 DEF Publish, publish_message, SendFails
  <2> QED
    BY <1>1, <2>2, <2>3, OnlineSend
<1>8. CASE Keepalive
  <2>1. Left(Rest, 1) /\ queue[1].type \notin Ways \cup {"CLOSED"} /\ cpu # "crashed"
    BY <1>1, <1>8, MovedRest DEF Keepalive, Left, Ways, Take
  <2>2. PICK r \in {{"PINGRESP"}, {}} : Send(sock, r) \/ sock' = sock
    BY <1>8 DEF Keepalive, MQTTkeepalive_start, SendFails
  <2>3. /\ queue' \in {Rest, Post(Rest, "CLOSE")}
        /\ open' = open /\ state' = state /\ connected' = connected
    BY <1>8 DEF Keepalive, MQTTkeepalive_start
  <2> QED
    BY <1>1, <2>1, <2>2, <2>3, OnlineSend
<1>9. CASE ReadRegInfo
  BY <1>9, OnlineRegInfo
<1>10. CASE ReadTicket
  <2>1. Moved(1, 1) /\ Newest.type = "CONN"
    BY <1>1, <1>10, MovedPost DEF ReadTicket, Event, Requests
  <2> QED
    BY <2>1, WayPosted DEF Ways
<1>11. CASE Reachable
  BY <1>11, OnlineReachable
<1>12. CASE PeerGone
  <2>1. CASE mqtt_close(Rest, timers)
    BY <1>1, <1>12, <2>1, OnlineMqttClose DEF PeerGone, Event, Left
  <2>2. CASE state \notin {"MQTT_CONN", "RUNNING"}
    <3>1. /\ Moved(1, 0) /\ UNCHANGED <<stackVars, state, connected>>
          /\ queue[1].type \notin Ways /\ cpu # "crashed"
      BY <1>1, <1>12, <2>2, MovedRest DEF PeerGone, Event, sessionVars, Ways, Take
    <3> QED
      BY <2>2, <3>1, OnlineStack
  <2> QED
    BY <1>12, <2>1, <2>2 DEF PeerGone
<1>13. CASE CycleConnack
  BY <1>13, OnlineConnack
<1>14. CASE CyclePuback
  <2>1. PICK r \in {{"PINGRESP"}, {}} : Send(Unread("PUBACK"), r) \/ sock' = Unread("PUBACK")
    BY <1>14 DEF CyclePuback, MQTTkeepalive_start, SendFails
  <2>2. /\ queue' \in {queue, Post(queue, "CLOSE")} /\ cpu # "crashed"
        /\ open' = open /\ state' = state /\ connected' = connected
    BY <1>14 DEF CyclePuback, MQTTkeepalive_start, Cycle
  <2> QED
    BY <2>1, <2>2, UnreadShape, OnlineSend DEF Left
<1>15. CASE CycleCommand
  <2>1. PICK r \in {{"PUBACK"}, {}} : Send(Unread("CMD"), r) \/ sock' = Unread("CMD")
    BY <1>15 DEF CycleCommand, publish_message, SendFails
  <2>2. /\ queue' \in {queue, Post(queue, "CLOSE")} /\ cpu # "crashed"
        /\ open' = open /\ state' = state /\ connected' = connected
    BY <1>15 DEF CycleCommand, publish_message, Cycle
  <2> QED
    BY <2>1, <2>2, UnreadShape, OnlineSend DEF Left
<1>16. CASE CycleOther
  <2>1. PICK p : sock' = Unread(p)
    BY <1>16 DEF CycleOther
  <2>2. /\ queue' = queue /\ cpu # "crashed"
        /\ open' = open /\ state' = state /\ connected' = connected
    BY <1>16 DEF CycleOther, Cycle, sessionVars
  <2> QED
    BY <2>1, <2>2, UnreadShape, OnlineSend DEF Left
<1>17. CASE CycleEnds \/ CycleSpins
  <2>1. Moved(0, 0) /\ UNCHANGED <<stackVars, state, connected>> /\ cpu # "crashed"
    BY <1>1, <1>17, MovedBehind DEF CycleEnds, CycleSpins
  <2> QED
    BY <2>1, OnlineStack
<1> QED
  BY <1>2, <1>3, <1>4, <1>5, <1>6, <1>7, <1>8, <1>9, <1>10, <1>11, <1>12, <1>13, <1>14,
     <1>15, <1>16, <1>17 DEF Task

LEMMA OnlineExpiry == SessInv /\ OnlineInv /\ Expiry => OnlineInv'
<1> SUFFICES ASSUME SessInv, OnlineInv, Expiry PROVE OnlineInv'
  OBVIOUS
<1>1. /\ queue \in Seq(Message) /\ cpu # "crashed"
      /\ {"START", "KEEPALIVE", "PUBLISH"} \subseteq Requests
  BY DEF SessInv, TypeOK, Requests, Expiry, DemoExpires, RetryExpires, KeepaliveExpires,
         PubExpires, Reminds, Expires
<1>2. CASE DemoExpires
  <2>1. CASE UNCHANGED stackVars /\ queue' = queue
    <3>1. UNCHANGED <<stackVars, state, connected>>
      BY <1>2, <2>1 DEF DemoExpires
    <3> QED
      BY <1>1, <2>1, <3>1, MovedBehind, OnlineStack
  <2>2. CASE queue' \in {Post(Outdate(queue), "START"), Post(queue, "START")}
    <3>1. Moved(0, 1) /\ Newest.type = "START"
      BY <1>1, <2>2, MovedOlder, MovedBehind
    <3> QED
      BY <3>1, WayPosted DEF Ways
  <2> QED
    BY <1>2, <2>1, <2>2 DEF DemoExpires
<1>3. CASE RetryExpires
  <2>1. CASE mqtt_close(queue, timers \ {"RETRY"})
    BY <1>1, <2>1, OnlineMqttClose DEF Left
  <2>2. CASE UNCHANGED <<stackVars, queue, state, connected>>
    BY <1>1, <2>2, MovedBehind, OnlineStack
  <2> QED
    BY <1>3, <2>1, <2>2 DEF RetryExpires
<1>4. CASE KeepaliveExpires \/ PubExpires
  <2>1. PICK u \in {"KEEPALIVE", "PUBLISH"} : queue' = Post(queue, u)
    BY <1>4 DEF KeepaliveExpires, PubExpires, Reminds
  <2>2. Moved(0, 1) /\ Newest.type # "CONNECT"
    BY <1>1, <2>1, MovedBehind
  <2>3. UNCHANGED <<stackVars, state, connected>>
    BY <1>4 DEF KeepaliveExpires, PubExpires, Reminds
  <2> QED
    BY <1>1, <2>2, <2>3, OnlineStack
<1> QED
  BY <1>2, <1>3, <1>4 DEF Expiry

(* A packet of the peer; only the answer to the CONNECT makes the connection answered. *)
LEMMA OnlineArrives ==
  ASSUME SessInv, LookupInv, OnlineInv, cpu # "crashed", UNCHANGED sessionVars,
         Linked, NEW p, NEW settled, NEW link, Arrives(p, settled, link),
         \/ p = "CONNACK" /\ "CONNACK" \in sock.due /\ link = "acked"
         \/ p # "CONNACK" /\ link = sock.link
  PROVE  OnlineInv'
<1> SUFFICES ASSUME Settled' PROVE OnlineInv'
  BY DEF OnlineInv
<1>1. queue \in Seq(Message) /\ sock \in SocketState
  BY DEF SessInv, TypeOK
<1>2. sock.id \in Sockets
  BY DEF SessInv, TypeOK, LinkOpen, Linked
<1>3. PICK n : Moved(0, n) /\ (n = 1 => Newest.type = "READ")
  BY <1>1, <1>2, MessageForms, MovedBehind DEF Arrives
<1>4. /\ sock'.dns = sock.dns /\ sock'.id = sock.id /\ sock'.peer = sock.peer
      /\ sock'.link = link /\ sock'.due \subseteq sock.due /\ sock'.inbox = sock.inbox \cup {p}
  BY <1>1 DEF Arrives, SocketState
<1>5. open' = open /\ state' = state /\ connected' = connected
  BY DEF Arrives, sessionVars
<1>6. Settled
  BY <1>3, SettledBefore
<1>7. Answered => Answered'
  BY <1>4 DEF Answered, Linked
<1>8. p = "CONNACK" => Answered'
  BY <1>4 DEF Answered
<1> QED
  BY <1>3, <1>4, <1>5, <1>6, <1>7, <1>8, OnlineSame DEF Linked

LEMMA OnlineWorld == SessInv /\ LookupInv /\ OnlineInv /\ World => OnlineInv'
<1> SUFFICES ASSUME SessInv, LookupInv, OnlineInv, World PROVE OnlineInv'
  OBVIOUS
<1>1. /\ queue \in Seq(Message) /\ sock \in SocketState /\ cpu # "crashed"
      /\ state' = state /\ connected' = connected /\ UNCHANGED sessionVars
  BY DEF SessInv, TypeOK, World, sessionVars
<1>2. sock.link \in {"connecting", "up", "acked"} => sock.id \in Sockets /\ sock.dns = "IGNORE"
  BY DEF SessInv, TypeOK, LinkOpen, LookupInv, NoLink
<1>3. ASSUME NEW mine \in BOOLEAN, NEW ok \in BOOLEAN, LookupAnswered(mine, ok)
      PROVE  OnlineInv'
  <2> SUFFICES ASSUME Settled' PROVE OnlineInv'
    BY DEF OnlineInv
  <2>1. Moved(0, 1) /\ Newest.type = "DNS"
    BY <1>1, <1>3, MessageForms, MovedBehind DEF LookupAnswered
  <2>2. sock' = sock /\ open' = open
    BY <1>3 DEF LookupAnswered
  <2>3. Settled /\ (Answered => Answered')
    BY <1>1, <2>1, <2>2, SettledBefore, AnsweredKept
  <2> QED
    BY <1>1, <2>1, <2>2, <2>3, OnlineSame
<1>4. ASSUME NEW ok \in BOOLEAN, Connected(ok) PROVE OnlineInv'
  <2> SUFFICES ASSUME Settled' PROVE OnlineInv'
    BY DEF OnlineInv
  <2>1. Moved(0, 1) /\ Newest.type = "CONNECT"
    BY <1>1, <1>2, <1>4, MessageForms, MovedBehind DEF Connected
  <2>2. /\ sock'.dns = sock.dns /\ sock'.due = sock.due /\ sock'.inbox = sock.inbox
        /\ sock'.id = sock.id /\ sock'.peer = sock.peer /\ sock'.link # "connecting"
        /\ sock.link = "connecting"
    BY <1>1, <1>4 DEF Connected, SocketState
  <2>3. sock.due = {} /\ sock.inbox = {} /\ sock.dns = "IGNORE"
    BY <1>2, <2>2 DEF LookupInv, QuietSocket
  <2>4. Settled
    BY <1>1, <2>1, SettledBefore
  <2>5. NoReport /\ state # "RUNNING" /\ (state = "MQTT_CONN" => Joining)
    BY <2>2, <2>4 DEF NoReport, OnlineInv, ReportFirst, Joined, Answered
  <2>6. \A i \in Positions' : Is(i, "CONNECT")' => i = Len(queue')
    <3> SUFFICES ASSUME NEW i \in Positions', Is(i, "CONNECT")', i # Len(queue') PROVE FALSE
      OBVIOUS
    <3>1. queue'[i].type = "CONNECT" /\ queue'[i].id = sock.id
      BY <2>2 DEF Is
    <3>2. i + 0 \in Positions /\ queue'[i] = queue[i + 0]
      BY <2>1, <3>1, EventKept
    <3> QED
      BY <2>5, <3>1, <3>2 DEF NoReport, Is
  <2>7. OneReport' /\ ReportFirst'
    BY <2>2, <2>3, <2>6 DEF OneReport, ReportFirst
  <2>8. state' = "MQTT_CONN" => Joining'
    BY <1>1, <2>2, <2>3, <2>5 DEF Joining
  <2> QED
    BY <1>1, <2>5, <2>7, <2>8 DEF OnlineInv
<1>5. CASE \E p \in Replies : PeerReplies(p)
  BY <1>1, <1>5, OnlineArrives DEF PeerReplies
<1>6. CASE ReplyGarbled
  BY <1>1, <1>6, OnlineArrives DEF ReplyGarbled
<1>7. CASE BrokerCommands
  BY <1>1, <1>7, OnlineArrives DEF BrokerCommands, Linked
<1>8. CASE LookupLost \/ ConnectLost \/ BrokerRefuses \/ ReplyLost
  <2> SUFFICES ASSUME Settled' PROVE OnlineInv'
    BY DEF OnlineInv
  <2>1. Moved(0, 0)
    BY <1>1, <1>8, MovedBehind DEF LookupLost, ConnectLost, BrokerRefuses, ReplyLost
  <2>2. /\ sock'.dns = sock.dns /\ sock'.id = sock.id /\ sock'.peer = sock.peer
        /\ sock'.due \subseteq sock.due /\ sock'.inbox = sock.inbox /\ open' = open
        /\ sock'.link = sock.link \/ (sock.link = "connecting" /\ sock'.link = "dead")
    BY <1>1, <1>8 DEF LookupLost, ConnectLost, BrokerRefuses, ReplyLost, SocketState
  <2>3. Settled
    BY <1>1, <2>1, SettledBefore
  <2>4. Answered => Answered'
    BY <2>1, <2>2, AnsweredKept DEF Answered
  <2> QED
    BY <1>1, <2>1, <2>2, <2>3, <2>4, OnlineSame
<1>9. CASE PeerCloses
  <2> SUFFICES ASSUME Settled' PROVE OnlineInv'
    BY DEF OnlineInv
  <2>1. /\ Moved(0, 1) /\ Newest.type = "CLOSED" /\ Newest.id = sock.id
    BY <1>1, <1>2, <1>9, MessageForms, MovedBehind DEF PeerCloses, Linked
  <2>2. /\ sock'.dns = sock.dns /\ sock'.id = sock.id /\ sock'.peer = sock.peer
        /\ sock'.due = {} /\ sock'.inbox = sock.inbox /\ open' = open /\ sock'.link = "dead"
    BY <1>1, <1>9 DEF PeerCloses, SocketState
  <2>3. Settled
    BY <1>1, <2>1, SettledBefore
  <2>4. Answered'
    <3>1. Len(queue') \in 1 .. Len(queue')
      BY <2>1 DEF Moved
    <3>2. \E i \in 1 .. Len(queue') : queue'[i].type = "CLOSED" /\ queue'[i].id = sock'.id
      BY <2>1, <2>2, <3>1 DEF Newest
    <3> QED
      BY <2>2, <3>2 DEF Answered, Is, Positions
  <2> QED
    BY <1>1, <2>1, <2>2, <2>3, <2>4, OnlineSame
<1>10. ASSUME NEW t \in Requests, NEW k, Posted(t, k) PROVE OnlineInv'
  <2>1. Msg(t) \in Message /\ Msg(t).type = t /\ t # "CONNECT"
    BY MessageForms DEF Msg, Requests
  <2>2. Moved(0, 1) /\ Newest = Msg(t)
    BY <1>1, <1>10, <2>1, MovedBehind DEF Posted
  <2> QED
    BY <1>1, <1>10, <2>1, <2>2, OnlineStack DEF Posted
<1> QED
  BY <1>3, <1>4, <1>5, <1>6, <1>7, <1>8, <1>9, <1>10 DEF World, Outside, Requests

LEMMA OnlineStep ==
  SessInv /\ SessInv' /\ LookupInv /\ OrderInv /\ OnlineInv /\ [Next]_vars => OnlineInv'
<1> SUFFICES ASSUME SessInv, SessInv', LookupInv, OrderInv, OnlineInv, [Next]_vars
             PROVE  OnlineInv'
  OBVIOUS
<1>1. CASE UNCHANGED vars
  <2>1. /\ sock' = sock /\ open' = open /\ state' = state /\ connected' = connected
        /\ cpu' = cpu /\ Moved(0, 0)
    BY <1>1, MovedBehind DEF vars, SessInv, TypeOK
  <2>2. CASE cpu = "crashed"
    BY <2>1, <2>2 DEF OnlineInv, Settled
  <2>3. CASE cpu # "crashed"
    BY <1>1, <2>1, <2>3, OnlineStack DEF stackVars, vars
  <2> QED
    BY <2>2, <2>3
<1>2. CASE Reboot
  <2>1. queue' = <<Msg("START")>>
    BY <1>2 DEF Reboot, Boot
  <2>2. Len(queue') = 1 /\ queue'[1].type = "START"
    BY <2>1 DEF Msg
  <2>3. WayOut'
    BY <2>2 DEF WayOut, Queued
  <2> QED
    BY <2>3 DEF OnlineInv, Settled
<1> QED
  BY <1>1, <1>2, OnlineTask, OnlineExpiry, OnlineWorld DEF Next

(* On line the client is connected over an open socket to the broker, on which the broker has
   answered its CONNECT, unless the news that it is gone is in the mailbox: no event of an older
   socket with the same id is taken for one of this socket (event_cb, MQTTConnect, MTK_cycle,
   mqtt_close of MQTTMTK.c). *)
THEOREM OnlineHasAnswer == Spec => []RunningHasAnswer
<1>1. Init => OnlineInv
  <2> SUFFICES ASSUME Init PROVE OnlineInv
    OBVIOUS
  <2>1. Len(queue) = 1 /\ queue[1].type = "START"
    BY DEF Init, Msg
  <2>2. WayOut
    BY <2>1 DEF WayOut, Queued
  <2> QED
    BY <2>2 DEF OnlineInv, Settled
<1>2. OnlineInv => RunningHasAnswer
  <2> SUFFICES ASSUME OnlineInv, Alive, state = "RUNNING", ~WayOut
               PROVE  /\ connected /\ sock.id \in open /\ sock.peer = "BROKER"
                      /\ \/ sock.link = "acked"
                         \/ \E i \in 1 .. Len(queue) : queue[i].type = "CLOSED"
                                                       /\ queue[i].id = sock.id
    BY DEF RunningHasAnswer
  <2>1. Settled
    BY DEF Alive, Settled
  <2> QED
    BY <2>1 DEF OnlineInv, Joined, Answered, Is, Positions
<1> QED
  BY <1>1, <1>2, OnlineStep, SessionInvariant, LookupInvariant, OrderInvariant, PTL DEF Spec

-------------------------------------------------------------------------------
(* The keepalive on line. *)

(* A message that leads to a keepalive, or to the end of the connection. *)
Pings(i) == queue[i].type \in {"ALIAS", "KEEPALIVE"} \/ Is(i, "CLOSED")
AckComes == "PUBACK" \in sock.due \cup sock.inbox
PingDue == WayOut \/ (\E i \in Positions : Pings(i)) \/ "KEEPALIVE" \in timers \/ AckComes
CoveredInv == answered /\ Alive /\ state = "RUNNING" => PingDue

(* Nothing that was left unanswered is answered later on. *)
LEMMA AnsweredOnce == Task \/ Expiry \/ Reboot \/ World => (answered' => answered)
<1>1. ASSUME Calm \/ \E k : Upset(k) PROVE answered' => answered
  BY <1>1 DEF Calm, Upset
<1>2. ASSUME NEW s, NEW r, Send(s, r) \/ SendFails(s) PROVE Calm \/ \E k : Upset(k)
  BY <1>2 DEF Send, SendFails
<1>3. ASSUME NEW s, NEW rc, mtk_socket_connect(s, rc) PROVE Calm \/ \E k : Upset(k)
  BY <1>3 DEF mtk_socket_connect
<1>4. ASSUME NEW peer, NEW byName, NEW before, NEW rc, mtk_socket_open(peer, byName, before, rc)
      PROVE  Calm \/ \E k : Upset(k)
  BY <1>3, <1>4, Zenon DEF mtk_socket_open
<1>5. ASSUME NEW s, NEW q, publish_message(s, q) PROVE Calm \/ \E k : Upset(k)
  BY <1>2, <1>5 DEF publish_message
<1>6. ASSUME NEW s, NEW q, MQTTkeepalive_start(s, q) PROVE Calm \/ \E k : Upset(k)
  BY <1>2, <1>6, Zenon DEF MQTTkeepalive_start
<1>7. ASSUME NEW q, NEW ts, mqtt_close(q, ts) PROVE Calm
  BY <1>7 DEF mqtt_close
<1>8. CASE Start \/ NotMine \/ NameFound \/ NameNotFound \/ Conn \/ Close
  BY <1>1, <1>3, <1>4, <1>7, <1>8, Zenon
     DEF Start, NotMine, NameFound, NameNotFound, Conn, Close
<1>9. CASE Publish \/ Dropped \/ Keepalive
  BY <1>1, <1>5, <1>6, <1>9, Zenon DEF Publish, Dropped, Keepalive
<1>10. CASE NotCurrent \/ ReadRegInfo \/ ReadTicket \/ ReadPackets \/ NotReachable \/ PeerGone
  BY <1>1, <1>4, <1>7, <1>10, Zenon
     DEF NotCurrent, ReadRegInfo, ReadTicket, ReadPackets, NotReachable, PeerGone
<1>11. CASE Reachable
  <2>1. \/ Send(sock, {"HTTP"}) \/ SendFails(sock) \/ Calm
        \/ Send([sock EXCEPT !.refused = ~registered], {"CONNACK"})
    BY <1>11 DEF Reachable, SendConnect
  <2> QED
    BY <1>1, <1>2, <2>1
<1>12. CASE CycleConnack \/ CyclePuback \/ CycleCommand \/ CycleOther \/ CycleEnds \/ CycleSpins
  BY <1>1, <1>2, <1>5, <1>6, <1>12, Zenon
     DEF CycleConnack, CyclePuback, CycleCommand, CycleOther, CycleEnds, CycleSpins
<1>13. CASE Expiry \/ Reboot
  BY <1>1, <1>7, <1>13, Zenon
     DEF Expiry, DemoExpires, RetryExpires, KeepaliveExpires, PubExpires, Reminds, Reboot
<1>14. CASE World
  BY <1>1, <1>14, Zenon
     DEF World, Outside, LookupAnswered, LookupLost, Connected, ConnectLost, PeerReplies,
         BrokerRefuses, ReplyGarbled, ReplyLost, BrokerCommands, PeerCloses, Posted
<1> QED
  BY <1>8, <1>9, <1>10, <1>11, <1>12, <1>13, <1>14 DEF Task

LEMMA PingPosted ==
  ASSUME NEW d, Moved(d, 1), Newest.type \in Ways \cup {"ALIAS", "KEEPALIVE"}
  PROVE  CoveredInv'
<1>1. Len(queue') \in 1 .. Len(queue')
  BY DEF Moved
<1>2. CASE Newest.type \in Ways
  BY <1>2, WayPosted DEF CoveredInv, PingDue
<1>3. CASE Newest.type \in {"ALIAS", "KEEPALIVE"}
  BY <1>1, <1>3 DEF Newest, Pings, CoveredInv, PingDue, Positions
<1> QED
  BY <1>2, <1>3

(* What takes none of the messages, stops no keepalive and loses no acknowledgement. *)
LEMMA PingKept ==
  ASSUME CoveredInv, answered' => answered, Alive' => Alive, state' = "RUNNING" => state = "RUNNING",
         sock'.id = sock.id, NEW d, NEW n, Moved(d, n),
         d = 1 => queue[1].type \notin Ways /\ ~Pings(1),
         "KEEPALIVE" \in timers => "KEEPALIVE" \in timers',
         AckComes => AckComes' \/ (n = 1 /\ Newest.type = "CLOSED" /\ Newest.id = sock.id)
  PROVE  CoveredInv'
<1> SUFFICES ASSUME answered', Alive', state' = "RUNNING" PROVE PingDue'
  BY DEF CoveredInv
<1>1. PingDue
  BY DEF CoveredInv
<1>2. CASE WayOut
  BY <1>2, WayKept DEF PingDue
<1>3. ASSUME NEW i \in Positions, Pings(i) PROVE PingDue'
  <2>1. i - d \in 1 .. Len(queue) - d /\ (i - d) + d = i /\ i - d \in Positions'
    BY <1>3 DEF Positions, Moved
  <2>2. queue[i].type # "DNS"
    BY <1>3 DEF Pings, Is
  <2>3. queue'[i - d] = queue[i]
    BY <2>1, <2>2 DEF Moved
  <2>4. Pings(i - d)'
    BY <1>3, <2>3 DEF Pings, Is
  <2> QED
    BY <2>1, <2>4 DEF PingDue
<1>4. CASE AckComes
  <2>1. CASE n = 1 /\ Newest.type = "CLOSED" /\ Newest.id = sock.id
    <3>1. Len(queue') \in 1 .. Len(queue')
      BY <2>1 DEF Moved
    <3> QED
      BY <2>1, <3>1 DEF Newest, Pings, Is, PingDue, Positions
  <2> QED
    BY <1>4, <2>1 DEF PingDue
<1> QED
  BY <1>1, <1>2, <1>3, <1>4 DEF PingDue

(* The procedures of the session: a packet that cannot be sent has the connection closed. *)
LEMMA PingMqttClose ==
  ASSUME queue \in Seq(Message), NEW q, NEW d, Left(q, d), NEW ts, mqtt_close(q, ts)
  PROVE  CoveredInv'
<1>1. CASE cpu' = "crashed"
  BY <1>1 DEF CoveredInv, Alive
<1>2. CASE Moved(d, 1) /\ Newest.type = "CONN"
  BY <1>2, PingPosted DEF Ways
<1> QED
  BY <1>1, <1>2, mqtt_close_Queue

LEMMA PingStack ==
  ASSUME SessInv, CoveredInv, answered' => answered, Alive' => Alive, UNCHANGED <<stackVars, state>>,
         NEW d, NEW n, Moved(d, n), d = 1 => queue[1].type \notin Ways /\ ~Pings(1),
         "KEEPALIVE" \in timers => "KEEPALIVE" \in timers'
  PROVE  CoveredInv'
BY PingKept DEF stackVars, AckComes

LEMMA PingSend ==
  ASSUME SessInv, CoveredInv, answered' => answered, Alive' => Alive, state' = state,
         NEW s \in SocketState, s.id = sock.id, s.due = sock.due,
         "PUBACK" \in sock.inbox => "PUBACK" \in s.inbox,
         NEW r, Send(s, r) \/ sock' = s,
         NEW q, NEW d, Left(q, d), queue' \in {q, Post(q, "CLOSE")},
         d = 1 => queue[1].type \notin Ways /\ ~Pings(1),
         timers \subseteq timers'
  PROVE  CoveredInv'
<1>1. queue \in Seq(Message)
  BY DEF SessInv, TypeOK
<1>2. PICK n : Moved(d, n) /\ (n = 1 => Newest.type = "CLOSE")
  BY <1>1, ClosePosted
<1>3. sock' = s \/ sock' = [s EXCEPT !.due = @ \cup r]
  BY DEF Send
<1>4. /\ sock'.id = sock.id /\ sock'.inbox = s.inbox /\ sock.due \subseteq sock'.due
  BY <1>3 DEF SocketState
<1>5. AckComes => AckComes'
  BY <1>4 DEF AckComes
<1> QED
  BY <1>2, <1>4, <1>5, PingKept

LEMMA PingTask == SessInv /\ SessInv' /\ CoveredInv /\ Task => CoveredInv'
<1> SUFFICES ASSUME SessInv, SessInv', CoveredInv, Task PROVE CoveredInv'
  OBVIOUS
<1>1. queue \in Seq(Message) /\ sock \in SocketState /\ (answered' => answered)
  BY AnsweredOnce DEF SessInv, TypeOK
<1>2. CASE Start \/ ReadRegInfo
  BY <1>2 DEF Start, ReadRegInfo, CoveredInv
<1>3. CASE NotMine \/ Dropped \/ NotCurrent \/ NotReachable \/ ReadPackets
  <2>1. PICK t \in {"DNS", "PUBLISH", "READ", "CONNECT", "CLOSED"} :
          /\ Take(t) /\ queue' = Rest
          /\ t = "CLOSED" => Head(queue).id # sock.id
    BY <1>3 DEF NotMine, Dropped, NotCurrent, NotReachable, ReadPackets, Event
  <2>2. Moved(1, 0) /\ queue[1].type \notin Ways /\ ~Pings(1) /\ Alive
    BY <1>1, <2>1, MovedRest DEF Ways, Pings, Is, Take, Alive
  <2>3. UNCHANGED <<stackVars, state, timers>>
    BY <1>3 DEF NotMine, Dropped, NotCurrent, NotReachable, ReadPackets, sessionVars
  <2> QED
    BY <1>1, <2>2, <2>3, PingStack
<1>4. CASE NameFound
  <2>1. Moved(1, 0) /\ queue[1].type = "DNS" /\ Alive
    BY <1>1, <1>4, MovedRest DEF NameFound, Mine, Take, Alive
  <2>2. /\ sock'.id = sock.id /\ sock'.due = sock.due /\ sock'.inbox = sock.inbox
    BY <1>4, ConnectShape DEF NameFound
  <2>3. timers' = timers /\ (state' = "RUNNING" => state = "RUNNING")
    BY <1>4 DEF NameFound
  <2>4. queue[1].type \notin Ways /\ ~Pings(1) /\ (AckComes => AckComes')
    BY <2>1, <2>2 DEF Ways, Pings, Is, AckComes
  <2> QED
    BY <1>1, <2>1, <2>2, <2>3, <2>4, PingKept
<1>5. CASE NameNotFound
  <2>1. Moved(1, 0) /\ queue[1].type = "DNS" /\ Alive
    BY <1>1, <1>5, MovedRest DEF NameNotFound, Mine, Take, Alive
  <2>2. /\ sock'.id = sock.id /\ sock'.due = sock.due /\ sock'.inbox = sock.inbox
        /\ timers \subseteq timers' /\ state' = state
    BY <1>1, <1>5 DEF NameNotFound, SocketState
  <2>3. queue[1].type \notin Ways /\ ~Pings(1) /\ (AckComes => AckComes')
    BY <2>1, <2>2 DEF Ways, Pings, Is, AckComes
  <2> QED
    BY <1>1, <2>1, <2>2, <2>3, PingKept
<1>6. CASE Conn
  BY <1>6 DEF Conn, CoveredInv
<1>7. CASE Close
  BY <1>1, <1>7, PingMqttClose DEF Close, Left
<1>8. CASE Publish
  <2>1. PICK t \in {"ALIAS", "REPORT"} : Take(t)
    BY <1>8 DEF Publish
  <2>2. /\ Moved(1, 0) \/ queue' # Rest
        /\ Left(Rest, 1)
    BY <1>1, <2>1, MovedRest DEF Left
  <2>3. CASE state = "RUNNING"
    <3>1. CASE Send(sock, {"PUBACK"})
      <4>1. "PUBACK" \in sock'.due
        BY <1>1, <3>1 DEF Send, SocketState
      <4> QED
        BY <4>1 DEF CoveredInv, PingDue, AckComes
    <3>2. CASE queue' = Post(Rest, "CLOSE")
      <4>1. Moved(1, 1) /\ Newest.type = "CLOSE"
        BY <1>1, <2>1, <3>2, MovedPost DEF Requests
      <4> QED
        BY <4>1, PingPosted DEF Ways
    <3> QED
      BY <1>8, <2>3, <3>1, <3>2 DEF Publish, publish_message
  <2>4. CASE state # "RUNNING"
    BY <1>8, <2>4 DEF Publish, CoveredInv
  <2> QED
    BY <2>3, <2>4
<1>9. CASE Keepalive \/ CyclePuback
  BY <1>9 DEF Keepalive, CyclePuback, MQTTkeepalive_start, CoveredInv, PingDue
<1>10. CASE ReadTicket
  BY <1>10 DEF ReadTicket, CoveredInv
<1>11. CASE Reachable
  <2>1. Moved(1, 0) /\ Left(Rest, 1) /\ queue[1].type = "CONNECT" /\ Alive
    BY <1>1, <1>11, MovedRest DEF Reachable, Event, Take, Alive, Left
  <2>2. queue[1].type \notin Ways /\ ~Pings(1)
    BY <2>1 DEF Ways, Pings, Is
  <2>3. queue' = Rest /\ timers' = timers /\ state' = state
    BY <1>11 DEF Reachable
  <2>4. PICK s, r : s \in SocketState /\ Asked(s, r)
    BY <1>11, ReachableAsks
  <2> QED
    BY <1>1, <2>1, <2>2, <2>3, <2>4, PingSend DEF Asked
<1>12. CASE PeerGone
  <2>1. CASE mqtt_close(Rest, timers)
    BY <1>1, <1>12, <2>1, PingMqttClose DEF PeerGone, Event, Left
  <2>2. CASE state \notin {"MQTT_CONN", "RUNNING"}
    BY <1>12, <2>2 DEF PeerGone, CoveredInv, sessionVars
  <2> QED
    BY <1>12, <2>1, <2>2 DEF PeerGone
<1>13. CASE CycleConnack
  <2>1. CASE state = "MQTT_CONN"
    <3>1. Moved(0, 1) /\ Newest.type = "ALIAS"
      BY <1>1, <1>13, <2>1, MovedBehind DEF CycleConnack, Requests
    <3> QED
      BY <3>1, PingPosted
  <2>2. CASE state # "MQTT_CONN"
    <3>1. queue' = queue /\ state' = state /\ timers' = timers /\ sock' = Unread("CONNACK") /\ Alive
      BY <1>13, <2>2 DEF CycleConnack, Cycle, Alive
    <3> QED
      BY <1>1, <3>1, UnreadShape, PingSend DEF Left
  <2> QED
    BY <2>1, <2>2
<1>14. CASE CycleCommand
  <2>1. PICK r : Send(Unread("CMD"), r) \/ sock' = Unread("CMD")
    BY <1>14 DEF CycleCommand, publish_message, SendFails
  <2>2. /\ queue' \in {queue, Post(queue, "CLOSE")} /\ Alive
        /\ state' = state /\ timers \subseteq timers'
    BY <1>14 DEF CycleCommand, publish_message, Cycle, Alive
  <2>3. "PUBACK" \in sock.inbox => "PUBACK" \in Unread("CMD").inbox
    BY UnreadShape
  <2> QED
    BY <1>1, <2>1, <2>2, <2>3, UnreadShape, PingSend DEF Left
<1>15. CASE CycleOther
  <2>1. PICK p \in {"PINGRESP", "HTTP", "JUNK"} : sock' = Unread(p)
    BY <1>15 DEF CycleOther
  <2>2. queue' = queue /\ state' = state /\ timers' = timers /\ Alive
    BY <1>15 DEF CycleOther, Cycle, sessionVars, Alive
  <2>3. "PUBACK" \in sock.inbox => "PUBACK" \in Unread(p).inbox
    BY UnreadShape
  <2> QED
    BY <1>1, <2>1, <2>2, <2>3, UnreadShape, PingSend DEF Left
<1>16. CASE CycleEnds \/ CycleSpins
  <2>1. /\ Moved(0, 0) /\ UNCHANGED <<stackVars, state, timers>> /\ (Alive' => Alive)
    BY <1>1, <1>16, MovedBehind DEF CycleEnds, CycleSpins, Alive
  <2> QED
    BY <1>1, <2>1, PingStack
<1> QED
  BY <1>2, <1>3, <1>4, <1>5, <1>6, <1>7, <1>8, <1>9, <1>10, <1>11, <1>12, <1>13, <1>14,
     <1>15, <1>16 DEF Task


LEMMA PingExpiry == SessInv /\ CoveredInv /\ Expiry => CoveredInv'
<1> SUFFICES ASSUME SessInv, CoveredInv, Expiry PROVE CoveredInv'
  OBVIOUS
<1>1. queue \in Seq(Message) /\ (answered' => answered)
  BY AnsweredOnce DEF SessInv, TypeOK
<1>2. CASE DemoExpires
  <2>1. CASE state \notin Bootstrap
    <3>1. /\ queue' = queue /\ UNCHANGED <<stackVars, state>> /\ cpu' = cpu
          /\ "KEEPALIVE" \in timers => "KEEPALIVE" \in timers'
      BY <1>2, <2>1 DEF DemoExpires
    <3> QED
      BY <1>1, <3>1, MovedBehind, PingStack DEF Alive
  <2>2. CASE state \in Bootstrap
    BY <1>2, <2>2 DEF DemoExpires, Bootstrap, CoveredInv
  <2> QED
    BY <2>1, <2>2
<1>3. CASE RetryExpires
  <2>1. CASE mqtt_close(queue, timers \ {"RETRY"})
    BY <1>1, <2>1, PingMqttClose DEF Left
  <2>2. CASE timers' = timers \ {"RETRY"} /\ UNCHANGED <<stackVars, queue, state, cpu>>
    <3>1. /\ UNCHANGED <<stackVars, state>> /\ (Alive' => Alive)
          /\ "KEEPALIVE" \in timers => "KEEPALIVE" \in timers'
      BY <2>2 DEF Alive
    <3> QED
      BY <1>1, <2>2, <3>1, MovedBehind, PingStack
  <2> QED
    BY <1>3, <2>1, <2>2 DEF RetryExpires
<1>4. CASE KeepaliveExpires
  <2>1. Moved(0, 1) /\ Newest.type = "KEEPALIVE"
    BY <1>1, <1>4, MovedBehind DEF KeepaliveExpires, Reminds, Requests
  <2> QED
    BY <2>1, PingPosted
<1>5. CASE PubExpires
  <2>1. Moved(0, 1)
    BY <1>1, <1>5, MovedBehind DEF PubExpires, Reminds, Requests
  <2>2. /\ UNCHANGED <<stackVars, state>> /\ cpu' = cpu
        /\ "KEEPALIVE" \in timers => "KEEPALIVE" \in timers'
    BY <1>5 DEF PubExpires, Reminds
  <2> QED
    BY <1>1, <2>1, <2>2, PingStack DEF Alive
<1> QED
  BY <1>2, <1>3, <1>4, <1>5 DEF Expiry

LEMMA PingWorld == SessInv /\ CoveredInv /\ World => CoveredInv'
<1> SUFFICES ASSUME SessInv, CoveredInv, World PROVE CoveredInv'
  OBVIOUS
<1>1. /\ queue \in Seq(Message) /\ sock \in SocketState /\ (answered' => answered)
      /\ state' = state /\ timers' = timers /\ (Alive' => Alive)
  BY AnsweredOnce DEF SessInv, TypeOK, World, sessionVars, Alive
<1>2. sock.link \in {"connecting", "up", "acked"} => sock.id \in Sockets
  BY DEF SessInv, TypeOK, LinkOpen
<1>3. ASSUME NEW n, Moved(0, n), sock'.id = sock.id,
             AckComes => AckComes' \/ (n = 1 /\ Newest.type = "CLOSED" /\ Newest.id = sock.id)
      PROVE  CoveredInv'
  BY <1>1, <1>3, PingKept
<1>4. ASSUME NEW mine \in BOOLEAN, NEW ok \in BOOLEAN, LookupAnswered(mine, ok)
      PROVE  CoveredInv'
  <2>1. Moved(0, 1) /\ sock' = sock
    BY <1>1, <1>4, MessageForms, MovedBehind DEF LookupAnswered
  <2> QED
    BY <1>3, <2>1 DEF AckComes
<1>5. ASSUME NEW ok \in BOOLEAN, Connected(ok) PROVE CoveredInv'
  <2>1. Moved(0, 1)
    BY <1>1, <1>2, <1>5, MessageForms, MovedBehind DEF Connected
  <2>2. sock'.id = sock.id /\ sock'.due = sock.due /\ sock'.inbox = sock.inbox
    BY <1>1, <1>5 DEF Connected, SocketState
  <2> QED
    BY <1>3, <2>1, <2>2 DEF AckComes
<1>6. ASSUME Linked, NEW p, NEW settled, NEW link, Arrives(p, settled, link),
             "PUBACK" \in settled => p = "PUBACK"
      PROVE  CoveredInv'
  <2>1. \E n : Moved(0, n)
    BY <1>1, <1>2, <1>6, MessageForms, MovedBehind DEF Arrives, Linked
  <2>2. /\ sock'.id = sock.id /\ sock'.due = sock.due \ settled
        /\ sock'.inbox = sock.inbox \cup {p}
    BY <1>1, <1>6 DEF Arrives, SocketState
  <2> QED
    BY <1>3, <1>6, <2>1, <2>2 DEF AckComes
<1>7. CASE \E p \in Replies : PeerReplies(p)
  <2>1. PICK p \in Replies : PeerReplies(p)
    BY <1>7
  <2> QED
    BY <1>6, <2>1 DEF PeerReplies
<1>8. CASE ReplyGarbled \/ BrokerCommands
  BY <1>6, <1>8 DEF ReplyGarbled, BrokerCommands, Linked
<1>9. CASE LookupLost \/ ConnectLost \/ ReplyLost
  <2>1. ~answered'
    BY <1>9 DEF LookupLost, ConnectLost, ReplyLost, Upset
  <2> QED
    BY <2>1 DEF CoveredInv
<1>10. CASE PeerCloses
  <2>1. Moved(0, 1) /\ Newest.type = "CLOSED" /\ Newest.id = sock.id
    BY <1>1, <1>2, <1>10, MessageForms, MovedBehind DEF PeerCloses, Linked
  <2>2. sock'.id = sock.id
    BY <1>1, <1>10 DEF PeerCloses, SocketState
  <2> QED
    BY <1>3, <2>1, <2>2
<1>11. ASSUME NEW t \in Requests, NEW k, Posted(t, k) PROVE CoveredInv'
  <2>1. Moved(0, 1) /\ sock' = sock
    BY <1>1, <1>11, MessageForms, MovedBehind DEF Posted, stackVars
  <2> QED
    BY <1>3, <2>1 DEF AckComes
<1>12. CASE BrokerRefuses
  <2>1. Moved(0, 0)
    BY <1>1, <1>12, MovedBehind DEF BrokerRefuses
  <2>2. sock'.id = sock.id /\ sock'.due = sock.due /\ sock'.inbox = sock.inbox
    BY <1>1, <1>12 DEF BrokerRefuses, SocketState
  <2> QED
    BY <1>3, <2>1, <2>2 DEF AckComes
<1> QED
  BY <1>4, <1>5, <1>7, <1>8, <1>9, <1>10, <1>11, <1>12 DEF World, Outside, Requests

LEMMA PingStep == SessInv /\ SessInv' /\ CoveredInv /\ [Next]_vars => CoveredInv'
<1> SUFFICES ASSUME SessInv, SessInv', CoveredInv, [Next]_vars PROVE CoveredInv'
  OBVIOUS
<1>1. CASE UNCHANGED vars
  <2>1. Moved(0, 0) /\ UNCHANGED <<stackVars, state, timers, answered, cpu>>
    BY <1>1, MovedBehind DEF vars, stackVars, SessInv, TypeOK
  <2> QED
    BY <2>1, PingStack DEF Alive
<1>2. CASE Reboot
  BY <1>2 DEF Reboot, Boot, CoveredInv
<1> QED
  BY <1>1, <1>2, PingTask, PingExpiry, PingWorld DEF Next

(* On line the keepalive is running, or what starts it or ends the connection is still to
   come, as long as nothing was left unanswered: no handler or timer consumes one without
   leaving another (MQTTkeepalive_start, publish_message, MTK_cycle of MQTTMTK.c). *)
THEOREM KeepaliveGoesOn == Spec => []KeepaliveCovered
<1>1. Init => CoveredInv
  BY DEF Init, CoveredInv
<1>2. CoveredInv => KeepaliveCovered
  BY DEF CoveredInv, PingDue, Pings, Is, AckComes, Positions, KeepaliveCovered, Queued
<1> QED
  BY <1>1, <1>2, PingStep, SessionInvariant, PTL DEF Spec

-------------------------------------------------------------------------------
(* Nothing is published ahead of the session. *)

(* The broker has answered the CONNECT of this connection, be it gone by now. *)
WasAnswered == sock.link \in {"acked", "dead"}
AnswerRead == "CONNACK" \in sock.inbox => WasAnswered
RunningAnswered == state = "RUNNING" /\ sock.id \in open => WasAnswered

PublishInv == AnswerRead /\ RunningAnswered /\ PublishedAfterConnack

LEMMA PublishKept ==
  ASSUME PublishInv, state' = "RUNNING" => state = "RUNNING",
         sock'.id = sock.id, sock'.link = sock.link, open' = open,
         "CONNACK" \in sock'.inbox => "CONNACK" \in sock.inbox,
         "PUBACK" \in sock'.due => "PUBACK" \in sock.due \/ sock.link = "acked"
  PROVE  PublishInv'
BY DEF PublishInv, AnswerRead, RunningAnswered, PublishedAfterConnack, WasAnswered

LEMMA PublishEmpty ==
  ASSUME sock'.due = {}, sock'.inbox = {}, state' = "RUNNING" /\ sock'.id \in open' => WasAnswered'
  PROVE  PublishInv'
BY DEF PublishInv, AnswerRead, RunningAnswered, PublishedAfterConnack

LEMMA PublishClosed ==
  ASSUME SessInv, PublishInv, mtk_socket_close, state' = "RUNNING" => state = "RUNNING"
  PROVE  PublishInv'
<1>1. CASE sock' = Closed /\ open' = open \ {sock.id}
  <2>1. sock'.due = {} /\ sock'.inbox = {} /\ sock'.id \notin open'
    BY <1>1, SocketsAssumption DEF Closed, SessInv, TypeOK
  <2> QED
    BY <2>1, PublishEmpty
<1>2. CASE UNCHANGED stackVars
  BY <1>2, PublishKept DEF stackVars
<1> QED
  BY <1>1, <1>2, CloseShape

LEMMA PublishMqttClose ==
  ASSUME SessInv, PublishInv, NEW q, NEW ts, mqtt_close(q, ts)
  PROVE  PublishInv'
<1>1. CASE UNCHANGED stackVars
  BY <1>1, PublishKept DEF stackVars, mqtt_close
<1>2. CASE mtk_socket_close
  BY <1>2, PublishClosed DEF mqtt_close
<1> QED
  BY <1>1, <1>2 DEF mqtt_close

(* What is sent on the socket of s is an acknowledged message only on line. *)
LEMMA PublishSend ==
  ASSUME SessInv, PublishInv, NEW s \in SocketState,
         s.id = sock.id, s.link = sock.link, s.due = sock.due, s.inbox \subseteq sock.inbox,
         NEW r, "PUBACK" \in r => state = "RUNNING", Send(s, r) \/ sock' = s,
         open' = open, state' = state
  PROVE  PublishInv'
<1>1. CASE sock' = s
  BY <1>1, PublishKept
<1>2. CASE Send(s, r)
  <2>1. sock' = [s EXCEPT !.due = @ \cup r] /\ sock.id \in open /\ Linked
    BY <1>2 DEF Send, CanSend
  <2>2. /\ sock'.id = sock.id /\ sock'.link = sock.link /\ sock'.inbox \subseteq sock.inbox
        /\ sock'.due = sock.due \cup r
    BY <2>1 DEF SocketState
  <2>3. state = "RUNNING" => sock.link = "acked"
    BY <2>1 DEF PublishInv, RunningAnswered, WasAnswered, Linked
  <2> QED
    BY <2>2, <2>3, PublishKept
<1> QED
  BY <1>1, <1>2

(* While a lookup is under way, or was not even started, the socket is empty. *)
LEMMA LookupEmpty ==
  ASSUME SessInv, LookupInv, Mine
  PROVE  sock.due = {} /\ sock.inbox = {} /\ sock.link = "none" /\ sock.dns # "IGNORE"
<1>1. queue \in Seq(Message)
  BY DEF SessInv, TypeOK
<1>2. Len(queue) >= 1 /\ Head(queue) = queue[1] /\ Len(queue) \in Nat
  BY <1>1, MovedRest, LenProperties DEF Mine
<1>3. MineAt(1) \/ sock.dns = "START"
  BY <1>2 DEF Mine, MineAt, Take
<1>4. 1 \in Positions
  BY <1>2 DEF Positions
<1>5. sock.dns # "IGNORE"
  BY <1>3, <1>4 DEF LookupInv, LookupBlocks
<1> QED
  BY <1>5 DEF LookupInv, QuietSocket, NoLink

LEMMA PublishTask == SessInv /\ LookupInv /\ PublishInv /\ Task => PublishInv'
<1> SUFFICES ASSUME SessInv, LookupInv, PublishInv, Task PROVE PublishInv'
  OBVIOUS
<1>1. /\ sock \in SocketState /\ open \in SUBSET Sockets
      /\ AfterClose \in SUBSET Sockets /\ BrokerByName \in BOOLEAN
      /\ {"REG", "TICKET", "BROKER"} \subseteq Peers
  BY FlagsAssumption DEF SessInv, TypeOK, AfterClose, Peers
<1>2. CASE Start \/ ReadRegInfo \/ (Conn /\ broker)
  <2>1. /\ state' # "RUNNING"
        /\ \E peer \in Peers, byName \in BOOLEAN, before \in SUBSET Sockets :
             \E rc : mtk_socket_open(peer, byName, before, rc)
    BY <1>1, <1>2 DEF Start, ReadRegInfo, Conn
  <2>2. sock'.due = {} /\ sock'.inbox = {}
    BY <2>1, OpenShape, Zenon DEF Opened
  <2> QED
    BY <2>1, <2>2, PublishEmpty
<1>3. CASE NotMine \/ Dropped \/ NotCurrent \/ NotReachable \/ ReadPackets
  BY <1>3, PublishKept
     DEF NotMine, Dropped, NotCurrent, NotReachable, ReadPackets, stackVars, sessionVars
<1>4. CASE NameFound
  <2>1. sock.due = {} /\ sock.inbox = {} /\ sock.link = "none"
    BY <1>4, LookupEmpty DEF NameFound
  <2>2. sock'.due = {} /\ sock'.inbox = {} /\ sock'.id = sock.id
    BY <1>4, <2>1, ConnectShape DEF NameFound
  <2>3. open' = open /\ (state' = "RUNNING" => state = "RUNNING")
    BY <1>4 DEF NameFound
  <2> QED
    BY <2>1, <2>2, <2>3, PublishEmpty DEF PublishInv, RunningAnswered, WasAnswered
<1>5. CASE NameNotFound
  <2>1. /\ sock'.id = sock.id /\ sock'.link = sock.link /\ sock'.due = sock.due
        /\ sock'.inbox = sock.inbox /\ open' = open /\ state' = state
    BY <1>1, <1>5 DEF NameNotFound, SocketState
  <2> QED
    BY <2>1, PublishKept
<1>6. CASE Conn /\ ~broker
  BY <1>6, PublishKept DEF Conn, stackVars
<1>7. CASE Close
  BY <1>7, PublishMqttClose DEF Close
<1>8. CASE Publish
  <2>1. PICK r \in {{"PUBACK"}, {}} :
          ("PUBACK" \in r => state = "RUNNING") /\ (Send(sock, r) \/ sock' = sock)
    BY <1>8 DEF Publish, publish_message, SendFails
  <2> QED
    BY <1>1, <1>8, <2>1, PublishSend DEF Publish
<1>9. CASE Keepalive
  <2>1. \E r : "PUBACK" \notin r /\ (Send(sock, r) \/ sock' = sock)
    BY <1>9 DEF Keepalive, MQTTkeepalive_start, SendFails
  <2> QED
    BY <1>1, <1>9, <2>1, PublishSend DEF Keepalive
<1>10. CASE ReadTicket
  BY <1>10, PublishClosed DEF ReadTicket
<1>11. CASE Reachable
  <2>1. PICK s, r : s \in SocketState /\ Asked(s, r)
    BY <1>11, ReachableAsks
  <2> QED
    BY <1>1, <1>11, <2>1, PublishSend DEF Reachable, Asked
<1>12. CASE PeerGone
  <2>1. CASE mqtt_close(Rest, timers)
    BY <2>1, PublishMqttClose
  <2>2. CASE UNCHANGED <<stackVars, sessionVars>>
    BY <2>2, PublishKept DEF stackVars, sessionVars
  <2> QED
    BY <1>12, <2>1, <2>2 DEF PeerGone
<1>13. CASE CycleConnack
  <2>1. /\ "CONNACK" \in sock.inbox /\ sock' = Unread("CONNACK") /\ open' = open
    BY <1>13 DEF CycleConnack, Cycle
  <2>2. /\ sock'.id = sock.id /\ sock'.link = sock.link /\ sock'.due = sock.due
        /\ sock'.inbox = sock.inbox \ {"CONNACK"}
    BY <2>1, UnreadShape
  <2> QED
    BY <2>1, <2>2 DEF PublishInv, AnswerRead, RunningAnswered, PublishedAfterConnack, WasAnswered
<1>14. CASE CyclePuback
  <2>1. \E r : "PUBACK" \notin r /\ (Send(Unread("PUBACK"), r) \/ sock' = Unread("PUBACK"))
    BY <1>14 DEF CyclePuback, MQTTkeepalive_start, SendFails
  <2>2. open' = open /\ state' = state /\ Unread("PUBACK").inbox \subseteq sock.inbox
    BY <1>14, UnreadShape DEF CyclePuback
  <2> QED
    BY <2>1, <2>2, UnreadShape, PublishSend
<1>15. CASE CycleCommand
  <2>1. PICK r \in {{"PUBACK"}, {}} :
          /\ "PUBACK" \in r => state = "RUNNING"
          /\ (Send(Unread("CMD"), r) \/ sock' = Unread("CMD"))
    BY <1>15 DEF CycleCommand, publish_message, SendFails
  <2>2. open' = open /\ state' = state /\ Unread("CMD").inbox \subseteq sock.inbox
    BY <1>15, UnreadShape DEF CycleCommand
  <2> QED
    BY <2>1, <2>2, UnreadShape, PublishSend
<1>16. CASE CycleOther
  <2>1. PICK p : sock' = Unread(p)
    BY <1>16 DEF CycleOther
  <2>2. open' = open /\ state' = state
    BY <1>16 DEF CycleOther, sessionVars
  <2> QED
    BY <2>1, <2>2, UnreadShape, PublishKept
<1>17. CASE CycleEnds \/ CycleSpins
  BY <1>17, PublishKept DEF CycleEnds, CycleSpins, stackVars
<1> QED
  BY <1>2, <1>3, <1>4, <1>5, <1>6, <1>7, <1>8, <1>9, <1>10, <1>11, <1>12, <1>13, <1>14,
     <1>15, <1>16, <1>17 DEF Task

LEMMA PublishExpiry == SessInv /\ PublishInv /\ Expiry => PublishInv'
<1> SUFFICES ASSUME SessInv, PublishInv, Expiry PROVE PublishInv'
  OBVIOUS
<1>1. CASE UNCHANGED <<stackVars, state>>
  BY <1>1, PublishKept DEF stackVars
<1>2. CASE mtk_socket_close /\ state' = state
  BY <1>2, PublishClosed
<1>3. CASE DemoExpires
  BY <1>1, <1>2, <1>3 DEF DemoExpires
<1>4. CASE RetryExpires
  BY <1>1, <1>4, PublishMqttClose DEF RetryExpires
<1>5. CASE KeepaliveExpires \/ PubExpires
  BY <1>1, <1>5 DEF KeepaliveExpires, PubExpires, Reminds
<1> QED
  BY <1>3, <1>4, <1>5 DEF Expiry

LEMMA PublishWorld == SessInv /\ LookupInv /\ PublishInv /\ World => PublishInv'
<1> SUFFICES ASSUME SessInv, LookupInv, PublishInv, World PROVE PublishInv'
  OBVIOUS
<1>1. sock \in SocketState /\ state' = state
  BY DEF SessInv, TypeOK, World, sessionVars
<1>2. sock.link = "connecting" => sock.due = {} /\ sock.inbox = {} /\ sock.id \in open
  BY DEF SessInv, LinkOpen, LookupInv, QuietSocket
<1>3. CASE UNCHANGED <<sock, open>>
  BY <1>1, <1>3, PublishKept
<1>4. ASSUME NEW ok \in BOOLEAN, Connected(ok) PROVE PublishInv'
  <2>1. /\ sock.link = "connecting" /\ sock'.due = sock.due /\ sock'.inbox = sock.inbox
    BY <1>1, <1>4 DEF Connected, SocketState
  <2> QED
    BY <1>1, <1>2, <2>1, PublishEmpty DEF PublishInv, RunningAnswered, WasAnswered
<1>5. CASE ConnectLost
  <2>1. /\ sock.link = "connecting" /\ sock'.due = sock.due /\ sock'.inbox = sock.inbox
    BY <1>1, <1>5 DEF ConnectLost, SocketState
  <2> QED
    BY <1>1, <1>2, <2>1, PublishEmpty DEF PublishInv, RunningAnswered, WasAnswered
<1>6. ASSUME NEW p, NEW settled, NEW link, Arrives(p, settled, link),
             \/ p = "CONNACK" /\ link = "acked"
             \/ p # "CONNACK" /\ link = sock.link
      PROVE  PublishInv'
  <2>1. /\ sock'.id = sock.id /\ sock'.link = link /\ sock'.due \subseteq sock.due
        /\ sock'.inbox = sock.inbox \cup {p} /\ open' = open
    BY <1>1, <1>6 DEF Arrives, SocketState
  <2> QED
    BY <1>1, <1>6, <2>1
       DEF PublishInv, AnswerRead, RunningAnswered, PublishedAfterConnack, WasAnswered
<1>7. CASE \E p \in Replies : PeerReplies(p)
  BY <1>6, <1>7 DEF PeerReplies
<1>8. CASE ReplyGarbled \/ BrokerCommands
  BY <1>6, <1>8 DEF ReplyGarbled, BrokerCommands
<1>9. CASE BrokerRefuses \/ ReplyLost
  <2>1. /\ sock'.id = sock.id /\ sock'.link = sock.link /\ sock'.due \subseteq sock.due
        /\ sock'.inbox = sock.inbox /\ open' = open
    BY <1>1, <1>9 DEF BrokerRefuses, ReplyLost, SocketState
  <2> QED
    BY <1>1, <2>1, PublishKept
<1>10. CASE PeerCloses
  <2>1. /\ sock'.id = sock.id /\ sock'.link = "dead" /\ sock'.due = {}
        /\ sock'.inbox = sock.inbox /\ open' = open
    BY <1>1, <1>10 DEF PeerCloses, SocketState
  <2> QED
    BY <1>1, <2>1
       DEF PublishInv, AnswerRead, RunningAnswered, PublishedAfterConnack, WasAnswered
<1>11. CASE LookupLost \/ (\E mine, ok \in BOOLEAN : LookupAnswered(mine, ok))
            \/ Posted("START", "service") \/ Posted("REPORT", "report")
  BY <1>3, <1>11 DEF LookupLost, LookupAnswered, Posted, stackVars
<1> QED
  BY <1>4, <1>5, <1>7, <1>8, <1>9, <1>10, <1>11 DEF World, Outside

LEMMA PublishInvariant == Spec => []PublishInv
<1>1. Init => PublishInv
  BY DEF Init, Closed, PublishInv, AnswerRead, RunningAnswered, PublishedAfterConnack
<1>2. ASSUME SessInv, LookupInv, PublishInv, [Next]_vars PROVE PublishInv'
  <2>1. CASE UNCHANGED vars
    <3>1. sock' = sock /\ state' = state /\ open' = open
      BY <2>1 DEF vars
    <3> QED
      BY <1>2, <3>1, PublishKept
  <2>2. CASE Reboot
    <3>1. sock'.due = {} /\ sock'.inbox = {} /\ state' # "RUNNING"
      BY <2>2 DEF Reboot, Boot, Closed
    <3> QED
      BY <3>1, PublishEmpty DEF SocketState
  <2> QED
    BY <1>2, <2>1, <2>2, PublishTask, PublishExpiry, PublishWorld DEF Next
<1> QED
  BY <1>1, <1>2, SessionInvariant, LookupInvariant, PTL DEF Spec

(* What the lock publishes is only ever sent behind the CONNACK of the connection it goes over:
   neither the state left from a closed connection nor a socket opened behind it lets a
   message out earlier (publish_message, mqtt_close, mqtt_conn_start of MQTTMTK.c). *)
THEOREM PublishesAfterConnack == Spec => []PublishedAfterConnack
<1>1. PublishInv => PublishedAfterConnack
  BY DEF PublishInv
<1> QED
  BY <1>1, PublishInvariant, PTL

-------------------------------------------------------------------------------
(* One request for a connection at a time. *)

(* A connection is asked for when there is none; only a broker's address leads to one. *)
NoneHeld == \A i \in Positions : queue[i].type = "CONN" => sock.id = NoSocket
BrokerKnown == sock.peer = "BROKER" => broker
ForBroker == state \in {"MQTT_CONN", "RUNNING"} => sock.id = NoSocket \/ sock.peer = "BROKER"
BrokerStays == broker => state \notin Bootstrap
Kept == "KEEPALIVE" \in timers \/ (\E i \in Positions : queue[i].type = "KEEPALIVE")
KeptForBroker == state = "RUNNING" \/ Kept => broker
AckOnLine == AckComes => state = "RUNNING"
PhaseInv == NoneHeld /\ BrokerKnown /\ ForBroker /\ BrokerStays /\ KeptForBroker /\ AckOnLine

(* A keepalive at this place of the mailbox meets the connection that is on line or none:
   a connection is asked for behind it, or the current one is closed before it. *)
OnLine == state = "RUNNING" /\ sock.id \in open
Harmless(q, online, p) ==
  \/ \E j \in p + 1 .. Len(q) : q[j].type = "CONN"
  \/ \E k \in 1 .. p - 1 : q[k].type = "CLOSE" /\ \A j \in k + 1 .. p - 1 : q[j].type # "CONN"
  \/ online
Pinged ==
  /\ \A p \in Positions : queue[p].type = "KEEPALIVE" => Harmless(queue, OnLine, p)
  /\ "KEEPALIVE" \in timers => Harmless(queue, OnLine, Len(queue) + 1)
PingedAfterConnack == "PINGRESP" \in sock.due => sock.link = "acked"

OrderlyInv == PhaseInv /\ (cpu # "crashed" => Pinged) /\ PingedAfterConnack

LEMMA HarmShift ==
  ASSUME NEW d, NEW n, Moved(d, n), d = 1 => queue[1].type # "CLOSE", OnLine => OnLine',
         NEW p \in d + 1 .. Len(queue) + 1, Harmless(queue, OnLine, p)
  PROVE  Harmless(queue', OnLine', p - d)
<1>1. d \in {0, 1} /\ n \in {0, 1} /\ Len(queue) \in Nat /\ Len(queue') = Len(queue) - d + n
  BY DEF Moved
<1>2. CASE OnLine
  BY <1>2 DEF Harmless
<1>3. ASSUME NEW j \in p + 1 .. Len(queue), queue[j].type = "CONN" PROVE Harmless(queue', OnLine', p - d)
  <2>1. /\ j - d \in 1 .. Len(queue) - d /\ (j - d) + d = j
        /\ j - d \in (p - d) + 1 .. Len(queue')
    BY <1>1
  <2>2. queue'[j - d].type = "CONN"
    BY <1>3, <2>1 DEF Moved
  <2> QED
    BY <2>1, <2>2 DEF Harmless
<1>4. ASSUME NEW k \in 1 .. p - 1, queue[k].type = "CLOSE",
             \A j \in k + 1 .. p - 1 : queue[j].type # "CONN"
      PROVE  Harmless(queue', OnLine', p - d)
  <2>1. d = 1 => k # 1
    BY <1>4
  <2>2. /\ k - d \in 1 .. Len(queue) - d /\ (k - d) + d = k
        /\ k - d \in 1 .. (p - d) - 1
    BY <1>1, <2>1
  <2>3. queue'[k - d].type = "CLOSE"
    BY <1>4, <2>2 DEF Moved
  <2>4. ASSUME NEW j \in (k - d) + 1 .. (p - d) - 1 PROVE queue'[j].type # "CONN"
    <3>1. j + d \in k + 1 .. p - 1 /\ j \in 1 .. Len(queue) - d
      BY <1>1, <2>2
    <3> QED
      BY <1>4, <3>1 DEF Moved
  <2> QED
    BY <2>2, <2>3, <2>4 DEF Harmless
<1> QED
  BY <1>2, <1>3, <1>4 DEF Harmless

LEMMA HarmLast ==
  ASSUME NEW d, NEW n, Moved(d, n), d = 1 => queue[1].type # "CLOSE", OnLine => OnLine',
         n = 1 => Newest.type # "CONN", Harmless(queue, OnLine, Len(queue) + 1)
  PROVE  Harmless(queue', OnLine', Len(queue') + 1)
<1>1. d \in {0, 1} /\ n \in {0, 1} /\ Len(queue) \in Nat /\ d <= Len(queue)
      /\ Len(queue') = Len(queue) - d + n
  BY DEF Moved
<1>2. Len(queue) + 1 \in d + 1 .. Len(queue) + 1
  BY <1>1
<1>3. Harmless(queue', OnLine', (Len(queue) + 1) - d)
  BY <1>2, HarmShift
<1>4. CASE n = 0
  BY <1>1, <1>3, <1>4
<1>5. CASE n = 1
  <2>1. (Len(queue) + 1) - d = Len(queue') /\ Len(queue') \in Nat
    BY <1>1, <1>5
  <2>2. Harmless(queue', OnLine', Len(queue'))
    BY <1>3, <2>1
  <2>3. CASE OnLine'
    BY <2>3 DEF Harmless
  <2>4. ASSUME NEW k \in 1 .. Len(queue') - 1, queue'[k].type = "CLOSE",
               \A j \in k + 1 .. Len(queue') - 1 : queue'[j].type # "CONN"
        PROVE  Harmless(queue', OnLine', Len(queue') + 1)
    <3>1. k \in 1 .. (Len(queue') + 1) - 1
      BY <2>1
    <3>2. ASSUME NEW j \in k + 1 .. (Len(queue') + 1) - 1 PROVE queue'[j].type # "CONN"
      <4>1. j \in k + 1 .. Len(queue') - 1 \/ j = Len(queue')
        BY <2>1
      <4> QED
        BY <1>5, <2>4, <4>1 DEF Newest
    <3> QED
      BY <2>4, <3>1, <3>2 DEF Harmless
  <2>5. Len(queue') + 1 .. Len(queue') = {}
    BY <2>1
  <2> QED
    BY <2>2, <2>3, <2>4, <2>5 DEF Harmless
<1> QED
  BY <1>1, <1>4, <1>5

(* What asks for no connection and takes nobody off line. *)
LEMMA PingedKept ==
  ASSUME Pinged, NEW d, NEW n, Moved(d, n), d = 1 => queue[1].type # "CLOSE", OnLine => OnLine',
         n = 1 => Newest.type \notin {"CONN", "KEEPALIVE"},
         "KEEPALIVE" \in timers' =>
           "KEEPALIVE" \in timers \/ OnLine' \/ (n = 1 /\ Newest.type = "CLOSE")
  PROVE  Pinged'
<1>1. d \in {0, 1} /\ n \in {0, 1} /\ Len(queue) \in Nat /\ Len(queue') \in Nat
      /\ Len(queue') = Len(queue) - d + n
  BY DEF Moved
<1>2. ASSUME NEW p \in 1 .. Len(queue'), queue'[p].type = "KEEPALIVE" PROVE Harmless(queue', OnLine', p)
  <2>1. p \in 1 .. Len(queue) - d
    BY <1>1, <1>2 DEF Newest
  <2>2. p + d \in d + 1 .. Len(queue) + 1 /\ p + d \in Positions /\ (p + d) - d = p
    BY <1>1, <2>1 DEF Positions
  <2>3. queue[p + d].type = "KEEPALIVE"
    BY <1>2, <2>1 DEF Moved
  <2>4. Harmless(queue, OnLine, p + d)
    BY <2>2, <2>3 DEF Pinged
  <2>5. Harmless(queue', OnLine', (p + d) - d)
    BY <2>2, <2>4, HarmShift
  <2> QED
    BY <2>2, <2>5
<1>3. ASSUME "KEEPALIVE" \in timers' PROVE Harmless(queue', OnLine', Len(queue') + 1)
  <2>1. CASE "KEEPALIVE" \in timers
    BY <2>1, HarmLast DEF Pinged
  <2>2. CASE OnLine'
    BY <2>2 DEF Harmless
  <2>3. CASE n = 1 /\ Newest.type = "CLOSE"
    <3>1. Len(queue') \in 1 .. (Len(queue') + 1) - 1
      BY <1>1, <2>3 DEF Moved
    <3>2. Len(queue') + 1 .. (Len(queue') + 1) - 1 = {}
      BY <1>1
    <3> QED
      BY <2>3, <3>1, <3>2 DEF Harmless, Newest
  <2> QED
    BY <1>3, <2>1, <2>2, <2>3
<1> QED
  BY <1>2, <1>3 DEF Pinged, Positions
(* The phases, for a step that may post one message and leave or close the socket. *)
LEMMA PhaseMoved ==
  ASSUME PhaseInv, NEW d, NEW n, Moved(d, n), sock'.id \in {sock.id, NoSocket},
         n = 1 /\ Newest.type = "CONN" => sock'.id = NoSocket,
         n = 1 /\ Newest.type = "KEEPALIVE" => broker,
         broker => broker', "KEEPALIVE" \in timers' => broker', state' = "RUNNING" => broker',
         BrokerKnown', ForBroker', BrokerStays', AckOnLine'
  PROVE  PhaseInv'
<1>1. /\ d \in {0, 1} /\ n \in {0, 1} /\ Len(queue) \in Nat /\ Len(queue') \in Nat
      /\ Len(queue') = Len(queue) - d + n
  BY DEF Moved
<1>2. ASSUME NEW i \in 1 .. Len(queue'), queue'[i].type \in {"CONN", "KEEPALIVE"}
      PROVE  \/ i + d \in Positions /\ queue[i + d].type = queue'[i].type
             \/ n = 1 /\ Newest.type = queue'[i].type
  <2>1. i \in 1 .. Len(queue) - d \/ (n = 1 /\ i = Len(queue'))
    BY <1>1
  <2>2. CASE i \in 1 .. Len(queue) - d
    BY <1>1, <2>2 DEF Moved, Positions
  <2> QED
    BY <2>1, <2>2 DEF Newest
<1>3. NoneHeld'
  <2> SUFFICES ASSUME NEW i \in 1 .. Len(queue'), queue'[i].type = "CONN" PROVE sock'.id = NoSocket
    BY DEF NoneHeld, Positions
  <2> QED
    BY <1>2 DEF PhaseInv, NoneHeld
<1>4. ASSUME NEW i \in 1 .. Len(queue'), queue'[i].type = "KEEPALIVE" PROVE broker'
  BY <1>2, <1>4 DEF PhaseInv, KeptForBroker, Kept
<1>5. KeptForBroker'
  BY <1>4 DEF KeptForBroker, Kept, Positions
<1> QED
  BY <1>3, <1>5 DEF PhaseInv

(* What asks for no connection and leaves the session where it is. *)
LEMMA OrderlyKept ==
  ASSUME OrderlyInv, cpu # "crashed", NEW d, NEW n, Moved(d, n),
         d = 1 => queue[1].type # "CLOSE",
         n = 1 => Newest.type \notin {"CONN", "KEEPALIVE"},
         sock'.id = sock.id, sock'.peer = sock.peer, open' = open, state' = state, broker' = broker,
         AckComes' => AckComes \/ state = "RUNNING",
         PingedAfterConnack',
         "KEEPALIVE" \in timers' =>
           \/ "KEEPALIVE" \in timers \/ OnLine
           \/ broker /\ n = 1 /\ Newest.type = "CLOSE"
  PROVE  OrderlyInv'
<1>1. Pinged'
  BY PingedKept DEF OrderlyInv, OnLine
<1>2. "KEEPALIVE" \in timers' => broker
  BY DEF OrderlyInv, PhaseInv, KeptForBroker, Kept, OnLine
<1>3. /\ BrokerKnown' /\ ForBroker' /\ BrokerStays' /\ AckOnLine'
      /\ state = "RUNNING" => broker
  BY DEF OrderlyInv, PhaseInv, BrokerKnown, ForBroker, BrokerStays, AckOnLine, KeptForBroker
<1>4. n = 1 /\ Newest.type = "CONN" => sock'.id = NoSocket
  OBVIOUS
<1>5. PhaseInv'
  BY <1>2, <1>3, PhaseMoved DEF OrderlyInv
<1> QED
  BY <1>1, <1>5 DEF OrderlyInv

LEMMA OrderlyStack ==
  ASSUME OrderlyInv, cpu # "crashed", UNCHANGED <<stackVars, state, broker>>,
         NEW d, NEW n, Moved(d, n), d = 1 => queue[1].type # "CLOSE",
         n = 1 => Newest.type \notin {"CONN", "KEEPALIVE"},
         "KEEPALIVE" \in timers' => "KEEPALIVE" \in timers
  PROVE  OrderlyInv'
<1>1. sock' = sock /\ open' = open
  BY DEF stackVars
<1>2. (AckComes' => AckComes) /\ PingedAfterConnack'
  BY <1>1 DEF AckComes, OrderlyInv, PingedAfterConnack
<1> QED
  BY <1>1, <1>2, OrderlyKept

(* On line over a connection that takes packets. *)
LEMMA SendingInSession ==
  ASSUME PublishInv, OnLine, Linked
  PROVE  sock.link = "acked"
BY DEF PublishInv, RunningAnswered, WasAnswered, OnLine, Linked

LEMMA OrderlySend ==
  ASSUME SessInv, OrderlyInv, cpu # "crashed", NEW s \in SocketState,
         s.id = sock.id, s.peer = sock.peer, s.link = sock.link, s.due = sock.due,
         s.inbox \subseteq sock.inbox,
         NEW r, Send(s, r) \/ sock' = s,
         "PUBACK" \in r => state = "RUNNING",
         Send(s, r) /\ "PINGRESP" \in r => sock.link = "acked",
         open' = open, state' = state, broker' = broker,
         NEW q, NEW d, Left(q, d), queue' \in {q, Post(q, "CLOSE")},
         d = 1 => queue[1].type # "CLOSE",
         "KEEPALIVE" \in timers' =>
           \/ "KEEPALIVE" \in timers \/ OnLine
           \/ broker /\ queue' = Post(q, "CLOSE")
  PROVE  OrderlyInv'
<1>1. queue \in Seq(Message)
  BY DEF SessInv, TypeOK
<1>2. PICK n : Moved(d, n) /\ (n = 1 => Newest.type = "CLOSE") /\ (queue' = Post(q, "CLOSE") => n = 1)
  <2>1. CASE queue' # Post(q, "CLOSE")
    BY <1>1, <2>1, ClosePosted
  <2>2. CASE queue' = Post(q, "CLOSE")
    <3>1. Moved(d, 1) /\ Newest.type = "CLOSE"
      BY <1>1, <2>2, MovedBehind, MovedPost DEF Left, Requests
    <3> QED
      BY <3>1
  <2> QED
    BY <2>1, <2>2
<1>3. sock' = s \/ (Send(s, r) /\ sock' = [s EXCEPT !.due = @ \cup r])
  BY DEF Send
<1>4. /\ sock'.id = sock.id /\ sock'.peer = sock.peer /\ sock'.link = sock.link
      /\ sock'.inbox \subseteq sock.inbox
      /\ sock'.due = sock.due \/ (Send(s, r) /\ sock'.due = sock.due \cup r)
  BY <1>3 DEF SocketState
<1>5. AckComes' => AckComes \/ state = "RUNNING"
  BY <1>4 DEF AckComes
<1>6. PingedAfterConnack'
  BY <1>4 DEF PingedAfterConnack, OrderlyInv
<1> QED
  BY <1>2, <1>4, <1>5, <1>6, OrderlyKept

(* mqtt_close stops the keepalive, and asks for a connection behind the reminders of it
   that are in the mailbox. *)
LEMMA OrderlyMqttClose ==
  ASSUME SessInv, OrderlyInv, NEW q, NEW d, Left(q, d), NEW ts, ts \subseteq timers, mqtt_close(q, ts)
  PROVE  OrderlyInv'
<1>1. queue \in Seq(Message) /\ sock \in SocketState
  BY DEF SessInv, TypeOK
<1>2. /\ state' = state /\ broker' = broker /\ "KEEPALIVE" \notin timers'
      /\ state = "RUNNING" => broker
  BY DEF mqtt_close, OrderlyInv, PhaseInv, KeptForBroker
<1>3. CASE UNCHANGED stackVars /\ cpu' = "crashed" /\ Moved(d, 0)
  <2>1. sock' = sock
    BY <1>3 DEF stackVars
  <2>2. BrokerKnown' /\ ForBroker' /\ BrokerStays' /\ AckOnLine' /\ PingedAfterConnack'
    BY <1>2, <2>1 DEF OrderlyInv, PhaseInv, BrokerKnown, ForBroker, BrokerStays, AckOnLine,
                      AckComes, PingedAfterConnack
  <2> QED
    BY <1>2, <1>3, <2>1, <2>2, PhaseMoved DEF OrderlyInv
<1>4. CASE mtk_socket_close /\ Moved(d, 1) /\ Newest.type = "CONN"
  <2>1. sock' = Closed \/ (sock.id = NoSocket /\ sock' = sock)
    BY <1>4, CloseShape DEF HasSocket, stackVars
  <2>2. /\ sock'.id = NoSocket /\ (AckComes' => AckComes)
        /\ sock'.peer = "BROKER" => sock.peer = "BROKER"
        /\ PingedAfterConnack'
    BY <2>1 DEF Closed, AckComes, PingedAfterConnack, OrderlyInv
  <2>3. BrokerKnown' /\ ForBroker' /\ BrokerStays' /\ AckOnLine'
    BY <1>2, <2>2 DEF OrderlyInv, PhaseInv, BrokerKnown, ForBroker, BrokerStays, AckOnLine
  <2>4. PhaseInv'
    BY <1>2, <1>4, <2>2, <2>3, PhaseMoved DEF OrderlyInv
  <2>5. Pinged'
    <3>1. Len(queue') \in Nat /\ queue'[Len(queue')].type = "CONN"
      BY <1>4 DEF Moved, Newest
    <3>2. ASSUME NEW p \in 1 .. Len(queue'), queue'[p].type = "KEEPALIVE"
          PROVE  Len(queue') \in p + 1 .. Len(queue')
      <4>1. p # Len(queue')
        BY <3>1, <3>2
      <4> QED
        BY <3>1, <4>1
    <3> QED
      BY <1>2, <3>1, <3>2 DEF Pinged, Harmless, Positions
  <2> QED
    BY <2>2, <2>4, <2>5 DEF OrderlyInv
<1> QED
  BY <1>1, <1>3, <1>4, mqtt_close_Queue

(* A socket that is opened when no other connection is asked for. *)
LEMMA OrderlyOpened ==
  ASSUME OrderlyInv, cpu # "crashed", Moved(1, 0),
         queue[1].type # "CLOSE", \A i \in 2 .. Len(queue) : queue[i].type # "CONN",
         sock'.due = {}, sock'.inbox = {}, broker' = broker,
         sock'.peer = "BROKER" <=> state' = "MQTT_CONN", broker <=> state' = "MQTT_CONN",
         state' # "RUNNING", ~OnLine,
         "KEEPALIVE" \in timers' => "KEEPALIVE" \in timers
  PROVE  OrderlyInv'
<1>1. ~OnLine
  OBVIOUS
<1>2. Pinged'
  BY <1>1, PingedKept DEF OrderlyInv
<1>3. \A i \in Positions' : i + 1 \in 2 .. Len(queue) /\ queue'[i].type = queue[i + 1].type
  BY DEF Moved, Positions
<1>4. NoneHeld'
  BY <1>3 DEF NoneHeld
<1>5. Kept' => Kept
  BY <1>3 DEF Kept, Positions
<1>6. KeptForBroker'
  BY <1>5 DEF KeptForBroker, OrderlyInv, PhaseInv
<1>7. BrokerKnown' /\ ForBroker' /\ BrokerStays' /\ AckOnLine' /\ PingedAfterConnack'
  BY DEF BrokerKnown, ForBroker, BrokerStays, AckOnLine, AckComes, PingedAfterConnack, Bootstrap
<1> QED
  BY <1>2, <1>4, <1>6, <1>7 DEF OrderlyInv, PhaseInv


LEMMA OrderlyTask ==
  SessInv /\ LookupInv /\ PublishInv /\ OneRequest /\ OrderlyInv /\ Task => OrderlyInv'
<1> SUFFICES ASSUME SessInv, LookupInv, PublishInv, OneRequest, OrderlyInv, Task PROVE OrderlyInv'
  OBVIOUS
<1>1. /\ queue \in Seq(Message) /\ sock \in SocketState /\ open \in SUBSET Sockets
      /\ AfterClose \in SUBSET Sockets /\ BrokerByName \in BOOLEAN
      /\ {"REG", "TICKET", "BROKER"} \subseteq Peers /\ Len(queue) \in Nat
  BY FlagsAssumption, LenProperties DEF SessInv, TypeOK, AfterClose, Peers
<1>2. sock.id \in open => sock.id # NoSocket
  BY <1>1, SocketsAssumption
<1>3. ASSUME NEW t, Take(t)
      PROVE  /\ queue[1].type = t /\ Head(queue) = queue[1] /\ queue[1] \in Message
             /\ 1 \in Positions /\ cpu # "crashed" /\ Left(Rest, 1)
             /\ queue' = Rest => Moved(1, 0)
             /\ queue' = Outdate(Rest) => Moved(1, 0)
  BY <1>1, <1>3, MovedRest DEF Take, Left, Positions
<1>4. ASSUME NEW t, Take(t), t \in {"START", "CONN"}
      PROVE  \A i \in 2 .. Len(queue) : queue[i].type # "CONN"
  <2> SUFFICES ASSUME NEW i \in 2 .. Len(queue), queue[i].type = "CONN" PROVE FALSE
    OBVIOUS
  <2>1. 1 \in 1 .. Len(queue) /\ i \in 1 .. Len(queue) /\ i # 1
    BY <1>1
  <2> QED
    BY <1>3, <1>4, <2>1 DEF OneRequest
<1>5. CASE Start
  <2>1. Take("START") /\ ~broker
    BY <1>3, <1>5 DEF Start, OneRequest, Queued, Positions
  <2>2. PICK rc : mtk_socket_open("REG", TRUE, open, rc)
    BY <1>5 DEF Start
  <2>3. sock'.due = {} /\ sock'.inbox = {} /\ sock'.peer = "REG"
    BY <1>1, <2>2, OpenShape DEF Opened
  <2>4. /\ Moved(1, 0) /\ queue[1].type = "START" /\ broker' = broker /\ state' = "REG_SERVER_IP"
        /\ "KEEPALIVE" \in timers' => "KEEPALIVE" \in timers
    BY <1>3, <1>5, <2>1 DEF Start
  <2>5. ~OnLine /\ \A i \in 2 .. Len(queue) : queue[i].type # "CONN"
    BY <1>4, <2>1 DEF OnLine, OrderlyInv, PhaseInv, KeptForBroker
  <2> QED
    BY <1>3, <2>1, <2>3, <2>4, <2>5, OrderlyOpened
<1>6. CASE ReadRegInfo
  <2>1. Take("READ") /\ queue[1].id = sock.id /\ state \in Bootstrap
    BY <1>3, <1>6 DEF ReadRegInfo, Event, Bootstrap
  <2>2. sock.id # NoSocket
    BY <1>3, <2>1, SocketsAssumption DEF Message, Requests
  <2>3. PICK rc : mtk_socket_open("TICKET", TRUE, AfterClose, rc)
    BY <1>6 DEF ReadRegInfo
  <2>4. sock'.due = {} /\ sock'.inbox = {} /\ sock'.peer = "TICKET"
    BY <1>1, <2>3, OpenShape DEF Opened
  <2>5. ~broker /\ ~OnLine /\ \A i \in 2 .. Len(queue) : queue[i].type # "CONN"
    BY <1>1, <2>1, <2>2
       DEF OrderlyInv, PhaseInv, BrokerStays, NoneHeld, OnLine, KeptForBroker, Positions
  <2>6. /\ Moved(1, 0) /\ broker' = broker /\ state' = "TICK_SERVER_IP" /\ timers' = timers
    BY <1>3, <1>6, <2>1 DEF ReadRegInfo
  <2> QED
    BY <1>3, <2>1, <2>4, <2>5, <2>6, OrderlyOpened
<1>7. CASE Conn
  <2>1. Take("CONN") /\ state' = "MQTT_CONN" /\ broker' = broker
    BY <1>7 DEF Conn
  <2>2. queue[1].type = "CONN" /\ sock.id = NoSocket /\ ~OnLine
    BY <1>2, <1>3, <2>1 DEF OrderlyInv, PhaseInv, NoneHeld, OnLine
  <2>3. CASE broker
    <3>1. PICK rc : mtk_socket_open("BROKER", BrokerByName, open, rc)
      BY <1>7, <2>3 DEF Conn
    <3>2. sock'.due = {} /\ sock'.inbox = {} /\ sock'.peer = "BROKER"
      <4>1. "BROKER" \in Peers /\ open \in SUBSET Sockets
        BY <1>1
      <4>2. Opened("BROKER", open)
        BY <1>1, <3>1, <4>1, OpenShape, Zenon
      <4> QED
        BY <4>2 DEF Opened
    <3>3. queue' = Outdate(Rest) /\ timers' = timers \cup {"RETRY"}
      BY <1>7, <2>3, Zenon DEF Conn
    <3>4. Moved(1, 0) /\ ("KEEPALIVE" \in timers' => "KEEPALIVE" \in timers)
      BY <1>3, <2>1, <3>3
    <3> QED
      BY <1>3, <1>4, <2>1, <2>2, <2>3, <3>2, <3>4, OrderlyOpened
  <2>4. CASE ~broker
    <3>1. sock' = sock /\ open' = open /\ timers' = timers /\ queue' = Post(Rest, "START")
      BY <1>7, <2>4 DEF Conn, stackVars
    <3>2. Moved(1, 1) /\ Newest.type = "START"
      BY <1>1, <2>1, <3>1, MovedPost DEF Requests
    <3>3. Pinged'
      BY <1>3, <2>1, <2>2, <3>1, <3>2, PingedKept DEF OrderlyInv
    <3>4. /\ "KEEPALIVE" \notin timers /\ ~AckComes'
          /\ sock.peer # "BROKER" /\ PingedAfterConnack'
      BY <2>4, <3>1 DEF OrderlyInv, PhaseInv, KeptForBroker, Kept, AckOnLine, AckComes,
                        BrokerKnown, PingedAfterConnack
    <3>5. BrokerKnown' /\ ForBroker' /\ BrokerStays' /\ AckOnLine'
      BY <2>1, <2>2, <2>4, <3>1, <3>4 DEF BrokerKnown, ForBroker, BrokerStays, AckOnLine
    <3>6. PhaseInv'
      BY <2>1, <2>4, <3>1, <3>2, <3>4, <3>5, PhaseMoved DEF OrderlyInv
    <3> QED
      BY <3>3, <3>4, <3>6 DEF OrderlyInv
  <2> QED
    BY <2>3, <2>4
<1>8. CASE NotMine \/ Dropped \/ NotCurrent \/ NotReachable \/ ReadPackets
  <2>1. PICK t \in {"DNS", "PUBLISH", "READ", "CONNECT", "CLOSED"} : Take(t) /\ queue' = Rest
    BY <1>8 DEF NotMine, Dropped, NotCurrent, NotReachable, ReadPackets, Event
  <2>2. UNCHANGED <<stackVars, state, broker>> /\ timers' = timers
    BY <1>8 DEF NotMine, Dropped, NotCurrent, NotReachable, ReadPackets, sessionVars
  <2> QED
    BY <1>3, <2>1, <2>2, OrderlyStack
<1>9. CASE NameFound
  <2>1. Take("DNS") /\ sock.due = {} /\ sock.inbox = {}
    BY <1>9, LookupEmpty DEF NameFound, Mine
  <2>2. /\ sock'.id = sock.id /\ sock'.peer = sock.peer /\ sock'.due = {} /\ sock'.inbox = {}
        /\ queue' = Rest /\ open' = open /\ broker' = broker /\ timers' = timers
    BY <1>9, <2>1, ConnectShape DEF NameFound
  <2>3. state' = state \/ (state \in Bootstrap /\ state' \in Bootstrap)
    BY <1>9 DEF NameFound, Bootstrap
  <2>4. state \in Bootstrap => state \notin {"MQTT_CONN", "RUNNING"}
    BY DEF Bootstrap
  <2>5. state' \in Bootstrap => state' \notin {"MQTT_CONN", "RUNNING"}
    BY DEF Bootstrap
  <2>6. ~AckComes' /\ PingedAfterConnack'
    BY <2>2 DEF AckComes, PingedAfterConnack
  <2>7. Pinged'
    BY <1>3, <2>1, <2>2, <2>3, <2>4, PingedKept DEF OrderlyInv, OnLine
  <2>8. /\ BrokerKnown' /\ ForBroker' /\ BrokerStays' /\ AckOnLine'
        /\ state' = "RUNNING" \/ "KEEPALIVE" \in timers => broker
    BY <2>2, <2>3, <2>4, <2>5, <2>6
       DEF OrderlyInv, PhaseInv, BrokerKnown, ForBroker, BrokerStays, AckOnLine, KeptForBroker, Kept
  <2>9. PhaseInv'
    BY <1>3, <2>1, <2>2, <2>8, PhaseMoved DEF OrderlyInv
  <2> QED
    BY <2>6, <2>7, <2>9 DEF OrderlyInv
<1>10. CASE NameNotFound
  <2>1. /\ Take("DNS") /\ queue' = Rest /\ open' = open /\ state' = state /\ broker' = broker
        /\ "KEEPALIVE" \in timers' => "KEEPALIVE" \in timers
    BY <1>10 DEF NameNotFound, Mine
  <2>2. /\ sock'.id = sock.id /\ sock'.peer = sock.peer /\ sock'.due = sock.due
        /\ sock'.inbox = sock.inbox /\ sock'.link = sock.link
    BY <1>1, <1>10 DEF NameNotFound, SocketState
  <2>3. (AckComes' => AckComes) /\ PingedAfterConnack'
    BY <2>2 DEF AckComes, PingedAfterConnack, OrderlyInv
  <2> QED
    BY <1>3, <2>1, <2>2, <2>3, OrderlyKept
<1>11. CASE Close
  BY <1>3, <1>11, OrderlyMqttClose DEF Close
<1>12. CASE Publish
  <2>1. PICK t \in {"ALIAS", "REPORT"} : Take(t)
    BY <1>12 DEF Publish
  <2>2. PICK r \in {{"PUBACK"}, {}} :
          /\ "PUBACK" \in r => state = "RUNNING"
          /\ Send(sock, r) \/ sock' = sock
    BY <1>12 DEF Publish, publish_message, SendFails
  <2>3. /\ queue' \in {Rest, Post(Rest, "CLOSE")} /\ open' = open /\ state' = state
        /\ broker' = broker /\ ("KEEPALIVE" \in timers' => "KEEPALIVE" \in timers)
    BY <1>12 DEF Publish, publish_message
  <2> QED
    BY <1>1, <1>3, <2>1, <2>2, <2>3, OrderlySend

<1>13. CASE Keepalive
  <2>1. Take("KEEPALIVE") /\ queue[1].type = "KEEPALIVE" /\ 1 \in Positions
    BY <1>3, <1>13 DEF Keepalive
  <2>2. broker /\ Harmless(queue, OnLine, 1)
    BY <1>3, <2>1 DEF OrderlyInv, PhaseInv, KeptForBroker, Kept, Pinged
  <2>3. CanSend => OnLine
    <3>1. ASSUME CanSend, NEW j \in 2 .. Len(queue), queue[j].type = "CONN" PROVE FALSE
      BY <1>1, <1>2, <3>1 DEF CanSend, OrderlyInv, PhaseInv, NoneHeld, Positions
    <3>2. 1 .. 1 - 1 = {}
      OBVIOUS
    <3> QED
      BY <2>2, <3>1, <3>2 DEF Harmless
  <2>4. PICK r \in {{"PINGRESP"}, {}} :
          \/ Send(sock, r) /\ queue' = Rest
          \/ sock' = sock /\ queue' = Post(Rest, "CLOSE")
    BY <1>13 DEF Keepalive, MQTTkeepalive_start, SendFails
  <2>5. Send(sock, r) => OnLine /\ sock.link = "acked"
    BY <2>3, SendingInSession DEF Send, CanSend
  <2>6. open' = open /\ state' = state /\ broker' = broker
    BY <1>13 DEF Keepalive
  <2> QED
    BY <1>1, <1>3, <2>1, <2>2, <2>4, <2>5, <2>6, OrderlySend
<1>14. CASE ReadTicket
  <2>1. Take("READ") /\ queue[1].id = sock.id /\ state \in Bootstrap /\ state' = "MQTT_CONN"
    BY <1>3, <1>14 DEF ReadTicket, Event, Bootstrap
  <2>2. ~broker /\ sock.id # NoSocket
    BY <1>3, <2>1, SocketsAssumption DEF Message, Requests, OrderlyInv, PhaseInv, BrokerStays
  <2>3. sock' = Closed
    BY <1>14, <2>2 DEF ReadTicket, mtk_socket_close, HasSocket
  <2>4. Moved(1, 1) /\ Newest.type = "CONN" /\ timers' = timers
    BY <1>1, <1>14, <2>1, MovedPost DEF ReadTicket, Requests
  <2>5. ~Kept
    BY <2>2 DEF OrderlyInv, PhaseInv, KeptForBroker
  <2>6. /\ sock'.id = NoSocket /\ sock'.peer = "none" /\ ~AckComes' /\ PingedAfterConnack'
    BY <2>3 DEF Closed, AckComes, PingedAfterConnack
  <2>7. BrokerKnown' /\ ForBroker' /\ BrokerStays' /\ AckOnLine'
    BY <2>1, <2>6 DEF BrokerKnown, ForBroker, BrokerStays, AckOnLine, Bootstrap
  <2>8. PhaseInv'
    BY <2>1, <2>2, <2>4, <2>5, <2>6, <2>7, PhaseMoved DEF OrderlyInv, Kept
  <2>9. ~Kept'
    BY <2>4, <2>5 DEF Kept, Moved, Newest, Positions
  <2> QED
    BY <2>6, <2>8, <2>9 DEF OrderlyInv, Pinged, Kept
<1>15. CASE Reachable
  <2>1. Take("CONNECT") /\ queue[1].type = "CONNECT" /\ queue' = Rest
    BY <1>3, <1>15 DEF Reachable, Event
  <2>2. PICK s, r : s \in SocketState /\ Asked(s, r)
    BY <1>15, ReachableAsks
  <2>3. open' = open /\ state' = state /\ broker' = broker /\ timers' = timers
    BY <1>15 DEF Reachable
  <2> QED
    BY <1>1, <1>3, <2>1, <2>2, <2>3, OrderlySend DEF Asked
<1>16. CASE PeerGone
  <2>1. Take("CLOSED") /\ queue[1].type = "CLOSED"
    BY <1>3, <1>16 DEF PeerGone, Event
  <2>2. CASE mqtt_close(Rest, timers)
    BY <1>3, <2>1, <2>2, OrderlyMqttClose
  <2>3. CASE queue' = Rest /\ UNCHANGED <<stackVars, sessionVars>>
    BY <1>3, <2>1, <2>3, OrderlyStack DEF sessionVars
  <2> QED
    BY <1>16, <2>2, <2>3 DEF PeerGone
<1>17. ASSUME NEW p, Cycle(p)
       PROVE  sock.id \in open /\ p \in sock.inbox /\ cpu # "crashed"
  BY <1>17 DEF Cycle, Readable
<1>18. CASE CycleConnack
  <2>1. /\ Cycle("CONNACK") /\ sock' = Unread("CONNACK") /\ open' = open /\ broker' = broker
        /\ timers' = timers
    BY <1>18 DEF CycleConnack
  <2>2. /\ sock'.id = sock.id /\ sock'.peer = sock.peer /\ sock'.link = sock.link
        /\ sock'.due = sock.due /\ sock'.inbox \subseteq sock.inbox
    BY <2>1, UnreadShape
  <2>3. (AckComes' => AckComes) /\ PingedAfterConnack'
    BY <2>2 DEF AckComes, PingedAfterConnack, OrderlyInv
  <2>4. CASE state = "MQTT_CONN"
    <3>1. state' = "RUNNING" /\ Moved(0, 1) /\ Newest.type = "ALIAS"
      BY <1>1, <1>18, <2>4, MovedBehind DEF CycleConnack, Requests
    <3>2. broker
      BY <1>2, <1>17, <2>1, <2>4 DEF OrderlyInv, PhaseInv, ForBroker, BrokerKnown
    <3>3. BrokerKnown' /\ ForBroker' /\ BrokerStays' /\ AckOnLine'
      BY <2>1, <2>2, <2>4, <3>1, <3>2
         DEF OrderlyInv, PhaseInv, BrokerKnown, ForBroker, BrokerStays, AckOnLine, Bootstrap
    <3>4. PhaseInv'
      BY <2>1, <2>2, <3>1, <3>2, <3>3, PhaseMoved DEF OrderlyInv
    <3>5. Pinged'
      BY <1>17, <2>1, <2>4, <3>1, PingedKept DEF OrderlyInv, OnLine
    <3> QED
      BY <2>3, <3>4, <3>5 DEF OrderlyInv
  <2>5. CASE state # "MQTT_CONN"
    <3>1. state' = state /\ Moved(0, 0)
      BY <1>1, <1>18, <2>5, MovedBehind DEF CycleConnack
    <3> QED
      BY <1>17, <2>1, <2>2, <2>3, <3>1, OrderlyKept
  <2> QED
    BY <2>4, <2>5
<1>19. CASE CyclePuback
  <2>1. Cycle("PUBACK")
    BY <1>19 DEF CyclePuback
  <2>2. OnLine
    BY <1>17, <2>1 DEF OnLine, OrderlyInv, PhaseInv, AckOnLine, AckComes
  <2>3. PICK r \in {{"PINGRESP"}, {}} : Send(Unread("PUBACK"), r) \/ sock' = Unread("PUBACK")
    BY <1>19 DEF CyclePuback, MQTTkeepalive_start, SendFails
  <2>4. Send(Unread("PUBACK"), r) => sock.link = "acked"
    BY <2>2, SendingInSession DEF Send, CanSend
  <2>5. /\ open' = open /\ state' = state /\ broker' = broker
        /\ queue' \in {queue, Post(queue, "CLOSE")}
    BY <1>19 DEF CyclePuback, MQTTkeepalive_start
  <2>6. Unread("PUBACK").inbox \subseteq sock.inbox
    BY UnreadShape
  <2> QED
    BY <1>17, <2>1, <2>2, <2>3, <2>4, <2>5, <2>6, UnreadShape, OrderlySend DEF Left
<1>20. CASE CycleCommand
  <2>1. Cycle("CMD")
    BY <1>20 DEF CycleCommand
  <2>2. PICK r \in {{"PUBACK"}, {}} :
          /\ "PUBACK" \in r => state = "RUNNING"
          /\ Send(Unread("CMD"), r) \/ sock' = Unread("CMD")
    BY <1>20 DEF CycleCommand, publish_message, SendFails
  <2>3. /\ open' = open /\ state' = state /\ broker' = broker
        /\ queue' \in {queue, Post(queue, "CLOSE")}
        /\ "KEEPALIVE" \in timers' => "KEEPALIVE" \in timers
    BY <1>20 DEF CycleCommand, publish_message
  <2>4. Unread("CMD").inbox \subseteq sock.inbox
    BY UnreadShape
  <2> QED
    BY <1>17, <2>1, <2>2, <2>3, <2>4, UnreadShape, OrderlySend DEF Left
<1>21. CASE CycleOther
  <2>1. PICK p \in {"PINGRESP", "HTTP", "JUNK"} : Cycle(p) /\ sock' = Unread(p)
    BY <1>21 DEF CycleOther
  <2>2. /\ queue' = queue /\ open' = open /\ state' = state /\ broker' = broker /\ timers' = timers
    BY <1>21 DEF CycleOther, sessionVars
  <2>3. /\ sock'.id = sock.id /\ sock'.peer = sock.peer /\ sock'.link = sock.link
        /\ sock'.due = sock.due /\ sock'.inbox \subseteq sock.inbox
    BY <2>1, UnreadShape
  <2>4. (AckComes' => AckComes) /\ PingedAfterConnack' /\ Moved(0, 0)
    BY <1>1, <2>2, <2>3, MovedBehind DEF AckComes, PingedAfterConnack, OrderlyInv
  <2> QED
    BY <1>17, <2>1, <2>2, <2>3, <2>4, OrderlyKept
<1>22. CASE CycleEnds \/ CycleSpins
  <2>1. /\ UNCHANGED <<stackVars, state, broker>> /\ timers' = timers /\ queue' = queue
        /\ cpu # "crashed"
    BY <1>22 DEF CycleEnds, CycleSpins
  <2> QED
    BY <1>1, <2>1, MovedBehind, OrderlyStack
<1> QED
  BY <1>5, <1>6, <1>7, <1>8, <1>9, <1>10, <1>11, <1>12, <1>13, <1>14, <1>15, <1>16, <1>18,
     <1>19, <1>20, <1>21, <1>22 DEF Task


LEMMA OrderlyExpiry == SessInv /\ OrderlyInv /\ Expiry => OrderlyInv'
<1> SUFFICES ASSUME SessInv, OrderlyInv, Expiry PROVE OrderlyInv'
  OBVIOUS
<1>1. queue \in Seq(Message) /\ cpu # "crashed"
  BY DEF SessInv, TypeOK, Expiry, DemoExpires, RetryExpires, KeepaliveExpires, PubExpires,
         Reminds, Expires
<1>2. CASE DemoExpires
  <2>1. /\ state' = state /\ broker' = broker
        /\ "KEEPALIVE" \in timers' => "KEEPALIVE" \in timers
    BY <1>2 DEF DemoExpires
  <2>2. PICK n : Moved(0, n) /\ (n = 1 => Newest.type = "START")
    <3>1. \/ queue' = queue \/ queue' = Post(queue, "START")
          \/ queue' = Post(Outdate(queue), "START")
      BY <1>2 DEF DemoExpires
    <3> QED
      BY <1>1, <3>1, MovedBehind, MovedOlder DEF Requests
  <2>3. \/ UNCHANGED stackVars
        \/ sock' = Closed /\ state \in Bootstrap
    BY <1>2, CloseShape DEF DemoExpires
  <2>4. CASE UNCHANGED stackVars
    BY <1>1, <2>1, <2>2, <2>4, OrderlyStack
  <2>5. CASE sock' = Closed /\ state \in Bootstrap
    <3>1. state \notin {"MQTT_CONN", "RUNNING"} /\ ~OnLine
      BY <2>5 DEF Bootstrap, OnLine
    <3>2. /\ sock'.id = NoSocket /\ sock'.peer = "none" /\ ~AckComes' /\ PingedAfterConnack'
      BY <2>5 DEF Closed, AckComes, PingedAfterConnack
    <3>3. /\ BrokerKnown' /\ ForBroker' /\ BrokerStays' /\ AckOnLine'
          /\ "KEEPALIVE" \in timers => broker
      BY <2>1, <3>1, <3>2 DEF OrderlyInv, PhaseInv, BrokerKnown, ForBroker, BrokerStays, AckOnLine,
                              KeptForBroker, Kept
    <3>4. PhaseInv'
      BY <2>1, <2>2, <3>1, <3>2, <3>3, PhaseMoved DEF OrderlyInv
    <3>5. Pinged'
      BY <1>1, <2>1, <2>2, <3>1, PingedKept DEF OrderlyInv
    <3> QED
      BY <3>2, <3>4, <3>5 DEF OrderlyInv
  <2> QED
    BY <2>3, <2>4, <2>5
<1>3. CASE RetryExpires
  <2>1. CASE mqtt_close(queue, timers \ {"RETRY"})
    BY <2>1, OrderlyMqttClose DEF Left
  <2>2. CASE /\ timers' = timers \ {"RETRY"} /\ queue' = queue
             /\ UNCHANGED <<stackVars, state, broker>>
    BY <1>1, <2>2, MovedBehind, OrderlyStack
  <2> QED
    BY <1>3, <2>1, <2>2 DEF RetryExpires
<1>4. CASE KeepaliveExpires
  <2>1. /\ "KEEPALIVE" \in timers /\ timers' = timers \ {"KEEPALIVE"}
        /\ UNCHANGED <<stackVars, state, broker>>
    BY <1>4 DEF KeepaliveExpires, Reminds, Expires
  <2>2. Moved(0, 1) /\ Newest.type = "KEEPALIVE"
    BY <1>1, <1>4, MovedBehind DEF KeepaliveExpires, Reminds, Requests
  <2>3. sock' = sock /\ open' = open
    BY <2>1 DEF stackVars
  <2>4. /\ BrokerKnown' /\ ForBroker' /\ BrokerStays' /\ AckOnLine' /\ PingedAfterConnack'
        /\ broker /\ "KEEPALIVE" \notin timers' /\ OnLine' = OnLine
    BY <2>1, <2>3 DEF OrderlyInv, PhaseInv, BrokerKnown, ForBroker, BrokerStays, AckOnLine, AckComes,
                      PingedAfterConnack, KeptForBroker, Kept, OnLine
  <2>5. PhaseInv'
    BY <2>1, <2>2, <2>3, <2>4, PhaseMoved DEF OrderlyInv
  <2>6. ASSUME NEW p \in 1 .. Len(queue'), queue'[p].type = "KEEPALIVE"
        PROVE  Harmless(queue', OnLine', p)
    <3>1. /\ Len(queue) \in Nat /\ Len(queue') = Len(queue) + 1
          /\ \A i \in 1 .. Len(queue) : queue'[i].type = queue[i].type
      BY <2>2 DEF Moved
    <3>2. p \in 0 + 1 .. Len(queue) + 1 /\ p - 0 = p /\ (p \in Positions \/ p = Len(queue) + 1)
      BY <3>1 DEF Positions
    <3>3. Harmless(queue, OnLine, p)
      BY <1>1, <2>1, <2>6, <3>1, <3>2 DEF OrderlyInv, Pinged, Positions
    <3> QED
      BY <2>2, <2>4, <3>2, <3>3, HarmShift
  <2> QED
    BY <2>4, <2>5, <2>6 DEF OrderlyInv, Pinged, Positions
<1>5. CASE PubExpires
  <2>1. /\ UNCHANGED <<stackVars, state, broker>> /\ ("KEEPALIVE" \in timers' => "KEEPALIVE" \in timers)
    BY <1>5 DEF PubExpires, Reminds
  <2>2. Moved(0, 1) /\ Newest.type = "PUBLISH"
    BY <1>1, <1>5, MovedBehind DEF PubExpires, Reminds, Requests
  <2> QED
    BY <1>1, <2>1, <2>2, OrderlyStack
<1> QED
  BY <1>2, <1>3, <1>4, <1>5 DEF Expiry

LEMMA OrderlyWorld == SessInv /\ LookupInv /\ OrderlyInv /\ World => OrderlyInv'
<1> SUFFICES ASSUME SessInv, LookupInv, OrderlyInv, World PROVE OrderlyInv'
  OBVIOUS
<1>1. /\ queue \in Seq(Message) /\ sock \in SocketState /\ cpu # "crashed"
      /\ state' = state /\ timers' = timers /\ broker' = broker
  BY DEF SessInv, TypeOK, World, sessionVars
<1>2. sock.link \in {"connecting", "up", "acked"} => sock.id \in Sockets
  BY DEF SessInv, TypeOK, LinkOpen
<1>3. ASSUME NEW n, Moved(0, n), n = 1 => Newest.type \notin {"CONN", "KEEPALIVE"},
             sock'.id = sock.id, sock'.peer = sock.peer, open' = open,
             AckComes' => AckComes, PingedAfterConnack'
      PROVE  OrderlyInv'
  BY <1>1, <1>3, OrderlyKept
<1>4. ASSUME NEW n, Moved(0, n), n = 1 => Newest.type \notin {"CONN", "KEEPALIVE"},
             sock' = sock, open' = open
      PROVE  OrderlyInv'
  BY <1>3, <1>4 DEF AckComes, PingedAfterConnack, OrderlyInv
<1>5. ASSUME NEW mine \in BOOLEAN, NEW ok \in BOOLEAN, LookupAnswered(mine, ok)
      PROVE  OrderlyInv'
  <2>1. Moved(0, 1) /\ Newest.type = "DNS" /\ sock' = sock /\ open' = open
    BY <1>1, <1>5, MessageForms, MovedBehind DEF LookupAnswered
  <2> QED
    BY <1>4, <2>1
<1>6. CASE LookupLost
  BY <1>1, <1>4, <1>6, MovedBehind DEF LookupLost
<1>7. ASSUME NEW ok \in BOOLEAN, Connected(ok) PROVE OrderlyInv'
  <2>1. Moved(0, 1) /\ Newest.type = "CONNECT" /\ open' = open
    BY <1>1, <1>2, <1>7, MessageForms, MovedBehind DEF Connected
  <2>2. /\ sock'.id = sock.id /\ sock'.peer = sock.peer /\ sock'.due = sock.due
        /\ sock'.inbox = sock.inbox /\ sock.due = {}
    BY <1>1, <1>7 DEF Connected, SocketState, LookupInv, QuietSocket
  <2> QED
    BY <1>3, <2>1, <2>2 DEF AckComes, PingedAfterConnack
<1>8. CASE ConnectLost
  <2>1. Moved(0, 0) /\ open' = open
    BY <1>1, <1>8, MovedBehind DEF ConnectLost
  <2>2. /\ sock'.id = sock.id /\ sock'.peer = sock.peer /\ sock'.due = sock.due
        /\ sock'.inbox = sock.inbox /\ sock.due = {}
    BY <1>1, <1>8 DEF ConnectLost, SocketState, LookupInv, QuietSocket
  <2> QED
    BY <1>3, <2>1, <2>2 DEF AckComes, PingedAfterConnack
<1>9. ASSUME Linked, NEW p, NEW settled, NEW link, Arrives(p, settled, link),
             p = "PUBACK" => p \in sock.due, link \in {sock.link, "acked"}
      PROVE  OrderlyInv'
  <2>1. \E n : Moved(0, n) /\ (n = 1 => Newest.type = "READ")
    BY <1>1, <1>2, <1>9, MessageForms, MovedBehind DEF Arrives, Linked
  <2>2. /\ sock'.id = sock.id /\ sock'.peer = sock.peer /\ sock'.due \subseteq sock.due
        /\ sock'.inbox = sock.inbox \cup {p} /\ sock'.link = link /\ open' = open
    BY <1>1, <1>9 DEF Arrives, SocketState
  <2>3. (AckComes' => AckComes) /\ PingedAfterConnack'
    BY <1>9, <2>2 DEF AckComes, PingedAfterConnack, OrderlyInv
  <2> QED
    BY <1>3, <2>1, <2>2, <2>3
<1>10. CASE \E p \in Replies : PeerReplies(p)
  BY <1>9, <1>10 DEF PeerReplies
<1>11. CASE ReplyGarbled \/ BrokerCommands
  BY <1>9, <1>11 DEF ReplyGarbled, BrokerCommands, Linked
<1>12. CASE BrokerRefuses \/ ReplyLost
  <2>1. Moved(0, 0) /\ open' = open
    BY <1>1, <1>12, MovedBehind DEF BrokerRefuses, ReplyLost
  <2>2. /\ sock'.id = sock.id /\ sock'.peer = sock.peer /\ sock'.due \subseteq sock.due
        /\ sock'.inbox = sock.inbox /\ sock'.link = sock.link
    BY <1>1, <1>12 DEF BrokerRefuses, ReplyLost, SocketState
  <2> QED
    BY <1>3, <2>1, <2>2 DEF AckComes, PingedAfterConnack, OrderlyInv
<1>13. CASE PeerCloses
  <2>1. Moved(0, 1) /\ Newest.type = "CLOSED" /\ open' = open
    BY <1>1, <1>2, <1>13, MessageForms, MovedBehind DEF PeerCloses, Linked
  <2>2. /\ sock'.id = sock.id /\ sock'.peer = sock.peer /\ sock'.due = {}
        /\ sock'.inbox = sock.inbox
    BY <1>1, <1>13 DEF PeerCloses, SocketState
  <2> QED
    BY <1>3, <2>1, <2>2 DEF AckComes, PingedAfterConnack
<1>14. ASSUME NEW t \in {"START", "REPORT"}, NEW k, Posted(t, k) PROVE OrderlyInv'
  <2>1. Moved(0, 1) /\ Newest.type = t /\ sock' = sock /\ open' = open
    BY <1>1, <1>14, MovedBehind DEF Posted, Post, stackVars, Requests
  <2> QED
    BY <1>4, <2>1
<1> QED
  BY <1>5, <1>6, <1>7, <1>8, <1>10, <1>11, <1>12, <1>13, <1>14 DEF World, Outside

LEMMA OrderlyStep ==
  SessInv /\ LookupInv /\ PublishInv /\ OneRequest /\ OrderlyInv /\ [Next]_vars => OrderlyInv'
<1> SUFFICES ASSUME SessInv, LookupInv, PublishInv, OneRequest, OrderlyInv, [Next]_vars
             PROVE  OrderlyInv'
  OBVIOUS
<1>1. CASE UNCHANGED vars
  BY <1>1 DEF vars, OrderlyInv, PhaseInv, NoneHeld, BrokerKnown, ForBroker, BrokerStays,
              KeptForBroker, Kept, AckOnLine, AckComes, Pinged, OnLine, PingedAfterConnack, Positions
<1>2. CASE Reboot
  <2>1. /\ sock' = Closed /\ queue' = <<Msg("START")>> /\ state' = "REG_SERVER_IP"
        /\ broker' = FALSE /\ timers' = {}
    BY <1>2 DEF Reboot, Boot
  <2>2. \A i \in 1 .. Len(queue') : queue'[i].type = "START"
    BY <2>1 DEF Msg
  <2> QED
    BY <2>1, <2>2 DEF OrderlyInv, PhaseInv, NoneHeld, BrokerKnown, ForBroker, BrokerStays,
         KeptForBroker, Kept, AckOnLine, AckComes, Pinged, PingedAfterConnack, Positions, Closed
<1> QED
  BY <1>1, <1>2, OrderlyTask, OrderlyExpiry, OrderlyWorld DEF Next

(* As long as connections are asked for one at a time, the broker hears nothing of a client
   before it has answered its CONNECT: a reminder of the keepalive that was posted for one
   connection is never taken for the next one (mqtt_close, mqtt_keepalive_timeout_cb and
   MQTTkeepalive_start of MQTTMTK.c). *)
THEOREM ConnectFirst == Spec => ConnectComesFirst
<1>1. Init => OrderlyInv
  <2> SUFFICES ASSUME Init PROVE OrderlyInv
    OBVIOUS
  <2>1. /\ sock = Closed /\ queue = <<Msg("START")>> /\ state = "REG_SERVER_IP"
        /\ broker = FALSE /\ timers = {}
    BY DEF Init
  <2>2. \A i \in 1 .. Len(queue) : queue[i].type = "START"
    BY <2>1 DEF Msg
  <2> QED
    BY <2>1, <2>2 DEF OrderlyInv, PhaseInv, NoneHeld, BrokerKnown, ForBroker, BrokerStays,
         KeptForBroker, Kept, AckOnLine, AckComes, Pinged, PingedAfterConnack, Positions, Closed
<1>2. OrderlyInv /\ PublishInv =>
        (sock.due \cap {"PUBACK", "PINGRESP"} # {} => sock.link = "acked")
  BY DEF OrderlyInv, PingedAfterConnack, PublishInv, PublishedAfterConnack
<1> QED
  BY <1>1, <1>2, OrderlyStep, SessionInvariant, LookupInvariant, PublishInvariant, PTL
     DEF Spec, ConnectComesFirst
===============================================================================
