---------------------------- MODULE ThreedoSocket ----------------------------
(***************************************************************************)
(* The socket of the file transfer (threedo_socket.c) and what it stands   *)
(* on: the asynchronous TCP stack, the resolver and the upload server,     *)
(* which report to the mailbox of MOD_THREEDO.                             *)
(*                                                                         *)
(* The stack and the server are external.  Whatever goes wrong outside is  *)
(* an upset: a run chooses the kinds and how many may happen.              *)
(***************************************************************************)
EXTENDS Naturals, Sequences, FiniteSets

CONSTANTS
  Sockets,     \* the ids soc_create hands out, and hands out again
  NoSocket,    \* THREEDO_INVALID_SOCID
  Files,       \* the recordings
  ByName,      \* the upload domain is a name and not an address
  Chunks,      \* how many pieces a file is sent in
  DueMax,      \* bound: how many answers the server may be behind with
  QueueLen,    \* bound: messages the outside may pile up in the mailbox
  Upsets,      \* the kinds of upset of this run, a subset of UpsetKinds
  MaxUpsets    \* bound: how many upsets may happen

(***************************************************************************)
(* "create"  soc_create fails        "option"  soc_setsockopt fails        *)
(* "dns"     a lookup fails          "cached"  it is answered on the spot  *)
(* "connect" a connect fails         "instant" it succeeds on the spot     *)
(* "send"    soc_send fails          "block"   it would block              *)
(* "partial" it takes a part of the head or the tail                       *)
(* "lost"    a lookup, a connect, an answer or SOC_WRITE never comes       *)
(* "refuse"  the server answers with an error                              *)
(* "peer"    the server closes       "stop"    the user dials *83*00#      *)
(* "file"    the file cannot be opened or is shorter than requested        *)
(* "age"     the head of the queue exceeds its total time                  *)
(***************************************************************************)
UpsetKinds == {"create", "option", "dns", "cached", "connect", "instant", "send", "block",
               "partial", "lost", "refuse", "peer", "stop", "file", "age"}

ASSUME SocketsAssumption == NoSocket \notin Sockets /\ IsFiniteSet(Sockets) /\ Sockets # {}
ASSUME BoundsAssumption ==
  /\ Chunks \in Nat \ {0} /\ DueMax \in Nat \ {0} /\ QueueLen \in Nat /\ MaxUpsets \in Nat
  /\ ByName \in BOOLEAN
  /\ Upsets \subseteq UpsetKinds

VARIABLES
  sock,     \* THRD_SOC_MNGR, with what the stack and the server hold of it
  lookups,  \* lookups to be answered: TRUE the one sock waits for, FALSE older ones
  queue,    \* the mailbox of MOD_THREEDO
  upsets    \* how many upsets there have been

(***************************************************************************)
(* error: what the last call returned, of which the code tells apart 0,    *)
(* more, SOC_WOULDBLOCK and other errors.  link: the TCP connection,       *)
(* "closed" when the code keeps the id of a socket it has closed.  full:   *)
(* the stack owes SOC_WRITE.  wire: how many pieces of a request, its head *)
(* and tail included, the server has, or Torn when it has lost the thread. *)
(* due, inbox: answers to come and unread.                                 *)
(***************************************************************************)
Torn == Chunks + 2

SocketState ==
  [id : Sockets \cup {NoSocket}, dns : {"IGNORE", "START", "BLOCKED", "FAILED"},
   error : {"zero", "more", "block", "bad"},
   link : {"none", "connecting", "up", "dead", "closed"}, full : BOOLEAN,
   wire : 0 .. Torn, due : 0 .. DueMax, inbox : Seq({"OK", "ERR"})]

Zeroed == [id |-> NoSocket, dns |-> "IGNORE", error |-> "zero", link |-> "none", full |-> FALSE,
           wire |-> 0, due |-> 0, inbox |-> <<>>]

Message ==
  [type : {"REQ"}, file : Files] \cup [type : {"STOP", "BLOCK", "HEART"}]
  \cup [type : {"READ", "WRITE"}, id : Sockets]
  \cup [type : {"CONNECT", "CLOSE"}, id : Sockets, ok : BOOLEAN]
  \cup [type : {"DNS"}, mine : BOOLEAN, ok : BOOLEAN]

Upset(kind) == kind \in Upsets /\ upsets < MaxUpsets /\ upsets' = upsets + 1
Calm == UNCHANGED upsets

-------------------------------------------------------------------------------
(* threedo_socket.c *)

(* A new request id, and clearing the structure, make a lookup under way an older
   one: soc_abort_dns_query is given the address of the structure for an id. *)
Older(ls) == IF ls = {} THEN {} ELSE {FALSE}
Outdate(q) == [i \in DOMAIN q |-> IF q[i].type = "DNS" THEN [q[i] EXCEPT !.mine = FALSE] ELSE q[i]]

(* soc_connect on s.  There may be no such socket. *)
threedo_socket_connect(s) ==
  \/ /\ s.id \in Sockets /\ s.link = "none"
     /\ sock' = [s EXCEPT !.error = "block", !.link = "connecting"]
     /\ Calm
  \/ /\ s.id \in Sockets /\ s.link = "none"
     /\ sock' = [s EXCEPT !.error = "zero", !.link = "up"]
     /\ Upset("instant")
  \/ /\ sock' = [s EXCEPT !.error = "bad"]
     /\ IF s.id \in Sockets /\ s.link = "none" THEN Upset("connect") ELSE Calm

(* Only called without a socket.  q is the mailbox it is called with. *)
threedo_socket_open(q) ==
  LET fresh == [Zeroed EXCEPT !.dns = IF ByName THEN "START" ELSE "IGNORE"]
  IN /\ queue' = Outdate(q)
     /\ \/ /\ Upset("create")
           /\ sock' = fresh
           /\ lookups' = Older(lookups)
        \/ \E id \in Sockets :
             \/ /\ Upset("option")
                /\ sock' = [fresh EXCEPT !.id = id, !.link = "closed"]
                /\ lookups' = Older(lookups)
             \/ /\ ByName
                /\ Calm
                /\ sock' = [fresh EXCEPT !.id = id, !.dns = "BLOCKED", !.error = "block"]
                /\ lookups' = Older(lookups) \cup {TRUE}
             \/ /\ ByName
                /\ Upset("dns")
                /\ sock' = [fresh EXCEPT !.id = id, !.dns = "IGNORE", !.error = "bad"]
                /\ lookups' = Older(lookups)
             \/ /\ ByName
                /\ Upset("cached")
                /\ sock' = [fresh EXCEPT !.id = id, !.dns = "IGNORE", !.error = "block",
                                         !.link = "connecting"]
                /\ lookups' = Older(lookups)
             \/ /\ ~ByName
                /\ threedo_socket_connect([fresh EXCEPT !.id = id])
                /\ lookups' = Older(lookups)

HasSocket == sock.id # NoSocket

(* Closing s; without a socket it does nothing. *)
threedo_socket_close(s, q) ==
  /\ sock' = IF s.id # NoSocket THEN Zeroed ELSE s
  /\ lookups' = IF s.id # NoSocket THEN Older(lookups) ELSE lookups
  /\ queue' = IF s.id # NoSocket THEN Outdate(q) ELSE q

(* What the server makes of a piece of a request. *)
OnWire(w, piece) ==
  CASE piece = "HEAD" /\ w = 0             -> 1
    [] piece = "DATA" /\ w \in 1 .. Chunks -> w + 1
    [] piece = "TAIL" /\ w = Chunks + 1    -> 0
    [] OTHER                               -> Torn

Answers(piece) == IF piece = "TAIL" /\ sock.wire = Chunks + 1 /\ sock.due < DueMax THEN 1 ELSE 0

(* While a name is being looked up it returns without touching the error. *)
threedo_socket_write(piece) ==
  IF sock.dns # "IGNORE" THEN sock' = sock /\ Calm
  ELSE \/ /\ sock.link = "up" /\ ~sock.full
          /\ sock' = [sock EXCEPT !.error = "more", !.wire = OnWire(@, piece), !.due = @ + Answers(piece)]
          /\ Calm
       \/ /\ sock.link = "up" /\ ~sock.full /\ piece # "DATA"
          /\ sock' = [sock EXCEPT !.error = "more", !.wire = Torn]
          /\ Upset("partial")
       \/ /\ sock.link = "up"
          /\ sock' = [sock EXCEPT !.error = "block", !.full = TRUE]
          /\ IF sock.full THEN Calm ELSE Upset("block")
       \/ /\ sock' = [sock EXCEPT !.error = "bad"]
          /\ IF sock.link = "up" THEN Upset("send") ELSE Calm

(* The socket after reading, and whether the first answer read is "200". *)
threedo_socket_read ==
  LET Error(e) == [s |-> [sock EXCEPT !.error = e], ok |-> FALSE]
  IN IF sock.dns # "IGNORE" THEN {[s |-> sock, ok |-> FALSE]}
     ELSE IF sock.inbox # <<>>
       THEN {[s |-> [sock EXCEPT !.error = "more", !.inbox = SubSeq(@, k + 1, Len(@))],
              ok |-> Head(sock.inbox) = "OK"] : k \in 1 .. Len(sock.inbox)}
     ELSE IF sock.link = "up" THEN {Error("block")}
     ELSE IF sock.link = "dead" THEN {Error("zero"), Error("bad")}
     ELSE {Error("bad")}

-------------------------------------------------------------------------------
(* The stack, the resolver, the server and the rest of the phone. *)

Room == Len(queue) < QueueLen
Posted(m) == Room /\ queue' = Append(queue, m)

LookupAnswered(mine, ok) ==
  /\ mine \in lookups
  /\ lookups' = lookups \ {mine}
  /\ Posted([type |-> "DNS", mine |-> mine, ok |-> ok])
  /\ IF ok THEN Calm ELSE Upset("dns")
  /\ UNCHANGED sock

LookupLost ==
  /\ lookups # {}
  /\ lookups' = {}
  /\ Upset("lost")
  /\ UNCHANGED <<sock, queue>>

Connected(ok) ==
  /\ sock.link = "connecting"
  /\ sock' = [sock EXCEPT !.link = IF ok THEN "up" ELSE "dead"]
  /\ Posted([type |-> "CONNECT", id |-> sock.id, ok |-> ok])
  /\ IF ok THEN Calm ELSE Upset("connect")
  /\ UNCHANGED lookups

ConnectLost ==
  /\ sock.link = "connecting"
  /\ sock' = [sock EXCEPT !.link = "dead"]
  /\ Upset("lost")
  /\ UNCHANGED <<lookups, queue>>

WriteReady ==
  /\ sock.link = "up" /\ sock.full
  /\ sock' = [sock EXCEPT !.full = FALSE]
  /\ Posted([type |-> "WRITE", id |-> sock.id])
  /\ Calm
  /\ UNCHANGED lookups

WriteLost ==
  /\ sock.link = "up" /\ sock.full
  /\ sock' = [sock EXCEPT !.full = FALSE]
  /\ Upset("lost")
  /\ UNCHANGED <<lookups, queue>>

(* An answer arrives; the task is told when there was nothing to read. *)
Arrives(answer, settled, wire) ==
  /\ sock.link = "up"
  /\ Len(sock.inbox) < DueMax + MaxUpsets
  /\ sock' = [sock EXCEPT !.inbox = Append(@, answer), !.due = @ - settled, !.wire = wire]
  /\ IF sock.inbox = <<>> THEN Posted([type |-> "READ", id |-> sock.id]) ELSE UNCHANGED queue
  /\ UNCHANGED lookups

ServerAnswers == sock.due > 0 /\ Arrives("OK", 1, sock.wire) /\ Calm

(* It may refuse a request it has only in part, and ignores the rest. *)
ServerRefuses ==
  /\ \/ sock.due > 0 /\ Arrives("ERR", 1, sock.wire)
     \/ sock.wire # 0 /\ Arrives("ERR", 0, Torn)
  /\ Upset("refuse")

AnswerLost ==
  /\ sock.due > 0
  /\ sock' = [sock EXCEPT !.due = @ - 1]
  /\ Upset("lost")
  /\ UNCHANGED <<lookups, queue>>

(* reset: the notification says SOC_CONNRESET. *)
ServerCloses(reset) ==
  /\ sock.link = "up"
  /\ sock' = [sock EXCEPT !.link = "dead", !.due = 0, !.full = FALSE]
  /\ Posted([type |-> "CLOSE", id |-> sock.id, ok |-> reset])
  /\ Upset("peer")
  /\ UNCHANGED lookups

(* The secure code *83*00# *)
Stop ==
  /\ Posted([type |-> "STOP"])
  /\ Upset("stop")
  /\ UNCHANGED <<sock, lookups>>

Outside ==
  \/ \E mine, ok \in BOOLEAN : LookupAnswered(mine, ok)
  \/ \E ok \in BOOLEAN : Connected(ok) \/ ServerCloses(ok)
  \/ LookupLost \/ ConnectLost \/ WriteReady \/ WriteLost
  \/ ServerAnswers \/ ServerRefuses \/ AnswerLost
  \/ Stop

==============================================================================
