-------------------------- MODULE FileTransferProofs --------------------------
(***************************************************************************)
(* What holds of FileTransfer for every set of files and sockets, every    *)
(* size of the queue, limit of the retries, kind and number of upsets;     *)
(* and what holds up to the second upset, whichever the first one was.     *)
(***************************************************************************)
EXTENDS FileTransfer, SequenceTheorems, TLAPS

(* A connection that is under way or up has the id of a socket. *)
Attached == sock.link \in {"connecting", "up"} => sock.id \in Sockets

-------------------------------------------------------------------------------
(* The messages of the mailbox. *)

LEMMA MessageForms ==
  /\ \A f \in Files : [type |-> "REQ", file |-> f] \in Message
  /\ \A t \in {"STOP", "BLOCK", "HEART"} : [type |-> t] \in Message
  /\ \A t \in {"READ", "WRITE"}, id \in Sockets : [type |-> t, id |-> id] \in Message
  /\ \A t \in {"CONNECT", "CLOSE"}, id \in Sockets, ok \in BOOLEAN :
        [type |-> t, id |-> id, ok |-> ok] \in Message
  /\ \A mine, ok \in BOOLEAN : [type |-> "DNS", mine |-> mine, ok |-> ok] \in Message
BY DEF Message

LEMMA DnsForm ==
  ASSUME NEW m \in Message, m.type = "DNS"
  PROVE  m \in [type : {"DNS"}, mine : BOOLEAN, ok : BOOLEAN]
BY DEF Message

LEMMA OlderAnswer ==
  ASSUME NEW m \in Message, m.type = "DNS"
  PROVE  /\ [m EXCEPT !.mine = FALSE] \in Message
         /\ [m EXCEPT !.mine = FALSE].type = "DNS"
BY DnsForm DEF Message

(* The mailbox p has the messages of q, of which answers may have become older. *)
SameMail(q, p) ==
  /\ p \in Seq(Message) /\ Len(p) = Len(q)
  /\ \A i \in 1 .. Len(q) : /\ p[i].type = q[i].type
                            /\ q[i].type # "DNS" => p[i] = q[i]

(* A new request id changes answers only, and keeps the order of the mailbox. *)
LEMMA OutdateKeeps ==
  ASSUME NEW q \in Seq(Message)
  PROVE  SameMail(q, Outdate(q)) /\ SameMail(q, q)
<1>1. Len(q) \in Nat /\ DOMAIN q = 1 .. Len(q) /\ \A i \in 1 .. Len(q) : q[i] \in Message
  BY LenProperties, ElementOfSeq
<1> DEFINE e(i) == IF q[i].type = "DNS" THEN [q[i] EXCEPT !.mine = FALSE] ELSE q[i]
           f == [i \in 1 .. Len(q) |-> e(i)]
<1>2. \A i \in 1 .. Len(q) : /\ e(i) \in Message
                             /\ e(i).type = q[i].type
                             /\ q[i].type # "DNS" => e(i) = q[i]
  BY <1>1, OlderAnswer
<1>3. Outdate(q) = f
  BY <1>1 DEF Outdate
<1>4. f \in [1 .. Len(q) -> Message] /\ \A i \in 1 .. Len(q) : f[i] = e(i)
  <2> HIDE DEF e
  <2> QED
    BY <1>2
<1>5. f \in Seq(Message) /\ Len(f) = Len(q)
  <2> HIDE DEF f
  <2> QED
    BY <1>1, <1>4
<1> HIDE DEF e, f
<1> QED
  BY <1>2, <1>3, <1>4, <1>5 DEF SameMail

LEMMA RestKeeps ==
  ASSUME queue \in Seq(Message), queue # <<>>
  PROVE  /\ Rest \in Seq(Message)
         /\ Len(queue) \in Nat \ {0} /\ Len(Rest) = Len(queue) - 1
         /\ \A i \in 1 .. Len(Rest) : Rest[i] = queue[i + 1]
         /\ Head(queue) = queue[1] /\ Head(queue) \in Message
BY HeadTailProperties, EmptySeq, LenProperties DEF Rest

-------------------------------------------------------------------------------
(* The socket: what a procedure of threedo_socket.c leaves in the structure. *)

SockTyped == sock' \in SocketState /\ lookups' \subseteq BOOLEAN /\ Attached'

LEMMA UpsetTyped ==
  ASSUME TypeOK, Calm \/ \E k \in UpsetKinds : Upset(k)
  PROVE  upsets' \in 0 .. MaxUpsets
BY BoundsAssumption DEF Calm, Upset, TypeOK

LEMMA OlderTyped == \A ls : Older(ls) \subseteq BOOLEAN
BY DEF Older

LEMMA Bounds ==
  /\ Chunks \in Nat \ {0} /\ Torn \in Nat /\ Torn = Chunks + 2
  /\ DueMax \in Nat \ {0} /\ RetryMax \in Nat \ {0} /\ TaskMax \in Nat \ {0}
BY BoundsAssumption, RetryMaxAssumption, TaskMaxAssumption DEF Torn

LEMMA ZeroedTyped ==
  /\ Zeroed \in SocketState /\ Zeroed.link = "none" /\ Zeroed.id = NoSocket
  /\ Zeroed.error = "zero" /\ Zeroed.dns = "IGNORE"
<1>1. <<>> \in Seq({"OK", "ERR"})
  BY EmptySeq
<1> QED
  BY <1>1, Bounds DEF Zeroed, SocketState

(* A socket in error is one that the code knows by its id. *)
InError(s) == s.id # NoSocket /\ s.error = "bad"

LEMMA CloseTyped ==
  ASSUME TypeOK, Attached, NEW s \in SocketState, s.id = sock.id, s.link = sock.link,
         NEW q \in Seq(Message), threedo_socket_close(s, q)
  PROVE  SockTyped /\ SameMail(q, queue') /\ ~InError(sock')
BY ZeroedTyped, OlderTyped, OutdateKeeps
   DEF threedo_socket_close, SockTyped, TypeOK, Attached, InError

LEMMA ConnectTyped ==
  ASSUME NEW s \in SocketState, s.link \in {"connecting", "up"} => s.id \in Sockets,
         threedo_socket_connect(s)
  PROVE  /\ sock' \in SocketState /\ Attached' /\ sock'.id = s.id /\ sock'.dns = s.dns
         /\ sock'.error \in {"zero", "block", "bad"}
         /\ Calm \/ \E k \in UpsetKinds : Upset(k)
<1>1. Calm \/ \E k \in UpsetKinds : Upset(k)
  BY DEF threedo_socket_connect, UpsetKinds
<1>2. CASE s.id \in Sockets /\ sock' = [s EXCEPT !.error = "block", !.link = "connecting"]
  BY <1>1, <1>2 DEF SocketState, Attached
<1>3. CASE s.id \in Sockets /\ sock' = [s EXCEPT !.error = "zero", !.link = "up"]
  BY <1>1, <1>3 DEF SocketState, Attached
<1>4. CASE sock' = [s EXCEPT !.error = "bad"]
  BY <1>1, <1>4 DEF SocketState, Attached
<1> QED
  BY <1>2, <1>3, <1>4, Zenon DEF threedo_socket_connect

(* A socket as threedo_socket_open leaves it: in error only with its name resolved. *)
LEMMA OpenTyped ==
  ASSUME TypeOK, NEW q \in Seq(Message), threedo_socket_open(q)
  PROVE  /\ SockTyped /\ SameMail(q, queue') /\ upsets' \in 0 .. MaxUpsets
         /\ sock'.dns # "IGNORE" => sock'.error # "bad"
<1> DEFINE fresh == [Zeroed EXCEPT !.dns = IF ByName THEN "START" ELSE "IGNORE"]
<1>1. /\ fresh \in SocketState /\ fresh.link = "none" /\ fresh.error = "zero"
      /\ ~ByName => fresh.dns = "IGNORE"
  BY ZeroedTyped DEF SocketState
<1> HIDE DEF fresh
<1>2. SameMail(q, queue')
  BY OutdateKeeps, Zenon DEF threedo_socket_open
<1>3. lookups' \subseteq BOOLEAN
  BY OlderTyped, Zenon DEF threedo_socket_open
<1>4. CASE sock' = fresh /\ Upset("create")
  BY <1>1, <1>2, <1>3, <1>4, UpsetTyped DEF SockTyped, Attached, UpsetKinds
<1>5. ASSUME NEW id \in Sockets,
             \/ sock' = [fresh EXCEPT !.id = id, !.link = "closed"] /\ Upset("option")
             \/ sock' = [fresh EXCEPT !.id = id, !.dns = "BLOCKED", !.error = "block"] /\ Calm
             \/ /\ sock' = [fresh EXCEPT !.id = id, !.dns = "IGNORE", !.error = "bad"]
                /\ Upset("dns")
             \/ /\ sock' = [fresh EXCEPT !.id = id, !.dns = "IGNORE", !.error = "block",
                                         !.link = "connecting"]
                /\ Upset("cached")
      PROVE  /\ SockTyped /\ upsets' \in 0 .. MaxUpsets
             /\ sock'.dns # "IGNORE" => sock'.error # "bad"
  <2>1. Calm \/ \E k \in UpsetKinds : Upset(k)
    BY <1>5 DEF UpsetKinds
  <2>2. sock' \in SocketState /\ Attached' /\ (sock'.dns # "IGNORE" => sock'.error # "bad")
    BY <1>1, <1>5 DEF SocketState, Attached
  <2> QED
    BY <1>3, <2>1, <2>2, UpsetTyped DEF SockTyped
<1>6. ASSUME NEW id \in Sockets, ~ByName, threedo_socket_connect([fresh EXCEPT !.id = id])
      PROVE  /\ SockTyped /\ upsets' \in 0 .. MaxUpsets
             /\ sock'.dns # "IGNORE" => sock'.error # "bad"
  <2> DEFINE s == [fresh EXCEPT !.id = id]
  <2>1. s \in SocketState /\ s.link = "none" /\ s.dns = "IGNORE"
    BY <1>1, <1>6 DEF SocketState
  <2> HIDE DEF s
  <2>2. threedo_socket_connect(s)
    BY <1>6 DEF s
  <2> QED
    BY <1>3, <2>1, <2>2, ConnectTyped, UpsetTyped DEF SockTyped
<1> QED
  BY <1>2, <1>4, <1>5, <1>6, Zenon DEF threedo_socket_open, fresh

LEMMA WriteTyped ==
  ASSUME TypeOK, Attached, NEW piece, threedo_socket_write(piece)
  PROVE  /\ sock' \in SocketState /\ Attached' /\ upsets' \in 0 .. MaxUpsets
         /\ sock'.id = sock.id /\ sock'.dns = sock.dns
         /\ sock' = sock \/ sock'.error \in {"more", "block", "bad"}
<1>1. sock \in SocketState
  BY DEF TypeOK
<1>2. OnWire(sock.wire, piece) \in 0 .. Torn /\ Torn \in 0 .. Torn
  BY <1>1, Bounds DEF OnWire, SocketState
<1>3. sock.due + Answers(piece) \in 0 .. DueMax
  BY <1>1, Bounds DEF Answers, SocketState
<1>4. Calm \/ \E k \in UpsetKinds : Upset(k)
  BY DEF threedo_socket_write, UpsetKinds
<1>5. CASE sock' = [sock EXCEPT !.error = "more", !.wire = OnWire(@, piece),
                                !.due = @ + Answers(piece)]
  BY <1>1, <1>2, <1>3, <1>4, <1>5, UpsetTyped DEF SocketState, Attached
<1>6. CASE \/ sock' = sock
           \/ sock' = [sock EXCEPT !.error = "more", !.wire = Torn]
           \/ sock' = [sock EXCEPT !.error = "block", !.full = TRUE]
           \/ sock' = [sock EXCEPT !.error = "bad"]
  BY <1>1, <1>2, <1>4, <1>6, UpsetTyped DEF SocketState, Attached
<1> QED
  BY <1>5, <1>6 DEF threedo_socket_write

LEMMA ReadTyped ==
  ASSUME TypeOK, NEW r \in threedo_socket_read
  PROVE  /\ r.s \in SocketState /\ r.s.id = sock.id /\ r.s.link = sock.link
         /\ r.s = sock \/ r.s.error \in {"more", "block", "zero", "bad"}
<1>1. sock \in SocketState
  BY DEF TypeOK
<1>2. \A e \in {"zero", "more", "block", "bad"} :
        /\ [sock EXCEPT !.error = e] \in SocketState
        /\ [sock EXCEPT !.error = e].id = sock.id
        /\ [sock EXCEPT !.error = e].link = sock.link
        /\ [sock EXCEPT !.error = e].error = e
  BY <1>1 DEF SocketState
<1>3. CASE r.s = sock \/ \E e \in {"zero", "block", "bad"} : r.s = [sock EXCEPT !.error = e]
  BY <1>1, <1>2, <1>3
<1>4. ASSUME NEW k \in 1 .. Len(sock.inbox),
             r.s = [sock EXCEPT !.error = "more", !.inbox = SubSeq(@, k + 1, Len(@))]
      PROVE  /\ r.s \in SocketState /\ r.s.id = sock.id /\ r.s.link = sock.link
             /\ r.s = sock \/ r.s.error \in {"more", "block", "zero", "bad"}
  <2>1. SubSeq(sock.inbox, k + 1, Len(sock.inbox)) \in Seq({"OK", "ERR"})
    BY <1>1, LenProperties DEF SocketState
  <2> QED
    BY <1>1, <1>4, <2>1 DEF SocketState
<1>5. CASE sock.dns = "IGNORE" /\ sock.inbox # <<>>
  <2>1. PICK k \in 1 .. Len(sock.inbox) :
          r = [s |-> [sock EXCEPT !.error = "more", !.inbox = SubSeq(@, k + 1, Len(@))],
               ok |-> Head(sock.inbox) = "OK"]
    BY <1>5, Zenon DEF threedo_socket_read
  <2>2. r.s = [sock EXCEPT !.error = "more", !.inbox = SubSeq(@, k + 1, Len(@))]
    BY <2>1, Zenon
  <2> QED
    BY <1>4, <2>2
<1>6. CASE sock.dns # "IGNORE"
  BY <1>3, <1>6 DEF threedo_socket_read
<1>7. CASE sock.dns = "IGNORE" /\ sock.inbox = <<>>
  BY <1>3, <1>7 DEF threedo_socket_read
<1> QED
  BY <1>5, <1>6, <1>7

-------------------------------------------------------------------------------
(* The list of nodes and the forms in which the code changes it. *)

(* A node that has not begun. *)
Unstarted(t) == t.state = "WAIT_START" /\ t.got = 0 /\ ~t.open

(* A handle that is open belongs to a file of which there is something left to send, and
   the tail is under way when nothing is left. *)
InStep(t) == (t.open => t.got < Chunks) /\ (t.state = "UPLOAD_TAIL" => t.got = Chunks)

ListOK ==
  /\ tasks \in Seq(threedo_tt_node) /\ Len(tasks) <= TaskMax
  /\ OneAtATime
  /\ \A i \in 1 .. Len(tasks) : InStep(tasks[i])

(* A task all of whose request was handed to the stack. *)
Complete(t) == t.state \in {"FD_TRANS_EOF", "TRANS_FINISH"} /\ IsUpload(t)

HeadChanged ==
  /\ tasks # <<>>
  /\ \E t \in threedo_tt_node :
       /\ t.file = Task1.file /\ InStep(t) /\ tasks' = WithHead(t)
       /\ Complete(t) => Complete(Task1) \/ t.file \in taken'
Dropped == tasks # <<>> /\ tasks' = Tail(tasks)
Requeued ==
  /\ tasks # <<>>
  /\ \E t \in threedo_tt_node :
       t.file = Task1.file /\ Unstarted(t) /\ tasks' = Append(Tail(tasks), t)
Grown ==
  /\ Len(tasks) < TaskMax
  /\ \E f \in Files \cup {Beat} : tasks' = Append(tasks, NewNode(f))

LEMMA NewNodeForm ==
  \A f \in Files \cup {Beat} : /\ NewNode(f) \in threedo_tt_node /\ Unstarted(NewNode(f))
                               /\ NewNode(f).file = f
BY Bounds DEF NewNode, threedo_tt_node, Unstarted, States

LEMMA HeadForm ==
  ASSUME ListOK, tasks # <<>>
  PROVE  /\ Len(tasks) \in Nat \ {0} /\ Task1 \in threedo_tt_node /\ InStep(Task1)
         /\ \A t \in threedo_tt_node :
              /\ WithHead(t) \in Seq(threedo_tt_node) /\ Len(WithHead(t)) = Len(tasks)
              /\ WithHead(t)[1] = t
              /\ \A i \in 2 .. Len(tasks) : WithHead(t)[i] = tasks[i]
<1>1. Len(tasks) \in Nat \ {0}
  BY LenProperties, EmptySeq DEF ListOK
<1>2. 1 \in 1 .. Len(tasks)
  BY <1>1
<1>3. Task1 \in threedo_tt_node /\ InStep(Task1)
  BY <1>2, ElementOfSeq DEF ListOK, Task1
<1>4. ASSUME NEW t \in threedo_tt_node
      PROVE  /\ WithHead(t) \in Seq(threedo_tt_node) /\ Len(WithHead(t)) = Len(tasks)
             /\ WithHead(t)[1] = t
             /\ \A i \in 2 .. Len(tasks) : WithHead(t)[i] = tasks[i]
  BY <1>2, ExceptSeq DEF ListOK, WithHead
<1> QED
  BY <1>1, <1>3, <1>4

LEMMA TailForm ==
  ASSUME ListOK, tasks # <<>>
  PROVE  /\ Tail(tasks) \in Seq(threedo_tt_node) /\ Len(Tail(tasks)) = Len(tasks) - 1
         /\ \A i \in 1 .. Len(Tail(tasks)) : /\ Tail(tasks)[i] = tasks[i + 1]
                                             /\ Unstarted(Tail(tasks)[i])
         /\ Tail(tasks) = <<>> <=> Len(tasks) = 1
<1>1. /\ Len(tasks) \in Nat \ {0} /\ Tail(tasks) \in Seq(threedo_tt_node)
      /\ Len(Tail(tasks)) = Len(tasks) - 1
      /\ \A i \in 1 .. Len(Tail(tasks)) : Tail(tasks)[i] = tasks[i + 1]
  BY HeadTailProperties, LenProperties, EmptySeq DEF ListOK
<1>2. \A i \in 1 .. Len(Tail(tasks)) : Unstarted(tasks[i + 1])
  BY <1>1 DEF ListOK, OneAtATime, Unstarted
<1>3. Tail(tasks) = <<>> <=> Len(tasks) = 1
  <2>1. Tail(tasks) = <<>> <=> Len(Tail(tasks)) = 0
    BY <1>1, EmptySeq, Zenon
  <2>2. \A n \in Nat \ {0} : n - 1 = 0 <=> n = 1
    OBVIOUS
  <2>3. Len(Tail(tasks)) = 0 <=> Len(tasks) = 1
    BY <1>1, <2>2, Zenon
  <2> QED
    BY <2>1, <2>3, Zenon
<1> QED
  BY <1>1, <1>2, <1>3

LEMMA AgainForm ==
  ASSUME ListOK, tasks # <<>>, NEW t \in threedo_tt_node, Unstarted(t)
  PROVE  /\ Append(Tail(tasks), t) \in Seq(threedo_tt_node)
         /\ Len(Append(Tail(tasks), t)) = Len(tasks)
         /\ Append(Tail(tasks), t) # <<>>
         /\ Append(Tail(tasks), t)[Len(tasks)] = t
         /\ \A i \in 1 .. Len(tasks) - 1 : Append(Tail(tasks), t)[i] = tasks[i + 1]
         /\ \A i \in 1 .. Len(tasks) : Unstarted(Append(Tail(tasks), t)[i])
<1>1. /\ Tail(tasks) \in Seq(threedo_tt_node) /\ Len(Tail(tasks)) = Len(tasks) - 1
      /\ \A i \in 1 .. Len(Tail(tasks)) : /\ Tail(tasks)[i] = tasks[i + 1]
                                          /\ Unstarted(Tail(tasks)[i])
      /\ Len(tasks) \in Nat \ {0}
  BY TailForm, HeadForm, Zenon
<1> DEFINE r == Tail(tasks)
<1>2. /\ Append(Tail(tasks), t) \in Seq(threedo_tt_node)
      /\ Len(Append(Tail(tasks), t)) = Len(tasks)
      /\ Append(Tail(tasks), t)[Len(tasks)] = t
      /\ \A i \in 1 .. Len(tasks) - 1 : Append(Tail(tasks), t)[i] = Tail(tasks)[i]
  <2>1. r \in Seq(threedo_tt_node) /\ Len(r) = Len(tasks) - 1 /\ Len(tasks) \in Nat \ {0}
    BY <1>1
  <2> HIDE DEF r
  <2>2. /\ Append(r, t) \in Seq(threedo_tt_node) /\ Len(Append(r, t)) = Len(tasks)
        /\ Append(r, t)[Len(tasks)] = t
        /\ \A i \in 1 .. Len(tasks) - 1 : Append(r, t)[i] = r[i]
    BY <2>1, AppendProperties
  <2> QED
    BY <2>2 DEF r
<1>3. Append(Tail(tasks), t) # <<>>
  <2>1. Len(Append(Tail(tasks), t)) # 0
    BY <1>1, <1>2
  <2> QED
    BY <1>2, <2>1, EmptySeq, Zenon
<1>4. \A i \in 1 .. Len(tasks) - 1 : /\ Append(r, t)[i] = tasks[i + 1]
                                     /\ Unstarted(Append(r, t)[i])
  <2>1. \A i \in 1 .. Len(tasks) - 1 : i \in 1 .. Len(Tail(tasks))
    BY <1>1, Zenon
  <2> QED
    BY <1>1, <1>2, <2>1
<1>5. \A i \in 1 .. Len(tasks) : Unstarted(Append(r, t)[i])
  <2>1. Len(tasks) \in Nat \ {0}
    BY <1>1
  <2>2. \A i \in 1 .. Len(tasks) : i = Len(tasks) \/ i \in 1 .. Len(tasks) - 1
    BY <2>1
  <2> QED
    BY <1>2, <1>4, <2>2
<1> QED
  BY <1>2, <1>3, <1>4, <1>5

(* Only the head is under way, whichever way the code changes the list. *)
LEMMA ListKept ==
  ASSUME ListOK, tasks' = tasks \/ HeadChanged \/ Dropped \/ Requeued \/ Grown \/ tasks' = <<>>
  PROVE  ListOK'
<1>1. /\ Len(tasks) \in Nat /\ Len(tasks) <= TaskMax /\ TaskMax \in Nat
      /\ tasks \in Seq(threedo_tt_node)
  BY Bounds, LenProperties DEF ListOK
<1>2. \A t : Unstarted(t) => InStep(t)
  BY DEF Unstarted, InStep
<1>3. CASE tasks' = tasks
  BY <1>3 DEF ListOK, OneAtATime
<1>4. CASE HeadChanged
  <2>1. PICK t \in threedo_tt_node : InStep(t) /\ tasks' = WithHead(t)
    BY <1>4, Zenon DEF HeadChanged
  <2>2. /\ tasks' \in Seq(threedo_tt_node) /\ Len(tasks') = Len(tasks) /\ tasks'[1] = t
        /\ \A i \in 2 .. Len(tasks) : tasks'[i] = tasks[i]
    BY <1>4, <2>1, HeadForm DEF HeadChanged
  <2>3. OneAtATime'
    BY <1>1, <2>2 DEF ListOK, OneAtATime
  <2>4. \A i \in 1 .. Len(tasks') : InStep(tasks'[i])
    <3> TAKE i \in 1 .. Len(tasks')
    <3>1. CASE i = 1
      BY <2>1, <2>2, <3>1
    <3>2. CASE i # 1
      <4>1. i \in 2 .. Len(tasks) /\ i \in 1 .. Len(tasks)
        BY <1>1, <2>2, <3>2
      <4> QED
        BY <2>2, <4>1 DEF ListOK
    <3> QED
      BY <3>1, <3>2
  <2> QED
    BY <1>1, <2>2, <2>3, <2>4 DEF ListOK
<1>5. CASE Dropped
  <2>1. /\ tasks' \in Seq(threedo_tt_node) /\ Len(tasks') = Len(tasks) - 1
        /\ \A i \in 1 .. Len(tasks') : Unstarted(tasks'[i])
    BY <1>5, TailForm, Zenon DEF Dropped
  <2>2. \A i \in 2 .. Len(tasks') : i \in 1 .. Len(tasks')
    BY <1>1, <2>1
  <2>3. \A i \in 2 .. Len(tasks') : Unstarted(tasks'[i])
    BY <2>1, <2>2, Zenon
  <2>4. OneAtATime'
    BY <2>3, Zenon DEF OneAtATime, Unstarted
  <2> QED
    BY <1>1, <1>2, <2>1, <2>4 DEF ListOK
<1>6. CASE Requeued
  <2>1. /\ tasks' \in Seq(threedo_tt_node) /\ Len(tasks') = Len(tasks)
        /\ \A i \in 1 .. Len(tasks') : Unstarted(tasks'[i])
    BY <1>6, AgainForm DEF Requeued
  <2>2. \A i \in 2 .. Len(tasks') : i \in 1 .. Len(tasks')
    BY <1>1, <2>1
  <2> QED
    BY <1>1, <1>2, <2>1, <2>2 DEF ListOK, OneAtATime, Unstarted
<1>7. CASE Grown
  <2>1. PICK f \in Files \cup {Beat} : tasks' = Append(tasks, NewNode(f))
    BY <1>7 DEF Grown
  <2>2. /\ tasks' \in Seq(threedo_tt_node) /\ Len(tasks') = Len(tasks) + 1
        /\ tasks'[Len(tasks')] = NewNode(f)
        /\ \A i \in 1 .. Len(tasks) : tasks'[i] = tasks[i]
    BY <1>1, <2>1, NewNodeForm, AppendProperties
  <2>3. \A i \in 1 .. Len(tasks') : i = Len(tasks') \/ i \in 1 .. Len(tasks)
    BY <1>1, <2>2
  <2>4. OneAtATime'
    <3> SUFFICES ASSUME NEW i \in 2 .. Len(tasks') PROVE Unstarted(tasks'[i])
      BY DEF OneAtATime, Unstarted
    <3>1. i \in 1 .. Len(tasks')
      BY <1>1, <2>2
    <3>2. CASE i = Len(tasks')
      BY <2>2, <3>2, NewNodeForm
    <3>3. CASE i \in 1 .. Len(tasks)
      BY <1>1, <2>2, <3>3 DEF ListOK, OneAtATime, Unstarted
    <3> QED
      BY <2>3, <3>1, <3>2, <3>3
  <2>5. \A i \in 1 .. Len(tasks') : InStep(tasks'[i])
    BY <1>2, <2>2, <2>3, NewNodeForm DEF ListOK
  <2>6. Len(tasks') <= TaskMax
    BY <1>1, <1>7, <2>2 DEF Grown
  <2> QED
    BY <2>2, <2>4, <2>5, <2>6 DEF ListOK
<1>8. CASE tasks' = <<>>
  BY <1>1, <1>8, EmptySeq DEF ListOK, OneAtATime
<1> QED
  BY <1>3, <1>4, <1>5, <1>6, <1>7, <1>8

-------------------------------------------------------------------------------
(* The invariant: types, the list, what the functions rely on that are called with a head,
   and that an error is never left behind. *)

Progress ==
  /\ pc \in {"upload", "upload_tail"} => tasks # <<>>
  /\ pc = "upload_tail" => Task1.retryCt = 0 /\ Task1.got = Chunks
  /\ tasks # <<>> /\ Task1.state = "UPLOAD_TAIL" /\ pc # "check" => Task1.retryCt < RetryMax

ErrorMet == pc \notin {"check", "fault", "hung"} => ~InError(sock)

TransferInv == TypeOK /\ Attached /\ ListOK /\ Progress /\ ErrorMet

(* What a step does to the messages and to the list when nothing is handed over. *)
QuietMail ==
  \/ SameMail(queue, queue')
  \/ queue # <<>> /\ Head(queue).type # "REQ" /\ SameMail(Rest, queue')
  \/ \E m \in Message : m.type # "REQ" /\ queue' = Append(queue, m)

QuietList == tasks' = tasks \/ HeadChanged \/ Dropped \/ Requeued

QuietStep == QuietList /\ QuietMail /\ asked' = asked /\ finished' = finished /\ taken \subseteq taken'

FinishStep ==
  /\ Dropped /\ Complete(Task1) /\ finished' = Append(finished, Task1.file)
  /\ QuietMail /\ asked' = asked /\ taken \subseteq taken'

OtherTyped ==
  /\ cntx' \in BOOLEAN /\ retry' \in BOOLEAN
  /\ timers' \subseteq {"BLOCK", "HEART"}
  /\ pc' \in {"idle", "fault", "hung"} \cup Functions
  /\ asked' \subseteq Files /\ finished' \in Seq(Files) /\ taken' \subseteq Files

LEMMA Together ==
  ASSUME TransferInv, SockTyped, queue' \in Seq(Message), upsets' \in 0 .. MaxUpsets,
         QuietList \/ Grown \/ tasks' = <<>>, OtherTyped, Progress', ErrorMet'
  PROVE  TransferInv'
<1>1. ListOK'
  BY ListKept DEF TransferInv, QuietList
<1> QED
  BY <1>1 DEF TransferInv, SockTyped, OtherTyped, TypeOK, ListOK

LEMMA MailTyped ==
  ASSUME queue \in Seq(Message), QuietMail
  PROVE  queue' \in Seq(Message)
BY AppendProperties DEF QuietMail, SameMail

LEMMA MailSame ==
  ASSUME queue \in Seq(Message)
  PROVE  /\ UNCHANGED queue => QuietMail
         /\ SameMail(queue, queue') => QuietMail
         /\ \A t : Take(t) /\ t # "REQ" => /\ queue' = Rest => QuietMail
                                           /\ SameMail(Rest, queue') => QuietMail
                                           /\ Rest \in Seq(Message)
<1>1. UNCHANGED queue => QuietMail
  BY OutdateKeeps DEF QuietMail
<1>2. ASSUME NEW t, Take(t), t # "REQ"
      PROVE  /\ queue' = Rest => QuietMail
             /\ SameMail(Rest, queue') => QuietMail
             /\ Rest \in Seq(Message)
  <2>1. Rest \in Seq(Message) /\ queue # <<>> /\ Head(queue).type # "REQ"
    BY <1>2, RestKeeps DEF Take
  <2> QED
    BY <2>1, OutdateKeeps DEF QuietMail
<1> QED
  BY <1>1, <1>2 DEF QuietMail

LEMMA SameSock ==
  ASSUME TransferInv, UNCHANGED <<sock, lookups>>
  PROVE  SockTyped
BY DEF TransferInv, TypeOK, Attached, SockTyped

LEMMA ProgressFresh ==
  ASSUME tasks' # <<>> => Unstarted(tasks'[1]), pc' \notin {"upload", "upload_tail"}
  PROVE  Progress'
BY DEF Progress, Unstarted, Task1

LEMMA ProgressSame ==
  ASSUME Progress, tasks' = tasks, pc' \notin {"upload", "upload_tail"}, pc # "check"
  PROVE  Progress'
BY DEF Progress, Task1

(* The head is still, or again, in a state before its tail. *)
LEMMA ProgressHead ==
  ASSUME ListOK, tasks # <<>>, NEW t \in threedo_tt_node, tasks' = WithHead(t),
         t.state = "UPLOAD_TAIL" /\ pc' # "check" => t.retryCt < RetryMax,
         pc' = "upload_tail" => t.retryCt = 0 /\ t.got = Chunks
  PROVE  Progress' /\ tasks' # <<>>
<1>1. tasks'[1] = t /\ Len(tasks') = Len(tasks) /\ Len(tasks) # 0
  BY HeadForm
<1>2. tasks' # <<>>
  BY <1>1
<1> QED
  BY <1>1, <1>2 DEF Progress, Task1

(* Without its head the list begins with a task that has not begun. *)
LEMMA DroppedFresh ==
  ASSUME ListOK, tasks # <<>>
  PROVE  /\ Tail(tasks) \in Seq(threedo_tt_node)
         /\ Tail(tasks) # <<>> => Unstarted(Tail(tasks)[1])
         /\ Len(tasks) > 1 <=> Tail(tasks) # <<>>
<1>1. Len(tasks) \in Nat \ {0}
  BY HeadForm
<1>2. /\ Tail(tasks) \in Seq(threedo_tt_node) /\ Len(Tail(tasks)) = Len(tasks) - 1
      /\ \A i \in 1 .. Len(Tail(tasks)) : Unstarted(Tail(tasks)[i])
      /\ Tail(tasks) = <<>> <=> Len(tasks) = 1
  BY TailForm
<1>3. Tail(tasks) # <<>> => 1 \in 1 .. Len(Tail(tasks))
  BY <1>1, <1>2
<1>4. Len(tasks) > 1 <=> Tail(tasks) # <<>>
  <2>1. \A n \in Nat \ {0} : n > 1 <=> ~(n = 1)
    OBVIOUS
  <2> QED
    BY <1>1, <1>2, <2>1, Zenon
<1> QED
  BY <1>2, <1>3, <1>4

(* How it goes on after a task (the end of _td_file_trans_check_and_clear_task). *)
LEMMA GoOnForm ==
  ASSUME TransferInv, NEW ts \in Seq(threedo_tt_node), ts # <<>> => Unstarted(ts[1]),
         NEW s \in SocketState, s.id = sock.id, s.link = sock.link, GoOn(ts, s)
  PROVE  /\ tasks' = ts /\ SockTyped /\ SameMail(queue, queue')
         /\ timers' \subseteq {"BLOCK", "HEART"}
         /\ pc' \in {"idle", "process", "fault"} /\ Progress' /\ ErrorMet'
<1> USE DEF TransferInv
<1>1. queue \in Seq(Message) /\ lookups \subseteq BOOLEAN
  BY DEF TypeOK
<1>2. CASE InError(s) /\ ts = <<>>
  <2>1. /\ tasks' = ts /\ sock' = s /\ lookups' = lookups /\ queue' = queue /\ pc' = "fault"
        /\ timers' = {}
    BY <1>2 DEF GoOn, InError
  <2> QED
    BY <1>1, <1>2, <2>1, OutdateKeeps, ProgressFresh DEF SockTyped, Attached, ErrorMet
<1>3. CASE InError(s) /\ ts # <<>>
  <2>1. /\ tasks' = [ts EXCEPT ![1].got = 0, ![1].state = "WAIT_START"] /\ pc' = "process"
        /\ threedo_socket_close(s, queue) /\ timers' = {}
    BY <1>3 DEF GoOn, InError
  <2>2. tasks' = ts
    <3>1. 1 \in 1 .. Len(ts) /\ ts[1] \in threedo_tt_node
      BY <1>3, EmptySeq, ElementOfSeq
    <3>2. [[ts[1] EXCEPT !.got = 0] EXCEPT !.state = "WAIT_START"] = ts[1]
      BY <1>3, <3>1 DEF threedo_tt_node, Unstarted
    <3>3. ts = [i \in DOMAIN ts |-> ts[i]] /\ DOMAIN ts = 1 .. Len(ts)
      BY <1>1
    <3> QED
      BY <2>1, <3>1, <3>2, <3>3
  <2> QED
    BY <1>1, <1>3, <2>1, <2>2, CloseTyped, ProgressFresh DEF ErrorMet
<1>4. CASE ~InError(s)
  <2>1. /\ tasks' = ts /\ sock' = s /\ lookups' = lookups /\ queue' = queue
        /\ pc' \in {"idle", "process"} /\ timers' \subseteq {"HEART"}
    BY <1>4 DEF GoOn, InError
  <2> QED
    BY <1>1, <1>4, <2>1, OutdateKeeps, ProgressFresh DEF SockTyped, Attached, ErrorMet
<1> QED
  BY <1>2, <1>3, <1>4

-------------------------------------------------------------------------------
(* What a step that hands nothing over keeps, put together from its parts. *)

LEMMA QuietTogether ==
  ASSUME TransferInv, SockTyped, QuietMail, upsets' \in 0 .. MaxUpsets, QuietList, OtherTyped,
         Progress', ErrorMet', asked' = asked, finished' = finished, taken \subseteq taken'
  PROVE  TransferInv' /\ QuietStep
<1>1. queue' \in Seq(Message)
  BY MailTyped DEF TransferInv, TypeOK
<1> QED
  BY <1>1, Together DEF QuietStep

LEMMA HistorySame ==
  ASSUME TransferInv, UNCHANGED <<cntx, retry>>, UNCHANGED history,
         timers' \subseteq {"BLOCK", "HEART"}, pc' \in {"idle", "fault", "hung"} \cup Functions
  PROVE  OtherTyped /\ asked' = asked /\ finished' = finished /\ taken \subseteq taken'
BY DEF TransferInv, TypeOK, OtherTyped, history

LEMMA ErrorSame ==
  ASSUME TransferInv, sock' = sock, pc \notin {"check", "fault", "hung"}
  PROVE  ErrorMet'
BY DEF TransferInv, ErrorMet, InError

LEMMA HeadMoves ==
  ASSUME TransferInv, tasks # <<>>, NEW t \in threedo_tt_node, tasks' = WithHead(t),
         t.file = Task1.file, InStep(t),
         Complete(t) => Complete(Task1) \/ t.file \in taken',
         t.state = "UPLOAD_TAIL" /\ pc' # "check" => t.retryCt < RetryMax,
         pc' = "upload_tail" => t.retryCt = 0 /\ t.got = Chunks
  PROVE  QuietList /\ Progress'
<1>1. Progress'
  BY ProgressHead DEF TransferInv
<1>2. HeadChanged
  BY Zenon DEF HeadChanged
<1> QED
  BY <1>1, <1>2 DEF QuietList

LEMMA HeadFacts ==
  ASSUME TransferInv, tasks # <<>>
  PROVE  Task1 \in threedo_tt_node /\ InStep(Task1)
BY HeadForm DEF TransferInv

LEMMA DroppedKeeps ==
  ASSUME TransferInv, tasks # <<>>, tasks' = Tail(tasks), pc' \notin {"upload", "upload_tail"}
  PROVE  QuietList /\ Progress' /\ Dropped
<1>1. Progress'
  BY DroppedFresh, ProgressFresh DEF TransferInv
<1> QED
  BY <1>1 DEF QuietList, Dropped

-------------------------------------------------------------------------------
(* threedo_file_trans_process *)

LEMMA BusyKeeps == TransferInv /\ ProcessBusy => TransferInv' /\ QuietStep
<1> SUFFICES ASSUME TransferInv, ProcessBusy PROVE TransferInv' /\ QuietStep
  OBVIOUS
<1> USE DEF ProcessBusy
<1>1. SockTyped /\ QuietMail /\ upsets' \in 0 .. MaxUpsets /\ ErrorMet'
  <2>1. queue \in Seq(Message) /\ TypeOK
    BY DEF TransferInv, TypeOK
  <2> QED
    BY <2>1, SameSock, MailSame, UpsetTyped, ErrorSame
<1>2. /\ OtherTyped /\ asked' = asked /\ finished' = finished /\ taken \subseteq taken'
      /\ pc' \in {"idle", "process"}
  BY DEF TransferInv, TypeOK, OtherTyped, history, Functions
<1>3. QuietList /\ Progress'
  <2>1. CASE retry
    BY <1>2, <2>1, DroppedKeeps
  <2>2. CASE ~retry
    BY <1>2, <2>2, ProgressSame DEF QuietList, TransferInv
  <2> QED
    BY <2>1, <2>2
<1> QED
  BY <1>1, <1>2, <1>3, QuietTogether

LEMMA DropsKeeps == TransferInv /\ ProcessDrops => TransferInv' /\ QuietStep
<1> SUFFICES ASSUME TransferInv, ProcessDrops PROVE TransferInv' /\ QuietStep
  OBVIOUS
<1> USE DEF ProcessDrops
<1>1. SockTyped /\ QuietMail /\ upsets' \in 0 .. MaxUpsets /\ ErrorMet'
  <2>1. queue \in Seq(Message) /\ TypeOK
    BY DEF TransferInv, TypeOK
  <2>2. Calm \/ \E k \in UpsetKinds : Upset(k)
    BY DEF UpsetKinds
  <2> QED
    BY <2>1, <2>2, SameSock, MailSame, UpsetTyped, ErrorSame
<1>2. /\ OtherTyped /\ asked' = asked /\ finished' = finished /\ taken \subseteq taken'
      /\ pc' \in {"idle", "process"}
  BY DEF TransferInv, TypeOK, OtherTyped, history, Functions
<1>3. QuietList /\ Progress'
  BY <1>2, DroppedKeeps
<1> QED
  BY <1>1, <1>2, <1>3, QuietTogether

LEMMA StartedForm ==
  ASSUME TransferInv, tasks # <<>>, Task1.state = "WAIT_START", Task1.retryCt < RetryMax,
         NEW t, t = Started \/ t = [Started EXCEPT !.state = "READY_SOCKET"]
  PROVE  /\ t \in threedo_tt_node /\ t.file = Task1.file /\ InStep(t)
         /\ t.state \in {"WAIT_START", "READY_SOCKET"} /\ ~Complete(t)
<1>1. Task1 \in threedo_tt_node /\ InStep(Task1)
  BY HeadFacts
<1>2. Task1.retryCt + 1 \in 0 .. RetryMax
  BY <1>1, Bounds DEF threedo_tt_node
<1>3. /\ Started \in threedo_tt_node /\ Started.file = Task1.file /\ InStep(Started)
      /\ Started.state = "WAIT_START"
  BY <1>1, <1>2 DEF Started, threedo_tt_node, InStep
<1> QED
  BY <1>3 DEF threedo_tt_node, InStep, Complete, States

LEMMA StartsKeeps == TransferInv /\ ProcessStarts => TransferInv' /\ QuietStep
<1> SUFFICES ASSUME TransferInv, ProcessStarts PROVE TransferInv' /\ QuietStep
  OBVIOUS
<1>0. queue \in Seq(Message) /\ TypeOK /\ sock \in SocketState /\ lookups \subseteq BOOLEAN
      /\ timers \subseteq {"BLOCK", "HEART"}
  BY DEF TransferInv, TypeOK
<1>1. /\ SockTyped /\ SameMail(queue, queue') /\ upsets' \in 0 .. MaxUpsets
      /\ sock'.dns # "IGNORE" => sock'.error # "bad"
  <2>1. CASE threedo_socket_open(queue)
    BY <1>0, <2>1, OpenTyped
  <2>2. CASE sock' = [sock EXCEPT !.error = "zero"] /\ Calm /\ UNCHANGED <<lookups, queue>>
    <3>1. sock' \in SocketState /\ sock'.link = sock.link /\ sock'.id = sock.id
          /\ sock'.error = "zero"
      BY <1>0, <2>2 DEF SocketState
    <3> QED
      BY <1>0, <2>2, <3>1, UpsetTyped, OutdateKeeps DEF SockTyped, Attached, TransferInv
  <2> QED
    BY <2>1, <2>2 DEF ProcessStarts
<1>2. /\ OtherTyped /\ asked' = asked /\ finished' = finished /\ taken \subseteq taken'
      /\ pc' \in {"idle", "write", "check"}
      /\ ErrorMet'
  <2>1. CASE sock'.id # NoSocket /\ sock'.dns = "IGNORE"
    <3>1. AfterConnect
      BY <2>1 DEF ProcessStarts
    <3>2. /\ pc' \in {"idle", "write", "check"} /\ timers' \subseteq {"BLOCK", "HEART"}
          /\ pc' # "check" => sock'.error # "bad"
      BY <1>0, <2>1, <3>1 DEF AfterConnect
    <3> QED
      BY <3>2 DEF ProcessStarts, TransferInv, TypeOK, OtherTyped, history, Functions, ErrorMet,
                  InError
  <2>2. CASE sock'.id = NoSocket \/ sock'.dns # "IGNORE"
    <3>1. WaitToRetry
      BY <2>2 DEF ProcessStarts
    <3> QED
      BY <1>0, <1>1, <2>2, <3>1 DEF ProcessStarts, TransferInv, TypeOK, OtherTyped, history,
        Functions, ErrorMet, InError, WaitToRetry
  <2> QED
    BY <2>1, <2>2
<1>3. QuietList /\ Progress'
  <2>1. PICK t : /\ t = Started \/ t = [Started EXCEPT !.state = "READY_SOCKET"]
                 /\ tasks' = WithHead(t)
    BY DEF ProcessStarts
  <2>2. /\ t \in threedo_tt_node /\ t.file = Task1.file /\ InStep(t)
        /\ t.state \in {"WAIT_START", "READY_SOCKET"} /\ ~Complete(t) /\ tasks # <<>>
    BY <2>1, StartedForm DEF ProcessStarts
  <2> QED
    BY <1>2, <2>1, <2>2, HeadMoves
<1> QED
  BY <1>0, <1>1, <1>2, <1>3, QuietTogether, MailSame

LEMMA ClosesKeeps == TransferInv /\ ProcessCloses => TransferInv' /\ QuietStep
<1> SUFFICES ASSUME TransferInv, ProcessCloses PROVE TransferInv' /\ QuietStep
  OBVIOUS
<1> USE DEF ProcessCloses
<1>0. queue \in Seq(Message) /\ TypeOK
  BY DEF TransferInv, TypeOK
<1>1. SockTyped /\ SameMail(queue, queue') /\ upsets' \in 0 .. MaxUpsets
  <2>1. Calm \/ \E k \in UpsetKinds : Upset(k)
    BY DEF UpsetKinds
  <2> QED
    BY <1>0, <2>1, ZeroedTyped, OlderTyped, OutdateKeeps, UpsetTyped DEF SockTyped, Attached
<1>2. /\ OtherTyped /\ asked' = asked /\ finished' = finished /\ taken \subseteq taken'
      /\ pc' = "idle" /\ ErrorMet'
  BY ZeroedTyped DEF TransferInv, TypeOK, OtherTyped, history, ErrorMet, InError, WaitToRetry
<1>3. QuietList /\ Progress'
  <2> DEFINE t == [Started EXCEPT !.state = "READY_SOCKET"]
  <2>1. tasks' = WithHead(t) /\ tasks # <<>>
    OBVIOUS
  <2>2. /\ t \in threedo_tt_node /\ t.file = Task1.file /\ InStep(t)
        /\ t.state \in {"WAIT_START", "READY_SOCKET"} /\ ~Complete(t)
    BY StartedForm
  <2> HIDE DEF t
  <2> QED
    BY <1>2, <2>1, <2>2, HeadMoves
<1> QED
  BY <1>0, <1>1, <1>2, <1>3, QuietTogether, MailSame

(* A task that is not there: process returns, the others fault. *)
LEMMA NoHeadKeeps == TransferInv /\ NoHead => TransferInv' /\ QuietStep
<1> SUFFICES ASSUME TransferInv, NoHead PROVE TransferInv' /\ QuietStep
  OBVIOUS
<1> USE DEF NoHead
<1>0. queue \in Seq(Message) /\ TypeOK
  BY DEF TransferInv, TypeOK
<1>1. SockTyped /\ QuietMail /\ upsets' \in 0 .. MaxUpsets /\ ErrorMet'
  BY <1>0, SameSock, MailSame, UpsetTyped, ErrorSame
<1>2. /\ OtherTyped /\ asked' = asked /\ finished' = finished /\ taken \subseteq taken'
      /\ pc' \in {"idle", "fault"}
  BY DEF TransferInv, TypeOK, OtherTyped, history
<1>3. QuietList /\ Progress'
  BY <1>2, ProgressSame DEF QuietList, TransferInv
<1> QED
  BY <1>1, <1>2, <1>3, QuietTogether

-------------------------------------------------------------------------------
(* _td_file_trans_write_socket and _td_file_trans_upload_continue *)

LEMMA WriteSocket ==
  ASSUME TransferInv, NEW piece, threedo_socket_write(piece), UNCHANGED <<lookups, queue>>
  PROVE  /\ SockTyped /\ QuietMail /\ upsets' \in 0 .. MaxUpsets
<1>1. TypeOK /\ Attached /\ queue \in Seq(Message) /\ lookups \subseteq BOOLEAN
  BY DEF TransferInv, TypeOK
<1> QED
  BY <1>1, WriteTyped, MailSame DEF SockTyped

LEMMA WriteHeadKeeps == TransferInv /\ WriteHead => TransferInv' /\ QuietStep
<1> SUFFICES ASSUME TransferInv, WriteHead PROVE TransferInv' /\ QuietStep
  OBVIOUS
<1>1. SockTyped /\ QuietMail /\ upsets' \in 0 .. MaxUpsets
  BY WriteSocket DEF WriteHead
<1>2. /\ OtherTyped /\ asked' = asked /\ finished' = finished /\ taken \subseteq taken'
      /\ pc' \in {"idle", "upload", "check"} /\ ErrorMet'
  BY DEF WriteHead, TransferInv, TypeOK, OtherTyped, history, ErrorMet, InError, WaitToRetry,
     Functions
<1>3. QuietList /\ Progress'
  <2>1. CASE sock'.error = "more"
    <3> DEFINE t == [Task1 EXCEPT !.state = "UPLOAD_CONTI"]
    <3>1. tasks' = WithHead(t) /\ tasks # <<>>
      BY <2>1 DEF WriteHead
    <3>2. /\ t \in threedo_tt_node /\ t.file = Task1.file /\ InStep(t)
          /\ t.state = "UPLOAD_CONTI" /\ ~Complete(t)
      BY <3>1, HeadFacts DEF threedo_tt_node, States, InStep, Complete
    <3> HIDE DEF t
    <3> QED
      BY <1>2, <3>1, <3>2, HeadMoves
  <2>2. CASE sock'.error # "more"
    <3>1. tasks' = tasks /\ pc' \in {"idle", "check"} /\ pc = "write"
      BY <2>2 DEF WriteHead, WaitToRetry
    <3> QED
      BY <3>1, ProgressSame DEF QuietList, TransferInv
  <2> QED
    BY <2>1, <2>2
<1> QED
  BY <1>1, <1>2, <1>3, QuietTogether

LEMMA TakenTyped ==
  ASSUME TransferInv, tasks # <<>>, Task1.got = Chunks, AllTaken
  PROVE  /\ taken \subseteq taken' /\ taken' \subseteq Files
         /\ IsUpload(Task1) => Task1.file \in taken'
<1>1. Task1.file \in Files \cup {Beat} /\ taken \subseteq Files
  BY HeadFacts DEF threedo_tt_node, TransferInv, TypeOK
<1> QED
  BY <1>1 DEF AllTaken, IsUpload

LEMMA WriteTailKeeps == TransferInv /\ WriteTail => TransferInv' /\ QuietStep
<1> SUFFICES ASSUME TransferInv, WriteTail PROVE TransferInv' /\ QuietStep
  OBVIOUS
<1>0. /\ tasks # <<>> /\ pc = "write" /\ Task1.state = "UPLOAD_TAIL" /\ Task1.retryCt < RetryMax
      /\ Task1 \in threedo_tt_node /\ InStep(Task1) /\ Task1.got = Chunks
  BY HeadFacts DEF WriteTail, TransferInv, Progress, InStep
<1>1. SockTyped /\ QuietMail /\ upsets' \in 0 .. MaxUpsets
  BY WriteSocket DEF WriteTail
<1>2. CASE sock'.error = "more"
  <2>1. WaitToRetry /\ AllTaken /\ tasks' = WithHead([Task1 EXCEPT !.state = "FD_TRANS_EOF"])
        /\ UNCHANGED <<cntx, retry, asked, finished>>
    BY <1>2 DEF WriteTail
  <2>2. /\ OtherTyped /\ asked' = asked /\ finished' = finished /\ taken \subseteq taken'
        /\ pc' = "idle" /\ ErrorMet' /\ (IsUpload(Task1) => Task1.file \in taken')
    BY <1>0, <1>2, <2>1, TakenTyped DEF TransferInv, TypeOK, OtherTyped, ErrorMet, InError,
       WaitToRetry
  <2> DEFINE t == [Task1 EXCEPT !.state = "FD_TRANS_EOF"]
  <2>3. /\ t \in threedo_tt_node /\ t.file = Task1.file /\ InStep(t)
        /\ t.state = "FD_TRANS_EOF" /\ tasks' = WithHead(t)
    BY <1>0, <2>1 DEF threedo_tt_node, States, InStep
  <2> HIDE DEF t
  <2>4. Complete(t) => t.file \in taken'
    BY <2>2, <2>3 DEF Complete, IsUpload
  <2>5. QuietList /\ Progress'
    BY <1>0, <2>2, <2>3, <2>4, HeadMoves
  <2> QED
    BY <1>1, <2>2, <2>5, QuietTogether
<1>3. CASE sock'.error = "block"
  <2>1. WaitToRetry /\ tasks' = tasks /\ UNCHANGED <<cntx, retry, history>>
    BY <1>3 DEF WriteTail, history
  <2>2. /\ OtherTyped /\ asked' = asked /\ finished' = finished /\ taken \subseteq taken'
        /\ pc' = "idle" /\ ErrorMet'
    BY <1>3, <2>1 DEF TransferInv, TypeOK, OtherTyped, history, ErrorMet, InError, WaitToRetry
  <2>3. QuietList /\ Progress'
    BY <1>0, <2>1, <2>2, ProgressSame DEF QuietList, TransferInv
  <2> QED
    BY <1>1, <2>2, <2>3, QuietTogether
<1>4. CASE sock'.error \notin {"more", "block"}
  <2> DEFINE t == [Task1 EXCEPT !.retryCt = @ + 1]
  <2>1. pc' = "check" /\ tasks' = WithHead(t) /\ UNCHANGED <<cntx, retry, timers, history>>
    BY <1>4 DEF WriteTail, history
  <2>2. /\ OtherTyped /\ asked' = asked /\ finished' = finished /\ taken \subseteq taken'
        /\ ErrorMet'
    BY <2>1 DEF TransferInv, TypeOK, OtherTyped, history, ErrorMet, Functions
  <2>3. Task1.retryCt + 1 \in 0 .. RetryMax
    BY <1>0, Bounds DEF threedo_tt_node
  <2>4. /\ t \in threedo_tt_node /\ t.file = Task1.file /\ InStep(t)
        /\ t.state = "UPLOAD_TAIL" /\ ~Complete(t)
    BY <1>0, <2>3 DEF threedo_tt_node, InStep, Complete
  <2> HIDE DEF t
  <2>5. QuietList /\ Progress'
    BY <1>0, <2>1, <2>2, <2>4, HeadMoves
  <2> QED
    BY <1>1, <2>1, <2>2, <2>5, QuietTogether
<1> QED
  BY <1>2, <1>3, <1>4

LEMMA WriteOtherKeeps == TransferInv /\ WriteOther => TransferInv' /\ QuietStep
<1> SUFFICES ASSUME TransferInv, WriteOther PROVE TransferInv' /\ QuietStep
  OBVIOUS
<1> USE DEF WriteOther
<1>0. queue \in Seq(Message) /\ TypeOK
  BY DEF TransferInv, TypeOK
<1>1. SockTyped /\ QuietMail /\ upsets' \in 0 .. MaxUpsets /\ ErrorMet'
  BY <1>0, SameSock, MailSame, UpsetTyped, ErrorSame
<1>2. /\ OtherTyped /\ asked' = asked /\ finished' = finished /\ taken \subseteq taken'
      /\ pc' \in {"idle", "upload", "check"}
  BY DEF TransferInv, TypeOK, OtherTyped, history, Functions
<1>3. QuietList /\ Progress'
  BY <1>2 DEF QuietList, TransferInv, Progress, Task1
<1> QED
  BY <1>1, <1>2, <1>3, QuietTogether

LEMMA SendingForm ==
  ASSUME TransferInv, tasks # <<>>
  PROVE  /\ Sending \in threedo_tt_node /\ Sending.file = Task1.file
         /\ Sending.got < Chunks /\ Sending.state = "UPLOAD_CONTI"
<1>1. Task1 \in threedo_tt_node /\ InStep(Task1)
  BY HeadFacts
<1>2. 0 < Chunks /\ 0 \in 0 .. Chunks
  BY Bounds
<1> DEFINE n == IF Task1.open THEN Task1.got ELSE 0
<1>3. n \in 0 .. Chunks /\ n < Chunks
  BY <1>1, <1>2 DEF threedo_tt_node, InStep
<1>4. Sending = [Task1 EXCEPT !.state = "UPLOAD_CONTI", !.open = TRUE, !.got = n]
  BY DEF Sending
<1> HIDE DEF n
<1> QED
  BY <1>1, <1>3, <1>4 DEF threedo_tt_node, States

(* A node between its head and its tail. *)
Between(t) ==
  /\ t \in threedo_tt_node /\ t.file = Task1.file /\ InStep(t) /\ t.state = "UPLOAD_CONTI"

LEMMA NoFileKeeps == TransferInv /\ UploadNoFile => TransferInv' /\ QuietStep
<1> SUFFICES ASSUME TransferInv, UploadNoFile PROVE TransferInv' /\ QuietStep
  OBVIOUS
<1> USE DEF UploadNoFile
<1>0. queue \in Seq(Message) /\ TypeOK /\ tasks # <<>>
  BY DEF TransferInv, TypeOK, Progress
<1>1. SockTyped /\ QuietMail /\ upsets' \in 0 .. MaxUpsets /\ ErrorMet'
  <2>1. Calm \/ \E k \in UpsetKinds : Upset(k)
    BY DEF UpsetKinds
  <2> QED
    BY <1>0, <2>1, SameSock, MailSame, UpsetTyped, ErrorSame
<1>2. /\ OtherTyped /\ asked' = asked /\ finished' = finished /\ taken \subseteq taken'
      /\ pc' = "check"
  BY DEF TransferInv, TypeOK, OtherTyped, history, Functions
<1>3. QuietList /\ Progress'
  <2>1. PICK t : /\ t = Sending \/ t = [Sending EXCEPT !.open = FALSE]
                 /\ tasks' = WithHead(t)
    OBVIOUS
  <2>2. Between(t)
    BY <1>0, <2>1, SendingForm DEF threedo_tt_node, InStep, Between
  <2> QED
    BY <1>0, <1>2, <2>1, <2>2, HeadMoves DEF Between, Complete
<1> QED
  BY <1>1, <1>2, <1>3, QuietTogether

LEMMA PieceKeeps == TransferInv /\ UploadPiece => TransferInv' /\ QuietStep
<1> SUFFICES ASSUME TransferInv, UploadPiece PROVE TransferInv' /\ QuietStep
  OBVIOUS
<1>0. tasks # <<>> /\ pc = "upload"
  BY DEF TransferInv, Progress, UploadPiece
<1>1. SockTyped /\ QuietMail /\ upsets' \in 0 .. MaxUpsets
  BY WriteSocket DEF UploadPiece
<1>2. /\ OtherTyped /\ asked' = asked /\ finished' = finished /\ taken \subseteq taken'
      /\ pc' \in {"idle", "upload", "upload_tail", "check"} /\ ErrorMet'
  BY DEF UploadPiece, TransferInv, TypeOK, OtherTyped, history, ErrorMet, InError, WaitToRetry,
     Functions
<1>3. PICK t :
        /\ \/ t = Sending /\ pc' # "upload_tail"
           \/ /\ t = [Sending EXCEPT !.got = @ + 1] /\ Sending.got + 1 # Chunks
              /\ pc' # "upload_tail"
           \/ t = [Sending EXCEPT !.got = Chunks, !.retryCt = 0, !.open = FALSE]
        /\ tasks' = WithHead(t)
  <2>1. CASE sock'.error = "more"
    BY <1>0, <2>1 DEF UploadPiece
  <2>2. CASE sock'.error # "more"
    BY <2>2 DEF UploadPiece, WaitToRetry
  <2> QED
    BY <2>1, <2>2
<1>4. Between(t) /\ (pc' = "upload_tail" => t.retryCt = 0 /\ t.got = Chunks)
  <2>1. /\ Sending \in threedo_tt_node /\ Sending.file = Task1.file
        /\ Sending.got < Chunks /\ Sending.state = "UPLOAD_CONTI" /\ Chunks \in Nat \ {0}
        /\ RetryMax \in Nat
    BY <1>0, SendingForm, Bounds
  <2>2. CASE t = Sending /\ pc' # "upload_tail"
    BY <2>1, <2>2 DEF Between, InStep
  <2>3. CASE /\ t = [Sending EXCEPT !.got = @ + 1] /\ Sending.got + 1 # Chunks
             /\ pc' # "upload_tail"
    <3>1. Sending.got + 1 \in 0 .. Chunks /\ Sending.got + 1 < Chunks
      BY <2>1, <2>3 DEF threedo_tt_node
    <3> QED
      BY <2>1, <2>3, <3>1 DEF Between, InStep, threedo_tt_node
  <2>4. CASE t = [Sending EXCEPT !.got = Chunks, !.retryCt = 0, !.open = FALSE]
    <3>1. Chunks \in 0 .. Chunks /\ 0 \in 0 .. RetryMax
      BY <2>1
    <3>2. /\ t \in threedo_tt_node /\ t.file = Task1.file /\ t.state = "UPLOAD_CONTI"
          /\ t.retryCt = 0 /\ t.got = Chunks
      BY <2>1, <2>4, <3>1 DEF threedo_tt_node
    <3>3. ~t.open
      BY <2>1, <2>4 DEF threedo_tt_node
    <3> QED
      BY <3>2, <3>3 DEF Between, InStep
  <2> QED
    BY <1>3, <2>2, <2>3, <2>4
<1>5. QuietList /\ Progress'
  BY <1>0, <1>3, <1>4, HeadMoves DEF Between, Complete
<1> QED
  BY <1>1, <1>2, <1>5, QuietTogether

LEMMA TailKeeps == TransferInv /\ UploadTail => TransferInv' /\ QuietStep
<1> SUFFICES ASSUME TransferInv, UploadTail PROVE TransferInv' /\ QuietStep
  OBVIOUS
<1>0. /\ tasks # <<>> /\ pc = "upload_tail" /\ Task1.retryCt = 0 /\ Task1.got = Chunks
      /\ Task1 \in threedo_tt_node /\ InStep(Task1)
  BY HeadFacts DEF UploadTail, TransferInv, Progress
<1>1. SockTyped /\ QuietMail /\ upsets' \in 0 .. MaxUpsets
  BY WriteSocket DEF UploadTail
<1>2. CASE sock'.error \in {"more", "block"}
  <2>1. PICK s \in {"FD_TRANS_EOF", "UPLOAD_TAIL"} :
          /\ tasks' = WithHead([Task1 EXCEPT !.state = s])
          /\ IF s = "FD_TRANS_EOF" THEN AllTaken ELSE UNCHANGED taken
    BY <1>2 DEF UploadTail
  <2>2. WaitToRetry /\ UNCHANGED <<cntx, retry, asked, finished>>
    BY <1>2 DEF UploadTail
  <2>3. taken \subseteq taken' /\ taken' \subseteq Files
        /\ (s = "FD_TRANS_EOF" /\ IsUpload(Task1) => Task1.file \in taken')
    BY <1>0, <2>1, TakenTyped DEF TransferInv, TypeOK
  <2>4. /\ OtherTyped /\ asked' = asked /\ finished' = finished
        /\ pc' = "idle" /\ ErrorMet'
    BY <1>2, <2>2, <2>3 DEF TransferInv, TypeOK, OtherTyped, ErrorMet, InError, WaitToRetry
  <2> DEFINE t == [Task1 EXCEPT !.state = s]
  <2>5. /\ t \in threedo_tt_node /\ t.file = Task1.file /\ InStep(t)
        /\ t.state = s /\ tasks' = WithHead(t) /\ t.retryCt = 0
    BY <1>0, <2>1 DEF threedo_tt_node, States, InStep
  <2> HIDE DEF t
  <2>6. Complete(t) => t.file \in taken'
    BY <2>3, <2>5 DEF Complete, IsUpload
  <2>7. QuietList /\ Progress'
    BY <1>0, <2>4, <2>5, <2>6, HeadMoves, Bounds
  <2> QED
    BY <1>1, <2>3, <2>4, <2>7, QuietTogether
<1>3. CASE sock'.error \notin {"more", "block"}
  <2>1. pc' = "check" /\ tasks' = tasks /\ UNCHANGED <<cntx, retry, timers, history>>
    BY <1>3 DEF UploadTail, history
  <2>2. /\ OtherTyped /\ asked' = asked /\ finished' = finished /\ taken \subseteq taken'
        /\ ErrorMet'
    BY <2>1 DEF TransferInv, TypeOK, OtherTyped, history, ErrorMet, Functions
  <2>3. QuietList /\ Progress'
    BY <1>0, <2>1, ProgressSame DEF QuietList, TransferInv
  <2> QED
    BY <1>1, <2>1, <2>2, <2>3, QuietTogether
<1> QED
  BY <1>2, <1>3

LEMMA ReadKeeps == TransferInv /\ ReadAnswer => TransferInv' /\ QuietStep
<1> SUFFICES ASSUME TransferInv, ReadAnswer PROVE TransferInv' /\ QuietStep
  OBVIOUS
<1>0. /\ tasks # <<>> /\ pc = "read" /\ Task1 \in threedo_tt_node /\ InStep(Task1)
      /\ queue \in Seq(Message) /\ TypeOK /\ lookups \subseteq BOOLEAN
  BY HeadFacts DEF ReadAnswer, TransferInv, TypeOK
<1>1. QuietMail /\ upsets' \in 0 .. MaxUpsets
  BY <1>0, MailSame, UpsetTyped DEF ReadAnswer
<1>2. /\ OtherTyped /\ asked' = asked /\ finished' = finished /\ taken \subseteq taken'
      /\ pc' \in {"idle", "check"}
  BY DEF ReadAnswer, TransferInv, TypeOK, OtherTyped, history, Functions
<1>3. CASE Task1.state = "FD_TRANS_EOF"
  <2>1. PICK r \in threedo_socket_read : sock' = r.s
    BY <1>3 DEF ReadAnswer
  <2>2. SockTyped /\ ErrorMet'
    BY <1>0, <1>3, <2>1, ReadTyped DEF SockTyped, Attached, TransferInv, ReadAnswer, ErrorMet
  <2> DEFINE t == [Task1 EXCEPT !.state = "TRANS_FINISH"]
  <2>3. /\ t \in threedo_tt_node /\ t.file = Task1.file /\ InStep(t)
        /\ t.state = "TRANS_FINISH" /\ tasks' = WithHead(t)
    BY <1>0, <1>3 DEF threedo_tt_node, States, InStep, ReadAnswer
  <2> HIDE DEF t
  <2>4. Complete(t) => Complete(Task1)
    BY <1>3, <2>3 DEF Complete, IsUpload
  <2>5. QuietList /\ Progress'
    BY <1>0, <1>2, <2>3, <2>4, HeadMoves
  <2> QED
    BY <1>1, <1>2, <2>2, <2>5, QuietTogether
<1>4. CASE Task1.state # "FD_TRANS_EOF"
  <2>1. UNCHANGED <<sock, lookups>> /\ tasks' = tasks
    BY <1>4 DEF ReadAnswer
  <2>2. SockTyped /\ ErrorMet'
    BY <1>0, <2>1, SameSock, ErrorSame
  <2>3. QuietList /\ Progress'
    BY <1>0, <1>2, <2>1, ProgressSame DEF QuietList, TransferInv
  <2> QED
    BY <1>1, <1>2, <2>2, <2>3, QuietTogether
<1> QED
  BY <1>3, <1>4

-------------------------------------------------------------------------------
(* _td_file_trans_check_and_clear_task *)

LEMMA FinishForm ==
  ASSUME TransferInv, tasks # <<>>, Task1.state \in {"FD_TRANS_EOF", "TRANS_FINISH"},
         Finish \/ UNCHANGED finished
  PROVE  /\ finished' \in Seq(Files)
         /\ \/ finished' = finished
            \/ Complete(Task1) /\ finished' = Append(finished, Task1.file)
<1>1. Task1 \in threedo_tt_node /\ finished \in Seq(Files)
  BY HeadFacts DEF TransferInv, TypeOK
<1>2. CASE IsUpload(Task1) /\ finished' = Append(finished, Task1.file)
  <2>1. Task1.file \in Files
    BY <1>1, <1>2 DEF threedo_tt_node, IsUpload
  <2> QED
    BY <1>1, <1>2, <2>1, AppendProperties DEF Complete
<1>3. CASE finished' = finished
  BY <1>1, <1>3
<1> QED
  BY <1>2, <1>3 DEF Finish

LEMMA GoesOn ==
  ASSUME TransferInv, tasks # <<>>, GoOn(Tail(tasks), sock) \/ \E r \in threedo_socket_read :
           GoOn(Tail(tasks), r.s),
         finished' \in Seq(Files),
         \/ finished' = finished
         \/ Complete(Task1) /\ finished' = Append(finished, Task1.file),
         Calm, UNCHANGED <<cntx, retry, asked, taken>>
  PROVE  TransferInv' /\ (QuietStep \/ FinishStep)
<1>0. TypeOK /\ ListOK /\ sock \in SocketState /\ queue \in Seq(Message)
  BY DEF TransferInv, TypeOK
<1>1. PICK s \in SocketState : s.id = sock.id /\ s.link = sock.link /\ GoOn(Tail(tasks), s)
  BY <1>0, ReadTyped
<1>2. Tail(tasks) \in Seq(threedo_tt_node)
      /\ (Tail(tasks) # <<>> => Unstarted(Tail(tasks)[1]))
  BY <1>0, DroppedFresh
<1>3. /\ tasks' = Tail(tasks) /\ SockTyped /\ SameMail(queue, queue')
      /\ timers' \subseteq {"BLOCK", "HEART"}
      /\ pc' \in {"idle", "process", "fault"} /\ Progress' /\ ErrorMet'
  BY <1>1, <1>2, GoOnForm
<1>4. OtherTyped /\ upsets' \in 0 .. MaxUpsets
  BY <1>0, <1>3, UpsetTyped DEF OtherTyped, Functions, TypeOK
<1>5. QuietMail /\ queue' \in Seq(Message)
  BY <1>0, <1>3, MailSame, MailTyped
<1>6. Dropped /\ QuietList
  BY <1>3 DEF Dropped, QuietList
<1>7. TransferInv'
  BY <1>3, <1>4, <1>5, <1>6, Together
<1> QED
  BY <1>5, <1>6, <1>7 DEF QuietStep, FinishStep

LEMMA CheckNoTaskKeeps == TransferInv /\ CheckNoTask => TransferInv' /\ QuietStep
<1> SUFFICES ASSUME TransferInv, CheckNoTask PROVE TransferInv' /\ QuietStep
  OBVIOUS
<1>0. /\ TypeOK /\ ListOK /\ sock \in SocketState /\ queue \in Seq(Message)
      /\ tasks = <<>> /\ tasks \in Seq(threedo_tt_node)
  BY DEF TransferInv, TypeOK, CheckNoTask
<1>1. GoOn(tasks, sock) /\ (tasks # <<>> => Unstarted(tasks[1]))
  BY <1>0 DEF CheckNoTask
<1>3. /\ tasks' = tasks /\ SockTyped /\ SameMail(queue, queue')
      /\ timers' \subseteq {"BLOCK", "HEART"}
      /\ pc' \in {"idle", "process", "fault"} /\ Progress' /\ ErrorMet'
  BY <1>0, <1>1, GoOnForm
<1>4. /\ OtherTyped /\ upsets' \in 0 .. MaxUpsets
      /\ asked' = asked /\ finished' = finished /\ taken \subseteq taken'
  BY <1>0, <1>3, UpsetTyped DEF OtherTyped, Functions, TypeOK, CheckNoTask, history
<1> QED
  BY <1>0, <1>3, <1>4, MailSame, QuietTogether DEF QuietList

LEMMA CheckFinishedKeeps ==
  TransferInv /\ CheckFinished => TransferInv' /\ (QuietStep \/ FinishStep)
BY FinishForm, GoesOn DEF CheckFinished

LEMMA CheckSentKeeps == TransferInv /\ CheckSent => TransferInv' /\ (QuietStep \/ FinishStep)
<1> SUFFICES ASSUME TransferInv, CheckSent PROVE TransferInv' /\ (QuietStep \/ FinishStep)
  OBVIOUS
<1>0. /\ tasks # <<>> /\ Task1.state = "FD_TRANS_EOF" /\ Calm
      /\ UNCHANGED <<cntx, retry, asked, taken>>
      /\ Task1 \in threedo_tt_node /\ InStep(Task1)
      /\ TypeOK /\ Attached /\ sock \in SocketState /\ queue \in Seq(Message)
  BY HeadFacts DEF TransferInv, TypeOK, CheckSent
<1>1. CASE /\ GoOn(Tail(tasks), sock) \/ \E r \in threedo_socket_read : GoOn(Tail(tasks), r.s)
           /\ Finish \/ UNCHANGED finished
  BY <1>0, <1>1, FinishForm, GoesOn
<1>2. ASSUME NEW r \in threedo_socket_read, r.s.error = "block", Task1.retryCt < RetryMax,
             tasks' = WithHead([Task1 EXCEPT !.retryCt = @ + 1, !.open = FALSE]), sock' = r.s,
             pc' = "idle", timers' = {"BLOCK"}, UNCHANGED <<lookups, queue, finished>>
      PROVE  TransferInv' /\ QuietStep
  <2> DEFINE t == [Task1 EXCEPT !.retryCt = @ + 1, !.open = FALSE]
  <2>1. /\ SockTyped /\ ErrorMet'
    BY <1>0, <1>2, ReadTyped DEF SockTyped, Attached, TypeOK, ErrorMet, InError
  <2>2. /\ OtherTyped /\ upsets' \in 0 .. MaxUpsets
        /\ asked' = asked /\ finished' = finished /\ taken \subseteq taken'
    BY <1>0, <1>2, UpsetTyped DEF OtherTyped, TypeOK
  <2>3. Task1.retryCt + 1 \in 0 .. RetryMax
    BY <1>0, <1>2, Bounds DEF threedo_tt_node
  <2>4. /\ t \in threedo_tt_node /\ t.file = Task1.file /\ ~t.open
        /\ t.state = "FD_TRANS_EOF" /\ tasks' = WithHead(t)
    BY <1>0, <1>2, <2>3 DEF threedo_tt_node
  <2> HIDE DEF t
  <2>5. InStep(t) /\ (Complete(t) => Complete(Task1))
    BY <1>0, <2>4 DEF InStep, Complete, IsUpload
  <2>6. QuietList /\ Progress'
    BY <1>0, <1>2, <2>4, <2>5, HeadMoves
  <2> QED
    BY <1>0, <1>2, <2>1, <2>2, <2>6, MailSame, QuietTogether
<1>3. ASSUME NEW r \in threedo_socket_read, threedo_socket_close(r.s, queue),
             tasks' = Tail(tasks), pc' \in {"idle", "process"}, timers' \subseteq {"HEART"},
             UNCHANGED finished
      PROVE  TransferInv' /\ QuietStep
  <2>1. /\ SockTyped /\ ErrorMet' /\ SameMail(queue, queue')
    BY <1>0, <1>3, ReadTyped, CloseTyped DEF ErrorMet
  <2>2. /\ OtherTyped /\ upsets' \in 0 .. MaxUpsets
        /\ asked' = asked /\ finished' = finished /\ taken \subseteq taken'
    BY <1>0, <1>3, UpsetTyped DEF OtherTyped, TypeOK, Functions
  <2>3. QuietList /\ Progress'
    BY <1>0, <1>3, DroppedKeeps
  <2> QED
    BY <1>0, <2>1, <2>2, <2>3, MailSame, QuietTogether
<1>4. CASE ~HasSocket
  BY <1>1, <1>4 DEF CheckSent
<1>5. CASE HasSocket
  <2>1. PICK r \in threedo_socket_read :
       \/ /\ r.s.error = "more"
          /\ IF r.ok THEN Finish ELSE UNCHANGED finished
          /\ GoOn(Tail(tasks), r.s)
       \/ /\ r.s.error = "block" /\ Task1.retryCt >= RetryMax
          /\ GoOn(Tail(tasks), r.s)
          /\ UNCHANGED finished
       \/ /\ r.s.error = "block" /\ Task1.retryCt < RetryMax
          /\ tasks' = WithHead([Task1 EXCEPT !.retryCt = @ + 1, !.open = FALSE])
          /\ sock' = r.s
          /\ pc' = "idle" /\ timers' = {"BLOCK"}
          /\ UNCHANGED <<lookups, queue, finished>>
       \/ /\ r.s.error \in {"zero", "bad"}
          /\ threedo_socket_close(r.s, queue)
          /\ tasks' = Tail(tasks)
          /\ pc' = IF Len(tasks) > 1 THEN "process" ELSE "idle"
          /\ timers' = IF Len(tasks) > 1 THEN {} ELSE {"HEART"}
          /\ UNCHANGED finished
    BY <1>5, Zenon DEF CheckSent
  <2> QED
    BY <1>1, <1>2, <1>3, <2>1
<1> QED
  BY <1>4, <1>5

LEMMA CheckAgainKeeps == TransferInv /\ CheckAgain => TransferInv' /\ QuietStep
<1> SUFFICES ASSUME TransferInv, CheckAgain PROVE TransferInv' /\ QuietStep
  OBVIOUS
<1> DEFINE again == [Task1 EXCEPT !.state = "WAIT_START", !.got = 0, !.open = FALSE]
<1>0. /\ TypeOK /\ ListOK /\ sock \in SocketState /\ queue \in Seq(Message)
      /\ tasks # <<>> /\ Task1 \in threedo_tt_node
  BY HeadFacts DEF TransferInv, TypeOK, CheckAgain
<1>1. PICK ts : /\ ts = Tail(tasks) \/ ts = Append(Tail(tasks), again)
                /\ GoOn(ts, sock)
  BY DEF CheckAgain
<1>2. again \in threedo_tt_node /\ again.file = Task1.file /\ Unstarted(again)
  <2>1. 0 \in 0 .. Chunks
    BY Bounds
  <2> QED
    BY <1>0, <2>1 DEF threedo_tt_node, States, Unstarted
<1> HIDE DEF again
<1>3. ts \in Seq(threedo_tt_node) /\ (ts # <<>> => Unstarted(ts[1]))
  <2>1. CASE ts = Tail(tasks)
    BY <1>0, <2>1, DroppedFresh
  <2>2. CASE ts = Append(Tail(tasks), again)
    <3>1. Len(tasks) \in Nat \ {0}
      BY <1>0, HeadForm
    <3>2. 1 \in 1 .. Len(tasks)
      BY <3>1
    <3> QED
      BY <1>0, <1>2, <2>2, <3>2, AgainForm
  <2> QED
    BY <1>1, <2>1, <2>2
<1>4. /\ tasks' = ts /\ SockTyped /\ SameMail(queue, queue')
      /\ timers' \subseteq {"BLOCK", "HEART"}
      /\ pc' \in {"idle", "process", "fault"} /\ Progress' /\ ErrorMet'
  BY <1>0, <1>1, <1>3, GoOnForm
<1>5. /\ OtherTyped /\ upsets' \in 0 .. MaxUpsets
      /\ asked' = asked /\ finished' = finished /\ taken \subseteq taken'
  BY <1>0, <1>4, UpsetTyped DEF OtherTyped, Functions, TypeOK, CheckAgain, history
<1>6. QuietList
  <2>1. CASE ts = Tail(tasks)
    BY <1>0, <1>4, <2>1 DEF QuietList, Dropped
  <2>2. CASE ts = Append(Tail(tasks), again)
    <3>1. Requeued
      BY <1>0, <1>2, <1>4, <2>2, Zenon DEF Requeued
    <3> QED
      BY <3>1 DEF QuietList
  <2> QED
    BY <1>1, <2>1, <2>2
<1> QED
  BY <1>0, <1>4, <1>5, <1>6, MailSame, QuietTogether

-------------------------------------------------------------------------------
(* The messages *)

LEMMA ReqKeeps == TransferInv /\ FileTransReq => TransferInv'
<1> SUFFICES ASSUME TransferInv, FileTransReq PROVE TransferInv'
  OBVIOUS
<1> USE DEF FileTransReq
<1>0. /\ queue \in Seq(Message) /\ TypeOK /\ ListOK /\ queue # <<>> /\ Head(queue).type = "REQ"
      /\ pc = "idle"
  BY DEF TransferInv, TypeOK, Take
<1>1. Rest \in Seq(Message) /\ Head(queue) \in Message
  BY <1>0, RestKeeps
<1>2. Head(queue).file \in Files
  BY <1>0, <1>1 DEF Message
<1>3. SockTyped /\ upsets' \in 0 .. MaxUpsets /\ ErrorMet'
  BY <1>0, SameSock, UpsetTyped, ErrorSame
<1>4. OtherTyped /\ pc' = "process"
  BY <1>0 DEF TypeOK, OtherTyped, history, Functions
<1>5. tasks' = tasks \/ Grown
  BY <1>2 DEF Grown
<1>6. Progress'
  <2>1. CASE tasks' = tasks
    BY <1>0, <1>4, <2>1, ProgressSame DEF TransferInv
  <2>2. CASE tasks' = Append(tasks, NewNode(Head(queue).file))
    <3>1. /\ tasks \in Seq(threedo_tt_node) /\ Len(tasks) \in Nat
          /\ NewNode(Head(queue).file) \in threedo_tt_node
          /\ Unstarted(NewNode(Head(queue).file))
      BY <1>0, <1>2, NewNodeForm, LenProperties DEF ListOK
    <3>2. /\ tasks'[Len(tasks) + 1] = NewNode(Head(queue).file)
          /\ \A i \in 1 .. Len(tasks) : tasks'[i] = tasks[i]
      BY <2>2, <3>1, AppendProperties
    <3>3. CASE tasks = <<>>
      BY <1>4, <3>1, <3>2, <3>3, ProgressFresh
    <3>4. CASE tasks # <<>>
      <4>1. Len(tasks) \in Nat \ {0}
        BY <1>0, <3>4, HeadForm
      <4>2. 1 \in 1 .. Len(tasks)
        BY <4>1
      <4> QED
        BY <1>0, <1>4, <3>2, <3>4, <4>2 DEF TransferInv, Progress, Task1
    <3> QED
      BY <3>3, <3>4
  <2> QED
    BY <2>1, <2>2
<1> QED
  BY <1>1, <1>3, <1>4, <1>5, <1>6, Together DEF QuietList

LEMMA StopKeeps == TransferInv /\ TaskStopReq => TransferInv' /\ QuietStep
<1> SUFFICES ASSUME TransferInv, TaskStopReq PROVE TransferInv' /\ QuietStep
  OBVIOUS
<1> USE DEF TaskStopReq
<1>0. /\ queue \in Seq(Message) /\ TypeOK /\ Attached /\ Take("STOP") /\ pc = "idle"
      /\ sock \in SocketState
  BY DEF TransferInv, TypeOK, Take
<1>1. Rest \in Seq(Message) /\ (queue' = Rest => QuietMail) /\ (SameMail(Rest, queue') => QuietMail)
  BY <1>0, MailSame
<1>2. upsets' \in 0 .. MaxUpsets
  BY <1>0, UpsetTyped
<1>3. CASE ~cntx
  <2>1. /\ OtherTyped /\ asked' = asked /\ finished' = finished /\ taken \subseteq taken'
        /\ pc' = "idle" /\ tasks' = tasks
    BY <1>0, <1>3 DEF TypeOK, OtherTyped, history
  <2>2. SockTyped /\ ErrorMet' /\ Progress'
    BY <1>0, <1>3, <2>1, SameSock, ErrorSame, ProgressSame DEF TransferInv
  <2> QED
    BY <1>1, <1>2, <1>3, <2>1, <2>2, QuietTogether DEF QuietList
<1>4. CASE cntx
  <2>1. SockTyped /\ SameMail(Rest, queue') /\ ~InError(sock')
    BY <1>0, <1>1, <1>4, CloseTyped
  <2>2. ErrorMet'
    BY <2>1 DEF ErrorMet
  <2>3. /\ OtherTyped /\ asked' = asked /\ finished' = finished /\ taken \subseteq taken'
        /\ pc' \in {"idle", "hung"}
    BY <1>0, <1>4 DEF TypeOK, OtherTyped, history
  <2>4. QuietList /\ Progress'
    <3>1. CASE tasks = <<>>
      BY <1>0, <1>4, <2>3, <3>1, ProgressSame DEF TransferInv, QuietList
    <3>2. CASE tasks # <<>>
      <4> DEFINE t == [Task1 EXCEPT !.open = FALSE]
      <4>1. /\ t \in threedo_tt_node /\ t.file = Task1.file /\ ~t.open /\ t.state = Task1.state
            /\ t.got = Task1.got /\ t.retryCt = Task1.retryCt /\ tasks' = WithHead(t)
        BY <1>4, <3>2, HeadFacts DEF threedo_tt_node
      <4> HIDE DEF t
      <4>2. /\ InStep(t) /\ (Complete(t) => Complete(Task1))
            /\ (t.state = "UPLOAD_TAIL" => t.retryCt < RetryMax)
        BY <1>0, <3>2, <4>1, HeadFacts DEF InStep, Complete, IsUpload, TransferInv, Progress
      <4> QED
        BY <2>3, <3>2, <4>1, <4>2, HeadMoves
    <3> QED
      BY <3>1, <3>2
  <2> QED
    BY <1>1, <1>2, <2>1, <2>2, <2>3, <2>4, QuietTogether
<1> QED
  BY <1>3, <1>4

LEMMA BlockKeeps == TransferInv /\ BlockTimeout => TransferInv' /\ QuietStep
<1> SUFFICES ASSUME TransferInv, BlockTimeout PROVE TransferInv' /\ QuietStep
  OBVIOUS
<1> USE DEF BlockTimeout
<1>0. /\ queue \in Seq(Message) /\ TypeOK /\ Take("BLOCK") /\ pc = "idle"
  BY DEF TransferInv, TypeOK, Take
<1>1. QuietMail /\ upsets' \in 0 .. MaxUpsets /\ SockTyped /\ ErrorMet'
  BY <1>0, MailSame, UpsetTyped, SameSock, ErrorSame
<1>2. /\ OtherTyped /\ asked' = asked /\ finished' = finished /\ taken \subseteq taken'
      /\ pc' \in {"idle", "check"}
  BY <1>0 DEF TypeOK, OtherTyped, history, Functions
<1>3. Progress' /\ QuietList
  BY <1>0, <1>2, ProgressSame DEF TransferInv, QuietList
<1> QED
  BY <1>1, <1>2, <1>3, QuietTogether

LEMMA HeartKeeps == TransferInv /\ HeartTimeout => TransferInv'
<1> SUFFICES ASSUME TransferInv, HeartTimeout PROVE TransferInv'
  OBVIOUS
<1> USE DEF HeartTimeout
<1>0. /\ queue \in Seq(Message) /\ TypeOK /\ Take("HEART") /\ pc = "idle" /\ ListOK
  BY DEF TransferInv, TypeOK, Take
<1>1. QuietMail /\ upsets' \in 0 .. MaxUpsets /\ SockTyped /\ ErrorMet'
  BY <1>0, MailSame, UpsetTyped, SameSock, ErrorSame
<1>2. OtherTyped /\ pc' \in {"idle", "process"} /\ queue' \in Seq(Message)
  BY <1>0, <1>1, MailTyped DEF TypeOK, OtherTyped, history, Functions
<1>3. Progress' /\ (QuietList \/ Grown)
  <2>1. CASE tasks' = tasks
    BY <1>0, <1>2, <2>1, ProgressSame DEF TransferInv, QuietList
  <2>2. CASE tasks = <<>> /\ tasks' = <<NewNode(Beat)>>
    <3>1. tasks'[1] = NewNode(Beat) /\ Unstarted(NewNode(Beat))
      BY <2>2, NewNodeForm
    <3>2. tasks' = Append(tasks, NewNode(Beat))
      BY <2>2
    <3>3. Len(tasks) < TaskMax
      BY <2>2, Bounds
    <3> QED
      BY <1>2, <3>1, <3>2, <3>3, ProgressFresh DEF Grown
  <2> QED
    BY <2>1, <2>2
<1> QED
  BY <1>1, <1>2, <1>3, Together

LEMMA EventKeeps == TransferInv /\ (EventNotMine \/ EventMine) => TransferInv' /\ QuietStep
<1> SUFFICES ASSUME TransferInv, EventNotMine \/ EventMine PROVE TransferInv' /\ QuietStep
  OBVIOUS
<1>0. /\ queue \in Seq(Message) /\ TypeOK /\ Attached /\ pc = "idle" /\ sock \in SocketState
      /\ Take(Head(queue).type) /\ Head(queue).type # "REQ"
      /\ Calm /\ UNCHANGED <<cntx, tasks, retry, history>>
  BY DEF TransferInv, TypeOK, Take, EventNotMine, EventMine, IsEvent
<1>1. Rest \in Seq(Message) /\ (queue' = Rest => QuietMail) /\ (SameMail(Rest, queue') => QuietMail)
  BY <1>0, MailSame, Zenon
<1>2. /\ pc' \in {"idle", "fault", "read", "write", "check"}
      /\ timers' \subseteq {"BLOCK", "HEART"}
      /\ \/ threedo_socket_close(sock, Rest)
         \/ queue' = Rest /\ UNCHANGED <<sock, lookups>>
  <2>1. CASE EventNotMine
    BY <1>0, <2>1 DEF EventNotMine, TypeOK
  <2>2. CASE EventMine
    <3>1. timers' = {} /\ pc' \in {"read", "write", "check"}
      BY <2>2 DEF EventMine
    <3>2. \/ threedo_socket_close(sock, Rest)
          \/ queue' = Rest /\ UNCHANGED <<sock, lookups>>
      BY <2>2 DEF EventMine
    <3> QED
      BY <3>1, <3>2
  <2> QED
    BY <2>1, <2>2
<1>3. SockTyped /\ ErrorMet' /\ QuietMail
  <2>1. CASE threedo_socket_close(sock, Rest)
    BY <1>0, <1>1, <2>1, CloseTyped DEF ErrorMet
  <2>2. CASE queue' = Rest /\ UNCHANGED <<sock, lookups>>
    BY <1>0, <1>1, <2>2, SameSock, ErrorSame
  <2> QED
    BY <1>2, <2>1, <2>2
<1>4. /\ OtherTyped /\ asked' = asked /\ finished' = finished /\ taken \subseteq taken'
      /\ upsets' \in 0 .. MaxUpsets
  BY <1>0, <1>2, UpsetTyped DEF TypeOK, OtherTyped, history, Functions
<1>5. Progress' /\ QuietList
  BY <1>0, <1>2, ProgressSame DEF TransferInv, QuietList
<1> QED
  BY <1>3, <1>4, <1>5, QuietTogether

LEMMA NameKeeps == TransferInv /\ (NameIgnored \/ NameAnswered) => TransferInv' /\ QuietStep
<1> SUFFICES ASSUME TransferInv, NameIgnored \/ NameAnswered PROVE TransferInv' /\ QuietStep
  OBVIOUS
<1>0. /\ queue \in Seq(Message) /\ TypeOK /\ Attached /\ pc = "idle" /\ sock \in SocketState
      /\ Take("DNS") /\ queue' = Rest /\ lookups \subseteq BOOLEAN
      /\ UNCHANGED <<lookups, cntx, tasks, retry, history>>
  BY DEF TransferInv, TypeOK, Take, NameIgnored, NameAnswered, taskVars
<1>1. QuietMail
  BY <1>0, MailSame
<1>2. /\ SockTyped /\ ErrorMet' /\ upsets' \in 0 .. MaxUpsets
      /\ pc' \in {"idle", "write", "check"} /\ timers' \subseteq {"BLOCK", "HEART"}
  <2>1. CASE NameIgnored
    <3>1. UNCHANGED <<sock, lookups, timers, pc>> /\ Calm
      BY <2>1 DEF NameIgnored, taskVars
    <3> QED
      BY <1>0, <3>1, SameSock, ErrorSame, UpsetTyped DEF TypeOK
  <2>2. CASE NameAnswered /\ Head(queue).ok
    <3> DEFINE s == [sock EXCEPT !.dns = "IGNORE"]
    <3>1. s \in SocketState /\ (s.link \in {"connecting", "up"} => s.id \in Sockets)
      BY <1>0 DEF SocketState, Attached
    <3>2. threedo_socket_connect(s)
      BY <2>2 DEF NameAnswered
    <3> HIDE DEF s
    <3>3. /\ sock' \in SocketState /\ Attached' /\ sock'.error \in {"zero", "block", "bad"}
          /\ (Calm \/ \E k \in UpsetKinds : Upset(k))
      BY <3>1, <3>2, ConnectTyped
    <3>4. /\ pc' \in {"idle", "write", "check"} /\ timers' \subseteq {"BLOCK", "HEART"}
          /\ pc' # "check" => ~InError(sock')
      BY <2>2, <3>3 DEF NameAnswered, InError
    <3> QED
      BY <1>0, <3>3, <3>4, UpsetTyped DEF SockTyped, ErrorMet
  <2>3. CASE NameAnswered /\ ~Head(queue).ok
    <3>1. /\ sock' = [sock EXCEPT !.error = "zero", !.dns = "FAILED"] /\ Calm
          /\ pc' = "idle" /\ timers' = {"BLOCK"}
      BY <2>3 DEF NameAnswered
    <3>2. sock' \in SocketState /\ Attached' /\ ~InError(sock')
      BY <1>0, <3>1 DEF SocketState, Attached, InError
    <3> QED
      BY <1>0, <3>1, <3>2, UpsetTyped DEF SockTyped, ErrorMet
  <2> QED
    BY <2>1, <2>2, <2>3
<1>4. OtherTyped /\ asked' = asked /\ finished' = finished /\ taken \subseteq taken'
  BY <1>0, <1>2 DEF TypeOK, OtherTyped, history, Functions
<1>5. Progress' /\ QuietList
  BY <1>0, <1>2, ProgressSame DEF TransferInv, QuietList
<1> QED
  BY <1>1, <1>2, <1>4, <1>5, QuietTogether

-------------------------------------------------------------------------------
(* The timers, the recorder, the restart and the world outside. *)

LEMMA ExpiresKeeps ==
  TransferInv /\ (\E t \in {"BLOCK", "HEART"} : Expires(t)) => TransferInv' /\ QuietStep
<1> SUFFICES ASSUME TransferInv, NEW t \in {"BLOCK", "HEART"}, Expires(t)
             PROVE  TransferInv' /\ QuietStep
  OBVIOUS
<1>0. /\ queue \in Seq(Message) /\ TypeOK /\ Calm
      /\ timers' = timers \ {t} /\ UNCHANGED <<sock, lookups, cntx, tasks, retry, pc, history>>
      /\ queue' = Append(queue, [type |-> t])
  BY DEF TransferInv, TypeOK, Expires, Posted
<1>1. [type |-> t] \in Message /\ [type |-> t].type # "REQ"
  BY MessageForms
<1>2. QuietMail /\ SockTyped /\ upsets' \in 0 .. MaxUpsets
  BY <1>0, <1>1, SameSock, UpsetTyped DEF QuietMail
<1>3. OtherTyped /\ asked' = asked /\ finished' = finished /\ taken \subseteq taken'
  BY <1>0 DEF TypeOK, OtherTyped, history
<1>4. Progress' /\ QuietList /\ ErrorMet'
  BY <1>0 DEF TransferInv, Progress, Task1, QuietList, ErrorMet, InError
<1> QED
  BY <1>2, <1>3, <1>4, QuietTogether

LEMMA RequestKeeps == TransferInv /\ (\E f \in Files : Request(f)) => TransferInv'
<1> SUFFICES ASSUME TransferInv, NEW f \in Files, Request(f) PROVE TransferInv'
  OBVIOUS
<1>0. /\ queue \in Seq(Message) /\ TypeOK /\ Calm /\ asked' = asked \cup {f}
      /\ UNCHANGED <<sock, lookups, taskVars, finished, taken>>
      /\ queue' = Append(queue, [type |-> "REQ", file |-> f])
  BY DEF TransferInv, TypeOK, Request, Posted
<1>1. [type |-> "REQ", file |-> f] \in Message
  BY MessageForms
<1>2. queue' \in Seq(Message) /\ SockTyped /\ upsets' \in 0 .. MaxUpsets
  BY <1>0, <1>1, SameSock, UpsetTyped, AppendProperties
<1>3. OtherTyped
  BY <1>0 DEF TypeOK, OtherTyped, taskVars
<1>4. Progress' /\ QuietList /\ ErrorMet'
  BY <1>0 DEF TransferInv, Progress, Task1, QuietList, ErrorMet, InError, taskVars
<1> QED
  BY <1>2, <1>3, <1>4, Together

LEMMA RestartKeeps == TransferInv /\ Restart => TransferInv'
<1> SUFFICES ASSUME TransferInv, Restart PROVE TransferInv'
  OBVIOUS
<1> USE DEF Restart
<1>1. TypeOK /\ queue' \in Seq(Message)
  BY EmptySeq DEF TransferInv
<1>2. SockTyped /\ upsets' \in 0 .. MaxUpsets
  BY <1>1, ZeroedTyped, UpsetTyped DEF SockTyped, Attached
<1>3. OtherTyped
  BY <1>1 DEF TypeOK, OtherTyped, history
<1>4. Progress' /\ ErrorMet'
  BY ZeroedTyped, ProgressFresh DEF ErrorMet, InError
<1> QED
  BY <1>1, <1>2, <1>3, <1>4, Together

(* The world outside posts, and changes of the socket what the code does not look at. *)
Elsewhere ==
  /\ SockTyped /\ sock'.id = sock.id /\ sock'.error = sock.error
  /\ upsets' \in 0 .. MaxUpsets
  /\ \/ queue' = queue
     \/ \E m \in Message : m.type # "REQ" /\ queue' = Append(queue, m)

LEMMA ArrivesTyped ==
  ASSUME TypeOK, Attached, NEW a \in {"OK", "ERR"}, NEW n \in {0, 1}, n <= sock.due,
         NEW w \in 0 .. Torn, Arrives(a, n, w), upsets' \in 0 .. MaxUpsets
  PROVE  Elsewhere
<1>1. sock \in SocketState /\ lookups \subseteq BOOLEAN /\ sock.id \in Sockets
  BY DEF TypeOK, Attached, Arrives
<1>2. sock.due - n \in 0 .. DueMax
  BY <1>1, Bounds DEF SocketState
<1>3. Append(sock.inbox, a) \in Seq({"OK", "ERR"})
  BY <1>1, AppendProperties DEF SocketState
<1>4. sock' = [sock EXCEPT !.inbox = Append(sock.inbox, a), !.due = sock.due - n, !.wire = w]
  BY DEF Arrives
<1>5. /\ sock' \in SocketState /\ sock'.id = sock.id /\ sock'.error = sock.error
      /\ sock'.link = sock.link
  BY <1>1, <1>2, <1>3, <1>4 DEF SocketState
<1>6. /\ [type |-> "READ", id |-> sock.id] \in Message
      /\ [type |-> "READ", id |-> sock.id].type # "REQ"
  BY <1>1, MessageForms
<1>7. \/ queue' = queue
      \/ \E m \in Message : m.type # "REQ" /\ queue' = Append(queue, m)
  BY <1>6 DEF Arrives, Posted
<1> QED
  BY <1>1, <1>5, <1>7 DEF Elsewhere, SockTyped, Attached, Arrives

LEMMA OutsideTyped ==
  ASSUME TypeOK, Attached, Outside
  PROVE  Elsewhere
<1>0. sock \in SocketState /\ lookups \subseteq BOOLEAN
  BY DEF TypeOK
<1>1. ASSUME Calm \/ \E k \in UpsetKinds : Upset(k), UNCHANGED sock, lookups' \subseteq lookups,
             queue' = queue \/ \E m \in Message : m.type # "REQ" /\ queue' = Append(queue, m)
      PROVE  Elsewhere
  BY <1>0, <1>1, UpsetTyped DEF Elsewhere, SockTyped, Attached
<1>2. ASSUME Calm \/ \E k \in UpsetKinds : Upset(k), UNCHANGED lookups,
             NEW l \in {"connecting", "up", "dead"}, sock.link \in {"connecting", "up"},
             NEW b \in BOOLEAN, NEW d \in {0, 1}, sock.due >= d,
             \/ sock' = [sock EXCEPT !.link = l]
             \/ sock' = [sock EXCEPT !.full = b]
             \/ sock' = [sock EXCEPT !.due = @ - d]
             \/ sock' = [sock EXCEPT !.link = l, !.due = 0, !.full = b],
             queue' = queue \/ \E m \in Message : m.type # "REQ" /\ queue' = Append(queue, m)
      PROVE  Elsewhere
  <2>1. sock.due - d \in 0 .. DueMax /\ 0 \in 0 .. DueMax
    BY <1>0, <1>2, Bounds DEF SocketState
  <2>2. sock' \in SocketState /\ sock'.id = sock.id /\ sock'.error = sock.error
    BY <1>0, <1>2, <2>1 DEF SocketState
  <2>3. sock.id \in Sockets
    BY <1>2 DEF Attached
  <2> QED
    BY <1>0, <1>2, <2>2, <2>3, UpsetTyped DEF Elsewhere, SockTyped, Attached
<1>3. ASSUME NEW mine \in BOOLEAN, NEW ok \in BOOLEAN, LookupAnswered(mine, ok) PROVE Elsewhere
  <2>1. /\ [type |-> "DNS", mine |-> mine, ok |-> ok] \in Message
        /\ [type |-> "DNS", mine |-> mine, ok |-> ok].type # "REQ"
    BY MessageForms
  <2>2. Calm \/ \E k \in UpsetKinds : Upset(k)
    BY <1>3 DEF LookupAnswered, UpsetKinds
  <2> QED
    BY <1>1, <1>3, <2>1, <2>2 DEF LookupAnswered, Posted
<1>4. ASSUME NEW ok \in BOOLEAN, Connected(ok) PROVE Elsewhere
  <2>1. /\ [type |-> "CONNECT", id |-> sock.id, ok |-> ok] \in Message
        /\ [type |-> "CONNECT", id |-> sock.id, ok |-> ok].type # "REQ"
    BY <1>4, MessageForms DEF Connected, Attached
  <2>2. Calm \/ \E k \in UpsetKinds : Upset(k)
    BY <1>4 DEF Connected, UpsetKinds
  <2>3. \E l \in {"up", "dead"} : sock' = [sock EXCEPT !.link = l]
    BY <1>4 DEF Connected
  <2>4. sock.due >= 0
    BY <1>0, Bounds DEF SocketState
  <2> QED
    BY <1>2, <1>4, <2>1, <2>2, <2>3, <2>4 DEF Connected, Posted
<1>5. ASSUME NEW reset \in BOOLEAN, ServerCloses(reset) PROVE Elsewhere
  <2>1. /\ [type |-> "CLOSE", id |-> sock.id, ok |-> reset] \in Message
        /\ [type |-> "CLOSE", id |-> sock.id, ok |-> reset].type # "REQ"
    BY <1>5, MessageForms DEF ServerCloses, Attached
  <2>2. \E k \in UpsetKinds : Upset(k)
    BY <1>5 DEF ServerCloses, UpsetKinds
  <2>3. sock' = [sock EXCEPT !.link = "dead", !.due = 0, !.full = FALSE]
    BY <1>5 DEF ServerCloses
  <2>4. sock.due >= 0
    BY <1>0, Bounds DEF SocketState
  <2> QED
    BY <1>2, <1>5, <2>1, <2>2, <2>3, <2>4 DEF ServerCloses, Posted
<1>6. CASE LookupLost \/ Stop
  <2>1. [type |-> "STOP"] \in Message /\ [type |-> "STOP"].type # "REQ"
    BY MessageForms
  <2>2. \E k \in UpsetKinds : Upset(k)
    BY <1>6 DEF LookupLost, Stop, UpsetKinds
  <2> QED
    BY <1>1, <1>6, <2>1, <2>2 DEF LookupLost, Stop, Posted
<1>7. CASE ConnectLost \/ WriteLost \/ AnswerLost \/ WriteReady
  <2>1. CASE AnswerLost
    <3>1. sock.due - 1 \in 0 .. DueMax
      BY <1>0, <2>1, Bounds DEF SocketState, AnswerLost
    <3>2. /\ sock' \in SocketState /\ sock'.id = sock.id /\ sock'.error = sock.error
          /\ sock'.link = sock.link
      BY <1>0, <2>1, <3>1 DEF SocketState, AnswerLost
    <3>3. \E k \in UpsetKinds : Upset(k)
      BY <2>1 DEF AnswerLost, UpsetKinds
    <3> QED
      BY <1>0, <2>1, <3>2, <3>3, UpsetTyped DEF Elsewhere, SockTyped, Attached, AnswerLost
  <2>2. CASE ConnectLost \/ WriteLost \/ WriteReady
    <3>1. sock.due >= 0
      BY <1>0, Bounds DEF SocketState
    <3>2. Calm \/ \E k \in UpsetKinds : Upset(k)
      BY <2>2 DEF ConnectLost, WriteLost, WriteReady, UpsetKinds
    <3>3. WriteReady => /\ [type |-> "WRITE", id |-> sock.id] \in Message
                        /\ [type |-> "WRITE", id |-> sock.id].type # "REQ"
      BY MessageForms DEF WriteReady, Attached
    <3>4. CASE ConnectLost
      BY <1>2, <3>1, <3>2, <3>4 DEF ConnectLost
    <3>5. CASE WriteLost
      BY <1>2, <3>1, <3>2, <3>5 DEF WriteLost
    <3>6. CASE WriteReady
      BY <1>2, <3>1, <3>2, <3>3, <3>6 DEF WriteReady, Posted
    <3> QED
      BY <2>2, <3>4, <3>5, <3>6
  <2> QED
    BY <1>7, <2>1, <2>2
<1>8. CASE ServerAnswers \/ ServerRefuses
  <2>1. Calm \/ \E k \in UpsetKinds : Upset(k)
    BY <1>8 DEF ServerAnswers, ServerRefuses, UpsetKinds
  <2>2. upsets' \in 0 .. MaxUpsets
    BY <2>1, UpsetTyped
  <2>3. sock.wire \in 0 .. Torn /\ Torn \in 0 .. Torn /\ sock.due \in Nat
    BY <1>0, Bounds DEF SocketState
  <2>4. \/ sock.due > 0 /\ (Arrives("OK", 1, sock.wire) \/ Arrives("ERR", 1, sock.wire))
        \/ Arrives("ERR", 0, Torn)
    BY <1>8 DEF ServerAnswers, ServerRefuses
  <2>5. sock.due > 0 => 1 <= sock.due
    BY <2>3
  <2>6. 0 <= sock.due
    BY <2>3
  <2> QED
    BY <2>2, <2>3, <2>4, <2>5, <2>6, ArrivesTyped
<1> QED
  BY <1>3, <1>4, <1>5, <1>6, <1>7, <1>8 DEF Outside

LEMMA WorldKeeps == TransferInv /\ World => TransferInv' /\ QuietStep
<1> SUFFICES ASSUME TransferInv, World PROVE TransferInv' /\ QuietStep
  OBVIOUS
<1>0. /\ queue \in Seq(Message) /\ TypeOK /\ UNCHANGED <<taskVars, history>> /\ Elsewhere
  BY OutsideTyped DEF TransferInv, TypeOK, World
<1>1. QuietMail /\ SockTyped /\ upsets' \in 0 .. MaxUpsets
  BY <1>0, MailSame DEF Elsewhere, QuietMail
<1>2. OtherTyped /\ asked' = asked /\ finished' = finished /\ taken \subseteq taken'
  BY <1>0 DEF TypeOK, OtherTyped, history, taskVars
<1>3. Progress' /\ QuietList /\ ErrorMet'
  BY <1>0 DEF TransferInv, Progress, Task1, QuietList, ErrorMet, InError, taskVars, Elsewhere
<1> QED
  BY <1>1, <1>2, <1>3, QuietTogether

-------------------------------------------------------------------------------
(* Every step keeps the invariant, and hands over, finishes or loses at most. *)

LEMMA TransferStarts == Init => TransferInv
<1> SUFFICES ASSUME Init PROVE TransferInv
  OBVIOUS
<1> USE DEF Init
<1>1. queue \in Seq(Message) /\ tasks \in Seq(threedo_tt_node) /\ finished \in Seq(Files)
  BY EmptySeq
<1>2. TypeOK
  <2>1. upsets \in 0 .. MaxUpsets
    BY BoundsAssumption
  <2>2. Len(tasks) <= TaskMax
    BY Bounds
  <2>3. sock \in SocketState /\ lookups \subseteq BOOLEAN
    BY ZeroedTyped
  <2>4. /\ cntx \in BOOLEAN /\ timers \subseteq {"BLOCK", "HEART"} /\ retry \in BOOLEAN
        /\ pc \in {"idle", "fault", "hung"} \cup Functions /\ asked \subseteq Files
        /\ taken \subseteq Files
    OBVIOUS
  <2> QED
    BY <1>1, <2>1, <2>2, <2>3, <2>4, Zenon DEF TypeOK
<1> QED
  BY <1>1, <1>2, ZeroedTyped, Bounds
     DEF TransferInv, Attached, ListOK, OneAtATime, Progress, ErrorMet, InError

LEMMA Steps ==
  TransferInv /\ [Next]_vars
    => /\ TransferInv'
       /\ \/ QuietStep \/ FinishStep \/ FileTransReq \/ HeartTimeout \/ Restart
          \/ \E f \in Files : Request(f)
<1> SUFFICES ASSUME TransferInv, [Next]_vars
             PROVE  /\ TransferInv'
                    /\ \/ QuietStep \/ FinishStep \/ FileTransReq \/ HeartTimeout \/ Restart
                       \/ \E f \in Files : Request(f)
  OBVIOUS
<1>1. CASE Process \/ NoHead
  BY <1>1, BusyKeeps, DropsKeeps, StartsKeeps, ClosesKeeps, NoHeadKeeps DEF Process
<1>2. CASE Write \/ Upload \/ ReadAnswer
  BY <1>2, WriteHeadKeeps, WriteTailKeeps, WriteOtherKeeps, NoFileKeeps, PieceKeeps, TailKeeps,
     ReadKeeps DEF Write, Upload
<1>3. CASE Check
  BY <1>3, CheckNoTaskKeeps, CheckFinishedKeeps, CheckSentKeeps, CheckAgainKeeps DEF Check
<1>4. CASE Messages
  BY <1>4, ReqKeeps, StopKeeps, BlockKeeps, HeartKeeps, EventKeeps, NameKeeps DEF Messages
<1>5. CASE Restart
  BY <1>5, RestartKeeps
<1>6. CASE World \/ \E t \in {"BLOCK", "HEART"} : Expires(t)
  BY <1>6, WorldKeeps, ExpiresKeeps
<1>7. CASE \E f \in Files : Request(f)
  BY <1>7, RequestKeeps
<1>8. CASE UNCHANGED vars
  <2>1. UNCHANGED <<sock, lookups, queue, upsets, cntx, tasks, timers, retry, pc>>
        /\ UNCHANGED <<asked, finished, taken>>
    BY <1>8 DEF vars
  <2>2. TransferInv'
    BY <2>1 DEF TransferInv, TypeOK, Attached, ListOK, OneAtATime, Progress, ErrorMet, InError,
       Task1
  <2>3. QuietStep
    BY <2>1, MailSame DEF QuietStep, QuietList, TransferInv, TypeOK
  <2> QED
    BY <2>2, <2>3
<1> QED
  BY <1>1, <1>2, <1>3, <1>4, <1>5, <1>6, <1>7, <1>8 DEF Next, ThreedoTask

LEMMA TransferInvariant == Spec => []TransferInv
<1>1. TransferInv /\ [Next]_vars => TransferInv'
  BY Steps
<1> QED
  BY <1>1, TransferStarts, PTL DEF Spec

(* Every variable of the file transfer stays in its range, whatever restarts it: the list
   of nodes within TD_FTTM_TASK_MAX and the tries of a node within TD_FTTM_RETRY_MAX. *)
THEOREM TransferTyped == Spec => []TypeOK
<1>1. TransferInv => TypeOK
  BY DEF TransferInv
<1> QED
  BY <1>1, TransferInvariant, PTL

(* Only the first node of the list is ever under way: whichever way
   _td_file_trans_check_and_clear_task and threedo_file_trans_process give it up or put it
   back, what stands behind it has not begun. *)
THEOREM OneTaskAtATime == Spec => []OneAtATime
<1>1. TransferInv => OneAtATime
  BY DEF TransferInv, ListOK
<1> QED
  BY <1>1, TransferInvariant, PTL

(* No handler of ThreedoTask ends with a socket in error: each path that meets one ends in
   _td_file_trans_check_and_clear_task, which closes it. *)
THEOREM ErrorsClose == Spec => []ErrorCloses
<1>1. TransferInv => ErrorCloses
  BY DEF TransferInv, ErrorMet, InError, ErrorCloses, HasSocket
<1> QED
  BY <1>1, TransferInvariant, PTL

-------------------------------------------------------------------------------
(* Where a recording is: in the list, in the mailbox, or reported. *)

InList(f) == \E i \in 1 .. Len(tasks) : tasks[i].file = f
InMail(f) == \E i \in 1 .. Len(queue) : queue[i].type = "REQ" /\ queue[i].file = f
Reported(f) == \E i \in 1 .. Len(finished) : finished[i] = f

ListOnce == \A i, j \in 1 .. Len(tasks) : tasks[i].file = tasks[j].file => i = j
MailOnce ==
  \A i, j \in 1 .. Len(queue) :
    queue[i].type = "REQ" /\ queue[j].type = "REQ" /\ queue[i].file = queue[j].file => i = j
ReportedOnce == \A i, j \in 1 .. Len(finished) : finished[i] = finished[j] => i = j

OnePlace(f) ==
  /\ InList(f) => f \in asked /\ ~InMail(f) /\ ~Reported(f)
  /\ InMail(f) => f \in asked /\ ~Reported(f)
  /\ Reported(f) => f \in asked

(* A recording is in one place, and once, from the time it was handed over. *)
Once == ListOnce /\ MailOnce /\ ReportedOnce /\ \A f \in Files : OnePlace(f)

(* What is complete, or reported, was taken by the stack, part by part. *)
TakenInv ==
  /\ \A i \in 1 .. Len(tasks) : Complete(tasks[i]) => tasks[i].file \in taken
  /\ \A i \in 1 .. Len(finished) : finished[i] \in taken

LEMMA QuietListKeeps ==
  ASSUME ListOK, ListOnce, QuietList, taken \subseteq taken'
  PROVE  /\ ListOnce'
         /\ \A f : InList(f)' => InList(f)
         /\ (\A i \in 1 .. Len(tasks) : Complete(tasks[i]) => tasks[i].file \in taken)
              => (\A i \in 1 .. Len(tasks') : Complete(tasks'[i]) => tasks'[i].file \in taken')
<1>0. Len(tasks) \in Nat
  BY LenProperties DEF ListOK
<1>1. CASE tasks' = tasks
  BY <1>1 DEF ListOnce, InList
<1>2. CASE HeadChanged
  <2>1. PICK t \in threedo_tt_node :
          /\ t.file = Task1.file /\ tasks' = WithHead(t)
          /\ Complete(t) => Complete(Task1) \/ t.file \in taken'
    BY <1>2, Zenon DEF HeadChanged
  <2>2. /\ Len(tasks') = Len(tasks) /\ tasks'[1] = t
        /\ \A i \in 2 .. Len(tasks) : tasks'[i] = tasks[i]
    BY <1>2, <2>1, HeadForm DEF HeadChanged
  <2>3. \A i \in 1 .. Len(tasks) : i = 1 \/ i \in 2 .. Len(tasks)
    BY <1>0
  <2>4. \A i \in 1 .. Len(tasks) :
          /\ tasks'[i].file = tasks[i].file
          /\ Complete(tasks'[i]) => Complete(tasks[i]) \/ tasks'[i].file \in taken'
    BY <2>1, <2>2, <2>3 DEF Task1
  <2> QED
    BY <2>2, <2>4 DEF ListOnce, InList
<1>3. CASE Dropped
  <2>1. /\ Len(tasks') = Len(tasks) - 1
        /\ \A i \in 1 .. Len(tasks') : tasks'[i] = tasks[i + 1] /\ Unstarted(tasks'[i])
    BY <1>3, TailForm DEF Dropped
  <2>2. \A i \in 1 .. Len(tasks') : i + 1 \in 1 .. Len(tasks)
    BY <1>0, <2>1
  <2>3. \A i \in 1 .. Len(tasks') : ~Complete(tasks'[i])
    BY <2>1 DEF Unstarted, Complete
  <2>4. ListOnce'
    <3> SUFFICES ASSUME NEW i \in 1 .. Len(tasks'), NEW j \in 1 .. Len(tasks'),
                        tasks'[i].file = tasks'[j].file
                 PROVE  i = j
      BY DEF ListOnce
    <3>1. i + 1 = j + 1
      BY <2>1, <2>2 DEF ListOnce
    <3> QED
      BY <3>1
  <2>5. \A f : InList(f)' => InList(f)
    BY <2>1, <2>2 DEF InList
  <2> QED
    BY <2>3, <2>4, <2>5
<1>4. CASE Requeued
  <2>1. PICK t \in threedo_tt_node :
          t.file = Task1.file /\ Unstarted(t) /\ tasks' = Append(Tail(tasks), t)
    BY <1>4 DEF Requeued
  <2>2. /\ Len(tasks') = Len(tasks) /\ tasks'[Len(tasks)] = t
        /\ \A i \in 1 .. Len(tasks) - 1 : tasks'[i] = tasks[i + 1]
        /\ \A i \in 1 .. Len(tasks) : Unstarted(tasks'[i])
        /\ Len(tasks) \in Nat \ {0}
    BY <1>4, <2>1, AgainForm, HeadForm DEF Requeued
  <2> DEFINE from(i) == IF i = Len(tasks) THEN 1 ELSE i + 1
  <2>3. \A i \in 1 .. Len(tasks) : from(i) \in 1 .. Len(tasks)
    BY <2>2
  <2>4. \A i \in 1 .. Len(tasks) : tasks'[i].file = tasks[from(i)].file
    <3> TAKE i \in 1 .. Len(tasks)
    <3>1. CASE i = Len(tasks)
      BY <2>1, <2>2, <3>1 DEF Task1
    <3>2. CASE i # Len(tasks)
      <4>1. i \in 1 .. Len(tasks) - 1
        BY <2>2, <3>2
      <4> QED
        BY <2>2, <3>2, <4>1
    <3> QED
      BY <3>1, <3>2
  <2>5. \A i, j \in 1 .. Len(tasks) : from(i) = from(j) => i = j
    BY <2>2
  <2>6. \A i \in 1 .. Len(tasks') : ~Complete(tasks'[i])
    BY <2>2 DEF Unstarted, Complete
  <2> HIDE DEF from
  <2>7. ListOnce'
    <3> SUFFICES ASSUME NEW i \in 1 .. Len(tasks), NEW j \in 1 .. Len(tasks),
                        tasks'[i].file = tasks'[j].file
                 PROVE  i = j
      BY <2>2 DEF ListOnce
    <3>1. from(i) = from(j)
      BY <2>3, <2>4 DEF ListOnce
    <3> QED
      BY <2>5, <3>1
  <2>8. \A f : InList(f)' => InList(f)
    BY <2>2, <2>3, <2>4 DEF InList
  <2> QED
    BY <2>6, <2>7, <2>8
<1> QED
  BY <1>1, <1>2, <1>3, <1>4 DEF QuietList

(* The mailbox of requests is left alone. *)
LEMMA SameMailKeeps ==
  ASSUME NEW q \in Seq(Message), NEW p, SameMail(q, p)
  PROVE  /\ \A i \in 1 .. Len(q) :
              /\ p[i].type = "REQ" <=> q[i].type = "REQ"
              /\ q[i].type = "REQ" => p[i].file = q[i].file
         /\ Len(p) = Len(q)
BY DEF SameMail

LEMMA RestMail ==
  ASSUME queue \in Seq(Message), queue # <<>>, SameMail(Rest, queue'), MailOnce
  PROVE  /\ MailOnce'
         /\ \A f : InMail(f)' => InMail(f)
         /\ \A f : InMail(f) /\ ~(Head(queue).type = "REQ" /\ Head(queue).file = f) => InMail(f)'
         /\ \A f : Head(queue).type = "REQ" /\ Head(queue).file = f => InMail(f) /\ ~InMail(f)'
<1>1. /\ Rest \in Seq(Message) /\ Len(queue) \in Nat \ {0} /\ Len(Rest) = Len(queue) - 1
      /\ \A i \in 1 .. Len(Rest) : Rest[i] = queue[i + 1]
      /\ Head(queue) = queue[1]
  BY RestKeeps
<1>2. /\ \A i \in 1 .. Len(Rest) :
           /\ queue'[i].type = "REQ" <=> Rest[i].type = "REQ"
           /\ Rest[i].type = "REQ" => queue'[i].file = Rest[i].file
      /\ Len(queue') = Len(Rest)
  BY <1>1, SameMailKeeps, Zenon
<1>3. \A i \in 1 .. Len(queue') :
        /\ i + 1 \in 1 .. Len(queue) /\ i + 1 # 1
        /\ queue'[i].type = "REQ" <=> queue[i + 1].type = "REQ"
        /\ queue[i + 1].type = "REQ" => queue'[i].file = queue[i + 1].file
  BY <1>1, <1>2
<1>4. MailOnce'
  <2> SUFFICES ASSUME NEW i \in 1 .. Len(queue'), NEW j \in 1 .. Len(queue'),
                      queue'[i].type = "REQ", queue'[j].type = "REQ",
                      queue'[i].file = queue'[j].file
               PROVE  i = j
    BY DEF MailOnce
  <2>1. i + 1 = j + 1
    BY <1>3 DEF MailOnce
  <2> QED
    BY <2>1
<1>5. \A f : InMail(f)' => InMail(f)
  BY <1>3 DEF InMail
<1>6. \A i \in 1 .. Len(queue) : i # 1 => i - 1 \in 1 .. Len(queue') /\ (i - 1) + 1 = i
  BY <1>1, <1>2
<1>7. ASSUME NEW f, InMail(f), ~(Head(queue).type = "REQ" /\ Head(queue).file = f)
      PROVE  InMail(f)'
  <2>1. PICK i \in 1 .. Len(queue) : queue[i].type = "REQ" /\ queue[i].file = f
    BY <1>7 DEF InMail
  <2>2. i # 1
    BY <1>1, <1>7, <2>1
  <2> DEFINE k == i - 1
  <2>3. k \in 1 .. Len(queue') /\ k + 1 = i
    BY <1>6, <2>2
  <2> HIDE DEF k
  <2> QED
    BY <1>3, <2>1, <2>3 DEF InMail
<1>8. ASSUME NEW f, Head(queue).type = "REQ", Head(queue).file = f
      PROVE  InMail(f) /\ ~InMail(f)'
  <2>1. 1 \in 1 .. Len(queue)
    BY <1>1
  <2>2. InMail(f)
    BY <1>1, <1>8, <2>1 DEF InMail
  <2>3. ASSUME NEW i \in 1 .. Len(queue'), queue'[i].type = "REQ", queue'[i].file = f
        PROVE  FALSE
    BY <1>1, <1>3, <1>8, <2>1, <2>3 DEF MailOnce
  <2>4. ~InMail(f)'
    BY <2>3 DEF InMail
  <2> QED
    BY <2>2, <2>4
<1> QED
  BY <1>4, <1>5, <1>7, <1>8

LEMMA PostedMail ==
  ASSUME queue \in Seq(Message), MailOnce, NEW m \in Message, queue' = Append(queue, m),
         \A f : m.type = "REQ" /\ m.file = f => ~InMail(f)
  PROVE  /\ MailOnce'
         /\ \A f : InMail(f)' <=> InMail(f) \/ (m.type = "REQ" /\ m.file = f)
<1>1. /\ Len(queue) \in Nat /\ Len(queue') = Len(queue) + 1
      /\ queue'[Len(queue')] = m
      /\ \A i \in 1 .. Len(queue) : queue'[i] = queue[i]
  BY AppendProperties, LenProperties
<1>2. /\ \A i \in 1 .. Len(queue') : i = Len(queue') \/ i \in 1 .. Len(queue)
      /\ \A i \in 1 .. Len(queue) : i \in 1 .. Len(queue')
      /\ Len(queue') \in 1 .. Len(queue')
  BY <1>1
<1>3. MailOnce'
  <2> SUFFICES ASSUME NEW i \in 1 .. Len(queue'), NEW j \in 1 .. Len(queue'),
                      queue'[i].type = "REQ", queue'[j].type = "REQ",
                      queue'[i].file = queue'[j].file
               PROVE  i = j
    BY DEF MailOnce
  <2>1. CASE i \in 1 .. Len(queue) /\ j \in 1 .. Len(queue)
    BY <1>1, <2>1 DEF MailOnce
  <2>2. CASE i = Len(queue') /\ j \in 1 .. Len(queue)
    BY <1>1, <2>2 DEF InMail
  <2>3. CASE j = Len(queue') /\ i \in 1 .. Len(queue)
    BY <1>1, <2>3 DEF InMail
  <2> QED
    BY <1>2, <2>1, <2>2, <2>3
<1>4. ASSUME NEW f PROVE InMail(f)' <=> InMail(f) \/ (m.type = "REQ" /\ m.file = f)
  <2>1. InMail(f)' => InMail(f) \/ (m.type = "REQ" /\ m.file = f)
    BY <1>1, <1>2 DEF InMail
  <2>2. InMail(f) \/ (m.type = "REQ" /\ m.file = f) => InMail(f)'
    BY <1>1, <1>2 DEF InMail
  <2> QED
    BY <2>1, <2>2
<1> QED
  BY <1>3, <1>4

LEMMA QuietMailKeeps ==
  ASSUME queue \in Seq(Message), MailOnce, QuietMail
  PROVE  MailOnce' /\ \A f : InMail(f)' <=> InMail(f)
<1>1. CASE SameMail(queue, queue')
  <2>1. /\ \A i \in 1 .. Len(queue) :
             /\ queue'[i].type = "REQ" <=> queue[i].type = "REQ"
             /\ queue[i].type = "REQ" => queue'[i].file = queue[i].file
        /\ Len(queue') = Len(queue)
    BY <1>1, SameMailKeeps, Zenon
  <2> QED
    BY <2>1 DEF MailOnce, InMail
<1>2. CASE queue # <<>> /\ Head(queue).type # "REQ" /\ SameMail(Rest, queue')
  BY <1>2, RestMail
<1>3. ASSUME NEW m \in Message, m.type # "REQ", queue' = Append(queue, m)
      PROVE  MailOnce' /\ \A f : InMail(f)' <=> InMail(f)
  BY <1>3, PostedMail
<1> QED
  BY <1>1, <1>2, <1>3 DEF QuietMail

(* Without its head the list has what stood behind it. *)
LEMMA DroppedList ==
  ASSUME ListOK, ListOnce, Dropped
  PROVE  \A f : InList(f)' <=> InList(f) /\ f # Task1.file
<1>1. /\ Len(tasks) \in Nat \ {0} /\ Len(tasks') = Len(tasks) - 1
      /\ \A i \in 1 .. Len(tasks') : tasks'[i] = tasks[i + 1]
  BY TailForm, HeadForm DEF Dropped
<1>2. /\ 1 \in 1 .. Len(tasks)
      /\ \A i \in 1 .. Len(tasks') : i + 1 \in 1 .. Len(tasks) /\ i + 1 # 1
      /\ \A i \in 1 .. Len(tasks) : i # 1 => i - 1 \in 1 .. Len(tasks') /\ (i - 1) + 1 = i
  BY <1>1
<1>3. ASSUME NEW f, InList(f)' PROVE InList(f) /\ f # Task1.file
  <2>1. PICK i \in 1 .. Len(tasks') : tasks'[i].file = f
    BY <1>3 DEF InList
  <2> DEFINE k == i + 1
  <2>2. k \in 1 .. Len(tasks) /\ k # 1 /\ tasks[k].file = f
    BY <1>1, <1>2, <2>1
  <2> HIDE DEF k
  <2> QED
    BY <1>2, <2>2 DEF ListOnce, InList, Task1
<1>4. ASSUME NEW f, InList(f), f # Task1.file PROVE InList(f)'
  <2>1. PICK i \in 1 .. Len(tasks) : tasks[i].file = f
    BY <1>4 DEF InList
  <2>2. i # 1
    BY <1>4, <2>1 DEF Task1
  <2> DEFINE k == i - 1
  <2>3. k \in 1 .. Len(tasks') /\ k + 1 = i
    BY <1>2, <2>2
  <2> HIDE DEF k
  <2> QED
    BY <1>1, <2>1, <2>3 DEF InList
<1> QED
  BY <1>3, <1>4

LEMMA GrownList ==
  ASSUME ListOK, ListOnce, NEW f, tasks' = Append(tasks, NewNode(f)), ~InList(f)
  PROVE  /\ ListOnce'
         /\ \A g : InList(g)' <=> InList(g) \/ g = f
         /\ (\A i \in 1 .. Len(tasks) : Complete(tasks[i]) => tasks[i].file \in taken)
              => (\A i \in 1 .. Len(tasks') : Complete(tasks'[i]) => tasks'[i].file \in taken)
<1> DEFINE n == NewNode(f)
<1>0. n.file = f /\ ~Complete(n)
  BY DEF NewNode, Complete
<1>1. /\ Len(tasks) \in Nat /\ Len(tasks') = Len(tasks) + 1
      /\ tasks'[Len(tasks')] = n
      /\ \A i \in 1 .. Len(tasks) : tasks'[i] = tasks[i]
  BY AppendProperties, LenProperties DEF ListOK
<1> HIDE DEF n
<1>2. /\ \A i \in 1 .. Len(tasks') : i = Len(tasks') \/ i \in 1 .. Len(tasks)
      /\ \A i \in 1 .. Len(tasks) : i \in 1 .. Len(tasks')
      /\ Len(tasks') \in 1 .. Len(tasks')
  BY <1>1
<1>3. ListOnce'
  <2> SUFFICES ASSUME NEW i \in 1 .. Len(tasks'), NEW j \in 1 .. Len(tasks'),
                      tasks'[i].file = tasks'[j].file
               PROVE  i = j
    BY DEF ListOnce
  <2>1. CASE i \in 1 .. Len(tasks) /\ j \in 1 .. Len(tasks)
    BY <1>1, <2>1 DEF ListOnce
  <2>2. CASE i = Len(tasks') /\ j \in 1 .. Len(tasks)
    BY <1>0, <1>1, <2>2 DEF InList
  <2>3. CASE j = Len(tasks') /\ i \in 1 .. Len(tasks)
    BY <1>0, <1>1, <2>3 DEF InList
  <2> QED
    BY <1>2, <2>1, <2>2, <2>3
<1>4. ASSUME NEW g PROVE InList(g)' <=> InList(g) \/ g = f
  <2>1. InList(g)' => InList(g) \/ g = f
    BY <1>0, <1>1, <1>2 DEF InList
  <2>2. InList(g) \/ g = f => InList(g)'
    BY <1>0, <1>1, <1>2 DEF InList
  <2> QED
    BY <2>1, <2>2
<1>5. (\A i \in 1 .. Len(tasks) : Complete(tasks[i]) => tasks[i].file \in taken)
        => (\A i \in 1 .. Len(tasks') : Complete(tasks'[i]) => tasks'[i].file \in taken)
  BY <1>0, <1>1, <1>2
<1> QED
  BY <1>3, <1>4, <1>5

-------------------------------------------------------------------------------
(* Steps that report nothing. *)

(* Nothing comes to wait that did not, and nothing else changes for the recorder. *)
Fewer ==
  /\ \A f \in Files : InList(f)' \/ InMail(f)' => InList(f) \/ InMail(f)
  /\ asked' = asked /\ finished' = finished

(* The head is reported. *)
Reports ==
  /\ Task1.file \in Files /\ InList(Task1.file) /\ finished' = Append(finished, Task1.file)
  /\ \A f \in Files : InList(f)' \/ InMail(f)' <=> (InList(f) \/ InMail(f)) /\ f # Task1.file
  /\ asked' = asked

(* One more is handed over. *)
Hands(f) ==
  /\ f \notin asked /\ asked' = asked \cup {f} /\ finished' = finished
  /\ \A g \in Files : InList(g)' \/ InMail(g)' <=> InList(g) \/ InMail(g) \/ g = f

UploadInv == TransferInv /\ Once /\ TakenInv

LEMMA QuietOnce ==
  ASSUME UploadInv, QuietStep
  PROVE  Once' /\ TakenInv' /\ Fewer
<1>1. /\ ListOK /\ queue \in Seq(Message) /\ QuietList /\ QuietMail /\ taken \subseteq taken'
      /\ ListOnce /\ MailOnce /\ asked' = asked /\ finished' = finished
  BY DEF UploadInv, TransferInv, TypeOK, QuietStep, Once
<1>2. /\ ListOnce' /\ (\A f : InList(f)' => InList(f))
      /\ (\A i \in 1 .. Len(tasks') : Complete(tasks'[i]) => tasks'[i].file \in taken')
  BY <1>1, QuietListKeeps DEF UploadInv, TakenInv
<1>3. MailOnce' /\ \A f : InMail(f)' <=> InMail(f)
  BY <1>1, QuietMailKeeps
<1>4. ReportedOnce' /\ \A f : Reported(f)' <=> Reported(f)
  BY <1>1 DEF UploadInv, Once, ReportedOnce, Reported
<1>5. Once'
  <2>1. \A f \in Files : OnePlace(f)
    BY Zenon DEF UploadInv, Once
  <2>2. \A f \in Files : OnePlace(f)'
    BY <1>1, <1>2, <1>3, <1>4, <2>1 DEF OnePlace
  <2> QED
    BY <1>2, <1>3, <1>4, <2>2 DEF Once
<1>6. TakenInv'
  BY <1>1, <1>2 DEF UploadInv, TakenInv
<1> QED
  BY <1>1, <1>2, <1>3, <1>5, <1>6 DEF Fewer

LEMMA FinishOnce ==
  ASSUME UploadInv, FinishStep
  PROVE  Once' /\ TakenInv' /\ Reports
<1>1. /\ ListOK /\ queue \in Seq(Message) /\ Dropped /\ QuietMail /\ taken \subseteq taken'
      /\ ListOnce /\ MailOnce /\ asked' = asked /\ Complete(Task1) /\ tasks # <<>>
      /\ finished' = Append(finished, Task1.file) /\ finished \in Seq(Files)
  BY DEF UploadInv, TransferInv, TypeOK, FinishStep, Once, Dropped
<1>2. /\ Task1.file \in Files /\ InList(Task1.file) /\ Task1.file \in taken
  <2>1. Len(tasks) \in Nat \ {0} /\ Task1 \in threedo_tt_node
    BY <1>1, HeadForm
  <2>2. 1 \in 1 .. Len(tasks)
    BY <2>1
  <2> QED
    BY <1>1, <2>1, <2>2
       DEF Complete, IsUpload, threedo_tt_node, InList, Task1, UploadInv, TakenInv
<1>3. /\ ListOnce' /\ (\A f : InList(f)' <=> InList(f) /\ f # Task1.file)
      /\ (\A i \in 1 .. Len(tasks') : Complete(tasks'[i]) => tasks'[i].file \in taken')
  <2>1. QuietList
    BY <1>1 DEF QuietList
  <2> QED
    BY <1>1, <2>1, QuietListKeeps, DroppedList DEF UploadInv, TakenInv
<1>4. MailOnce' /\ \A f : InMail(f)' <=> InMail(f)
  BY <1>1, QuietMailKeeps
<1>5. /\ Len(finished) \in Nat /\ Len(finished') = Len(finished) + 1
      /\ finished'[Len(finished')] = Task1.file
      /\ \A i \in 1 .. Len(finished) : finished'[i] = finished[i]
  BY <1>1, <1>2, AppendProperties, LenProperties
<1>6. /\ \A i \in 1 .. Len(finished') : i = Len(finished') \/ i \in 1 .. Len(finished)
      /\ \A i \in 1 .. Len(finished) : i \in 1 .. Len(finished')
      /\ Len(finished') \in 1 .. Len(finished')
  BY <1>5
<1>7. \A f : Reported(f)' <=> Reported(f) \/ f = Task1.file
  <2> TAKE f
  <2>1. Reported(f)' => Reported(f) \/ f = Task1.file
    BY <1>5, <1>6 DEF Reported
  <2>2. Reported(f) \/ f = Task1.file => Reported(f)'
    BY <1>5, <1>6 DEF Reported
  <2> QED
    BY <2>1, <2>2
<1>8. ~Reported(Task1.file) /\ ~InMail(Task1.file) /\ Task1.file \in asked
  <2>1. OnePlace(Task1.file)
    BY <1>2, Zenon DEF UploadInv, Once
  <2> QED
    BY <1>2, <2>1 DEF OnePlace
<1>9. ReportedOnce'
  <2> SUFFICES ASSUME NEW i \in 1 .. Len(finished'), NEW j \in 1 .. Len(finished'),
                      finished'[i] = finished'[j]
               PROVE  i = j
    BY DEF ReportedOnce
  <2>1. CASE i \in 1 .. Len(finished) /\ j \in 1 .. Len(finished)
    BY <1>5, <2>1 DEF UploadInv, Once, ReportedOnce
  <2>2. CASE i = Len(finished') /\ j \in 1 .. Len(finished)
    BY <1>5, <1>8, <2>2 DEF Reported
  <2>3. CASE j = Len(finished') /\ i \in 1 .. Len(finished)
    BY <1>5, <1>8, <2>3 DEF Reported
  <2> QED
    BY <1>6, <2>1, <2>2, <2>3
<1>10. \A f \in Files : OnePlace(f)'
  <2> TAKE f \in Files
  <2>1. OnePlace(f)
    BY Zenon DEF UploadInv, Once
  <2>2. CASE f = Task1.file
    BY <1>1, <1>3, <1>4, <1>7, <1>8, <2>1, <2>2 DEF OnePlace
  <2>3. CASE f # Task1.file
    BY <1>1, <1>3, <1>4, <1>7, <2>1, <2>3 DEF OnePlace
  <2> QED
    BY <2>2, <2>3
<1>11. Once'
  BY <1>3, <1>4, <1>9, <1>10 DEF Once
<1>12. TakenInv'
  BY <1>1, <1>2, <1>3, <1>5, <1>6 DEF UploadInv, TakenInv
<1>13. Reports
  BY <1>1, <1>2, <1>3, <1>4, <1>8 DEF Reports
<1> QED
  BY <1>11, <1>12, <1>13

LEMMA ReqOnce ==
  ASSUME UploadInv, FileTransReq
  PROVE  Once' /\ TakenInv' /\ Fewer
<1>1. /\ ListOK /\ queue \in Seq(Message) /\ queue # <<>> /\ Head(queue).type = "REQ"
      /\ ListOnce /\ MailOnce /\ queue' = Rest
      /\ asked' = asked /\ finished' = finished /\ taken' = taken
  BY DEF UploadInv, TransferInv, TypeOK, Once, FileTransReq, Take, history
<1>2. PICK f : f = Head(queue).file
  OBVIOUS
<1>3. f \in Files
  BY <1>1, <1>2, RestKeeps DEF Message
<1>4. /\ MailOnce' /\ (\A g : InMail(g)' => InMail(g)) /\ InMail(f) /\ ~InMail(f)'
  <2>1. SameMail(Rest, queue')
    BY <1>1, RestKeeps, OutdateKeeps
  <2> QED
    BY <1>1, <1>2, <2>1, RestMail
<1>5. ~InList(f) /\ ~Reported(f) /\ f \in asked
  <2>1. OnePlace(f)
    BY <1>3, Zenon DEF UploadInv, Once
  <2> QED
    BY <1>4, <2>1 DEF OnePlace
<1>6. /\ ListOnce' /\ (\A g : InList(g)' => InList(g) \/ g = f)
      /\ (\A i \in 1 .. Len(tasks') : Complete(tasks'[i]) => tasks'[i].file \in taken')
  <2>1. CASE tasks' = tasks
    BY <1>1, <2>1 DEF ListOnce, InList, UploadInv, TakenInv
  <2>2. CASE tasks' = Append(tasks, NewNode(f))
    BY <1>1, <1>5, <2>2, GrownList DEF UploadInv, TakenInv
  <2> QED
    BY <1>2, <2>1, <2>2 DEF FileTransReq
<1>7. ReportedOnce' /\ \A g : Reported(g)' <=> Reported(g)
  BY <1>1 DEF UploadInv, Once, ReportedOnce, Reported
<1>8. \A g \in Files : OnePlace(g)'
  <2> TAKE g \in Files
  <2>1. OnePlace(g)
    BY Zenon DEF UploadInv, Once
  <2>2. CASE g = f
    BY <1>1, <1>4, <1>5, <1>7, <2>2 DEF OnePlace
  <2>3. CASE g # f
    BY <1>1, <1>4, <1>6, <1>7, <2>1, <2>3 DEF OnePlace
  <2> QED
    BY <2>2, <2>3
<1>9. Once'
  BY <1>4, <1>6, <1>7, <1>8 DEF Once
<1>10. TakenInv'
  BY <1>1, <1>6 DEF UploadInv, TakenInv
<1>11. Fewer
  BY <1>1, <1>4, <1>6 DEF Fewer
<1> QED
  BY <1>9, <1>10, <1>11

LEMMA HeartOnce ==
  ASSUME UploadInv, HeartTimeout
  PROVE  Once' /\ TakenInv' /\ Fewer
<1>1. /\ ListOK /\ queue \in Seq(Message) /\ queue # <<>> /\ Head(queue).type = "HEART"
      /\ ListOnce /\ MailOnce /\ queue' = Rest /\ Take("HEART")
      /\ asked' = asked /\ finished' = finished /\ taken' = taken
  BY DEF UploadInv, TransferInv, TypeOK, Once, HeartTimeout, Take, history
<1>2. /\ MailOnce' /\ (\A g : InMail(g)' <=> InMail(g))
  <2>1. QuietMail
    BY <1>1, MailSame
  <2> QED
    BY <1>1, <2>1, QuietMailKeeps
<1>3. /\ ListOnce' /\ (\A g \in Files : InList(g)' => InList(g))
      /\ (\A i \in 1 .. Len(tasks') : Complete(tasks'[i]) => tasks'[i].file \in taken')
  <2>1. CASE tasks' = tasks
    BY <1>1, <2>1 DEF ListOnce, InList, UploadInv, TakenInv
  <2>2. CASE tasks = <<>> /\ tasks' = <<NewNode(Beat)>>
    <3>1. tasks' = Append(tasks, NewNode(Beat)) /\ ~InList(Beat)
      BY <2>2 DEF InList
    <3> QED
      BY <1>1, <3>1, GrownList, BeatAssumption DEF UploadInv, TakenInv
  <2> QED
    BY <2>1, <2>2 DEF HeartTimeout
<1>4. ReportedOnce' /\ \A g : Reported(g)' <=> Reported(g)
  BY <1>1 DEF UploadInv, Once, ReportedOnce, Reported
<1>5. Once'
  <2>1. \A f \in Files : OnePlace(f)
    BY Zenon DEF UploadInv, Once
  <2>2. \A f \in Files : OnePlace(f)'
    BY <1>1, <1>2, <1>3, <1>4, <2>1 DEF OnePlace
  <2> QED
    BY <1>2, <1>3, <1>4, <2>2 DEF Once
<1>6. TakenInv'
  BY <1>1, <1>3 DEF UploadInv, TakenInv
<1>7. Fewer
  BY <1>1, <1>2, <1>3 DEF Fewer
<1> QED
  BY <1>5, <1>6, <1>7

LEMMA RequestOnce ==
  ASSUME UploadInv, NEW f \in Files, Request(f)
  PROVE  Once' /\ TakenInv' /\ Hands(f)
<1>1. /\ queue \in Seq(Message) /\ MailOnce /\ f \notin asked /\ asked' = asked \cup {f}
      /\ finished' = finished /\ taken' = taken /\ tasks' = tasks
      /\ queue' = Append(queue, [type |-> "REQ", file |-> f])
  BY DEF UploadInv, TransferInv, TypeOK, Once, Request, Posted, taskVars
<1>2. ~InList(f) /\ ~InMail(f) /\ ~Reported(f)
  <2>1. OnePlace(f)
    BY Zenon DEF UploadInv, Once
  <2> QED
    BY <1>1, <2>1 DEF OnePlace
<1> DEFINE m == [type |-> "REQ", file |-> f]
<1>3. m \in Message /\ m.type = "REQ" /\ m.file = f /\ queue' = Append(queue, m)
  BY <1>1, MessageForms
<1> HIDE DEF m
<1>4. MailOnce' /\ \A g : InMail(g)' <=> InMail(g) \/ g = f
  BY <1>1, <1>2, <1>3, PostedMail
<1>5. /\ ListOnce' /\ ReportedOnce'
      /\ \A g : (InList(g)' <=> InList(g)) /\ (Reported(g)' <=> Reported(g))
  BY <1>1 DEF UploadInv, Once, ReportedOnce, ListOnce, InList, Reported
<1>6. \A g \in Files : OnePlace(g)'
  <2> TAKE g \in Files
  <2>1. OnePlace(g)
    BY Zenon DEF UploadInv, Once
  <2>2. CASE g = f
    BY <1>1, <1>2, <1>4, <1>5, <2>2 DEF OnePlace
  <2>3. CASE g # f
    BY <1>1, <1>4, <1>5, <2>1, <2>3 DEF OnePlace
  <2> QED
    BY <2>2, <2>3
<1>7. Once'
  BY <1>4, <1>5, <1>6 DEF Once
<1>8. TakenInv'
  BY <1>1 DEF UploadInv, TakenInv
<1>9. Hands(f)
  BY <1>1, <1>4, <1>5 DEF Hands
<1> QED
  BY <1>7, <1>8, <1>9

LEMMA RestartOnce ==
  ASSUME UploadInv, Restart
  PROVE  Once' /\ TakenInv' /\ Fewer
<1>1. /\ tasks' = <<>> /\ queue' = <<>> /\ asked' = asked /\ finished' = finished /\ taken' = taken
  BY DEF Restart, history
<1>2. /\ ListOnce' /\ MailOnce' /\ (\A f : ~InList(f)' /\ ~InMail(f)')
      /\ (\A i \in 1 .. Len(tasks') : Complete(tasks'[i]) => tasks'[i].file \in taken')
  BY <1>1 DEF ListOnce, MailOnce, InList, InMail
<1>3. ReportedOnce' /\ \A g : Reported(g)' <=> Reported(g)
  BY <1>1 DEF UploadInv, Once, ReportedOnce, Reported
<1>4. Once'
  <2>1. \A f \in Files : OnePlace(f)
    BY Zenon DEF UploadInv, Once
  <2>2. \A f \in Files : OnePlace(f)'
    BY <1>1, <1>2, <1>3, <2>1 DEF OnePlace
  <2> QED
    BY <1>2, <1>3, <2>2 DEF Once
<1>5. TakenInv'
  BY <1>1, <1>2 DEF UploadInv, TakenInv
<1> QED
  BY <1>1, <1>2, <1>4, <1>5 DEF Fewer

(* What a step is to the recorder. *)
LEMMA UploadSteps ==
  UploadInv /\ [Next]_vars => UploadInv' /\ (Fewer \/ Reports \/ \E f \in Files : Hands(f))
<1> SUFFICES ASSUME UploadInv, [Next]_vars
             PROVE  UploadInv' /\ (Fewer \/ Reports \/ \E f \in Files : Hands(f))
  OBVIOUS
<1>1. /\ TransferInv'
      /\ \/ QuietStep \/ FinishStep \/ FileTransReq \/ HeartTimeout \/ Restart
         \/ \E f \in Files : Request(f)
  BY Steps DEF UploadInv
<1>2. Once' /\ TakenInv' /\ (Fewer \/ Reports \/ \E f \in Files : Hands(f))
  BY <1>1, QuietOnce, FinishOnce, ReqOnce, HeartOnce, RestartOnce, RequestOnce
<1> QED
  BY <1>1, <1>2 DEF UploadInv

LEMMA UploadStarts == Init => UploadInv
BY TransferStarts
   DEF Init, UploadInv, Once, OnePlace, ListOnce, MailOnce, ReportedOnce, InList, InMail, Reported, TakenInv

LEMMA UploadInvariant == Spec => []UploadInv
<1>1. UploadInv /\ [Next]_vars => UploadInv'
  BY UploadSteps
<1> QED
  BY <1>1, UploadStarts, PTL DEF Spec

(* A recording is reported by MSG_ID_THREEDO_FILE_TRANS_FINISH_IND at most once, and only
   after the stack took each part of its request, of the head and the tail some part at least,
   whatever restarted it between. *)
THEOREM ReportedOnceAndTaken == Spec => []FinishedOnceAndTaken
<1>1. UploadInv => FinishedOnceAndTaken
  <2> SUFFICES ASSUME UploadInv PROVE FinishedOnceAndTaken
    OBVIOUS
  <2>1. finished \in Seq(Files)
    BY DEF UploadInv, TransferInv, TypeOK
  <2>2. DOMAIN finished = 1 .. Len(finished)
    BY <2>1, LenProperties
  <2> QED
    BY <2>2 DEF UploadInv, Once, ReportedOnce, TakenInv, FinishedOnceAndTaken
<1> QED
  BY <1>1, UploadInvariant, PTL

-------------------------------------------------------------------------------
(* The refinement. *)

LEMMA WaitingForm ==
  UploadInv => /\ WaitingFiles = {f \in Files : InList(f) \/ InMail(f)}
               /\ FinishedFiles = {f \in Files : Reported(f)}
               /\ WaitingFiles \cup FinishedFiles \subseteq asked
               /\ asked \subseteq Files /\ WaitingFiles \cap FinishedFiles = {}
<1> SUFFICES ASSUME UploadInv
             PROVE  /\ WaitingFiles = {f \in Files : InList(f) \/ InMail(f)}
                    /\ FinishedFiles = {f \in Files : Reported(f)}
                    /\ WaitingFiles \cup FinishedFiles \subseteq asked
                    /\ asked \subseteq Files /\ WaitingFiles \cap FinishedFiles = {}
  OBVIOUS
<1>1. finished \in Seq(Files) /\ queue \in Seq(Message) /\ tasks \in Seq(threedo_tt_node)
      /\ asked \subseteq Files
  BY DEF UploadInv, TransferInv, TypeOK
<1>2. /\ DOMAIN finished = 1 .. Len(finished) /\ DOMAIN queue = 1 .. Len(queue)
      /\ DOMAIN tasks = 1 .. Len(tasks)
      /\ \A i \in 1 .. Len(finished) : finished[i] \in Files
  BY <1>1, LenProperties, ElementOfSeq
<1>3. WaitingFiles = {f \in Files : InList(f) \/ InMail(f)}
  BY <1>2 DEF WaitingFiles, Waiting, InList, InMail
<1>4. FinishedFiles = {f \in Files : Reported(f)}
  BY <1>2 DEF FinishedFiles, Reported
<1>5. \A f \in Files : OnePlace(f)
  BY Zenon DEF UploadInv, Once
<1> QED
  BY <1>1, <1>3, <1>4, <1>5 DEF OnePlace

(* givenUp of the service. *)
Lost == asked \ (WaitingFiles \cup FinishedFiles)

LEMMA ServiceSteps ==
  UploadInv /\ [Next]_vars => [Service!Next]_<<WaitingFiles, FinishedFiles, Lost>>
<1> SUFFICES ASSUME UploadInv, [Next]_vars
             PROVE  [Service!Next]_<<WaitingFiles, FinishedFiles, Lost>>
  OBVIOUS
<1>1. UploadInv' /\ (Fewer \/ Reports \/ \E f \in Files : Hands(f))
  BY UploadSteps
<1>2. /\ WaitingFiles = {f \in Files : InList(f) \/ InMail(f)}
      /\ FinishedFiles = {f \in Files : Reported(f)}
      /\ WaitingFiles \cup FinishedFiles \subseteq asked
      /\ asked \subseteq Files /\ WaitingFiles \cap FinishedFiles = {}
  BY WaitingForm
<1>3. /\ WaitingFiles' = {f \in Files : InList(f)' \/ InMail(f)'}
      /\ FinishedFiles' = {f \in Files : Reported(f)'}
  <2>1. (UploadInv => /\ WaitingFiles = {f \in Files : InList(f) \/ InMail(f)}
                      /\ FinishedFiles = {f \in Files : Reported(f)})'
    BY WaitingForm, PTL
  <2> QED
    BY <1>1, <2>1
<1>4. CASE Fewer
  <2>1. WaitingFiles' \subseteq WaitingFiles /\ FinishedFiles' = FinishedFiles /\ asked' = asked
    BY <1>2, <1>3, <1>4 DEF Fewer, Reported
  <2> DEFINE fs == WaitingFiles \ WaitingFiles'
  <2>2. fs \in SUBSET WaitingFiles /\ WaitingFiles' = WaitingFiles \ fs
        /\ Lost' = Lost \cup fs
    BY <1>2, <2>1 DEF Lost
  <2> HIDE DEF fs
  <2>3. Service!GiveUp(fs)
    BY <2>1, <2>2 DEF Service!GiveUp, Lost
  <2> QED
    BY <2>2, <2>3 DEF Service!Next
<1>5. CASE Reports
  <2>1. PICK f \in Files : f = Task1.file
    BY <1>5 DEF Reports
  <2>2. f \in WaitingFiles /\ WaitingFiles' = WaitingFiles \ {f} /\ asked' = asked
    BY <1>2, <1>3, <1>5, <2>1 DEF Reports
  <2>3. FinishedFiles' = FinishedFiles \cup {f}
    <3>1. finished \in Seq(Files) /\ finished' = Append(finished, f)
      BY <1>5, <2>1 DEF Reports, UploadInv, TransferInv, TypeOK
    <3>2. /\ Len(finished) \in Nat /\ Len(finished') = Len(finished) + 1
          /\ finished'[Len(finished')] = f
          /\ \A i \in 1 .. Len(finished) : finished'[i] = finished[i]
      BY <3>1, AppendProperties, LenProperties
    <3>3. /\ \A i \in 1 .. Len(finished') : i = Len(finished') \/ i \in 1 .. Len(finished)
          /\ \A i \in 1 .. Len(finished) : i \in 1 .. Len(finished')
          /\ Len(finished') \in 1 .. Len(finished')
      BY <3>2
    <3>4. \A g : Reported(g)' => Reported(g) \/ g = f
      BY <3>2, <3>3 DEF Reported
    <3>5. \A g : Reported(g) \/ g = f => Reported(g)'
      BY <3>2, <3>3 DEF Reported
    <3> QED
      BY <1>2, <1>3, <3>4, <3>5
  <2>4. Lost' = Lost
    BY <1>2, <2>2, <2>3 DEF Lost
  <2>5. Service!Finish(f)
    BY <2>2, <2>3, <2>4 DEF Service!Finish, Lost
  <2> QED
    BY <2>5 DEF Service!Next
<1>6. ASSUME NEW f \in Files, Hands(f)
      PROVE  Service!Next
  <2>1. /\ f \notin asked /\ asked' = asked \cup {f} /\ WaitingFiles' = WaitingFiles \cup {f}
        /\ FinishedFiles' = FinishedFiles
    BY <1>2, <1>3, <1>6 DEF Hands, Reported
  <2>2. Lost' = Lost
    BY <1>2, <2>1 DEF Lost
  <2>3. f \in Files \ (WaitingFiles \cup FinishedFiles \cup Lost)
    BY <1>2, <2>1 DEF Lost
  <2>4. Service!HandOver(f)
    BY <2>1, <2>2, <2>3 DEF Service!HandOver, Service!Fresh, Lost
  <2> QED
    BY <2>4 DEF Service!Next
<1> QED
  BY <1>1, <1>4, <1>5, <1>6

(* The queue, its retries, its time limits and the restarts of the phone implement the
   service the recorder may expect: a recording that is handed over waits, and is then
   reported once or given up, and never comes back. *)
THEOREM UploadServiceImplemented == Spec => ImplementsUploadService
<1>1. Init => Service!Init
  <2> SUFFICES ASSUME Init PROVE Service!Init
    OBVIOUS
  <2>1. WaitingFiles = {} /\ FinishedFiles = {} /\ asked = {}
    BY DEF Init, WaitingFiles, Waiting, FinishedFiles
  <2> QED
    BY <2>1 DEF Service!Init
<1>2. UploadInv /\ [Next]_vars
        => [Service!Next]_<<WaitingFiles, FinishedFiles, asked \ (WaitingFiles \cup FinishedFiles)>>
  BY ServiceSteps DEF Lost
<1> QED
  BY <1>1, <1>2, UploadInvariant, PTL DEF Spec, ImplementsUploadService, Service!Spec

-------------------------------------------------------------------------------
(* What a single upset can do: whatever goes wrong once, the tasks move on. *)

Mail(q) == {q[i] : i \in 1 .. Len(q)}

(* The answer the socket waits for. *)
Named(m) == m.type = "DNS" /\ m.mine

NoRead(q) == \A m \in Mail(q) : m.type # "READ"
Awaited(q) == \E m \in Mail(q) : Named(m)
OneAnswer(q) == \A i, j \in 1 .. Len(q) : Named(q[i]) /\ Named(q[j]) => i = j

LEMMA MailElements ==
  ASSUME NEW q \in Seq(Message)
  PROVE  /\ \A m \in Mail(q) : m \in Message
         /\ \A i \in 1 .. Len(q) : q[i] \in Mail(q)
         /\ \A m \in Mail(q) : \E i \in 1 .. Len(q) : m = q[i]
<1>1. Len(q) \in Nat /\ \A i \in 1 .. Len(q) : q[i] \in Message
  BY LenProperties, ElementOfSeq
<1> QED
  BY <1>1 DEF Mail

(* The mailbox without its first message, and with one more. *)
LEMMA MailOfRest ==
  ASSUME queue \in Seq(Message), queue # <<>>
  PROVE  /\ Rest \in Seq(Message) /\ Head(queue) \in Message /\ Head(queue) \in Mail(queue)
         /\ \A m \in Mail(Rest) : m \in Mail(queue)
         /\ \A m \in Mail(queue) : m = Head(queue) \/ m \in Mail(Rest)
         /\ OneAnswer(queue) => /\ OneAnswer(Rest)
                                /\ Named(Head(queue)) => ~Awaited(Rest)
<1>1. /\ Rest \in Seq(Message) /\ Len(queue) \in Nat \ {0} /\ Len(Rest) = Len(queue) - 1
      /\ \A i \in 1 .. Len(Rest) : Rest[i] = queue[i + 1]
      /\ Head(queue) = queue[1] /\ Head(queue) \in Message
  BY RestKeeps
<1>2. \A i \in 1 .. Len(Rest) : i + 1 \in 1 .. Len(queue) /\ i + 1 # 1 /\ i \in Nat
  BY <1>1
<1>3. 1 \in 1 .. Len(queue)
  BY <1>1
<1>4. ASSUME NEW m \in Mail(Rest)
      PROVE  m \in Mail(queue) /\ \E i \in 1 .. Len(queue) : i # 1 /\ m = queue[i]
  <2>1. PICK i \in 1 .. Len(Rest) : m = Rest[i]
    BY <1>4 DEF Mail
  <2>2. i + 1 \in 1 .. Len(queue) /\ i + 1 # 1 /\ m = queue[i + 1]
    BY <1>1, <1>2, <2>1
  <2> QED
    BY <2>2 DEF Mail
<1>5. ASSUME NEW m \in Mail(queue)
      PROVE  m = Head(queue) \/ m \in Mail(Rest)
  <2>1. PICK i \in 1 .. Len(queue) : m = queue[i]
    BY <1>5 DEF Mail
  <2>2. CASE i = 1
    BY <1>1, <2>1, <2>2
  <2>3. CASE i # 1
    <3> DEFINE k == i - 1
    <3>1. k \in 1 .. Len(Rest) /\ k + 1 = i
      BY <1>1, <2>3
    <3>2. m = Rest[k]
      BY <1>1, <2>1, <3>1
    <3> HIDE DEF k
    <3> QED
      BY <3>1, <3>2 DEF Mail
  <2> QED
    BY <2>2, <2>3
<1>6. OneAnswer(queue) => OneAnswer(Rest)
  <2> SUFFICES ASSUME OneAnswer(queue), NEW i \in 1 .. Len(Rest), NEW j \in 1 .. Len(Rest),
                      Named(Rest[i]), Named(Rest[j])
               PROVE  i = j
    BY DEF OneAnswer
  <2>1. i + 1 = j + 1
    BY <1>1, <1>2 DEF OneAnswer
  <2> QED
    BY <1>2, <2>1
<1>7. OneAnswer(queue) /\ Named(Head(queue)) => ~Awaited(Rest)
  BY <1>1, <1>3, <1>4 DEF OneAnswer, Awaited
<1> QED
  BY <1>1, <1>3, <1>4, <1>5, <1>6, <1>7 DEF Mail

LEMMA MailOfPosted ==
  ASSUME NEW q \in Seq(Message), NEW n \in Message
  PROVE  /\ Append(q, n) \in Seq(Message)
         /\ \A m : m \in Mail(Append(q, n)) <=> m = n \/ m \in Mail(q)
         /\ OneAnswer(q) /\ (Named(n) => ~Awaited(q)) => OneAnswer(Append(q, n))
<1> DEFINE p == Append(q, n)
<1>1. /\ p \in Seq(Message) /\ Len(p) = Len(q) + 1 /\ Len(q) \in Nat
      /\ p[Len(p)] = n /\ \A i \in 1 .. Len(q) : p[i] = q[i]
  BY AppendProperties, LenProperties
<1> HIDE DEF p
<1>2. /\ Len(p) \in 1 .. Len(p)
      /\ \A i \in 1 .. Len(p) : i = Len(p) \/ i \in 1 .. Len(q)
      /\ \A i \in 1 .. Len(q) : i \in 1 .. Len(p)
  BY <1>1
<1>3. \A m : m \in Mail(p) <=> m = n \/ m \in Mail(q)
  BY <1>1, <1>2 DEF Mail
<1>4. OneAnswer(q) /\ (Named(n) => ~Awaited(q)) => OneAnswer(p)
  <2> SUFFICES ASSUME OneAnswer(q), Named(n) => ~Awaited(q),
                      NEW i \in 1 .. Len(p), NEW j \in 1 .. Len(p), Named(p[i]), Named(p[j])
               PROVE  i = j
    BY DEF OneAnswer
  <2>1. \A k \in 1 .. Len(q) : Named(p[k]) => Awaited(q)
    BY <1>1 DEF Awaited, Mail
  <2>2. CASE i = Len(p) \/ j = Len(p)
    BY <1>1, <1>2, <2>1, <2>2
  <2>3. CASE i # Len(p) /\ j # Len(p)
    <3>1. i \in 1 .. Len(q) /\ j \in 1 .. Len(q)
      BY <1>2, <2>3
    <3> QED
      BY <1>1, <3>1 DEF OneAnswer
  <2> QED
    BY <2>2, <2>3
<1> QED
  BY <1>1, <1>3, <1>4 DEF p

(* Once the request id is another one no answer is the socket's. *)
LEMMA MailOfOutdated ==
  ASSUME NEW q \in Seq(Message)
  PROVE  /\ Outdate(q) \in Seq(Message)
         /\ ~Awaited(Outdate(q)) /\ OneAnswer(Outdate(q))
         /\ \A m \in Mail(Outdate(q)) : \E n \in Mail(q) : m.type = n.type
         /\ \A m \in Mail(Outdate(q)) : m.type # "DNS" => m \in Mail(q)
         /\ \A m \in Mail(q) : m.type # "DNS" => m \in Mail(Outdate(q))
<1> DEFINE p == Outdate(q)
<1>1. SameMail(q, p) /\ Len(q) \in Nat /\ \A i \in 1 .. Len(q) : q[i] \in Message
  BY OutdateKeeps, LenProperties, ElementOfSeq
<1>2. \A i \in 1 .. Len(q) : ~Named(p[i])
  <2> SUFFICES ASSUME NEW i \in 1 .. Len(q) PROVE ~Named(p[i])
    OBVIOUS
  <2>1. p[i] = IF q[i].type = "DNS" THEN [q[i] EXCEPT !.mine = FALSE] ELSE q[i]
    <3>1. DOMAIN q = 1 .. Len(q)
      OBVIOUS
    <3> QED
      BY <3>1 DEF Outdate
  <2>2. CASE q[i].type = "DNS"
    <3>1. p[i] = [q[i] EXCEPT !.mine = FALSE] /\ q[i] \in [type : {"DNS"}, mine : BOOLEAN, ok : BOOLEAN]
      BY <1>1, <2>1, <2>2, DnsForm
    <3> HIDE DEF p
    <3>2. p[i].mine = FALSE
      BY <3>1
    <3> QED
      BY <3>2 DEF Named
  <2>3. CASE q[i].type # "DNS"
    BY <2>1, <2>3 DEF Named
  <2> QED
    BY <2>2, <2>3
<1> HIDE DEF p
<1>3. p \in Seq(Message) /\ Len(p) = Len(q)
  BY <1>1 DEF SameMail
<1>4. ~Awaited(p) /\ OneAnswer(p)
  BY <1>2, <1>3 DEF Awaited, OneAnswer, Mail
<1>5. \A m \in Mail(p) : \E n \in Mail(q) : m.type = n.type /\ (m.type # "DNS" => m = n)
  BY <1>1, <1>3 DEF Mail, SameMail
<1>6. \A m \in Mail(q) : m.type # "DNS" => m \in Mail(p)
  BY <1>1, <1>3 DEF Mail, SameMail
<1> QED
  BY <1>3, <1>4, <1>5, <1>6 DEF p

(* The socket and the lookups: a socket that waits for its name has no connection, and an
   answer that names it finds it waiting. *)
NameInv ==
  /\ sock.dns # "IGNORE" => sock.link = "none" /\ sock.error \in {"zero", "block"}
  /\ HasSocket => sock.dns # "START"
  /\ ~HasSocket => sock.dns \in {"IGNORE", "START"} /\ sock.link = "none"
  /\ TRUE \in lookups \/ Awaited(queue) => sock.dns = "BLOCKED"
  /\ TRUE \in lookups => ~Awaited(queue)
  /\ OneAnswer(queue)
  /\ sock.dns = "START" => lookups = {} /\ \A m \in Mail(queue) : m.type # "DNS"

(* Before the upset: nothing is lost, and only a connection that is up has been used. *)
Unused == sock.wire = 0 /\ sock.due = 0 /\ sock.inbox = <<>>
CleanInv ==
  upsets = 0 =>
    /\ sock.dns \in {"IGNORE", "BLOCKED"} /\ sock.link \in {"none", "connecting", "up"}
    /\ ~sock.full /\ FALSE \notin lookups
    /\ \A m \in Mail(queue) : /\ m.type \notin {"CLOSE", "STOP", "WRITE"}
                              /\ m.type = "DNS" => m.mine /\ m.ok
    /\ sock.link # "up" \/ sock.error = "bad" => NoRead(queue) /\ Unused

(* A socket without its name meets no answer of an earlier connection, unless something is
   still to come that moves it on. *)
ReadInv ==
  /\ sock.dns = "BLOCKED" => NoRead(queue) \/ Awaited(queue) \/ (upsets = 1 /\ TRUE \in lookups)
  /\ sock.dns \in {"FAILED", "START"} => NoRead(queue)
  /\ (\E m \in Mail(queue) : Named(m) /\ ~m.ok) => NoRead(queue)

SockInv == NameInv /\ CleanInv /\ ReadInv

(* A step with at most one upset, the step's own included. *)
Within == TransferInv /\ SockInv /\ upsets \in {0, 1} /\ upsets' \in {0, 1}

LEMMA Typed ==
  ASSUME TransferInv
  PROVE  /\ sock \in SocketState /\ lookups \subseteq BOOLEAN /\ queue \in Seq(Message)
         /\ upsets \in Nat /\ timers \subseteq {"BLOCK", "HEART"}
         /\ tasks \in Seq(threedo_tt_node) /\ cntx \in BOOLEAN /\ retry \in BOOLEAN
BY BoundsAssumption DEF TransferInv, TypeOK

(* An upset is the first one. *)
LEMMA Spends ==
  ASSUME Within
  PROVE  /\ \A k : Upset(k) => upsets = 0 /\ upsets' = 1
         /\ Calm => upsets' = upsets
BY DEF Within, Upset, Calm

LEMMA NameSame ==
  ASSUME Within, UNCHANGED <<lookups, queue>>, sock'.dns = sock.dns, sock'.id = sock.id,
         sock'.link = sock.link, sock.dns # "IGNORE" => sock'.error \in {"zero", "block"}
  PROVE  NameInv'
BY DEF Within, SockInv, NameInv, HasSocket

LEMMA ReadSame ==
  ASSUME Within, UNCHANGED <<lookups, queue>>, sock'.dns = sock.dns, upsets = 1 => upsets' = 1
  PROVE  ReadInv'
BY DEF Within, SockInv, ReadInv

LEMMA SockSame ==
  ASSUME Within, UNCHANGED <<sock, lookups, queue>>, Calm \/ \E k : Upset(k)
  PROVE  SockInv'
<1>1. (upsets = 1 => upsets' = 1) /\ (upsets' = 0 => upsets = 0)
  BY Spends DEF Within
<1>2. NameInv' /\ ReadInv'
  BY <1>1, NameSame, ReadSame DEF Within, SockInv, NameInv
<1> QED
  BY <1>1, <1>2 DEF Within, SockInv, CleanInv, Unused

(* A message is taken that is not the awaited answer. *)
LEMMA SockTakes ==
  ASSUME Within, queue # <<>>, queue' = Rest, UNCHANGED <<sock, lookups>>, Calm,
         ~Named(Head(queue))
  PROVE  SockInv'
<1>1. /\ Rest \in Seq(Message) /\ Head(queue) \in Mail(queue)
      /\ \A m \in Mail(Rest) : m \in Mail(queue)
      /\ \A m \in Mail(queue) : m = Head(queue) \/ m \in Mail(Rest)
      /\ OneAnswer(queue) => OneAnswer(Rest)
  BY Typed, MailOfRest DEF Within
<1>2. Awaited(queue') <=> Awaited(queue)
  BY <1>1 DEF Awaited
<1>3. NoRead(queue) => NoRead(queue')
  BY <1>1 DEF NoRead
<1>4. NameInv'
  BY <1>1, <1>2 DEF Within, SockInv, NameInv, HasSocket
<1>5. CleanInv'
  BY <1>1, <1>3 DEF Within, SockInv, CleanInv, Calm, Unused
<1>6. ReadInv'
  BY <1>1, <1>2, <1>3 DEF Within, SockInv, ReadInv, Calm
<1> QED
  BY <1>4, <1>5, <1>6 DEF SockInv

(* A message is posted that tells nothing of the socket. *)
LEMMA SockPosts ==
  ASSUME Within, NEW n \in Message, queue' = Append(queue, n), UNCHANGED <<sock, lookups>>,
         n.type \in {"REQ", "BLOCK", "HEART", "STOP"},
         (Calm /\ n.type # "STOP") \/ \E k : Upset(k)
  PROVE  SockInv'
<1>1. /\ queue' \in Seq(Message)
      /\ \A m : m \in Mail(queue') <=> m = n \/ m \in Mail(queue)
      /\ OneAnswer(queue) => OneAnswer(queue')
  BY Typed, MailOfPosted DEF Within, Named
<1>2. Awaited(queue') <=> Awaited(queue)
  BY <1>1 DEF Awaited, Named
<1>3. NoRead(queue) => NoRead(queue')
  BY <1>1 DEF NoRead
<1>4. (upsets = 1 => upsets' = 1) /\ (upsets' = 0 => upsets = 0 /\ n.type # "STOP")
  BY Spends DEF Within
<1>5. NameInv'
  BY <1>1, <1>2 DEF Within, SockInv, NameInv, HasSocket
<1>6. CleanInv'
  BY <1>1, <1>3, <1>4 DEF Within, SockInv, CleanInv, Unused
<1>7. ReadInv'
  BY <1>1, <1>2, <1>3, <1>4 DEF Within, SockInv, ReadInv, Named
<1> QED
  BY <1>5, <1>6, <1>7 DEF SockInv

LEMMA WriteAffects ==
  ASSUME Within, NEW piece, threedo_socket_write(piece), UNCHANGED <<lookups, queue>>
  PROVE  /\ SockInv' /\ sock'.id = sock.id /\ sock'.dns = sock.dns /\ sock'.link = sock.link
         /\ sock.dns # "IGNORE" => sock' = sock
         /\ sock.dns = "IGNORE" /\ sock'.error = "block" =>
              upsets' = 1 /\ sock'.link = "up" /\ sock'.full
<1>0. /\ sock \in SocketState /\ NameInv /\ CleanInv
      /\ \A k : Upset(k) => upsets = 0 /\ upsets' = 1
      /\ Calm => upsets' = upsets
      /\ upsets \in {0, 1} /\ upsets' \in {0, 1}
  BY Typed, Spends DEF Within, SockInv
<1>1. /\ sock'.id = sock.id /\ sock'.dns = sock.dns /\ sock'.link = sock.link
      /\ sock.dns # "IGNORE" => sock' = sock
      /\ upsets = 1 => upsets' = 1
      /\ upsets' = 0 => upsets = 0
  BY <1>0 DEF threedo_socket_write, SocketState
<1>2. sock.dns = "IGNORE" /\ sock'.error = "block" => upsets' = 1 /\ sock'.link = "up" /\ sock'.full
  BY <1>0 DEF threedo_socket_write, SocketState, CleanInv
<1>3. upsets' = 0 => /\ sock'.full = sock.full
                     /\ sock'.link # "up" \/ sock'.error = "bad" =>
                          /\ sock'.wire = sock.wire /\ sock'.due = sock.due /\ sock'.inbox = sock.inbox
                          /\ sock.link # "up" \/ sock.error = "bad"
  <2>1. SUFFICES ASSUME upsets' = 0, sock.dns = "IGNORE"
                 PROVE  /\ sock'.full = sock.full
                        /\ sock'.error = "bad" => sock.link # "up"
                        /\ sock'.error # "more" =>
                             sock'.wire = sock.wire /\ sock'.due = sock.due /\ sock'.inbox = sock.inbox
                        /\ sock'.error = "more" => sock.link = "up"
    BY <1>1
  <2>2. /\ ~(\E k : Upset(k)) /\ ~sock.full
    BY <1>0, <1>1, <2>1 DEF CleanInv
  <2>3. CASE sock.link = "up" /\ sock' = [sock EXCEPT !.error = "more", !.wire = OnWire(@, piece),
                                                    !.due = @ + Answers(piece)]
    BY <1>0, <2>3 DEF SocketState
  <2>4. CASE sock.link # "up" /\ sock' = [sock EXCEPT !.error = "bad"]
    BY <1>0, <2>4 DEF SocketState
  <2> QED
    BY <2>1, <2>2, <2>3, <2>4 DEF threedo_socket_write
<1>4. CleanInv'
  BY <1>0, <1>1, <1>3 DEF CleanInv, Unused
<1>5. NameInv'
  BY <1>0, <1>1, NameSame DEF NameInv
<1>6. ReadInv'
  BY <1>1, ReadSame
<1> QED
  BY <1>1, <1>2, <1>4, <1>5, <1>6 DEF SockInv

(* The structure after a call that leaves the connection as it is. *)
Like(s) ==
  /\ s \in SocketState /\ s.id = sock.id /\ s.dns = sock.dns /\ s.link = sock.link
  /\ s.full = sock.full
  /\ sock.dns # "IGNORE" => s.error \in {"zero", "block"}
  /\ s.error = "bad" => sock.link # "up" \/ sock.error = "bad"
  /\ Unused => s.wire = 0 /\ s.due = 0 /\ s.inbox = <<>>

LEMMA LikeItself == Within => Like(sock)
BY Typed DEF Like, Unused, Within, SockInv, NameInv

LEMMA LikeSock ==
  ASSUME Within, Like(sock'), UNCHANGED <<lookups, queue>>, Calm
  PROVE  SockInv'
<1>0. upsets' = upsets /\ NameInv /\ CleanInv
  BY Spends DEF Within, SockInv
<1>1. NameInv' /\ ReadInv'
  BY <1>0, NameSame, ReadSame DEF Like, NameInv
<1>2. CleanInv'
  BY <1>0 DEF CleanInv, Like, Unused
<1> QED
  BY <1>1, <1>2 DEF SockInv

LEMMA ReadAffects ==
  ASSUME Within, NEW r \in threedo_socket_read
  PROVE  Like(r.s)
<1>0. sock \in SocketState
  BY Typed DEF Within
<1>1. CASE sock.dns # "IGNORE"
  <2>1. r.s = sock
    BY <1>1 DEF threedo_socket_read
  <2> QED
    BY <2>1, LikeItself
<1>2. CASE sock.dns = "IGNORE" /\ sock.inbox # <<>>
  <2>1. PICK k \in 1 .. Len(sock.inbox) :
          r = [s |-> [sock EXCEPT !.error = "more", !.inbox = SubSeq(@, k + 1, Len(@))],
               ok |-> Head(sock.inbox) = "OK"]
    BY <1>2, Zenon DEF threedo_socket_read
  <2>2. r.s = [sock EXCEPT !.error = "more", !.inbox = SubSeq(@, k + 1, Len(@))]
    BY <2>1, Zenon
  <2>3. r.s \in SocketState
    BY ReadTyped DEF Within, TransferInv
  <2> QED
    BY <1>0, <1>2, <2>2, <2>3 DEF Like, Unused, SocketState
<1>3. CASE sock.dns = "IGNORE" /\ sock.inbox = <<>>
  <2>1. PICK e \in {"block", "zero", "bad"} :
          /\ r = [s |-> [sock EXCEPT !.error = e], ok |-> FALSE]
          /\ e = "bad" => sock.link # "up"
    BY <1>3 DEF threedo_socket_read
  <2>2. r.s = [sock EXCEPT !.error = e]
    BY <2>1
  <2> QED
    BY <1>0, <1>3, <2>1, <2>2 DEF Like, Unused, SocketState
<1> QED
  BY <1>1, <1>2, <1>3

(* The structure is cleared. *)
LEMMA ClearAffects ==
  ASSUME Within, NEW q \in Seq(Message), \A m \in Mail(q) : m \in Mail(queue),
         sock' = Zeroed, lookups' = Older(lookups), queue' = Outdate(q),
         upsets' = 1 \/ (upsets = 0 /\ lookups = {} /\ ~Awaited(queue) /\ NoRead(queue))
  PROVE  SockInv'
<1>1. /\ ~Awaited(queue') /\ OneAnswer(queue')
      /\ \A m \in Mail(queue') : \E n \in Mail(queue) : m.type = n.type
      /\ \A m \in Mail(queue') : m.type # "DNS" => m \in Mail(queue)
  BY MailOfOutdated
<1>2. TRUE \notin lookups' /\ (lookups = {} => lookups' = {})
  BY DEF Older
<1>3. NameInv'
  BY <1>1, <1>2, ZeroedTyped DEF NameInv, HasSocket
<1>4. CleanInv'
  <2>1. SUFFICES ASSUME upsets' = 0 PROVE CleanInv'
    BY DEF CleanInv
  <2>2. upsets = 0 /\ lookups' = {} /\ ~Awaited(queue) /\ NoRead(queue) /\ CleanInv
    BY <1>2, <2>1 DEF Within, SockInv
  <2>3. \A m \in Mail(queue') : m.type \notin {"CLOSE", "STOP", "WRITE", "DNS", "READ"}
    BY <1>1, <2>2 DEF CleanInv, Awaited, Named, NoRead
  <2> QED
    BY <2>2, <2>3 DEF CleanInv, Unused, Zeroed, NoRead
<1>5. ReadInv'
  BY <1>1, ZeroedTyped DEF ReadInv, Awaited
<1> QED
  BY <1>3, <1>4, <1>5 DEF SockInv

LEMMA CloseAffects ==
  ASSUME Within, NEW s, NEW q \in Seq(Message), \A m \in Mail(q) : m \in Mail(queue),
         s.id # NoSocket, threedo_socket_close(s, q),
         upsets' = 1 \/ (upsets = 0 /\ lookups = {} /\ ~Awaited(queue) /\ NoRead(queue))
  PROVE  SockInv' /\ sock' = Zeroed
BY ClearAffects DEF threedo_socket_close

(* Before the upset only a connection that never was up is given up. *)
LEMMA GivenUp ==
  ASSUME Within, sock.dns = "IGNORE", sock.link # "up" \/ sock.error = "bad"
  PROVE  upsets = 0 => lookups = {} /\ ~Awaited(queue) /\ NoRead(queue)
<1>1. lookups \subseteq BOOLEAN
  BY Typed DEF Within
<1> QED
  BY <1>1 DEF Within, SockInv, NameInv, CleanInv

LEMMA GoOnAffects ==
  ASSUME Within, Calm, NEW ts, NEW s, Like(s), GoOn(ts, s)
  PROVE  SockInv'
<1>1. queue \in Seq(Message) /\ upsets' = upsets
  BY Typed, Spends DEF Within
<1>2. CASE InError(s) /\ ts # <<>>
  <2>1. threedo_socket_close(s, queue) /\ s.id # NoSocket /\ s.error = "bad"
    BY <1>2 DEF GoOn, InError
  <2>2. sock.dns = "IGNORE" /\ (sock.link # "up" \/ sock.error = "bad")
    BY <2>1 DEF Like, Within, SockInv, NameInv
  <2>3. upsets' = 1 \/ (upsets = 0 /\ lookups = {} /\ ~Awaited(queue) /\ NoRead(queue))
    BY <1>1, <2>2, GivenUp DEF Within
  <2> QED
    BY <1>1, <2>1, <2>3, CloseAffects
<1>3. CASE ~(InError(s) /\ ts # <<>>)
  <2>1. sock' = s /\ UNCHANGED <<lookups, queue>>
    BY <1>3 DEF GoOn, InError
  <2> QED
    BY <2>1, LikeSock
<1> QED
  BY <1>2, <1>3

(* A socket whose name is known and whose connection is about to be set up. *)
LEMMA ResolvedAffects ==
  ASSUME Within, sock'.dns = "IGNORE", sock'.id # NoSocket,
         ~Awaited(queue'), TRUE \notin lookups', OneAnswer(queue'),
         upsets' = 1 \/ /\ upsets' = 0 /\ sock'.link = "connecting" /\ ~sock'.full /\ FALSE \notin lookups'
                        /\ \A m \in Mail(queue') : /\ m.type \notin {"CLOSE", "STOP", "WRITE"}
                                                   /\ m.type = "DNS" => m.mine /\ m.ok
                        /\ NoRead(queue') /\ Unused'
  PROVE  SockInv'
<1>1. NameInv'
  BY DEF NameInv, HasSocket
<1>2. CleanInv'
  <2>1. CASE upsets' = 1
    BY <2>1 DEF CleanInv
  <2>2. CASE upsets' = 0
    <3>1. /\ sock'.link = "connecting" /\ ~sock'.full /\ FALSE \notin lookups'
          /\ NoRead(queue') /\ Unused'
          /\ \A m \in Mail(queue') : /\ m.type \notin {"CLOSE", "STOP", "WRITE"}
                                     /\ m.type = "DNS" => m.mine /\ m.ok
      <4>1. upsets' # 1
        BY <2>2
      <4> QED
        BY <4>1, Zenon
    <3> QED
      BY <3>1, Zenon DEF CleanInv
  <2> QED
    BY <2>1, <2>2 DEF Within
<1>3. ReadInv'
  BY DEF ReadInv, Awaited
<1> QED
  BY <1>1, <1>2, <1>3 DEF SockInv

LEMMA ConnectAffects ==
  ASSUME Within, NEW s \in SocketState, s.id \in Sockets, s.link = "none",
         threedo_socket_connect(s)
  PROVE  /\ sock'.id = s.id /\ sock'.dns = s.dns /\ sock'.full = s.full
         /\ sock'.wire = s.wire /\ sock'.due = s.due /\ sock'.inbox = s.inbox
         /\ sock'.error \in {"zero", "block", "bad"}
         /\ upsets' = 1 \/ (upsets' = upsets /\ sock'.link = "connecting")
         /\ sock'.error = "block" => sock'.link = "connecting"
<1>1. /\ \A k : Upset(k) => upsets = 0 /\ upsets' = 1
      /\ Calm => upsets' = upsets
  BY Spends
<1>2. CASE sock' = [s EXCEPT !.error = "block", !.link = "connecting"] /\ Calm
  BY <1>1, <1>2 DEF SocketState
<1>3. CASE sock' = [s EXCEPT !.error = "zero", !.link = "up"] /\ Upset("instant")
  BY <1>1, <1>3 DEF SocketState
<1>4. CASE sock' = [s EXCEPT !.error = "bad"] /\ Upset("connect")
  BY <1>1, <1>4 DEF SocketState
<1> QED
  BY <1>2, <1>3, <1>4, Zenon DEF threedo_socket_connect

(* Without a socket and before the upset the mailbox tells of none. *)
LEMMA NoSocketMail ==
  ASSUME Within, ~HasSocket
  PROVE  /\ TRUE \notin lookups
         /\ upsets = 0 => /\ lookups = {} /\ NoRead(queue)
                          /\ \A m \in Mail(queue) : m.type \notin {"CLOSE", "STOP", "WRITE", "DNS"}
<1>1. lookups \subseteq BOOLEAN
  BY Typed DEF Within
<1> QED
  BY <1>1 DEF Within, SockInv, NameInv, CleanInv, Awaited, Named

LEMMA OpenAffects ==
  ASSUME Within, ~HasSocket, threedo_socket_open(queue),
         sock'.link = "closed" => sock'.dns = "IGNORE"
  PROVE  /\ SockInv'
         /\ sock'.id # NoSocket /\ sock'.dns # "IGNORE" =>
              TRUE \in lookups' /\ sock'.link = "none" /\ (upsets' = 0 => NoRead(queue'))
         /\ sock'.id # NoSocket /\ sock'.dns = "IGNORE" /\ sock'.error = "block" =>
              sock'.link = "connecting" /\ (upsets' = 0 => NoRead(queue'))
<1> DEFINE fresh == [Zeroed EXCEPT !.dns = IF ByName THEN "START" ELSE "IGNORE"]
<1>0. /\ queue \in Seq(Message) /\ queue' = Outdate(queue)
      /\ upsets \in {0, 1} /\ upsets' \in {0, 1}
      /\ \A k : Upset(k) => upsets = 0 /\ upsets' = 1
      /\ Calm => upsets' = upsets
      /\ NoSocket \notin Sockets
  BY Typed, Spends, SocketsAssumption DEF Within, threedo_socket_open
<1>1. /\ ~Awaited(queue') /\ OneAnswer(queue')
      /\ \A m \in Mail(queue') : \E n \in Mail(queue) : m.type = n.type
  BY <1>0, MailOfOutdated
<1>2. /\ TRUE \notin Older(lookups)
      /\ upsets = 0 => /\ Older(lookups) = {} /\ NoRead(queue')
                       /\ \A m \in Mail(queue') : m.type \notin {"CLOSE", "STOP", "WRITE", "DNS"}
  BY <1>1, NoSocketMail DEF Older, NoRead
<1>3. /\ fresh \in SocketState /\ fresh.link = "none" /\ fresh.error = "zero" /\ fresh.id = NoSocket
      /\ fresh.dns = (IF ByName THEN "START" ELSE "IGNORE")
      /\ ~fresh.full /\ fresh.wire = 0 /\ fresh.due = 0 /\ fresh.inbox = <<>>
  BY ZeroedTyped DEF Zeroed, SocketState
<1> HIDE DEF fresh
<1>4. CASE Upset("create") /\ sock' = fresh /\ lookups' = Older(lookups)
  <2>1. upsets = 0 /\ upsets' = 1
    BY <1>0, <1>4
  <2>2. CleanInv'
    BY <2>1 DEF CleanInv
  <2>4. /\ sock'.dns \in {"IGNORE", "START"} /\ sock'.link = "none" /\ sock'.error = "zero"
        /\ sock'.id = NoSocket /\ lookups' = {} /\ \A m \in Mail(queue') : m.type # "DNS"
    BY <1>2, <1>3, <1>4, <2>1
  <2>5. NameInv'
    BY <1>1, <2>4 DEF NameInv, HasSocket
  <2>3. ReadInv'
    BY <1>1, <1>2, <1>3, <1>4, <2>1 DEF ReadInv
  <2> QED
    BY <1>3, <1>4, <2>2, <2>3, <2>5 DEF SockInv
<1>5. ASSUME NEW id \in Sockets, Upset("option"), lookups' = Older(lookups),
             sock' = [fresh EXCEPT !.id = id, !.link = "closed"]
      PROVE  SockInv' /\ sock'.dns = "IGNORE" /\ ~(sock'.error = "block")
  <2>1. upsets' = 1 /\ sock'.dns = "IGNORE" /\ sock'.id # NoSocket /\ sock'.error = "zero"
    BY <1>0, <1>3, <1>5 DEF SocketState
  <2> QED
    BY <1>1, <1>2, <1>5, <2>1, ResolvedAffects
<1>6. ASSUME NEW id \in Sockets, Calm, lookups' = Older(lookups) \cup {TRUE},
             sock' = [fresh EXCEPT !.id = id, !.dns = "BLOCKED", !.error = "block"]
      PROVE  /\ SockInv' /\ sock'.dns = "BLOCKED" /\ TRUE \in lookups' /\ sock'.link = "none"
             /\ upsets' = 0 => NoRead(queue')
  <2>1. /\ sock'.dns = "BLOCKED" /\ sock'.id # NoSocket /\ sock'.error = "block"
        /\ sock'.link = "none" /\ ~sock'.full /\ sock'.wire = 0 /\ sock'.due = 0 /\ sock'.inbox = <<>>
        /\ upsets' = upsets
    BY <1>0, <1>3, <1>6 DEF SocketState
  <2>2. NameInv'
    BY <1>1, <2>1 DEF NameInv, HasSocket
  <2>3. CleanInv'
    BY <1>2, <1>6, <2>1 DEF CleanInv, Unused
  <2>4. ReadInv'
    BY <1>0, <1>1, <1>2, <1>6, <2>1 DEF ReadInv, Awaited
  <2> QED
    BY <1>2, <1>6, <2>1, <2>2, <2>3, <2>4 DEF SockInv
<1>7. ASSUME NEW id \in Sockets, Upset("dns") \/ Upset("cached"), lookups' = Older(lookups),
             \/ sock' = [fresh EXCEPT !.id = id, !.dns = "IGNORE", !.error = "bad"]
             \/ sock' = [fresh EXCEPT !.id = id, !.dns = "IGNORE", !.error = "block",
                                      !.link = "connecting"]
      PROVE  /\ SockInv' /\ sock'.dns = "IGNORE" /\ upsets' # 0
             /\ sock'.error = "block" => sock'.link = "connecting"
  <2>1. /\ upsets' = 1 /\ sock'.dns = "IGNORE" /\ sock'.id # NoSocket
        /\ sock'.error = "block" => sock'.link = "connecting"
    BY <1>0, <1>3, <1>7 DEF SocketState
  <2> QED
    BY <1>1, <1>2, <1>7, <2>1, ResolvedAffects
<1>8. ASSUME NEW id \in Sockets, ~ByName, lookups' = Older(lookups),
             threedo_socket_connect([fresh EXCEPT !.id = id])
      PROVE  /\ SockInv' /\ sock'.dns = "IGNORE"
             /\ sock'.error = "block" => sock'.link = "connecting"
             /\ upsets' = 0 => NoRead(queue')
  <2> DEFINE s == [fresh EXCEPT !.id = id]
  <2>1. /\ s \in SocketState /\ s.id = id /\ s.link = "none" /\ s.dns = "IGNORE"
        /\ ~s.full /\ s.wire = 0 /\ s.due = 0 /\ s.inbox = <<>>
    BY <1>3, <1>8 DEF SocketState
  <2>2. threedo_socket_connect(s)
    BY <1>8
  <2> HIDE DEF s
  <2>3. /\ sock'.id = s.id /\ sock'.dns = s.dns /\ sock'.full = s.full
        /\ sock'.wire = s.wire /\ sock'.due = s.due /\ sock'.inbox = s.inbox
        /\ upsets' = 1 \/ (upsets' = upsets /\ sock'.link = "connecting")
        /\ sock'.error = "block" => sock'.link = "connecting"
    BY <2>1, <2>2, ConnectAffects
  <2>4. sock'.id # NoSocket /\ Unused'
    BY <1>0, <2>1, <2>3 DEF Unused
  <2>5. SockInv'
    BY <1>0, <1>1, <1>2, <1>8, <2>1, <2>3, <2>4, ResolvedAffects
  <2> QED
    BY <1>0, <1>2, <2>1, <2>3, <2>5
<1>9. CASE ~(Upset("create") /\ sock' = fresh /\ lookups' = Older(lookups))
  <2>1. PICK id \in Sockets :
          \/ /\ Upset("option")
             /\ sock' = [fresh EXCEPT !.id = id, !.link = "closed"]
             /\ lookups' = Older(lookups)
          \/ /\ ByName /\ Calm
             /\ sock' = [fresh EXCEPT !.id = id, !.dns = "BLOCKED", !.error = "block"]
             /\ lookups' = Older(lookups) \cup {TRUE}
          \/ /\ ByName /\ Upset("dns")
             /\ sock' = [fresh EXCEPT !.id = id, !.dns = "IGNORE", !.error = "bad"]
             /\ lookups' = Older(lookups)
          \/ /\ ByName /\ Upset("cached")
             /\ sock' = [fresh EXCEPT !.id = id, !.dns = "IGNORE", !.error = "block",
                                      !.link = "connecting"]
             /\ lookups' = Older(lookups)
          \/ /\ ~ByName
             /\ threedo_socket_connect([fresh EXCEPT !.id = id])
             /\ lookups' = Older(lookups)
    BY <1>9, Zenon DEF threedo_socket_open, fresh
  <2>2. CASE Upset("option") /\ sock' = [fresh EXCEPT !.id = id, !.link = "closed"]
             /\ lookups' = Older(lookups)
    BY <1>5, <2>2
  <2>3. CASE /\ Calm /\ sock' = [fresh EXCEPT !.id = id, !.dns = "BLOCKED", !.error = "block"]
             /\ lookups' = Older(lookups) \cup {TRUE}
    BY <1>6, <2>3
  <2>4. CASE /\ Upset("dns") \/ Upset("cached")
             /\ \/ sock' = [fresh EXCEPT !.id = id, !.dns = "IGNORE", !.error = "bad"]
                \/ sock' = [fresh EXCEPT !.id = id, !.dns = "IGNORE", !.error = "block",
                                         !.link = "connecting"]
             /\ lookups' = Older(lookups)
    BY <1>7, <2>4
  <2>5. CASE ~ByName /\ threedo_socket_connect([fresh EXCEPT !.id = id]) /\ lookups' = Older(lookups)
    BY <1>8, <2>5
  <2> QED
    BY <2>1, <2>2, <2>3, <2>4, <2>5, Zenon
<1>10. CASE Upset("create") /\ sock' = fresh /\ lookups' = Older(lookups)
  BY <1>3, <1>4, <1>10
<1> QED
  BY <1>9, <1>10, Zenon

-------------------------------------------------------------------------------
(* What moves a task on: the block timer or its message; an event that names the socket;
   or, once nothing can be lost any more, what the network still owes. *)

Armed == "BLOCK" \in timers \/ \E m \in Mail(queue) : m.type = "BLOCK"
Blocked ==
  \/ sock.link = "up" /\ sock.full
  \/ \E m \in Mail(queue) : m.type = "WRITE" /\ m.id = sock.id
Told == \E m \in Mail(queue) : m.type \in {"CONNECT", "WRITE"} /\ m.id = sock.id
Coming ==
  sock.link = "connecting" \/ TRUE \in lookups \/ (sock.link = "up" /\ sock.full)
Owed == Awaited(queue) \/ Told \/ (upsets = 1 /\ Coming)
Resting == NoRead(queue) /\ sock.link # "up"

(* What the outside leaves of these. *)
Moves ==
  /\ SockInv' /\ sock'.id = sock.id /\ sock'.dns = sock.dns
  /\ \A m \in Mail(queue) : m \in Mail(queue')
  /\ Owed => Owed'
  /\ Blocked => Blocked'
  /\ Resting => Owed' \/ Resting'

LEMMA LinkFacts ==
  ASSUME Within
  PROVE  /\ sock \in SocketState /\ lookups \subseteq BOOLEAN /\ queue \in Seq(Message)
         /\ sock.link # "none" => sock.dns = "IGNORE" /\ sock.id \in Sockets /\ HasSocket
                                  /\ ~Awaited(queue) /\ TRUE \notin lookups
         /\ upsets \in {0, 1} /\ upsets' \in {0, 1}
         /\ \A k : Upset(k) => upsets = 0 /\ upsets' = 1
         /\ Calm => upsets' = upsets
<1>1. sock \in SocketState /\ lookups \subseteq BOOLEAN /\ queue \in Seq(Message)
  BY Typed DEF Within
<1>2. sock.link # "none" => sock.dns = "IGNORE" /\ HasSocket
  BY DEF Within, SockInv, NameInv
<1>3. HasSocket => sock.id \in Sockets
  BY <1>1 DEF SocketState, HasSocket
<1> QED
  BY <1>1, <1>2, <1>3, Spends DEF Within, SockInv, NameInv

(* Growing keeps what is in the mailbox. *)
LEMMA Grows ==
  ASSUME NEW m0, \A m : m \in Mail(queue') <=> m = m0 \/ m \in Mail(queue)
  PROVE  /\ \A m \in Mail(queue) : m \in Mail(queue')
         /\ Awaited(queue) => Awaited(queue')
         /\ ~Named(m0) => (Awaited(queue') => Awaited(queue))
         /\ m0.type # "READ" => (NoRead(queue) => NoRead(queue'))
         /\ sock'.id = sock.id => (Told => Told')
BY DEF Awaited, NoRead, Told

LEMMA LookupMoves ==
  ASSUME Within, NEW mine \in BOOLEAN, NEW ok \in BOOLEAN, LookupAnswered(mine, ok)
  PROVE  Moves
<1> DEFINE n == [type |-> "DNS", mine |-> mine, ok |-> ok]
<1>0. /\ sock \in SocketState /\ lookups \subseteq BOOLEAN /\ queue \in Seq(Message)
      /\ upsets \in {0, 1} /\ upsets' \in {0, 1}
      /\ NameInv /\ CleanInv /\ ReadInv
  BY LinkFacts DEF Within, SockInv
<1>1. n \in Message /\ n.type = "DNS" /\ n.mine = mine /\ n.ok = ok
  BY MessageForms
<1>2. /\ queue' = Append(queue, n) /\ sock' = sock /\ lookups' = lookups \ {mine}
      /\ mine \in lookups
      /\ ok => upsets' = upsets
      /\ ~ok => upsets = 0 /\ upsets' = 1
  BY LinkFacts DEF LookupAnswered, Posted
<1>3. Named(n) <=> mine
  BY <1>1, Zenon DEF Named
<1> HIDE DEF n
<1>4. CASE mine = TRUE
  <2>1. TRUE \in lookups /\ TRUE \notin lookups' /\ (FALSE \notin lookups => FALSE \notin lookups')
    BY <1>2, <1>4
  <2>2. ~Awaited(queue) /\ sock.dns = "BLOCKED" /\ sock.link = "none" /\ Named(n)
    BY <1>0, <1>3, <1>4, <2>1 DEF NameInv
  <2>3. /\ \A m : m \in Mail(queue') <=> m = n \/ m \in Mail(queue)
        /\ OneAnswer(queue')
    BY <1>0, <1>1, <1>2, <2>2, MailOfPosted DEF NameInv
  <2>4. /\ \A m \in Mail(queue) : m \in Mail(queue')
        /\ NoRead(queue) => NoRead(queue')
        /\ Told => Told'
    BY <1>1, <1>2, <2>3, Grows
  <2>5. Awaited(queue')
    BY <2>2, <2>3 DEF Awaited
  <2>6. NameInv'
    BY <1>0, <1>2, <2>1, <2>2, <2>3 DEF NameInv, HasSocket
  <2>7. CleanInv'
    <3> SUFFICES ASSUME upsets' = 0 PROVE CleanInv'
      BY DEF CleanInv
    <3>1. upsets = 0 /\ n.ok /\ n.mine
      BY <1>0, <1>1, <1>2, <1>4
    <3>2. \A m \in Mail(queue') : /\ m.type \notin {"CLOSE", "STOP", "WRITE"}
                                  /\ m.type = "DNS" => m.mine /\ m.ok
      BY <1>0, <1>1, <2>3, <3>1 DEF CleanInv
    <3> QED
      BY <1>0, <1>2, <2>1, <2>4, <3>1, <3>2 DEF CleanInv, Unused
  <2>8. ReadInv'
    <3>1. ~n.ok => NoRead(queue')
      BY <1>0, <1>1, <1>2, <2>2, <2>4 DEF CleanInv
    <3>2. (\E m \in Mail(queue') : Named(m) /\ ~m.ok) => NoRead(queue')
      BY <1>0, <2>3, <2>4, <3>1 DEF ReadInv
    <3> QED
      BY <1>2, <2>2, <2>5, <3>2 DEF ReadInv
  <2>9. Owed' /\ (Blocked => Blocked') /\ (Resting => Resting')
    BY <1>2, <2>4, <2>5 DEF Owed, Blocked, Resting
  <2> QED
    BY <1>2, <2>4, <2>6, <2>7, <2>8, <2>9 DEF Moves, SockInv
<1>5. CASE mine = FALSE
  <2>1. /\ FALSE \in lookups /\ (TRUE \in lookups' <=> TRUE \in lookups) /\ ~Named(n)
    BY <1>2, <1>3, <1>5
  <2>2. upsets = 1 /\ upsets' = 1 /\ sock.dns # "START"
    BY <1>0, <1>2, <2>1 DEF CleanInv, NameInv
  <2>3. /\ \A m : m \in Mail(queue') <=> m = n \/ m \in Mail(queue)
        /\ OneAnswer(queue')
    BY <1>0, <1>1, <1>2, <2>1, MailOfPosted DEF NameInv
  <2>4. /\ \A m \in Mail(queue) : m \in Mail(queue')
        /\ Awaited(queue) <=> Awaited(queue')
        /\ NoRead(queue) => NoRead(queue')
        /\ Told => Told'
    BY <1>1, <1>2, <2>1, <2>3, Grows
  <2>5. NameInv'
    BY <1>0, <1>2, <2>1, <2>2, <2>3, <2>4 DEF NameInv, HasSocket
  <2>6. CleanInv'
    BY <2>2 DEF CleanInv
  <2>7. ReadInv'
    BY <1>0, <1>2, <2>1, <2>2, <2>3, <2>4 DEF ReadInv
  <2>8. (Owed => Owed') /\ (Blocked => Blocked') /\ (Resting => Resting')
    BY <1>2, <2>1, <2>2, <2>4 DEF Owed, Coming, Blocked, Resting
  <2> QED
    BY <1>2, <2>4, <2>5, <2>6, <2>7, <2>8 DEF Moves, SockInv
<1> QED
  BY <1>4, <1>5, Zenon

(* A loss: the mailbox stays as it is. *)
LEMMA LossMoves ==
  ASSUME Within, LookupLost \/ ConnectLost \/ AnswerLost
  PROVE  Moves
<1>0. /\ sock \in SocketState /\ queue' = queue /\ upsets = 0 /\ upsets' = 1
      /\ lookups' = lookups \/ lookups' = {}
  BY LinkFacts DEF LookupLost, ConnectLost, AnswerLost
<1>1. /\ sock'.id = sock.id /\ sock'.dns = sock.dns /\ sock'.error = sock.error
      /\ sock.link = "none" => sock'.link = "none" /\ lookups' \subseteq lookups
      /\ sock.link # "none" => lookups' \subseteq lookups
      /\ sock'.link = "up" => sock.link = "up"
      /\ sock'.full = sock.full
  BY <1>0, LinkFacts DEF LookupLost, ConnectLost, AnswerLost, SocketState
<1>2. NameInv'
  BY <1>0, <1>1, LinkFacts DEF Within, SockInv, NameInv, HasSocket
<1>3. CleanInv'
  BY <1>0 DEF CleanInv
<1>4. ReadInv'
  BY <1>0, <1>1 DEF Within, SockInv, NameInv, CleanInv, ReadInv
<1>5. Owed => Owed'
  BY <1>0, <1>1 DEF Owed, Told
<1>6. Blocked => Blocked'
  BY <1>0, <1>1 DEF Blocked, Within, SockInv, CleanInv
<1>7. Resting => Resting'
  BY <1>0, <1>1 DEF Resting
<1> QED
  BY <1>0, <1>1, <1>2, <1>3, <1>4, <1>5, <1>6, <1>7 DEF Moves, SockInv

(* A report of a connection: the socket is in use, and no answer is due. *)
LEMMA ReportMoves ==
  ASSUME Within, sock.link # "none", NEW n \in Message, n.type \in {"CONNECT", "WRITE", "READ", "CLOSE"},
         queue' = Append(queue, n), lookups' = lookups,
         sock'.id = sock.id, sock'.dns = sock.dns
  PROVE  /\ NameInv' /\ ReadInv'
         /\ \A m : m \in Mail(queue') <=> m = n \/ m \in Mail(queue)
         /\ \A m \in Mail(queue) : m \in Mail(queue')
         /\ n.type # "READ" => (NoRead(queue) => NoRead(queue'))
         /\ Told => Told'
         /\ ~Awaited(queue) /\ TRUE \notin lookups
<1>0. /\ queue \in Seq(Message) /\ sock.dns = "IGNORE" /\ HasSocket
      /\ ~Awaited(queue) /\ TRUE \notin lookups /\ NameInv
  BY LinkFacts DEF Within, SockInv
<1>1. ~Named(n)
  BY DEF Named
<1>2. /\ \A m : m \in Mail(queue') <=> m = n \/ m \in Mail(queue)
      /\ OneAnswer(queue')
  BY <1>0, <1>1, MailOfPosted DEF NameInv
<1>3. /\ \A m \in Mail(queue) : m \in Mail(queue')
      /\ ~Awaited(queue')
      /\ n.type # "READ" => (NoRead(queue) => NoRead(queue'))
      /\ Told => Told'
  BY <1>0, <1>1, <1>2, Grows
<1>4. NameInv'
  BY <1>0, <1>2, <1>3 DEF NameInv, HasSocket
<1>5. ReadInv'
  BY <1>0, <1>3 DEF ReadInv, Awaited
<1> QED
  BY <1>0, <1>2, <1>3, <1>4, <1>5

LEMMA ConnectedMoves ==
  ASSUME Within, NEW ok \in BOOLEAN, Connected(ok)
  PROVE  Moves
<1> DEFINE n == [type |-> "CONNECT", id |-> sock.id, ok |-> ok]
<1>0. /\ sock \in SocketState /\ sock.link = "connecting" /\ sock.id \in Sockets
      /\ upsets \in {0, 1} /\ upsets' \in {0, 1} /\ CleanInv
      /\ queue' = Append(queue, n) /\ lookups' = lookups
      /\ sock' = [sock EXCEPT !.link = IF ok THEN "up" ELSE "dead"]
      /\ ok => upsets' = upsets
      /\ ~ok => upsets' = 1
  BY LinkFacts DEF Connected, Posted, Within, SockInv
<1>1. n \in Message /\ n.type = "CONNECT" /\ n.id = sock.id
  BY <1>0, MessageForms
<1> HIDE DEF n
<1>2. /\ sock'.id = sock.id /\ sock'.dns = sock.dns /\ sock'.error = sock.error
      /\ sock'.full = sock.full /\ sock'.wire = sock.wire /\ sock'.due = sock.due
      /\ sock'.inbox = sock.inbox /\ (ok => sock'.link = "up")
  BY <1>0 DEF SocketState
<1>3. /\ NameInv' /\ ReadInv'
      /\ \A m : m \in Mail(queue') <=> m = n \/ m \in Mail(queue)
      /\ \A m \in Mail(queue) : m \in Mail(queue')
      /\ NoRead(queue) => NoRead(queue')
  BY <1>0, <1>1, <1>2, ReportMoves
<1>4. Owed'
  BY <1>1, <1>2, <1>3 DEF Owed, Told
<1>5. Blocked => Blocked'
  BY <1>0, <1>2, <1>3 DEF Blocked
<1>6. CleanInv'
  <2> SUFFICES ASSUME upsets' = 0 PROVE CleanInv'
    BY DEF CleanInv
  <2>1. upsets = 0 /\ ok
    BY <1>0
  <2> QED
    BY <1>0, <1>1, <1>2, <1>3, <2>1 DEF CleanInv, Unused
<1> QED
  BY <1>2, <1>3, <1>4, <1>5, <1>6 DEF Moves, SockInv

LEMMA WritableMoves ==
  ASSUME Within, WriteReady \/ WriteLost
  PROVE  Moves
<1> DEFINE n == [type |-> "WRITE", id |-> sock.id]
<1>0. /\ sock \in SocketState /\ sock.link = "up" /\ sock.full /\ sock.id \in Sockets
      /\ upsets \in {0, 1} /\ upsets' \in {0, 1} /\ CleanInv
      /\ sock' = [sock EXCEPT !.full = FALSE]
  BY LinkFacts DEF WriteReady, WriteLost, Within, SockInv
<1>1. upsets = 1
  BY <1>0 DEF CleanInv
<1>2. WriteReady
  BY <1>1, LinkFacts DEF WriteLost
<1>3. /\ queue' = Append(queue, n) /\ lookups' = lookups /\ upsets' = 1
  BY <1>1, <1>2, LinkFacts DEF WriteReady, Posted
<1>4. n \in Message /\ n.type = "WRITE" /\ n.id = sock.id
  BY <1>0, MessageForms
<1> HIDE DEF n
<1>5. sock'.id = sock.id /\ sock'.dns = sock.dns /\ sock'.link = "up"
  BY <1>0 DEF SocketState
<1>6. /\ NameInv' /\ ReadInv'
      /\ \A m : m \in Mail(queue') <=> m = n \/ m \in Mail(queue)
      /\ \A m \in Mail(queue) : m \in Mail(queue')
  BY <1>0, <1>3, <1>4, <1>5, ReportMoves
<1>7. Owed' /\ Blocked'
  BY <1>4, <1>5, <1>6 DEF Owed, Told, Blocked
<1>8. CleanInv'
  BY <1>3 DEF CleanInv
<1> QED
  BY <1>5, <1>6, <1>7, <1>8 DEF Moves, SockInv

LEMMA ArrivalMoves ==
  ASSUME Within, NEW answer, NEW settled, NEW wire, Arrives(answer, settled, wire),
         upsets' = 1 \/ (upsets' = upsets /\ sock.due > 0)
  PROVE  Moves
<1> DEFINE n == [type |-> "READ", id |-> sock.id]
<1>0. /\ sock \in SocketState /\ sock.link = "up" /\ sock.id \in Sockets
      /\ queue \in Seq(Message)
      /\ upsets \in {0, 1} /\ upsets' \in {0, 1} /\ CleanInv /\ NameInv /\ ReadInv
      /\ sock' = [sock EXCEPT !.inbox = Append(@, answer), !.due = @ - settled, !.wire = wire]
      /\ lookups' = lookups
      /\ queue' = queue \/ queue' = Append(queue, n)
      /\ upsets = 1 => upsets' = 1
  BY LinkFacts DEF Arrives, Posted, Within, SockInv
<1>1. n \in Message /\ n.type = "READ"
  BY <1>0, MessageForms
<1> HIDE DEF n
<1>2. /\ sock'.id = sock.id /\ sock'.dns = sock.dns /\ sock'.link = "up"
      /\ sock'.error = sock.error /\ sock'.full = sock.full
  BY <1>0 DEF SocketState
<1>3. /\ NameInv' /\ ReadInv'
      /\ \A m \in Mail(queue') : m.type = "READ" \/ m \in Mail(queue)
      /\ \A m \in Mail(queue) : m \in Mail(queue')
      /\ Told => Told'
      /\ ~Awaited(queue)
  <2>1. CASE queue' = Append(queue, n)
    BY <1>0, <1>1, <1>2, <2>1, ReportMoves
  <2>2. CASE queue' = queue
    BY <1>0, <1>2, <2>2, LinkFacts, NameSame, ReadSame DEF Told
  <2> QED
    BY <1>0, <2>1, <2>2
<1>4. Owed => Owed'
  BY <1>0, <1>2, <1>3, LinkFacts DEF Owed, Coming
<1>5. Blocked => Blocked'
  BY <1>0, <1>2, <1>3 DEF Blocked
<1>6. ~Resting
  BY <1>0 DEF Resting
<1>7. CleanInv'
  <2> SUFFICES ASSUME upsets' = 0 PROVE CleanInv'
    BY DEF CleanInv
  <2>1. upsets = 0 /\ sock.due > 0 /\ ~(0 > 0)
    BY <1>0
  <2>2. sock.error # "bad"
    BY <1>0, <2>1 DEF CleanInv, Unused
  <2> QED
    BY <1>0, <1>2, <1>3, <2>1, <2>2 DEF CleanInv
<1> QED
  BY <1>2, <1>3, <1>4, <1>5, <1>6, <1>7 DEF Moves, SockInv

LEMMA EndMoves ==
  ASSUME Within, NEW reset \in BOOLEAN, ServerCloses(reset)
  PROVE  Moves
<1> DEFINE n == [type |-> "CLOSE", id |-> sock.id, ok |-> reset]
<1>0. /\ sock \in SocketState /\ sock.link = "up" /\ sock.id \in Sockets
      /\ upsets = 0 /\ upsets' = 1 /\ CleanInv
      /\ sock' = [sock EXCEPT !.link = "dead", !.due = 0, !.full = FALSE]
      /\ queue' = Append(queue, n) /\ lookups' = lookups
  BY LinkFacts DEF ServerCloses, Posted, Within, SockInv
<1>1. n \in Message /\ n.type = "CLOSE"
  BY <1>0, MessageForms
<1> HIDE DEF n
<1>2. sock'.id = sock.id /\ sock'.dns = sock.dns /\ sock'.link = "dead"
  BY <1>0 DEF SocketState
<1>3. /\ NameInv' /\ ReadInv'
      /\ \A m \in Mail(queue) : m \in Mail(queue')
      /\ Told => Told'
      /\ ~Awaited(queue)
  BY <1>0, <1>1, <1>2, ReportMoves
<1>4. Owed => Owed'
  <2>1. upsets # 1
    BY <1>0
  <2> QED
    BY <1>3, <2>1, Zenon DEF Owed
<1>5. Blocked => Blocked'
  BY <1>0, <1>2, <1>3 DEF Blocked, CleanInv
<1>6. ~Resting
  BY <1>0 DEF Resting
<1>7. CleanInv'
  BY <1>0 DEF CleanInv
<1> QED
  BY <1>2, <1>3, <1>4, <1>5, <1>6, <1>7 DEF Moves, SockInv

(* A message that tells nothing of the socket: timers, requests, the secure code. *)
LEMMA PostMoves ==
  ASSUME Within, NEW n \in Message, queue' = Append(queue, n), UNCHANGED <<sock, lookups>>,
         n.type \in {"REQ", "BLOCK", "HEART", "STOP"},
         (Calm /\ n.type # "STOP") \/ Upset("stop")
  PROVE  Moves /\ n \in Mail(queue')
<1>1. SockInv'
  BY SockPosts
<1>2. \A m : m \in Mail(queue') <=> m = n \/ m \in Mail(queue)
  BY MailOfPosted, LinkFacts
<1>3. /\ \A m \in Mail(queue) : m \in Mail(queue')
      /\ Awaited(queue) => Awaited(queue')
      /\ NoRead(queue) => NoRead(queue')
      /\ Told => Told'
  BY <1>2, Grows
<1>4. (Owed => Owed') /\ (Blocked => Blocked') /\ (Resting => Resting')
  BY <1>3, LinkFacts DEF Owed, Coming, Blocked, Resting
<1> QED
  BY <1>1, <1>2, <1>3, <1>4 DEF Moves

LEMMA OutsideMoves ==
  ASSUME Within, Outside
  PROVE  Moves
<1>1. ASSUME NEW mine \in BOOLEAN, NEW ok \in BOOLEAN, LookupAnswered(mine, ok)
      PROVE  Moves
  BY <1>1, LookupMoves
<1>2. ASSUME NEW ok \in BOOLEAN, Connected(ok) \/ ServerCloses(ok)
      PROVE  Moves
  BY <1>2, ConnectedMoves, EndMoves
<1>3. CASE LookupLost \/ ConnectLost \/ AnswerLost
  BY <1>3, LossMoves
<1>4. CASE WriteReady \/ WriteLost
  BY <1>4, WritableMoves
<1>5. CASE ServerAnswers
  <2>1. sock.due > 0 /\ Arrives("OK", 1, sock.wire) /\ upsets' = upsets
    BY <1>5, LinkFacts DEF ServerAnswers
  <2> QED
    BY <2>1, ArrivalMoves
<1>6. CASE ServerRefuses
  <2>1. upsets' = 1 /\ \E answer, settled, wire : Arrives(answer, settled, wire)
    BY <1>6, LinkFacts DEF ServerRefuses
  <2> QED
    BY <2>1, ArrivalMoves
<1>7. CASE Stop
  <2>1. /\ [type |-> "STOP"] \in Message /\ queue' = Append(queue, [type |-> "STOP"])
        /\ UNCHANGED <<sock, lookups>> /\ Upset("stop")
    BY <1>7, MessageForms DEF Stop, Posted
  <2> QED
    BY <2>1, PostMoves
<1> QED
  BY <1>1, <1>2, <1>3, <1>4, <1>5, <1>6, <1>7 DEF Outside

-------------------------------------------------------------------------------
(* The tasks: what a function leaves at its end. *)

Late == {"UPLOAD_CONTI", "UPLOAD_TAIL", "FD_TRANS_EOF", "TRANS_FINISH"}
Uploads == {"UPLOAD_CONTI", "UPLOAD_TAIL"}

(* Data is sent only over a connection whose name is known. *)
LateInv ==
  /\ tasks # <<>> /\ Task1.state \in Late => sock.dns = "IGNORE"
  /\ pc \in {"upload", "upload_tail"} => sock.dns = "IGNORE"

(* What moves the head on, by how far it has come. *)
GoingInv ==
  tasks # <<>> =>
    /\ pc \in {"idle", "process"} =>
         /\ Task1.state = "FD_TRANS_EOF" => Armed
         /\ Task1.state \in Uploads => Blocked
         /\ Task1.state = "READY_SOCKET" => Owed \/ (Armed /\ Resting)
         /\ Task1.state # "TRANS_FINISH"
    /\ pc = "idle" /\ Task1.state = "WAIT_START" => Armed /\ ~HasSocket
    /\ pc = "read" => /\ Task1.state \in Uploads => Blocked
                      /\ Task1.state = "READY_SOCKET" => Owed
    /\ pc \in {"read", "write"} => Task1.state \notin {"WAIT_START", "TRANS_FINISH"}

Beats == timers # {} \/ \E m \in Mail(queue) : m.type \in {"BLOCK", "HEART"}

(* What keeps an empty list alive. *)
BeatInv ==
  /\ pc = "process" => tasks # <<>>
  /\ ~cntx => tasks = <<>>
  /\ \A i \in 2 .. Len(tasks) : tasks[i].retryCt < RetryMax
  /\ pc = "process" /\ Task1.state = "WAIT_START" /\ Task1.retryCt = RetryMax => Armed
  /\ pc = "idle" /\ cntx /\ tasks = <<>> /\ ~retry => Beats

Steady == Within /\ LateInv /\ GoingInv /\ BeatInv
StaysSteady == SockInv' /\ LateInv' /\ GoingInv' /\ BeatInv'

(* A list of tasks that have not begun and have tries left. *)
Untried(ts) == \A i \in 1 .. Len(ts) : Unstarted(ts[i]) /\ ts[i].retryCt < RetryMax

LEMMA Listed ==
  ASSUME Steady
  PROVE  /\ ListOK /\ tasks \in Seq(threedo_tt_node) /\ Len(tasks) \in Nat
         /\ timers \subseteq {"BLOCK", "HEART"}
         /\ Within /\ TransferInv /\ SockInv /\ LateInv /\ GoingInv /\ BeatInv
         /\ tasks # <<>> => cntx /\ Task1 \in threedo_tt_node /\ 1 \in 1 .. Len(tasks)
<1>1. ListOK /\ TransferInv /\ Within
  BY DEF Steady, Within, TransferInv
<1>2. tasks \in Seq(threedo_tt_node) /\ timers \subseteq {"BLOCK", "HEART"} /\ Len(tasks) \in Nat
  BY <1>1, Typed, LenProperties
<1>3. tasks # <<>> => Len(tasks) \in Nat \ {0} /\ Task1 \in threedo_tt_node
  BY <1>1, HeadForm
<1> QED
  BY <1>1, <1>2, <1>3 DEF Steady, Within, BeatInv

(* The list with another head. *)
HeadIs(t) ==
  /\ tasks' # <<>> /\ tasks'[1] = t /\ Len(tasks') = Len(tasks)
  /\ \A i \in 2 .. Len(tasks) : tasks'[i] = tasks[i]

LEMMA HeadIsWith ==
  ASSUME Steady, tasks # <<>>, NEW t \in threedo_tt_node, tasks' = WithHead(t)
  PROVE  HeadIs(t)
<1>1. /\ tasks'[1] = t /\ Len(tasks') = Len(tasks) /\ Len(tasks) # 0
      /\ \A i \in 2 .. Len(tasks) : tasks'[i] = tasks[i]
  BY HeadForm, Listed
<1>2. tasks' # <<>>
  BY <1>1
<1> QED
  BY <1>1, <1>2 DEF HeadIs

LEMMA HeadIsSame == tasks # <<>> /\ tasks' = tasks => HeadIs(Task1)
BY DEF HeadIs, Task1

(* The head is left at rest. *)
LEMMA HeadRests ==
  ASSUME Steady, tasks # <<>>, NEW t, HeadIs(t), pc' = "idle", cntx' = cntx,
         t.state = "FD_TRANS_EOF" => Armed',
         t.state \in Uploads => Blocked',
         t.state = "READY_SOCKET" => Owed' \/ (Armed' /\ Resting'),
         t.state = "WAIT_START" => Armed' /\ ~HasSocket',
         t.state # "TRANS_FINISH",
         t.state \in Late => sock'.dns = "IGNORE"
  PROVE  LateInv' /\ GoingInv' /\ BeatInv'
<1>1. tasks' # <<>> /\ Task1' = t /\ cntx'
  BY Listed DEF HeadIs, Task1
<1>2. LateInv'
  BY <1>1 DEF LateInv
<1>3. GoingInv'
  BY <1>1 DEF GoingInv
<1>4. BeatInv'
  BY <1>1, Listed DEF BeatInv, HeadIs
<1> QED
  BY <1>2, <1>3, <1>4

(* The head is being worked on. *)
LEMMA HeadWorks ==
  ASSUME Steady, tasks # <<>>, NEW t, HeadIs(t), cntx' = cntx,
         pc' \in {"write", "upload", "upload_tail", "check", "hung", "fault"},
         pc' = "write" => t.state \notin {"WAIT_START", "TRANS_FINISH"},
         pc' \in {"upload", "upload_tail"} \/ t.state \in Late => sock'.dns = "IGNORE"
  PROVE  LateInv' /\ GoingInv' /\ BeatInv'
<1>1. tasks' # <<>> /\ Task1' = t /\ cntx'
  BY Listed DEF HeadIs, Task1
<1>2. LateInv'
  BY <1>1 DEF LateInv
<1>3. GoingInv'
  BY <1>1 DEF GoingInv
<1>4. BeatInv'
  BY <1>1, Listed DEF BeatInv, HeadIs
<1> QED
  BY <1>2, <1>3, <1>4

(* The next task is about to be started, or there is none. *)
LEMMA NextStarts ==
  ASSUME Steady, Len(tasks') \in Nat, Untried(tasks'), tasks' # <<>> => 1 \in 1 .. Len(tasks'), cntx' = cntx,
         tasks' # <<>> => cntx,
         \/ pc' = "process" /\ tasks' # <<>>
         \/ pc' = "idle" /\ tasks' = <<>> /\ (cntx /\ ~retry' => Beats')
         \/ pc' \in {"fault", "check", "read", "write"} /\ tasks' = <<>>
  PROVE  LateInv' /\ GoingInv' /\ BeatInv'
<1>1. tasks' # <<>> => Task1'.state = "WAIT_START" /\ Task1'.retryCt < RetryMax
  BY DEF Untried, Unstarted, Task1
<1>2. \A n : n < RetryMax => n # RetryMax
  BY Bounds
<1>3. LateInv'
  BY <1>1 DEF LateInv, Late
<1>4. GoingInv'
  BY <1>1 DEF GoingInv, Uploads
<1>5. \A i \in 2 .. Len(tasks') : i \in 1 .. Len(tasks')
  OBVIOUS
<1>6. BeatInv'
  BY <1>1, <1>2, <1>5 DEF BeatInv, Untried
<1> QED
  BY <1>3, <1>4, <1>6

(* Without its head, or with it begun anew behind the others, the list is untried. *)
LEMMA TailUntried ==
  ASSUME Steady, tasks # <<>>
  PROVE  /\ Tail(tasks) \in Seq(threedo_tt_node) /\ Len(Tail(tasks)) \in Nat
         /\ Tail(tasks) # <<>> => 1 \in 1 .. Len(Tail(tasks))
         /\ Untried(Tail(tasks))
         /\ Len(tasks) > 1 <=> Tail(tasks) # <<>>
         /\ \A t \in threedo_tt_node : Unstarted(t) /\ t.retryCt < RetryMax =>
              /\ Append(Tail(tasks), t) \in Seq(threedo_tt_node)
              /\ Len(Append(Tail(tasks), t)) \in Nat /\ 1 \in 1 .. Len(Append(Tail(tasks), t))
              /\ Append(Tail(tasks), t) # <<>>
              /\ Untried(Append(Tail(tasks), t))
<1>0. ListOK /\ BeatInv /\ cntx
  BY Listed
<1>1. /\ Tail(tasks) \in Seq(threedo_tt_node) /\ Len(Tail(tasks)) = Len(tasks) - 1
      /\ Len(tasks) \in Nat \ {0}
      /\ \A i \in 1 .. Len(Tail(tasks)) : /\ Tail(tasks)[i] = tasks[i + 1]
                                          /\ Unstarted(Tail(tasks)[i])
      /\ Len(tasks) > 1 <=> Tail(tasks) # <<>>
  BY <1>0, TailForm, HeadForm, DroppedFresh
<1>2. \A i \in 1 .. Len(Tail(tasks)) : i + 1 \in 2 .. Len(tasks)
  BY <1>1
<1>3. \A i \in 2 .. Len(tasks) : tasks[i].retryCt < RetryMax
  BY <1>0 DEF BeatInv
<1>4. Untried(Tail(tasks))
  BY <1>1, <1>2, <1>3 DEF Untried
<1>5. ASSUME NEW t \in threedo_tt_node, Unstarted(t), t.retryCt < RetryMax
      PROVE  /\ Append(Tail(tasks), t) \in Seq(threedo_tt_node)
             /\ Len(Append(Tail(tasks), t)) \in Nat /\ 1 \in 1 .. Len(Append(Tail(tasks), t))
             /\ Append(Tail(tasks), t) # <<>>
             /\ Untried(Append(Tail(tasks), t))
  <2> DEFINE a == Append(Tail(tasks), t)
  <2>1. /\ a \in Seq(threedo_tt_node) /\ Len(a) = Len(tasks) /\ a # <<>>
        /\ a[Len(tasks)] = t
        /\ \A i \in 1 .. Len(tasks) - 1 : a[i] = tasks[i + 1]
        /\ \A i \in 1 .. Len(tasks) : Unstarted(a[i])
    BY <1>0, <1>5, AgainForm
  <2> HIDE DEF a
  <2>2. ASSUME NEW i \in 1 .. Len(a) PROVE a[i].retryCt < RetryMax
    <3>1. CASE i = Len(tasks)
      BY <1>5, <2>1, <3>1
    <3>2. CASE i # Len(tasks)
      <4>1. i \in 1 .. Len(tasks) /\ Len(tasks) \in Nat \ {0}
        BY <1>1, <2>1, Zenon
      <4>2. i \in 1 .. Len(tasks) - 1 /\ i + 1 \in 2 .. Len(tasks)
        BY <3>2, <4>1
      <4> QED
        BY <1>3, <2>1, <4>2
    <3> QED
      BY <3>1, <3>2
  <2>3. Untried(a)
    BY <2>1, <2>2 DEF Untried
  <2>4. Len(a) \in Nat /\ 1 \in 1 .. Len(a)
    <3>1. Len(tasks) \in Nat \ {0} /\ Len(a) = Len(tasks)
      BY <1>1, <2>1, Zenon
    <3> QED
      BY <3>1
  <2> QED
    BY <2>1, <2>3, <2>4 DEF a
<1>6. Tail(tasks) # <<>> => 1 \in 1 .. Len(Tail(tasks))
  BY <1>1
<1> QED
  BY <1>1, <1>4, <1>5, <1>6

-------------------------------------------------------------------------------
(* threedo_file_trans_process *)

LEMMA SameRests ==
  ASSUME Steady, UNCHANGED <<sock, lookups, queue>>, Calm \/ \E k : Upset(k)
  PROVE  /\ SockInv'
         /\ timers \subseteq timers' => (Armed => Armed')
         /\ Blocked => Blocked'
         /\ Owed => Owed'
         /\ Resting => Resting'
<1>1. SockInv' /\ (upsets = 1 => upsets' = 1)
  BY Listed, SockSame, LinkFacts
<1>2. timers \subseteq timers' => (Armed => Armed')
  BY DEF Armed
<1>3. (Blocked => Blocked') /\ (Resting => Resting')
  BY DEF Blocked, Resting
<1>4. Owed => Owed'
  BY <1>1 DEF Owed, Told, Coming
<1> QED
  BY <1>1, <1>2, <1>3, <1>4

LEMMA BusyGoes == Steady /\ ProcessBusy => StaysSteady
<1> SUFFICES ASSUME Steady, ProcessBusy PROVE StaysSteady
  OBVIOUS
<1>1. SockInv' /\ tasks # <<>> /\ cntx' = cntx /\ cntx
  BY SameRests, Listed DEF ProcessBusy
<1>2. CASE retry
  <2>1. /\ tasks' = Tail(tasks) /\ retry'
        /\ pc' = IF Len(tasks) > 1 THEN "process" ELSE "idle"
    BY <1>2 DEF ProcessBusy
  <2>2. LateInv' /\ GoingInv' /\ BeatInv'
    BY <1>1, <2>1, TailUntried, NextStarts
  <2> QED
    BY <1>1, <2>2 DEF StaysSteady
<1>3. CASE ~retry
  <2>1. /\ tasks' = tasks /\ pc' = "idle" /\ timers' = timers /\ pc = "process"
        /\ UNCHANGED <<sock, lookups, queue>> /\ Calm /\ Task1.state # "WAIT_START"
    BY <1>3 DEF ProcessBusy
  <2>2. /\ HeadIs(Task1) /\ GoingInv /\ LateInv
        /\ Armed => Armed'
        /\ Blocked => Blocked'
        /\ Owed => Owed'
        /\ Resting => Resting'
    BY <1>1, <2>1, SameRests, HeadIsSame, Listed
  <2>3. /\ Task1.state = "FD_TRANS_EOF" => Armed'
        /\ Task1.state \in Uploads => Blocked'
        /\ Task1.state = "READY_SOCKET" => Owed' \/ (Armed' /\ Resting')
        /\ Task1.state # "TRANS_FINISH"
        /\ Task1.state \in Late => sock'.dns = "IGNORE"
    BY <1>1, <2>1, <2>2 DEF GoingInv, LateInv
  <2>4. LateInv' /\ GoingInv' /\ BeatInv'
    BY <1>1, <2>1, <2>2, <2>3, HeadRests
  <2> QED
    BY <1>1, <2>4 DEF StaysSteady
<1> QED
  BY <1>2, <1>3

LEMMA DropsGoes == Steady /\ ProcessDrops => StaysSteady
<1> SUFFICES ASSUME Steady, ProcessDrops PROVE StaysSteady
  OBVIOUS
<1>1. /\ tasks # <<>> /\ cntx' = cntx /\ cntx /\ pc = "process" /\ Task1.state = "WAIT_START"
      /\ tasks' = Tail(tasks) /\ UNCHANGED <<sock, lookups, queue, timers>>
      /\ pc' = IF Len(tasks) > 1 THEN "process" ELSE "idle"
      /\ Calm \/ \E k : Upset(k)
      /\ Task1.retryCt = RetryMax \/ Len(tasks) > 1
  BY Listed DEF ProcessDrops
<1>2. SockInv'
  BY <1>1, SameRests
<1>3. Task1.retryCt = RetryMax => Beats'
  <2>1. Task1.retryCt = RetryMax => Armed
    BY <1>1, Listed DEF BeatInv
  <2> QED
    BY <1>1, <2>1 DEF Armed, Beats
<1>4. LateInv' /\ GoingInv' /\ BeatInv'
  BY <1>1, <1>3, TailUntried, NextStarts
<1> QED
  BY <1>2, <1>4 DEF StaysSteady

(* A task that has been started, with a socket or without. *)
LEMMA StartedNode ==
  ASSUME Steady, tasks # <<>>, Task1.state = "WAIT_START", Task1.retryCt < RetryMax
  PROVE  \A t : t = Started \/ t = [Started EXCEPT !.state = "READY_SOCKET"] =>
           /\ t \in threedo_tt_node
           /\ t = Started => t.state = "WAIT_START"
           /\ t = [Started EXCEPT !.state = "READY_SOCKET"] => t.state = "READY_SOCKET"
<1>1. Task1 \in threedo_tt_node
  BY Listed
<1>2. Task1.retryCt + 1 \in 0 .. RetryMax
  BY <1>1, Bounds DEF threedo_tt_node
<1>3. Started \in threedo_tt_node /\ Started.state = "WAIT_START"
  BY <1>1, <1>2 DEF Started, threedo_tt_node
<1>4. /\ [Started EXCEPT !.state = "READY_SOCKET"] \in threedo_tt_node
      /\ [Started EXCEPT !.state = "READY_SOCKET"].state = "READY_SOCKET"
  BY <1>3 DEF threedo_tt_node, States
<1> QED
  BY <1>3, <1>4

(* It waits for the timer, or goes on at once. *)
LEMMA ReadyGoes ==
  ASSUME Steady, tasks # <<>>, SockInv', cntx' = cntx, NEW t \in threedo_tt_node, tasks' = WithHead(t),
         t.state = "READY_SOCKET",
         \/ pc' = "idle" /\ Armed' /\ (Owed' \/ Resting')
         \/ pc' \in {"write", "check"}
  PROVE  StaysSteady
<1>1. HeadIs(t)
  BY HeadIsWith
<1>2. CASE pc' = "idle" /\ Armed' /\ (Owed' \/ Resting')
  BY <1>1, <1>2, HeadRests DEF StaysSteady, Uploads, Late
<1>3. CASE pc' \in {"write", "check"}
  BY <1>1, <1>3, HeadWorks DEF StaysSteady, Late
<1> QED
  BY <1>2, <1>3

LEMMA StartsGoes == Steady /\ ProcessStarts => StaysSteady
<1> SUFFICES ASSUME Steady, ProcessStarts PROVE StaysSteady
  OBVIOUS
<1>0. /\ tasks # <<>> /\ Task1.state = "WAIT_START" /\ Task1.retryCt < RetryMax
      /\ cntx' = cntx /\ Within /\ SockInv
      /\ tasks' = WithHead(IF sock'.id = NoSocket THEN Started
                                                 ELSE [Started EXCEPT !.state = "READY_SOCKET"])
      /\ IF sock'.id # NoSocket /\ sock'.dns = "IGNORE" THEN AfterConnect ELSE WaitToRetry
      /\ upsets' \in {0, 1}
  BY Listed, LinkFacts DEF ProcessStarts
<1>1. WaitToRetry => pc' = "idle" /\ Armed'
  BY DEF WaitToRetry, Armed
<1>2. ASSUME SockInv', sock'.id # NoSocket,
             sock'.dns # "IGNORE" => Owed' \/ Resting',
             sock'.dns = "IGNORE" /\ sock'.error = "block" => Owed' \/ Resting'
      PROVE  StaysSteady
  <2> DEFINE t == [Started EXCEPT !.state = "READY_SOCKET"]
  <2>1. t \in threedo_tt_node /\ t.state = "READY_SOCKET" /\ tasks' = WithHead(t)
    BY <1>0, <1>2, StartedNode
  <2> HIDE DEF t
  <2>2. \/ pc' = "idle" /\ Armed' /\ (Owed' \/ Resting')
        \/ pc' \in {"write", "check"}
    <3>1. CASE sock'.dns # "IGNORE"
      BY <1>0, <1>1, <1>2, <3>1
    <3>2. CASE sock'.dns = "IGNORE" /\ sock'.error = "block"
      BY <1>0, <1>2, <3>2 DEF AfterConnect, Armed
    <3>3. CASE sock'.dns = "IGNORE" /\ sock'.error # "block"
      BY <1>0, <1>2, <3>3 DEF AfterConnect
    <3> QED
      BY <3>1, <3>2, <3>3
  <2> QED
    BY <1>0, <1>2, <2>1, <2>2, ReadyGoes
<1>3. CASE ~HasSocket /\ threedo_socket_open(queue) /\ (sock'.link = "closed" => sock'.dns = "IGNORE")
  <2>1. /\ SockInv'
        /\ sock'.id # NoSocket /\ sock'.dns # "IGNORE" =>
             TRUE \in lookups' /\ sock'.link = "none" /\ (upsets' = 0 => NoRead(queue'))
        /\ sock'.id # NoSocket /\ sock'.dns = "IGNORE" /\ sock'.error = "block" =>
             sock'.link = "connecting" /\ (upsets' = 0 => NoRead(queue'))
    BY <1>0, <1>3, OpenAffects
  <2>2. CASE sock'.id # NoSocket
    <3>1. sock'.dns # "IGNORE" => Owed' \/ Resting'
      BY <1>0, <2>1, <2>2 DEF Owed, Coming, Resting
    <3>2. sock'.dns = "IGNORE" /\ sock'.error = "block" => Owed' \/ Resting'
      BY <1>0, <2>1, <2>2 DEF Owed, Coming, Resting
    <3> QED
      BY <1>2, <2>1, <2>2, <3>1, <3>2
  <2>3. CASE sock'.id = NoSocket
    <3> DEFINE t == Started
    <3>1. t \in threedo_tt_node /\ t.state = "WAIT_START" /\ tasks' = WithHead(t)
      BY <1>0, <2>3, StartedNode
    <3> HIDE DEF t
    <3>2. pc' = "idle" /\ Armed' /\ ~HasSocket'
      BY <1>0, <1>1, <2>3 DEF HasSocket
    <3>3. LateInv' /\ GoingInv' /\ BeatInv'
      BY <1>0, <3>1, <3>2, HeadIsWith, HeadRests DEF Uploads, Late
    <3> QED
      BY <2>1, <3>3 DEF StaysSteady
  <2> QED
    BY <2>2, <2>3
<1>4. CASE /\ HasSocket /\ sock.dns # "FAILED"
           /\ sock' = [sock EXCEPT !.error = "zero"] /\ Calm /\ UNCHANGED <<lookups, queue>>
  <2>1. /\ Like(sock') /\ sock'.id # NoSocket /\ sock'.dns = sock.dns /\ sock'.link = sock.link
        /\ sock'.error = "zero" /\ upsets' = upsets
    BY <1>0, <1>4, LinkFacts DEF Like, SocketState, HasSocket, Unused
  <2>2. SockInv'
    BY <1>0, <1>4, <2>1, LikeSock
  <2>3. sock'.dns # "IGNORE" => Owed' \/ Resting'
    <3>1. sock.dns # "IGNORE" => sock.dns = "BLOCKED" /\ sock.link = "none"
      BY <1>0, <1>4, LinkFacts DEF SockInv, NameInv, SocketState
    <3>2. sock.dns # "IGNORE" => NoRead(queue) \/ Awaited(queue) \/ (upsets = 1 /\ TRUE \in lookups)
      BY <1>0, <3>1 DEF SockInv, ReadInv
    <3> QED
      BY <1>4, <2>1, <3>1, <3>2 DEF Owed, Coming, Resting
  <2> QED
    BY <1>2, <2>1, <2>2, <2>3
<1> QED
  BY <1>3, <1>4 DEF ProcessStarts

LEMMA ClosesGoes == Steady /\ ProcessCloses => StaysSteady
<1> SUFFICES ASSUME Steady, ProcessCloses PROVE StaysSteady
  OBVIOUS
<1>0. /\ tasks # <<>> /\ Task1.state = "WAIT_START" /\ Task1.retryCt < RetryMax
      /\ cntx' = cntx /\ Within /\ SockInv /\ queue \in Seq(Message)
      /\ sock' = Zeroed /\ lookups' = Older(lookups) /\ queue' = Outdate(queue)
      /\ tasks' = WithHead([Started EXCEPT !.state = "READY_SOCKET"])
      /\ WaitToRetry
      /\ (HasSocket /\ sock.dns = "FAILED" /\ Calm) \/ (~HasSocket /\ Upset("option"))
  BY Listed, LinkFacts DEF ProcessCloses
<1>1. upsets' = 1 /\ NoRead(queue)
  <2>1. CASE HasSocket /\ sock.dns = "FAILED" /\ Calm
    BY <1>0, <2>1, LinkFacts DEF SockInv, CleanInv, ReadInv
  <2>2. CASE ~HasSocket /\ Upset("option")
    BY <1>0, <2>2, LinkFacts, NoSocketMail
  <2> QED
    BY <1>0, <2>1, <2>2
<1>2. SockInv'
  BY <1>0, <1>1, ClearAffects
<1>3. Resting'
  BY <1>0, <1>1, MailOfOutdated, ZeroedTyped DEF Resting, NoRead
<1>4. pc' = "idle" /\ Armed'
  BY <1>0 DEF WaitToRetry, Armed
<1> DEFINE t == [Started EXCEPT !.state = "READY_SOCKET"]
<1>5. t \in threedo_tt_node /\ t.state = "READY_SOCKET" /\ tasks' = WithHead(t)
  BY <1>0, StartedNode
<1> HIDE DEF t
<1> QED
  BY <1>0, <1>2, <1>3, <1>4, <1>5, ReadyGoes

-------------------------------------------------------------------------------
(* _td_file_trans_write_socket, _td_file_trans_upload_continue and read_socket *)

(* A write to a connection that has its name: what blocks is owed. *)
LEMMA WriteOwes ==
  ASSUME Steady, NEW piece, threedo_socket_write(piece), UNCHANGED <<lookups, queue>>
  PROVE  /\ SockInv' /\ sock'.dns = sock.dns
         /\ sock.dns = "IGNORE" /\ sock'.error = "block" => Owed' /\ Blocked'
         /\ sock.dns # "IGNORE" => sock' = sock /\ Calm /\ sock.error \in {"zero", "block"}
         /\ sock.dns # "IGNORE" => Owed' \/ Resting'
<1>0. Within /\ SockInv /\ sock \in SocketState
  BY Listed, LinkFacts
<1>1. /\ SockInv' /\ sock'.dns = sock.dns
      /\ sock.dns # "IGNORE" => sock' = sock
      /\ sock.dns = "IGNORE" /\ sock'.error = "block" =>
           upsets' = 1 /\ sock'.link = "up" /\ sock'.full
  BY <1>0, WriteAffects
<1>2. sock.dns = "IGNORE" /\ sock'.error = "block" => Owed' /\ Blocked'
  BY <1>1 DEF Owed, Coming, Blocked
<1>3. CASE sock.dns # "IGNORE"
  <2>1. sock' = sock /\ Calm /\ sock.error \in {"zero", "block"} /\ sock.link = "none"
    BY <1>0, <1>1, <1>3 DEF threedo_socket_write, SockInv, NameInv
  <2>2. NoRead(queue) \/ Awaited(queue) \/ (upsets = 1 /\ TRUE \in lookups)
    BY <1>0, <1>3 DEF SockInv, ReadInv, SocketState
  <2>3. upsets' = upsets
    BY <2>1 DEF Calm
  <2>4. Owed' \/ Resting'
    BY <2>1, <2>2, <2>3 DEF Owed, Coming, Resting
  <2> QED
    BY <1>1, <1>3, <2>1, <2>4
<1> QED
  BY <1>1, <1>2, <1>3

LEMMA NoHeadGoes == Steady /\ NoHead => StaysSteady
<1> SUFFICES ASSUME Steady, NoHead PROVE StaysSteady
  OBVIOUS
<1>1. pc \in {"write", "read"} /\ pc' = "fault"
  BY Listed DEF NoHead, BeatInv
<1>2. /\ tasks = <<>> /\ tasks' = <<>> /\ cntx' = cntx /\ UNCHANGED <<sock, lookups, queue>> /\ Calm
  BY DEF NoHead
<1>3. SockInv'
  BY <1>2, SameRests
<1>4. Len(tasks') \in Nat /\ Untried(tasks')
  BY <1>2 DEF Untried
<1>5. LateInv' /\ GoingInv' /\ BeatInv'
  BY <1>1, <1>2, <1>4, NextStarts
<1> QED
  BY <1>3, <1>5 DEF StaysSteady

LEMMA WriteHeadGoes == Steady /\ WriteHead => StaysSteady
<1> SUFFICES ASSUME Steady, WriteHead PROVE StaysSteady
  OBVIOUS
<1>0. /\ tasks # <<>> /\ Task1 \in threedo_tt_node /\ Task1.state = "READY_SOCKET" /\ cntx' = cntx
      /\ threedo_socket_write("HEAD") /\ UNCHANGED <<lookups, queue>>
  BY Listed DEF WriteHead
<1>1. /\ SockInv' /\ sock'.dns = sock.dns
      /\ sock.dns = "IGNORE" /\ sock'.error = "block" => Owed' /\ Blocked'
      /\ sock.dns # "IGNORE" => sock' = sock /\ sock.error \in {"zero", "block"}
      /\ sock.dns # "IGNORE" => Owed' \/ Resting'
  BY <1>0, WriteOwes
<1>2. CASE sock'.error = "more"
  <2> DEFINE t == [Task1 EXCEPT !.state = "UPLOAD_CONTI"]
  <2>1. tasks' = WithHead(t) /\ pc' = "upload" /\ sock'.dns = "IGNORE"
    BY <1>1, <1>2 DEF WriteHead
  <2>2. t \in threedo_tt_node
    BY <1>0 DEF threedo_tt_node, States
  <2> HIDE DEF t
  <2>3. LateInv' /\ GoingInv' /\ BeatInv'
    BY <1>0, <2>1, <2>2, HeadIsWith, HeadWorks
  <2> QED
    BY <1>1, <2>3 DEF StaysSteady
<1>3. CASE sock'.error # "more"
  <2>1. HeadIs(Task1)
    <3>1. tasks' = tasks
      BY <1>3 DEF WriteHead
    <3> QED
      BY <1>0, <3>1, HeadIsSame
  <2>2. CASE sock'.error = "block"
    <3>1. pc' = "idle" /\ Armed' /\ (Owed' \/ Resting')
      BY <1>1, <2>2 DEF WriteHead, WaitToRetry, Armed
    <3>2. LateInv' /\ GoingInv' /\ BeatInv'
      BY <1>0, <2>1, <3>1, HeadRests DEF Uploads, Late
    <3> QED
      BY <1>1, <3>2 DEF StaysSteady
  <2>3. CASE sock'.error # "block"
    <3>1. pc' = "check"
      BY <1>3, <2>3 DEF WriteHead
    <3>2. LateInv' /\ GoingInv' /\ BeatInv'
      BY <1>0, <2>1, <3>1, HeadWorks DEF Late
    <3> QED
      BY <1>1, <3>2 DEF StaysSteady
  <2> QED
    BY <2>2, <2>3
<1> QED
  BY <1>2, <1>3

(* A node whose tail is sent, or blocks. *)
LEMMA TailNode ==
  ASSUME Steady, tasks # <<>>, NEW s \in {"FD_TRANS_EOF", "UPLOAD_TAIL"},
         tasks' = WithHead([Task1 EXCEPT !.state = s]), pc' = "idle", Armed', cntx' = cntx,
         s = "UPLOAD_TAIL" => Blocked', sock'.dns = "IGNORE"
  PROVE  LateInv' /\ GoingInv' /\ BeatInv'
<1> DEFINE t == [Task1 EXCEPT !.state = s]
<1>1. Task1 \in threedo_tt_node
  BY Listed
<1>2. t \in threedo_tt_node /\ t.state = s /\ tasks' = WithHead(t)
  BY <1>1 DEF threedo_tt_node, States
<1> HIDE DEF t
<1> QED
  BY <1>2, HeadIsWith, HeadRests DEF Uploads

LEMMA WriteTailGoes == Steady /\ WriteTail => StaysSteady
<1> SUFFICES ASSUME Steady, WriteTail PROVE StaysSteady
  OBVIOUS
<1>0. /\ tasks # <<>> /\ Task1 \in threedo_tt_node /\ Task1.state = "UPLOAD_TAIL" /\ cntx' = cntx
      /\ threedo_socket_write("TAIL") /\ UNCHANGED <<lookups, queue>>
      /\ sock.dns = "IGNORE" /\ Task1.retryCt < RetryMax
  BY Listed DEF WriteTail, LateInv, Late, TransferInv, Progress
<1>1. /\ SockInv' /\ sock'.dns = "IGNORE"
      /\ sock'.error = "block" => Blocked'
  BY <1>0, WriteOwes
<1>2. CASE sock'.error = "more"
  <2>1. /\ tasks' = WithHead([Task1 EXCEPT !.state = "FD_TRANS_EOF"]) /\ pc' = "idle" /\ Armed'
    BY <1>2 DEF WriteTail, WaitToRetry, Armed
  <2>2. LateInv' /\ GoingInv' /\ BeatInv'
    BY <1>0, <1>1, <2>1, TailNode
  <2> QED
    BY <1>1, <2>2 DEF StaysSteady
<1>3. CASE sock'.error = "block"
  <2>1. tasks' = tasks /\ pc' = "idle" /\ Armed' /\ HeadIs(Task1)
    <3>1. tasks' = tasks
      BY <1>3 DEF WriteTail
    <3> QED
      BY <1>0, <1>3, <3>1, HeadIsSame DEF WriteTail, WaitToRetry, Armed
  <2>2. LateInv' /\ GoingInv' /\ BeatInv'
    BY <1>0, <1>1, <1>3, <2>1, HeadRests DEF Uploads
  <2> QED
    BY <1>1, <2>2 DEF StaysSteady
<1>4. CASE sock'.error \notin {"more", "block"}
  <2> DEFINE t == [Task1 EXCEPT !.retryCt = @ + 1]
  <2>1. tasks' = WithHead(t) /\ pc' = "check"
    BY <1>4 DEF WriteTail
  <2>2. Task1.retryCt + 1 \in 0 .. RetryMax
    BY <1>0, Bounds DEF threedo_tt_node
  <2>3. t \in threedo_tt_node
    BY <1>0, <2>2 DEF threedo_tt_node
  <2> HIDE DEF t
  <2>4. LateInv' /\ GoingInv' /\ BeatInv'
    BY <1>0, <1>1, <2>1, <2>3, HeadIsWith, HeadWorks
  <2> QED
    BY <1>1, <2>4 DEF StaysSteady
<1> QED
  BY <1>2, <1>3, <1>4

LEMMA WriteOtherGoes == Steady /\ WriteOther => StaysSteady
<1> SUFFICES ASSUME Steady, WriteOther PROVE StaysSteady
  OBVIOUS
<1>1. /\ tasks # <<>> /\ cntx' = cntx /\ tasks' = tasks /\ pc = "write"
      /\ UNCHANGED <<sock, lookups, queue>> /\ Calm
      /\ Task1 \in threedo_tt_node /\ Task1.state \notin {"READY_SOCKET", "UPLOAD_TAIL"}
  BY Listed DEF WriteOther
<1>2. Task1.state \in {"UPLOAD_CONTI", "FD_TRANS_EOF"}
  <2>1. Task1.state \notin {"WAIT_START", "TRANS_FINISH"}
    BY <1>1, Listed DEF GoingInv
  <2> QED
    BY <1>1, <2>1 DEF threedo_tt_node, States
<1>3. pc' \in {"upload", "check"} /\ sock'.dns = "IGNORE"
  BY <1>1, <1>2, Listed DEF WriteOther, LateInv, Late
<1>4. SockInv' /\ HeadIs(Task1)
  BY <1>1, SameRests, HeadIsSame
<1>5. LateInv' /\ GoingInv' /\ BeatInv'
  BY <1>1, <1>3, <1>4, HeadWorks
<1> QED
  BY <1>4, <1>5 DEF StaysSteady

LEMMA NoFileGoes == Steady /\ UploadNoFile => StaysSteady
<1> SUFFICES ASSUME Steady, UploadNoFile PROVE StaysSteady
  OBVIOUS
<1>1. /\ tasks # <<>> /\ cntx' = cntx /\ pc' = "check" /\ sock'.dns = "IGNORE"
      /\ UNCHANGED <<sock, lookups, queue>> /\ Upset("file") /\ TransferInv
  BY Listed DEF UploadNoFile, TransferInv, Progress, LateInv
<1>2. PICK t : /\ t = Sending \/ t = [Sending EXCEPT !.open = FALSE]
               /\ tasks' = WithHead(t)
  BY DEF UploadNoFile
<1>3. t \in threedo_tt_node
  BY <1>1, <1>2, SendingForm DEF threedo_tt_node
<1>4. SockInv'
  BY <1>1, SameRests
<1>5. LateInv' /\ GoingInv' /\ BeatInv'
  BY <1>1, <1>2, <1>3, HeadIsWith, HeadWorks
<1> QED
  BY <1>4, <1>5 DEF StaysSteady

LEMMA PieceGoes == Steady /\ UploadPiece => StaysSteady
<1> SUFFICES ASSUME Steady, UploadPiece PROVE StaysSteady
  OBVIOUS
<1>0. /\ tasks # <<>> /\ cntx' = cntx /\ sock.dns = "IGNORE" /\ TransferInv /\ pc = "upload"
      /\ threedo_socket_write("DATA") /\ UNCHANGED <<lookups, queue>>
  BY Listed DEF UploadPiece, TransferInv, Progress, LateInv
<1>1. /\ SockInv' /\ sock'.dns = "IGNORE"
      /\ sock'.error = "block" => Blocked'
  BY <1>0, WriteOwes
<1>2. /\ Sending \in threedo_tt_node /\ Sending.got < Chunks /\ Sending.state = "UPLOAD_CONTI"
      /\ Chunks \in Nat \ {0} /\ RetryMax \in Nat
  BY <1>0, SendingForm, Bounds
<1>3. PICK t :
        /\ \/ t = Sending
           \/ t = [Sending EXCEPT !.got = @ + 1] /\ Sending.got + 1 # Chunks
           \/ t = [Sending EXCEPT !.got = Chunks, !.retryCt = 0, !.open = FALSE]
        /\ tasks' = WithHead(t)
        /\ \/ pc' \in {"upload", "upload_tail", "check"}
           \/ pc' = "idle" /\ t = Sending /\ sock'.error = "block"
  <2>1. CASE sock'.error = "more"
    BY <1>0, <2>1 DEF UploadPiece
  <2>2. CASE sock'.error # "more"
    BY <2>2 DEF UploadPiece, WaitToRetry
  <2> QED
    BY <2>1, <2>2
<1>4. t \in threedo_tt_node /\ (t = Sending => t.state = "UPLOAD_CONTI")
  <2>1. Sending.got + 1 # Chunks => Sending.got + 1 \in 0 .. Chunks
    BY <1>2 DEF threedo_tt_node
  <2>2. Chunks \in 0 .. Chunks /\ 0 \in 0 .. RetryMax
    BY <1>2
  <2> QED
    BY <1>2, <1>3, <2>1, <2>2 DEF threedo_tt_node
<1>5. CASE pc' \in {"upload", "upload_tail", "check"}
  <2>1. LateInv' /\ GoingInv' /\ BeatInv'
    BY <1>0, <1>1, <1>3, <1>4, <1>5, HeadIsWith, HeadWorks
  <2> QED
    BY <1>1, <2>1 DEF StaysSteady
<1>6. CASE pc' = "idle" /\ t = Sending /\ sock'.error = "block"
  <2>1. LateInv' /\ GoingInv' /\ BeatInv'
    BY <1>0, <1>1, <1>3, <1>4, <1>6, HeadIsWith, HeadRests
  <2> QED
    BY <1>1, <2>1 DEF StaysSteady
<1> QED
  BY <1>3, <1>5, <1>6

LEMMA TailGoes == Steady /\ UploadTail => StaysSteady
<1> SUFFICES ASSUME Steady, UploadTail PROVE StaysSteady
  OBVIOUS
<1>0. /\ tasks # <<>> /\ cntx' = cntx /\ sock.dns = "IGNORE"
      /\ threedo_socket_write("TAIL") /\ UNCHANGED <<lookups, queue>>
  BY Listed DEF UploadTail, TransferInv, Progress, LateInv
<1>1. /\ SockInv' /\ sock'.dns = "IGNORE"
      /\ sock'.error = "block" => Blocked'
  BY <1>0, WriteOwes
<1>2. CASE sock'.error \in {"more", "block"}
  <2>1. PICK s \in {"FD_TRANS_EOF", "UPLOAD_TAIL"} :
          /\ tasks' = WithHead([Task1 EXCEPT !.state = s])
          /\ s = "UPLOAD_TAIL" => sock'.error = "block"
    BY <1>2 DEF UploadTail
  <2>2. pc' = "idle" /\ Armed'
    BY <1>2 DEF UploadTail, WaitToRetry, Armed
  <2>3. LateInv' /\ GoingInv' /\ BeatInv'
    BY <1>0, <1>1, <2>1, <2>2, TailNode
  <2> QED
    BY <1>1, <2>3 DEF StaysSteady
<1>3. CASE sock'.error \notin {"more", "block"}
  <2>1. tasks' = tasks /\ pc' = "check"
    BY <1>3 DEF UploadTail
  <2>2. LateInv' /\ GoingInv' /\ BeatInv'
    BY <1>0, <1>1, <2>1, HeadIsSame, HeadWorks
  <2> QED
    BY <1>1, <2>2 DEF StaysSteady
<1> QED
  BY <1>2, <1>3

LEMMA ReadGoes == Steady /\ ReadAnswer => StaysSteady
<1> SUFFICES ASSUME Steady, ReadAnswer PROVE StaysSteady
  OBVIOUS
<1>0. /\ tasks # <<>> /\ cntx' = cntx /\ pc = "read" /\ Task1 \in threedo_tt_node
      /\ UNCHANGED <<lookups, queue, timers>> /\ Calm /\ Within
  BY Listed DEF ReadAnswer
<1>1. CASE Task1.state = "FD_TRANS_EOF"
  <2>1. PICK r \in threedo_socket_read : sock' = r.s
    BY <1>1 DEF ReadAnswer
  <2>2. Like(sock')
    BY <1>0, <2>1, ReadAffects
  <2>3. SockInv' /\ sock'.dns = "IGNORE"
    BY <1>0, <1>1, <2>2, LikeSock, Listed DEF Like, LateInv, Late
  <2> DEFINE t == [Task1 EXCEPT !.state = "TRANS_FINISH"]
  <2>4. t \in threedo_tt_node /\ tasks' = WithHead(t) /\ pc' = "check"
    BY <1>0, <1>1 DEF threedo_tt_node, States, ReadAnswer
  <2> HIDE DEF t
  <2>5. LateInv' /\ GoingInv' /\ BeatInv'
    BY <1>0, <2>3, <2>4, HeadIsWith, HeadWorks
  <2> QED
    BY <2>3, <2>5 DEF StaysSteady
<1>2. CASE Task1.state # "FD_TRANS_EOF"
  <2>1. sock' = sock /\ tasks' = tasks /\ pc' = "idle" /\ UNCHANGED <<sock, lookups, queue>>
    BY <1>0, <1>2 DEF ReadAnswer
  <2>2. SockInv' /\ (Blocked => Blocked') /\ (Owed => Owed') /\ HeadIs(Task1)
    BY <1>0, <2>1, SameRests, HeadIsSame
  <2>3. /\ Task1.state \in Uploads => Blocked'
        /\ Task1.state = "READY_SOCKET" => Owed'
        /\ Task1.state \notin {"WAIT_START", "TRANS_FINISH"}
        /\ Task1.state \in Late => sock'.dns = "IGNORE"
    BY <1>0, <2>1, <2>2, Listed DEF GoingInv, LateInv
  <2>4. LateInv' /\ GoingInv' /\ BeatInv'
    BY <1>0, <1>2, <2>1, <2>2, <2>3, HeadRests
  <2> QED
    BY <2>2, <2>4 DEF StaysSteady
<1> QED
  BY <1>1, <1>2

-------------------------------------------------------------------------------
(* _td_file_trans_check_and_clear_task *)

LEMMA GoOnGoes ==
  ASSUME Steady, Calm, cntx' = cntx, NEW ts \in Seq(threedo_tt_node), Len(ts) \in Nat, Untried(ts),
         ts # <<>> => cntx /\ 1 \in 1 .. Len(ts), NEW s, Like(s), GoOn(ts, s)
  PROVE  StaysSteady
<1>1. SockInv'
  BY GoOnAffects, Listed
<1>2. tasks' = ts
  <2>1. ts # <<>> => Unstarted(ts[1])
    BY DEF Untried
  <2>2. s \in SocketState /\ s.id = sock.id /\ s.link = sock.link
    BY DEF Like
  <2> QED
    BY <2>1, <2>2, Listed, GoOnForm
<1>3. \/ pc' = "process" /\ ts # <<>>
      \/ pc' = "idle" /\ ts = <<>> /\ timers' = {"HEART"}
      \/ pc' = "fault" /\ ts = <<>>
  BY DEF GoOn
<1>4. timers' = {"HEART"} => Beats'
  BY DEF Beats
<1>5. LateInv' /\ GoingInv' /\ BeatInv'
  BY <1>2, <1>3, <1>4, NextStarts
<1> QED
  BY <1>1, <1>5 DEF StaysSteady

LEMMA CheckNoTaskGoes == Steady /\ CheckNoTask => StaysSteady
<1> SUFFICES ASSUME Steady, CheckNoTask PROVE StaysSteady
  OBVIOUS
<1>1. tasks = <<>> /\ cntx' = cntx /\ Calm /\ GoOn(<<>>, sock) /\ Within
  BY Listed DEF CheckNoTask
<1>2. tasks \in Seq(threedo_tt_node) /\ Len(tasks) \in Nat /\ Untried(tasks) /\ GoOn(tasks, sock)
  BY <1>1, Listed DEF Untried
<1> QED
  BY <1>1, <1>2, LikeItself, GoOnGoes

(* The head is removed. *)
LEMMA TailGoesOn ==
  ASSUME Steady, tasks # <<>>, Calm, cntx' = cntx, NEW s, Like(s), GoOn(Tail(tasks), s)
  PROVE  StaysSteady
BY Listed, TailUntried, GoOnGoes

LEMMA CheckFinishedGoes == Steady /\ CheckFinished => StaysSteady
BY Listed, LikeItself, TailGoesOn DEF CheckFinished

LEMMA CheckSentGoes == Steady /\ CheckSent => StaysSteady
<1> SUFFICES ASSUME Steady, CheckSent PROVE StaysSteady
  OBVIOUS
<1>0. /\ tasks # <<>> /\ cntx /\ cntx' = cntx /\ Calm /\ Within /\ sock.dns = "IGNORE"
      /\ Task1 \in threedo_tt_node /\ Task1.state = "FD_TRANS_EOF" /\ queue \in Seq(Message)
      /\ upsets' = upsets
  BY Listed, LinkFacts DEF CheckSent, LateInv, Late, Calm
<1>1. CASE ~HasSocket
  BY <1>0, <1>1, LikeItself, TailGoesOn DEF CheckSent
<1>2. CASE HasSocket
  <2>1. PICK r \in threedo_socket_read :
          \/ GoOn(Tail(tasks), r.s)
          \/ /\ Task1.retryCt < RetryMax
             /\ tasks' = WithHead([Task1 EXCEPT !.retryCt = @ + 1, !.open = FALSE])
             /\ sock' = r.s
             /\ pc' = "idle" /\ timers' = {"BLOCK"}
             /\ UNCHANGED <<lookups, queue>>
          \/ /\ r.s.error \in {"zero", "bad"}
             /\ threedo_socket_close(r.s, queue)
             /\ tasks' = Tail(tasks)
             /\ pc' = IF Len(tasks) > 1 THEN "process" ELSE "idle"
             /\ timers' = IF Len(tasks) > 1 THEN {} ELSE {"HEART"}
    <3>1. PICK r \in threedo_socket_read :
       \/ /\ r.s.error = "more"
          /\ IF r.ok THEN Finish ELSE UNCHANGED finished
          /\ GoOn(Tail(tasks), r.s)
       \/ /\ r.s.error = "block" /\ Task1.retryCt >= RetryMax
          /\ GoOn(Tail(tasks), r.s)
          /\ UNCHANGED finished
       \/ /\ r.s.error = "block" /\ Task1.retryCt < RetryMax
          /\ tasks' = WithHead([Task1 EXCEPT !.retryCt = @ + 1, !.open = FALSE])
          /\ sock' = r.s
          /\ pc' = "idle" /\ timers' = {"BLOCK"}
          /\ UNCHANGED <<lookups, queue, finished>>
       \/ /\ r.s.error \in {"zero", "bad"}
          /\ threedo_socket_close(r.s, queue)
          /\ tasks' = Tail(tasks)
          /\ pc' = IF Len(tasks) > 1 THEN "process" ELSE "idle"
          /\ timers' = IF Len(tasks) > 1 THEN {} ELSE {"HEART"}
          /\ UNCHANGED finished
      BY <1>2 DEF CheckSent
    <3> QED
      BY <3>1
  <2>2. Like(r.s)
    BY <1>0, <2>1, ReadAffects
  <2>3. CASE GoOn(Tail(tasks), r.s)
    BY <1>0, <2>2, <2>3, TailGoesOn
  <2>4. CASE /\ Task1.retryCt < RetryMax
             /\ tasks' = WithHead([Task1 EXCEPT !.retryCt = @ + 1, !.open = FALSE])
             /\ sock' = r.s
             /\ pc' = "idle" /\ timers' = {"BLOCK"}
             /\ UNCHANGED <<lookups, queue>>
    <3> DEFINE t == [Task1 EXCEPT !.retryCt = @ + 1, !.open = FALSE]
    <3>1. Task1.retryCt + 1 \in 0 .. RetryMax
      BY <1>0, <2>4, Bounds DEF threedo_tt_node
    <3>2. t \in threedo_tt_node /\ t.state = "FD_TRANS_EOF" /\ tasks' = WithHead(t)
      BY <1>0, <2>4, <3>1 DEF threedo_tt_node
    <3> HIDE DEF t
    <3>3. Like(sock') /\ sock'.dns = "IGNORE" /\ Armed'
      BY <1>0, <2>2, <2>4 DEF Like, Armed
    <3>4. SockInv'
      BY <1>0, <2>4, <3>3, LikeSock
    <3>5. LateInv' /\ GoingInv' /\ BeatInv'
      BY <1>0, <2>4, <3>2, <3>3, HeadIsWith, HeadRests DEF Uploads
    <3> QED
      BY <3>4, <3>5 DEF StaysSteady
  <2>5. CASE /\ r.s.error \in {"zero", "bad"}
             /\ threedo_socket_close(r.s, queue)
             /\ tasks' = Tail(tasks)
             /\ pc' = IF Len(tasks) > 1 THEN "process" ELSE "idle"
             /\ timers' = IF Len(tasks) > 1 THEN {} ELSE {"HEART"}
    <3>1. sock.link # "up" \/ sock.error = "bad"
      <4>1. r.s.error = "zero" => sock.link # "up"
        <5>1. CASE sock.inbox # <<>>
          <6>1. PICK k \in 1 .. Len(sock.inbox) :
                  r = [s |-> [sock EXCEPT !.error = "more", !.inbox = SubSeq(@, k + 1, Len(@))],
                       ok |-> Head(sock.inbox) = "OK"]
            BY <1>0, <2>1, <5>1, Zenon DEF threedo_socket_read
          <6>2. r.s = [sock EXCEPT !.error = "more", !.inbox = SubSeq(@, k + 1, Len(@))]
            BY <6>1, Zenon
          <6>3. r.s.error = "more"
            BY <6>2, LinkFacts, <1>0 DEF SocketState
          <6> QED
            BY <6>3
        <5>2. CASE sock.inbox = <<>>
          <6>1. sock.link = "up" => r = [s |-> [sock EXCEPT !.error = "block"], ok |-> FALSE]
            BY <1>0, <2>1, <5>2, Zenon DEF threedo_socket_read
          <6> QED
            BY <1>0, <6>1, LinkFacts DEF SocketState
        <5> QED
          BY <5>1, <5>2
      <4> QED
        BY <2>2, <2>5, <4>1 DEF Like
    <3>2. upsets' = 1 \/ (upsets = 0 /\ lookups = {} /\ ~Awaited(queue) /\ NoRead(queue))
      BY <1>0, <3>1, GivenUp DEF Within
    <3>3. r.s.id # NoSocket
      BY <1>2, <2>2 DEF Like, HasSocket
    <3>4. SockInv'
      BY <1>0, <2>5, <3>2, <3>3, CloseAffects
    <3>5. timers' = {"HEART"} => Beats'
      BY DEF Beats
    <3>6. /\ Len(tasks') \in Nat /\ Untried(tasks') /\ (tasks' # <<>> => 1 \in 1 .. Len(tasks'))
          /\ \/ pc' = "process" /\ tasks' # <<>>
             \/ pc' = "idle" /\ tasks' = <<>> /\ timers' = {"HEART"}
      BY <1>0, <2>5, TailUntried
    <3>7. LateInv' /\ GoingInv' /\ BeatInv'
      BY <1>0, <3>5, <3>6, NextStarts
    <3> QED
      BY <3>4, <3>7 DEF StaysSteady
  <2> QED
    BY <2>1, <2>3, <2>4, <2>5
<1> QED
  BY <1>1, <1>2

LEMMA CheckAgainGoes == Steady /\ CheckAgain => StaysSteady
<1> SUFFICES ASSUME Steady, CheckAgain PROVE StaysSteady
  OBVIOUS
<1> DEFINE again == [Task1 EXCEPT !.state = "WAIT_START", !.got = 0, !.open = FALSE]
<1>0. /\ tasks # <<>> /\ cntx /\ cntx' = cntx /\ Calm /\ Within /\ Task1 \in threedo_tt_node
      /\ GoOn(IF Task1.retryCt >= RetryMax \/ ~IsUpload(Task1)
                THEN Tail(tasks) ELSE Append(Tail(tasks), again), sock)
  BY Listed DEF CheckAgain
<1>1. CASE Task1.retryCt >= RetryMax \/ ~IsUpload(Task1)
  BY <1>0, <1>1, LikeItself, TailGoesOn
<1>2. CASE ~(Task1.retryCt >= RetryMax \/ ~IsUpload(Task1))
  <2>1. Task1.retryCt < RetryMax /\ 0 \in 0 .. Chunks
    BY <1>0, <1>2, Bounds DEF threedo_tt_node
  <2>2. again \in threedo_tt_node /\ Unstarted(again) /\ again.retryCt < RetryMax
    BY <1>0, <2>1 DEF threedo_tt_node, Unstarted, States
  <2>3. GoOn(Append(Tail(tasks), again), sock)
    BY <1>0, <1>2
  <2> HIDE DEF again
  <2>4. /\ Append(Tail(tasks), again) \in Seq(threedo_tt_node)
        /\ Len(Append(Tail(tasks), again)) \in Nat /\ 1 \in 1 .. Len(Append(Tail(tasks), again))
        /\ Untried(Append(Tail(tasks), again))
    BY <1>0, <2>2, TailUntried
  <2> QED
    BY <1>0, <2>3, <2>4, LikeItself, GoOnGoes
<1> QED
  BY <1>1, <1>2

-------------------------------------------------------------------------------
(* ThreedoTask: the messages *)

(* No task is left. *)
LEMMA NoneLeft ==
  ASSUME tasks' = <<>>, pc' \in {"idle", "fault", "check", "read", "write"},
         pc' = "idle" /\ cntx' /\ ~retry' => Beats'
  PROVE  LateInv' /\ GoingInv' /\ BeatInv'
<1>1. Len(tasks') = 0
  BY EmptySeq
<1>2. \A i \in 2 .. Len(tasks') : FALSE
  BY <1>1
<1> QED
  BY <1>2 DEF LateInv, GoingInv, BeatInv

(* The first task is about to be started. *)
LEMMA FirstStarts ==
  ASSUME tasks' # <<>>, cntx', pc' = "process", Untried(tasks'), 1 \in 1 .. Len(tasks')
  PROVE  LateInv' /\ GoingInv' /\ BeatInv'
<1>1. Task1'.state = "WAIT_START" /\ Task1'.retryCt < RetryMax
  BY DEF Untried, Unstarted, Task1
<1>2. \A n : n < RetryMax => n # RetryMax
  BY Bounds
<1>3. \A i \in 2 .. Len(tasks') : i \in 1 .. Len(tasks')
  OBVIOUS
<1>4. LateInv' /\ GoingInv'
  BY <1>1 DEF LateInv, Late, GoingInv, Uploads
<1>5. BeatInv'
  BY <1>1, <1>2, <1>3 DEF BeatInv, Untried
<1> QED
  BY <1>4, <1>5

(* A task is under way while a message asks for the next. *)
LEMMA HeadGoesOn ==
  ASSUME Steady, tasks # <<>>, pc = "idle", pc' = "process", cntx', tasks' # <<>>, tasks'[1] = Task1,
         \A i \in 2 .. Len(tasks') : tasks'[i].retryCt < RetryMax,
         sock'.dns = sock.dns, Armed => Armed', Blocked => Blocked', Owed => Owed', Resting => Resting'
  PROVE  LateInv' /\ GoingInv' /\ BeatInv'
<1>1. Task1' = Task1 /\ GoingInv /\ LateInv
  BY Listed DEF Task1
<1>2. LateInv'
  BY <1>1 DEF LateInv
<1>3. GoingInv'
  BY <1>1 DEF GoingInv
<1>4. BeatInv'
  BY <1>1 DEF BeatInv, GoingInv
<1> QED
  BY <1>2, <1>3, <1>4

(* A message that names neither the socket nor its lookup. *)
Foreign(m) == ~Named(m) /\ ~(m.type \in {"CONNECT", "WRITE"} /\ m.id = sock.id)

LEMMA TakeLeaves ==
  ASSUME Steady, queue # <<>>, queue' = Rest, UNCHANGED <<sock, lookups>>, Calm,
         Foreign(Head(queue))
  PROVE  /\ SockInv'
         /\ Owed => Owed'
         /\ Blocked => Blocked'
         /\ Resting => Resting'
         /\ Head(queue).type # "BLOCK" /\ timers' = timers => (Armed => Armed')
         /\ Head(queue).type \notin {"BLOCK", "HEART"} /\ timers' = timers => (Beats => Beats')
<1>0. Within /\ queue \in Seq(Message) /\ ~Named(Head(queue)) /\ upsets' = upsets
  BY Listed, LinkFacts DEF Foreign
<1>1. SockInv'
  BY <1>0, SockTakes
<1>2. /\ \A m \in Mail(queue') : m \in Mail(queue)
      /\ \A m \in Mail(queue) : m = Head(queue) \/ m \in Mail(queue')
  BY <1>0, MailOfRest
<1>3. (Awaited(queue) => Awaited(queue')) /\ (NoRead(queue) => NoRead(queue'))
  BY <1>0, <1>2 DEF Awaited, NoRead
<1>4. Told => Told'
  BY <1>2 DEF Told, Foreign
<1>5. Blocked => Blocked'
  BY <1>2 DEF Blocked, Foreign
<1>6. (Owed => Owed') /\ (Resting => Resting')
  BY <1>0, <1>3, <1>4 DEF Owed, Coming, Resting
<1>7. Head(queue).type # "BLOCK" /\ timers' = timers => (Armed => Armed')
  BY <1>2 DEF Armed
<1>8. Head(queue).type \notin {"BLOCK", "HEART"} /\ timers' = timers => (Beats => Beats')
  BY <1>2 DEF Beats
<1> QED
  BY <1>1, <1>5, <1>6, <1>7, <1>8

LEMMA ReqGoes == Steady /\ FileTransReq => StaysSteady
<1> SUFFICES ASSUME Steady, FileTransReq PROVE StaysSteady
  OBVIOUS
<1>0. /\ queue # <<>> /\ Head(queue).type = "REQ" /\ queue' = Rest /\ UNCHANGED <<sock, lookups, timers>>
      /\ Calm /\ pc = "idle" /\ pc' = "process" /\ cntx' /\ queue \in Seq(Message)
      /\ tasks \in Seq(threedo_tt_node) /\ Len(tasks) \in Nat /\ ListOK /\ BeatInv
  BY Listed, LinkFacts DEF FileTransReq, Take
<1>1. Foreign(Head(queue))
  BY <1>0 DEF Foreign, Named
<1>2. /\ SockInv'
      /\ Owed => Owed'
      /\ Blocked => Blocked'
      /\ Resting => Resting'
      /\ Armed => Armed'
  BY <1>0, <1>1, TakeLeaves
<1>3. Head(queue).file \in Files
  <2>1. Head(queue) \in Message
    BY <1>0, RestKeeps
  <2> QED
    BY <1>0, <2>1 DEF Message
<1> DEFINE n == NewNode(Head(queue).file)
<1>4. n \in threedo_tt_node /\ Unstarted(n) /\ n.retryCt < RetryMax
  BY <1>3, NewNodeForm, Bounds DEF NewNode
<1>5. tasks' = IF Len(tasks) < TaskMax THEN Append(tasks, n) ELSE tasks
  BY DEF FileTransReq
<1> HIDE DEF n
<1>6. tasks' = tasks \/ /\ Len(tasks') = Len(tasks) + 1 /\ tasks'[Len(tasks) + 1] = n
                        /\ \A i \in 1 .. Len(tasks) : tasks'[i] = tasks[i]
  BY <1>0, <1>4, <1>5, AppendProperties
<1>7. CASE tasks = <<>>
  <2>1. Len(tasks) = 0 /\ 0 < TaskMax
    BY <1>7, EmptySeq, TaskMaxAssumption
  <2>2. Len(tasks') = 1 /\ tasks'[1] = n
    BY <1>0, <1>4, <1>5, <2>1, AppendProperties
  <2>3. tasks' # <<>> /\ 1 \in 1 .. Len(tasks')
    BY <2>2, EmptySeq
  <2>4. \A i \in 1 .. Len(tasks') : i = 1
    BY <2>2
  <2>5. Untried(tasks')
    BY <1>4, <2>2, <2>4 DEF Untried
  <2>6. LateInv' /\ GoingInv' /\ BeatInv'
    BY <1>0, <2>3, <2>5, FirstStarts
  <2> QED
    BY <1>2, <2>6 DEF StaysSteady
<1>8. CASE tasks # <<>>
  <2>1. 1 \in 1 .. Len(tasks)
    BY <1>8, Listed
  <2>2. tasks'[1] = Task1
    BY <1>6, <2>1 DEF Task1
  <2>3. tasks' # <<>>
    <3>1. Len(tasks) # 0 /\ Len(tasks) + 1 # 0
      BY <1>0, <2>1
    <3>2. Len(tasks') # 0
      BY <1>6, <3>1
    <3> QED
      BY <3>2, EmptySeq
  <2>4. \A i \in 2 .. Len(tasks') : tasks'[i].retryCt < RetryMax
    <3>1. CASE tasks' = tasks
      BY <1>0, <3>1 DEF BeatInv
    <3>2. CASE /\ Len(tasks') = Len(tasks) + 1 /\ tasks'[Len(tasks) + 1] = n
               /\ \A i \in 1 .. Len(tasks) : tasks'[i] = tasks[i]
      <4> SUFFICES ASSUME NEW i \in 2 .. Len(tasks') PROVE tasks'[i].retryCt < RetryMax
        OBVIOUS
      <4>1. CASE i = Len(tasks) + 1
        BY <1>4, <3>2, <4>1
      <4>2. CASE i # Len(tasks) + 1
        <5>1. i \in 2 .. Len(tasks) /\ i \in 1 .. Len(tasks)
          BY <1>0, <3>2, <4>2
        <5> QED
          BY <1>0, <3>2, <5>1 DEF BeatInv
      <4> QED
        BY <4>1, <4>2
    <3> QED
      BY <1>6, <3>1, <3>2
  <2>5. sock'.dns = sock.dns
    BY <1>0
  <2>6. LateInv' /\ GoingInv' /\ BeatInv'
    BY <1>0, <1>2, <1>8, <2>2, <2>3, <2>4, <2>5, HeadGoesOn
  <2> QED
    BY <1>2, <2>6 DEF StaysSteady
<1> QED
  BY <1>7, <1>8

LEMMA StopGoes == Steady /\ TaskStopReq => StaysSteady
<1> SUFFICES ASSUME Steady, TaskStopReq PROVE StaysSteady
  OBVIOUS
<1>0. /\ queue # <<>> /\ Head(queue).type = "STOP" /\ Calm /\ pc = "idle" /\ queue \in Seq(Message)
      /\ retry' = retry /\ Within /\ SockInv /\ BeatInv /\ upsets' = upsets /\ upsets \in {0, 1}
  BY Listed, LinkFacts DEF TaskStopReq, Take
<1>1. /\ Foreign(Head(queue)) /\ Rest \in Seq(Message) /\ Head(queue) \in Mail(queue)
      /\ \A m \in Mail(Rest) : m \in Mail(queue)
  BY <1>0, MailOfRest DEF Foreign, Named
<1>2. upsets' = 1
  BY <1>0, <1>1 DEF SockInv, CleanInv
<1>3. CASE ~cntx
  <2>1. queue' = Rest /\ UNCHANGED <<sock, lookups, tasks, timers, cntx, pc>> /\ tasks = <<>>
    BY <1>0, <1>3 DEF TaskStopReq, BeatInv
  <2>2. SockInv'
    BY <1>0, <1>1, <2>1, TakeLeaves
  <2>3. LateInv' /\ GoingInv' /\ BeatInv'
    BY <1>0, <1>3, <2>1, NoneLeft
  <2> QED
    BY <2>2, <2>3 DEF StaysSteady
<1>4. CASE cntx
  <2>1. threedo_socket_close(sock, Rest)
    BY <1>4 DEF TaskStopReq
  <2>2. SockInv' /\ sock'.dns \in {sock.dns, "IGNORE"}
    <3>1. CASE HasSocket
      <4>1. SockInv' /\ sock' = Zeroed
        BY <1>0, <1>1, <1>2, <2>1, <3>1, CloseAffects DEF HasSocket
      <4> QED
        BY <4>1, ZeroedTyped DEF Zeroed
    <3>2. CASE ~HasSocket
      <4>1. queue' = Rest /\ UNCHANGED <<sock, lookups>>
        BY <2>1, <3>2 DEF threedo_socket_close, HasSocket
      <4> QED
        BY <1>0, <1>1, <4>1, TakeLeaves
    <3> QED
      BY <3>1, <3>2
  <2>3. CASE tasks = <<>>
    <3>1. ~cntx' /\ tasks' = <<>> /\ pc' = "idle"
      BY <1>0, <1>4, <2>3 DEF TaskStopReq
    <3>2. LateInv' /\ GoingInv' /\ BeatInv'
      BY <3>1, NoneLeft
    <3> QED
      BY <2>2, <3>2 DEF StaysSteady
  <2>4. CASE tasks # <<>>
    <3> DEFINE t == [Task1 EXCEPT !.open = FALSE]
    <3>1. tasks' = WithHead(t) /\ pc' = "hung" /\ cntx' = cntx
      BY <1>4, <2>4 DEF TaskStopReq
    <3>2. t \in threedo_tt_node /\ t.state = Task1.state
      BY <2>4, Listed DEF threedo_tt_node
    <3> HIDE DEF t
    <3>3. t.state \in Late => sock'.dns = "IGNORE"
      BY <2>2, <2>4, <3>2, Listed DEF LateInv
    <3>4. LateInv' /\ GoingInv' /\ BeatInv'
      BY <2>4, <3>1, <3>2, <3>3, HeadIsWith, HeadWorks
    <3> QED
      BY <2>2, <3>4 DEF StaysSteady
  <2> QED
    BY <2>3, <2>4
<1> QED
  BY <1>3, <1>4

LEMMA BlockGoes == Steady /\ BlockTimeout => StaysSteady
<1> SUFFICES ASSUME Steady, BlockTimeout PROVE StaysSteady
  OBVIOUS
<1>0. /\ queue # <<>> /\ Head(queue).type = "BLOCK" /\ Calm /\ queue' = Rest
      /\ UNCHANGED <<sock, lookups, cntx, tasks, timers, retry>>
      /\ pc' = (IF cntx THEN "check" ELSE "idle") /\ cntx \in BOOLEAN
      /\ ~cntx => tasks = <<>>
  BY Listed, Typed DEF BlockTimeout, Take, BeatInv
<1>1. SockInv'
  BY <1>0, TakeLeaves DEF Foreign, Named
<1>2. CASE tasks = <<>>
  <2>1. LateInv' /\ GoingInv' /\ BeatInv'
    BY <1>0, <1>2, NoneLeft
  <2> QED
    BY <1>1, <2>1 DEF StaysSteady
<1>3. CASE tasks # <<>>
  <2>1. LateInv' /\ GoingInv' /\ BeatInv'
    BY <1>0, <1>3, Listed, HeadIsSame, HeadWorks DEF LateInv
  <2> QED
    BY <1>1, <2>1 DEF StaysSteady
<1> QED
  BY <1>2, <1>3

LEMMA HeartGoes == Steady /\ HeartTimeout => StaysSteady
<1> SUFFICES ASSUME Steady, HeartTimeout PROVE StaysSteady
  OBVIOUS
<1>0. /\ queue # <<>> /\ Head(queue).type = "HEART" /\ Calm /\ queue' = Rest /\ pc = "idle"
      /\ UNCHANGED <<sock, lookups, cntx, timers, retry>>
      /\ tasks' = (IF cntx /\ tasks = <<>> THEN <<NewNode(Beat)>> ELSE tasks)
      /\ pc' = (IF cntx THEN "process" ELSE "idle") /\ cntx \in BOOLEAN /\ BeatInv
      /\ ~cntx => tasks = <<>>
  BY Listed, Typed DEF HeartTimeout, Take, BeatInv
<1>1. /\ SockInv'
      /\ Owed => Owed'
      /\ Blocked => Blocked'
      /\ Resting => Resting'
      /\ Armed => Armed'
  BY <1>0, TakeLeaves DEF Foreign, Named
<1>2. CASE ~cntx
  <2>1. LateInv' /\ GoingInv' /\ BeatInv'
    BY <1>0, <1>2, NoneLeft
  <2> QED
    BY <1>1, <2>1 DEF StaysSteady
<1>3. CASE cntx /\ tasks = <<>>
  <2>1. NewNode(Beat) \in threedo_tt_node /\ Unstarted(NewNode(Beat)) /\ NewNode(Beat).retryCt < RetryMax
    BY NewNodeForm, Bounds DEF NewNode
  <2>2. Len(tasks') = 1 /\ tasks'[1] = NewNode(Beat) /\ tasks' # <<>>
    BY <1>0, <1>3
  <2>3. 1 \in 1 .. Len(tasks') /\ \A i \in 1 .. Len(tasks') : i = 1
    BY <2>2
  <2>4. Untried(tasks')
    BY <2>1, <2>2, <2>3 DEF Untried
  <2>5. LateInv' /\ GoingInv' /\ BeatInv'
    BY <1>0, <1>3, <2>2, <2>3, <2>4, FirstStarts
  <2> QED
    BY <1>1, <2>5 DEF StaysSteady
<1>4. CASE cntx /\ tasks # <<>>
  <2>1. tasks' = tasks /\ pc' = "process" /\ cntx' /\ sock'.dns = sock.dns /\ tasks'[1] = Task1
    BY <1>0, <1>4 DEF Task1
  <2>2. \A i \in 2 .. Len(tasks') : tasks'[i].retryCt < RetryMax
    BY <1>0, <2>1 DEF BeatInv
  <2>3. LateInv' /\ GoingInv' /\ BeatInv'
    BY <1>0, <1>1, <1>4, <2>1, <2>2, HeadGoesOn
  <2> QED
    BY <1>1, <2>3 DEF StaysSteady
<1> QED
  BY <1>2, <1>3, <1>4

LEMMA NotMineGoes == Steady /\ EventNotMine => StaysSteady
<1> SUFFICES ASSUME Steady, EventNotMine PROVE StaysSteady
  OBVIOUS
<1>0. /\ queue # <<>> /\ Head(queue).type \in {"READ", "WRITE", "CONNECT", "CLOSE"}
      /\ Calm /\ queue' = Rest /\ pc = "idle" /\ cntx \in BOOLEAN
      /\ UNCHANGED <<sock, lookups, cntx, tasks, retry>>
      /\ cntx => Head(queue).id # sock.id /\ pc' = "idle" /\ timers' = timers
      /\ ~cntx => tasks = <<>> /\ pc' \in {"idle", "fault"}
      /\ GoingInv /\ LateInv /\ BeatInv
  BY Listed, Typed DEF EventNotMine, IsEvent, IsMine, BeatInv
<1>1. CASE ~cntx
  <2>1. SockInv'
    BY <1>0, Listed, SockTakes DEF Named
  <2>2. LateInv' /\ GoingInv' /\ BeatInv'
    BY <1>0, <1>1, NoneLeft
  <2> QED
    BY <2>1, <2>2 DEF StaysSteady
<1>2. CASE cntx
  <2>1. /\ SockInv'
        /\ Owed => Owed'
        /\ Blocked => Blocked'
        /\ Resting => Resting'
        /\ Armed => Armed'
        /\ Beats => Beats'
    BY <1>0, <1>2, TakeLeaves DEF Foreign, Named
  <2>2. CASE tasks = <<>>
    <3>1. pc' = "idle" /\ cntx' /\ ~retry' => Beats'
      BY <1>0, <1>2, <2>1, <2>2 DEF BeatInv
    <3>2. LateInv' /\ GoingInv' /\ BeatInv'
      BY <1>0, <1>2, <2>2, <3>1, NoneLeft
    <3> QED
      BY <2>1, <3>2 DEF StaysSteady
  <2>3. CASE tasks # <<>>
    <3>1. /\ Task1.state = "FD_TRANS_EOF" => Armed'
          /\ Task1.state \in Uploads => Blocked'
          /\ Task1.state = "READY_SOCKET" => Owed' \/ (Armed' /\ Resting')
          /\ Task1.state = "WAIT_START" => Armed' /\ ~HasSocket
          /\ Task1.state # "TRANS_FINISH"
          /\ Task1.state \in Late => sock'.dns = "IGNORE"
      BY <1>0, <2>1, <2>3 DEF GoingInv, LateInv
    <3>2. HasSocket' = HasSocket
      BY <1>0 DEF HasSocket
    <3>3. LateInv' /\ GoingInv' /\ BeatInv'
      BY <1>0, <1>2, <2>3, <3>1, <3>2, HeadIsSame, HeadRests
    <3> QED
      BY <2>1, <3>3 DEF StaysSteady
  <2> QED
    BY <2>2, <2>3
<1> QED
  BY <1>1, <1>2

LEMMA MineGoes == Steady /\ EventMine => StaysSteady
<1> SUFFICES ASSUME Steady, EventMine PROVE StaysSteady
  OBVIOUS
<1> DEFINE m == Head(queue)
<1>0. /\ queue # <<>> /\ m.type \in {"READ", "WRITE", "CONNECT", "CLOSE"}
      /\ Calm /\ pc = "idle" /\ cntx /\ m.id = sock.id
      /\ UNCHANGED <<cntx, tasks, retry>>
      /\ queue \in Seq(Message) /\ upsets' = upsets /\ upsets \in {0, 1} /\ Within
      /\ GoingInv /\ LateInv /\ SockInv
  BY Listed, LinkFacts DEF EventMine, IsEvent, IsMine
<1>1. /\ pc' = CASE m.type = "READ"              -> "read"
                 [] m.type = "WRITE"             -> "write"
                 [] m.type = "CONNECT" /\ m.ok   -> "write"
                 [] OTHER                        -> "check"
      /\ IF m.type = "CLOSE" /\ m.ok THEN threedo_socket_close(sock, Rest)
                                     ELSE queue' = Rest /\ UNCHANGED <<sock, lookups>>
  BY DEF EventMine
<1>2. pc' \in {"read", "write", "check"} /\ (pc' = "read" <=> m.type = "READ")
  BY <1>0, <1>1
<1>3. m \in Message /\ m \in Mail(queue) /\ Rest \in Seq(Message) /\ \A n \in Mail(Rest) : n \in Mail(queue)
  BY <1>0, MailOfRest
<1> HIDE DEF m
<1>4. HasSocket
  <2>1. m.id \in Sockets
    BY <1>0, <1>3 DEF Message
  <2> QED
    BY <1>0, <2>1, SocketsAssumption DEF HasSocket
<1>5. SockInv' /\ sock'.dns \in {sock.dns, "IGNORE"}
  <2>1. CASE m.type = "CLOSE" /\ m.ok
    <3>1. upsets' = 1
      BY <1>0, <1>3, <2>1 DEF SockInv, CleanInv
    <3>2. SockInv' /\ sock' = Zeroed
      BY <1>0, <1>1, <1>3, <1>4, <2>1, <3>1, CloseAffects DEF HasSocket
    <3> QED
      BY <3>2, ZeroedTyped DEF Zeroed
  <2>2. CASE ~(m.type = "CLOSE" /\ m.ok)
    BY <1>0, <1>1, <2>2, SockTakes DEF Named, m
  <2> QED
    BY <2>1, <2>2
<1>6. CASE tasks = <<>>
  <2>1. LateInv' /\ GoingInv' /\ BeatInv'
    BY <1>0, <1>2, <1>6, NoneLeft
  <2> QED
    BY <1>5, <2>1 DEF StaysSteady
<1>7. CASE tasks # <<>>
  <2>1. Task1.state \notin {"WAIT_START", "TRANS_FINISH"}
    BY <1>0, <1>4, <1>7 DEF GoingInv
  <2>2. Task1.state \in Late => sock'.dns = "IGNORE"
    BY <1>0, <1>5, <1>7 DEF LateInv
  <2>3. CASE m.type = "READ"
    <3>1. queue' = Rest /\ UNCHANGED <<sock, lookups>> /\ pc' = "read" /\ Foreign(m)
      BY <1>1, <1>2, <2>3 DEF Foreign, Named
    <3>2. /\ Owed => Owed'
          /\ Blocked => Blocked'
      BY <1>0, <3>1, TakeLeaves DEF m
    <3>3. ~Resting
      BY <1>3, <2>3 DEF Resting, NoRead
    <3>4. /\ Task1.state \in Uploads => Blocked'
          /\ Task1.state = "READY_SOCKET" => Owed'
      BY <1>0, <1>7, <3>2, <3>3 DEF GoingInv
    <3>5. Task1' = Task1 /\ tasks' # <<>>
      BY <1>0, <1>7 DEF Task1
    <3>6. GoingInv'
      BY <2>1, <3>1, <3>4, <3>5 DEF GoingInv
    <3>7. LateInv'
      BY <2>2, <3>1, <3>5 DEF LateInv
    <3>8. BeatInv'
      BY <1>0, <3>1, <3>5, Listed DEF BeatInv
    <3> QED
      BY <1>5, <3>6, <3>7, <3>8 DEF StaysSteady
  <2>4. CASE m.type # "READ"
    <3>1. pc' \in {"write", "check"}
      BY <1>2, <2>4
    <3>2. LateInv' /\ GoingInv' /\ BeatInv'
      BY <1>0, <1>7, <2>1, <2>2, <3>1, HeadIsSame, HeadWorks
    <3> QED
      BY <1>5, <3>2 DEF StaysSteady
  <2> QED
    BY <2>3, <2>4
<1> QED
  BY <1>6, <1>7

(* The socket belongs to the context: only a step of it opens one. *)
Held == HasSocket => cntx

LEMMA IgnoredGoes == Steady /\ Held /\ NameIgnored => StaysSteady
<1> SUFFICES ASSUME Steady, Held, NameIgnored PROVE StaysSteady
  OBVIOUS
<1>0. /\ queue # <<>> /\ Head(queue).type = "DNS" /\ Calm /\ queue' = Rest /\ pc = "idle"
      /\ UNCHANGED <<sock, lookups, cntx, tasks, retry, pc, timers>>
      /\ ~cntx \/ ~Head(queue).mine
      /\ cntx \in BOOLEAN
      /\ GoingInv /\ LateInv /\ BeatInv /\ SockInv /\ queue \in Seq(Message) /\ sock \in SocketState
      /\ HasSocket => cntx
  BY Listed, LinkFacts, Typed DEF NameIgnored, Take, taskVars, Held
<1>1. ~Head(queue).mine
  <2>1. CASE ~cntx
    <3>1. sock.dns # "BLOCKED"
      BY <1>0, <2>1 DEF SockInv, NameInv
    <3>2. ~Awaited(queue) /\ Head(queue) \in Mail(queue)
      BY <1>0, <3>1, MailOfRest DEF SockInv, NameInv
    <3> QED
      BY <1>0, <3>2 DEF Awaited, Named
  <2> QED
    BY <1>0, <2>1
<1>2. /\ SockInv'
      /\ Owed => Owed'
      /\ Blocked => Blocked'
      /\ Resting => Resting'
      /\ Armed => Armed'
      /\ Beats => Beats'
  BY <1>0, <1>1, TakeLeaves DEF Foreign, Named
<1>3. CASE tasks = <<>>
  <2>1. pc' = "idle" /\ cntx' /\ ~retry' => Beats'
    BY <1>0, <1>2, <1>3 DEF BeatInv
  <2>2. LateInv' /\ GoingInv' /\ BeatInv'
    BY <1>0, <1>3, <2>1, NoneLeft
  <2> QED
    BY <1>2, <2>2 DEF StaysSteady
<1>4. CASE tasks # <<>>
  <2>1. /\ Task1.state = "FD_TRANS_EOF" => Armed'
        /\ Task1.state \in Uploads => Blocked'
        /\ Task1.state = "READY_SOCKET" => Owed' \/ (Armed' /\ Resting')
        /\ Task1.state = "WAIT_START" => Armed' /\ ~HasSocket
        /\ Task1.state # "TRANS_FINISH"
        /\ Task1.state \in Late => sock'.dns = "IGNORE"
    BY <1>0, <1>2, <1>4 DEF GoingInv, LateInv
  <2>2. HasSocket' = HasSocket
    BY <1>0 DEF HasSocket
  <2>3. LateInv' /\ GoingInv' /\ BeatInv'
    BY <1>0, <1>4, <2>1, <2>2, HeadIsSame, HeadRests
  <2> QED
    BY <1>2, <2>3 DEF StaysSteady
<1> QED
  BY <1>3, <1>4

LEMMA AnsweredGoes == Steady /\ NameAnswered => StaysSteady
<1> SUFFICES ASSUME Steady, NameAnswered PROVE StaysSteady
  OBVIOUS
<1> DEFINE m == Head(queue)
<1>0. /\ queue # <<>> /\ m.type = "DNS" /\ queue' = Rest /\ pc = "idle"
      /\ UNCHANGED <<lookups, cntx, tasks, retry>> /\ cntx
      /\ m.mine \/ sock.dns = "START"
      /\ GoingInv /\ LateInv /\ SockInv /\ Within /\ queue \in Seq(Message) /\ sock \in SocketState
      /\ upsets \in {0, 1} /\ upsets' \in {0, 1} /\ lookups \subseteq BOOLEAN
      /\ Calm => upsets' = upsets
  BY Listed, LinkFacts DEF NameAnswered, Take
<1>1. /\ Rest \in Seq(Message) /\ m \in Mail(queue)
      /\ \A n \in Mail(Rest) : n \in Mail(queue)
      /\ OneAnswer(queue) => /\ OneAnswer(Rest)
                             /\ Named(m) => ~Awaited(Rest)
  BY <1>0, MailOfRest
<1> HIDE DEF m
<1>2. Named(m) /\ Awaited(queue)
  <2>1. sock.dns # "START"
    BY <1>0, <1>1 DEF SockInv, NameInv
  <2>2. Named(m)
    BY <1>0, <2>1 DEF Named
  <2> QED
    BY <1>1, <2>2 DEF Awaited
<1>3. /\ sock.dns = "BLOCKED" /\ sock.link = "none" /\ HasSocket /\ sock.id \in Sockets
      /\ TRUE \notin lookups /\ ~Awaited(queue') /\ OneAnswer(queue')
  <2>1. /\ sock.dns = "BLOCKED" /\ sock.link = "none" /\ HasSocket /\ TRUE \notin lookups
        /\ OneAnswer(queue)
    BY <1>0, <1>2 DEF SockInv, NameInv
  <2> QED
    BY <1>0, <1>1, <1>2, <2>1 DEF SocketState, HasSocket
<1>4. NoRead(queue) => NoRead(queue')
  BY <1>0, <1>1 DEF NoRead
<1>5. tasks # <<>> => /\ Task1.state \notin Late \cup {"WAIT_START", "TRANS_FINISH"}
                      /\ Task1.state \notin Uploads /\ Task1.state # "FD_TRANS_EOF"
  BY <1>0, <1>3 DEF GoingInv, LateInv, Late, Uploads
<1>6. ASSUME SockInv', pc' = "idle", timers' = {"BLOCK"}, Owed' \/ Resting'
      PROVE  StaysSteady
  <2>1. Armed' /\ Beats'
    BY <1>6 DEF Armed, Beats
  <2>2. CASE tasks = <<>>
    <3>1. LateInv' /\ GoingInv' /\ BeatInv'
      BY <1>0, <1>6, <2>1, <2>2, NoneLeft
    <3> QED
      BY <1>6, <3>1 DEF StaysSteady
  <2>3. CASE tasks # <<>>
    <3>1. LateInv' /\ GoingInv' /\ BeatInv'
      BY <1>0, <1>5, <1>6, <2>1, <2>3, HeadIsSame, HeadRests
    <3> QED
      BY <1>6, <3>1 DEF StaysSteady
  <2> QED
    BY <2>2, <2>3
<1>7. ASSUME SockInv', pc' \in {"write", "check"}
      PROVE  StaysSteady
  <2>1. CASE tasks = <<>>
    <3>1. LateInv' /\ GoingInv' /\ BeatInv'
      BY <1>0, <1>7, <2>1, NoneLeft
    <3> QED
      BY <1>7, <3>1 DEF StaysSteady
  <2>2. CASE tasks # <<>>
    <3>1. LateInv' /\ GoingInv' /\ BeatInv'
      BY <1>0, <1>5, <1>7, <2>2, HeadIsSame, HeadWorks
    <3> QED
      BY <1>7, <3>1 DEF StaysSteady
  <2> QED
    BY <2>1, <2>2
<1>8. CASE m.ok
  <2> DEFINE s == [sock EXCEPT !.dns = "IGNORE"]
  <2>1. /\ s \in SocketState /\ s.id = sock.id /\ s.link = "none" /\ s.dns = "IGNORE"
        /\ s.full = sock.full /\ s.wire = sock.wire /\ s.due = sock.due /\ s.inbox = sock.inbox
    BY <1>0, <1>3 DEF SocketState
  <2>2. threedo_socket_connect(s)
    BY <1>8 DEF NameAnswered, m
  <2> HIDE DEF s
  <2>3. /\ sock'.id = s.id /\ sock'.dns = s.dns /\ sock'.full = s.full
        /\ sock'.wire = s.wire /\ sock'.due = s.due /\ sock'.inbox = s.inbox
        /\ sock'.error \in {"zero", "block", "bad"}
        /\ upsets' = 1 \/ (upsets' = upsets /\ sock'.link = "connecting")
        /\ sock'.error = "block" => sock'.link = "connecting"
    BY <1>0, <1>3, <2>1, <2>2, ConnectAffects
  <2>4. sock'.dns = "IGNORE" /\ sock'.id # NoSocket
    BY <1>3, <2>1, <2>3, SocketsAssumption
  <2>5. SockInv'
    <3>1. CASE upsets' = 1
      BY <1>0, <1>3, <2>4, <3>1, ResolvedAffects
    <3>2. CASE upsets' # 1
      <4>1. upsets = 0 /\ upsets' = 0 /\ sock'.link = "connecting"
        BY <1>0, <2>3, <3>2
      <4>2. /\ ~sock.full /\ FALSE \notin lookups /\ NoRead(queue) /\ Unused
            /\ \A n \in Mail(queue) : /\ n.type \notin {"CLOSE", "STOP", "WRITE"}
                                      /\ n.type = "DNS" => n.mine /\ n.ok
        BY <1>0, <1>3, <4>1 DEF SockInv, CleanInv
      <4>3. ~sock'.full /\ FALSE \notin lookups' /\ NoRead(queue') /\ Unused'
        BY <1>0, <1>4, <2>1, <2>3, <4>2 DEF Unused
      <4>4. \A n \in Mail(queue') : /\ n.type \notin {"CLOSE", "STOP", "WRITE"}
                                    /\ n.type = "DNS" => n.mine /\ n.ok
        BY <1>0, <1>1, <4>2
      <4>5. TRUE \notin lookups'
        BY <1>0, <1>3
      <4> QED
        BY <1>0, <1>3, <2>4, <4>1, <4>3, <4>4, <4>5, ResolvedAffects
    <3> QED
      BY <3>1, <3>2
  <2>6. CASE sock'.error = "block"
    <3>1. pc' = "idle" /\ timers' = {"BLOCK"}
      BY <1>8, <2>4, <2>6 DEF NameAnswered, m
    <3>2. Owed' \/ Resting'
      <4>1. CASE upsets' = 1
        BY <2>3, <2>6, <4>1 DEF Owed, Coming
      <4>2. CASE upsets' # 1
        <5>1. upsets = 0
          BY <1>0, <2>3, <4>2
        <5>2. NoRead(queue')
          BY <1>0, <1>3, <1>4, <5>1 DEF SockInv, CleanInv
        <5> QED
          BY <2>3, <2>6, <5>2 DEF Resting
      <4> QED
        BY <4>1, <4>2
    <3> QED
      BY <1>6, <2>5, <3>1, <3>2
  <2>7. CASE sock'.error # "block"
    <3>1. pc' \in {"write", "check"}
      BY <1>8, <2>4, <2>7 DEF NameAnswered, m
    <3> QED
      BY <1>7, <2>5, <3>1
  <2> QED
    BY <2>6, <2>7
<1>9. CASE ~m.ok
  <2>1. /\ sock' = [sock EXCEPT !.error = "zero", !.dns = "FAILED"] /\ Calm
        /\ pc' = "idle" /\ timers' = {"BLOCK"}
    BY <1>9 DEF NameAnswered, m
  <2>2. sock'.dns = "FAILED" /\ sock'.error = "zero" /\ sock'.link = "none" /\ sock'.id # NoSocket
    BY <1>0, <1>3, <2>1, SocketsAssumption DEF SocketState
  <2>3. NoRead(queue')
    BY <1>0, <1>1, <1>2, <1>4, <1>9 DEF SockInv, ReadInv
  <2>4. upsets' = 1
    BY <1>0, <1>1, <1>9, <2>1 DEF SockInv, CleanInv
  <2>5. NameInv'
    BY <1>0, <1>3, <2>2 DEF NameInv, HasSocket
  <2>6. CleanInv' /\ ReadInv'
    BY <2>2, <2>3, <2>4 DEF CleanInv, ReadInv
  <2> QED
    BY <1>6, <2>1, <2>2, <2>3, <2>5, <2>6 DEF SockInv, Resting
<1> QED
  BY <1>8, <1>9

-------------------------------------------------------------------------------
(* The rest of the phone, and the invariant as a whole. *)

(* A step that leaves the task as it is. *)
LEMMA TaskSame ==
  ASSUME Steady, UNCHANGED <<tasks, pc, cntx, retry>>, Moves, Armed => Armed', Beats => Beats'
  PROVE  StaysSteady
<1>1. /\ SockInv' /\ sock'.id = sock.id /\ sock'.dns = sock.dns
      /\ Owed => Owed'
      /\ Blocked => Blocked'
      /\ Resting => Owed' \/ Resting'
  BY DEF Moves
<1>2. Task1' = Task1 /\ HasSocket' = HasSocket
  BY <1>1 DEF Task1, HasSocket
<1>3. LateInv'
  BY <1>1, <1>2, Listed DEF LateInv
<1>4. GoingInv'
  BY <1>1, <1>2, Listed DEF GoingInv
<1>5. BeatInv'
  BY <1>1, <1>2, Listed DEF BeatInv
<1> QED
  BY <1>1, <1>3, <1>4, <1>5 DEF StaysSteady

LEMMA WorldGoes == Steady /\ World => StaysSteady
<1> SUFFICES ASSUME Steady, World PROVE StaysSteady
  OBVIOUS
<1>1. UNCHANGED <<tasks, pc, cntx, retry, timers>> /\ Outside
  BY DEF World, taskVars
<1>2. Moves
  BY <1>1, Listed, OutsideMoves
<1>3. (Armed => Armed') /\ (Beats => Beats')
  BY <1>1, <1>2 DEF Moves, Armed, Beats
<1> QED
  BY <1>1, <1>2, <1>3, TaskSame

LEMMA ExpiresGoes ==
  ASSUME Steady, NEW t \in {"BLOCK", "HEART"}, Expires(t)
  PROVE  StaysSteady
<1> DEFINE n == [type |-> t]
<1>1. /\ UNCHANGED <<sock, lookups, tasks, pc, cntx, retry>> /\ timers' = timers \ {t} /\ Calm
      /\ queue' = Append(queue, n)
  BY DEF Expires, Posted
<1>2. n \in Message /\ n.type = t
  BY MessageForms
<1> HIDE DEF n
<1>3. Moves /\ n \in Mail(queue')
  BY <1>1, <1>2, Listed, PostMoves
<1>4. Armed => Armed'
  BY <1>1, <1>2, <1>3 DEF Moves, Armed
<1>5. Beats'
  BY <1>2, <1>3 DEF Beats
<1> QED
  BY <1>1, <1>3, <1>4, <1>5, TaskSame

LEMMA RequestGoes ==
  ASSUME Steady, NEW f \in Files, Request(f)
  PROVE  StaysSteady
<1> DEFINE n == [type |-> "REQ", file |-> f]
<1>1. /\ UNCHANGED <<sock, lookups, tasks, pc, cntx, retry, timers>> /\ Calm
      /\ queue' = Append(queue, n)
  BY DEF Request, Posted, taskVars
<1>2. n \in Message /\ n.type = "REQ"
  BY MessageForms
<1> HIDE DEF n
<1>3. Moves
  BY <1>1, <1>2, Listed, PostMoves
<1>4. (Armed => Armed') /\ (Beats => Beats')
  BY <1>1, <1>3 DEF Moves, Armed, Beats
<1> QED
  BY <1>1, <1>3, <1>4, TaskSame

(* As the phone starts, and starts again. *)
LEMMA StartSteady ==
  ASSUME sock = Zeroed, lookups = {}, queue = <<>>, tasks = <<>>, pc = "idle", cntx = FALSE
  PROVE  SockInv /\ LateInv /\ GoingInv /\ BeatInv
<1>1. Len(queue) = 0 /\ Len(tasks) = 0
  BY EmptySeq
<1>2. Mail(queue) = {} /\ OneAnswer(queue)
  BY <1>1 DEF Mail, OneAnswer
<1>3. NameInv
  BY <1>2, ZeroedTyped DEF NameInv, Zeroed, HasSocket, Awaited
<1>4. CleanInv /\ ReadInv
  BY <1>2, ZeroedTyped DEF CleanInv, ReadInv, Zeroed, NoRead, Unused
<1>5. \A i \in 2 .. Len(tasks) : FALSE
  BY <1>1
<1> QED
  BY <1>3, <1>4, <1>5 DEF SockInv, LateInv, GoingInv, BeatInv

LEMMA RestartGoes == Restart => StaysSteady
<1> SUFFICES ASSUME Restart PROVE StaysSteady
  OBVIOUS
<1>1. /\ sock' = Zeroed /\ lookups' = {} /\ queue' = <<>> /\ tasks' = <<>> /\ pc' = "idle"
      /\ cntx' = FALSE
  BY DEF Restart
<1>2. Len(queue') = 0 /\ Len(tasks') = 0
  BY <1>1, EmptySeq
<1>3. Mail(queue') = {} /\ OneAnswer(queue')
  BY <1>2 DEF Mail, OneAnswer
<1>4. NameInv'
  BY <1>1, <1>3, ZeroedTyped DEF NameInv, Zeroed, HasSocket, Awaited
<1>5. CleanInv' /\ ReadInv'
  BY <1>1, <1>3, ZeroedTyped DEF CleanInv, ReadInv, Zeroed, NoRead, Unused
<1>6. \A i \in 2 .. Len(tasks') : FALSE
  BY <1>2
<1> QED
  BY <1>1, <1>4, <1>5, <1>6 DEF StaysSteady, SockInv, LateInv, GoingInv, BeatInv

(* Each upset is counted, and none is forgotten. *)
LEMMA Counted == [Next]_vars => Calm \/ \E k : Upset(k)
<1> SUFFICES ASSUME [Next]_vars PROVE Calm \/ \E k : Upset(k)
  OBVIOUS
<1>1. ASSUME NEW s, threedo_socket_connect(s) PROVE Calm \/ \E k : Upset(k)
  BY <1>1, Zenon DEF threedo_socket_connect
<1>2. CASE Process \/ NoHead
  BY <1>1, <1>2, Zenon DEF Process, ProcessBusy, ProcessDrops, ProcessStarts, ProcessCloses, NoHead,
     threedo_socket_open
<1>3. ASSUME NEW p, threedo_socket_write(p) PROVE Calm \/ \E k : Upset(k)
  BY <1>3, Zenon DEF threedo_socket_write
<1>4. CASE Write \/ Upload \/ ReadAnswer \/ Check
  BY <1>3, <1>4, Zenon DEF Write, WriteHead, WriteTail, WriteOther, Upload, UploadNoFile, UploadPiece,
     UploadTail, ReadAnswer, Check, CheckNoTask, CheckFinished, CheckSent, CheckAgain
<1>5. CASE NameAnswered
  BY <1>1, <1>5, Zenon DEF NameAnswered
<1>6. CASE Messages /\ ~NameAnswered
  BY <1>6, Zenon DEF Messages, FileTransReq, TaskStopReq, BlockTimeout, HeartTimeout, EventNotMine,
     EventMine, NameIgnored
<1>7. CASE Restart \/ (\E t \in {"BLOCK", "HEART"} : Expires(t)) \/ \E f \in Files : Request(f)
  BY <1>7, Zenon DEF Restart, Expires, Request
<1>8. CASE World
  BY <1>8, Zenon DEF World, Outside, LookupAnswered, LookupLost, Connected, ConnectLost, WriteReady,
     WriteLost, ServerAnswers, ServerRefuses, AnswerLost, ServerCloses, Stop
<1>9. CASE UNCHANGED vars
  BY <1>9 DEF vars, Calm
<1> QED
  BY <1>2, <1>4, <1>5, <1>6, <1>7, <1>8, <1>9 DEF Next, ThreedoTask

(* Without a context there is no task, and nothing that looks at the socket changes it. *)
LEMMA HeldKeeps ==
  ASSUME Steady, Held, [Next]_vars
  PROVE  Held'
<1>1. CASE cntx' /\ cntx' = TRUE
  BY <1>1 DEF Held
<1>2. CASE Restart
  BY <1>2, ZeroedTyped DEF Restart, Held, HasSocket, Zeroed
<1>3. CASE TaskStopReq
  BY <1>3, ZeroedTyped DEF TaskStopReq, threedo_socket_close, Held, HasSocket, Zeroed
<1>4. CASE UNCHANGED <<cntx, sock>>
  BY <1>4 DEF Held, HasSocket
<1>5. CASE cntx /\ cntx' = cntx
  BY <1>5 DEF Held
<1>6. CASE World
  <2>1. Moves /\ cntx' = cntx
    BY <1>6, Listed, OutsideMoves DEF World, taskVars
  <2> QED
    BY <2>1 DEF Moves, Held, HasSocket
<1>7. FileTransReq => cntx' /\ cntx' = TRUE
  BY DEF FileTransReq
<1>8. tasks # <<>> => cntx
  BY Listed
<1>9. pc \in {"process", "upload", "upload_tail"} => tasks # <<>>
  BY Listed DEF BeatInv, TransferInv, Progress
<1>10. Process \/ Write \/ Upload \/ ReadAnswer \/ CheckFinished \/ CheckSent \/ CheckAgain
         => cntx /\ cntx' = cntx
  BY <1>8, <1>9, Zenon DEF Process, ProcessBusy, ProcessDrops, ProcessStarts, ProcessCloses,
     Write, WriteHead, WriteTail, WriteOther, Upload, UploadNoFile, UploadPiece,
     UploadTail, ReadAnswer, CheckFinished, CheckSent, CheckAgain
<1>11. CheckNoTask => UNCHANGED <<cntx, sock>>
  BY DEF CheckNoTask, GoOn
<1>12. EventMine \/ NameAnswered => cntx /\ cntx' = cntx
  BY DEF EventMine, IsMine, NameAnswered
<1>13. NoHead \/ BlockTimeout \/ HeartTimeout \/ EventNotMine \/ NameIgnored => UNCHANGED <<cntx, sock>>
  BY DEF NoHead, BlockTimeout, HeartTimeout, EventNotMine, NameIgnored, taskVars
<1>14. (\E t \in {"BLOCK", "HEART"} : Expires(t)) \/ (\E f \in Files : Request(f)) \/ UNCHANGED vars
         => UNCHANGED <<cntx, sock>>
  BY DEF Expires, Request, vars, taskVars
<1> QED
  BY <1>1, <1>2, <1>3, <1>4, <1>5, <1>6, <1>7, <1>10, <1>11, <1>12, <1>13, <1>14
     DEF Next, ThreedoTask, Check, Messages

LEMMA StandingGoes == Steady /\ UNCHANGED vars => StaysSteady
<1> SUFFICES ASSUME Steady, UNCHANGED vars PROVE StaysSteady
  OBVIOUS
<1>1. /\ UNCHANGED <<sock, lookups, queue, upsets, cntx, tasks, timers, retry, pc>> /\ Calm
  BY DEF vars, Calm
<1>2. /\ SockInv'
      /\ Armed => Armed'
      /\ Blocked => Blocked'
      /\ Owed => Owed'
      /\ Resting => Resting'
  BY <1>1, SameRests
<1>3. Moves /\ (Beats => Beats')
  BY <1>1, <1>2 DEF Moves, Beats
<1> QED
  BY <1>1, <1>2, <1>3, TaskSame

LEMMA StaysSteadily ==
  ASSUME Steady, Held, [Next]_vars
  PROVE  StaysSteady
<1>1. CASE Process \/ NoHead
  BY <1>1, BusyGoes, DropsGoes, StartsGoes, ClosesGoes, NoHeadGoes DEF Process
<1>2. CASE Write \/ Upload \/ ReadAnswer
  BY <1>2, WriteHeadGoes, WriteTailGoes, WriteOtherGoes, NoFileGoes, PieceGoes, TailGoes, ReadGoes
     DEF Write, Upload
<1>3. CASE Check
  BY <1>3, CheckNoTaskGoes, CheckFinishedGoes, CheckSentGoes, CheckAgainGoes DEF Check
<1>4. CASE Messages
  BY <1>4, ReqGoes, StopGoes, BlockGoes, HeartGoes, NotMineGoes, MineGoes, IgnoredGoes, AnsweredGoes
     DEF Messages
<1>5. CASE Restart \/ World
  BY <1>5, RestartGoes, WorldGoes
<1>6. CASE \E t \in {"BLOCK", "HEART"} : Expires(t)
  BY <1>6, ExpiresGoes
<1>7. CASE \E f \in Files : Request(f)
  BY <1>7, RequestGoes
<1>8. CASE UNCHANGED vars
  BY <1>8, StandingGoes
<1> QED
  BY <1>1, <1>2, <1>3, <1>4, <1>5, <1>6, <1>7, <1>8 DEF Next, ThreedoTask

(* While at most one thing has gone wrong. *)
StrandInv == upsets <= 1 => SockInv /\ LateInv /\ GoingInv /\ BeatInv /\ Held

LEMMA StrandSteps == TransferInv /\ StrandInv /\ [Next]_vars => StrandInv'
<1> SUFFICES ASSUME TransferInv, StrandInv, [Next]_vars, upsets' <= 1
             PROVE  (SockInv /\ LateInv /\ GoingInv /\ BeatInv /\ Held)'
  BY DEF StrandInv
<1>1. upsets \in Nat
  BY Typed
<1>2. upsets' = upsets \/ upsets' = upsets + 1
  BY Counted DEF Calm, Upset
<1>3. upsets \in {0, 1} /\ upsets' \in {0, 1} /\ upsets <= 1
  BY <1>1, <1>2
<1>4. Steady /\ Held
  BY <1>3 DEF StrandInv, Steady, Within
<1> QED
  BY <1>4, StaysSteadily, HeldKeeps DEF StaysSteady

LEMMA StrandInvariant == Spec => []StrandInv
<1>1. Init => StrandInv
  BY StartSteady, ZeroedTyped DEF Init, StrandInv, Held, HasSocket, Zeroed
<1> QED
  BY <1>1, StrandSteps, TransferInvariant, PTL DEF Spec

(* While at most one thing has gone wrong (a lookup or an answer lost, a send that blocks, the
   server closing, a file cut short, ...), a task in the list always has something that moves
   it on: although EventMine and check_and_clear_task stop both timers, whatever they leave
   unfinished is owed by the stack, the resolver or the server, or has started the block timer
   again.  A second upset may take away what the first one made the task depend on. *)
THEOREM NeverStrandedByOne == Spec => [](upsets <= 1 => NeverStranded)
<1>1. TransferInv /\ StrandInv => (upsets <= 1 => NeverStranded)
  <2> SUFFICES ASSUME TransferInv, StrandInv, upsets <= 1, pc = "idle", tasks # <<>>
               PROVE  "BLOCK" \in timers \/ Pending
    BY DEF NeverStranded
  <2>1. /\ GoingInv /\ Task1 \in threedo_tt_node
        /\ lookups \subseteq BOOLEAN
    BY HeadFacts, Typed DEF StrandInv
  <2>2. Armed \/ Blocked \/ Owed
    BY <2>1 DEF GoingInv, threedo_tt_node, States, Uploads
  <2>3. \A m \in Mail(queue) : queue # <<>>
    <3>1. queue = <<>> => Len(queue) = 0
      BY EmptySeq
    <3> QED
      BY <3>1 DEF Mail
  <2>4. Armed => "BLOCK" \in timers \/ queue # <<>>
    BY <2>3 DEF Armed
  <2>5. Blocked => queue # <<>> \/ (sock.link = "up" /\ sock.full)
    BY <2>3 DEF Blocked
  <2>6. Owed => queue # <<>> \/ Coming
    BY <2>3 DEF Owed, Awaited, Told
  <2> QED
    BY <2>2, <2>4, <2>5, <2>6 DEF Pending, Coming
<1> QED
  BY <1>1, TransferInvariant, StrandInvariant, PTL

(* While at most one thing has gone wrong, an idle context with an empty list keeps its
   heartbeat: check_and_clear_task starts the timer whenever it empties the list, and what
   stops the timers then is followed by a function that starts one again. *)
THEOREM HeartbeatKeptByOne == Spec => [](upsets <= 1 => HeartbeatKept)
<1>1. StrandInv => (upsets <= 1 => HeartbeatKept)
  <2> SUFFICES ASSUME StrandInv, upsets <= 1, pc = "idle", cntx, tasks = <<>>, ~retry
               PROVE  timers # {} \/ Pending
    BY DEF HeartbeatKept
  <2>1. Beats
    BY DEF StrandInv, BeatInv
  <2>2. queue = <<>> => Len(queue) = 0
    BY EmptySeq
  <2>3. \A m \in Mail(queue) : queue # <<>>
    BY <2>2 DEF Mail
  <2> QED
    BY <2>1, <2>3 DEF Beats, Pending
<1> QED
  BY <1>1, StrandInvariant, PTL

===============================================================================
