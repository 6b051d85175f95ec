---------------------------- MODULE FileTransfer ----------------------------
(***************************************************************************)
(* The file transfer (threedo_ftm.c): one queue of tasks, one socket, a    *)
(* timer for what blocks and a timer for the heartbeat.  Recordings are    *)
(* uploaded to a server over one connection that is kept alive, one after  *)
(* the other; an idle connection carries heartbeats.                       *)
(*                                                                         *)
(* Every function calls the next one last, so one step runs one function   *)
(* and pc names the function that runs next; the stack and the timers may  *)
(* come in between.  Downloads are left out: nothing in the firmware posts *)
(* MSG_ID_THREEDO_FILE_DOWNLOAD_REQ.                                       *)
(***************************************************************************)
EXTENDS ThreedoSocket

CONSTANTS
  Beat,        \* the file heart.beat
  TaskMax,     \* TD_FTTM_TASK_MAX
  RetryMax     \* TD_FTTM_RETRY_MAX

ASSUME TaskMaxAssumption == TaskMax \in Nat \ {0}
ASSUME RetryMaxAssumption == RetryMax \in Nat \ {0}
ASSUME BeatAssumption == Beat \notin Files

VARIABLES
  cntx,        \* tdFttmCntx is not NULL
  tasks,       \* tdFttmCntx->task, the list of nodes
  timers,      \* the timers that run: "BLOCK" and "HEART"
  retry,       \* the static retry of threedo_file_trans_process is not 0
  pc,          \* the function that runs next
  asked,       \* history: the recordings handed over
  finished,    \* history: MSG_ID_THREEDO_FILE_TRANS_FINISH_IND was posted
  taken        \* history: the stack took each part of the request, if only in part

taskVars == <<cntx, tasks, timers, retry, pc>>
history == <<asked, finished, taken>>
vars == <<sock, lookups, queue, upsets, cntx, tasks, timers, retry, pc, asked, finished, taken>>

States == {"WAIT_START", "READY_SOCKET", "UPLOAD_CONTI", "UPLOAD_TAIL", "FD_TRANS_EOF",
           "TRANS_FINISH"}
Functions == {"process", "write", "upload", "upload_tail", "read", "check"}

(* open: fsHandle is a handle.  got: currSize, in pieces.  retryCt stays small
   enough for its eight bits. *)
threedo_tt_node ==
  [file : Files \cup {Beat}, state : States, retryCt : 0 .. RetryMax,
   got : 0 .. Chunks, open : BOOLEAN]

NewNode(f) == [file |-> f, state |-> "WAIT_START", retryCt |-> 0, got |-> 0, open |-> FALSE]

Task1 == tasks[1]
WithHead(t) == [tasks EXCEPT ![1] = t]
IsUpload(t) == t.file # Beat

-------------------------------------------------------------------------------
(* threedo_file_trans_process *)

(* The head is being worked on: leave it alone the first time, remove it the second. *)
ProcessBusy ==
  /\ pc = "process" /\ tasks # <<>> /\ Task1.state # "WAIT_START"
  /\ retry' = TRUE
  /\ IF retry
       THEN /\ timers' = timers \ {"BLOCK"}
            /\ tasks' = Tail(tasks)
            /\ pc' = IF Len(tasks) > 1 THEN "process" ELSE "idle"
       ELSE pc' = "idle" /\ UNCHANGED <<timers, tasks>>
  /\ Calm
  /\ UNCHANGED <<sock, lookups, queue, cntx, history>>

(* The head has been tried too often, or takes too long while others wait. *)
ProcessDrops ==
  /\ pc = "process" /\ tasks # <<>> /\ Task1.state = "WAIT_START"
  /\ retry' = FALSE
  /\ \/ Task1.retryCt = RetryMax /\ Calm
     \/ Task1.retryCt < RetryMax /\ Len(tasks) > 1 /\ Upset("age")
  /\ tasks' = Tail(tasks)
  /\ pc' = IF Len(tasks) > 1 THEN "process" ELSE "idle"
  /\ UNCHANGED <<sock, lookups, queue, cntx, timers, history>>

(* _td_file_trans_after_connect, with the socket as it is now. *)
AfterConnect ==
  /\ pc' = CASE sock'.id = NoSocket     -> "idle"
             [] sock'.error = "zero"    -> "write"
             [] sock'.error = "block"   -> "idle"
             [] OTHER                   -> "check"
  /\ timers' = IF sock'.id # NoSocket /\ sock'.error = "block"
                 THEN timers \cup {"BLOCK"} ELSE timers

WaitToRetry == pc' = "idle" /\ timers' = timers \cup {"BLOCK"}

Started == [Task1 EXCEPT !.retryCt = @ + 1]

ProcessStarts ==
  /\ pc = "process" /\ tasks # <<>> /\ Task1.state = "WAIT_START" /\ Task1.retryCt < RetryMax
  /\ retry' = FALSE
  /\ \/ /\ ~HasSocket
        /\ threedo_socket_open(queue)
        /\ sock'.link = "closed" => sock'.dns = "IGNORE"
     \/ /\ HasSocket /\ sock.dns # "FAILED"
        /\ sock' = [sock EXCEPT !.error = "zero"]
        /\ Calm
        /\ UNCHANGED <<lookups, queue>>
  /\ tasks' = WithHead(IF sock'.id = NoSocket THEN Started
                                              ELSE [Started EXCEPT !.state = "READY_SOCKET"])
  /\ IF sock'.id # NoSocket /\ sock'.dns = "IGNORE" THEN AfterConnect ELSE WaitToRetry
  /\ UNCHANGED <<cntx, history>>

(* A socket whose name was not found is closed, to start anew after the timer; so is
   one that could not be set up. *)
ProcessCloses ==
  /\ pc = "process" /\ tasks # <<>> /\ Task1.state = "WAIT_START" /\ Task1.retryCt < RetryMax
  /\ retry' = FALSE
  /\ \/ HasSocket /\ sock.dns = "FAILED" /\ Calm
     \/ ~HasSocket /\ ByName /\ Upset("option")
  /\ sock' = Zeroed
  /\ lookups' = Older(lookups)
  /\ queue' = Outdate(queue)
  /\ tasks' = WithHead([Started EXCEPT !.state = "READY_SOCKET"])
  /\ WaitToRetry
  /\ UNCHANGED <<cntx, history>>

-------------------------------------------------------------------------------
(* Without a task process returns; write_socket and read_socket look at the head
   without asking whether there is one. *)
NoHead ==
  /\ pc \in {"process", "write", "read"} /\ tasks = <<>>
  /\ pc' = IF pc = "process" THEN "idle" ELSE "fault"
  /\ Calm
  /\ UNCHANGED <<sock, lookups, queue, cntx, tasks, timers, retry, history>>

(* _td_file_trans_write_socket *)

WriteHead ==
  /\ pc = "write" /\ tasks # <<>> /\ Task1.state = "READY_SOCKET"
  /\ threedo_socket_write("HEAD")
  /\ CASE sock'.error = "more" -> /\ pc' = "upload"
                                  /\ tasks' = WithHead([Task1 EXCEPT !.state = "UPLOAD_CONTI"])
                                  /\ UNCHANGED timers
       [] sock'.error = "block" -> WaitToRetry /\ UNCHANGED tasks
       [] OTHER -> pc' = "check" /\ UNCHANGED <<tasks, timers>>
  /\ UNCHANGED <<lookups, queue, cntx, retry, history>>

(* The tail was taken, behind all pieces.  The task takes any result above 0 for the whole
   of a head or a tail, so that the stack may have taken a part of either ("partial"). *)
AllTaken ==
  taken' = IF IsUpload(Task1) /\ Task1.got = Chunks THEN taken \cup {Task1.file} ELSE taken

WriteTail ==
  /\ pc = "write" /\ tasks # <<>> /\ Task1.state = "UPLOAD_TAIL"
  /\ threedo_socket_write("TAIL")
  /\ CASE sock'.error = "more" -> /\ WaitToRetry
                                  /\ tasks' = WithHead([Task1 EXCEPT !.state = "FD_TRANS_EOF"])
                                  /\ AllTaken
       [] sock'.error = "block" -> WaitToRetry /\ UNCHANGED <<tasks, taken>>
       [] OTHER -> /\ pc' = "check"
                   /\ tasks' = WithHead([Task1 EXCEPT !.retryCt = @ + 1])
                   /\ UNCHANGED <<timers, taken>>
  /\ UNCHANGED <<lookups, queue, cntx, retry, asked, finished>>

WriteOther ==
  /\ pc = "write" /\ tasks # <<>> /\ Task1.state \notin {"READY_SOCKET", "UPLOAD_TAIL"}
  /\ pc' = CASE Task1.state = "UPLOAD_CONTI" -> "upload"
             [] Task1.state = "FD_TRANS_EOF" -> "check"
             [] OTHER                        -> "idle"
  /\ Calm
  /\ UNCHANGED <<sock, lookups, queue, cntx, tasks, timers, retry, history>>

-------------------------------------------------------------------------------
(* _td_file_trans_upload_continue, one piece a step *)

Sending == [Task1 EXCEPT !.state = "UPLOAD_CONTI", !.open = TRUE,
                         !.got = IF Task1.open THEN @ ELSE 0]

UploadNoFile ==
  /\ pc = "upload"
  /\ Upset("file")
  /\ \/ ~Task1.open /\ tasks' = WithHead([Sending EXCEPT !.open = FALSE])
     \/ tasks' = WithHead(Sending)
  /\ pc' = "check"
  /\ UNCHANGED <<sock, lookups, queue, cntx, timers, retry, history>>

UploadPiece ==
  /\ pc = "upload"
  /\ threedo_socket_write("DATA")
  /\ CASE sock'.error = "more" ->
            IF Sending.got + 1 = Chunks
              THEN /\ tasks' = WithHead([Sending EXCEPT !.got = Chunks, !.retryCt = 0, !.open = FALSE])
                   /\ pc' = "upload_tail"
                   /\ UNCHANGED timers
              ELSE /\ tasks' = WithHead([Sending EXCEPT !.got = @ + 1])
                   /\ UNCHANGED <<pc, timers>>
       [] sock'.error = "block" -> tasks' = WithHead(Sending) /\ WaitToRetry
       [] OTHER -> tasks' = WithHead(Sending) /\ pc' = "check" /\ UNCHANGED timers
  /\ UNCHANGED <<lookups, queue, cntx, retry, history>>

(* Mutant: takes a tail that would block for a tail that was taken. *)
UploadTail_BlockIsSent ==
  /\ pc = "upload_tail"
  /\ threedo_socket_write("TAIL")
  /\ IF sock'.error \in {"more", "block"}
       THEN WaitToRetry /\ tasks' = WithHead([Task1 EXCEPT !.state = "FD_TRANS_EOF"])
       ELSE pc' = "check" /\ UNCHANGED <<tasks, timers>>
  /\ IF sock'.error = "more" THEN AllTaken ELSE UNCHANGED taken
  /\ UNCHANGED <<lookups, queue, cntx, retry, asked, finished>>

UploadTail ==
  /\ pc = "upload_tail"
  /\ threedo_socket_write("TAIL")
  /\ CASE sock'.error = "more" -> /\ WaitToRetry
                                  /\ tasks' = WithHead([Task1 EXCEPT !.state = "FD_TRANS_EOF"])
                                  /\ AllTaken
       [] sock'.error = "block" -> /\ WaitToRetry
                                   /\ tasks' = WithHead([Task1 EXCEPT !.state = "UPLOAD_TAIL"])
                                   /\ UNCHANGED taken
       [] OTHER -> pc' = "check" /\ UNCHANGED <<tasks, timers, taken>>
  /\ UNCHANGED <<lookups, queue, cntx, retry, asked, finished>>

-------------------------------------------------------------------------------
(* _td_file_trans_read_socket.  After the whole request any answer finishes the
   task, an error and a failure to read included. *)

ReadAnswer ==
  /\ pc = "read" /\ tasks # <<>>
  /\ IF Task1.state = "FD_TRANS_EOF"
       THEN /\ \E r \in threedo_socket_read : sock' = r.s
            /\ tasks' = WithHead([Task1 EXCEPT !.state = "TRANS_FINISH"])
            /\ pc' = "check"
       ELSE pc' = "idle" /\ UNCHANGED <<sock, tasks>>
  /\ Calm
  /\ UNCHANGED <<lookups, queue, cntx, timers, retry, history>>

-------------------------------------------------------------------------------
(* _td_file_trans_check_and_clear_task *)

(* Mutant: an error leaves the socket as it is. *)
GoOn_KeepsSocket(ts, s) ==
  /\ tasks' = ts /\ sock' = s
  /\ pc' = IF ts = <<>> THEN "idle" ELSE "process"
  /\ timers' = IF ts = <<>> THEN {"HEART"} ELSE {}
  /\ UNCHANGED <<lookups, queue>>

(* How it goes on, with the list ts and the socket s: an error closes the socket,
   in the belief that there is a task, and the next task is started. *)
GoOn(ts, s) ==
  IF s.id # NoSocket /\ s.error = "bad"
    THEN IF ts = <<>>
      THEN /\ pc' = "fault"
           /\ tasks' = ts /\ sock' = s /\ timers' = {}
           /\ UNCHANGED <<lookups, queue>>
      ELSE /\ pc' = "process"
           /\ tasks' = [ts EXCEPT ![1].got = 0, ![1].state = "WAIT_START"]
           /\ threedo_socket_close(s, queue)
           /\ timers' = {}
    ELSE /\ tasks' = ts /\ sock' = s
         /\ pc' = IF ts = <<>> THEN "idle" ELSE "process"
         /\ timers' = IF ts = <<>> THEN {"HEART"} ELSE {}
         /\ UNCHANGED <<lookups, queue>>

Finish == finished' = IF IsUpload(Task1) THEN Append(finished, Task1.file) ELSE finished

CheckNoTask ==
  /\ pc = "check" /\ tasks = <<>>
  /\ GoOn(<<>>, sock)
  /\ Calm
  /\ UNCHANGED <<cntx, retry, history>>

(* Mutant: the finished task is put behind the others instead of removed. *)
CheckFinished_Requeues ==
  /\ pc = "check" /\ tasks # <<>> /\ Task1.state = "TRANS_FINISH"
  /\ Finish
  /\ GoOn(Append(Tail(tasks), [Task1 EXCEPT !.state = "WAIT_START", !.got = 0]), sock)
  /\ Calm
  /\ UNCHANGED <<cntx, retry, asked, taken>>

CheckFinished ==
  /\ pc = "check" /\ tasks # <<>> /\ Task1.state = "TRANS_FINISH"
  /\ Finish
  /\ GoOn(Tail(tasks), sock)
  /\ Calm
  /\ UNCHANGED <<cntx, retry, asked, taken>>

(* Mutant: the limit on waiting for an answer is one too high. *)
CheckSent_OneMore ==
  /\ pc = "check" /\ tasks # <<>> /\ Task1.state = "FD_TRANS_EOF"
  /\ IF ~HasSocket THEN GoOn(Tail(tasks), sock) /\ UNCHANGED finished
     ELSE \E r \in threedo_socket_read :
       \/ /\ r.s.error # "block"
          /\ GoOn(Tail(tasks), r.s)
          /\ UNCHANGED finished
       \/ /\ r.s.error = "block" /\ Task1.retryCt <= RetryMax
          /\ tasks' = WithHead([Task1 EXCEPT !.retryCt = @ + 1, !.open = FALSE])
          /\ sock' = r.s
          /\ pc' = "idle" /\ timers' = {"BLOCK"}
          /\ UNCHANGED <<lookups, queue, finished>>
  /\ Calm
  /\ UNCHANGED <<cntx, retry, asked, taken>>

CheckSent ==
  /\ pc = "check" /\ tasks # <<>> /\ Task1.state = "FD_TRANS_EOF"
  /\ IF ~HasSocket THEN GoOn(Tail(tasks), sock) /\ UNCHANGED finished
     ELSE \E r \in threedo_socket_read :
       \/ /\ r.s.error = "more"
          /\ IF r.ok THEN Finish ELSE UNCHANGED finished
          /\ GoOn(Tail(tasks), r.s)
       \/ /\ r.s.error = "block" /\ Task1.retryCt >= RetryMax
          /\ GoOn(Tail(tasks), r.s)
          /\ UNCHANGED finished
       \/ /\ r.s.error = "block" /\ Task1.retryCt < RetryMax
          /\ tasks' = WithHead([Task1 EXCEPT !.retryCt = @ + 1, !.open = FALSE])
          /\ sock' = r.s
          /\ pc' = "idle" /\ timers' = {"BLOCK"}
          /\ UNCHANGED <<lookups, queue, finished>>
       \/ /\ r.s.error \in {"zero", "bad"}
          /\ threedo_socket_close(r.s, queue)
          /\ tasks' = Tail(tasks)
          /\ pc' = IF Len(tasks) > 1 THEN "process" ELSE "idle"
          /\ timers' = IF Len(tasks) > 1 THEN {} ELSE {"HEART"}
          /\ UNCHANGED finished
  /\ Calm
  /\ UNCHANGED <<cntx, retry, asked, taken>>

(* Mutant: a task put back keeps how far it got. *)
CheckAgain_KeepsProgress ==
  /\ pc = "check" /\ tasks # <<>> /\ Task1.state \notin {"TRANS_FINISH", "FD_TRANS_EOF"}
  /\ GoOn(IF Task1.retryCt >= RetryMax \/ ~IsUpload(Task1) THEN Tail(tasks)
            ELSE Append(Tail(tasks), [Task1 EXCEPT !.state = "WAIT_START"]), sock)
  /\ Calm
  /\ UNCHANGED <<cntx, retry, history>>

(* Mutant: a failed heartbeat leaves the queue without starting the timer again. *)
CheckAgain_NoHeart ==
  /\ pc = "check" /\ tasks # <<>> /\ Task1.state \notin {"TRANS_FINISH", "FD_TRANS_EOF"}
  /\ IF IsUpload(Task1)
       THEN GoOn(Append(Tail(tasks), NewNode(Task1.file)), sock)
       ELSE /\ tasks' = Tail(tasks) /\ pc' = "idle" /\ timers' = {}
            /\ UNCHANGED <<sock, lookups, queue>>
  /\ Calm
  /\ UNCHANGED <<cntx, retry, history>>

(* Anything else is tried again, behind the others; a heartbeat is not. *)
CheckAgain ==
  /\ pc = "check" /\ tasks # <<>> /\ Task1.state \notin {"TRANS_FINISH", "FD_TRANS_EOF"}
  /\ LET again == [Task1 EXCEPT !.state = "WAIT_START", !.got = 0, !.open = FALSE]
     IN GoOn(IF Task1.retryCt >= RetryMax \/ ~IsUpload(Task1)
               THEN Tail(tasks) ELSE Append(Tail(tasks), again), sock)
  /\ Calm
  /\ UNCHANGED <<cntx, retry, history>>

-------------------------------------------------------------------------------
(* ThreedoTask: the messages *)

Take(type) == pc = "idle" /\ queue # <<>> /\ Head(queue).type = type
Rest == Tail(queue)

(* A request that finds every node in use is dropped. *)
FileTransReq ==
  /\ Take("REQ")
  /\ queue' = Rest
  /\ cntx' = TRUE
  /\ tasks' = IF Len(tasks) < TaskMax THEN Append(tasks, NewNode(Head(queue).file)) ELSE tasks
  /\ pc' = "process"
  /\ Calm
  /\ UNCHANGED <<sock, lookups, timers, retry, history>>

(* threedo_file_trans_free_all frees the nodes but never leaves the first one. *)
TaskStopReq ==
  /\ Take("STOP")
  /\ IF ~cntx THEN queue' = Rest /\ UNCHANGED <<sock, lookups, tasks, timers, cntx, pc>>
     ELSE /\ threedo_socket_close(sock, Rest)
          /\ IF tasks = <<>>
               THEN cntx' = FALSE /\ timers' = {} /\ UNCHANGED <<tasks, pc>>
               ELSE /\ pc' = "hung"
                    /\ tasks' = WithHead([Task1 EXCEPT !.open = FALSE])
                    /\ UNCHANGED <<cntx, timers>>
  /\ Calm
  /\ UNCHANGED <<retry, history>>

BlockTimeout ==
  /\ Take("BLOCK")
  /\ queue' = Rest
  /\ pc' = IF cntx THEN "check" ELSE "idle"
  /\ Calm
  /\ UNCHANGED <<sock, lookups, cntx, tasks, timers, retry, history>>

(* _td_file_trans_send_heartbeat *)
HeartTimeout ==
  /\ Take("HEART")
  /\ queue' = Rest
  /\ tasks' = IF cntx /\ tasks = <<>> THEN <<NewNode(Beat)>> ELSE tasks
  /\ pc' = IF cntx THEN "process" ELSE "idle"
  /\ Calm
  /\ UNCHANGED <<sock, lookups, cntx, timers, retry, history>>

(* _td_file_trans_event_cb.  It drops what is meant for another socket.  Without a
   context nothing is, and most of it is handled through the null pointer. *)
IsEvent == pc = "idle" /\ queue # <<>> /\ Head(queue).type \in {"READ", "WRITE", "CONNECT", "CLOSE"}
IsMine == cntx /\ Head(queue).id = sock.id
IsFailure == Head(queue).type \in {"CONNECT", "CLOSE"} /\ ~Head(queue).ok

EventNotMine ==
  /\ IsEvent /\ ~IsMine
  /\ queue' = Rest
  /\ pc' = IF cntx \/ IsFailure THEN "idle" ELSE "fault"
  /\ timers' = IF cntx THEN timers ELSE {}
  /\ Calm
  /\ UNCHANGED <<sock, lookups, cntx, tasks, retry, history>>

(* Mutant: a connect that failed is left to a timer that was just stopped. *)
EventMine_IgnoresFailure ==
  /\ IsEvent /\ IsMine
  /\ timers' = {}
  /\ pc' = CASE Head(queue).type = "READ"              -> "read"
             [] Head(queue).type = "WRITE"             -> "write"
             [] Head(queue).type = "CONNECT" /\ Head(queue).ok -> "write"
             [] Head(queue).type = "CONNECT"           -> "idle"
             [] OTHER                                  -> "check"
  /\ IF Head(queue).type = "CLOSE" /\ Head(queue).ok THEN threedo_socket_close(sock, Rest)
       ELSE queue' = Rest /\ UNCHANGED <<sock, lookups>>
  /\ Calm
  /\ UNCHANGED <<cntx, tasks, retry, history>>

EventMine ==
  /\ IsEvent /\ IsMine
  /\ timers' = {}
  /\ LET m == Head(queue)
     IN /\ pc' = CASE m.type = "READ"              -> "read"
                   [] m.type = "WRITE"             -> "write"
                   [] m.type = "CONNECT" /\ m.ok   -> "write"
                   [] OTHER                        -> "check"
        /\ IF m.type = "CLOSE" /\ m.ok THEN threedo_socket_close(sock, Rest)
                                       ELSE queue' = Rest /\ UNCHANGED <<sock, lookups>>
  /\ Calm
  /\ UNCHANGED <<cntx, tasks, retry, history>>

(* _td_file_trans_host_name_cb.  It ignores an answer only if it is neither the one
   asked for nor a lookup is about to start. *)
NameIgnored ==
  /\ Take("DNS")
  /\ ~cntx \/ (~Head(queue).mine /\ sock.dns # "START")
  /\ queue' = Rest
  /\ Calm
  /\ UNCHANGED <<sock, lookups, taskVars, history>>

(* Mutant: a name that was not found is not tried again. *)
NameAnswered_NoRetry ==
  /\ Take("DNS")
  /\ cntx /\ (Head(queue).mine \/ sock.dns = "START")
  /\ queue' = Rest
  /\ pc' = "idle" /\ timers' = IF Head(queue).ok THEN {"BLOCK"} ELSE {}
  /\ IF Head(queue).ok
       THEN threedo_socket_connect([sock EXCEPT !.dns = "IGNORE"])
       ELSE sock' = [sock EXCEPT !.error = "zero", !.dns = "FAILED"] /\ Calm
  /\ UNCHANGED <<lookups, cntx, tasks, retry, history>>

NameAnswered ==
  /\ Take("DNS")
  /\ cntx /\ (Head(queue).mine \/ sock.dns = "START")
  /\ queue' = Rest
  /\ IF Head(queue).ok
       THEN /\ threedo_socket_connect([sock EXCEPT !.dns = "IGNORE"])
            /\ pc' = CASE sock'.id = NoSocket     -> "idle"
                       [] sock'.error = "zero"    -> "write"
                       [] sock'.error = "block"   -> "idle"
                       [] OTHER                   -> "check"
            /\ timers' = IF sock'.id # NoSocket /\ sock'.error = "block" THEN {"BLOCK"} ELSE {}
       ELSE /\ sock' = [sock EXCEPT !.error = "zero", !.dns = "FAILED"]
            /\ pc' = "idle" /\ timers' = {"BLOCK"}
            /\ Calm
  /\ UNCHANGED <<lookups, cntx, tasks, retry, history>>

Process == ProcessBusy \/ ProcessDrops \/ ProcessStarts \/ ProcessCloses
Write == WriteHead \/ WriteTail \/ WriteOther
Upload == UploadNoFile \/ UploadPiece \/ UploadTail
Check == CheckNoTask \/ CheckFinished \/ CheckSent \/ CheckAgain
Messages ==
  \/ FileTransReq \/ TaskStopReq \/ BlockTimeout \/ HeartTimeout
  \/ EventNotMine \/ EventMine \/ NameIgnored \/ NameAnswered

ThreedoTask == NoHead \/ Process \/ Write \/ Upload \/ ReadAnswer \/ Check \/ Messages

-------------------------------------------------------------------------------
Alive == pc \notin {"fault", "hung"}

(* The callbacks of the timers only post a message. *)
Expires(t) ==
  /\ Alive
  /\ t \in timers
  /\ timers' = timers \ {t}
  /\ Posted([type |-> t])
  /\ Calm
  /\ UNCHANGED <<sock, lookups, cntx, tasks, retry, pc, history>>

(* threedo_send_file_trans_req, from the recorder *)
Request(f) ==
  /\ f \in Files \ asked
  /\ asked' = asked \cup {f}
  /\ Posted([type |-> "REQ", file |-> f])
  /\ Calm
  /\ UNCHANGED <<sock, lookups, taskVars, finished, taken>>

(* A read through the null pointer restarts the phone, which keeps nothing. *)
Restart ==
  /\ pc = "fault"
  /\ sock' = Zeroed /\ lookups' = {} /\ queue' = <<>>
  /\ cntx' = FALSE /\ tasks' = <<>> /\ timers' = {} /\ retry' = FALSE /\ pc' = "idle"
  /\ Calm
  /\ UNCHANGED history

Init ==
  /\ sock = Zeroed /\ lookups = {} /\ queue = <<>> /\ upsets = 0
  /\ cntx = FALSE /\ tasks = <<>> /\ timers = {} /\ retry = FALSE /\ pc = "idle"
  /\ asked = {} /\ finished = <<>> /\ taken = {}

World == Alive /\ Outside /\ UNCHANGED <<taskVars, history>>

Next ==
  \/ ThreedoTask \/ Restart \/ World
  \/ \E t \in {"BLOCK", "HEART"} : Expires(t)
  \/ \E f \in Files : Request(f)

Spec == Init /\ [][Next]_vars

(* The task runs and a phone at fault starts again, the block timer runs out, and
   the network gives the answer that is due unless an upset takes it away. *)
Answer ==
  /\ \/ LookupAnswered(TRUE, TRUE) \/ Connected(TRUE) \/ WriteReady \/ ServerAnswers
  /\ Alive
  /\ UNCHANGED <<taskVars, history>>

Fairness ==
  /\ WF_vars(ThreedoTask \/ Restart)
  /\ SF_vars(Expires("BLOCK"))
  /\ SF_vars(Answer)

FairSpec == Spec /\ Fairness

-------------------------------------------------------------------------------
(* Every variable stays in its range: the queue within its nodes, the tries within
   the limit. *)
TypeOK ==
  /\ sock \in SocketState
  /\ lookups \subseteq BOOLEAN
  /\ queue \in Seq(Message)
  /\ upsets \in 0 .. MaxUpsets
  /\ cntx \in BOOLEAN
  /\ tasks \in Seq(threedo_tt_node) /\ Len(tasks) <= TaskMax
  /\ timers \subseteq {"BLOCK", "HEART"}
  /\ retry \in BOOLEAN
  /\ pc \in {"idle", "fault", "hung"} \cup Functions
  /\ asked \subseteq Files
  /\ finished \in Seq(Files)
  /\ taken \subseteq Files

(* Only the head of the queue is ever under way: a task behind it has not begun,
   or begins anew, whichever way the head was given up or put back. *)
OneAtATime ==
  \A i \in 2 .. Len(tasks) :
    tasks[i].state = "WAIT_START" /\ tasks[i].got = 0 /\ ~tasks[i].open

(* A recording is reported by MSG_ID_THREEDO_FILE_TRANS_FINISH_IND at most once, and
   only after the stack took the tail of its request and before it every piece of the
   body, counted anew at each try, whatever restarted it in between.  That it took all of the
   head and of the tail is not promised, a part of them passes for the whole; nor that
   the server took the recording: read_socket reports an answer with an error too. *)
FinishedOnceAndTaken ==
  /\ \A i, j \in DOMAIN finished : i # j => finished[i] # finished[j]
  /\ \A i \in DOMAIN finished : finished[i] \in taken

(* No handler ends with a socket in error: check_and_clear_task closes it, along each
   of the paths that meet an error. *)
ErrorCloses == (pc = "idle" /\ HasSocket) => sock.error # "bad"

(* Something the network or the mailbox still owes the task. *)
Pending ==
  \/ queue # <<>>
  \/ sock.link = "connecting" \/ (sock.link = "up" /\ (sock.full \/ sock.due > 0))
  \/ TRUE \in lookups

(* A task in the queue always has something that will move it on: the block timer, or
   something still owed.  Both timers are stopped at every event, so each handler has
   to leave one behind. *)
NeverStranded == (pc = "idle" /\ tasks # <<>>) => "BLOCK" \in timers \/ Pending

(* Between recordings the connection is kept up by heartbeats: with an empty queue a
   timer runs or something is still owed.  The one way to lose the heartbeat is the
   removal of a busy head by threedo_file_trans_process, which leaves retry set. *)
HeartbeatKept ==
  (pc = "idle" /\ cntx /\ tasks = <<>> /\ ~retry) => timers # {} \/ Pending

Waiting(f) ==
  \/ \E i \in DOMAIN tasks : tasks[i].file = f
  \/ \E i \in DOMAIN queue : queue[i].type = "REQ" /\ queue[i].file = f

WaitingFiles == {f \in Files : Waiting(f)}
FinishedFiles == {finished[i] : i \in DOMAIN finished}

Service == INSTANCE UploadService WITH
  waiting <- WaitingFiles, finished <- FinishedFiles,
  givenUp <- asked \ (WaitingFiles \cup FinishedFiles)

(* The queue, its retries and restarts implement the service the recorder may expect:
   a recording waits and is then reported or given up, and never comes back. *)
ImplementsUploadService == Service!Spec

(* A recording handed over leaves the queue some day, unless stopping the task hangs. *)
Settles == \A f \in Files : Waiting(f) ~> (pc = "hung" \/ ~Waiting(f))

(* Stopping the task ends: threedo_file_trans_free_all returns. *)
StopEnds == pc # "hung"

===============================================================================
