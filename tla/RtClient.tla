------------------------------ MODULE RtClient ------------------------------
(***************************************************************************)
(* ethercat_master.c with its Linux backend: several threads of an         *)
(* application share one TCP connection to the backend server under        *)
(* rt_lock.  Every call is one request and one reply; receiving gives up   *)
(* after 500 ms, in front of a message or in the middle of one.            *)
(*                                                                         *)
(* The reply carries the number of its request, which the client does not  *)
(* compare.  Only a failed poll, open or close ends the connection: after  *)
(* any other call that gave up, the late reply stays in the stream.        *)
(***************************************************************************)
EXTENDS Integers, Sequences, FiniteSets

CONSTANTS
  Threads,      \* threads of the application
  Ops,          \* per thread: the calls it makes
  NoThread,
  MaxCalls,     \* bound: calls of all threads
  MaxTimeouts,  \* bound: receives that give up
  MaxConns      \* bound: connections

OpNames == {"open", "close", "endpoint", "poll", "command", "read_sdo", "write_sdo"}

ASSUME RtAssumption ==
  /\ Threads # {} /\ NoThread \notin Threads
  /\ Ops \in [Threads -> SUBSET OpNames]

VARIABLES
  core,   \* G_core: rt_lock, rt_socket (0 is invalid), rt_sequence, opened, worker_running, endpoint
  status, \* G_core.status: connected, and the connection and request it came from
  call,   \* per thread: the call and where it is
  net,    \* the connection and the server (external): see Connection
  used    \* history and bounds: calls, timeouts, connections, wrong replies taken
rtvars == <<core, status, call, net, used>>

(* requests not yet served, replies not yet read; framed says that the     *)
(* next byte to read begins a message; late, that a receive gave up.       *)
Connection(h) == [up |-> TRUE, host |-> h, requests |-> <<>>, replies |-> <<>>, framed |-> TRUE, late |-> FALSE]
Closed == [Connection(0) EXCEPT !.up = FALSE]
Quiet == [op |-> "none", pc |-> "idle", n |-> 0, ok |-> TRUE]

NewCore == [lock |-> NoThread, socket |-> 0, sequence |-> 0, opened |-> FALSE, running |-> FALSE,
            host |-> 1]
NewStatus == [connected |-> FALSE, conn |-> 0, n |-> 0]

RtInit ==
  /\ core = NewCore
  /\ status = NewStatus
  /\ call = [t \in Threads |-> Quiet]
  /\ net = Closed
  /\ used = [calls |-> 0, timeouts |-> 0, conns |-> 0]

(* What a call sends is answered with: a STATUS, or an SDO reply.          *)
ReplyType(op) == IF op \in {"read_sdo", "write_sdo"} THEN op ELSE "status"

-----------------------------------------------------------------------------
(* The checks before rt_lock: ECAT_Open looks at worker_running,           *)
(* ECAT_GetRuntimeStatus and ECAT_SetLinuxRtEndpoint at opened.            *)
Start(t, op) ==
  /\ call[t].pc = "idle" /\ used.calls < MaxCalls /\ op \in Ops[t]
  /\ op = "open" => ~core.running
  /\ op = "poll" => core.opened
  /\ op = "endpoint" => ~core.opened
  /\ call' = [call EXCEPT ![t] = [op |-> op, pc |-> "enter", n |-> 0, ok |-> TRUE]]
  /\ used' = [used EXCEPT !.calls = @ + 1]
  /\ UNCHANGED <<core, status, net>>

(* EnterCriticalSection.                                                   *)
Enter(t) ==
  /\ call[t].pc = "enter" /\ core.lock = NoThread
  /\ core' = [core EXCEPT !.lock = t]
  /\ call' = [call EXCEPT ![t].pc = CASE call[t].op = "open" -> "connect"
                                       [] call[t].op = "endpoint" -> "endpoint"
                                       [] OTHER -> "send"]
  /\ UNCHANGED <<status, net, used>>

(* ECAT_SetLinuxRtEndpoint: one of two controllers.                        *)
SetEndpoint(t) ==
  /\ call[t].pc = "endpoint"
  /\ core' = [core EXCEPT !.host = 3 - @, !.lock = NoThread]
  /\ call' = [call EXCEPT ![t].pc = "idle"]
  /\ UNCHANGED <<status, net, used>>

(* rt_connect_locked: the old socket is closed in any case.  Faulty        *)
(* variant first: the session counts as open before the server answered.   *)
ConnectIsOpen(t) ==
  /\ call[t].pc = "connect" /\ used.conns < MaxConns
  /\ core' = [core EXCEPT !.socket = used.conns + 1, !.opened = TRUE, !.running = TRUE,
                          !.lock = NoThread]
  /\ net' = Connection(core.host)
  /\ used' = [used EXCEPT !.conns = @ + 1]
  /\ call' = [call EXCEPT ![t].pc = "idle"]
  /\ UNCHANGED status

Connect(t) ==
  /\ call[t].pc = "connect" /\ used.conns < MaxConns
  /\ core' = [core EXCEPT !.socket = used.conns + 1]
  /\ net' = Connection(core.host)
  /\ used' = [used EXCEPT !.conns = @ + 1]
  /\ call' = [call EXCEPT ![t].pc = "send"]
  /\ UNCHANGED status

(***************************************************************************)
(* The end of a call, under rt_lock: what a result ok does to the socket,  *)
(* the flags and the connection.  The status has been applied before.      *)
(***************************************************************************)
DropsSocket(op, ok) ==
  \/ op = "close"                   \* rt_close_backend
  \/ op \in {"open", "poll"} /\ ~ok \* rt_open_backend, rt_poll_status

CoreAfter(op, ok, c) ==
  [c EXCEPT !.lock = NoThread,
            !.socket = IF DropsSocket(op, ok) THEN 0 ELSE @,
            !.opened = IF op = "open" /\ ok THEN TRUE
                       ELSE IF DropsSocket(op, ok) THEN FALSE ELSE @,
            !.running = IF op = "open" /\ ok THEN TRUE
                        ELSE IF DropsSocket(op, ok) THEN FALSE ELSE @]

NetAfter(op, ok, c) == IF DropsSocket(op, ok) THEN Closed ELSE c

(* Between rt_lock and state_lock rt_close_backend has a step to go.       *)
Leave(t, ok, st, c) ==
  /\ core' = CoreAfter(call[t].op, ok, core)
  /\ net' = NetAfter(call[t].op, ok, c)
  /\ status' = st
  /\ call' = [call EXCEPT ![t].pc = IF call[t].op = "close" THEN "disconnected" ELSE "idle",
                          ![t].ok = ok]

(* No connection could be made.                                            *)
ConnectFails(t) ==
  /\ call[t].pc = "connect" /\ used.timeouts < MaxTimeouts
  /\ used' = [used EXCEPT !.timeouts = @ + 1]
  /\ Leave(t, FALSE, status, Closed)

(* rt_send_message_locked.  Faulty variants first: the request is sent     *)
(* twice; rt_lock is left before the reply is read, except by ECAT_Open.   *)
Request(t) == [type |-> ReplyType(call[t].op), n |-> core.sequence + 1]
SendTwice(t) ==
  /\ call[t].pc = "send" /\ core.socket # 0 /\ net.up
  /\ core' = [core EXCEPT !.sequence = @ + 1]
  /\ net' = [net EXCEPT !.requests = @ \o <<Request(t), Request(t)>>]
  /\ call' = [call EXCEPT ![t].pc = "receive", ![t].n = core.sequence + 1]
  /\ UNCHANGED <<status, used>>

SendUnlocks(t) ==
  /\ call[t].pc = "send" /\ core.socket # 0 /\ net.up
  /\ core' = [core EXCEPT !.sequence = @ + 1, !.lock = IF call[t].op = "open" THEN t ELSE NoThread]
  /\ net' = [net EXCEPT !.requests = Append(@, Request(t))]
  /\ call' = [call EXCEPT ![t].pc = "receive", ![t].n = core.sequence + 1]
  /\ UNCHANGED <<status, used>>

Send(t) ==
  /\ call[t].pc = "send" /\ core.socket # 0 /\ net.up
  /\ core' = [core EXCEPT !.sequence = @ + 1]
  /\ net' = [net EXCEPT !.requests = Append(@, Request(t))]
  /\ call' = [call EXCEPT ![t].pc = "receive", ![t].n = core.sequence + 1]
  /\ UNCHANGED <<status, used>>

(* No socket, or the server has gone.  rt_close_backend sends only with a  *)
(* socket, and does not care.                                              *)
SendFails(t) ==
  /\ call[t].pc = "send" /\ (core.socket = 0 \/ ~net.up)
  /\ Leave(t, FALSE, status, net)
  /\ UNCHANGED used

(* rt_recv_message_locked and, for a STATUS, rt_apply_status_locked.  An   *)
(* SDO call that finds a STATUS leaves its payload in the stream, since it *)
(* does not fit; the other way round the reply is read and refused.        *)
Receive(t) ==
  /\ call[t].pc = "receive" /\ net.up /\ net.framed /\ net.replies # <<>>
  /\ LET r == Head(net.replies)
         ok == r.type = ReplyType(call[t].op)
         rest == [net EXCEPT !.replies = Tail(@),
                             !.framed = ~(ReplyType(call[t].op) # "status" /\ r.type = "status")]
         st == IF ok /\ r.type = "status"
               THEN [connected |-> TRUE, conn |-> core.socket, n |-> r.n] ELSE status
     IN  Leave(t, ok, st, rest)
  /\ UNCHANGED used

(* No reply in time, before the message or within it.                      *)
ReceiveTimesOut(t) ==
  /\ call[t].pc = "receive" /\ net.up /\ used.timeouts < MaxTimeouts
  /\ used' = [used EXCEPT !.timeouts = @ + 1]
  /\ \/ net.replies = <<>> /\ Leave(t, FALSE, status, [net EXCEPT !.late = TRUE])
     \/ net.replies # <<>> /\ net.framed
        /\ Leave(t, FALSE, status, [net EXCEPT !.late = TRUE, !.framed = FALSE])

(* Bytes that begin no message, or the connection has ended.               *)
ReceiveFails(t) ==
  /\ call[t].pc = "receive" /\ (~net.up \/ (~net.framed /\ net.replies # <<>>))
  /\ Leave(t, FALSE, status, net)
  /\ UNCHANGED used

(* The last lines of rt_close_backend, under state_lock.                   *)
Disconnected(t) ==
  /\ call[t].pc = "disconnected"
  /\ status' = [status EXCEPT !.connected = FALSE]
  /\ call' = [call EXCEPT ![t].pc = "idle"]
  /\ UNCHANGED <<core, net, used>>

-----------------------------------------------------------------------------
(* The server (external): it answers in order, late or never.              *)
ServerReplies ==
  /\ net.up /\ net.requests # <<>>
  /\ net' = [net EXCEPT !.requests = Tail(@), !.replies = Append(@, Head(net.requests))]
  /\ UNCHANGED <<core, status, call, used>>

ServerGoes ==
  /\ net.up /\ used.timeouts < MaxTimeouts
  /\ net' = Closed
  /\ used' = [used EXCEPT !.timeouts = @ + 1]
  /\ UNCHANGED <<core, status, call>>

Calls(t) ==
  \/ Enter(t) \/ SetEndpoint(t) \/ Connect(t) \/ ConnectFails(t) \/ Send(t) \/ SendFails(t)
  \/ Receive(t) \/ ReceiveTimesOut(t) \/ ReceiveFails(t) \/ Disconnected(t)

RtNext ==
  \/ \E t \in Threads : (\E op \in Ops[t] : Start(t, op)) \/ Calls(t)
  \/ ServerReplies \/ ServerGoes

-----------------------------------------------------------------------------
(* rt_lock: whenever no call is under way, the DLL reports an open session *)
(* exactly when it has a socket, and both flags agree.                     *)
OpenHasSocket ==
  core.lock = NoThread => core.opened = (core.socket # 0) /\ core.running = core.opened

(* A reply answers the request of the thread that reads it, as long as no  *)
(* receive has given up on this connection: the threads' requests do not   *)
(* mix in the stream.  After a receive that gave up this is not so, since  *)
(* header.sequence is never compared.                                      *)
ReplyIsOwn ==
  [][\A t \in Threads :
       call[t].pc = "receive" /\ net.up /\ net.framed /\ ~net.late
         /\ net.replies # <<>> /\ net'.replies = Tail(net.replies)
       => Head(net.replies).n = call[t].n]_rtvars

(* The endpoint that is reported is the one of the open session, as long   *)
(* as the thread that opens is the one that sets it.                       *)
EndpointOfSession == core.lock = NoThread /\ core.opened /\ net.up => net.host = core.host

(* rt_lock, and rt_connect_locked closing the old socket: the status that  *)
(* is reported with an open session was received in this session.          *)
StatusOfThisSession ==
  core.lock = NoThread /\ core.opened => status.conn = core.socket

(* What the DLL says of its session is of this session, whichever calls of *)
(* the two threads timed out, failed or were answered late: flags, socket, *)
(* endpoint and status agree whenever rt_lock is free.                     *)
SessionIsOwn == OpenHasSocket /\ EndpointOfSession /\ StatusOfThisSession

(***************************************************************************)
(* The client implements SerialLink.                                       *)
(***************************************************************************)
Outstanding(c) == {t \in Threads : c[t].pc = "receive"}
SessionOf(opened, c) ==
  CASE opened -> "open"
    [] ~opened /\ (\E t \in Outstanding(c) : c[t].op = "open") -> "opening"
    [] OTHER -> "closed"
ActiveOf(c) ==
  IF Outstanding(c) = {} THEN NoThread
  ELSE IF Cardinality(Outstanding(c)) = 1 THEN CHOOSE t \in Threads : t \in Outstanding(c)
  ELSE "two"
Link == INSTANCE SerialLink WITH session <- SessionOf(core.opened, call), active <- ActiveOf(call)
ImplementsSerialLink == Link!Spec
=============================================================================
