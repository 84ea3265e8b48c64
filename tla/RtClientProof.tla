--------------------------- MODULE RtClientProof ----------------------------
(***************************************************************************)
(* The session of the Linux backend is sound for any threads, any calls    *)
(* and any documents: what the DLL says of its session is of this session, *)
(* a reply is read by the thread that asked, and the client implements     *)
(* SerialLink.                                                             *)
(*                                                                         *)
(* What carries all three is rt_lock: a thread between EnterCritical-      *)
(* Section and LeaveCriticalSection is its only holder (LockHeld), so at   *)
(* most one request is in the stream of a connection on which no receive   *)
(* has given up (Stream), and the flags disagree with the socket only      *)
(* while ECAT_Open is on its way (Flags).                                  *)
(***************************************************************************)
EXTENDS DllLinux, FiniteSetTheorems, TLAPS

Message == [type : {"status", "read_sdo", "write_sdo"}, n : Nat]
CoreRec == [lock : Threads \cup {NoThread}, socket : Nat, sequence : Nat, opened : BOOLEAN,
            running : BOOLEAN, host : {1, 2}]
StatusRec == [connected : BOOLEAN, conn : Nat, n : Nat]
CallRec == [op : OpNames \cup {"none"},
            pc : {"idle", "enter", "connect", "endpoint", "send", "receive", "disconnected"},
            n : Nat, ok : BOOLEAN]
NetRec == [up : BOOLEAN, host : {0, 1, 2}, requests : Seq(Message), replies : Seq(Message),
           framed : BOOLEAN, late : BOOLEAN]
UsedRec == [calls : Nat, timeouts : Nat, conns : Nat]

RtTypeOK ==
  /\ core \in CoreRec
  /\ status \in StatusRec
  /\ call \in [Threads -> CallRec]
  /\ net \in NetRec
  /\ used \in UsedRec

(* Between EnterCriticalSection and LeaveCriticalSection.                  *)
Inside(t) == call[t].pc \in {"connect", "endpoint", "send", "receive"}

LockHeld == \A t \in Threads : Inside(t) => core.lock = t

CallIsMade ==
  \A t \in Threads :
    /\ call[t].pc # "idle" => call[t].op \in Ops[t]
    /\ call[t].pc = "connect" => call[t].op = "open"
    /\ call[t].pc = "endpoint" => call[t].op = "endpoint"

(* ECAT_Open has a socket and no answer yet.                               *)
Opening == \E t \in Threads : call[t].op = "open" /\ call[t].pc \in {"send", "receive"}

Flags ==
  ~Opening =>
    /\ core.opened = (core.socket # 0) /\ core.running = core.opened
    /\ core.opened => status.conn = core.socket

UpHasSocket == net.up => core.socket # 0

(* The request of the call that is under way, or nothing, is in the stream. *)
Stream ==
  net.up /\ ~net.late =>
    /\ net.framed
    /\ (\A t \in Threads : call[t].pc # "receive") => net.requests = <<>> /\ net.replies = <<>>
    /\ \A t \in Threads : call[t].pc = "receive" =>
         LET r == [type |-> ReplyType(call[t].op), n |-> call[t].n]
         IN  \/ net.requests = <<r>> /\ net.replies = <<>>
             \/ net.requests = <<>> /\ net.replies = <<r>>

RtInv == RtTypeOK /\ LockHeld /\ CallIsMade /\ Flags /\ UpHasSocket /\ Stream

(* The thread that sets the endpoint is the one that opens.                *)
OpenerSetsEndpoint ==
  \A t, u \in Threads : "endpoint" \in Ops[t] /\ "open" \in Ops[u] => t = u

(* It stays closed from the check before rt_lock on.                       *)
EndpointInv ==
  /\ \A t \in Threads : call[t].op = "endpoint" /\ call[t].pc \in {"enter", "endpoint"} => ~core.opened
  /\ net.up => net.host = core.host
-----------------------------------------------------------------------------
(* The lock has one holder, and nobody is inside while it is free.         *)
LEMMA OneInside ==
  ASSUME LockHeld, NEW t \in Threads, Inside(t)
  PROVE  /\ core.lock = t /\ core.lock # NoThread
         /\ \A u \in Threads : u # t => ~Inside(u)
BY RtAssumption DEF LockHeld, Inside

(* A new connection, with nothing under way.                               *)
LEMMA ConnectionType ==
  ASSUME NEW h \in {0, 1, 2}
  PROVE  Connection(h) \in NetRec
<1>1. <<>> \in Seq(Message)
  OBVIOUS
<1> QED BY <1>1 DEF Connection, NetRec

(* The closed connection.                                                  *)
LEMMA ClosedType == Closed \in NetRec /\ ~Closed.up
BY ConnectionType DEF Closed, NetRec

(* The end of a call keeps the invariant: the flags follow the socket, and *)
(* what is left of the stream is empty unless a receive has given up.      *)
LEMMA LeaveInv ==
  ASSUME RtInv, NEW t \in Threads, Inside(t), NEW ok \in BOOLEAN, NEW st \in StatusRec,
         NEW c \in NetRec, Leave(t, ok, st, c), used' \in UsedRec,
         st = status \/ st.conn = core.socket,
         call[t].op = "open" /\ ok => core.socket # 0 /\ st.conn = core.socket,
         call[t].pc = "connect" => ~ok,
         c.up => net.up,
         c.up /\ ~c.late => c.framed /\ c.requests = <<>> /\ c.replies = <<>>
  PROVE  RtInv'
<1> DEFINE op == call[t].op
<1>1. /\ core.lock = t /\ core.lock # NoThread
      /\ \A u \in Threads : u # t => ~Inside(u)
  BY OneInside DEF RtInv
<1>2. RtTypeOK'
  <2> USE DEF RtInv, RtTypeOK, Leave
  <2>1. core' \in CoreRec
    BY DEF CoreAfter, CoreRec
  <2>2. net' \in NetRec
    BY ClosedType DEF NetAfter
  <2>3. status' \in StatusRec
    OBVIOUS
  <2>4. call' \in [Threads -> CallRec]
    <3>1. \A u \in Threads : call'[u] \in CallRec
      BY DEF CallRec
    <3> QED BY <3>1
  <2> QED BY <2>1, <2>2, <2>3, <2>4
<1>3. /\ call'[t].pc \in {"disconnected", "idle"} /\ call'[t].op = call[t].op
      /\ \A u \in Threads : u # t => call'[u] = call[u]
  BY DEF RtInv, RtTypeOK, Leave, CallRec
<1>4. \A u \in Threads : ~Inside(u)'
  BY <1>1, <1>3 DEF Inside
<1>5. LockHeld'
  BY <1>4 DEF LockHeld
<1>6. CallIsMade'
  BY <1>1, <1>3 DEF RtInv, CallIsMade, Inside
<1>7. Flags'
  <2>1. /\ core'.socket = IF DropsSocket(op, ok) THEN 0 ELSE core.socket
        /\ core'.opened = IF op = "open" /\ ok THEN TRUE
                          ELSE IF DropsSocket(op, ok) THEN FALSE ELSE core.opened
        /\ core'.running = IF op = "open" /\ ok THEN TRUE
                           ELSE IF DropsSocket(op, ok) THEN FALSE ELSE core.running
        /\ status' = st
    BY DEF RtInv, RtTypeOK, Leave, CoreAfter, CoreRec
  <2>2. CASE DropsSocket(op, ok)
    BY <2>1, <2>2 DEF Flags, DropsSocket
  <2>3. CASE op = "open" /\ ok
    BY <2>1, <2>3 DEF Flags, DropsSocket
  <2>4. CASE ~DropsSocket(op, ok) /\ ~(op = "open" /\ ok)
    <3>1. op # "open"
      BY <2>4 DEF DropsSocket
    <3>2. ~Opening
      BY <1>1, <3>1 DEF Opening, Inside
    <3> QED BY <2>1, <2>4, <3>2 DEF Flags, RtInv
  <2> QED BY <2>2, <2>3, <2>4
<1>8. UpHasSocket'
  BY ClosedType DEF RtInv, RtTypeOK, CoreRec, UpHasSocket, Leave, CoreAfter, NetAfter
<1>9. Stream'
  <2>1. net' = Closed \/ net' = c
    BY DEF Leave, NetAfter
  <2> QED BY <1>4, <2>1, ClosedType DEF Stream, Inside
<1> QED BY <1>2, <1>5, <1>6, <1>7, <1>8, <1>9 DEF RtInv

-----------------------------------------------------------------------------
(* One lemma for each step of a call.                                      *)
LEMMA StartInv ==
  ASSUME RtInv, NEW t \in Threads, NEW op \in Ops[t], Start(t, op)
  PROVE  RtInv'
<1>1. op \in OpNames
  BY RtAssumption
<1>2. /\ call'[t] = [op |-> op, pc |-> "enter", n |-> 0, ok |-> TRUE]
      /\ \A u \in Threads : u # t => call'[u] = call[u]
      /\ ~Inside(t)
  BY DEF RtInv, RtTypeOK, CallRec, Start, Inside
<1>3. RtTypeOK'
  <2>1. call' \in [Threads -> CallRec]
    BY <1>1 DEF RtInv, RtTypeOK, CallRec, Start
  <2>2. used' \in UsedRec
    BY DEF RtInv, RtTypeOK, UsedRec, Start
  <2> QED BY <2>1, <2>2 DEF RtInv, RtTypeOK, Start
<1>4. LockHeld' /\ CallIsMade'
  BY <1>2 DEF RtInv, LockHeld, CallIsMade, Inside, Start
<1>5. Flags'
  BY <1>2 DEF RtInv, Flags, Opening, Inside, Start
<1>6. UpHasSocket' /\ Stream'
  BY <1>2 DEF RtInv, UpHasSocket, Stream, Inside, Start
<1> QED BY <1>3, <1>4, <1>5, <1>6 DEF RtInv

(* A call takes the client's lock.                                         *)
LEMMA EnterInv ==
  ASSUME RtInv, NEW t \in Threads, Enter(t)
  PROVE  RtInv'
<1>1. /\ call'[t].pc \in {"connect", "endpoint", "send"} /\ call'[t].op = call[t].op
      /\ call'[t].pc = "connect" <=> call[t].op = "open"
      /\ call'[t].pc = "endpoint" <=> call[t].op = "endpoint"
      /\ \A u \in Threads : u # t => call'[u] = call[u]
      /\ \A u \in Threads : ~Inside(u)
      /\ core'.lock = t /\ core'.opened = core.opened /\ core'.socket = core.socket
      /\ core'.running = core.running
  BY RtAssumption DEF RtInv, RtTypeOK, CallRec, CoreRec, Enter, Inside, LockHeld
<1>2. RtTypeOK'
  <2>1. call' \in [Threads -> CallRec]
    BY DEF RtInv, RtTypeOK, CallRec, Enter
  <2>2. core' \in CoreRec
    BY DEF RtInv, RtTypeOK, CoreRec, Enter
  <2> QED BY <2>1, <2>2 DEF RtInv, RtTypeOK, Enter
<1>3. LockHeld' /\ CallIsMade'
  BY <1>1 DEF RtInv, LockHeld, CallIsMade, Inside, Enter
<1>4. Flags'
  <2>1. ~Opening
    BY <1>1 DEF Opening, Inside
  <2> QED BY <1>1, <2>1 DEF RtInv, Flags, Enter
<1>5. UpHasSocket' /\ Stream'
  BY <1>1 DEF RtInv, UpHasSocket, Stream, Inside, Enter
<1> QED BY <1>2, <1>3, <1>4, <1>5 DEF RtInv

(* ECAT_SetLinuxRtEndpoint notes the address.                              *)
LEMMA SetEndpointInv ==
  ASSUME RtInv, NEW t \in Threads, SetEndpoint(t)
  PROVE  RtInv'
<1>1. /\ call'[t].pc = "idle" /\ call'[t].op = call[t].op /\ call[t].op = "endpoint"
      /\ \A u \in Threads : u # t => call'[u] = call[u]
      /\ \A u \in Threads : u # t => ~Inside(u)
      /\ core'.opened = core.opened /\ core'.socket = core.socket /\ core'.running = core.running
  BY OneInside DEF RtInv, RtTypeOK, CallRec, CoreRec, SetEndpoint, Inside, CallIsMade
<1>2. RtTypeOK'
  <2>1. call' \in [Threads -> CallRec]
    BY DEF RtInv, RtTypeOK, CallRec, SetEndpoint
  <2>2. core' \in CoreRec
    <3>1. 3 - core.host \in {1, 2}
      BY DEF RtInv, RtTypeOK, CoreRec
    <3> QED BY <3>1 DEF RtInv, RtTypeOK, CoreRec, SetEndpoint
  <2> QED BY <2>1, <2>2 DEF RtInv, RtTypeOK, SetEndpoint
<1>3. LockHeld' /\ CallIsMade'
  BY <1>1 DEF RtInv, LockHeld, CallIsMade, Inside, SetEndpoint
<1>4. Flags'
  <2>1. ~Opening
    BY <1>1 DEF Opening, Inside
  <2> QED BY <1>1, <2>1 DEF RtInv, Flags, SetEndpoint
<1>5. UpHasSocket' /\ Stream'
  BY <1>1 DEF RtInv, UpHasSocket, Stream, Inside, SetEndpoint
<1> QED BY <1>2, <1>3, <1>4, <1>5 DEF RtInv

(* The opener gets a new connection.                                       *)
LEMMA ConnectInv ==
  ASSUME RtInv, NEW t \in Threads, Connect(t)
  PROVE  RtInv'
<1>1. /\ call'[t].pc = "send" /\ call'[t].op = "open"
      /\ \A u \in Threads : u # t => call'[u] = call[u] /\ ~Inside(u)
      /\ core.lock = t /\ core'.lock = t /\ core'.socket # 0
  BY OneInside DEF RtInv, RtTypeOK, CallRec, CoreRec, UsedRec, Connect, Inside, CallIsMade
<1>2. RtTypeOK'
  <2>1. call' \in [Threads -> CallRec]
    BY DEF RtInv, RtTypeOK, CallRec, Connect
  <2>2. core' \in CoreRec /\ used' \in UsedRec
    BY DEF RtInv, RtTypeOK, CoreRec, UsedRec, Connect
  <2>3. net' \in NetRec
    BY ConnectionType DEF RtInv, RtTypeOK, CoreRec, Connect
  <2> QED BY <2>1, <2>2, <2>3 DEF RtInv, RtTypeOK, Connect
<1>3. LockHeld' /\ CallIsMade'
  BY <1>1 DEF RtInv, LockHeld, CallIsMade, Inside, Connect
<1>4. Flags'
  BY <1>1 DEF Flags, Opening
<1>5. UpHasSocket' /\ Stream'
  BY <1>1 DEF RtInv, UpHasSocket, Stream, Inside, Connect, Connection
<1> QED BY <1>2, <1>3, <1>4, <1>5 DEF RtInv

(* The request is sent, under the next sequence number.                    *)
LEMMA SendInv ==
  ASSUME RtInv, NEW t \in Threads, Send(t)
  PROVE  RtInv'
<1> DEFINE r == Request(t)
<1>1. /\ call'[t].pc = "receive" /\ call'[t].op = call[t].op /\ call'[t].n = core.sequence + 1
      /\ \A u \in Threads : u # t => call'[u] = call[u] /\ ~Inside(u)
      /\ core.lock = t /\ core'.lock = t
      /\ core'.opened = core.opened /\ core'.socket = core.socket /\ core'.running = core.running
  BY OneInside DEF RtInv, RtTypeOK, CallRec, CoreRec, Send, Inside
<1>2. r \in Message /\ r = [type |-> ReplyType(call'[t].op), n |-> call'[t].n]
  BY <1>1 DEF RtInv, RtTypeOK, CoreRec, Request, Message, ReplyType
<1>3. RtTypeOK'
  <2>1. call' \in [Threads -> CallRec]
    <3>1. core.sequence + 1 \in Nat
      BY DEF RtInv, RtTypeOK, CoreRec
    <3>2. \A u \in Threads : call'[u] \in CallRec
      BY <3>1 DEF RtInv, RtTypeOK, CallRec, Send
    <3> QED BY <3>2 DEF RtInv, RtTypeOK, Send
  <2>2. core' \in CoreRec
    BY DEF RtInv, RtTypeOK, CoreRec, Send
  <2>3. net' \in NetRec
    <3> HIDE DEF r
    <3>1. Append(net.requests, r) \in Seq(Message)
      BY <1>2 DEF RtInv, RtTypeOK, NetRec
    <3>2. net' = [net EXCEPT !.requests = Append(net.requests, r)]
      BY DEF Send, r
    <3> QED BY <3>1, <3>2 DEF RtInv, RtTypeOK, NetRec
  <2> QED BY <2>1, <2>2, <2>3 DEF RtInv, RtTypeOK, Send
<1>4. LockHeld' /\ CallIsMade'
  BY <1>1, ZenonT(60) DEF RtInv, LockHeld, CallIsMade, Inside, Send
<1>5. Flags'
  <2>1. ASSUME NEW u \in Threads, call[u].op = "open", call[u].pc \in {"send", "receive"}
        PROVE  Opening'
    <3>1. u = t
      BY <1>1, <2>1 DEF Inside
    <3> QED BY <1>1, <2>1, <3>1 DEF Opening
  <2> QED BY <1>1, <2>1 DEF RtInv, Flags, Opening, Send
<1>6. UpHasSocket'
  BY <1>1 DEF RtInv, RtTypeOK, NetRec, UpHasSocket, Send
<1>7. Stream'
  <2> HIDE DEF r
  <2>1. /\ net'.up = net.up /\ net'.late = net.late /\ net'.framed = net.framed
        /\ net'.replies = net.replies /\ net'.requests = Append(net.requests, r)
    BY DEF RtInv, RtTypeOK, NetRec, Send, r
  <2>2. \A u \in Threads : call[u].pc # "receive"
    BY <1>1 DEF Send, Inside
  <2>3. ASSUME net'.up, ~net'.late
        PROVE  net'.framed /\ net'.requests = <<r>> /\ net'.replies = <<>>
    <3>1. net.requests = <<>> /\ net.replies = <<>> /\ net.framed
      BY <2>1, <2>2, <2>3 DEF RtInv, Stream
    <3>2. Append(<<>>, r) = <<r>>
      BY <1>2
    <3> QED BY <2>1, <3>1, <3>2
  <2> QED BY <1>1, <1>2, <2>3 DEF Stream, Inside
<1> QED BY <1>3, <1>4, <1>5, <1>6, <1>7 DEF RtInv

(* There is no connection: the call leaves with the client closed.         *)
LEMMA ConnectFailsInv ==
  ASSUME RtInv, NEW t \in Threads, ConnectFails(t)
  PROVE  RtInv'
<1>1. used' \in UsedRec
  BY DEF RtInv, RtTypeOK, UsedRec, ConnectFails
<1>2. Leave(t, FALSE, status, Closed) /\ Inside(t) /\ status \in StatusRec
  BY DEF ConnectFails, Inside, RtInv, RtTypeOK
<1> QED BY <1>1, <1>2, ClosedType, LeaveInv

(* The request cannot be sent: the call leaves.                            *)
LEMMA SendFailsInv ==
  ASSUME RtInv, NEW t \in Threads, SendFails(t)
  PROVE  RtInv'
<1>1. /\ Leave(t, FALSE, status, net) /\ Inside(t) /\ call[t].pc = "send" /\ ~net.up
      /\ used' = used
  BY DEF SendFails, Inside, RtInv, UpHasSocket
<1>2. status \in StatusRec /\ net \in NetRec /\ used \in UsedRec
  BY DEF RtInv, RtTypeOK
<1> QED BY <1>1, <1>2, LeaveInv

(* The stream that a thread reads from holds the reply to its request.     *)
LEMMA ReadsOwn ==
  ASSUME RtInv, NEW t \in Threads, call[t].pc = "receive", net.up, ~net.late
  PROVE  /\ net.framed
         /\ net.replies # <<>> =>
              /\ net.requests = <<>>
              /\ Tail(net.replies) = <<>>
              /\ Head(net.replies) = [type |-> ReplyType(call[t].op), n |-> call[t].n]
<1> DEFINE r == [type |-> ReplyType(call[t].op), n |-> call[t].n]
<1>1. /\ net.framed
      /\ net.replies # <<>> => net.requests = <<>> /\ net.replies = <<r>>
  BY DEF RtInv, Stream
<1>2. Tail(<<r>>) = <<>> /\ Head(<<r>>) = r
  OBVIOUS
<1> QED BY <1>1, <1>2

(* A reply is read: it is the one the request is waiting for, or the call  *)
(* fails.                                                                  *)
LEMMA ReceiveInv ==
  ASSUME RtInv, NEW t \in Threads, Receive(t)
  PROVE  RtInv'
<1> DEFINE r == Head(net.replies)
           ok == r.type = ReplyType(call[t].op)
           rest == [net EXCEPT !.replies = Tail(net.replies),
                               !.framed = ~(ReplyType(call[t].op) # "status" /\ r.type = "status")]
           st == IF ok /\ r.type = "status"
                 THEN [connected |-> TRUE, conn |-> core.socket, n |-> r.n] ELSE status
<1>1. /\ Leave(t, ok, st, rest) /\ used' = used /\ Inside(t) /\ call[t].pc = "receive"
      /\ net.up /\ net.replies # <<>>
  BY DEF Receive, Inside
<1>2. r \in Message /\ Tail(net.replies) \in Seq(Message)
  BY <1>1 DEF RtInv, RtTypeOK, NetRec
<1>3. rest \in NetRec
  <2> HIDE DEF r
  <2> QED BY <1>2 DEF RtInv, RtTypeOK, NetRec
<1>4. st \in StatusRec
  BY <1>2 DEF RtInv, RtTypeOK, StatusRec, CoreRec, Message
<1>5. st = status \/ st.conn = core.socket
  OBVIOUS
<1>6. call[t].op = "open" /\ ok => core.socket # 0 /\ st.conn = core.socket
  BY <1>1 DEF RtInv, UpHasSocket, ReplyType
<1>7. rest.up = net.up /\ rest.late = net.late /\ rest.requests = net.requests
      /\ rest.replies = Tail(net.replies)
      /\ rest.framed = ~(ReplyType(call[t].op) # "status" /\ r.type = "status")
  BY DEF RtInv, RtTypeOK, NetRec
<1>8. rest.up /\ ~rest.late => rest.framed /\ rest.requests = <<>> /\ rest.replies = <<>>
  <2> SUFFICES ASSUME net.up, ~net.late PROVE rest.framed /\ rest.requests = <<>> /\ rest.replies = <<>>
    BY <1>7
  <2>1. /\ net.requests = <<>> /\ Tail(net.replies) = <<>>
        /\ r = [type |-> ReplyType(call[t].op), n |-> call[t].n]
    BY <1>1, ReadsOwn
  <2>2. r.type = ReplyType(call[t].op)
    BY <2>1
  <2> HIDE DEF r, rest
  <2> QED BY <1>7, <2>1, <2>2
<1>9. used' \in UsedRec
  BY <1>1 DEF RtInv, RtTypeOK
<1>10. ok \in BOOLEAN
  OBVIOUS
<1> HIDE DEF r, ok, rest, st
<1> QED BY <1>1, <1>3, <1>4, <1>5, <1>6, <1>7, <1>8, <1>9, <1>10, LeaveInv

(* The reply is late; it stays in the stream.                              *)
LEMMA ReceiveTimesOutInv ==
  ASSUME RtInv, NEW t \in Threads, ReceiveTimesOut(t)
  PROVE  RtInv'
<1>1. used' \in UsedRec
  BY DEF RtInv, RtTypeOK, UsedRec, ReceiveTimesOut
<1>2. \/ Leave(t, FALSE, status, [net EXCEPT !.late = TRUE])
      \/ Leave(t, FALSE, status, [net EXCEPT !.late = TRUE, !.framed = FALSE])
  BY DEF ReceiveTimesOut
<1>3. \A c \in {[net EXCEPT !.late = TRUE], [net EXCEPT !.late = TRUE, !.framed = FALSE]} :
        c \in NetRec /\ c.up = net.up /\ c.late
  BY DEF RtInv, RtTypeOK, NetRec
<1>4. Inside(t) /\ status \in StatusRec
  BY DEF ReceiveTimesOut, Inside, RtInv, RtTypeOK
<1> QED BY <1>1, <1>2, <1>3, <1>4, LeaveInv

(* The stream has ended or is not framed any more: the call leaves.        *)
LEMMA ReceiveFailsInv ==
  ASSUME RtInv, NEW t \in Threads, ReceiveFails(t)
  PROVE  RtInv'
<1>1. Leave(t, FALSE, status, net) /\ Inside(t) /\ call[t].pc = "receive" /\ used' = used
  BY DEF ReceiveFails, Inside
<1>2. ~(net.up /\ ~net.late)
  BY ReadsOwn DEF ReceiveFails
<1>3. status \in StatusRec /\ net \in NetRec /\ used \in UsedRec
  BY DEF RtInv, RtTypeOK
<1> QED BY <1>1, <1>2, <1>3, LeaveInv

(* The last lines of rt_close_backend.                                     *)
LEMMA DisconnectedInv ==
  ASSUME RtInv, NEW t \in Threads, Disconnected(t)
  PROVE  RtInv'
<1>1. /\ call'[t].pc = "idle" /\ call'[t].op = call[t].op /\ ~Inside(t)
      /\ \A u \in Threads : u # t => call'[u] = call[u]
      /\ status'.conn = status.conn
  BY DEF RtInv, RtTypeOK, CallRec, StatusRec, Disconnected, Inside
<1>2. RtTypeOK'
  <2>1. call' \in [Threads -> CallRec]
    BY DEF RtInv, RtTypeOK, CallRec, Disconnected
  <2>2. status' \in StatusRec
    BY DEF RtInv, RtTypeOK, StatusRec, Disconnected
  <2> QED BY <2>1, <2>2 DEF RtInv, RtTypeOK, Disconnected
<1>3. LockHeld' /\ CallIsMade'
  BY <1>1 DEF RtInv, LockHeld, CallIsMade, Inside, Disconnected
<1>4. Flags'
  BY <1>1 DEF RtInv, Flags, Opening, Inside, Disconnected
<1>5. UpHasSocket' /\ Stream'
  BY <1>1 DEF RtInv, UpHasSocket, Stream, Inside, Disconnected
<1> QED BY <1>2, <1>3, <1>4, <1>5 DEF RtInv

(* The server moves a request to the replies, in order, or goes.           *)
LEMMA ServerInv ==
  ASSUME RtInv, ServerReplies \/ ServerGoes
  PROVE  RtInv'
<1>1. CASE ServerReplies
  <2>1. Head(net.requests) \in Message /\ Tail(net.requests) \in Seq(Message)
    BY <1>1 DEF RtInv, RtTypeOK, NetRec, ServerReplies
  <2>2. Append(net.replies, Head(net.requests)) \in Seq(Message)
    BY <2>1 DEF RtInv, RtTypeOK, NetRec
  <2>3. net' \in NetRec
    BY <1>1, <2>1, <2>2 DEF RtInv, RtTypeOK, NetRec, ServerReplies
  <2>4. /\ net'.up = net.up /\ net'.late = net.late /\ net'.framed = net.framed
        /\ net'.requests = Tail(net.requests)
        /\ net'.replies = Append(net.replies, Head(net.requests))
    BY <1>1 DEF RtInv, RtTypeOK, NetRec, ServerReplies
  <2>5. Stream'
    <3> SUFFICES ASSUME net.up, ~net.late PROVE Stream'
      BY <2>4 DEF Stream
    <3>1. net.requests # <<>>
      BY <1>1 DEF ServerReplies
    <3>2. PICK t \in Threads : call[t].pc = "receive"
      BY <3>1 DEF RtInv, Stream
    <3> DEFINE r == [type |-> ReplyType(call[t].op), n |-> call[t].n]
    <3>3. net.requests = <<r>> /\ net.replies = <<>> /\ net.framed
      BY <3>1, <3>2 DEF RtInv, Stream
    <3>4. Tail(<<r>>) = <<>> /\ Append(<<>>, Head(<<r>>)) = <<r>>
      OBVIOUS
    <3>5. net'.requests = <<>> /\ net'.replies = <<r>>
      BY <2>4, <3>3, <3>4
    <3>6. \A u \in Threads : call[u].pc = "receive" => u = t
      BY <3>2 DEF RtInv, LockHeld, Inside
    <3> QED BY <1>1, <2>4, <3>2, <3>3, <3>5, <3>6 DEF Stream, ServerReplies
  <2> QED BY <1>1, <2>3, <2>4, <2>5 DEF RtInv, RtTypeOK, LockHeld, CallIsMade, Inside, Flags, Opening,
             UpHasSocket, ServerReplies
<1>2. CASE ServerGoes
  <2>1. used' \in UsedRec
    BY <1>2 DEF RtInv, RtTypeOK, UsedRec, ServerGoes
  <2> QED BY <1>2, <2>1, ClosedType DEF RtInv, RtTypeOK, LockHeld, CallIsMade, Inside, Flags, Opening,
             UpHasSocket, Stream, ServerGoes
<1> QED BY <1>1, <1>2

(* The invariant holds of a process that has just started, also after a    *)
(* crash, whatever has been used up.                                       *)
Fresh ==
  /\ core = NewCore /\ status = NewStatus
  /\ call = [t \in Threads |-> Quiet] /\ net = Closed

(* A client that was just created is sound.                                *)
LEMMA FreshInv ==
  ASSUME Fresh, used \in UsedRec
  PROVE  RtInv
<1>1. RtTypeOK
  BY ClosedType DEF Fresh, Quiet, NewCore, NewStatus, RtTypeOK, CoreRec, StatusRec, CallRec
<1> QED BY <1>1, ClosedType DEF Fresh, Quiet, NewCore, NewStatus, RtInv, LockHeld, CallIsMade, Inside, Flags,
           Opening, UpHasSocket, Stream

(* Every step of the client and of the database keeps the invariant.       *)
LEMMA RtStep ==
  ASSUME RtInv, [Next]_vars
  PROVE  RtInv'
<1>1. ASSUME NEW t \in Threads, NEW op \in Ops[t], Start(t, op) PROVE RtInv'
  BY <1>1, StartInv
<1>2. ASSUME NEW t \in Threads, Calls(t) PROVE RtInv'
  BY <1>2, EnterInv, SetEndpointInv, ConnectInv, ConnectFailsInv, SendInv, SendFailsInv, ReceiveInv,
     ReceiveTimesOutInv, ReceiveFailsInv, DisconnectedInv DEF Calls
<1>3. CASE ClientStep
  BY <1>1, <1>2, <1>3, ServerInv DEF ClientStep, RtNext
<1>4. CASE DatabaseStep
  <2>1. used' \in UsedRec
    <3>1. used' \in {used, [used EXCEPT !.calls = @ + 1]}
      BY <1>4 DEF DatabaseStep
    <3> QED BY <3>1 DEF RtInv, RtTypeOK, UsedRec
  <2>2. CASE Fresh'
    <3>1. RtTypeOK'
      BY <2>1, <2>2, ClosedType DEF Fresh, Quiet, NewCore, NewStatus, RtTypeOK, CoreRec, StatusRec, CallRec
    <3> QED BY <2>2, <3>1, ClosedType DEF Fresh, Quiet, NewCore, NewStatus, RtInv, LockHeld, CallIsMade,
               Inside, Flags, Opening, UpHasSocket, Stream
  <2>3. CASE UNCHANGED <<core, status, call, net>>
    BY <2>1, <2>3 DEF RtInv, RtTypeOK, LockHeld, CallIsMade, Inside, Flags, Opening, UpHasSocket, Stream
  <2> QED BY <1>4, <2>2, <2>3 DEF DatabaseStep, Fresh
<1>5. CASE UNCHANGED vars
  BY <1>5 DEF vars, rtvars, RtInv, RtTypeOK, LockHeld, CallIsMade, Inside, Flags, Opening, UpHasSocket, Stream
<1> QED BY <1>3, <1>4, <1>5 DEF Next

(* The invariant holds at first.                                           *)
LEMMA RtInitInv == Init => RtInv
<1> SUFFICES ASSUME Init PROVE RtInv
  OBVIOUS
<1>1. used \in UsedRec /\ Fresh
  BY DEF Init, RtInit, UsedRec, Fresh
<1> QED BY <1>1, FreshInv

-----------------------------------------------------------------------------
(* An open session keeps its endpoint, when no other thread than the one   *)
(* that opens changes it.                                                  *)
LEMMA LeaveEndpoint ==
  ASSUME RtInv, EndpointInv, OpenerSetsEndpoint, NEW t \in Threads, Inside(t),
         NEW ok \in BOOLEAN, NEW st, NEW c \in NetRec, Leave(t, ok, st, c),
         c.up => net.up /\ c.host = net.host
  PROVE  EndpointInv'
<1>1. /\ call'[t].pc \in {"disconnected", "idle"}
      /\ \A u \in Threads : u # t => call'[u] = call[u]
  BY DEF RtInv, RtTypeOK, Leave, CallRec
<1>2. /\ core'.host = core.host
      /\ core'.opened => core.opened \/ call[t].op = "open"
  BY DEF RtInv, RtTypeOK, Leave, CoreAfter, CoreRec
<1>3. ASSUME NEW u \in Threads, call'[u].op = "endpoint", call'[u].pc \in {"enter", "endpoint"}
      PROVE  ~core'.opened
  <2>1. u # t /\ call'[u] = call[u]
    BY <1>1, <1>3
  <2>2. "endpoint" \in Ops[u] /\ ~core.opened
    BY <1>3, <2>1 DEF RtInv, CallIsMade, EndpointInv
  <2>3. call[t].op \in Ops[t]
    BY DEF RtInv, CallIsMade, Inside
  <2> QED BY <1>2, <2>1, <2>2, <2>3 DEF OpenerSetsEndpoint
<1>4. net'.up => net'.host = core'.host
  <2>1. net' = Closed \/ net' = c
    BY DEF Leave, NetAfter
  <2> QED BY <1>2, <2>1, ClosedType DEF EndpointInv
<1> QED BY <1>3, <1>4 DEF EndpointInv

(* A step of a call keeps the invariant of the endpoint ...                *)
LEMMA CallEndpoint ==
  ASSUME RtInv, EndpointInv, OpenerSetsEndpoint, NEW t \in Threads, Calls(t)
  PROVE  EndpointInv'
<1>1. CASE Enter(t)
  <2>1. /\ \A u \in Threads : call'[u].op = call[u].op
        /\ \A u \in Threads : call'[u].pc \in {"enter", "endpoint"} /\ call'[u].op = "endpoint" =>
             call[u].pc \in {"enter", "endpoint"}
        /\ core'.opened = core.opened /\ core'.host = core.host /\ net' = net
    BY <1>1 DEF RtInv, RtTypeOK, CallRec, CoreRec, Enter
  <2> QED BY <2>1 DEF EndpointInv
<1>2. CASE SetEndpoint(t)
  <2>1. ~core.opened
    BY <1>2 DEF EndpointInv, SetEndpoint, RtInv, CallIsMade
  <2>2. ~Opening
    BY <1>2, OneInside DEF RtInv, Opening, Inside, SetEndpoint, CallIsMade
  <2>3. ~net.up
    BY <2>1, <2>2 DEF RtInv, Flags, UpHasSocket
  <2>4. core'.opened = core.opened /\ net' = net
    BY <1>2 DEF SetEndpoint, RtInv, RtTypeOK, CoreRec
  <2> QED BY <2>1, <2>3, <2>4 DEF EndpointInv
<1>3. CASE Connect(t)
  <2>1. /\ call'[t].pc = "send" /\ \A u \in Threads : u # t => call'[u] = call[u]
        /\ core'.opened = core.opened /\ core'.host = core.host /\ net'.host = core.host
    BY <1>3 DEF RtInv, RtTypeOK, CallRec, CoreRec, Connect, Connection
  <2> QED BY <2>1 DEF EndpointInv
<1>4. CASE Send(t)
  <2>1. /\ call'[t].pc = "receive" /\ \A u \in Threads : u # t => call'[u] = call[u]
        /\ core'.opened = core.opened /\ core'.host = core.host /\ net'.host = net.host
        /\ net'.up = net.up
    BY <1>4 DEF RtInv, RtTypeOK, CallRec, CoreRec, NetRec, Send
  <2> QED BY <2>1 DEF EndpointInv
<1>5. CASE ConnectFails(t)
  BY <1>5, LeaveEndpoint, ClosedType DEF ConnectFails, Inside
<1>6. CASE SendFails(t)
  BY <1>6, LeaveEndpoint DEF SendFails, Inside, RtInv, RtTypeOK
<1>7. CASE Receive(t)
  <2> DEFINE rest == [net EXCEPT !.replies = Tail(net.replies),
                        !.framed = ~(ReplyType(call[t].op) # "status" /\ Head(net.replies).type = "status")]
  <2>1. PICK ok \in BOOLEAN, st \in {status, [connected |-> TRUE, conn |-> core.socket,
                                             n |-> Head(net.replies).n]} : Leave(t, ok, st, rest)
    BY <1>7 DEF Receive
  <2>2. Tail(net.replies) \in Seq(Message)
    BY <1>7 DEF Receive, RtInv, RtTypeOK, NetRec
  <2>3. rest \in NetRec /\ rest.up = net.up /\ rest.host = net.host
    BY <2>2 DEF RtInv, RtTypeOK, NetRec
  <2>4. Inside(t)
    BY <1>7 DEF Receive, Inside
  <2> HIDE DEF rest
  <2> QED BY <2>1, <2>3, <2>4, LeaveEndpoint
<1>8. CASE ReceiveTimesOut(t)
  <2>1. \/ Leave(t, FALSE, status, [net EXCEPT !.late = TRUE])
        \/ Leave(t, FALSE, status, [net EXCEPT !.late = TRUE, !.framed = FALSE])
    BY <1>8 DEF ReceiveTimesOut
  <2>2. \A c \in {[net EXCEPT !.late = TRUE], [net EXCEPT !.late = TRUE, !.framed = FALSE]} :
          c \in NetRec /\ c.up = net.up /\ c.host = net.host
    BY DEF RtInv, RtTypeOK, NetRec
  <2>3. Inside(t)
    BY <1>8 DEF ReceiveTimesOut, Inside
  <2> QED BY <2>1, <2>2, <2>3, LeaveEndpoint
<1>9. CASE ReceiveFails(t)
  BY <1>9, LeaveEndpoint DEF ReceiveFails, Inside, RtInv, RtTypeOK
<1>10. CASE Disconnected(t)
  <2>1. call'[t].pc = "idle" /\ \A u \in Threads : u # t => call'[u] = call[u]
    BY <1>10 DEF RtInv, RtTypeOK, CallRec, Disconnected
  <2> QED BY <1>10, <2>1 DEF EndpointInv, Disconnected
<1> QED BY <1>1, <1>2, <1>3, <1>4, <1>5, <1>6, <1>7, <1>8, <1>9, <1>10 DEF Calls

(* ... and so does every other step.                                       *)
LEMMA EndpointStep ==
  ASSUME RtInv, EndpointInv, OpenerSetsEndpoint, [Next]_vars
  PROVE  EndpointInv'
<1>1. ASSUME NEW t \in Threads, NEW op \in Ops[t], Start(t, op) PROVE EndpointInv'
  <2>1. /\ call'[t].op = op /\ \A u \in Threads : u # t => call'[u] = call[u]
        /\ op = "endpoint" => ~core.opened
        /\ core' = core /\ net' = net
    BY <1>1 DEF RtInv, RtTypeOK, CallRec, Start
  <2> QED BY <2>1 DEF EndpointInv
<1>2. CASE ServerReplies \/ ServerGoes
  <2>1. net'.up => net.up /\ net'.host = net.host
    BY <1>2, ClosedType DEF ServerReplies, ServerGoes, RtInv, RtTypeOK, NetRec
  <2> QED BY <1>2, <2>1 DEF EndpointInv, ServerReplies, ServerGoes
<1>3. CASE ClientStep
  BY <1>1, <1>2, <1>3, CallEndpoint DEF ClientStep, RtNext
<1>4. CASE DatabaseStep
  <2>1. Fresh' \/ UNCHANGED <<core, call, net>>
    BY <1>4 DEF DatabaseStep, Fresh
  <2> QED BY <2>1, ClosedType DEF EndpointInv, Fresh, Quiet
<1>5. CASE UNCHANGED vars
  BY <1>5 DEF vars, rtvars, EndpointInv
<1> QED BY <1>3, <1>4, <1>5 DEF Next

(***************************************************************************)
(* SessionIsOwn: whenever rt_lock is free, the flags, the socket, the      *)
(* endpoint and the status that the DLL reports are of one and the same    *)
(* session, for any number of threads, calls, timeouts and crashes.  Only  *)
(* the endpoint needs the hypothesis: ECAT_SetLinuxRtEndpoint looks at     *)
(* opened before it enters rt_lock.                                        *)
(***************************************************************************)
THEOREM SessionsAreOwn ==
  ASSUME OpenerSetsEndpoint
  PROVE  Spec => []SessionIsOwn
<1>1. Init => RtInv /\ EndpointInv
  <2> SUFFICES ASSUME Init PROVE EndpointInv
    BY RtInitInv
  <2>1. \A t \in Threads : call[t].pc = "idle"
    BY DEF Init, RtInit, Quiet
  <2>2. ~net.up
    BY ClosedType DEF Init, RtInit
  <2> QED BY <2>1, <2>2 DEF EndpointInv
<1>2. RtInv /\ EndpointInv /\ [Next]_vars => (RtInv /\ EndpointInv)'
  BY RtStep, EndpointStep
<1>3. RtInv /\ EndpointInv => SessionIsOwn
  <2> SUFFICES ASSUME RtInv, EndpointInv, core.lock = NoThread
               PROVE  /\ core.opened = (core.socket # 0) /\ core.running = core.opened
                      /\ core.opened => status.conn = core.socket
                      /\ net.up => net.host = core.host
    BY DEF SessionIsOwn, OpenHasSocket, EndpointOfSession, StatusOfThisSession
  <2>1. ~Opening
    BY OneInside DEF Opening, Inside, RtInv
  <2> QED BY <2>1 DEF RtInv, Flags, EndpointInv
<1> QED BY <1>1, <1>2, <1>3, PTL DEF Spec

(***************************************************************************)
(* ReplyIsOwn: on a connection on which no receive has given up, the reply *)
(* that a thread takes from the stream is the one to its own request, for  *)
(* any number of threads: their requests do not mix under rt_lock.         *)
(***************************************************************************)
THEOREM RepliesAreOwn == Spec => ReplyIsOwn
<1>1. RtInv =>
        (\A t \in Threads :
           call[t].pc = "receive" /\ net.up /\ net.framed /\ ~net.late
             /\ net.replies # <<>> /\ net'.replies = Tail(net.replies)
           => Head(net.replies).n = call[t].n)
  <2> SUFFICES ASSUME RtInv, NEW t \in Threads, call[t].pc = "receive", net.up, ~net.late,
                      net.replies # <<>>
               PROVE  Head(net.replies).n = call[t].n
    OBVIOUS
  <2>1. Head(net.replies) = [type |-> ReplyType(call[t].op), n |-> call[t].n]
    BY ReadsOwn
  <2> QED BY <2>1
<1>2. RtInv /\ [Next]_vars => RtInv'
  BY RtStep
<1> QED BY <1>1, <1>2, RtInitInv, PTL DEF Spec, ReplyIsOwn, vars, rtvars

-----------------------------------------------------------------------------
(* What SerialLink sees of a thread that waits for its reply, and of none. *)
LEMMA SeesOne ==
  ASSUME NEW c \in [Threads -> CallRec], NEW o \in BOOLEAN, NEW t \in Threads,
         \A u \in Threads : c[u].pc = "receive" <=> u = t
  PROVE  /\ ActiveOf(c) = t
         /\ SessionOf(o, c) = IF o THEN "open" ELSE IF c[t].op = "open" THEN "opening" ELSE "closed"
<1>1. Outstanding(c) = {t}
  BY DEF Outstanding
<1>2. Cardinality({t}) = 1
  BY FS_Singleton
<1>3. ActiveOf(c) = t
  BY <1>1, <1>2 DEF ActiveOf
<1> QED BY <1>1, <1>3 DEF SessionOf

(* With no request under way the abstract link is idle.                    *)
LEMMA SeesNone ==
  ASSUME NEW c \in [Threads -> CallRec], NEW o \in BOOLEAN,
         \A u \in Threads : c[u].pc # "receive"
  PROVE  /\ ActiveOf(c) = NoThread
         /\ SessionOf(o, c) = IF o THEN "open" ELSE "closed"
<1>1. Outstanding(c) = {}
  BY DEF Outstanding
<1> QED BY <1>1 DEF ActiveOf, SessionOf

(* A step that neither sends, receives nor opens is a stutter of the link. *)
LEMMA SeesNothingNew ==
  ASSUME RtInv, RtInv', core'.opened = core.opened,
         \A u \in Threads : call'[u].op = call[u].op \/ call'[u].pc # "receive",
         \A u \in Threads : call'[u].pc = "receive" <=> call[u].pc = "receive"
  PROVE  UNCHANGED Link!linkvars
<1>1. /\ call \in [Threads -> CallRec] /\ core.opened \in BOOLEAN
      /\ call' \in [Threads -> CallRec] /\ core'.opened \in BOOLEAN
  BY DEF RtInv, RtTypeOK, CoreRec
<1>2. Outstanding(call') = Outstanding(call)
  BY DEF Outstanding
<1>3. ActiveOf(call') = ActiveOf(call)
  BY <1>2 DEF ActiveOf
<1>4. (\E t \in Outstanding(call') : call'[t].op = "open") <=> (\E t \in Outstanding(call) : call[t].op = "open")
  BY <1>2 DEF Outstanding
<1>5. SessionOf(core'.opened, call') = SessionOf(core.opened, call)
  BY <1>4 DEF SessionOf
<1> QED BY <1>3, <1>5 DEF Link!linkvars

(* The end of a call is an answer to SerialLink, or a failure.             *)
LEMMA LeaveLink ==
  ASSUME RtInv, RtInv', NEW t \in Threads, Inside(t), NEW ok \in BOOLEAN, NEW st, NEW c,
         Leave(t, ok, st, c), ok => call[t].pc = "receive"
  PROVE  Link!Next \/ UNCHANGED Link!linkvars
<1> DEFINE op == call[t].op
<1>1. /\ call \in [Threads -> CallRec] /\ core.opened \in BOOLEAN
      /\ call' \in [Threads -> CallRec] /\ core'.opened \in BOOLEAN
  BY DEF RtInv, RtTypeOK, CoreRec
<1>2. \A u \in Threads : u # t => call'[u] = call[u] /\ ~Inside(u)
  BY OneInside DEF RtInv, RtTypeOK, Leave, CallRec
<1>3. call'[t].pc # "receive"
  BY DEF RtInv, RtTypeOK, Leave, CallRec
<1>4. core'.opened = IF op = "open" /\ ok THEN TRUE
                     ELSE IF DropsSocket(op, ok) THEN FALSE ELSE core.opened
  BY DEF RtInv, RtTypeOK, CoreRec, Leave, CoreAfter
<1>5. /\ ActiveOf(call') = NoThread
      /\ SessionOf(core'.opened, call') = IF core'.opened THEN "open" ELSE "closed"
  <2>1. \A u \in Threads : call'[u].pc # "receive"
    BY <1>2, <1>3 DEF Inside
  <2> QED BY <1>1, <2>1, SeesNone
<1>6. CASE call[t].pc = "receive"
  <2>1. /\ ActiveOf(call) = t
        /\ SessionOf(core.opened, call) =
             IF core.opened THEN "open" ELSE IF op = "open" THEN "opening" ELSE "closed"
    <3>1. \A u \in Threads : call[u].pc = "receive" <=> u = t
      BY <1>2, <1>6 DEF Inside
    <3> QED BY <1>1, <3>1, SeesOne
  <2>2. Link!Answered(t) \/ Link!Failed(t)
    BY <1>4, <1>5, <2>1 DEF Link!Answered, Link!Failed, DropsSocket
  <2> QED BY <2>2 DEF Link!Next
<1>7. CASE call[t].pc # "receive"
  <2>1. /\ ActiveOf(call) = NoThread
        /\ SessionOf(core.opened, call) = IF core.opened THEN "open" ELSE "closed"
    <3>1. \A u \in Threads : call[u].pc # "receive"
      BY <1>2, <1>7 DEF Inside
    <3> QED BY <1>1, <3>1, SeesNone
  <2>2. Link!Failed(t)
    BY <1>4, <1>5, <1>7, <2>1 DEF Link!Failed, DropsSocket
  <2> QED BY <2>2 DEF Link!Next
<1> QED BY <1>6, <1>7

(* A step of a call is a step of the abstract link or a stutter.           *)
LEMMA CallLink ==
  ASSUME RtInv, RtInv', NEW t \in Threads, Calls(t)
  PROVE  Link!Next \/ UNCHANGED Link!linkvars
<1>1. CASE Enter(t) \/ SetEndpoint(t) \/ Connect(t) \/ Disconnected(t)
  <2>1. /\ core'.opened = core.opened
        /\ \A u \in Threads : call'[u].op = call[u].op
        /\ \A u \in Threads : call'[u].pc = "receive" <=> call[u].pc = "receive"
    <3>1. CASE Enter(t)         BY <3>1 DEF RtInv, RtTypeOK, CoreRec, CallRec, Enter
    <3>2. CASE SetEndpoint(t)   BY <3>2 DEF RtInv, RtTypeOK, CoreRec, CallRec, SetEndpoint
    <3>3. CASE Connect(t)       BY <3>3 DEF RtInv, RtTypeOK, CoreRec, CallRec, Connect
    <3>4. CASE Disconnected(t)  BY <3>4 DEF RtInv, RtTypeOK, CoreRec, CallRec, Disconnected
    <3> QED BY <1>1, <3>1, <3>2, <3>3, <3>4
  <2> QED BY <2>1, SeesNothingNew
<1>2. CASE Send(t)
  <2>1. /\ call \in [Threads -> CallRec] /\ core.opened \in BOOLEAN
        /\ call' \in [Threads -> CallRec] /\ core'.opened = core.opened
    BY <1>2 DEF RtInv, RtTypeOK, CoreRec, Send
  <2>2. /\ call'[t].pc = "receive" /\ call[t].pc = "send"
        /\ \A u \in Threads : u # t => call'[u] = call[u] /\ ~Inside(u)
    BY <1>2, OneInside DEF RtInv, RtTypeOK, CallRec, Send, Inside
  <2>3. /\ ActiveOf(call) = NoThread
        /\ SessionOf(core.opened, call) = IF core.opened THEN "open" ELSE "closed"
    <3>1. \A u \in Threads : call[u].pc # "receive"
      BY <2>2 DEF Inside
    <3> QED BY <2>1, <3>1, SeesNone
  <2>4. /\ ActiveOf(call') = t
        /\ SessionOf(core'.opened, call') =
             IF core'.opened THEN "open" ELSE IF call'[t].op = "open" THEN "opening" ELSE "closed"
    <3>1. \A u \in Threads : call'[u].pc = "receive" <=> u = t
      BY <2>2 DEF Inside
    <3> QED BY <2>1, <3>1, SeesOne
  <2>5. Link!Request(t)
    BY <2>1, <2>3, <2>4 DEF Link!Request
  <2> QED BY <2>5 DEF Link!Next
<1>3. CASE ConnectFails(t)
  BY <1>3, LeaveLink DEF ConnectFails, Inside
<1>4. CASE SendFails(t)
  BY <1>4, LeaveLink DEF SendFails, Inside
<1>5. CASE Receive(t)
  <2>1. \E ok \in BOOLEAN : \E st, c : Leave(t, ok, st, c)
    BY <1>5 DEF Receive
  <2>2. Inside(t) /\ call[t].pc = "receive"
    BY <1>5 DEF Receive, Inside
  <2> QED BY <2>1, <2>2, LeaveLink
<1>6. CASE ReceiveTimesOut(t)
  <2>1. \E c : Leave(t, FALSE, status, c)
    BY <1>6 DEF ReceiveTimesOut
  <2>2. Inside(t)
    BY <1>6 DEF ReceiveTimesOut, Inside
  <2> QED BY <2>1, <2>2, LeaveLink
<1>7. CASE ReceiveFails(t)
  BY <1>7, LeaveLink DEF ReceiveFails, Inside
<1> QED BY <1>1, <1>2, <1>3, <1>4, <1>5, <1>6, <1>7 DEF Calls

(* The end of the process is a failure of the call under way, or of none.  *)
LEMMA FreshLink ==
  ASSUME RtInv, RtInv', Fresh'
  PROVE  Link!Next
<1>1. /\ call \in [Threads -> CallRec] /\ core.opened \in BOOLEAN /\ ~core'.opened
      /\ call' \in [Threads -> CallRec] /\ core'.opened \in BOOLEAN
  BY DEF RtInv, RtTypeOK, CoreRec, Fresh, NewCore
<1>2. ActiveOf(call') = NoThread /\ SessionOf(core'.opened, call') = "closed"
  <2>1. \A u \in Threads : call'[u].pc # "receive"
    BY DEF Fresh, Quiet
  <2> QED BY <1>1, <2>1, SeesNone
<1>3. ASSUME NEW t \in Threads, call[t].pc = "receive" PROVE Link!Next
  <2>1. /\ ActiveOf(call) = t
        /\ SessionOf(core.opened, call) =
             IF core.opened THEN "open" ELSE IF call[t].op = "open" THEN "opening" ELSE "closed"
    <3>1. \A u \in Threads : call[u].pc = "receive" <=> u = t
      BY <1>3 DEF RtInv, LockHeld, Inside
    <3> QED BY <1>1, <3>1, SeesOne
  <2>2. Link!Failed(t)
    BY <1>2, <2>1 DEF Link!Failed
  <2> QED BY <2>2 DEF Link!Next
<1>4. ASSUME \A t \in Threads : call[t].pc # "receive" PROVE Link!Next
  <2>1. /\ ActiveOf(call) = NoThread
        /\ SessionOf(core.opened, call) = IF core.opened THEN "open" ELSE "closed"
    BY <1>1, <1>4, SeesNone
  <2>2. PICK t \in Threads : TRUE
    BY RtAssumption
  <2>3. Link!Failed(t)
    BY <1>2, <2>1 DEF Link!Failed
  <2> QED BY <2>3 DEF Link!Next
<1> QED BY <1>3, <1>4

(***************************************************************************)
(* ImplementsSerialLink: the client with its lock, its socket and its      *)
(* flags does what SerialLink promises: one session, and in it one request *)
(* after the other, also through timeouts, a server that goes, and the end *)
(* of the process.                                                         *)
(***************************************************************************)
THEOREM ClientIsSerial == Spec => ImplementsSerialLink
<1>1. Init => Link!Init
  <2> SUFFICES ASSUME Init PROVE Link!Init
    OBVIOUS
  <2>1. call \in [Threads -> CallRec] /\ core.opened = FALSE
    BY RtInitInv DEF RtInv, RtTypeOK, Init, RtInit, NewCore
  <2>2. \A u \in Threads : call[u].pc # "receive"
    BY DEF Init, RtInit, Quiet
  <2>3. ActiveOf(call) = NoThread /\ SessionOf(core.opened, call) = "closed"
    BY <2>1, <2>2, SeesNone
  <2> QED BY <2>3 DEF Link!Init
<1>2. RtInv /\ RtInv' /\ [Next]_vars => [Link!Next]_Link!linkvars
  <2> SUFFICES ASSUME RtInv, RtInv', [Next]_vars
               PROVE  Link!Next \/ UNCHANGED Link!linkvars
    OBVIOUS
  <2>1. ASSUME NEW t \in Threads, NEW op \in Ops[t], Start(t, op)
        PROVE  UNCHANGED Link!linkvars
    <3>1. /\ core' = core /\ call'[t].pc = "enter" /\ call[t].pc = "idle"
          /\ \A u \in Threads : u # t => call'[u] = call[u]
      BY <2>1 DEF RtInv, RtTypeOK, CallRec, Start
    <3> QED BY <3>1, SeesNothingNew
  <2>2. CASE ServerReplies \/ ServerGoes
    BY <2>2, SeesNothingNew DEF ServerReplies, ServerGoes
  <2>3. CASE ClientStep
    BY <2>1, <2>2, <2>3, CallLink DEF ClientStep, RtNext
  <2>4. CASE DatabaseStep
    <3>1. Fresh' \/ UNCHANGED <<core, call>>
      BY <2>4 DEF DatabaseStep, Fresh
    <3> QED BY <3>1, FreshLink, SeesNothingNew
  <2>5. CASE UNCHANGED vars
    BY <2>5, SeesNothingNew DEF vars, rtvars
  <2> QED BY <2>3, <2>4, <2>5 DEF Next
<1>3. RtInv /\ [Next]_vars => RtInv'
  BY RtStep
<1> QED BY <1>1, <1>2, <1>3, RtInitInv, PTL DEF Spec, ImplementsSerialLink, Link!Spec
=============================================================================
