---------------------------- MODULE EoeTransfer -----------------------------
(***************************************************************************)
(* Ethernet over EtherCAT (ec_eoe.c): frames in numbered fragments at      *)
(* offsets in blocks, ecx_EOEsend, ecx_EOErecv, and ecx_EOEreadfragment,   *)
(* which keeps its place in static variables of the caller; and            *)
(* ecx_EOEsetIp and ecx_EOEgetIp.                                          *)
(*                                                                         *)
(* The slave is external.  It sends frames of its own accord, during and   *)
(* after an EoE call; a timestamp of one unit may follow a frame.          *)
(* There is one port.                                                      *)
(***************************************************************************)
EXTENDS MbxLink

CONSTANTS
  EoeData,     \* what a mailbox carries
  Block,       \* the unit of offsets, 32 bytes
  FrameSizes,  \* sizes of the slave's frames
  MaxFrames    \* bound: frames of the slave

ASSUME EoeAssumption == Block \in Nat \ {0} /\ EoeData \in Nat /\ EoeData >= Block /\ MaxFrames \in Nat

VARIABLE eoe  \* [sizes: of the slave's frames so far, stamp, pos, frag: how far it is with the last;
              \*  rx: ecx_EOEreadfragment's rxfragmentno, rxframesize, rxframeoffset, rxframeno, and p]

NoRx == [frag |-> 0, size |-> 0, off |-> 0, no |-> 0, buf |-> <<>>]
EoeInit == eoe = [sizes |-> <<>>, stamp |-> FALSE, pos |-> 0, frag |-> 0, rx |-> NoRx]

Blocks(n) == (n + Block - 1) \div Block
FragmentSize(rest) == IF rest > EoeData THEN (EoeData \div Block) * Block ELSE rest

(* Fragment number frag of frame no, whose data are from pos on.           *)
Fragment(no, data, pos, frag, stamp) ==
  LET part == Slice(data, pos, FragmentSize(Len(data) - pos))
      last == pos + Len(part) = Len(data)
  IN  [op |-> "eoe", frame |-> no, frag |-> frag,
       off |-> IF frag = 0 THEN Blocks(Len(data)) ELSE pos \div Block,
       last |-> last, stamp |-> last /\ stamp,
       data |-> IF last /\ stamp THEN Append(part, <<0, 0>>) ELSE part]
-----------------------------------------------------------------------------
(* ecx_EOEsend: one fragment after the other until one cannot be sent.     *)
EoeSend(ok) ==
  LET m == Fragment(job.call, Written, loc.pos, loc.packet, FALSE) IN
  /\ job.kind = "EoeSend" /\ job.pc = "request" /\ MbxSend(m, ok)
  /\ IF ok /\ ~m.last
     THEN loc' = [loc EXCEPT !.pos = @ + Len(m.data), !.packet = @ + 1] /\ UNCHANGED job
     ELSE Done(ok) /\ UNCHANGED loc
  /\ UNCHANGED <<dev, eoe>>

(* ecx_EOErecv: a fragment that is not the next one of this frame ends the *)
(* call.                                                                   *)
Foreign(m) ==
  \/ m.op # "eoe"
  \/ m.frag # loc.packet /\ m.frag > 0
  \/ loc.packet = 0 /\ m.off * Block > job.cap
Unexpected(m) ==
  Foreign(m) \/ (loc.packet > 0 /\ (m.frame # loc.frame \/ m.off * Block # loc.pos))

Received(m) ==
  LET l == IF loc.packet = 0 THEN [loc EXCEPT !.frame = m.frame] ELSE loc
  IN  IF l.pos + Len(m.data) <= job.cap
      THEN [l EXCEPT !.buf = Slice(@, 0, l.pos) \o m.data, !.pos = @ + Len(m.data), !.packet = @ + 1]
      ELSE [l EXCEPT !.skipped = TRUE]
EoeReceive ==
  /\ job.kind = "EoeRecv" /\ job.pc = "request" /\ UNCHANGED <<dev, eoe>>
  /\ \/ /\ MbxReceive
        /\ LET m == link.out IN
           IF Unexpected(m) THEN Done(FALSE) /\ UNCHANGED loc
           ELSE IF ~m.last THEN UNCHANGED job /\ loc' = Received(m)
           ELSE /\ Done(TRUE)
                /\ LET l == Received(m)
                       n == IF m.stamp THEN l.pos - 1 ELSE l.pos
                   IN  loc' = [l EXCEPT !.pos = n, !.buf = Slice(@, 0, n)]
     \/ MbxReceiveNone /\ Done(FALSE) /\ UNCHANGED loc
-----------------------------------------------------------------------------
(* ecx_EOEreadfragment: what rx becomes with m, and the result.            *)
Refused(rx) == [rx |-> rx, result |-> "error", got |-> <<>>, skipped |-> FALSE]
Accepted(rx, m, cap) ==
  LET q == IF rx.frag = 0 THEN [rx EXCEPT !.size = m.off * Block, !.off = 0, !.no = m.frame] ELSE rx
      end == q.off + Len(m.data)
      fits == end <= q.size /\ end <= cap
      t == IF fits THEN [q EXCEPT !.buf = Slice(@, 0, q.off) \o m.data, !.off = end, !.frag = @ + 1] ELSE q
  IN  IF m.last
      THEN [rx |-> [NoRx EXCEPT !.buf = t.buf], result |-> "frame",
            got |-> Slice(t.buf, 0, IF m.stamp THEN t.off - 1 ELSE t.off), skipped |-> ~fits]
      ELSE [rx |-> t, result |-> "more", got |-> <<>>, skipped |-> FALSE]
ReadFragment(rx, m, cap) ==
  LET r == IF rx.frag \in {0, m.frag} THEN rx ELSE [NoRx EXCEPT !.buf = rx.buf]
  IN  CASE rx.frag # m.frag /\ m.frag > 0 -> Refused(r)
        [] r.frag > 0 /\ (r.no # m.frame \/ r.off # m.off * Block) -> Refused([NoRx EXCEPT !.buf = rx.buf])
        [] OTHER -> Accepted(r, m, cap)

(* The application gives it the mailboxes that come, until one ends a      *)
(* frame or is refused; rx is kept from one time to the next.              *)
EoeFragment ==
  /\ job.kind = "EoeFragment" /\ job.pc = "request" /\ UNCHANGED dev
  /\ \/ /\ MbxReceive
        /\ LET r == ReadFragment(eoe.rx, link.out, job.cap) IN
           IF link.out.op # "eoe" THEN Done(FALSE) /\ UNCHANGED <<loc, eoe>>
           ELSE /\ eoe' = [eoe EXCEPT !.rx = r.rx]
                /\ loc' = [loc EXCEPT !.buf = r.got, !.skipped = r.skipped]
                /\ IF r.result = "more" THEN UNCHANGED job ELSE Done(r.result = "frame")
     \/ MbxReceiveNone /\ Done(FALSE) /\ UNCHANGED <<loc, eoe>>
-----------------------------------------------------------------------------
(* ecx_EOEsetIp, ecx_EOEgetIp: parameters in one mailbox each way; those   *)
(* that are read must not be longer than the answer says.                  *)
EoeSetIpRequest(ok) ==
  SendRequest("EoeSetIp", [op |-> "setip", data |-> Slice(Written, 0, MaxData)], ok) /\ UNCHANGED eoe
EoeSetIpAnswer ==
  /\ job.kind = "EoeSetIp" /\ job.pc = "answer" /\ MbxReceive
  /\ Done(link.out.op = "setipres" /\ link.out.result = 0) /\ UNCHANGED <<loc, dev, eoe>>

EoeGetIpRequest(ok) == SendRequest("EoeGetIp", [op |-> "getip", obj |-> job.obj], ok) /\ UNCHANGED eoe
EoeGetIpAnswer ==
  /\ job.kind = "EoeGetIp" /\ job.pc = "answer" /\ MbxReceive
  /\ LET m == link.out IN
     IF m.op = "getipres" THEN loc' = [loc EXCEPT !.buf = m.data] /\ Done(Len(m.data) <= m.size)
     ELSE Done(FALSE) /\ UNCHANGED loc
  /\ UNCHANGED <<dev, eoe>>
-----------------------------------------------------------------------------
(* The slave: its frames, ...                                              *)
EoeKinds == {"EoeSend", "EoeRecv", "EoeFragment", "EoeSetIp", "EoeGetIp"}
MaySend == link.out = None /\ job.kind \in EoeKinds
FrameNo == Len(eoe.sizes)
FrameData(n) == Payload(100 + n, eoe.sizes[n])
Underway == FrameNo > 0 /\ eoe.pos < eoe.sizes[FrameNo]

SendFragment(f) ==
  LET n == Len(f.sizes)
      m == Fragment(n, Payload(100 + n, f.sizes[n]), f.pos, f.frag, f.stamp)
  IN  /\ MaySend /\ link' = [link EXCEPT !.out = m]
      /\ eoe' = [f EXCEPT !.pos = IF m.last THEN f.sizes[n] ELSE @ + Len(m.data), !.frag = @ + 1]
      /\ UNCHANGED <<job, loc, dev, fails>>
DevFrame(size, stamp) ==
  /\ ~Underway /\ FrameNo < MaxFrames
  /\ SendFragment([eoe EXCEPT !.sizes = Append(@, size), !.stamp = stamp, !.pos = 0, !.frag = 0])
DevFragment == Underway /\ SendFragment(eoe)
DevAbandon ==
  /\ Underway /\ fails < MaxFails /\ fails' = fails + 1
  /\ eoe' = [eoe EXCEPT !.pos = eoe.sizes[FrameNo]]
  /\ UNCHANGED <<job, loc, link, dev>>

(* ... the frames it receives, ...                                         *)
DevReceive ==
  LET m == link.in
      next == dev.mode = "eoe" /\ ~dev.closed /\ m.frame = dev.total /\ m.frag = dev.packet
                /\ m.off * Block = Len(dev.buf)
  IN  /\ Taken("eoe") /\ UNCHANGED eoe
      /\ dev' = CASE m.frag = 0 -> [NoSession EXCEPT !.mode = "eoe", !.total = m.frame, !.packet = 1,
                                                     !.buf = m.data, !.closed = m.last]
                  [] m.frag > 0 /\ next -> [dev EXCEPT !.buf = @ \o m.data, !.packet = @ + 1, !.closed = m.last]
                  [] OTHER -> NoSession

(* ... and its parameters, which it may refuse.                            *)
DevSetIp ==
  /\ \/ Answer({"setip"}, [op |-> "setipres", result |-> 0]) /\ dev' = [NoSession EXCEPT !.buf = link.in.data]
     \/ Answer({"setip"}, [op |-> "setipres", result |-> 1]) /\ UNCHANGED dev
  /\ UNCHANGED eoe
DevGetIp ==
  LET data == Slice(Payload(link.in.obj, Size[link.in.obj]), 0, MaxData) IN
  /\ \/ Answer({"getip"}, [op |-> "getipres", data |-> data, size |-> Len(data)])
     \/ Answer({"getip"}, [op |-> "setipres", result |-> 1])
  /\ UNCHANGED <<dev, eoe>>

EoeCall ==
  \/ \E ok \in BOOLEAN : EoeSend(ok) \/ EoeSetIpRequest(ok) \/ EoeGetIpRequest(ok)
  \/ EoeReceive \/ EoeFragment \/ EoeSetIpAnswer \/ EoeGetIpAnswer
  \/ NoAnswerEnds({"EoeSetIp", "EoeGetIp"}) /\ UNCHANGED eoe

EoeDevice ==
  \/ link.in # None /\ (DevReceive \/ DevSetIp \/ DevGetIp)
  \/ DevFragment
EoeFrame == (\E size \in FrameSizes, stamp \in BOOLEAN : DevFrame(size, stamp)) \/ DevAbandon
=============================================================================
