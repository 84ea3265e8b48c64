---------------------------- MODULE FoeTransfer -----------------------------
(***************************************************************************)
(* ecx_FOEread and ecx_FOEwrite (ec_foe.c): files in numbered packets, each*)
(* acknowledged before the next.  A packet that is not full ends the file. *)
(* The slave is external; it may ask for a packet again by answering BUSY. *)
(***************************************************************************)
EXTENDS MbxLink

CONSTANT BusyAt  \* what the slave may be busy for: "open", "data", "end"

ASSUME FoeAssumption == BusyAt \subseteq {"open", "data", "end"}
-----------------------------------------------------------------------------
FoeRequest(ok) ==
  /\ job.kind \in {"FoeRead", "FoeWrite"} /\ job.pc = "request"
  /\ MbxSend([op |-> IF job.kind = "FoeRead" THEN "foeread" ELSE "foewrite", obj |-> job.obj], ok)
  /\ IF ok THEN Goto("answer") ELSE Done(FALSE)
  /\ UNCHANGED <<loc, dev>>

FoeNoAnswer ==
  /\ job.kind \in {"FoeRead", "FoeWrite"} /\ job.pc = "answer"
  /\ MbxReceiveNone
  /\ Done(FALSE)
  /\ UNCHANGED <<loc, dev>>

(* ecx_FOEread: the next packet, and there is room for it.                 *)
PacketFits(m) ==
  m.op = "foedata" /\ m.packet = loc.packet + 1 /\ Len(loc.buf) + Len(m.data) <= job.cap

FoeReadPacket ==
  /\ job.kind = "FoeRead" /\ job.pc = "answer" /\ MbxReceive
  /\ LET m == link.out IN
     IF PacketFits(m)
     THEN /\ loc' = [loc EXCEPT !.buf = @ \o m.data, !.packet = @ + 1, !.segment = Len(m.data)]
          /\ Goto("ack")
     ELSE Done(FALSE) /\ UNCHANGED loc
  /\ UNCHANGED dev

(* The acknowledgement; a full packet is not the last.                     *)
FoeReadAck(ok) ==
  /\ job.kind = "FoeRead" /\ job.pc = "ack"
  /\ MbxSend([op |-> "foeack", packet |-> loc.packet], ok)
  /\ IF ok /\ loc.segment = MaxData THEN Goto("answer") ELSE Done(ok)
  /\ UNCHANGED <<loc, dev>>
-----------------------------------------------------------------------------
(* ecx_FOEwrite, the next packet: what is left, at most MaxData.  After a  *)
(* full last packet an empty one is due.                                   *)
NextPacket(l) ==
  LET part == Slice(Written, l.pos, MaxData) IN
  [l EXCEPT !.pos = @ + Len(part), !.segment = Len(part), !.packet = @ + 1,
            !.zero = l.pos + Len(part) = Len(Written) /\ Len(part) = MaxData]

(* There is another packet: data are left, or the empty one is due.        *)
MoreToSend(l) == l.pos < Len(Written) \/ l.zero

(* The packet before: ECT_FOE_BUSY asks for it again.                      *)
StepBack == [loc EXCEPT !.pos = @ - loc.segment, !.packet = @ - 1]

(* The acknowledgement of the last packet (the request counts as number 0):*)
(* the next one is sent, or there is none and the call ends well.  BUSY:   *)
(* the last packet is sent again, unless there was none or it was empty.   *)
FoeWriteAnswer ==
  /\ job.kind = "FoeWrite" /\ job.pc = "answer" /\ MbxReceive
  /\ LET m == link.out IN
     \/ /\ m.op = "foeack" /\ m.packet = loc.packet
        /\ IF MoreToSend(loc) THEN loc' = NextPacket(loc) /\ Goto("ack")
           ELSE Done(TRUE) /\ UNCHANGED loc
     \/ /\ m.op = "foebusy"
        /\ CASE loc.packet = 0 -> Done(TRUE) /\ UNCHANGED loc
             [] loc.packet > 0 /\ MoreToSend(StepBack) -> loc' = NextPacket(StepBack) /\ Goto("ack")
             [] OTHER -> Done(TRUE) /\ loc' = StepBack
     \/ /\ ~(m.op = "foeack" /\ m.packet = loc.packet) /\ m.op # "foebusy"
        /\ Done(FALSE) /\ UNCHANGED loc
  /\ UNCHANGED dev

FoeWritePacket(ok) ==
  /\ job.kind = "FoeWrite" /\ job.pc = "ack"
  /\ MbxSend([op |-> "foedata", packet |-> loc.packet,
              data |-> Slice(Written, loc.pos - loc.segment, loc.segment)], ok)
  /\ IF ok THEN Goto("answer") ELSE Done(FALSE)
  /\ UNCHANGED <<loc, dev>>
-----------------------------------------------------------------------------
(* The slave: a packet of the file it reads out.                           *)
Packet(o, p) ==
  [op |-> "foedata", packet |-> p, data |-> Slice(Payload(o, Size[o]), (p - 1) * MaxData, MaxData)]

DevReadOpen ==
  /\ Answer({"foeread"}, Packet(link.in.obj, 1))
  /\ dev' = [NoSession EXCEPT !.mode = "read", !.obj = link.in.obj, !.packet = 1]

(* An acknowledgement is followed by the next packet, the last one by      *)
(* nothing.                                                                *)
DevReadAck ==
  /\ link.in.op = "foeack"
  /\ IF dev.mode = "read" /\ link.in.packet = dev.packet
        /\ Len(Packet(dev.obj, dev.packet).data) = MaxData
     THEN /\ Answer({"foeack"}, Packet(dev.obj, dev.packet + 1))
          /\ dev' = [dev EXCEPT !.packet = @ + 1]
     ELSE /\ link' = [link EXCEPT !.in = None] /\ dev' = NoSession
          /\ UNCHANGED <<job, loc, fails>>

DevWriteOpen ==
  /\ Answer({"foewrite"}, [op |-> "foeack", packet |-> 0])
  /\ dev' = [NoSession EXCEPT !.mode = "write", !.obj = link.in.obj]

DevWritePacket ==
  /\ Answer({"foedata"}, [op |-> "foeack", packet |-> link.in.packet])
  /\ dev.mode = "write" /\ link.in.packet = dev.packet + 1
  /\ dev' = [dev EXCEPT !.buf = @ \o link.in.data, !.packet = @ + 1,
                        !.closed = Len(link.in.data) < MaxData]

(* The slave is busy; the packet is not taken.                             *)
DevBusy ==
  /\ link.in.op \in {"foewrite", "foedata"} /\ link.out = None
  /\ link' = [in |-> None, out |-> [op |-> "foebusy"]]
  /\ fails < MaxFails /\ fails' = fails + 1
  /\ IF link.in.op = "foewrite" THEN "open" \in BusyAt
     ELSE (IF link.in.data = <<>> THEN "end" ELSE "data") \in BusyAt
  /\ UNCHANGED <<job, loc, dev>>

DevFoeError ==
  /\ Answer({"foeread", "foewrite", "foedata"}, [op |-> "foeerror"])
  /\ dev' = NoSession

FoeCall ==
  \/ \E ok \in BOOLEAN : FoeRequest(ok) \/ FoeReadAck(ok) \/ FoeWritePacket(ok)
  \/ FoeReadPacket \/ FoeWriteAnswer \/ FoeNoAnswer

FoeDevice ==
  link.in # None /\ (DevReadOpen \/ DevReadAck \/ DevWriteOpen \/ DevWritePacket \/ DevBusy \/ DevFoeError)
=============================================================================
