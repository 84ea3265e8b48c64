---------------------------- MODULE SdoTransfer -----------------------------
(***************************************************************************)
(* ecx_SDOread and ecx_SDOwrite (ec_coe.c): expedited, normal and segmented*)
(* transfers with a toggle bit.  The slave is external: a CoE server that  *)
(* refuses a segment with the wrong toggle and a download that does not    *)
(* have the announced size.                                                *)
(***************************************************************************)
EXTENDS MbxLink

CONSTANTS
  ExpSize,  \* the largest expedited transfer
  SegData   \* what a segment carries; more than MaxData, its header is smaller

ASSUME SdoAssumption == ExpSize \in 0..MaxData /\ SegData \in Nat /\ SegData > MaxData

Index(o) == o \div 10
-----------------------------------------------------------------------------
(* ecx_SDOread sends the upload request.                                   *)
UpRequest(ok) ==
  /\ job.kind = "SdoRead" /\ job.pc = "request"
  /\ MbxSend([op |-> "up", obj |-> job.obj], ok)
  /\ IF ok THEN Goto("answer") ELSE Done(FALSE)
  /\ UNCHANGED <<loc, dev>>

(* The answer is for the right index (the subindex is not compared), and   *)
(* its data fit.                                                           *)
UpFits(m) == m.op = "upres" /\ Index(m.obj) = Index(job.obj) /\ m.size <= job.cap

UpAnswer ==
  /\ job.kind = "SdoRead" /\ job.pc = "answer" /\ MbxReceive
  /\ LET m == link.out IN
     IF UpFits(m)
     THEN /\ loc' = [loc EXCEPT !.buf = m.data]
          /\ IF Len(m.data) < m.size THEN Goto("segment") ELSE Done(TRUE)
     ELSE Done(FALSE) /\ UNCHANGED loc
  /\ UNCHANGED dev

(* The toggle changes with every request, sent or not.                     *)
Toggled == [loc EXCEPT !.toggle = ~@]

UpSegment(ok) ==
  /\ job.kind = "SdoRead" /\ job.pc = "segment"
  /\ MbxSend([op |-> "upseg", toggle |-> loc.toggle], ok)
  /\ IF ok THEN Goto("segmentanswer") /\ UNCHANGED loc
     ELSE UNCHANGED job /\ loc' = Toggled
  /\ UNCHANGED dev

UpSegmentAnswer ==
  /\ job.kind = "SdoRead" /\ job.pc = "segmentanswer" /\ MbxReceive
  /\ LET m == link.out IN
     IF m.op = "segres"
     THEN /\ loc' = [Toggled EXCEPT !.buf = @ \o m.data]
          /\ IF m.last THEN Done(TRUE) ELSE Goto("segment")
     ELSE Done(FALSE) /\ loc' = Toggled
  /\ UNCHANGED dev
-----------------------------------------------------------------------------
(* ecx_SDOwrite sends the first part and announces the size; small data    *)
(* are sent expedited.                                                     *)
DownFirst == IF Size[job.obj] <= ExpSize THEN ExpSize ELSE MaxData
DownRequest(ok) ==
  /\ job.kind = "SdoWrite" /\ job.pc = "request"
  /\ MbxSend([op |-> "down", obj |-> job.obj, size |-> Size[job.obj],
              data |-> Slice(Written, 0, DownFirst)], ok)
  /\ loc' = [loc EXCEPT !.pos = Len(Slice(Written, 0, DownFirst))]
  /\ IF ok THEN Goto("answer") ELSE Done(FALSE)
  /\ UNCHANGED dev

NotLast == loc.pos < Size[job.obj]

(* Any SDO response for this index and subindex will do.                   *)
DownAnswer ==
  /\ job.kind = "SdoWrite" /\ job.pc = "answer" /\ MbxReceive
  /\ LET m == link.out IN
     IF m.op \in {"upres", "downres"} /\ m.obj = job.obj
     THEN IF NotLast THEN Goto("segment") ELSE Done(TRUE)
     ELSE Done(FALSE)
  /\ UNCHANGED <<loc, dev>>

(* The data count as sent whether they were or not.                        *)
DownSegment(ok) ==
  /\ job.kind = "SdoWrite" /\ job.pc = "segment"
  /\ LET part == Slice(Written, loc.pos, SegData)
         rest == Len(Written) - loc.pos IN
     /\ MbxSend([op |-> "downseg", toggle |-> loc.toggle, data |-> part, last |-> rest <= SegData], ok)
     /\ IF ok THEN loc' = [loc EXCEPT !.pos = @ + Len(part)] /\ Goto("segmentanswer")
        ELSE /\ loc' = [Toggled EXCEPT !.pos = @ + Len(part)]
             /\ IF rest <= SegData THEN Done(FALSE) ELSE UNCHANGED job
  /\ UNCHANGED dev

DownSegmentAnswer ==
  /\ job.kind = "SdoWrite" /\ job.pc = "segmentanswer" /\ MbxReceive
  /\ IF link.out.op = "downsegres"
     THEN IF NotLast THEN Goto("segment") ELSE Done(TRUE)
     ELSE Done(FALSE)
  /\ loc' = Toggled
  /\ UNCHANGED dev

(* Faulty variant: the first answer is waited for without end.             *)
SdoNoAnswerWaits ==
  /\ job.kind \in {"SdoRead", "SdoWrite"} /\ job.pc = "answer"
  /\ MbxReceiveNone
  /\ UNCHANGED <<job, loc, dev>>

(* No answer: to the first request, it ends the call; to a segment, the    *)
(* next segment is asked for, or sent.                                     *)
SdoNoAnswer ==
  /\ job.kind \in {"SdoRead", "SdoWrite"} /\ job.pc \in {"answer", "segmentanswer"}
  /\ MbxReceiveNone
  /\ IF job.pc = "answer" THEN Done(FALSE) /\ UNCHANGED loc
     ELSE /\ IF job.kind = "SdoWrite" /\ ~NotLast THEN Done(FALSE) ELSE Goto("segment")
          /\ loc' = Toggled
  /\ UNCHANGED dev
-----------------------------------------------------------------------------
(* The slave: uploads.                                                     *)
DevUp ==
  LET o == link.in.obj  data == Slice(Payload(o, Size[o]), 0, MaxData) IN
  /\ Answer({"up"}, [op |-> "upres", obj |-> o, size |-> Size[o], data |-> data])
  /\ dev' = IF Len(data) < Size[o]
            THEN [NoSession EXCEPT !.mode = "up", !.obj = o, !.pos = Len(data)]
            ELSE NoSession

DevUpSegment ==
  LET part == Slice(Payload(dev.obj, Size[dev.obj]), dev.pos, SegData)
      last == dev.pos + Len(part) = Size[dev.obj] IN
  /\ link.in.op = "upseg" /\ dev.mode = "up" /\ link.in.toggle = dev.toggle
  /\ Answer({"upseg"}, [op |-> "segres", data |-> part, last |-> last])
  /\ dev' = IF last THEN NoSession
            ELSE [dev EXCEPT !.pos = @ + Len(part), !.toggle = ~@]

(* The slave: downloads.                                                   *)
DevDown ==
  /\ Answer({"down"}, [op |-> "downres", obj |-> link.in.obj])
  /\ dev' = [NoSession EXCEPT !.obj = link.in.obj, !.buf = link.in.data, !.total = link.in.size,
                              !.mode = IF Len(link.in.data) < link.in.size THEN "down" ELSE "none"]

DevDownSegment ==
  LET all == dev.buf \o link.in.data IN
  /\ link.in.op = "downseg" /\ dev.mode = "down" /\ link.in.toggle = dev.toggle
  /\ Answer({"downseg"}, [op |-> "downsegres"])
  /\ link.in.last => Len(all) = dev.total
  /\ dev' = [dev EXCEPT !.buf = all, !.toggle = ~@, !.mode = IF link.in.last THEN "none" ELSE "down"]

(* The slave refuses a request, because it is wrong or for another reason. *)
DevAbort ==
  /\ Answer({"up", "upseg", "down", "downseg"}, [op |-> "abort"])
  /\ dev' = NoSession

SdoCall ==
  \/ \E ok \in BOOLEAN : UpRequest(ok) \/ UpSegment(ok) \/ DownRequest(ok) \/ DownSegment(ok)
  \/ UpAnswer \/ UpSegmentAnswer \/ DownAnswer \/ DownSegmentAnswer \/ SdoNoAnswer

SdoDevice ==
  link.in # None /\ (DevUp \/ DevUpSegment \/ DevDown \/ DevDownSegment \/ DevAbort)
=============================================================================
