----------------------------- MODULE Transfers ------------------------------
(***************************************************************************)
(* Mailbox transfers of one thread with one slave, one after another:      *)
(* objects and their descriptions, PDOs, files, IDNs, Ethernet frames and  *)
(* their parameters.  What one call leaves behind in the mailboxes, when   *)
(* it gave up before the slave had answered, is there when the next one    *)
(* begins.                                                                 *)
(***************************************************************************)
EXTENDS SdoTransfer, CoeServices, FoeTransfer, SoeTransfer, EoeTransfer

vars == <<linkvars, eoe>>

Init == LinkInit /\ EoeInit

Call ==
  \/ (SdoCall \/ CoeCall \/ FoeCall \/ SoeCall) /\ UNCHANGED eoe
  \/ EoeCall
Device ==
  \/ (SdoDevice \/ CoeDevice \/ FoeDevice \/ SoeDevice) /\ UNCHANGED eoe
  \/ EoeDevice

Next ==
  \/ (\E kind \in Kinds, o \in Objects, cap \in BufSizes : Begin(kind, o, cap)) /\ UNCHANGED eoe
  \/ Call \/ Device \/ EoeFrame
  \/ (DevIgnore \/ DevGivesUp) /\ UNCHANGED eoe

(* The calling thread goes on, and the slave answers what it does not      *)
(* ignore.                                                                 *)
Spec == Init /\ [][Next]_vars
Fair == WF_vars(Call) /\ WF_vars(Device)
FairSpec == Spec /\ Fair
-----------------------------------------------------------------------------
(* Positions are within the data: ecx_SDOwrite counts the short last       *)
(* segment for what it is, and ecx_FOEwrite goes back exactly over the     *)
(* packet that it sends again.                                             *)
PositionInData == loc.pos \in 0..(IF job.obj = 0 THEN job.cap ELSE Size[job.obj])

(* ecx_SDOread, ecx_FOEread and the other calls that read: at every moment *)
(* the buffer holds a beginning of the object asked for, never units of    *)
(* the object of an earlier call or a segment twice, and does not          *)
(* overflow; it holds all of it when the call reports success, as far as   *)
(* ecx_readODlist and ecx_readODdescription have room.                     *)
Content ==
  LET all == Payload(job.obj, Size[job.obj])
  IN  CASE job.kind = "OdList" -> First(all, job.cap)
        [] job.kind = "OdDesc" -> First(First(all, MaxData), job.cap)
        [] job.kind \in {"TxPdo", "EoeGetIp"} -> First(all, MaxData)
        [] OTHER -> all
BufferIsObject ==
  job.kind \in {"SdoRead", "FoeRead", "OdList", "OdDesc", "TxPdo", "EoeGetIp"} =>
    /\ IsPrefix(loc.buf, Content) /\ Len(loc.buf) <= (IF job.kind = "EoeGetIp" THEN MaxData ELSE job.cap)
    /\ job.pc = "done" /\ job.ok => loc.buf = Content

(* ecx_readOE: what is entered for a subindex is the description of this   *)
(* subindex of this object, whichever of the requests before failed.       *)
EntriesAreOwn ==
  job.kind = "Oe" => \A k \in 1..Len(loc.buf) : loc.buf[k][2] = <<job.obj, loc.buf[k][1]>>

(* ecx_EOErecv and ecx_EOEreadfragment: a frame that they report is one    *)
(* that the slave sent, whole, although other calls fetch fragments, calls *)
(* end in the middle of a frame and the slave abandons frames.  (A         *)
(* fragment that does not fit, as one with a timestamp may not, is left    *)
(* out without an error.)                                                  *)
FramesAreWhole ==
  job.kind \in {"EoeRecv", "EoeFragment"} /\ job.pc = "done" /\ job.ok /\ ~loc.skipped =>
    \E n \in 1..FrameNo : loc.buf = FrameData(n)

(* What a call that reads returns is the object, the descriptions or the   *)
(* frame that it was to read, not those of another call, and whole when it *)
(* says so.                                                                *)
ReadsWhole == BufferIsObject /\ EntriesAreOwn /\ FramesAreWhole

(* ecx_SDOwrite, ecx_FOEwrite and the other calls that write: when the     *)
(* call reports success the slave has all the data of this call and knows  *)
(* that they are all.  (ecx_SoEwrite goes on after a fragment that it      *)
(* could not send; that is left out.)  A frame that the slave puts         *)
(* together from ecx_EOEsend's fragments is the one that was sent.  The    *)
(* position never leaves the data.                                         *)
WritesWhole ==
  /\ PositionInData
  /\ job.kind \in {"SdoWrite", "FoeWrite", "SoeWrite"} /\ job.pc = "done" /\ job.ok /\ ~loc.skipped =>
       /\ dev.buf = Written
       /\ IF job.kind = "FoeWrite" THEN dev.closed ELSE dev.mode = "none"
  /\ job.kind = "EoeSetIp" /\ job.pc = "done" /\ job.ok => dev.buf = First(Written, MaxData)
  /\ dev.mode = "eoe" /\ dev.closed /\ dev.total = job.call => dev.buf = Written

(* CoE, FoE, SoE and EoE: no call reports as done what it has not done,    *)
(* whatever the calls before it left in the mailboxes.                     *)
TransfersAreWhole == ReadsWhole /\ WritesWhole

(* When only finitely many sends and answers fail every call returns: none *)
(* waits for an answer that is not to come, and none asks for segments for *)
(* ever.  The one way out is real: when two sends of segment requests      *)
(* failed although they arrived, both mailboxes are full, and the segment  *)
(* loop of ecx_SDOread goes on sending and never fetches the answer.       *)
ReturnsOrStuck == job.pc # "done" ~> job.pc = "done" \/ Stuck
=============================================================================
