------------------------------ MODULE MbxLink -------------------------------
(***************************************************************************)
(* The mailbox transfers of one thread with one slave, without the cyclic  *)
(* handler: what a transfer (SdoTransfer, CoeServices, FoeTransfer,        *)
(* SoeTransfer, EoeTransfer) sees of ecx_mbxsend and ecx_mbxreceive.  The  *)
(* slave has a mailbox for requests and one for answers; it takes a        *)
(* request only when the answer to the last one has been fetched.          *)
(*                                                                         *)
(* Data are sequences of units.  MaxData units are what one mailbox        *)
(* carries.  The content of an object of the slave is made of units marked *)
(* with the object, the data a call writes of units marked with the call.  *)
(***************************************************************************)
EXTENDS Integers, Sequences, SequencesExt

CONSTANTS
  Kinds,     \* the calls made
  Objects,   \* objects, files or frames: natural numbers, ten times the index plus the subindex
  Size,      \* the size of each
  BufSizes,  \* sizes of the buffers that reading calls offer
  MaxData,   \* what a mailbox carries
  Unclear,   \* calls whose sends may fail after arrival, and whose answers may be late
  Settled,   \* the slave has finished with a call before the next one begins
  MaxCalls,  \* bound: calls made
  MaxFails   \* bound: failed sends, late answers, ignored requests and BUSY

ASSUME LinkAssumption ==
  /\ Objects \subseteq Nat /\ Size \in [Objects -> Nat] /\ BufSizes \subseteq Nat
  /\ MaxData \in Nat \ {0} /\ Unclear \subseteq Kinds /\ Settled \in BOOLEAN
  /\ MaxCalls \in Nat /\ MaxFails \in Nat

VARIABLES
  job,   \* the call: its arguments, where it is, what it returned
  loc,   \* its locals
  link,  \* the slave's two mailboxes
  dev,   \* the slave (external)
  fails
linkvars == <<job, loc, link, dev, fails>>

None == [op |-> "none"]
Payload(mark, n) == [i \in 1..n |-> <<mark, i>>]

(* The part of data that begins after pos, at most n units.                *)
Slice(data, pos, n) == SubSeq(data, pos + 1, IF pos + n < Len(data) THEN pos + n ELSE Len(data))

NoLocals == [buf |-> <<>>, pos |-> 0, toggle |-> FALSE, packet |-> 0, segment |-> 0, zero |-> TRUE,
             frame |-> 0, skipped |-> FALSE]
NoSession == [mode |-> "none", obj |-> 0, pos |-> 0, toggle |-> FALSE, total |-> 0,
              buf |-> <<>>, packet |-> 0, closed |-> FALSE]

LinkInit ==
  /\ job = [kind |-> "none", call |-> 0, obj |-> 0, cap |-> 0, pc |-> "done", ok |-> FALSE]
  /\ loc = NoLocals
  /\ link = [in |-> None, out |-> None]
  /\ dev = NoSession
  /\ fails = 0

(* What the running call writes.                                           *)
Written == Payload(job.call, Size[job.obj])

(* Ethernet frames are sent and received without fetching anything first.  *)
Undrained == {"EoeSend", "EoeRecv", "EoeFragment"}

(* The call's arguments: only calls that read have a buffer to fill, and   *)
(* frames are received without a name.                                     *)
Filling == {"SdoRead", "FoeRead", "TxPdo", "OdList", "OdDesc", "EoeRecv", "EoeFragment"}
NewCall(kind, o, cap) ==
  [kind |-> kind, call |-> job.call + 1, obj |-> IF kind \in {"EoeRecv", "EoeFragment"} THEN 0 ELSE o,
   cap |-> IF kind \in Filling THEN cap ELSE 0, pc |-> "request", ok |-> FALSE]

(* The slave has finished with the call before: it has taken the request,  *)
(* and has no list to go on with and no data to wait for.                  *)
HasSettled == link.in = None /\ dev.mode \notin {"list", "soe"}

(* Faulty variant: ecx_SDOread does not fetch what an earlier call left.   *)
BeginUndrained(kind, o, cap) ==
  /\ kind \in Kinds /\ job.pc = "done" /\ job.call < MaxCalls
  /\ Settled => HasSettled
  /\ job' = NewCall(kind, o, cap)
  /\ loc' = NoLocals
  /\ link' = IF kind \in Undrained \cup {"SdoRead"} THEN link ELSE [link EXCEPT !.out = None]
  /\ UNCHANGED <<dev, fails>>

(* A call begins; what is in the slave's answer mailbox is fetched first,  *)
(* with a timeout of 0, and not used.  The frames of this fetch are not    *)
(* lost.                                                                   *)
Begin(kind, o, cap) ==
  /\ kind \in Kinds /\ job.pc = "done" /\ job.call < MaxCalls
  /\ Settled => HasSettled
  /\ job' = NewCall(kind, o, cap)
  /\ loc' = NoLocals
  /\ link' = IF kind \in Undrained THEN link ELSE [link EXCEPT !.out = None]
  /\ UNCHANGED <<dev, fails>>

Goto(pc) == job' = [job EXCEPT !.pc = pc]

(* The end of a call; ok stands for a positive working counter.            *)
Done(ok) == job' = [job EXCEPT !.pc = "done", !.ok = ok]

(* Both mailboxes are full: the slave cannot go on until its answer is     *)
(* fetched.                                                                *)
Stuck == link.in # None /\ link.out # None

(* ecx_mbxsend: the request is in the slave's mailbox, or the call learns  *)
(* nothing of it before its timer expires.                                 *)
MbxSend(m, ok) ==
  IF ok THEN /\ link.in = None
             /\ link' = [link EXCEPT !.in = m] /\ UNCHANGED fails
  ELSE \/ Stuck /\ UNCHANGED <<link, fails>>
       \/ /\ fails < MaxFails /\ fails' = fails + 1
          /\ \/ link' = link
             \/ job.kind \in Unclear /\ link.in = None /\ link' = [link EXCEPT !.in = m]

(* ecx_mbxreceive fetches the answer.                                      *)
MbxReceive ==
  /\ link.out # None /\ link' = [link EXCEPT !.out = None] /\ UNCHANGED fails

(* Its timer expires: nothing is to come, or the answer is late.           *)
MbxReceiveNone ==
  /\ IF link = [in |-> None, out |-> None] THEN UNCHANGED fails
     ELSE job.kind \in Unclear /\ fails < MaxFails /\ fails' = fails + 1
  /\ UNCHANGED link

(* The two steps that most calls share: the request, and the end of a call *)
(* that gets no answer.                                                    *)
SendRequest(kind, m, ok) ==
  /\ job.kind = kind /\ job.pc = "request" /\ MbxSend(m, ok)
  /\ IF ok THEN Goto("answer") ELSE Done(FALSE)
  /\ UNCHANGED <<loc, dev>>
NoAnswerEnds(kinds) ==
  job.kind \in kinds /\ job.pc = "answer" /\ MbxReceiveNone /\ Done(FALSE) /\ UNCHANGED <<loc, dev>>

(* The slave answers a request.                                            *)
Answer(ops, m) ==
  /\ link.in.op \in ops /\ link.out = None
  /\ link' = [in |-> None, out |-> m]
  /\ UNCHANGED <<job, loc, fails>>

(* The slave takes a request that has no answer.                           *)
Taken(op) == link.in.op = op /\ link' = [link EXCEPT !.in = None] /\ UNCHANGED <<job, loc, fails>>

(* The slave gives up a list or a download that the master does not go on  *)
(* with.                                                                   *)
DevGivesUp ==
  /\ dev.mode \in {"list", "soe"} /\ job.pc = "done" /\ dev' = NoSession
  /\ UNCHANGED <<job, loc, link, fails>>

(* The slave drops a request, but not a part of a download.                *)
DevIgnore ==
  /\ link.in.op \notin {"none", "soepart"} /\ fails < MaxFails
  /\ link' = [link EXCEPT !.in = None] /\ fails' = fails + 1
  /\ UNCHANGED <<job, loc, dev>>

=============================================================================
