---------------------------- MODULE CoeServices -----------------------------
(***************************************************************************)
(* The CoE services beside SDO transfers (ec_coe.c): ecx_RxPDO and         *)
(* ecx_TxPDO, and the SDO information service: the list of objects, the    *)
(* description of one and of its entries.  An answer is recognised by its  *)
(* service alone, never by the object it is about.  The slave is external; *)
(* object o has Size[o] subindexes, and a list named o as many objects.    *)
(***************************************************************************)
EXTENDS MbxLink

CONSTANT OdRounds  \* answers after which ecx_readODlist stops, 128

ASSUME CoeAssumption == OdRounds \in Nat

First(s, n) == Slice(s, 0, n)
-----------------------------------------------------------------------------
(* ecx_RxPDO: what does not fit into the mailbox is left out; no answer.   *)
RxPdo(ok) ==
  /\ job.kind = "RxPdo" /\ job.pc = "request"
  /\ MbxSend([op |-> "rxpdo", data |-> First(Written, MaxData)], ok)
  /\ Done(ok) /\ UNCHANGED <<loc, dev>>

(* ecx_TxPDO: asks for a PDO and takes the first one that comes, if the    *)
(* buffer is large enough.                                                 *)
TxPdoRequest(ok) == SendRequest("TxPdo", [op |-> "txpdo", obj |-> job.obj], ok)
TxPdoAnswer ==
  /\ job.kind = "TxPdo" /\ job.pc = "answer" /\ MbxReceive
  /\ LET m == link.out IN
     IF m.op = "txpdores" /\ Len(m.data) <= job.cap
     THEN loc' = [loc EXCEPT !.buf = m.data] /\ Done(TRUE)
     ELSE Done(FALSE) /\ UNCHANGED loc
  /\ UNCHANGED dev
-----------------------------------------------------------------------------
(* ecx_readODlist: fragment after fragment; what the list has no room for  *)
(* is fetched and not kept.                                                *)
OdListRequest(ok) == SendRequest("OdList", [op |-> "odlist", obj |-> job.obj], ok)
OdEntries(m) == loc.buf \o First(m.data, job.cap - Len(loc.buf))
OdListAnswer ==
  /\ job.kind = "OdList" /\ job.pc = "answer" /\ MbxReceive
  /\ LET m == link.out IN
     IF m.op = "odlistres"
     THEN /\ loc' = [loc EXCEPT !.buf = OdEntries(m), !.packet = @ + 1]
          /\ IF m.left > 0 /\ loc.packet < OdRounds THEN Goto("answer") ELSE Done(TRUE)
     ELSE Done(FALSE) /\ UNCHANGED loc
  /\ UNCHANGED dev

(* ecx_readODdescription: the name is cut off at EC_MAXNAME.               *)
OdDescriptionRequest(ok) == SendRequest("OdDesc", [op |-> "od", obj |-> job.obj], ok)
OdDescriptionAnswer ==
  /\ job.kind = "OdDesc" /\ job.pc = "answer" /\ MbxReceive
  /\ LET m == link.out IN
     IF m.op = "odres" THEN loc' = [loc EXCEPT !.buf = First(m.data, job.cap)] /\ Done(TRUE)
     ELSE Done(FALSE) /\ UNCHANGED loc
  /\ UNCHANGED dev
-----------------------------------------------------------------------------
(* ecx_readOE: ecx_readOEsingle for each subindex in turn, whether the one *)
(* before succeeded or not; the result is that of the last.  Each fetches  *)
(* what is in the answer mailbox first.                                    *)
NextEntry(ok) == IF loc.pos + 1 < Size[job.obj] THEN Goto("drain") ELSE Done(ok)
OeDrain ==
  /\ job.kind = "Oe" /\ job.pc = "drain"
  /\ link' = [link EXCEPT !.out = None] /\ Goto("request") /\ UNCHANGED <<loc, dev, fails>>

OeSingleRequest(ok) ==
  /\ job.kind = "Oe" /\ job.pc = "request"
  /\ MbxSend([op |-> "oe", obj |-> job.obj, sub |-> loc.pos + 1], ok)
  /\ IF ok THEN Goto("answer") /\ UNCHANGED loc
     ELSE NextEntry(FALSE) /\ loc' = [loc EXCEPT !.pos = @ + 1]
  /\ UNCHANGED dev

(* The answer is entered at the subindex asked for.                        *)
EntryOf(m) == Append(loc.buf, <<loc.pos + 1, m.entry>>)
OeSingleAnswer ==
  /\ job.kind = "Oe" /\ job.pc = "answer"
  /\ \/ /\ MbxReceive
        /\ LET m == link.out IN
           IF m.op = "oeres"
           THEN /\ loc' = [loc EXCEPT !.pos = @ + 1, !.buf = EntryOf(m)]
                /\ NextEntry(TRUE)
           ELSE NextEntry(FALSE) /\ loc' = [loc EXCEPT !.pos = @ + 1]
     \/ MbxReceiveNone /\ NextEntry(FALSE) /\ loc' = [loc EXCEPT !.pos = @ + 1]
  /\ UNCHANGED dev
-----------------------------------------------------------------------------
(* The slave.                                                              *)
DevRxPdo == Taken("rxpdo") /\ dev' = [NoSession EXCEPT !.buf = link.in.data]
DevTxPdo ==
  /\ Answer({"txpdo"}, [op |-> "txpdores", data |-> First(Payload(link.in.obj, Size[link.in.obj]), MaxData)])
  /\ UNCHANGED dev
DevOd ==
  /\ Answer({"od"}, [op |-> "odres", data |-> First(Payload(link.in.obj, Size[link.in.obj]), MaxData)])
  /\ UNCHANGED dev
DevOe ==
  /\ Answer({"oe"}, [op |-> "oeres", entry |-> <<link.in.obj, link.in.sub>>])
  /\ UNCHANGED dev

(* A list is sent in as many answers as it takes, one when the one before  *)
(* is fetched.                                                             *)
ListPart(o, pos) ==
  LET part == Slice(Payload(o, Size[o]), pos, MaxData)
  IN  [op |-> "odlistres", data |-> part, left |-> (Size[o] - pos - Len(part) + MaxData - 1) \div MaxData]
ListSession(o, pos) ==
  IF pos + MaxData < Size[o] THEN [NoSession EXCEPT !.mode = "list", !.obj = o, !.pos = pos + MaxData]
  ELSE NoSession
DevOdList == Answer({"odlist"}, ListPart(link.in.obj, 0)) /\ dev' = ListSession(link.in.obj, 0)
DevOdListNext ==
  /\ dev.mode = "list" /\ link.out = None
  /\ link' = [link EXCEPT !.out = ListPart(dev.obj, dev.pos)]
  /\ dev' = ListSession(dev.obj, dev.pos) /\ UNCHANGED <<job, loc, fails>>

DevInfoError == Answer({"txpdo", "odlist", "od", "oe"}, [op |-> "infoerror"]) /\ UNCHANGED dev

CoeCall ==
  \/ \E ok \in BOOLEAN :
       \/ RxPdo(ok) \/ TxPdoRequest(ok) \/ OdListRequest(ok)
       \/ OdDescriptionRequest(ok) \/ OeSingleRequest(ok)
  \/ TxPdoAnswer \/ OdListAnswer \/ OdDescriptionAnswer \/ OeDrain \/ OeSingleAnswer
  \/ NoAnswerEnds({"TxPdo", "OdList", "OdDesc"})

CoeDevice ==
  \/ link.in # None /\ (DevRxPdo \/ DevTxPdo \/ DevOd \/ DevOe \/ DevOdList \/ DevInfoError)
  \/ DevOdListNext
=============================================================================
