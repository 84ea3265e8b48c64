---------------------------- MODULE SoeTransfer -----------------------------
(***************************************************************************)
(* ecx_SoEwrite (ec_soe.c): an IDN is written in fragments, of which only  *)
(* the last is answered; the next is sent when the slave has emptied its   *)
(* mailbox.  The slave is external: it puts the fragments together as they *)
(* come, and goes by their number only to see that a new download begins.  *)
(***************************************************************************)
EXTENDS MbxLink

LeftToWrite == Size[job.obj] - loc.pos
LastFragment == LeftToWrite <= MaxData

(* A fragment.  When it cannot be sent the next one is, all the same.      *)
SoeFragmentOf(data) ==
  IF LastFragment THEN [op |-> "soelast", data |-> data]
  ELSE [op |-> "soepart", data |-> data, left |-> LeftToWrite \div MaxData]
SoeFragment == SoeFragmentOf(Slice(Written, loc.pos, MaxData))

SoeWriteFragment(ok) ==
  /\ job.kind = "SoeWrite" /\ job.pc = "request" /\ MbxSend(SoeFragment, ok)
  /\ loc' = [loc EXCEPT !.pos = @ + Len(SoeFragment.data), !.skipped = @ \/ ~ok, !.zero = ~LastFragment]
  /\ IF ok THEN Goto(IF LastFragment THEN "answer" ELSE "empty")
     ELSE IF LastFragment THEN Done(FALSE) ELSE Goto("request")
  /\ UNCHANGED dev

(* ecx_mbxempty: the slave has taken the fragment, or has not in time.     *)
SoeEmpty ==
  /\ job.kind = "SoeWrite" /\ job.pc = "empty" /\ link.in = None
  /\ Goto("request") /\ UNCHANGED <<loc, link, dev, fails>>
SoeNotEmpty ==
  /\ job.kind = "SoeWrite" /\ job.pc = "empty" /\ link.in # None
  /\ fails < MaxFails /\ fails' = fails + 1
  /\ Goto("answer") /\ UNCHANGED <<loc, link, dev>>

(* The answer ends the call, and none ends it after the last fragment;     *)
(* loc.zero stands for NotLast.                                            *)
SoeWriteAnswer ==
  /\ job.kind = "SoeWrite" /\ job.pc = "answer" /\ MbxReceive
  /\ Done(link.out.op = "soeres") /\ UNCHANGED <<loc, dev>>
SoeWriteNoAnswer ==
  /\ job.kind = "SoeWrite" /\ job.pc = "answer" /\ MbxReceiveNone
  /\ IF loc.zero THEN Goto("request") ELSE Done(FALSE)
  /\ UNCHANGED <<loc, dev>>
-----------------------------------------------------------------------------
DevSoePart ==
  /\ Taken("soepart")
  /\ dev' = IF dev.mode = "soe" /\ link.in.left < dev.total
            THEN [dev EXCEPT !.buf = @ \o link.in.data, !.total = link.in.left]
            ELSE [NoSession EXCEPT !.mode = "soe", !.buf = link.in.data, !.total = link.in.left]
DevSoeLast ==
  /\ Answer({"soelast"}, [op |-> "soeres"])
  /\ dev' = [NoSession EXCEPT !.buf = IF dev.mode = "soe" THEN dev.buf \o link.in.data ELSE link.in.data]
DevSoeError == Answer({"soepart", "soelast"}, [op |-> "soeerror"]) /\ dev' = NoSession

SoeCall ==
  \/ \E ok \in BOOLEAN : SoeWriteFragment(ok)
  \/ SoeEmpty \/ SoeNotEmpty \/ SoeWriteAnswer \/ SoeWriteNoAnswer
SoeDevice == link.in # None /\ (DevSoePart \/ DevSoeLast \/ DevSoeError)
=============================================================================
