----------------------------- MODULE SlaveStates ----------------------------
(***************************************************************************)
(* The states of the slaves (AL states): ecx_readstate, ecx_writestate and *)
(* ecx_statecheck of ec_main.c, ecx_recover_slave and ecx_reconfig_slave   *)
(* of ec_config.c, and the two programs that bring lost slaves back with   *)
(* them, recover_or_report_slaves of the DLL and fieldbus_check_state of   *)
(* lms_master.  Each frame is a step; the slaves go on between them.       *)
(***************************************************************************)
EXTENDS Integers, FiniteSets

CONSTANTS
  NumSlaves,   \* slavecount
  MaxMulti,    \* MAX_FPRD_MULTI
  Identity,    \* per slot: aliasadr, eep_id, eep_man and eep_rev, as one value
  Stranger,    \* the identity of a device that was never configured
  SafeCounts,  \* slots whose slaves count in full in SAFE_OP: no outputs
  Losable,     \* the kinds of frames that may be lost, retries included
  Programs,    \* {"dll", "lms"}
  MaxFaults    \* bound: frames lost, slaves reset, gone, slow or failing

Slots == 1..NumSlaves
None == 0     \* EC_STATE_NONE
InitSt == 1   \* EC_STATE_INIT
PreOp == 2    \* EC_STATE_PRE_OP
SafeOp == 4   \* EC_STATE_SAFE_OP
Op == 8       \* EC_STATE_OPERATIONAL
NoAddress == 0
TempNode == NumSlaves + 1  \* EC_TEMPNODE; slot i has station address i

ASSUME StatesAssumption ==
  /\ NumSlaves \in Nat \ {0} /\ MaxMulti \in Nat \ {0}
  /\ DOMAIN Identity = Slots /\ Stranger \notin {Identity[i] : i \in Slots}

VARIABLES
  program,  \* who looks after the slaves
  dev,      \* the slaves (external), by their place on the bus
  sl,       \* slavelist: [state, err, lost], and 0: slavelist[0].state
  wk,       \* the cyclic thread: [pc, at: the slave it is looking at, operational,
            \* missed: history, slots whose FMMUs were written to nobody]
  faults
stvars == <<program, dev, sl, wk, faults>>

At(a) == {i \in Slots : dev[i].on /\ dev[i].addr = a}
Present == {i \in Slots : dev[i].on}
Reached(a) == IF At(a) = {} THEN None ELSE dev[CHOOSE i \in At(a) : TRUE].st
InError(a) == At(a) # {} /\ dev[CHOOSE i \in At(a) : TRUE].err
(* The slave that an auto increment address reaches.                       *)
AtPlace(k) == {i \in Present : Cardinality({j \in Present : j <= i}) = k}

Fault == faults < MaxFaults /\ faults' = faults + 1
Lose(kind) == kind \in Losable /\ Fault
Fine == UNCHANGED faults

(* A write to ALCTL is a request.                                          *)
Request(a, st) == [i \in Slots |-> IF i \in At(a) THEN [dev[i] EXCEPT !.req = st] ELSE dev[i]]
Addressed(a, b) == [i \in Slots |-> IF i \in At(a) THEN [dev[i] EXCEPT !.addr = b] ELSE dev[i]]
Go(pc) == wk' = [wk EXCEPT !.pc = pc]
After == IF wk.at = NumSlaves THEN [wk EXCEPT !.pc = "cycle", !.at = 1]
         ELSE [wk EXCEPT !.pc = "slave", !.at = @ + 1]
NextSlave == wk' = After

Device(i) == [on |-> TRUE, addr |-> i, st |-> SafeOp, err |-> FALSE, req |-> None,
              sm |-> TRUE, fmmu |-> TRUE, ident |-> Identity[i]]
Unpowered(d) == [d EXCEPT !.addr = NoAddress, !.st = InitSt, !.err = FALSE, !.req = None,
                          !.sm = FALSE, !.fmmu = FALSE]

(* The slaves are configured, and in this state.                           *)
StartStates(p, st, pc) ==
  /\ program = p
  /\ dev = [i \in Slots |-> [Device(i) EXCEPT !.st = st]]
  /\ sl = [i \in 0..NumSlaves |-> [state |-> st, err |-> FALSE, lost |-> FALSE]]
  /\ wk = [pc |-> pc, at |-> 1, operational |-> FALSE, missed |-> {}]
  /\ faults = 0
StInit == \E p \in Programs : StartStates(p, SafeOp, "start")

-----------------------------------------------------------------------------
(***************************************************************************)
(* ecx_readstate: one broadcast; when it does not tell the state of every  *)
(* slave, frames of MaxMulti reads (ecx_FPRD_multi).  lost are the slots   *)
(* whose frame is lost.  Faulty variant: nobody asks how many answered.    *)
(***************************************************************************)
AllIn(st) == \A i \in Present : dev[i].st = st /\ ~dev[i].err
Believe(s, st, err) == [s EXCEPT !.state = st, !.err = err]
Lowest(states) == CHOOSE s \in states : \A t \in states : s <= t
EachState(lost) ==
  LET got == [i \in Slots |-> IF i \in lost THEN Believe(sl[i], None, FALSE)
                              ELSE Believe(sl[i], Reached(i), InError(i))]
  IN  [i \in 0..NumSlaves |->
         IF i = 0 THEN Believe(sl[0], Lowest({got[j].state : j \in Slots}), FALSE) ELSE got[i]]
SameState(st) == [i \in 0..NumSlaves |-> Believe(sl[i], st, FALSE)]
Frames == {{i \in Slots : (i - 1) \div MaxMulti = k} : k \in 0..((NumSlaves - 1) \div MaxMulti)}

BroadcastTellsAny(st) == Present # {} /\ AllIn(st)
BroadcastTells(st) == Present # {} /\ AllIn(st) /\ Cardinality(Present) >= NumSlaves

ReadState ==
  \/ \E st \in {InitSt, PreOp, SafeOp, Op} :
       BroadcastTells(st) /\ sl' = SameState(st) /\ Fine
  \/ /\ ~\E st \in {InitSt, PreOp, SafeOp, Op} : BroadcastTells(st)
     /\ \/ sl' = EachState({}) /\ Fine
        \/ \E f \in Frames : sl' = EachState(f) /\ Lose("read")
  \/ sl' = EachState({}) /\ Lose("read")     \* the broadcast is lost

(* worker_proc: all slaves are asked for OP, forty times looked at, and    *)
(* what is found in the end is announced.                                  *)
StartOperational ==
  /\ wk.pc = "start" /\ Go("startwait") /\ Fine
  /\ dev' = [i \in Slots |-> IF dev[i].on THEN [dev[i] EXCEPT !.req = Op] ELSE dev[i]]
  /\ UNCHANGED sl

Announce ==
  /\ wk.pc = "startwait" /\ ReadState
  /\ wk' = [wk EXCEPT !.pc = "cycle", !.operational = sl'[0].state = Op]
  /\ UNCHANGED dev

(* The counter of a cycle is as expected when every slave takes part.      *)
(* Process data needs the FMMUs of a slave, and not its address.           *)
SlaveOf(i) == {d \in Present : dev[d].ident = Identity[i]}
Counts(i) ==
  \E d \in SlaveOf(i) : /\ dev[d].sm /\ dev[d].fmmu
                        /\ dev[d].st = Op \/ (dev[d].st = SafeOp /\ i \in SafeCounts)
Full == \A i \in Slots : Counts(i)

(* One cycle: a counter that is too low is looked into, else the states    *)
(* are read from time to time.                                             *)
Cycle ==
  /\ wk.pc = "cycle" /\ UNCHANGED dev
  /\ \/ Full /\ ReadState /\ UNCHANGED wk
     \/ ~Full /\ Go("read") /\ Fine /\ UNCHANGED sl
     \/ Lose("process") /\ Go("read") /\ UNCHANGED sl

(* recover_or_report_slaves and fieldbus_check_state begin.                *)
CheckStates == wk.pc = "read" /\ ReadState /\ Go("slave") /\ UNCHANGED dev

Looking(st, err) == wk.pc = "slave" /\ sl[wk.at].state = st /\ sl[wk.at].err = err

IsOperational ==
  /\ Looking(Op, FALSE) /\ NextSlave /\ Fine /\ UNCHANGED dev
  /\ sl' = IF program = "lms" THEN [sl EXCEPT ![wk.at].lost = FALSE] ELSE sl

AckError ==
  /\ Looking(SafeOp, TRUE) /\ NextSlave /\ UNCHANGED sl
  /\ \/ Fine /\ dev' = [i \in Slots |-> IF i \in At(wk.at) THEN [dev[i] EXCEPT !.err = FALSE]
                                        ELSE dev[i]]
     \/ Lose("control") /\ UNCHANGED dev

RequestOp ==
  /\ Looking(SafeOp, FALSE) /\ NextSlave
  /\ sl' = [sl EXCEPT ![wk.at] = Believe(@, Op, FALSE)]
  /\ \/ Fine /\ dev' = Request(wk.at, Op)
     \/ Lose("control") /\ UNCHANGED dev

(* A slave that does not answer: ecx_statecheck, and it is lost; a lost    *)
(* one is recovered by the DLL, and by lms_master never.  Faulty variant:  *)
(* it is not remembered as lost.                                           *)
LookAgain(answers) ==
  /\ Looking(None, FALSE) /\ ~sl[wk.at].lost /\ NextSlave /\ UNCHANGED dev
  /\ IF answers THEN Fine ELSE Lose("read")
StateSeen(answers) == IF answers THEN Reached(wk.at) ELSE None
ErrorSeen(answers) == answers /\ InError(wk.at)

CheckLostForgets ==
  \E answers \in BOOLEAN :
    /\ LookAgain(answers)
    /\ sl' = [sl EXCEPT ![wk.at] = Believe(@, StateSeen(answers), ErrorSeen(answers))]
CheckLost ==
  \E answers \in BOOLEAN :
    /\ LookAgain(answers)
    /\ sl' = [sl EXCEPT ![wk.at] = [state |-> StateSeen(answers), err |-> ErrorSeen(answers),
                                    lost |-> StateSeen(answers) = None]]

LeaveLost ==
  /\ Looking(None, FALSE) /\ sl[wk.at].lost /\ program = "lms"
  /\ NextSlave /\ Fine /\ UNCHANGED <<dev, sl>>

-----------------------------------------------------------------------------
(* ecx_reconfig_slave, of a slave that answers and is in another state.    *)
ReconfigInit ==
  /\ wk.pc = "slave" /\ UNCHANGED sl
  /\ sl[wk.at].state # None /\ ~(sl[wk.at].state = Op /\ ~sl[wk.at].err)
  /\ sl[wk.at].state # SafeOp
  /\ \/ At(wk.at) # {} /\ dev' = Request(wk.at, InitSt) /\ Go("init") /\ Fine
     \/ At(wk.at) = {} /\ UNCHANGED dev /\ NextSlave /\ Fine
     \/ UNCHANGED dev /\ NextSlave /\ Lose("control")

(* ecx_statecheck: waits for the state, until the slave has decided        *)
(* otherwise, does not answer, or the time is over.                        *)
StateCheck(st, ok) ==
  LET see(s, e) == sl' = [sl EXCEPT ![wk.at] = Believe(@, s, e)]
      deciding == \E i \in At(wk.at) : dev[i].req # None
  IN  \/ ~deciding /\ see(Reached(wk.at), InError(wk.at)) /\ Fine /\ ok = (Reached(wk.at) = st)
      \/ /\ deciding /\ Fault /\ ~ok
         /\ see(Reached(wk.at), InError(wk.at)) \/ see(None, FALSE)

ReconfigInitDone ==
  /\ wk.pc = "init" /\ UNCHANGED dev
  /\ \E ok \in BOOLEAN : StateCheck(InitSt, ok) /\ IF ok THEN Go("sm") ELSE NextSlave

ReconfigPreOp ==
  /\ wk.pc = "sm" /\ Go("preop") /\ UNCHANGED sl
  /\ LET with(sm) == [i \in Slots |-> IF i \in At(wk.at) THEN [dev[i] EXCEPT !.sm = @ \/ sm, !.req = PreOp]
                                      ELSE dev[i]]
     IN  \/ dev' = with(TRUE) /\ Fine
         \/ dev' = with(FALSE) /\ Lose("sm")

ReconfigPreOpDone ==
  /\ wk.pc = "preop" /\ UNCHANGED dev
  /\ \E ok \in BOOLEAN : StateCheck(PreOp, ok) /\ IF ok THEN Go("safeop") ELSE NextSlave

ReconfigSafeOp ==
  /\ wk.pc = "safeop" /\ Go("fmmu") /\ UNCHANGED sl
  /\ \/ dev' = Request(wk.at, SafeOp) /\ Fine
     \/ UNCHANGED dev /\ Lose("control")

WriteFmmus ==
  [i \in Slots |-> IF i \in At(wk.at) THEN [dev[i] EXCEPT !.fmmu = TRUE] ELSE dev[i]]

(* Whether SAFE_OP was reached in time or not the FMMUs are programmed.    *)
Wrote(done) ==
  wk' = [After EXCEPT !.missed = IF done /\ At(wk.at) # {} THEN @ \ {wk.at} ELSE @ \cup {wk.at}]

ReconfigFmmus ==
  /\ wk.pc = "fmmu"
  /\ \/ (\E ok \in BOOLEAN : StateCheck(SafeOp, ok)) /\ dev' = WriteFmmus /\ Wrote(TRUE)
     \/ /\ Lose("fmmu") /\ UNCHANGED dev /\ Wrote(FALSE)
        /\ sl' = [sl EXCEPT ![wk.at] = Believe(@, Reached(wk.at), InError(wk.at))]

-----------------------------------------------------------------------------
(* ecx_recover_slave: what is at the place of the slave has its address,   *)
(* another one's, or none; ...                                             *)
Recover ==
  /\ Looking(None, FALSE) /\ sl[wk.at].lost /\ program = "dll" /\ UNCHANGED <<dev, sl>>
  /\ \/ Fine /\ IF \E i \in AtPlace(wk.at) : dev[i].addr = NoAddress THEN Go("temp") ELSE NextSlave
     \/ Lose("read") /\ NextSlave

(* ... if none it gets the temporary one ...                               *)
RecoverTemp ==
  /\ wk.pc = "temp" /\ UNCHANGED sl
  /\ LET cleared == Addressed(TempNode, NoAddress)
     IN  \/ /\ AtPlace(wk.at) # {} /\ Go("identity") /\ Fine
            /\ dev' = [i \in Slots |-> IF i \in AtPlace(wk.at) THEN [dev[i] EXCEPT !.addr = TempNode]
                                       ELSE cleared[i]]
         \/ AtPlace(wk.at) = {} /\ NextSlave /\ dev' = cleared /\ Fine
         \/ NextSlave /\ dev' = cleared /\ Lose("read")

(* ... and its own again when it is the device that was configured.        *)
(* Faulty variant: nobody looks.                                           *)
Known == \A i \in At(TempNode) : dev[i].ident = Identity[wk.at]
Identified(known, good, bad) ==
  /\ wk.pc = "identity" /\ NextSlave /\ UNCHANGED sl
  /\ \/ known /\ dev' = Addressed(TempNode, good) /\ Fine
     \/ ~known /\ dev' = Addressed(TempNode, bad) /\ Fine
     \/ dev' = Addressed(TempNode, bad) /\ Lose("sii")   \* ecx_readeeprom gives 0
     \/ UNCHANGED dev /\ Lose("address")

RecoverIdentityAny == Identified(TRUE, wk.at, NoAddress)
RecoverIdentity == Identified(Known, wk.at, NoAddress)

Worker ==
  \/ StartOperational \/ Announce \/ Cycle \/ CheckStates
  \/ IsOperational \/ AckError \/ RequestOp \/ CheckLost \/ LeaveLost
  \/ ReconfigInit \/ ReconfigInitDone \/ ReconfigPreOp \/ ReconfigPreOpDone
  \/ ReconfigSafeOp \/ ReconfigFmmus
  \/ Recover \/ RecoverTemp \/ RecoverIdentity

-----------------------------------------------------------------------------
(* The slaves (external): they follow a request or refuse it.              *)
Follows(d) ==
  \/ d.req <= d.st
  \/ ~d.err /\ d.req = 2 * d.st /\ d.sm
Reacts(i) ==
  /\ dev[i].on /\ dev[i].req # None
  /\ dev' = [dev EXCEPT ![i] = IF Follows(@) THEN [@ EXCEPT !.st = dev[i].req, !.err = FALSE, !.req = None]
                               ELSE [@ EXCEPT !.err = TRUE, !.req = None]]
  /\ Fine

(* Power off and on; out of the bus, and back as it was or a stranger in   *)
(* its place; an error of its own.                                         *)
Drops(d) == IF d.st = Op THEN [d EXCEPT !.st = SafeOp, !.err = TRUE] ELSE d
Resets(i) == dev[i].on /\ Fault /\ dev' = [dev EXCEPT ![i] = Unpowered(@)]
Unplugged(i) == dev[i].on /\ Fault /\ dev' = [dev EXCEPT ![i] = [Drops(@) EXCEPT !.on = FALSE, !.req = None]]
Returns(i) == ~dev[i].on /\ Fine /\ dev' = [dev EXCEPT ![i].on = TRUE]
Replaced(i) == ~dev[i].on /\ Fault /\ dev' = [dev EXCEPT ![i] = [Unpowered(@) EXCEPT !.ident = Stranger]]
Fails(i) == dev[i].on /\ dev[i].st = Op /\ Fault /\ dev' = [dev EXCEPT ![i] = Drops(@)]

StNext ==
  /\ \/ Worker
     \/ /\ UNCHANGED <<sl, wk>>
        /\ \E i \in Slots : Reacts(i) \/ Resets(i) \/ Unplugged(i) \/ Returns(i) \/ Replaced(i) \/ Fails(i)
  /\ UNCHANGED program

StSpec == StInit /\ [][StNext]_stvars

(* What the program's scheduling and the slaves guarantee, one by one: the *)
(* thread goes on, slaves react, and what was unplugged is plugged in.     *)
WorkerStep == Worker /\ UNCHANGED program
ReactStep(i) == Reacts(i) /\ UNCHANGED <<sl, wk, program>>
ReturnStep(i) == Returns(i) /\ UNCHANGED <<sl, wk, program>>

-----------------------------------------------------------------------------
(* A slave that is operational has its sync managers and FMMUs, and does   *)
(* not run with outputs that nobody writes, unless the very frames with    *)
(* its FMMUs reached nobody: ecx_reconfig_slave writes them after SAFE_OP  *)
(* and does not look at the counter.                                       *)
OperationalIsConfigured ==
  \A i \in Slots : dev[i].st = Op =>
    dev[i].sm /\ (dev[i].fmmu \/ i \in wk.missed)

(* ecx_recover_slave: an address is given only to the device that was      *)
(* configured with it, and never to two.                                   *)
AddressesAreRight ==
  /\ \A i \in Slots : dev[i].addr \in Slots => dev[i].ident = Identity[dev[i].addr]
  /\ \A a \in Slots : Cardinality(At(a)) <= 1

(* ecx_recover_slave and ecx_reconfig_slave, one step at a time while      *)
(* slaves leave, return and change places: no slave ends up operational    *)
(* without its configuration or under another one's address.               *)
RecoveryIsSound == OperationalIsConfigured /\ AddressesAreRight

(* ecx_readstate: a slave is said to be operational only if it is there    *)
(* and was operational when it was asked, whether one frame or many told.  *)
BelievedOperational ==
  [][wk.pc \in {"startwait", "read"} /\ wk'.pc # wk.pc =>
       \A i \in Slots : sl'[i].state = Op \/ sl'[0].state = Op =>
         \E d \in SlaveOf(i) : dev[d].st = Op]_stvars

(* Once faults have ended every slave takes part again, for good, as long  *)
(* as what comes back is what was configured, and none of these happened:  *)
(* every slave on the bus has lost its address (the broadcast says INIT    *)
(* for all, and ecx_reconfig_slave, not ecx_recover_slave, is called for   *)
(* ever); a slave was left at the temporary address; its FMMUs were        *)
(* missed.  lms_master does not bring back a slave that lost its address.  *)
AllForgotten == \A i \in Slots : dev[i].on /\ dev[i].addr # i
CanRecover ==
  /\ \A i \in Slots : dev[i].ident = Identity[i]
  /\ ~AllForgotten /\ wk.missed = {}
  /\ wk.pc # "identity" => \A i \in Slots : dev[i].addr # TempNode
  /\ program = "lms" => \A i \in Slots : dev[i].addr = i
CounterRecovers == []CanRecover => <>[]Full
=============================================================================
