----------------------------- MODULE GuiProof -------------------------------
(***************************************************************************)
(* The sessions and the repeated moves of the GUI are sound for any number *)
(* of workers, repeat threads, scans, clicks and errors.                   *)
(*                                                                         *)
(* Sessions: unless an ECAT_Close gave up waiting, the handle that the DLL *)
(* keeps is that of the only worker that lives (OneLive), and where that   *)
(* worker is says what the bus and the flags are (Phases).  Repeats: the   *)
(* thread that moves holds repeat_running (Repeater), and from Stop on     *)
(* repeat_stop stands until every thread has ended (Stopped).              *)
(***************************************************************************)
EXTENDS EthercatGui, FiniteSetTheorems, TLAPS

Handles == 0..MaxWorkers
CoreRec == [opened : BOOLEAN, running : BOOLEAN, stop : BOOLEAN, worker : Handles]
BusRec == [lock : Handles, port : BOOLEAN, slaves : BOOLEAN,
           phase : {"down", "bringup", "up"}, al : {"INIT", "PRE_OP", "SAFE_OP", "OP"}]
StatRec == [connected : BOOLEAN, operational : BOOLEAN]
FaultRec == [errors : Nat, timeouts : Nat]
WorkerPc == {"none", "created", "memset", "init", "configure", "loop", "cycle", "report", "takedown",
             "disconnect", "unopen", "unrun", "dead"}
UiRec == [pc : {"idle", "disconnect", "close", "joinpoll", "joinrepeat", "joincoe", "quit", "call"},
          clicks : Nat, msgs : Nat, shown : BOOLEAN, pending : BOOLEAN, snapOpen : BOOLEAN,
          pollStop : BOOLEAN, repeatStop : BOOLEAN, repeatRunning : BOOLEAN, repeatThread : Nat,
          coeRunning : BOOLEAN, coeThread : Nat, closed : BOOLEAN, moves : {-1, 0, 1, 2}, undone : BOOLEAN]
RepeatPc == {"none", "loop1", "loop2", "move1", "move2", "moving1", "moving2", "free", "tail", "dead"}

DllTypeOK ==
  /\ core \in CoreRec /\ bus \in BusRec /\ stat \in StatRec /\ faults \in FaultRec
  /\ wk \in [Workers -> WorkerPc]

GuiTypeOK ==
  /\ ui \in UiRec
  /\ poll \in [pc : {"collect", "publish", "dead"}, open : BOOLEAN]
  /\ rep \in [Repeats -> RepeatPc]
  /\ coe \in [Scans -> {"none", "scan", "dead"}]

-----------------------------------------------------------------------------
(* bus_lock is the worker's that brings the bus up, and what is reached    *)
(* without it is either configured or closed.                              *)
LockIsConfigure == \A w \in Workers : wk[w] = "configure" <=> bus.lock = w
PortIsUp == bus.lock = 0 /\ bus.port => bus.phase = "up"

NoLive == \A w \in Workers : wk[w] \in {"none", "dead"}

(* The DLL has the handle of the worker that lives.                        *)
Orderly == PromptStart /\ faults.timeouts = 0
OneLive == Orderly => \A w \in Workers : wk[w] \notin {"none", "dead"} => w = core.worker

Down == ~bus.port /\ bus.al = "INIT"

Phases ==
  Orderly =>
    /\ NoLive => Down /\ ~stat.connected /\ ~core.opened /\ ~core.running
    /\ \A w \in Workers :
         /\ wk[w] \in {"created", "memset", "init", "unopen", "unrun"} => Down /\ ~stat.connected
         /\ wk[w] = "disconnect" => Down
         /\ wk[w] \in {"configure", "loop", "cycle", "report", "takedown"} => bus.slaves
         /\ wk[w] \notin {"none", "dead", "created"} => core.running
         /\ wk[w] = "unrun" => ~core.opened

ClosedHasNone == ui.closed => core.worker = 0 /\ faults.timeouts = 0

SessionInv ==
  DllTypeOK /\ GuiTypeOK /\ LockIsConfigure /\ PortIsUp /\ OneLive /\ Phases /\ ClosedHasNone

-----------------------------------------------------------------------------
(* The thread that moves holds repeat_running.                             *)
Repeating(i) == rep[i] \notin {"none", "tail", "dead"}
Repeater ==
  /\ \A i \in Repeats : Repeating(i) => ui.repeatRunning
  /\ \A i, j \in Repeats : Repeating(i) /\ Repeating(j) => i = j

(* Since Stop: repeat_stop stands, or every thread has ended; and a thread *)
(* that has begun its last move does not decide on another one.            *)
Stopped ==
  ui.moves >= 0 /\ ~ui.undone =>
    /\ ui.moves <= 1
    /\ ui.repeatStop \/ \A i \in Repeats : rep[i] \in {"none", "dead"}
    /\ ui.moves = 1 => \A i \in Repeats : rep[i] \notin {"move1", "move2"}

Told == ui.pending => ui.msgs > 0

RepeatInv == GuiTypeOK /\ Repeater /\ Stopped /\ Told

-----------------------------------------------------------------------------
(* A thread begins a function of the DLL only after the one before.        *)
CallInv ==
  /\ DOMAIN call = Callers
  /\ \A c \in Callers : DOMAIN call[c] = {"prog", "at", "act", "ok"}
  /\ \A c \in Callers : call[c].at = "lock" => Busy(c)
  /\ ui.pc # "call" => ~Busy(UI)
  /\ \A i \in Repeats : rep[i] \notin {"moving1", "moving2"} => ~Busy(R(i))
  /\ \A i \in Scans : coe[i] # "scan" => ~Busy(S(i))
-----------------------------------------------------------------------------
(* A worker moves from one place of worker_proc to the next.               *)
LEMMA GotoPlace ==
  ASSUME DllTypeOK, NEW w \in Workers, NEW pc \in WorkerPc, Goto(w, pc)
  PROVE  wk' \in [Workers -> WorkerPc] /\ wk'[w] = pc /\ \A v \in Workers : v # w => wk'[v] = wk[v]
BY DEF DllTypeOK, Goto

(* The steps of a worker keep the session sound: one step for each place.  *)
LEMMA WorkerSession ==
  ASSUME SessionInv, NEW w \in Workers, WorkerStep(w), GuiUnchanged
  PROVE  SessionInv'
<1> USE DEF SessionInv, DllTypeOK
<1>0. 0 \notin Workers /\ w \in Handles /\ 0 \in Handles /\ GuiTypeOK' /\ ui' = ui
  BY DllAssumption DEF Workers, Handles, GuiUnchanged, GuiTypeOK
<1>1. CASE WorkerStart(w)
  <2>1. wk' \in [Workers -> WorkerPc] /\ wk'[w] = "memset" /\ \A v \in Workers : v # w => wk'[v] = wk[v]
    BY <1>1, GotoPlace DEF WorkerStart, WorkerPc
  <2>2. core' \in CoreRec /\ bus' \in BusRec /\ stat' \in StatRec /\ faults' \in FaultRec
    BY <1>1 DEF WorkerStart, CoreRec, BusRec, StatRec, FaultRec
  <2>3. LockIsConfigure' /\ PortIsUp'
    BY <1>1, <1>0, <2>1, <2>2 DEF WorkerStart, BusRec, LockIsConfigure, PortIsUp
  <2>4. OneLive' /\ ClosedHasNone'
    BY <1>1, <1>0, <2>1, <2>2 DEF WorkerStart, CoreRec, FaultRec, OneLive, Orderly, ClosedHasNone
  <2>5. Phases'
    BY <1>1, <1>0, <2>1, <2>2 DEF WorkerStart, CoreRec, BusRec, StatRec, FaultRec, OneLive, Orderly, Phases, NoLive, Down
  <2> QED BY <1>0, <2>1, <2>2, <2>3, <2>4, <2>5
<1>2. CASE WorkerMemset(w)
  <2>1. wk' \in [Workers -> WorkerPc] /\ wk'[w] = "init" /\ \A v \in Workers : v # w => wk'[v] = wk[v]
    BY <1>2, GotoPlace DEF WorkerMemset, WorkerPc
  <2>2. core' \in CoreRec /\ bus' \in BusRec /\ stat' \in StatRec /\ faults' \in FaultRec
    BY <1>2 DEF WorkerMemset, CoreRec, BusRec, StatRec, FaultRec
  <2>3. LockIsConfigure' /\ PortIsUp'
    BY <1>2, <1>0, <2>1, <2>2 DEF WorkerMemset, BusRec, LockIsConfigure, PortIsUp
  <2>4. OneLive' /\ ClosedHasNone'
    BY <1>2, <1>0, <2>1, <2>2 DEF WorkerMemset, CoreRec, FaultRec, OneLive, Orderly, ClosedHasNone
  <2>5. Phases'
    BY <1>2, <1>0, <2>1, <2>2 DEF WorkerMemset, CoreRec, BusRec, StatRec, FaultRec, OneLive, Orderly, Phases, NoLive, Down
  <2> QED BY <1>0, <2>1, <2>2, <2>3, <2>4, <2>5
<1>3. CASE WorkerScan(w)
  <2>1. wk' \in [Workers -> WorkerPc] /\ wk'[w] = "configure" /\ \A v \in Workers : v # w => wk'[v] = wk[v]
    BY <1>3, GotoPlace DEF WorkerScan, WorkerPc
  <2>2. core' \in CoreRec /\ bus' \in BusRec /\ stat' \in StatRec /\ faults' \in FaultRec
    <3>1. bus' \in BusRec
      BY <1>0, <1>3 DEF WorkerScan, BusRec
    <3> QED BY <1>3, <3>1 DEF WorkerScan
  <2>3. LockIsConfigure' /\ PortIsUp'
    BY <1>3, <1>0, <2>1, <2>2 DEF WorkerScan, BusRec, LockIsConfigure, PortIsUp
  <2>4. OneLive' /\ ClosedHasNone'
    BY <1>3, <1>0, <2>1, <2>2 DEF WorkerScan, CoreRec, FaultRec, OneLive, Orderly, ClosedHasNone
  <2>5. Phases'
    BY <1>3, <1>0, <2>1, <2>2 DEF WorkerScan, CoreRec, BusRec, StatRec, FaultRec, OneLive, Orderly, Phases, NoLive, Down
  <2> QED BY <1>0, <2>1, <2>2, <2>3, <2>4, <2>5
<1>4. CASE WorkerNoBus(w)
  <2>1. wk' \in [Workers -> WorkerPc] /\ wk'[w] = "unopen" /\ \A v \in Workers : v # w => wk'[v] = wk[v]
    BY <1>4, GotoPlace DEF WorkerNoBus, WorkerPc
  <2>2. core' \in CoreRec /\ bus' \in BusRec /\ stat' \in StatRec /\ faults' \in FaultRec
    <3>1. bus' \in BusRec
      BY <1>4 DEF WorkerNoBus, BusRec
    <3>2. faults' \in FaultRec
      BY <1>4 DEF WorkerNoBus, FaultRec
    <3> QED BY <1>4, <3>1, <3>2 DEF WorkerNoBus
  <2>3. LockIsConfigure' /\ PortIsUp'
    BY <1>4, <1>0, <2>1, <2>2 DEF WorkerNoBus, BusRec, LockIsConfigure, PortIsUp
  <2>4. OneLive' /\ ClosedHasNone'
    BY <1>4, <1>0, <2>1, <2>2 DEF WorkerNoBus, CoreRec, FaultRec, OneLive, Orderly, ClosedHasNone
  <2>5. Phases'
    BY <1>4, <1>0, <2>1, <2>2 DEF WorkerNoBus, CoreRec, BusRec, StatRec, FaultRec, OneLive, Orderly, Phases, NoLive, Down
  <2> QED BY <1>0, <2>1, <2>2, <2>3, <2>4, <2>5
<1>5. CASE WorkerConfigure(w)
  <2>1. wk' \in [Workers -> WorkerPc] /\ wk'[w] = "loop" /\ \A v \in Workers : v # w => wk'[v] = wk[v]
    BY <1>5, GotoPlace DEF WorkerConfigure, WorkerPc
  <2>2. core' \in CoreRec /\ bus' \in BusRec /\ stat' \in StatRec /\ faults' \in FaultRec
    <3>1. PICK al \in {"SAFE_OP", "OP"} :
            /\ bus' = [bus EXCEPT !.lock = 0, !.phase = "up", !.al = al]
            /\ stat' = [connected |-> TRUE, operational |-> (al = "OP")]
      BY <1>5 DEF WorkerConfigure
    <3>2. bus' \in BusRec
      BY <1>0, <3>1 DEF BusRec
    <3>3. stat' \in StatRec
      BY <3>1 DEF StatRec
    <3> QED BY <1>5, <3>2, <3>3 DEF WorkerConfigure
  <2>3. LockIsConfigure' /\ PortIsUp'
    BY <1>5, <1>0, <2>1, <2>2 DEF WorkerConfigure, BusRec, LockIsConfigure, PortIsUp
  <2>4. OneLive' /\ ClosedHasNone'
    BY <1>5, <1>0, <2>1, <2>2 DEF WorkerConfigure, CoreRec, FaultRec, OneLive, Orderly, ClosedHasNone
  <2>5. Phases'
    BY <1>5, <1>0, <2>1, <2>2 DEF WorkerConfigure, CoreRec, BusRec, StatRec, FaultRec, OneLive, Orderly, Phases, NoLive, Down
  <2> QED BY <1>0, <2>1, <2>2, <2>3, <2>4, <2>5
<1>6. CASE WorkerLoop(w)
  <2>1. wk' \in [Workers -> WorkerPc] /\ wk'[w] = (IF core.stop THEN "takedown" ELSE "cycle") /\ \A v \in Workers : v # w => wk'[v] = wk[v]
    BY <1>6, GotoPlace DEF WorkerLoop, WorkerPc
  <2>2. core' \in CoreRec /\ bus' \in BusRec /\ stat' \in StatRec /\ faults' \in FaultRec
    BY <1>6 DEF WorkerLoop, CoreRec, BusRec, StatRec, FaultRec
  <2>3. LockIsConfigure' /\ PortIsUp'
    BY <1>6, <1>0, <2>1, <2>2 DEF WorkerLoop, BusRec, LockIsConfigure, PortIsUp
  <2>4. OneLive' /\ ClosedHasNone'
    BY <1>6, <1>0, <2>1, <2>2 DEF WorkerLoop, CoreRec, FaultRec, OneLive, Orderly, ClosedHasNone
  <2>5. Phases'
    BY <1>6, <1>0, <2>1, <2>2 DEF WorkerLoop, CoreRec, BusRec, StatRec, FaultRec, OneLive, Orderly, Phases, NoLive, Down
  <2> QED BY <1>0, <2>1, <2>2, <2>3, <2>4, <2>5
<1>7. CASE WorkerCycle(w)
  <2>1. wk' \in [Workers -> WorkerPc] /\ wk'[w] = "report" /\ \A v \in Workers : v # w => wk'[v] = wk[v]
    BY <1>7, GotoPlace DEF WorkerCycle, WorkerPc
  <2>2. core' \in CoreRec /\ bus' \in BusRec /\ stat' \in StatRec /\ faults' \in FaultRec
    BY <1>7 DEF WorkerCycle, CoreRec, BusRec, StatRec, FaultRec
  <2>3. LockIsConfigure' /\ PortIsUp'
    BY <1>7, <1>0, <2>1, <2>2 DEF WorkerCycle, BusRec, LockIsConfigure, PortIsUp
  <2>4. OneLive' /\ ClosedHasNone'
    BY <1>7, <1>0, <2>1, <2>2 DEF WorkerCycle, CoreRec, FaultRec, OneLive, Orderly, ClosedHasNone
  <2>5. Phases'
    BY <1>7, <1>0, <2>1, <2>2 DEF WorkerCycle, CoreRec, BusRec, StatRec, FaultRec, OneLive, Orderly, Phases, NoLive, Down
  <2> QED BY <1>0, <2>1, <2>2, <2>3, <2>4, <2>5
<1>8. CASE WorkerReport(w)
  <2>1. wk' \in [Workers -> WorkerPc] /\ wk'[w] = "loop" /\ \A v \in Workers : v # w => wk'[v] = wk[v]
    BY <1>8, GotoPlace DEF WorkerReport, WorkerPc
  <2>2. core' \in CoreRec /\ bus' \in BusRec /\ stat' \in StatRec /\ faults' \in FaultRec
    BY <1>8 DEF WorkerReport, CoreRec, BusRec, StatRec, FaultRec
  <2>3. LockIsConfigure' /\ PortIsUp'
    BY <1>8, <1>0, <2>1, <2>2 DEF WorkerReport, BusRec, LockIsConfigure, PortIsUp
  <2>4. OneLive' /\ ClosedHasNone'
    BY <1>8, <1>0, <2>1, <2>2 DEF WorkerReport, CoreRec, FaultRec, OneLive, Orderly, ClosedHasNone
  <2>5. Phases'
    BY <1>8, <1>0, <2>1, <2>2 DEF WorkerReport, CoreRec, BusRec, StatRec, FaultRec, OneLive, Orderly, Phases, NoLive, Down
  <2> QED BY <1>0, <2>1, <2>2, <2>3, <2>4, <2>5
<1>9. CASE WorkerTakedown(w)
  <2>1. wk' \in [Workers -> WorkerPc] /\ wk'[w] = "disconnect" /\ \A v \in Workers : v # w => wk'[v] = wk[v]
    BY <1>9, GotoPlace DEF WorkerTakedown, WorkerPc
  <2>2. core' \in CoreRec /\ bus' \in BusRec /\ stat' \in StatRec /\ faults' \in FaultRec
    BY <1>9 DEF WorkerTakedown, CoreRec, BusRec, StatRec, FaultRec
  <2>3. LockIsConfigure' /\ PortIsUp'
    BY <1>9, <1>0, <2>1, <2>2 DEF WorkerTakedown, BusRec, LockIsConfigure, PortIsUp
  <2>4. OneLive' /\ ClosedHasNone'
    BY <1>9, <1>0, <2>1, <2>2 DEF WorkerTakedown, CoreRec, FaultRec, OneLive, Orderly, ClosedHasNone
  <2>5. Phases'
    BY <1>9, <1>0, <2>1, <2>2 DEF WorkerTakedown, CoreRec, BusRec, StatRec, FaultRec, OneLive, Orderly, Phases, NoLive, Down
  <2> QED BY <1>0, <2>1, <2>2, <2>3, <2>4, <2>5
<1>10. CASE WorkerDisconnect(w)
  <2>1. wk' \in [Workers -> WorkerPc] /\ wk'[w] = "unopen" /\ \A v \in Workers : v # w => wk'[v] = wk[v]
    BY <1>10, GotoPlace DEF WorkerDisconnect, WorkerPc
  <2>2. core' \in CoreRec /\ bus' \in BusRec /\ stat' \in StatRec /\ faults' \in FaultRec
    BY <1>10 DEF WorkerDisconnect, CoreRec, BusRec, StatRec, FaultRec
  <2>3. LockIsConfigure' /\ PortIsUp'
    BY <1>10, <1>0, <2>1, <2>2 DEF WorkerDisconnect, BusRec, LockIsConfigure, PortIsUp
  <2>4. OneLive' /\ ClosedHasNone'
    BY <1>10, <1>0, <2>1, <2>2 DEF WorkerDisconnect, CoreRec, FaultRec, OneLive, Orderly, ClosedHasNone
  <2>5. Phases'
    BY <1>10, <1>0, <2>1, <2>2 DEF WorkerDisconnect, CoreRec, BusRec, StatRec, FaultRec, OneLive, Orderly, Phases, NoLive, Down
  <2> QED BY <1>0, <2>1, <2>2, <2>3, <2>4, <2>5
<1>11. CASE WorkerUnopen(w)
  <2>1. wk' \in [Workers -> WorkerPc] /\ wk'[w] = "unrun" /\ \A v \in Workers : v # w => wk'[v] = wk[v]
    BY <1>11, GotoPlace DEF WorkerUnopen, WorkerPc
  <2>2. core' \in CoreRec /\ bus' \in BusRec /\ stat' \in StatRec /\ faults' \in FaultRec
    BY <1>11 DEF WorkerUnopen, CoreRec, BusRec, StatRec, FaultRec
  <2>3. LockIsConfigure' /\ PortIsUp'
    BY <1>11, <1>0, <2>1, <2>2 DEF WorkerUnopen, BusRec, LockIsConfigure, PortIsUp
  <2>4. OneLive' /\ ClosedHasNone'
    BY <1>11, <1>0, <2>1, <2>2 DEF WorkerUnopen, CoreRec, FaultRec, OneLive, Orderly, ClosedHasNone
  <2>5. Phases'
    BY <1>11, <1>0, <2>1, <2>2 DEF WorkerUnopen, CoreRec, BusRec, StatRec, FaultRec, OneLive, Orderly, Phases, NoLive, Down
  <2> QED BY <1>0, <2>1, <2>2, <2>3, <2>4, <2>5
<1>12. CASE WorkerEnd(w)
  <2>1. wk' \in [Workers -> WorkerPc] /\ wk'[w] = "dead" /\ \A v \in Workers : v # w => wk'[v] = wk[v]
    BY <1>12, GotoPlace DEF WorkerEnd, WorkerPc
  <2>2. core' \in CoreRec /\ bus' \in BusRec /\ stat' \in StatRec /\ faults' \in FaultRec
    BY <1>12 DEF WorkerEnd, CoreRec, BusRec, StatRec, FaultRec
  <2>3. LockIsConfigure' /\ PortIsUp'
    BY <1>12, <1>0, <2>1, <2>2 DEF WorkerEnd, BusRec, LockIsConfigure, PortIsUp
  <2>4. OneLive' /\ ClosedHasNone'
    BY <1>12, <1>0, <2>1, <2>2 DEF WorkerEnd, CoreRec, FaultRec, OneLive, Orderly, ClosedHasNone
  <2>5. Phases'
    BY <1>12, <1>0, <2>1, <2>2 DEF WorkerEnd, CoreRec, BusRec, StatRec, FaultRec, OneLive, Orderly, Phases, NoLive, Down
  <2> QED BY <1>0, <2>1, <2>2, <2>3, <2>4, <2>5
<1> QED BY <1>1, <1>2, <1>3, <1>4, <1>5, <1>6, <1>7, <1>8, <1>9, <1>10, <1>11, <1>12 DEF WorkerStep

(* The dialog thread, the poll thread, the repeat threads and the scans    *)
(* keep their types.                                                       *)
DialogStep ==
  \/ Connect \/ ConnectBusy \/ Disconnect \/ CloseWindow \/ CloseReturns \/ Destroy
  \/ (\E b \in Buttons : MotionButton(b)) \/ CallReturns \/ ShowStatus
ThreadStep ==
  \/ (\E i \in Repeats : StartRepeat(i) \/ RepeatStep(i))
  \/ (\E i \in Scans : StartScan(i) \/ ScanEnds(i))
  \/ PollCollect \/ PollPublish

(* The window's own steps keep the types ...                               *)
LEMMA DialogTypes ==
  ASSUME GuiTypeOK, DialogStep
  PROVE  GuiTypeOK'
<1> USE DEF GuiTypeOK
<1>0. poll' = poll /\ rep' = rep /\ coe' = coe
  BY DEF DialogStep, Connect, ConnectBusy, Disconnect, CloseWindow, CloseReturns, Destroy, MotionButton,
         CallReturns, ShowStatus
<1>1. CASE Connect
  <2> DEFINE n == ui.clicks + 1
  <2>1. n \in Nat
    BY DEF UiRec
  <2>2. ui' = [ui EXCEPT !.clicks = n, !.closed = FALSE]
    BY <1>1 DEF Connect
  <2> HIDE DEF n
  <2> QED BY <1>0, <2>1, <2>2 DEF UiRec
<1>2. CASE ConnectBusy
  <2> DEFINE n == ui.clicks + 1
  <2>1. n \in Nat
    BY DEF UiRec
  <2>2. ui' = [ui EXCEPT !.clicks = n]
    BY <1>2 DEF ConnectBusy
  <2> HIDE DEF n
  <2> QED BY <1>0, <2>1, <2>2 DEF UiRec
<1>3. CASE Disconnect
  <2> DEFINE n == ui.clicks + 1
  <2>1. n \in Nat
    BY DEF UiRec
  <2>2. ui' = [ui EXCEPT !.clicks = n, !.pc = "disconnect"]
    BY <1>3 DEF Disconnect
  <2> HIDE DEF n
  <2> QED BY <1>0, <2>1, <2>2 DEF UiRec
<1>4. CASE CloseWindow
  BY <1>0, <1>4, GuiAssumption DEF CloseWindow, UiRec
<1>5. CASE CloseReturns
  BY <1>0, <1>5, ZenonT(60) DEF CloseReturns, UiRec
<1>6. CASE Destroy
  <2>1. \/ ui' = [ui EXCEPT !.pc = "joinrepeat", !.repeatStop = TRUE]
        \/ ui' = [ui EXCEPT !.pc = "joincoe", !.repeatThread = 0]
        \/ ui' = [ui EXCEPT !.pc = "quit", !.coeThread = 0]
    BY <1>6 DEF Destroy
  <2>2. CASE ui' = [ui EXCEPT !.pc = "joinrepeat", !.repeatStop = TRUE]
    BY <1>0, <2>2 DEF UiRec
  <2>3. CASE ui' = [ui EXCEPT !.pc = "joincoe", !.repeatThread = 0]
    BY <1>0, <2>3 DEF UiRec
  <2>4. CASE ui' = [ui EXCEPT !.pc = "quit", !.coeThread = 0]
    BY <1>0, <2>4 DEF UiRec
  <2> QED BY <2>1, <2>2, <2>3, <2>4
<1>7. CASE CallReturns
  BY <1>0, <1>7 DEF CallReturns, UiRec
<1>8. CASE ShowStatus
  <2> DEFINE n == ui.msgs - 1
  <2>1. n \in Nat
    BY <1>8 DEF UiRec, ShowStatus
  <2>2. ui' = [ui EXCEPT !.msgs = n, !.pending = FALSE, !.shown = ui.snapOpen]
    BY <1>8 DEF ShowStatus
  <2> HIDE DEF n
  <2> QED BY <1>0, <2>1, <2>2 DEF UiRec
<1>9. ASSUME NEW b \in Buttons, MotionButton(b) PROVE GuiTypeOK'
  <2> DEFINE n == ui.clicks + 1
             stop == ui.repeatStop \/ b = "Stop"
             m == IF b = "Stop" THEN 0 ELSE ui.moves
  <2>1. n \in Nat /\ stop \in BOOLEAN /\ m \in {-1, 0, 1, 2}
    BY DEF UiRec
  <2>2. ui' = [ui EXCEPT !.clicks = n, !.pc = "call", !.repeatStop = stop, !.moves = m]
    BY <1>9 DEF MotionButton
  <2> HIDE DEF n, stop, m
  <2> QED BY <1>0, <2>1, <2>2 DEF UiRec
<1> QED BY <1>1, <1>2, <1>3, <1>4, <1>5, <1>6, <1>7, <1>8, <1>9 DEF DialogStep

(* ... and so do those that start and end its threads.                     *)
LEMMA ThreadTypes ==
  ASSUME GuiTypeOK, core.opened \in BOOLEAN, ThreadStep
  PROVE  GuiTypeOK'
<1> USE DEF GuiTypeOK
<1>1. ASSUME NEW i \in Repeats, StartRepeat(i) PROVE GuiTypeOK'
  <2> DEFINE n == ui.clicks + 1
  <2>1. i \in Nat /\ n \in Nat
    BY GuiAssumption DEF Repeats, UiRec
  <2>2. ui' = [ui EXCEPT !.clicks = n, !.repeatRunning = TRUE, !.repeatStop = FALSE,
                         !.repeatThread = i, !.moves = -1]
    BY <1>1 DEF StartRepeat
  <2>3. ui' \in UiRec
    <3> HIDE DEF n
    <3> QED BY <2>1, <2>2 DEF UiRec
  <2> QED BY <1>1, <2>3 DEF StartRepeat, RepeatPc
<1>2. ASSUME NEW i \in Repeats, RepeatStep(i) PROVE GuiTypeOK'
  <2>1. ui' \in UiRec
    <3>1. CASE RepeatTest(i) \/ RepeatMoved(i)
      BY <3>1 DEF RepeatTest, RepeatMoved
    <3>2. CASE RepeatMove(i)
      <4> DEFINE m == IF ui.moves \in {-1, 2} THEN ui.moves ELSE ui.moves + 1
      <4>1. m \in {-1, 0, 1, 2}
        BY DEF UiRec
      <4>2. ui' = [ui EXCEPT !.moves = m]
        BY <3>2 DEF RepeatMove
      <4> HIDE DEF m
      <4> QED BY <4>1, <4>2 DEF UiRec
    <3>3. CASE RepeatFree(i)
      BY <3>3 DEF RepeatFree, UiRec
    <3>4. CASE RepeatTail(i)
      <4> DEFINE n == ui.msgs + 1
                 undone == ui.undone \/ \E j \in Repeats : j # i /\ rep[j] \notin {"none", "dead"}
      <4>1. n \in Nat /\ undone \in BOOLEAN
        BY DEF UiRec
      <4>2. ui' = [ui EXCEPT !.repeatStop = FALSE, !.msgs = n, !.undone = undone]
        BY <3>4 DEF RepeatTail
      <4> HIDE DEF n, undone
      <4> QED BY <4>1, <4>2 DEF UiRec
    <3> QED BY <1>2, <3>1, <3>2, <3>3, <3>4 DEF RepeatStep
  <2>2. rep' \in [Repeats -> RepeatPc]
    BY <1>2 DEF RepeatStep, RepeatTest, RepeatMove, RepeatMoved, RepeatFree, RepeatTail, Goes, RepeatPc
  <2>3. poll' = poll /\ coe' = coe
    BY <1>2 DEF RepeatStep, RepeatTest, RepeatMove, RepeatMoved, RepeatFree, RepeatTail
  <2> QED BY <2>1, <2>2, <2>3
<1>3. ASSUME NEW i \in Scans, StartScan(i) PROVE GuiTypeOK'
  <2> DEFINE n == ui.clicks + 1
  <2>1. i \in Nat /\ n \in Nat
    BY GuiAssumption DEF Scans, UiRec
  <2>2. ui' = [ui EXCEPT !.clicks = n, !.coeRunning = TRUE, !.coeThread = i]
    BY <1>3 DEF StartScan
  <2>3. ui' \in UiRec
    <3> HIDE DEF n
    <3> QED BY <2>1, <2>2 DEF UiRec
  <2> QED BY <1>3, <2>3 DEF StartScan
<1>4. ASSUME NEW i \in Scans, ScanEnds(i) PROVE GuiTypeOK'
  <2>1. ui' \in UiRec
    BY <1>4 DEF ScanEnds, UiRec
  <2> QED BY <1>4, <2>1 DEF ScanEnds
<1>5. CASE PollCollect
  BY <1>5 DEF PollCollect
<1>6. CASE PollPublish
  <2> DEFINE n == IF ui.pending THEN ui.msgs ELSE ui.msgs + 1
  <2>1. n \in Nat /\ poll.open \in BOOLEAN
    BY DEF UiRec
  <2>2. ui' = [ui EXCEPT !.snapOpen = poll.open, !.pending = TRUE, !.msgs = n]
    BY <1>6 DEF PollPublish
  <2>3. ui' \in UiRec
    <3> HIDE DEF n
    <3> QED BY <2>1, <2>2 DEF UiRec
  <2> QED BY <1>6, <2>3 DEF PollPublish
<1> QED BY <1>1, <1>2, <1>3, <1>4, <1>5, <1>6 DEF ThreadStep

-----------------------------------------------------------------------------
(* A step that leaves the DLL and the flag closed alone keeps the session. *)
LEMMA SessionStutter ==
  ASSUME SessionInv, GuiTypeOK', UNCHANGED <<core, bus, wk, stat, faults>>, ui'.closed = ui.closed
  PROVE  SessionInv'
BY DEF SessionInv, DllTypeOK, LockIsConfigure, PortIsUp, OneLive, Orderly, Phases, NoLive, Down, ClosedHasNone

(* ECAT_Open finds no worker, since a created one has run and has said so. *)
LEMMA OpenSession ==
  ASSUME SessionInv, GuiTypeOK', Connect
  PROVE  SessionInv'
<1> USE DEF SessionInv, DllTypeOK
<1>1. bus' = bus /\ ~ui'.closed /\ 0 \notin Workers /\ 0 \in Handles
  <2>1. bus' = bus /\ ui' = [ui EXCEPT !.clicks = @ + 1, !.closed = FALSE]
    BY DEF Connect
  <2>2. ~ui'.closed
    BY <2>1 DEF GuiTypeOK, UiRec
  <2> QED BY <2>1, <2>2, DllAssumption DEF Workers, Handles
<1>2. Orderly => NoLive
  BY DEF Connect, Open, OpenFails, NotRunning, Phases, NoLive, Orderly
<1>3. ASSUME NEW w \in Workers, Open(w), UNCHANGED faults PROVE SessionInv'
  <2>1. w \in Handles
    BY DllAssumption DEF Workers, Handles
  <2>2. /\ wk' \in [Workers -> WorkerPc] /\ wk[w] = "none" /\ wk'[w] = "created"
        /\ \A v \in Workers : v # w => wk'[v] = wk[v]
    BY <1>3 DEF Open, WorkerPc
  <2>3. core' \in CoreRec /\ core'.worker = w /\ stat' \in StatRec /\ ~stat'.connected
    BY <1>3, <2>1 DEF Open, CoreRec, StatRec
  <2>4. LockIsConfigure' /\ PortIsUp' /\ ClosedHasNone'
    BY <1>1, <2>2 DEF LockIsConfigure, PortIsUp, ClosedHasNone
  <2>5. OneLive'
    BY <1>2, <1>3, <2>2, <2>3 DEF OneLive, Orderly, NoLive
  <2>6. Phases'
    BY <1>1, <1>2, <1>3, <2>2, <2>3 DEF Phases, Orderly, NoLive, Down
  <2> QED BY <1>1, <1>3, <2>2, <2>3, <2>4, <2>5, <2>6
<1>4. CASE OpenFails
  <2>1. core' \in CoreRec /\ ~core'.opened /\ core'.running = core.running
        /\ stat' \in StatRec /\ ~stat'.connected
    BY <1>1, <1>4 DEF OpenFails, CoreRec, StatRec
  <2>2. faults' \in FaultRec /\ faults'.timeouts = faults.timeouts
    BY <1>4 DEF OpenFails, FaultRec
  <2>3. wk' = wk
    BY <1>4 DEF OpenFails
  <2>4. LockIsConfigure' /\ PortIsUp' /\ ClosedHasNone'
    BY <1>1, <2>3 DEF LockIsConfigure, PortIsUp, ClosedHasNone
  <2>5. OneLive' /\ Phases'
    BY <1>1, <1>2, <2>1, <2>2, <2>3 DEF OneLive, Orderly, Phases, NoLive, Down
  <2> QED BY <1>1, <2>1, <2>2, <2>3, <2>4, <2>5
<1> QED BY <1>3, <1>4 DEF Connect

(* ECAT_Close: the request, and the end of the wait, in time or not.       *)
LEMMA CloseSession ==
  ASSUME SessionInv, GuiTypeOK', Disconnect \/ CloseWindow \/ CloseReturns
  PROVE  SessionInv'
<1> USE DEF SessionInv, DllTypeOK
<1>1. UNCHANGED <<bus, wk, stat>> /\ 0 \notin Workers /\ 0 \in Handles
  <2>1. UNCHANGED <<bus, wk, stat>>
    BY DEF Disconnect, CloseWindow, CloseReturns
  <2> QED BY <2>1, DllAssumption DEF Workers, Handles
<1>2. CASE Disconnect \/ CloseWindow
  <2>1. /\ core' \in CoreRec /\ core'.worker = core.worker /\ core'.running = core.running
        /\ core'.opened = core.opened
    BY <1>2 DEF Disconnect, CloseWindow, CloseBegin, CoreRec
  <2>2. faults' = faults /\ ui'.closed = ui.closed
    BY <1>2 DEF Disconnect, CloseWindow, GuiTypeOK, UiRec
  <2> QED BY <1>1, <2>1, <2>2 DEF LockIsConfigure, PortIsUp, OneLive, Orderly, Phases, NoLive, Down, ClosedHasNone
<1>3. CASE CloseReturns /\ CloseDone
  <2>1. /\ core' \in CoreRec /\ core'.worker = 0 /\ core'.running = core.running
        /\ core'.opened = core.opened
    BY <1>1, <1>3 DEF CloseDone, CoreRec
  <2>2. faults' = faults
    BY <1>3 DEF CloseDone
  <2>3. ClosedHasNone'
    <3>1. core.worker # 0 => wk[core.worker] = "dead"
      BY <1>3 DEF CloseDone
    <3>2. CASE ui' = [ui EXCEPT !.closed = (faults.timeouts = 0),
                                !.pc = IF @ = "close" THEN "joinpoll" ELSE "idle",
                                !.pollStop = (ui.pc = "close")]
      BY <2>1, <2>2, <3>2 DEF ClosedHasNone, GuiTypeOK, UiRec
    <3>3. CASE CloseTimesOut
      BY <3>1, <3>3 DEF CloseTimesOut
    <3> QED BY <1>3, <3>2, <3>3 DEF CloseReturns
  <2>4. OneLive'
    BY <1>1, <1>3, <2>2 DEF OneLive, Orderly, CloseDone
  <2> QED BY <1>1, <2>1, <2>2, <2>3, <2>4 DEF LockIsConfigure, PortIsUp, Orderly, Phases, NoLive, Down
<1>4. CASE CloseReturns /\ CloseTimesOut
  <2>1. core' \in CoreRec
    BY <1>1, <1>4 DEF CloseTimesOut, CoreRec
  <2>2. faults' \in FaultRec /\ faults'.timeouts # 0
    BY <1>4 DEF CloseTimesOut, FaultRec
  <2>3. core.worker # 0 /\ wk[core.worker] # "dead"
    BY <1>4 DEF CloseTimesOut
  <2>4. ui'.closed = ui.closed
    BY <1>4, <2>3 DEF CloseReturns, CloseDone, GuiTypeOK, UiRec
  <2>5. ClosedHasNone'
    BY <2>3, <2>4 DEF ClosedHasNone
  <2> QED BY <1>1, <2>1, <2>2, <2>5 DEF LockIsConfigure, PortIsUp, Orderly, OneLive, Phases
<1> QED BY <1>2, <1>3, <1>4 DEF CloseReturns

(* Every step of dialog, threads and DLL keeps the session's invariant.    *)
LEMMA SessionStep ==
  ASSUME SessionInv, [Next]_vars
  PROVE  SessionInv'
<1>0. GuiTypeOK /\ core.opened \in BOOLEAN
  BY DEF SessionInv, DllTypeOK, CoreRec
<1>1. CASE DialogStep
  <2>1. GuiTypeOK'
    BY <1>0, <1>1, DialogTypes
  <2>2. CASE ConnectBusy \/ Destroy \/ CallReturns \/ ShowStatus
    <3>1. UNCHANGED <<core, bus, wk, stat, faults>>
      BY <2>2 DEF ConnectBusy, Destroy, CallReturns, ShowStatus
    <3>2. ui'.closed = ui.closed
      BY <1>0, <2>2 DEF ConnectBusy, Destroy, CallReturns, ShowStatus, GuiTypeOK, UiRec
    <3> QED BY <2>1, <3>1, <3>2, SessionStutter
  <2>3. ASSUME NEW b \in Buttons, MotionButton(b) PROVE SessionInv'
    <3>1. UNCHANGED <<core, bus, wk, stat, faults>> /\ ui'.closed = ui.closed
      BY <1>0, <2>3 DEF MotionButton, GuiTypeOK, UiRec
    <3> QED BY <2>1, <3>1, SessionStutter
  <2> QED BY <1>1, <2>1, <2>2, <2>3, OpenSession, CloseSession DEF DialogStep
<1>2. CASE ThreadStep
  <2>1. GuiTypeOK'
    BY <1>0, <1>2, ThreadTypes
  <2>2. UNCHANGED <<core, bus, wk, stat, faults>>
    BY <1>2 DEF ThreadStep, StartRepeat, RepeatStep, RepeatTest, RepeatMove, RepeatMoved, RepeatFree,
           RepeatTail, StartScan, ScanEnds, PollCollect, PollPublish
  <2>3. ui'.closed = ui.closed
    <3>1. ASSUME NEW i \in Repeats, StartRepeat(i) PROVE ui'.closed = ui.closed
      BY <1>0, <3>1 DEF StartRepeat, GuiTypeOK, UiRec
    <3>2. ASSUME NEW i \in Repeats, RepeatStep(i) PROVE ui'.closed = ui.closed
      BY <1>0, <3>2 DEF RepeatStep, RepeatTest, RepeatMove, RepeatMoved, RepeatFree, RepeatTail, GuiTypeOK, UiRec
    <3>3. ASSUME NEW i \in Scans, StartScan(i) \/ ScanEnds(i) PROVE ui'.closed = ui.closed
      BY <1>0, <3>3 DEF StartScan, ScanEnds, GuiTypeOK, UiRec
    <3>4. CASE PollCollect \/ PollPublish
      BY <1>0, <3>4 DEF PollCollect, PollPublish, GuiTypeOK, UiRec
    <3> QED BY <1>2, <3>1, <3>2, <3>3, <3>4 DEF ThreadStep
  <2> QED BY <2>1, <2>2, <2>3, SessionStutter
<1>3. ASSUME NEW w \in Workers, WorkerStep(w), GuiUnchanged PROVE SessionInv'
  BY <1>3, WorkerSession
<1>4. ASSUME NEW c \in Callers, CallerStep(c), GuiUnchanged PROVE SessionInv'
  <2>1. UNCHANGED <<core, bus, wk, stat>> /\ ui' = ui /\ GuiTypeOK'
    BY <1>0, <1>4 DEF CallerStep, SdoCheck, SdoRefused, SdoAccess, SdoError, GuiUnchanged, GuiTypeOK
  <2>2. faults' \in FaultRec /\ faults'.timeouts = faults.timeouts
    BY <1>4 DEF CallerStep, SdoCheck, SdoRefused, SdoAccess, SdoError, SessionInv, DllTypeOK, FaultRec
  <2> QED BY <2>1, <2>2 DEF SessionInv, DllTypeOK, LockIsConfigure, PortIsUp, OneLive, Orderly, Phases, NoLive, Down,
                            ClosedHasNone
<1>5. CASE UNCHANGED vars
  BY <1>0, <1>5, SessionStutter DEF vars, GuiTypeOK
<1> QED BY <1>1, <1>2, <1>3, <1>4, <1>5 DEF Next, DialogStep, ThreadStep, Quit

(* The invariant holds when the window opens.                              *)
LEMMA SessionInit == GuiInit => SessionInv
<1> SUFFICES ASSUME GuiInit PROVE SessionInv
  OBVIOUS
<1>1. 0 \notin Workers /\ 0 \in Handles
  BY DllAssumption DEF Workers, Handles
<1>2. DllTypeOK
  BY <1>1 DEF GuiInit, DllInit, DllTypeOK, CoreRec, BusRec, StatRec, FaultRec, WorkerPc
<1>3. GuiTypeOK
  BY DEF GuiInit, GuiTypeOK, UiRec, RepeatPc
<1> QED BY <1>1, <1>2, <1>3 DEF GuiInit, DllInit, SessionInv, LockIsConfigure, PortIsUp, OneLive, Orderly, Phases,
                                NoLive, Down, ClosedHasNone

(***************************************************************************)
(* SessionIsSound, for any number of threads, clicks and errors: unless an *)
(* ECAT_Close gave up waiting, one worker lives; when ECAT_Close returned  *)
(* ECAT_OK, the bus is down and the DLL says so until the next ECAT_Open;  *)
(* bus_lock is held by a worker only while it brings the bus up.  The      *)
(* hypothesis is what ECAT_Open relies on and does not ensure: a created   *)
(* worker sets worker_running before the caller opens again.               *)
(***************************************************************************)
THEOREM SessionsAreSound ==
  ASSUME PromptStart
  PROVE  Spec => []SessionIsSound
<1>1. SessionInv /\ [Next]_vars => SessionInv'
  BY SessionStep
<1>2. SessionInv => SessionIsSound
  <2> SUFFICES ASSUME SessionInv PROVE SessionIsSound
    OBVIOUS
  <2>1. 0 \notin Workers /\ \A h \in Handles : h # 0 => h \in Workers
    BY DllAssumption DEF Workers, Handles
  <2>2. OneWorker
    <3> SUFFICES ASSUME faults.timeouts = 0 PROVE Cardinality(Live) <= 1
      BY DEF OneWorker
    <3>1. Live = {} \/ Live = {core.worker}
      BY DEF SessionInv, OneLive, Orderly, Live
    <3>2. Cardinality({}) = 0 /\ Cardinality({core.worker}) = 1
      BY FS_EmptySet, FS_Singleton
    <3> QED BY <3>1, <3>2
  <2>3. ClosedIsDown
    <3> SUFFICES ASSUME ui.closed PROVE ClosedIsDown
      BY DEF ClosedIsDown
    <3>1. NoLive /\ faults.timeouts = 0
      BY <2>1 DEF SessionInv, ClosedHasNone, OneLive, Orderly, NoLive
    <3>2. Live = {}
      BY <3>1 DEF Live, NoLive
    <3> QED BY <3>1, <3>2 DEF SessionInv, Orderly, Phases, Down, ClosedIsDown
  <2>4. bus.lock # 0 => wk[bus.lock] = "configure"
    BY <2>1 DEF SessionInv, DllTypeOK, BusRec, LockIsConfigure
  <2> QED BY <2>2, <2>3, <2>4 DEF SessionIsSound
<1> QED BY <1>1, <1>2, SessionInit, PTL DEF Spec

-----------------------------------------------------------------------------
(* A step that leaves the repeat threads alone, and sets repeat_stop at    *)
(* most, keeps the repeats sound.                                          *)
LEMMA RepeatStutter ==
  ASSUME RepeatInv, GuiTypeOK', rep' = rep, ui'.repeatRunning = ui.repeatRunning,
         ui'.undone = ui.undone, ui.repeatStop => ui'.repeatStop,
         ui'.moves = ui.moves \/ (ui'.moves = 0 /\ ui'.repeatStop), Told'
  PROVE  RepeatInv'
BY DEF RepeatInv, Repeater, Repeating, Stopped

(* The window's steps keep the invariant of repeated motion ...            *)
LEMMA DialogRepeat ==
  ASSUME RepeatInv, DialogStep
  PROVE  RepeatInv'
<1>1. GuiTypeOK' /\ GuiTypeOK
  BY DialogTypes DEF RepeatInv
<1>2. rep' = rep
  BY DEF DialogStep, Connect, ConnectBusy, Disconnect, CloseWindow, CloseReturns, Destroy, MotionButton,
         CallReturns, ShowStatus
<1>3. CASE ~ShowStatus /\ ~\E b \in Buttons : MotionButton(b)
  <2>1. /\ ui'.repeatRunning = ui.repeatRunning /\ ui'.undone = ui.undone /\ ui'.moves = ui.moves
        /\ ui.repeatStop => ui'.repeatStop
        /\ ui'.pending = ui.pending /\ ui'.msgs = ui.msgs
    <3>1. CASE Connect
      <4>1. ui' = [ui EXCEPT !.clicks = @ + 1, !.closed = FALSE]
        BY <3>1 DEF Connect
      <4> QED BY <1>1, <4>1, SMTT(30) DEF GuiTypeOK, UiRec
    <3>2. CASE ConnectBusy    BY <1>1, <3>2 DEF ConnectBusy, GuiTypeOK, UiRec
    <3>3. CASE Disconnect     BY <1>1, <3>3 DEF Disconnect, GuiTypeOK, UiRec
    <3>4. CASE CloseWindow    BY <1>1, <3>4 DEF CloseWindow, GuiTypeOK, UiRec
    <3>5. CASE CloseReturns
      <4> DEFINE pc == IF ui.pc = "close" THEN "joinpoll" ELSE "idle"
                 stop == ui.pc = "close"
                 closed == faults.timeouts = 0
      <4>1. \/ ui' = [ui EXCEPT !.closed = closed, !.pc = pc, !.pollStop = stop]
            \/ ui' = [ui EXCEPT !.pc = pc, !.pollStop = stop]
        BY <3>5 DEF CloseReturns
      <4> HIDE DEF pc, stop, closed
      <4> QED BY <1>1, <4>1, ZenonT(60) DEF GuiTypeOK, UiRec
    <3>6. CASE Destroy
      <4>1. \/ ui' = [ui EXCEPT !.pc = "joinrepeat", !.repeatStop = TRUE]
            \/ ui' = [ui EXCEPT !.pc = "joincoe", !.repeatThread = 0]
            \/ ui' = [ui EXCEPT !.pc = "quit", !.coeThread = 0]
        BY <3>6 DEF Destroy
      <4> QED BY <1>1, <4>1, ZenonT(60) DEF GuiTypeOK, UiRec
    <3>7. CASE CallReturns    BY <1>1, <3>7 DEF CallReturns, GuiTypeOK, UiRec
    <3> QED BY <1>3, <3>1, <3>2, <3>3, <3>4, <3>5, <3>6, <3>7 DEF DialogStep
  <2>2. Told'
    BY <2>1 DEF RepeatInv, Told
  <2> QED BY <1>1, <1>2, <2>1, <2>2, RepeatStutter
<1>4. CASE ShowStatus
  <2>1. /\ ui'.repeatRunning = ui.repeatRunning /\ ui'.undone = ui.undone /\ ui'.moves = ui.moves
        /\ ui.repeatStop => ui'.repeatStop
        /\ ~ui'.pending
    BY <1>1, <1>4 DEF ShowStatus, GuiTypeOK, UiRec
  <2> QED BY <1>1, <1>2, <2>1, RepeatStutter DEF Told
<1>5. ASSUME NEW b \in Buttons, MotionButton(b) PROVE RepeatInv'
  <2>1. /\ ui'.repeatRunning = ui.repeatRunning /\ ui'.undone = ui.undone
        /\ ui'.repeatStop = (ui.repeatStop \/ b = "Stop")
        /\ ui'.moves = IF b = "Stop" THEN 0 ELSE ui.moves
        /\ ui'.pending = ui.pending /\ ui'.msgs = ui.msgs
    BY <1>1, <1>5 DEF MotionButton, GuiTypeOK, UiRec
  <2>2. Told'
    BY <2>1 DEF RepeatInv, Told
  <2> QED BY <1>1, <1>2, <2>1, <2>2, RepeatStutter
<1> QED BY <1>3, <1>4, <1>5

(* ... and so do the steps of the threads it starts.                       *)
LEMMA ThreadRepeat ==
  ASSUME RepeatInv, core.opened \in BOOLEAN, ThreadStep
  PROVE  RepeatInv'
<1>1. GuiTypeOK' /\ GuiTypeOK
  BY ThreadTypes DEF RepeatInv
<1>2. ASSUME NEW i \in Repeats, StartRepeat(i) PROVE RepeatInv'
  <2>1. /\ rep'[i] = "loop1" /\ \A j \in Repeats : j # i => rep'[j] = rep[j]
        /\ \A j \in Repeats : ~Repeating(j)
    BY <1>1, <1>2 DEF StartRepeat, GuiTypeOK, RepeatInv, Repeater
  <2>2. ui'.repeatRunning /\ ui'.moves = -1 /\ ui'.pending = ui.pending /\ ui'.msgs = ui.msgs
    BY <1>1, <1>2 DEF StartRepeat, GuiTypeOK, UiRec
  <2> QED BY <1>1, <2>1, <2>2 DEF RepeatInv, Repeater, Repeating, Stopped, Told
<1>3. ASSUME NEW i \in Repeats, RepeatTest(i) PROVE RepeatInv'
  <2>1. /\ rep'[i] = IF ui.repeatStop THEN "free" ELSE IF rep[i] = "loop1" THEN "move1" ELSE "move2"
        /\ \A j \in Repeats : j # i => rep'[j] = rep[j]
        /\ rep[i] \in {"loop1", "loop2"} /\ ui' = ui
    BY <1>1, <1>3 DEF RepeatTest, Goes, GuiTypeOK
  <2> QED BY <1>1, <2>1 DEF RepeatInv, Repeater, Repeating, Stopped, Told
<1>4. ASSUME NEW i \in Repeats, RepeatMove(i) PROVE RepeatInv'
  <2>1. /\ rep'[i] \in {"moving1", "moving2"} /\ rep[i] \in {"move1", "move2"}
        /\ \A j \in Repeats : j # i => rep'[j] = rep[j]
    BY <1>1, <1>4 DEF RepeatMove, Goes, GuiTypeOK
  <2>2. /\ ui'.repeatRunning = ui.repeatRunning /\ ui'.undone = ui.undone
        /\ ui'.repeatStop = ui.repeatStop
        /\ ui'.moves = IF ui.moves \in {-1, 2} THEN ui.moves ELSE ui.moves + 1
        /\ ui'.pending = ui.pending /\ ui'.msgs = ui.msgs
    BY <1>1, <1>4 DEF RepeatMove, GuiTypeOK, UiRec
  <2>3. Repeater' /\ Told'
    BY <2>1, <2>2 DEF RepeatInv, Repeater, Repeating, Told
  <2>4. ui.moves \in {-1, 0, 1, 2} /\ ui.undone \in BOOLEAN
    BY <1>1 DEF GuiTypeOK, UiRec
  <2>5. \A j \in Repeats : j # i => rep[j] \notin {"move1", "move2"}
    BY <2>1 DEF RepeatInv, Repeater, Repeating
  <2>6. Stopped'
    BY <2>1, <2>2, <2>4, <2>5 DEF RepeatInv, Stopped
  <2> QED BY <1>1, <2>3, <2>6 DEF RepeatInv
<1>5. ASSUME NEW i \in Repeats, RepeatMoved(i) PROVE RepeatInv'
  <2>1. /\ rep'[i] \in {"free", "loop1", "loop2"} /\ rep[i] \in {"moving1", "moving2"}
        /\ \A j \in Repeats : j # i => rep'[j] = rep[j]
        /\ ui' = ui
    BY <1>1, <1>5 DEF RepeatMoved, Goes, GuiTypeOK
  <2> QED BY <1>1, <2>1 DEF RepeatInv, Repeater, Repeating, Stopped, Told
<1>6. ASSUME NEW i \in Repeats, RepeatFree(i) PROVE RepeatInv'
  <2>1. /\ rep'[i] = "tail" /\ rep[i] = "free"
        /\ \A j \in Repeats : j # i => rep'[j] = rep[j]
    BY <1>1, <1>6 DEF RepeatFree, Goes, GuiTypeOK
  <2>2. /\ ui'.undone = ui.undone /\ ui'.repeatStop = ui.repeatStop /\ ui'.moves = ui.moves
        /\ ui'.pending = ui.pending /\ ui'.msgs = ui.msgs
    BY <1>1, <1>6 DEF RepeatFree, GuiTypeOK, UiRec
  <2> QED BY <1>1, <2>1, <2>2 DEF RepeatInv, Repeater, Repeating, Stopped, Told
<1>7. ASSUME NEW i \in Repeats, RepeatTail(i) PROVE RepeatInv'
  <2>1. /\ rep'[i] = "dead" /\ rep[i] = "tail"
        /\ \A j \in Repeats : j # i => rep'[j] = rep[j]
    BY <1>1, <1>7 DEF RepeatTail, Goes, GuiTypeOK
  <2>2. /\ ui'.undone = (ui.undone \/ \E j \in Repeats : j # i /\ rep[j] \notin {"none", "dead"})
        /\ ui'.moves = ui.moves /\ ui'.repeatRunning = ui.repeatRunning
        /\ ui'.pending = ui.pending
    BY <1>1, <1>7 DEF RepeatTail, GuiTypeOK, UiRec
  <2>3. ui'.msgs > 0
    <3>1. ui'.msgs = ui.msgs + 1 /\ ui.msgs \in Nat
      BY <1>1, <1>7 DEF RepeatTail, GuiTypeOK, UiRec
    <3> QED BY <3>1
  <2>4. Repeater' /\ Told'
    BY <2>1, <2>2, <2>3 DEF RepeatInv, Repeater, Repeating, Told
  <2>5. Stopped'
    BY <2>1, <2>2 DEF RepeatInv, Stopped
  <2> QED BY <1>1, <2>4, <2>5 DEF RepeatInv
<1>8. CASE PollPublish
  <2>1. /\ ui'.repeatRunning = ui.repeatRunning /\ ui'.undone = ui.undone /\ ui'.moves = ui.moves
        /\ ui'.repeatStop = ui.repeatStop /\ rep' = rep
    BY <1>1, <1>8 DEF PollPublish, GuiTypeOK, UiRec
  <2>2. ui'.msgs = (IF ui.pending THEN ui.msgs ELSE ui.msgs + 1) /\ ui.msgs \in Nat
    BY <1>1, <1>8 DEF PollPublish, GuiTypeOK, UiRec
  <2>3. Told'
    BY <2>2 DEF RepeatInv, Told
  <2> QED BY <1>1, <2>1, <2>3, RepeatStutter
<1>9. ASSUME NEW i \in Scans, StartScan(i) \/ ScanEnds(i) PROVE RepeatInv'
  <2>1. /\ ui'.repeatRunning = ui.repeatRunning /\ ui'.undone = ui.undone /\ ui'.moves = ui.moves
        /\ ui'.repeatStop = ui.repeatStop /\ ui'.pending = ui.pending /\ ui'.msgs = ui.msgs
    <3>1. CASE StartScan(i)  BY <1>1, <3>1 DEF StartScan, GuiTypeOK, UiRec
    <3>2. CASE ScanEnds(i)   BY <1>1, <3>2 DEF ScanEnds, GuiTypeOK, UiRec
    <3> QED BY <1>9, <3>1, <3>2
  <2>2. rep' = rep
    BY <1>9 DEF StartScan, ScanEnds
  <2>3. Told'
    BY <2>1 DEF RepeatInv, Told
  <2> QED BY <1>1, <2>1, <2>2, <2>3, RepeatStutter
<1>10. CASE PollCollect
  BY <1>1, <1>10, RepeatStutter DEF PollCollect, RepeatInv, Told
<1> QED BY <1>2, <1>3, <1>4, <1>5, <1>6, <1>7, <1>8, <1>9, <1>10 DEF ThreadStep, RepeatStep

(***************************************************************************)
(* RepeatIsSound, for any number of repeat threads and clicks: one thread  *)
(* moves the axis, Stop lets it begin one more move at most (unless a      *)
(* thread that ends took back the stop), and a pending update has its      *)
(* message.                                                                *)
(***************************************************************************)
THEOREM RepeatsAreSound == Spec => []RepeatIsSound
<1>1. GuiInit => RepeatInv
  <2> SUFFICES ASSUME GuiInit PROVE RepeatInv
    OBVIOUS
  <2>1. GuiTypeOK
    BY SessionInit DEF SessionInv
  <2> QED BY <2>1 DEF GuiInit, RepeatInv, Repeater, Repeating, Stopped, Told
<1>2. SessionInv /\ RepeatInv /\ [Next]_vars => RepeatInv'
  <2> SUFFICES ASSUME SessionInv, RepeatInv, [Next]_vars PROVE RepeatInv'
    OBVIOUS
  <2>1. CASE DialogStep
    BY <2>1, DialogRepeat
  <2>2. CASE ThreadStep
    BY <2>2, ThreadRepeat DEF SessionInv, DllTypeOK, CoreRec
  <2>3. CASE GuiUnchanged \/ UNCHANGED vars
    BY <2>3 DEF GuiUnchanged, vars, RepeatInv, GuiTypeOK, Repeater, Repeating, Stopped, Told
  <2> QED BY <2>1, <2>2, <2>3 DEF Next, DialogStep, ThreadStep, Quit
<1>3. RepeatInv => RepeatIsSound
  <2> SUFFICES ASSUME RepeatInv PROVE RepeatIsSound
    OBVIOUS
  <2>1. OneRepeater
    <3> DEFINE A == {i \in Repeats : rep[i] \notin {"none", "tail", "dead"}}
    <3>1. A = {} \/ \E i \in Repeats : A = {i}
      <4>1. \A i, j \in A : i = j
        BY DEF RepeatInv, Repeater, Repeating
      <4>2. A \subseteq Repeats
        OBVIOUS
      <4> HIDE DEF A
      <4> QED BY <4>1, <4>2
    <3>2. Cardinality({}) = 0 /\ \A i : Cardinality({i}) = 1
      BY FS_EmptySet, FS_Singleton
    <3>3. Cardinality(A) <= 1
      <4>1. CASE A = {}
        BY <3>2, <4>1
      <4>2. ASSUME NEW i \in Repeats, A = {i} PROVE Cardinality(A) <= 1
        <5>1. Cardinality({i}) = 1
          BY <3>2
        <5> HIDE DEF A
        <5> QED BY <4>2, <5>1
      <4> HIDE DEF A
      <4> QED BY <3>1, <4>1, <4>2
    <3> QED BY <3>3 DEF OneRepeater
  <2>2. StopEndsRepeat
    BY DEF RepeatInv, GuiTypeOK, UiRec, Stopped, StopEndsRepeat
  <2> QED BY <2>1, <2>2 DEF RepeatInv, Told, RepeatIsSound
<1>4. SessionInv /\ [Next]_vars => SessionInv'
  BY SessionStep
<1> QED BY <1>1, <1>2, <1>3, <1>4, SessionInit, PTL DEF Spec

-----------------------------------------------------------------------------
(* The dialog thread, the repeat threads and the scans are different       *)
(* callers.                                                                *)
LEMMA CallersDiffer ==
  /\ UI \in Callers
  /\ \A i \in Repeats : R(i) \in Callers /\ R(i) # UI /\ \A j \in Repeats : R(i) = R(j) => i = j
  /\ \A i \in Scans : S(i) \in Callers /\ S(i) # UI /\ \A j \in Scans : S(i) = S(j) => i = j
  /\ \A i \in Repeats, j \in Scans : R(i) # S(j)
BY GuiAssumption DEF GuiCallers, UI, R, S

(* A function that begins finds its thread at rest and at the first check. *)
LEMMA BeginCall ==
  ASSUME CallInv, NEW c \in Callers, NEW prog, Begin(c, prog)
  PROVE  /\ DOMAIN call' = Callers
         /\ \A d \in Callers : DOMAIN call'[d] = {"prog", "at", "act", "ok"}
         /\ \A d \in Callers : d # c => call'[d] = call[d]
         /\ call'[c].at = "check"
BY DEF CallInv, Begin, Idle

(* A step of a DLL call keeps who is inside a call, and with what.         *)
LEMMA CallerCall ==
  ASSUME CallInv, NEW c \in Callers, CallerStep(c), GuiUnchanged
  PROVE  CallInv'
<1>1. Busy(c)
  BY DEF CallerStep, SdoCheck, SdoRefused, SdoAccess, SdoError
<1>2. /\ DOMAIN call' = Callers
      /\ \A d \in Callers : d # c => call'[d] = call[d]
      /\ DOMAIN call'[c] = {"prog", "at", "act", "ok"}
  BY DEF CallInv, CallerStep, SdoCheck, SdoRefused, SdoAccess, SdoError, Failed
<1>3. call'[c].at = "lock" => call'[c].prog = call[c].prog
  <2>1. CASE SdoCheck(c)
    BY <2>1 DEF CallInv, SdoCheck, Failed
  <2>2. CASE ~SdoCheck(c)
    BY <2>2 DEF CallInv, CallerStep, SdoRefused, SdoAccess, SdoError, Failed
  <2> QED BY <2>1, <2>2
<1>4. ui' = ui /\ rep' = rep /\ coe' = coe
  BY DEF GuiUnchanged
<1> QED BY <1>1, <1>2, <1>3, <1>4, CallersDiffer DEF CallInv, Busy

(* Every step keeps the invariant of the calls.                            *)
LEMMA CallStep ==
  ASSUME SessionInv, CallInv, [Next]_vars
  PROVE  CallInv'
<1>0. ui \in UiRec /\ rep \in [Repeats -> RepeatPc] /\ coe \in [Scans -> {"none", "scan", "dead"}]
  BY DEF SessionInv, GuiTypeOK
<1>1. ASSUME NEW b \in Buttons, MotionButton(b) PROVE CallInv'
  <2>1. Begin(UI, Function(b)) /\ rep' = rep /\ coe' = coe
    BY <1>1 DEF MotionButton
  <2>2. ui'.pc = "call"
    BY <1>0, <1>1 DEF MotionButton, UiRec
  <2> QED BY <2>1, <2>2, BeginCall, CallersDiffer DEF CallInv, Busy
<1>2. ASSUME NEW i \in Repeats, RepeatMove(i) PROVE CallInv'
  <2>1. \E prog : Begin(R(i), prog)
    BY <1>2 DEF RepeatMove
  <2>2. ui'.pc = ui.pc
    BY <1>0, <1>2 DEF RepeatMove, UiRec
  <2>3. coe' = coe /\ rep'[i] \in {"moving1", "moving2"} /\ \A j \in Repeats : j # i => rep'[j] = rep[j]
    BY <1>0, <1>2 DEF RepeatMove, Goes
  <2> QED BY <2>1, <2>2, <2>3, BeginCall, CallersDiffer DEF CallInv, Busy
<1>3. ASSUME NEW i \in Scans, StartScan(i) PROVE CallInv'
  <2>1. \E prog : Begin(S(i), prog)
    BY <1>3 DEF StartScan
  <2>2. ui'.pc = ui.pc
    BY <1>0, <1>3 DEF StartScan, UiRec
  <2>3. rep' = rep /\ coe'[i] = "scan" /\ \A j \in Scans : j # i => coe'[j] = coe[j]
    BY <1>0, <1>3 DEF StartScan
  <2> QED BY <2>1, <2>2, <2>3, BeginCall, CallersDiffer DEF CallInv, Busy
<1>4. ASSUME NEW i \in Repeats, StartRepeat(i) \/ RepeatTest(i) \/ RepeatMoved(i) \/ RepeatFree(i) \/ RepeatTail(i)
      PROVE  CallInv'
  <2>1. ui'.pc = ui.pc
    BY <1>0, <1>4 DEF StartRepeat, RepeatTest, RepeatMoved, RepeatFree, RepeatTail, UiRec
  <2>2. /\ call' = call /\ coe' = coe /\ \A j \in Repeats : j # i => rep'[j] = rep[j]
        /\ rep'[i] \notin {"moving1", "moving2"}
        /\ rep[i] \notin {"moving1", "moving2"} \/ ~Busy(R(i))
    BY <1>0, <1>4 DEF StartRepeat, RepeatTest, RepeatMoved, RepeatFree, RepeatTail, Goes
  <2> QED BY <2>1, <2>2 DEF CallInv, Busy
<1>5. ASSUME NEW i \in Scans, ScanEnds(i) PROVE CallInv'
  <2>1. ui'.pc = ui.pc
    BY <1>0, <1>5 DEF ScanEnds, UiRec
  <2>2. call' = call /\ rep' = rep /\ ~Busy(S(i)) /\ \A j \in Scans : j # i => coe'[j] = coe[j]
    BY <1>0, <1>5 DEF ScanEnds
  <2> QED BY <2>1, <2>2 DEF CallInv, Busy
<1>6. CASE Connect \/ ConnectBusy \/ Disconnect \/ CloseWindow \/ CloseReturns \/ Destroy \/ CallReturns
           \/ ShowStatus \/ PollCollect \/ PollPublish
  <2>1. call' = call /\ rep' = rep /\ coe' = coe
    BY <1>6 DEF Connect, ConnectBusy, Disconnect, CloseWindow, CloseReturns, Destroy, CallReturns, ShowStatus,
       PollCollect, PollPublish
  <2>2. ui.pc # "call" \/ ~Busy(UI) \/ ui' = ui \/ PollPublish
    BY <1>6 DEF Connect, ConnectBusy, Disconnect, CloseWindow, CloseReturns, Destroy, CallReturns, ShowStatus,
       PollCollect, Click
  <2>3. PollPublish => ui'.pc = ui.pc
    BY <1>0 DEF PollPublish, UiRec
  <2> QED BY <2>1, <2>2, <2>3 DEF CallInv, Busy
<1>7. ASSUME NEW w \in Workers, WorkerStep(w), GuiUnchanged PROVE CallInv'
  <2>1. call' = call
    BY <1>7 DEF WorkerStep, WorkerStart, WorkerMemset, WorkerScan, WorkerNoBus, WorkerConfigure, WorkerLoop,
       WorkerCycle, WorkerReport, WorkerTakedown, WorkerDisconnect, WorkerUnopen, WorkerEnd
  <2> QED BY <1>7, <2>1 DEF GuiUnchanged, CallInv, Busy
<1>8. ASSUME NEW c \in Callers, CallerStep(c), GuiUnchanged PROVE CallInv'
  BY <1>8, CallerCall
<1>9. CASE UNCHANGED vars
  BY <1>9 DEF vars, CallInv, Busy
<1> QED BY <1>1, <1>2, <1>3, <1>4, <1>5, <1>6, <1>7, <1>8, <1>9 DEF Next, RepeatStep, Quit

(***************************************************************************)
(* SdoOnConfiguredBus: an SDO access of any thread reaches the bus only    *)
(* when no worker is between ecx_config_init and the end of the            *)
(* configuration, also with several workers after an ECAT_Close that gave  *)
(* up: they all configure under bus_lock.                                  *)
(***************************************************************************)
THEOREM SdosFindConfiguredBus == Spec => SdoOnConfiguredBus
<1> DEFINE Good == \A c \in Callers : call[c].at = "lock" /\ call'[c].at = "check" /\ bus.port
                                       => bus.phase = "up"
<1>1. GuiInit => CallInv
  BY CallersDiffer DEF GuiInit, DllInit, CallInv, Busy, Idle
<1>2. SessionInv /\ CallInv /\ [Next]_vars => Good
  <2> SUFFICES ASSUME SessionInv, CallInv, [Next]_vars, NEW c \in Callers,
                      call[c].at = "lock", call'[c].at = "check", bus.port
               PROVE  bus.phase = "up"
    OBVIOUS
  <2>1. Busy(c) /\ call' # call
    BY DEF CallInv
  <2>2. ASSUME NEW d \in Callers, NEW prog, Begin(d, prog), ~Busy(d) PROVE FALSE
    BY <2>1, <2>2, BeginCall
  <2>3. ASSUME NEW d \in Callers, CallerStep(d) PROVE bus.phase = "up"
    <3>1. CASE d = c
      <4>1. bus.lock = 0
        BY <2>3, <3>1 DEF CallerStep, SdoCheck, SdoRefused, SdoAccess, SdoError
      <4> QED BY <4>1 DEF SessionInv, PortIsUp
    <3>2. CASE d # c
      BY <2>3, <3>2 DEF CallInv, CallerStep, SdoCheck, SdoRefused, SdoAccess, SdoError, Failed
    <3> QED BY <3>1, <3>2
  <2>4. ASSUME NEW b \in Buttons, MotionButton(b) PROVE FALSE
    BY <2>2, <2>4, CallersDiffer DEF MotionButton, Click, CallInv
  <2>5. ASSUME NEW i \in Repeats, RepeatMove(i) PROVE FALSE
    BY <2>2, <2>5, CallersDiffer DEF RepeatMove, CallInv
  <2>6. ASSUME NEW i \in Scans, StartScan(i) PROVE FALSE
    BY <2>2, <2>6, CallersDiffer DEF StartScan, CallInv
  <2>7. ASSUME NEW w \in Workers, WorkerStep(w) PROVE FALSE
    BY <2>1, <2>7 DEF WorkerStep, WorkerStart, WorkerMemset, WorkerScan, WorkerNoBus, WorkerConfigure, WorkerLoop,
       WorkerCycle, WorkerReport, WorkerTakedown, WorkerDisconnect, WorkerUnopen, WorkerEnd
  <2>8. CASE UNCHANGED call
    BY <2>1, <2>8
  <2> QED BY <2>3, <2>4, <2>5, <2>6, <2>7, <2>8 DEF Next, Quit, vars, RepeatStep, StartRepeat, RepeatTest,
             RepeatMoved, RepeatFree, RepeatTail, ScanEnds, Connect, ConnectBusy, Disconnect, CloseWindow,
             CloseReturns, Destroy, CallReturns, ShowStatus, PollCollect, PollPublish
<1>3. SessionInv /\ CallInv /\ [Next]_vars => SessionInv' /\ CallInv'
  BY SessionStep, CallStep
<1> QED BY <1>1, <1>2, <1>3, SessionInit, PTL DEF Spec, SdoOnConfiguredBus, vars, dllvars
=============================================================================
