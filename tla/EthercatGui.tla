----------------------------- MODULE EthercatGui ----------------------------
(***************************************************************************)
(* ethercat_gui.c on top of ethercat_dll: the dialog thread, which runs    *)
(* every click to its end before the next message, the poll thread, the    *)
(* repeat threads that move an axis to and fro, and the CoE scan threads.  *)
(*                                                                         *)
(* A click needs its button, and buttons follow the snapshot displayed     *)
(* last, not the DLL.  What the fields of the dialog hold, the lists and   *)
(* texts, and the message boxes of the dialog thread are left out.         *)
(***************************************************************************)
EXTENDS EcatDll

CONSTANTS
  Buttons,     \* the motion buttons and Read SDO, by the function they call
  MaxClicks,   \* bound: clicks
  MaxRepeats,  \* bound: repeat threads started
  MaxScans     \* bound: CoE scans started

VARIABLES
  ui,    \* the dialog thread and the flags it shares: see GuiInit
  poll,  \* the poll thread: where it is, and the is_open it has read
  rep,   \* per repeat thread: where it is in repeat_thread_proc
  coe    \* per CoE thread: where it is in coe_thread_proc
vars == <<core, bus, wk, stat, call, drv, faults, ui, poll, rep, coe>>

Repeats == 1..MaxRepeats
Scans == 1..MaxScans
R(i) == <<"repeat", i>>
S(i) == <<"scan", i>>
GuiCallers == {<<"ui", 0>>} \cup {R(i) : i \in Repeats} \cup {S(i) : i \in Scans}
UI == <<"ui", 0>>

ASSUME GuiAssumption == Callers = GuiCallers /\ MaxRepeats \in Nat /\ MaxScans \in Nat /\ MaxClicks \in Nat

(* msgs are the WM_GUI_STATUS_READY in the queue of the dialog, shown the  *)
(* is_open that the buttons follow; repeatStop to snapOpen are G_gui's.    *)
(* History: closed, the last ECAT_Close returned ECAT_OK and there was no  *)
(* Open since; moves, the repeated moves begun since the last Stop (2 for  *)
(* more), -1 before it; undone, a thread that ends took back the stop of   *)
(* another one.                                                            *)
GuiInit ==
  /\ DllInit
  /\ ui = [pc |-> "idle", clicks |-> 0, msgs |-> 0, shown |-> FALSE, pending |-> FALSE,
           snapOpen |-> FALSE, pollStop |-> FALSE, repeatStop |-> FALSE,
           repeatRunning |-> FALSE, repeatThread |-> 0, coeRunning |-> FALSE,
           coeThread |-> 0, closed |-> FALSE, moves |-> -1, undone |-> FALSE]
  /\ poll = [pc |-> "collect", open |-> FALSE]
  /\ rep = [i \in Repeats |-> "none"]
  /\ coe = [i \in Scans |-> "none"]

Click(enabled) ==
  /\ ui.pc = "idle" /\ ui.clicks < MaxClicks /\ enabled

-----------------------------------------------------------------------------
(* Connect, start_master: apply_backend_settings takes ECAT_BUSY for OK,   *)
(* so ECAT_Open alone decides.                                             *)
Connect ==
  /\ Click(~ui.shown)
  /\ \/ (\E w \in Workers : Open(w)) /\ UNCHANGED faults
     \/ OpenFails
  /\ ui' = [ui EXCEPT !.clicks = @ + 1, !.closed = FALSE]
  /\ UNCHANGED <<bus, call, drv, poll, rep, coe>>

ConnectBusy ==
  /\ Click(~ui.shown) /\ core.running
  /\ ui' = [ui EXCEPT !.clicks = @ + 1]
  /\ UNCHANGED <<core, bus, wk, stat, call, drv, faults, poll, rep, coe>>

Disconnect ==
  /\ Click(ui.shown) /\ CloseBegin
  /\ ui' = [ui EXCEPT !.clicks = @ + 1, !.pc = "disconnect"]
  /\ UNCHANGED <<bus, wk, stat, call, drv, faults, poll, rep, coe>>

(* WM_CLOSE: the repeat is told to stop, then ECAT_Close.                  *)
CloseWindow ==
  /\ Click(TRUE) /\ CloseBegin
  /\ ui' = [ui EXCEPT !.clicks = MaxClicks, !.pc = "close", !.repeatStop = TRUE]
  /\ UNCHANGED <<bus, wk, stat, call, drv, faults, poll, rep, coe>>

(* ECAT_Close returns; WM_DESTROY stops the poll thread.                   *)
CloseReturns ==
  /\ ui.pc \in {"disconnect", "close"}
  /\ \/ CloseDone /\ ui' = [ui EXCEPT !.closed = (faults.timeouts = 0),
                                      !.pc = IF @ = "close" THEN "joinpoll" ELSE "idle",
                                      !.pollStop = (ui.pc = "close")]
     \/ CloseTimesOut /\ ui' = [ui EXCEPT !.pc = IF @ = "close" THEN "joinpoll" ELSE "idle",
                                          !.pollStop = (ui.pc = "close")]
  /\ UNCHANGED <<bus, wk, stat, call, drv, poll, rep, coe>>

(* stop_poll_thread, stop_repeat_motion(1) and the wait for the CoE thread *)
(* have time limits: the dialog goes on whether or not the thread ended.   *)
Destroy ==
  /\ \/ ui.pc = "joinpoll" /\ ui' = [ui EXCEPT !.pc = "joinrepeat", !.repeatStop = TRUE]
     \/ ui.pc = "joinrepeat" /\ ui' = [ui EXCEPT !.pc = "joincoe", !.repeatThread = 0]
     \/ ui.pc = "joincoe" /\ ui' = [ui EXCEPT !.pc = "quit", !.coeThread = 0]
  /\ UNCHANGED <<core, bus, wk, stat, call, drv, faults, poll, rep, coe>>

(* request_motion_command and request_sdo_read: the function of a button.  *)
Function(b) ==
  CASE b = "FaultReset" -> FaultReset
    [] b = "Enable"     -> ServoEnable
    [] b = "Disable"    -> ServoDisable
    [] b = "Stop"       -> ServoStop
    [] b = "Jog"        -> ServoJog(1)
    [] b = "MoveAbs"    -> ServoMoveAbs(1)
    [] b = "MoveRel"    -> ServoMoveRel(1)
    [] b = "Home"       -> ServoHome
    [] b = "ReadSdo"    -> ServoGetPosition

(* Faulty variant: Stop does not stop the repeat.                          *)
MotionButtonNoStop(b) ==
  /\ Click(ui.shown) /\ core.opened
  /\ Begin(UI, Function(b))
  /\ ui' = [ui EXCEPT !.clicks = @ + 1, !.pc = "call",
                      !.moves = IF b = "Stop" THEN 0 ELSE @]
  /\ UNCHANGED <<core, bus, wk, stat, drv, faults, poll, rep, coe>>

MotionButton(b) ==
  /\ Click(ui.shown) /\ core.opened
  /\ Begin(UI, Function(b))
  /\ ui' = [ui EXCEPT !.clicks = @ + 1, !.pc = "call",
                      !.repeatStop = @ \/ b = "Stop",
                      !.moves = IF b = "Stop" THEN 0 ELSE @]
  /\ UNCHANGED <<core, bus, wk, stat, drv, faults, poll, rep, coe>>

CallReturns ==
  /\ ui.pc = "call" /\ ~Busy(UI)
  /\ ui' = [ui EXCEPT !.pc = "idle"]
  /\ UNCHANGED <<core, bus, wk, stat, call, drv, faults, poll, rep, coe>>

(* start_repeat_motion; an older thread may still be on its last lines.    *)
StartRepeat(i) ==
  /\ Click(ui.shown) /\ core.opened /\ ~ui.repeatRunning
  /\ rep[i] = "none" /\ (\A j \in Repeats : j < i => rep[j] # "none")
  /\ rep' = [rep EXCEPT ![i] = "loop1"]
  /\ ui' = [ui EXCEPT !.clicks = @ + 1, !.repeatRunning = TRUE, !.repeatStop = FALSE,
                      !.repeatThread = i, !.moves = -1]
  /\ UNCHANGED <<core, bus, wk, stat, call, drv, faults, poll, coe>>

(* start_coe_update, clicked or posted by update_gui_from_snapshot.        *)
StartScan(i) ==
  /\ Click(ui.shown) /\ core.opened /\ ~ui.coeRunning
  /\ coe[i] = "none" /\ (\A j \in Scans : j < i => coe[j] # "none")
  /\ coe' = [coe EXCEPT ![i] = "scan"]
  /\ Begin(S(i), <<Step("read", "Others", 0, FALSE), Step("read", "Others", 0, FALSE)>>)
  /\ ui' = [ui EXCEPT !.clicks = @ + 1, !.coeRunning = TRUE, !.coeThread = i]
  /\ UNCHANGED <<core, bus, wk, stat, drv, faults, poll, rep>>

(* WM_GUI_STATUS_READY: the flag first, then the snapshot.                 *)
ShowStatus ==
  /\ ui.pc = "idle" /\ ui.msgs > 0
  /\ ui' = [ui EXCEPT !.msgs = @ - 1, !.pending = FALSE, !.shown = ui.snapOpen]
  /\ UNCHANGED <<core, bus, wk, stat, call, drv, faults, poll, rep, coe>>

-----------------------------------------------------------------------------
(* poll_thread_proc: collect_gui_snapshot, then the snapshot is stored and *)
(* the dialog told, unless it has been told already.                       *)
PollCollect ==
  /\ poll.pc = "collect"
  /\ poll' = IF ui.pollStop THEN [poll EXCEPT !.pc = "dead"]
             ELSE [pc |-> "publish", open |-> core.opened]
  /\ UNCHANGED <<core, bus, wk, stat, call, drv, faults, ui, rep, coe>>

PollPublish ==
  /\ poll.pc = "publish" /\ poll' = [poll EXCEPT !.pc = "collect"]
  /\ ui' = [ui EXCEPT !.snapOpen = poll.open, !.pending = TRUE,
                      !.msgs = IF ui.pending THEN @ ELSE @ + 1]
  /\ UNCHANGED <<core, bus, wk, stat, call, drv, faults, rep, coe>>

-----------------------------------------------------------------------------
Goes(i, pc) == rep' = [rep EXCEPT ![i] = pc]

(* repeat_thread_proc: repeat_stop is looked at before a move, and the     *)
(* move is a sequence of accesses that is not interrupted.                 *)
RepeatTest(i) ==
  /\ rep[i] \in {"loop1", "loop2"}
  /\ Goes(i, IF ui.repeatStop THEN "free" ELSE IF rep[i] = "loop1" THEN "move1" ELSE "move2")
  /\ UNCHANGED <<core, bus, wk, stat, call, drv, faults, ui, poll, coe>>

RepeatMove(i) ==
  /\ rep[i] \in {"move1", "move2"}
  /\ Begin(R(i), ServoMoveAbs(IF rep[i] = "move1" THEN 1 ELSE 0))
  /\ Goes(i, IF rep[i] = "move1" THEN "moving1" ELSE "moving2")
  /\ ui' = [ui EXCEPT !.moves = IF @ \in {-1, 2} THEN @ ELSE @ + 1]
  /\ UNCHANGED <<core, bus, wk, stat, drv, faults, poll, coe>>

(* An error ends the loop after a message box.  wait_repeat_in_position    *)
(* and the delay end on their own or with repeat_stop.                     *)
RepeatMoved(i) ==
  /\ rep[i] \in {"moving1", "moving2"} /\ ~Busy(R(i))
  /\ Goes(i, IF ~call[R(i)].ok THEN "free"
             ELSE IF rep[i] = "moving1" THEN "loop2" ELSE "loop1")
  /\ UNCHANGED <<core, bus, wk, stat, call, drv, faults, ui, poll, coe>>

(* The last lines: repeat_running, then repeat_stop, then the message.     *)
RepeatFree(i) ==
  /\ rep[i] = "free" /\ Goes(i, "tail")
  /\ ui' = [ui EXCEPT !.repeatRunning = FALSE]
  /\ UNCHANGED <<core, bus, wk, stat, call, drv, faults, poll, coe>>

RepeatTail(i) ==
  /\ rep[i] = "tail" /\ Goes(i, "dead")
  /\ ui' = [ui EXCEPT !.repeatStop = FALSE, !.msgs = @ + 1,
                      !.undone = @ \/ \E j \in Repeats : j # i /\ rep[j] \notin {"none", "dead"}]
  /\ UNCHANGED <<core, bus, wk, stat, call, drv, faults, poll, coe>>

(* coe_thread_proc stores its snapshot and lets the next scan start.       *)
ScanEnds(i) ==
  /\ coe[i] = "scan" /\ ~Busy(S(i)) /\ coe' = [coe EXCEPT ![i] = "dead"]
  /\ ui' = [ui EXCEPT !.coeRunning = FALSE]
  /\ UNCHANGED <<core, bus, wk, stat, call, drv, faults, poll, rep>>

-----------------------------------------------------------------------------
GuiUnchanged == UNCHANGED <<ui, poll, rep, coe>>
RepeatStep(i) == RepeatTest(i) \/ RepeatMove(i) \/ RepeatMoved(i) \/ RepeatFree(i) \/ RepeatTail(i)
Quit == ui.pc = "quit" /\ poll.pc = "dead" /\ Live = {} /\ UNCHANGED vars

Next ==
  \/ Connect \/ ConnectBusy \/ Disconnect \/ CloseWindow \/ CloseReturns \/ Destroy
  \/ (\E b \in Buttons : MotionButton(b)) \/ CallReturns
  \/ (\E i \in Repeats : StartRepeat(i) \/ RepeatStep(i))
  \/ (\E i \in Scans : StartScan(i) \/ ScanEnds(i))
  \/ ShowStatus \/ PollCollect \/ PollPublish
  \/ (\E w \in Workers : WorkerStep(w) /\ GuiUnchanged)
  \/ (\E c \in Callers : CallerStep(c) /\ GuiUnchanged)
  \/ Quit

Spec == GuiInit /\ [][Next]_vars

(* The dialog thread and the workers run; the waits of the dialog thread   *)
(* have time limits.  Nothing is asked of the other threads: bus_lock is   *)
(* held by no caller for longer than one access.                           *)
Fair ==
  /\ WF_vars(CloseReturns) /\ WF_vars(Destroy)
  /\ \A w \in Workers : WF_vars(WorkerStep(w) /\ GuiUnchanged)
FairSpec == Spec /\ Fair

-----------------------------------------------------------------------------
(* ECAT_Open and the flags the worker keeps: unless an ECAT_Close gave up  *)
(* waiting, one worker lives at a time, so no two share the context.       *)
OneWorker == faults.timeouts = 0 => Cardinality(Live) <= 1

(* ECAT_Close returned ECAT_OK: no worker, no socket, the slaves in INIT   *)
(* and the DLL says that it is closed, until the next ECAT_Open.           *)
ClosedIsDown ==
  ui.closed => /\ Live = {} /\ ~bus.port /\ ~core.opened /\ ~core.running
               /\ bus.al = "INIT" /\ ~stat.connected

(* The sessions that ECAT_Open and ECAT_Close begin and end are sound:     *)
(* both of the above, and a worker holds bus_lock only while it brings the *)
(* bus up, on no path longer, so that SDO accesses and the next worker get *)
(* it.                                                                     *)
SessionIsSound ==
  OneWorker /\ ClosedIsDown /\ (bus.lock # 0 => wk[bus.lock] = "configure")

(* repeat_running: however often Repeat is clicked, one thread moves the   *)
(* axis.                                                                   *)
OneRepeater == Cardinality({i \in Repeats : rep[i] \notin {"none", "tail", "dead"}}) <= 1

(* repeat_stop: after a click on Stop the repeat begins one more move at   *)
(* most, the one it had already decided on.  The exception is real: a      *)
(* thread that ends resets repeat_stop after repeat_running, and may so    *)
(* undo the stop of the thread that was started in between.                *)
StopEndsRepeat == ui.moves > 1 => ui.undone

(* Repeat and Stop in every order: one thread, which Stop ends; and        *)
(* update_pending never says that a message is on its way to the dialog    *)
(* when there is none, after which nothing would be displayed any more.    *)
RepeatIsSound == OneRepeater /\ StopEndsRepeat /\ (ui.pending => ui.msgs > 0)

(* WM_CLOSE: the window closes, the worker ends and the slaves are told to *)
(* go to INIT, even when ECAT_Close gave up waiting for it.                *)
CloseTakesBusDown == ui.pc = "close" ~> ui.pc = "quit" /\ Live = {} /\ ~bus.port
=============================================================================
