------------------------------ MODULE RtBackend ------------------------------
(***************************************************************************)
(* ethercat_igh_backend_server: the TCP handler thread (main and           *)
(* handle_client), the real-time thread (rt_thread_main), the command and  *)
(* status they share under rt->lock, and their environment: one client,    *)
(* SIGINT, the EtherCAT frame and the drive.                               *)
(*                                                                         *)
(* Each action is one critical section with the private work around it;    *)
(* the steps of the two threads interleave freely between the actions.     *)
(* Abstractions:                                                           *)
(*  - the monotonic clock is counted in ticks, only as the time since the  *)
(*    last client message;                                                 *)
(*  - "generation # generation_seen" is the flag fresh of the command, and *)
(*    the reset generation likewise the flag reset;                        *)
(*  - of cycle and sequence_start_cycle only the difference is kept, which *)
(*    saturates at SeqTimeout, where the test of the code is decided; the  *)
(*    cycle a sequence started in is any number up to MaxStart;            *)
(*  - the LMS commands differ from the servo ones only in the profile      *)
(*    type, which MotionProfile does not tell apart;                       *)
(*  - counters and timings that are only printed are left out.             *)
(***************************************************************************)
EXTENDS Cia402, MotionProfile, Sequences, FiniteSets

CONSTANTS
  Requests,       \* messages the client sends after its hello
  ClientTimeout,  \* client_timeout_ms in ticks, 0 disables the heartbeat check
  SeqTimeout,     \* sequence_timeout_ms in cycles
  MaxStart,       \* bound: the cycle in which a sequence starts
  MaxPos,         \* positions of the axis are 0..MaxPos, between hard stops
  HandlerDelay,   \* bound: ticks that may pass between mark and apply
  Disturbances    \* what the environment does to the run: {"fault", "loss", "signal"}

Modes402 == {"0", "CSP", "CSV", "HM"}
Controlwords == SUBSET (0..15)

(* The ECAT_NetCommand, ECAT_NetSdoRequest and other messages of the       *)
(* protocol, with the fields the backend reads.                            *)
CommandNames == {"None", "Start", "Unknown", "Stop", "ResetStatistics", "FaultReset", "Enable",
                 "Disable", "SetMode", "MoveAbs", "MoveRel", "Jog", "Home", "ServoStop"}
Messages ==
  [kind : {"Command"}, name : CommandNames, pos : Int, vel : Int, mode : Modes402]
  \cup [kind : {"SdoWrite"}, object : {"6040", "6060", "607a", "60ff", "1000"},
        cw : Controlwords, mode : Modes402, pos : Int, vel : Int]
  \cup [kind : {"SdoRead", "Other", "Hello"}]

ASSUME BackendAssumption ==
  /\ ClientTimeout \in Nat /\ HandlerDelay \in Nat
  /\ SeqTimeout \in Nat \ {0} /\ MaxStart \in Nat /\ MaxPos \in Nat
  /\ Disturbances \subseteq {"fault", "loss", "signal"}
  /\ Requests \subseteq Messages

VARIABLES
  link,     \* the client's socket: "none", "up", or "closed" by the peer
  inbox,    \* messages received and not yet read, at most one
  hpc,      \* program counter of the handler thread
  hmsg,     \* the message it is handling
  cmd,      \* rt->command
  flags,    \* rt->initialized, fatal_error, stop_requested, safety_stop_active
  age,      \* ticks since rt->last_client_message_ns
  status,   \* the part of rt->status a client acts on
  rpc,      \* program counter of the real-time thread
  loc,      \* its local variables
  pdo,      \* the output process image
  inp,      \* the input process image
  drv,      \* the drive
  gstop,    \* G_stop
  since     \* history, not in the code: cycles since the command was taken up
vars == <<link, inbox, hpc, hmsg, cmd, flags, age, status, rpc, loc, pdo, inp, drv, gstop, since>>

clientVars == <<link, inbox>>
handlerVars == <<hpc, hmsg>>
rtVars == <<rpc, loc, since>>
driveVars == <<pdo, inp, drv>>

Hello == [kind |-> "Hello"]
Silent == IF ClientTimeout = 0 THEN 0 ELSE ClientTimeout + 1
-----------------------------------------------------------------------------
(* The command block.                                                      *)

(* runtime_init: memset, then cia402_motion_init.  The real-time thread    *)
(* has seen generation UINT32_MAX, so the first command is fresh.          *)
CommandInit == [cw |-> CW_ZERO, tpos |-> 0, tvel |-> 0, mode |-> "0", seq |-> "None",
                motion |-> NoMotion, fresh |-> TRUE, reset |-> FALSE]

FlagsInit == [initialized |-> FALSE, fatal |-> FALSE, stop |-> FALSE, safety |-> FALSE]

OutputsZero == [cw |-> CW_ZERO, tpos |-> 0, tvel |-> 0, mode |-> "0"]

StatusInit == [connected |-> FALSE, error |-> ""]

(* The locals of rt_thread_main before its loop.                           *)
LocInit == [cmd |-> CommandInit, safety |-> FALSE, silence |-> 0, done |-> TRUE,
            failed |-> FALSE, elapsed |-> 0, holdValid |-> FALSE, hold |-> 0,
            profile |-> ProfileReset]

(* Faulty variants, to show what the properties notice: the motion, or the *)
(* sequence, survives the stop.                                            *)
SafeStopKeepsMotion(c)   == [c EXCEPT !.cw = CW_ZERO, !.tvel = 0, !.seq = "None"]
SafeStopKeepsSequence(c) == [c EXCEPT !.cw = CW_ZERO, !.tvel = 0, !.motion = NoMotion]

(* backend_command_safe_stop *)
SafeStop(c) == [[c EXCEPT !.cw = CW_ZERO, !.tvel = 0] EXCEPT !.seq = "None", !.motion = NoMotion]

(* command->generation++ *)
Fresh(c) == [c EXCEPT !.fresh = TRUE]

(* The sequence and motion that a command installs; cia402_motion_init     *)
(* clears the rest of the motion.                                          *)
Install(c, seq, motion) == Fresh([c EXCEPT !.seq = seq, !.motion = motion])

(* The motion of a command; its accelerations are 1 unit (a stop sets and  *)
(* uses only the deceleration).                                            *)
Motion(type, mode, pos, vel, speed, rel) ==
  [type |-> type, mode |-> mode, position |-> pos, velocity |-> vel, speed |-> speed,
   acceleration |-> 1, deceleration |-> 1, relative |-> rel]

PositionMotion(m, rel)    == Motion("Position", "CSP", m.pos, 0, 1, rel)
VelocityMotion(ty, md, v) == Motion(ty, md, 0, v, 0, FALSE)

(* runtime_apply_command: the effect on rt->command.                       *)
ApplyCommand(c, m) ==
  CASE m.name \in {"None", "Start", "Unknown"} -> c
    [] m.name = "Stop"            -> Fresh(SafeStop(c))
    [] m.name = "ResetStatistics" -> [c EXCEPT !.reset = TRUE]
    [] m.name = "FaultReset"      -> Install(c, "FaultReset", NoMotion)
    [] m.name = "Enable"          -> Install(c, "Enable", NoMotion)
    [] m.name = "Disable"         -> Install(c, "Disable", NoMotion)
    [] m.name = "SetMode"         -> Install([c EXCEPT !.mode = m.mode], "None", NoMotion)
    [] m.name = "MoveAbs"         -> Install([c EXCEPT !.tpos = m.pos], "Enable",
                                             PositionMotion(m, FALSE))
    [] m.name = "MoveRel"         -> Install([c EXCEPT !.tpos = m.pos], "Enable",
                                             PositionMotion(m, TRUE))
    [] m.name = "Jog"             -> Install([c EXCEPT !.tvel = m.vel], "Enable",
                                             VelocityMotion("Jog", "CSV", m.vel))
    [] m.name = "Home"            -> Install(c, "Enable", VelocityMotion("Home", "HM", m.vel))
    [] m.name = "ServoStop"       -> Install(c, "None", VelocityMotion("ServoStop", "CSV", 0))

(* runtime_write_cached_sdo: an unmapped object, or a request that is too  *)
(* short, changes nothing.                                                 *)
WriteCachedSdo(c, m) ==
  CASE m.object = "6040" -> Install([c EXCEPT !.cw = m.cw], "None", NoMotion)
    [] m.object = "6060" -> Install([c EXCEPT !.mode = m.mode], "None", NoMotion)
    [] m.object = "607a" -> Install([c EXCEPT !.tpos = m.pos], "None", NoMotion)
    [] m.object = "60ff" -> Install([c EXCEPT !.tvel = m.vel], "None", NoMotion)
    [] OTHER             -> c
-----------------------------------------------------------------------------
(* The environment.                                                        *)

Sample(d) == [status |-> StatusOf(d.state), pos |-> d.pos, vel |-> d.vel, mode |-> d.mode]

(* Without power the axis can be moved by hand or by gravity.              *)
FreeStates == DriveStates \ {"SwitchedOn", "OperationEnabled", "QuickStopActive"}

InRange(p) == ClampLow(ClampHigh(p, MaxPos), 0)

(***************************************************************************)
(* The frame reaches the drive (external): it returns the inputs the drive *)
(* had and delivers the outputs o, which the drive acts on afterwards.     *)
(* What a drive does by itself in homing mode is left out.                 *)
(***************************************************************************)
DriveFrame(o) ==
  LET st   == DriveReacts(drv.state, drv.cw, o.cw)
      mode == IF o.mode = "0" THEN drv.mode ELSE o.mode
      goal == CASE mode = "CSP" -> InRange(o.tpos)
                [] mode = "CSV" -> InRange(drv.pos + o.tvel)
                [] OTHER        -> drv.pos
  IN  /\ inp' = Sample(drv)
      /\ IF st = "OperationEnabled"
         THEN drv' = [state |-> st, cw |-> o.cw, pos |-> goal, vel |-> goal - drv.pos, mode |-> mode]
         ELSE \E p \in IF st \in FreeStates THEN 0..MaxPos ELSE {drv.pos} :
                drv' = [state |-> st, cw |-> o.cw, pos |-> p, vel |-> 0, mode |-> mode]

(* The frame is lost: ecrt_domain_process finds no new inputs.             *)
FrameLost == "loss" \in Disturbances /\ UNCHANGED <<inp, drv>>

(* The drive detects a fault, and ends its fault reaction (external).      *)
DriveFault ==
  /\ "fault" \in Disturbances
  /\ drv.state \notin {"FaultReactionActive", "Fault"}
  /\ drv' = [drv EXCEPT !.state = "FaultReactionActive", !.vel = 0]
  /\ UNCHANGED <<clientVars, handlerVars, cmd, flags, age, status, rtVars, pdo, inp, gstop>>

DriveFaultReacted ==
  /\ drv.state = "FaultReactionActive"
  /\ drv' = [drv EXCEPT !.state = "Fault"]
  /\ UNCHANGED <<clientVars, handlerVars, cmd, flags, age, status, rtVars, pdo, inp, gstop>>

(* The sync manager watchdog (EC_WD_ENABLE in G_lts_syncs) trips when the  *)
(* real-time thread sends no more frames (external).                       *)
DriveWatchdog ==
  /\ rpc \in {"none", "exited"}
  /\ drv.state \in {"SwitchedOn", "OperationEnabled", "QuickStopActive"}
  /\ drv' = [drv EXCEPT !.state = "SwitchOnDisabled", !.vel = 0]
  /\ UNCHANGED <<clientVars, handlerVars, cmd, flags, age, status, rtVars, pdo, inp, gstop>>

(* Time passes.  HandlerDelay bounds how long the handler thread may stay  *)
(* between runtime_mark_client_message and the change it then makes.       *)
Tick ==
  /\ age < Silent /\ hpc \notin {"accept", "exit"}
  /\ hpc = "apply" => age < HandlerDelay
  /\ age' = age + 1
  /\ UNCHANGED <<clientVars, handlerVars, cmd, flags, status, rtVars, driveVars, gstop>>

Signal ==
  /\ "signal" \in Disturbances /\ ~gstop
  /\ gstop' = TRUE
  /\ UNCHANGED <<clientVars, handlerVars, cmd, flags, age, status, rtVars, driveVars>>

ClientConnect ==
  /\ link = "none" /\ hpc = "accept"
  /\ link' = "up" /\ inbox' = <<Hello>>
  /\ UNCHANGED <<handlerVars, cmd, flags, age, status, rtVars, driveVars, gstop>>

ClientSend(m) ==
  /\ link = "up" /\ inbox = <<>> /\ hpc \in {"loop", "recv"}
  /\ inbox' = <<m>>
  /\ UNCHANGED <<link, handlerVars, cmd, flags, age, status, rtVars, driveVars, gstop>>

ClientClose ==
  /\ link = "up"
  /\ link' = "closed"
  /\ UNCHANGED <<inbox, handlerVars, cmd, flags, age, status, rtVars, driveVars, gstop>>
-----------------------------------------------------------------------------
(* The handler thread: main and handle_client.                             *)

(* accept returned a client and its first message is the hello: the        *)
(* runtime is initialized and the real-time thread is created.  signal()   *)
(* installs the handler with SA_RESTART, so accept and recv do not return  *)
(* when G_stop is set.                                                     *)
HandlerStart ==
  /\ hpc = "accept" /\ inbox = <<Hello>>
  /\ inbox' = <<>>
  /\ cmd' = CommandInit /\ flags' = FlagsInit /\ age' = 0 /\ status' = StatusInit
  /\ rpc' = "setup" /\ loc' = LocInit /\ since' = 0
  /\ hpc' = "wait"
  /\ UNCHANGED <<link, hmsg, driveVars, gstop>>

(* runtime_wait_first_status returned, by its condition or after 500       *)
(* sleeps, and the first status was sent, or the send failed.              *)
HandlerFirstStatus ==
  /\ hpc = "wait"
  /\ hpc' \in IF link = "closed" THEN {"loop", "stop"} ELSE {"loop"}
  /\ UNCHANGED <<clientVars, hmsg, cmd, flags, age, status, rtVars, driveVars, gstop>>

(* while (!G_stop) *)
HandlerLoop ==
  /\ hpc = "loop"
  /\ hpc' = IF gstop THEN "stop" ELSE "recv"
  /\ UNCHANGED <<clientVars, hmsg, cmd, flags, age, status, rtVars, driveVars, gstop>>

(* recv_message returned a message and runtime_mark_client_message ran.    *)
(* loc.silence is loop_time - last_client_message_ns, so it restarts too.  *)
HandlerRecv ==
  /\ hpc = "recv" /\ inbox # <<>>
  /\ hmsg' = Head(inbox) /\ inbox' = Tail(inbox)
  /\ age' = 0 /\ flags' = [flags EXCEPT !.safety = FALSE]
  /\ loc' = [loc EXCEPT !.silence = 0]
  /\ hpc' = "apply"
  /\ UNCHANGED <<link, cmd, status, rpc, since, driveVars, gstop>>

(* recv_message failed: the peer closed the connection.                    *)
HandlerRecvFails ==
  /\ hpc = "recv" /\ inbox = <<>> /\ link = "closed"
  /\ hpc' = "stop"
  /\ UNCHANGED <<clientVars, hmsg, cmd, flags, age, status, rtVars, driveVars, gstop>>

HandlerApply ==
  /\ hpc = "apply"
  /\ cmd' = CASE hmsg.kind = "Command"  -> ApplyCommand(cmd, hmsg)
              [] hmsg.kind = "SdoWrite" -> WriteCachedSdo(cmd, hmsg)
              [] OTHER                  -> cmd
  /\ status' = IF hmsg.kind = "Command" /\ hmsg.name = "Unknown"
               THEN [status EXCEPT !.error = "Unsupported"] ELSE status
  /\ hpc' = "reply" /\ hmsg' = Hello
  /\ UNCHANGED <<clientVars, flags, age, rtVars, driveVars, gstop>>

(* The reply was sent, or the peer is gone and the send failed.            *)
HandlerReply ==
  /\ hpc = "reply"
  /\ hpc' \in IF link = "closed" THEN {"loop", "stop"} ELSE {"loop"}
  /\ UNCHANGED <<clientVars, hmsg, cmd, flags, age, status, rtVars, driveVars, gstop>>

(* runtime_request_stop *)
HandlerStop ==
  /\ hpc = "stop"
  /\ flags' = [flags EXCEPT !.stop = TRUE]
  /\ hpc' = "join"
  /\ UNCHANGED <<clientVars, hmsg, cmd, age, status, rtVars, driveVars, gstop>>

(* while (!G_stop) of main, after handle_client has returned.              *)
AcceptLoop == IF gstop THEN "exit" ELSE "accept"

(* pthread_join returned; the runtime is destroyed, the socket closed.     *)
(* The runtime and the thread's locals are dead from here on.              *)
HandlerJoin ==
  /\ hpc = "join" /\ rpc = "exited"
  /\ rpc' = "none" /\ hpc' = AcceptLoop /\ link' = "none" /\ inbox' = <<>>
  /\ cmd' = CommandInit /\ flags' = FlagsInit /\ age' = 0 /\ status' = StatusInit
  /\ loc' = LocInit /\ since' = 0
  /\ UNCHANGED <<hmsg, driveVars, gstop>>

(* handle_client returns at once: the first message is not a hello, the    *)
(* peer left before it, or pthread_create failed.                          *)
HandlerRejects ==
  /\ hpc = "accept" /\ link # "none"
  /\ link' = "none" /\ inbox' = <<>> /\ hpc' = AcceptLoop
  /\ UNCHANGED <<hmsg, cmd, flags, age, status, rtVars, driveVars, gstop>>

(* accept failed with another error than EINTR.                            *)
AcceptFails ==
  /\ hpc = "accept" /\ link = "none"
  /\ hpc' = "exit"
  /\ UNCHANGED <<clientVars, hmsg, cmd, flags, age, status, rtVars, driveVars, gstop>>
-----------------------------------------------------------------------------
(* The real-time thread: rt_thread_main.                                   *)

(* The master is configured and activated and a first frame of zeros sent. *)
RtSetup ==
  /\ rpc = "setup"
  /\ pdo' = OutputsZero
  /\ DriveFrame(OutputsZero) \/ FrameLost
  /\ flags' = [flags EXCEPT !.initialized = TRUE, !.fatal = FALSE]
  /\ status' = [status EXCEPT !.connected = TRUE, !.error = ""]
  /\ rpc' = "top"
  /\ UNCHANGED <<clientVars, handlerVars, cmd, age, loc, gstop, since>>

(* One of the ecrt calls failed: runtime_set_fatal, then out: without a    *)
(* process image to clear.                                                 *)
RtSetupFails ==
  /\ rpc = "setup"
  /\ flags' = [flags EXCEPT !.fatal = TRUE, !.initialized = FALSE]
  /\ status' = [status EXCEPT !.connected = FALSE, !.error = "Fatal"]
  /\ rpc' = "exited"
  /\ UNCHANGED <<clientVars, handlerVars, cmd, age, loc, driveVars, gstop, since>>

(* Faulty variant: G_stop is not looked at.                                *)
RtTopIgnoresSignal ==
  /\ rpc = "top"
  /\ IF flags.stop \/ flags.fatal
     THEN rpc' = "out" /\ loc' = loc
     ELSE rpc' = "snapshot" /\ loc' = [loc EXCEPT !.silence = age]
  /\ UNCHANGED <<clientVars, handlerVars, cmd, flags, age, status, driveVars, gstop, since>>

(* runtime_should_stop, then loop_time is sampled.                         *)
RtTop ==
  /\ rpc = "top"
  /\ IF flags.stop \/ flags.fatal \/ gstop
     THEN rpc' = "out" /\ loc' = loc
     ELSE rpc' = "snapshot" /\ loc' = [loc EXCEPT !.silence = age]
  /\ UNCHANGED <<clientVars, handlerVars, cmd, flags, age, status, driveVars, gstop, since>>

(* The locals when the snapshot c is new: its sequence starts over.        *)
TakeUp(l, c) ==
  IF c.fresh
  THEN [l EXCEPT !.cmd = c, !.done = c.seq = "None", !.failed = FALSE, !.elapsed = 0,
                 !.profile = ProfileReset,
                 !.holdValid = @ /\ c.motion.type # "None"]
  ELSE [l EXCEPT !.cmd = c]

(* Faulty variant: sequence_start_cycle is zeroed and cycle is kept.       *)
ResetZeroesStart(l, c) ==
  IF c.reset THEN {[l EXCEPT !.elapsed = @ + start] : start \in 0..MaxStart} ELSE {l}

(* reset_generation changed: cycle = 0, sequence_start_cycle stays.        *)
ResetStatistics(l, c) ==
  IF c.reset THEN {[l EXCEPT !.elapsed = -start] : start \in 0..MaxStart} ELSE {l}

(***************************************************************************)
(* The first critical section of a cycle: the heartbeat check, which stops *)
(* the drive once per silence, and the snapshot of the command.            *)
(***************************************************************************)
RtSnapshot ==
  LET expired == ClientTimeout > 0 /\ loc.silence > ClientTimeout
      fire    == expired /\ ~flags.safety
      c       == IF fire THEN Fresh(SafeStop(cmd)) ELSE cmd
  IN  /\ rpc = "snapshot"
      /\ cmd' = [c EXCEPT !.fresh = FALSE, !.reset = FALSE]
      /\ flags' = [flags EXCEPT !.safety = @ \/ fire]
      /\ status' = IF fire THEN [status EXCEPT !.error = "ClientTimeout"] ELSE status
      /\ \E l \in ResetStatistics(loc, c) :
           loc' = [TakeUp(l, c) EXCEPT !.safety = flags.safety \/ fire]
      /\ since' = IF c.fresh THEN 0 ELSE since
      /\ rpc' = "cycle"
      /\ UNCHANGED <<clientVars, handlerVars, age, driveVars, gstop>>

(* Faulty variant: the position is held before the drive is enabled.       *)
TracksWhileSequencing(st) ==
  loc.safety \/ loc.cmd.seq \in {"Disable", "FaultReset"}

(* The idle policy: follow the actual position, or hold the latched one.   *)
TracksActual(st) ==
  \/ loc.safety
  \/ st # "OperationEnabled"
  \/ loc.cmd.seq = "Enable" /\ ~loc.done
  \/ loc.cmd.seq \in {"Disable", "FaultReset"}

Latches(st) == loc.cmd.motion.type = "None" /\ (TracksActual(st) \/ ~loc.holdValid)

(* Faulty variant: one cycle late.                                         *)
SeqFailedLate(st) == loc.failed \/ (~(loc.done \/ SequenceReached(loc.cmd.seq, st))
                                      /\ loc.elapsed > SeqTimeout)

(* sequence_done and sequence_failed after this cycle.                     *)
SeqDone(st)   == loc.done \/ SequenceReached(loc.cmd.seq, st)
SeqFailed(st) == loc.failed \/ (~SeqDone(st) /\ loc.elapsed >= SeqTimeout)

MotionRuns(st) == loc.cmd.motion.type # "None" /\ SeqDone(st) /\ ~SeqFailed(st)

CycleProfile(st) ==
  CASE MotionRuns(st)                -> ProfileStep(loc.profile, loc.cmd.motion, inp.pos, inp.vel)
    [] loc.cmd.motion.type = "None"  -> ProfileReset
    [] OTHER                         -> loc.profile

(* The outputs written to the process image.                               *)
CycleOutputs(st) ==
  IF MotionRuns(st) THEN ProfileOutput(CycleProfile(st), loc.cmd.motion, inp.pos)
  ELSE [cw   |-> SequenceControlword(loc.cmd.seq, st, loc.cmd.cw),
        tpos |-> IF loc.cmd.motion.type = "None" /\ ~Latches(st) THEN loc.hold ELSE inp.pos,
        tvel |-> loc.cmd.tvel,
        mode |-> IF loc.cmd.mode # "0" THEN loc.cmd.mode ELSE inp.mode]

CycleLocals(st) ==
  [loc EXCEPT !.done = SeqDone(st), !.failed = SeqFailed(st), !.profile = CycleProfile(st),
              !.hold = IF Latches(st) THEN inp.pos ELSE @,
              !.holdValid = @ \/ Latches(st),
              !.elapsed = ClampHigh(@ + 1, SeqTimeout)]

(***************************************************************************)
(* The rest of a cycle: the inputs are read, the outputs computed and      *)
(* written, the status published in the second critical section, and the   *)
(* frame sent, which is delivered or lost.                                 *)
(***************************************************************************)
RtCycle(delivered) ==
  LET st == StateFromStatus(inp.status)
      o  == CycleOutputs(st)
  IN  /\ rpc = "cycle"
      /\ pdo' = o
      /\ loc' = CycleLocals(st)
      /\ status' = [connected |-> TRUE,
                    error |-> IF loc.safety THEN "ClientTimeout"
                              ELSE IF SeqFailed(st) THEN "SequenceTimeout" ELSE ""]
      /\ IF delivered THEN DriveFrame(o) ELSE FrameLost
      /\ since' = ClampHigh(since + 1, SeqTimeout + 1)
      /\ rpc' = "top"
      /\ UNCHANGED <<clientVars, handlerVars, cmd, flags, age, gstop>>

(* Faulty variant: the last outputs stay in the process image.             *)
RtOutKeepsOutputs ==
  /\ rpc = "out"
  /\ flags' = [flags EXCEPT !.initialized = FALSE]
  /\ status' = [status EXCEPT !.connected = FALSE]
  /\ rpc' = "exited"
  /\ UNCHANGED <<clientVars, handlerVars, cmd, age, loc, driveVars, gstop, since>>

(* out: the outputs are cleared and sent once, the master is released.     *)
RtOut ==
  /\ rpc = "out"
  /\ pdo' = OutputsZero
  /\ DriveFrame(OutputsZero) \/ FrameLost
  /\ flags' = [flags EXCEPT !.initialized = FALSE]
  /\ status' = [status EXCEPT !.connected = FALSE]
  /\ rpc' = "exited"
  /\ UNCHANGED <<clientVars, handlerVars, cmd, age, loc, gstop, since>>
-----------------------------------------------------------------------------
DriveInit == [state |-> "SwitchOnDisabled", cw |-> CW_ZERO, pos |-> 0, vel |-> 0, mode |-> "CSP"]

Init ==
  /\ link = "none" /\ inbox = <<>> /\ hpc = "accept" /\ hmsg = Hello
  /\ cmd = CommandInit /\ flags = FlagsInit /\ age = 0 /\ status = StatusInit
  /\ rpc = "none" /\ loc = LocInit /\ since = 0
  /\ pdo = OutputsZero /\ drv = DriveInit /\ inp = Sample(DriveInit)
  /\ gstop = FALSE

Client  == ClientConnect \/ ClientClose \/ \E m \in Requests : ClientSend(m)
Handler == \/ HandlerStart \/ HandlerFirstStatus \/ HandlerLoop \/ HandlerRecv
           \/ HandlerRecvFails \/ HandlerApply \/ HandlerReply \/ HandlerStop
           \/ HandlerJoin \/ HandlerRejects
Rt      == RtSetup \/ RtSetupFails \/ RtTop \/ RtSnapshot \/ RtOut
           \/ \E d \in BOOLEAN : RtCycle(d)
Drive   == DriveFault \/ DriveFaultReacted \/ DriveWatchdog

(* The process has ended; any other state without a step is a deadlock.    *)
Terminated == hpc = "exit" /\ UNCHANGED vars

Next == Client \/ Handler \/ Rt \/ Drive \/ Tick \/ Signal \/ AcceptFails \/ Terminated

(***************************************************************************)
(* Both threads are scheduled and time passes; frames are not lost for     *)
(* ever and the drive's watchdog works.  Nothing is assumed of the client, *)
(* of signals or of faults.                                                *)
(***************************************************************************)
Fairness ==
  /\ WF_vars(Handler) /\ WF_vars(Rt) /\ WF_vars(Tick)
  /\ SF_vars(RtCycle(TRUE))
  /\ WF_vars(DriveWatchdog) /\ WF_vars(DriveFaultReacted)

Spec     == Init /\ [][Next]_vars
FairSpec == Spec /\ Fairness
-----------------------------------------------------------------------------
Outputs == [cw : Controlwords, tpos : Int, tvel : Int, mode : Modes402]

MotionTypes == {"None", "Position", "Jog", "Home", "ServoStop"}

Motions == [type : MotionTypes, position : Int, velocity : Int, speed : Int,
            acceleration : Int, deceleration : Int, mode : Modes402, relative : BOOLEAN]

Profiles == [type : MotionTypes, active : BOOLEAN, done : BOOLEAN, position : Int,
             velocity : Int, tposition : Int, tvelocity : Int, max : Int,
             acceleration : Int, deceleration : Int]

CommandBlocks == [cw : Controlwords, tpos : Int, tvel : Int, mode : Modes402,
                  seq : Sequences402, motion : Motions, fresh : BOOLEAN, reset : BOOLEAN]

Locals == [cmd : CommandBlocks, safety : BOOLEAN, silence : 0..Silent, done : BOOLEAN,
           failed : BOOLEAN, elapsed : (-MaxStart)..SeqTimeout, holdValid : BOOLEAN,
           hold : Int, profile : Profiles]

AllFlags == [initialized : BOOLEAN, fatal : BOOLEAN, stop : BOOLEAN, safety : BOOLEAN]
InputImages == [status : Controlwords, pos : 0..MaxPos, vel : Int, mode : Modes402]
Drives == [state : DriveStates, cw : Controlwords, pos : 0..MaxPos, vel : Int, mode : Modes402]

(* The threads' program counters, the blocks they share and the images.    *)
TypeOK ==
  /\ link \in {"none", "up", "closed"} /\ inbox \in Seq(Messages) /\ hmsg \in Messages
  /\ hpc \in {"accept", "wait", "loop", "recv", "apply", "reply", "stop", "join", "exit"}
  /\ rpc \in {"none", "setup", "top", "snapshot", "cycle", "out", "exited"}
  /\ cmd \in CommandBlocks /\ loc \in Locals
  /\ flags \in AllFlags
  /\ age \in 0..Silent /\ since \in 0..(SeqTimeout + 1) /\ gstop \in BOOLEAN
  /\ pdo \in Outputs /\ inp \in InputImages /\ drv \in Drives

(* What backend_command_safe_stop leaves: nothing that moves the drive.    *)
Inert(c) == c.cw = CW_ZERO /\ c.tvel = 0 /\ c.seq = "None" /\ c.motion = NoMotion

(***************************************************************************)
(* The heartbeat: a cycle that starts more than client_timeout_ms after    *)
(* the last client message computes its outputs from a stopped command.    *)
(***************************************************************************)
SilentClientIsStopped ==
  (rpc = "cycle" /\ ClientTimeout > 0 /\ loc.silence > ClientTimeout) => Inert(loc.cmd)

(***************************************************************************)
(* Between two clients the process image holds zeros and no real-time      *)
(* thread runs, whichever way the last session ended.                      *)
(***************************************************************************)
LeavesZero == hpc \in {"accept", "exit"} => pdo = OutputsZero /\ rpc = "none"

(***************************************************************************)
(* A sequence that has not reached its state SeqTimeout cycles after its   *)
(* command was taken up is reported as failed, and its motion never runs.  *)
(***************************************************************************)
SequenceTimesOut ==
  (rpc = "top" /\ ~loc.done /\ since > SeqTimeout) => loc.failed /\ ~loc.profile.active

(***************************************************************************)
(* Servo On: when the drive becomes Operation Enabled, the outputs of that *)
(* frame keep the axis where it is, wherever it was moved without power.   *)
(***************************************************************************)
PowerOnStandsStill ==
  [][(drv.state # "OperationEnabled" /\ drv'.state = "OperationEnabled") => drv'.pos = drv.pos]_vars

(***************************************************************************)
(* A position move keeps one target while its command is in force: a       *)
(* relative distance is added once, to the position at its first cycle.    *)
(***************************************************************************)
TargetFixed ==
  [][(loc.profile.active /\ loc'.profile.active) => loc'.profile.tposition = loc.profile.tposition]_vars

DriveIsOff == drv.state # "OperationEnabled"

(***************************************************************************)
(* A drive whose client falls silent for longer than client_timeout_ms     *)
(* loses power, unless the client speaks again.                            *)
(***************************************************************************)
SilenceStopsDrive == (hpc = "recv" /\ age > ClientTimeout) ~> (DriveIsOff \/ age = 0)

(* A drive whose client closes the connection loses power.                 *)
PeerGoneStopsDrive == (link = "closed") ~> (DriveIsOff \/ link = "up")

(* After SIGINT or SIGTERM the drive loses power and never gets it again.  *)
SignalStopsDrive == gstop ~> []DriveIsOff

(* However a session ends, by its client or by a signal, the threads agree *)
(* on it and the drive loses power.                                        *)
SessionEndStopsDrive == PeerGoneStopsDrive /\ SignalStopsDrive
=============================================================================
