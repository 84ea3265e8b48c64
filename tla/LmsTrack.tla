------------------------------ MODULE LmsTrack ------------------------------
(***************************************************************************)
(* lms_master.c: a mover on a track of stators.  The stator map is read    *)
(* from a file and validated, the bus is started, and in every cycle the   *)
(* planner moves the mover and the drive of the stator below it is given   *)
(* its controlword and its target; at the end the bus is stopped.  (What   *)
(* fieldbus_check_state does about lost slaves is in SlaveStates.)         *)
(*                                                                         *)
(* Positions are whole units and a period is one unit of time; the program *)
(* computes in double.  A line of the file is [line, slave, from, to,      *)
(* pitch, counts, outs, ins]: line, "skip" (empty, a comment or the        *)
(* header), "bad" or "stator"; outs, the offsets of its outputs lie in the *)
(* slave's process data; ins, that of the statusword does.  The drives are *)
(* external.                                                               *)
(***************************************************************************)
EXTENDS Integers, Sequences, Cia402

CONSTANTS
  Tracks,       \* the files to try
  Journeys,     \* options: [motion, start, target, vmax, acc, cycles, drives, op]; cycles < 0: no end
  MaxStators,   \* LMS_MAX_STATORS
  TrackSlaves,  \* slaves on the bus
  MaxFrameLoss, \* bound: lost cycles
  MaxDriveFault \* bound: faults of drives

(* parse_options accepts a positive velocity and acceleration only.        *)
ASSUME LmsAssumption ==
  /\ Tracks \subseteq Seq([line : {"skip", "bad", "stator"}, slave : Int, from : Int, to : Int,
                           pitch : Int, counts : Int, outs : BOOLEAN, ins : BOOLEAN])
  /\ Journeys \subseteq [motion : BOOLEAN, start : Int, target : Int, vmax : Nat \ {0}, acc : Nat \ {0},
                          cycles : Int, drives : BOOLEAN, op : BOOLEAN]
  /\ MaxStators \in Nat /\ TrackSlaves \in Nat /\ MaxFrameLoss \in Nat /\ MaxDriveFault \in Nat

VARIABLES
  opts,    \* Options
  lms,     \* [pc, stators: LmsConfig, found: slavecount, ok: exit code 0, init: INIT was requested,
           \*  cycle, pos, vel, finished, losses, faults, astray: history, the planner was on its
           \*  target and moving, or moved away from it]
  out402,  \* per slave: its outputs, [cw, target]
  drv402   \* per slave (external): [state, cw: the last it received]
lmsvars == <<opts, lms, out402, drv402>>

Size1(x) == IF x < 0 THEN -x ELSE x
NoOutput == [cw |-> CW_ZERO, target |-> 0]

StartTrack(file, o) ==
  /\ opts = o
  /\ lms = [pc |-> "load", stators |-> file, found |-> 0, ok |-> FALSE, init |-> FALSE, cycle |-> 0,
            pos |-> 0, vel |-> 0, finished |-> FALSE, losses |-> 0, faults |-> 0, astray |-> FALSE]
  /\ out402 = [s \in 1..TrackSlaves |-> NoOutput]
  /\ drv402 = [s \in 1..TrackSlaves |-> [state |-> "SwitchOnDisabled", cw |-> CW_ZERO]]
LmsInit == \E file \in Tracks, o \in Journeys : StartTrack(file, o)
-----------------------------------------------------------------------------
(* load_lms_config: the first bad line, or a stator too many, is an error. *)
StatorLine(c, l) == IF l.line = "stator" THEN Append(c, l) ELSE c
StatorsTo(file) ==
  LET c[i \in 0..Len(file)] == IF i = 0 THEN <<>> ELSE StatorLine(c[i - 1], file[i]) IN c
Stators(file) == StatorsTo(file)[Len(file)]
LoadLmsConfig(file) == (\A i \in 1..Len(file) : file[i].line # "bad") /\ Len(Stators(file)) <= MaxStators

(* validate_lms_config.                                                    *)
Overlap(a, b) == a.from < b.to /\ b.from < a.to
StatorOk(a) == a.slave > 0 /\ a.to > a.from /\ a.pitch > 0 /\ a.counts > 0
ValidateLmsConfig(c) ==
  /\ Len(c) > 0
  /\ \A i \in 1..Len(c) : StatorOk(c[i]) /\ \A j \in (i + 1)..Len(c) : ~Overlap(c[i], c[j])

(* find_stator_for_position: the first, or 0.  Faulty variant: a stator    *)
(* has its end, too.                                                       *)
FirstIn(set) == IF set = {} THEN 0 ELSE CHOOSE k \in set : \A j \in set : k <= j
FindStatorClosed(c, p) == FirstIn({k \in 1..Len(c) : p >= c[k].from /\ p <= c[k].to})
FindStator(c, p) == FirstIn({k \in 1..Len(c) : p >= c[k].from /\ p < c[k].to})
-----------------------------------------------------------------------------
(* motion_step.  Faulty variant: the velocity is not squared, so that it   *)
(* brakes too late.                                                        *)
ClampV(v) == CASE v > opts.vmax -> opts.vmax [] v < -opts.vmax -> -opts.vmax [] OTHER -> v
MoveBy(pos, vel, brake) ==
  LET error == opts.target - pos
      dir == IF error >= 0 THEN 1 ELSE -1
      v == ClampV(IF brake THEN vel - dir * opts.acc ELSE vel + dir * opts.acc)
      next == pos + v
  IN  IF (error = 0 /\ vel = 0) \/ (dir > 0 /\ next > opts.target) \/ (dir < 0 /\ next < opts.target)
      THEN [pos |-> opts.target, vel |-> 0, finished |-> TRUE]
      ELSE [pos |-> next, vel |-> v, finished |-> FALSE]
MotionStepLate(pos, vel) == MoveBy(pos, vel, 2 * opts.acc * Size1(opts.target - pos) <= Size1(vel))
MotionStep(pos, vel) == MoveBy(pos, vel, 2 * opts.acc * Size1(opts.target - pos) <= vel * vel)

(* cia402_next_controlword.                                                *)
NextControlword(sw) ==
  LET st == StateFromStatus(sw)
  IN  CASE st = "Fault" -> CW_FAULT_RESET
        [] st = "ReadyToSwitchOn" -> CW_SWITCH_ON
        [] st \in {"SwitchedOn", "OperationEnabled"} -> CW_ENABLE
        [] OTHER -> CW_SHUTDOWN

(* lms_apply_motion_outputs with the stator k below the mover: it may      *)
(* refuse; it writes outputs only when asked to.                          *)
CanApply(k) ==
  LET a == lms.stators[k] IN a.slave <= lms.found /\ (opts.drives => a.outs)
OutputsOf(k, p) ==
  LET a == lms.stators[k]
      cw == IF a.ins THEN NextControlword(StatusOf(drv402[a.slave].state)) ELSE CW_SHUTDOWN
  IN  [out402 EXCEPT ![a.slave] = [cw |-> cw, target |-> (p - a.from) * a.counts]]
Applied(k, p) == IF opts.drives THEN OutputsOf(k, p) ELSE out402
-----------------------------------------------------------------------------
Exit(l, ok) == [l EXCEPT !.pc = "stop", !.ok = ok]

(* main: the stator map, then fieldbus_start, which may find no socket, no *)
(* slaves, or slaves that do not become operational.                       *)
LoadTrack ==
  /\ lms.pc = "load" /\ UNCHANGED <<opts, out402, drv402>>
  /\ LET c == Stators(lms.stators)
     IN  lms' = IF LoadLmsConfig(lms.stators) /\ ValidateLmsConfig(c)
                THEN [lms EXCEPT !.pc = "start", !.stators = c] ELSE [lms EXCEPT !.pc = "done"]

FieldbusStart(found, operational) ==
  /\ lms.pc = "start" /\ UNCHANGED <<opts, out402, drv402>>
  /\ LET l == [lms EXCEPT !.found = found, !.pos = opts.start]
     IN  lms' = IF found = 0 \/ (opts.op /\ ~operational) THEN Exit(l, FALSE) ELSE [l EXCEPT !.pc = "run"]

(* fieldbus_roundtrip: the drives receive their outputs, and report their  *)
(* states in time for the next cycle; or the frame is lost.                *)
Roundtrip(out) ==
  drv402' = [s \in 1..TrackSlaves |->
               [state |-> DriveReacts(drv402[s].state, drv402[s].cw, out[s].cw), cw |-> out[s].cw]]

(* fieldbus_run, one cycle.  Mover outside the map, slave missing, offsets *)
(* missing: the run ends before the frame is sent.                         *)
Moved ==
  IF opts.motion /\ ~lms.finished THEN MotionStep(lms.pos, lms.vel)
  ELSE [pos |-> lms.pos, vel |-> lms.vel, finished |-> lms.finished]
RunEffect(m, k, lost) ==
  LET refused == opts.motion /\ (k = 0 \/ ~CanApply(k))
      at == [lms EXCEPT !.pos = m.pos, !.vel = m.vel, !.finished = m.finished,
                        !.astray = @ \/ (m.vel # 0 /\ m.vel * (opts.target - m.pos) <= 0),
                        !.cycle = IF opts.cycles < 0 THEN @ ELSE @ + 1,
                        !.losses = IF lost /\ ~refused THEN @ + 1 ELSE @]
  IN  [lms |-> IF refused THEN Exit(at, FALSE) ELSE IF m.finished THEN Exit(at, TRUE) ELSE at,
       out |-> IF opts.motion /\ ~refused THEN Applied(k, m.pos) ELSE out402,
       sent |-> ~refused /\ ~lost]
RunCycle(lost) ==
  /\ lms.pc = "run" /\ (opts.cycles < 0 \/ lms.cycle < opts.cycles)
  /\ lost => lms.losses < MaxFrameLoss
  /\ \E m \in {Moved} : \E k \in {FindStator(lms.stators, m.pos)} : \E c \in {RunEffect(m, k, lost)} :
       /\ lms' = c.lms /\ out402' = c.out /\ UNCHANGED opts
       /\ IF c.sent THEN Roundtrip(c.out) ELSE UNCHANGED drv402

RunOut ==
  /\ lms.pc = "run" /\ opts.cycles >= 0 /\ lms.cycle >= opts.cycles
  /\ lms' = Exit(lms, TRUE) /\ UNCHANGED <<opts, out402, drv402>>

(* fieldbus_stop.  Faulty variant: only after a run that went well.        *)
Stopped(init) ==
  /\ lms.pc = "stop" /\ UNCHANGED <<opts, out402>>
  /\ lms' = [lms EXCEPT !.pc = "done", !.init = init]
  /\ drv402' = IF init THEN [s \in 1..TrackSlaves |-> [state |-> "SwitchOnDisabled", cw |-> CW_ZERO]] ELSE drv402
FieldbusStopIfOk == Stopped(lms.found > 0 /\ lms.ok)
FieldbusStop == Stopped(lms.found > 0)

(* A drive has a fault (external).                                         *)
DriveFails(s) ==
  /\ lms.pc = "run" /\ lms.faults < MaxDriveFault /\ drv402[s].state = "OperationEnabled"
  /\ drv402' = [drv402 EXCEPT ![s].state = "Fault"]
  /\ lms' = [lms EXCEPT !.faults = @ + 1] /\ UNCHANGED <<opts, out402>>

LmsStep ==
  \/ LoadTrack \/ (\E found \in {0, TrackSlaves}, op \in BOOLEAN : FieldbusStart(found, op))
  \/ (\E lost \in BOOLEAN : RunCycle(lost)) \/ RunOut \/ FieldbusStop
LmsNext == LmsStep \/ \E s \in 1..TrackSlaves : DriveFails(s)
LmsSpec == LmsInit /\ [][LmsNext]_lmsvars /\ WF_lmsvars(LmsStep)
-----------------------------------------------------------------------------
(* What lms_apply_motion_outputs writes to a drive is a position on one of *)
(* its own stators, and for the stator below the mover it is the mover's:  *)
(* a validated map leaves no doubt which stator that is.                   *)
TargetIsOnStator ==
  LET own(s) == {k \in 1..Len(lms.stators) : lms.stators[k].slave = s}
      below == {k \in 1..Len(lms.stators) : lms.pos \in lms.stators[k].from..(lms.stators[k].to - 1)}
  IN  lms.pc \in {"run", "stop"} /\ opts.drives =>
        \A s \in 1..TrackSlaves : out402[s].cw # CW_ZERO =>
          /\ \E k \in own(s) :
               LET a == lms.stators[k] IN out402[s].target \in 0..((a.to - a.from) * a.counts - 1)
          /\ \A k \in own(s) \cap below : lms.stators[k].outs =>
               out402[s].target = (lms.pos - lms.stators[k].from) * lms.stators[k].counts

(* "The application never writes motion PDOs unless --enable-drive-outputs *)
(* is set": without it no drive is ever powered, and with it only those    *)
(* whose stators lie on the way the mover has come.  The way is left when  *)
(* the planner goes astray, which motion_step allows in two cases: a step  *)
(* ends exactly on the target and does not stop there, and the mover is    *)
(* then taken to be on its way up; or the velocity is less than what one   *)
(* period of braking takes from it, and turns round.                       *)
PoweredOnTheWay ==
  \A s \in 1..TrackSlaves : drv402[s].state = "OperationEnabled" =>
    /\ opts.drives /\ opts.motion
    /\ lms.astray \/ \E k \in 1..Len(lms.stators) :
         LET a == lms.stators[k]
         IN  /\ a.slave = s
             /\ a.from <= (IF opts.start < lms.pos THEN lms.pos ELSE opts.start)
             /\ a.to > (IF opts.start < lms.pos THEN opts.start ELSE lms.pos)

(* A journey of the mover, from any start to any target, over gaps and     *)
(* borders of stators, with lost frames and failing drives: drives get     *)
(* targets on their stators, and power only on the way.                    *)
JourneyIsSafe == TargetIsOnStator /\ PoweredOnTheWay

(* The planner changes its velocity by no more than the acceleration in a  *)
(* period, except when motion_step would pass the target and stops dead.   *)
(* The speed that it then cuts off is bounded by what one period of        *)
(* acceleration too many leaves: v*v - 2*acc*(way left) grows by at most   *)
(* 4*acc*vmax in it, and every period of braking takes acc*acc away.       *)
StopsSoftly ==
  [][lms.pc = "run" /\ lms'.pc \in {"run", "stop"} =>
       IF lms'.finished
       THEN LET v == Size1(lms.vel)
            IN  \/ lms.astray \/ v <= 3 * opts.acc
                \/ (v - opts.acc) * (v - opts.acc) <= 4 * opts.acc * opts.vmax
       ELSE Size1(lms'.vel - lms.vel) <= opts.acc]_lmsvars

(* Whatever happens, the program comes to its end, and a bus that was      *)
(* found is left in INIT with its drives off: the planner reaches its      *)
(* target even when the number of cycles is not limited, unless it has     *)
(* gone astray; then it may go to and fro for ever.                        *)
EndsInInit ==
  lms.pc = "start" /\ (opts.motion \/ opts.cycles >= 0)
    ~> \/ lms.astray /\ opts.cycles < 0
       \/ lms.pc = "done" /\ (lms.found > 0 =>
            lms.init /\ \A s \in 1..TrackSlaves : drv402[s].state = "SwitchOnDisabled")
=============================================================================
