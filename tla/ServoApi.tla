------------------------------ MODULE ServoApi ------------------------------
(***************************************************************************)
(* The servo functions of ethercat_master.c on the Windows backend.  Each  *)
(* is a fixed sequence of SDO accesses to CiA 402 objects; other threads   *)
(* run between any two of them.  A function is the sequence of its         *)
(* accesses, a step says what it accesses and whether an error ends the    *)
(* function (must) or is ignored.  The optional profile parameters         *)
(* (0x6081, 0x6083, 0x6084, 0x6098, 0x6099, 0x609A) are one step.          *)
(*                                                                         *)
(* The drive is not part of the repository and marked external.            *)
(***************************************************************************)
EXTENDS Cia402, Integers, Sequences

CONSTANT IntMax  \* the largest position an int can hold

(* The smallest, in two's complement.                                      *)
IntMin == -IntMax - 1

Step(op, obj, val, must) == [op |-> op, obj |-> obj, val |-> val, must |-> must]

(* write_sdo_* and read_sdo_*: the object is named, its width left out.    *)
Write(obj, val) == Step("write", obj, val, TRUE)
Read(obj)       == Step("read", obj, 0, TRUE)

(* servo_write_controlword                                                 *)
Controlword(cw) == Write("Controlword", cw)

(* ECAT_ServoGetStatus as its callers use it: the statusword decides, the  *)
(* errors of the other seven reads are ignored.                            *)
ServoGetStatus == <<Read("Statusword"), Step("read", "Others", 0, FALSE)>>

FaultReset == <<Controlword(CW_FAULT_RESET), Controlword(CW_SHUTDOWN)>>

(* servo_track_actual_target_once: ServoEnable ignores its result, and the *)
(* write is left out when the read failed.                                 *)
TrackActualTarget == <<Step("read", "ActualPosition", 0, FALSE),
                       Step("copy", "TargetPosition", 0, FALSE)>>

(* "faulted" continues with FaultReset when the status could be read and   *)
(* shows a fault.                                                          *)
ServoEnable ==
  <<Step("faulted", "Statusword", 0, FALSE)>> \o TrackActualTarget
    \o <<Controlword(CW_SHUTDOWN), Controlword(CW_SWITCH_ON), Controlword(CW_ENABLE)>>

ServoDisable == <<Controlword(CW_SHUTDOWN)>>

ServoSetMode(mode) == <<Write("Mode", mode)>>

CW_SETPOINT_NOW == {0, 1, 2, 3, 4, 5}

ServoMoveAbs(target) ==
  ServoSetMode("PP") \o <<Write("Profile", 0), Write("TargetPosition", target)>>
    \o ServoEnable \o <<Controlword(CW_SETPOINT_NOW), Controlword(CW_ENABLE)>>

(* "relative" reads the position and continues with ServoMoveAbs, or ends  *)
(* with ECAT_INVALID_ARGUMENT when the sum is no int.                      *)
ServoMoveRel(distance) == <<Step("relative", "ActualPosition", distance, TRUE)>>

ServoJog(velocity) ==
  ServoSetMode("PV") \o <<Write("Profile", 0), Write("TargetVelocity", velocity)>>
    \o ServoEnable

ServoHome ==
  ServoSetMode("HM") \o <<Write("Profile", 0)>> \o ServoEnable
    \o <<Controlword(CW_NEW_SETPOINT)>>

ServoStop == <<Step("write", "TargetVelocity", 0, FALSE), Controlword(CW_HALT)>>

ServoGetPosition == <<Read("ActualPosition")>>

(* The LMS functions are the servo functions on this backend.              *)
LmsMoveAbs(target)   == ServoMoveAbs(target)
LmsMoveVel(velocity) == ServoJog(velocity)
LmsStop              == ServoStop
LmsGetMoverPosition  == ServoGetPosition

-----------------------------------------------------------------------------
(* What one access does to the steps that are left, when it succeeds with  *)
(* the position act and the drive's statusword sw ...                      *)
AfterSuccess(prog, act, sw) ==
  LET s == Head(prog) IN
  CASE s.op = "faulted" /\ 3 \in sw -> FaultReset \o Tail(prog)
    [] s.op = "relative" -> IF act + s.val \in IntMin..IntMax
                            THEN ServoMoveAbs(act + s.val) \o Tail(prog) ELSE <<>>
    [] OTHER -> Tail(prog)

(* ... and when it fails.                                                  *)
AfterFailure(prog) ==
  LET s == Head(prog) IN
  CASE s.must -> <<>>
    [] ~s.must /\ s.obj = "ActualPosition" -> Tail(Tail(prog))
    [] OTHER -> Tail(prog)

(***************************************************************************)
(* The drive (external): st its power state, cw the last controlword,      *)
(* mode, pos, and the objects it was given.                                *)
(***************************************************************************)
DriveInit(st) == [st |-> st, cw |-> CW_ZERO, mode |-> "PP", pos |-> 0,
              target |-> 0, velocity |-> 0]

DriveWrite(drv, obj, val) ==
  CASE obj = "Controlword" ->
         [drv EXCEPT !.st = DriveReacts(@, drv.cw, val), !.cw = val]
    [] obj = "TargetPosition" -> [drv EXCEPT !.target = val]
    [] obj = "TargetVelocity" -> [drv EXCEPT !.velocity = val]
    [] obj = "Mode"           -> [drv EXCEPT !.mode = val]
    [] OTHER                  -> drv
=============================================================================
