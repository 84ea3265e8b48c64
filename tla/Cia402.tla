------------------------------- MODULE Cia402 -------------------------------
(***************************************************************************)
(* The CiA 402 layer of motion_cia402.c: decoding a statusword, choosing   *)
(* the controlword that drives a drive towards the state a sequence asks   *)
(* for, and the drive's own state machine.                                 *)
(*                                                                         *)
(* A statusword or a controlword is the set of the bit numbers that are 1. *)
(* The drive is not part of the repository: DriveReacts is the CiA 402     *)
(* power state machine as motion_cia402.c relies on it, marked external.   *)
(***************************************************************************)
EXTENDS Naturals

DriveStates == {"NotReady", "SwitchOnDisabled", "ReadyToSwitchOn", "SwitchedOn",
                "OperationEnabled", "QuickStopActive", "FaultReactionActive", "Fault"}

Sequences402 == {"None", "FaultReset", "Shutdown", "SwitchOn", "Enable", "Disable"}

(* The controlwords that the code writes. *)
CW_ZERO        == {}
CW_SHUTDOWN    == {1, 2}
CW_SWITCH_ON   == {0, 1, 2}
CW_ENABLE      == {0, 1, 2, 3}
CW_NEW_SETPOINT == {0, 1, 2, 3, 4}
CW_HALT        == {0, 1, 2, 3, 8}
CW_FAULT_RESET == {7}

(***************************************************************************)
(* cia402_state_from_status: the masks 0x004f and 0x006f are sets of bits, *)
(* tried in the order of the code.                                         *)
(***************************************************************************)
StateFromStatus(sw) ==
  LET m4f == sw \cap {0, 1, 2, 3, 6}
      m6f == sw \cap {0, 1, 2, 3, 5, 6}
  IN  CASE m4f = {}              -> "NotReady"
        [] m4f = {6}             -> "SwitchOnDisabled"
        [] m6f = {0, 5}          -> "ReadyToSwitchOn"
        [] m6f = {0, 1, 5}       -> "SwitchedOn"
        [] m6f = {0, 1, 2, 5}    -> "OperationEnabled"
        [] m6f = {0, 1, 2}       -> "QuickStopActive"
        [] m4f = {0, 1, 2, 3}    -> "FaultReactionActive"
        [] m4f = {3}             -> "Fault"
        [] OTHER                 -> "Unknown"

InFault(st) == st \in {"Fault", "FaultReactionActive"}

(* cia402_sequence_controlword: the word returned ...                      *)
SequenceControlword(seq, st, manual) ==
  CASE seq = "None"       -> manual
    [] seq = "FaultReset" -> IF InFault(st) THEN CW_FAULT_RESET ELSE CW_ZERO
    [] seq = "Shutdown"   -> CW_SHUTDOWN
    [] seq = "SwitchOn"   -> CASE st \in {"SwitchedOn", "OperationEnabled",
                                          "ReadyToSwitchOn"} -> CW_SWITCH_ON
                               [] InFault(st)                -> CW_FAULT_RESET
                               [] OTHER                      -> CW_SHUTDOWN
    [] seq = "Enable"     -> CASE st \in {"OperationEnabled", "SwitchedOn"} -> CW_ENABLE
                               [] st = "ReadyToSwitchOn"     -> CW_SWITCH_ON
                               [] InFault(st)                -> CW_FAULT_RESET
                               [] OTHER                      -> CW_SHUTDOWN
    [] seq = "Disable"    -> CW_ZERO

(* ... and the value stored in *target_reached.                            *)
SequenceReached(seq, st) ==
  \/ seq = "None"
  \/ seq = "FaultReset" /\ ~InFault(st)
  \/ seq = "Shutdown"   /\ st = "ReadyToSwitchOn"
  \/ seq = "SwitchOn"   /\ st \in {"SwitchedOn", "OperationEnabled"}
  \/ seq = "Enable"     /\ st = "OperationEnabled"
  \/ seq = "Disable"    /\ st = "SwitchOnDisabled"

-----------------------------------------------------------------------------
(* The statusword a drive in state st reports (external): bit 4 voltage    *)
(* enabled and the bits the masks ignore are left out.                     *)
StatusOf(st) ==
  CASE st = "NotReady"            -> {}
    [] st = "SwitchOnDisabled"    -> {6}
    [] st = "ReadyToSwitchOn"     -> {0, 5}
    [] st = "SwitchedOn"          -> {0, 1, 5}
    [] st = "OperationEnabled"    -> {0, 1, 2, 5}
    [] st = "QuickStopActive"     -> {0, 1, 2}
    [] st = "FaultReactionActive" -> {0, 1, 2, 3}
    [] st = "Fault"               -> {3}

(* The commands of CiA 402 that a controlword encodes (external).          *)
IsDisableVoltage(cw) == 1 \notin cw
IsQuickStop(cw)      == 1 \in cw /\ 2 \notin cw
IsShutdown(cw)       == {1, 2} \subseteq cw /\ 0 \notin cw
IsSwitchOn(cw)       == {0, 1, 2} \subseteq cw
IsEnable(cw)         == {0, 1, 2, 3} \subseteq cw

(***************************************************************************)
(* The state the drive takes when it receives controlword cw after prev,   *)
(* in state st (external): one transition per frame.  A fault is left only *)
(* on the rising edge of bit 7.                                            *)
(***************************************************************************)
DriveReacts(st, prev, cw) ==
  CASE st = "Fault" -> IF 7 \in cw /\ 7 \notin prev THEN "SwitchOnDisabled" ELSE st
    [] st \in {"NotReady", "FaultReactionActive"} -> st
    [] st = "SwitchOnDisabled" -> IF IsShutdown(cw) THEN "ReadyToSwitchOn" ELSE st
    [] OTHER ->
         IF IsDisableVoltage(cw) THEN "SwitchOnDisabled"
         ELSE IF IsQuickStop(cw)
              THEN IF st \in {"OperationEnabled", "QuickStopActive"}
                   THEN "QuickStopActive" ELSE "SwitchOnDisabled"
         ELSE IF st = "QuickStopActive" THEN IF IsEnable(cw) THEN "OperationEnabled" ELSE st
         ELSE IF IsShutdown(cw) THEN "ReadyToSwitchOn"
         ELSE IF st # "ReadyToSwitchOn" /\ IsEnable(cw) THEN "OperationEnabled"
         ELSE "SwitchedOn"
=============================================================================
