----------------------------- MODULE MCBackend ------------------------------
(* Instances of RtBackend: the requests a client may send in each run.     *)
EXTENDS RtBackend

Command(n, p, v) == [kind |-> "Command", name |-> n, pos |-> p, vel |-> v, mode |-> "CSP"]
SdoWrite(o, c)   == [kind |-> "SdoWrite", object |-> o, cw |-> c, mode |-> "CSP", pos |-> 1, vel |-> 1]
Heartbeat        == Command("None", 0, 0)

SafetyRequests ==
  {Command("MoveAbs", 1, 0), SdoWrite("6040", CW_SHUTDOWN),
   Command("ResetStatistics", 0, 0)}
MotionRequests    == {Command("MoveRel", 1, 0), Command("Enable", 0, 0)}
LiveRequests      == {Command("Enable", 0, 0)}

(* The requests of three cases that the code does not cover, see README.md. *)
HeartbeatRequests == {Heartbeat, Command("MoveAbs", 1, 0)}
ResetRequests     == {Command("Enable", 0, 0), Command("ResetStatistics", 0, 0)}
JogRequests       == {Command("Jog", 0, 1), Command("Disable", 0, 0), Command("Enable", 0, 0)}
=============================================================================
