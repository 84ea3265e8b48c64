--------------------------- MODULE ProfileMachine ---------------------------
(***************************************************************************)
(* One motion command stepped by cia402_profile_step once per cycle, from  *)
(* any position and velocity the drive may report when it begins.          *)
(***************************************************************************)
EXTENDS MotionProfile

CONSTANTS Positions,   \* positions the drive reports and a command names
          Velocities,  \* velocities the drive reports and a jog or homing names
          Speeds,      \* profile velocities of a position command
          Accels       \* accelerations and decelerations; 0 asks for the default

ASSUME MachineAssumption ==
  /\ Positions \subseteq Int /\ Velocities \subseteq Int
  /\ Speeds \subseteq Nat /\ Accels \subseteq Nat

VARIABLES cmd,      \* the command, fixed for the run
          profile,  \* Cia402MotionProfile
          start,    \* [position, velocity] the drive reported at the first step
          out       \* Cia402PdoOutput of the last step
vars == <<cmd, profile, start, out>>

(* The requests that end in a profile, as the server fills them in.        *)
MoveCommand(p, s, a, d, r) ==
  [NoMotion EXCEPT !.type = "Position", !.mode = "CSP", !.position = p, !.speed = s,
                   !.acceleration = a, !.deceleration = d, !.relative = r]

VelocityCommand(t, v, a, d) ==
  [NoMotion EXCEPT !.type = t, !.mode = IF t = "Home" THEN "HM" ELSE "CSV", !.velocity = v,
                   !.acceleration = a, !.deceleration = d]

StopCommand(d) ==
  [NoMotion EXCEPT !.type = "ServoStop", !.mode = "CSV", !.deceleration = d]

Commands ==
  {MoveCommand(p, s, a, d, r) :
     p \in Positions, s \in Speeds, a \in Accels, d \in Accels, r \in BOOLEAN}
  \cup
  {VelocityCommand(t, v, a, d) :
     t \in {"Jog", "Home"}, v \in Velocities, a \in Accels, d \in Accels}
  \cup
  {StopCommand(d) : d \in Accels}

Idle == [cw |-> {}, tpos |-> 0, tvel |-> 0, mode |-> "0"]

Init ==
  /\ cmd \in Commands
  /\ profile = ProfileReset
  /\ start \in [position : Positions, velocity : Velocities]
  /\ out = Idle

(* One period.  The position fed back is the one commanded; the velocity   *)
(* fed back is only read when the profile begins.                          *)
Step ==
  LET apos == IF profile.active THEN out.tpos ELSE start.position
      p    == ProfileStep(profile, cmd, apos, start.velocity)
  IN  /\ profile' = p
      /\ out' = ProfileOutput(p, cmd, apos)
      /\ UNCHANGED <<cmd, start>>

Next == Step
Spec == Init /\ [][Next]_vars /\ WF_vars(Step)

-----------------------------------------------------------------------------
Moving == profile.active /\ cmd.type = "Position"

(* The limits that cia402_profile_step keeps between two cycles: none is   *)
(* zero or negative, whatever was asked for; the stopping distance divides *)
(* by the deceleration.                                                    *)
LimitsArePositive ==
  profile.active => /\ profile.max > 0 /\ profile.acceleration > 0 /\ profile.deceleration > 0

(***************************************************************************)
(* A position profile never commands a point beyond its target: a cycle    *)
(* never takes the commanded position from one side of the target to the   *)
(* other, whatever velocity the drive had when the move began.             *)
(***************************************************************************)
NeverPastTarget ==
  Moving => /\ profile.position <= profile.tposition => profile'.position <= profile.tposition
            /\ profile.position >= profile.tposition => profile'.position >= profile.tposition

(***************************************************************************)
(* A move that began at rest or towards its target never commands a point  *)
(* behind its start: braking ends at rest and does not turn round.         *)
(***************************************************************************)
NeverBehindStart ==
  (Moving /\ start.velocity * (profile.tposition - start.position) >= 0
          /\ (start.velocity = 0 \/ start.position # profile.tposition))
    => (out.tpos - start.position) * (profile.tposition - start.position) >= 0

(***************************************************************************)
(* The commanded speed never exceeds the profile velocity by more than the *)
(* drive already had: |v| <= max(max_velocity, |initial velocity|).        *)
(***************************************************************************)
SpeedBound ==
  profile.active => \/ Abs(profile.velocity) <= profile.max
                    \/ Abs(profile.velocity) <= Abs(start.velocity)

(***************************************************************************)
(* Within one cycle the commanded velocity changes by no more than the     *)
(* larger of the two limits, counted from the drive's own velocity when    *)
(* the profile begins: a velocity profile always, a position profile       *)
(* except on its last cycle (it stops dead on the target) and while the    *)
(* drive was faster than max_velocity (it is cut to max_velocity).         *)
(***************************************************************************)
LastVelocity == IF profile.active THEN profile.velocity ELSE start.velocity

AccelerationBound ==
  ~(cmd.type = "Position" /\ (profile'.done \/ Abs(LastVelocity) > profile'.max))
    => Abs(profile'.velocity - LastVelocity)
         <= ClampLow(profile'.acceleration, profile'.deceleration)

(***************************************************************************)
(* A finished position or stop profile reports the target and rest, and    *)
(* keeps reporting them.                                                   *)
(***************************************************************************)
DoneMeansThere ==
  (profile.active /\ profile.done) =>
    /\ out.tvel = 0
    /\ cmd.type = "Position" => out.tpos = profile.tposition

(***************************************************************************)
(* What a profile commands stays within its limits: no point behind the    *)
(* start, no speed above the profile velocity, and done only at the target *)
(* and at rest.                                                            *)
(***************************************************************************)
InLimits == LimitsArePositive /\ NeverBehindStart /\ SpeedBound /\ DoneMeansThere

(***************************************************************************)
(* No cycle of a profile passes the target, nor changes the velocity by    *)
(* more than the acceleration or deceleration.                             *)
(***************************************************************************)
StepsInLimits == [][NeverPastTarget /\ AccelerationBound]_vars

(***************************************************************************)
(* Every position move and every stop finishes; a jog and a homing reach   *)
(* the velocity they ask for and hold it.                                  *)
(***************************************************************************)
Finishes ==
  <>[](profile.active /\ IF cmd.type \in {"Position", "ServoStop"} THEN profile.done
                         ELSE profile.velocity = cmd.velocity)
=============================================================================
