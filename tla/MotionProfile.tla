--------------------------- MODULE MotionProfile ----------------------------
(***************************************************************************)
(* The trapezoidal motion profile of motion_cia402.c as operators on a     *)
(* profile record.                                                         *)
(*                                                                         *)
(* The code computes in double with dt_s = period_us / 1000000.  The model *)
(* takes the period of one second that the options allow: dt_s = 1, every  *)
(* quantity the trapezoidal path touches is then an integer, which a       *)
(* double holds exactly, and the two tolerances of 0.5 are "equal to       *)
(* zero".  The comparison remaining <= v*v/(2*dec) + 0.5 is multiplied by  *)
(* 2*dec.  Only integers that fit 32 bits arise, so round_to_i32 is the    *)
(* identity on them.  The jerk-limited planner works on real numbers and   *)
(* is not modelled: profile_type is always Trapezoidal here.               *)
(***************************************************************************)
EXTENDS Integers

DEFAULT_PROFILE_VELOCITY == 1000
DEFAULT_ACCELERATION     == 10000

Abs(x) == IF x < 0 THEN -x ELSE x
ClampHigh(x, hi) == IF x > hi THEN hi ELSE x
ClampLow(x, lo)  == IF x < lo THEN lo ELSE x

(* configured_speed, configured_accel: 0 asks for the default.             *)
ConfiguredSpeed(v) == IF v = 0 THEN DEFAULT_PROFILE_VELOCITY ELSE Abs(v)

ConfiguredAccel(a, speed) ==
  IF a > 0 THEN a ELSE ClampLow(speed * 10, DEFAULT_ACCELERATION)

(* A motion command: what cia402_motion_init leaves in it, and its type.   *)
NoMotion == [type |-> "None", position |-> 0, velocity |-> 0, speed |-> 0,
             acceleration |-> 0, deceleration |-> 0, mode |-> "0", relative |-> FALSE]

(* cia402_profile_reset *)
ProfileReset ==
  [type |-> "None", active |-> FALSE, done |-> TRUE, position |-> 0, velocity |-> 0,
   tposition |-> 0, tvelocity |-> 0, max |-> 0, acceleration |-> 0, deceleration |-> 0]

(***************************************************************************)
(* cia402_profile_begin: the profile starts at the position and velocity   *)
(* the drive reports, whatever the previous profile had commanded.         *)
(***************************************************************************)
ProfileBegin(cmd, apos, avel) ==
  LET speed == CASE cmd.type = "Position"  -> ConfiguredSpeed(cmd.speed)
                 [] cmd.type = "ServoStop" -> ConfiguredSpeed(avel)
                 [] OTHER                  -> ConfiguredSpeed(cmd.velocity)
      tpos  == IF cmd.type # "Position" THEN 0
               ELSE IF cmd.relative THEN apos + cmd.position ELSE cmd.position
  IN  IF cmd.type = "None" THEN ProfileReset
      ELSE [type |-> cmd.type, active |-> TRUE,
            done |-> cmd.type = "Position" /\ tpos = apos /\ avel = 0,
            position |-> apos, velocity |-> avel, tposition |-> tpos,
            tvelocity |-> IF cmd.type \in {"Jog", "Home"} THEN cmd.velocity ELSE 0,
            max |-> speed,
            acceleration |-> ConfiguredAccel(cmd.acceleration, speed),
            deceleration |-> ConfiguredAccel(cmd.deceleration, speed)]

(* Faulty variant: the limit is not applied.                               *)
RampAtOnce(cur, target, acc, dec) == target

(* ramp_velocity: one period's change towards the target, within limits.   *)
RampVelocity(cur, target, acc, dec) ==
  LET delta == target - cur
      limit == IF target = 0 \/ Abs(target) < Abs(cur) THEN dec ELSE acc
  IN  IF Abs(delta) <= limit THEN target
      ELSE IF delta > 0 THEN cur + limit ELSE cur - limit

(* Faulty variants, to show what the properties notice: braking passes     *)
(* rest, and a stopping distance too long.                                 *)
NextSpeedPassesRest(p, along, remaining) ==
  CASE along < 0 -> ClampHigh(along + p.deceleration, 0)
    [] along >= 0 /\ 2 * p.deceleration * remaining <= along * along + p.deceleration
                 -> ClampLow(along - p.deceleration, -1)
    [] OTHER     -> ClampHigh(along + p.acceleration, p.max)

NextSpeedStopsShort(p, along, remaining) ==
  CASE along < 0 -> ClampHigh(along + p.deceleration, 0)
    [] along >= 0 /\ 2 * p.deceleration * remaining <= along * along + 4 * p.deceleration
                 -> ClampLow(along - p.deceleration, 0)
    [] OTHER     -> ClampHigh(along + p.acceleration, p.max)

(* The speed along the direction of travel after one period: brake when    *)
(* moving away, brake within the stopping distance, accelerate otherwise.  *)
NextSpeed(p, along, remaining) ==
  CASE along < 0 -> ClampHigh(along + p.deceleration, 0)
    [] along >= 0 /\ 2 * p.deceleration * remaining <= along * along + p.deceleration
                 -> ClampLow(along - p.deceleration, 0)
    [] OTHER     -> ClampHigh(along + p.acceleration, p.max)

(* step_position_profile_trapezoidal *)
StepTrapezoidal(p) ==
  LET error == p.tposition - p.position
      dir   == IF error >= 0 THEN 1 ELSE -1
      vel   == dir * NextSpeed(p, p.velocity * dir, Abs(error))
      pos   == p.position + vel
      there == \/ error = 0 /\ p.velocity = 0
               \/ dir = 1  /\ pos >= p.tposition
               \/ dir = -1 /\ pos <= p.tposition
  IN  IF p.done THEN p
      ELSE IF there THEN [p EXCEPT !.position = p.tposition, !.velocity = 0, !.done = TRUE]
      ELSE [p EXCEPT !.position = pos, !.velocity = vel]

(* The velocity path shared by Jog, Home and ServoStop.                    *)
StepVelocity(p, apos) ==
  LET vel == RampVelocity(p.velocity, p.tvelocity, p.acceleration, p.deceleration)
  IN  [p EXCEPT !.velocity = vel, !.position = apos,
                !.done = CASE p.type = "Home"      -> FALSE
                           [] p.type = "Jog"       -> p.tvelocity = 0 /\ vel = 0
                           [] p.type = "ServoStop" -> vel = 0]

(* Faulty variant: the profile begins in every cycle.                      *)
ProfileStepRestarts(prev, cmd, apos, avel) ==
  LET p == ProfileBegin(cmd, apos, avel)
  IN  IF cmd.type = "Position" THEN StepTrapezoidal(p) ELSE StepVelocity(p, apos)

(* cia402_profile_step for a command other than None: begin on the first   *)
(* step of a command or when its type changed, then advance one period.    *)
ProfileStep(prev, cmd, apos, avel) ==
  LET p == IF ~prev.active \/ prev.type # cmd.type
           THEN ProfileBegin(cmd, apos, avel) ELSE prev
  IN  IF cmd.type = "Position" THEN StepTrapezoidal(p) ELSE StepVelocity(p, apos)

(* The PDO values cia402_profile_step writes from the stepped profile.     *)
ProfileOutput(p, cmd, apos) ==
  [cw   |-> CASE cmd.type \in {"Position", "Jog"} -> {0, 1, 2, 3}
              [] cmd.type = "ServoStop"           -> {0, 1, 2, 3, 8}
              [] cmd.type = "Home"                -> {0, 1, 2, 3, 4},
   tpos |-> IF cmd.type = "Position" THEN p.position ELSE apos,
   tvel |-> p.velocity,
   mode |-> IF cmd.type = "Home" THEN "HM"
            ELSE IF cmd.mode # "0" THEN cmd.mode
            ELSE IF cmd.type = "Position" THEN "CSP" ELSE "CSV"]
=============================================================================
