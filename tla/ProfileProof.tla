---------------------------- MODULE ProfileProof -----------------------------
(***************************************************************************)
(* The limits of cia402_profile_step, for every position, velocity, speed, *)
(* acceleration and deceleration that a command and a drive may name.      *)
(***************************************************************************)
EXTENDS ProfileMachine, TLAPS

MoveTypes == {"Position", "Jog", "Home", "ServoStop"}

ProfileRecs == [type : MoveTypes \cup {"None"}, active : BOOLEAN, done : BOOLEAN, position : Int,
                velocity : Int, tposition : Int, tvelocity : Int, max : Int,
                acceleration : Int, deceleration : Int]

CommandRecs == [type : MoveTypes, position : Int, velocity : Int, speed : Nat,
                acceleration : Nat, deceleration : Nat, mode : {"CSP", "CSV", "HM"},
                relative : BOOLEAN]

(* A profile that runs command c from position s and velocity v: within    *)
(* its limits, and on a move between the start and the target.             *)
Ready(p, c, s, v) ==
  /\ p \in ProfileRecs /\ p.active /\ p.type = c.type
  /\ p.max > 0 /\ p.acceleration > 0 /\ p.deceleration > 0
  /\ Abs(p.velocity) <= p.max \/ Abs(p.velocity) <= Abs(v)
  /\ Abs(p.tvelocity) <= p.max
  /\ c.type = "Position" =>
       /\ p.done => p.position = p.tposition /\ p.velocity = 0
       /\ s < p.tposition /\ v >= 0 =>
            s <= p.position /\ p.position <= p.tposition /\ p.velocity >= 0
       /\ s > p.tposition /\ v <= 0 =>
            p.position <= s /\ (p.done \/ p.position > p.tposition) /\ p.velocity <= 0

(* After a step it has also noticed that it is there, or at rest.          *)
Noticed(p, c) ==
  /\ c.type = "Position" /\ ~p.done => p.position # p.tposition
  /\ c.type # "Position" /\ p.done => p.velocity = 0

(* The inductive invariant.                                                *)
ProfileInv ==
  /\ cmd \in CommandRecs /\ start.position \in Int /\ start.velocity \in Int
  /\ ~profile.active => profile = ProfileReset
  /\ profile.active =>
       /\ Ready(profile, cmd, start.position, start.velocity) /\ Noticed(profile, cmd)
       /\ out.tpos \in Int /\ out.tvel = profile.velocity
       /\ cmd.type = "Position" => out.tpos = profile.position
-----------------------------------------------------------------------------
(* One period's speed along the direction of travel: it never turns round, *)
(* stays within the maximum or what it was, and changes by at most the     *)
(* larger limit unless it has to be cut to the maximum.                    *)
LEMMA NextSpeedBounds ==
  ASSUME NEW p \in ProfileRecs, p.max > 0, p.acceleration > 0, p.deceleration > 0,
         NEW along \in Int, NEW rem \in Int
  PROVE  LET n == NextSpeed(p, along, rem)
         IN  /\ n \in Int
             /\ along < 0 => along <= n /\ n <= 0
             /\ along >= 0 => n >= 0 /\ (n <= along \/ n <= p.max)
             /\ along <= p.max => Abs(n - along) <= ClampLow(p.acceleration, p.deceleration)
<1> DEFINE n == NextSpeed(p, along, rem)
           near == 2 * p.deceleration * rem <= along * along + p.deceleration
           acc == p.acceleration
           dec == p.deceleration
           top == p.max
<1>1. acc \in Int /\ dec \in Int /\ top \in Int /\ acc > 0 /\ dec > 0 /\ top > 0
  BY DEF ProfileRecs
<1>2. n = CASE along < 0 -> ClampHigh(along + dec, 0)
            [] along >= 0 /\ near -> ClampLow(along - dec, 0)
            [] OTHER -> ClampHigh(along + acc, top)
  BY DEF NextSpeed
<1>3. near \in BOOLEAN
  OBVIOUS
<1> HIDE DEF n, near, acc, dec, top
<1>4. CASE along < 0
  <2>1. n = ClampHigh(along + dec, 0)
    BY <1>2, <1>4
  <2> QED BY <1>1, <1>4, <2>1 DEF ClampHigh, ClampLow, Abs, n, acc, dec, top
<1>5. CASE along >= 0 /\ near
  <2>1. n = ClampLow(along - dec, 0)
    BY <1>2, <1>5
  <2> QED BY <1>1, <1>5, <2>1 DEF ClampHigh, ClampLow, Abs, n, acc, dec, top
<1>6. CASE along >= 0 /\ ~near
  <2>1. n = ClampHigh(along + acc, top)
    BY <1>2, <1>6
  <2> QED BY <1>1, <1>6, <2>1 DEF ClampHigh, ClampLow, Abs, n, acc, dec, top
<1> QED BY <1>4, <1>5, <1>6

(* One step of a move that is not there yet.                               *)
LEMMA TrapezoidalStep ==
  ASSUME NEW p \in ProfileRecs, p.max > 0, p.acceleration > 0, p.deceleration > 0, ~p.done
  PROVE  LET r == StepTrapezoidal(p)
             T == p.tposition
         IN  /\ r \in ProfileRecs /\ r.type = p.type /\ r.active = p.active /\ r.tposition = T
             /\ r.max = p.max /\ r.acceleration = p.acceleration /\ r.deceleration = p.deceleration
             /\ r.tvelocity = p.tvelocity
             /\ \/ r.done /\ r.position = T /\ r.velocity = 0
                \/ /\ ~r.done
                   /\ Abs(r.velocity) <= p.max \/ Abs(r.velocity) <= Abs(p.velocity)
                   /\ Abs(p.velocity) <= p.max =>
                        Abs(r.velocity - p.velocity) <= ClampLow(p.acceleration, p.deceleration)
                   /\ p.position <= T =>
                        r.position < T /\ (p.velocity >= 0 => r.velocity >= 0 /\ r.position >= p.position)
                   /\ p.position > T =>
                        r.position > T /\ (p.velocity <= 0 => r.velocity <= 0 /\ r.position <= p.position)
<1> DEFINE error == p.tposition - p.position
           dir   == IF error >= 0 THEN 1 ELSE -1
           rem   == Abs(error)
           n     == NextSpeed(p, p.velocity * dir, rem)
           vel   == dir * n
           pos   == p.position + vel
           there == \/ error = 0 /\ p.velocity = 0
                    \/ dir = 1  /\ pos >= p.tposition
                    \/ dir = -1 /\ pos <= p.tposition
           r     == StepTrapezoidal(p)
<1>0. /\ p.tposition \in Int /\ p.position \in Int /\ p.velocity \in Int /\ p.max \in Int
      /\ p.acceleration \in Int /\ p.deceleration \in Int /\ error \in Int
  BY DEF ProfileRecs
<1>1. rem \in Int
  BY <1>0 DEF Abs
<1>2. r = IF there THEN [p EXCEPT !.position = p.tposition, !.velocity = 0, !.done = TRUE]
          ELSE [p EXCEPT !.position = pos, !.velocity = vel]
  BY DEF StepTrapezoidal
<1>3. CASE there
  <2>1. r = [p EXCEPT !.position = p.tposition, !.velocity = 0, !.done = TRUE]
    BY <1>2, <1>3
  <2> HIDE DEF r
  <2>2. /\ r \in ProfileRecs /\ r.type = p.type /\ r.active = p.active /\ r.tposition = p.tposition
        /\ r.max = p.max /\ r.acceleration = p.acceleration /\ r.deceleration = p.deceleration
        /\ r.tvelocity = p.tvelocity /\ r.done /\ r.position = p.tposition /\ r.velocity = 0
    <3>1. r = [type |-> p.type, active |-> p.active, done |-> TRUE, position |-> p.tposition,
               velocity |-> 0, tposition |-> p.tposition, tvelocity |-> p.tvelocity,
               max |-> p.max, acceleration |-> p.acceleration, deceleration |-> p.deceleration]
      BY <2>1 DEF ProfileRecs
    <3>2. p.type \in MoveTypes \cup {"None"} /\ p.active \in BOOLEAN /\ p.tvelocity \in Int
      BY DEF ProfileRecs
    <3>3. r \in ProfileRecs
      BY <1>0, <3>1, <3>2 DEF ProfileRecs
    <3> QED BY <3>1, <3>3
  <2> QED BY <2>2 DEF r
<1>4. CASE ~there
  <2>1. r = [p EXCEPT !.position = pos, !.velocity = vel]
    BY <1>2, <1>4
  <2>2. /\ vel \in Int /\ pos = p.position + vel
        /\ Abs(vel) <= p.max \/ Abs(vel) <= Abs(p.velocity)
        /\ Abs(p.velocity) <= p.max => Abs(vel - p.velocity) <= ClampLow(p.acceleration, p.deceleration)
        /\ p.position <= p.tposition => pos < p.tposition /\ (p.velocity >= 0 => vel >= 0)
        /\ p.position > p.tposition => pos > p.tposition /\ (p.velocity <= 0 => vel <= 0)
    <3>1. CASE error >= 0
      <4>1. dir = 1 /\ p.velocity * dir = p.velocity
        BY <1>0, <3>1
      <4> DEFINE m == NextSpeed(p, p.velocity, rem)
      <4>2. n = m
        BY <4>1
      <4>3. /\ m \in Int
            /\ p.velocity < 0 => p.velocity <= m /\ m <= 0
            /\ p.velocity >= 0 => m >= 0 /\ (m <= p.velocity \/ m <= p.max)
            /\ p.velocity <= p.max => Abs(m - p.velocity) <= ClampLow(p.acceleration, p.deceleration)
        BY <1>0, <1>1, NextSpeedBounds
      <4>4. pos < p.tposition
        BY <1>0, <1>4, <4>1, <4>2, <4>3
      <4> HIDE DEF n, m
      <4>5. vel = m
        BY <4>1, <4>2, <4>3
      <4> HIDE DEF vel
      <4> QED BY <1>0, <3>1, <4>3, <4>4, <4>5 DEF Abs, ClampLow
    <3>2. CASE error < 0
      <4> DEFINE w == -p.velocity
      <4>1. dir = -1 /\ p.velocity * dir = w /\ w \in Int
        BY <1>0, <3>2
      <4> DEFINE m == NextSpeed(p, w, rem)
      <4>2. n = m
        BY <4>1
      <4>3. /\ m \in Int
            /\ w < 0 => w <= m /\ m <= 0
            /\ w >= 0 => m >= 0 /\ (m <= w \/ m <= p.max)
            /\ w <= p.max => Abs(m - w) <= ClampLow(p.acceleration, p.deceleration)
        BY <1>0, <1>1, <4>1, NextSpeedBounds
      <4>4. pos > p.tposition
        BY <1>0, <1>4, <4>1, <4>2, <4>3
      <4> HIDE DEF n, m
      <4>5. vel = -m
        BY <4>1, <4>2, <4>3
      <4> HIDE DEF vel
      <4> QED BY <1>0, <3>2, <4>3, <4>4, <4>5 DEF Abs, ClampLow
    <3> QED BY <1>0, <3>1, <3>2
  <2> HIDE DEF r, vel, pos, there
  <2>3. pos \in Int
    BY <1>0, <2>2
  <2>4. /\ r \in ProfileRecs /\ r.type = p.type /\ r.active = p.active /\ r.tposition = p.tposition
        /\ r.max = p.max /\ r.acceleration = p.acceleration /\ r.deceleration = p.deceleration
        /\ r.tvelocity = p.tvelocity /\ r.done = p.done /\ r.position = pos /\ r.velocity = vel
    BY <2>1, <2>2, <2>3 DEF ProfileRecs
  <2>5. /\ vel >= 0 => pos >= p.position
        /\ vel <= 0 => pos <= p.position
    BY <1>0, <2>2
  <2> QED BY <2>2, <2>4, <2>5 DEF r
<1> QED BY <1>3, <1>4

(* ramp_velocity goes towards the target by at most the larger limit and   *)
(* not beyond it.                                                          *)
LEMMA RampBounds ==
  ASSUME NEW cur \in Int, NEW target \in Int, NEW acc \in Int, NEW dec \in Int, acc > 0, dec > 0
  PROVE  LET n == RampVelocity(cur, target, acc, dec)
         IN  /\ n \in Int /\ Abs(n - cur) <= ClampLow(acc, dec)
             /\ Abs(n) <= Abs(cur) \/ Abs(n) <= Abs(target)
<1> DEFINE delta == target - cur
           limit == IF target = 0 \/ Abs(target) < Abs(cur) THEN dec ELSE acc
           n     == RampVelocity(cur, target, acc, dec)
<1>1. limit \in Int /\ limit > 0 /\ limit <= ClampLow(acc, dec) /\ delta \in Int
  BY DEF ClampLow
<1>2. n = IF Abs(delta) <= limit THEN target ELSE IF delta > 0 THEN cur + limit ELSE cur - limit
  BY DEF RampVelocity
<1> HIDE DEF limit, n
<1> QED BY <1>1, <1>2 DEF Abs, ClampLow, n

(* One step of a velocity profile.                                         *)
LEMMA VelocityStep ==
  ASSUME NEW p \in ProfileRecs, p.max > 0, p.acceleration > 0, p.deceleration > 0,
         p.type \in {"Jog", "Home", "ServoStop"}, NEW x \in Int
  PROVE  LET r == StepVelocity(p, x)
         IN  /\ r \in ProfileRecs /\ r.type = p.type /\ r.active = p.active
             /\ r.max = p.max /\ r.acceleration = p.acceleration /\ r.deceleration = p.deceleration
             /\ r.tvelocity = p.tvelocity
             /\ r.done => r.velocity = 0
             /\ Abs(r.velocity) <= Abs(p.velocity) \/ Abs(r.velocity) <= Abs(p.tvelocity)
             /\ Abs(r.velocity - p.velocity) <= ClampLow(p.acceleration, p.deceleration)
<1> DEFINE vel == RampVelocity(p.velocity, p.tvelocity, p.acceleration, p.deceleration)
           dn  == CASE p.type = "Home"      -> FALSE
                    [] p.type = "Jog"       -> p.tvelocity = 0 /\ vel = 0
                    [] p.type = "ServoStop" -> vel = 0
           r   == StepVelocity(p, x)
<1>0. /\ p.velocity \in Int /\ p.tvelocity \in Int /\ p.acceleration \in Int /\ p.deceleration \in Int
      /\ p.tposition \in Int /\ p.max \in Int /\ p.type \in MoveTypes \cup {"None"}
      /\ p.active \in BOOLEAN
  BY DEF ProfileRecs
<1>1. /\ vel \in Int /\ Abs(vel - p.velocity) <= ClampLow(p.acceleration, p.deceleration)
      /\ Abs(vel) <= Abs(p.velocity) \/ Abs(vel) <= Abs(p.tvelocity)
  BY <1>0, RampBounds
<1>2. dn \in BOOLEAN /\ (dn => vel = 0)
  BY DEF MoveTypes
<1>3. r = [p EXCEPT !.velocity = vel, !.position = x, !.done = dn]
  BY DEF StepVelocity
<1> HIDE DEF vel, dn, r
<1>4. r = [type |-> p.type, active |-> p.active, done |-> dn, position |-> x,
           velocity |-> vel, tposition |-> p.tposition, tvelocity |-> p.tvelocity,
           max |-> p.max, acceleration |-> p.acceleration, deceleration |-> p.deceleration]
  BY <1>3 DEF ProfileRecs
<1>5. r \in ProfileRecs
  BY <1>0, <1>1, <1>2, <1>4 DEF ProfileRecs
<1> QED BY <1>1, <1>2, <1>4, <1>5 DEF r

(* cia402_profile_begin leaves a profile within its limits.                *)
LEMMA BeginReady ==
  ASSUME NEW c \in CommandRecs, NEW s \in Int, NEW v \in Int
  PROVE  /\ Ready(ProfileBegin(c, s, v), c, s, v) /\ ProfileBegin(c, s, v).velocity = v
         /\ ProfileBegin(c, s, v).position = s
<1> DEFINE speed == CASE c.type = "Position"  -> ConfiguredSpeed(c.speed)
                      [] c.type = "ServoStop" -> ConfiguredSpeed(v)
                      [] OTHER                -> ConfiguredSpeed(c.velocity)
           tpos  == IF c.type # "Position" THEN 0
                    ELSE IF c.relative THEN s + c.position ELSE c.position
           dn    == c.type = "Position" /\ tpos = s /\ v = 0
           tvel  == IF c.type \in {"Jog", "Home"} THEN c.velocity ELSE 0
           acc   == ConfiguredAccel(c.acceleration, speed)
           dec   == ConfiguredAccel(c.deceleration, speed)
           b     == ProfileBegin(c, s, v)
<1>0. /\ c.type \in MoveTypes /\ c.position \in Int /\ c.velocity \in Int /\ c.speed \in Nat
      /\ c.acceleration \in Nat /\ c.deceleration \in Nat /\ c.type # "None"
  BY DEF CommandRecs, MoveTypes
<1>1. \A x \in Int : ConfiguredSpeed(x) \in Int /\ ConfiguredSpeed(x) > 0 /\ Abs(x) <= ConfiguredSpeed(x)
  BY DEF ConfiguredSpeed, Abs, DEFAULT_PROFILE_VELOCITY
<1>2. \A a \in Nat, x \in Int : ConfiguredAccel(a, x) \in Int /\ ConfiguredAccel(a, x) > 0
  BY DEF ConfiguredAccel, ClampLow, DEFAULT_ACCELERATION
<1>3. speed \in Int /\ speed > 0
  BY <1>0, <1>1
<1>4. tpos \in Int /\ tvel \in Int /\ dn \in BOOLEAN
  BY <1>0
<1>5. Abs(tvel) <= speed
  <2>1. CASE c.type \in {"Jog", "Home"}
    BY <1>0, <1>1, <2>1
  <2>2. CASE c.type \notin {"Jog", "Home"}
    BY <1>3, <2>2 DEF Abs
  <2> QED BY <2>1, <2>2
<1>6. acc \in Int /\ acc > 0 /\ dec \in Int /\ dec > 0
  BY <1>0, <1>2, <1>3
<1>7. b = [type |-> c.type, active |-> TRUE, done |-> dn, position |-> s, velocity |-> v,
           tposition |-> tpos, tvelocity |-> tvel, max |-> speed, acceleration |-> acc,
           deceleration |-> dec]
  BY <1>0 DEF ProfileBegin
<1>8. dn => s = tpos /\ v = 0
  OBVIOUS
<1> HIDE DEF speed, tpos, dn, tvel, acc, dec, b
<1>9. b \in ProfileRecs
  BY <1>0, <1>3, <1>4, <1>6, <1>7 DEF ProfileRecs
<1>a. /\ b.active /\ b.type = c.type /\ b.max = speed /\ b.acceleration = acc /\ b.deceleration = dec
      /\ b.velocity = v /\ b.position = s /\ b.tvelocity = tvel /\ b.tposition = tpos /\ b.done = dn
  BY <1>7
<1>b. /\ s < tpos => s <= s /\ s <= tpos
      /\ s > tpos => s <= s /\ s > tpos
  BY <1>4
<1>c. Abs(v) <= Abs(v)
  BY DEF Abs
<1>10. Ready(b, c, s, v) /\ b.velocity = v /\ b.position = s
  BY <1>3, <1>5, <1>6, <1>8, <1>9, <1>a, <1>b, <1>c DEF Ready
<1> QED BY <1>10 DEF b

(* A profile advances one period.                                          *)
Advance(p, c, x) == IF c.type = "Position" THEN StepTrapezoidal(p) ELSE StepVelocity(p, x)

(* What one period keeps and how far it goes.                              *)
LEMMA AdvanceReady ==
  ASSUME NEW c \in CommandRecs, NEW s \in Int, NEW v \in Int, NEW p, Ready(p, c, s, v), NEW x \in Int
  PROVE  LET r == Advance(p, c, x)
         IN  /\ Ready(r, c, s, v) /\ Noticed(r, c)
             /\ ~(c.type = "Position" /\ (r.done \/ Abs(p.velocity) > r.max))
                  => Abs(r.velocity - p.velocity) <= ClampLow(r.acceleration, r.deceleration)
             /\ c.type = "Position" =>
                  /\ r.tposition = p.tposition
                  /\ p.position <= p.tposition => r.position <= p.tposition
                  /\ p.position >= p.tposition /\ (p.done \/ p.position # p.tposition)
                       => r.position >= p.tposition
<1> DEFINE r == Advance(p, c, x)
<1>0. /\ p \in ProfileRecs /\ p.position \in Int /\ p.tposition \in Int /\ p.velocity \in Int
      /\ p.max \in Int /\ p.tvelocity \in Int /\ p.acceleration \in Int /\ p.deceleration \in Int
  BY DEF Ready, ProfileRecs
<1>a. \A y \in Int : Abs(y) \in Nat
  BY DEF Abs
<1>1. CASE c.type = "Position" /\ p.done
  <2>1. r = p
    BY <1>1 DEF Advance, StepTrapezoidal
  <2> QED BY <1>0, <1>1, <2>1 DEF Ready, Noticed
<1>2. CASE c.type = "Position" /\ ~p.done
  <2>1. /\ r \in ProfileRecs /\ r.type = p.type /\ r.active = p.active /\ r.tposition = p.tposition
        /\ r.max = p.max /\ r.acceleration = p.acceleration /\ r.deceleration = p.deceleration
        /\ r.tvelocity = p.tvelocity
        /\ \/ r.done /\ r.position = p.tposition /\ r.velocity = 0
           \/ /\ ~r.done
              /\ Abs(r.velocity) <= p.max \/ Abs(r.velocity) <= Abs(p.velocity)
              /\ Abs(p.velocity) <= p.max =>
                   Abs(r.velocity - p.velocity) <= ClampLow(p.acceleration, p.deceleration)
              /\ p.position <= p.tposition =>
                   /\ r.position < p.tposition
                   /\ p.velocity >= 0 => r.velocity >= 0 /\ r.position >= p.position
              /\ p.position > p.tposition =>
                   /\ r.position > p.tposition
                   /\ p.velocity <= 0 => r.velocity <= 0 /\ r.position <= p.position
    BY <1>0, <1>2, TrapezoidalStep DEF Advance, Ready
  <2>2. r.position \in Int /\ r.velocity \in Int
    BY <2>1 DEF ProfileRecs
  <2> HIDE DEF r
  <2>3. CASE r.done /\ r.position = p.tposition /\ r.velocity = 0
    <3>1. Ready(r, c, s, v)
      BY <1>0, <1>2, <2>1, <2>3 DEF Ready, Abs
    <3> QED BY <1>0, <1>2, <2>1, <2>3, <3>1 DEF Noticed, r
  <2>4. CASE ~r.done
    <3>1. Abs(r.velocity) <= p.max \/ Abs(r.velocity) <= Abs(v)
      BY <1>0, <1>a, <2>1, <2>2, <2>4 DEF Ready
    <3>2. /\ s < p.tposition /\ v >= 0 =>
               s <= r.position /\ r.position <= p.tposition /\ r.velocity >= 0
          /\ s > p.tposition /\ v <= 0 =>
               r.position <= s /\ r.position > p.tposition /\ r.velocity <= 0
      <4>1. ASSUME s < p.tposition, v >= 0
            PROVE  s <= r.position /\ r.position <= p.tposition /\ r.velocity >= 0
        <5>1. s <= p.position /\ p.position <= p.tposition /\ p.velocity >= 0
          BY <1>2, <4>1 DEF Ready
        <5>2. r.position < p.tposition /\ r.velocity >= 0 /\ r.position >= p.position
          BY <2>1, <2>4, <5>1
        <5> QED BY <1>0, <2>2, <5>1, <5>2
      <4>2. ASSUME s > p.tposition, v <= 0
            PROVE  r.position <= s /\ r.position > p.tposition /\ r.velocity <= 0
        <5>1. p.position <= s /\ p.position > p.tposition /\ p.velocity <= 0
          BY <1>2, <4>2 DEF Ready
        <5>2. r.position > p.tposition /\ r.velocity <= 0 /\ r.position <= p.position
          BY <2>1, <2>4, <5>1
        <5> QED BY <1>0, <2>2, <5>1, <5>2
      <4> QED BY <4>1, <4>2
    <3>3. Ready(r, c, s, v)
      BY <1>2, <2>1, <2>4, <3>1, <3>2 DEF Ready
    <3>4. r.position # p.tposition /\ (p.position <= p.tposition => r.position < p.tposition)
          /\ (p.position > p.tposition => r.position > p.tposition)
      BY <1>0, <2>1, <2>2, <2>4
    <3>5. ~(Abs(p.velocity) > r.max)
            => Abs(r.velocity - p.velocity) <= ClampLow(r.acceleration, r.deceleration)
      BY <1>0, <1>a, <2>1, <2>4
    <3> QED BY <1>0, <1>2, <2>1, <2>2, <2>4, <3>3, <3>4, <3>5 DEF Noticed, r
  <2> QED BY <2>1, <2>3, <2>4
<1>3. CASE c.type # "Position"
  <2>0. p.type \in {"Jog", "Home", "ServoStop"}
    BY <1>3 DEF Ready, CommandRecs, MoveTypes
  <2>1. /\ r \in ProfileRecs /\ r.type = p.type /\ r.active = p.active
        /\ r.max = p.max /\ r.acceleration = p.acceleration /\ r.deceleration = p.deceleration
        /\ r.tvelocity = p.tvelocity
        /\ r.done => r.velocity = 0
        /\ Abs(r.velocity) <= Abs(p.velocity) \/ Abs(r.velocity) <= Abs(p.tvelocity)
        /\ Abs(r.velocity - p.velocity) <= ClampLow(p.acceleration, p.deceleration)
    BY <1>0, <1>3, <2>0, VelocityStep DEF Advance, Ready
  <2> HIDE DEF r
  <2>2. r.velocity \in Int
    BY <2>1 DEF ProfileRecs
  <2>3. Abs(r.velocity) <= p.max \/ Abs(r.velocity) <= Abs(v)
    BY <1>0, <1>a, <2>1, <2>2 DEF Ready
  <2> QED BY <1>3, <2>1, <2>3 DEF Ready, Noticed, r
<1> QED BY <1>1, <1>2, <1>3
-----------------------------------------------------------------------------
(* A command of the machine is a command record.                           *)
LEMMA CommandType == ASSUME NEW c \in Commands PROVE c \in CommandRecs
<1>1. ASSUME NEW p \in Positions, NEW s \in Speeds, NEW a \in Accels, NEW d \in Accels,
             NEW r \in BOOLEAN, c = MoveCommand(p, s, a, d, r)
      PROVE  c \in CommandRecs
  <2>1. c =
          [type |-> "Position", position |-> p, velocity |-> 0, speed |-> s, acceleration |-> a,
           deceleration |-> d, mode |-> "CSP", relative |-> r]
    BY <1>1 DEF MoveCommand, NoMotion
  <2>2. p \in Int /\ s \in Nat /\ a \in Nat /\ d \in Nat
    BY MachineAssumption
  <2> QED BY <2>1, <2>2 DEF CommandRecs, MoveTypes
<1>2. ASSUME NEW t \in {"Jog", "Home"}, NEW v \in Velocities, NEW a \in Accels, NEW d \in Accels,
             c = VelocityCommand(t, v, a, d)
      PROVE  c \in CommandRecs
  <2>1. c =
          [type |-> t, position |-> 0, velocity |-> v, speed |-> 0, acceleration |-> a,
           deceleration |-> d, mode |-> IF t = "Home" THEN "HM" ELSE "CSV", relative |-> FALSE]
    BY <1>2 DEF VelocityCommand, NoMotion
  <2>2. v \in Int /\ a \in Nat /\ d \in Nat
    BY MachineAssumption
  <2> QED BY <2>1, <2>2 DEF CommandRecs, MoveTypes
<1>3. ASSUME NEW d \in Accels, c = StopCommand(d) PROVE c \in CommandRecs
  <2>1. c =
          [type |-> "ServoStop", position |-> 0, velocity |-> 0, speed |-> 0, acceleration |-> 0,
           deceleration |-> d, mode |-> "CSV", relative |-> FALSE]
    BY <1>3 DEF StopCommand, NoMotion
  <2>2. d \in Nat
    BY MachineAssumption
  <2> QED BY <2>1, <2>2 DEF CommandRecs, MoveTypes
<1> QED BY <1>1, <1>2, <1>3 DEF Commands

(* The machine's step is one period of the profile that is ready for it.   *)
LEMMA StepAdvances ==
  ASSUME ProfileInv, Step
  PROVE  \E p : \E x \in Int :
           /\ Ready(p, cmd, start.position, start.velocity) /\ p.velocity = LastVelocity
           /\ profile.active => p = profile
           /\ profile' = Advance(p, cmd, x) /\ out' = ProfileOutput(profile', cmd, x)
           /\ UNCHANGED <<cmd, start>>
<1> DEFINE x == IF profile.active THEN out.tpos ELSE start.position
           b == ProfileBegin(cmd, start.position, start.velocity)
<1>1. x \in Int
  BY DEF ProfileInv
<1>2. /\ profile' = ProfileStep(profile, cmd, x, start.velocity)
      /\ out' = ProfileOutput(profile', cmd, x) /\ UNCHANGED <<cmd, start>>
  BY DEF Step
<1>3. CASE profile.active
  <2>1. Ready(profile, cmd, start.position, start.velocity)
    BY <1>3 DEF ProfileInv
  <2>2. profile' = Advance(profile, cmd, x)
    BY <1>2, <1>3, <2>1 DEF ProfileStep, Advance, Ready
  <2> QED BY <1>1, <1>2, <1>3, <2>1, <2>2 DEF LastVelocity
<1>4. CASE ~profile.active
  <2>1. Ready(b, cmd, start.position, start.velocity) /\ b.velocity = start.velocity
    BY BeginReady DEF ProfileInv
  <2>2. x = start.position
    BY <1>4
  <2>3. profile' = Advance(b, cmd, x)
    BY <1>2, <1>4, <2>2 DEF ProfileStep, Advance
  <2> HIDE DEF b, x
  <2> QED BY <1>1, <1>2, <1>4, <2>1, <2>3 DEF LastVelocity
<1> QED BY <1>3, <1>4

(* The limits hold initially and after every period.                       *)
LEMMA ProfileInit == Init => ProfileInv
<1> SUFFICES ASSUME Init PROVE ProfileInv
  OBVIOUS
<1>1. cmd \in CommandRecs
  BY CommandType DEF Init
<1>2. start.position \in Int /\ start.velocity \in Int
  BY MachineAssumption DEF Init
<1> QED BY <1>1, <1>2 DEF Init, ProfileInv, ProfileReset

(* A period, or a step that changes nothing, keeps the invariant.          *)
LEMMA ProfileStepInv == ProfileInv /\ [Next]_vars => ProfileInv'
<1> SUFFICES ASSUME ProfileInv, [Next]_vars PROVE ProfileInv'
  OBVIOUS
<1>1. CASE UNCHANGED vars
  BY <1>1 DEF vars, ProfileInv
<1>2. CASE Step
  <2>0. PICK p : \E x \in Int :
          /\ Ready(p, cmd, start.position, start.velocity) /\ p.velocity = LastVelocity
          /\ profile.active => p = profile
          /\ profile' = Advance(p, cmd, x) /\ out' = ProfileOutput(profile', cmd, x)
          /\ UNCHANGED <<cmd, start>>
    BY <1>2, StepAdvances
  <2>1. PICK x \in Int :
          /\ Ready(p, cmd, start.position, start.velocity)
          /\ profile' = Advance(p, cmd, x) /\ out' = ProfileOutput(profile', cmd, x)
          /\ UNCHANGED <<cmd, start>>
    BY <2>0
  <2>2. Ready(profile', cmd, start.position, start.velocity) /\ Noticed(profile', cmd)
    BY <2>1, AdvanceReady DEF ProfileInv
  <2>3. /\ out'.tvel = profile'.velocity
        /\ out'.tpos = IF cmd.type = "Position" THEN profile'.position ELSE x
    BY <2>1 DEF ProfileOutput
  <2>4. profile'.active /\ profile'.position \in Int
    BY <2>2 DEF Ready, ProfileRecs
  <2>5. UNCHANGED <<cmd, start>>
    BY <2>1
  <2> QED BY <2>1, <2>2, <2>3, <2>4, <2>5 DEF ProfileInv
<1> QED BY <1>1, <1>2 DEF Next

(* Two numbers on the same side of zero.                                   *)
LEMMA SameSide ==
  ASSUME NEW x \in Int, NEW y \in Int
  PROVE  /\ y > 0 => (x * y >= 0 <=> x >= 0)
         /\ y < 0 => (x * y >= 0 <=> x <= 0)
         /\ y = 0 => x * y >= 0
OBVIOUS

(* A profile within its limits.                                            *)
LEMMA InvGivesLimits == ProfileInv => InLimits
<1> SUFFICES ASSUME ProfileInv PROVE InLimits
  OBVIOUS
<1>1. LimitsArePositive /\ SpeedBound /\ DoneMeansThere
  BY DEF ProfileInv, Ready, Noticed, LimitsArePositive, SpeedBound, DoneMeansThere
<1>2. NeverBehindStart
  <2> SUFFICES ASSUME Moving, start.velocity * (profile.tposition - start.position) >= 0,
                      start.velocity = 0 \/ start.position # profile.tposition
               PROVE  (out.tpos - start.position) * (profile.tposition - start.position) >= 0
    BY DEF NeverBehindStart
  <2> DEFINE s == start.position
             v == start.velocity
             T == profile.tposition
             d == T - s
             e == out.tpos - s
  <2>1. /\ s \in Int /\ v \in Int /\ T \in Int /\ out.tpos \in Int
        /\ out.tpos = profile.position
        /\ s < T /\ v >= 0 => s <= profile.position
        /\ s > T /\ v <= 0 => profile.position <= s
    BY DEF ProfileInv, Moving, Ready, ProfileRecs
  <2>2. d \in Int /\ e \in Int /\ v * d >= 0
    BY <2>1
  <2>3. CASE d > 0
    <3>1. v >= 0
      BY <2>1, <2>2, <2>3, SameSide
    <3>2. e >= 0
      BY <2>1, <2>3, <3>1
    <3> HIDE DEF d, e
    <3>3. e * d >= 0
      BY <2>2, <2>3, <3>2, SameSide
    <3> QED BY <3>3 DEF d, e
  <2>4. CASE d < 0
    <3>1. v <= 0
      BY <2>1, <2>2, <2>4, SameSide
    <3>2. e <= 0
      BY <2>1, <2>4, <3>1
    <3> HIDE DEF d, e
    <3>3. e * d >= 0
      BY <2>2, <2>4, <3>2, SameSide
    <3> QED BY <3>3 DEF d, e
  <2>5. CASE d = 0
    <3> HIDE DEF d, e
    <3>3. e * d >= 0
      BY <2>2, <2>5, SameSide
    <3> QED BY <3>3 DEF d, e
  <2> QED BY <2>2, <2>3, <2>4, <2>5
<1> QED BY <1>1, <1>2 DEF InLimits

(***************************************************************************)
(* For every command, start and limits: cia402_profile_step never commands *)
(* a point behind the start of the move, nor a speed above the profile     *)
(* velocity that the drive did not have already; the limits it divides by  *)
(* are positive; and it reports done only at the target and at rest.       *)
(***************************************************************************)
THEOREM ProfileStaysInLimits == Spec => []InLimits
BY ProfileInit, ProfileStepInv, InvGivesLimits, PTL DEF Spec

(* What one period may change.                                             *)
LEMMA StepKeepsLimits ==
  ASSUME ProfileInv, Step
  PROVE  NeverPastTarget /\ AccelerationBound
<1>0. PICK p : \E x \in Int :
        /\ Ready(p, cmd, start.position, start.velocity) /\ p.velocity = LastVelocity
        /\ profile.active => p = profile
        /\ profile' = Advance(p, cmd, x) /\ out' = ProfileOutput(profile', cmd, x)
        /\ UNCHANGED <<cmd, start>>
  BY StepAdvances
<1>1. PICK x \in Int :
        /\ Ready(p, cmd, start.position, start.velocity) /\ p.velocity = LastVelocity
        /\ profile.active => p = profile
        /\ profile' = Advance(p, cmd, x) /\ UNCHANGED <<cmd, start>>
  BY <1>0
<1>2. /\ ~(cmd.type = "Position" /\ (profile'.done \/ Abs(p.velocity) > profile'.max))
           => Abs(profile'.velocity - p.velocity)
                <= ClampLow(profile'.acceleration, profile'.deceleration)
      /\ cmd.type = "Position" =>
           /\ p.position <= p.tposition => profile'.position <= p.tposition
           /\ p.position >= p.tposition /\ (p.done \/ p.position # p.tposition)
                => profile'.position >= p.tposition
  BY <1>1, AdvanceReady DEF ProfileInv
<1>3. AccelerationBound
  BY <1>1, <1>2 DEF AccelerationBound
<1>4. NeverPastTarget
  BY <1>1, <1>2 DEF NeverPastTarget, Moving, ProfileInv, Noticed
<1> QED BY <1>3, <1>4

(***************************************************************************)
(* For every command, start and limits: no period takes the commanded      *)
(* position across the target, nor changes the velocity by more than the   *)
(* larger of the two limits.                                               *)
(***************************************************************************)
THEOREM ProfileStepsInLimits == Spec => StepsInLimits
<1>1. ProfileInv /\ [Next]_vars => [NeverPastTarget /\ AccelerationBound]_vars
  BY StepKeepsLimits DEF Next
<1> QED BY <1>1, ProfileInit, ProfileStepInv, PTL DEF Spec, StepsInLimits
=============================================================================
