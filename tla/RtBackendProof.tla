--------------------------- MODULE RtBackendProof ---------------------------
(***************************************************************************)
(* Type correctness of RtBackend, the heartbeat and the cleared outputs,   *)
(* for any requests, timeouts and disturbances; then sequences and motion. *)
(***************************************************************************)
EXTENDS RtBackend, TLAPS

(* The operators on a command, a profile and a drive keep their types.     *)

(* The age saturates at a natural number.                                  *)
LEMMA SilentNat == Silent \in Nat
BY BackendAssumption DEF Silent

(* The initial command block, and its empty motion, have their types.      *)
LEMMA NoMotionType == NoMotion \in Motions /\ CommandInit \in CommandBlocks
BY DEF NoMotion, Motions, CommandInit, CommandBlocks, Modes402, MotionTypes, Controlwords, CW_ZERO,
       Sequences402

(* cia402_profile_reset leaves a profile.                                  *)
LEMMA ProfileResetType == ProfileReset \in Profiles
BY DEF ProfileReset, Profiles, MotionTypes

(* backend_command_safe_stop leaves a command block that is inert.         *)
LEMMA SafeStopType ==
  ASSUME NEW c \in CommandBlocks
  PROVE  /\ SafeStop(c) \in CommandBlocks /\ Inert(SafeStop(c))
         /\ Fresh(c) \in CommandBlocks /\ Inert(Fresh(SafeStop(c)))
<1>1. SafeStop(c) \in CommandBlocks /\ Inert(SafeStop(c))
  <2> DEFINE d == [c EXCEPT !.cw = CW_ZERO, !.tvel = 0]
  <2>1. d \in CommandBlocks /\ d.cw = CW_ZERO /\ d.tvel = 0
    <3>1. CW_ZERO \in Controlwords
      BY DEF Controlwords, CW_ZERO
    <3> DEFINE e == [c EXCEPT !.cw = CW_ZERO]
    <3>2. e \in CommandBlocks /\ e.cw = CW_ZERO
      BY <3>1 DEF CommandBlocks
    <3> HIDE DEF e
    <3>3. /\ [e EXCEPT !.tvel = 0] \in CommandBlocks
          /\ [e EXCEPT !.tvel = 0].cw = CW_ZERO /\ [e EXCEPT !.tvel = 0].tvel = 0
      BY <3>2 DEF CommandBlocks
    <3> QED BY <3>3 DEF e
  <2> HIDE DEF d
  <2>2. /\ [d EXCEPT !.seq = "None", !.motion = NoMotion] \in CommandBlocks
        /\ Inert([d EXCEPT !.seq = "None", !.motion = NoMotion])
    BY <2>1, NoMotionType DEF CommandBlocks, Sequences402, Inert
  <2> QED BY <2>2 DEF SafeStop, d
<1>2. \A d \in CommandBlocks : /\ Fresh(d) \in CommandBlocks
                               /\ Inert(d) => Inert(Fresh(d))
  BY DEF Fresh, CommandBlocks, Inert
<1> QED BY <1>1, <1>2

(* A command block stays one when a command is installed in it.            *)
LEMMA InstallType ==
  ASSUME NEW c \in CommandBlocks, NEW s \in Sequences402, NEW mo \in Motions
  PROVE  Install(c, s, mo) \in CommandBlocks
BY DEF Install, Fresh, CommandBlocks

(* runtime_apply_command keeps the command block's type.                   *)
LEMMA ApplyCommandType ==
  ASSUME NEW c \in CommandBlocks, NEW m \in Messages, m.kind = "Command"
  PROVE  ApplyCommand(c, m) \in CommandBlocks
<1>1. m.name \in CommandNames /\ m.pos \in Int /\ m.vel \in Int /\ m.mode \in Modes402
  BY DEF Messages
<1>2. \A rel \in BOOLEAN : PositionMotion(m, rel) \in Motions
  BY <1>1 DEF PositionMotion, Motion, Motions, MotionTypes, Modes402
<1>3. \A ty \in {"Jog", "Home", "ServoStop"}, md \in {"CSV", "HM"}, v \in Int :
        VelocityMotion(ty, md, v) \in Motions
  BY DEF VelocityMotion, Motion, Motions, MotionTypes, Modes402
<1>4. /\ [c EXCEPT !.mode = m.mode] \in CommandBlocks
      /\ [c EXCEPT !.tpos = m.pos] \in CommandBlocks
      /\ [c EXCEPT !.tvel = m.vel] \in CommandBlocks
      /\ [c EXCEPT !.reset = TRUE] \in CommandBlocks
  BY <1>1 DEF CommandBlocks
<1>5. {"None", "FaultReset", "Enable", "Disable"} \subseteq Sequences402
  BY DEF Sequences402
<1>6. Fresh(SafeStop(c)) \in CommandBlocks
  BY SafeStopType
<1>7. /\ \A s \in {"None", "FaultReset", "Enable", "Disable"} :
           Install(c, s, NoMotion) \in CommandBlocks
      /\ Install([c EXCEPT !.mode = m.mode], "None", NoMotion) \in CommandBlocks
  BY <1>4, <1>5, InstallType, NoMotionType
<1>8. /\ \A rel \in BOOLEAN :
           Install([c EXCEPT !.tpos = m.pos], "Enable", PositionMotion(m, rel)) \in CommandBlocks
      /\ Install([c EXCEPT !.tvel = m.vel], "Enable", VelocityMotion("Jog", "CSV", m.vel))
           \in CommandBlocks
      /\ Install(c, "Enable", VelocityMotion("Home", "HM", m.vel)) \in CommandBlocks
      /\ Install(c, "None", VelocityMotion("ServoStop", "CSV", 0)) \in CommandBlocks
  <2>1. \A d \in CommandBlocks, s \in {"None", "Enable"}, mo \in Motions :
          Install(d, s, mo) \in CommandBlocks
    BY <1>5, InstallType
  <2>2. /\ VelocityMotion("Jog", "CSV", m.vel) \in Motions
        /\ VelocityMotion("Home", "HM", m.vel) \in Motions
        /\ VelocityMotion("ServoStop", "CSV", 0) \in Motions
    BY <1>1, <1>3
  <2> QED BY <1>2, <1>4, <2>1, <2>2
<1> QED BY <1>1, <1>4, <1>6, <1>7, <1>8 DEF ApplyCommand, CommandNames

(* runtime_write_cached_sdo keeps the command block's type.                *)
LEMMA WriteCachedSdoType ==
  ASSUME NEW c \in CommandBlocks, NEW m \in Messages, m.kind = "SdoWrite"
  PROVE  WriteCachedSdo(c, m) \in CommandBlocks
<1>1. /\ m.object \in {"6040", "6060", "607a", "60ff", "1000"}
      /\ m.cw \in Controlwords /\ m.pos \in Int /\ m.vel \in Int /\ m.mode \in Modes402
  BY DEF Messages
<1>2. /\ [c EXCEPT !.mode = m.mode] \in CommandBlocks
      /\ [c EXCEPT !.tpos = m.pos] \in CommandBlocks
      /\ [c EXCEPT !.tvel = m.vel] \in CommandBlocks
      /\ [c EXCEPT !.cw = m.cw] \in CommandBlocks
  BY <1>1 DEF CommandBlocks
<1>3. "None" \in Sequences402
  BY DEF Sequences402
<1> QED BY <1>1, <1>2, <1>3, InstallType, NoMotionType DEF WriteCachedSdo

(* cia402_profile_begin makes a profile of the command's type.             *)
LEMMA ProfileBeginType ==
  ASSUME NEW mo \in Motions, mo.type # "None", NEW apos \in Int, NEW avel \in Int
  PROVE  /\ ProfileBegin(mo, apos, avel) \in Profiles
         /\ ProfileBegin(mo, apos, avel).type = mo.type
<1>1. \A v \in Int : ConfiguredSpeed(v) \in Int
  BY DEF ConfiguredSpeed, Abs, DEFAULT_PROFILE_VELOCITY
<1>2. \A a, v \in Int : ConfiguredAccel(a, v) \in Int
  BY DEF ConfiguredAccel, ClampLow, DEFAULT_ACCELERATION
<1> QED BY <1>1, <1>2 DEF ProfileBegin, Motions, Profiles, MotionTypes

(* cia402_profile_step keeps the profile's type.                           *)
LEMMA ProfileStepType ==
  ASSUME NEW p \in Profiles, NEW mo \in Motions, mo.type # "None",
         NEW apos \in Int, NEW avel \in Int
  PROVE  ProfileStep(p, mo, apos, avel) \in Profiles
<1> DEFINE q == IF ~p.active \/ p.type # mo.type THEN ProfileBegin(mo, apos, avel) ELSE p
<1>1. q \in Profiles /\ q.type = mo.type
  BY ProfileBeginType
<1> HIDE DEF q
<1>2. StepTrapezoidal(q) \in Profiles
  <2>1. \A a, rem \in Int : NextSpeed(q, a, rem) \in Int
    BY <1>1 DEF NextSpeed, Profiles, ClampHigh, ClampLow
  <2> DEFINE error == q.tposition - q.position
             dir   == IF error >= 0 THEN 1 ELSE -1
             vel   == dir * NextSpeed(q, q.velocity * dir, Abs(error))
  <2>2. error \in Int /\ dir \in {1, -1} /\ Abs(error) \in Int
    BY <1>1 DEF Profiles, Abs
  <2>3. q.velocity * dir \in Int
    BY <1>1, <2>2 DEF Profiles
  <2>4. vel \in Int
    <3>1. NextSpeed(q, q.velocity * dir, Abs(error)) \in Int
      BY <2>1, <2>2, <2>3
    <3> QED BY <2>2, <3>1
  <2> HIDE DEF error, dir, vel
  <2>5. [q EXCEPT !.position = q.tposition, !.velocity = 0, !.done = TRUE] \in Profiles
    <3> DEFINE r == [q EXCEPT !.position = q.tposition, !.velocity = 0]
    <3>1. r \in Profiles
      <4> DEFINE e == [q EXCEPT !.position = q.tposition]
      <4>1. e \in Profiles
        BY <1>1 DEF Profiles
      <4> HIDE DEF e
      <4>2. [e EXCEPT !.velocity = 0] \in Profiles
        BY <4>1 DEF Profiles
      <4> QED BY <4>2 DEF e
    <3> HIDE DEF r
    <3>2. [r EXCEPT !.done = TRUE] \in Profiles
      BY <3>1 DEF Profiles
    <3> QED BY <3>2 DEF r
  <2>6. \A x, v \in Int : [q EXCEPT !.position = x, !.velocity = v] \in Profiles
    BY <1>1 DEF Profiles
  <2>7. q.position + vel \in Int
    BY <1>1, <2>4 DEF Profiles
  <2> QED BY <1>1, <2>4, <2>5, <2>6, <2>7 DEF StepTrapezoidal, error, dir, vel
<1>3. ASSUME mo.type # "Position" PROVE StepVelocity(q, apos) \in Profiles
  <2>1. \A a, b, c, d \in Int : RampVelocity(a, b, c, d) \in Int
    BY DEF RampVelocity, Abs
  <2>2. RampVelocity(q.velocity, q.tvelocity, q.acceleration, q.deceleration) \in Int
    BY <1>1, <2>1 DEF Profiles
  <2>3. q.type \in {"Jog", "Home", "ServoStop"}
    BY <1>1, <1>3 DEF Motions, MotionTypes
  <2> QED BY <1>1, <2>2, <2>3 DEF StepVelocity, Profiles
<1> QED BY <1>2, <1>3 DEF ProfileStep, q

(* What cia402_profile_step writes is an output image.                     *)
LEMMA ProfileOutputType ==
  ASSUME NEW p \in Profiles, NEW mo \in Motions, mo.type # "None", NEW apos \in Int
  PROVE  ProfileOutput(p, mo, apos) \in Outputs
BY DEF ProfileOutput, Outputs, Profiles, Motions, MotionTypes, Controlwords, Modes402

(* cia402_sequence_controlword returns a controlword.                      *)
LEMMA ControlwordType ==
  ASSUME NEW s \in Sequences402, NEW st, NEW cw \in Controlwords
  PROVE  SequenceControlword(s, st, cw) \in Controlwords
BY DEF SequenceControlword, Sequences402, Controlwords, CW_ZERO, CW_SHUTDOWN, CW_SWITCH_ON,
       CW_ENABLE, CW_FAULT_RESET

(* The drive stays in its state machine.                                   *)
LEMMA DriveReactsType ==
  ASSUME NEW st \in DriveStates, NEW prev, NEW cw
  PROVE  DriveReacts(st, prev, cw) \in DriveStates
BY DEF DriveReacts, DriveStates

(* A frame, delivered or lost, keeps the types of inputs and drive.        *)
LEMMA DriveFrameType ==
  ASSUME inp \in InputImages, drv \in Drives, NEW o \in Outputs, DriveFrame(o) \/ FrameLost
  PROVE  inp' \in InputImages /\ drv' \in Drives
<1>1. CASE FrameLost
  BY <1>1 DEF FrameLost
<1>2. CASE DriveFrame(o)
  <2> DEFINE st == DriveReacts(drv.state, drv.cw, o.cw)
             mode == IF o.mode = "0" THEN drv.mode ELSE o.mode
             goal == CASE mode = "CSP" -> InRange(o.tpos)
                       [] mode = "CSV" -> InRange(drv.pos + o.tvel)
                       [] OTHER        -> drv.pos
  <2>1. st \in DriveStates /\ mode \in Modes402
    BY DriveReactsType DEF Drives, Outputs
  <2>2. \A x \in Int : InRange(x) \in 0..MaxPos
    BY BackendAssumption DEF InRange, ClampLow, ClampHigh
  <2>3. goal \in 0..MaxPos
    BY <2>2 DEF Drives, Outputs
  <2>4. Sample(drv) \in InputImages
    BY DEF Sample, StatusOf, InputImages, Drives, DriveStates, Controlwords
  <2> HIDE DEF st, mode, goal
  <2>5. [state |-> st, cw |-> o.cw, pos |-> goal, vel |-> goal - drv.pos, mode |-> mode] \in Drives
    BY <2>1, <2>3, BackendAssumption DEF Drives, Outputs
  <2>6. \A p \in 0..MaxPos :
          [state |-> st, cw |-> o.cw, pos |-> p, vel |-> 0, mode |-> mode] \in Drives
    BY <2>1 DEF Drives, Outputs
  <2>7. drv.pos \in 0..MaxPos
    BY DEF Drives
  <2> QED BY <1>2, <2>4, <2>5, <2>6, <2>7 DEF DriveFrame, st, mode, goal
<1> QED BY <1>1, <1>2

(* The locals after the reset, the take-up and the end of a cycle.         *)
LEMMA TakeUpType ==
  ASSUME NEW l \in Locals, NEW c \in CommandBlocks, NEW b \in BOOLEAN
  PROVE  /\ [TakeUp(l, c) EXCEPT !.safety = b] \in Locals
         /\ [TakeUp(l, c) EXCEPT !.safety = b].cmd = c
         /\ [TakeUp(l, c) EXCEPT !.safety = b].silence = l.silence
<1>0. 0 \in (-MaxStart)..SeqTimeout
  BY BackendAssumption
<1>1. TakeUp(l, c) \in Locals /\ TakeUp(l, c).cmd = c /\ TakeUp(l, c).silence = l.silence
  <2>1. CASE c.fresh
    <3> DEFINE dn == (c.seq = "None")
               hv == l.holdValid /\ c.motion.type # "None"
    <3>1. dn \in BOOLEAN /\ hv \in BOOLEAN
      BY DEF Locals
    <3> DEFINE r == [cmd |-> c, safety |-> l.safety, silence |-> l.silence, done |-> dn,
                     failed |-> FALSE, elapsed |-> 0, holdValid |-> hv, hold |-> l.hold,
                     profile |-> ProfileReset]
    <3>2. r \in Locals
      BY <1>0, <3>1, ProfileResetType DEF Locals
    <3>3. TakeUp(l, c) = r
      BY <2>1 DEF TakeUp, Locals
    <3> QED BY <3>2, <3>3
  <2>2. CASE ~c.fresh
    BY <2>2 DEF TakeUp, Locals
  <2> QED BY <2>1, <2>2
<1> DEFINE k == TakeUp(l, c)
<1> HIDE DEF k
<1>2. [k EXCEPT !.safety = b] \in Locals /\ [k EXCEPT !.safety = b].cmd = c
      /\ [k EXCEPT !.safety = b].silence = l.silence
  BY <1>1 DEF Locals, k
<1> QED BY <1>2 DEF k

(* The statistics reset changes only the elapsed cycles.                   *)
LEMMA ResetStatisticsType ==
  ASSUME NEW l \in Locals, NEW c, NEW k \in ResetStatistics(l, c)
  PROVE  k \in Locals /\ k.silence = l.silence
<1>1. \A start \in 0..MaxStart : -start \in (-MaxStart)..SeqTimeout
  BY BackendAssumption
<1>2. \A start \in 0..MaxStart : /\ [l EXCEPT !.elapsed = -start] \in Locals
                                 /\ [l EXCEPT !.elapsed = -start].silence = l.silence
  BY <1>1 DEF Locals
<1>3. CASE c.reset
  <2>1. PICK start \in 0..MaxStart : k = [l EXCEPT !.elapsed = -start]
    BY <1>3 DEF ResetStatistics
  <2> QED BY <1>2, <2>1
<1>4. CASE ~c.reset
  BY <1>4 DEF ResetStatistics
<1> QED BY <1>3, <1>4

(* A cycle computes an output image and keeps the locals' types.           *)
LEMMA CycleType ==
  ASSUME loc \in Locals, inp \in InputImages, NEW st
  PROVE  CycleOutputs(st) \in Outputs /\ CycleLocals(st) \in Locals
<1>1. /\ loc.cmd \in CommandBlocks /\ loc.cmd.motion \in Motions /\ loc.profile \in Profiles
      /\ loc.cmd.seq \in Sequences402 /\ loc.cmd.cw \in Controlwords /\ loc.cmd.tvel \in Int
      /\ loc.cmd.mode \in Modes402 /\ loc.hold \in Int /\ loc.elapsed \in (-MaxStart)..SeqTimeout
      /\ loc.done \in BOOLEAN /\ loc.failed \in BOOLEAN /\ loc.holdValid \in BOOLEAN
  BY DEF Locals, CommandBlocks
<1>2. inp.pos \in Int /\ inp.vel \in Int /\ inp.mode \in Modes402
  BY BackendAssumption DEF InputImages
<1>3. CycleProfile(st) \in Profiles
  BY <1>1, <1>2, ProfileStepType, ProfileResetType DEF CycleProfile, MotionRuns
<1>4. CycleOutputs(st) \in Outputs
  <2>1. CASE MotionRuns(st)
    BY <1>1, <1>2, <1>3, <2>1, ProfileOutputType DEF CycleOutputs, MotionRuns
  <2>2. CASE ~MotionRuns(st)
    <3>1. SequenceControlword(loc.cmd.seq, st, loc.cmd.cw) \in Controlwords
      BY <1>1, ControlwordType
    <3> QED BY <1>1, <1>2, <2>2, <3>1 DEF CycleOutputs, Outputs
  <2> QED BY <2>1, <2>2
<1>5. CycleLocals(st) \in Locals
  <2> DEFINE hv == loc.holdValid \/ Latches(st)
             hd == IF Latches(st) THEN inp.pos ELSE loc.hold
             el == ClampHigh(loc.elapsed + 1, SeqTimeout)
             l1 == [loc EXCEPT !.done = SeqDone(st), !.failed = SeqFailed(st)]
             l2 == [l1 EXCEPT !.profile = CycleProfile(st), !.hold = hd]
             l3 == [l2 EXCEPT !.holdValid = hv, !.elapsed = el]
  <2>1. SeqDone(st) \in BOOLEAN /\ SeqFailed(st) \in BOOLEAN /\ hv \in BOOLEAN
    BY <1>1 DEF SeqDone, SeqFailed, SequenceReached
  <2>2. hd \in Int /\ el \in (-MaxStart)..SeqTimeout
    BY <1>1, <1>2, BackendAssumption DEF ClampHigh
  <2>3. CycleLocals(st) = l3
    BY DEF CycleLocals
  <2> HIDE DEF hv, hd, el, l2, l3
  <2>4. l1 \in Locals
    BY <2>1 DEF Locals
  <2> HIDE DEF l1
  <2>5. l2 \in Locals
    BY <1>3, <2>2, <2>4 DEF Locals, l2
  <2>6. l3 \in Locals
    BY <2>1, <2>2, <2>5 DEF Locals, l3
  <2> QED BY <2>3, <2>6
<1> QED BY <1>4, <1>5

(* TypeOK in groups, so that a step looks only at what it changes.    *)
TClient == link \in {"none", "up", "closed"} /\ inbox \in Seq(Messages)
THandler == /\ hmsg \in Messages
            /\ hpc \in {"accept", "wait", "loop", "recv", "apply", "reply", "stop", "join", "exit"}
TShared == cmd \in CommandBlocks /\ flags \in AllFlags /\ age \in 0..Silent
TStop == gstop \in BOOLEAN
TRt == /\ rpc \in {"none", "setup", "top", "snapshot", "cycle", "out", "exited"}
       /\ loc \in Locals /\ since \in 0..(SeqTimeout + 1)
TDrive == pdo \in Outputs /\ inp \in InputImages /\ drv \in Drives

(* The groups make up the type invariant.                                  *)
LEMMA TypeGroups == TypeOK <=> TClient /\ THandler /\ TShared /\ TStop /\ TRt /\ TDrive
BY DEF TypeOK, TClient, THandler, TShared, TStop, TRt, TDrive

(* The initial values have their types.                                    *)
LEMMA FixedTypes ==
  /\ OutputsZero \in Outputs /\ LocInit \in Locals /\ FlagsInit \in AllFlags
  /\ Hello \in Messages /\ DriveInit \in Drives /\ Sample(DriveInit) \in InputImages
<1>1. OutputsZero \in Outputs /\ FlagsInit \in AllFlags /\ Hello \in Messages
  BY DEF OutputsZero, Outputs, FlagsInit, AllFlags, Hello, Messages, Controlwords, CW_ZERO, Modes402
<1>2. LocInit \in Locals
  BY BackendAssumption, SilentNat, NoMotionType, ProfileResetType DEF LocInit, Locals
<1>3. DriveInit \in Drives /\ Sample(DriveInit) \in InputImages
  BY BackendAssumption
     DEF DriveInit, Drives, Sample, InputImages, DriveStates, Controlwords, CW_ZERO, Modes402, StatusOf
<1> QED BY <1>1, <1>2, <1>3

(* The type invariant holds initially.                                     *)
LEMMA TypeInit == Init => TypeOK
<1> SUFFICES ASSUME Init PROVE TypeOK
  OBVIOUS
<1>1. TClient /\ THandler
  BY FixedTypes DEF Init, TClient, THandler
<1>2. TShared
  BY FixedTypes, NoMotionType, SilentNat DEF Init, TShared
<1>3. TRt
  BY FixedTypes, BackendAssumption DEF Init, TRt
<1>4. TDrive
  BY FixedTypes DEF Init, TDrive
<1>5. TStop
  BY DEF Init, TStop
<1> QED BY <1>1, <1>2, <1>3, <1>4, <1>5, TypeGroups

(* Setting a flag leaves flags, and the others as they were.               *)
LEMMA FlagTypes ==
  ASSUME NEW f \in AllFlags, NEW a \in BOOLEAN, NEW b \in BOOLEAN
  PROVE  /\ [f EXCEPT !.initialized = a] \in AllFlags
         /\ [f EXCEPT !.stop = a] \in AllFlags
         /\ [f EXCEPT !.safety = a] \in AllFlags
         /\ [f EXCEPT !.initialized = a, !.fatal = b] \in AllFlags
         /\ [f EXCEPT !.fatal = b, !.initialized = a] \in AllFlags
         /\ [f EXCEPT !.safety = a].safety = a
         /\ f.safety \in BOOLEAN
BY DEF AllFlags

(* The real-time thread's first critical section.                          *)
LEMMA SnapshotType ==
  ASSUME TypeOK, RtSnapshot
  PROVE  /\ cmd' \in CommandBlocks /\ flags' \in AllFlags /\ loc' \in Locals
         /\ since' \in 0..(SeqTimeout + 1)
<1> DEFINE fire == ClientTimeout > 0 /\ loc.silence > ClientTimeout /\ ~flags.safety
           c    == IF fire THEN Fresh(SafeStop(cmd)) ELSE cmd
<1>1. c \in CommandBlocks
  BY SafeStopType DEF TypeOK
<1>2. /\ cmd' = [c EXCEPT !.fresh = FALSE, !.reset = FALSE]
      /\ flags' = [flags EXCEPT !.safety = flags.safety \/ fire]
      /\ \E l \in ResetStatistics(loc, c) : loc' = [TakeUp(l, c) EXCEPT !.safety = flags.safety \/ fire]
      /\ since' = IF c.fresh THEN 0 ELSE since
  BY DEF RtSnapshot
<1>3. (flags.safety \/ fire) \in BOOLEAN
  OBVIOUS
<1> HIDE DEF c
<1>4. cmd' \in CommandBlocks
  BY <1>1, <1>2 DEF CommandBlocks
<1>5. flags' \in AllFlags
  BY <1>2, <1>3, FlagTypes DEF TypeOK
<1>6. loc' \in Locals
  <2> DEFINE b == flags.safety \/ fire
  <2>1. PICK l \in ResetStatistics(loc, c) : loc' = [TakeUp(l, c) EXCEPT !.safety = b]
    BY <1>2
  <2>2. l \in Locals
    BY <2>1, ResetStatisticsType DEF TypeOK
  <2>3. b \in BOOLEAN
    BY <1>3
  <2> HIDE DEF b
  <2> QED BY <1>1, <2>1, <2>2, <2>3, TakeUpType
<1>7. since' \in 0..(SeqTimeout + 1)
  BY <1>2, BackendAssumption DEF TypeOK
<1> QED BY <1>4, <1>5, <1>6, <1>7

(* The rest of a cycle.                                                    *)
LEMMA RtCycleType ==
  ASSUME TypeOK, NEW d \in BOOLEAN, RtCycle(d)
  PROVE  TRt' /\ TDrive'
<1> DEFINE st == StateFromStatus(inp.status)
           o  == CycleOutputs(st)
<1>1. o \in Outputs /\ CycleLocals(st) \in Locals
  BY CycleType DEF TypeOK
<1>2. /\ pdo' = o /\ loc' = CycleLocals(st) /\ rpc' = "top"
      /\ since' = ClampHigh(since + 1, SeqTimeout + 1)
      /\ DriveFrame(o) \/ FrameLost
  BY DEF RtCycle
<1> HIDE DEF o, st
<1>3. inp' \in InputImages /\ drv' \in Drives
  BY <1>1, <1>2, DriveFrameType DEF TypeOK
<1>4. since' \in 0..(SeqTimeout + 1)
  BY <1>2, BackendAssumption DEF TypeOK, ClampHigh
<1> QED BY <1>1, <1>2, <1>3, <1>4 DEF TRt, TDrive

(* Every step of either thread and of the environment keeps the types.     *)
LEMMA TypeStep == TypeOK /\ [Next]_vars => TypeOK'
<1> SUFFICES ASSUME TypeOK, [Next]_vars PROVE TypeOK'
  OBVIOUS
<1>0. TClient /\ THandler /\ TShared /\ TStop /\ TRt /\ TDrive
  BY TypeGroups
<1>a. TStop'
  BY <1>0 DEF Next, Client, ClientConnect, ClientSend, ClientClose, Drive, DriveFault,
     DriveFaultReacted, DriveWatchdog, Tick, Signal, AcceptFails, Handler, HandlerStart,
     HandlerFirstStatus, HandlerLoop, HandlerRecv, HandlerRecvFails, HandlerApply, HandlerReply,
     HandlerStop, HandlerJoin, HandlerRejects, Rt, RtSetup, RtSetupFails, RtTop, RtSnapshot,
     RtOut, RtCycle, Terminated, vars, TStop
<1>b. TClient' /\ THandler' /\ TShared' /\ TRt' /\ TDrive' => TypeOK'
  BY <1>a DEF TypeOK, TClient, THandler, TShared, TStop, TRt, TDrive
<1>c. AcceptLoop \in {"exit", "accept"}
  BY DEF AcceptLoop
<1> USE DEF clientVars, handlerVars, rtVars, driveVars
<1>1. ASSUME Client PROVE TypeOK'
  <2>1. THandler' /\ TShared' /\ TRt' /\ TDrive'
    BY <1>0, <1>1 DEF Client, ClientConnect, ClientSend, ClientClose, THandler, TShared, TRt, TDrive
  <2>2. \A m \in Messages : <<m>> \in Seq(Messages)
    OBVIOUS
  <2>3. TClient'
    BY <1>0, <1>1, <2>2, FixedTypes, BackendAssumption
       DEF Client, ClientConnect, ClientSend, ClientClose, TClient
  <2> QED BY <2>1, <2>3, <1>b
<1>2. ASSUME Drive PROVE TypeOK'
  <2>1. TClient' /\ THandler' /\ TShared' /\ TRt'
    BY <1>0, <1>2 DEF Drive, DriveFault, DriveFaultReacted, DriveWatchdog, TClient, THandler, TShared, TRt
  <2>2. \A s \in DriveStates : /\ [drv EXCEPT !.state = s] \in Drives
                               /\ [drv EXCEPT !.state = s, !.vel = 0] \in Drives
    <3>1. \A d \in Drives, s \in DriveStates : [d EXCEPT !.state = s] \in Drives
      BY DEF Drives
    <3>2. \A d \in Drives : [d EXCEPT !.vel = 0] \in Drives
      BY DEF Drives
    <3> QED BY <1>0, <3>1, <3>2 DEF TDrive
  <2>3. TDrive'
    <3>1. {"FaultReactionActive", "Fault", "SwitchOnDisabled"} \subseteq DriveStates
      BY DEF DriveStates
    <3> QED BY <1>0, <1>2, <2>2, <3>1 DEF Drive, DriveFault, DriveFaultReacted, DriveWatchdog, TDrive
  <2> QED BY <2>1, <2>3, <1>b
<1>3. ASSUME Tick \/ Signal \/ AcceptFails \/ UNCHANGED vars PROVE TypeOK'
  <2>1. TClient' /\ TRt' /\ TDrive'
    BY <1>0, <1>3 DEF Tick, Signal, AcceptFails, vars, TClient, TRt, TDrive
  <2>2. THandler'
    BY <1>0, <1>3 DEF Tick, Signal, AcceptFails, vars, THandler
  <2>3. TShared'
    BY <1>0, <1>3, SilentNat DEF Tick, Signal, AcceptFails, vars, TShared
  <2> QED BY <2>1, <2>2, <2>3, <1>b
<1>4. ASSUME Handler PROVE TypeOK'
  <2>1. TDrive'
    BY <1>0, <1>4 DEF Handler, HandlerStart, HandlerFirstStatus, HandlerLoop, HandlerRecv,
       HandlerRecvFails, HandlerApply, HandlerReply, HandlerStop, HandlerJoin, HandlerRejects, TDrive
  <2>2. ASSUME HandlerFirstStatus \/ HandlerLoop \/ HandlerRecvFails \/ HandlerReply PROVE TypeOK'
    <3>1. TClient' /\ TShared' /\ TRt'
      BY <1>0, <2>2 DEF HandlerFirstStatus, HandlerLoop, HandlerRecvFails, HandlerReply,
         TClient, TShared, TRt
    <3>2. THandler'
      BY <1>0, <2>2 DEF HandlerFirstStatus, HandlerLoop, HandlerRecvFails, HandlerReply, THandler
    <3> QED BY <2>1, <3>1, <3>2, <1>b
  <2>3. ASSUME HandlerStart \/ HandlerJoin PROVE TypeOK'
    <3>1. TClient'
      <4>1. link' \in {"none", "up", "closed"} /\ inbox' = <<>>
        BY <1>0, <2>3 DEF HandlerStart, HandlerJoin, TClient
      <4>2. <<>> \in Seq(Messages)
        OBVIOUS
      <4> QED BY <4>1, <4>2 DEF TClient
    <3>4. THandler'
      BY <1>0, <1>c, <2>3 DEF HandlerStart, HandlerJoin, THandler
    <3>2. TShared'
      BY <1>0, <2>3, FixedTypes, NoMotionType, SilentNat DEF HandlerStart, HandlerJoin, TShared
    <3>3. TRt'
      BY <2>3, FixedTypes, BackendAssumption DEF HandlerStart, HandlerJoin, TRt
    <3> QED BY <2>1, <3>1, <3>2, <3>3, <3>4, <1>b
  <2>4. ASSUME HandlerRecv PROVE TypeOK'
    <3>1. TClient' /\ THandler'
      BY <1>0, <2>4 DEF HandlerRecv, TClient, THandler
    <3>2. TShared'
      <4>1. [flags EXCEPT !.safety = FALSE] \in AllFlags
        BY <1>0 DEF TShared, AllFlags
      <4> QED BY <1>0, <2>4, <4>1, SilentNat DEF HandlerRecv, TShared
    <3>3. [loc EXCEPT !.silence = 0] \in Locals
      BY <1>0, SilentNat DEF TRt, Locals
    <3>4. TRt'
      BY <1>0, <2>4, <3>3 DEF HandlerRecv, TRt
    <3> QED BY <2>1, <3>1, <3>2, <3>4, <1>b
  <2>5. ASSUME HandlerApply PROVE TypeOK'
    <3>1. TClient' /\ TRt' /\ THandler'
      BY <1>0, <2>5, FixedTypes DEF HandlerApply, TClient, THandler, TRt
    <3>2. cmd' \in CommandBlocks
      BY <1>0, <2>5, ApplyCommandType, WriteCachedSdoType DEF HandlerApply, THandler, TShared
    <3>3. TShared'
      BY <1>0, <2>5, <3>2 DEF HandlerApply, TShared
    <3> QED BY <2>1, <3>1, <3>3, <1>b
  <2>6. ASSUME HandlerStop PROVE TypeOK'
    <3>1. TClient' /\ TRt' /\ THandler'
      BY <1>0, <2>6 DEF HandlerStop, TClient, THandler, TRt
    <3>2. TShared'
      BY <1>0, <2>6, FlagTypes DEF HandlerStop, TShared
    <3> QED BY <2>1, <3>1, <3>2, <1>b
  <2>7. ASSUME HandlerRejects PROVE TypeOK'
    <3>1. TClient' /\ TRt' /\ THandler' /\ TShared'
      BY <1>0, <1>c, <2>7 DEF HandlerRejects, TClient, THandler, TRt, TShared
    <3> QED BY <2>1, <3>1, <1>b
  <2> QED BY <1>4, <2>2, <2>3, <2>4, <2>5, <2>6, <2>7 DEF Handler
<1>5. ASSUME Rt PROVE TypeOK'
  <2>1. TClient' /\ THandler'
    BY <1>0, <1>5 DEF Rt, RtSetup, RtSetupFails, RtTop, RtSnapshot, RtOut, RtCycle, TClient, THandler
  <2>2. ASSUME RtSetup \/ RtOut PROVE TypeOK'
    <3>1. TRt' /\ TShared'
      <4>1. /\ [flags EXCEPT !.initialized = TRUE, !.fatal = FALSE] \in AllFlags
            /\ [flags EXCEPT !.initialized = FALSE] \in AllFlags
        BY <1>0, FlagTypes DEF TShared
      <4> QED BY <1>0, <2>2, <4>1 DEF RtSetup, RtOut, TRt, TShared
    <3>2. TDrive'
      BY <1>0, <2>2, FixedTypes, DriveFrameType DEF RtSetup, RtOut, TDrive
    <3> QED BY <2>1, <3>1, <3>2, <1>b
  <2>3. ASSUME RtSetupFails PROVE TypeOK'
    <3>1. TRt' /\ TShared' /\ TDrive'
      BY <1>0, <2>3, FlagTypes DEF RtSetupFails, TRt, TShared, TDrive
    <3> QED BY <2>1, <3>1, <1>b
  <2>4. ASSUME RtTop PROVE TypeOK'
    <3>1. TShared' /\ TDrive'
      BY <1>0, <2>4 DEF RtTop, TShared, TDrive
    <3>2. [loc EXCEPT !.silence = age] \in Locals
      BY <1>0 DEF TRt, TShared, Locals
    <3>3. TRt'
      BY <1>0, <2>4, <3>2 DEF RtTop, TRt
    <3> QED BY <2>1, <3>1, <3>3, <1>b
  <2>5. ASSUME RtSnapshot PROVE TypeOK'
    <3>1. TRt' /\ TShared' /\ TDrive'
      BY <1>0, <2>5, SnapshotType DEF RtSnapshot, TRt, TShared, TDrive
    <3> QED BY <2>1, <3>1, <1>b
  <2>6. ASSUME NEW d \in BOOLEAN, RtCycle(d) PROVE TypeOK'
    <3>1. TShared'
      BY <1>0, <2>6 DEF RtCycle, TShared
    <3>2. TRt' /\ TDrive'
      BY <2>6, RtCycleType
    <3> QED BY <2>1, <3>1, <3>2, <1>b
  <2> QED BY <1>5, <2>2, <2>3, <2>4, <2>5, <2>6 DEF Rt
<1> QED BY <1>1, <1>2, <1>3, <1>4, <1>5 DEF Next, Terminated


(* For any requests, timeouts and disturbances, every variable of the two  *)
(* threads, the images and the drive keeps its type.                       *)
THEOREM TypesAreKept == Spec => []TypeOK
BY TypeInit, TypeStep, PTL DEF Spec
-----------------------------------------------------------------------------
(* Where the two threads stand: the handler accepts clients exactly when   *)
(* no real-time thread exists, and outside its loop the outputs are zero.  *)
PcSync ==
  /\ hpc \in {"accept", "exit"} <=> rpc = "none"
  /\ rpc \in {"none", "setup", "exited"} => pdo = OutputsZero

(* Every step keeps the two threads' positions related.                    *)
LEMMA PcSyncStep == TypeOK /\ PcSync /\ [Next]_vars => PcSync'
<1> SUFFICES ASSUME TypeOK, PcSync, [Next]_vars PROVE PcSync'
  OBVIOUS
<1> USE DEF clientVars, handlerVars, rtVars, driveVars
<1>1. ASSUME Client \/ Drive \/ Tick \/ Signal \/ UNCHANGED vars PROVE PcSync'
  BY <1>1 DEF Client, ClientConnect, ClientSend, ClientClose, Drive, DriveFault,
     DriveFaultReacted, DriveWatchdog, Tick, Signal, vars, PcSync
<1>2. ASSUME Handler \/ AcceptFails PROVE PcSync'
  BY <1>2 DEF Handler, HandlerStart, HandlerFirstStatus, HandlerLoop, HandlerRecv,
     HandlerRecvFails, HandlerApply, HandlerReply, HandlerStop, HandlerJoin, HandlerRejects,
     AcceptFails, AcceptLoop, PcSync
<1>3. ASSUME Rt PROVE PcSync'
  BY <1>3 DEF Rt, RtSetup, RtSetupFails, RtTop, RtSnapshot, RtOut, RtCycle, PcSync
<1> QED BY <1>1, <1>2, <1>3 DEF Next, Terminated

(* The handler between two sessions has a zeroed process image and no      *)
(* real-time thread, for any constants.                                    *)
THEOREM SessionsEndInert == Spec => []LeavesZero
<1>1. Init => TypeOK /\ PcSync
  <2>1. Init => PcSync
    BY DEF Init, PcSync
  <2> QED BY <2>1, TypeInit
<1>2. TypeOK /\ PcSync /\ [Next]_vars => (TypeOK /\ PcSync)'
  BY TypeStep, PcSyncStep
<1>3. TypeOK /\ PcSync => LeavesZero
  BY DEF PcSync, LeavesZero
<1> QED BY <1>1, <1>2, <1>3, PTL DEF Spec
-----------------------------------------------------------------------------
(* The heartbeat.  While a message is being applied no tick beyond         *)
(* HandlerDelay passes; loop_time is not in the future; once the stop has  *)
(* been applied the command block stays inert until the client speaks.     *)
Heartbeat ==
  /\ hpc = "apply" => age <= HandlerDelay
  /\ rpc \in {"snapshot", "cycle"} => loc.silence <= age
  /\ flags.safety => age > ClientTimeout /\ Inert(cmd)
  /\ SilentClientIsStopped

(* The first critical section leaves an inert snapshot after the timeout.  *)
LEMMA SnapshotHeartbeat ==
  ASSUME TypeOK, Heartbeat, RtSnapshot
  PROVE  /\ loc'.silence = loc.silence
         /\ flags'.safety => age > ClientTimeout /\ Inert(cmd')
         /\ ClientTimeout > 0 /\ loc'.silence > ClientTimeout => Inert(loc'.cmd)
<1> DEFINE fire == ClientTimeout > 0 /\ loc.silence > ClientTimeout /\ ~flags.safety
           c    == IF fire THEN Fresh(SafeStop(cmd)) ELSE cmd
<1>1. c \in CommandBlocks /\ (fire => Inert(c))
  BY SafeStopType DEF TypeOK
<1>2. /\ cmd' = [c EXCEPT !.fresh = FALSE, !.reset = FALSE]
      /\ flags' = [flags EXCEPT !.safety = flags.safety \/ fire]
      /\ \E l \in ResetStatistics(loc, c) : loc' = [TakeUp(l, c) EXCEPT !.safety = flags.safety \/ fire]
  BY DEF RtSnapshot
<1>3. (flags.safety \/ fire) \in BOOLEAN
  OBVIOUS
<1>4. flags.safety \/ fire => Inert(c) /\ age > ClientTimeout
  <2>1. flags.safety => c = cmd /\ Inert(cmd) /\ age > ClientTimeout
    BY DEF Heartbeat
  <2>2. loc.silence \in Int /\ age \in Int /\ loc.silence <= age /\ ClientTimeout \in Int
    BY SilentNat, BackendAssumption DEF TypeOK, Locals, Heartbeat, RtSnapshot
  <2>3. fire => age > ClientTimeout
    BY <2>2
  <2> QED BY <1>1, <2>1, <2>3
<1>5. loc'.silence = loc.silence /\ loc'.cmd = c
  <2> DEFINE b == flags.safety \/ fire
  <2>1. PICK l \in ResetStatistics(loc, c) : loc' = [TakeUp(l, c) EXCEPT !.safety = b]
    BY <1>2
  <2>2. l \in Locals /\ l.silence = loc.silence
    BY <2>1, ResetStatisticsType DEF TypeOK
  <2>3. b \in BOOLEAN
    BY <1>3
  <2> HIDE DEF b, c
  <2> QED BY <1>1, <2>1, <2>2, <2>3, TakeUpType
<1>6. flags'.safety = (flags.safety \/ fire)
  BY <1>2, <1>3, FlagTypes DEF TypeOK
<1>7. Inert(c) => Inert([c EXCEPT !.fresh = FALSE, !.reset = FALSE])
  <2> HIDE DEF c
  <2> QED BY <1>1 DEF CommandBlocks, Inert
<1>8. ClientTimeout > 0 /\ loc.silence > ClientTimeout => flags.safety \/ fire
  OBVIOUS
<1> HIDE DEF c, fire
<1> QED BY <1>2, <1>4, <1>5, <1>6, <1>7, <1>8

(* Every step keeps the heartbeat invariant.                               *)
LEMMA HeartbeatStep ==
  ASSUME HandlerDelay <= ClientTimeout, TypeOK, PcSync, Heartbeat, [Next]_vars
  PROVE  Heartbeat'
<1> USE DEF clientVars, handlerVars, rtVars, driveVars
<1>0. /\ age \in Nat /\ ClientTimeout \in Nat /\ HandlerDelay \in Nat /\ loc.silence \in Nat
      /\ loc \in Locals /\ flags \in AllFlags /\ cmd \in CommandBlocks
  BY SilentNat, BackendAssumption DEF TypeOK, Locals
<1>1. ASSUME Client \/ Drive \/ Signal \/ AcceptFails \/ UNCHANGED vars PROVE Heartbeat'
  BY <1>1 DEF Client, ClientConnect, ClientSend, ClientClose, Drive, DriveFault, DriveFaultReacted,
     DriveWatchdog, Signal, AcceptFails, vars, Heartbeat, SilentClientIsStopped
<1>2. ASSUME Tick PROVE Heartbeat'
  BY <1>0, <1>2 DEF Tick, Heartbeat, SilentClientIsStopped
<1>3. ASSUME Handler PROVE Heartbeat'
  <2>1. ASSUME HandlerFirstStatus \/ HandlerLoop \/ HandlerRecvFails \/ HandlerReply \/ HandlerRejects
        PROVE Heartbeat'
    BY <2>1 DEF HandlerFirstStatus, HandlerLoop, HandlerRecvFails, HandlerReply, HandlerRejects,
       AcceptLoop, Heartbeat, SilentClientIsStopped
  <2>2. ASSUME HandlerStart \/ HandlerJoin PROVE Heartbeat'
    <3>1. ~FlagsInit.safety
      BY DEF FlagsInit
    <3> QED BY <2>2, <3>1 DEF HandlerStart, HandlerJoin, AcceptLoop, Heartbeat, SilentClientIsStopped
  <2>3. ASSUME HandlerRecv PROVE Heartbeat'
    <3>1. ~[flags EXCEPT !.safety = FALSE].safety /\ [loc EXCEPT !.silence = 0].silence = 0
      BY <1>0 DEF AllFlags, Locals
    <3> QED BY <1>0, <2>3, <3>1 DEF HandlerRecv, Heartbeat, SilentClientIsStopped
  <2>4. ASSUME HandlerApply PROVE Heartbeat'
    <3>1. ~flags.safety
      BY <1>0, <2>4 DEF HandlerApply, Heartbeat
    <3>2. UNCHANGED <<age, flags, rpc, loc>> /\ hpc' = "reply"
      BY <2>4 DEF HandlerApply
    <3> QED BY <3>1, <3>2 DEF Heartbeat, SilentClientIsStopped
  <2>5. ASSUME HandlerStop PROVE Heartbeat'
    <3>1. [flags EXCEPT !.stop = TRUE].safety = flags.safety
      BY <1>0 DEF AllFlags
    <3> QED BY <2>5, <3>1 DEF HandlerStop, Heartbeat, SilentClientIsStopped
  <2> QED BY <1>3, <2>1, <2>2, <2>3, <2>4, <2>5 DEF Handler
<1>4. ASSUME Rt PROVE Heartbeat'
  <2>1. ASSUME RtSetup \/ RtSetupFails \/ RtOut PROVE Heartbeat'
    <3>1. flags'.safety = flags.safety
      BY <1>0, <2>1 DEF RtSetup, RtSetupFails, RtOut, AllFlags
    <3>2. UNCHANGED <<age, cmd, hpc>> /\ rpc' \in {"top", "exited"}
      BY <2>1 DEF RtSetup, RtSetupFails, RtOut
    <3> QED BY <3>1, <3>2 DEF Heartbeat, SilentClientIsStopped, Inert
  <2>2. ASSUME RtTop PROVE Heartbeat'
    <3>1. [loc EXCEPT !.silence = age].silence = age
      BY <1>0 DEF Locals
    <3>2. UNCHANGED <<age, cmd, hpc, flags>>
      BY <2>2 DEF RtTop
    <3>3. rpc' = "out" \/ (rpc' = "snapshot" /\ loc'.silence = age)
      BY <2>2, <3>1 DEF RtTop
    <3> QED BY <1>0, <3>2, <3>3 DEF Heartbeat, SilentClientIsStopped, Inert
  <2>3. ASSUME RtSnapshot PROVE Heartbeat'
    <3>1. rpc = "snapshot" /\ UNCHANGED <<age, hpc>>
      BY <2>3 DEF RtSnapshot
    <3> QED BY <2>3, <3>1, SnapshotHeartbeat DEF Heartbeat, SilentClientIsStopped, Inert
  <2>4. ASSUME NEW d \in BOOLEAN, RtCycle(d) PROVE Heartbeat'
    <3>1. UNCHANGED <<age, cmd, hpc, flags>> /\ rpc' = "top"
      BY <2>4 DEF RtCycle
    <3> QED BY <3>1 DEF Heartbeat, SilentClientIsStopped, Inert
  <2> QED BY <1>4, <2>1, <2>2, <2>3, <2>4 DEF Rt
<1> QED BY <1>1, <1>2, <1>3, <1>4 DEF Next, Terminated

(***************************************************************************)
(* If the handler applies a message within client_timeout_ms of marking    *)
(* it, every cycle that starts more than client_timeout_ms after the last  *)
(* client message works on a stopped command.  README.md, under "Where     *)
(* code and text disagree", shows that the hypothesis is needed.           *)
(***************************************************************************)
THEOREM HeartbeatStopsDrive ==
  ASSUME HandlerDelay <= ClientTimeout
  PROVE  Spec => []SilentClientIsStopped
<1> DEFINE I == TypeOK /\ PcSync /\ Heartbeat
<1>1. Init => I
  <2>1. Init => PcSync
    BY DEF Init, PcSync
  <2>2. Init => Heartbeat
    BY DEF Init, Heartbeat, SilentClientIsStopped, FlagsInit
  <2> QED BY <2>1, <2>2, TypeInit
<1>2. I /\ [Next]_vars => I'
  BY TypeStep, PcSyncStep, HeartbeatStep
<1>3. I => SilentClientIsStopped
  BY DEF Heartbeat
<1> QED BY <1>1, <1>2, <1>3, PTL DEF Spec
-----------------------------------------------------------------------------
(***************************************************************************)
(* The commands of a session under the real-time thread: a sequence that   *)
(* does not reach its state times out, a move keeps its target, and an     *)
(* axis that gets power stands still.                                      *)
(***************************************************************************)

(* The messages under way: what the client may send, or its hello.         *)
Asked ==
  /\ inbox # <<>> => \E m \in Requests \cup {Hello} : inbox = <<m>>
  /\ hmsg \in Requests \cup {Hello}

(* The counter of the real-time thread and the history agree; a sequence   *)
(* without its state fails in time, and no profile runs before it is done. *)
SequenceInv ==
  /\ ~cmd.reset
  /\ loc.elapsed = ClampHigh(since, SeqTimeout)
  /\ ~loc.done /\ since > SeqTimeout => loc.failed
  /\ ~loc.done => ~loc.profile.active

(* The command that the real-time thread works on: a snapshot that is not  *)
(* new is the one it has, and a running profile is one of its motion.      *)
InForce ==
  /\ ~cmd.fresh => cmd.motion = loc.cmd.motion /\ cmd.seq = loc.cmd.seq
  /\ loc.profile.active => loc.profile.type = loc.cmd.motion.type

(* Requests that leave the drive in position mode and its controlword to   *)
(* the sequences.                                                          *)
PositionRequest(m) ==
  \/ m.kind \in {"SdoRead", "Other", "Hello"}
  \/ /\ m.kind = "Command" /\ m.name \notin {"Jog", "Home", "ServoStop"}
     /\ m.name = "SetMode" => m.mode \in {"0", "CSP"}
  \/ /\ m.kind = "SdoWrite" /\ m.object # "6040"
     /\ m.object = "6060" => m.mode \in {"0", "CSP"}

(* What they make of a command block.                                      *)
PositionCommand(c) ==
  /\ c.cw = CW_ZERO /\ c.mode \in {"0", "CSP"}
  /\ c.seq \in {"None", "FaultReset", "Enable", "Disable"}
  /\ c.motion.type \in {"None", "Position"} /\ c.motion.mode \in {"0", "CSP"}
  /\ c.motion.type = "Position" => c.seq = "Enable"

Decoded == StateFromStatus(inp.status)

(***************************************************************************)
(* The inputs lag one frame behind the drive.  A drive that is switched on *)
(* has not moved since they were sampled, a drive with power was switched  *)
(* on before, and a move runs only on a drive that had power.              *)
(***************************************************************************)
LagInv ==
  /\ PositionCommand(cmd) /\ PositionCommand(loc.cmd)
  /\ drv.mode = "CSP" /\ inp.mode = "CSP" /\ drv.state # "QuickStopActive"
  /\ drv.state = "SwitchedOn" => drv.pos = inp.pos /\ Decoded \in {"ReadyToSwitchOn", "SwitchedOn"}
  /\ drv.state = "OperationEnabled" => Decoded \in {"SwitchedOn", "OperationEnabled"}
  /\ Decoded = "OperationEnabled" => drv.state \notin {"ReadyToSwitchOn", "SwitchedOn"}
  /\ loc.done /\ ~loc.failed /\ loc.cmd.motion.type = "Position"
       => drv.state \notin {"ReadyToSwitchOn", "SwitchedOn"}
-----------------------------------------------------------------------------
(* The steps that touch the command, seen field by field.                  *)

(* A step that neither starts nor ends a session, applies a message, takes *)
(* a snapshot nor runs a cycle.                                            *)
Aside ==
  \/ Client \/ Drive \/ Tick \/ Signal \/ AcceptFails \/ UNCHANGED vars
  \/ HandlerFirstStatus \/ HandlerLoop \/ HandlerRecv \/ HandlerRecvFails \/ HandlerReply
  \/ HandlerStop \/ HandlerRejects \/ RtSetup \/ RtSetupFails \/ RtTop \/ RtOut

(* Every step is one of these or an aside.                                 *)
LEMMA Steps ==
  ASSUME [Next]_vars
  PROVE  Aside \/ HandlerStart \/ HandlerJoin \/ HandlerApply \/ RtSnapshot
         \/ \E d \in BOOLEAN : RtCycle(d)
BY DEF Next, Handler, Rt, Terminated, Aside

(* An aside leaves the command, and all of the locals but the silence.     *)
LEMMA AsideKeeps ==
  ASSUME TypeOK, Aside
  PROVE  /\ UNCHANGED <<cmd, since>>
         /\ loc'.cmd = loc.cmd /\ loc'.done = loc.done /\ loc'.failed = loc.failed
         /\ loc'.elapsed = loc.elapsed /\ loc'.profile = loc.profile
<1> USE DEF clientVars, handlerVars, rtVars, driveVars
<1>1. UNCHANGED <<cmd, since>>
  BY DEF Aside, Client, ClientConnect, ClientSend, ClientClose, Drive, DriveFault,
     DriveFaultReacted, DriveWatchdog, Tick, Signal, AcceptFails, vars, HandlerFirstStatus,
     HandlerLoop, HandlerRecv, HandlerRecvFails, HandlerReply, HandlerStop, HandlerRejects,
     RtSetup, RtSetupFails, RtTop, RtOut
<1>2. loc' = loc \/ \E x : loc' = [loc EXCEPT !.silence = x]
  BY DEF Aside, Client, ClientConnect, ClientSend, ClientClose, Drive, DriveFault,
     DriveFaultReacted, DriveWatchdog, Tick, Signal, AcceptFails, vars, HandlerFirstStatus,
     HandlerLoop, HandlerRecv, HandlerRecvFails, HandlerReply, HandlerStop, HandlerRejects,
     RtSetup, RtSetupFails, RtTop, RtOut
<1>3. loc \in Locals
  BY DEF TypeOK
<1>4. ASSUME NEW x, loc' = [loc EXCEPT !.silence = x]
      PROVE  /\ loc'.cmd = loc.cmd /\ loc'.done = loc.done /\ loc'.failed = loc.failed
             /\ loc'.elapsed = loc.elapsed /\ loc'.profile = loc.profile
  BY <1>3, <1>4 DEF Locals
<1> QED BY <1>1, <1>2, <1>4

(* The session's start and end reset the command and the locals.           *)
LEMMA SessionFields ==
  /\ CommandInit.fresh /\ ~CommandInit.reset /\ PositionCommand(CommandInit)
  /\ LocInit.cmd = CommandInit /\ LocInit.done /\ ~LocInit.failed /\ LocInit.elapsed = 0
  /\ LocInit.profile = ProfileReset /\ ~ProfileReset.active /\ CommandInit.motion.type = "None"
BY DEF CommandInit, LocInit, ProfileReset, NoMotion, PositionCommand

(* The snapshot: the command block or its safe stop, taken up when new.    *)
LEMMA SnapshotFields ==
  ASSUME TypeOK, RtSnapshot
  PROVE  \E c \in CommandBlocks :
           /\ c = cmd \/ c = Fresh(SafeStop(cmd))
           /\ cmd' = [c EXCEPT !.fresh = FALSE, !.reset = FALSE]
           /\ loc'.cmd = c
           /\ c.fresh => /\ loc'.done = (c.seq = "None") /\ loc'.failed = FALSE
                         /\ loc'.profile = ProfileReset /\ loc'.elapsed = 0 /\ since' = 0
           /\ ~c.fresh => /\ loc'.done = loc.done /\ loc'.failed = loc.failed
                          /\ loc'.profile = loc.profile /\ since' = since
                          /\ ~c.reset => loc'.elapsed = loc.elapsed
<1> DEFINE fire == ClientTimeout > 0 /\ loc.silence > ClientTimeout /\ ~flags.safety
           c    == IF fire THEN Fresh(SafeStop(cmd)) ELSE cmd
           b    == flags.safety \/ fire
<1>1. c \in CommandBlocks /\ (c = cmd \/ c = Fresh(SafeStop(cmd)))
  BY SafeStopType DEF TypeOK
<1>2. /\ cmd' = [c EXCEPT !.fresh = FALSE, !.reset = FALSE]
      /\ \E l \in ResetStatistics(loc, c) : loc' = [TakeUp(l, c) EXCEPT !.safety = b]
      /\ since' = IF c.fresh THEN 0 ELSE since
  BY DEF RtSnapshot
<1> HIDE DEF c, b
<1>3. PICK l \in ResetStatistics(loc, c) : loc' = [TakeUp(l, c) EXCEPT !.safety = b]
  BY <1>2
<1>4. loc \in Locals
  BY DEF TypeOK
<1>5. /\ l \in Locals /\ l.done = loc.done /\ l.failed = loc.failed /\ l.profile = loc.profile
      /\ ~c.reset => l.elapsed = loc.elapsed
  <2>1. l \in Locals
    BY <1>4, ResetStatisticsType
  <2>2. CASE c.reset
    <3>1. PICK n \in 0..MaxStart : l = [loc EXCEPT !.elapsed = -n]
      BY <1>3, <2>2 DEF ResetStatistics
    <3> DEFINE e == -n
    <3>2. l = [loc EXCEPT !.elapsed = e]
      BY <3>1
    <3> HIDE DEF e
    <3> QED BY <1>4, <2>1, <2>2, <3>2 DEF Locals
  <2>3. CASE ~c.reset
    BY <1>3, <2>1, <2>3 DEF ResetStatistics
  <2> QED BY <2>2, <2>3
<1> DEFINE k == TakeUp(l, c)
<1>6. CASE c.fresh
  <2> DEFINE dn == (c.seq = "None")
             hv == l.holdValid /\ c.motion.type # "None"
  <2>1. k = [l EXCEPT !.cmd = c, !.done = dn, !.failed = FALSE, !.elapsed = 0,
                      !.profile = ProfileReset, !.holdValid = hv]
    BY <1>6 DEF TakeUp
  <2> HIDE DEF k, dn, hv
  <2>2. k = [cmd |-> c, safety |-> l.safety, silence |-> l.silence, done |-> dn,
             failed |-> FALSE, elapsed |-> 0, holdValid |-> hv, hold |-> l.hold,
             profile |-> ProfileReset]
    BY <1>5, <2>1 DEF Locals
  <2>3. /\ loc'.cmd = c /\ loc'.done = dn /\ loc'.failed = FALSE
        /\ loc'.profile = ProfileReset /\ loc'.elapsed = 0
    BY <1>3, <2>2 DEF k
  <2>4. since' = 0
    BY <1>2, <1>6
  <2> QED BY <1>1, <1>2, <1>6, <2>3, <2>4 DEF dn
<1>7. CASE ~c.fresh
  <2>1. k = [l EXCEPT !.cmd = c]
    BY <1>7 DEF TakeUp
  <2> HIDE DEF k
  <2>2. loc' = [[l EXCEPT !.cmd = c] EXCEPT !.safety = b]
    BY <1>3, <2>1 DEF k
  <2>3. /\ loc'.cmd = c /\ loc'.done = l.done /\ loc'.failed = l.failed
        /\ loc'.profile = l.profile /\ loc'.elapsed = l.elapsed
    BY <1>5, <2>2 DEF Locals
  <2>4. since' = since
    BY <1>2, <1>7
  <2> QED BY <1>1, <1>2, <1>5, <1>7, <2>3, <2>4
<1> QED BY <1>6, <1>7

(* The locals that a cycle computes.                                       *)
LEMMA CycleFields ==
  ASSUME TypeOK, NEW d \in BOOLEAN, RtCycle(d)
  PROVE  /\ loc'.cmd = loc.cmd /\ loc'.done = SeqDone(Decoded) /\ loc'.failed = SeqFailed(Decoded)
         /\ loc'.profile = CycleProfile(Decoded)
         /\ loc'.elapsed = ClampHigh(loc.elapsed + 1, SeqTimeout)
         /\ since' = ClampHigh(since + 1, SeqTimeout + 1) /\ cmd' = cmd
<1>1. loc' = CycleLocals(Decoded) /\ since' = ClampHigh(since + 1, SeqTimeout + 1) /\ cmd' = cmd
  BY DEF RtCycle, Decoded
<1> DEFINE dn == SeqDone(Decoded)
           fl == SeqFailed(Decoded)
           pr == CycleProfile(Decoded)
           hd == IF Latches(Decoded) THEN inp.pos ELSE loc.hold
           hv == loc.holdValid \/ Latches(Decoded)
           el == ClampHigh(loc.elapsed + 1, SeqTimeout)
<1>2. loc' = [loc EXCEPT !.done = dn, !.failed = fl, !.profile = pr, !.hold = hd,
                         !.holdValid = hv, !.elapsed = el]
  BY <1>1 DEF CycleLocals
<1> HIDE DEF dn, fl, pr, hd, hv, el
<1>3. loc \in Locals
  BY DEF TypeOK
<1>4. loc' = [cmd |-> loc.cmd, safety |-> loc.safety, silence |-> loc.silence, done |-> dn,
              failed |-> fl, elapsed |-> el, holdValid |-> hv, hold |-> hd, profile |-> pr]
  BY <1>2, <1>3 DEF Locals
<1> QED BY <1>1, <1>4 DEF dn, fl, pr, el

(* Installing a command, or stopping safely, sets what it names.           *)
LEMMA InstallFields ==
  ASSUME NEW c \in CommandBlocks, NEW s, NEW mo
  PROVE  LET d == Install(c, s, mo)
             e == Fresh(SafeStop(c))
         IN  /\ d.fresh /\ d.seq = s /\ d.motion = mo
             /\ d.cw = c.cw /\ d.mode = c.mode /\ d.reset = c.reset
             /\ e.fresh /\ e.seq = "None" /\ e.motion = NoMotion
             /\ e.cw = CW_ZERO /\ e.mode = c.mode /\ e.reset = c.reset
BY DEF Install, SafeStop, Fresh, CommandBlocks

(* Writing one field of the command block leaves the others.               *)
LEMMA FieldWrites ==
  ASSUME NEW c \in CommandBlocks
  PROVE  /\ \A md \in Modes402 :
              LET d == [c EXCEPT !.mode = md]
              IN  d \in CommandBlocks /\ d.mode = md /\ d.cw = c.cw /\ d.reset = c.reset
         /\ \A n \in Int :
              LET d == [c EXCEPT !.tpos = n]
              IN  d \in CommandBlocks /\ d.mode = c.mode /\ d.cw = c.cw /\ d.reset = c.reset
         /\ \A n \in Int :
              LET d == [c EXCEPT !.tvel = n]
              IN  d \in CommandBlocks /\ d.mode = c.mode /\ d.cw = c.cw /\ d.reset = c.reset
         /\ \A w \in Controlwords :
              LET d == [c EXCEPT !.cw = w]
              IN  d \in CommandBlocks /\ d.mode = c.mode /\ d.cw = w /\ d.reset = c.reset
         /\ LET d == [c EXCEPT !.reset = TRUE]
            IN  /\ d.mode = c.mode /\ d.cw = c.cw /\ d.seq = c.seq /\ d.motion = c.motion
                /\ d.fresh = c.fresh
BY DEF CommandBlocks

(* Applying a message either makes the command new or leaves its motion    *)
(* and sequence; a position request leaves a position command.             *)
Applies(c, d, m) ==
  /\ d.fresh \/ (d.fresh = c.fresh /\ d.motion = c.motion /\ d.seq = c.seq)
  /\ (m.kind = "Command" => m.name # "ResetStatistics") => d.reset = c.reset
  /\ PositionRequest(m) /\ PositionCommand(c) => PositionCommand(d)

(* runtime_apply_command *)
LEMMA ApplyFields ==
  ASSUME NEW c \in CommandBlocks, NEW m \in Messages, m.kind = "Command"
  PROVE  Applies(c, ApplyCommand(c, m), m)
<1> DEFINE d == ApplyCommand(c, m)
<1>1. m.name \in CommandNames /\ m.pos \in Int /\ m.vel \in Int /\ m.mode \in Modes402
  BY DEF Messages
<1>2. NoMotion.type = "None" /\ NoMotion.mode = "0"
  BY DEF NoMotion
<1>3. \A rel \in BOOLEAN : /\ PositionMotion(m, rel).type = "Position"
                           /\ PositionMotion(m, rel).mode = "CSP"
  BY DEF PositionMotion, Motion
<1>4. CASE m.name \in {"None", "Start", "Unknown", "ResetStatistics"}
  BY <1>1, <1>4, FieldWrites DEF ApplyCommand, Applies, PositionCommand
<1>5. CASE m.name = "Stop"
  BY <1>2, <1>5, InstallFields DEF ApplyCommand, Applies, PositionCommand
<1>6. CASE m.name \in {"FaultReset", "Enable", "Disable"}
  <2>1. PICK s \in {"FaultReset", "Enable", "Disable"} : d = Install(c, s, NoMotion)
    BY <1>6 DEF ApplyCommand
  <2> HIDE DEF d
  <2>2. Applies(c, d, m)
    BY <1>2, <2>1, InstallFields DEF Applies, PositionCommand
  <2> QED BY <2>2 DEF d
<1>7. CASE m.name = "SetMode"
  <2> DEFINE e == [c EXCEPT !.mode = m.mode]
  <2>1. d = Install(e, "None", NoMotion)
    BY <1>7 DEF ApplyCommand
  <2>2. e \in CommandBlocks /\ e.mode = m.mode /\ e.cw = c.cw /\ e.reset = c.reset
    BY <1>1, FieldWrites
  <2> HIDE DEF d, e
  <2>3. Applies(c, d, m)
    BY <1>2, <1>7, <2>1, <2>2, InstallFields DEF Applies, PositionCommand, PositionRequest
  <2> QED BY <2>3 DEF d
<1>8. CASE m.name \in {"MoveAbs", "MoveRel"}
  <2> DEFINE e == [c EXCEPT !.tpos = m.pos]
  <2>1. PICK rel \in BOOLEAN : d = Install(e, "Enable", PositionMotion(m, rel))
    BY <1>8 DEF ApplyCommand
  <2>2. e \in CommandBlocks /\ e.mode = c.mode /\ e.cw = c.cw /\ e.reset = c.reset
    BY <1>1, FieldWrites
  <2> HIDE DEF d, e
  <2>3. Applies(c, d, m)
    BY <1>3, <2>1, <2>2, InstallFields DEF Applies, PositionCommand
  <2> QED BY <2>3 DEF d
<1>9. CASE m.name \in {"Jog", "Home", "ServoStop"}
  <2>1. ~PositionRequest(m)
    BY <1>9 DEF PositionRequest
  <2> DEFINE e == IF m.name = "Jog" THEN [c EXCEPT !.tvel = m.vel] ELSE c
  <2>2. \E s, mo : d = Install(e, s, mo)
    BY <1>9 DEF ApplyCommand
  <2>3. e \in CommandBlocks /\ e.reset = c.reset
    BY <1>1, FieldWrites
  <2> HIDE DEF d, e
  <2>4. Applies(c, d, m)
    BY <2>1, <2>2, <2>3, InstallFields DEF Applies
  <2> QED BY <2>4 DEF d
<1> QED BY <1>1, <1>4, <1>5, <1>6, <1>7, <1>8, <1>9 DEF CommandNames

(* runtime_write_cached_sdo *)
LEMMA WriteFields ==
  ASSUME NEW c \in CommandBlocks, NEW m \in Messages, m.kind = "SdoWrite"
  PROVE  Applies(c, WriteCachedSdo(c, m), m)
<1> DEFINE d == WriteCachedSdo(c, m)
<1>1. /\ m.object \in {"6040", "6060", "607a", "60ff", "1000"}
      /\ m.cw \in Controlwords /\ m.pos \in Int /\ m.vel \in Int /\ m.mode \in Modes402
  BY DEF Messages
<1>2. NoMotion.type = "None" /\ NoMotion.mode = "0"
  BY DEF NoMotion
<1>3. CASE m.object = "1000"
  BY <1>3 DEF WriteCachedSdo, Applies
<1>4. CASE m.object # "1000"
  <2>1. PICK e \in CommandBlocks :
          /\ d = Install(e, "None", NoMotion) /\ e.reset = c.reset
          /\ m.object # "6040" => e.cw = c.cw
          /\ m.object # "6060" => e.mode = c.mode
          /\ m.object = "6060" => e.mode = m.mode
    <3>1. CASE m.object = "6040"
      BY <1>1, <3>1, FieldWrites DEF WriteCachedSdo
    <3>2. CASE m.object = "6060"
      BY <1>1, <3>2, FieldWrites DEF WriteCachedSdo
    <3>3. CASE m.object = "607a"
      BY <1>1, <3>3, FieldWrites DEF WriteCachedSdo
    <3>4. CASE m.object = "60ff"
      BY <1>1, <3>4, FieldWrites DEF WriteCachedSdo
    <3> QED BY <1>1, <1>4, <3>1, <3>2, <3>3, <3>4
  <2> HIDE DEF d
  <2>2. Applies(c, d, m)
    BY <1>2, <2>1, InstallFields DEF Applies, PositionCommand, PositionRequest
  <2> QED BY <2>2 DEF d
<1> QED BY <1>3, <1>4

(* The handler applies the message it has, and touches no locals.          *)
LEMMA HandlerApplies ==
  ASSUME TypeOK, HandlerApply
  PROVE  Applies(cmd, cmd', hmsg) /\ UNCHANGED <<loc, since, rpc, drv, inp>>
<1>1. UNCHANGED <<loc, since, rpc, drv, inp>>
  BY DEF HandlerApply, rtVars, driveVars
<1>2. cmd \in CommandBlocks /\ hmsg \in Messages
  BY DEF TypeOK
<1>3. CASE hmsg.kind = "Command"
  BY <1>1, <1>2, <1>3, ApplyFields DEF HandlerApply
<1>4. CASE hmsg.kind = "SdoWrite"
  BY <1>1, <1>2, <1>4, WriteFields DEF HandlerApply
<1>5. CASE hmsg.kind \notin {"Command", "SdoWrite"}
  <2>1. cmd' = cmd
    BY <1>5 DEF HandlerApply
  <2> QED BY <1>1, <2>1 DEF Applies
<1> QED BY <1>1, <1>3, <1>4, <1>5

(* Every message under way comes from the client.                          *)
LEMMA AskedStep == Asked /\ [Next]_vars => Asked'
<1> SUFFICES ASSUME Asked, [Next]_vars PROVE Asked'
  OBVIOUS
<1> USE DEF clientVars, handlerVars, rtVars, driveVars
<1>1. ASSUME ClientConnect \/ \E m \in Requests : ClientSend(m) PROVE Asked'
  BY <1>1 DEF ClientConnect, ClientSend, Asked
<1>2. ASSUME HandlerRecv PROVE Asked'
  <2>1. PICK m \in Requests \cup {Hello} : inbox = <<m>>
    BY <1>2 DEF HandlerRecv, Asked
  <2>2. hmsg' = m /\ inbox' = <<>>
    BY <1>2, <2>1 DEF HandlerRecv
  <2> QED BY <2>2 DEF Asked
<1>3. ASSUME HandlerStart \/ HandlerJoin \/ HandlerRejects \/ HandlerApply PROVE Asked'
  BY <1>3 DEF HandlerStart, HandlerJoin, HandlerRejects, HandlerApply, Asked
<1>4. ASSUME \/ ClientClose \/ Drive \/ Tick \/ Signal \/ AcceptFails \/ UNCHANGED vars
             \/ HandlerFirstStatus \/ HandlerLoop \/ HandlerRecvFails \/ HandlerReply
             \/ HandlerStop \/ Rt
      PROVE  Asked'
  <2>1. UNCHANGED <<inbox, hmsg>>
    BY <1>4 DEF ClientClose, Drive, DriveFault, DriveFaultReacted, DriveWatchdog, Tick, Signal,
       AcceptFails, vars, HandlerFirstStatus, HandlerLoop, HandlerRecvFails, HandlerReply,
       HandlerStop, Rt, RtSetup, RtSetupFails, RtTop, RtSnapshot, RtCycle, RtOut
  <2> QED BY <2>1 DEF Asked
<1> QED BY <1>1, <1>2, <1>3, <1>4 DEF Next, Client, Handler, Terminated
-----------------------------------------------------------------------------
(* The sequence's timeout.                                                 *)

NoReset(m) == m.kind = "Command" => m.name # "ResetStatistics"

(* Every step keeps the counters related, if no one resets the statistics. *)
LEMMA SequenceStep ==
  ASSUME \A m \in Requests : NoReset(m), TypeOK, Asked, SequenceInv, [Next]_vars
  PROVE  SequenceInv'
<1>0. /\ cmd \in CommandBlocks /\ loc \in Locals /\ since \in Nat /\ SeqTimeout \in Nat \ {0}
      /\ loc.elapsed \in Int /\ loc.done \in BOOLEAN /\ loc.failed \in BOOLEAN
      /\ since <= SeqTimeout + 1
  BY BackendAssumption DEF TypeOK, Locals
<1>1. ASSUME Aside PROVE SequenceInv'
  BY <1>1, AsideKeeps DEF SequenceInv
<1>2. ASSUME HandlerStart \/ HandlerJoin PROVE SequenceInv'
  <2>1. cmd' = CommandInit /\ loc' = LocInit /\ since' = 0
    BY <1>2 DEF HandlerStart, HandlerJoin
  <2> QED BY <1>0, <2>1, SessionFields DEF SequenceInv, ClampHigh
<1>3. ASSUME HandlerApply PROVE SequenceInv'
  <2>1. NoReset(hmsg)
    BY DEF Asked, Hello, NoReset
  <2>2. cmd'.reset = cmd.reset /\ UNCHANGED <<loc, since>>
    BY <1>3, <2>1, HandlerApplies DEF Applies, NoReset
  <2> QED BY <2>2 DEF SequenceInv
<1>4. ASSUME RtSnapshot PROVE SequenceInv'
  <2>1. PICK c \in CommandBlocks :
           /\ c = cmd \/ c = Fresh(SafeStop(cmd))
           /\ cmd' = [c EXCEPT !.fresh = FALSE, !.reset = FALSE]
           /\ loc'.cmd = c
           /\ c.fresh => /\ loc'.done = (c.seq = "None") /\ loc'.failed = FALSE
                         /\ loc'.profile = ProfileReset /\ loc'.elapsed = 0 /\ since' = 0
           /\ ~c.fresh => /\ loc'.done = loc.done /\ loc'.failed = loc.failed
                          /\ loc'.profile = loc.profile /\ since' = since
                          /\ ~c.reset => loc'.elapsed = loc.elapsed
    BY <1>4, SnapshotFields
  <2>2. ~c.reset
    BY <1>0, <2>1, InstallFields DEF SequenceInv
  <2>3. ~cmd'.reset
    BY <2>1 DEF CommandBlocks
  <2>4. CASE c.fresh
    BY <1>0, <2>1, <2>3, <2>4, SessionFields DEF SequenceInv, ClampHigh
  <2>5. CASE ~c.fresh
    BY <2>1, <2>2, <2>3, <2>5 DEF SequenceInv
  <2> QED BY <2>4, <2>5
<1>5. ASSUME NEW d \in BOOLEAN, RtCycle(d) PROVE SequenceInv'
  <2>1. /\ loc'.done = SeqDone(Decoded) /\ loc'.failed = SeqFailed(Decoded)
        /\ loc'.profile = CycleProfile(Decoded)
        /\ loc'.elapsed = ClampHigh(loc.elapsed + 1, SeqTimeout)
        /\ since' = ClampHigh(since + 1, SeqTimeout + 1) /\ cmd' = cmd
    BY <1>5, CycleFields
  <2>2. loc'.elapsed = ClampHigh(since', SeqTimeout)
    BY <1>0, <2>1 DEF SequenceInv, ClampHigh
  <2>3. ~loc'.done /\ since' > SeqTimeout => loc'.failed
    <3>1. since' > SeqTimeout => loc.elapsed >= SeqTimeout
      BY <1>0, <2>1 DEF SequenceInv, ClampHigh
    <3> QED BY <2>1, <3>1 DEF SeqFailed
  <2>4. ~loc'.done => ~loc'.profile.active
    <3>1. SUFFICES ASSUME ~loc'.done PROVE ~loc'.profile.active
      OBVIOUS
    <3>2. ~loc.done /\ ~MotionRuns(Decoded)
      BY <2>1, <3>1 DEF SeqDone, MotionRuns
    <3>3. loc'.profile \in {ProfileReset, loc.profile}
      BY <2>1, <3>2 DEF CycleProfile
    <3> QED BY <3>2, <3>3, SessionFields DEF SequenceInv
  <2> QED BY <2>1, <2>2, <2>3, <2>4 DEF SequenceInv
<1> QED BY <1>1, <1>2, <1>3, <1>4, <1>5, Steps

(***************************************************************************)
(* For every timeout, client behaviour and disturbance: a sequence that    *)
(* has not reached its state SeqTimeout cycles after the real-time thread  *)
(* took it up is reported as failed and its motion never starts.  The      *)
(* hypothesis leaves out the command that resets the cycle counter, which  *)
(* the code subtracts from.                                                *)
(***************************************************************************)
THEOREM SequencesTimeOut ==
  ASSUME \A m \in Requests : NoReset(m)
  PROVE  Spec => []SequenceTimesOut
<1> DEFINE I == TypeOK /\ Asked /\ SequenceInv
<1>1. Init => I
  <2>1. Init => Asked
    BY DEF Init, Asked
  <2>2. Init => SequenceInv
    BY SessionFields, BackendAssumption DEF Init, SequenceInv, ClampHigh
  <2> QED BY <2>1, <2>2, TypeInit
<1>2. I /\ [Next]_vars => I'
  BY TypeStep, AskedStep, SequenceStep
<1>3. I => SequenceTimesOut
  BY DEF SequenceInv, SequenceTimesOut
<1> QED BY <1>1, <1>2, <1>3, PTL DEF Spec
-----------------------------------------------------------------------------
(* The target of a move.                                                   *)

(* A step of a profile keeps its type and target and leaves it active.     *)
LEMMA StepKeepsTarget ==
  ASSUME NEW p \in Profiles, NEW mo \in Motions, mo.type # "None",
         NEW apos \in Int, NEW avel \in Int
  PROVE  /\ ProfileStep(p, mo, apos, avel).type = mo.type
         /\ p.active /\ p.type = mo.type
              => ProfileStep(p, mo, apos, avel).tposition = p.tposition
<1> DEFINE q == IF ~p.active \/ p.type # mo.type THEN ProfileBegin(mo, apos, avel) ELSE p
<1>1. q \in Profiles /\ q.type = mo.type
  BY ProfileBeginType
<1>2. p.active /\ p.type = mo.type => q = p
  OBVIOUS
<1> HIDE DEF q
<1>3. StepTrapezoidal(q).type = q.type /\ StepTrapezoidal(q).tposition = q.tposition
  <2>1. \A x, v : /\ [q EXCEPT !.position = x, !.velocity = v].type = q.type
                  /\ [q EXCEPT !.position = x, !.velocity = v].tposition = q.tposition
    BY <1>1 DEF Profiles
  <2>2. \A x, v, b : /\ [q EXCEPT !.position = x, !.velocity = v, !.done = b].type = q.type
                     /\ [q EXCEPT !.position = x, !.velocity = v, !.done = b].tposition = q.tposition
    BY <1>1 DEF Profiles
  <2> DEFINE r == StepTrapezoidal(q)
  <2>3. \/ r = q
        \/ \E x, v : r = [q EXCEPT !.position = x, !.velocity = v]
        \/ \E x, v, b : r = [q EXCEPT !.position = x, !.velocity = v, !.done = b]
    BY DEF StepTrapezoidal
  <2> HIDE DEF r
  <2>4. r.type = q.type /\ r.tposition = q.tposition
    <3>1. ASSUME NEW x, NEW v, r = [q EXCEPT !.position = x, !.velocity = v]
          PROVE  r.type = q.type /\ r.tposition = q.tposition
      BY <2>1, <3>1
    <3>2. ASSUME NEW x, NEW v, NEW b, r = [q EXCEPT !.position = x, !.velocity = v, !.done = b]
          PROVE  r.type = q.type /\ r.tposition = q.tposition
      BY <2>2, <3>2
    <3> QED BY <2>3, <3>1, <3>2
  <2> QED BY <2>4 DEF r
<1>4. StepVelocity(q, apos).type = q.type /\ StepVelocity(q, apos).tposition = q.tposition
  BY <1>1 DEF StepVelocity, Profiles
<1>5. ProfileStep(p, mo, apos, avel) \in {StepTrapezoidal(q), StepVelocity(q, apos)}
  BY DEF ProfileStep, q
<1> QED BY <1>1, <1>2, <1>3, <1>4, <1>5

(* What a cycle makes of the profile.                                      *)
LEMMA CycleKeepsTarget ==
  ASSUME TypeOK, InForce, NEW st
  PROVE  LET p == CycleProfile(st)
         IN  /\ p.active => p.type = loc.cmd.motion.type
             /\ p.active /\ loc.profile.active => p.tposition = loc.profile.tposition
<1>1. /\ loc.cmd.motion \in Motions /\ loc.profile \in Profiles
      /\ inp.pos \in Int /\ inp.vel \in Int
  BY BackendAssumption DEF TypeOK, Locals, CommandBlocks, InputImages
<1>2. CASE MotionRuns(st)
  BY <1>1, <1>2, StepKeepsTarget DEF CycleProfile, MotionRuns, InForce
<1>3. CASE ~MotionRuns(st)
  BY <1>3, SessionFields DEF CycleProfile, InForce
<1> QED BY <1>2, <1>3

(* The snapshot that is not new is the one the thread has.                 *)
LEMMA InForceStep ==
  ASSUME TypeOK, InForce, [Next]_vars
  PROVE  /\ InForce'
         /\ loc.profile.active /\ loc'.profile.active
              => loc'.profile.tposition = loc.profile.tposition
<1>0. cmd \in CommandBlocks
  BY DEF TypeOK
<1> DEFINE G == /\ InForce'
                /\ loc.profile.active /\ loc'.profile.active
                     => loc'.profile.tposition = loc.profile.tposition
<1>1. ASSUME Aside PROVE G
  BY <1>1, AsideKeeps DEF InForce
<1>2. ASSUME HandlerStart \/ HandlerJoin PROVE G
  <2>1. cmd' = CommandInit /\ loc' = LocInit
    BY <1>2 DEF HandlerStart, HandlerJoin
  <2> QED BY <2>1, SessionFields DEF InForce
<1>3. ASSUME HandlerApply PROVE G
  BY <1>3, HandlerApplies DEF InForce, Applies
<1>4. ASSUME RtSnapshot PROVE G
  <2>1. PICK c \in CommandBlocks :
           /\ c = cmd \/ c = Fresh(SafeStop(cmd))
           /\ cmd' = [c EXCEPT !.fresh = FALSE, !.reset = FALSE]
           /\ loc'.cmd = c
           /\ c.fresh => loc'.profile = ProfileReset
           /\ ~c.fresh => loc'.profile = loc.profile
    BY <1>4, SnapshotFields
  <2>2. cmd'.motion = c.motion /\ cmd'.seq = c.seq
    BY <2>1 DEF CommandBlocks
  <2>3. ~c.fresh => c = cmd
    BY <1>0, <2>1, InstallFields
  <2> QED BY <2>1, <2>2, <2>3, SessionFields DEF InForce
<1>5. ASSUME NEW d \in BOOLEAN, RtCycle(d) PROVE G
  <2>1. loc'.cmd = loc.cmd /\ loc'.profile = CycleProfile(Decoded) /\ cmd' = cmd
    BY <1>5, CycleFields
  <2> QED BY <2>1, CycleKeepsTarget DEF InForce
<1> QED BY <1>1, <1>2, <1>3, <1>4, <1>5, Steps

(* The command block and the locals agree initially.                       *)
LEMMA InForceInit == Init => InForce
BY SessionFields DEF Init, InForce

(***************************************************************************)
(* For every request and disturbance: while a move is in force it keeps    *)
(* the target it took at its first cycle, so a relative distance is added  *)
(* once.                                                                   *)
(***************************************************************************)
THEOREM MovesKeepTarget == Spec => TargetFixed
<1> DEFINE I == TypeOK /\ InForce
<1>1. Init => I
  BY TypeInit, InForceInit
<1>2. I /\ [Next]_vars => I'
  BY TypeStep, InForceStep
<1>3. I /\ [Next]_vars =>
        [(loc.profile.active /\ loc'.profile.active)
           => loc'.profile.tposition = loc.profile.tposition]_vars
  BY InForceStep
<1> QED BY <1>1, <1>2, <1>3, PTL DEF Spec, TargetFixed
-----------------------------------------------------------------------------
(* Power on.                                                               *)

(* cia402_state_from_status decodes what each state of a drive reports.    *)
LEMMA DecodeInverse ==
  ASSUME NEW s \in DriveStates
  PROVE  StateFromStatus(StatusOf(s)) = s
<1>1. CASE s = "NotReady"
  BY <1>1 DEF StatusOf, StateFromStatus
<1>2. CASE s = "SwitchOnDisabled"
  BY <1>2 DEF StatusOf, StateFromStatus
<1>3. CASE s = "ReadyToSwitchOn"
  BY <1>3 DEF StatusOf, StateFromStatus
<1>4. CASE s = "SwitchedOn"
  BY <1>4 DEF StatusOf, StateFromStatus
<1>5. CASE s = "OperationEnabled"
  BY <1>5 DEF StatusOf, StateFromStatus
<1>6. CASE s = "QuickStopActive"
  BY <1>6 DEF StatusOf, StateFromStatus
<1>7. CASE s = "FaultReactionActive"
  BY <1>7 DEF StatusOf, StateFromStatus
<1>8. CASE s = "Fault"
  BY <1>8 DEF StatusOf, StateFromStatus
<1> QED BY <1>1, <1>2, <1>3, <1>4, <1>5, <1>6, <1>7, <1>8 DEF DriveStates

SequenceWords == {CW_ZERO, CW_SHUTDOWN, CW_SWITCH_ON, CW_ENABLE, CW_FAULT_RESET}

(* How a drive reacts to the words of the sequences.                       *)
LEMMA DriveFollows ==
  ASSUME NEW s \in DriveStates \ {"QuickStopActive"}, NEW prev, NEW cw \in SequenceWords
  PROVE  LET r == DriveReacts(s, prev, cw)
         IN  /\ r # "QuickStopActive"
             /\ r = "OperationEnabled" => s \in {"SwitchedOn", "OperationEnabled"} /\ cw = CW_ENABLE
             /\ r = "SwitchedOn" => s \in {"ReadyToSwitchOn", "SwitchedOn", "OperationEnabled"}
             /\ s = "OperationEnabled" /\ cw \in {CW_ZERO, CW_ENABLE}
                  => r \in {"SwitchOnDisabled", "OperationEnabled"}
             /\ cw = CW_ENABLE /\ s \notin {"ReadyToSwitchOn", "SwitchedOn"}
                  => r \notin {"ReadyToSwitchOn", "SwitchedOn"}
             /\ cw = CW_ZERO => r \notin {"ReadyToSwitchOn", "SwitchedOn", "OperationEnabled"}
<1> DEFINE r == DriveReacts(s, prev, cw)
<1>a. s \in {"NotReady", "FaultReactionActive"} => r = s
  BY DEF DriveReacts
<1>b. s = "Fault" => r \in {"Fault", "SwitchOnDisabled"}
  BY DEF DriveReacts
<1>c. s = "SwitchOnDisabled" => r = IF IsShutdown(cw) THEN "ReadyToSwitchOn" ELSE s
  BY DEF DriveReacts
<1>d. s \in {"ReadyToSwitchOn", "SwitchedOn", "OperationEnabled"} =>
        /\ IsDisableVoltage(cw) => r = "SwitchOnDisabled"
        /\ ~IsDisableVoltage(cw) /\ ~IsQuickStop(cw) =>
             r = IF IsShutdown(cw) THEN "ReadyToSwitchOn"
                 ELSE IF s = "ReadyToSwitchOn" THEN "SwitchedOn"
                 ELSE IF IsEnable(cw) THEN "OperationEnabled" ELSE "SwitchedOn"
  BY DEF DriveReacts
<1>e. s \in {"NotReady", "FaultReactionActive", "Fault", "SwitchOnDisabled", "ReadyToSwitchOn",
             "SwitchedOn", "OperationEnabled"}
  BY DEF DriveStates
<1> HIDE DEF r
<1> USE <1>a, <1>b, <1>c, <1>d, <1>e
<1>1. CASE cw = CW_ZERO
  <2>1. IsDisableVoltage(cw) /\ ~IsShutdown(cw) /\ 7 \notin cw /\ cw # CW_ENABLE
    BY <1>1 DEF IsDisableVoltage, IsShutdown, CW_ZERO, CW_ENABLE
  <2> QED BY <2>1 DEF r
<1>2. CASE cw = CW_SHUTDOWN
  <2>1. ~IsDisableVoltage(cw) /\ ~IsQuickStop(cw) /\ IsShutdown(cw) /\ cw # CW_ENABLE /\ cw # CW_ZERO
    BY <1>2 DEF IsDisableVoltage, IsQuickStop, IsShutdown, IsEnable, CW_ZERO, CW_ENABLE, CW_SHUTDOWN
  <2> QED BY <1>2, <2>1 DEF r
<1>3. CASE cw = CW_SWITCH_ON
  <2>1. /\ ~IsDisableVoltage(cw) /\ ~IsQuickStop(cw) /\ ~IsShutdown(cw) /\ ~IsEnable(cw)
        /\ cw # CW_ENABLE /\ cw # CW_ZERO
    BY <1>3 DEF IsDisableVoltage, IsQuickStop, IsShutdown, IsEnable, CW_ZERO, CW_ENABLE, CW_SWITCH_ON
  <2> QED BY <1>3, <2>1 DEF r
<1>4. CASE cw = CW_ENABLE
  <2>1. /\ ~IsDisableVoltage(cw) /\ ~IsQuickStop(cw) /\ ~IsShutdown(cw) /\ IsEnable(cw)
        /\ cw # CW_ZERO /\ 7 \notin cw
    BY <1>4 DEF IsDisableVoltage, IsQuickStop, IsShutdown, IsEnable, CW_ZERO, CW_ENABLE
  <2> QED BY <1>4, <2>1 DEF r
<1>5. CASE cw = CW_FAULT_RESET
  <2>1. IsDisableVoltage(cw) /\ ~IsShutdown(cw) /\ cw # CW_ENABLE /\ cw # CW_ZERO
    BY <1>5 DEF IsDisableVoltage, IsQuickStop, IsShutdown, IsEnable, CW_ZERO, CW_ENABLE, CW_FAULT_RESET
  <2> QED BY <1>5, <2>1 DEF r
<1> QED BY <1>1, <1>2, <1>3, <1>4, <1>5 DEF SequenceWords

(* A delivered frame samples the drive, which then reacts; without power   *)
(* to move it, a drive that is switched on stays where it is.              *)
LEMMA FrameFields ==
  ASSUME TypeOK, NEW o \in Outputs, DriveFrame(o), drv.mode = "CSP", o.mode \in {"0", "CSP"}
  PROVE  /\ inp'.pos = drv.pos /\ inp'.mode = "CSP" /\ Decoded' = drv.state
         /\ drv'.state = DriveReacts(drv.state, drv.cw, o.cw) /\ drv'.mode = "CSP"
         /\ drv'.state = "SwitchedOn" => drv'.pos = drv.pos
         /\ drv'.state = "OperationEnabled" => drv'.pos = InRange(o.tpos)
<1> DEFINE st   == DriveReacts(drv.state, drv.cw, o.cw)
           mode == IF o.mode = "0" THEN drv.mode ELSE o.mode
           goal == CASE mode = "CSP" -> InRange(o.tpos)
                     [] mode = "CSV" -> InRange(drv.pos + o.tvel)
                     [] OTHER        -> drv.pos
<1>1. mode = "CSP" /\ goal = InRange(o.tpos)
  OBVIOUS
<1>2. /\ inp' = Sample(drv)
      /\ IF st = "OperationEnabled"
         THEN drv' = [state |-> st, cw |-> o.cw, pos |-> goal, vel |-> goal - drv.pos, mode |-> mode]
         ELSE \E p \in IF st \in FreeStates THEN 0..MaxPos ELSE {drv.pos} :
                drv' = [state |-> st, cw |-> o.cw, pos |-> p, vel |-> 0, mode |-> mode]
  BY DEF DriveFrame
<1>3. inp'.pos = drv.pos /\ inp'.mode = "CSP" /\ inp'.status = StatusOf(drv.state)
  BY <1>2 DEF Sample
<1>4. Decoded' = drv.state
  BY <1>3, DecodeInverse DEF Decoded, TypeOK, Drives
<1> HIDE DEF st, mode, goal
<1>5. CASE st = "OperationEnabled"
  BY <1>1, <1>2, <1>3, <1>4, <1>5 DEF st
<1>6. CASE st # "OperationEnabled"
  <2>1. "SwitchedOn" \notin FreeStates
    BY DEF FreeStates
  <2> QED BY <1>1, <1>2, <1>3, <1>4, <1>6, <2>1 DEF st
<1> QED BY <1>5, <1>6

(* The outputs of a cycle for a position command.                          *)
LEMMA CycleWords ==
  ASSUME TypeOK, LagInv
  PROVE  LET o == CycleOutputs(Decoded)
         IN  /\ o \in Outputs /\ o.cw \in SequenceWords /\ o.mode \in {"0", "CSP"}
             /\ Decoded \in {"SwitchedOn", "OperationEnabled"} => o.cw \in {CW_ZERO, CW_ENABLE}
             /\ MotionRuns(Decoded) => o.cw = CW_ENABLE
             /\ ~MotionRuns(Decoded) /\ Decoded # "OperationEnabled" => o.tpos = inp.pos
<1> DEFINE o == CycleOutputs(Decoded)
<1>1. o \in Outputs
  BY CycleType DEF TypeOK
<1>2. CASE MotionRuns(Decoded)
  <2>1. loc.cmd.motion.type = "Position" /\ loc.cmd.motion.mode \in {"0", "CSP"}
    BY <1>2 DEF LagInv, PositionCommand, MotionRuns
  <2>2. o = ProfileOutput(CycleProfile(Decoded), loc.cmd.motion, inp.pos)
    BY <1>2 DEF CycleOutputs
  <2>3. o.cw = CW_ENABLE /\ o.mode = "CSP"
    BY <2>1, <2>2 DEF ProfileOutput, CW_ENABLE
  <2> QED BY <1>1, <1>2, <2>3 DEF SequenceWords
<1>3. CASE ~MotionRuns(Decoded)
  <2> DEFINE w == SequenceControlword(loc.cmd.seq, Decoded, loc.cmd.cw)
             t == IF loc.cmd.motion.type = "None" /\ ~Latches(Decoded) THEN loc.hold ELSE inp.pos
             n == IF loc.cmd.mode # "0" THEN loc.cmd.mode ELSE inp.mode
  <2>1. o = [cw |-> w, tpos |-> t, tvel |-> loc.cmd.tvel, mode |-> n]
    BY <1>3 DEF CycleOutputs
  <2>2. /\ w \in SequenceWords
        /\ Decoded \in {"SwitchedOn", "OperationEnabled"} => w \in {CW_ZERO, CW_ENABLE}
    BY DEF LagInv, PositionCommand, SequenceControlword, SequenceWords, InFault
  <2>3. n = "CSP"
    BY DEF LagInv, PositionCommand
  <2>4. Decoded # "OperationEnabled" => t = inp.pos
    BY DEF Latches, TracksActual
  <2> HIDE DEF w, t, n
  <2>5. o.cw = w /\ o.tpos = t /\ o.mode = n
    BY <2>1
  <2> HIDE DEF o
  <2>6. /\ o.cw \in SequenceWords /\ o.mode \in {"0", "CSP"}
        /\ Decoded \in {"SwitchedOn", "OperationEnabled"} => o.cw \in {CW_ZERO, CW_ENABLE}
        /\ Decoded # "OperationEnabled" => o.tpos = inp.pos
    BY <2>2, <2>3, <2>4, <2>5
  <2> QED BY <1>1, <1>3, <2>6 DEF o
<1> QED BY <1>2, <1>3

(* The lag of the inputs alone.                                            *)
DriveLag ==
  /\ drv.mode = "CSP" /\ inp.mode = "CSP" /\ drv.state # "QuickStopActive"
  /\ drv.state = "SwitchedOn" => drv.pos = inp.pos /\ Decoded \in {"ReadyToSwitchOn", "SwitchedOn"}
  /\ drv.state = "OperationEnabled" => Decoded \in {"SwitchedOn", "OperationEnabled"}
  /\ Decoded = "OperationEnabled" => drv.state \notin {"ReadyToSwitchOn", "SwitchedOn"}

(* A move that has begun.                                                  *)
Moving == loc.done /\ ~loc.failed /\ loc.cmd.motion.type = "Position"

(* A frame keeps the lag, if it carries a sequence's word that fits the    *)
(* inputs.                                                                 *)
LEMMA LagFrame ==
  ASSUME TypeOK, DriveLag, NEW o \in Outputs, DriveFrame(o) \/ FrameLost,
         o.cw \in SequenceWords, o.mode \in {"0", "CSP"},
         Decoded \in {"SwitchedOn", "OperationEnabled"} => o.cw \in {CW_ZERO, CW_ENABLE}
  PROVE  /\ DriveLag'
         /\ o.cw = CW_ENABLE /\ drv.state \notin {"ReadyToSwitchOn", "SwitchedOn"}
              => drv'.state \notin {"ReadyToSwitchOn", "SwitchedOn"}
<1>1. CASE FrameLost
  BY <1>1 DEF FrameLost, DriveLag, Decoded
<1>2. CASE DriveFrame(o)
  <2>1. drv.state \in DriveStates \ {"QuickStopActive"}
    BY DEF TypeOK, Drives, DriveLag
  <2>2. /\ inp'.pos = drv.pos /\ inp'.mode = "CSP" /\ Decoded' = drv.state
        /\ drv'.state = DriveReacts(drv.state, drv.cw, o.cw) /\ drv'.mode = "CSP"
        /\ drv'.state = "SwitchedOn" => drv'.pos = drv.pos
    BY <1>2, FrameFields DEF DriveLag
  <2>3. /\ drv'.state # "QuickStopActive"
        /\ drv'.state = "OperationEnabled" => drv.state \in {"SwitchedOn", "OperationEnabled"}
        /\ drv'.state = "SwitchedOn"
             => drv.state \in {"ReadyToSwitchOn", "SwitchedOn", "OperationEnabled"}
        /\ drv.state = "OperationEnabled" /\ o.cw \in {CW_ZERO, CW_ENABLE}
             => drv'.state \in {"SwitchOnDisabled", "OperationEnabled"}
        /\ o.cw = CW_ENABLE /\ drv.state \notin {"ReadyToSwitchOn", "SwitchedOn"}
             => drv'.state \notin {"ReadyToSwitchOn", "SwitchedOn"}
    BY <2>1, <2>2, DriveFollows
  <2>4. drv.state = "OperationEnabled" => drv'.state \in {"SwitchOnDisabled", "OperationEnabled"}
    BY <2>3 DEF DriveLag
  <2> QED BY <2>2, <2>3, <2>4 DEF DriveLag
<1> QED BY <1>1, <1>2

(* Every step keeps the lag and the position commands.                     *)
LEMMA LagStep ==
  ASSUME \A m \in Requests : PositionRequest(m), TypeOK, Asked, InForce, LagInv, [Next]_vars
  PROVE  LagInv'
<1> DEFINE Off == drv.state \notin {"ReadyToSwitchOn", "SwitchedOn"}
<1>0. DriveLag /\ PositionCommand(cmd) /\ PositionCommand(loc.cmd) /\ (Moving => Off)
  BY DEF LagInv, DriveLag, Moving
<1>a. DriveLag' /\ PositionCommand(cmd)' /\ PositionCommand(loc.cmd)' /\ (Moving' => Off') => LagInv'
  BY DEF LagInv, DriveLag, Moving
<1>b. cmd \in CommandBlocks /\ inp \in InputImages /\ drv \in Drives
  BY DEF TypeOK
<1>1. ASSUME Aside PROVE LagInv'
  <2>1. PositionCommand(cmd)' /\ PositionCommand(loc.cmd)' /\ Moving' = Moving
    BY <1>0, <1>1, AsideKeeps DEF PositionCommand, Moving
  <2>2. CASE RtSetup \/ RtOut
    <3>1. /\ OutputsZero \in Outputs /\ OutputsZero.cw = CW_ZERO /\ OutputsZero.mode = "0"
          /\ CW_ZERO \in SequenceWords
      BY FixedTypes DEF OutputsZero, SequenceWords
    <3>2. DriveFrame(OutputsZero) \/ FrameLost
      BY <2>2 DEF RtSetup, RtOut
    <3>3. DriveLag'
      BY <1>0, <3>1, <3>2, LagFrame
    <3>4. CASE FrameLost
      BY <1>0, <1>a, <2>1, <3>3, <3>4 DEF FrameLost
    <3>5. CASE DriveFrame(OutputsZero)
      <4>1. drv.state \in DriveStates \ {"QuickStopActive"}
        BY <1>0, <1>b DEF Drives, DriveLag
      <4>2. drv'.state = DriveReacts(drv.state, drv.cw, CW_ZERO)
        BY <1>0, <3>1, <3>5, FrameFields DEF DriveLag
      <4>3. Off'
        BY <3>1, <4>1, <4>2, DriveFollows
      <4> QED BY <1>a, <2>1, <3>3, <4>3
    <3> QED BY <3>2, <3>4, <3>5
  <2>3. CASE Drive
    <3>1. UNCHANGED inp
      BY <2>3 DEF Drive, DriveFault, DriveFaultReacted, DriveWatchdog
    <3>2. PICK s \in {"FaultReactionActive", "Fault", "SwitchOnDisabled"} :
            drv' = [drv EXCEPT !.state = s, !.vel = 0] \/ drv' = [drv EXCEPT !.state = s]
      BY <2>3 DEF Drive, DriveFault, DriveFaultReacted, DriveWatchdog
    <3>3. drv'.state = s /\ drv'.mode = drv.mode
      BY <1>b, <3>2 DEF Drives
    <3>4. DriveLag' /\ Off'
      BY <1>0, <3>1, <3>3 DEF DriveLag, Decoded
    <3> QED BY <1>a, <2>1, <3>4
  <2>4. CASE ~(RtSetup \/ RtOut \/ Drive)
    <3>1. UNCHANGED <<drv, inp>>
      BY <1>1, <2>4 DEF Aside, Client, ClientConnect, ClientSend, ClientClose, Tick, Signal,
         AcceptFails, vars, HandlerFirstStatus, HandlerLoop, HandlerRecv, HandlerRecvFails,
         HandlerReply, HandlerStop, HandlerRejects, RtSetupFails, RtTop, driveVars
    <3> QED BY <1>0, <1>a, <2>1, <3>1 DEF DriveLag, Decoded
  <2> QED BY <2>2, <2>3, <2>4
<1>2. ASSUME HandlerStart \/ HandlerJoin PROVE LagInv'
  <2>1. cmd' = CommandInit /\ loc' = LocInit /\ UNCHANGED <<drv, inp>>
    BY <1>2 DEF HandlerStart, HandlerJoin, driveVars
  <2> QED BY <1>0, <1>a, <2>1, SessionFields DEF DriveLag, Decoded, Moving
<1>3. ASSUME HandlerApply PROVE LagInv'
  <2>1. PositionRequest(hmsg)
    BY DEF Asked, Hello, PositionRequest
  <2>2. PositionCommand(cmd') /\ UNCHANGED <<loc, drv, inp>>
    BY <1>0, <1>3, <2>1, HandlerApplies DEF Applies
  <2> QED BY <1>0, <1>a, <2>2 DEF DriveLag, Decoded, Moving, PositionCommand
<1>4. ASSUME RtSnapshot PROVE LagInv'
  <2>1. PICK c \in CommandBlocks :
           /\ c = cmd \/ c = Fresh(SafeStop(cmd))
           /\ cmd' = [c EXCEPT !.fresh = FALSE, !.reset = FALSE]
           /\ loc'.cmd = c
           /\ c.fresh => loc'.done = (c.seq = "None")
           /\ ~c.fresh => loc'.done = loc.done /\ loc'.failed = loc.failed
    BY <1>4, SnapshotFields
  <2>2. NoMotion.type = "None" /\ NoMotion.mode = "0"
    BY DEF NoMotion
  <2>3. PositionCommand(c)
    BY <1>0, <1>b, <2>1, <2>2, InstallFields DEF PositionCommand
  <2>4. /\ cmd'.cw = c.cw /\ cmd'.mode = c.mode /\ cmd'.seq = c.seq /\ cmd'.motion = c.motion
    BY <2>1 DEF CommandBlocks
  <2>5. PositionCommand(cmd)' /\ PositionCommand(loc.cmd)'
    BY <2>1, <2>3, <2>4 DEF PositionCommand
  <2>6. ~c.fresh => c = cmd
    BY <1>b, <2>1, InstallFields
  <2>7. Moving' => Moving
    <3>1. CASE c.fresh
      BY <2>1, <2>3, <3>1 DEF PositionCommand, Moving
    <3>2. CASE ~c.fresh
      BY <2>1, <2>6, <3>2 DEF InForce, Moving
    <3> QED BY <3>1, <3>2
  <2>8. UNCHANGED <<drv, inp>>
    BY <1>4 DEF RtSnapshot, driveVars
  <2> QED BY <1>0, <1>a, <2>5, <2>7, <2>8 DEF DriveLag, Decoded
<1>5. ASSUME NEW d \in BOOLEAN, RtCycle(d) PROVE LagInv'
  <2> DEFINE o == CycleOutputs(Decoded)
  <2>1. /\ loc'.cmd = loc.cmd /\ loc'.done = SeqDone(Decoded) /\ loc'.failed = SeqFailed(Decoded)
        /\ cmd' = cmd
    BY <1>5, CycleFields
  <2>2. /\ o \in Outputs /\ o.cw \in SequenceWords /\ o.mode \in {"0", "CSP"}
        /\ Decoded \in {"SwitchedOn", "OperationEnabled"} => o.cw \in {CW_ZERO, CW_ENABLE}
        /\ MotionRuns(Decoded) => o.cw = CW_ENABLE
    BY CycleWords
  <2>3. DriveFrame(o) \/ FrameLost
    BY <1>5 DEF RtCycle, Decoded
  <2> HIDE DEF o
  <2>4. DriveLag' /\ (o.cw = CW_ENABLE /\ Off => Off')
    BY <1>0, <2>2, <2>3, LagFrame
  <2>5. Moving' => MotionRuns(Decoded)
    BY <2>1 DEF Moving, MotionRuns
  <2>6. Moving' => Off
    <3>1. SUFFICES ASSUME Moving' PROVE Off
      OBVIOUS
    <3>2. ~loc.failed /\ loc.cmd.motion.type = "Position" /\ loc.cmd.seq = "Enable"
      BY <1>0, <2>1, <3>1 DEF Moving, SeqFailed, PositionCommand
    <3>3. CASE loc.done
      BY <1>0, <3>2, <3>3 DEF Moving
    <3>4. CASE ~loc.done
      <4>1. SequenceReached("Enable", Decoded)
        BY <2>1, <3>1, <3>2, <3>4 DEF Moving, SeqDone
      <4>2. Decoded = "OperationEnabled"
        BY <4>1 DEF SequenceReached
      <4> QED BY <1>0, <4>2 DEF DriveLag
    <3> QED BY <3>3, <3>4
  <2> QED BY <1>0, <1>a, <2>1, <2>2, <2>4, <2>5, <2>6 DEF PositionCommand
<1> QED BY <1>1, <1>2, <1>3, <1>4, <1>5, Steps

(* The step in which the drive gets power is a cycle of the real-time      *)
(* thread that works on the position the drive has.                        *)
LEMMA PowerOnStep ==
  ASSUME TypeOK, LagInv, [Next]_vars,
         drv.state # "OperationEnabled", drv'.state = "OperationEnabled"
  PROVE  drv'.pos = drv.pos
<1>0. drv \in Drives /\ drv.state \in DriveStates \ {"QuickStopActive"} /\ drv.mode = "CSP"
  BY DEF TypeOK, Drives, LagInv
<1>1. ASSUME NEW o \in Outputs, DriveFrame(o), o.cw \in SequenceWords, o.mode \in {"0", "CSP"}
      PROVE  drv.state = "SwitchedOn" /\ o.cw = CW_ENABLE /\ drv'.pos = InRange(o.tpos)
  <2>1. drv'.state = DriveReacts(drv.state, drv.cw, o.cw) /\ drv'.pos = InRange(o.tpos)
    BY <1>0, <1>1, FrameFields
  <2> QED BY <1>0, <1>1, <2>1, DriveFollows
<1>2. CASE RtSetup \/ RtOut
  <2>1. /\ OutputsZero \in Outputs /\ OutputsZero.cw = CW_ZERO /\ OutputsZero.mode = "0"
        /\ CW_ZERO \in SequenceWords /\ CW_ZERO # CW_ENABLE
    BY FixedTypes DEF OutputsZero, SequenceWords, CW_ZERO, CW_ENABLE
  <2>2. DriveFrame(OutputsZero) \/ drv' = drv
    BY <1>2 DEF RtSetup, RtOut, FrameLost
  <2> QED BY <1>1, <2>1, <2>2
<1>3. ASSUME NEW d \in BOOLEAN, RtCycle(d) PROVE drv'.pos = drv.pos
  <2> DEFINE o == CycleOutputs(Decoded)
  <2>1. /\ o \in Outputs /\ o.cw \in SequenceWords /\ o.mode \in {"0", "CSP"}
        /\ ~MotionRuns(Decoded) /\ Decoded # "OperationEnabled" => o.tpos = inp.pos
    BY CycleWords
  <2>2. DriveFrame(o) \/ drv' = drv
    BY <1>3 DEF RtCycle, Decoded, FrameLost
  <2> HIDE DEF o
  <2>3. drv.state = "SwitchedOn" /\ drv'.pos = InRange(o.tpos)
    BY <1>1, <2>1, <2>2
  <2>4. Decoded # "OperationEnabled" /\ drv.pos = inp.pos
    BY <2>3 DEF LagInv
  <2>5. ~MotionRuns(Decoded)
    <3>1. SUFFICES ASSUME MotionRuns(Decoded) PROVE FALSE
      OBVIOUS
    <3>2. loc.cmd.motion.type = "Position" /\ loc.cmd.seq = "Enable" /\ ~loc.failed
      BY <3>1 DEF MotionRuns, LagInv, PositionCommand, SeqFailed
    <3>3. ~SequenceReached("Enable", Decoded)
      BY <2>4 DEF SequenceReached
    <3>4. loc.done
      BY <3>1, <3>2, <3>3 DEF MotionRuns, SeqDone
    <3> QED BY <2>3, <3>2, <3>4 DEF LagInv
  <2>6. InRange(drv.pos) = drv.pos
    BY <1>0, BackendAssumption DEF Drives, InRange, ClampLow, ClampHigh
  <2> QED BY <2>1, <2>3, <2>4, <2>5, <2>6
<1>4. CASE Drive
  <2>1. PICK s \in {"FaultReactionActive", "Fault", "SwitchOnDisabled"} :
          drv' = [drv EXCEPT !.state = s, !.vel = 0] \/ drv' = [drv EXCEPT !.state = s]
    BY <1>4 DEF Drive, DriveFault, DriveFaultReacted, DriveWatchdog
  <2> QED BY <1>0, <2>1 DEF Drives
<1>5. CASE \/ Client \/ Tick \/ Signal \/ AcceptFails \/ UNCHANGED vars \/ Handler
           \/ RtSetupFails \/ RtTop \/ RtSnapshot
  <2>1. drv' = drv
    BY <1>5 DEF Client, ClientConnect, ClientSend, ClientClose, Tick, Signal, AcceptFails, vars,
       Handler, HandlerStart, HandlerFirstStatus, HandlerLoop, HandlerRecv, HandlerRecvFails,
       HandlerApply, HandlerReply, HandlerStop, HandlerJoin, HandlerRejects, RtSetupFails, RtTop,
       RtSnapshot, driveVars
  <2> QED BY <2>1
<1> QED BY <1>2, <1>3, <1>4, <1>5 DEF Next, Rt, Terminated

(***************************************************************************)
(* For any requests that leave the drive in position mode and its          *)
(* controlword to the sequences, any timeout, lost frames and faults: when *)
(* the drive becomes Operation Enabled it stands still, wherever the axis  *)
(* was moved without power.  README.md names the jog that shows why the    *)
(* hypothesis is needed.                                                   *)
(***************************************************************************)
THEOREM ServoOnStandsStill ==
  ASSUME \A m \in Requests : PositionRequest(m)
  PROVE  Spec => PowerOnStandsStill
<1> DEFINE I == TypeOK /\ Asked /\ InForce /\ LagInv
<1>1. Init => I
  <2>1. Init => Asked
    BY DEF Init, Asked
  <2>2. Init => LagInv
    <3>1. StatusOf("SwitchOnDisabled") = {6} /\ StateFromStatus({6}) = "SwitchOnDisabled"
      BY DEF StatusOf, StateFromStatus
    <3> QED BY <3>1, SessionFields DEF Init, LagInv, DriveInit, Sample, Decoded
  <2> QED BY <2>1, <2>2, TypeInit, InForceInit
<1>2. I /\ [Next]_vars => I'
  BY TypeStep, AskedStep, InForceStep, LagStep
<1>3. I /\ [Next]_vars =>
        [(drv.state # "OperationEnabled" /\ drv'.state = "OperationEnabled") => drv'.pos = drv.pos]_vars
  BY PowerOnStep
<1> QED BY <1>1, <1>2, <1>3, PTL DEF Spec, PowerOnStandsStill
=============================================================================
