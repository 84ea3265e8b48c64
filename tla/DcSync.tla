------------------------------- MODULE DcSync -------------------------------
(***************************************************************************)
(* ecx_dcsync0 and ecx_dcsync01 of ec_dc.c: a slave whose clock is set     *)
(* gets the time of its first pulse and the cycle of the others, one slave *)
(* after the other and at any time.                                        *)
(***************************************************************************)
EXTENDS Integers, Sequences

CONSTANTS
  Networks,    \* the networks to try: sequences of slaves, as in DistClock
  SyncDelay,   \* SyncDelay of ec_dc.c
  Cycles,      \* CyclTime and CyclTime1 to try
  Shifts,      \* CyclShift to try
  MaxTime      \* bound: system time

ASSUME SyncAssumption ==
  SyncDelay \in Nat /\ Cycles \subseteq Nat /\ Shifts \subseteq Int /\ MaxTime \in Nat

VARIABLES
  net,    \* the network; net[i].dc: slave i has a clock
  now,    \* system time of the slaves, once their clocks are set
  sync    \* per slave: DCactive, DCshift, the register DCSTART0, and the cycle
          \* that it was computed with: that of the pulses the slave gives
syncvars == <<net, now, sync>>

(* The true cycle of SYNC0 and SYNC1, and the first pulse: a multiple of   *)
(* the cycle after t1, shifted.  Faulty variant first: it does not round.  *)
TrueCycle(c0, c1) == ((c1 \div c0) + 1) * c0
FirstPulseAtOnce(t1, cycle, shift) == t1 + SyncDelay + shift
FirstPulse(t1, cycle, shift) ==
  IF cycle > 0 THEN ((t1 + SyncDelay) \div cycle) * cycle + cycle + shift
  ELSE t1 + SyncDelay + shift

Inactive == [active |-> FALSE, start |-> 0, shift |-> 0, cycle |-> 0]

Pulses(act, t1, cycle, shift) ==
  [active |-> act, start |-> FirstPulse(t1, cycle, shift), shift |-> shift, cycle |-> cycle]

(* t1 is what ecx_FPRD brings: the system time, or 0 when it failed, which *)
(* nobody looks at.                                                        *)
DcSync0(i, act, t1, cycle, shift) ==
  net[i].dc /\ sync' = [sync EXCEPT ![i] = Pulses(act, t1, cycle, shift)]

(* Called with CyclTime0 > 0: the division does not look.                  *)
DcSync01(i, act, t1, c0, c1, shift) ==
  net[i].dc /\ c0 > 0 /\ sync' = [sync EXCEPT ![i] = Pulses(act, t1, TrueCycle(c0, c1), shift)]

StartPulses(network) ==
  /\ net = network
  /\ now = 0 /\ sync = [i \in 1..Len(net) |-> Inactive]

TimePasses == now < MaxTime /\ now' = now + 1 /\ UNCHANGED sync

PulseNext ==
  /\ \/ TimePasses
     \/ /\ \E i \in 1..Len(net), act \in BOOLEAN, t1 \in {0, now}, c \in Cycles, s \in Shifts :
             DcSync0(i, act, t1, c, s) \/ \E c1 \in Cycles : DcSync01(i, act, t1, c, c1, s)
        /\ UNCHANGED now
  /\ UNCHANGED net

PulseInit == \E network \in Networks : StartPulses(network)
PulseSpec == PulseInit /\ [][PulseNext]_syncvars

(* ec_dc.c:57: "slaves with the same CyclTime will sync at the same        *)
(* moment": whenever they were started, with SYNC1 or without, and also    *)
(* when their time could not be read, their pulses fall together.          *)
PulsesTogether ==
  \A i, j \in 1..Len(net) :
    /\ sync[i].active /\ sync[j].active
    /\ sync[i].cycle = sync[j].cycle /\ sync[i].shift = sync[j].shift
    /\ sync[i].cycle > 0
    => (sync[i].start - sync[j].start) % sync[i].cycle = 0
=============================================================================
