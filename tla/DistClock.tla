----------------------------- MODULE DistClock ------------------------------
(***************************************************************************)
(* Distributed clocks: the parent of every slave, which ecx_config_init    *)
(* finds by counting links, and ecx_configdc of ec_dc.c, which computes    *)
(* from the times latched at the ports of the slaves how long a frame      *)
(* takes to each of them.  Then the pulses of DcSync are started.          *)
(*                                                                         *)
(* A network is a sequence of slaves in the order of the frame: [up: the   *)
(* slave it is connected to, or 0; port: the port of up; link: the time    *)
(* between the two; dc: it has a clock].  The frame enters a slave by port *)
(* 0 and leaves it by ports 3, 1, 2.  The network is external; the local   *)
(* clock of a slave is a number of ClockSize values, as a signed integer.  *)
(***************************************************************************)
EXTENDS DcSync, FiniteSets, SequencesExt, FiniteSetsExt

CONSTANTS
  ClockSize,   \* 2^32
  Latched,     \* local times at which the frame may reach a slave
  SyncSlaves   \* bound: pulses are started on networks of up to so many slaves

ASSUME ClockAssumption == ClockSize \in Nat /\ ClockSize > 0 /\ ClockSize % 2 = 0

VARIABLES
  first,  \* per slave: its local time when the frame reaches it
  par,    \* slavelist[].parent, found by ecx_config_init
  dcs     \* ecx_configdc: its locals and what it has put into slavelist
dcvars == <<net, first, par, dcs, now, sync>>

Signed(x) == ((x + ClockSize \div 2) % ClockSize) - ClockSize \div 2
PortOrder == <<0, 3, 1, 2>>
Children(i) == {j \in 1..Len(net) : net[j].up = i}

(* activeports and topology, from the DL status of the slave.              *)
ActivePorts(i) == {0} \cup {net[j].port : j \in Children(i)}
Topology(i) == Cardinality(ActivePorts(i))

(* The frame (external): Leaves[j] is the time it takes from its arrival   *)
(* at slave j until it leaves j for up; BackAt, from its arrival at i      *)
(* until it is back at port p of i.                                        *)
RECURSIVE Leaves(_)
Leaves(j) == MapThenSumSet(LAMBDA c : 2 * net[c].link + Leaves(c), Children(j))
Before(p) == {PortOrder[k] : k \in 1..(CHOOSE n \in 1..4 : PortOrder[n] = p)}
BackAt(i, p) ==
  MapThenSumSet(LAMBDA c : 2 * net[c].link + Leaves(c), {c \in Children(i) : net[c].port \in Before(p)})

RECURSIVE Arrival(_)
Arrival(i) ==
  IF net[i].up = 0 THEN 0
  ELSE Arrival(net[i].up) + net[i].link
         + MapThenSumSet(LAMBDA c : 2 * net[c].link + Leaves(c),
                         {c \in Children(net[i].up) : net[c].port \in Before(net[i].port) \ {net[i].port}})

-----------------------------------------------------------------------------
(* ecx_config_init: back from the slave before, counting ends and splits,  *)
(* until the counts agree.                                                 *)
RECURSIVE ParentFrom(_, _)
ParentFrom(c, count) ==
  LET t == Topology(c)
      n == count + (CASE t = 1 -> -1 [] t = 3 -> 1 [] t = 4 -> 2 [] OTHER -> 0)
  IN  IF (n >= 0 /\ t > 1) \/ c = 1 THEN c ELSE ParentFrom(c - 1, n)

Parent(i) == IF i = 1 THEN 0 ELSE ParentFrom(i - 1, 0)

(* DCrtA to DCrtD, as they are read from the slave (external), ...         *)
LatchedTimes(i) == [p \in 0..3 |-> IF net[i].dc THEN Signed(first[i] + BackAt(i, p)) ELSE 0]

(* ... and ecx_porttime.                                                   *)
PortTime(i, p) == dcs.rt[i][p]

(* ecx_prevport: the active port before p in the order of the frame.       *)
PrevPort(i, p) ==
  LET k == CHOOSE n \in 1..4 : PortOrder[n] = p
      back == [n \in 1..3 |-> PortOrder[((k - 1 - n) % 4) + 1]]
      active == {n \in 1..3 : back[n] \in ActivePorts(i)}
  IN  IF active = {} THEN p ELSE back[Min(active)]

(* The active port with the lowest time stamp, the first of them in the    *)
(* order of the frame.                                                     *)
EntryPort(i, rt) ==
  LET ks == {k \in 1..4 : PortOrder[k] \in ActivePorts(i)}
      low == {k \in ks : \A n \in ks : rt[PortOrder[k]] <= rt[PortOrder[n]]}
  IN  PortOrder[Min(low)]

(* ecx_parentport: the next port of the parent that no child has consumed. *)
OpenPort(ports) ==
  IF 3 \in ports THEN 3 ELSE IF 1 \in ports THEN 1 ELSE IF 2 \in ports THEN 2 ELSE 0

(* The nearest ancestor with a clock, and its child on the way there.      *)
RECURSIVE DcParent(_)
DcParent(i) ==
  LET p == par[i] IN IF p = 0 \/ net[p].dc THEN [parent |-> p, child |-> i] ELSE DcParent(p)

(* C rounds to zero.                                                       *)
Half(x) == IF x >= 0 THEN x \div 2 ELSE -((-x) \div 2)

(***************************************************************************)
(* The propagation delay of slave i, entered at port e, below parent p at  *)
(* port q; t are its own times.  child is i or the ancestor of i that is   *)
(* connected to p.  Faulty variant first: the branches before are not      *)
(* added.                                                                  *)
(***************************************************************************)
Dt3(p, q) == Signed(PortTime(p, q) - PortTime(p, PrevPort(p, q)))
Dt1(i, e, t, dt3) ==
  LET d == IF Topology(i) > 1 THEN Signed(t[PrevPort(i, e)] - t[e]) ELSE 0
  IN  IF d > dt3 THEN -d ELSE d
Dt2(p, q, child) ==
  LET d == IF child - p > 1 THEN Signed(PortTime(p, PrevPort(p, q)) - PortTime(p, dcs.entry[p])) ELSE 0
  IN  IF d < 0 THEN -d ELSE d

DelayOneBranch(i, e, t, p, q, child) == Half(Dt3(p, q) - Dt1(i, e, t, Dt3(p, q))) + dcs.pdelay[p]
Delay(i, e, t, p, q, child) ==
  Half(Dt3(p, q) - Dt1(i, e, t, Dt3(p, q))) + Dt2(p, q, child) + dcs.pdelay[p]

(* The loop of ecx_configdc: one slave with a clock, ...                   *)
DcSlave(i) ==
  LET t == LatchedTimes(i)
      e == EntryPort(i, t)
      up == DcParent(i)
      p == up.parent
      open == OpenPort(dcs.consumed[p])
      q == IF Topology(p) = 1 THEN dcs.entry[p] ELSE open
      own == [dcs.consumed EXCEPT ![i] = ActivePorts(i) \ {e}]
  IN  /\ dcs.at = i /\ net[i].dc
      /\ dcs' = [at |-> i + 1, hold |-> 0, prev |-> i, next |-> [dcs.next EXCEPT ![dcs.prev] = i],
                 rt |-> [dcs.rt EXCEPT ![i] = t], entry |-> [dcs.entry EXCEPT ![i] = e],
                 consumed |-> IF p = 0 THEN own ELSE [own EXCEPT ![p] = @ \ {open}],
                 pdelay |-> IF p = 0 THEN dcs.pdelay
                            ELSE [dcs.pdelay EXCEPT ![i] = Delay(i, e, t, p, q, up.child)]]

(* ... and one without: a branch without clocks consumes its port, too.    *)
PlainSlave(i) ==
  LET p == par[i]
      hold == IF p > 0 /\ Topology(p) > 2 THEN p ELSE dcs.hold
      uses == hold # 0 /\ Topology(i) = 1
      own == [dcs.consumed EXCEPT ![i] = ActivePorts(i)]
  IN  /\ dcs.at = i /\ ~net[i].dc
      /\ dcs' = [dcs EXCEPT !.at = i + 1, !.hold = IF uses THEN 0 ELSE hold,
                   !.consumed = IF uses THEN [own EXCEPT ![hold] = @ \ {OpenPort(@)}] ELSE own]

ConfigDone == dcs.at > Len(net)

-----------------------------------------------------------------------------
StartClocks(network, t) ==
  /\ StartPulses(network)
  /\ first = [i \in 1..Len(net) |-> t]
  /\ par = [i \in 1..Len(net) |-> Parent(i)]
  /\ dcs = [at |-> 1, hold |-> 0, prev |-> 0, next |-> [i \in 0..Len(net) |-> 0],
            rt |-> [i \in 1..Len(net) |-> [p \in 0..3 |-> 0]],
            entry |-> [i \in 1..Len(net) |-> 0],
            consumed |-> [i \in 0..Len(net) |-> {}],
            pdelay |-> [i \in 1..Len(net) |-> 0]]
DcInit == \E network \in Networks, t \in Latched : StartClocks(network, t)

DcNext ==
  /\ \/ /\ \E i \in 1..Len(net) : DcSlave(i) \/ PlainSlave(i)
        /\ UNCHANGED syncvars
     \/ ConfigDone /\ Len(net) <= SyncSlaves /\ PulseNext /\ UNCHANGED dcs
  /\ UNCHANGED <<first, par>>

-----------------------------------------------------------------------------
(* ecx_config_init: the counting of links finds the slave that each slave  *)
(* is connected to, in every tree.                                         *)
ParentIsTrue == \A i \in 1..Len(net) : par[i] = net[i].up

(* Two cases the times cannot tell: a fork without a clock above a clock,  *)
(* and a clock that changes its sign while the frame is below its slave.   *)
RECURSIVE Above(_)
Above(i) == IF net[i].up = 0 THEN {} ELSE {net[i].up} \cup Above(net[i].up)
ForksWithoutClock ==
  \E i \in 1..Len(net), j \in 1..Len(net) :
    net[j].dc /\ i \in Above(j) /\ ~net[i].dc /\ Topology(i) > 2
ClockTurns == \E i \in 1..Len(net) : net[i].dc /\ first[i] + Leaves(i) >= ClockSize \div 2

(* "measure propagation delays": the delay of a slave is the time from the *)
(* arrival of a frame at the first clock above it to its arrival here, on  *)
(* whatever branch it is.                                                  *)
RECURSIVE TopClock(_)
TopClock(i) == LET p == DcParent(i).parent IN IF p = 0 THEN i ELSE TopClock(p)
DelaysAreTrue ==
  ~ForksWithoutClock /\ ~ClockTurns =>
    \A i \in 1..Len(net) : net[i].dc /\ i < dcs.at => dcs.pdelay[i] = Arrival(i) - Arrival(TopClock(i))

(* ecx_config_init and ecx_configdc: what makes the clocks of a network    *)
(* one, in every tree: the parents and the delays along them.              *)
ClocksAreTrue == ParentIsTrue /\ DelaysAreTrue
=============================================================================
