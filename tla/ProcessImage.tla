---------------------------- MODULE ProcessImage ----------------------------
(***************************************************************************)
(* ecx_config_map_group of ec_config.c as a function of the slaves found:  *)
(* where the outputs, inputs and mailbox status of each slave lie in the   *)
(* logical addresses and in the IOmap, in which segments (datagrams) they  *)
(* travel, and the working counter to expect.                              *)
(*                                                                         *)
(* A slave is [out, in: bits of process data; osm, ism: its sync managers  *)
(* for outputs and inputs, a sequence of [start, len] in bytes; mbx: it    *)
(* has a mailbox; block: it must not be sent LRW].  The mode is "plain",   *)
(* "packed" or "overlap"; group 0 is mapped, which begins at address 0.    *)
(***************************************************************************)
EXTENDS Integers, Sequences, FiniteSets, SequencesExt, FiniteSetsExt

CONSTANTS
  MaxLrw,       \* EC_MAXLRWDATA
  FirstDc,      \* EC_FIRSTDCDATAGRAM
  MaxSegments,  \* EC_MAXIOSEGMENTS
  MaxFmmu       \* EC_MAXFMMU

ASSUME SegmentAssumption ==
  /\ MaxLrw \in Nat /\ FirstDc \in Nat /\ 0 < FirstDc /\ FirstDc < MaxLrw
  /\ MaxSegments \in Nat \ {0} /\ MaxFmmu \in Nat \ {0}

Bytes(bits) == (bits + 7) \div 8
Least(a, b) == IF a < b THEN a ELSE b
Greatest(a, b) == IF a > b THEN a ELSE b

(* A cursor in the logical addresses: LogAddr and BitPos.                  *)
Cursor(log, bit) == [log |-> log, bit |-> bit]
Aligned(c) == IF c.bit # 0 THEN Cursor(c.log + 1, 0) ELSE c
Skip(c, bits) == Cursor(c.log + (c.bit + bits) \div 8, (c.bit + bits) % 8)

-----------------------------------------------------------------------------
(***************************************************************************)
(* ecx_config_create_output_mappings and ecx_config_create_input_mappings: *)
(* one FMMU for the sync managers that adjoin, until the bytes are done.   *)
(* m is [k: the next sync manager, bytes: ByteCount, which runs on from    *)
(* one FMMU to the next, done: FMMUdone, at: cursor, fmmus].               *)
(***************************************************************************)
RECURSIVE Adjoining(_, _, _, _)
Adjoining(sm, bits, k, bytes) ==
  IF /\ k <= Len(sm) /\ bytes * 8 < bits
     /\ k > 1 => sm[k].start <= sm[k - 1].start + sm[k - 1].len
  THEN Adjoining(sm, bits, k + 1, bytes + sm[k].len) ELSE [k |-> k, bytes |-> bytes]

Fmmu(sm, k, lo, bit, bits, bytes) ==
  [phys |-> sm[k].start, lo |-> lo, bit |-> bit, bits |-> bits, bytes |-> bytes]

RECURSIVE CreateMappings(_, _, _)
CreateMappings(sm, bits, m) ==
  IF m.done >= Bytes(bits) \/ m.k > Len(sm) THEN m
  ELSE LET more == Adjoining(sm, bits, m.k + 1, m.bytes + sm[m.k].len)
           c == m.at
       IN  IF bits <= 7
           THEN LET end  == Skip(c, bits - 1)
                    size == end.log - c.log + 1
                IN  CreateMappings(sm, bits,
                      [k |-> more.k, bytes |-> more.bytes, done |-> m.done + size,
                       at |-> Skip(end, 1),
                       fmmus |-> Append(m.fmmus, Fmmu(sm, m.k, c.log, c.bit, bits, size))])
           ELSE LET b == Aligned(c)
                    size == Least(more.bytes, Bytes(bits) - m.done)
                IN  CreateMappings(sm, bits,
                      [k |-> more.k, bytes |-> more.bytes, done |-> m.done + size,
                       at |-> Cursor(b.log + size, 0),
                       fmmus |-> Append(m.fmmus, Fmmu(sm, m.k, b.log, 0, 8 * size, size))])

Mapped(sm, bits, c) ==
  CreateMappings(sm, bits, [k |-> 1, bytes |-> 0, done |-> 0, at |-> c, fmmus |-> <<>>])

-----------------------------------------------------------------------------
(***************************************************************************)
(* The segments.  g is [closed: IOsegment so far, size: segmentsize,       *)
(* max: segmentmaxsize, wkc: the counter of the direction being mapped].   *)
(* n bytes of one slave are put in; a slave that fits into a segment is    *)
(* not split.                                                              *)
(***************************************************************************)
RECURSIVE SplitSegments(_)
SplitSegments(g) ==
  IF g.size > g.max /\ Len(g.closed) < MaxSegments
  THEN SplitSegments([closed |-> Append(g.closed, g.max), size |-> g.size - g.max,
                      max |-> MaxLrw, wkc |-> g.wkc + 1])
  ELSE g

CloseSegment(g) == [g EXCEPT !.closed = Append(@, g.size), !.size = 0, !.max = MaxLrw]

AddBytes(g, n) ==
  LET a == IF g.size + n > g.max /\ n <= g.max /\ Len(g.closed) < MaxSegments
           THEN CloseSegment(g) ELSE g
      b == SplitSegments([a EXCEPT !.size = @ + n])
  IN  IF b.size # 0 /\ n # 0 THEN [b EXCEPT !.wkc = @ + 1] ELSE b

(* The padding after the last bits of a direction.                         *)
AddPadding(g) ==
  LET a == IF g.size + 1 > g.max /\ Len(g.closed) < MaxSegments
           THEN [CloseSegment(g) EXCEPT !.wkc = @ + 1] ELSE g
  IN  [a EXCEPT !.size = @ + 1]

(* One direction of ecx_main_config_map_group.  r is [g, at, old: oLogAddr *)
(* and fmmus: per slave].  Faulty variant: the bits of the byte begun by   *)
(* the slave before are forgotten.                                         *)
MapSlaveFromByte(mode, sm, bits, r) ==
  IF bits = 0 THEN [r EXCEPT !.fmmus = Append(@, <<>>)]
  ELSE LET m  == Mapped(sm, bits, Cursor(r.old, 0))
           at == IF mode = "packed" THEN m.at ELSE Aligned(m.at)
       IN  [g |-> AddBytes(r.g, at.log - r.old), at |-> at, old |-> at.log,
            fmmus |-> Append(r.fmmus, m.fmmus)]
MapSlave(mode, sm, bits, r) ==
  IF bits = 0 THEN [r EXCEPT !.fmmus = Append(@, <<>>)]
  ELSE LET m  == Mapped(sm, bits, r.at)
           at == IF mode = "packed" THEN m.at ELSE Aligned(m.at)
       IN  [g |-> AddBytes(r.g, at.log - r.old), at |-> at, old |-> at.log,
            fmmus |-> Append(r.fmmus, m.fmmus)]

MapDirection(mode, slaves, sm, bits, r) ==
  LET all == FoldLeft(LAMBDA acc, s : MapSlave(mode, s[sm], s[bits], acc),
                      [r EXCEPT !.fmmus = <<>>], slaves)
  IN  IF all.at.bit = 0 THEN all
      ELSE [all EXCEPT !.at = Aligned(@), !.old = @ + 1, !.g = AddPadding(@)]

(* The outputs of all slaves are mapped first, with SMtype 3, and then the *)
(* inputs, with SMtype 4.                                                  *)
MapOutputs(mode, slaves, r) == MapDirection(mode, slaves, "osm", "out", r)
MapInputs(mode, slaves, r)  == MapDirection(mode, slaves, "ism", "in", r)

(* ecx_config_create_mbxstatus_mappings for every slave: one byte each,    *)
(* while the slave has an FMMU left.  q is [at, closed, size, where: per   *)
(* slave its address or -1, wkc].                                          *)
AddStatus(s, used, q) ==
  LET has == s.mbx /\ used < MaxFmmu
      n == IF has THEN 1 ELSE 0
      full == q.size + n > MaxLrw - FirstDc
  IN  [at |-> q.at + n,
       where |-> Append(q.where, IF has THEN q.at ELSE -1),
       wkc |-> q.wkc + (IF has /\ s.in <= 7 THEN 1 ELSE 0),
       closed |-> IF full /\ Len(q.closed) < MaxSegments - 1 THEN Append(q.closed, q.size)
                  ELSE q.closed,
       size |-> IF full THEN IF Len(q.closed) < MaxSegments - 1 THEN n ELSE q.size
                ELSE q.size + n]

MapStatus(slaves, outs, ins, q) ==
  FoldLeft(LAMBDA acc, i : AddStatus(slaves[i], Len(outs[i]) + Len(ins[i]), acc), q,
           [i \in 1..Len(slaves) |-> i])

(* The first datagram leaves room for the clock's.                        *)
NewSegment == [closed |-> <<>>, size |-> 0, max |-> MaxLrw - FirstDc, wkc |-> 0]

(* ecx_main_config_map_group: outputs (o), inputs (i), mailbox status (q). *)
ImageOf(mode, o, i, q) ==
  [mode |-> mode, Obytes |-> o.at.log, Ibytes |-> i.at.log - o.at.log,
   mbxlength |-> q.at - i.at.log,
   segments |-> Append(q.closed, q.size),
   Isegment |-> Len(o.g.closed) + 1, Ioffset |-> o.g.size,
   outputsWKC |-> o.g.wkc, inputsWKC |-> i.g.wkc + q.wkc,
   ofmmu |-> o.fmmus, ifmmu |-> i.fmmus, status |-> q.where, shift |-> 0]

StatusAfter(mode, slaves, o, i) ==
  ImageOf(mode, o, i,
    MapStatus(slaves, o.fmmus, i.fmmus,
      [at |-> i.at.log, closed |-> i.g.closed, size |-> i.g.size, where |-> <<>>, wkc |-> 0]))

InputsAfter(mode, slaves, o) ==
  StatusAfter(mode, slaves, o, MapInputs(mode, slaves, [o EXCEPT !.g.wkc = 0]))

MainMap(mode, slaves) ==
  InputsAfter(mode, slaves,
    MapOutputs(mode, slaves, [g |-> NewSegment, at |-> Cursor(0, 0), old |-> 0, fmmus |-> <<>>]))

-----------------------------------------------------------------------------
(***************************************************************************)
(* ecx_config_overlap_map_group: the outputs and the inputs of a slave     *)
(* begin at the same address, and the inputs are stored Obytes further on  *)
(* in the IOmap.  r is [g, at, so, si, ofmmu, ifmmu], where so and si are  *)
(* the ends of the outputs and inputs of the last slave mapped.            *)
(***************************************************************************)
RECURSIVE SplitOverlap(_, _, _)
SplitOverlap(g, so, si) ==
  LET count(h) == [h EXCEPT !.owkc = @ + (IF so > 0 THEN 1 ELSE 0),
                            !.iwkc = @ + (IF si > 0 THEN 1 ELSE 0)]
  IN  IF g.size > g.max /\ Len(g.closed) < MaxSegments
      THEN SplitOverlap([count(g) EXCEPT !.closed = Append(@, g.max), !.size = g.size - g.max,
                                         !.max = MaxLrw], so - g.max, si - g.max)
      ELSE IF g.size # 0 THEN count(g) ELSE g

OverlapSlave(s, r) ==
  LET o == Mapped(s.osm, s.out, Cursor(r.at, 0))
      i == Mapped(s.ism, s.in, Cursor(r.at, 0))
      so == Aligned(o.at).log - r.at
      si == Aligned(i.at).log - r.at
      n  == Greatest(so, si)
      a  == IF r.g.size + n > r.g.max /\ n <= r.g.max /\ Len(r.g.closed) < MaxSegments
            THEN CloseSegment(r.g) ELSE r.g
  IN  [g |-> IF n = 0 THEN a ELSE SplitOverlap([a EXCEPT !.size = @ + n], so, si),
       at |-> r.at + n, so |-> r.at + so, si |-> r.at + si,
       ofmmu |-> Append(r.ofmmu, o.fmmus), ifmmu |-> Append(r.ifmmu, i.fmmus)]

OverlapMap(slaves) ==
  LET r == FoldLeft(LAMBDA acc, s : OverlapSlave(s, acc),
             [g |-> [closed |-> <<>>, size |-> 0, max |-> MaxLrw - FirstDc, owkc |-> 0, iwkc |-> 0],
              at |-> 0, so |-> 0, si |-> 0, ofmmu |-> <<>>, ifmmu |-> <<>>], slaves)
      q == MapStatus(slaves, r.ofmmu, r.ifmmu,
             [at |-> r.at, closed |-> r.g.closed, size |-> r.g.size, where |-> <<>>, wkc |-> 0])
  IN  [mode |-> "overlap", Obytes |-> r.so, Ibytes |-> r.si, mbxlength |-> q.at - r.at,
       segments |-> Append(q.closed, q.size), Isegment |-> 1, Ioffset |-> 0,
       outputsWKC |-> r.g.owkc, inputsWKC |-> r.g.iwkc + q.wkc,
       ofmmu |-> r.ofmmu, ifmmu |-> r.ifmmu, status |-> q.where, shift |-> r.so]

ConfigMapGroup(mode, slaves) == IF mode = "overlap" THEN OverlapMap(slaves) ELSE MainMap(mode, slaves)

(* The size the caller is told to provide.                                 *)
MapSize(img) == img.Obytes + img.Ibytes + img.mbxlength

(* Where the program looks for a slave's data: outputs, inputs and         *)
(* mbxstatus of ec_slavet.                                                 *)
InputsAt(img, i)  == img.ifmmu[i][1].lo + img.shift
OutputsAt(img, i) == img.ofmmu[i][1].lo
StatusAt(img, i)  == img.status[i] + (IF img.mode = "overlap" THEN img.Obytes + img.Ibytes ELSE 0)
=============================================================================
