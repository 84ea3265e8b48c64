----------------------------- MODULE ProcessData ----------------------------
(***************************************************************************)
(* ecx_send_processdata_group and ecx_receive_processdata_group of         *)
(* ec_main.c: the process image travels in one frame per segment; the      *)
(* frames that were sent are remembered on the index stack, and what       *)
(* returns is copied back and its working counter added up.                *)
(*                                                                         *)
(* Data is abstracted to its age: the number of the cycle in which a byte  *)
(* was sent or received.                                                   *)
(***************************************************************************)
EXTENDS ProcessImage

CONSTANTS
  Buses,      \* the buses to try: [slaves, mode, dc]
  MaxBuf,     \* EC_MAXBUF: frames the index stack holds
  MaxCycles,  \* bound
  MaxLosses   \* bound: cycles in which a frame is lost or a slave missing

VARIABLES
  bus,       \* the bus that was found
  img,       \* grouplist[0], slavelist: the result of ecx_config_map_group
  idxstack,  \* frames sent and not yet received
  lost,      \* idx's of frames that did not fit the stack: never waited for
  cyc,       \* cycles sent
  iomap,     \* age of every byte of the IOmap and of those behind it
  outAge,    \* per slave (external): age of each byte of its outputs
  wkc,       \* result of the last ecx_receive_processdata_group, -1: EC_NOFRAME
  losses
pdvars == <<bus, img, idxstack, lost, cyc, iomap, outAge, wkc, losses>>

Slaves == 1..Len(bus.slaves)

(* Logical addresses, as sets of bytes.                                    *)
FmmuBytes(f) == f.lo..(f.lo + f.bytes - 1)
OutBytes(im, i) == UNION {FmmuBytes(im.ofmmu[i][k]) : k \in 1..Len(im.ofmmu[i])}
InBytes(im, i)  == UNION {FmmuBytes(im.ifmmu[i][k]) : k \in 1..Len(im.ifmmu[i])}
StatusBytes(im, i) == IF im.status[i] = -1 THEN {} ELSE {im.status[i]}

StartImage(b) ==
  /\ bus = b /\ img = ConfigMapGroup(b.mode, b.slaves) /\ idxstack = <<>> /\ lost = 0 /\ cyc = 0
  /\ iomap = [p \in 0..(2 * MapSize(img) + 2) |-> 0]
  /\ outAge = [i \in Slaves |-> [a \in OutBytes(img, i) |-> 0]]
  /\ wkc = 0 /\ losses = 0
PdInit == \E b \in Buses : StartImage(b)

-----------------------------------------------------------------------------
(***************************************************************************)
(* The frames of one cycle: [cmd, lo: logical address, len, data: place in *)
(* the IOmap, dc: it carries the clock].  Each of the loops of             *)
(* ecx_send_processdata_group goes on while there is length left and       *)
(* another segment; parts are the lengths that the segments offer.         *)
(***************************************************************************)
SegmentFrames(cmd, parts, length, lo, data) ==
  FoldLeft(LAMBDA t, part :
             IF t.left = 0 /\ t.frames # <<>> THEN t
             ELSE LET n == IF cmd = "LWR" THEN Least(part, t.left) ELSE part
                  IN  [left |-> t.left - n, lo |-> t.lo + n, data |-> t.data + n,
                       frames |-> Append(t.frames, [cmd |-> cmd, lo |-> t.lo, len |-> n,
                                                    data |-> t.data])],
           [left |-> length, lo |-> lo, data |-> data, frames |-> <<>>], parts).frames

BlockLrw == \E i \in Slaves : bus.slaves[i].block

ReadFrames ==
  IF img.Ibytes = 0 THEN <<>>
  ELSE LET from == SubSeq(img.segments, img.Isegment, Len(img.segments))
       IN  SegmentFrames("LRD", [from EXCEPT ![1] = @ - img.Ioffset], img.Ibytes, img.Obytes, img.Obytes)

WriteFrames ==
  IF img.Obytes = 0 THEN <<>>
  ELSE SegmentFrames("LWR", img.segments, img.Obytes, 0, 0)

ReadWriteFrames ==
  SegmentFrames("LRW", img.segments,
    (IF img.mode = "overlap" THEN Greatest(img.Obytes, img.Ibytes) ELSE img.Obytes + img.Ibytes)
      + img.mbxlength,
    0, IF img.Obytes > 0 THEN img.shift ELSE 0)

CycleFrames ==
  LET fs == IF MapSize(img) = 0 THEN <<>>
            ELSE IF BlockLrw THEN ReadFrames \o WriteFrames ELSE ReadWriteFrames
  IN  [k \in 1..Len(fs) |-> [cmd |-> fs[k].cmd, lo |-> fs[k].lo, len |-> fs[k].len,
                             data |-> fs[k].data, dc |-> bus.dc /\ k = 1]]

FrameBytes(f) == f.lo..(f.lo + f.len - 1)

(* ecx_pushindex for every frame; one that finds the stack full is sent,   *)
(* and nobody waits for it.                                                *)
SendProcessdata ==
  /\ cyc < MaxCycles /\ idxstack = <<>>
  /\ cyc' = cyc + 1
  /\ LET fs == CycleFrames
     IN  /\ idxstack' = SubSeq(fs, 1, Least(Len(fs), MaxBuf))
         /\ lost' = lost + (Len(fs) - Least(Len(fs), MaxBuf))
         /\ iomap' = [p \in DOMAIN iomap |->   \* ecx_clearmbxstatus
                        IF \E i \in Slaves : img.status[i] # -1 /\ p = StatusAt(img, i)
                        THEN 0 ELSE iomap[p]]
  /\ UNCHANGED <<bus, img, outAge, wkc, losses>>

(***************************************************************************)
(* A frame on its way (external): the slaves that are there take their     *)
(* outputs from it and put their inputs into it, and each counts.          *)
(***************************************************************************)
Reads(f, i) ==
  f.cmd # "LWR" /\ FrameBytes(f) \cap (InBytes(img, i) \cup StatusBytes(img, i)) # {}
Writes(f, i) == f.cmd # "LRD" /\ FrameBytes(f) \cap OutBytes(img, i) # {}
FrameCounter(f, there) ==
  Cardinality({i \in there : Reads(f, i)})
    + (IF f.cmd = "LWR" THEN 1 ELSE 2) * Cardinality({i \in there : Writes(f, i)})

(***************************************************************************)
(* ecx_receive_processdata_group.  fate says of each frame whether it came *)
(* through ("ok"), or was lost before ("gone") or after ("late") the       *)
(* slaves; there are the slaves that answer.  acc is [wkc, valid, iomap].  *)
(* Faulty variant: LWR counts once.                                        *)
(***************************************************************************)
CounterOfWriteOnce(f, n) == n
CounterOf(f, n) == IF f.cmd = "LWR" THEN 2 * n ELSE n

PullFrame(acc, f, there, ok) ==
  IF ~ok THEN acc
  ELSE LET n == CounterOf(f, FrameCounter(f, there))
       IN  [wkc |-> IF f.dc THEN n ELSE acc.wkc + n,
            valid |-> TRUE,
            iomap |-> IF f.cmd = "LWR" THEN acc.iomap
                      ELSE [p \in DOMAIN acc.iomap |->
                              LET a == f.lo + (p - f.data)
                              IN  IF /\ p \in f.data..(f.data + f.len - 1)
                                     /\ \E i \in there : a \in InBytes(img, i) \cup StatusBytes(img, i)
                                  THEN cyc ELSE acc.iomap[p]]]

CounterOrNoFrame(acc) == IF acc.valid THEN acc.wkc ELSE -1

ReceiveProcessdata(fate, there) ==
  /\ idxstack # <<>>
  /\ LET whole == there = Slaves /\ \A k \in DOMAIN fate : fate[k] = "ok"
         res == FoldLeft(LAMBDA acc, k : PullFrame(acc, idxstack[k], there, fate[k] = "ok"),
                         [wkc |-> 0, valid |-> FALSE, iomap |-> iomap],
                         [k \in 1..Len(idxstack) |-> k])
     IN  /\ whole \/ losses < MaxLosses
         /\ losses' = IF whole THEN losses ELSE losses + 1
         /\ wkc' = CounterOrNoFrame(res)
         /\ iomap' = res.iomap
         /\ outAge' = [i \in Slaves |-> [a \in DOMAIN outAge[i] |->
                         IF i \in there /\ \E k \in 1..Len(idxstack) :
                              /\ fate[k] # "gone" /\ idxstack[k].cmd # "LRD"
                              /\ a \in FrameBytes(idxstack[k])
                         THEN cyc ELSE outAge[i][a]]]
  /\ idxstack' = <<>>
  /\ UNCHANGED <<bus, img, lost, cyc>>

PdNext ==
  \/ SendProcessdata
  \/ \E fate \in [1..Len(idxstack) -> {"ok", "gone", "late"}], there \in SUBSET Slaves :
       ReceiveProcessdata(fate, there)

-----------------------------------------------------------------------------
(* What a program compares the counter with (the DLL, lms_master and the   *)
(* samples).                                                               *)
ExpectedWkc == img.outputsWKC * 2 + img.inputsWKC

(* Cases in which the code's count is known to be off; see the README.     *)
SharedBytes == img.mode = "packed"
BitInputsWithMailbox == \E i \in Slaves : bus.slaves[i].in \in 1..7 /\ img.status[i] # -1
SegmentEnd(k) == FoldLeft(LAMBDA x, y : x + y, 0, SubSeq(img.segments, 1, k))
SegmentOf(a) ==
  CHOOSE k \in 1..Len(img.segments) : SegmentEnd(k - 1) <= a /\ a < SegmentEnd(k)
StatusApart ==
  \E i \in Slaves : img.status[i] # -1 /\ InBytes(img, i) # {} /\
    SegmentOf(img.status[i]) \notin {SegmentOf(a) : a \in InBytes(img, i)}
StatusUnread ==
  \E i \in Slaves : img.status[i] # -1 /\ BlockLrw /\
    \A k \in 1..Len(ReadFrames) : img.status[i] \notin FrameBytes(ReadFrames[k])
LongFromMiddle ==
  \E i \in Slaves, k \in 1..(Len(img.segments) - 1) :
    \E bytes \in {OutBytes(img, i), InBytes(img, i)} :
      /\ SegmentEnd(k) \in bytes
      /\ \/ /\ SegmentEnd(k) - 1 \notin bytes
            /\ Cardinality(bytes) > (IF k = 1 THEN MaxLrw - FirstDc ELSE MaxLrw)
         \/ /\ SegmentEnd(k) - 1 \in bytes /\ SegmentEnd(k - 1) \notin bytes
            /\ img.mode = "overlap"
Counted ==
  ~(SharedBytes \/ BitInputsWithMailbox \/ StatusApart \/ StatusUnread \/ LongFromMiddle)

(* The mapping of ecx_config_map_group: the process data of a slave lies   *)
(* in the IOmap in one piece, in the order of its sync managers, inside    *)
(* the part of its direction, and no two slaves share a bit of it.         *)
BitsOf(fs) ==
  UNION {{8 * fs[k].lo + fs[k].bit + b : b \in 0..(fs[k].bits - 1)} : k \in 1..Len(fs)}
InOrder(sm, bits, fs) ==
  bits > 7 => \A k \in 1..Len(fs), b \in 0..(Bytes(bits) - 1) :
    LET Before(j) == FoldLeft(LAMBDA x, y : x + y.len, 0, SubSeq(sm, 1, j - 1))
        a == fs[1].lo + b
    IN  a \in FmmuBytes(fs[k]) =>
          \E j \in 1..Len(sm) :
            /\ b \in Before(j)..(Before(j) + sm[j].len - 1)
            /\ fs[k].phys + (a - fs[k].lo) = sm[j].start + (b - Before(j))
RegionsAreOwn ==
  /\ \A i \in Slaves :
       LET s == bus.slaves[i] IN
       /\ Cardinality(BitsOf(img.ofmmu[i])) = (IF s.out <= 7 THEN s.out ELSE 8 * Bytes(s.out))
       /\ Cardinality(BitsOf(img.ifmmu[i])) = (IF s.in <= 7 THEN s.in ELSE 8 * Bytes(s.in))
       /\ InOrder(s.osm, s.out, img.ofmmu[i]) /\ InOrder(s.ism, s.in, img.ifmmu[i])
       /\ img.mode # "overlap" =>
            OutBytes(img, i) \subseteq 0..(img.Obytes - 1)
            /\ InBytes(img, i) \subseteq img.Obytes..(img.Obytes + img.Ibytes - 1)
  /\ \A i, j \in Slaves : i # j =>
       /\ BitsOf(img.ofmmu[i]) \cap BitsOf(img.ofmmu[j]) = {}
       /\ BitsOf(img.ifmmu[i]) \cap BitsOf(img.ifmmu[j]) = {}

(* Every byte of the image travels in exactly one frame of each kind, and  *)
(* no frame is longer than an Ethernet frame holds, the clock's datagram   *)
(* included.                                                               *)
FramesCover ==
  LET fs == CycleFrames
      Once(cmds, a) == Cardinality({k \in 1..Len(fs) : fs[k].cmd \in cmds /\ a \in FrameBytes(fs[k])}) = 1
  IN  Len(img.segments) <= MaxSegments =>
      /\ \A k \in 1..Len(fs) : fs[k].len <= MaxLrw - (IF fs[k].dc THEN FirstDc ELSE 0)
      /\ \A i \in Slaves :
           /\ \A a \in OutBytes(img, i) : Once({"LRW", "LWR"}, a)
           /\ \A a \in InBytes(img, i) : Once({"LRW", "LRD"}, a)

(* ecx_config_map_group: "@return IOmap size".  What a frame brings back   *)
(* is written inside that size (not so in the overlapping map, where the   *)
(* longer of outputs and inputs is stored behind the outputs).             *)
WritesInsideMap ==
  img.mode # "overlap" =>
    \A k \in 1..Len(idxstack) :
      idxstack[k].cmd # "LWR" => idxstack[k].data + idxstack[k].len <= MapSize(img)

(* The process image that ecx_config_map_group lays out and the frames     *)
(* that carry it: regions of their own, each byte in one frame, and no     *)
(* frame that writes outside the map.                                      *)
ImageIsSound == RegionsAreOwn /\ FramesCover /\ WritesInsideMap

(* A counter that reaches the expected one says that the cycle was whole:  *)
(* every input in the IOmap, where the program looks for it, and every     *)
(* output in a slave is of this cycle.                                     *)
FullCounterIsFresh ==
  idxstack = <<>> /\ cyc > 0 /\ lost = 0 /\ wkc >= ExpectedWkc /\ Counted /\ MapSize(img) > 0 =>
    \A i \in Slaves :
      /\ \A a \in OutBytes(img, i) : outAge[i][a] = cyc
      /\ \A a \in InBytes(img, i) : iomap[InputsAt(img, i) + (a - img.ifmmu[i][1].lo)] = cyc

(* ecx_mbxhandler looks at the mailbox status of this cycle.               *)
StatusIsFresh ==
  idxstack = <<>> /\ cyc > 0 /\ lost = 0 /\ losses = 0 /\ img.mode # "overlap" /\ ~StatusUnread =>
    \A i \in Slaves : img.status[i] # -1 => iomap[StatusAt(img, i)] = cyc

(* A whole cycle reaches the expected counter: no false alarm.             *)
WholeCycleCounts ==
  idxstack # <<>> /\ idxstack' = <<>> /\ losses' = losses /\ Counted /\ lost = 0
    => wkc' = ExpectedWkc

(* After ecx_receive_processdata the program may rely on the counter and   *)
(* the IOmap: the counter reaches the expected one when and only when the  *)
(* cycle was whole, and the mailbox status belongs to this cycle, whatever *)
(* frames were lost in this cycle and before.                              *)
CounterIsTrue == [][FullCounterIsFresh' /\ StatusIsFresh' /\ WholeCycleCounts]_pdvars
=============================================================================
