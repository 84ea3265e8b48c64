------------------------------- MODULE PdoMap -------------------------------
(***************************************************************************)
(* ecx_readPDOmap and ecx_readPDOmapCA of ec_coe.c with ecx_readPDOassign  *)
(* and ecx_readPDOassignCA: the size of a slave's process data, added up   *)
(* from its object dictionary.  0x1C00 says what each sync manager is for, *)
(* 0x1C10 + SM which PDOs it carries, a PDO which entries of how many bits.*)
(* Each step is one ecx_SDOread, which gives all of the object or nothing  *)
(* (Transfers); only the first and that of a type are checked, any other   *)
(* that fails reads as 0.                                                  *)
(*                                                                         *)
(* The slave is external: [types: what it says of its sync managers; use:  *)
(* what they are, "out", "in" or "no"; assign: the PDOs of each, 0 for an  *)
(* empty place; ca: it has Complete Access].  The types may be one too     *)
(* small, or 0 where there are process data, both known slave bugs.        *)
(***************************************************************************)
EXTENDS Integers, Sequences, SequencesExt

CONSTANTS
  Dictionaries,  \* the slaves to try
  PdoBits,       \* the entries of each PDO: sequences of bit sizes
  MaxMapSm,      \* EC_MAXSM
  MaxReadLoss    \* bound: failed reads

VARIABLES
  dict,  \* the slave (external)
  pm     \* [pc, sm: iSM, add: SMt_bug_add, type: tSM, pdo, entry: loop counters, entries, bits: Tsize,
         \*  osize, isize, types: SMtype, len: SMlength in bytes, off: disabled by SMflags; lost: history]
pmvars == <<dict, pm>>

StartMap(d) ==
  /\ dict = d
  /\ pm = [pc |-> "count", sm |-> 2, add |-> 0, type |-> 0, pdo |-> 1, entry |-> 1, entries |-> <<>>,
           bits |-> 0, osize |-> 0, isize |-> 0, types |-> [i \in 0..(MaxMapSm - 1) |-> 0],
           len |-> [i \in 0..(MaxMapSm - 1) |-> 0], off |-> {}, lost |-> 0]
MapInit == \E d \in Dictionaries : StartMap(d)

SmCount == IF Len(dict.types) > MaxMapSm THEN MaxMapSm ELSE Len(dict.types)
SumBits(s) == FoldLeft(LAMBDA x, y : x + y, 0, s)

(* A read: next with the value, or next with nothing.                      *)
Got(next) == pm' = next
Missed(next) == pm.lost < MaxReadLoss /\ pm' = [next EXCEPT !.lost = @ + 1]
ReadOr(ok, then, else) == UNCHANGED dict /\ IF ok THEN Got(then) ELSE Missed(else)
-----------------------------------------------------------------------------
(* The next sync manager, or the end.                                      *)
NextSm(p) == IF p.sm + 1 < SmCount THEN [p EXCEPT !.sm = @ + 1, !.pc = "type"] ELSE [p EXCEPT !.pc = "done"]

(* The number of sync managers, in Complete Access with their types; only  *)
(* what comes after the two of the mailbox matters.                        *)
ReadSmCommType(ok) ==
  /\ pm.pc = "count"
  /\ ReadOr(ok, [pm EXCEPT !.pc = IF Len(dict.types) > 2 THEN "type" ELSE "done"], [pm EXCEPT !.pc = "done"])

(* The type of this sync manager, corrected: 2 for SM2 is one too small,   *)
(* and so are the others then; 0 for SM2 or SM3 is outputs or inputs, but  *)
(* not in Complete Access.  Faulty variant: only SM2 is corrected.         *)
Added(t) == IF pm.sm = 2 /\ t = 2 THEN 1 ELSE pm.add
CorrectedOnce(t) ==
  CASE t # 0 -> t + (IF pm.sm = 2 /\ t = 2 THEN 1 ELSE 0)
    [] t = 0 /\ ~dict.ca /\ pm.sm \in {2, 3} -> pm.sm + 1
    [] OTHER -> 0
Corrected(t) ==
  CASE t # 0 -> t + Added(t)
    [] t = 0 /\ ~dict.ca /\ pm.sm \in {2, 3} -> pm.sm + 1
    [] OTHER -> 0
Typed(t) ==
  LET p == [pm EXCEPT !.add = Added(t), !.type = Corrected(t), !.types[pm.sm] = Corrected(t), !.bits = 0,
                       !.off = IF Corrected(t) = 0 THEN @ \cup {pm.sm} ELSE @]
  IN  IF Corrected(t) \in {3, 4} THEN [p EXCEPT !.pc = "assign"] ELSE NextSm(p)
ReadType(ok) ==
  /\ pm.pc = "type" /\ (dict.ca => ok)
  /\ ReadOr(ok, Typed(dict.types[pm.sm + 1]), NextSm(pm))

(* A sync manager is done: its length, if it has data at all.              *)
SmDone(p) ==
  NextSm(IF p.bits = 0 THEN p
         ELSE [p EXCEPT !.len[p.sm] = (p.bits + 7) \div 8,
                        !.osize = IF p.type = 3 THEN @ + p.bits ELSE @,
                        !.isize = IF p.type = 4 THEN @ + p.bits ELSE @])

Assigned == dict.assign[pm.sm + 1]
NextPdo(p) == IF p.pdo < Len(Assigned) THEN [p EXCEPT !.pdo = @ + 1, !.pc = "pdo"] ELSE SmDone(p)

(* ecx_readPDOassign and ecx_readPDOassignCA: the number of PDOs, in       *)
(* Complete Access with their indexes.                                     *)
ReadAssignCount(ok) ==
  /\ pm.pc = "assign"
  /\ ReadOr(ok, IF Len(Assigned) > 0 THEN [pm EXCEPT !.pc = "pdo", !.pdo = 1] ELSE SmDone(pm), SmDone(pm))

(* One PDO: its index, ...                                                 *)
ReadPdoIndex(ok) ==
  /\ pm.pc = "pdo" /\ ~dict.ca
  /\ ReadOr(ok, IF Assigned[pm.pdo] > 0 THEN [pm EXCEPT !.pc = "entries"] ELSE NextPdo(pm), NextPdo(pm))

(* ... the number of its entries, ...                                      *)
ReadEntryCount(ok) ==
  LET e == PdoBits[Assigned[pm.pdo]] IN
  /\ pm.pc = "entries"
  /\ ReadOr(ok, IF e # <<>> THEN [pm EXCEPT !.pc = "entry", !.entry = 1, !.entries = e] ELSE NextPdo(pm),
            NextPdo(pm))

(* ... and the entries.  A value that cannot be read counts as 0.        *)
EntryDone(bits) ==
  LET p == [pm EXCEPT !.bits = @ + bits]
  IN  IF pm.entry < Len(pm.entries) THEN [p EXCEPT !.entry = @ + 1] ELSE NextPdo(p)
ReadEntry(ok) ==
  pm.pc = "entry" /\ ReadOr(ok, EntryDone(pm.entries[pm.entry]), EntryDone(0))

(* In Complete Access: a whole PDO.                                        *)
ReadPdoCA(ok) ==
  /\ pm.pc = "pdo" /\ dict.ca
  /\ IF Assigned[pm.pdo] = 0 THEN ok /\ Got(NextPdo(pm)) /\ UNCHANGED dict
     ELSE ReadOr(ok, NextPdo([pm EXCEPT !.bits = @ + SumBits(PdoBits[Assigned[pm.pdo]])]), NextPdo(pm))

MapNext ==
  \E ok \in BOOLEAN :
    \/ ReadSmCommType(ok) \/ ReadType(ok) \/ ReadAssignCount(ok)
    \/ ReadPdoIndex(ok) \/ ReadEntryCount(ok) \/ ReadEntry(ok) \/ ReadPdoCA(ok)
-----------------------------------------------------------------------------
(* What the slave means.                                                   *)
SmBits(i) ==
  SumBits([k \in 1..Len(dict.assign[i + 1]) |->
             IF dict.assign[i + 1][k] = 0 THEN 0 ELSE SumBits(PdoBits[dict.assign[i + 1][k]])])
TrueSize(use) == SumBits([i \in 1..SmCount |-> IF i > 2 /\ dict.use[i] = use THEN SmBits(i - 1) ELSE 0])
Untyped == \E i \in {3, 4} : i <= SmCount /\ dict.use[i] # "no" /\ dict.types[i] = 0
Shifted == SmCount > 2 /\ dict.types[3] = 2

(* When no read fails, the sizes are those of the PDOs of all sync         *)
(* managers of a direction, one by one and in Complete Access, and for     *)
(* slaves whose types are one too small or missing.  (Missing types are    *)
(* not corrected in Complete Access.)                                      *)
SizesAreTrue ==
  pm.pc = "done" /\ pm.lost = 0 /\ ~(dict.ca /\ Untyped) =>
    /\ pm.osize = TrueSize("out") /\ pm.isize = TrueSize("in")
    /\ \A i \in 2..(SmCount - 1) : dict.use[i + 1] # "no" =>
         pm.len[i] = (SmBits(i) + 7) \div 8 /\ i \notin pm.off

(* When reads fail the sizes are too small, and the caller is not told, but*)
(* never too large: no other object's value is counted, and inputs never   *)
(* count as outputs.  (They do when the types are one too small and it is  *)
(* the type of SM2 that could not be read.)                                *)
SizesAreNotTooLarge ==
  ~(Shifted /\ pm.lost > 0) => pm.osize <= TrueSize("out") /\ pm.isize <= TrueSize("in")
=============================================================================
