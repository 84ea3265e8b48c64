------------------------------- MODULE BusScan ------------------------------
(***************************************************************************)
(* ecx_config_init of ec_config.c: the slaves are counted, addressed and   *)
(* identified from their EEPROMs, which work in parallel: each is asked    *)
(* for its next word (ecx_readeeprom1) when its last one is fetched        *)
(* (ecx_readeeprom2).  Then ecx_config_find_mappings: the size of the      *)
(* process data from CoE, from an equal slave before, or from the SII.     *)
(*                                                                         *)
(* A device (external) is [man, id, rev, ser, rx, tx, proto: words of its  *)
(* EEPROM; sm: what its SII says of sync managers, FMMUs and blockLRW;     *)
(* pdo: process data by SII; coe, soe: by its object dictionary or IDNs].  *)
(* rx is the mailbox length, 0: no mailbox; proto has 1 for CoE, 2 for SoE.*)
(***************************************************************************)
EXTENDS Integers, Sequences

CONSTANTS
  Lines,        \* the sequences of devices to try
  MaxSlaves,    \* EC_MAXSLAVE
  ScanFaults,   \* kinds of faults that may happen
  MaxScanFaults \* bound

(* ecx_lookup_prev_sii and ecx_lookup_mapping: "This is safe because SII   *)
(* mapping is constant for same slave ID."                                 *)
Eeproms == [man : Nat, id : Nat, rev : Nat, ser : Nat, rx : Nat, tx : Nat, proto : Nat,
            sm : Nat, pdo : Nat, coe : Nat, soe : Nat]
SameId(d, e) == d.man = e.man /\ d.id = e.id /\ d.rev = e.rev
SameMappings(d, e) ==
  d.sm = e.sm /\ d.pdo = e.pdo /\ d.proto = e.proto /\ d.coe = e.coe /\ d.soe = e.soe
ASSUME ScanAssumption ==
  /\ Lines \subseteq Seq(Eeproms) /\ MaxSlaves \in Nat /\ MaxScanFaults \in Nat
  /\ \A devices \in Lines : \A i, j \in 1..Len(devices) :
       SameId(devices[i], devices[j]) => SameMappings(devices[i], devices[j])

VARIABLES
  line,    \* the devices on the bus (external)
  reg,     \* per slave (external): the data register of its EEPROM interface
  list,    \* slavelist
  scan     \* [pc, at: slave, count: slavecount, faults, bad, nacked: history, slaves with a
           \* fault, and with one that is not noticed]
scanvars == <<line, reg, list, scan>>

Failed == 0     \* what a failed SII read leaves: zeros
NoSlave == [man |-> 0, id |-> 0, rev |-> 0, ser |-> 0, rx |-> 0, tx |-> 0, proto |-> 0,
            sm |-> Failed, bits |-> 0, programmed |-> FALSE, preop |-> FALSE]

StartScan(devices) ==
  /\ line = devices
  /\ reg = [i \in 1..Len(line) |-> 0]
  /\ list = [i \in 1..Len(line) |-> NoSlave]
  /\ scan = [pc |-> "detect", at |-> 1, count |-> 0, faults |-> 0, bad |-> {}, nacked |-> {}]
ScanInit == \E devices \in Lines : StartScan(devices)

Here == scan.at
(* To the next slave, or after the last one to the next loop.              *)
NextAt(pc) == IF Here < scan.count THEN [scan EXCEPT !.at = Here + 1] ELSE [scan EXCEPT !.at = 1, !.pc = pc]
ScanFine(to) == scan' = to
ScanFault(kind, to) ==
  /\ kind \in ScanFaults /\ scan.faults < MaxScanFaults
  /\ scan' = [to EXCEPT !.faults = @ + 1, !.bad = @ \cup {Here},
                         !.nacked = IF kind = "nack" THEN @ \cup {Here} ELSE @]

(* ecx_detect_slaves: "strictly less than" EC_MAXSLAVE, the master is one. *)
DetectSlaves ==
  /\ scan.pc = "detect" /\ UNCHANGED <<line, reg, list>>
  /\ \/ /\ Len(line) \in 1..(MaxSlaves - 1)
        /\ ScanFine([scan EXCEPT !.pc = "enumerate", !.count = Len(line)])
     \/ Len(line) \notin 1..(MaxSlaves - 1) /\ ScanFine([scan EXCEPT !.pc = "none"])
     \/ ScanFault("detect", [scan EXCEPT !.pc = "none"])

(* ecx_readeeprom1: the slave reads the word into its register; a command  *)
(* that is lost or not acknowledged leaves the register as it was.         *)
Ask(word, to) ==
  \/ reg' = [reg EXCEPT ![Here] = line[Here][word]] /\ ScanFine(to)
  \/ UNCHANGED reg /\ ScanFault("nack", to)

(* ecx_readeeprom2: the register, or 0.                                    *)
Fetch(word, ok) == list' = [list EXCEPT ![Here][word] = IF ok THEN reg[Here] ELSE 0]

Enumerate ==
  /\ scan.pc = "enumerate" /\ Ask("man", NextAt("man")) /\ UNCHANGED <<line, list>>

(* One loop over the slaves: the word is fetched and the next asked for.   *)
FetchAndAsk(word, then) ==
  /\ scan.pc = word /\ UNCHANGED line
  /\ \/ Fetch(word, TRUE) /\ Ask(then, NextAt(then))
     \/ Fetch(word, FALSE) /\ ScanFault("data", NextAt(then)) /\ reg' = [reg EXCEPT ![Here] = line[Here][then]]

(* The write mailbox; only who has one is asked for the read mailbox.      *)
FetchMailbox ==
  /\ scan.pc = "rx" /\ UNCHANGED line
  /\ \E ok \in BOOLEAN :
       /\ Fetch("rx", ok)
       /\ IF ok THEN IF reg[Here] > 0 THEN Ask("tx", NextAt("tx")) ELSE UNCHANGED reg /\ ScanFine(NextAt("tx"))
          ELSE UNCHANGED reg /\ ScanFault("data", NextAt("tx"))

(* The last loop does the rest for one slave after the other: the read     *)
(* mailbox, if its length is 0 as long as the other; ...                   *)
HasMailbox == list[Here].rx > 0
FetchReadMailbox ==
  /\ scan.pc = "tx" /\ UNCHANGED line
  /\ LET to == [scan EXCEPT !.pc = "proto"]
         rest(v) == list' = [list EXCEPT ![Here].tx = IF v = 0 THEN list[Here].rx ELSE v]
     IN  \/ ~HasMailbox /\ UNCHANGED <<list, reg>> /\ ScanFine(to)
         \/ HasMailbox /\ rest(reg[Here]) /\ Ask("proto", to)
         \/ HasMailbox /\ rest(0) /\ ScanFault("data", to) /\ reg' = [reg EXCEPT ![Here] = line[Here].proto]

(* ... the protocols; ...                                                  *)
FetchProtocols ==
  /\ scan.pc = "proto" /\ UNCHANGED <<line, reg>>
  /\ LET to == [scan EXCEPT !.pc = "sii"]
     IN  \/ ~HasMailbox /\ UNCHANGED list /\ ScanFine(to)
         \/ HasMailbox /\ Fetch("proto", TRUE) /\ ScanFine(to)
         \/ HasMailbox /\ Fetch("proto", FALSE) /\ ScanFault("data", to)

(* ... ecx_lookup_prev_sii: the SII of an equal slave before, "safe        *)
(* because SII is constant for same slave ID", else its own, section by    *)
(* section; then the mailboxes are programmed, the EEPROM is given to the  *)
(* slave, and PRE_OP requested.  Faulty variant: the revision is not       *)
(* compared.                                                               *)
SameSlaveAnyRev(i, j) == list[i].man = list[j].man /\ list[i].id = list[j].id
SameSlave(i, j) ==
  list[i].man = list[j].man /\ list[i].id = list[j].id /\ list[i].rev = list[j].rev
Equals(i) == {j \in 1..(i - 1) : SameSlave(j, i)}
FirstOf(set) == CHOOSE j \in set : \A k \in set : j <= k

ReadSii ==
  /\ scan.pc = "sii" /\ UNCHANGED <<line, reg>>
  /\ LET to == IF Here < scan.count THEN [scan EXCEPT !.at = Here + 1, !.pc = "tx"]
               ELSE [scan EXCEPT !.at = 1, !.pc = "coe"]
         with(sm) == list' = [list EXCEPT ![Here].sm = sm, ![Here].programmed = HasMailbox, ![Here].preop = TRUE]
     IN  IF Equals(Here) # {} THEN with(list[FirstOf(Equals(Here))].sm) /\ ScanFine(to)
         ELSE \/ with(line[Here].sm) /\ ScanFine(to)
              \/ with(Failed) /\ ScanFault("sii", to)

-----------------------------------------------------------------------------
(* ecx_map_coe_soe, one slave after the other: the object dictionary, and  *)
(* when that gives nothing the IDNs.                                       *)
MapCoeSoe(coeOk, soeOk) ==
  LET proto == list[Here].proto
      coe == IF proto % 2 = 1 /\ coeOk THEN line[Here].coe ELSE 0
      bits == IF coe = 0 /\ proto \div 2 = 1 /\ soeOk THEN line[Here].soe ELSE coe
  IN  /\ scan.pc = "coe" /\ UNCHANGED <<line, reg>>
      /\ list' = [list EXCEPT ![Here].bits = bits]
      /\ \/ coeOk /\ soeOk /\ ScanFine(NextAt("map"))
         \/ ~coeOk /\ soeOk /\ ScanFault("coe", NextAt("map"))
         \/ coeOk /\ ~soeOk /\ ScanFault("soe", NextAt("map"))

(* ecx_map_sii: only who has no mapping yet takes that of the first equal  *)
(* slave, ecx_lookup_mapping, and if that has none its own from the SII.   *)
SiiBits(copied) == IF copied # 0 THEN copied ELSE line[Here].pdo
MapWith(bits) == list' = [list EXCEPT ![Here].bits = bits] /\ ScanFine(NextAt("done"))
CopiedBits == IF Equals(Here) = {} THEN 0 ELSE list[FirstOf(Equals(Here))].bits
MapSii ==
  /\ scan.pc = "map" /\ UNCHANGED <<line, reg>>
  /\ \/ list[Here].bits # 0 /\ MapWith(list[Here].bits)
     \/ list[Here].bits = 0 /\ MapWith(SiiBits(CopiedBits))
     \/ /\ list[Here].bits = 0 /\ CopiedBits = 0 /\ UNCHANGED list
        /\ ScanFault("sii", NextAt("done"))

ScanNext ==
  \/ DetectSlaves \/ Enumerate
  \/ FetchAndAsk("man", "id") \/ FetchAndAsk("id", "rev")
  \/ FetchAndAsk("rev", "ser") \/ FetchAndAsk("ser", "rx")
  \/ FetchMailbox \/ FetchReadMailbox \/ FetchProtocols \/ ReadSii
  \/ (\E coeOk, soeOk \in BOOLEAN : MapCoeSoe(coeOk, soeOk)) \/ MapSii

-----------------------------------------------------------------------------
(* ecx_config_init: the words asked for in one loop and fetched in the     *)
(* next belong together: what is taken for a field of a slave is this word *)
(* of this slave, or 0 when it could not be read.  One case is left out:   *)
(* ecx_readeeprom2 does not look for a NACK, and takes what the word       *)
(* before left in the register.                                            *)
FieldsAreOwn ==
    \A i \in 1..Len(line) : i \notin scan.nacked =>
      /\ \A f \in {"man", "id", "rev", "ser", "rx", "proto"} : list[i][f] \in {0, line[i][f]}
      /\ list[i].tx \in {0, line[i].tx, line[i].rx}

(* None of the words by which slaves are compared was read as 0, or there  *)
(* is no slave before that looks equal.  (Otherwise failed reads may have  *)
(* made two different slaves equal.)                                       *)
Told(i) == (list[i].man # 0 /\ list[i].id # 0 /\ list[i].rev # 0) \/ Equals(i) = {}

(* "This is safe because SII is constant for same slave ID": the sync      *)
(* managers of a slave are those of its own SII, copied or not, unless a   *)
(* read failed.                                                            *)
SyncManagersAreOwn ==
  \A i \in 1..Len(line) :
    list[i].preop /\ scan.nacked = {} /\ Told(i) => list[i].sm \in {line[i].sm, Failed}

(* A slave is mapped with the size that its own object dictionary, its own *)
(* IDNs or its own SII give; a slave without a fault, with the first of    *)
(* the former two it has, whatever happened to the slaves before it.       *)
OwnCoe(i) == IF line[i].proto % 2 = 1 THEN line[i].coe ELSE 0
OwnSoe(i) == IF line[i].proto \div 2 = 1 THEN line[i].soe ELSE 0
MappingIsOwn ==
  scan.pc = "done" /\ scan.nacked = {} =>
    \A i \in 1..Len(line) :
      /\ Told(i) => list[i].bits \in {0, OwnCoe(i), OwnSoe(i), line[i].pdo}
      /\ i \notin scan.bad /\ line[i].rx > 0 /\ (OwnCoe(i) # 0 \/ OwnSoe(i) # 0) =>
           list[i].bits = IF OwnCoe(i) # 0 THEN OwnCoe(i) ELSE OwnSoe(i)

(* What ecx_config_init and ecx_config_find_mappings know of a slave when  *)
(* the scan is over is true of it: identity, mailboxes, sync managers and  *)
(* mapping are its own, whichever reads failed, of it or of those before.  *)
ScanIsTrue == FieldsAreOwn /\ SyncManagersAreOwn /\ MappingIsOwn

ScanSpec == ScanInit /\ [][ScanNext]_scanvars
=============================================================================
