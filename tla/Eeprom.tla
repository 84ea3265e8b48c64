------------------------------- MODULE Eeprom -------------------------------
(***************************************************************************)
(* The EEPROM of the slaves as ec_main.c reads and writes it over the bus: *)
(* ecx_readeepromFP and ecx_writeeepromFP (the AP forms are the same with  *)
(* another address), ecx_eeprom2master and ecx_eeprom2pdi, which pass the  *)
(* EEPROM between the master and the slave's own processor, and the cache  *)
(* of ecx_siigetbyte.                                                      *)
(*                                                                         *)
(* Addresses are words; a read brings Chunk[s] of them.  The EEPROM        *)
(* interface of a slave is external: a command makes it busy, and later it *)
(* has read into its data register, written, or failed (NACK).             *)
(***************************************************************************)
EXTENDS Integers, Sequences, FiniteSets

CONSTANTS
  EepSlaves,    \* slaves
  EepWords,     \* word addresses 0..EepWords-1
  Chunk,        \* per slave: words of one read, 4 (eep_8byte) or 2
  EepFaults,    \* kinds of faults that may happen
  MaxEepFaults, \* bound
  MaxJobs       \* bound: calls

ASSUME EepromAssumption == EepWords \in Nat \ {0} /\ \A s \in EepSlaves : Chunk[s] \in Nat \ {0}

VARIABLES
  mem,    \* the EEPROMs (external): per slave and address a value
  esc,    \* their interfaces (external): [owner, busy, cmd, addr, reg, nack]
  ctx,    \* [pdi: eep_pdi per slave, of: esislave, cache: esibuf where esimap is set]
  job,    \* the call under way, or the last one
  eep     \* [faults, jobs, blind: history, a frame was lost that the code does not miss]
eepvars == <<mem, esc, ctx, job, eep>>

Addresses == 0..(EepWords - 1)
Word(s, a) == [slave |-> s, at |-> a, new |-> FALSE]
NewWord(s, a) == [slave |-> s, at |-> a, new |-> TRUE]
Zero == [slave |-> 0, at |-> 0, new |-> FALSE]
Erased == [slave |-> 0, at |-> 1, new |-> FALSE]   \* 0xffff
ChunkAt(s, a) ==
  [k \in 0..(Chunk[s] - 1) |-> IF a + k < EepWords THEN mem[s][a + k] ELSE Erased]
Zeros(s) == [k \in 0..(Chunk[s] - 1) |-> Zero]
Uncached == [a \in {} |-> Zero]

EepInit ==
  /\ mem = [s \in EepSlaves |-> [a \in Addresses |-> Word(s, a)]]
  /\ esc = [s \in EepSlaves |-> [owner |-> "master", busy |-> FALSE, cmd |-> "read", addr |-> 0,
                                 reg |-> Zeros(s), nack |-> FALSE]]
  /\ ctx = [pdi |-> [s \in EepSlaves |-> FALSE], of |-> 0, cache |-> Uncached]
  /\ job = [kind |-> "none", s |-> 1, a |-> 0, pc |-> "done", nacks |-> 0, val |-> Zeros(1),
            ok |-> FALSE, restore |-> FALSE]
  /\ eep = [faults |-> 0, jobs |-> 0, blind |-> FALSE]

EepFine == UNCHANGED eep
EepFault(kind) ==
  /\ kind \in EepFaults /\ eep.faults < MaxEepFaults
  /\ eep' = [eep EXCEPT !.faults = @ + 1,
                        !.blind = @ \/ kind \in {"own", "wait", "command", "data written"}]
To(pc) == job' = [job EXCEPT !.pc = pc]
Target == job.s
Own(who) == [esc EXCEPT ![Target].owner = who]

(***************************************************************************)
(* A call: ecx_siigetbyte on its own ("get") or in one of the ecx_sii      *)
(* functions, which give the EEPROM back afterwards ("find"),              *)
(* ecx_readeeprom, ecx_writeeeprom, ecx_eeprom2pdi.  ecx_siigetbyte        *)
(* forgets the cache of another slave.                                     *)
(***************************************************************************)
Cached(s, a) == ctx.of = s /\ a \in DOMAIN ctx.cache

CallEeprom(kind, s, a) ==
  LET bytes == kind \in {"get", "find"}
      hit == bytes /\ Cached(s, a)
  IN  /\ job.pc = "done" /\ eep.jobs < MaxJobs /\ eep' = [eep EXCEPT !.jobs = @ + 1]
      /\ ctx' = IF bytes /\ ctx.of # s /\ ~hit THEN [ctx EXCEPT !.of = s, !.cache = Uncached] ELSE ctx
      /\ job' = [kind |-> kind, s |-> s, a |-> a, nacks |-> 0,
                 pc |-> IF hit THEN "restore" ELSE IF kind = "release" THEN "release" ELSE "own",
                 val |-> IF hit THEN [Zeros(s) EXCEPT ![0] = ctx.cache[a]] ELSE Zeros(s),
                 ok |-> FALSE, restore |-> kind = "find" /\ ctx.pdi[s]]
      /\ UNCHANGED <<mem, esc>>

(* ecx_eeprom2master: only if it is set to PDI, and whatever the writes    *)
(* returned the flag is cleared.                                           *)
TakeOwnership ==
  /\ job.pc = "own" /\ To("wait") /\ UNCHANGED mem
  /\ \/ ~ctx.pdi[Target] /\ UNCHANGED <<esc, ctx>> /\ EepFine
     \/ ctx.pdi[Target] /\ ctx' = [ctx EXCEPT !.pdi[Target] = FALSE] /\ esc' = Own("master") /\ EepFine
     \/ /\ ctx.pdi[Target] /\ ctx' = [ctx EXCEPT !.pdi[Target] = FALSE]
        /\ UNCHANGED esc /\ EepFault("own")

(* ecx_eeprom_waitnotbusyFP: idle, busy for too long, or nobody answered,  *)
(* which is taken for idle and without error.                              *)
Outcomes == {"idle", "nack", "busy"}
WaitNotBusy(seen) ==
  \/ ~esc[Target].busy /\ EepFine /\ seen = (IF esc[Target].nack THEN "nack" ELSE "idle")
  \/ esc[Target].busy /\ EepFault("slow") /\ seen = "busy"
  \/ EepFault("wait") /\ seen = "idle"

(* Where a command begins.                                                *)
Command == IF job.kind = "write" THEN "data" ELSE "command"

(* Error bits of an earlier command are cleared.                           *)
FirstWait ==
  /\ job.pc = "wait" /\ UNCHANGED <<mem, ctx>>
  /\ \E seen \in Outcomes :
       /\ WaitNotBusy(seen) /\ To(IF seen = "busy" THEN "fill" ELSE Command)
       /\ esc' = IF seen = "nack" THEN [esc EXCEPT ![Target].nack = FALSE] ELSE esc

(* ecx_writeeepromFP: the data register is written first.                  *)
WriteData ==
  /\ job.pc = "data" /\ To("command") /\ UNCHANGED <<mem, ctx>>
  /\ \/ esc' = [esc EXCEPT ![Target].reg = [Zeros(Target) EXCEPT ![0] = NewWord(Target, job.a)]] /\ EepFine
     \/ UNCHANGED esc /\ EepFault("data written")

(* The command, with its retries; "if (wkc)" also lets EC_NOFRAME pass.    *)
SendCommand ==
  /\ job.pc = "command" /\ To("wait2") /\ UNCHANGED <<mem, ctx>>
  /\ \/ /\ EepFine
        /\ esc' = IF esc[Target].owner # "master" \/ esc[Target].busy THEN esc
                  ELSE [esc EXCEPT ![Target].busy = TRUE, ![Target].addr = job.a, ![Target].nack = FALSE,
                                   ![Target].cmd = IF job.kind = "write" THEN "write" ELSE "read"]
     \/ UNCHANGED esc /\ EepFault("command")

(* The answer: a NACK is tried again, three times in all.                  *)
(* Faulty variant: the error is not looked at.                             *)
Answered ==
  IF job.kind = "write" THEN job' = [job EXCEPT !.nacks = 0, !.ok = TRUE, !.pc = "fill"]
  ELSE job' = [job EXCEPT !.nacks = 0, !.pc = "read"]
Repeat(n) == job' = [job EXCEPT !.nacks = n, !.pc = IF n > 0 /\ n < 3 THEN Command ELSE "fill"]

SecondWaitBlind ==
  /\ job.pc = "wait2" /\ UNCHANGED <<mem, esc, ctx>>
  /\ \E seen \in Outcomes : WaitNotBusy(seen) /\ IF seen = "busy" THEN Repeat(job.nacks) ELSE Answered
SecondWait ==
  /\ job.pc = "wait2" /\ UNCHANGED <<mem, esc, ctx>>
  /\ \E seen \in Outcomes :
       /\ WaitNotBusy(seen)
       /\ CASE seen = "busy" -> Repeat(job.nacks)
            [] seen = "nack" -> Repeat(job.nacks + 1)
            [] seen = "idle" -> Answered

ReadData ==
  /\ job.pc = "read" /\ UNCHANGED <<mem, esc, ctx>>
  /\ \/ job' = [job EXCEPT !.pc = "fill", !.val = esc[Target].reg, !.ok = TRUE] /\ EepFine
     \/ To("fill") /\ EepFault("data")

(* What ecx_siigetbyte got goes into the cache, from the address on, and   *)
(* is valid from now on.                                                   *)
FillCache ==
  LET from == {a \in Addresses : job.a <= a /\ a < job.a + Chunk[Target]}
  IN  /\ job.pc = "fill" /\ To("restore") /\ EepFine /\ UNCHANGED <<mem, esc>>
      /\ ctx' = IF job.kind \notin {"get", "find"} THEN ctx
                ELSE [ctx EXCEPT !.cache = [a \in DOMAIN @ \cup from |->
                                              IF a \in from THEN job.val[a - job.a] ELSE @[a]]]

(* ecx_eeprom2pdi: the flag is set whatever the write returned.            *)
GiveBack ==
  /\ job.pc \in {"restore", "release"} /\ To("done") /\ UNCHANGED mem
  /\ LET gives == (job.restore \/ job.pc = "release") /\ ~ctx.pdi[Target]
     IN  \/ ~gives /\ UNCHANGED <<esc, ctx>> /\ EepFine
         \/ gives /\ ctx' = [ctx EXCEPT !.pdi[Target] = TRUE] /\ esc' = Own("pdi") /\ EepFine
         \/ gives /\ ctx' = [ctx EXCEPT !.pdi[Target] = TRUE] /\ UNCHANGED esc /\ EepFault("own")

(* The interface of a slave finishes a command (external).                 *)
Finishes(s) ==
  /\ esc[s].busy /\ UNCHANGED <<ctx, job>>
  /\ \/ /\ EepFine
        /\ IF esc[s].cmd = "read"
           THEN /\ UNCHANGED mem
                /\ esc' = [esc EXCEPT ![s].busy = FALSE, ![s].reg = ChunkAt(s, esc[s].addr)]
           ELSE /\ mem' = [mem EXCEPT ![s][esc[s].addr] = esc[s].reg[0]]
                /\ esc' = [esc EXCEPT ![s].busy = FALSE]
     \/ /\ EepFault("nack") /\ UNCHANGED mem
        /\ esc' = [esc EXCEPT ![s].busy = FALSE, ![s].nack = TRUE]

EepMaster ==
  \/ TakeOwnership \/ FirstWait \/ WriteData \/ SendCommand \/ SecondWait
  \/ ReadData \/ FillCache \/ GiveBack

EepNext ==
  \/ \E kind \in {"get", "find", "read", "write"}, s \in EepSlaves, a \in Addresses :
       CallEeprom(kind, s, a)
  \/ \E s \in EepSlaves : CallEeprom("release", s, 0)
  \/ EepMaster
  \/ \E s \in EepSlaves : Finishes(s)

EepSpec == EepInit /\ [][EepNext]_eepvars

-----------------------------------------------------------------------------
(* In what follows one case is left out, in which the code goes on without *)
(* knowing: every retry of the ownership, of the status, of the command or *)
(* of the data to write was lost (EC_NOFRAME passes "if (wkc)", and the    *)
(* status is then taken for idle).                                         *)
Returned == job.pc = "done" /\ job.kind # "none" /\ ~eep.blind

(* ecx_readeeprom: what a successful read returns is what the EEPROM of    *)
(* this slave holds at this address, never what an earlier command left in *)
(* the data register.                                                      *)
ReadIsTrue ==
  Returned /\ job.kind = "read" /\ job.ok => job.val = ChunkAt(job.s, job.a)

(* ecx_siigetbyte: "requested byte": of this slave and this address, as it *)
(* is or was before it was written; a read that failed leaves zeros.       *)
CacheIsTrue ==
  /\ ~eep.blind => \A a \in DOMAIN ctx.cache : ctx.cache[a] \in {Word(ctx.of, a), NewWord(ctx.of, a), Zero}
  /\ Returned /\ job.kind \in {"get", "find"} =>
       job.val[0] \in {Word(job.s, job.a), NewWord(job.s, job.a), Zero}

(* ecx_writeeeprom: ">0 if OK": the word is there; and no call ever        *)
(* changes another word than its own, or puts something else there.        *)
WritesLand ==
  /\ Returned /\ job.kind = "write" /\ job.ok => mem[job.s][job.a] = NewWord(job.s, job.a)
  /\ ~eep.blind => \A s \in EepSlaves, a \in Addresses : mem[s][a] \in {Word(s, a), NewWord(s, a)}

(* eep_pdi tells whose the EEPROM is: a slave's own processor finds it its *)
(* own after the ecx_sii functions if it was before.                       *)
OwnerIsKnown == Returned => \A s \in EepSlaves : ctx.pdi[s] = (esc[s].owner = "pdi")

(* The EEPROM interface under a busy or refusing interface, lost frames    *)
(* and several callers: reads, the cache and writes are of the right slave *)
(* and address, and the owner is the one the master believes in.           *)
EepromIsTrue == ReadIsTrue /\ CacheIsTrue /\ WritesLand /\ OwnerIsKnown
=============================================================================
