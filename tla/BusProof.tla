------------------------------ MODULE BusProof -------------------------------
(***************************************************************************)
(* Five parts of the master's work on the bus, for any number of slaves,   *)
(* faults and calls: the EEPROM interface of ec_main.c, the recovery of    *)
(* slaves with ecx_recover_slave and ecx_reconfig_slave, the journeys of   *)
(* lms_master, what ecx_config_init learns of the slaves, and the pulses   *)
(* that ecx_dcsync0 starts.                                                *)
(***************************************************************************)
EXTENDS Eeprom, SlaveStates, LmsTrack, BusScan, DcSync, FiniteSetTheorems, WellFoundedInduction, TLAPS

-----------------------------------------------------------------------------
(* Words, what the data register and a call hold, and the cache.           *)
Sources == EepSlaves \cup {0, 1}
Words == [slave : Sources, at : Addresses \cup {0, 1}, new : BOOLEAN]
Registers == UNION {[0..(Chunk[s] - 1) -> Words] : s \in EepSlaves \cup {1}}
Caches == UNION {[A -> Words] : A \in SUBSET Addresses}
Interfaces ==
  [owner : {"master", "pdi"}, busy : BOOLEAN, cmd : {"read", "write"}, addr : Addresses,
   reg : Registers, nack : BOOLEAN]
Contexts == [pdi : [EepSlaves -> BOOLEAN], of : Sources, cache : Caches]
Jobs ==
  [kind : {"none", "get", "find", "read", "write", "release"}, s : EepSlaves \cup {1}, a : Addresses,
   pc : {"own", "wait", "data", "command", "wait2", "read", "fill", "restore", "release", "done"},
   nacks : Nat, val : Registers, ok : BOOLEAN, restore : BOOLEAN]

EepTypes ==
  /\ mem \in [EepSlaves -> [Addresses -> Words]] /\ esc \in [EepSlaves -> Interfaces]
  /\ ctx \in Contexts /\ job \in Jobs

(* The words of slave s at address a that a read may bring.                *)
TrueWords(s, a) == {Word(s, a), NewWord(s, a)}

(* An interface on its own: the flag tells the owner, a command clears the *)
(* error, and a write has the word of its own address in the register.     *)
InterfaceSound(s) ==
  /\ ctx.pdi[s] = (esc[s].owner = "pdi")
  /\ esc[s].busy => ~esc[s].nack
  /\ esc[s].busy /\ esc[s].cmd = "write" => esc[s].reg[0] = NewWord(s, esc[s].addr)
  /\ \A a \in Addresses : mem[s][a] \in TrueWords(s, a)

CacheSound == \A a \in DOMAIN ctx.cache : ctx.cache[a] \in TrueWords(ctx.of, a) \cup {Zero}

(* What the interface is busy with is the call's own command.              *)
Ours(s) == esc[s].busy => /\ esc[s].addr = job.a
                          /\ esc[s].cmd = IF job.kind = "write" THEN "write" ELSE "read"
Performed(s) == IF job.kind = "write" THEN mem[s][job.a] = NewWord(s, job.a)
                ELSE esc[s].reg = ChunkAt(s, job.a)

(* The call under way for slave s, at each of its steps.                   *)
CallSound(s) ==
  /\ job.kind \in {"get", "find"} => ctx.of = s
  /\ job.kind = "release" => job.pc \in {"release", "done"}
  /\ job.pc = "data" => job.kind = "write"
  /\ job.pc = "read" => job.kind # "write"
  /\ job.pc \in {"wait", "data", "command", "wait2", "read"} => ~ctx.pdi[s]
  /\ job.pc \in {"data", "command", "wait2"} => Ours(s)
  /\ job.pc = "command" /\ job.kind = "write" => esc[s].reg[0] = NewWord(s, job.a)
  /\ job.pc = "wait2" /\ ~esc[s].busy /\ ~esc[s].nack => Performed(s)
  /\ job.pc = "read" => ~esc[s].busy /\ Performed(s)
  /\ job.ok => /\ job.pc \in {"fill", "restore", "done"} /\ ~esc[s].busy
               /\ job.kind = "read" => job.val = ChunkAt(s, job.a)
               /\ job.kind = "write" => mem[s][job.a] = NewWord(s, job.a)
  /\ job.val \in [0..(Chunk[s] - 1) -> Words]
  /\ \A k \in 0..(Chunk[s] - 1) :
       job.a + k < EepWords => job.val[k] \in TrueWords(s, job.a + k) \cup {Zero}

JobSound ==
  /\ job.kind = "none" => job.pc = "done" /\ ~job.ok
  /\ job.kind # "none" => job.s \in EepSlaves /\ CallSound(job.s)

EepSound == EepTypes /\ (\A s \in EepSlaves : InterfaceSound(s)) /\ CacheSound /\ JobSound

(* The inductive invariant: as long as no frame was lost that the code     *)
(* does not miss.                                                          *)
EepInv == eep \in [faults : Nat, jobs : Nat, blind : BOOLEAN] /\ (~eep.blind => EepSound)
-----------------------------------------------------------------------------
(* Words, chunks and zeros have their types.                               *)
LEMMA WordTypes ==
  /\ Zero \in Words /\ Erased \in Words
  /\ \A s \in EepSlaves, a \in Addresses : Word(s, a) \in Words /\ NewWord(s, a) \in Words
BY DEF Words, Sources, Zero, Erased, Word, NewWord

(* What one read of the SII interface gives: the words from its address    *)
(* on.                                                                     *)
LEMMA ChunkTypes ==
  ASSUME NEW s \in EepSlaves, NEW a \in Addresses, mem \in [EepSlaves -> [Addresses -> Words]]
  PROVE  /\ ChunkAt(s, a) \in [0..(Chunk[s] - 1) -> Words] /\ ChunkAt(s, a) \in Registers
         /\ \A k \in 0..(Chunk[s] - 1) : a + k < EepWords =>
              a + k \in Addresses /\ ChunkAt(s, a)[k] = mem[s][a + k]
<1> USE EepromAssumption
<1>1. \A k \in 0..(Chunk[s] - 1) : a + k < EepWords => a + k \in Addresses
  BY DEF Addresses
<1>2. ChunkAt(s, a) \in [0..(Chunk[s] - 1) -> Words]
  BY <1>1, WordTypes DEF ChunkAt
<1>3. ChunkAt(s, a) \in Registers
  BY <1>2 DEF Registers
<1> QED BY <1>1, <1>2, <1>3 DEF ChunkAt

(* The zeros that a failed read leaves behind.                             *)
LEMMA ZeroTypes ==
  ASSUME NEW s \in EepSlaves \cup {1}
  PROVE  /\ Zeros(s) \in [0..(Chunk[s] - 1) -> Words] /\ Zeros(s) \in Registers
         /\ \A k \in 0..(Chunk[s] - 1) : Zeros(s)[k] = Zero
<1>1. Zeros(s) \in [0..(Chunk[s] - 1) -> Words]
  BY WordTypes DEF Zeros
<1> QED BY <1>1 DEF Registers, Zeros

(* The first word of a register of zeros replaced by another.              *)
LEMMA FirstWord ==
  ASSUME NEW s \in EepSlaves, NEW w \in Words
  PROVE  LET r == [Zeros(s) EXCEPT ![0] = w]
         IN  /\ r \in [0..(Chunk[s] - 1) -> Words] /\ r \in Registers /\ r[0] = w
             /\ \A k \in 0..(Chunk[s] - 1) : k # 0 => r[k] = Zero
<1>1. 0 \in 0..(Chunk[s] - 1)
  BY EepromAssumption
<1>2. [Zeros(s) EXCEPT ![0] = w] \in [0..(Chunk[s] - 1) -> Words]
  BY <1>1, ZeroTypes
<1> QED BY <1>1, <1>2, ZeroTypes DEF Registers

(* A step of the call that only moves on.                                  *)
LEMMA GoesTo ==
  ASSUME job \in Jobs, NEW p, To(p),
         p \in {"own", "wait", "data", "command", "wait2", "read", "fill", "restore", "release", "done"}
  PROVE  /\ job' \in Jobs /\ job'.pc = p /\ job'.kind = job.kind /\ job'.s = job.s /\ job'.a = job.a
         /\ job'.nacks = job.nacks /\ job'.val = job.val /\ job'.ok = job.ok
         /\ job'.restore = job.restore
<1>1. job' = [kind |-> job.kind, s |-> job.s, a |-> job.a, pc |-> p, nacks |-> job.nacks,
              val |-> job.val, ok |-> job.ok, restore |-> job.restore]
  BY DEF To, Jobs
<1>2. /\ job.kind \in {"none", "get", "find", "read", "write", "release"}
      /\ job.s \in EepSlaves \cup {1} /\ job.a \in Addresses /\ job.nacks \in Nat
      /\ job.val \in Registers /\ job.ok \in BOOLEAN /\ job.restore \in BOOLEAN
  BY DEF Jobs
<1>3. job' \in Jobs
  BY <1>1, <1>2 DEF Jobs
<1> QED BY <1>1, <1>3

(* What a fault may be when the code has missed nothing.                   *)
LEMMA SeenFaults ==
  ASSUME eep \in [faults : Nat, jobs : Nat, blind : BOOLEAN], NEW kind, EepFault(kind), ~eep'.blind
  PROVE  /\ eep' \in [faults : Nat, jobs : Nat, blind : BOOLEAN] /\ ~eep.blind
         /\ kind \notin {"own", "wait", "command", "data written"}
<1>1. PICK m \in BOOLEAN :
        /\ eep' = [eep EXCEPT !.faults = @ + 1, !.blind = m]
        /\ ~m => ~eep.blind /\ kind \notin {"own", "wait", "command", "data written"}
  BY Zenon DEF EepFault
<1>2. eep.faults \in Nat /\ eep.jobs \in Nat
  OBVIOUS
<1>3. eep' = [faults |-> eep.faults + 1, jobs |-> eep.jobs, blind |-> m]
  BY <1>1
<1>4. eep' \in [faults : Nat, jobs : Nat, blind : BOOLEAN] /\ eep'.blind = m
  BY <1>2, <1>3
<1> QED BY <1>1, <1>4

(* An interface that a step leaves alone.                                  *)
LEMMA InterfaceKept ==
  ASSUME NEW s \in EepSlaves, InterfaceSound(s), esc'[s] = esc[s], ctx'.pdi[s] = ctx.pdi[s],
         mem'[s] = mem[s]
  PROVE  InterfaceSound(s)'
BY DEF InterfaceSound

(* Chunks of a slave whose memory is left alone.                           *)
LEMMA ChunkKept ==
  ASSUME NEW s, NEW a, mem'[s] = mem[s] PROVE ChunkAt(s, a)' = ChunkAt(s, a)
BY DEF ChunkAt
-----------------------------------------------------------------------------
(* Nothing is under way at first.                                          *)
LEMMA EepInitInv == EepInit => EepInv
<1> SUFFICES ASSUME EepInit PROVE EepInv
  OBVIOUS
<1>1. 0 \in Addresses
  BY EepromAssumption DEF Addresses
<1>2. mem \in [EepSlaves -> [Addresses -> Words]]
  BY WordTypes DEF EepInit
<1>3. esc \in [EepSlaves -> Interfaces]
  BY <1>1, ZeroTypes DEF EepInit, Interfaces
<1>4. Uncached \in Caches /\ DOMAIN Uncached = {}
  BY DEF Uncached, Caches
<1>5. ctx \in Contexts
  BY <1>4 DEF EepInit, Contexts, Sources
<1>6. job \in Jobs
  BY <1>1, ZeroTypes DEF EepInit, Jobs
<1>7. \A s \in EepSlaves : InterfaceSound(s)
  BY DEF EepInit, InterfaceSound, TrueWords
<1>8. CacheSound /\ JobSound
  BY <1>4 DEF EepInit, CacheSound, JobSound
<1> QED BY <1>2, <1>3, <1>5, <1>6, <1>7, <1>8 DEF EepInv, EepSound, EepTypes, EepInit

(* A call begins.                                                          *)
LEMMA CallKeeps ==
  ASSUME EepSound, NEW kind \in {"get", "find", "read", "write", "release"}, NEW s \in EepSlaves,
         NEW a \in Addresses, CallEeprom(kind, s, a)
  PROVE  EepSound'
<1> DEFINE bytes == kind \in {"get", "find"}
           hit == bytes /\ Cached(s, a)
           pc == IF hit THEN "restore" ELSE IF kind = "release" THEN "release" ELSE "own"
           val == IF hit THEN [Zeros(s) EXCEPT ![0] = ctx.cache[a]] ELSE Zeros(s)
           back == kind = "find" /\ ctx.pdi[s]
<1>0. /\ mem \in [EepSlaves -> [Addresses -> Words]] /\ esc \in [EepSlaves -> Interfaces]
      /\ ctx \in Contexts /\ CacheSound /\ \A x \in EepSlaves : InterfaceSound(x)
      /\ UNCHANGED <<mem, esc>>
  BY DEF EepSound, EepTypes, CallEeprom
<1>1. ctx' = IF bytes /\ ctx.of # s /\ ~hit THEN [ctx EXCEPT !.of = s, !.cache = Uncached] ELSE ctx
  BY DEF CallEeprom
<1>2. job' = [kind |-> kind, s |-> s, a |-> a, nacks |-> 0, pc |-> pc, val |-> val, ok |-> FALSE,
              restore |-> back]
  BY DEF CallEeprom
<1>3. Uncached \in Caches /\ DOMAIN Uncached = {}
  BY DEF Uncached, Caches
<1>4. /\ ctx' \in Contexts /\ ctx'.pdi = ctx.pdi /\ (bytes => ctx'.of = s)
      /\ \/ ctx'.of = ctx.of /\ ctx'.cache = ctx.cache
         \/ ctx'.of = s /\ ctx'.cache = Uncached
  <2>1. CASE bytes /\ ctx.of # s /\ ~hit
    <3>1. ctx' = [pdi |-> ctx.pdi, of |-> s, cache |-> Uncached]
      BY <1>0, <1>1, <2>1 DEF Contexts
    <3>2. ctx.pdi \in [EepSlaves -> BOOLEAN]
      BY <1>0 DEF Contexts
    <3> QED BY <1>3, <3>1, <3>2 DEF Contexts, Sources
  <2>2. CASE ~(bytes /\ ctx.of # s /\ ~hit)
    <3>1. ctx' = ctx
      BY <1>1, <2>2
    <3>2. bytes => ctx.of = s
      BY <2>2 DEF Cached
    <3>3. ctx' \in Contexts
      BY <1>0, <3>1
    <3>4. ctx'.pdi = ctx.pdi /\ ctx'.of = ctx.of /\ ctx'.cache = ctx.cache
      BY <3>1
    <3> QED BY <3>2, <3>3, <3>4
  <2> QED BY <2>1, <2>2
<1>5. CacheSound'
  BY <1>0, <1>3, <1>4 DEF CacheSound
<1>6. hit => ctx.cache[a] \in TrueWords(s, a) \cup {Zero} /\ ctx.cache[a] \in Words
  BY <1>0, WordTypes DEF Cached, CacheSound, TrueWords
<1>7. /\ val \in [0..(Chunk[s] - 1) -> Words] /\ val \in Registers
      /\ \A k \in 0..(Chunk[s] - 1) : val[k] = Zero \/ (k = 0 /\ val[k] \in TrueWords(s, a) \cup {Zero})
  <2>1. CASE hit
    BY <1>6, <2>1, FirstWord
  <2>2. CASE ~hit
    BY <2>2, ZeroTypes
  <2> QED BY <2>1, <2>2
<1>8. pc \in {"own", "restore", "release"} /\ back \in BOOLEAN /\ (kind = "release" => pc = "release")
  BY <1>0 DEF Contexts
<1> HIDE DEF hit, pc, val, back
<1>9. job' \in Jobs
  BY <1>2, <1>7, <1>8 DEF Jobs
<1>10. \A k \in 0..(Chunk[s] - 1) :
         a + k < EepWords => val[k] \in TrueWords(s, a + k) \cup {Zero}
  BY <1>7, EepromAssumption DEF Addresses
<1>11. CallSound(s)'
  BY <1>2, <1>4, <1>7, <1>8, <1>10 DEF CallSound
<1>12. JobSound'
  BY <1>2, <1>11 DEF JobSound
<1>13. \A x \in EepSlaves : InterfaceSound(x)'
  BY <1>0, <1>4, InterfaceKept
<1> QED BY <1>0, <1>4, <1>5, <1>9, <1>12, <1>13 DEF EepSound, EepTypes

EepCounts == [faults : Nat, jobs : Nat, blind : BOOLEAN]

(* A call that is not over has a slave and is sound.                       *)
LEMMA UnderWay ==
  ASSUME EepSound, job.pc # "done"
  PROVE  /\ job.s \in EepSlaves /\ job.a \in Addresses /\ CallSound(job.s) /\ InterfaceSound(job.s)
         /\ job.kind # "none" /\ job \in Jobs /\ esc \in [EepSlaves -> Interfaces]
         /\ ctx \in Contexts /\ mem \in [EepSlaves -> [Addresses -> Words]]
BY DEF EepSound, EepTypes, JobSound, Jobs

(* The pieces of a step of the call for slave s.                           *)
LEMMA Assembled ==
  ASSUME EepSound, NEW s \in EepSlaves, job'.s = s, EepTypes', job'.kind # "none",
         \A x \in EepSlaves \ {s} : esc'[x] = esc[x] /\ ctx'.pdi[x] = ctx.pdi[x] /\ mem'[x] = mem[x],
         InterfaceSound(s)', CacheSound', CallSound(s)'
  PROVE  EepSound'
<1>1. \A x \in EepSlaves : InterfaceSound(x)'
  BY InterfaceKept DEF EepSound
<1>2. JobSound'
  BY DEF JobSound
<1> QED BY <1>1, <1>2 DEF EepSound

(* ecx_eeprom2master *)
LEMMA OwnershipKeeps ==
  ASSUME eep \in EepCounts, EepSound, TakeOwnership, ~eep'.blind PROVE EepSound'
<1>s. PICK s : s = job.s
  OBVIOUS
<1>0. /\ s \in EepSlaves /\ CallSound(s) /\ InterfaceSound(s) /\ job.kind # "none" /\ job \in Jobs
      /\ esc \in [EepSlaves -> Interfaces] /\ ctx \in Contexts
      /\ mem \in [EepSlaves -> [Addresses -> Words]] /\ CacheSound /\ mem' = mem
  BY <1>s, UnderWay DEF TakeOwnership, EepSound
<1>1. /\ job' \in Jobs /\ job'.pc = "wait" /\ job'.kind = job.kind /\ job'.s = s /\ job'.a = job.a
      /\ job'.val = job.val /\ job'.ok = job.ok
  BY <1>s, <1>0, GoesTo DEF TakeOwnership
<1>2. job.pc = "own" /\ ~job.ok /\ job.kind # "release"
  BY <1>0 DEF TakeOwnership, CallSound, Jobs
<1>3. /\ esc' \in [EepSlaves -> Interfaces] /\ ctx' \in Contexts /\ ctx'.of = ctx.of
      /\ ctx'.cache = ctx.cache /\ ctx'.pdi[s] = FALSE /\ esc'[s].owner # "pdi"
      /\ esc'[s].busy = esc[s].busy /\ esc'[s].nack = esc[s].nack /\ esc'[s].cmd = esc[s].cmd
      /\ esc'[s].reg = esc[s].reg /\ esc'[s].addr = esc[s].addr
      /\ \A x \in EepSlaves \ {s} : esc'[x] = esc[x] /\ ctx'.pdi[x] = ctx.pdi[x]
  <2>1. CASE ~ctx.pdi[s] /\ UNCHANGED <<esc, ctx>>
    BY <1>0, <2>1 DEF InterfaceSound
  <2>2. CASE ctx' = [ctx EXCEPT !.pdi[s] = FALSE] /\ esc' = [esc EXCEPT ![s].owner = "master"]
    <3>1. ctx' = [pdi |-> [ctx.pdi EXCEPT ![s] = FALSE], of |-> ctx.of, cache |-> ctx.cache]
      BY <1>0, <2>2 DEF Contexts
    <3>2. ctx.pdi \in [EepSlaves -> BOOLEAN] /\ ctx.of \in Sources /\ ctx.cache \in Caches
      BY <1>0 DEF Contexts
    <3>3. ctx' \in Contexts /\ ctx'.pdi[s] = FALSE /\ \A x \in EepSlaves \ {s} : ctx'.pdi[x] = ctx.pdi[x]
      BY <1>0, <3>1, <3>2 DEF Contexts
    <3>4. esc' \in [EepSlaves -> Interfaces]
      BY <1>0, <2>2 DEF Interfaces
    <3>5. esc'[s] = [esc[s] EXCEPT !.owner = "master"] /\ \A x \in EepSlaves \ {s} : esc'[x] = esc[x]
      BY <1>0, <2>2
    <3>6. esc[s] \in Interfaces
      BY <1>0
    <3>7. /\ esc'[s].owner # "pdi" /\ esc'[s].busy = esc[s].busy /\ esc'[s].nack = esc[s].nack
          /\ esc'[s].cmd = esc[s].cmd /\ esc'[s].reg = esc[s].reg /\ esc'[s].addr = esc[s].addr
      BY <3>5, <3>6 DEF Interfaces
    <3> QED BY <3>1, <3>3, <3>4, <3>5, <3>7
  <2>3. ~EepFault("own")
    BY SeenFaults DEF EepCounts
  <2> QED BY <2>1, <2>2, <2>3, <1>s DEF TakeOwnership, Target, Own
<1>4. EepTypes'
  BY <1>0, <1>1, <1>3 DEF EepTypes
<1>5. InterfaceSound(s)' /\ CacheSound'
  BY <1>0, <1>3 DEF InterfaceSound, CacheSound
<1>6. CallSound(s)'
  BY <1>0, <1>1, <1>2, <1>3 DEF CallSound
<1> QED BY <1>0, <1>1, <1>3, <1>4, <1>5, <1>6, Assembled

(* What a wait finds when the code has missed nothing.                     *)
LEMMA WaitSees ==
  ASSUME eep \in EepCounts, NEW seen \in Outcomes, WaitNotBusy(seen), ~eep'.blind
  PROVE  /\ seen = "busy" => esc[job.s].busy
         /\ seen = "nack" => ~esc[job.s].busy /\ esc[job.s].nack
         /\ seen = "idle" => ~esc[job.s].busy /\ ~esc[job.s].nack
<1>1. ~EepFault("wait")
  BY SeenFaults DEF EepCounts
<1> QED BY <1>1 DEF WaitNotBusy, Target

(* The first wait.                                                         *)
LEMMA FirstWaitKeeps ==
  ASSUME eep \in EepCounts, EepSound, FirstWait, ~eep'.blind PROVE EepSound'
<1>s. PICK s : s = job.s
  OBVIOUS
<1>0. /\ s \in EepSlaves /\ CallSound(s) /\ InterfaceSound(s) /\ job.kind # "none" /\ job \in Jobs
      /\ esc \in [EepSlaves -> Interfaces] /\ ctx \in Contexts
      /\ mem \in [EepSlaves -> [Addresses -> Words]] /\ CacheSound /\ mem' = mem /\ ctx' = ctx
      /\ job.pc = "wait"
  BY <1>s, UnderWay DEF FirstWait, EepSound
<1>1. PICK seen \in Outcomes :
        /\ WaitNotBusy(seen) /\ To(IF seen = "busy" THEN "fill" ELSE Command)
        /\ esc' = IF seen = "nack" THEN [esc EXCEPT ![s].nack = FALSE] ELSE esc
  BY <1>s DEF FirstWait, Target
<1> DEFINE p == IF seen = "busy" THEN "fill" ELSE Command
<1>2. p = "fill" \/ (p = (IF job.kind = "write" THEN "data" ELSE "command") /\ ~esc[s].busy)
  BY <1>s, <1>1, WaitSees DEF Command, Outcomes
<1>3. /\ job' \in Jobs /\ job'.pc = p /\ job'.kind = job.kind /\ job'.s = s /\ job'.a = job.a
      /\ job'.val = job.val /\ job'.ok = job.ok
  BY <1>s, <1>0, <1>1, <1>2, GoesTo
<1>4. /\ esc' \in [EepSlaves -> Interfaces] /\ esc'[s].owner = esc[s].owner
      /\ esc'[s].busy = esc[s].busy /\ esc'[s].cmd = esc[s].cmd
      /\ esc'[s].reg = esc[s].reg /\ esc'[s].addr = esc[s].addr
      /\ \A x \in EepSlaves \ {s} : esc'[x] = esc[x]
      /\ esc'[s].nack => esc[s].nack
  <2>1. CASE seen = "nack"
    <3>1. esc' \in [EepSlaves -> Interfaces]
      BY <1>0, <1>1, <2>1 DEF Interfaces
    <3>2. esc'[s] = [esc[s] EXCEPT !.nack = FALSE] /\ \A x \in EepSlaves \ {s} : esc'[x] = esc[x]
      BY <1>0, <1>1, <2>1
    <3>3. esc[s] \in Interfaces
      BY <1>0
    <3> QED BY <3>1, <3>2, <3>3 DEF Interfaces
  <2>2. CASE seen # "nack"
    BY <1>0, <1>1, <2>2
  <2> QED BY <2>1, <2>2
<1>5. EepTypes'
  BY <1>0, <1>3, <1>4 DEF EepTypes
<1>6. InterfaceSound(s)' /\ CacheSound'
  BY <1>0, <1>4 DEF InterfaceSound, CacheSound
<1> HIDE DEF p
<1>7. CallSound(s)'
  BY <1>0, <1>2, <1>3, <1>4 DEF CallSound, Ours
<1> QED BY <1>0, <1>3, <1>4, <1>5, <1>6, <1>7, Assembled

(* The data of a write.                                                    *)
LEMMA DataKeeps ==
  ASSUME eep \in EepCounts, EepSound, WriteData, ~eep'.blind PROVE EepSound'
<1>s. PICK s : s = job.s
  OBVIOUS
<1>0. /\ s \in EepSlaves /\ CallSound(s) /\ InterfaceSound(s) /\ job.kind # "none" /\ job \in Jobs
      /\ esc \in [EepSlaves -> Interfaces] /\ ctx \in Contexts /\ job.a \in Addresses
      /\ mem \in [EepSlaves -> [Addresses -> Words]] /\ CacheSound /\ mem' = mem /\ ctx' = ctx
      /\ job.pc = "data"
  BY <1>s, UnderWay DEF WriteData, EepSound
<1>1. /\ job' \in Jobs /\ job'.pc = "command" /\ job'.kind = job.kind /\ job'.s = s /\ job'.a = job.a
      /\ job'.val = job.val /\ job'.ok = job.ok
  BY <1>s, <1>0, GoesTo DEF WriteData
<1> DEFINE w == NewWord(s, job.a)
           r == [Zeros(s) EXCEPT ![0] = w]
<1>2. ~EepFault("data written")
  BY SeenFaults DEF EepCounts
<1>3. esc' = [esc EXCEPT ![s].reg = r]
  BY <1>s, <1>2 DEF WriteData, Target
<1>4. r \in Registers /\ r[0] = w
  BY <1>0, WordTypes, FirstWord
<1> HIDE DEF r
<1>5. esc' \in [EepSlaves -> Interfaces]
  BY <1>0, <1>3, <1>4 DEF Interfaces
<1>6. esc'[s] = [esc[s] EXCEPT !.reg = r] /\ \A x \in EepSlaves \ {s} : esc'[x] = esc[x]
  BY <1>0, <1>3
<1>7. /\ esc'[s].owner = esc[s].owner /\ esc'[s].busy = esc[s].busy /\ esc'[s].nack = esc[s].nack
      /\ esc'[s].cmd = esc[s].cmd /\ esc'[s].reg = r /\ esc'[s].addr = esc[s].addr
  BY <1>0, <1>6 DEF Interfaces
<1>8. EepTypes'
  BY <1>0, <1>1, <1>5 DEF EepTypes
<1>9. InterfaceSound(s)' /\ CacheSound'
  BY <1>0, <1>4, <1>7 DEF InterfaceSound, CacheSound, CallSound, Ours
<1>10. CallSound(s)'
  BY <1>0, <1>1, <1>4, <1>7 DEF CallSound, Ours
<1> QED BY <1>0, <1>1, <1>6, <1>8, <1>9, <1>10, Assembled

(* The command: an interface that the master owns and that is idle takes   *)
(* it, and one that is busy is busy with the same command.                 *)
LEMMA CommandKeeps ==
  ASSUME eep \in EepCounts, EepSound, SendCommand, ~eep'.blind PROVE EepSound'
<1>s. PICK s : s = job.s
  OBVIOUS
<1>0. /\ s \in EepSlaves /\ CallSound(s) /\ InterfaceSound(s) /\ job.kind # "none" /\ job \in Jobs
      /\ esc \in [EepSlaves -> Interfaces] /\ ctx \in Contexts /\ job.a \in Addresses
      /\ mem \in [EepSlaves -> [Addresses -> Words]] /\ CacheSound /\ mem' = mem /\ ctx' = ctx
      /\ job.pc = "command"
  BY <1>s, UnderWay DEF SendCommand, EepSound
<1>1. /\ job' \in Jobs /\ job'.pc = "wait2" /\ job'.kind = job.kind /\ job'.s = s /\ job'.a = job.a
      /\ job'.val = job.val /\ job'.ok = job.ok
  BY <1>s, <1>0, GoesTo DEF SendCommand
<1> DEFINE c == IF job.kind = "write" THEN "write" ELSE "read"
<1>2. ~EepFault("command")
  BY SeenFaults DEF EepCounts
<1>3. esc[s].owner = "master"
  BY <1>0 DEF CallSound, InterfaceSound, Interfaces
<1>4. esc' = IF esc[s].busy THEN esc
             ELSE [esc EXCEPT ![s].busy = TRUE, ![s].addr = job.a, ![s].nack = FALSE, ![s].cmd = c]
  BY <1>s, <1>2, <1>3 DEF SendCommand, Target
<1>5. c \in {"read", "write"}
  OBVIOUS
<1>6. /\ esc' \in [EepSlaves -> Interfaces] /\ \A x \in EepSlaves \ {s} : esc'[x] = esc[x]
      /\ esc'[s].owner = esc[s].owner /\ esc'[s].busy /\ ~esc'[s].nack /\ esc'[s].cmd = c
      /\ esc'[s].reg = esc[s].reg /\ esc'[s].addr = job.a
  <2>1. CASE esc[s].busy
    BY <1>0, <1>4, <2>1 DEF CallSound, Ours, InterfaceSound
  <2>2. CASE ~esc[s].busy
    <3> HIDE DEF c
    <3>1. PICK d : d = [esc[s] EXCEPT !.busy = TRUE, !.addr = job.a, !.nack = FALSE, !.cmd = c]
      OBVIOUS
    <3>2. d = [owner |-> esc[s].owner, busy |-> TRUE, cmd |-> c, addr |-> job.a,
               reg |-> esc[s].reg, nack |-> FALSE]
      BY <1>0, <3>1 DEF Interfaces
    <3>3. d \in Interfaces
      BY <1>0, <1>5, <3>2 DEF Interfaces
    <3>4. esc' = [esc EXCEPT ![s] = d]
      BY <1>0, <1>4, <2>2, <3>1
    <3>5. esc' \in [EepSlaves -> Interfaces] /\ esc'[s] = d /\ \A x \in EepSlaves \ {s} : esc'[x] = esc[x]
      BY <1>0, <3>3, <3>4
    <3> QED BY <3>2, <3>5
  <2> QED BY <2>1, <2>2
<1>7. EepTypes'
  BY <1>0, <1>1, <1>6 DEF EepTypes
<1>8. InterfaceSound(s)' /\ CacheSound'
  BY <1>0, <1>6 DEF InterfaceSound, CacheSound, CallSound
<1>9. CallSound(s)'
  BY <1>0, <1>1, <1>6 DEF CallSound, Ours
<1> QED BY <1>0, <1>1, <1>6, <1>7, <1>8, <1>9, Assembled

(* The second wait: a command is repeated, done or given up.               *)
LEMMA SecondWaitKeeps ==
  ASSUME eep \in EepCounts, EepSound, SecondWait, ~eep'.blind PROVE EepSound'
<1>s. PICK s : s = job.s
  OBVIOUS
<1>0. /\ s \in EepSlaves /\ CallSound(s) /\ InterfaceSound(s) /\ job.kind # "none" /\ job \in Jobs
      /\ esc \in [EepSlaves -> Interfaces] /\ ctx \in Contexts /\ job.a \in Addresses
      /\ mem \in [EepSlaves -> [Addresses -> Words]] /\ CacheSound /\ mem' = mem /\ ctx' = ctx /\ esc' = esc
      /\ job.pc = "wait2"
  BY <1>s, UnderWay DEF SecondWait, EepSound
<1>1. PICK seen \in Outcomes :
        /\ WaitNotBusy(seen)
        /\ CASE seen = "busy" -> Repeat(job.nacks)
             [] seen = "nack" -> Repeat(job.nacks + 1)
             [] seen = "idle" -> Answered
  BY DEF SecondWait
<1>2. ~job.ok /\ job.kind # "release"
  BY <1>0 DEF CallSound, Jobs
<1>3. ASSUME NEW n \in Nat, Repeat(n)
      PROVE  /\ job' \in Jobs /\ job'.kind = job.kind /\ job'.s = s /\ job'.a = job.a
             /\ job'.val = job.val /\ ~job'.ok
             /\ job'.pc = "fill" \/ job'.pc = (IF job.kind = "write" THEN "data" ELSE "command")
  <2> DEFINE p == IF n > 0 /\ n < 3 THEN Command ELSE "fill"
  <2>1. p = "fill" \/ p = (IF job.kind = "write" THEN "data" ELSE "command")
    BY DEF Command
  <2> HIDE DEF p
  <2>2. job' = [job EXCEPT !.nacks = n, !.pc = p]
    BY <1>3 DEF Repeat, p
  <2>3. job' = [kind |-> job.kind, s |-> job.s, a |-> job.a, pc |-> p, nacks |-> n,
                val |-> job.val, ok |-> job.ok, restore |-> job.restore]
    BY <1>0, <2>2 DEF Jobs
  <2>4. p \in {"fill", "data", "command"}
    BY <2>1
  <2>5. job' \in Jobs
    BY <1>0, <2>3, <2>4 DEF Jobs
  <2> QED BY <1>s, <1>2, <2>1, <2>3, <2>5
<1>4. CASE seen \in {"busy", "nack"}
  <2>1. /\ job' \in Jobs /\ job'.kind = job.kind /\ job'.s = s /\ job'.a = job.a
        /\ job'.val = job.val /\ ~job'.ok
        /\ job'.pc = "fill" \/ job'.pc = (IF job.kind = "write" THEN "data" ELSE "command")
    <3>1. job.nacks \in Nat /\ job.nacks + 1 \in Nat
      BY <1>0 DEF Jobs
    <3>2. Repeat(job.nacks) \/ Repeat(job.nacks + 1)
      BY <1>1, <1>4
    <3> QED BY <1>3, <3>1, <3>2
  <2>2. EepTypes' /\ CacheSound' /\ InterfaceSound(s)'
    BY <1>0, <2>1 DEF EepTypes, CacheSound, InterfaceSound
  <2>3. CallSound(s)'
    BY <1>0, <2>1 DEF CallSound, Ours
  <2> QED BY <1>0, <2>1, <2>2, <2>3, Assembled
<1>5. CASE seen = "idle"
  <2>1. ~esc[s].busy /\ ~esc[s].nack /\ Performed(s)
    BY <1>s, <1>0, <1>1, <1>5, WaitSees DEF CallSound
  <2>2. Answered
    BY <1>1, <1>5
  <2>3. /\ job' \in Jobs /\ job'.kind = job.kind /\ job'.s = s /\ job'.a = job.a /\ job'.val = job.val
        /\ IF job.kind = "write" THEN job'.pc = "fill" /\ job'.ok ELSE job'.pc = "read" /\ ~job'.ok
    <3>1. CASE job.kind = "write"
      <4>1. job' = [kind |-> job.kind, s |-> job.s, a |-> job.a, pc |-> "fill", nacks |-> 0,
                    val |-> job.val, ok |-> TRUE, restore |-> job.restore]
        BY <1>0, <2>2, <3>1 DEF Jobs, Answered
      <4>2. job' \in Jobs
        BY <1>0, <4>1 DEF Jobs
      <4> QED BY <1>s, <3>1, <4>1, <4>2
    <3>2. CASE job.kind # "write"
      <4>1. job' = [kind |-> job.kind, s |-> job.s, a |-> job.a, pc |-> "read", nacks |-> 0,
                    val |-> job.val, ok |-> job.ok, restore |-> job.restore]
        BY <1>0, <2>2, <3>2 DEF Jobs, Answered
      <4>2. job' \in Jobs
        BY <1>0, <4>1 DEF Jobs
      <4> QED BY <1>s, <1>2, <3>2, <4>1, <4>2
    <3> QED BY <3>1, <3>2
  <2>4. EepTypes' /\ CacheSound' /\ InterfaceSound(s)'
    BY <1>0, <2>3 DEF EepTypes, CacheSound, InterfaceSound
  <2>5. \A a : ChunkAt(s, a)' = ChunkAt(s, a)
    BY <1>0, ChunkKept
  <2>6. CallSound(s)'
    BY <1>0, <1>2, <2>1, <2>3, <2>5 DEF CallSound, Performed
  <2> QED BY <1>0, <2>3, <2>4, <2>6, Assembled
<1> QED BY <1>4, <1>5 DEF Outcomes

(* The data of a read.                                                     *)
LEMMA ReadKeeps ==
  ASSUME EepSound, ReadData PROVE EepSound'
<1>s. PICK s : s = job.s
  OBVIOUS
<1>0. /\ s \in EepSlaves /\ CallSound(s) /\ InterfaceSound(s) /\ job.kind # "none" /\ job \in Jobs
      /\ esc \in [EepSlaves -> Interfaces] /\ ctx \in Contexts /\ job.a \in Addresses
      /\ mem \in [EepSlaves -> [Addresses -> Words]] /\ CacheSound /\ mem' = mem /\ ctx' = ctx /\ esc' = esc
      /\ job.pc = "read"
  BY <1>s, UnderWay DEF ReadData, EepSound
<1>1. /\ ~esc[s].busy /\ esc[s].reg = ChunkAt(s, job.a) /\ ~job.ok /\ job.kind \notin {"write", "release"}
  BY <1>0 DEF CallSound, Performed, Jobs
<1>2. \A a : ChunkAt(s, a)' = ChunkAt(s, a)
  BY <1>0, ChunkKept
<1>3. /\ esc[s].reg \in [0..(Chunk[s] - 1) -> Words] /\ esc[s].reg \in Registers
      /\ \A k \in 0..(Chunk[s] - 1) : job.a + k < EepWords =>
           esc[s].reg[k] \in TrueWords(s, job.a + k)
  BY <1>0, <1>1, ChunkTypes DEF InterfaceSound
<1>4. /\ job' \in Jobs /\ job'.pc = "fill" /\ job'.kind = job.kind /\ job'.s = s /\ job'.a = job.a
      /\ \/ job'.val = esc[s].reg /\ job'.ok
         \/ job'.val = job.val /\ ~job'.ok
  <2>1. CASE job' = [job EXCEPT !.pc = "fill", !.val = esc[s].reg, !.ok = TRUE]
    <3>1. job' = [kind |-> job.kind, s |-> job.s, a |-> job.a, pc |-> "fill", nacks |-> job.nacks,
                  val |-> esc[s].reg, ok |-> TRUE, restore |-> job.restore]
      BY <1>0, <2>1 DEF Jobs
    <3>2. job' \in Jobs
      BY <1>0, <1>3, <3>1 DEF Jobs
    <3> QED BY <1>s, <3>1, <3>2
  <2>2. CASE To("fill")
    BY <1>s, <1>0, <1>1, <2>2, GoesTo
  <2> QED BY <1>s, <2>1, <2>2 DEF ReadData, Target
<1>5. EepTypes' /\ CacheSound' /\ InterfaceSound(s)'
  BY <1>0, <1>4 DEF EepTypes, CacheSound, InterfaceSound
<1>6. CallSound(s)'
  <2>1. CASE job'.val = esc[s].reg /\ job'.ok
    BY <1>0, <1>1, <1>2, <1>3, <1>4, <2>1 DEF CallSound
  <2>2. CASE job'.val = job.val /\ ~job'.ok
    BY <1>0, <1>1, <1>4, <2>2 DEF CallSound
  <2> QED BY <1>4, <2>1, <2>2
<1> QED BY <1>0, <1>4, <1>5, <1>6, Assembled

(* What was read goes into the cache of the slave it was read from.        *)
LEMMA FillKeeps ==
  ASSUME EepSound, FillCache PROVE EepSound'
<1>s. PICK s : s = job.s
  OBVIOUS
<1>0. /\ s \in EepSlaves /\ CallSound(s) /\ InterfaceSound(s) /\ job.kind # "none" /\ job \in Jobs
      /\ esc \in [EepSlaves -> Interfaces] /\ ctx \in Contexts /\ job.a \in Addresses
      /\ mem \in [EepSlaves -> [Addresses -> Words]] /\ CacheSound /\ mem' = mem /\ esc' = esc
      /\ job.pc = "fill"
  BY <1>s, UnderWay DEF FillCache, EepSound
<1>1. /\ job' \in Jobs /\ job'.pc = "restore" /\ job'.kind = job.kind /\ job'.s = s /\ job'.a = job.a
      /\ job'.val = job.val /\ job'.ok = job.ok
  BY <1>s, <1>0, GoesTo DEF FillCache
<1> DEFINE from == {a \in Addresses : job.a <= a /\ a < job.a + Chunk[s]}
           filled == [a \in DOMAIN ctx.cache \cup from |->
                        IF a \in from THEN job.val[a - job.a] ELSE ctx.cache[a]]
<1>2. ctx' = IF job.kind \notin {"get", "find"} THEN ctx ELSE [ctx EXCEPT !.cache = filled]
  BY <1>s DEF FillCache, Target
<1>3. /\ ctx.pdi \in [EepSlaves -> BOOLEAN] /\ ctx.of \in Sources /\ ctx.cache \in Caches
  BY <1>0 DEF Contexts
<1>4. PICK A \in SUBSET Addresses : ctx.cache \in [A -> Words]
  BY <1>3 DEF Caches
<1>5. ASSUME NEW a \in from
      PROVE  /\ a - job.a \in 0..(Chunk[s] - 1) /\ job.a + (a - job.a) = a /\ a < EepWords
             /\ job.val[a - job.a] \in Words /\ job.val[a - job.a] \in TrueWords(s, a) \cup {Zero}
  <2>1. a \in Int /\ job.a \in Int /\ Chunk[s] \in Int /\ a < EepWords
    BY <1>0, EepromAssumption DEF Addresses
  <2>2. a - job.a \in 0..(Chunk[s] - 1) /\ job.a + (a - job.a) = a
    BY <2>1
  <2> QED BY <1>0, <2>1, <2>2 DEF CallSound
<1>6. filled \in [A \cup from -> Words]
  BY <1>4, <1>5
<1>7. filled \in Caches
  BY <1>6 DEF Caches
<1>8. ctx.of = s => \A a \in DOMAIN filled : filled[a] \in TrueWords(s, a) \cup {Zero}
  BY <1>0, <1>5 DEF CacheSound
<1> HIDE DEF filled, from
<1>9. ctx' \in Contexts /\ ctx'.pdi = ctx.pdi /\ ctx'.of = ctx.of /\ CacheSound'
  <2>1. CASE job.kind \notin {"get", "find"}
    BY <1>0, <1>2, <2>1 DEF CacheSound
  <2>2. CASE job.kind \in {"get", "find"}
    <3>1. ctx' = [pdi |-> ctx.pdi, of |-> ctx.of, cache |-> filled]
      BY <1>0, <1>2, <2>2 DEF Contexts
    <3>2. ctx.of = s
      BY <1>0, <2>2 DEF CallSound
    <3> QED BY <1>3, <1>7, <1>8, <3>1, <3>2 DEF Contexts, CacheSound
  <2> QED BY <2>1, <2>2
<1>10. EepTypes' /\ InterfaceSound(s)'
  BY <1>0, <1>1, <1>9 DEF EepTypes, InterfaceSound
<1>11. \A a : ChunkAt(s, a)' = ChunkAt(s, a)
  BY <1>0, ChunkKept
<1>12. CallSound(s)'
  BY <1>0, <1>1, <1>9, <1>11 DEF CallSound
<1> QED BY <1>0, <1>1, <1>9, <1>10, <1>12, Assembled

(* ecx_eeprom2pdi *)
LEMMA GiveBackKeeps ==
  ASSUME eep \in EepCounts, EepSound, GiveBack, ~eep'.blind PROVE EepSound'
<1>s. PICK s : s = job.s
  OBVIOUS
<1>0. /\ s \in EepSlaves /\ CallSound(s) /\ InterfaceSound(s) /\ job.kind # "none" /\ job \in Jobs
      /\ esc \in [EepSlaves -> Interfaces] /\ ctx \in Contexts /\ job.a \in Addresses
      /\ mem \in [EepSlaves -> [Addresses -> Words]] /\ CacheSound /\ mem' = mem
      /\ job.pc \in {"restore", "release"}
  BY <1>s, UnderWay DEF GiveBack, EepSound
<1>1. /\ job' \in Jobs /\ job'.pc = "done" /\ job'.kind = job.kind /\ job'.s = s /\ job'.a = job.a
      /\ job'.val = job.val /\ job'.ok = job.ok
  BY <1>s, <1>0, GoesTo DEF GiveBack
<1>2. /\ esc' \in [EepSlaves -> Interfaces] /\ ctx' \in Contexts /\ ctx'.of = ctx.of
      /\ ctx'.cache = ctx.cache /\ ctx'.pdi[s] = (esc'[s].owner = "pdi")
      /\ esc'[s].busy = esc[s].busy /\ esc'[s].nack = esc[s].nack /\ esc'[s].cmd = esc[s].cmd
      /\ esc'[s].reg = esc[s].reg /\ esc'[s].addr = esc[s].addr
      /\ \A x \in EepSlaves \ {s} : esc'[x] = esc[x] /\ ctx'.pdi[x] = ctx.pdi[x]
  <2>1. CASE UNCHANGED <<esc, ctx>>
    BY <1>0, <2>1 DEF InterfaceSound
  <2>2. CASE ctx' = [ctx EXCEPT !.pdi[s] = TRUE] /\ esc' = [esc EXCEPT ![s].owner = "pdi"]
    <3>1. ctx' = [pdi |-> [ctx.pdi EXCEPT ![s] = TRUE], of |-> ctx.of, cache |-> ctx.cache]
      BY <1>0, <2>2 DEF Contexts
    <3>2. ctx.pdi \in [EepSlaves -> BOOLEAN] /\ ctx.of \in Sources /\ ctx.cache \in Caches
      BY <1>0 DEF Contexts
    <3>3. ctx' \in Contexts /\ ctx'.pdi[s] = TRUE /\ \A x \in EepSlaves \ {s} : ctx'.pdi[x] = ctx.pdi[x]
      BY <1>0, <3>1, <3>2 DEF Contexts
    <3>4. esc' \in [EepSlaves -> Interfaces]
      BY <1>0, <2>2 DEF Interfaces
    <3>5. esc'[s] = [esc[s] EXCEPT !.owner = "pdi"] /\ \A x \in EepSlaves \ {s} : esc'[x] = esc[x]
      BY <1>0, <2>2
    <3>6. esc[s] \in Interfaces
      BY <1>0
    <3>7. /\ esc'[s].owner = "pdi" /\ esc'[s].busy = esc[s].busy /\ esc'[s].nack = esc[s].nack
          /\ esc'[s].cmd = esc[s].cmd /\ esc'[s].reg = esc[s].reg /\ esc'[s].addr = esc[s].addr
      BY <3>5, <3>6 DEF Interfaces
    <3> QED BY <3>1, <3>3, <3>4, <3>5, <3>7
  <2>3. ~EepFault("own")
    BY SeenFaults DEF EepCounts
  <2> QED BY <1>s, <2>1, <2>2, <2>3 DEF GiveBack, Target, Own
<1>3. EepTypes'
  BY <1>0, <1>1, <1>2 DEF EepTypes
<1>4. InterfaceSound(s)' /\ CacheSound'
  BY <1>0, <1>2 DEF InterfaceSound, CacheSound
<1>5. \A a : ChunkAt(s, a)' = ChunkAt(s, a)
  BY <1>0, ChunkKept
<1>6. CallSound(s)'
  BY <1>0, <1>1, <1>2, <1>5 DEF CallSound
<1> QED BY <1>0, <1>1, <1>2, <1>3, <1>4, <1>6, Assembled

(* An interface finishes a command: of the call under way, or one that an  *)
(* earlier call gave up waiting for.                                       *)
LEMMA FinishKeeps ==
  ASSUME EepSound, NEW s \in EepSlaves, Finishes(s) PROVE EepSound'
<1>0. /\ mem \in [EepSlaves -> [Addresses -> Words]] /\ esc \in [EepSlaves -> Interfaces]
      /\ ctx \in Contexts /\ job \in Jobs /\ CacheSound /\ JobSound
      /\ \A x \in EepSlaves : InterfaceSound(x)
      /\ esc[s].busy /\ ctx' = ctx /\ job' = job
  BY DEF EepSound, EepTypes, Finishes
<1>1. /\ esc[s] \in Interfaces /\ esc[s].addr \in Addresses /\ ~esc[s].nack
      /\ esc[s].cmd \in {"read", "write"}
  BY <1>0 DEF Interfaces, InterfaceSound
<1>2. /\ ChunkAt(s, esc[s].addr) \in Registers
  BY <1>0, <1>1, ChunkTypes
<1>3. /\ esc' \in [EepSlaves -> Interfaces] /\ mem' \in [EepSlaves -> [Addresses -> Words]]
      /\ \A x \in EepSlaves \ {s} : esc'[x] = esc[x] /\ mem'[x] = mem[x]
      /\ esc'[s].owner = esc[s].owner /\ ~esc'[s].busy
      /\ \/ esc'[s].nack /\ esc'[s].reg = esc[s].reg /\ mem' = mem
         \/ esc[s].cmd = "read" /\ esc'[s].reg = ChunkAt(s, esc[s].addr) /\ mem' = mem
         \/ /\ esc[s].cmd = "write" /\ esc'[s].reg = esc[s].reg
            /\ mem'[s] = [mem[s] EXCEPT ![esc[s].addr] = NewWord(s, esc[s].addr)]
  <2>1. CASE esc' = [esc EXCEPT ![s].busy = FALSE, ![s].nack = TRUE] /\ mem' = mem
    <3>1. PICK d : d = [esc[s] EXCEPT !.busy = FALSE, !.nack = TRUE]
      OBVIOUS
    <3>2. d \in Interfaces /\ d.owner = esc[s].owner /\ ~d.busy /\ d.nack /\ d.reg = esc[s].reg
      BY <1>1, <3>1 DEF Interfaces
    <3>3. esc' = [esc EXCEPT ![s] = d]
      BY <1>0, <2>1, <3>1
    <3> QED BY <1>0, <2>1, <3>2, <3>3
  <2>2. CASE /\ esc[s].cmd = "read" /\ mem' = mem
             /\ esc' = [esc EXCEPT ![s].busy = FALSE, ![s].reg = ChunkAt(s, esc[s].addr)]
    <3>1. PICK d : d = [esc[s] EXCEPT !.busy = FALSE, !.reg = ChunkAt(s, esc[s].addr)]
      OBVIOUS
    <3>2. /\ d \in Interfaces /\ d.owner = esc[s].owner /\ ~d.busy
          /\ d.reg = ChunkAt(s, esc[s].addr)
      BY <1>1, <1>2, <3>1 DEF Interfaces
    <3>3. esc' = [esc EXCEPT ![s] = d]
      BY <1>0, <2>2, <3>1
    <3> QED BY <1>0, <2>2, <3>2, <3>3
  <2>3. CASE /\ esc[s].cmd # "read" /\ mem' = [mem EXCEPT ![s][esc[s].addr] = esc[s].reg[0]]
             /\ esc' = [esc EXCEPT ![s].busy = FALSE]
    <3>1. PICK d : d = [esc[s] EXCEPT !.busy = FALSE]
      OBVIOUS
    <3>2. d \in Interfaces /\ d.owner = esc[s].owner /\ ~d.busy /\ d.reg = esc[s].reg
      BY <1>1, <3>1 DEF Interfaces
    <3>3. esc' = [esc EXCEPT ![s] = d]
      BY <1>0, <2>3, <3>1
    <3>4. esc[s].cmd = "write" /\ esc[s].reg[0] = NewWord(s, esc[s].addr)
      BY <1>0, <1>1, <2>3 DEF InterfaceSound
    <3>5. NewWord(s, esc[s].addr) \in Words
      BY <1>1, WordTypes
    <3>6. /\ mem' \in [EepSlaves -> [Addresses -> Words]]
          /\ \A x \in EepSlaves \ {s} : mem'[x] = mem[x]
          /\ mem'[s] = [mem[s] EXCEPT ![esc[s].addr] = NewWord(s, esc[s].addr)]
      BY <1>0, <1>1, <2>3, <3>4, <3>5
    <3> QED BY <1>0, <3>2, <3>3, <3>4, <3>6
  <2> QED BY <2>1, <2>2, <2>3 DEF Finishes
<1>4. EepTypes' /\ CacheSound'
  BY <1>0, <1>3 DEF EepTypes, CacheSound
<1>5. InterfaceSound(s)'
  BY <1>0, <1>1, <1>3 DEF InterfaceSound, TrueWords
<1>6. \A x \in EepSlaves : InterfaceSound(x)'
  BY <1>0, <1>3, <1>5, InterfaceKept
<1>7. JobSound'
  <2>1. CASE job.kind = "none"
    BY <1>0, <2>1 DEF JobSound
  <2>2. CASE job.kind # "none" /\ job.s # s
    <3>1. \A a : ChunkAt(job.s, a)' = ChunkAt(job.s, a)
      BY <1>0, <1>3, <2>2, ChunkKept DEF JobSound
    <3> QED BY <1>0, <1>3, <2>2, <3>1 DEF JobSound, CallSound, Ours, Performed
  <2>3. CASE job.kind # "none" /\ job.s = s
    <3>1. CallSound(s) /\ job.a \in Addresses
      BY <1>0, <2>3 DEF JobSound, Jobs
    <3>2. ~job.ok /\ job.pc # "read"
      BY <1>0, <3>1 DEF CallSound
    <3>3. ASSUME job.pc = "wait2", ~esc'[s].nack PROVE Performed(s)'
      <4>1. Ours(s)
        BY <3>1, <3>3 DEF CallSound
      <4>2. CASE job.kind = "write"
        BY <1>0, <1>1, <1>3, <3>1, <3>3, <4>1, <4>2 DEF Ours, Performed
      <4>3. CASE job.kind # "write"
        <5>1. esc'[s].reg = ChunkAt(s, job.a) /\ mem' = mem
          BY <1>0, <1>3, <3>3, <4>1, <4>3 DEF Ours
        <5>2. ChunkAt(s, job.a)' = ChunkAt(s, job.a)
          BY <1>0, <5>1 DEF ChunkAt
        <5> QED BY <1>0, <4>3, <5>1, <5>2 DEF Performed
      <4> QED BY <4>2, <4>3
    <3>4. ASSUME job.pc = "command", job.kind = "write" PROVE esc'[s].reg[0] = NewWord(s, job.a)
      BY <1>0, <1>3, <3>1, <3>4 DEF CallSound, Ours
    <3>5. CallSound(s)'
      BY <1>0, <1>3, <3>1, <3>2, <3>3, <3>4 DEF CallSound, Ours
    <3> QED BY <1>0, <2>3, <3>5 DEF JobSound
  <2> QED BY <2>1, <2>2, <2>3
<1> QED BY <1>4, <1>6, <1>7 DEF EepSound

(* The counters and the history, over every step.                          *)
LEMMA CountsKept ==
  ASSUME eep \in EepCounts, EepNext PROVE eep' \in EepCounts /\ (eep.blind => eep'.blind)
<1>1. ASSUME EepFine PROVE eep' \in EepCounts /\ (eep.blind => eep'.blind)
  BY <1>1 DEF EepFine
<1>2. ASSUME NEW kind, EepFault(kind) PROVE eep' \in EepCounts /\ (eep.blind => eep'.blind)
  <2>1. PICK m \in BOOLEAN : eep' = [eep EXCEPT !.faults = @ + 1, !.blind = m] /\ (eep.blind => m)
    BY <1>2, Zenon DEF EepFault
  <2>2. eep' = [faults |-> eep.faults + 1, jobs |-> eep.jobs, blind |-> m]
    BY <2>1 DEF EepCounts
  <2>3. eep.faults \in Nat /\ eep.jobs \in Nat
    BY DEF EepCounts
  <2> QED BY <2>1, <2>2, <2>3 DEF EepCounts
<1>3. ASSUME NEW kind, NEW s, NEW a, CallEeprom(kind, s, a)
      PROVE  eep' \in EepCounts /\ (eep.blind => eep'.blind)
  <2>1. eep' = [eep EXCEPT !.jobs = @ + 1]
    BY <1>3 DEF CallEeprom
  <2> QED BY <2>1 DEF EepCounts
<1>4. ASSUME NEW seen, WaitNotBusy(seen) PROVE eep' \in EepCounts /\ (eep.blind => eep'.blind)
  BY <1>1, <1>2, <1>4 DEF WaitNotBusy
<1>5. CASE EepMaster
  BY <1>1, <1>2, <1>4, <1>5 DEF EepMaster, TakeOwnership, FirstWait, WriteData, SendCommand, SecondWait,
       ReadData, FillCache, GiveBack
<1>6. CASE \E s \in EepSlaves : Finishes(s)
  BY <1>1, <1>2, <1>6 DEF Finishes
<1> QED BY <1>3, <1>5, <1>6 DEF EepNext

(* Every step of the EEPROM interface keeps the invariant.                 *)
LEMMA EepStepInv == EepInv /\ [EepNext]_eepvars => EepInv'
<1> SUFFICES ASSUME EepInv, [EepNext]_eepvars PROVE EepInv'
  OBVIOUS
<1>1. CASE UNCHANGED eepvars
  BY <1>1 DEF eepvars, EepInv, EepSound, EepTypes, InterfaceSound, CacheSound, JobSound, CallSound,
              Ours, Performed, ChunkAt
<1>2. CASE EepNext
  <2>1. eep \in EepCounts /\ eep' \in EepCounts /\ (eep.blind => eep'.blind)
    BY <1>2, CountsKept DEF EepInv, EepCounts
  <2>2. SUFFICES ASSUME ~eep'.blind PROVE EepSound'
    BY <2>1 DEF EepInv, EepCounts
  <2>3. EepSound
    BY <2>1, <2>2 DEF EepInv
  <2>4. CASE \E kind \in {"get", "find", "read", "write"}, s \in EepSlaves, a \in Addresses :
               CallEeprom(kind, s, a)
    BY <2>3, <2>4, CallKeeps
  <2>5. CASE \E s \in EepSlaves : CallEeprom("release", s, 0)
    <3>1. 0 \in Addresses
      BY EepromAssumption DEF Addresses
    <3> QED BY <2>3, <2>5, <3>1, CallKeeps
  <2>6. CASE EepMaster
    BY <2>1, <2>2, <2>3, <2>6, OwnershipKeeps, FirstWaitKeeps, DataKeeps, CommandKeeps, SecondWaitKeeps,
       ReadKeeps, FillKeeps, GiveBackKeeps DEF EepMaster
  <2>7. CASE \E s \in EepSlaves : Finishes(s)
    BY <2>3, <2>7, FinishKeeps
  <2> QED BY <1>2, <2>4, <2>5, <2>6, <2>7 DEF EepNext
<1> QED BY <1>1, <1>2

(* What the invariant says of the calls that returned.                     *)
LEMMA EepInvGivesTruth == EepInv => EepromIsTrue
<1> SUFFICES ASSUME EepInv PROVE EepromIsTrue
  OBVIOUS
<1>1. ASSUME ~eep.blind
      PROVE  /\ \A s \in EepSlaves : InterfaceSound(s)
             /\ CacheSound /\ (job.kind # "none" => job.s \in EepSlaves /\ CallSound(job.s))
             /\ job.a \in Addresses
  BY <1>1 DEF EepInv, EepSound, EepTypes, JobSound, Jobs
<1>2. ReadIsTrue
  BY <1>1 DEF ReadIsTrue, Returned, CallSound
<1>3. CacheIsTrue
  <2>1. ~eep.blind => \A a \in DOMAIN ctx.cache : ctx.cache[a] \in {Word(ctx.of, a), NewWord(ctx.of, a), Zero}
    BY <1>1 DEF CacheSound, TrueWords
  <2>2. ASSUME Returned, job.kind \in {"get", "find"}
        PROVE  job.val[0] \in {Word(job.s, job.a), NewWord(job.s, job.a), Zero}
    <3>1. job.s \in EepSlaves /\ CallSound(job.s) /\ job.a \in Addresses
      BY <1>1, <2>2 DEF Returned
    <3>2. 0 \in 0..(Chunk[job.s] - 1) /\ job.a + 0 = job.a /\ job.a < EepWords
      BY <3>1, EepromAssumption DEF Addresses
    <3>3. job.val[0] \in TrueWords(job.s, job.a) \cup {Zero}
      BY <3>1, <3>2 DEF CallSound
    <3> QED BY <3>3 DEF TrueWords
  <2> QED BY <2>1, <2>2 DEF CacheIsTrue
<1>4. WritesLand
  BY <1>1 DEF WritesLand, Returned, CallSound, InterfaceSound, TrueWords
<1>5. OwnerIsKnown
  BY <1>1 DEF OwnerIsKnown, Returned, InterfaceSound
<1> QED BY <1>2, <1>3, <1>4, <1>5 DEF EepromIsTrue

(***************************************************************************)
(* ecx_readeeprom, ecx_writeeeprom, ecx_siigetbyte and their ownership     *)
(* calls, for any slaves, addresses, chunks, and any order and number of   *)
(* calls, NACKs, time-outs and lost answers: a successful read is of the   *)
(* slave and address it was asked for, a successful write has landed and   *)
(* no other word ever changes, the cache holds words of its own slave, and *)
(* eep_pdi is right.  Left out is only what the code itself does not see   *)
(* (eep.blind).                                                            *)
(***************************************************************************)
THEOREM EepromStaysTrue == EepSpec => []EepromIsTrue
BY EepInitInv, EepStepInv, EepInvGivesTruth, PTL DEF EepSpec
-----------------------------------------------------------------------------
(***************************************************************************)
(* The recovery of slaves.                                                 *)
(***************************************************************************)
AlStates == {InitSt, PreOp, SafeOp, Op}
Devices == [on : BOOLEAN, addr : Nat, st : AlStates, err : BOOLEAN, req : AlStates \cup {None},
            sm : BOOLEAN, fmmu : BOOLEAN, ident : {Identity[i] : i \in Slots} \cup {Stranger}]
Beliefs == [state : AlStates \cup {None}, err : BOOLEAN, lost : BOOLEAN]
Workers == [pc : {"start", "startwait", "cycle", "read", "slave", "init", "sm", "preop", "safeop",
                  "fmmu", "temp", "identity"},
            at : Slots, operational : BOOLEAN, missed : SUBSET Slots]

(* A device in slot i: the one configured there or a stranger, under its   *)
(* own address, the temporary one or none.  A stranger is never asked for  *)
(* anything but OP, and so stays in INIT.                                  *)
DeviceOk(i, d) ==
  /\ d \in Devices /\ d.ident \in {Identity[i], Stranger} /\ d.addr \in {NoAddress, i, TempNode}
  /\ d.ident = Stranger => d.addr # i /\ d.st = InitSt /\ d.req \in {None, Op}
  /\ d.st = Op => d.sm

(* It has its FMMUs, or is not on its way to SAFE_OP without them, or they *)
(* are about to be written before anybody asks for OP, or were missed.     *)
Configured(d) == d.fmmu \/ (d.st \in {InitSt, PreOp} /\ d.req # SafeOp)
BelowOp(d) == d.st # Op /\ d.req # Op
Excused(i) == (wk.pc = "fmmu" /\ wk.at = i /\ BelowOp(dev[i])) \/ i \in wk.missed

StInv ==
  /\ wk \in Workers /\ sl \in [0..NumSlaves -> Beliefs] /\ DOMAIN dev = Slots
  /\ dev = [i \in Slots |-> dev[i]]
  /\ \A i \in Slots : DeviceOk(i, dev[i]) /\ (Configured(dev[i]) \/ Excused(i))

(* The slaves are told apart by alias, product, vendor and revision.       *)
ToldApart == \A i, j \in Slots : Identity[i] = Identity[j] => i = j

(* Addresses of slots, the temporary one and none are different.           *)
LEMMA AddressesDiffer ==
  /\ NumSlaves \in Nat \ {0} /\ TempNode \in Nat /\ NoAddress \in Nat /\ NoAddress # TempNode
  /\ \A i \in Slots : i \in Nat /\ i # NoAddress /\ i # TempNode /\ Identity[i] # Stranger
  /\ \A i \in Slots : i \in 0..NumSlaves
BY StatesAssumption DEF TempNode, NoAddress, Slots

(* The states are different numbers.                                       *)
LEMMA StatesDiffer ==
  /\ None # InitSt /\ None # PreOp /\ None # SafeOp /\ None # Op
  /\ InitSt # PreOp /\ InitSt # SafeOp /\ InitSt # Op /\ PreOp # SafeOp /\ PreOp # Op /\ SafeOp # Op
BY DEF None, InitSt, PreOp, SafeOp, Op

(* A request to a device.                                                  *)
LEMMA WithRequest ==
  ASSUME NEW i \in Slots, NEW d, DeviceOk(i, d), NEW r \in AlStates, d.ident = Stranger => r = Op,
         NEW e, e = [d EXCEPT !.req = r]
  PROVE  /\ DeviceOk(i, e)
         /\ Configured(d) => Configured(e) \/ (r = SafeOp /\ BelowOp(e))
<1>1. e = [on |-> d.on, addr |-> d.addr, st |-> d.st, err |-> d.err, req |-> r, sm |-> d.sm,
           fmmu |-> d.fmmu, ident |-> d.ident]
  BY DEF DeviceOk, Devices
<1>2. e \in Devices
  BY <1>1 DEF DeviceOk, Devices
<1> QED BY <1>1, <1>2, StatesDiffer DEF DeviceOk, Configured, BelowOp

(* A new address: the device's own, the temporary one or none.             *)
LEMMA WithAddress ==
  ASSUME NEW i \in Slots, NEW d, DeviceOk(i, d), NEW a \in {NoAddress, i, TempNode},
         d.ident = Stranger => a # i, NEW e, e = [d EXCEPT !.addr = a]
  PROVE  DeviceOk(i, e) /\ (Configured(d) => Configured(e))
<1>1. e = [on |-> d.on, addr |-> a, st |-> d.st, err |-> d.err, req |-> d.req, sm |-> d.sm,
           fmmu |-> d.fmmu, ident |-> d.ident]
  BY DEF DeviceOk, Devices
<1>2. e \in Devices
  BY <1>1, AddressesDiffer DEF DeviceOk, Devices
<1> QED BY <1>1, <1>2 DEF DeviceOk, Configured

(* Its sync managers, its FMMUs and its error.                             *)
LEMMA WithSyncManagers ==
  ASSUME NEW i \in Slots, NEW d, DeviceOk(i, d), d.ident # Stranger, NEW s \in BOOLEAN,
         NEW e, e = [d EXCEPT !.sm = @ \/ s, !.req = PreOp]
  PROVE  DeviceOk(i, e) /\ (Configured(d) => Configured(e))
<1>1. PICK m \in BOOLEAN : e = [d EXCEPT !.sm = m, !.req = PreOp] /\ (d.sm => m)
  BY Zenon
<1>2. e = [on |-> d.on, addr |-> d.addr, st |-> d.st, err |-> d.err, req |-> PreOp, sm |-> m,
           fmmu |-> d.fmmu, ident |-> d.ident]
  BY <1>1 DEF DeviceOk, Devices
<1>3. e \in Devices
  BY <1>2 DEF DeviceOk, Devices, AlStates
<1> QED BY <1>1, <1>2, <1>3, StatesDiffer DEF DeviceOk, Configured

(* A device whose FMMUs are written is configured.                         *)
LEMMA WithFmmus ==
  ASSUME NEW i \in Slots, NEW d, DeviceOk(i, d), NEW e, e = [d EXCEPT !.fmmu = TRUE]
  PROVE  DeviceOk(i, e) /\ Configured(e)
<1>1. e = [on |-> d.on, addr |-> d.addr, st |-> d.st, err |-> d.err, req |-> d.req, sm |-> d.sm,
           fmmu |-> TRUE, ident |-> d.ident]
  BY DEF DeviceOk, Devices
<1>2. e \in Devices
  BY <1>1 DEF DeviceOk, Devices
<1> QED BY <1>1, <1>2 DEF DeviceOk, Configured

(* An acknowledged error leaves the rest of a device alone.                *)
LEMMA WithoutError ==
  ASSUME NEW i \in Slots, NEW d, DeviceOk(i, d), NEW e, e = [d EXCEPT !.err = FALSE]
  PROVE  DeviceOk(i, e) /\ (Configured(d) => Configured(e))
<1>1. e = [on |-> d.on, addr |-> d.addr, st |-> d.st, err |-> FALSE, req |-> d.req, sm |-> d.sm,
           fmmu |-> d.fmmu, ident |-> d.ident]
  BY DEF DeviceOk, Devices
<1>2. e \in Devices
  BY <1>1 DEF DeviceOk, Devices
<1> QED BY <1>1, <1>2 DEF DeviceOk, Configured

(* The device follows a request or refuses it: OP only from SAFE_OP, with  *)
(* its sync managers.                                                      *)
LEMMA WhenItReacts ==
  ASSUME NEW i \in Slots, NEW d, DeviceOk(i, d), d.req # None, NEW e,
         e = IF Follows(d) THEN [d EXCEPT !.st = d.req, !.err = FALSE, !.req = None]
             ELSE [d EXCEPT !.err = TRUE, !.req = None]
  PROVE  DeviceOk(i, e) /\ (Configured(d) => Configured(e)) /\ (BelowOp(d) => BelowOp(e))
<1>0. d.st \in AlStates /\ d.req \in AlStates
  BY DEF DeviceOk, Devices
<1>1. CASE Follows(d)
  <2>1. e = [on |-> d.on, addr |-> d.addr, st |-> d.req, err |-> FALSE, req |-> None, sm |-> d.sm,
             fmmu |-> d.fmmu, ident |-> d.ident]
    BY <1>1 DEF DeviceOk, Devices
  <2>2. e \in Devices
    BY <1>0, <2>1 DEF DeviceOk, Devices
  <2>3. d.req = Op => d.st = Op \/ d.sm
    BY <1>0, <1>1 DEF Follows, AlStates, InitSt, PreOp, SafeOp, Op
  <2>4. d.st = InitSt => d.req # Op
    BY <1>0, <1>1 DEF Follows, AlStates, InitSt, PreOp, SafeOp, Op
  <2>5. d.st \in {InitSt, PreOp} /\ d.req # SafeOp => d.req \in {InitSt, PreOp}
    BY <1>0, <1>1 DEF Follows, AlStates, InitSt, PreOp, SafeOp, Op
  <2>6. DeviceOk(i, e)
    BY <1>0, <2>1, <2>2, <2>3, <2>4, StatesDiffer DEF DeviceOk
  <2> QED BY <2>1, <2>5, <2>6, StatesDiffer DEF Configured, BelowOp
<1>2. CASE ~Follows(d)
  <2>1. e = [on |-> d.on, addr |-> d.addr, st |-> d.st, err |-> TRUE, req |-> None, sm |-> d.sm,
             fmmu |-> d.fmmu, ident |-> d.ident]
    BY <1>2 DEF DeviceOk, Devices
  <2>2. e \in Devices
    BY <2>1 DEF DeviceOk, Devices
  <2>3. /\ e.addr = d.addr /\ e.st = d.st /\ e.req = None /\ e.sm = d.sm /\ e.fmmu = d.fmmu
        /\ e.ident = d.ident
    BY <1>2 DEF DeviceOk, Devices
  <2>4. DeviceOk(i, e)
    BY <2>2, <2>3 DEF DeviceOk
  <2> QED BY <2>3, <2>4, StatesDiffer DEF Configured, BelowOp
<1> QED BY <1>1, <1>2

(* A device that is powered off and on, or replaced.                       *)
LEMMA WhenUnpowered ==
  ASSUME NEW i \in Slots, NEW d, DeviceOk(i, d), NEW e, e = Unpowered(d)
  PROVE  /\ DeviceOk(i, e) /\ Configured(e) /\ BelowOp(e)
         /\ LET f == [e EXCEPT !.ident = Stranger]
            IN  DeviceOk(i, f) /\ Configured(f) /\ BelowOp(f)
<1>1. e = [on |-> d.on, addr |-> NoAddress, st |-> InitSt, err |-> FALSE, req |-> None, sm |-> FALSE,
           fmmu |-> FALSE, ident |-> d.ident]
  BY DEF DeviceOk, Devices, Unpowered
<1>2. e \in Devices /\ DeviceOk(i, e)
  BY <1>1, AddressesDiffer, StatesDiffer DEF DeviceOk, Devices, AlStates
<1>3. PICK f : f = [e EXCEPT !.ident = Stranger]
  OBVIOUS
<1>a. f = [on |-> e.on, addr |-> e.addr, st |-> e.st, err |-> e.err, req |-> e.req, sm |-> e.sm,
           fmmu |-> e.fmmu, ident |-> Stranger]
  BY <1>2, <1>3 DEF Devices
<1>b. e.addr = NoAddress /\ e.st = InitSt /\ e.req = None /\ e.sm = FALSE /\ e.fmmu = FALSE
  BY <1>1
<1>4. f \in Devices /\ f.addr = NoAddress /\ f.st = InitSt /\ f.req = None /\ f.ident = Stranger
  BY <1>2, <1>a, <1>b DEF Devices
<1>5. f \in Devices /\ DeviceOk(i, f)
  BY <1>4, AddressesDiffer, StatesDiffer DEF DeviceOk, Devices, AlStates
<1>6. Configured(e) /\ Configured(f) /\ BelowOp(e) /\ BelowOp(f)
  BY <1>b, <1>4, StatesDiffer DEF Configured, BelowOp
<1> QED BY <1>2, <1>3, <1>5, <1>6

(* A device that fails or is unplugged, and one that is plugged in.        *)
LEMMA WhenItDrops ==
  ASSUME NEW i \in Slots, NEW d, DeviceOk(i, d), NEW e, e = Drops(d)
  PROVE  DeviceOk(i, e) /\ (Configured(d) => Configured(e)) /\ (BelowOp(d) => BelowOp(e))
<1>1. CASE d.st = Op
  <2>1. e = [on |-> d.on, addr |-> d.addr, st |-> SafeOp, err |-> TRUE, req |-> d.req, sm |-> d.sm,
             fmmu |-> d.fmmu, ident |-> d.ident]
    BY <1>1 DEF DeviceOk, Devices, Drops
  <2>2. e \in Devices
    BY <2>1 DEF DeviceOk, Devices, AlStates
  <2> QED BY <1>1, <2>1, <2>2, StatesDiffer DEF DeviceOk, Configured, BelowOp
<1>2. CASE d.st # Op
  BY <1>2 DEF Drops
<1> QED BY <1>1, <1>2

(* A device that is unplugged keeps what it holds; a request is gone.      *)
LEMMA WhenUnplugged ==
  ASSUME NEW i \in Slots, NEW d, DeviceOk(i, d), NEW e, e = [d EXCEPT !.on = FALSE, !.req = None]
  PROVE  DeviceOk(i, e) /\ (Configured(d) => Configured(e)) /\ (BelowOp(d) => BelowOp(e))
<1>1. e = [on |-> FALSE, addr |-> d.addr, st |-> d.st, err |-> d.err, req |-> None, sm |-> d.sm,
           fmmu |-> d.fmmu, ident |-> d.ident]
  BY DEF DeviceOk, Devices
<1>2. e \in Devices
  BY <1>1 DEF DeviceOk, Devices
<1> QED BY <1>1, <1>2, StatesDiffer DEF DeviceOk, Configured, BelowOp

(* A device that comes back is as it was when it left.                     *)
LEMMA WhenPluggedIn ==
  ASSUME NEW i \in Slots, NEW d, DeviceOk(i, d), NEW e, e = [d EXCEPT !.on = TRUE]
  PROVE  DeviceOk(i, e) /\ (Configured(d) => Configured(e)) /\ (BelowOp(d) => BelowOp(e))
<1>1. e = [on |-> TRUE, addr |-> d.addr, st |-> d.st, err |-> d.err, req |-> d.req, sm |-> d.sm,
           fmmu |-> d.fmmu, ident |-> d.ident]
  BY DEF DeviceOk, Devices
<1>2. e \in Devices
  BY <1>1 DEF DeviceOk, Devices
<1> QED BY <1>1, <1>2 DEF DeviceOk, Configured, BelowOp

-----------------------------------------------------------------------------
(* Who is reached at the address of a slot: nobody but its own device.     *)
LEMMA Reaching ==
  ASSUME StInv
  PROVE  /\ \A a : Reached(a) \in AlStates \cup {None} /\ InError(a) \in BOOLEAN
         /\ \A a \in Slots : \A i \in At(a) : i = a /\ dev[i].ident # Stranger
         /\ \A a \in Slots : Reached(a) = Op => dev[a].on /\ dev[a].st = Op /\ dev[a].ident = Identity[a]
<1>0. \A i \in Slots : DeviceOk(i, dev[i])
  BY DEF StInv
<1>1. ASSUME NEW a, At(a) # {}
      PROVE  (CHOOSE i \in At(a) : TRUE) \in At(a)
  BY <1>1
<1>2. \A a, i : i \in At(a) => i \in Slots /\ dev[i].addr = a /\ dev[i].on
  BY DEF At
<1>3. \A a : Reached(a) \in AlStates \cup {None} /\ InError(a) \in BOOLEAN
  <2> TAKE a
  <2>1. CASE At(a) = {}
    BY <2>1 DEF Reached, InError
  <2>2. CASE At(a) # {}
    <3>1. PICK j \in Slots : j = (CHOOSE i \in At(a) : TRUE)
      BY <1>1, <1>2, <2>2
    <3>2. Reached(a) = dev[j].st /\ InError(a) = dev[j].err
      <4>1. Reached(a) = dev[j].st
        BY <2>2, <3>1 DEF Reached
      <4>2. dev[j].err \in BOOLEAN
        BY <1>0 DEF DeviceOk, Devices
      <4> QED BY <2>2, <3>1, <4>1, <4>2, Zenon DEF InError
    <3> QED BY <1>0, <3>2 DEF DeviceOk, Devices
  <2> QED BY <2>1, <2>2
<1>4. \A a \in Slots : \A i \in At(a) : i = a /\ dev[i].ident # Stranger
  BY <1>0, <1>2, AddressesDiffer DEF DeviceOk
<1>5. ASSUME NEW a \in Slots, Reached(a) = Op
      PROVE  dev[a].on /\ dev[a].st = Op /\ dev[a].ident = Identity[a]
  <2>1. At(a) # {}
    BY <1>5, StatesDiffer DEF Reached
  <2>2. PICK j \in Slots : j \in At(a) /\ j = (CHOOSE i \in At(a) : TRUE)
    BY <1>1, <1>2, <2>1
  <2>3. j = a /\ dev[j].ident # Stranger
    BY <1>4, <2>2
  <2>4. Reached(a) = dev[j].st
    BY <2>1, <2>2 DEF Reached
  <2> QED BY <1>0, <1>2, <1>5, <2>2, <2>3, <2>4 DEF DeviceOk
<1> QED BY <1>3, <1>4, <1>5

(* The worker goes on to another step or to the next slave.                *)
LEMMA WorkerGoesOn ==
  ASSUME wk \in Workers, NEW p, Go(p),
         p \in {"start", "startwait", "cycle", "read", "slave", "init", "sm", "preop", "safeop",
                "fmmu", "temp", "identity"}
  PROVE  wk' \in Workers /\ wk'.missed = wk.missed /\ wk'.at = wk.at /\ wk'.pc = p
BY DEF Go, Workers

(* The worker goes on to the next slave or to the next cycle, and has no   *)
(* FMMUs to write.                                                         *)
LEMMA AfterASlave ==
  ASSUME wk \in Workers
  PROVE  After \in Workers /\ After.missed = wk.missed /\ After.pc # "fmmu"
<1>0. wk.at \in Slots
  BY DEF Workers
<1>1. CASE wk.at = NumSlaves
  <2>1. After = [wk EXCEPT !.pc = "cycle", !.at = 1]
    BY <1>1 DEF After
  <2>2. 1 \in Slots
    BY StatesAssumption DEF Slots
  <2> QED BY <2>1, <2>2 DEF Workers
<1>2. CASE wk.at # NumSlaves
  <2>1. After = [wk EXCEPT !.pc = "slave", !.at = wk.at + 1]
    BY <1>2 DEF After, Workers
  <2>2. wk.at + 1 \in Slots
    BY <1>0, <1>2, StatesAssumption DEF Slots
  <2> QED BY <2>1, <2>2 DEF Workers
<1> QED BY <1>1, <1>2

(* What is believed of a slave is a belief.                                *)
LEMMA BeliefOf ==
  ASSUME NEW b \in Beliefs, NEW st \in AlStates \cup {None}, NEW err \in BOOLEAN
  PROVE  /\ Believe(b, st, err) \in Beliefs /\ Believe(b, st, err).state = st
BY DEF Believe, Beliefs

(* One slave's entry of slavelist is set to what was read.                 *)
LEMMA BelievedOf ==
  ASSUME sl \in [0..NumSlaves -> Beliefs], NEW j \in Slots, NEW st \in AlStates \cup {None},
         NEW err \in BOOLEAN, sl' = [sl EXCEPT ![j] = Believe(@, st, err)]
  PROVE  sl' \in [0..NumSlaves -> Beliefs]
BY AddressesDiffer, BeliefOf

(* The lowest of several states.                                           *)
LEMMA LowestFound ==
  ASSUME NEW S, S \subseteq AlStates \cup {None}, S # {}
  PROVE  Lowest(S) \in S /\ \A x \in S : Lowest(S) <= x
<1>1. \E s \in S : \A x \in S : s <= x
  <2>1. CASE None \in S
    BY <2>1 DEF AlStates, None, InitSt, PreOp, SafeOp, Op
  <2>2. CASE None \notin S /\ InitSt \in S
    BY <2>2 DEF AlStates, None, InitSt, PreOp, SafeOp, Op
  <2>3. CASE None \notin S /\ InitSt \notin S /\ PreOp \in S
    BY <2>3 DEF AlStates, None, InitSt, PreOp, SafeOp, Op
  <2>4. CASE None \notin S /\ InitSt \notin S /\ PreOp \notin S /\ SafeOp \in S
    BY <2>4 DEF AlStates, None, InitSt, PreOp, SafeOp, Op
  <2>5. CASE None \notin S /\ InitSt \notin S /\ PreOp \notin S /\ SafeOp \notin S
    <3>1. \A x \in S : x = Op
      BY <2>5 DEF AlStates
    <3>2. Op <= Op
      BY DEF Op
    <3> QED BY <3>1, <3>2
  <2> QED BY <2>1, <2>2, <2>3, <2>4, <2>5
<1> QED BY <1>1 DEF Lowest

(* ecx_readstate, one frame per slave: the states that are there, and the  *)
(* lowest of them for all.                                                 *)
LEMMA EachStateIs ==
  ASSUME StInv, NEW lost, sl' = EachState(lost)
  PROVE  /\ sl' \in [0..NumSlaves -> Beliefs]
         /\ \A i \in Slots : sl'[i].state = Op => Reached(i) = Op
         /\ \A i \in Slots : sl'[0].state <= sl'[i].state
<1> DEFINE got == [i \in Slots |-> IF i \in lost THEN Believe(sl[i], None, FALSE)
                                   ELSE Believe(sl[i], Reached(i), InError(i))]
           all == {got[j].state : j \in Slots}
<1>0. sl \in [0..NumSlaves -> Beliefs] /\ 0 \in 0..NumSlaves /\ 0 \notin Slots
      /\ \A i \in Slots : i \in 0..NumSlaves
  BY AddressesDiffer DEF StInv, Slots
<1>1. sl' = [i \in 0..NumSlaves |-> IF i = 0 THEN Believe(sl[0], Lowest(all), FALSE) ELSE got[i]]
  BY DEF EachState
<1>a. \A i \in Slots : got[i] = IF i \in lost THEN Believe(sl[i], None, FALSE)
                                ELSE Believe(sl[i], Reached(i), InError(i))
  OBVIOUS
<1> HIDE DEF got
<1>2. ASSUME NEW i \in Slots
      PROVE  /\ got[i] \in Beliefs /\ got[i].state \in AlStates \cup {None}
             /\ got[i].state = Op => Reached(i) = Op
  <2>1. CASE i \in lost
    <3>1. got[i] = Believe(sl[i], None, FALSE) /\ sl[i] \in Beliefs
      BY <1>0, <1>a, <2>1
    <3>2. None \in AlStates \cup {None} /\ FALSE \in BOOLEAN
      OBVIOUS
    <3>3. got[i] \in Beliefs /\ got[i].state = None
      BY <3>1, <3>2, BeliefOf
    <3> QED BY <3>2, <3>3, StatesDiffer
  <2>2. CASE i \notin lost
    <3>1. got[i] = Believe(sl[i], Reached(i), InError(i)) /\ sl[i] \in Beliefs
      BY <1>0, <1>a, <2>2
    <3>2. Reached(i) \in AlStates \cup {None} /\ InError(i) \in BOOLEAN
      BY Reaching
    <3> QED BY <3>1, <3>2, BeliefOf
  <2> QED BY <2>1, <2>2
<1>3. all \subseteq AlStates \cup {None} /\ all # {}
  <2>1. 1 \in Slots
    BY StatesAssumption DEF Slots
  <2> QED BY <1>2, <2>1
<1>4. Lowest(all) \in AlStates \cup {None} /\ \A i \in Slots : Lowest(all) <= got[i].state
  BY <1>3, LowestFound
<1> HIDE DEF all
<1>5. Believe(sl[0], Lowest(all), FALSE) \in Beliefs /\ Believe(sl[0], Lowest(all), FALSE).state = Lowest(all)
  BY <1>0, <1>4, BeliefOf
<1>6. \A i \in Slots : sl'[i] = got[i]
  BY <1>0, <1>1
<1>7. \A i \in 0..NumSlaves : i = 0 \/ i \in Slots
  BY DEF Slots
<1> QED BY <1>0, <1>1, <1>2, <1>4, <1>5, <1>6, <1>7

(* ecx_readstate as a whole.  When it tells OP, of one or of all, then the *)
(* slave is there and operational.                                         *)
LEMMA ReadStateIs ==
  ASSUME StInv, ReadState
  PROVE  /\ sl' \in [0..NumSlaves -> Beliefs]
         /\ \A i \in Slots : sl'[i].state = Op \/ sl'[0].state = Op =>
              \E d \in SlaveOf(i) : dev[d].st = Op
<1>0. sl \in [0..NumSlaves -> Beliefs] /\ 0 \in 0..NumSlaves /\ \A i \in Slots : i \in 0..NumSlaves
  BY AddressesDiffer DEF StInv
<1>1. ASSUME NEW i \in Slots, dev[i].on, dev[i].st = Op PROVE \E d \in SlaveOf(i) : dev[d].st = Op
  <2>1. dev[i].ident = Identity[i]
    BY <1>1, StatesDiffer DEF StInv, DeviceOk
  <2> QED BY <1>1, <2>1 DEF SlaveOf, Present
<1>2. ASSUME NEW lost, sl' = EachState(lost)
      PROVE  /\ sl' \in [0..NumSlaves -> Beliefs]
             /\ \A i \in Slots : sl'[i].state = Op \/ sl'[0].state = Op =>
                  \E d \in SlaveOf(i) : dev[d].st = Op
  <2>1. /\ sl' \in [0..NumSlaves -> Beliefs]
        /\ \A i \in Slots : sl'[i].state = Op => Reached(i) = Op
        /\ \A i \in Slots : sl'[0].state <= sl'[i].state
    BY <1>2, EachStateIs
  <2>2. ASSUME NEW i \in Slots, sl'[0].state = Op PROVE sl'[i].state = Op
    <3>1. sl'[i].state \in AlStates \cup {None} /\ Op <= sl'[i].state
      BY <1>0, <2>1, <2>2 DEF Beliefs
    <3> QED BY <3>1 DEF AlStates, None, InitSt, PreOp, SafeOp, Op
  <2>3. ASSUME NEW i \in Slots, sl'[i].state = Op \/ sl'[0].state = Op
        PROVE  \E d \in SlaveOf(i) : dev[d].st = Op
    <3>1. Reached(i) = Op
      BY <2>1, <2>2, <2>3
    <3> QED BY <1>1, <3>1, Reaching
  <2> QED BY <2>1, <2>3
<1>3. ASSUME NEW st \in AlStates, BroadcastTells(st), sl' = SameState(st)
      PROVE  /\ sl' \in [0..NumSlaves -> Beliefs]
             /\ \A i \in Slots : sl'[i].state = Op \/ sl'[0].state = Op =>
                  \E d \in SlaveOf(i) : dev[d].st = Op
  <2>1. FALSE \in BOOLEAN /\ st \in AlStates \cup {None}
    OBVIOUS
  <2>2. \A i \in 0..NumSlaves : sl'[i] = Believe(sl[i], st, FALSE)
    BY <1>3 DEF SameState
  <2>3. ASSUME NEW i \in 0..NumSlaves PROVE sl'[i] \in Beliefs /\ sl'[i].state = st
    <3>1. sl[i] \in Beliefs
      BY <1>0
    <3>2. Believe(sl[i], st, FALSE) \in Beliefs /\ Believe(sl[i], st, FALSE).state = st
      BY <2>1, <3>1, BeliefOf
    <3> QED BY <2>2, <3>2
  <2>4. sl' \in [0..NumSlaves -> Beliefs]
    <3>1. sl' = [i \in 0..NumSlaves |-> Believe(sl[i], st, FALSE)]
      BY <1>3 DEF SameState
    <3> QED BY <2>2, <2>3, <3>1
  <2>5. Present = Slots
    <3>1. IsFiniteSet(Slots) /\ Cardinality(Slots) = NumSlaves
      BY AddressesDiffer, FS_Interval DEF Slots
    <3>2. Present \subseteq Slots
      BY DEF Present
    <3>3. /\ IsFiniteSet(Present) /\ Cardinality(Present) <= Cardinality(Slots)
          /\ Cardinality(Slots) = Cardinality(Present) => Slots = Present
      BY <3>1, <3>2, FS_Subset
    <3>4. Cardinality(Present) \in Nat
      BY <3>3, FS_CardinalityType
    <3>5. Cardinality(Present) >= NumSlaves
      BY <1>3 DEF BroadcastTells
    <3>6. Cardinality(Slots) = Cardinality(Present)
      BY <3>1, <3>3, <3>4, <3>5, AddressesDiffer
    <3> QED BY <3>3, <3>6
  <2>6. \A i \in Slots : dev[i].on /\ dev[i].st = st
    BY <1>3, <2>5 DEF BroadcastTells, AllIn, Present
  <2> QED BY <1>0, <1>1, <2>3, <2>4, <2>6
<1> QED BY <1>2, <1>3 DEF ReadState, AlStates
-----------------------------------------------------------------------------
(* The slaves are configured at first.                                     *)
LEMMA StInitInv == StInit => StInv
<1> SUFFICES ASSUME NEW p \in Programs, StartStates(p, SafeOp, "start") PROVE StInv
  BY DEF StInit
<1>1. wk \in Workers
  BY StatesAssumption DEF StartStates, Workers, Slots
<1>2. sl \in [0..NumSlaves -> Beliefs]
  BY DEF StartStates, Beliefs, AlStates
<1>3. dev = [i \in Slots |-> dev[i]] /\ DOMAIN dev = Slots
  BY DEF StartStates
<1>4. ASSUME NEW i \in Slots PROVE DeviceOk(i, dev[i]) /\ Configured(dev[i])
  <2>1. dev[i] = [Device(i) EXCEPT !.st = SafeOp]
    BY DEF StartStates
  <2>2. PICK d : d = [on |-> TRUE, addr |-> i, st |-> SafeOp, err |-> FALSE, req |-> None, sm |-> TRUE,
                      fmmu |-> TRUE, ident |-> Identity[i]]
    OBVIOUS
  <2>3. dev[i] = d
    BY <2>1, <2>2 DEF Device
  <2>4. d \in Devices
    BY <2>2, AddressesDiffer DEF Devices, AlStates
  <2> QED BY <2>2, <2>3, <2>4, AddressesDiffer, StatesDiffer DEF DeviceOk, Configured
<1> QED BY <1>1, <1>2, <1>3, <1>4 DEF StInv

(* The pieces of a worker's step other than the one that writes FMMUs.     *)
LEMMA WorkerAssembled ==
  ASSUME StInv, wk' \in Workers, wk.pc # "fmmu", wk'.missed = wk.missed,
         sl' \in [0..NumSlaves -> Beliefs], DOMAIN dev' = Slots, dev' = [i \in Slots |-> dev'[i]],
         \A i \in Slots : /\ DeviceOk(i, dev'[i])
                          /\ Configured(dev[i]) => Configured(dev'[i]) \/ Excused(i)'
  PROVE  StInv'
BY DEF StInv, Excused

(* ... when it leaves the devices alone.                                   *)
LEMMA WorkerLooks ==
  ASSUME StInv, wk' \in Workers, wk.pc # "fmmu", wk'.missed = wk.missed,
         sl' \in [0..NumSlaves -> Beliefs], UNCHANGED dev
  PROVE  StInv'
BY WorkerAssembled DEF StInv

(* A request to the slave at the address of a slot.                        *)
LEMMA Requested ==
  ASSUME StInv, NEW a \in Slots, NEW r \in AlStates, dev' = Request(a, r)
  PROVE  /\ DOMAIN dev' = Slots /\ dev' = [i \in Slots |-> dev'[i]]
         /\ \A i \in Slots : /\ DeviceOk(i, dev'[i])
                             /\ Configured(dev[i]) => Configured(dev'[i]) \/ (r = SafeOp /\ i = a /\ BelowOp(dev'[i]))
<1>1. dev' = [i \in Slots |-> IF i \in At(a) THEN [dev[i] EXCEPT !.req = r] ELSE dev[i]]
  BY DEF Request
<1>2. ASSUME NEW i \in Slots
      PROVE  /\ DeviceOk(i, dev'[i])
             /\ Configured(dev[i]) => Configured(dev'[i]) \/ (r = SafeOp /\ i = a /\ BelowOp(dev'[i]))
  <2>0. DeviceOk(i, dev[i])
    BY DEF StInv
  <2>1. CASE i \in At(a)
    <3>1. i = a /\ dev[i].ident # Stranger
      BY <2>1, Reaching
    <3>2. dev'[i] = [dev[i] EXCEPT !.req = r]
      BY <1>1, <2>1
    <3> QED BY <2>0, <3>1, <3>2, WithRequest
  <2>2. CASE i \notin At(a)
    BY <1>1, <2>0, <2>2
  <2> QED BY <2>1, <2>2
<1> QED BY <1>1, <1>2

(* The steps that only look.                                               *)
LEMMA LookingKeeps ==
  ASSUME StInv, Announce \/ Cycle \/ CheckStates \/ IsOperational \/ CheckLost \/ LeaveLost
                \/ ReconfigInitDone \/ ReconfigPreOpDone \/ Recover
  PROVE  StInv'
<1>0. wk \in Workers /\ sl \in [0..NumSlaves -> Beliefs] /\ wk.at \in Slots /\ wk.at \in 0..NumSlaves
  BY AddressesDiffer DEF StInv, Workers
<1>1. ReadState => sl' \in [0..NumSlaves -> Beliefs]
  BY ReadStateIs
<1>2. NextSlave => wk' \in Workers /\ wk'.missed = wk.missed
  BY <1>0, AfterASlave DEF NextSlave
<1>3. \A p \in {"read", "slave", "sm", "safeop", "temp"} : Go(p) => wk' \in Workers /\ wk'.missed = wk.missed
  BY <1>0, WorkerGoesOn
<1>4. CASE Announce
  <2>1. wk' \in Workers /\ wk'.missed = wk.missed
    <3>1. PICK o \in BOOLEAN : wk' = [wk EXCEPT !.pc = "cycle", !.operational = o]
      BY <1>4, Zenon DEF Announce
    <3> QED BY <1>0, <3>1 DEF Workers
  <2> QED BY <1>1, <1>4, <2>1, WorkerLooks DEF Announce
<1>5. CASE Cycle
  BY <1>0, <1>1, <1>3, <1>5, WorkerLooks DEF Cycle
<1>6. CASE CheckStates
  BY <1>1, <1>3, <1>6, WorkerLooks DEF CheckStates
<1>7. CASE IsOperational
  <2>1. sl' \in [0..NumSlaves -> Beliefs]
    BY <1>0, <1>7 DEF IsOperational, Beliefs
  <2> QED BY <1>2, <1>7, <2>1, WorkerLooks DEF IsOperational, Looking
<1>8. CASE CheckLost
  <2>1. PICK answers \in BOOLEAN :
          /\ LookAgain(answers)
          /\ sl' = [sl EXCEPT ![wk.at] = [state |-> StateSeen(answers), err |-> ErrorSeen(answers),
                                          lost |-> StateSeen(answers) = None]]
    BY <1>8 DEF CheckLost
  <2>2. StateSeen(answers) \in AlStates \cup {None} /\ ErrorSeen(answers) \in BOOLEAN
    BY Reaching DEF StateSeen, ErrorSeen
  <2>3. PICK b : b = [state |-> StateSeen(answers), err |-> ErrorSeen(answers),
                      lost |-> StateSeen(answers) = None]
    OBVIOUS
  <2>4. b \in Beliefs
    BY <2>2, <2>3 DEF Beliefs
  <2>5. sl' \in [0..NumSlaves -> Beliefs]
    BY <1>0, <2>1, <2>3, <2>4
  <2> QED BY <1>2, <2>1, <2>5, WorkerLooks DEF LookAgain, Looking
<1>9. CASE LeaveLost
  BY <1>0, <1>2, <1>9, WorkerLooks DEF LeaveLost, Looking
<1>10. ASSUME NEW st, NEW ok, StateCheck(st, ok) PROVE sl' \in [0..NumSlaves -> Beliefs]
  <2>1. \/ sl' = [sl EXCEPT ![wk.at] = Believe(@, Reached(wk.at), InError(wk.at))]
        \/ sl' = [sl EXCEPT ![wk.at] = Believe(@, None, FALSE)]
    BY <1>10 DEF StateCheck
  <2>2. Reached(wk.at) \in AlStates \cup {None} /\ InError(wk.at) \in BOOLEAN
    BY Reaching
  <2>3. None \in AlStates \cup {None} /\ FALSE \in BOOLEAN
    OBVIOUS
  <2> QED BY <1>0, <2>1, <2>2, <2>3, BelievedOf
<1>11. CASE ReconfigInitDone
  BY <1>2, <1>3, <1>10, <1>11, WorkerLooks DEF ReconfigInitDone
<1>12. CASE ReconfigPreOpDone
  BY <1>2, <1>3, <1>10, <1>12, WorkerLooks DEF ReconfigPreOpDone
<1>13. CASE Recover
  BY <1>0, <1>2, <1>3, <1>13, WorkerLooks DEF Recover, Looking
<1> QED BY <1>4, <1>5, <1>6, <1>7, <1>8, <1>9, <1>11, <1>12, <1>13

(* The steps that ask a slave for a state, or clear its error.             *)
LEMMA RequestKeeps ==
  ASSUME StInv, \/ StartOperational \/ AckError \/ RequestOp \/ ReconfigInit \/ ReconfigPreOp
                \/ ReconfigSafeOp
  PROVE  StInv'
<1>0. /\ wk \in Workers /\ sl \in [0..NumSlaves -> Beliefs] /\ wk.at \in Slots
      /\ dev = [i \in Slots |-> dev[i]] /\ \A i \in Slots : DeviceOk(i, dev[i])
  BY DEF StInv, Workers
<1>1. NextSlave => wk' \in Workers /\ wk'.missed = wk.missed
  BY <1>0, AfterASlave DEF NextSlave
<1>2. \A p \in {"startwait", "init", "preop", "fmmu"} :
        Go(p) => wk' \in Workers /\ wk'.missed = wk.missed /\ wk'.at = wk.at /\ wk'.pc = p
  BY <1>0, WorkerGoesOn
<1>3. ASSUME NEW r \in AlStates \ {SafeOp}, dev' = Request(wk.at, r)
      PROVE  /\ DOMAIN dev' = Slots /\ dev' = [i \in Slots |-> dev'[i]]
             /\ \A i \in Slots : /\ DeviceOk(i, dev'[i])
                                 /\ Configured(dev[i]) => Configured(dev'[i]) \/ Excused(i)'
  BY <1>0, <1>3, Requested
<1>4. CASE StartOperational
  <2>1. dev' = [i \in Slots |-> IF dev[i].on THEN [dev[i] EXCEPT !.req = Op] ELSE dev[i]]
    BY <1>4 DEF StartOperational
  <2>2. ASSUME NEW i \in Slots
        PROVE  DeviceOk(i, dev'[i]) /\ (Configured(dev[i]) => Configured(dev'[i]))
    <3>1. CASE dev[i].on
      <4>1. dev'[i] = [dev[i] EXCEPT !.req = Op] /\ Op \in AlStates /\ Op # SafeOp
        BY <2>1, <3>1, StatesDiffer DEF AlStates
      <4> QED BY <1>0, <4>1, WithRequest
    <3>2. CASE ~dev[i].on
      BY <1>0, <2>1, <3>2
    <3> QED BY <3>1, <3>2
  <2>3. DOMAIN dev' = Slots /\ dev' = [i \in Slots |-> dev'[i]]
    BY <2>1
  <2> QED BY <1>0, <1>2, <1>4, <2>2, <2>3, WorkerAssembled DEF StartOperational
<1>5. CASE AckError
  <2>1. CASE dev' = [i \in Slots |-> IF i \in At(wk.at) THEN [dev[i] EXCEPT !.err = FALSE] ELSE dev[i]]
    <3>1. ASSUME NEW i \in Slots
          PROVE  DeviceOk(i, dev'[i]) /\ (Configured(dev[i]) => Configured(dev'[i]))
      <4>1. CASE i \in At(wk.at)
        BY <1>0, <2>1, <4>1, WithoutError
      <4>2. CASE i \notin At(wk.at)
        BY <1>0, <2>1, <4>2
      <4> QED BY <4>1, <4>2
    <3>2. DOMAIN dev' = Slots /\ dev' = [i \in Slots |-> dev'[i]]
      BY <2>1
    <3> QED BY <1>0, <1>1, <1>5, <3>1, <3>2, WorkerAssembled DEF AckError, Looking
  <2>2. CASE UNCHANGED dev
    BY <1>0, <1>1, <1>5, <2>2, WorkerLooks DEF AckError, Looking
  <2> QED BY <1>5, <2>1, <2>2 DEF AckError
<1>6. CASE RequestOp
  <2>1. sl' \in [0..NumSlaves -> Beliefs]
    <3>1. Op \in AlStates \cup {None} /\ FALSE \in BOOLEAN
      BY DEF AlStates
    <3>2. sl' = [sl EXCEPT ![wk.at] = Believe(@, Op, FALSE)]
      BY <1>6 DEF RequestOp
    <3> QED BY <1>0, <3>1, <3>2, BelievedOf
  <2>2. CASE dev' = Request(wk.at, Op)
    <3>1. Op \in AlStates \ {SafeOp}
      BY StatesDiffer DEF AlStates
    <3> QED BY <1>1, <1>3, <1>6, <2>1, <2>2, <3>1, WorkerAssembled DEF RequestOp, Looking
  <2>3. CASE UNCHANGED dev
    BY <1>1, <1>6, <2>1, <2>3, WorkerLooks DEF RequestOp, Looking
  <2> QED BY <1>6, <2>2, <2>3 DEF RequestOp
<1>7. CASE ReconfigInit
  <2>1. wk' \in Workers /\ wk'.missed = wk.missed /\ wk.pc # "fmmu" /\ sl' = sl
    BY <1>1, <1>2, <1>7 DEF ReconfigInit
  <2>2. CASE dev' = Request(wk.at, InitSt)
    <3>1. InitSt \in AlStates \ {SafeOp}
      BY StatesDiffer DEF AlStates
    <3> QED BY <1>0, <1>3, <2>1, <2>2, <3>1, WorkerAssembled
  <2>3. CASE UNCHANGED dev
    BY <1>0, <2>1, <2>3, WorkerLooks
  <2> QED BY <1>7, <2>2, <2>3 DEF ReconfigInit
<1>8. CASE ReconfigPreOp
  <2>1. PICK s \in BOOLEAN :
          dev' = [i \in Slots |-> IF i \in At(wk.at) THEN [dev[i] EXCEPT !.sm = @ \/ s, !.req = PreOp]
                                  ELSE dev[i]]
    BY <1>8 DEF ReconfigPreOp
  <2>2. ASSUME NEW i \in Slots
        PROVE  DeviceOk(i, dev'[i]) /\ (Configured(dev[i]) => Configured(dev'[i]))
    <3>1. CASE i \in At(wk.at)
      <4>1. dev[i].ident # Stranger
        BY <1>0, <3>1, Reaching
      <4>2. dev'[i] = [dev[i] EXCEPT !.sm = @ \/ s, !.req = PreOp]
        BY <2>1, <3>1
      <4> QED BY <1>0, <4>1, <4>2, WithSyncManagers
    <3>2. CASE i \notin At(wk.at)
      BY <1>0, <2>1, <3>2
    <3> QED BY <3>1, <3>2
  <2>3. DOMAIN dev' = Slots /\ dev' = [i \in Slots |-> dev'[i]]
    BY <2>1
  <2> QED BY <1>0, <1>2, <1>8, <2>2, <2>3, WorkerAssembled DEF ReconfigPreOp
<1>9. CASE ReconfigSafeOp
  <2>1. /\ wk' \in Workers /\ wk'.missed = wk.missed /\ wk'.at = wk.at /\ wk'.pc = "fmmu"
        /\ wk.pc # "fmmu" /\ sl' = sl
    BY <1>2, <1>9 DEF ReconfigSafeOp
  <2>2. CASE dev' = Request(wk.at, SafeOp)
    <3>1. SafeOp \in AlStates
      BY DEF AlStates
    <3>2. /\ DOMAIN dev' = Slots /\ dev' = [i \in Slots |-> dev'[i]]
          /\ \A i \in Slots : /\ DeviceOk(i, dev'[i])
                              /\ Configured(dev[i]) => Configured(dev'[i]) \/ (i = wk.at /\ BelowOp(dev'[i]))
      BY <1>0, <2>2, <3>1, Requested
    <3>4. \A i \in Slots : i = wk.at /\ BelowOp(dev'[i]) => Excused(i)'
      BY <2>1 DEF Excused
    <3> QED BY <1>0, <2>1, <3>2, <3>4, WorkerAssembled
  <2>3. CASE UNCHANGED dev
    BY <1>0, <2>1, <2>3, WorkerLooks
  <2> QED BY <1>9, <2>2, <2>3 DEF ReconfigSafeOp
<1> QED BY <1>4, <1>5, <1>6, <1>7, <1>8, <1>9

(* The FMMUs: after this step the slot has them, or they are missed.       *)
LEMMA FmmusKeep ==
  ASSUME StInv, ReconfigFmmus PROVE StInv'
<1>0. /\ wk \in Workers /\ sl \in [0..NumSlaves -> Beliefs] /\ wk.at \in Slots /\ wk.pc = "fmmu"
      /\ dev = [i \in Slots |-> dev[i]] /\ wk.missed \in SUBSET Slots
      /\ \A i \in Slots : DeviceOk(i, dev[i]) /\ (Configured(dev[i]) \/ Excused(i))
  BY DEF StInv, Workers, ReconfigFmmus
<1>1. sl' \in [0..NumSlaves -> Beliefs]
  <2>1. \/ sl' = [sl EXCEPT ![wk.at] = Believe(@, Reached(wk.at), InError(wk.at))]
        \/ sl' = [sl EXCEPT ![wk.at] = Believe(@, None, FALSE)]
    BY DEF ReconfigFmmus, StateCheck
  <2>2. Reached(wk.at) \in AlStates \cup {None} /\ InError(wk.at) \in BOOLEAN
    BY Reaching
  <2>3. None \in AlStates \cup {None} /\ FALSE \in BOOLEAN
    OBVIOUS
  <2> QED BY <1>0, <2>1, <2>2, <2>3, BelievedOf
<1>2. ASSUME NEW m \in SUBSET Slots, wk' = [After EXCEPT !.missed = m]
      PROVE  wk' \in Workers /\ wk'.missed = m
  <2>1. After \in Workers
    BY <1>0, AfterASlave
  <2> QED BY <1>2, <2>1 DEF Workers
<1>3. CASE dev' = WriteFmmus /\ Wrote(TRUE)
  <2>1. dev' = [i \in Slots |-> IF i \in At(wk.at) THEN [dev[i] EXCEPT !.fmmu = TRUE] ELSE dev[i]]
    BY <1>3 DEF WriteFmmus
  <2>2. PICK m \in SUBSET Slots :
          /\ wk' = [After EXCEPT !.missed = m]
          /\ m = IF At(wk.at) # {} THEN wk.missed \ {wk.at} ELSE wk.missed \cup {wk.at}
    <3>1. After.missed = wk.missed
      BY <1>0, AfterASlave
    <3>2. wk.missed \ {wk.at} \in SUBSET Slots /\ wk.missed \cup {wk.at} \in SUBSET Slots
      BY <1>0
    <3> QED BY <1>3, <3>1, <3>2 DEF Wrote
  <2>3. wk' \in Workers /\ wk'.missed = m
    BY <1>2, <2>2
  <2>4. ASSUME NEW i \in Slots PROVE DeviceOk(i, dev'[i]) /\ (Configured(dev'[i]) \/ Excused(i)')
    <3>1. CASE i \in At(wk.at)
      BY <1>0, <2>1, <3>1, WithFmmus
    <3>2. CASE i \notin At(wk.at)
      <4>1. dev'[i] = dev[i]
        BY <2>1, <3>2
      <4>2. i # wk.at \/ At(wk.at) = {}
        BY <1>0, <3>2, Reaching
      <4>3. Excused(i) => i \in m
        BY <2>2, <4>2 DEF Excused
      <4> QED BY <1>0, <2>3, <4>1, <4>3 DEF Excused
    <3> QED BY <3>1, <3>2
  <2>5. DOMAIN dev' = Slots /\ dev' = [i \in Slots |-> dev'[i]]
    BY <2>1
  <2> QED BY <1>1, <2>3, <2>4, <2>5 DEF StInv
<1>4. CASE UNCHANGED dev /\ Wrote(FALSE)
  <2>1. wk' = [After EXCEPT !.missed = wk.missed \cup {wk.at}]
    BY <1>0, <1>4, AfterASlave DEF Wrote
  <2>2. wk.missed \cup {wk.at} \in SUBSET Slots
    BY <1>0
  <2>3. wk' \in Workers /\ wk'.missed = wk.missed \cup {wk.at}
    BY <1>2, <2>1, <2>2
  <2>4. \A i \in Slots : Excused(i) => Excused(i)'
    BY <2>3 DEF Excused
  <2> QED BY <1>0, <1>1, <1>4, <2>3, <2>4 DEF StInv
<1> QED BY <1>3, <1>4 DEF ReconfigFmmus

(* A new address for whoever is at the temporary one: none, or that of the *)
(* slot whose device it is.                                                *)
LEMMA Readdressed ==
  ASSUME StInv, NEW b, dev' = Addressed(TempNode, b),
         b = NoAddress \/ \A i \in At(TempNode) : b = i /\ dev[i].ident # Stranger
  PROVE  /\ DOMAIN dev' = Slots /\ dev' = [i \in Slots |-> dev'[i]]
         /\ \A i \in Slots : /\ DeviceOk(i, dev'[i])
                             /\ Configured(dev[i]) => Configured(dev'[i])
<1>1. dev' = [i \in Slots |-> IF i \in At(TempNode) THEN [dev[i] EXCEPT !.addr = b] ELSE dev[i]]
  BY DEF Addressed
<1>2. ASSUME NEW i \in Slots
      PROVE  DeviceOk(i, dev'[i]) /\ (Configured(dev[i]) => Configured(dev'[i]))
  <2>0. DeviceOk(i, dev[i])
    BY DEF StInv
  <2>1. CASE i \in At(TempNode)
    <3>1. b \in {NoAddress, i, TempNode} /\ (dev[i].ident = Stranger => b # i)
      BY <2>1, AddressesDiffer
    <3>2. dev'[i] = [dev[i] EXCEPT !.addr = b]
      BY <1>1, <2>1
    <3> QED BY <2>0, <3>1, <3>2, WithAddress
  <2>2. CASE i \notin At(TempNode)
    BY <1>1, <2>0, <2>2
  <2> QED BY <2>1, <2>2
<1> QED BY <1>1, <1>2

(* ecx_recover_slave: the temporary address.                               *)
LEMMA TempKeeps ==
  ASSUME StInv, RecoverTemp PROVE StInv'
<1>0. /\ wk \in Workers /\ sl' \in [0..NumSlaves -> Beliefs] /\ wk.pc # "fmmu"
      /\ \A i \in Slots : DeviceOk(i, dev[i])
  BY DEF StInv, RecoverTemp
<1>1. wk' \in Workers /\ wk'.missed = wk.missed
  BY <1>0, AfterASlave, WorkerGoesOn DEF RecoverTemp, NextSlave
<1>2. CASE dev' = Addressed(TempNode, NoAddress)
  BY <1>0, <1>1, <1>2, Readdressed, WorkerAssembled
<1>3. CASE dev' = [i \in Slots |-> IF i \in AtPlace(wk.at) THEN [dev[i] EXCEPT !.addr = TempNode]
                                   ELSE Addressed(TempNode, NoAddress)[i]]
  <2>1. ASSUME NEW i \in Slots
        PROVE  DeviceOk(i, dev'[i]) /\ (Configured(dev[i]) => Configured(dev'[i]))
    <3>1. CASE i \in AtPlace(wk.at)
      <4>1. dev'[i] = [dev[i] EXCEPT !.addr = TempNode] /\ TempNode # i
        BY <1>3, <3>1, AddressesDiffer
      <4> QED BY <1>0, <4>1, WithAddress
    <3>2. CASE i \notin AtPlace(wk.at) /\ i \in At(TempNode)
      <4>1. dev'[i] = [dev[i] EXCEPT !.addr = NoAddress] /\ NoAddress # i
        BY <1>3, <3>2, AddressesDiffer DEF Addressed
      <4> QED BY <1>0, <4>1, WithAddress
    <3>3. CASE i \notin AtPlace(wk.at) /\ i \notin At(TempNode)
      BY <1>0, <1>3, <3>3 DEF Addressed
    <3> QED BY <3>1, <3>2, <3>3
  <2>2. DOMAIN dev' = Slots /\ dev' = [i \in Slots |-> dev'[i]]
    BY <1>3
  <2> QED BY <1>0, <1>1, <2>1, <2>2, WorkerAssembled
<1> QED BY <1>2, <1>3 DEF RecoverTemp

(* ... and the address of the slot: only the device that was configured    *)
(* there has its identity.                                                 *)
LEMMA IdentityKeeps ==
  ASSUME ToldApart, StInv, RecoverIdentity PROVE StInv'
<1>0. /\ wk \in Workers /\ sl' \in [0..NumSlaves -> Beliefs] /\ wk.pc # "fmmu" /\ wk.at \in Slots
      /\ \A i \in Slots : DeviceOk(i, dev[i])
  BY DEF StInv, RecoverIdentity, Identified, Workers
<1>1. wk' \in Workers /\ wk'.missed = wk.missed
  BY <1>0, AfterASlave DEF RecoverIdentity, Identified, NextSlave
<1>2. CASE Known /\ dev' = Addressed(TempNode, wk.at)
  <2>1. ASSUME NEW i \in At(TempNode) PROVE wk.at = i /\ dev[i].ident # Stranger
    <3>1. i \in Slots /\ dev[i].ident = Identity[wk.at]
      BY <1>2 DEF Known, At
    <3>2. dev[i].ident \in {Identity[i], Stranger}
      BY <1>0, <3>1 DEF DeviceOk
    <3> QED BY <1>0, <3>1, <3>2, AddressesDiffer DEF ToldApart
  <2> QED BY <1>0, <1>1, <1>2, <2>1, Readdressed, WorkerAssembled
<1>3. CASE dev' = Addressed(TempNode, NoAddress)
  BY <1>0, <1>1, <1>3, Readdressed, WorkerAssembled
<1>4. CASE UNCHANGED dev
  BY <1>0, <1>1, <1>4, WorkerLooks
<1> QED BY <1>2, <1>3, <1>4 DEF RecoverIdentity, Identified

(* What the slaves do on their own.                                        *)
LEMMA SlaveKeeps ==
  ASSUME StInv, UNCHANGED <<sl, wk>>, NEW i \in Slots,
         Reacts(i) \/ Resets(i) \/ Unplugged(i) \/ Returns(i) \/ Replaced(i) \/ Fails(i)
  PROVE  StInv'
<1>0. dev = [j \in Slots |-> dev[j]] /\ DOMAIN dev = Slots /\ DeviceOk(i, dev[i])
  BY DEF StInv
<1>1. ASSUME NEW e, dev' = [dev EXCEPT ![i] = e], DeviceOk(i, e), Configured(dev[i]) => Configured(e),
             BelowOp(dev[i]) => BelowOp(e)
      PROVE  StInv'
  <2>1. dev'[i] = e /\ \A j \in Slots \ {i} : dev'[j] = dev[j]
    BY <1>0, <1>1
  <2>2. DOMAIN dev' = Slots /\ dev' = [j \in Slots |-> dev'[j]]
    BY <1>0, <1>1
  <2>3. \A j \in Slots : Excused(j) => Excused(j)'
    BY <1>1, <2>1 DEF Excused
  <2> QED BY <1>1, <2>1, <2>2, <2>3 DEF StInv
<1>2. CASE Reacts(i)
  <2>1. PICK e : e = IF Follows(dev[i]) THEN [dev[i] EXCEPT !.st = dev[i].req, !.err = FALSE, !.req = None]
                     ELSE [dev[i] EXCEPT !.err = TRUE, !.req = None]
    OBVIOUS
  <2>2. dev' = [dev EXCEPT ![i] = e] /\ dev[i].req # None
    BY <1>0, <1>2, <2>1 DEF Reacts
  <2>3. DeviceOk(i, e) /\ (Configured(dev[i]) => Configured(e)) /\ (BelowOp(dev[i]) => BelowOp(e))
    BY <1>0, <2>1, <2>2, WhenItReacts, ZenonT(60)
  <2> QED BY <1>1, <2>2, <2>3
<1>3. CASE Resets(i)
  <2>1. dev' = [dev EXCEPT ![i] = Unpowered(dev[i])]
    BY <1>0, <1>3 DEF Resets
  <2> QED BY <1>0, <1>1, <2>1, WhenUnpowered
<1>4. CASE Unplugged(i)
  <2>1. PICK d : d = Drops(dev[i])
    OBVIOUS
  <2>2. dev' = [dev EXCEPT ![i] = [d EXCEPT !.on = FALSE, !.req = None]]
    BY <1>0, <1>4, <2>1 DEF Unplugged
  <2>3. DeviceOk(i, d) /\ (Configured(dev[i]) => Configured(d)) /\ (BelowOp(dev[i]) => BelowOp(d))
    BY <1>0, <2>1, WhenItDrops
  <2>4. PICK e : e = [d EXCEPT !.on = FALSE, !.req = None]
    OBVIOUS
  <2>5. DeviceOk(i, e) /\ (Configured(d) => Configured(e)) /\ (BelowOp(d) => BelowOp(e))
    BY <2>3, <2>4, WhenUnplugged
  <2> QED BY <1>1, <2>2, <2>3, <2>4, <2>5
<1>5. CASE Returns(i)
  <2>1. dev' = [dev EXCEPT ![i] = [dev[i] EXCEPT !.on = TRUE]]
    BY <1>0, <1>5 DEF Returns
  <2> QED BY <1>0, <1>1, <2>1, WhenPluggedIn
<1>6. CASE Replaced(i)
  <2>1. dev' = [dev EXCEPT ![i] = [Unpowered(dev[i]) EXCEPT !.ident = Stranger]]
    BY <1>0, <1>6 DEF Replaced
  <2> QED BY <1>0, <1>1, <2>1, WhenUnpowered
<1>7. CASE Fails(i)
  <2>1. dev' = [dev EXCEPT ![i] = Drops(dev[i])]
    BY <1>0, <1>7 DEF Fails
  <2> QED BY <1>0, <1>1, <2>1, WhenItDrops
<1> QED BY <1>2, <1>3, <1>4, <1>5, <1>6, <1>7

(* Every step keeps the invariant of the recovery.                         *)
LEMMA StStepInv == ASSUME ToldApart PROVE StInv /\ [StNext]_stvars => StInv'
<1> SUFFICES ASSUME StInv, [StNext]_stvars PROVE StInv'
  OBVIOUS
<1>1. CASE UNCHANGED stvars
  BY <1>1 DEF stvars, StInv, Excused
<1>2. CASE Worker
  BY <1>2, LookingKeeps, RequestKeeps, FmmusKeep, TempKeeps, IdentityKeeps DEF Worker
<1>3. CASE /\ UNCHANGED <<sl, wk>>
           /\ \E i \in Slots : Reacts(i) \/ Resets(i) \/ Unplugged(i) \/ Returns(i) \/ Replaced(i) \/ Fails(i)
  BY <1>3, SlaveKeeps
<1> QED BY <1>1, <1>2, <1>3 DEF StNext

(* No slave is operational without its configuration or under another      *)
(* one's address.                                                          *)
LEMMA StInvGivesRecovery == StInv => RecoveryIsSound
<1> SUFFICES ASSUME StInv PROVE RecoveryIsSound
  OBVIOUS
<1>1. OperationalIsConfigured
  <2> SUFFICES ASSUME NEW i \in Slots, dev[i].st = Op
               PROVE  dev[i].sm /\ (dev[i].fmmu \/ i \in wk.missed)
    BY DEF OperationalIsConfigured
  <2>1. DeviceOk(i, dev[i]) /\ (Configured(dev[i]) \/ Excused(i))
    BY DEF StInv
  <2> QED BY <2>1, StatesDiffer DEF DeviceOk, Configured, Excused, BelowOp
<1>2. \A i \in Slots : dev[i].addr \in Slots => dev[i].ident = Identity[dev[i].addr]
  BY AddressesDiffer DEF StInv, DeviceOk
<1>3. ASSUME NEW a \in Slots PROVE Cardinality(At(a)) <= 1
  <2>1. At(a) = {} \/ At(a) = {a}
    BY Reaching
  <2> QED BY <2>1, FS_EmptySet, FS_Singleton
<1> QED BY <1>1, <1>2, <1>3 DEF RecoveryIsSound, AddressesAreRight

(***************************************************************************)
(* ecx_recover_slave and ecx_reconfig_slave, however slaves leave, return, *)
(* lose their power and change places, and whichever frames are lost: no   *)
(* slave is operational without its sync managers, or without its FMMUs    *)
(* unless the frames with them reached nobody, and an address belongs to   *)
(* the device that was configured with it, and to no second one.  The      *)
(* hypothesis is what ecx_recover_slave relies on: alias, product, vendor  *)
(* and revision tell the slaves of the bus apart.                          *)
(***************************************************************************)
THEOREM RecoveryStaysSound == ASSUME ToldApart PROVE StSpec => []RecoveryIsSound
BY StInitInv, StStepInv, StInvGivesRecovery, PTL DEF StSpec

(* A step at which the states are read, by worker_proc at its start or by  *)
(* recover_or_report_slaves, is a step of ecx_readstate.                   *)
LEMMA StatesAreRead ==
  ASSUME StNext, wk.pc \in {"startwait", "read"}, wk'.pc # wk.pc PROVE ReadState
<1>1. Worker
  BY DEF StNext
<1> QED BY <1>1 DEF Worker, StartOperational, Announce, Cycle, CheckStates, IsOperational, AckError,
          RequestOp, CheckLost, LookAgain, LeaveLost, Looking, ReconfigInit, ReconfigInitDone,
          ReconfigPreOp, ReconfigPreOpDone, ReconfigSafeOp, ReconfigFmmus, Recover, RecoverTemp,
          RecoverIdentity, Identified

(***************************************************************************)
(* ecx_readstate never tells more than is true: when it says that a slave, *)
(* or the whole bus, is operational, that slave is on the bus and was      *)
(* operational when it was asked, whether one broadcast or many reads told *)
(* and whichever of these frames were lost.                                *)
(***************************************************************************)
THEOREM BeliefsAreTrue == ASSUME ToldApart PROVE StSpec => BelievedOperational
<1>1. StInv /\ [StNext]_stvars =>
        [wk.pc \in {"startwait", "read"} /\ wk'.pc # wk.pc =>
           \A i \in Slots : sl'[i].state = Op \/ sl'[0].state = Op =>
             \E d \in SlaveOf(i) : dev[d].st = Op]_stvars
  BY StatesAreRead, ReadStateIs
<1> QED BY <1>1, StInitInv, StStepInv, PTL DEF StSpec, BelievedOperational
-----------------------------------------------------------------------------
(***************************************************************************)
(* Induction, over a set in place of a predicate: the least number that is *)
(* missing has a predecessor that is not.                                  *)
(***************************************************************************)

(* A set of natural numbers has a least one.                               *)
LEMMA LeastNat ==
  ASSUME NEW T \in SUBSET Nat, T # {}
  PROVE  \E x \in T : \A y \in T : x <= y
<1>1. PICK x \in T : \A y \in T : ~(<<y, x>> \in OpToRel(<, Nat))
  BY NatLessThanWellFounded, WFMin
<1>2. \A y \in T : ~(y < x)
  BY <1>1 DEF OpToRel
<1> QED BY <1>2

(* Induction up to n.                                                      *)
LEMMA Upto ==
  ASSUME NEW n \in Nat, NEW S, 0 \in S, \A i \in 0..(n - 1) : i \in S => i + 1 \in S
  PROVE  0..n \subseteq S
<1> DEFINE T == (0..n) \ S
<1>1. SUFFICES ASSUME T # {} PROVE FALSE
  OBVIOUS
<1>2. T \in SUBSET Nat
  OBVIOUS
<1>3. PICK x \in T : \A y \in T : x <= y
  <2> HIDE DEF T
  <2> QED BY <1>1, <1>2, LeastNat
<1> QED BY <1>3

(* f computes n steps from s on.                                           *)
IsRun(f, S, s, n, step) ==
  f \in [0..n -> S] /\ f[0] = s /\ \A i \in 1..n : f[i] = step[f[i - 1]][i]

(* There is such an f, so that a recursive function has its values.        *)
LEMMA RunExists ==
  ASSUME NEW S, NEW s \in S, NEW n \in Nat, NEW step \in [S -> [1..n -> S]]
  PROVE  \E f : IsRun(f, S, s, n, step)
<1> DEFINE Good == {m \in 0..n : \E f : IsRun(f, S, s, m, step)}
<1>1. 0 \in Good
  <2> DEFINE g == [i \in 0..0 |-> s]
  <2>1. IsRun(g, S, s, 0, step)
    BY DEF IsRun
  <2> QED BY <2>1
<1>2. ASSUME NEW m \in 0..(n - 1), m \in Good PROVE m + 1 \in Good
  <2>1. PICK f : IsRun(f, S, s, m, step)
    BY <1>2
  <2> DEFINE g == [i \in 0..(m + 1) |-> IF i = m + 1 THEN step[f[m]][m + 1] ELSE f[i]]
  <2>2. step[f[m]][m + 1] \in S
    BY <2>1 DEF IsRun
  <2>3. IsRun(g, S, s, m + 1, step)
    BY <2>1, <2>2 DEF IsRun
  <2> QED BY <2>3
<1>3. n \in Good
  <2> HIDE DEF Good
  <2>1. 0..n \subseteq Good
    BY <1>1, <1>2, Upto
  <2> QED BY <2>1
<1> QED BY <1>3
-----------------------------------------------------------------------------
(***************************************************************************)
(* lms_master: the stator map and the planner.                             *)
(***************************************************************************)
Lines402 == [line : {"skip", "bad", "stator"}, slave : Int, from : Int, to : Int,
             pitch : Int, counts : Int, outs : BOOLEAN, ins : BOOLEAN]
Options == [motion : BOOLEAN, start : Int, target : Int, vmax : Nat \ {0}, acc : Nat \ {0},
            cycles : Int, drives : BOOLEAN, op : BOOLEAN]
Maps == Seq(Lines402)

(* What load_lms_config keeps of a file is a map of stators.               *)
LEMMA StatorsType ==
  ASSUME NEW file \in Seq(Lines402)
  PROVE  Stators(file) \in Seq(Lines402)
<1> DEFINE n == Len(file)
           step == [c \in Maps |-> [i \in 1..n |-> StatorLine(c, file[i])]]
<1>0. n \in Nat /\ \A i \in 1..n : file[i] \in Lines402
  OBVIOUS
<1>1. <<>> \in Maps
  BY DEF Maps
<1>2. \A c \in Maps, i \in 1..n : StatorLine(c, file[i]) \in Maps
  BY <1>0 DEF StatorLine, Maps
<1>3. step \in [Maps -> [1..n -> Maps]]
  BY <1>0, <1>2
<1>4. PICK f : IsRun(f, Maps, <<>>, n, step)
  <2> HIDE DEF n, step
  <2>1. \E f : IsRun(f, Maps, <<>>, n, step)
    BY <1>0, <1>1, <1>3, RunExists
  <2> QED BY <2>1
<1>5. \A i \in 1..n : f[i] = StatorLine(f[i - 1], file[i])
  <2> TAKE i \in 1..n
  <2>1. f[i - 1] \in Maps /\ f[i] = step[f[i - 1]][i]
    BY <1>0, <1>4 DEF IsRun
  <2> QED BY <2>1
<1>6. f = [i \in 0..n |-> IF i = 0 THEN <<>> ELSE StatorLine(f[i - 1], file[i])]
  BY <1>0, <1>4, <1>5 DEF IsRun
<1>7. StatorsTo(file) = [i \in 0..n |-> IF i = 0 THEN <<>> ELSE StatorLine(StatorsTo(file)[i - 1], file[i])]
  BY <1>6, Zenon DEF StatorsTo
<1>8. /\ StatorsTo(file)[0] = <<>>
      /\ \A i \in 1..n : StatorsTo(file)[i] = StatorLine(StatorsTo(file)[i - 1], file[i])
  BY <1>0, <1>7
<1> DEFINE Typed == {i \in 0..n : StatorsTo(file)[i] \in Maps}
<1>9. 0..n \subseteq Typed
  <2>1. 0 \in Typed
    BY <1>1, <1>8
  <2>2. \A i \in 0..(n - 1) : i \in Typed => i + 1 \in Typed
    BY <1>0, <1>2, <1>8
  <2> HIDE DEF Typed
  <2> QED BY <1>0, <2>1, <2>2, Upto
<1> QED BY <1>0, <1>9 DEF Stators, Maps

(* The stators at a position.                                              *)
StatorsAt(c, p) == {k \in 1..Len(c) : p >= c[k].from /\ p < c[k].to}

(* A validated map has at most one stator at a position, which is the one  *)
(* that find_stator_for_position finds.                                    *)
LEMMA OneStator ==
  ASSUME NEW c \in Seq(Lines402), ValidateLmsConfig(c), NEW p \in Int
  PROVE  (StatorsAt(c, p) = {} /\ FindStator(c, p) = 0) \/ (StatorsAt(c, p) = {FindStator(c, p)} /\ FindStator(c, p) # 0)
<1>1. \A i, j \in StatorsAt(c, p) : i = j
  <2> SUFFICES ASSUME NEW i \in StatorsAt(c, p), NEW j \in StatorsAt(c, p), i < j PROVE FALSE
    BY DEF StatorsAt
  <2>1. c[i] \in Lines402 /\ c[j] \in Lines402
    BY DEF StatorsAt
  <2>2. ~Overlap(c[i], c[j])
    BY DEF ValidateLmsConfig, StatorsAt
  <2>3. c[i].from \in Int /\ c[i].to \in Int /\ c[j].from \in Int /\ c[j].to \in Int
    BY <2>1 DEF Lines402
  <2>4. p >= c[i].from /\ p < c[i].to /\ p >= c[j].from /\ p < c[j].to
    BY DEF StatorsAt
  <2> QED BY <2>2, <2>3, <2>4 DEF Overlap
<1>2. FindStator(c, p) = FirstIn(StatorsAt(c, p))
  BY DEF FindStator, StatorsAt
<1>3. CASE StatorsAt(c, p) = {}
  <2>1. FirstIn({}) = 0
    BY DEF FirstIn
  <2>2. FindStator(c, p) = 0
    BY <1>2, <1>3, <2>1, Zenon
  <2> QED BY <1>3, <2>2
<1>4. CASE StatorsAt(c, p) # {}
  <2>1. PICK k \in StatorsAt(c, p) : TRUE
    BY <1>4
  <2>2. StatorsAt(c, p) = {k} /\ k \in 1..Len(c)
    BY <1>1, <2>1 DEF StatorsAt
  <2>3. FirstIn({k}) = k
    BY <2>2 DEF FirstIn
  <2>4. FindStator(c, p) = k
    BY <1>2, <2>2, <2>3, Zenon
  <2> QED BY <2>2, <2>4
<1> QED BY <1>3, <1>4

(* A place on a stator, in counts.                                         *)
LEMMA CountsOnStator ==
  ASSUME NEW x \in Int, NEW y \in Int, NEW c \in Int, 0 <= x, x < y, c > 0
  PROVE  x * c \in 0..(y * c - 1)
<1>1. x * c >= 0 /\ x * c \in Int /\ y * c \in Int
  OBVIOUS
<1>2. y * c = x * c + (y - x) * c
  OBVIOUS
<1>3. (y - x) * c >= 1
  OBVIOUS
<1> QED BY <1>1, <1>2, <1>3

(***************************************************************************)
(* One period of the planner, seen in the direction of travel: v is the    *)
(* speed, d the way that is left, w the speed that motion_step chooses.    *)
(* Excess is the square of the speed above what stops on the way.          *)
(***************************************************************************)
Clamped(w, vmax) == CASE w > vmax -> vmax [] w < -vmax -> -vmax [] OTHER -> w

(* The excess of the next period, and the speed that is cut off.           *)
LEMMA PlannerPeriod ==
  ASSUME NEW acc \in Nat \ {0}, NEW vmax \in Nat \ {0}, NEW v \in 0..vmax, NEW d \in Nat,
         v * v <= 2 * acc * d + 4 * acc * vmax, NEW w \in Int,
         w = Clamped(IF 2 * acc * d <= v * v THEN v - acc ELSE v + acc, vmax)
  PROVE  /\ w \in -vmax..vmax /\ w - v <= acc /\ v - w <= acc
         /\ 0 <= w /\ w <= d => w * w <= 2 * acc * (d - w) + 4 * acc * vmax
         /\ w > d => v <= 3 * acc \/ (v - acc) * (v - acc) <= 4 * acc * vmax
<1>1. w \in -vmax..vmax /\ w - v <= acc /\ v - w <= acc
  BY DEF Clamped
<1>2. CASE 2 * acc * d <= v * v
  <2>1. SUFFICES ASSUME 0 <= w PROVE
          /\ w <= d => w * w <= 2 * acc * (d - w) + 4 * acc * vmax
          /\ w > d => (v - acc) * (v - acc) <= 4 * acc * vmax
    BY <1>1
  <2>2. w = v - acc
    BY <1>2, <2>1 DEF Clamped
  <2>3. w * w = v * v - 2 * acc * v + acc * acc
    <3>1. (v - acc) * (v - acc) = v * v - 2 * acc * v + acc * acc
      OBVIOUS
    <3> QED BY <2>2, <3>1
  <2>4. 2 * acc * (d - w) = 2 * acc * d - 2 * acc * v + 2 * acc * acc
    <3>1. 2 * acc * (d - (v - acc)) = 2 * acc * d - 2 * acc * v + 2 * acc * acc
      OBVIOUS
    <3> QED BY <2>2, <3>1
  <2>5. w * w <= 2 * acc * (d - w) + 4 * acc * vmax
    BY <2>3, <2>4
  <2>6. w > d => 2 * acc * (d - w) <= 0
    OBVIOUS
  <2> QED BY <2>2, <2>5, <2>6
<1>3. CASE ~(2 * acc * d <= v * v)
  <2>1. v <= w /\ w <= v + acc /\ w <= vmax
    BY <1>3 DEF Clamped
  <2>2. w * w - v * v = (w - v) * (w + v)
    BY <2>1
  <2>3. (w - v) * (w + v) <= acc * (w + v)
    BY <2>1
  <2>4. acc * (w + v) <= acc * (2 * vmax)
    BY <2>1
  <2>5. acc * w <= acc * vmax
    BY <2>1
  <2>6. w * w <= 2 * acc * (d - w) + 4 * acc * vmax
    <3>1. 2 * acc * (d - w) = 2 * acc * d - 2 * (acc * w)
      OBVIOUS
    <3>2. w * w <= v * v + 2 * (acc * vmax)
      BY <2>2, <2>3, <2>4
    <3> QED BY <1>3, <2>5, <3>1, <3>2
  <2>7. ASSUME w > d, v > 3 * acc PROVE FALSE
    <3>1. v * v < 2 * (acc * d)
      BY <1>3
    <3>2. acc * d <= acc * w
      BY <2>7
    <3>3. acc * w <= acc * v + acc * acc
      BY <2>1
    <3>4. v * v > 3 * (acc * v)
      BY <2>7
    <3>5. acc * v > 3 * (acc * acc)
      BY <2>7
    <3>6. acc * acc > 0
      OBVIOUS
    <3> QED BY <3>1, <3>2, <3>3, <3>4, <3>5, <3>6
  <2> QED BY <1>1, <2>6, <2>7
<1> QED BY <1>1, <1>2, <1>3

(***************************************************************************)
(* motion_step on its way, up or down: the mover is between start and      *)
(* target, it moves towards the target, and its excess is bounded.         *)
(***************************************************************************)
Between(p) ==
  IF opts.start <= opts.target THEN opts.start <= p /\ p <= opts.target
  ELSE opts.target <= p /\ p <= opts.start
Further(p, q) == IF opts.start <= opts.target THEN p <= q ELSE q <= p
Onward(p, v) == v = 0 \/ v * (opts.target - p) > 0
Excess(p, v) == v * v <= 2 * opts.acc * Size1(opts.target - p) + 4 * opts.acc * opts.vmax
OnCourse(p, v) == Between(p) /\ Onward(p, v) /\ Excess(p, v)
CutSoftly(v) ==
  v <= 3 * opts.acc \/ (v - opts.acc) * (v - opts.acc) <= 4 * opts.acc * opts.vmax
Strays(m) == m.vel # 0 /\ m.vel * (opts.target - m.pos) <= 0

(* Whatever the way, motion_step keeps the limits.                         *)
LEMMA MotionLimits ==
  ASSUME opts \in Options, NEW p \in Int, NEW v \in -opts.vmax..opts.vmax,
         NEW r, r = MotionStep(p, v)
  PROVE  /\ r.pos \in Int /\ r.vel \in -opts.vmax..opts.vmax /\ r.finished \in BOOLEAN
         /\ r.finished => r.pos = opts.target /\ r.vel = 0
         /\ ~r.finished => Size1(r.vel - v) <= opts.acc
<1> DEFINE b == 2 * opts.acc * Size1(opts.target - p) <= v * v
           dir == IF opts.target - p >= 0 THEN 1 ELSE -1
           w == ClampV(IF b THEN v - dir * opts.acc ELSE v + dir * opts.acc)
           stop == \/ opts.target - p = 0 /\ v = 0
                   \/ (dir > 0 /\ p + w > opts.target) \/ (dir < 0 /\ p + w < opts.target)
<1>0. opts.acc \in Nat \ {0} /\ opts.vmax \in Nat \ {0} /\ opts.target \in Int
  BY DEF Options
<1>1. r = IF stop THEN [pos |-> opts.target, vel |-> 0, finished |-> TRUE]
          ELSE [pos |-> p + w, vel |-> w, finished |-> FALSE]
  BY Zenon DEF MotionStep, MoveBy
<1>2. w \in -opts.vmax..opts.vmax /\ w - v <= opts.acc /\ v - w <= opts.acc
  <2>1. dir * opts.acc = opts.acc \/ dir * opts.acc = -opts.acc
    BY <1>0
  <2> HIDE DEF b, dir
  <2> QED BY <1>0, <2>1 DEF ClampV
<1>3. Size1(w - v) <= opts.acc
  BY <1>0, <1>2 DEF Size1
<1> HIDE DEF w, stop
<1> QED BY <1>0, <1>1, <1>2, <1>3

(* On course it stays there, or strays, or ends softly.                    *)
LEMMA MotionOnCourse ==
  ASSUME opts \in Options, NEW p \in Int, NEW v \in -opts.vmax..opts.vmax, OnCourse(p, v),
         NEW r, r = MotionStep(p, v)
  PROVE  /\ r.finished => CutSoftly(Size1(v)) /\ Between(r.pos) /\ Further(p, r.pos)
         /\ ~r.finished => Strays(r) \/ (OnCourse(r.pos, r.vel) /\ Further(p, r.pos))
<1> DEFINE T == opts.target
           b == 2 * opts.acc * Size1(T - p) <= v * v
           dir == IF T - p >= 0 THEN 1 ELSE -1
           w == ClampV(IF b THEN v - dir * opts.acc ELSE v + dir * opts.acc)
           stop == \/ T - p = 0 /\ v = 0
                   \/ (dir > 0 /\ p + w > T) \/ (dir < 0 /\ p + w < T)
<1>0. /\ opts.acc \in Nat \ {0} /\ opts.vmax \in Nat \ {0} /\ T \in Int /\ opts.start \in Int
  BY DEF Options
<1>1. r = IF stop THEN [pos |-> T, vel |-> 0, finished |-> TRUE]
          ELSE [pos |-> p + w, vel |-> w, finished |-> FALSE]
  BY Zenon DEF MotionStep, MoveBy
<1>2. Between(T) /\ Further(p, T)
  BY <1>0 DEF OnCourse, Between, Further
<1>3. CASE T - p = 0
  <2>1. v = 0
    BY <1>0, <1>3 DEF OnCourse, Onward
  <2>2. stop
    BY <1>3, <2>1
  <2>3. CutSoftly(Size1(v))
    BY <1>0, <2>1 DEF CutSoftly, Size1
  <2> QED BY <1>1, <1>2, <2>2, <2>3
<1>4. CASE T - p > 0
  <2>0. opts.start <= T /\ dir = 1 /\ Size1(T - p) = T - p /\ T - p \in Nat
    BY <1>0, <1>4 DEF OnCourse, Between, Size1
  <2>1. v \in 0..opts.vmax /\ Size1(v) = v
    BY <1>0, <1>4 DEF OnCourse, Onward, Size1
  <2>2. w = Clamped(IF 2 * opts.acc * (T - p) <= v * v THEN v - opts.acc ELSE v + opts.acc, opts.vmax) /\ w \in Int
    BY <1>0, <2>0, <2>1 DEF ClampV, Clamped
  <2>3. v * v <= 2 * opts.acc * (T - p) + 4 * opts.acc * opts.vmax
    BY <2>0 DEF OnCourse, Excess
  <2> HIDE DEF w, T
  <2>4. /\ 0 <= w /\ w <= T - p => w * w <= 2 * opts.acc * ((T - p) - w) + 4 * opts.acc * opts.vmax
        /\ w > T - p => CutSoftly(v)
    BY <1>0, <2>0, <2>1, <2>2, <2>3, PlannerPeriod DEF CutSoftly
  <2>5. stop <=> w > T - p
    BY <1>0, <1>4, <2>0, <2>2
  <2>6. CASE stop
    BY <1>1, <1>2, <2>1, <2>4, <2>5, <2>6 DEF T
  <2>7. CASE ~stop
    <3>1. r.pos = p + w /\ r.vel = w /\ ~r.finished
      BY <1>1, <2>7
    <3>2. SUFFICES ASSUME ~Strays(r) PROVE OnCourse(p + w, w) /\ Further(p, p + w)
      BY <3>1
    <3>3. w <= T - p
      BY <1>0, <2>2, <2>5, <2>7
    <3>4. w = 0 \/ w * (T - (p + w)) > 0
      <4>1. w = 0 \/ ~(w * (T - (p + w)) <= 0)
        BY <3>1, <3>2 DEF Strays, T
      <4>2. w * (T - (p + w)) \in Int
        BY <1>0, <2>2
      <4> QED BY <4>1, <4>2
    <3>5. w >= 0
      BY <1>0, <2>2, <3>3, <3>4
    <3>6. Size1(T - (p + w)) = (T - p) - w
      BY <1>0, <2>2, <3>3 DEF Size1
    <3>7. Excess(p + w, w)
      BY <2>4, <3>3, <3>5, <3>6 DEF Excess, T
    <3>8. Between(p + w) /\ Further(p, p + w)
      BY <1>0, <2>0, <2>2, <3>3, <3>5 DEF OnCourse, Between, Further, T
    <3> QED BY <3>4, <3>7, <3>8 DEF OnCourse, Onward, T
  <2> QED BY <2>6, <2>7
<1>5. CASE T - p < 0
  <2> DEFINE u == -v
             x == -w
  <2>0. ~(opts.start <= T) /\ dir = -1 /\ Size1(T - p) = p - T /\ p - T \in Nat
    BY <1>0, <1>5 DEF OnCourse, Between, Size1
  <2>1. u \in 0..opts.vmax /\ Size1(v) = u
    BY <1>0, <1>5 DEF OnCourse, Onward, Size1
  <2>2. x = Clamped(IF 2 * opts.acc * (p - T) <= u * u THEN u - opts.acc ELSE u + opts.acc, opts.vmax) /\ x \in Int
    <3>1. v * v = u * u
      BY <1>0
    <3>2. w = ClampV(IF 2 * opts.acc * (p - T) <= u * u THEN v + opts.acc ELSE v - opts.acc)
      BY <1>0, <2>0, <3>1
    <3> HIDE DEF w
    <3> QED BY <1>0, <2>0, <2>1, <3>2 DEF ClampV, Clamped
  <2>3. u * u <= 2 * opts.acc * (p - T) + 4 * opts.acc * opts.vmax
    BY <1>0, <2>0 DEF OnCourse, Excess
  <2>. w \in Int /\ w = -x
    BY <1>0, <2>2, MotionLimits DEF ClampV
  <2> HIDE DEF w, T, u
  <2>4. /\ 0 <= x /\ x <= p - T => x * x <= 2 * opts.acc * ((p - T) - x) + 4 * opts.acc * opts.vmax
        /\ x > p - T => CutSoftly(u)
    BY <1>0, <2>0, <2>1, <2>2, <2>3, PlannerPeriod DEF CutSoftly
  <2>5. stop <=> x > p - T
    BY <1>0, <1>5, <2>0, <2>2
  <2>6. CASE stop
    BY <1>1, <1>2, <2>1, <2>4, <2>5, <2>6 DEF T
  <2>7. CASE ~stop
    <3>1. r.pos = p + w /\ r.vel = w /\ ~r.finished
      BY <1>1, <2>7
    <3>2. SUFFICES ASSUME ~Strays(r) PROVE OnCourse(p + w, w) /\ Further(p, p + w)
      BY <3>1
    <3>3. x <= p - T
      BY <1>0, <2>2, <2>5, <2>7
    <3>4. w = 0 \/ w * (T - (p + w)) > 0
      <4>1. w = 0 \/ ~(w * (T - (p + w)) <= 0)
        BY <3>1, <3>2 DEF Strays, T
      <4>2. w * (T - (p + w)) \in Int
        BY <1>0
      <4> QED BY <4>1, <4>2
    <3>5. x >= 0
      BY <1>0, <2>2, <3>3, <3>4
    <3>6. Size1(T - (p + w)) = (p - T) - x
      BY <1>0, <2>2, <3>3 DEF Size1
    <3>7. Excess(p + w, w)
      <4>1. w * w = x * x
        OBVIOUS
      <4> QED BY <2>4, <3>3, <3>5, <3>6, <4>1 DEF Excess, T
    <3>8. Between(p + w) /\ Further(p, p + w)
      BY <1>0, <2>0, <2>2, <3>3, <3>5 DEF OnCourse, Between, Further, T
    <3> QED BY <3>4, <3>7, <3>8 DEF OnCourse, Onward, T
  <2> QED BY <2>6, <2>7
<1> QED BY <1>0, <1>3, <1>4, <1>5
-----------------------------------------------------------------------------
(***************************************************************************)
(* The program.  The inductive invariant: the map is validated before the  *)
(* bus is started; the planner is on course until it strays; and a drive   *)
(* that is on has got outputs, which are on its own stator, on the way.    *)
(***************************************************************************)
Programs402 ==
  [pc : {"load", "start", "run", "stop", "done"}, stators : Maps, found : {0, TrackSlaves}, ok : BOOLEAN,
   init : BOOLEAN, cycle : Nat, pos : Int, vel : Int, finished : BOOLEAN, losses : Nat, faults : Nat,
   astray : BOOLEAN]
LmsTypes ==
  /\ opts \in Options /\ lms \in Programs402
  /\ out402 \in [1..TrackSlaves -> [cw : SUBSET Nat, target : Int]]
  /\ drv402 \in [1..TrackSlaves -> [state : DriveStates, cw : SUBSET Nat]]

Started ==
  /\ lms.pc \in {"start", "run", "stop"} => ValidateLmsConfig(lms.stators)
  /\ lms.pc = "run" => lms.found = TrackSlaves /\ ~lms.finished
  /\ lms.pc \in {"load", "start"} => lms.vel = 0 /\ ~lms.astray /\ ~lms.finished

Course ==
  /\ lms.vel \in -opts.vmax..opts.vmax
  /\ lms.pc = "run" /\ opts.motion /\ ~lms.astray => OnCourse(lms.pos, lms.vel)

OnWay(s) ==
  \E k \in 1..Len(lms.stators) :
    LET a == lms.stators[k]
    IN  /\ a.slave = s
        /\ a.from <= (IF opts.start < lms.pos THEN lms.pos ELSE opts.start)
        /\ a.to > (IF opts.start < lms.pos THEN opts.start ELSE lms.pos)
OnOwn(s) ==
  \E k \in 1..Len(lms.stators) :
    LET a == lms.stators[k] IN a.slave = s /\ out402[s].target \in 0..((a.to - a.from) * a.counts - 1)
IsBelow(s) ==
  \A k \in StatorsAt(lms.stators, lms.pos) : lms.stators[k].slave = s /\ lms.stators[k].outs =>
    out402[s].target = (lms.pos - lms.stators[k].from) * lms.stators[k].counts
Drives ==
  \A s \in 1..TrackSlaves :
    /\ drv402[s].state # "SwitchOnDisabled" => out402[s].cw # CW_ZERO
    /\ out402[s].cw # CW_ZERO =>
         /\ opts.drives /\ opts.motion /\ lms.pc \in {"run", "stop", "done"}
         /\ lms.astray \/ OnWay(s)
         /\ OnOwn(s) /\ IsBelow(s)
LmsInv == LmsTypes /\ Started /\ Course /\ Drives

(* The drives that no controlword has reached are off.                     *)
LEMMA LmsInitInv == LmsInit => LmsInv
<1> SUFFICES ASSUME LmsInit PROVE LmsInv
  OBVIOUS
<1>1. PICK file \in Tracks, o \in Journeys : StartTrack(file, o)
  BY DEF LmsInit
<1>2. file \in Maps /\ o \in Options /\ TrackSlaves \in Nat
  BY LmsAssumption DEF Maps, Lines402, Options
<1>3. lms \in Programs402 /\ opts \in Options
  BY <1>1, <1>2 DEF StartTrack, Programs402
<1>4. out402 \in [1..TrackSlaves -> [cw : SUBSET Nat, target : Int]]
  BY <1>1 DEF StartTrack, NoOutput, CW_ZERO
<1>5. drv402 \in [1..TrackSlaves -> [state : DriveStates, cw : SUBSET Nat]]
  BY <1>1 DEF StartTrack, CW_ZERO, DriveStates
<1>6. Started
  BY <1>1 DEF StartTrack, Started
<1>7. Course
  BY <1>1, <1>3 DEF StartTrack, Course, Options
<1>8. Drives
  BY <1>1 DEF StartTrack, Drives, NoOutput
<1> QED BY <1>3, <1>4, <1>5, <1>6, <1>7, <1>8 DEF LmsInv, LmsTypes

(* A stator of the map.                                                    *)
LEMMA StatorType ==
  ASSUME LmsTypes, NEW k \in 1..Len(lms.stators)
  PROVE  /\ lms.stators[k].slave \in Int /\ lms.stators[k].from \in Int /\ lms.stators[k].to \in Int
         /\ lms.stators[k].counts \in Int /\ lms.stators[k].outs \in BOOLEAN
<1>1. lms.stators \in Seq(Lines402)
  BY DEF LmsTypes, Programs402, Maps
<1>2. lms.stators[k] \in Lines402
  <2> HIDE DEF Lines402
  <2> QED BY <1>1
<1> QED BY <1>2 DEF Lines402

(* The way the mover has come only grows.                                  *)
LEMMA WayGrows ==
  ASSUME LmsTypes, opts' = opts, lms'.stators = lms.stators, lms'.pos \in Int,
         Between(lms.pos), Between(lms'.pos), Further(lms.pos, lms'.pos), NEW s, OnWay(s)
  PROVE  OnWay(s)'
<1>1. PICK k \in 1..Len(lms.stators) :
        LET a == lms.stators[k]
        IN  /\ a.slave = s
            /\ a.from <= (IF opts.start < lms.pos THEN lms.pos ELSE opts.start)
            /\ a.to > (IF opts.start < lms.pos THEN opts.start ELSE lms.pos)
  BY DEF OnWay
<1>2. lms.stators[k].from \in Int /\ lms.stators[k].to \in Int /\ lms.pos \in Int
  BY <1>1, StatorType DEF LmsTypes, Programs402
<1>3. opts.start \in Int /\ opts.target \in Int
  BY DEF LmsTypes, Options
<1> DEFINE a == lms.stators[k]
           p == lms.pos
           q == lms'.pos
<1>4. /\ a.from <= (IF opts.start < q THEN q ELSE opts.start)
      /\ a.to > (IF opts.start < q THEN opts.start ELSE q)
  BY <1>1, <1>2, <1>3 DEF Between, Further
<1> QED BY <1>1, <1>4 DEF OnWay

(* The controlword of cia402_next_controlword is never zero,               *)
LEMMA ControlwordSet ==
  ASSUME NEW sw PROVE NextControlword(sw) \in SUBSET Nat /\ NextControlword(sw) # CW_ZERO
BY DEF NextControlword, CW_FAULT_RESET, CW_SWITCH_ON, CW_ENABLE, CW_SHUTDOWN, CW_ZERO

(* and a drive that is off stays off without one.                          *)
LEMMA DriveStaysOff ==
  ASSUME NEW prev PROVE DriveReacts("SwitchOnDisabled", prev, CW_ZERO) = "SwitchOnDisabled"
BY DEF DriveReacts, IsShutdown, CW_ZERO

(* A drive has a state.                                                    *)
LEMMA DriveType ==
  ASSUME NEW st \in DriveStates, NEW prev, NEW cw PROVE DriveReacts(st, prev, cw) \in DriveStates
BY DEF DriveReacts, DriveStates

(* One period of the program: what the planner does to the mover.          *)
LEMMA MovedIs ==
  ASSUME LmsInv, lms.pc = "run", NEW m, m = Moved
  PROVE  /\ m.pos \in Int /\ m.vel \in -opts.vmax..opts.vmax /\ m.finished \in BOOLEAN
         /\ ~m.finished => Size1(m.vel - lms.vel) <= opts.acc
         /\ m.finished => lms.astray \/ CutSoftly(Size1(lms.vel))
         /\ opts.motion /\ ~lms.astray /\ ~Strays(m) =>
              /\ Between(lms.pos) /\ Between(m.pos) /\ Further(lms.pos, m.pos)
              /\ ~m.finished => OnCourse(m.pos, m.vel)
<1>0. /\ opts \in Options /\ lms.pos \in Int /\ lms.vel \in -opts.vmax..opts.vmax /\ ~lms.finished
      /\ opts.acc \in Nat /\ opts.vmax \in Nat /\ lms.finished \in BOOLEAN
  BY DEF LmsInv, LmsTypes, Programs402, Options, Course, Started
<1>1. CASE opts.motion
  <2>1. m = MotionStep(lms.pos, lms.vel)
    BY <1>0, <1>1 DEF Moved
  <2>2. /\ m.pos \in Int /\ m.vel \in -opts.vmax..opts.vmax /\ m.finished \in BOOLEAN
        /\ ~m.finished => Size1(m.vel - lms.vel) <= opts.acc
    BY <1>0, <2>1, MotionLimits
  <2>3. ASSUME ~lms.astray
        PROVE  /\ Between(lms.pos)
               /\ m.finished => CutSoftly(Size1(lms.vel)) /\ Between(m.pos) /\ Further(lms.pos, m.pos)
               /\ ~m.finished => Strays(m) \/ (OnCourse(m.pos, m.vel) /\ Further(lms.pos, m.pos))
    <3>1. OnCourse(lms.pos, lms.vel)
      BY <1>1, <2>3 DEF LmsInv, Course
    <3>2. Between(lms.pos)
      BY <3>1 DEF OnCourse
    <3> QED BY <1>0, <2>1, <3>1, <3>2, MotionOnCourse
  <2>4. OnCourse(m.pos, m.vel) => Between(m.pos)
    BY DEF OnCourse
  <2> QED BY <2>2, <2>3, <2>4
<1>2. CASE ~opts.motion
  <2>1. m.pos = lms.pos /\ m.vel = lms.vel /\ m.finished = lms.finished
    BY <1>2 DEF Moved
  <2>2. Size1(m.vel - lms.vel) = 0
    BY <1>0, <2>1 DEF Size1
  <2> QED BY <1>0, <1>2, <2>1, <2>2
<1> QED BY <1>1, <1>2

(* The run ends when lms_apply_motion_outputs refuses.                     *)
Refused(k) == opts.motion /\ (k = 0 \/ ~CanApply(k))

(* And what becomes of the program: RunEffect, spelled out.                *)
LEMMA RunCycleIs ==
  ASSUME LmsTypes, lms.pc = "run", NEW lost \in BOOLEAN, NEW m, NEW k, m.finished \in BOOLEAN,
         m.pos \in Int, m.vel \in Int, NEW c, c = RunEffect(m, k, lost), lms' = c.lms, out402' = c.out
  PROVE  /\ lms'.pos = m.pos /\ lms'.vel = m.vel /\ lms'.finished = m.finished
         /\ lms'.astray = (lms.astray \/ Strays(m))
         /\ lms'.stators = lms.stators /\ lms'.found = lms.found
         /\ lms'.pc = (IF Refused(k) \/ m.finished THEN "stop" ELSE "run")
         /\ lms' \in Programs402
         /\ out402' = (IF opts.motion /\ ~Refused(k) THEN Applied(k, m.pos) ELSE out402)
<1> DEFINE st == lms.astray \/ Strays(m)
           cy == IF opts.cycles < 0 THEN lms.cycle ELSE lms.cycle + 1
           lo == IF lost /\ ~Refused(k) THEN lms.losses + 1 ELSE lms.losses
           at == [lms EXCEPT !.pos = m.pos, !.vel = m.vel, !.finished = m.finished, !.astray = st,
                             !.cycle = cy, !.losses = lo]
<1>1. /\ c.lms = IF Refused(k) THEN Exit(at, FALSE) ELSE IF m.finished THEN Exit(at, TRUE) ELSE at
      /\ c.out = (IF opts.motion /\ ~Refused(k) THEN Applied(k, m.pos) ELSE out402)
  BY DEF RunEffect, Refused, Strays
<1>2. /\ at.pos = m.pos /\ at.vel = m.vel /\ at.finished = m.finished /\ at.pc = "run"
      /\ at.astray = (lms.astray \/ Strays(m)) /\ at.stators = lms.stators /\ at.found = lms.found
      /\ at \in Programs402
  <2>1. st \in BOOLEAN /\ cy \in Nat /\ lo \in Nat /\ lms \in Programs402
    BY DEF LmsTypes, Programs402
  <2> HIDE DEF st, cy, lo
  <2>2. /\ at.pos = m.pos /\ at.vel = m.vel /\ at.finished = m.finished /\ at.pc = "run"
        /\ at.astray = st /\ at.stators = lms.stators /\ at.found = lms.found
    BY <2>1 DEF Programs402
  <2>3. at \in Programs402
    BY <2>1 DEF Programs402
  <2> QED BY <2>2, <2>3 DEF st
<1> HIDE DEF at
<1>3. \A ok \in BOOLEAN : /\ Exit(at, ok).pos = at.pos /\ Exit(at, ok).vel = at.vel
        /\ Exit(at, ok).finished = at.finished /\ Exit(at, ok).astray = at.astray
        /\ Exit(at, ok).stators = at.stators /\ Exit(at, ok).found = at.found
        /\ Exit(at, ok).pc = "stop" /\ Exit(at, ok) \in Programs402
  BY <1>2 DEF Exit, Programs402
<1> HIDE DEF Refused
<1>4. CASE Refused(k)
  BY <1>1, <1>2, <1>3, <1>4
<1>5. CASE ~Refused(k) /\ m.finished
  BY <1>1, <1>2, <1>3, <1>5
<1>6. CASE ~Refused(k) /\ ~m.finished
  BY <1>1, <1>2, <1>6
<1> QED BY <1>4, <1>5, <1>6

(* lms_apply_motion_outputs, which has not refused: the drive of the       *)
(* stator below the mover gets its controlword and the mover's place.      *)
LEMMA OutputsAre ==
  ASSUME LmsInv, lms.pc = "run", opts.motion, opts.drives, NEW p \in Int,
         NEW k, k = FindStator(lms.stators, p), ~Refused(k)
  PROVE  LET a == lms.stators[k]
         IN  /\ StatorsAt(lms.stators, p) = {k} /\ k \in 1..Len(lms.stators) /\ a.slave \in 1..TrackSlaves
             /\ Applied(k, p) \in [1..TrackSlaves -> [cw : SUBSET Nat, target : Int]]
             /\ \A s \in 1..TrackSlaves : s # a.slave => Applied(k, p)[s] = out402[s]
             /\ Applied(k, p)[a.slave].cw # CW_ZERO
             /\ Applied(k, p)[a.slave].target = (p - a.from) * a.counts
<1> DEFINE a == lms.stators[k]
           cw == IF a.ins THEN NextControlword(StatusOf(drv402[a.slave].state)) ELSE CW_SHUTDOWN
<1>1. lms.stators \in Seq(Lines402) /\ ValidateLmsConfig(lms.stators) /\ lms.found = TrackSlaves
  BY DEF LmsInv, LmsTypes, Programs402, Maps, Started
<1>2. StatorsAt(lms.stators, p) = {k} /\ k \in 1..Len(lms.stators)
  <2>1. k # 0
    BY DEF Refused
  <2>2. StatorsAt(lms.stators, p) = {k}
    BY <1>1, <2>1, OneStator
  <2> QED BY <2>2 DEF StatorsAt
<1>3. a.slave \in 1..TrackSlaves /\ a.from \in Int /\ a.counts \in Int
  <2>1. a.slave <= TrackSlaves
    BY <1>1 DEF Refused, CanApply
  <2>2. a.slave > 0
    BY <1>1, <1>2 DEF ValidateLmsConfig, StatorOk
  <2> QED BY <1>2, <2>1, <2>2, StatorType, LmsAssumption DEF LmsInv
<1>4. cw \in SUBSET Nat /\ cw # CW_ZERO
  BY ControlwordSet DEF CW_SHUTDOWN, CW_ZERO
<1>5. Applied(k, p) = [out402 EXCEPT ![a.slave] = [cw |-> cw, target |-> (p - a.from) * a.counts]]
  BY DEF Applied, OutputsOf
<1>6. (p - a.from) * a.counts \in Int
  BY <1>3
<1>7. out402 \in [1..TrackSlaves -> [cw : SUBSET Nat, target : Int]]
  BY DEF LmsInv, LmsTypes
<1> HIDE DEF cw, a
<1>8. /\ Applied(k, p) \in [1..TrackSlaves -> [cw : SUBSET Nat, target : Int]]
      /\ \A s \in 1..TrackSlaves : s # a.slave => Applied(k, p)[s] = out402[s]
      /\ Applied(k, p)[a.slave] = [cw |-> cw, target |-> (p - a.from) * a.counts]
  BY <1>3, <1>4, <1>5, <1>6, <1>7
<1> QED BY <1>2, <1>3, <1>4, <1>8 DEF a

(* A period of fieldbus_run.                                               *)
LEMMA RunCycleInv ==
  ASSUME LmsInv, NEW lost \in BOOLEAN, RunCycle(lost) PROVE LmsInv'
<1>1. PICK m \in {Moved} : \E k \in {FindStator(lms.stators, m.pos)} : \E c \in {RunEffect(m, k, lost)} :
        /\ lms' = c.lms /\ out402' = c.out /\ UNCHANGED opts
        /\ IF c.sent THEN Roundtrip(c.out) ELSE UNCHANGED drv402
  BY DEF RunCycle
<1>2. PICK k, c : k = FindStator(lms.stators, m.pos) /\ c = RunEffect(m, k, lost)
  OBVIOUS
<1>3. /\ m = Moved /\ k = FindStator(lms.stators, m.pos) /\ c = RunEffect(m, k, lost)
      /\ lms.pc = "run" /\ opts' = opts /\ lms' = c.lms /\ out402' = c.out
      /\ Roundtrip(out402') \/ drv402' = drv402
  BY <1>1, <1>2 DEF RunCycle
<1>4. LmsTypes /\ Started /\ Course /\ Drives /\ opts \in Options
  BY DEF LmsInv, LmsTypes
<1>5. /\ m.pos \in Int /\ m.vel \in -opts.vmax..opts.vmax /\ m.finished \in BOOLEAN
      /\ opts.motion /\ ~lms.astray /\ ~Strays(m) =>
              /\ Between(lms.pos) /\ Between(m.pos) /\ Further(lms.pos, m.pos)
              /\ ~m.finished => OnCourse(m.pos, m.vel)
  BY <1>3, MovedIs
<1>6. /\ lms'.pos = m.pos /\ lms'.vel = m.vel /\ lms'.finished = m.finished
      /\ lms'.astray = (lms.astray \/ Strays(m))
      /\ lms'.stators = lms.stators /\ lms'.found = lms.found
      /\ lms'.pc = (IF Refused(k) \/ m.finished THEN "stop" ELSE "run")
      /\ lms' \in Programs402
      /\ out402' = (IF opts.motion /\ ~Refused(k) THEN Applied(k, m.pos) ELSE out402)
  <2>1. m.vel \in Int
    BY <1>4, <1>5 DEF Options
  <2> QED BY <1>3, <1>4, <1>5, <2>1, RunCycleIs
<1>7. Started'
  BY <1>3, <1>4, <1>6 DEF Started
<1>8. Course'
  <2>1. lms'.vel \in -opts'.vmax..opts'.vmax
    BY <1>3, <1>5, <1>6
  <2>2. ASSUME lms'.pc = "run", opts'.motion, ~lms'.astray PROVE OnCourse(lms.pos, lms.vel)'
    <3>1. OnCourse(m.pos, m.vel)
      BY <1>3, <1>5, <1>6, <2>2
    <3> QED BY <1>3, <1>6, <3>1 DEF OnCourse, Between, Onward, Excess
  <2> QED BY <2>1, <2>2 DEF Course
<1>9. ASSUME NEW s \in 1..TrackSlaves, OnWay(s), opts.motion PROVE lms'.astray \/ OnWay(s)'
  <2> SUFFICES ASSUME ~lms'.astray PROVE OnWay(s)'
    OBVIOUS
  <2>1. Between(lms.pos) /\ Between(m.pos) /\ Further(lms.pos, m.pos)
    BY <1>5, <1>6, <1>9
  <2>2. Between(lms'.pos) /\ Further(lms.pos, lms'.pos) /\ lms'.pos \in Int
    BY <1>5, <1>6, <2>1
  <2> QED BY <1>3, <1>4, <1>6, <1>9, <2>1, <2>2, WayGrows
<1>10. /\ out402' \in [1..TrackSlaves -> [cw : SUBSET Nat, target : Int]]
       /\ \A s \in 1..TrackSlaves : out402[s].cw # CW_ZERO => out402'[s].cw # CW_ZERO
       /\ \A s \in 1..TrackSlaves : out402'[s].cw # CW_ZERO =>
            /\ opts'.drives /\ opts'.motion
            /\ lms'.astray \/ OnWay(s)'
            /\ OnOwn(s)' /\ IsBelow(s)'
  <2>1. CASE opts.motion /\ ~Refused(k) /\ opts.drives
    <3> DEFINE a == lms.stators[k]
    <3>1. /\ StatorsAt(lms.stators, m.pos) = {k} /\ k \in 1..Len(lms.stators) /\ a.slave \in 1..TrackSlaves
          /\ out402' \in [1..TrackSlaves -> [cw : SUBSET Nat, target : Int]]
          /\ \A s \in 1..TrackSlaves : s # a.slave => out402'[s] = out402[s]
          /\ out402'[a.slave].cw # CW_ZERO
          /\ out402'[a.slave].target = (m.pos - a.from) * a.counts
      BY <1>3, <1>5, <1>6, <2>1, OutputsAre
    <3>2. a.from \in Int /\ a.to \in Int /\ a.counts \in Int /\ a.from <= m.pos /\ m.pos < a.to /\ a.counts > 0
      <4>1. a.from <= m.pos /\ m.pos < a.to
        <5>1. k \in StatorsAt(lms.stators, m.pos)
          BY <3>1
        <5>2. a.from \in Int
          BY <1>4, <3>1, StatorType
        <5> QED BY <1>5, <5>1, <5>2 DEF StatorsAt
      <4>2. a.counts > 0
        BY <1>3, <1>4, <3>1 DEF Started, ValidateLmsConfig, StatorOk
      <4> QED BY <1>4, <3>1, <4>1, <4>2, StatorType
    <3>3. ASSUME NEW s \in 1..TrackSlaves, out402'[s].cw # CW_ZERO, s # a.slave
          PROVE  (lms'.astray \/ OnWay(s)') /\ OnOwn(s)' /\ IsBelow(s)'
      <4>1. out402'[s] = out402[s] /\ (lms.astray \/ OnWay(s)) /\ OnOwn(s)
        BY <1>4, <3>1, <3>3 DEF Drives
      <4>2. lms'.astray \/ OnWay(s)'
        BY <1>6, <1>9, <2>1, <4>1
      <4>3. OnOwn(s)'
        BY <1>6, <4>1 DEF OnOwn
      <4>4. IsBelow(s)'
        <5>1. StatorsAt(lms'.stators, lms'.pos) = {k}
          BY <1>6, <3>1
        <5> QED BY <1>6, <3>3, <5>1 DEF IsBelow
      <4> QED BY <4>2, <4>3, <4>4
    <3>4. ASSUME NEW s \in 1..TrackSlaves, s = a.slave
          PROVE  (lms'.astray \/ OnWay(s)') /\ OnOwn(s)' /\ IsBelow(s)'
      <4>1. ASSUME ~lms'.astray PROVE OnWay(s)'
        <5>1. Between(m.pos)
          BY <1>5, <1>6, <2>1, <4>1
        <5>2. /\ a.from <= (IF opts.start < m.pos THEN m.pos ELSE opts.start)
              /\ a.to > (IF opts.start < m.pos THEN opts.start ELSE m.pos)
          BY <1>4, <1>5, <3>2, <5>1 DEF Options
        <5> QED BY <1>3, <1>6, <3>1, <3>4, <5>2 DEF OnWay
      <4>2. (m.pos - a.from) * a.counts \in 0..((a.to - a.from) * a.counts - 1)
        <5>1. 0 <= m.pos - a.from /\ m.pos - a.from < a.to - a.from /\ m.pos - a.from \in Int /\ a.to - a.from \in Int
          BY <1>5, <3>2
        <5> HIDE DEF a
        <5> QED BY <3>2, <5>1, CountsOnStator
      <4>3. OnOwn(s)'
        <5>1. lms'.stators = lms.stators /\ k \in 1..Len(lms.stators) /\ lms.stators[k].slave = s
          BY <1>6, <3>1, <3>4
        <5>2. out402'[s].target \in 0..((lms.stators[k].to - lms.stators[k].from) * lms.stators[k].counts - 1)
          BY <3>1, <3>4, <4>2
        <5> QED BY <5>1, <5>2 DEF OnOwn
      <4>4. IsBelow(s)'
        <5>1. StatorsAt(lms'.stators, lms'.pos) = {k}
          BY <1>6, <3>1
        <5> QED BY <1>6, <3>1, <3>4, <5>1 DEF IsBelow
      <4> QED BY <4>1, <4>3, <4>4
    <3> QED BY <1>3, <2>1, <3>1, <3>3, <3>4
  <2>2. CASE opts.motion /\ Refused(k)
    <3>1. out402' = out402
      BY <1>6, <2>2
    <3>2. ASSUME NEW s \in 1..TrackSlaves, out402[s].cw # CW_ZERO
          PROVE  opts.drives /\ opts.motion /\ (lms'.astray \/ OnWay(s)') /\ OnOwn(s)' /\ IsBelow(s)'
      <4>1. opts.drives /\ opts.motion /\ (lms.astray \/ OnWay(s)) /\ OnOwn(s)
        BY <1>4, <3>2 DEF Drives
      <4>2. lms'.astray \/ OnWay(s)'
        BY <1>6, <1>9, <4>1
      <4>3. OnOwn(s)'
        BY <1>6, <3>1, <4>1 DEF OnOwn
      <4>4. ASSUME NEW j \in StatorsAt(lms.stators, m.pos), lms.stators[j].slave = s, lms.stators[j].outs PROVE FALSE
        <5>1. ValidateLmsConfig(lms.stators) /\ lms.stators \in Seq(Lines402) /\ lms.found = TrackSlaves
          BY <1>3, <1>4 DEF Started, LmsTypes, Programs402, Maps
        <5>2. j = k /\ k # 0
          BY <1>3, <1>5, <4>4, <5>1, OneStator
        <5> QED BY <2>2, <4>4, <5>1, <5>2 DEF Refused, CanApply
      <4>5. IsBelow(s)'
        BY <1>6, <4>4 DEF IsBelow
      <4> QED BY <4>1, <4>2, <4>3, <4>5
    <3> QED BY <1>3, <1>4, <3>1, <3>2 DEF LmsTypes
  <2>3. CASE ~opts.motion \/ ~opts.drives
    <3>1. out402' = out402
      BY <1>6, <2>3 DEF Applied
    <3>2. \A s \in 1..TrackSlaves : out402[s].cw = CW_ZERO
      BY <1>4, <2>3 DEF Drives
    <3> QED BY <1>4, <3>1, <3>2 DEF LmsTypes
  <2> QED BY <2>1, <2>2, <2>3
<1>11. /\ drv402' \in [1..TrackSlaves -> [state : DriveStates, cw : SUBSET Nat]]
       /\ \A s \in 1..TrackSlaves : drv402'[s].state # "SwitchOnDisabled" => out402'[s].cw # CW_ZERO
  <2>0. drv402 \in [1..TrackSlaves -> [state : DriveStates, cw : SUBSET Nat]]
    BY <1>4 DEF LmsTypes
  <2>1. CASE drv402' = drv402
    BY <1>4, <1>10, <2>0, <2>1 DEF Drives
  <2>2. CASE Roundtrip(out402')
    <3>1. drv402' = [s \in 1..TrackSlaves |->
               [state |-> DriveReacts(drv402[s].state, drv402[s].cw, out402'[s].cw), cw |-> out402'[s].cw]]
      BY <2>2 DEF Roundtrip
    <3>2. \A s \in 1..TrackSlaves : DriveReacts(drv402[s].state, drv402[s].cw, out402'[s].cw) \in DriveStates
      BY <2>0, DriveType
    <3>3. drv402' \in [1..TrackSlaves -> [state : DriveStates, cw : SUBSET Nat]]
      BY <1>10, <3>1, <3>2
    <3>4. ASSUME NEW s \in 1..TrackSlaves, out402'[s].cw = CW_ZERO PROVE drv402'[s].state = "SwitchOnDisabled"
      <4>1. drv402[s].state = "SwitchOnDisabled"
        BY <1>4, <1>10, <3>4 DEF Drives
      <4>2. drv402'[s].state = DriveReacts(drv402[s].state, drv402[s].cw, out402'[s].cw)
        BY <3>1
      <4> QED BY <3>4, <4>1, <4>2, DriveStaysOff
    <3> QED BY <3>3, <3>4
  <2> QED BY <1>3, <2>1, <2>2
<1>12. Drives'
  <2>1. lms'.pc \in {"run", "stop", "done"}
    BY <1>6
  <2> QED BY <1>10, <1>11, <2>1 DEF Drives
<1>13. LmsTypes'
  BY <1>3, <1>4, <1>6, <1>10, <1>11 DEF LmsTypes
<1> QED BY <1>7, <1>8, <1>12, <1>13 DEF LmsInv

(* Every step keeps the invariant.                                         *)
LEMMA LmsStepInv == LmsInv /\ [LmsNext]_lmsvars => LmsInv'
<1> SUFFICES ASSUME LmsInv, [LmsNext]_lmsvars PROVE LmsInv'
  OBVIOUS
<1>0. /\ LmsTypes /\ Started /\ Course /\ Drives /\ opts \in Options /\ lms \in Programs402
      /\ drv402 \in [1..TrackSlaves -> [state : DriveStates, cw : SUBSET Nat]]
  BY DEF LmsInv, LmsTypes
<1>1. ASSUME opts' = opts, out402' = out402, lms' \in Programs402, Started', Course',
             lms'.astray = lms.astray, lms'.pos = lms.pos, lms'.stators = lms.stators,
             lms.pc \in {"run", "stop", "done"} => lms'.pc \in {"run", "stop", "done"},
             drv402' \in [1..TrackSlaves -> [state : DriveStates, cw : SUBSET Nat]],
             \A s \in 1..TrackSlaves : drv402'[s].state # "SwitchOnDisabled" => drv402[s].state # "SwitchOnDisabled"
      PROVE  LmsInv'
  <2>1. \A s \in 1..TrackSlaves : (OnWay(s) => OnWay(s)') /\ (OnOwn(s) => OnOwn(s)') /\ (IsBelow(s) => IsBelow(s)')
    BY <1>1 DEF OnWay, OnOwn, IsBelow
  <2>2. Drives'
    BY <1>0, <1>1, <2>1 DEF Drives
  <2>3. LmsTypes'
    BY <1>0, <1>1 DEF LmsTypes
  <2> QED BY <1>1, <2>2, <2>3 DEF LmsInv
<1>2. ASSUME opts' = opts, out402' = out402, drv402' = drv402, lms' \in Programs402, Started', Course',
             lms.pc \in {"load", "start"}
      PROVE  LmsInv'
  <2>1. \A s \in 1..TrackSlaves : out402[s].cw = CW_ZERO /\ drv402[s].state = "SwitchOnDisabled"
    BY <1>0, <1>2 DEF Drives
  <2>2. Drives'
    BY <1>2, <2>1 DEF Drives
  <2>3. LmsTypes'
    BY <1>0, <1>2 DEF LmsTypes
  <2> QED BY <1>2, <2>2, <2>3 DEF LmsInv
<1>3. CASE UNCHANGED lmsvars
  <2>1. opts' = opts /\ lms' = lms /\ out402' = out402 /\ drv402' = drv402
    BY <1>3 DEF lmsvars
  <2>2. Started' /\ Course'
    BY <1>0, <2>1 DEF Started, Course, OnCourse, Between, Onward, Excess
  <2> QED BY <1>0, <1>1, <2>1, <2>2
<1>4. CASE LoadTrack
  <2>1. /\ lms.pc = "load" /\ UNCHANGED <<opts, out402, drv402>>
        /\ lms' = IF LoadLmsConfig(lms.stators) /\ ValidateLmsConfig(Stators(lms.stators))
                  THEN [lms EXCEPT !.pc = "start", !.stators = Stators(lms.stators)]
                  ELSE [lms EXCEPT !.pc = "done"]
    BY <1>4 DEF LoadTrack
  <2>2. Stators(lms.stators) \in Maps
    BY <1>0, StatorsType DEF Programs402, Maps
  <2>3. lms' \in Programs402 /\ lms'.vel = lms.vel /\ lms'.pc \in {"start", "done"}
    BY <1>0, <2>1, <2>2 DEF Programs402
  <2>4. Started'
    BY <1>0, <2>1, <2>2 DEF Started, Programs402
  <2>5. Course'
    BY <1>0, <2>1, <2>3 DEF Course
  <2> QED BY <1>2, <2>1, <2>3, <2>4, <2>5
<1>5. ASSUME NEW found \in {0, TrackSlaves}, NEW op \in BOOLEAN, FieldbusStart(found, op) PROVE LmsInv'
  <2> DEFINE l == [lms EXCEPT !.found = found, !.pos = opts.start]
  <2>1. /\ lms.pc = "start" /\ UNCHANGED <<opts, out402, drv402>>
        /\ lms' = IF found = 0 \/ (opts.op /\ ~op) THEN Exit(l, FALSE) ELSE [l EXCEPT !.pc = "run"]
    BY <1>5 DEF FieldbusStart
  <2>2. /\ l \in Programs402 /\ l.vel = lms.vel /\ l.pos = opts.start /\ l.found = found
        /\ l.stators = lms.stators /\ l.finished = lms.finished /\ l.astray = lms.astray
    BY <1>0 DEF Programs402, Options
  <2> HIDE DEF l
  <2>3. /\ lms' \in Programs402 /\ lms'.vel = lms.vel /\ lms'.pos = opts.start /\ lms'.found = found
        /\ lms'.stators = lms.stators /\ lms'.finished = lms.finished /\ lms'.astray = lms.astray
        /\ lms'.pc \in {"run", "stop"} /\ (lms'.pc = "run" => found # 0)
    BY <2>1, <2>2 DEF Programs402, Exit
  <2>4. Started'
    BY <1>0, <2>1, <2>3 DEF Started
  <2>5. Course'
    <3>1. lms.vel = 0 /\ opts.start \in Int /\ opts.target \in Int /\ opts.acc \in Nat \ {0} /\ opts.vmax \in Nat \ {0}
      BY <1>0, <2>1 DEF Started, Options
    <3>2. 2 * opts.acc * Size1(opts.target - opts.start) >= 0 /\ 4 * opts.acc * opts.vmax >= 0
      <4>1. Size1(opts.target - opts.start) \in Nat
        BY <3>1 DEF Size1
      <4> QED BY <3>1, <4>1
    <3>3. OnCourse(opts.start, 0)
      <4>1. Between(opts.start) /\ Onward(opts.start, 0)
        BY <3>1 DEF Between, Onward
      <4>2. 2 * opts.acc * Size1(opts.target - opts.start) \in Int /\ 4 * opts.acc * opts.vmax \in Int
        BY <3>1 DEF Size1
      <4>3. Excess(opts.start, 0)
        BY <3>2, <4>2 DEF Excess
      <4> QED BY <4>1, <4>3 DEF OnCourse
    <3>4. OnCourse(lms.pos, lms.vel)'
      BY <2>1, <2>3, <3>1, <3>3 DEF OnCourse, Between, Onward, Excess
    <3>5. lms'.vel \in -opts'.vmax..opts'.vmax
      <4>1. 0 \in -opts.vmax..opts.vmax
        BY <3>1
      <4>2. opts' = opts /\ lms'.vel = 0
        BY <2>1, <2>3, <3>1
      <4> QED BY <4>1, <4>2
    <3> QED BY <3>4, <3>5 DEF Course
  <2> QED BY <1>2, <2>1, <2>3, <2>4, <2>5
<1>6. CASE RunOut
  <2>1. /\ lms.pc = "run" /\ lms' = Exit(lms, TRUE) /\ UNCHANGED <<opts, out402, drv402>>
    BY <1>6 DEF RunOut
  <2>2. /\ lms' \in Programs402 /\ lms'.vel = lms.vel /\ lms'.pos = lms.pos
        /\ lms'.stators = lms.stators /\ lms'.astray = lms.astray /\ lms'.pc = "stop"
    BY <1>0, <2>1 DEF Programs402, Exit
  <2>3. Started' /\ Course'
    BY <1>0, <2>1, <2>2 DEF Started, Course
  <2> QED BY <1>0, <1>1, <2>1, <2>2, <2>3
<1>7. CASE FieldbusStop
  <2> DEFINE init == lms.found > 0
  <2>1. /\ lms.pc = "stop" /\ UNCHANGED <<opts, out402>> /\ lms' = [lms EXCEPT !.pc = "done", !.init = init]
        /\ drv402' = IF init THEN [s \in 1..TrackSlaves |-> [state |-> "SwitchOnDisabled", cw |-> CW_ZERO]] ELSE drv402
    BY <1>7 DEF FieldbusStop, Stopped
  <2>2. /\ lms' \in Programs402 /\ lms'.vel = lms.vel /\ lms'.pos = lms.pos
        /\ lms'.stators = lms.stators /\ lms'.astray = lms.astray /\ lms'.pc = "done"
    <3>1. init \in BOOLEAN
      OBVIOUS
    <3> HIDE DEF init
    <3> QED BY <1>0, <2>1, <3>1 DEF Programs402
  <2>3. Started' /\ Course'
    BY <1>0, <2>1, <2>2 DEF Started, Course
  <2>4. /\ drv402' \in [1..TrackSlaves -> [state : DriveStates, cw : SUBSET Nat]]
        /\ \A s \in 1..TrackSlaves : drv402'[s].state # "SwitchOnDisabled" => drv402[s].state # "SwitchOnDisabled"
    BY <1>0, <2>1 DEF DriveStates, CW_ZERO
  <2> QED BY <1>1, <2>1, <2>2, <2>3, <2>4
<1>8. ASSUME NEW s \in 1..TrackSlaves, DriveFails(s) PROVE LmsInv'
  <2>1. /\ lms.pc = "run" /\ drv402[s].state = "OperationEnabled" /\ UNCHANGED <<opts, out402>>
        /\ drv402' = [drv402 EXCEPT ![s].state = "Fault"] /\ lms' = [lms EXCEPT !.faults = @ + 1]
    BY <1>8 DEF DriveFails
  <2>2. /\ lms' \in Programs402 /\ lms'.vel = lms.vel /\ lms'.pos = lms.pos /\ lms'.found = lms.found
        /\ lms'.stators = lms.stators /\ lms'.astray = lms.astray /\ lms'.pc = "run"
        /\ lms'.finished = lms.finished
    BY <1>0, <2>1 DEF Programs402
  <2>3. Started' /\ Course'
    BY <1>0, <2>1, <2>2 DEF Started, Course, OnCourse, Between, Onward, Excess
  <2>4. /\ drv402' \in [1..TrackSlaves -> [state : DriveStates, cw : SUBSET Nat]]
        /\ \A t \in 1..TrackSlaves : drv402'[t].state # "SwitchOnDisabled" => drv402[t].state # "SwitchOnDisabled"
    BY <1>0, <2>1 DEF DriveStates
  <2> QED BY <1>1, <2>1, <2>2, <2>3, <2>4
<1> QED BY <1>3, <1>4, <1>5, <1>6, <1>7, <1>8, RunCycleInv DEF LmsNext, LmsStep

(* The invariant gives the two parts of JourneyIsSafe.                     *)
LEMMA LmsInvGivesSafe == LmsInv => JourneyIsSafe
<1> SUFFICES ASSUME LmsInv PROVE TargetIsOnStator /\ PoweredOnTheWay
  BY DEF JourneyIsSafe
<1>0. LmsTypes /\ Drives /\ lms.pos \in Int
  BY DEF LmsInv, LmsTypes, Programs402
<1>1. TargetIsOnStator
  <2>1. ASSUME NEW k \in 1..Len(lms.stators), lms.pos \in lms.stators[k].from..(lms.stators[k].to - 1)
        PROVE  k \in StatorsAt(lms.stators, lms.pos)
    BY <1>0, <2>1, StatorType DEF StatorsAt
  <2>2. ASSUME NEW s \in 1..TrackSlaves, out402[s].cw # CW_ZERO PROVE OnOwn(s) /\ IsBelow(s)
    BY <1>0, <2>2 DEF Drives
  <2> QED BY <2>1, <2>2 DEF TargetIsOnStator, OnOwn, IsBelow
<1>2. PoweredOnTheWay
  <2>1. ASSUME NEW s \in 1..TrackSlaves, drv402[s].state = "OperationEnabled"
        PROVE  opts.drives /\ opts.motion /\ (lms.astray \/ OnWay(s))
    BY <1>0, <2>1 DEF Drives
  <2> QED BY <2>1 DEF PoweredOnTheWay, OnWay
<1> QED BY <1>1, <1>2

(* For any validated map of stators, any journey, lost frames and failing  *)
(* drives: lms_apply_motion_outputs writes the mover's place on a stator   *)
(* of the drive's own, and only drives on the way the mover has come get   *)
(* power, and only with --enable-drive-outputs.                            *)
THEOREM JourneysAreSafe == LmsSpec => []JourneyIsSafe
BY LmsInitInv, LmsStepInv, LmsInvGivesSafe, PTL DEF LmsSpec

(* For any journey: motion_step changes the velocity by no more than the   *)
(* acceleration, and what it cuts off when it stops dead on the target is  *)
(* bounded.                                                                *)
THEOREM PlannerStopsSoftly == LmsSpec => StopsSoftly
<1>1. ASSUME LmsInv, [LmsNext]_lmsvars
      PROVE  [lms.pc = "run" /\ lms'.pc \in {"run", "stop"} =>
                IF lms'.finished
                THEN LET v == Size1(lms.vel)
                     IN  \/ lms.astray \/ v <= 3 * opts.acc
                         \/ (v - opts.acc) * (v - opts.acc) <= 4 * opts.acc * opts.vmax
                ELSE Size1(lms'.vel - lms.vel) <= opts.acc]_lmsvars
  <2>0. SUFFICES ASSUME lms.pc = "run", lms'.pc \in {"run", "stop"}, LmsNext
                 PROVE  IF lms'.finished THEN lms.astray \/ CutSoftly(Size1(lms.vel))
                        ELSE Size1(lms'.vel - lms.vel) <= opts.acc
    BY <1>1 DEF CutSoftly
  <2>1. ~lms.finished /\ lms \in Programs402 /\ opts.acc \in Nat /\ LmsTypes /\ lms.vel \in Int
    BY <1>1, <2>0 DEF LmsInv, LmsTypes, Started, Programs402, Options
  <2>2. ASSUME lms'.vel = lms.vel, lms'.finished = lms.finished PROVE
             IF lms'.finished THEN lms.astray \/ CutSoftly(Size1(lms.vel))
             ELSE Size1(lms'.vel - lms.vel) <= opts.acc
    BY <2>1, <2>2 DEF Size1
  <2>3. ASSUME NEW lost \in BOOLEAN, RunCycle(lost) PROVE
             IF lms'.finished THEN lms.astray \/ CutSoftly(Size1(lms.vel))
             ELSE Size1(lms'.vel - lms.vel) <= opts.acc
    <3>1. PICK m \in {Moved} : \E k \in {FindStator(lms.stators, m.pos)} : \E c \in {RunEffect(m, k, lost)} :
            lms' = c.lms /\ out402' = c.out
      BY <2>3 DEF RunCycle
    <3> DEFINE k == FindStator(lms.stators, m.pos)
               c == RunEffect(m, k, lost)
    <3>2. m = Moved /\ c = RunEffect(m, k, lost) /\ lms' = c.lms /\ out402' = c.out
      BY <3>1
    <3> HIDE DEF k, c
    <3>3. /\ m.pos \in Int /\ m.vel \in -opts.vmax..opts.vmax /\ m.finished \in BOOLEAN
          /\ ~m.finished => Size1(m.vel - lms.vel) <= opts.acc
          /\ m.finished => lms.astray \/ CutSoftly(Size1(lms.vel))
      BY <1>1, <2>0, <3>2, MovedIs
    <3>4. m.vel \in Int
      BY <1>1, <3>3 DEF LmsInv, LmsTypes, Options
    <3>5. lms'.vel = m.vel /\ lms'.finished = m.finished
      BY <2>0, <2>1, <3>2, <3>3, <3>4, RunCycleIs
    <3> QED BY <3>3, <3>5
  <2>4. CASE RunOut
    BY <2>1, <2>2, <2>4 DEF RunOut, Exit, Programs402
  <2>5. ASSUME NEW s \in 1..TrackSlaves, DriveFails(s) PROVE lms'.vel = lms.vel /\ lms'.finished = lms.finished
    BY <2>1, <2>5 DEF DriveFails, Programs402
  <2> QED BY <2>0, <2>2, <2>3, <2>4, <2>5 DEF LmsNext, LmsStep, LoadTrack, FieldbusStart, FieldbusStop, Stopped
<1> QED BY <1>1, LmsInitInv, LmsStepInv, PTL DEF LmsSpec, StopsSoftly

-----------------------------------------------------------------------------
(* The slaves that ecx_config_init knows, and how far it is.               *)
Slavelist ==
  [man : Nat, id : Nat, rev : Nat, ser : Nat, rx : Nat, tx : Nat, proto : Nat, sm : Nat, bits : Nat,
   programmed : BOOLEAN, preop : BOOLEAN]
Loops ==
  {"detect", "none", "enumerate", "man", "id", "rev", "ser", "rx", "tx", "proto", "sii", "coe", "map", "done"}
Scans ==
  [pc : Loops, at : Nat, count : Nat, faults : Nat, bad : SUBSET Nat, nacked : SUBSET Nat]
Mapping == {"coe", "map", "done"}
Rest == {"tx", "proto", "sii"}
Bus == 1..Len(line)

ScanTypes ==
  /\ line \in Lines /\ reg \in [Bus -> Nat] /\ list \in [Bus -> Slavelist] /\ scan \in Scans
  /\ scan.pc \notin {"detect", "none"} => scan.count = Len(line) /\ scan.at \in Bus
  /\ scan.pc = "detect" => scan.at = 1
  /\ scan.nacked \subseteq scan.bad

(* What is in the register of slave i that will be fetched: the word of    *)
(* the loop that fetches next.                                             *)
RegisterOwn(i) ==
  /\ scan.pc = "enumerate" /\ i < scan.at => reg[i] = line[i].man
  /\ scan.pc = "man" => reg[i] = IF i < scan.at THEN line[i].id ELSE line[i].man
  /\ scan.pc = "id"  => reg[i] = IF i < scan.at THEN line[i].rev ELSE line[i].id
  /\ scan.pc = "rev" => reg[i] = IF i < scan.at THEN line[i].ser ELSE line[i].rev
  /\ scan.pc = "ser" => reg[i] = IF i < scan.at THEN line[i].rx ELSE line[i].ser
  /\ scan.pc = "rx" /\ i >= scan.at => reg[i] = line[i].rx
  /\ \/ scan.pc = "rx" /\ i < scan.at
     \/ scan.pc = "tx" /\ i >= scan.at
     \/ scan.pc \in {"proto", "sii"} /\ i > scan.at
     => (list[i].rx > 0 => reg[i] = line[i].tx)
  /\ scan.pc = "proto" /\ i = scan.at /\ list[i].rx > 0 => reg[i] = line[i].proto

FieldsOwn(i) ==
  /\ list[i].man \in {0, line[i].man} /\ list[i].id \in {0, line[i].id}
  /\ list[i].rev \in {0, line[i].rev} /\ list[i].ser \in {0, line[i].ser}
  /\ list[i].rx \in {0, line[i].rx} /\ list[i].proto \in {0, line[i].proto}
  /\ list[i].tx \in {0, line[i].tx, line[i].rx}

(* Of a slave without a fault: mailbox, protocols and mapping, as far as   *)
(* the scan is.                                                            *)
OwnBits(i) == IF OwnCoe(i) # 0 THEN OwnCoe(i) ELSE OwnSoe(i)
Whole(i) ==
  /\ (scan.pc = "rx" /\ i < scan.at) \/ scan.pc \in Rest \cup Mapping => list[i].rx = line[i].rx
  /\ \/ scan.pc \in Rest /\ i < scan.at
     \/ scan.pc = "sii" /\ i = scan.at
     \/ scan.pc \in Mapping
     => (line[i].rx > 0 => list[i].proto = line[i].proto)
  /\ (scan.pc = "coe" /\ i < scan.at) \/ scan.pc \in {"map", "done"} =>
       (line[i].rx > 0 /\ OwnBits(i) # 0 => list[i].bits = OwnBits(i))

(* Sync managers and mapping.                                              *)
BroughtUp(i) ==
  /\ list[i].preop = ((scan.pc \in Rest /\ i < scan.at) \/ scan.pc \in Mapping)
  /\ scan.pc \notin Mapping => list[i].bits = 0
MappedOwn(i) ==
  Told(i) => /\ list[i].preop => list[i].sm \in {line[i].sm, Failed}
             /\ list[i].bits \in {0, OwnCoe(i), OwnSoe(i), line[i].pdo}

ScanInv ==
  /\ ScanTypes
  /\ \A i \in Bus : i \notin scan.nacked => RegisterOwn(i) /\ FieldsOwn(i)
  /\ \A i \in Bus : i \notin scan.bad => Whole(i)
  /\ \A i \in Bus : BroughtUp(i)
  /\ scan.nacked = {} => \A i \in Bus : MappedOwn(i)

-----------------------------------------------------------------------------
(* The devices of a line, and equal ones.                                  *)
LEMMA LineTypes ==
  ASSUME line \in Lines
  PROVE  /\ Len(line) \in Nat /\ \A i \in Bus : line[i] \in Eeproms
         /\ \A i, j \in Bus : SameId(line[i], line[j]) => SameMappings(line[i], line[j])
BY ScanAssumption DEF Bus

(* ecx_lookup_prev_sii and ecx_lookup_mapping stop at an equal slave.      *)
LEMMA FirstIsEqual ==
  ASSUME NEW i \in Bus, Equals(i) # {}
  PROVE  FirstOf(Equals(i)) \in Equals(i)
<1>1. Equals(i) \subseteq Nat
  BY DEF Equals, Bus
<1>2. \E m \in Equals(i) : \A k \in Equals(i) : m <= k
  BY <1>1, LeastNat
<1> QED BY <1>2 DEF FirstOf

(* A slave that looks equal to one whose identity was read, is equal.      *)
LEMMA EqualIsEqual ==
  ASSUME line \in Lines, NEW i \in Bus, NEW j \in Equals(i), FieldsOwn(i), FieldsOwn(j),
         Told(i)
  PROVE  /\ j \in Bus /\ j < i /\ Told(j)
         /\ line[j].sm = line[i].sm /\ line[j].pdo = line[i].pdo
         /\ OwnCoe(j) = OwnCoe(i) /\ OwnSoe(j) = OwnSoe(i)
<1>1. j \in Bus /\ j < i
  BY LineTypes DEF Equals, Bus
<1>2. SameSlave(j, i) /\ list[i].man # 0 /\ list[i].id # 0 /\ list[i].rev # 0
  BY DEF Equals, Told
<1>3. Told(j) /\ SameId(line[j], line[i])
  BY <1>2 DEF SameSlave, FieldsOwn, SameId, Told
<1>4. SameMappings(line[j], line[i])
  BY <1>1, <1>3, LineTypes
<1> QED BY <1>1, <1>3, <1>4 DEF SameMappings, OwnCoe, OwnSoe

(* Nothing is read yet when ecx_config_init starts.                        *)
LEMMA ScanStart == ScanInit => ScanInv
<1> SUFFICES ASSUME ScanInit PROVE ScanInv
  OBVIOUS
<1>1. line \in Lines /\ reg = [i \in Bus |-> 0] /\ list = [i \in Bus |-> NoSlave]
      /\ scan = [pc |-> "detect", at |-> 1, count |-> 0, faults |-> 0, bad |-> {}, nacked |-> {}]
  BY DEF ScanInit, StartScan, Bus
<1>2. ScanTypes
  BY <1>1 DEF ScanTypes, NoSlave, Slavelist, Scans, Loops, Failed
<1>3. ASSUME NEW i \in Bus PROVE RegisterOwn(i) /\ FieldsOwn(i) /\ Whole(i) /\ BroughtUp(i) /\ MappedOwn(i)
  BY <1>1 DEF RegisterOwn, FieldsOwn, Whole, BroughtUp, MappedOwn, NoSlave, Mapping, Rest
<1> QED BY <1>1, <1>2, <1>3 DEF ScanInv

(* Where the scan goes next.                                               *)
LEMMA NextAtIs ==
  ASSUME ScanTypes, scan.pc \notin {"detect", "none"},
         NEW pc \in Loops
  PROVE  /\ NextAt(pc) \in Scans /\ NextAt(pc).count = scan.count
         /\ NextAt(pc).bad = scan.bad /\ NextAt(pc).nacked = scan.nacked
         /\ \/ /\ scan.at < Len(line) /\ NextAt(pc).pc = scan.pc /\ NextAt(pc).at = scan.at + 1
            \/ /\ scan.at = Len(line) /\ NextAt(pc).pc = pc /\ NextAt(pc).at = 1
<1>1. scan \in Scans /\ scan.count = Len(line) /\ scan.at \in Bus /\ Len(line) \in Nat
  BY LineTypes DEF ScanTypes
<1>2. CASE scan.at < Len(line)
  <2>1. NextAt(pc) = [scan EXCEPT !.at = scan.at + 1]
    BY <1>1, <1>2 DEF NextAt, Here
  <2> QED BY <1>1, <1>2, <2>1 DEF Scans
<1>3. CASE ~(scan.at < Len(line))
  <2>1. NextAt(pc) = [scan EXCEPT !.at = 1, !.pc = pc] /\ scan.at = Len(line)
    BY <1>1, <1>3 DEF NextAt, Here, Bus
  <2>2. NextAt(pc) = [pc |-> pc, at |-> 1, count |-> scan.count, faults |-> scan.faults,
                      bad |-> scan.bad, nacked |-> scan.nacked]
    BY <1>1, <2>1 DEF Scans
  <2> QED BY <1>1, <2>1, <2>2 DEF Scans
<1> QED BY <1>2, <1>3

(* What a fault leaves.                                                    *)
LEMMA FaultIs ==
  ASSUME ScanTypes, NEW kind, NEW to \in Scans, to.bad = scan.bad, to.nacked = scan.nacked,
         ScanFault(kind, to)
  PROVE  /\ scan' \in Scans /\ scan'.pc = to.pc /\ scan'.at = to.at /\ scan'.count = to.count
         /\ scan'.bad = scan.bad \cup {scan.at}
         /\ scan'.nacked = IF kind = "nack" THEN scan.nacked \cup {scan.at} ELSE scan.nacked
<1>1. scan.at \in Nat
  BY DEF ScanTypes, Scans
<1>2. scan' = [to EXCEPT !.faults = @ + 1, !.bad = @ \cup {scan.at},
                         !.nacked = IF kind = "nack" THEN @ \cup {scan.at} ELSE @]
  BY DEF ScanFault, Here
<1>3. scan'.pc = to.pc /\ scan'.at = to.at /\ scan'.count = to.count /\ scan'.bad = to.bad \cup {scan.at}
  BY <1>2 DEF Scans
<1>4. scan'.nacked = IF kind = "nack" THEN to.nacked \cup {scan.at} ELSE to.nacked
  BY <1>2 DEF Scans
<1>5. scan' \in Scans
  <2>1. scan' = [pc |-> to.pc, at |-> to.at, count |-> to.count, faults |-> to.faults + 1,
                 bad |-> scan'.bad, nacked |-> scan'.nacked]
    BY <1>2 DEF Scans
  <2>2. scan'.bad \in SUBSET Nat /\ scan'.nacked \in SUBSET Nat
    BY <1>1, <1>3, <1>4 DEF Scans
  <2> QED BY <2>1, <2>2 DEF Scans
<1> QED BY <1>3, <1>4, <1>5

(***************************************************************************)
(* A step that works on slave h, from one slave to the next, from the last *)
(* to the first of the next loop, and on in the last loop.                 *)
(***************************************************************************)
Turns(from, to) ==
  /\ scan.pc = from
  /\ \/ scan.at < Len(line) /\ scan'.pc = from /\ scan'.at = scan.at + 1
     \/ scan.at = Len(line) /\ scan'.pc = to /\ scan'.at = 1
Moves ==
  \/ Turns("enumerate", "man") \/ Turns("man", "id") \/ Turns("id", "rev") \/ Turns("rev", "ser")
  \/ Turns("ser", "rx") \/ Turns("rx", "tx") \/ Turns("coe", "map") \/ Turns("map", "done")
  \/ scan.pc = "tx" /\ scan'.pc = "proto" /\ scan'.at = scan.at
  \/ scan.pc = "proto" /\ scan'.pc = "sii" /\ scan'.at = scan.at
  \/ /\ scan.pc = "sii"
     /\ \/ scan.at < Len(line) /\ scan'.pc = "tx" /\ scan'.at = scan.at + 1
        \/ scan.at = Len(line) /\ scan'.pc = "coe" /\ scan'.at = 1
WorksOn(h) ==
  /\ h = scan.at /\ h \in Bus /\ scan.pc \notin {"detect", "none"} /\ Moves
  /\ UNCHANGED line /\ scan' \in Scans /\ scan'.count = scan.count
  /\ \/ scan'.bad = scan.bad /\ scan'.nacked = scan.nacked
     \/ scan'.bad = scan.bad \cup {h} /\ scan'.nacked = scan.nacked
     \/ scan'.bad = scan.bad \cup {h} /\ scan'.nacked = scan.nacked \cup {h}
  /\ \E v \in Nat : reg' = [reg EXCEPT ![h] = v]
  /\ \E s \in Slavelist : list' = [list EXCEPT ![h] = s]

(* The step leaves the other slaves alone.                                 *)
LEMMA OthersStay ==
  ASSUME ScanInv, NEW h, WorksOn(h), NEW i \in Bus, i # h
  PROVE  /\ reg'[i] = reg[i] /\ list'[i] = list[i]
         /\ i \notin scan'.nacked => RegisterOwn(i)' /\ FieldsOwn(i)'
         /\ i \notin scan'.bad => Whole(i)'
         /\ BroughtUp(i)'
<1>1. reg'[i] = reg[i] /\ list'[i] = list[i] /\ line' = line /\ i \in Nat /\ h \in Nat /\ h = scan.at
      /\ Len(line) \in Nat /\ i <= Len(line) /\ 1 <= i /\ Bus' = Bus
  BY LineTypes DEF ScanInv, ScanTypes, WorksOn, Bus
<1>2. (i \notin scan'.nacked => i \notin scan.nacked) /\ (i \notin scan'.bad => i \notin scan.bad)
  BY DEF WorksOn
<1>3. OwnBits(i)' = OwnBits(i)
  BY <1>1 DEF OwnBits, OwnCoe, OwnSoe
<1>4. Moves
  BY DEF WorksOn
<1>5. ASSUME i \notin scan.nacked PROVE RegisterOwn(i)'
  <2>1. RegisterOwn(i)
    BY <1>5 DEF ScanInv
  <2> QED BY <1>1, <1>4, <2>1 DEF RegisterOwn, Moves, Turns
<1>6. ASSUME i \notin scan.nacked PROVE FieldsOwn(i)'
  BY <1>1, <1>6 DEF ScanInv, FieldsOwn
<1>7. ASSUME i \notin scan.bad PROVE Whole(i)'
  <2>1. Whole(i)
    BY <1>7 DEF ScanInv
  <2> QED BY <1>1, <1>3, <1>4, <2>1 DEF Whole, Moves, Turns, Rest, Mapping
<1>8. BroughtUp(i)'
  <2>1. BroughtUp(i)
    BY DEF ScanInv
  <2> QED BY <1>1, <1>4, <2>1 DEF BroughtUp, Moves, Turns, Rest, Mapping
<1> QED BY <1>1, <1>2, <1>5, <1>6, <1>7, <1>8

(* What is left to show of a step.                                         *)
LEMMA ScanKeeps ==
  ASSUME ScanInv, NEW h, WorksOn(h),
         h \notin scan'.nacked => RegisterOwn(h)' /\ FieldsOwn(h)',
         h \notin scan'.bad => Whole(h)',
         BroughtUp(h)',
         scan'.nacked = {} => \A i \in Bus : MappedOwn(i)'
  PROVE  ScanInv'
<1>1. Bus' = Bus /\ Len(line) \in Nat
  BY LineTypes DEF ScanInv, ScanTypes, WorksOn, Bus
<1>2. ScanTypes'
  <2>1. reg' \in [Bus -> Nat] /\ list' \in [Bus -> Slavelist]
    BY DEF ScanInv, ScanTypes, WorksOn
  <2>2. scan'.nacked \subseteq scan'.bad
    BY DEF ScanInv, ScanTypes, WorksOn
  <2>3. scan'.count = Len(line) /\ scan'.at \in Bus
    <3>1. scan.count = Len(line) /\ scan.at \in 1..Len(line) /\ scan'.count = scan.count /\ Moves
      BY DEF ScanInv, ScanTypes, WorksOn, Bus
    <3> QED BY <1>1, <3>1 DEF Moves, Turns, Bus
  <2>4. scan'.pc # "detect"
    BY DEF WorksOn, Moves, Turns
  <2> QED BY <1>1, <2>1, <2>2, <2>3, <2>4 DEF ScanInv, ScanTypes, WorksOn
<1>3. ASSUME NEW i \in Bus
      PROVE  /\ i \notin scan'.nacked => RegisterOwn(i)' /\ FieldsOwn(i)'
             /\ i \notin scan'.bad => Whole(i)'
             /\ BroughtUp(i)'
  BY <1>3, OthersStay
<1> QED BY <1>1, <1>2, <1>3 DEF ScanInv

(* Before the last loop nothing is mapped.                                 *)
LEMMA NotMappedYet ==
  ASSUME NEW i \in Nat, scan'.at \in Nat, BroughtUp(i)', scan'.pc \notin Mapping,
         scan'.pc \in Rest => scan'.at <= i
  PROVE  MappedOwn(i)'
<1>1. ~((scan'.pc \in Rest /\ i < scan'.at) \/ scan'.pc \in Mapping)
  OBVIOUS
<1>2. ~list'[i].preop /\ list'[i].bits = 0
  BY <1>1 DEF BroughtUp
<1> QED BY <1>2 DEF MappedOwn

(* Nor is any slave mapped, or in PRE_OP, before the last loop.            *)
LEMMA NoneMappedYet ==
  ASSUME ScanInv, NEW h, WorksOn(h), BroughtUp(h)', scan'.pc \notin Mapping,
         scan'.pc \in Rest => scan'.at = 1
  PROVE  \A i \in Bus : MappedOwn(i)'
<1> SUFFICES ASSUME NEW i \in Bus PROVE MappedOwn(i)'
  OBVIOUS
<1>1. scan'.at \in Nat /\ i \in Nat /\ 1 <= i
  BY DEF WorksOn, Scans, Bus
<1>2. BroughtUp(i)'
  BY OthersStay
<1> QED BY <1>1, <1>2, NotMappedYet

(* While identities stay, so does who is equal to whom.                    *)
LEMMA ToldStays ==
  ASSUME NEW i \in Bus, Len(line) \in Nat,
         \A j \in Bus : list'[j].man = list[j].man /\ list'[j].id = list[j].id /\ list'[j].rev = list[j].rev
  PROVE  Told(i)' = Told(i) /\ Equals(i)' = Equals(i)
<1>1. \A j \in 1..(i - 1) : j \in Bus
  BY DEF Bus
<1>2. Equals(i)' = Equals(i)
  BY <1>1 DEF Equals, SameSlave
<1> QED BY <1>2 DEF Told

(* One slave is done, without a fault or with one.                         *)
LEMMA TurnIs ==
  ASSUME ScanTypes, scan.pc \notin {"detect", "none"}, NEW next \in Loops, NEW kind
  PROVE  /\ ScanFine(NextAt(next)) =>
              /\ scan' \in Scans /\ scan'.count = scan.count /\ Turns(scan.pc, next)
              /\ scan'.bad = scan.bad /\ scan'.nacked = scan.nacked
         /\ ScanFault(kind, NextAt(next)) =>
              /\ scan' \in Scans /\ scan'.count = scan.count /\ Turns(scan.pc, next)
              /\ scan'.bad = scan.bad \cup {scan.at}
              /\ scan'.nacked = IF kind = "nack" THEN scan.nacked \cup {scan.at} ELSE scan.nacked
<1>3. ScanFine(NextAt(next)) =>
              /\ scan' \in Scans /\ scan'.count = scan.count /\ Turns(scan.pc, next)
              /\ scan'.bad = scan.bad /\ scan'.nacked = scan.nacked
  BY NextAtIs DEF ScanFine, Turns
<1>4. ScanFault(kind, NextAt(next)) =>
              /\ scan' \in Scans /\ scan'.count = scan.count /\ Turns(scan.pc, next)
              /\ scan'.bad = scan.bad \cup {scan.at}
              /\ scan'.nacked = IF kind = "nack" THEN scan.nacked \cup {scan.at} ELSE scan.nacked
  BY NextAtIs, FaultIs DEF Turns
<1> QED BY <1>3, <1>4

(* ecx_readeeprom1: the word that was asked for is in the register, or the *)
(* slave has not acknowledged.                                             *)
LEMMA AskIs ==
  ASSUME ScanInv, NEW h, h = scan.at, h \in Bus, scan.pc \notin {"detect", "none"}, NEW next \in Loops,
         NEW word \in {"man", "id", "rev", "ser", "rx", "tx"}, Ask(word, NextAt(next))
  PROVE  /\ scan' \in Scans /\ scan'.count = scan.count /\ Turns(scan.pc, next)
         /\ \/ scan'.bad = scan.bad /\ scan'.nacked = scan.nacked
            \/ scan'.bad = scan.bad \cup {h} /\ scan'.nacked = scan.nacked \cup {h}
         /\ \E v \in Nat : reg' = [reg EXCEPT ![h] = v]
         /\ h \notin scan'.nacked => reg'[h] = line[h][word]
<1>0. ScanTypes /\ reg \in [Bus -> Nat] /\ line[h][word] \in Nat
  BY LineTypes DEF ScanInv, ScanTypes, Eeproms
<1>1. CASE reg' = [reg EXCEPT ![Here] = line[Here][word]] /\ ScanFine(NextAt(next))
  BY <1>0, <1>1, TurnIs DEF Here
<1>2. CASE UNCHANGED reg /\ ScanFault("nack", NextAt(next))
  <2>1. reg' = [reg EXCEPT ![h] = reg[h]] /\ reg[h] \in Nat
    BY <1>0, <1>2
  <2> QED BY <1>0, <1>2, <2>1, TurnIs
<1> QED BY <1>1, <1>2 DEF Ask

(* The loop that sets the addresses asks every slave for its manufacturer. *)
LEMMA EnumerateKeeps ==
  ASSUME ScanInv, NEW h, h = scan.at, Enumerate
  PROVE  ScanInv'
<1>0. ScanTypes /\ scan.pc = "enumerate" /\ h \in Bus /\ UNCHANGED <<line, list>> /\ Bus' = Bus
      /\ list[h] \in Slavelist /\ list' = [list EXCEPT ![h] = list[h]] /\ h \in Nat /\ 1 <= h /\ h <= Len(line) /\ Len(line) \in Nat
  BY LineTypes DEF ScanInv, ScanTypes, Enumerate, Bus
<1>1. Ask("man", NextAt("man")) /\ "man" \in Loops
  BY DEF Enumerate, Loops
<1>2. WorksOn(h)
  BY <1>0, <1>1, AskIs DEF WorksOn, Moves
<1>3. Turns("enumerate", "man") /\ (h \notin scan'.nacked => reg'[h] = line[h].man)
  BY <1>0, <1>1, AskIs
<1>4. ASSUME h \notin scan'.nacked PROVE RegisterOwn(h)' /\ FieldsOwn(h)'
  <2>1. FieldsOwn(h) /\ line' = line /\ list'[h] = list[h]
    BY <1>0, <1>2, <1>4 DEF ScanInv, WorksOn
  <2>2. RegisterOwn(h)'
    BY <1>0, <1>3, <1>4 DEF RegisterOwn, Turns
  <2> QED BY <2>1, <2>2 DEF FieldsOwn
<1>5. Whole(h)' /\ scan'.pc \in {"enumerate", "man"}
  BY <1>3 DEF Whole, Turns, Rest, Mapping
<1>6. BroughtUp(h)'
  BY <1>0, <1>5 DEF ScanInv, BroughtUp, Rest, Mapping
<1>7. \A i \in Bus : MappedOwn(i)'
  BY <1>2, <1>5, <1>6, NoneMappedYet DEF Mapping, Rest
<1> QED BY <1>2, <1>4, <1>5, <1>6, <1>7, ScanKeeps

(* The word that is asked for when a word has been fetched.                *)
WordAfter(word, then) ==
  \/ word = "man" /\ then = "id"
  \/ word = "id"  /\ then = "rev"
  \/ word = "rev" /\ then = "ser"
  \/ word = "ser" /\ then = "rx"
(* One loop over the slaves: a word is fetched and the next asked for.     *)
LEMMA FetchKeeps ==
  ASSUME ScanInv, NEW h, h = scan.at, NEW word, NEW then, WordAfter(word, then),
         FetchAndAsk(word, then)
  PROVE  ScanInv'
<1>a. \/ (word = "man" /\ then = "id") \/ (word = "id" /\ then = "rev")
      \/ (word = "rev" /\ then = "ser") \/ (word = "ser" /\ then = "rx")
  BY DEF WordAfter
<1>0. ScanTypes /\ scan.pc = word /\ h \in Bus /\ UNCHANGED line /\ Bus' = Bus /\ then \in Loops
      /\ h \in Nat /\ 1 <= h /\ h <= Len(line) /\ Len(line) \in Nat
  BY <1>a, LineTypes DEF ScanInv, ScanTypes, FetchAndAsk, Bus, Loops
<1>1. list[h] \in Slavelist /\ line[h] \in Eeproms /\ reg[h] \in Nat /\ reg \in [Bus -> Nat]
      /\ list \in [Bus -> Slavelist]
  BY <1>a, <1>0, LineTypes DEF ScanTypes
<1>2. \/ Fetch(word, TRUE) /\ Ask(then, NextAt(then))
      \/ Fetch(word, FALSE) /\ ScanFault("data", NextAt(then)) /\ reg' = [reg EXCEPT ![h] = line[h][then]]
  BY <1>a DEF FetchAndAsk, Here
<1>3. PICK v \in {0, reg[h]} : list' = [list EXCEPT ![h] = [list[h] EXCEPT ![word] = v]]
  BY <1>a, <1>2 DEF Fetch, Here
<1>4. v \in Nat /\ [list[h] EXCEPT ![word] = v] \in Slavelist
  BY <1>a, <1>1 DEF Slavelist
<1>5. /\ scan' \in Scans /\ scan'.count = scan.count /\ Turns(word, then)
      /\ \/ scan'.bad = scan.bad /\ scan'.nacked = scan.nacked
         \/ scan'.bad = scan.bad \cup {h} /\ scan'.nacked = scan.nacked
         \/ scan'.bad = scan.bad \cup {h} /\ scan'.nacked = scan.nacked \cup {h}
      /\ \E x \in Nat : reg' = [reg EXCEPT ![h] = x]
      /\ h \notin scan'.nacked => reg'[h] = line[h][then]
  <2>1. CASE Ask(then, NextAt(then))
    BY <1>a, <1>0, <2>1, AskIs
  <2>2. CASE ScanFault("data", NextAt(then)) /\ reg' = [reg EXCEPT ![h] = line[h][then]]
    <3>1. line[h][then] \in Nat /\ reg'[h] = line[h][then]
      BY <1>a, <1>0, <1>1, <2>2 DEF Eeproms
    <3> QED BY <1>a, <1>0, <2>2, <3>1, TurnIs
  <2> QED BY <1>a, <1>2, <2>1, <2>2
<1>6. WorksOn(h)
  BY <1>a, <1>0, <1>3, <1>4, <1>5 DEF WorksOn, Moves
<1>7. ASSUME h \notin scan'.nacked PROVE RegisterOwn(h)' /\ FieldsOwn(h)'
  <2>1. FieldsOwn(h) /\ RegisterOwn(h) /\ line' = line
    BY <1>a, <1>0, <1>6, <1>7 DEF ScanInv, WorksOn
  <2>2. RegisterOwn(h)'
    BY <1>a, <1>0, <1>5, <1>7, <2>1 DEF RegisterOwn, Turns
  <2>3. reg[h] = line[h][word]
    BY <1>a, <1>0, <2>1 DEF RegisterOwn
  <2>4. FieldsOwn(h)'
    BY <1>a, <1>0, <1>1, <1>3, <2>1, <2>3 DEF FieldsOwn, Slavelist
  <2> QED BY <1>a, <2>2, <2>4
<1>8. Whole(h)' /\ scan'.pc \in {word, then}
  BY <1>a, <1>0, <1>5 DEF Whole, Turns, Rest, Mapping
<1>9. BroughtUp(h)'
  BY <1>a, <1>0, <1>1, <1>3, <1>8 DEF ScanInv, BroughtUp, Rest, Mapping, Slavelist
<1>10. \A i \in Bus : MappedOwn(i)'
  BY <1>a, <1>6, <1>8, <1>9, NoneMappedYet DEF Mapping, Rest
<1> QED BY <1>a, <1>6, <1>7, <1>8, <1>9, <1>10, ScanKeeps

(* ecx_detect_slaves.                                                      *)
LEMMA DetectKeeps == ASSUME ScanInv, DetectSlaves PROVE ScanInv'
<1>0. ScanTypes /\ scan.pc = "detect" /\ UNCHANGED <<line, reg, list>> /\ Bus' = Bus /\ Len(line) \in Nat
      /\ scan \in Scans /\ scan.at = 1
  BY LineTypes DEF ScanInv, ScanTypes, DetectSlaves, Bus
<1>1. \/ /\ Len(line) \in 1..(MaxSlaves - 1)
         /\ scan' = [scan EXCEPT !.pc = "enumerate", !.count = Len(line)]
      \/ scan' = [scan EXCEPT !.pc = "none"]
      \/ ScanFault("detect", [scan EXCEPT !.pc = "none"])
  BY DEF DetectSlaves, ScanFine
<1>2. /\ scan' \in Scans /\ scan.nacked = scan'.nacked /\ scan.bad \subseteq scan'.bad
      /\ \/ scan'.pc = "enumerate" /\ Len(line) >= 1 /\ scan'.count = Len(line) /\ scan'.at = 1
         \/ scan'.pc = "none"
  <2>1. CASE Len(line) \in 1..(MaxSlaves - 1) /\ scan' = [scan EXCEPT !.pc = "enumerate", !.count = Len(line)]
    <3>1. scan' = [pc |-> "enumerate", at |-> scan.at, count |-> Len(line), faults |-> scan.faults,
                   bad |-> scan.bad, nacked |-> scan.nacked]
      BY <1>0, <2>1 DEF Scans
    <3> QED BY <1>0, <2>1, <3>1, ScanAssumption DEF Scans, Loops
  <2>2. [scan EXCEPT !.pc = "none"] \in Scans
    BY <1>0 DEF Scans, Loops
  <2>3. CASE scan' = [scan EXCEPT !.pc = "none"]
    BY <1>0, <2>2, <2>3 DEF Scans
  <2>4. CASE ScanFault("detect", [scan EXCEPT !.pc = "none"])
    <3> DEFINE to == [scan EXCEPT !.pc = "none"]
    <3>1. to \in Scans /\ to.bad = scan.bad /\ to.nacked = scan.nacked /\ to.pc = "none"
      BY <1>0, <2>2 DEF Scans
    <3> HIDE DEF to
    <3>2. ScanFault("detect", to)
      BY <2>4 DEF to
    <3> QED BY <1>0, <3>1, <3>2, FaultIs
  <2> QED BY <1>1, <2>1, <2>3, <2>4
<1>3. ScanTypes'
  BY <1>0, <1>2 DEF ScanTypes, Bus
<1>4. ASSUME NEW i \in Bus
      PROVE  /\ (i \notin scan'.nacked => RegisterOwn(i)' /\ FieldsOwn(i)')
             /\ Whole(i)' /\ BroughtUp(i)' /\ MappedOwn(i)'
  <2>1. i \in Nat /\ 1 <= i /\ scan'.at \in Nat
    BY <1>2 DEF Bus, Scans
  <2>2. BroughtUp(i)'
    BY <1>0, <1>2 DEF ScanInv, BroughtUp, Rest, Mapping
  <2>3. MappedOwn(i)'
    BY <1>2, <2>1, <2>2, NotMappedYet DEF Rest, Mapping
  <2>4. Whole(i)'
    BY <1>2 DEF Whole, Rest, Mapping
  <2>5. RegisterOwn(i)'
    BY <1>2, <2>1 DEF RegisterOwn
  <2>6. i \notin scan'.nacked => FieldsOwn(i)'
    BY <1>0, <1>2 DEF ScanInv, FieldsOwn
  <2> QED BY <2>2, <2>3, <2>4, <2>5, <2>6
<1> QED BY <1>0, <1>3, <1>4 DEF ScanInv

(* The write mailbox: who has one is asked for the read mailbox.           *)
LEMMA MailboxKeeps ==
  ASSUME ScanInv, NEW h, h = scan.at, FetchMailbox
  PROVE  ScanInv'
<1>0. ScanTypes /\ scan.pc = "rx" /\ h \in Bus /\ UNCHANGED line /\ Bus' = Bus /\ "tx" \in Loops
      /\ h \in Nat /\ 1 <= h /\ h <= Len(line) /\ Len(line) \in Nat
  BY LineTypes DEF ScanInv, ScanTypes, FetchMailbox, Bus, Loops
<1>1. list[h] \in Slavelist /\ line[h] \in Eeproms /\ reg[h] \in Nat /\ reg \in [Bus -> Nat]
      /\ list \in [Bus -> Slavelist]
  BY <1>0, LineTypes DEF ScanTypes
<1>2. \/ Fetch("rx", TRUE) /\ reg[h] > 0 /\ Ask("tx", NextAt("tx"))
      \/ Fetch("rx", TRUE) /\ ~(reg[h] > 0) /\ UNCHANGED reg /\ ScanFine(NextAt("tx"))
      \/ Fetch("rx", FALSE) /\ UNCHANGED reg /\ ScanFault("data", NextAt("tx"))
  BY DEF FetchMailbox, Here
<1>3. PICK v \in {0, reg[h]} : list' = [list EXCEPT ![h] = [list[h] EXCEPT !.rx = v]]
  BY <1>2 DEF Fetch, Here
<1>4. v \in Nat /\ [list[h] EXCEPT !.rx = v] \in Slavelist /\ list'[h] = [list[h] EXCEPT !.rx = v]
      /\ list'[h].rx = v
  <2>1. v \in Nat /\ list'[h] = [list[h] EXCEPT !.rx = v]
    BY <1>0, <1>1, <1>3
  <2> QED BY <1>1, <2>1 DEF Slavelist
<1>5. /\ scan' \in Scans /\ scan'.count = scan.count /\ Turns("rx", "tx")
      /\ \/ scan'.bad = scan.bad /\ scan'.nacked = scan.nacked
         \/ scan'.bad = scan.bad \cup {h} /\ scan'.nacked = scan.nacked
         \/ scan'.bad = scan.bad \cup {h} /\ scan'.nacked = scan.nacked \cup {h}
      /\ \E x \in Nat : reg' = [reg EXCEPT ![h] = x]
      /\ h \notin scan'.nacked /\ v > 0 => reg'[h] = line[h].tx
      /\ v = reg[h] \/ h \in scan'.bad
  <2>0. reg = [reg EXCEPT ![h] = reg[h]]
    BY <1>0, <1>1
  <2>1. CASE Fetch("rx", TRUE) /\ reg[h] > 0 /\ Ask("tx", NextAt("tx"))
    <3>1. v = reg[h]
      BY <1>0, <1>1, <1>4, <2>1 DEF Fetch, Here, Slavelist
    <3> QED BY <1>0, <2>1, <3>1, AskIs
  <2>2. CASE Fetch("rx", TRUE) /\ ~(reg[h] > 0) /\ UNCHANGED reg /\ ScanFine(NextAt("tx"))
    <3>1. v = reg[h]
      BY <1>0, <1>1, <1>4, <2>2 DEF Fetch, Here, Slavelist
    <3> QED BY <1>0, <1>1, <2>0, <2>2, <3>1, TurnIs
  <2>3. CASE Fetch("rx", FALSE) /\ UNCHANGED reg /\ ScanFault("data", NextAt("tx"))
    <3>1. v = 0
      BY <1>0, <1>1, <1>4, <2>3 DEF Fetch, Here, Slavelist
    <3> QED BY <1>0, <1>1, <2>0, <2>3, <3>1, TurnIs
  <2> QED BY <1>2, <2>1, <2>2, <2>3
<1>6. WorksOn(h)
  BY <1>0, <1>3, <1>4, <1>5 DEF WorksOn, Moves
<1>n. ASSUME h \notin scan.nacked PROVE FieldsOwn(h) /\ reg[h] = line[h].rx
  BY <1>0, <1>n DEF ScanInv, RegisterOwn
<1>s. scan'.pc \in {"rx", "tx"} /\ (scan'.pc = "tx" => scan'.at = 1) /\ (scan'.pc = "rx" => scan'.at = h + 1)
  BY <1>0, <1>5 DEF Turns
<1>7. ASSUME h \notin scan'.nacked PROVE RegisterOwn(h)' /\ FieldsOwn(h)'
  <2>1. FieldsOwn(h) /\ reg[h] = line[h].rx /\ line' = line
    BY <1>0, <1>6, <1>7, <1>n DEF WorksOn
  <2>2. RegisterOwn(h)'
    BY <1>0, <1>4, <1>5, <1>7, <1>s, <2>1 DEF RegisterOwn
  <2>4. FieldsOwn(h)'
    BY <1>0, <1>1, <1>3, <1>4, <2>1 DEF FieldsOwn, Slavelist
  <2> QED BY <2>2, <2>4
<1>8. ASSUME h \notin scan'.bad PROVE Whole(h)'
  <2>1. h \notin scan.nacked /\ v = reg[h]
    BY <1>0, <1>5, <1>8 DEF ScanTypes
  <2>2. list'[h].rx = line'[h].rx
    BY <1>0, <1>4, <1>n, <2>1
  <2> QED BY <1>0, <1>s, <2>2 DEF Whole, Rest, Mapping
<1>9. BroughtUp(h)'
  <2>1. list'[h].preop = list[h].preop /\ list'[h].bits = list[h].bits
    BY <1>4, <1>1 DEF Slavelist
  <2> QED BY <1>0, <1>s, <2>1 DEF ScanInv, BroughtUp, Rest, Mapping
<1>10. \A i \in Bus : MappedOwn(i)'
  BY <1>6, <1>s, <1>9, NoneMappedYet DEF Mapping, Rest
<1> QED BY <1>6, <1>7, <1>8, <1>9, <1>10, ScanKeeps

-----------------------------------------------------------------------------
(* The last loop of ecx_config_init, and the mapping: identities stay.     *)
LEMMA LateKeeps ==
  ASSUME ScanInv, NEW h, WorksOn(h), scan.pc \in Rest \cup Mapping,
         list'[h].man = list[h].man, list'[h].id = list[h].id, list'[h].rev = list[h].rev,
         h \notin scan'.nacked => RegisterOwn(h)' /\ FieldsOwn(h)',
         h \notin scan'.bad => Whole(h)',
         BroughtUp(h)',
         scan'.nacked = {} /\ Told(h) =>
           /\ list'[h].preop => list'[h].sm \in {line[h].sm, Failed}
           /\ list'[h].bits \in {0, OwnCoe(h), OwnSoe(h), line[h].pdo}
  PROVE  ScanInv'
<1>1. line' = line /\ Bus' = Bus /\ Len(line) \in Nat
  BY LineTypes DEF ScanInv, ScanTypes, WorksOn, Bus
<1>2. \A j \in Bus : j # h => list'[j] = list[j]
  BY OthersStay
<1>3. ASSUME scan'.nacked = {}, NEW i \in Bus PROVE MappedOwn(i)'
  <2>1. Told(i)' = Told(i)
    BY <1>1, <1>2, ToldStays
  <2>2. OwnCoe(i)' = OwnCoe(i) /\ OwnSoe(i)' = OwnSoe(i) /\ line'[i] = line[i]
    BY <1>1 DEF OwnCoe, OwnSoe
  <2>3. CASE i = h
    BY <1>3, <2>1, <2>2, <2>3 DEF MappedOwn
  <2>4. CASE i # h
    <3>1. MappedOwn(i) /\ list'[i] = list[i]
      BY <1>2, <1>3, <2>4 DEF ScanInv, WorksOn
    <3> QED BY <2>1, <2>2, <3>1 DEF MappedOwn
  <2> QED BY <2>3, <2>4
<1> QED BY <1>3, ScanKeeps

(* The read mailbox, for slaves with a write mailbox.                      *)
LEMMA ReadMailboxKeeps ==
  ASSUME ScanInv, NEW h, h = scan.at, FetchReadMailbox
  PROVE  ScanInv'
<1> DEFINE to == [scan EXCEPT !.pc = "proto"]
<1>0. ScanTypes /\ scan.pc = "tx" /\ h \in Bus /\ UNCHANGED line /\ Bus' = Bus
      /\ h \in Nat /\ 1 <= h /\ h <= Len(line) /\ Len(line) \in Nat /\ scan \in Scans
  BY LineTypes DEF ScanInv, ScanTypes, FetchReadMailbox, Bus
<1>1. list[h] \in Slavelist /\ line[h] \in Eeproms /\ reg[h] \in Nat /\ reg \in [Bus -> Nat]
      /\ list \in [Bus -> Slavelist]
  BY <1>0, LineTypes DEF ScanTypes
<1>t. to \in Scans /\ to.bad = scan.bad /\ to.nacked = scan.nacked /\ to.pc = "proto" /\ to.at = h
      /\ to.count = scan.count
  BY <1>0 DEF Scans, Loops
<1>2. \/ ~(list[h].rx > 0) /\ UNCHANGED <<list, reg>> /\ ScanFine(to)
      \/ /\ list[h].rx > 0 /\ Ask("proto", to)
         /\ list' = [list EXCEPT ![h].tx = IF reg[h] = 0 THEN list[h].rx ELSE reg[h]]
      \/ /\ list[h].rx > 0 /\ ScanFault("data", to) /\ reg' = [reg EXCEPT ![h] = line[h].proto]
         /\ list' = [list EXCEPT ![h].tx = list[h].rx]
  BY DEF FetchReadMailbox, HasMailbox, Here
<1> HIDE DEF to
<1>3. PICK v \in {list[h].tx, list[h].rx, reg[h]} :
        /\ list' = [list EXCEPT ![h] = [list[h] EXCEPT !.tx = v]]
        /\ v = reg[h] => list[h].rx > 0 \/ v = list[h].tx
  <2>1. CASE list' = list
    BY <1>0, <1>1, <2>1 DEF Slavelist
  <2> QED BY <1>2, <2>1
<1>4. v \in Nat /\ [list[h] EXCEPT !.tx = v] \in Slavelist /\ list'[h] = [list[h] EXCEPT !.tx = v]
      /\ list'[h].tx = v
  <2>1. v \in Nat /\ list'[h] = [list[h] EXCEPT !.tx = v]
    BY <1>0, <1>1, <1>3 DEF Slavelist
  <2> QED BY <1>1, <2>1 DEF Slavelist
<1>5. /\ scan' \in Scans /\ scan'.count = scan.count /\ scan'.pc = "proto" /\ scan'.at = h
      /\ \/ scan'.bad = scan.bad /\ scan'.nacked = scan.nacked
         \/ scan'.bad = scan.bad \cup {h} /\ scan'.nacked = scan.nacked
         \/ scan'.bad = scan.bad \cup {h} /\ scan'.nacked = scan.nacked \cup {h}
      /\ \E x \in Nat : reg' = [reg EXCEPT ![h] = x]
      /\ h \notin scan'.nacked /\ list[h].rx > 0 => reg'[h] = line[h].proto
  <2>0. reg = [reg EXCEPT ![h] = reg[h]] /\ line[h].proto \in Nat
    BY <1>0, <1>1 DEF Eeproms
  <2>1. CASE ~(list[h].rx > 0) /\ UNCHANGED <<list, reg>> /\ ScanFine(to)
    BY <1>0, <1>1, <1>t, <2>0, <2>1 DEF ScanFine
  <2>2. CASE Ask("proto", to)
    <3>1. CASE reg' = [reg EXCEPT ![h] = line[h].proto] /\ scan' = to
      BY <1>0, <1>1, <1>t, <2>0, <3>1
    <3>2. CASE UNCHANGED reg /\ ScanFault("nack", to)
      BY <1>0, <1>1, <1>t, <2>0, <3>2, FaultIs
    <3> QED BY <2>2, <3>1, <3>2 DEF Ask, Here, ScanFine
  <2>3. CASE ScanFault("data", to) /\ reg' = [reg EXCEPT ![h] = line[h].proto]
    BY <1>0, <1>1, <1>t, <2>0, <2>3, FaultIs
  <2> QED BY <1>2, <2>1, <2>2, <2>3
<1>6. WorksOn(h)
  BY <1>0, <1>3, <1>4, <1>5 DEF WorksOn, Moves
<1>7. ASSUME h \notin scan'.nacked PROVE RegisterOwn(h)' /\ FieldsOwn(h)'
  <2>1. FieldsOwn(h) /\ RegisterOwn(h) /\ line' = line /\ list'[h].rx = list[h].rx
    BY <1>0, <1>1, <1>4, <1>6, <1>7 DEF ScanInv, WorksOn, Slavelist
  <2>2. RegisterOwn(h)'
    BY <1>0, <1>5, <1>7, <2>1 DEF RegisterOwn
  <2>3. v \in {0, line[h].tx, line[h].rx}
    BY <1>0, <1>3, <2>1 DEF RegisterOwn, FieldsOwn
  <2>4. FieldsOwn(h)'
    BY <1>0, <1>1, <1>4, <2>1, <2>3 DEF FieldsOwn, Slavelist
  <2> QED BY <2>2, <2>4
<1>8. ASSUME h \notin scan'.bad PROVE Whole(h)'
  <2>1. Whole(h) /\ line' = line /\ list'[h].rx = list[h].rx
    BY <1>0, <1>1, <1>4, <1>6, <1>8 DEF ScanInv, WorksOn, Slavelist
  <2> QED BY <1>0, <1>5, <2>1 DEF Whole, Rest, Mapping
<1>9. BroughtUp(h)' /\ list'[h].preop = list[h].preop /\ list'[h].bits = list[h].bits
  <2>1. list'[h].preop = list[h].preop /\ list'[h].bits = list[h].bits
    BY <1>4, <1>1 DEF Slavelist
  <2> QED BY <1>0, <1>5, <2>1 DEF ScanInv, BroughtUp, Rest, Mapping
<1>10. ~list'[h].preop /\ list'[h].bits = 0
  <2>1. BroughtUp(h) /\ ~(h < scan.at) /\ scan.pc \notin Mapping
    BY <1>0 DEF ScanInv, Mapping
  <2> QED BY <1>9, <2>1 DEF BroughtUp
<1>11. list'[h].man = list[h].man /\ list'[h].id = list[h].id /\ list'[h].rev = list[h].rev
  BY <1>1, <1>4 DEF Slavelist
<1> QED BY <1>0, <1>6, <1>7, <1>8, <1>9, <1>10, <1>11, LateKeeps DEF Rest

(* The mailbox protocols of such a slave.                                  *)
LEMMA ProtocolsKeep ==
  ASSUME ScanInv, NEW h, h = scan.at, FetchProtocols
  PROVE  ScanInv'
<1> DEFINE to == [scan EXCEPT !.pc = "sii"]
<1>0. ScanTypes /\ scan.pc = "proto" /\ h \in Bus /\ UNCHANGED <<line, reg>> /\ Bus' = Bus
      /\ h \in Nat /\ 1 <= h /\ h <= Len(line) /\ Len(line) \in Nat /\ scan \in Scans
  BY LineTypes DEF ScanInv, ScanTypes, FetchProtocols, Bus
<1>1. list[h] \in Slavelist /\ line[h] \in Eeproms /\ reg[h] \in Nat /\ reg' = [reg EXCEPT ![h] = reg[h]]
      /\ list \in [Bus -> Slavelist]
  BY <1>0, LineTypes DEF ScanTypes
<1>t. to \in Scans /\ to.bad = scan.bad /\ to.nacked = scan.nacked /\ to.pc = "sii" /\ to.at = h
      /\ to.count = scan.count
  BY <1>0 DEF Scans, Loops
<1>2. \/ ~(list[h].rx > 0) /\ UNCHANGED list /\ ScanFine(to)
      \/ list[h].rx > 0 /\ ScanFine(to) /\ list' = [list EXCEPT ![h].proto = reg[h]]
      \/ list[h].rx > 0 /\ ScanFault("data", to) /\ list' = [list EXCEPT ![h].proto = 0]
  BY DEF FetchProtocols, HasMailbox, Fetch, Here
<1> HIDE DEF to
<1>3. PICK v \in {list[h].proto, 0, reg[h]} :
        /\ list' = [list EXCEPT ![h] = [list[h] EXCEPT !.proto = v]]
        /\ v = reg[h] => list[h].rx > 0 \/ v = list[h].proto \/ v = 0
  <2>1. CASE list' = list
    BY <1>0, <1>1, <2>1 DEF Slavelist
  <2> QED BY <1>2, <2>1
<1>4. v \in Nat /\ [list[h] EXCEPT !.proto = v] \in Slavelist /\ list'[h] = [list[h] EXCEPT !.proto = v]
      /\ list'[h].proto = v
  <2>1. v \in Nat
    BY <1>1, <1>3 DEF Slavelist
  <2>2. list'[h] = [list[h] EXCEPT !.proto = v]
    BY <1>0, <1>1, <1>3
  <2> QED BY <1>1, <2>1, <2>2 DEF Slavelist
<1>5. /\ scan' \in Scans /\ scan'.count = scan.count /\ scan'.pc = "sii" /\ scan'.at = h
      /\ scan'.nacked = scan.nacked
      /\ \/ scan'.bad = scan.bad
         \/ scan'.bad = scan.bad \cup {h}
      /\ h \in scan'.bad \/ ~(list[h].rx > 0) \/ list'[h].proto = reg[h]
  <2>1. CASE ~(list[h].rx > 0) /\ UNCHANGED list /\ ScanFine(to)
    BY <1>0, <1>1, <1>t, <2>1 DEF ScanFine
  <2>2. CASE list[h].rx > 0 /\ ScanFine(to) /\ list' = [list EXCEPT ![h].proto = reg[h]]
    BY <1>0, <1>1, <1>t, <2>2 DEF ScanFine, Slavelist
  <2>3. CASE ScanFault("data", to)
    BY <1>0, <1>1, <1>t, <2>3, FaultIs
  <2> QED BY <1>2, <2>1, <2>2, <2>3
<1>6. WorksOn(h)
  BY <1>0, <1>1, <1>3, <1>4, <1>5 DEF WorksOn, Moves
<1>7. ASSUME h \notin scan'.nacked PROVE RegisterOwn(h)' /\ FieldsOwn(h)'
  <2>1. FieldsOwn(h) /\ RegisterOwn(h) /\ line' = line /\ list'[h].rx = list[h].rx
    BY <1>0, <1>1, <1>4, <1>5, <1>7 DEF ScanInv, Slavelist
  <2>2. RegisterOwn(h)'
    BY <1>0, <1>5, <1>7, <2>1 DEF RegisterOwn
  <2>3. v \in {0, line[h].proto}
    BY <1>0, <1>3, <2>1 DEF RegisterOwn, FieldsOwn
  <2>4. FieldsOwn(h)'
    BY <1>0, <1>1, <1>4, <2>1, <2>3 DEF FieldsOwn, Slavelist
  <2> QED BY <2>2, <2>4
<1>8. ASSUME h \notin scan'.bad PROVE Whole(h)'
  <2>1. h \notin scan.bad /\ h \notin scan.nacked
    BY <1>0, <1>5, <1>8 DEF ScanTypes
  <2>2. Whole(h) /\ RegisterOwn(h) /\ line' = line /\ list'[h].rx = list[h].rx
    BY <1>0, <1>1, <1>4, <2>1 DEF ScanInv, Slavelist
  <2>3. list[h].rx = line[h].rx
    BY <1>0, <2>2 DEF Whole, Rest
  <2>4. line[h].rx > 0 => list'[h].proto = line[h].proto
    BY <1>0, <1>5, <1>8, <2>2, <2>3 DEF RegisterOwn
  <2> QED BY <1>0, <1>5, <2>2, <2>3, <2>4 DEF Whole, Rest, Mapping
<1>9. BroughtUp(h)' /\ list'[h].preop = list[h].preop /\ list'[h].bits = list[h].bits
  <2>1. list'[h].preop = list[h].preop /\ list'[h].bits = list[h].bits
    BY <1>4, <1>1 DEF Slavelist
  <2> QED BY <1>0, <1>5, <2>1 DEF ScanInv, BroughtUp, Rest, Mapping
<1>10. ~list'[h].preop /\ list'[h].bits = 0
  <2>1. BroughtUp(h) /\ ~(h < scan.at) /\ scan.pc \notin Mapping
    BY <1>0 DEF ScanInv, Mapping
  <2> QED BY <1>9, <2>1 DEF BroughtUp
<1>11. list'[h].man = list[h].man /\ list'[h].id = list[h].id /\ list'[h].rev = list[h].rev
  BY <1>1, <1>4 DEF Slavelist
<1> QED BY <1>0, <1>6, <1>7, <1>8, <1>9, <1>10, <1>11, LateKeeps DEF Rest

(* A slave that is programmed.                                             *)
Programmed(x, v) == [x EXCEPT !.sm = v, !.programmed = (x.rx > 0), !.preop = TRUE]
(* Sync managers, mailbox and state are set, the other fields stay.        *)
LEMMA ProgrammedIs ==
  ASSUME NEW x \in Slavelist, NEW v \in Nat
  PROVE  LET s == Programmed(x, v) IN
         /\ s \in Slavelist /\ s.sm = v /\ s.preop
         /\ s.man = x.man /\ s.id = x.id /\ s.rev = x.rev /\ s.ser = x.ser
         /\ s.rx = x.rx /\ s.tx = x.tx /\ s.proto = x.proto /\ s.bits = x.bits
<1> DEFINE s == Programmed(x, v)
<1>1. s \in Slavelist
  <2>1. CASE x.rx > 0
    <3>1. s = [x EXCEPT !.sm = v, !.programmed = TRUE, !.preop = TRUE]
      BY <2>1 DEF Programmed
    <3> QED BY <3>1 DEF Slavelist
  <2>2. CASE ~(x.rx > 0)
    <3>1. s = [x EXCEPT !.sm = v, !.programmed = FALSE, !.preop = TRUE]
      <4>1. (x.rx > 0) = FALSE
        BY <2>2
      <4> QED BY <4>1 DEF Programmed
    <3> QED BY <3>1 DEF Slavelist
  <2> QED BY <2>1, <2>2
<1>2. s.sm = v
  BY DEF Programmed, Slavelist
<1>3. s.preop
  BY DEF Programmed, Slavelist
<1>4. s.man = x.man /\ s.id = x.id /\ s.rev = x.rev /\ s.ser = x.ser
  BY DEF Programmed, Slavelist
<1>5. s.rx = x.rx /\ s.tx = x.tx /\ s.proto = x.proto /\ s.bits = x.bits
  BY DEF Programmed, Slavelist
<1> QED BY <1>1, <1>2, <1>3, <1>4, <1>5

(* ecx_lookup_prev_sii: sync managers from an equal slave or from the SII. *)
LEMMA SiiKeeps ==
  ASSUME ScanInv, NEW h, h = scan.at, ReadSii
  PROVE  ScanInv'
<1> DEFINE to == IF h < scan.count THEN [scan EXCEPT !.at = h + 1, !.pc = "tx"]
                 ELSE [scan EXCEPT !.at = 1, !.pc = "coe"]
<1>0. ScanTypes /\ scan.pc = "sii" /\ h \in Bus /\ UNCHANGED <<line, reg>> /\ Bus' = Bus
      /\ h \in Nat /\ 1 <= h /\ h <= Len(line) /\ Len(line) \in Nat /\ scan \in Scans
      /\ scan.count = Len(line)
  BY LineTypes DEF ScanInv, ScanTypes, ReadSii, Bus
<1>1. list[h] \in Slavelist /\ line[h] \in Eeproms /\ reg[h] \in Nat /\ reg' = [reg EXCEPT ![h] = reg[h]]
      /\ list \in [Bus -> Slavelist]
  BY <1>0, LineTypes DEF ScanTypes
<1>t. to \in Scans /\ to.bad = scan.bad /\ to.nacked = scan.nacked /\ to.count = scan.count
      /\ \/ h < Len(line) /\ to.pc = "tx" /\ to.at = h + 1
         \/ h = Len(line) /\ to.pc = "coe" /\ to.at = 1
  <2>1. CASE h < scan.count
    <3>1. to = [pc |-> "tx", at |-> h + 1, count |-> scan.count, faults |-> scan.faults,
                bad |-> scan.bad, nacked |-> scan.nacked]
      BY <1>0, <2>1 DEF Scans
    <3> QED BY <1>0, <2>1, <3>1 DEF Scans, Loops
  <2>2. CASE ~(h < scan.count)
    <3>1. to = [pc |-> "coe", at |-> 1, count |-> scan.count, faults |-> scan.faults,
                bad |-> scan.bad, nacked |-> scan.nacked]
      BY <1>0, <2>2 DEF Scans
    <3> QED BY <1>0, <2>2, <3>1 DEF Scans, Loops
  <2> QED BY <2>1, <2>2
<1> DEFINE with(sm) == list' = [list EXCEPT ![h].sm = sm, ![h].programmed = (list[h].rx > 0), ![h].preop = TRUE]
<1>2. IF Equals(h) # {} THEN with(list[FirstOf(Equals(h))].sm) /\ ScanFine(to)
      ELSE \/ with(line[h].sm) /\ ScanFine(to)
           \/ with(Failed) /\ ScanFault("sii", to)
  BY DEF ReadSii, HasMailbox, Here
<1> HIDE DEF to
<1>3. ASSUME NEW v \in Nat, with(v)
      PROVE  /\ \E s \in Slavelist : list' = [list EXCEPT ![h] = s]
             /\ list'[h].man = list[h].man /\ list'[h].id = list[h].id /\ list'[h].rev = list[h].rev
             /\ list'[h].ser = list[h].ser /\ list'[h].rx = list[h].rx /\ list'[h].tx = list[h].tx
             /\ list'[h].proto = list[h].proto /\ list'[h].bits = list[h].bits
             /\ list'[h].sm = v /\ list'[h].preop
  <2> DEFINE s == Programmed(list[h], v)
  <2>1. list' = [list EXCEPT ![h] = s]
    BY <1>0, <1>1, <1>3 DEF Programmed
  <2> HIDE DEF s
  <2>3. /\ s \in Slavelist /\ s.sm = v /\ s.preop
        /\ s.man = list[h].man /\ s.id = list[h].id /\ s.rev = list[h].rev /\ s.ser = list[h].ser
        /\ s.rx = list[h].rx /\ s.tx = list[h].tx /\ s.proto = list[h].proto /\ s.bits = list[h].bits
    BY <1>1, <1>3, ProgrammedIs DEF s
  <2>4. list'[h] = s
    BY <1>0, <1>1, <2>1
  <2> QED BY <2>1, <2>3, <2>4
<1>4. PICK v \in Nat : /\ with(v)
                      /\ \/ Equals(h) # {} /\ v = list[FirstOf(Equals(h))].sm
                         \/ Equals(h) = {} /\ v \in {line[h].sm, Failed}
  <2>1. CASE Equals(h) # {}
    <3>1. FirstOf(Equals(h)) \in Bus
      BY <1>0, <2>1, FirstIsEqual DEF Equals, Bus
    <3>2. list[FirstOf(Equals(h))].sm \in Nat
      BY <1>1, <3>1 DEF Slavelist
    <3> QED BY <1>2, <2>1, <3>2
  <2>2. CASE Equals(h) = {}
    <3>1. line[h].sm \in Nat /\ Failed \in Nat
      BY <1>1 DEF Eeproms, Failed
    <3> QED BY <1>2, <2>2, <3>1
  <2> QED BY <2>1, <2>2
<1> HIDE DEF with
<1>5. /\ scan' \in Scans /\ scan'.count = scan.count /\ scan'.nacked = scan.nacked
      /\ scan'.bad = scan.bad \/ scan'.bad = scan.bad \cup {h}
      /\ \/ h < Len(line) /\ scan'.pc = "tx" /\ scan'.at = h + 1
         \/ h = Len(line) /\ scan'.pc = "coe" /\ scan'.at = 1
  <2>1. CASE ScanFine(to)
    BY <1>0, <1>t, <2>1 DEF ScanFine
  <2>2. CASE ScanFault("sii", to)
    BY <1>0, <1>t, <2>2, FaultIs
  <2> QED BY <1>2, <2>1, <2>2
<1>6. WorksOn(h)
  BY <1>0, <1>1, <1>3, <1>4, <1>5 DEF WorksOn, Moves
<1>r. /\ list'[h].man = list[h].man /\ list'[h].id = list[h].id /\ list'[h].rev = list[h].rev
      /\ list'[h].ser = list[h].ser /\ list'[h].rx = list[h].rx /\ list'[h].tx = list[h].tx
      /\ list'[h].proto = list[h].proto /\ list'[h].bits = list[h].bits
      /\ list'[h].sm = v /\ list'[h].preop
  BY <1>1, <1>3, <1>4 DEF Slavelist
<1>7. ASSUME h \notin scan'.nacked PROVE RegisterOwn(h)' /\ FieldsOwn(h)'
  <2>1. FieldsOwn(h) /\ line' = line
    BY <1>0, <1>5, <1>7 DEF ScanInv
  <2>2. RegisterOwn(h)'
    BY <1>0, <1>5 DEF RegisterOwn
  <2> QED BY <1>r, <2>1, <2>2 DEF FieldsOwn
<1>8. ASSUME h \notin scan'.bad PROVE Whole(h)'
  <2>1. Whole(h) /\ line' = line
    BY <1>0, <1>5, <1>8 DEF ScanInv
  <2> QED BY <1>0, <1>5, <1>r, <2>1 DEF Whole, Rest, Mapping
<1>9. BroughtUp(h)'
  <2>1. BroughtUp(h)
    BY <1>0 DEF ScanInv
  <2>2. (scan'.pc \in Rest /\ h < scan'.at) \/ scan'.pc \in Mapping
    BY <1>0, <1>5 DEF Rest, Mapping
  <2>3. list'[h].bits = 0
    BY <1>0, <1>r, <2>1 DEF BroughtUp, Mapping
  <2> QED BY <1>r, <2>2, <2>3 DEF BroughtUp
<1>10. ASSUME scan'.nacked = {}, Told(h)
       PROVE  list'[h].sm \in {line[h].sm, Failed} /\ list'[h].bits \in {0, OwnCoe(h), OwnSoe(h), line[h].pdo}
  <2>1. list'[h].bits = 0
    BY <1>0, <1>r DEF ScanInv, BroughtUp, Mapping
  <2>2. CASE Equals(h) # {}
    <3>1. PICK j \in Equals(h) : j = FirstOf(Equals(h))
      BY <1>0, <2>2, FirstIsEqual
    <3>2. \A i \in Bus : FieldsOwn(i) /\ MappedOwn(i) /\ BroughtUp(i)
      BY <1>5, <1>10 DEF ScanInv
    <3>3. j \in Bus /\ j < h
      BY <1>0 DEF Equals, Bus
    <3>4. Told(j) /\ line[j].sm = line[h].sm
      BY <1>0, <1>10, <3>2, <3>3, EqualIsEqual DEF ScanTypes
    <3>5. list[j].preop
      <4>1. scan.pc \in Rest /\ j < scan.at
        BY <1>0, <3>3 DEF Rest
      <4> QED BY <3>2, <3>3, <4>1 DEF BroughtUp
    <3>6. list[j].sm \in {line[j].sm, Failed}
      BY <3>2, <3>3, <3>4, <3>5 DEF MappedOwn
    <3> QED BY <1>4, <1>r, <2>1, <2>2, <3>1, <3>4, <3>6
  <2>3. CASE Equals(h) = {}
    BY <1>4, <1>r, <2>1, <2>3
  <2> QED BY <2>2, <2>3
<1> QED BY <1>0, <1>6, <1>7, <1>8, <1>9, <1>10, <1>r, LateKeeps DEF Rest

(* The bits of a slave are set.                                            *)
LEMMA BitsAre ==
  ASSUME NEW x \in Slavelist, NEW v \in Nat
  PROVE  LET s == [x EXCEPT !.bits = v] IN
         /\ s \in Slavelist /\ s.bits = v /\ s.sm = x.sm /\ s.preop = x.preop
         /\ s.man = x.man /\ s.id = x.id /\ s.rev = x.rev /\ s.ser = x.ser
         /\ s.rx = x.rx /\ s.tx = x.tx /\ s.proto = x.proto
BY DEF Slavelist

(* A slave is mapped: what is left to show are its bits.                   *)
LEMMA MappedKeeps ==
  ASSUME ScanInv, NEW h, h = scan.at, scan.pc \in {"coe", "map"}, UNCHANGED <<line, reg>>,
         NEW next, (scan.pc = "coe" /\ next = "map") \/ (scan.pc = "map" /\ next = "done"), 
         NEW v \in Nat, list' = [list EXCEPT ![h].bits = v],
         \/ ScanFine(NextAt(next))
         \/ \E kind \in {"coe", "soe", "sii"} : ScanFault(kind, NextAt(next)),
         h \notin scan'.bad /\ line[h].rx > 0 /\ OwnBits(h) # 0 => v = OwnBits(h),
         scan.nacked = {} /\ Told(h) => v \in {0, OwnCoe(h), OwnSoe(h), line[h].pdo}
  PROVE  ScanInv'
<1>0. ScanTypes /\ h \in Bus /\ Bus' = Bus /\ line' = line /\ next \in Loops
      /\ h \in Nat /\ 1 <= h /\ h <= Len(line) /\ Len(line) \in Nat /\ scan \in Scans
      /\ scan.pc \notin {"detect", "none"}
  BY LineTypes DEF ScanInv, ScanTypes, Bus, Loops
<1>1. list[h] \in Slavelist /\ reg[h] \in Nat /\ reg' = [reg EXCEPT ![h] = reg[h]]
      /\ list \in [Bus -> Slavelist]
  BY <1>0 DEF ScanTypes
<1>2. /\ list'[h] \in Slavelist /\ list' = [list EXCEPT ![h] = list'[h]]
      /\ list'[h].bits = v /\ list'[h].sm = list[h].sm /\ list'[h].preop = list[h].preop
      /\ list'[h].man = list[h].man /\ list'[h].id = list[h].id /\ list'[h].rev = list[h].rev
      /\ list'[h].ser = list[h].ser /\ list'[h].rx = list[h].rx /\ list'[h].tx = list[h].tx
      /\ list'[h].proto = list[h].proto
  <2> DEFINE s == [list[h] EXCEPT !.bits = v]
  <2>1. list' = [list EXCEPT ![h] = s] /\ list'[h] = s
    BY <1>0, <1>1
  <2>2. /\ s \in Slavelist /\ s.bits = v /\ s.sm = list[h].sm /\ s.preop = list[h].preop
        /\ s.man = list[h].man /\ s.id = list[h].id /\ s.rev = list[h].rev /\ s.ser = list[h].ser
        /\ s.rx = list[h].rx /\ s.tx = list[h].tx /\ s.proto = list[h].proto
    BY <1>1, BitsAre
  <2> HIDE DEF s
  <2> QED BY <2>1, <2>2
<1>3. /\ scan' \in Scans /\ scan'.count = scan.count /\ Turns(scan.pc, next)
      /\ scan'.nacked = scan.nacked
      /\ scan'.bad = scan.bad \/ scan'.bad = scan.bad \cup {h}
  <2>1. CASE ScanFine(NextAt(next))
    BY <1>0, <2>1, TurnIs
  <2>2. CASE \E kind \in {"coe", "soe", "sii"} : ScanFault(kind, NextAt(next))
    BY <1>0, <2>2, TurnIs
  <2> QED BY <2>1, <2>2
<1>4. scan'.pc \in Mapping /\ scan.pc \in Mapping
  BY <1>3 DEF Turns, Mapping
<1>5. WorksOn(h)
  BY <1>0, <1>1, <1>2, <1>3 DEF WorksOn, Moves
<1>6. ASSUME h \notin scan'.nacked PROVE RegisterOwn(h)' /\ FieldsOwn(h)'
  <2>1. FieldsOwn(h)
    BY <1>0, <1>3, <1>6 DEF ScanInv
  <2>2. RegisterOwn(h)'
    BY <1>4 DEF RegisterOwn, Mapping
  <2> QED BY <1>0, <1>2, <2>1, <2>2 DEF FieldsOwn
<1>7. ASSUME h \notin scan'.bad PROVE Whole(h)'
  <2>1. Whole(h)
    BY <1>0, <1>3, <1>7 DEF ScanInv
  <2>2. list[h].rx = line[h].rx /\ (line[h].rx > 0 => list[h].proto = line[h].proto)
    BY <1>4, <2>1 DEF Whole
  <2>3. OwnBits(h)' = OwnBits(h)
    BY <1>0 DEF OwnBits, OwnCoe, OwnSoe
  <2> QED BY <1>0, <1>2, <1>7, <2>2, <2>3 DEF Whole
<1>8. BroughtUp(h)'
  <2>1. list[h].preop = TRUE
    BY <1>0, <1>4 DEF ScanInv, BroughtUp
  <2> QED BY <1>2, <1>4, <2>1 DEF BroughtUp
<1>9. ASSUME scan'.nacked = {}, Told(h)
      PROVE  /\ list'[h].preop => list'[h].sm \in {line[h].sm, Failed}
             /\ list'[h].bits \in {0, OwnCoe(h), OwnSoe(h), line[h].pdo}
  <2>1. MappedOwn(h)
    BY <1>0, <1>3, <1>9 DEF ScanInv
  <2> QED BY <1>2, <1>3, <1>9, <2>1 DEF MappedOwn
<1> QED BY <1>2, <1>4, <1>5, <1>6, <1>7, <1>8, <1>9, LateKeeps

(* ecx_map_coe_soe.                                                        *)
LEMMA MapCoeSoeKeeps ==
  ASSUME ScanInv, NEW h, h = scan.at, NEW coeOk \in BOOLEAN, NEW soeOk \in BOOLEAN, MapCoeSoe(coeOk, soeOk)
  PROVE  ScanInv'
<1> DEFINE proto == list[h].proto
           coe == IF proto % 2 = 1 /\ coeOk THEN line[h].coe ELSE 0
           bits == IF coe = 0 /\ proto \div 2 = 1 /\ soeOk THEN line[h].soe ELSE coe
<1>0. scan.pc = "coe" /\ UNCHANGED <<line, reg>> /\ list' = [list EXCEPT ![h].bits = bits]
      /\ \/ coeOk /\ soeOk /\ ScanFine(NextAt("map"))
         \/ ~coeOk /\ soeOk /\ ScanFault("coe", NextAt("map"))
         \/ coeOk /\ ~soeOk /\ ScanFault("soe", NextAt("map"))
  BY DEF MapCoeSoe, Here
<1>1. ScanTypes /\ h \in Bus /\ list[h] \in Slavelist /\ line[h] \in Eeproms /\ "map" \in Loops
  BY <1>0, LineTypes DEF ScanInv, ScanTypes, Loops
<1>2. line[h].coe \in Nat /\ line[h].soe \in Nat /\ proto \in Nat /\ line[h].proto \in Nat
  BY <1>1 DEF Eeproms, Slavelist
<1>3. bits \in Nat
  BY <1>2
<1>4. ASSUME h \notin scan'.bad, line[h].rx > 0, OwnBits(h) # 0 PROVE bits = OwnBits(h)
  <2>1. coeOk /\ soeOk /\ h \notin scan.bad
    <3>1. CASE coeOk /\ soeOk /\ ScanFine(NextAt("map"))
      BY <1>0, <1>1, <1>4, <3>1, TurnIs
    <3>2. CASE ~coeOk /\ soeOk /\ ScanFault("coe", NextAt("map"))
      BY <1>0, <1>1, <1>4, <3>2, TurnIs
    <3>3. CASE coeOk /\ ~soeOk /\ ScanFault("soe", NextAt("map"))
      BY <1>0, <1>1, <1>4, <3>3, TurnIs
    <3> QED BY <1>0, <3>1, <3>2, <3>3
  <2>2. Whole(h)
    BY <1>1, <2>1 DEF ScanInv
  <2>3. proto = line[h].proto
    BY <1>0, <1>4, <2>2 DEF Whole, Mapping
  <2> HIDE DEF proto
  <2> QED BY <1>2, <2>1, <2>3 DEF OwnBits, OwnCoe, OwnSoe
<1>5. ASSUME scan.nacked = {} PROVE bits \in {0, OwnCoe(h), OwnSoe(h)}
  <2>1. proto \in {0, line[h].proto}
    BY <1>1, <1>5 DEF ScanInv, FieldsOwn
  <2>2. 0 % 2 = 0 /\ 0 \div 2 = 0
    OBVIOUS
  <2> HIDE DEF proto
  <2> QED BY <1>2, <2>1, <2>2 DEF OwnCoe, OwnSoe
<1> HIDE DEF bits
<1>6. \/ ScanFine(NextAt("map"))
      \/ \E kind \in {"coe", "soe", "sii"} : ScanFault(kind, NextAt("map"))
  BY <1>0
<1> QED BY <1>0, <1>3, <1>4, <1>5, <1>6, MappedKeeps

(* ecx_map_sii.                                                            *)
LEMMA MapSiiKeeps ==
  ASSUME ScanInv, NEW h, h = scan.at, MapSii
  PROVE  ScanInv'
<1>1. ScanTypes /\ scan.pc = "map" /\ UNCHANGED <<line, reg>> /\ h \in Bus /\ list[h] \in Slavelist
      /\ line[h] \in Eeproms /\ "done" \in Loops /\ list \in [Bus -> Slavelist] /\ Len(line) \in Nat
  BY LineTypes DEF ScanInv, ScanTypes, Loops, MapSii
<1>2. list[h].bits \in Nat /\ line[h].pdo \in Nat
  BY <1>1 DEF Slavelist, Eeproms
<1>3. CopiedBits \in Nat /\ (scan.nacked = {} /\ Told(h) => CopiedBits \in {0, OwnCoe(h), OwnSoe(h), line[h].pdo})
  <2>1. CASE Equals(h) = {}
    BY <2>1 DEF CopiedBits, Here
  <2>2. CASE Equals(h) # {}
    <3>1. PICK j \in Equals(h) : j = FirstOf(Equals(h))
      BY <1>1, <2>2, FirstIsEqual
    <3>2. j \in Bus /\ CopiedBits = list[j].bits
      BY <1>1, <2>2, <3>1 DEF Equals, Bus, CopiedBits, Here
    <3>3. CopiedBits \in Nat
      BY <1>1, <3>2 DEF Slavelist
    <3>4. ASSUME scan.nacked = {}, Told(h)
          PROVE  CopiedBits \in {0, OwnCoe(h), OwnSoe(h), line[h].pdo}
      <4>1. FieldsOwn(h) /\ FieldsOwn(j) /\ MappedOwn(j)
        BY <1>1, <3>2, <3>4 DEF ScanInv
      <4>2. Told(j) /\ line[j].pdo = line[h].pdo /\ OwnCoe(j) = OwnCoe(h) /\ OwnSoe(j) = OwnSoe(h)
        BY <1>1, <3>4, <4>1, EqualIsEqual DEF ScanTypes
      <4> QED BY <3>2, <4>1, <4>2 DEF MappedOwn
    <3> QED BY <3>3, <3>4
  <2> QED BY <2>1, <2>2
<1>4. ASSUME h \notin scan'.bad, line[h].rx > 0, OwnBits(h) # 0, scan.bad \subseteq scan'.bad
      PROVE  list[h].bits = OwnBits(h)
  BY <1>1, <1>4 DEF ScanInv, Whole
<1>f. ASSUME ScanFine(NextAt("done")) \/ ScanFault("sii", NextAt("done")) PROVE scan.bad \subseteq scan'.bad
  <2>1. CASE ScanFine(NextAt("done"))
    BY <1>1, <2>1, TurnIs
  <2>2. CASE ScanFault("sii", NextAt("done"))
    BY <1>1, <2>2, TurnIs
  <2> QED BY <1>f, <2>1, <2>2
<1>5. PICK v \in Nat :
        /\ list' = [list EXCEPT ![h].bits = v]
        /\ ScanFine(NextAt("done")) \/ ScanFault("sii", NextAt("done"))
        /\ list[h].bits # 0 => v = list[h].bits
        /\ list[h].bits = 0 => v \in {0, CopiedBits, line[h].pdo}
  <2>1. CASE list[h].bits # 0 /\ MapWith(list[h].bits)
    BY <1>2, <2>1 DEF MapWith, Here
  <2>2. CASE list[h].bits = 0 /\ MapWith(SiiBits(CopiedBits))
    <3>1. SiiBits(CopiedBits) \in {CopiedBits, line[h].pdo}
      BY DEF SiiBits, Here
    <3> QED BY <1>2, <1>3, <2>2, <3>1 DEF MapWith, Here
  <2>3. CASE list[h].bits = 0 /\ UNCHANGED list /\ ScanFault("sii", NextAt("done"))
    <3>1. list' = [list EXCEPT ![h].bits = 0]
      BY <1>1, <2>3 DEF Slavelist
    <3>2. 0 \in Nat /\ 0 \in {0, CopiedBits, line[h].pdo} /\ ~(list[h].bits # 0)
      BY <2>3
    <3> QED BY <2>3, <3>1, <3>2, Zenon
  <2> QED BY <2>1, <2>2, <2>3 DEF MapSii, Here
<1>6. ASSUME h \notin scan'.bad, line[h].rx > 0, OwnBits(h) # 0 PROVE v = OwnBits(h)
  BY <1>4, <1>5, <1>6, <1>f
<1>7. ASSUME scan.nacked = {}, Told(h) PROVE v \in {0, OwnCoe(h), OwnSoe(h), line[h].pdo}
  <2>1. list[h].bits \in {0, OwnCoe(h), OwnSoe(h), line[h].pdo}
    BY <1>1, <1>7 DEF ScanInv, MappedOwn
  <2> QED BY <1>3, <1>5, <1>7, <2>1
<1>8. \/ ScanFine(NextAt("done"))
      \/ \E kind \in {"coe", "soe", "sii"} : ScanFault(kind, NextAt("done"))
  BY <1>5
<1> QED BY <1>1, <1>5, <1>6, <1>7, <1>8, MappedKeeps

(* Every step of the scan keeps what is true of it.                        *)
LEMMA ScanInductive == ScanInv /\ [ScanNext]_scanvars => ScanInv'
<1> SUFFICES ASSUME ScanInv, [ScanNext]_scanvars PROVE ScanInv'
  OBVIOUS
<1>1. CASE DetectSlaves
  BY <1>1, DetectKeeps
<1>2. CASE Enumerate
  BY <1>2, EnumerateKeeps
<1>3. CASE FetchAndAsk("man", "id")
  BY <1>3, FetchKeeps DEF WordAfter
<1>4. CASE FetchAndAsk("id", "rev")
  BY <1>4, FetchKeeps DEF WordAfter
<1>5. CASE FetchAndAsk("rev", "ser")
  BY <1>5, FetchKeeps DEF WordAfter
<1>6. CASE FetchAndAsk("ser", "rx")
  BY <1>6, FetchKeeps DEF WordAfter
<1>7. CASE FetchMailbox
  BY <1>7, MailboxKeeps
<1>8. CASE FetchReadMailbox
  BY <1>8, ReadMailboxKeeps
<1>9. CASE FetchProtocols
  BY <1>9, ProtocolsKeep
<1>10. CASE ReadSii
  BY <1>10, SiiKeeps
<1>11. ASSUME NEW coeOk \in BOOLEAN, NEW soeOk \in BOOLEAN, MapCoeSoe(coeOk, soeOk) PROVE ScanInv'
  BY <1>11, MapCoeSoeKeeps
<1>12. CASE MapSii
  BY <1>12, MapSiiKeeps
<1>13. CASE UNCHANGED scanvars
  <2>1. UNCHANGED <<line, reg, list, scan>>
    BY <1>13 DEF scanvars
  <2>2. ScanTypes'
    BY <2>1 DEF ScanInv, ScanTypes, Bus
  <2>3. Bus' = Bus
    BY <2>1 DEF Bus
  <2>4. ASSUME NEW i \in Bus
        PROVE  RegisterOwn(i)' = RegisterOwn(i) /\ FieldsOwn(i)' = FieldsOwn(i) /\ Whole(i)' = Whole(i)
    BY <2>1 DEF RegisterOwn, FieldsOwn, Whole, OwnBits, OwnCoe, OwnSoe
  <2>5. ASSUME NEW i \in Bus
        PROVE  BroughtUp(i)' = BroughtUp(i) /\ MappedOwn(i)' = MappedOwn(i)
    BY <2>1 DEF BroughtUp, MappedOwn, Told, Equals, SameSlave, OwnCoe, OwnSoe
  <2> QED BY <2>1, <2>2, <2>3, <2>4, <2>5 DEF ScanInv
<1> QED BY <1>1, <1>2, <1>3, <1>4, <1>5, <1>6, <1>7, <1>8, <1>9, <1>10, <1>11, <1>12, <1>13 DEF ScanNext

(* What is known of the slaves in the end.                                 *)
LEMMA ScanInvIsTrue == ScanInv => ScanIsTrue
<1> SUFFICES ASSUME ScanInv PROVE ScanIsTrue
  OBVIOUS
<1>1. FieldsAreOwn
  BY DEF ScanInv, FieldsOwn, FieldsAreOwn, Bus
<1>2. SyncManagersAreOwn
  BY DEF ScanInv, MappedOwn, SyncManagersAreOwn, Bus
<1>3. MappingIsOwn
  <2> SUFFICES ASSUME scan.pc = "done", scan.nacked = {}, NEW i \in Bus
               PROVE  /\ Told(i) => list[i].bits \in {0, OwnCoe(i), OwnSoe(i), line[i].pdo}
                      /\ i \notin scan.bad /\ line[i].rx > 0 /\ (OwnCoe(i) # 0 \/ OwnSoe(i) # 0) =>
                           list[i].bits = IF OwnCoe(i) # 0 THEN OwnCoe(i) ELSE OwnSoe(i)
    BY DEF MappingIsOwn, Bus
  <2>1. MappedOwn(i) /\ (i \notin scan.bad => Whole(i))
    BY DEF ScanInv
  <2> QED BY <2>1 DEF MappedOwn, Whole, OwnBits
<1> QED BY <1>1, <1>2, <1>3 DEF ScanIsTrue

(* ecx_config_init, ecx_config_find_mappings: whatever is on the bus and   *)
(* whichever reads fail, what the master knows of a slave is its own:      *)
(* identity and mailboxes, sync managers also where they were copied from  *)
(* an equal slave, and the mapping from CoE, SoE, an equal slave or SII.   *)
THEOREM ScanStaysTrue == ScanSpec => []ScanIsTrue
<1>1. ScanInit => ScanInv
  BY ScanStart
<1>2. ScanInv /\ [ScanNext]_scanvars => ScanInv'
  BY ScanInductive
<1>3. ScanInv => ScanIsTrue
  BY ScanInvIsTrue
<1> QED BY <1>1, <1>2, <1>3, PTL DEF ScanSpec
-----------------------------------------------------------------------------
(* Whole multiples of n are told by the remainder 0.                       *)
LEMMA MultipleRemainder ==
  ASSUME NEW n \in Nat \ {0}, NEW k \in Int PROVE (k * n) % n = 0
<1> DEFINE q == (k * n) \div n
           r == (k * n) % n
<1>1. k * n \in Int
  OBVIOUS
<1>2. q \in Int /\ r \in 0..(n - 1) /\ k * n = n * q + r
  BY <1>1
<1> HIDE DEF q, r
<1>3. r = (k - q) * n /\ k - q \in Int
  BY <1>2
<1>4. CASE k - q = 0
  BY <1>3, <1>4, <1>2 DEF r
<1>5. CASE k - q >= 1
  <2>1. (k - q) * n >= n
    BY <1>3, <1>5
  <2> QED BY <1>2, <1>3, <2>1
<1>6. CASE k - q <= -1
  <2>1. (k - q) * n <= -n
    BY <1>3, <1>6
  <2> QED BY <1>2, <1>3, <2>1
<1> QED BY <1>3, <1>4, <1>5, <1>6

PulseRecs == [active : BOOLEAN, start : Int, shift : Int, cycle : Nat]

(* The first pulse of a slave is a multiple of its cycle, shifted.         *)
OnGrid(p) == p.cycle > 0 => \E k \in Int : p.start = k * p.cycle + p.shift

(* The inductive invariant.                                                *)
PulseInv ==
  /\ now \in Nat
  /\ sync \in [1..Len(net) -> PulseRecs]
  /\ \A i \in 1..Len(net) : OnGrid(sync[i])

(* ecx_dcsync01 computes a positive cycle.                                 *)
LEMMA TrueCycleType ==
  ASSUME NEW c0 \in Nat \ {0}, NEW c1 \in Nat PROVE TrueCycle(c0, c1) \in Nat \ {0}
<1>1. c1 \div c0 \in Nat
  OBVIOUS
<1> DEFINE q == c1 \div c0
<1> HIDE DEF q
<1>2. (q + 1) * c0 \in Nat /\ (q + 1) * c0 # 0
  BY <1>1 DEF q
<1> QED BY <1>2 DEF q, TrueCycle

(* Whatever time was read, the rounding puts the pulse on the grid.        *)
LEMMA FirstPulseOnGrid ==
  ASSUME NEW act \in BOOLEAN, NEW t1 \in Nat, NEW cycle \in Nat, NEW shift \in Int
  PROVE  Pulses(act, t1, cycle, shift) \in PulseRecs /\ OnGrid(Pulses(act, t1, cycle, shift))
<1>0. t1 + SyncDelay \in Nat
  BY SyncAssumption
<1>1. CASE cycle > 0
  <2> DEFINE q == (t1 + SyncDelay) \div cycle
  <2>1. q \in Int
    BY <1>0, <1>1
  <2>2. FirstPulse(t1, cycle, shift) = q * cycle + cycle + shift
    BY <1>1 DEF FirstPulse
  <2> HIDE DEF q
  <2>3. q + 1 \in Int /\ q * cycle + cycle + shift = (q + 1) * cycle + shift
    BY <2>1
  <2>4. q * cycle + cycle + shift \in Int
    BY <2>1
  <2> QED BY <2>2, <2>3, <2>4 DEF Pulses, OnGrid, PulseRecs
<1>2. CASE cycle = 0
  BY <1>0, <1>2, SyncAssumption DEF Pulses, OnGrid, PulseRecs, FirstPulse
<1> QED BY <1>1, <1>2

LEMMA PulseInitInv == PulseInit => PulseInv
BY DEF PulseInit, StartPulses, PulseInv, PulseRecs, OnGrid, Inactive

LEMMA PulseStepInv == PulseInv /\ [PulseNext]_syncvars => PulseInv'
<1> SUFFICES ASSUME PulseInv, [PulseNext]_syncvars PROVE PulseInv'
  OBVIOUS
<1>1. CASE UNCHANGED syncvars
  BY <1>1 DEF PulseInv, syncvars
<1>2. CASE TimePasses /\ UNCHANGED net
  BY <1>2 DEF PulseInv, TimePasses
<1>3. ASSUME NEW i \in 1..Len(net), NEW act \in BOOLEAN, NEW t1 \in Nat, NEW c \in Nat, NEW s \in Int,
             sync' = [sync EXCEPT ![i] = Pulses(act, t1, c, s)], UNCHANGED <<now, net>>
      PROVE  PulseInv'
  <2>1. Pulses(act, t1, c, s) \in PulseRecs /\ OnGrid(Pulses(act, t1, c, s))
    BY FirstPulseOnGrid
  <2>2. sync' \in [1..Len(net) -> PulseRecs]
    BY <1>3, <2>1 DEF PulseInv
  <2>3. ASSUME NEW j \in 1..Len(net) PROVE OnGrid(sync'[j])
    <3>1. sync'[j] = IF j = i THEN Pulses(act, t1, c, s) ELSE sync[j]
      BY <1>3 DEF PulseInv
    <3> QED BY <2>1, <3>1 DEF PulseInv
  <2> QED BY <1>3, <2>2, <2>3 DEF PulseInv, OnGrid
<1>4. ASSUME NEW i \in 1..Len(net), NEW act \in BOOLEAN, NEW t1 \in {0, now}, NEW c \in Cycles,
             NEW s \in Shifts, UNCHANGED <<now, net>>,
             DcSync0(i, act, t1, c, s) \/ \E c1 \in Cycles : DcSync01(i, act, t1, c, c1, s)
      PROVE  PulseInv'
  <2>1. t1 \in Nat /\ c \in Nat /\ s \in Int
    BY SyncAssumption DEF PulseInv
  <2>2. CASE DcSync0(i, act, t1, c, s)
    BY <1>3, <1>4, <2>1, <2>2 DEF DcSync0
  <2>3. ASSUME NEW c1 \in Cycles, DcSync01(i, act, t1, c, c1, s) PROVE PulseInv'
    <3>1. c \in Nat \ {0} /\ c1 \in Nat
      BY <2>1, <2>3, SyncAssumption DEF DcSync01
    <3>2. TrueCycle(c, c1) \in Nat
      BY <3>1, TrueCycleType
    <3> QED BY <1>3, <1>4, <2>1, <2>3, <3>2 DEF DcSync01
  <2> QED BY <1>4, <2>2, <2>3
<1> QED BY <1>1, <1>2, <1>4 DEF PulseNext

LEMMA PulseInvTogether == PulseInv => PulsesTogether
<1> SUFFICES ASSUME PulseInv, NEW i \in 1..Len(net), NEW j \in 1..Len(net),
                    sync[i].cycle = sync[j].cycle, sync[i].shift = sync[j].shift, sync[i].cycle > 0
             PROVE  (sync[i].start - sync[j].start) % sync[i].cycle = 0
  BY DEF PulsesTogether
<1> DEFINE n == sync[i].cycle
           s == sync[i].shift
<1>1. n \in Nat \ {0} /\ s \in Int
  BY DEF PulseInv, PulseRecs
<1>2. PICK k \in Int : sync[i].start = k * n + s
  BY DEF PulseInv, OnGrid
<1>3. PICK m \in Int : sync[j].start = m * n + s
  BY DEF PulseInv, OnGrid
<1> HIDE DEF n, s
<1>4. sync[i].start - sync[j].start = (k - m) * n /\ k - m \in Int
  BY <1>1, <1>2, <1>3
<1>5. ((k - m) * n) % n = 0
  BY <1>1, <1>4, MultipleRemainder
<1> QED BY <1>4, <1>5 DEF n

(* For any network, cycle times and shifts, in whatever order and at       *)
(* whatever time ecx_dcsync0 and ecx_dcsync01 are called, and also when    *)
(* they do not get the time: slaves with the same cycle pulse together.    *)
THEOREM PulsesStayTogether == PulseSpec => []PulsesTogether
BY PulseInitInv, PulseStepInv, PulseInvTogether, PTL DEF PulseSpec
=============================================================================
