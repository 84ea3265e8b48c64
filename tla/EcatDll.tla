------------------------------- MODULE EcatDll ------------------------------
(***************************************************************************)
(* ethercat_master.c with its Windows backend: ECAT_Open starts a worker   *)
(* thread that brings the bus up, exchanges process data until stop_flag   *)
(* is set, and takes the bus down; ECAT_Close waits for it, five seconds   *)
(* at most; the SDO functions of other threads share the bus with it.      *)
(*                                                                         *)
(* bus_lock is modelled as a lock.  state_lock and db_lock protect         *)
(* sections that wait for nothing (db_lock inside state_lock inside        *)
(* bus_lock, in this order everywhere), so each section is one step.       *)
(* Nothing but the worker's flags tells ECAT_Open that a worker lives.     *)
(***************************************************************************)
EXTENDS ServoApi, FiniteSets

CONSTANTS
  Callers,      \* threads that call SDO functions
  MaxWorkers,   \* bound: worker threads started
  MaxErrors,    \* bound: SDO accesses and bus starts that fail
  MaxTimeouts,  \* bound: ECAT_Close gives up waiting
  PromptStart   \* a created worker runs before the caller opens again

ASSUME DllAssumption == MaxWorkers \in Nat

VARIABLES
  core,   \* G_core: opened, worker_running, stop_flag, worker (its handle)
  bus,    \* bus_lock, the context: socket, slavecount, and what was done to the slaves
  wk,     \* per worker thread: where it is in worker_proc
  stat,   \* G_core.status: connected and operational
  call,   \* per caller: the accesses left, where it is, the position read
  drv,    \* the drive (external)
  faults  \* errors and timeouts so far
dllvars == <<core, bus, wk, stat, call, drv, faults>>

Workers == 1..MaxWorkers
Live == {w \in Workers : wk[w] \notin {"none", "dead"}}
Idle == [prog |-> <<>>, at |-> "check", act |-> 0, ok |-> TRUE]

(* init_once_callback, and a bus whose slaves are in INIT, with a drive    *)
(* that may have a fault.                                                  *)
DllInit ==
  /\ core = [opened |-> FALSE, running |-> FALSE, stop |-> FALSE, worker |-> 0]
  /\ bus = [lock |-> 0, port |-> FALSE, slaves |-> FALSE, phase |-> "down", al |-> "INIT"]
  /\ wk = [w \in Workers |-> "none"]
  /\ stat = [connected |-> FALSE, operational |-> FALSE]
  /\ call = [c \in Callers |-> Idle]
  /\ \E st \in {"SwitchOnDisabled", "Fault"} : drv = DriveInit(st)
  /\ faults = [errors |-> 0, timeouts |-> 0]

-----------------------------------------------------------------------------
(* Faulty variant: ECAT_Open does not look whether a worker is running.    *)
OpenAnyway(new) ==
  /\ (PromptStart => \A w \in Workers : wk[w] # "created")
  /\ wk[new] = "none" /\ (\A w \in Workers : w < new => wk[w] # "none")
  /\ core' = [core EXCEPT !.opened = TRUE, !.stop = FALSE, !.worker = new]
  /\ stat' = [connected |-> FALSE, operational |-> FALSE]
  /\ wk' = [wk EXCEPT ![new] = "created"]

(* The look at worker_running, which the worker sets itself.               *)
NotRunning == ~core.running /\ (PromptStart => \A w \in Workers : wk[w] # "created")

(* ECAT_Open: forgets the old handle, clears the status, resets stop_flag  *)
(* and creates the worker.  The loser of the check returns ECAT_BUSY.      *)
Open(new) ==
  /\ NotRunning
  /\ wk[new] = "none" /\ (\A w \in Workers : w < new => wk[w] # "none")
  /\ core' = [core EXCEPT !.opened = TRUE, !.stop = FALSE, !.worker = new]
  /\ stat' = [connected |-> FALSE, operational |-> FALSE]
  /\ wk' = [wk EXCEPT ![new] = "created"]

(* CreateThread fails: ECAT_ERROR.                                         *)
OpenFails ==
  /\ NotRunning /\ faults.errors < MaxErrors
  /\ core' = [core EXCEPT !.opened = FALSE, !.stop = FALSE, !.worker = 0]
  /\ stat' = [connected |-> FALSE, operational |-> FALSE]
  /\ faults' = [faults EXCEPT !.errors = @ + 1]
  /\ UNCHANGED wk

(* ECAT_Close: the request, ...                                            *)
CloseBegin == core' = [core EXCEPT !.stop = TRUE]

(* ... the worker ended in time, or there was none, ...                    *)
CloseDone ==
  /\ core.worker # 0 => wk[core.worker] = "dead"
  /\ core' = [core EXCEPT !.worker = 0]
  /\ UNCHANGED faults

(* ... or WAIT_TIMEOUT: the flags are cleared although the worker lives.   *)
CloseTimesOut ==
  /\ core.worker # 0 /\ wk[core.worker] # "dead" /\ faults.timeouts < MaxTimeouts
  /\ core' = [core EXCEPT !.worker = 0, !.running = FALSE, !.opened = FALSE]
  /\ faults' = [faults EXCEPT !.timeouts = @ + 1]

-----------------------------------------------------------------------------
Goto(w, pc) == wk' = [wk EXCEPT ![w] = pc]

(* worker_proc announces itself and clears the context, without bus_lock.  *)
WorkerStart(w) ==
  /\ wk[w] = "created" /\ Goto(w, "memset")
  /\ core' = [core EXCEPT !.running = TRUE]
  /\ UNCHANGED <<bus, stat, call, drv, faults>>

WorkerMemset(w) ==
  /\ wk[w] = "memset" /\ Goto(w, "init")
  /\ bus' = [bus EXCEPT !.port = FALSE, !.slaves = FALSE]
  /\ UNCHANGED <<core, stat, call, drv, faults>>

(* ecx_init and ecx_config_init find slaves: they are there and not yet    *)
(* configured.  The lock is kept.                                          *)
WorkerScan(w) ==
  /\ wk[w] = "init" /\ bus.lock = 0 /\ Goto(w, "configure")
  /\ bus' = [bus EXCEPT !.lock = w, !.port = TRUE, !.slaves = TRUE, !.phase = "bringup",
                        !.al = "PRE_OP"]
  /\ UNCHANGED <<core, stat, call, drv, faults>>

(* No socket, or no slaves: the bus is closed again and the flags cleared. *)
WorkerNoBus(w) ==
  /\ wk[w] = "init" /\ bus.lock = 0 /\ faults.errors < MaxErrors /\ Goto(w, "unopen")
  /\ bus' = [bus EXCEPT !.port = FALSE, !.slaves = FALSE]
  /\ faults' = [faults EXCEPT !.errors = @ + 1]
  /\ UNCHANGED <<core, stat, call, drv>>

(* Mapping, clocks, SAFE_OP, the first exchange, OPERATIONAL (given up     *)
(* after 40 tries), the snapshot; then the lock is let go.                 *)
WorkerConfigure(w) ==
  /\ wk[w] = "configure" /\ Goto(w, "loop")
  /\ \E al \in {"SAFE_OP", "OP"} :
       /\ bus' = [bus EXCEPT !.lock = 0, !.phase = "up", !.al = al]
       /\ stat' = [connected |-> TRUE, operational |-> (al = "OP")]
  /\ UNCHANGED <<core, call, drv, faults>>

(* The loop reads stop_flag between two cycles.  Faulty variant: it does   *)
(* not.                                                                    *)
WorkerLoopIgnoresStop(w) ==
  /\ wk[w] = "loop" /\ Goto(w, "cycle")
  /\ UNCHANGED <<core, bus, stat, call, drv, faults>>
WorkerLoop(w) ==
  /\ wk[w] = "loop" /\ Goto(w, IF core.stop THEN "takedown" ELSE "cycle")
  /\ UNCHANGED <<core, bus, stat, call, drv, faults>>

(* One cycle under bus_lock, with recover_or_report_slaves and the         *)
(* snapshot; after it the statistics and connected under state_lock.       *)
WorkerCycle(w) ==
  /\ wk[w] = "cycle" /\ bus.lock = 0 /\ Goto(w, "report")
  /\ UNCHANGED <<core, bus, stat, call, drv, faults>>

WorkerReport(w) ==
  /\ wk[w] = "report" /\ Goto(w, "loop")
  /\ stat' = [stat EXCEPT !.connected = TRUE]
  /\ UNCHANGED <<core, bus, call, drv, faults>>

WorkerTakedown(w) ==
  /\ wk[w] = "takedown" /\ bus.lock = 0 /\ Goto(w, "disconnect")
  /\ bus' = [bus EXCEPT !.port = FALSE, !.phase = "down",
                        !.al = IF bus.slaves THEN "INIT" ELSE @]
  /\ UNCHANGED <<core, stat, call, drv, faults>>

WorkerDisconnect(w) ==
  /\ wk[w] = "disconnect" /\ Goto(w, "unopen")
  /\ stat' = [connected |-> FALSE, operational |-> FALSE]
  /\ UNCHANGED <<core, bus, call, drv, faults>>

(* The two flags are cleared one after the other, whoever set them.        *)
WorkerUnopen(w) ==
  /\ wk[w] = "unopen" /\ Goto(w, "unrun")
  /\ core' = [core EXCEPT !.opened = FALSE]
  /\ UNCHANGED <<bus, stat, call, drv, faults>>

WorkerEnd(w) ==
  /\ wk[w] = "unrun" /\ Goto(w, "dead")
  /\ core' = [core EXCEPT !.running = FALSE]
  /\ UNCHANGED <<bus, stat, call, drv, faults>>

WorkerStep(w) ==
  \/ WorkerStart(w) \/ WorkerMemset(w) \/ WorkerScan(w) \/ WorkerNoBus(w)
  \/ WorkerConfigure(w) \/ WorkerLoop(w) \/ WorkerCycle(w) \/ WorkerReport(w)
  \/ WorkerTakedown(w) \/ WorkerDisconnect(w) \/ WorkerUnopen(w) \/ WorkerEnd(w)

-----------------------------------------------------------------------------
Busy(c) == call[c].prog # <<>>
Begin(c, prog) == call' = [call EXCEPT ![c] = [Idle EXCEPT !.prog = prog]]

Failed(c) ==
  call' = [call EXCEPT ![c].prog = AfterFailure(@), ![c].at = "check",
                       ![c].ok = @ /\ ~Head(call[c].prog).must]

(* ECAT_ReadSdo and ECAT_WriteSdo look at worker_running: ECAT_NOT_OPEN.   *)
SdoCheck(c) ==
  /\ Busy(c) /\ call[c].at = "check"
  /\ IF core.running THEN call' = [call EXCEPT ![c].at = "lock"] ELSE Failed(c)
  /\ UNCHANGED <<core, bus, wk, stat, drv, faults>>

(* Later they have bus_lock and look at slavecount, which ecx_close leaves *)
(* as it was, but not at worker_running again.                             *)
SdoRefused(c) ==
  /\ Busy(c) /\ call[c].at = "lock" /\ bus.lock = 0
  /\ ~bus.slaves \/ ~bus.port
  /\ Failed(c)
  /\ UNCHANGED <<core, bus, wk, stat, drv, faults>>

(* Faulty variant: the access does not wait for bus_lock.                  *)
SdoAccessUnlocked(c) ==
  /\ Busy(c) /\ call[c].at = "lock" /\ bus.slaves /\ bus.port
  /\ call' = [call EXCEPT ![c].prog = AfterSuccess(@, drv.pos, StatusOf(drv.st)),
                          ![c].at = "check"]
  /\ UNCHANGED <<core, bus, wk, stat, drv, faults>>

(* ecx_SDOread or ecx_SDOwrite succeeds.                                   *)
SdoAccess(c) ==
  LET s == Head(call[c].prog) IN
  /\ Busy(c) /\ call[c].at = "lock" /\ bus.lock = 0 /\ bus.slaves /\ bus.port
  /\ drv' = CASE s.op = "write" -> DriveWrite(drv, s.obj, s.val)
              [] s.op = "copy"  -> DriveWrite(drv, s.obj, call[c].act)
              [] OTHER          -> drv
  /\ call' = [call EXCEPT ![c].prog = AfterSuccess(@, drv.pos, StatusOf(drv.st)),
                          ![c].at = "check",
                          ![c].act = IF s.obj = "ActualPosition" THEN drv.pos ELSE @]
  /\ UNCHANGED <<core, bus, wk, stat, faults>>

SdoError(c) ==
  /\ Busy(c) /\ call[c].at = "lock" /\ bus.lock = 0 /\ bus.slaves /\ bus.port
  /\ faults.errors < MaxErrors /\ faults' = [faults EXCEPT !.errors = @ + 1]
  /\ Failed(c)
  /\ UNCHANGED <<core, bus, wk, stat, drv>>

CallerStep(c) == SdoCheck(c) \/ SdoRefused(c) \/ SdoAccess(c) \/ SdoError(c)

-----------------------------------------------------------------------------
(* worker_proc under bus_lock: an SDO of another thread never reaches a    *)
(* bus whose slaves are found but not yet configured.                      *)
SdoOnConfiguredBus ==
  [][\A c \in Callers : call[c].at = "lock" /\ call'[c].at = "check" /\ bus.port
                        => bus.phase = "up"]_dllvars
=============================================================================
