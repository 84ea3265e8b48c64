------------------------------ MODULE MasterBus -----------------------------
(***************************************************************************)
(* What the master does with its bus, from the first frame to the cyclic   *)
(* operation, in the order of worker_proc of the DLL: the EEPROM interface *)
(* and the sections of the SII, the scan of ecx_config_init, the mapping   *)
(* that the object dictionary gives, the process image and its frames, the *)
(* clocks, the slaves' states, and lms_master, which moves on top of them. *)
(*                                                                         *)
(* The parts share no variable.  Each behaviour is one of one part, on     *)
(* inputs of its own, while the others rest at an empty bus.               *)
(***************************************************************************)
EXTENDS ProcessData, DistClock, SlaveStates, Eeprom, BusScan, Sii, PdoMap, LmsTrack

VARIABLE part
busvars == <<part, eepvars, siivars, scanvars, pmvars, pdvars, dcvars, stvars, lmsvars>>

NoBus == [slaves |-> <<>>, mode |-> "plain", dc |-> FALSE]
NoDictionary == [types |-> <<>>, use |-> <<>>, assign |-> <<>>, ca |-> FALSE]
NoJourney == [motion |-> FALSE, start |-> 0, target |-> 0, vmax |-> 1, acc |-> 1, cycles |-> 0,
              drives |-> FALSE, op |-> FALSE]

Part(p, active, resting) == IF part = p THEN active ELSE resting

BusInit ==
  /\ part \in {"eeprom", "sii", "scan", "mapping", "image", "clocks", "states", "track"}
  /\ EepInit
  /\ Part("sii", SiiInit, StartSii(<<>>))
  /\ Part("scan", ScanInit, StartScan(<<>>))
  /\ Part("mapping", MapInit, StartMap(NoDictionary))
  /\ Part("image", PdInit, StartImage(NoBus))
  /\ Part("clocks", DcInit, StartClocks(<<>>, 0))
  /\ Part("states", StInit, StartStates("dll", Op, "cycle"))
  /\ Part("track", LmsInit, StartTrack(<<>>, NoJourney))

BusNext ==
  \/ /\ part = "eeprom" /\ EepNext
     /\ UNCHANGED <<part, siivars, scanvars, pmvars, pdvars, dcvars, stvars, lmsvars>>
  \/ /\ part = "sii" /\ SiiNext
     /\ UNCHANGED <<part, eepvars, scanvars, pmvars, pdvars, dcvars, stvars, lmsvars>>
  \/ /\ part = "scan" /\ ScanNext
     /\ UNCHANGED <<part, eepvars, siivars, pmvars, pdvars, dcvars, stvars, lmsvars>>
  \/ /\ part = "mapping" /\ MapNext
     /\ UNCHANGED <<part, eepvars, siivars, scanvars, pdvars, dcvars, stvars, lmsvars>>
  \/ /\ part = "image" /\ PdNext
     /\ UNCHANGED <<part, eepvars, siivars, scanvars, pmvars, dcvars, stvars, lmsvars>>
  \/ /\ part = "clocks" /\ DcNext
     /\ UNCHANGED <<part, eepvars, siivars, scanvars, pmvars, pdvars, stvars, lmsvars>>
  \/ /\ part = "states" /\ StNext
     /\ UNCHANGED <<part, eepvars, siivars, scanvars, pmvars, pdvars, dcvars, lmsvars>>
  \/ /\ part = "track" /\ LmsNext
     /\ UNCHANGED <<part, eepvars, siivars, scanvars, pmvars, pdvars, dcvars, stvars>>

(* Fairness is needed where slaves are brought back: the worker thread     *)
(* goes round its loop, slaves answer and a cable comes back; and where    *)
(* the program lms_master comes to its end.                                *)
StatesOnly == part = "states" /\ UNCHANGED <<part, eepvars, siivars, scanvars, pmvars, pdvars, dcvars, lmsvars>>
WorkerGoes == StatesOnly /\ WorkerStep
SlaveReacts(i) == StatesOnly /\ ReactStep(i)
SlaveReturns(i) == StatesOnly /\ ReturnStep(i)
LmsGoes ==
  part = "track" /\ LmsStep /\ UNCHANGED <<part, eepvars, siivars, scanvars, pmvars, pdvars, dcvars, stvars>>

BusSpec ==
  /\ BusInit /\ [][BusNext]_busvars
  /\ WF_busvars(WorkerGoes) /\ WF_busvars(LmsGoes)
  /\ \A i \in Slots : WF_busvars(SlaveReacts(i)) /\ WF_busvars(SlaveReturns(i))

(* What the SII functions extract is what the SII holds, whatever sections *)
(* it has and in whatever order, and the sizes that ecx_readPDOmap finds   *)
(* in the object dictionary are those of its PDOs.                         *)
DescriptionsAreRead ==
  /\ SectionsAreRead /\ PdoSizesAreRight
  /\ SizesAreTrue /\ SizesAreNotTooLarge
=============================================================================
