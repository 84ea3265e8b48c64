----------------------------- MODULE MCProfile ------------------------------
(* Instance of ProfileMachine: moves of up to nine units from rest, towards *)
(* the target and away from it, with equal, unequal and default limits.     *)
EXTENDS ProfileMachine

MCPositions  == -2..3
MCVelocities == -3..3
MCSpeeds     == {0, 1, 2, 4}
MCAccels     == 0..3
=============================================================================
