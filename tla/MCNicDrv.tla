------------------------------ MODULE MCNicDrv ------------------------------
(* Instances of NicDrv.  The threads are interchangeable.                  *)
EXTENDS NicDrv, TLC

ThreadSymmetry == Permutations(Threads)
=============================================================================
