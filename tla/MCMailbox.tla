----------------------------- MODULE MCMailbox ------------------------------
(* Instances of Mailbox.  The buffers of the pool are interchangeable.     *)
EXTENDS Mailbox, TLC

(* One thread calls twice, the other once.                                *)
TwoAndOne == (0 :> 2) @@ (1 :> 1)

BufferSymmetry == Permutations(Buffers)
=============================================================================
