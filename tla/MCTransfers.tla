---------------------------- MODULE MCTransfers -----------------------------
(* Instances of Transfers.                                                 *)
EXTENDS Transfers, TLC

(* Objects of one unit, of one mailbox, of a mailbox and a segment or two  *)
(* mailboxes, and of more.  The first two have the same index.             *)
Sizes == (11 :> 1) @@ (12 :> 2) @@ (21 :> 4) @@ (31 :> 6)
=============================================================================
