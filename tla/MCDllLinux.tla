----------------------------- MODULE MCDllLinux -----------------------------
(* Two threads of an application such as the GUI: one opens, closes and    *)
(* commands, the other polls; and three documents for a table of three.    *)
EXTENDS DllLinux

Device(v, p, r) == [vendor |-> v, product |-> p, revision |-> r]
MCOps == [t \in Threads |->
            IF t = "ui" THEN {"open", "close", "endpoint", "command", "read_sdo"} ELSE {"poll", "write_sdo"}]
MCDocuments ==
  {[path |-> "one", vendor |-> 7, devices |-> <<Device(0, 5, 32), Device(0, 0, 16), Device(0, 5, NoRevision)>>],
   [path |-> "two", vendor |-> 0, devices |-> <<Device(7, 5, 16), Device(7, 5, 32)>>],
   [path |-> "bad", vendor |-> 0, devices |-> <<Device(0, 5, 1)>>],
   [path |-> "many", vendor |-> 7, devices |-> <<Device(7, 6, 1), Device(7, 6, 2), Device(7, 6, 2), Device(7, 6, 3)>>]}
MCSlave == <<7, 5, 48>>
=============================================================================
