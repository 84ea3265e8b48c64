------------------------------ MODULE DllLinux ------------------------------
(***************************************************************************)
(* The DLL with its Linux backend and its device database, as the          *)
(* application uses them: rt_apply_status_locked looks every slave up in   *)
(* the database while it holds rt_lock and state_lock, and so waits for an *)
(* import that is saving.  The process may end in the middle of a save.    *)
(***************************************************************************)
EXTENDS RtClient, DeviceDb

CONSTANT Slave   \* <<vendor, product, revision>> of the slave in every STATUS

VARIABLE info    \* G_core.slaves[0].info: database_matched and database_xml
vars == <<rtvars, dbvars, info>>

Init == RtInit /\ DbInit /\ info = ""

(* A STATUS that is applied brings the slave's entry with it.              *)
ApplyStatus ==
  IF status' # status /\ status'.connected
  THEN /\ ~saving
       /\ LET k == DbFindMatch(table, Slave)
          IN  info' = IF k = 0 THEN "" ELSE table[k].from
  ELSE UNCHANGED info

ClientStep == RtNext /\ ApplyStatus /\ UNCHANGED dbvars

(* Another thread works with the database.                                 *)
DatabaseStep ==
  /\ used.calls < MaxCalls \/ saving
  /\ DbNext
  /\ used' = IF saving THEN used ELSE [used EXCEPT !.calls = @ + 1]
  /\ IF crashes' # crashes /\ saving
     THEN /\ core' = NewCore /\ status' = NewStatus
          /\ call' = [t \in Threads |-> Quiet] /\ net' = Closed /\ info' = ""
     ELSE UNCHANGED <<core, status, call, net, info>>

Next == ClientStep \/ DatabaseStep
Spec == Init /\ [][Next]_vars
=============================================================================
