----------------------------- MODULE SerialLink -----------------------------
(***************************************************************************)
(* What the Linux backend of ethercat_master.c promises its callers: one   *)
(* session at a time, and in it one request after the other.  A request is *)
(* answered, or given up, or lost with the session; the next one begins    *)
(* after that.  The session is reported open only while it is.             *)
(***************************************************************************)
EXTENDS Naturals

CONSTANTS Threads, NoThread

VARIABLES
  session,  \* "closed", "opening" or "open"
  active    \* the thread whose request is outstanding, or NoThread
linkvars == <<session, active>>

Init == session = "closed" /\ active = NoThread

(* A request begins in a session; opening one is a request, too.           *)
Request(t) ==
  /\ active = NoThread /\ active' = t
  /\ session' \in {session} \cup (IF session = "closed" THEN {"opening"} ELSE {})

Answered(t) ==
  /\ active = t /\ active' = NoThread
  /\ session' = IF session = "opening" THEN "open" ELSE session

(* A failure keeps the session or ends it; one that was being opened is    *)
(* never left half open.                                                   *)
Failed(t) ==
  /\ active \in {t, NoThread} /\ active' = NoThread
  /\ session' \in IF session = "opening" THEN {"closed"} ELSE {session, "closed"}

Next == \E t \in Threads : Request(t) \/ Answered(t) \/ Failed(t)

Spec == Init /\ [][Next]_linkvars
=============================================================================
