------------------------------ MODULE Mailbox -------------------------------
(***************************************************************************)
(* The cyclic mailbox of ec_main.c: a pool of buffers and one transmit     *)
(* queue shared by the threads that call ecx_mbxsend and ecx_mbxreceive    *)
(* and by the cyclic handler ecx_mbxhandler, which alone talks to the      *)
(* slaves.  A thread passes a buffer to the queue, waits on its ticket     *)
(* and removes its entry, sent or expired; the handler writes, rotates and *)
(* drops entries, and hands answers over through coembxin, which no mutex  *)
(* protects.  Frames are lost on the way out or on the way back.           *)
(*                                                                         *)
(* Each slave has one thread that calls it with ecx_SDOread.  A message is *)
(* its slave and the number of the call it belongs to.                     *)
(***************************************************************************)
EXTENDS Integers, FiniteSets

CONSTANTS
  NumSlaves, \* slaves under the cyclic handler, one calling thread each
  Buffers,   \* the mailboxes of the pool, EC_MBXPOOLSIZE of them
  Null,      \* no mailbox
  Limit,     \* the limit passed to ecx_mbxhandler
  MaxCalls,  \* bound: calls of each thread, by slave
  MaxLost,   \* bound: frames lost
  Preempt    \* the handler may be held up for longer than EC_LOCALDELAY

ASSUME MailboxAssumption ==
  /\ NumSlaves \in Nat \ {0} /\ IsFiniteSet(Buffers) /\ Buffers # {} /\ Null \notin Buffers
  /\ Limit \in Nat \ {0}
  /\ MaxCalls \in [0..(NumSlaves - 1) -> Nat] /\ MaxLost \in Nat /\ Preempt \in BOOLEAN

Slaves == 0..(NumSlaves - 1)
PoolSize == Cardinality(Buffers)
Slots == 0..(PoolSize - 1)
None == [slave |-> -1, call |-> 0]
Messages == [slave : Slaves, call : Nat] \cup {None}

VARIABLES
  free,   \* mbxpool: the mailboxes in the empty list
  data,   \* the message in each buffer
  queue,  \* mbxtxqueue
  inbox,  \* per slave: coembxin (Null is EC_MBXINENABLE) and coembxinfull
  call,   \* per thread: where it is in ecx_SDOread, ecx_mbxsend and ecx_mbxreceive
  hnd,    \* ecx_mbxhandler and its locals
  rmp,    \* per slave: mbxrmpstate and the toggle in mbxinstateex
  dev,    \* per slave: the device (external)
  taken,  \* history, per slave: the last call whose answer was read
  lost    \* frames lost so far
vars == <<free, data, queue, inbox, call, hnd, rmp, dev, taken, lost>>

Init ==
  /\ free = Buffers
  /\ data = [b \in Buffers |-> None]
  /\ queue = [listhead |-> 0, listtail |-> 0, listcount |-> 0,
              mbxticket |-> [i \in Slots |-> -1], mbx |-> [i \in Slots |-> Null],
              mbxslave |-> [i \in Slots |-> 0], mbxstate |-> [i \in Slots |-> "NONE"],
              mbxremove |-> [i \in Slots |-> FALSE]]
  /\ inbox = [s \in Slaves |-> [coembxin |-> Null, full |-> FALSE]]
  /\ call = [s \in Slaves |-> [pc |-> "idle", n |-> 0, out |-> Null, in |-> Null, ticket |-> -1]]
  /\ hnd = [pc |-> "in", left |-> NumSlaves, limit |-> Limit, lastmbxpos |-> 0,
            mbx |-> Null, ticketloc |-> 0]
  /\ rmp = [s \in Slaves |-> [state |-> 0, toggle |-> FALSE]]
  /\ dev = [s \in Slaves |-> [in |-> None, seen |-> 0, full |-> FALSE,
                              req |-> FALSE, ack |-> FALSE]]
  /\ taken = [s \in Slaves |-> 0] /\ lost = 0

(* The next place of the ring.                                             *)
Inc(i) == (i + 1) % PoolSize
Me(c) == [slave |-> c, call |-> call[c].n]

(* ecx_dropmbx, if the pointer is not NULL.  What was in the buffer is     *)
(* forgotten: ecx_getmbx hands out buffers to be filled.                   *)
Drop(list, b) == list \cup ({b} \ {Null})
Cleared(bs) == [b \in Buffers |-> IF b \in bs THEN None ELSE data[b]]

(* A frame comes back, or is lost.                                         *)
Carried(ok) == (ok \/ lost < MaxLost) /\ lost' = IF ok THEN lost ELSE lost + 1
-----------------------------------------------------------------------------
(* ecx_mbxreceive: coembxinfull is seen and the pointer is taken; the flag *)
(* is cleared after it.                                                    *)
TakeMbx(c) == [inbox EXCEPT ![c].coembxin = Null]

(* ecx_SDOread begins by emptying coembxin, with a timeout of 0.           *)
Start(c) ==
  /\ call[c].pc = "idle" /\ call[c].n < MaxCalls[c]
  /\ IF inbox[c].full
     THEN /\ inbox' = TakeMbx(c)
          /\ call' = [call EXCEPT ![c].pc = "drained", ![c].n = @ + 1, ![c].in = inbox[c].coembxin]
     ELSE /\ call' = [call EXCEPT ![c].pc = "get", ![c].n = @ + 1]
          /\ UNCHANGED inbox
  /\ UNCHANGED <<free, data, queue, hnd, rmp, dev, taken, lost>>

(* The answer is there.                                                    *)
Receive(c) ==
  /\ call[c].pc = "recv" /\ inbox[c].full
  /\ inbox' = TakeMbx(c)
  /\ call' = [call EXCEPT ![c].pc = "took", ![c].in = inbox[c].coembxin]
  /\ UNCHANGED <<free, data, queue, hnd, rmp, dev, taken, lost>>

(* The old answer is kept for now.                                         *)
Drained(c) ==
  /\ call[c].pc = "drained"
  /\ inbox' = [inbox EXCEPT ![c].full = FALSE]
  /\ call' = [call EXCEPT ![c].pc = "get"]
  /\ UNCHANGED <<free, data, queue, hnd, rmp, dev, taken, lost>>

(* The answer is used and dropped.                                         *)
Return(c) ==
  /\ call[c].pc = "took"
  /\ inbox' = [inbox EXCEPT ![c].full = FALSE]
  /\ free' = Drop(free, call[c].in) /\ data' = Cleared({call[c].in})
  /\ call' = [call EXCEPT ![c].pc = "idle", ![c].in = Null]
  /\ UNCHANGED <<queue, hnd, rmp, dev, taken, lost>>

(* The timer of the call expires with nothing in coembxin.                 *)
ReceiveNone(c) ==
  /\ call[c].pc = "recv" /\ ~inbox[c].full
  /\ call' = [call EXCEPT ![c].pc = "idle"]
  /\ UNCHANGED <<free, data, queue, inbox, hnd, rmp, dev, taken, lost>>

(* ecx_getmbx, and the request is built in the buffer.                     *)
GetMbx(c) ==
  /\ call[c].pc = "get"
  /\ \E b \in free :
       /\ free' = free \ {b}
       /\ data' = [data EXCEPT ![b] = Me(c)]
       /\ call' = [call EXCEPT ![c].pc = "add", ![c].out = b]
  /\ UNCHANGED <<queue, inbox, hnd, rmp, dev, taken, lost>>

(* The pool is empty: ecx_SDOread returns, and MbxIn is forgotten.         *)
NoMbx(c) ==
  /\ call[c].pc = "get" /\ free = {}
  /\ call' = [call EXCEPT ![c].pc = "idle", ![c].in = Null]
  /\ UNCHANGED <<free, data, queue, inbox, hnd, rmp, dev, taken, lost>>

(* The first ticket that is not in use.                                    *)
FreeTicket(k) == queue.mbxticket[k] < 0 /\ \A j \in 0..(k - 1) : queue.mbxticket[j] >= 0

(* ecx_mbxaddqueue *)
AddQueue(c) ==
  /\ call[c].pc = "add" /\ queue.listcount < PoolSize
  /\ \E k \in Slots :
       /\ FreeTicket(k)
       /\ queue' = [queue EXCEPT !.mbxticket[k] = queue.listhead,
                                 !.mbxslave[queue.listhead] = c,
                                 !.mbx[queue.listhead] = call[c].out,
                                 !.mbxremove[queue.listhead] = FALSE,
                                 !.mbxstate[queue.listhead] = "REQ",
                                 !.listhead = Inc(@), !.listcount = @ + 1]
       /\ call' = [call EXCEPT ![c].pc = "wait", ![c].out = Null, ![c].ticket = k]
  /\ UNCHANGED <<free, data, inbox, hnd, rmp, dev, taken, lost>>

(* The queue is full until the timer of ecx_mbxsend expires.               *)
AddFails(c) ==
  /\ call[c].pc = "add" /\ queue.listcount = PoolSize
  /\ free' = Drop(Drop(free, call[c].out), call[c].in)
  /\ data' = Cleared({call[c].out, call[c].in})
  /\ call' = [call EXCEPT ![c].pc = "idle", ![c].out = Null, ![c].in = Null]
  /\ UNCHANGED <<queue, inbox, hnd, rmp, dev, taken, lost>>

(* Where the thread's ticket points.                                       *)
Entry(c) == queue.mbxticket[call[c].ticket]

(* The entry leaves its ticket and is to be removed.                       *)
LetGo(c) == [queue EXCEPT !.mbxremove[Entry(c)] = TRUE, !.mbxticket[call[c].ticket] = -1]

(* ecx_mbxdonequeue sees the request sent; the old MbxIn is dropped.       *)
DoneQueue(c) ==
  /\ call[c].pc = "wait" /\ queue.mbxstate[Entry(c)] = "DONE"
  /\ queue' = LetGo(c)
  /\ free' = Drop(free, call[c].in)
  /\ data' = Cleared({call[c].in})
  /\ call' = [call EXCEPT ![c].pc = "recv", ![c].in = Null, ![c].ticket = -1]
  /\ UNCHANGED <<inbox, hnd, rmp, dev, taken, lost>>

(* The timer of ecx_mbxsend expires: ecx_mbxexpirequeue, and the end of    *)
(* ecx_SDOread.  The thread has slept for EC_LOCALDELAY at least since it  *)
(* added the entry; the handler takes less from moving an entry away to    *)
(* looking at mbxremove in its old place, unless it is held up.            *)
ExpireQueue(c) ==
  /\ call[c].pc = "wait"
  /\ Preempt \/ hnd.pc # "check" \/ hnd.ticketloc \notin {Entry(c)} \ {queue.listtail}
  /\ queue' = IF queue.mbxstate[Entry(c)] = "NONE" THEN queue ELSE LetGo(c)
  /\ free' = Drop(free, call[c].in)
  /\ data' = Cleared({call[c].in})
  /\ call' = [call EXCEPT ![c].pc = "idle", ![c].in = Null, ![c].ticket = -1]
  /\ UNCHANGED <<inbox, hnd, rmp, dev, taken, lost>>
-----------------------------------------------------------------------------
(* The slave ecx_mbxinhandler looks at next, and how it goes on after it.  *)
Turn == (hnd.lastmbxpos + 1) % NumSlaves
Visited(h, work) ==
  [h EXCEPT !.lastmbxpos = Turn, !.limit = @ - work,
            !.left = IF work = 1 /\ hnd.limit <= 1 THEN 0 ELSE @ - 1]

(* mbxstatus says there is nothing to read, as it was when the last        *)
(* process data came or because they did not come; or the pool is empty.   *)
InSkip ==
  /\ hnd.pc = "in" /\ hnd.left > 0 /\ rmp[Turn].state = 0
  /\ hnd' = Visited(hnd, 0)
  /\ UNCHANGED <<free, data, queue, inbox, call, rmp, dev, taken, lost>>

(* The mailbox is read.                                                    *)
InRead ==
  /\ hnd.pc = "in" /\ hnd.left > 0
  /\ rmp[Turn].state = 0 /\ dev[Turn].full
  /\ \E b \in free :
       /\ free' = free \ {b}
       /\ data' = [data EXCEPT ![b] = [slave |-> Turn, call |-> dev[Turn].seen]]
       /\ hnd' = [Visited(hnd, 1) EXCEPT !.pc = "store", !.mbx = b]
  /\ dev' = [dev EXCEPT ![Turn].full = FALSE]
  /\ taken' = [taken EXCEPT ![Turn] = dev[Turn].seen]
  /\ UNCHANGED <<queue, inbox, call, rmp, lost>>

(* The frame is lost, before or after it has emptied the mailbox: the      *)
(* robust mailbox protocol begins, and the buffer goes back.               *)
InLost(emptied) ==
  /\ hnd.pc = "in" /\ hnd.left > 0
  /\ rmp[Turn].state = 0 /\ dev[Turn].full /\ free # {}
  /\ dev' = [dev EXCEPT ![Turn].full = ~emptied]
  /\ rmp' = [rmp EXCEPT ![Turn].state = 1]
  /\ Carried(FALSE)
  /\ hnd' = Visited(hnd, 1)
  /\ UNCHANGED <<free, data, queue, inbox, call, taken>>

(* An answer goes to coembxin, the flag follows.                           *)
InStore ==
  /\ hnd.pc = "store" /\ ~inbox[hnd.lastmbxpos].full
  /\ inbox' = [inbox EXCEPT ![hnd.lastmbxpos].coembxin = hnd.mbx]
  /\ hnd' = [hnd EXCEPT !.pc = "flag"]
  /\ UNCHANGED <<free, data, queue, call, rmp, dev, taken, lost>>

(* The last answer has not been fetched, or the message is an error or an  *)
(* emergency and goes to the error list: the buffer goes back.             *)
InDrop ==
  /\ hnd.pc = "store"
  /\ free' = Drop(free, hnd.mbx) /\ data' = Cleared({hnd.mbx})
  /\ hnd' = [hnd EXCEPT !.pc = "in", !.mbx = Null]
  /\ UNCHANGED <<queue, inbox, call, rmp, dev, taken, lost>>

InFlag ==
  /\ hnd.pc = "flag"
  /\ inbox' = [inbox EXCEPT ![hnd.lastmbxpos].full = TRUE]
  /\ hnd' = [hnd EXCEPT !.pc = "in", !.mbx = Null]
  /\ UNCHANGED <<free, data, queue, call, rmp, dev, taken, lost>>

(* mbxrmpstate 1: read the state and toggle the repeat request.            *)
RmpToggle(ok) ==
  /\ hnd.pc = "in" /\ hnd.left > 0 /\ rmp[Turn].state = 1
  /\ rmp' = [rmp EXCEPT ![Turn] = IF ok THEN [state |-> 2, toggle |-> ~dev[Turn].req] ELSE @]
  /\ Carried(ok)
  /\ hnd' = Visited(hnd, 1)
  /\ UNCHANGED <<free, data, queue, inbox, call, dev, taken>>

(* Faulty variant: the acknowledgement is not waited for.                  *)
RmpWriteOnly(arrives, ok) ==
  /\ hnd.pc = "in" /\ hnd.left > 0 /\ rmp[Turn].state = 2 /\ (ok => arrives)
  /\ dev' = [dev EXCEPT ![Turn].req = IF arrives THEN rmp[Turn].toggle ELSE @]
  /\ rmp' = [rmp EXCEPT ![Turn].state = IF ok THEN 0 ELSE @]
  /\ Carried(ok)
  /\ hnd' = Visited(hnd, 1)
  /\ UNCHANGED <<free, data, queue, inbox, call, taken>>

(* mbxrmpstate 2: write it.                                                *)
RmpWrite(arrives, ok) ==
  /\ hnd.pc = "in" /\ hnd.left > 0 /\ rmp[Turn].state = 2 /\ (ok => arrives)
  /\ dev' = [dev EXCEPT ![Turn].req = IF arrives THEN rmp[Turn].toggle ELSE @]
  /\ rmp' = [rmp EXCEPT ![Turn].state = IF ok THEN 3 ELSE @]
  /\ Carried(ok)
  /\ hnd' = Visited(hnd, 1)
  /\ UNCHANGED <<free, data, queue, inbox, call, taken>>

(* mbxrmpstate 3: wait for the acknowledgement.                            *)
RmpAck(ok) ==
  /\ hnd.pc = "in" /\ hnd.left > 0 /\ rmp[Turn].state = 3
  /\ rmp' = [rmp EXCEPT ![Turn].state = IF ok /\ dev[Turn].ack = rmp[Turn].toggle THEN 0 ELSE @]
  /\ Carried(ok)
  /\ hnd' = Visited(hnd, 1)
  /\ UNCHANGED <<free, data, queue, inbox, call, dev, taken>>
-----------------------------------------------------------------------------
(* ecx_mbxouthandler looks at as many entries as there are now.            *)
OutStart ==
  /\ hnd.pc = "in" /\ hnd.left = 0
  /\ hnd' = [hnd EXCEPT !.pc = "out", !.left = queue.listcount]
  /\ UNCHANGED <<free, data, queue, inbox, call, rmp, dev, taken, lost>>

OutTurn == hnd.pc = "out" /\ hnd.left > 0 /\ hnd.limit >= 0

(* The request is written to the slave and the buffer goes back.           *)
OutSent ==
  LET loc == queue.listtail  s == queue.mbxslave[loc] IN
  /\ OutTurn /\ queue.mbxstate[loc] \in {"REQ", "FAIL"} /\ dev[s].in = None
  /\ dev' = [dev EXCEPT ![s].in = data[queue.mbx[loc]]]
  /\ queue' = [queue EXCEPT !.mbxstate[loc] = "DONE", !.mbx[loc] = Null]
  /\ free' = Drop(free, queue.mbx[loc])
  /\ data' = Cleared({queue.mbx[loc]})
  /\ hnd' = [hnd EXCEPT !.pc = "rotate", !.limit = @ - 1, !.ticketloc = loc]
  /\ UNCHANGED <<inbox, call, rmp, taken, lost>>

(* Faulty variant: the working counter is not looked at.                   *)
OutFailDone(lostframe, arrives) ==
  LET loc == queue.listtail  s == queue.mbxslave[loc] IN
  /\ OutTurn /\ queue.mbxstate[loc] \in {"REQ", "FAIL"}
  /\ IF lostframe THEN arrives => dev[s].in = None ELSE ~arrives /\ dev[s].in # None
  /\ dev' = [dev EXCEPT ![s].in = IF arrives THEN data[queue.mbx[loc]] ELSE @]
  /\ queue' = [queue EXCEPT !.mbxstate[loc] = "DONE"]
  /\ Carried(~lostframe)
  /\ hnd' = [hnd EXCEPT !.pc = "rotate", !.limit = @ - 1, !.ticketloc = loc]
  /\ UNCHANGED <<free, data, inbox, call, rmp, taken>>

(* The frame is lost, before or after it has reached the slave, or the     *)
(* slave's mailbox is full: the entry is tried again later.                *)
OutFail(lostframe, arrives) ==
  LET loc == queue.listtail  s == queue.mbxslave[loc] IN
  /\ OutTurn /\ queue.mbxstate[loc] \in {"REQ", "FAIL"}
  /\ IF lostframe THEN arrives => dev[s].in = None ELSE ~arrives /\ dev[s].in # None
  /\ dev' = [dev EXCEPT ![s].in = IF arrives THEN data[queue.mbx[loc]] ELSE @]
  /\ queue' = [queue EXCEPT !.mbxstate[loc] = "FAIL"]
  /\ Carried(~lostframe)
  /\ hnd' = [hnd EXCEPT !.pc = "rotate", !.limit = @ - 1, !.ticketloc = loc]
  /\ UNCHANGED <<free, data, inbox, call, rmp, taken>>

(* The slave was below PRE_OP when its state was read last.                *)
OutHold ==
  /\ OutTurn /\ queue.mbxstate[queue.listtail] \in {"REQ", "FAIL"}
  /\ hnd' = [hnd EXCEPT !.pc = "rotate", !.limit = @ - 1, !.ticketloc = queue.listtail]
  /\ UNCHANGED <<free, data, queue, inbox, call, rmp, dev, taken, lost>>

(* The entry was sent before.                                              *)
OutDone ==
  /\ OutTurn /\ queue.mbxstate[queue.listtail] \in {"DONE", "NONE"}
  /\ hnd' = [hnd EXCEPT !.ticketloc = queue.listtail,
                        !.pc = IF queue.mbxstate[queue.listtail] = "NONE"
                               THEN "check" ELSE "rotate"]
  /\ UNCHANGED <<free, data, queue, inbox, call, rmp, dev, taken, lost>>

(* The queue after the entry at its tail has moved to its head; the old    *)
(* place is left as it was.                                                *)
Rotated(k) ==
  LET h == queue.listhead  t == queue.listtail IN
  [queue EXCEPT !.mbxticket[k] = h, !.mbxremove[h] = queue.mbxremove[t],
                !.mbxstate[h] = queue.mbxstate[t], !.mbxslave[h] = queue.mbxslave[t],
                !.mbx[h] = queue.mbx[t], !.listhead = Inc(h), !.listtail = Inc(t)]

(* Faulty variant: the ticket keeps pointing to the old place.             *)
RotateForgetsTicket ==
  /\ hnd.pc = "rotate"
  /\ LET held == {k \in Slots : queue.mbxticket[k] = hnd.ticketloc} IN
     IF queue.listhead = queue.listtail \/ held = {} THEN UNCHANGED queue
     ELSE \E k \in held : queue' = [Rotated(k) EXCEPT !.mbxticket = queue.mbxticket]
  /\ hnd' = [hnd EXCEPT !.pc = "check"]
  /\ UNCHANGED <<free, data, inbox, call, rmp, dev, taken, lost>>

(* ecx_mbxrotatequeue: not when the queue is full, nor for an entry        *)
(* without a ticket.                                                       *)
Rotate ==
  /\ hnd.pc = "rotate"
  /\ LET held == {k \in Slots : queue.mbxticket[k] = hnd.ticketloc} IN
     IF queue.listhead = queue.listtail \/ held = {} THEN UNCHANGED queue
     ELSE \E k \in held :
            /\ \A j \in held : k <= j
            /\ queue' = Rotated(k)
  /\ hnd' = [hnd EXCEPT !.pc = "check"]
  /\ UNCHANGED <<free, data, inbox, call, rmp, dev, taken, lost>>

(* ecx_mbxdropqueue, if the place looked at is to be removed.              *)
Check ==
  /\ hnd.pc = "check"
  /\ LET loc == hnd.ticketloc IN
     IF queue.mbxremove[loc]
     THEN /\ queue' = [queue EXCEPT !.mbxstate[loc] = "NONE", !.mbxremove[loc] = FALSE,
                                    !.mbxslave[loc] = 0, !.mbx[loc] = Null,
                                    !.listtail = Inc(@), !.listcount = @ - 1]
          /\ free' = Drop(free, queue.mbx[loc])
          /\ data' = Cleared({queue.mbx[loc]})
     ELSE UNCHANGED <<queue, free, data>>
  /\ hnd' = [hnd EXCEPT !.pc = "out", !.left = @ - 1, !.ticketloc = 0]
  /\ UNCHANGED <<inbox, call, rmp, dev, taken, lost>>

(* The end of ecx_mbxhandler; the next process data come.                  *)
Cycle ==
  /\ hnd.pc = "out" /\ (hnd.left = 0 \/ hnd.limit < 0)
  /\ hnd' = [hnd EXCEPT !.pc = "in", !.left = NumSlaves, !.limit = Limit]
  /\ UNCHANGED <<free, data, queue, inbox, call, rmp, dev, taken, lost>>
-----------------------------------------------------------------------------
(* The slave takes a request and answers it, once for each counter.        *)
DevExecute(s) ==
  /\ dev[s].in # None /\ ~dev[s].full
  /\ dev' = [dev EXCEPT ![s].in = None, ![s].seen = dev[s].in.call,
                        ![s].full = dev[s].in.call # dev[s].seen]
  /\ UNCHANGED <<free, data, queue, inbox, call, hnd, rmp, taken, lost>>

(* The slave is asked to repeat its last message.                          *)
DevRepeat(s) ==
  /\ dev[s].req # dev[s].ack
  /\ dev' = [dev EXCEPT ![s].ack = dev[s].req, ![s].full = TRUE]
  /\ UNCHANGED <<free, data, queue, inbox, call, hnd, rmp, taken, lost>>

Caller(c) ==
  \/ Start(c) \/ Receive(c) \/ Drained(c) \/ ReceiveNone(c) \/ GetMbx(c) \/ NoMbx(c)
  \/ AddQueue(c) \/ AddFails(c) \/ DoneQueue(c) \/ ExpireQueue(c) \/ Return(c)

Handler ==
  \/ \E ok \in BOOLEAN : RmpToggle(ok) \/ RmpAck(ok) \/ InLost(ok)
  \/ \E arrives, ok \in BOOLEAN : RmpWrite(arrives, ok) \/ OutFail(ok, arrives)
  \/ InSkip \/ InRead \/ InStore \/ InDrop \/ InFlag \/ OutStart \/ OutSent \/ OutHold \/ OutDone
  \/ Rotate \/ Check \/ Cycle

Device(s) == DevExecute(s) \/ DevRepeat(s)

Next == Handler \/ \E s \in Slaves : Caller(s) \/ Device(s)

Spec == Init /\ [][Next]_vars
-----------------------------------------------------------------------------
(* The places of the queue between tail and head.                          *)
Live == {i \in Slots : (i + PoolSize - queue.listtail) % PoolSize < queue.listcount}

(* The pool, the queue and where the threads and the handler are: places   *)
(* of the ring are within it.                                              *)
TypeOK ==
  /\ free \subseteq Buffers
  /\ data \in [Buffers -> Messages]
  /\ queue.listhead \in Slots /\ queue.listtail \in Slots /\ queue.listcount \in 0..PoolSize
  /\ queue.mbxticket \in [Slots -> Slots \cup {-1}]
  /\ queue.mbx \in [Slots -> Buffers \cup {Null}] /\ queue.mbxslave \in [Slots -> Slaves]
  /\ queue.mbxstate \in [Slots -> {"NONE", "REQ", "FAIL", "DONE"}]
  /\ queue.mbxremove \in [Slots -> BOOLEAN]
  /\ inbox \in [Slaves -> [coembxin : Buffers \cup {Null}, full : BOOLEAN]]
  /\ call \in [Slaves -> [pc : {"idle", "drained", "get", "add", "wait", "recv", "took"},
                          n : Nat, out : Buffers \cup {Null}, in : Buffers \cup {Null},
                          ticket : Slots \cup {-1}]]
  /\ hnd \in [pc : {"in", "store", "flag", "out", "rotate", "check"},
              left : 0..(NumSlaves + PoolSize), limit : -1..Limit,
              lastmbxpos : Slaves, mbx : Buffers \cup {Null}, ticketloc : Slots]
  /\ rmp \in [Slaves -> [state : 0..3, toggle : BOOLEAN]]
  /\ dev \in [Slaves -> [in : Messages, seen : Nat, full : BOOLEAN,
                         req : BOOLEAN, ack : BOOLEAN]]
  /\ taken \in [Slaves -> Nat] /\ lost \in 0..MaxLost

(* Everything that holds buffer b.                                         *)
Holders(b) ==
  {<<"free", x>> : x \in free \cap {b}}
    \cup {<<"queue", i>> : i \in {j \in Live : queue.mbx[j] = b}}
    \cup {<<"inbox", s>> : s \in {x \in Slaves : inbox[x].coembxin = b}}
    \cup {<<"out", s>> : s \in {x \in Slaves : call[x].out = b}}
    \cup {<<"in", s>> : s \in {x \in Slaves : call[x].in = b}}
    \cup {<<"handler", 0>> : x \in {y \in {hnd} : y.pc = "store" /\ y.mbx = b}}

(***************************************************************************)
(* "ownership is transferred": no buffer of the pool is ever in two hands, *)
(* whichever of the threads and the handler drops, expires or stores it.   *)
(***************************************************************************)
OwnedOnce == \A b \in Buffers : Cardinality(Holders(b)) <= 1

(***************************************************************************)
(* The entries are the places from tail to head, an entry has a ticket or  *)
(* is to be removed, and a waiting thread's ticket leads to its own entry, *)
(* wherever the handler has moved it.                                      *)
(***************************************************************************)
QueueSound ==
  /\ TypeOK
  /\ (queue.listtail + queue.listcount) % PoolSize = queue.listhead
  /\ \A i \in Live :
       IF queue.mbxremove[i] THEN \A k \in Slots : queue.mbxticket[k] # i
       ELSE \E c \in Slaves : call[c].pc = "wait" /\ Entry(c) = i
  /\ \A c \in Slaves : call[c].pc = "wait" => Entry(c) \in Live /\ queue.mbxslave[Entry(c)] = c

(***************************************************************************)
(* ecx_getmbx, ecx_mbxaddqueue and what follows them: every buffer is in   *)
(* one hand, and the hand that it is in is found by the ticket.            *)
(***************************************************************************)
PoolIsSound == OwnedOnce /\ QueueSound

(***************************************************************************)
(* When ecx_mbxsend reports success the request of this call has reached   *)
(* its slave.                                                              *)
(***************************************************************************)
SentMeansDelivered ==
  \A c \in Slaves :
    call[c].pc \in {"recv", "took"} => dev[c].in = Me(c) \/ dev[c].seen = call[c].n

(***************************************************************************)
(* Lost frames and repeat requests do not make the handler read the answer *)
(* to one call twice.                                                      *)
(***************************************************************************)
AnswerReadOnce ==
  [][\A s \in Slaves : (InRead /\ Turn = s) => dev[s].seen > taken[s]]_vars

=============================================================================
