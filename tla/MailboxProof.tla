---------------------------- MODULE MailboxProof ----------------------------
(***************************************************************************)
(* Theorems about the cyclic mailbox.  Four invariants, each on top of the *)
(* ones before it: the ring and its tickets (QueueInv), who holds a buffer *)
(* (OwnInv), what is in the buffers and in which order it reaches a slave  *)
(* (ContentInv), and the robust mailbox protocol (RmpInv).                 *)
(***************************************************************************)
EXTENDS Mailbox, FiniteSetTheorems, TLAPS

(* The handler is never held up for longer than EC_LOCALDELAY.             *)
Prompt == ~Preempt

-----------------------------------------------------------------------------
(* The ring: the distance from the tail, and the place of the head.        *)
PosAt(t, i) == (i + PoolSize - t) % PoolSize
HeadAt(t, n) == (t + n) % PoolSize

QueueRec ==
  [listhead : Slots, listtail : Slots, listcount : 0..PoolSize,
   mbxticket : [Slots -> Slots \cup {-1}], mbx : [Slots -> Buffers \cup {Null}],
   mbxslave : [Slots -> Slaves], mbxstate : [Slots -> {"NONE", "REQ", "FAIL", "DONE"}],
   mbxremove : [Slots -> BOOLEAN]]

Waits(c) == call[c].pc = "wait"
Unsent(i) == queue.mbxstate[i] \in {"REQ", "FAIL"}

(* Tickets and entries belong to each other and to a waiting thread; an    *)
(* entry that nobody waits for is to be removed.  What is not sent yet is  *)
(* in a buffer.                                                            *)
TicketsOk ==
  /\ \A c \in Slaves : Waits(c) =>
       /\ call[c].ticket \in Slots /\ Entry(c) \in Live
       /\ queue.mbxslave[Entry(c)] = c /\ ~queue.mbxremove[Entry(c)]
  /\ \A k \in Slots : queue.mbxticket[k] \in Slots =>
       \E c \in Slaves : Waits(c) /\ call[c].ticket = k
  /\ \A i \in Live : /\ queue.mbxremove[i] \/ \E c \in Slaves : Waits(c) /\ Entry(c) = i
                     /\ queue.mbxstate[i] # "NONE"
  /\ \A i \in Live : Unsent(i) => queue.mbx[i] \in Buffers
  /\ \A c \in Slaves : call[c].pc = "add" => call[c].out \in Buffers

(* Where the handler is.  After a rotation it looks at the old place of    *)
(* the entry, which is free, or was taken by a request that nobody has     *)
(* sent or let go of since.                                                *)
HandlerOk ==
  /\ hnd.pc \in {"in", "store", "flag"} => hnd.limit >= 0 /\ (hnd.left > 0 => hnd.limit >= 1)
  /\ hnd.pc \in {"out", "rotate", "check"} => hnd.left <= queue.listcount
  /\ hnd.pc \in {"rotate", "check"} => hnd.left > 0
  /\ hnd.pc = "rotate" => hnd.ticketloc = queue.listtail
  /\ hnd.pc = "check" /\ hnd.ticketloc # queue.listtail =>
       /\ ~queue.mbxremove[hnd.ticketloc]
       /\ hnd.ticketloc \in Live => queue.mbxstate[hnd.ticketloc] = "REQ"

QueueInv ==
  /\ TypeOK /\ queue \in QueueRec
  /\ HeadAt(queue.listtail, queue.listcount) = queue.listhead
  /\ TicketsOk /\ HandlerOk

-----------------------------------------------------------------------------
(* A buffer has one holder, at most.                                       *)
OwnInv == \A b \in Buffers : \A x, y \in Holders(b) : x = y

-----------------------------------------------------------------------------
(* What the buffers hold: a place's distance from the tail is its turn,    *)
(* and the requests to a slave are in the order of its calls.              *)
Pos(i) == PosAt(queue.listtail, i)
Num(i) == data[queue.mbx[i]].call

Sent(c) == call[c].pc \in {"recv", "took"} \/ (Waits(c) /\ queue.mbxstate[Entry(c)] = "DONE")

RequestsOk ==
  /\ \A c \in Slaves : call[c].pc = "add" => data[call[c].out] = Me(c)
  /\ \A c \in Slaves : Waits(c) /\ Unsent(Entry(c)) => data[queue.mbx[Entry(c)]] = Me(c)

OrderOk ==
  /\ \A i, j \in Live : Unsent(i) /\ Unsent(j) /\ queue.mbxslave[i] = queue.mbxslave[j] =>
       (Pos(i) < Pos(j) => Num(i) < Num(j))
  /\ \A i \in Live : Unsent(i) =>
       LET s == queue.mbxslave[i] IN
       /\ dev[s].seen <= Num(i) /\ dev[s].in.call <= Num(i) /\ Num(i) <= call[s].n
       /\ call[s].pc \in {"drained", "get", "add"} => Num(i) < call[s].n

DeviceOk ==
  \A s \in Slaves :
    /\ dev[s].in # None => dev[s].seen <= dev[s].in.call
    /\ dev[s].in.call <= call[s].n /\ dev[s].seen <= call[s].n

DeliveredOk ==
  \A c \in Slaves : Sent(c) =>
    /\ dev[c].in = Me(c) \/ (dev[c].in = None /\ dev[c].seen = call[c].n)
    /\ \A i \in Live : queue.mbxslave[i] = c => queue.mbxstate[i] = "DONE"

ContentInv == RequestsOk /\ OrderOk /\ DeviceOk /\ DeliveredOk

-----------------------------------------------------------------------------
(* The robust mailbox protocol: while it runs, or an answer is there, the  *)
(* last answer has not been read.                                          *)
RmpInv ==
  \A s \in Slaves :
    /\ taken[s] <= dev[s].seen
    /\ dev[s].full \/ rmp[s].state # 0 => taken[s] < dev[s].seen
    /\ rmp[s].state \in {0, 1} => dev[s].req = dev[s].ack
    /\ rmp[s].state = 3 => dev[s].req = rmp[s].toggle
-----------------------------------------------------------------------------
(* The types of the records, by name.                                      *)
CallRec == [pc : {"idle", "drained", "get", "add", "wait", "recv", "took"},
            n : Nat, out : Buffers \cup {Null}, in : Buffers \cup {Null}, ticket : Slots \cup {-1}]
HndRec == [pc : {"in", "store", "flag", "out", "rotate", "check"},
           left : 0..(NumSlaves + PoolSize), limit : -1..Limit,
           lastmbxpos : Slaves, mbx : Buffers \cup {Null}, ticketloc : Slots]
RmpRec == [state : 0..3, toggle : BOOLEAN]
DevRec == [in : Messages, seen : Nat, full : BOOLEAN, req : BOOLEAN, ack : BOOLEAN]
InboxRec == [coembxin : Buffers \cup {Null}, full : BOOLEAN]

(* The type invariant with its records named.                              *)
Typed ==
  /\ free \subseteq Buffers /\ data \in [Buffers -> Messages] /\ queue \in QueueRec
  /\ inbox \in [Slaves -> InboxRec] /\ call \in [Slaves -> CallRec] /\ hnd \in HndRec
  /\ rmp \in [Slaves -> RmpRec] /\ dev \in [Slaves -> DevRec]
  /\ taken \in [Slaves -> Nat] /\ lost \in 0..MaxLost

(* It says the same.                                                       *)
LEMMA TypedIs == TypeOK /\ queue \in QueueRec <=> Typed
<1>1. queue \in QueueRec =>
        /\ queue.listhead \in Slots /\ queue.listtail \in Slots /\ queue.listcount \in 0..PoolSize
        /\ queue.mbxticket \in [Slots -> Slots \cup {-1}]
        /\ queue.mbx \in [Slots -> Buffers \cup {Null}] /\ queue.mbxslave \in [Slots -> Slaves]
        /\ queue.mbxstate \in [Slots -> {"NONE", "REQ", "FAIL", "DONE"}]
        /\ queue.mbxremove \in [Slots -> BOOLEAN]
  BY DEF QueueRec
<1> QED BY <1>1 DEF TypeOK, Typed, CallRec, HndRec, RmpRec, DevRec, InboxRec

(* The pool has a size, and its places are numbers.                        *)
LEMMA PoolHasSize == PoolSize \in Nat \ {0} /\ 0 \in Slots
<1>1. PoolSize \in Nat
  BY MailboxAssumption, FS_CardinalityType DEF PoolSize
<1>2. PoolSize # 0
  BY MailboxAssumption, FS_EmptySet DEF PoolSize
<1> QED BY <1>1, <1>2 DEF Slots

-----------------------------------------------------------------------------
(* Arithmetic of the ring.                                                 *)
LiveAt(t, n) == {i \in Slots : PosAt(t, i) < n}

(* The distance from the tail, without the remainder.                      *)
LEMMA Turns ==
  ASSUME NEW t \in Slots, NEW i \in Slots
  PROVE  PosAt(t, i) = IF t <= i THEN i - t ELSE i + PoolSize - t
BY PoolHasSize DEF Slots, PosAt

(* The next place, without the remainder.                                  *)
LEMMA Incremented ==
  ASSUME NEW t \in Slots
  PROVE  Inc(t) \in Slots /\ Inc(t) = IF t + 1 = PoolSize THEN 0 ELSE t + 1
BY PoolHasSize DEF Slots, Inc

(* The place of the head, without the remainder.                           *)
LEMMA Wrapped ==
  ASSUME NEW t \in Slots, NEW n \in 0..PoolSize
  PROVE  /\ HeadAt(t, n) \in Slots
         /\ HeadAt(t, n) = IF t + n < PoolSize THEN t + n ELSE t + n - PoolSize
BY PoolHasSize DEF Slots, HeadAt

(* An entry is added at the head.                                          *)
LEMMA RingAdd ==
  ASSUME NEW t \in Slots, NEW n \in 0..PoolSize, n < PoolSize, NEW h, h = HeadAt(t, n)
  PROVE  /\ LiveAt(t, n + 1) = LiveAt(t, n) \cup {h} /\ h \notin LiveAt(t, n) /\ h \in Slots
         /\ HeadAt(t, n + 1) = Inc(h)
         /\ PosAt(t, h) = n
<1>0. PoolSize \in Nat \ {0} /\ t \in 0..(PoolSize - 1) /\ n \in 0..(PoolSize - 1)
  BY PoolHasSize DEF Slots
<1>1. h \in Slots /\ h = IF t + n < PoolSize THEN t + n ELSE t + n - PoolSize
  BY Wrapped
<1>2. \A i \in Slots : PosAt(t, i) = IF t <= i THEN i - t ELSE i + PoolSize - t
  BY Turns
<1>3. HeadAt(t, n + 1) = Inc(h)
  <2>1. n + 1 \in 0..PoolSize
    BY <1>0
  <2>2. HeadAt(t, n + 1) = IF t + (n + 1) < PoolSize THEN t + (n + 1) ELSE t + (n + 1) - PoolSize
    BY <2>1, Wrapped
  <2>3. Inc(h) = IF h + 1 = PoolSize THEN 0 ELSE h + 1
    BY <1>1, Incremented
  <2> QED BY <1>0, <1>1, <2>2, <2>3
<1>4. PosAt(t, h) = n
  BY <1>0, <1>1, <1>2
<1>5. \A i \in Slots : (IF t <= i THEN i - t ELSE i + PoolSize - t) < n + 1
                         <=> ((IF t <= i THEN i - t ELSE i + PoolSize - t) < n \/ i = h)
  BY <1>0, <1>1 DEF Slots
<1>6. \A i \in Slots : PosAt(t, i) < n + 1 <=> (PosAt(t, i) < n \/ i = h)
  BY <1>2, <1>5
<1>7. h \notin LiveAt(t, n)
  BY <1>0, <1>4 DEF LiveAt
<1>8. LiveAt(t, n + 1) = LiveAt(t, n) \cup {h}
  BY <1>1, <1>6 DEF LiveAt
<1> QED BY <1>1, <1>3, <1>4, <1>7, <1>8

(* The entry at the tail is dropped.                                       *)
LEMMA RingDrop ==
  ASSUME NEW t \in Slots, NEW n \in 0..PoolSize, n > 0
  PROVE  /\ LiveAt(Inc(t), n - 1) = LiveAt(t, n) \ {t} /\ t \in LiveAt(t, n)
         /\ HeadAt(Inc(t), n - 1) = HeadAt(t, n)
         /\ PosAt(t, t) = 0
         /\ \A i \in Slots \ {t} : PosAt(Inc(t), i) = PosAt(t, i) - 1
<1>0. PoolSize \in Nat \ {0} /\ t \in 0..(PoolSize - 1) /\ n \in 1..PoolSize
  BY PoolHasSize DEF Slots
<1>1. Inc(t) \in Slots /\ Inc(t) = IF t + 1 = PoolSize THEN 0 ELSE t + 1
  BY Incremented
<1>2. \A i \in Slots : PosAt(t, i) = IF t <= i THEN i - t ELSE i + PoolSize - t
  BY Turns
<1>3. \A i \in Slots : PosAt(Inc(t), i)
                         = IF Inc(t) <= i THEN i - Inc(t) ELSE i + PoolSize - Inc(t)
  BY <1>1, Turns
<1>4. HeadAt(Inc(t), n - 1) = HeadAt(t, n)
  <2>1. n - 1 \in 0..PoolSize
    BY <1>0
  <2>2. /\ HeadAt(t, n) = IF t + n < PoolSize THEN t + n ELSE t + n - PoolSize
        /\ HeadAt(Inc(t), n - 1) = IF Inc(t) + (n - 1) < PoolSize THEN Inc(t) + (n - 1)
                                   ELSE Inc(t) + (n - 1) - PoolSize
    BY <1>1, <2>1, Wrapped
  <2> QED BY <1>0, <1>1, <2>2
<1>5. \A i \in Slots \ {t} : PosAt(Inc(t), i) = PosAt(t, i) - 1
  BY <1>0, <1>1, <1>2, <1>3 DEF Slots
<1>6. PosAt(t, t) = 0
  BY <1>0, <1>2
<1>7. PosAt(Inc(t), t) = PoolSize - 1
  BY <1>0, <1>1, <1>3 DEF Slots
<1>8. \A i \in Slots : PosAt(Inc(t), i) < n - 1
                         <=> (PosAt(t, i) < n /\ i # t)
  <2> SUFFICES ASSUME NEW i \in Slots
               PROVE  PosAt(Inc(t), i) < n - 1
                         <=> (PosAt(t, i) < n /\ i # t)
    OBVIOUS
  <2>1. CASE i = t
    BY <1>0, <1>7, <2>1
  <2>2. CASE i # t
    <3>1. PosAt(t, i) \in Int
      BY <1>0, <1>2 DEF Slots
    <3> QED BY <1>0, <1>5, <2>2, <3>1
  <2> QED BY <2>1, <2>2
<1> QED BY <1>0, <1>4, <1>5, <1>6, <1>8 DEF LiveAt

(* The entry at the tail goes to the head, in a queue that is not full.    *)
LEMMA RingRotate ==
  ASSUME NEW t \in Slots, NEW n \in 0..PoolSize, n > 0, NEW h, h = HeadAt(t, n), h # t
  PROVE  /\ n < PoolSize /\ h \in Slots /\ h \notin LiveAt(t, n) /\ t \in LiveAt(t, n)
         /\ LiveAt(Inc(t), n) = (LiveAt(t, n) \ {t}) \cup {h}
         /\ HeadAt(Inc(t), n) = Inc(h)
         /\ PosAt(Inc(t), h) = n - 1
<1>0. PoolSize \in Nat \ {0} /\ t \in 0..(PoolSize - 1) /\ n \in 1..PoolSize
  BY PoolHasSize DEF Slots
<1>1. h \in Slots /\ n < PoolSize
  <2>1. h \in Slots /\ h = IF t + n < PoolSize THEN t + n ELSE t + n - PoolSize
    BY Wrapped
  <2> QED BY <1>0, <2>1
<1>2. Inc(t) \in Slots /\ n - 1 \in 0..PoolSize /\ n - 1 < PoolSize
  BY <1>0, Incremented
<1>3. /\ LiveAt(Inc(t), n - 1) = LiveAt(t, n) \ {t} /\ t \in LiveAt(t, n)
      /\ HeadAt(Inc(t), n - 1) = HeadAt(t, n)
  BY RingDrop
<1>4. /\ LiveAt(Inc(t), (n - 1) + 1) = LiveAt(Inc(t), n - 1) \cup {h}
      /\ HeadAt(Inc(t), (n - 1) + 1) = Inc(h)
      /\ PosAt(Inc(t), h) = n - 1
  BY <1>2, <1>3, RingAdd
<1>5. (n - 1) + 1 = n
  BY <1>0
<1>6. h \notin LiveAt(t, n)
  BY <1>1, RingAdd
<1> QED BY <1>1, <1>3, <1>4, <1>5, <1>6
-----------------------------------------------------------------------------
(* What a step of a thread leaves in its record.                           *)
CallSet(c, p, n, o, i, k) ==
  /\ call' \in [Slaves -> CallRec]
  /\ call'[c].pc = p /\ call'[c].n = n /\ call'[c].out = o /\ call'[c].in = i /\ call'[c].ticket = k
  /\ \A d \in Slaves \ {c} : call'[d] = call[d]

(* A thread's record is replaced by another of its type.                   *)
LEMMA CallIsSet ==
  ASSUME Typed, NEW c \in Slaves, NEW p, NEW n \in Nat, NEW o \in Buffers \cup {Null},
         NEW i \in Buffers \cup {Null}, NEW k \in Slots \cup {-1},
         p \in {"idle", "drained", "get", "add", "wait", "recv", "took"},
         call' = [call EXCEPT ![c] = [pc |-> p, n |-> n, out |-> o, in |-> i, ticket |-> k]]
  PROVE  CallSet(c, p, n, o, i, k)
<1>1. PICK r : r = [pc |-> p, n |-> n, out |-> o, in |-> i, ticket |-> k]
  OBVIOUS
<1>2. r \in CallRec
  BY <1>1 DEF CallRec
<1>3. call' = [call EXCEPT ![c] = r] /\ call \in [Slaves -> CallRec]
  BY <1>1 DEF Typed
<1> QED BY <1>1, <1>2, <1>3 DEF CallSet

(* A call begins, with an old answer to take or without.                   *)
LEMMA StartSets ==
  ASSUME Typed, NEW c \in Slaves, Start(c)
  PROVE  \/ /\ inbox[c].full /\ inbox' = TakeMbx(c)
            /\ CallSet(c, "drained", call[c].n + 1, call[c].out, inbox[c].coembxin, call[c].ticket)
         \/ /\ inbox' = inbox
            /\ CallSet(c, "get", call[c].n + 1, call[c].out, call[c].in, call[c].ticket)
<1>1. call \in [Slaves -> CallRec] /\ inbox[c].coembxin \in Buffers \cup {Null}
  BY DEF Typed, InboxRec
<1>2. call[c].n + 1 \in Nat /\ call[c].out \in Buffers \cup {Null} /\ call[c].in \in Buffers \cup {Null}
      /\ call[c].ticket \in Slots \cup {-1}
  BY <1>1 DEF CallRec
<1>3. CASE inbox[c].full
  <2>1. call' = [call EXCEPT ![c] = [pc |-> "drained", n |-> call[c].n + 1, out |-> call[c].out,
                                     in |-> inbox[c].coembxin, ticket |-> call[c].ticket]]
    BY <1>1, <1>3 DEF Start, CallRec
  <2> QED BY <1>1, <1>2, <1>3, <2>1, CallIsSet DEF Start
<1>4. CASE ~inbox[c].full
  <2>1. call' = [call EXCEPT ![c] = [pc |-> "get", n |-> call[c].n + 1, out |-> call[c].out,
                                     in |-> call[c].in, ticket |-> call[c].ticket]]
    BY <1>1, <1>4 DEF Start, CallRec
  <2> QED BY <1>1, <1>2, <1>4, <2>1, CallIsSet DEF Start
<1> QED BY <1>3, <1>4

(* The other steps of a thread, and the two that pick something.           *)
LEMMA CallerSets ==
  ASSUME Typed, NEW c \in Slaves
  PROVE  /\ Receive(c) => CallSet(c, "took", call[c].n, call[c].out, inbox[c].coembxin, call[c].ticket)
         /\ Drained(c) => CallSet(c, "get", call[c].n, call[c].out, call[c].in, call[c].ticket)
         /\ Return(c) => CallSet(c, "idle", call[c].n, call[c].out, Null, call[c].ticket)
         /\ ReceiveNone(c) => CallSet(c, "idle", call[c].n, call[c].out, call[c].in, call[c].ticket)
         /\ NoMbx(c) => CallSet(c, "idle", call[c].n, call[c].out, Null, call[c].ticket)
         /\ AddFails(c) => CallSet(c, "idle", call[c].n, Null, Null, call[c].ticket)
         /\ DoneQueue(c) => CallSet(c, "recv", call[c].n, call[c].out, Null, -1)
         /\ ExpireQueue(c) => CallSet(c, "idle", call[c].n, call[c].out, Null, -1)
<1>1. call \in [Slaves -> CallRec] /\ inbox[c].coembxin \in Buffers \cup {Null}
  BY DEF Typed, InboxRec
<1>2. /\ call[c].n \in Nat /\ call[c].out \in Buffers \cup {Null} /\ call[c].in \in Buffers \cup {Null}
      /\ call[c].ticket \in Slots \cup {-1} /\ -1 \in Slots \cup {-1} /\ Null \in Buffers \cup {Null}
  BY <1>1 DEF CallRec
<1>3. ASSUME Receive(c) PROVE CallSet(c, "took", call[c].n, call[c].out, inbox[c].coembxin, call[c].ticket)
  <2>1. PICK r : r = [call[c] EXCEPT !.pc = "took", !.in = inbox[c].coembxin]
    OBVIOUS
  <2>2. call' = [call EXCEPT ![c] = r]
    BY <1>1, <1>3, <2>1 DEF Receive
  <2>3. r = [pc |-> "took", n |-> call[c].n, out |-> call[c].out, in |-> inbox[c].coembxin, ticket |-> call[c].ticket]
    BY <1>1, <2>1 DEF CallRec
  <2>4. call' = [call EXCEPT ![c] = [pc |-> "took", n |-> call[c].n, out |-> call[c].out, in |-> inbox[c].coembxin,
                                     ticket |-> call[c].ticket]]
    BY <2>2, <2>3
  <2> QED BY <1>1, <1>2, <2>4, CallIsSet
<1>4. ASSUME Drained(c) PROVE CallSet(c, "get", call[c].n, call[c].out, call[c].in, call[c].ticket)
  <2>1. PICK r : r = [call[c] EXCEPT !.pc = "get"]
    OBVIOUS
  <2>2. call' = [call EXCEPT ![c] = r]
    BY <1>1, <1>4, <2>1 DEF Drained
  <2>3. r = [pc |-> "get", n |-> call[c].n, out |-> call[c].out, in |-> call[c].in, ticket |-> call[c].ticket]
    BY <1>1, <2>1 DEF CallRec
  <2>4. call' = [call EXCEPT ![c] = [pc |-> "get", n |-> call[c].n, out |-> call[c].out, in |-> call[c].in,
                                     ticket |-> call[c].ticket]]
    BY <2>2, <2>3
  <2> QED BY <1>1, <1>2, <2>4, CallIsSet
<1>5. ASSUME Return(c) PROVE CallSet(c, "idle", call[c].n, call[c].out, Null, call[c].ticket)
  <2>1. PICK r : r = [call[c] EXCEPT !.pc = "idle", !.in = Null]
    OBVIOUS
  <2>2. call' = [call EXCEPT ![c] = r]
    BY <1>1, <1>5, <2>1 DEF Return
  <2>3. r = [pc |-> "idle", n |-> call[c].n, out |-> call[c].out, in |-> Null, ticket |-> call[c].ticket]
    BY <1>1, <2>1 DEF CallRec
  <2>4. call' = [call EXCEPT ![c] = [pc |-> "idle", n |-> call[c].n, out |-> call[c].out, in |-> Null,
                                     ticket |-> call[c].ticket]]
    BY <2>2, <2>3
  <2> QED BY <1>1, <1>2, <2>4, CallIsSet
<1>6. ASSUME ReceiveNone(c) PROVE CallSet(c, "idle", call[c].n, call[c].out, call[c].in, call[c].ticket)
  <2>1. PICK r : r = [call[c] EXCEPT !.pc = "idle"]
    OBVIOUS
  <2>2. call' = [call EXCEPT ![c] = r]
    BY <1>1, <1>6, <2>1 DEF ReceiveNone
  <2>3. r = [pc |-> "idle", n |-> call[c].n, out |-> call[c].out, in |-> call[c].in, ticket |-> call[c].ticket]
    BY <1>1, <2>1 DEF CallRec
  <2>4. call' = [call EXCEPT ![c] = [pc |-> "idle", n |-> call[c].n, out |-> call[c].out, in |-> call[c].in,
                                     ticket |-> call[c].ticket]]
    BY <2>2, <2>3
  <2> QED BY <1>1, <1>2, <2>4, CallIsSet
<1>7. ASSUME NoMbx(c) PROVE CallSet(c, "idle", call[c].n, call[c].out, Null, call[c].ticket)
  <2>1. PICK r : r = [call[c] EXCEPT !.pc = "idle", !.in = Null]
    OBVIOUS
  <2>2. call' = [call EXCEPT ![c] = r]
    BY <1>1, <1>7, <2>1 DEF NoMbx
  <2>3. r = [pc |-> "idle", n |-> call[c].n, out |-> call[c].out, in |-> Null, ticket |-> call[c].ticket]
    BY <1>1, <2>1 DEF CallRec
  <2>4. call' = [call EXCEPT ![c] = [pc |-> "idle", n |-> call[c].n, out |-> call[c].out, in |-> Null,
                                     ticket |-> call[c].ticket]]
    BY <2>2, <2>3
  <2> QED BY <1>1, <1>2, <2>4, CallIsSet
<1>8. ASSUME AddFails(c) PROVE CallSet(c, "idle", call[c].n, Null, Null, call[c].ticket)
  <2>1. PICK r : r = [call[c] EXCEPT !.pc = "idle", !.out = Null, !.in = Null]
    OBVIOUS
  <2>2. call' = [call EXCEPT ![c] = r]
    BY <1>1, <1>8, <2>1 DEF AddFails
  <2>3. r = [pc |-> "idle", n |-> call[c].n, out |-> Null, in |-> Null, ticket |-> call[c].ticket]
    BY <1>1, <2>1 DEF CallRec
  <2>4. call' = [call EXCEPT ![c] = [pc |-> "idle", n |-> call[c].n, out |-> Null, in |-> Null,
                                     ticket |-> call[c].ticket]]
    BY <2>2, <2>3
  <2> QED BY <1>1, <1>2, <2>4, CallIsSet
<1>9. ASSUME DoneQueue(c) PROVE CallSet(c, "recv", call[c].n, call[c].out, Null, -1)
  <2>1. PICK r : r = [call[c] EXCEPT !.pc = "recv", !.in = Null, !.ticket = -1]
    OBVIOUS
  <2>2. call' = [call EXCEPT ![c] = r]
    BY <1>1, <1>9, <2>1 DEF DoneQueue
  <2>3. r = [pc |-> "recv", n |-> call[c].n, out |-> call[c].out, in |-> Null, ticket |-> -1]
    BY <1>1, <2>1 DEF CallRec
  <2>4. call' = [call EXCEPT ![c] = [pc |-> "recv", n |-> call[c].n, out |-> call[c].out, in |-> Null,
                                     ticket |-> -1]]
    BY <2>2, <2>3
  <2> QED BY <1>1, <1>2, <2>4, CallIsSet
<1>10. ASSUME ExpireQueue(c) PROVE CallSet(c, "idle", call[c].n, call[c].out, Null, -1)
  <2>1. PICK r : r = [call[c] EXCEPT !.pc = "idle", !.in = Null, !.ticket = -1]
    OBVIOUS
  <2>2. call' = [call EXCEPT ![c] = r]
    BY <1>1, <1>10, <2>1 DEF ExpireQueue
  <2>3. r = [pc |-> "idle", n |-> call[c].n, out |-> call[c].out, in |-> Null, ticket |-> -1]
    BY <1>1, <2>1 DEF CallRec
  <2>4. call' = [call EXCEPT ![c] = [pc |-> "idle", n |-> call[c].n, out |-> call[c].out, in |-> Null,
                                     ticket |-> -1]]
    BY <2>2, <2>3
  <2> QED BY <1>1, <1>2, <2>4, CallIsSet
<1> QED BY <1>3, <1>4, <1>5, <1>6, <1>7, <1>8, <1>9, <1>10

(* A buffer of the pool becomes the thread's request.                      *)
LEMMA GetMbxSets ==
  ASSUME Typed, NEW c \in Slaves, GetMbx(c)
  PROVE  \E b \in free : /\ free' = free \ {b} /\ data' = [data EXCEPT ![b] = Me(c)]
                         /\ CallSet(c, "add", call[c].n, b, call[c].in, call[c].ticket)
<1>1. PICK b \in free : /\ free' = free \ {b} /\ data' = [data EXCEPT ![b] = Me(c)]
                        /\ call' = [call EXCEPT ![c].pc = "add", ![c].out = b]
  BY DEF GetMbx
<1>2. call \in [Slaves -> CallRec] /\ b \in Buffers
  BY DEF Typed
<1>3. call[c].n \in Nat /\ call[c].in \in Buffers \cup {Null} /\ call[c].ticket \in Slots \cup {-1}
  BY <1>2 DEF CallRec
<1>4. call' = [call EXCEPT ![c] = [pc |-> "add", n |-> call[c].n, out |-> b, in |-> call[c].in,
                                   ticket |-> call[c].ticket]]
  <2>1. PICK r : r = [call[c] EXCEPT !.pc = "add", !.out = b]
    OBVIOUS
  <2>2. call' = [call EXCEPT ![c] = r]
    BY <1>1, <1>2, <2>1
  <2>3. r = [pc |-> "add", n |-> call[c].n, out |-> b, in |-> call[c].in, ticket |-> call[c].ticket]
    BY <1>2, <2>1 DEF CallRec
  <2> QED BY <2>2, <2>3
<1>5. CallSet(c, "add", call[c].n, b, call[c].in, call[c].ticket)
  BY <1>2, <1>3, <1>4, CallIsSet
<1> QED BY <1>1, <1>5

(* The fields of the queue after a step.                                   *)
QueueSet(h, t, n, tickets, mbxs, slaves, states, removes) ==
  /\ queue' \in QueueRec
  /\ queue'.listhead = h /\ queue'.listtail = t /\ queue'.listcount = n
  /\ queue'.mbxticket = tickets /\ queue'.mbx = mbxs /\ queue'.mbxslave = slaves
  /\ queue'.mbxstate = states /\ queue'.mbxremove = removes

(* The queue is replaced by another of its type.                           *)
LEMMA QueueIsSet ==
  ASSUME NEW h \in Slots, NEW t \in Slots, NEW n \in 0..PoolSize,
         NEW tickets \in [Slots -> Slots \cup {-1}], NEW mbxs \in [Slots -> Buffers \cup {Null}],
         NEW slaves \in [Slots -> Slaves], NEW states \in [Slots -> {"NONE", "REQ", "FAIL", "DONE"}],
         NEW removes \in [Slots -> BOOLEAN],
         queue' = [listhead |-> h, listtail |-> t, listcount |-> n, mbxticket |-> tickets, mbx |-> mbxs,
                   mbxslave |-> slaves, mbxstate |-> states, mbxremove |-> removes]
  PROVE  QueueSet(h, t, n, tickets, mbxs, slaves, states, removes)
BY DEF QueueSet, QueueRec

(* What the fields of the queue are.                                       *)
LEMMA QueueFields ==
  ASSUME Typed
  PROVE  /\ queue.listhead \in Slots /\ queue.listtail \in Slots /\ queue.listcount \in 0..PoolSize
         /\ queue.mbxticket \in [Slots -> Slots \cup {-1}]
         /\ queue.mbx \in [Slots -> Buffers \cup {Null}] /\ queue.mbxslave \in [Slots -> Slaves]
         /\ queue.mbxstate \in [Slots -> {"NONE", "REQ", "FAIL", "DONE"}]
         /\ queue.mbxremove \in [Slots -> BOOLEAN]
         /\ queue = [listhead |-> queue.listhead, listtail |-> queue.listtail, listcount |-> queue.listcount,
                     mbxticket |-> queue.mbxticket, mbx |-> queue.mbx, mbxslave |-> queue.mbxslave,
                     mbxstate |-> queue.mbxstate, mbxremove |-> queue.mbxremove]
BY DEF Typed, QueueRec

(* ecx_mbxaddqueue: the fields of the queue after it.                      *)
LEMMA AddQueueSets ==
  ASSUME Typed, NEW c \in Slaves, AddQueue(c)
  PROVE  \E k \in Slots :
           /\ queue.mbxticket[k] < 0
           /\ QueueSet(Inc(queue.listhead), queue.listtail, queue.listcount + 1,
                       [queue.mbxticket EXCEPT ![k] = queue.listhead],
                       [queue.mbx EXCEPT ![queue.listhead] = call[c].out],
                       [queue.mbxslave EXCEPT ![queue.listhead] = c],
                       [queue.mbxstate EXCEPT ![queue.listhead] = "REQ"],
                       [queue.mbxremove EXCEPT ![queue.listhead] = FALSE])
           /\ CallSet(c, "wait", call[c].n, Null, call[c].in, k)
<1>1. PICK k \in Slots :
        /\ queue.mbxticket[k] < 0
        /\ queue' = [queue EXCEPT !.mbxticket[k] = queue.listhead,
                                  !.mbxslave[queue.listhead] = c,
                                  !.mbx[queue.listhead] = call[c].out,
                                  !.mbxremove[queue.listhead] = FALSE,
                                  !.mbxstate[queue.listhead] = "REQ",
                                  !.listhead = Inc(@), !.listcount = @ + 1]
        /\ call' = [call EXCEPT ![c].pc = "wait", ![c].out = Null, ![c].ticket = k]
  BY DEF AddQueue, FreeTicket
<1>2. call \in [Slaves -> CallRec] /\ queue \in QueueRec
  BY DEF Typed
<1>3. call[c].n \in Nat /\ call[c].in \in Buffers \cup {Null} /\ call[c].out \in Buffers \cup {Null}
  BY <1>2 DEF CallRec
<1>4. CallSet(c, "wait", call[c].n, Null, call[c].in, k)
  <2>1. call' = [call EXCEPT ![c] = [pc |-> "wait", n |-> call[c].n, out |-> Null, in |-> call[c].in,
                                     ticket |-> k]]
    <3>1. PICK r : r = [call[c] EXCEPT !.pc = "wait", !.out = Null, !.ticket = k]
      OBVIOUS
    <3>2. call' = [call EXCEPT ![c] = r]
      BY <1>1, <1>2, <3>1
    <3>3. r = [pc |-> "wait", n |-> call[c].n, out |-> Null, in |-> call[c].in, ticket |-> k]
      BY <1>2, <3>1 DEF CallRec
    <3> QED BY <3>2, <3>3
  <2> QED BY <1>3, <2>1, CallIsSet
<1>5. queue.listcount + 1 \in 0..PoolSize /\ Inc(queue.listhead) \in Slots
  BY PoolHasSize, Incremented, QueueFields DEF AddQueue
<1>6. queue' = [listhead |-> Inc(queue.listhead), listtail |-> queue.listtail,
                listcount |-> queue.listcount + 1,
                mbxticket |-> [queue.mbxticket EXCEPT ![k] = queue.listhead],
                mbx |-> [queue.mbx EXCEPT ![queue.listhead] = call[c].out],
                mbxslave |-> [queue.mbxslave EXCEPT ![queue.listhead] = c],
                mbxstate |-> [queue.mbxstate EXCEPT ![queue.listhead] = "REQ"],
                mbxremove |-> [queue.mbxremove EXCEPT ![queue.listhead] = FALSE]]
  BY <1>1, QueueFields
<1>7. /\ [queue.mbxticket EXCEPT ![k] = queue.listhead] \in [Slots -> Slots \cup {-1}]
      /\ [queue.mbx EXCEPT ![queue.listhead] = call[c].out] \in [Slots -> Buffers \cup {Null}]
      /\ [queue.mbxslave EXCEPT ![queue.listhead] = c] \in [Slots -> Slaves]
      /\ [queue.mbxstate EXCEPT ![queue.listhead] = "REQ"] \in [Slots -> {"NONE", "REQ", "FAIL", "DONE"}]
      /\ [queue.mbxremove EXCEPT ![queue.listhead] = FALSE] \in [Slots -> BOOLEAN]
  BY <1>3, QueueFields
<1>8. QueueSet(Inc(queue.listhead), queue.listtail, queue.listcount + 1,
               [queue.mbxticket EXCEPT ![k] = queue.listhead],
               [queue.mbx EXCEPT ![queue.listhead] = call[c].out],
               [queue.mbxslave EXCEPT ![queue.listhead] = c],
               [queue.mbxstate EXCEPT ![queue.listhead] = "REQ"],
               [queue.mbxremove EXCEPT ![queue.listhead] = FALSE])
  BY <1>5, <1>6, <1>7, QueueFields, QueueIsSet
<1> QED BY <1>1, <1>4, <1>8

(* The queue after an entry was let go of.                                 *)
LEMMA LetGoSets ==
  ASSUME Typed, NEW c \in Slaves, call[c].ticket \in Slots, Entry(c) \in Slots, queue' = LetGo(c)
  PROVE  QueueSet(queue.listhead, queue.listtail, queue.listcount,
                  [queue.mbxticket EXCEPT ![call[c].ticket] = -1], queue.mbx, queue.mbxslave, queue.mbxstate,
                  [queue.mbxremove EXCEPT ![Entry(c)] = TRUE])
<1>1. queue' = [listhead |-> queue.listhead, listtail |-> queue.listtail, listcount |-> queue.listcount,
                mbxticket |-> [queue.mbxticket EXCEPT ![call[c].ticket] = -1], mbx |-> queue.mbx,
                mbxslave |-> queue.mbxslave, mbxstate |-> queue.mbxstate,
                mbxremove |-> [queue.mbxremove EXCEPT ![Entry(c)] = TRUE]]
  BY QueueFields DEF LetGo
<1>2. /\ [queue.mbxticket EXCEPT ![call[c].ticket] = -1] \in [Slots -> Slots \cup {-1}]
      /\ [queue.mbxremove EXCEPT ![Entry(c)] = TRUE] \in [Slots -> BOOLEAN]
  BY QueueFields
<1> QED BY <1>1, <1>2, QueueFields, QueueIsSet

(* The queue after its first request was sent.                             *)
LEMMA OutSentSets ==
  ASSUME Typed, NEW loc \in Slots,
         queue' = [queue EXCEPT !.mbxstate[loc] = "DONE", !.mbx[loc] = Null]
  PROVE  QueueSet(queue.listhead, queue.listtail, queue.listcount, queue.mbxticket,
                  [queue.mbx EXCEPT ![loc] = Null], queue.mbxslave,
                  [queue.mbxstate EXCEPT ![loc] = "DONE"], queue.mbxremove)
<1>1. queue' = [listhead |-> queue.listhead, listtail |-> queue.listtail, listcount |-> queue.listcount,
                mbxticket |-> queue.mbxticket, mbx |-> [queue.mbx EXCEPT ![loc] = Null],
                mbxslave |-> queue.mbxslave, mbxstate |-> [queue.mbxstate EXCEPT ![loc] = "DONE"],
                mbxremove |-> queue.mbxremove]
  BY QueueFields
<1>2. /\ [queue.mbx EXCEPT ![loc] = Null] \in [Slots -> Buffers \cup {Null}]
      /\ [queue.mbxstate EXCEPT ![loc] = "DONE"] \in [Slots -> {"NONE", "REQ", "FAIL", "DONE"}]
  BY QueueFields
<1> QED BY <1>1, <1>2, QueueFields, QueueIsSet

(* The queue after its first request failed.                               *)
LEMMA OutFailSets ==
  ASSUME Typed, NEW loc \in Slots, queue' = [queue EXCEPT !.mbxstate[loc] = "FAIL"]
  PROVE  QueueSet(queue.listhead, queue.listtail, queue.listcount, queue.mbxticket, queue.mbx,
                  queue.mbxslave, [queue.mbxstate EXCEPT ![loc] = "FAIL"], queue.mbxremove)
<1>1. queue' = [listhead |-> queue.listhead, listtail |-> queue.listtail, listcount |-> queue.listcount,
                mbxticket |-> queue.mbxticket, mbx |-> queue.mbx, mbxslave |-> queue.mbxslave,
                mbxstate |-> [queue.mbxstate EXCEPT ![loc] = "FAIL"], mbxremove |-> queue.mbxremove]
  BY QueueFields
<1>2. [queue.mbxstate EXCEPT ![loc] = "FAIL"] \in [Slots -> {"NONE", "REQ", "FAIL", "DONE"}]
  BY QueueFields
<1> QED BY <1>1, <1>2, QueueFields, QueueIsSet

(* The queue after its first entry has moved.                              *)
LEMMA RotatedSets ==
  ASSUME Typed, NEW k \in Slots, NEW h, NEW t, h = queue.listhead, t = queue.listtail, queue' = Rotated(k)
  PROVE  QueueSet(Inc(h), Inc(t), queue.listcount, [queue.mbxticket EXCEPT ![k] = h],
                  [queue.mbx EXCEPT ![h] = queue.mbx[t]],
                  [queue.mbxslave EXCEPT ![h] = queue.mbxslave[t]],
                  [queue.mbxstate EXCEPT ![h] = queue.mbxstate[t]],
                  [queue.mbxremove EXCEPT ![h] = queue.mbxremove[t]])
<1>1. queue' = [listhead |-> Inc(h), listtail |-> Inc(t), listcount |-> queue.listcount,
                mbxticket |-> [queue.mbxticket EXCEPT ![k] = h],
                mbx |-> [queue.mbx EXCEPT ![h] = queue.mbx[t]],
                mbxslave |-> [queue.mbxslave EXCEPT ![h] = queue.mbxslave[t]],
                mbxstate |-> [queue.mbxstate EXCEPT ![h] = queue.mbxstate[t]],
                mbxremove |-> [queue.mbxremove EXCEPT ![h] = queue.mbxremove[t]]]
  BY QueueFields DEF Rotated
<1>2. /\ [queue.mbxticket EXCEPT ![k] = h] \in [Slots -> Slots \cup {-1}]
      /\ [queue.mbx EXCEPT ![h] = queue.mbx[t]] \in [Slots -> Buffers \cup {Null}]
      /\ [queue.mbxslave EXCEPT ![h] = queue.mbxslave[t]] \in [Slots -> Slaves]
      /\ [queue.mbxstate EXCEPT ![h] = queue.mbxstate[t]] \in [Slots -> {"NONE", "REQ", "FAIL", "DONE"}]
      /\ [queue.mbxremove EXCEPT ![h] = queue.mbxremove[t]] \in [Slots -> BOOLEAN]
  BY QueueFields
<1>3. Inc(h) \in Slots /\ Inc(t) \in Slots
  BY QueueFields, Incremented
<1> QED BY <1>1, <1>2, <1>3, QueueFields, QueueIsSet

(* The queue after an entry was dropped.                                   *)
LEMMA CheckSets ==
  ASSUME Typed, NEW loc \in Slots, queue.listcount > 0,
         queue' = [queue EXCEPT !.mbxstate[loc] = "NONE", !.mbxremove[loc] = FALSE,
                                !.mbxslave[loc] = 0, !.mbx[loc] = Null,
                                !.listtail = Inc(@), !.listcount = @ - 1]
  PROVE  QueueSet(queue.listhead, Inc(queue.listtail), queue.listcount - 1, queue.mbxticket,
                  [queue.mbx EXCEPT ![loc] = Null], [queue.mbxslave EXCEPT ![loc] = 0],
                  [queue.mbxstate EXCEPT ![loc] = "NONE"], [queue.mbxremove EXCEPT ![loc] = FALSE])
<1>1. queue' = [listhead |-> queue.listhead, listtail |-> Inc(queue.listtail),
                listcount |-> queue.listcount - 1,
                mbxticket |-> queue.mbxticket, mbx |-> [queue.mbx EXCEPT ![loc] = Null],
                mbxslave |-> [queue.mbxslave EXCEPT ![loc] = 0],
                mbxstate |-> [queue.mbxstate EXCEPT ![loc] = "NONE"],
                mbxremove |-> [queue.mbxremove EXCEPT ![loc] = FALSE]]
  BY QueueFields
<1>0. 0 \in Slaves
  BY MailboxAssumption DEF Slaves
<1>2. /\ [queue.mbx EXCEPT ![loc] = Null] \in [Slots -> Buffers \cup {Null}]
      /\ [queue.mbxslave EXCEPT ![loc] = 0] \in [Slots -> Slaves]
      /\ [queue.mbxstate EXCEPT ![loc] = "NONE"] \in [Slots -> {"NONE", "REQ", "FAIL", "DONE"}]
      /\ [queue.mbxremove EXCEPT ![loc] = FALSE] \in [Slots -> BOOLEAN]
  BY <1>0, QueueFields
<1>3. Inc(queue.listtail) \in Slots /\ queue.listcount - 1 \in 0..PoolSize
  BY QueueFields, Incremented, PoolHasSize
<1> QED BY <1>1, <1>2, <1>3, QueueFields, QueueIsSet

(* The handler's record after a step.                                      *)
HndSet(p, l, m, s, b, i) ==
  /\ hnd' \in HndRec
  /\ hnd'.pc = p /\ hnd'.left = l /\ hnd'.limit = m /\ hnd'.lastmbxpos = s /\ hnd'.mbx = b
  /\ hnd'.ticketloc = i

(* The handler's record is replaced by another of its type.                *)
LEMMA HndIsSet ==
  ASSUME NEW p, p \in {"in", "store", "flag", "out", "rotate", "check"},
         NEW l \in 0..(NumSlaves + PoolSize), NEW m \in -1..Limit, NEW s \in Slaves,
         NEW b \in Buffers \cup {Null}, NEW i \in Slots,
         hnd' = [pc |-> p, left |-> l, limit |-> m, lastmbxpos |-> s, mbx |-> b, ticketloc |-> i]
  PROVE  HndSet(p, l, m, s, b, i)
BY DEF HndSet, HndRec

(* What the handler's fields are.                                          *)
LEMMA HndFields ==
  ASSUME Typed
  PROVE  /\ hnd.pc \in {"in", "store", "flag", "out", "rotate", "check"}
         /\ hnd.left \in 0..(NumSlaves + PoolSize) /\ hnd.limit \in -1..Limit /\ hnd.lastmbxpos \in Slaves
         /\ hnd.mbx \in Buffers \cup {Null} /\ hnd.ticketloc \in Slots
         /\ hnd = [pc |-> hnd.pc, left |-> hnd.left, limit |-> hnd.limit, lastmbxpos |-> hnd.lastmbxpos,
                   mbx |-> hnd.mbx, ticketloc |-> hnd.ticketloc]
BY DEF Typed, HndRec

(* The slave looked at next is one of the slaves.                          *)
LEMMA TurnIsSlave == ASSUME Typed PROVE Turn \in Slaves
<1>1. NumSlaves \in Nat \ {0} /\ hnd.lastmbxpos \in 0..(NumSlaves - 1)
  BY HndFields, MailboxAssumption DEF Slaves
<1> QED BY <1>1 DEF Turn, Slaves

(* ecx_mbxinhandler after a slave, with or without work done.              *)
LeftAfter(work) == IF work = 1 /\ hnd.limit <= 1 THEN 0 ELSE hnd.left - 1

(* The handler's record after a slave was looked at.                       *)
LEMMA VisitedSets ==
  ASSUME Typed, HandlerOk, hnd.pc = "in", hnd.left > 0, NEW work \in {0, 1}
  PROVE  /\ LeftAfter(work) \in 0..(NumSlaves + PoolSize) /\ hnd.limit - work \in 0..Limit
         /\ LeftAfter(work) > 0 => hnd.limit - work >= 1
         /\ hnd' = Visited(hnd, work) =>
              HndSet("in", LeftAfter(work), hnd.limit - work, Turn, hnd.mbx, hnd.ticketloc)
         /\ \A b \in Buffers : hnd' = [Visited(hnd, work) EXCEPT !.pc = "store", !.mbx = b] =>
              HndSet("store", LeftAfter(work), hnd.limit - work, Turn, b, hnd.ticketloc)
<1>0. hnd.limit >= 1 /\ Limit \in Nat /\ NumSlaves \in Nat /\ PoolSize \in Nat
  BY MailboxAssumption, PoolHasSize DEF HandlerOk
<1>1. /\ LeftAfter(work) \in 0..(NumSlaves + PoolSize) /\ hnd.limit - work \in 0..Limit
      /\ hnd.limit - work \in -1..Limit
      /\ LeftAfter(work) > 0 => hnd.limit - work >= 1
  BY <1>0, HndFields DEF LeftAfter
<1>2. PICK v : v = Visited(hnd, work)
  OBVIOUS
<1>3. v = [pc |-> "in", left |-> LeftAfter(work), limit |-> hnd.limit - work, lastmbxpos |-> Turn,
           mbx |-> hnd.mbx, ticketloc |-> hnd.ticketloc]
  BY <1>2, HndFields DEF Visited, LeftAfter
<1>4. ASSUME hnd' = v
      PROVE  HndSet("in", LeftAfter(work), hnd.limit - work, Turn, hnd.mbx, hnd.ticketloc)
  BY <1>1, <1>3, <1>4, HndFields, TurnIsSlave, HndIsSet
<1>5. ASSUME NEW b \in Buffers, hnd' = [v EXCEPT !.pc = "store", !.mbx = b]
      PROVE  HndSet("store", LeftAfter(work), hnd.limit - work, Turn, b, hnd.ticketloc)
  <2>1. hnd' = [pc |-> "store", left |-> LeftAfter(work), limit |-> hnd.limit - work, lastmbxpos |-> Turn,
                mbx |-> b, ticketloc |-> hnd.ticketloc]
    BY <1>3, <1>5
  <2> QED BY <1>1, <2>1, HndFields, TurnIsSlave, HndIsSet
<1> QED BY <1>1, <1>2, <1>4, <1>5

(* The handler's record after its other steps.                             *)
LEMMA HandlerSets ==
  ASSUME Typed, HandlerOk
  PROVE  /\ InStore => HndSet("flag", hnd.left, hnd.limit, hnd.lastmbxpos, hnd.mbx, hnd.ticketloc)
         /\ InDrop \/ InFlag => HndSet("in", hnd.left, hnd.limit, hnd.lastmbxpos, Null, hnd.ticketloc)
         /\ OutStart => HndSet("out", queue.listcount, hnd.limit, hnd.lastmbxpos, hnd.mbx, hnd.ticketloc)
         /\ OutTurn /\ hnd' = [hnd EXCEPT !.pc = "rotate", !.limit = @ - 1, !.ticketloc = queue.listtail] =>
              HndSet("rotate", hnd.left, hnd.limit - 1, hnd.lastmbxpos, hnd.mbx, queue.listtail)
         /\ OutDone => HndSet(IF queue.mbxstate[queue.listtail] = "NONE" THEN "check" ELSE "rotate",
                              hnd.left, hnd.limit, hnd.lastmbxpos, hnd.mbx, queue.listtail)
         /\ Rotate => HndSet("check", hnd.left, hnd.limit, hnd.lastmbxpos, hnd.mbx, hnd.ticketloc)
         /\ Check => HndSet("out", hnd.left - 1, hnd.limit, hnd.lastmbxpos, hnd.mbx, 0)
         /\ Cycle => HndSet("in", NumSlaves, Limit, hnd.lastmbxpos, hnd.mbx, hnd.ticketloc)
<1>0. /\ Limit \in Nat \ {0} /\ NumSlaves \in Nat \ {0} /\ PoolSize \in Nat \ {0} /\ 0 \in Slots
      /\ Null \in Buffers \cup {Null}
  BY MailboxAssumption, PoolHasSize
<1>1. ASSUME InStore
      PROVE  HndSet("flag", hnd.left, hnd.limit, hnd.lastmbxpos, hnd.mbx, hnd.ticketloc)
  <2>1. hnd' = [pc |-> "flag", left |-> hnd.left, limit |-> hnd.limit, lastmbxpos |-> hnd.lastmbxpos,
                mbx |-> hnd.mbx, ticketloc |-> hnd.ticketloc]
    BY <1>1, HndFields DEF InStore
  <2> QED BY <2>1, HndFields, HndIsSet
<1>2. ASSUME InDrop \/ InFlag
      PROVE  HndSet("in", hnd.left, hnd.limit, hnd.lastmbxpos, Null, hnd.ticketloc)
  <2>1. hnd' = [pc |-> "in", left |-> hnd.left, limit |-> hnd.limit, lastmbxpos |-> hnd.lastmbxpos,
                mbx |-> Null, ticketloc |-> hnd.ticketloc]
    BY <1>2, HndFields DEF InDrop, InFlag
  <2> QED BY <1>0, <2>1, HndFields, HndIsSet
<1>3. ASSUME OutStart
      PROVE  HndSet("out", queue.listcount, hnd.limit, hnd.lastmbxpos, hnd.mbx, hnd.ticketloc)
  <2>1. hnd' = [pc |-> "out", left |-> queue.listcount, limit |-> hnd.limit, lastmbxpos |-> hnd.lastmbxpos,
                mbx |-> hnd.mbx, ticketloc |-> hnd.ticketloc]
    BY <1>3, HndFields DEF OutStart
  <2>2. queue.listcount \in 0..(NumSlaves + PoolSize)
    BY <1>0, QueueFields
  <2> QED BY <2>1, <2>2, HndFields, HndIsSet
<1>4. ASSUME OutTurn, hnd' = [hnd EXCEPT !.pc = "rotate", !.limit = @ - 1, !.ticketloc = queue.listtail]
      PROVE  HndSet("rotate", hnd.left, hnd.limit - 1, hnd.lastmbxpos, hnd.mbx, queue.listtail)
  <2>1. hnd' = [pc |-> "rotate", left |-> hnd.left, limit |-> hnd.limit - 1, lastmbxpos |-> hnd.lastmbxpos,
                mbx |-> hnd.mbx, ticketloc |-> queue.listtail]
    BY <1>4, HndFields
  <2>2. hnd.limit - 1 \in -1..Limit
    BY <1>0, <1>4, HndFields DEF OutTurn
  <2> QED BY <2>1, <2>2, HndFields, QueueFields, HndIsSet
<1>5. ASSUME OutDone
      PROVE  HndSet(IF queue.mbxstate[queue.listtail] = "NONE" THEN "check" ELSE "rotate",
                    hnd.left, hnd.limit, hnd.lastmbxpos, hnd.mbx, queue.listtail)
  <2>1. PICK p : p = IF queue.mbxstate[queue.listtail] = "NONE" THEN "check" ELSE "rotate"
    OBVIOUS
  <2>2. hnd' = [pc |-> p, left |-> hnd.left, limit |-> hnd.limit, lastmbxpos |-> hnd.lastmbxpos,
                mbx |-> hnd.mbx, ticketloc |-> queue.listtail]
    BY <1>5, <2>1, HndFields DEF OutDone
  <2>3. p \in {"in", "store", "flag", "out", "rotate", "check"}
    BY <2>1
  <2>4. HndSet(p, hnd.left, hnd.limit, hnd.lastmbxpos, hnd.mbx, queue.listtail)
    BY <2>2, <2>3, HndFields, QueueFields, HndIsSet
  <2> QED BY <2>1, <2>4
<1>6. ASSUME Rotate
      PROVE  HndSet("check", hnd.left, hnd.limit, hnd.lastmbxpos, hnd.mbx, hnd.ticketloc)
  <2>1. hnd' = [pc |-> "check", left |-> hnd.left, limit |-> hnd.limit, lastmbxpos |-> hnd.lastmbxpos,
                mbx |-> hnd.mbx, ticketloc |-> hnd.ticketloc]
    BY <1>6, HndFields DEF Rotate
  <2> QED BY <2>1, HndFields, HndIsSet
<1>7. ASSUME Check
      PROVE  HndSet("out", hnd.left - 1, hnd.limit, hnd.lastmbxpos, hnd.mbx, 0)
  <2>1. hnd' = [pc |-> "out", left |-> hnd.left - 1, limit |-> hnd.limit, lastmbxpos |-> hnd.lastmbxpos,
                mbx |-> hnd.mbx, ticketloc |-> 0]
    BY <1>7, HndFields DEF Check
  <2>2. hnd.left - 1 \in 0..(NumSlaves + PoolSize)
    BY <1>0, <1>7, HndFields DEF Check, HandlerOk
  <2> QED BY <1>0, <2>1, <2>2, HndFields, HndIsSet
<1>8. ASSUME Cycle
      PROVE  HndSet("in", NumSlaves, Limit, hnd.lastmbxpos, hnd.mbx, hnd.ticketloc)
  <2>1. hnd' = [pc |-> "in", left |-> NumSlaves, limit |-> Limit, lastmbxpos |-> hnd.lastmbxpos,
                mbx |-> hnd.mbx, ticketloc |-> hnd.ticketloc]
    BY <1>8, HndFields DEF Cycle
  <2>2. NumSlaves \in 0..(NumSlaves + PoolSize) /\ Limit \in -1..Limit
    BY <1>0
  <2> QED BY <2>1, <2>2, HndFields, HndIsSet
<1> QED BY <1>1, <1>2, <1>3, <1>4, <1>5, <1>6, <1>7, <1>8
-----------------------------------------------------------------------------
(* Messages.                                                               *)
LEMMA MessageTypes ==
  ASSUME Typed
  PROVE  /\ None \in Messages /\ \A m \in Messages : m.call \in Nat
         /\ \A c \in Slaves : Me(c) \in Messages /\ Me(c) # None
         /\ \A s \in Slaves, n \in Nat : [slave |-> s, call |-> n] \in Messages
<1>1. \A c \in Slaves : call[c].n \in Nat /\ c # -1
  BY MailboxAssumption DEF Typed, CallRec, Slaves
<1> QED BY <1>1 DEF Messages, None, Me

(* Buffers given back.                                                     *)
LEMMA DropTypes ==
  ASSUME Typed
  PROVE  /\ \A l, x : l \subseteq Buffers /\ x \in Buffers \cup {Null} => Drop(l, x) \subseteq Buffers
         /\ \A bs : Cleared(bs) \in [Buffers -> Messages]
         /\ \A bs, b : b \in Buffers => Cleared(bs)[b] = IF b \in bs THEN None ELSE data[b]
         /\ \A l, x : Drop(l, x) = l \cup ({x} \ {Null})
<1>1. \A bs, b : b \in Buffers => (IF b \in bs THEN None ELSE data[b]) \in Messages
  BY MessageTypes DEF Typed
<1> QED BY <1>1 DEF Drop, Cleared, Typed

(* The entries are the places from the tail on.                            *)
LEMMA LiveIs == Live = LiveAt(queue.listtail, queue.listcount) /\ Live \subseteq Slots
BY DEF Live, LiveAt, PosAt

(* The same of the next state.                                             *)
LEMMA NextLiveIs == Live' = LiveAt(queue'.listtail, queue'.listcount)
BY DEF Live, LiveAt, PosAt

(* While ecx_mbxouthandler has entries to look at there is one at the tail.*)
LEMMA TailIsLive ==
  ASSUME Typed, HandlerOk, hnd.pc \in {"out", "rotate", "check"}, hnd.left > 0
  PROVE  queue.listcount > 0 /\ queue.listtail \in Live /\ queue.listtail \in Slots
<1>1. queue.listcount > 0
  BY HndFields, QueueFields, MailboxAssumption, PoolHasSize DEF HandlerOk
<1> QED BY <1>1, QueueFields, RingDrop, LiveIs

(* The variables that a thread's step leaves alone, and the types of the   *)
(* pool and of coembxin after it.                                          *)
LEMMA CallerTypes ==
  ASSUME Typed, NEW c \in Slaves, Caller(c)
  PROVE  /\ free' \subseteq Buffers /\ data' \in [Buffers -> Messages] /\ inbox' \in [Slaves -> InboxRec]
         /\ hnd' = hnd /\ rmp' = rmp /\ dev' = dev /\ taken' = taken /\ lost' = lost
<1>0. /\ free \subseteq Buffers /\ data \in [Buffers -> Messages] /\ inbox \in [Slaves -> InboxRec]
      /\ call[c].in \in Buffers \cup {Null} /\ call[c].out \in Buffers \cup {Null} /\ Me(c) \in Messages
  BY MessageTypes DEF Typed, CallRec
<1>1. hnd' = hnd /\ rmp' = rmp /\ dev' = dev /\ taken' = taken /\ lost' = lost
  BY DEF Caller, Start, Receive, Drained, ReceiveNone, GetMbx, NoMbx, AddQueue, AddFails, DoneQueue,
         ExpireQueue, Return
<1>2. free' \subseteq Buffers /\ data' \in [Buffers -> Messages]
  <2>1. CASE GetMbx(c)
    BY <1>0, <2>1 DEF GetMbx
  <2>2. CASE AddFails(c)
    <3>1. Drop(free, call[c].out) \subseteq Buffers
      BY <1>0, DropTypes
    <3> QED BY <1>0, <2>2, <3>1, DropTypes DEF AddFails
  <2>3. CASE DoneQueue(c) \/ ExpireQueue(c) \/ Return(c)
    BY <1>0, <2>3, DropTypes DEF DoneQueue, ExpireQueue, Return
  <2>4. CASE UNCHANGED <<free, data>>
    BY <1>0, <2>4
  <2> QED BY <2>1, <2>2, <2>3, <2>4 DEF Caller, Start, Receive, Drained, ReceiveNone, NoMbx, AddQueue
<1>3. inbox' \in [Slaves -> InboxRec]
  <2>1. ASSUME inbox' = [inbox EXCEPT ![c].full = FALSE] PROVE inbox' \in [Slaves -> InboxRec]
    BY <1>0, <2>1 DEF InboxRec
  <2>2. ASSUME inbox' = TakeMbx(c) PROVE inbox' \in [Slaves -> InboxRec]
    BY <1>0, <2>2 DEF InboxRec, TakeMbx
  <2>3. inbox' = inbox \/ inbox' = TakeMbx(c) \/ inbox' = [inbox EXCEPT ![c].full = FALSE]
    BY DEF Caller, Start, Receive, Drained, ReceiveNone, GetMbx, NoMbx, AddQueue, AddFails, DoneQueue,
           ExpireQueue, Return
  <2> QED BY <1>0, <2>1, <2>2, <2>3
<1> QED BY <1>1, <1>2, <1>3

(* The same for a step of the handler.                                     *)
LEMMA HandlerTypes ==
  ASSUME Typed, HandlerOk, TicketsOk, Handler
  PROVE  /\ free' \subseteq Buffers /\ data' \in [Buffers -> Messages] /\ inbox' \in [Slaves -> InboxRec]
         /\ rmp' \in [Slaves -> RmpRec] /\ dev' \in [Slaves -> DevRec]
         /\ taken' \in [Slaves -> Nat] /\ lost' \in 0..MaxLost
         /\ call' = call
<1>0. /\ free \subseteq Buffers /\ data \in [Buffers -> Messages] /\ inbox \in [Slaves -> InboxRec]
      /\ rmp \in [Slaves -> RmpRec] /\ dev \in [Slaves -> DevRec]
      /\ taken \in [Slaves -> Nat] /\ lost \in 0..MaxLost /\ MaxLost \in Nat
      /\ hnd.lastmbxpos \in Slaves /\ hnd.mbx \in Buffers \cup {Null} /\ hnd.ticketloc \in Slots
      /\ Turn \in Slaves /\ dev[Turn].seen \in Nat
  BY MailboxAssumption, TurnIsSlave, HndFields DEF Typed, DevRec
<1>1. call' = call
  BY DEF Handler, RmpToggle, RmpAck, InLost, RmpWrite, OutFail, InSkip, InRead, InStore, InDrop, InFlag,
         OutStart, OutSent, OutHold, OutDone, Rotate, Check, Cycle
<1>2. lost' \in 0..MaxLost
  <2>1. ASSUME NEW ok \in BOOLEAN, Carried(ok) PROVE lost' \in 0..MaxLost
    BY <1>0, <2>1 DEF Carried
  <2>2. lost' = lost \/ \E ok \in BOOLEAN : Carried(ok)
    BY DEF Handler, RmpToggle, RmpAck, InLost, RmpWrite, OutFail, InSkip, InRead, InStore, InDrop, InFlag,
         OutStart, OutSent, OutHold, OutDone, Rotate, Check, Cycle
  <2> QED BY <1>0, <2>1, <2>2
<1>3. inbox' \in [Slaves -> InboxRec]
  <2>1. \/ inbox' = inbox \/ inbox' = [inbox EXCEPT ![hnd.lastmbxpos].coembxin = hnd.mbx]
        \/ inbox' = [inbox EXCEPT ![hnd.lastmbxpos].full = TRUE]
    BY DEF Handler, RmpToggle, RmpAck, InLost, RmpWrite, OutFail, InSkip, InRead, InStore, InDrop, InFlag,
         OutStart, OutSent, OutHold, OutDone, Rotate, Check, Cycle
  <2>2. ASSUME inbox' = [inbox EXCEPT ![hnd.lastmbxpos].coembxin = hnd.mbx]
        PROVE  inbox' \in [Slaves -> InboxRec]
    BY <1>0, <2>2 DEF InboxRec
  <2>3. ASSUME inbox' = [inbox EXCEPT ![hnd.lastmbxpos].full = TRUE] PROVE inbox' \in [Slaves -> InboxRec]
    BY <1>0, <2>3 DEF InboxRec
  <2> QED BY <1>0, <2>1, <2>2, <2>3
<1>4. rmp' \in [Slaves -> RmpRec]
  <2>1. CASE \E ok \in BOOLEAN : RmpToggle(ok)
    <3>1. PICK ok \in BOOLEAN : RmpToggle(ok)
      BY <2>1
    <3>2. PICK r : r = IF ok THEN [state |-> 2, toggle |-> ~dev[Turn].req] ELSE rmp[Turn]
      OBVIOUS
    <3>3. r \in RmpRec
      BY <1>0, <3>2 DEF RmpRec
    <3>4. rmp' = [rmp EXCEPT ![Turn] = r]
      BY <1>0, <3>1, <3>2 DEF RmpToggle
    <3> QED BY <1>0, <3>3, <3>4
  <2>2. ASSUME NEW st \in 0..3, rmp' = [rmp EXCEPT ![Turn].state = st] PROVE rmp' \in [Slaves -> RmpRec]
    BY <1>0, <2>2 DEF RmpRec
  <2>3. rmp[Turn].state \in 0..3
    BY <1>0 DEF RmpRec
  <2>4. CASE \E ok \in BOOLEAN : InLost(ok)
    BY <2>2, <2>4 DEF InLost
  <2>5. CASE \E arrives, ok \in BOOLEAN : RmpWrite(arrives, ok)
    <3>1. PICK arrives \in BOOLEAN, ok \in BOOLEAN : RmpWrite(arrives, ok)
      BY <2>5
    <3>2. PICK st : st = IF ok THEN 3 ELSE rmp[Turn].state
      OBVIOUS
    <3>3. rmp' = [rmp EXCEPT ![Turn].state = st] /\ st \in 0..3
      BY <1>0, <2>3, <3>1, <3>2 DEF RmpWrite
    <3> QED BY <2>2, <3>3
  <2>6. CASE \E ok \in BOOLEAN : RmpAck(ok)
    <3>1. PICK ok \in BOOLEAN : RmpAck(ok)
      BY <2>6
    <3>2. PICK st : st = IF ok /\ dev[Turn].ack = rmp[Turn].toggle THEN 0 ELSE rmp[Turn].state
      OBVIOUS
    <3>3. rmp' = [rmp EXCEPT ![Turn].state = st] /\ st \in 0..3
      BY <1>0, <2>3, <3>1, <3>2 DEF RmpAck
    <3> QED BY <2>2, <3>3
  <2>7. CASE rmp' = rmp
    BY <1>0, <2>7
  <2> QED BY <2>1, <2>4, <2>5, <2>6, <2>7
      DEF Handler, OutFail, InSkip, InRead, InStore, InDrop, InFlag, OutStart, OutSent, OutHold, OutDone,
          Rotate, Check, Cycle
<1>5. taken' \in [Slaves -> Nat]
  <2>1. taken' = taken \/ taken' = [taken EXCEPT ![Turn] = dev[Turn].seen]
    BY DEF Handler, RmpToggle, RmpAck, InLost, RmpWrite, OutFail, InSkip, InRead, InStore, InDrop, InFlag,
         OutStart, OutSent, OutHold, OutDone, Rotate, Check, Cycle
  <2> QED BY <1>0, <2>1
<1>6. free' \subseteq Buffers /\ data' \in [Buffers -> Messages]
  <2>1. CASE InRead
    <3>1. PICK b \in free : /\ free' = free \ {b}
                            /\ data' = [data EXCEPT ![b] = [slave |-> Turn, call |-> dev[Turn].seen]]
      BY <2>1 DEF InRead
    <3>2. [slave |-> Turn, call |-> dev[Turn].seen] \in Messages
      BY <1>0, MessageTypes
    <3> QED BY <1>0, <3>1, <3>2
  <2>2. CASE InDrop
    BY <1>0, <2>2, DropTypes DEF InDrop
  <2>3. ASSUME NEW i \in Slots, free' = Drop(free, queue.mbx[i]), data' = Cleared({queue.mbx[i]})
        PROVE  free' \subseteq Buffers /\ data' \in [Buffers -> Messages]
    BY <1>0, <2>3, DropTypes, QueueFields
  <2>4. CASE OutSent
    BY <2>3, <2>4, QueueFields DEF OutSent
  <2>5. CASE Check
    BY <1>0, <2>3, <2>5 DEF Check
  <2>6. CASE UNCHANGED <<free, data>>
    BY <1>0, <2>6
  <2> QED BY <2>1, <2>2, <2>4, <2>5, <2>6
      DEF Handler, RmpToggle, RmpAck, InLost, RmpWrite, OutFail, InSkip, InStore, InFlag, OutStart, OutHold,
          OutDone, Rotate, Cycle
<1>7. dev' \in [Slaves -> DevRec]
  <2>1. ASSUME NEW s \in Slaves, NEW m \in Messages, dev' = [dev EXCEPT ![s].in = m]
        PROVE  dev' \in [Slaves -> DevRec]
    BY <1>0, <2>1 DEF DevRec
  <2>2. ASSUME NEW b \in BOOLEAN, dev' = [dev EXCEPT ![Turn].full = b] PROVE dev' \in [Slaves -> DevRec]
    BY <1>0, <2>2 DEF DevRec
  <2>3. ASSUME NEW b \in BOOLEAN, dev' = [dev EXCEPT ![Turn].req = b] PROVE dev' \in [Slaves -> DevRec]
    BY <1>0, <2>3 DEF DevRec
  <2>4. CASE OutSent \/ \E arrives, ok \in BOOLEAN : OutFail(ok, arrives)
    <3>1. PICK loc : loc = queue.listtail
      OBVIOUS
    <3>2. PICK s : s = queue.mbxslave[loc]
      OBVIOUS
    <3>3. loc \in Live /\ loc \in Slots /\ queue.mbxstate[loc] \in {"REQ", "FAIL"}
      BY <2>4, <3>1, TailIsLive DEF OutSent, OutFail, OutTurn
    <3>4. queue.mbx[loc] \in Buffers /\ s \in Slaves
      BY <3>2, <3>3, QueueFields DEF TicketsOk, Unsent
    <3>5. data[queue.mbx[loc]] \in Messages /\ dev[s].in \in Messages
      BY <1>0, <3>4 DEF DevRec
    <3>6. CASE OutSent
      <4>1. dev' = [dev EXCEPT ![s].in = data[queue.mbx[loc]]]
        BY <3>1, <3>2, <3>6 DEF OutSent
      <4> QED BY <2>1, <3>4, <3>5, <4>1
    <3>7. ASSUME NEW arrives \in BOOLEAN, NEW ok \in BOOLEAN, OutFail(ok, arrives)
          PROVE  dev' \in [Slaves -> DevRec]
      <4>1. PICK m : m = IF arrives THEN data[queue.mbx[loc]] ELSE dev[s].in
        OBVIOUS
      <4>2. dev' = [dev EXCEPT ![s].in = m]
        BY <1>0, <3>1, <3>2, <3>4, <3>7, <4>1 DEF OutFail
      <4>3. m \in Messages
        BY <3>5, <4>1
      <4> QED BY <2>1, <3>4, <4>2, <4>3
    <3> QED BY <2>4, <3>6, <3>7
  <2>5. CASE InRead
    BY <2>2, <2>5 DEF InRead
  <2>6. CASE \E ok \in BOOLEAN : InLost(ok)
    <3>1. PICK ok \in BOOLEAN : InLost(ok)
      BY <2>6
    <3>2. (~ok) \in BOOLEAN
      OBVIOUS
    <3> QED BY <2>2, <3>1, <3>2 DEF InLost
  <2>7. CASE \E arrives, ok \in BOOLEAN : RmpWrite(arrives, ok)
    <3>1. PICK arrives \in BOOLEAN, ok \in BOOLEAN : RmpWrite(arrives, ok)
      BY <2>7
    <3>2. PICK b : b = IF arrives THEN rmp[Turn].toggle ELSE dev[Turn].req
      OBVIOUS
    <3>3. b \in BOOLEAN
      BY <1>0, <3>2 DEF RmpRec, DevRec
    <3>4. dev' = [dev EXCEPT ![Turn].req = b]
      BY <1>0, <3>1, <3>2 DEF RmpWrite
    <3> QED BY <2>3, <3>3, <3>4
  <2>8. CASE dev' = dev
    BY <1>0, <2>8
  <2> QED BY <2>4, <2>5, <2>6, <2>7, <2>8
      DEF Handler, RmpToggle, RmpAck, InSkip, InStore, InDrop, InFlag, OutStart, OutHold, OutDone,
          Rotate, Check, Cycle
<1> QED BY <1>1, <1>2, <1>3, <1>4, <1>5, <1>6, <1>7

(* The same for a step of a device.                                        *)
LEMMA DeviceTypes ==
  ASSUME Typed, NEW s \in Slaves, Device(s)
  PROVE  /\ dev' \in [Slaves -> DevRec]
         /\ UNCHANGED <<free, data, queue, inbox, call, hnd, rmp, taken, lost>>
<1>0. dev \in [Slaves -> DevRec] /\ dev[s] \in DevRec
  BY DEF Typed
<1>1. CASE DevExecute(s)
  <2>1. PICK n : n = dev[s].in.call
    OBVIOUS
  <2>2. PICK b : b = (n # dev[s].seen)
    OBVIOUS
  <2>3. n \in Nat /\ b \in BOOLEAN /\ None \in Messages
    BY <1>0, <2>1, <2>2, MessageTypes DEF DevRec
  <2>4. PICK r : r = [dev[s] EXCEPT !.in = None, !.seen = n, !.full = b]
    OBVIOUS
  <2>5. r = [in |-> None, seen |-> n, full |-> b, req |-> dev[s].req, ack |-> dev[s].ack]
    BY <1>0, <2>4 DEF DevRec
  <2>6. r \in DevRec
    BY <1>0, <2>3, <2>5 DEF DevRec
  <2>7. dev' = [dev EXCEPT ![s] = r]
    BY <1>0, <1>1, <2>1, <2>2, <2>4 DEF DevExecute
  <2> QED BY <1>0, <1>1, <2>6, <2>7 DEF DevExecute
<1>2. CASE DevRepeat(s)
  <2>1. PICK r : r = [dev[s] EXCEPT !.ack = dev[s].req, !.full = TRUE]
    OBVIOUS
  <2>2. r = [in |-> dev[s].in, seen |-> dev[s].seen, full |-> TRUE, req |-> dev[s].req, ack |-> dev[s].req]
    BY <1>0, <2>1 DEF DevRec
  <2>3. r \in DevRec
    BY <1>0, <2>2 DEF DevRec
  <2>4. dev' = [dev EXCEPT ![s] = r]
    BY <1>0, <1>2, <2>1 DEF DevRepeat
  <2> QED BY <1>0, <1>2, <2>3, <2>4 DEF DevRepeat
<1> QED BY <1>1, <1>2 DEF Device

-----------------------------------------------------------------------------
(* A step that leaves the queue and those who wait alone.                  *)
LEMMA QueueStays ==
  ASSUME QueueInv, Typed', queue' = queue, HandlerOk',
         \A c \in Slaves : /\ call'[c].pc = "wait" <=> call[c].pc = "wait"
                           /\ Waits(c) => call'[c].ticket = call[c].ticket
                           /\ call'[c].pc = "add" => call'[c].out \in Buffers
  PROVE  QueueInv'
<1>1. Live' = Live
  BY LiveIs, NextLiveIs
<1>2. \A c \in Slaves : (Waits(c))' <=> Waits(c)
  BY DEF Waits
<1>3. \A c \in Slaves : Waits(c) => Entry(c)' = Entry(c)
  BY DEF Entry
<1>4. TicketsOk'
  <2>0. TicketsOk
    BY DEF QueueInv
  <2>1. ASSUME NEW c \in Slaves, (Waits(c))'
        PROVE  /\ call'[c].ticket \in Slots /\ Entry(c)' \in Live'
               /\ queue'.mbxslave[Entry(c)'] = c /\ ~queue'.mbxremove[Entry(c)']
    BY <1>1, <1>2, <1>3, <2>0, <2>1 DEF TicketsOk
  <2>2. ASSUME NEW k \in Slots, queue'.mbxticket[k] \in Slots
        PROVE  \E c \in Slaves : (Waits(c))' /\ call'[c].ticket = k
    BY <1>2, <2>0, <2>2 DEF TicketsOk
  <2>3. ASSUME NEW i \in Live'
        PROVE  /\ queue'.mbxremove[i] \/ \E c \in Slaves : (Waits(c))' /\ Entry(c)' = i
               /\ queue'.mbxstate[i] # "NONE"
    BY <1>1, <1>2, <1>3, <2>0, <2>3 DEF TicketsOk
  <2>4. ASSUME NEW i \in Live', Unsent(i)' PROVE queue'.mbx[i] \in Buffers
    BY <1>1, <2>0, <2>4 DEF TicketsOk, Unsent
  <2> QED BY <2>1, <2>2, <2>3, <2>4 DEF TicketsOk
<1>5. TypeOK' /\ (queue \in QueueRec)'
  BY TypedIs, PTL
<1> QED BY <1>4, <1>5 DEF QueueInv

(* QueueInv in the form in which it is used.                               *)
LEMMA QueueInvIs ==
  ASSUME QueueInv
  PROVE  /\ Typed /\ TicketsOk /\ HandlerOk
         /\ HeadAt(queue.listtail, queue.listcount) = queue.listhead
BY TypedIs DEF QueueInv

(* The steps of a thread outside the queue.                                *)
LEMMA CallerOutside ==
  ASSUME QueueInv, NEW c \in Slaves,
         \/ Start(c) \/ Receive(c) \/ Drained(c) \/ ReceiveNone(c) \/ GetMbx(c) \/ NoMbx(c)
         \/ AddFails(c) \/ Return(c)
  PROVE  QueueInv'
<1>0. Typed /\ TicketsOk /\ HandlerOk /\ Caller(c)
  BY QueueInvIs DEF Caller
<1>1. call' \in [Slaves -> CallRec] /\ \A d \in Slaves \ {c} : call'[d] = call[d]
  BY <1>0, StartSets, CallerSets, GetMbxSets DEF CallSet
<1>2. call[c].pc # "wait" /\ queue' = queue
  BY DEF Start, Receive, Drained, ReceiveNone, GetMbx, NoMbx, AddFails, Return
<1>3. call'[c].pc # "wait" /\ (call'[c].pc = "add" => call'[c].out \in Buffers)
  <2>1. CASE GetMbx(c)
    BY <1>0, <2>1, GetMbxSets DEF CallSet, Typed
  <2>2. CASE ~GetMbx(c)
    BY <1>0, <2>2, StartSets, CallerSets DEF CallSet
  <2> QED BY <2>1, <2>2
<1>4. Typed'
  BY <1>0, <1>1, <1>2, CallerTypes DEF Typed
<1>5. HandlerOk'
  <2>1. hnd' = hnd /\ Live' = Live
    BY <1>0, <1>2, CallerTypes, LiveIs, NextLiveIs
  <2> QED BY <1>0, <1>2, <2>1 DEF HandlerOk
<1>6. ASSUME NEW d \in Slaves
      PROVE  /\ call'[d].pc = "wait" <=> call[d].pc = "wait"
             /\ Waits(d) => call'[d].ticket = call[d].ticket
             /\ call'[d].pc = "add" => call'[d].out \in Buffers
  BY <1>0, <1>1, <1>2, <1>3 DEF TicketsOk, Waits
<1> QED BY <1>2, <1>4, <1>5, <1>6, QueueStays

(* A step that changes the queue keeps the parts of the invariant.         *)
LEMMA QueueAssembled ==
  ASSUME Typed', TicketsOk', HandlerOk', HeadAt(queue'.listtail, queue'.listcount) = queue'.listhead
  PROVE  QueueInv'
<1>1. TypeOK' /\ (queue \in QueueRec)'
  BY TypedIs, PTL
<1> QED BY <1>1 DEF QueueInv, HeadAt

(* ecx_mbxaddqueue *)
LEMMA AddQueueKeeps ==
  ASSUME QueueInv, NEW c \in Slaves, AddQueue(c)
  PROVE  QueueInv'
<1>0. /\ Typed /\ TicketsOk /\ HandlerOk /\ Caller(c)
      /\ HeadAt(queue.listtail, queue.listcount) = queue.listhead
  BY QueueInvIs DEF Caller
<1>1. PICK k \in Slots :
        /\ queue.mbxticket[k] < 0
        /\ QueueSet(Inc(queue.listhead), queue.listtail, queue.listcount + 1,
                    [queue.mbxticket EXCEPT ![k] = queue.listhead],
                    [queue.mbx EXCEPT ![queue.listhead] = call[c].out],
                    [queue.mbxslave EXCEPT ![queue.listhead] = c],
                    [queue.mbxstate EXCEPT ![queue.listhead] = "REQ"],
                    [queue.mbxremove EXCEPT ![queue.listhead] = FALSE])
        /\ CallSet(c, "wait", call[c].n, Null, call[c].in, k)
  BY <1>0, AddQueueSets
<1>2. PICK h : h = queue.listhead
  OBVIOUS
<1>3. /\ Live' = Live \cup {h} /\ h \notin Live /\ h \in Slots
      /\ HeadAt(queue'.listtail, queue'.listcount) = queue'.listhead
  <2>1. queue.listtail \in Slots /\ queue.listcount \in 0..PoolSize /\ queue.listcount < PoolSize
    BY <1>0, QueueFields DEF AddQueue
  <2> QED BY <1>0, <1>1, <1>2, <2>1, RingAdd, LiveIs, NextLiveIs DEF QueueSet
<1>4. /\ queue'.mbxticket[k] = h /\ queue'.mbxslave[h] = c /\ queue'.mbx[h] = call[c].out
      /\ queue'.mbxstate[h] = "REQ" /\ queue'.mbxremove[h] = FALSE
      /\ \A j \in Slots \ {k} : queue'.mbxticket[j] = queue.mbxticket[j]
      /\ \A i \in Slots \ {h} : /\ queue'.mbxslave[i] = queue.mbxslave[i] /\ queue'.mbx[i] = queue.mbx[i]
                                /\ queue'.mbxstate[i] = queue.mbxstate[i]
                                /\ queue'.mbxremove[i] = queue.mbxremove[i]
      /\ queue'.listtail = queue.listtail /\ queue'.listcount = queue.listcount + 1
  BY <1>0, <1>1, <1>2, <1>3, QueueFields DEF QueueSet
<1>5. /\ call'[c].pc = "wait" /\ call'[c].ticket = k /\ call[c].pc = "add" /\ call[c].out \in Buffers
      /\ \A d \in Slaves \ {c} : call'[d] = call[d]
  BY <1>0, <1>1 DEF CallSet, AddQueue, TicketsOk
<1>6. Typed'
  BY <1>0, <1>1, CallerTypes DEF Typed, QueueSet, CallSet
<1>7. ASSUME NEW d \in Slaves \ {c}, Waits(d)
      PROVE  call[d].ticket \in Slots \ {k} /\ Entry(d) \in Live \ {h} /\ Entry(d)' = Entry(d)
  <2>1. call[d].ticket \in Slots /\ Entry(d) \in Live /\ Entry(d) \in Slots
    BY <1>0, <1>7, LiveIs DEF TicketsOk
  <2>2. call[d].ticket # k
    BY <1>1, <2>1, PoolHasSize DEF Entry, Slots
  <2> QED BY <1>3, <1>4, <1>5, <2>1, <2>2 DEF Entry
<1>8. TicketsOk'
  <2>1. ASSUME NEW d \in Slaves, (Waits(d))'
        PROVE  /\ call'[d].ticket \in Slots /\ Entry(d)' \in Live'
               /\ queue'.mbxslave[Entry(d)'] = d /\ ~queue'.mbxremove[Entry(d)']
    <3>1. CASE d = c
      BY <1>3, <1>4, <1>5, <3>1 DEF Entry
    <3>2. CASE d # c
      <4>1. Waits(d) /\ Entry(d) \in Slots
        BY <1>5, <2>1, <3>2, <1>0, LiveIs DEF Waits, TicketsOk
      <4> QED BY <1>0, <1>3, <1>4, <1>5, <1>7, <3>2, <4>1 DEF TicketsOk
    <3> QED BY <3>1, <3>2
  <2>2. ASSUME NEW j \in Slots, queue'.mbxticket[j] \in Slots
        PROVE  \E d \in Slaves : (Waits(d))' /\ call'[d].ticket = j
    <3>1. CASE j = k
      BY <1>5, <3>1 DEF Waits
    <3>2. CASE j # k
      <4>1. PICK d \in Slaves : Waits(d) /\ call[d].ticket = j
        BY <1>0, <1>4, <2>2, <3>2 DEF TicketsOk
      <4> QED BY <1>5, <4>1 DEF Waits
    <3> QED BY <3>1, <3>2
  <2>3. ASSUME NEW i \in Live'
        PROVE  /\ queue'.mbxremove[i] \/ \E d \in Slaves : (Waits(d))' /\ Entry(d)' = i
               /\ queue'.mbxstate[i] # "NONE"
               /\ Unsent(i)' => queue'.mbx[i] \in Buffers
    <3>1. CASE i = h
      BY <1>4, <1>5, <3>1 DEF Waits, Entry
    <3>2. CASE i # h
      <4>1. i \in Live /\ i \in Slots
        BY <1>3, <2>3, <3>2, LiveIs
      <4>2. queue.mbxremove[i] \/ \E d \in Slaves : Waits(d) /\ Entry(d) = i
        BY <1>0, <4>1 DEF TicketsOk
      <4>3. queue'.mbxremove[i] \/ \E d \in Slaves : (Waits(d))' /\ Entry(d)' = i
        BY <1>4, <1>5, <1>7, <3>2, <4>1, <4>2 DEF Waits
      <4> QED BY <1>0, <1>4, <3>2, <4>1, <4>3 DEF TicketsOk, Unsent
    <3> QED BY <3>1, <3>2
  <2>4. ASSUME NEW d \in Slaves, call'[d].pc = "add" PROVE call'[d].out \in Buffers
    BY <1>0, <1>5, <2>4 DEF TicketsOk
  <2> QED BY <2>1, <2>2, <2>3, <2>4 DEF TicketsOk
<1>9. HandlerOk'
  <2>1. hnd' = hnd /\ queue.listcount \in Nat /\ hnd.left \in Nat /\ hnd.ticketloc \in Slots
    BY <1>0, CallerTypes, QueueFields, HndFields, PoolHasSize
  <2>2. ASSUME hnd.pc = "check", hnd.ticketloc # queue.listtail
        PROVE  /\ ~queue'.mbxremove[hnd.ticketloc]
               /\ hnd.ticketloc \in Live' => queue'.mbxstate[hnd.ticketloc] = "REQ"
    BY <1>0, <1>3, <1>4, <2>1, <2>2 DEF HandlerOk
  <2> QED BY <1>0, <1>4, <2>1, <2>2 DEF HandlerOk
<1> QED BY <1>3, <1>6, <1>8, <1>9, QueueAssembled

(* A thread lets go of its entry, sent or expired.                         *)
LEMMA LetGoKeeps ==
  ASSUME Prompt, QueueInv, NEW c \in Slaves, DoneQueue(c) \/ ExpireQueue(c)
  PROVE  /\ QueueInv' /\ queue' = LetGo(c) /\ Waits(c)
<1>0. /\ Typed /\ TicketsOk /\ HandlerOk /\ Caller(c)
      /\ HeadAt(queue.listtail, queue.listcount) = queue.listhead
  BY QueueInvIs DEF Caller
<1>1. /\ Waits(c) /\ call[c].ticket \in Slots /\ Entry(c) \in Live /\ Entry(c) \in Slots
      /\ queue.mbxslave[Entry(c)] = c
  BY <1>0, LiveIs DEF TicketsOk, DoneQueue, ExpireQueue, Waits
<1>2. queue' = LetGo(c)
  BY <1>0, <1>1 DEF TicketsOk, DoneQueue, ExpireQueue
<1>3. PICK e : e = Entry(c)
  OBVIOUS
<1>4. PICK k : k = call[c].ticket
  OBVIOUS
<1>5. QueueSet(queue.listhead, queue.listtail, queue.listcount,
               [queue.mbxticket EXCEPT ![k] = -1], queue.mbx, queue.mbxslave, queue.mbxstate,
               [queue.mbxremove EXCEPT ![e] = TRUE])
  BY <1>0, <1>1, <1>2, <1>3, <1>4, LetGoSets
<1>6. /\ Live' = Live /\ e \in Live /\ e \in Slots /\ k \in Slots
      /\ queue'.mbxticket[k] = -1 /\ queue'.mbxremove[e] = TRUE
      /\ \A j \in Slots \ {k} : queue'.mbxticket[j] = queue.mbxticket[j]
      /\ \A i \in Slots \ {e} : queue'.mbxremove[i] = queue.mbxremove[i]
      /\ queue'.mbxslave = queue.mbxslave /\ queue'.mbx = queue.mbx /\ queue'.mbxstate = queue.mbxstate
      /\ queue'.listtail = queue.listtail /\ queue'.listcount = queue.listcount
      /\ queue'.listhead = queue.listhead
  BY <1>0, <1>1, <1>3, <1>4, <1>5, QueueFields, LiveIs, NextLiveIs DEF QueueSet
<1>7. /\ call'[c].pc # "wait" /\ call'[c].pc # "add" /\ call' \in [Slaves -> CallRec]
      /\ \A d \in Slaves \ {c} : call'[d] = call[d]
  BY <1>0, CallerSets DEF CallSet
<1>8. Typed'
  BY <1>0, <1>5, <1>7, CallerTypes DEF Typed, QueueSet
<1>9. ASSUME NEW d \in Slaves \ {c}, Waits(d)
      PROVE  /\ call[d].ticket \in Slots \ {k} /\ Entry(d) \in Live \ {e} /\ Entry(d)' = Entry(d)
             /\ queue.mbxslave[Entry(d)] = d /\ ~queue.mbxremove[Entry(d)] /\ Entry(d) \in Slots
  <2>1. /\ call[d].ticket \in Slots /\ Entry(d) \in Live /\ queue.mbxslave[Entry(d)] = d
        /\ ~queue.mbxremove[Entry(d)] /\ Entry(d) \in Slots
    BY <1>0, <1>9, LiveIs DEF TicketsOk
  <2>2. Entry(d) # e
    BY <1>1, <1>3, <2>1
  <2>3. call[d].ticket # k
    BY <1>3, <1>4, <2>2 DEF Entry
  <2> QED BY <1>6, <1>7, <2>1, <2>2, <2>3 DEF Entry
<1>10. TicketsOk'
  <2>1. ASSUME NEW d \in Slaves, (Waits(d))'
        PROVE  /\ call'[d].ticket \in Slots /\ Entry(d)' \in Live'
               /\ queue'.mbxslave[Entry(d)'] = d /\ ~queue'.mbxremove[Entry(d)']
    <3>1. d \in Slaves \ {c} /\ Waits(d)
      BY <1>7, <2>1 DEF Waits
    <3> QED BY <1>6, <1>7, <1>9, <3>1
  <2>2. ASSUME NEW j \in Slots, queue'.mbxticket[j] \in Slots
        PROVE  \E d \in Slaves : (Waits(d))' /\ call'[d].ticket = j
    <3>1. j # k
      BY <1>6, <2>2, PoolHasSize DEF Slots
    <3>2. PICK d \in Slaves : Waits(d) /\ call[d].ticket = j
      BY <1>0, <1>6, <2>2, <3>1 DEF TicketsOk
    <3>3. d # c
      BY <1>4, <3>1, <3>2
    <3> QED BY <1>7, <3>2, <3>3 DEF Waits
  <2>3. ASSUME NEW i \in Live'
        PROVE  /\ queue'.mbxremove[i] \/ \E d \in Slaves : (Waits(d))' /\ Entry(d)' = i
               /\ queue'.mbxstate[i] # "NONE"
               /\ Unsent(i)' => queue'.mbx[i] \in Buffers
    <3>1. i \in Live /\ i \in Slots
      BY <1>6, <2>3, LiveIs
    <3>2. queue.mbxremove[i] \/ \E d \in Slaves : Waits(d) /\ Entry(d) = i
      BY <1>0, <3>1 DEF TicketsOk
    <3>3. queue'.mbxremove[i] \/ \E d \in Slaves : (Waits(d))' /\ Entry(d)' = i
      <4>1. CASE i = e
        BY <1>6, <4>1
      <4>2. CASE i # e /\ queue.mbxremove[i]
        BY <1>6, <3>1, <4>2
      <4>3. ASSUME i # e, NEW d \in Slaves, Waits(d), Entry(d) = i
            PROVE  (Waits(d))' /\ Entry(d)' = i
        <5>1. d \in Slaves \ {c}
          BY <1>3, <4>3
        <5> QED BY <1>7, <1>9, <4>3, <5>1 DEF Waits
      <4> QED BY <3>2, <4>1, <4>2, <4>3
    <3> QED BY <1>0, <1>6, <3>1, <3>3 DEF TicketsOk, Unsent
  <2>4. ASSUME NEW d \in Slaves, call'[d].pc = "add" PROVE call'[d].out \in Buffers
    BY <1>0, <1>7, <2>4 DEF TicketsOk
  <2> QED BY <2>1, <2>2, <2>3, <2>4 DEF TicketsOk
<1>11. HandlerOk'
  <2>1. hnd' = hnd /\ hnd.ticketloc \in Slots
    BY <1>0, CallerTypes, HndFields
  <2>2. ASSUME hnd.pc = "check", hnd.ticketloc # queue.listtail
        PROVE  /\ ~queue'.mbxremove[hnd.ticketloc]
               /\ hnd.ticketloc \in Live' => queue'.mbxstate[hnd.ticketloc] = "REQ"
    <3>1. hnd.ticketloc # e
      <4>1. CASE DoneQueue(c)
        BY <1>0, <1>3, <1>6, <2>2, <4>1 DEF HandlerOk, DoneQueue
      <4>2. CASE ExpireQueue(c)
        BY <1>3, <2>2, <4>2 DEF ExpireQueue, Prompt
      <4> QED BY <4>1, <4>2
    <3> QED BY <1>0, <1>6, <2>1, <2>2, <3>1 DEF HandlerOk
  <2> QED BY <1>0, <1>6, <2>1, <2>2 DEF HandlerOk
<1> QED BY <1>0, <1>1, <1>2, <1>6, <1>8, <1>10, <1>11, QueueAssembled

(* The steps of the handler that leave the queue alone.                    *)
QuietSteps ==
  \/ \E ok \in BOOLEAN : RmpToggle(ok) \/ RmpAck(ok) \/ InLost(ok)
  \/ \E arrives, ok \in BOOLEAN : RmpWrite(arrives, ok)
  \/ InSkip \/ InRead \/ InStore \/ InDrop \/ InFlag \/ OutStart \/ OutHold \/ OutDone \/ Cycle

(* They keep the invariant.                                                *)
LEMMA QuietKeeps ==
  ASSUME QueueInv, QuietSteps
  PROVE  QueueInv'
<1>0. Typed /\ TicketsOk /\ HandlerOk /\ Handler
  BY QueueInvIs DEF Handler, QuietSteps
<1>1. queue' = queue /\ call' = call
  BY DEF QuietSteps, RmpToggle, RmpAck, InLost, RmpWrite, InSkip, InRead, InStore, InDrop, InFlag, OutStart,
         OutHold, OutDone, Cycle
<1>2. Live' = Live
  BY <1>1, LiveIs, NextLiveIs
<1>3. NumSlaves \in Nat /\ Limit \in Nat \ {0} /\ queue.listcount \in Nat
  BY <1>0, MailboxAssumption, QueueFields, PoolHasSize
<1>4. hnd' \in HndRec /\ HandlerOk'
  <2>1. CASE \/ \E ok \in BOOLEAN : RmpToggle(ok) \/ RmpAck(ok) \/ InLost(ok)
             \/ \E arrives, ok \in BOOLEAN : RmpWrite(arrives, ok)
             \/ InSkip
    <3>1. /\ hnd.pc = "in" /\ hnd.left > 0
          /\ \E work \in {0, 1} : hnd' = Visited(hnd, work)
      BY <2>1 DEF RmpToggle, RmpAck, InLost, RmpWrite, InSkip
    <3>2. PICK work \in {0, 1} : hnd' = Visited(hnd, work)
      BY <3>1
    <3>3. /\ HndSet("in", LeftAfter(work), hnd.limit - work, Turn, hnd.mbx, hnd.ticketloc)
          /\ hnd.limit - work \in 0..Limit /\ (LeftAfter(work) > 0 => hnd.limit - work >= 1)
      BY <1>0, <3>1, <3>2, VisitedSets
    <3>4. hnd.limit - work >= 0
      BY <1>3, <3>3
    <3> QED BY <3>3, <3>4 DEF HndSet, HandlerOk
  <2>2. CASE InRead
    <3>1. PICK b \in Buffers : hnd' = [Visited(hnd, 1) EXCEPT !.pc = "store", !.mbx = b]
      BY <1>0, <2>2 DEF InRead, Typed
    <3>2. hnd.pc = "in" /\ hnd.left > 0
      BY <2>2 DEF InRead
    <3>3. /\ HndSet("store", LeftAfter(1), hnd.limit - 1, Turn, b, hnd.ticketloc)
          /\ hnd.limit - 1 \in 0..Limit /\ (LeftAfter(1) > 0 => hnd.limit - 1 >= 1)
      BY <1>0, <3>1, <3>2, VisitedSets
    <3>4. hnd.limit - 1 >= 0
      BY <1>3, <3>3
    <3> QED BY <3>3, <3>4 DEF HndSet, HandlerOk
  <2>3. CASE InStore \/ InDrop \/ InFlag
    BY <1>0, <2>3, HandlerSets DEF HndSet, HandlerOk, InStore, InDrop, InFlag
  <2>4. CASE OutStart
    BY <1>0, <1>1, <1>3, <2>4, HandlerSets DEF HndSet, HandlerOk, OutStart
  <2>5. CASE OutHold
    <3>1. HndSet("rotate", hnd.left, hnd.limit - 1, hnd.lastmbxpos, hnd.mbx, queue.listtail)
      BY <1>0, <2>5, HandlerSets DEF OutHold
    <3> QED BY <1>0, <1>1, <2>5, <3>1 DEF HndSet, HandlerOk, OutHold, OutTurn
  <2>6. CASE OutDone
    <3>1. HndSet(IF queue.mbxstate[queue.listtail] = "NONE" THEN "check" ELSE "rotate",
                 hnd.left, hnd.limit, hnd.lastmbxpos, hnd.mbx, queue.listtail)
      BY <1>0, <2>6, HandlerSets
    <3> QED BY <1>0, <1>1, <2>6, <3>1 DEF HndSet, HandlerOk, OutDone, OutTurn
  <2>7. CASE Cycle
    BY <1>0, <1>3, <2>7, HandlerSets DEF HndSet, HandlerOk
  <2> QED BY <2>1, <2>2, <2>3, <2>4, <2>5, <2>6, <2>7 DEF QuietSteps
<1>5. Typed'
  <2>1. (queue \in QueueRec)' /\ (call \in [Slaves -> CallRec])'
    BY <1>0, <1>1 DEF Typed
  <2> QED BY <1>0, <1>4, <2>1, HandlerTypes DEF Typed
<1> QED BY <1>0, <1>1, <1>4, <1>5, QueueStays DEF TicketsOk

(* A request is written to its slave, or is not.                           *)
LEMMA OutKeeps ==
  ASSUME QueueInv, OutSent \/ \E arrives, ok \in BOOLEAN : OutFail(ok, arrives)
  PROVE  QueueInv'
<1>0. /\ Typed /\ TicketsOk /\ HandlerOk /\ Handler
      /\ HeadAt(queue.listtail, queue.listcount) = queue.listhead
  BY QueueInvIs DEF Handler
<1>1. PICK loc : loc = queue.listtail
  OBVIOUS
<1>2. loc \in Live /\ loc \in Slots /\ OutTurn /\ call' = call
  BY <1>0, <1>1, TailIsLive DEF OutSent, OutFail, OutTurn
<1>3. HndSet("rotate", hnd.left, hnd.limit - 1, hnd.lastmbxpos, hnd.mbx, queue.listtail)
  BY <1>0, <1>2, HandlerSets DEF OutSent, OutFail
<1>4. /\ queue' \in QueueRec /\ queue'.listtail = queue.listtail /\ queue'.listcount = queue.listcount
      /\ queue'.listhead = queue.listhead
      /\ queue'.mbxticket = queue.mbxticket /\ queue'.mbxslave = queue.mbxslave
      /\ queue'.mbxremove = queue.mbxremove
      /\ \A i \in Slots \ {loc} : queue'.mbxstate[i] = queue.mbxstate[i] /\ queue'.mbx[i] = queue.mbx[i]
      /\ \/ queue'.mbxstate[loc] = "DONE"
         \/ queue'.mbxstate[loc] = "FAIL" /\ queue'.mbx[loc] = queue.mbx[loc] /\ Unsent(loc)
  <2>1. CASE OutSent
    <3>1. queue' = [queue EXCEPT !.mbxstate[loc] = "DONE", !.mbx[loc] = Null]
      BY <1>1, <2>1 DEF OutSent
    <3>2. QueueSet(queue.listhead, queue.listtail, queue.listcount, queue.mbxticket,
                  [queue.mbx EXCEPT ![loc] = Null], queue.mbxslave,
                  [queue.mbxstate EXCEPT ![loc] = "DONE"], queue.mbxremove)
      BY <1>0, <1>2, <3>1, OutSentSets
    <3> QED BY <1>0, <1>2, <3>2, QueueFields DEF QueueSet
  <2>2. CASE \E arrives, ok \in BOOLEAN : OutFail(ok, arrives)
    <3>1. queue' = [queue EXCEPT !.mbxstate[loc] = "FAIL"] /\ Unsent(loc)
      BY <1>1, <2>2 DEF OutFail, Unsent
    <3>2. QueueSet(queue.listhead, queue.listtail, queue.listcount, queue.mbxticket, queue.mbx,
                  queue.mbxslave, [queue.mbxstate EXCEPT ![loc] = "FAIL"], queue.mbxremove)
      BY <1>0, <1>2, <3>1, OutFailSets
    <3> QED BY <1>0, <1>2, <3>1, <3>2, QueueFields DEF QueueSet
  <2> QED BY <2>1, <2>2
<1>5. Live' = Live /\ Live \subseteq Slots
  BY <1>4, LiveIs, NextLiveIs
<1>6. Typed'
  <2>1. (call \in [Slaves -> CallRec])'
    BY <1>0, <1>2 DEF Typed
  <2> QED BY <1>0, <1>3, <1>4, <2>1, HandlerTypes DEF Typed, HndSet
<1>7. \A c \in Slaves : Entry(c)' = Entry(c) /\ ((Waits(c))' <=> Waits(c))
  BY <1>2, <1>4 DEF Entry, Waits
<1>8. TicketsOk'
  <2>1. ASSUME NEW c \in Slaves, (Waits(c))'
        PROVE  /\ call'[c].ticket \in Slots /\ Entry(c)' \in Live'
               /\ queue'.mbxslave[Entry(c)'] = c /\ ~queue'.mbxremove[Entry(c)']
    BY <1>0, <1>2, <1>4, <1>5, <1>7, <2>1 DEF TicketsOk
  <2>2. ASSUME NEW k \in Slots, queue'.mbxticket[k] \in Slots
        PROVE  \E c \in Slaves : (Waits(c))' /\ call'[c].ticket = k
    BY <1>0, <1>2, <1>4, <1>7, <2>2 DEF TicketsOk
  <2>3. ASSUME NEW i \in Live'
        PROVE  /\ queue'.mbxremove[i] \/ \E c \in Slaves : (Waits(c))' /\ Entry(c)' = i
               /\ queue'.mbxstate[i] # "NONE"
               /\ Unsent(i)' => queue'.mbx[i] \in Buffers
    <3>1. i \in Live /\ i \in Slots
      BY <1>5, <2>3
    <3>2. queue'.mbxremove[i] \/ \E c \in Slaves : (Waits(c))' /\ Entry(c)' = i
      BY <1>0, <1>4, <1>7, <3>1 DEF TicketsOk
    <3> QED BY <1>0, <1>4, <3>1, <3>2 DEF TicketsOk, Unsent
  <2>4. ASSUME NEW c \in Slaves, call'[c].pc = "add" PROVE call'[c].out \in Buffers
    BY <1>0, <1>2, <2>4 DEF TicketsOk
  <2> QED BY <2>1, <2>2, <2>3, <2>4 DEF TicketsOk
<1>9. HandlerOk'
  BY <1>0, <1>2, <1>3, <1>4 DEF HndSet, HandlerOk, OutTurn
<1> QED BY <1>0, <1>4, <1>6, <1>8, <1>9, QueueAssembled

(* Who waits for the entry at the tail holds the ticket that leads there.  *)
LEMMA HeldBy ==
  ASSUME Typed, TicketsOk, NEW i \in Slots, NEW k \in Slots, queue.mbxticket[k] = i
  PROVE  \E c \in Slaves : /\ Waits(c) /\ call[c].ticket = k /\ Entry(c) = i /\ i \in Live
                           /\ queue.mbxslave[i] = c /\ ~queue.mbxremove[i]
                           /\ \A d \in Slaves : Waits(d) /\ d # c => Entry(d) # i /\ call[d].ticket # k
<1>1. PICK c \in Slaves : Waits(c) /\ call[c].ticket = k
  BY DEF TicketsOk
<1>2. Entry(c) = i
  BY <1>1 DEF Entry
<1>3. i \in Live /\ queue.mbxslave[i] = c /\ ~queue.mbxremove[i]
  BY <1>1, <1>2 DEF TicketsOk
<1>4. ASSUME NEW d \in Slaves, Waits(d), d # c PROVE Entry(d) # i /\ call[d].ticket # k
  BY <1>3, <1>4 DEF TicketsOk, Entry
<1> QED BY <1>1, <1>2, <1>3, <1>4

(* ecx_mbxrotatequeue moves the entry at the tail to the head, and its     *)
(* ticket with it; everything else stays where it is.                      *)
RotatedTo(k, h, t, c) ==
  /\ h = queue.listhead /\ t = queue.listtail /\ h \in Slots /\ t \in Slots /\ k \in Slots /\ h # t
  /\ h \notin Live /\ t \in Live /\ Live' = (Live \ {t}) \cup {h}
  /\ queue' \in QueueRec /\ HeadAt(queue'.listtail, queue'.listcount) = queue'.listhead
  /\ queue'.listtail = Inc(t) /\ queue'.listcount = queue.listcount
  /\ c \in Slaves /\ Waits(c) /\ call[c].ticket = k /\ Entry(c) = t /\ Entry(c)' = h
  /\ \A d \in Slaves : Waits(d) /\ d # c => Entry(d)' = Entry(d) /\ Entry(d) \in Live \ {t}
  /\ queue'.mbxticket[k] = h
  /\ \A j \in Slots \ {k} : queue'.mbxticket[j] = queue.mbxticket[j]
  /\ queue'.mbx[h] = queue.mbx[t] /\ queue'.mbxslave[h] = queue.mbxslave[t]
  /\ queue'.mbxstate[h] = queue.mbxstate[t] /\ queue'.mbxremove[h] = queue.mbxremove[t]
  /\ queue.mbxslave[t] = c /\ ~queue.mbxremove[t]
  /\ \A i \in Slots \ {h} : /\ queue'.mbxslave[i] = queue.mbxslave[i] /\ queue'.mbx[i] = queue.mbx[i]
                            /\ queue'.mbxstate[i] = queue.mbxstate[i]
                            /\ queue'.mbxremove[i] = queue.mbxremove[i]

(* That is all a rotation does.                                            *)
LEMMA RotateMoves ==
  ASSUME QueueInv, Rotate
  PROVE  /\ call' = call
         /\ queue' = queue \/ \E k, h, t, c : RotatedTo(k, h, t, c)
<1>0. /\ Typed /\ TicketsOk /\ HandlerOk /\ Handler
      /\ HeadAt(queue.listtail, queue.listcount) = queue.listhead
  BY QueueInvIs DEF Handler
<1>1. PICK h : h = queue.listhead
  OBVIOUS
<1>2. PICK t : t = queue.listtail
  OBVIOUS
<1>3. /\ hnd.ticketloc = t /\ call' = call /\ hnd.left > 0 /\ hnd.pc = "rotate"
  BY <1>0, <1>2 DEF HandlerOk, Rotate
<1>4. queue.listcount > 0 /\ t \in Live /\ t \in Slots /\ h \in Slots
  BY <1>0, <1>1, <1>2, <1>3, TailIsLive, QueueFields
<1>5. ASSUME queue' # queue PROVE \E k, c : RotatedTo(k, h, t, c)
  <2>1. PICK k \in Slots : queue.mbxticket[k] = t /\ h # t /\ queue' = Rotated(k)
    BY <1>1, <1>2, <1>3, <1>5 DEF Rotate
  <2>2. PICK c \in Slaves : /\ Waits(c) /\ call[c].ticket = k /\ Entry(c) = t
                            /\ queue.mbxslave[t] = c /\ ~queue.mbxremove[t]
                            /\ \A d \in Slaves : Waits(d) /\ d # c => Entry(d) # t /\ call[d].ticket # k
    BY <1>0, <1>4, <2>1, HeldBy
  <2>3. QueueSet(Inc(h), Inc(t), queue.listcount, [queue.mbxticket EXCEPT ![k] = h],
                 [queue.mbx EXCEPT ![h] = queue.mbx[t]],
                 [queue.mbxslave EXCEPT ![h] = queue.mbxslave[t]],
                 [queue.mbxstate EXCEPT ![h] = queue.mbxstate[t]],
                 [queue.mbxremove EXCEPT ![h] = queue.mbxremove[t]])
    BY <1>0, <1>1, <1>2, <2>1, RotatedSets
  <2>4. /\ h \notin Live /\ Live' = (Live \ {t}) \cup {h}
        /\ HeadAt(queue'.listtail, queue'.listcount) = queue'.listhead
    <3>1. queue.listcount \in 0..PoolSize
      BY <1>0, QueueFields
    <3>2. /\ h \notin LiveAt(t, queue.listcount)
          /\ LiveAt(Inc(t), queue.listcount) = (LiveAt(t, queue.listcount) \ {t}) \cup {h}
          /\ HeadAt(Inc(t), queue.listcount) = Inc(h)
      BY <1>0, <1>1, <1>2, <1>4, <2>1, <3>1, RingRotate
    <3> QED BY <1>2, <2>3, <3>2, LiveIs, NextLiveIs DEF QueueSet
  <2>5. /\ queue'.mbxticket[k] = h
        /\ \A j \in Slots \ {k} : queue'.mbxticket[j] = queue.mbxticket[j]
        /\ queue'.mbx[h] = queue.mbx[t] /\ queue'.mbxslave[h] = queue.mbxslave[t]
        /\ queue'.mbxstate[h] = queue.mbxstate[t] /\ queue'.mbxremove[h] = queue.mbxremove[t]
        /\ \A i \in Slots \ {h} : /\ queue'.mbxslave[i] = queue.mbxslave[i] /\ queue'.mbx[i] = queue.mbx[i]
                                  /\ queue'.mbxstate[i] = queue.mbxstate[i]
                                  /\ queue'.mbxremove[i] = queue.mbxremove[i]
        /\ queue' \in QueueRec /\ queue'.listtail = Inc(t) /\ queue'.listcount = queue.listcount
    BY <1>0, <1>4, <2>1, <2>3, QueueFields DEF QueueSet
  <2>6. ASSUME NEW d \in Slaves, Waits(d), d # c PROVE Entry(d)' = Entry(d) /\ Entry(d) \in Live \ {t}
    BY <1>0, <1>3, <2>2, <2>5, <2>6 DEF TicketsOk, Entry
  <2>7. Entry(c)' = h
    BY <1>3, <2>2, <2>5 DEF Entry
  <2>8. RotatedTo(k, h, t, c)
    BY <1>1, <1>2, <1>4, <2>1, <2>2, <2>4, <2>5, <2>6, <2>7 DEF RotatedTo
  <2> QED BY <2>8
<1> QED BY <1>3, <1>5

(* So the invariant is kept.                                               *)
LEMMA RotateKeeps ==
  ASSUME QueueInv, Rotate
  PROVE  QueueInv'
<1>0. /\ Typed /\ TicketsOk /\ HandlerOk /\ Handler /\ call' = call
      /\ HeadAt(queue.listtail, queue.listcount) = queue.listhead
  BY QueueInvIs, RotateMoves DEF Handler
<1>1. HndSet("check", hnd.left, hnd.limit, hnd.lastmbxpos, hnd.mbx, hnd.ticketloc)
  BY <1>0, HandlerSets
<1>2. (call \in [Slaves -> CallRec])' /\ (hnd \in HndRec)'
  BY <1>0, <1>1 DEF Typed, HndSet
<1>3. hnd.pc = "rotate"
  BY DEF Rotate
<1>4. CASE queue' = queue
  <2>1. HandlerOk'
    BY <1>0, <1>1, <1>3, <1>4 DEF HandlerOk, HndSet
  <2>2. Typed'
    BY <1>0, <1>2, <1>4, HandlerTypes DEF Typed
  <2> QED BY <1>0, <1>4, <2>1, <2>2, QueueStays DEF TicketsOk
<1>5. ASSUME NEW k, NEW h, NEW t, NEW c, RotatedTo(k, h, t, c) PROVE QueueInv'
  <2> USE <1>5 DEF RotatedTo
  <2>0. Live \subseteq Slots /\ \A d \in Slaves : (Waits(d))' <=> Waits(d)
    BY <1>0, LiveIs DEF Waits
  <2>1. ASSUME NEW d \in Slaves, (Waits(d))'
        PROVE  /\ call'[d].ticket \in Slots /\ Entry(d)' \in Live'
               /\ queue'.mbxslave[Entry(d)'] = d /\ ~queue'.mbxremove[Entry(d)']
    <3>1. CASE d = c
      BY <1>0, <3>1
    <3>2. CASE d # c
      <4>1. Waits(d) /\ Entry(d) \in Slots \ {h}
        BY <2>0, <2>1, <3>2
      <4> QED BY <1>0, <3>2, <4>1 DEF TicketsOk
    <3> QED BY <3>1, <3>2
  <2>2. ASSUME NEW j \in Slots, queue'.mbxticket[j] \in Slots
        PROVE  \E d \in Slaves : (Waits(d))' /\ call'[d].ticket = j
    <3>1. CASE j = k
      BY <1>0, <2>0, <3>1
    <3>2. CASE j # k
      BY <1>0, <2>0, <2>2, <3>2 DEF TicketsOk
    <3> QED BY <3>1, <3>2
  <2>3. ASSUME NEW i \in Live'
        PROVE  /\ queue'.mbxremove[i] \/ \E d \in Slaves : (Waits(d))' /\ Entry(d)' = i
               /\ queue'.mbxstate[i] # "NONE"
               /\ Unsent(i)' => queue'.mbx[i] \in Buffers
    <3>1. CASE i = h
      BY <1>0, <2>0, <3>1 DEF TicketsOk, Unsent
    <3>2. CASE i # h
      <4>1. i \in Live /\ i \in Slots \ {h} /\ i # t
        BY <2>0, <2>3, <3>2
      <4>2. queue.mbxremove[i] \/ \E d \in Slaves : Waits(d) /\ Entry(d) = i
        BY <1>0, <4>1 DEF TicketsOk
      <4>3. queue'.mbxremove[i] \/ \E d \in Slaves : (Waits(d))' /\ Entry(d)' = i
        BY <2>0, <4>1, <4>2
      <4> QED BY <1>0, <4>1, <4>3 DEF TicketsOk, Unsent
    <3> QED BY <3>1, <3>2
  <2>4. ASSUME NEW d \in Slaves, call'[d].pc = "add" PROVE call'[d].out \in Buffers
    BY <1>0, <2>4 DEF TicketsOk
  <2>5. TicketsOk'
    BY <2>1, <2>2, <2>3, <2>4 DEF TicketsOk
  <2>6. HandlerOk'
    <3>1. hnd.ticketloc = t
      BY <1>0, <1>3 DEF HandlerOk
    <3>2. ~queue'.mbxremove[t] /\ t \notin Live'
      OBVIOUS
    <3> QED BY <1>0, <1>1, <1>3, <3>1, <3>2 DEF HandlerOk, HndSet
  <2>7. Typed'
    BY <1>0, <1>2, HandlerTypes DEF Typed
  <2> QED BY <2>5, <2>6, <2>7, QueueAssembled
<1> QED BY <1>4, <1>5, RotateMoves

(* ecx_mbxdropqueue takes the entry at the tail away, or nothing happens.  *)
DroppedTail(t) ==
  /\ t = queue.listtail /\ t \in Slots /\ t \in Live /\ Live' = Live \ {t}
  /\ queue.mbxremove[t] /\ queue' \in QueueRec
  /\ HeadAt(queue'.listtail, queue'.listcount) = queue'.listhead
  /\ queue'.listtail = Inc(t) /\ queue'.listcount = queue.listcount - 1
  /\ queue'.mbxticket = queue.mbxticket
  /\ \A i \in Slots \ {t} : /\ queue'.mbxslave[i] = queue.mbxslave[i] /\ queue'.mbx[i] = queue.mbx[i]
                            /\ queue'.mbxstate[i] = queue.mbxstate[i]
                            /\ queue'.mbxremove[i] = queue.mbxremove[i]
  /\ free' = Drop(free, queue.mbx[t]) /\ data' = Cleared({queue.mbx[t]})

(* That is all the last look at an entry does.                             *)
LEMMA CheckDrops ==
  ASSUME QueueInv, Check
  PROVE  /\ call' = call
         /\ UNCHANGED <<queue, free, data>> \/ \E t : DroppedTail(t)
<1>0. /\ Typed /\ TicketsOk /\ HandlerOk /\ Handler
      /\ HeadAt(queue.listtail, queue.listcount) = queue.listhead
  BY QueueInvIs DEF Handler
<1>1. PICK t : t = hnd.ticketloc
  OBVIOUS
<1>2. /\ t \in Slots /\ queue.listcount > 0 /\ queue.listtail \in Live /\ queue.listtail \in Slots
      /\ hnd.pc = "check"
  BY <1>0, <1>1, HndFields, TailIsLive DEF HandlerOk, Check
<1>3. ASSUME queue.mbxremove[t] PROVE DroppedTail(t)
  <2>1. t = queue.listtail
    BY <1>0, <1>1, <1>2, <1>3 DEF HandlerOk
  <2>2. /\ queue' = [queue EXCEPT !.mbxstate[t] = "NONE", !.mbxremove[t] = FALSE,
                                  !.mbxslave[t] = 0, !.mbx[t] = Null,
                                  !.listtail = Inc(@), !.listcount = @ - 1]
        /\ free' = Drop(free, queue.mbx[t]) /\ data' = Cleared({queue.mbx[t]})
    BY <1>1, <1>3 DEF Check
  <2>3. QueueSet(queue.listhead, Inc(queue.listtail), queue.listcount - 1, queue.mbxticket,
                 [queue.mbx EXCEPT ![t] = Null], [queue.mbxslave EXCEPT ![t] = 0],
                 [queue.mbxstate EXCEPT ![t] = "NONE"], [queue.mbxremove EXCEPT ![t] = FALSE])
    BY <1>0, <1>2, <2>2, CheckSets
  <2>4. /\ Live' = Live \ {t} /\ HeadAt(queue'.listtail, queue'.listcount) = queue'.listhead
    <3>1. queue.listcount \in 0..PoolSize
      BY <1>0, QueueFields
    <3>2. /\ LiveAt(Inc(t), queue.listcount - 1) = LiveAt(t, queue.listcount) \ {t}
          /\ HeadAt(Inc(t), queue.listcount - 1) = HeadAt(t, queue.listcount)
      BY <1>2, <3>1, RingDrop
    <3> QED BY <1>0, <2>1, <2>3, <3>2, LiveIs, NextLiveIs DEF QueueSet
  <2>5. \A i \in Slots \ {t} : /\ queue'.mbxslave[i] = queue.mbxslave[i] /\ queue'.mbx[i] = queue.mbx[i]
                               /\ queue'.mbxstate[i] = queue.mbxstate[i]
                               /\ queue'.mbxremove[i] = queue.mbxremove[i]
    BY <1>0, <2>3, QueueFields DEF QueueSet
  <2> QED BY <1>2, <1>3, <2>1, <2>2, <2>3, <2>4, <2>5 DEF DroppedTail, QueueSet
<1> QED BY <1>1, <1>3 DEF Check

(* So the invariant is kept.                                               *)
LEMMA CheckKeeps ==
  ASSUME QueueInv, Check
  PROVE  QueueInv'
<1>0. /\ Typed /\ TicketsOk /\ HandlerOk /\ Handler /\ call' = call
      /\ HeadAt(queue.listtail, queue.listcount) = queue.listhead
  BY QueueInvIs, CheckDrops DEF Handler
<1>1. HndSet("out", hnd.left - 1, hnd.limit, hnd.lastmbxpos, hnd.mbx, 0)
  BY <1>0, HandlerSets
<1>2. (call \in [Slaves -> CallRec])' /\ (hnd \in HndRec)'
  BY <1>0, <1>1 DEF Typed, HndSet
<1>3. hnd.pc = "check" /\ hnd.left \in Nat /\ queue.listcount \in Nat /\ hnd.left <= queue.listcount
  BY <1>0, HndFields, QueueFields, PoolHasSize, MailboxAssumption DEF Check, HandlerOk
<1>4. CASE UNCHANGED <<queue, free, data>>
  <2>1. HandlerOk'
    BY <1>0, <1>1, <1>3, <1>4 DEF HandlerOk, HndSet
  <2>2. Typed'
    BY <1>0, <1>2, <1>4, HandlerTypes DEF Typed
  <2> QED BY <1>0, <1>4, <2>1, <2>2, QueueStays DEF TicketsOk
<1>5. ASSUME NEW t, DroppedTail(t) PROVE QueueInv'
  <2> USE <1>5 DEF DroppedTail
  <2>0. Live \subseteq Slots /\ \A d \in Slaves : ((Waits(d))' <=> Waits(d)) /\ Entry(d)' = Entry(d)
    BY <1>0, LiveIs DEF Waits, Entry
  <2>1. ASSUME NEW d \in Slaves, (Waits(d))'
        PROVE  /\ call'[d].ticket \in Slots /\ Entry(d)' \in Live'
               /\ queue'.mbxslave[Entry(d)'] = d /\ ~queue'.mbxremove[Entry(d)']
    <3>1. /\ Waits(d) /\ Entry(d) \in Live /\ call[d].ticket \in Slots
          /\ queue.mbxslave[Entry(d)] = d /\ ~queue.mbxremove[Entry(d)]
      BY <1>0, <2>0, <2>1 DEF TicketsOk
    <3>2. Entry(d) # t
      BY <3>1
    <3> QED BY <1>0, <2>0, <3>1, <3>2
  <2>2. ASSUME NEW j \in Slots, queue'.mbxticket[j] \in Slots
        PROVE  \E d \in Slaves : (Waits(d))' /\ call'[d].ticket = j
    BY <1>0, <2>0, <2>2 DEF TicketsOk
  <2>3. ASSUME NEW i \in Live'
        PROVE  /\ queue'.mbxremove[i] \/ \E d \in Slaves : (Waits(d))' /\ Entry(d)' = i
               /\ queue'.mbxstate[i] # "NONE"
               /\ Unsent(i)' => queue'.mbx[i] \in Buffers
    <3>1. i \in Live /\ i \in Slots \ {t}
      BY <2>0, <2>3
    <3>2. queue.mbxremove[i] \/ \E d \in Slaves : Waits(d) /\ Entry(d) = i
      BY <1>0, <3>1 DEF TicketsOk
    <3>3. queue'.mbxremove[i] \/ \E d \in Slaves : (Waits(d))' /\ Entry(d)' = i
      BY <2>0, <3>1, <3>2
    <3> QED BY <1>0, <3>1, <3>3 DEF TicketsOk, Unsent
  <2>4. ASSUME NEW d \in Slaves, call'[d].pc = "add" PROVE call'[d].out \in Buffers
    BY <1>0, <2>4 DEF TicketsOk
  <2>5. TicketsOk'
    BY <2>1, <2>2, <2>3, <2>4 DEF TicketsOk
  <2>6. HandlerOk'
    BY <1>0, <1>1, <1>3 DEF HandlerOk, HndSet
  <2>7. Typed'
    BY <1>0, <1>2, HandlerTypes DEF Typed
  <2> QED BY <2>5, <2>6, <2>7, QueueAssembled
<1> QED BY <1>4, <1>5, CheckDrops

(* A step in which neither the queue nor the threads nor the handler move. *)
LEMMA DeviceKeeps ==
  ASSUME QueueInv, NEW s \in Slaves, Device(s)
  PROVE  QueueInv'
<1>0. Typed /\ TicketsOk /\ HandlerOk
  BY QueueInvIs
<1>1. /\ queue' = queue /\ call' = call /\ hnd' = hnd /\ Live' = Live
  BY <1>0, DeviceTypes, LiveIs, NextLiveIs
<1>2. Typed'
  BY <1>0, DeviceTypes DEF Typed
<1>3. HandlerOk'
  BY <1>0, <1>1 DEF HandlerOk
<1> QED BY <1>0, <1>1, <1>2, <1>3, QueueStays DEF TicketsOk

(* The queue is empty at first.                                            *)
LEMMA QueueInit == Init => QueueInv
<1> SUFFICES ASSUME Init PROVE QueueInv
  OBVIOUS
<1>0. /\ NumSlaves \in Nat \ {0} /\ PoolSize \in Nat \ {0} /\ 0 \in Slots /\ 0 \in Slaves
      /\ Limit \in Nat \ {0} /\ MaxLost \in Nat
  BY MailboxAssumption, PoolHasSize DEF Slaves
<1>1. queue \in QueueRec
  BY <1>0 DEF Init, QueueRec
<1>2. inbox \in [Slaves -> InboxRec] /\ call \in [Slaves -> CallRec]
  BY <1>0 DEF Init, InboxRec, CallRec
<1>3. hnd \in HndRec
  BY <1>0 DEF Init, HndRec
<1>4. rmp \in [Slaves -> RmpRec] /\ dev \in [Slaves -> DevRec]
  <2>1. None \in Messages
    BY DEF Messages
  <2> QED BY <2>1 DEF Init, RmpRec, DevRec
<1>5. Typed
  <2>1. data \in [Buffers -> Messages]
    BY DEF Init, Messages
  <2>2. free \subseteq Buffers /\ taken \in [Slaves -> Nat] /\ lost \in 0..MaxLost
    BY <1>0 DEF Init
  <2> QED BY <1>1, <1>2, <1>3, <1>4, <2>1, <2>2 DEF Typed
<1>6. Live = {}
  <2>1. queue.listtail = 0 /\ queue.listcount = 0
    BY DEF Init
  <2>2. \A i \in Slots : PosAt(0, i) = i - 0 /\ i >= 0
    BY <1>0, Turns DEF Slots
  <2>3. \A i \in Slots : i \in Int
    BY <1>0 DEF Slots
  <2> QED BY <2>1, <2>2, <2>3, LiveIs DEF LiveAt
<1>7. TicketsOk
  <2>1. \A c \in Slaves : call[c].pc = "idle"
    BY DEF Init
  <2>2. \A k \in Slots : queue.mbxticket[k] = -1
    BY DEF Init
  <2>3. -1 \notin Slots
    BY <1>0 DEF Slots
  <2> QED BY <1>6, <2>1, <2>2, <2>3 DEF TicketsOk, Waits
<1>8. HandlerOk
  BY <1>0 DEF Init, HandlerOk
<1>9. HeadAt(queue.listtail, queue.listcount) = queue.listhead
  <2>1. 0 \in 0..PoolSize /\ HeadAt(0, 0) = IF 0 + 0 < PoolSize THEN 0 + 0 ELSE 0 + 0 - PoolSize
    BY <1>0, Wrapped
  <2> QED BY <1>0, <2>1 DEF Init
<1> QED BY <1>5, <1>7, <1>8, <1>9, TypedIs DEF QueueInv

(* Every step keeps the invariant of the queue.                            *)
LEMMA QueueStep == ASSUME Prompt PROVE QueueInv /\ [Next]_vars => QueueInv'
<1> SUFFICES ASSUME QueueInv, [Next]_vars PROVE QueueInv'
  OBVIOUS
<1>1. CASE UNCHANGED vars
  <2>0. Typed /\ TicketsOk /\ HandlerOk
    BY QueueInvIs
  <2>1. Live' = Live /\ queue' = queue /\ call' = call
    BY <1>1, LiveIs, NextLiveIs DEF vars
  <2>2. Typed'
    BY <1>1, <2>0 DEF Typed, vars
  <2>3. HandlerOk'
    BY <1>1, <2>0, <2>1 DEF HandlerOk, vars
  <2> QED BY <2>0, <2>1, <2>2, <2>3, QueueStays DEF TicketsOk
<1>2. CASE Handler
  BY <1>2, QuietKeeps, OutKeeps, RotateKeeps, CheckKeeps DEF Handler, QuietSteps
<1>3. ASSUME NEW c \in Slaves, Caller(c) PROVE QueueInv'
  BY <1>3, CallerOutside, AddQueueKeeps, LetGoKeeps DEF Caller
<1>4. ASSUME NEW s \in Slaves, Device(s) PROVE QueueInv'
  BY <1>4, DeviceKeeps
<1> QED BY <1>1, <1>2, <1>3, <1>4 DEF Next

(* What the runs check follows from it.                                    *)
LEMMA QueueInvGivesSound == QueueInv => QueueSound
<1> SUFFICES ASSUME QueueInv PROVE QueueSound
  OBVIOUS
<1>0. /\ Typed /\ TicketsOk /\ Live \subseteq Slots /\ TypeOK
      /\ (queue.listtail + queue.listcount) % PoolSize = queue.listhead
  BY QueueInvIs, LiveIs DEF QueueInv, HeadAt
<1>1. ASSUME NEW i \in Live
      PROVE  IF queue.mbxremove[i] THEN \A k \in Slots : queue.mbxticket[k] # i
             ELSE \E c \in Slaves : call[c].pc = "wait" /\ Entry(c) = i
  <2>1. CASE queue.mbxremove[i]
    <3>1. i \in Slots
      BY <1>0
    <3>2. ASSUME NEW k \in Slots, queue.mbxticket[k] = i PROVE FALSE
      BY <1>0, <2>1, <3>1, <3>2, HeldBy
    <3> QED BY <2>1, <3>2
  <2>2. CASE ~queue.mbxremove[i]
    BY <1>0, <2>2 DEF TicketsOk, Waits
  <2> QED BY <2>1, <2>2
<1>2. ASSUME NEW c \in Slaves, call[c].pc = "wait" PROVE Entry(c) \in Live /\ queue.mbxslave[Entry(c)] = c
  BY <1>0, <1>2 DEF TicketsOk, Waits
<1> QED BY <1>0, <1>1, <1>2 DEF QueueSound

(***************************************************************************)
(* ecx_mbxaddqueue, ecx_mbxdonequeue, ecx_mbxexpirequeue,                  *)
(* ecx_mbxrotatequeue and ecx_mbxdropqueue, for any number of threads and  *)
(* buffers and any frames lost: the entries are the places from tail to    *)
(* head, each has the ticket of a waiting thread or is to be removed, and  *)
(* a thread's ticket leads to its own entry wherever it was moved.  The    *)
(* hypothesis: the handler is not held up between moving an entry and      *)
(* looking at its old place.                                               *)
(***************************************************************************)
THEOREM QueueStaysSound == ASSUME Prompt PROVE Spec => []QueueSound
BY QueueInit, QueueStep, QueueInvGivesSound, PTL DEF Spec
-----------------------------------------------------------------------------
(* Who holds a buffer.                                                     *)
Held(z, b) ==
  \/ z = <<"free", b>> /\ b \in free
  \/ \E i \in Live : z = <<"queue", i>> /\ queue.mbx[i] = b
  \/ \E s \in Slaves : z = <<"inbox", s>> /\ inbox[s].coembxin = b
  \/ \E s \in Slaves : z = <<"out", s>> /\ call[s].out = b
  \/ \E s \in Slaves : z = <<"in", s>> /\ call[s].in = b
  \/ z = <<"handler", 0>> /\ hnd.pc = "store" /\ hnd.mbx = b

(* It says the same as Holders.                                            *)
LEMMA HeldIs == ASSUME NEW b, NEW z PROVE z \in Holders(b) <=> Held(z, b)
BY DEF Holders, Held

(* The same of the next state.                                             *)
LEMMA NextHeldIs == ASSUME NEW b, NEW z PROVE z \in Holders(b)' <=> Held(z, b)'
BY DEF Holders, Held

(* A buffer passes from x to y, or from nobody to nobody.                  *)
Passed(x, y, b) == \A z : Held(z, b)' => (Held(z, b) /\ z # x) \/ (z = y /\ Held(x, b))

(* Then it has one holder still.                                           *)
LEMMA StaysOwned ==
  ASSUME OwnInv, \A b \in Buffers : (\A z : Held(z, b)' => Held(z, b)) \/ \E x, y : Passed(x, y, b)
  PROVE  OwnInv'
<1> SUFFICES ASSUME NEW b \in Buffers, NEW z1 \in Holders(b)', NEW z2 \in Holders(b)' PROVE z1 = z2
  BY DEF OwnInv
<1>0. \A u, v : Held(u, b) /\ Held(v, b) => u = v
  BY HeldIs DEF OwnInv
<1>1. Held(z1, b)' /\ Held(z2, b)'
  BY NextHeldIs
<1>2. CASE \A z : Held(z, b)' => Held(z, b)
  BY <1>0, <1>1, <1>2
<1>3. ASSUME NEW x, NEW y, Passed(x, y, b) PROVE z1 = z2
  BY <1>0, <1>1, <1>3 DEF Passed
<1> QED BY <1>2, <1>3

(* Nobody gets a buffer.                                                   *)
LEMMA NobodyGets ==
  ASSUME QueueInv, OwnInv, free' \subseteq free, Live' = Live,
         \A i \in Live : queue'.mbx[i] = queue.mbx[i],
         \A s \in Slaves : inbox'[s].coembxin = inbox[s].coembxin,
         \A s \in Slaves : call'[s].out \in {call[s].out, Null} /\ call'[s].in \in {call[s].in, Null},
         hnd'.pc = "store" => hnd.pc = "store" /\ hnd'.mbx = hnd.mbx
  PROVE  OwnInv'
<1>1. ASSUME NEW b \in Buffers, NEW z, Held(z, b)' PROVE Held(z, b)
  BY <1>1, MailboxAssumption DEF Held
<1> QED BY <1>1, StaysOwned

(* The threads: from coembxin, from and to the pool, and into the queue.   *)
LEMMA TakeOwned ==
  ASSUME QueueInv, OwnInv, NEW c \in Slaves, Start(c) \/ Receive(c)
  PROVE  OwnInv'
<1>0. /\ Typed /\ Caller(c) /\ inbox \in [Slaves -> InboxRec] /\ call \in [Slaves -> CallRec]
      /\ Null \notin Buffers
  BY QueueInvIs, MailboxAssumption DEF Caller, Typed
<1>1. free' = free /\ queue' = queue /\ hnd' = hnd /\ Live' = Live
  BY LiveIs, NextLiveIs DEF Start, Receive
<1>2. CASE /\ inbox' = inbox
           /\ CallSet(c, "get", call[c].n + 1, call[c].out, call[c].in, call[c].ticket)
  BY <1>1, <1>2, NobodyGets DEF CallSet
<1>3. CASE /\ inbox' = TakeMbx(c)
           /\ \E p, n : CallSet(c, p, n, call[c].out, inbox[c].coembxin, call[c].ticket)
  <2>1. /\ inbox'[c].coembxin = Null
        /\ \A s \in Slaves \ {c} : inbox'[s] = inbox[s] /\ call'[s] = call[s]
        /\ call'[c].out = call[c].out /\ call'[c].in = inbox[c].coembxin
    BY <1>0, <1>3 DEF CallSet, TakeMbx, InboxRec
  <2>2. ASSUME NEW b \in Buffers, NEW z, Held(z, b)'
        PROVE  (Held(z, b) /\ z # <<"inbox", c>>) \/ (z = <<"in", c>> /\ Held(<<"inbox", c>>, b))
    BY <1>0, <1>1, <2>1, <2>2 DEF Held
  <2> QED BY <2>2, StaysOwned DEF Passed
<1> QED BY <1>0, <1>2, <1>3, StartSets, CallerSets DEF Receive

(* Steps of a thread that move no buffer, or lose one.                     *)
LEMMA IdleOwned ==
  ASSUME QueueInv, OwnInv, NEW c \in Slaves, Drained(c) \/ ReceiveNone(c) \/ NoMbx(c)
  PROVE  OwnInv'
<1>0. Typed /\ inbox \in [Slaves -> InboxRec] /\ call \in [Slaves -> CallRec]
  BY QueueInvIs DEF Typed
<1>1. /\ free' = free /\ queue' = queue /\ hnd' = hnd /\ Live' = Live
      /\ inbox' \in {inbox, [inbox EXCEPT ![c].full = FALSE]}
  BY LiveIs, NextLiveIs DEF Drained, ReceiveNone, NoMbx
<1>2. \A s \in Slaves : inbox'[s].coembxin = inbox[s].coembxin
  BY <1>0, <1>1 DEF InboxRec
<1>3. /\ call'[c].out = call[c].out /\ call'[c].in \in {call[c].in, Null}
      /\ \A s \in Slaves \ {c} : call'[s] = call[s]
  BY <1>0, CallerSets DEF CallSet
<1> QED BY <1>1, <1>2, <1>3, NobodyGets

(* A buffer of the pool is a request.                                      *)
LEMMA GetOwned ==
  ASSUME QueueInv, OwnInv, NEW c \in Slaves, GetMbx(c)
  PROVE  OwnInv'
<1>0. Typed /\ call \in [Slaves -> CallRec]
  BY QueueInvIs DEF Typed
<1>1. queue' = queue /\ hnd' = hnd /\ Live' = Live /\ inbox' = inbox
  BY LiveIs, NextLiveIs DEF GetMbx
<1>2. PICK b0 \in free : free' = free \ {b0} /\ CallSet(c, "add", call[c].n, b0, call[c].in, call[c].ticket)
  BY <1>0, GetMbxSets
<1>3. ASSUME NEW b \in Buffers, NEW z, Held(z, b)'
      PROVE  (Held(z, b) /\ z # <<"free", b0>>) \/ (z = <<"out", c>> /\ Held(<<"free", b0>>, b))
  BY <1>1, <1>2, <1>3 DEF Held, CallSet
<1> QED BY <1>3, StaysOwned DEF Passed

(* The request is an entry of the queue.                                   *)
LEMMA AddOwned ==
  ASSUME QueueInv, OwnInv, NEW c \in Slaves, AddQueue(c)
  PROVE  OwnInv'
<1>0. /\ Typed /\ HeadAt(queue.listtail, queue.listcount) = queue.listhead
      /\ Null \notin Buffers
  BY QueueInvIs, MailboxAssumption
<1>1. PICK h : h = queue.listhead
  OBVIOUS
<1>2. free' = free /\ hnd' = hnd /\ inbox' = inbox /\ queue.listcount < PoolSize
  BY DEF AddQueue
<1>3. /\ queue'.listtail = queue.listtail /\ queue'.listcount = queue.listcount + 1
      /\ queue'.mbx = [queue.mbx EXCEPT ![h] = call[c].out]
      /\ call'[c].out = Null /\ call'[c].in = call[c].in /\ \A s \in Slaves \ {c} : call'[s] = call[s]
  BY <1>0, <1>1, AddQueueSets DEF QueueSet, CallSet
<1>4. Live' = Live \cup {h} /\ h \notin Live /\ h \in Slots /\ Live \subseteq Slots
  <2>1. queue.listtail \in Slots /\ queue.listcount \in 0..PoolSize
    BY <1>0, QueueFields
  <2> QED BY <1>0, <1>1, <1>2, <1>3, <2>1, RingAdd, LiveIs, NextLiveIs
<1>5. queue'.mbx[h] = call[c].out /\ \A i \in Live : queue'.mbx[i] = queue.mbx[i]
  BY <1>0, <1>3, <1>4, QueueFields
<1>6. ASSUME NEW b \in Buffers, NEW z, Held(z, b)'
      PROVE  (Held(z, b) /\ z # <<"out", c>>) \/ (z = <<"queue", h>> /\ Held(<<"out", c>>, b))
  BY <1>0, <1>2, <1>3, <1>4, <1>5, <1>6 DEF Held
<1> QED BY <1>6, StaysOwned DEF Passed

(* A thread gives a request and an answer back.                            *)
LEMMA GiveOwned ==
  ASSUME QueueInv, OwnInv, NEW c \in Slaves, Live' = Live, hnd' = hnd,
         \A i \in Live : queue'.mbx[i] = queue.mbx[i],
         \A s \in Slaves : inbox'[s].coembxin = inbox[s].coembxin,
         \A s \in Slaves \ {c} : call'[s] = call[s],
         call'[c].in = Null,
         \/ call'[c].out = call[c].out /\ free' = Drop(free, call[c].in)
         \/ call'[c].out = Null /\ free' = Drop(Drop(free, call[c].out), call[c].in)
  PROVE  OwnInv'
<1>0. Null \notin Buffers
  BY MailboxAssumption
<1>1. \A b \in Buffers :
        b \in free' => b \in free \/ b = call[c].in \/ (b = call[c].out /\ call'[c].out = Null)
  BY DEF Drop
<1>2. \A b \in Buffers : \A z : Held(z, b)' => Held(z, b) \/ z = <<"free", b>>
  BY <1>0 DEF Held
<1>3. \A b \in Buffers : ~Held(<<"in", c>>, b)'
  BY <1>0 DEF Held
<1>4. ASSUME call'[c].out = Null, NEW b \in Buffers PROVE ~Held(<<"out", c>>, b)'
  BY <1>0, <1>4 DEF Held
<1>5. ASSUME NEW b \in Buffers
      PROVE  (\A z : Held(z, b)' => Held(z, b)) \/ \E x, y : Passed(x, y, b)
  <2>1. CASE b = call[c].in
    <3>1. Held(<<"in", c>>, b)
      BY <2>1 DEF Held
    <3>2. Passed(<<"in", c>>, <<"free", b>>, b)
      BY <1>2, <1>3, <3>1 DEF Passed
    <3> QED BY <3>2
  <2>2. CASE b = call[c].out /\ call'[c].out = Null
    <3>1. Held(<<"out", c>>, b)
      BY <2>2 DEF Held
    <3>2. Passed(<<"out", c>>, <<"free", b>>, b)
      BY <1>2, <1>4, <2>2, <3>1 DEF Passed
    <3> QED BY <3>2
  <2>3. CASE b \in free \/ b \notin free'
    <3>1. Held(<<"free", b>>, b)' => Held(<<"free", b>>, b)
      BY <2>3 DEF Held
    <3> QED BY <1>2, <3>1
  <2> QED BY <1>1, <2>1, <2>2, <2>3
<1> QED BY <1>5, StaysOwned

(* The four places where a thread gives buffers back.                      *)
LEMMA ReturnOwned ==
  ASSUME Prompt, QueueInv, OwnInv, NEW c \in Slaves,
         Return(c) \/ AddFails(c) \/ DoneQueue(c) \/ ExpireQueue(c)
  PROVE  OwnInv'
<1>0. Typed /\ TicketsOk /\ inbox \in [Slaves -> InboxRec] /\ call \in [Slaves -> CallRec]
  BY QueueInvIs DEF Typed
<1>1. hnd' = hnd /\ inbox' \in {inbox, [inbox EXCEPT ![c].full = FALSE]}
  BY DEF Return, AddFails, DoneQueue, ExpireQueue
<1>2. \A s \in Slaves : inbox'[s].coembxin = inbox[s].coembxin
  BY <1>0, <1>1 DEF InboxRec
<1>3. /\ call'[c].in = Null /\ \A s \in Slaves \ {c} : call'[s] = call[s]
      /\ \/ call'[c].out = call[c].out /\ free' = Drop(free, call[c].in)
         \/ call'[c].out = Null /\ free' = Drop(Drop(free, call[c].out), call[c].in)
  BY <1>0, CallerSets DEF CallSet, Return, AddFails, DoneQueue, ExpireQueue
<1>4. Live' = Live /\ \A i \in Live : queue'.mbx[i] = queue.mbx[i]
  <2>1. CASE Return(c) \/ AddFails(c)
    BY <2>1, LiveIs, NextLiveIs DEF Return, AddFails
  <2>2. CASE DoneQueue(c) \/ ExpireQueue(c)
    <3>1. queue' = LetGo(c) /\ Waits(c)
      BY <2>2, LetGoKeeps
    <3>2. call[c].ticket \in Slots /\ Entry(c) \in Slots
      BY <1>0, <3>1, LiveIs DEF TicketsOk
    <3>3. queue'.mbx = queue.mbx /\ queue'.listtail = queue.listtail /\ queue'.listcount = queue.listcount
      BY <1>0, <3>1, <3>2, LetGoSets DEF QueueSet
    <3> QED BY <3>3, LiveIs, NextLiveIs
  <2> QED BY <2>1, <2>2
<1> QED BY <1>1, <1>2, <1>3, <1>4, GiveOwned

(* The handler: steps that move no buffer.                                 *)
LEMMA QuietOwned ==
  ASSUME QueueInv, OwnInv,
         \/ \E ok \in BOOLEAN : RmpToggle(ok) \/ RmpAck(ok) \/ InLost(ok)
         \/ \E arrives, ok \in BOOLEAN : RmpWrite(arrives, ok) \/ OutFail(ok, arrives)
         \/ InSkip \/ InFlag \/ OutStart \/ OutHold \/ OutDone \/ Cycle
  PROVE  OwnInv'
<1>0. Typed /\ HandlerOk /\ inbox \in [Slaves -> InboxRec] /\ hnd.lastmbxpos \in Slaves
  BY QueueInvIs, HndFields DEF Typed
<1>1. free' = free /\ call' = call /\ inbox' \in {inbox, [inbox EXCEPT ![hnd.lastmbxpos].full = TRUE]}
  BY DEF RmpToggle, RmpAck, InLost, RmpWrite, OutFail, InSkip, InFlag, OutStart, OutHold, OutDone, Cycle
<1>2. \A s \in Slaves : inbox'[s].coembxin = inbox[s].coembxin
  BY <1>0, <1>1 DEF InboxRec
<1>3. Live' = Live /\ \A i \in Live : queue'.mbx[i] = queue.mbx[i]
  <2>1. CASE queue' = queue
    BY <2>1, LiveIs, NextLiveIs
  <2>2. ASSUME NEW arrives \in BOOLEAN, NEW ok \in BOOLEAN, OutFail(ok, arrives)
        PROVE  Live' = Live /\ \A i \in Live : queue'.mbx[i] = queue.mbx[i]
    <3>1. queue.listtail \in Slots /\ queue' = [queue EXCEPT !.mbxstate[queue.listtail] = "FAIL"]
      BY <1>0, <2>2, QueueFields DEF OutFail
    <3>2. queue'.mbx = queue.mbx /\ queue'.listtail = queue.listtail /\ queue'.listcount = queue.listcount
      BY <1>0, <3>1, OutFailSets DEF QueueSet
    <3> QED BY <3>2, LiveIs, NextLiveIs
  <2>3. queue' = queue \/ \E arrives, ok \in BOOLEAN : OutFail(ok, arrives)
    BY DEF RmpToggle, RmpAck, InLost, RmpWrite, InSkip, InFlag, OutStart, OutHold, OutDone, Cycle
  <2> QED BY <2>1, <2>2, <2>3
<1>4. hnd'.pc # "store"
  <2>1. CASE /\ hnd.pc = "in" /\ hnd.left > 0 /\ \E work \in {0, 1} : hnd' = Visited(hnd, work)
    BY <1>0, <2>1, VisitedSets DEF HndSet
  <2>2. CASE OutTurn /\ hnd' = [hnd EXCEPT !.pc = "rotate", !.limit = @ - 1, !.ticketloc = queue.listtail]
    BY <1>0, <2>2, HandlerSets DEF HndSet
  <2>3. CASE InFlag \/ OutStart \/ OutDone \/ Cycle
    BY <1>0, <2>3, HandlerSets DEF HndSet
  <2> QED BY <2>1, <2>2, <2>3 DEF RmpToggle, RmpAck, InLost, RmpWrite, OutFail, InSkip, OutHold
<1> QED BY <1>1, <1>2, <1>3, <1>4, NobodyGets

(* An answer is read, stored or given back.                                *)
LEMMA InOwned ==
  ASSUME QueueInv, OwnInv, InRead \/ InStore \/ InDrop
  PROVE  OwnInv'
<1>0. /\ Typed /\ HandlerOk /\ inbox \in [Slaves -> InboxRec] /\ hnd.lastmbxpos \in Slaves
      /\ Null \notin Buffers
  BY QueueInvIs, HndFields, MailboxAssumption DEF Typed
<1>1. queue' = queue /\ call' = call /\ Live' = Live
  BY LiveIs, NextLiveIs DEF InRead, InStore, InDrop
<1>2. CASE InRead
  <2>1. PICK b0 \in free : free' = free \ {b0} /\ hnd' = [Visited(hnd, 1) EXCEPT !.pc = "store", !.mbx = b0]
    BY <1>2 DEF InRead
  <2>2. hnd'.pc = "store" /\ hnd'.mbx = b0 /\ inbox' = inbox
    BY <1>0, <1>2, <2>1, VisitedSets DEF HndSet, InRead, Typed
  <2>3. ASSUME NEW b \in Buffers, NEW z, Held(z, b)'
        PROVE  (Held(z, b) /\ z # <<"free", b0>>) \/ (z = <<"handler", 0>> /\ Held(<<"free", b0>>, b))
    BY <1>1, <2>1, <2>2, <2>3 DEF Held
  <2> QED BY <2>3, StaysOwned DEF Passed
<1>3. CASE InStore
  <2>1. PICK s0 : s0 = hnd.lastmbxpos
    OBVIOUS
  <2>2. hnd'.pc = "flag" /\ hnd.pc = "store" /\ free' = free
    BY <1>0, <1>3, HandlerSets DEF HndSet, InStore
  <2>3. inbox'[s0].coembxin = hnd.mbx /\ \A s \in Slaves \ {s0} : inbox'[s] = inbox[s]
    BY <1>0, <1>3, <2>1 DEF InStore, InboxRec
  <2>4. ASSUME NEW b \in Buffers, NEW z, Held(z, b)'
        PROVE  (Held(z, b) /\ z # <<"handler", 0>>) \/ (z = <<"inbox", s0>> /\ Held(<<"handler", 0>>, b))
    BY <1>1, <2>2, <2>3, <2>4 DEF Held
  <2> QED BY <2>4, StaysOwned DEF Passed
<1>4. CASE InDrop
  <2>1. hnd'.pc = "in" /\ hnd.pc = "store" /\ free' = Drop(free, hnd.mbx) /\ inbox' = inbox
    BY <1>0, <1>4, HandlerSets DEF HndSet, InDrop
  <2>2. ASSUME NEW b \in Buffers
        PROVE  Passed(<<"handler", 0>>, <<"free", b>>, b) \/ \A z : Held(z, b)' => Held(z, b)
    BY <1>1, <2>1 DEF Held, Drop, Passed
  <2> QED BY <2>2, StaysOwned
<1> QED BY <1>2, <1>3, <1>4

(* A request is sent, moved or dropped.                                    *)
LEMMA OutOwned ==
  ASSUME QueueInv, OwnInv, OutSent \/ Rotate \/ Check
  PROVE  OwnInv'
<1>0. Typed /\ HandlerOk /\ Null \notin Buffers
  BY QueueInvIs, MailboxAssumption
<1>1. /\ call' = call /\ inbox' = inbox /\ hnd'.pc # "store"
  <2>1. OutSent => hnd'.pc = "rotate"
    BY <1>0, HandlerSets DEF HndSet, OutSent
  <2>2. Rotate \/ Check => hnd'.pc # "store"
    BY <1>0, HandlerSets DEF HndSet
  <2> QED BY <2>1, <2>2 DEF OutSent, Rotate, Check
<1>2. CASE OutSent
  <2>1. PICK t : t = queue.listtail
    OBVIOUS
  <2>2. t \in Slots /\ queue' = [queue EXCEPT !.mbxstate[t] = "DONE", !.mbx[t] = Null]
        /\ free' = Drop(free, queue.mbx[t]) /\ t \in Live
    BY <1>0, <1>2, <2>1, TailIsLive DEF OutSent, OutTurn
  <2>3. /\ queue'.mbx = [queue.mbx EXCEPT ![t] = Null]
        /\ queue'.listtail = queue.listtail /\ queue'.listcount = queue.listcount
    BY <1>0, <2>2, OutSentSets DEF QueueSet
  <2>4. Live' = Live /\ Live \subseteq Slots /\ queue.mbx \in [Slots -> Buffers \cup {Null}]
    BY <1>0, <2>3, LiveIs, NextLiveIs, QueueFields
  <2>5. queue'.mbx[t] = Null /\ \A i \in Live \ {t} : queue'.mbx[i] = queue.mbx[i]
    BY <2>2, <2>3, <2>4
  <2>6. ASSUME NEW b \in Buffers
        PROVE  Passed(<<"queue", t>>, <<"free", b>>, b) \/ \A z : Held(z, b)' => Held(z, b)
    BY <1>0, <1>1, <2>2, <2>4, <2>5 DEF Held, Drop, Passed
  <2> QED BY <2>6, StaysOwned
<1>3. CASE Rotate
  <2>0. free' = free
    BY <1>3 DEF Rotate
  <2>1. CASE queue' = queue
    <3>1. Live' = Live
      BY <2>1, LiveIs, NextLiveIs
    <3> QED BY <1>1, <2>0, <2>1, <3>1, NobodyGets
  <2>2. ASSUME NEW k, NEW h, NEW t, NEW c, RotatedTo(k, h, t, c) PROVE OwnInv'
    <3>1. /\ h \notin Live /\ t \in Live /\ Live' = (Live \ {t}) \cup {h} /\ h # t
          /\ queue'.mbx[h] = queue.mbx[t] /\ \A i \in Live \ {t} : queue'.mbx[i] = queue.mbx[i]
      BY <2>2, LiveIs DEF RotatedTo
    <3>2. ASSUME NEW b \in Buffers, NEW z, Held(z, b)'
          PROVE  (Held(z, b) /\ z # <<"queue", t>>) \/ (z = <<"queue", h>> /\ Held(<<"queue", t>>, b))
      BY <1>1, <2>0, <3>1, <3>2 DEF Held
    <3> QED BY <3>2, StaysOwned DEF Passed
  <2> QED BY <1>3, <2>1, <2>2, RotateMoves
<1>4. CASE Check
  <2>1. CASE UNCHANGED <<queue, free, data>>
    <3>1. Live' = Live
      BY <2>1, LiveIs, NextLiveIs
    <3> QED BY <1>1, <2>1, <3>1, NobodyGets
  <2>2. ASSUME NEW t, DroppedTail(t) PROVE OwnInv'
    <3>1. /\ t \in Live /\ Live' = Live \ {t} /\ free' = Drop(free, queue.mbx[t])
          /\ \A i \in Live \ {t} : queue'.mbx[i] = queue.mbx[i]
      BY <2>2, LiveIs DEF DroppedTail
    <3>2. ASSUME NEW b \in Buffers
          PROVE  Passed(<<"queue", t>>, <<"free", b>>, b) \/ \A z : Held(z, b)' => Held(z, b)
      BY <1>0, <1>1, <3>1 DEF Held, Drop, Passed
    <3> QED BY <3>2, StaysOwned
  <2> QED BY <1>4, <2>1, <2>2, CheckDrops
<1> QED BY <1>2, <1>3, <1>4

(* At first the pool has all buffers.                                      *)
LEMMA OwnInit == Init => OwnInv
<1> SUFFICES ASSUME Init PROVE OwnInv
  OBVIOUS
<1>1. /\ \A s \in Slaves : inbox[s].coembxin = Null /\ call[s].out = Null /\ call[s].in = Null
      /\ hnd.pc = "in" /\ \A i \in Slots : queue.mbx[i] = Null
  BY DEF Init
<1>2. Live \subseteq Slots /\ Null \notin Buffers
  BY LiveIs, MailboxAssumption
<1>3. ASSUME NEW b \in Buffers, NEW z, Held(z, b) PROVE z = <<"free", b>>
  BY <1>1, <1>2, <1>3 DEF Held
<1> QED BY <1>3, HeldIs DEF OwnInv

(* Every step keeps a buffer in one hand.                                  *)
LEMMA OwnStep == ASSUME Prompt PROVE QueueInv /\ OwnInv /\ [Next]_vars => OwnInv'
<1> SUFFICES ASSUME QueueInv, OwnInv, [Next]_vars PROVE OwnInv'
  OBVIOUS
<1>1. ASSUME UNCHANGED <<free, queue, inbox, call, hnd>> PROVE OwnInv'
  <2>1. Live' = Live
    BY <1>1, LiveIs, NextLiveIs
  <2> QED BY <1>1, <2>1, NobodyGets
<1>2. CASE Handler
  BY <1>2, QuietOwned, InOwned, OutOwned DEF Handler
<1>3. ASSUME NEW c \in Slaves, Caller(c) PROVE OwnInv'
  BY <1>3, TakeOwned, IdleOwned, GetOwned, AddOwned, ReturnOwned DEF Caller
<1>4. ASSUME NEW s \in Slaves, Device(s) PROVE OwnInv'
  BY <1>1, <1>4 DEF Device, DevExecute, DevRepeat
<1> QED BY <1>1, <1>2, <1>3, <1>4 DEF Next, vars

(* A set whose elements are equal has one, or none.                        *)
LEMMA OwnInvGivesOnce == OwnInv => OwnedOnce
<1> SUFFICES ASSUME OwnInv, NEW b \in Buffers PROVE Cardinality(Holders(b)) <= 1
  BY DEF OwnedOnce
<1>1. CASE Holders(b) = {}
  BY <1>1, FS_EmptySet
<1>2. ASSUME NEW x \in Holders(b) PROVE Cardinality(Holders(b)) <= 1
  <2>1. Holders(b) = {x}
    BY <1>2 DEF OwnInv
  <2>2. Cardinality({x}) = 1
    BY FS_Singleton
  <2>3. Cardinality(Holders(b)) = 1
    BY <2>1, <2>2
  <2> QED BY <2>3
<1> QED BY <1>1, <1>2

(***************************************************************************)
(* ecx_getmbx, ecx_dropmbx and everything between them, for any number of  *)
(* threads and buffers: no buffer of the pool is in two hands, whatever is *)
(* sent, expires, is moved or is lost.                                     *)
(***************************************************************************)
THEOREM BuffersAreOwnedOnce == ASSUME Prompt PROVE Spec => []OwnedOnce
<1>1. Init => QueueInv /\ OwnInv
  BY QueueInit, OwnInit
<1>2. QueueInv /\ OwnInv /\ [Next]_vars => (QueueInv /\ OwnInv)'
  BY QueueStep, OwnStep
<1> QED BY <1>1, <1>2, OwnInvGivesOnce, PTL DEF Spec

(***************************************************************************)
(* PoolIsSound: the pool and the queue of the mailbox handler, under the   *)
(* hypothesis of the two theorems it joins.                                *)
(***************************************************************************)
THEOREM PoolStaysSound == ASSUME Prompt PROVE Spec => []PoolIsSound
<1>1. OwnedOnce /\ QueueSound => PoolIsSound
  BY DEF PoolIsSound
<1> QED BY <1>1, QueueStaysSound, BuffersAreOwnedOnce, PTL
-----------------------------------------------------------------------------
(* The numbers of the requests, and of what the device has, are numbers.   *)
LEMMA Numbers ==
  ASSUME QueueInv
  PROVE  /\ \A i \in Live : Unsent(i) => Num(i) \in Nat /\ queue.mbx[i] \in Buffers
         /\ \A s \in Slaves : /\ dev[s].in.call \in Nat /\ dev[s].seen \in Nat /\ call[s].n \in Nat
                              /\ dev[s].in \in Messages
         /\ \A i \in Live : Pos(i) \in Nat /\ i \in Slots /\ queue.mbxslave[i] \in Slaves
<1>0. /\ Typed /\ TicketsOk /\ data \in [Buffers -> Messages] /\ dev \in [Slaves -> DevRec]
      /\ call \in [Slaves -> CallRec]
  BY QueueInvIs DEF Typed
<1>1. \A m \in Messages : m.call \in Nat
  BY <1>0, MessageTypes
<1>2. \A i \in Live : Unsent(i) => Num(i) \in Nat /\ queue.mbx[i] \in Buffers
  BY <1>0, <1>1 DEF TicketsOk, Num
<1>3. \A s \in Slaves : /\ dev[s].in.call \in Nat /\ dev[s].seen \in Nat /\ call[s].n \in Nat
                        /\ dev[s].in \in Messages
  BY <1>0, <1>1 DEF DevRec, CallRec
<1>4. ASSUME NEW i \in Live PROVE Pos(i) \in Nat /\ i \in Slots /\ queue.mbxslave[i] \in Slaves
  <2>1. i \in Slots /\ queue.listtail \in Slots /\ queue.mbxslave[i] \in Slaves
    BY <1>0, <1>4, LiveIs, QueueFields
  <2>2. Pos(i) = IF queue.listtail <= i THEN i - queue.listtail ELSE i + PoolSize - queue.listtail
    BY <2>1, Turns DEF Pos
  <2> QED BY <2>1, <2>2, PoolHasSize DEF Slots
<1> QED BY <1>2, <1>3, <1>4

(* What a thread's step may do to its calls.                               *)
CallStays(c) ==
  /\ call[c].n <= call'[c].n
  /\ call'[c].pc = "wait" => Waits(c) /\ call'[c].n = call[c].n /\ Entry(c)' = Entry(c)
  /\ call'[c].pc = "add" => data'[call'[c].out] = [slave |-> c, call |-> call'[c].n]
  /\ call'[c].pc \in {"drained", "get", "add"} =>
       call[c].pc \in {"drained", "get", "add"} \/ call[c].n < call'[c].n
  /\ call'[c].pc \in {"recv", "took"} => Sent(c) /\ call'[c].n = call[c].n

(* Entries that leave, and threads that go on, disturb nothing.            *)
LEMMA ContentStays ==
  ASSUME QueueInv, QueueInv', ContentInv,
         \A s \in Slaves : dev'[s].in = dev[s].in /\ dev'[s].seen = dev[s].seen,
         Live' \subseteq Live,
         \A i, j \in Live' : Pos(i)' < Pos(j)' => Pos(i) < Pos(j),
         \A i \in Live' : /\ queue'.mbx[i] = queue.mbx[i] /\ queue'.mbxslave[i] = queue.mbxslave[i]
                          /\ queue'.mbxstate[i] = queue.mbxstate[i]
                          /\ Unsent(i) => data'[queue.mbx[i]] = data[queue.mbx[i]],
         \A c \in Slaves : CallStays(c)
  PROVE  ContentInv'
<1>0. TicketsOk /\ RequestsOk /\ OrderOk /\ DeviceOk /\ DeliveredOk /\ TicketsOk'
  BY QueueInvIs DEF ContentInv, QueueInv
<1>1. /\ \A i \in Live : Unsent(i) => Num(i) \in Nat
      /\ \A s \in Slaves : dev[s].in.call \in Nat /\ dev[s].seen \in Nat /\ call[s].n \in Nat
      /\ \A i \in Live : queue.mbxslave[i] \in Slaves
  BY Numbers
<1>2. \A s \in Slaves : call'[s].n \in Nat
  BY DEF QueueInv, TypeOK
<1>3. \A i \in Live' : (Unsent(i)' <=> Unsent(i)) /\ (Unsent(i) => Num(i)' = Num(i))
  BY DEF Unsent, Num
<1>4. \A c \in Slaves : Sent(c)' => Sent(c) /\ call'[c].n = call[c].n
  <2>1. \A c \in Slaves : (Waits(c))' => Entry(c)' \in Live'
    BY <1>0 DEF TicketsOk
  <2> QED BY <2>1 DEF Sent, CallStays, Waits
<1>5. RequestsOk'
  <2>1. ASSUME NEW c \in Slaves, call'[c].pc = "add" PROVE data'[call'[c].out] = Me(c)'
    BY <2>1 DEF CallStays, Me
  <2>2. ASSUME NEW c \in Slaves, call'[c].pc = "wait", Unsent(Entry(c))'
        PROVE  data'[queue'.mbx[Entry(c)']] = Me(c)'
    <3>0. Waits(c)' => Entry(c)' \in Live'
      BY <1>0 DEF TicketsOk
    <3>1. Waits(c) /\ call'[c].n = call[c].n /\ Entry(c)' = Entry(c) /\ Entry(c) \in Live'
      BY <2>2, <3>0 DEF CallStays, Waits
    <3>2. Unsent(Entry(c)) /\ data[queue.mbx[Entry(c)]] = Me(c)
      BY <1>0, <1>3, <2>2, <3>1 DEF RequestsOk
    <3> QED BY <3>1, <3>2 DEF Me
  <2> QED BY <2>1, <2>2 DEF RequestsOk, Waits
<1>6. OrderOk'
  <2>1. ASSUME NEW i \in Live', NEW j \in Live', Unsent(i)', Unsent(j)', queue'.mbxslave[i] = queue'.mbxslave[j],
               Pos(i)' < Pos(j)'
        PROVE  Num(i)' < Num(j)'
    BY <1>0, <1>3, <2>1 DEF OrderOk
  <2>2. ASSUME NEW i \in Live', Unsent(i)', NEW s, s = queue'.mbxslave[i]
        PROVE  /\ dev'[s].seen <= Num(i)' /\ dev'[s].in.call <= Num(i)' /\ Num(i)' <= call'[s].n
               /\ call'[s].pc \in {"drained", "get", "add"} => Num(i)' < call'[s].n
    <3>1. /\ s \in Slaves /\ Num(i) \in Nat /\ Num(i)' = Num(i) /\ call[s].n \in Nat /\ call'[s].n \in Nat
          /\ call[s].n <= call'[s].n
      BY <1>1, <1>2, <1>3, <2>2 DEF CallStays
    <3>2. /\ dev[s].seen <= Num(i) /\ dev[s].in.call <= Num(i) /\ Num(i) <= call[s].n
          /\ call[s].pc \in {"drained", "get", "add"} => Num(i) < call[s].n
      BY <1>0, <1>3, <2>2 DEF OrderOk
    <3>3. call'[s].pc \in {"drained", "get", "add"} =>
            call[s].pc \in {"drained", "get", "add"} \/ call[s].n < call'[s].n
      BY <3>1 DEF CallStays
    <3> QED BY <3>1, <3>2, <3>3
  <2> QED BY <2>1, <2>2 DEF OrderOk
<1>7. DeviceOk'
  <2>1. ASSUME NEW s \in Slaves
        PROVE  /\ dev'[s].in # None => dev'[s].seen <= dev'[s].in.call
               /\ dev'[s].in.call <= call'[s].n /\ dev'[s].seen <= call'[s].n
    <3>1. /\ dev[s].in # None => dev[s].seen <= dev[s].in.call
          /\ dev[s].in.call <= call[s].n /\ dev[s].seen <= call[s].n
      BY <1>0 DEF DeviceOk
    <3>2. call[s].n <= call'[s].n /\ dev'[s].in = dev[s].in /\ dev'[s].seen = dev[s].seen
      BY DEF CallStays
    <3>3. dev[s].in.call \in Nat /\ dev[s].seen \in Nat /\ call[s].n \in Nat /\ call'[s].n \in Nat
      BY <1>1, <1>2
    <3> QED BY <3>1, <3>2, <3>3
  <2>2. None' = None
    BY DEF None
  <2> QED BY <2>1, <2>2 DEF DeviceOk
<1>8. DeliveredOk'
  BY <1>0, <1>4 DEF DeliveredOk, Me
<1> QED BY <1>5, <1>6, <1>7, <1>8 DEF ContentInv

(* Who does not give a buffer away keeps what is in it.                    *)
LEMMA OthersKeepData ==
  ASSUME OwnInv, NEW X, \A b \in Buffers : data'[b] = data[b] \/ \E x \in X : Held(x, b)
  PROVE  \A b \in Buffers : \A z : Held(z, b) /\ z \notin X => data'[b] = data[b]
<1>1. \A b \in Buffers : \A x, z : Held(x, b) /\ Held(z, b) => x = z
  BY HeldIs DEF OwnInv
<1> QED BY <1>1

(* So do entries that are not sent and threads with a request to add.      *)
LEMMA RequestsKeep ==
  ASSUME QueueInv, OwnInv, ContentInv, NEW X,
         \A b \in Buffers : data'[b] = data[b] \/ \E x \in X : Held(x, b)
  PROVE  /\ \A i \in Live : <<"queue", i>> \notin X /\ Unsent(i) => data'[queue.mbx[i]] = data[queue.mbx[i]]
         /\ \A c \in Slaves : <<"out", c>> \notin X /\ call[c].pc = "add" =>
              data'[call[c].out] = [slave |-> c, call |-> call[c].n]
<1>0. /\ TicketsOk /\ RequestsOk
      /\ \A b \in Buffers : \A z : Held(z, b) /\ z \notin X => data'[b] = data[b]
  BY QueueInvIs, OthersKeepData DEF ContentInv
<1>1. ASSUME NEW i \in Live, <<"queue", i>> \notin X, Unsent(i)
      PROVE  data'[queue.mbx[i]] = data[queue.mbx[i]]
  <2>1. queue.mbx[i] \in Buffers /\ Held(<<"queue", i>>, queue.mbx[i])
    BY <1>0, <1>1 DEF TicketsOk, Held
  <2> QED BY <1>0, <1>1, <2>1
<1>2. ASSUME NEW c \in Slaves, <<"out", c>> \notin X, call[c].pc = "add"
      PROVE  data'[call[c].out] = [slave |-> c, call |-> call[c].n]
  <2>1. call[c].out \in Buffers /\ Held(<<"out", c>>, call[c].out)
    BY <1>0, <1>2 DEF TicketsOk, Held
  <2>2. data[call[c].out] = [slave |-> c, call |-> call[c].n]
    BY <1>0, <1>2 DEF RequestsOk, Me
  <2> QED BY <1>0, <1>2, <2>1, <2>2
<1> QED BY <1>1, <1>2

(* The steps of a thread, but for the one that adds its request.           *)
LEMMA CallerContent ==
  ASSUME Prompt, QueueInv, QueueInv', OwnInv, ContentInv, NEW c \in Slaves,
         \/ Start(c) \/ Receive(c) \/ Drained(c) \/ ReceiveNone(c) \/ GetMbx(c) \/ NoMbx(c)
         \/ AddFails(c) \/ DoneQueue(c) \/ ExpireQueue(c) \/ Return(c)
  PROVE  ContentInv'
<1>0. Typed /\ TicketsOk /\ call \in [Slaves -> CallRec] /\ Null \notin Buffers
  BY QueueInvIs, MailboxAssumption DEF Typed
<1>1. dev' = dev
  BY DEF Start, Receive, Drained, ReceiveNone, GetMbx, NoMbx, AddFails, DoneQueue, ExpireQueue, Return
<1>2. \A d \in Slaves \ {c} : call'[d] = call[d]
  BY <1>0, StartSets, CallerSets, GetMbxSets DEF CallSet
<1>3. /\ queue'.listtail = queue.listtail /\ queue'.listcount = queue.listcount /\ queue'.mbx = queue.mbx
      /\ queue'.mbxslave = queue.mbxslave /\ queue'.mbxstate = queue.mbxstate
      /\ \A d \in Slaves \ {c} : Waits(d) => Entry(d)' = Entry(d)
  <2>1. CASE queue' = queue
    BY <1>2, <2>1 DEF Entry
  <2>2. CASE DoneQueue(c) \/ ExpireQueue(c)
    <3>1. queue' = LetGo(c) /\ Waits(c)
      BY <2>2, LetGoKeeps
    <3>2. call[c].ticket \in Slots /\ Entry(c) \in Slots
      BY <1>0, <3>1, LiveIs DEF TicketsOk
    <3>3. /\ queue'.listtail = queue.listtail /\ queue'.listcount = queue.listcount /\ queue'.mbx = queue.mbx
          /\ queue'.mbxslave = queue.mbxslave /\ queue'.mbxstate = queue.mbxstate
          /\ queue'.mbxticket = [queue.mbxticket EXCEPT ![call[c].ticket] = -1]
      BY <1>0, <3>1, <3>2, LetGoSets DEF QueueSet
    <3>4. ASSUME NEW d \in Slaves \ {c}, Waits(d) PROVE Entry(d)' = Entry(d)
      <4>1. queue.mbxslave[Entry(d)] = d /\ queue.mbxslave[Entry(c)] = c /\ call[d].ticket \in Slots
        BY <1>0, <3>1, <3>4 DEF TicketsOk
      <4>2. call[d].ticket # call[c].ticket
        BY <4>1 DEF Entry
      <4> QED BY <1>0, <1>2, <3>3, <4>1, <4>2, QueueFields DEF Entry
    <3> QED BY <3>3, <3>4
  <2> QED BY <2>1, <2>2 DEF Start, Receive, Drained, ReceiveNone, GetMbx, NoMbx, AddFails, Return
<1>4. PICK X : X = {<<"in", c>>, <<"out", c>>} \cup {<<"free", b>> : b \in free}
  OBVIOUS
<1>5. \A b \in Buffers : data'[b] = data[b] \/ \E x \in X : Held(x, b)
  <2>0. /\ \A b \in Buffers : b = call[c].in => Held(<<"in", c>>, b)
        /\ \A b \in Buffers : b = call[c].out => Held(<<"out", c>>, b)
        /\ \A b \in Buffers : b \in free => Held(<<"free", b>>, b)
    BY DEF Held
  <2>1. CASE data' = data
    BY <2>1
  <2>2. CASE data' = Cleared({call[c].in}) \/ data' = Cleared({call[c].out, call[c].in})
    <3>1. \A b \in Buffers : data'[b] = data[b] \/ b = call[c].in \/ b = call[c].out
      BY <2>2 DEF Cleared
    <3> QED BY <1>4, <2>0, <3>1
  <2>3. CASE GetMbx(c)
    <3>1. PICK b0 \in free : data' = [data EXCEPT ![b0] = Me(c)]
      BY <1>0, <2>3, GetMbxSets
    <3>2. \A b \in Buffers : data'[b] = data[b] \/ b = b0
      BY <1>0, <3>1 DEF Typed
    <3> QED BY <1>4, <2>0, <3>1, <3>2
  <2> QED BY <2>1, <2>2, <2>3
          DEF Start, Receive, Drained, ReceiveNone, NoMbx, AddFails, DoneQueue, ExpireQueue, Return
<1>6. /\ \A i \in Live : Unsent(i) => data'[queue.mbx[i]] = data[queue.mbx[i]]
      /\ \A d \in Slaves \ {c} : call[d].pc = "add" =>
           data'[call[d].out] = [slave |-> d, call |-> call[d].n]
  <2>1. (\A i \in Live : <<"queue", i>> \notin X) /\ (\A d \in Slaves \ {c} : <<"out", d>> \notin X)
    BY <1>4
  <2> QED BY <1>5, <2>1, RequestsKeep
<1>7. CallStays(c)
  <2>0. call[c].n \in Nat
    BY Numbers
  <2>1. CASE Start(c)
    <3>1. call'[c].n = call[c].n + 1 /\ call'[c].pc \in {"drained", "get"}
      BY <1>0, <2>1, StartSets DEF CallSet
    <3> QED BY <2>0, <3>1 DEF CallStays
  <2>2. CASE Receive(c)
    <3>1. call'[c].n = call[c].n /\ call'[c].pc = "took"
      BY <1>0, <2>2, CallerSets DEF CallSet
    <3>2. Sent(c)
      BY <2>2 DEF Sent, Receive
    <3> QED BY <2>0, <3>1, <3>2 DEF CallStays
  <2>3. CASE Drained(c)
    BY <1>0, <2>0, <2>3, CallerSets DEF CallSet, CallStays, Drained
  <2>4. CASE ReceiveNone(c) \/ NoMbx(c) \/ AddFails(c) \/ ExpireQueue(c) \/ Return(c)
    <3>1. call'[c].n = call[c].n /\ call'[c].pc = "idle"
      BY <1>0, <2>4, CallerSets DEF CallSet
    <3> QED BY <2>0, <3>1 DEF CallStays
  <2>5. CASE DoneQueue(c)
    <3>1. call'[c].n = call[c].n /\ call'[c].pc = "recv"
      BY <1>0, <2>5, CallerSets DEF CallSet
    <3>2. Sent(c)
      BY <2>5 DEF Sent, DoneQueue, Waits
    <3> QED BY <2>0, <3>1, <3>2 DEF CallStays
  <2>6. CASE GetMbx(c)
    <3>1. PICK b0 \in free : /\ data' = [data EXCEPT ![b0] = Me(c)]
                             /\ CallSet(c, "add", call[c].n, b0, call[c].in, call[c].ticket)
      BY <1>0, <2>6, GetMbxSets
    <3>2. data'[b0] = [slave |-> c, call |-> call[c].n]
      BY <1>0, <3>1 DEF Typed, Me
    <3>3. call'[c].n = call[c].n /\ call'[c].pc = "add" /\ call'[c].out = b0 /\ call[c].pc = "get"
      BY <2>6, <3>1 DEF CallSet, GetMbx
    <3> QED BY <2>0, <3>2, <3>3 DEF CallStays
  <2> QED BY <2>1, <2>2, <2>3, <2>4, <2>5, <2>6
<1>8. ASSUME NEW d \in Slaves \ {c} PROVE CallStays(d)
  <2>1. call[d].n \in Nat /\ call'[d] = call[d]
    BY <1>2, Numbers
  <2> QED BY <1>3, <1>6, <2>1 DEF CallStays, Sent, Waits
<1>9. Live' = Live /\ \A i \in Live : Pos(i)' = Pos(i)
  BY <1>3, LiveIs, NextLiveIs DEF Pos
<1> QED BY <1>1, <1>3, <1>6, <1>7, <1>8, <1>9, ContentStays

(* The handler's steps that write nothing to a slave.                      *)
LEMMA QuietContent ==
  ASSUME QueueInv, QueueInv', OwnInv, ContentInv, QuietSteps \/ Check
  PROVE  ContentInv'
<1>0. /\ Typed /\ TicketsOk /\ HandlerOk /\ Null \notin Buffers /\ dev \in [Slaves -> DevRec] /\ Turn \in Slaves
  BY QueueInvIs, MailboxAssumption, TurnIsSlave DEF Typed
<1>1. call' = call
  BY DEF QuietSteps, RmpToggle, RmpAck, InLost, RmpWrite, InSkip, InRead, InStore, InDrop, InFlag, OutStart,
         OutHold, OutDone, Cycle, Check
<1>2. \A s \in Slaves : dev'[s].in = dev[s].in /\ dev'[s].seen = dev[s].seen
  <2>1. CASE dev' = dev
    BY <2>1
  <2>2. CASE \E f : dev' = [dev EXCEPT ![Turn].full = f]
    BY <1>0, <2>2 DEF DevRec
  <2>3. CASE \E f : dev' = [dev EXCEPT ![Turn].req = f]
    BY <1>0, <2>3 DEF DevRec
  <2> QED BY <2>1, <2>2, <2>3
          DEF QuietSteps, RmpToggle, RmpAck, InLost, RmpWrite, InSkip, InRead, InStore, InDrop, InFlag, OutStart,
              OutHold, OutDone, Cycle, Check
<1>3. ASSUME NEW X, \A i \in Live' : <<"queue", i>> \notin X, \A c \in Slaves : <<"out", c>> \notin X,
             \A b \in Buffers : data'[b] = data[b] \/ \E x \in X : Held(x, b),
             Live' \subseteq Live, \A i, j \in Live' : Pos(i)' < Pos(j)' => Pos(i) < Pos(j),
             \A i \in Live' : /\ queue'.mbx[i] = queue.mbx[i] /\ queue'.mbxslave[i] = queue.mbxslave[i]
                              /\ queue'.mbxstate[i] = queue.mbxstate[i],
             queue'.mbxticket = queue.mbxticket
      PROVE  ContentInv'
  <2>1. /\ \A i \in Live' : Unsent(i) => data'[queue.mbx[i]] = data[queue.mbx[i]]
        /\ \A c \in Slaves : call[c].pc = "add" => data'[call[c].out] = [slave |-> c, call |-> call[c].n]
    BY <1>3, RequestsKeep
  <2>2. ASSUME NEW c \in Slaves PROVE CallStays(c)
    <3>1. call[c].n \in Nat
      BY Numbers
    <3> QED BY <1>1, <1>3, <2>1, <3>1 DEF CallStays, Sent, Waits, Entry
  <2> QED BY <1>2, <1>3, <2>1, <2>2, ContentStays
<1>4. CASE queue' = queue
  <2>1. Live' = Live /\ \A i \in Live : Pos(i)' = Pos(i)
    BY <1>4, LiveIs, NextLiveIs DEF Pos
  <2>2. CASE data' = data
    <3>1. \A b \in Buffers : data'[b] = data[b]
      BY <2>2
    <3>2. PICK X : X = {}
      OBVIOUS
    <3>3. (\A i \in Live : <<"queue", i>> \notin X) /\ (\A c \in Slaves : <<"out", c>> \notin X)
      BY <3>2
    <3> QED BY <1>3, <1>4, <2>1, <3>1, <3>3
  <2>3. CASE InDrop
    <3>1. \A b \in Buffers : data'[b] = data[b] \/ Held(<<"handler", 0>>, b)
      BY <2>3 DEF InDrop, Cleared, Held
    <3>2. PICK X : X = {<<"handler", 0>>}
      OBVIOUS
    <3>3. (\A i \in Live : <<"queue", i>> \notin X) /\ (\A c \in Slaves : <<"out", c>> \notin X)
      BY <3>2
    <3>4. \A b \in Buffers : data'[b] = data[b] \/ \E x \in X : Held(x, b)
      BY <3>1, <3>2
    <3> QED BY <1>3, <1>4, <2>1, <3>3, <3>4
  <2>4. CASE InRead
    <3>1. PICK b0 \in free : data' = [data EXCEPT ![b0] = [slave |-> Turn, call |-> dev[Turn].seen]]
      BY <2>4 DEF InRead
    <3>2. \A b \in Buffers : data'[b] = data[b] \/ Held(<<"free", b0>>, b)
      BY <1>0, <3>1 DEF Typed, Held
    <3>3. PICK X : X = {<<"free", b0>>}
      OBVIOUS
    <3>4. (\A i \in Live : <<"queue", i>> \notin X) /\ (\A c \in Slaves : <<"out", c>> \notin X)
      BY <3>3
    <3>5. \A b \in Buffers : data'[b] = data[b] \/ \E x \in X : Held(x, b)
      BY <3>2, <3>3
    <3> QED BY <1>3, <1>4, <2>1, <3>4, <3>5
  <2>5. CASE Check
    <3>1. data' = data \/ \E t : DroppedTail(t)
      BY <2>5, CheckDrops
    <3>2. ASSUME NEW t, DroppedTail(t) PROVE FALSE
      BY <2>1, <3>2 DEF DroppedTail
    <3> QED BY <2>2, <3>1, <3>2
  <2> QED BY <2>2, <2>3, <2>4, <2>5
          DEF QuietSteps, RmpToggle, RmpAck, InLost, RmpWrite, InSkip, InStore, InFlag, OutStart,
              OutHold, OutDone, Cycle
<1>5. ASSUME NEW t, DroppedTail(t) PROVE ContentInv'
  <2>1. /\ t \in Slots /\ Live' = Live \ {t} /\ Live \subseteq Slots /\ t = queue.listtail
        /\ queue'.listtail = Inc(t) /\ queue.listcount \in 0..PoolSize /\ t \in Live
        /\ data' = Cleared({queue.mbx[t]}) /\ queue'.mbxticket = queue.mbxticket
    BY <1>0, <1>5, LiveIs, QueueFields DEF DroppedTail
  <2>2. queue.listcount > 0
    <3>1. Pos(t) \in Nat /\ Pos(t) < queue.listcount
      BY <2>1, Numbers, LiveIs DEF LiveAt, Pos
    <3> QED BY <2>1, <3>1
  <2>3. \A i \in Slots \ {t} : PosAt(Inc(t), i) = PosAt(t, i) - 1
    BY <2>1, <2>2, RingDrop
  <2>4. \A i \in Live' : Pos(i)' = Pos(i) - 1 /\ Pos(i) \in Nat
    BY <2>1, <2>3, Numbers DEF Pos
  <2>5. \A i, j \in Live' : Pos(i)' < Pos(j)' => Pos(i) < Pos(j)
    BY <2>4
  <2>6. PICK X : X = {<<"queue", t>>}
    OBVIOUS
  <2>7. (\A i \in Live' : <<"queue", i>> \notin X) /\ (\A c \in Slaves : <<"out", c>> \notin X)
    BY <2>1, <2>6
  <2>8. \A b \in Buffers : data'[b] = data[b] \/ \E x \in X : Held(x, b)
    BY <2>1, <2>6 DEF Held, Cleared
  <2>9. /\ Live' \subseteq Live
        /\ \A i \in Live' : /\ queue'.mbx[i] = queue.mbx[i] /\ queue'.mbxslave[i] = queue.mbxslave[i]
                            /\ queue'.mbxstate[i] = queue.mbxstate[i]
    BY <1>5, <2>1 DEF DroppedTail
  <2> QED BY <1>3, <2>1, <2>5, <2>7, <2>8, <2>9
<1>6. queue' = queue \/ \E t : DroppedTail(t)
  BY CheckDrops DEF QuietSteps, RmpToggle, RmpAck, InLost, RmpWrite, InSkip, InRead, InStore, InDrop, InFlag,
                    OutStart, OutHold, OutDone, Cycle
<1> QED BY <1>4, <1>5, <1>6

(* The entry at the tail has its turn first, and a thread that waits for   *)
(* it has no older request in the queue.                                   *)
LEMMA TailIsFirst ==
  ASSUME QueueInv, ContentInv, queue.listtail \in Live
  PROVE  /\ Pos(queue.listtail) = 0 /\ \A i \in Live \ {queue.listtail} : 0 < Pos(i)
         /\ \A c \in Slaves : Waits(c) /\ Entry(c) = queue.listtail /\ Unsent(queue.listtail) =>
              \A i \in Live \ {queue.listtail} : queue.mbxslave[i] = c => ~Unsent(i)
<1>0. Typed /\ TicketsOk /\ RequestsOk /\ OrderOk
  BY QueueInvIs DEF ContentInv
<1>1. PICK t : t = queue.listtail
  OBVIOUS
<1>2. t \in Slots /\ t \in Live /\ Live \subseteq Slots /\ PoolSize \in Nat \ {0}
  BY <1>0, <1>1, QueueFields, LiveIs, PoolHasSize
<1>3. Pos(t) = 0
  <2>1. Pos(t) = t - t
    BY <1>1, <1>2, Turns DEF Pos, Slots
  <2> QED BY <1>2, <2>1 DEF Slots
<1>4. ASSUME NEW i \in Live \ {t} PROVE 0 < Pos(i)
  <2>1. Pos(i) = IF t <= i THEN i - t ELSE i + PoolSize - t
    BY <1>1, <1>2, Turns DEF Pos
  <2>2. i \in Slots /\ i # t
    BY <1>2
  <2> QED BY <1>2, <2>1, <2>2 DEF Slots
<1>5. ASSUME NEW c \in Slaves, Waits(c), Entry(c) = t, Unsent(t), NEW i \in Live \ {t},
             queue.mbxslave[i] = c, Unsent(i)
      PROVE  FALSE
  <2>1. data[queue.mbx[t]] = Me(c) /\ queue.mbxslave[t] = c
    BY <1>0, <1>5 DEF RequestsOk, TicketsOk
  <2>2. Num(t) = call[c].n
    BY <2>1 DEF Num, Me
  <2>3. Num(i) <= call[c].n
    BY <1>0, <1>5 DEF OrderOk
  <2>4. Num(t) < Num(i)
    <3>1. Pos(t) < Pos(i)
      BY <1>3, <1>4
    <3> QED BY <1>0, <1>2, <1>5, <2>1, <3>1 DEF OrderOk
  <2>5. Num(i) \in Nat /\ call[c].n \in Nat
    BY <1>5, Numbers
  <2> QED BY <2>2, <2>3, <2>4, <2>5
<1> QED BY <1>1, <1>3, <1>4, <1>5

(* ecx_mbxaddqueue *)
LEMMA AddContent ==
  ASSUME QueueInv, QueueInv', ContentInv, NEW c \in Slaves, AddQueue(c)
  PROVE  ContentInv'
<1>0. /\ Typed /\ TicketsOk /\ RequestsOk /\ OrderOk /\ DeviceOk /\ DeliveredOk
      /\ HeadAt(queue.listtail, queue.listcount) = queue.listhead
  BY QueueInvIs DEF ContentInv
<1>1. PICK h : h = queue.listhead
  OBVIOUS
<1>2. data' = data /\ dev' = dev /\ queue.listcount < PoolSize /\ call[c].pc = "add"
  BY DEF AddQueue
<1>3. PICK k \in Slots :
        /\ queue.mbxticket[k] < 0
        /\ QueueSet(Inc(h), queue.listtail, queue.listcount + 1, [queue.mbxticket EXCEPT ![k] = h],
                    [queue.mbx EXCEPT ![h] = call[c].out], [queue.mbxslave EXCEPT ![h] = c],
                    [queue.mbxstate EXCEPT ![h] = "REQ"], [queue.mbxremove EXCEPT ![h] = FALSE])
        /\ CallSet(c, "wait", call[c].n, Null, call[c].in, k)
  BY <1>0, <1>1, AddQueueSets
<1>4. /\ queue'.listtail = queue.listtail /\ queue'.listcount = queue.listcount + 1
      /\ call'[c].pc = "wait" /\ call'[c].n = call[c].n /\ call'[c].ticket = k
      /\ \A d \in Slaves \ {c} : call'[d] = call[d]
  BY <1>3 DEF QueueSet, CallSet
<1>5. /\ Live' = Live \cup {h} /\ h \notin Live /\ h \in Slots /\ Live \subseteq Slots
      /\ Pos(h) = queue.listcount /\ \A i \in Live : Pos(i) < queue.listcount
  <2>1. queue.listtail \in Slots /\ queue.listcount \in 0..PoolSize
    BY <1>0, QueueFields
  <2>2. \A i \in Live : Pos(i) < queue.listcount
    BY LiveIs DEF LiveAt, Pos
  <2> QED BY <1>0, <1>1, <1>2, <1>4, <2>1, <2>2, RingAdd, LiveIs, NextLiveIs DEF Pos
<1>6. /\ queue'.mbx[h] = call[c].out /\ queue'.mbxslave[h] = c /\ queue'.mbxstate[h] = "REQ"
      /\ \A i \in Live : /\ queue'.mbx[i] = queue.mbx[i] /\ queue'.mbxslave[i] = queue.mbxslave[i]
                         /\ queue'.mbxstate[i] = queue.mbxstate[i]
      /\ queue'.mbxticket[k] = h /\ \A j \in Slots \ {k} : queue'.mbxticket[j] = queue.mbxticket[j]
  BY <1>0, <1>3, <1>5, QueueFields DEF QueueSet
<1>7. /\ Entry(c)' = h
      /\ \A d \in Slaves \ {c} : Waits(d) => Entry(d)' = Entry(d) /\ Entry(d) \in Live
  <2>1. Entry(c)' = h
    BY <1>4, <1>6 DEF Entry
  <2>2. ASSUME NEW d \in Slaves \ {c}, Waits(d) PROVE Entry(d)' = Entry(d) /\ Entry(d) \in Live
    <3>1. call[d].ticket \in Slots /\ Entry(d) \in Live /\ Entry(d) \in Slots
      BY <1>0, <1>5, <2>2 DEF TicketsOk
    <3>2. call[d].ticket # k
      BY <1>3, <3>1 DEF Entry, Slots
    <3> QED BY <1>4, <1>6, <3>1, <3>2 DEF Entry
  <2> QED BY <2>1, <2>2
<1>8. /\ \A i \in Live : (Unsent(i)' <=> Unsent(i)) /\ Num(i)' = Num(i) /\ Pos(i)' = Pos(i)
      /\ Num(h)' = call[c].n /\ Pos(h)' = Pos(h)
      /\ data[call[c].out] = Me(c)
  <2>1. data[call[c].out] = Me(c)
    BY <1>0, <1>2 DEF RequestsOk
  <2> QED BY <1>2, <1>4, <1>6, <2>1 DEF Unsent, Num, Pos, Me
<1>9. /\ \A i \in Live : Pos(i) \in Nat /\ queue.mbxslave[i] \in Slaves /\ (Unsent(i) => Num(i) \in Nat)
      /\ \A s \in Slaves : dev[s].in.call \in Nat /\ dev[s].seen \in Nat /\ call[s].n \in Nat
      /\ queue.listcount \in Nat
  BY <1>0, Numbers, QueueFields, PoolHasSize
<1>10. RequestsOk'
  <2>1. ASSUME NEW d \in Slaves, call'[d].pc = "add" PROVE data'[call'[d].out] = Me(d)'
    BY <1>0, <1>2, <1>4, <2>1 DEF RequestsOk, Me
  <2>2. ASSUME NEW d \in Slaves, call'[d].pc = "wait", Unsent(Entry(d))'
        PROVE  data'[queue'.mbx[Entry(d)']] = Me(d)'
    <3>1. CASE d = c
      BY <1>2, <1>4, <1>6, <1>7, <1>8, <3>1 DEF Me
    <3>2. CASE d # c
      <4>1. Waits(d) /\ call'[d] = call[d]
        BY <1>4, <2>2, <3>2 DEF Waits
      <4>2. Entry(d)' = Entry(d) /\ Entry(d) \in Live
        BY <1>7, <3>2, <4>1
      <4>3. Unsent(Entry(d))
        BY <1>6, <2>2, <4>2 DEF Unsent
      <4>4. data[queue.mbx[Entry(d)]] = Me(d)
        BY <1>0, <4>1, <4>3 DEF RequestsOk
      <4> QED BY <1>2, <1>6, <4>1, <4>2, <4>4 DEF Me
    <3> QED BY <3>1, <3>2
  <2> QED BY <2>1, <2>2 DEF RequestsOk, Waits
<1>11. OrderOk'
  <2>1. ASSUME NEW i \in Live', NEW j \in Live', Unsent(i)', Unsent(j)', queue'.mbxslave[i] = queue'.mbxslave[j],
               Pos(i)' < Pos(j)'
        PROVE  Num(i)' < Num(j)'
    <3>1. CASE i \in Live /\ j \in Live
      BY <1>0, <1>6, <1>8, <2>1, <3>1 DEF OrderOk
    <3>2. CASE i \in Live /\ j = h
      <4>1. Unsent(i) /\ queue.mbxslave[i] = c
        BY <1>6, <1>8, <2>1, <3>2
      <4> QED BY <1>0, <1>2, <1>8, <3>2, <4>1 DEF OrderOk
    <3>3. CASE i = h
      <4>1. j \in Live \/ j = h
        BY <1>5
      <4> QED BY <1>5, <1>8, <1>9, <2>1, <3>3, <4>1
    <3> QED BY <1>5, <3>1, <3>2, <3>3
  <2>2. ASSUME NEW i \in Live', Unsent(i)', NEW s, s = queue'.mbxslave[i]
        PROVE  /\ dev'[s].seen <= Num(i)' /\ dev'[s].in.call <= Num(i)' /\ Num(i)' <= call'[s].n
               /\ call'[s].pc \in {"drained", "get", "add"} => Num(i)' < call'[s].n
    <3>1. CASE i = h
      BY <1>0, <1>2, <1>4, <1>6, <1>8, <1>9, <2>2, <3>1 DEF DeviceOk
    <3>2. CASE i \in Live
      <4>1. Unsent(i) /\ s = queue.mbxslave[i] /\ s \in Slaves
        BY <1>6, <1>8, <1>9, <2>2, <3>2
      <4>2. /\ dev[s].seen <= Num(i) /\ dev[s].in.call <= Num(i) /\ Num(i) <= call[s].n
            /\ call[s].pc \in {"drained", "get", "add"} => Num(i) < call[s].n
        BY <1>0, <3>2, <4>1 DEF OrderOk
      <4>3. call'[s].n = call[s].n /\ (call'[s].pc \in {"drained", "get", "add"} => call'[s].pc = call[s].pc)
        BY <1>4, <4>1
      <4> QED BY <1>2, <1>8, <3>2, <4>2, <4>3
    <3> QED BY <1>5, <3>1, <3>2
  <2> QED BY <2>1, <2>2 DEF OrderOk
<1>12. DeviceOk'
  <2>1. \A s \in Slaves : call'[s].n = call[s].n
    BY <1>4
  <2>2. None' = None
    BY DEF None
  <2> QED BY <1>0, <1>2, <2>1, <2>2 DEF DeviceOk
<1>13. DeliveredOk'
  <2>1. ASSUME NEW d \in Slaves, Sent(d)'
        PROVE  /\ dev'[d].in = Me(d)' \/ (dev'[d].in = None /\ dev'[d].seen = call'[d].n)
               /\ \A i \in Live' : queue'.mbxslave[i] = d => queue'.mbxstate[i] = "DONE"
    <3>1. d # c
      BY <1>4, <1>6, <1>7, <2>1 DEF Sent, Waits
    <3>2. call'[d] = call[d]
      BY <1>4, <3>1
    <3>3. Sent(d)
      BY <1>6, <1>7, <2>1, <3>1, <3>2 DEF Sent, Waits
    <3> QED BY <1>0, <1>2, <1>5, <1>6, <3>1, <3>2, <3>3 DEF DeliveredOk, Me
  <2>2. None' = None
    BY DEF None
  <2> QED BY <2>1, <2>2 DEF DeliveredOk
<1> QED BY <1>10, <1>11, <1>12, <1>13 DEF ContentInv

(* ecx_mbxrotatequeue *)
LEMMA RotateContent ==
  ASSUME QueueInv, QueueInv', ContentInv, Rotate
  PROVE  ContentInv'
<1>0. /\ Typed /\ TicketsOk /\ RequestsOk /\ OrderOk /\ DeviceOk /\ DeliveredOk
  BY QueueInvIs DEF ContentInv
<1>1. data' = data /\ dev' = dev /\ call' = call
  BY DEF Rotate
<1>2. CASE queue' = queue
  BY <1>0, <1>1, <1>2
     DEF ContentInv, RequestsOk, OrderOk, DeviceOk, DeliveredOk, Sent, Waits, Entry, Unsent, Num, Pos, PosAt, Live,
         Me
<1>3. ASSUME NEW k, NEW h, NEW t, NEW c, RotatedTo(k, h, t, c) PROVE ContentInv'
  <2>1. /\ h \in Slots /\ t \in Slots /\ h # t /\ h \notin Live /\ t \in Live /\ Live' = (Live \ {t}) \cup {h}
        /\ t = queue.listtail /\ queue'.listtail = Inc(t) /\ queue'.listcount = queue.listcount
        /\ Live \subseteq Slots
    BY <1>3, LiveIs DEF RotatedTo
  <2>2. /\ c \in Slaves /\ Waits(c) /\ Entry(c) = t /\ Entry(c)' = h
        /\ \A d \in Slaves \ {c} : Waits(d) => Entry(d)' = Entry(d) /\ Entry(d) \in Live \ {t}
    BY <1>3 DEF RotatedTo
  <2>3. /\ queue'.mbx[h] = queue.mbx[t] /\ queue'.mbxslave[h] = c /\ queue.mbxslave[t] = c
        /\ queue'.mbxstate[h] = queue.mbxstate[t]
        /\ \A i \in Live \ {t} : /\ queue'.mbx[i] = queue.mbx[i] /\ queue'.mbxslave[i] = queue.mbxslave[i]
                                 /\ queue'.mbxstate[i] = queue.mbxstate[i]
    BY <1>3, <2>1 DEF RotatedTo
  <2>4. /\ \A i \in Live \ {t} : /\ Pos(i)' = Pos(i) - 1 /\ Pos(i) < queue.listcount /\ Pos(i) \in Nat
        /\ Pos(h)' = queue.listcount - 1 /\ queue.listcount \in Nat
    <3>1. \A i \in Live : Pos(i) < queue.listcount /\ Pos(i) \in Nat
      BY Numbers, LiveIs DEF LiveAt, Pos
    <3>2. queue.listcount \in 0..PoolSize /\ PoolSize \in Nat /\ h = HeadAt(t, queue.listcount)
      BY <1>0, <1>3, <2>1, QueueFields, PoolHasSize, QueueInvIs DEF RotatedTo
    <3>3. queue.listcount > 0
      BY <2>1, <3>1, <3>2
    <3>4. \A i \in Slots \ {t} : PosAt(Inc(t), i) = PosAt(t, i) - 1
      BY <2>1, <3>2, <3>3, RingDrop
    <3>5. PosAt(Inc(t), h) = queue.listcount - 1
      BY <2>1, <3>2, <3>3, RingRotate
    <3> QED BY <2>1, <3>1, <3>2, <3>4, <3>5 DEF Pos
  <2>5. /\ \A i \in Live \ {t} : (Unsent(i)' <=> Unsent(i)) /\ Num(i)' = Num(i)
        /\ (Unsent(h)' <=> Unsent(t)) /\ Num(h)' = Num(t)
    BY <1>1, <2>3 DEF Unsent, Num
  <2>6. Unsent(t) => \A i \in Live \ {t} : queue.mbxslave[i] = c => ~Unsent(i)
    BY <2>1, <2>2, TailIsFirst
  <2>7. \A d \in Slaves : Sent(d)' => Sent(d)
    BY <1>1, <2>2, <2>3 DEF Sent, Waits
  <2>8. RequestsOk'
    <3>1. ASSUME NEW d \in Slaves, Waits(d), Unsent(Entry(d))'
          PROVE  data'[queue'.mbx[Entry(d)']] = Me(d)
      <4>1. CASE d = c
        BY <1>0, <1>1, <2>2, <2>3, <2>5, <3>1, <4>1 DEF RequestsOk, Unsent
      <4>2. CASE d # c
        BY <1>0, <1>1, <2>2, <2>3, <2>5, <3>1, <4>2 DEF RequestsOk, Unsent
      <4> QED BY <4>1, <4>2
    <3> QED BY <1>0, <1>1, <3>1 DEF RequestsOk, Waits, Me
  <2>9. OrderOk'
    <3>1. ASSUME NEW i \in Live', NEW j \in Live', Unsent(i)', Unsent(j)', queue'.mbxslave[i] = queue'.mbxslave[j],
                 Pos(i)' < Pos(j)'
          PROVE  Num(i)' < Num(j)'
      <4>1. CASE i # h /\ j # h
        <5>1. i \in Live \ {t} /\ j \in Live \ {t}
          BY <2>1, <4>1
        <5>2. Unsent(i) /\ Unsent(j) /\ queue.mbxslave[i] = queue.mbxslave[j] /\ Pos(i) < Pos(j)
          BY <2>3, <2>4, <2>5, <3>1, <5>1
        <5> QED BY <1>0, <2>5, <5>1, <5>2 DEF OrderOk
      <4>2. CASE i # h /\ j = h
        BY <2>1, <2>3, <2>5, <2>6, <3>1, <4>2
      <4>3. CASE i = h
        <5>1. j = h \/ j \in Live \ {t}
          BY <2>1
        <5> QED BY <2>4, <3>1, <4>3, <5>1
      <4> QED BY <4>1, <4>2, <4>3
    <3>2. ASSUME NEW i \in Live', Unsent(i)', NEW s, s = queue'.mbxslave[i]
          PROVE  /\ dev[s].seen <= Num(i)' /\ dev[s].in.call <= Num(i)' /\ Num(i)' <= call[s].n
                 /\ call[s].pc \in {"drained", "get", "add"} => Num(i)' < call[s].n
      <4>1. PICK o \in Live : Unsent(o) /\ Num(i)' = Num(o) /\ s = queue.mbxslave[o]
        BY <2>1, <2>3, <2>5, <3>2
      <4> QED BY <1>0, <4>1 DEF OrderOk
    <3> QED BY <1>1, <3>1, <3>2 DEF OrderOk
  <2>10. DeviceOk'
    BY <1>0, <1>1 DEF DeviceOk
  <2>11. DeliveredOk'
    <3>1. ASSUME NEW d \in Slaves, Sent(d)'
          PROVE  /\ dev[d].in = Me(d) \/ (dev[d].in = None /\ dev[d].seen = call[d].n)
                 /\ \A i \in Live' : queue'.mbxslave[i] = d => queue'.mbxstate[i] = "DONE"
      BY <1>0, <2>1, <2>3, <2>7, <3>1 DEF DeliveredOk
    <3> QED BY <1>1, <3>1 DEF DeliveredOk, Me
  <2> QED BY <2>8, <2>9, <2>10, <2>11 DEF ContentInv
<1> QED BY <1>2, <1>3, RotateMoves

(* The request at the tail is written, it may have been, or the slave's    *)
(* mailbox was full.                                                       *)
LEMMA OutContent ==
  ASSUME QueueInv, QueueInv', OwnInv, ContentInv, OutSent \/ \E arrives, ok \in BOOLEAN : OutFail(ok, arrives)
  PROVE  ContentInv'
<1>0. /\ Typed /\ TicketsOk /\ HandlerOk /\ RequestsOk /\ OrderOk /\ DeviceOk /\ DeliveredOk
      /\ dev \in [Slaves -> DevRec]
  BY QueueInvIs DEF ContentInv, Typed
<1>1. PICK t : t = queue.listtail
  OBVIOUS
<1>2. PICK s : s = queue.mbxslave[t]
  OBVIOUS
<1>3. t \in Live /\ t \in Slots /\ Unsent(t) /\ s \in Slaves /\ call' = call /\ Live \subseteq Slots
  <2>1. t \in Live /\ t \in Slots
    BY <1>0, <1>1, TailIsLive DEF OutSent, OutFail, OutTurn
  <2> QED BY <1>0, <1>1, <1>2, <2>1, QueueFields, LiveIs DEF OutSent, OutFail, Unsent
<1>4. /\ queue'.listtail = queue.listtail /\ queue'.listcount = queue.listcount
      /\ queue'.mbxticket = queue.mbxticket /\ queue'.mbxslave = queue.mbxslave
      /\ \A i \in Live \ {t} : queue'.mbxstate[i] = queue.mbxstate[i] /\ queue'.mbx[i] = queue.mbx[i]
      /\ \/ queue'.mbxstate[t] = "DONE"
         \/ /\ queue'.mbxstate[t] = "FAIL" /\ queue'.mbx[t] = queue.mbx[t] /\ data' = data
  <2>1. CASE OutSent
    <3>1. queue' = [queue EXCEPT !.mbxstate[t] = "DONE", !.mbx[t] = Null]
      BY <1>1, <2>1 DEF OutSent
    <3>2. QueueSet(queue.listhead, queue.listtail, queue.listcount, queue.mbxticket,
                  [queue.mbx EXCEPT ![t] = Null], queue.mbxslave,
                  [queue.mbxstate EXCEPT ![t] = "DONE"], queue.mbxremove)
      BY <1>0, <1>3, <3>1, OutSentSets
    <3> QED BY <1>0, <1>3, <3>2, QueueFields DEF QueueSet
  <2>2. CASE \E arrives, ok \in BOOLEAN : OutFail(ok, arrives)
    <3>1. queue' = [queue EXCEPT !.mbxstate[t] = "FAIL"] /\ data' = data
      BY <1>1, <2>2 DEF OutFail
    <3>2. QueueSet(queue.listhead, queue.listtail, queue.listcount, queue.mbxticket, queue.mbx,
                  queue.mbxslave, [queue.mbxstate EXCEPT ![t] = "FAIL"], queue.mbxremove)
      BY <1>0, <1>3, <3>1, OutFailSets
    <3> QED BY <1>0, <1>3, <3>1, <3>2, QueueFields DEF QueueSet
  <2> QED BY <2>1, <2>2
<1>5. /\ \A q \in Slaves \ {s} : dev'[q] = dev[q]
      /\ dev'[s].seen = dev[s].seen
      /\ dev'[s].in = dev[s].in \/ dev'[s].in = data[queue.mbx[t]]
      /\ queue'.mbxstate[t] = "DONE" => dev'[s].in = data[queue.mbx[t]]
  <2>1. CASE OutSent
    <3>1. dev' = [dev EXCEPT ![s].in = data[queue.mbx[t]]]
      BY <1>1, <1>2, <2>1 DEF OutSent
    <3> QED BY <1>0, <1>3, <3>1 DEF DevRec
  <2>2. ASSUME NEW arrives \in BOOLEAN, NEW ok \in BOOLEAN, OutFail(ok, arrives)
        PROVE  /\ \A q \in Slaves \ {s} : dev'[q] = dev[q]
               /\ dev'[s].seen = dev[s].seen
               /\ dev'[s].in = dev[s].in \/ dev'[s].in = data[queue.mbx[t]]
               /\ queue'.mbxstate[t] = "FAIL"
    <3>1. PICK m : m = IF arrives THEN data[queue.mbx[t]] ELSE dev[s].in
      OBVIOUS
    <3>2. dev' = [dev EXCEPT ![s].in = m] /\ queue' = [queue EXCEPT !.mbxstate[t] = "FAIL"]
      BY <1>1, <1>2, <2>2, <3>1 DEF OutFail
    <3>3. QueueSet(queue.listhead, queue.listtail, queue.listcount, queue.mbxticket, queue.mbx,
                  queue.mbxslave, [queue.mbxstate EXCEPT ![t] = "FAIL"], queue.mbxremove)
      BY <1>0, <1>3, <3>2, OutFailSets
    <3>4. queue'.mbxstate[t] = "FAIL"
      BY <1>0, <1>3, <3>3, QueueFields DEF QueueSet
    <3> QED BY <1>0, <1>3, <3>1, <3>2, <3>4 DEF DevRec
  <2> QED BY <2>1, <2>2
<1>6. /\ \A i \in Live \ {t} : Unsent(i) => data'[queue.mbx[i]] = data[queue.mbx[i]]
      /\ \A c \in Slaves : call[c].pc = "add" => data'[call[c].out] = Me(c)
  <2>1. PICK X : X = {<<"queue", t>>}
    OBVIOUS
  <2>2. \A b \in Buffers : data'[b] = data[b] \/ \E x \in X : Held(x, b)
    <3>1. data' = data \/ data' = Cleared({queue.mbx[t]})
      BY <1>1 DEF OutSent, OutFail
    <3> QED BY <1>3, <2>1, <3>1 DEF Cleared, Held
  <2>3. (\A i \in Live \ {t} : <<"queue", i>> \notin X) /\ (\A c \in Slaves : <<"out", c>> \notin X)
    BY <2>1
  <2> QED BY <2>2, <2>3, RequestsKeep DEF Me
<1>7. /\ Live' = Live /\ \A i \in Live : Pos(i)' = Pos(i)
      /\ \A c \in Slaves : Entry(c)' = Entry(c)
      /\ \A i \in Live : Unsent(i)' => Unsent(i) /\ Num(i)' = Num(i) /\ data'[queue'.mbx[i]] = data[queue.mbx[i]]
  <2>1. Live' = Live /\ (\A i \in Live : Pos(i)' = Pos(i)) /\ \A c \in Slaves : Entry(c)' = Entry(c)
    BY <1>3, <1>4, LiveIs, NextLiveIs DEF Pos, Entry
  <2> QED BY <1>3, <1>4, <1>6, <2>1 DEF Unsent, Num
<1>8. /\ dev[s].seen <= Num(t) /\ dev[s].in.call <= Num(t) /\ Num(t) <= call[s].n
      /\ \A i \in Live \ {t} : Unsent(i) /\ queue.mbxslave[i] = s => Num(t) < Num(i)
  <2>1. \A i \in Live \ {t} : Pos(t) < Pos(i)
    BY <1>1, <1>3, TailIsFirst
  <2> QED BY <1>0, <1>2, <1>3, <2>1 DEF OrderOk
<1>9. /\ Num(t) \in Nat /\ \A i \in Live : Unsent(i) => Num(i) \in Nat
      /\ \A q \in Slaves : dev[q].in.call \in Nat /\ dev[q].seen \in Nat /\ call[q].n \in Nat
      /\ data[queue.mbx[t]].call = Num(t)
  BY <1>3, Numbers DEF Num
<1>10. RequestsOk'
  <2>1. ASSUME NEW c \in Slaves, Waits(c), Unsent(Entry(c))' PROVE data'[queue'.mbx[Entry(c)']] = Me(c)
    <3>0. Entry(c) \in Live /\ Entry(c)' = Entry(c)
      BY <1>0, <1>7, <2>1 DEF TicketsOk
    <3>1. Entry(c) \in Live /\ Entry(c)' = Entry(c) /\ Unsent(Entry(c))
      BY <1>7, <2>1, <3>0 DEF Unsent
    <3>2. data'[queue'.mbx[Entry(c)]] = data[queue.mbx[Entry(c)]]
      BY <1>7, <2>1, <3>1 DEF Unsent
    <3> QED BY <1>0, <2>1, <3>1, <3>2 DEF RequestsOk
  <2> QED BY <1>3, <1>6, <2>1 DEF RequestsOk, Waits, Me
<1>11. OrderOk'
  <2>1. ASSUME NEW i \in Live, NEW j \in Live, Unsent(i)', Unsent(j)', queue.mbxslave[i] = queue.mbxslave[j],
               Pos(i) < Pos(j)
        PROVE  Num(i)' < Num(j)'
    BY <1>0, <1>7, <2>1 DEF OrderOk
  <2>2. ASSUME NEW i \in Live, Unsent(i)', NEW q, q = queue.mbxslave[i]
        PROVE  /\ dev'[q].seen <= Num(i)' /\ dev'[q].in.call <= Num(i)' /\ Num(i)' <= call[q].n
               /\ call[q].pc \in {"drained", "get", "add"} => Num(i)' < call[q].n
    <3>1. Unsent(i) /\ Num(i)' = Num(i) /\ Num(i) \in Nat /\ q \in Slaves
      BY <1>7, <1>9, <2>2, Numbers
    <3>2. /\ dev[q].seen <= Num(i) /\ dev[q].in.call <= Num(i) /\ Num(i) <= call[q].n
          /\ call[q].pc \in {"drained", "get", "add"} => Num(i) < call[q].n
      BY <1>0, <2>2, <3>1 DEF OrderOk
    <3>3. q = s => Num(t) <= Num(i)
      <4>1. CASE i = t
        BY <1>9, <4>1
      <4>2. CASE i # t /\ q = s
        <5>1. Num(t) < Num(i)
          BY <1>8, <2>2, <3>1, <4>2
        <5> QED BY <1>9, <3>1, <5>1
      <4> QED BY <4>1, <4>2
    <3>4. dev'[q].seen = dev[q].seen /\ (dev'[q].in.call = dev[q].in.call \/ (q = s /\ dev'[q].in.call = Num(t)))
      BY <1>5, <1>9, <3>1
    <3> QED BY <1>9, <3>1, <3>2, <3>3, <3>4
  <2> QED BY <1>3, <1>4, <1>7, <2>1, <2>2 DEF OrderOk
<1>12. DeviceOk'
  <2>1. ASSUME NEW q \in Slaves
        PROVE  /\ dev'[q].in # None => dev'[q].seen <= dev'[q].in.call
               /\ dev'[q].in.call <= call[q].n /\ dev'[q].seen <= call[q].n
    <3>1. /\ dev[q].in # None => dev[q].seen <= dev[q].in.call
          /\ dev[q].in.call <= call[q].n /\ dev[q].seen <= call[q].n
      BY <1>0 DEF DeviceOk
    <3>2. dev'[q].seen = dev[q].seen /\ (dev'[q].in = dev[q].in \/ (q = s /\ dev'[q].in.call = Num(t)))
      BY <1>5, <1>9
    <3> QED BY <1>8, <3>1, <3>2
  <2>2. None' = None
    BY DEF None
  <2> QED BY <1>3, <2>1, <2>2 DEF DeviceOk
<1>13. DeliveredOk'
  <2>1. ASSUME NEW c \in Slaves, Sent(c)'
        PROVE  /\ dev'[c].in = Me(c) \/ (dev'[c].in = None /\ dev'[c].seen = call[c].n)
               /\ \A i \in Live : queue.mbxslave[i] = c => queue'.mbxstate[i] = "DONE"
    <3>1. CASE Sent(c)
      <4>1. c # s
        BY <1>0, <1>2, <1>3, <3>1 DEF DeliveredOk, Unsent
      <4>2. dev'[c] = dev[c] /\ \A i \in Live : queue.mbxslave[i] = c => queue'.mbxstate[i] = queue.mbxstate[i]
        BY <1>2, <1>4, <1>5, <4>1
      <4> QED BY <1>0, <3>1, <4>2 DEF DeliveredOk
    <3>2. CASE ~Sent(c)
      <4>1. Waits(c) /\ queue'.mbxstate[Entry(c)] = "DONE" /\ Entry(c) \in Live
        BY <1>0, <1>3, <1>7, <2>1, <3>2 DEF Sent, Waits, TicketsOk
      <4>2. Entry(c) = t
        BY <1>4, <3>2, <4>1 DEF Sent
      <4>3. c = s /\ data[queue.mbx[t]] = Me(c)
        BY <1>0, <1>2, <1>3, <4>1, <4>2 DEF TicketsOk, RequestsOk
      <4>4. \A i \in Live \ {t} : queue.mbxslave[i] = c => ~Unsent(i)
        BY <1>1, <1>3, <4>1, <4>2, TailIsFirst
      <4>5. \A i \in Live : queue.mbxstate[i] \in {"REQ", "FAIL", "DONE"}
        BY <1>0, <1>3, QueueFields DEF TicketsOk
      <4>6. \A i \in Live \ {t} : queue.mbxslave[i] = c => queue'.mbxstate[i] = "DONE"
        BY <1>4, <4>4, <4>5 DEF Unsent
      <4> QED BY <1>5, <4>1, <4>2, <4>3, <4>6
    <3> QED BY <3>1, <3>2
  <2>2. None' = None
    BY DEF None
  <2> QED BY <1>3, <1>4, <1>7, <2>1, <2>2 DEF DeliveredOk, Me
<1> QED BY <1>10, <1>11, <1>12, <1>13 DEF ContentInv

(* What the device's record is after it has executed a request.            *)
LEMMA ExecuteSets ==
  ASSUME Typed, NEW s \in Slaves, DevExecute(s)
  PROVE  /\ dev'[s].in = None /\ dev'[s].seen = dev[s].in.call
         /\ dev'[s].full = (dev[s].in.call # dev[s].seen)
         /\ dev'[s].req = dev[s].req /\ dev'[s].ack = dev[s].ack
         /\ \A q \in Slaves \ {s} : dev'[q] = dev[q]
<1>1. PICK f : f = (dev[s].in.call # dev[s].seen)
  OBVIOUS
<1>2. PICK r : r = [dev[s] EXCEPT !.in = None, !.seen = dev[s].in.call, !.full = f]
  OBVIOUS
<1>3. dev \in [Slaves -> DevRec] /\ dev' = [dev EXCEPT ![s] = r]
  BY <1>1, <1>2 DEF DevExecute, Typed
<1>4. r = [in |-> None, seen |-> dev[s].in.call, full |-> f, req |-> dev[s].req, ack |-> dev[s].ack]
  BY <1>2, <1>3 DEF DevRec
<1> QED BY <1>1, <1>3, <1>4

(* The slave takes its request, or repeats its answer.                     *)
LEMMA DeviceContent ==
  ASSUME QueueInv, QueueInv', OwnInv, ContentInv, NEW s \in Slaves, Device(s)
  PROVE  ContentInv'
<1>0. /\ Typed /\ RequestsOk /\ OrderOk /\ DeviceOk /\ DeliveredOk /\ dev \in [Slaves -> DevRec]
  BY QueueInvIs DEF ContentInv, Typed
<1>1. data' = data /\ queue' = queue /\ call' = call
  BY DEF Device, DevExecute, DevRepeat
<1>2. Live' = Live /\ (\A i : Pos(i)' = Pos(i) /\ Num(i)' = Num(i) /\ (Unsent(i)' <=> Unsent(i)))
      /\ \A c \in Slaves : Entry(c)' = Entry(c) /\ (Sent(c)' <=> Sent(c)) /\ Me(c)' = Me(c)
  BY <1>1, LiveIs, NextLiveIs DEF Pos, Num, Unsent, Entry, Sent, Me, Waits
<1>3. /\ \A i \in Live : queue.mbxslave[i] \in Slaves /\ (Unsent(i) => Num(i) \in Nat)
      /\ \A q \in Slaves : dev[q].in.call \in Nat /\ dev[q].seen \in Nat /\ call[q].n \in Nat
  BY Numbers
<1>4. /\ \A q \in Slaves \ {s} : dev'[q].in = dev[q].in /\ dev'[q].seen = dev[q].seen
      /\ \/ dev'[s].in = dev[s].in /\ dev'[s].seen = dev[s].seen
         \/ dev'[s].in = None /\ dev'[s].seen = dev[s].in.call /\ dev[s].in # None
  <2>1. CASE DevExecute(s)
    BY <1>0, <2>1, ExecuteSets DEF DevExecute
  <2>2. CASE DevRepeat(s)
    <3>1. PICK r : r = [dev[s] EXCEPT !.ack = dev[s].req, !.full = TRUE]
      OBVIOUS
    <3>2. dev' = [dev EXCEPT ![s] = r]
      BY <2>2, <3>1 DEF DevRepeat
    <3>3. r.in = dev[s].in /\ r.seen = dev[s].seen
      BY <1>0, <3>1 DEF DevRec
    <3> QED BY <1>0, <3>2, <3>3
  <2> QED BY <2>1, <2>2 DEF Device
<1>5. None' = None /\ None.call = 0
  BY DEF None
<1>6. RequestsOk'
  BY <1>0, <1>1, <1>2 DEF RequestsOk, Waits
<1>7. OrderOk'
  <2>1. ASSUME NEW i \in Live, Unsent(i), NEW q, q = queue.mbxslave[i]
        PROVE  dev'[q].seen <= Num(i) /\ dev'[q].in.call <= Num(i)
    <3>1. /\ q \in Slaves /\ Num(i) \in Nat
          /\ dev[q].seen <= Num(i) /\ dev[q].in.call <= Num(i)
      BY <1>0, <1>3, <2>1 DEF OrderOk
    <3> QED BY <1>4, <1>5, <3>1
  <2> QED BY <1>0, <1>1, <1>2, <2>1 DEF OrderOk
<1>8. DeviceOk'
  <2>1. ASSUME NEW q \in Slaves
        PROVE  /\ dev'[q].in # None => dev'[q].seen <= dev'[q].in.call
               /\ dev'[q].in.call <= call[q].n /\ dev'[q].seen <= call[q].n
    <3>1. /\ dev[q].in # None => dev[q].seen <= dev[q].in.call
          /\ dev[q].in.call <= call[q].n /\ dev[q].seen <= call[q].n
      BY <1>0 DEF DeviceOk
    <3> QED BY <1>3, <1>4, <1>5, <3>1
  <2> QED BY <1>1, <1>5, <2>1 DEF DeviceOk
<1>9. DeliveredOk'
  <2>1. ASSUME NEW c \in Slaves, Sent(c)
        PROVE  dev'[c].in = Me(c) \/ (dev'[c].in = None /\ dev'[c].seen = call[c].n)
    <3>1. dev[c].in = Me(c) \/ (dev[c].in = None /\ dev[c].seen = call[c].n)
      BY <1>0, <2>1 DEF DeliveredOk
    <3>2. Me(c).call = call[c].n
      BY DEF Me
    <3> QED BY <1>4, <3>1, <3>2
  <2> QED BY <1>0, <1>1, <1>2, <1>5, <2>1 DEF DeliveredOk
<1> QED BY <1>6, <1>7, <1>8, <1>9 DEF ContentInv

(* At first nothing has been sent.                                         *)
LEMMA ContentInit == Init => ContentInv
<1> SUFFICES ASSUME Init PROVE ContentInv
  OBVIOUS
<1>1. \A c \in Slaves : call[c].pc = "idle" /\ call[c].n = 0 /\ dev[c].in = None /\ dev[c].seen = 0
  BY DEF Init
<1>2. \A i \in Live : ~Unsent(i)
  BY LiveIs DEF Init, Unsent
<1>3. None.call = 0
  BY DEF None
<1>4. RequestsOk /\ DeliveredOk
  BY <1>1 DEF RequestsOk, DeliveredOk, Sent, Waits
<1>5. OrderOk
  BY <1>2 DEF OrderOk
<1>6. DeviceOk
  BY <1>1, <1>3 DEF DeviceOk
<1> QED BY <1>4, <1>5, <1>6 DEF ContentInv

(* Every step keeps the requests in order.                                 *)
LEMMA ContentStep == ASSUME Prompt PROVE QueueInv /\ OwnInv /\ ContentInv /\ [Next]_vars => ContentInv'
<1> SUFFICES ASSUME QueueInv, OwnInv, ContentInv, [Next]_vars PROVE ContentInv'
  OBVIOUS
<1>0. QueueInv'
  BY QueueStep
<1>1. CASE UNCHANGED vars
  BY <1>1 DEF vars, ContentInv, RequestsOk, OrderOk, DeviceOk, DeliveredOk, Sent, Waits, Entry, Unsent, Num, Pos,
              PosAt, Live, Me
<1>2. CASE Handler
  <2>1. CASE QuietSteps \/ Check
    BY <1>0, <2>1, QuietContent
  <2>2. CASE OutSent \/ \E arrives, ok \in BOOLEAN : OutFail(ok, arrives)
    BY <1>0, <2>2, OutContent
  <2>3. CASE Rotate
    BY <1>0, <2>3, RotateContent
  <2> QED BY <1>2, <2>1, <2>2, <2>3 DEF Handler, QuietSteps
<1>3. ASSUME NEW c \in Slaves, Caller(c) PROVE ContentInv'
  <2>1. CASE AddQueue(c)
    BY <1>0, <2>1, AddContent
  <2> QED BY <1>0, <1>3, <2>1, CallerContent DEF Caller
<1>4. ASSUME NEW s \in Slaves, Device(s) PROVE ContentInv'
  BY <1>0, <1>4, DeviceContent
<1> QED BY <1>1, <1>2, <1>3, <1>4 DEF Next

(* The three invariants together.                                          *)
MbxInv == QueueInv /\ OwnInv /\ ContentInv

(* They hold.                                                              *)
LEMMA MbxInvHolds == ASSUME Prompt PROVE Spec => []MbxInv
<1>1. Init => MbxInv
  BY QueueInit, OwnInit, ContentInit DEF MbxInv
<1>2. MbxInv /\ [Next]_vars => MbxInv'
  BY QueueStep, OwnStep, ContentStep DEF MbxInv
<1> QED BY <1>1, <1>2, PTL DEF Spec

(***************************************************************************)
(* ecx_mbxsend and ecx_mbxouthandler, for any number of threads, buffers   *)
(* and lost frames: when the call reports success its own request has      *)
(* reached its slave, whatever older requests to it are still queued.      *)
(***************************************************************************)
THEOREM SentIsDelivered == ASSUME Prompt PROVE Spec => []SentMeansDelivered
<1>1. MbxInv => SentMeansDelivered
  BY DEF MbxInv, ContentInv, DeliveredOk, SentMeansDelivered, Sent
<1> QED BY <1>1, MbxInvHolds, PTL
-----------------------------------------------------------------------------
(* At first no answer is there.                                            *)
LEMMA RmpInit == Init => RmpInv
<1> SUFFICES ASSUME Init, NEW s \in Slaves
             PROVE  /\ taken[s] = 0 /\ dev[s].seen = 0 /\ ~dev[s].full /\ dev[s].req = dev[s].ack
                    /\ rmp[s].state = 0
  BY DEF RmpInv
<1>1. taken = [q \in Slaves |-> 0] /\ rmp = [q \in Slaves |-> [state |-> 0, toggle |-> FALSE]]
  BY DEF Init
<1>2. dev = [q \in Slaves |-> [in |-> None, seen |-> 0, full |-> FALSE, req |-> FALSE, ack |-> FALSE]]
  BY DEF Init
<1> QED BY <1>1, <1>2

(* What the handler's step does to the slave whose turn it is; nothing     *)
(* else touches the protocol.                                              *)
LEMMA RmpHandler ==
  ASSUME QueueInv, RmpInv, Handler
  PROVE  RmpInv'
<1>0. /\ Typed /\ Turn \in Slaves /\ dev \in [Slaves -> DevRec] /\ rmp \in [Slaves -> RmpRec]
      /\ taken \in [Slaves -> Nat]
  BY QueueInvIs, TurnIsSlave DEF Typed
<1>1. PICK u : u = Turn
  OBVIOUS
<1>2. /\ taken[u] <= dev[u].seen
      /\ dev[u].full \/ rmp[u].state # 0 => taken[u] < dev[u].seen
      /\ rmp[u].state \in {0, 1} => dev[u].req = dev[u].ack
      /\ rmp[u].state = 3 => dev[u].req = rmp[u].toggle
  BY <1>0, <1>1 DEF RmpInv
<1>3. ASSUME \A s \in Slaves \ {u} : dev'[s] = dev[s] /\ rmp'[s] = rmp[s] /\ taken'[s] = taken[s],
             /\ taken'[u] <= dev'[u].seen
             /\ dev'[u].full \/ rmp'[u].state # 0 => taken'[u] < dev'[u].seen
             /\ rmp'[u].state \in {0, 1} => dev'[u].req = dev'[u].ack
             /\ rmp'[u].state = 3 => dev'[u].req = rmp'[u].toggle
      PROVE  RmpInv'
  BY <1>3 DEF RmpInv
<1>4. CASE InRead
  <2>1. /\ dev' = [dev EXCEPT ![u].full = FALSE] /\ taken' = [taken EXCEPT ![u] = dev[u].seen] /\ rmp' = rmp
        /\ rmp[u].state = 0
    BY <1>1, <1>4 DEF InRead
  <2>2. /\ \A s \in Slaves \ {u} : dev'[s] = dev[s] /\ rmp'[s] = rmp[s] /\ taken'[s] = taken[s]
        /\ dev'[u].seen = dev[u].seen /\ ~dev'[u].full /\ dev'[u].req = dev[u].req /\ dev'[u].ack = dev[u].ack
        /\ taken'[u] = dev[u].seen /\ dev[u].seen \in Nat
    BY <1>0, <1>1, <2>1 DEF DevRec
  <2> QED BY <1>2, <1>3, <2>1, <2>2
<1>5. ASSUME NEW emptied \in BOOLEAN, InLost(emptied) PROVE RmpInv'
  <2>1. /\ dev' = [dev EXCEPT ![u].full = ~emptied] /\ rmp' = [rmp EXCEPT ![u].state = 1] /\ taken' = taken
        /\ rmp[u].state = 0 /\ dev[u].full
    BY <1>1, <1>5 DEF InLost
  <2>2. /\ \A s \in Slaves \ {u} : dev'[s] = dev[s] /\ rmp'[s] = rmp[s] /\ taken'[s] = taken[s]
        /\ dev'[u].seen = dev[u].seen /\ dev'[u].req = dev[u].req /\ dev'[u].ack = dev[u].ack
        /\ taken'[u] = taken[u] /\ rmp'[u].state = 1
    BY <1>0, <1>1, <2>1 DEF DevRec, RmpRec
  <2> QED BY <1>2, <1>3, <2>1, <2>2
<1>6. ASSUME NEW ok \in BOOLEAN, RmpToggle(ok) PROVE RmpInv'
  <2>1. PICK r : r = IF ok THEN [state |-> 2, toggle |-> ~dev[u].req] ELSE rmp[u]
    OBVIOUS
  <2>2. rmp' = [rmp EXCEPT ![u] = r] /\ dev' = dev /\ taken' = taken /\ rmp[u].state = 1
    BY <1>1, <1>6, <2>1 DEF RmpToggle
  <2>3. rmp'[u] = r /\ (\A s \in Slaves \ {u} : rmp'[s] = rmp[s]) /\ (r = rmp[u] \/ r.state = 2)
    BY <1>0, <1>1, <2>1, <2>2
  <2> QED BY <1>2, <1>3, <2>2, <2>3
<1>7. ASSUME NEW arrives \in BOOLEAN, NEW ok \in BOOLEAN, RmpWrite(arrives, ok) PROVE RmpInv'
  <2>1. PICK q : q = IF arrives THEN rmp[u].toggle ELSE dev[u].req
    OBVIOUS
  <2>2. PICK n : n = IF ok THEN 3 ELSE rmp[u].state
    OBVIOUS
  <2>3. /\ dev' = [dev EXCEPT ![u].req = q] /\ rmp' = [rmp EXCEPT ![u].state = n] /\ taken' = taken
        /\ rmp[u].state = 2 /\ (ok => arrives)
    BY <1>1, <1>7, <2>1, <2>2 DEF RmpWrite
  <2>4. /\ \A s \in Slaves \ {u} : dev'[s] = dev[s] /\ rmp'[s] = rmp[s]
        /\ dev'[u].seen = dev[u].seen /\ dev'[u].req = q
        /\ rmp'[u].state = n /\ rmp'[u].toggle = rmp[u].toggle
    BY <1>0, <1>1, <2>3 DEF DevRec, RmpRec
  <2> QED BY <1>2, <1>3, <2>1, <2>2, <2>3, <2>4
<1>8. ASSUME NEW ok \in BOOLEAN, RmpAck(ok) PROVE RmpInv'
  <2>1. PICK n : n = IF ok /\ dev[u].ack = rmp[u].toggle THEN 0 ELSE rmp[u].state
    OBVIOUS
  <2>2. rmp' = [rmp EXCEPT ![u].state = n] /\ dev' = dev /\ taken' = taken /\ rmp[u].state = 3
    BY <1>1, <1>8, <2>1 DEF RmpAck
  <2>3. (\A s \in Slaves \ {u} : rmp'[s] = rmp[s]) /\ rmp'[u].state = n /\ rmp'[u].toggle = rmp[u].toggle
    BY <1>0, <1>1, <2>2 DEF RmpRec
  <2> QED BY <1>2, <1>3, <2>1, <2>2, <2>3
<1>9. CASE OutSent \/ \E arrives, ok \in BOOLEAN : OutFail(ok, arrives)
  <2>1. PICK s : s = queue.mbxslave[queue.listtail]
    OBVIOUS
  <2>2. PICK m : dev' = [dev EXCEPT ![s].in = m]
    BY <1>9, <2>1 DEF OutSent, OutFail
  <2>3. rmp' = rmp /\ taken' = taken /\ s \in Slaves
    BY <1>0, <1>9, <2>1, QueueFields DEF OutSent, OutFail
  <2>4. \A q \in Slaves : /\ dev'[q].seen = dev[q].seen /\ dev'[q].full = dev[q].full
                          /\ dev'[q].req = dev[q].req /\ dev'[q].ack = dev[q].ack
    BY <1>0, <2>2, <2>3 DEF DevRec
  <2> QED BY <2>3, <2>4 DEF RmpInv
<1>10. CASE UNCHANGED <<dev, rmp, taken>>
  BY <1>10 DEF RmpInv
<1> QED BY <1>4, <1>5, <1>6, <1>7, <1>8, <1>9, <1>10
        DEF Handler, InSkip, InStore, InDrop, InFlag, OutStart, OutHold, OutDone, Rotate, Check, Cycle

(* The slave executes and repeats.                                         *)
LEMMA RmpDevice ==
  ASSUME QueueInv, ContentInv, RmpInv, NEW s \in Slaves, Device(s)
  PROVE  RmpInv'
<1>0. /\ Typed /\ dev \in [Slaves -> DevRec] /\ rmp' = rmp /\ taken' = taken /\ taken \in [Slaves -> Nat]
      /\ \A q \in Slaves : dev[q].in.call \in Nat /\ dev[q].seen \in Nat
  BY QueueInvIs, Numbers DEF Typed, Device, DevExecute, DevRepeat
<1>1. /\ taken[s] <= dev[s].seen /\ taken[s] \in Nat
      /\ dev[s].full \/ rmp[s].state # 0 => taken[s] < dev[s].seen
      /\ rmp[s].state \in {0, 1} => dev[s].req = dev[s].ack
      /\ rmp[s].state = 3 => dev[s].req = rmp[s].toggle
  BY <1>0 DEF RmpInv
<1>2. ASSUME \A q \in Slaves \ {s} : dev'[q] = dev[q],
             /\ taken[s] <= dev'[s].seen
             /\ dev'[s].full \/ rmp[s].state # 0 => taken[s] < dev'[s].seen
             /\ rmp[s].state \in {0, 1} => dev'[s].req = dev'[s].ack
             /\ rmp[s].state = 3 => dev'[s].req = rmp[s].toggle
      PROVE  RmpInv'
  BY <1>0, <1>2 DEF RmpInv
<1>3. CASE DevExecute(s)
  <2>1. /\ dev'[s].seen = dev[s].in.call /\ dev'[s].full = (dev[s].in.call # dev[s].seen)
        /\ dev'[s].req = dev[s].req /\ dev'[s].ack = dev[s].ack
        /\ \A q \in Slaves \ {s} : dev'[q] = dev[q]
    BY <1>0, <1>3, ExecuteSets
  <2>2. dev[s].seen <= dev[s].in.call
    BY <1>3 DEF ContentInv, DeviceOk, DevExecute
  <2>3. taken[s] <= dev'[s].seen
    BY <1>0, <1>1, <2>1, <2>2
  <2>4. dev'[s].full => taken[s] < dev'[s].seen
    <3>1. dev'[s].full => dev[s].in.call # dev[s].seen
      BY <2>1
    <3> QED BY <1>0, <1>1, <2>1, <2>2, <3>1
  <2>5. rmp[s].state # 0 => taken[s] < dev'[s].seen
    BY <1>0, <1>1, <2>1, <2>2
  <2> QED BY <1>1, <1>2, <2>1, <2>3, <2>4, <2>5
<1>4. CASE DevRepeat(s)
  <2>1. PICK r : r = [dev[s] EXCEPT !.ack = dev[s].req, !.full = TRUE]
    OBVIOUS
  <2>2. dev' = [dev EXCEPT ![s] = r] /\ dev[s].req # dev[s].ack
    BY <1>4, <2>1 DEF DevRepeat
  <2>3. r.seen = dev[s].seen /\ r.req = dev[s].req /\ r.ack = dev[s].req
    BY <1>0, <2>1 DEF DevRec
  <2>4. dev'[s] = r /\ \A q \in Slaves \ {s} : dev'[q] = dev[q]
    BY <1>0, <2>2
  <2>5. rmp[s].state \notin {0, 1}
    BY <1>1, <2>2
  <2> QED BY <1>1, <1>2, <2>3, <2>4, <2>5
<1> QED BY <1>3, <1>4 DEF Device

(* Every step keeps the invariant of the protocol.                         *)
LEMMA RmpStep == MbxInv /\ RmpInv /\ [Next]_vars => RmpInv'
<1> SUFFICES ASSUME MbxInv, RmpInv, [Next]_vars PROVE RmpInv'
  OBVIOUS
<1>1. ASSUME UNCHANGED <<dev, rmp, taken>> PROVE RmpInv'
  BY <1>1 DEF RmpInv
<1>2. CASE Handler
  BY <1>2, RmpHandler DEF MbxInv
<1>3. ASSUME NEW c \in Slaves, Caller(c) PROVE RmpInv'
  BY <1>1, <1>3 DEF Caller, Start, Receive, Drained, ReceiveNone, GetMbx, NoMbx, AddQueue, AddFails, DoneQueue,
                    ExpireQueue, Return
<1>4. ASSUME NEW s \in Slaves, Device(s) PROVE RmpInv'
  BY <1>4, RmpDevice DEF MbxInv
<1> QED BY <1>1, <1>2, <1>3, <1>4 DEF Next, vars

(***************************************************************************)
(* The robust mailbox protocol of ecx_mbxinhandler, for any number of      *)
(* frames lost: the handler reads no answer twice, whether the frame was   *)
(* lost before or after it had emptied the slave's mailbox.                *)
(***************************************************************************)
THEOREM AnswersAreReadOnce == ASSUME Prompt PROVE Spec => AnswerReadOnce
<1>1. MbxInv /\ RmpInv /\ [Next]_vars =>
        [\A s \in Slaves : (InRead /\ Turn = s) => dev[s].seen > taken[s]]_vars
  <2> SUFFICES ASSUME MbxInv, RmpInv, NEW s \in Slaves, InRead, Turn = s PROVE dev[s].seen > taken[s]
    OBVIOUS
  <2>1. dev[s].full
    BY DEF InRead
  <2>2. taken[s] < dev[s].seen
    BY <2>1 DEF RmpInv
  <2>3. taken[s] \in Nat /\ dev[s].seen \in Nat
    BY Numbers, QueueInvIs DEF MbxInv, Typed
  <2> QED BY <2>2, <2>3
<1> QED BY <1>1, MbxInvHolds, RmpInit, RmpStep, PTL DEF Spec, AnswerReadOnce
=============================================================================
