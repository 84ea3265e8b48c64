------------------------------- MODULE NicDrv -------------------------------
(***************************************************************************)
(* The frame layer of SOEM (oshw/linux/nicdrv.c) under the blocking        *)
(* primitives of ec_base.c: several threads share one port.  Each          *)
(* transaction takes an index, builds its datagram in that index's tx      *)
(* buffer, sends it, polls for the answer (its own, or stored by another   *)
(* thread), sends again when a partial timeout expires, and frees the      *)
(* index.  Frames come back in any order, or not at all.                   *)
(*                                                                         *)
(* Only the primary port is modelled (redstate is ECT_RED_NONE).  A frame  *)
(* is its index, the transaction whose datagram it carries, and the number *)
(* of the attempt, which tells the copies of one datagram apart.           *)
(***************************************************************************)
EXTENDS Naturals, FiniteSets

CONSTANTS
  Threads,    \* threads that call the primitives
  NumBuf,     \* EC_MAXBUF
  MaxTxn,     \* bound: transactions per thread
  MaxTries,   \* bound: attempts per transaction, timeout / EC_TIMEOUTRET
  LateFrames, \* an answer may arrive after the timer that waits for it
  SendFails,  \* send() may return -1
  NoOne       \* no thread holds the mutex

ASSUME NicAssumption ==
  /\ IsFiniteSet(Threads) /\ NoOne \notin Threads
  /\ NumBuf \in Nat \ {0} /\ MaxTxn \in Nat /\ MaxTries \in Nat \ {0}
  /\ LateFrames \in BOOLEAN /\ SendFails \in BOOLEAN

Indices == 0..(NumBuf - 1)
BufStates == {"EMPTY", "ALLOC", "TX", "RCVD", "COMPLETE"}
Txns == Threads \X (0..MaxTxn)

VARIABLES
  rxbufstat,  \* state of each rx buffer
  txbuf,      \* the transaction whose datagram is in each tx buffer
  rxbuf,      \* the transaction whose answer is in each rx buffer
  lastidx,    \* the index handed out last
  rxmutex,    \* holder of rx_mutex
  net,        \* frames sent whose answer has not been read from the socket
  pc,         \* where each thread is
  idx,        \* the index it uses
  txn,        \* the number of its transaction
  try,        \* attempts made so far
  temp,       \* the frame it has read into tempinbuf
  answer      \* the transaction whose answer the primitive copies out
vars == <<rxbufstat, txbuf, rxbuf, lastidx, rxmutex, net, pc, idx, txn, try, temp, answer>>

Me(t) == <<t, txn[t]>>
NoFrame == [idx |-> 0, txn |-> <<NoOne, 0>>, try |-> 0]
NoAnswer == <<NoOne, 0>>

Init ==
  /\ rxbufstat = [i \in Indices |-> "EMPTY"]
  /\ txbuf = [i \in Indices |-> NoAnswer] /\ rxbuf = [i \in Indices |-> NoAnswer]
  /\ lastidx = 0 /\ rxmutex = NoOne /\ net = {}
  /\ pc = [t \in Threads |-> "idle"] /\ idx = [t \in Threads |-> 0]
  /\ txn = [t \in Threads |-> 0] /\ try = [t \in Threads |-> 0]
  /\ temp = [t \in Threads |-> NoFrame] /\ answer = [t \in Threads |-> NoAnswer]
-----------------------------------------------------------------------------
(* Distance of index i from the index after lastidx, counted upwards.      *)
Distance(i) == (i + NumBuf - ((lastidx + 1) % NumBuf)) % NumBuf

(* The index the search loop of ecx_getindex stops at: the first empty one *)
(* after lastidx, and the one it started with when none is empty.          *)
StopsAt(i) ==
  LET Empty == {j \in Indices : rxbufstat[j] = "EMPTY"}
  IN  IF Empty = {} THEN i = (lastidx + 1) % NumBuf
      ELSE i \in Empty /\ \A j \in Empty : Distance(i) <= Distance(j)

(* ecx_getindex, in one critical section of getindex_mutex.                *)
GetIndex(t) ==
  /\ pc[t] = "idle" /\ txn[t] < MaxTxn
  /\ \E i \in Indices :
       /\ StopsAt(i)
       /\ idx' = [idx EXCEPT ![t] = i]
       /\ rxbufstat' = [rxbufstat EXCEPT ![i] = "ALLOC"]
       /\ lastidx' = i
  /\ txn' = [txn EXCEPT ![t] = @ + 1]
  /\ try' = [try EXCEPT ![t] = 0]
  /\ answer' = [answer EXCEPT ![t] = NoAnswer]
  /\ pc' = [pc EXCEPT ![t] = "setup"]
  /\ UNCHANGED <<txbuf, rxbuf, rxmutex, net, temp>>

(* ecx_setupdatagram *)
SetupDatagram(t) ==
  /\ pc[t] = "setup"
  /\ txbuf' = [txbuf EXCEPT ![idx[t]] = Me(t)]
  /\ pc' = [pc EXCEPT ![t] = "send"]
  /\ UNCHANGED <<rxbufstat, rxbuf, lastidx, rxmutex, net, idx, txn, try, temp, answer>>

(* ecx_outframe: send() takes the frame.                                   *)
OutFrame(t) ==
  /\ pc[t] = "send"
  /\ try' = [try EXCEPT ![t] = @ + 1]
  /\ rxbufstat' = [rxbufstat EXCEPT ![idx[t]] = "TX"]
  /\ net' = net \cup {[idx |-> idx[t], txn |-> txbuf[idx[t]], try |-> try[t]]}
  /\ pc' = [pc EXCEPT ![t] = "poll"]
  /\ UNCHANGED <<txbuf, rxbuf, lastidx, rxmutex, idx, txn, temp, answer>>

(* ecx_outframe: send() fails, the index is marked empty.  The result is   *)
(* not looked at by ecx_srconfirm, which polls all the same.               *)
OutFrameFails(t) ==
  /\ SendFails /\ pc[t] = "send"
  /\ try' = [try EXCEPT ![t] = @ + 1]
  /\ rxbufstat' = [rxbufstat EXCEPT ![idx[t]] = "EMPTY"]
  /\ pc' = [pc EXCEPT ![t] = "poll"]
  /\ UNCHANGED <<txbuf, rxbuf, lastidx, rxmutex, net, idx, txn, temp, answer>>
-----------------------------------------------------------------------------
(* ecx_inframe: the answer is already in the buffer.                       *)
InBuffer(t) ==
  /\ rxbufstat[idx[t]] = "RCVD"
  /\ rxbufstat' = [rxbufstat EXCEPT ![idx[t]] = "COMPLETE"]
  /\ pc' = [pc EXCEPT ![t] = "got"]
  /\ UNCHANGED <<txbuf, rxbuf, lastidx, net, idx, txn, try, temp, answer>>

(* The first look, without the mutex.                                      *)
InFrameFast(t) == pc[t] = "poll" /\ InBuffer(t) /\ UNCHANGED rxmutex

(* It is not there: the thread goes for the mutex.                         *)
InFrameMiss(t) ==
  /\ pc[t] = "poll" /\ rxbufstat[idx[t]] # "RCVD"
  /\ pc' = [pc EXCEPT ![t] = "want"]
  /\ UNCHANGED <<rxbufstat, txbuf, rxbuf, lastidx, rxmutex, net, idx, txn, try, temp, answer>>

(* pthread_mutex_lock(&(port->rx_mutex)) *)
LockRx(t) ==
  /\ pc[t] = "want" /\ rxmutex = NoOne
  /\ rxmutex' = t
  /\ pc' = [pc EXCEPT ![t] = "locked"]
  /\ UNCHANGED <<rxbufstat, txbuf, rxbuf, lastidx, net, idx, txn, try, temp, answer>>

(* The second look, with it: another thread may have stored the answer     *)
(* between the two.                                                        *)
InFrameAgain(t) == pc[t] = "locked" /\ InBuffer(t) /\ rxmutex' = NoOne

(* ecx_recvpkt has nothing to read, or no EtherCAT frame.                  *)
RecvNone(t) ==
  /\ pc[t] = "locked" /\ rxbufstat[idx[t]] # "RCVD"
  /\ rxmutex' = NoOne
  /\ pc' = [pc EXCEPT ![t] = "timer"]
  /\ UNCHANGED <<rxbufstat, txbuf, rxbuf, lastidx, net, idx, txn, try, temp, answer>>

(* Faulty variant: the index of the frame is not compared.                 *)
RecvAny(t, f) ==
  /\ pc[t] = "locked" /\ rxbufstat[idx[t]] # "RCVD"
  /\ net' = net \ {f}
  /\ rxbuf' = [rxbuf EXCEPT ![idx[t]] = f.txn]
  /\ rxbufstat' = [rxbufstat EXCEPT ![idx[t]] = "COMPLETE"]
  /\ rxmutex' = NoOne
  /\ pc' = [pc EXCEPT ![t] = "got"]
  /\ UNCHANGED <<txbuf, lastidx, idx, txn, try, temp, answer>>

(* A frame with the requested index is taken, whatever its state.          *)
RecvOwn(t, f) ==
  /\ pc[t] = "locked" /\ rxbufstat[idx[t]] # "RCVD" /\ f.idx = idx[t]
  /\ net' = net \ {f}
  /\ rxbuf' = [rxbuf EXCEPT ![f.idx] = f.txn]
  /\ rxbufstat' = [rxbufstat EXCEPT ![f.idx] = "COMPLETE"]
  /\ rxmutex' = NoOne
  /\ pc' = [pc EXCEPT ![t] = "got"]
  /\ UNCHANGED <<txbuf, lastidx, idx, txn, try, temp, answer>>

(* A frame with another index: "check if index exist and someone is        *)
(* waiting for it", else it is dropped.                                    *)
RecvOther(t, f) ==
  /\ pc[t] = "locked" /\ rxbufstat[idx[t]] # "RCVD" /\ f.idx # idx[t]
  /\ net' = net \ {f}
  /\ IF rxbufstat[f.idx] = "TX"
     THEN /\ temp' = [temp EXCEPT ![t] = f]
          /\ pc' = [pc EXCEPT ![t] = "store"]
          /\ rxmutex' = rxmutex
     ELSE /\ pc' = [pc EXCEPT ![t] = "timer"]
          /\ rxmutex' = NoOne /\ temp' = temp
  /\ UNCHANGED <<rxbufstat, txbuf, rxbuf, lastidx, idx, txn, try, answer>>

(* The copy into the other thread's buffer, and its mark.                  *)
StoreOther(t) ==
  /\ pc[t] = "store"
  /\ rxbuf' = [rxbuf EXCEPT ![temp[t].idx] = temp[t].txn]
  /\ rxbufstat' = [rxbufstat EXCEPT ![temp[t].idx] = "RCVD"]
  /\ rxmutex' = NoOne
  /\ pc' = [pc EXCEPT ![t] = "timer"] /\ temp' = [temp EXCEPT ![t] = NoFrame]
  /\ UNCHANGED <<txbuf, lastidx, net, idx, txn, try, answer>>
-----------------------------------------------------------------------------
(* An answer to the last attempt of t is on its way, or in its buffer.     *)
Coming(t) ==
  \/ \E f \in net : f.idx = idx[t]
  \/ \E u \in Threads : pc[u] = "store" /\ temp[u].idx = idx[t]
  \/ rxbufstat[idx[t]] = "RCVD"

(* ecx_waitinframe_red: the timer is still running.                        *)
TimerRuns(t) ==
  /\ pc[t] = "timer"
  /\ pc' = [pc EXCEPT ![t] = "poll"]
  /\ UNCHANGED <<rxbufstat, txbuf, rxbuf, lastidx, rxmutex, net, idx, txn, try, temp, answer>>

(* Faulty variant: timer1 is not looked at.                                *)
TimerNeverGivesUp(t) ==
  /\ pc[t] = "timer" /\ (LateFrames \/ ~Coming(t))
  /\ pc' = [pc EXCEPT ![t] = IF try[t] < MaxTries THEN "send" ELSE "poll"]
  /\ UNCHANGED <<rxbufstat, txbuf, rxbuf, lastidx, rxmutex, net, idx, txn, try, temp, answer>>

(* It has expired: ecx_srconfirm sends again, or its own timer has expired *)
(* too.  Without LateFrames only for an answer that was lost.              *)
TimerExpires(t) ==
  /\ pc[t] = "timer" /\ (LateFrames \/ ~Coming(t))
  /\ \/ try[t] < MaxTries /\ pc' = [pc EXCEPT ![t] = "send"]
     \/ pc' = [pc EXCEPT ![t] = "release"]
  /\ UNCHANGED <<rxbufstat, txbuf, rxbuf, lastidx, rxmutex, net, idx, txn, try, temp, answer>>

(* The primitive copies the answer out of the rx buffer (the writing ones, *)
(* and any with a working counter of 0, do not look at it).                *)
CopyAnswer(t) ==
  /\ pc[t] = "got"
  /\ answer' = [answer EXCEPT ![t] = rxbuf[idx[t]]]
  /\ pc' = [pc EXCEPT ![t] = "release"]
  /\ UNCHANGED <<rxbufstat, txbuf, rxbuf, lastidx, rxmutex, net, idx, txn, try, temp>>

(* ecx_setbufstat(port, idx, EC_BUF_EMPTY); faulty variant without it.     *)
KeepIndex(t) ==
  /\ pc[t] = "release"
  /\ pc' = [pc EXCEPT ![t] = "idle"]
  /\ UNCHANGED <<rxbufstat, txbuf, rxbuf, lastidx, rxmutex, net, idx, txn, try, temp, answer>>

Release(t) ==
  /\ pc[t] = "release"
  /\ rxbufstat' = [rxbufstat EXCEPT ![idx[t]] = "EMPTY"]
  /\ pc' = [pc EXCEPT ![t] = "idle"]
  /\ UNCHANGED <<txbuf, rxbuf, lastidx, rxmutex, net, idx, txn, try, temp, answer>>

(* The frame is lost on the wire (external).                               *)
Lose(f) ==
  /\ net' = net \ {f}
  /\ UNCHANGED <<rxbufstat, txbuf, rxbuf, lastidx, rxmutex, pc, idx, txn, try, temp, answer>>

Step(t) ==
  \/ GetIndex(t) \/ SetupDatagram(t) \/ OutFrame(t) \/ OutFrameFails(t)
  \/ InFrameFast(t) \/ InFrameMiss(t) \/ LockRx(t) \/ InFrameAgain(t) \/ RecvNone(t)
  \/ StoreOther(t) \/ TimerRuns(t) \/ TimerExpires(t) \/ CopyAnswer(t) \/ Release(t)
  \/ \E f \in net : RecvOwn(t, f) \/ RecvOther(t, f)

(* Every thread has made its MaxTxn transactions.                          *)
Finished == (\A t \in Threads : pc[t] = "idle" /\ txn[t] = MaxTxn) /\ UNCHANGED vars

Next == (\E t \in Threads : Step(t)) \/ (\E f \in net : Lose(f)) \/ Finished

Spec == Init /\ [][Next]_vars

(* Every thread is scheduled, gets the mutex, and its timers expire.       *)
FairSpec ==
  /\ Spec
  /\ \A t \in Threads : WF_vars(Step(t)) /\ SF_vars(LockRx(t)) /\ SF_vars(TimerExpires(t))
-----------------------------------------------------------------------------
(* A thread owns its index from ecx_getindex to ecx_setbufstat.            *)
Owns(t) == pc[t] # "idle"

Carried == Txns \cup {NoAnswer}
Frames == [idx : Indices, txn : Carried, try : 0..MaxTries]

(* The buffers, the frames in flight and where each thread is.             *)
TypeOK ==
  /\ rxbufstat \in [Indices -> BufStates]
  /\ txbuf \in [Indices -> Carried] /\ rxbuf \in [Indices -> Carried]
  /\ lastidx \in Indices /\ rxmutex \in Threads \cup {NoOne}
  /\ net \subseteq Frames
  /\ pc \in [Threads -> {"idle", "setup", "send", "poll", "want", "locked", "store", "timer",
                         "got", "release"}]
  /\ idx \in [Threads -> Indices] /\ txn \in [Threads -> 0..MaxTxn]
  /\ try \in [Threads -> 0..MaxTries]
  /\ temp \in [Threads -> Frames]
  /\ answer \in [Threads -> Carried]

(***************************************************************************)
(* ecx_getindex returns a new index: two transactions in progress never    *)
(* share one, so no thread builds its datagram in another's buffer.        *)
(***************************************************************************)
IndexOwned == \A t, u \in Threads : (t # u /\ Owns(t) /\ Owns(u)) => idx[t] # idx[u]

(***************************************************************************)
(* A buffer that is not empty belongs to a transaction in progress: the    *)
(* pool of indices does not shrink.                                        *)
(***************************************************************************)
NoLeak == \A i \in Indices : rxbufstat[i] # "EMPTY" => \E t \in Threads : Owns(t) /\ idx[t] = i

(***************************************************************************)
(* ecx_getindex and ecx_setbufstat: an index has one owner, and is free    *)
(* when it has none, however sends, losses and retries interleave.         *)
(***************************************************************************)
IndicesAreSound == IndexOwned /\ NoLeak

(***************************************************************************)
(* A primitive that reports a working counter copies out the answer to its *)
(* own datagram, whichever thread read it from the socket.                 *)
(***************************************************************************)
AnswerIsOwn == \A t \in Threads : answer[t] \in {NoAnswer, Me(t)}

(* Every primitive returns, with an answer or with EC_NOFRAME.             *)
EveryCallReturns == \A t \in Threads : (pc[t] = "setup") ~> (pc[t] = "idle")
=============================================================================
