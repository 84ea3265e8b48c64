---------------------------- MODULE NicDrvProof -----------------------------
(***************************************************************************)
(* The pool of indices of NicDrv is sound for any number of buffers and    *)
(* any threads not more than the buffers, when send() takes every frame    *)
(* and no answer outlives its timer.                                       *)
(*                                                                         *)
(* None of the three properties is inductive.  What carries them is that   *)
(* there is at most one copy of a datagram per index (SingleCopy), that an *)
(* index with a copy is marked TX (InFlight), and that a thread reaches    *)
(* the end of its transaction, or sends again, only with no copy left      *)
(* (Quiet).  Then no thread stores an answer for an index that was given   *)
(* back in between.                                                        *)
(***************************************************************************)
EXTENDS NicDrv, FiniteSetTheorems, TLAPS

(* No copy of a datagram with index i is under way. *)
NoCopy(i) ==
  /\ \A f \in net : f.idx # i
  /\ \A u \in Threads : pc[u] = "store" => temp[u].idx # i

Tries == \A t \in Threads : pc[t] \in {"setup", "send"} => try[t] < MaxTries

MutexHeld == \A t \in Threads : pc[t] \in {"locked", "store"} => rxmutex = t

HeldNotEmpty == \A t \in Threads : Owns(t) => rxbufstat[idx[t]] # "EMPTY"

InFlight ==
  /\ \A f \in net : rxbufstat[f.idx] = "TX"
  /\ \A u \in Threads : pc[u] = "store" => rxbufstat[temp[u].idx] = "TX"

SingleCopy ==
  /\ \A f, g \in net : f.idx = g.idx => f = g
  /\ \A u \in Threads, f \in net : pc[u] = "store" => f.idx # temp[u].idx

Quiet == \A t \in Threads : pc[t] \in {"setup", "send", "got", "release"} => NoCopy(idx[t])

(* What carries the answer of a transaction carries nothing else. *)
CarriesOwn ==
  \A t \in Threads : Owns(t) =>
    /\ pc[t] # "setup" => txbuf[idx[t]] = Me(t)
    /\ \A f \in net : f.idx = idx[t] => f.txn = Me(t)
    /\ \A u \in Threads : (pc[u] = "store" /\ temp[u].idx = idx[t]) => temp[u].txn = Me(t)
    /\ rxbufstat[idx[t]] \in {"RCVD", "COMPLETE"} => rxbuf[idx[t]] = Me(t)

GotComplete == \A t \in Threads : pc[t] = "got" => rxbufstat[idx[t]] = "COMPLETE"

Inv ==
  /\ TypeOK /\ Tries /\ MutexHeld /\ HeldNotEmpty /\ IndexOwned /\ NoLeak
  /\ InFlight /\ SingleCopy /\ Quiet /\ CarriesOwn /\ GotComplete /\ AnswerIsOwn
-----------------------------------------------------------------------------
(* As long as a thread is idle and every buffer in use has an owner, some  *)
(* buffer is empty: there are no more threads than buffers.                *)
LEMMA FreeIndex ==
  ASSUME TypeOK, NoLeak, Cardinality(Threads) <= NumBuf,
         NEW t0 \in Threads, pc[t0] = "idle"
  PROVE  \E i \in Indices : rxbufstat[i] = "EMPTY"
<1> SUFFICES ASSUME \A i \in Indices : rxbufstat[i] # "EMPTY" PROVE FALSE
  OBVIOUS
<1> DEFINE Others == Threads \ {t0}
           owner  == [i \in Indices |-> CHOOSE t \in Others : idx[t] = i]
<1>1. \A i \in Indices : owner[i] \in Others /\ idx[owner[i]] = i
  <2>1. \A i \in Indices : \E t \in Others : idx[t] = i
    BY DEF NoLeak, Owns
  <2> QED BY <2>1
<1>2. owner \in [Indices -> Others]
  BY <1>1
<1>3. IsFiniteSet(Others) /\ Cardinality(Others) = Cardinality(Threads) - 1
  BY FS_RemoveElement, NicAssumption
<1>4. IsFiniteSet(Indices) /\ Cardinality(Indices) = NumBuf
  BY FS_Interval, NicAssumption DEF Indices
<1>5. Cardinality(Threads) \in Nat
  BY FS_CardinalityType, NicAssumption
<1>6. Cardinality(Others) < Cardinality(Indices)
  BY <1>3, <1>4, <1>5, NicAssumption
<1>7. \E i, j \in Indices : i # j /\ owner[i] = owner[j]
  <2> HIDE DEF owner, Others
  <2> QED BY <1>2, <1>3, <1>4, <1>6, FS_PigeonHole
<1> QED BY <1>1, <1>7

(* The index ecx_getindex hands out was empty.                             *)
LEMMA GetsEmpty ==
  ASSUME TypeOK, NoLeak, Cardinality(Threads) <= NumBuf,
         NEW t \in Threads, pc[t] = "idle", NEW i \in Indices, StopsAt(i)
  PROVE  rxbufstat[i] = "EMPTY"
<1>1. \E j \in Indices : rxbufstat[j] = "EMPTY"
  BY FreeIndex
<1> QED BY <1>1 DEF StopsAt

(* The invariant holds when every buffer is empty and every thread idle.   *)
LEMMA InitInv == Init => Inv
<1> SUFFICES ASSUME Init PROVE Inv
  OBVIOUS
<1>1. TypeOK
  BY NicAssumption DEF Init, TypeOK, Indices, BufStates, Carried, Frames, NoFrame, NoAnswer
<1> QED
  BY <1>1 DEF Init, Inv, Tries, MutexHeld, HeldNotEmpty, IndexOwned, NoLeak, InFlight, SingleCopy,
           Quiet, CarriesOwn, GotComplete, AnswerIsOwn, Owns

(* The datagram is built in a buffer no other transaction uses.            *)
LEMMA SetupDatagramInv ==
  ASSUME Inv, NEW t \in Threads, SetupDatagram(t)
  PROVE  Inv'
<1> USE NicAssumption DEF Inv
<1>1. TypeOK'
  BY DEF TypeOK, SetupDatagram, Carried, Txns, Me
<1>2. Tries'
  BY DEF TypeOK, Tries, SetupDatagram
<1>3. MutexHeld'
  BY DEF TypeOK, MutexHeld, SetupDatagram
<1>4. HeldNotEmpty'
  BY DEF TypeOK, HeldNotEmpty, Owns, SetupDatagram
<1>5. IndexOwned'
  BY DEF TypeOK, IndexOwned, Owns, SetupDatagram
<1>6. NoLeak'
  BY DEF TypeOK, NoLeak, Owns, SetupDatagram
<1>7. InFlight'
  BY DEF TypeOK, InFlight, SetupDatagram
<1>8. SingleCopy'
  BY DEF TypeOK, SingleCopy, SetupDatagram
<1>9. Quiet'
  BY DEF TypeOK, Quiet, NoCopy, SetupDatagram
<1>10. CarriesOwn'
  BY DEF TypeOK, CarriesOwn, Owns, Me, IndexOwned, SetupDatagram
<1>11. GotComplete'
  BY DEF TypeOK, GotComplete, SetupDatagram
<1>12. AnswerIsOwn'
  BY DEF TypeOK, AnswerIsOwn, Me, SetupDatagram
<1> QED BY <1>1, <1>2, <1>3, <1>4, <1>5, <1>6, <1>7, <1>8, <1>9, <1>10, <1>11, <1>12

(* The frame is the only copy: a thread sends when the last is gone.       *)
LEMMA OutFrameInv ==
  ASSUME Inv, NEW t \in Threads, OutFrame(t)
  PROVE  Inv'
<1> USE NicAssumption DEF Inv
<1>1. TypeOK'
  <2>1. [idx |-> idx[t], txn |-> txbuf[idx[t]], try |-> try[t]] \in Frames
    BY DEF TypeOK, Frames
  <2>2. try' \in [Threads -> 0..MaxTries]
    BY DEF TypeOK, Tries, OutFrame
  <2> QED BY <2>1, <2>2 DEF TypeOK, OutFrame, BufStates
<1>2. Tries'
  BY DEF TypeOK, Tries, OutFrame
<1>3. MutexHeld'
  BY DEF TypeOK, MutexHeld, OutFrame
<1>4. HeldNotEmpty'
  BY DEF TypeOK, HeldNotEmpty, Owns, OutFrame
<1>5. IndexOwned'
  BY DEF TypeOK, IndexOwned, Owns, OutFrame
<1>6. NoLeak'
  BY DEF TypeOK, NoLeak, Owns, OutFrame
<1>7. InFlight'
  BY DEF TypeOK, InFlight, OutFrame
<1>8. SingleCopy'
  BY DEF TypeOK, SingleCopy, Quiet, NoCopy, OutFrame
<1>9. Quiet'
  BY DEF TypeOK, Quiet, NoCopy, IndexOwned, Owns, OutFrame
<1>10. CarriesOwn'
  BY DEF TypeOK, CarriesOwn, Owns, Me, IndexOwned, OutFrame
<1>11. GotComplete'
  BY DEF TypeOK, GotComplete, IndexOwned, Owns, OutFrame
<1>12. AnswerIsOwn'
  BY DEF TypeOK, AnswerIsOwn, Me, OutFrame
<1> QED BY <1>1, <1>2, <1>3, <1>4, <1>5, <1>6, <1>7, <1>8, <1>9, <1>10, <1>11, <1>12

(* The answer was stored by another thread.                                *)
LEMMA InFrameFastInv ==
  ASSUME Inv, NEW t \in Threads, InFrameFast(t)
  PROVE  Inv'
<1> USE NicAssumption DEF Inv
<1>1. TypeOK'
  BY DEF TypeOK, InFrameFast, InBuffer, BufStates
<1>2. Tries'
  BY DEF TypeOK, Tries, InFrameFast, InBuffer
<1>3. MutexHeld'
  BY DEF TypeOK, MutexHeld, InFrameFast, InBuffer
<1>4. HeldNotEmpty'
  BY DEF TypeOK, HeldNotEmpty, Owns, InFrameFast, InBuffer
<1>5. IndexOwned'
  BY DEF TypeOK, IndexOwned, Owns, InFrameFast, InBuffer
<1>6. NoLeak'
  BY DEF TypeOK, NoLeak, Owns, InFrameFast, InBuffer
<1>7. InFlight'
  BY DEF TypeOK, InFlight, InFrameFast, InBuffer
<1>8. SingleCopy'
  BY DEF TypeOK, SingleCopy, InFrameFast, InBuffer
<1>9. Quiet'
  BY DEF TypeOK, Quiet, NoCopy, InFlight, InFrameFast, InBuffer
<1>10. CarriesOwn'
  BY DEF TypeOK, CarriesOwn, Owns, Me, InFrameFast, InBuffer
<1>11. GotComplete'
  BY DEF TypeOK, GotComplete, InFrameFast, InBuffer
<1>12. AnswerIsOwn'
  BY DEF TypeOK, AnswerIsOwn, Me, InFrameFast, InBuffer
<1> QED BY <1>1, <1>2, <1>3, <1>4, <1>5, <1>6, <1>7, <1>8, <1>9, <1>10, <1>11, <1>12

(* The first look finds nothing.                                           *)
LEMMA InFrameMissInv ==
  ASSUME Inv, NEW t \in Threads, InFrameMiss(t)
  PROVE  Inv'
<1> USE NicAssumption DEF Inv
<1>1. TypeOK'
  BY DEF TypeOK, InFrameMiss
<1>2. Tries'
  BY DEF TypeOK, Tries, InFrameMiss
<1>3. MutexHeld'
  BY DEF TypeOK, MutexHeld, InFrameMiss
<1>4. HeldNotEmpty'
  BY DEF TypeOK, HeldNotEmpty, Owns, InFrameMiss
<1>5. IndexOwned'
  BY DEF TypeOK, IndexOwned, Owns, InFrameMiss
<1>6. NoLeak'
  BY DEF TypeOK, NoLeak, Owns, InFrameMiss
<1>7. InFlight'
  BY DEF TypeOK, InFlight, InFrameMiss
<1>8. SingleCopy'
  BY DEF TypeOK, SingleCopy, InFrameMiss
<1>9. Quiet'
  BY DEF TypeOK, Quiet, NoCopy, InFrameMiss
<1>10. CarriesOwn'
  BY DEF TypeOK, CarriesOwn, Owns, Me, InFrameMiss
<1>11. GotComplete'
  BY DEF TypeOK, GotComplete, InFrameMiss
<1>12. AnswerIsOwn'
  BY DEF TypeOK, AnswerIsOwn, Me, InFrameMiss
<1> QED BY <1>1, <1>2, <1>3, <1>4, <1>5, <1>6, <1>7, <1>8, <1>9, <1>10, <1>11, <1>12

(* The mutex is taken.                                                     *)
LEMMA LockRxInv ==
  ASSUME Inv, NEW t \in Threads, LockRx(t)
  PROVE  Inv'
<1> USE NicAssumption DEF Inv
<1>1. TypeOK'
  BY DEF TypeOK, LockRx
<1>2. Tries'
  BY DEF TypeOK, Tries, LockRx
<1>3. MutexHeld'
  BY DEF TypeOK, MutexHeld, LockRx
<1>4. HeldNotEmpty'
  BY DEF TypeOK, HeldNotEmpty, Owns, LockRx
<1>5. IndexOwned'
  BY DEF TypeOK, IndexOwned, Owns, LockRx
<1>6. NoLeak'
  BY DEF TypeOK, NoLeak, Owns, LockRx
<1>7. InFlight'
  BY DEF TypeOK, InFlight, LockRx
<1>8. SingleCopy'
  BY DEF TypeOK, SingleCopy, LockRx
<1>9. Quiet'
  BY DEF TypeOK, Quiet, NoCopy, LockRx
<1>10. CarriesOwn'
  BY DEF TypeOK, CarriesOwn, Owns, Me, LockRx
<1>11. GotComplete'
  BY DEF TypeOK, GotComplete, LockRx
<1>12. AnswerIsOwn'
  BY DEF TypeOK, AnswerIsOwn, Me, LockRx
<1> QED BY <1>1, <1>2, <1>3, <1>4, <1>5, <1>6, <1>7, <1>8, <1>9, <1>10, <1>11, <1>12

(* The answer was stored before the mutex was free.                        *)
LEMMA InFrameAgainInv ==
  ASSUME Inv, NEW t \in Threads, InFrameAgain(t)
  PROVE  Inv'
<1> USE NicAssumption DEF Inv
<1>1. TypeOK'
  BY DEF TypeOK, InFrameAgain, InBuffer, BufStates
<1>2. Tries'
  BY DEF TypeOK, Tries, InFrameAgain, InBuffer
<1>3. MutexHeld'
  BY DEF TypeOK, MutexHeld, InFrameAgain, InBuffer
<1>4. HeldNotEmpty'
  BY DEF TypeOK, HeldNotEmpty, Owns, InFrameAgain, InBuffer
<1>5. IndexOwned'
  BY DEF TypeOK, IndexOwned, Owns, InFrameAgain, InBuffer
<1>6. NoLeak'
  BY DEF TypeOK, NoLeak, Owns, InFrameAgain, InBuffer
<1>7. InFlight'
  BY DEF TypeOK, InFlight, InFrameAgain, InBuffer
<1>8. SingleCopy'
  BY DEF TypeOK, SingleCopy, InFrameAgain, InBuffer
<1>9. Quiet'
  BY DEF TypeOK, Quiet, NoCopy, InFlight, InFrameAgain, InBuffer
<1>10. CarriesOwn'
  BY DEF TypeOK, CarriesOwn, Owns, Me, InFrameAgain, InBuffer
<1>11. GotComplete'
  BY DEF TypeOK, GotComplete, InFrameAgain, InBuffer
<1>12. AnswerIsOwn'
  BY DEF TypeOK, AnswerIsOwn, Me, InFrameAgain, InBuffer
<1> QED BY <1>1, <1>2, <1>3, <1>4, <1>5, <1>6, <1>7, <1>8, <1>9, <1>10, <1>11, <1>12

(* Nothing arrived.                                                        *)
LEMMA RecvNoneInv ==
  ASSUME Inv, NEW t \in Threads, RecvNone(t)
  PROVE  Inv'
<1> USE NicAssumption DEF Inv
<1>1. TypeOK'
  BY DEF TypeOK, RecvNone
<1>2. Tries'
  BY DEF TypeOK, Tries, RecvNone
<1>3. MutexHeld'
  BY DEF TypeOK, MutexHeld, RecvNone
<1>4. HeldNotEmpty'
  BY DEF TypeOK, HeldNotEmpty, Owns, RecvNone
<1>5. IndexOwned'
  BY DEF TypeOK, IndexOwned, Owns, RecvNone
<1>6. NoLeak'
  BY DEF TypeOK, NoLeak, Owns, RecvNone
<1>7. InFlight'
  BY DEF TypeOK, InFlight, RecvNone
<1>8. SingleCopy'
  BY DEF TypeOK, SingleCopy, RecvNone
<1>9. Quiet'
  BY DEF TypeOK, Quiet, NoCopy, RecvNone
<1>10. CarriesOwn'
  BY DEF TypeOK, CarriesOwn, Owns, Me, RecvNone
<1>11. GotComplete'
  BY DEF TypeOK, GotComplete, RecvNone
<1>12. AnswerIsOwn'
  BY DEF TypeOK, AnswerIsOwn, Me, RecvNone
<1> QED BY <1>1, <1>2, <1>3, <1>4, <1>5, <1>6, <1>7, <1>8, <1>9, <1>10, <1>11, <1>12

(* The only copy arrives at the thread that waits for it.                  *)
LEMMA RecvOwnInv ==
  ASSUME Inv, NEW t \in Threads, NEW f \in net, RecvOwn(t, f)
  PROVE  Inv'
<1> USE NicAssumption DEF Inv
<1>1. TypeOK'
  BY DEF TypeOK, RecvOwn, BufStates, Frames
<1>2. Tries'
  BY DEF TypeOK, Tries, RecvOwn
<1>3. MutexHeld'
  BY DEF TypeOK, MutexHeld, RecvOwn
<1>4. HeldNotEmpty'
  BY DEF TypeOK, HeldNotEmpty, Owns, RecvOwn
<1>5. IndexOwned'
  BY DEF TypeOK, IndexOwned, Owns, RecvOwn
<1>6. NoLeak'
  BY DEF TypeOK, NoLeak, Owns, RecvOwn
<1>7. InFlight'
  BY DEF TypeOK, InFlight, SingleCopy, RecvOwn
<1>8. SingleCopy'
  BY DEF TypeOK, SingleCopy, RecvOwn
<1>9. Quiet'
  BY DEF TypeOK, Quiet, NoCopy, SingleCopy, RecvOwn
<1>10. CarriesOwn'
  BY DEF TypeOK, CarriesOwn, Owns, Me, RecvOwn
<1>11. GotComplete'
  BY DEF TypeOK, GotComplete, RecvOwn
<1>12. AnswerIsOwn'
  BY DEF TypeOK, AnswerIsOwn, Me, RecvOwn
<1> QED BY <1>1, <1>2, <1>3, <1>4, <1>5, <1>6, <1>7, <1>8, <1>9, <1>10, <1>11, <1>12

(* The only copy arrives at another thread.                                *)
LEMMA RecvOtherInv ==
  ASSUME Inv, NEW t \in Threads, NEW f \in net, RecvOther(t, f)
  PROVE  Inv'
<1> USE NicAssumption DEF Inv
<1>1. TypeOK'
  <2>1. f \in Frames
    BY DEF TypeOK
  <2>2. temp' \in [Threads -> Frames]
    BY <2>1 DEF TypeOK, RecvOther
  <2>3. net' \subseteq Frames /\ rxmutex' \in Threads \cup {NoOne}
    BY DEF TypeOK, RecvOther
  <2> QED BY <2>2, <2>3 DEF TypeOK, RecvOther
<1>2. Tries'
  BY DEF TypeOK, Tries, RecvOther
<1>3. MutexHeld'
  BY DEF TypeOK, MutexHeld, RecvOther
<1>4. HeldNotEmpty'
  BY DEF TypeOK, HeldNotEmpty, Owns, RecvOther
<1>5. IndexOwned'
  BY DEF TypeOK, IndexOwned, Owns, RecvOther
<1>6. NoLeak'
  BY DEF TypeOK, NoLeak, Owns, RecvOther
<1>7. InFlight'
  BY DEF TypeOK, InFlight, RecvOther
<1>8. SingleCopy'
  BY DEF TypeOK, SingleCopy, RecvOther
<1>9. Quiet'
  BY DEF TypeOK, Quiet, NoCopy, RecvOther
<1>10. CarriesOwn'
  BY DEF TypeOK, CarriesOwn, Owns, Me, RecvOther
<1>11. GotComplete'
  BY DEF TypeOK, GotComplete, RecvOther
<1>12. AnswerIsOwn'
  BY DEF TypeOK, AnswerIsOwn, Me, RecvOther
<1> QED BY <1>1, <1>2, <1>3, <1>4, <1>5, <1>6, <1>7, <1>8, <1>9, <1>10, <1>11, <1>12

(* It is stored for its owner, who is still waiting.                       *)
LEMMA StoreOtherInv ==
  ASSUME Inv, NEW t \in Threads, StoreOther(t)
  PROVE  Inv'
<1> USE NicAssumption DEF Inv
<1>1. TypeOK'
  <2>1. temp[t].idx \in Indices /\ temp[t].txn \in Carried
    BY DEF TypeOK, Frames
  <2>2. NoFrame \in Frames
    BY DEF NoFrame, Frames, Carried, NoAnswer, Indices
  <2> QED BY <2>1, <2>2 DEF TypeOK, StoreOther, BufStates
<1>2. Tries'
  BY DEF TypeOK, Tries, StoreOther
<1>3. MutexHeld'
  BY DEF TypeOK, MutexHeld, StoreOther
<1>4. HeldNotEmpty'
  BY DEF TypeOK, HeldNotEmpty, Owns, StoreOther
<1>5. IndexOwned'
  BY DEF TypeOK, IndexOwned, Owns, StoreOther
<1>6. NoLeak'
  BY DEF TypeOK, NoLeak, Owns, InFlight, StoreOther
<1>7. InFlight'
  BY DEF TypeOK, InFlight, SingleCopy, MutexHeld, StoreOther
<1>8. SingleCopy'
  BY DEF TypeOK, SingleCopy, StoreOther
<1>9. Quiet'
  BY DEF TypeOK, Quiet, NoCopy, StoreOther
<1>10. CarriesOwn'
  BY DEF TypeOK, CarriesOwn, Owns, Me, StoreOther
<1>11. GotComplete'
  BY DEF TypeOK, GotComplete, InFlight, StoreOther
<1>12. AnswerIsOwn'
  BY DEF TypeOK, AnswerIsOwn, Me, StoreOther
<1> QED BY <1>1, <1>2, <1>3, <1>4, <1>5, <1>6, <1>7, <1>8, <1>9, <1>10, <1>11, <1>12

(* Polling goes on.                                                        *)
LEMMA TimerRunsInv ==
  ASSUME Inv, NEW t \in Threads, TimerRuns(t)
  PROVE  Inv'
<1> USE NicAssumption DEF Inv
<1>1. TypeOK'
  BY DEF TypeOK, TimerRuns
<1>2. Tries'
  BY DEF TypeOK, Tries, TimerRuns
<1>3. MutexHeld'
  BY DEF TypeOK, MutexHeld, TimerRuns
<1>4. HeldNotEmpty'
  BY DEF TypeOK, HeldNotEmpty, Owns, TimerRuns
<1>5. IndexOwned'
  BY DEF TypeOK, IndexOwned, Owns, TimerRuns
<1>6. NoLeak'
  BY DEF TypeOK, NoLeak, Owns, TimerRuns
<1>7. InFlight'
  BY DEF TypeOK, InFlight, TimerRuns
<1>8. SingleCopy'
  BY DEF TypeOK, SingleCopy, TimerRuns
<1>9. Quiet'
  BY DEF TypeOK, Quiet, NoCopy, TimerRuns
<1>10. CarriesOwn'
  BY DEF TypeOK, CarriesOwn, Owns, Me, TimerRuns
<1>11. GotComplete'
  BY DEF TypeOK, GotComplete, TimerRuns
<1>12. AnswerIsOwn'
  BY DEF TypeOK, AnswerIsOwn, Me, TimerRuns
<1> QED BY <1>1, <1>2, <1>3, <1>4, <1>5, <1>6, <1>7, <1>8, <1>9, <1>10, <1>11, <1>12

(* The timer expires when no copy is left.                                 *)
LEMMA TimerExpiresInv ==
  ASSUME Inv, NEW t \in Threads, ~LateFrames, TimerExpires(t)
  PROVE  Inv'
<1> USE NicAssumption DEF Inv
<1>1. TypeOK'
  BY DEF TypeOK, TimerExpires, Coming
<1>2. Tries'
  BY DEF TypeOK, Tries, TimerExpires, Coming
<1>3. MutexHeld'
  BY DEF TypeOK, MutexHeld, TimerExpires, Coming
<1>4. HeldNotEmpty'
  BY DEF TypeOK, HeldNotEmpty, Owns, TimerExpires, Coming
<1>5. IndexOwned'
  BY DEF TypeOK, IndexOwned, Owns, TimerExpires, Coming
<1>6. NoLeak'
  BY DEF TypeOK, NoLeak, Owns, TimerExpires, Coming
<1>7. InFlight'
  BY DEF TypeOK, InFlight, TimerExpires, Coming
<1>8. SingleCopy'
  BY DEF TypeOK, SingleCopy, TimerExpires, Coming
<1>9. Quiet'
  BY DEF TypeOK, Quiet, NoCopy, TimerExpires, Coming
<1>10. CarriesOwn'
  BY DEF TypeOK, CarriesOwn, Owns, Me, TimerExpires, Coming
<1>11. GotComplete'
  BY DEF TypeOK, GotComplete, TimerExpires, Coming
<1>12. AnswerIsOwn'
  BY DEF TypeOK, AnswerIsOwn, Me, TimerExpires, Coming
<1> QED BY <1>1, <1>2, <1>3, <1>4, <1>5, <1>6, <1>7, <1>8, <1>9, <1>10, <1>11, <1>12

(* The answer is copied out.                                               *)
LEMMA CopyAnswerInv ==
  ASSUME Inv, NEW t \in Threads, CopyAnswer(t)
  PROVE  Inv'
<1> USE NicAssumption DEF Inv
<1>1. TypeOK'
  BY DEF TypeOK, CopyAnswer
<1>2. Tries'
  BY DEF TypeOK, Tries, CopyAnswer
<1>3. MutexHeld'
  BY DEF TypeOK, MutexHeld, CopyAnswer
<1>4. HeldNotEmpty'
  BY DEF TypeOK, HeldNotEmpty, Owns, CopyAnswer
<1>5. IndexOwned'
  BY DEF TypeOK, IndexOwned, Owns, CopyAnswer
<1>6. NoLeak'
  BY DEF TypeOK, NoLeak, Owns, CopyAnswer
<1>7. InFlight'
  BY DEF TypeOK, InFlight, CopyAnswer
<1>8. SingleCopy'
  BY DEF TypeOK, SingleCopy, CopyAnswer
<1>9. Quiet'
  BY DEF TypeOK, Quiet, NoCopy, CopyAnswer
<1>10. CarriesOwn'
  BY DEF TypeOK, CarriesOwn, Owns, Me, CopyAnswer
<1>11. GotComplete'
  BY DEF TypeOK, GotComplete, CopyAnswer
<1>12. AnswerIsOwn'
  BY DEF TypeOK, AnswerIsOwn, Me, CarriesOwn, GotComplete, Owns, CopyAnswer
<1> QED BY <1>1, <1>2, <1>3, <1>4, <1>5, <1>6, <1>7, <1>8, <1>9, <1>10, <1>11, <1>12

(* The index is given back.                                                *)
LEMMA ReleaseInv ==
  ASSUME Inv, NEW t \in Threads, Release(t)
  PROVE  Inv'
<1> USE NicAssumption DEF Inv
<1>1. TypeOK'
  BY DEF TypeOK, Release, BufStates
<1>2. Tries'
  BY DEF TypeOK, Tries, Release
<1>3. MutexHeld'
  BY DEF TypeOK, MutexHeld, Release
<1>4. HeldNotEmpty'
  BY DEF TypeOK, HeldNotEmpty, Owns, IndexOwned, Release
<1>5. IndexOwned'
  BY DEF TypeOK, IndexOwned, Owns, Release
<1>6. NoLeak'
  BY DEF TypeOK, NoLeak, Owns, Release
<1>7. InFlight'
  BY DEF TypeOK, InFlight, Quiet, NoCopy, Release
<1>8. SingleCopy'
  BY DEF TypeOK, SingleCopy, Release
<1>9. Quiet'
  BY DEF TypeOK, Quiet, NoCopy, Release
<1>10. CarriesOwn'
  BY DEF TypeOK, CarriesOwn, Owns, Me, Release
<1>11. GotComplete'
  BY DEF TypeOK, GotComplete, IndexOwned, Owns, Release
<1>12. AnswerIsOwn'
  BY DEF TypeOK, AnswerIsOwn, Me, Release
<1> QED BY <1>1, <1>2, <1>3, <1>4, <1>5, <1>6, <1>7, <1>8, <1>9, <1>10, <1>11, <1>12

(* The index taken was empty, so nobody owns it and no copy carries it.    *)
LEMMA GetIndexInv ==
  ASSUME Inv, NEW t \in Threads, Cardinality(Threads) <= NumBuf, GetIndex(t)
  PROVE  Inv'
<1> USE NicAssumption DEF Inv
<1> PICK i \in Indices : /\ StopsAt(i)
                         /\ idx' = [idx EXCEPT ![t] = i]
                         /\ rxbufstat' = [rxbufstat EXCEPT ![i] = "ALLOC"]
                         /\ lastidx' = i
  BY DEF GetIndex
<1>0. rxbufstat[i] = "EMPTY"
  BY GetsEmpty DEF GetIndex
<1>a. \A u \in Threads : Owns(u) => idx[u] # i
  BY <1>0 DEF HeldNotEmpty
<1>b. NoCopy(i)
  BY <1>0 DEF InFlight, NoCopy
<1>1. TypeOK'
  BY DEF TypeOK, GetIndex, BufStates, Carried
<1>2. Tries'
  BY DEF TypeOK, Tries, GetIndex
<1>3. MutexHeld'
  BY DEF TypeOK, MutexHeld, GetIndex
<1>4. HeldNotEmpty'
  BY DEF TypeOK, HeldNotEmpty, Owns, GetIndex
<1>5. IndexOwned'
  BY <1>a DEF TypeOK, IndexOwned, Owns, GetIndex
<1>6. NoLeak'
  BY DEF TypeOK, NoLeak, Owns, GetIndex
<1>7. InFlight'
  BY <1>b DEF TypeOK, InFlight, NoCopy, GetIndex
<1>8. SingleCopy'
  BY DEF TypeOK, SingleCopy, GetIndex
<1>9. Quiet'
  BY <1>b DEF TypeOK, Quiet, NoCopy, GetIndex
<1>10. CarriesOwn'
  BY <1>a, <1>b DEF TypeOK, CarriesOwn, Owns, Me, NoCopy, GetIndex
<1>11. GotComplete'
  BY <1>a DEF TypeOK, GotComplete, Owns, GetIndex
<1>12. AnswerIsOwn'
  BY DEF TypeOK, AnswerIsOwn, Me, GetIndex
<1> QED BY <1>1, <1>2, <1>3, <1>4, <1>5, <1>6, <1>7, <1>8, <1>9, <1>10, <1>11, <1>12

(* A lost frame leaves everything else as it is.                           *)
LEMMA LoseInv ==
  ASSUME Inv, NEW f \in net, Lose(f)
  PROVE  Inv'
<1>1. TypeOK'
  BY DEF Inv, TypeOK, Lose
<1> QED
  BY <1>1 DEF Inv, Tries, MutexHeld, HeldNotEmpty, IndexOwned, NoLeak, InFlight, SingleCopy,
           Quiet, NoCopy, CarriesOwn, GotComplete, AnswerIsOwn, Owns, Me, Lose

(* The invariant speaks only of the variables of the specification.        *)
LEMMA StutterInv ==
  ASSUME Inv, UNCHANGED vars
  PROVE  Inv'
BY DEF Inv, TypeOK, Tries, MutexHeld, HeldNotEmpty, IndexOwned, NoLeak, InFlight, SingleCopy,
       Quiet, NoCopy, CarriesOwn, GotComplete, AnswerIsOwn, Owns, Me, vars

(***************************************************************************)
(* With no more threads than buffers, a send() that takes every frame and  *)
(* no late answers, the frame layer hands out every index to one           *)
(* transaction at a time, takes every index back, and gives every          *)
(* primitive the answer to its own datagram.                               *)
(***************************************************************************)
THEOREM PoolIsSound ==
  ASSUME ~LateFrames, ~SendFails, Cardinality(Threads) <= NumBuf
  PROVE  Spec => [](TypeOK /\ IndexOwned /\ NoLeak /\ AnswerIsOwn)
<1>1. Init => Inv
  BY InitInv
<1>2. Inv /\ [Next]_vars => Inv'
  <2> SUFFICES ASSUME Inv, [Next]_vars PROVE Inv'
    OBVIOUS
  <2>1. ASSUME NEW t \in Threads, Step(t) PROVE Inv'
    <3>1. CASE GetIndex(t)       BY <3>1, GetIndexInv
    <3>2. CASE SetupDatagram(t)  BY <3>2, SetupDatagramInv
    <3>3. CASE OutFrame(t)       BY <3>3, OutFrameInv
    <3>4. CASE OutFrameFails(t)  BY <3>4 DEF OutFrameFails
    <3>5. CASE InFrameFast(t)    BY <3>5, InFrameFastInv
    <3>6. CASE LockRx(t)         BY <3>6, LockRxInv
    <3>7. CASE InFrameAgain(t)   BY <3>7, InFrameAgainInv
    <3>8. CASE RecvNone(t)       BY <3>8, RecvNoneInv
    <3>9. CASE StoreOther(t)     BY <3>9, StoreOtherInv
    <3>10. CASE TimerRuns(t)     BY <3>10, TimerRunsInv
    <3>11. CASE TimerExpires(t)  BY <3>11, TimerExpiresInv
    <3>12. CASE CopyAnswer(t)    BY <3>12, CopyAnswerInv
    <3>13. CASE Release(t)       BY <3>13, ReleaseInv
    <3>14. ASSUME NEW f \in net, RecvOwn(t, f) PROVE Inv'
      BY <3>14, RecvOwnInv
    <3>15. ASSUME NEW f \in net, RecvOther(t, f) PROVE Inv'
      BY <3>15, RecvOtherInv
    <3>16. CASE InFrameMiss(t)   BY <3>16, InFrameMissInv
    <3> QED
      BY <2>1, <3>1, <3>2, <3>3, <3>4, <3>5, <3>6, <3>7, <3>8, <3>9, <3>10, <3>11, <3>12,
         <3>13, <3>14, <3>15, <3>16 DEF Step
  <2>2. ASSUME NEW f \in net, Lose(f) PROVE Inv'
    BY <2>2, LoseInv
  <2>3. ASSUME UNCHANGED vars PROVE Inv'
    BY <2>3, StutterInv
  <2> QED BY <2>1, <2>2, <2>3 DEF Next, Finished
<1>3. Inv => TypeOK /\ IndexOwned /\ NoLeak /\ AnswerIsOwn
  BY DEF Inv
<1> QED BY <1>1, <1>2, <1>3, PTL DEF Spec

(***************************************************************************)
(* IndicesAreSound: no two transactions share an index and none keeps an   *)
(* index for good, however its sends, losses and retries interleave with   *)
(* those of the other threads, under the hypotheses of PoolIsSound.        *)
(***************************************************************************)
THEOREM IndicesStaySound ==
  ASSUME ~LateFrames, ~SendFails, Cardinality(Threads) <= NumBuf
  PROVE  Spec => []IndicesAreSound
<1>1. TypeOK /\ IndexOwned /\ NoLeak /\ AnswerIsOwn => IndicesAreSound
  BY DEF IndicesAreSound
<1> QED BY <1>1, PoolIsSound, PTL

(***************************************************************************)
(* AnswerIsOwn: what a primitive takes for its answer is the datagram it   *)
(* sent, also when another thread has read and stored it, under the        *)
(* hypotheses of PoolIsSound.                                              *)
(***************************************************************************)
THEOREM AnswersAreOwn ==
  ASSUME ~LateFrames, ~SendFails, Cardinality(Threads) <= NumBuf
  PROVE  Spec => []AnswerIsOwn
BY PoolIsSound, PTL
=============================================================================
