----------------------------- MODULE TapIfProofs -----------------------------
(***************************************************************************)
(* The driver of netif/tapif.c, for every set of buffers, every size of    *)
(* the stack's mailbox and any number of frames and signals.               *)
(*                                                                         *)
(* NoLostWakeup is not inductive: the thread might be created with nothing *)
(* signalled while frames wait. Booted says that the count the semaphore   *)
(* is created with is still there then, because nobody but the thread      *)
(* takes it.                                                               *)
(***************************************************************************)
EXTENDS TapIf, TLAPS

Booted ==
  /\ pc = "none" <=> boot \in {"off", "signals", "sema"}
  /\ boot = "sema" => sema > 0

Inv == TypeOK /\ Booted /\ PbufsAccounted /\ NoLostWakeup

\* What becomes of the oldest frame.
LEMMA HeadTail ==
  ASSUME TypeOK, dev # <<>>
  PROVE  /\ Head(dev) \in Kinds
         /\ Tail(dev) \in Seq(Kinds)
         /\ Len(Tail(dev)) <= MaxFrames
<1>1. dev \in Seq(Kinds) /\ Len(dev) <= MaxFrames /\ MaxFrames \in Nat
  BY TapAssumption DEF TypeOK
<1> QED
  BY <1>1

\* A frame more.
LEMMA AppendFrame ==
  ASSUME TypeOK, NEW k \in Kinds, Len(dev) < MaxFrames
  PROVE  /\ Append(dev, k) \in Seq(Kinds)
         /\ Len(Append(dev, k)) <= MaxFrames
<1>1. dev \in Seq(Kinds) /\ MaxFrames \in Nat
  BY TapAssumption DEF TypeOK
<1>2. Append(dev, k) \in Seq(Kinds) /\ Len(Append(dev, k)) = Len(dev) + 1
  BY <1>1
<1> QED
  BY <1>1, <1>2

\* Before the start.
LEMMA InitInv == Init => Inv
<1> SUFFICES ASSUME Init
             PROVE  Inv
  OBVIOUS
<1>1. <<>> \in Seq(Kinds) /\ Len(<<>>) = 0
  OBVIOUS
<1>2. padded \in [TxBufs -> BOOLEAN]
  BY DEF Init
<1>3. Len(<<>>) <= MaxFrames
  BY TapAssumption
<1>4. TypeOK
  BY <1>1, <1>2, <1>3, TapAssumption DEF Init, TypeOK, Kinds
<1> QED
  BY <1>4 DEF Init, Inv, Booted, PbufsAccounted, NoLostWakeup

\* The start: the semaphore still has its first signal when the thread comes up.
LEMMA StartStep ==
  ASSUME Inv, tapIfInit
  PROVE  Inv'
BY DEF tapIfInit, lowLevelInit, CreateSema, CreateTask, SetPollSema,
   Inv, TypeOK, Booted, PbufsAccounted, NoLostWakeup, buffers

\* A frame comes with its signal; the handler passes it on, or late remembers.
LEMMA SignalStep ==
  ASSUME Inv, ioReady \/ \E k \in Kinds : Arrive(k)
  PROVE  Inv'
<1>1. ASSUME NEW k \in Kinds, Arrive(k)
      PROVE  Inv'
  <2>1. TypeOK'
    BY <1>1, AppendFrame DEF Arrive, Inv, TypeOK, buffers
  <2> QED
    BY <1>1, <2>1 DEF Arrive, Inv, Booted, PbufsAccounted, NoLostWakeup, buffers
<1>2. CASE ioReady
  <2>1. CASE boot = "done" /\ sema' = sema + 1 /\ UNCHANGED late
    <3>1. sema' \in Nat /\ sema' > 0
      BY <2>1 DEF Inv, TypeOK
    <3>2. UNCHANGED <<boot, dev, pc, buffers, padded, late>> /\ pending' = FALSE
      BY <1>2, <2>1 DEF ioReady
    <3>3. TypeOK'
      BY <3>1, <3>2 DEF Inv, TypeOK, buffers
    <3>4. Booted' /\ PbufsAccounted' /\ NoLostWakeup'
      BY <2>1, <3>1, <3>2 DEF Inv, Booted, PbufsAccounted, NoLostWakeup, buffers
    <3> QED
      BY <3>3, <3>4 DEF Inv
  <2>2. CASE boot # "done" /\ late' = TRUE /\ UNCHANGED sema
    BY <1>2, <2>2
    DEF ioReady, Inv, TypeOK, Booted, PbufsAccounted, NoLostWakeup, buffers
  <2> QED
    BY <1>2, <2>1, <2>2 DEF ioReady
<1> QED
  BY <1>1, <1>2

\* A frame that was read has a buffer of the pool, or the drain is broken off.
LEMMA StoreStep ==
  ASSUME Inv, pc = "read", NEW k \in Kinds, Store(k),
         UNCHANGED <<signals, stack, padded>>,
         dev' \in Seq(Kinds), Len(dev') <= MaxFrames
  PROVE  Inv'
<1>1. buf = NoPbuf
  BY DEF Inv, TypeOK
<1>2. ASSUME NEW b \in pool,
             pool' = pool \ {b}, buf' = b, kind' = k, pc' = "input", UNCHANGED late
      PROVE  Inv'
  <2>1. b \in Pbufs /\ b # NoPbuf
    BY TapAssumption DEF Inv, TypeOK
  <2>2. TypeOK'
    BY <1>2, <2>1 DEF Inv, TypeOK, signals
  <2>3. PbufsAccounted'
    BY <1>1, <1>2, <2>1 DEF Inv, PbufsAccounted
  <2> QED
    BY <1>2, <2>2, <2>3 DEF Inv, Booted, NoLostWakeup, signals
<1>3. ASSUME pc' = "wait", late' = TRUE, UNCHANGED <<pool, buf, kind>>
      PROVE  Inv'
  BY <1>1, <1>3 DEF Inv, TypeOK, Booted, PbufsAccounted, NoLostWakeup, signals
<1> QED
  BY <1>2, <1>3 DEF Store

\* The polling thread stops reading only when the device is empty or late is set.
LEMMA ThreadStep ==
  ASSUME Inv, tapThread
  PROVE  Inv'
<1>1. CASE nosSemaWait
  BY <1>1 DEF nosSemaWait, Inv, TypeOK, Booted, PbufsAccounted, NoLostWakeup, buffers
<1>2. CASE lowLevelInput
  BY <1>2, HeadTail, StoreStep DEF lowLevelInput, Inv
<1>3. CASE Drained
  BY <1>3 DEF Drained, Inv, TypeOK, Booted, PbufsAccounted, NoLostWakeup, buffers, signals
<1>4. CASE ReadError
  <2>1. dev' \in Seq(Kinds) /\ Len(dev') <= MaxFrames
    BY <1>4 DEF ReadError, Inv, TypeOK
  <2> QED
    BY <1>4, <2>1, StoreStep DEF ReadError
<1>5. CASE tapIfInput
  <2>1. buf \in Pbufs /\ buf # NoPbuf
    BY <1>5 DEF tapIfInput, Inv, TypeOK
  <2>2. TypeOK'
    BY <1>5, <2>1 DEF tapIfInput, Inv, TypeOK, signals, Kinds
  <2>3. PbufsAccounted'
    BY <1>5, <2>1 DEF tapIfInput, Inv, PbufsAccounted
  <2> QED
    BY <1>5, <2>2, <2>3 DEF tapIfInput, Inv, Booted, NoLostWakeup, signals
<1> QED
  BY <1>1, <1>2, <1>3, <1>4, <1>5 DEF tapThread

\* The stack gives receive buffers back; what it sends is another pool.
LEMMA StackStep ==
  ASSUME Inv, Consume \/ \E p \in TxBufs : lowLevelOutput(p) \/ Renew(p)
  PROVE  Inv'
<1>1. CASE Consume
  BY <1>1 DEF Consume, Inv, TypeOK, Booted, PbufsAccounted, NoLostWakeup, signals
<1>2. ASSUME NEW p \in TxBufs, lowLevelOutput(p) \/ Renew(p)
      PROVE  Inv'
  BY <1>2 DEF lowLevelOutput, Renew, Inv, TypeOK, Booted, PbufsAccounted, NoLostWakeup,
     signals, buffers
<1> QED
  BY <1>1, <1>2

-----------------------------------------------------------------------------
(* The theorems. *)

\* The inductive invariant of the driver.
THEOREM Invariant == Spec => []Inv
<1>1. Inv /\ UNCHANGED vars => Inv'
  BY DEF vars, signals, buffers, Inv, TypeOK, Booted, PbufsAccounted, NoLostWakeup
<1>2. Inv /\ [Next]_vars => Inv'
  BY <1>1, StartStep, SignalStep, ThreadStep, StackStep DEF Next
<1> QED
  BY <1>2, InitInv, PTL DEF Spec

\* The state keeps its types, and a buffer is handed over only when there is one
\* (tapif.c:218, 258).
THEOREM TypeCorrect == Spec => []TypeOK
BY Invariant, PTL DEF Inv

\* No receive buffer is leaked or freed twice, whatever the stack refuses
\* (tapif.c:275-285).
THEOREM BuffersAreAccounted == Spec => []PbufsAccounted
BY Invariant, PTL DEF Inv

\* Frames that share a signal, or come after the last read, are not slept over: a
\* waiting thread with frames and no signal means that a signal came before
\* pollSema was set or that a drain found no buffer (tapif.c:83-89, 304-306).
THEOREM WakeupsAreKept == Spec => []NoLostWakeup
BY Invariant, PTL DEF Inv
=============================================================================
