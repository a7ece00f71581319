-------------------------------- MODULE TapIf --------------------------------
(***************************************************************************)
(* The driver of netif/tapif.c: a thread that reads frames from a tap      *)
(* device and hands them to the stack. The host announces frames with      *)
(* SIGIO, whose handler signals the semaphore that the thread waits on.    *)
(* Frames come from the host at any time; SIGIO is not queued, so several  *)
(* frames may share one signal; the thread, the handler, the task that     *)
(* starts the driver and the stack's thread interleave.                    *)
(***************************************************************************)
EXTENDS Naturals, Sequences, FiniteSets

CONSTANTS
  Pbufs, NoPbuf,   \* the PBUF_POOL buffers
  TxBufs,          \* buffers that the stack sends
  MboxSize,        \* received frames the stack's mailbox has room for
  MaxFrames,       \* bound on the frames in the device
  MaxSignals       \* bound on the count of the semaphore

ASSUME TapAssumption ==
  /\ NoPbuf \notin Pbufs
  /\ MboxSize \in Nat /\ MaxFrames \in Nat /\ MaxSignals \in Nat

Kinds == {"ip", "other"}   \* Ethernet types the stack takes, and the rest

VARIABLES
  boot,      \* how far tapIfInit is: pollSema is set when it is "done"
  dev,       \* frames in the device, the oldest first
  pending,   \* SIGIO is pending
  sema,      \* the count of tapIf->sema
  pc,        \* where the polling thread is
  buf, kind, \* the frame it holds
  pool,      \* free PBUF_POOL buffers
  stack,     \* buffers that the stack owns
  padded,    \* sent buffers whose payload starts with the padding word
  late       \* history: a signal was lost or a drain was broken off

signals == <<boot, pending, sema>>
buffers == <<pool, stack, buf, kind>>
vars    == <<signals, dev, pc, buffers, padded, late>>

Init ==
  /\ boot = "off" /\ dev = <<>> /\ pending = FALSE /\ sema = 0
  /\ pc = "none" /\ buf = NoPbuf /\ kind = "other"
  /\ pool = Pbufs /\ stack = {}
  /\ padded = [p \in TxBufs |-> TRUE]
  /\ late = FALSE

-----------------------------------------------------------------------------
(* Start. Without memory tapIfInit does nothing. *)

\* The device is open and SIGIO is on.
lowLevelInit ==
  /\ boot = "off"
  /\ boot' = "signals"
  /\ UNCHANGED <<dev, pending, sema, pc, buffers, padded, late>>

CreateSema ==
  /\ boot = "signals"
  /\ boot' = "sema"
  /\ sema' = 1
  /\ UNCHANGED <<dev, pending, pc, buffers, padded, late>>

CreateTask ==
  /\ boot = "sema"
  /\ boot' = "task"
  /\ pc' = "wait"
  /\ UNCHANGED <<dev, pending, sema, buffers, padded, late>>

SetPollSema ==
  /\ boot = "task"
  /\ boot' = "done"
  /\ UNCHANGED <<dev, pending, sema, pc, buffers, padded, late>>

tapIfInit == lowLevelInit \/ CreateSema \/ CreateTask \/ SetPollSema

-----------------------------------------------------------------------------
(* The device and its signal. *)

Arrive(k) ==
  /\ boot # "off"
  /\ Len(dev) < MaxFrames /\ sema < MaxSignals
  /\ dev' = Append(dev, k)
  /\ pending' = TRUE
  /\ UNCHANGED <<boot, sema, pc, buffers, padded, late>>

\* Before pollSema is set there is nothing to signal.
ioReady ==
  /\ pending
  /\ pending' = FALSE
  /\ IF boot = "done" THEN sema' = sema + 1 /\ UNCHANGED late
                      ELSE late' = TRUE /\ UNCHANGED sema
  /\ UNCHANGED <<boot, dev, pc, buffers, padded>>

-----------------------------------------------------------------------------
(* The polling thread. *)

\* Mutant: waits without a limit.
nosSemaWaitForever ==
  /\ pc = "wait"
  /\ sema > 0
  /\ sema' = sema - 1
  /\ pc' = "read"
  /\ UNCHANGED <<boot, dev, pending, buffers, padded, late>>

\* nosSemaWait(tapIf->sema, MS(1000)): a signal, or a second goes by.
nosSemaWait ==
  /\ pc = "wait"
  /\ sema' = IF sema > 0 THEN sema - 1 ELSE 0
  /\ pc' = "read"
  /\ UNCHANGED <<boot, dev, pending, buffers, padded, late>>

\* Mutant: does not look whether there was a buffer.
StoreUnchecked(k) ==
  /\ \/ \E b \in pool : pool' = pool \ {b} /\ buf' = b
     \/ UNCHANGED <<pool, buf>>
  /\ kind' = k
  /\ pc' = "input"
  /\ UNCHANGED late

\* What becomes of a frame of kind k that was read: it gets a buffer, or it is
\* dropped, and then the thread stops reading.
Store(k) ==
  \/ \E b \in pool :
       /\ pool' = pool \ {b}
       /\ buf' = b /\ kind' = k
       /\ pc' = "input"
       /\ UNCHANGED late
  \/ /\ pc' = "wait"
     /\ late' = TRUE
     /\ UNCHANGED <<pool, buf, kind>>

\* read() takes the oldest frame.
lowLevelInput ==
  /\ pc = "read"
  /\ dev # <<>>
  /\ dev' = Tail(dev)
  /\ Store(Head(dev))
  /\ UNCHANGED <<signals, stack, padded>>

\* EAGAIN: all has been read.
Drained ==
  /\ pc = "read"
  /\ dev = <<>>
  /\ pc' = "wait"
  /\ late' = FALSE
  /\ UNCHANGED <<signals, dev, buffers, padded>>

\* Any other error is taken for a length: the frame is what was on the stack.
ReadError ==
  /\ pc = "read"
  /\ \E k \in Kinds : Store(k)
  /\ UNCHANGED <<signals, dev, stack, padded>>

\* Mutant: reads one frame for each signal.
tapIfInputOnce ==
  /\ pc = "input"
  /\ \/ kind = "ip" /\ Cardinality(stack) < MboxSize
        /\ stack' = stack \cup {buf} /\ UNCHANGED pool
     \/ pool' = pool \cup {buf} /\ UNCHANGED stack
  /\ buf' = NoPbuf
  /\ kind' = "other"
  /\ pc' = "wait"
  /\ UNCHANGED <<signals, dev, padded, late>>

\* Mutant: only frames of other kinds are freed.
tapIfInputKeeps ==
  /\ pc = "input"
  /\ \/ kind = "ip" /\ Cardinality(stack) < MboxSize
        /\ stack' = stack \cup {buf} /\ UNCHANGED pool
     \/ kind = "other" /\ pool' = pool \cup {buf} /\ UNCHANGED stack
     \/ kind = "ip" /\ UNCHANGED <<pool, stack>>
  /\ buf' = NoPbuf
  /\ kind' = "other"
  /\ pc' = "read"
  /\ UNCHANGED <<signals, dev, padded, late>>

\* netif->input takes the buffer, when it has room and memory for it. Otherwise,
\* and when nobody handles the type, the buffer is freed.
tapIfInput ==
  /\ pc = "input"
  /\ \/ kind = "ip" /\ Cardinality(stack) < MboxSize
        /\ stack' = stack \cup {buf} /\ UNCHANGED pool
     \/ pool' = pool \cup {buf} /\ UNCHANGED stack
  /\ buf' = NoPbuf
  /\ kind' = "other"
  /\ pc' = "read"
  /\ UNCHANGED <<signals, dev, padded, late>>

tapThread == nosSemaWait \/ lowLevelInput \/ Drained \/ ReadError \/ tapIfInput

-----------------------------------------------------------------------------
(* The stack. *)

Consume ==
  /\ \E b \in stack : stack' = stack \ {b} /\ pool' = pool \cup {b}
  /\ UNCHANGED <<signals, dev, pc, buf, kind, padded, late>>

\* One call by the stack's thread. The padding word is dropped, and it is
\* reclaimed unless write() fails.
lowLevelOutput(p) ==
  /\ boot = "done"
  /\ padded[p]
  /\ \E ok \in BOOLEAN : padded' = [padded EXCEPT ![p] = ok]
  /\ UNCHANGED <<signals, dev, pc, buffers, late>>

\* The stack is done with the buffer and allocates a new one.
Renew(p) ==
  /\ ~padded[p]
  /\ padded' = [padded EXCEPT ![p] = TRUE]
  /\ UNCHANGED <<signals, dev, pc, buffers, late>>

Next ==
  \/ tapIfInit
  \/ \E k \in Kinds : Arrive(k)
  \/ ioReady
  \/ tapThread
  \/ Consume
  \/ \E p \in TxBufs : lowLevelOutput(p) \/ Renew(p)

\* The thread runs, its wait ends after a second, and a device that has frames
\* does not answer every read with an error.
Spec ==
  /\ Init /\ [][Next]_vars
  /\ WF_vars(tapIfInit) /\ WF_vars(tapThread) /\ SF_vars(lowLevelInput)

-----------------------------------------------------------------------------
(* What must be true. *)

\* The driver's state keeps its types, and the thread hands over a buffer only
\* when it has one (tapif.c:218, 258).
TypeOK ==
  /\ boot \in {"off", "signals", "sema", "task", "done"}
  /\ dev \in Seq(Kinds) /\ Len(dev) <= MaxFrames
  /\ pending \in BOOLEAN
  /\ sema \in Nat
  /\ pc \in {"none", "wait", "read", "input"}
  /\ buf \in Pbufs \cup {NoPbuf} /\ kind \in Kinds
  /\ pc = "input" <=> buf # NoPbuf
  /\ pool \subseteq Pbufs /\ stack \subseteq Pbufs
  /\ padded \in [TxBufs -> BOOLEAN]
  /\ late \in BOOLEAN

\* A receive buffer is free, or with the thread, or with the stack, and in one
\* of these places only: none is leaked or freed twice when the mailbox is full
\* or the type is unknown (tapif.c:275-285).
PbufsAccounted ==
  LET held == IF buf = NoPbuf THEN {} ELSE {buf}
  IN  /\ pool \cup stack \cup held = Pbufs
      /\ pool \cap stack = {} /\ held \cap (pool \cup stack) = {}

\* No wakeup is lost: when the thread waits, nothing is signalled and the device
\* has frames, then a signal came before pollSema was set or a drain stopped
\* because there was no buffer. In particular frames that share one SIGIO are
\* all read, and so is one that comes just after EAGAIN (tapif.c:83-89, 304-306).
NoLostWakeup ==
  pc = "wait" /\ sema = 0 /\ ~pending /\ dev # <<>> => late

\* Frames are read in the end, whatever signals get lost: the wait has a limit
\* (tapif.c:304).
FramesRead == []<>(dev = <<>>) \/ []<><<lowLevelInput>>_vars

\* "reclaim the padding word" (tapif.c:189): a buffer has it again when
\* lowLevelOutput returns.
PaddingReclaimed == \A p \in TxBufs : padded[p]
==============================================================================
