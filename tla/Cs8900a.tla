------------------------------- MODULE Cs8900a -------------------------------
(***************************************************************************)
(* The driver of netif/cs8900a_lpc_e2129.c. The registers of the chip are  *)
(* reached in two accesses: its address port selects one, its data port    *)
(* reads or writes the one that is selected. The polling thread and the    *)
(* stack's thread, which sends, both do this and take no lock.             *)
(*                                                                         *)
(* Each access of the address port or the data port is a step, and so is   *)
(* the copying of a frame. The threads preempt each other between any two  *)
(* steps. What goes wrong then is a finding; what the driver does right    *)
(* holds of the accesses that the other thread has not cut, and cut tells  *)
(* which are not.                                                          *)
(***************************************************************************)
EXTENDS Naturals, Sequences

CONSTANTS
  Frames,       \* frames that arrive
  NoFrame,
  Retries       \* 8 in the code

ASSUME CsAssumption ==
  /\ NoFrame \notin Frames
  /\ Retries \in Nat

Regs == {"RxEvent", "BusST", "RxCFG"}

VARIABLES
  addr,     \* the register the address port selects
  rxq,      \* received frames in the chip; the oldest can be read
  event,    \* RxEvent shows a frame, and is cleared when it is read
  txfree,   \* the chip has space for a frame: READY_FOR_TX_NOW of BusST
  poll,     \* where the polling thread is
  cur,      \* history: the frame it has found
  send,     \* where lowLevelOutput is
  u,        \* its retries
  cut       \* history: the threads whose accesses the other one has cut

chip    == <<addr, rxq, event, txfree>>
polling == <<poll, cur>>
sending == <<send, u>>
vars    == <<chip, polling, sending, cut>>

Init ==
  /\ addr = "RxCFG" /\ rxq = <<>> /\ event = FALSE /\ txfree = TRUE
  /\ poll = "sleep" /\ cur = NoFrame
  /\ send = "idle" /\ u = 0
  /\ cut = {}

-----------------------------------------------------------------------------
(* The chip. *)

Arrive(f) ==
  /\ \A i \in DOMAIN rxq : rxq[i] # f
  /\ rxq' = Append(rxq, f)
  /\ event' = (event \/ rxq = <<>>)
  /\ UNCHANGED <<addr, txfree, polling, sending, cut>>

Transmitted ==
  /\ ~txfree
  /\ txfree' = TRUE
  /\ UNCHANGED <<addr, rxq, event, polling, sending, cut>>

\* Frames leave the chip when they have been read or skipped.
RemoveFrame ==
  /\ rxq' = IF rxq = <<>> THEN rxq ELSE Tail(rxq)
  /\ event' = (rxq # <<>> /\ Tail(rxq) # <<>>)

\* cs8900aWrite(ADD_PORT, r)
Select(r) == addr' = r /\ UNCHANGED <<rxq, event, txfree>>

\* Bit 8 of the register: RX_OK, READY_FOR_TX_NOW, and nothing in RxCFG.
Bit8 == CASE addr = "RxEvent" -> event
          [] addr = "BusST"   -> txfree
          [] addr = "RxCFG"   -> FALSE

\* cs8900aRead(DATA_PORT)
ReadData ==
  /\ event' = (event /\ addr # "RxEvent")
  /\ UNCHANGED <<addr, rxq, txfree>>

\* cs8900aWrite(DATA_PORT, ... | SKIP_1): the other registers are read-only.
WriteSkip ==
  /\ IF addr = "RxCFG" THEN RemoveFrame ELSE UNCHANGED <<rxq, event>>
  /\ UNCHANGED <<addr, txfree>>

PollGoto(a, b) == poll = a /\ poll' = b
SendGoto(a, b) == send = a /\ send' = b

\* Where a thread is when its next step uses the address port or the data port.
Accessing == {"select", "check", "skip1", "skip2", "skip3"}

\* Where a thread relies on what it has done to the chip before: from the first
\* access of a poll, or of a retry of lowLevelOutput, to the end of it.
InMiddle(t) ==
  CASE t = "poll" -> poll \in {"check", "alloc", "read", "skip1", "skip2", "skip3"}
    [] t = "send" -> send \in {"check", "copy", "skip1", "skip2", "skip3"}

\* A thread that is in the middle of its accesses is cut when the other one, which
\* is at a place of its own, uses the ports.
Cut(place, other) ==
  LET hit == IF place \in Accessing THEN cut \cup {other} ELSE cut
  IN  cut' = {t \in hit : InMiddle(t)'}

-----------------------------------------------------------------------------
(* The polling thread. *)

\* posTaskSleep(MS(10)) is over.
Wake == PollGoto("sleep", "select") /\ UNCHANGED <<chip, cur>>

\* Mutant: relies on the register that was selected the last time.
SelectRxEventNot ==
  /\ PollGoto("select", "check")
  /\ UNCHANGED <<chip, cur>>

SelectRxEvent ==
  /\ PollGoto("select", "check")
  /\ Select("RxEvent")
  /\ UNCHANGED cur

\* No frame: the loop of cs8900aThread ends.
CheckRxEvent ==
  /\ poll = "check"
  /\ ReadData
  /\ IF Bit8 THEN /\ poll' = "alloc"
                  /\ cur' = IF rxq = <<>> THEN NoFrame ELSE Head(rxq)
             ELSE poll' = "sleep" /\ UNCHANGED cur

\* The status and the length are read, then a buffer is allocated.
Alloc ==
  /\ PollGoto("alloc", "read") \/ PollGoto("alloc", "skip1")
  /\ UNCHANGED <<chip, cur>>

ReadFrame ==
  /\ PollGoto("read", "input")
  /\ RemoveFrame
  /\ cur' = NoFrame
  /\ UNCHANGED <<addr, txfree>>

\* cs8900aIfInput hands the frame to the stack, or frees it, and is called again.
cs8900aIfInput == PollGoto("input", "select") /\ UNCHANGED <<chip, cur>>

\* Mutant: skips without selecting the register first.
PollSkipNotSelected ==
  \/ PollGoto("skip1", "skip2") /\ UNCHANGED <<chip, cur>>
  \/ PollGoto("skip2", "skip3") /\ ReadData /\ UNCHANGED cur
  \/ PollGoto("skip3", "sleep") /\ WriteSkip /\ cur' = NoFrame

\* cs8900aSkipFrame, after which NULL is returned.
PollSkip ==
  \/ PollGoto("skip1", "skip2") /\ Select("RxCFG") /\ UNCHANGED cur
  \/ PollGoto("skip2", "skip3") /\ ReadData /\ UNCHANGED cur
  \/ PollGoto("skip3", "sleep") /\ WriteSkip /\ cur' = NoFrame

cs8900aThread ==
  /\ Wake \/ SelectRxEvent \/ CheckRxEvent \/ Alloc \/ ReadFrame
       \/ cs8900aIfInput \/ PollSkip
  /\ UNCHANGED sending
  /\ Cut(poll, "send")

-----------------------------------------------------------------------------
(* Sending. *)

\* Mutant: one retry too many.
BidMore ==
  /\ SendGoto("idle", "select")
  /\ u' = Retries + 1
  /\ UNCHANGED chip

\* The transmit command and the length.
Bid ==
  /\ SendGoto("idle", "select")
  /\ u' = Retries
  /\ UNCHANGED chip

\* Mutant: relies on the register that was selected the last time.
SelectBusSTNot ==
  /\ SendGoto("select", "check")
  /\ UNCHANGED <<chip, u>>

SelectBusST ==
  /\ SendGoto("select", "check")
  /\ Select("BusST")
  /\ UNCHANGED u

\* Mutant: the retries are not counted.
CheckBusSTForever ==
  /\ send = "check"
  /\ ReadData
  /\ send' = IF Bit8 THEN "copy" ELSE "skip1"
  /\ UNCHANGED u

\* No space, and no retry left: ERR_IF.
CheckBusST ==
  /\ send = "check"
  /\ ReadData
  /\ \/ Bit8 /\ send' = "copy" /\ UNCHANGED u
     \/ ~Bit8 /\ u > 0 /\ send' = "skip1" /\ u' = u - 1
     \/ ~Bit8 /\ u = 0 /\ send' = "idle" /\ UNCHANGED u

\* "No space avaliable, skip a received frame and try again".
SendSkip ==
  /\ \/ SendGoto("skip1", "skip2") /\ Select("RxCFG")
     \/ SendGoto("skip2", "skip3") /\ ReadData
     \/ SendGoto("skip3", "select") /\ WriteSkip
  /\ UNCHANGED u

\* The frame is copied into the chip, which may have no more space then.
Copy ==
  /\ SendGoto("copy", "idle")
  /\ txfree' \in BOOLEAN
  /\ u' = 0
  /\ UNCHANGED <<addr, rxq, event>>

lowLevelOutput ==
  /\ Bid \/ SelectBusST \/ CheckBusST \/ SendSkip \/ Copy
  /\ UNCHANGED polling
  /\ Cut(send, "poll")

Next ==
  \/ \E f \in Frames : Arrive(f)
  \/ Transmitted
  \/ cs8900aThread
  \/ lowLevelOutput

\* A call of lowLevelOutput that has begun goes on. The chip need not send.
Spec == Init /\ [][Next]_vars /\ WF_vars(lowLevelOutput /\ send # "idle")

-----------------------------------------------------------------------------
(* What must be true. *)

\* The chip's and the threads' state keeps its types, and the retries stay in
\* their range (cs8900a_lpc_e2129.c:321-334).
TypeOK ==
  /\ addr \in Regs /\ rxq \in Seq(Frames) /\ event \in BOOLEAN /\ txfree \in BOOLEAN
  /\ poll \in {"sleep", "select", "check", "alloc", "read", "input",
               "skip1", "skip2", "skip3"}
  /\ cur \in Frames \cup {NoFrame}
  /\ send \in {"idle", "select", "check", "skip1", "skip2", "skip3", "copy"}
  /\ u \in 0 .. Retries
  /\ \A t \in cut : t \in {"poll", "send"} /\ InMiddle(t)

\* "Check receiver event register to see if there are any valid frames
\* avaliable" (cs8900a_lpc_e2129.c:365): when the thread goes on to read or to
\* skip a frame, there is one in the chip, and it is still the one it found. With
\* two threads at the ports this fails: no lock is taken (366-367).
FrameThere ==
  poll \in {"alloc", "read", "skip1", "skip2", "skip3"} =>
    rxq # <<>> /\ cur = Head(rxq)

\* It fails by interleaving only: from the selection of RxEvent on, a poll that the
\* sender has not cut has found a frame, and that frame is not lost to the
\* skipping of the sender, nor to what the sender did in the poll before
\* (cs8900a_lpc_e2129.c:244-245, 365-412).
FrameKept == "poll" \notin cut => FrameThere

\* A frame is copied into the chip only when the chip has space for it, unless the
\* polling thread has cut the check: the register that said so was BusST, and
\* nobody used the space in between (cs8900a_lpc_e2129.c:325-336).
SpaceKept == send = "copy" /\ "send" \notin cut => txfree

\* A frame that is skipped or read makes the next one visible: between two polls
\* and until RxEvent is read, it tells whether a frame is waiting.
EventPending ==
  poll \in {"sleep", "select", "check", "input"} => (event <=> rxq # <<>>)

\* RxEvent stays right, except by a step of a thread whose accesses the other one
\* has cut: a sender that reads RxEvent for RxCFG clears it, and a poll that
\* writes its skip elsewhere leaves behind a frame that RxEvent has reported
\* already (cs8900a_lpc_e2129.c:243-245, 366-367, 475-477).
EventKept ==
  [][EventPending =>
       \/ EventPending'
       \/ "poll" \in cut /\ poll' # poll
       \/ "send" \in cut /\ send' # send]_vars

\* Sending ends, also when the chip never has space and whatever the polling thread
\* does in between: it gives up after the retries
\* (cs8900a_lpc_e2129.c:320-330).
OutputReturns == send # "idle" ~> send = "idle"
==============================================================================
