---------------------------- MODULE Cs8900aProofs ----------------------------
(***************************************************************************)
(* The driver of netif/cs8900a_lpc_e2129.c with threads that preempt each  *)
(* other, for every set of frames, any number of retries, any sequence of  *)
(* registers that is set at the start, and frames of any bytes in chains   *)
(* of any number of buffers.                                               *)
(*                                                                         *)
(* FrameKept is not inductive. Selected says which register the address    *)
(* port selects between two accesses of a thread that was not cut, and     *)
(* Reported that RxEvent never shows a frame that is not there.            *)
(*                                                                         *)
(* CyclesMatch needs to know what the port writes that are left will do to *)
(* the bus: BusInv, at the end of the module. The sections before it       *)
(* compute what each helper does, from any state in which it is called.    *)
(* Frames have any number of bytes and buffers; UpTo, about sets of        *)
(* numbers, takes the place of induction there.                            *)
(***************************************************************************)
EXTENDS Cs8900aDriver, WellFoundedInduction, SequenceTheorems, TLAPS

Selected ==
  /\ poll = "check" /\ "poll" \notin cut => addr = "RxEvent"
  /\ poll \in {"skip2", "skip3"} /\ "poll" \notin cut => addr = "RxCFG"
  /\ send = "check" /\ "send" \notin cut => addr = "BusST"
  /\ send \in {"skip2", "skip3"} /\ "send" \notin cut => addr = "RxCFG"

Reported == event => rxq # <<>>

Inv == TypeOK /\ Selected /\ Reported /\ FrameKept /\ SpaceKept

-----------------------------------------------------------------------------
(* The chip. *)

\* The oldest frame stays the oldest when another one arrives.
LEMMA AppendKeepsHead ==
  ASSUME NEW q \in Seq(Frames), NEW f \in Frames
  PROVE  /\ Append(q, f) \in Seq(Frames)
         /\ Append(q, f) # <<>>
         /\ q # <<>> => Head(Append(q, f)) = Head(q)
<1>1. /\ Append(q, f) \in Seq(Frames)
      /\ Len(Append(q, f)) = Len(q) + 1 /\ Len(q) \in Nat
  OBVIOUS
<1>2. Append(q, f) # <<>>
  <2>1. \A s \in Seq(Frames) : s = <<>> => Len(s) = 0
    OBVIOUS
  <2> DEFINE a == Append(q, f)
  <2>2. a \in Seq(Frames) /\ Len(a) = Len(q) + 1 /\ Len(q) \in Nat
    BY <1>1
  <2> HIDE DEF a
  <2>3. a # <<>>
    BY <2>1, <2>2
  <2> QED
    BY <2>3 DEF a
<1>3. ASSUME q # <<>>
      PROVE  Head(Append(q, f)) = Head(q)
  <2>1. Len(q) \in Nat \ {0}
    BY <1>3
  <2>2. Append(q, f)[1] = q[1]
    BY <2>1
  <2> QED
    BY <1>1, <1>2, <1>3, <2>2
<1> QED
  BY <1>1, <1>2, <1>3

\* What is left when a frame leaves the chip.
LEMMA TailFrames ==
  ASSUME NEW q \in Seq(Frames), q # <<>>
  PROVE  Tail(q) \in Seq(Frames) /\ Head(q) \in Frames
OBVIOUS

\* RxEvent is right after a frame has left the chip.
LEMMA RemoveFrameFacts ==
  ASSUME TypeOK, RemoveFrame
  PROVE  /\ rxq' \in Seq(Frames)
         /\ event' \in BOOLEAN
         /\ event' <=> rxq' # <<>>
BY TailFrames DEF TypeOK, RemoveFrame

\* The chip is idle and the threads have not run.
LEMMA InitInv == Init => Inv
<1> SUFFICES ASSUME Init
             PROVE  Inv
  OBVIOUS
<1>1. <<>> \in Seq(Frames) /\ 0 \in 0 .. Retries
  BY CsAssumption
<1>2. TypeOK
  BY <1>1 DEF Init, TypeOK, Regs
<1> QED
  BY <1>2 DEF Init, Inv, Selected, Reported, FrameKept, FrameThere, SpaceKept

\* Frames arrive and are sent while the threads are anywhere.
LEMMA ChipStep ==
  ASSUME Inv, Transmitted \/ \E f \in Frames : Arrive(f)
  PROVE  Inv' /\ (EventPending => EventPending')
<1>1. ASSUME NEW f \in Frames, Arrive(f)
      PROVE  Inv' /\ (EventPending => EventPending')
  <2>1. /\ rxq' \in Seq(Frames)
        /\ rxq' # <<>>
        /\ rxq # <<>> => Head(rxq') = Head(rxq)
    BY <1>1, AppendKeepsHead DEF Arrive, Inv, TypeOK
  <2>2. /\ event' = (event \/ rxq = <<>>)
        /\ UNCHANGED <<addr, txfree, poll, cur, send, u, cut>>
    BY <1>1 DEF Arrive, polling, sending
  <2>3. TypeOK'
    BY <2>1, <2>2 DEF Inv, TypeOK, InMiddle
  <2> QED
    BY <2>1, <2>2, <2>3 DEF Inv, Selected, Reported, FrameKept, FrameThere, SpaceKept,
       EventPending
<1>2. CASE Transmitted
  <2>1. txfree' = TRUE /\ UNCHANGED <<addr, rxq, event, poll, cur, send, u, cut>>
    BY <1>2 DEF Transmitted, polling, sending
  <2>2. TypeOK'
    BY <2>1 DEF Inv, TypeOK, InMiddle
  <2> QED
    BY <2>1, <2>2 DEF Inv, Selected, Reported, FrameKept, FrameThere, SpaceKept,
       EventPending
<1> QED
  BY <1>1, <1>2

-----------------------------------------------------------------------------
(* The threads. *)

\* Who is cut after a step of the polling thread: itself if it was and goes on, and
\* the sender if it was or if the step used the ports.
LEMMA PollCuts ==
  ASSUME TypeOK, cs8900aThread
  PROVE  /\ \A t \in cut' : t \in {"poll", "send"} /\ InMiddle(t)'
         /\ "poll" \in cut => poll \notin {"sleep", "select", "input"}
         /\ "poll" \notin cut' => "poll" \notin cut
                                   \/ poll' \in {"sleep", "select", "input"}
         /\ "send" \notin cut' /\ send \in {"check", "copy", "skip1", "skip2", "skip3"}
              => "send" \notin cut /\ poll \notin Accessing
         /\ UNCHANGED <<send, u>>
<1>1. UNCHANGED <<send, u>> /\ Cut(poll, "send")
  BY DEF cs8900aThread, sending
<1>2. /\ InMiddle("poll") <=> poll \notin {"sleep", "select", "input"}
      /\ InMiddle("poll")' =>
           poll' \in {"check", "alloc", "read", "skip1", "skip2", "skip3"}
      /\ poll' \in {"check", "alloc", "read", "skip1", "skip2", "skip3"} =>
           InMiddle("poll")'
      /\ InMiddle("send")' <=> send \in {"check", "copy", "skip1", "skip2", "skip3"}
  BY <1>1 DEF InMiddle, TypeOK
<1>3. poll' \in {"sleep", "select", "check", "alloc", "read", "input",
                 "skip1", "skip2", "skip3"}
  BY DEF cs8900aThread, Wake, SelectRxEvent, CheckRxEvent, Alloc, ReadFrame,
     cs8900aIfInput, PollSkip, PollGoto, TypeOK
<1>4. PICK hit : /\ hit = IF poll \in Accessing THEN cut \cup {"send"} ELSE cut
                 /\ cut' = {t \in hit : InMiddle(t)'}
  BY <1>1 DEF Cut
<1>5. \A t \in cut : t \in {"poll", "send"} /\ InMiddle(t)
  BY DEF TypeOK
<1> QED
  BY <1>1, <1>2, <1>3, <1>4, <1>5

\* And after one of lowLevelOutput.
LEMMA SendCuts ==
  ASSUME TypeOK, lowLevelOutput
  PROVE  /\ \A t \in cut' : t \in {"poll", "send"} /\ InMiddle(t)'
         /\ "send" \in cut => send \notin {"idle", "select"}
         /\ "send" \notin cut' => "send" \notin cut \/ send' \in {"idle", "select"}
         /\ "poll" \notin cut' /\ poll \notin {"sleep", "select", "input"}
              => "poll" \notin cut /\ send \notin Accessing
         /\ UNCHANGED <<poll, cur>>
<1>1. UNCHANGED <<poll, cur>> /\ Cut(send, "poll")
  BY DEF lowLevelOutput, polling
<1>2. /\ InMiddle("send") <=> send \notin {"idle", "select"}
      /\ send' \in {"check", "copy", "skip1", "skip2", "skip3"} => InMiddle("send")'
      /\ InMiddle("poll")' <=> poll \notin {"sleep", "select", "input"}
  BY <1>1 DEF InMiddle, TypeOK
<1>3. send' \in {"idle", "select", "check", "skip1", "skip2", "skip3", "copy"}
  BY DEF lowLevelOutput, Bid, SelectBusST, CheckBusST, SendSkip, Copy, SendGoto, TypeOK
<1>4. PICK hit : /\ hit = IF send \in Accessing THEN cut \cup {"poll"} ELSE cut
                 /\ cut' = {t \in hit : InMiddle(t)'}
  BY <1>1 DEF Cut
<1>5. \A t \in cut : t \in {"poll", "send"} /\ InMiddle(t)
  BY DEF TypeOK
<1> QED
  BY <1>1, <1>2, <1>3, <1>4, <1>5

\* What a step of the polling thread must keep: a poll that was cut may make
\* RxEvent forget a frame, no other one.
PollKeeps ==
  /\ Inv'
  /\ EventPending => EventPending' \/ ("poll" \in cut /\ poll' # poll)

\* The polling thread: as long as it is not cut, the register that it selected is
\* still selected, and the frame that it found is still there.
LEMMA PollStep ==
  ASSUME Inv, cs8900aThread
  PROVE  PollKeeps
<1> USE DEF PollGoto, PollKeeps
<1>1. /\ \A t \in cut' : t \in {"poll", "send"} /\ InMiddle(t)'
      /\ "poll" \in cut => poll \notin {"sleep", "select", "input"}
      /\ "poll" \notin cut' => "poll" \notin cut
                                \/ poll' \in {"sleep", "select", "input"}
      /\ "send" \notin cut' /\ send \in {"check", "copy", "skip1", "skip2", "skip3"}
           => "send" \notin cut /\ poll \notin Accessing
      /\ UNCHANGED <<send, u>>
  BY PollCuts DEF Inv
<1>2. CASE Wake \/ Alloc \/ cs8900aIfInput
  BY <1>1, <1>2 DEF Wake, Alloc, cs8900aIfInput, chip, Inv, TypeOK, Selected,
     Reported, FrameKept, FrameThere, SpaceKept, EventPending
<1>3. CASE SelectRxEvent
  BY <1>1, <1>3 DEF SelectRxEvent, Select, Inv, TypeOK, Regs, Selected, Accessing,
     Reported, FrameKept, FrameThere, SpaceKept, EventPending
<1>4. CASE CheckRxEvent
  <2>1. /\ poll = "check" /\ poll \in Accessing
        /\ event' = (event /\ addr # "RxEvent")
        /\ UNCHANGED <<addr, rxq, txfree>>
    BY <1>4 DEF CheckRxEvent, ReadData, Accessing
  <2>2. cur' \in Frames \cup {NoFrame} /\ poll' \in {"alloc", "sleep"}
    <3>1. \A q \in Seq(Frames) : q # <<>> => Head(q) \in Frames
      BY TailFrames
    <3> QED
      BY <1>4, <3>1 DEF CheckRxEvent, Inv, TypeOK
  <2>3. ASSUME poll' = "alloc", "poll" \notin cut
        PROVE  rxq # <<>> /\ cur' = Head(rxq)
    <3>1. addr = "RxEvent"
      BY <2>1, <2>3 DEF Inv, Selected
    <3>2. event
      BY <1>4, <2>3, <3>1 DEF CheckRxEvent, Bit8
    <3> QED
      BY <1>4, <2>3, <3>2 DEF CheckRxEvent, Inv, Reported
  <2>4. ASSUME poll' = "sleep", EventPending
        PROVE  EventPending'
    <3>1. event <=> rxq # <<>>
      BY <2>1, <2>4 DEF EventPending
    <3>2. event' <=> event
      <4>1. CASE addr = "RxEvent"
        BY <1>4, <2>1, <2>4, <4>1 DEF CheckRxEvent, Bit8
      <4>2. CASE addr # "RxEvent"
        BY <2>1, <4>2 DEF Inv, TypeOK
      <4> QED
        BY <4>1, <4>2
    <3> QED
      BY <2>1, <3>1, <3>2 DEF EventPending
  <2>5. poll' = "alloc" => EventPending'
    BY DEF EventPending
  <2>6. TypeOK' /\ Reported'
    BY <1>1, <2>1, <2>2 DEF Inv, TypeOK, Reported
  <2>7. Selected' /\ SpaceKept'
    BY <1>1, <2>1, <2>2 DEF Inv, Selected, SpaceKept
  <2>8. FrameKept'
    BY <1>1, <2>1, <2>2, <2>3 DEF FrameKept, FrameThere
  <2> QED
    BY <2>2, <2>4, <2>5, <2>6, <2>7, <2>8 DEF Inv
<1>5. CASE ReadFrame
  BY <1>1, <1>5, RemoveFrameFacts DEF ReadFrame, Inv, TypeOK, Selected,
     Reported, FrameKept, FrameThere, SpaceKept, EventPending
<1>6. CASE PollSkip
  <2>1. CASE PollGoto("skip1", "skip2") /\ Select("RxCFG") /\ UNCHANGED cur
    BY <1>1, <2>1 DEF Select, Inv, TypeOK, Regs, Selected, Accessing, Reported,
       FrameKept, FrameThere, SpaceKept, EventPending
  <2>2. CASE PollGoto("skip2", "skip3") /\ ReadData /\ UNCHANGED cur
    BY <1>1, <2>2 DEF ReadData, Inv, TypeOK, Selected, Accessing, Reported,
       FrameKept, FrameThere, SpaceKept, EventPending
  <2>3. CASE PollGoto("skip3", "sleep") /\ WriteSkip /\ cur' = NoFrame
    <3>1. CASE addr = "RxCFG"
      <4>1. RemoveFrame
        BY <2>3, <3>1 DEF WriteSkip
      <4> QED
        BY <1>1, <2>3, <4>1, RemoveFrameFacts DEF WriteSkip, Inv, TypeOK, Selected,
           Reported, FrameKept, FrameThere, SpaceKept, EventPending
    <3>2. CASE addr # "RxCFG"
      BY <1>1, <2>3, <3>2 DEF WriteSkip, Inv, TypeOK, Selected,
         Reported, FrameKept, FrameThere, SpaceKept, EventPending
    <3> QED
      BY <3>1, <3>2
  <2> QED
    BY <1>6, <2>1, <2>2, <2>3 DEF PollSkip
<1> QED
  BY <1>2, <1>3, <1>4, <1>5, <1>6 DEF cs8900aThread


\* What a step of lowLevelOutput must keep.
SendKeeps ==
  /\ Inv'
  /\ EventPending => EventPending' \/ ("send" \in cut /\ send' # send)

\* lowLevelOutput: as long as it is not cut, what it reads is BusST. What it skips
\* leaves the chip while nobody counts on it, or cuts the poll that does.
LEMMA SendStep ==
  ASSUME Inv, lowLevelOutput
  PROVE  SendKeeps
<1> USE DEF SendGoto, SendKeeps
<1>1. /\ \A t \in cut' : t \in {"poll", "send"} /\ InMiddle(t)'
      /\ "send" \in cut => send \notin {"idle", "select"}
      /\ "send" \notin cut' => "send" \notin cut \/ send' \in {"idle", "select"}
      /\ "poll" \notin cut' /\ poll \notin {"sleep", "select", "input"}
           => "poll" \notin cut /\ send \notin Accessing
      /\ UNCHANGED <<poll, cur>>
  BY SendCuts DEF Inv
<1>2. CASE Bid
  BY <1>1, <1>2, CsAssumption DEF Bid, chip, Inv, TypeOK, Selected,
     Reported, FrameKept, FrameThere, SpaceKept, EventPending
<1>3. CASE SelectBusST
  BY <1>1, <1>3 DEF SelectBusST, Select, Inv, TypeOK, Regs, Selected, Accessing,
     Reported, FrameKept, FrameThere, SpaceKept, EventPending
<1>4. CASE CheckBusST
  <2>1. /\ send = "check" /\ send \in Accessing
        /\ event' = (event /\ addr # "RxEvent")
        /\ UNCHANGED <<addr, rxq, txfree>>
    BY <1>4 DEF CheckBusST, ReadData, Accessing
  <2>2. u' \in 0 .. Retries /\ send' \in {"copy", "skip1", "idle"}
    BY <1>4, CsAssumption DEF CheckBusST, Inv, TypeOK
  <2>3. ASSUME send' = "copy", "send" \notin cut
        PROVE  txfree
    <3>1. addr = "BusST"
      BY <2>1, <2>3 DEF Inv, Selected
    <3> QED
      BY <1>4, <2>3, <3>1 DEF CheckBusST, Bit8
  <2>4. EventPending => EventPending' \/ ("send" \in cut /\ send' # send)
    <3>1. CASE "send" \in cut
      BY <2>1, <2>2, <3>1
    <3>2. CASE "send" \notin cut
      <4>1. event' = event
        BY <2>1, <3>2 DEF Inv, Selected, TypeOK
      <4> QED
        BY <1>1, <2>1, <4>1 DEF EventPending
    <3> QED
      BY <3>1, <3>2
  <2>5. TypeOK' /\ Reported'
    BY <1>1, <2>1, <2>2 DEF Inv, TypeOK, Reported
  <2>6. Selected' /\ FrameKept'
    BY <1>1, <2>1, <2>2 DEF Inv, TypeOK, Selected, FrameKept, FrameThere
  <2>7. SpaceKept'
    BY <1>1, <2>1, <2>2, <2>3 DEF SpaceKept
  <2> QED
    BY <2>4, <2>5, <2>6, <2>7 DEF Inv
<1>5. CASE SendSkip
  <2>1. CASE SendGoto("skip1", "skip2") /\ Select("RxCFG")
    BY <1>1, <1>5, <2>1 DEF SendSkip, Select, Inv, TypeOK, Regs, Selected, Accessing,
       Reported, FrameKept, FrameThere, SpaceKept, EventPending
  <2>2. CASE SendGoto("skip2", "skip3") /\ ReadData
    <3>1. /\ event' = (event /\ addr # "RxEvent") /\ event' \in BOOLEAN
          /\ UNCHANGED <<addr, rxq, txfree>>
      BY <2>2 DEF ReadData, Inv, TypeOK
    <3>2. "send" \notin cut => event' = event
      BY <2>2, <3>1 DEF Inv, Selected, TypeOK
    <3> QED
      BY <1>1, <1>5, <2>2, <3>1, <3>2 DEF SendSkip, Inv, TypeOK, Selected, Accessing,
         Reported, FrameKept, FrameThere, SpaceKept, EventPending
  <2>3. CASE SendGoto("skip3", "select") /\ WriteSkip
    <3>1. CASE addr = "RxCFG"
      <4>1. RemoveFrame
        BY <2>3, <3>1 DEF WriteSkip
      <4> QED
        BY <1>1, <1>5, <2>3, <4>1, RemoveFrameFacts DEF SendSkip, WriteSkip, Inv, TypeOK,
           Selected, Accessing, Reported, FrameKept, FrameThere, SpaceKept, EventPending
    <3>2. CASE addr # "RxCFG"
      BY <1>1, <1>5, <2>3, <3>2 DEF SendSkip, WriteSkip, Inv, TypeOK,
         Selected, Accessing, Reported, FrameKept, FrameThere, SpaceKept, EventPending
    <3> QED
      BY <3>1, <3>2
  <2> QED
    BY <1>5, <2>1, <2>2, <2>3 DEF SendSkip
<1>6. CASE Copy
  BY <1>1, <1>6, CsAssumption DEF Copy, Inv, TypeOK, Selected,
     Reported, FrameKept, FrameThere, SpaceKept, EventPending
<1> QED
  BY <1>2, <1>3, <1>4, <1>5, <1>6 DEF lowLevelOutput

\* Every step of the chip and the threads keeps the invariant, and RxEvent right
\* unless a thread that was cut makes it.
LEMMA NextInv ==
  ASSUME Inv, [Next]_vars
  PROVE  /\ Inv'
         /\ EventPending => \/ EventPending'
                            \/ "poll" \in cut /\ poll' # poll
                            \/ "send" \in cut /\ send' # send
<1>1. CASE UNCHANGED vars
  <2>1. UNCHANGED <<addr, rxq, event, txfree, poll, cur, send, u, cut>>
    BY <1>1 DEF vars, chip, polling, sending
  <2>2. TypeOK'
    BY <2>1 DEF Inv, TypeOK, InMiddle
  <2> QED
    BY <2>1, <2>2 DEF Inv, Selected, Reported, FrameKept, FrameThere, SpaceKept,
       EventPending
<1>2. CASE cs8900aThread
  BY <1>2, PollStep DEF PollKeeps
<1>3. CASE lowLevelOutput
  BY <1>3, SendStep DEF SendKeeps
<1>4. CASE Transmitted \/ \E f \in Frames : Arrive(f)
  BY <1>4, ChipStep
<1> QED
  BY <1>1, <1>2, <1>3, <1>4 DEF Next

-----------------------------------------------------------------------------
(* The driver with its bus and its start. *)

\* Registers that are set, once the chip has come out of its reset.
Configured == configured = {InitSeq[k].Addr : k \in 1 .. i}

Starting ==
  /\ i \in 0 .. Len(InitSeq)
  /\ boot \in {"off", "reset", "wait", "set", "up"}
  /\ boot \in {"off", "reset", "wait"} => i = 0
  /\ boot \in {"set", "up"} => ~resetting
  /\ boot = "up" => i = Len(InitSeq)
  /\ Configured

\* The start sets registers only after the chip has reported that its reset is
\* over, and each of them once.
LEMMA StartStep ==
  ASSUME Starting, [DriverNext]_dvars
  PROVE  Starting'
<1> USE DEF Goto
<1>1. InitSeq \in Seq([Addr : Nat, Data : Nat]) /\ Len(InitSeq) \in Nat
  BY DriverAssumption
<1>2. CASE PowerOnReset
  BY <1>2 DEF PowerOnReset, Starting, Configured
<1>3. CASE SelectSelfST
  BY <1>3 DEF SelectSelfST, Starting, Configured
<1>4. CASE ReadSelfST
  BY <1>4 DEF ReadSelfST, Starting, Configured
<1>5. CASE Configure
  <2>1. /\ boot = "set" /\ boot' = "set" /\ i < Len(InitSeq)
        /\ i' = i + 1
        /\ resetting' = resetting
        /\ configured' = IF resetting THEN configured
                                      ELSE configured \cup {InitSeq[i + 1].Addr}
    BY <1>5 DEF Configure
  <2>2. i' \in 0 .. Len(InitSeq) /\ 1 .. i' = (1 .. i) \cup {i + 1}
    BY <1>1, <2>1 DEF Starting
  <2>3. ~resetting
    BY <2>1 DEF Starting
  <2>4. configured' = configured \cup {InitSeq[i + 1].Addr}
    BY <2>1, <2>3
  <2>5. Configured'
    BY <2>2, <2>4 DEF Starting, Configured
  <2> QED
    BY <2>1, <2>2, <2>3, <2>5 DEF Starting
<1>6. CASE CreateThread
  BY <1>6 DEF CreateThread, Starting, Configured
<1>7. CASE ResetDone
  BY <1>7 DEF ResetDone, Starting, Configured
<1>8. CASE UNCHANGED starting
  BY <1>8 DEF starting, Starting, Configured
<1> QED
  BY <1>2, <1>3, <1>4, <1>5, <1>6, <1>7, <1>8
  DEF DriverNext, lowLevelInit, Input, Output, Pins, Chip, dvars

\* A step of the driver is one of Cs8900a, or leaves its variables alone: the bus
\* cycles come in between.
LEMMA DriverStep ==
  ASSUME [DriverNext]_dvars
  PROVE  [Next]_vars
BY DEF DriverNext, lowLevelInit, ResetDone, Input, Output, Pins, Chip, dvars, Next

\* Before the start.
LEMMA DriverInitInv == DriverInit => Inv /\ Starting
<1> SUFFICES ASSUME DriverInit
             PROVE  Inv /\ Starting
  OBVIOUS
<1>1. Len(InitSeq) \in Nat /\ 1 .. 0 = {}
  BY DriverAssumption
<1>2. Starting
  BY <1>1 DEF DriverInit, Starting, Configured
<1> QED
  BY <1>2, InitInv DEF DriverInit

-----------------------------------------------------------------------------
(* Bus cycles. Does(ops, h, o, c, t, d) says that the writes of ops, when the *)
(* lines of h are high and the data lines have the direction o, are the       *)
(* cycles of c, and leave the lines of t high and the direction d.            *)

Lines  == AddressLines \cup DataLines \cup {IOR, IOW}
Cycles == [kind : {"write", "floating", "read", "clash"},
           address : SUBSET (0 .. 7), data : SUBSET Int]
Pin == [op : {"set", "clear"}, lines : SUBSET Lines]
         \cup [op : {"direction"}, output : BOOLEAN] \cup [op : {"get"}, to : Int]

LinesIn(name, h) == {k \in 0 .. 7 : <<name, k>> \in h}

HighAfter(p, h) == CASE p.op = "set"   -> h \cup p.lines
                     [] p.op = "clear" -> h \ p.lines
                     [] p.op \in {"direction", "get"} -> h

OutputAfter(p, o) == IF p.op = "direction" THEN p.output ELSE o

SetCycle(h, o) ==
  Cycle(IF o THEN "write" ELSE "floating", LinesIn("SA", h), LinesIn("SD", h))
GetCycle(p, h, o) ==
  Cycle(IF IOR \notin h /\ ~o THEN "read" ELSE "clash", LinesIn("SA", h), {p.to})

CyclesOf(p, h, o) ==
  CASE p.op = "set" /\ IOW \in p.lines \ h -> <<SetCycle(h, o)>>
    [] p.op = "get" -> <<GetCycle(p, h, o)>>
    [] OTHER -> <<>>

\* H, O and C: the lines, the direction and the cycles to come after k writes.
Run(ops, H, O, C) ==
  /\ \A k \in 0 .. Len(ops) :
       H[k] \in SUBSET Lines /\ O[k] \in BOOLEAN /\ C[k] \in Seq(Cycles)
  /\ \A k \in 1 .. Len(ops) :
       /\ H[k] = HighAfter(ops[k], H[k - 1])
       /\ O[k] = OutputAfter(ops[k], O[k - 1])
       /\ C[k - 1] = CyclesOf(ops[k], H[k - 1], O[k - 1]) \o C[k]

Does(ops, h, o, c, t, d) ==
  /\ ops \in Seq(Pin)
  /\ \E H, O, C :
       /\ Run(ops, H, O, C)
       /\ H[0] = h /\ O[0] = o /\ C[0] = c
       /\ H[Len(ops)] = t /\ O[Len(ops)] = d /\ C[Len(ops)] = <<>>

\* One write keeps the types of lines, direction and cycles.
LEMMA PinTypes ==
  ASSUME NEW p \in Pin, NEW h \in SUBSET Lines, NEW o \in BOOLEAN
  PROVE  /\ HighAfter(p, h) \in SUBSET Lines
         /\ OutputAfter(p, o) \in BOOLEAN
         /\ CyclesOf(p, h, o) \in Seq(Cycles)
<1>1. /\ p.op \in {"set", "clear", "direction", "get"}
      /\ p.op \in {"set", "clear"} => p.lines \in SUBSET Lines
      /\ p.op = "direction" => p.output \in BOOLEAN
      /\ p.op = "get" => p.to \in Int
  BY DEF Pin
<1>2. SetCycle(h, o) \in Cycles
  BY DEF SetCycle, Cycle, Cycles, LinesIn
<1>3. p.op = "get" => GetCycle(p, h, o) \in Cycles
  BY <1>1 DEF GetCycle, Cycle, Cycles, LinesIn
<1>4. HighAfter(p, h) \in SUBSET Lines
  BY <1>1 DEF HighAfter
<1>5. OutputAfter(p, o) \in BOOLEAN
  BY <1>1 DEF OutputAfter
<1>6. <<>> \in Seq(Cycles) /\ \A x \in Cycles : <<x>> \in Seq(Cycles)
  OBVIOUS
<1>7. CyclesOf(p, h, o) \in Seq(Cycles)
  BY <1>2, <1>3, <1>6 DEF CyclesOf
<1> QED
  BY <1>4, <1>5, <1>7

\* No writes do nothing.
LEMMA DoesNothing ==
  ASSUME NEW h \in SUBSET Lines, NEW o \in BOOLEAN
  PROVE  Does(<<>>, h, o, <<>>, h, o)
<1> DEFINE H == [k \in {0} |-> h]
           O == [k \in {0} |-> o]
           C == [k \in {0} |-> <<>>]
<1>1. <<>> \in Seq(Pin) /\ Len(<<>>) = 0 /\ <<>> \in Seq(Cycles)
  OBVIOUS
<1>2. H[0] = h /\ O[0] = o /\ C[0] = <<>>
  OBVIOUS
<1>3. 0 .. 0 = {0} /\ 1 .. 0 = {}
  OBVIOUS
<1> HIDE DEF H, O, C
<1>4. Run(<<>>, H, O, C)
  BY <1>1, <1>2, <1>3 DEF Run
<1> QED
  BY <1>1, <1>2, <1>4 DEF Does

\* One write does what it says.
LEMMA DoesOne ==
  ASSUME NEW p \in Pin, NEW h \in SUBSET Lines, NEW o \in BOOLEAN
  PROVE  Does(<<p>>, h, o, CyclesOf(p, h, o), HighAfter(p, h), OutputAfter(p, o))
<1> DEFINE c == CyclesOf(p, h, o)
           t == HighAfter(p, h)
           d == OutputAfter(p, o)
           H == [k \in 0 .. 1 |-> IF k = 0 THEN h ELSE t]
           O == [k \in 0 .. 1 |-> IF k = 0 THEN o ELSE d]
           C == [k \in 0 .. 1 |-> IF k = 0 THEN c ELSE <<>>]
<1>1. t \in SUBSET Lines /\ d \in BOOLEAN /\ c \in Seq(Cycles)
  BY PinTypes
<1> HIDE DEF c, t, d
<1>2. /\ H[0] = h /\ O[0] = o /\ C[0] = c
      /\ H[1] = t /\ O[1] = d /\ C[1] = <<>>
  OBVIOUS
<1> HIDE DEF H, O, C
<1>3. c \o <<>> = c
  BY <1>1, ConcatEmptySeq
<1>4. <<p>> \in Seq(Pin) /\ Len(<<p>>) = 1 /\ <<p>>[1] = p
  OBVIOUS
<1>5. /\ \A k \in 0 .. 1 : k = 0 \/ k = 1
      /\ \A k \in 1 .. 1 : k = 1 /\ k - 1 = 0
      /\ <<>> \in Seq(Cycles)
  OBVIOUS
<1>6. \A k \in 0 .. 1 : H[k] \in SUBSET Lines /\ O[k] \in BOOLEAN /\ C[k] \in Seq(Cycles)
  BY <1>1, <1>2, <1>5
<1>7. /\ H[1] = HighAfter(p, H[0])
      /\ O[1] = OutputAfter(p, O[0])
      /\ C[0] = CyclesOf(p, H[0], O[0]) \o C[1]
  BY <1>2, <1>3 DEF c, t, d
<1>8. Run(<<p>>, H, O, C)
  BY <1>4, <1>5, <1>6, <1>7 DEF Run
<1> QED
  BY <1>2, <1>4, <1>8 DEF Does, c, t, d

\* Writes behind one another.
LEMMA DoesThen ==
  ASSUME NEW a, NEW h, NEW o, NEW c, NEW t, NEW d, Does(a, h, o, c, t, d),
         NEW b, NEW e, NEW v, NEW w, Does(b, t, d, e, v, w)
  PROVE  Does(a \o b, h, o, c \o e, v, w)
<1>1. PICK H1, O1, C1 :
        /\ Run(a, H1, O1, C1)
        /\ H1[0] = h /\ O1[0] = o /\ C1[0] = c
        /\ H1[Len(a)] = t /\ O1[Len(a)] = d /\ C1[Len(a)] = <<>>
  BY DEF Does
<1>2. PICK H2, O2, C2 :
        /\ Run(b, H2, O2, C2)
        /\ H2[0] = t /\ O2[0] = d /\ C2[0] = e
        /\ H2[Len(b)] = v /\ O2[Len(b)] = w /\ C2[Len(b)] = <<>>
  BY DEF Does
<1> DEFINE n == Len(a)
           m == Len(b)
           H == [k \in 0 .. n + m |-> IF k <= n THEN H1[k] ELSE H2[k - n]]
           O == [k \in 0 .. n + m |-> IF k <= n THEN O1[k] ELSE O2[k - n]]
           C == [k \in 0 .. n + m |-> IF k <= n THEN C1[k] \o e ELSE C2[k - n]]
<1>3. a \in Seq(Pin) /\ b \in Seq(Pin) /\ n \in Nat /\ m \in Nat
  BY DEF Does
<1>4. /\ a \o b \in Seq(Pin) /\ Len(a \o b) = n + m
      /\ \A k \in 1 .. n : (a \o b)[k] = a[k]
      /\ \A k \in 1 .. m : (a \o b)[n + k] = b[k]
  BY <1>3, ConcatProperties
<1> HIDE DEF n, m
<1>5. e \in Seq(Cycles) /\ <<>> \o e = e
  <2>1. e \in Seq(Cycles)
    BY <1>2, <1>3 DEF Run, m
  <2> QED
    BY <2>1, ConcatEmptySeq
<1>6. \A k \in 0 .. n : H[k] = H1[k] /\ O[k] = O1[k] /\ C[k] = C1[k] \o e
  BY <1>3
<1>7. \A k \in 0 .. m : H[n + k] = H2[k] /\ O[n + k] = O2[k] /\ C[n + k] = C2[k]
  <2> SUFFICES ASSUME NEW k \in 0 .. m
               PROVE  H[n + k] = H2[k] /\ O[n + k] = O2[k] /\ C[n + k] = C2[k]
    OBVIOUS
  <2>1. CASE k = 0
    <3>1. H[n] = t /\ O[n] = d /\ C[n] = e
      BY <1>1, <1>3, <1>5, <1>6 DEF n
    <3>2. n + 0 = n
      BY <1>3
    <3> QED
      BY <1>2, <2>1, <3>1, <3>2
  <2>2. CASE k # 0
    <3>1. n + k \in 0 .. n + m /\ ~(n + k <= n) /\ (n + k) - n = k
      BY <1>3, <2>2
    <3> QED
      BY <3>1
  <2> QED
    BY <2>1, <2>2
<1> HIDE DEF H, O, C
<1>8. \A k \in 0 .. n + m : k \in 0 .. n \/ \E j \in 0 .. m : k = n + j
  <2> SUFFICES ASSUME NEW k \in 0 .. n + m, k \notin 0 .. n
               PROVE  \E j \in 0 .. m : k = n + j
    OBVIOUS
  <2>1. k - n \in 0 .. m /\ k = n + (k - n)
    BY <1>3
  <2> QED
    BY <2>1
<1>10. \A k \in 0 .. n + m :
         H[k] \in SUBSET Lines /\ O[k] \in BOOLEAN /\ C[k] \in Seq(Cycles)
  <2>1. \A k \in 0 .. n :
          H1[k] \in SUBSET Lines /\ O1[k] \in BOOLEAN /\ C1[k] \in Seq(Cycles)
    BY <1>1 DEF Run, n
  <2>2. \A k \in 0 .. m :
          H2[k] \in SUBSET Lines /\ O2[k] \in BOOLEAN /\ C2[k] \in Seq(Cycles)
    BY <1>2 DEF Run, m
  <2>3. \A k \in 0 .. n : C1[k] \o e \in Seq(Cycles)
    BY <1>5, <2>1, ConcatProperties
  <2>4. \A k \in 0 .. n :
          H[k] \in SUBSET Lines /\ O[k] \in BOOLEAN /\ C[k] \in Seq(Cycles)
    BY <1>6, <2>1, <2>3
  <2>5. \A k \in 0 .. m :
          H[n + k] \in SUBSET Lines /\ O[n + k] \in BOOLEAN /\ C[n + k] \in Seq(Cycles)
    BY <1>7, <2>2
  <2> QED
    BY <1>8, <2>4, <2>5
<1>11. ASSUME NEW k \in 1 .. n
       PROVE  /\ H[k] = HighAfter((a \o b)[k], H[k - 1])
              /\ O[k] = OutputAfter((a \o b)[k], O[k - 1])
              /\ C[k - 1] = CyclesOf((a \o b)[k], H[k - 1], O[k - 1]) \o C[k]
  <2>1. k \in 0 .. n /\ k - 1 \in 0 .. n
    BY <1>3
  <2> DEFINE x == CyclesOf(a[k], H1[k - 1], O1[k - 1])
  <2>2. /\ H1[k] = HighAfter(a[k], H1[k - 1])
        /\ O1[k] = OutputAfter(a[k], O1[k - 1])
        /\ C1[k - 1] = x \o C1[k]
        /\ H1[k - 1] \in SUBSET Lines /\ O1[k - 1] \in BOOLEAN
        /\ C1[k] \in Seq(Cycles)
    BY <1>1, <2>1 DEF Run, n
  <2>3. a[k] \in Pin
    BY <1>3 DEF n
  <2>4. x \in Seq(Cycles)
    BY <2>2, <2>3, PinTypes
  <2> HIDE DEF x
  <2>5. (x \o C1[k]) \o e = x \o (C1[k] \o e)
    <3>1. \A r, s, q \in Seq(Cycles) : (r \o s) \o q = r \o (s \o q)
      BY ConcatAssociative
    <3> QED
      BY <1>5, <2>2, <2>4, <3>1
  <2>6. C[k - 1] = x \o C[k]
    BY <1>6, <2>1, <2>2, <2>5
  <2> QED
    BY <1>4, <1>6, <2>1, <2>2, <2>6 DEF x
<1>12. ASSUME NEW k \in 1 .. n + m, k \notin 1 .. n
       PROVE  /\ H[k] = HighAfter((a \o b)[k], H[k - 1])
              /\ O[k] = OutputAfter((a \o b)[k], O[k - 1])
              /\ C[k - 1] = CyclesOf((a \o b)[k], H[k - 1], O[k - 1]) \o C[k]
  <2> DEFINE j == k - n
  <2>1. /\ j \in 1 .. m /\ j \in 0 .. m /\ j - 1 \in 0 .. m
        /\ k = n + j /\ k - 1 = n + (j - 1)
    BY <1>3, <1>12
  <2> HIDE DEF j
  <2>2. /\ H2[j] = HighAfter(b[j], H2[j - 1])
        /\ O2[j] = OutputAfter(b[j], O2[j - 1])
        /\ C2[j - 1] = CyclesOf(b[j], H2[j - 1], O2[j - 1]) \o C2[j]
    BY <1>2, <2>1 DEF Run, m
  <2>3. H[k] = H2[j] /\ O[k] = O2[j] /\ C[k] = C2[j]
    BY <1>7, <2>1
  <2>4. H[k - 1] = H2[j - 1] /\ O[k - 1] = O2[j - 1] /\ C[k - 1] = C2[j - 1]
    BY <1>7, <2>1
  <2>5. (a \o b)[k] = b[j]
    BY <1>4, <2>1
  <2> QED
    BY <2>2, <2>3, <2>4, <2>5
<1>13. Run(a \o b, H, O, C)
  <2>1. \A k \in 1 .. n + m :
          /\ H[k] = HighAfter((a \o b)[k], H[k - 1])
          /\ O[k] = OutputAfter((a \o b)[k], O[k - 1])
          /\ C[k - 1] = CyclesOf((a \o b)[k], H[k - 1], O[k - 1]) \o C[k]
    BY <1>11, <1>12
  <2> QED
    BY <1>4, <1>10, <2>1 DEF Run
<1>14. H[0] = h /\ O[0] = o /\ C[0] = c \o e
  <2>1. 0 \in 0 .. n
    BY <1>3
  <2> QED
    BY <1>1, <1>6, <2>1
<1>15. H[n + m] = v /\ O[n + m] = w /\ C[n + m] = <<>>
  <2>1. m \in 0 .. m
    BY <1>3
  <2> QED
    BY <1>2, <1>7, <2>1 DEF m
<1> QED
  BY <1>4, <1>13, <1>14, <1>15 DEF Does

\* What runs of writes begin and end with has its types.
LEMMA DoesTypes ==
  ASSUME NEW ops, NEW h, NEW o, NEW c, NEW t, NEW d, Does(ops, h, o, c, t, d)
  PROVE  /\ ops \in Seq(Pin)
         /\ h \in SUBSET Lines /\ o \in BOOLEAN /\ c \in Seq(Cycles)
         /\ t \in SUBSET Lines /\ d \in BOOLEAN
<1>1. PICK H, O, C :
        /\ Run(ops, H, O, C)
        /\ H[0] = h /\ O[0] = o /\ C[0] = c
        /\ H[Len(ops)] = t /\ O[Len(ops)] = d /\ C[Len(ops)] = <<>>
  BY DEF Does
<1>2. ops \in Seq(Pin)
  BY DEF Does
<1>3. 0 \in 0 .. Len(ops) /\ Len(ops) \in 0 .. Len(ops)
  BY <1>2
<1> QED
  BY <1>1, <1>2, <1>3 DEF Run

\* When no writes are left, no cycles are.
LEMMA DoesEnd ==
  ASSUME NEW h, NEW o, NEW c, NEW t, NEW d, Does(<<>>, h, o, c, t, d)
  PROVE  c = <<>> /\ t = h /\ d = o
<1>1. Len(<<>>) = 0
  OBVIOUS
<1> QED
  BY <1>1 DEF Does

\* One write, and what is left.
LEMMA DoesNext ==
  ASSUME NEW ops, NEW h, NEW o, NEW c, NEW t, NEW d, Does(ops, h, o, c, t, d),
         ops # <<>>
  PROVE  /\ Head(ops) \in Pin
         /\ \E e \in Seq(Cycles) :
              /\ c = CyclesOf(Head(ops), h, o) \o e
              /\ Does(Tail(ops), HighAfter(Head(ops), h), OutputAfter(Head(ops), o), e, t, d)
<1>1. PICK H1, O1, C1 :
        /\ Run(ops, H1, O1, C1)
        /\ H1[0] = h /\ O1[0] = o /\ C1[0] = c
        /\ H1[Len(ops)] = t /\ O1[Len(ops)] = d /\ C1[Len(ops)] = <<>>
  BY DEF Does
<1> DEFINE n == Len(ops) - 1
           H == [k \in 0 .. n |-> H1[k + 1]]
           O == [k \in 0 .. n |-> O1[k + 1]]
           C == [k \in 0 .. n |-> C1[k + 1]]
<1>2. ops \in Seq(Pin)
  BY DEF Does
<1>3. n \in Nat /\ Len(ops) = n + 1 /\ 1 \in 0 .. n + 1 /\ 1 \in 1 .. n + 1
  BY <1>2
<1>4. /\ Head(ops) = ops[1] /\ Head(ops) \in Pin
      /\ Tail(ops) \in Seq(Pin) /\ Len(Tail(ops)) = n
      /\ \A k \in 1 .. n : Tail(ops)[k] = ops[k + 1]
  BY <1>2, HeadTailProperties
<1> HIDE DEF n
<1>5. \A k \in 0 .. n : H[k] = H1[k + 1] /\ O[k] = O1[k + 1] /\ C[k] = C1[k + 1]
  OBVIOUS
<1> HIDE DEF H, O, C
<1>6. /\ H1[1] = HighAfter(ops[1], h)
      /\ O1[1] = OutputAfter(ops[1], o)
      /\ c = CyclesOf(ops[1], h, o) \o C1[1]
      /\ C1[1] \in Seq(Cycles)
  <2>1. 1 - 1 = 0
    OBVIOUS
  <2> QED
    BY <1>1, <1>3, <2>1 DEF Run
<1>7. \A k \in 0 .. n : k + 1 \in 0 .. Len(ops)
  BY <1>3
<1>8. ASSUME NEW k \in 1 .. n
      PROVE  /\ H[k] = HighAfter(Tail(ops)[k], H[k - 1])
             /\ O[k] = OutputAfter(Tail(ops)[k], O[k - 1])
             /\ C[k - 1] = CyclesOf(Tail(ops)[k], H[k - 1], O[k - 1]) \o C[k]
  <2> DEFINE j == k + 1
  <2>1. j \in 1 .. Len(ops) /\ k \in 0 .. n /\ k - 1 \in 0 .. n
        /\ (k - 1) + 1 = j - 1
    BY <1>3
  <2>2. /\ H[k] = H1[j] /\ O[k] = O1[j] /\ C[k] = C1[j]
        /\ H[k - 1] = H1[j - 1] /\ O[k - 1] = O1[j - 1] /\ C[k - 1] = C1[j - 1]
        /\ Tail(ops)[k] = ops[j]
    BY <1>4, <1>5, <2>1
  <2> HIDE DEF j
  <2>3. /\ H1[j] = HighAfter(ops[j], H1[j - 1])
        /\ O1[j] = OutputAfter(ops[j], O1[j - 1])
        /\ C1[j - 1] = CyclesOf(ops[j], H1[j - 1], O1[j - 1]) \o C1[j]
    BY <1>1, <2>1 DEF Run
  <2> QED
    BY <2>2, <2>3
<1>9. Run(Tail(ops), H, O, C)
  BY <1>1, <1>4, <1>5, <1>7, <1>8 DEF Run
<1>10. /\ H[0] = H1[1] /\ O[0] = O1[1] /\ C[0] = C1[1]
       /\ H[n] = t /\ O[n] = d /\ C[n] = <<>>
  <2>1. 0 \in 0 .. n /\ n \in 0 .. n /\ 0 + 1 = 1
    BY <1>3
  <2> QED
    BY <1>1, <1>3, <1>5, <2>1
<1>11. Does(Tail(ops), H1[1], O1[1], C1[1], t, d)
  BY <1>4, <1>9, <1>10 DEF Does
<1> QED
  BY <1>4, <1>6, <1>11

-----------------------------------------------------------------------------
(* What the helpers do. Between them the strobes are high, and the lines of   *)
(* an address A and of a byte D.                                             *)

Level(A, D) == {IOR, IOW} \cup SA(A) \cup SD(D)

A4 == SUBSET (0 .. 3)
D8 == SUBSET (0 .. 7)

\* The address and the byte can be read off the lines.
LEMMA LevelIs ==
  ASSUME NEW A \in A4, NEW D \in D8
  PROVE  /\ Level(A, D) \in SUBSET Lines
         /\ IOR \in Level(A, D) /\ IOW \in Level(A, D)
         /\ LinesIn("SA", Level(A, D)) = A
         /\ LinesIn("SD", Level(A, D)) = D
<1>1. /\ \A k : <<"SA", k>> # IOR /\ <<"SA", k>> # IOW
      /\ \A k : <<"SD", k>> # IOR /\ <<"SD", k>> # IOW
      /\ \A k, j : <<"SA", k>> # <<"SD", j>>
      /\ \A k, j : <<"SA", k>> = <<"SA", j>> => k = j
      /\ \A k, j : <<"SD", k>> = <<"SD", j>> => k = j
  BY DEF IOR, IOW
<1>2. SA(A) \subseteq AddressLines /\ SD(D) \subseteq DataLines
  BY DEF SA, SD, AddressLines, DataLines, A4, D8
<1>3. Level(A, D) \in SUBSET Lines
  BY <1>2 DEF Level, Lines
<1>4. \A k : <<"SA", k>> \in Level(A, D) <=> k \in A
  BY <1>1 DEF Level, SA, SD
<1>5. \A k : <<"SD", k>> \in Level(A, D) <=> k \in D
  BY <1>1 DEF Level, SA, SD
<1>6. A \subseteq 0 .. 7 /\ D \subseteq 0 .. 7
  BY DEF A4, D8
<1>7. LinesIn("SA", Level(A, D)) = A
  BY <1>4, <1>6 DEF LinesIn
<1>8. LinesIn("SD", Level(A, D)) = D
  BY <1>5, <1>6 DEF LinesIn
<1> QED
  BY <1>3, <1>7, <1>8 DEF Level

\* Strobes, address lines and data lines are different lines.
LEMMA LinesDiffer ==
  /\ \A S : IOR \notin SA(S) /\ IOW \notin SA(S)
  /\ \A S : IOR \notin SD(S) /\ IOW \notin SD(S)
  /\ \A S, T : SA(S) \cap SD(T) = {}
  /\ IOR # IOW
BY DEF SA, SD, IOR, IOW

\* One write, in two forms.
LEMMA DoesSet ==
  ASSUME NEW S \in SUBSET Lines, IOW \notin S, NEW h \in SUBSET Lines, NEW o \in BOOLEAN
  PROVE  /\ Does(<<IOSET(S)>>, h, o, <<>>, h \cup S, o)
         /\ Does(<<IOCLR(S)>>, h, o, <<>>, h \ S, o)
<1>1. IOSET(S) \in Pin /\ IOSET(S).op = "set" /\ IOSET(S).lines = S
  BY DEF IOSET, Pin
<1>2. IOCLR(S) \in Pin /\ IOCLR(S).op = "clear" /\ IOCLR(S).lines = S
  BY DEF IOCLR, Pin
<1>3. /\ CyclesOf(IOSET(S), h, o) = <<>> /\ OutputAfter(IOSET(S), o) = o
      /\ HighAfter(IOSET(S), h) = h \cup S
  BY <1>1 DEF CyclesOf, OutputAfter, HighAfter
<1>4. /\ CyclesOf(IOCLR(S), h, o) = <<>> /\ OutputAfter(IOCLR(S), o) = o
      /\ HighAfter(IOCLR(S), h) = h \ S
  BY <1>2 DEF CyclesOf, OutputAfter, HighAfter
<1>5. Does(<<IOSET(S)>>, h, o, CyclesOf(IOSET(S), h, o), HighAfter(IOSET(S), h),
           OutputAfter(IOSET(S), o))
  BY <1>1, DoesOne
<1>6. Does(<<IOCLR(S)>>, h, o, CyclesOf(IOCLR(S), h, o), HighAfter(IOCLR(S), h),
           OutputAfter(IOCLR(S), o))
  BY <1>2, DoesOne
<1> QED
  BY <1>3, <1>4, <1>5, <1>6

\* IODIR changes the direction of the data lines and nothing else.
LEMMA DoesDirect ==
  ASSUME NEW h \in SUBSET Lines, NEW o \in BOOLEAN, NEW d \in BOOLEAN
  PROVE  Does(<<IODIR(d)>>, h, o, <<>>, h, d)
<1> DEFINE p == IODIR(d)
<1>1. p \in Pin /\ p.op = "direction" /\ p.output = d
  BY DEF IODIR, Pin
<1> HIDE DEF p
<1>2. CyclesOf(p, h, o) = <<>> /\ OutputAfter(p, o) = d /\ HighAfter(p, h) = h
  BY <1>1 DEF CyclesOf, OutputAfter, HighAfter
<1>3. Does(<<p>>, h, o, CyclesOf(p, h, o), HighAfter(p, h), OutputAfter(p, o))
  BY <1>1, DoesOne
<1> QED
  BY <1>2, <1>3 DEF p

\* Two parts that cause no cycles, or of which only one does.
LEMMA DoesQuietly ==
  ASSUME NEW a, NEW h, NEW o, NEW t, NEW d, Does(a, h, o, <<>>, t, d),
         NEW b, NEW e, NEW v, NEW w, Does(b, t, d, e, v, w)
  PROVE  Does(a \o b, h, o, e, v, w)
<1>1. e \in Seq(Cycles) /\ <<>> \o e = e
  BY DoesTypes, ConcatEmptySeq
<1>2. Does(a \o b, h, o, <<>> \o e, v, w)
  BY DoesThen
<1> QED
  BY <1>1, <1>2

\* The second part causes no cycles.
LEMMA ThenQuietly ==
  ASSUME NEW a, NEW h, NEW o, NEW c, NEW t, NEW d, Does(a, h, o, c, t, d),
         NEW b, NEW v, NEW w, Does(b, t, d, <<>>, v, w)
  PROVE  Does(a \o b, h, o, c, v, w)
<1>1. c \in Seq(Cycles) /\ c \o <<>> = c
  BY DoesTypes, ConcatEmptySeq
<1>2. Does(a \o b, h, o, c \o <<>>, v, w)
  BY DoesThen
<1> QED
  BY <1>1, <1>2

\* A byte has eight lines.
LEMMA BitsIn == \A n : Bits(n) \in D8
BY DEF Bits, D8

\* Short lists put together.
LEMMA Couples ==
  /\ \A x, y : <<x>> \o <<y>> = <<x, y>>
  /\ \A x, y, z : <<x, y>> \o <<z>> = <<x, y, z>>
<1>1. ASSUME NEW S, NEW x \in S, NEW y \in S, NEW z \in S
      PROVE  <<x>> \o <<y>> = <<x, y>> /\ <<x, y>> \o <<z>> = <<x, y, z>>
  <2>1. /\ <<x>> \in Seq(S) /\ Len(<<x>>) = 1
        /\ <<y>> \in Seq(S) /\ Len(<<y>>) = 1
        /\ <<z>> \in Seq(S) /\ Len(<<z>>) = 1
        /\ <<x, y>> \in Seq(S) /\ Len(<<x, y>>) = 2
    OBVIOUS
  <2>2. <<x>> \o <<y>> = <<x, y>>
    <3> DEFINE s == <<x, y>>
               t == <<x>> \o <<y>>
    <3>1. /\ s \in Seq(S) /\ Len(s) = 2
          /\ s[1] = x /\ s[2] = y
      OBVIOUS
    <3>2. /\ t \in Seq(S) /\ Len(t) = 2
          /\ t[1] = x /\ t[2] = y
      BY <2>1, ConcatProperties
    <3> HIDE DEF s, t
    <3>3. \A k \in 1 .. 2 : s[k] = t[k]
      BY <3>1, <3>2
    <3>4. s = t
      BY <3>1, <3>2, <3>3, SeqEqual
    <3> QED
      BY <3>4 DEF s, t
  <2>3. <<x, y>> \o <<z>> = <<x, y, z>>
    <3> DEFINE s == <<x, y, z>>
               t == <<x, y>> \o <<z>>
    <3>1. /\ s \in Seq(S) /\ Len(s) = 3
          /\ s[1] = x /\ s[2] = y /\ s[3] = z
      OBVIOUS
    <3>2. /\ t \in Seq(S) /\ Len(t) = 3
          /\ t[1] = x /\ t[2] = y /\ t[3] = z
      BY <2>1, ConcatProperties
    <3> HIDE DEF s, t
    <3>3. \A k \in 1 .. 3 : s[k] = t[k]
      BY <3>1, <3>2
    <3>4. s = t
      BY <3>1, <3>2, <3>3, SeqEqual
    <3> QED
      BY <3>4 DEF s, t
  <2> QED
    BY <2>2, <2>3
<1>2. \A x, y, z : <<x>> \o <<y>> = <<x, y>> /\ <<x, y>> \o <<z>> = <<x, y, z>>
  <2> TAKE x, y, z
  <2>1. x \in {x, y, z} /\ y \in {x, y, z} /\ z \in {x, y, z}
    OBVIOUS
  <2> QED
    BY <1>1, <2>1
<1> QED
  BY <1>2

\* Put sets the data lines to a byte, whatever their levels were.
LEMMA PutDoes ==
  ASSUME NEW A \in A4, NEW D \in D8, NEW o \in BOOLEAN, NEW n
  PROVE  Does(Put(n), Level(A, D), o, <<>>, Level(A, Bits(n)), o)
<1> DEFINE B == Bits(n)
           h == Level(A, D)
           g == h \ DataLines
<1>1. B \in D8
  BY BitsIn
<1> HIDE DEF B
<1>2. /\ DataLines \in SUBSET Lines /\ IOW \notin DataLines
      /\ SD(B) \in SUBSET Lines /\ IOW \notin SD(B)
      /\ h \in SUBSET Lines /\ g \in SUBSET Lines
  <2>1. SD(B) \subseteq DataLines
    BY <1>1 DEF SD, DataLines, D8
  <2> QED
    BY <2>1, LevelIs, LinesDiffer DEF DataLines, Lines
<1>3. g \cup SD(B) = Level(A, B)
  <2>1. SD(D) \subseteq DataLines
    BY DEF SD, DataLines, D8
  <2>2. SA(A) \cap DataLines = {} /\ IOR \notin DataLines /\ IOW \notin DataLines
    BY LinesDiffer DEF DataLines
  <2> QED
    BY <2>1, <2>2 DEF Level
<1> HIDE DEF h, g
<1>4. Does(<<IOCLR(DataLines)>>, h, o, <<>>, g, o)
  BY <1>2, DoesSet DEF g
<1>5. Does(<<IOSET(SD(B))>>, g, o, <<>>, g \cup SD(B), o)
  BY <1>2, DoesSet
<1>6. Does(<<IOCLR(DataLines)>> \o <<IOSET(SD(B))>>, h, o, <<>>, g \cup SD(B), o)
  BY <1>4, <1>5, DoesQuietly
<1> QED
  BY <1>3, <1>6, Couples DEF Put, B, h

\* Address sets the address lines to a number, whatever their levels were.
LEMMA AddressDoes ==
  ASSUME NEW A \in A4, NEW D \in D8, NEW o \in BOOLEAN, NEW n, Bits(n) \in A4
  PROVE  Does(Address(n), Level(A, D), o, <<>>, Level(Bits(n), D), o)
<1> DEFINE B == Bits(n)
           h == Level(A, D)
           g == h \ AddressLines
<1>1. B \in A4
  OBVIOUS
<1> HIDE DEF B
<1>2. /\ AddressLines \in SUBSET Lines /\ IOW \notin AddressLines
      /\ SA(B) \in SUBSET Lines /\ IOW \notin SA(B)
      /\ h \in SUBSET Lines /\ g \in SUBSET Lines
  <2>1. SA(B) \subseteq AddressLines
    BY <1>1 DEF SA, AddressLines, A4
  <2> QED
    BY <2>1, LevelIs, LinesDiffer DEF AddressLines, Lines
<1>3. g \cup SA(B) = Level(B, D)
  <2>1. SA(A) \subseteq AddressLines
    BY DEF SA, AddressLines, A4
  <2>2. SD(D) \cap AddressLines = {} /\ IOR \notin AddressLines /\ IOW \notin AddressLines
    BY LinesDiffer DEF AddressLines
  <2> QED
    BY <2>1, <2>2 DEF Level
<1> HIDE DEF h, g
<1>4. Does(<<IOCLR(AddressLines)>>, h, o, <<>>, g, o)
  BY <1>2, DoesSet DEF g
<1>5. Does(<<IOSET(SA(B))>>, g, o, <<>>, g \cup SA(B), o)
  BY <1>2, DoesSet
<1>6. Does(<<IOCLR(AddressLines)>> \o <<IOSET(SA(B))>>, h, o, <<>>, g \cup SA(B), o)
  BY <1>4, <1>5, DoesQuietly
<1> QED
  BY <1>3, <1>6, Couples DEF Address, B, h

\* The line of address 0 chooses the byte of a word.
LEMMA ByteDoes ==
  ASSUME NEW A \in A4, NEW D \in D8, NEW o \in BOOLEAN
  PROVE  /\ Does(NextByte, Level(A, D), o, <<>>, Level(A \cup {0}, D), o)
         /\ Does(FirstByte, Level(A, D), o, <<>>, Level(A \ {0}, D), o)
<1> DEFINE h == Level(A, D)
           S == SA({0})
<1>1. S \in SUBSET Lines /\ IOW \notin S /\ h \in SUBSET Lines
  <2>1. S \subseteq AddressLines
    BY DEF SA, AddressLines
  <2> QED
    BY <2>1, LevelIs, LinesDiffer DEF Lines
<1>2. h \cup S = Level(A \cup {0}, D)
  BY DEF Level, SA
<1>3. h \ S = Level(A \ {0}, D)
  <2>1. SA(A) \ S = SA(A \ {0})
    BY DEF SA
  <2>2. SD(D) \cap S = {} /\ IOR \notin S /\ IOW \notin S
    BY LinesDiffer
  <2> QED
    BY <2>1, <2>2 DEF Level
<1> HIDE DEF h, S
<1>4. Does(<<IOSET(S)>>, h, o, <<>>, h \cup S, o) /\ Does(<<IOCLR(S)>>, h, o, <<>>, h \ S, o)
  BY <1>1, DoesSet
<1> QED
  BY <1>2, <1>3, <1>4 DEF NextByte, FirstByte, h, S

\* The chip takes a byte.
LEMMA StrobeDoes ==
  ASSUME NEW A \in A4, NEW D \in D8
  PROVE  Does(Strobe, Level(A, D), TRUE, <<Cycle("write", A, D)>>, Level(A, D), TRUE)
<1> DEFINE h == Level(A, D)
           g == h \ {IOW}
           p == IOCLR({IOW})
           q == IOSET({IOW})
<1>1. /\ h \in SUBSET Lines /\ g \in SUBSET Lines /\ {IOW} \in SUBSET Lines
      /\ IOW \in h /\ IOW \notin g /\ g \cup {IOW} = h
  BY LevelIs DEF Lines
<1>2. LinesIn("SA", g) = A /\ LinesIn("SD", g) = D
  <2>1. \A k : <<"SA", k>> # IOW /\ <<"SD", k>> # IOW
    BY DEF IOW
  <2>2. LinesIn("SA", g) = LinesIn("SA", h) /\ LinesIn("SD", g) = LinesIn("SD", h)
    BY <2>1 DEF LinesIn
  <2> QED
    BY <2>2, LevelIs
<1>3. /\ p \in Pin /\ p.op = "clear" /\ p.lines = {IOW}
      /\ q \in Pin /\ q.op = "set" /\ q.lines = {IOW}
  BY <1>1 DEF IOCLR, IOSET, Pin
<1> HIDE DEF h, p, q
<1>4. CyclesOf(p, h, TRUE) = <<>> /\ HighAfter(p, h) = g /\ OutputAfter(p, TRUE) = TRUE
  BY <1>3 DEF CyclesOf, HighAfter, OutputAfter
<1> HIDE DEF g
<1>5. /\ CyclesOf(q, g, TRUE) = <<Cycle("write", A, D)>>
      /\ HighAfter(q, g) = h /\ OutputAfter(q, TRUE) = TRUE
  <2>1. SetCycle(g, TRUE) = Cycle("write", A, D)
    BY <1>2 DEF SetCycle
  <2> QED
    BY <1>1, <1>3, <2>1 DEF CyclesOf, HighAfter, OutputAfter
<1>6. Does(<<p>>, h, TRUE, <<>>, g, TRUE)
  BY <1>1, <1>3, <1>4, DoesOne
<1>7. Does(<<q>>, g, TRUE, <<Cycle("write", A, D)>>, h, TRUE)
  BY <1>1, <1>3, <1>5, DoesOne
<1>8. Does(<<p>> \o <<q>>, h, TRUE, <<Cycle("write", A, D)>>, h, TRUE)
  BY <1>6, <1>7, DoesQuietly
<1> QED
  BY <1>8, Couples DEF Strobe, p, q, h

\* The processor takes a byte.
LEMMA GetDoes ==
  ASSUME NEW A \in A4, NEW D \in D8, NEW k \in Int
  PROVE  Does(Get(k), Level(A, D), FALSE, <<Cycle("read", A, {k})>>, Level(A, D), FALSE)
<1> DEFINE h == Level(A, D)
           g == h \ {IOR}
           q == IOPIN(k)
<1>1. /\ h \in SUBSET Lines /\ g \in SUBSET Lines /\ {IOR} \in SUBSET Lines
      /\ IOR \in h /\ IOR \notin g /\ g \cup {IOR} = h /\ IOW \notin {IOR}
  BY LevelIs, LinesDiffer DEF Lines
<1>2. LinesIn("SA", g) = A
  <2>1. \A j : <<"SA", j>> # IOR
    BY DEF IOR
  <2>2. LinesIn("SA", g) = LinesIn("SA", h)
    BY <2>1 DEF LinesIn
  <2> QED
    BY <2>2, LevelIs
<1>3. q \in Pin /\ q.op = "get" /\ q.to = k
  BY DEF IOPIN, Pin
<1> HIDE DEF h, q
<1>4. Does(<<IOCLR({IOR})>>, h, FALSE, <<>>, g, FALSE)
  BY <1>1, DoesSet
<1> HIDE DEF g
<1>5. /\ CyclesOf(q, g, FALSE) = <<Cycle("read", A, {k})>>
      /\ HighAfter(q, g) = g /\ OutputAfter(q, FALSE) = FALSE
  <2>1. GetCycle(q, g, FALSE) = Cycle("read", A, {k})
    BY <1>1, <1>2, <1>3 DEF GetCycle
  <2> QED
    BY <1>3, <2>1 DEF CyclesOf, HighAfter, OutputAfter
<1>6. Does(<<q>>, g, FALSE, <<Cycle("read", A, {k})>>, g, FALSE)
  BY <1>1, <1>3, <1>5, DoesOne
<1>7. Does(<<IOSET({IOR})>>, g, FALSE, <<>>, h, FALSE)
  <2>1. Does(<<IOSET({IOR})>>, g, FALSE, <<>>, g \cup {IOR}, FALSE)
    BY <1>1, DoesSet
  <2> QED
    BY <1>1, <2>1
<1>8. Does(<<IOCLR({IOR})>> \o <<q>>, h, FALSE, <<Cycle("read", A, {k})>>, g, FALSE)
  BY <1>4, <1>6, DoesQuietly
<1>9. Does((<<IOCLR({IOR})>> \o <<q>>) \o <<IOSET({IOR})>>, h, FALSE,
           <<Cycle("read", A, {k})>>, h, FALSE)
  BY <1>7, <1>8, ThenQuietly
<1>10. (<<IOCLR({IOR})>> \o <<q>>) \o <<IOSET({IOR})>>
         = <<IOCLR({IOR}), q, IOSET({IOR})>>
  <2> DEFINE x == IOCLR({IOR})
             y == IOSET({IOR})
  <2> HIDE DEF x, y
  <2>1. <<x>> \o <<q>> = <<x, q>>
    BY Couples
  <2>2. <<x, q>> \o <<y>> = <<x, q, y>>
    BY Couples
  <2> QED
    BY <2>1, <2>2 DEF x, y
<1> QED
  BY <1>9, <1>10 DEF Get, q, h

-----------------------------------------------------------------------------
(* Words.                                                                    *)

\* Port addresses are even and have four bits.
Ports == {Port.RX_FRAME, Port.TX_FRAME, Port.TX_CMD, Port.TX_LEN, Port.ADD, Port.DATA}

\* The upper byte of a word is at the address with line 0 high.
LEMMA PortBits ==
  ASSUME NEW n \in Ports
  PROVE  /\ Bits(n) \in A4 /\ Bits(n + 1) \in A4
         /\ Bits(n + 1) = Bits(n) \cup {0} /\ Bits(n) = Bits(n + 1) \ {0}
<1>1. n \in {0, 4, 6, 10, 12}
  BY DEF Ports, Port
<1>2. /\ 2^0 = 1 /\ 2^1 = 2 /\ 2^2 = 4 /\ 2^3 = 8
      /\ 2^4 = 16 /\ 2^5 = 32 /\ 2^6 = 64 /\ 2^7 = 128
  OBVIOUS
<1>3. \A k \in 0 .. 7 : k \in {0, 1, 2, 3, 4, 5, 6, 7}
  OBVIOUS
<1>4. n % 2 = 0 /\ (n + 1) % 2 = 1
  BY <1>1
<1>5. n \div 1 = n /\ (n + 1) \div 1 = n + 1
  BY <1>1
<1>6. /\ 0 \in Bits(n + 1) /\ 0 \notin Bits(n)
  BY <1>2, <1>4, <1>5 DEF Bits
<1>7. ASSUME NEW k \in 4 .. 7
      PROVE  k \notin Bits(n) /\ k \notin Bits(n + 1)
  <2>1. /\ n \div 16 = 0 /\ (n + 1) \div 16 = 0 /\ n \div 32 = 0 /\ (n + 1) \div 32 = 0
        /\ n \div 64 = 0 /\ (n + 1) \div 64 = 0
        /\ n \div 128 = 0 /\ (n + 1) \div 128 = 0
    BY <1>1
  <2>2. 0 % 2 # 1
    OBVIOUS
  <2>3. 4 \notin Bits(n) /\ 4 \notin Bits(n + 1)
    BY <1>2, <2>1, <2>2 DEF Bits
  <2>4. 5 \notin Bits(n) /\ 5 \notin Bits(n + 1)
    BY <1>2, <2>1, <2>2 DEF Bits
  <2>5. 6 \notin Bits(n) /\ 6 \notin Bits(n + 1)
    BY <1>2, <2>1, <2>2 DEF Bits
  <2>6. 7 \notin Bits(n) /\ 7 \notin Bits(n + 1)
    BY <1>2, <2>1, <2>2 DEF Bits
  <2>7. k \in {4, 5, 6, 7}
    OBVIOUS
  <2> QED
    BY <2>3, <2>4, <2>5, <2>6, <2>7
<1>8. ASSUME NEW k \in 1 .. 3
      PROVE  k \in Bits(n) <=> k \in Bits(n + 1)
  <2>1. /\ n \div 2 = (n + 1) \div 2 /\ n \div 4 = (n + 1) \div 4
        /\ n \div 8 = (n + 1) \div 8
    BY <1>1
  <2>2. 1 \in Bits(n) <=> 1 \in Bits(n + 1)
    BY <1>2, <2>1 DEF Bits
  <2>3. 2 \in Bits(n) <=> 2 \in Bits(n + 1)
    BY <1>2, <2>1 DEF Bits
  <2>4. 3 \in Bits(n) <=> 3 \in Bits(n + 1)
    BY <1>2, <2>1 DEF Bits
  <2>5. k \in {1, 2, 3}
    OBVIOUS
  <2> QED
    BY <2>2, <2>3, <2>4, <2>5
<1>9. \A k \in 0 .. 7 : k = 0 \/ k \in 1 .. 3 \/ k \in 4 .. 7
  OBVIOUS
<1>10. Bits(n) \subseteq 0 .. 7 /\ Bits(n + 1) \subseteq 0 .. 7
  BY DEF Bits
<1>11. Bits(n) \subseteq 0 .. 3 /\ Bits(n + 1) \subseteq 0 .. 3
  <2>1. \A k \in 0 .. 7 : k \in 0 .. 3 \/ k \in 4 .. 7
    OBVIOUS
  <2> QED
    BY <1>7, <1>10, <2>1
<1>12. \A k : k \in Bits(n + 1) <=> k \in Bits(n) \/ k = 0
  BY <1>6, <1>7, <1>8, <1>9, <1>10
<1> QED
  BY <1>6, <1>11, <1>12 DEF A4

\* cs8900aWrite, from any lines and any direction.
LEMMA WriteDoes ==
  ASSUME NEW A \in A4, NEW D \in D8, NEW o \in BOOLEAN, NEW n \in Ports, NEW x
  PROVE  Does(cs8900aWrite(n, x), Level(A, D), o, WriteCycles(n, x),
              Level(Bits(n + 1), Bits(High(x))), TRUE)
<1> DEFINE B == Bits(n)
           L == Bits(Low(x))
           M == Bits(High(x))
           s == <<IODIR(TRUE)>> \o Address(n) \o Put(Low(x))
           w1 == Cycle("write", B, L)
           w2 == Cycle("write", Bits(n + 1), M)
<1>1. /\ B \in A4 /\ Bits(n + 1) \in A4 /\ Bits(n + 1) = B \cup {0}
      /\ L \in D8 /\ M \in D8
  BY PortBits, BitsIn
<1> HIDE DEF B, L, M
<1>2. Does(<<IODIR(TRUE)>>, Level(A, D), o, <<>>, Level(A, D), TRUE)
  BY LevelIs, DoesDirect
<1>3. Does(Address(n), Level(A, D), TRUE, <<>>, Level(B, D), TRUE)
  BY <1>1, AddressDoes DEF B
<1>4. Does(Put(Low(x)), Level(B, D), TRUE, <<>>, Level(B, L), TRUE)
  BY <1>1, PutDoes DEF L
<1>5. Does(s, Level(A, D), o, <<>>, Level(B, L), TRUE)
  BY <1>2, <1>3, <1>4, DoesQuietly
<1>6. Does(Strobe, Level(B, L), TRUE, <<w1>>, Level(B, L), TRUE)
  BY <1>1, StrobeDoes
<1>7. Does(NextByte, Level(B, L), TRUE, <<>>, Level(Bits(n + 1), L), TRUE)
  BY <1>1, ByteDoes
<1>8. Does(Put(High(x)), Level(Bits(n + 1), L), TRUE, <<>>, Level(Bits(n + 1), M), TRUE)
  BY <1>1, PutDoes DEF M
<1>9. Does(Strobe, Level(Bits(n + 1), M), TRUE, <<w2>>, Level(Bits(n + 1), M), TRUE)
  BY <1>1, StrobeDoes
<1> HIDE DEF s, w1, w2
<1>10. Does(s \o Strobe, Level(A, D), o, <<w1>>, Level(B, L), TRUE)
  BY <1>5, <1>6, DoesQuietly
<1>11. Does(s \o Strobe \o NextByte, Level(A, D), o, <<w1>>, Level(Bits(n + 1), L), TRUE)
  BY <1>7, <1>10, ThenQuietly
<1>12. Does(s \o Strobe \o NextByte \o Put(High(x)), Level(A, D), o, <<w1>>,
            Level(Bits(n + 1), M), TRUE)
  BY <1>8, <1>11, ThenQuietly
<1>13. Does(s \o Strobe \o NextByte \o Put(High(x)) \o Strobe, Level(A, D), o,
            <<w1>> \o <<w2>>, Level(Bits(n + 1), M), TRUE)
  BY <1>9, <1>12, DoesThen
<1>14. <<w1>> \o <<w2>> = WriteCycles(n, x)
  BY Couples DEF WriteCycles, w1, w2, B, L, M
<1> QED
  BY <1>13, <1>14 DEF cs8900aWrite, s, M

\* cs8900aRead, from any lines and any direction.
LEMMA ReadDoes ==
  ASSUME NEW A \in A4, NEW D \in D8, NEW o \in BOOLEAN, NEW n \in Ports
  PROVE  Does(cs8900aRead(n), Level(A, D), o, ReadCycles(n), Level(Bits(n + 1), D), FALSE)
<1> DEFINE B == Bits(n)
           r0 == Cycle("read", B, {0})
           r1 == Cycle("read", Bits(n + 1), {1})
<1>1. B \in A4 /\ Bits(n + 1) \in A4 /\ Bits(n + 1) = B \cup {0}
  BY PortBits
<1> HIDE DEF B
<1>2. Does(<<IODIR(FALSE)>>, Level(A, D), o, <<>>, Level(A, D), FALSE)
  BY LevelIs, DoesDirect
<1>3. Does(Address(n), Level(A, D), FALSE, <<>>, Level(B, D), FALSE)
  BY <1>1, AddressDoes DEF B
<1>4. Does(Get(0), Level(B, D), FALSE, <<r0>>, Level(B, D), FALSE)
  BY <1>1, GetDoes, 0 \in Int, 1 \in Int
<1>5. Does(NextByte, Level(B, D), FALSE, <<>>, Level(Bits(n + 1), D), FALSE)
  BY <1>1, ByteDoes
<1>6. Does(Get(1), Level(Bits(n + 1), D), FALSE, <<r1>>, Level(Bits(n + 1), D), FALSE)
  BY <1>1, GetDoes, 0 \in Int, 1 \in Int
<1> HIDE DEF r0, r1
<1>7. Does(<<IODIR(FALSE)>> \o Address(n) \o Get(0), Level(A, D), o, <<r0>>, Level(B, D), FALSE)
  BY <1>2, <1>3, <1>4, DoesQuietly
<1>8. Does(<<IODIR(FALSE)>> \o Address(n) \o Get(0) \o NextByte, Level(A, D), o, <<r0>>,
           Level(Bits(n + 1), D), FALSE)
  BY <1>5, <1>7, ThenQuietly
<1>9. Does(<<IODIR(FALSE)>> \o Address(n) \o Get(0) \o NextByte \o Get(1), Level(A, D), o,
           <<r0>> \o <<r1>>, Level(Bits(n + 1), D), FALSE)
  BY <1>6, <1>8, DoesThen
<1>10. <<r0>> \o <<r1>> = ReadCycles(n)
  BY Couples DEF ReadCycles, r0, r1, B
<1> QED
  BY <1>9, <1>10 DEF cs8900aRead

\* cs8900aReadAddrHighFirst: the same cycles in the other order.
LEMMA ReadHighFirstDoes ==
  ASSUME NEW A \in A4, NEW D \in D8, NEW o \in BOOLEAN, NEW n \in Ports
  PROVE  Does(cs8900aReadAddrHighFirst(n), Level(A, D), o, Reverse(ReadCycles(n)),
              Level(Bits(n), D), FALSE)
<1> DEFINE B == Bits(n)
           r0 == Cycle("read", B, {0})
           r1 == Cycle("read", Bits(n + 1), {1})
<1>1. B \in A4 /\ Bits(n + 1) \in A4 /\ B = Bits(n + 1) \ {0}
  BY PortBits
<1> HIDE DEF B
<1>2. Does(<<IODIR(FALSE)>>, Level(A, D), o, <<>>, Level(A, D), FALSE)
  BY LevelIs, DoesDirect
<1>3. Does(Address(n + 1), Level(A, D), FALSE, <<>>, Level(Bits(n + 1), D), FALSE)
  BY <1>1, AddressDoes
<1>4. Does(Get(1), Level(Bits(n + 1), D), FALSE, <<r1>>, Level(Bits(n + 1), D), FALSE)
  BY <1>1, GetDoes, 0 \in Int, 1 \in Int
<1>5. Does(FirstByte, Level(Bits(n + 1), D), FALSE, <<>>, Level(B, D), FALSE)
  BY <1>1, ByteDoes
<1>6. Does(Get(0), Level(B, D), FALSE, <<r0>>, Level(B, D), FALSE)
  BY <1>1, GetDoes, 0 \in Int, 1 \in Int
<1> HIDE DEF r0, r1
<1>7. Does(<<IODIR(FALSE)>> \o Address(n + 1) \o Get(1), Level(A, D), o, <<r1>>,
           Level(Bits(n + 1), D), FALSE)
  BY <1>2, <1>3, <1>4, DoesQuietly
<1>8. Does(<<IODIR(FALSE)>> \o Address(n + 1) \o Get(1) \o FirstByte, Level(A, D), o, <<r1>>,
           Level(B, D), FALSE)
  BY <1>5, <1>7, ThenQuietly
<1>9. Does(<<IODIR(FALSE)>> \o Address(n + 1) \o Get(1) \o FirstByte \o Get(0), Level(A, D),
           o, <<r1>> \o <<r0>>, Level(B, D), FALSE)
  BY <1>6, <1>8, DoesThen
<1>10. Reverse(ReadCycles(n)) = <<r1, r0>>
  <2> DEFINE s == <<r0, r1>>
             t == <<r1, r0>>
             v == Reverse(s)
  <2>1. Len(s) = 2 /\ s[1] = r0 /\ s[2] = r1
    OBVIOUS
  <2>2. t \in Seq({r0, r1}) /\ Len(t) = 2 /\ t[1] = r1 /\ t[2] = r0
    OBVIOUS
  <2> HIDE DEF s, t
  <2>3. v = [k \in 1 .. 2 |-> s[(2 - k) + 1]]
    BY <2>1 DEF Reverse
  <2> HIDE DEF v
  <2>4. v[1] = r1 /\ v[2] = r0 /\ \A k \in 1 .. 2 : k = 1 \/ k = 2
    BY <2>1, <2>3
  <2>5. v \in Seq({r0, r1}) /\ Len(v) = 2
    BY <2>3, <2>4
  <2>6. v = t
    BY <2>2, <2>4, <2>5, SeqEqual
  <2> QED
    BY <2>6 DEF v, s, t, ReadCycles, r0, r1, B
<1> QED
  BY <1>9, <1>10, Couples DEF cs8900aReadAddrHighFirst, B

-----------------------------------------------------------------------------
(* Induction, over sets instead of predicates, and flattening: a function      *)
(* that satisfies the equation of the library's definition exists up to every *)
(* length.                                                                    *)

\* Every set of natural numbers that is not empty has a least element.
LEMMA Least ==
  ASSUME NEW T \in SUBSET Nat, T # {}
  PROVE  \E x \in T : \A y \in T : x <= y
<1> DEFINE R == OpToRel(<, Nat)
<1>1. IsWellFoundedOn(R, Nat)
  BY NatLessThanWellFounded
<1>2. \A x, y \in Nat : y < x => <<y, x>> \in R
  BY DEF OpToRel
<1> HIDE DEF R
<1>3. PICK x \in T : \A y \in T : ~ (<<y, x>> \in R)
  BY <1>1, WFMin
<1>4. \A y \in T : y \in Nat /\ x \in Nat /\ ~(y < x)
  BY <1>2, <1>3
<1>5. \A y \in T : x <= y
  BY <1>4
<1> QED
  BY <1>5

\* What holds of 1, and of k + 1 when it holds of k, holds up to n.
LEMMA UpTo ==
  ASSUME NEW n \in Nat, NEW S,
         1 \in S, \A k \in 1 .. n - 1 : k \in S => k + 1 \in S
  PROVE  1 .. n \subseteq S
<1> DEFINE T == (1 .. n) \ S
<1> SUFFICES ASSUME T # {} PROVE FALSE
  OBVIOUS
<1>1. T \in SUBSET Nat
  OBVIOUS
<1>2. PICK x \in T : \A y \in T : x <= y
  <2> HIDE DEF T
  <2> QED
    BY <1>1, Least
<1>3. x \in 2 .. n
  OBVIOUS
<1>4. x - 1 \in 1 .. n - 1 /\ ~(x <= x - 1)
  BY <1>3
<1>5. x - 1 \in S
  BY <1>2, <1>4
<1>6. (x - 1) + 1 = x
  BY <1>3
<1> QED
  BY <1>4, <1>5, <1>6

Flattens(g, s, n) ==
  g = [j \in 1 .. n |-> IF j = 1 THEN s[j] ELSE g[j - 1] \o s[j]]

\* A function with the equation of FlattenSeq exists up to every length.
LEMMA FlattenExists ==
  ASSUME NEW s, NEW n \in Nat
  PROVE  \E g : Flattens(g, s, n)
<1> DEFINE S == {m \in Nat : \E g : Flattens(g, s, m)}
<1>1. 0 \in S
  <2> DEFINE g == [j \in 1 .. 0 |-> IF j = 1 THEN s[j] ELSE <<>>]
  <2>1. Flattens(g, s, 0)
    BY DEF Flattens
  <2> QED
    BY <2>1
<1>2. ASSUME NEW m \in Nat, m \in S
      PROVE  m + 1 \in S
  <2>1. PICK g : Flattens(g, s, m)
    BY <1>2
  <2> DEFINE h == [j \in 1 .. m + 1 |-> IF j = 1 THEN s[j] ELSE g[j - 1] \o s[j]]
  <2>2. ASSUME NEW j \in 1 .. m
        PROVE  h[j] = g[j]
    <3>1. j \in 1 .. m + 1
      OBVIOUS
    <3>2. h[j] = IF j = 1 THEN s[j] ELSE g[j - 1] \o s[j]
      BY <3>1
    <3>3. g[j] = IF j = 1 THEN s[j] ELSE g[j - 1] \o s[j]
      BY <2>1 DEF Flattens
    <3> QED
      BY <3>2, <3>3
  <2>3. \A j \in 1 .. m + 1 : j # 1 => j - 1 \in 1 .. m
    OBVIOUS
  <2>4. Flattens(h, s, m + 1)
    BY <2>2, <2>3 DEF Flattens
  <2> QED
    BY <2>4
<1>3. 1 \in S
  BY <1>1, <1>2, 0 + 1 = 1
<1>4. \A k \in 1 .. n - 1 : k \in S => k + 1 \in S
  BY <1>2
<1> HIDE DEF S
<1>5. n \in S
  <2>1. 1 .. n \subseteq S
    BY <1>3, <1>4, UpTo
  <2> QED
    BY <1>1, <2>1
<1> QED
  BY <1>5 DEF S

\* FlattenSeq is the last value of such a function.
LEMMA FlattenIs ==
  ASSUME NEW s, Len(s) \in Nat \ {0}
  PROVE  \E g : Flattens(g, s, Len(s)) /\ FlattenSeq(s) = g[Len(s)]
<1> DEFINE n == Len(s)
           f == CHOOSE g : g = [j \in 1 .. n |-> IF j = 1 THEN s[j] ELSE g[j - 1] \o s[j]]
<1>1. FlattenSeq(s) = f[n]
  BY DEF FlattenSeq
<1>2. PICK g : Flattens(g, s, n)
  BY FlattenExists
<1>3. Flattens(f, s, n)
  BY <1>2 DEF Flattens
<1> QED
  BY <1>1, <1>3

-----------------------------------------------------------------------------
(* Calls of any number of writes, one behind the other. A state is which lines *)
(* are high, and the direction.                                               *)

States == (SUBSET Lines) \X BOOLEAN

Goes(ops, q, c, r) == Does(ops, q[1], q[2], c, r[1], r[2])

\* Q: states between the parts of s. R[k]: the cycles of the first k parts.
LEMMA FlattenDoes ==
  ASSUME NEW Q \in SUBSET States, NEW n \in Nat, NEW s,
         s = [k \in 1 .. n |-> s[k]], Len(s) = n,
         NEW R, <<>> \in R[0],
         \A k \in 1 .. n : \A c \in R[k - 1] : \A q \in Q : \E r \in Q : \E e \in Seq(Cycles) :
           Goes(s[k], q, e, r) /\ c \o e \in R[k]
  PROVE  \A q \in Q : \E r \in Q : \E c \in R[n] : Goes(FlattenSeq(s), q, c, r)
<1>1. CASE n = 0
  <2>1. s = <<>>
    BY <1>1
  <2>2. FlattenSeq(s) = <<>>
    BY <1>1, <2>1 DEF FlattenSeq
  <2>3. \A q \in Q : q[1] \in SUBSET Lines /\ q[2] \in BOOLEAN
    BY DEF States
  <2>4. \A q \in Q : Goes(<<>>, q, <<>>, q)
    BY <2>3, DoesNothing DEF Goes
  <2> QED
    BY <1>1, <2>2, <2>4
<1>2. CASE n # 0
  <2>1. PICK g : Flattens(g, s, n) /\ FlattenSeq(s) = g[n]
    BY <1>2, FlattenIs
  <2>2. /\ g[1] = s[1]
        /\ \A k \in 1 .. n - 1 : g[k + 1] = g[k] \o s[k + 1]
    <3>1. 1 \in 1 .. n
      BY <1>2
    <3>2. \A k \in 1 .. n - 1 : k + 1 \in 1 .. n /\ k + 1 # 1 /\ (k + 1) - 1 = k
      OBVIOUS
    <3>3. \A j \in 1 .. n : g[j] = IF j = 1 THEN s[j] ELSE g[j - 1] \o s[j]
      BY <2>1 DEF Flattens
    <3>4. g[1] = s[1]
      BY <3>1, <3>3
    <3>5. ASSUME NEW k \in 1 .. n - 1
          PROVE  g[k + 1] = g[k] \o s[k + 1]
      <4> DEFINE j == k + 1
      <4>1. j \in 1 .. n /\ j # 1 /\ j - 1 = k
        BY <3>2
      <4> HIDE DEF j
      <4>2. g[j] = g[j - 1] \o s[j]
        BY <3>3, <4>1
      <4> QED
        BY <4>1, <4>2 DEF j
    <3> QED
      BY <3>4, <3>5
  <2> DEFINE S == {k \in 1 .. n : \A q \in Q : \E r \in Q : \E c \in R[k] : Goes(g[k], q, c, r)}
  <2>3. 1 \in S
    <3>1. 1 \in 1 .. n /\ 1 - 1 = 0
      BY <1>2
    <3>2. \A q \in Q : \E r \in Q : \E e \in Seq(Cycles) :
            Goes(s[1], q, e, r) /\ <<>> \o e \in R[1]
      BY <3>1
    <3>3. \A e \in Seq(Cycles) : <<>> \o e = e
      BY ConcatEmptySeq
    <3>4. \A q \in Q : \E r \in Q : \E c \in R[1] : Goes(g[1], q, c, r)
      BY <2>2, <3>2, <3>3
    <3> QED
      BY <3>1, <3>4
  <2>4. ASSUME NEW k \in 1 .. n - 1, k \in S
        PROVE  k + 1 \in S
    <3> DEFINE j == k + 1
    <3>1. j \in 1 .. n /\ j - 1 = k /\ g[j] = g[k] \o s[j]
      <4>1. j \in 1 .. n /\ j - 1 = k
        OBVIOUS
      <4>2. g[j] = g[k] \o s[j]
        BY <2>2
      <4> QED
        BY <4>1, <4>2
    <3> HIDE DEF j
    <3>2. ASSUME NEW q \in Q
          PROVE  \E r \in Q : \E c \in R[j] : Goes(g[j], q, c, r)
      <4>1. PICK t \in Q, c \in R[k] : Goes(g[k], q, c, t)
        BY <2>4
      <4>2. PICK r \in Q, e \in Seq(Cycles) : Goes(s[j], t, e, r) /\ c \o e \in R[j]
        BY <3>1
      <4>3. Goes(g[k] \o s[j], q, c \o e, r)
        BY <4>1, <4>2, DoesThen DEF Goes
      <4> QED
        BY <3>1, <4>2, <4>3
    <3> QED
      BY <3>1, <3>2 DEF j
  <2> HIDE DEF S
  <2>5. 1 .. n \subseteq S
    BY <2>3, <2>4, UpTo
  <2>6. n \in S
    BY <1>2, <2>5
  <2>7. \A q \in Q : \E r \in Q : \E c \in R[n] : Goes(g[n], q, c, r)
    BY <2>6 DEF S
  <2> QED
    BY <2>1, <2>7
<1> QED
  BY <1>1, <1>2

-----------------------------------------------------------------------------
(* Frames.                                                                    *)

Chain(c) == c \in Seq(Nat) /\ \A j, k \in DOMAIN c : j <= k => c[j] <= c[k]

\* Pairs of bytes at a time. E: where the cycles of buffer j end.
Ends(c, j) == 2 * ((c[j] + 1) \div 2)

\* Where the buffers of a chain begin and end, and which have pairs.
LEMMA ChainIs ==
  ASSUME NEW c, Chain(c), NEW j \in DOMAIN c
  PROVE  /\ Start(c, j) \in Nat /\ c[j] \in Nat /\ Total(c) \in Nat
         /\ Start(c, j) <= c[j] /\ c[j] <= Total(c)
         /\ Pairs(c, j) \in Nat /\ Ends(c, j) \in Nat
         /\ EvenChain(c) =>
              /\ Start(c, j) % 2 = 0
              /\ Start(c, j) + 2 * Pairs(c, j) = Ends(c, j)
              /\ j < Len(c) => Ends(c, j) = c[j]
              /\ j > 1 => Ends(c, j - 1) = Start(c, j)
              /\ c[j] % 2 = 1 => c[j] = Total(c)
<1>1. c \in Seq(Nat) /\ Len(c) \in Nat /\ DOMAIN c = 1 .. Len(c)
      /\ c # <<>> /\ Total(c) = c[Len(c)]
  BY DEF Chain, Total, Last
<1>2. c[j] \in Nat /\ Total(c) \in Nat /\ c[j] <= Total(c)
  BY <1>1 DEF Chain
<1>3. Start(c, j) \in Nat /\ Start(c, j) <= c[j]
  <2>1. CASE j = 1
    BY <1>2, <2>1 DEF Start
  <2>2. CASE j # 1
    <3>1. j - 1 \in DOMAIN c /\ j - 1 <= j
      BY <1>1, <2>2
    <3> QED
      BY <1>1, <2>2, <3>1 DEF Start, Chain
  <2> QED
    BY <2>1, <2>2
<1>4. Pairs(c, j) \in Nat /\ Ends(c, j) \in Nat
  BY <1>2, <1>3 DEF Pairs, Ends
<1>5. ASSUME EvenChain(c)
      PROVE  /\ Start(c, j) % 2 = 0
             /\ Start(c, j) + 2 * Pairs(c, j) = Ends(c, j)
             /\ j < Len(c) => Ends(c, j) = c[j]
             /\ j > 1 => Ends(c, j - 1) = Start(c, j)
             /\ c[j] % 2 = 1 => c[j] = Total(c)
  <2>1. \A k \in 1 .. Len(c) - 1 : c[k] \in Nat /\ c[k] % 2 = 0
    BY <1>1, <1>5 DEF EvenChain
  <2>2. j < Len(c) => c[j] % 2 = 0
    BY <1>1, <2>1
  <2>3. j > 1 => j - 1 \in 1 .. Len(c) - 1
    BY <1>1
  <2>4. Start(c, j) % 2 = 0
    BY <2>1, <2>3, <1>1 DEF Start
  <2>5. Start(c, j) + 2 * ((c[j] - Start(c, j) + 1) \div 2) = 2 * ((c[j] + 1) \div 2)
    <3>1. PICK m \in Nat : Start(c, j) = 2 * m
      <4>1. \A x \in Nat : x % 2 = 0 => x = 2 * (x \div 2) /\ x \div 2 \in Nat
        OBVIOUS
      <4> QED
        BY <1>3, <2>4, <4>1
    <3>2. \A x, y \in Nat : 2 * y + 2 * ((x - 2 * y + 1) \div 2) = 2 * ((x + 1) \div 2)
      OBVIOUS
    <3> QED
      BY <1>2, <3>1, <3>2
  <2>6. \A x \in Nat : x % 2 = 0 => 2 * ((x + 1) \div 2) = x
    OBVIOUS
  <2>7. j > 1 => Ends(c, j - 1) = Start(c, j)
    <3> SUFFICES ASSUME j > 1
                 PROVE  Ends(c, j - 1) = Start(c, j)
      OBVIOUS
    <3>1. c[j - 1] \in Nat /\ c[j - 1] % 2 = 0
      BY <2>1, <2>3
    <3>2. j # 1
      BY <1>1
    <3>3. Start(c, j) = c[j - 1]
      BY <3>2 DEF Start
    <3> QED
      BY <2>6, <3>1, <3>3 DEF Ends
  <2>8. j < Len(c) => Ends(c, j) = c[j]
    BY <1>2, <2>2, <2>6 DEF Ends
  <2>9. c[j] % 2 = 1 => c[j] = Total(c)
    <3>1. j = Len(c) \/ j < Len(c)
      BY <1>1
    <3>2. 0 # 1
      OBVIOUS
    <3> QED
      BY <1>1, <2>2, <3>1, <3>2
  <2> QED
    BY <2>4, <2>5, <2>7, <2>8, <2>9 DEF Pairs, Ends
<1> QED
  BY <1>2, <1>3, <1>4, <1>5

\* A part of a sequence and its next two elements.
LEMMA TwoMore ==
  ASSUME NEW S, NEW M \in Seq(S), NEW a \in Nat \ {0}, NEW b \in Nat,
         a <= b + 1, b + 2 <= Len(M)
  PROVE  SubSeq(M, a, b) \o <<M[b + 1], M[b + 2]>> = SubSeq(M, a, b + 2)
<1> DEFINE t == SubSeq(M, a, b)
           w == <<M[b + 1], M[b + 2]>>
           v == SubSeq(M, a, b + 2)
<1>1. Len(M) \in Nat /\ \A k \in 1 .. Len(M) : M[k] \in S
  OBVIOUS
<1>2. /\ \A k \in a .. b : k \in 1 .. Len(M)
      /\ \A k \in a .. b + 2 : k \in 1 .. Len(M)
      /\ b + 1 \in 1 .. Len(M) /\ b + 2 \in 1 .. Len(M)
  BY <1>1
<1> DEFINE m == b - a + 1
<1>3. m \in Nat /\ (b + 2) - a + 1 = m + 2 /\ a + m = b + 1
  OBVIOUS
<1>4. /\ t \in Seq(S) /\ Len(t) = m
      /\ \A k \in 1 .. m : t[k] = M[a + k - 1]
  <2>1. \A k \in a .. b : M[k] \in S
    BY <1>1, <1>2
  <2>2. /\ t \in Seq(S) /\ Len(t) = IF a <= b THEN b - a + 1 ELSE 0
        /\ \A k \in 1 .. b - a + 1 : t[k] = M[a + k - 1]
    BY <2>1, SubSeqProperties
  <2>3. ~(a <= b) => b - a + 1 = 0
    OBVIOUS
  <2> QED
    BY <2>2, <2>3
<1>5. /\ v \in Seq(S) /\ Len(v) = m + 2
      /\ \A k \in 1 .. m + 2 : v[k] = M[a + k - 1]
  <2>1. \A k \in a .. b + 2 : M[k] \in S
    BY <1>1, <1>2
  <2>2. a <= b + 2 /\ b + 2 \in Int
    OBVIOUS
  <2>3. /\ v \in Seq(S) /\ Len(v) = (b + 2) - a + 1
        /\ \A k \in 1 .. (b + 2) - a + 1 : v[k] = M[a + k - 1]
    BY <2>1, <2>2, SubSeqProperties
  <2> QED
    BY <1>3, <2>3
<1>6. w \in Seq(S) /\ Len(w) = 2 /\ w[1] = M[b + 1] /\ w[2] = M[b + 2]
  BY <1>1, <1>2
<1> HIDE DEF t, w, v, m
<1>7. /\ t \o w \in Seq(S) /\ Len(t \o w) = m + 2
      /\ \A k \in 1 .. m + 2 : (t \o w)[k] = IF k <= m THEN t[k] ELSE w[k - m]
  <2>1. t \in Seq(S) /\ w \in Seq(S) /\ Len(t) = m /\ Len(w) = 2
    BY <1>4, <1>6
  <2>2. /\ t \o w \in Seq(S)
        /\ Len(t \o w) = Len(t) + Len(w)
        /\ \A k \in 1 .. Len(t) + Len(w) :
             (t \o w)[k] = IF k <= Len(t) THEN t[k] ELSE w[k - Len(t)]
    BY <2>1, ConcatProperties, Zenon
  <2> QED
    BY <2>1, <2>2, Zenon
<1>8. ASSUME NEW k \in 1 .. m + 2
      PROVE  (t \o w)[k] = v[k]
  <2>1. k \in 1 .. m \/ k = m + 1 \/ k = m + 2
    BY <1>3
  <2>2. CASE k \in 1 .. m
    <3>1. k <= m
      BY <1>3, <2>2
    <3> QED
      BY <1>4, <1>5, <1>7, <2>2, <3>1
  <2>3. CASE k = m + 1
    <3>1. ~(k <= m) /\ k - m = 1 /\ a + k - 1 = b + 1
      BY <1>3, <2>3
    <3> QED
      BY <1>5, <1>6, <1>7, <3>1
  <2>4. CASE k = m + 2
    <3>1. ~(k <= m) /\ k - m = 2 /\ a + k - 1 = b + 2
      BY <1>3, <2>4
    <3> QED
      BY <1>5, <1>6, <1>7, <3>1
  <2> QED
    BY <2>1, <2>2, <2>3, <2>4
<1>9. t \o w = v
  BY <1>5, <1>7, <1>8, SeqEqual
<1> QED
  BY <1>9 DEF t, w, v

\* M: the cycles of a frame. e: those of pair n of buffer j.
PairMatches(c, M, j, n, e) ==
  EvenChain(c) => e = <<M[Start(c, j) + 2 * n - 1], M[Start(c, j) + 2 * n]>>

FrameLen(c) == 2 * ((Total(c) + 1) \div 2)

\* One buffer.
LEMMA BufferDoes ==
  ASSUME NEW c, Chain(c), NEW j \in DOMAIN c,
         NEW M \in Seq(Cycles), Len(M) = FrameLen(c),
         NEW Q \in SUBSET States, NEW s,
         s = [k \in 1 .. Pairs(c, j) |-> s[k]], Len(s) = Pairs(c, j),
         \A k \in 1 .. Pairs(c, j) : \A q \in Q : \E r \in Q : \E e \in Seq(Cycles) :
           Goes(s[k], q, e, r) /\ PairMatches(c, M, j, k, e)
  PROVE  \A q \in Q : \E r \in Q : \E e \in Seq(Cycles) :
           /\ Goes(FlattenSeq(s), q, e, r)
           /\ EvenChain(c) => e = SubSeq(M, Start(c, j) + 1, Ends(c, j))
<1> DEFINE n == Pairs(c, j)
           a == Start(c, j)
           R == [k \in 0 .. n |-> IF EvenChain(c) THEN {SubSeq(M, a + 1, a + 2 * k)}
                                  ELSE Seq(Cycles)]
<1>1. /\ n \in Nat /\ a \in Nat
      /\ EvenChain(c) => a + 2 * n = Ends(c, j)
      /\ Ends(c, j) <= FrameLen(c)
  <2>1. Ends(c, j) <= FrameLen(c)
    BY ChainIs DEF Ends, FrameLen
  <2> QED
    BY <2>1, ChainIs
<1> HIDE DEF n, a
<1>2. <<>> \in R[0]
  <2>1. SubSeq(M, a + 1, a + 2 * 0) = <<>>
    <3>1. a + 1 \in Int /\ a + 2 * 0 \in Int /\ a + 2 * 0 < a + 1
      BY <1>1
    <3> QED
      BY <3>1, SubSeqEmpty
  <2>2. <<>> \in Seq(Cycles) /\ 0 \in 0 .. n
    BY <1>1
  <2> QED
    BY <2>1, <2>2
<1>3. ASSUME NEW k \in 1 .. n, NEW d \in R[k - 1], NEW q \in Q
      PROVE  \E r \in Q : \E e \in Seq(Cycles) : Goes(s[k], q, e, r) /\ d \o e \in R[k]
  <2>1. PICK r \in Q, e \in Seq(Cycles) : Goes(s[k], q, e, r) /\ PairMatches(c, M, j, k, e)
    BY DEF n
  <2>2. k \in 0 .. n /\ k - 1 \in 0 .. n
    BY <1>1
  <2>3. CASE EvenChain(c)
    <3> DEFINE b == a + 2 * (k - 1)
    <3>1. /\ b \in Nat /\ a + 1 \in Nat \ {0} /\ a + 1 <= b + 1
          /\ b + 1 = a + 2 * k - 1 /\ b + 2 = a + 2 * k
          /\ b + 2 <= Len(M)
      <4> DEFINE l == Len(M)
      <4>1. k \in Nat /\ 1 <= k /\ k <= n
        BY <1>1
      <4>2. a + 2 * n <= l /\ l \in Nat
        BY <1>1, <2>3
      <4> HIDE DEF l
      <4>3. b \in Nat /\ a + 1 \in Nat \ {0} /\ a + 1 <= b + 1
        BY <1>1, <4>1
      <4>4. b + 1 = a + 2 * k - 1 /\ b + 2 = a + 2 * k
        <5>1. \A x, y \in Nat : /\ (x + 2 * (y - 1)) + 1 = x + 2 * y - 1
                                /\ (x + 2 * (y - 1)) + 2 = x + 2 * y
          OBVIOUS
        <5> QED
          BY <1>1, <4>1, <5>1
      <4>5. b + 2 <= l
        BY <1>1, <4>1, <4>2
      <4> QED
        BY <4>3, <4>4, <4>5 DEF l
    <3>2. d = SubSeq(M, a + 1, b)
      BY <2>2, <2>3
    <3>3. e = <<M[a + 2 * k - 1], M[a + 2 * k]>>
      BY <2>1, <2>3 DEF PairMatches, a
    <3> HIDE DEF b
    <3>4. e = <<M[b + 1], M[b + 2]>>
      BY <3>1, <3>3
    <3>5. d \o e = SubSeq(M, a + 1, b + 2)
      BY <3>1, <3>2, <3>4, TwoMore
    <3>6. d \o e = SubSeq(M, a + 1, a + 2 * k)
      BY <3>1, <3>5
    <3> QED
      BY <2>1, <2>2, <2>3, <3>6
  <2>4. CASE ~EvenChain(c)
    <3>1. d \in Seq(Cycles)
      BY <2>2, <2>4
    <3>2. d \o e \in Seq(Cycles)
      BY <3>1, ConcatProperties
    <3> QED
      BY <2>1, <2>2, <2>4, <3>2
  <2> QED
    BY <2>3, <2>4
<1>4. ASSUME NEW q \in Q
      PROVE  \E r \in Q : \E e \in Seq(Cycles) :
               /\ Goes(FlattenSeq(s), q, e, r)
               /\ EvenChain(c) => e = SubSeq(M, a + 1, Ends(c, j))
  <2> HIDE DEF R
  <2>1. s = [k \in 1 .. n |-> s[k]] /\ Len(s) = n
    BY DEF n
  <2>2. \A p \in Q : \E r \in Q : \E e \in R[n] : Goes(FlattenSeq(s), p, e, r)
    BY <1>1, <1>2, <1>3, <2>1, FlattenDoes
  <2>3. PICK r \in Q, e \in R[n] : Goes(FlattenSeq(s), q, e, r)
    BY <2>2
  <2>4. e \in Seq(Cycles)
    BY <2>3, DoesTypes DEF Goes
  <2>5. EvenChain(c) => e = SubSeq(M, a + 1, Ends(c, j))
    <3>1. n \in 0 .. n
      BY <1>1
    <3> QED
      BY <1>1, <2>3, <3>1 DEF R
  <2> QED
    BY <2>3, <2>4, <2>5
<1> QED
  BY <1>4 DEF a

\* The writes of s are those for the buffers of c, whose cycles are in M.
BuffersMatch(c, M, Q, s) ==
  /\ s = [k \in 1 .. Len(c) |-> s[k]] /\ Len(s) = Len(c)
  /\ \A k \in 1 .. Len(c) : \A q \in Q : \E r \in Q : \E e \in Seq(Cycles) :
       /\ Goes(s[k], q, e, r)
       /\ EvenChain(c) => e = SubSeq(M, Start(c, k) + 1, Ends(c, k))

\* A chain of buffers.
LEMMA ChainDoes ==
  ASSUME NEW c, Chain(c), NEW M \in Seq(Cycles), Len(M) = FrameLen(c),
         NEW Q \in SUBSET States, NEW s, BuffersMatch(c, M, Q, s)
  PROVE  \A q \in Q : \E r \in Q : \E e \in Seq(Cycles) :
           Goes(FlattenSeq(s), q, e, r) /\ (EvenChain(c) => e = M)
<1> DEFINE n == Len(c)
           End(k) == IF k = 0 THEN 0 ELSE Ends(c, k)
           R == [k \in 0 .. n |-> IF EvenChain(c) THEN {SubSeq(M, 1, End(k))}
                                  ELSE Seq(Cycles)]
<1>1. /\ n \in Nat /\ DOMAIN c = 1 .. n
      /\ n = 0 => c = <<>>
      /\ n # 0 => c # <<>>
  BY DEF Chain
<1>2. n = 0 => Len(M) = 0 /\ M = <<>>
  <2> SUFFICES ASSUME n = 0
               PROVE  Len(M) = 0 /\ M = <<>>
    OBVIOUS
  <2>1. Total(c) = 0
    BY <1>1 DEF Total
  <2>2. Len(M) = 0
    BY <2>1 DEF FrameLen
  <2> QED
    BY <2>2
<1>3. EvenChain(c) => SubSeq(M, 1, End(n)) = M
  <2>1. CASE n = 0
    <3>1. SubSeq(M, 1, 0) = <<>>
      BY SubSeqEmpty
    <3> QED
      BY <1>2, <2>1, <3>1
  <2>2. CASE n # 0
    <3>1. Total(c) = c[n]
      BY <1>1, <2>2 DEF Total, Last
    <3>2. End(n) = Len(M)
      BY <2>2, <3>1 DEF Ends, FrameLen
    <3> HIDE DEF End, n
    <3> QED
      BY <3>2, SubSeqFull
  <2> QED
    BY <2>1, <2>2
<1> HIDE DEF n, End
<1>4. <<>> \in R[0]
  <2>1. SubSeq(M, 1, End(0)) = <<>>
    BY SubSeqEmpty DEF End
  <2>2. <<>> \in Seq(Cycles) /\ 0 \in 0 .. n
    BY <1>1
  <2> QED
    BY <2>1, <2>2
<1>5. ASSUME NEW k \in 1 .. n, NEW d \in R[k - 1], NEW q \in Q
      PROVE  \E r \in Q : \E e \in Seq(Cycles) : Goes(s[k], q, e, r) /\ d \o e \in R[k]
  <2>1. PICK r \in Q, e \in Seq(Cycles) :
          /\ Goes(s[k], q, e, r)
          /\ EvenChain(c) => e = SubSeq(M, Start(c, k) + 1, Ends(c, k))
    BY DEF n, BuffersMatch
  <2>2. k \in 0 .. n /\ k - 1 \in 0 .. n /\ k \in DOMAIN c
    BY <1>1
  <2>3. CASE EvenChain(c)
    <3> DEFINE a == Start(c, k)
               b == Ends(c, k)
    <3>1. /\ a \in Nat /\ b \in Nat /\ a <= b /\ b <= Len(M)
      <4>1. /\ a \in Nat /\ b \in Nat /\ c[k] \in Nat /\ Total(c) \in Nat
            /\ Pairs(c, k) \in Nat /\ a + 2 * Pairs(c, k) = b /\ c[k] <= Total(c)
        BY <2>2, <2>3, ChainIs
      <4>2. 2 * ((c[k] + 1) \div 2) <= 2 * ((Total(c) + 1) \div 2)
        <5>1. \A x, y \in Nat : x <= y => 2 * ((x + 1) \div 2) <= 2 * ((y + 1) \div 2)
          OBVIOUS
        <5> QED
          BY <4>1, <5>1
      <4>3. b <= Len(M)
        BY <4>2 DEF Ends, FrameLen
      <4> QED
        BY <4>1, <4>3
    <3>2. End(k - 1) = a /\ End(k) = b
      <4>1. k # 0 /\ (k = 1 => a = 0) /\ (k # 1 => k > 1 /\ k - 1 # 0)
        <5>1. k \in Nat /\ k >= 1
          BY <1>1
        <5>2. k = 1 => a = 0
          BY DEF Start
        <5> QED
          BY <5>1, <5>2
      <4>2. k > 1 => Ends(c, k - 1) = a
        BY <2>2, <2>3, ChainIs
      <4>3. k = 1 => k - 1 = 0
        OBVIOUS
      <4> QED
        BY <4>1, <4>2, <4>3 DEF End
    <3> HIDE DEF a, b
    <3>3. d = SubSeq(M, 1, a)
      BY <2>2, <2>3, <3>2
    <3>4. e = SubSeq(M, a + 1, b)
      BY <2>1, <2>3 DEF a, b
    <3>5. SubSeq(M, 1, a) \o SubSeq(M, a + 1, b) = SubSeq(M, 1, b)
      <4>1. Len(M) \in Nat
        OBVIOUS
      <4>2. 1 \in 1 .. Len(M) + 1 /\ a \in 1 - 1 .. Len(M) /\ b \in a .. Len(M)
        BY <3>1, <4>1
      <4> QED
        BY <4>2, ConcatAdjacentSubSeq
    <3>6. d \o e = SubSeq(M, 1, End(k))
      BY <3>2, <3>3, <3>4, <3>5
    <3> QED
      BY <2>1, <2>2, <2>3, <3>6
  <2>4. CASE ~EvenChain(c)
    <3>1. d \in Seq(Cycles)
      BY <2>2, <2>4
    <3>2. d \o e \in Seq(Cycles)
      BY <3>1, ConcatProperties
    <3> QED
      BY <2>1, <2>2, <2>4, <3>2
  <2> QED
    BY <2>3, <2>4
<1>6. ASSUME NEW q \in Q
      PROVE  \E r \in Q : \E e \in Seq(Cycles) :
               Goes(FlattenSeq(s), q, e, r) /\ (EvenChain(c) => e = M)
  <2> HIDE DEF R
  <2>1. s = [k \in 1 .. n |-> s[k]] /\ Len(s) = n
    BY DEF n, BuffersMatch
  <2>2. \A p \in Q : \E r \in Q : \E e \in R[n] : Goes(FlattenSeq(s), p, e, r)
    BY <1>1, <1>4, <1>5, <2>1, FlattenDoes
  <2>3. PICK r \in Q, e \in R[n] : Goes(FlattenSeq(s), q, e, r)
    BY <2>2
  <2>4. e \in Seq(Cycles)
    BY <2>3, DoesTypes DEF Goes
  <2>5. EvenChain(c) => e = M
    <3>1. n \in 0 .. n
      BY <1>1
    <3> QED
      BY <1>3, <2>3, <3>1 DEF R
  <2> QED
    BY <2>3, <2>4, <2>5
<1> QED
  BY <1>6

\* The cycles of pair n of buffer j.
LEMMA PairIs ==
  ASSUME NEW c, Chain(c), EvenChain(c), NEW j \in DOMAIN c, NEW n \in 1 .. Pairs(c, j)
  PROVE  LET a == Start(c, j) + 2 * n - 1
             b == Start(c, j) + 2 * n
         IN  /\ a \in 1 .. FrameLen(c) /\ b \in 1 .. FrameLen(c)
             /\ (a - 1) % 2 = 0 /\ (b - 1) % 2 = 1
             /\ Offset(c, a) = First(c, j, n) /\ Offset(c, b) = Second(c, j, n)
<1> DEFINE x == Start(c, j)
           a == x + 2 * n - 1
           b == x + 2 * n
           t == Total(c)
           y == c[j]
<1>1. /\ x \in Nat /\ y \in Nat /\ t \in Nat /\ x <= y /\ y <= t
      /\ x % 2 = 0
      /\ y % 2 = 1 => y = t
  BY ChainIs
<1>2. n \in 1 .. (y - x + 1) \div 2
  BY DEF Pairs
<1>3. First(c, j, n) = x + 2 * n - 2
  BY DEF First
<1>4. Second(c, j, n) = IF (x + 2 * n - 2) + 1 < y THEN (x + 2 * n - 2) + 1 ELSE BehindEnd
  BY DEF Second, First
<1>5. /\ Offset(c, a) = IF a <= t THEN a - 1 ELSE BehindEnd
      /\ Offset(c, b) = IF b <= t THEN b - 1 ELSE BehindEnd
  BY DEF Offset
<1>6. FrameLen(c) = 2 * ((t + 1) \div 2)
  BY DEF FrameLen
<1> HIDE DEF x, t, y
<1>7. n \in Nat /\ 1 <= n /\ 2 * n <= y - x + 1
  BY <1>1, <1>2
<1>8. a \in Nat /\ b \in Nat /\ 1 <= a /\ 1 <= b /\ a <= y /\ a - 1 = x + 2 * n - 2
      /\ b - 1 = (x + 2 * n - 2) + 1
  BY <1>1, <1>7
<1>9. (a - 1) % 2 = 0 /\ (b - 1) % 2 = 1
  <2>1. \A p, q \in Nat : p % 2 = 0 /\ q >= 1 =>
          ((p + 2 * q - 1) - 1) % 2 = 0 /\ ((p + 2 * q) - 1) % 2 = 1
    OBVIOUS
  <2> QED
    BY <1>1, <1>7, <2>1
<1>10. b <= 2 * ((t + 1) \div 2)
  <2>1. b <= t + 1 /\ b % 2 = 0
    <3>1. \A p, q \in Nat : p % 2 = 0 => (p + 2 * q) % 2 = 0
      OBVIOUS
    <3> QED
      BY <1>1, <1>7, <3>1
  <2>2. \A p, q \in Nat : p % 2 = 0 /\ p <= q + 1 => p <= 2 * ((q + 1) \div 2)
    OBVIOUS
  <2> QED
    BY <1>1, <1>8, <2>1, <2>2
<1>11. Offset(c, a) = First(c, j, n)
  BY <1>1, <1>3, <1>5, <1>8
<1>12. b <= t <=> b - 1 < y
  <2>1. CASE b <= y
    BY <1>1, <1>8, <2>1
  <2>2. CASE ~(b <= y)
    <3>1. y = b - 1
      BY <1>1, <1>8, <2>2
    <3>2. y % 2 = 1
      BY <1>9, <3>1
    <3> QED
      BY <1>1, <1>8, <3>1, <3>2
  <2> QED
    BY <2>1, <2>2
<1>13. Offset(c, b) = Second(c, j, n)
  BY <1>4, <1>5, <1>8, <1>12
<1>14. a \in 1 .. FrameLen(c) /\ b \in 1 .. FrameLen(c)
  <2>1. FrameLen(c) \in Nat /\ b <= FrameLen(c) /\ a <= b
    BY <1>1, <1>6, <1>8, <1>10
  <2> QED
    BY <1>8, <2>1
<1> QED
  BY <1>9, <1>11, <1>13, <1>14 DEF x

\* The bytes of a frame go to the addresses 0 and 1.
LEMMA ByteBits == Bits(0) = {} /\ Bits(1) = {0}
<1>1. 0 \in Ports /\ 0 + 1 = 1
  BY DEF Ports, Port
<1>2. Bits(0) \in A4 /\ Bits(1) = Bits(0) \cup {0} /\ 0 \notin Bits(0)
  <2>1. Bits(0) \in A4 /\ Bits(0 + 1) = Bits(0) \cup {0} /\ Bits(0) = Bits(0 + 1) \ {0}
    BY <1>1, PortBits
  <2> QED
    BY <1>1, <2>1
<1>3. 2^1 = 2 /\ 2^2 = 4 /\ 2^3 = 8
  OBVIOUS
<1>4. 0 \div 2 = 0 /\ 0 \div 4 = 0 /\ 0 \div 8 = 0 /\ 0 % 2 # 1
  OBVIOUS
<1>5. 1 \notin Bits(0)
  BY <1>3, <1>4 DEF Bits
<1>6. 2 \notin Bits(0)
  BY <1>3, <1>4 DEF Bits
<1>7. 3 \notin Bits(0)
  BY <1>3, <1>4 DEF Bits
<1>8. \A k \in 0 .. 3 : k \in {0, 1, 2, 3}
  OBVIOUS
<1> QED
  BY <1>2, <1>5, <1>6, <1>7, <1>8 DEF A4

\* Between calls, and between the pairs of a frame that is written or read.
Calm == {<<Level(A, D), o>> : A \in A4, D \in D8, o \in BOOLEAN}
Framed(o) == {<<Level(A, D), o>> : A \in SUBSET {0}, D \in D8}

\* The states between calls and between pairs are states of the bus.
LEMMA CalmStates ==
  /\ Calm \in SUBSET States
  /\ \A o \in BOOLEAN : Framed(o) \in SUBSET States /\ Framed(o) \in SUBSET Calm
<1>1. SUBSET {0} \subseteq A4
  BY DEF A4
<1>2. Calm \in SUBSET States
  BY LevelIs DEF Calm, States
<1>3. \A o \in BOOLEAN : Framed(o) \in SUBSET Calm
  BY <1>1 DEF Framed, Calm
<1> QED
  BY <1>2, <1>3

\* Between pairs only address line 0 is not known.
LEMMA FramedIs ==
  ASSUME NEW o, NEW q \in Framed(o)
  PROVE  \E A \in SUBSET {0}, D \in D8 : q = <<Level(A, D), o>>
BY DEF Framed

\* The direction and the address before the bytes of a frame.
LEMMA FrameBegins ==
  ASSUME NEW q \in Calm, NEW o \in BOOLEAN
  PROVE  \E r \in Framed(o) : Goes(<<IODIR(o)>> \o Address(0), q, <<>>, r)
<1>1. PICK A \in A4, D \in D8, d \in BOOLEAN : q = <<Level(A, D), d>>
  BY DEF Calm
<1>2. Does(<<IODIR(o)>>, Level(A, D), d, <<>>, Level(A, D), o)
  BY LevelIs, DoesDirect
<1>3. Does(Address(0), Level(A, D), o, <<>>, Level({}, D), o)
  <2>1. Bits(0) \in A4 /\ Bits(0) = {}
    BY ByteBits DEF A4
  <2>2. Does(Address(0), Level(A, D), o, <<>>, Level(Bits(0), D), o)
    BY <2>1, AddressDoes
  <2> QED
    BY <2>1, <2>2
<1>4. Does(<<IODIR(o)>> \o Address(0), Level(A, D), d, <<>>, Level({}, D), o)
  BY <1>2, <1>3, DoesQuietly
<1>5. <<Level({}, D), o>> \in Framed(o)
  BY DEF Framed
<1> QED
  BY <1>1, <1>4, <1>5 DEF Goes

\* cs8900aWriteTxBuf, with the direction and the address lines left over.
LEMMA WritePairDoes ==
  ASSUME NEW q \in Framed(TRUE), NEW x, NEW y
  PROVE  \E r \in Framed(TRUE) :
           Goes(cs8900aWriteTxBuf(x, y), q,
                <<Cycle("write", {}, Bits(x)), Cycle("write", {0}, Bits(y))>>, r)
<1> DEFINE X == Bits(x)
           Y == Bits(y)
           w1 == Cycle("write", {}, X)
           w2 == Cycle("write", {0}, Y)
<1>1. PICK A \in SUBSET {0}, D \in D8 : q = <<Level(A, D), TRUE>>
  BY FramedIs
<1>2. /\ A \in A4 /\ {} \in A4 /\ {0} \in A4 /\ A \ {0} = {} /\ {} \cup {0} = {0}
      /\ X \in D8 /\ Y \in D8
  BY BitsIn DEF A4
<1> HIDE DEF X, Y
<1>3. Does(FirstByte, Level(A, D), TRUE, <<>>, Level({}, D), TRUE)
  BY <1>2, ByteDoes
<1>4. Does(Put(x), Level({}, D), TRUE, <<>>, Level({}, X), TRUE)
  BY <1>2, PutDoes DEF X
<1>5. Does(Strobe, Level({}, X), TRUE, <<w1>>, Level({}, X), TRUE)
  BY <1>2, StrobeDoes
<1>6. Does(NextByte, Level({}, X), TRUE, <<>>, Level({0}, X), TRUE)
  <2>1. Does(NextByte, Level({}, X), TRUE, <<>>, Level({} \cup {0}, X), TRUE)
    BY <1>2, ByteDoes
  <2> QED
    BY <1>2, <2>1
<1>7. Does(Put(y), Level({0}, X), TRUE, <<>>, Level({0}, Y), TRUE)
  BY <1>2, PutDoes DEF Y
<1>8. Does(Strobe, Level({0}, Y), TRUE, <<w2>>, Level({0}, Y), TRUE)
  BY <1>2, StrobeDoes
<1> HIDE DEF w1, w2
<1>9. Does(FirstByte \o Put(x), Level(A, D), TRUE, <<>>, Level({}, X), TRUE)
  BY <1>3, <1>4, DoesQuietly
<1>10. Does(FirstByte \o Put(x) \o Strobe, Level(A, D), TRUE, <<w1>>, Level({}, X), TRUE)
  BY <1>5, <1>9, DoesQuietly
<1>11. Does(FirstByte \o Put(x) \o Strobe \o NextByte, Level(A, D), TRUE, <<w1>>,
            Level({0}, X), TRUE)
  BY <1>6, <1>10, ThenQuietly
<1>12. Does(FirstByte \o Put(x) \o Strobe \o NextByte \o Put(y), Level(A, D), TRUE, <<w1>>,
            Level({0}, Y), TRUE)
  BY <1>7, <1>11, ThenQuietly
<1>13. Does(FirstByte \o Put(x) \o Strobe \o NextByte \o Put(y) \o Strobe, Level(A, D), TRUE,
            <<w1>> \o <<w2>>, Level({0}, Y), TRUE)
  BY <1>8, <1>12, DoesThen
<1>14. Does(cs8900aWriteTxBuf(x, y), Level(A, D), TRUE, <<w1, w2>>, Level({0}, Y), TRUE)
  BY <1>13, Couples DEF cs8900aWriteTxBuf
<1>15. <<Level({0}, Y), TRUE>> \in Framed(TRUE)
  BY <1>2 DEF Framed
<1> QED
  BY <1>1, <1>14, <1>15 DEF Goes, w1, w2, X, Y

\* cs8900aReadRxBuf, with the direction and the address lines left over.
LEMMA ReadPairDoes ==
  ASSUME NEW q \in Framed(FALSE), NEW x \in Int, NEW y \in Int
  PROVE  \E r \in Framed(FALSE) :
           Goes(cs8900aReadRxBuf(x, y), q,
                <<Cycle("read", {}, {x}), Cycle("read", {0}, {y})>>, r)
<1> DEFINE r1 == Cycle("read", {}, {x})
           r2 == Cycle("read", {0}, {y})
<1>1. PICK A \in SUBSET {0}, D \in D8 : q = <<Level(A, D), FALSE>>
  BY FramedIs
<1>2. A \in A4 /\ {} \in A4 /\ {0} \in A4 /\ A \ {0} = {} /\ {} \cup {0} = {0}
  BY DEF A4
<1>3. Does(FirstByte, Level(A, D), FALSE, <<>>, Level({}, D), FALSE)
  BY <1>2, ByteDoes
<1>4. Does(Get(x), Level({}, D), FALSE, <<r1>>, Level({}, D), FALSE)
  BY <1>2, GetDoes
<1>5. Does(NextByte, Level({}, D), FALSE, <<>>, Level({0}, D), FALSE)
  <2>1. Does(NextByte, Level({}, D), FALSE, <<>>, Level({} \cup {0}, D), FALSE)
    BY <1>2, ByteDoes
  <2> QED
    BY <1>2, <2>1
<1>6. Does(Get(y), Level({0}, D), FALSE, <<r2>>, Level({0}, D), FALSE)
  BY <1>2, GetDoes
<1> HIDE DEF r1, r2
<1>7. Does(FirstByte \o Get(x), Level(A, D), FALSE, <<r1>>, Level({}, D), FALSE)
  BY <1>3, <1>4, DoesQuietly
<1>8. Does(FirstByte \o Get(x) \o NextByte, Level(A, D), FALSE, <<r1>>, Level({0}, D), FALSE)
  BY <1>5, <1>7, ThenQuietly
<1>9. Does(FirstByte \o Get(x) \o NextByte \o Get(y), Level(A, D), FALSE, <<r1>> \o <<r2>>,
           Level({0}, D), FALSE)
  BY <1>6, <1>8, DoesThen
<1>10. Does(cs8900aReadRxBuf(x, y), Level(A, D), FALSE, <<r1, r2>>, Level({0}, D), FALSE)
  BY <1>9, Couples DEF cs8900aReadRxBuf
<1>11. <<Level({0}, D), FALSE>> \in Framed(FALSE)
  BY DEF Framed
<1> QED
  BY <1>1, <1>10, <1>11 DEF Goes, r1, r2

\* The cycles of a frame.
LEMMA FrameCyclesType ==
  ASSUME NEW c, Chain(c)
  PROVE  /\ FrameLen(c) \in Nat
         /\ WriteFrameCycles(c) \in Seq(Cycles) /\ Len(WriteFrameCycles(c)) = FrameLen(c)
         /\ ReadFrameCycles(c) \in Seq(Cycles) /\ Len(ReadFrameCycles(c)) = FrameLen(c)
<1>1. FrameLen(c) \in Nat
  <2>1. Total(c) \in Nat
    <3>1. CASE c = <<>>
      BY <3>1 DEF Total
    <3>2. CASE c # <<>>
      <4>1. Len(c) \in DOMAIN c
        BY <3>2 DEF Chain
      <4> QED
        BY <4>1, ChainIs
    <3> QED
      BY <3>1, <3>2
  <2> QED
    BY <2>1 DEF FrameLen
<1>2. FrameAccesses(c) = 1 .. FrameLen(c)
  BY DEF FrameAccesses, FrameLen
<1>3. ASSUME NEW k \in 1 .. FrameLen(c)
      PROVE  /\ Cycle("write", Bits((k - 1) % 2), Bits(FrameByte(Offset(c, k)))) \in Cycles
             /\ Cycle("read", Bits((k - 1) % 2), {Offset(c, k)}) \in Cycles
  <2>1. Offset(c, k) \in Int
    BY DEF Offset, BehindEnd
  <2>2. \A n : Bits(n) \in SUBSET (0 .. 7) /\ Bits(n) \in SUBSET Int
    BY DEF Bits
  <2> QED
    BY <2>1, <2>2 DEF Cycle, Cycles
<1> DEFINE n == FrameLen(c)
           W == [k \in 1 .. n |->
                   Cycle("write", Bits((k - 1) % 2), Bits(FrameByte(Offset(c, k))))]
           V == [k \in 1 .. n |-> Cycle("read", Bits((k - 1) % 2), {Offset(c, k)})]
<1>4. WriteFrameCycles(c) = W /\ ReadFrameCycles(c) = V
  BY <1>2 DEF WriteFrameCycles, ReadFrameCycles
<1>5. W \in [1 .. n -> Cycles] /\ V \in [1 .. n -> Cycles]
  BY <1>3
<1> HIDE DEF W, V, n
<1>6. \A f \in [1 .. n -> Cycles] : f \in Seq(Cycles) /\ Len(f) = n
  BY <1>1 DEF n
<1> QED
  BY <1>1, <1>4, <1>5, <1>6 DEF n

\* The bytes of one buffer, with the direction and the address before them.
LEMMA WriteBufferDoes ==
  ASSUME NEW c, Chain(c), NEW j \in DOMAIN c, NEW q \in Calm
  PROVE  \E r \in Calm : \E e \in Seq(Cycles) :
           /\ Goes(WriteBuffer(c, j), q, e, r)
           /\ EvenChain(c) => e = SubSeq(WriteFrameCycles(c), Start(c, j) + 1, Ends(c, j))
<1> DEFINE n == Pairs(c, j)
           M == WriteFrameCycles(c)
           X(k) == FrameByte(First(c, j, k))
           Y(k) == FrameByte(Second(c, j, k))
           s == [k \in 1 .. n |-> cs8900aWriteTxBuf(X(k), Y(k))]
           pre == <<IODIR(TRUE)>> \o Address(0)
<1>1. n \in Nat /\ M \in Seq(Cycles) /\ Len(M) = FrameLen(c)
  BY ChainIs, FrameCyclesType
<1>2. WriteBuffer(c, j) = pre \o FlattenSeq(s)
  BY DEF WriteBuffer, Port
<1>3. s = [k \in 1 .. n |-> s[k]] /\ Len(s) = n
  BY <1>1
<1>4. ASSUME NEW k \in 1 .. n, NEW t \in Framed(TRUE)
      PROVE  \E r \in Framed(TRUE) : \E e \in Seq(Cycles) :
               Goes(s[k], t, e, r) /\ PairMatches(c, M, j, k, e)
  <2> DEFINE w == <<Cycle("write", {}, Bits(X(k))), Cycle("write", {0}, Bits(Y(k)))>>
  <2>1. PICK r \in Framed(TRUE) : Goes(cs8900aWriteTxBuf(X(k), Y(k)), t, w, r)
    BY WritePairDoes
  <2>2. s[k] = cs8900aWriteTxBuf(X(k), Y(k))
    OBVIOUS
  <2>3. w \in Seq(Cycles)
    BY <2>1, DoesTypes DEF Goes
  <2>4. ASSUME EvenChain(c)
        PROVE  w = <<M[Start(c, j) + 2 * k - 1], M[Start(c, j) + 2 * k]>>
    <3> DEFINE a == Start(c, j) + 2 * k - 1
               b == Start(c, j) + 2 * k
    <3>1. /\ a \in 1 .. FrameLen(c) /\ b \in 1 .. FrameLen(c)
          /\ (a - 1) % 2 = 0 /\ (b - 1) % 2 = 1
          /\ Offset(c, a) = First(c, j, k) /\ Offset(c, b) = Second(c, j, k)
      BY <2>4, PairIs
    <3> HIDE DEF a, b
    <3>2. /\ M[a] = Cycle("write", Bits((a - 1) % 2), Bits(FrameByte(Offset(c, a))))
          /\ M[b] = Cycle("write", Bits((b - 1) % 2), Bits(FrameByte(Offset(c, b))))
      BY <3>1 DEF WriteFrameCycles, FrameAccesses, FrameLen
    <3>3. w = <<M[a], M[b]>>
      BY <3>1, <3>2, ByteBits
    <3> QED
      BY <3>3 DEF a, b
  <2> HIDE DEF w, s, X, Y, M
  <2>5. PairMatches(c, M, j, k, w)
    BY <2>4 DEF PairMatches
  <2> QED
    BY <2>1, <2>2, <2>3, <2>5
<1> HIDE DEF s, M, n
<1>5. \A t \in Framed(TRUE) : \E r \in Framed(TRUE) : \E e \in Seq(Cycles) :
        /\ Goes(FlattenSeq(s), t, e, r)
        /\ EvenChain(c) => e = SubSeq(M, Start(c, j) + 1, Ends(c, j))
  <2>1. Framed(TRUE) \in SUBSET States
    BY CalmStates
  <2> QED
    BY <1>1, <1>3, <1>4, <2>1, BufferDoes DEF n
<1> HIDE DEF pre
<1>6. PICK t \in Framed(TRUE) : Goes(pre, q, <<>>, t)
  BY FrameBegins DEF pre
<1>7. PICK r \in Framed(TRUE), e \in Seq(Cycles) :
        /\ Goes(FlattenSeq(s), t, e, r)
        /\ EvenChain(c) => e = SubSeq(M, Start(c, j) + 1, Ends(c, j))
  BY <1>5
<1>8. Goes(pre \o FlattenSeq(s), q, e, r)
  BY <1>6, <1>7, DoesQuietly DEF Goes
<1>9. r \in Calm
  BY CalmStates
<1> QED
  BY <1>2, <1>7, <1>8, <1>9 DEF M

\* The chip sees a frame that is sent.
LEMMA WriteFrameDoes ==
  ASSUME NEW c, Chain(c), NEW q \in Calm
  PROVE  \E r \in Calm : \E e \in Seq(Cycles) :
           Goes(WriteFrame(c), q, e, r) /\ (EvenChain(c) => e = WriteFrameCycles(c))
<1> DEFINE M == WriteFrameCycles(c)
           s == [k \in 1 .. Len(c) |-> WriteBuffer(c, k)]
<1>1. M \in Seq(Cycles) /\ Len(M) = FrameLen(c) /\ Len(c) \in Nat /\ DOMAIN c = 1 .. Len(c)
  BY FrameCyclesType DEF Chain
<1>2. s = [k \in 1 .. Len(c) |-> s[k]] /\ Len(s) = Len(c)
  BY <1>1
<1>3. WriteFrame(c) = FlattenSeq(s)
  BY <1>1 DEF WriteFrame
<1>4. ASSUME NEW k \in 1 .. Len(c), NEW t \in Calm
      PROVE  \E r \in Calm : \E e \in Seq(Cycles) :
               /\ Goes(s[k], t, e, r)
               /\ EvenChain(c) => e = SubSeq(M, Start(c, k) + 1, Ends(c, k))
  <2>1. k \in DOMAIN c /\ s[k] = WriteBuffer(c, k)
    BY <1>1
  <2> QED
    BY <2>1, WriteBufferDoes
<1> HIDE DEF s, M
<1>5. BuffersMatch(c, M, Calm, s)
  BY <1>2, <1>4 DEF BuffersMatch
<1>6. \A t \in Calm : \E r \in Calm : \E e \in Seq(Cycles) :
        Goes(FlattenSeq(s), t, e, r) /\ (EvenChain(c) => e = M)
  <2>1. Calm \in SUBSET States
    BY CalmStates
  <2> HIDE DEF Calm
  <2> QED
    BY <1>1, <1>5, <2>1, ChainDoes
<1> QED
  BY <1>3, <1>6 DEF M

\* And the processor one that is received.
LEMMA ReadFrameDoes ==
  ASSUME NEW c, Chain(c), NEW q \in Calm
  PROVE  \E r \in Calm : \E e \in Seq(Cycles) :
           Goes(ReadFrameBytes(c), q, e, r) /\ (EvenChain(c) => e = ReadFrameCycles(c))
<1> DEFINE M == ReadFrameCycles(c)
           P(j) == [k \in 1 .. Pairs(c, j) |->
                      cs8900aReadRxBuf(First(c, j, k), Second(c, j, k))]
           s == [j \in 1 .. Len(c) |-> FlattenSeq(P(j))]
           pre == <<IODIR(FALSE)>> \o Address(0)
           Q == Framed(FALSE)
<1>1. M \in Seq(Cycles) /\ Len(M) = FrameLen(c) /\ Len(c) \in Nat /\ DOMAIN c = 1 .. Len(c)
  BY FrameCyclesType DEF Chain
<1>2. s = [k \in 1 .. Len(c) |-> s[k]] /\ Len(s) = Len(c)
  BY <1>1
<1>3. ReadFrameBytes(c) = pre \o FlattenSeq(s)
  BY <1>1 DEF ReadFrameBytes, Port
<1>4. Q \in SUBSET States /\ Q \in SUBSET Calm
  BY CalmStates
<1>5. ASSUME NEW j \in 1 .. Len(c)
      PROVE  \A t \in Q : \E r \in Q : \E e \in Seq(Cycles) :
               /\ Goes(FlattenSeq(P(j)), t, e, r)
               /\ EvenChain(c) => e = SubSeq(M, Start(c, j) + 1, Ends(c, j))
  <2> DEFINE p == P(j)
  <2>1. j \in DOMAIN c
    BY <1>1
  <2>2. Pairs(c, j) \in Nat /\ Start(c, j) \in Nat
    BY <2>1, ChainIs
  <2>3. p = [k \in 1 .. Pairs(c, j) |-> p[k]] /\ Len(p) = Pairs(c, j)
    BY <2>2
  <2>4. ASSUME NEW k \in 1 .. Pairs(c, j), NEW t \in Q
        PROVE  \E r \in Q : \E e \in Seq(Cycles) :
                 Goes(p[k], t, e, r) /\ PairMatches(c, M, j, k, e)
    <3> DEFINE x == First(c, j, k)
               y == Second(c, j, k)
               w == <<Cycle("read", {}, {x}), Cycle("read", {0}, {y})>>
    <3>1. x \in Int /\ y \in Int
      BY <2>2 DEF First, Second, BehindEnd
    <3>2. PICK r \in Q : Goes(cs8900aReadRxBuf(x, y), t, w, r)
      BY <3>1, ReadPairDoes
    <3>3. p[k] = cs8900aReadRxBuf(x, y)
      OBVIOUS
    <3>4. w \in Seq(Cycles)
      BY <3>2, DoesTypes DEF Goes
    <3>5. ASSUME EvenChain(c)
          PROVE  w = <<M[Start(c, j) + 2 * k - 1], M[Start(c, j) + 2 * k]>>
      <4> DEFINE a == Start(c, j) + 2 * k - 1
                 b == Start(c, j) + 2 * k
      <4>1. /\ a \in 1 .. FrameLen(c) /\ b \in 1 .. FrameLen(c)
            /\ (a - 1) % 2 = 0 /\ (b - 1) % 2 = 1
            /\ Offset(c, a) = x /\ Offset(c, b) = y
        BY <2>1, <3>5, PairIs
      <4> HIDE DEF a, b
      <4>2. /\ M[a] = Cycle("read", Bits((a - 1) % 2), {Offset(c, a)})
            /\ M[b] = Cycle("read", Bits((b - 1) % 2), {Offset(c, b)})
        BY <4>1 DEF ReadFrameCycles, FrameAccesses, FrameLen
      <4>3. w = <<M[a], M[b]>>
        BY <4>1, <4>2, ByteBits
      <4> QED
        BY <4>3 DEF a, b
    <3> HIDE DEF w, p, x, y, M
    <3>6. PairMatches(c, M, j, k, w)
      BY <3>5 DEF PairMatches
    <3> QED
      BY <3>2, <3>3, <3>4, <3>6
  <2> HIDE DEF p, M, Q
  <2>5. \A t \in Q : \E r \in Q : \E e \in Seq(Cycles) :
          /\ Goes(FlattenSeq(p), t, e, r)
          /\ EvenChain(c) => e = SubSeq(M, Start(c, j) + 1, Ends(c, j))
    BY <1>1, <1>4, <2>1, <2>3, <2>4, BufferDoes
  <2> QED
    BY <2>5 DEF p
<1>6. \A k \in 1 .. Len(c) : s[k] = FlattenSeq(P(k))
  OBVIOUS
<1> HIDE DEF s, M, P, Q
<1>7. BuffersMatch(c, M, Q, s)
  BY <1>2, <1>5, <1>6 DEF BuffersMatch
<1>8. \A t \in Q : \E r \in Q : \E e \in Seq(Cycles) :
        Goes(FlattenSeq(s), t, e, r) /\ (EvenChain(c) => e = M)
  <2>1. Q \in SUBSET States
    BY <1>4
  <2> QED
    BY <1>1, <1>7, <2>1, ChainDoes
<1> HIDE DEF pre
<1>9. PICK t \in Q : Goes(pre, q, <<>>, t)
  BY FrameBegins DEF pre, Q
<1>10. PICK r \in Q, e \in Seq(Cycles) :
         Goes(FlattenSeq(s), t, e, r) /\ (EvenChain(c) => e = M)
  BY <1>8
<1>11. Goes(pre \o FlattenSeq(s), q, e, r)
  BY <1>9, <1>10, DoesQuietly DEF Goes
<1>12. r \in Calm
  BY <1>4
<1> QED
  BY <1>3, <1>10, <1>11, <1>12 DEF M

-----------------------------------------------------------------------------
(* Calls, from any state between calls.                                      *)

Matches(call) == \A q \in Calm : \E r \in Calm : Goes(call.ops, q, call.cycles, r)

\* The same unless a buffer of odd length is in the way; in any case there are
\* some cycles.
MatchesFor(c, call) ==
  \A q \in Calm : \E r \in Calm : \E e \in Seq(Cycles) :
    Goes(call.ops, q, e, r) /\ (~Shifted(c, call.cycles) => e = call.cycles)

\* What always matches does so for any buffers.
LEMMA MatchesAny ==
  ASSUME NEW call, Matches(call), NEW c
  PROVE  MatchesFor(c, call)
<1> SUFFICES ASSUME NEW q \in Calm
             PROVE  \E r \in Calm : \E e \in Seq(Cycles) :
                      Goes(call.ops, q, e, r) /\ (~Shifted(c, call.cycles) => e = call.cycles)
  BY DEF MatchesFor
<1>1. PICK r \in Calm : Goes(call.ops, q, call.cycles, r)
  BY DEF Matches
<1>2. call.cycles \in Seq(Cycles)
  BY <1>1, DoesTypes DEF Goes
<1> QED
  BY <1>1, <1>2

\* The lines of an address and a byte, in any direction, are calm.
LEMMA CalmHas ==
  ASSUME NEW A \in A4, NEW D \in D8, NEW o \in BOOLEAN
  PROVE  <<Level(A, D), o>> \in Calm
BY DEF Calm

\* The accesses of words match.
LEMMA WordsMatch ==
  /\ \A n \in Ports : \A x : Matches(Write(n, x))
  /\ \A n \in Ports : Matches(Read(n)) /\ Matches(ReadHighFirst(n))
<1> SUFFICES ASSUME NEW n \in Ports, NEW q \in Calm
             PROVE  /\ \A x : \E r \in Calm :
                         Goes(Write(n, x).ops, q, Write(n, x).cycles, r)
                    /\ \E r \in Calm : Goes(Read(n).ops, q, Read(n).cycles, r)
                    /\ \E r \in Calm : Goes(ReadHighFirst(n).ops, q, ReadHighFirst(n).cycles, r)
  BY DEF Matches
<1>1. PICK A \in A4, D \in D8, o \in BOOLEAN : q = <<Level(A, D), o>>
  BY DEF Calm
<1>2. Bits(n) \in A4 /\ Bits(n + 1) \in A4
  BY PortBits
<1>3. ASSUME NEW x
      PROVE  \E r \in Calm : Goes(Write(n, x).ops, q, Write(n, x).cycles, r)
  <2>1. Does(cs8900aWrite(n, x), Level(A, D), o, WriteCycles(n, x),
             Level(Bits(n + 1), Bits(High(x))), TRUE)
    BY WriteDoes
  <2>2. <<Level(Bits(n + 1), Bits(High(x))), TRUE>> \in Calm
    BY <1>2, BitsIn, CalmHas
  <2> QED
    BY <1>1, <2>1, <2>2 DEF Goes, Write, Call
<1>4. \E r \in Calm : Goes(Read(n).ops, q, Read(n).cycles, r)
  <2>1. Does(cs8900aRead(n), Level(A, D), o, ReadCycles(n), Level(Bits(n + 1), D), FALSE)
    BY ReadDoes
  <2>2. <<Level(Bits(n + 1), D), FALSE>> \in Calm
    BY <1>2, CalmHas
  <2> QED
    BY <1>1, <2>1, <2>2 DEF Goes, Read, Call
<1>5. \E r \in Calm : Goes(ReadHighFirst(n).ops, q, ReadHighFirst(n).cycles, r)
  <2>1. Does(cs8900aReadAddrHighFirst(n), Level(A, D), o, Reverse(ReadCycles(n)),
             Level(Bits(n), D), FALSE)
    BY ReadHighFirstDoes
  <2>2. <<Level(Bits(n), D), FALSE>> \in Calm
    BY <1>2, CalmHas
  <2> QED
    BY <1>1, <2>1, <2>2 DEF Goes, ReadHighFirst, Call
<1> QED
  BY <1>3, <1>4, <1>5

\* Two calls behind one another match if each does.
LEMMA ThenMatches ==
  ASSUME NEW a, NEW b, Matches(a), Matches(b)
  PROVE  Matches(Then(a, b))
<1>1. Then(a, b).ops = a.ops \o b.ops /\ Then(a, b).cycles = a.cycles \o b.cycles
  BY DEF Then, Call
<1>2. ASSUME NEW q \in Calm
      PROVE  \E r \in Calm : Goes(a.ops \o b.ops, q, a.cycles \o b.cycles, r)
  <2>1. PICK t \in Calm : Goes(a.ops, q, a.cycles, t)
    BY DEF Matches
  <2>2. PICK r \in Calm : Goes(b.ops, t, b.cycles, r)
    BY DEF Matches
  <2>3. Goes(a.ops \o b.ops, q, a.cycles \o b.cycles, r)
    BY <2>1, <2>2, DoesThen DEF Goes
  <2> QED
    BY <2>3
<1> QED
  BY <1>1, <1>2 DEF Matches

\* So does a step that accesses nothing.
LEMMA NoCallMatches == Matches(NoCall)
<1>1. ASSUME NEW q \in Calm
      PROVE  Goes(<<>>, q, <<>>, q)
  <2>1. q[1] \in SUBSET Lines /\ q[2] \in BOOLEAN
    BY CalmStates DEF States
  <2> QED
    BY <2>1, DoesNothing DEF Goes
<1>2. NoCall.ops = <<>> /\ NoCall.cycles = <<>>
  BY DEF NoCall, Call
<1> QED
  BY <1>1, <1>2 DEF Matches

\* The ports that the driver accesses.
LEMMA PortsAre ==
  /\ Port.RX_FRAME \in Ports /\ Port.TX_CMD \in Ports /\ Port.TX_LEN \in Ports
  /\ Port.ADD \in Ports /\ Port.DATA \in Ports
BY DEF Ports

\* The strobes stay high when they become outputs.
LEMMA ResetMatches ==
  Matches(Then(Call(<<IOSET({IOR, IOW}), IODIR(TRUE), IOCLR(DataLines)>>, <<>>),
               SetRegister(PP.SelfCTL, POWER_ON_RESET)))
<1> DEFINE call == Call(<<IOSET({IOR, IOW}), IODIR(TRUE), IOCLR(DataLines)>>, <<>>)
           p == IOSET({IOR, IOW})
<1>1. call.ops = (<<p>> \o <<IODIR(TRUE)>>) \o <<IOCLR(DataLines)>> /\ call.cycles = <<>>
  <2>1. call.ops = <<p, IODIR(TRUE), IOCLR(DataLines)>> /\ call.cycles = <<>>
    BY DEF Call
  <2> DEFINE v == IODIR(TRUE)
             w == IOCLR(DataLines)
  <2> HIDE DEF p, v, w
  <2>2. <<p>> \o <<v>> = <<p, v>>
    BY Couples
  <2>3. <<p, v>> \o <<w>> = <<p, v, w>>
    BY Couples
  <2> QED
    BY <2>1, <2>2, <2>3 DEF v, w
<1>2. ASSUME NEW q \in Calm
      PROVE  \E r \in Calm : Goes(call.ops, q, <<>>, r)
  <2>1. PICK A \in A4, D \in D8, o \in BOOLEAN : q = <<Level(A, D), o>>
    BY DEF Calm
  <2> DEFINE h == Level(A, D)
  <2>2. h \in SUBSET Lines /\ IOR \in h /\ IOW \in h
    BY LevelIs
  <2>3. Does(<<p>>, h, o, <<>>, h, o)
    <3>1. p \in Pin /\ p.op = "set" /\ p.lines = {IOR, IOW}
      BY DEF IOSET, Pin, Lines
    <3> HIDE DEF h, p
    <3>2. CyclesOf(p, h, o) = <<>> /\ HighAfter(p, h) = h /\ OutputAfter(p, o) = o
      BY <2>2, <3>1 DEF CyclesOf, HighAfter, OutputAfter
    <3>3. Does(<<p>>, h, o, CyclesOf(p, h, o), HighAfter(p, h), OutputAfter(p, o))
      BY <2>2, <3>1, DoesOne
    <3> QED
      BY <3>2, <3>3
  <2>4. Does(<<IODIR(TRUE)>>, h, o, <<>>, h, TRUE)
    BY <2>2, DoesDirect
  <2>5. Does(<<IOCLR(DataLines)>>, h, TRUE, <<>>, Level(A, {}), TRUE)
    <3>1. DataLines \in SUBSET Lines /\ IOW \notin DataLines
      BY LinesDiffer DEF DataLines, Lines
    <3>2. Does(<<IOCLR(DataLines)>>, h, TRUE, <<>>, h \ DataLines, TRUE)
      BY <2>2, <3>1, DoesSet
    <3>3. h \ DataLines = Level(A, {})
      <4>1. SD(D) \subseteq DataLines /\ SD({}) = {}
        BY DEF SD, DataLines, D8
      <4>2. SA(A) \cap DataLines = {} /\ IOR \notin DataLines /\ IOW \notin DataLines
        BY LinesDiffer DEF DataLines
      <4> QED
        BY <4>1, <4>2 DEF Level
    <3> QED
      BY <3>2, <3>3
  <2> HIDE DEF h, p
  <2>6. Does(<<p>> \o <<IODIR(TRUE)>>, h, o, <<>>, h, TRUE)
    BY <2>3, <2>4, DoesQuietly
  <2>7. Does((<<p>> \o <<IODIR(TRUE)>>) \o <<IOCLR(DataLines)>>, h, o, <<>>, Level(A, {}), TRUE)
    BY <2>5, <2>6, DoesQuietly
  <2>8. <<Level(A, {}), TRUE>> \in Calm
    <3>1. {} \in D8
      BY DEF D8
    <3> QED
      BY <3>1, CalmHas
  <2> HIDE DEF call
  <2> QED
    BY <1>1, <2>1, <2>7, <2>8 DEF Goes, h
<1>3. Matches(call)
  BY <1>1, <1>2 DEF Matches
<1>4. Matches(SetRegister(PP.SelfCTL, POWER_ON_RESET))
  BY WordsMatch, ThenMatches, PortsAre DEF SetRegister
<1> HIDE DEF call
<1>5. Matches(Then(call, SetRegister(PP.SelfCTL, POWER_ON_RESET)))
  BY <1>3, <1>4, ThenMatches
<1> QED
  BY <1>5 DEF call

\* What a thread does when it runs, for a frame in the buffers of c.
LEMMA PollMatches ==
  ASSUME NEW c, Chain(c),
         poll \in {"sleep", "select", "check", "alloc", "read", "input",
                   "skip1", "skip2", "skip3"}
  PROVE  MatchesFor(c, PollCall(c))
<1>1. CASE poll = "select"
  BY <1>1, WordsMatch, PortsAre, MatchesAny DEF PollCall
<1>2. CASE poll \in {"check", "skip2"}
  BY <1>2, WordsMatch, PortsAre, MatchesAny DEF PollCall
<1>3. CASE poll = "alloc"
  <2>1. Matches(Then(ReadHighFirst(Port.RX_FRAME), ReadHighFirst(Port.RX_FRAME)))
    BY WordsMatch, PortsAre, ThenMatches
  <2> QED
    BY <1>3, <2>1, MatchesAny DEF PollCall
<1>4. CASE poll = "read"
  <2>1. /\ PollCall(c).ops = ReadFrameBytes(c)
        /\ PollCall(c).cycles = ReadFrameCycles(c)
    BY <1>4 DEF PollCall, Call
  <2> QED
    BY <2>1, ReadFrameDoes DEF MatchesFor, Shifted
<1>5. CASE poll = "skip1"
  BY <1>5, WordsMatch, PortsAre, MatchesAny DEF PollCall
<1>6. CASE poll = "skip3"
  BY <1>6, WordsMatch, PortsAre, MatchesAny DEF PollCall
<1>7. CASE poll \in {"sleep", "input"}
  BY <1>7, NoCallMatches, MatchesAny DEF PollCall
<1> QED
  BY <1>1, <1>2, <1>3, <1>4, <1>5, <1>6, <1>7

\* The same for lowLevelOutput.
LEMMA SendMatches ==
  ASSUME NEW c, Chain(c),
         send \in {"idle", "select", "check", "copy", "skip1", "skip2", "skip3"}
  PROVE  MatchesFor(c, SendCall(c))
<1>1. CASE send = "idle"
  <2>1. Matches(Then(Write(Port.TX_CMD, TX_START_ALL_BYTES), Write(Port.TX_LEN, Total(c))))
    BY WordsMatch, PortsAre, ThenMatches
  <2> QED
    BY <1>1, <2>1, MatchesAny DEF SendCall
<1>2. CASE send = "select"
  BY <1>2, WordsMatch, PortsAre, MatchesAny DEF SendCall
<1>3. CASE send \in {"check", "skip2"}
  BY <1>3, WordsMatch, PortsAre, MatchesAny DEF SendCall
<1>4. CASE send = "skip1"
  BY <1>4, WordsMatch, PortsAre, MatchesAny DEF SendCall
<1>5. CASE send = "skip3"
  BY <1>5, WordsMatch, PortsAre, MatchesAny DEF SendCall
<1>6. CASE send = "copy"
  <2>1. SendCall(c).ops = WriteFrame(c) /\ SendCall(c).cycles = WriteFrameCycles(c)
    BY <1>6 DEF SendCall, Call
  <2> QED
    BY <2>1, WriteFrameDoes DEF MatchesFor, Shifted
<1> QED
  BY <1>1, <1>2, <1>3, <1>4, <1>5, <1>6

-----------------------------------------------------------------------------
(* The invariant of the bus.                                                 *)

\* The writes that are left cause cycles that, behind those that the chip has
\* seen, are the ones of the call, and leave the bus as a call finds it.
Left(e, r) ==
  /\ Goes(todo, <<high, output>>, e, r)
  /\ ~Shifted(chain, meant) => seen \o e = meant

BusInv ==
  /\ seen \in Seq(Cycles)
  /\ out \in Chains \cup {<<>>} /\ chain \in Chains \cup {<<>>}
  /\ resetting \in BOOLEAN
  /\ \E r \in Calm : \E e \in Seq(Cycles) : Left(e, r)

\* A sequence is a prefix of what begins with it.
LEMMA PrefixIs ==
  ASSUME NEW a \in Seq(Cycles), NEW b \in Seq(Cycles)
  PROVE  IsPrefix(a, a \o b)
<1> DEFINE t == a \o b
           n == Len(a)
<1>1. /\ t \in Seq(Cycles) /\ Len(t) = n + Len(b) /\ n \in Nat /\ Len(b) \in Nat
      /\ \A k \in 1 .. n : t[k] = a[k]
  BY ConcatProperties
<1> HIDE DEF t, n
<1>2. SubSeq(a, 1, n) = a
  BY SubSeqFull DEF n
<1>3. SubSeq(t, 1, n) = a
  <2>1. \A k \in 1 .. n : t[k] \in Cycles
    BY <1>1
  <2>2. /\ SubSeq(t, 1, n) \in Seq(Cycles)
        /\ Len(SubSeq(t, 1, n)) = n
        /\ \A k \in 1 .. n : SubSeq(t, 1, n)[k] = t[k]
    BY <1>1, <2>1, SubSeqProperties
  <2> QED
    BY <1>1, <2>2, SeqEqual DEF n
<1>4. n <= Len(t)
  BY <1>1
<1> QED
  BY <1>2, <1>3, <1>4 DEF IsPrefix, t, n

\* The chains of the driver, and none, are chains.
LEMMA ChainsAre == \A c \in Chains \cup {<<>>} : Chain(c)
<1>1. Chain(<<>>)
  BY DEF Chain
<1>2. \A c \in Chains : Chain(c)
  BY DriverAssumption DEF Chain
<1> QED
  BY <1>1, <1>2

\* Before the start the strobes are high and nothing is left to do.
LEMMA BusInitInv == DriverInit => BusInv
<1> SUFFICES ASSUME DriverInit
             PROVE  BusInv
  OBVIOUS
<1>1. high = Level({}, {}) /\ output = FALSE
  BY DEF DriverInit, BusInit, Level, SA, SD
<1>2. {} \in A4 /\ {} \in D8
  BY DEF A4, D8
<1>3. <<high, output>> \in Calm
  <2>1. <<Level({}, {}), output>> \in Calm
    BY <1>1, <1>2, CalmHas
  <2> QED
    BY <1>1, <2>1
<1>4. Does(<<>>, high, output, <<>>, high, output)
  BY <1>1, <1>2, LevelIs, DoesNothing
<1>5. <<>> \in Seq(Cycles) /\ <<>> \o <<>> = <<>>
  BY ConcatEmptySeq
<1>6. Left(<<>>, <<high, output>>)
  BY <1>4, <1>5 DEF Left, Goes, DriverInit, BusInit
<1> QED
  BY <1>3, <1>5, <1>6 DEF BusInv, DriverInit, BusInit

\* A call begins.
LEMMA BeginKeeps ==
  ASSUME BusInv, NEW call, Begin(call), MatchesFor(chain', call),
         out' \in Chains \cup {<<>>}, chain' \in Chains \cup {<<>>}, resetting' \in BOOLEAN
  PROVE  BusInv'
<1>1. /\ todo = <<>> /\ todo' = call.ops /\ meant' = call.cycles /\ seen' = <<>>
      /\ high' = high /\ output' = output
  BY DEF Begin
<1>2. PICK r \in Calm, e \in Seq(Cycles) : Left(e, r)
  BY DEF BusInv
<1>3. <<high, output>> \in Calm
  <2>1. r[1] = high /\ r[2] = output
    BY <1>1, <1>2, DoesEnd DEF Left, Goes
  <2>2. PICK A \in A4, D \in D8, o \in BOOLEAN : r = <<Level(A, D), o>>
    BY DEF Calm
  <2>3. r = <<high, output>>
    BY <2>1, <2>2
  <2> QED
    BY <2>3
<1>4. PICK s \in Calm, v \in Seq(Cycles) :
        Goes(call.ops, <<high, output>>, v, s) /\ (~Shifted(chain', call.cycles) => v = call.cycles)
  BY <1>3 DEF MatchesFor
<1>5. <<>> \in Seq(Cycles) /\ <<>> \o v = v
  BY ConcatEmptySeq
<1>6. Left(v, s)'
  BY <1>1, <1>4, <1>5 DEF Left, Shifted, EvenChain, WriteFrameCycles, ReadFrameCycles
<1> QED
  BY <1>1, <1>5, <1>6 DEF BusInv

\* A pin changes.
LEMMA PinKeeps ==
  ASSUME BusInv, Pins
  PROVE  BusInv'
<1> DEFINE p == Head(todo)
           x == CyclesOf(p, high, output)
<1>1. PICK r \in Calm, e \in Seq(Cycles) : Left(e, r)
  BY DEF BusInv
<1>2. todo # <<>> /\ todo' = Tail(todo)
  BY DEF Pins, PinStep, SetLines, ClearLines, Direct, GetByte, Op
<1>3. /\ high \in SUBSET Lines /\ output \in BOOLEAN
      /\ Does(todo, high, output, e, r[1], r[2])
  BY <1>1, DoesTypes DEF Left, Goes
<1>4. /\ p \in Pin
      /\ \E v \in Seq(Cycles) :
           /\ e = x \o v
           /\ Does(Tail(todo), HighAfter(p, high), OutputAfter(p, output), v, r[1], r[2])
  BY <1>2, <1>3, DoesNext
<1>5. PICK v \in Seq(Cycles) :
        /\ e = x \o v
        /\ Does(Tail(todo), HighAfter(p, high), OutputAfter(p, output), v, r[1], r[2])
  BY <1>4
<1>6. x \in Seq(Cycles)
  BY <1>3, <1>4, PinTypes
<1>7. seen \in Seq(Cycles) /\ seen \o <<>> = seen
  BY ConcatEmptySeq DEF BusInv
<1>8. \A y \in Cycles : <<y>> = x => Append(seen, y) = seen \o x
  BY <1>6, <1>7, AppendIsConcat
<1>9. Driven("SA") = LinesIn("SA", high) /\ Driven("SD") = LinesIn("SD", high)
  BY DEF Driven, LinesIn
<1>10. /\ high' = HighAfter(p, high) /\ output' = OutputAfter(p, output)
       /\ seen' = seen \o x /\ meant' = meant
  <2>1. CASE SetLines
    <3>1. p.op = "set" /\ high' = high \cup p.lines /\ UNCHANGED <<output, meant>>
      BY <2>1 DEF SetLines, Op
    <3>2. /\ IOW \in p.lines \ high => seen' = Append(seen, SetCycle(high, output))
          /\ IOW \notin p.lines \ high => seen' = seen
      BY <1>9, <2>1 DEF SetLines, SetCycle
    <3> HIDE DEF p
    <3>3. HighAfter(p, high) = high \cup p.lines /\ OutputAfter(p, output) = output
      BY <3>1 DEF HighAfter, OutputAfter
    <3>4. CASE IOW \in p.lines \ high
      <4>1. x = <<SetCycle(high, output)>>
        BY <3>1, <3>4 DEF CyclesOf
      <4>2. SetCycle(high, output) \in Cycles
        BY <1>3 DEF SetCycle, Cycle, Cycles, LinesIn
      <4> QED
        BY <1>8, <3>1, <3>2, <3>3, <3>4, <4>1, <4>2
    <3>5. CASE IOW \notin p.lines \ high
      <4>1. x = <<>>
        BY <3>1, <3>5 DEF CyclesOf
      <4> QED
        BY <1>7, <3>1, <3>2, <3>3, <3>5, <4>1
    <3> QED
      BY <3>4, <3>5
  <2>2. CASE ClearLines
    <3>1. p.op = "clear" /\ high' = high \ p.lines /\ UNCHANGED <<output, seen, meant>>
      BY <2>2 DEF ClearLines, Op
    <3> HIDE DEF p
    <3>2. HighAfter(p, high) = high \ p.lines /\ OutputAfter(p, output) = output /\ x = <<>>
      BY <3>1 DEF HighAfter, OutputAfter, CyclesOf
    <3> QED
      BY <1>7, <3>1, <3>2
  <2>3. CASE Direct
    <3>1. p.op = "direction" /\ output' = p.output /\ UNCHANGED <<high, seen, meant>>
      BY <2>3 DEF Direct, Op
    <3> HIDE DEF p
    <3>2. HighAfter(p, high) = high /\ OutputAfter(p, output) = p.output /\ x = <<>>
      BY <3>1 DEF HighAfter, OutputAfter, CyclesOf
    <3> QED
      BY <1>7, <3>1, <3>2
  <2>4. CASE GetByte
    <3>1. /\ p.op = "get" /\ UNCHANGED <<high, output, meant>>
          /\ seen' = Append(seen, GetCycle(p, high, output))
      BY <1>9, <2>4 DEF GetByte, Op, GetCycle
    <3>2. p.to \in Int
      BY <1>4, <3>1 DEF Pin
    <3> HIDE DEF p
    <3>3. HighAfter(p, high) = high /\ OutputAfter(p, output) = output
          /\ x = <<GetCycle(p, high, output)>>
      BY <3>1 DEF HighAfter, OutputAfter, CyclesOf
    <3>4. GetCycle(p, high, output) \in Cycles
      BY <1>3, <3>2 DEF GetCycle, Cycle, Cycles, LinesIn
    <3> QED
      BY <1>8, <3>1, <3>3, <3>4
  <2> QED
    BY <2>1, <2>2, <2>3, <2>4 DEF Pins, PinStep
<1>11. UNCHANGED <<out, chain, resetting>>
  BY DEF Pins, starting, buffers
<1> HIDE DEF p, x
<1>12. seen' \in Seq(Cycles) /\ (seen \o x) \o v = seen \o e
  <2>1. (seen \o x) \o v = seen \o (x \o v)
    BY <1>5, <1>6, <1>7, ConcatAssociative
  <2>2. \A a, b \in Seq(Cycles) : a \o b \in Seq(Cycles)
    BY ConcatProperties
  <2> QED
    BY <1>5, <1>6, <1>7, <1>10, <2>1, <2>2
<1>13. Left(v, r)'
  <2>1. Goes(todo', <<high', output'>>, v, r)
    BY <1>2, <1>5, <1>10 DEF Goes
  <2>2. ~Shifted(chain', meant') => seen' \o v = meant'
    BY <1>1, <1>10, <1>11, <1>12 DEF Left
  <2> QED
    BY <2>1, <2>2 DEF Left
<1> QED
  BY <1>11, <1>12, <1>13 DEF BusInv

\* Every step of the driver.
LEMMA BusStep ==
  ASSUME BusInv, TypeOK, [DriverNext]_dvars
  PROVE  BusInv'
<1>1. ASSUME UNCHANGED <<bus, buffers>>, resetting' \in BOOLEAN
      PROVE  BusInv'
  BY <1>1 DEF bus, buffers, BusInv, Left, Goes
<1>2. /\ out \in Chains \cup {<<>>} /\ chain \in Chains \cup {<<>>}
      /\ resetting \in BOOLEAN
  BY DEF BusInv
<1>3. CASE lowLevelInit
  <2>1. out' = out /\ chain' = chain
    BY <1>3 DEF lowLevelInit, buffers
  <2>2. CASE PowerOnReset
    <3> DEFINE call == Then(Call(<<IOSET({IOR, IOW}), IODIR(TRUE), IOCLR(DataLines)>>, <<>>),
                            SetRegister(PP.SelfCTL, POWER_ON_RESET))
    <3>1. Matches(call)
      BY ResetMatches
    <3>2. Begin(call) /\ resetting' = TRUE
      BY <2>2 DEF PowerOnReset
    <3> HIDE DEF call
    <3> QED
      BY <1>2, <2>1, <3>1, <3>2, MatchesAny, BeginKeeps
  <2>3. CASE SelectSelfST
    <3>1. Matches(Write(Port.ADD, PP.SelfST))
      BY WordsMatch, PortsAre
    <3> QED
      BY <1>2, <2>1, <2>3, <3>1, MatchesAny, BeginKeeps DEF SelectSelfST
  <2>4. CASE ReadSelfST
    <3>1. Matches(Read(Port.DATA))
      BY WordsMatch, PortsAre
    <3> QED
      BY <1>2, <2>1, <2>4, <3>1, MatchesAny, BeginKeeps DEF ReadSelfST
  <2>5. CASE Configure
    <3> DEFINE next == InitSeq[i + 1]
    <3>1. Matches(SetRegister(next.Addr, next.Data))
      BY WordsMatch, PortsAre, ThenMatches DEF SetRegister
    <3>2. Begin(SetRegister(next.Addr, next.Data)) /\ resetting' = resetting
      BY <2>5 DEF Configure
    <3> QED
      BY <1>2, <2>1, <3>1, <3>2, MatchesAny, BeginKeeps
  <2>6. CASE CreateThread
    BY <1>1, <1>2, <2>1, <2>6 DEF CreateThread, buffers
  <2> QED
    BY <1>3, <2>2, <2>3, <2>4, <2>5, <2>6 DEF lowLevelInit
<1>4. CASE ResetDone
  BY <1>1, <1>4 DEF ResetDone
<1>5. CASE Input
  <2>1. /\ out' = out /\ chain' \in Chains \cup {<<>>}
        /\ Begin(PollCall(chain')) /\ resetting' = resetting
    BY <1>2, <1>5 DEF Input, starting
  <2>2. MatchesFor(chain', PollCall(chain'))
    BY <2>1, ChainsAre, PollMatches DEF TypeOK
  <2> QED
    BY <1>2, <2>1, <2>2, BeginKeeps
<1>6. CASE Output
  <2>1. /\ out' \in Chains \cup {<<>>} /\ chain' = out'
        /\ Begin(SendCall(chain')) /\ resetting' = resetting
    BY <1>2, <1>6 DEF Output, starting
  <2>2. MatchesFor(chain', SendCall(chain'))
    BY <2>1, ChainsAre, SendMatches DEF TypeOK
  <2> QED
    BY <1>2, <2>1, <2>2, BeginKeeps
<1>7. CASE Pins
  BY <1>7, PinKeeps
<1>8. CASE Chip
  BY <1>1, <1>2, <1>8 DEF Chip, starting
<1>9. CASE UNCHANGED dvars
  BY <1>1, <1>2, <1>9 DEF dvars, starting
<1> QED
  BY <1>3, <1>4, <1>5, <1>6, <1>7, <1>8, <1>9 DEF DriverNext

-----------------------------------------------------------------------------
(* The theorems. *)

\* The inductive invariant of the register accesses: what a thread that the other
\* one has not cut may rely on between two accesses.
THEOREM Invariant == Init /\ [][Next]_vars => []Inv
BY InitInv, NextInv, PTL

\* A frame that is read or skipped is there, and is the one whose event the
\* thread has seen, whatever the sender has done before and does meanwhile, as long
\* as it does not use the ports between the accesses of the poll
\* (cs8900a_lpc_e2129.c:365-412).
THEOREM FramesAreThere == Spec => []FrameKept
BY Invariant, PTL DEF Inv, Spec

\* A frame is copied to the chip only into space that it has, unless the polling
\* thread used the ports between the accesses of the check
\* (cs8900a_lpc_e2129.c:325-336).
THEOREM SpaceIsChecked == Spec => []SpaceKept
BY Invariant, PTL DEF Inv, Spec

\* Only a thread that the other one has cut makes RxEvent forget a waiting frame
\* (cs8900a_lpc_e2129.c:243-245, 366, 475-477).
THEOREM EventsArePending == Spec => EventKept
<1>1. Inv /\ [Next]_vars =>
        [EventPending =>
           \/ EventPending'
           \/ "poll" \in cut /\ poll' # poll
           \/ "send" \in cut /\ send' # send]_vars
  BY NextInv
<1> QED
  BY <1>1, Invariant, PTL DEF Spec, EventKept

\* With its pins and its start the driver makes steps of Cs8900a only: what holds of
\* the register accesses holds of the bus cycles that they become.
THEOREM DriverRefines == DriverSpec => Spec
<1>1. DriverInit => Init
  BY DEF DriverInit
<1> QED
  BY <1>1, DriverStep, PTL DEF DriverSpec, Spec

\* The inductive invariants of start and bus.
THEOREM DriverInvariant == DriverSpec => [](Inv /\ Starting /\ BusInv)
<1>1. Inv /\ Starting /\ BusInv /\ [DriverNext]_dvars => (Inv /\ Starting /\ BusInv)'
  BY DriverStep, NextInv, StartStep, BusStep DEF Inv
<1> QED
  BY <1>1, DriverInitInv, BusInitInv, PTL DEF DriverSpec

\* The state of the driver, of the bus and of the chip keeps its types
\* (cs8900a_lpc_e2129.c:57-412).
THEOREM DriverTypeCorrect == DriverSpec => []DriverTypeOK
<1>1. Inv /\ Starting /\ BusInv => DriverTypeOK
  <2> SUFFICES ASSUME Inv, Starting, BusInv
               PROVE  DriverTypeOK
    OBVIOUS
  <2>1. high \in SUBSET Lines /\ output \in BOOLEAN
    BY DoesTypes DEF BusInv, Left, Goes
  <2> QED
    BY <2>1 DEF Inv, Starting, BusInv, DriverTypeOK, Lines
<1> QED
  BY <1>1, DriverInvariant, PTL

\* Every access is the bus cycles that it stands for: of registers always, and of
\* frames of any length in any number of buffers, as long as all but the last one
\* have an even length
\* (cs8900a_lpc_e2129.c:113-239, 336-345, 383-401).
THEOREM CyclesAreMatched == DriverSpec => []CyclesMatch
<1>1. BusInv => CyclesMatch
  <2> SUFFICES ASSUME BusInv, ~Shifted(chain, meant)
               PROVE  IsPrefix(seen, meant) /\ (todo = <<>> => seen = meant)
    BY DEF CyclesMatch
  <2>1. PICK r \in Calm, e \in Seq(Cycles) : Left(e, r)
    BY DEF BusInv
  <2>2. seen \in Seq(Cycles) /\ meant = seen \o e /\ seen \o <<>> = seen
    BY <2>1, ConcatEmptySeq DEF BusInv, Left
  <2>3. IsPrefix(seen, meant)
    BY <2>2, PrefixIs
  <2>4. ASSUME todo = <<>>
        PROVE  seen = meant
    <3>1. e = <<>>
      BY <2>1, <2>4, DoesEnd DEF Left, Goes
    <3> QED
      BY <2>2, <3>1
  <2> QED
    BY <2>3, <2>4
<1> QED
  BY <1>1, DriverInvariant, PTL

\* No register of InitSeq is set while the chip resets itself, and none is left
\* out (cs8900a_lpc_e2129.c:280-301).
THEOREM StartIsComplete == DriverSpec => []StartConfigures
<1>1. Starting => StartConfigures
  <2>1. DOMAIN InitSeq = 1 .. Len(InitSeq)
    BY DriverAssumption
  <2> QED
    BY <2>1 DEF Starting, Configured, StartConfigures
<1> QED
  BY <1>1, DriverInvariant, PTL
==============================================================================
