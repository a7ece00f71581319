------------------------------ MODULE Cs8900aBus ------------------------------
(***************************************************************************)
(* How netif/cs8900a_lpc_e2129.c reaches the chip: by writes to the port   *)
(* of the processor, one set of lines at a time. A word is two bus cycles, *)
(* a byte each. The helpers for frames rely on the direction of the data   *)
(* lines and on the address lines that earlier writes have left.           *)
(***************************************************************************)
EXTENDS Integers, Sequences, SequencesExt

CONSTANT
  FrameByte(_)   \* what the byte of a frame at an offset is, and what is behind it

VARIABLES
  high,    \* the lines that are high
  output,  \* whether the data lines are outputs: IODIR
  todo,    \* the port writes that are left of the call in progress
  seen,    \* the bus cycles of that call that the chip has seen
  meant    \* history: those that it should see

bus == <<high, output, todo, seen, meant>>

IOR == <<"IOR", 0>>
IOW == <<"IOW", 0>>
SA(S) == {<<"SA", i>> : i \in S}
SD(S) == {<<"SD", i>> : i \in S}
AddressLines == SA(0 .. 3)
DataLines    == SD(0 .. 7)

\* The lines that carry a number.
Bits(n) == {i \in 0 .. 7 : (n \div 2^i) % 2 = 1}
Low(word)  == word % 256
High(word) == word \div 256

\* The ports of cs8900a_regs.h.
Port == [RX_FRAME |-> 0, TX_FRAME |-> 0, TX_CMD |-> 4, TX_LEN |-> 6,
         ADD |-> 10, DATA |-> 12]

-----------------------------------------------------------------------------
(* Writes to the processor's port, and reads of it. *)

IOSET(S) == [op |-> "set", lines |-> S]
IOCLR(S) == [op |-> "clear", lines |-> S]
IODIR(d) == [op |-> "direction", output |-> d]
IOPIN(k) == [op |-> "get", to |-> k]     \* k: the place the byte is put to

Put(byte)  == <<IOCLR(DataLines), IOSET(SD(Bits(byte)))>>
Strobe     == <<IOCLR({IOW}), IOSET({IOW})>>
Get(k)     == <<IOCLR({IOR}), IOPIN(k), IOSET({IOR})>>
Address(n) == <<IOCLR(AddressLines), IOSET(SA(Bits(n)))>>
NextByte   == <<IOSET(SA({0}))>>
FirstByte  == <<IOCLR(SA({0}))>>

\* Mutant: the data lines keep their direction.
cs8900aWriteUndirected(addr, data) ==
  Address(addr) \o Put(Low(data)) \o Strobe \o NextByte \o Put(High(data)) \o Strobe

cs8900aWrite(addr, data) ==
  <<IODIR(TRUE)>> \o Address(addr) \o Put(Low(data)) \o Strobe
    \o NextByte \o Put(High(data)) \o Strobe

\* The low byte goes to place 0 of the value, the high byte to place 1.
cs8900aRead(addr) ==
  <<IODIR(FALSE)>> \o Address(addr) \o Get(0) \o NextByte \o Get(1)

cs8900aReadAddrHighFirst(addr) ==
  <<IODIR(FALSE)>> \o Address(addr + 1) \o Get(1) \o FirstByte \o Get(0)

cs8900aWriteTxBuf(b, c) ==
  FirstByte \o Put(b) \o Strobe \o NextByte \o Put(c) \o Strobe

cs8900aReadRxBuf(j, k) == FirstByte \o Get(j) \o NextByte \o Get(k)

-----------------------------------------------------------------------------
(* Frames, in chains of buffers: a sequence of the offsets of the frame at    *)
(* which a buffer ends.                                                       *)

BehindEnd == -1   \* an offset that no byte of a frame has

Total(chain) == IF chain = <<>> THEN 0 ELSE Last(chain)
Start(chain, i) == IF i = 1 THEN 0 ELSE chain[i - 1]

\* Offsets in the frame of the bytes of buffer i that are handled as pairs; the
\* last one is behind its end if the length is odd.
Pairs(chain, i) == (chain[i] - Start(chain, i) + 1) \div 2
First(chain, i, u) == Start(chain, i) + 2 * u - 2
Second(chain, i, u) ==
  IF First(chain, i, u) + 1 < chain[i] THEN First(chain, i, u) + 1 ELSE BehindEnd

WriteBuffer(chain, i) ==
  <<IODIR(TRUE)>> \o Address(Port.TX_FRAME)
    \o FlattenSeq([u \in 1 .. Pairs(chain, i) |->
         cs8900aWriteTxBuf(FrameByte(First(chain, i, u)),
                           FrameByte(Second(chain, i, u)))])

WriteFrame(chain) == FlattenSeq([i \in DOMAIN chain |-> WriteBuffer(chain, i)])

ReadFrameBytes(chain) ==
  <<IODIR(FALSE)>> \o Address(Port.RX_FRAME)
    \o FlattenSeq([i \in DOMAIN chain |->
         FlattenSeq([u \in 1 .. Pairs(chain, i) |->
           cs8900aReadRxBuf(First(chain, i, u), Second(chain, i, u))])])

-----------------------------------------------------------------------------
(* Bus cycles: what a word or a frame is to the chip. *)

Cycle(kind, address, data) == [kind |-> kind, address |-> address, data |-> data]

WriteCycles(addr, data) ==
  <<Cycle("write", Bits(addr), Bits(Low(data))),
    Cycle("write", Bits(addr + 1), Bits(High(data)))>>

ReadCycles(addr) ==
  <<Cycle("read", Bits(addr), {0}), Cycle("read", Bits(addr + 1), {1})>>

\* A frame is its bytes at the two addresses in turn; an odd one has a byte
\* more.
FrameAccesses(chain) == 1 .. 2 * ((Total(chain) + 1) \div 2)
Offset(chain, k) == IF k <= Total(chain) THEN k - 1 ELSE BehindEnd

WriteFrameCycles(chain) ==
  [k \in FrameAccesses(chain) |->
     Cycle("write", Bits((k - 1) % 2), Bits(FrameByte(Offset(chain, k))))]
ReadFrameCycles(chain) ==
  [k \in FrameAccesses(chain) |->
     Cycle("read", Bits((k - 1) % 2), {Offset(chain, k)})]

-----------------------------------------------------------------------------
(* The lines as the writes change them. *)

\* Lines of the data bus float, and those of the strobes are pulled up, while
\* all are inputs.
BusInit ==
  /\ high = {IOR, IOW}
  /\ output = FALSE
  /\ todo = <<>> /\ seen = <<>> /\ meant = <<>>

Begin(call) ==
  /\ todo = <<>>
  /\ todo' = call.ops
  /\ meant' = call.cycles
  /\ seen' = <<>>
  /\ UNCHANGED <<high, output>>

Driven(name) == {i \in 0 .. 7 : <<name, i>> \in high}

Op(name) == todo # <<>> /\ Head(todo).op = name /\ todo' = Tail(todo)

\* The chip takes a byte when IOW rises.
SetLines ==
  /\ Op("set")
  /\ high' = high \cup Head(todo).lines
  /\ seen' = IF IOW \in Head(todo).lines \ high
             THEN Append(seen, Cycle(IF output THEN "write" ELSE "floating",
                                     Driven("SA"), Driven("SD")))
             ELSE seen
  /\ UNCHANGED <<output, meant>>

ClearLines ==
  /\ Op("clear")
  /\ high' = high \ Head(todo).lines
  /\ UNCHANGED <<output, seen, meant>>

Direct ==
  /\ Op("direction")
  /\ output' = Head(todo).output
  /\ UNCHANGED <<high, seen, meant>>

\* The chip puts a byte on the data lines while IOR is low.
GetByte ==
  /\ Op("get")
  /\ seen' = Append(seen, Cycle(IF IOR \notin high /\ ~output THEN "read" ELSE "clash",
                                Driven("SA"), {Head(todo).to}))
  /\ UNCHANGED <<high, output, meant>>

PinStep == SetLines \/ ClearLines \/ Direct \/ GetByte
==============================================================================
