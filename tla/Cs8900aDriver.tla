---------------------------- MODULE Cs8900aDriver ----------------------------
(***************************************************************************)
(* The driver of netif/cs8900a_lpc_e2129.c from its start, with the bus    *)
(* cycles of every access. The steps of Cs8900a are the accesses: each one *)
(* begins a call of the bus's helpers here, whose writes to the            *)
(* processor's port follow one by one. The chip does its part at any time  *)
(* in between; the other thread does between two accesses, but not within  *)
(* one: that a thread is stopped with half a byte on the lines is left out.*)
(***************************************************************************)
EXTENDS Cs8900a, Cs8900aBus

CONSTANTS
  Chains,      \* buffers of frames that are sent or received, as their ends
  InitSeq      \* the registers that lowLevelInit sets, and their values

ASSUME DriverAssumption ==
  /\ InitSeq \in Seq([Addr : Nat, Data : Nat])
  /\ \A c \in Chains : c \in Seq(Nat) /\ \A j, k \in DOMAIN c : j <= k => c[j] <= c[k]

VARIABLES
  boot,        \* how far lowLevelInit is
  i,           \* the number of registers it has set
  resetting,   \* the chip resets itself
  configured,  \* the registers that have the value of InitSeq
  out,         \* the buffers that lowLevelOutput was called with
  chain        \* those of the frame that was written or read last

starting == <<boot, i, resetting, configured>>
buffers == <<out, chain>>
dvars == <<vars, bus, starting, buffers>>

\* Registers and commands of cs8900a_regs.h.
PP == [RxCFG |-> 258, RxCTL |-> 260, LineCTL |-> 274, SelfCTL |-> 276,
       RxEvent |-> 292, SelfST |-> 310, BusST |-> 312, LAF |-> 336, IA |-> 344]
SKIP_1             == 64
TX_START_ALL_BYTES == 192
POWER_ON_RESET     == 64

DriverInit ==
  /\ Init
  /\ BusInit
  /\ boot = "off" /\ i = 0 /\ resetting = FALSE /\ configured = {}
  /\ out = <<>> /\ chain = <<>>

-----------------------------------------------------------------------------
(* Calls: what is written to the port, and what the chip should see. *)

Call(ops, cycles) == [ops |-> ops, cycles |-> cycles]

Then(a, b) == Call(a.ops \o b.ops, a.cycles \o b.cycles)

NoCall == Call(<<>>, <<>>)

Write(port, data) == Call(cs8900aWrite(port, data), WriteCycles(port, data))
Read(port)        == Call(cs8900aRead(port), ReadCycles(port))

ReadHighFirst(port) ==
  Call(cs8900aReadAddrHighFirst(port), Reverse(ReadCycles(port)))

SetRegister(r, data) == Then(Write(Port.ADD, r), Write(Port.DATA, data))

\* The accesses of a step of the polling thread, for a frame in the
\* buffers of c.
PollCall(c) ==
  CASE poll = "select" -> Write(Port.ADD, PP.RxEvent)
    [] poll \in {"check", "skip2"} -> Read(Port.DATA)
    [] poll = "alloc"  -> Then(ReadHighFirst(Port.RX_FRAME), ReadHighFirst(Port.RX_FRAME))
    [] poll = "read"   -> Call(ReadFrameBytes(c), ReadFrameCycles(c))
    [] poll = "skip1"  -> Write(Port.ADD, PP.RxCFG)
    [] poll = "skip3"  -> Write(Port.DATA, SKIP_1)
    [] poll \in {"sleep", "input"} -> NoCall

\* Those of a step of lowLevelOutput, for a frame in the buffers of c.
SendCall(c) ==
  CASE send = "idle"   -> Then(Write(Port.TX_CMD, TX_START_ALL_BYTES),
                               Write(Port.TX_LEN, Total(c)))
    [] send = "select" -> Write(Port.ADD, PP.BusST)
    [] send \in {"check", "skip2"} -> Read(Port.DATA)
    [] send = "skip1"  -> Write(Port.ADD, PP.RxCFG)
    [] send = "skip3"  -> Write(Port.DATA, SKIP_1)
    [] send = "copy"   -> Call(WriteFrame(c), WriteFrameCycles(c))

-----------------------------------------------------------------------------
(* lowLevelInit. *)

Goto(a, b) == boot = a /\ boot' = b

\* The strobes are set high before they become outputs.
PowerOnReset ==
  /\ Goto("off", "reset")
  /\ Begin(Then(Call(<<IOSET({IOR, IOW}), IODIR(TRUE), IOCLR(DataLines)>>, <<>>),
                SetRegister(PP.SelfCTL, POWER_ON_RESET)))
  /\ resetting' = TRUE
  /\ UNCHANGED <<i, configured>>

SelectSelfST ==
  /\ Goto("reset", "wait")
  /\ Begin(Write(Port.ADD, PP.SelfST))
  /\ UNCHANGED <<i, resetting, configured>>

\* Mutant: does not wait for the chip.
ReadSelfSTOnce ==
  /\ boot = "wait"
  /\ Begin(Read(Port.DATA))
  /\ boot' = "set"
  /\ UNCHANGED <<i, resetting, configured>>

\* Until INIT_DONE is set.
ReadSelfST ==
  /\ boot = "wait"
  /\ Begin(Read(Port.DATA))
  /\ boot' = IF resetting THEN "wait" ELSE "set"
  /\ UNCHANGED <<i, resetting, configured>>

\* The chip takes no values while it resets itself.
Configure ==
  /\ Goto("set", "set") /\ i < Len(InitSeq)
  /\ LET next == InitSeq[i + 1]
     IN  /\ Begin(SetRegister(next.Addr, next.Data))
         /\ configured' = IF resetting THEN configured ELSE configured \cup {next.Addr}
  /\ i' = i + 1
  /\ UNCHANGED resetting

\* The polling thread is created and the interface can send.
CreateThread ==
  /\ todo = <<>> /\ Goto("set", "up") /\ i = Len(InitSeq)
  /\ UNCHANGED <<i, resetting, configured, bus>>

lowLevelInit ==
  /\ PowerOnReset \/ SelectSelfST \/ ReadSelfST \/ Configure \/ CreateThread
  /\ UNCHANGED <<vars, buffers>>

\* The chip sets INIT_DONE some time after it was told to reset.
ResetDone ==
  /\ resetting /\ ~(boot = "reset" /\ todo # <<>>)
  /\ resetting' = FALSE
  /\ UNCHANGED <<vars, bus, boot, i, configured, buffers>>

-----------------------------------------------------------------------------
(* The driver and the chip. *)

Input ==
  /\ boot = "up"
  /\ cs8900aThread
  /\ IF poll = "read" THEN chain' \in Chains ELSE UNCHANGED chain
  /\ Begin(PollCall(chain'))
  /\ UNCHANGED <<starting, out>>

Output ==
  /\ boot = "up"
  /\ lowLevelOutput
  /\ IF send = "idle" THEN out' \in Chains ELSE UNCHANGED out
  /\ chain' = out'
  /\ Begin(SendCall(chain'))
  /\ UNCHANGED starting

Pins == PinStep /\ UNCHANGED <<vars, starting, buffers>>

Chip ==
  /\ boot = "up"
  /\ Transmitted \/ \E f \in Frames : Arrive(f)
  /\ UNCHANGED <<bus, starting, buffers>>

DriverNext == lowLevelInit \/ ResetDone \/ Input \/ Output \/ Pins \/ Chip

\* As in Cs8900a, the thread that sends makes its next access: the writes of the
\* one before come to their end, and the other thread's accesses come in between.
DriverSpec ==
  DriverInit /\ [][DriverNext]_dvars /\ WF_vars(lowLevelOutput /\ send # "idle")

-----------------------------------------------------------------------------
(* What must be true. *)

\* The driver's, the bus's and the chip's state keep their types.
DriverTypeOK ==
  /\ TypeOK
  /\ high \subseteq AddressLines \cup DataLines \cup {IOR, IOW}
  /\ output \in BOOLEAN /\ resetting \in BOOLEAN
  /\ boot \in {"off", "reset", "wait", "set", "up"} /\ i \in 0 .. Len(InitSeq)
  /\ out \in Chains \cup {<<>>} /\ chain \in Chains \cup {<<>>}

EvenChain(c) == \A k \in 1 .. Len(c) - 1 : c[k] % 2 = 0

\* A frame that has, behind a buffer of odd length, a byte too many.
Shifted(c, cycles) ==
  ~EvenChain(c) /\ cycles \in {WriteFrameCycles(c), ReadFrameCycles(c)}

\* Every access is the bus cycles that it stands for, in their order: bytes go
\* to the right address, no line keeps the level of an earlier byte, and the
\* data lines have the direction that the cycle needs, also in the helpers for
\* frames, which do not set it. A frame is handled byte by byte as long as its
\* buffers are of even length, except for the last one
\* (cs8900a_lpc_e2129.c:113-239, 336-345, 383-401).
CyclesMatch ==
  ~Shifted(chain, meant) => IsPrefix(seen, meant) /\ (todo = <<>> => seen = meant)

\* When the interface is up, the chip has all values of InitSeq: none was
\* written while it was still in reset (cs8900a_lpc_e2129.c:280-301).
StartConfigures ==
  boot = "up" => configured = {InitSeq[k].Addr : k \in DOMAIN InitSeq}
==============================================================================
