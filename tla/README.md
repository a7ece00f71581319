# A TLA+ model of picoos-lwip

picoos-lwip is the port of the lwIP network stack to the Pico]OS kernel: an OS
abstraction for lwIP, socket calls on the kernel's file table, a DHCP server
and two Ethernet drivers. lwIP itself is a git submodule that is not part of
the repository, and neither are the kernel (Pico]OS) nor its library
(picoos-micro, with the ring buffers and the file table). They are modelled
only from how the sources here use them; `PROJECT.json` marks such definitions
as external. Paths below are relative to the repository.

## Inventory

| Component | Sources | State | Operations | Who calls it |
|---|---|---|---|---|
| Mailboxes | `sys_arch.c:113-189` | rings of pointers; the `sys_mbox_t` variables | new, free, post, trypost, fetch with a timeout, tryfetch | lwIP's thread, API callers, drivers |
| Waited time | `sys_arch.c:89-105, 151-167` | `jiffies` (kernel) | conversion of timeouts and of waits | every timed wait |
| Semaphores | `sys_arch.c:69-111` | kernel semaphores | new, signal, wait, free | API callers and the thread |
| Mutexes, critical sections, threads | `sys_arch.c:41-67, 191-217` | kernel objects; the flags that a section saves | new, lock, unlock, free; protect, unprotect; thread creation | lwIP |
| Time and random numbers | `sys_arch.c:219-251` | `jiffies` (kernel) | `sys_now`, `sys_jiffies`, `sys_random` | lwIP |
| Socket files | `sockets.c`, `picoos-lwip.h` | file slots with a descriptor (`fsPrivFd`) | `socket`, `accept`, `sockClose`, read, write, the macros | application tasks |
| DHCP server | `apps/dhcps/dhcps.c` | `leases`, `dhcpPcb`, static ARP entries (lwIP) | start, stop, DISCOVER, REQUEST | lwIP's thread, by callbacks |
| Tap driver | `netif/tapif.c` | semaphore, `pollSema`, the frame in hand | start, SIGIO handler, polling thread, output | host signals, own thread, lwIP's thread |
| CS8900A driver | `netif/cs8900a_lpc_e2129.c` | the lines of the bus, the chip's registers and frame queue | start, polling thread, output | own thread, lwIP's thread |
| Hooks | `arch/perf.h`, `arch/cc.h` | none | macros | lwIP |

Interactions: an API call is a message that `sys_mbox_post` sends to the stack's
thread, and a semaphore that the thread signals when it has executed the
call. The drivers hand over frames through `netif->input`, which is a
`sys_mbox_trypost` to the same mailbox. The DHCP server runs entirely in that
thread. The thread's timers count down with the times that
`sys_arch_mbox_fetch` returns. Socket calls take a file slot from the kernel's
library and a descriptor from lwIP, one after the other.

What is hard, and what makes each part correct:

* **Mailboxes.** Several tasks and the clock interleave; a ring may be full or
  empty; a timeout may race a post; the tick counter wraps. Correct: each
  message has one owner at all times, messages arrive in order and once, a
  fetch returns a time that moves the timers on.
* **API calls.** Everybody waits for the thread, and callers compete with
  drivers for slots. Correct: each call is answered exactly once, by the time
  its stack frame is still there, and it returns; the timer expires.
* **Semaphores and sections.** A signal meets the timeout of a wait; sections
  nest and hold the clock back. Correct: a wait takes a token or times out, and
  says which; updates in sections are not lost; timed waits end.
* **Socket files.** Two tables that are exhausted independently and calls that
  fail half way. Correct: no slot or descriptor is orphaned by them, no task
  reaches another task's descriptor, and nobody reaches one that could not be
  closed.
* **DHCP server.** Messages in any order, failures inside a handler, restarts.
  Options in any order, with padding. Correct: no address for two stations
  unless a restart has forgotten one of them, an offer is honoured, ARP agrees with what was confirmed, the control block is
  given back, the walk over the options ends and finds what was meant.
* **Tap driver.** A signal handler, a thread and a start sequence interleave;
  buffers run out. Correct: no buffer is leaked, no wakeup is lost, all frames
  are read.
* **CS8900A driver.** Two tasks use the address register of the chip without a
  lock; retries of a transmission discard received frames; helpers rely on lines
  that others have set. Correct: the bus cycles are those that were meant, and sending
  ends; and for a thread that is not interrupted in the middle of its accesses, the
  register that is read is the one that was selected, and the frame that is read
  the one that was found.

The full list, with lines and the properties on each, is under "hazards" in
`PROJECT.json`.

## Plan

Done, in this order:

1. `SysTime`, `SysMbox` and its abstract specification `Mailbox`; proofs.
2. `TcpipLoop`: the mailbox with the thread, callers and drivers around it.
3. `DhcpServer` and its abstract specification `AddressPool`; proofs.
4. `Sockets`.
5. `TapIf`.
6. `Cs8900a`.
7. `SysSem` (with its abstract specification `Semaphore`) and `SysSync`.
8. `DhcpOptions`.
9. `Cs8900aBus` and `Cs8900aDriver`: the pins and the start of the driver.
10. `SysSyncProofs`: the invariants of `SysSync` and the refinement of `SysSem`.
11. `SocketsProofs`, `TapIfProofs`, `Cs8900aProofs`, the stack's thread in
    `SysMboxProofs` and the control blocks in `DhcpServerProofs`: the safety
    properties of these parts.
12. `DhcpOptionsProofs`: the walk over the options and the replies.
13. The bus cycles in `Cs8900aProofs`.

The plan is carried out. Every safety property that a run checks is also proved;
what is only model-checked is named at the end of the section on proofs.

## Modules

**`SysTime`** is the arithmetic of `sys_arch_mbox_fetch` (the code of
`sys_arch_sem_wait` is the same text): the tick difference and its product with
1000 are words that wrap, the quotient has a minimum, and the result is capped
by the timeout. `MS` belongs to the kernel; it may round either way.

**`SysMbox`** follows a message buffer from `pool` to the task that posts it
(`msg`), the `ring`, the task that fetches it and back. `uosRingPut` and
`uosRingGet` are atomic for their callers; what `sys_arch.c` does before and
after them are steps of their own, kept in `pc`: `PostCall` / `sys_mbox_post`,
`FetchCall` / `RingGet` or `RingWait` / `FetchReturn` or `FetchTimeout`. `Tick`
counts `jiffies` and the waits that have a limit. `handle` is the
`sys_mbox_t`: `sys_mbox_free` leaves it pointing to a ring that is gone
(`"stale"`), `sys_mbox_set_invalid` clears it, and `sys_mbox_new` may fail.
lwIP frees a mailbox only when it is drained and nobody is inside; that is a
guard of `sys_mbox_free`, and the one assumption on its callers.

**`Mailbox`** is what users of a mailbox may rely on: a first-in first-out
channel of bounded size that exists or not. `ChannelSpec` states that
`SysMbox` implements it with `size <- OpenSize, chan <- ring`.

**`SysSem`** is the semaphores of the port: a wait is `WaitCall`, then
`SemaTake` or `SemaBlock` and perhaps `SemaTimeout` in the kernel, and
`WaitReturn`, which computes the time. **`Semaphore`** is its abstract
specification: a counter that signals raise and successful waits lower, and
waits that end with a timeout without touching it (`SemSpec`).

**`SysSync`** extends it with mutexes (a semaphore each), critical sections
(`sys_arch_protect` saves the interrupt flags and disables interrupts,
`sys_arch_unprotect` restores what was saved) and the tasks that
`sys_thread_new` starts. Tasks read and write shared data in sections, which
nest, or under the mutex. While interrupts are disabled neither the clock nor
another task runs, unless the task in the section waits.

**`TcpipLoop`** extends `SysMbox` with lwIP's thread (`next`, the time to its
timer), applications (`api`, `sem`; the message is named by its caller, on
whose stack it is) and drivers. `LoopConstants` says what these are to the
mailbox: one mailbox, one task that fetches, messages that are calls or packets.

**`DhcpServer`** has `leases`, `dhcpPcb`, the control blocks and static ARP
entries of lwIP, the queue of callbacks, and four history variables that the
properties need: `reply`, `offered`, `acked` (what was confirmed since the last
start) and `latest` (the last address that was ever confirmed to a station). One
message is one step, as the
code runs in one thread: `handleDiscover`, `Ack` and `Nak` (the branches of
`handleRequest`), `Refuse` and `NoMemory` (the early returns). Callers may start
or stop the server twice; the block of the first start then stays bound, and
after a stop it receives messages that nothing answers (`Unsent`). A station may
send any message at any time, which covers loss, duplication and delay.
A start forgets the leases, and after it the address of one station may be
confirmed to another one: the model does so too, and `SharedOnlyByRestart` says
that this is the only way in which two stations come to share one.
**`AddressPool`** is its abstract specification (`PoolSpec`).

**`DhcpOptions`** is the same handlers seen byte by byte, for one message: what a
station means (`sent`, `ended`) is encoded into the field, `dhcpRecv` takes the
kind from the third byte, `Walk` steps over the options, and the reply is
built from `addOptionByte`, `addOptionIP` and `addOptionTime`. A walk that
leaves the field finds anything (`WalkOutside`). Nothing keeps the options of a
reply inside its field but their number and sizes: `InField` makes the field as
long as what is written, and the types say that it never gets longer. `AnswerMatches` compares the
reply with the options that are meant, encoded as stations encode theirs. A
pad option is one byte for stations and two or more for the walk, so the
properties are about messages with paired padding and an end mark; after an
odd one the walk may read an address where there is none.

**`Sockets`** has the slots (`used`, `fsPrivFd`), lwIP's descriptors (`conn`),
and each task's place in a call: `uosFileAlloc`, the lwIP call, and the
assignment or `uosFileFree` are separate steps. `lwip_close` may fail: the
descriptor is then `lost`, in use with no way to it, as the code ignores the
result and frees the slot. A task uses the sockets it opened.

**`TapIf`** has the device's queue, SIGIO (pending or not: it is not queued),
the semaphore, the start sequence `boot` with the window before `pollSema` is
set, the polling thread and the stack's mailbox. A `read` may fail with an
error that is not EAGAIN; the length is then -1 and the code goes on.

A signal that comes before `pollSema` is set is taken to do nothing; the kernel
is handed a NULL semaphore then.

**`Cs8900a`** has the chip (`addr`, the register that the address port selects;
`rxq`, `event`, `txfree`), the polling thread and `lowLevelOutput`. Each access
to a port is one step, so that `cs8900aSkipFrame` is three, and the threads
preempt each other between any two steps: the code takes no lock. What can go
wrong then is the finding of `Cs8900aPreempt`. What the driver gets right is said
with the history variable `cut`, the threads in the middle of whose accesses (of
one poll, or of one retry) the other thread has used the ports: a thread that is
not in `cut` finds what it selected (`FrameKept`, `SpaceKept`), whatever the other
one did before, and RxEvent becomes wrong by the steps of threads in `cut` only
(`EventKept`). The chip is external: RxEvent shows a waiting frame until it is
read, and BusST and RxEvent use the same bit for different things.

**`Cs8900aBus`** has the lines of the processor's port (`high`, `output`). The
helpers of the code are the lists of writes that they make, and a `PinStep` is
one of these writes. The chip sees a cycle when IOW rises or a byte is read
while IOR is low; a write to undriven lines and a read against driven ones are
cycles of another kind. A chain of buffers is the sequence of the offsets in the
frame at which they end, and `FrameByte` says which byte is at an offset: it is
a parameter, as nothing depends on it.

**`Cs8900aDriver`** extends both: each access of `Cs8900a` begins the call of a
helper, whose writes follow, and the chip may receive, send or finish its reset
between any two of them. `lowLevelInit` resets the chip, waits and sets the
registers. The threads interleave as in `Cs8900a`, between calls of the helpers;
that one is stopped within a call, with half a byte on the lines, or within the
copying of a frame, is left out: what it would do to the other thread's cycles is
the same lack of a lock that `Cs8900aPreempt` shows at the registers. `out` is the
frame that a thread in `lowLevelOutput` has been given, `chain` the one that the
last access was for.

**`MCSysMbox`**, **`MCDhcpServer`**, **`MCSockets`** add symmetry sets for TLC,
**`MCDhcpOptions`** and **`MCCs8900aDriver`** the options, frames and registers;
**`MCTcpipLoop`** checks that the constants are as `LoopConstants` says.
**`SysTimeProofs`**, **`SysMboxProofs`** (also of `TcpipLoop`),
**`SysSyncProofs`**, **`DhcpServerProofs`**, **`DhcpOptionsProofs`**,
**`SocketsProofs`**, **`TapIfProofs`**, **`Cs8900aProofs`** hold the proofs.
Definitions with a comment "Mutant:" are deliberate errors which show that a
property can fail; no specification uses them.

## Runs

| Run | What it shows | Bounds, and why they are enough |
|---|---|---|
| `SysMbox` | types, `SingleOwner`, `ChannelSpec` | two mailboxes, three messages, a poster and a task that does both; one slot or the default of ten: rings are full, empty, reused and freed; words of 8 values wrap |
| `SysSync` | types, `NoLostUpdate`, `SemTimeInRange`, `SemSpec`, `WaitsEnd` | two tasks that nest sections twice, one mutex, one semaphore; waits without a timeout and of 1 ms at a tick of 2 ms, so that signals, timeouts and sections meet; words of 4 values wrap. The limit of a wait is one millisecond, so that the range of its result is one value here; the proof has any limit |
| `TcpipLoop` | types, `CallsPaired`, `WaitInRange`, `TimerExpires`, `CallsReturn`, `ClocksAgree` | two applications and a driver compete for one slot; period of 3 ms, tick of 2 ms: waits outlast the timeout, and words of 16 values wrap during one |
| `TcpipLoopFastTicks` | `TimerExpires` fails | a tick rate above 1000 (scaled: `HZ` 8, `Second` 4) |
| `DhcpServer` | types, `PcbExact`, `SharedOnlyByRestart`, `OfferHonoured`, `ArpAgrees`, `PoolSpec` | two leases (the code has three, the proofs any number), four stations, so that the table is full with two turned away, and after a restart the other two can take both addresses; a pool that wraps around the octet, two control blocks; one callback in the queue, since callbacks run in order and messages between them are as good as messages after them |
| `DhcpNak` | `NakMeansNotFree` fails | three stations |
| `DhcpOptions` | types, `WalkStaysInside`, `AnswerMatches`, `WalkEnds` | every message of up to four of nine options: two addresses, a wrong length, data that looks like options, padding, no data, three kinds of message, with and without an end mark; 34 bytes, which the longest reply fills |
| `Sockets` | types, `NoOrphanSlot`, `NoOrphanFd`, `OpenLeadsToOwn` | three tasks, four slots, three descriptors: both tables run out; sockets are closed both ways. No deadlock check: when `closesocket` has lost all slots and all tasks are idle, nothing can happen |
| `TapIf` | types, `PbufsAccounted`, `NoLostWakeup`, `FramesRead` | two buffers, three frames, room for one frame in the stack: buffers and mailbox run out, signals coalesce |
| `TapIfPadding` | `PaddingReclaimed` fails | one buffer of each kind |
| `Cs8900a` | types, `FrameKept`, `SpaceKept`, `EventKept`, `CyclesMatch`, `StartConfigures`, `OutputReturns` | of the module `Cs8900aDriver`; two frames, so that skipped frames run out and another one is received while one is sent; one retry (eight in the code), which is used up; frames in one to three buffers, of even and odd length, whose bytes differ; the threads meet at every access |
| `Cs8900aPreempt` | `FrameThere` fails | one frame, one retry |

`Second` is 1000 in the code. In the runs it is 4 so that the counter wraps
soon; only the ratio to `HZ` matters to the properties.

## Fairness

`TcpipLoop`: the scheduler runs the thread and the clock (weak fairness), and a
caller that has been signalled. A blocked `sys_mbox_post` has strong fairness:
the slot that a fetch frees goes to a waiting task in the end, as the kernel's
semaphores wake waiting tasks. With weak fairness only, a driver that always
takes the slot with `trypost` would starve the caller; whether the kernel's
ring buffers hand over the slot is not visible in this repository, so
`CallsReturn` rests on it. Nothing makes applications call or drivers deliver.

`TapIf`: the start sequence and the polling thread run (weak fairness; the
wait's limit of one second makes it always able to go on), and a device with
frames does not answer every `read` with an error (strong fairness of
`lowLevelInput`). The host need not send, and SIGIO need not be delivered.

`SysSync`: the clock and tasks that can run do (strong fairness, as sections
disable both again and again), and a section that has begun ends. Nothing makes
a task wait, signal or enter a section.

`DhcpOptions`: the handling of a message goes on; it is one function call.

`Cs8900a`: a call of `lowLevelOutput` that has begun goes on (weak fairness); it
does not wait for anything. `Cs8900aDriver` assumes the same of the accesses: the
writes to the port before one come to their end, and the other thread, which makes
its accesses in between, does not keep the sender from its own for ever. Whether the chip ever sends, and whether the polling
thread runs, is left open.

## Proofs

All are checked by TLAPS for every value of the constants under the named
assumptions (`ClockAssumption`, `MboxAssumption`, `SemAssumption`,
`SyncAssumption`, `DhcpAssumption`, `OptionsAssumption`, `SocketsAssumption`,
`TapAssumption`, `CsAssumption`, `DriverAssumption`), and those about the loop
under `LoopConstants`, which is not an assumption of the module because the
theorems about mailboxes, in the same module of proofs, hold without it. Each module of proofs begins
with its inductive invariant; the runs check the properties, and the invariant
on top of them is what the proofs add.

*Waited time.* `WaitResultRange`: for `HZ <= Second` and a positive timeout the
result lies between 1 and the timeout, for any two clock readings and any word
size. The argument is the minimum of `WaitedMs`: either the quotient is at
least `Second \div HZ`, which is positive, or the minimum is taken.
`WaitFollowsClock`: the result differs from what `sys_now` counted in the
meantime by half a tick at most. While `sys_now` does not wrap, the tick
difference times 1000 is the difference of its two products
(`NoWrapProducts`), the quotient of a sum is the sum of the quotients or one
more (`QuotientOfSum`), and the minimum is taken only when no tick has passed.

*Mailboxes.* The inductive invariant is `TypeOK /\ CallsOK /\ RingsOK /\
SingleOwner` (`Invariant`). `SingleOwner` alone is not inductive: a fetch into
a task that already holds a message would lose one, and a mailbox freed under
a call would take its messages along. `CallsOK` (what a call holds at each
place) and `RingsOK` (a ring that is not live is empty) exclude both. From it
follow `TypeCorrect`, `MessagesHaveOneOwner`, `FetchTimeInRange` (with
`WaitResultRange`), `FetchFollowsClock` (with `WaitFollowsClock`: of fetches during
which `sys_now` does not wrap, `NoWrapBetween`; over a wrap the two times do
differ) and the refinement `ImplementsMailbox`.

*The stack's thread.* Every step of the loop is a step of the mailbox or leaves
it alone (`LoopStep`): the timer is in `1 .. Period` when it becomes the
timeout of a fetch. So the invariant of the mailbox holds in the loop, which
starts with a mailbox that exists. `CallsPaired` needs two things besides
itself: that the message with the thread is not in the pool (`OnePlace`), so
that the answer replaces the message and does not come on top of it, and that
drivers hold packets only (`PacketsOnly`), so that the packet a driver discards
is never the message of a call. From them follow `CallsArePaired` and
`LoopTypeCorrect`; `LoopTimeInRange` and, with its condition, `LoopFollowsClock`
carry over from the mailbox.

*Semaphores and sections.* `SemInv` adds to the types that a call is about a
semaphore that exists and has a timeout of the assumed range. From it follow
`SyncTypes`, `SyncTimeInRange` (with `WaitResultRange`) and the refinement
`SyncCounting`, whose crucial fact is that the time of a successful wait, at most
the timeout, is never `SYS_ARCH_TIMEOUT`. `NoLostUpdate` is not inductive: it
needs `SectionsOK` (interrupts are enabled only when nobody is inside a section,
one task is at most, and only the outermost section has saved enabled
interrupts, so that the end of an inner one cannot enable them) and `CopiesOK`
(who has read the data is still inside). From both follows `SyncNoLostUpdate`.
What `SectionsOK` says of the interrupts is also part of `SyncTypeOK`, which
`SyncTypes` is about.

*DHCP server.* `LeaseInv` adds to the types: stations in the table differ,
lease i has the i-th address of the pool, every offered or confirmed pair
stands in the table, and before the first start no message is received.
`LeaseAddrInjective` shows that the addresses differ although the octet wraps,
because `MAX_LEASES <= OctetMod`. From it follow `TypeCorrect`,
`OffersAreHonoured`, `ArpFollowsLeases` and `ImplementsPool`. `OnlyRestartsShare`
needs `LatestInv` besides: the last confirmation of a station that was confirmed
since the start is among those since the start, where no two share an address
(`ConfirmedOnce`). Of stations that were confirmed before a restart and not
since, nothing like that holds, and nothing is claimed. `PcbsAreExact` is about the queue of callbacks, of any length:
the last callback is the last call that was accepted (`LastCall`), and without
a restart a start stands behind a stop and finds no control block when it is
carried out (`StartsApart`).

*DHCP options.* `OptionsAssumption` says what an option is: padding, or a code
from 1 to 254 with at most 255 bytes of data; that addresses are four bytes; and
that the field has at least 34 bytes (lwIP's has 68). That the longest reply, a
confirmation, takes no more is computed from the options that the handlers write
(`FinishIs`, `OptTypeCorrect`). The message may have any number of options in any order. Where each
option lies in the field (`FieldLayout`) follows from the layout of a flattened
sequence (`FlattenLayout`). The library defines that one by a recursive function,
so this needs induction, which is carried out with sets in place of predicates:
every nonempty set of natural numbers has a least element (`Least`), and so a set
that holds 1 and the successor of what it holds has all numbers up to a bound
(`UpTo`). The inductive invariant is `OptInv`; its part `AtItem` says that the walk
over a well-formed message is at the beginning of an option or at the end mark,
that the padding before it comes in pairs (`PairsBefore`), without which one step
over two pads could end inside the next option, and that it has the last address
before it (`AskedBefore`). `ReadsItem` shows that the walk then reads what the
station meant and steps to another beginning, also when the data of an option
looks like an option. The replies are the encoded options by `OfferIs`, `AckIs`
and `NakIs`. From them follow `WalkIsInside`, `AnswersMatch` and `OptTypeCorrect`.

*Socket files.* The three safety properties together are still not inductive.
`CallsHold` says what the slot and the descriptor in a call's hands stand for
at each place; `SlotsApart`, that a slot in somebody's hands is used, not open,
and in nobody else's; `FdsApart`, that no two calls of `closesocket` close the
same descriptor, of which lwIP would give one out again between them. From them
follow `SocketsAreTheirOwn`, `NoFdIsLost` and `NoSlotIsLost`. `NoFdIsLost` tells
exactly which descriptors are in use: those that a socket or a call has, and
apart from them those for which `lwip_close` failed. The latter are lost, which
the theorem says and does not rule out.

*Tap driver.* `NoLostWakeup` needs `Booted`: the semaphore is created with one
signal, which only the thread takes, so that the first drain comes before the
first wait. From it follow `BuffersAreAccounted` and `WakeupsAreKept`.

*CS8900A driver.* The theorems hold of threads that preempt each other between
any two accesses. `FrameKept` and `SpaceKept` need which register the address port
selects between the accesses of a thread that was not cut (`Selected`), and that
RxEvent never shows a frame that is not there (`Reported`), which holds without a
condition. `PollCuts` and `SendCuts` say who is cut by a step: while a thread is not,
the other one has only waited, bid for space or copied a frame, and what the first
has selected, found or been promised is as it was. From this `Invariant` follow
`FramesAreThere` and `SpaceIsChecked`; `EventsArePending` is about its steps.
`DriverRefines`: the driver with its start and bus cycles implements `Cs8900a`, so
that these theorems hold of it, too. `StartIsComplete` follows from what has
been set so far at each place of `lowLevelInit`, for any sequence of registers.

`CyclesMatch` compares what the chip has seen with what it should have seen, and
for an induction one must know what the writes that are left will add. This is
`BusInv`: behind the cycles in `seen`, the writes of `todo` cause those that are
missing in `meant`, and then leave the bus as every call expects it (`Calm`: the
strobes high, an address of four bits and a byte on the lines, any direction).
`Does(ops, h, o, c, t, d)` says what writes do: from the lines `h` and the
direction `o` they cause the cycles `c` and end with `t` and `d`. It is stated by
functions over the positions in `ops`, and `DoesOne`, `DoesThen`, `DoesNext` and
`DoesEnd` are the rules that take lists apart and put them together. With them
the helpers are computed one by one, from any calm bus: a word in both orders of
its bytes (`WriteDoes`, `ReadDoes`, `ReadHighFirstDoes`), a pair of bytes with the
direction and the upper address lines that are left over (`WritePairDoes`,
`ReadPairDoes`), a buffer and a chain of any length (`WriteFrameDoes`,
`ReadFrameDoes`, by `FlattenDoes`), and the pins at the start (`ResetMatches`).
Frames of any length need induction, which `UpTo` provides here, too. A frame
with a buffer of odd length in the middle (`Shifted`) is excepted, as in the
code, but the accesses after it are not: the bus is calm again. From `BusInv`
follow `CyclesAreMatched` and, with the other parts, `DriverTypeCorrect`.
`DriverAssumption` says of chains only that they are ends of buffers, which do
not decrease; and bytes may be anything.

Only model-checked: the liveness properties `TimerExpires`, `CallsReturn`,
`FramesRead`, `WaitsEnd`, `WalkEnds` and `OutputReturns`, since liveness under
fairness is outside the prover's reach. `BusInv` quantifies over all lists of
cycles, which TLC cannot enumerate; the runs check what follows from it.

## Findings

* `TcpipLoopFastTicks`: with `HZ` above 1000, `1000 / HZ` is 0 and the minimum
  that the comment at `sys_arch.c:157-160` promises is never applied; the
  fetch returns 0 under traffic and the timer does not expire.
* `DhcpNak`: `dhcps.c:319` logs that an address is not free; line 288 only
  compares it with the station's own lease, so free addresses are refused too.
* `TapIfPadding`: `tapif.c:186` returns before "reclaim the padding word".
* `Cs8900aPreempt`: the check of the receiver event register
  (`cs8900a_lpc_e2129.c:365-367`) reads whatever register the other thread has
  selected in the meantime. Bit 8 of BusST means space to send and of RxEvent a
  received frame, so the thread goes on to read a frame that is not there.

Seen while modelling, without a statement in the repository to check against:
`closesocket` (`picoos-lwip.h:66`) never frees the file slot, leases are never
reclaimed, a restart lets two stations have one address, a renewal, which does not
carry the requested address as an option, is refused, a second start leaks a control
block, a failed `lwip_close` a descriptor, a refused request takes a lease,
`sys_now` wraps early, so that times across the wrap disagree with those of fetches,
`accept` holds a slot while it waits, the kind of a DHCP message is misread when its
option is not the first, a single pad option derails the option walk, buffers of
odd length inside a chain shift a sent frame, a fetch without a timeout always returns 0.

## Not modelled

* `arch/perf.h`, `arch/cc.h`: macros without state.
* `mbox.used` and the link counters: statistics.
* `sys_random`, which passes a library call on, and `sys_init`.
* Errors that kernel calls report: the code takes a negative result of
  `nosSemaWait` for a wait that succeeded, but when the kernel returns one cannot
  be told from this repository.
* Payloads, except for their length and order on the CS8900A's bus; the text of
  log messages; `ETH_PAD_SIZE` in the CS8900A driver, whose early return at line
  330 is the one that `TapIfPadding` checks in the tap driver.
* A station whose address is all zeros, which the code cannot tell from a free
  lease.
* Failures of `nosSemaCreate` and `nosTaskCreate` in `tapIfInit`, which the code
  does not look at.
* Compositions across lwIP: the tap driver with the stack's thread, or the DHCP
  server with stations that retry. What would decide their properties is lwIP's
  loop, its buffer pool and the stations, none of which is in the repository.
