------------------------------- MODULE SysTime -------------------------------
(***************************************************************************)
(* The arithmetic of sys_arch.c: how long a wait lasted in milliseconds,   *)
(* and how a millisecond timeout becomes a tick count.                     *)
(* jiffies, the tick counter of the kernel, and the u32_t results are      *)
(* unsigned words: every sum, difference and product is taken modulo       *)
(* WordMod.                                                                *)
(***************************************************************************)
EXTENDS Integers

CONSTANTS
  HZ,       \* ticks per second, a setting of the kernel port
  Second,   \* milliseconds per second: 1000 in the code, smaller in small runs
  WordMod   \* 2^32 in the code, smaller in runs where the words must wrap

ASSUME ClockAssumption ==
  /\ HZ \in Nat \ {0}
  /\ Second \in Nat \ {0}
  /\ WordMod \in Nat \ {0}

Word == 0 .. WordMod - 1

\* A wait that has no limit: all ones.
INFINITE == WordMod - 1

\* What a wait that ran out returns. Also all ones; lwIP defines
\* SYS_MBOX_EMPTY, what an empty mailbox returns, as the same value.
SYS_ARCH_TIMEOUT == WordMod - 1

\* (u32_t) (jiffies - start) * 1000: the product is a u32_t too.
ElapsedProduct(start, now) == (((now - start) % WordMod) * Second) % WordMod

\* Mutant: no minimum.
WaitedMsNoMinimum(start, now) == ElapsedProduct(start, now) \div HZ

\* The waited time before it is capped. A wait shorter than one tick counts
\* as half a tick, or as one millisecond when a tick is that short.
WaitedMs(start, now) ==
  LET w == ElapsedProduct(start, now) \div HZ
  IN  IF w < Second \div HZ
      THEN IF HZ < Second \div 2 THEN (Second \div 2) \div HZ ELSE 1
      ELSE w

\* Mutant: no cap.
WaitResultUncapped(start, now, timeout) == WaitedMs(start, now)

\* What sys_arch_sem_wait and sys_arch_mbox_fetch return when they got what
\* they waited for.
WaitResult(start, now, timeout) ==
  LET w == WaitedMs(start, now)
  IN  IF w < timeout THEN w ELSE timeout

\* Mutant: divides first.
sys_nowCoarse(j) == (j \div HZ) * Second % WordMod

\* The other clock of the port: jiffies * 1000 / HZ, whose product wraps, too.
sys_now(j) == ((j * Second) % WordMod) \div HZ

\* The clock does not wrap between two readings of jiffies.
NoWrapBetween(i, j) == i <= j /\ (i * Second) \div WordMod = (j * Second) \div WordMod

\* MS(timeout) is the kernel's conversion to ticks. The sources do not say
\* which way it rounds, so both ways are allowed.
MS(timeout) ==
  {(timeout * HZ) \div Second, (timeout * HZ + Second - 1) \div Second}

\* The tick counts a timeout may become: 0 milliseconds means no limit.
WaitTicks(timeout) == IF timeout = 0 THEN {INFINITE} ELSE MS(timeout)
==============================================================================
