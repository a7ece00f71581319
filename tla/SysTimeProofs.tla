--------------------------- MODULE SysTimeProofs ---------------------------
(***************************************************************************)
(* What the arithmetic of sys_arch.c guarantees for every tick rate, word  *)
(* size and pair of clock readings.                                        *)
(***************************************************************************)
EXTENDS SysTime, TLAPS

\* A quotient of naturals is a natural, and positive when the dividend is not
\* less than the divisor.
LEMMA Quotient ==
  ASSUME NEW a \in Nat, NEW b \in Nat \ {0}
  PROVE  /\ a \div b \in Nat
         /\ a >= b => a \div b >= 1
BY SMT

\* A remainder is less than the divisor.
LEMMA Remainder ==
  ASSUME NEW a \in Int, NEW b \in Nat \ {0}
  PROVE  a % b \in 0 .. b - 1
BY SMT

\* A product of naturals is a natural.
LEMMA Product ==
  ASSUME NEW a \in Nat, NEW b \in Nat
  PROVE  a * b \in Nat
BY SMT

\* The product of sys_arch.c:162 is a natural number.
LEMMA ElapsedProductNat ==
  ASSUME NEW start \in Word, NEW now \in Word
  PROVE  ElapsedProduct(start, now) \in Nat
<1> DEFINE d == (now - start) % WordMod
           w == d * Second
<1>1. d \in Nat
  BY ClockAssumption, Remainder, now - start \in Int DEF Word
<1>2. w \in Nat
  <2> HIDE DEF d
  <2> QED
    BY <1>1, ClockAssumption, Product
<1>3. w % WordMod \in Nat
  <2> HIDE DEF w
  <2> QED
    BY <1>2, ClockAssumption, Remainder
<1> QED
  BY <1>3 DEF ElapsedProduct

\* The waited time is a natural; it is never zero as long as a tick is at least
\* a millisecond, which is what the minimum of sys_arch.c:102-103 is for.
LEMMA WaitedMsPositive ==
  ASSUME NEW start \in Word, NEW now \in Word
  PROVE  /\ WaitedMs(start, now) \in Nat
         /\ HZ <= Second => WaitedMs(start, now) >= 1
<1> DEFINE w    == ElapsedProduct(start, now) \div HZ
           tick == Second \div HZ
           half == (Second \div 2) \div HZ
<1>1. w \in Nat
  BY ElapsedProductNat, ClockAssumption, Quotient
<1>2. tick \in Nat /\ (HZ <= Second => tick >= 1)
  BY ClockAssumption, Quotient
<1>3. Second \div 2 \in Nat
  BY ClockAssumption
<1>4. half \in Nat /\ (HZ < Second \div 2 => half >= 1)
  BY <1>3, ClockAssumption, Quotient
<1>5. WaitedMs(start, now) = IF w < tick
                             THEN IF HZ < Second \div 2 THEN half ELSE 1
                             ELSE w
  BY DEF WaitedMs
<1> HIDE DEF w, tick, half
<1> QED
  BY <1>1, <1>2, <1>3, <1>4, <1>5, ClockAssumption

\* A number lies between a multiple of the divisor and the next.
LEMMA QuotientBounds ==
  ASSUME NEW a \in Nat, NEW b \in Nat \ {0}
  PROVE  b * (a \div b) <= a /\ a < b * (a \div b) + b
BY SMT

\* Only the quotient lies so.
LEMMA QuotientOrder ==
  ASSUME NEW b \in Nat \ {0}, NEW p \in Int, NEW q \in Int, b * p < b * q + b
  PROVE  p <= q
<1> SUFFICES ASSUME p >= q + 1 PROVE FALSE
  OBVIOUS
<1>1. b * p >= b * (q + 1)
  BY SMT
<1>2. b * (q + 1) = b * q + b
  BY SMT
<1> QED
  BY <1>1, <1>2, SMT

\* The quotient of a sum is the sum of the quotients or one more.
LEMMA QuotientOfSum ==
  ASSUME NEW a \in Nat, NEW d \in Nat, NEW b \in Nat \ {0}
  PROVE  (a + d) \div b - a \div b \in d \div b .. d \div b + 1
<1> DEFINE p == a \div b
           q == d \div b
           r == (a + d) \div b
<1>1. p \in Nat /\ q \in Nat /\ r \in Nat
  BY Quotient
<1>2. /\ b * p <= a /\ a < b * p + b
      /\ b * q <= d /\ d < b * q + b
      /\ b * r <= a + d /\ a + d < b * r + b
  BY QuotientBounds
<1> HIDE DEF p, q, r
<1>3. b * (p + q) = b * p + b * q /\ b * (r - 1) = b * r - b
      /\ b * (p + q + 1) = b * p + b * q + b
  BY <1>1, SMT
<1>4. p + q <= r
  <2>1. b * (p + q) < b * r + b
    BY <1>1, <1>2, <1>3, SMT
  <2> QED
    BY <1>1, <2>1, QuotientOrder
<1>5. r - 1 <= p + q
  <2>1. b * (r - 1) < b * (p + q) + b
    BY <1>1, <1>2, <1>3, SMT
  <2> QED
    BY <1>1, <2>1, QuotientOrder
<1> QED
  BY <1>1, <1>4, <1>5 DEF p, q, r

\* The result of a wait or a fetch that succeeded: a natural that is not above
\* the timeout, and not zero when there is a timeout and a tick is at least a
\* millisecond (sys_arch.c:95-105 and 157-167).
THEOREM WaitResultRange ==
  ASSUME NEW start \in Word, NEW now \in Word, NEW ms \in Nat
  PROVE  /\ WaitResult(start, now, ms) \in 0 .. ms
         /\ HZ <= Second /\ ms > 0 => WaitResult(start, now, ms) \in 1 .. ms
<1> DEFINE w == WaitedMs(start, now)
<1>1. w \in Nat /\ (HZ <= Second => w >= 1)
  BY WaitedMsPositive
<1>2. WaitResult(start, now, ms) = IF w < ms THEN w ELSE ms
  BY DEF WaitResult
<1> HIDE DEF w
<1> QED
  BY <1>1, <1>2, ClockAssumption

\* Between two readings of the tick counter that sys_now does not wrap between,
\* the products of the two clocks differ by the whole time (sys_arch.c:162, 231).
LEMMA NoWrapProducts ==
  ASSUME NEW start \in Word, NEW now \in Word, NoWrapBetween(start, now)
  PROVE  /\ (start * Second) % WordMod \in Nat
         /\ ElapsedProduct(start, now) = (now - start) * Second
         /\ (now * Second) % WordMod
              = ((start * Second) % WordMod) + (now - start) * Second
<1> DEFINE x == start * Second
           y == now * Second
           d == now - start
           z == d * Second
<1>1. start \in Nat /\ now \in Nat /\ d \in Nat /\ d < WordMod
  BY ClockAssumption DEF Word, NoWrapBetween
<1>2. x \in Nat /\ y \in Nat /\ z \in Nat
  BY <1>1, ClockAssumption, Product
<1>3. y = x + z
  BY <1>1, ClockAssumption, SMT
<1>4. d % WordMod = d
  <2> HIDE DEF d
  <2> QED
    BY <1>1, ClockAssumption, SMT
<1>5. x \div WordMod = y \div WordMod
  BY DEF NoWrapBetween
<1>6. ElapsedProduct(start, now) = z % WordMod
  BY <1>4 DEF ElapsedProduct
<1> HIDE DEF x, y, z
<1>7. /\ x % WordMod \in 0 .. WordMod - 1 /\ y % WordMod \in 0 .. WordMod - 1
      /\ x = WordMod * (x \div WordMod) + (x % WordMod)
      /\ y = WordMod * (y \div WordMod) + (y % WordMod)
  BY <1>2, ClockAssumption, Remainder, SMT
<1>8. y % WordMod = (x % WordMod) + z /\ z < WordMod
  <2> DEFINE q == x \div WordMod
             k == WordMod * q
             u == x % WordMod
             v == y % WordMod
  <2>1. q \in Nat
    BY <1>2, ClockAssumption, Quotient
  <2>2. k \in Nat
    BY <2>1, ClockAssumption, Product
  <2>3. x = k + u /\ y = k + v /\ u \in 0 .. WordMod - 1 /\ v \in 0 .. WordMod - 1
    BY <1>5, <1>7
  <2> HIDE DEF k, u, v
  <2>4. v = u + z /\ z < WordMod
    BY <1>2, <1>3, <2>2, <2>3, ClockAssumption
  <2> QED
    BY <2>4 DEF u, v
<1>9. z % WordMod = z
  BY <1>2, <1>8, ClockAssumption, SMT
<1> QED
  BY <1>6, <1>7, <1>8, <1>9 DEF x, y, z

\* What a fetch returns follows the millisecond clock: as long as sys_now does not
\* wrap, the two tell times that differ by half a tick at most
\* (sys_arch.c:162-167, 231).
THEOREM WaitFollowsClock ==
  ASSUME NEW start \in Word, NEW now \in Word, NEW ms \in Nat,
         NoWrapBetween(start, now)
  PROVE  LET passed == sys_now(now) - sys_now(start)
             capped == IF passed < ms THEN passed ELSE ms
             half   == IF HZ < Second \div 2 THEN (Second \div 2) \div HZ ELSE 1
         IN  WaitResult(start, now, ms) - capped \in -half .. half
<1> DEFINE d      == now - start
           z      == d * Second
           w      == z \div HZ
           tick   == Second \div HZ
           passed == sys_now(now) - sys_now(start)
           half   == IF HZ < Second \div 2 THEN (Second \div 2) \div HZ ELSE 1
           waited == IF w < tick THEN half ELSE w
<1>1. d \in Nat
  BY ClockAssumption DEF Word, NoWrapBetween
<1>2. z \in Nat
  BY <1>1, ClockAssumption, Product
<1>3. w \in Nat /\ tick \in Nat
  BY <1>2, ClockAssumption, Quotient
<1>4. half \in Nat \ {0}
  BY ClockAssumption, Quotient
<1>5. passed \in w .. w + 1
  <2> DEFINE u == (start * Second) % WordMod
  <2>1. u \in Nat /\ sys_now(start) = u \div HZ /\ sys_now(now) = (u + z) \div HZ
    BY NoWrapProducts DEF sys_now
  <2> HIDE DEF u, z
  <2>2. (u + z) \div HZ - u \div HZ \in w .. w + 1
    BY <1>2, <2>1, ClockAssumption, QuotientOfSum
  <2> QED
    BY <2>1, <2>2
<1>6. d = 0 => passed = 0
  <2>1. now \in Int /\ start \in Int
    BY ClockAssumption DEF Word
  <2>2. d = 0 => now = start
    BY <2>1
  <2>3. sys_now(start) \in Int
    <3>1. (start * Second) % WordMod \in Nat
      BY NoWrapProducts
    <3> QED
      BY <3>1, ClockAssumption, Quotient DEF sys_now
  <2> QED
    BY <2>2, <2>3
<1>7. w < tick => d = 0
  <2> SUFFICES ASSUME d >= 1 PROVE tick <= w
    BY <1>1, <1>3
  <2>1. Second <= z
    BY <1>1, ClockAssumption, SMT
  <2>2. HZ * tick <= Second /\ z < HZ * w + HZ
    BY <1>2, ClockAssumption, QuotientBounds
  <2>3. HZ * tick < HZ * w + HZ
    <3>1. HZ * tick \in Nat /\ HZ * w \in Nat
      BY <1>3, ClockAssumption, Product
    <3> HIDE DEF tick, w, z
    <3> QED
      BY <1>2, <2>1, <2>2, <3>1, ClockAssumption
  <2> QED
    BY <1>3, <2>3, ClockAssumption, QuotientOrder
<1>8. WaitResult(start, now, ms) = IF waited < ms THEN waited ELSE ms
  BY NoWrapProducts DEF WaitResult, WaitedMs
<1> HIDE DEF d, w, tick, half, passed
<1>9. /\ w < tick => passed = 0
      /\ ~ w < tick => waited = w
      /\ w < tick => waited = half
  BY <1>6, <1>7
<1>10. (IF waited < ms THEN waited ELSE ms) - (IF passed < ms THEN passed ELSE ms)
         \in -half .. half
  BY <1>3, <1>4, <1>5, <1>9
<1> QED
  BY <1>8, <1>10 DEF passed, half

\* The tick count that is passed to the kernel is a natural.
LEMMA WaitTicksNat ==
  ASSUME NEW ms \in Nat
  PROVE  WaitTicks(ms) \subseteq Nat
<1>1. INFINITE \in Nat
  BY ClockAssumption DEF INFINITE
<1>2. ms * HZ \in Nat
  BY ClockAssumption, Product
<1>3. ms * HZ + Second - 1 \in Nat
  BY <1>2, ClockAssumption
<1>4. /\ (ms * HZ) \div Second \in Nat
      /\ (ms * HZ + Second - 1) \div Second \in Nat
  BY <1>2, <1>3, ClockAssumption, Quotient
<1> QED
  BY <1>1, <1>4 DEF WaitTicks, MS
=============================================================================
